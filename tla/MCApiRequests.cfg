\* One request for any route and one for a sample of them, one failure.
\* The requests of an instance are finite: it stops when all have ended.
SPECIFICATION FairSpec
CONSTANTS
  Requests = {1, 2}
  Old = 0
  Table <- MCTable
  Names <- MCNames
  Serves <- MCServes
  Asks <- MCAsks
  MaxPolls = 1
  MaxFailures = 1
INVARIANTS
  TypeOK
  RefusedLeavesNoTrace
  MediaRowHasFile
  SentMessageHasRow
  OneFatePerCommand
PROPERTIES
  RowsChangeWithAnswers
  EveryRequestEnds
CHECK_DEADLOCK FALSE
