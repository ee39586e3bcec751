\* Three requests at one channel, of every kind, one of which may fail.
\* The requests of an instance are finite: it stops when all have ended.
SPECIFICATION MCSpec
CONSTANTS
  Channels = {c1}
  Requests <- MCRequests
  NoOne = NoOne
  Kinds = {"create", "start", "stop", "logout", "delete", "update", "merge", "reset"}
  MaxFailures = 1
INVARIANTS
  TypeOK
  RowTellsTheSession
PROPERTIES
  CommitsOwnColumns
  EveryRequestEnds
CHECK_DEADLOCK FALSE
