\* A request that waits for the engine.
SPECIFICATION Spec
CONSTANTS
  Requests = {1}
  Old = 0
  Table <- MCTable
  Names <- MCNames
  Serves <- MCServes
  Asks <- MCAsks
  MaxPolls = 1
  MaxFailures = 1
INVARIANT
  TimeoutMeansNoAnswer
CHECK_DEADLOCK FALSE
