\* Two requests that change settings of one channel; the check stops at the counterexample.
SPECIFICATION Spec
CONSTANTS
  Channels = {c1}
  Requests <- MCRequests
  NoOne = NoOne
  Kinds = {"merge"}
  MaxFailures = 0
INVARIANTS
  MergesAreKept
CHECK_DEADLOCK FALSE
