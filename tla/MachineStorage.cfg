SPECIFICATION Spec
CONSTANTS
  MaxFaults = 3
  MaxLosses = 2
CHECK_DEADLOCK FALSE
INVARIANTS RecordedIsWhole OkIsDurable OneFailureLeavesNothing
