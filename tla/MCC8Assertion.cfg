SPECIFICATION Spec
CONSTANTS
  None = None
  Capacity = 2
  MaxWorkers = 1
  Plans <- NoFaults
  Impatient = {}
INVARIANT AssertionHolds
CHECK_DEADLOCK FALSE
