SPECIFICATION Spec
CONSTANTS
  None = None
  Capacity = 2
  MaxWorkers = 3
  Plans <- SafetyPlans
  Impatient = {"authority", "harness", "worker"}
INVARIANTS FailureReportsAreTrue ReportedIsForgotten
PROPERTY WorkersSucceedInOrder
CHECK_DEADLOCK FALSE
