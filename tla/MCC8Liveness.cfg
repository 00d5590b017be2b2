SPECIFICATION LivenessSpec
CONSTANTS
  None = None
  Capacity = 2
  MaxWorkers = 2
  Plans <- WindingDownAndSucceeding
  Impatient = {}
PROPERTIES WorkersWindDown TerminationIsNoticed
CHECK_DEADLOCK FALSE
