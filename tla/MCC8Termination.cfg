SPECIFICATION FairSpec
CONSTANTS
  None = None
  Capacity = 2
  MaxWorkers = 2
  Plans <- PlainWorkers
  Impatient = {}
PROPERTY TerminationIsReported
CHECK_DEADLOCK FALSE
