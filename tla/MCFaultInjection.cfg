SPECIFICATION CampaignSpec
CONSTANTS
  Workers = {1, 2}
  WorkerCapacity <- Capacities
  Links <- OneWay
  Callers <- MCCallers
  Delays = {1}
  Horizons = {1, 2}
INVARIANTS TasksAreNotForgotten AvailableIsReachable GroundTruth RaisesOnlyOnCopies ReplayIsExact
PROPERTY EndingsAreFinal
CHECK_DEADLOCK FALSE
