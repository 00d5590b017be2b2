SPECIFICATION CampaignSpec
CONSTANTS
  Workers = {1, 2}
  WorkerCapacity <- Capacities
  Links <- OneWay
  Callers <- RemovingCallers
  Delays = {1}
  Horizons = {1, 2}
INVARIANT EvictionGroundTruth
CHECK_DEADLOCK FALSE
