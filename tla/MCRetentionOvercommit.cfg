SPECIFICATION RetentionSpec
CONSTANTS
  NULL = NULL
  None = None
  e1 = e1
  e2 = e2
  e3 = e3
  x = x
  y = y
  EvidenceIds = {e1, e2, e3}
  EvidenceRecords <- MCEvidenceRecords
  Times = {0, 1}
  Capacity = 2
  MaxFrames = 5
  MaxScript = 4
  Scripts <- MCScripts
  Identifiers <- MCIdentifiers
  Delays = {0, 1}
  Horizons = {1, 2}
  MaxEvents = 4
  a = a
  b = b
  c = c
  s1 = s1
  RStates = {a, b, c}
  RSessions = {s1}
  SessionOf <- OneSession
  Capacities = {1}
  Ttls = {1}
  MaxTime = 2
  MaxAdmits = 3
SYMMETRY AlikeStates
INVARIANT NoAuditOvercommit
CHECK_DEADLOCK FALSE
