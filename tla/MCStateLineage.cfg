SPECIFICATION OracleSpec
CONSTANTS
  NULL = NULL
  p1 = p1
  s1 = s1
  s2 = s2
  c1 = c1
  c2 = c2
  c3 = c3
  r1 = r1
  r2 = r2
  a1 = a1
  a2 = a2
  a3 = a3
  o1 = o1
  e1 = e1
  f1 = f1
  f2 = f2
  x1 = x1
  x2 = x2
  k1 = k1
  EvidenceRecords <- MCEvidenceRecords
  Times <- MCTimes
  SemanticValidity <- MCSemanticValidity
  Callers <- MCCallers
  ProgramIds = {p1}
  SessionIds = {s1, s2}
  ContinuationIds = {c1, c2, c3}
  RequestIds = {r1, r2}
  AttemptIds = {a1, a2, a3}
  OutputIds = {o1}
  EvidenceIds = {e1}
  PhaseIds = {f1, f2}
  StateIds = {x1, x2}
  ReplicaIds = {k1}
  BindingIds = {}
  Subjects = {}
  Locations = {}
INVARIANTS SnapshotsRestore ConsumptionIsSafe
PROPERTIES TaintIsPermanent DurableUntilInvalidated
SYMMETRY Symmetry
CHECK_DEADLOCK FALSE
