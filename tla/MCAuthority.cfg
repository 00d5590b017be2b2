SPECIFICATION AuthoritySpec
CONSTANTS
  NULL = NULL
  r1 = r1
  c1 = c1
  a1 = a1
  a2 = a2
  a3 = a3
  o1 = o1
  b1 = b1
  b2 = b2
  b3 = b3
  s1 = s1
  s2 = s2
  l1 = l1
  e1 = e1
  e2 = e2
  RequestIds = {r1}
  AttemptIds = {a1, a2, a3}
  OutputIds = {o1, a3}   \* one identifier is offered for an attempt and for an output
  ContinuationIds = {c1}
  BindingIds = {b1, b2, b3}
  Subjects = {s1, s2}
  Locations = {l1}
  EvidenceIds = {e1, e2}
  EvidenceRecords <- MCEvidenceRecords
  Times = {0, 1}
INVARIANTS OracleHolds CommitIsEvidenced BindingOracleHolds HistoryIsLinear
PROPERTIES DecisionsAreFinal ImplementsFencedRegister StaleCandidatesStayDead
CHECK_DEADLOCK FALSE
