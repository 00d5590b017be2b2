SPECIFICATION ExperimentsSpec
CONSTANTS
  NULL = NULL
  RequestIds = {"r", "rp"}
  AttemptIds = {"a", "a1", "a2", "a3"}
  OutputIds = {"o1", "o2"}
  ContinuationIds = {"c"}
  ProgramIds = {"p"}
  SessionIds = {"s"}
  PhaseIds = {"p1", "p2"}
  StateIds = {"x"}
  ReplicaIds = {}
  EvidenceIds = {}
  EvidenceRecords = {}
  Times = {0}
  BindingIds = {"b1", "b2", "b3", "b4"}
  Subjects = {"state:x"}
  Locations = {"w1", "w2", "w3", "w4"}
  Script = {}
  MaxTime = 100
  Callers <- NoCallers
  SemanticValidity <- AnySemantics
INVARIANTS TrialsEndAsDeclared VerdictsAreTruthful NothingLeaksBetweenTrials
PROPERTY CasesEnd
CHECK_DEADLOCK FALSE
