SPECIFICATION LinkedSpec
CONSTANTS
  NULL = NULL
  r1 = r1
  r2 = r2
  a1 = a1
  a2 = a2
  a3 = a3
  e1 = e1
  e2 = e2
  o1 = o1
  c1 = c1
  RequestIds = {r1, r2}
  AttemptIds = {a1, a2, a3}
  OutputIds = {o1, e2}   \* one identifier is offered for an output and for Evidence
  EvidenceIds = {e1, e2}
  ContinuationIds = {c1}
  Times <- MCTimes
  EvidenceRecords <- MCEvidenceRecords
  Script <- MCScript
  MaxTime = 2
  AttemptFaults <- MCAttemptFaults
  DeliveryFaults = {"DELIVERY_DELAY", "DELIVERY_DROP", "DELIVERY_DUPLICATE"}
  MaxFaults = 2
INVARIANTS CommitsObserveSuccess FaultsAreSafe
PROPERTIES RetriesFenceTheirAttempt RepeatsChangeNothing
