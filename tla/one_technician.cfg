SPECIFICATION Spec
CONSTANTS
  Clients = {c1}
  Workers = {w1, w2}
  SttWorkers = {s1}
  ClientOps = {"update", "confirm", "ready", "sign", "retry", "manual"}
  MaxVersion = 9
  MaxFaults = 1
  Drafts = {d1}
  Edits = {e1}
SYMMETRY Symmetry
INVARIANTS TypeOK StageAgreement AnalysisExclusive ReviewIsBinding
PROPERTY LifecycleHolds
CHECK_DEADLOCK FALSE
