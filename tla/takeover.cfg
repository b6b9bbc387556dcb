SPECIFICATION Spec
CONSTANTS
  Clients = {c1}
  Workers = {w1}
  SttWorkers = {s1, s2}
  ClientOps = {"update", "confirm", "ready", "sign", "retry", "manual"}
  MaxVersion = 6
  MaxFaults = 0
  Drafts = {d1}
  Edits = {e1}
SYMMETRY Symmetry
INVARIANT AnalysisExclusive
CHECK_DEADLOCK FALSE
