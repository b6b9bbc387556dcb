SPECIFICATION Spec
CONSTANTS
  Clients = {c1, c2}
  Workers = {w1, w2}
  SttWorkers = {s1}
  ClientOps = {"update", "confirm", "ready", "sign", "retry", "manual"}
  MaxVersion = 5
  MaxFaults = 0
  Drafts = {d1}
  Edits = {e1}
SYMMETRY Symmetry
INVARIANTS FreshIfUnmodified OnePdf
PROPERTY RunMovesLegally
CHECK_DEADLOCK FALSE
