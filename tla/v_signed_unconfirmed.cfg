SPECIFICATION Spec
CONSTANTS
  Clients = {c1}
  Workers = {w1}
  SttWorkers = {s1}
  ClientOps = {"update", "confirm", "ready", "sign", "retry", "manual"}
  MaxVersion = 4
  MaxFaults = 0
  Drafts = {d1}
  Edits = {e1}
INVARIANT SignedAsConfirmed
CHECK_DEADLOCK FALSE
