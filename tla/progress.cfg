SPECIFICATION FairSpec
CONSTANTS
  Clients = {c1}
  Workers = {w1}
  SttWorkers = {s1}
  ClientOps = {"update", "confirm", "ready", "sign", "retry", "manual"}
  MaxVersion = 8
  MaxFaults = 1
  Drafts = {d1}
  Edits = {e1}
PROPERTIES UndisturbedDraftingEnds PdfStageEnds
CHECK_DEADLOCK FALSE
