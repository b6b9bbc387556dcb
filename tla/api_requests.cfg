SPECIFICATION FairSpec
CONSTANTS
  Requests = {r1, r2, r3}
  Sessions = {s1}
  Orgs = {o1}
  Keys = {k1}
  Bodies = {b1}
  MaxFaults = 1
INVARIANTS TypeOK OneHolder AcknowledgedOnce CreatedIsReal CleanLogoutHolds
PROPERTIES StoredAnswerStays EveryRequestEnds
CHECK_DEADLOCK FALSE
