SPECIFICATION Spec
CONSTANTS
  Requests = {r1, r2}
  Users = {u1, u2}
  Emails = {e1, e2}
  Subjects = {g1, g2}
  Passwords = {p1, p2}
  Attempts = {t1, t2}
  Earlier = s0
  Limit = 1
  MaxFaults = 1
SYMMETRY Symmetry
INVARIANTS TypeOK SessionIsProven SettingSticks ThrottleExpires
PROPERTIES SubjectKeepsUser
CHECK_DEADLOCK FALSE
