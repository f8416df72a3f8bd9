SPECIFICATION Spec
CONSTANTS
  q1 = q1
  q2 = q2
  q3 = q3
  q4 = q4
  u1 = u1
  u2 = u2
  u3 = u3
  e1 = e1
  e2 = e2
  e3 = e3
  p1 = p1
  p2 = p2
  None = None
  Calls = {q1, q2, q3, q4}
  Users = {u1, u2, u3}
  Emails = {e1, e2, e3}
  Pods = {p1, p2}
  MaxTries = 2
  Plans <- Cases
PROPERTIES
  ManagedTeamKept
CHECK_DEADLOCK FALSE
