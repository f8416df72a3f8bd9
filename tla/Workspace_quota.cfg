SPECIFICATION Spec
CONSTANTS
  q1 = q1
  q2 = q2
  q3 = q3
  b1 = b1
  b2 = b2
  f1 = f1
  f2 = f2
  f3 = f3
  u1 = u1
  u2 = u2
  p1 = p1
  p2 = p2
  None = None
  Calls = {q1, q2, q3}
  Bots = {b1, b2}
  Files = {f1, f2, f3}
  Urls = {u1, u2}
  Pods = {p1, p2}
  Plans <- Cases
INVARIANTS
  TypeOK
  QuotasKept
PROPERTIES
  StoresAgree
CHECK_DEADLOCK FALSE
