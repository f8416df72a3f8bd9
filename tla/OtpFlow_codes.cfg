SPECIFICATION Spec
CONSTANTS
  q1 = q1
  q2 = q2
  q3 = q3
  c1 = c1
  c2 = c2
  Chats = {c1, c2}
  OffWidget = {c2}
  a1 = a1
  a2 = a2
  Addrs = {a1, a2}
  Calls = {q1, q2, q3}
  Plans <- Cases
  Cap <- CapOf
  Span <- SpanOf
  Ttl <- TtlOf
  Cooldown = 1
  InFlight = 2
  Freshness = 3
  TokenTtl = 3
  MaxTries = 1
  Horizon = 2
  None = None
INVARIANTS
  TypeOK
  ProofsHold
  LimitsHoldUnraced
PROPERTIES
  OneCodeAtATime
CHECK_DEADLOCK FALSE
