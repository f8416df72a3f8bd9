SPECIFICATION FairSpec
CONSTANTS
  a1 = a1
  h1 = h1
  h2 = h2
  t1 = t1
  t2 = t2
  Appts <- OneAppt
  Start <- OneStart
  Keys <- TwoKeys
  Minutes <- Minutes2
  Hops = {h1}
  For <- OneHop
  Ticks = {t1, t2}
  Window = 1
  Scan = 20
  Period = 2
  MaxTick = 1
  Horizon = 9
  Failures = FALSE
INVARIANTS SlotGetsOneAttempt
PROPERTIES ClaimsAreResolved
