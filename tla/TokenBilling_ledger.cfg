SPECIFICATION Spec
CONSTANTS
  c1 = c1
  c2 = c2
  c3 = c3
  None = None
  Calls = {c1, c2, c3}
  Plans <- Cases
  Free = 1
  Premium = 2
  Amounts = {1, 2}
  Limits = {1, 3}
INVARIANTS
  TypeOK
  UsageAccounted
  LimitsHoldUnraced
  FollowsStripe
CHECK_DEADLOCK FALSE
