CONSTANTS
  c1 = c1
  c2 = c2
  Call = {c1, c2}
  Chain <- TwoItems
  Limit <- TwoLimits
  Costs = {3, 6}
  Usages = {2, 4}
  WarningPercent = 60
  MinViable = 2
  Modes <- AllModes
  MaxPosts = 1
SPECIFICATION Spec
INVARIANTS
  Followed
CHECK_DEADLOCK FALSE
