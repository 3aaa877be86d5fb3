CONSTANTS
  c1 = c1
  c2 = c2
  Call = {c1, c2}
  Chain <- OneItem
  Limit <- OneLimit
  Costs = {2, 3, 5}
  Usages = {2, 3, 4, 5}
  WarningPercent = 80
  MinViable = 0
  Modes <- Streamed
  MaxPosts = 1
SPECIFICATION FairSpec
INVARIANTS
  WarningIsSpent
PROPERTIES
  EveryCrossingIsWarned
  SpentSessionCloses
  ExhaustedMeansSpent
  DenialCloses
CHECK_DEADLOCK FALSE
