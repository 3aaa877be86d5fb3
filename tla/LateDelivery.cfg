CONSTANTS
  e1 = e1
  e2 = e2
  e3 = e3
  h1 = h1
  h2 = h2
  o1 = o1
  o2 = o2
  Entry = {e1, e2, e3}
  Kind <- MCKind
  Amount <- MCAmount
  Handler = {h1, h2}
  Operator = {o1, o2}
  Limits = {10, 5}
  Initial = 10
  Percent = 20
  Interval = 2
  MarkLife = 3
  MaxTime = 3
  Modes <- LateModes
SPECIFICATION FairSpec
PROPERTIES
  RunawayIsAlwaysPaused
CHECK_DEADLOCK FALSE
