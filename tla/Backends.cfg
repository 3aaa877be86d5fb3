CONSTANTS
  Res = {"r1", "r2"}
  Scope = {"team", "agent"}
  Limit <- MCLimit
  Costs = {2}
  Actuals = {1, 3}
  Page = 100
  ListLimit = 100
  Token = {"t1"}
  MaxTime = 1
SPECIFICATION Spec
INVARIANTS
  SameBooks
  SameVerdict
CHECK_DEADLOCK FALSE
