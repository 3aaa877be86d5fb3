CONSTANTS
  Res = {"r1", "r2"}
  Scope = {"team", "agent"}
  Limit <- MCLimit
  Costs = {2}
  Actuals = {1, 3}
  Page = 2
  ListLimit = 2
  Token = {"t1", "t2"}
  MaxTime = 1
SPECIFICATION Spec
INVARIANTS
  PendingIsHeld
  EvidenceSettles
  RevokesEvery
  ListsAreWhole
  LedgerReadable
  AuditReadable
CHECK_DEADLOCK FALSE
