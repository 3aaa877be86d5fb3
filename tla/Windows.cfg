CONSTANTS
  c1 = c1
  c2 = c2
  c3 = c3
  Call = {c1, c2}
  Scope <- DayScope
  Key <- DayKey
  ScopeOf <- DayScopeOf
  KeysAt <- DayKeysAt
  Dim = {"usd", "tok"}
  Money = "usd"
  Agent = {"a"}
  Session = {"s"}
  NoSession = "-"
  IdemKey = {}
  NoIdem = "-"
  Request <- DayRequest
  Costs <- DayCosts
  Usages <- DayUsages
  Limits <- DayLimits
  InitPolicy <- DayPolicy
  Expiry <- DayExpiry
  Backend = "dynamo"
  MaxAttempts = 1
  MaxTime = 1
SPECIFICATION Spec
INVARIANTS
  Reckoned
PROPERTIES
  OpenWindowsKeepTheirLimit
  ImplementsHardCap
