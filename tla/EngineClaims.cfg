CONSTANTS
  c1 = c1
  c2 = c2
  c3 = c3
  Call = {c1, c2, c3}
  Scope <- MCScope
  Key <- MCKey
  ScopeOf <- MCScopeOf
  KeysAt <- RetryKeysAt
  Dim = {"usd"}
  Money = "usd"
  Agent = {"a"}
  Session = {}
  NoSession = "-"
  IdemKey = {"i"}
  NoIdem = "-"
  Request <- RetryRequest
  Costs <- RetryCosts
  Usages <- RaceUsages
  Limits = {}
  InitPolicy <- RetryPolicies
  Expiry <- NoExpiry
  Backend = "dynamo"
  MaxAttempts = 2
  MaxTime = 0
SPECIFICATION Spec
INVARIANTS
  IndexHoldsOpenWork
  IdentityCountsOverage
PROPERTIES
  RetryIsNotADenial
CHECK_DEADLOCK FALSE
