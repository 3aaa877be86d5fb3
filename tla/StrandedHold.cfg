CONSTANTS
  c1 = c1
  c2 = c2
  c3 = c3
  Call = {c1, c2}
  Scope <- MCScope
  Key <- MCKey
  ScopeOf <- MCScopeOf
  KeysAt <- PairKeysAt
  Dim = {"usd"}
  Money = "usd"
  Agent = {"a"}
  Session = {}
  NoSession = "-"
  IdemKey = {"i"}
  NoIdem = "-"
  Request <- PairRequest
  Costs <- RaceCosts
  Usages <- RaceUsages
  Limits = {}
  InitPolicy <- RacePolicy
  Expiry <- NoExpiry
  Backend = "dynamo"
  MaxAttempts = 1
  MaxTime = 0
SPECIFICATION FairSpec
PROPERTIES
  HoldsEventuallyResolve
