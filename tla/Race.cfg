CONSTANTS
  c1 = c1
  c2 = c2
  c3 = c3
  Call = {c1, c2, c3}
  Scope <- MCScope
  Key <- MCKey
  ScopeOf <- MCScopeOf
  KeysAt <- RaceKeysAt
  Dim = {"usd"}
  Money = "usd"
  Agent = {"a", "b"}
  Session = {}
  NoSession = "-"
  IdemKey = {}
  NoIdem = "-"
  Request <- RaceRequest
  Costs <- RaceCosts
  Usages <- RaceUsages
  Limits = {}
  InitPolicy <- RacePolicy
  Expiry <- NoExpiry
  Backend = "dynamo"
  MaxAttempts = 1
  MaxTime = 0
SPECIFICATION Spec
INVARIANTS
  AccountingIdentity
  WithinCap
  HoldsMatchReservations
  CommittedMatchesLedger
  SpendIsCovered
  SettlementAlwaysApplies
  PreDispatchIsUnbilled
  PendingTracksUnresolved
PROPERTIES
  GrantsFitBudget
