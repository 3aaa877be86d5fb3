CONSTANTS
  c1 = c1
  c2 = c2
  c3 = c3
  m1 = m1
  m2 = m2
  m3 = m3
  m4 = m4
  p1 = p1
  p2 = p2
  k1 = k1
  none = none
  team = team
  agent = agent
  tools = tools
  Team = 25
  Room = 13
  Call = {c1, c2, c3}
  Model = {m1, m2, m3, m4}
  Provider = {p1, p2}
  Feature = {tools}
  Chain <- MCChain
  AllowFallback = TRUE
  MaxAttempts = 4
  Allocated = {m1, m2}
  Parent = {team, agent}
  Limit <- Limits
  Priced = {m1, m2, m3}
  Rate <- Rates
  Output <- Outputs
  Context <- Windows
  Supports <- Features
  Soft = {m3}
  SafetyBps = 200
  Tokens <- Counts
  Needs <- Asks
  Key <- Keys
  IdemKey = {k1}
SPECIFICATION Spec
INVARIANTS
  Routed
CHECK_DEADLOCK FALSE
