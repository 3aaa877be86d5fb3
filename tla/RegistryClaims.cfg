CONSTANTS
  g1 = g1
  g2 = g2
  openai = openai
  bedrock = bedrock
  test = test
  s1 = s1
  s2 = s2
  r1 = r1
  r2 = r2
  r3 = r3
  NoSecret = NoSecret
  Ambient = Ambient
  Gateway = {g1, g2}
  Provider = {openai, bedrock}
  Secret = {s1, s2}
  Keyed = {openai}
  Iam = {bedrock}
  BootSecret <- KeyInSettings
  BootEnabled = {bedrock}
  Request = {r1, r2}
SPECIFICATION RegistrySpec
INVARIANTS
  ConfiguredHasKey
  DisabledEverywhere
  AuditStatesTheTransition
CHECK_DEADLOCK FALSE
