CONSTANTS
  g1 = g1
  g2 = g2
  openai = openai
  bedrock = bedrock
  test = test
  s1 = s1
  s2 = s2
  r1 = r1
  r2 = r2
  r3 = r3
  NoSecret = NoSecret
  Ambient = Ambient
  Gateway = {g1}
  Provider = {openai, bedrock, test}
  Secret = {s1, s2}
  Keyed = {openai}
  Iam = {bedrock}
  BootSecret <- NoKeyInSettings
  BootEnabled = {test}
  Request = {r1, r2, r3}
SPECIFICATION RegistrySpec
INVARIANTS
  InOrder
  EnabledIsConfigured
SYMMETRY Symmetry
CHECK_DEADLOCK FALSE
