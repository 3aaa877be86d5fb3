CONSTANTS
  a1 = a1
  a2 = a2
  d1 = d1
  u1 = u1
  i1 = i1
  i2 = i2
  g1 = g1
  g2 = g2
  k1 = k1
  k2 = k2
  x1 = x1
  x2 = x2
  m1 = m1
  m2 = m2
  Attempt = {a1, a2}
  Ip = {i1, i2}
  Update = {d1}
  Use = {u1}
  IpLimit = 1
  IpWindow = 1
  MaxTracked = 2
  AccountLimit = 1
  AccountWindow = 1
  LockBase = 1
  LockCap = 2
  MaxTries = 2
  Ttl = 1
  IdleTimeout = 0
  MaxTime = 1
  Gateway = {g1, g2}
  Key = {k1, k2}
  Account = {x1, x2}
  Email = {m1, m2}
  NoAccount = NoAccount
SPECIFICATION MCSpec
INVARIANTS
  FailuresAreCounted
  AddressIsThrottled
  RevocationIsComplete
  HandedKeysResolve
PROPERTIES
  RevokedStaysRevoked
SYMMETRY Interchangeable
CHECK_DEADLOCK FALSE
