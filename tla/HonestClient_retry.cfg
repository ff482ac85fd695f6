SPECIFICATION MCSpec
CONSTANTS
  Requests = {r1, r2, r3}
  Tokens = {11, 12, 13}
  Sessions = {21, 22, 23}
  NoSession = NoSession
  NoToken = NoToken
  NoRequest = NoRequest
  Lifetime = 1
  MaxTime = 1
  PoolSize = 2
SYMMETRY Symmetry
INVARIANTS
  NobodyHonestPresentsASpentToken
