\* Four calls over two connections: a call waits for a connection, a revoke
\* for a rotation or another revoke, a rotation for a revoke or a rotation.
\* A second is two units of the clock, so that an expiry may fall inside one.
SPECIFICATION MCSpec
CONSTANTS
  Requests = {1, 2, 3, 4}
  Tokens = {11, 12, 13, 14}
  Sessions = {21}
  NoSession = NoSession
  NoToken = NoToken
  Lifetime = 1
  MaxTime = 1
  PoolSize = 2
  Secret = Secret
  Ttl = 3
  Second = 2
INVARIANTS
  AccessEndsWithTheSession
  ToldExpiryHolds
PROPERTIES
  EveryCallEnds
