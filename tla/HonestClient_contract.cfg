\* A login, a refresh that is given up or breaks, the retry, and one more.
SPECIFICATION MCSpec
CONSTANTS
  Requests = {r1, r2, r3, r4}
  Tokens = {11, 12, 13, 14}
  Sessions = {21, 22}
  NoSession = NoSession
  NoToken = NoToken
  NoRequest = NoRequest
  Lifetime = 1
  MaxTime = 1
  PoolSize = 2
SYMMETRY Symmetry
INVARIANTS
  SignedOutOnlyAfterAnUnheardCall
