\* Up to four calls: one or two logins, and refreshes of the same tokens,
\* over fewer connections than calls.
SPECIFICATION Spec
CONSTANTS
  Requests = {r1, r2, r3, r4}
  Sessions = {s1, s2}
  Tokens = {t1, t2, t3, t4}
  NoSession = NoSession
  NoToken = NoToken
  Lifetime = 1
  MaxTime = 1
  PoolSize = 2
SYMMETRY Symmetry
INVARIANTS
  TypeOK
  OneHead
  AnswersAreDurable
  ReplayEndsTheSession
  RevokedOnlyOnReplay
  AbsoluteLifetime
  SomeCallCanProceed
  OnlyLocksHoldACallUp
PROPERTIES
  RowsAreKept
  NothingJoinsARevokedSession
  ImplementsChain
