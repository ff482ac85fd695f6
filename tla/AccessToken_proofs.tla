------------------------- MODULE AccessToken_proofs -------------------------
(***************************************************************************)
(* What holds of access tokens for every lifetime, every unit of exp and   *)
(* any number of calls: the invariant of RefreshSession, with the time at  *)
(* which a revocation took effect.                                         *)
(***************************************************************************)
EXTENDS AccessToken, RefreshSession_proofs

(* A call whose rows are committed, so that it may still build its answer. *)
Signs(r) == pc[r] \in {"committed", "granted", "lost"}

(* The reading a token is issued with was taken before the session's       *)
(* deadline and before its revocation took effect, however late the call   *)
(* is answered.                                                            *)
IssuedInTime(r) ==
  /\ now[r] \in Times
  /\ now[r] < expiresAt[sess[r]]
  /\ endedAt[sess[r]] # Null => now[r] <= endedAt[sess[r]]

AInv ==
  /\ endedAt \in [Sessions -> Times \cup {Null}]
  /\ \A s \in Sessions : endedAt[s] = Null <=> revokedAt[s] = Null
  /\ \A r \in Requests : Signs(r) => IssuedInTime(r)

-----------------------------------------------------------------------------
(* A step that neither commits anything nor ends one call's waiting leaves *)
(* the calls that sign, their readings and their sessions as they were.    *)
LEMMA SignersKept ==
  ASSUME IInv, [Next]_vars, NEW q \in Requests, Signs(q)',
         ~CommitLogin(q), ~CommitRotation(q)
  PROVE  Signs(q) /\ now'[q] = now[q] /\ sess'[q] = sess[q]
<1> USE DEF IInv, TypeOK, locals, Signs, AtDatabase, Rotating, Revoking, Opening, Ended
<1>1. ASSUME NEW r \in Requests,
             \/ CallLogin(r) \/ LookUp(r) \/ RejectLogin(r)
             \/ InsertSession(r) \/ InsertFirstToken(r)
             \/ \E t \in Tokens \cup {NoToken} : Present(r, t)
             \/ \E s \in Sessions, t \in Tokens : Login(r, s, t)
      PROVE  Signs(q) /\ now'[q] = now[q] /\ sess'[q] = sess[q]
  BY <1>1 DEF CallLogin, LookUp, RejectLogin, InsertSession, InsertFirstToken,
              Present, Login, GoTo, Goes
<1>2. ASSUME NEW r \in Requests,
             \/ Find(r) \/ FindSpent(r) \/ FindExpired(r) \/ MintThrows(r)
             \/ \E t \in Tokens : Mint(r, t)
      PROVE  Signs(q) /\ now'[q] = now[q] /\ sess'[q] = sess[q]
  BY <1>2 DEF Find, FindSpent, Decides, FindExpired, MintThrows, Mint, GoTo, Goes
<1>3. ASSUME NEW r \in Requests,
             \/ BeginRotation(r) \/ LockSession(r) \/ SpendToken(r)
             \/ InsertNextToken(r) \/ LeaveRotation(r)
             \/ BeginRevoke(r) \/ UpdateSession(r) \/ CommitRevoke(r) \/ Reject(r)
      PROVE  Signs(q) /\ now'[q] = now[q] /\ sess'[q] = sess[q]
  BY <1>3 DEF BeginRotation, LockSession, SpendToken, InsertNextToken, LeaveRotation,
              BeginRevoke, UpdateSession, CommitRevoke, Reject, GoTo, Goes
<1>4. ASSUME NEW r \in Requests, Answer(r) \/ Fail(r)
      PROVE  Signs(q) /\ now'[q] = now[q] /\ sess'[q] = sess[q]
  BY <1>4 DEF Answer, Fail, GoTo, Goes
<1>5. ASSUME NEW r \in Requests, r # q, CommitLogin(r) \/ CommitRotation(r)
      PROVE  Signs(q) /\ now'[q] = now[q] /\ sess'[q] = sess[q]
  BY <1>5 DEF CommitLogin, CommitRotation, GoTo, Goes
<1>6. CASE Crash \/ Tick \/ Finished \/ UNCHANGED vars
  BY <1>6 DEF Crash, Tick, Finished, vars
<1> QED
  BY <1>1, <1>2, <1>3, <1>4, <1>5, <1>6 DEF Next, Step

LEMMA AccessInitial == AccessInit => AInv
BY TimeAssumption DEF AccessInit, Init, AInv, Signs, Times, Null

(* The column revoked_at and the history variable are written together.    *)
LEMMA EndedAtStep ==
  ASSUME IInv, TimesSound, AInv, [AccessNext]_accessVars
  PROVE  /\ endedAt' \in [Sessions -> Times \cup {Null}]
         /\ \A s \in Sessions : endedAt'[s] = Null <=> revokedAt'[s] = Null
<1> USE DEF AInv, IInv, TypeOK, Times, Null
<1>1. CASE UNCHANGED accessVars
  BY <1>1 DEF accessVars, vars, rows, sessionRows
<1>2. CASE AccessNext
  <2>1. [Next]_vars
    BY <1>2 DEF AccessNext
  <2>2. \A s \in Sessions : revokedAt[s] # Null => revokedAt'[s] = revokedAt[s]
    <3> USE DEF rows, sessionRows, tokenRows
    <3>1. ASSUME NEW r \in Requests, CommitRevoke(r)
          PROVE  \A s \in Sessions : revokedAt[s] # Null => revokedAt'[s] = revokedAt[s]
      BY <3>1 DEF CommitRevoke, LocksSound, CallsSound, CallSound, HasFound
    <3>2. ASSUME NEW r \in Requests, CommitLogin(r) \/ CommitRotation(r)
          PROVE  \A s \in Sessions : revokedAt[s] # Null => revokedAt'[s] = revokedAt[s]
      BY <3>2 DEF CommitLogin, CommitRotation
    <3> QED
      BY <2>1, <3>1, <3>2, RowWriters
  <2> QED
    BY <1>2, <2>2, TimeAssumption DEF AccessNext
<1> QED
  BY <1>1, <1>2

(* A reading is no later than the clock, and a revocation takes effect at  *)
(* the clock: the order of the two is that of the commits.                 *)
LEMMA IssuedStep ==
  ASSUME IInv, TimesSound, AInv, [AccessNext]_accessVars
  PROVE  \A q \in Requests : Signs(q)' => IssuedInTime(q)'
<1> USE NoSessionAssumption, NoTokenAssumption, TimeAssumption
        DEF AInv, IInv, TypeOK, Times, Null, IssuedInTime, rows, sessionRows, tokenRows
<1>1. CASE UNCHANGED accessVars
  BY <1>1 DEF accessVars, vars, locals, Signs
<1>2. ASSUME AccessNext, NEW q \in Requests, Signs(q)' PROVE IssuedInTime(q)'
  <2>1. [Next]_vars
    BY <1>2 DEF AccessNext
  <2>2. CASE CommitLogin(q)
    <3>1. sess[q] \in Sessions /\ revokedAt[sess[q]] = Null /\ now[q] \in Times
      BY <2>2 DEF CommitLogin, CallsSound, CallSound, Bears, BearsLogin, RowsSound
    <3> QED
      BY <1>2, <2>2, <3>1 DEF AccessNext, CommitLogin, locals
  <2>3. CASE CommitRotation(q)
    <3>1. /\ sess[q] \in Sessions /\ revokedAt[sess[q]] = Null /\ now[q] \in Times
          /\ now[q] < expiresAt[sess[q]]
      BY <2>3 DEF CommitRotation, CallsSound, CallSound, Bears, BearsRotation, HasFound,
                  RowsSound, Stored, Opened, LocksSound, TimesSound, WithinLifetime
    <3> QED
      BY <1>2, <2>3, <3>1 DEF AccessNext, CommitRotation, locals
  <2>4. CASE ~CommitLogin(q) /\ ~CommitRotation(q)
    <3>1. Signs(q) /\ now'[q] = now[q] /\ sess'[q] = sess[q]
      BY <1>2, <2>1, <2>4, SignersKept
    <3>2. sess[q] \in Sessions /\ expiresAt[sess[q]] # Null
      BY <3>1 DEF AnswersAreDurable, Signs, Opened
    <3>3. expiresAt'[sess[q]] = expiresAt[sess[q]]
      <4>1. ASSUME NEW r \in Requests, CommitLogin(r)
            PROVE  expiresAt'[sess[q]] = expiresAt[sess[q]]
        BY <3>2, <4>1 DEF CommitLogin, CallsSound, CallSound, BearsLogin, Opened
      <4>2. ASSUME NEW r \in Requests, CommitRotation(r) \/ CommitRevoke(r)
            PROVE  expiresAt'[sess[q]] = expiresAt[sess[q]]
        BY <4>2 DEF CommitRotation, CommitRevoke
      <4> QED
        BY <2>1, <4>1, <4>2, RowWriters
    <3>4. now[q] <= clock
      BY DEF TimesSound
    <3>5. IssuedInTime(q)
      BY <3>1
    <3>6. endedAt'[sess[q]] = clock \/ endedAt'[sess[q]] = endedAt[sess[q]]
      BY <1>2, <3>2 DEF AccessNext
    <3> QED
      BY <3>1, <3>2, <3>3, <3>4, <3>5, <3>6
  <2> QED
    BY <2>2, <2>3, <2>4
<1> QED
  BY <1>1, <1>2

(* Every behaviour with the history variable is one of RefreshSession.     *)
LEMMA AccessRefines == AccessSpec => Spec
<1>1. AccessInit => Init
  BY DEF AccessInit
<1>2. [AccessNext]_accessVars => [Next]_vars
  BY DEF AccessNext, accessVars
<1> QED
  BY <1>1, <1>2, PTL DEF AccessSpec, Spec

LEMMA SoundTimes == Spec => []TimesSound
BY TimesInit, TimesStep, Invariant, PTL DEF Spec

(* No answer is signed with a reading from after the session's revocation  *)
(* took effect or from after its deadline.                                 *)
THEOREM SignedInTime == AccessSpec => []AInv
<1>1. IInv /\ TimesSound /\ AInv /\ [AccessNext]_accessVars => AInv'
  BY EndedAtStep, IssuedStep DEF AInv
<1> QED
  BY <1>1, AccessInitial, AccessRefines, Invariant, SoundTimes, PTL DEF AccessSpec

-----------------------------------------------------------------------------
(* Rounding down to whole units loses less than one of them.               *)
LEMMA RoundedDown ==
  ASSUME NEW ms \in Nat
  PROVE  /\ NumericDate(ms) \in Int
         /\ NumericDate(ms) * Second <= ms
         /\ ms < NumericDate(ms) * Second + Second
BY AccessTimeAssumption, SMTT(30) DEF NumericDate

(* For a token of its own the verifier decides by the clock alone.         *)
LEMMA Genuine ==
  ASSUME NEW r \in Requests, sess[r] \in Sessions, now[r] \in Nat, NEW t \in Int
  PROVE  Verifies(Issue(r), t) <=> t < NumericDate(AccessExpiresAt(r)) * Second
<1> DEFINE told == AccessExpiresAt(r)
<1>1. told \in Nat /\ NumericDate(told) \in Int
  BY AccessTimeAssumption, RoundedDown DEF AccessExpiresAt, IssuedAt
<1>2. DOMAIN Issue(r) = 1 .. 3 /\ Issue(r)[1] = Header /\ Issue(r)[2] = Payload(r)
  BY DEF Issue
<1>3. SignatureMatches(Issue(r)[1], Issue(r)[2], Issue(r)[3])
  BY DEF Issue, SignatureMatches
<1>4. /\ {"sid", "exp"} \subseteq DOMAIN Payload(r)
      /\ Payload(r).sid = sess[r] /\ Payload(r).exp = NumericDate(told)
  BY DEF Payload
<1>5. ClaimsHold(Payload(r), t) <=> ~(t >= NumericDate(told) * Second)
  BY <1>1, <1>4 DEF ClaimsHold, Expired
<1>6. NumericDate(told) * Second \in Int
  BY <1>1, AccessTimeAssumption
<1> QED
  BY <1>2, <1>3, <1>5, <1>6 DEF Verifies

(* The two services agree on when a token expires, for every unit of exp.  *)
THEOREM ExpiryIsAsTold == AccessSpec => []ToldExpiryHolds
<1>1. IInv /\ AInv => ToldExpiryHolds
  <2> SUFFICES ASSUME IInv, AInv, NEW r \in Issuers, NEW t \in Horizon
               PROVE  /\ Verifies(Issue(r), t) => t < AccessExpiresAt(r)
                      /\ t + Second <= AccessExpiresAt(r) => Verifies(Issue(r), t)
    BY DEF ToldExpiryHolds
  <2>1. r \in Requests /\ sess[r] \in Sessions /\ now[r] \in Nat
    BY TimeAssumption
    DEF Issuers, IInv, AnswersAreDurable, Opened, AInv, Signs, IssuedInTime, Times
  <2>2. t \in Int /\ Second \in Int
    BY AccessTimeAssumption, TimeAssumption DEF Horizon
  <2>3. AccessExpiresAt(r) \in Nat
    BY <2>1, AccessTimeAssumption DEF AccessExpiresAt, IssuedAt
  <2>4. Verifies(Issue(r), t) <=> t < NumericDate(AccessExpiresAt(r)) * Second
    BY <2>1, <2>2, Genuine
  <2> DEFINE cut == NumericDate(AccessExpiresAt(r)) * Second
  <2>5. cut \in Int /\ cut <= AccessExpiresAt(r) /\ AccessExpiresAt(r) < cut + Second
    BY <2>2, <2>3, RoundedDown
  <2> HIDE DEF cut
  <2>6. Verifies(Issue(r), t) <=> t < cut
    BY <2>4 DEF cut
  <2> QED
    BY <2>2, <2>3, <2>5, <2>6
<1> QED
  BY <1>1, AccessRefines, Invariant, SignedInTime, PTL

(* A session's access tokens die with it, one Ttl late at most.            *)
THEOREM AccessEnds == AccessSpec => []AccessEndsWithTheSession
<1>1. IInv /\ AInv /\ ToldExpiryHolds => AccessEndsWithTheSession
  <2> SUFFICES ASSUME IInv, AInv, ToldExpiryHolds,
                      NEW r \in Issuers, NEW t \in Horizon, Verifies(Issue(r), t)
               PROVE  /\ t < expiresAt[sess[r]] + Ttl
                      /\ endedAt[sess[r]] # Null => t < endedAt[sess[r]] + Ttl
    BY DEF AccessEndsWithTheSession, Principal, Issue, Payload
  <2>1. r \in Requests /\ sess[r] \in Sessions /\ expiresAt[sess[r]] # Null
    BY DEF Issuers, IInv, AnswersAreDurable, Opened
  <2>2. IssuedInTime(r)
    BY <2>1 DEF Issuers, AInv, Signs
  <2>3. t \in Int /\ t < now[r] + Ttl
    BY AccessTimeAssumption, TimeAssumption
    DEF ToldExpiryHolds, AccessExpiresAt, IssuedAt, Horizon
  <2>4. expiresAt[sess[r]] \in Int /\ endedAt[sess[r]] \in Int
    BY <2>1, TimeAssumption DEF IInv, TypeOK, AInv, Times, Null
  <2> QED
    BY <2>1, <2>2, <2>3, <2>4, AccessTimeAssumption, TimeAssumption
    DEF IssuedInTime, Times
<1> QED
  BY <1>1, AccessRefines, Invariant, SignedInTime, ExpiryIsAsTold, PTL

(* Every login and refresh that may issue an access token comes to an end. *)
THEOREM EveryIssueEnds ==
  AccessSpec /\ ServedInTurn /\ RotationsPause => EveryCallEnds
BY AccessRefines, EveryCallIsServed, PTL
=============================================================================
