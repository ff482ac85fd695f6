----------------------- MODULE ReplayDetection_proofs -----------------------
(***************************************************************************)
(* That a replay ends the session, and that nothing else does, for every   *)
(* set of calls, sessions and tokens; and what that means for a client     *)
(* that keeps to the contract.                                             *)
(***************************************************************************)
EXTENDS HonestClient, RefreshSession_proofs

(* A call on its way to revoke a session.                                  *)
Suspects(r) == pc[r] \in {"leave", "reuse", "revoke", "revoking"}

(* A call whose rows are committed, whatever became of its answer.         *)
Over(r) == pc[r] \in {"committed", "granted", "lost", "failed", "crashed"}

(* A call that has exchanged its token and was not cut off since.          *)
HasExchanged(r) == tok[r] # NoToken /\ pc[r] \in {"committed", "granted", "lost"}

-----------------------------------------------------------------------------
(* Rows are completed once, by the two COMMITs of Refresh.                 *)
LEMMA RowChanges ==
  ASSUME IInv, [Next]_vars
  PROVE  /\ \A t \in Tokens : owner[t] # NoSession => owner'[t] = owner[t]
         /\ \A s \in Sessions : expiresAt[s] # Null => expiresAt'[s] = expiresAt[s]
         /\ \A t \in Tokens :
              \/ spentAt'[t] = spentAt[t]
              \/ \E r \in Requests : CommitRotation(r) /\ tok[r] = t
         /\ \A s \in Sessions :
              \/ revokedAt'[s] = revokedAt[s]
              \/ \E r \in Requests : CommitRevoke(r) /\ sess[r] = s
         /\ \A t \in Tokens : spentAt[t] # Null => spentAt'[t] # Null
         /\ \A s \in Sessions : revokedAt[s] # Null => revokedAt'[s] # Null
<1> USE NoSessionAssumption
    DEF IInv, TypeOK, rows, sessionRows, tokenRows, CallsSound, CallSound, HasFound, Bears,
        BearsLogin, BearsRotation, Stored, Opened, LocksSound, Times, Null
<1>1. ASSUME NEW r \in Requests, CommitLogin(r)
      PROVE  /\ UNCHANGED <<spentAt, revokedAt>>
             /\ \A t \in Tokens : owner[t] # NoSession => owner'[t] = owner[t]
             /\ \A s \in Sessions : expiresAt[s] # Null => expiresAt'[s] = expiresAt[s]
  BY <1>1 DEF CommitLogin
<1>2. ASSUME NEW r \in Requests, CommitRotation(r)
      PROVE  /\ UNCHANGED <<expiresAt, revokedAt>>
             /\ \A t \in Tokens : owner[t] # NoSession => owner'[t] = owner[t]
             /\ \A t \in Tokens : t # tok[r] => spentAt'[t] = spentAt[t]
             /\ \A t \in Tokens : spentAt[t] # Null => spentAt'[t] # Null
  BY <1>2 DEF CommitRotation
<1>3. ASSUME NEW r \in Requests, CommitRevoke(r)
      PROVE  /\ UNCHANGED <<expiresAt, owner, spentAt>>
             /\ \A s \in Sessions : s # sess[r] => revokedAt'[s] = revokedAt[s]
             /\ \A s \in Sessions : revokedAt[s] # Null => revokedAt'[s] # Null
  BY <1>3 DEF CommitRevoke
<1> QED
  BY <1>1, <1>2, <1>3, RowWriters

-----------------------------------------------------------------------------
(* What the tables say of the calls, and the calls of the tables.          *)

ReachedSound ==
  \A r \in Requests :
    /\ pc[r] \in {"idle", "lookUp", "verify", "find"} => sess[r] = NoSession
    /\ pc[r] = "find" => tok[r] \in Stored \cup {NoToken}
    /\ pc[r] = "decide" /\ found[r] # Null => spentAt[tok[r]] # Null

Spender(q, t) ==
  /\ Over(q) /\ tok[q] = t /\ sess[q] = owner[t]
  /\ next[q] \in Stored /\ owner[next[q]] = owner[t]

SpentByACall ==
  \A t \in Tokens : spentAt[t] # Null => \E q \in Requests : Spender(q, t)

SuspectsSound ==
  \A r \in Requests :
    Suspects(r) => revokedAt[sess[r]] # Null \/ spentAt[tok[r]] # Null

TurnedAwaySound ==
  \A r \in Requests :
    /\ pc[r] = "revoked" => tok[r] \in Stored /\ revokedAt[owner[tok[r]]] # Null
    /\ pc[r] = "rejected" /\ tok[r] # NoToken =>
         /\ tok[r] \in Stored
         /\ \/ revokedAt[owner[tok[r]]] # Null
            \/ now[r] >= expiresAt[owner[tok[r]]]

ExchangedOnce ==
  \A r \in Requests :
    HasExchanged(r) =>
      /\ spentAt[tok[r]] # Null
      /\ \A q \in Requests : q # r /\ HasExchanged(q) => tok[q] # tok[r]

RInv ==
  /\ ReachedSound /\ SpentByACall /\ SuspectsSound /\ TurnedAwaySound /\ ExchangedOnce
  /\ RevokedOnlyOnReplay

LEMMA ReplayInit == Init => RInv
BY DEF Init, RInv, ReachedSound, SpentByACall, SuspectsSound, Suspects, TurnedAwaySound,
       ExchangedOnce, HasExchanged, RevokedOnlyOnReplay, Null

LEMMA ReachedStep == IInv /\ RInv /\ [Next]_vars => ReachedSound'
<1> SUFFICES ASSUME IInv, RInv, [Next]_vars, NEW r \in Requests
             PROVE  /\ pc'[r] \in {"idle", "lookUp", "verify", "find"} =>
                         sess'[r] = NoSession
                    /\ pc'[r] = "find" => tok'[r] \in Stored' \cup {NoToken}
                    /\ pc'[r] = "decide" /\ found'[r] # Null => spentAt'[tok'[r]] # Null
  BY DEF ReachedSound
<1> USE DEF RInv, ReachedSound, IInv, TypeOK
<1>1. Stored \subseteq Stored'
  BY RowChanges DEF Stored
<1>2. held \subseteq Stored
  BY DEF RowsSound
<1>3. CASE pc'[r] = pc[r]
  <2>1. /\ tok'[r] = tok[r] /\ sess'[r] = sess[r] /\ found'[r] = found[r]
    BY <1>3, Movements
  <2>2. pc[r] = "decide" => tok[r] \in Tokens
    BY DEF CallsSound, CallSound, HasFound, Stored
  <2> QED
    BY <1>1, <1>3, <2>1, <2>2, RowChanges
<1>4. CASE pc'[r] # pc[r]
  <2>1. Moved(r, pc[r], pc'[r])
    BY <1>4, Movements
  <2>2. CASE pc'[r] \in {"idle", "lookUp", "verify", "find"}
    <3>1. pc[r] \in {"idle", "lookUp"}
      BY <2>1, <2>2 DEF Moved, Opening
    <3>2. sess'[r] = sess[r]
      BY <3>1, Movements
    <3>3. pc'[r] = "find" => tok'[r] \in held \cup {NoToken}
      BY <2>1 DEF Moved, Opening
    <3> QED
      BY <2>2, <3>1, <3>2, <3>3, <1>1, <1>2
  <2>3. CASE pc'[r] = "decide"
    <3>1. /\ pc[r] = "find" /\ tok[r] \in Stored /\ found'[r] = spentAt[tok[r]]
      BY <2>1, <2>3 DEF Moved, Opening
    <3>2. tok'[r] = tok[r] /\ tok[r] \in Tokens
      BY <3>1, Movements DEF Stored
    <3> QED
      BY <2>3, <3>1, <3>2, RowChanges
  <2> QED
    BY <2>2, <2>3
<1> QED
  BY <1>3, <1>4

(* The spender of a token is the call whose rotation committed.            *)
LEMMA SpentStep == IInv /\ RInv /\ [Next]_vars => SpentByACall'
<1> SUFFICES ASSUME IInv, RInv, [Next]_vars, NEW t \in Tokens, spentAt'[t] # Null
             PROVE  \E q \in Requests : Spender(q, t)'
  BY DEF SpentByACall
<1> USE NoSessionAssumption DEF Spender, RInv, SpentByACall, IInv, TypeOK
<1>1. CASE spentAt'[t] = spentAt[t]
  <2>1. PICK q \in Requests : Spender(q, t)
    BY <1>1
  <2>2. Over(q)'
    <3>1. CASE pc'[q] = pc[q]
      BY <2>1, <3>1 DEF Over
    <3>2. CASE pc'[q] # pc[q]
      <4>1. Moved(q, pc[q], pc'[q]) /\ pc[q] \in {"committed", "granted", "lost", "failed", "crashed"}
        BY <3>2, <2>1, Movements DEF Over
      <4>2. ~CommitLogin(q) /\ ~CommitRotation(q)
        BY <4>1 DEF CommitLogin, CommitRotation
      <4> QED
        BY <4>1, <4>2 DEF Moved, Over, Opening, Ended
    <3> QED
      BY <3>1, <3>2
  <2>3. tok'[q] = tok[q] /\ sess'[q] = sess[q] /\ next'[q] = next[q]
    BY <2>1, Movements DEF Over
  <2>4. owner'[t] = owner[t] /\ owner'[next[q]] = owner[next[q]]
    <3>1. t \in Stored
      BY <1>1 DEF RowsSound
    <3> QED
      BY <2>1, <3>1, RowChanges DEF Stored
  <2> QED
    BY <2>1, <2>2, <2>3, <2>4 DEF Stored
<1>2. CASE spentAt'[t] # spentAt[t]
  <2>1. PICK r \in Requests : CommitRotation(r) /\ tok[r] = t
    BY <1>2, RowChanges
  <2>2. /\ pc'[r] = "committed" /\ tok'[r] = t /\ sess'[r] = sess[r]
    BY <2>1 DEF CommitRotation, GoTo, Goes, locals
  <2>3. tok[r] \in Stored /\ owner[tok[r]] = sess[r]
    BY <2>1 DEF CommitRotation, CallsSound, CallSound, HasFound, BearsRotation
  <2>4. owner'[t] = owner[t]
    BY <2>1, <2>3, RowChanges DEF Stored
  <2>5. /\ next[r] \in Tokens /\ next'[r] = next[r]
        /\ owner'[next[r]] = sess[r] /\ sess[r] # NoSession
    BY <2>1, <2>3
    DEF CommitRotation, locals, CallsSound, CallSound, Bears, BearsRotation, Stored
  <2> QED
    BY <2>1, <2>2, <2>3, <2>4, <2>5 DEF Over, Stored
<1> QED
  BY <1>1, <1>2

(* A call heads for rejectAsReuse because it saw the token spent or the    *)
(* session revoked, and neither is ever undone.                            *)
LEMMA SuspectsStep == IInv /\ RInv /\ [Next]_vars => SuspectsSound'
<1> SUFFICES ASSUME IInv, RInv, [Next]_vars, NEW r \in Requests, Suspects(r)'
             PROVE  revokedAt'[sess'[r]] # Null \/ spentAt'[tok'[r]] # Null
  BY DEF SuspectsSound
<1> USE DEF RInv, SuspectsSound, IInv, TypeOK
<1>1. CASE Suspects(r)
  <2>1. tok'[r] = tok[r] /\ sess'[r] = sess[r]
    BY <1>1, Movements DEF Suspects
  <2>2. tok[r] \in Tokens /\ sess[r] \in Sessions
    BY <1>1, NoSessionAssumption
    DEF Suspects, CallsSound, CallSound, HasFound, Stored, RowsSound, Opened
  <2> QED
    BY <1>1, <2>1, <2>2, RowChanges
<1>2. CASE ~Suspects(r)
  <2>1. Moved(r, pc[r], pc'[r]) /\ pc'[r] # pc[r]
    BY <1>2, Movements DEF Suspects
  <2>2. \/ pc[r] = "lock" /\ revokedAt[sess[r]] # Null
        \/ pc[r] = "spend" /\ spentAt[tok[r]] # Null
        \/ pc[r] = "decide" /\ spentAt[tok[r]] # Null
    BY <1>2, <2>1 DEF Suspects, Moved, Opening, ReachedSound
  <2>3. tok'[r] = tok[r] /\ sess'[r] = sess[r]
    BY <2>2, Movements
  <2>4. tok[r] \in Tokens /\ sess[r] \in Sessions
    BY <2>2, NoSessionAssumption
    DEF CallsSound, CallSound, HasFound, BearsRotation, Stored, RowsSound, Opened
  <2> QED
    BY <2>2, <2>3, <2>4, RowChanges
<1> QED
  BY <1>1, <1>2

(* The 401 is for a login, an unknown token, an expired session or, once   *)
(* its revocation is committed, a replay.                                  *)
LEMMA TurnedAwayStep == IInv /\ RInv /\ [Next]_vars => TurnedAwaySound'
<1> SUFFICES ASSUME IInv, RInv, [Next]_vars, NEW r \in Requests
             PROVE  /\ pc'[r] = "revoked" =>
                         tok'[r] \in Stored' /\ revokedAt'[owner'[tok'[r]]] # Null
                    /\ pc'[r] = "rejected" /\ tok'[r] # NoToken =>
                         /\ tok'[r] \in Stored'
                         /\ \/ revokedAt'[owner'[tok'[r]]] # Null
                            \/ now'[r] >= expiresAt'[owner'[tok'[r]]]
  BY DEF TurnedAwaySound
<1> USE DEF RInv, TurnedAwaySound, IInv, TypeOK
<1>1. ASSUME NEW t \in Stored
      PROVE  /\ t \in Stored' /\ owner'[t] = owner[t] /\ owner[t] \in Sessions
             /\ expiresAt'[owner[t]] = expiresAt[owner[t]]
             /\ revokedAt[owner[t]] # Null => revokedAt'[owner[t]] # Null
  <2>1. t \in Tokens /\ owner[t] # NoSession /\ owner[t] \in Sessions
        /\ expiresAt[owner[t]] # Null
    BY DEF Stored, RowsSound, Opened
  <2> QED
    BY <2>1, RowChanges DEF Stored
<1>2. CASE pc'[r] = pc[r]
  <2>1. tok'[r] = tok[r] /\ now'[r] = now[r]
    BY <1>2, Movements
  <2> QED
    BY <1>1, <1>2, <2>1
<1>3. CASE pc'[r] # pc[r] /\ pc'[r] = "revoked"
  <2>1. Moved(r, pc[r], "revoked")
    BY <1>3, Movements
  <2>2. \/ pc[r] = "revoke" /\ revokedAt[sess[r]] # Null
        \/ pc[r] = "revoking" /\ CommitRevoke(r)
    BY <2>1 DEF Moved, Opening
  <2>3. /\ tok[r] \in Stored /\ owner[tok[r]] = sess[r] /\ sess[r] \in Sessions
        /\ now[r] \in Times
    BY <1>1, <2>2 DEF CallsSound, CallSound, HasFound
  <2>4. revokedAt'[sess[r]] # Null
    <3>1. CASE revokedAt[sess[r]] # Null
      BY <1>1, <2>3, <3>1
    <3>2. CASE CommitRevoke(r)
      BY <2>3, <3>2 DEF CommitRevoke, Times, Null
    <3> QED
      BY <2>2, <3>1, <3>2
  <2>5. tok'[r] = tok[r]
    BY <2>2, Movements
  <2> QED
    BY <1>1, <1>3, <2>3, <2>4, <2>5
<1>4. CASE pc'[r] # pc[r] /\ pc'[r] = "rejected"
  <2>1. Moved(r, pc[r], "rejected")
    BY <1>4, Movements
  <2>2. CASE pc[r] = "verify"
    <3>1. tok'[r] = NoToken
      BY <2>2, Movements DEF CallsSound, CallSound
    <3> QED
      BY <1>4, <3>1
  <2>3. CASE pc[r] = "revoked"
    <3>1. tok'[r] = tok[r]
      BY <2>3, Movements
    <3> QED
      BY <1>1, <1>4, <2>3, <3>1
  <2>4. CASE pc[r] = "find" /\ tok[r] \notin Stored
    <3>1. tok'[r] = NoToken
      BY <2>4, Movements DEF ReachedSound
    <3> QED
      BY <1>4, <3>1
  <2>5. CASE pc[r] = "decide" /\ now'[r] = clock /\ clock >= expiresAt[sess[r]]
    <3>1. tok'[r] = tok[r] /\ tok[r] \in Stored /\ owner[tok[r]] = sess[r]
      BY <2>5, Movements DEF CallsSound, CallSound, HasFound
    <3> QED
      BY <1>1, <1>4, <2>5, <3>1
  <2> QED
    BY <2>1, <2>2, <2>3, <2>4, <2>5 DEF Moved, Opening
<1> QED
  BY <1>2, <1>3, <1>4

(* A token that has been exchanged is spent, and a rotation commits only   *)
(* while it holds the lock on a token that is not.                         *)
LEMMA ExchangedStep == IInv /\ RInv /\ [Next]_vars => ExchangedOnce'
<1> SUFFICES ASSUME IInv, RInv, [Next]_vars PROVE ExchangedOnce'
  OBVIOUS
<1> USE DEF RInv, IInv, TypeOK
<1>1. ASSUME NEW r \in Requests, HasExchanged(r)'
      PROVE  \/ HasExchanged(r) /\ tok'[r] = tok[r]
             \/ CommitRotation(r) /\ tok'[r] = tok[r]
  <2>1. CASE pc'[r] = pc[r]
    <3>1. tok'[r] = tok[r]
      BY <2>1, Movements
    <3> QED
      BY <1>1, <2>1, <3>1 DEF HasExchanged
  <2>2. CASE pc'[r] # pc[r]
    <3>1. Moved(r, pc[r], pc'[r]) /\ pc'[r] \in {"committed", "granted", "lost"}
      BY <1>1, <2>2, Movements DEF HasExchanged
    <3>2. pc[r] = "committed" \/ CommitLogin(r) \/ CommitRotation(r)
      BY <3>1 DEF Moved, Opening
    <3>3. pc[r] # "idle"
      BY <3>2 DEF CommitLogin, CommitRotation
    <3>4. tok'[r] = tok[r]
      BY <3>3, Movements
    <3>5. ~CommitLogin(r)
      <4>1. CommitLogin(r) => tok[r] = NoToken
        BY DEF CommitLogin, CallsSound, CallSound, BearsLogin
      <4> QED
        BY <1>1, <3>4, <4>1 DEF HasExchanged
    <3> QED
      BY <1>1, <3>2, <3>4, <3>5 DEF HasExchanged
  <2> QED
    BY <2>1, <2>2
<1>2. ASSUME NEW r \in Requests, CommitRotation(r)
      PROVE  /\ tok[r] \in Tokens /\ spentAt[tok[r]] = Null /\ spentAt'[tok[r]] # Null
             /\ \A q \in Requests : q # r => ~CommitRotation(q)
  <2>1. tok[r] \in Tokens /\ spentAt[tok[r]] = Null /\ now[r] \in Times
    BY <1>2 DEF CommitRotation, LocksSound, CallsSound, CallSound, HasFound, Bears,
                BearsRotation, Stored
  <2>2. spentAt'[tok[r]] # Null
    BY <1>2, <2>1 DEF CommitRotation, Times, Null
  <2>3. \A q \in Requests : q # r => ~CommitRotation(q)
    BY <1>2 DEF CommitRotation, GoTo, Goes
  <2> QED
    BY <2>1, <2>2, <2>3
<1>3. \A r \in Requests : HasExchanged(r) => tok[r] \in Tokens
  BY DEF HasExchanged
<1>4. ASSUME NEW r \in Requests, HasExchanged(r)'
      PROVE  /\ spentAt'[tok'[r]] # Null
             /\ \A q \in Requests : q # r /\ HasExchanged(q)' => tok'[q] # tok'[r]
  BY <1>1, <1>2, <1>3, <1>4, RowChanges DEF ExchangedOnce
<1> QED
  BY <1>4 DEF ExchangedOnce

(* Who commits a revoke has presented the token that somebody else spent.  *)
LEMMA RevokedStep == IInv /\ RInv /\ [Next]_vars => RevokedOnlyOnReplay'
<1> SUFFICES ASSUME IInv, RInv, [Next]_vars, NEW s \in Sessions, revokedAt'[s] # Null
             PROVE  \E r, q \in Requests :
                      r # q /\ tok'[r] = tok'[q] /\ sess'[r] = s /\ sess'[q] = s
  BY DEF RevokedOnlyOnReplay
<1> USE DEF RInv, IInv, TypeOK
<1>1. CASE revokedAt'[s] = revokedAt[s]
  <2>1. PICK r, q \in Requests : r # q /\ tok[r] = tok[q] /\ sess[r] = s /\ sess[q] = s
    BY <1>1 DEF RevokedOnlyOnReplay
  <2>2. ASSUME NEW p \in Requests, sess[p] = s
        PROVE  tok'[p] = tok[p] /\ sess'[p] = s
    <3>1. pc[p] \notin {"idle", "verify", "find"}
      BY <2>2, NoSessionAssumption DEF ReachedSound
    <3> QED
      BY <2>2, <3>1, Movements
  <2> QED
    BY <2>1, <2>2
<1>2. CASE revokedAt'[s] # revokedAt[s]
  <2>1. PICK r \in Requests : CommitRevoke(r) /\ sess[r] = s
    BY <1>2, RowChanges
  <2>2. /\ pc[r] = "revoking" /\ revokedAt[s] = Null
        /\ tok[r] \in Tokens /\ owner[tok[r]] = s
    BY <2>1 DEF CommitRevoke, LocksSound, CallsSound, CallSound, HasFound, Stored
  <2>3. spentAt[tok[r]] # Null
    BY <2>1, <2>2 DEF SuspectsSound, Suspects
  <2>4. PICK q \in Requests : Over(q) /\ tok[q] = tok[r] /\ sess[q] = s
    BY <2>2, <2>3 DEF SpentByACall, Spender
  <2>5. q # r
    BY <2>2, <2>4 DEF Over
  <2> QED
    BY <2>1, <2>4, <2>5 DEF CommitRevoke, locals
<1> QED
  BY <1>1, <1>2

LEMMA ReplayStep == IInv /\ RInv /\ [Next]_vars => RInv'
BY ReachedStep, SpentStep, SuspectsStep, TurnedAwayStep, ExchangedStep, RevokedStep
DEF RInv

(* The calls account for every spent token, every revoked session and      *)
(* every answer.                                                           *)
THEOREM CallsAccountForRows == Spec => []RInv
BY ReplayInit, ReplayStep, Invariant, PTL DEF Spec

(* A session is revoked only after one of its tokens was presented twice.  *)
THEOREM NoOneElseIsSignedOut == Spec => []RevokedOnlyOnReplay
<1>1. RInv => RevokedOnlyOnReplay
  BY DEF RInv
<1> QED
  BY <1>1, CallsAccountForRows, PTL

(* Of two answered presentations of a token one at most got a successor,   *)
(* and the other ended the session or came after its deadline.             *)
THEOREM ReplayIsDetected == Spec => []ReplayEndsTheSession
<1>1. IInv /\ RInv => ReplayEndsTheSession
  <2> SUFFICES ASSUME IInv, RInv, NEW r \in Requests, NEW q \in Requests,
                      r # q, tok[r] = tok[q], Exchanged(r)
               PROVE  /\ ~Exchanged(q)
                      /\ pc[q] = "rejected" =>
                           \/ revokedAt[sess[r]] # Null
                           \/ now[q] >= expiresAt[sess[r]]
    BY DEF ReplayEndsTheSession
  <2>1. ~Exchanged(q)
    BY DEF RInv, ExchangedOnce, HasExchanged, Exchanged
  <2>2. owner[tok[r]] = sess[r]
    BY DEF IInv, AnswersAreDurable, Exchanged
  <2> QED
    BY <2>1, <2>2 DEF RInv, TurnedAwaySound, Exchanged
<1> QED
  BY <1>1, CallsAccountForRows, Invariant, PTL

-----------------------------------------------------------------------------
(* What a replay brings about.                                             *)
PresentsSpent(r) == pc[r] = "find" /\ tok[r] \in Stored /\ spentAt[tok[r]] # Null
Broken(r) == pc[r] \in {"failed", "crashed"}
SessionIsOver(r) == tok[r] \in Stored /\ revokedAt[owner[tok[r]]] # Null

(* From the lookup that finds the token spent a call goes to the COMMIT    *)
(* of the revoke, and nowhere else.                                        *)
LEMMA NoWayRoundTheRevoke ==
  ASSUME IInv, RInv, [Next]_vars, NEW r \in Requests
  PROVE  LET Through == SessionIsOver(r)' \/ Broken(r)'
         IN  /\ PresentsSpent(r) =>
                  PresentsSpent(r)' \/ (At(r, "decide") /\ found[r] # Null)' \/ Through
             /\ At(r, "decide") /\ found[r] # Null =>
                  (At(r, "decide") /\ found[r] # Null)' \/ At(r, "reuse")' \/ Through
             /\ At(r, "reuse") => At(r, "reuse")' \/ At(r, "revoke")' \/ Through
             /\ At(r, "revoke") => At(r, "revoke")' \/ At(r, "revoking")' \/ Through
             /\ At(r, "revoking") => At(r, "revoking")' \/ Through
<1>1. /\ pc'[r] # pc[r] => Moved(r, pc[r], pc'[r])
      /\ pc[r] # "idle" => tok'[r] = tok[r]
      /\ pc[r] # "find" => found'[r] = found[r]
  BY Movements
<1>2. pc'[r] = "revoked" => SessionIsOver(r)'
  BY ReplayStep DEF RInv, TurnedAwaySound, SessionIsOver
<1>3. PresentsSpent(r) /\ pc'[r] = "find" => PresentsSpent(r)'
  BY <1>1, RowChanges, NoSessionAssumption DEF PresentsSpent, Stored
<1> QED
  BY <1>1, <1>2, <1>3
  DEF PresentsSpent, Broken, At, Moved, CommitLogin, CommitRotation, Ended

ReplayIsPunished(r) == PresentsSpent(r) ~> SessionIsOver(r) \/ Broken(r)

(* Whoever presents a token that has been exchanged ends the session of    *)
(* it, whatever the others do: the call comes to the COMMIT of its revoke, *)
(* or finds the session revoked, unless it breaks or dies on the way       *)
(* (refresh-session.use-case.ts, rejectAsReuse).                           *)
THEOREM ReplaysArePunished ==
  Spec /\ ServedInTurn /\ RotationsPause => \A r \in Requests : ReplayIsPunished(r)
<1> SUFFICES ASSUME NEW r \in Requests
             PROVE  Spec /\ ServedInTurn /\ RotationsPause => ReplayIsPunished(r)
  OBVIOUS
<1> DEFINE Decided == At(r, "decide") /\ found[r] # Null
           Ending == SessionIsOver(r) \/ Broken(r)
<1>1. IInv /\ RInv /\ [Next]_vars =>
        /\ PresentsSpent(r) => PresentsSpent(r)' \/ Decided' \/ Ending'
        /\ Decided => Decided' \/ At(r, "reuse")' \/ Ending'
        /\ At(r, "reuse") => At(r, "reuse")' \/ At(r, "revoke")' \/ Ending'
        /\ At(r, "revoke") => At(r, "revoke")' \/ At(r, "revoking")' \/ Ending'
        /\ At(r, "revoking") => At(r, "revoking")' \/ Ending'
  BY NoWayRoundTheRevoke
<1>2. ASSUME NEW point \in {"find", "decide", "reuse", "revoke", "revoking"}
      PROVE  ~(At(r, point) /\ Below(r, point))
  BY DEF At, Below, Remaining, Ended
<1>3. /\ PresentsSpent(r) => At(r, "find") /\ ~Below(r, "find")
      /\ Decided => At(r, "decide") /\ ~Below(r, "decide")
      /\ At(r, "reuse") => ~Below(r, "reuse")
      /\ At(r, "revoke") => ~Below(r, "revoke")
      /\ At(r, "revoking") => ~Below(r, "revoking")
  BY <1>2 DEF PresentsSpent, At
<1> HIDE DEF Decided, Ending
<1>4. Spec /\ ServedInTurn /\ RotationsPause =>
        /\ PointIsLeft(r, "find") /\ PointIsLeft(r, "decide") /\ PointIsLeft(r, "reuse")
        /\ PointIsLeft(r, "revoke") /\ PointIsLeft(r, "revoking")
  BY PointsLeft, RevokeLeft
<1>5. Spec /\ ServedInTurn /\ RotationsPause => [](PresentsSpent(r) => <>Ending)
  BY <1>1, <1>3, <1>4, Invariant, CallsAccountForRows, PTL DEF Spec, PointIsLeft
<1> QED
  BY <1>5, PTL DEF ReplayIsPunished, Ending

-----------------------------------------------------------------------------
(* What the client's calls present, and what it knows of them.             *)

(* A call presents a token, or will when it arrives.                       *)
Carries(r, t) == tok[r] = t \/ [call |-> r, token |-> t] \in sent

OnTheirWay ==
  /\ sent \subseteq [call : Requests, token : held \cup {NoToken}]
  /\ \A m \in sent : pc[m.call] = "idle"
  /\ \A m, n \in sent : m.call = n.call => m = n

OnlyTokensOfItsOwn ==
  /\ last \in Requests \cup {NoRequest}
  /\ mine \in held \cup {NoToken}
  /\ \A r \in Requests : tok[r] \in held \cup {NoToken}

(* It presents a token again only when it never heard of the call before.  *)
OnlyRetries ==
  \A r \in Requests, t \in held :
    Carries(r, t) =>
      /\ t = mine /\ r # last => Unheard(r)
      /\ \A q \in Requests : q # r /\ Carries(q, t) => Unheard(q) \/ Unheard(r)

(* The token it has just been given was never presented.                   *)
KeepsTheNewest ==
  last # NoRequest /\ pc[last] = "granted" /\ mine # NoToken =>
    \A r \in Requests : ~Carries(r, mine)

(* The tokens of answers still to come are new to everybody.               *)
NotHeardOf ==
  \A r \in Requests : pc[r] = "committed" =>
    /\ next[r] \notin held
    /\ \A q \in Requests : q # r /\ pc[q] = "committed" => next[q] # next[r]

(* Both calls behind a revoke: the one that exchanged the token, and the   *)
(* one that presented it too.                                              *)
SignedOutBy(s, q, r) ==
  /\ q # r /\ tok[q] = tok[r] /\ tok[q] # NoToken
  /\ Over(q) /\ next[q] \in Stored /\ owner[next[q]] = s
  /\ Unheard(q) \/ Unheard(r)

SignedOutByARetry ==
  \A s \in Sessions : revokedAt[s] # Null => \E q, r \in Requests : SignedOutBy(s, q, r)

ClientInv ==
  /\ IInv /\ RInv
  /\ OnTheirWay /\ OnlyTokensOfItsOwn /\ OnlyRetries /\ KeepsTheNewest
  /\ NotHeardOf /\ SignedOutByARetry

(* The client drives the service as anyone may.                            *)
LEMMA ClientMoves ==
  TypeOK /\ OnTheirWay /\ OnlyTokensOfItsOwn /\ [ClientNext]_clientVars => [Next]_vars
<1> SUFFICES ASSUME TypeOK, OnTheirWay, [ClientNext]_clientVars PROVE [Next]_vars
  OBVIOUS
<1>1. ASSUME NEW m \in sent, Arrive(m) PROVE Next
  BY <1>1 DEF Arrive, OnTheirWay, TypeOK, Next
<1> QED
  BY <1>1 DEF ClientNext, clientVars, LogIn, CallRefresh, Send, GiveUp, Serve, Around, Next

(* An answer, or none, is the last of a call.                              *)
LEMMA EndedStays ==
  ASSUME IInv, [Next]_vars, NEW q \in Requests, pc[q] \in Ended
  PROVE  UNCHANGED <<pc[q], tok[q], sess[q], next[q]>>
<1>1. pc[q] \notin {"idle", "verify", "find", "decide", "commit", "commitLogin"}
  BY DEF Ended
<1>2. ~CommitLogin(q) /\ ~CommitRotation(q)
  BY <1>1 DEF CommitLogin, CommitRotation
<1>3. pc'[q] = pc[q]
  <2> SUFFICES ASSUME pc'[q] # pc[q] PROVE FALSE
    OBVIOUS
  <2>1. Moved(q, pc[q], pc'[q])
    BY Movements
  <2> QED
    BY <1>2, <2>1 DEF Moved, Ended, Opening
<1> QED
  BY <1>1, <1>3, Movements

LEMMA UnheardStays ==
  ASSUME ClientInv, [ClientNext]_clientVars, NEW q \in Requests, Unheard(q)
  PROVE  Unheard(q)'
<1>1. [Next]_vars
  BY ClientMoves DEF ClientInv, IInv
<1>2. givenUp \subseteq givenUp'
  BY DEF ClientNext, clientVars, LogIn, CallRefresh, Send, Arrive, GiveUp, Serve, Around
<1>3. pc[q] \in Ended => pc'[q] = pc[q]
  BY <1>1, EndedStays DEF ClientInv
<1> QED
  BY <1>2, <1>3 DEF Unheard, Ended

(* What a step of the service changes for the client.                      *)
LEMMA ServeChanges ==
  ASSUME IInv, NotHeardOf, NEW p \in Requests, Serve(p)
  PROVE  /\ tok' = tok /\ UNCHANGED <<sent, last, givenUp>>
         /\ \A q \in Requests : pc[q] = "idle" <=> pc'[q] = "idle"
         /\ \A q \in Requests : q # p => pc'[q] = pc[q] /\ next'[q] = next[q]
         /\ \/ held' = held /\ mine' = mine /\ pc'[p] # "granted"
            \/ /\ p = last /\ pc'[p] = "granted"
               /\ mine' = next[p] /\ next[p] \notin held
               /\ held' = held \cup {next[p]}
         /\ NotHeardOf'
<1> USE DEF IInv, TypeOK, locals, NotHeardOf
<1>1. UNCHANGED <<sent, last, givenUp>> /\ (Step(p) \/ Fail(p))
  BY DEF Serve
<1>2. CASE Answer(p)
  <2>1. pc[p] = "committed" /\ UNCHANGED locals
    BY <1>2 DEF Answer
  <2>2. CASE pc' = [pc EXCEPT ![p] = "granted"] /\ held' = held \cup {next[p]}
    <3>1. held' # held
      BY <2>1, <2>2
    <3> QED
      BY <1>1, <2>1, <2>2, <3>1 DEF Serve
  <2>3. CASE pc' = [pc EXCEPT ![p] = "lost"] /\ held' = held
    BY <1>1, <2>1, <2>3 DEF Serve
  <2> QED
    BY <1>2, <2>2, <2>3 DEF Answer, GoTo
<1>3. CASE CommitLogin(p) \/ CommitRotation(p)
  <2>1. /\ next[p] \notin held
        /\ \A q \in Requests : pc[q] = "committed" => next[q] # next[p]
    BY <1>3 DEF CommitLogin, CommitRotation, RowsSound, CallsSound, CallSound, Bears,
                BearsLogin, BearsRotation, AnswersAreDurable
  <2> QED
    BY <1>1, <1>3, <2>1 DEF CommitLogin, CommitRotation, Serve, GoTo
<1>4. CASE ~Answer(p) /\ ~CommitLogin(p) /\ ~CommitRotation(p)
  BY <1>1, <1>4
  DEF Serve, Step, Goes, GoTo, Fail, AtDatabase, Rotating, Revoking, Opening, LookUp,
      RejectLogin, Login, InsertSession, InsertFirstToken, Find, FindSpent, Decides,
      FindExpired, MintThrows, Mint, BeginRotation, LockSession, SpendToken,
      InsertNextToken, LeaveRotation, BeginRevoke, UpdateSession, CommitRevoke, Reject
<1> QED
  BY <1>2, <1>3, <1>4

(* A step takes a call on its way to identity, gives it an answer, or adds *)
(* one.                                                                    *)
LEMMA BooksStep ==
  ClientInv /\ [ClientNext]_clientVars => (OnTheirWay /\ OnlyTokensOfItsOwn /\ NotHeardOf)'
<1> SUFFICES ASSUME ClientInv, [ClientNext]_clientVars
             PROVE  (OnTheirWay /\ OnlyTokensOfItsOwn /\ NotHeardOf)'
  OBVIOUS
<1> USE DEF ClientInv, IInv, TypeOK, OnTheirWay, OnlyTokensOfItsOwn, NotHeardOf
<1>1. ASSUME NEW p \in Requests, LogIn(p) \/ CallRefresh(p)
      PROVE  (OnTheirWay /\ OnlyTokensOfItsOwn /\ NotHeardOf)'
  BY <1>1 DEF LogIn, CallRefresh, Send, OnItsWay, vars, locals
<1>2. ASSUME NEW m \in sent, Arrive(m)
      PROVE  (OnTheirWay /\ OnlyTokensOfItsOwn /\ NotHeardOf)'
  <2>1. /\ sent' = sent \ {m} /\ UNCHANGED <<last, mine, held, next>>
        /\ m.call \in Requests /\ m.token \in held \cup {NoToken}
        /\ \E point \in {"lookUp", "find"} : pc' = [pc EXCEPT ![m.call] = point]
        /\ tok' = tok \/ tok' = [tok EXCEPT ![m.call] = m.token]
    BY <1>2 DEF Arrive, CallLogin, Present, Goes, GoTo, locals
  <2> QED
    BY <2>1
<1>3. CASE GiveUp
  BY <1>3 DEF GiveUp, vars, locals
<1>4. ASSUME NEW p \in Requests, Serve(p)
      PROVE  (OnTheirWay /\ OnlyTokensOfItsOwn /\ NotHeardOf)'
  <2>1. next[p] \in Tokens \cup {NoToken} /\ held \subseteq held'
    BY <1>4, ServeChanges
  <2>2. mine' \in held' \cup {NoToken}
    BY <1>4, ServeChanges
  <2>3. OnTheirWay'
    BY <1>4, <2>1, ServeChanges
  <2> QED
    BY <1>4, <2>1, <2>2, <2>3, ServeChanges
<1>5. CASE Around
  BY <1>5 DEF Around, Crash, UnderWay, Tick, Finished, vars, locals
<1>6. CASE UNCHANGED clientVars
  BY <1>6 DEF clientVars, vars, locals
<1> QED
  BY <1>1, <1>2, <1>3, <1>4, <1>5, <1>6 DEF ClientNext

(* Only the client's own call makes a token be presented once more.        *)
LEMMA CarriesNoMore ==
  ASSUME ClientInv, [ClientNext]_clientVars, NEW r \in Requests, NEW t \in Tokens,
         Carries(r, t)'
  PROVE  Carries(r, t) \/ (CallRefresh(r) /\ t = mine)
<1>0. /\ tok \in [Requests -> Tokens \cup {NoToken}]
      /\ sent \subseteq [call : Requests, token : held \cup {NoToken}]
  BY DEF ClientInv, IInv, TypeOK, OnTheirWay
<1>1. ASSUME NEW p \in Requests, LogIn(p) \/ CallRefresh(p)
      PROVE  Carries(r, t) \/ (CallRefresh(r) /\ t = mine)
  <2>1. \E u \in {NoToken, mine} :
          /\ sent' = sent \cup {[call |-> p, token |-> u]}
          /\ u = NoToken \/ CallRefresh(p)
    BY <1>1 DEF LogIn, CallRefresh, Send
  <2>2. tok' = tok
    BY <1>1 DEF LogIn, CallRefresh, Send, vars, locals
  <2>3. ASSUME NEW u, [call |-> r, token |-> t] = [call |-> p, token |-> u]
        PROVE  r = p /\ t = u
    BY <2>3
  <2> QED
    BY <2>1, <2>2, <2>3, NoTokenAssumption DEF Carries
<1>2. ASSUME NEW m \in sent, Arrive(m) PROVE Carries(r, t)
  <2>1. tok' = tok \/ tok' = [tok EXCEPT ![m.call] = m.token]
    BY <1>2 DEF Arrive, CallLogin, Present, Goes, locals
  <2>2. sent' \subseteq sent /\ m = [call |-> m.call, token |-> m.token]
    BY <1>0, <1>2 DEF Arrive
  <2> QED
    BY <1>0, <2>1, <2>2, NoTokenAssumption DEF Carries
<1>3. ASSUME NEW p \in Requests, Serve(p) PROVE Carries(r, t)
  BY <1>3, ServeChanges DEF ClientInv, Carries
<1>4. CASE GiveUp \/ Around \/ UNCHANGED clientVars
  <2>1. tok' = tok /\ sent' = sent
    BY <1>4 DEF GiveUp, Around, Crash, Tick, Finished, clientVars, vars, locals
  <2> QED
    BY <2>1 DEF Carries
<1> QED
  BY <1>1, <1>2, <1>3, <1>4 DEF ClientNext

(* A call that is not heard of any more, when the client calls again.      *)
LEMMA CarriersAreUnheard ==
  ASSUME ClientInv, NEW p \in Requests, CallRefresh(p)
  PROVE  /\ mine \in held
         /\ \A q \in Requests : Carries(q, mine) => Unheard(q)
<1> USE NoRequestAssumption
    DEF ClientInv, OnlyTokensOfItsOwn, OnlyRetries, KeepsTheNewest
<1>1. mine \in held /\ mine # NoToken
  BY DEF CallRefresh, SignedOut
<1>2. ASSUME NEW q \in Requests, Carries(q, mine) PROVE Unheard(q)
  <2>1. CASE q # last
    BY <1>1, <1>2, <2>1
  <2>2. CASE q = last
    <3>1. pc[q] \in {"lost", "failed", "crashed"}
      BY <1>1, <1>2, <2>2 DEF CallRefresh, Idle, SignedOut, LastCall, Ended
    <3> QED
      BY <3>1 DEF Unheard
  <2> QED
    BY <2>1, <2>2
<1> QED
  BY <1>1, <1>2

LEMMA RetriesStep == ClientInv /\ [ClientNext]_clientVars => (OnlyRetries /\ KeepsTheNewest)'
<1> SUFFICES ASSUME ClientInv, [ClientNext]_clientVars PROVE (OnlyRetries /\ KeepsTheNewest)'
  OBVIOUS
<1> USE NoTokenAssumption, NoRequestAssumption
<1>1. TypeOK /\ TypeOK' /\ [Next]_vars
  <2>1. [Next]_vars
    BY ClientMoves DEF ClientInv, IInv
  <2> QED
    BY <2>1, InvariantStep DEF ClientInv, IInv
<1>2. ASSUME NEW r \in Requests, NEW t \in held', Carries(r, t)',
             NEW q \in Requests, q # r, Carries(q, t)'
      PROVE  Unheard(q)' \/ Unheard(r)'
  <2>1. t \in Tokens
    BY <1>1 DEF TypeOK
  <2>2. CASE Carries(r, t) /\ Carries(q, t)
    <3>1. t \in held
      BY <2>1, <2>2 DEF ClientInv, OnlyTokensOfItsOwn, OnTheirWay, Carries
    <3>2. Unheard(q) \/ Unheard(r)
      BY <1>2, <2>2, <3>1 DEF ClientInv, OnlyRetries
    <3> QED
      BY <3>2, UnheardStays
  <2>3. CASE CallRefresh(r) /\ t = mine /\ ~Carries(r, t)
    <3>1. ~CallRefresh(q)
      BY <1>2, <2>3 DEF CallRefresh, Send, ClientInv, OnlyTokensOfItsOwn
    <3>2. Carries(q, t)
      BY <1>2, <2>1, <3>1, CarriesNoMore
    <3> QED
      BY <2>3, <3>2, CarriersAreUnheard, UnheardStays
  <2>4. CASE CallRefresh(q) /\ t = mine /\ ~Carries(q, t)
    <3>1. ~CallRefresh(r)
      BY <1>2, <2>4 DEF CallRefresh, Send, ClientInv, OnlyTokensOfItsOwn
    <3>2. Carries(r, t)
      BY <1>2, <2>1, <3>1, CarriesNoMore
    <3> QED
      BY <2>4, <3>2, CarriersAreUnheard, UnheardStays
  <2> QED
    BY <1>2, <2>1, <2>2, <2>3, <2>4, CarriesNoMore
<1>3. ASSUME NEW r \in Requests, NEW t \in held', Carries(r, t)', t = mine', r # last'
      PROVE  Unheard(r)'
  <2>1. t \in Tokens
    BY <1>1 DEF TypeOK
  <2>2. ASSUME NEW p \in Requests, CallRefresh(p) PROVE Unheard(r)'
    <3>1. last' = p /\ mine' = mine
      BY <2>2 DEF CallRefresh, Send
    <3>2. Carries(r, mine)
      BY <1>3, <2>1, <3>1, CarriesNoMore DEF CallRefresh, Send
    <3> QED
      BY <2>2, <3>2, CarriersAreUnheard, UnheardStays
  <2>3. CASE \A p \in Requests : ~CallRefresh(p)
    <3>1. Carries(r, t)
      BY <1>3, <2>1, <2>3, CarriesNoMore
    <3>2. t \in held
      BY <2>1, <3>1 DEF ClientInv, OnlyTokensOfItsOwn, OnTheirWay, Carries
    <3>3. t = mine /\ r # last => Unheard(r)
      BY <3>1, <3>2 DEF ClientInv, OnlyRetries
    <3>4. \A p \in Requests : ~LogIn(p)
      BY <1>3, <2>1 DEF LogIn
    <3>5. ASSUME NEW p \in Requests, Serve(p) PROVE t = mine /\ r # last
      BY <1>3, <3>2, <3>5, ServeChanges DEF ClientInv
    <3>6. CASE GiveUp
      <4>1. r = last => r \in givenUp'
        BY <3>6 DEF GiveUp
      <4> QED
        BY <1>3, <3>3, <3>6, <4>1, UnheardStays DEF GiveUp, Unheard
    <3>7. CASE Around \/ UNCHANGED clientVars \/ \E m \in sent : Arrive(m)
      BY <1>3, <3>3, <3>7, UnheardStays DEF Around, clientVars, Arrive
    <3> QED
      BY <2>3, <3>3, <3>4, <3>5, <3>6, <3>7, UnheardStays DEF ClientNext
  <2> QED
    BY <2>2, <2>3
<1>4. KeepsTheNewest'
  <2> SUFFICES ASSUME last' # NoRequest, pc'[last'] = "granted", mine' # NoToken,
                      NEW r \in Requests,
                      tok'[r] = mine' \/ [call |-> r, token |-> mine'] \in sent'
               PROVE  FALSE
    BY DEF KeepsTheNewest, Carries
  <2>1. mine' \in Tokens
    BY <1>1, BooksStep DEF TypeOK, OnlyTokensOfItsOwn
  <2>2. \A p \in Requests : ~LogIn(p) /\ ~CallRefresh(p)
    BY DEF LogIn, CallRefresh, Send, vars
  <2>3. Carries(r, mine')
    <3>1. ASSUME NEW t \in Tokens, t = mine' PROVE Carries(r, t)
      <4>1. Carries(r, t)'
        BY <3>1 DEF Carries
      <4> QED
        BY <2>2, <4>1, CarriesNoMore
    <3> QED
      BY <2>1, <3>1
  <2>4. mine' \in held
    BY <2>1, <2>3 DEF ClientInv, OnlyTokensOfItsOwn, OnTheirWay, Carries
  <2>5. last' \in Requests
    BY BooksStep DEF OnlyTokensOfItsOwn
  <2>6. last' = last /\ mine' = mine /\ pc[last] = "granted"
    <3>1. ASSUME NEW p \in Requests, Serve(p)
          PROVE  last' = last /\ mine' = mine /\ pc[last] = "granted"
      BY <2>4, <2>5, <3>1, ServeChanges DEF ClientInv
    <3>2. ASSUME NEW m \in sent, Arrive(m)
          PROVE  last' = last /\ mine' = mine /\ pc[last] = "granted"
      <4>1. /\ last' = last /\ mine' = mine
            /\ \E point \in {"lookUp", "find"} : pc' = [pc EXCEPT ![m.call] = point]
        BY <3>2 DEF Arrive, CallLogin, Present, Goes, GoTo
      <4> QED
        BY <1>1, <2>5, <4>1 DEF TypeOK
    <3>3. ~GiveUp
      BY DEF GiveUp
    <3>4. CASE Around \/ UNCHANGED clientVars
      BY <1>1, <2>5, <3>4 DEF Around, Crash, Tick, Finished, clientVars, vars, TypeOK
    <3> QED
      BY <2>2, <3>1, <3>2, <3>3, <3>4 DEF ClientNext
  <2> QED
    BY <2>3, <2>5, <2>6 DEF ClientInv, KeepsTheNewest
<1>5. OnlyRetries'
  BY <1>2, <1>3 DEF OnlyRetries
<1> QED
  BY <1>4, <1>5

(* What is committed is the last that a call has to tell.                  *)
LEMMA OverStays ==
  ASSUME IInv, [Next]_vars, NEW q \in Requests, Over(q)
  PROVE  Over(q)' /\ UNCHANGED <<tok[q], sess[q], next[q]>>
<1>1. ~CommitLogin(q) /\ ~CommitRotation(q)
  BY DEF Over, CommitLogin, CommitRotation
<1>2. Over(q)'
  <2>1. pc'[q] # pc[q] => Moved(q, pc[q], pc'[q])
    BY Movements
  <2> QED
    BY <1>1, <2>1 DEF Moved, Over, Opening, Ended
<1> QED
  BY <1>2, Movements DEF Over

(* Who spent the token that the revoking call presents is another call of  *)
(* the client's, and one of the two was never heard of.                    *)
LEMMA SignedOutStep == ClientInv /\ [ClientNext]_clientVars => SignedOutByARetry'
<1> SUFFICES ASSUME ClientInv, [ClientNext]_clientVars, NEW s \in Sessions,
                    revokedAt'[s] # Null
             PROVE  \E q, r \in Requests : SignedOutBy(s, q, r)'
  BY DEF SignedOutByARetry, SignedOutBy
<1>0. [Next]_vars
  BY ClientMoves DEF ClientInv, IInv
<1>1. ASSUME NEW q \in Requests, NEW r \in Requests, SignedOutBy(s, q, r)
      PROVE  SignedOutBy(s, q, r)'
  <2>1. Over(q)' /\ tok'[q] = tok[q] /\ next'[q] = next[q]
    BY <1>0, <1>1, OverStays DEF ClientInv, SignedOutBy
  <2>2. tok'[r] = tok[r]
    <3>1. pc[r] # "idle"
      BY <1>1 DEF SignedOutBy, ClientInv, IInv, CallsSound, CallSound
    <3> QED
      BY <1>0, <3>1, Movements DEF ClientInv
  <2>3. next[q] \in Stored' /\ owner'[next[q]] = s
    BY <1>0, <1>1, RowChanges, NoSessionAssumption DEF ClientInv, SignedOutBy, Stored
  <2>4. Unheard(q)' \/ Unheard(r)'
    BY <1>1, UnheardStays DEF SignedOutBy
  <2> QED
    BY <1>1, <2>1, <2>2, <2>3, <2>4 DEF SignedOutBy
<1>2. CASE revokedAt[s] # Null
  BY <1>1, <1>2 DEF ClientInv, SignedOutByARetry
<1>3. CASE revokedAt[s] = Null
  <2> USE DEF ClientInv, IInv, RInv
  <2>1. PICK r \in Requests : CommitRevoke(r) /\ sess[r] = s
    BY <1>0, <1>3, RowChanges
  <2>2. /\ pc[r] = "revoking" /\ tok[r] \in Tokens /\ owner[tok[r]] = s
    BY <2>1 DEF CommitRevoke, CallsSound, CallSound, HasFound, Stored
  <2>3. spentAt[tok[r]] # Null
    BY <1>3, <2>1, <2>2 DEF SuspectsSound, Suspects
  <2>4. PICK q \in Requests : Spender(q, tok[r])
    BY <2>2, <2>3 DEF SpentByACall
  <2>5. q # r /\ tok[q] = tok[r] /\ tok[r] \in held
    BY <2>2, <2>4, NoTokenAssumption DEF Spender, Over, OnlyTokensOfItsOwn
  <2>6. Unheard(q) \/ Unheard(r)
    BY <2>5 DEF OnlyRetries, Carries
  <2>7. SignedOutBy(s, q, r)
    BY <2>2, <2>4, <2>5, <2>6, NoTokenAssumption DEF SignedOutBy, Spender
  <2> QED
    BY <1>1, <2>7
<1> QED
  BY <1>2, <1>3

LEMMA ClientInvariant == ClientSpec => []ClientInv
<1>1. ClientInit => ClientInv
  <2> SUFFICES ASSUME ClientInit PROVE ClientInv
    OBVIOUS
  <2>1. IInv /\ RInv
    BY InvariantInit, ReplayInit DEF ClientInit
  <2> QED
    BY <2>1 DEF ClientInit, Init, ClientInv, OnTheirWay, OnlyTokensOfItsOwn, OnlyRetries,
                KeepsTheNewest, NotHeardOf, SignedOutByARetry
<1>2. ClientInv /\ [ClientNext]_clientVars => ClientInv'
  <2> SUFFICES ASSUME ClientInv, [ClientNext]_clientVars PROVE ClientInv'
    OBVIOUS
  <2>1. [Next]_vars
    BY ClientMoves DEF ClientInv, IInv
  <2>2. IInv' /\ RInv'
    BY <2>1, InvariantStep, ReplayStep DEF ClientInv
  <2> QED
    BY <2>2, BooksStep, RetriesStep, SignedOutStep DEF ClientInv
<1> QED
  BY <1>1, <1>2, PTL DEF ClientSpec

(* A client that keeps to the contract is signed out only by a retry: two  *)
(* of its calls presented one token, of which one exchanged it, and one    *)
(* was never answered to the client (auth.controller.ts,                   *)
(* refresh-session.use-case.ts, identity.grpc-client.ts).                  *)
THEOREM SignedOutOnlyUnheard == ClientSpec => []SignedOutOnlyAfterAnUnheardCall
<1>1. ClientInv => SignedOutOnlyAfterAnUnheardCall
  BY DEF ClientInv, SignedOutByARetry, SignedOutBy, SignedOutOnlyAfterAnUnheardCall
<1> QED
  BY <1>1, ClientInvariant, PTL

(* What is true of "nobody honest presents A after it was exchanged", a    *)
(* claim that HonestClient refutes: the exchange was by another call of    *)
(* the client itself, and one of the two it never heard of.  Either may    *)
(* have been sent first.                                                   *)
PresentsWhatItNeverHeardOf(r) ==
  PresentsSpent(r) =>
    \E q \in Requests \ {r} :
      /\ tok[q] = tok[r]
      /\ next[q] \in Stored /\ owner[next[q]] = owner[tok[r]]
      /\ Unheard(q) \/ Unheard(r)

THEOREM SpentOnlyUnheard ==
  ClientSpec => [](\A r \in Requests : PresentsWhatItNeverHeardOf(r))
<1>1. ClientInv => \A r \in Requests : PresentsWhatItNeverHeardOf(r)
  <2> SUFFICES ASSUME ClientInv, NEW r \in Requests, PresentsSpent(r)
               PROVE  \E q \in Requests \ {r} :
                        /\ tok[q] = tok[r]
                        /\ next[q] \in Stored /\ owner[next[q]] = owner[tok[r]]
                        /\ Unheard(q) \/ Unheard(r)
    BY DEF PresentsWhatItNeverHeardOf
  <2>1. pc[r] = "find" /\ tok[r] \in Tokens /\ tok[r] # NoToken /\ spentAt[tok[r]] # Null
    BY NoTokenAssumption DEF PresentsSpent, Stored
  <2>2. PICK q \in Requests : Spender(q, tok[r])
    BY <2>1 DEF ClientInv, RInv, SpentByACall
  <2>3. q # r /\ tok[q] = tok[r] /\ tok[r] \in held
    BY <2>1, <2>2 DEF ClientInv, OnlyTokensOfItsOwn, Spender, Over
  <2>4. Unheard(q) \/ Unheard(r)
    BY <2>3 DEF ClientInv, OnlyRetries, Carries
  <2> QED
    BY <2>2, <2>3, <2>4 DEF Spender
<1> QED
  BY <1>1, ClientInvariant, PTL
=============================================================================
