------------------------ MODULE RefreshSession_proofs ------------------------
(***************************************************************************)
(* What holds of RefreshSession for every set of calls, sessions and       *)
(* tokens, every lifetime and every pool.                                  *)
(***************************************************************************)
EXTENDS RefreshSession, FiniteSetTheorems, TLAPS

(* A call that has minted a token and not yet committed it.                *)
BearsLogin(r) == pc[r] \in {"create", "insertFirst", "commitLogin"}
BearsRotation(r) == pc[r] \in {"rotate", "lock", "spend", "insert", "commit"}
Bears(r) == BearsLogin(r) \/ BearsRotation(r)

(* A refresh that has found its token.                                     *)
HasFound(r) ==
  pc[r] \in {"decide", "leave", "reuse", "revoke", "revoking"} \/ BearsRotation(r)

(* Stored rows carry generated ids, hang off an existing session, and only *)
(* they are spent, revoked or known to clients.                            *)
RowsSound ==
  /\ Stored \subseteq minted /\ Opened \subseteq minted
  /\ held \subseteq Stored
  /\ \A t \in Stored : owner[t] \in Opened
  /\ \A t \in Tokens \ Stored : spentAt[t] = Null
  /\ \A s \in Sessions \ Opened : revokedAt[s] = Null

(* What a call knows at its place.                                         *)
CallSound(r) ==
  /\ pc[r] \in {"idle", "lookUp", "verify"} => tok[r] = NoToken
  /\ HasFound(r) => tok[r] \in Stored /\ owner[tok[r]] = sess[r]
  /\ pc[r] \in {"leave", "reuse", "revoke", "revoking"} => now[r] \in Times
  /\ Bears(r) => next[r] \in (Tokens \cap minted) \ Stored /\ now[r] \in Times
  /\ BearsLogin(r) => sess[r] \in (Sessions \cap minted) \ Opened /\ tok[r] = NoToken
CallsSound == \A r \in Requests : CallSound(r)

(* Calls under way never share what they have generated.                   *)
MintedApart ==
  \A r, q \in Requests :
    r # q =>
      /\ Bears(r) /\ Bears(q) => next[r] # next[q]
      /\ BearsLogin(r) /\ BearsLogin(q) => sess[r] # sess[q]

(* What a row lock guarantees its holder until it commits.                 *)
LocksSound ==
  \A r, q \in Requests :
    /\ pc[r] \in {"spend", "insert", "commit", "revoking"} => revokedAt[sess[r]] = Null
    /\ pc[r] \in {"insert", "commit"} => spentAt[tok[r]] = Null
    /\ (r # q /\ pc[r] \in {"insert", "commit"} /\ pc[q] \in {"insert", "commit"}) =>
         tok[r] # tok[q]
    /\ (r # q /\ pc[r] = "revoking" /\ pc[q] \in {"spend", "insert", "commit", "leave", "revoking"}) =>
         sess[r] # sess[q]

IInv ==
  /\ TypeOK
  /\ RowsSound /\ CallsSound /\ MintedApart /\ LocksSound
  /\ OneHead /\ AnswersAreDurable

-----------------------------------------------------------------------------
(* Three steps write rows; every other step leaves both tables alone.      *)
LEMMA RowWriters ==
  ASSUME [Next]_vars
  PROVE  \/ \E r \in Requests : CommitLogin(r) \/ CommitRotation(r) \/ CommitRevoke(r)
         \/ UNCHANGED rows
<1> USE DEF vars, rows, sessionRows, tokenRows
<1>1. CASE Crash \/ Tick \/ Finished \/ UNCHANGED vars
  BY <1>1 DEF Crash, UnderWay, Tick, Finished
<1>2. ASSUME NEW r \in Requests, Step(r), ~CommitLogin(r), ~CommitRotation(r),
             ~CommitRevoke(r)
      PROVE  UNCHANGED rows
  BY <1>2 DEF Step, Goes, LookUp, RejectLogin, Login, InsertSession, InsertFirstToken,
              Find, FindSpent, Decides, FindExpired, MintThrows, Mint, BeginRotation,
              LockSession, SpendToken, InsertNextToken, LeaveRotation, BeginRevoke,
              UpdateSession, Reject, Answer
<1>3. ASSUME NEW r \in Requests,
             \/ CallLogin(r)
             \/ \E t \in Tokens \cup {NoToken} : Present(r, t)
             \/ Fail(r)
      PROVE  UNCHANGED rows
  BY <1>3 DEF CallLogin, Goes, Present, Fail
<1> QED
  BY <1>1, <1>2, <1>3 DEF Next

(* Ids are never taken back, and only stored tokens reach a client.        *)
LEMMA Ledgers ==
  ASSUME IInv, [Next]_vars
  PROVE  minted \subseteq minted' /\ held' \subseteq Stored
<1> USE DEF vars
<1>1. CASE Crash \/ Tick \/ Finished \/ UNCHANGED vars
  BY <1>1 DEF Crash, UnderWay, Tick, Finished, IInv, AnswersAreDurable
<1>2. ASSUME NEW r \in Requests, Step(r)
      PROVE  minted \subseteq minted' /\ held' \subseteq Stored
  BY <1>2 DEF Step, Goes, LookUp, RejectLogin, Login, InsertSession, InsertFirstToken,
              CommitLogin, Find, FindSpent, Decides, FindExpired, MintThrows, Mint,
              BeginRotation, LockSession, SpendToken, InsertNextToken, CommitRotation,
              LeaveRotation, BeginRevoke, UpdateSession, CommitRevoke, Reject, Answer,
              IInv, AnswersAreDurable
<1>3. ASSUME NEW r \in Requests,
             \/ CallLogin(r)
             \/ \E t \in Tokens \cup {NoToken} : Present(r, t)
             \/ Fail(r)
      PROVE  minted \subseteq minted' /\ held' \subseteq Stored
  BY <1>3 DEF CallLogin, Goes, Present, Fail, IInv, AnswersAreDurable
<1> QED
  BY <1>1, <1>2, <1>3 DEF Next

-----------------------------------------------------------------------------
(* Each part of the invariant is preserved by every step.                  *)

(* Times are only ever copied from now, which is set by then.              *)
LEMMA TypeStep == IInv /\ [Next]_vars => TypeOK'
<1> SUFFICES ASSUME IInv, [Next]_vars PROVE TypeOK'
  OBVIOUS
<1> USE TimeAssumption, NoSessionAssumption, NoTokenAssumption
         DEF IInv, TypeOK, locals, rows, sessionRows, tokenRows, Points,
             AtDatabase, Rotating, Revoking, Opening, Ended, Times, Null, CallsSound, CallSound, HasFound, Bears,
             BearsLogin, BearsRotation
<1>1. ASSUME NEW r \in Requests, NEW s \in Sessions, NEW t \in Tokens, Login(r, s, t)
      PROVE  TypeOK'
  BY <1>1 DEF Login, GoTo, Goes
<1>2. ASSUME NEW r \in Requests, CallLogin(r) PROVE TypeOK'
  BY <1>2 DEF CallLogin, GoTo, Goes
<1>3. ASSUME NEW r \in Requests, LookUp(r) PROVE TypeOK'
  BY <1>3 DEF LookUp, GoTo, Goes
<1>4. ASSUME NEW r \in Requests, RejectLogin(r) PROVE TypeOK'
  BY <1>4 DEF RejectLogin, GoTo, Goes
<1>5. ASSUME NEW r \in Requests, NEW t \in Tokens \cup {NoToken}, Present(r, t)
      PROVE  TypeOK'
  BY <1>5 DEF Present, GoTo, Goes
<1>6. ASSUME NEW r \in Requests, InsertSession(r) PROVE TypeOK'
  BY <1>6 DEF InsertSession, GoTo, Goes
<1>7. ASSUME NEW r \in Requests, InsertFirstToken(r) PROVE TypeOK'
  BY <1>7 DEF InsertFirstToken, GoTo, Goes
<1>8. ASSUME NEW r \in Requests, CommitLogin(r) PROVE TypeOK'
  BY <1>8 DEF CommitLogin, GoTo, Goes
<1>9. ASSUME NEW r \in Requests, Find(r) PROVE TypeOK'
  BY <1>9 DEF Find, GoTo, Goes, Stored
<1>10. ASSUME NEW r \in Requests, FindSpent(r) PROVE TypeOK'
  BY <1>10 DEF FindSpent, Decides, GoTo, Goes
<1>11. ASSUME NEW r \in Requests, FindExpired(r) PROVE TypeOK'
  BY <1>11 DEF FindExpired, Decides, GoTo, Goes
<1>12. ASSUME NEW r \in Requests, NEW t \in Tokens, Mint(r, t) PROVE TypeOK'
  BY <1>12 DEF Mint, GoTo, Goes
<1>13. ASSUME NEW r \in Requests, MintThrows(r) PROVE TypeOK'
  BY <1>13 DEF MintThrows, Decides, GoTo, Goes
<1>14. ASSUME NEW r \in Requests, BeginRotation(r) PROVE TypeOK'
  BY <1>14 DEF BeginRotation, GoTo, Goes
<1>15. ASSUME NEW r \in Requests, LockSession(r) PROVE TypeOK'
  BY <1>15 DEF LockSession, GoTo, Goes
<1>16. ASSUME NEW r \in Requests, SpendToken(r) PROVE TypeOK'
  BY <1>16 DEF SpendToken, GoTo, Goes
<1>17. ASSUME NEW r \in Requests, InsertNextToken(r) PROVE TypeOK'
  BY <1>17 DEF InsertNextToken, GoTo, Goes
<1>18. ASSUME NEW r \in Requests, CommitRotation(r) PROVE TypeOK'
  BY <1>18 DEF CommitRotation, GoTo, Goes
<1>19. ASSUME NEW r \in Requests, LeaveRotation(r) PROVE TypeOK'
  BY <1>19 DEF LeaveRotation, GoTo, Goes
<1>20. ASSUME NEW r \in Requests, BeginRevoke(r) PROVE TypeOK'
  BY <1>20 DEF BeginRevoke, GoTo, Goes
<1>21. ASSUME NEW r \in Requests, UpdateSession(r) PROVE TypeOK'
  BY <1>21 DEF UpdateSession, GoTo, Goes
<1>22. ASSUME NEW r \in Requests, CommitRevoke(r) PROVE TypeOK'
  BY <1>22 DEF CommitRevoke, GoTo, Goes
<1>23. ASSUME NEW r \in Requests, Reject(r) PROVE TypeOK'
  BY <1>23 DEF Reject, GoTo, Goes
<1>24. ASSUME NEW r \in Requests, Answer(r) PROVE TypeOK'
  BY <1>24 DEF Answer, GoTo, Goes, AnswersAreDurable, Stored
<1>25. ASSUME NEW r \in Requests, Fail(r) PROVE TypeOK'
  BY <1>25 DEF Fail, GoTo, Goes
<1>26. ASSUME Crash PROVE TypeOK'
  BY <1>26 DEF Crash, UnderWay
<1>27. ASSUME Tick PROVE TypeOK'
  BY <1>27 DEF Tick
<1>28. CASE UNCHANGED vars
  BY <1>28 DEF vars
<1> QED
  BY <1>1, <1>2, <1>3, <1>4, <1>5, <1>6, <1>7, <1>8, <1>9, <1>10, <1>11,
     <1>12, <1>13, <1>14, <1>15, <1>16, <1>17, <1>18, <1>19, <1>20, <1>21,
     <1>22, <1>23, <1>24, <1>25, <1>26, <1>27, <1>28
  DEF Next, Step, Finished

(* What a call has generated stays unstored until its own COMMIT, and what *)
(* it has found stays stored.                                              *)
LEMMA CallsStep == IInv /\ [Next]_vars => CallsSound'
<1> SUFFICES ASSUME IInv, [Next]_vars PROVE CallsSound'
  OBVIOUS
<1> USE TimeAssumption, NoSessionAssumption, NoTokenAssumption
         DEF IInv, TypeOK, locals, rows, sessionRows, tokenRows, CallsSound,
             CallSound, HasFound, Bears, BearsLogin, BearsRotation, Stored, Opened, Times,
             Null, RowsSound, MintedApart, AtDatabase, Rotating, Revoking, Opening, Ended
<1>1. ASSUME NEW r \in Requests, NEW s \in Sessions, NEW t \in Tokens, Login(r, s, t)
      PROVE  CallsSound'
  <2> SUFFICES ASSUME NEW q \in Requests PROVE CallSound(q)'
    BY DEF CallsSound
  <2>1. CASE q = r
    BY <1>1, <2>1 DEF Login, GoTo, Goes
  <2>2. CASE q # r
    BY <1>1, <2>2 DEF Login, GoTo, Goes
  <2> QED
    BY <2>1, <2>2
<1>2. ASSUME NEW r \in Requests, CallLogin(r) PROVE CallsSound'
  BY <1>2 DEF CallLogin, GoTo, Goes
<1>3. ASSUME NEW r \in Requests, LookUp(r) PROVE CallsSound'
  BY <1>3 DEF LookUp, GoTo, Goes
<1>4. ASSUME NEW r \in Requests, RejectLogin(r) PROVE CallsSound'
  BY <1>4 DEF RejectLogin, GoTo, Goes
<1>5. ASSUME NEW r \in Requests, NEW t \in Tokens \cup {NoToken}, Present(r, t)
      PROVE  CallsSound'
  BY <1>5 DEF Present, GoTo, Goes
<1>6. ASSUME NEW r \in Requests, InsertSession(r) PROVE CallsSound'
  BY <1>6 DEF InsertSession, GoTo, Goes
<1>7. ASSUME NEW r \in Requests, InsertFirstToken(r) PROVE CallsSound'
  BY <1>7 DEF InsertFirstToken, GoTo, Goes
<1>8. ASSUME NEW r \in Requests, CommitLogin(r) PROVE CallsSound'
  BY <1>8 DEF CommitLogin, GoTo, Goes
<1>9. ASSUME NEW r \in Requests, Find(r) PROVE CallsSound'
  BY <1>9 DEF Find, GoTo, Goes
<1>10. ASSUME NEW r \in Requests, FindSpent(r) PROVE CallsSound'
  BY <1>10 DEF FindSpent, Decides, GoTo, Goes
<1>11. ASSUME NEW r \in Requests, FindExpired(r) PROVE CallsSound'
  BY <1>11 DEF FindExpired, Decides, GoTo, Goes
<1>12. ASSUME NEW r \in Requests, NEW t \in Tokens, Mint(r, t)
      PROVE  CallsSound'
  BY <1>12 DEF Mint, GoTo, Goes
<1>13. ASSUME NEW r \in Requests, MintThrows(r) PROVE CallsSound'
  BY <1>13 DEF MintThrows, Decides, GoTo, Goes
<1>14. ASSUME NEW r \in Requests, BeginRotation(r) PROVE CallsSound'
  BY <1>14 DEF BeginRotation, GoTo, Goes
<1>15. ASSUME NEW r \in Requests, LockSession(r) PROVE CallsSound'
  BY <1>15 DEF LockSession, GoTo, Goes
<1>16. ASSUME NEW r \in Requests, SpendToken(r) PROVE CallsSound'
  BY <1>16 DEF SpendToken, GoTo, Goes
<1>17. ASSUME NEW r \in Requests, InsertNextToken(r) PROVE CallsSound'
  BY <1>17 DEF InsertNextToken, GoTo, Goes
<1>18. ASSUME NEW r \in Requests, CommitRotation(r) PROVE CallsSound'
  BY <1>18 DEF CommitRotation, GoTo, Goes
<1>19. ASSUME NEW r \in Requests, LeaveRotation(r) PROVE CallsSound'
  BY <1>19 DEF LeaveRotation, GoTo, Goes
<1>20. ASSUME NEW r \in Requests, BeginRevoke(r) PROVE CallsSound'
  BY <1>20 DEF BeginRevoke, GoTo, Goes
<1>21. ASSUME NEW r \in Requests, UpdateSession(r) PROVE CallsSound'
  BY <1>21 DEF UpdateSession, GoTo, Goes
<1>22. ASSUME NEW r \in Requests, CommitRevoke(r) PROVE CallsSound'
  BY <1>22 DEF CommitRevoke, GoTo, Goes
<1>23. ASSUME NEW r \in Requests, Reject(r) PROVE CallsSound'
  BY <1>23 DEF Reject, GoTo, Goes
<1>24. ASSUME NEW r \in Requests, Answer(r) PROVE CallsSound'
  BY <1>24 DEF Answer, GoTo, Goes
<1>25. ASSUME NEW r \in Requests, Fail(r) PROVE CallsSound'
  BY <1>25 DEF Fail, GoTo, Goes
<1>26. ASSUME Crash PROVE CallsSound'
  BY <1>26 DEF Crash, UnderWay
<1>27. ASSUME Tick PROVE CallsSound'
  BY <1>27 DEF Tick
<1>28. CASE UNCHANGED vars
  BY <1>28 DEF vars
<1> QED
  BY <1>1, <1>2, <1>3, <1>4, <1>5, <1>6, <1>7, <1>8, <1>9, <1>10, <1>11,
     <1>12, <1>13, <1>14, <1>15, <1>16, <1>17, <1>18, <1>19, <1>20, <1>21,
     <1>22, <1>23, <1>24, <1>25, <1>26, <1>27, <1>28
  DEF Next, Step, Finished

(* Login and Mint generate outside minted; nobody else changes next.       *)
LEMMA MintedApartStep == IInv /\ [Next]_vars => MintedApart'
<1> SUFFICES ASSUME IInv, [Next]_vars PROVE MintedApart'
  OBVIOUS
<1> USE NoSessionAssumption, NoTokenAssumption DEF IInv, TypeOK, locals, rows, sessionRows, tokenRows, MintedApart,
             CallsSound, CallSound, HasFound, Bears, BearsLogin, BearsRotation,
             AtDatabase, Rotating, Revoking, Opening, Ended
<1>1. ASSUME NEW r \in Requests, NEW s \in Sessions, NEW t \in Tokens, Login(r, s, t)
      PROVE  MintedApart'
  BY <1>1 DEF Login, GoTo, Goes
<1>2. ASSUME NEW r \in Requests, CallLogin(r) PROVE MintedApart'
  BY <1>2 DEF CallLogin, GoTo, Goes
<1>3. ASSUME NEW r \in Requests, LookUp(r) PROVE MintedApart'
  BY <1>3 DEF LookUp, GoTo, Goes
<1>4. ASSUME NEW r \in Requests, RejectLogin(r) PROVE MintedApart'
  BY <1>4 DEF RejectLogin, GoTo, Goes
<1>5. ASSUME NEW r \in Requests, NEW t \in Tokens \cup {NoToken}, Present(r, t)
      PROVE  MintedApart'
  BY <1>5 DEF Present, GoTo, Goes
<1>6. ASSUME NEW r \in Requests, InsertSession(r) PROVE MintedApart'
  BY <1>6 DEF InsertSession, GoTo, Goes
<1>7. ASSUME NEW r \in Requests, InsertFirstToken(r) PROVE MintedApart'
  BY <1>7 DEF InsertFirstToken, GoTo, Goes
<1>8. ASSUME NEW r \in Requests, CommitLogin(r) PROVE MintedApart'
  BY <1>8 DEF CommitLogin, GoTo, Goes
<1>9. ASSUME NEW r \in Requests, Find(r) PROVE MintedApart'
  BY <1>9 DEF Find, GoTo, Goes
<1>10. ASSUME NEW r \in Requests, FindSpent(r) PROVE MintedApart'
  BY <1>10 DEF FindSpent, Decides, GoTo, Goes
<1>11. ASSUME NEW r \in Requests, FindExpired(r) PROVE MintedApart'
  BY <1>11 DEF FindExpired, Decides, GoTo, Goes
<1>12. ASSUME NEW r \in Requests, NEW t \in Tokens, Mint(r, t)
      PROVE  MintedApart'
  BY <1>12 DEF Mint, GoTo, Goes
<1>13. ASSUME NEW r \in Requests, MintThrows(r) PROVE MintedApart'
  BY <1>13 DEF MintThrows, Decides, GoTo, Goes
<1>14. ASSUME NEW r \in Requests, BeginRotation(r) PROVE MintedApart'
  BY <1>14 DEF BeginRotation, GoTo, Goes
<1>15. ASSUME NEW r \in Requests, LockSession(r) PROVE MintedApart'
  BY <1>15 DEF LockSession, GoTo, Goes
<1>16. ASSUME NEW r \in Requests, SpendToken(r) PROVE MintedApart'
  BY <1>16 DEF SpendToken, GoTo, Goes
<1>17. ASSUME NEW r \in Requests, InsertNextToken(r) PROVE MintedApart'
  BY <1>17 DEF InsertNextToken, GoTo, Goes
<1>18. ASSUME NEW r \in Requests, CommitRotation(r) PROVE MintedApart'
  BY <1>18 DEF CommitRotation, GoTo, Goes
<1>19. ASSUME NEW r \in Requests, LeaveRotation(r) PROVE MintedApart'
  BY <1>19 DEF LeaveRotation, GoTo, Goes
<1>20. ASSUME NEW r \in Requests, BeginRevoke(r) PROVE MintedApart'
  BY <1>20 DEF BeginRevoke, GoTo, Goes
<1>21. ASSUME NEW r \in Requests, UpdateSession(r) PROVE MintedApart'
  BY <1>21 DEF UpdateSession, GoTo, Goes
<1>22. ASSUME NEW r \in Requests, CommitRevoke(r) PROVE MintedApart'
  BY <1>22 DEF CommitRevoke, GoTo, Goes
<1>23. ASSUME NEW r \in Requests, Reject(r) PROVE MintedApart'
  BY <1>23 DEF Reject, GoTo, Goes
<1>24. ASSUME NEW r \in Requests, Answer(r) PROVE MintedApart'
  BY <1>24 DEF Answer, GoTo, Goes
<1>25. ASSUME NEW r \in Requests, Fail(r) PROVE MintedApart'
  BY <1>25 DEF Fail, GoTo, Goes
<1>26. ASSUME Crash PROVE MintedApart'
  BY <1>26 DEF Crash, UnderWay
<1>27. ASSUME Tick PROVE MintedApart'
  BY <1>27 DEF Tick
<1>28. CASE UNCHANGED vars
  BY <1>28 DEF vars
<1> QED
  BY <1>1, <1>2, <1>3, <1>4, <1>5, <1>6, <1>7, <1>8, <1>9, <1>10, <1>11,
     <1>12, <1>13, <1>14, <1>15, <1>16, <1>17, <1>18, <1>19, <1>20, <1>21,
     <1>22, <1>23, <1>24, <1>25, <1>26, <1>27, <1>28
  DEF Next, Step, Finished

(* A lock is granted when nobody holds a conflicting one, so what the      *)
(* holder read stays true until it commits.                                *)
LEMMA LocksStep == IInv /\ [Next]_vars => LocksSound'
<1> SUFFICES ASSUME IInv, [Next]_vars PROVE LocksSound'
  OBVIOUS
<1> USE NoSessionAssumption, NoTokenAssumption DEF IInv, TypeOK, locals, rows, sessionRows, tokenRows, LocksSound,
             CallsSound, CallSound, HasFound, Bears, BearsLogin, BearsRotation, MintedApart,
             RowsSound, Stored, Opened, SharesSession, UpdatesSession, UpdatesToken,
             SessionShareable, SessionUpdatable, TokenUpdatable,
             AtDatabase, Rotating, Revoking, Opening, Ended
<1>1. ASSUME NEW r \in Requests, NEW s \in Sessions, NEW t \in Tokens, Login(r, s, t)
      PROVE  LocksSound'
  BY <1>1 DEF Login, GoTo, Goes
<1>2. ASSUME NEW r \in Requests, CallLogin(r) PROVE LocksSound'
  BY <1>2 DEF CallLogin, GoTo, Goes
<1>3. ASSUME NEW r \in Requests, LookUp(r) PROVE LocksSound'
  BY <1>3 DEF LookUp, GoTo, Goes
<1>4. ASSUME NEW r \in Requests, RejectLogin(r) PROVE LocksSound'
  BY <1>4 DEF RejectLogin, GoTo, Goes
<1>5. ASSUME NEW r \in Requests, NEW t \in Tokens \cup {NoToken}, Present(r, t)
      PROVE  LocksSound'
  BY <1>5 DEF Present, GoTo, Goes
<1>6. ASSUME NEW r \in Requests, InsertSession(r) PROVE LocksSound'
  BY <1>6 DEF InsertSession, GoTo, Goes
<1>7. ASSUME NEW r \in Requests, InsertFirstToken(r) PROVE LocksSound'
  BY <1>7 DEF InsertFirstToken, GoTo, Goes
<1>8. ASSUME NEW r \in Requests, CommitLogin(r) PROVE LocksSound'
  BY <1>8 DEF CommitLogin, GoTo, Goes
<1>9. ASSUME NEW r \in Requests, Find(r) PROVE LocksSound'
  BY <1>9 DEF Find, GoTo, Goes
<1>10. ASSUME NEW r \in Requests, FindSpent(r) PROVE LocksSound'
  BY <1>10 DEF FindSpent, Decides, GoTo, Goes
<1>11. ASSUME NEW r \in Requests, FindExpired(r) PROVE LocksSound'
  BY <1>11 DEF FindExpired, Decides, GoTo, Goes
<1>12. ASSUME NEW r \in Requests, NEW t \in Tokens, Mint(r, t)
      PROVE  LocksSound'
  BY <1>12 DEF Mint, GoTo, Goes
<1>13. ASSUME NEW r \in Requests, MintThrows(r) PROVE LocksSound'
  BY <1>13 DEF MintThrows, Decides, GoTo, Goes
<1>14. ASSUME NEW r \in Requests, BeginRotation(r) PROVE LocksSound'
  BY <1>14 DEF BeginRotation, GoTo, Goes
<1>15. ASSUME NEW r \in Requests, LockSession(r) PROVE LocksSound'
  BY <1>15 DEF LockSession, GoTo, Goes
<1>16. ASSUME NEW r \in Requests, SpendToken(r) PROVE LocksSound'
  BY <1>16 DEF SpendToken, GoTo, Goes
<1>17. ASSUME NEW r \in Requests, InsertNextToken(r) PROVE LocksSound'
  BY <1>17 DEF InsertNextToken, GoTo, Goes
<1>18. ASSUME NEW r \in Requests, CommitRotation(r) PROVE LocksSound'
  BY <1>18 DEF CommitRotation, GoTo, Goes
<1>19. ASSUME NEW r \in Requests, LeaveRotation(r) PROVE LocksSound'
  BY <1>19 DEF LeaveRotation, GoTo, Goes
<1>20. ASSUME NEW r \in Requests, BeginRevoke(r) PROVE LocksSound'
  BY <1>20 DEF BeginRevoke, GoTo, Goes
<1>21. ASSUME NEW r \in Requests, UpdateSession(r) PROVE LocksSound'
  BY <1>21 DEF UpdateSession, GoTo, Goes
<1>22. ASSUME NEW r \in Requests, CommitRevoke(r) PROVE LocksSound'
  BY <1>22 DEF CommitRevoke, GoTo, Goes
<1>23. ASSUME NEW r \in Requests, Reject(r) PROVE LocksSound'
  BY <1>23 DEF Reject, GoTo, Goes
<1>24. ASSUME NEW r \in Requests, Answer(r) PROVE LocksSound'
  BY <1>24 DEF Answer, GoTo, Goes
<1>25. ASSUME NEW r \in Requests, Fail(r) PROVE LocksSound'
  BY <1>25 DEF Fail, GoTo, Goes
<1>26. ASSUME Crash PROVE LocksSound'
  BY <1>26 DEF Crash, UnderWay
<1>27. ASSUME Tick PROVE LocksSound'
  BY <1>27 DEF Tick
<1>28. CASE UNCHANGED vars
  BY <1>28 DEF vars
<1> QED
  BY <1>1, <1>2, <1>3, <1>4, <1>5, <1>6, <1>7, <1>8, <1>9, <1>10, <1>11,
     <1>12, <1>13, <1>14, <1>15, <1>16, <1>17, <1>18, <1>19, <1>20, <1>21,
     <1>22, <1>23, <1>24, <1>25, <1>26, <1>27, <1>28
  DEF Next, Step, Finished

(* A call reaches committed only by its own COMMIT, and rows are kept.     *)
LEMMA AnswersStep == IInv /\ [Next]_vars => AnswersAreDurable'
<1> SUFFICES ASSUME IInv, [Next]_vars PROVE AnswersAreDurable'
  OBVIOUS
<1> USE TimeAssumption, NoSessionAssumption, NoTokenAssumption
         DEF IInv, TypeOK, locals, rows, sessionRows, tokenRows, AnswersAreDurable,
             RowsSound, CallsSound, CallSound, HasFound, Bears, BearsLogin, BearsRotation,
             Stored, Opened, Times, Null, AtDatabase, Rotating, Revoking, Opening, Ended
<1>1. ASSUME NEW r \in Requests, NEW s \in Sessions, NEW t \in Tokens, Login(r, s, t)
      PROVE  AnswersAreDurable'
  BY <1>1 DEF Login, GoTo, Goes
<1>2. ASSUME NEW r \in Requests, CallLogin(r) PROVE AnswersAreDurable'
  BY <1>2 DEF CallLogin, GoTo, Goes
<1>3. ASSUME NEW r \in Requests, LookUp(r) PROVE AnswersAreDurable'
  BY <1>3 DEF LookUp, GoTo, Goes
<1>4. ASSUME NEW r \in Requests, RejectLogin(r) PROVE AnswersAreDurable'
  BY <1>4 DEF RejectLogin, GoTo, Goes
<1>5. ASSUME NEW r \in Requests, NEW t \in Tokens \cup {NoToken}, Present(r, t)
      PROVE  AnswersAreDurable'
  BY <1>5 DEF Present, GoTo, Goes
<1>6. ASSUME NEW r \in Requests, InsertSession(r) PROVE AnswersAreDurable'
  BY <1>6 DEF InsertSession, GoTo, Goes
<1>7. ASSUME NEW r \in Requests, InsertFirstToken(r) PROVE AnswersAreDurable'
  BY <1>7 DEF InsertFirstToken, GoTo, Goes
<1>8. ASSUME NEW r \in Requests, CommitLogin(r) PROVE AnswersAreDurable'
  BY <1>8 DEF CommitLogin, GoTo, Goes
<1>9. ASSUME NEW r \in Requests, Find(r) PROVE AnswersAreDurable'
  BY <1>9 DEF Find, GoTo, Goes
<1>10. ASSUME NEW r \in Requests, FindSpent(r) PROVE AnswersAreDurable'
  BY <1>10 DEF FindSpent, Decides, GoTo, Goes
<1>11. ASSUME NEW r \in Requests, FindExpired(r) PROVE AnswersAreDurable'
  BY <1>11 DEF FindExpired, Decides, GoTo, Goes
<1>12. ASSUME NEW r \in Requests, NEW t \in Tokens, Mint(r, t)
      PROVE  AnswersAreDurable'
  BY <1>12 DEF Mint, GoTo, Goes
<1>13. ASSUME NEW r \in Requests, MintThrows(r) PROVE AnswersAreDurable'
  BY <1>13 DEF MintThrows, Decides, GoTo, Goes
<1>14. ASSUME NEW r \in Requests, BeginRotation(r) PROVE AnswersAreDurable'
  BY <1>14 DEF BeginRotation, GoTo, Goes
<1>15. ASSUME NEW r \in Requests, LockSession(r) PROVE AnswersAreDurable'
  BY <1>15 DEF LockSession, GoTo, Goes
<1>16. ASSUME NEW r \in Requests, SpendToken(r) PROVE AnswersAreDurable'
  BY <1>16 DEF SpendToken, GoTo, Goes
<1>17. ASSUME NEW r \in Requests, InsertNextToken(r) PROVE AnswersAreDurable'
  BY <1>17 DEF InsertNextToken, GoTo, Goes
<1>18. ASSUME NEW r \in Requests, CommitRotation(r) PROVE AnswersAreDurable'
  BY <1>18 DEF CommitRotation, GoTo, Goes
<1>19. ASSUME NEW r \in Requests, LeaveRotation(r) PROVE AnswersAreDurable'
  BY <1>19 DEF LeaveRotation, GoTo, Goes
<1>20. ASSUME NEW r \in Requests, BeginRevoke(r) PROVE AnswersAreDurable'
  BY <1>20 DEF BeginRevoke, GoTo, Goes
<1>21. ASSUME NEW r \in Requests, UpdateSession(r) PROVE AnswersAreDurable'
  BY <1>21 DEF UpdateSession, GoTo, Goes
<1>22. ASSUME NEW r \in Requests, CommitRevoke(r) PROVE AnswersAreDurable'
  BY <1>22 DEF CommitRevoke, GoTo, Goes
<1>23. ASSUME NEW r \in Requests, Reject(r) PROVE AnswersAreDurable'
  BY <1>23 DEF Reject, GoTo, Goes
<1>24. ASSUME NEW r \in Requests, Answer(r) PROVE AnswersAreDurable'
  BY <1>24 DEF Answer, GoTo, Goes
<1>25. ASSUME NEW r \in Requests, Fail(r) PROVE AnswersAreDurable'
  BY <1>25 DEF Fail, GoTo, Goes
<1>26. ASSUME Crash PROVE AnswersAreDurable'
  BY <1>26 DEF Crash, UnderWay
<1>27. ASSUME Tick PROVE AnswersAreDurable'
  BY <1>27 DEF Tick
<1>28. CASE UNCHANGED vars
  BY <1>28 DEF vars
<1> QED
  BY <1>1, <1>2, <1>3, <1>4, <1>5, <1>6, <1>7, <1>8, <1>9, <1>10, <1>11,
     <1>12, <1>13, <1>14, <1>15, <1>16, <1>17, <1>18, <1>19, <1>20, <1>21,
     <1>22, <1>23, <1>24, <1>25, <1>26, <1>27, <1>28
  DEF Next, Step, Finished

(* A COMMIT adds rows whose ids were generated by its own call.            *)
LEMMA RowsStep == IInv /\ [Next]_vars => RowsSound'
<1> SUFFICES ASSUME IInv, [Next]_vars PROVE RowsSound'
  OBVIOUS
<1> USE TimeAssumption, NoSessionAssumption, NoTokenAssumption
        DEF IInv, TypeOK, locals, rows, sessionRows, tokenRows, RowsSound, CallsSound,
            CallSound, HasFound, Bears, BearsLogin, BearsRotation, Stored, Opened,
            Times, Null
<1>1. ASSUME NEW r \in Requests, CommitLogin(r) PROVE RowsSound'
  BY <1>1 DEF CommitLogin
<1>2. ASSUME NEW r \in Requests, CommitRotation(r) PROVE RowsSound'
  BY <1>2 DEF CommitRotation
<1>3. ASSUME NEW r \in Requests, CommitRevoke(r) PROVE RowsSound'
  BY <1>3 DEF CommitRevoke
<1>4. CASE UNCHANGED rows
  BY <1>4, Ledgers
<1> QED
  BY <1>1, <1>2, <1>3, <1>4, RowWriters

(* A rotation moves the head: the lock holder's token is the one head, and *)
(* the row that replaces it is new.  A login adds a session that had no    *)
(* token.                                                                  *)
LEMMA HeadStep == IInv /\ [Next]_vars => OneHead'
<1> SUFFICES ASSUME IInv, [Next]_vars PROVE OneHead'
  OBVIOUS
<1> USE TimeAssumption, NoSessionAssumption, NoTokenAssumption
        DEF IInv, TypeOK, locals, rows, sessionRows, tokenRows, RowsSound, CallsSound,
            CallSound, HasFound, Bears, BearsLogin, BearsRotation, Stored, Opened,
            Times, Null, LocksSound, OneHead, Head
<1>1. ASSUME NEW r \in Requests, CommitLogin(r) PROVE OneHead'
  BY <1>1 DEF CommitLogin
<1>2. ASSUME NEW r \in Requests, CommitRotation(r) PROVE OneHead'
  BY <1>2 DEF CommitRotation
<1>3. ASSUME NEW r \in Requests, CommitRevoke(r) PROVE OneHead'
  BY <1>3 DEF CommitRevoke
<1>4. CASE UNCHANGED rows
  BY <1>4
<1> QED
  BY <1>1, <1>2, <1>3, <1>4, RowWriters

-----------------------------------------------------------------------------
LEMMA InvariantInit == Init => IInv
BY TimeAssumption, NoSessionAssumption, NoTokenAssumption
DEF Init, IInv, TypeOK, Points, Times, Null, RowsSound, CallsSound, CallSound,
    HasFound, Bears, BearsLogin, BearsRotation, MintedApart, LocksSound, OneHead,
    AnswersAreDurable, Stored, Opened

LEMMA InvariantStep == IInv /\ [Next]_vars => IInv'
BY TypeStep, RowsStep, CallsStep, MintedApartStep, LocksStep, HeadStep, AnswersStep
DEF IInv

(* The invariant that the others are parts of.                             *)
THEOREM Invariant == Spec => []IInv
BY InvariantInit, InvariantStep, PTL DEF Spec

(* Every variable keeps its type: a timestamp that is written was read.    *)
THEOREM TypeCorrect == Spec => []TypeOK
<1>1. IInv => TypeOK
  BY DEF IInv
<1> QED
  BY <1>1, Invariant, PTL

(* Whatever the interleaving, the failures and the crashes, a session has  *)
(* exactly one unspent refresh token.                                      *)
THEOREM NoForkNoLoss == Spec => []OneHead
<1>1. IInv => OneHead
  BY DEF IInv
<1> QED
  BY <1>1, Invariant, PTL

(* An answered token is in the database, in the session it was issued for. *)
THEOREM AnswersHold == Spec => []AnswersAreDurable
<1>1. IInv => AnswersAreDurable
  BY DEF IInv
<1> QED
  BY <1>1, Invariant, PTL

(* Rows are added or completed, never taken back or overwritten.           *)
THEOREM RowsKept == Spec => RowsAreKept
<1> DEFINE Kept ==
      /\ \A t \in Tokens :
           /\ owner[t] # NoSession =>
                owner'[t] = owner[t] /\ createdAt'[t] = createdAt[t]
           /\ spentAt[t] # Null => spentAt'[t] = spentAt[t]
      /\ \A s \in Sessions :
           /\ expiresAt[s] # Null => expiresAt'[s] = expiresAt[s]
           /\ revokedAt[s] # Null => revokedAt'[s] = revokedAt[s]
<1>1. IInv /\ [Next]_vars => [Kept]_vars
  <2> SUFFICES ASSUME IInv, [Next]_vars PROVE Kept
    OBVIOUS
  <2> USE NoSessionAssumption, NoTokenAssumption
          DEF IInv, TypeOK, rows, sessionRows, tokenRows, CallsSound, CallSound,
              HasFound, Bears, BearsLogin, BearsRotation, LocksSound, Stored, Opened
  <2>1. ASSUME NEW r \in Requests, CommitLogin(r) PROVE Kept
    BY <2>1 DEF CommitLogin
  <2>2. ASSUME NEW r \in Requests, CommitRotation(r) PROVE Kept
    BY <2>2 DEF CommitRotation
  <2>3. ASSUME NEW r \in Requests, CommitRevoke(r) PROVE Kept
    BY <2>3 DEF CommitRevoke
  <2>4. CASE UNCHANGED rows
    BY <2>4
  <2> QED
    BY <2>1, <2>2, <2>3, <2>4, RowWriters
<1> QED
  BY <1>1, Invariant, PTL DEF Spec, RowsAreKept

(* Nothing is added to the chain of a session once it is revoked.          *)
THEOREM RevocationIsFinal == Spec => NothingJoinsARevokedSession
<1> DEFINE Closed ==
      \A s \in Sessions :
        revokedAt[s] # Null => \A t \in Tokens : owner'[t] = s => owner[t] = s
<1>1. IInv /\ [Next]_vars => [Closed]_vars
  <2> SUFFICES ASSUME IInv, [Next]_vars PROVE Closed
    OBVIOUS
  <2> USE NoSessionAssumption, NoTokenAssumption
          DEF IInv, TypeOK, rows, sessionRows, tokenRows, CallsSound, CallSound,
              HasFound, Bears, BearsLogin, BearsRotation, LocksSound, RowsSound, Opened
  <2>1. ASSUME NEW r \in Requests, CommitLogin(r) PROVE Closed
    BY <2>1 DEF CommitLogin
  <2>2. ASSUME NEW r \in Requests, CommitRotation(r) PROVE Closed
    BY <2>2 DEF CommitRotation
  <2>3. ASSUME NEW r \in Requests, CommitRevoke(r) PROVE Closed
    BY <2>3 DEF CommitRevoke
  <2>4. CASE UNCHANGED rows
    BY <2>4
  <2> QED
    BY <2>1, <2>2, <2>3, <2>4, RowWriters
<1> QED
  BY <1>1, Invariant, PTL DEF Spec, NothingJoinsARevokedSession

(* The calls implement the chain of single-use tokens: three steps are its *)
(* three actions, and every other step leaves it unchanged.                *)
THEOREM Refinement == Spec => ImplementsChain
<1>1. Init => Chain!Init
  BY DEF Init, Chain!Init
<1>2. IInv /\ [Next]_vars => [Chain!Next]_(Chain!vars)
  <2> SUFFICES ASSUME IInv, [Next]_vars PROVE [Chain!Next]_(Chain!vars)
    OBVIOUS
  <2> USE NoSessionAssumption, NoTokenAssumption
          DEF IInv, TypeOK, rows, sessionRows, tokenRows, CallsSound, CallSound,
              HasFound, Bears, BearsLogin, BearsRotation, Stored, Opened,
              Chain!Next, Chain!vars, Chain!Members
  <2>1. ASSUME NEW r \in Requests, CommitLogin(r) PROVE Chain!Next
    <3>1. Chain!Open(sess[r], next[r])
      BY <2>1 DEF CommitLogin, Chain!Open, RowsSound
    <3> QED
      BY <2>1, <3>1 DEF CommitLogin
  <2>2. ASSUME NEW r \in Requests, CommitRotation(r) PROVE Chain!Next
    <3>1. /\ tok[r] \in Stored /\ owner[tok[r]] = sess[r] /\ sess[r] \in Sessions
          /\ next[r] \in Tokens \ Stored /\ now[r] # Null
      BY <2>2 DEF CommitRotation, Times, Null
    <3>2. spentAt[tok[r]] = Null /\ revokedAt[sess[r]] = Null
      BY <2>2 DEF CommitRotation, LocksSound
    <3>3. {t \in Tokens : spentAt'[t] # Null} =
            {t \in Tokens : spentAt[t] # Null} \cup {tok[r]}
      BY <2>2, <3>1 DEF CommitRotation
    <3>4. Chain!Exchange(tok[r], next[r])
      BY <2>2, <3>1, <3>2, <3>3 DEF CommitRotation, Chain!Exchange
    <3> QED
      BY <3>1, <3>4 DEF Chain!Exchange
  <2>3. ASSUME NEW r \in Requests, CommitRevoke(r) PROVE Chain!Next
    <3>1. /\ tok[r] \in Tokens /\ owner[tok[r]] = sess[r] /\ sess[r] \in Sessions
          /\ now[r] # Null /\ revokedAt[sess[r]] = Null
      BY <2>3 DEF CommitRevoke, LocksSound, Times, Null
    <3>2. Chain!Revoke(sess[r])
      BY <2>3, <3>1 DEF CommitRevoke, Chain!Revoke
    <3> QED
      BY <3>1, <3>2 DEF Chain!Revoke
  <2>4. CASE UNCHANGED rows
    BY <2>4
  <2> QED
    BY <2>1, <2>2, <2>3, <2>4, RowWriters
<1> QED
  BY <1>1, <1>2, Invariant, PTL DEF Spec, ImplementsChain, Chain!Spec
-----------------------------------------------------------------------------
(* How a call gets from one place to the next, and what it found there.    *)
Moved(r, from, to) ==
  \/ from = "idle" /\ to = "lookUp"
  \/ from = "idle" /\ to = "find" /\ tok'[r] \in held \cup {NoToken}
  \/ from = "lookUp" /\ to = "verify" /\ ConnectionFree
  \/ from = "verify" /\ to \in {"create", "rejected"}
  \/ from = "create" /\ to = "insertFirst" /\ ConnectionFree
  \/ from = "insertFirst" /\ to = "commitLogin"
  \/ /\ from = "find" /\ to = "decide" /\ ConnectionFree
     /\ tok[r] \in Stored /\ sess'[r] = owner[tok[r]] /\ found'[r] = spentAt[tok[r]]
  \/ from = "find" /\ to = "rejected" /\ ConnectionFree /\ tok[r] \notin Stored
  \/ from = "decide" /\ to = "reuse" /\ found[r] # Null
  \/ from = "decide" /\ to = "rotate" /\ found[r] = Null
  \/ /\ from = "decide" /\ to = "rejected" /\ found[r] = Null
     /\ now'[r] = clock /\ clock >= expiresAt[sess[r]]
  \/ from = "rotate" /\ to = "lock" /\ ConnectionFree
  \/ from = "lock" /\ to = "spend" /\ SessionShareable(r)
  \/ from = "lock" /\ to = "leave" /\ SessionShareable(r) /\ revokedAt[sess[r]] # Null
  \/ from = "spend" /\ to = "insert" /\ TokenUpdatable(r)
  \/ from = "spend" /\ to = "leave" /\ TokenUpdatable(r) /\ spentAt[tok[r]] # Null
  \/ from = "insert" /\ to = "commit"
  \/ from = "leave" /\ to = "reuse"
  \/ from = "reuse" /\ to = "revoke" /\ ConnectionFree
  \/ from = "revoke" /\ to = "revoking" /\ SessionUpdatable(r)
  \/ from = "revoke" /\ to = "revoked" /\ revokedAt[sess[r]] # Null
  \/ from = "revoking" /\ to = "revoked" /\ CommitRevoke(r)
  \/ from = "revoked" /\ to = "rejected"
  \/ to = "committed" /\ (CommitLogin(r) \/ CommitRotation(r))
  \/ from = "committed" /\ to \in {"granted", "lost"}
  \/ from \notin {"idle"} \cup Ended /\ to \in {"failed", "crashed"}

(* Every step moves one call, or all of them in a crash, and a call keeps  *)
(* what it has once it has read it.                                        *)
LEMMA Movements ==
  ASSUME IInv, [Next]_vars, NEW q \in Requests
  PROVE  /\ pc'[q] # pc[q] => Moved(q, pc[q], pc'[q])
         /\ pc[q] # "idle" => tok'[q] = tok[q]
         /\ pc[q] \notin {"verify", "find"} => sess'[q] = sess[q]
         /\ pc[q] # "find" => found'[q] = found[q]
         /\ pc[q] \notin {"verify", "decide"} => now'[q] = now[q] /\ next'[q] = next[q]
         /\ pc'[q] = pc[q] => /\ tok'[q] = tok[q] /\ sess'[q] = sess[q]
                              /\ found'[q] = found[q] /\ now'[q] = now[q]
<1> DEFINE Goal ==
      /\ pc'[q] # pc[q] => Moved(q, pc[q], pc'[q])
      /\ pc[q] # "idle" => tok'[q] = tok[q]
      /\ pc[q] \notin {"verify", "find"} => sess'[q] = sess[q]
      /\ pc[q] # "find" => found'[q] = found[q]
      /\ pc[q] \notin {"verify", "decide"} => now'[q] = now[q] /\ next'[q] = next[q]
      /\ pc'[q] = pc[q] => /\ tok'[q] = tok[q] /\ sess'[q] = sess[q]
                           /\ found'[q] = found[q] /\ now'[q] = now[q]
<1> SUFFICES Goal
  OBVIOUS
<1> USE DEF IInv, TypeOK, locals, GoTo, Goes
<1>1. ASSUME NEW r \in Requests, NEW s \in Sessions, NEW t \in Tokens, Login(r, s, t)
      PROVE  Goal
  BY <1>1 DEF Login, Moved, Opening
<1>2. ASSUME NEW r \in Requests, NEW t \in Tokens \cup {NoToken}, Present(r, t)
      PROVE  Goal
  BY <1>2 DEF Present, Moved
<1>3. ASSUME NEW r \in Requests,
             CallLogin(r) \/ LookUp(r) \/ RejectLogin(r) \/ InsertSession(r)
               \/ InsertFirstToken(r)
      PROVE  Goal
  BY <1>3 DEF CallLogin, LookUp, RejectLogin, InsertSession, InsertFirstToken, Moved,
              Ended, Opening
<1>4. ASSUME NEW r \in Requests, CommitLogin(r) \/ CommitRotation(r) PROVE Goal
  <2>1. CASE q = r
    BY <1>4, <2>1 DEF CommitLogin, CommitRotation, Moved
  <2>2. CASE q # r
    BY <1>4, <2>2 DEF CommitLogin, CommitRotation
  <2> QED
    BY <2>1, <2>2
<1>5. ASSUME NEW r \in Requests, Find(r) PROVE Goal
  BY <1>5 DEF Find, Moved
<1>6. ASSUME NEW r \in Requests, FindSpent(r) \/ FindExpired(r) PROVE Goal
  BY <1>6 DEF FindSpent, Decides, FindExpired, Moved
<1>7. ASSUME NEW r \in Requests, NEW t \in Tokens, Mint(r, t) PROVE Goal
  BY <1>7 DEF Mint, Moved
<1>8. ASSUME NEW r \in Requests, MintThrows(r) \/ Fail(r) PROVE Goal
  BY <1>8 DEF MintThrows, Decides, Fail, Moved, Ended, AtDatabase, Rotating, Revoking, Opening
<1>9. ASSUME NEW r \in Requests, BeginRotation(r) \/ LockSession(r) PROVE Goal
  BY <1>9 DEF BeginRotation, LockSession, Moved
<1>10. ASSUME NEW r \in Requests, SpendToken(r) \/ InsertNextToken(r) PROVE Goal
  BY <1>10 DEF SpendToken, InsertNextToken, Moved
<1>11. ASSUME NEW r \in Requests, LeaveRotation(r) \/ BeginRevoke(r) \/ UpdateSession(r)
       PROVE  Goal
  BY <1>11 DEF LeaveRotation, BeginRevoke, UpdateSession, Moved
<1>12. ASSUME NEW r \in Requests, CommitRevoke(r) PROVE Goal
  <2>1. CASE q = r
    BY <1>12, <2>1 DEF CommitRevoke, Moved
  <2>2. CASE q # r
    BY <1>12, <2>2 DEF CommitRevoke
  <2> QED
    BY <2>1, <2>2
<1>13. ASSUME NEW r \in Requests, Reject(r) \/ Answer(r) PROVE Goal
  BY <1>13 DEF Reject, Answer, Moved
<1>14. CASE Crash
  BY <1>14 DEF Crash, UnderWay, Moved
<1>15. CASE Tick
  BY <1>15 DEF Tick
<1>16. CASE UNCHANGED vars
  BY <1>16 DEF vars
<1> HIDE DEF Goal
<1>17. ASSUME NEW r \in Requests, Step(r) PROVE Goal
  BY <1>17, <1>1, <1>3, <1>4, <1>5, <1>6, <1>7, <1>8, <1>9, <1>10, <1>11, <1>12,
     <1>13
  DEF Step
<1> QED
  BY <1>2, <1>3, <1>8, <1>14, <1>15, <1>16, <1>17 DEF Next, Finished

-----------------------------------------------------------------------------
(* What its row locks are worth to r: while it holds them nobody else      *)
(* writes what it has checked.                                             *)
LocksKept(r) ==
  /\ pc[r] \in {"insert", "commit"} =>
       spentAt'[tok[r]] = spentAt[tok[r]] \/ CommitRotation(r)
  /\ pc[r] \in {"spend", "insert", "commit", "leave"} =>
       revokedAt'[sess[r]] = revokedAt[sess[r]]
  /\ pc[r] = "revoking" =>
       /\ revokedAt'[sess[r]] = revokedAt[sess[r]] \/ CommitRevoke(r)
       /\ \A t \in Tokens : owner'[t] = sess[r] => owner[t] = sess[r]

(* From its UPDATE to its COMMIT the token a rotation spends is spent by   *)
(* nobody else, from its FOR SHARE on its session is not revoked, and while*)
(* a revoke is being committed no rotation adds to its session             *)
(* (drizzle-session.repository.ts): the COMMITs ask for no lock, it is what*)
(* their transactions asked for some statements earlier that keeps them    *)
(* apart.                                                                  *)
THEOREM LockedRowsStay == Spec => [][\A r \in Requests : LocksKept(r)]_vars
<1>1. IInv /\ [Next]_vars => [\A r \in Requests : LocksKept(r)]_vars
  <2> SUFFICES ASSUME IInv, [Next]_vars, NEW r \in Requests PROVE LocksKept(r)
    OBVIOUS
  <2> USE DEF IInv
  <2>1. ASSUME NEW q \in Requests, CommitLogin(q) PROVE LocksKept(r)
    <3>1. UNCHANGED <<spentAt, revokedAt>> /\ owner' = [owner EXCEPT ![next[q]] = sess[q]]
      BY <2>1 DEF CommitLogin
    <3>2. sess[q] \notin Opened
      BY <2>1 DEF CommitLogin, CallsSound, CallSound, BearsLogin
    <3>3. pc[r] = "revoking" => sess[r] \in Opened
      BY DEF CallsSound, CallSound, HasFound, RowsSound
    <3> QED
      BY <3>1, <3>2, <3>3 DEF LocksKept, TypeOK
  <2>2. ASSUME NEW q \in Requests, CommitRotation(q) PROVE LocksKept(r)
    <3>1. /\ revokedAt' = revokedAt /\ spentAt' = [spentAt EXCEPT ![tok[q]] = now[q]]
          /\ owner' = [owner EXCEPT ![next[q]] = sess[q]] /\ pc[q] = "commit"
      BY <2>2 DEF CommitRotation, sessionRows
    <3>2. q # r /\ pc[r] \in {"insert", "commit"} => tok[q] # tok[r]
      BY <3>1 DEF LocksSound
    <3>3. pc[r] = "revoking" => sess[q] # sess[r]
      BY <3>1 DEF LocksSound
    <3> QED
      BY <2>2, <3>1, <3>2, <3>3 DEF LocksKept, TypeOK
  <2>3. ASSUME NEW q \in Requests, CommitRevoke(q) PROVE LocksKept(r)
    <3>1. /\ UNCHANGED <<owner, spentAt>> /\ pc[q] = "revoking"
          /\ revokedAt' = [revokedAt EXCEPT ![sess[q]] = now[q]]
      BY <2>3 DEF CommitRevoke, tokenRows
    <3>2. q # r /\ pc[r] \in {"spend", "insert", "commit", "leave", "revoking"} =>
            sess[q] # sess[r]
      BY <3>1 DEF LocksSound
    <3> QED
      BY <2>3, <3>1, <3>2 DEF LocksKept, TypeOK
  <2>4. CASE UNCHANGED rows
    BY <2>4 DEF LocksKept, rows, sessionRows, tokenRows
  <2> QED
    BY <2>1, <2>2, <2>3, <2>4, RowWriters
<1> QED
  BY <1>1, Invariant, PTL DEF Spec

-----------------------------------------------------------------------------
(* Points of a transaction whose next statement takes no lock that another *)
(* transaction may hold.                                                   *)
Unhindered ==
  {"insert", "commit", "leave", "revoking", "insertFirst", "commitLogin"}

LEMMA UnhinderedProceed ==
  ASSUME NEW r \in Requests, pc[r] \in Unhindered
  PROVE  UnderWay(r) /\ ~Waits(r)
BY DEF Unhindered, UnderWay, Waits, Ended

(* Locks are taken in one order: a call that waits for the token's row has *)
(* the session's, and whoever holds the token's row asks for nothing more. *)
LEMMA TokenWaitEnds ==
  ASSUME NEW r \in Requests, pc[r] = "spend"
  PROVE  \E q \in Requests : UnderWay(q) /\ ~Waits(q)
<1>1. CASE TokenUpdatable(r)
  BY <1>1 DEF UnderWay, Waits, Ended
<1>2. CASE ~TokenUpdatable(r)
  <2>1. PICK q \in Requests : UpdatesToken(q, tok[r])
    BY <1>2 DEF TokenUpdatable
  <2> QED
    BY <2>1, UnhinderedProceed DEF UpdatesToken, Unhindered
<1> QED
  BY <1>1, <1>2

(* Of the calls that hold a connection one can proceed, whatever row the   *)
(* others wait for.                                                        *)
LEMMA ConnectedProceed ==
  ASSUME NEW r \in Connected
  PROVE  \E q \in Requests : UnderWay(q) /\ ~Waits(q)
<1>1. r \in Requests /\ pc[r] \in Rotating \cup Revoking \cup Opening
  BY DEF Connected
<1>2. CASE pc[r] \in Unhindered
  BY <1>1, <1>2, UnhinderedProceed
<1>3. CASE pc[r] = "spend"
  BY <1>1, <1>3, TokenWaitEnds
<1>4. CASE pc[r] = "lock"
  <2>1. CASE SessionShareable(r)
    BY <1>1, <1>4, <2>1 DEF UnderWay, Waits, Ended
  <2>2. CASE ~SessionShareable(r)
    <3>1. PICK q \in Requests : UpdatesSession(q, sess[r])
      BY <2>2 DEF SessionShareable
    <3> QED
      BY <3>1, UnhinderedProceed DEF UpdatesSession, Unhindered
  <2> QED
    BY <2>1, <2>2
<1>5. CASE pc[r] = "revoke"
  <2>1. CASE revokedAt[sess[r]] # Null \/ SessionUpdatable(r)
    BY <1>1, <1>5, <2>1 DEF UnderWay, Waits, Ended
  <2>2. CASE ~SessionUpdatable(r)
    <3>1. PICK q \in Requests : SharesSession(q, sess[r]) \/ UpdatesSession(q, sess[r])
      BY <2>2 DEF SessionUpdatable
    <3>2. pc[q] \in Unhindered \/ pc[q] = "spend"
      BY <3>1 DEF SharesSession, UpdatesSession, Unhindered
    <3> QED
      BY <3>2, UnhinderedProceed, TokenWaitEnds
  <2> QED
    BY <2>1, <2>2
<1> QED
  BY <1>1, <1>2, <1>3, <1>4, <1>5 DEF Rotating, Revoking, Opening, Unhindered

(* An exhausted pool has a call in it, and a call in it never asks for a   *)
(* second connection.                                                      *)
LEMMA NobodyWaitsForAnEmptyPool == Connected = {} => ConnectionFree
<1>1. Cardinality({}) = 0
  BY FS_EmptySet
<1> QED
  BY <1>1, TimeAssumption DEF ConnectionFree

(* However many calls share however few connections, they never all wait   *)
(* for one another: Login and Refresh cannot deadlock.                     *)
THEOREM NoDeadlock == Spec => []SomeCallCanProceed
<1>1. SomeCallCanProceed
  <2> SUFFICES ASSUME NEW r \in Requests, UnderWay(r)
               PROVE  \E q \in Requests : UnderWay(q) /\ ~Waits(q)
    BY DEF SomeCallCanProceed
  <2>1. CASE Connected # {}
    BY <2>1, ConnectedProceed
  <2>2. CASE Connected = {}
    BY <2>2, NobodyWaitsForAnEmptyPool
    DEF Waits, Connected, Rotating, Revoking
  <2> QED
    BY <2>1, <2>2
<1> QED
  BY <1>1, PTL
-----------------------------------------------------------------------------
(* The clock never runs back in the model of one host, so a rotation works *)
(* with a reading between its session's login and its expiry.              *)
WithinLifetime(s, time) ==
  expiresAt[s] - Lifetime <= time /\ time < expiresAt[s]

TimesSound ==
  /\ \A r \in Requests : now[r] <= clock
  /\ \A s \in Opened : expiresAt[s] - Lifetime <= clock
  /\ \A r \in Requests : BearsRotation(r) => WithinLifetime(sess[r], now[r])
  /\ \A t \in Stored : WithinLifetime(owner[t], createdAt[t])

LEMMA TimesInit == Init => TimesSound
BY DEF Init, TimesSound, BearsRotation, Stored, Opened, Null

(* A reading is taken once, in decide; the steps after it carry it along.  *)
LEMMA TimesStep == IInv /\ TimesSound /\ [Next]_vars => TimesSound'
<1> SUFFICES ASSUME IInv, TimesSound, [Next]_vars PROVE TimesSound'
  OBVIOUS
<1> USE TimeAssumption, NoSessionAssumption, NoTokenAssumption
        DEF IInv, TypeOK, locals, rows, sessionRows, tokenRows, TimesSound,
            WithinLifetime, RowsSound, CallsSound, CallSound, HasFound, Bears,
            BearsLogin, BearsRotation, Stored, Opened, Times, Null
<1>1. ASSUME NEW r \in Requests, CommitLogin(r) PROVE TimesSound'
  BY <1>1 DEF CommitLogin, GoTo, Goes
<1>2. ASSUME NEW r \in Requests, CommitRotation(r) PROVE TimesSound'
  BY <1>2 DEF CommitRotation, GoTo, Goes
<1>3. ASSUME NEW r \in Requests, CommitRevoke(r) PROVE TimesSound'
  BY <1>3 DEF CommitRevoke, GoTo, Goes
<1>4. ASSUME NEW r \in Requests, NEW t \in Tokens, Mint(r, t) PROVE TimesSound'
  BY <1>4 DEF Mint, GoTo, Goes
<1>5. ASSUME NEW r \in Requests, NEW s \in Sessions, NEW t \in Tokens, Login(r, s, t)
      PROVE  TimesSound'
  BY <1>5 DEF Login, GoTo, Goes
<1>6. ASSUME NEW r \in Requests, FindSpent(r) \/ FindExpired(r) \/ MintThrows(r)
      PROVE  TimesSound'
  BY <1>6 DEF FindSpent, Decides, FindExpired, MintThrows, GoTo, Goes
<1>7. ASSUME Tick PROVE TimesSound'
  BY <1>7 DEF Tick
<1>8. ASSUME Crash PROVE TimesSound'
  BY <1>8 DEF Crash, UnderWay
<1>9. ASSUME NEW r \in Requests, Find(r) PROVE TimesSound'
  BY <1>9 DEF Find, GoTo, Goes
<1>10. ASSUME NEW r \in Requests,
              \/ CallLogin(r) \/ LookUp(r) \/ RejectLogin(r)
              \/ InsertSession(r) \/ InsertFirstToken(r)
              \/ \E t \in Tokens \cup {NoToken} : Present(r, t)
       PROVE  TimesSound'
  BY <1>10 DEF CallLogin, LookUp, RejectLogin, InsertSession, InsertFirstToken,
               Present, GoTo, Goes
<1>11. ASSUME NEW r \in Requests,
              \/ BeginRotation(r) \/ LockSession(r) \/ SpendToken(r)
              \/ InsertNextToken(r) \/ LeaveRotation(r)
       PROVE  TimesSound'
  BY <1>11 DEF BeginRotation, LockSession, SpendToken, InsertNextToken,
               LeaveRotation, GoTo, Goes
<1>12. ASSUME NEW r \in Requests,
              \/ BeginRevoke(r) \/ UpdateSession(r) \/ Reject(r)
              \/ Answer(r) \/ Fail(r)
       PROVE  TimesSound'
  BY <1>12 DEF BeginRevoke, UpdateSession, Reject, Answer, Fail, GoTo, Goes
<1>13. CASE UNCHANGED vars
  BY <1>13 DEF vars
<1> QED
  BY <1>1, <1>2, <1>3, <1>4, <1>5, <1>6, <1>7, <1>8, <1>9, <1>10, <1>11,
     <1>12, <1>13
  DEF Next, Step, Finished

(* Two tokens of a session are never created a lifetime or more apart:     *)
(* refreshing does not prolong a session.                                  *)
THEOREM LifetimeIsAbsolute == Spec => []AbsoluteLifetime
<1>1. IInv /\ TimesSound => AbsoluteLifetime
  BY TimeAssumption
  DEF IInv, TypeOK, TimesSound, WithinLifetime, RowsSound, Stored, Opened, Times,
      Null, AbsoluteLifetime
<1>2. Spec => []TimesSound
  BY TimesInit, TimesStep, Invariant, PTL DEF Spec
<1> QED
  BY <1>1, <1>2, Invariant, PTL
-----------------------------------------------------------------------------
(* How far a call is from its end.                                         *)
Remaining(point) ==
  CASE point \in Ended -> 0
    [] point \in {"committed", "revoked"} -> 1
    [] point \in {"commit", "commitLogin", "revoking"} -> 2
    [] point \in {"insert", "insertFirst", "revoke"} -> 3
    [] point \in {"create", "reuse"} -> 4
    [] point \in {"verify", "leave"} -> 5
    [] point \in {"lookUp", "spend"} -> 6
    [] point = "lock" -> 7
    [] point = "rotate" -> 8
    [] point = "decide" -> 9
    [] point = "find" -> 10
    [] point = "idle" -> 11

At(r, point) == pc[r] = point
Below(r, point) == Remaining(pc[r]) < Remaining(point)
PointIsLeft(r, point) == [](At(r, point) => <>Below(r, point))

(* Every step takes a call nearer its end or leaves it where it is.        *)
LEMMA Downhill ==
  ASSUME IInv, [Next]_vars, NEW r \in Requests
  PROVE  pc'[r] = pc[r] \/ Remaining(pc'[r]) < Remaining(pc[r])
<1> SUFFICES ASSUME pc'[r] # pc[r] PROVE Remaining(pc'[r]) < Remaining(pc[r])
  OBVIOUS
<1>1. pc[r] \in Points /\ Moved(r, pc[r], pc'[r])
  BY Movements DEF IInv, TypeOK
<1> QED
  BY <1>1
  DEF Moved, Remaining, CommitLogin, CommitRotation, CommitRevoke, Points, AtDatabase,
      Rotating, Revoking, Opening, Ended

(* A step of a call moves that call.                                       *)
LEMMA StepMoves ==
  ASSUME TypeOK, NEW r \in Requests, Step(r)
  PROVE  pc'[r] # pc[r]
<1> USE DEF TypeOK, GoTo, Goes
<1>1. CASE \/ LookUp(r) \/ RejectLogin(r) \/ InsertSession(r) \/ InsertFirstToken(r)
           \/ CommitLogin(r) \/ \E s \in Sessions, t \in Tokens : Login(r, s, t)
  BY <1>1 DEF LookUp, RejectLogin, InsertSession, InsertFirstToken, CommitLogin, Login
<1>2. CASE \/ Find(r) \/ FindSpent(r) \/ FindExpired(r) \/ MintThrows(r)
           \/ \E t \in Tokens : Mint(r, t)
  BY <1>2 DEF Find, FindSpent, Decides, FindExpired, MintThrows, Mint
<1>3. CASE \/ BeginRotation(r) \/ LockSession(r) \/ SpendToken(r) \/ InsertNextToken(r)
           \/ CommitRotation(r) \/ LeaveRotation(r)
  BY <1>3 DEF BeginRotation, LockSession, SpendToken, InsertNextToken,
              CommitRotation, LeaveRotation
<1>4. CASE \/ BeginRevoke(r) \/ UpdateSession(r) \/ CommitRevoke(r) \/ Reject(r)
           \/ Answer(r)
  BY <1>4 DEF BeginRevoke, UpdateSession, CommitRevoke, Reject, Answer
<1> QED
  BY <1>1, <1>2, <1>3, <1>4 DEF Step

(* A call makes at most eleven moves: no step ever takes it back, so it    *)
(* neither loops nor repeats a statement.                                  *)
THEOREM StepsRunOut ==
  Spec => [][\A r \in Requests :
               pc'[r] # pc[r] => Remaining(pc'[r]) < Remaining(pc[r])]_vars
<1>1. IInv /\ [Next]_vars =>
        [\A r \in Requests :
           pc'[r] # pc[r] => Remaining(pc'[r]) < Remaining(pc[r])]_vars
  <2> SUFFICES ASSUME IInv, [Next]_vars, NEW r \in Requests, pc'[r] # pc[r]
               PROVE  Remaining(pc'[r]) < Remaining(pc[r])
    OBVIOUS
  <2> QED
    BY Downhill
<1> QED
  BY <1>1, Invariant, PTL DEF Spec

-----------------------------------------------------------------------------
(* Postgres and the pool serve their queues: a call that is again and      *)
(* again free to go on does go on.  This is SF_vars(Step(r)) with the      *)
(* condition of the step written out; OnlyLocksHoldACallUp says that it is *)
(* the condition.                                                          *)
Served(r) == []<>(UnderWay(r) /\ ~Waits(r)) => []<><<Step(r)>>_vars
ServedInTurn == \A r \in Requests : Served(r)

(* A point is left towards the end, unless what is waited for there never  *)
(* comes free.                                                             *)
WaitEnds(r, point) == [](At(r, point) => <>(~At(r, point) \/ ~Waits(r)))

LEMMA PointLeft ==
  ASSUME NEW r \in Requests, NEW point \in Points \ ({"idle"} \cup Ended)
  PROVE  Spec /\ ServedInTurn /\ WaitEnds(r, point) => PointIsLeft(r, point)
<1>1. IInv /\ [Next]_vars /\ At(r, point) => At(r, point)' \/ Below(r, point)'
  BY Downhill DEF At, Below
<1>2. IInv /\ [Next]_vars /\ At(r, point) /\ <<Step(r)>>_vars => Below(r, point)'
  BY Downhill, StepMoves DEF IInv, At, Below
<1>3. At(r, point) /\ ~Waits(r) => UnderWay(r) /\ ~Waits(r)
  BY DEF At, UnderWay
<1>4. ServedInTurn => Served(r)
  BY DEF ServedInTurn
<1> QED
  BY <1>1, <1>2, <1>3, <1>4, Invariant, PTL
  DEF Spec, Served, PointIsLeft, WaitEnds

(* A call enters the pool through BEGIN, when a connection is free, and    *)
(* leaves it at the end of its transaction.                                *)
PoolMoved ==
  \/ Connected' = Connected
  \/ ConnectionFree /\ \E r \in Requests \ Connected : Connected' = Connected \cup {r}
  \/ \E r \in Connected : Connected' = Connected \ {r}
  \/ Connected' = {}

LEMMA PoolMoves ==
  ASSUME TypeOK, [Next]_vars
  PROVE  PoolMoved
<1> USE DEF TypeOK, GoTo, Goes, PoolMoved, Connected, Rotating, Revoking, Opening
<1>1. ASSUME NEW q \in Requests, NEW s \in Sessions, NEW t \in Tokens, Login(q, s, t)
      PROVE  Connected' = Connected
  BY <1>1 DEF Login
<1>2. ASSUME NEW q \in Requests, NEW t \in Tokens, Mint(q, t)
      PROVE  Connected' = Connected
  BY <1>2 DEF Mint
<1>3. ASSUME NEW q \in Requests, NEW t \in Tokens \cup {NoToken}, Present(q, t)
      PROVE  Connected' = Connected
  BY <1>3 DEF Present
<1>4. ASSUME NEW q \in Requests,
             \/ CallLogin(q) \/ LookUp(q) \/ RejectLogin(q) \/ InsertFirstToken(q)
             \/ Find(q) \/ FindSpent(q) \/ FindExpired(q) \/ MintThrows(q)
      PROVE  Connected' = Connected
  BY <1>4 DEF CallLogin, LookUp, RejectLogin, InsertFirstToken, Find, FindSpent, Decides,
              FindExpired, MintThrows
<1>5. ASSUME NEW q \in Requests, InsertSession(q) \/ BeginRotation(q) \/ BeginRevoke(q)
      PROVE  ConnectionFree /\ q \notin Connected /\ Connected' = Connected \cup {q}
  BY <1>5 DEF InsertSession, BeginRotation, BeginRevoke
<1>6. ASSUME NEW q \in Requests,
             LockSession(q) \/ SpendToken(q) \/ InsertNextToken(q)
      PROVE  Connected' = Connected
  BY <1>6 DEF LockSession, SpendToken, InsertNextToken
<1>7. ASSUME NEW q \in Requests,
             CommitLogin(q) \/ CommitRotation(q) \/ LeaveRotation(q) \/ CommitRevoke(q)
      PROVE  q \in Connected /\ Connected' = Connected \ {q}
  BY <1>7 DEF CommitLogin, CommitRotation, LeaveRotation, CommitRevoke
<1>8. ASSUME NEW q \in Requests, UpdateSession(q)
      PROVE  q \in Connected /\ (Connected' = Connected \/ Connected' = Connected \ {q})
  BY <1>8 DEF UpdateSession
<1>9. ASSUME NEW q \in Requests, Reject(q) \/ Answer(q)
      PROVE  Connected' = Connected
  BY <1>9 DEF Reject, Answer
<1>10. ASSUME NEW q \in Requests, Fail(q)
       PROVE  Connected' = Connected \ {q}
  BY <1>10 DEF Fail
<1>11. CASE Crash
  BY <1>11 DEF Crash, UnderWay, Ended
<1>12. CASE Tick \/ Finished \/ UNCHANGED vars
  BY <1>12 DEF Tick, Finished, vars
<1>13. ASSUME NEW q \in Requests, Connected' = Connected \ {q} PROVE PoolMoved
  BY <1>13
<1> QED
  BY <1>1, <1>2, <1>3, <1>4, <1>5, <1>6, <1>7, <1>8, <1>9, <1>10, <1>11, <1>12,
     <1>13
  DEF Next, Step

PoolSound == IsFiniteSet(Connected) /\ Cardinality(Connected) <= PoolSize

(* The pool never has more calls in it than connections.                   *)
THEOREM PoolIsRespected == Spec => []PoolSound
<1>1. Init => PoolSound
  <2>1. Init => Connected = {}
    BY DEF Init, Connected, Rotating, Revoking, Opening
  <2> QED
    BY <2>1, FS_EmptySet, TimeAssumption DEF PoolSound
<1>2. TypeOK /\ PoolSound /\ [Next]_vars => PoolSound'
  <2> SUFFICES ASSUME TypeOK, PoolSound, [Next]_vars PROVE PoolSound'
    OBVIOUS
  <2> USE TimeAssumption DEF PoolSound
  <2>1. ASSUME NEW r \in Requests \ Connected, ConnectionFree,
               Connected' = Connected \cup {r}
        PROVE  PoolSound'
    <3>1. IsFiniteSet(Connected') /\ Cardinality(Connected') = Cardinality(Connected) + 1
      BY <2>1, FS_AddElement
    <3>2. Cardinality(Connected) \in Nat
      BY FS_CardinalityType
    <3> QED
      BY <2>1, <3>1, <3>2 DEF ConnectionFree
  <2>2. ASSUME NEW r \in Connected, Connected' = Connected \ {r} PROVE PoolSound'
    <3>1. /\ IsFiniteSet(Connected') /\ Cardinality(Connected') = Cardinality(Connected) - 1
          /\ Cardinality(Connected) \in Nat
      BY <2>2, FS_RemoveElement, FS_CardinalityType
    <3> QED
      BY <3>1
  <2>3. CASE Connected' = {}
    BY <2>3, FS_EmptySet
  <2>4. CASE Connected' = Connected
    BY <2>4
  <2> QED
    BY <2>1, <2>2, <2>3, <2>4, PoolMoves DEF PoolMoved
<1> QED
  BY <1>1, <1>2, TypeCorrect, PTL DEF Spec

(* Whoever leaves the pool leaves a connection free.                       *)
LEMMA LeavingFrees ==
  ASSUME TypeOK, PoolSound, [Next]_vars, NEW q \in Connected, q \notin Connected'
  PROVE  ConnectionFree'
<1>1. CASE Connected' = {}
  BY <1>1, FS_EmptySet, TimeAssumption DEF ConnectionFree
<1>2. ASSUME NEW r \in Connected, Connected' = Connected \ {r} PROVE ConnectionFree'
  <2>1. Cardinality(Connected') = Cardinality(Connected) - 1 /\ Cardinality(Connected) \in Nat
    BY <1>2, FS_RemoveElement, FS_CardinalityType DEF PoolSound
  <2> QED
    BY <2>1, TimeAssumption DEF PoolSound, ConnectionFree
<1> QED
  BY <1>1, <1>2, PoolMoves DEF PoolMoved

(* A point with no lock to wait for is left.                               *)
LEMMA ReadyPointLeft ==
  ASSUME NEW r \in Requests,
         NEW point \in Unhindered \cup {"verify", "decide", "committed", "revoked"}
  PROVE  Spec /\ ServedInTurn => PointIsLeft(r, point)
<1>1. point \in Points \ ({"idle"} \cup Ended)
  BY DEF Unhindered, Points, AtDatabase, Rotating, Revoking, Opening, Ended
<1>2. At(r, point) => ~At(r, point) \/ ~Waits(r)
  BY DEF At, Waits, Unhindered
<1>3. Spec /\ ServedInTurn /\ WaitEnds(r, point) => PointIsLeft(r, point)
  BY <1>1, PointLeft
<1> QED
  BY <1>2, <1>3, PTL DEF WaitEnds

(* The rows nobody is writing, and the sessions no rotation relies on.     *)
TokenFree(t) == \A q \in Requests : ~UpdatesToken(q, t)
SessionAtRest(s) == \A q \in Requests : ~UpdatesSession(q, s)
SessionUnshared(s) == \A q \in Requests : ~SharesSession(q, s)

(* A lock is taken while nobody has one that excludes it.                  *)
LEMMA LocksTaken ==
  ASSUME IInv, [Next]_vars, NEW q \in Requests
  PROVE  /\ \A t \in Tokens :
              UpdatesToken(q, t)' => UpdatesToken(q, t) \/ TokenFree(t)
         /\ \A s \in Sessions :
              /\ UpdatesSession(q, s)' =>
                   UpdatesSession(q, s) \/ (SessionAtRest(s) /\ SessionUnshared(s))
              /\ SharesSession(q, s)' => SharesSession(q, s) \/ SessionAtRest(s)
<1>1. /\ pc'[q] # pc[q] => Moved(q, pc[q], pc'[q])
      /\ pc[q] # "idle" => tok'[q] = tok[q]
      /\ pc[q] \notin {"verify", "find"} => sess'[q] = sess[q]
      /\ pc'[q] = pc[q] => tok'[q] = tok[q] /\ sess'[q] = sess[q]
  BY Movements
<1>2. ASSUME NEW t \in Tokens, UpdatesToken(q, t)'
      PROVE  UpdatesToken(q, t) \/ TokenFree(t)
  <2>1. pc'[q] = pc[q] => UpdatesToken(q, t)
    BY <1>1, <1>2 DEF UpdatesToken
  <2>2. CASE Moved(q, pc[q], pc'[q])
    <3>1. \/ pc[q] = "spend" /\ TokenUpdatable(q)
          \/ pc[q] = "insert"
      BY <1>2, <2>2 DEF UpdatesToken, Moved, Ended
    <3> QED
      BY <3>1, <1>1, <1>2 DEF UpdatesToken, TokenUpdatable, TokenFree
  <2> QED
    BY <1>1, <2>1, <2>2
<1>3. ASSUME NEW s \in Sessions, UpdatesSession(q, s)'
      PROVE  UpdatesSession(q, s) \/ (SessionAtRest(s) /\ SessionUnshared(s))
  <2>1. pc'[q] = pc[q] => UpdatesSession(q, s)
    BY <1>1, <1>3 DEF UpdatesSession
  <2>2. CASE Moved(q, pc[q], pc'[q])
    <3>1. pc[q] = "revoke" /\ SessionUpdatable(q)
      BY <1>3, <2>2 DEF UpdatesSession, Moved, Ended
    <3> QED
      BY <3>1, <1>1, <1>3
      DEF UpdatesSession, SessionUpdatable, SessionAtRest, SessionUnshared
  <2> QED
    BY <1>1, <2>1, <2>2
<1>4. ASSUME NEW s \in Sessions, SharesSession(q, s)'
      PROVE  SharesSession(q, s) \/ SessionAtRest(s)
  <2>1. pc'[q] = pc[q] => SharesSession(q, s)
    BY <1>1, <1>4 DEF SharesSession
  <2>2. CASE Moved(q, pc[q], pc'[q])
    <3>1. \/ pc[q] = "lock" /\ SessionShareable(q)
          \/ pc[q] \in {"spend", "insert"}
      BY <1>4, <2>2 DEF SharesSession, Moved, Ended
    <3> QED
      BY <3>1, <1>1, <1>4 DEF SharesSession, SessionShareable, SessionAtRest
  <2> QED
    BY <1>1, <2>1, <2>2
<1> QED
  BY <1>2, <1>3, <1>4

(* Only one call at a time is updating a token's row, and nothing keeps it *)
(* from its COMMIT.                                                        *)
TokenIsGivenBack(q, t) == [](UpdatesToken(q, t) => <>TokenFree(t))

LEMMA TokenComesFree ==
  ASSUME NEW t \in Tokens
  PROVE  Spec /\ ServedInTurn => []<>TokenFree(t)
<1>1. ASSUME NEW q \in Requests
      PROVE  Spec /\ ServedInTurn => TokenIsGivenBack(q, t)
  <2>1. Spec /\ ServedInTurn => PointIsLeft(q, "insert") /\ PointIsLeft(q, "commit")
    BY ReadyPointLeft DEF Unhindered
  <2>2. UpdatesToken(q, t) => At(q, "insert") \/ At(q, "commit")
    BY DEF UpdatesToken, At
  <2>3. Below(q, "insert") => ~UpdatesToken(q, t) \/ At(q, "commit")
    BY DEF Below, Remaining, UpdatesToken, At, Ended
  <2>4. Below(q, "commit") => ~UpdatesToken(q, t)
    BY DEF Below, Remaining, UpdatesToken, Ended
  <2>5. IInv /\ [Next]_vars /\ UpdatesToken(q, t) => UpdatesToken(q, t)' \/ TokenFree(t)'
    <3> SUFFICES ASSUME IInv, [Next]_vars, UpdatesToken(q, t),
                        NEW r \in Requests, UpdatesToken(r, t)'
                 PROVE  r = q
      BY DEF TokenFree
    <3>1. UpdatesToken(r, t)
      BY LocksTaken DEF TokenFree
    <3> QED
      BY <3>1 DEF IInv, LocksSound, UpdatesToken
  <2> QED
    BY <2>1, <2>2, <2>3, <2>4, <2>5, Invariant, PTL
    DEF Spec, PointIsLeft, TokenIsGivenBack
<1>2. Spec /\ ServedInTurn => \A q \in Requests : TokenIsGivenBack(q, t)
  BY <1>1
<1>3. (\A q \in Requests : TokenIsGivenBack(q, t))
        => [](\A q \in Requests : UpdatesToken(q, t) => <>TokenFree(t))
  BY DEF TokenIsGivenBack
<1>4. (\A q \in Requests : UpdatesToken(q, t) => <>TokenFree(t))
        => (~TokenFree(t) => <>TokenFree(t))
  BY DEF TokenFree
<1> QED
  BY <1>2, <1>3, <1>4, PTL

(* A revoke has its session to itself, and leaves it so behind.            *)
SessionFree(s) == SessionAtRest(s) /\ SessionUnshared(s)
SessionIsGivenBack(q, s) == [](UpdatesSession(q, s) => <>SessionFree(s))

LEMMA SessionComesFree ==
  ASSUME NEW s \in Sessions
  PROVE  Spec /\ ServedInTurn => [](~SessionAtRest(s) => <>SessionFree(s))
<1>1. ASSUME NEW q \in Requests
      PROVE  Spec /\ ServedInTurn => SessionIsGivenBack(q, s)
  <2>1. Spec /\ ServedInTurn => PointIsLeft(q, "revoking")
    BY ReadyPointLeft DEF Unhindered
  <2>2. UpdatesSession(q, s) => At(q, "revoking")
    BY DEF UpdatesSession, At
  <2>3. Below(q, "revoking") => ~UpdatesSession(q, s)
    BY DEF Below, Remaining, UpdatesSession, Ended
  <2>4. IInv /\ [Next]_vars /\ UpdatesSession(q, s)
          => UpdatesSession(q, s)' \/ SessionFree(s)'
    <3> SUFFICES ASSUME IInv, [Next]_vars, UpdatesSession(q, s), ~UpdatesSession(q, s)'
                 PROVE  SessionFree(s)'
      OBVIOUS
    <3>1. ASSUME NEW r \in Requests, UpdatesSession(r, s)' PROVE FALSE
      <4>1. UpdatesSession(r, s)
        BY <3>1, LocksTaken DEF SessionAtRest
      <4> QED
        BY <3>1, <4>1 DEF IInv, LocksSound, UpdatesSession
    <3>2. ASSUME NEW r \in Requests, SharesSession(r, s)' PROVE FALSE
      <4>1. SharesSession(r, s)
        BY <3>2, LocksTaken DEF SessionAtRest
      <4>2. r # q
        BY <4>1 DEF SharesSession, UpdatesSession
      <4> QED
        BY <4>1, <4>2 DEF IInv, LocksSound, UpdatesSession, SharesSession
    <3> QED
      BY <3>1, <3>2 DEF SessionFree, SessionAtRest, SessionUnshared
  <2> QED
    BY <2>1, <2>2, <2>3, <2>4, Invariant, PTL
    DEF Spec, PointIsLeft, SessionIsGivenBack
<1>2. Spec /\ ServedInTurn => \A q \in Requests : SessionIsGivenBack(q, s)
  BY <1>1
<1>3. (\A q \in Requests : SessionIsGivenBack(q, s))
        => [](\A q \in Requests : UpdatesSession(q, s) => <>SessionFree(s))
  BY DEF SessionIsGivenBack
<1>4. (\A q \in Requests : UpdatesSession(q, s) => <>SessionFree(s))
        => (~SessionAtRest(s) => <>SessionFree(s))
  BY DEF SessionAtRest
<1> QED
  BY <1>2, <1>3, <1>4, PTL

(* A call waits for the row it found when it presented its token, and for  *)
(* no other.                                                               *)
AtWithToken(r, t) == At(r, "spend") /\ tok[r] = t
TokenWaitIsOver(r, t) ==
  [](AtWithToken(r, t) => <>(~At(r, "spend") \/ ~Waits(r)))

LEMMA SpendLeft ==
  ASSUME NEW r \in Requests
  PROVE  Spec /\ ServedInTurn => PointIsLeft(r, "spend")
<1>1. ASSUME NEW t \in Tokens
      PROVE  Spec /\ ServedInTurn => TokenWaitIsOver(r, t)
  <2>1. IInv /\ [Next]_vars /\ AtWithToken(r, t) => AtWithToken(r, t)' \/ ~At(r, "spend")'
    BY Movements DEF AtWithToken, At
  <2>2. AtWithToken(r, t) /\ TokenFree(t) => ~Waits(r)
    BY DEF AtWithToken, At, TokenFree, TokenUpdatable, Waits
  <2> QED
    BY <2>1, <2>2, TokenComesFree, Invariant, PTL DEF Spec, TokenWaitIsOver
<1>2. Spec /\ ServedInTurn => \A t \in Tokens : TokenWaitIsOver(r, t)
  BY <1>1
<1>3. (\A t \in Tokens : TokenWaitIsOver(r, t))
        => [](\A t \in Tokens :
                AtWithToken(r, t) => <>(~At(r, "spend") \/ ~Waits(r)))
  BY DEF TokenWaitIsOver
<1>4. IInv
        /\ (\A t \in Tokens : AtWithToken(r, t) => <>(~At(r, "spend") \/ ~Waits(r)))
        => (At(r, "spend") => <>(~At(r, "spend") \/ ~Waits(r)))
  <2>1. IInv /\ At(r, "spend") => \E t \in Tokens : AtWithToken(r, t)
    BY DEF IInv, CallsSound, CallSound, HasFound, BearsRotation, Stored, AtWithToken, At
  <2> QED
    BY <2>1
<1>5. "spend" \in Points \ ({"idle"} \cup Ended)
  BY DEF Points, AtDatabase, Rotating, Ended
<1>6. Spec /\ ServedInTurn /\ WaitEnds(r, "spend") => PointIsLeft(r, "spend")
  BY <1>5, PointLeft
<1> QED
  BY <1>2, <1>3, <1>4, <1>6, Invariant, PTL DEF WaitEnds

AtWithSession(r, s) == At(r, "lock") /\ sess[r] = s
SessionWaitIsOver(r, s) ==
  [](AtWithSession(r, s) => <>(~At(r, "lock") \/ ~Waits(r)))

LEMMA LockLeft ==
  ASSUME NEW r \in Requests
  PROVE  Spec /\ ServedInTurn => PointIsLeft(r, "lock")
<1>1. ASSUME NEW s \in Sessions
      PROVE  Spec /\ ServedInTurn => SessionWaitIsOver(r, s)
  <2>1. IInv /\ [Next]_vars /\ AtWithSession(r, s)
          => AtWithSession(r, s)' \/ ~At(r, "lock")'
    BY Movements DEF AtWithSession, At
  <2>2. AtWithSession(r, s) /\ SessionAtRest(s) => ~Waits(r)
    BY DEF AtWithSession, At, SessionAtRest, SessionShareable, Waits
  <2>3. SessionFree(s) => SessionAtRest(s)
    BY DEF SessionFree
  <2> QED
    BY <2>1, <2>2, <2>3, SessionComesFree, Invariant, PTL DEF Spec, SessionWaitIsOver
<1>2. Spec /\ ServedInTurn => \A s \in Sessions : SessionWaitIsOver(r, s)
  BY <1>1
<1>3. (\A s \in Sessions : SessionWaitIsOver(r, s))
        => [](\A s \in Sessions :
                AtWithSession(r, s) => <>(~At(r, "lock") \/ ~Waits(r)))
  BY DEF SessionWaitIsOver
<1>4. IInv
        /\ (\A s \in Sessions : AtWithSession(r, s) => <>(~At(r, "lock") \/ ~Waits(r)))
        => (At(r, "lock") => <>(~At(r, "lock") \/ ~Waits(r)))
  <2>1. IInv /\ At(r, "lock") => \E s \in Sessions : AtWithSession(r, s)
    BY DEF IInv, CallsSound, CallSound, HasFound, BearsRotation, RowsSound, Opened,
           AtWithSession, At
  <2> QED
    BY <2>1
<1>5. "lock" \in Points \ ({"idle"} \cup Ended)
  BY DEF Points, AtDatabase, Rotating, Ended
<1>6. Spec /\ ServedInTurn /\ WaitEnds(r, "lock") => PointIsLeft(r, "lock")
  BY <1>5, PointLeft
<1> QED
  BY <1>2, <1>3, <1>4, <1>6, Invariant, PTL DEF WaitEnds

(* A call in the pool that waits for no session's row gives its connection *)
(* back, and then one is free.                                             *)
HoldsItsSession(q) == pc[q] \in Unhindered \cup {"spend"}
ConnectionIsGivenBack(q) == [](HoldsItsSession(q) => <>ConnectionFree)

LEMMA HolderLeaves ==
  ASSUME NEW q \in Requests
  PROVE  Spec /\ ServedInTurn => ConnectionIsGivenBack(q)
<1> USE DEF HoldsItsSession, Unhindered
<1>1. Spec /\ ServedInTurn =>
        /\ PointIsLeft(q, "insert") /\ PointIsLeft(q, "commit")
        /\ PointIsLeft(q, "leave") /\ PointIsLeft(q, "revoking")
        /\ PointIsLeft(q, "insertFirst") /\ PointIsLeft(q, "commitLogin")
        /\ PointIsLeft(q, "spend")
  BY ReadyPointLeft, SpendLeft
<1>2. IInv /\ PoolSound /\ [Next]_vars /\ HoldsItsSession(q)
        => HoldsItsSession(q)' \/ ConnectionFree'
  <2> SUFFICES ASSUME IInv, PoolSound, [Next]_vars, HoldsItsSession(q),
                      ~HoldsItsSession(q)'
               PROVE  ConnectionFree'
    OBVIOUS
  <2>1. Moved(q, pc[q], pc'[q])
    BY Movements
  <2>2. q \in Connected /\ q \notin Connected'
    BY <2>1
    DEF Moved, CommitLogin, CommitRotation, Connected, Rotating, Revoking, Opening, Ended
  <2> QED
    BY <2>2, LeavingFrees DEF IInv
<1>3. HoldsItsSession(q) =>
        \/ At(q, "spend") \/ At(q, "leave") \/ At(q, "insert") \/ At(q, "insertFirst")
        \/ At(q, "commit") \/ At(q, "commitLogin") \/ At(q, "revoking")
  BY DEF At
<1>4. HoldsItsSession(q) /\ Below(q, "spend") =>
        \/ At(q, "leave") \/ At(q, "insert") \/ At(q, "insertFirst")
        \/ At(q, "commit") \/ At(q, "commitLogin") \/ At(q, "revoking")
  BY DEF At, Below, Remaining, Ended
<1>5. HoldsItsSession(q) /\ Below(q, "leave") =>
        \/ At(q, "insert") \/ At(q, "insertFirst")
        \/ At(q, "commit") \/ At(q, "commitLogin") \/ At(q, "revoking")
  BY DEF At, Below, Remaining, Ended
<1>6. HoldsItsSession(q) /\ Below(q, "insert") =>
        At(q, "commit") \/ At(q, "commitLogin") \/ At(q, "revoking")
  BY DEF At, Below, Remaining, Ended
<1>7. Below(q, "insertFirst") <=> Below(q, "insert")
  BY DEF Below, Remaining, Ended
<1>8. ~(HoldsItsSession(q) /\ Below(q, "commit"))
  BY DEF Below, Remaining, Ended
<1>9. /\ Below(q, "commitLogin") <=> Below(q, "commit")
      /\ Below(q, "revoking") <=> Below(q, "commit")
  BY DEF Below, Remaining, Ended
<1> HIDE DEF HoldsItsSession
<1> QED
  BY <1>1, <1>2, <1>3, <1>4, <1>5, <1>6, <1>7, <1>8, <1>9, Invariant, PoolIsRespected,
     PTL
  DEF Spec, PointIsLeft, ConnectionIsGivenBack

(* A call that waits for a session's row waits for such calls.             *)
SomeoneHolds == \E q \in Requests : HoldsItsSession(q)

LEMMA AHolderLeaves == Spec /\ ServedInTurn => [](SomeoneHolds => <>ConnectionFree)
<1>1. Spec /\ ServedInTurn => \A q \in Requests : ConnectionIsGivenBack(q)
  BY HolderLeaves
<1>2. (\A q \in Requests : ConnectionIsGivenBack(q))
        => [](\A q \in Requests : HoldsItsSession(q) => <>ConnectionFree)
  BY DEF ConnectionIsGivenBack
<1>3. (\A q \in Requests : HoldsItsSession(q) => <>ConnectionFree)
        => (SomeoneHolds => <>ConnectionFree)
  BY DEF SomeoneHolds
<1> QED
  BY <1>1, <1>2, <1>3, PTL

ConnectedLeaves(q) == [](q \in Connected => <>ConnectionFree)

LEMMA EveryoneLeaves ==
  ASSUME NEW q \in Requests
  PROVE  Spec /\ ServedInTurn => ConnectedLeaves(q)
<1>1. q \in Connected => SomeoneHolds \/ At(q, "lock") \/ At(q, "revoke")
  BY DEF Connected, Rotating, Revoking, Opening, SomeoneHolds, HoldsItsSession,
         Unhindered, At
<1>2. IInv /\ PoolSound /\ [Next]_vars /\ q \in Connected
        => (q \in Connected)' \/ ConnectionFree'
  BY LeavingFrees DEF IInv
<1>3. Spec /\ ServedInTurn => PointIsLeft(q, "lock")
  BY LockLeft
<1>4. q \in Connected /\ Below(q, "lock") => SomeoneHolds \/ At(q, "revoke")
  BY <1>1 DEF At, Below, Remaining, Ended
<1>5. At(q, "revoke") => ~Waits(q) \/ SomeoneHolds
  BY DEF At, Waits, SessionUpdatable, SharesSession, UpdatesSession, SomeoneHolds,
         HoldsItsSession, Unhindered
<1>6. At(q, "revoke") /\ ~Waits(q) => UnderWay(q) /\ ~Waits(q)
  BY DEF At, UnderWay, Ended
<1>7. ServedInTurn => Served(q)
  BY DEF ServedInTurn
<1>8. IInv /\ [Next]_vars /\ At(q, "revoke") => At(q, "revoke")' \/ Below(q, "revoke")'
  BY Downhill DEF At, Below
<1>9. IInv /\ [Next]_vars /\ At(q, "revoke") /\ <<Step(q)>>_vars => Below(q, "revoke")'
  BY Downhill, StepMoves DEF IInv, At, Below
<1>10. q \in Connected /\ Below(q, "revoke") => SomeoneHolds
  BY DEF Below, Remaining, Ended, Connected, Rotating, Revoking, Opening,
         SomeoneHolds, HoldsItsSession, Unhindered
<1>11. Spec /\ ServedInTurn => [](SomeoneHolds => <>ConnectionFree)
  BY AHolderLeaves
<1> QED
  BY <1>1, <1>2, <1>3, <1>4, <1>5, <1>6, <1>7, <1>8, <1>9, <1>10, <1>11, Invariant,
     PoolIsRespected, PTL
  DEF Spec, Served, PointIsLeft, ConnectedLeaves

(* However small the pool, a connection of it is free again and again.     *)
LEMMA ConnectionComesFree == Spec /\ ServedInTurn => []<>ConnectionFree
<1>1. Spec /\ ServedInTurn => \A q \in Requests : ConnectedLeaves(q)
  BY EveryoneLeaves
<1>2. (\A q \in Requests : ConnectedLeaves(q))
        => [](\A q \in Requests : q \in Connected => <>ConnectionFree)
  BY DEF ConnectedLeaves
<1>3. (\A q \in Requests : q \in Connected => <>ConnectionFree)
        => (~(Connected = {}) => <>ConnectionFree)
  BY DEF Connected
<1> QED
  BY <1>1, <1>2, <1>3, NobodyWaitsForAnEmptyPool, PTL

LEMMA ConnectionPointLeft ==
  ASSUME NEW r \in Requests, NEW point \in {"lookUp", "create", "find", "rotate", "reuse"}
  PROVE  Spec /\ ServedInTurn => PointIsLeft(r, point)
<1>1. point \in Points \ ({"idle"} \cup Ended)
  BY DEF Points, AtDatabase, Rotating, Revoking, Opening, Ended
<1>2. At(r, point) /\ ConnectionFree => ~Waits(r)
  BY DEF At, Waits
<1>3. Spec /\ ServedInTurn /\ WaitEnds(r, point) => PointIsLeft(r, point)
  BY <1>1, PointLeft
<1> QED
  BY <1>2, <1>3, ConnectionComesFree, PTL DEF WaitEnds

ComesToItsEnd(r) == pc[r] # "idle" ~> pc[r] \in Ended \cup {"revoke"}

(* What is left ahead of a call at each point.                             *)
LEMMA PointsAhead ==
  ASSUME TypeOK, NEW r \in Requests
  PROVE  /\ pc[r] # "idle" => At(r, "find") \/ Below(r, "find")
         /\ Below(r, "find") => At(r, "decide") \/ Below(r, "decide")
         /\ Below(r, "decide") => At(r, "rotate") \/ Below(r, "rotate")
         /\ Below(r, "rotate") => At(r, "lock") \/ Below(r, "lock")
         /\ Below(r, "lock") => At(r, "lookUp") \/ At(r, "spend") \/ Below(r, "spend")
         /\ Below(r, "lookUp") <=> Below(r, "spend")
         /\ Below(r, "spend") => At(r, "verify") \/ At(r, "leave") \/ Below(r, "leave")
         /\ Below(r, "verify") <=> Below(r, "leave")
         /\ Below(r, "leave") => At(r, "create") \/ At(r, "reuse") \/ Below(r, "reuse")
         /\ Below(r, "create") <=> Below(r, "reuse")
         /\ Below(r, "reuse") =>
              \/ At(r, "insert") \/ At(r, "insertFirst") \/ At(r, "revoke")
              \/ Below(r, "revoke")
         /\ Below(r, "insert") <=> Below(r, "revoke")
         /\ Below(r, "insertFirst") <=> Below(r, "revoke")
         /\ Below(r, "revoke") =>
              \/ At(r, "commit") \/ At(r, "commitLogin") \/ At(r, "revoking")
              \/ Below(r, "commit")
         /\ Below(r, "commitLogin") <=> Below(r, "commit")
         /\ Below(r, "revoking") <=> Below(r, "commit")
         /\ Below(r, "commit") => At(r, "committed") \/ At(r, "revoked") \/ pc[r] \in Ended
         /\ Below(r, "committed") => pc[r] \in Ended
         /\ Below(r, "revoked") => pc[r] \in Ended
<1>1. pc[r] \in Points
  BY DEF TypeOK
<1> USE <1>1 DEF At, Below, Remaining, Points, AtDatabase, Rotating, Revoking, Opening, Ended
<1>2. pc[r] # "idle" => At(r, "find") \/ Below(r, "find")
  OBVIOUS
<1>3. Below(r, "find") => At(r, "decide") \/ Below(r, "decide")
  OBVIOUS
<1>4. Below(r, "decide") => At(r, "rotate") \/ Below(r, "rotate")
  OBVIOUS
<1>5. Below(r, "rotate") => At(r, "lock") \/ Below(r, "lock")
  OBVIOUS
<1>6. Below(r, "lock") => At(r, "lookUp") \/ At(r, "spend") \/ Below(r, "spend")
  OBVIOUS
<1>7. Below(r, "spend") => At(r, "verify") \/ At(r, "leave") \/ Below(r, "leave")
  OBVIOUS
<1>8. Below(r, "leave") => At(r, "create") \/ At(r, "reuse") \/ Below(r, "reuse")
  OBVIOUS
<1>9. Below(r, "reuse") =>
        \/ At(r, "insert") \/ At(r, "insertFirst") \/ At(r, "revoke") \/ Below(r, "revoke")
  OBVIOUS
<1>10. Below(r, "revoke") =>
        \/ At(r, "commit") \/ At(r, "commitLogin") \/ At(r, "revoking") \/ Below(r, "commit")
  OBVIOUS
<1>11. Below(r, "commit") => At(r, "committed") \/ At(r, "revoked") \/ pc[r] \in Ended
  OBVIOUS
<1>12. Below(r, "committed") => pc[r] \in Ended
  OBVIOUS
<1>13. Below(r, "revoked") => pc[r] \in Ended
  OBVIOUS
<1>14. /\ Below(r, "lookUp") <=> Below(r, "spend")
       /\ Below(r, "verify") <=> Below(r, "leave")
       /\ Below(r, "create") <=> Below(r, "reuse")
  OBVIOUS
<1>15. /\ Below(r, "insert") <=> Below(r, "revoke")
       /\ Below(r, "insertFirst") <=> Below(r, "revoke")
       /\ Below(r, "commitLogin") <=> Below(r, "commit")
       /\ Below(r, "revoking") <=> Below(r, "commit")
  OBVIOUS
<1> QED
  BY <1>2, <1>3, <1>4, <1>5, <1>6, <1>7, <1>8, <1>9, <1>10, <1>11, <1>12, <1>13, <1>14,
     <1>15, Zenon

LEMMA PointsLeft ==
  ASSUME NEW r \in Requests
  PROVE  Spec /\ ServedInTurn =>
           /\ PointIsLeft(r, "find") /\ PointIsLeft(r, "decide")
           /\ PointIsLeft(r, "rotate") /\ PointIsLeft(r, "lock")
           /\ PointIsLeft(r, "lookUp") /\ PointIsLeft(r, "spend")
           /\ PointIsLeft(r, "verify") /\ PointIsLeft(r, "leave")
           /\ PointIsLeft(r, "create") /\ PointIsLeft(r, "reuse")
           /\ PointIsLeft(r, "insert") /\ PointIsLeft(r, "insertFirst")
           /\ PointIsLeft(r, "commit") /\ PointIsLeft(r, "commitLogin")
           /\ PointIsLeft(r, "revoking")
           /\ PointIsLeft(r, "committed") /\ PointIsLeft(r, "revoked")
BY ConnectionPointLeft, LockLeft, SpendLeft, ReadyPointLeft DEF Unhindered

(* Every call that arrives ends, or comes to wait for the row it revokes,  *)
(* however many others wait for the same rows and connections, or fail.    *)
THEOREM CallsComeToTheirEnd ==
  Spec /\ ServedInTurn => \A r \in Requests : ComesToItsEnd(r)
<1> SUFFICES ASSUME NEW r \in Requests
             PROVE  Spec /\ ServedInTurn => ComesToItsEnd(r)
  OBVIOUS
<1>1. At(r, "revoke") \/ pc[r] \in Ended => pc[r] \in Ended \cup {"revoke"}
  BY DEF At
<1> QED
  BY <1>1, PointsAhead, PointsLeft, TypeCorrect, PTL DEF PointIsLeft, ComesToItsEnd

(* The UPDATE of a revoke has to find its session unshared, and Postgres   *)
(* lets one FOR SHARE after another overtake it: only rotations of that    *)
(* session that keep overlapping without end could hold it up.  Finitely   *)
(* many calls cannot.                                                      *)
Pauses(s) == []<>SessionUnshared(s)
RotationsPause == \A s \in Sessions : Pauses(s)

AtWithRevoked(r, s) == At(r, "revoke") /\ sess[r] = s
RevokeWaitIsOver(r, s) ==
  [](AtWithRevoked(r, s) => <>(~At(r, "revoke") \/ ~Waits(r)))

LEMMA RevokeLeft ==
  ASSUME NEW r \in Requests
  PROVE  Spec /\ ServedInTurn /\ RotationsPause => PointIsLeft(r, "revoke")
<1>1. ASSUME NEW s \in Sessions
      PROVE  Spec /\ ServedInTurn /\ RotationsPause => RevokeWaitIsOver(r, s)
  <2>1. IInv /\ [Next]_vars /\ AtWithRevoked(r, s)
          => AtWithRevoked(r, s)' \/ ~At(r, "revoke")'
    BY Movements DEF AtWithRevoked, At
  <2>2. AtWithRevoked(r, s) /\ SessionFree(s) => ~Waits(r)
    BY DEF AtWithRevoked, At, SessionFree, SessionAtRest, SessionUnshared,
           SessionUpdatable, Waits
  <2>3. SessionAtRest(s) /\ SessionUnshared(s) => SessionFree(s)
    BY DEF SessionFree
  <2>4. RotationsPause => Pauses(s)
    BY DEF RotationsPause
  <2> QED
    BY <2>1, <2>2, <2>3, <2>4, SessionComesFree, Invariant, PTL
    DEF Spec, Pauses, RevokeWaitIsOver
<1>2. Spec /\ ServedInTurn /\ RotationsPause => \A s \in Sessions : RevokeWaitIsOver(r, s)
  BY <1>1
<1>3. (\A s \in Sessions : RevokeWaitIsOver(r, s))
        => [](\A s \in Sessions :
                AtWithRevoked(r, s) => <>(~At(r, "revoke") \/ ~Waits(r)))
  BY DEF RevokeWaitIsOver
<1>4. IInv
        /\ (\A s \in Sessions :
              AtWithRevoked(r, s) => <>(~At(r, "revoke") \/ ~Waits(r)))
        => (At(r, "revoke") => <>(~At(r, "revoke") \/ ~Waits(r)))
  <2>1. IInv /\ At(r, "revoke") => \E s \in Sessions : AtWithRevoked(r, s)
    BY DEF IInv, CallsSound, CallSound, HasFound, RowsSound, Opened, AtWithRevoked, At
  <2> QED
    BY <2>1
<1>5. "revoke" \in Points \ ({"idle"} \cup Ended)
  BY DEF Points, AtDatabase, Revoking, Ended
<1>6. Spec /\ ServedInTurn /\ WaitEnds(r, "revoke") => PointIsLeft(r, "revoke")
  BY <1>5, PointLeft
<1> QED
  BY <1>2, <1>3, <1>4, <1>6, Invariant, PTL DEF WaitEnds

Ends(r) == pc[r] # "idle" ~> pc[r] \in Ended

(* Every call that arrives ends, also the one that has to revoke.          *)
THEOREM EveryCallIsServed ==
  Spec /\ ServedInTurn /\ RotationsPause => EveryCallEnds
<1>1. ASSUME NEW r \in Requests
      PROVE  Spec /\ ServedInTurn /\ RotationsPause => Ends(r)
  BY PointsAhead, PointsLeft, RevokeLeft, TypeCorrect, PTL DEF PointIsLeft, Ends
<1>2. Spec /\ ServedInTurn /\ RotationsPause => \A r \in Requests : Ends(r)
  BY <1>1
<1> QED
  BY <1>2 DEF Ends, EveryCallEnds
==============================================================================
