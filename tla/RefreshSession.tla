--------------------------- MODULE RefreshSession ---------------------------
(***************************************************************************)
(* Login and Refresh of the identity service, at the grain at which they   *)
(* interleave: every statement a call sends to Postgres is a step, and so  *)
(* is every stretch of JavaScript between two awaits.                      *)
(*                                                                         *)
(* The committed contents of identity.sessions and identity.refresh_tokens *)
(* are variables.  What a transaction has written and not yet committed is *)
(* visible to that transaction alone, so it stays in the locals of its     *)
(* request until Commit.  A row lock is held exactly while its holder is   *)
(* between two points of its transaction, so the lock table is read off    *)
(* pc rather than kept as a variable.                                      *)
(*                                                                         *)
(* A request runs once.  A client that calls again is another request.     *)
(***************************************************************************)
EXTENDS Integers, FiniteSets

CONSTANTS
  Requests,    \* calls of Login and Refresh that may reach the service
  Sessions,    \* ids a session may get, one per login
  Tokens,      \* refresh tokens the service may mint; a token stands for its row
  NoSession,   \* no session: the request has not reached one
  NoToken,     \* no token, and a presented string the service never minted
  Lifetime,    \* refreshTokenMs: how long a session lasts after its login
  MaxTime,     \* bound on the clock
  PoolSize     \* connections of the pg Pool

ASSUME NoSessionAssumption == NoSession \notin Sessions
ASSUME NoTokenAssumption == NoToken \notin Tokens
ASSUME TimeAssumption ==
  Lifetime \in Nat \ {0} /\ MaxTime \in Nat /\ PoolSize \in Nat \ {0}

VARIABLES
  (* one value per request *)
  pc,          \* where the call is
  tok,         \* the refresh token presented
  sess,        \* the session found, or the one being opened
  found,       \* spent_at of the token as findByTokenHash read it
  now,         \* what Clock.now answered
  next,        \* the token minted by this call
  (* committed rows *)
  expiresAt,   \* sessions.expires_at, Null while no row has that id
  revokedAt,   \* sessions.revoked_at
  owner,       \* refresh_tokens.session_id, NoSession while no row has that id
  spentAt,     \* refresh_tokens.spent_at
  createdAt,   \* refresh_tokens.created_at
  (* the rest *)
  minted,      \* ids and tokens generated so far, stored or not
  held,        \* tokens that have reached a client
  clock        \* the wall clock

locals == <<tok, sess, found, now, next>>
sessionRows == <<expiresAt, revokedAt>>
tokenRows == <<owner, spentAt, createdAt>>
rows == <<sessionRows, tokenRows>>
vars == <<pc, locals, rows, minted, held, clock>>

Null == -1                      \* SQL NULL in a timestamp column
Times == 0 .. MaxTime

Stored == {t \in Tokens : owner[t] # NoSession}
Opened == {s \in Sessions : expiresAt[s] # Null}

-----------------------------------------------------------------------------
(* Where a call may be.                                                    *)

Rotating == {"lock", "spend", "insert", "commit", "leave"}
Revoking == {"revoke", "revoking"}
Opening == {"insertFirst", "commitLogin"}

(* The points at which a call waits for Postgres. *)
AtDatabase ==
  {"lookUp", "find", "rotate", "reuse", "create", "committed", "revoked"}
    \cup Rotating \cup Revoking \cup Opening

(* granted: the answer carried tokens and arrived.  lost: it carried tokens*)
(* and did not arrive.  rejected: the 401.  failed: INTERNAL.  crashed: the*)
(* process died before it answered.                                        *)
Ended == {"granted", "lost", "rejected", "failed", "crashed"}

Points == {"idle", "verify", "decide"} \cup AtDatabase \cup Ended

(* Fault: the revoke of rejectAsReuse runs inside the rotation's           *)
(* transaction callback, on a second connection.                           *)
ConnectedThroughReuse ==
  {r \in Requests : pc[r] \in {"reuse"} \cup Rotating \cup Revoking \cup Opening}

(* A connection of the pool is held from BEGIN to COMMIT, lock waits       *)
(* included, and for the length of an autocommitted statement.             *)
Connected == {r \in Requests : pc[r] \in Rotating \cup Revoking \cup Opening}
ConnectionFree == Cardinality(Connected) < PoolSize

(* Fault: that revoke waits for the row its own call has locked.           *)
SharesSessionThroughReuse(r, s) ==
  /\ pc[r] \in {"spend", "insert", "commit", "leave", "reuse", "revoke"}
  /\ sess[r] = s

(* Row locks, read off the holder's place in its transaction.              *)
SharesSession(r, s) == pc[r] \in {"spend", "insert", "commit", "leave"} /\ sess[r] = s
UpdatesSession(r, s) == pc[r] = "revoking" /\ sess[r] = s
UpdatesToken(r, t) == pc[r] \in {"insert", "commit"} /\ tok[r] = t

(* A statement that finds its row locked waits until it no longer is.      *)
SessionShareable(r) == \A q \in Requests : ~UpdatesSession(q, sess[r])
SessionUpdatable(r) ==
  \A q \in Requests : ~SharesSession(q, sess[r]) /\ ~UpdatesSession(q, sess[r])
TokenUpdatable(r) == \A q \in Requests : ~UpdatesToken(q, tok[r])

UnderWay(r) == pc[r] \notin {"idle"} \cup Ended

GoTo(r, point) == pc' = [pc EXCEPT ![r] = point]

(* A step that moves its call on and changes nothing else.                 *)
Goes(r, from, to) ==
  /\ pc[r] = from
  /\ GoTo(r, to)
  /\ UNCHANGED <<locals, rows, minted, held, clock>>

-----------------------------------------------------------------------------
Init ==
  /\ pc = [r \in Requests |-> "idle"]
  /\ tok = [r \in Requests |-> NoToken]
  /\ sess = [r \in Requests |-> NoSession]
  /\ found = [r \in Requests |-> Null]
  /\ now = [r \in Requests |-> Null]
  /\ next = [r \in Requests |-> NoToken]
  /\ expiresAt = [s \in Sessions |-> Null]
  /\ revokedAt = [s \in Sessions |-> Null]
  /\ owner = [t \in Tokens |-> NoSession]
  /\ spentAt = [t \in Tokens |-> Null]
  /\ createdAt = [t \in Tokens |-> Null]
  /\ minted = {}
  /\ held = {}
  /\ clock = 0

-----------------------------------------------------------------------------
(* Login.                                                                  *)

(* The call arrives with a handle and a password.                          *)
CallLogin(r) == Goes(r, "idle", "lookUp")

(* findCredentialsByHandle: one read, whose row no call ever changes.      *)
LookUp(r) == ConnectionFree /\ Goes(r, "lookUp", "verify")

(* An unknown handle and a wrong password both end in the same rejection,  *)
(* one hash later; a hasher or an id generator that throws, in INTERNAL.   *)
RejectLogin(r) == Goes(r, "verify", "rejected") \/ Goes(r, "verify", "failed")

(* The credentials match: the session and its first token are built, with  *)
(* fresh ids, before anything is written.                                  *)
Login(r, s, t) ==
  /\ pc[r] = "verify"
  /\ s \in Sessions \ minted /\ t \in Tokens \ minted
  /\ GoTo(r, "create")
  /\ sess' = [sess EXCEPT ![r] = s]
  /\ next' = [next EXCEPT ![r] = t]
  /\ now' = [now EXCEPT ![r] = clock]
  /\ minted' = minted \cup {s, t}
  /\ UNCHANGED <<tok, found, rows, held, clock>>

(* BEGIN; INSERT INTO sessions.                                            *)
InsertSession(r) == ConnectionFree /\ Goes(r, "create", "insertFirst")

(* Fault: the lifetime is added twice.                                     *)
CommitLoginTwiceAsLong(r) ==
  /\ pc[r] = "commitLogin"
  /\ GoTo(r, "committed")
  /\ expiresAt' = [expiresAt EXCEPT ![sess[r]] = now[r] + 2 * Lifetime]
  /\ owner' = [owner EXCEPT ![next[r]] = sess[r]]
  /\ createdAt' = [createdAt EXCEPT ![next[r]] = now[r]]
  /\ UNCHANGED <<locals, revokedAt, spentAt, minted, held, clock>>

(* INSERT INTO refresh_tokens, in the same transaction.                    *)
InsertFirstToken(r) == Goes(r, "insertFirst", "commitLogin")

CommitLogin(r) ==
  /\ pc[r] = "commitLogin"
  /\ GoTo(r, "committed")
  /\ expiresAt' = [expiresAt EXCEPT ![sess[r]] = now[r] + Lifetime]
  /\ owner' = [owner EXCEPT ![next[r]] = sess[r]]
  /\ createdAt' = [createdAt EXCEPT ![next[r]] = now[r]]
  /\ UNCHANGED <<locals, revokedAt, spentAt, minted, held, clock>>

-----------------------------------------------------------------------------
(* Refresh.                                                                *)

(* The call arrives with t: a token some client was given, or a string the *)
(* service never minted.  Nothing keeps two callers from presenting one    *)
(* token.                                                                  *)
Present(r, t) ==
  /\ pc[r] = "idle"
  /\ t \in held \cup {NoToken}
  /\ GoTo(r, "find")
  /\ tok' = [tok EXCEPT ![r] = t]
  /\ UNCHANGED <<sess, found, now, next, rows, minted, held, clock>>

(* findByTokenHash: a read of the committed rows, without a lock.          *)
Find(r) ==
  /\ pc[r] = "find"
  /\ ConnectionFree
  /\ \/ /\ tok[r] \notin Stored
        /\ GoTo(r, "rejected")
        /\ UNCHANGED <<sess, found>>
     \/ /\ tok[r] \in Stored
        /\ GoTo(r, "decide")
        /\ sess' = [sess EXCEPT ![r] = owner[tok[r]]]
        /\ found' = [found EXCEPT ![r] = spentAt[tok[r]]]
  /\ UNCHANGED <<tok, now, next, rows, minted, held, clock>>

(* What execute does between the lookup and rotate, on the row it read.    *)
(* Clock.now is asked first, whichever way it then goes.                   *)
Decides(r, to) ==
  /\ pc[r] = "decide"
  /\ GoTo(r, to)
  /\ now' = [now EXCEPT ![r] = clock]
  /\ UNCHANGED <<tok, sess, found, next, rows, minted, held, clock>>

(* Fault: a spent token is turned away quietly.                            *)
FindSpentQuietly(r) == Decides(r, "rejected") /\ found[r] # Null

(* Fault: an expired token is treated as a replay.                         *)
FindExpiredAsReuse(r) == Decides(r, "reuse") /\ found[r] = Null /\ clock >= expiresAt[sess[r]]

(* A token found spent goes to rejectAsReuse; it is checked before the     *)
(* expiry.                                                                 *)
FindSpent(r) == Decides(r, "reuse") /\ found[r] # Null

(* Fault: the comparison with the expiry is off by one.                    *)
MintAtExpiry(r, t) ==
  /\ pc[r] = "decide"
  /\ found[r] = Null
  /\ clock <= expiresAt[sess[r]]
  /\ t \in Tokens \ minted
  /\ now' = [now EXCEPT ![r] = clock]
  /\ next' = [next EXCEPT ![r] = t]
  /\ minted' = minted \cup {t}
  /\ GoTo(r, "rotate")
  /\ UNCHANGED <<tok, sess, found, rows, held, clock>>

FindExpired(r) == Decides(r, "rejected") /\ found[r] = Null /\ clock >= expiresAt[sess[r]]

Mint(r, t) ==
  /\ pc[r] = "decide"
  /\ found[r] = Null
  /\ clock < expiresAt[sess[r]]
  /\ t \in Tokens \ minted
  /\ now' = [now EXCEPT ![r] = clock]
  /\ next' = [next EXCEPT ![r] = t]
  /\ minted' = minted \cup {t}
  /\ GoTo(r, "rotate")
  /\ UNCHANGED <<tok, sess, found, rows, held, clock>>

(* The id generator throws: the clock is behind the last id it issued.     *)
MintThrows(r) == Decides(r, "failed") /\ found[r] = Null /\ clock < expiresAt[sess[r]]

(* rotate takes a connection: BEGIN.                                       *)
BeginRotation(r) == ConnectionFree /\ Goes(r, "rotate", "lock")

(* Fault: the session is read by a subquery, without FOR SHARE.            *)
ReadSession(r) ==
  \/ Goes(r, "lock", "spend") /\ revokedAt[sess[r]] = Null
  \/ Goes(r, "lock", "leave") /\ revokedAt[sess[r]] # Null

(* SELECT ... WHERE revoked_at IS NULL FOR SHARE waits out an UPDATE of    *)
(* the row and answers for the row as it then is.                          *)
LockSession(r) ==
  /\ SessionShareable(r)
  /\ \/ Goes(r, "lock", "spend") /\ revokedAt[sess[r]] = Null
     \/ Goes(r, "lock", "leave") /\ revokedAt[sess[r]] # Null

(* Fault: the UPDATE lacks its spent_at IS NULL.                           *)
SpendTokenAgain(r) == TokenUpdatable(r) /\ Goes(r, "spend", "insert")

(* Fault: rotate's statements are not wrapped in one transaction.          *)
SpendTokenCommitted(r) ==
  /\ pc[r] = "spend"
  /\ TokenUpdatable(r)
  /\ spentAt[tok[r]] = Null
  /\ GoTo(r, "insert")
  /\ spentAt' = [spentAt EXCEPT ![tok[r]] = now[r]]
  /\ UNCHANGED <<locals, sessionRows, owner, createdAt, minted, held, clock>>

(* UPDATE refresh_tokens ... WHERE spent_at IS NULL waits for whoever is   *)
(* updating the row and then checks its condition again.                   *)
SpendToken(r) ==
  /\ TokenUpdatable(r)
  /\ \/ Goes(r, "spend", "insert") /\ spentAt[tok[r]] = Null
     \/ Goes(r, "spend", "leave") /\ spentAt[tok[r]] # Null

(* Fault: the answer is built before the transaction is committed.         *)
InsertWithoutCommit(r) == Goes(r, "insert", "committed")

(* INSERT INTO refresh_tokens of the successor.                            *)
InsertNextToken(r) == Goes(r, "insert", "commit")

CommitRotation(r) ==
  /\ pc[r] = "commit"
  /\ GoTo(r, "committed")
  /\ spentAt' = [spentAt EXCEPT ![tok[r]] = now[r]]
  /\ owner' = [owner EXCEPT ![next[r]] = sess[r]]
  /\ createdAt' = [createdAt EXCEPT ![next[r]] = now[r]]
  /\ UNCHANGED <<locals, sessionRows, minted, held, clock>>

(* The callback returned false: the COMMIT of a transaction that wrote     *)
(* nothing, which lets go of the session's row.                            *)
LeaveRotation(r) == Goes(r, "leave", "reuse")

(* rejectAsReuse: revoke is one autocommitted UPDATE.                      *)
BeginRevoke(r) == ConnectionFree /\ Goes(r, "reuse", "revoke")

(* Fault: the UPDATE lacks its revoked_at IS NULL.                         *)
UpdateSessionAgain(r) == SessionUpdatable(r) /\ Goes(r, "revoke", "revoking")

(* It waits for every lock on the session's row, and matches nothing when  *)
(* revoked_at is set already.                                              *)
UpdateSession(r) ==
  \/ Goes(r, "revoke", "revoking") /\ revokedAt[sess[r]] = Null /\ SessionUpdatable(r)
  \/ Goes(r, "revoke", "revoked") /\ revokedAt[sess[r]] # Null

CommitRevoke(r) ==
  /\ pc[r] = "revoking"
  /\ revokedAt' = [revokedAt EXCEPT ![sess[r]] = now[r]]
  /\ GoTo(r, "revoked")
  /\ UNCHANGED <<locals, expiresAt, tokenRows, minted, held, clock>>

Reject(r) == Goes(r, "revoked", "rejected")

-----------------------------------------------------------------------------
(* Both calls.                                                             *)

(* issueTokens and the answer, which the caller may no longer be there to  *)
(* receive.                                                                *)
Answer(r) ==
  /\ pc[r] = "committed"
  /\ \/ GoTo(r, "granted") /\ held' = held \cup {next[r]}
     \/ GoTo(r, "lost") /\ UNCHANGED held
  /\ UNCHANGED <<locals, rows, minted, clock>>

(* A statement fails or its connection breaks: Postgres rolls back what    *)
(* was not committed, and the error becomes INTERNAL.  At committed and    *)
(* revoked it is the acknowledgement of the COMMIT that is lost.           *)
Fail(r) == pc[r] \in AtDatabase /\ Goes(r, pc[r], "failed")

(* The process dies with every call it was serving; Postgres rolls back    *)
(* their open transactions.  The service keeps nothing in memory.          *)
Crash ==
  /\ \E r \in Requests : UnderWay(r)
  /\ pc' = [r \in Requests |-> IF UnderWay(r) THEN "crashed" ELSE pc[r]]
  /\ UNCHANGED <<locals, rows, minted, held, clock>>

Tick ==
  /\ clock < MaxTime
  /\ clock' = clock + 1
  /\ UNCHANGED <<pc, locals, rows, minted, held>>

(* Every request has run; nothing is left to happen.                       *)
Finished ==
  /\ \A r \in Requests : pc[r] \in Ended
  /\ UNCHANGED vars

(* What a call does by itself once it has arrived.                         *)
Step(r) ==
  \/ LookUp(r) \/ RejectLogin(r)
  \/ \E s \in Sessions, t \in Tokens : Login(r, s, t)
  \/ InsertSession(r) \/ InsertFirstToken(r) \/ CommitLogin(r)
  \/ Find(r) \/ FindSpent(r) \/ FindExpired(r)
  \/ MintThrows(r) \/ \E t \in Tokens : Mint(r, t)
  \/ BeginRotation(r) \/ LockSession(r) \/ SpendToken(r)
  \/ InsertNextToken(r) \/ CommitRotation(r) \/ LeaveRotation(r)
  \/ BeginRevoke(r) \/ UpdateSession(r) \/ CommitRevoke(r) \/ Reject(r)
  \/ Answer(r)

Next ==
  \/ \E r \in Requests :
       \/ CallLogin(r)
       \/ \E t \in Tokens \cup {NoToken} : Present(r, t)
       \/ Step(r)
       \/ Fail(r)
  \/ Crash
  \/ Tick
  \/ Finished

Spec == Init /\ [][Next]_vars

(* The event loop and Postgres keep serving a call that can proceed.       *)
FairSpec == Spec /\ \A r \in Requests : WF_vars(Step(r))

-----------------------------------------------------------------------------
(* Every variable holds a value of its column or local: timestamps are     *)
(* clock readings or NULL, an expiry is a reading plus the lifetime.       *)
TypeOK ==
  /\ pc \in [Requests -> Points]
  /\ tok \in [Requests -> Tokens \cup {NoToken}]
  /\ sess \in [Requests -> Sessions \cup {NoSession}]
  /\ found \in [Requests -> Times \cup {Null}]
  /\ now \in [Requests -> Times \cup {Null}]
  /\ next \in [Requests -> Tokens \cup {NoToken}]
  /\ expiresAt \in [Sessions -> Lifetime .. MaxTime + Lifetime \cup {Null}]
  /\ revokedAt \in [Sessions -> Times \cup {Null}]
  /\ owner \in [Tokens -> Sessions \cup {NoSession}]
  /\ spentAt \in [Tokens -> Times \cup {Null}]
  /\ createdAt \in [Tokens -> Times \cup {Null}]
  /\ minted \subseteq Sessions \cup Tokens
  /\ held \subseteq Tokens
  /\ clock \in Times

(* A session that exists has exactly one unspent token: concurrent         *)
(* exchanges never fork the chain, and a failure or a crash between the    *)
(* statements of rotate or create never leaves it without a head.          *)
Head(s) == {t \in Tokens : owner[t] = s /\ spentAt[t] = Null}
OneHead ==
  \A s \in Opened :
    \E t \in Head(s) : \A u \in Head(s) : u = t

(* A token handed to a client is a row that was committed, in the session  *)
(* the answer names: no answer precedes its COMMIT, and none is undone by  *)
(* a later rollback.                                                       *)
AnswersAreDurable ==
  /\ held \subseteq Stored
  /\ \A r \in Requests :
       pc[r] \in {"committed", "granted", "lost"} =>
         /\ sess[r] \in Opened
         /\ next[r] \in Stored /\ owner[next[r]] = sess[r]
         /\ tok[r] # NoToken => tok[r] \in Stored /\ owner[tok[r]] = sess[r]

(* When two presentations of one token have both been answered and one of  *)
(* them got a successor, the session is revoked, whichever came first,     *)
(* unless the other was turned away for arriving past the expiry.          *)
Exchanged(r) == tok[r] # NoToken /\ pc[r] \in {"granted", "lost"}
ReplayEndsTheSession ==
  \A r, q \in Requests :
    (r # q /\ tok[r] = tok[q] /\ Exchanged(r)) =>
      /\ ~Exchanged(q)
      /\ pc[q] = "rejected" =>
           \/ revokedAt[sess[r]] # Null
           \/ now[q] >= expiresAt[sess[r]]

(* A session is revoked only after two calls presented the same token of   *)
(* its chain: a client that presents each of its tokens once is never      *)
(* signed out, whatever fails and however its calls interleave.            *)
RevokedOnlyOnReplay ==
  \A s \in Sessions :
    revokedAt[s] # Null =>
      \E r, q \in Requests :
        r # q /\ tok[r] = tok[q] /\ sess[r] = s /\ sess[q] = s

(* The lifetime is absolute: no token of a chain is created a lifetime or  *)
(* more after any other, so rotating never moves the deadline, however     *)
(* long the rotation waited between reading the clock and committing.      *)
AbsoluteLifetime ==
  \A t, u \in Stored :
    owner[t] = owner[u] => createdAt[t] - createdAt[u] < Lifetime

(* Rows are only ever added or completed: what was spent or revoked stays  *)
(* so with its first timestamp, though several calls may write it, and no  *)
(* row is deleted or moved to another session.                             *)
RowsAreKept ==
  [][/\ \A t \in Tokens :
          /\ owner[t] # NoSession =>
               owner'[t] = owner[t] /\ createdAt'[t] = createdAt[t]
          /\ spentAt[t] # Null => spentAt'[t] = spentAt[t]
     /\ \A s \in Sessions :
          /\ expiresAt[s] # Null => expiresAt'[s] = expiresAt[s]
          /\ revokedAt[s] # Null => revokedAt'[s] = revokedAt[s]]_vars

(* Revocation is final: a rotation that overlaps a revoke either commits   *)
(* before it or adds nothing to the chain.                                 *)
NothingJoinsARevokedSession ==
  [][\A s \in Sessions :
       revokedAt[s] # Null =>
         \A t \in Tokens : owner'[t] = s => owner[t] = s]_vars

(* The statements above implement the chain of single-use tokens: a COMMIT *)
(* is one step of it, and every other step leaves it as it was.            *)
Chain == INSTANCE TokenChain WITH
  chain <- owner,
  spent <- {t \in Tokens : spentAt[t] # Null},
  revoked <- {s \in Sessions : revokedAt[s] # Null}

ImplementsChain == Chain!Spec

(* What a call may wait for: a connection of the pool, which calls that    *)
(* wait for a row lock may hold, and the lock its statement needs.         *)
Waits(r) ==
  \/ pc[r] \in {"lookUp", "create", "find", "rotate", "reuse"} /\ ~ConnectionFree
  \/ pc[r] = "lock" /\ ~SessionShareable(r)
  \/ pc[r] = "spend" /\ ~TokenUpdatable(r)
  \/ pc[r] = "revoke" /\ revokedAt[sess[r]] = Null /\ ~SessionUpdatable(r)

(* While a call is under way some call waits for nobody: the waits for row *)
(* locks and for a connection of an exhausted pool never form a cycle.     *)
SomeCallCanProceed ==
  (\E r \in Requests : UnderWay(r)) =>
    \E r \in Requests : UnderWay(r) /\ ~Waits(r)

(* Nothing else holds a call up: at every other point, and whatever it has *)
(* read by then, the code has a next step for it.                          *)
OnlyLocksHoldACallUp ==
  \A r \in Requests : UnderWay(r) => (Waits(r) <=> ~ENABLED Step(r))

(* Every call that arrives ends, however many others wait for the same     *)
(* rows, the same connections, or fail under way.                          *)
EveryCallEnds ==
  \A r \in Requests : pc[r] # "idle" ~> pc[r] \in Ended
=============================================================================
