------------------------------- MODULE Accounts -------------------------------
(***************************************************************************)
(* Register and UpdateProfile of the identity service, statement by        *)
(* statement, with the locks Postgres takes for them: the entry of an      *)
(* uncommitted handle in the unique index, and the row under an UPDATE.    *)
(* GetProfile and the lookup of Login read one committed row and change    *)
(* nothing.                                                                *)
(*                                                                         *)
(* As in RefreshSession the rows are the committed ones, an uncommitted    *)
(* write is known from its call's place, and a request runs once.          *)
(***************************************************************************)
EXTENDS Integers, FiniteSets

CONSTANTS
  Requests,    \* calls of Register and UpdateProfile that may reach the service
  Spellings,   \* handles as people type them
  Handles,     \* handles as CITEXT compares them
  Fold,        \* what it makes of each spelling
  Ids,         \* account ids the service may generate
  Names,       \* display names, as normalizeDisplayName leaves them
  Bios,        \* bios, as normalizeBio leaves them
  EmptyBio,    \* '', which is a bio
  Absent,      \* a field the caller left out
  Nobody,      \* no value: the row does not exist, or the call has none
  PoolSize     \* connections of the pg Pool

ASSUME FoldAssumption == Fold \in [Spellings -> Handles]
ASSUME ValuesAssumption ==
  /\ Absent \notin Spellings \cup Names \cup Bios
  /\ Nobody \notin Spellings \cup Handles \cup Names \cup Bios \cup Ids \cup Requests
  /\ Absent # Nobody
  /\ EmptyBio \in Bios
ASSUME PoolAssumption == PoolSize \in Nat \ {0}

VARIABLES
  (* one value per request *)
  pc,            \* where the call is
  name,          \* the handle a Register asks for
  id,            \* the id it generated, or the account an UpdateProfile is for
  patch,         \* the fields an UpdateProfile changes
  (* committed rows *)
  handle,        \* users.handle, Nobody while no row has that id
  displayName,   \* users.display_name
  bio,           \* users.bio
  secret,        \* credentials.password_hash: the Register whose password it is
  (* the rest *)
  minted         \* ids generated so far, stored or not

locals == <<name, id, patch>>
users == <<handle, displayName, bio>>
rows == <<users, secret>>
vars == <<pc, locals, rows, minted>>

DisplayNames == Spellings \cup Names
Patches ==
  [displayName : Names \cup {Absent}, bio : Bios \cup {Absent}]
NoPatch == [displayName |-> Absent, bio |-> Absent]

Accounts == {i \in Ids : handle[i] # Nobody}
Answers(i, s) == handle[i] # Nobody /\ Fold[handle[i]] = Fold[s]

-----------------------------------------------------------------------------
(* Where a call may be.                                                    *)

Creating == {"insertUser", "insertCredentials", "commit", "rollback"}
Updating == {"updateRow", "updating"}

AtDatabase ==
  {"exists", "create", "committed", "update", "changed"} \cup Creating \cup Updating

(* lost: the call took effect and its answer did not arrive.               *)
Ended ==
  {"registered", "updated", "lost", "rejected", "taken", "failed", "crashed"}

Points == {"idle", "hash"} \cup AtDatabase \cup Ended

Connected == {r \in Requests : pc[r] \in Creating \cup Updating}
ConnectionFree == Cardinality(Connected) < PoolSize

(* Fault: a transaction that fails is left open.                           *)
ClaimsWhenFailed(r, s) ==
  /\ \/ pc[r] \in {"insertCredentials", "commit"}
     \/ pc[r] = "failed" /\ id[r] # Nobody /\ handle[id[r]] = Nobody
  /\ Fold[name[r]] = Fold[s]

(* Has an uncommitted row whose entry the unique index on handle holds.    *)
Claims(r, s) ==
  pc[r] \in {"insertCredentials", "commit"} /\ Fold[name[r]] = Fold[s]

UpdatesRow(r, i) == pc[r] = "updating" /\ id[r] = i

(* An INSERT of a handle that another transaction has inserted waits for   *)
(* its end, and so does an UPDATE of a row that another has updated.       *)
HandleFree(r) == \A q \in Requests : ~Claims(q, name[r])
RowFree(r) == \A q \in Requests : ~UpdatesRow(q, id[r])

UnderWay(r) == pc[r] \notin {"idle"} \cup Ended

GoTo(r, point) == pc' = [pc EXCEPT ![r] = point]

(* A step that moves its call on and changes nothing else.                 *)
Goes(r, from, to) == pc[r] = from /\ GoTo(r, to) /\ UNCHANGED <<locals, rows, minted>>

Init ==
  /\ pc = [r \in Requests |-> "idle"]
  /\ name = [r \in Requests |-> Nobody]
  /\ id = [r \in Requests |-> Nobody]
  /\ patch = [r \in Requests |-> NoPatch]
  /\ handle = [i \in Ids |-> Nobody]
  /\ displayName = [i \in Ids |-> Nobody]
  /\ bio = [i \in Ids |-> Nobody]
  /\ secret = [i \in Ids |-> Nobody]
  /\ minted = {}

-----------------------------------------------------------------------------
(* A handle, password, display name or bio that breaks a rule, or a patch  *)
(* without a field: refused before anything is read.                       *)
RejectInput(r) == Goes(r, "idle", "rejected")

(* Register.                                                               *)

CallRegister(r, s) ==
  /\ pc[r] = "idle"
  /\ GoTo(r, "exists")
  /\ name' = [name EXCEPT ![r] = s]
  /\ UNCHANGED <<id, patch, rows, minted>>

(* existsByHandle: a read that holds nothing.                              *)
CheckHandle(r) ==
  /\ ConnectionFree
  /\ \/ Goes(r, "exists", "taken") /\ \E i \in Ids : Answers(i, name[r])
     \/ Goes(r, "exists", "hash") /\ \A i \in Ids : ~Answers(i, name[r])

(* The password is hashed, and the account gets a fresh id.                *)
Hash(r, i) ==
  /\ pc[r] = "hash"
  /\ i \in Ids \ minted
  /\ GoTo(r, "create")
  /\ id' = [id EXCEPT ![r] = i]
  /\ minted' = minted \cup {i}
  /\ UNCHANGED <<name, patch, rows>>

(* The hasher or the id generator throws.                                  *)
HashThrows(r) == Goes(r, "hash", "failed")

(* create: BEGIN.                                                          *)
BeginCreate(r) == ConnectionFree /\ Goes(r, "create", "insertUser")

(* Fault: the handle column lacks its unique constraint.                   *)
InsertUserUnchecked(r) == Goes(r, "insertUser", "insertCredentials")

(* Fault: create's statements are not wrapped in one transaction.          *)
InsertUserCommitted(r) ==
  /\ pc[r] = "insertUser"
  /\ HandleFree(r)
  /\ \A i \in Ids : ~Answers(i, name[r])
  /\ GoTo(r, "insertCredentials")
  /\ handle' = [handle EXCEPT ![id[r]] = name[r]]
  /\ displayName' = [displayName EXCEPT ![id[r]] = name[r]]
  /\ bio' = [bio EXCEPT ![id[r]] = EmptyBio]
  /\ UNCHANGED <<locals, secret, minted>>

(* INSERT INTO users waits for the end of a transaction that has inserted  *)
(* the handle, and is a unique violation if that one, or any before it,    *)
(* committed.                                                              *)
InsertUser(r) ==
  /\ \/ Goes(r, "insertUser", "rollback") /\ \E i \in Ids : Answers(i, name[r])
     \/ Goes(r, "insertUser", "insertCredentials") /\ \A i \in Ids : ~Answers(i, name[r])
  /\ HandleFree(r)

(* ROLLBACK; the violation becomes HandleTakenError.                       *)
RollBackCreate(r) == Goes(r, "rollback", "taken")

InsertCredentials(r) == Goes(r, "insertCredentials", "commit")

(* The handle is the first display name, and the bio defaults to ''.       *)
CommitCreate(r) ==
  /\ pc[r] = "commit"
  /\ GoTo(r, "committed")
  /\ handle' = [handle EXCEPT ![id[r]] = name[r]]
  /\ displayName' = [displayName EXCEPT ![id[r]] = name[r]]
  /\ bio' = [bio EXCEPT ![id[r]] = EmptyBio]
  /\ secret' = [secret EXCEPT ![id[r]] = r]
  /\ UNCHANGED <<locals, minted>>

-----------------------------------------------------------------------------
(* UpdateProfile, for the account an access token names.  No code deletes  *)
(* an account, so its row is there.                                        *)

CallUpdate(r, i, p) ==
  /\ pc[r] = "idle"
  /\ i \in Accounts
  /\ p \in Patches \ {NoPatch}
  /\ GoTo(r, "update")
  /\ id' = [id EXCEPT ![r] = i]
  /\ patch' = [patch EXCEPT ![r] = p]
  /\ UNCHANGED <<name, rows, minted>>

BeginUpdate(r) == ConnectionFree /\ Goes(r, "update", "updateRow")

(* One autocommitted UPDATE, which waits for another of the same row.      *)
UpdateRow(r) == RowFree(r) /\ Goes(r, "updateRow", "updating")

(* Fault: a field that was left out arrives as ''.                         *)
CommitUpdateOfAbsent(r) ==
  /\ pc[r] = "updating"
  /\ GoTo(r, "changed")
  /\ displayName' = [displayName EXCEPT ![id[r]] =
       IF patch[r].displayName = Absent THEN @ ELSE patch[r].displayName]
  /\ bio' = [bio EXCEPT ![id[r]] =
       IF patch[r].bio = Absent THEN EmptyBio ELSE patch[r].bio]
  /\ UNCHANGED <<locals, handle, secret, minted>>

(* Fault: SET names the display name whether or not it is present.         *)
CommitUpdateOfUndefined(r) ==
  /\ pc[r] = "updating"
  /\ GoTo(r, "changed")
  /\ displayName' = [displayName EXCEPT ![id[r]] = patch[r].displayName]
  /\ bio' = [bio EXCEPT ![id[r]] = IF patch[r].bio = Absent THEN @ ELSE patch[r].bio]
  /\ UNCHANGED <<locals, handle, secret, minted>>

(* SET names the fields that are present, and no other.                    *)
CommitUpdate(r) ==
  /\ pc[r] = "updating"
  /\ GoTo(r, "changed")
  /\ displayName' = [displayName EXCEPT ![id[r]] =
       IF patch[r].displayName = Absent THEN @ ELSE patch[r].displayName]
  /\ bio' = [bio EXCEPT ![id[r]] = IF patch[r].bio = Absent THEN @ ELSE patch[r].bio]
  /\ UNCHANGED <<locals, handle, secret, minted>>

-----------------------------------------------------------------------------
(* Both calls.                                                             *)

Answer(r) ==
  \/ Goes(r, "committed", "registered") \/ Goes(r, "committed", "lost")
  \/ Goes(r, "changed", "updated") \/ Goes(r, "changed", "lost")

(* Fault: whatever create throws is reported as a taken handle.            *)
FailAsTaken(r) ==
  /\ pc[r] \in AtDatabase
  /\ Goes(r, pc[r], IF pc[r] \in Creating THEN "taken" ELSE "failed")

(* A statement fails or its connection breaks.  At committed and changed   *)
(* it is the acknowledgement that is lost.                                 *)
Fail(r) == pc[r] \in AtDatabase /\ Goes(r, pc[r], "failed")

Crash ==
  /\ \E r \in Requests : UnderWay(r)
  /\ pc' = [r \in Requests |-> IF UnderWay(r) THEN "crashed" ELSE pc[r]]
  /\ UNCHANGED <<locals, rows, minted>>

Finished ==
  /\ \A r \in Requests : pc[r] \in Ended
  /\ UNCHANGED vars

Step(r) ==
  \/ CheckHandle(r) \/ HashThrows(r) \/ \E i \in Ids : Hash(r, i)
  \/ BeginCreate(r) \/ InsertUser(r) \/ RollBackCreate(r)
  \/ InsertCredentials(r) \/ CommitCreate(r)
  \/ BeginUpdate(r) \/ UpdateRow(r) \/ CommitUpdate(r)
  \/ Answer(r)

Next ==
  \/ \E r \in Requests :
       \/ RejectInput(r)
       \/ \E s \in Spellings : CallRegister(r, s)
       \/ \E i \in Ids, p \in Patches : CallUpdate(r, i, p)
       \/ Step(r)
       \/ Fail(r)
  \/ Crash
  \/ Finished

Spec == Init /\ [][Next]_vars

(* The event loop and Postgres keep serving a call that can proceed.       *)
FairSpec == Spec /\ \A r \in Requests : WF_vars(Step(r))

-----------------------------------------------------------------------------
(* Every variable holds a value of its column or local.                    *)
TypeOK ==
  /\ pc \in [Requests -> Points]
  /\ name \in [Requests -> Spellings \cup {Nobody}]
  /\ id \in [Requests -> Ids \cup {Nobody}]
  /\ patch \in [Requests -> Patches]
  /\ handle \in [Ids -> Spellings \cup {Nobody}]
  /\ displayName \in [Ids -> DisplayNames \cup {Nobody}]
  /\ bio \in [Ids -> Bios \cup {Nobody}]
  /\ secret \in [Ids -> Requests \cup {Nobody}]
  /\ minted \subseteq Ids

(* However many registrations race between the check and the insert, and   *)
(* however they spell it, one account at most answers to a handle.         *)
OneAccountPerHandle ==
  \A i, j \in Accounts : Fold[handle[i]] = Fold[handle[j]] => i = j

(* An account is never there without credentials, nor credentials without  *)
(* an account, and they are those of the registration that asked for its   *)
(* handle: not those of a racing one, whose password would open it.        *)
CredentialsBelong ==
  \A i \in Ids :
    /\ secret[i] = Nobody <=> i \notin Accounts
    /\ i \in Accounts => id[secret[i]] = i /\ name[secret[i]] = handle[i]

(* A registration that was answered stands, and one told that the handle   *)
(* is taken lost to an account that answers to it and is not its own:      *)
(* no failure on the way is passed off as a conflict.                      *)
AnswersAreTrue ==
  \A r \in Requests :
    /\ pc[r] \in {"committed", "registered"} =>
         id[r] \in Accounts /\ handle[id[r]] = name[r] /\ secret[id[r]] = r
    /\ pc[r] = "taken" =>
         \E i \in Ids : Answers(i, name[r]) /\ secret[i] # r

(* Overlapping updates do not undo each other: what an answered update     *)
(* asked for is still there, unless another call asked for what is there   *)
(* instead.                                                                *)
UpdatesStand ==
  \A r \in Requests :
    pc[r] = "updated" =>
      \E q1, q2 \in Requests :
        /\ id[q1] = id[r] /\ id[q2] = id[r]
        /\ patch[r].displayName # Absent =>
             displayName[id[r]] = patch[q1].displayName
        /\ patch[r].bio # Absent => bio[id[r]] = patch[q2].bio

(* What a call may wait for: a connection of the pool, which calls that    *)
(* wait for a row may hold, and the end of another call's transaction.     *)
Waits(r) ==
  \/ pc[r] \in {"exists", "create", "update"} /\ ~ConnectionFree
  \/ pc[r] = "insertUser" /\ ~HandleFree(r)
  \/ pc[r] = "updateRow" /\ ~RowFree(r)

(* While a call is under way some call waits for nobody: a registration    *)
(* that fails leaves no entry behind for others to wait for, and those     *)
(* that wait for one never hold the connection its owner needs.            *)
SomeCallCanProceed ==
  (\E r \in Requests : UnderWay(r)) =>
    \E r \in Requests : UnderWay(r) /\ ~Waits(r)

(* No call waits for ever, whatever the others hold and however they fail, *)
(* as long as a statement that waits for nobody comes back.                *)
EveryCallEnds ==
  \A r \in Requests : pc[r] # "idle" ~> pc[r] \in Ended

(* The statements above implement the directory.                           *)
Folded(i) == IF handle[i] = Nobody THEN Nobody ELSE Fold[handle[i]]
Book == INSTANCE Directory WITH
  Owners <- Requests,
  handle <- [i \in Ids |-> Folded(i)],
  owner <- secret

ImplementsDirectory == Book!Spec
=============================================================================
