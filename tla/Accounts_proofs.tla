--------------------------- MODULE Accounts_proofs ---------------------------
(***************************************************************************)
(* What holds of Accounts for every set of calls, ids and spellings, and   *)
(* every way of folding them.                                              *)
(***************************************************************************)
EXTENDS Accounts, FiniteSetTheorems, TLAPS

(* A registration that has generated its id and not yet committed it.      *)
Bears(r) == pc[r] \in {"create"} \cup Creating

Registering(r) == pc[r] \in {"exists", "hash"} \/ Bears(r)

(* An update that has been let in.                                         *)
Changing(r) == pc[r] \in {"update", "changed", "updated"} \cup Updating

(* An account r did not register holds the handle r asks for.              *)
Lost(r) == \E i \in Ids : Answers(i, name[r]) /\ secret[i] # r

(* What a call knows at its place.                                         *)
CallSound(r) ==
  /\ pc[r] \in {"idle", "exists", "hash"} => id[r] = Nobody
  /\ Registering(r) => name[r] \in Spellings
  /\ Bears(r) => id[r] \in (Ids \cap minted) \ Accounts
  /\ pc[r] = "rollback" => Lost(r)
  /\ Changing(r) => id[r] \in Accounts
CallsSound == \A r \in Requests : CallSound(r)

(* Rows come and go whole, and a committed registration is over.           *)
RowsSound ==
  /\ Accounts \subseteq minted
  /\ \A i \in Ids : (displayName[i] = Nobody <=> i \notin Accounts)
                     /\ (bio[i] = Nobody <=> i \notin Accounts)
  /\ \A i \in Accounts :
       pc[secret[i]] \in {"committed", "registered", "lost", "failed", "crashed"}

MintedApart ==
  \A r, q \in Requests : r # q /\ Bears(r) /\ Bears(q) => id[r] # id[q]

(* What an entry of the unique index guarantees the one who inserted it.   *)
ClaimsSound ==
  \A r \in Requests :
    pc[r] \in {"insertCredentials", "commit"} =>
      /\ \A i \in Ids : ~Answers(i, name[r])
      /\ \A q \in Requests : q # r => ~Claims(q, name[r])

(* UpdatesStand, from the COMMIT of the update on.                         *)
ChangesStand ==
  \A r \in Requests :
    pc[r] \in {"changed", "updated"} =>
      /\ patch[r].displayName # Absent =>
           \E q \in Requests :
             id[q] = id[r] /\ displayName[id[r]] = patch[q].displayName
      /\ patch[r].bio # Absent =>
           \E q \in Requests : id[q] = id[r] /\ bio[id[r]] = patch[q].bio

IInv ==
  /\ TypeOK
  /\ RowsSound /\ CallsSound /\ MintedApart /\ ClaimsSound
  /\ OneAccountPerHandle /\ CredentialsBelong /\ AnswersAreTrue /\ ChangesStand

(* A step that only moves a call on.                                       *)
Moves(r) ==
  /\ UNCHANGED <<locals, rows, minted>>
  /\ \/ RejectInput(r) \/ CheckHandle(r) \/ HashThrows(r) \/ BeginCreate(r)
     \/ InsertUser(r) \/ RollBackCreate(r) \/ InsertCredentials(r)
     \/ BeginUpdate(r) \/ UpdateRow(r) \/ Answer(r) \/ Fail(r)

-----------------------------------------------------------------------------
(* The steps of Next, sorted by what they write.                           *)
LEMMA Steps ==
  ASSUME [Next]_vars
  PROVE  \/ \E r \in Requests :
              \/ \E s \in Spellings : CallRegister(r, s)
              \/ \E i \in Ids, p \in Patches : CallUpdate(r, i, p)
              \/ \E i \in Ids : Hash(r, i)
              \/ CommitCreate(r) \/ CommitUpdate(r)
              \/ Moves(r)
         \/ Crash
         \/ UNCHANGED vars
BY DEF Next, Step, Moves, Goes, RejectInput, CheckHandle, HashThrows, BeginCreate, InsertUser,
       RollBackCreate, InsertCredentials, BeginUpdate, UpdateRow, Answer, Fail, Finished

LEMMA TypeStep == IInv /\ [Next]_vars => TypeOK'
<1> SUFFICES ASSUME IInv, [Next]_vars PROVE TypeOK'
  OBVIOUS
<1> USE DEF IInv, TypeOK, locals, rows, users, Points, AtDatabase, Creating, Updating,
            Ended, GoTo, Goes, DisplayNames, Patches, NoPatch
<1>1. ASSUME NEW r \in Requests, NEW s \in Spellings, CallRegister(r, s) PROVE TypeOK'
  BY <1>1 DEF CallRegister
<1>2. ASSUME NEW r \in Requests, NEW i \in Ids, NEW p \in Patches, CallUpdate(r, i, p)
      PROVE  TypeOK'
  BY <1>2 DEF CallUpdate
<1>3. ASSUME NEW r \in Requests, NEW i \in Ids, Hash(r, i) PROVE TypeOK'
  BY <1>3 DEF Hash
<1>4. ASSUME NEW r \in Requests, CommitCreate(r) PROVE TypeOK'
  BY <1>4, ValuesAssumption
  DEF CommitCreate, CallsSound, CallSound, Registering, Bears
<1>5. ASSUME NEW r \in Requests, CommitUpdate(r) PROVE TypeOK'
  BY <1>5 DEF CommitUpdate
<1>6. ASSUME NEW r \in Requests, Moves(r) PROVE TypeOK'
  BY <1>6 DEF Moves, Goes, RejectInput, CheckHandle, HashThrows, BeginCreate, InsertUser,
              RollBackCreate, InsertCredentials, BeginUpdate, UpdateRow, Answer, Fail
<1>7. CASE Crash
  BY <1>7 DEF Crash
<1>8. CASE UNCHANGED vars
  BY <1>8 DEF vars
<1> QED
  BY <1>1, <1>2, <1>3, <1>4, <1>5, <1>6, <1>7, <1>8, Steps

(* An id is fresh when it is generated, and stays unstored until its own   *)
(* COMMIT.                                                                 *)
LEMMA CallsStep == IInv /\ [Next]_vars => CallsSound'
<1> SUFFICES ASSUME IInv, [Next]_vars PROVE CallsSound'
  OBVIOUS
<1> USE ValuesAssumption
    DEF IInv, TypeOK, locals, rows, users, AtDatabase, Creating, Updating, Ended, GoTo, Goes,
        CallsSound, CallSound, Registering, Bears, Changing, Lost, Answers, Accounts
<1>1. ASSUME NEW r \in Requests, NEW s \in Spellings, CallRegister(r, s)
      PROVE  CallsSound'
  BY <1>1 DEF CallRegister
<1>2. ASSUME NEW r \in Requests, NEW i \in Ids, NEW p \in Patches, CallUpdate(r, i, p)
      PROVE  CallsSound'
  BY <1>2 DEF CallUpdate
<1>3. ASSUME NEW r \in Requests, NEW i \in Ids, Hash(r, i) PROVE CallsSound'
  BY <1>3 DEF Hash, RowsSound
<1>4. ASSUME NEW r \in Requests, CommitCreate(r) PROVE CallsSound'
  BY <1>4 DEF CommitCreate, MintedApart
<1>5. ASSUME NEW r \in Requests, CommitUpdate(r) PROVE CallsSound'
  BY <1>5 DEF CommitUpdate
<1>6. ASSUME NEW r \in Requests, Moves(r) PROVE CallsSound'
  BY <1>6 DEF Moves, Goes, RejectInput, CheckHandle, HashThrows, BeginCreate, InsertUser,
              RollBackCreate, InsertCredentials, BeginUpdate, UpdateRow, Answer, Fail,
              RowsSound
<1>7. CASE Crash
  BY <1>7 DEF Crash
<1>8. CASE UNCHANGED vars
  BY <1>8 DEF vars
<1> QED
  BY <1>1, <1>2, <1>3, <1>4, <1>5, <1>6, <1>7, <1>8, Steps

(* A COMMIT adds a whole account, under an id of its own.                  *)
LEMMA RowsStep == IInv /\ [Next]_vars => RowsSound'
<1> SUFFICES ASSUME IInv, [Next]_vars PROVE RowsSound'
  OBVIOUS
<1> USE ValuesAssumption
    DEF IInv, TypeOK, locals, rows, users, AtDatabase, Creating, Updating, Ended, GoTo, Goes,
        RowsSound, Accounts
<1>1. ASSUME NEW r \in Requests, NEW s \in Spellings, CallRegister(r, s)
      PROVE  RowsSound'
  BY <1>1 DEF CallRegister, CredentialsBelong
<1>2. ASSUME NEW r \in Requests, NEW i \in Ids, NEW p \in Patches, CallUpdate(r, i, p)
      PROVE  RowsSound'
  BY <1>2 DEF CallUpdate, CredentialsBelong, Accounts
<1>3. ASSUME NEW r \in Requests, NEW i \in Ids, Hash(r, i) PROVE RowsSound'
  BY <1>3 DEF Hash, CallsSound, CallSound, CredentialsBelong
<1>4. ASSUME NEW r \in Requests, CommitCreate(r) PROVE RowsSound'
  BY <1>4 DEF CommitCreate, CallsSound, CallSound, Registering, Bears, CredentialsBelong
<1>5. ASSUME NEW r \in Requests, CommitUpdate(r) PROVE RowsSound'
  BY <1>5 DEF CommitUpdate, CallsSound, CallSound, Changing, Patches, CredentialsBelong
<1>6. ASSUME NEW r \in Requests, Moves(r) PROVE RowsSound'
  BY <1>6 DEF Moves, Goes, RejectInput, CheckHandle, HashThrows, BeginCreate, InsertUser,
              RollBackCreate, InsertCredentials, BeginUpdate, UpdateRow, Answer, Fail,
              CredentialsBelong
<1>7. CASE Crash
  BY <1>7 DEF Crash, CredentialsBelong
<1>8. CASE UNCHANGED vars
  BY <1>8 DEF vars
<1> QED
  BY <1>1, <1>2, <1>3, <1>4, <1>5, <1>6, <1>7, <1>8, Steps

(* Hash generates outside minted; every other id was in it.               *)
LEMMA MintedApartStep == IInv /\ [Next]_vars => MintedApart'
<1> SUFFICES ASSUME IInv, [Next]_vars PROVE MintedApart'
  OBVIOUS
<1> USE ValuesAssumption
    DEF IInv, TypeOK, locals, rows, users, AtDatabase, Creating, Updating, Ended, GoTo, Goes,
        MintedApart, Bears
<1>1. ASSUME NEW r \in Requests, NEW s \in Spellings, CallRegister(r, s)
      PROVE  MintedApart'
  BY <1>1 DEF CallRegister
<1>2. ASSUME NEW r \in Requests, NEW i \in Ids, NEW p \in Patches, CallUpdate(r, i, p)
      PROVE  MintedApart'
  BY <1>2 DEF CallUpdate
<1>3. ASSUME NEW r \in Requests, NEW i \in Ids, Hash(r, i) PROVE MintedApart'
  BY <1>3 DEF Hash, CallsSound, CallSound
<1>4. ASSUME NEW r \in Requests, CommitCreate(r) PROVE MintedApart'
  BY <1>4 DEF CommitCreate
<1>5. ASSUME NEW r \in Requests, CommitUpdate(r) PROVE MintedApart'
  BY <1>5 DEF CommitUpdate
<1>6. ASSUME NEW r \in Requests, Moves(r) PROVE MintedApart'
  BY <1>6 DEF Moves, Goes, RejectInput, CheckHandle, HashThrows, BeginCreate, InsertUser,
              RollBackCreate, InsertCredentials, BeginUpdate, UpdateRow, Answer, Fail
<1>7. CASE Crash
  BY <1>7 DEF Crash
<1>8. CASE UNCHANGED vars
  BY <1>8 DEF vars
<1> QED
  BY <1>1, <1>2, <1>3, <1>4, <1>5, <1>6, <1>7, <1>8, Steps

(* An insert goes through only where nobody holds or claims the handle,   *)
(* and a COMMIT turns the one claim into the one account.                 *)
LEMMA ClaimsStep == IInv /\ [Next]_vars => ClaimsSound'
<1> SUFFICES ASSUME IInv, [Next]_vars PROVE ClaimsSound'
  OBVIOUS
<1> USE ValuesAssumption
    DEF IInv, TypeOK, locals, rows, users, AtDatabase, Creating, Updating, Ended, GoTo, Goes,
        ClaimsSound, Claims, HandleFree, Answers
<1>1. ASSUME NEW r \in Requests, NEW s \in Spellings, CallRegister(r, s)
      PROVE  ClaimsSound'
  BY <1>1 DEF CallRegister, CallsSound, CallSound, Registering, Bears
<1>2. ASSUME NEW r \in Requests, NEW i \in Ids, NEW p \in Patches, CallUpdate(r, i, p)
      PROVE  ClaimsSound'
  BY <1>2 DEF CallUpdate
<1>3. ASSUME NEW r \in Requests, NEW i \in Ids, Hash(r, i) PROVE ClaimsSound'
  BY <1>3 DEF Hash
<1>4. ASSUME NEW r \in Requests, CommitCreate(r) PROVE ClaimsSound'
  BY <1>4 DEF CommitCreate, CallsSound, CallSound, Registering, Bears
<1>5. ASSUME NEW r \in Requests, CommitUpdate(r) PROVE ClaimsSound'
  BY <1>5 DEF CommitUpdate
<1>6. ASSUME NEW r \in Requests, Moves(r) PROVE ClaimsSound'
  BY <1>6 DEF Moves, Goes, RejectInput, CheckHandle, HashThrows, BeginCreate, InsertUser,
              RollBackCreate, InsertCredentials, BeginUpdate, UpdateRow, Answer, Fail,
              CallsSound, CallSound, Registering, Bears
<1>7. CASE Crash
  BY <1>7 DEF Crash
<1>8. CASE UNCHANGED vars
  BY <1>8 DEF vars
<1> QED
  BY <1>1, <1>2, <1>3, <1>4, <1>5, <1>6, <1>7, <1>8, Steps

(* A COMMIT adds an account whose handle no other answers to.              *)
LEMMA HandleStep == IInv /\ [Next]_vars => OneAccountPerHandle'
<1> SUFFICES ASSUME IInv, [Next]_vars PROVE OneAccountPerHandle'
  OBVIOUS
<1> USE ValuesAssumption
    DEF IInv, TypeOK, locals, rows, users, AtDatabase, Creating, Updating, Ended, GoTo, Goes,
        OneAccountPerHandle, Accounts
<1>1. ASSUME NEW r \in Requests, NEW s \in Spellings, CallRegister(r, s)
      PROVE  OneAccountPerHandle'
  BY <1>1 DEF CallRegister
<1>2. ASSUME NEW r \in Requests, NEW i \in Ids, NEW p \in Patches, CallUpdate(r, i, p)
      PROVE  OneAccountPerHandle'
  BY <1>2 DEF CallUpdate
<1>3. ASSUME NEW r \in Requests, NEW i \in Ids, Hash(r, i) PROVE OneAccountPerHandle'
  BY <1>3 DEF Hash
<1>4. ASSUME NEW r \in Requests, CommitCreate(r) PROVE OneAccountPerHandle'
  BY <1>4 DEF CommitCreate, ClaimsSound, Answers, CallsSound, CallSound, Registering, Bears
<1>5. ASSUME NEW r \in Requests, CommitUpdate(r) PROVE OneAccountPerHandle'
  BY <1>5 DEF CommitUpdate
<1>6. ASSUME NEW r \in Requests, Moves(r) PROVE OneAccountPerHandle'
  BY <1>6 DEF Moves, Goes, RejectInput, CheckHandle, HashThrows, BeginCreate, InsertUser,
              RollBackCreate, InsertCredentials, BeginUpdate, UpdateRow, Answer, Fail
<1>7. CASE Crash
  BY <1>7 DEF Crash
<1>8. CASE UNCHANGED vars
  BY <1>8 DEF vars
<1> QED
  BY <1>1, <1>2, <1>3, <1>4, <1>5, <1>6, <1>7, <1>8, Steps

(* A committed registration keeps its locals.                              *)
LEMMA CredentialsStep == IInv /\ [Next]_vars => CredentialsBelong'
<1> SUFFICES ASSUME IInv, [Next]_vars PROVE CredentialsBelong'
  OBVIOUS
<1> USE ValuesAssumption
    DEF IInv, TypeOK, locals, rows, users, AtDatabase, Creating, Updating, Ended, GoTo, Goes,
        CredentialsBelong, Accounts
<1>1. ASSUME NEW r \in Requests, NEW s \in Spellings, CallRegister(r, s)
      PROVE  CredentialsBelong'
  BY <1>1 DEF CallRegister, RowsSound
<1>2. ASSUME NEW r \in Requests, NEW i \in Ids, NEW p \in Patches, CallUpdate(r, i, p)
      PROVE  CredentialsBelong'
  BY <1>2 DEF CallUpdate, RowsSound
<1>3. ASSUME NEW r \in Requests, NEW i \in Ids, Hash(r, i) PROVE CredentialsBelong'
  BY <1>3 DEF Hash, RowsSound
<1>4. ASSUME NEW r \in Requests, CommitCreate(r) PROVE CredentialsBelong'
  BY <1>4 DEF CommitCreate, CallsSound, CallSound, Registering, Bears
<1>5. ASSUME NEW r \in Requests, CommitUpdate(r) PROVE CredentialsBelong'
  BY <1>5 DEF CommitUpdate
<1>6. ASSUME NEW r \in Requests, Moves(r) PROVE CredentialsBelong'
  BY <1>6 DEF Moves, Goes, RejectInput, CheckHandle, HashThrows, BeginCreate, InsertUser,
              RollBackCreate, InsertCredentials, BeginUpdate, UpdateRow, Answer, Fail
<1>7. CASE Crash
  BY <1>7 DEF Crash
<1>8. CASE UNCHANGED vars
  BY <1>8 DEF vars
<1> QED
  BY <1>1, <1>2, <1>3, <1>4, <1>5, <1>6, <1>7, <1>8, Steps

(* Who answers to a handle once answers to it for good.                    *)
LEMMA AnswersStep == IInv /\ [Next]_vars => AnswersAreTrue'
<1> SUFFICES ASSUME IInv, [Next]_vars PROVE AnswersAreTrue'
  OBVIOUS
<1> USE ValuesAssumption
    DEF IInv, TypeOK, locals, rows, users, AtDatabase, Creating, Updating, Ended, GoTo, Goes,
        AnswersAreTrue, Answers, Accounts
<1>1. ASSUME NEW r \in Requests, NEW s \in Spellings, CallRegister(r, s)
      PROVE  AnswersAreTrue'
  BY <1>1 DEF CallRegister
<1>2. ASSUME NEW r \in Requests, NEW i \in Ids, NEW p \in Patches, CallUpdate(r, i, p)
      PROVE  AnswersAreTrue'
  BY <1>2 DEF CallUpdate
<1>3. ASSUME NEW r \in Requests, NEW i \in Ids, Hash(r, i) PROVE AnswersAreTrue'
  BY <1>3 DEF Hash, RowsSound
<1>4. ASSUME NEW r \in Requests, CommitCreate(r) PROVE AnswersAreTrue'
  BY <1>4 DEF CommitCreate, CallsSound, CallSound, Registering, Bears
<1>5. ASSUME NEW r \in Requests, CommitUpdate(r) PROVE AnswersAreTrue'
  BY <1>5 DEF CommitUpdate
<1>6. ASSUME NEW r \in Requests, Moves(r) PROVE AnswersAreTrue'
  BY <1>6 DEF Moves, Goes, RejectInput, CheckHandle, HashThrows, BeginCreate, InsertUser,
              RollBackCreate, InsertCredentials, BeginUpdate, UpdateRow, Answer, Fail,
              CallsSound, CallSound, Lost, RowsSound
<1>7. CASE Crash
  BY <1>7 DEF Crash
<1>8. CASE UNCHANGED vars
  BY <1>8 DEF vars
<1> QED
  BY <1>1, <1>2, <1>3, <1>4, <1>5, <1>6, <1>7, <1>8, Steps

(* A COMMIT leaves a field as it was, or as its own call asked for.        *)
LEMMA ChangesStep == IInv /\ [Next]_vars => ChangesStand'
<1> SUFFICES ASSUME IInv, [Next]_vars PROVE ChangesStand'
  OBVIOUS
<1> USE ValuesAssumption
    DEF IInv, TypeOK, locals, rows, users, AtDatabase, Creating, Updating, Ended, GoTo, Goes,
        ChangesStand, CallsSound, CallSound, Changing, Accounts
<1>1. ASSUME NEW r \in Requests, NEW s \in Spellings, CallRegister(r, s)
      PROVE  ChangesStand'
  BY <1>1 DEF CallRegister
<1>2. ASSUME NEW r \in Requests, NEW i \in Ids, NEW p \in Patches, CallUpdate(r, i, p)
      PROVE  ChangesStand'
  BY <1>2 DEF CallUpdate
<1>3. ASSUME NEW r \in Requests, NEW i \in Ids, Hash(r, i) PROVE ChangesStand'
  BY <1>3 DEF Hash
<1>4. ASSUME NEW r \in Requests, CommitCreate(r) PROVE ChangesStand'
  BY <1>4 DEF CommitCreate, Registering, Bears
<1>5. ASSUME NEW r \in Requests, CommitUpdate(r) PROVE ChangesStand'
  BY <1>5 DEF CommitUpdate
<1>6. ASSUME NEW r \in Requests, Moves(r) PROVE ChangesStand'
  BY <1>6 DEF Moves, Goes, RejectInput, CheckHandle, HashThrows, BeginCreate, InsertUser,
              RollBackCreate, InsertCredentials, BeginUpdate, UpdateRow, Answer, Fail
<1>7. CASE Crash
  BY <1>7 DEF Crash
<1>8. CASE UNCHANGED vars
  BY <1>8 DEF vars
<1> QED
  BY <1>1, <1>2, <1>3, <1>4, <1>5, <1>6, <1>7, <1>8, Steps

-----------------------------------------------------------------------------
LEMMA InvariantInit == Init => IInv
BY ValuesAssumption
DEF Init, IInv, TypeOK, Points, Patches, NoPatch, RowsSound, CallsSound, CallSound,
    Registering, Bears, Creating, Changing, Updating, MintedApart, ClaimsSound,
    OneAccountPerHandle, CredentialsBelong, AnswersAreTrue, ChangesStand, Accounts

LEMMA InvariantStep == IInv /\ [Next]_vars => IInv'
BY TypeStep, RowsStep, CallsStep, MintedApartStep, ClaimsStep, HandleStep,
   CredentialsStep, AnswersStep, ChangesStep
DEF IInv

LEMMA Invariant == Spec => []IInv
BY InvariantInit, InvariantStep, PTL DEF Spec

(* Every variable keeps its type.                                          *)
THEOREM TypeCorrect == Spec => []TypeOK
<1>1. IInv => TypeOK
  BY DEF IInv
<1> QED
  BY <1>1, Invariant, PTL

(* Whatever races, however it is spelled and whatever fails, one account   *)
(* at most answers to a handle.                                            *)
THEOREM HandlesAreUnique == Spec => []OneAccountPerHandle
<1>1. IInv => OneAccountPerHandle
  BY DEF IInv
<1> QED
  BY <1>1, Invariant, PTL

(* Accounts and credentials come together, from the same registration.     *)
THEOREM CredentialsMatch == Spec => []CredentialsBelong
<1>1. IInv => CredentialsBelong
  BY DEF IInv
<1> QED
  BY <1>1, Invariant, PTL

(* What Register answers is so.                                            *)
THEOREM RegisterAnswersTruly == Spec => []AnswersAreTrue
<1>1. IInv => AnswersAreTrue
  BY DEF IInv
<1> QED
  BY <1>1, Invariant, PTL

(* Overlapping updates do not undo each other.                             *)
THEOREM NoLostUpdate == Spec => []UpdatesStand
<1>1. IInv => UpdatesStand
  BY DEF IInv, ChangesStand, UpdatesStand
<1> QED
  BY <1>1, Invariant, PTL

(* The two COMMITs are the two actions of Directory.                       *)
THEOREM Refinement == Spec => ImplementsDirectory
<1>1. Init => Book!Init
  BY DEF Init, Book!Init, Folded
<1>2. IInv /\ [Next]_vars => [Book!Next]_(Book!vars)
  <2> SUFFICES ASSUME IInv, [Next]_vars PROVE [Book!Next]_(Book!vars)
    OBVIOUS
  <2>1. ASSUME NEW r \in Requests, CommitCreate(r) PROVE Book!Next
    <3>1. id[r] \in Ids \ Accounts /\ name[r] \in Spellings
      BY <2>1 DEF CommitCreate, IInv, CallsSound, CallSound, Registering, Bears, Creating
    <3>2. \A j \in Ids : Folded(j) # Fold[name[r]]
      BY <2>1, <3>1, FoldAssumption, ValuesAssumption
      DEF CommitCreate, IInv, ClaimsSound, Answers, Folded
    <3>3. [i \in Ids |-> Folded(i)]' =
            [[i \in Ids |-> Folded(i)] EXCEPT ![id[r]] = Fold[name[r]]]
      BY <2>1, <3>1, ValuesAssumption DEF CommitCreate, Folded, IInv, TypeOK
    <3>4. Book!Register(id[r], Fold[name[r]], r, name[r])
      BY <2>1, <3>1, <3>2, <3>3
      DEF CommitCreate, Book!Register, Folded, Accounts
    <3> QED
      BY <3>1, <3>4, FoldAssumption DEF Book!Next, DisplayNames
  <2>2. ASSUME NEW r \in Requests, CommitUpdate(r) PROVE Book!Next
    <3>1. id[r] \in Accounts /\ patch[r] \in Patches
      BY <2>2 DEF CommitUpdate, IInv, TypeOK, CallsSound, CallSound, Changing, Updating
    <3>2. Book!Change(id[r], patch[r].displayName, patch[r].bio)
      BY <2>2, <3>1, FoldAssumption, ValuesAssumption
      DEF CommitUpdate, Book!Change, Folded, Accounts, IInv, TypeOK
    <3> QED
      BY <3>1, <3>2 DEF Book!Next, Patches, DisplayNames, Accounts
  <2>3. CASE UNCHANGED rows
    BY <2>3 DEF rows, users, Book!vars, Folded
  <2>4. \/ \E r \in Requests : CommitCreate(r) \/ CommitUpdate(r)
        \/ UNCHANGED rows
    BY Steps
    DEF CallRegister, CallUpdate, Hash, Moves, Crash, vars, rows, users
  <2> QED
    BY <2>1, <2>2, <2>3, <2>4
<1> QED
  BY <1>1, <1>2, Invariant, PTL DEF Spec, ImplementsDirectory, Book!Spec
-----------------------------------------------------------------------------
(* How a call gets from one place to the next.                             *)
Moved(r, from, to) ==
  \/ from = "idle" /\ to \in {"exists", "update", "rejected"}
  \/ from = "exists" /\ to \in {"hash", "taken"} /\ ConnectionFree
  \/ from = "hash" /\ to = "create"
  \/ from = "create" /\ to = "insertUser" /\ ConnectionFree
  \/ from = "insertUser" /\ to \in {"insertCredentials", "rollback"} /\ HandleFree(r)
  \/ from = "rollback" /\ to = "taken"
  \/ from = "insertCredentials" /\ to = "commit"
  \/ from = "commit" /\ to = "committed"
  \/ from = "committed" /\ to \in {"registered", "lost"}
  \/ from = "update" /\ to = "updateRow" /\ ConnectionFree
  \/ from = "updateRow" /\ to = "updating" /\ RowFree(r)
  \/ from = "updating" /\ to = "changed"
  \/ from = "changed" /\ to \in {"updated", "lost"}
  \/ from \notin {"idle"} \cup Ended /\ to \in {"failed", "crashed"}

(* Every step moves one call, or all of them in a crash, and a call keeps  *)
(* the handle it asks for and the account it is for.                       *)
LEMMA Movements ==
  ASSUME TypeOK, [Next]_vars, NEW q \in Requests
  PROVE  /\ pc'[q] # pc[q] => Moved(q, pc[q], pc'[q])
         /\ pc'[q] \notin {pc[q], "crashed"} =>
              \A p \in Requests \ {q} : pc'[p] = pc[p]
         /\ pc[q] # "idle" => name'[q] = name[q]
         /\ pc[q] \notin {"idle", "hash"} => id'[q] = id[q]
<1> DEFINE Goal ==
      /\ pc'[q] # pc[q] => Moved(q, pc[q], pc'[q])
      /\ pc'[q] \notin {pc[q], "crashed"} =>
           \A p \in Requests \ {q} : pc'[p] = pc[p]
      /\ pc[q] # "idle" => name'[q] = name[q]
      /\ pc[q] \notin {"idle", "hash"} => id'[q] = id[q]
<1> SUFFICES Goal
  OBVIOUS
<1> USE DEF TypeOK, locals, GoTo, Goes
<1>1. ASSUME NEW r \in Requests, NEW s \in Spellings, CallRegister(r, s) PROVE Goal
  BY <1>1 DEF CallRegister, Moved
<1>2. ASSUME NEW r \in Requests, NEW i \in Ids, NEW p \in Patches, CallUpdate(r, i, p)
      PROVE  Goal
  BY <1>2 DEF CallUpdate, Moved
<1>3. ASSUME NEW r \in Requests, NEW i \in Ids, Hash(r, i) PROVE Goal
  BY <1>3 DEF Hash, Moved
<1>4. ASSUME NEW r \in Requests, RejectInput(r) \/ CheckHandle(r) \/ HashThrows(r)
      PROVE  Goal
  BY <1>4 DEF RejectInput, CheckHandle, HashThrows, Moved, Ended
<1>5. ASSUME NEW r \in Requests, BeginCreate(r) \/ InsertUser(r) PROVE Goal
  BY <1>5 DEF BeginCreate, InsertUser, Moved
<1>6. ASSUME NEW r \in Requests,
             RollBackCreate(r) \/ InsertCredentials(r) \/ CommitCreate(r)
      PROVE  Goal
  BY <1>6 DEF RollBackCreate, InsertCredentials, CommitCreate, Moved
<1>7. ASSUME NEW r \in Requests, BeginUpdate(r) \/ UpdateRow(r) \/ CommitUpdate(r)
      PROVE  Goal
  BY <1>7 DEF BeginUpdate, UpdateRow, CommitUpdate, Moved
<1>8. ASSUME NEW r \in Requests, Answer(r) PROVE Goal
  BY <1>8 DEF Answer, Moved
<1>9. ASSUME NEW r \in Requests, Fail(r) PROVE Goal
  BY <1>9 DEF Fail, Moved, AtDatabase, Creating, Updating, Ended
<1>10. CASE Crash
  BY <1>10 DEF Crash, UnderWay, Moved
<1>11. CASE UNCHANGED vars
  BY <1>11 DEF vars
<1> HIDE DEF Goal
<1> QED
  BY <1>1, <1>2, <1>3, <1>4, <1>5, <1>6, <1>7, <1>8, <1>9, <1>10, <1>11
  DEF Next, Step, Finished

-----------------------------------------------------------------------------
(* Points of a transaction whose next statement waits for nobody.          *)
Unhindered == {"insertCredentials", "commit", "rollback", "updating"}

LEMMA NobodyWaitsForAnEmptyPool == Connected = {} => ConnectionFree
<1>1. Cardinality({}) = 0
  BY FS_EmptySet
<1> QED
  BY <1>1, PoolAssumption DEF ConnectionFree

(* Whoever is waited for inside a transaction is at such a point, and an   *)
(* exhausted pool has a call in it: Register and UpdateProfile cannot      *)
(* deadlock, however few connections they share.                           *)
THEOREM NoDeadlock == Spec => []SomeCallCanProceed
<1>1. SomeCallCanProceed
  <2> DEFINE SomeoneGoesOn == \E q \in Requests : UnderWay(q) /\ ~Waits(q)
  <2> SUFFICES ASSUME NEW r \in Requests, UnderWay(r) PROVE SomeoneGoesOn
    BY DEF SomeCallCanProceed
  <2>1. ASSUME NEW q \in Requests, pc[q] \in Unhindered PROVE SomeoneGoesOn
    BY <2>1 DEF UnderWay, Waits, Unhindered, Ended
  <2>2. ASSUME NEW q \in Connected PROVE SomeoneGoesOn
    <3>1. q \in Requests /\ pc[q] \in Unhindered \cup {"insertUser", "updateRow"}
      BY <2>2 DEF Connected, Creating, Updating, Unhindered
    <3>2. UnderWay(q) /\ (Waits(q) => ~HandleFree(q) \/ ~RowFree(q))
      BY <3>1 DEF UnderWay, Waits, Unhindered, Ended
    <3>3. ~HandleFree(q) \/ ~RowFree(q) => \E p \in Requests : pc[p] \in Unhindered
      BY DEF HandleFree, RowFree, Claims, UpdatesRow, Unhindered
    <3> QED
      BY <2>1, <3>1, <3>2, <3>3
  <2>3. CASE Connected = {}
    BY <2>3, NobodyWaitsForAnEmptyPool DEF Waits, Connected, Creating, Updating
  <2> QED
    BY <2>2, <2>3
<1> QED
  BY <1>1, PTL
-----------------------------------------------------------------------------
(* How far a call is from its end.                                         *)
Remaining(point) ==
  CASE point \in Ended -> 0
    [] point \in {"committed", "rollback", "changed"} -> 1
    [] point \in {"commit", "updating"} -> 2
    [] point \in {"insertCredentials", "updateRow"} -> 3
    [] point \in {"insertUser", "update"} -> 4
    [] point = "create" -> 5
    [] point = "hash" -> 6
    [] point = "exists" -> 7
    [] point = "idle" -> 8

At(r, point) == pc[r] = point
Below(r, point) == Remaining(pc[r]) < Remaining(point)
PointIsLeft(r, point) == [](At(r, point) => <>Below(r, point))

(* Every step takes a call nearer its end or leaves it where it is.        *)
LEMMA Downhill ==
  ASSUME TypeOK, [Next]_vars, NEW r \in Requests
  PROVE  pc'[r] = pc[r] \/ Remaining(pc'[r]) < Remaining(pc[r])
<1> SUFFICES ASSUME pc'[r] # pc[r] PROVE Remaining(pc'[r]) < Remaining(pc[r])
  OBVIOUS
<1>1. pc[r] \in Points /\ Moved(r, pc[r], pc'[r])
  BY Movements DEF TypeOK
<1> QED
  BY <1>1 DEF Moved, Remaining, Points, AtDatabase, Creating, Updating, Ended

(* A step of a call moves that call.                                       *)
LEMMA StepMoves ==
  ASSUME TypeOK, NEW r \in Requests, Step(r)
  PROVE  pc'[r] # pc[r]
<1> USE DEF TypeOK, GoTo, Goes
<1>1. CASE CheckHandle(r) \/ HashThrows(r) \/ \E i \in Ids : Hash(r, i)
  BY <1>1 DEF CheckHandle, HashThrows, Hash
<1>2. CASE \/ BeginCreate(r) \/ InsertUser(r) \/ RollBackCreate(r)
           \/ InsertCredentials(r) \/ CommitCreate(r)
  BY <1>2 DEF BeginCreate, InsertUser, RollBackCreate, InsertCredentials, CommitCreate
<1>3. CASE BeginUpdate(r) \/ UpdateRow(r) \/ CommitUpdate(r) \/ Answer(r)
  BY <1>3 DEF BeginUpdate, UpdateRow, CommitUpdate, Answer
<1> QED
  BY <1>1, <1>2, <1>3 DEF Step

(* Two updates of one row are never both uncommitted.                      *)
UpdatesApart ==
  \A r, q \in Requests :
    r # q /\ pc[r] = "updating" /\ pc[q] = "updating" => id[r] # id[q]

LEMMA RowLocksExclude == Spec => []UpdatesApart
<1>1. Init => UpdatesApart
  BY DEF Init, UpdatesApart
<1>2. TypeOK /\ UpdatesApart /\ [Next]_vars => UpdatesApart'
  <2> SUFFICES ASSUME TypeOK, UpdatesApart, [Next]_vars,
                      NEW r \in Requests, NEW q \in Requests, r # q,
                      pc'[r] = "updating", pc'[q] = "updating"
               PROVE  id'[r] # id'[q]
    BY DEF UpdatesApart
  <2>1. /\ pc[r] # pc'[r] => pc[r] = "updateRow" /\ RowFree(r) /\ pc[q] = "updating"
        /\ pc[q] # pc'[q] => pc[q] = "updateRow" /\ RowFree(q) /\ pc[r] = "updating"
    BY Movements DEF Moved, Ended
  <2>2. id'[r] = id[r] /\ id'[q] = id[q]
    BY <2>1, Movements
  <2> QED
    BY <2>1, <2>2 DEF UpdatesApart, RowFree, UpdatesRow
<1> QED
  BY <1>1, <1>2, TypeCorrect, PTL DEF Spec

(* What r holds is worth to it: nobody else comes to answer to the handle  *)
(* it has inserted, or writes the row it has updated.                      *)
LocksKept(r) ==
  /\ pc[r] \in {"insertCredentials", "commit"} =>
       CommitCreate(r) \/ \A i \in Ids : handle'[i] = Nobody \/ Fold[handle'[i]] # Fold[name[r]]
  /\ pc[r] = "updating" =>
       \/ CommitUpdate(r)
       \/ displayName'[id[r]] = displayName[id[r]] /\ bio'[id[r]] = bio[id[r]]

(* Until a registration commits its handle stays free for it, though others*)
(* have found it free as well, and until an update commits the fields it   *)
(* left out stay as they are (drizzle-user.repository.ts,                  *)
(* drizzle-profile.repository.ts): the COMMITs check nothing, it is the    *)
(* unique index and the row lock, asked some statements earlier.           *)
THEOREM LockedRowsStay == Spec => [][\A r \in Requests : LocksKept(r)]_vars
<1>1. IInv /\ UpdatesApart /\ [Next]_vars => [\A r \in Requests : LocksKept(r)]_vars
  <2> SUFFICES ASSUME IInv, UpdatesApart, [Next]_vars, NEW r \in Requests PROVE LocksKept(r)
    OBVIOUS
  <2> USE DEF IInv
  <2>1. pc[r] \in {"insertCredentials", "commit"} =>
          \A i \in Ids : handle[i] = Nobody \/ Fold[handle[i]] # Fold[name[r]]
    BY DEF ClaimsSound, Answers
  <2>2. ASSUME NEW q \in Requests, CommitCreate(q) PROVE LocksKept(r)
    <3>1. /\ handle' = [handle EXCEPT ![id[q]] = name[q]]
          /\ displayName' = [displayName EXCEPT ![id[q]] = name[q]]
          /\ bio' = [bio EXCEPT ![id[q]] = EmptyBio] /\ pc[q] = "commit"
      BY <2>2 DEF CommitCreate
    <3>2. q # r /\ pc[r] \in {"insertCredentials", "commit"} => Fold[name[q]] # Fold[name[r]]
      BY <3>1 DEF ClaimsSound, Claims
    <3>3. pc[r] = "updating" => id[q] # id[r]
      BY <3>1 DEF CallsSound, CallSound, Bears, Creating, Changing, Updating
    <3> QED
      BY <2>1, <2>2, <3>1, <3>2, <3>3 DEF LocksKept, TypeOK
  <2>3. ASSUME NEW q \in Requests, CommitUpdate(q) PROVE LocksKept(r)
    <3>1. handle' = handle /\ (q # r /\ pc[r] = "updating" => id[q] # id[r])
      BY <2>3 DEF CommitUpdate, UpdatesApart
    <3>2. id[q] # id[r] => displayName'[id[r]] = displayName[id[r]] /\ bio'[id[r]] = bio[id[r]]
      BY <2>3 DEF CommitUpdate, TypeOK
    <3> QED
      BY <2>1, <2>3, <3>1, <3>2 DEF LocksKept
  <2>4. CASE UNCHANGED users
    BY <2>1, <2>4 DEF LocksKept, users
  <2> QED
    BY <2>2, <2>3, <2>4, Steps
    DEF CallRegister, CallUpdate, Hash, Moves, Crash, rows, vars
<1> QED
  BY <1>1, Invariant, RowLocksExclude, PTL DEF Spec

-----------------------------------------------------------------------------
(* Postgres and the pool serve their queues: a call that is again and      *)
(* again free to go on does go on.  This is SF_vars(Step(r)) with the      *)
(* condition of the step written out.                                      *)
Served(r) == []<>(UnderWay(r) /\ ~Waits(r)) => []<><<Step(r)>>_vars
ServedInTurn == \A r \in Requests : Served(r)

(* A point is left towards the end, unless what is waited for there never  *)
(* comes free.                                                             *)
WaitEnds(r, point) == [](At(r, point) => <>(~At(r, point) \/ ~Waits(r)))

LEMMA PointLeft ==
  ASSUME NEW r \in Requests, NEW point \in Points \ ({"idle"} \cup Ended)
  PROVE  Spec /\ ServedInTurn /\ WaitEnds(r, point) => PointIsLeft(r, point)
<1>1. TypeOK /\ [Next]_vars /\ At(r, point) => At(r, point)' \/ Below(r, point)'
  BY Downhill DEF At, Below
<1>2. TypeOK /\ [Next]_vars /\ At(r, point) /\ <<Step(r)>>_vars => Below(r, point)'
  BY Downhill, StepMoves DEF At, Below
<1>3. At(r, point) /\ ~Waits(r) => UnderWay(r) /\ ~Waits(r)
  BY DEF At, UnderWay
<1>4. ServedInTurn => Served(r)
  BY DEF ServedInTurn
<1> QED
  BY <1>1, <1>2, <1>3, <1>4, TypeCorrect, PTL
  DEF Spec, Served, PointIsLeft, WaitEnds

LEMMA ReadyPointLeft ==
  ASSUME NEW r \in Requests,
         NEW point \in Unhindered \cup {"hash", "committed", "changed"}
  PROVE  Spec /\ ServedInTurn => PointIsLeft(r, point)
<1>1. point \in Points \ ({"idle"} \cup Ended)
  BY DEF Unhindered, Points, AtDatabase, Creating, Updating, Ended
<1>2. At(r, point) => ~At(r, point) \/ ~Waits(r)
  BY DEF At, Waits, Unhindered
<1>3. Spec /\ ServedInTurn /\ WaitEnds(r, point) => PointIsLeft(r, point)
  BY <1>1, PointLeft
<1> QED
  BY <1>2, <1>3, PTL DEF WaitEnds

(* What is waited for comes free again and again: one transaction at most  *)
(* has inserted a handle, one at most is updating a row, and nothing keeps *)
(* it from its end.                                                        *)
Unclaimed(s) == \A q \in Requests : ~Claims(q, s)
HandleIsGivenBack(q, s) == [](Claims(q, s) => <>Unclaimed(s))

LEMMA HandleComesFree ==
  ASSUME NEW s \in Spellings
  PROVE  Spec /\ ServedInTurn => []<>Unclaimed(s)
<1>1. ASSUME NEW q \in Requests
      PROVE  Spec /\ ServedInTurn => HandleIsGivenBack(q, s)
  <2>1. Spec /\ ServedInTurn =>
          PointIsLeft(q, "insertCredentials") /\ PointIsLeft(q, "commit")
    BY ReadyPointLeft DEF Unhindered
  <2>2. Claims(q, s) => At(q, "insertCredentials") \/ At(q, "commit")
    BY DEF Claims, At
  <2>3. Below(q, "insertCredentials") => ~Claims(q, s) \/ At(q, "commit")
    BY DEF Below, Remaining, Claims, At, Ended
  <2>4. Below(q, "commit") => ~Claims(q, s)
    BY DEF Below, Remaining, Claims, Ended
  <2>5. IInv /\ [Next]_vars /\ Claims(q, s) => Claims(q, s)' \/ Unclaimed(s)'
    <3> SUFFICES ASSUME IInv, [Next]_vars, Claims(q, s),
                        NEW r \in Requests, Claims(r, s)'
                 PROVE  r = q
      BY DEF Unclaimed
    <3>1. pc'[r] # pc[r] => Moved(r, pc[r], pc'[r])
      BY Movements DEF IInv
    <3>2. \/ pc[r] \in {"insertCredentials", "commit"}
          \/ pc[r] = "insertUser" /\ HandleFree(r)
      BY <3>1 DEF Claims, Moved, Ended
    <3>3. name'[r] = name[r]
      BY <3>2, Movements DEF IInv
    <3>4. Fold[name[r]] = Fold[s] /\ Fold[name[q]] = Fold[s]
      BY <3>3 DEF Claims
    <3>5. Claims(q, name[r])
      BY <3>4 DEF Claims
    <3> QED
      BY <3>2, <3>5 DEF HandleFree, IInv, ClaimsSound
  <2> QED
    BY <2>1, <2>2, <2>3, <2>4, <2>5, Invariant, PTL
    DEF Spec, PointIsLeft, HandleIsGivenBack
<1>2. Spec /\ ServedInTurn => \A q \in Requests : HandleIsGivenBack(q, s)
  BY <1>1
<1>3. (\A q \in Requests : HandleIsGivenBack(q, s))
        => [](\A q \in Requests : Claims(q, s) => <>Unclaimed(s))
  BY DEF HandleIsGivenBack
<1>4. (\A q \in Requests : Claims(q, s) => <>Unclaimed(s))
        => (~Unclaimed(s) => <>Unclaimed(s))
  BY DEF Unclaimed
<1> QED
  BY <1>2, <1>3, <1>4, PTL

Unlocked(i) == \A q \in Requests : ~UpdatesRow(q, i)
RowIsGivenBack(q, i) == [](UpdatesRow(q, i) => <>Unlocked(i))

LEMMA RowComesFree ==
  ASSUME NEW i \in Ids
  PROVE  Spec /\ ServedInTurn => []<>Unlocked(i)
<1>1. ASSUME NEW q \in Requests
      PROVE  Spec /\ ServedInTurn => RowIsGivenBack(q, i)
  <2>1. Spec /\ ServedInTurn => PointIsLeft(q, "updating")
    BY ReadyPointLeft DEF Unhindered
  <2>2. UpdatesRow(q, i) => At(q, "updating")
    BY DEF UpdatesRow, At
  <2>3. Below(q, "updating") => ~UpdatesRow(q, i)
    BY DEF Below, Remaining, UpdatesRow, Ended
  <2>4. TypeOK /\ UpdatesApart /\ [Next]_vars /\ UpdatesRow(q, i)
          => UpdatesRow(q, i)' \/ Unlocked(i)'
    <3> SUFFICES ASSUME TypeOK, UpdatesApart, [Next]_vars, UpdatesRow(q, i),
                        NEW r \in Requests, UpdatesRow(r, i)'
                 PROVE  r = q
      BY DEF Unlocked
    <3>1. pc'[r] # pc[r] => Moved(r, pc[r], pc'[r])
      BY Movements
    <3>2. pc[r] = "updating" \/ (pc[r] = "updateRow" /\ RowFree(r))
      BY <3>1 DEF UpdatesRow, Moved, Ended
    <3>3. id'[r] = id[r]
      BY <3>2, Movements
    <3> QED
      BY <3>2, <3>3 DEF UpdatesRow, RowFree, UpdatesApart
  <2> QED
    BY <2>1, <2>2, <2>3, <2>4, TypeCorrect, RowLocksExclude, PTL
    DEF Spec, PointIsLeft, RowIsGivenBack
<1>2. Spec /\ ServedInTurn => \A q \in Requests : RowIsGivenBack(q, i)
  BY <1>1
<1>3. (\A q \in Requests : RowIsGivenBack(q, i))
        => [](\A q \in Requests : UpdatesRow(q, i) => <>Unlocked(i))
  BY DEF RowIsGivenBack
<1>4. (\A q \in Requests : UpdatesRow(q, i) => <>Unlocked(i))
        => (~Unlocked(i) => <>Unlocked(i))
  BY DEF Unlocked
<1> QED
  BY <1>2, <1>3, <1>4, PTL

(* A call waits for the handle it came with, and for the row of the        *)
(* account it is for.                                                      *)
AtWithHandle(r, s) == At(r, "insertUser") /\ name[r] = s
HandleWaitIsOver(r, s) ==
  [](AtWithHandle(r, s) => <>(~At(r, "insertUser") \/ ~Waits(r)))

LEMMA InsertUserLeft ==
  ASSUME NEW r \in Requests
  PROVE  Spec /\ ServedInTurn => PointIsLeft(r, "insertUser")
<1>1. ASSUME NEW s \in Spellings
      PROVE  Spec /\ ServedInTurn => HandleWaitIsOver(r, s)
  <2>1. TypeOK /\ [Next]_vars /\ AtWithHandle(r, s)
          => AtWithHandle(r, s)' \/ ~At(r, "insertUser")'
    BY Movements DEF AtWithHandle, At
  <2>2. AtWithHandle(r, s) /\ Unclaimed(s) => ~Waits(r)
    BY DEF AtWithHandle, At, Unclaimed, HandleFree, Waits
  <2> QED
    BY <2>1, <2>2, HandleComesFree, TypeCorrect, PTL DEF Spec, HandleWaitIsOver
<1>2. Spec /\ ServedInTurn => \A s \in Spellings : HandleWaitIsOver(r, s)
  BY <1>1
<1>3. (\A s \in Spellings : HandleWaitIsOver(r, s))
        => [](\A s \in Spellings :
                AtWithHandle(r, s) => <>(~At(r, "insertUser") \/ ~Waits(r)))
  BY DEF HandleWaitIsOver
<1>4. IInv
        /\ (\A s \in Spellings :
              AtWithHandle(r, s) => <>(~At(r, "insertUser") \/ ~Waits(r)))
        => (At(r, "insertUser") => <>(~At(r, "insertUser") \/ ~Waits(r)))
  <2>1. IInv /\ At(r, "insertUser") => \E s \in Spellings : AtWithHandle(r, s)
    BY DEF IInv, CallsSound, CallSound, Registering, Bears, Creating, AtWithHandle, At
  <2> QED
    BY <2>1
<1>5. "insertUser" \in Points \ ({"idle"} \cup Ended)
  BY DEF Points, AtDatabase, Creating, Ended
<1>6. Spec /\ ServedInTurn /\ WaitEnds(r, "insertUser") => PointIsLeft(r, "insertUser")
  BY <1>5, PointLeft
<1> QED
  BY <1>2, <1>3, <1>4, <1>6, Invariant, PTL DEF WaitEnds

AtWithRow(r, i) == At(r, "updateRow") /\ id[r] = i
RowWaitIsOver(r, i) ==
  [](AtWithRow(r, i) => <>(~At(r, "updateRow") \/ ~Waits(r)))

LEMMA UpdateRowLeft ==
  ASSUME NEW r \in Requests
  PROVE  Spec /\ ServedInTurn => PointIsLeft(r, "updateRow")
<1>1. ASSUME NEW i \in Ids
      PROVE  Spec /\ ServedInTurn => RowWaitIsOver(r, i)
  <2>1. TypeOK /\ [Next]_vars /\ AtWithRow(r, i)
          => AtWithRow(r, i)' \/ ~At(r, "updateRow")'
    BY Movements DEF AtWithRow, At
  <2>2. AtWithRow(r, i) /\ Unlocked(i) => ~Waits(r)
    BY DEF AtWithRow, At, Unlocked, RowFree, Waits
  <2> QED
    BY <2>1, <2>2, RowComesFree, TypeCorrect, PTL DEF Spec, RowWaitIsOver
<1>2. Spec /\ ServedInTurn => \A i \in Ids : RowWaitIsOver(r, i)
  BY <1>1
<1>3. (\A i \in Ids : RowWaitIsOver(r, i))
        => [](\A i \in Ids : AtWithRow(r, i) => <>(~At(r, "updateRow") \/ ~Waits(r)))
  BY DEF RowWaitIsOver
<1>4. IInv
        /\ (\A i \in Ids : AtWithRow(r, i) => <>(~At(r, "updateRow") \/ ~Waits(r)))
        => (At(r, "updateRow") => <>(~At(r, "updateRow") \/ ~Waits(r)))
  <2>1. IInv /\ At(r, "updateRow") => \E i \in Ids : AtWithRow(r, i)
    BY DEF IInv, CallsSound, CallSound, Changing, Updating, Accounts, AtWithRow, At
  <2> QED
    BY <2>1
<1>5. "updateRow" \in Points \ ({"idle"} \cup Ended)
  BY DEF Points, AtDatabase, Updating, Ended
<1>6. Spec /\ ServedInTurn /\ WaitEnds(r, "updateRow") => PointIsLeft(r, "updateRow")
  BY <1>5, PointLeft
<1> QED
  BY <1>2, <1>3, <1>4, <1>6, Invariant, PTL DEF WaitEnds

-----------------------------------------------------------------------------
(* A call enters the pool through BEGIN, when a connection is free, and    *)
(* leaves it at the end of its transaction.                                *)
PoolMoved ==
  \/ Connected' = Connected
  \/ ConnectionFree /\ \E r \in Requests \ Connected : Connected' = Connected \cup {r}
  \/ \E r \in Connected : Connected' = Connected \ {r}
  \/ Connected' = {}

LEMMA PoolMoves ==
  ASSUME TypeOK, [Next]_vars
  PROVE  PoolMoved
<1> USE DEF TypeOK, GoTo, Goes, PoolMoved, Connected, Creating, Updating
<1>1. ASSUME NEW q \in Requests, NEW s \in Spellings, CallRegister(q, s)
      PROVE  Connected' = Connected
  BY <1>1 DEF CallRegister
<1>2. ASSUME NEW q \in Requests, NEW i \in Ids, NEW p \in Patches, CallUpdate(q, i, p)
      PROVE  Connected' = Connected
  BY <1>2 DEF CallUpdate
<1>3. ASSUME NEW q \in Requests, NEW i \in Ids, Hash(q, i) PROVE Connected' = Connected
  BY <1>3 DEF Hash
<1>4. ASSUME NEW q \in Requests, RejectInput(q) \/ CheckHandle(q) \/ HashThrows(q)
      PROVE  Connected' = Connected
  BY <1>4 DEF RejectInput, CheckHandle, HashThrows
<1>5. ASSUME NEW q \in Requests, BeginCreate(q) \/ BeginUpdate(q)
      PROVE  ConnectionFree /\ q \notin Connected /\ Connected' = Connected \cup {q}
  BY <1>5 DEF BeginCreate, BeginUpdate
<1>6. ASSUME NEW q \in Requests, InsertUser(q) \/ InsertCredentials(q) \/ UpdateRow(q)
      PROVE  Connected' = Connected
  BY <1>6 DEF InsertUser, InsertCredentials, UpdateRow
<1>7. ASSUME NEW q \in Requests, RollBackCreate(q) \/ CommitCreate(q) \/ CommitUpdate(q)
      PROVE  q \in Connected /\ Connected' = Connected \ {q}
  BY <1>7 DEF RollBackCreate, CommitCreate, CommitUpdate
<1>8. ASSUME NEW q \in Requests, Answer(q) PROVE Connected' = Connected
  BY <1>8 DEF Answer
<1>9. ASSUME NEW q \in Requests, Fail(q) PROVE Connected' = Connected \ {q}
  BY <1>9 DEF Fail
<1>10. CASE Crash
  BY <1>10 DEF Crash, UnderWay, Ended
<1>11. CASE UNCHANGED vars
  BY <1>11 DEF vars
<1>12. ASSUME NEW q \in Requests, Connected' = Connected \ {q} PROVE PoolMoved
  BY <1>12
<1> QED
  BY <1>1, <1>2, <1>3, <1>4, <1>5, <1>6, <1>7, <1>8, <1>9, <1>10, <1>11, <1>12
  DEF Next, Step, Finished

(* The pool never has more calls in it than connections.                   *)
PoolSound == IsFiniteSet(Connected) /\ Cardinality(Connected) <= PoolSize

LEMMA PoolIsRespected == Spec => []PoolSound
<1>1. Init => PoolSound
  <2>1. Init => Connected = {}
    BY DEF Init, Connected, Creating, Updating
  <2> QED
    BY <2>1, FS_EmptySet, PoolAssumption DEF PoolSound
<1>2. TypeOK /\ PoolSound /\ [Next]_vars => PoolSound'
  <2> SUFFICES ASSUME TypeOK, PoolSound, [Next]_vars PROVE PoolSound'
    OBVIOUS
  <2> USE PoolAssumption DEF PoolSound
  <2>1. ASSUME NEW r \in Requests \ Connected, ConnectionFree,
               Connected' = Connected \cup {r}
        PROVE  PoolSound'
    <3>1. IsFiniteSet(Connected') /\ Cardinality(Connected') = Cardinality(Connected) + 1
      BY <2>1, FS_AddElement
    <3>2. Cardinality(Connected) \in Nat
      BY FS_CardinalityType
    <3> QED
      BY <2>1, <3>1, <3>2 DEF ConnectionFree
  <2>2. ASSUME NEW r \in Connected, Connected' = Connected \ {r} PROVE PoolSound'
    <3>1. /\ IsFiniteSet(Connected') /\ Cardinality(Connected') = Cardinality(Connected) - 1
          /\ Cardinality(Connected) \in Nat
      BY <2>2, FS_RemoveElement, FS_CardinalityType
    <3> QED
      BY <3>1
  <2>3. CASE Connected' = {}
    BY <2>3, FS_EmptySet
  <2>4. CASE Connected' = Connected
    BY <2>4
  <2> QED
    BY <2>1, <2>2, <2>3, <2>4, PoolMoves DEF PoolMoved
<1> QED
  BY <1>1, <1>2, TypeCorrect, PTL DEF Spec

(* Whoever leaves the pool leaves a connection free.                       *)
LEMMA LeavingFrees ==
  ASSUME TypeOK, PoolSound, [Next]_vars, NEW q \in Connected, q \notin Connected'
  PROVE  ConnectionFree'
<1>1. CASE Connected' = {}
  BY <1>1, FS_EmptySet, PoolAssumption DEF ConnectionFree
<1>2. ASSUME NEW r \in Connected, Connected' = Connected \ {r} PROVE ConnectionFree'
  <2>1. Cardinality(Connected') = Cardinality(Connected) - 1 /\ Cardinality(Connected) \in Nat
    BY <1>2, FS_RemoveElement, FS_CardinalityType DEF PoolSound
  <2> QED
    BY <2>1, PoolAssumption DEF PoolSound, ConnectionFree
<1> QED
  BY <1>1, <1>2, PoolMoves DEF PoolMoved

ConnectedLeaves(q) == [](q \in Connected => <>ConnectionFree)

(* However small the pool, a connection of it is free again and again.     *)
LEMMA ConnectionComesFree == Spec /\ ServedInTurn => []<>ConnectionFree
<1>1. ASSUME NEW q \in Requests
      PROVE  Spec /\ ServedInTurn => ConnectedLeaves(q)
  <2> USE DEF Connected, Creating, Updating
  <2>1. Spec /\ ServedInTurn =>
          /\ PointIsLeft(q, "insertUser") /\ PointIsLeft(q, "insertCredentials")
          /\ PointIsLeft(q, "commit") /\ PointIsLeft(q, "rollback")
          /\ PointIsLeft(q, "updateRow") /\ PointIsLeft(q, "updating")
    BY ReadyPointLeft, InsertUserLeft, UpdateRowLeft DEF Unhindered
  <2>2. TypeOK /\ PoolSound /\ [Next]_vars /\ q \in Connected
          => (q \in Connected)' \/ ConnectionFree'
    BY LeavingFrees
  <2>3. q \in Connected =>
          \/ At(q, "insertUser") \/ At(q, "insertCredentials") \/ At(q, "updateRow")
          \/ At(q, "commit") \/ At(q, "updating") \/ At(q, "rollback")
    BY DEF At
  <2>4. q \in Connected /\ Below(q, "insertUser") =>
          \/ At(q, "insertCredentials") \/ At(q, "updateRow")
          \/ At(q, "commit") \/ At(q, "updating") \/ At(q, "rollback")
    BY DEF At, Below, Remaining, Ended
  <2>5. q \in Connected /\ Below(q, "updateRow") =>
          At(q, "commit") \/ At(q, "updating") \/ At(q, "rollback")
    BY DEF At, Below, Remaining, Ended
  <2>6. q \in Connected /\ Below(q, "commit") => At(q, "rollback")
    BY DEF At, Below, Remaining, Ended
  <2>7. ~(q \in Connected /\ Below(q, "rollback"))
    BY DEF Below, Remaining, Ended
  <2>8. /\ Below(q, "insertCredentials") <=> Below(q, "updateRow")
        /\ Below(q, "updating") <=> Below(q, "commit")
    BY DEF Below, Remaining, Ended
  <2> HIDE DEF Connected
  <2> QED
    BY <2>1, <2>2, <2>3, <2>4, <2>5, <2>6, <2>7, <2>8, TypeCorrect, PoolIsRespected, PTL
    DEF Spec, PointIsLeft, ConnectedLeaves
<1>2. Spec /\ ServedInTurn => \A q \in Requests : ConnectedLeaves(q)
  BY <1>1
<1>3. (\A q \in Requests : ConnectedLeaves(q))
        => [](\A q \in Requests : q \in Connected => <>ConnectionFree)
  BY DEF ConnectedLeaves
<1>4. (\A q \in Requests : q \in Connected => <>ConnectionFree)
        => (~(Connected = {}) => <>ConnectionFree)
  BY DEF Connected
<1> QED
  BY <1>2, <1>3, <1>4, NobodyWaitsForAnEmptyPool, PTL

LEMMA ConnectionPointLeft ==
  ASSUME NEW r \in Requests, NEW point \in {"exists", "create", "update"}
  PROVE  Spec /\ ServedInTurn => PointIsLeft(r, point)
<1>1. point \in Points \ ({"idle"} \cup Ended)
  BY DEF Points, AtDatabase, Creating, Updating, Ended
<1>2. At(r, point) /\ ConnectionFree => ~Waits(r)
  BY DEF At, Waits
<1>3. Spec /\ ServedInTurn /\ WaitEnds(r, point) => PointIsLeft(r, point)
  BY <1>1, PointLeft
<1> QED
  BY <1>2, <1>3, ConnectionComesFree, PTL DEF WaitEnds

(* What is left ahead of a call at each point.                             *)
LEMMA PointsAhead ==
  ASSUME TypeOK, NEW r \in Requests
  PROVE  /\ pc[r] # "idle" => At(r, "exists") \/ Below(r, "exists")
         /\ Below(r, "exists") => At(r, "hash") \/ Below(r, "hash")
         /\ Below(r, "hash") => At(r, "create") \/ Below(r, "create")
         /\ Below(r, "create") => At(r, "insertUser") \/ At(r, "update") \/ Below(r, "update")
         /\ Below(r, "insertUser") <=> Below(r, "update")
         /\ Below(r, "update") =>
              \/ At(r, "insertCredentials") \/ At(r, "updateRow") \/ Below(r, "updateRow")
         /\ Below(r, "insertCredentials") <=> Below(r, "updateRow")
         /\ Below(r, "updateRow") => At(r, "commit") \/ At(r, "updating") \/ Below(r, "commit")
         /\ Below(r, "updating") <=> Below(r, "commit")
         /\ Below(r, "commit") =>
              At(r, "committed") \/ At(r, "rollback") \/ At(r, "changed") \/ pc[r] \in Ended
         /\ Below(r, "committed") => pc[r] \in Ended
         /\ Below(r, "rollback") => pc[r] \in Ended
         /\ Below(r, "changed") => pc[r] \in Ended
<1>1. pc[r] \in Points
  BY DEF TypeOK
<1> USE <1>1 DEF At, Below, Remaining, Points, AtDatabase, Creating, Updating, Ended
<1>2. pc[r] # "idle" => At(r, "exists") \/ Below(r, "exists")
  OBVIOUS
<1>3. Below(r, "exists") => At(r, "hash") \/ Below(r, "hash")
  OBVIOUS
<1>4. Below(r, "hash") => At(r, "create") \/ Below(r, "create")
  OBVIOUS
<1>5. Below(r, "create") => At(r, "insertUser") \/ At(r, "update") \/ Below(r, "update")
  OBVIOUS
<1>6. Below(r, "update") =>
        \/ At(r, "insertCredentials") \/ At(r, "updateRow") \/ Below(r, "updateRow")
  OBVIOUS
<1>7. Below(r, "updateRow") => At(r, "commit") \/ At(r, "updating") \/ Below(r, "commit")
  OBVIOUS
<1>8. Below(r, "commit") =>
        At(r, "committed") \/ At(r, "rollback") \/ At(r, "changed") \/ pc[r] \in Ended
  OBVIOUS
<1>9. /\ Below(r, "insertUser") <=> Below(r, "update")
      /\ Below(r, "insertCredentials") <=> Below(r, "updateRow")
      /\ Below(r, "updating") <=> Below(r, "commit")
  OBVIOUS
<1>10. Below(r, "committed") => pc[r] \in Ended
  OBVIOUS
<1>11. Below(r, "rollback") => pc[r] \in Ended
  OBVIOUS
<1>12. Below(r, "changed") => pc[r] \in Ended
  OBVIOUS
<1> QED
  BY <1>2, <1>3, <1>4, <1>5, <1>6, <1>7, <1>8, <1>9, <1>10, <1>11, <1>12, Zenon

Ends(r) == pc[r] # "idle" ~> pc[r] \in Ended

(* Every call that arrives ends, however many others ask for the same      *)
(* handle, change the same account or fail on the way.                     *)
THEOREM EveryCallIsServed == Spec /\ ServedInTurn => EveryCallEnds
<1>1. ASSUME NEW r \in Requests PROVE Spec /\ ServedInTurn => Ends(r)
  <2>1. Spec /\ ServedInTurn =>
          /\ PointIsLeft(r, "exists") /\ PointIsLeft(r, "create") /\ PointIsLeft(r, "update")
          /\ PointIsLeft(r, "hash") /\ PointIsLeft(r, "committed")
          /\ PointIsLeft(r, "changed") /\ PointIsLeft(r, "rollback")
          /\ PointIsLeft(r, "insertCredentials") /\ PointIsLeft(r, "commit")
          /\ PointIsLeft(r, "updating")
          /\ PointIsLeft(r, "insertUser") /\ PointIsLeft(r, "updateRow")
    BY ConnectionPointLeft, ReadyPointLeft, InsertUserLeft, UpdateRowLeft DEF Unhindered
  <2> QED
    BY <2>1, PointsAhead, TypeCorrect, PTL DEF PointIsLeft, Ends
<1>2. Spec /\ ServedInTurn => \A r \in Requests : Ends(r)
  BY <1>1
<1> QED
  BY <1>2 DEF Ends, EveryCallEnds
=============================================================================
