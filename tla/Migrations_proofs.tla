-------------------------- MODULE Migrations_proofs --------------------------
(***************************************************************************)
(* What holds of Migrations for any number of runners and migrations, each *)
(* of any length.                                                          *)
(***************************************************************************)
EXTENDS Migrations, TLAPS

(* The migrations applied are the first ones, with all of their statements.*)
DatabaseSound ==
  /\ \E n \in 0 .. Count : recorded = 1 .. n
  /\ schema = EffectsOf(recorded)

AtMigration == {"begin", "committed"} \cup InTransaction

(* What a runner knows at its place.                                       *)
RunnerSound(r) ==
  /\ done[r] \subseteq recorded
  /\ pc[r] \in AtMigration =>
       /\ current[r] \in (1 .. knows[r]) \ done[r]
       /\ 1 .. (current[r] - 1) \subseteq recorded
  /\ pc[r] \in {"idle", "find", "create", "read"} => current[r] = 0 /\ applied[r] = {}
  /\ pc[r] \in InTransaction => ran[r] <= Statements[current[r]]
  /\ pc[r] = "commit" => ran[r] = Statements[current[r]]
  /\ ran[r] # 0 => pc[r] \in InTransaction /\ current[r] \notin recorded
  /\ pc[r] = "committed" => current[r] \in recorded
RunnersSound == \A r \in Runners : RunnerSound(r)

(* The catalogue lets one open transaction in to a migration.              *)
WritersApart ==
  \A r, q \in Runners :
    r # q /\ ran[r] # 0 /\ ran[q] # 0 => current[r] # current[q]

(* A migration that is committed and not yet reported is reported by no    *)
(* one else.                                                               *)
ReportsApart ==
  \A r, q \in Runners :
    pc[r] = "committed" =>
      /\ current[r] \notin applied[q]
      /\ r # q /\ pc[q] = "committed" => current[r] # current[q]

IInv ==
  /\ TypeOK
  /\ DatabaseSound /\ RunnersSound /\ WritersApart /\ ReportsApart
  /\ SuccessMeansUpToDate /\ ReportsAreTrue /\ OnlyRacesClash

(* A step that writes neither the database nor what a runner has learnt of *)
(* it.                                                                     *)
Moves(r) ==
  /\ UNCHANGED <<knows, done, current, applied, recorded, schema>>
  /\ \/ FindTable(r) \/ CreateTable(r) \/ Begin(r) \/ RunStatement(r) \/ Record(r)
     \/ RollBack(r) \/ Fail(r) \/ Crash(r)

Acts(r) ==
  \/ \E n \in 0 .. Count : Start(r, n)
  \/ Read(r) \/ NextMigration(r) \/ Commit(r) \/ Moves(r)

-----------------------------------------------------------------------------
LEMMA Steps ==
  ASSUME [Next]_vars
  PROVE  (\E r \in Runners : Acts(r)) \/ UNCHANGED vars
BY DEF Next, Step, Acts, Moves, Goes, FindTable, CreateTable, Begin, RunStatement, Record, RollBack,
       Fail, Crash, Finished, locals, database, EndTransaction

(* A runner writes its own locals only, and the database only grows.       *)
LEMMA Alone ==
  ASSUME IInv, NEW r \in Runners, Acts(r)
  PROVE  /\ \A q \in Runners \ {r} :
              /\ pc'[q] = pc[q] /\ knows'[q] = knows[q] /\ done'[q] = done[q]
              /\ current'[q] = current[q] /\ ran'[q] = ran[q] /\ applied'[q] = applied[q]
         /\ recorded \subseteq recorded' /\ (table => table')
         /\ recorded' \subseteq recorded \cup {current[r]}
<1> USE DEF IInv, TypeOK, GoTo, Goes, EndTransaction, locals, database
<1>1. CASE \E n \in 0 .. Count : Start(r, n)
  BY <1>1 DEF Start
<1>2. CASE Read(r)
  BY <1>2 DEF Read, GoOn
<1>3. CASE NextMigration(r)
  BY <1>3 DEF NextMigration, GoOn
<1>4. CASE Commit(r)
  BY <1>4 DEF Commit
<1>5. CASE Moves(r)
  BY <1>5 DEF Moves, FindTable, CreateTable, Begin, RunStatement, Record, RollBack, Fail, Crash
<1> QED
  BY <1>1, <1>2, <1>3, <1>4, <1>5 DEF Acts

(* Where the loop goes next: past the end once nothing is missing, or to a *)
(* migration whose predecessors are all there.                             *)
LEMMA GoesOn ==
  ASSUME IInv, NEW r \in Runners, NEW m \in 0 .. Count,
         1 .. m \subseteq recorded, done'[r] \subseteq recorded,
         GoOn(r, done'[r], m)
  PROVE  /\ current' \in [Runners -> 0 .. Count]
         /\ \A q \in Runners \ {r} : pc'[q] = pc[q] /\ current'[q] = current[q]
         /\ \/ pc'[r] = "done" /\ 1 .. knows[r] \subseteq recorded
            \/ /\ pc'[r] = "begin"
               /\ current'[r] \in (1 .. knows[r]) \ done'[r]
               /\ 1 .. (current'[r] - 1) \subseteq recorded
<1> USE StatementsAssumption DEF IInv, TypeOK, GoTo, Goes, Pending
<1>0. knows[r] \in Nat /\ knows[r] <= Count /\ Count \in Nat /\ m \in Nat
  OBVIOUS
<1>1. CASE Pending(r, done'[r], m) = {} /\ GoTo(r, "done") /\ UNCHANGED current
  <2>1. \A j \in 1 .. knows[r] : j \in recorded
    BY <1>0, <1>1
  <2> QED
    BY <1>1, <2>1
<1>2. ASSUME NEW k \in Pending(r, done'[r], m),
             \A j \in Pending(r, done'[r], m) : k <= j,
             GoTo(r, "begin"), current' = [current EXCEPT ![r] = k]
      PROVE  /\ current' \in [Runners -> 0 .. Count]
             /\ \A q \in Runners \ {r} : pc'[q] = pc[q] /\ current'[q] = current[q]
             /\ pc'[r] = "begin"
             /\ current'[r] \in (1 .. knows[r]) \ done'[r]
             /\ 1 .. (current'[r] - 1) \subseteq recorded
  <2>1. k \in (1 .. knows[r]) \ done'[r] /\ k \in 0 .. Count
    BY <1>0, <1>2
  <2>2. ASSUME NEW j \in 1 .. (k - 1) PROVE j \in recorded
    <3>1. CASE j <= m
      BY <2>1, <3>1
    <3>2. CASE ~(j <= m)
      <4>1. j \notin Pending(r, done'[r], m)
        BY <2>1, <1>2
      <4> QED
        BY <2>1, <3>2, <4>1
    <3> QED
      BY <3>1, <3>2
  <2> QED
    BY <1>2, <2>1, <2>2
<1> QED
  BY <1>1, <1>2 DEF GoOn

LEMMA ReadGoesOn ==
  ASSUME IInv, NEW r \in Runners, Read(r)
  PROVE  GoOn(r, done'[r], 0) /\ done'[r] = recorded
BY DEF Read, IInv, TypeOK

LEMMA NextGoesOn ==
  ASSUME IInv, NEW r \in Runners, NextMigration(r)
  PROVE  /\ GoOn(r, done'[r], current[r]) /\ done' = done
         /\ current[r] \in recorded /\ 1 .. current[r] \subseteq recorded
<1>1. RunnerSound(r) /\ pc[r] = "committed" /\ current[r] \in 0 .. Count
  BY DEF NextMigration, IInv, TypeOK, RunnersSound
<1> QED
  BY <1>1, StatementsAssumption DEF NextMigration, RunnerSound, AtMigration

LEMMA EffectsGrow ==
  ASSUME NEW ms, NEW m
  PROVE  EffectsOf(ms \cup {m}) = EffectsOf(ms) \cup Effects(m)
BY DEF EffectsOf

LEMMA CommitsNext ==
  ASSUME IInv, NEW r \in Runners, Commit(r)
  PROVE  /\ current[r] \in Migrations /\ current[r] \notin recorded
         /\ recorded = 1 .. (current[r] - 1) /\ recorded' = 1 .. current[r]
         /\ schema' = EffectsOf(recorded') /\ schema = EffectsOf(recorded)
<1>1. RunnerSound(r) /\ pc[r] = "commit" /\ current[r] \in 0 .. Count /\ knows[r] \in 0 .. Count
  BY DEF Commit, IInv, TypeOK, RunnersSound
<1>2. current[r] \in 1 .. Count
  BY <1>1, StatementsAssumption DEF RunnerSound, AtMigration, InTransaction
<1>3. Statements[current[r]] \in Nat \ {0}
  BY <1>2, StatementsAssumption
<1>4. current[r] \notin recorded /\ 1 .. (current[r] - 1) \subseteq recorded
  BY <1>1, <1>3 DEF RunnerSound, AtMigration, InTransaction
<1>5. PICK n \in 0 .. Count : recorded = 1 .. n
  BY DEF IInv, DatabaseSound
<1>6. n = current[r] - 1
  <2>1. n \in Nat /\ current[r] \in Nat
    BY <1>2, StatementsAssumption
  <2>2. ~(current[r] <= n)
    BY <1>2, <1>4, <1>5, <2>1
  <2>3. current[r] - 1 <= n
    <3>1. CASE current[r] = 1
      BY <2>1, <3>1
    <3>2. CASE current[r] # 1
      <4>1. current[r] - 1 \in 1 .. (current[r] - 1)
        BY <1>2, <2>1, <3>2
      <4> QED
        BY <1>4, <1>5, <4>1
    <3> QED
      BY <3>1, <3>2
  <2> QED
    BY <2>1, <2>2, <2>3
<1>7. recorded' = recorded \cup {current[r]} /\ schema' = schema \cup Effects(current[r])
  BY DEF Commit
<1>8. recorded' = 1 .. current[r]
  BY <1>2, <1>5, <1>6, <1>7, StatementsAssumption
<1>9. schema = EffectsOf(recorded)
  BY DEF IInv, DatabaseSound
<1>10. schema' = EffectsOf(recorded')
  BY <1>7, <1>9, EffectsGrow
<1> QED
  BY <1>2, <1>4, <1>5, <1>6, <1>8, <1>9, <1>10 DEF Migrations

LEMMA TypeStep == IInv /\ [Next]_vars => TypeOK'
<1> SUFFICES ASSUME IInv, [Next]_vars PROVE TypeOK'
  OBVIOUS
<1> USE StatementsAssumption
    DEF TypeOK, GoTo, Goes, Points, InTransaction, RollingBack, Ended, Migrations
<1>0. TypeOK
  BY DEF IInv
<1>1. ASSUME NEW r \in Runners, NEW n \in 0 .. Count, Start(r, n) PROVE TypeOK'
  BY <1>0, <1>1 DEF Start, database
<1>2. ASSUME NEW r \in Runners, Read(r) PROVE TypeOK'
  <2>1. current' \in [Runners -> 0 .. Count]
    BY <1>2, ReadGoesOn, GoesOn
  <2>2. pc' \in [Runners -> Points]
    BY <1>0, <1>2 DEF Read, GoOn
  <2> QED
    BY <1>0, <1>2, <2>1, <2>2 DEF Read, database
<1>3. ASSUME NEW r \in Runners, NextMigration(r) PROVE TypeOK'
  <2>1. current[r] \in Migrations
    BY <1>0, <1>3, NextGoesOn
  <2>2. current' \in [Runners -> 0 .. Count]
    <3>1. done'[r] \subseteq recorded
      BY <1>3, NextGoesOn DEF IInv, RunnersSound, RunnerSound
    <3>2. current[r] \in 0 .. Count
      BY <1>0
    <3>3. GoOn(r, done'[r], current[r]) /\ 1 .. current[r] \subseteq recorded
      BY <1>3, NextGoesOn
    <3> QED
      BY <3>1, <3>2, <3>3, GoesOn
  <2>3. pc' \in [Runners -> Points]
    BY <1>0, <1>3 DEF NextMigration, GoOn
  <2> QED
    BY <1>0, <1>3, <2>1, <2>2, <2>3 DEF NextMigration, database
<1>4. ASSUME NEW r \in Runners, Commit(r) PROVE TypeOK'
  <2>1. recorded' \subseteq Migrations /\ schema' \subseteq EffectsOf(Migrations)
    BY <1>4, CommitsNext DEF EffectsOf
  <2> QED
    BY <1>0, <1>4, <2>1 DEF Commit, EndTransaction
<1>5. ASSUME NEW r \in Runners, Moves(r) PROVE TypeOK'
  <2>1. pc' \in [Runners -> Points]
    BY <1>0, <1>5 DEF Moves, FindTable, CreateTable, Begin, RunStatement, Record, RollBack,
                      Fail, Crash
  <2>2. ran' \in [Runners -> Nat]
    <3>1. ran' \in {ran, [ran EXCEPT ![r] = 0], [ran EXCEPT ![r] = @ + 1]}
      BY <1>5 DEF Moves, FindTable, CreateTable, Begin, RunStatement, Record, RollBack,
                  Fail, Crash, locals, EndTransaction
    <3>2. ran \in [Runners -> Nat]
      BY <1>0
    <3>3. /\ [ran EXCEPT ![r] = 0] \in [Runners -> Nat]
          /\ [ran EXCEPT ![r] = @ + 1] \in [Runners -> Nat]
      BY <3>2
    <3> QED
      BY <3>1, <3>2, <3>3
  <2>3. table' \in BOOLEAN
    BY <1>0, <1>5 DEF Moves, FindTable, CreateTable, Begin, RunStatement, Record, RollBack,
                      Fail, Crash, database
  <2> QED
    BY <1>0, <1>5, <2>1, <2>2, <2>3 DEF Moves
<1>6. CASE UNCHANGED vars
  BY <1>0, <1>6 DEF vars, locals, database
<1> QED
  BY <1>1, <1>2, <1>3, <1>4, <1>5, <1>6, Steps DEF Acts

-----------------------------------------------------------------------------
LEMMA DatabaseStep == IInv /\ [Next]_vars => DatabaseSound'
<1> SUFFICES ASSUME IInv, [Next]_vars PROVE DatabaseSound'
  OBVIOUS
<1>1. ASSUME NEW r \in Runners, Commit(r) PROVE DatabaseSound'
  <2>1. current[r] \in 0 .. Count
    BY DEF IInv, TypeOK
  <2> QED
    BY <1>1, <2>1, CommitsNext DEF DatabaseSound, EffectsOf, Effects
<1>2. CASE UNCHANGED <<recorded, schema>>
  BY <1>2 DEF IInv, DatabaseSound, EffectsOf, Effects
<1>3. ASSUME NEW r \in Runners, Acts(r), ~Commit(r) PROVE UNCHANGED <<recorded, schema>>
  BY <1>3 DEF Acts, Start, Read, NextMigration, Moves, database
<1> QED
  BY <1>1, <1>2, <1>3, Steps DEF vars, database

(* The runner that takes the step.                                         *)
LEMMA ActorSound ==
  ASSUME IInv, NEW r \in Runners, Acts(r)
  PROVE  RunnerSound(r)'
<1> USE StatementsAssumption DEF GoTo, Goes, EndTransaction, InTransaction, RollingBack, Ended
<1>0. TypeOK /\ RunnerSound(r)
  BY DEF IInv, RunnersSound
<1>1. CASE \E n \in 0 .. Count : Start(r, n)
  BY <1>0, <1>1 DEF Start, TypeOK, RunnerSound, AtMigration, database
<1>2. CASE Read(r)
  <2>1. /\ ran' = ran /\ knows' = knows /\ recorded' = recorded /\ done'[r] = recorded
        /\ pc[r] = "read"
    BY <1>0, <1>2 DEF Read, database, TypeOK
  <2>2. GoOn(r, done'[r], 0) /\ done'[r] \subseteq recorded
    BY <1>2, ReadGoesOn
  <2>3. \/ pc'[r] = "done"
        \/ /\ pc'[r] = "begin"
           /\ current'[r] \in (1 .. knows[r]) \ done'[r]
           /\ 1 .. (current'[r] - 1) \subseteq recorded
    BY <2>2, GoesOn
  <2> QED
    BY <1>0, <2>1, <2>2, <2>3 DEF RunnerSound, AtMigration
<1>3. CASE NextMigration(r)
  <2>1. /\ ran' = ran /\ knows' = knows /\ recorded' = recorded /\ done' = done
        /\ pc[r] = "committed"
    BY <1>0, <1>3 DEF NextMigration, database
  <2>2. GoOn(r, done'[r], current[r]) /\ 1 .. current[r] \subseteq recorded
    BY <1>3, NextGoesOn
  <2>3. done'[r] \subseteq recorded /\ current[r] \in 0 .. Count
    BY <1>0, <2>1 DEF RunnerSound, TypeOK
  <2>4. \/ pc'[r] = "done"
        \/ /\ pc'[r] = "begin"
           /\ current'[r] \in (1 .. knows[r]) \ done'[r]
           /\ 1 .. (current'[r] - 1) \subseteq recorded
    BY <2>2, <2>3, GoesOn
  <2> QED
    BY <1>0, <2>1, <2>3, <2>4 DEF RunnerSound, AtMigration
<1>4. CASE Commit(r)
  <2>1. recorded' = 1 .. current[r] /\ recorded = 1 .. (current[r] - 1)
    BY <1>4, CommitsNext
  <2>2. /\ pc[r] = "commit" /\ pc'[r] = "committed" /\ ran'[r] = 0
        /\ UNCHANGED <<knows, done, current, applied>>
        /\ recorded \subseteq recorded' /\ current[r] \in recorded'
    BY <1>0, <1>4 DEF Commit, TypeOK
  <2> QED
    BY <1>0, <2>2 DEF RunnerSound, AtMigration
<1>5. CASE Moves(r)
  <2>1. UNCHANGED <<knows, done, current, applied, recorded>>
    BY <1>5 DEF Moves
  <2>2. CASE FindTable(r) \/ CreateTable(r) \/ Begin(r)
    BY <1>0, <2>1, <2>2 DEF FindTable, CreateTable, Begin, locals, TypeOK, RunnerSound, AtMigration
  <2>3. CASE Fail(r) \/ Crash(r) \/ RollBack(r)
    BY <1>0, <2>1, <2>3 DEF Fail, Crash, RollBack, locals, TypeOK, RunnerSound, AtMigration
  <2>4. CASE Record(r)
    BY <1>0, <2>1, <2>4 DEF Record, locals, TypeOK, RunnerSound, AtMigration
  <2>5. CASE RunStatement(r)
    <3>1. current[r] \in Migrations /\ Statements[current[r]] \in Nat /\ ran[r] \in Nat
      BY <1>0, <2>5 DEF RunStatement, RunnerSound, AtMigration, TypeOK, Migrations
    <3>2. schema = EffectsOf(recorded)
      BY DEF IInv, DatabaseSound
    <3>3. CASE pc'[r] = "clash" /\ ran'[r] = 0
      BY <1>0, <2>1, <3>3 DEF RunnerSound, AtMigration
    <3>4. CASE /\ pc'[r] = "apply" /\ ran'[r] = ran[r] + 1
               /\ <<current[r], ran[r] + 1>> \notin schema
      <4>1. current[r] \notin recorded
        BY <2>5, <3>1, <3>2, <3>4 DEF RunStatement, EffectsOf, Effects
      <4> QED
        BY <1>0, <2>1, <2>5, <3>1, <3>4, <4>1 DEF RunStatement, RunnerSound, AtMigration
    <3> QED
      BY <1>0, <2>5, <3>3, <3>4 DEF RunStatement, TypeOK
  <2> QED
    BY <1>5, <2>2, <2>3, <2>4, <2>5 DEF Moves
<1> QED
  BY <1>1, <1>2, <1>3, <1>4, <1>5 DEF Acts

LEMMA RunnersStep == IInv /\ [Next]_vars => RunnersSound'
<1> SUFFICES ASSUME IInv, [Next]_vars PROVE RunnersSound'
  OBVIOUS
<1>1. ASSUME NEW r \in Runners, Acts(r), NEW q \in Runners \ {r} PROVE RunnerSound(q)'
  <2>1. RunnerSound(q) /\ RunnerSound(r)
    BY DEF IInv, RunnersSound
  <2>2. ran[q] # 0 => current[q] \notin recorded'
    <3>1. CASE Commit(r)
      <4>1. ran[r] # 0
        BY <2>1, <3>1, StatementsAssumption
        DEF Commit, RunnerSound, AtMigration, InTransaction, IInv, TypeOK
      <4> QED
        BY <2>1, <3>1, <4>1 DEF Commit, IInv, WritersApart, RunnerSound
    <3>2. CASE ~Commit(r)
      BY <1>1, <2>1, <3>2 DEF Acts, Start, Read, NextMigration, Moves, database, RunnerSound
    <3> QED
      BY <3>1, <3>2
  <2> QED
    BY <1>1, <2>1, <2>2, Alone DEF RunnerSound
<1>2. CASE UNCHANGED vars
  BY <1>2 DEF vars, locals, database, IInv, RunnersSound, RunnerSound
<1> QED
  BY <1>1, <1>2, ActorSound, Steps DEF RunnersSound

-----------------------------------------------------------------------------
(* A transaction that has just opened finds no other in its migration.     *)
LEMMA WritersStep == IInv /\ [Next]_vars => WritersApart'
<1> SUFFICES ASSUME IInv, [Next]_vars PROVE WritersApart'
  OBVIOUS
<1> USE DEF WritersApart
<1>1. ASSUME NEW r \in Runners, Acts(r), NEW q \in Runners \ {r},
             ran'[r] # 0, ran'[q] # 0
      PROVE  current'[r] # current'[q]
  <2>1. ran[q] # 0 /\ current'[q] = current[q] /\ ran \in [Runners -> Nat]
    BY <1>1, Alone DEF IInv, TypeOK
  <2>2. RunnerSound(r)
    BY DEF IInv, RunnersSound
  <2>3. CASE ran[r] # 0
    <3>1. pc[r] \in InTransaction
      BY <2>2, <2>3 DEF RunnerSound
    <3>2. current'[r] = current[r]
      BY <1>1, <3>1
      DEF Acts, Start, Read, NextMigration, Commit, Moves, InTransaction
    <3> QED
      BY <2>1, <2>3, <3>2 DEF IInv
  <2>4. CASE ran[r] = 0
    <3>1. RunStatement(r)
      BY <1>1, <2>1, <2>4
      DEF Acts, Start, Read, NextMigration, Commit, Moves, Goes, FindTable, CreateTable, Begin,
          Record, RollBack, Fail, Crash, EndTransaction, locals
    <3>2. ~Writes(q, <<current[r], 1>>) /\ current' = current
      BY <1>1, <2>4, <3>1 DEF RunStatement, StatementFree, locals
    <3>3. 1 \in 1 .. ran[q]
      BY <2>1
    <3> QED
      BY <2>1, <3>2, <3>3 DEF Writes
  <2> QED
    BY <2>3, <2>4
<1>2. ASSUME NEW r \in Runners, Acts(r), NEW p \in Runners \ {r}, NEW q \in Runners \ {r}, p # q,
             ran'[p] # 0, ran'[q] # 0
      PROVE  current'[p] # current'[q]
  BY <1>2, Alone DEF IInv
<1>3. CASE UNCHANGED vars
  BY <1>3 DEF vars, locals, IInv
<1> QED
  BY <1>1, <1>2, <1>3, Steps

LEMMA ReportsStep == IInv /\ [Next]_vars => ReportsApart' /\ ReportsAreTrue'
<1> SUFFICES ASSUME IInv, [Next]_vars PROVE ReportsApart' /\ ReportsAreTrue'
  OBVIOUS
<1>0. TypeOK /\ ReportsApart /\ ReportsAreTrue /\ \A q \in Runners : RunnerSound(q)
  BY DEF IInv, RunnersSound
<1>1. ASSUME NEW r \in Runners, Commit(r) PROVE ReportsApart' /\ ReportsAreTrue'
  <2>1. /\ current[r] \notin recorded /\ recorded \subseteq recorded'
        /\ UNCHANGED <<done, current, applied>>
        /\ \A q \in Runners \ {r} : pc'[q] = pc[q]
    BY <1>1, CommitsNext, Alone DEF Commit, Acts
  <2>2. \A q \in Runners :
          /\ current[r] \notin applied[q]
          /\ pc[q] = "committed" => current[q] # current[r]
    BY <1>0, <2>1 DEF ReportsAreTrue, RunnerSound
  <2>3. ReportsApart'
    <3>1. ASSUME NEW q \in Runners, q # r, NEW o \in Runners, pc'[q] = "committed"
          PROVE  /\ current'[q] \notin applied'[o]
                 /\ q # o /\ pc'[o] = "committed" => current'[q] # current'[o]
      BY <1>0, <2>1, <2>2, <3>1 DEF ReportsApart
    <3>2. ASSUME NEW o \in Runners
          PROVE  /\ current'[r] \notin applied'[o]
                 /\ r # o /\ pc'[o] = "committed" => current'[r] # current'[o]
      BY <2>1, <2>2
    <3> QED
      BY <3>1, <3>2 DEF ReportsApart
  <2> QED
    BY <1>0, <2>1, <2>3 DEF ReportsAreTrue
<1>2. ASSUME NEW r \in Runners, NextMigration(r) PROVE ReportsApart' /\ ReportsAreTrue'
  <2>1. /\ pc[r] = "committed" /\ pc'[r] # "committed"
        /\ UNCHANGED <<done, recorded>>
        /\ applied' = [applied EXCEPT ![r] = @ \cup {current[r]}]
    BY <1>0, <1>2 DEF NextMigration, GoOn, GoTo, Goes, database, TypeOK
  <2>2. \A q \in Runners \ {r} : pc'[q] = pc[q] /\ current'[q] = current[q]
    BY <1>2, Alone DEF Acts
  <2>3. current[r] \in recorded \ done[r]
    BY <1>0, <2>1 DEF RunnerSound, AtMigration
  <2>4. \A q \in Runners : current[r] \notin applied[q]
    BY <1>0, <2>1 DEF ReportsApart
  <2>5. ReportsApart'
    BY <1>0, <2>1, <2>2 DEF ReportsApart, TypeOK
  <2>6. ReportsAreTrue'
    BY <1>0, <2>1, <2>3, <2>4 DEF ReportsAreTrue, TypeOK
  <2> QED
    BY <2>5, <2>6
<1>3. ASSUME NEW r \in Runners, Read(r) PROVE ReportsApart' /\ ReportsAreTrue'
  <2>1. /\ pc'[r] # "committed" /\ applied[r] = {}
        /\ UNCHANGED <<applied, recorded>>
    BY <1>0, <1>3 DEF Read, GoOn, GoTo, Goes, database, TypeOK, RunnerSound
  <2>2. \A q \in Runners \ {r} :
          pc'[q] = pc[q] /\ current'[q] = current[q] /\ done'[q] = done[q]
    BY <1>3, Alone DEF Acts
  <2> QED
    BY <1>0, <2>1, <2>2 DEF ReportsApart, ReportsAreTrue
<1>4. ASSUME NEW r \in Runners, Moves(r) \/ \E n \in 0 .. Count : Start(r, n)
      PROVE  ReportsApart' /\ ReportsAreTrue'
  <2>1. UNCHANGED <<done, current, applied, recorded>>
    BY <1>4 DEF Moves, Start, database
  <2>2. pc'[r] # "committed"
    BY <1>0, <1>4
    DEF Moves, Start, FindTable, CreateTable, Begin, RunStatement, Record, RollBack, Fail, Crash,
        GoTo, Goes, TypeOK
  <2>3. \A q \in Runners \ {r} : pc'[q] = pc[q]
    BY <1>4, Alone DEF Acts
  <2> QED
    BY <1>0, <2>1, <2>2, <2>3 DEF ReportsApart, ReportsAreTrue
<1>5. CASE UNCHANGED vars
  BY <1>0, <1>5 DEF vars, locals, database, ReportsApart, ReportsAreTrue
<1> QED
  BY <1>1, <1>2, <1>3, <1>4, <1>5, Steps DEF Acts

LEMMA SuccessStep == IInv /\ [Next]_vars => SuccessMeansUpToDate'
<1> SUFFICES ASSUME IInv, [Next]_vars PROVE SuccessMeansUpToDate'
  OBVIOUS
<1>0. TypeOK /\ SuccessMeansUpToDate /\ \A q \in Runners : RunnerSound(q)
  BY DEF IInv, RunnersSound
<1>1. ASSUME NEW r \in Runners, Acts(r), pc'[r] = "done" PROVE 1 .. knows'[r] \subseteq recorded'
  <2>1. CASE Read(r)
    <3>1. GoOn(r, done'[r], 0) /\ done'[r] \subseteq recorded
      BY <2>1, ReadGoesOn
    <3>2. 1 .. knows[r] \subseteq recorded
      BY <1>1, <3>1, StatementsAssumption, GoesOn
    <3> QED
      BY <2>1, <3>2 DEF Read, database
  <2>2. CASE NextMigration(r)
    <3>1. /\ GoOn(r, done'[r], current[r]) /\ 1 .. current[r] \subseteq recorded
          /\ done'[r] \subseteq recorded /\ current[r] \in 0 .. Count
      BY <1>0, <2>2, NextGoesOn DEF RunnerSound, TypeOK
    <3>2. 1 .. knows[r] \subseteq recorded
      BY <1>1, <3>1, GoesOn
    <3> QED
      BY <2>2, <3>2 DEF NextMigration, database
  <2>3. CASE ~Read(r) /\ ~NextMigration(r)
    BY <1>0, <1>1, <2>3
    DEF Acts, Start, Commit, Moves, FindTable, CreateTable, Begin, RunStatement, Record, RollBack,
        Fail, Crash, GoTo, Goes, TypeOK
  <2> QED
    BY <2>1, <2>2, <2>3
<1>2. ASSUME NEW r \in Runners, Acts(r), NEW q \in Runners \ {r}, pc'[q] = "done"
      PROVE  1 .. knows'[q] \subseteq recorded'
  BY <1>0, <1>2, Alone DEF SuccessMeansUpToDate
<1>3. CASE UNCHANGED vars
  BY <1>0, <1>3 DEF vars, locals, database, SuccessMeansUpToDate
<1> QED
  BY <1>1, <1>2, <1>3, Steps DEF SuccessMeansUpToDate

LEMMA ClashStep == IInv /\ [Next]_vars => OnlyRacesClash'
<1> SUFFICES ASSUME IInv, [Next]_vars PROVE OnlyRacesClash'
  OBVIOUS
<1>0. TypeOK /\ OnlyRacesClash /\ \A q \in Runners : RunnerSound(q)
  BY DEF IInv, RunnersSound
<1>1. ASSUME NEW r \in Runners, Acts(r), pc'[r] \in {"clash", "clashed"}
      PROVE  (current'[r] = 0 /\ table') \/ current'[r] \in recorded' \ done'[r]
  <2>1. \/ CreateTable(r) /\ table
        \/ RunStatement(r) /\ <<current[r], ran[r] + 1>> \in schema
        \/ RollBack(r) /\ pc[r] = "clash"
    BY <1>0, <1>1
    DEF Acts, Start, Read, NextMigration, GoOn, Commit, Moves, FindTable, CreateTable, Begin,
        RunStatement, Record, RollBack, Fail, Crash, GoTo, Goes, TypeOK
  <2>2. UNCHANGED <<done, current, recorded, schema>> /\ (table => table')
    BY <1>0, <2>1 DEF Goes, CreateTable, RunStatement, RollBack, locals, database
  <2>3. CASE CreateTable(r) /\ table
    BY <1>0, <2>2, <2>3 DEF CreateTable, RunnerSound
  <2>4. CASE RunStatement(r) /\ <<current[r], ran[r] + 1>> \in schema
    <3>1. schema = EffectsOf(recorded)
      BY DEF IInv, DatabaseSound
    <3>2. current[r] \in recorded
      BY <2>4, <3>1 DEF EffectsOf, Effects
    <3>3. current[r] \notin done[r]
      BY <1>0, <2>4 DEF RunStatement, RunnerSound, AtMigration, InTransaction
    <3> QED
      BY <2>2, <3>2, <3>3
  <2>5. CASE pc[r] = "clash"
    BY <1>0, <2>2, <2>5 DEF OnlyRacesClash
  <2> QED
    BY <2>1, <2>3, <2>4, <2>5
<1>2. ASSUME NEW r \in Runners, Acts(r), NEW q \in Runners \ {r}, pc'[q] \in {"clash", "clashed"}
      PROVE  (current'[q] = 0 /\ table') \/ current'[q] \in recorded' \ done'[q]
  BY <1>0, <1>2, Alone DEF OnlyRacesClash
<1>3. CASE UNCHANGED vars
  BY <1>0, <1>3 DEF vars, locals, database, OnlyRacesClash
<1> QED
  BY <1>1, <1>2, <1>3, Steps DEF OnlyRacesClash

-----------------------------------------------------------------------------
LEMMA InvariantInit == Init => IInv
<1> SUFFICES ASSUME Init PROVE IInv
  OBVIOUS
<1>1. PICK n \in 0 .. Count :
        recorded = 1 .. n /\ schema = EffectsOf(1 .. n) /\ table \in {n > 0, TRUE}
  BY DEF Init
<1>2. TypeOK
  <2>1. recorded \subseteq Migrations
    BY <1>1, StatementsAssumption DEF Migrations
  <2>2. schema \subseteq EffectsOf(Migrations)
    BY <1>1, <2>1 DEF EffectsOf
  <2>3. table \in BOOLEAN
    <3>1. (n > 0) \in BOOLEAN
      OBVIOUS
    <3> QED
      BY <1>1, <3>1
  <2>4. /\ pc \in [Runners -> Points] /\ ran \in [Runners -> Nat]
        /\ knows \in [Runners -> 0 .. Count] /\ current \in [Runners -> 0 .. Count]
        /\ done \in [Runners -> SUBSET Migrations] /\ applied \in [Runners -> SUBSET Migrations]
    BY StatementsAssumption DEF Init, Points
  <2> QED
    BY <2>1, <2>2, <2>3, <2>4 DEF TypeOK
<1>3. DatabaseSound
  BY <1>1 DEF DatabaseSound
<1>4. RunnersSound
  BY DEF Init, RunnersSound, RunnerSound, AtMigration, InTransaction
<1>5. WritersApart /\ ReportsApart /\ SuccessMeansUpToDate /\ ReportsAreTrue /\ OnlyRacesClash
  BY DEF Init, WritersApart, ReportsApart, SuccessMeansUpToDate, ReportsAreTrue, OnlyRacesClash
<1> QED
  BY <1>2, <1>3, <1>4, <1>5 DEF IInv

(* IInv holds of every state Migrations reaches.                           *)
THEOREM Invariant == Spec => []IInv
<1>1. IInv /\ [Next]_vars => IInv'
  BY TypeStep, DatabaseStep, RunnersStep, WritersStep, ReportsStep, SuccessStep, ClashStep DEF IInv
<1> QED
  BY InvariantInit, <1>1, PTL DEF Spec

(* Every variable keeps its type.                                          *)
THEOREM TypeCorrect == Spec => []TypeOK
BY Invariant, PTL DEF IInv

(* A runner that succeeds leaves every migration of its image applied.     *)
THEOREM SuccessIsUpToDate == Spec => []SuccessMeansUpToDate
BY Invariant, PTL DEF IInv

(* A migration is reported by the one runner that applied it.              *)
THEOREM ReportsHold == Spec => []ReportsAreTrue
BY Invariant, PTL DEF IInv

(* A runner clashes only with work another did after it looked.            *)
THEOREM ClashesAreRaces == Spec => []OnlyRacesClash
BY Invariant, PTL DEF IInv

(* A runner waits only for one that is inside a transaction on the same    *)
(* migration and has run a statement of it, and so waits for nobody        *)
(* itself: the two would be let in to one migration.  Waiting never goes   *)
(* in a circle, nor in a chain.                                            *)
THEOREM NoDeadlock == Spec => []SomeRunnerCanProceed
<1>1. ASSUME IInv PROVE SomeRunnerCanProceed
  <2> DEFINE SomeoneGoesOn == \E q \in Runners : UnderWay(q) /\ ~Waits(q)
  <2> SUFFICES ASSUME NEW r \in Runners, UnderWay(r) PROVE SomeoneGoesOn
    BY DEF SomeRunnerCanProceed
  <2>1. CASE ~Waits(r)
    BY <2>1
  <2>2. CASE Waits(r)
    <3>1. \A p \in Runners :
            Waits(p) => \E q \in Runners \ {p} : current[q] = current[p] /\ ran[q] # 0
      <4> SUFFICES ASSUME NEW p \in Runners, Waits(p)
                   PROVE \E q \in Runners \ {p} : current[q] = current[p] /\ ran[q] # 0
        OBVIOUS
      <4>1. PICK q \in Runners \ {p} : Writes(q, <<current[p], ran[p] + 1>>)
        BY DEF Waits, StatementFree
      <4>2. current[q] = current[p] /\ ran[p] + 1 \in 1 .. ran[q]
        BY <4>1 DEF Writes
      <4>3. ran[q] # 0
        BY <1>1, <4>2 DEF IInv, TypeOK
      <4> QED
        BY <4>2, <4>3
    <3>2. PICK q \in Runners \ {r} : current[q] = current[r] /\ ran[q] # 0
      BY <2>2, <3>1
    <3>3. UnderWay(q)
      BY <1>1, <3>2 DEF IInv, RunnersSound, RunnerSound, UnderWay, InTransaction, Ended
    <3>4. ~Waits(q)
      BY <1>1, <3>1, <3>2 DEF IInv, WritersApart
    <3> QED
      BY <3>3, <3>4
  <2> QED
    BY <2>1, <2>2
<1> QED
  BY <1>1, Invariant, PTL

(* How far along its migration a runner is; a rollback is the way out.     *)
Stage(point) ==
  CASE point = "idle" -> 0 [] point = "find" -> 1 [] point = "create" -> 2
    [] point = "read" -> 3 [] point = "begin" -> 4 [] point = "apply" -> 5
    [] point = "commit" -> 6 [] point = "committed" -> 7
    [] point \in RollingBack -> 8 [] point \in Ended -> 9

(* The step takes r to a later migration, to a later stage of it, or past  *)
(* one more of its statements.                                             *)
GetsOn(r) ==
  \/ current[r] < current'[r] /\ current'[r] <= Count
  \/ /\ current'[r] = current[r]
     /\ \/ Stage(pc[r]) < Stage(pc'[r])
        \/ pc'[r] = pc[r] /\ ran[r] < ran'[r] /\ ran'[r] <= Statements[current[r]]

StandsStill(r) == pc'[r] = pc[r] /\ current'[r] = current[r] /\ ran'[r] = ran[r]

(* The loop ends, or is at a migration past m.                             *)
LEMMA LoopGetsOn ==
  ASSUME IInv, NEW r \in Runners, NEW ids, GoOn(r, ids, current[r]),
         Stage(pc[r]) < 9
  PROVE  GetsOn(r)
<1> USE DEF IInv, TypeOK, GoTo, Goes
<1>1. current[r] \in Nat /\ knows[r] \in Nat /\ knows[r] <= Count /\ Count \in Nat
  BY StatementsAssumption
<1>2. CASE GoTo(r, "done") /\ UNCHANGED current
  BY <1>2 DEF GetsOn, Stage, RollingBack, Ended
<1>3. ASSUME NEW k \in Pending(r, ids, current[r]), current' = [current EXCEPT ![r] = k]
      PROVE  GetsOn(r)
  <2>1. k \in current[r] + 1 .. knows[r] /\ current'[r] = k
    BY <1>3 DEF Pending
  <2> QED
    BY <1>1, <2>1 DEF GetsOn
<1> QED
  BY <1>2, <1>3 DEF GoOn

(* applyMigrations only goes forward: no step takes a runner back to a     *)
(* migration, a stage or a statement it has left, so nothing but a wait    *)
(* can keep it from its end.                                               *)
THEOREM RunnersGoForward ==
  Spec => [][\A r \in Runners : StandsStill(r) \/ GetsOn(r)]_vars
<1>1. ASSUME IInv, NEW r \in Runners, Acts(r) PROVE GetsOn(r)
  <2> USE <1>1 DEF IInv, TypeOK, GoTo, Goes, EndTransaction, locals, RollingBack, Ended
  <2>1. CASE \E n \in 0 .. Count : Start(r, n)
    BY <2>1 DEF Start, GetsOn, Stage
  <2>2. CASE Read(r)
    <3>1. pc[r] = "read" /\ current[r] = 0
      BY <2>2 DEF Read, RunnersSound, RunnerSound
    <3>2. GoOn(r, recorded, current[r]) /\ Stage(pc[r]) < 9
      BY <2>2, <3>1 DEF Read, Stage
    <3> QED
      BY <3>2, LoopGetsOn
  <2>3. CASE NextMigration(r)
    <3>1. GoOn(r, done[r], current[r]) /\ Stage(pc[r]) < 9
      BY <2>3 DEF NextMigration, Stage
    <3> QED
      BY <3>1, LoopGetsOn
  <2>4. CASE Commit(r)
    BY <2>4 DEF Commit, GetsOn, Stage
  <2>5. CASE Moves(r)
    <3>1. current' = current
      BY <2>5 DEF Moves
    <3>2. CASE FindTable(r) \/ CreateTable(r) \/ Begin(r) \/ Record(r) \/ RollBack(r)
      BY <3>1, <3>2
      DEF FindTable, CreateTable, Begin, Record, RollBack, GetsOn, Stage
    <3>3. CASE RunStatement(r)
      <4>1. CASE GoTo(r, "clash")
        BY <3>1, <3>3, <4>1 DEF RunStatement, GetsOn, Stage
      <4>2. CASE GoTo(r, "apply") /\ ran' = [ran EXCEPT ![r] = @ + 1]
        <5>1. ran[r] \in Nat /\ ran[r] < Statements[current[r]] /\ current[r] \in 1 .. Count
          BY <3>3, StatementsAssumption
          DEF RunStatement, RunnersSound, RunnerSound, AtMigration, InTransaction
        <5>2. Statements[current[r]] \in Nat
          BY <5>1, StatementsAssumption
        <5> QED
          BY <3>1, <3>3, <4>2, <5>1, <5>2 DEF RunStatement, GetsOn
      <4> QED
        BY <3>3, <4>1, <4>2 DEF RunStatement
    <3>4. CASE Fail(r)
      BY <3>1, <3>4 DEF Fail, GetsOn, Stage, InTransaction
    <3>5. CASE Crash(r)
      BY <3>1, <3>5
      DEF Crash, UnderWay, GetsOn, Stage, Points, InTransaction
    <3> QED
      BY <2>5, <3>2, <3>3, <3>4, <3>5 DEF Moves
  <2> QED
    BY <2>1, <2>2, <2>3, <2>4, <2>5 DEF Acts
<1>2. IInv /\ [Next]_vars => [\A r \in Runners : StandsStill(r) \/ GetsOn(r)]_vars
  <2>1. ASSUME IInv, NEW q \in Runners, Acts(q), NEW r \in Runners
        PROVE  StandsStill(r) \/ GetsOn(r)
    BY <1>1, <2>1, Alone DEF StandsStill
  <2> QED
    BY <2>1, Steps
<1> QED
  BY <1>2, Invariant, PTL DEF Spec

(* While the open transaction of a runner has run a statement of its       *)
(* migration nobody else applies that migration, or any statement of it:   *)
(* what it read at its start is out of date by then, its COMMIT checks     *)
(* nothing, and only the catalogue keeps the others out                    *)
(* (apply-migrations.ts).                                                  *)
THEOREM OpenWorkIsAlone ==
  Spec => [][\A r \in Runners : ran[r] # 0 =>
               \/ Commit(r)
               \/ current[r] \notin recorded' /\ schema' \cap Effects(current[r]) = {}]_vars
<1>1. IInv /\ IInv' /\ [Next]_vars =>
        [\A r \in Runners : ran[r] # 0 =>
           \/ Commit(r)
           \/ current[r] \notin recorded' /\ schema' \cap Effects(current[r]) = {}]_vars
  <2> SUFFICES ASSUME IInv, IInv', [Next]_vars, NEW r \in Runners, ran[r] # 0, ~Commit(r)
               PROVE  current[r] \notin recorded' /\ schema' \cap Effects(current[r]) = {}
    OBVIOUS
  <2>1. current[r] \notin recorded
    BY DEF IInv, RunnersSound, RunnerSound
  <2>2. ASSUME NEW q \in Runners, Commit(q) PROVE current[r] \notin recorded'
    <3>1. q # r /\ recorded' = recorded \cup {current[q]}
      BY <2>2 DEF Commit
    <3>2. current[q] \in 1 .. Count /\ ran[q] = Statements[current[q]]
      BY <2>2, CommitsNext DEF Commit, IInv, RunnersSound, RunnerSound, Migrations
    <3>3. ran[q] # 0
      BY <3>2, StatementsAssumption
    <3> QED
      BY <2>1, <3>1, <3>3 DEF IInv, WritersApart
  <2>3. ASSUME NEW q \in Runners, Acts(q), ~Commit(q) PROVE recorded' = recorded
    BY <2>3 DEF Acts, Start, Read, NextMigration, Moves, database
  <2>4. current[r] \notin recorded'
    BY <2>1, <2>2, <2>3, Steps DEF vars, database
  <2>5. schema' = EffectsOf(recorded')
    BY DEF IInv, DatabaseSound
  <2> QED
    BY <2>4, <2>5 DEF EffectsOf, Effects
<1> QED
  BY <1>1, Invariant, PTL DEF Spec

(* Any number of runners, failing anywhere, apply migrations as            *)
(* MigrationLog does: a Commit is its Apply, and no other step shows.      *)
THEOREM Refinement == Spec => ImplementsLog
<1>1. Init => Log!Init
  BY DEF Init, Log!Init, EffectsOf, Effects, Log!Effects
<1>2. ASSUME IInv, [Next]_vars PROVE [Log!Next]_<<recorded, schema>>
  <2>1. ASSUME NEW r \in Runners, Commit(r)
        PROVE  Log!Apply(current[r]) /\ current[r] \in Log!Migrations
    BY <1>2, <2>1, CommitsNext
    DEF Commit, Log!Apply, Log!Effects, Effects, Log!Migrations, Migrations
  <2>2. ASSUME NEW r \in Runners, Acts(r), ~Commit(r) PROVE UNCHANGED <<recorded, schema>>
    BY <2>2 DEF Acts, Start, Read, NextMigration, Moves, database
  <2> QED
    BY <1>2, <2>1, <2>2, Steps DEF Log!Next, vars, database
<1> QED
  BY <1>1, <1>2, Invariant, PTL DEF Spec, ImplementsLog, Log!Spec
=============================================================================
