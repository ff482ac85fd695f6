------------------------------ MODULE Migrations ------------------------------
(***************************************************************************)
(* applyMigrations, statement by statement, by several runners at once:    *)
(* the one-shot container of a deployment, a second deployment, a person   *)
(* at a terminal, or another attempt after a failure.                      *)
(*                                                                         *)
(* DDL is transactional in Postgres, so the schema here is the committed   *)
(* one.  A migration file is its place in the sorted directory.            *)
(***************************************************************************)
EXTENDS Integers, FiniteSets

CONSTANTS
  Runners,       \* runs of migrate.js
  Count,         \* migration files that exist, the newest included
  Statements     \* how many statements each of them has

ASSUME StatementsAssumption ==
  Count \in Nat /\ Statements \in [1 .. Count -> Nat \ {0}]

VARIABLES
  (* one value per runner *)
  pc,            \* where it is
  knows,         \* how many migrations its image holds
  done,          \* the ids it read from schema_migrations
  current,       \* the migration it is at
  ran,           \* statements of it that its open transaction has run, if any
  applied,       \* what applyMigrations will answer
  (* the database *)
  table,         \* schema_migrations exists
  recorded,      \* its ids
  schema         \* statements that have taken effect

locals == <<knows, done, current, ran, applied>>
database == <<table, recorded, schema>>
vars == <<pc, locals, database>>

Migrations == 1 .. Count
Effects(m) == {m} \X (1 .. Statements[m])
EffectsOf(ms) == UNION {Effects(m) : m \in ms}

-----------------------------------------------------------------------------
InTransaction == {"apply", "commit"}
RollingBack == {"clash", "undo"}

(* clashed: the error was that another runner had got there.  crashed: the *)
(* process ended on its way.                                               *)
Ended == {"done", "clashed", "failed", "crashed"}

Points ==
  {"idle", "find", "create", "read", "begin", "committed"}
    \cup InTransaction \cup RollingBack \cup Ended

GoTo(r, point) == pc' = [pc EXCEPT ![r] = point]

(* A step that moves its runner on and changes nothing else.               *)
Goes(r, from, to) == pc[r] = from /\ GoTo(r, to) /\ UNCHANGED <<locals, database>>

(* Postgres ends the transaction of r, and undoes what it has not seen     *)
(* committed.                                                              *)
EndTransaction(r) == ran' = [ran EXCEPT ![r] = 0]

(* The catalogue entries an open transaction has made.                     *)
Writes(r, e) == e \in {current[r]} \X (1 .. ran[r])

(* The next statement of r touches nothing that another open transaction   *)
(* has made.                                                               *)
StatementFree(r) == \A q \in Runners \ {r} : ~Writes(q, <<current[r], ran[r] + 1>>)

UnderWay(r) == pc[r] \notin {"idle"} \cup Ended

Init ==
  /\ pc = [r \in Runners |-> "idle"]
  /\ knows = [r \in Runners |-> 0]
  /\ done = [r \in Runners |-> {}]
  /\ current = [r \in Runners |-> 0]
  /\ ran = [r \in Runners |-> 0]
  /\ applied = [r \in Runners |-> {}]
  /\ \E n \in 0 .. Count :
       /\ recorded = 1 .. n
       /\ schema = EffectsOf(1 .. n)
       /\ table \in {n > 0, TRUE}

-----------------------------------------------------------------------------
(* An image is built with the migrations there are, the oldest first.      *)
Start(r, n) ==
  /\ pc[r] = "idle"
  /\ GoTo(r, "find")
  /\ knows' = [knows EXCEPT ![r] = n]
  /\ UNCHANGED <<done, current, ran, applied, database>>

(* CREATE TABLE IF NOT EXISTS looks before it creates, and another runner  *)
(* may create the table in between: then the catalogue refuses a second.   *)
FindTable(r) == Goes(r, "find", IF table THEN "read" ELSE "create")

CreateTable(r) ==
  /\ pc[r] = "create"
  /\ GoTo(r, IF table THEN "clashed" ELSE "read")
  /\ table' = TRUE
  /\ UNCHANGED <<locals, recorded, schema>>

(* Fault: the loop runs one past the end of the list.                      *)
PendingPastTheEnd(r, ids, m) == (m + 1 .. knows[r] + 1) \ ids

(* The loop goes on to the first migration past m that is not in ids.      *)
Pending(r, ids, m) == (m + 1 .. knows[r]) \ ids

GoOn(r, ids, m) ==
  \/ /\ Pending(r, ids, m) = {}
     /\ GoTo(r, "done")
     /\ UNCHANGED current
  \/ \E k \in Pending(r, ids, m) :
       /\ \A j \in Pending(r, ids, m) : k <= j
       /\ GoTo(r, "begin")
       /\ current' = [current EXCEPT ![r] = k]

(* Fault: what is recorded already is not skipped.                         *)
ReadNothing(r) ==
  /\ pc[r] = "read"
  /\ done' = [done EXCEPT ![r] = recorded]
  /\ GoOn(r, {}, 0)
  /\ UNCHANGED <<knows, ran, applied, database>>

Read(r) ==
  /\ pc[r] = "read"
  /\ done' = [done EXCEPT ![r] = recorded]
  /\ GoOn(r, recorded, 0)
  /\ UNCHANGED <<knows, ran, applied, database>>

Begin(r) == Goes(r, "begin", "apply")

(* Fault: the statements are not wrapped in a transaction.                 *)
RunStatementCommitted(r) ==
  LET e == <<current[r], ran[r] + 1>>
  IN  /\ pc[r] = "apply"
      /\ ran[r] < Statements[current[r]]
      /\ GoTo(r, "apply")
      /\ ran' = [ran EXCEPT ![r] = @ + 1]
      /\ schema' = schema \cup {e}
      /\ UNCHANGED <<knows, done, current, applied, table, recorded>>

(* A statement waits for the end of a transaction that has run it, and     *)
(* fails if it has taken effect before.                                    *)
RunStatement(r) ==
  LET e == <<current[r], ran[r] + 1>>
  IN  /\ pc[r] = "apply"
      /\ ran[r] < Statements[current[r]]
      /\ StatementFree(r)
      /\ \/ e \in schema /\ GoTo(r, "clash") /\ EndTransaction(r)
         \/ e \notin schema /\ GoTo(r, "apply") /\ ran' = [ran EXCEPT ![r] = @ + 1]
      /\ UNCHANGED <<knows, done, current, applied, database>>

(* INSERT INTO schema_migrations.                                          *)
Record(r) == Goes(r, "apply", "commit") /\ ran[r] = Statements[current[r]]

(* Fault: COMMIT is not awaited, and the process exits before it.          *)
CommitUnawaited(r) ==
  /\ pc[r] = "commit"
  /\ GoTo(r, "committed")
  /\ EndTransaction(r)
  /\ UNCHANGED <<knows, done, current, applied, database>>

Commit(r) ==
  /\ pc[r] = "commit"
  /\ GoTo(r, "committed")
  /\ EndTransaction(r)
  /\ recorded' = recorded \cup {current[r]}
  /\ schema' = schema \cup Effects(current[r])
  /\ UNCHANGED <<knows, done, current, applied, table>>

(* Fault: what was pending at the start is what is answered.               *)
NextMigrationOfAll(r) ==
  /\ pc[r] = "committed"
  /\ applied' = [applied EXCEPT ![r] = (1 .. knows[r]) \ done[r]]
  /\ GoOn(r, done[r], current[r])
  /\ UNCHANGED <<knows, done, ran, database>>

NextMigration(r) ==
  /\ pc[r] = "committed"
  /\ applied' = [applied EXCEPT ![r] = @ \cup {current[r]}]
  /\ GoOn(r, done[r], current[r])
  /\ UNCHANGED <<knows, done, ran, database>>

-----------------------------------------------------------------------------
(* Fault: a migration that fails is not rolled back, and its transaction   *)
(* stays open.                                                             *)
FailWithoutRollback(r) == UnderWay(r) /\ Goes(r, pc[r], "failed")

(* A statement fails, or its connection breaks.  At committed it is the    *)
(* acknowledgement that is lost.  Inside the inner try ROLLBACK follows,   *)
(* and when that fails too its error is the one thrown.                    *)
Fail(r) ==
  /\ \/ pc[r] \in {"find", "create", "read", "begin"} \cup RollingBack /\ GoTo(r, "failed")
     \/ pc[r] \in {"committed"} \cup InTransaction /\ GoTo(r, "undo")
  /\ EndTransaction(r)
  /\ UNCHANGED <<knows, done, current, applied, database>>

(* ROLLBACK; the error that led to it is thrown on.                        *)
RollBack(r) == Goes(r, "clash", "clashed") \/ Goes(r, "undo", "failed")

Crash(r) ==
  /\ UnderWay(r)
  /\ GoTo(r, "crashed")
  /\ EndTransaction(r)
  /\ UNCHANGED <<knows, done, current, applied, database>>

Finished ==
  /\ \A r \in Runners : pc[r] \in Ended
  /\ UNCHANGED vars

Step(r) ==
  \/ FindTable(r) \/ CreateTable(r) \/ Read(r)
  \/ Begin(r) \/ RunStatement(r) \/ Record(r) \/ Commit(r) \/ NextMigration(r)
  \/ RollBack(r)

Next ==
  \/ \E r \in Runners :
       (\E n \in 0 .. Count : Start(r, n)) \/ Step(r) \/ Fail(r) \/ Crash(r)
  \/ Finished

Spec == Init /\ [][Next]_vars

(* Every runner goes on by itself: node runs a callback that is ready, and *)
(* Postgres answers a statement that waits for nobody.                     *)
FairSpec == Spec /\ \A r \in Runners : WF_vars(Step(r))

-----------------------------------------------------------------------------
(* Every variable holds a value of its column or local.                    *)
TypeOK ==
  /\ pc \in [Runners -> Points]
  /\ knows \in [Runners -> 0 .. Count]
  /\ done \in [Runners -> SUBSET Migrations]
  /\ current \in [Runners -> 0 .. Count]
  /\ ran \in [Runners -> Nat]
  /\ applied \in [Runners -> SUBSET Migrations]
  /\ table \in BOOLEAN
  /\ recorded \subseteq Migrations
  /\ schema \subseteq EffectsOf(Migrations)

(* The service is started when its runner has succeeded: every migration   *)
(* its image holds is then applied, whoever applied it.                    *)
SuccessMeansUpToDate ==
  \A r \in Runners : pc[r] = "done" => 1 .. knows[r] \subseteq recorded

(* What a runner reports it has applied is applied, and was applied by it  *)
(* alone.                                                                  *)
ReportsAreTrue ==
  \A r \in Runners :
    /\ applied[r] \subseteq recorded \ done[r]
    /\ \A q \in Runners \ {r} : applied[r] \cap applied[q] = {}

(* Where nothing breaks, the only way for a runner to fail is that another *)
(* one did the same work after it looked.                                  *)
OnlyRacesClash ==
  \A r \in Runners :
    pc[r] \in {"clash", "clashed"} =>
      \/ current[r] = 0 /\ table
      \/ current[r] \in recorded \ done[r]

(* The one thing a runner may wait for is the end of another's transaction.*)
Waits(r) ==
  pc[r] = "apply" /\ ran[r] < Statements[current[r]] /\ ~StatementFree(r)

(* While a runner is under way some runner waits for nobody: no two wait   *)
(* for each other's migrations, and none leaves a transaction behind.      *)
SomeRunnerCanProceed ==
  (\E r \in Runners : UnderWay(r)) =>
    \E r \in Runners : UnderWay(r) /\ ~Waits(r)

(* No runner waits for ever, for another or for itself.                    *)
EveryRunnerEnds == \A r \in Runners : pc[r] = "find" ~> pc[r] \in Ended

(* The runners, together, apply migrations one at a time, in order, each   *)
(* with all of its statements or not at all.                               *)
Log == INSTANCE MigrationLog
ImplementsLog == Log!Spec
=============================================================================
