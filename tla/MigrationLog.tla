----------------------------- MODULE MigrationLog -----------------------------
(***************************************************************************)
(* What the migration runner promises: migrations are applied one at a     *)
(* time, in their order, each with all of its statements and its record.   *)
(***************************************************************************)
EXTENDS Integers

CONSTANTS Count, Statements

VARIABLES
  recorded,      \* ids in schema_migrations
  schema         \* statements that have taken effect

Migrations == 1 .. Count
Effects(m) == {m} \X (1 .. Statements[m])

Init ==
  \E n \in 0 .. Count :
    /\ recorded = 1 .. n
    /\ schema = UNION {Effects(m) : m \in 1 .. n}

Apply(m) ==
  /\ recorded = 1 .. m - 1
  /\ recorded' = 1 .. m
  /\ schema' = schema \cup Effects(m)

Next == \E m \in Migrations : Apply(m)

Spec == Init /\ [][Next]_<<recorded, schema>>
=============================================================================
