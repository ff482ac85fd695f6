---------------------------- MODULE MCMigrations ----------------------------
(* Migrations on a small instance: two files, the second with a            *)
(* single statement.                                                       *)
EXTENDS Migrations, Sequences

MCStatements == <<2, 1>>
=============================================================================
