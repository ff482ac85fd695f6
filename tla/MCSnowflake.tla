---------------------------- MODULE MCSnowflake ----------------------------
(* Snowflake on a small instance: two slots a millisecond, so that three   *)
(* ids already exhaust one, and neighbouring node ids, so that a sequence  *)
(* that ran over would run into the other instance's ids.                  *)
EXTENDS Snowflake
=============================================================================
