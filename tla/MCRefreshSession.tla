-------------------------- MODULE MCRefreshSession --------------------------
(* RefreshSession on a small instance.  Requests, session ids and tokens   *)
(* are interchangeable, so the safety runs use their symmetry.             *)
EXTENDS RefreshSession, TLC

Symmetry ==
  Permutations(Requests) \cup Permutations(Sessions) \cup Permutations(Tokens)
=============================================================================
