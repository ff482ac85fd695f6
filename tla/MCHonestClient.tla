--------------------------- MODULE MCHonestClient ---------------------------
(* HonestClient on a small instance.  Calls are interchangeable, and so    *)
(* are ids of one kind, which are used in the order of their numbers.      *)
EXTENDS HonestClient, TLC

InOrder == \A Ids \in {Sessions, Tokens} : \A m, n \in Ids :
  m < n /\ n \in minted => m \in minted

MCSpec == ClientInit /\ [][ClientNext /\ InOrder']_clientVars

Symmetry == Permutations(Requests)
=============================================================================
