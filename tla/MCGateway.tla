------------------------------ MODULE MCGateway ------------------------------
(* Gateway on a small instance: two spellings of one handle.               *)
EXTENDS Gateway, TLC

CONSTANTS sam, Sam
MCFold == [s \in Spellings |-> sam]

Symmetry == Permutations(Requests) \cup Permutations(Ids)
=============================================================================
