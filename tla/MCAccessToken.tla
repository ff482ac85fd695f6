--------------------------- MODULE MCAccessToken ---------------------------
(* AccessToken on a small instance.  Calls and ids of one kind are         *)
(* interchangeable, but symmetry is not sound for liveness: they are used  *)
(* in the order of their numbers instead.                                  *)
EXTENDS AccessToken

Arrived == {r \in Requests : pc[r] # "idle"}
InOrder ==
  /\ \A q, r \in Requests : q < r /\ r \in Arrived => q \in Arrived
  /\ \A Ids \in {Sessions, Tokens} : \A m, n \in Ids :
       m < n /\ n \in minted => m \in minted

(* FairAccessSpec in that order: a call that takes a step is under way.    *)
MCSpec ==
  /\ AccessInit /\ [][AccessNext /\ InOrder']_accessVars
  /\ \A r \in Requests : WF_vars(UnderWay(r) /\ Step(r))
=============================================================================
