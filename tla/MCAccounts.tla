----------------------------- MODULE MCAccounts -----------------------------
(* Accounts on a small instance: two spellings of one handle, another      *)
(* handle, and texts that are as long as they may be, a character longer,  *)
(* or have something to take off, to fold or to refuse.                    *)
EXTENDS AccountTexts

MCTypedHandles ==
  {<<"a", "1">>, <<"A", "1">>, <<"b", "_", "1">>, <<"b", "_", "1", "1">>, <<"b", "SP", "1">>}
MCTypedNames ==
  { <<"SP", "bird", "SP", "alef", "BOM">>, <<"bird", "bird", "bird", "bird">>,
    <<"alef", "ZWSP">>, <<"b", "BOM", "b">>, <<"b", "NUL">>, <<"SP", "LF">>, <<>> }
MCTypedBios ==
  { <<"SP", "LF">>, <<"alef", "CR", "LF", "b", "CR", "LF">>,
    <<"alef", "CR", "CR", "LF", "b">>, <<"b", "LF", "b", "b">> }
MCFold ==
  [s \in AcceptedHandles |-> [i \in DOMAIN s |-> IF s[i] = "A" THEN "a" ELSE s[i]]]
MCEmptyBio == <<>>
MCHandles == {MCFold[s] : s \in AcceptedHandles}

(* Calls are interchangeable, and so are ids, but symmetry is not sound    *)
(* for liveness: they are used in an order instead.                        *)
CONSTANTS r1, r2, r3, u1, u2
Begun == {r \in Requests : pc[r] # "idle"} \cup minted
InOrder ==
  \A pair \in {<<r1, r2>>, <<r2, r3>>, <<u1, u2>>} : pair[2] \in Begun => pair[1] \in Begun

(* FairSpec in that order: a call that takes a step is under way.          *)
MCSpec ==
  /\ Init /\ [][Next /\ InOrder']_vars
  /\ \A r \in Requests : WF_vars(UnderWay(r) /\ Step(r))
=============================================================================
