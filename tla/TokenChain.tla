----------------------------- MODULE TokenChain -----------------------------
(***************************************************************************)
(* What login and refresh promise, without the statements and locks that   *)
(* bring it about: a session is a chain of single-use tokens that grows    *)
(* only at its unspent end and stops growing for good once it is revoked.  *)
(***************************************************************************)
CONSTANTS Sessions, Tokens, NoSession

VARIABLES
  chain,    \* the session each token belongs to, NoSession for one not stored
  spent,    \* tokens that have been exchanged
  revoked   \* sessions that have been revoked

vars == <<chain, spent, revoked>>

Members(s) == {t \in Tokens : chain[t] = s}

Init ==
  /\ chain = [t \in Tokens |-> NoSession]
  /\ spent = {}
  /\ revoked = {}

(* A login: a session comes into being with its first token.               *)
Open(s, t) ==
  /\ Members(s) = {}
  /\ chain[t] = NoSession
  /\ chain' = [chain EXCEPT ![t] = s]
  /\ UNCHANGED <<spent, revoked>>

(* An exchange: t is unspent, its session is live, and u takes its place.  *)
Exchange(t, u) ==
  /\ chain[t] # NoSession /\ t \notin spent /\ chain[t] \notin revoked
  /\ chain[u] = NoSession
  /\ chain' = [chain EXCEPT ![u] = chain[t]]
  /\ spent' = spent \cup {t}
  /\ UNCHANGED revoked

(* A replay was detected.                                                  *)
Revoke(s) ==
  /\ Members(s) # {}
  /\ s \notin revoked
  /\ revoked' = revoked \cup {s}
  /\ UNCHANGED <<chain, spent>>

Next ==
  \/ \E s \in Sessions, t \in Tokens : Open(s, t)
  \/ \E t, u \in Tokens : Exchange(t, u)
  \/ \E s \in Sessions : Revoke(s)

Spec == Init /\ [][Next]_vars
=============================================================================
