---------------------------- MODULE HonestClient ----------------------------
(***************************************************************************)
(* RefreshSession driven by one client that follows the contract: it makes *)
(* no call before the last one was answered, keeps only the newest token   *)
(* it received, logs in again after a 401 and tries again after any other  *)
(* failure.                                                                *)
(*                                                                         *)
(* The answers are the gateway's, which gives a call up after five seconds *)
(* whatever identity still does with it.  So the retry may overlap the     *)
(* call it repeats, and may even reach identity first.                     *)
(***************************************************************************)
EXTENDS RefreshSession

CONSTANT NoRequest
ASSUME NoRequestAssumption == NoRequest \notin Requests

VARIABLES
  last,     \* the call the client waits for, or the last one answered
  mine,     \* the refresh token it keeps
  sent,     \* calls on their way to identity, NoToken with a login
  givenUp   \* calls the gateway answered itself, with a 503 or a 504

clientVars == <<vars, last, mine, sent, givenUp>>

(* After a 5xx of the gateway the client waits for nothing.                *)
LastCall == IF last = NoRequest THEN "granted" ELSE pc[last]
Idle == LastCall \in Ended
SignedOut == mine = NoToken \/ LastCall = "rejected"

OnItsWay(r) == \E m \in sent : m.call = r

ClientInit == Init /\ last = NoRequest /\ mine = NoToken /\ sent = {} /\ givenUp = {}

Send(r, t) ==
  /\ pc[r] = "idle" /\ ~OnItsWay(r)
  /\ sent' = sent \cup {[call |-> r, token |-> t]}
  /\ last' = r
  /\ UNCHANGED <<vars, givenUp>>

LogIn(r) == Idle /\ SignedOut /\ Send(r, NoToken) /\ mine' = NoToken

(* Also the retry: after any failure but a 401 the kept token is the one   *)
(* that call presented.                                                    *)
CallRefresh(r) == Idle /\ ~SignedOut /\ Send(r, mine) /\ UNCHANGED mine

(* The gateway's calls overtake each other, and reach identity though they *)
(* were given up.                                                          *)
Arrive(m) ==
  /\ m \in sent /\ sent' = sent \ {m}
  /\ IF m.token = NoToken THEN CallLogin(m.call) ELSE Present(m.call, m.token)
  /\ UNCHANGED <<last, mine, givenUp>>

(* The deadline passes, or the channel breaks.                             *)
GiveUp ==
  /\ ~Idle
  /\ givenUp' = givenUp \cup {last}
  /\ last' = NoRequest
  /\ UNCHANGED <<vars, mine, sent>>

(* Nobody is there any more to take the answer to a call given up.         *)
Serve(r) ==
  /\ Step(r) \/ Fail(r)
  /\ r # last => held' = held
  /\ mine' = IF held' # held THEN next[r] ELSE mine
  /\ UNCHANGED <<last, sent, givenUp>>

Around == (Crash \/ Tick \/ Finished) /\ UNCHANGED <<last, mine, sent, givenUp>>

ClientNext ==
  \/ \E r \in Requests : LogIn(r) \/ CallRefresh(r) \/ Serve(r)
  \/ \E m \in sent : Arrive(m)
  \/ GiveUp
  \/ Around

ClientSpec == ClientInit /\ [][ClientNext]_clientVars

-----------------------------------------------------------------------------
(* "Nobody honest presents A after it was exchanged": the premise of reuse *)
(* detection, for a client that keeps to the contract.                     *)
NobodyHonestPresentsASpentToken ==
  \A r \in Requests :
    (pc[r] = "find" /\ tok[r] \in Stored) => spentAt[tok[r]] = Null

(* The client never got identity's answer to this call, and never will.    *)
Unheard(r) == r \in givenUp \/ pc[r] \in {"lost", "failed", "crashed"}

(* A client that keeps to the contract is signed out only by a retry: two  *)
(* of its calls presented one token, one of the two exchanged it, and one  *)
(* of the two is a call whose answer it never got.                         *)
SignedOutOnlyAfterAnUnheardCall ==
  \A s \in Sessions :
    revokedAt[s] # Null =>
      \E q, r \in Requests :
        /\ q # r /\ tok[q] = tok[r] /\ tok[q] # NoToken
        /\ next[q] \in Stored /\ owner[next[q]] = s
        /\ Unheard(q) \/ Unheard(r)
=============================================================================
