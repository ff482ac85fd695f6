------------------------------- MODULE Gateway -------------------------------
(***************************************************************************)
(* The gateway in front of Accounts: an HTTP request is refused at once or *)
(* becomes one gRPC call with a deadline, and what the call ends with      *)
(* becomes a response by two tables, toRpcException at identity and        *)
(* HTTP_STATUS here.  A call that nobody waits for any more goes on.       *)
(*                                                                         *)
(* Logins and refreshes are answered here without their tables, which are  *)
(* in RefreshSession.                                                      *)
(***************************************************************************)
EXTENDS Accounts

CONSTANT Routes      \* the routes that clients use

ASSUME RoutesAssumption ==
  /\ Routes \subseteq {"register", "login", "refresh", "profile", "update"}
  /\ Nobody \notin Routes

VARIABLES
  route,      \* the route of the request
  open,       \* requests whose client is waiting
  call,       \* where the request's gRPC call is
  asked,      \* the account an update is for, the handle a profile is read by
  seen,       \* the row findByHandle read
  answer,     \* the response
  before      \* history: requests that had succeeded when this one was made

gatewayVars == <<route, open, call, asked, seen, answer, before>>
allVars == <<vars, gatewayVars>>

(* received: by identity.  read: GetProfile has its row.                   *)
Calls == {"none", "sent", "received", "read"}

-----------------------------------------------------------------------------
(* A response: its status, and which members its problem body has besides  *)
(* type, title and status.                                                 *)
Response(status, members) == [status |-> status, members |-> members]

Members == {"detail", "field"}

NoAnswer == Response(0, {})

Success ==
  [register |-> 201, login |-> 200, refresh |-> 200, profile |-> 200, update |-> 200]

(* What the gateway refuses by itself: a body it cannot parse or that has  *)
(* another shape than the route's, and an update without a valid token.    *)
Unparsed == {Response(status, {"detail"}) : status \in {400, 413, 415}}

Misshapen(rt) ==
  IF rt \in {"register", "refresh", "update"}
    THEN {Response(400, {"detail"}), Response(400, Members)}
    ELSE IF rt = "login" THEN {Response(400, {"detail"})} ELSE {}

Unauthorized(rt) == IF rt = "update" THEN {Response(401, {})} ELSE {}

Refusals(rt) == Unparsed \cup Misshapen(rt) \cup Unauthorized(rt)

(* toRpcException.                                                         *)
Code ==
  [DomainValidationError |-> "INVALID_ARGUMENT",
   EmptyProfileUpdateError |-> "INVALID_ARGUMENT",
   InvalidCredentialsError |-> "UNAUTHENTICATED",
   InvalidRefreshTokenError |-> "UNAUTHENTICATED",
   ProfileNotFoundError |-> "NOT_FOUND",
   HandleTakenError |-> "ALREADY_EXISTS",
   Error |-> "INTERNAL"]

RpcException(error) ==
  [code |-> Code[error],
   members |-> IF error \in {"DomainValidationError", "HandleTakenError"}
                 THEN Members ELSE {"detail"}]

(* Fault: a code that is not in the table has no status.                   *)
HTTP_STATUS ==
  [INVALID_ARGUMENT |-> 400, UNAUTHENTICATED |-> 401, PERMISSION_DENIED |-> 403,
   NOT_FOUND |-> 404, ALREADY_EXISTS |-> 409, RESOURCE_EXHAUSTED |-> 429,
   UNAVAILABLE |-> 503, DEADLINE_EXCEEDED |-> 504]

StatusWithoutFallback(code) == IF code \in DOMAIN HTTP_STATUS THEN HTTP_STATUS[code] ELSE 0

(* Fault: an expired deadline is the client's timeout.                     *)
StatusOfClientTimeout(code) ==
  CASE code = "DEADLINE_EXCEEDED" -> 408
    [] code \in DOMAIN HTTP_STATUS \ {"DEADLINE_EXCEEDED"} -> HTTP_STATUS[code]
    [] OTHER -> 500

Status(code) == IF code \in DOMAIN HTTP_STATUS THEN HTTP_STATUS[code] ELSE 500

(* Fault: what a failure says is passed on whoever it was written for.     *)
ProblemDetailsInFull(failure) == Response(Status(failure.code), failure.members)

ProblemDetails(failure) ==
  LET status == Status(failure.code)
  IN  Response(status, IF status >= 500 THEN {} ELSE failure.members)

-----------------------------------------------------------------------------
(* How identity's part of a request has ended, once it has.                *)

Succeeded(r) ==
  \/ pc[r] \in {"registered", "updated"}
  \/ call[r] = "received" /\ route[r] \in {"login", "refresh"}
  \/ call[r] = "read" /\ seen[r].id # Nobody

Thrown(r, error) ==
  \/ error = "DomainValidationError" /\ pc[r] = "rejected"
  \/ error = "EmptyProfileUpdateError" /\ pc[r] = "rejected" /\ route[r] = "update"
  \/ error = "HandleTakenError" /\ pc[r] = "taken"
  \/ error = "Error" /\ pc[r] = "failed"
  \/ /\ call[r] = "received"
     /\ \/ error = "InvalidCredentialsError" /\ route[r] = "login"
        \/ error = "InvalidRefreshTokenError" /\ route[r] = "refresh"
        \/ error = "DomainValidationError" /\ route[r] = "profile" /\ asked[r] = Nobody
        \/ error = "Error" /\ route[r] \in {"login", "refresh", "profile"}
  \/ error = "ProfileNotFoundError" /\ call[r] = "read" /\ seen[r].id = Nobody

Respond(r, response) ==
  /\ r \in open
  /\ open' = open \ {r}
  /\ answer' = [answer EXCEPT ![r] = response]

NoRow == [id |-> Nobody, displayName |-> Nobody, bio |-> Nobody]

GatewayInit ==
  /\ Init
  /\ route = [r \in Requests |-> Nobody]
  /\ open = {}
  /\ call = [r \in Requests |-> "none"]
  /\ asked = [r \in Requests |-> Nobody]
  /\ seen = [r \in Requests |-> NoRow]
  /\ answer = [r \in Requests |-> NoAnswer]
  /\ before = [r \in Requests |-> {}]

-----------------------------------------------------------------------------
Refuse(r, rt) ==
  /\ route[r] = Nobody
  /\ route' = [route EXCEPT ![r] = rt]
  /\ \E response \in Refusals(rt) : answer' = [answer EXCEPT ![r] = response]
  /\ UNCHANGED <<vars, open, call, asked, seen, before>>

(* An update is for the account of the access token, which exists.  The    *)
(* handle of a profile may be malformed: Nobody.                           *)
Subjects(rt) ==
  CASE rt = "update" -> Accounts
    [] rt = "profile" -> Spellings \cup {Nobody}
    [] OTHER -> {Nobody}

Forward(r, rt) ==
  /\ route[r] = Nobody
  /\ route' = [route EXCEPT ![r] = rt]
  /\ open' = open \cup {r}
  /\ call' = [call EXCEPT ![r] = "sent"]
  /\ \E a \in Subjects(rt) : asked' = [asked EXCEPT ![r] = a]
  /\ before' = [before EXCEPT ![r] = {q \in Requests : answer[q].status \in {200, 201}}]
  /\ UNCHANGED <<vars, seen, answer>>

(* Identity receives the call, whether or not the gateway still waits.     *)
Arrive(r) ==
  /\ call[r] = "sent"
  /\ call' = [call EXCEPT ![r] = "received"]
  /\ CASE route[r] = "register" -> RejectInput(r) \/ \E s \in Spellings : CallRegister(r, s)
       [] route[r] = "update" -> RejectInput(r) \/ \E p \in Patches : CallUpdate(r, asked[r], p)
       [] OTHER -> UNCHANGED vars
  /\ UNCHANGED <<route, open, asked, seen, answer, before>>

(* Fault: handles are compared as they are spelled.                        *)
ReadProfileAsSpelled(r) ==
  /\ call[r] = "received" /\ route[r] = "profile" /\ asked[r] # Nobody
  /\ ConnectionFree
  /\ call' = [call EXCEPT ![r] = "read"]
  /\ \/ (\A i \in Ids : handle[i] # asked[r]) /\ UNCHANGED seen
     \/ \E i \in Ids :
          /\ handle[i] = asked[r]
          /\ seen' = [seen EXCEPT ![r] =
               [id |-> i, displayName |-> displayName[i], bio |-> bio[i]]]
  /\ UNCHANGED <<vars, route, open, asked, answer, before>>

(* GetProfile: one SELECT.                                                 *)
ReadProfile(r) ==
  /\ call[r] = "received" /\ route[r] = "profile" /\ asked[r] # Nobody
  /\ ConnectionFree
  /\ call' = [call EXCEPT ![r] = "read"]
  /\ \/ (\A i \in Ids : ~Answers(i, asked[r])) /\ UNCHANGED seen
     \/ \E i \in Ids :
          /\ Answers(i, asked[r])
          /\ seen' = [seen EXCEPT ![r] =
               [id |-> i, displayName |-> displayName[i], bio |-> bio[i]]]
  /\ UNCHANGED <<vars, route, open, asked, answer, before>>

(* The rest of Accounts.  A crash loses the other calls too, which can be  *)
(* taken for calls that have not arrived.                                  *)
Identity ==
  /\ (\E r \in Requests : Step(r) \/ Fail(r)) \/ Crash
  /\ UNCHANGED gatewayVars

(* Identity's answer reaches a gateway that still waits for it.            *)
Reply(r) ==
  /\ \/ Succeeded(r) /\ Respond(r, Response(Success[route[r]], {}))
     \/ \E error \in DOMAIN Code :
          Thrown(r, error) /\ Respond(r, ProblemDetails(RpcException(error)))
  /\ UNCHANGED <<vars, route, call, asked, seen, before>>

(* Fault: the call has no deadline.                                        *)
NeverTimeOut(r) == FALSE /\ UNCHANGED allVars

(* The deadline passes.                                                    *)
TimeOut(r) ==
  /\ Respond(r, ProblemDetails([code |-> "DEADLINE_EXCEEDED", members |-> {"detail"}]))
  /\ UNCHANGED <<vars, route, call, asked, seen, before>>

(* There is no connection to identity, or it breaks: the call may have     *)
(* arrived or may yet.                                                     *)
Disconnect(r) ==
  /\ Respond(r, ProblemDetails([code |-> "UNAVAILABLE", members |-> {"detail"}]))
  /\ UNCHANGED <<vars, route, call, asked, seen, before>>

(* The gateway's process ends: nobody is waiting any more.                 *)
Stop ==
  /\ open # {}
  /\ open' = {}
  /\ UNCHANGED <<vars, route, call, asked, seen, answer, before>>

Quiet ==
  /\ open = {}
  /\ \A r \in Requests : route[r] # Nobody /\ pc[r] \in {"idle"} \cup Ended
  /\ UNCHANGED allVars

GatewayNext ==
  \/ \E r \in Requests :
       \/ \E rt \in Routes : Refuse(r, rt) \/ Forward(r, rt)
       \/ Arrive(r) \/ ReadProfile(r)
       \/ Reply(r) \/ TimeOut(r) \/ Disconnect(r)
  \/ Identity
  \/ Stop
  \/ Quiet

GatewaySpec == GatewayInit /\ [][GatewayNext]_allVars

(* The timer of a deadline fires.  Nothing is asked of identity.           *)
FairGatewaySpec == GatewaySpec /\ \A r \in Requests : WF_allVars(TimeOut(r))

-----------------------------------------------------------------------------
(* Every variable of the gateway holds a value of its kind; a response has *)
(* a status.                                                               *)
Responses == [status : 200 .. 599, members : SUBSET Members]

GatewayTypeOK ==
  /\ route \in [Requests -> Routes \cup {Nobody}]
  /\ open \subseteq Requests
  /\ call \in [Requests -> Calls]
  /\ asked \in [Requests -> Ids \cup Spellings \cup {Nobody}]
  /\ seen \in [Requests ->
       [id : Ids \cup {Nobody}, displayName : DisplayNames \cup {Nobody}, bio : Bios \cup {Nobody}]]
  /\ answer \in [Requests -> Responses \cup {NoAnswer}]
  /\ before \in [Requests -> SUBSET Requests]

(* A 2xx is for what took effect, and a 4xx for what has changed no        *)
(* account and never will: only a 5xx leaves the client in doubt.          *)
StatusIsTrue ==
  \A r \in Requests :
    /\ answer[r].status = 201 =>
         \E i \in Accounts : secret[i] = r /\ handle[i] = name[r]
    /\ answer[r].status = 200 /\ route[r] = "update" =>
         pc[r] = "updated" /\ id[r] = asked[r]
    /\ answer[r].status \in 400 .. 499 =>
         /\ call[r] # "sent" /\ pc[r] \in {"idle", "rejected", "taken"}
         /\ \A i \in Ids : secret[i] # r

(* A failure of ours carries nothing that was written for us, and a field  *)
(* is named only in a refusal of what the client sent.                     *)
ServerErrorsSayNothing ==
  \A r \in Requests :
    /\ answer[r].status >= 500 => "detail" \notin answer[r].members
    /\ "field" \in answer[r].members => answer[r].status \in {400, 409}

(* A client that reads a profile after it was told of a registration or an *)
(* update finds the account, and in it the update or another one's wish,   *)
(* however it spells the handle and whatever else is under way.            *)
ReadsFollowWrites ==
  \A q, r \in Requests :
    route[q] = "profile" /\ answer[q].status \in {200, 404} /\ r \in before[q] =>
      /\ route[r] = "register" /\ Fold[name[r]] = Fold[asked[q]] => seen[q].id = id[r]
      /\ route[r] = "update" /\ seen[q].id = id[r] =>
           \E q1, q2 \in Requests :
             /\ id[q1] = id[r] /\ id[q2] = id[r]
             /\ patch[r].displayName # Absent => seen[q].displayName = patch[q1].displayName
             /\ patch[r].bio # Absent => seen[q].bio = patch[q2].bio

(* Nobody waits for ever, though identity may never answer.                *)
EveryRequestIsAnswered == \A r \in Requests : r \in open ~> r \notin open

(* "Every rejected refresh is the same 401, with no detail and no field."  *)
RejectedRefreshSaysNothing ==
  \A r \in Requests :
    route[r] = "refresh" /\ answer[r].status = 401 => answer[r].members = {}
=============================================================================
