---------------------------- MODULE Gateway_proofs ----------------------------
(***************************************************************************)
(* What holds of Gateway for any number of requests: it drives Accounts    *)
(* and nothing else, and its statuses are true.                            *)
(***************************************************************************)
EXTENDS Gateway, Accounts_proofs

Registers ==
  {"idle", "exists", "hash", "create", "committed", "registered", "lost", "rejected",
   "taken", "failed", "crashed"} \cup Creating

Changes ==
  {"idle", "update", "changed", "updated", "lost", "rejected", "failed", "crashed"}
    \cup Updating

(* Where the identity call of a request can be, by its route.              *)
CallFits(r) ==
  /\ call[r] \in {"none", "sent"} => pc[r] = "idle"
  /\ route[r] \notin {"register", "update"} => pc[r] = "idle"
  /\ call[r] = "read" => route[r] = "profile"
  /\ route[r] = "register" => pc[r] \in Registers
  /\ route[r] = "update" =>
       pc[r] \in Changes /\ (pc[r] \in {"idle", "rejected"} \/ id[r] = asked[r])
CallsFit == \A r \in Requests : CallFits(r)

(* What a response may say, by its status.                                 *)
Proper(a) ==
  /\ a \in Responses
  /\ a.status >= 500 => "detail" \notin a.members
  /\ "field" \in a.members => a.status \in {400, 409}

(* What each status an answer can have stands for.                         *)
AnswerFits(r) ==
  /\ route[r] = Nobody \/ r \in open => answer[r] = NoAnswer
  /\ route[r] = Nobody => r \notin open /\ call[r] = "none"
  /\ answer[r].status = 201 => route[r] = "register" /\ pc[r] = "registered"
  /\ answer[r].status = 200 /\ route[r] = "update" => pc[r] = "updated"
  /\ answer[r].status \in 400 .. 499 =>
       call[r] # "sent" /\ pc[r] \in {"idle", "rejected", "taken"}
  /\ answer[r] = NoAnswer \/ Proper(answer[r])
AnswersFit == \A r \in Requests : AnswerFits(r)

GInv == IInv /\ GatewayTypeOK /\ CallsFit /\ AnswersFit

-----------------------------------------------------------------------------
(* Every step of the gateway is a step of Accounts, or none.               *)
LEMMA GatewayStep ==
  ASSUME GatewayTypeOK, CallsFit, [GatewayNext]_allVars
  PROVE  [Next]_vars
<1>1. ASSUME NEW r \in Requests, Arrive(r) PROVE [Next]_vars
  <2>1. CASE route[r] = "register"
    BY <1>1, <2>1 DEF Arrive, Next
  <2>2. CASE route[r] = "update"
    <3>1. RejectInput(r) \/ \E p \in Patches : CallUpdate(r, asked[r], p)
      BY <1>1, <2>2 DEF Arrive
    <3>2. ASSUME NEW p \in Patches, CallUpdate(r, asked[r], p) PROVE asked[r] \in Ids
      BY <3>2 DEF CallUpdate, Accounts
    <3> QED
      BY <3>1, <3>2 DEF Next
  <2>3. CASE route[r] \notin {"register", "update"}
    BY <1>1, <2>3 DEF Arrive
  <2> QED
    BY <2>1, <2>2, <2>3
<1>2. CASE Identity
  BY <1>2 DEF Identity, Next
<1>3. CASE \E r \in Requests :
             \/ \E rt \in Routes : Refuse(r, rt) \/ Forward(r, rt)
             \/ ReadProfile(r) \/ Reply(r) \/ TimeOut(r) \/ Disconnect(r)
  BY <1>3 DEF Refuse, Forward, ReadProfile, Reply, TimeOut, Disconnect
<1>4. CASE Stop \/ Quiet \/ UNCHANGED allVars
  BY <1>4 DEF Stop, Quiet, allVars
<1> QED
  BY <1>1, <1>2, <1>3, <1>4 DEF GatewayNext

(* What a step of identity does to the place of a call.                    *)
LEMMA IdentityMoves ==
  ASSUME IInv, Identity, NEW r \in Requests
  PROVE  /\ pc[r] \in {"idle"} \cup Ended => pc'[r] = pc[r]
         /\ pc[r] # "idle" => pc'[r] # "idle"
         /\ pc[r] \in Registers => pc'[r] \in Registers
         /\ pc[r] \in Changes => pc'[r] \in Changes /\ id'[r] = id[r]
         /\ pc'[r] = "rejected" => pc[r] = "rejected"
<1> USE DEF IInv, TypeOK, GoTo, Goes, Ended, Registers, Changes, Creating, Updating, AtDatabase, Points, locals
<1>1. CASE Crash
  BY <1>1 DEF Crash, UnderWay
<1>2. ASSUME NEW q \in Requests, Step(q) \/ Fail(q)
      PROVE  /\ pc[r] \in {"idle"} \cup Ended => pc'[r] = pc[r]
             /\ pc[r] # "idle" => pc'[r] # "idle"
             /\ pc[r] \in Registers => pc'[r] \in Registers
             /\ pc[r] \in Changes => pc'[r] \in Changes /\ id'[r] = id[r]
             /\ pc'[r] = "rejected" => pc[r] = "rejected"
  <2>1. CASE \/ CheckHandle(q) \/ HashThrows(q) \/ (\E i \in Ids : Hash(q, i)) \/ BeginCreate(q)
    BY <2>1 DEF CheckHandle, HashThrows, Hash, BeginCreate
  <2>2. CASE InsertUser(q) \/ RollBackCreate(q) \/ InsertCredentials(q) \/ CommitCreate(q)
    BY <2>2 DEF InsertUser, RollBackCreate, InsertCredentials, CommitCreate
  <2>3. CASE BeginUpdate(q) \/ UpdateRow(q) \/ CommitUpdate(q)
    BY <2>3 DEF BeginUpdate, UpdateRow, CommitUpdate
  <2>4. CASE Answer(q) \/ Fail(q)
    BY <2>4 DEF Answer, Fail
  <2> QED
    BY <1>2, <2>1, <2>2, <2>3, <2>4 DEF Step
<1> QED
  BY <1>1, <1>2 DEF Identity

-----------------------------------------------------------------------------
LEMMA StatusOf ==
  /\ Status("INVALID_ARGUMENT") = 400 /\ Status("UNAUTHENTICATED") = 401
  /\ Status("NOT_FOUND") = 404 /\ Status("ALREADY_EXISTS") = 409
  /\ Status("INTERNAL") = 500
  /\ Status("UNAVAILABLE") = 503 /\ Status("DEADLINE_EXCEEDED") = 504
BY DEF Status, HTTP_STATUS

(* The response an error becomes: a bare 500, or a refusal.                *)
LEMMA ProblemOf ==
  ASSUME NEW error \in DOMAIN Code
  PROVE  LET a == ProblemDetails(RpcException(error))
         IN  /\ Proper(a)
             /\ IF error = "Error" THEN a.status = 500 ELSE a.status \in 400 .. 499
<1>1. error \in {"DomainValidationError", "EmptyProfileUpdateError", "InvalidCredentialsError",
                 "InvalidRefreshTokenError", "ProfileNotFoundError", "HandleTakenError", "Error"}
  BY DEF Code
<1>2. /\ RpcException(error).code = Code[error]
      /\ RpcException(error).members =
           IF error \in {"DomainValidationError", "HandleTakenError"} THEN Members ELSE {"detail"}
  BY DEF RpcException
<1>3. Status(RpcException(error).code) \in
        IF error = "Error" THEN {500}
        ELSE IF error \in {"DomainValidationError", "HandleTakenError"} THEN {400, 409}
        ELSE {400, 401, 404}
  BY <1>1, <1>2, StatusOf DEF Code
<1> QED
  BY <1>1, <1>2, <1>3 DEF ProblemDetails, Response, Proper, Responses, Members

LEMMA ServerProblem ==
  ASSUME NEW code \in {"DEADLINE_EXCEEDED", "UNAVAILABLE"}
  PROVE  LET a == ProblemDetails([code |-> code, members |-> {"detail"}])
         IN  Proper(a) /\ a.status >= 500
<1>1. Status(code) \in {503, 504}
  BY StatusOf
<1> QED
  BY <1>1 DEF ProblemDetails, Response, Proper, Responses, Members

LEMMA RefusalOf ==
  ASSUME NEW rt, NEW a \in Refusals(rt)
  PROVE  Proper(a) /\ a.status \in 400 .. 499
BY DEF Refusals, Unparsed, Misshapen, Unauthorized, Response, Proper, Responses, Members

LEMMA SuccessOf ==
  ASSUME NEW rt \in {"register", "login", "refresh", "profile", "update"}
  PROVE  LET a == Response(Success[rt], {})
         IN  Proper(a) /\ a.status = IF rt = "register" THEN 201 ELSE 200
<1>1. Success[rt] = IF rt = "register" THEN 201 ELSE 200
  BY DEF Success
<1> QED
  BY <1>1 DEF Response, Proper, Responses, Members

(* A reply, by what it reports.                                            *)
LEMMA ReplyOf ==
  ASSUME GInv, NEW r \in Requests, Reply(r)
  PROVE  \E a \in Responses :
           /\ Respond(r, a) /\ Proper(a)
           /\ \/ a.status = (IF route[r] = "register" THEN 201 ELSE 200) /\ Succeeded(r)
              \/ a.status = 500
              \/ /\ a.status \in 400 .. 499
                 /\ \E error \in DOMAIN Code \ {"Error"} : Thrown(r, error)
<1>1. route[r] \in {"register", "login", "refresh", "profile", "update"}
  <2>1. r \in open
    BY DEF Reply, Respond
  <2>2. route[r] \in Routes
    BY <2>1 DEF GInv, GatewayTypeOK, AnswersFit, AnswerFits
  <2> QED
    BY <2>2, RoutesAssumption
<1>2. CASE Succeeded(r) /\ Respond(r, Response(Success[route[r]], {}))
  BY <1>1, <1>2, SuccessOf DEF Proper
<1>3. ASSUME NEW error \in DOMAIN Code,
             Thrown(r, error), Respond(r, ProblemDetails(RpcException(error)))
      PROVE  \E a \in Responses :
               /\ Respond(r, a) /\ Proper(a)
               /\ \/ a.status = 500
                  \/ a.status \in 400 .. 499 /\ error # "Error" /\ Thrown(r, error)
  <2> DEFINE a == ProblemDetails(RpcException(error))
  <2>1. Proper(a) /\ IF error = "Error" THEN a.status = 500 ELSE a.status \in 400 .. 499
    BY ProblemOf
  <2>2. a \in Responses /\ Respond(r, a)
    BY <1>3, <2>1 DEF Proper
  <2>3. a.status = 500 \/ (a.status \in 400 .. 499 /\ error # "Error" /\ Thrown(r, error))
    BY <1>3, <2>1
  <2> QED
    BY <2>1, <2>2, <2>3
<1> QED
  BY <1>2, <1>3 DEF Reply

LEMMA GatewayTypeStep == GInv /\ [GatewayNext]_allVars => GatewayTypeOK'
<1> SUFFICES ASSUME GInv, [GatewayNext]_allVars PROVE GatewayTypeOK'
  OBVIOUS
<1> USE DEF GatewayTypeOK
<1>0. GatewayTypeOK /\ TypeOK
  BY DEF GInv, IInv
<1>1. ASSUME NEW r \in Requests, NEW rt \in Routes, Refuse(r, rt) PROVE GatewayTypeOK'
  BY <1>0, <1>1, RefusalOf DEF Refuse, Proper
<1>2. ASSUME NEW r \in Requests, NEW rt \in Routes, Forward(r, rt) PROVE GatewayTypeOK'
  <2>1. Subjects(rt) \subseteq Ids \cup Spellings \cup {Nobody}
    BY DEF Subjects, Accounts
  <2> QED
    BY <1>0, <1>2, <2>1 DEF Forward, Calls
<1>3. ASSUME NEW r \in Requests, Arrive(r) PROVE GatewayTypeOK'
  BY <1>0, <1>3 DEF Arrive, Calls
<1>4. ASSUME NEW r \in Requests, ReadProfile(r) PROVE GatewayTypeOK'
  <2>1. \A i \in Ids : [id |-> i, displayName |-> displayName[i], bio |-> bio[i]]
           \in [id : Ids \cup {Nobody}, displayName : DisplayNames \cup {Nobody},
               bio : Bios \cup {Nobody}]
    BY <1>0 DEF TypeOK
  <2> QED
    BY <1>0, <1>4, <2>1 DEF ReadProfile, Calls
<1>5. ASSUME NEW r \in Requests, Reply(r) PROVE GatewayTypeOK'
  <2>1. PICK a \in Responses : Respond(r, a)
    BY <1>5, ReplyOf
  <2> QED
    BY <1>0, <1>5, <2>1 DEF Reply, Respond
<1>6. ASSUME NEW r \in Requests, TimeOut(r) \/ Disconnect(r) PROVE GatewayTypeOK'
  BY <1>0, <1>6, ServerProblem DEF TimeOut, Disconnect, Respond, Proper
<1>7. CASE Identity \/ Stop \/ Quiet \/ UNCHANGED allVars
  BY <1>0, <1>7 DEF Identity, Stop, Quiet, allVars, gatewayVars
<1> QED
  BY <1>1, <1>2, <1>3, <1>4, <1>5, <1>6, <1>7 DEF GatewayNext

LEMMA CallsFitStep == GInv /\ [GatewayNext]_allVars => CallsFit'
<1> SUFFICES ASSUME GInv, [GatewayNext]_allVars, NEW q \in Requests PROVE CallFits(q)'
  BY DEF CallsFit
<1> USE DEF GatewayTypeOK
<1>0. GatewayTypeOK /\ TypeOK /\ CallFits(q) /\ AnswerFits(q)
  BY DEF GInv, IInv, CallsFit, AnswersFit
<1>1. ASSUME NEW r \in Requests, NEW rt \in Routes, Refuse(r, rt) \/ Forward(r, rt)
      PROVE  CallFits(q)'
  <2>1. CallFits(r) /\ AnswerFits(r) /\ pc[r] = "idle"
    BY <1>1 DEF GInv, CallsFit, AnswersFit, CallFits, AnswerFits, Refuse, Forward
  <2> QED
    BY <1>0, <1>1, <2>1, RoutesAssumption
    DEF Refuse, Forward, CallFits, AnswerFits, vars, locals, Registers, Changes
<1>2. ASSUME NEW r \in Requests, Arrive(r) PROVE CallFits(q)'
  <2>1. CallFits(r) /\ AnswerFits(r) /\ pc[r] = "idle"
    BY <1>2 DEF GInv, CallsFit, AnswersFit, CallFits, AnswerFits, Arrive
  <2>2. CASE route[r] \notin {"register", "update"}
    BY <1>0, <1>2, <2>1, <2>2 DEF Arrive, CallFits, vars, locals
  <2>3. CASE route[r] = "register"
    <3>1. \E point \in {"rejected", "exists"} : GoTo(r, point)
      BY <1>2, <2>3 DEF Arrive, RejectInput, Goes, CallRegister
    <3>2. id' = id
      BY <1>2, <2>3 DEF Arrive, RejectInput, Goes, CallRegister, locals
    <3> QED
      BY <1>0, <1>2, <2>1, <2>3, <3>1, <3>2 DEF Arrive, CallFits, GoTo, Goes, Registers, TypeOK
  <2>4. CASE route[r] = "update"
    <3>1. \/ GoTo(r, "rejected") /\ id' = id
          \/ GoTo(r, "update") /\ id' = [id EXCEPT ![r] = asked[r]]
      BY <1>2, <2>4 DEF Arrive, RejectInput, Goes, CallUpdate, locals
    <3> QED
      BY <1>0, <1>2, <2>1, <2>4, <3>1 DEF Arrive, CallFits, GoTo, Goes, Changes, TypeOK
  <2> QED
    BY <2>2, <2>3, <2>4
<1>3. ASSUME NEW r \in Requests, ReadProfile(r) PROVE CallFits(q)'
  BY <1>0, <1>3 DEF ReadProfile, CallFits, vars, locals
<1>4. ASSUME NEW r \in Requests, Reply(r) \/ TimeOut(r) \/ Disconnect(r) PROVE CallFits(q)'
  BY <1>0, <1>4 DEF Reply, TimeOut, Disconnect, CallFits, vars, locals
<1>5. CASE Identity
  <2>1. call' = call /\ route' = route /\ asked' = asked
    BY <1>5 DEF Identity, gatewayVars
  <2>2. /\ pc[q] \in {"idle"} \cup Ended => pc'[q] = pc[q]
        /\ pc[q] \in Registers => pc'[q] \in Registers
        /\ pc[q] \in Changes => pc'[q] \in Changes /\ id'[q] = id[q]
        /\ pc'[q] \in {"idle", "rejected"} => pc[q] \in {"idle", "rejected"}
    BY <1>5, IdentityMoves DEF GInv
  <2> QED
    BY <1>0, <2>1, <2>2 DEF CallFits, Ended
<1>6. CASE Stop \/ Quiet \/ UNCHANGED allVars
  BY <1>0, <1>6 DEF Stop, Quiet, allVars, gatewayVars, CallFits, vars, locals
<1> QED
  BY <1>1, <1>2, <1>3, <1>4, <1>5, <1>6 DEF GatewayNext

LEMMA AnswersFitStep == GInv /\ [GatewayNext]_allVars => AnswersFit'
<1> SUFFICES ASSUME GInv, [GatewayNext]_allVars, NEW q \in Requests PROVE AnswerFits(q)'
  BY DEF AnswersFit
<1> USE DEF GatewayTypeOK
<1>0. GatewayTypeOK /\ TypeOK /\ CallFits(q) /\ AnswerFits(q)
  BY DEF GInv, IInv, CallsFit, AnswersFit
<1>1. ASSUME NEW r \in Requests, NEW rt \in Routes, Refuse(r, rt)
      PROVE  AnswerFits(q)'
  <2>1. CallFits(r) /\ AnswerFits(r) /\ pc[r] = "idle" /\ r \notin open /\ call[r] = "none"
    BY <1>1 DEF GInv, CallsFit, AnswersFit, CallFits, AnswerFits, Refuse
  <2>2. PICK a \in Refusals(rt) : answer' = [answer EXCEPT ![r] = a]
    BY <1>1 DEF Refuse
  <2>3. Proper(a) /\ a.status \in 400 .. 499
    BY <2>2, RefusalOf
  <2> QED
    BY <1>0, <1>1, <2>1, <2>2, <2>3, RoutesAssumption DEF Refuse, AnswerFits, vars, locals
<1>2. ASSUME NEW r \in Requests, NEW rt \in Routes, Forward(r, rt)
      PROVE  AnswerFits(q)'
  BY <1>0, <1>2, RoutesAssumption DEF Forward, AnswerFits, vars, locals, NoAnswer, Response
<1>3. ASSUME NEW r \in Requests, Arrive(r) PROVE AnswerFits(q)'
  <2>1. CallFits(r) /\ AnswerFits(r) /\ pc[r] = "idle" /\ call[r] = "sent"
    BY <1>3 DEF GInv, CallsFit, AnswersFit, CallFits, AnswerFits, Arrive
  <2>2. q # r => pc'[q] = pc[q]
    BY <1>0, <1>3 DEF Arrive, RejectInput, CallRegister, CallUpdate, GoTo, Goes, vars, locals, TypeOK
  <2> QED
    BY <1>0, <1>3, <2>1, <2>2 DEF Arrive, AnswerFits
<1>4. ASSUME NEW r \in Requests, ReadProfile(r) PROVE AnswerFits(q)'
  BY <1>0, <1>4 DEF ReadProfile, AnswerFits, vars, locals
<1>5. ASSUME NEW r \in Requests, Reply(r) PROVE AnswerFits(q)'
  <2>1. CallFits(r) /\ AnswerFits(r)
    BY DEF GInv, CallsFit, AnswersFit
  <2>2. PICK a \in Responses :
           /\ Respond(r, a) /\ Proper(a)
           /\ \/ a.status = (IF route[r] = "register" THEN 201 ELSE 200) /\ Succeeded(r)
              \/ a.status = 500
              \/ /\ a.status \in 400 .. 499
                 /\ \E error \in DOMAIN Code \ {"Error"} : Thrown(r, error)
    BY <1>5, ReplyOf
  <2>3. /\ a.status = 201 => route[r] = "register" /\ pc[r] = "registered"
        /\ a.status = 200 /\ route[r] = "update" => pc[r] = "updated"
    BY <2>1, <2>2 DEF Succeeded, CallFits, Registers, Changes, Creating, Updating
  <2>4. a.status \in 400 .. 499 => call[r] # "sent" /\ pc[r] \in {"idle", "rejected", "taken"}
    BY <2>1, <2>2 DEF Thrown, CallFits
  <2> QED
    BY <1>0, <1>5, <2>1, <2>2, <2>3, <2>4 DEF Reply, Respond, AnswerFits, vars, locals
<1>6. ASSUME NEW r \in Requests, TimeOut(r) \/ Disconnect(r) PROVE AnswerFits(q)'
  <2>1. PICK a \in Responses : Respond(r, a) /\ Proper(a) /\ a.status >= 500
    BY <1>6, ServerProblem DEF TimeOut, Disconnect, Proper
  <2> QED
    BY <1>0, <1>6, <2>1 DEF TimeOut, Disconnect, Respond, AnswerFits, vars, locals, Responses
<1>7. CASE Identity
  <2>1. UNCHANGED <<call, route, open, answer>>
    BY <1>7 DEF Identity, gatewayVars
  <2>2. pc[q] \in {"idle"} \cup Ended => pc'[q] = pc[q]
    BY <1>7, IdentityMoves DEF GInv
  <2> QED
    BY <1>0, <2>1, <2>2 DEF AnswerFits, Ended
<1>8. CASE Stop \/ Quiet \/ UNCHANGED allVars
  BY <1>0, <1>8 DEF Stop, Quiet, allVars, gatewayVars, AnswerFits, vars, locals
<1> QED
  BY <1>1, <1>2, <1>3, <1>4, <1>5, <1>6, <1>7, <1>8 DEF GatewayNext

-----------------------------------------------------------------------------
LEMMA GInvInit == GatewayInit => GInv
<1> SUFFICES ASSUME GatewayInit PROVE GInv
  OBVIOUS
<1>1. IInv
  BY InvariantInit DEF GatewayInit
<1>2. GatewayTypeOK
  BY DEF GatewayInit, GatewayTypeOK, Calls, NoRow
<1>3. CallsFit
  BY DEF GatewayInit, Init, CallsFit, CallFits, Registers, Changes
<1>4. NoAnswer.status = 0
  BY DEF NoAnswer, Response
<1>5. AnswersFit
  BY <1>4 DEF GatewayInit, AnswersFit, AnswerFits
<1> QED
  BY <1>1, <1>2, <1>3, <1>5 DEF GInv

LEMMA GInvStep == GInv /\ [GatewayNext]_allVars => GInv'
BY InvariantStep, GatewayStep, GatewayTypeStep, CallsFitStep, AnswersFitStep DEF GInv

LEMMA GatewayInvariant == GatewaySpec => []GInv
BY GInvInit, GInvStep, PTL DEF GatewaySpec

-----------------------------------------------------------------------------
(* The gateway drives identity as its callers may: what is proved of       *)
(* Accounts holds behind it (identity.grpc-client.ts).                     *)
THEOREM DrivesAccounts == GatewaySpec => Spec
<1>1. GatewayInit => Init
  BY DEF GatewayInit
<1>2. GInv /\ [GatewayNext]_allVars => [Next]_vars
  BY GatewayStep DEF GInv
<1> QED
  BY <1>1, <1>2, GatewayInvariant, PTL DEF GatewaySpec, Spec

(* Every variable of the gateway holds a value of its kind; a response has *)
(* a status.                                                               *)
THEOREM GatewayTypeCorrect == GatewaySpec => []GatewayTypeOK
<1>1. GInv => GatewayTypeOK
  BY DEF GInv
<1> QED
  BY <1>1, GatewayInvariant, PTL

(* A 2xx is for what took effect, and a 4xx for what has had no effect and *)
(* never will (toProblemDetails, toRpcException).                          *)
THEOREM StatusesAreTrue == GatewaySpec => []StatusIsTrue
<1>1. GInv => StatusIsTrue
  <2> SUFFICES ASSUME GInv, NEW r \in Requests
               PROVE  /\ answer[r].status = 201 =>
                           \E i \in Accounts : secret[i] = r /\ handle[i] = name[r]
                      /\ answer[r].status = 200 /\ route[r] = "update" =>
                           pc[r] = "updated" /\ id[r] = asked[r]
                      /\ answer[r].status \in 400 .. 499 =>
                           /\ call[r] # "sent" /\ pc[r] \in {"idle", "rejected", "taken"}
                           /\ \A i \in Ids : secret[i] # r
    BY DEF StatusIsTrue
  <2>1. AnswerFits(r) /\ CallFits(r)
    BY DEF GInv, AnswersFit, CallsFit
  <2>2. answer[r].status = 201 =>
          \E i \in Accounts : secret[i] = r /\ handle[i] = name[r]
    BY <2>1 DEF AnswerFits, GInv, IInv, AnswersAreTrue
  <2>3. answer[r].status = 200 /\ route[r] = "update" => pc[r] = "updated" /\ id[r] = asked[r]
    BY <2>1 DEF AnswerFits, CallFits
  <2>4. ASSUME pc[r] \in {"idle", "rejected", "taken"}, NEW i \in Ids PROVE secret[i] # r
    BY <2>4, ValuesAssumption DEF GInv, IInv, RowsSound, CredentialsBelong
  <2> QED
    BY <2>1, <2>2, <2>3, <2>4 DEF AnswerFits
<1> QED
  BY <1>1, GatewayInvariant, PTL

(* A failure of ours carries nothing that was written for us, and a field  *)
(* is named only in a refusal of what the client sent (toProblemDetails).  *)
THEOREM ServerErrorsAreBare == GatewaySpec => []ServerErrorsSayNothing
<1>1. GInv => ServerErrorsSayNothing
  BY DEF GInv, AnswersFit, AnswerFits, Proper, NoAnswer, Response, ServerErrorsSayNothing
<1> QED
  BY <1>1, GatewayInvariant, PTL

-----------------------------------------------------------------------------
(* What the row q has read says of r, a request that had succeeded.        *)
Follows(q, r) ==
  /\ route[r] = "register" /\ Fold[name[r]] = Fold[asked[q]] => seen[q].id = id[r]
  /\ route[r] = "update" /\ seen[q].id = id[r] =>
       /\ patch[r].displayName # Absent =>
            \E p \in Requests : id[p] = id[r] /\ seen[q].displayName = patch[p].displayName
       /\ patch[r].bio # Absent =>
            \E p \in Requests : id[p] = id[r] /\ seen[q].bio = patch[p].bio

Settled(r) == answer[r].status \in {200, 201}

ReadFits(q) ==
  /\ \A r \in before[q] : Settled(r)
  /\ answer[q].status = 200 => route[q] # "register"
  /\ route[q] = "profile" /\ answer[q].status \in {200, 404} => call[q] = "read"
  /\ IF call[q] = "read" THEN \A r \in before[q] : Follows(q, r) ELSE seen[q] = NoRow
ReadsFit == \A q \in Requests : ReadFits(q)

(* A request that succeeded keeps its answer, its route and its account.   *)
LEMMA SettledKept ==
  ASSUME GInv, ReadsFit, [GatewayNext]_allVars, NEW r \in Requests, Settled(r)
  PROVE  /\ answer'[r] = answer[r] /\ route'[r] = route[r]
         /\ route[r] = "register" =>
              /\ id[r] \in Accounts /\ handle[id[r]] = name[r] /\ name'[r] = name[r]
         /\ route[r] = "update" => id[r] \in Accounts /\ pc[r] = "updated"
<1>0. GatewayTypeOK /\ TypeOK /\ IInv /\ AnswerFits(r) /\ CallFits(r) /\ ReadFits(r)
  BY DEF GInv, IInv, AnswersFit, CallsFit, ReadsFit
<1>1. route[r] # Nobody /\ r \notin open
  BY <1>0 DEF AnswerFits, Settled, NoAnswer, Response
<1>2. answer'[r] = answer[r] /\ route'[r] = route[r]
  <2> USE <1>0, <1>1 DEF GatewayTypeOK
  <2>1. ASSUME NEW q \in Requests, NEW rt \in Routes, Refuse(q, rt) \/ Forward(q, rt)
        PROVE  answer'[r] = answer[r] /\ route'[r] = route[r]
    BY <2>1 DEF Refuse, Forward
  <2>2. ASSUME NEW q \in Requests,
               Arrive(q) \/ ReadProfile(q) \/ Reply(q) \/ TimeOut(q) \/ Disconnect(q)
        PROVE  answer'[r] = answer[r] /\ route'[r] = route[r]
    BY <2>2 DEF Arrive, ReadProfile, Reply, TimeOut, Disconnect, Respond
  <2>3. Identity \/ Stop \/ Quiet \/ UNCHANGED allVars =>
          answer'[r] = answer[r] /\ route'[r] = route[r]
    BY DEF Identity, Stop, Quiet, allVars, gatewayVars
  <2> QED
    BY <2>1, <2>2, <2>3 DEF GatewayNext
<1>3. route[r] = "register" => pc[r] = "registered"
  BY <1>0 DEF AnswerFits, ReadFits, Settled
<1>4. route[r] = "register" => id[r] \in Accounts /\ handle[id[r]] = name[r]
  BY <1>0, <1>3 DEF IInv, AnswersAreTrue
<1>5. route[r] = "update" => pc[r] = "updated"
  BY <1>0 DEF AnswerFits, Settled
<1>6. route[r] = "update" => id[r] \in Accounts
  BY <1>0, <1>5 DEF IInv, CallsSound, CallSound, Changing
<1>7. pc[r] = "registered" => name'[r] = name[r]
  <2>1. [Next]_vars
    BY <1>0, GatewayStep DEF GInv
  <2> QED
    BY <1>0, <2>1, Steps
    DEF CallRegister, CallUpdate, Hash, CommitCreate, CommitUpdate, Moves, Crash, locals,
        vars, TypeOK
<1> QED
  BY <1>2, <1>3, <1>4, <1>5, <1>6, <1>7

(* A call that has its id keeps it, and its patch.                         *)
LEMMA IdsKept ==
  ASSUME IInv, [Next]_vars, NEW r \in Requests, id[r] \in Ids
  PROVE  id'[r] = id[r] /\ patch'[r] = patch[r]
<1>1. pc[r] \notin {"idle", "exists", "hash"}
  BY ValuesAssumption DEF IInv, CallsSound, CallSound
<1> QED
  BY <1>1, Steps
  DEF IInv, TypeOK, CallRegister, CallUpdate, Hash, CommitCreate, CommitUpdate, Moves,
      Crash, locals, vars

(* What a read found stays true of the requests that were settled before.  *)
LEMMA FollowsKept ==
  ASSUME GInv, ReadsFit, [GatewayNext]_allVars,
         NEW q \in Requests, NEW r \in Requests, Settled(r), Follows(q, r),
         seen'[q] = seen[q], asked'[q] = asked[q]
  PROVE  Follows(q, r)'
<1>1. [Next]_vars /\ IInv
  BY GatewayStep DEF GInv
<1>2. route'[r] = route[r]
  BY SettledKept
<1>3. CASE route[r] = "register"
  <2>1. id[r] \in Ids /\ name'[r] = name[r]
    BY <1>3, SettledKept DEF Accounts
  <2>2. id'[r] = id[r]
    BY <1>1, <2>1, IdsKept
  <2> QED
    BY <1>2, <1>3, <2>1, <2>2 DEF Follows
<1>4. CASE route[r] = "update"
  <2>1. id[r] \in Ids
    BY <1>4, SettledKept DEF Accounts
  <2>2. \A p \in Requests : id[p] = id[r] => id'[p] = id[p] /\ patch'[p] = patch[p]
    BY <1>1, <2>1, IdsKept
  <2> QED
    BY <1>2, <1>4, <2>2 DEF Follows
<1> QED
  BY <1>2, <1>3, <1>4 DEF Follows

(* What a read finds of a request that had succeeded when it was made.     *)
LEMMA ReadFollows ==
  ASSUME GInv, ReadsFit, [GatewayNext]_allVars, NEW q \in Requests, ReadProfile(q),
         NEW r \in Requests, Settled(r)
  PROVE  Follows(q, r)'
<1>0. IInv /\ TypeOK /\ GatewayTypeOK /\ ReadFits(q)
  BY DEF GInv, IInv, ReadsFit
<1>1. seen[q] = NoRow /\ UNCHANGED <<vars, route, asked>>
  BY <1>0 DEF ReadProfile, ReadFits
<1>2. \/ (\A i \in Ids : ~Answers(i, asked[q])) /\ seen'[q] = NoRow
      \/ \E i \in Ids :
           /\ Answers(i, asked[q])
           /\ seen'[q] = [id |-> i, displayName |-> displayName[i], bio |-> bio[i]]
  BY <1>0, <1>1 DEF ReadProfile, GatewayTypeOK
<1>3. ASSUME route[r] = "register", Fold[name[r]] = Fold[asked[q]]
      PROVE  seen'[q].id = id[r]
  <2>1. id[r] \in Accounts /\ handle[id[r]] = name[r]
    BY <1>3, SettledKept
  <2>2. Answers(id[r], asked[q])
    BY <1>3, <2>1 DEF Answers, Accounts
  <2>3. \A i \in Ids : Answers(i, asked[q]) => i = id[r]
    BY <1>0, <2>1, <2>2 DEF IInv, OneAccountPerHandle, Answers, Accounts
  <2>4. id[r] \in Ids
    BY <2>1 DEF Accounts
  <2>5. PICK i \in Ids :
           /\ Answers(i, asked[q])
           /\ seen'[q] = [id |-> i, displayName |-> displayName[i], bio |-> bio[i]]
    BY <1>2, <2>2, <2>4
  <2> QED
    BY <2>3, <2>5
<1>4. ASSUME route[r] = "update", seen'[q].id = id[r]
      PROVE  /\ patch[r].displayName # Absent =>
                  \E p \in Requests : id[p] = id[r] /\ seen'[q].displayName = patch[p].displayName
             /\ patch[r].bio # Absent =>
                  \E p \in Requests : id[p] = id[r] /\ seen'[q].bio = patch[p].bio
  <2>1. id[r] \in Ids /\ pc[r] = "updated"
    BY <1>4, SettledKept DEF Accounts
  <2>2. seen'[q] = [id |-> id[r], displayName |-> displayName[id[r]], bio |-> bio[id[r]]]
    <3>1. id[r] # Nobody
      BY <2>1, ValuesAssumption
    <3>2. NoRow.id = Nobody
      BY DEF NoRow
    <3>3. PICK i \in Ids :
             seen'[q] = [id |-> i, displayName |-> displayName[i], bio |-> bio[i]]
      BY <1>2, <1>4, <3>1, <3>2
    <3> QED
      BY <1>4, <3>3
  <2> QED
    BY <1>0, <2>1, <2>2 DEF IInv, ChangesStand
<1> QED
  BY <1>1, <1>3, <1>4 DEF Follows, vars, locals

(* A read of a profile is answered 200 or 404 only for what it has read.   *)
LEMMA ReplyToRead ==
  ASSUME GInv, NEW q \in Requests, Reply(q)
  PROVE  /\ answer'[q].status = 200 => route[q] # "register"
         /\ route[q] = "profile" /\ answer'[q].status \in {200, 404} => call[q] = "read"
<1>1. GatewayTypeOK /\ CallFits(q)
  BY DEF GInv, CallsFit
<1>2. PICK a \in Responses :
         /\ Respond(q, a)
         /\ \/ a.status = (IF route[q] = "register" THEN 201 ELSE 200) /\ Succeeded(q)
            \/ a.status = 500
            \/ a.status \in 400 .. 499
  BY ReplyOf
<1>3. answer'[q] = a
  BY <1>1, <1>2 DEF Respond, GatewayTypeOK
<1>4. ASSUME route[q] = "profile", Succeeded(q) PROVE call[q] = "read"
  BY <1>1, <1>4 DEF CallFits, Succeeded
<1>5. ASSUME NEW error \in DOMAIN Code, Thrown(q, error), route[q] = "profile",
             ProblemDetails(RpcException(error)).status = 404
      PROVE  call[q] = "read"
  <2>1. error \in {"DomainValidationError", "EmptyProfileUpdateError",
                   "InvalidCredentialsError", "InvalidRefreshTokenError",
                   "ProfileNotFoundError", "HandleTakenError", "Error"}
    BY DEF Code
  <2>2. Status(Code[error]) = 404
    BY <1>5 DEF ProblemDetails, RpcException, Response
  <2>3. error = "ProfileNotFoundError"
    BY <2>1, <2>2, StatusOf DEF Code
  <2> QED
    BY <1>5, <2>3 DEF Thrown
<1>6. route[q] = "profile" /\ a.status = 404 => call[q] = "read"
  <2> SUFFICES ASSUME route[q] = "profile", a.status = 404, ~Succeeded(q)
               PROVE  call[q] = "read"
    BY <1>4
  <2>1. PICK error \in DOMAIN Code :
           Thrown(q, error) /\ Respond(q, ProblemDetails(RpcException(error)))
    BY DEF Reply
  <2>2. answer'[q] = ProblemDetails(RpcException(error))
    BY <1>1, <2>1 DEF Respond, GatewayTypeOK
  <2> QED
    BY <1>3, <1>5, <2>1, <2>2
<1> QED
  BY <1>2, <1>3, <1>4, <1>6

LEMMA ReadsFitStep == GInv /\ ReadsFit /\ [GatewayNext]_allVars => ReadsFit'
<1> SUFFICES ASSUME GInv, ReadsFit, [GatewayNext]_allVars, NEW q \in Requests
             PROVE  ReadFits(q)'
  BY DEF ReadsFit
<1>0. GatewayTypeOK /\ AnswerFits(q) /\ ReadFits(q) /\ before[q] \subseteq Requests
  BY DEF GInv, AnswersFit, ReadsFit, GatewayTypeOK
<1>a. \A r \in before[q] : Settled(r) /\ Settled(r)'
  <2>1. ASSUME NEW r \in before[q] PROVE Settled(r) /\ Settled(r)'
    <3>1. r \in Requests /\ Settled(r)
      BY <1>0 DEF ReadFits
    <3>2. answer'[r] = answer[r]
      BY <3>1, SettledKept
    <3> QED
      BY <3>1, <3>2 DEF Settled
  <2> QED
    BY <2>1
<1>b. ASSUME UNCHANGED <<before[q], seen[q], asked[q], call[q], route[q]>>,
             \/ answer'[q] = answer[q]
             \/ /\ answer'[q].status = 200 => route[q] # "register"
                /\ route[q] = "profile" /\ answer'[q].status \in {200, 404} => call[q] = "read"
      PROVE  ReadFits(q)'
  <2>1. call[q] = "read" => \A r \in before[q] : Follows(q, r)'
    <3> SUFFICES ASSUME call[q] = "read", NEW r \in before[q] PROVE Follows(q, r)'
      OBVIOUS
    <3>1. r \in Requests /\ Settled(r) /\ Follows(q, r)
      BY <1>0, <1>a DEF ReadFits
    <3> QED
      BY <1>b, <3>1, FollowsKept
  <2> QED
    BY <1>0, <1>a, <1>b, <2>1 DEF ReadFits
<1> USE DEF GatewayTypeOK
<1>1. ASSUME NEW r \in Requests, NEW rt \in Routes, Refuse(r, rt) PROVE ReadFits(q)'
  <2>1. CASE r # q
    BY <1>0, <1>1, <1>b, <2>1 DEF Refuse
  <2>2. CASE r = q
    <3>1. call[q] = "none" /\ seen[q] = NoRow
      BY <1>0, <1>1, <2>2 DEF Refuse, AnswerFits, ReadFits
    <3>2. answer'[q].status \in {400, 401, 413, 415}
      BY <1>0, <1>1, <2>2
      DEF Refuse, Refusals, Unparsed, Misshapen, Unauthorized, Response
    <3> QED
      BY <1>0, <1>1, <1>a, <2>2, <3>1, <3>2 DEF Refuse, ReadFits
  <2> QED
    BY <2>1, <2>2
<1>2. ASSUME NEW r \in Requests, NEW rt \in Routes, Forward(r, rt) PROVE ReadFits(q)'
  <2>1. CASE r # q
    BY <1>0, <1>2, <1>b, <2>1 DEF Forward
  <2>2. CASE r = q
    <3>1. call[q] = "none" /\ seen[q] = NoRow /\ answer[q].status = 0
      BY <1>0, <1>2, <2>2 DEF Forward, AnswerFits, ReadFits, NoAnswer, Response
    <3>2. before'[q] = {p \in Requests : Settled(p)} /\ answer' = answer
      BY <1>0, <1>2, <2>2 DEF Forward, Settled
    <3>3. \A p \in before'[q] : Settled(p)'
      BY <3>2 DEF Settled
    <3>4. call'[q] = "sent" /\ seen' = seen
      BY <1>0, <1>2, <2>2 DEF Forward
    <3> QED
      BY <3>1, <3>2, <3>3, <3>4 DEF ReadFits
  <2> QED
    BY <2>1, <2>2
<1>3. ASSUME NEW r \in Requests, Arrive(r) PROVE ReadFits(q)'
  <2>1. CASE r # q
    BY <1>0, <1>3, <1>b, <2>1 DEF Arrive
  <2>2. CASE r = q
    <3>1. call[q] = "sent" /\ call'[q] = "received" /\ UNCHANGED <<route, seen, answer, before>>
      BY <1>0, <1>3, <2>2 DEF Arrive
    <3> QED
      BY <1>0, <1>a, <3>1 DEF ReadFits
  <2> QED
    BY <2>1, <2>2
<1>4. ASSUME NEW r \in Requests, ReadProfile(r) PROVE ReadFits(q)'
  <2>1. CASE r # q
    <3>1. seen'[q] = seen[q]
      BY <1>0, <1>4, <2>1 DEF ReadProfile
    <3> QED
      BY <1>0, <1>4, <1>b, <2>1, <3>1 DEF ReadProfile
  <2>2. CASE r = q
    <3>1. /\ call'[q] = "read" /\ before'[q] = before[q]
          /\ answer'[q] = answer[q] /\ route'[q] = route[q]
      BY <1>0, <1>4, <2>2 DEF ReadProfile
    <3>2. ASSUME NEW p \in before[q] PROVE Follows(q, p)'
      BY <1>0, <1>4, <1>a, <2>2, ReadFollows
    <3> QED
      BY <1>0, <1>a, <3>1, <3>2 DEF ReadFits
  <2> QED
    BY <2>1, <2>2
<1>5. ASSUME NEW r \in Requests, Reply(r) PROVE ReadFits(q)'
  <2>1. CASE r # q
    <3>1. answer'[q] = answer[q]
      BY <1>0, <1>5, <2>1 DEF Reply, Respond
    <3> QED
      BY <1>0, <1>5, <1>b, <3>1 DEF Reply
  <2>2. CASE r = q
    <3>1. /\ answer'[q].status = 200 => route[q] # "register"
          /\ route[q] = "profile" /\ answer'[q].status \in {200, 404} => call[q] = "read"
      BY <1>5, <2>2, ReplyToRead
    <3> QED
      BY <1>5, <1>b, <3>1 DEF Reply
  <2> QED
    BY <2>1, <2>2
<1>6. ASSUME NEW r \in Requests, TimeOut(r) \/ Disconnect(r) PROVE ReadFits(q)'
  <2>1. PICK a \in Responses : Respond(r, a) /\ a.status >= 500
    BY <1>6, ServerProblem DEF TimeOut, Disconnect, Proper
  <2>2. answer'[q] = answer[q] \/ (answer'[q].status \notin {200, 404})
    BY <1>0, <2>1 DEF Respond, Responses
  <2> QED
    BY <1>6, <1>b, <2>2 DEF TimeOut, Disconnect
<1>7. CASE Identity \/ Stop \/ Quiet \/ UNCHANGED allVars
  BY <1>7, <1>b DEF Identity, Stop, Quiet, allVars, gatewayVars
<1> QED
  BY <1>1, <1>2, <1>3, <1>4, <1>5, <1>6, <1>7 DEF GatewayNext

(* A client that reads a profile after it was told of a registration or an *)
(* update finds the account, and in it the update or another one's wish,   *)
(* however many calls overlap (GetProfile.execute behind the gateway).     *)
THEOREM ReadsFollow == GatewaySpec => []ReadsFollowWrites
<1>1. GatewayInit => ReadsFit
  BY DEF GatewayInit, ReadsFit, ReadFits, NoAnswer, Response
<1>2. GInv /\ ReadsFit => ReadsFollowWrites
  <2> SUFFICES ASSUME GInv, ReadsFit, NEW q \in Requests, NEW r \in Requests,
                      route[q] = "profile", answer[q].status \in {200, 404}, r \in before[q]
               PROVE  /\ route[r] = "register" /\ Fold[name[r]] = Fold[asked[q]] =>
                           seen[q].id = id[r]
                      /\ route[r] = "update" /\ seen[q].id = id[r] =>
                           \E q1, q2 \in Requests :
                             /\ id[q1] = id[r] /\ id[q2] = id[r]
                             /\ patch[r].displayName # Absent =>
                                  seen[q].displayName = patch[q1].displayName
                             /\ patch[r].bio # Absent => seen[q].bio = patch[q2].bio
    BY DEF ReadsFollowWrites
  <2>1. Follows(q, r)
    BY DEF ReadsFit, ReadFits
  <2> QED
    BY <2>1 DEF Follows
<1> QED
  BY <1>1, <1>2, ReadsFitStep, GatewayInvariant, PTL DEF GatewaySpec
-----------------------------------------------------------------------------
(* A deadline whose request stays open fires: WF_allVars(TimeOut(r)) with  *)
(* its condition, that the request is open, written out.                   *)
Fires(r) == <>[](r \in open) => []<><<TimeOut(r)>>_allVars
DeadlinesFire == \A r \in Requests : Fires(r)

IsAnswered(r) == r \in open ~> r \notin open

(* Nobody waits for ever: the deadlines alone see to it, whatever identity *)
(* does (IdentityGrpcClient.call).                                         *)
THEOREM EveryoneIsAnswered ==
  GatewaySpec /\ DeadlinesFire => EveryRequestIsAnswered
<1>1. ASSUME NEW r \in Requests
      PROVE  GatewaySpec /\ DeadlinesFire => IsAnswered(r)
  <2>1. TimeOut(r) => (r \notin open)'
    BY DEF TimeOut, Respond
  <2>2. DeadlinesFire => Fires(r)
    BY DEF DeadlinesFire
  <2>3. r \notin open <=> ~(r \in open)
    OBVIOUS
  <2> QED
    BY <2>1, <2>2, <2>3, PTL DEF Fires, IsAnswered
<1>2. GatewaySpec /\ DeadlinesFire => \A r \in Requests : IsAnswered(r)
  BY <1>1
<1> QED
  BY <1>2 DEF IsAnswered, EveryRequestIsAnswered

(* A call ends in identity, too, also one whose client was told 504: what  *)
(* is proved of Accounts alone holds of it behind the gateway.             *)
THEOREM GivenUpCallsEnd ==
  GatewaySpec /\ ServedInTurn => EveryCallEnds
BY DrivesAccounts, EveryCallIsServed, PTL
=============================================================================
