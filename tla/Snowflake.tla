------------------------------ MODULE Snowflake ------------------------------
(***************************************************************************)
(* The id generator every service instance holds one of: next() answers    *)
(* from the host's clock and two fields, and is synchronous, so a call is  *)
(* one step unless it has to wait for the clock.  The host's clock may be  *)
(* set forwards or backwards at any moment, also while a call waits, and   *)
(* an instance may die and be started again with its fields gone.          *)
(***************************************************************************)
EXTENDS Integers, Sequences

CONSTANTS
  Instances,      \* the service instances, named by SNOWFLAKE_NODE_ID
  MAX_NODE_ID,    \* 1023 in the source
  MAX_SEQUENCE,   \* 4095 in the source
  BeforeEpoch,    \* bound on how far behind the epoch a clock may be set
  MaxTime,        \* bound on the clocks, in ms since the epoch
  MaxBoots,       \* bound on the starts of an instance
  MaxIds          \* bound on the ids issued

(* assertValidNodeId refuses a node id out of range.  That no two running  *)
(* instances share one is what the deployment has to see to.               *)
ASSUME NodeIdAssumption ==
  /\ MAX_NODE_ID \in Nat /\ MAX_SEQUENCE \in Nat
  /\ Instances \subseteq 0 .. MAX_NODE_ID
ASSUME BoundsAssumption ==
  /\ BeforeEpoch \in Nat /\ MaxTime \in Nat
  /\ MaxBoots \in Nat /\ MaxIds \in Nat

VARIABLES
  clock,          \* the host clock of each instance
  up,             \* whether the instance runs
  boot,           \* how often it was started
  lastTimestamp,  \* #lastTimestamp
  sequence,       \* #sequence
  waiting,        \* whether its call is in #waitForNextMillisecond
  timestamp,      \* the reading that wait last took, -1 outside a wait
  issued          \* every id issued, in order, with the fields it encodes

fields == <<lastTimestamp, sequence>>
call == <<waiting, timestamp>>
vars == <<clock, up, boot, fields, call, issued>>

(* The time before the epoch is within reach of a clock that is set back   *)
(* after the constructor has looked at it.                                 *)
Times == -BeforeEpoch .. MaxTime

Records ==
  [instance : Instances, boot : Nat, time : Times, seq : 0 .. MAX_SEQUENCE]
Record(n, t, s) == [instance |-> n, boot |-> boot[n], time |-> t, seq |-> s]

(* The bits of an id: timestamp, node id, sequence.                        *)
Id(e) ==
  (e.time * (MAX_NODE_ID + 1) + e.instance) * (MAX_SEQUENCE + 1) + e.seq

Init ==
  /\ clock = [n \in Instances |-> 0]
  /\ up = [n \in Instances |-> FALSE]
  /\ boot = [n \in Instances |-> 0]
  /\ lastTimestamp = [n \in Instances |-> -1]
  /\ sequence = [n \in Instances |-> 0]
  /\ waiting = [n \in Instances |-> FALSE]
  /\ timestamp = [n \in Instances |-> -1]
  /\ issued = <<>>

-----------------------------------------------------------------------------
(* The constructor: new fields, unless the clock reads before the epoch.   *)
Boot(n) ==
  /\ ~up[n]
  /\ boot[n] < MaxBoots
  /\ clock[n] >= 0
  /\ up' = [up EXCEPT ![n] = TRUE]
  /\ boot' = [boot EXCEPT ![n] = @ + 1]
  /\ lastTimestamp' = [lastTimestamp EXCEPT ![n] = -1]
  /\ sequence' = [sequence EXCEPT ![n] = 0]
  /\ UNCHANGED <<clock, call, issued>>

WaitIsOver(n) ==
  /\ waiting' = [waiting EXCEPT ![n] = FALSE]
  /\ timestamp' = [timestamp EXCEPT ![n] = -1]

Crash(n) ==
  /\ up[n]
  /\ up' = [up EXCEPT ![n] = FALSE]
  /\ WaitIsOver(n)
  /\ UNCHANGED <<clock, boot, fields, issued>>

(* The end of next(): the id is built from the fields and handed out.      *)
Issue(n, t, s) ==
  /\ Len(issued) < MaxIds
  /\ lastTimestamp' = [lastTimestamp EXCEPT ![n] = t]
  /\ sequence' = [sequence EXCEPT ![n] = s]
  /\ issued' = Append(issued, Record(n, t, s))
  /\ UNCHANGED <<clock, up, boot>>

Calls(n) == up[n] /\ ~waiting[n]

(* A call that does not wait.                                              *)
IssueAtOnce(n, s) == Calls(n) /\ Issue(n, clock[n], s) /\ UNCHANGED call

(* Fault: the test for a clock behind the last id is missing.              *)
IssueInAnotherMillisecond(n) ==
  clock[n] # lastTimestamp[n] /\ IssueAtOnce(n, 0)

(* The clock has moved on since the last id.                               *)
IssueInNewMillisecond(n) ==
  clock[n] > lastTimestamp[n] /\ IssueAtOnce(n, 0)

(* Fault: the mask has a bit too many.                                     *)
IssueBeyondTheMask(n) ==
  clock[n] = lastTimestamp[n] /\ IssueAtOnce(n, sequence[n] + 1)

(* The next slot of the same millisecond.                                  *)
IssueInSameMillisecond(n) ==
  /\ clock[n] = lastTimestamp[n]
  /\ sequence[n] < MAX_SEQUENCE
  /\ IssueAtOnce(n, sequence[n] + 1)

(* The slots are spent: the sequence wraps to 0 and the call waits.        *)
WaitForNextMillisecond(n) ==
  /\ Calls(n)
  /\ clock[n] = lastTimestamp[n]
  /\ sequence[n] = MAX_SEQUENCE
  /\ sequence' = [sequence EXCEPT ![n] = 0]
  /\ waiting' = [waiting EXCEPT ![n] = TRUE]
  /\ timestamp' = [timestamp EXCEPT ![n] = clock[n]]
  /\ UNCHANGED <<clock, up, boot, lastTimestamp, issued>>

(* The clock reads behind the last id: SnowflakeClockError.                *)
Refuse(n) ==
  /\ Calls(n)
  /\ clock[n] < lastTimestamp[n]
  /\ UNCHANGED vars

(* The loop reads a clock that has not passed the spent millisecond.       *)
KeepWaiting(n) ==
  /\ waiting[n]
  /\ clock[n] <= lastTimestamp[n]
  /\ timestamp' = [timestamp EXCEPT ![n] = clock[n]]
  /\ UNCHANGED <<clock, up, boot, fields, waiting, issued>>

(* Fault: the loop ends as soon as the clock is not behind.                *)
StopWaitingTooSoon(n) ==
  /\ waiting[n]
  /\ clock[n] >= lastTimestamp[n]
  /\ Issue(n, clock[n], sequence[n])
  /\ WaitIsOver(n)

(* The loop reads a later millisecond.                                     *)
StopWaiting(n) ==
  /\ waiting[n]
  /\ clock[n] > lastTimestamp[n]
  /\ Issue(n, clock[n], sequence[n])
  /\ WaitIsOver(n)

(* Time passes, or somebody sets the host's clock.                         *)
MoveClock(n, t) ==
  /\ clock' = [clock EXCEPT ![n] = t]
  /\ UNCHANGED <<up, boot, fields, call, issued>>

Next ==
  \E n \in Instances :
    \/ Boot(n) \/ Crash(n)
    \/ IssueInNewMillisecond(n) \/ IssueInSameMillisecond(n)
    \/ WaitForNextMillisecond(n) \/ KeepWaiting(n) \/ StopWaiting(n)
    \/ Refuse(n)
    \/ \E t \in Times : MoveClock(n, t)

Spec == Init /\ [][Next]_vars

(* What the code cannot see and relies on: a start takes longer than a     *)
(* millisecond, and no clock is set back across one.                       *)
RunsApart(log) ==
  \A i, j \in DOMAIN log :
    (log[i].instance = log[j].instance /\ log[i].boot < log[j].boot) =>
      log[i].time < log[j].time

SteadySpec == Init /\ [][Next /\ RunsApart(issued')]_vars

-----------------------------------------------------------------------------
(* The fields hold what next() can put there.                              *)
TypeOK ==
  /\ clock \in [Instances -> Times]
  /\ up \in [Instances -> BOOLEAN]
  /\ boot \in [Instances -> 0 .. MaxBoots]
  /\ lastTimestamp \in [Instances -> Times \cup {-1}]
  /\ sequence \in [Instances -> 0 .. MAX_SEQUENCE]
  /\ waiting \in [Instances -> BOOLEAN]
  /\ timestamp \in [Instances -> Times \cup {-1}]
  /\ issued \in Seq(Records)

(* No id is issued twice: not by two instances in one millisecond, not     *)
(* when the slots of a millisecond run out, and not when the clock is set  *)
(* back under a running generator.                                         *)
NoIdIssuedTwice ==
  \A i, j \in DOMAIN issued : Id(issued[i]) = Id(issued[j]) => i = j

(* Sorting by id sorts by time: the ids of one run increase, whatever the  *)
(* clock does under it and however long a call had to wait.                *)
IdsIncrease ==
  \A i, j \in DOMAIN issued :
    (/\ i < j
     /\ issued[i].instance = issued[j].instance
     /\ issued[i].boot = issued[j].boot) => Id(issued[i]) < Id(issued[j])

(* An id is never issued from a clock behind the one an earlier id of the  *)
(* instance was issued from: rather than that, the generator throws.       *)
NeverIssuesFromAnEarlierMillisecond ==
  \A i, j \in DOMAIN issued :
    (i < j /\ issued[i].instance = issued[j].instance) =>
      issued[i].time <= issued[j].time

(* A clock that has moved backwards makes the generator throw: a call that *)
(* is still waiting has not read a clock behind its millisecond.           *)
WaitsOnlyOutItsMillisecond ==
  \A n \in Instances : waiting[n] => timestamp[n] = lastTimestamp[n]
=============================================================================
