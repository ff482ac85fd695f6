--------------------------- MODULE Snowflake_proofs ---------------------------
(***************************************************************************)
(* Uniqueness and order of the ids of Snowflake, for every number of       *)
(* instances, every width of the sequence and the node id, and clocks that *)
(* are set in any way while the instances run; and what a restart can do   *)
(* to it, which is all that can.                                           *)
(***************************************************************************)
EXTENDS Snowflake, SequenceTheorems, TLAPS

(* e encodes an earlier slot than f.                                       *)
Before(e, f) == e.time < f.time \/ (e.time = f.time /\ e.seq < f.seq)

SameRun(e, f) == e.instance = f.instance /\ e.boot = f.boot

(* The fields of a running generator are at or past a slot of its run.     *)
Passed(e) ==
  LET n == e.instance IN
    \/ e.time < lastTimestamp[n]
    \/ e.time = lastTimestamp[n] /\ (waiting[n] \/ e.seq <= sequence[n])

Accounted(e) ==
  /\ e.boot <= boot[e.instance]
  /\ (up[e.instance] /\ e.boot = boot[e.instance]) => Passed(e)

FieldsSound ==
  /\ \A n \in Instances : waiting[n] => up[n] /\ sequence[n] = 0
  /\ \A i \in DOMAIN issued : Accounted(issued[i])

SlotsInOrder ==
  \A i, j \in DOMAIN issued :
    (i < j /\ SameRun(issued[i], issued[j])) => Before(issued[i], issued[j])

BootsInOrder ==
  \A i, j \in DOMAIN issued :
    (i < j /\ issued[i].instance = issued[j].instance) =>
      issued[i].boot <= issued[j].boot

IInv == TypeOK /\ FieldsSound /\ SlotsInOrder /\ BootsInOrder

-----------------------------------------------------------------------------
(* What the bits of an id give back.                                       *)

LEMMA Positional ==
  ASSUME NEW K \in Nat \ {0}, NEW a \in Int, NEW b \in Int,
         NEW x \in 0 .. K - 1, NEW y \in 0 .. K - 1, a < b
  PROVE  a * K + x < b * K + y
<1> DEFINE d == b - a - 1
<1>1. d \in Nat /\ b = a + 1 + d
  OBVIOUS
<1>2. d * K >= 0
  BY <1>1
<1>3. b * K = a * K + K + d * K
  BY <1>1
<1> QED
  BY <1>2, <1>3

LEMMA FieldsOfRecord ==
  ASSUME NEW e \in Records
  PROVE  /\ e.instance \in Instances /\ e.instance \in 0 .. MAX_NODE_ID
         /\ e.boot \in Nat /\ e.time \in Times /\ e.time \in Int
         /\ e.seq \in 0 .. MAX_SEQUENCE
<1>1. /\ e.instance \in Instances /\ e.boot \in Nat /\ e.time \in Times
      /\ e.seq \in 0 .. MAX_SEQUENCE
  BY DEF Records
<1>2. Instances \subseteq 0 .. MAX_NODE_ID /\ Times \subseteq Int
  BY NodeIdAssumption, BoundsAssumption DEF Times
<1> QED
  BY <1>1, <1>2

Bits(t, n, s) == (t * (MAX_NODE_ID + 1) + n) * (MAX_SEQUENCE + 1) + s

LEMMA BitsApart ==
  ASSUME NEW t \in Int, NEW u \in Int,
         NEW n \in 0 .. MAX_NODE_ID, NEW m \in 0 .. MAX_NODE_ID,
         NEW s \in 0 .. MAX_SEQUENCE, NEW r \in 0 .. MAX_SEQUENCE
  PROVE  /\ t < u => Bits(t, n, s) < Bits(u, m, r)
         /\ s < r => Bits(t, n, s) < Bits(t, n, r)
         /\ Bits(t, n, s) = Bits(u, m, r) => t = u /\ n = m /\ s = r
<1> DEFINE N == MAX_NODE_ID + 1
           S == MAX_SEQUENCE + 1
           a == t * N + n
           b == u * N + m
<1>1. /\ N \in Nat \ {0} /\ S \in Nat \ {0}
      /\ n \in 0 .. N - 1 /\ m \in 0 .. N - 1 /\ s \in 0 .. S - 1 /\ r \in 0 .. S - 1
  BY NodeIdAssumption
<1>2. /\ Bits(t, n, s) = a * S + s /\ Bits(u, m, r) = b * S + r
      /\ Bits(t, n, r) = a * S + r
  BY DEF Bits
<1> HIDE DEF N, S
<1>3. a \in Int /\ b \in Int
  BY <1>1
<1>4. (t < u => a < b) /\ (u < t => b < a)
  BY <1>1, Positional
<1>5. t = u /\ a = b => n = m
  BY <1>1
<1> HIDE DEF a, b
<1>6. (a < b => a * S + s < b * S + r) /\ (b < a => b * S + r < a * S + s)
  BY <1>1, <1>3, Positional
<1>7. a * S \in Int /\ b * S \in Int /\ (a = b => a * S = b * S)
  BY <1>1, <1>3
<1>8. /\ t < u => a * S + s < b * S + r
      /\ s < r => a * S + s < a * S + r
      /\ a * S + s = b * S + r => t = u /\ n = m /\ s = r
  BY <1>1, <1>3, <1>4, <1>5, <1>6, <1>7
<1> QED
  BY <1>2, <1>8

(* Within an instance ids are ordered as their slots are.                  *)
LEMMA IdFollowsSlot ==
  ASSUME NEW e \in Records, NEW f \in Records,
         e.instance = f.instance, Before(e, f)
  PROVE  Id(e) < Id(f)
<1>1. /\ Id(e) = Bits(e.time, e.instance, e.seq)
      /\ Id(f) = Bits(f.time, f.instance, f.seq)
  BY DEF Id, Bits
<1> QED
  BY <1>1, FieldsOfRecord, BitsApart DEF Before

(* Equal ids encode the same slot of the same instance.                    *)
LEMMA IdGivesBackSlot ==
  ASSUME NEW e \in Records, NEW f \in Records, Id(e) = Id(f)
  PROVE  e.instance = f.instance /\ e.time = f.time /\ e.seq = f.seq
<1>1. /\ Id(e) = Bits(e.time, e.instance, e.seq)
      /\ Id(f) = Bits(f.time, f.instance, f.seq)
  BY DEF Id, Bits
<1>2. /\ e.time \in Int /\ f.time \in Int
      /\ e.instance \in 0 .. MAX_NODE_ID /\ f.instance \in 0 .. MAX_NODE_ID
      /\ e.seq \in 0 .. MAX_SEQUENCE /\ f.seq \in 0 .. MAX_SEQUENCE
  BY FieldsOfRecord
<1>3. Bits(e.time, e.instance, e.seq) = Bits(f.time, f.instance, f.seq)
  BY <1>1
<1> QED
  BY <1>2, <1>3, BitsApart

(* The log is a sequence of records, and issuing adds one at its end.      *)
LEMMA Log ==
  ASSUME TypeOK
  PROVE  /\ DOMAIN issued = 1 .. Len(issued) /\ Len(issued) \in Nat
         /\ \A i \in DOMAIN issued : issued[i] \in Records
BY LenProperties, ElementOfSeq DEF TypeOK

LEMMA LongerLog ==
  ASSUME TypeOK, NEW n \in Instances, NEW t \in Times, NEW s \in 0 .. MAX_SEQUENCE,
         Issue(n, t, s)
  PROVE  LET new == Record(n, t, s) IN
         /\ new \in Records
         /\ new.instance = n /\ new.boot = boot[n] /\ new.time = t /\ new.seq = s
         /\ issued' \in Seq(Records)
         /\ DOMAIN issued' = DOMAIN issued \cup {Len(issued) + 1}
         /\ issued'[Len(issued) + 1] = new
         /\ \A i \in DOMAIN issued : issued'[i] = issued[i] /\ i < Len(issued) + 1
<1> DEFINE new == Record(n, t, s)
<1>1. /\ new \in Records
      /\ new.instance = n /\ new.boot = boot[n] /\ new.time = t /\ new.seq = s
  BY BoundsAssumption DEF Record, Records, TypeOK
<1> HIDE DEF new
<1>2. issued \in Seq(Records) /\ issued' = Append(issued, new)
  BY DEF Issue, TypeOK, new
<1>3. /\ issued' \in Seq(Records)
      /\ Len(issued') = Len(issued) + 1
      /\ issued'[Len(issued) + 1] = new
      /\ \A i \in 1 .. Len(issued) : issued'[i] = issued[i]
  BY <1>1, <1>2, AppendProperties
<1>4. DOMAIN issued' = 1 .. Len(issued') /\ DOMAIN issued = 1 .. Len(issued)
  BY <1>2, <1>3, LenProperties
<1>5. Len(issued) \in Nat
  BY <1>2, LenProperties
<1> QED
  BY <1>1, <1>3, <1>4, <1>5 DEF new

-----------------------------------------------------------------------------
LEMMA InvariantInit == Init => IInv
BY NodeIdAssumption, BoundsAssumption, EmptySeq
DEF Init, IInv, TypeOK, Times, FieldsSound, SlotsInOrder, BootsInOrder

(* A step that issues appends a slot past every slot of its run, and the   *)
(* fields it leaves behind are that slot.                                  *)
LEMMA IssueStep ==
  ASSUME IInv, NEW n \in Instances, NEW t \in Times, NEW s \in 0 .. MAX_SEQUENCE,
         Issue(n, t, s), up[n],
         waiting' \in [Instances -> BOOLEAN],
         timestamp' \in [Instances -> Times \cup {-1}],
         \A m \in Instances : waiting'[m] = (waiting[m] /\ m # n),
         t > lastTimestamp[n] \/ (t = lastTimestamp[n] /\ ~waiting[n] /\ s > sequence[n])
  PROVE  IInv'
<1> DEFINE new == Record(n, t, s)
<1>1. /\ new \in Records
      /\ new.instance = n /\ new.boot = boot[n] /\ new.time = t /\ new.seq = s
      /\ issued' \in Seq(Records)
      /\ DOMAIN issued' = DOMAIN issued \cup {Len(issued) + 1}
      /\ issued'[Len(issued) + 1] = new
      /\ \A i \in DOMAIN issued : issued'[i] = issued[i] /\ i < Len(issued) + 1
  BY LongerLog DEF IInv
<1> HIDE DEF new
<1>2. /\ DOMAIN issued = 1 .. Len(issued) /\ Len(issued) \in Nat
      /\ \A i \in DOMAIN issued : issued[i] \in Records
  BY Log DEF IInv
<1>3. /\ clock' = clock /\ up' = up /\ boot' = boot
      /\ lastTimestamp' = [lastTimestamp EXCEPT ![n] = t]
      /\ sequence' = [sequence EXCEPT ![n] = s]
      /\ lastTimestamp \in [Instances -> Times \cup {-1}]
      /\ sequence \in [Instances -> 0 .. MAX_SEQUENCE]
      /\ \A x \in Times \cup {-1} : x \in Int
  BY BoundsAssumption DEF Issue, IInv, TypeOK, Times
<1>4. TypeOK'
  BY <1>1, <1>3 DEF IInv, TypeOK
<1>5. ASSUME NEW e \in Records, Accounted(e), SameRun(e, new)
      PROVE  Before(e, new)
  <2>1. Passed(e)
    BY <1>1, <1>5 DEF Accounted, SameRun
  <2>2. e.instance = n
    BY <1>1, <1>5 DEF SameRun
  <2>3. e.time \in Int /\ e.seq \in 0 .. MAX_SEQUENCE
    BY <1>5, FieldsOfRecord
  <2>4. lastTimestamp[n] \in Times \cup {-1} /\ sequence[n] \in 0 .. MAX_SEQUENCE
    BY <1>3
  <2>5. lastTimestamp[n] \in Int /\ t \in Int
    BY <1>3, <2>4
  <2> QED
    BY <1>1, <2>1, <2>2, <2>3, <2>4, <2>5, NodeIdAssumption DEF Passed, Before
<1>6. SlotsInOrder'
  BY <1>1, <1>2, <1>5 DEF IInv, FieldsSound, SlotsInOrder
<1>7. \A m \in Instances : waiting'[m] => up'[m] /\ sequence'[m] = 0
  BY <1>3 DEF IInv, FieldsSound
<1>8. ASSUME NEW e \in Records, e = new
      PROVE  Accounted(e)'
  BY <1>1, <1>3, <1>8, BoundsAssumption DEF Accounted, Passed, IInv, TypeOK
<1>9. ASSUME NEW e \in Records, Accounted(e)
      PROVE  Accounted(e)'
  <2>1. e.instance \in Instances /\ e.time \in Int /\ e.seq \in Int
    BY FieldsOfRecord, NodeIdAssumption
  <2>2. CASE e.instance = n
    <3>1. e.boot = boot[n] => Before(e, new)
      BY <1>1, <1>5, <1>9, <2>2 DEF SameRun
    <3> QED
      BY <1>1, <1>3, <1>9, <2>1, <2>2, <3>1 DEF Accounted, Passed, Before
  <2>3. CASE e.instance # n
    BY <1>3, <1>9, <2>1, <2>3 DEF Accounted, Passed
  <2> QED
    BY <2>2, <2>3
<1>10. \A i \in DOMAIN issued' : Accounted(issued[i])'
  <2> SUFFICES ASSUME NEW i \in DOMAIN issued' PROVE Accounted(issued[i])'
    OBVIOUS
  <2>1. CASE i \in DOMAIN issued
    BY <1>1, <1>2, <1>9, <2>1 DEF IInv, FieldsSound
  <2>2. CASE i = Len(issued) + 1
    BY <1>1, <1>8, <2>2
  <2> QED
    BY <1>1, <2>1, <2>2
<1>11. FieldsSound'
  BY <1>7, <1>10 DEF FieldsSound
<1>12. ASSUME NEW e \in Records, Accounted(e), e.instance = n
       PROVE  e.boot <= new.boot
  BY <1>1, <1>12 DEF Accounted
<1>13. BootsInOrder'
  <2> SUFFICES ASSUME NEW i \in DOMAIN issued', NEW j \in DOMAIN issued', i < j,
                      issued'[i].instance = issued'[j].instance
               PROVE  issued'[i].boot <= issued'[j].boot
    BY DEF BootsInOrder
  <2>1. CASE j \in DOMAIN issued
    <3>1. i \in DOMAIN issued
      BY <1>1, <1>2, <2>1
    <3> QED
      BY <1>1, <2>1, <3>1 DEF IInv, BootsInOrder
  <2>2. CASE j = Len(issued) + 1
    <3>1. i \in DOMAIN issued
      BY <1>1, <1>2, <2>2
    <3>2. issued[i] \in Records /\ Accounted(issued[i]) /\ issued'[i] = issued[i]
      BY <1>1, <1>2, <3>1 DEF IInv, FieldsSound
    <3> QED
      BY <1>1, <1>12, <2>2, <3>2
  <2> QED
    BY <1>1, <2>1, <2>2
<1> QED
  BY <1>4, <1>6, <1>11, <1>13 DEF IInv

(* A step that issues nothing leaves the log and what is said of it alone. *)
LEMMA QuietStep ==
  ASSUME IInv, UNCHANGED issued, TypeOK',
         \A m \in Instances : waiting'[m] => up'[m] /\ sequence'[m] = 0,
         \A e \in Records : Accounted(e) => Accounted(e)'
  PROVE  IInv'
<1>1. FieldsSound'
  BY Log DEF IInv, FieldsSound
<1>2. SlotsInOrder' /\ BootsInOrder'
  BY DEF IInv, SlotsInOrder, BootsInOrder
<1> QED
  BY <1>1, <1>2 DEF IInv

LEMMA InvariantStep == IInv /\ [Next]_vars => IInv'
<1> SUFFICES ASSUME IInv, [Next]_vars PROVE IInv'
  OBVIOUS
<1> USE NodeIdAssumption, BoundsAssumption DEF fields, call
<1>1. ASSUME NEW n \in Instances, Boot(n) PROVE IInv'
  <2>1. TypeOK'
    BY <1>1 DEF Boot, IInv, TypeOK
  <2>2. \A e \in Records : Accounted(e) => Accounted(e)'
    BY <1>1, FieldsOfRecord DEF Boot, IInv, TypeOK, Accounted, Passed
  <2> QED
    BY <1>1, <2>1, <2>2, QuietStep DEF Boot, IInv, TypeOK, FieldsSound
<1>2. ASSUME NEW n \in Instances, Crash(n) PROVE IInv'
  <2>1. TypeOK'
    BY <1>2 DEF Crash, WaitIsOver, IInv, TypeOK, Times
  <2>2. \A e \in Records : Accounted(e) => Accounted(e)'
    BY <1>2, FieldsOfRecord DEF Crash, WaitIsOver, IInv, TypeOK, Accounted, Passed
  <2> QED
    BY <1>2, <2>1, <2>2, QuietStep DEF Crash, WaitIsOver, IInv, TypeOK, FieldsSound
<1>3. ASSUME NEW n \in Instances, IssueInNewMillisecond(n) PROVE IInv'
  <2>1. /\ clock[n] \in Times /\ 0 \in 0 .. MAX_SEQUENCE
        /\ \A m \in Instances : waiting[m] \in BOOLEAN
    BY DEF IInv, TypeOK
  <2>2. /\ \A m \in Instances : waiting'[m] = (waiting[m] /\ m # n)
        /\ waiting' \in [Instances -> BOOLEAN]
        /\ timestamp' \in [Instances -> Times \cup {-1}]
    BY <1>3, <2>1 DEF IssueInNewMillisecond, Calls, IssueAtOnce, IInv, TypeOK
  <2> QED
    BY <1>3, <2>1, <2>2, IssueStep DEF IssueInNewMillisecond, Calls, IssueAtOnce
<1>4. ASSUME NEW n \in Instances, IssueInSameMillisecond(n) PROVE IInv'
  <2>1. /\ clock[n] \in Times /\ sequence[n] + 1 \in 0 .. MAX_SEQUENCE
        /\ sequence[n] + 1 > sequence[n]
    BY <1>4 DEF IssueInSameMillisecond, IInv, TypeOK
  <2>2. /\ \A m \in Instances : waiting'[m] = (waiting[m] /\ m # n)
        /\ waiting' \in [Instances -> BOOLEAN]
        /\ timestamp' \in [Instances -> Times \cup {-1}]
    BY <1>4 DEF IssueInSameMillisecond, Calls, IssueAtOnce, IInv, TypeOK
  <2> QED
    BY <1>4, <2>1, <2>2, IssueStep DEF IssueInSameMillisecond, Calls, IssueAtOnce
<1>5. ASSUME NEW n \in Instances, WaitForNextMillisecond(n) PROVE IInv'
  <2>1. TypeOK'
    BY <1>5 DEF WaitForNextMillisecond, IInv, TypeOK, Times
  <2>2. \A e \in Records : Accounted(e) => Accounted(e)'
    BY <1>5, FieldsOfRecord DEF WaitForNextMillisecond, IInv, TypeOK, Accounted, Passed
  <2> QED
    BY <1>5, <2>1, <2>2, QuietStep
    DEF WaitForNextMillisecond, Calls, IInv, TypeOK, FieldsSound
<1>6. ASSUME NEW n \in Instances, KeepWaiting(n) PROVE IInv'
  <2>1. TypeOK'
    BY <1>6 DEF KeepWaiting, IInv, TypeOK, Times
  <2>2. \A e \in Records : Accounted(e) => Accounted(e)'
    BY <1>6 DEF KeepWaiting, Accounted, Passed
  <2> QED
    BY <1>6, <2>1, <2>2, QuietStep DEF KeepWaiting, IInv, FieldsSound
<1>7. ASSUME NEW n \in Instances, StopWaiting(n) PROVE IInv'
  <2>1. clock[n] \in Times /\ sequence[n] \in 0 .. MAX_SEQUENCE /\ up[n]
    BY <1>7 DEF StopWaiting, WaitIsOver, IInv, TypeOK, FieldsSound
  <2>2. /\ \A m \in Instances : waiting'[m] = (waiting[m] /\ m # n)
        /\ waiting' \in [Instances -> BOOLEAN]
        /\ timestamp' \in [Instances -> Times \cup {-1}]
    BY <1>7 DEF StopWaiting, WaitIsOver, IInv, TypeOK
  <2> QED
    BY <1>7, <2>1, <2>2, IssueStep DEF StopWaiting
<1>8. ASSUME NEW n \in Instances, NEW t \in Times, MoveClock(n, t) PROVE IInv'
  <2>1. TypeOK'
    BY <1>8 DEF MoveClock, IInv, TypeOK
  <2>2. \A e \in Records : Accounted(e) => Accounted(e)'
    BY <1>8 DEF MoveClock, Accounted, Passed
  <2> QED
    BY <1>8, <2>1, <2>2, QuietStep DEF MoveClock, IInv, FieldsSound
<1>9. CASE UNCHANGED vars
  <2>1. TypeOK'
    BY <1>9 DEF vars, IInv, TypeOK
  <2>2. \A e \in Records : Accounted(e) => Accounted(e)'
    BY <1>9 DEF vars, Accounted, Passed
  <2> QED
    BY <1>9, <2>1, <2>2, QuietStep DEF vars, IInv, FieldsSound
<1> QED
  BY <1>1, <1>2, <1>3, <1>4, <1>5, <1>6, <1>7, <1>8, <1>9 DEF Next, Refuse

LEMMA Invariant == Spec => []IInv
BY InvariantInit, InvariantStep, PTL DEF Spec

(* Steady runs are runs, and what makes them steady stays true of the log. *)
LEMMA Steady == SteadySpec => Spec /\ []RunsApart(issued)
<1>1. Init => RunsApart(issued)
  BY DEF Init, RunsApart
<1>2. RunsApart(issued) /\ [Next /\ RunsApart(issued')]_vars => RunsApart(issued)'
  BY DEF vars, RunsApart
<1>3. [Next /\ RunsApart(issued')]_vars => [Next]_vars
  OBVIOUS
<1> QED
  BY <1>1, <1>2, <1>3, PTL DEF SteadySpec, Spec

(* The fields and the ids keep their widths: no sequence runs into the     *)
(* bits of the node id, whatever the clocks do.                            *)
THEOREM TypeCorrect == Spec => []TypeOK
<1>1. IInv => TypeOK
  BY DEF IInv
<1> QED
  BY <1>1, Invariant, PTL

(* The ids of one run increase, whatever the clocks do.                    *)
THEOREM Increasing == Spec => []IdsIncrease
<1>1. IInv => IdsIncrease
  <2> SUFFICES ASSUME IInv, NEW i \in DOMAIN issued, NEW j \in DOMAIN issued,
                      i < j, SameRun(issued[i], issued[j])
               PROVE  Id(issued[i]) < Id(issued[j])
    BY DEF IdsIncrease, SameRun
  <2>1. issued[i] \in Records /\ issued[j] \in Records
    BY Log DEF IInv
  <2>2. Before(issued[i], issued[j])
    BY DEF IInv, SlotsInOrder
  <2> QED
    BY <2>1, <2>2, IdFollowsSlot DEF SameRun
<1> QED
  BY <1>1, Invariant, PTL

-----------------------------------------------------------------------------
(* What is left of uniqueness when nothing is assumed of the clocks: an id *)
(* comes twice only from one instance, in one slot, and after a restart.   *)
OnlyRestartsRepeat ==
  \A i, j \in DOMAIN issued :
    (i < j /\ Id(issued[i]) = Id(issued[j])) =>
      /\ issued[i].instance = issued[j].instance
      /\ issued[i].time = issued[j].time /\ issued[i].seq = issued[j].seq
      /\ issued[i].boot < issued[j].boot

(* And of the promise never to issue from an earlier millisecond: only the *)
(* loss of the fields at a restart breaks it.                              *)
OnlyRestartsGoBack ==
  \A i, j \in DOMAIN issued :
    (/\ i < j
     /\ issued[i].instance = issued[j].instance
     /\ issued[j].time < issued[i].time) => issued[i].boot < issued[j].boot

(* The fields of a run keep its own slots apart, and starts are counted.   *)
LEMMA RestartsExplain == IInv => OnlyRestartsRepeat /\ OnlyRestartsGoBack
<1> SUFFICES ASSUME IInv, NEW i \in DOMAIN issued, NEW j \in DOMAIN issued, i < j
             PROVE  LET e == issued[i]
                        f == issued[j] IN
                    /\ Id(e) = Id(f) => /\ e.instance = f.instance
                                        /\ e.time = f.time /\ e.seq = f.seq
                                        /\ e.boot < f.boot
                    /\ e.instance = f.instance /\ f.time < e.time => e.boot < f.boot
  BY DEF OnlyRestartsRepeat, OnlyRestartsGoBack
<1> DEFINE e == issued[i]
           f == issued[j]
<1>1. e \in Records /\ f \in Records
  BY Log DEF IInv
<1>2. e.instance = f.instance => e.boot <= f.boot
  BY DEF IInv, BootsInOrder
<1>3. SameRun(e, f) => Before(e, f)
  BY DEF IInv, SlotsInOrder
<1> HIDE DEF e, f
<1>4. /\ e.boot \in Int /\ e.time \in Int /\ e.seq \in Int
      /\ f.boot \in Int /\ f.time \in Int /\ f.seq \in Int
  BY <1>1, FieldsOfRecord
<1>5. Id(e) = Id(f) =>
        e.instance = f.instance /\ e.time = f.time /\ e.seq = f.seq
  BY <1>1, IdGivesBackSlot
<1>6. e.instance = f.instance /\ e.boot = f.boot => Before(e, f)
  BY <1>3 DEF SameRun
<1>7. /\ Id(e) = Id(f) => /\ e.instance = f.instance
                          /\ e.time = f.time /\ e.seq = f.seq
                          /\ e.boot < f.boot
      /\ e.instance = f.instance /\ f.time < e.time => e.boot < f.boot
  BY <1>2, <1>4, <1>5, <1>6 DEF Before
<1> QED
  BY <1>7 DEF e, f

(* Whatever the clocks do, only a restart makes next() repeat an id or go  *)
(* back to a millisecond (snowflake-generator.ts, #lastTimestamp).         *)
THEOREM RestartsAloneRepeat == Spec => [](OnlyRestartsRepeat /\ OnlyRestartsGoBack)
BY RestartsExplain, Invariant, PTL

(* No id is issued twice, given that the runs of an instance lie apart.    *)
THEOREM Unique == SteadySpec => []NoIdIssuedTwice
<1>1. IInv /\ RunsApart(issued) => NoIdIssuedTwice
  <2> SUFFICES ASSUME IInv, RunsApart(issued),
                      NEW i \in DOMAIN issued, NEW j \in DOMAIN issued,
                      Id(issued[i]) = Id(issued[j]), i < j
               PROVE  FALSE
    BY Log DEF NoIdIssuedTwice, IInv
  <2>1. /\ issued[i].instance = issued[j].instance
        /\ issued[i].time = issued[j].time
        /\ issued[i].boot < issued[j].boot
    BY RestartsExplain DEF OnlyRestartsRepeat
  <2>2. issued[i].time \in Int
    BY Log, FieldsOfRecord DEF IInv
  <2> QED
    BY <2>1, <2>2 DEF RunsApart
<1> QED
  BY <1>1, Invariant, Steady, PTL
===============================================================================
