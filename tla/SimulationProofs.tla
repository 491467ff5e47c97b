-------------------------- MODULE SimulationProofs --------------------------
(***************************************************************************)
(* Theorems about simulations, for every cluster and workload: the loop of *)
(* BaseSim, the carbon model of CarbonModel, and the runs of PolicyRun,    *)
(* where policies place the workloads of the loop.                         *)
(*                                                                         *)
(* Each invariant of the loop is proved from the ones before it:           *)
(*   TypeInv       types, and where the cursors of the scan may be         *)
(*   OnceInv       every workload is in one place                          *)
(*   LedgerInv     a node's books match its reservations                   *)
(*   LogInv        a log entry holds its node until its end                *)
(*   MatchInv      a reservation is of a log entry that is not over        *)
(*   GreedyInv     what a scan keeps no node can take                      *)
(* A simulation is a run of the loop, so that all of them hold in it       *)
(* (LoopInv); RowInv adds that its row is made of its log.                 *)
(***************************************************************************)
EXTENDS PolicyRun, PoliciesProofs, SequenceTheorems

-----------------------------------------------------------------------------
(* Types                                                                   *)

(* Before Run nothing has arrived, run or been reserved; during a round    *)
(* the write position of the filtered queue stays behind the read one.     *)
PcInv ==
    /\ pc = "build" => /\ arrived = 0 /\ queue = <<>> /\ pending = <<>>
                       /\ log = <<>> /\ traces = <<>>
                       /\ resv = [n \in Nodes |-> {}]
    /\ pc = "scan" => kept < cursor /\ cursor <= Len(queue) + 1

TypeInv == TypeOK /\ PcInv

LEMMA ArrivalsRange ==
    ASSUME TypeOK
    PROVE  /\ Cardinality(Arrivals) \in Nat
           /\ arrived + Cardinality(Arrivals) <= Len(pending)
<1>1. Len(pending) \in Nat /\ arrived \in Nat /\ arrived <= Len(pending)
  BY DEF TypeOK
<1>2. /\ IsFiniteSet(arrived + 1 .. Len(pending))
      /\ Cardinality(arrived + 1 .. Len(pending)) = Len(pending) - arrived
  <2>1. arrived + 1 \in Int /\ Len(pending) \in Int
    BY <1>1
  <2>2. /\ IsFiniteSet(arrived + 1 .. Len(pending))
        /\ Cardinality(arrived + 1 .. Len(pending)) =
             IF arrived + 1 > Len(pending) THEN 0 ELSE Len(pending) - (arrived + 1) + 1
    BY <2>1, FS_Interval, Zenon
  <2> QED
    BY <1>1, <2>2
<1>3. /\ IsFiniteSet(Arrivals)
      /\ Cardinality(Arrivals) <= Cardinality(arrived + 1 .. Len(pending))
  BY <1>2, FS_Subset DEF Arrivals
<1> QED
  BY <1>1, <1>2, <1>3, FS_CardinalityType

LEMMA EntryTypes ==
    ASSUME TypeOK, NEW x \in DOMAIN log
    PROVE  /\ log[x].job \in Jobs /\ log[x].node \in Nodes
           /\ log[x].start \in Nat /\ log[x].end \in Nat
<1>1. log \in Seq(LogEntry)
  BY DEF TypeOK
<1>2. log[x] \in LogEntry
  BY <1>1
<1> QED
  BY <1>2 DEF LogEntry

LEMMA TypeInit == Init => TypeInv
BY ResourceAssumption, InputAssumption DEF Init, TypeInv, TypeOK, PcInv

LEMMA TypeStep == TypeInv /\ [Next]_vars => TypeInv'
<1> SUFFICES ASSUME TypeInv, [Next]_vars PROVE TypeInv'
  OBVIOUS
<1> USE DEF TypeInv, inputs, ledger, outputs
<1>1. ASSUME NEW j \in Jobs, AddWorkload(j) PROVE TypeInv'
  BY <1>1 DEF AddWorkload, TypeOK, PcInv
<1>2. ASSUME NEW n \in BatchSizes, SetScheduleBatchSize(n) PROVE TypeInv'
  BY <1>2, InputAssumption DEF SetScheduleBatchSize, TypeOK, PcInv
<1>3. ASSUME StartRun PROVE TypeInv'
  <2>1. Cardinality(added) \in Nat
    BY JobsAssumption, FS_Subset, FS_CardinalityType DEF TypeOK
  <2>2. pending' \in Seq(Jobs)
    <3>1. pending' \in [1..Cardinality(added) -> added]
      BY <1>3 DEF StartRun, SortedOrders
    <3>2. added \subseteq Jobs
      BY DEF TypeOK
    <3>3. pending' \in [1..Cardinality(added) -> Jobs]
      BY <3>1, <3>2
    <3> QED
      BY <2>1, <3>3
  <2>3. arrived' \in 0..Len(pending')
    BY <1>3, <2>2 DEF StartRun, TypeOK, PcInv
  <2> QED
    BY <1>3, <2>2, <2>3 DEF StartRun, TypeOK, PcInv
<1>4. ASSUME AdvanceIfIdle PROVE TypeInv'
  <2>1. clock' \in Nat
    <3>1. CASE queue = <<>> /\ clock < submit[pending[arrived + 1]]
      <4>1. arrived + 1 \in 1..Len(pending)
        BY <1>4, <3>1 DEF AdvanceIfIdle, Finished, TypeOK
      <4> QED
        BY <1>4, <3>1, <4>1, InputAssumption DEF AdvanceIfIdle, TypeOK
    <3>2. CASE ~(queue = <<>> /\ clock < submit[pending[arrived + 1]])
      BY <1>4, <3>2 DEF AdvanceIfIdle, TypeOK
    <3> QED
      BY <3>1, <3>2
  <2> QED
    BY <1>4, <2>1 DEF AdvanceIfIdle, TypeOK, PcInv
<1>5. ASSUME EndRun PROVE TypeInv'
  BY <1>5 DEF EndRun, TypeOK, PcInv
<1>6. ASSUME ReleaseNodes PROVE TypeInv'
  <2>1. avail' \in [Nodes -> [Res -> Int]]
    <3>1. avail' = [n \in Nodes |-> [r \in Res |->
                       AtMost(avail[n][r] + Load[r][Due(n)], Capacity[n][r])]]
      BY <1>6 DEF ReleaseNodes, ReleaseAll
    <3>2. ASSUME NEW n \in Nodes, NEW r \in Res
          PROVE  AtMost(avail[n][r] + Load[r][Due(n)], Capacity[n][r]) \in Int
      <4>1. Due(n) \in SUBSET Jobs /\ avail[n][r] \in Int
        BY DEF Due, TypeOK
      <4>2. Load[r][Due(n)] \in Int /\ Capacity[n][r] \in Int
        BY <4>1, LoadAssumption, ResourceAssumption
      <4> QED
        BY <4>1, <4>2 DEF AtMost
    <3> QED
      BY <3>1, <3>2
  <2>2. resv' \in [Nodes -> SUBSET Jobs]
    BY <1>6 DEF ReleaseNodes, ReleaseAll, Due, TypeOK
  <2> QED
    BY <1>6, <2>1, <2>2 DEF ReleaseNodes, ReleaseAll, TypeOK, PcInv
<1>7. ASSUME EnqueueArrivals PROVE TypeInv'
  <2>1. queue' \in Seq(Jobs)
    <3>1. queue \in Seq(Jobs) /\ pending \in Seq(Jobs) /\ arrived \in Nat
      BY DEF TypeOK
    <3>2. SubSeq(pending, arrived + 1, arrived + Cardinality(Arrivals)) \in Seq(Jobs)
      BY <3>1, ArrivalsRange
    <3>3. queue' = queue \o SubSeq(pending, arrived + 1, arrived + Cardinality(Arrivals))
      BY <1>7 DEF EnqueueArrivals
    <3> QED
      BY <3>1, <3>2, <3>3
  <2>2. arrived' \in 0..Len(pending')
    <3>1. arrived' = arrived + Cardinality(Arrivals) /\ pending' = pending
      BY <1>7 DEF EnqueueArrivals
    <3> QED
      BY <3>1, ArrivalsRange DEF TypeOK
  <2>3. /\ kept' = 0 /\ cursor' = 1 /\ scheduled' = 0
        /\ pc' \in {"top", "scan"}
        /\ UNCHANGED <<inputs, clock, ledger, outputs>>
    BY <1>7 DEF EnqueueArrivals
  <2>4. Len(queue') \in Nat
    BY <2>1
  <2> QED
    <3>1. TypeOK'
      BY <2>1, <2>2, <2>3 DEF TypeOK
    <3>2. PcInv'
      BY <2>3, <2>4 DEF PcInv
    <3> QED
      BY <3>1, <3>2
<1>8. ASSUME NEW n \in Nodes, Scanning, Place(n),
             \/ traces' = Append(traces, [job |-> queue[cursor], node |-> n, at |-> clock])
             \/ UNCHANGED traces
      PROVE  TypeInv'
  <2> DEFINE j == queue[cursor]
  <2>1. /\ pc = "scan" /\ cursor \in Nat \ {0} /\ cursor <= Len(queue) /\ kept < cursor
        /\ j \in Jobs /\ clock \in Nat
    BY <1>8 DEF Scanning, TypeOK, PcInv
  <2>2. duration[j] \in Nat /\ submit[j] \in Nat
    BY <2>1, InputAssumption DEF TypeOK
  <2> HIDE DEF j
  <2>3. /\ avail' = [avail EXCEPT ![n] = [r \in Res |-> @[r] - Demand[j][r]]]
        /\ resv' = [resv EXCEPT ![n] = @ \cup {j}]
        /\ resvEnd' = [resvEnd EXCEPT ![j] = clock + duration[j]]
        /\ log' = Append(log, [job |-> j, node |-> n, submit |-> submit[j],
                               start |-> clock, end |-> clock + duration[j]])
        /\ scheduled' = scheduled + 1 /\ cursor' = cursor + 1
        /\ UNCHANGED <<inputs, pc, clock, arrived, queue, kept>>
    BY <1>8 DEF Place, Reserve, j
  <2>4. avail' \in [Nodes -> [Res -> Int]]
    <3>1. avail \in [Nodes -> [Res -> Int]]
      BY DEF TypeOK
    <3>2. \A r \in Res : Demand[j][r] \in Int
      BY <2>1, ResourceAssumption
    <3> QED
      BY <2>3, <3>1, <3>2
  <2>5. resv' \in [Nodes -> SUBSET Jobs]
    <3>1. resv \in [Nodes -> SUBSET Jobs]
      BY DEF TypeOK
    <3> QED
      BY <2>1, <2>3, <3>1
  <2>6. resvEnd' \in [Jobs -> Nat]
    <3>1. resvEnd \in [Jobs -> Nat]
      BY DEF TypeOK
    <3> QED
      BY <2>1, <2>2, <2>3, <3>1
  <2>7. log' \in Seq(LogEntry)
    <3>1. log \in Seq(LogEntry)
      BY DEF TypeOK
    <3>2. [job |-> j, node |-> n, submit |-> submit[j],
           start |-> clock, end |-> clock + duration[j]] \in LogEntry
      BY <2>1, <2>2 DEF LogEntry
    <3> QED
      BY <2>3, <3>1, <3>2
  <2>8. traces' \in Seq(DecisionTrace)
    <3>1. traces \in Seq(DecisionTrace)
      BY DEF TypeOK
    <3>2. [job |-> j, node |-> n, at |-> clock] \in DecisionTrace
      BY <2>1 DEF DecisionTrace
    <3>3. CASE traces' = Append(traces, [job |-> j, node |-> n, at |-> clock])
      BY <3>1, <3>2, <3>3
    <3>4. CASE UNCHANGED traces
      BY <3>1, <3>4
    <3> QED
      BY <1>8, <3>3, <3>4 DEF j
  <2> QED
    <3>1. TypeOK'
      BY <2>1, <2>3, <2>4, <2>5, <2>6, <2>7, <2>8 DEF TypeOK
    <3>2. Len(queue) \in Nat /\ kept \in Nat
      BY DEF TypeOK
    <3>3. PcInv'
      BY <2>1, <2>3, <3>2 DEF PcInv
    <3> QED
      BY <3>1, <3>3
<1>9. ASSUME Keep PROVE TypeInv'
  <2>1. queue' \in Seq(Jobs) /\ Len(queue') = Len(queue)
    <3>1. queue \in [1..Len(queue) -> Jobs] /\ queue[cursor] \in Jobs /\ Len(queue) \in Nat
      BY <1>9, SMTT(30) DEF Keep, Scanning, TypeOK
    <3>2. queue' \in [1..Len(queue) -> Jobs]
      BY <1>9, <3>1 DEF Keep
    <3> QED
      BY <3>1, <3>2
  <2>2. /\ pc = "scan" /\ cursor <= Len(queue) /\ kept' = kept + 1 /\ cursor' = cursor + 1
        /\ UNCHANGED <<inputs, pc, clock, arrived, scheduled, ledger, outputs>>
    BY <1>9 DEF Keep, Scanning
  <2>3. Len(queue) \in Nat /\ cursor \in Nat \ {0} /\ kept \in Nat /\ kept < cursor
    BY <2>2 DEF TypeOK, PcInv
  <2>4. TypeOK'
    BY <2>1, <2>2, <2>3 DEF TypeOK
  <2>5. PcInv'
    BY <2>1, <2>2, <2>3 DEF PcInv
  <2> QED
    BY <2>4, <2>5
<1>10. ASSUME EndScan PROVE TypeInv'
  <2>1. queue' \in Seq(Jobs)
    BY <1>10 DEF EndScan, TypeOK, PcInv
  <2> QED
    BY <1>10, <2>1 DEF EndScan, TypeOK, PcInv
<1>11. ASSUME AdvanceClock PROVE TypeInv'
  <2>1. LaterEnds \subseteq Nat
    BY DEF LaterEnds, TypeOK
  <2>2. CASE LaterEnds = {}
    BY <1>11, <2>2 DEF AdvanceClock, TypeOK, PcInv
  <2>3. CASE LaterEnds # {}
    BY <1>11, <2>1, <2>3 DEF AdvanceClock, TypeOK, PcInv
  <2> QED
    BY <2>2, <2>3
<1>12. ASSUME UNCHANGED vars PROVE TypeInv'
  BY <1>12 DEF vars, TypeOK, PcInv
<1> QED
  BY <1>1, <1>2, <1>3, <1>4, <1>5, <1>6, <1>7, <1>8, <1>9, <1>10, <1>11, <1>12
  DEF Next, Step, PlaceByPolicy, PlaceByFallback, Done

THEOREM TypeInvariant == Spec => []TypeInv
BY TypeInit, TypeStep, PTL DEF Spec

(* TypeOK: every variable of the loop keeps its type.                      *)
THEOREM TypeCorrect == Spec => []TypeOK
BY TypeInvariant, PTL DEF TypeInv

-----------------------------------------------------------------------------
(* Every workload is in one place                                          *)

(* The sorted list names each workload once.                               *)
PendingOnce ==
    pc # "build" => \A x, y \in 1..Len(pending) : pending[x] = pending[y] => x = y

OnceInv == PendingOnce /\ ExactlyOnce

(* A scan step that places the workload under the cursor.                  *)
LEMMA PlaceMoves ==
    ASSUME TypeInv, OnceInv, Scanning, NEW n \in Nodes, Place(n)
    PROVE  /\ queue[cursor] \in Queued
           /\ Queued' = Queued \ {queue[cursor]}
           /\ Placed' = Placed \cup {queue[cursor]}
           /\ LivePositions' \subseteq LivePositions
<1>1. /\ pc = "scan" /\ pc' = "scan" /\ queue' = queue /\ kept' = kept /\ cursor' = cursor + 1
      /\ cursor \in Nat /\ kept \in Nat /\ Len(queue) \in Nat
      /\ cursor <= Len(queue) /\ kept < cursor
  BY DEF Scanning, Place, TypeInv, TypeOK, PcInv
<1>2. LivePositions' = LivePositions \ {cursor} /\ cursor \in LivePositions
  BY <1>1 DEF LivePositions
<1>3. \A x, y \in LivePositions : queue[x] = queue[y] => x = y
  BY <1>1 DEF OnceInv, ExactlyOnce
<1>4. Queued' = Queued \ {queue[cursor]} /\ queue[cursor] \in Queued
  BY <1>1, <1>2, <1>3 DEF Queued
<1>5. Placed' = Placed \cup {queue[cursor]}
  <2> DEFINE e == [job |-> queue[cursor], node |-> n, submit |-> submit[queue[cursor]],
                   start |-> clock, end |-> clock + duration[queue[cursor]]]
  <2>1. log' = Append(log, e) /\ e.job = queue[cursor]
    BY DEF Place
  <2>2. Len(log) \in Nat /\ log \in Seq(LogEntry)
    BY DEF TypeInv, TypeOK
  <2> HIDE DEF e
  <2>3. /\ DOMAIN log' = (DOMAIN log) \cup {Len(log) + 1}
        /\ log'[Len(log) + 1] = e
        /\ \A x \in DOMAIN log : log'[x] = log[x]
    BY <2>1, <2>2
  <2> QED
    BY <2>1, <2>3 DEF Placed
<1> QED
  BY <1>2, <1>4, <1>5

(* A scan step that keeps it.                                              *)
LEMMA KeepMoves ==
    ASSUME TypeInv, OnceInv, Keep
    PROVE  /\ Queued' = Queued
           /\ \A x, y \in LivePositions' : queue'[x] = queue'[y] => x = y
<1>1. /\ pc = "scan" /\ pc' = "scan" /\ kept' = kept + 1 /\ cursor' = cursor + 1
      /\ cursor \in Nat /\ kept \in Nat /\ Len(queue) \in Nat
      /\ cursor <= Len(queue) /\ kept < cursor
      /\ queue' = [queue EXCEPT ![kept + 1] = queue[cursor]]
      /\ queue \in Seq(Jobs)
  BY DEF Keep, Scanning, TypeInv, TypeOK, PcInv
<1>2. /\ Len(queue') = Len(queue)
      /\ queue'[kept + 1] = queue[cursor]
      /\ \A x \in 1..Len(queue) : x # kept + 1 => queue'[x] = queue[x]
  BY <1>1
<1>3. /\ LivePositions = (1..kept) \cup (cursor..Len(queue))
      /\ LivePositions' = (1..(kept + 1)) \cup ((cursor + 1)..Len(queue))
  BY <1>1, <1>2 DEF LivePositions
<1>4. \A x, y \in LivePositions : queue[x] = queue[y] => x = y
  BY <1>1 DEF OnceInv, ExactlyOnce
<1>5. \A x \in LivePositions' : \E y \in LivePositions :
          /\ queue'[x] = queue[y]
          /\ y = IF x = kept + 1 THEN cursor ELSE x
  <2> SUFFICES ASSUME NEW x \in LivePositions'
               PROVE  \E y \in LivePositions : /\ queue'[x] = queue[y]
                                               /\ y = IF x = kept + 1 THEN cursor ELSE x
    OBVIOUS
  <2>1. CASE x = kept + 1
    BY <1>1, <1>2, <1>3, <2>1
  <2>2. CASE x # kept + 1
    BY <1>1, <1>2, <1>3, <2>2
  <2> QED
    BY <2>1, <2>2
<1>6. \A y \in LivePositions : \E x \in LivePositions' : queue'[x] = queue[y]
  <2> SUFFICES ASSUME NEW y \in LivePositions PROVE \E x \in LivePositions' : queue'[x] = queue[y]
    OBVIOUS
  <2>1. CASE y = cursor
    <3>1. kept + 1 \in LivePositions'
      BY <1>1, <1>3
    <3> QED
      BY <1>2, <2>1, <3>1
  <2>2. CASE y # cursor
    <3>1. y \in LivePositions' /\ y \in 1..Len(queue)
      BY <1>1, <1>3, <2>2
    <3>2. y # kept + 1
      BY <1>1, <1>3, <2>2
    <3> QED
      BY <1>2, <3>1, <3>2
  <2> QED
    BY <2>1, <2>2
<1>7. Queued' = Queued
  BY <1>5, <1>6 DEF Queued
<1>8. ASSUME NEW x \in LivePositions', NEW y \in LivePositions', queue'[x] = queue'[y]
      PROVE  x = y
  <2>1. PICK u \in LivePositions : /\ queue'[x] = queue[u]
                                   /\ u = IF x = kept + 1 THEN cursor ELSE x
    BY <1>5
  <2>2. PICK v \in LivePositions : /\ queue'[y] = queue[v]
                                   /\ v = IF y = kept + 1 THEN cursor ELSE y
    BY <1>5
  <2>3. u = v
    BY <1>4, <1>8, <2>1, <2>2
  <2>4. x # cursor \/ cursor = kept + 1
    BY <1>1, <1>3
  <2>5. y # cursor \/ cursor = kept + 1
    BY <1>1, <1>3
  <2> QED
    BY <2>1, <2>2, <2>3, <2>4, <2>5
<1> QED
  BY <1>7, <1>8

(* The end of the scan, which cuts the queue to what was kept.             *)
LEMMA EndScanMoves ==
    ASSUME TypeInv, OnceInv, EndScan
    PROVE  /\ Queued' = Queued
           /\ \A x, y \in LivePositions' : queue'[x] = queue'[y] => x = y
<1>1. /\ pc = "scan" /\ pc' = "advance"
      /\ queue' = SubSeq(queue, 1, kept) /\ queue \in Seq(Jobs)
      /\ kept \in Nat /\ cursor \in Nat /\ Len(queue) \in Nat
      /\ kept < cursor /\ cursor = Len(queue) + 1
  <2>1. /\ pc = "scan" /\ pc' = "advance" /\ queue' = SubSeq(queue, 1, kept)
        /\ cursor > Len(queue)
    BY DEF EndScan
  <2>2. queue \in Seq(Jobs) /\ kept \in Nat /\ cursor \in Nat
    BY DEF TypeInv, TypeOK
  <2>3. Len(queue) \in Nat
    BY <2>2
  <2>4. kept < cursor /\ cursor <= Len(queue) + 1
    BY <2>1 DEF TypeInv, PcInv
  <2> QED
    BY <2>1, <2>2, <2>3, <2>4
<1>2. Len(queue') = kept /\ \A x \in 1..kept : queue'[x] = queue[x]
  BY <1>1
<1>3. LivePositions = 1..kept /\ LivePositions' = 1..kept
  BY <1>1, <1>2 DEF LivePositions
<1>4. Queued' = Queued
  BY <1>2, <1>3 DEF Queued
<1>5. \A x, y \in LivePositions' : queue'[x] = queue'[y] => x = y
  BY <1>1, <1>2, <1>3 DEF OnceInv, ExactlyOnce
<1> QED
  BY <1>4, <1>5

NewArrivals == {pending[x] : x \in arrived + 1 .. arrived + Cardinality(Arrivals)}

(* New arrivals move from the sorted list to the end of the queue.         *)
LEMMA ArrivalsMove ==
    ASSUME TypeInv, OnceInv, EnqueueArrivals
    PROVE  /\ NewArrivals \subseteq Future
           /\ Future' = Future \ NewArrivals
           /\ Queued' = Queued \cup NewArrivals
           /\ \A x, y \in LivePositions' : queue'[x] = queue'[y] => x = y
<1> DEFINE c == Cardinality(Arrivals)
           q == Len(queue)
           A == {pending[x] : x \in arrived + 1 .. arrived + c}
<1>0. NewArrivals = A
  BY DEF NewArrivals
<1>1. /\ c \in Nat /\ q \in Nat /\ arrived \in Nat /\ Len(pending) \in Nat
      /\ arrived + c <= Len(pending)
      /\ queue \in Seq(Jobs) /\ pending \in Seq(Jobs)
  BY ArrivalsRange DEF TypeInv, TypeOK
<1>2. /\ queue' = queue \o SubSeq(pending, arrived + 1, arrived + c)
      /\ pending' = pending /\ arrived' = arrived + c
      /\ pc = "arrive" /\ pc' \in {"top", "scan"} /\ kept' = 0 /\ cursor' = 1
  BY DEF EnqueueArrivals, inputs
<1> HIDE DEF c, q
<1>3. /\ SubSeq(pending, arrived + 1, arrived + c) \in Seq(Jobs)
      /\ Len(SubSeq(pending, arrived + 1, arrived + c)) = c
      /\ \A k \in 1..c : SubSeq(pending, arrived + 1, arrived + c)[k] = pending[arrived + k]
  BY <1>1, SMTT(30)
<1>4. /\ Len(queue') = q + c
      /\ \A x \in 1..q : queue'[x] = queue[x]
      /\ \A x \in q + 1 .. q + c : queue'[x] = pending[arrived + (x - q)]
  BY <1>1, <1>2, <1>3 DEF q
<1>5. LivePositions = 1..q /\ LivePositions' = 1..(q + c)
  BY <1>1, <1>2, <1>4 DEF LivePositions, q
<1>6. Queued' = Queued \cup A
  <2>1. ASSUME NEW x \in 1..(q + c) PROVE queue'[x] \in Queued \cup A
    <3>1. CASE x <= q
      BY <1>1, <1>4, <1>5, <3>1 DEF Queued
    <3>2. CASE x > q
      <4>1. queue'[x] = pending[arrived + (x - q)] /\ arrived + (x - q) \in arrived + 1 .. arrived + c
        BY <1>1, <1>4, <3>2
      <4> QED
        BY <4>1
    <3> QED
      BY <1>1, <3>1, <3>2
  <2>2. ASSUME NEW x \in 1..q PROVE queue[x] \in Queued'
    <3>1. x \in LivePositions' /\ queue'[x] = queue[x]
      BY <1>1, <1>4, <1>5
    <3> QED
      BY <3>1 DEF Queued
  <2>3. ASSUME NEW x \in arrived + 1 .. arrived + c PROVE pending[x] \in Queued'
    <3>1. q + (x - arrived) \in LivePositions' /\ queue'[q + (x - arrived)] = pending[x]
      BY <1>1, <1>4, <1>5
    <3> QED
      BY <3>1 DEF Queued
  <2> QED
    BY <1>5, <2>1, <2>2, <2>3 DEF Queued
<1>7. A \subseteq Future
  BY <1>1 DEF Future
<1>8. Future' = Future \ A
  <2>1. Future' = {pending[x] : x \in arrived + c + 1 .. Len(pending)}
    BY <1>2 DEF Future
  <2>2. \A x, y \in 1..Len(pending) : pending[x] = pending[y] => x = y
    BY <1>2 DEF OnceInv, PendingOnce
  <2>3. \A x \in arrived + c + 1 .. Len(pending) : pending[x] \in Future /\ pending[x] \notin A
    BY <1>1, <2>2 DEF Future
  <2>4. \A x \in arrived + 1 .. Len(pending) : pending[x] \in A \/ x \in arrived + c + 1 .. Len(pending)
    BY <1>1
  <2> QED
    BY <2>1, <2>3, <2>4 DEF Future
<1>9. ASSUME NEW x \in 1..(q + c), NEW y \in 1..(q + c), queue'[x] = queue'[y] PROVE x = y
  <2>1. /\ \A u, v \in 1..q : queue[u] = queue[v] => u = v
        /\ \A u, v \in 1..Len(pending) : pending[u] = pending[v] => u = v
        /\ Future \cap Queued = {}
    BY <1>2, <1>5 DEF OnceInv, ExactlyOnce, PendingOnce
  <2>2. \A u \in 1..q, v \in arrived + 1 .. arrived + c : queue[u] # pending[v]
    <3>1. \A u \in 1..q : queue[u] \in Queued
      BY <1>5 DEF Queued
    <3>2. \A v \in arrived + 1 .. arrived + c : pending[v] \in Future
      BY <1>7
    <3> QED
      BY <2>1, <3>1, <3>2
  <2>3. CASE x <= q /\ y <= q
    <3>1. x \in 1..q /\ y \in 1..q
      BY <1>1, <2>3
    <3>2. queue[x] = queue[y]
      BY <1>4, <1>9, <3>1
    <3> QED
      BY <2>1, <3>1, <3>2
  <2>4. CASE x <= q /\ y > q
    <3>1. arrived + (y - q) \in arrived + 1 .. arrived + c /\ x \in 1..q
      BY <1>1, <2>4
    <3>2. queue'[x] = queue[x] /\ queue'[y] = pending[arrived + (y - q)]
      BY <1>1, <1>4, <2>4
    <3> QED
      BY <1>9, <2>2, <3>1, <3>2
  <2>5. CASE x > q /\ y <= q
    <3>1. arrived + (x - q) \in arrived + 1 .. arrived + c /\ y \in 1..q
      BY <1>1, <2>5
    <3>2. queue'[y] = queue[y] /\ queue'[x] = pending[arrived + (x - q)]
      BY <1>1, <1>4, <2>5
    <3> QED
      BY <1>9, <2>2, <3>1, <3>2
  <2>6. CASE x > q /\ y > q
    <3>1. x \in q + 1 .. q + c /\ y \in q + 1 .. q + c
      BY <1>1, <2>6
    <3>2. arrived + (x - q) \in 1..Len(pending) /\ arrived + (y - q) \in 1..Len(pending)
      BY <1>1, <3>1
    <3>3. queue'[x] = pending[arrived + (x - q)] /\ queue'[y] = pending[arrived + (y - q)]
      BY <1>4, <3>1
    <3>4. arrived + (x - q) = arrived + (y - q)
      BY <1>9, <2>1, <3>2, <3>3
    <3>5. x \in Int /\ y \in Int /\ q \in Int /\ arrived \in Int
      BY <1>1
    <3> QED
      BY <3>4, <3>5
  <2> QED
    BY <1>1, <2>3, <2>4, <2>5, <2>6
<1> QED
  BY <1>0, <1>5, <1>6, <1>7, <1>8, <1>9

LEMMA OnceInit == Init => OnceInv
BY DEF Init, OnceInv, PendingOnce, ExactlyOnce

LEMMA OnceStep == TypeInv /\ OnceInv /\ [Next]_vars => OnceInv'
<1> SUFFICES ASSUME TypeInv, OnceInv, [Next]_vars PROVE OnceInv'
  OBVIOUS
<1> USE DEF inputs, ledger, outputs
<1>1. ASSUME pc = "build", pc' = "build" PROVE OnceInv'
  BY <1>1 DEF OnceInv, PendingOnce, ExactlyOnce
<1>2. ASSUME StartRun PROVE OnceInv'
  <2>1. /\ pending' \in [1..Cardinality(added) -> added]
        /\ \A x, y \in DOMAIN pending' : pending'[x] = pending'[y] => x = y
        /\ \A j \in added : \E x \in DOMAIN pending' : pending'[x] = j
    BY <1>2 DEF StartRun, SortedOrders
  <2>2. /\ arrived' = 0 /\ queue' = <<>> /\ log' = <<>> /\ added' = added /\ pc' = "top"
    BY <1>2 DEF StartRun, TypeInv, PcInv
  <2>3. Cardinality(added) \in Nat
    BY JobsAssumption, FS_Subset, FS_CardinalityType DEF TypeInv, TypeOK
  <2>4. Len(pending') = Cardinality(added) /\ DOMAIN pending' = 1..Len(pending')
    BY <2>1, <2>3
  <2>5. Future' = added
    BY <2>1, <2>2, <2>4 DEF Future
  <2>6. LivePositions' = {} /\ Queued' = {}
    BY <2>2 DEF LivePositions, Queued
  <2>7. Placed' = {} /\ DOMAIN log' = {}
    BY <2>2 DEF Placed
  <2> QED
    BY <2>1, <2>2, <2>4, <2>5, <2>6, <2>7 DEF OnceInv, PendingOnce, ExactlyOnce
<1>3. ASSUME AdvanceIfIdle \/ EndRun \/ ReleaseNodes \/ AdvanceClock PROVE OnceInv'
  <2>1. /\ pc \notin {"build", "scan"} /\ pc' \notin {"build", "scan"}
        /\ UNCHANGED <<added, pending, arrived, queue, log>>
    BY <1>3 DEF AdvanceIfIdle, EndRun, ReleaseNodes, AdvanceClock
  <2>2. Future' = Future /\ LivePositions' = LivePositions /\ Placed' = Placed
    BY <2>1 DEF Future, LivePositions, Placed
  <2>3. Queued' = Queued
    BY <2>1, <2>2 DEF Queued
  <2> QED
    BY <2>1, <2>2, <2>3 DEF OnceInv, PendingOnce, ExactlyOnce
<1>4. ASSUME EnqueueArrivals PROVE OnceInv'
  <2>1. /\ NewArrivals \subseteq Future
        /\ Future' = Future \ NewArrivals
        /\ Queued' = Queued \cup NewArrivals
        /\ \A x, y \in LivePositions' : queue'[x] = queue'[y] => x = y
    BY <1>4, ArrivalsMove
  <2>2. pc = "arrive" /\ UNCHANGED <<added, pending, log>>
    BY <1>4 DEF EnqueueArrivals
  <2>3. Placed' = Placed
    BY <2>2 DEF Placed
  <2> QED
    BY <2>1, <2>2, <2>3 DEF OnceInv, PendingOnce, ExactlyOnce
<1>5. ASSUME NEW n \in Nodes, Scanning, Place(n) PROVE OnceInv'
  <2> DEFINE j == queue[cursor]
  <2>1. /\ j \in Queued
        /\ Queued' = Queued \ {j}
        /\ Placed' = Placed \cup {j}
        /\ LivePositions' \subseteq LivePositions
    BY <1>5, PlaceMoves
  <2>2. /\ pc = "scan" /\ UNCHANGED <<pc, added, pending, arrived, queue>>
    BY <1>5 DEF Scanning, Place
  <2>3. Future' = Future
    BY <2>2 DEF Future
  <2>4. ASSUME NEW x \in DOMAIN log', NEW y \in DOMAIN log', log'[x].job = log'[y].job
        PROVE  x = y
    <3>1. PICK e : log' = Append(log, e) /\ e.job = j
      BY <1>5 DEF Place
    <3>2. log \in Seq(LogEntry)
      BY DEF TypeInv, TypeOK
    <3>3. /\ Len(log) \in Nat /\ DOMAIN log = 1..Len(log)
          /\ DOMAIN log' = 1..(Len(log) + 1)
          /\ log'[Len(log) + 1].job = j
          /\ \A u \in DOMAIN log : log'[u] = log[u]
      BY <3>1, <3>2
    <3>4. /\ \A u, v \in DOMAIN log : log[u].job = log[v].job => u = v
          /\ \A u \in DOMAIN log : log[u].job # j
      BY <2>1, <2>2 DEF OnceInv, ExactlyOnce, Placed
    <3> HIDE DEF j
    <3> QED
      BY <2>4, <3>3, <3>4
  <2>5. \A x, y \in LivePositions' : queue'[x] = queue'[y] => x = y
    BY <2>1, <2>2 DEF OnceInv, ExactlyOnce
  <2> HIDE DEF j
  <2> QED
    BY <2>1, <2>2, <2>3, <2>4, <2>5 DEF OnceInv, PendingOnce, ExactlyOnce
<1>6. ASSUME Keep PROVE OnceInv'
  <2>1. Queued' = Queued /\ \A x, y \in LivePositions' : queue'[x] = queue'[y] => x = y
    BY <1>6, KeepMoves
  <2>2. pc = "scan" /\ UNCHANGED <<pc, added, pending, arrived, log>>
    BY <1>6 DEF Keep, Scanning
  <2>3. Future' = Future /\ Placed' = Placed
    BY <2>2 DEF Future, Placed
  <2> QED
    BY <2>1, <2>2, <2>3 DEF OnceInv, PendingOnce, ExactlyOnce
<1>7. ASSUME EndScan PROVE OnceInv'
  <2>1. Queued' = Queued /\ \A x, y \in LivePositions' : queue'[x] = queue'[y] => x = y
    BY <1>7, EndScanMoves
  <2>2. pc = "scan" /\ pc' = "advance" /\ UNCHANGED <<added, pending, arrived, log>>
    BY <1>7 DEF EndScan
  <2>3. Future' = Future /\ Placed' = Placed
    BY <2>2 DEF Future, Placed
  <2> QED
    BY <2>1, <2>2, <2>3 DEF OnceInv, PendingOnce, ExactlyOnce
<1>8. ASSUME UNCHANGED vars PROVE OnceInv'
  <2>1. UNCHANGED <<pc, added, pending, arrived, queue, cursor, kept, log>>
    BY <1>8 DEF vars
  <2>2. Future' = Future /\ LivePositions' = LivePositions /\ Placed' = Placed
    BY <2>1 DEF Future, LivePositions, Placed
  <2>3. Queued' = Queued
    BY <2>1, <2>2 DEF Queued
  <2> QED
    BY <2>1, <2>2, <2>3 DEF OnceInv, PendingOnce, ExactlyOnce
<1>9. ASSUME NEW j \in Jobs, AddWorkload(j) PROVE OnceInv'
  BY <1>1, <1>9 DEF AddWorkload
<1>10. ASSUME NEW n \in BatchSizes, SetScheduleBatchSize(n) PROVE OnceInv'
  BY <1>1, <1>10 DEF SetScheduleBatchSize
<1> QED
  BY <1>2, <1>3, <1>4, <1>5, <1>6, <1>7, <1>8, <1>9, <1>10
  DEF Next, Step, PlaceByPolicy, PlaceByFallback, Done

(* ExactlyOnce: no workload is lost or run twice.                          *)
THEOREM WorkloadsExactlyOnce == Spec => []ExactlyOnce
<1>1. TypeInv /\ OnceInv /\ [Next]_vars => (TypeInv /\ OnceInv)'
  BY TypeStep, OnceStep
<1> QED
  BY TypeInit, OnceInit, <1>1, PTL DEF Spec, OnceInv

-----------------------------------------------------------------------------
(* A node's books match its reservations                                   *)

(* Reservations are of workloads in the log, each on one node.             *)
HeldInv ==
    /\ \A n \in Nodes : resv[n] \subseteq Placed
    /\ \A m, n \in Nodes : m # n => resv[m] \cap resv[n] = {}

LedgerInv == HeldInv /\ Conservation

(* A workload that is scanned has no reservation yet.                      *)
LEMMA ScannedNotHeld ==
    ASSUME TypeInv, OnceInv, HeldInv, Scanning
    PROVE  /\ queue[cursor] \in Jobs
           /\ \A n \in Nodes : queue[cursor] \notin resv[n]
<1>1. pc = "scan" /\ cursor \in 1..Len(queue) /\ queue \in Seq(Jobs)
  BY DEF Scanning, TypeInv, TypeOK
<1>2. queue[cursor] \in Queued
  BY <1>1 DEF Queued, LivePositions
<1>3. queue[cursor] \notin Placed
  BY <1>1, <1>2 DEF OnceInv, ExactlyOnce
<1> QED
  BY <1>1, <1>3 DEF HeldInv

LEMMA LoadGrows ==
    ASSUME NEW r \in Res, NEW S \in SUBSET Jobs, NEW j \in Jobs, j \notin S
    PROVE  Load[r][S \cup {j}] = Load[r][S] + Demand[j][r]
<1> DEFINE T == {j}
           U == S \cup T
<1>1. T \in SUBSET Jobs /\ U \in SUBSET Jobs /\ S \cap T = {} /\ S \cup T = U
  OBVIOUS
<1>2. Load[r][T] = Demand[j][r]
  BY LoadAssumption
<1> HIDE DEF T, U
<1>3. Load[r][U] = Load[r][S] + Load[r][T]
  BY <1>1, LoadAssumption
<1> QED
  BY <1>2, <1>3 DEF T, U

LEMMA LoadSplits ==
    ASSUME NEW r \in Res, NEW S \in SUBSET Jobs, NEW T \in SUBSET S
    PROVE  /\ Load[r][S] = Load[r][T] + Load[r][S \ T]
           /\ Load[r][S] \in Nat /\ Load[r][T] \in Nat /\ Load[r][S \ T] \in Nat
           /\ Load[r][T] <= Load[r][S]
<1>1. T \in SUBSET Jobs /\ S \ T \in SUBSET Jobs /\ T \cup (S \ T) = S /\ T \cap (S \ T) = {}
  OBVIOUS
<1>2. Load[r][S] \in Nat /\ Load[r][T] \in Nat /\ Load[r][S \ T] \in Nat
  BY <1>1, LoadAssumption
<1>3. Load[r][S] = Load[r][T] + Load[r][S \ T]
  BY <1>1, LoadAssumption
<1> QED
  BY <1>2, <1>3

(* A node that accepts the workload it is given stays within its capacity. *)
LEMMA PlaceKeepsLedger ==
    ASSUME TypeInv, OnceInv, LedgerInv, Scanning, NEW n \in Nodes,
           CanAccept(n, queue[cursor]), Place(n)
    PROVE  LedgerInv'
<1> DEFINE j == queue[cursor]
<1>1. j \in Jobs /\ \A m \in Nodes : j \notin resv[m]
  BY ScannedNotHeld DEF LedgerInv
<1>2. /\ avail' = [avail EXCEPT ![n] = [r \in Res |-> @[r] - Demand[j][r]]]
      /\ resv' = [resv EXCEPT ![n] = @ \cup {j}]
  BY DEF Place, Reserve
<1>3. Placed' = Placed \cup {j}
  BY PlaceMoves
<1>4. \A r \in Res : avail[n][r] >= Demand[j][r]
  BY DEF CanAccept
<1>5. resv \in [Nodes -> SUBSET Jobs] /\ avail \in [Nodes -> [Res -> Int]]
  BY DEF TypeInv, TypeOK
<1> HIDE DEF j
<1>6. HeldInv'
  <2>1. /\ resv'[n] = resv[n] \cup {j}
        /\ \A m \in Nodes \ {n} : resv'[m] = resv[m]
    BY <1>2, <1>5
  <2>2. \A m \in Nodes : resv[m] \subseteq Placed
    BY DEF LedgerInv, HeldInv
  <2>3. \A m \in Nodes : resv'[m] \subseteq Placed'
    BY <1>3, <2>1, <2>2
  <2>4. \A l, m \in Nodes : l # m => resv'[l] \cap resv'[m] = {}
    BY <1>1, <2>1 DEF LedgerInv, HeldInv
  <2> QED
    BY <2>3, <2>4 DEF HeldInv
<1>7. ASSUME NEW m \in Nodes, NEW r \in Res
      PROVE  avail'[m][r] = Capacity[m][r] - Load[r][resv'[m]] /\ avail'[m][r] >= 0
  <2>1. /\ avail[m][r] = Capacity[m][r] - Load[r][resv[m]] /\ avail[m][r] >= 0
        /\ avail[m][r] \in Int /\ Capacity[m][r] \in Int /\ Demand[j][r] \in Int
        /\ Load[r][resv[m]] \in Int
    BY <1>1, <1>5, ResourceAssumption, LoadAssumption DEF LedgerInv, Conservation
  <2>2. CASE m = n
    <3>1. avail'[n][r] = avail[n][r] - Demand[j][r]
      BY <1>2, <1>5
    <3>2. Load[r][resv'[n]] = Load[r][resv[n]] + Demand[j][r]
      BY <1>1, <1>2, <1>5, LoadGrows
    <3> QED
      BY <1>4, <2>1, <2>2, <3>1, <3>2
  <2>3. CASE m # n
    BY <1>2, <1>5, <2>1, <2>3
  <2> QED
    BY <2>2, <2>3
<1> QED
  BY <1>6, <1>7 DEF LedgerInv, Conservation

(* Release gives back what was reserved, and the cap never applies.        *)
LEMMA ReleaseKeepsLedger ==
    ASSUME TypeInv, LedgerInv, ReleaseNodes
    PROVE  LedgerInv'
<1>1. /\ avail' = [n \in Nodes |-> [r \in Res |->
                       AtMost(avail[n][r] + Load[r][Due(n)], Capacity[n][r])]]
      /\ resv' = [n \in Nodes |-> resv[n] \ Due(n)]
      /\ log' = log
  BY DEF ReleaseNodes, ReleaseAll, outputs
<1>2. HeldInv'
  <2>1. Placed' = Placed
    BY <1>1 DEF Placed
  <2> QED
    BY <1>1, <2>1 DEF LedgerInv, HeldInv
<1>3. ASSUME NEW n \in Nodes, NEW r \in Res
      PROVE  avail'[n][r] = Capacity[n][r] - Load[r][resv'[n]] /\ avail'[n][r] >= 0
  <2>1. resv[n] \in SUBSET Jobs /\ Due(n) \in SUBSET resv[n]
    BY DEF TypeInv, TypeOK, Due
  <2>2. /\ Load[r][resv[n]] = Load[r][Due(n)] + Load[r][resv[n] \ Due(n)]
        /\ Load[r][resv[n]] \in Nat /\ Load[r][Due(n)] \in Nat
        /\ Load[r][resv[n] \ Due(n)] \in Nat
    <3>1. PICK S \in SUBSET Jobs : S = resv[n]
      BY <2>1
    <3>2. PICK T \in SUBSET S : T = Due(n)
      BY <2>1, <3>1
    <3>3. /\ Load[r][S] = Load[r][T] + Load[r][S \ T]
          /\ Load[r][S] \in Nat /\ Load[r][T] \in Nat /\ Load[r][S \ T] \in Nat
      BY <3>2, LoadSplits
    <3> QED
      BY <3>1, <3>2, <3>3
  <2>3. /\ avail[n][r] = Capacity[n][r] - Load[r][resv[n]] /\ avail[n][r] >= 0
        /\ avail[n][r] \in Int /\ Capacity[n][r] \in Int
    BY ResourceAssumption DEF LedgerInv, Conservation, TypeInv, TypeOK
  <2>4. /\ avail'[n][r] = AtMost(avail[n][r] + Load[r][Due(n)], Capacity[n][r])
        /\ resv'[n] = resv[n] \ Due(n)
    BY <1>1
  <2>5. avail[n][r] + Load[r][Due(n)] = Capacity[n][r] - Load[r][resv[n] \ Due(n)]
    BY <2>2, <2>3
  <2>6. AtMost(avail[n][r] + Load[r][Due(n)], Capacity[n][r]) = avail[n][r] + Load[r][Due(n)]
    BY <2>2, <2>3, <2>5 DEF AtMost
  <2> QED
    BY <2>2, <2>3, <2>4, <2>5, <2>6
<1> QED
  BY <1>2, <1>3 DEF LedgerInv, Conservation

(* No workload, no load.                                                   *)
LEMMA NoLoad ==
    ASSUME NEW r \in Res
    PROVE  Load[r][{}] = 0
<1> DEFINE S == {}
<1>1. S \in SUBSET Jobs /\ S \cup S = S /\ S \cap S = {}
  OBVIOUS
<1> HIDE DEF S
<1>2. Load[r][S] \in Nat /\ Load[r][S] = Load[r][S] + Load[r][S]
  BY <1>1, LoadAssumption
<1>3. Load[r][S] = 0
  <2>1. \A x \in Nat : x = x + x => x = 0
    OBVIOUS
  <2> QED
    BY <1>2, <2>1, Zenon
<1> QED
  BY <1>3 DEF S

LEMMA LedgerInit == Init => LedgerInv
<1> SUFFICES ASSUME Init PROVE LedgerInv
  OBVIOUS
<1>1. avail = Capacity /\ resv = [n \in Nodes |-> {}] /\ log = <<>>
  BY DEF Init
<1> QED
  BY <1>1, NoLoad, ResourceAssumption DEF LedgerInv, HeldInv, Conservation

LEMMA LedgerStep == TypeInv /\ OnceInv /\ LedgerInv /\ [Next]_vars => LedgerInv'
<1> SUFFICES ASSUME TypeInv, OnceInv, LedgerInv, [Next]_vars PROVE LedgerInv'
  OBVIOUS
<1>1. ASSUME NEW n \in Nodes, PlaceByPolicy(n) PROVE LedgerInv'
  BY <1>1, PlaceKeepsLedger DEF PlaceByPolicy
<1>2. ASSUME NEW n \in Nodes, PlaceByFallback(n) PROVE LedgerInv'
  <2>1. CanAccept(n, queue[cursor])
    BY <1>2 DEF PlaceByFallback, LeastLoaded, Accepting
  <2> QED
    BY <1>2, <2>1, PlaceKeepsLedger DEF PlaceByFallback
<1>3. ASSUME ReleaseNodes PROVE LedgerInv'
  BY <1>3, ReleaseKeepsLedger
<1>4. ASSUME UNCHANGED <<ledger, log>> PROVE LedgerInv'
  <2>1. UNCHANGED <<avail, resv, log>>
    BY <1>4 DEF ledger
  <2>2. Placed' = Placed
    BY <2>1 DEF Placed
  <2> QED
    BY <2>1, <2>2 DEF LedgerInv, HeldInv, Conservation
<1>5. ASSUME \/ \E j \in Jobs : AddWorkload(j)
             \/ \E n \in BatchSizes : SetScheduleBatchSize(n)
             \/ StartRun \/ AdvanceIfIdle \/ EndRun \/ EnqueueArrivals \/ Keep \/ EndScan
             \/ AdvanceClock \/ Done \/ UNCHANGED vars
      PROVE  UNCHANGED <<ledger, log>>
  BY <1>5 DEF AddWorkload, SetScheduleBatchSize, StartRun, AdvanceIfIdle, EndRun,
              EnqueueArrivals, Keep, EndScan, AdvanceClock, Done, vars, ledger, outputs
<1> QED
  BY <1>1, <1>2, <1>3, <1>4, <1>5 DEF Next, Step

(* The invariant the remaining theorems start from.                        *)
BooksInv == TypeInv /\ OnceInv /\ LedgerInv

LEMMA BooksInit == Init => BooksInv
BY TypeInit, OnceInit, LedgerInit DEF BooksInv

LEMMA BooksStep == BooksInv /\ [Next]_vars => BooksInv'
BY TypeStep, OnceStep, LedgerStep DEF BooksInv

(* Conservation: Reserve and Release balance on every node.                *)
THEOREM ResourcesConserved == Spec => []Conservation
BY BooksInit, BooksStep, PTL DEF Spec, BooksInv, LedgerInv

-----------------------------------------------------------------------------
(* The log is a feasible schedule                                          *)

PendingSorted ==
    pc # "build" => \A x, y \in 1..Len(pending) :
                        x < y => submit[pending[x]] <= submit[pending[y]]

QueueArrived == \A j \in Queued : submit[j] <= clock

(* What each log entry says, and that it holds its node until its end.     *)
EntryOK(e) ==
    /\ e.start <= clock /\ e.start <= e.end
    /\ e.start >= submit[e.job]
    /\ e.job \in NeedsGpu => e.node \in GpuNodes
    /\ e.end = resvEnd[e.job]
    /\ e.end > clock => e.job \in resv[e.node]

WithinCapacity ==
    \A n \in Nodes, t \in Nat, r \in Res : Load[r][ActiveAt(n, t)] <= Capacity[n][r]

LogInv ==
    /\ PendingSorted
    /\ QueueArrived
    /\ \A x \in DOMAIN log : EntryOK(log[x])
    /\ WithinCapacity

(* pending is sorted, so counting the arrivals is taking them.             *)
LEMMA ArrivalsDue ==
    ASSUME TypeInv, PendingSorted, pc # "build"
    PROVE  \A j \in NewArrivals : submit[j] <= clock
<1> DEFINE c == Cardinality(Arrivals)
<1>1. /\ c \in Nat /\ arrived \in Nat /\ Len(pending) \in Nat /\ clock \in Nat
      /\ arrived + c <= Len(pending) /\ pending \in Seq(Jobs)
      /\ \A j \in Jobs : submit[j] \in Nat
  <2>1. submit \in [Jobs -> SubmitTimes]
    BY DEF TypeInv, TypeOK
  <2>2. \A j \in Jobs : submit[j] \in Nat
    BY <2>1, InputAssumption
  <2> QED
    BY <2>2, ArrivalsRange DEF TypeInv, TypeOK
<1>t. \A z \in 1..Len(pending) : submit[pending[z]] \in Nat
  BY <1>1
<1>n. NewArrivals = {pending[x] : x \in arrived + 1 .. arrived + c}
  BY DEF NewArrivals
<1>c. c = Cardinality(Arrivals)
  OBVIOUS
<1> HIDE DEF c
<1> SUFFICES ASSUME NEW x \in arrived + 1 .. arrived + c, submit[pending[x]] > clock
             PROVE  FALSE
  <2>1. \A x \in arrived + 1 .. arrived + c : x \in 1..Len(pending)
    BY <1>1
  <2>2. \A x \in arrived + 1 .. arrived + c : submit[pending[x]] \in Nat
    BY <1>t, <2>1
  <2> QED
    BY <1>1, <1>n, <2>2
<1>2. x \in Nat /\ x \in 1..Len(pending) /\ x - 1 < arrived + c
  BY <1>1
<1>3. Arrivals \subseteq arrived + 1 .. x - 1
  <2> SUFFICES ASSUME NEW y \in Arrivals, y >= x PROVE FALSE
    BY <1>1, <1>2 DEF Arrivals
  <2>1. y \in 1..Len(pending) /\ submit[pending[y]] <= clock
    BY <1>1 DEF Arrivals
  <2>2. submit[pending[x]] <= submit[pending[y]]
    <3>1. CASE x = y
      BY <1>1, <1>2, <2>1, <3>1
    <3>2. CASE x < y
      BY <1>2, <2>1, <3>2 DEF PendingSorted
    <3> QED
      BY <1>2, <2>1, <3>1, <3>2
  <2>3. PICK a, b \in Nat : a = submit[pending[x]] /\ b = submit[pending[y]]
    BY <1>t, <1>2, <2>1
  <2> QED
    BY <1>1, <2>1, <2>2, <2>3
<1>4. /\ IsFiniteSet(arrived + 1 .. x - 1)
      /\ Cardinality(arrived + 1 .. x - 1) <= x - 1 - arrived
      /\ Cardinality(arrived + 1 .. x - 1) \in Nat
  <2>1. arrived + 1 \in Int /\ x - 1 \in Int
    BY <1>1, <1>2
  <2>2. /\ IsFiniteSet(arrived + 1 .. x - 1)
        /\ Cardinality(arrived + 1 .. x - 1) =
             IF arrived + 1 > x - 1 THEN 0 ELSE (x - 1) - (arrived + 1) + 1
    BY <2>1, FS_Interval, Zenon
  <2>3. x >= arrived + 1
    BY <1>1
  <2> QED
    BY <1>1, <1>2, <2>2, <2>3
<1>5. c <= Cardinality(arrived + 1 .. x - 1)
  BY <1>3, <1>4, <1>c, FS_Subset
<1> QED
  BY <1>1, <1>2, <1>4, <1>5

(* Placing a workload on a node that accepts it adds a feasible entry, and *)
(* cannot overload the node at any later time either.                      *)
LEMMA PlaceKeepsLog ==
    ASSUME BooksInv, LogInv, Scanning, NEW n \in Nodes,
           CanAccept(n, queue[cursor]), Place(n)
    PROVE  LogInv'
<1> DEFINE j == queue[cursor]
           e == [job |-> j, node |-> n, submit |-> submit[j],
                 start |-> clock, end |-> clock + duration[j]]
           new == Len(log) + 1
<1>1. /\ j \in Queued /\ Queued' \subseteq Queued /\ Placed' = Placed \cup {j}
  BY PlaceMoves DEF BooksInv
<1>2. /\ j \in Jobs /\ j \notin Placed /\ \A m \in Nodes : j \notin resv[m]
  BY <1>1, ScannedNotHeld DEF BooksInv, LedgerInv, OnceInv, ExactlyOnce, Scanning
<1>3. /\ log' = Append(log, e)
      /\ resv' = [resv EXCEPT ![n] = @ \cup {j}]
      /\ resvEnd' = [resvEnd EXCEPT ![j] = clock + duration[j]]
      /\ UNCHANGED <<pc, clock, submit, pending>>
  BY DEF Place, Reserve, inputs
<1>4. /\ e.job = j /\ e.node = n /\ e.start = clock /\ e.end = clock + duration[j]
  OBVIOUS
<1>5. /\ clock \in Nat /\ duration[j] \in Nat
      /\ resv \in [Nodes -> SUBSET Jobs] /\ resvEnd \in [Jobs -> Nat]
      /\ log \in Seq(LogEntry)
  <2>1. duration \in [Jobs -> Durations]
    BY DEF BooksInv, TypeInv, TypeOK
  <2>2. duration[j] \in Nat
    BY <1>2, <2>1, InputAssumption
  <2> QED
    BY <2>2 DEF BooksInv, TypeInv, TypeOK
<1>6. j \in NeedsGpu => n \in GpuNodes
  BY DEF CanAccept
<1>7. submit[j] <= clock
  BY <1>1 DEF LogInv, QueueArrived
<1>8. LedgerInv'
  BY PlaceKeepsLedger DEF BooksInv
<1> HIDE DEF j, e
<1>9. /\ new \in Nat /\ DOMAIN log = 1..Len(log) /\ Len(log) \in Nat
      /\ DOMAIN log' = DOMAIN log \cup {new}
      /\ new \notin DOMAIN log
      /\ log'[new] = e
      /\ \A x \in DOMAIN log : log'[x] = log[x]
      /\ \A x \in DOMAIN log : log[x] \in LogEntry
  <2>1. log \in Seq(LogEntry) /\ log' = Append(log, e)
    BY <1>3, <1>5
  <2> QED
    BY <2>1
<1> HIDE DEF new
<1>10. \A x \in DOMAIN log : log[x].job # j
  BY <1>2 DEF Placed
<1>11. /\ \A m \in Nodes : resv[m] \subseteq resv'[m]
       /\ j \in resv'[n]
       /\ resvEnd'[j] = clock + duration[j]
       /\ \A i \in Jobs : i # j => resvEnd'[i] = resvEnd[i]
  BY <1>2, <1>3, <1>5
<1>12. ASSUME NEW x \in DOMAIN log' PROVE EntryOK(log[x])'
  <2>1. CASE x \in DOMAIN log
    <3>1. log'[x] = log[x] /\ log[x].job # j /\ log[x].job \in Jobs /\ log[x].node \in Nodes
      BY <1>9, <1>10, <2>1 DEF LogEntry
    <3>2. EntryOK(log[x])
      BY <2>1 DEF LogInv
    <3> QED
      BY <1>3, <1>11, <3>1, <3>2 DEF EntryOK
  <2>2. CASE x = new
    BY <1>3, <1>4, <1>5, <1>6, <1>7, <1>9, <1>11, <2>2 DEF EntryOK
  <2> QED
    BY <1>9, <2>1, <2>2
<1>13. ASSUME NEW m \in Nodes, NEW t \in Nat, NEW r \in Res
       PROVE  Load[r][ActiveAt(m, t)'] <= Capacity[m][r]
  <2>1. Load[r][ActiveAt(m, t)] <= Capacity[m][r]
    BY DEF LogInv, WithinCapacity
  <2>2. CASE m # n \/ t < clock
    <3>1. ActiveAt(m, t)' = ActiveAt(m, t)
      BY <1>4, <1>5, <1>9, <2>2 DEF ActiveAt
    <3> QED
      BY <2>1, <3>1
  <2>3. CASE m = n /\ t >= clock
    <3>1. ActiveAt(n, t)' \subseteq resv'[n]
      <4> SUFFICES ASSUME NEW x \in DOMAIN log', log'[x].node = n, t < log'[x].end
                   PROVE  log'[x].job \in resv'[n]
        BY DEF ActiveAt
      <4>1. CASE x = new
        BY <1>4, <1>9, <1>11, <4>1
      <4>2. CASE x \in DOMAIN log
        <5>1. log[x].end > clock
          BY <1>5, <1>9, <2>3, <4>2 DEF LogEntry
        <5>2. log[x].job \in resv[n]
          BY <1>9, <4>2, <5>1 DEF LogInv, EntryOK
        <5> QED
          BY <1>9, <1>11, <4>2, <5>2
      <4> QED
        BY <1>9, <4>1, <4>2
    <3>2. resv'[n] \in SUBSET Jobs
      BY <1>2, <1>3, <1>5
    <3>3. Load[r][ActiveAt(n, t)'] <= Load[r][resv'[n]] /\ Load[r][ActiveAt(n, t)'] \in Nat
          /\ Load[r][resv'[n]] \in Nat
      BY <3>1, <3>2, LoadSplits
    <3>4. avail'[n][r] = Capacity[n][r] - Load[r][resv'[n]] /\ avail'[n][r] >= 0
      BY <1>8 DEF LedgerInv, Conservation
    <3>5. Capacity[n][r] \in Nat
      BY ResourceAssumption
    <3> QED
      BY <2>3, <3>3, <3>4, <3>5
  <2>4. m # n \/ t < clock \/ (m = n /\ t >= clock)
    BY <1>5
  <2> QED
    BY <2>2, <2>3, <2>4
<1>14. PendingSorted'
  BY <1>3 DEF LogInv, PendingSorted
<1>15. QueueArrived'
  BY <1>1, <1>3 DEF LogInv, QueueArrived
<1> QED
  BY <1>12, <1>13, <1>14, <1>15 DEF LogInv, WithinCapacity

LEMMA LogInit == Init => LogInv
<1> SUFFICES ASSUME Init PROVE LogInv
  OBVIOUS
<1>1. log = <<>> /\ queue = <<>> /\ pc = "build" /\ resv = [n \in Nodes |-> {}]
  BY DEF Init
<1>2. DOMAIN log = {} /\ Queued = {}
  BY <1>1 DEF Queued, LivePositions
<1>3. WithinCapacity
  <2> SUFFICES ASSUME NEW n \in Nodes, NEW t \in Nat, NEW r \in Res
               PROVE  Load[r][ActiveAt(n, t)] <= Capacity[n][r]
    BY DEF WithinCapacity
  <2>1. ActiveAt(n, t) = resv[n]
    BY <1>1, <1>2 DEF ActiveAt
  <2>2. avail[n][r] = Capacity[n][r] - Load[r][resv[n]] /\ avail[n][r] >= 0
    BY LedgerInit DEF LedgerInv, Conservation
  <2>3. Load[r][resv[n]] \in Nat /\ Capacity[n][r] \in Nat
    <3>1. resv[n] \in SUBSET Jobs
      BY <1>1
    <3> QED
      BY <3>1, LoadAssumption, ResourceAssumption
  <2> QED
    BY <2>1, <2>2, <2>3
<1> QED
  BY <1>1, <1>2, <1>3 DEF LogInv, PendingSorted, QueueArrived

(* Steps that place nothing: the clock may go on and reservations whose    *)
(* time is up may go.                                                      *)
LEMMA LogFrame ==
    ASSUME BooksInv, LogInv, UNCHANGED <<submit, resvEnd, log>>,
           clock' \in Nat, clock' >= clock,
           \A n \in Nodes : \A j \in resv[n] : j \in resv'[n] \/ resvEnd[j] <= clock'
    PROVE  /\ \A x \in DOMAIN log' : EntryOK(log[x])'
           /\ WithinCapacity'
<1>1. clock \in Nat
  BY DEF BooksInv, TypeInv, TypeOK
<1>2. ASSUME NEW x \in DOMAIN log PROVE EntryOK(log[x])'
  <2>1. log[x].start \in Nat /\ log[x].end \in Nat /\ log[x].node \in Nodes
    BY EntryTypes DEF BooksInv, TypeInv
  <2>2. EntryOK(log[x])
    BY DEF LogInv
  <2>3. log[x].end > clock' => log[x].job \in resv'[log[x].node]
    BY <1>1, <2>1, <2>2 DEF EntryOK
  <2> QED
    BY <1>1, <2>1, <2>2, <2>3 DEF EntryOK
<1>3. \A n, t : ActiveAt(n, t)' = ActiveAt(n, t)
  BY DEF ActiveAt
<1> QED
  BY <1>2, <1>3 DEF LogInv, WithinCapacity

LEMMA LogStep == BooksInv /\ LogInv /\ [Next]_vars => LogInv'
<1> SUFFICES ASSUME BooksInv, LogInv, [Next]_vars PROVE LogInv'
  OBVIOUS
<1> USE DEF inputs, ledger, outputs
<1>0. clock \in Nat /\ \A j \in Jobs : resvEnd[j] \in Nat
  BY DEF BooksInv, TypeInv, TypeOK
<1>1. ASSUME NEW n \in Nodes, PlaceByPolicy(n) PROVE LogInv'
  BY <1>1, PlaceKeepsLog DEF PlaceByPolicy
<1>2. ASSUME NEW n \in Nodes, PlaceByFallback(n) PROVE LogInv'
  <2>1. CanAccept(n, queue[cursor])
    BY <1>2 DEF PlaceByFallback, LeastLoaded, Accepting
  <2> QED
    BY <1>2, <2>1, PlaceKeepsLog DEF PlaceByFallback
<1>3. ASSUME UNCHANGED <<submit, clock, resvEnd, resv, log>>, PendingSorted', QueueArrived'
      PROVE  LogInv'
  BY <1>0, <1>3, LogFrame DEF LogInv
<1>4. ASSUME NEW j \in Jobs, AddWorkload(j) PROVE LogInv'
  <2>1. /\ pc' = "build" /\ pc = "build"
        /\ UNCHANGED <<submit, clock, resvEnd, resv, log, queue, kept, cursor>>
    BY <1>4 DEF AddWorkload
  <2>2. QueueArrived'
    BY <2>1 DEF LogInv, QueueArrived, Queued, LivePositions
  <2> QED
    BY <1>3, <2>1, <2>2 DEF PendingSorted
<1>5. ASSUME NEW n \in BatchSizes, SetScheduleBatchSize(n) PROVE LogInv'
  <2>1. /\ pc' = "build" /\ pc = "build"
        /\ UNCHANGED <<submit, clock, resvEnd, resv, log, queue, kept, cursor>>
    BY <1>5 DEF SetScheduleBatchSize
  <2>2. QueueArrived'
    BY <2>1 DEF LogInv, QueueArrived, Queued, LivePositions
  <2> QED
    BY <1>3, <2>1, <2>2 DEF PendingSorted
<1>6. ASSUME StartRun PROVE LogInv'
  <2>1. /\ UNCHANGED <<submit, clock, resvEnd, resv, log, queue>>
        /\ queue = <<>> /\ pc' = "top" /\ pending' \in SortedOrders
    BY <1>6 DEF StartRun, BooksInv, TypeInv, PcInv
  <2>2. QueueArrived'
    BY <2>1 DEF QueueArrived, Queued, LivePositions
  <2>3. PendingSorted'
    <3>1. Cardinality(added) \in Nat
      BY JobsAssumption, FS_Subset, FS_CardinalityType DEF BooksInv, TypeInv, TypeOK
    <3>2. /\ pending' \in [1..Cardinality(added) -> added]
          /\ \A x, y \in DOMAIN pending' : x < y => submit[pending'[x]] <= submit[pending'[y]]
      BY <2>1 DEF SortedOrders
    <3>3. DOMAIN pending' = 1..Len(pending')
      BY <3>1, <3>2
    <3> QED
      BY <2>1, <3>2, <3>3 DEF PendingSorted
  <2> QED
    BY <1>3, <2>1, <2>2, <2>3
<1>7. ASSUME AdvanceIfIdle \/ AdvanceClock PROVE LogInv'
  <2>1. /\ UNCHANGED <<submit, resvEnd, resv, log, queue, pending>>
        /\ pc \notin {"build", "scan"} /\ pc' \notin {"build", "scan"}
    BY <1>7 DEF AdvanceIfIdle, AdvanceClock
  <2>2. clock' \in Nat
    BY TypeStep DEF BooksInv, TypeInv, TypeOK
  <2>3. clock' >= clock
    <3>1. CASE AdvanceIfIdle
      <4>1. clock' = clock \/ (clock < submit[pending[arrived + 1]] /\ clock' = submit[pending[arrived + 1]])
        BY <3>1 DEF AdvanceIfIdle
      <4> QED
        BY <1>0, <2>2, <4>1
    <3>2. CASE AdvanceClock
      <4>1. \A t \in LaterEnds : t > clock
        BY DEF LaterEnds
      <4>2. clock' = clock + 1 \/ clock' \in LaterEnds
        BY <3>2 DEF AdvanceClock
      <4> QED
        BY <1>0, <2>2, <4>1, <4>2
    <3> QED
      BY <1>7, <3>1, <3>2
  <2>4. PendingSorted'
    BY <2>1 DEF LogInv, PendingSorted
  <2>5. QueueArrived'
    <3>1. Queued' = Queued
      BY <2>1 DEF Queued, LivePositions
    <3>2. \A j \in Queued : submit[j] \in Nat
      <4>1. Queued \subseteq Jobs
        BY <2>1 DEF BooksInv, TypeInv, TypeOK, OnceInv, ExactlyOnce
      <4>2. submit \in [Jobs -> SubmitTimes]
        BY DEF BooksInv, TypeInv, TypeOK
      <4> QED
        BY <4>1, <4>2, InputAssumption
    <3> QED
      BY <1>0, <2>1, <2>2, <2>3, <3>1, <3>2 DEF LogInv, QueueArrived
  <2> QED
    BY <2>1, <2>2, <2>3, <2>4, <2>5, LogFrame DEF LogInv
<1>8. ASSUME ReleaseNodes PROVE LogInv'
  <2>1. /\ UNCHANGED <<submit, clock, resvEnd, log, queue, pending>>
        /\ resv' = [n \in Nodes |-> resv[n] \ Due(n)]
        /\ pc \notin {"build", "scan"} /\ pc' \notin {"build", "scan"}
    BY <1>8 DEF ReleaseNodes, ReleaseAll
  <2>2. \A n \in Nodes : \A j \in resv[n] : j \in resv'[n] \/ resvEnd[j] <= clock'
    BY <2>1 DEF Due
  <2>3. PendingSorted' /\ QueueArrived'
    BY <2>1 DEF LogInv, PendingSorted, QueueArrived, Queued, LivePositions
  <2> QED
    BY <1>0, <2>1, <2>2, <2>3, LogFrame DEF LogInv
<1>9. ASSUME EnqueueArrivals PROVE LogInv'
  <2>1. /\ UNCHANGED <<submit, clock, resvEnd, resv, log, pending>>
        /\ pc = "arrive" /\ pc' # "build"
    BY <1>9 DEF EnqueueArrivals
  <2>2. Queued' = Queued \cup NewArrivals
    BY <1>9, ArrivalsMove DEF BooksInv
  <2>3. \A j \in NewArrivals : submit[j] <= clock
    BY <2>1, ArrivalsDue DEF BooksInv, LogInv
  <2>4. PendingSorted' /\ QueueArrived'
    BY <2>1, <2>2, <2>3 DEF LogInv, PendingSorted, QueueArrived
  <2> QED
    BY <1>3, <2>1, <2>4
<1>10. ASSUME Keep \/ EndScan PROVE LogInv'
  <2>1. /\ UNCHANGED <<submit, clock, resvEnd, resv, log, pending>>
        /\ pc = "scan" /\ pc' # "build"
    BY <1>10 DEF Keep, EndScan, Scanning
  <2>2. Queued' = Queued
    <3>1. CASE Keep
      BY <3>1, KeepMoves DEF BooksInv
    <3>2. CASE EndScan
      BY <3>2, EndScanMoves DEF BooksInv
    <3> QED
      BY <1>10, <3>1, <3>2
  <2>3. PendingSorted' /\ QueueArrived'
    BY <2>1, <2>2 DEF LogInv, PendingSorted, QueueArrived
  <2> QED
    BY <1>3, <2>1, <2>3
<1>11. ASSUME EndRun \/ UNCHANGED vars PROVE LogInv'
  <2>1. /\ UNCHANGED <<submit, clock, resvEnd, resv, log, pending, queue, kept, cursor>>
        /\ LivePositions' = LivePositions
        /\ pc' = pc \/ pc # "build"
    BY <1>11 DEF EndRun, vars, LivePositions
  <2>2. PendingSorted' /\ QueueArrived'
    BY <2>1 DEF LogInv, PendingSorted, QueueArrived, Queued
  <2> QED
    BY <1>3, <2>1, <2>2
<1> QED
  BY <1>1, <1>2, <1>4, <1>5, <1>6, <1>7, <1>8, <1>9, <1>10, <1>11 DEF Next, Step, Done

(* LogFeasible: the log is a schedule the cluster can run.                 *)
THEOREM LogIsFeasible == Spec => []LogFeasible
<1>1. BooksInv /\ LogInv => LogFeasible
  <2> SUFFICES ASSUME BooksInv, LogInv, NEW x \in DOMAIN log
               PROVE  /\ \A r \in Res : Load[r][ActiveAt(log[x].node, log[x].start)]
                                           <= Capacity[log[x].node][r]
                      /\ log[x].start >= submit[log[x].job]
                      /\ log[x].job \in NeedsGpu => log[x].node \in GpuNodes
    BY DEF LogFeasible
  <2>1. log[x].node \in Nodes /\ log[x].start \in Nat
    BY EntryTypes DEF BooksInv, TypeInv
  <2> QED
    BY <2>1 DEF LogInv, WithinCapacity, EntryOK
<1>2. Init => BooksInv /\ LogInv
  BY BooksInit, LogInit
<1>3. (BooksInv /\ LogInv) /\ [Next]_vars => (BooksInv /\ LogInv)'
  BY BooksStep, LogStep
<1> QED
  BY <1>1, <1>2, <1>3, PTL DEF Spec

-----------------------------------------------------------------------------
(* The reservations against the log                                        *)

(* A reservation is of a log entry on the same node.                       *)
HeldLogged ==
    \A n \in Nodes : \A j \in resv[n] :
        \E x \in DOMAIN log : log[x].job = j /\ log[x].node = n

(* The clock has gone on since the last placement when a round begins, and *)
(* Release leaves only reservations that end later.                        *)
RoundInv ==
    /\ pc \in {"top", "release", "arrive"} => \A x \in DOMAIN log : log[x].start < clock
    /\ pc = "arrive" => \A n \in Nodes : \A j \in resv[n] : resvEnd[j] > clock

MatchInv == HeldLogged /\ RoundInv /\ LedgerMatchesLog

(* LedgerMatchesLog entry by entry.                                        *)
Running(x) == log[x].end > clock \/ log[x].start = clock

LEMMA MatchPointwise ==
    LedgerMatchesLog <=>
        (pc = "scan" => \A n \in Nodes : \A j : j \in resv[n] <=>
            \E x \in DOMAIN log : log[x].job = j /\ log[x].node = n /\ Running(x))
<1>1. \A n \in Nodes : \A j :
         j \in {log[x].job : x \in {y \in DOMAIN log :
                   log[y].node = n /\ (log[y].end > clock \/ log[y].start = clock)}}
         <=> \E x \in DOMAIN log : log[x].job = j /\ log[x].node = n /\ Running(x)
  BY DEF Running
<1> QED
  BY <1>1 DEF LedgerMatchesLog

(* What Place appends to the log.                                          *)
LEMMA PlaceAppends ==
    ASSUME TypeInv, Scanning, NEW n \in Nodes, Place(n)
    PROVE  LET new == Len(log) + 1 IN
           /\ DOMAIN log' = DOMAIN log \cup {new}
           /\ new \notin DOMAIN log
           /\ log'[new].job = queue[cursor] /\ log'[new].node = n
           /\ log'[new].start = clock
           /\ \A x \in DOMAIN log : log'[x] = log[x]
<1> DEFINE e == [job |-> queue[cursor], node |-> n, submit |-> submit[queue[cursor]],
                 start |-> clock, end |-> clock + duration[queue[cursor]]]
<1>1. log' = Append(log, e) /\ e.job = queue[cursor] /\ e.node = n /\ e.start = clock
  BY DEF Place
<1>2. Len(log) \in Nat /\ log \in Seq(LogEntry)
  BY DEF TypeInv, TypeOK
<1> HIDE DEF e
<1> QED
  BY <1>1, <1>2

LEMMA PlaceKeepsMatch ==
    ASSUME BooksInv, MatchInv, Scanning, NEW n \in Nodes, Place(n)
    PROVE  MatchInv'
<1> DEFINE j == queue[cursor]
<1>1. PICK new :
      /\ DOMAIN log' = DOMAIN log \cup {new} /\ new \notin DOMAIN log
      /\ log'[new].job = j /\ log'[new].node = n /\ log'[new].start = clock
      /\ \A x \in DOMAIN log : log'[x] = log[x]
  BY PlaceAppends DEF BooksInv
<1>2. /\ resv' = [resv EXCEPT ![n] = @ \cup {j}] /\ clock' = clock
      /\ pc = "scan" /\ pc' = "scan"
  BY DEF Place, Reserve, Scanning
<1>3. resv \in [Nodes -> SUBSET Jobs]
  BY DEF BooksInv, TypeInv, TypeOK
<1> HIDE DEF j
<1>4. \A m \in Nodes : \A i : i \in resv'[m] <=> i \in resv[m] \/ (m = n /\ i = j)
  BY <1>2, <1>3
<1>5. /\ \A x \in DOMAIN log : Running(x)' = Running(x)
      /\ Running(new)'
  BY <1>1, <1>2 DEF Running
<1>6. HeldLogged'
  BY <1>1, <1>4 DEF MatchInv, HeldLogged
<1>7. RoundInv'
  BY <1>2 DEF RoundInv
<1>8. \A m \in Nodes : \A i : i \in resv[m] <=>
         \E x \in DOMAIN log : log[x].job = i /\ log[x].node = m /\ Running(x)
  BY <1>2, MatchPointwise DEF MatchInv
<1>9. ASSUME NEW m \in Nodes, NEW i
      PROVE  i \in resv'[m] <=>
             \E x \in DOMAIN log' : log'[x].job = i /\ log'[x].node = m /\ Running(x)'
  <2>1. ASSUME i \in resv'[m]
        PROVE  \E x \in DOMAIN log' : log'[x].job = i /\ log'[x].node = m /\ Running(x)'
    <3>1. CASE m = n /\ i = j
      BY <1>1, <1>5, <3>1
    <3>2. CASE i \in resv[m]
      <4>1. PICK x \in DOMAIN log : log[x].job = i /\ log[x].node = m /\ Running(x)
        BY <1>8, <3>2
      <4> QED
        BY <1>1, <1>5, <4>1
    <3> QED
      BY <1>4, <2>1, <3>1, <3>2
  <2>2. ASSUME NEW x \in DOMAIN log', log'[x].job = i, log'[x].node = m, Running(x)'
        PROVE  i \in resv'[m]
    <3>1. CASE x = new
      BY <1>1, <1>4, <2>2, <3>1
    <3>2. CASE x \in DOMAIN log
      BY <1>1, <1>4, <1>5, <1>8, <2>2, <3>2
    <3> QED
      BY <1>1, <3>1, <3>2
  <2> QED
    BY <2>1, <2>2
<1>10. LedgerMatchesLog'
  BY <1>9 DEF LedgerMatchesLog, Running
<1> QED
  BY <1>6, <1>7, <1>10 DEF MatchInv

(* A round that has something to place begins.                             *)
LEMMA RoundMatches ==
    ASSUME BooksInv, LogInv, MatchInv, EnqueueArrivals
    PROVE  LedgerMatchesLog'
<1>1. pc = "arrive" /\ UNCHANGED <<clock, resv, resvEnd, log>>
  BY DEF EnqueueArrivals, ledger, outputs
<1>2. clock \in Nat
  BY DEF BooksInv, TypeInv, TypeOK
<1>3. ASSUME NEW n \in Nodes, NEW j
      PROVE  j \in resv[n] <=>
             \E x \in DOMAIN log : log[x].job = j /\ log[x].node = n /\ Running(x)
  <2>1. ASSUME j \in resv[n]
        PROVE  \E x \in DOMAIN log : log[x].job = j /\ log[x].node = n /\ Running(x)
    <3>1. PICK x \in DOMAIN log : log[x].job = j /\ log[x].node = n
      BY <2>1 DEF MatchInv, HeldLogged
    <3>2. log[x].end = resvEnd[j]
      BY <3>1 DEF LogInv, EntryOK
    <3>3. resvEnd[j] > clock
      BY <1>1, <2>1 DEF MatchInv, RoundInv
    <3> QED
      BY <3>1, <3>2, <3>3 DEF Running
  <2>2. ASSUME NEW x \in DOMAIN log, log[x].job = j, log[x].node = n, Running(x)
        PROVE  j \in resv[n]
    <3>1. log[x].start \in Nat /\ log[x].start < clock
      BY <1>1, EntryTypes DEF MatchInv, RoundInv, BooksInv, TypeInv
    <3>2. log[x].end > clock
      BY <1>2, <2>2, <3>1 DEF Running
    <3> QED
      BY <2>2, <3>2 DEF LogInv, EntryOK
  <2> QED
    BY <2>1, <2>2
<1>4. LedgerMatchesLog' <=> (pc' = "scan" => \A n \in Nodes :
         resv[n] = {log[x].job : x \in {y \in DOMAIN log :
             log[y].node = n /\ (log[y].end > clock \/ log[y].start = clock)}})
  BY <1>1 DEF LedgerMatchesLog
<1> QED
  BY <1>3, <1>4 DEF Running

LEMMA MatchInit == Init => MatchInv
BY DEF Init, MatchInv, HeldLogged, RoundInv, LedgerMatchesLog

LEMMA MatchStep == BooksInv /\ LogInv /\ MatchInv /\ [Next]_vars => MatchInv'
<1> SUFFICES ASSUME BooksInv, LogInv, MatchInv, [Next]_vars PROVE MatchInv'
  OBVIOUS
<1> USE DEF inputs, ledger, outputs
<1>0. /\ clock \in Nat /\ clock' \in Nat
      /\ \A j \in Jobs : resvEnd[j] \in Nat
      /\ \A x \in DOMAIN log : log[x].start \in Nat /\ log[x].start <= clock
  <2>1. BooksInv'
    BY BooksStep
  <2> QED
    BY <2>1, EntryTypes DEF BooksInv, TypeInv, TypeOK, LogInv, EntryOK
<1>1. ASSUME NEW n \in Nodes, PlaceByPolicy(n) \/ PlaceByFallback(n) PROVE MatchInv'
  BY <1>1, PlaceKeepsMatch DEF PlaceByPolicy, PlaceByFallback
<1>2. ASSUME ReleaseNodes PROVE MatchInv'
  <2>1. /\ pc = "release" /\ pc' = "arrive" /\ UNCHANGED <<clock, resvEnd, log>>
        /\ resv' = [n \in Nodes |-> resv[n] \ Due(n)]
    BY <1>2 DEF ReleaseNodes, ReleaseAll
  <2>2. \A n \in Nodes : resv'[n] = {j \in resv[n] : ~(resvEnd[j] <= clock)}
    BY <2>1 DEF Due
  <2>3. resv \in [Nodes -> SUBSET Jobs]
    BY DEF BooksInv, TypeInv, TypeOK
  <2> QED
    BY <1>0, <2>1, <2>2, <2>3 DEF MatchInv, HeldLogged, RoundInv, LedgerMatchesLog
<1>3. ASSUME EnqueueArrivals PROVE MatchInv'
  <2>1. /\ pc = "arrive" /\ pc' \in {"top", "scan"} /\ UNCHANGED <<clock, resvEnd, resv, log>>
    BY <1>3 DEF EnqueueArrivals
  <2>2. HeldLogged' /\ RoundInv'
    BY <2>1 DEF MatchInv, HeldLogged, RoundInv
  <2> QED
    BY <1>3, <2>2, RoundMatches DEF MatchInv
<1>4. ASSUME AdvanceIfIdle \/ AdvanceClock PROVE MatchInv'
  <2>1. /\ UNCHANGED <<resvEnd, resv, log>> /\ pc' \in {"top", "release"}
        /\ pc = "top" \/ clock' > clock
    <3>1. CASE AdvanceIfIdle
      BY <3>1 DEF AdvanceIfIdle
    <3>2. CASE AdvanceClock
      <4>1. \A t \in LaterEnds : t > clock
        BY DEF LaterEnds
      <4>2. clock' = clock + 1 \/ clock' \in LaterEnds
        BY <3>2 DEF AdvanceClock
      <4> QED
        BY <1>0, <3>2, <4>1, <4>2 DEF AdvanceClock
    <3> QED
      BY <1>4, <3>1, <3>2
  <2>2. pc = "top" => clock' >= clock
    <3>1. CASE AdvanceIfIdle
      <4>1. clock' = clock \/ (clock < submit[pending[arrived + 1]] /\ clock' = submit[pending[arrived + 1]])
        BY <3>1 DEF AdvanceIfIdle
      <4> QED
        BY <1>0, <4>1
    <3>2. CASE AdvanceClock
      BY <3>2 DEF AdvanceClock
    <3> QED
      BY <1>4, <3>1, <3>2
  <2>3. \A x \in DOMAIN log : log[x].start < clock'
    BY <1>0, <2>1, <2>2 DEF MatchInv, RoundInv
  <2> QED
    BY <2>1, <2>3 DEF MatchInv, HeldLogged, RoundInv, LedgerMatchesLog
<1>5. ASSUME UNCHANGED <<clock, resvEnd, resv, log>>,
             pc' = pc \/ pc' \in {"advance", "done"} \/ (pc' = "top" /\ DOMAIN log = {})
      PROVE  MatchInv'
  BY <1>5 DEF MatchInv, HeldLogged, RoundInv, LedgerMatchesLog
<1>6. ASSUME StartRun PROVE MatchInv'
  <2>1. /\ UNCHANGED <<clock, resvEnd, resv, log>> /\ pc' = "top" /\ log = <<>>
    BY <1>6 DEF StartRun, BooksInv, TypeInv, PcInv
  <2> QED
    BY <1>5, <2>1
<1>7. ASSUME \/ \E j \in Jobs : AddWorkload(j)
             \/ \E n \in BatchSizes : SetScheduleBatchSize(n)
             \/ EndRun \/ Keep \/ EndScan \/ Done \/ UNCHANGED vars
      PROVE  UNCHANGED <<clock, resvEnd, resv, log>> /\ (pc' = pc \/ pc' \in {"advance", "done"})
  BY <1>7 DEF AddWorkload, SetScheduleBatchSize, EndRun, Keep, EndScan, Done, vars
<1> QED
  BY <1>1, <1>2, <1>3, <1>4, <1>5, <1>6, <1>7 DEF Next, Step

(* LedgerMatchesLog: while workloads are placed, a node's reservations are *)
(* exactly what the log has running on it.                                 *)
THEOREM LedgerIsTheLog == Spec => []LedgerMatchesLog
<1>1. Init => BooksInv /\ LogInv /\ MatchInv
  BY BooksInit, LogInit, MatchInit
<1>2. (BooksInv /\ LogInv /\ MatchInv) /\ [Next]_vars => (BooksInv /\ LogInv /\ MatchInv)'
  BY BooksStep, LogStep, MatchStep
<1> QED
  BY <1>1, <1>2, PTL DEF Spec, MatchInv

-----------------------------------------------------------------------------
(* A round misses nothing                                                  *)

(* While the batch has room, what the scan has kept no node can take.      *)
KeptInv ==
    pc = "scan" /\ scheduled < batch => \A x \in 1..kept : Accepting(queue[x]) = {}

GreedyInv == KeptInv /\ GreedyRound

(* A node that has given resources away accepts nothing it did not before. *)
LEMMA PlaceShrinksAccepting ==
    ASSUME TypeInv, Scanning, NEW n \in Nodes, Place(n), NEW i \in Jobs
    PROVE  Accepting(i)' \subseteq Accepting(i)
<1>1. avail' = [avail EXCEPT ![n] = [r \in Res |-> @[r] - Demand[queue[cursor]][r]]]
  BY DEF Place, Reserve
<1>2. queue[cursor] \in Jobs
  BY DEF Scanning, TypeInv, TypeOK
<1>3. avail \in [Nodes -> [Res -> Int]]
  BY DEF TypeInv, TypeOK
<1>4. \A r \in Res : Demand[queue[cursor]][r] \in Nat /\ Demand[i][r] \in Nat
  BY <1>2, ResourceAssumption
<1>5. \A m \in Nodes, r \in Res : /\ avail'[m][r] \in Int /\ avail[m][r] \in Int
                                  /\ avail'[m][r] <= avail[m][r]
  BY <1>1, <1>3, <1>4
<1>6. \A m \in Nodes : (\A r \in Res : avail'[m][r] >= Demand[i][r])
                          => (\A r \in Res : avail[m][r] >= Demand[i][r])
  BY <1>4, <1>5
<1> QED
  BY <1>6 DEF Accepting, CanAccept

LEMMA GreedyInit == Init => GreedyInv
BY DEF Init, GreedyInv, KeptInv, GreedyRound

LEMMA GreedyStep == TypeInv /\ GreedyInv /\ [Next]_vars => GreedyInv'
<1> SUFFICES ASSUME TypeInv, GreedyInv, [Next]_vars PROVE GreedyInv'
  OBVIOUS
<1> USE DEF inputs, ledger, outputs
<1>0. queue \in Seq(Jobs) /\ Len(queue) \in Nat /\ kept \in Nat /\ cursor \in Nat
      /\ scheduled \in Nat /\ batch \in Nat
  BY DEF TypeInv, TypeOK
<1>1. ASSUME NEW n \in Nodes, Scanning, Place(n) PROVE GreedyInv'
  <2>1. /\ pc = "scan" /\ UNCHANGED <<pc, queue, kept, batch>> /\ scheduled' = scheduled + 1
        /\ kept < cursor /\ cursor <= Len(queue)
    BY <1>1 DEF Place, Scanning, TypeInv, PcInv
  <2>2. ASSUME scheduled' < batch', NEW x \in 1..kept PROVE Accepting(queue[x])' = {}
    <3>1. Accepting(queue[x]) = {}
      <4>1. scheduled < batch
        BY <1>0, <2>1, <2>2
      <4> QED
        BY <2>1, <2>2, <4>1 DEF GreedyInv, KeptInv
    <3>2. queue[x] \in Jobs
      BY <1>0, <2>1
    <3>3. PICK i \in Jobs : i = queue[x]
      BY <3>2
    <3>4. Accepting(i)' \subseteq Accepting(i)
      BY <1>1, PlaceShrinksAccepting
    <3>5. queue'[x] = i
      BY <2>1, <3>3
    <3> QED
      BY <3>1, <3>3, <3>4, <3>5 DEF Accepting, CanAccept
  <2> QED
    BY <2>1, <2>2 DEF GreedyInv, KeptInv, GreedyRound
<1>2. ASSUME Keep PROVE GreedyInv'
  <2>1. /\ pc = "scan" /\ UNCHANGED <<pc, scheduled, batch, avail>> /\ kept' = kept + 1
        /\ queue' = [queue EXCEPT ![kept + 1] = queue[cursor]]
        /\ scheduled >= batch \/ Accepting(queue[cursor]) = {}
        /\ kept < cursor /\ cursor <= Len(queue)
    BY <1>2 DEF Keep, Scanning, TypeInv, PcInv
  <2>2. /\ queue'[kept + 1] = queue[cursor]
        /\ \A x \in 1..kept : queue'[x] = queue[x]
    BY <1>0, <2>1
  <2>3. ASSUME scheduled' < batch', NEW x \in 1..kept'
        PROVE  Accepting(queue[x])' = {}
    <3>1. Accepting(queue'[x]) = {}
      <4>1. CASE x = kept + 1
        BY <1>0, <2>1, <2>2, <2>3, <4>1
      <4>2. CASE x \in 1..kept
        BY <1>0, <2>1, <2>2, <2>3, <4>2 DEF GreedyInv, KeptInv
      <4> QED
        BY <1>0, <2>1, <2>3, <4>1, <4>2
    <3> QED
      BY <2>1, <3>1 DEF Accepting, CanAccept
  <2> QED
    BY <2>1, <2>3 DEF GreedyInv, KeptInv, GreedyRound
<1>3. ASSUME EndScan PROVE GreedyInv'
  <2>1. /\ pc = "scan" /\ pc' = "advance" /\ UNCHANGED <<scheduled, batch, avail, kept>>
        /\ queue' = SubSeq(queue, 1, kept)
        /\ kept < cursor /\ cursor <= Len(queue) + 1
    BY <1>3 DEF EndScan, TypeInv, PcInv
  <2>2. /\ Len(queue') = kept
        /\ \A x \in 1..kept : queue'[x] = queue[x]
    BY <1>0, <2>1
  <2>3. ASSUME scheduled' < batch', NEW x \in 1..Len(queue')
        PROVE  Accepting(queue[x])' = {}
    <3>1. Accepting(queue[x]) = {} /\ queue'[x] = queue[x]
      BY <2>1, <2>2, <2>3 DEF GreedyInv, KeptInv
    <3> QED
      BY <2>1, <3>1 DEF Accepting, CanAccept
  <2> QED
    BY <2>1, <2>3 DEF GreedyInv, KeptInv, GreedyRound
<1>4. ASSUME EnqueueArrivals PROVE GreedyInv'
  BY <1>4 DEF EnqueueArrivals, GreedyInv, KeptInv, GreedyRound
<1>5. ASSUME \/ \E j \in Jobs : AddWorkload(j)
             \/ \E n \in BatchSizes : SetScheduleBatchSize(n)
             \/ StartRun \/ AdvanceIfIdle \/ EndRun \/ ReleaseNodes \/ AdvanceClock
      PROVE  GreedyInv'
  <2>1. pc' \notin {"scan", "advance"}
    BY <1>5 DEF AddWorkload, SetScheduleBatchSize, StartRun, AdvanceIfIdle, EndRun,
                ReleaseNodes, AdvanceClock
  <2> QED
    BY <2>1 DEF GreedyInv, KeptInv, GreedyRound
<1>6. ASSUME UNCHANGED vars PROVE GreedyInv'
  BY <1>6 DEF vars, GreedyInv, KeptInv, GreedyRound, Accepting, CanAccept
<1> QED
  BY <1>1, <1>2, <1>3, <1>4, <1>5, <1>6
  DEF Next, Step, PlaceByPolicy, PlaceByFallback, Done

(* GreedyRound: a round that ends short of its batch size leaves in the    *)
(* queue only workloads no node can take.                                  *)
THEOREM RoundsMissNothing == Spec => []GreedyRound
<1>1. Init => TypeInv /\ GreedyInv
  BY TypeInit, GreedyInit
<1>2. (TypeInv /\ GreedyInv) /\ [Next]_vars => (TypeInv /\ GreedyInv)'
  BY TypeStep, GreedyStep
<1> QED
  BY <1>1, <1>2, PTL DEF Spec, GreedyInv

-----------------------------------------------------------------------------
(* The traces against the log                                              *)

LEMMA PlaceKeepsTraces ==
    ASSUME BooksInv, TracesMatchLog, Scanning, NEW n \in Nodes, Place(n),
           \/ traces' = Append(traces, [job |-> queue[cursor], node |-> n, at |-> clock])
           \/ UNCHANGED traces
    PROVE  TracesMatchLog'
<1> DEFINE new == Len(log) + 1
           j == queue[cursor]
           t == [job |-> queue[cursor], node |-> n, at |-> clock]
<1>1. /\ DOMAIN log' = DOMAIN log \cup {new}
      /\ log'[new].job = j /\ log'[new].node = n /\ log'[new].start = clock
      /\ \A x \in DOMAIN log : log'[x] = log[x]
  BY PlaceAppends DEF BooksInv
<1>2. \A x \in DOMAIN log : log[x].job # j
  BY PlaceMoves DEF BooksInv, OnceInv, ExactlyOnce, Scanning, Placed
<1>3. /\ \A x \in DOMAIN traces : \E y \in DOMAIN log :
            /\ log[y].job = traces[x].job
            /\ log[y].node = traces[x].node
            /\ log[y].start = traces[x].at
      /\ \A x, y \in DOMAIN traces : traces[x].job = traces[y].job => x = y
  BY DEF TracesMatchLog
<1>4. traces \in Seq(DecisionTrace) /\ Len(traces) \in Nat
  BY DEF BooksInv, TypeInv, TypeOK
<1>5. t.job = j /\ t.node = n /\ t.at = clock
  OBVIOUS
<1> HIDE DEF new, j, t
<1>6. CASE UNCHANGED traces
  BY <1>1, <1>3, <1>6 DEF TracesMatchLog
<1>7. CASE traces' = Append(traces, t)
  <2>1. /\ DOMAIN traces' = DOMAIN traces \cup {Len(traces) + 1}
        /\ traces'[Len(traces) + 1] = t
        /\ \A x \in DOMAIN traces : traces'[x] = traces[x]
    BY <1>4, <1>7
  <2>2. \A x \in DOMAIN traces : traces[x].job # j
    BY <1>2, <1>3
  <2>3. ASSUME NEW x \in DOMAIN traces'
        PROVE  \E y \in DOMAIN log' : /\ log'[y].job = traces'[x].job
                                      /\ log'[y].node = traces'[x].node
                                      /\ log'[y].start = traces'[x].at
    <3>1. CASE x = Len(traces) + 1
      BY <1>1, <1>5, <2>1, <3>1
    <3>2. CASE x \in DOMAIN traces
      BY <1>1, <1>3, <2>1, <3>2
    <3> QED
      BY <2>1, <3>1, <3>2
  <2>4. \A x, y \in DOMAIN traces' : traces'[x].job = traces'[y].job => x = y
    BY <1>3, <1>5, <2>1, <2>2
  <2> QED
    BY <2>3, <2>4 DEF TracesMatchLog
<1> QED
  BY <1>6, <1>7 DEF t

LEMMA TracesStep == BooksInv /\ TracesMatchLog /\ [Next]_vars => TracesMatchLog'
<1> SUFFICES ASSUME BooksInv, TracesMatchLog, [Next]_vars PROVE TracesMatchLog'
  OBVIOUS
<1>1. ASSUME NEW n \in Nodes, PlaceByPolicy(n) PROVE TracesMatchLog'
  BY <1>1, PlaceKeepsTraces DEF PlaceByPolicy
<1>2. ASSUME NEW n \in Nodes, PlaceByFallback(n) PROVE TracesMatchLog'
  BY <1>2, PlaceKeepsTraces DEF PlaceByFallback
<1>3. ASSUME UNCHANGED outputs PROVE TracesMatchLog'
  BY <1>3 DEF outputs, TracesMatchLog
<1>4. ASSUME \/ \E j \in Jobs : AddWorkload(j)
             \/ \E n \in BatchSizes : SetScheduleBatchSize(n)
             \/ StartRun \/ AdvanceIfIdle \/ EndRun \/ ReleaseNodes \/ EnqueueArrivals
             \/ Keep \/ EndScan \/ AdvanceClock \/ Done \/ UNCHANGED vars
      PROVE  UNCHANGED outputs
  BY <1>4 DEF AddWorkload, SetScheduleBatchSize, StartRun, AdvanceIfIdle, EndRun,
              ReleaseNodes, EnqueueArrivals, Keep, EndScan, AdvanceClock, Done, vars, outputs
<1> QED
  BY <1>1, <1>2, <1>3, <1>4 DEF Next, Step

(* TracesMatchLog: every trace is of a placement in the log, and no        *)
(* workload has two.                                                       *)
THEOREM TracesAreOfTheLog == Spec => []TracesMatchLog
<1>1. Init => BooksInv /\ TracesMatchLog
  BY BooksInit DEF Init, TracesMatchLog
<1>2. (BooksInv /\ TracesMatchLog) /\ [Next]_vars => (BooksInv /\ TracesMatchLog)'
  BY BooksStep, TracesStep
<1> QED
  BY <1>1, <1>2, PTL DEF Spec

-----------------------------------------------------------------------------
(* The loop implements JobSchedule                                         *)

Held == UNION {resv[n] : n \in Nodes}

LEMMA ScheduleInit == Init => Schedule!Init
<1> SUFFICES ASSUME Init PROVE Schedule!Init
  OBVIOUS
<1>1. /\ clock = 0 /\ queue = <<>> /\ log = <<>> /\ pc = "build"
      /\ resv = [n \in Nodes |-> {}] /\ resvEnd = [j \in Jobs |-> 0]
  BY DEF Init
<1>2. Queued = {} /\ Placed = {}
  BY <1>1 DEF Queued, LivePositions, Placed
<1>3. duration \in [Jobs -> Nat]
  BY InputAssumption DEF Init
<1> QED
  BY <1>1, <1>2, <1>3 DEF Schedule!Init

LEMMA ScheduleStart ==
    ASSUME BooksInv, Scanning, NEW n \in Nodes, CanAccept(n, queue[cursor]), Place(n)
    PROVE  Schedule!Start(queue[cursor], n)
<1> DEFINE j == queue[cursor]
<1>1. j \in Queued /\ Queued' = Queued \ {j} /\ Placed' = Placed \cup {j}
  BY PlaceMoves DEF BooksInv
<1>2. j \in Jobs /\ \A m \in Nodes : j \notin resv[m]
  BY ScannedNotHeld DEF BooksInv, LedgerInv
<1>3. /\ resv' = [resv EXCEPT ![n] = @ \cup {j}]
      /\ resvEnd' = [resvEnd EXCEPT ![j] = clock + duration[j]]
      /\ UNCHANGED <<clock, duration>>
  BY DEF Place, Reserve, inputs
<1>4. (\A r \in Res : avail[n][r] >= Demand[j][r]) /\ (j \in NeedsGpu => n \in GpuNodes)
  BY DEF CanAccept
<1>5. resv \in [Nodes -> SUBSET Jobs]
  BY DEF BooksInv, TypeInv, TypeOK
<1> HIDE DEF j
<1>6. ASSUME NEW r \in Res PROVE Load[r][resv[n] \cup {j}] <= Capacity[n][r]
  <2>1. Load[r][resv[n] \cup {j}] = Load[r][resv[n]] + Demand[j][r]
    BY <1>2, <1>5, LoadGrows
  <2>2. avail[n][r] = Capacity[n][r] - Load[r][resv[n]]
    BY DEF BooksInv, LedgerInv, Conservation
  <2>3. Load[r][resv[n]] \in Int /\ Demand[j][r] \in Int /\ Capacity[n][r] \in Int
    BY <1>2, <1>5, LoadAssumption, ResourceAssumption
  <2> QED
    BY <1>4, <2>1, <2>2, <2>3
<1>7. Placed' \ Held' = Placed \ Held
  <2>1. Held' = Held \cup {j}
    BY <1>3, <1>5 DEF Held
  <2>2. j \notin Placed
    BY <1>1 DEF BooksInv, OnceInv, ExactlyOnce, Scanning
  <2> QED
    BY <1>1, <2>1, <2>2
<1> QED
  BY <1>1, <1>3, <1>4, <1>6, <1>7 DEF Schedule!Start, Held, j

LEMMA ScheduleFinish ==
    ASSUME BooksInv, ReleaseNodes
    PROVE  Schedule!Finish
<1>1. /\ resv' = [n \in Nodes |-> resv[n] \ Due(n)]
      /\ UNCHANGED <<clock, duration, resvEnd, log, queue>>
      /\ pc = "release" /\ pc' = "arrive"
  BY DEF ReleaseNodes, ReleaseAll, inputs, outputs
<1>2. Queued' = Queued /\ Placed' = Placed
  BY <1>1 DEF Queued, LivePositions, Placed
<1>3. /\ \A n \in Nodes : \A j \in resv[n] : resvEnd[j] \in Nat
      /\ clock \in Nat
  BY DEF BooksInv, TypeInv, TypeOK
<1>4. \A n \in Nodes : {j \in resv[n] : resvEnd[j] > clock} = resv[n] \ Due(n)
  BY <1>3 DEF Due
<1>5. /\ \A n \in Nodes : resv[n] \subseteq Placed
      /\ \A m, n \in Nodes : m # n => resv[m] \cap resv[n] = {}
  BY DEF BooksInv, LedgerInv, HeldInv
<1>6. Placed \ Held' = (Placed \ Held) \cup UNION {Due(n) : n \in Nodes}
  <2>1. ASSUME NEW j, j \in Placed, j \notin Held', j \in Held
        PROVE  j \in UNION {Due(n) : n \in Nodes}
    BY <1>1, <2>1 DEF Held
  <2>2. ASSUME NEW n \in Nodes, NEW j \in Due(n)
        PROVE  j \in Placed /\ j \notin Held'
    <3>1. j \in resv[n]
      BY DEF Due
    <3>2. \A m \in Nodes : j \notin resv'[m]
      BY <1>1, <1>5, <3>1
    <3> QED
      BY <1>5, <3>1, <3>2 DEF Held
  <2>3. ASSUME NEW j, j \in Placed, j \notin Held
        PROVE  j \notin Held'
    BY <1>1, <2>3 DEF Held
  <2> QED
    BY <2>1, <2>2, <2>3
<1>7. \A n \in Nodes : {j \in resv[n] : resvEnd[j] <= clock} = Due(n)
  BY DEF Due
<1>8. resv' = [n \in Nodes |-> {j \in resv[n] : resvEnd[j] > clock}]
  BY <1>1, <1>4
<1>9. UNION {{j \in resv[n] : resvEnd[j] <= clock} : n \in Nodes} = UNION {Due(n) : n \in Nodes}
  BY <1>7
<1>10. Placed' \ Held' = (Placed \ Held) \cup
                         UNION {{j \in resv[n] : resvEnd[j] <= clock} : n \in Nodes}
  BY <1>2, <1>6, <1>9
<1> QED
  BY <1>1, <1>2, <1>8, <1>10 DEF Schedule!Finish, Held

LEMMA ScheduleSubmit ==
    ASSUME BooksInv, EnqueueArrivals
    PROVE  Schedule!Submit
<1>1. /\ NewArrivals \subseteq Future /\ Queued' = Queued \cup NewArrivals
  BY ArrivalsMove DEF BooksInv
<1>2. pc = "arrive" /\ UNCHANGED <<clock, duration, resv, resvEnd, log>>
  BY DEF EnqueueArrivals, inputs, ledger, outputs
<1>3. /\ Future \subseteq Jobs /\ Future \cap Queued = {} /\ Future \cap Placed = {}
  BY <1>2 DEF BooksInv, OnceInv, ExactlyOnce, TypeInv, TypeOK
<1>4. (Placed \ Held) \cup Held = Placed
  BY DEF BooksInv, LedgerInv, HeldInv, Held
<1>5. Placed' = Placed
  BY <1>2 DEF Placed
<1>6. NewArrivals \in SUBSET (Jobs \ (Queued \cup ((Placed \ Held) \cup Held)))
  BY <1>1, <1>3, <1>4
<1> QED
  BY <1>1, <1>2, <1>5, <1>6 DEF Schedule!Submit, Schedule!Started, Held

LEMMA ScheduleStep == BooksInv /\ BooksInv' /\ [Next]_vars => [Schedule!Next]_(Schedule!vars)
<1> SUFFICES ASSUME BooksInv, BooksInv', [Next]_vars
             PROVE  [Schedule!Next]_(Schedule!vars)
  OBVIOUS
<1> USE DEF inputs, ledger, outputs
<1>1. ASSUME NEW n \in Nodes, Scanning, CanAccept(n, queue[cursor]), Place(n)
      PROVE  Schedule!Next
  <2>1. Schedule!Start(queue[cursor], n)
    BY <1>1, ScheduleStart
  <2>2. queue[cursor] \in Jobs
    BY <1>1, ScannedNotHeld DEF BooksInv, LedgerInv
  <2> QED
    BY <2>1, <2>2 DEF Schedule!Next
<1>2. ASSUME ReleaseNodes PROVE Schedule!Next
  BY <1>2, ScheduleFinish DEF Schedule!Next
<1>3. ASSUME EnqueueArrivals PROVE Schedule!Next
  BY <1>3, ScheduleSubmit DEF Schedule!Next
<1>4. ASSUME UNCHANGED <<duration, clock, resv, resvEnd, log>>, Queued' = Queued
      PROVE  UNCHANGED Schedule!vars
  <2>1. Placed' = Placed
    BY <1>4 DEF Placed
  <2> QED
    BY <1>4, <2>1 DEF Schedule!vars
<1>5. ASSUME AdvanceIfIdle \/ AdvanceClock PROVE [Schedule!Next]_(Schedule!vars)
  <2>1. /\ UNCHANGED <<duration, resv, resvEnd, log, queue>>
        /\ pc # "scan" /\ pc' # "scan"
    BY <1>5 DEF AdvanceIfIdle, AdvanceClock
  <2>2. Queued' = Queued /\ Placed' = Placed
    BY <2>1 DEF Queued, LivePositions, Placed
  <2>3. clock' \in Nat /\ clock \in Nat
    BY DEF BooksInv, TypeInv, TypeOK
  <2>4. clock' >= clock
    <3>1. CASE AdvanceIfIdle
      <4>1. clock' = clock \/ (clock < submit[pending[arrived + 1]] /\ clock' = submit[pending[arrived + 1]])
        BY <3>1 DEF AdvanceIfIdle
      <4> QED
        BY <2>3, <4>1
    <3>2. CASE AdvanceClock
      <4>1. \A t \in LaterEnds : t > clock
        BY DEF LaterEnds
      <4>2. clock' = clock + 1 \/ clock' \in LaterEnds
        BY <3>2 DEF AdvanceClock
      <4> QED
        BY <2>3, <4>1, <4>2
    <3> QED
      BY <1>5, <3>1, <3>2
  <2>5. CASE clock' = clock
    BY <1>4, <2>1, <2>2, <2>5
  <2>6. CASE clock' > clock
    BY <2>1, <2>2, <2>3, <2>6 DEF Schedule!Next, Schedule!Elapse
  <2> QED
    BY <2>3, <2>4, <2>5, <2>6
<1>6. ASSUME Keep \/ EndScan PROVE UNCHANGED Schedule!vars
  <2>1. UNCHANGED <<duration, clock, resv, resvEnd, log>>
    BY <1>6 DEF Keep, EndScan
  <2>2. Queued' = Queued
    BY <1>6, KeepMoves, EndScanMoves DEF BooksInv
  <2> QED
    BY <1>4, <2>1, <2>2
<1>7. ASSUME \/ \E j \in Jobs : AddWorkload(j)
             \/ \E n \in BatchSizes : SetScheduleBatchSize(n)
             \/ StartRun \/ EndRun \/ Done \/ UNCHANGED vars
      PROVE  UNCHANGED Schedule!vars
  <2>1. /\ UNCHANGED <<duration, clock, resv, resvEnd, log, queue, cursor, kept>>
        /\ pc' = pc \/ (pc # "scan" /\ pc' # "scan")
    BY <1>7 DEF AddWorkload, SetScheduleBatchSize, StartRun, EndRun, Done, vars
  <2>2. Queued' = Queued
    BY <2>1 DEF Queued, LivePositions
  <2> QED
    BY <1>4, <2>1, <2>2
<1>8. ASSUME NEW n \in Nodes, PlaceByPolicy(n) \/ PlaceByFallback(n)
      PROVE  Scanning /\ CanAccept(n, queue[cursor]) /\ Place(n)
  BY <1>8 DEF PlaceByPolicy, PlaceByFallback, LeastLoaded, Accepting
<1> QED
  BY <1>1, <1>2, <1>3, <1>5, <1>6, <1>7, <1>8 DEF Next, Step

(* ImplementsSchedule: every run of the loop is a run of JobSchedule.      *)
THEOREM LoopImplementsSchedule == Spec => ImplementsSchedule
<1>1. BooksInv /\ [Next]_vars => BooksInv'
  BY BooksStep
<1> QED
  BY BooksInit, <1>1, ScheduleInit, ScheduleStep, PTL
  DEF Spec, ImplementsSchedule, Schedule!Spec

-----------------------------------------------------------------------------
(* The traces                                                              *)

(* A list of samples in the order of time.                                 *)
Sample == [at : Int, ci : Nat, ok : BOOLEAN]

IsSeries(s) ==
    /\ s \in Seq(Sample)
    /\ \A i, j \in 1..Len(s) : i < j => s[i].at < s[j].at

LEMMA SeriesTypes ==
    ASSUME NEW s, IsSeries(s)
    PROVE  /\ Len(s) \in Nat
           /\ \A i \in 1..Len(s) : s[i].at \in Int /\ s[i].ci \in Nat
           /\ \A i, j \in 1..Len(s) : i < j => s[i].at < s[j].at
<1>1. \A i \in 1..Len(s) : s[i] \in Sample
  BY DEF IsSeries
<1>2. \A x \in Sample : x.at \in Int /\ x.ci \in Nat
  BY DEF Sample
<1> QED
  BY <1>1, <1>2 DEF IsSeries

(* i separates the samples lo+1..hi that are before the target from those  *)
(* that are not.                                                           *)
Splits(s, target, lo, hi, i) ==
    /\ i \in lo..hi
    /\ \A j \in lo + 1 .. i : s[j].at < target
    /\ \A j \in i + 1 .. hi : s[j].at >= target

LEMMA SplitExists ==
    ASSUME NEW s, IsSeries(s), NEW target \in Int, NEW lo \in 0..Len(s), NEW hi \in lo..Len(s)
    PROVE  \E i \in lo..hi : Splits(s, target, lo, hi, i)
<1>1. Len(s) \in Nat /\ lo \in Nat /\ hi \in Nat /\ lo <= hi /\ hi <= Len(s)
      /\ \A i \in 1..Len(s) : s[i].at \in Int
  BY SeriesTypes
<1>2. PICK T : T = {i \in lo..hi : i = hi \/ s[i + 1].at >= target}
  OBVIOUS
<1>3. T \in SUBSET Nat /\ hi \in T
  BY <1>1, <1>2
<1>4. PICK i \in T : \A y \in T : i <= y
  BY <1>3, LeastNat
<1>5. i \in lo..hi /\ i \in Nat
  BY <1>2, <1>3
<1>6. ASSUME NEW j \in lo + 1 .. i PROVE s[j].at < target
  <2>1. j - 1 \in lo..hi /\ j - 1 \notin T /\ j \in 1..Len(s) /\ (j - 1) + 1 = j
    BY <1>1, <1>4, <1>5
  <2>2. ~(s[(j - 1) + 1].at >= target)
    BY <1>2, <2>1
  <2> QED
    BY <1>1, <2>1, <2>2
<1>7. ASSUME NEW j \in i + 1 .. hi PROVE s[j].at >= target
  <2>1. i # hi /\ i + 1 \in 1..Len(s) /\ j \in 1..Len(s)
    BY <1>1, <1>5
  <2>2. s[i + 1].at >= target
    BY <1>2, <1>4, <2>1
  <2>3. i + 1 = j \/ s[i + 1].at < s[j].at
    BY <1>5, <2>1 DEF IsSeries
  <2> QED
    BY <1>1, <2>1, <2>2, <2>3
<1> QED
  BY <1>5, <1>6, <1>7 DEF Splits

LEMMA SplitIsUnique ==
    ASSUME NEW s, IsSeries(s), NEW target \in Int, NEW lo \in 0..Len(s), NEW hi \in lo..Len(s),
           NEW i, Splits(s, target, lo, hi, i), NEW k, Splits(s, target, lo, hi, k)
    PROVE  i = k
<1>1. \A j \in 1..Len(s) : s[j].at \in Int
  BY SeriesTypes
<1>2. Len(s) \in Nat /\ i \in lo..hi /\ k \in lo..hi
  BY DEF Splits, IsSeries
<1>3. ~(i < k)
  <2> SUFFICES ASSUME i < k PROVE FALSE
    OBVIOUS
  <2>1. k \in lo + 1 .. k /\ k \in i + 1 .. hi /\ k \in 1..Len(s)
    BY <1>2
  <2>2. PICK at \in Int : at = s[k].at
    BY <1>1, <2>1
  <2>3. at < target /\ at >= target
    BY <2>1, <2>2 DEF Splits
  <2> QED
    BY <2>3
<1>4. ~(k < i)
  <2> SUFFICES ASSUME k < i PROVE FALSE
    OBVIOUS
  <2>1. i \in lo + 1 .. i /\ i \in k + 1 .. hi /\ i \in 1..Len(s)
    BY <1>2
  <2>2. PICK at \in Int : at = s[i].at
    BY <1>1, <2>1
  <2>3. at < target /\ at >= target
    BY <2>1, <2>2 DEF Splits
  <2> QED
    BY <2>3
<1> QED
  BY <1>2, <1>3, <1>4

(* Halving the range keeps the split.                                      *)
LEMMA SplitOfHalf ==
    ASSUME NEW s, IsSeries(s), NEW target \in Int,
           NEW lo \in 0..Len(s), NEW hi \in 0..Len(s), NEW mid \in lo .. hi - 1
    PROVE  /\ s[mid + 1].at < target => \A i :
                 Splits(s, target, mid + 1, hi, i) => Splits(s, target, lo, hi, i)
           /\ ~(s[mid + 1].at < target) => \A i :
                 Splits(s, target, lo, mid, i) => Splits(s, target, lo, hi, i)
<1>1. Len(s) \in Nat /\ \A j \in 1..Len(s) : s[j].at \in Int
  BY SeriesTypes
<1>2. mid \in Nat /\ lo \in Nat /\ hi \in Nat /\ mid + 1 \in 1..Len(s) /\ mid \in 0..Len(s)
  BY <1>1
<1>3. ASSUME s[mid + 1].at < target, NEW i, Splits(s, target, mid + 1, hi, i)
      PROVE  Splits(s, target, lo, hi, i)
  <2>1. i \in mid + 1 .. hi
    BY <1>3 DEF Splits
  <2>2. ASSUME NEW j \in lo + 1 .. i PROVE s[j].at < target
    <3>1. CASE j > mid + 1
      BY <1>2, <1>3, <2>1, <3>1 DEF Splits
    <3>2. CASE j <= mid + 1
      <4>1. j \in 1..Len(s) /\ (j = mid + 1 \/ j < mid + 1)
        BY <1>1, <1>2, <2>1, <3>2
      <4>2. s[j].at = s[mid + 1].at \/ s[j].at < s[mid + 1].at
        BY <1>2, <4>1, SeriesTypes
      <4>3. s[j].at \in Int /\ s[mid + 1].at \in Int
        BY <1>1, <1>2, <4>1
      <4> QED
        BY <1>3, <4>2, <4>3
    <3> QED
      BY <1>2, <2>1, <3>1, <3>2
  <2> QED
    BY <1>2, <1>3, <2>1, <2>2 DEF Splits
<1>4. ASSUME ~(s[mid + 1].at < target), NEW i, Splits(s, target, lo, mid, i)
      PROVE  Splits(s, target, lo, hi, i)
  <2>1. i \in lo..mid
    BY <1>4 DEF Splits
  <2>2. ASSUME NEW j \in i + 1 .. hi PROVE s[j].at >= target
    <3>1. CASE j <= mid
      BY <1>2, <1>4, <2>1, <3>1 DEF Splits
    <3>2. CASE j > mid
      <4>1. j \in 1..Len(s) /\ (j = mid + 1 \/ mid + 1 < j)
        BY <1>1, <1>2, <2>1, <3>2
      <4>2. s[j].at = s[mid + 1].at \/ s[mid + 1].at < s[j].at
        BY <1>2, <4>1, SeriesTypes
      <4>3. s[j].at \in Int /\ s[mid + 1].at \in Int
        BY <1>1, <1>2, <4>1
      <4>4. PICK a \in Int, b \in Int : a = s[mid + 1].at /\ b = s[j].at
        BY <4>3
      <4>5. ~(a < target) /\ (b = a \/ a < b)
        BY <1>4, <4>2, <4>4
      <4>6. b >= target
        BY <4>5
      <4> QED
        BY <4>4, <4>6, Zenon
    <3> QED
      BY <1>2, <2>1, <3>1, <3>2
  <2> QED
    BY <1>2, <1>4, <2>1, <2>2 DEF Splits
<1> QED
  BY <1>2, <1>3, <1>4

(* F is what the search of s for target makes of its ranges.               *)
Halves(s, target, F) ==
    F = [w \in (0..Len(s)) \X (0..Len(s)) |->
            IF w[1] >= w[2] THEN w[1]
            ELSE IF s[w[1] + (w[2] - w[1]) \div 2 + 1].at < target
                 THEN F[<<w[1] + (w[2] - w[1]) \div 2 + 1, w[2]>>]
                 ELSE F[<<w[1], w[1] + (w[2] - w[1]) \div 2>>]]

LEMMA SearchIsChosen ==
    ASSUME NEW s, NEW target
    PROVE  SortSearch(s, target) = (CHOOSE F : Halves(s, target, F))[<<0, Len(s)>>]
BY DEF SortSearch, Halves

LEMMA HalvingExists ==
    ASSUME NEW s, IsSeries(s), NEW target \in Int
    PROVE  \E F : Halves(s, target, F)
<1>1. PICK n \in Nat : n = Len(s)
  BY SeriesTypes
<1>2. PICK F : F = [w \in (0..Len(s)) \X (0..Len(s)) |->
                       IF w[1] >= w[2] THEN w[1] ELSE CHOOSE i \in w[1]..w[2] : Splits(s, target, w[1], w[2], i)]
  OBVIOUS
<1>3. ASSUME NEW lo \in 0..n, NEW hi \in 0..n, lo <= hi
      PROVE  Splits(s, target, lo, hi, F[<<lo, hi>>])
  <2>1. <<lo, hi>> \in (0..Len(s)) \X (0..Len(s)) /\ <<lo, hi>>[1] = lo /\ <<lo, hi>>[2] = hi
    BY <1>1
  <2>2. F[<<lo, hi>>] = IF lo >= hi THEN lo ELSE CHOOSE i \in lo..hi : Splits(s, target, lo, hi, i)
    <3>1. PICK w : w = <<lo, hi>>
      OBVIOUS
    <3>2. F[w] = IF w[1] >= w[2] THEN w[1] ELSE CHOOSE i \in w[1]..w[2] : Splits(s, target, w[1], w[2], i)
      BY <1>2, <2>1, <3>1
    <3> QED
      BY <2>1, <3>1, <3>2, Zenon
  <2>3. CASE lo = hi
    BY <1>1, <2>2, <2>3 DEF Splits
  <2>4. CASE lo < hi
    <3>1. \E i \in lo..hi : Splits(s, target, lo, hi, i)
      BY <1>1, <1>3, SplitExists
    <3>2. F[<<lo, hi>>] = CHOOSE i \in lo..hi : Splits(s, target, lo, hi, i)
      BY <1>1, <2>2, <2>4
    <3> QED
      BY <3>1, <3>2
  <2> QED
    BY <1>1, <1>3, <2>3, <2>4
<1>4. ASSUME NEW w \in (0..Len(s)) \X (0..Len(s))
      PROVE  F[w] = IF w[1] >= w[2] THEN w[1]
                    ELSE IF s[w[1] + (w[2] - w[1]) \div 2 + 1].at < target
                         THEN F[<<w[1] + (w[2] - w[1]) \div 2 + 1, w[2]>>]
                         ELSE F[<<w[1], w[1] + (w[2] - w[1]) \div 2>>]
  <2>1. PICK lo \in 0..n, hi \in 0..n : w = <<lo, hi>> /\ w[1] = lo /\ w[2] = hi
    BY <1>1
  <2>2. CASE lo >= hi
    BY <1>2, <2>1, <2>2
  <2>3. CASE lo < hi
    <3>1. PICK mid \in lo .. hi - 1 : mid = lo + (hi - lo) \div 2
      BY <1>1, <2>3
    <3>2. mid + 1 \in 0..n /\ mid \in 0..n /\ mid + 1 <= hi /\ lo <= mid /\ ~(lo >= hi) /\ lo <= hi
      BY <1>1, <2>3
    <3>3. Splits(s, target, lo, hi, F[<<lo, hi>>])
      BY <1>3, <3>2
    <3>4. CASE s[mid + 1].at < target
      <4>1. Splits(s, target, mid + 1, hi, F[<<mid + 1, hi>>])
        BY <1>3, <3>2
      <4>2. Splits(s, target, lo, hi, F[<<mid + 1, hi>>])
        BY <1>1, <3>4, <4>1, SplitOfHalf
      <4>3. F[<<lo, hi>>] = F[<<mid + 1, hi>>]
        BY <1>1, <3>2, <3>3, <4>2, SplitIsUnique
      <4> QED
        BY <2>1, <3>1, <3>2, <3>4, <4>3
    <3>5. CASE ~(s[mid + 1].at < target)
      <4>1. Splits(s, target, lo, mid, F[<<lo, mid>>])
        BY <1>3, <3>2
      <4>2. Splits(s, target, lo, hi, F[<<lo, mid>>])
        BY <1>1, <3>5, <4>1, SplitOfHalf
      <4>3. F[<<lo, hi>>] = F[<<lo, mid>>]
        BY <1>1, <3>2, <3>3, <4>2, SplitIsUnique
      <4> QED
        BY <2>1, <3>1, <3>2, <3>5, <4>3
    <3> QED
      BY <3>4, <3>5
  <2> QED
    BY <1>1, <2>2, <2>3
<1>5. F = [w \in (0..Len(s)) \X (0..Len(s)) |->
              IF w[1] >= w[2] THEN w[1]
              ELSE IF s[w[1] + (w[2] - w[1]) \div 2 + 1].at < target
                   THEN F[<<w[1] + (w[2] - w[1]) \div 2 + 1, w[2]>>]
                   ELSE F[<<w[1], w[1] + (w[2] - w[1]) \div 2>>]]
  BY <1>2, <1>4, Zenon
<1> QED
  BY <1>5, Zenon DEF Halves

(* What the search computes for every range, by induction on its length.   *)
LEMMA HalvingSplits ==
    ASSUME NEW s, IsSeries(s), NEW target \in Int, NEW F, Halves(s, target, F),
           NEW lo \in 0..Len(s), NEW hi \in lo..Len(s)
    PROVE  Splits(s, target, lo, hi, F[<<lo, hi>>])
<1>1. PICK n \in Nat : n = Len(s)
  BY SeriesTypes
<1>2. PICK A : A = {m \in Nat : \A l, h \in 0..n : l <= h /\ h - l <= m => Splits(s, target, l, h, F[<<l, h>>])}
  OBVIOUS
<1>3. ASSUME NEW l \in 0..n, NEW h \in 0..n
      PROVE  F[<<l, h>>] = IF l >= h THEN l
                           ELSE IF s[l + (h - l) \div 2 + 1].at < target
                                THEN F[<<l + (h - l) \div 2 + 1, h>>]
                                ELSE F[<<l, l + (h - l) \div 2>>]
  <2>1. PICK w : w = <<l, h>>
    OBVIOUS
  <2>2. w \in (0..Len(s)) \X (0..Len(s)) /\ w[1] = l /\ w[2] = h
    BY <1>1, <2>1
  <2>3. F[w] = IF w[1] >= w[2] THEN w[1]
               ELSE IF s[w[1] + (w[2] - w[1]) \div 2 + 1].at < target
                    THEN F[<<w[1] + (w[2] - w[1]) \div 2 + 1, w[2]>>]
                    ELSE F[<<w[1], w[1] + (w[2] - w[1]) \div 2>>]
    BY <2>2, Zenon DEF Halves
  <2> QED
    BY <2>1, <2>2, <2>3, Zenon
<1>4. 0 \in A
  <2>1. ASSUME NEW l \in 0..n, NEW h \in 0..n, l <= h, h - l <= 0
        PROVE  Splits(s, target, l, h, F[<<l, h>>])
    <3>1. l = h /\ l >= h
      BY <1>1, <2>1
    <3>2. F[<<l, h>>] = l
      BY <1>3, <3>1
    <3> QED
      BY <1>1, <3>1, <3>2 DEF Splits
  <2> QED
    BY <1>2, <2>1
<1>5. ASSUME NEW m \in Nat, m \in A PROVE m + 1 \in A
  <2>1. ASSUME NEW l \in 0..n, NEW h \in 0..n, l <= h, h - l <= m + 1
        PROVE  Splits(s, target, l, h, F[<<l, h>>])
    <3>1. CASE l = h
      <4>1. 0 \in A /\ h - l <= 0
        BY <1>1, <1>4, <3>1
      <4> QED
        BY <1>2, <2>1, <4>1
    <3>2. CASE l < h
      <4>1. PICK mid \in l .. h - 1 : mid = l + (h - l) \div 2
        BY <1>1, <3>2
      <4>2. /\ mid + 1 \in 0..n /\ mid \in 0..n /\ mid + 1 <= h /\ l <= mid /\ ~(l >= h)
            /\ h - (mid + 1) <= m /\ mid - l <= m
        BY <1>1, <2>1, <3>2
      <4>3. F[<<l, h>>] = IF s[mid + 1].at < target THEN F[<<mid + 1, h>>] ELSE F[<<l, mid>>]
        BY <1>3, <4>1, <4>2
      <4>4. CASE s[mid + 1].at < target
        <5>1. Splits(s, target, mid + 1, h, F[<<mid + 1, h>>])
          BY <1>2, <1>5, <4>2
        <5> QED
          BY <1>1, <4>3, <4>4, <5>1, SplitOfHalf
      <4>5. CASE ~(s[mid + 1].at < target)
        <5>1. Splits(s, target, l, mid, F[<<l, mid>>])
          BY <1>2, <1>5, <4>2
        <5> QED
          BY <1>1, <4>3, <4>5, <5>1, SplitOfHalf
      <4> QED
        BY <4>4, <4>5
    <3> QED
      BY <1>1, <2>1, <3>1, <3>2
  <2> QED
    BY <1>2, <2>1
<1>6. n \in A
  BY <1>4, <1>5, NatInduct
<1> QED
  BY <1>1, <1>2, <1>6

LEMMA SearchSplits ==
    ASSUME NEW s, IsSeries(s), NEW target \in Int
    PROVE  Splits(s, target, 0, Len(s), SortSearch(s, target))
<1>1. PICK F : F = CHOOSE G : Halves(s, target, G)
  OBVIOUS
<1>2. Halves(s, target, F)
  BY <1>1, HalvingExists, Zenon
<1>3. 0 \in 0..Len(s) /\ Len(s) \in 0..Len(s)
  BY SeriesTypes
<1>4. SortSearch(s, target) = F[<<0, Len(s)>>]
  BY <1>1, SearchIsChosen, Zenon
<1> QED
  BY <1>2, <1>3, <1>4, HalvingSplits

(* The rows that parse, in their order.                                    *)
LEMMA ParsedFacts ==
    ASSUME NEW k \in DOMAIN File
    PROVE  /\ IsSeries(Parse(File[k]))
           /\ \A j \in 1..Len(Parse(File[k])) :
                 \E i \in DOMAIN File[k] : File[k][i].ok /\ Parse(File[k])[j] = File[k][i]
           /\ \A i \in DOMAIN File[k] : File[k][i].ok =>
                 \E j \in 1..Len(Parse(File[k])) : Parse(File[k])[j] = File[k][i]
           /\ Parse(File[k]) # <<>> <=> \E i \in DOMAIN File[k] : File[k][i].ok
<1>1. PICK rows : rows = File[k]
  OBVIOUS
<1>2. rows \in Seq(Sample) /\ \A i, j \in DOMAIN rows : i < j => rows[i].at < rows[j].at
  BY <1>1, FileAssumption, SortedAssumption DEF Sample
<1>3. PICK n \in Nat : DOMAIN rows = 1..n
  BY <1>2
<1>4. PICK P : P = {i \in DOMAIN rows : rows[i].ok}
  OBVIOUS
<1>5. P \in SUBSET (1..n)
  BY <1>3, <1>4
<1>6. PICK y : y = AtPositions(rows, P)
  OBVIOUS
<1>7. PICK m : m = Cardinality(P)
  OBVIOUS
<1>8. /\ DOMAIN y = 1..m /\ m \in Nat /\ y = [j \in 1..m |-> y[j]]
      /\ \A i \in P : Rank(P, i) \in 1..m /\ y[Rank(P, i)] = rows[i]
  BY <1>5, <1>6, <1>7, FilteredFacts
<1>9. /\ \A i, l \in P : i < l <=> Rank(P, i) < Rank(P, l)
      /\ \A r \in 1..m : \E i \in P : Rank(P, i) = r
  BY <1>5, <1>7, RankFacts
<1>10. \A i \in P : rows[i] \in Sample /\ i \in DOMAIN rows /\ rows[i].ok
  BY <1>2, <1>4
<1>11. \A j \in 1..m : y[j] \in Sample
  BY <1>8, <1>9, <1>10
<1>12. y \in Seq(Sample) /\ Len(y) = m
  <2>1. y \in [1..m -> Sample]
    BY <1>8, <1>11
  <2> QED
    BY <1>8, <2>1
<1>13. ASSUME NEW j \in 1..m, NEW l \in 1..m, j < l PROVE y[j].at < y[l].at
  <2>1. PICK i \in P : Rank(P, i) = j
    BY <1>9
  <2>2. PICK h \in P : Rank(P, h) = l
    BY <1>9
  <2>3. i < h /\ y[j] = rows[i] /\ y[l] = rows[h]
    BY <1>8, <1>9, <1>13, <2>1, <2>2
  <2> QED
    BY <1>2, <1>10, <2>3
<1>14. IsSeries(y)
  BY <1>12, <1>13 DEF IsSeries
<1>15. /\ \A j \in 1..m : \E i \in DOMAIN rows : rows[i].ok /\ y[j] = rows[i]
       /\ \A i \in DOMAIN rows : rows[i].ok => \E j \in 1..m : y[j] = rows[i]
  BY <1>4, <1>8, <1>9, <1>10
<1>16. y # <<>> <=> \E i \in DOMAIN rows : rows[i].ok
  <2>1. y = <<>> <=> m = 0
    BY <1>12
  <2>2. m = 0 \/ 1 \in 1..m
    BY <1>8
  <2> QED
    BY <1>15, <2>1, <2>2
<1>17. Parse(File[k]) = y
  BY <1>1, <1>4, <1>6 DEF Parse
<1> QED
  BY <1>1, <1>12, <1>14, <1>15, <1>16, <1>17

LEMMA HourType == \A t \in Int : Hour(t) \in Int
BY SortedAssumption DEF Hour

(* The sample that a search gives is the one called for.                   *)
LEMMA PickedSample ==
    ASSUME NEW y, IsSeries(y), Len(y) > 0, NEW h \in Int, NEW good, good = {y[j] : j \in 1..Len(y)}
    PROVE  LET past == {x \in good : x.at <= h}
               at == IF past = {} THEN Min({x.at : x \in good}) ELSE Max({x.at : x \in past})
           IN  PickSample(y, SortSearch(y, h), h) = CHOOSE x \in good : x.at = at
<1>1. PICK m \in Nat : m = Len(y) /\ m > 0
  BY SeriesTypes
<1>2. PICK i \in 0..m : i = SortSearch(y, h) /\ Splits(y, h, 0, m, i)
  BY <1>1, SearchSplits DEF Splits
<1>3. /\ \A j \in 1..m : y[j].at \in Int
      /\ \A j, l \in 1..m : j < l => y[j].at < y[l].at
      /\ \A j \in 1..m : j <= i => y[j].at < h
      /\ \A j \in 1..m : j > i => y[j].at >= h
  <2>1. /\ \A j \in 1..m : y[j].at \in Int
        /\ \A j, l \in 1..m : j < l => y[j].at < y[l].at
    BY <1>1, SeriesTypes
  <2>2. /\ \A j \in 0 + 1 .. i : y[j].at < h
        /\ \A j \in i + 1 .. m : y[j].at >= h
    BY <1>2 DEF Splits
  <2>3. \A j \in 1..m : j <= i => j \in 0 + 1 .. i
    OBVIOUS
  <2>4. \A j \in 1..m : j > i => j \in i + 1 .. m
    OBVIOUS
  <2> QED
    BY <2>1, <2>2, <2>3, <2>4
<1>4. PICK past : past = {x \in good : x.at <= h}
  OBVIOUS
<1>5. ASSUME NEW j \in 1..m PROVE (CHOOSE x \in good : x.at = y[j].at) = y[j]
  <2>1. y[j] \in good
    BY <1>1
  <2>2. \A x \in good : x.at = y[j].at => x = y[j]
    <3> SUFFICES ASSUME NEW l \in 1..m, y[l].at = y[j].at PROVE l = j
      BY <1>1
    <3>1. PICK a, b \in Int : a = y[l].at /\ b = y[j].at
      BY <1>3
    <3>2. (l < j => a < b) /\ (j < l => b < a)
      BY <1>3, <3>1
    <3> QED
      BY <3>1, <3>2
  <2> QED
    BY <2>1, <2>2
<1>6. IsFiniteSet(1..m)
  BY FS_Interval
<1>7. PICK ats : ats = [j \in 1..m |-> y[j].at]
  OBVIOUS
<1>8. ASSUME NEW T \in SUBSET good
      PROVE  IsFiniteSet({x.at : x \in T}) /\ {x.at : x \in T} \in SUBSET Int
  <2>1. IsFiniteSet({ats[j] : j \in 1..m})
    BY <1>6, FiniteRange
  <2>2. {x.at : x \in T} \subseteq {ats[j] : j \in 1..m}
    BY <1>1, <1>7
  <2>3. {x.at : x \in T} \in SUBSET Int
    BY <1>1, <1>3
  <2> QED
    BY <2>1, <2>2, <2>3, FS_Subset
<1>9. CASE i < m /\ y[i + 1].at = h
  <2>1. i + 1 \in 1..m /\ y[i + 1] \in past
    BY <1>1, <1>3, <1>4, <1>9
  <2>2. past # {} /\ past \in SUBSET good
    BY <1>4, <2>1
  <2>3. PICK V : V = {x.at : x \in past}
    OBVIOUS
  <2>4. Max(V) \in V /\ \A v \in V : Max(V) >= v
    <3>1. V # {} /\ IsFiniteSet(V) /\ V \in SUBSET Int
      BY <1>8, <2>2, <2>3
    <3> QED
      BY <3>1, MaxFacts
  <2>5. Max(V) = h
    <3>1. h \in V
      BY <1>9, <2>1, <2>3
    <3>2. \A v \in V : v \in Int /\ v <= h
      BY <1>4, <1>8, <2>2, <2>3
    <3>3. PICK u : u = Max(V)
      OBVIOUS
    <3>4. u \in V /\ u >= h
      BY <2>4, <3>1, <3>3
    <3>5. u \in Int /\ u <= h
      BY <3>2, <3>4
    <3> QED
      BY <3>3, <3>4, <3>5
  <2>6. (CHOOSE x \in good : x.at = h) = y[i + 1]
    BY <1>5, <1>9, <2>1
  <2>7. PickSample(y, i, h) = y[i + 1]
    BY <1>1, <1>9 DEF PickSample
  <2> QED
    BY <1>2, <1>4, <2>2, <2>3, <2>5, <2>6, <2>7, Zenon
<1>10. CASE ~(i < m /\ y[i + 1].at = h) /\ i > 0
  <2>1. i \in 1..m /\ y[i] \in past
    BY <1>1, <1>3, <1>4, <1>10
  <2>2. past # {} /\ past \in SUBSET good
    BY <1>4, <2>1
  <2>3. PICK V : V = {x.at : x \in past}
    OBVIOUS
  <2>4. Max(V) \in V /\ \A v \in V : Max(V) >= v
    <3>1. V # {} /\ IsFiniteSet(V) /\ V \in SUBSET Int
      BY <1>8, <2>2, <2>3
    <3> QED
      BY <3>1, MaxFacts
  <2>5. ASSUME NEW j \in 1..m, y[j] \in past PROVE j <= i
    <3> SUFFICES ASSUME j > i PROVE FALSE
      BY <1>2
    <3>1. y[j].at = h /\ i < m /\ i + 1 \in 1..m
      BY <1>1, <1>3, <1>4, <2>5
    <3>2. y[i + 1].at >= h /\ y[i + 1].at # h /\ y[i + 1].at \in Int
      BY <1>3, <1>10, <3>1
    <3>3. j = i + 1 \/ y[i + 1].at < y[j].at
      BY <1>3, <3>1
    <3> QED
      BY <3>1, <3>2, <3>3
  <2>6. Max(V) = y[i].at
    <3>1. y[i].at \in V
      BY <2>1, <2>3
    <3>2. ASSUME NEW v \in V PROVE v \in Int /\ v <= y[i].at
      <4>1. PICK x \in past : v = x.at
        BY <2>3
      <4>2. PICK j \in 1..m : x = y[j]
        BY <1>1, <1>4
      <4>3. j = i \/ y[j].at < y[i].at
        BY <1>3, <2>1, <2>5, <4>2
      <4> QED
        BY <1>3, <2>1, <4>1, <4>2, <4>3
    <3> QED
      BY <1>3, <2>1, <2>4, <3>1, <3>2
  <2>7. (CHOOSE x \in good : x.at = y[i].at) = y[i]
    BY <1>5, <2>1
  <2>8. PickSample(y, i, h) = y[i]
    BY <1>1, <1>10 DEF PickSample
  <2> QED
    BY <1>2, <1>4, <2>2, <2>3, <2>6, <2>7, <2>8, Zenon
<1>11. CASE ~(i < m /\ y[i + 1].at = h) /\ ~(i > 0)
  <2>1. i = 0 /\ 1 \in 1..m /\ y[1].at # h
    BY <1>1, <1>11
  <2>2. \A j \in 1..m : y[j].at > h /\ y[1].at <= y[j].at
    <3> SUFFICES ASSUME NEW j \in 1..m PROVE y[j].at > h /\ y[1].at <= y[j].at
      OBVIOUS
    <3>1. y[1].at >= h /\ (j = 1 \/ y[1].at < y[j].at) /\ y[1].at \in Int /\ y[j].at \in Int
      BY <1>3, <2>1
    <3> QED
      BY <2>1, <3>1
  <2>3. past = {}
    BY <1>1, <1>3, <1>4, <2>2
  <2>4. PICK V : V = {x.at : x \in good}
    OBVIOUS
  <2>5. Min(V) \in V /\ \A v \in V : Min(V) <= v
    <3>1. y[1].at \in V
      BY <1>1, <2>1, <2>4
    <3> QED
      BY <1>8, <2>4, <3>1, MinFacts
  <2>6. Min(V) = y[1].at
    <3>1. y[1].at \in V
      BY <1>1, <2>1, <2>4
    <3>2. \A v \in V : v \in Int /\ y[1].at <= v
      BY <1>1, <1>3, <2>2, <2>4
    <3> QED
      BY <1>3, <2>1, <2>5, <3>1, <3>2
  <2>7. (CHOOSE x \in good : x.at = y[1].at) = y[1]
    BY <1>5, <2>1
  <2>8. PickSample(y, i, h) = y[1]
    BY <1>1, <1>11 DEF PickSample
  <2> QED
    BY <1>2, <1>4, <2>3, <2>4, <2>6, <2>7, <2>8, Zenon
<1> QED
  BY <1>9, <1>10, <1>11

LEMMA SeriesKept ==
    /\ \A k \in DOMAIN wattnetSeries : k \in DOMAIN File /\ wattnetSeries[k] = Parse(File[k])
    /\ \A k \in DOMAIN File : k \in DOMAIN wattnetSeries <=> Parse(File[k]) # <<>>
BY DEF wattnetSeries

LEMMA LookupIsSample ==
    ASSUME NEW k \in DOMAIN File, NEW t \in Int
    PROVE  Lookup(k, t) = SampleOf(k, t)
<1>1. PICK y : y = Parse(File[k])
  OBVIOUS
<1>2. PICK h \in Int : h = Hour(t)
  BY HourType
<1>3. PICK good : good = {File[k][i] : i \in {j \in DOMAIN File[k] : File[k][j].ok}}
  OBVIOUS
<1>4. IsSeries(y) /\ (y # <<>> <=> good # {})
  BY <1>1, <1>3, ParsedFacts
<1>5. good = {y[j] : j \in 1..Len(y)}
  <2>1. \A x \in good : \E j \in 1..Len(y) : x = y[j]
    BY <1>1, <1>3, ParsedFacts
  <2>2. \A j \in 1..Len(y) : y[j] \in good
    BY <1>1, <1>3, ParsedFacts
  <2> QED
    BY <2>1, <2>2
<1>6. CASE good = {}
  <2>1. Lookup(k, t) = NoCI
    BY <1>1, <1>4, <1>6, SeriesKept DEF Lookup
  <2>2. SampleOf(k, t) = NoCI
    BY <1>3, <1>6 DEF SampleOf
  <2> QED
    BY <2>1, <2>2
<1>7. CASE good # {}
  <2>1. Len(y) > 0
    BY <1>4, <1>5, <1>7, SeriesTypes
  <2>2. Lookup(k, t) = PickSample(y, SortSearch(y, h), h).ci
    BY <1>1, <1>2, <1>4, <1>7, SeriesKept, Zenon DEF Lookup
  <2>3. PICK past, at : /\ past = {x \in good : x.at <= h}
                        /\ at = IF past = {} THEN Min({x.at : x \in good}) ELSE Max({x.at : x \in past})
    OBVIOUS
  <2>4. PickSample(y, SortSearch(y, h), h) = CHOOSE x \in good : x.at = at
    BY <1>4, <1>5, <2>1, <2>3, PickedSample, Zenon
  <2>5. SampleOf(k, t) = (CHOOSE x \in good : x.at = at).ci
    BY <1>2, <1>3, <1>7, <2>3, Zenon DEF SampleOf
  <2> QED
    BY <2>2, <2>4, <2>5
<1> QED
  BY <1>6, <1>7

LEMMA LookupType ==
    ASSUME NEW k, NEW t \in Int
    PROVE  Lookup(k, t) = NoCI \/ Lookup(k, t) \in Nat
<1>1. CASE k \notin DOMAIN wattnetSeries
  BY <1>1 DEF Lookup
<1>2. CASE k \in DOMAIN wattnetSeries
  <2>1. PICK y : y = wattnetSeries[k]
    OBVIOUS
  <2>2. PICK h \in Int : h = Hour(t)
    BY HourType
  <2>3. IsSeries(y) /\ y # <<>>
    BY <1>2, <2>1, SeriesKept, ParsedFacts
  <2>4. Len(y) \in Nat \ {0}
    BY <2>3 DEF IsSeries
  <2>5. PICK i \in 0..Len(y) : i = SortSearch(y, h)
    BY <2>3, SearchSplits DEF Splits
  <2>6. PickSample(y, i, h).ci \in Nat
    <3>1. \E j \in 1..Len(y) : PickSample(y, i, h) = y[j]
      BY <2>4 DEF PickSample
    <3> QED
      BY <2>3, <3>1, SeriesTypes
  <2>7. Lookup(k, t) = PickSample(y, i, h).ci
    BY <1>2, <2>1, <2>2, <2>5, Zenon DEF Lookup
  <2> QED
    BY <2>6, <2>7
<1> QED
  BY <1>1, <1>2

-----------------------------------------------------------------------------
(* Energy and carbon                                                       *)

LEMMA ArgType ==
    ASSUME NEW args, NEW i, NEW def \in Int, \A a \in DOMAIN args : args[a] \in Int \cup {Bad}
    PROVE  Arg(args, i, def) \in Int
BY DEF Arg

LEMMA SineType ==
    ASSUME NEW amp \in Int, NEW t \in Int, NEW period \in Nat \ {0}
    PROVE  Sine(amp, t, period) \in Int
<1>1. PICK r \in 0 .. period - 1 : r = t % period
  OBVIOUS
<1>2. PICK q : q = (4 * r) \div period
  OBVIOUS
<1>3. q \in 0..3
  <2>1. 4 * r >= 0 /\ 4 * r < 4 * period
    OBVIOUS
  <2> QED
    BY <1>2, <2>1
<1>4. Quarter[q] \in Int
  BY <1>3 DEF Quarter
<1>5. Sine(amp, t, period) = amp * Quarter[q]
  BY <1>1, <1>2 DEF Sine
<1>6. \A a, b \in Int : a * b \in Int
  OBVIOUS
<1> QED
  BY <1>4, <1>5, <1>6

(* The intensity of a described node is a number.                          *)
LEMMA RawType ==
    ASSUME NEW n, Described(n), NEW t \in Int
    PROVE  RawCarbonIntensity(n, t) \in Int
<1>1. PICK a, def, kind : a = n.profile.args /\ def = n.ci /\ kind = n.profile.kind
  OBVIOUS
<1>d. def \in Int
  BY <1>1 DEF Described
<1>2. kind = NoProfile => (IF n.hasSite THEN n.site.ci ELSE def) \in Int
  BY <1>d DEF Described
<1>3. ASSUME kind # "wattnet", NEW i, NEW d \in Int PROVE Arg(a, i, d) \in Int
  BY <1>1, <1>3, ArgType DEF Described
<1>4. kind = "static" => Arg(a, 1, def) \in Int
  BY <1>d, <1>3
<1>5. ASSUME kind = "sine"
      PROVE  LET mean == Arg(a, 1, def)
                 period == Arg(a, 3, 0)
             IN  (IF period <= 0 THEN mean ELSE mean + Sine(Arg(a, 2, 0), t, period)) \in Int
  <2>1. PICK mean, period, amp \in Int : mean = Arg(a, 1, def) /\ period = Arg(a, 3, 0) /\ amp = Arg(a, 2, 0)
    BY <1>d, <1>3, <1>5
  <2>2. ~(period <= 0) => Sine(amp, t, period) \in Int
    BY SineType
  <2> QED
    BY <2>1, <2>2
<1>6. ASSUME kind = "randwalk"
      PROVE  LET lo == Arg(a, 1, def)
                 hi == Arg(a, 2, def)
                 step == IF Arg(a, 3, 60) <= 0 THEN 60 ELSE Arg(a, 3, 60)
             IN  (IF hi <= lo THEN lo ELSE lo + ((hi - lo) * (t % step)) \div step) \in Int
  <2>1. PICK lo, hi, c \in Int : lo = Arg(a, 1, def) /\ hi = Arg(a, 2, def) /\ c = Arg(a, 3, 60)
    BY <1>d, <1>3, <1>6
  <2>2. PICK step \in Nat \ {0} : step = IF c <= 0 THEN 60 ELSE c
    OBVIOUS
  <2>3. PICK r \in Int : r = t % step
    OBVIOUS
  <2>4. \A b, d \in Int : b * d \in Int
    OBVIOUS
  <2>5. PICK z \in Int : z = (hi - lo) * r
    BY <2>4
  <2>6. z \div step \in Int
    BY DivFacts
  <2>7. (IF hi <= lo THEN lo ELSE lo + z \div step) \in Int
    BY <2>6
  <2> QED
    BY <2>1, <2>2, <2>3, <2>5, <2>7, Zenon
<1>7. (LET ci == Lookup(a, t) IN IF ci # NoCI THEN ci ELSE def) \in Int
  BY <1>d, LookupType
<1> QED
  BY <1>1, <1>d, <1>2, <1>4, <1>5, <1>6, <1>7 DEF RawCarbonIntensity

(* The samples that currentCI adds up.                                     *)
Samples(n, t) ==
    [i \in 0 .. CISmoothWindow - 1 |-> RawCarbonIntensity(n, t - i * SmoothStep)]

LEMMA CurrentType ==
    ASSUME NEW n, Described(n), NEW t \in Int
    PROVE  CurrentCI(n, t) \in Nat
<1>1. PICK sample : sample = Samples(n, t)
  OBVIOUS
<1>2. PICK S : S = 0 .. CISmoothWindow - 1
  OBVIOUS
<1>3. IsFiniteSet(S) /\ DOMAIN sample = S
  <2>1. PICK m \in Int : m = 4
    OBVIOUS
  <2>2. IsFiniteSet(0..m)
    BY FS_Interval
  <2>3. S = 0..m
    BY <1>2, <2>1 DEF CISmoothWindow
  <2> QED
    BY <1>1, <1>2, <2>2, <2>3 DEF Samples
<1>4. ASSUME NEW i \in S PROVE sample[i] \in Int
  <2>1. i \in Int /\ SmoothStep \in Int
    BY <1>2, CurveAssumption DEF CISmoothWindow
  <2>2. PICK u \in Int : u = t - i * SmoothStep
    <3>1. \A x, y \in Int : t - x * y \in Int
      OBVIOUS
    <3> QED
      BY <2>1, <3>1
  <2>3. sample[i] = RawCarbonIntensity(n, u)
    BY <1>1, <1>2, <2>2 DEF Samples
  <2> QED
    BY <2>3, RawType
<1>5. MapThenSumSet(LAMBDA i : sample[i], S) = Total(S, sample)
  BY SumIsTotal
<1>6. Total(S, sample) \in Int
  BY <1>3, <1>4, TotalType
<1>7. CurrentCI(n, t) = AtLeast(Total(S, sample), 0)
  <2>1. CurrentCI(n, t) = AtLeast(MapThenSumSet(LAMBDA i : Samples(n, t)[i], DOMAIN Samples(n, t)), 0)
    BY DEF CurrentCI, Samples
  <2>2. MapThenSumSet(LAMBDA i : Samples(n, t)[i], DOMAIN Samples(n, t))
            = Total(DOMAIN Samples(n, t), Samples(n, t))
    BY SumIsTotal
  <2> QED
    BY <1>1, <1>3, <2>1, <2>2
<1> QED
  BY <1>6, <1>7 DEF AtLeast

(* A cost is never computed with an intensity of zero.                     *)
LEMMA CostIntensity ==
    ASSUME NEW n, Described(n), NEW t \in Int
    PROVE  CostCI(n, t) \in Nat \ {0}
<1>1. CurrentCI(n, t) \in Nat
  BY CurrentType
<1>2. n.ci \in Int /\ n.site.ci \in Int /\ n.hasSite \in BOOLEAN
  BY DEF Described
<1> QED
  BY <1>1, <1>2 DEF CostCI, CISmoothWindow, DefaultCI

LEMMA PowerType ==
    ASSUME NEW n, Described(n), NEW cpu \in Int
    PROVE  /\ Power(n, cpu) \in Int
           /\ PeakPower(n) > 0 /\ IdlePercent(n) > 0 => Power(n, cpu) > 0
<1>1. PICK peak \in Int : peak = PeakPower(n)
  <2>1. DefaultPeak \in Int
    BY DEF DefaultPeak
  <2>2. Arg(n.peakMeta, 1, DefaultPeak) \in Int
    BY <2>1, ArgType DEF Described
  <2>3. PeakPower(n) \in Int
    BY <2>2, ArgType DEF Described, PeakPower
  <2> QED
    BY <2>3
<1>2. PICK idle \in 0..100 : idle = IdlePercent(n)
  <2>1. DefaultIdle \in Int
    BY DEF DefaultIdle
  <2>2. Arg(n.idleMeta, 1, DefaultIdle) \in Int
    BY <2>1, ArgType DEF Described
  <2> QED
    BY <2>2 DEF IdlePercent, Within
<1>3. CpuQuarters(n, cpu) \in 0..4
  BY DEF CpuQuarters, Within, Described
<1>4. PICK curve \in 0..100 : curve = PowerCurve[CpuQuarters(n, cpu)]
  BY <1>3, CurveAssumption
<1>5. PICK dynamic \in Nat : dynamic = AtLeast(peak * (100 - idle), 0)
  <2>1. peak * (100 - idle) \in Int
    OBVIOUS
  <2> QED
    BY <2>1 DEF AtLeast
<1>6. Power(n, cpu) = 100 * peak * idle + curve * dynamic
  BY <1>1, <1>2, <1>4, <1>5, Zenon DEF Power
<1>7. curve * dynamic \in Nat
  OBVIOUS
<1>8. 100 * peak * idle \in Int /\ (peak > 0 /\ idle > 0 => 100 * peak * idle > 0)
  <2>1. \A a, b \in Nat \ {0} : 100 * a * b > 0
    OBVIOUS
  <2> QED
    BY <2>1
<1>9. PICK x \in Int, y \in Nat : x = 100 * peak * idle /\ y = curve * dynamic
  BY <1>7, <1>8
<1>10. Power(n, cpu) = x + y /\ (peak > 0 /\ idle > 0 => x > 0)
  BY <1>6, <1>8, <1>9
<1> QED
  BY <1>1, <1>2, <1>10

(* A node that draws power emits carbon for every workload.                *)
LEMMA CarbonType ==
    ASSUME NEW n, Described(n), NEW cpu \in Int, NEW dur \in Int, NEW t \in Int
    PROVE  /\ Energy(n, cpu, dur) \in Int
           /\ Carbon(n, cpu, dur, t) \in Int
           /\ PeakPower(n) > 0 /\ IdlePercent(n) > 0 => Carbon(n, cpu, dur, t) > 0
<1>1. PICK power \in Int : power = Power(n, cpu)
  BY PowerType
<1>2. PICK d \in Nat \ {0} : d = IF dur <= 0 THEN 1 ELSE dur
  OBVIOUS
<1>3. PICK k \in Nat \ {0} : k = IF n.hasSite /\ n.site.k > 0 THEN n.site.k ELSE 1
  BY DEF Described
<1>4. PICK pue \in Nat \ {0} : pue = IF n.hasSite /\ n.site.pue > 0 THEN n.site.pue ELSE 1
  BY DEF Described
<1>5. PICK ci \in Nat \ {0} : ci = CostCI(n, t)
  BY CostIntensity
<1>6. \A a \in Int, b \in Nat \ {0} : a * b \in Int /\ (a > 0 => a * b > 0)
  OBVIOUS
<1>7. PICK e1 \in Int : e1 = power * d /\ (power > 0 => e1 > 0)
  BY <1>6
<1>8. PICK e2 \in Int : e2 = e1 * k /\ (e1 > 0 => e2 > 0)
  BY <1>6
<1>9. Energy(n, cpu, dur) = e2
  BY <1>1, <1>2, <1>3, <1>7, <1>8, Zenon DEF Energy
<1>10. PICK c1 \in Int : c1 = e2 * pue /\ (e2 > 0 => c1 > 0)
  BY <1>6
<1>11. PICK c2 \in Int : c2 = c1 * ci /\ (c1 > 0 => c2 > 0)
  BY <1>6
<1>12. Carbon(n, cpu, dur, t) = c2
  BY <1>4, <1>5, <1>9, <1>10, <1>11, Zenon DEF Carbon
<1>13. PeakPower(n) > 0 /\ IdlePercent(n) > 0 => power > 0
  BY <1>1, PowerType
<1> QED
  BY <1>7, <1>8, <1>9, <1>10, <1>11, <1>12, <1>13

-----------------------------------------------------------------------------
(* A simulation is a run of the loop                                       *)

LoopInv == BooksInv /\ LogInv /\ MatchInv

LEMMA LoopInit == RunInit => LoopInv
BY BooksInit, LogInit, MatchInit DEF RunInit, LoopInv

(* Whatever the policies answer and whenever the row is made, the loop     *)
(* takes one of its own steps, or none.                                    *)
LEMMA LoopStep == [RunNext]_runVars => [Next]_vars
<1>1. ASSUME Prepare PROVE Next
  BY <1>1 DEF Prepare, Next
<1>2. ASSUME PolicyStep PROVE Next
  BY <1>2 DEF PolicyStep, Next
<1>3. ASSUME Summarise PROVE UNCHANGED vars
  BY <1>3 DEF Summarise
<1>4. ASSUME UNCHANGED runVars PROVE UNCHANGED vars
  BY <1>4 DEF runVars
<1> QED
  BY <1>1, <1>2, <1>3, <1>4 DEF RunNext

LEMMA LoopInvariant == RunSpec => []LoopInv
<1>1. LoopInv /\ [RunNext]_runVars => LoopInv'
  BY LoopStep, BooksStep, LogStep, MatchStep DEF LoopInv
<1> QED
  BY LoopInit, <1>1, PTL DEF RunSpec

(* ExactlyOnce and LogFeasible: with any of the policies a simulation runs *)
(* every workload once and its log is a feasible schedule.                 *)
THEOREM SimulationsAreSchedules == RunSpec => [](ExactlyOnce /\ LogFeasible)
<1>1. LoopInv => ExactlyOnce
  BY DEF LoopInv, BooksInv, OnceInv
<1>2. LoopInv => LogFeasible
  <2> SUFFICES ASSUME LoopInv, NEW x \in DOMAIN log
               PROVE  /\ \A r \in Res : Load[r][ActiveAt(log[x].node, log[x].start)]
                                           <= Capacity[log[x].node][r]
                      /\ log[x].start >= submit[log[x].job]
                      /\ log[x].job \in NeedsGpu => log[x].node \in GpuNodes
    BY DEF LogFeasible
  <2>1. log[x].node \in Nodes /\ log[x].start \in Nat
    BY EntryTypes DEF LoopInv, BooksInv, TypeInv
  <2> QED
    BY <2>1 DEF LoopInv, LogInv, WithinCapacity, EntryOK
<1> QED
  BY LoopInvariant, <1>1, <1>2, PTL

-----------------------------------------------------------------------------
(* Minima of sets of natural numbers                                       *)

LEMMA MinIsLeast ==
    ASSUME NEW T \in SUBSET Nat, T # {}
    PROVE  Min(T) \in T /\ \A y \in T : Min(T) <= y
<1> DEFINE R == {ss \in Nat \X Nat : ss[1] < ss[2]}
<1>1. IsWellFoundedOn(R, Nat)
  BY NatLess
<1>2. \A x, y \in Nat : ~(<<y, x>> \in R) => x <= y
  OBVIOUS
<1> HIDE DEF R
<1>3. PICK x \in T : \A y \in T : ~(<<y, x>> \in R)
  BY <1>1, WFMin
<1>4. \A y \in T : x <= y
  BY <1>2, <1>3
<1> QED
  BY <1>4 DEF Min

-----------------------------------------------------------------------------
(* The wait                                                                *)

(* The ends that a policy sees on node n at time t.                        *)
EndsSeen(n, t) == {resvEnd[i] : i \in {k \in resv[n] : resvEnd[k] > t}}

LEMMA WaitIsToTheFirstEnd ==
    ASSUME TypeInv, NEW n \in Nodes, NEW t \in Nat
    PROVE  /\ EndsSeen(n, t) = {} => Wait(n, t) = 0
           /\ EndsSeen(n, t) # {} => /\ Min(EndsSeen(n, t)) \in Nat
                                 /\ Min(EndsSeen(n, t)) > t
                                 /\ Wait(n, t) = Min(EndsSeen(n, t)) - t
<1>1. resv[n] \subseteq Jobs /\ \A j \in resv[n] : resvEnd[j] \in Nat
  BY DEF TypeInv, TypeOK
<1>2. EndsSeen(n, t) \subseteq Nat /\ \A e \in EndsSeen(n, t) : e > t
  BY <1>1 DEF EndsSeen
<1>3. Wait(n, t) = IF EndsSeen(n, t) = {} THEN 0 ELSE Min(EndsSeen(n, t)) - t
  BY DEF Wait, EndsSeen
<1>4. EndsSeen(n, t) # {} => Min(EndsSeen(n, t)) \in EndsSeen(n, t)
  BY <1>2, MinIsLeast
<1> QED
  BY <1>2, <1>3, <1>4

(* Where nothing of no length was placed at this instant, what a node      *)
(* holds while workloads are placed has an end to come.                    *)
LEMMA HeldIsRunning ==
    ASSUME LoopInv, Asking, NEW n \in Nodes \ Instant, NEW j \in resv[n]
    PROVE  resvEnd[j] > clock
<1>1. pc = "scan"
  BY DEF Asking, Scanning
<1>2. PICK x \in DOMAIN log : log[x].job = j /\ log[x].node = n /\ Running(x)
  BY <1>1, MatchPointwise DEF LoopInv, MatchInv
<1>3. /\ log[x].end = resvEnd[j] /\ log[x].start <= clock /\ log[x].start <= log[x].end
      /\ log[x].end \in Nat /\ log[x].start \in Nat /\ clock \in Nat
  <2>1. EntryOK(log[x])
    BY DEF LoopInv, LogInv
  <2>2. log[x].end \in Nat /\ log[x].start \in Nat
    BY EntryTypes DEF LoopInv, BooksInv, TypeInv
  <2> QED
    BY <1>2, <2>1, <2>2 DEF EntryOK, LoopInv, BooksInv, TypeInv, TypeOK
<1> QED
  BY <1>2, <1>3 DEF Running, Instant

(* The workload asked about was submitted.                                 *)
LEMMA AskedIsSubmitted ==
    ASSUME LoopInv, Asking
    PROVE  submit[Asked] \in Nat /\ clock \in Nat /\ submit[Asked] <= clock
<1>1. pc = "scan" /\ cursor \in 1..Len(queue) /\ queue \in Seq(Jobs)
  BY DEF Asking, Scanning, LoopInv, BooksInv, TypeInv, TypeOK
<1>2. Asked \in Queued
  BY <1>1 DEF Asked, Queued, LivePositions
<1>3. Asked \in Jobs
  BY <1>1 DEF Asked
<1> QED
  BY <1>2, <1>3, InputAssumption DEF LoopInv, LogInv, QueueArrived, BooksInv, TypeInv, TypeOK

(* Such a node shows the same ends from the submit time as from now.       *)
LEMMA EndsAreCurrent ==
    ASSUME LoopInv, Asking, NEW n \in Nodes \ Instant
    PROVE  EndsSeen(n, submit[Asked]) = EndsSeen(n, clock)
<1>1. submit[Asked] \in Nat /\ clock \in Nat /\ submit[Asked] <= clock
  BY AskedIsSubmitted
<1>2. \A j \in resv[n] : resvEnd[j] > clock /\ resvEnd[j] \in Nat
  BY HeldIsRunning DEF LoopInv, BooksInv, TypeInv, TypeOK
<1> QED
  BY <1>1, <1>2 DEF EndsSeen

(* WaitOrderIsCurrent: waits counted from the submit time sort the nodes   *)
(* as waits counted from now.                                              *)
THEOREM WaitsSortNodes == RunSpec => []WaitOrderIsCurrent
<1>1. LoopInv => WaitOrderIsCurrent
  <2> SUFFICES ASSUME LoopInv, Asking, NEW m \in Nodes \ Instant, NEW n \in Nodes \ Instant
               PROVE  Wait(m, submit[Asked]) <= Wait(n, submit[Asked]) <=> Wait(m, clock) <= Wait(n, clock)
    BY DEF WaitOrderIsCurrent
  <2>1. PICK s : s = submit[Asked]
    OBVIOUS
  <2>2. s \in Nat /\ clock \in Nat /\ s <= clock
    BY <2>1, AskedIsSubmitted
  <2>3. ASSUME NEW k \in Nodes \ Instant
        PROVE  \/ Wait(k, s) = 0 /\ Wait(k, clock) = 0
               \/ \E e \in Nat : e > clock /\ Wait(k, s) = e - s /\ Wait(k, clock) = e - clock
    <3>1. EndsSeen(k, s) = EndsSeen(k, clock)
      BY <2>1, EndsAreCurrent
    <3>2. TypeInv
      BY DEF LoopInv, BooksInv
    <3> QED
      BY <2>2, <3>1, <3>2, WaitIsToTheFirstEnd
  <2> QED
    BY <2>1, <2>2, <2>3
<1> QED
  BY LoopInvariant, <1>1, PTL

-----------------------------------------------------------------------------
(* The interference                                                        *)

LEMMA MaxOfUse ==
    ASSUME NEW a \in 0..4, NEW b \in 0..4
    PROVE  Max({a, b}) \in 0..4 /\ (a = 0 /\ b = 0 => Max({a, b}) = 0)
<1>1. \E x \in {a, b} : \A y \in {a, b} : x >= y
  OBVIOUS
<1>2. Max({a, b}) \in {a, b}
  BY <1>1 DEF Max
<1> QED
  BY <1>2

LEMMA UseRange ==
    ASSUME NEW q \in Int
    PROVE  4 - Within(q, 0, 4) \in 0..4
BY DEF Within

(* A quarter of the total is counted as used once there is less.           *)
LEMMA UtilisationRange ==
    ASSUME TypeInv, NEW n \in Nodes
    PROVE  /\ Utilisation(n) \in 0..4
           /\ avail[n] = Capacity[n] => Utilisation(n) = 0
<1> DEFINE Use(r) == 4 - Within((4 * avail[n][r]) \div Capacity[n][r], 0, 4)
<1>1. \A r \in Res : avail[n][r] \in Int /\ Capacity[n][r] \in Nat \ {0}
  BY ResourceAssumption DEF TypeInv, TypeOK
<1>2. ASSUME NEW r \in Res PROVE Use(r) \in 0..4
  <2>1. (4 * avail[n][r]) \div Capacity[n][r] \in Int
    BY <1>1
  <2> QED
    BY <2>1, UseRange
<1>3. ASSUME NEW r \in Res, avail[n] = Capacity[n] PROVE Use(r) = 0
  <2>1. \A c \in Nat \ {0} : (4 * c) \div c = 4
    OBVIOUS
  <2>2. (4 * avail[n][r]) \div Capacity[n][r] = 4
    BY <1>1, <1>3, <2>1
  <2> QED
    BY <2>2 DEF Within
<1>4. Utilisation(n) = Max({Use("cpu"), Use("mem")})
  <2>1. {Use(r) : r \in Res} = {Use("cpu"), Use("mem")}
    BY DEF Res
  <2> QED
    BY <2>1, Zenon DEF Utilisation
<1>5. "cpu" \in Res /\ "mem" \in Res
  BY DEF Res
<1> HIDE DEF Use
<1> QED
  BY <1>2, <1>3, <1>4, <1>5, MaxOfUse

LEMMA InterferenceRange ==
    ASSUME TypeInv, NEW j \in Jobs, NEW n \in Nodes
    PROVE  Interference(j, n) \in Nat /\ (Utilisation(n) = 0 => Interference(j, n) = 0)
<1>1. Runtime(j) \in Durations \cup {DefaultRuntime}
  BY DEF Runtime, TypeInv, TypeOK
<1>2. PICK p : p = PenaltyRoot[Runtime(j)]
  OBVIOUS
<1>3. p \in Nat
  BY <1>1, <1>2, PenaltyAssumption
<1>4. PICK c : c = IF NodeInfo[n].noisy THEN 18 ELSE 15
  OBVIOUS
<1>5. c \in Nat
  BY <1>4
<1>6. Utilisation(n) \in Nat
  BY UtilisationRange
<1>7. Interference(j, n) = c * Utilisation(n) * p
  BY <1>2, <1>4 DEF Interference
<1>8. \A x, y, z \in Nat : x * y * z \in Nat /\ (y = 0 => x * y * z = 0)
  OBVIOUS
<1> QED
  BY <1>3, <1>5, <1>6, <1>7, <1>8

(* QueueSignalIsLoad: ecokube sees an idle node exactly where nothing runs. *)
THEOREM SignalsShowLoad == RunSpec => []QueueSignalIsLoad
<1>1. LoopInv => QueueSignalIsLoad
  <2> SUFFICES ASSUME LoopInv, Asking, NEW n \in Nodes \ Instant
               PROVE  EcoMetrics(Asked, n, submit[Asked]).queue = 0 <=>
                         ~\E x \in DOMAIN log : log[x].node = n /\ log[x].end > clock
    BY DEF QueueSignalIsLoad
  <2>1. PICK s : s = submit[Asked]
    OBVIOUS
  <2>2. s \in Nat /\ clock \in Nat /\ s <= clock
    BY <2>1, AskedIsSubmitted
  <2>3. Asked \in Jobs /\ TypeInv /\ pc = "scan"
    BY DEF Asking, Scanning, Asked, LoopInv, BooksInv, TypeInv, TypeOK
  <2>4. EcoMetrics(Asked, n, s).queue = 100 * Wait(n, s) + Interference(Asked, n)
    BY DEF EcoMetrics
  <2>5. EndsSeen(n, s) = EndsSeen(n, clock)
    BY <2>1, EndsAreCurrent
  <2>6. CASE \E x \in DOMAIN log : log[x].node = n /\ log[x].end > clock
    <3>1. PICK x \in DOMAIN log : log[x].node = n /\ log[x].end > clock
      BY <2>6
    <3>2. log[x].job \in resv[n] /\ resvEnd[log[x].job] > clock
      BY <3>1 DEF LoopInv, LogInv, EntryOK
    <3>3. EndsSeen(n, clock) # {}
      BY <3>2 DEF EndsSeen
    <3>4. Wait(n, s) \in Nat /\ Wait(n, s) > 0
      BY <2>2, <2>3, <2>5, <3>3, WaitIsToTheFirstEnd
    <3>5. Interference(Asked, n) \in Nat
      BY <2>3, InterferenceRange
    <3> QED
      BY <2>1, <2>4, <2>6, <3>4, <3>5
  <2>7. CASE ~\E x \in DOMAIN log : log[x].node = n /\ log[x].end > clock
    <3>1. resv[n] = {}
      <4> SUFFICES ASSUME NEW j \in resv[n] PROVE FALSE
        OBVIOUS
      <4>1. PICK x \in DOMAIN log : log[x].job = j /\ log[x].node = n
        BY <2>3, MatchPointwise DEF LoopInv, MatchInv
      <4>2. log[x].end = resvEnd[j]
        BY <4>1 DEF LoopInv, LogInv, EntryOK
      <4>3. resvEnd[j] > clock
        BY HeldIsRunning
      <4> QED
        BY <2>7, <4>1, <4>2, <4>3
    <3>2. avail[n] = Capacity[n]
      <4>1. ASSUME NEW r \in Res PROVE avail[n][r] = Capacity[n][r]
        <5>1. avail[n][r] = Capacity[n][r] - Load[r][{}]
          BY <3>1 DEF LoopInv, BooksInv, LedgerInv, Conservation
        <5>2. Capacity[n][r] \in Nat
          BY ResourceAssumption
        <5> QED
          BY <5>1, <5>2, NoLoad
      <4>2. avail[n] \in [Res -> Int] /\ Capacity[n] \in [Res -> Nat \ {0}]
        BY <2>3, ResourceAssumption DEF TypeInv, TypeOK
      <4> QED
        BY <4>1, <4>2
    <3>3. EndsSeen(n, s) = {}
      BY <3>1 DEF EndsSeen
    <3>4. Wait(n, s) = 0
      BY <2>2, <2>3, <3>3, WaitIsToTheFirstEnd
    <3>5. Interference(Asked, n) = 0
      BY <2>3, <3>2, UtilisationRange, InterferenceRange
    <3> QED
      BY <2>1, <2>4, <2>7, <3>4, <3>5
  <2> QED
    BY <2>6, <2>7
<1> QED
  BY LoopInvariant, <1>1, PTL

-----------------------------------------------------------------------------
(* The carbon of the nodes                                                 *)

(* LookupIsExpected: every lookup gives the sample its hour calls for.     *)
THEOREM LookupsAreExpected == RunSpec => []LookupIsExpected
<1>1. LoopInv => LookupIsExpected
  <2> SUFFICES ASSUME LoopInv, NEW k \in DOMAIN File, NEW i \in 0 .. CISmoothWindow
               PROVE  Lookup(k, clock - i * SmoothStep) = SampleOf(k, clock - i * SmoothStep)
    BY DEF LookupIsExpected
  <2>1. clock \in Int /\ i \in Int /\ SmoothStep \in Int
    BY CurveAssumption DEF LoopInv, BooksInv, TypeInv, TypeOK, CISmoothWindow
  <2>2. \A c, x, y \in Int : c - x * y \in Int
    OBVIOUS
  <2>3. clock - i * SmoothStep \in Int
    BY <2>1, <2>2
  <2> QED
    BY <2>3, LookupIsSample
<1> QED
  BY LoopInvariant, <1>1, PTL

(* What a workload costs on a node is a number.                            *)
LEMMA CostType ==
    ASSUME TypeInv, NEW j \in Jobs, NEW n \in Nodes, NEW d \in Int, NEW t \in Int
    PROVE  /\ Energy(NodeInfo[n], Demand[j]["cpu"], d) \in Int
           /\ Carbon(NodeInfo[n], Demand[j]["cpu"], d, t) \in Int
           /\ NodesDrawPower => Carbon(NodeInfo[n], Demand[j]["cpu"], d, t) > 0
<1>1. PICK node, cpu : node = NodeInfo[n] /\ cpu = Demand[j]["cpu"]
  OBVIOUS
<1>2. cpu \in Int
  BY <1>1, ResourceAssumption DEF Res
<1>3. Described(node)
  BY <1>1, InfoAssumption
<1>4. /\ Energy(node, cpu, d) \in Int
      /\ Carbon(node, cpu, d, t) \in Int
      /\ PeakPower(node) > 0 /\ IdlePercent(node) > 0 => Carbon(node, cpu, d, t) > 0
  BY <1>2, <1>3, CarbonType
<1>5. NodesDrawPower => PeakPower(node) > 0 /\ IdlePercent(node) > 0
  BY <1>1 DEF NodesDrawPower
<1> QED
  BY <1>1, <1>4, <1>5

(* What an entry of the log is computed with.                              *)
LEMMA LoggedTypes ==
    ASSUME TypeInv, NEW x \in DOMAIN log
    PROVE  /\ log[x].job \in Jobs /\ log[x].node \in Nodes
           /\ log[x].start \in Int /\ log[x].end \in Int
           /\ duration[log[x].job] \in Int /\ submit[log[x].job] \in Int
           /\ Demand[log[x].job]["cpu"] \in Int
<1>1. log[x].job \in Jobs /\ log[x].node \in Nodes /\ log[x].start \in Nat /\ log[x].end \in Nat
  BY EntryTypes DEF TypeInv
<1>2. \A j \in Jobs : duration[j] \in Nat /\ submit[j] \in Nat
  BY InputAssumption DEF TypeInv, TypeOK
<1>3. \A j \in Jobs : Demand[j]["cpu"] \in Nat
  BY ResourceAssumption DEF Res
<1> QED
  BY <1>1, <1>2, <1>3

(* CarbonIsCounted: no placement is logged as free of carbon.              *)
THEOREM EveryPlacementEmits ==
    ASSUME NodesDrawPower
    PROVE  RunSpec => []CarbonIsCounted
<1>1. LoopInv => CarbonIsCounted
  <2> SUFFICES ASSUME LoopInv, NEW x \in DOMAIN log
               PROVE  Carbon(NodeInfo[log[x].node], Demand[log[x].job]["cpu"],
                             duration[log[x].job], log[x].start) > 0
    BY DEF CarbonIsCounted
  <2>1. TypeInv
    BY DEF LoopInv, BooksInv
  <2> QED
    BY <2>1, LoggedTypes, CostType
<1> QED
  BY LoopInvariant, <1>1, PTL

-----------------------------------------------------------------------------
(* The signals that the policies read                                      *)

LEMMA FitRange ==
    ASSUME NEW j, NEW n
    PROVE  DeviceFit(j, n) \in {3, 5, 7, 10} /\ Move(j, n) \in {0, 1} /\ FitBonus(j, n) \in {0, 48, 80}
<1>1. DeviceFit(j, n) \in {3, 5, 7, 10}
  BY Zenon DEF DeviceFit
<1>2. Move(j, n) \in {0, 1}
  BY Zenon DEF Move
<1>3. FitBonus(j, n) \in {0, 48, 80}
  BY Zenon DEF FitBonus
<1> QED
  BY <1>1, <1>2, <1>3

LEMMA WaitType ==
    ASSUME TypeInv, NEW n \in Nodes, NEW t \in Nat
    PROVE  Wait(n, t) \in Int
BY WaitIsToTheFirstEnd

LEMMA RuntimeType ==
    ASSUME TypeInv, NEW j \in Jobs
    PROVE  duration[j] \in Int /\ Runtime(j) \in Int
<1>1. \A i \in Jobs : duration[i] \in Nat
  BY InputAssumption DEF TypeInv, TypeOK
<1>2. DefaultRuntime \in Int
  BY PenaltyAssumption
<1> QED
  BY <1>1, <1>2 DEF Runtime

LEMMA EcoTypes ==
    ASSUME TypeInv, NEW j \in Jobs, NEW n \in Nodes, NEW t \in Nat
    PROVE  /\ DOMAIN EcoMetrics(j, n, t) = {"co2", "energy", "runtime", "queue", "move", "fit"}
           /\ \A f \in DOMAIN EcoMetrics(j, n, t) : EcoMetrics(j, n, t)[f] \in Int
<1>1. PICK co2, energy : /\ co2 = Carbon(NodeInfo[n], Demand[j]["cpu"], Runtime(j), t)
                         /\ energy = Energy(NodeInfo[n], Demand[j]["cpu"], Runtime(j))
  OBVIOUS
<1>2. Runtime(j) \in Int /\ t \in Int
  BY RuntimeType
<1>3. co2 \in Int /\ energy \in Int
  BY <1>1, <1>2, CostType
<1>4. PICK runtime, queued, move, fit :
         /\ runtime = Runtime(j) * (1000 - FitBonus(j, n))
         /\ queued = 100 * Wait(n, t) + Interference(j, n)
         /\ move = Move(j, n) /\ fit = DeviceFit(j, n)
  OBVIOUS
<1>5. move \in Int /\ fit \in Int /\ FitBonus(j, n) \in Int
  BY <1>4, FitRange
<1>6. runtime \in Int
  BY <1>2, <1>4, <1>5
<1>7. queued \in Int
  BY <1>4, WaitType, InterferenceRange
<1>8. EcoMetrics(j, n, t) = [co2 |-> co2, energy |-> energy, runtime |-> runtime,
                             queue |-> queued, move |-> move, fit |-> fit]
  BY <1>1, <1>4, Zenon DEF EcoMetrics
<1> QED
  BY <1>3, <1>5, <1>6, <1>7, <1>8

LEMMA GatherTypes ==
    ASSUME TypeInv, NEW j \in Jobs, NEW n \in Nodes, NEW t \in Nat
    PROVE  LET g == Gather(j, n, t) IN g.carbon \in Int /\ g.runtime \in Int /\ g.queue \in Int
<1>1. PICK co2 : co2 = Carbon(NodeInfo[n], Demand[j]["cpu"], Runtime(j), t)
  OBVIOUS
<1>2. Runtime(j) \in Int /\ t \in Int
  BY RuntimeType
<1>3. co2 \in Int
  BY <1>1, <1>2, CostType
<1>4. Gather(j, n, t) = [carbon |-> co2, runtime |-> Runtime(j), queue |-> Wait(n, t)]
  BY <1>1, Zenon DEF Gather
<1> QED
  BY <1>2, <1>3, <1>4, WaitType

LEMMA ScalerTypes ==
    ASSUME TypeInv, NEW j \in Jobs, NEW n \in Nodes, NEW t \in Nat
    PROVE  LET s == ScalerMetrics(j, n, t) IN s.carbon \in Int /\ s.queue \in Int
<1>1. duration[j] \in Int /\ t \in Int
  BY RuntimeType
<1>2. PICK cost \in Int : cost = Carbon(NodeInfo[n], Demand[j]["cpu"], duration[j], t)
  BY <1>1, CostType
<1>3. PICK ci \in Int : ci = EstimateCarbonIntensity(NodeInfo[n], t)
  <2>1. CurrentCI(NodeInfo[n], t) \in Nat
    BY InfoAssumption, CurrentType
  <2> QED
    BY <2>1 DEF EstimateCarbonIntensity
<1>4. PICK c : c = IF cost > 0 THEN cost ELSE IF ci > 0 THEN ci ELSE 1
  OBVIOUS
<1>5. ScalerMetrics(j, n, t) = [carbon |-> c, queue |-> Wait(n, t)]
  BY <1>2, <1>3, <1>4, Zenon DEF ScalerMetrics
<1> QED
  BY <1>4, <1>5, WaitType

LEMMA UsedType ==
    ASSUME TypeInv, NEW n \in Nodes
    PROVE  (Scale * UsedNum(n)) \div UsedDen(n) \in Int
<1>1. PICK c, m \in Nat \ {0} : c = Capacity[n]["cpu"] /\ m = Capacity[n]["mem"]
  BY ResourceAssumption DEF Res
<1>2. PICK a, b \in Int : a = avail[n]["cpu"] /\ b = avail[n]["mem"]
  BY DEF TypeInv, TypeOK, Res
<1>3. UsedNum(n) = (c - a) * m + (m - b) * c /\ UsedDen(n) = c * m
  BY <1>1, <1>2 DEF UsedNum, UsedDen
<1>4. \A x, y \in Int : x * y \in Int /\ x + y \in Int
  OBVIOUS
<1>5. \A x, y \in Nat \ {0} : x * y \in Nat \ {0}
  OBVIOUS
<1>6. PICK den \in Nat \ {0} : den = UsedDen(n)
  BY <1>3, <1>5
<1>7. UsedNum(n) \in Int
  BY <1>3, <1>4
<1>8. PICK num \in Int : num = Scale * UsedNum(n)
  BY <1>4, <1>7, ScaleAssumption
<1> QED
  BY <1>6, <1>8, DivFacts

(* The signals that a policy needs are there, and numbers.                 *)
LEMMA SignalTypes ==
    ASSUME TypeInv, NEW k \in Kinds, NEW j \in Jobs, NEW n \in Nodes
    PROVE  \A f \in Read(k) : f \in DOMAIN SignalsOn(k, j, n) /\ SignalsOn(k, j, n)[f] \in Int
<1>1. PICK t \in Nat : t = submit[j]
  BY InputAssumption DEF TypeInv, TypeOK
<1>2. CASE k \in Weighing
  <2>1. SignalsOn(k, j, n) = EcoMetrics(j, n, t)
    BY <1>1, <1>2, KindCases DEF SignalsOn, Others
  <2>2. Read(k) = {"co2", "energy", "runtime", "queue", "move", "fit"}
    BY <1>2, ReadOf
  <2> QED
    BY <2>1, <2>2, EcoTypes
<1>3. CASE k = "eco-epsilon-constraint"
  <2>1. SignalsOn(k, j, n) = EcoMetrics(j, n, t)
    BY <1>1, <1>3 DEF SignalsOn
  <2>2. Read(k) = {"co2", "energy", "runtime", "queue", "move"}
    BY <1>3, ReadOf
  <2> QED
    BY <2>1, <2>2, EcoTypes
<1>4. CASE k \in {"keids", "topsis"}
  <2>1. PICK g : g = Gather(j, n, t)
    OBVIOUS
  <2>2. SignalsOn(k, j, n) = [co2 |-> g.carbon, runtime |-> g.runtime, queue |-> g.queue]
    BY <1>1, <1>4, <2>1, KindCases DEF SignalsOn, Others
  <2>3. Read(k) = {"co2", "runtime", "queue"}
    BY <1>4, ReadOf
  <2>4. g.carbon \in Int /\ g.runtime \in Int /\ g.queue \in Int
    BY <2>1, GatherTypes
  <2> QED
    BY <2>2, <2>3, <2>4
<1>5. CASE k = "carbonscaler"
  <2>1. PICK s : s = ScalerMetrics(j, n, t)
    OBVIOUS
  <2>2. SignalsOn(k, j, n) = [co2 |-> s.carbon, queue |-> s.queue]
    BY <1>1, <1>5, <2>1, KindCases DEF SignalsOn, Others
  <2>3. Read(k) = {"co2", "queue"}
    BY <1>5, ReadOf
  <2>4. s.carbon \in Int /\ s.queue \in Int
    BY <2>1, ScalerTypes
  <2> QED
    BY <2>2, <2>3, <2>4
<1>6. CASE k = "k8s"
  <2>1. PICK u \in Int : u = (Scale * UsedNum(n)) \div UsedDen(n)
    BY UsedType
  <2>2. SignalsOn(k, j, n) = [used |-> u]
    BY <1>6, <2>1, KindCases DEF SignalsOn, Others
  <2>3. Read(k) = {"used"}
    BY <1>6, ReadOf
  <2> QED
    BY <2>2, <2>3
<1> QED
  BY <1>2, <1>3, <1>4, <1>5, <1>6, KindCases DEF Others

-----------------------------------------------------------------------------
(* The answer of a policy                                                  *)

LEMMA PositionFacts ==
    /\ Cardinality(Nodes) \in Nat
    /\ \A i \in 1..Cardinality(Nodes) : NodeAt(i) \in Nodes /\ NodeIndex[NodeAt(i)] = i - 1
    /\ \A n \in Nodes : \E i \in 1..Cardinality(Nodes) : NodeAt(i) = n
<1>1. PICK c : c = Cardinality(Nodes)
  OBVIOUS
<1>2. c \in Nat
  BY <1>1, PositionAssumption, FS_CardinalityType
<1>3. {NodeIndex[n] : n \in Nodes} = 0 .. c - 1
  BY <1>1, PositionAssumption
<1>4. ASSUME NEW i \in 1..c PROVE NodeAt(i) \in Nodes /\ NodeIndex[NodeAt(i)] = i - 1
  <2>1. i - 1 \in 0 .. c - 1
    BY <1>2
  <2>2. \E n \in Nodes : NodeIndex[n] = i - 1
    BY <1>3, <2>1
  <2> QED
    BY <2>2 DEF NodeAt
<1>5. ASSUME NEW n \in Nodes PROVE \E i \in 1..c : NodeAt(i) = n
  <2>1. NodeIndex[n] \in 0 .. c - 1
    BY <1>3
  <2>2. PICK i \in 1..c : NodeIndex[n] = i - 1
    <3>1. NodeIndex[n] + 1 \in 1..c /\ NodeIndex[n] = (NodeIndex[n] + 1) - 1
      BY <1>2, <2>1
    <3> QED
      BY <3>1
  <2>3. NodeIndex[NodeAt(i)] = NodeIndex[n] /\ NodeAt(i) \in Nodes
    BY <1>4, <2>2
  <2> QED
    BY <2>3, NodesAssumption
<1> QED
  BY <1>1, <1>2, <1>4, <1>5

(* The view that a policy gets is a list with the signals it reads, where  *)
(* what is feasible is what the loop accepts.                              *)
LEMMA ItemsAreList ==
    ASSUME TypeInv, NEW k \in Kinds, NEW j \in Jobs
    PROVE  /\ IsList(Items(k, j), Read(k))
           /\ DOMAIN Items(k, j) = 1..Cardinality(Nodes)
           /\ \A i \in 1..Cardinality(Nodes) : /\ Items(k, j)[i].id = NameIndex[NodeAt(i)]
                                               /\ Items(k, j)[i].feasible = CanAccept(NodeAt(i), j)
<1>1. PICK x : x = Items(k, j)
  OBVIOUS
<1>2. PICK c \in Nat : c = Cardinality(Nodes)
  BY PositionFacts
<1>3. DOMAIN x = 1..c
  BY <1>1, <1>2 DEF Items
<1>4. ASSUME NEW i \in 1..c
      PROVE  x[i] = Item(NameIndex[NodeAt(i)], CanAccept(NodeAt(i), j),
                         IF CanAccept(NodeAt(i), j) THEN SignalsOn(k, j, NodeAt(i)) ELSE [used |-> 0])
  BY <1>1, <1>2 DEF Items
<1>5. ASSUME NEW i \in 1..c
      PROVE  x[i].id = NameIndex[NodeAt(i)] /\ x[i].feasible = CanAccept(NodeAt(i), j)
  BY <1>4, ItemFacts
<1>6. ASSUME NEW i \in 1..c
      PROVE  NodeAt(i) \in Nodes /\ NodeIndex[NodeAt(i)] = i - 1
  BY <1>2, PositionFacts
<1>7. \A i \in 1..c : x[i].id \in Int /\ x[i].feasible \in BOOLEAN
  <2> SUFFICES ASSUME NEW i \in 1..c PROVE x[i].id \in Int /\ x[i].feasible \in BOOLEAN
    OBVIOUS
  <2>1. NameIndex[NodeAt(i)] \in Nat
    BY <1>6, NameAssumption
  <2>2. CanAccept(NodeAt(i), j) \in BOOLEAN
    BY DEF CanAccept
  <2> QED
    BY <1>5, <2>1, <2>2
<1>8. ASSUME NEW i \in 1..c, NEW h \in 1..c, x[i].id = x[h].id PROVE i = h
  <2>1. NodeAt(i) = NodeAt(h)
    BY <1>5, <1>6, <1>8, NameAssumption
  <2>2. i - 1 = h - 1
    BY <1>6, <2>1
  <2> QED
    BY <2>2
<1>9. ASSUME NEW i \in Feasibles(x), NEW f \in Read(k) PROVE x[i][f] \in Int
  <2>1. i \in 1..c /\ CanAccept(NodeAt(i), j)
    BY <1>3, <1>5 DEF Feasibles
  <2>2. f \in DOMAIN SignalsOn(k, j, NodeAt(i)) /\ SignalsOn(k, j, NodeAt(i))[f] \in Int
    BY <1>6, <2>1, SignalTypes
  <2>3. f # "id" /\ f # "feasible"
    BY ReadIsNoName
  <2>4. x[i] = Item(NameIndex[NodeAt(i)], CanAccept(NodeAt(i), j), SignalsOn(k, j, NodeAt(i)))
    BY <1>4, <2>1
  <2>5. x[i][f] = SignalsOn(k, j, NodeAt(i))[f]
    BY <2>2, <2>3, <2>4, ItemFacts
  <2> QED
    BY <2>2, <2>5
<1>10. IsList(x, Read(k))
  <2>1. \E n \in Nat : DOMAIN x = 1..n
    BY <1>3
  <2> QED
    BY <1>3, <1>7, <1>8, <1>9, <2>1, Zenon DEF IsList
<1> QED
  BY <1>1, <1>2, <1>3, <1>5, <1>10

(* A policy answers a node that can take the workload when there is one.   *)
LEMMA PolicyAnswers ==
    ASSUME TypeInv, NEW k \in Kind, NEW j \in Jobs, Accepting(j) # {}
    PROVE  Answers(k, j) # {}
<1>1. k \in Kinds /\ Weights \in Configurations
  BY PolicyAssumption
<1>2. PICK x : x = Items(k, j)
  OBVIOUS
<1>3. /\ IsList(x, Read(k)) /\ DOMAIN x = 1..Cardinality(Nodes)
      /\ \A i \in 1..Cardinality(Nodes) : /\ x[i].id = NameIndex[NodeAt(i)]
                                          /\ x[i].feasible = CanAccept(NodeAt(i), j)
  BY <1>1, <1>2, ItemsAreList
<1>4. Feasibles(x) # {}
  <2>1. PICK n \in Nodes : CanAccept(n, j)
    BY DEF Accepting
  <2>2. PICK i \in 1..Cardinality(Nodes) : NodeAt(i) = n
    BY PositionFacts
  <2> QED
    BY <1>3, <2>1, <2>2 DEF Feasibles
<1>5. PICK c \in Feasibles(x) : Selected(k, x, Weights) = x[c].id
  <2>1. IsList(x, Read(k))
    BY <1>3
  <2>2. \E c \in Feasibles(x) :
           /\ Selected(k, x, Weights) = x[c].id
           /\ \A i \in Feasibles(x) :
                 /\ Scores(k, x, Weights)[x[c].id] <= Scores(k, x, Weights)[x[i].id]
                 /\ Scores(k, x, Weights)[x[c].id] = Scores(k, x, Weights)[x[i].id]
                       => x[c].id <= x[i].id
    BY <1>1, <1>4, <2>1, SelectedIsBest, Zenon
  <2> QED
    BY <2>2
<1>6. c \in 1..Cardinality(Nodes) /\ CanAccept(NodeAt(c), j)
  BY <1>3 DEF Feasibles
<1>7. NodeAt(c) \in Nodes
  BY <1>6, PositionFacts
<1>8. NodeAt(c) \in Answers(k, j)
  BY <1>2, <1>3, <1>5, <1>6, <1>7 DEF Answers, Accepting
<1> QED
  BY <1>8

LEMMA PlacedByPolicy ==
    ASSUME LoopInv, PolicyPlacesAll, PolicyStep
    PROVE  PolicyPlacesAll'
<1>1. TypeInv /\ log \in Seq(LogEntry) /\ traces \in Seq(DecisionTrace)
  BY DEF LoopInv, BooksInv, TypeInv, TypeOK
<1>2. ASSUME NEW n \in Nodes, Scanning, Place(n)
      PROVE  /\ Len(log') = Len(log) + 1 /\ log' # log
             /\ log'[Len(log')].job = queue[cursor] /\ queue[cursor] \in Jobs
  <2>1. PICK e : log' = Append(log, e) /\ e.job = queue[cursor]
    BY <1>2 DEF Place
  <2>2. queue[cursor] \in Jobs
    BY <1>1, <1>2 DEF Scanning, TypeInv, TypeOK
  <2>3. Len(log') = Len(log) + 1 /\ log'[Len(log')] = e /\ Len(log) \in Nat
    BY <1>1, <2>1
  <2> QED
    BY <2>1, <2>2, <2>3
<1>3. ASSUME NEW n \in Nodes, Scanning, Place(n), Accepting(queue[cursor]) # {}
      PROVE  traces' # traces
  <2>1. PICK k \in Kind : Decides(k)
    BY <1>2, <1>3 DEF PolicyStep
  <2>2. Answers(k, queue[cursor]) # {}
    BY <1>1, <1>2, <1>3, PolicyAnswers
  <2> QED
    BY <1>2, <1>3, <2>1, <2>2 DEF Decides
<1>4. ASSUME NEW n \in Nodes, PlaceByPolicy(n) PROVE PolicyPlacesAll'
  <2>1. Len(traces') = Len(traces) + 1
    BY <1>1, <1>4 DEF PlaceByPolicy
  <2>2. Len(log') = Len(log) + 1
    BY <1>2, <1>4 DEF PlaceByPolicy
  <2> QED
    BY <2>1, <2>2 DEF PolicyPlacesAll
<1>5. ASSUME NEW n \in Nodes, PlaceByFallback(n) PROVE FALSE
  <2>1. Accepting(queue[cursor]) # {} /\ traces' = traces
    BY <1>5 DEF PlaceByFallback, LeastLoaded
  <2> QED
    BY <1>3, <1>5, <2>1 DEF PlaceByFallback
<1>6. ASSUME \/ AdvanceIfIdle \/ EndRun \/ ReleaseNodes \/ EnqueueArrivals
             \/ Keep \/ EndScan \/ AdvanceClock
      PROVE  UNCHANGED outputs
  BY <1>6 DEF AdvanceIfIdle, EndRun, ReleaseNodes, EnqueueArrivals, Keep, EndScan,
              AdvanceClock, outputs
<1>7. UNCHANGED outputs => PolicyPlacesAll'
  BY DEF outputs, PolicyPlacesAll
<1> QED
  BY <1>4, <1>5, <1>6, <1>7 DEF PolicyStep, Step

(* PolicyPlacesAll: every placement has its decision trace: the loop never *)
(* falls back on a node of its own.                                        *)
THEOREM PoliciesPlaceAll == RunSpec => []PolicyPlacesAll
<1>1. RunInit => PolicyPlacesAll
  BY DEF RunInit, Init, PolicyPlacesAll
<1>2. (LoopInv /\ PolicyPlacesAll) /\ [RunNext]_runVars => PolicyPlacesAll'
  <2> SUFFICES ASSUME LoopInv, PolicyPlacesAll, [RunNext]_runVars PROVE PolicyPlacesAll'
    OBVIOUS
  <2>1. ASSUME Prepare PROVE UNCHANGED <<log, traces>>
    BY <2>1 DEF Prepare, AddWorkload, SetScheduleBatchSize, StartRun, outputs
  <2>2. ASSUME Summarise \/ UNCHANGED runVars PROVE UNCHANGED <<log, traces>>
    BY <2>2 DEF Summarise, runVars, vars
  <2>3. UNCHANGED <<log, traces>> => PolicyPlacesAll'
    BY DEF PolicyPlacesAll
  <2> QED
    BY <2>1, <2>2, <2>3, PlacedByPolicy DEF RunNext
<1>3. LoopInv /\ [RunNext]_runVars => LoopInv'
  BY LoopStep, BooksStep, LogStep, MatchStep DEF LoopInv
<1> QED
  BY <1>1, <1>2, <1>3, LoopInit, PTL DEF RunSpec

-----------------------------------------------------------------------------
(* The row of a run                                                        *)

LEMMA EffectiveType ==
    ASSUME NEW E, NEW s \in Seq(E), NEW w
    PROVE  Effective(s, w) \in Seq(E)
<1>1. PICK S : S = {i \in DOMAIN s : s[i].start >= Min(Starts(s)) + w}
  OBVIOUS
<1>2. PICK n \in Nat : DOMAIN s = 1..n
  OBVIOUS
<1>3. S \in SUBSET (1..n) /\ \A i \in S : s[i] \in E
  BY <1>1, <1>2
<1>4. PICK late : late = AtPositions(s, S)
  OBVIOUS
<1>5. PICK m : m = Cardinality(S)
  OBVIOUS
<1>6. /\ DOMAIN late = 1..m /\ m \in Nat /\ late = [k \in 1..m |-> late[k]]
      /\ \A i \in S : late[Rank(S, i)] = s[i]
  BY <1>3, <1>4, <1>5, FilteredFacts
<1>7. \A r \in 1..m : \E i \in S : Rank(S, i) = r
  BY <1>3, <1>5, RankFacts
<1>8. late \in Seq(E)
  <2>1. \A k \in 1..m : late[k] \in E
    BY <1>3, <1>6, <1>7
  <2>2. late \in [1..m -> E]
    BY <1>6, <2>1
  <2> QED
    BY <1>6, <2>2
<1>9. Effective(s, w) = IF w > 0 /\ s # <<>> /\ late # <<>> THEN late ELSE s
  BY <1>1, <1>4, Zenon DEF Effective
<1> QED
  BY <1>8, <1>9

LEMMA SumOfIs ==
    ASSUME NEW s
    PROVE  SumOf(s) = Total(DOMAIN s, s)
BY SumIsTotal DEF SumOf

(* The quotient of two sums lies between the least and the greatest of the *)
(* quotients of what is added.                                             *)
LEMMA QuotientBetween ==
    ASSUME NEW S, IsFiniteSet(S), S # {}, NEW a, NEW b,
           \A x \in S : a[x] \in Int /\ b[x] \in Int
    PROVE  /\ \E x \in S : a[x] * Total(S, b) <= Total(S, a) * b[x]
           /\ \E x \in S : a[x] * Total(S, b) >= Total(S, a) * b[x]
<1>1. PICK A, B \in Int : A = Total(S, a) /\ B = Total(S, b)
  BY TotalType
<1>2. \A x, y \in Int : x * y \in Int /\ x * y = y * x
  OBVIOUS
<1>3. PICK p \in Int : p = A * B /\ p = B * A
  BY <1>2
<1>4. ASSUME \A x \in S : ~(a[x] * B <= A * b[x]) PROVE FALSE
  <2>1. ASSUME NEW x \in S PROVE A * b[x] < B * a[x]
    <3>1. PICK u, v \in Int : u = a[x] * B /\ v = A * b[x] /\ u = B * a[x]
      BY <1>2
    <3>2. ~(u <= v)
      BY <1>4, <3>1
    <3>3. v < u
      BY <3>2
    <3> QED
      BY <3>1, <3>3
  <2>2. A * Total(S, b) < B * Total(S, a)
    BY <2>1, TotalsCompare
  <2>3. p < p
    BY <1>1, <1>3, <2>2
  <2> QED
    BY <2>3
<1>5. ASSUME \A x \in S : ~(a[x] * B >= A * b[x]) PROVE FALSE
  <2>1. ASSUME NEW x \in S PROVE B * a[x] < A * b[x]
    <3>1. PICK u, v \in Int : u = a[x] * B /\ v = A * b[x] /\ u = B * a[x]
      BY <1>2
    <3>2. ~(u >= v)
      BY <1>5, <3>1
    <3>3. u < v
      BY <3>2
    <3> QED
      BY <3>1, <3>3
  <2>2. B * Total(S, a) < A * Total(S, b)
    BY <2>1, TotalsCompare
  <2>3. p < p
    BY <1>1, <1>3, <2>2
  <2> QED
    BY <2>3
<1> QED
  BY <1>1, <1>4, <1>5

(* What is summed up of an entry of the log is a number.                   *)
LEMMA EntrySums ==
    ASSUME TypeInv, NEW x \in DOMAIN log
    PROVE  Entry(log[x]).cost \in Int /\ CpuTime(Entry(log[x])) \in Int
<1>1. PICK e : e = log[x]
  OBVIOUS
<1>2. PICK cpu, start, end \in Int : cpu = Demand[e.job]["cpu"] /\ start = e.start /\ end = e.end
  BY <1>1, LoggedTypes
<1>3. PICK cost \in Int : cost = Carbon(NodeInfo[e.node], Demand[e.job]["cpu"], duration[e.job], e.start)
  BY <1>1, LoggedTypes, CostType
<1>4. Entry(e) = [start |-> start, end |-> end, wait |-> e.start - e.submit, cpu |-> cpu, cost |-> cost]
  BY <1>2, <1>3, Zenon DEF Entry
<1>5. CpuTime(Entry(e)) = cpu * (end - start) /\ Entry(e).cost = cost
  BY <1>4 DEF CpuTime
<1>6. cpu * (end - start) \in Int
  OBVIOUS
<1> QED
  BY <1>1, <1>5, <1>6

(* Once a run has returned its row is made of its log, and stays.          *)
RowInv ==
    Summarised =>
        /\ pc = "done"
        /\ row = RowOf(Counted)

LEMMA RowInit == RunInit => RowInv
BY DEF RunInit, RowInv, Summarised

LEMMA RowStep == RowInv /\ [RunNext]_runVars => RowInv'
<1> SUFFICES ASSUME RowInv, [RunNext]_runVars PROVE RowInv'
  OBVIOUS
<1>1. ASSUME UNCHANGED vars PROVE SimLog' = SimLog
  BY <1>1 DEF SimLog, Entry, vars
<1>2. ASSUME UNCHANGED runVars PROVE RowInv'
  <2>1. UNCHANGED vars /\ summary' = summary /\ pc' = pc
    BY <1>2 DEF runVars, vars
  <2>2. SimLog' = SimLog
    BY <1>1, <2>1
  <2> QED
    BY <2>1, <2>2 DEF RowInv, Summarised, row, Counted
<1>3. ASSUME Summarise PROVE RowInv'
  <2>1. PICK w \in Warmups : summary' = [rows |-> <<RowOf(Effective(SimLog, w))>>, warmup |-> w]
    BY <1>3 DEF Summarise
  <2>2. SimLog' = SimLog /\ pc' = "done"
    BY <1>1, <1>3 DEF Summarise, vars
  <2>3. row' = RowOf(Effective(SimLog, w)) /\ summary'.warmup = w
    BY <2>1 DEF row
  <2>4. Counted' = Effective(SimLog, w)
    BY <2>2, <2>3 DEF Counted
  <2> QED
    BY <2>2, <2>3, <2>4 DEF RowInv
<1>4. ASSUME Prepare \/ PolicyStep PROVE RowInv'
  <2>1. pc # "done" /\ summary' = summary
    BY <1>4 DEF Prepare, PolicyStep, AddWorkload, SetScheduleBatchSize, StartRun, Step,
                AdvanceIfIdle, EndRun, ReleaseNodes, EnqueueArrivals, PlaceByPolicy,
                PlaceByFallback, Keep, EndScan, AdvanceClock, Scanning
  <2> QED
    BY <2>1 DEF RowInv, Summarised
<1> QED
  BY <1>2, <1>3, <1>4 DEF RunNext

(* CfpBetweenJobs: the carbon per CPU time of a run lies between that of   *)
(* the best and of the worst job it counts.                                *)
THEOREM FootprintIsBetweenJobs == RunSpec => []CfpBetweenJobs
<1>1. LoopInv /\ RowInv => CfpBetweenJobs
  <2> SUFFICES ASSUME LoopInv, RowInv, Summarised, Counted # <<>>
               PROVE  /\ \E i \in DOMAIN Counted :
                            Counted[i].cost * row.cfp.cpuTime <= row.cfp.cost * CpuTime(Counted[i])
                      /\ \E i \in DOMAIN Counted :
                            Counted[i].cost * row.cfp.cpuTime >= row.cfp.cost * CpuTime(Counted[i])
    BY Zenon DEF CfpBetweenJobs
  <2>1. PICK E : E = {Entry(log[x]) : x \in DOMAIN log}
    OBVIOUS
  <2>2. \A e \in E : e.cost \in Int /\ CpuTime(e) \in Int
    BY <2>1, EntrySums DEF LoopInv, BooksInv
  <2>3. SimLog \in Seq(E)
    <3>1. PICK n \in Nat : DOMAIN log = 1..n
      BY DEF LoopInv, BooksInv, TypeInv, TypeOK
    <3>2. SimLog \in [1..n -> E]
      BY <2>1, <3>1 DEF SimLog
    <3> QED
      BY <3>2
  <2>4. PICK s : s = Counted
    OBVIOUS
  <2>5. s \in Seq(E) /\ s # <<>>
    BY <2>3, <2>4, EffectiveType DEF Counted
  <2>6. PICK n \in Nat : DOMAIN s = 1..n /\ n # 0
    BY <2>5
  <2>7. PICK S : S = 1..n
    OBVIOUS
  <2>8. IsFiniteSet(S) /\ S # {} /\ DOMAIN s = S
    <3>1. IsFiniteSet(1..n)
      BY FS_Interval
    <3>2. 1 \in 1..n
      BY <2>6
    <3> QED
      BY <2>6, <2>7, <3>1, <3>2
  <2>9. PICK a, b : a = [i \in S |-> s[i].cost] /\ b = [i \in S |-> CpuTime(s[i])]
    OBVIOUS
  <2>10. \A i \in S : a[i] = s[i].cost /\ b[i] = CpuTime(s[i]) /\ a[i] \in Int /\ b[i] \in Int
    <3>1. \A i \in S : s[i] \in E
      BY <2>5, <2>8
    <3> QED
      BY <2>2, <2>9, <3>1
  <2>11. row.cfp = Cfp(s)
    BY <2>4 DEF RowInv, RowOf
  <2>12. row.cfp.cost = Total(S, a) /\ row.cfp.cpuTime = Total(S, b)
    <3>1. Cfp(s) = [cost |-> SumOf(a), cpuTime |-> SumOf(b)]
      BY <2>8, <2>9, Zenon DEF Cfp
    <3>2. SumOf(a) = Total(S, a) /\ SumOf(b) = Total(S, b)
      BY <2>9, SumOfIs
    <3> QED
      BY <2>11, <3>1, <3>2
  <2>13. /\ \E i \in S : a[i] * Total(S, b) <= Total(S, a) * b[i]
         /\ \E i \in S : a[i] * Total(S, b) >= Total(S, a) * b[i]
    BY <2>8, <2>10, QuotientBetween
  <2> QED
    BY <2>4, <2>8, <2>10, <2>12, <2>13
<1> QED
  BY LoopInvariant, <1>1, RowInit, RowStep, PTL DEF RunSpec
=============================================================================
