------------------------------ MODULE BaseSim ------------------------------
(***************************************************************************)
(* The event loop of the simulator (hetsched/pkg/core/basesim.go) over its *)
(* nodes' resource ledgers (SimulatedNode.go).                             *)
(*                                                                         *)
(* Run is one goroutine: pc names the part of its loop body that comes     *)
(* next, and every iteration of the loop over the queue is a step.  What a *)
(* policy answers is left open (any node, or none), because Policy is an   *)
(* interface: whatever it returns, the loop must keep its books right.     *)
(* CPU, memory and time are natural numbers.  A Reservation carries no job *)
(* id in the code; here it is identified by the job it was made for.       *)
(***************************************************************************)
EXTENDS Integers, Sequences, FiniteSets

CONSTANTS
    Jobs,        \* workload ids
    Nodes,       \* node names, unique as in the CSV the loader reads
    NodeIndex,   \* NodeIndex[n]: position of n in BaseSim.Nodes
    Capacity,    \* Capacity[n][r]: TotalCPU and TotalMemory
    Demand,      \* Demand[j][r]: Workload.CPU and Workload.Memory
    Load,        \* Load[r][S]: sum of Demand[j][r] over the jobs j of S
    NeedsGpu,    \* workloads labelled requires_gpu=true
    GpuNodes,    \* nodes labelled gpu=true
    SubmitTimes, \* submit times a workload may have
    Durations,   \* durations a workload may have
    BatchSizes,  \* arguments SetScheduleBatchSize may get
    MaxClock     \* bound on the clock, see AdvanceClock

Res == {"cpu", "mem"}

ASSUME JobsAssumption == IsFiniteSet(Jobs)

ASSUME NodesAssumption ==
    /\ NodeIndex \in [Nodes -> Nat]
    /\ \A m, n \in Nodes : NodeIndex[m] = NodeIndex[n] => m = n
    /\ GpuNodes \subseteq Nodes

ASSUME ResourceAssumption ==
    /\ Capacity \in [Nodes -> [Res -> Nat \ {0}]]
    /\ Demand \in [Jobs -> [Res -> Nat]]
    /\ NeedsGpu \subseteq Jobs

(* Load is the sum of demands: this determines it on finite sets of jobs.  *)
ASSUME LoadAssumption ==
    /\ Load \in [Res -> [SUBSET Jobs -> Nat]]
    /\ \A r \in Res, j \in Jobs : Load[r][{j}] = Demand[j][r]
    /\ \A r \in Res : \A S, T, U \in SUBSET Jobs :
          S \cup T = U /\ S \cap T = {} => Load[r][U] = Load[r][S] + Load[r][T]

ASSUME InputAssumption ==
    /\ SubmitTimes \subseteq Nat
    /\ Durations \subseteq Nat
    /\ BatchSizes \subseteq Int
    /\ MaxClock \in Nat

VARIABLES
    submit,     \* submit[j]: Workload.SubmitTime
    duration,   \* duration[j]: Workload.Duration
    added,      \* workloads handed to AddWorkload before Run
    batch,      \* BaseSim.Batch
    pc,         \* next part of Run's loop body
    clock,      \* BaseSim.Clock
    pending,    \* BaseSim.Pending once Run has sorted it
    arrived,    \* i: how many of pending have entered the queue
    queue,      \* queue, and the array `next` is written into
    cursor,     \* position the range over queue reads next
    kept,       \* len(next)
    scheduled,  \* workloads placed in this round
    avail,      \* avail[n][r]: AvailableCPU and AvailableMemory
    resv,       \* resv[n]: the workloads n holds a Reservation for
    resvEnd,    \* resvEnd[j]: End of the reservation made for j
    log,        \* LogsBuf
    traces      \* decision traces handed to the tracer

inputs == <<submit, duration, added, batch, pending>>
ledger == <<avail, resv, resvEnd>>
outputs == <<log, traces>>
vars == <<submit, duration, added, batch, pc, clock, pending, arrived, queue,
          cursor, kept, scheduled, avail, resv, resvEnd, log, traces>>

-----------------------------------------------------------------------------
(* SimulatedNode.go                                                        *)

(* Mutant: memory is not compared.                                         *)
CanAcceptCpuOnly(n, j) ==
    /\ avail[n]["cpu"] >= Demand[j]["cpu"]
    /\ j \in NeedsGpu => n \in GpuNodes

CanAccept(n, j) ==
    /\ \A r \in Res : avail[n][r] >= Demand[j][r]
    /\ j \in NeedsGpu => n \in GpuNodes

(* Mutant: the reservation ends a duration after the submit time.          *)
ReserveFromSubmit(n, j) ==
    /\ avail' = [avail EXCEPT ![n] = [r \in Res |-> @[r] - Demand[j][r]]]
    /\ resv' = [resv EXCEPT ![n] = @ \cup {j}]
    /\ resvEnd' = [resvEnd EXCEPT ![j] = submit[j] + duration[j]]

Reserve(n, j) ==
    /\ avail' = [avail EXCEPT ![n] = [r \in Res |-> @[r] - Demand[j][r]]]
    /\ resv' = [resv EXCEPT ![n] = @ \cup {j}]
    /\ resvEnd' = [resvEnd EXCEPT ![j] = clock + duration[j]]

(* Mutants: a reservation ending now is kept; one still running is dropped. *)
DueStrictly(n) == {j \in resv[n] : resvEnd[j] < clock}
NotDue(n) == {j \in resv[n] : resvEnd[j] >= clock}

(* The reservations of n that Release gives back at the current clock.     *)
Due(n) == {j \in resv[n] : resvEnd[j] <= clock}

AtMost(x, y) == IF x <= y THEN x ELSE y

(* Release on every node.  Capping after each reservation, as the code     *)
(* does, gives the same as capping once, since no demand is negative.      *)
ReleaseAll ==
    /\ avail' = [n \in Nodes |-> [r \in Res |->
                    AtMost(avail[n][r] + Load[r][Due(n)], Capacity[n][r])]]
    /\ resv' = [n \in Nodes |-> resv[n] \ Due(n)]
    /\ UNCHANGED resvEnd

(* What NextReleaseAfter(clock) can answer, over all nodes.                *)
LaterEnds == {resvEnd[j] : j \in {i \in UNION {resv[n] : n \in Nodes} : resvEnd[i] > clock}}

-----------------------------------------------------------------------------
(* basesim.go: selectNode                                                  *)

Accepting(j) == {n \in Nodes : CanAccept(n, j)}

(* (Total-Available)/Total summed over both resources, as a fraction.      *)
UsedNum(n) == (Capacity[n]["cpu"] - avail[n]["cpu"]) * Capacity[n]["mem"]
              + (Capacity[n]["mem"] - avail[n]["mem"]) * Capacity[n]["cpu"]
UsedDen(n) == Capacity[n]["cpu"] * Capacity[n]["mem"]

LessUsed(m, n) == UsedNum(m) * UsedDen(n) < UsedNum(n) * UsedDen(m)

(* The fallback keeps the first accepting node with the least use.         *)
LeastLoaded(j) ==
    {n \in Accepting(j) : \A m \in Accepting(j) \ {n} :
        \/ LessUsed(n, m)
        \/ ~LessUsed(m, n) /\ NodeIndex[n] < NodeIndex[m]}

-----------------------------------------------------------------------------
(* basesim.go: AddWorkload, SetScheduleBatchSize and Run                   *)

Init ==
    /\ submit \in [Jobs -> SubmitTimes]
    /\ duration \in [Jobs -> Durations]
    /\ added = {}
    /\ batch = 1
    /\ pc = "build"
    /\ clock = 0
    /\ pending = <<>>
    /\ arrived = 0
    /\ queue = <<>>
    /\ cursor = 1
    /\ kept = 0
    /\ scheduled = 0
    /\ avail = Capacity
    /\ resv = [n \in Nodes |-> {}]
    /\ resvEnd = [j \in Jobs |-> 0]
    /\ log = <<>>
    /\ traces = <<>>

AddWorkload(j) ==
    /\ pc = "build"
    /\ j \notin added
    /\ added' = added \cup {j}
    /\ UNCHANGED <<submit, duration, batch, pc, clock, pending, arrived, queue,
                   cursor, kept, scheduled, ledger, outputs>>

(* Mutant: any batch size is taken.                                        *)
SetAnyBatchSize(n) ==
    /\ pc = "build"
    /\ batch' = n
    /\ UNCHANGED <<submit, duration, added, pc, clock, pending, arrived, queue,
                   cursor, kept, scheduled, ledger, outputs>>

SetScheduleBatchSize(n) ==
    /\ pc = "build"
    /\ n > 0
    /\ batch' = n
    /\ UNCHANGED <<submit, duration, added, pc, clock, pending, arrived, queue,
                   cursor, kept, scheduled, ledger, outputs>>

(* Every order sort.Slice may leave: it is not stable, so workloads        *)
(* submitted at the same time come in any order.                           *)
SortedOrders ==
    {p \in [1..Cardinality(added) -> added] :
        /\ \A x, y \in DOMAIN p : p[x] = p[y] => x = y
        /\ \A j \in added : \E x \in DOMAIN p : p[x] = j
        /\ \A x, y \in DOMAIN p : x < y => submit[p[x]] <= submit[p[y]]}

StartRun ==
    /\ pc = "build"
    /\ pending' \in SortedOrders
    /\ pc' = "top"
    /\ UNCHANGED <<submit, duration, added, batch, clock, arrived, queue,
                   cursor, kept, scheduled, ledger, outputs>>

Finished == arrived = Len(pending) /\ queue = <<>>

(* Mutant: an idle loop leaves the clock alone.                            *)
NeverAdvanceIdle ==
    /\ pc = "top"
    /\ ~Finished
    /\ pc' = "release"
    /\ UNCHANGED <<inputs, clock, arrived, queue, cursor, kept, scheduled, ledger, outputs>>

(* An idle loop jumps to the next submit time, if that is ahead.           *)
AdvanceIfIdle ==
    /\ pc = "top"
    /\ ~Finished
    /\ clock' = IF queue = <<>> /\ clock < submit[pending[arrived + 1]]
                THEN submit[pending[arrived + 1]]
                ELSE clock
    /\ pc' = "release"
    /\ UNCHANGED <<inputs, arrived, queue, cursor, kept, scheduled, ledger, outputs>>

EndRun ==
    /\ pc = "top"
    /\ Finished
    /\ pc' = "done"
    /\ UNCHANGED <<inputs, clock, arrived, queue, cursor, kept, scheduled, ledger, outputs>>

ReleaseNodes ==
    /\ pc = "release"
    /\ ReleaseAll
    /\ pc' = "arrive"
    /\ UNCHANGED <<inputs, clock, arrived, queue, cursor, kept, scheduled, outputs>>

(* pending is sorted, so the arrivals are the longest prefix of what is    *)
(* left whose submit times have come.  An empty queue starts a new round.  *)
Arrivals == {x \in arrived + 1 .. Len(pending) : submit[pending[x]] <= clock}

EnqueueArrivals ==
    /\ pc = "arrive"
    /\ queue' = queue \o SubSeq(pending, arrived + 1, arrived + Cardinality(Arrivals))
    /\ arrived' = arrived + Cardinality(Arrivals)
    /\ pc' = IF queue' = <<>> THEN "top" ELSE "scan"
    /\ cursor' = 1
    /\ kept' = 0
    /\ scheduled' = 0
    /\ UNCHANGED <<inputs, clock, ledger, outputs>>

Scanning == pc = "scan" /\ cursor <= Len(queue)

Place(n) ==
    LET j == queue[cursor] IN
    /\ Reserve(n, j)
    /\ log' = Append(log, [job |-> j, node |-> n, submit |-> submit[j],
                           start |-> clock, end |-> clock + duration[j]])
    /\ scheduled' = scheduled + 1
    /\ cursor' = cursor + 1
    /\ UNCHANGED <<inputs, pc, clock, arrived, queue, kept>>

(* Mutant: the decision is traced before the node is checked.              *)
TraceBeforeCheck(n) ==
    /\ Scanning
    /\ scheduled < batch
    /\ LeastLoaded(queue[cursor]) # {}
    /\ Place(IF CanAccept(n, queue[cursor]) THEN n
             ELSE CHOOSE m \in LeastLoaded(queue[cursor]) : TRUE)
    /\ traces' = Append(traces, [job |-> queue[cursor], node |-> n, at |-> clock])

(* The policy names a node that can take the workload: it gets it, and the *)
(* decision is traced.                                                     *)
PlaceByPolicy(n) ==
    /\ Scanning
    /\ scheduled < batch
    /\ CanAccept(n, queue[cursor])
    /\ Place(n)
    /\ traces' = Append(traces, [job |-> queue[cursor], node |-> n, at |-> clock])

(* No policy, no answer from it, or a node that cannot take the workload.  *)
PlaceByFallback(n) ==
    /\ Scanning
    /\ scheduled < batch
    /\ n \in LeastLoaded(queue[cursor])
    /\ Place(n)
    /\ UNCHANGED traces

(* Mutant: a workload one node cannot take is given up for the round.      *)
KeepUnlessAllAccept ==
    /\ Scanning
    /\ scheduled >= batch \/ Accepting(queue[cursor]) # Nodes
    /\ queue' = [queue EXCEPT ![kept + 1] = queue[cursor]]
    /\ kept' = kept + 1
    /\ cursor' = cursor + 1
    /\ UNCHANGED <<inputs, pc, clock, arrived, scheduled, ledger, outputs>>

(* next = append(next, w), into the array that is being ranged over.       *)
Keep ==
    /\ Scanning
    /\ scheduled >= batch \/ Accepting(queue[cursor]) = {}
    /\ queue' = [queue EXCEPT ![kept + 1] = queue[cursor]]
    /\ kept' = kept + 1
    /\ cursor' = cursor + 1
    /\ UNCHANGED <<inputs, pc, clock, arrived, scheduled, ledger, outputs>>

(* Mutant: the round ends without queue = next.                            *)
EndScanUnfiltered ==
    /\ pc = "scan"
    /\ cursor > Len(queue)
    /\ pc' = "advance"
    /\ UNCHANGED <<inputs, clock, arrived, queue, cursor, kept, scheduled, ledger, outputs>>

EndScan ==
    /\ pc = "scan"
    /\ cursor > Len(queue)
    /\ queue' = SubSeq(queue, 1, kept)
    /\ pc' = "advance"
    /\ UNCHANGED <<inputs, clock, arrived, cursor, kept, scheduled, ledger, outputs>>

(* The clock moves to the earliest reservation end, or by one second when  *)
(* nothing is reserved.  A workload no node can ever take keeps the loop   *)
(* going for good, a second at a time: MaxClock bounds that.               *)
AdvanceClock ==
    /\ pc = "advance"
    /\ clock < MaxClock
    /\ IF LaterEnds = {}
       THEN clock' = clock + 1
       ELSE clock' \in LaterEnds /\ \A t \in LaterEnds : clock' <= t
    /\ pc' = "top"
    /\ UNCHANGED <<inputs, arrived, queue, cursor, kept, scheduled, ledger, outputs>>

(* Run has returned.                                                       *)
Done == pc = "done" /\ UNCHANGED vars

Step ==
    \/ AdvanceIfIdle
    \/ EndRun
    \/ ReleaseNodes
    \/ EnqueueArrivals
    \/ \E n \in Nodes : PlaceByPolicy(n) \/ PlaceByFallback(n)
    \/ Keep
    \/ EndScan
    \/ AdvanceClock

Next ==
    \/ \E j \in Jobs : AddWorkload(j)
    \/ \E n \in BatchSizes : SetScheduleBatchSize(n)
    \/ StartRun
    \/ Step
    \/ Done

Spec == Init /\ [][Next]_vars

(* Run is a plain loop on one goroutine: once called it keeps stepping.    *)
FairSpec == Spec /\ WF_vars(Step)

-----------------------------------------------------------------------------
(* Properties                                                              *)

Placed == {log[x].job : x \in DOMAIN log}

LogEntry == [job : Jobs, node : Nodes, submit : Nat, start : Nat, end : Nat]

DecisionTrace == [job : Jobs, node : Nodes, at : Nat]

TypeOK ==
    /\ submit \in [Jobs -> SubmitTimes]
    /\ duration \in [Jobs -> Durations]
    /\ added \subseteq Jobs
    /\ batch \in Nat \ {0}
    /\ pc \in {"build", "top", "release", "arrive", "scan", "advance", "done"}
    /\ clock \in Nat
    /\ pending \in Seq(Jobs)
    /\ arrived \in 0..Len(pending)
    /\ queue \in Seq(Jobs)
    /\ cursor \in Nat \ {0}
    /\ kept \in Nat
    /\ scheduled \in Nat
    /\ avail \in [Nodes -> [Res -> Int]]
    /\ resv \in [Nodes -> SUBSET Jobs]
    /\ resvEnd \in [Jobs -> Nat]
    /\ log \in Seq(LogEntry)
    /\ traces \in Seq(DecisionTrace)

(* A node's free resources are its total less what its reservations hold,  *)
(* and never negative: Reserve and Release balance, and the cap in Release *)
(* never hides a double release.                                           *)
Conservation ==
    \A n \in Nodes, r \in Res :
        /\ avail[n][r] = Capacity[n][r] - Load[r][resv[n]]
        /\ avail[n][r] >= 0

(* The positions of the queue that hold a workload: while a round runs,    *)
(* those already moved to the front and those not read yet.                *)
LivePositions == IF pc = "scan" THEN (1..kept) \cup (cursor..Len(queue))
                                ELSE 1..Len(queue)

Queued == {queue[x] : x \in LivePositions}

Future == {pending[x] : x \in arrived + 1 .. Len(pending)}

(* No workload is lost or run twice, although the queue is filtered in     *)
(* place while it is read: each one added is yet to arrive, queued, or in  *)
(* the log, and once only.                                                 *)
ExactlyOnce ==
    pc # "build" =>
        /\ added = Future \cup Queued \cup Placed
        /\ Future \cap Queued = {} /\ Future \cap Placed = {} /\ Queued \cap Placed = {}
        /\ \A x, y \in LivePositions : queue[x] = queue[y] => x = y
        /\ \A x, y \in DOMAIN log : log[x].job = log[y].job => x = y

(* The workloads the log has on n at time t.                               *)
ActiveAt(n, t) ==
    {log[x].job : x \in {y \in DOMAIN log :
        log[y].node = n /\ log[y].start <= t /\ t < log[y].end}}

(* The log, which every figure is computed from, is a feasible schedule:   *)
(* no node is ever over its capacity, no workload starts before it was     *)
(* submitted, and none that requires a GPU runs without one.               *)
LogFeasible ==
    \A x \in DOMAIN log :
        /\ \A r \in Res : Load[r][ActiveAt(log[x].node, log[x].start)] <= Capacity[log[x].node][r]
        /\ log[x].start >= submit[log[x].job]
        /\ log[x].job \in NeedsGpu => log[x].node \in GpuNodes

(* While workloads are placed, a node holds exactly the workloads the log  *)
(* has running on it (with those just placed that take no time).           *)
LedgerMatchesLog ==
    pc = "scan" =>
        \A n \in Nodes : resv[n] = {log[x].job : x \in {y \in DOMAIN log :
            log[y].node = n /\ (log[y].end > clock \/ log[y].start = clock)}}

(* A round that ends short of its batch size leaves in the queue only      *)
(* workloads no node can take: scanning in order and never looking back    *)
(* misses nothing.                                                         *)
GreedyRound ==
    pc = "advance" /\ scheduled < batch =>
        \A x \in 1..Len(queue) : Accepting(queue[x]) = {}

(* Every trace is of a placement in the log, on the same node at the same  *)
(* time, and no workload has two.                                          *)
TracesMatchLog ==
    /\ \A x \in DOMAIN traces : \E y \in DOMAIN log :
          /\ log[y].job = traces[x].job
          /\ log[y].node = traces[x].node
          /\ log[y].start = traces[x].at
    /\ \A x, y \in DOMAIN traces : traces[x].job = traces[y].job => x = y

(* "advance time to next submit if idle" (basesim.go:60): with nothing     *)
(* queued the clock does not pass the next submit time.                    *)
IdleStopsAtSubmit ==
    [][queue = <<>> /\ arrived < Len(pending) /\ clock <= submit[pending[arrived + 1]]
          => clock' <= submit[pending'[arrived + 1]]]_vars

Feasible(j) == \E n \in Nodes :
    /\ \A r \in Res : Demand[j][r] <= Capacity[n][r]
    /\ j \in NeedsGpu => n \in GpuNodes

(* Run returns, when every workload fits some empty node.                  *)
RunReturns == (pc = "top" /\ \A j \in added : Feasible(j)) ~> pc = "done"

(* The loop implements the schedule it promises.                           *)
Schedule == INSTANCE JobSchedule WITH
    now      <- clock,
    waiting  <- Queued,
    running  <- resv,
    endsAt   <- resvEnd,
    finished <- Placed \ UNION {resv[n] : n \in Nodes}

ImplementsSchedule == Schedule!Spec
=============================================================================
