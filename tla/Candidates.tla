------------------------------ MODULE Candidates ------------------------------
(***************************************************************************)
(* What the policies measure on each node before they score it, inside the *)
(* simulator's loop: policies/internal/candidate/candidate.go (keids,      *)
(* topsis), policies/ecokube/ecokube.go and carbonscaler.go, over the      *)
(* carbon model of hetsched/pkg/metrics/cicost.go.                         *)
(*                                                                         *)
(* The module adds no state to BaseSim: a policy looks at the nodes at the *)
(* step that places the workload at the cursor.  It takes the submit time  *)
(* of the workload for "now" (basesim.go:163), the time that all operators *)
(* below have as a parameter.  Signals are integers: times in 9 s units,   *)
(* queue signals in hundredths of one, runtimes in thousandths.            *)
(***************************************************************************)
EXTENDS BaseSim, CarbonModel

CONSTANTS
    NodeInfo,       \* NodeInfo[n]: site, profile, power and labels of node n
    JobInfo,        \* JobInfo[j]: labels of workload j
    PenaltyRoot,    \* PenaltyRoot[d]: square root of a runtime of d
    DefaultRuntime  \* a minute, the runtime of a workload without one

ASSUME PenaltyAssumption ==
    /\ DefaultRuntime \in Nat \ {0}
    /\ PenaltyRoot \in [Durations \cup {DefaultRuntime} -> Nat \ {0}]

ASSUME InfoAssumption == \A n \in Nodes : Described(NodeInfo[n])

-----------------------------------------------------------------------------
(* Classes: core.NormaliseClass and the first of the hints that has one.   *)

NormaliseClass(v) ==
    CASE v \in {"cpu", "general", "standard", "compute"} -> "cpu"
      [] v \in {"gpu", "accelerator"} -> "gpu"
      [] v \in {"mem", "memory", "memory-optimized", "memory_optimized"} -> "mem"
      [] OTHER -> ""

FirstClass(hints) ==
    LET known == SelectSeq(hints, LAMBDA h : NormaliseClass(h) # "")
    IN  IF known = <<>> THEN "" ELSE NormaliseClass(known[1])

GpuHint(b) == IF b THEN "gpu" ELSE ""

JobClass(j) ==
    FirstClass(<<JobInfo[j].class, JobInfo[j].classLabel, JobInfo[j].resourceClass,
                 GpuHint(j \in NeedsGpu)>>)
NodeClass(n) ==
    FirstClass(<<NodeInfo[n].deviceClass, NodeInfo[n].deviceLabel,
                 NodeInfo[n].resourceClass, GpuHint(n \in GpuNodes)>>)

(* deviceFitScore in tenths.                                               *)
DeviceFit(j, n) ==
    CASE JobClass(j) = "" \/ NodeClass(n) = "" -> 5
      [] JobClass(j) # "" /\ JobClass(j) = NodeClass(n) -> 10
      [] JobClass(j) = "cpu" /\ NodeClass(n) \in {"gpu", "mem"} -> 7
      [] OTHER -> 3

-----------------------------------------------------------------------------
(* Signals of node n for workload j at time now                            *)

Runtime(j) == IF duration[j] > 0 THEN duration[j] ELSE DefaultRuntime

(* queueSeconds: until the next reservation of n ends.                     *)
Wait(n, now) ==
    LET ends == {resvEnd[i] : i \in {k \in resv[n] : resvEnd[k] > now}}
    IN  IF ends = {} THEN 0 ELSE Min(ends) - now

(* What is in use of the scarcer resource, in quarters of the total.       *)
Utilisation(n) ==
    Max({4 - Within((4 * avail[n][r]) \div Capacity[n][r], 0, 4) : r \in Res})

(* interferencePenalty: 1.8 * utilisation * sqrt(runtime), and 1.2 times   *)
(* as much on a noisy node.                                                *)
Interference(j, n) ==
    (IF NodeInfo[n].noisy THEN 18 ELSE 15) * Utilisation(n) * PenaltyRoot[Runtime(j)]

(* dataMovementHint: whether the workload would leave its preferred site.  *)
Move(j, n) ==
    IF JobInfo[j].prefers # "" /\ NodeInfo[n].hasSite
       /\ NodeInfo[n].site.id # JobInfo[j].prefers THEN 1 ELSE 0

(* fitBonus in thousandths.                                                *)
FitBonus(j, n) ==
    LET alike == \/ j \in NeedsGpu /\ n \in GpuNodes
                 \/ JobInfo[j].resourceClass # ""
                    /\ JobInfo[j].resourceClass = NodeInfo[n].resourceClass
                 \/ JobInfo[j].nodeType # "" /\ JobInfo[j].nodeType = NodeInfo[n].nodeType
        atHome == JobInfo[j].prefers # "" /\ NodeInfo[n].hasSite /\ Move(j, n) = 0
    IN  IF alike THEN 80 ELSE IF atHome THEN 48 ELSE 0

EcoMetrics(j, n, now) ==
    [co2     |-> Carbon(NodeInfo[n], Demand[j]["cpu"], Runtime(j), now),
     energy  |-> Energy(NodeInfo[n], Demand[j]["cpu"], Runtime(j)),
     runtime |-> Runtime(j) * (1000 - FitBonus(j, n)),
     queue   |-> 100 * Wait(n, now) + Interference(j, n),
     move    |-> Move(j, n),
     fit     |-> DeviceFit(j, n)]

(* candidate.Gather.                                                       *)
Gather(j, n, now) ==
    [carbon  |-> Carbon(NodeInfo[n], Demand[j]["cpu"], Runtime(j), now),
     runtime |-> Runtime(j),
     queue   |-> Wait(n, now)]

(* The carbon and queue of carbonscaler; what it computes as the marginal  *)
(* throughput of a node goes into no score.                                *)
ScalerMetrics(j, n, now) ==
    LET cost == Carbon(NodeInfo[n], Demand[j]["cpu"], duration[j], now)
        ci == EstimateCarbonIntensity(NodeInfo[n], now)
    IN  [carbon |-> IF cost > 0 THEN cost ELSE IF ci > 0 THEN ci ELSE 1,
         queue  |-> Wait(n, now)]

-----------------------------------------------------------------------------
(* The workload a policy is asked about.                                   *)
Asked == queue[cursor]
Asking == Scanning /\ scheduled < batch

(* The nodes where a workload of no length was placed at this instant: it  *)
(* holds its share until the clock goes on, although it is over.           *)
Instant == {log[x].node : x \in {y \in DOMAIN log : log[y].start = clock /\ log[y].end = clock}}

(* Although the wait is counted from the submit time, it sorts the nodes   *)
(* as the wait from now does (basesim.go:163 with candidate.go:116):       *)
(* nothing that ended between the two is left on a node, save what was     *)
(* placed in this round and takes no time.                                 *)
WaitOrderIsCurrent ==
    Asking => \A m, n \in Nodes \ Instant :
        Wait(m, submit[Asked]) <= Wait(n, submit[Asked]) <=> Wait(m, clock) <= Wait(n, clock)

(* The queue signal of ecokube is that of an idle node exactly when        *)
(* nothing runs there at the clock: neither a reservation that ended nor   *)
(* a ledger that was not given back counts (ecokube.go:360, :414).         *)
QueueSignalIsLoad ==
    Asking => \A n \in Nodes \ Instant :
        EcoMetrics(Asked, n, submit[Asked]).queue = 0 <=>
            ~\E x \in DOMAIN log : log[x].node = n /\ log[x].end > clock

(* No node is said to draw no power when it idles.                         *)
NodesDrawPower == \A n \in Nodes : PeakPower(NodeInfo[n]) > 0 /\ IdlePercent(NodeInfo[n]) > 0

(* No placement is logged as free of carbon, whatever a profile says: a    *)
(* sine below zero, an argument that does not parse, a site of unknown     *)
(* intensity (cicost.go:48).                                               *)
CarbonIsCounted ==
    \A x \in DOMAIN log :
        LET n == NodeInfo[log[x].node]
        IN  Carbon(n, Demand[log[x].job]["cpu"], duration[log[x].job], log[x].start) > 0

(* Every lookup made at this time gives the sample of the trace that its   *)
(* hour calls for, across missing hours and rows that do not parse, before *)
(* the first sample and after the last (cicost.go:217, :241).              *)
LookupIsExpected ==
    Asking => \A k \in DOMAIN File, i \in 0 .. CISmoothWindow :
        Lookup(k, clock - i * SmoothStep) = SampleOf(k, clock - i * SmoothStep)
=============================================================================
