------------------------------ MODULE PolicyRun ------------------------------
(***************************************************************************)
(* One simulation of run_sim.go: the simulator's loop with a policy, and   *)
(* the row of its log.  BaseSim leaves the policy's answer open; here it   *)
(* is what a policy of Policies selects from the signals of Candidates.    *)
(* Every workload may be placed by another kind of policy, which covers    *)
(* the runs of each.                                                       *)
(***************************************************************************)
EXTENDS Candidates, Policies, Summary

CONSTANTS
    Kind,      \* kinds of policy
    Weights,   \* their configuration
    NameIndex, \* NameIndex[n]: place of n's name in the alphabet
    Warmups    \* values of -warmup-min

ASSUME NameAssumption ==
    /\ NameIndex \in [Nodes -> Nat]
    /\ \A m, n \in Nodes : NameIndex[m] = NameIndex[n] => m = n
    /\ NoNode \notin {NameIndex[n] : n \in Nodes}

(* NodeIndex is the position in BaseSim.Nodes, a slice.                    *)
ASSUME PositionAssumption ==
    /\ IsFiniteSet(Nodes)
    /\ {NodeIndex[n] : n \in Nodes} = 0 .. Cardinality(Nodes) - 1

ASSUME PolicyAssumption == Kind \subseteq Kinds /\ Weights \in Configurations

VARIABLE summary  \* the row of the run and the warm-up window it is for

runVars == <<summary, vars>>

NoSummary == [rows |-> <<>>, warmup |-> 0]

NodeAt(i) == CHOOSE n \in Nodes : NodeIndex[n] = i - 1

(* The signals that a policy of kind k reads on node n for workload j.     *)
SignalsOn(k, j, n) ==
    CASE k \in Weighing \cup {"eco-epsilon-constraint"} ->
            EcoMetrics(j, n, submit[j])
      [] k \in {"keids", "topsis"} ->
            LET g == Gather(j, n, submit[j])
            IN  [co2 |-> g.carbon, runtime |-> g.runtime, queue |-> g.queue]
      [] k = "carbonscaler" ->
            LET s == ScalerMetrics(j, n, submit[j])
            IN  [co2 |-> s.carbon, queue |-> s.queue]
      [] k = "k8s" -> [used |-> (Scale * UsedNum(n)) \div UsedDen(n)]

(* Mutant: a node that lacks only the GPU is taken for feasible.           *)
ItemsIgnoringGpu(k, j) ==
    [i \in 1..Cardinality(Nodes) |->
        LET n == NodeAt(i)
            fits == \A r \in Res : avail[n][r] >= Demand[j][r]
        IN  Item(NameIndex[n], fits, IF fits THEN SignalsOn(k, j, n) ELSE [used |-> 0])]

(* The view by value that selectNode hands to the policy.                  *)
Items(k, j) ==
    [i \in 1..Cardinality(Nodes) |->
        LET n == NodeAt(i)
        IN  Item(NameIndex[n], CanAccept(n, j),
                 IF CanAccept(n, j) THEN SignalsOn(k, j, n) ELSE [used |-> 0])]

(* The node the answer names, if it can take the workload.                 *)
Answers(k, j) == {n \in Accepting(j) : NameIndex[n] = Selected(k, Items(k, j), Weights)}

(* selectNode: the policy's node, else the fallback.                       *)
Decides(k) ==
    LET placed == log'[Len(log')] IN
    IF Answers(k, placed.job) = {} THEN traces' = traces
    ELSE placed.node \in Answers(k, placed.job) /\ traces' # traces

PolicyStep ==
    /\ Step
    /\ log' # log => \E k \in Kind : Decides(k)
    /\ UNCHANGED summary

Prepare ==
    /\ (\E j \in Jobs : AddWorkload(j)) \/ (\E n \in BatchSizes : SetScheduleBatchSize(n)) \/ StartRun
    /\ UNCHANGED summary

(* sim.Logs(), with the carbon cost of every run.                          *)
Entry(e) ==
    [start |-> e.start, end |-> e.end, wait |-> e.start - e.submit,
     cpu |-> Demand[e.job]["cpu"],
     cost |-> Carbon(NodeInfo[e.node], Demand[e.job]["cpu"], duration[e.job], e.start)]

SimLog == [i \in DOMAIN log |-> Entry(log[i])]

Summarise ==
    /\ pc = "done"
    /\ summary = NoSummary
    /\ \E w \in Warmups :
          summary' = [rows |-> <<RowOf(Effective(SimLog, w))>>, warmup |-> w]
    /\ UNCHANGED vars

RunInit == Init /\ summary = NoSummary

RunNext ==
    \/ Prepare
    \/ PolicyStep
    \/ Summarise
    \/ summary # NoSummary /\ UNCHANGED runVars

RunSpec == RunInit /\ [][RunNext]_runVars

-----------------------------------------------------------------------------
(* A workload that some node can take is placed by the policy: what a      *)
(* policy calls feasible on its copy of the nodes (with the labels of the  *)
(* workload, basesim.go:164) is what the loop accepts, so every placement  *)
(* has its decision trace and none is the silent fallback's.               *)
PolicyPlacesAll == Len(traces) = Len(log)

Summarised == summary # NoSummary
row == summary.rows[1]
Counted == Effective(SimLog, summary.warmup)

(* cfp_g_per_cpu_hour lies between the carbon per CPU time of the best and *)
(* the worst job counted: carbon and CPU time are those of the same jobs,  *)
(* whatever the warm-up left out (run_sim.go:926).                         *)
CfpBetweenJobs ==
    Summarised /\ Counted # <<>> =>
        LET Rate(i) == Counted[i].cost * row.cfp.cpuTime
            Whole(i) == row.cfp.cost * CpuTime(Counted[i])
        IN  /\ \E i \in DOMAIN Counted : Rate(i) <= Whole(i)
            /\ \E i \in DOMAIN Counted : Rate(i) >= Whole(i)
=============================================================================
