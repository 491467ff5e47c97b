----------------------------- MODULE Dispatcher -----------------------------
(***************************************************************************)
(* The testbed dispatcher (hetsched/pkg/core/CentralUnit.go,               *)
(* SchedulingStrategy.go, RemoteCluster.go, SimulatedCluster.go): every    *)
(* strategy in turn asks the clusters, one after the other, whether they   *)
(* accept a workload, and submits it to one of them.                       *)
(*                                                                         *)
(* A remote cluster is asked over HTTP and each question is a step of its  *)
(* own, answered with any CPU usage or with an error.  A submission may be *)
(* refused, be lost, or arrive with its answer lost.  The HTTP calls have  *)
(* no timeout: that they return is an assumption about the clusters.       *)
(***************************************************************************)
EXTENDS Integers, Sequences, FiniteSets, SequencesExt

CONSTANTS
    Clusters,    \* CentralUnit.Clusters, a sequence of names
    Remotes,     \* those that are RemoteClusters, the others are simulated
    CpuOf,       \* CpuOf[w]: CPURequirement
    MaxCPU,      \* MaxCPU[c] of a simulated cluster
    EnergyBias,  \* EnergyBias[c] of a simulated cluster
    Runs,        \* what the dispatcher may be started with: strategies and workloads
    Usages,      \* CPU usages in percent that a remote cluster may answer
    Error,       \* no answer, or none with the metric
    None         \* no cluster

ASSUME ClusterAssumption ==
    /\ Clusters \in Seq(ToSet(Clusters)) /\ IsInjective(Clusters)
    /\ Remotes \subseteq ToSet(Clusters)
    /\ None \notin ToSet(Clusters)
    /\ \A r \in Runs :
          /\ r.strategies \in Seq(ToSet(r.strategies)) /\ r.strategies # <<>>
          /\ r.workloads \in Seq(ToSet(r.workloads)) /\ r.workloads # <<>>
          /\ IsInjective(r.workloads)
          /\ \A w \in ToSet(r.workloads) : CpuOf[w] \in Nat
    /\ {MaxCPU, EnergyBias} \subseteq [ToSet(Clusters) \ Remotes -> Nat]
    /\ Usages \subseteq 0..100
    /\ Error \notin Usages

VARIABLES
    run,        \* the strategies, in their order, and the workloads, in theirs
    strategy,   \* position of the strategy that runs
    workload,   \* position of the workload it places
    pc,         \* "scan", "metric", "submit" or "done"
    asked,      \* clusters asked so far for this workload
    offers,     \* those of them that accepted
    best,       \* best and its cost or score so far
    bestCost,
    counter,    \* RoundRobin.counter
    decisions,  \* decisionLog
    received    \* received[c]: the submissions that reached cluster c

vars == <<run, strategy, workload, pc, asked, offers, best, bestCost, counter, decisions, received>>

N == Len(Clusters)
Strategies == run.strategies
Workloads == run.workloads
Running == Strategies[strategy]
W == Workloads[workload]

Init ==
    /\ run \in Runs
    /\ strategy = 1
    /\ workload = 1
    /\ pc = "scan"
    /\ asked = 0
    /\ offers = {}
    /\ best = None
    /\ bestCost = None
    /\ counter = 0
    /\ decisions = <<>>
    /\ received = [c \in ToSet(Clusters) |-> <<>>]

(* The cluster that is asked next: RoundRobin starts at its counter.       *)
Asking == Clusters[((IF Running = "RoundRobin" THEN counter + asked ELSE asked) % N) + 1]

(* CanAccept: a remote cluster below 90 percent, a simulated one that is   *)
(* large enough.                                                           *)
Accepts(c, usage) == IF c \in Remotes THEN usage # Error /\ usage < 90
                     ELSE CpuOf[W] <= MaxCPU[c]

EstimateEnergyCost(c) == IF c \in Remotes THEN CpuOf[W] ELSE CpuOf[W] * EnergyBias[c]

(* Mutant: of equal costs the last is kept.                                *)
BetterOrEqual(cost) ==
    \/ best = None
    \/ IF Running = "MaxMin" THEN cost >= bestCost ELSE cost <= bestCost

(* Whether a cluster of this cost replaces the best one.                   *)
Better(cost) ==
    \/ best = None
    \/ IF Running = "MaxMin" THEN cost > bestCost ELSE cost < bestCost

TakesFirst == Running \in {"FCFS", "RoundRobin"}

(* One cluster is asked; FCFS and RoundRobin take the first that accepts,  *)
(* CIaware asks a remote cluster again, for its utilisation, and passes    *)
(* over the others.                                                        *)
Ask ==
    /\ pc = "scan"
    /\ asked < N
    /\ \E usage \in IF Asking \in Remotes THEN Usages \cup {Error} ELSE {Error} :
          LET c == Asking
              accepted == Accepts(c, usage)
              keep == accepted /\ (TakesFirst \/ Better(EstimateEnergyCost(c)))
          IN  /\ offers' = IF accepted THEN offers \cup {c} ELSE offers
              /\ IF Running = "CIaware"
                 THEN /\ pc' = IF accepted /\ c \in Remotes THEN "metric" ELSE "scan"
                      /\ UNCHANGED <<best, bestCost>>
                 ELSE /\ best' = IF keep THEN c ELSE best
                      /\ bestCost' = IF keep THEN EstimateEnergyCost(c) ELSE bestCost
                      /\ pc' = IF TakesFirst /\ accepted THEN "submit" ELSE "scan"
    /\ asked' = asked + 1
    /\ UNCHANGED <<run, strategy, workload, counter, decisions, received>>

Asked == Clusters[asked]

(* The score falls as the utilisation rises, the rest of it is constant;   *)
(* a utilisation of zero counts as one percent.                            *)
Score(usage) == 100 - (IF usage <= 0 THEN 1 ELSE usage)

AskUtilisation ==
    /\ pc = "metric"
    /\ \E usage \in Usages \cup {Error} :
          LET keep == usage # Error /\ (best = None \/ Score(usage) < bestCost)
          IN  /\ best' = IF keep THEN Asked ELSE best
              /\ bestCost' = IF keep THEN Score(usage) ELSE bestCost
    /\ pc' = "scan"
    /\ UNCHANGED <<run, strategy, workload, asked, offers, counter, decisions, received>>

(* On to the next workload, or to the next strategy.                       *)
Advance ==
    /\ UNCHANGED run
    /\ workload' = IF workload < Len(Workloads) THEN workload + 1 ELSE 1
    /\ strategy' = IF workload < Len(Workloads) \/ strategy = Len(Strategies)
                   THEN strategy ELSE strategy + 1
    /\ pc' = IF workload = Len(Workloads) /\ strategy = Len(Strategies) THEN "done" ELSE "scan"
    /\ asked' = 0
    /\ offers' = {}
    /\ best' = None
    /\ bestCost' = None

(* All clusters were asked.                                                *)
EndScan ==
    /\ pc = "scan"
    /\ asked = N
    /\ best # None
    /\ pc' = "submit"
    /\ UNCHANGED <<run, strategy, workload, asked, offers, best, bestCost, counter, decisions, received>>

(* "No cluster can accept job": the workload is not placed.                *)
FailToPlace ==
    /\ pc = "scan"
    /\ asked = N
    /\ best = None
    /\ Advance
    /\ UNCHANGED <<counter, decisions, received>>

(* Mutants: a lost submission starts over; the counter stays; nothing is   *)
(* decided if the submission fails in spite of having arrived.             *)
SubmitRetries(arrives) ==
    /\ pc = "submit"
    /\ arrives \/ best \in Remotes
    /\ received' = IF arrives
                   THEN [received EXCEPT ![best] = Append(@, <<strategy, W>>)] ELSE received
    /\ decisions' = IF arrives
                    THEN Append(decisions, [strategy |-> strategy, workload |-> W, cluster |-> best])
                    ELSE decisions
    /\ UNCHANGED counter
    /\ IF arrives THEN Advance
       ELSE /\ pc' = "scan" /\ asked' = 0 /\ offers' = {} /\ best' = None /\ bestCost' = None
            /\ UNCHANGED <<run, strategy, workload>>

SubmitCounterStays(arrives) ==
    /\ pc = "submit"
    /\ arrives \/ best \in Remotes
    /\ received' = IF arrives
                   THEN [received EXCEPT ![best] = Append(@, <<strategy, W>>)] ELSE received
    /\ decisions' = Append(decisions, [strategy |-> strategy, workload |-> W, cluster |-> best])
    /\ UNCHANGED counter
    /\ Advance

SubmitUndecided(arrives) ==
    /\ pc = "submit"
    /\ arrives \/ best \in Remotes
    /\ received' = IF arrives
                   THEN [received EXCEPT ![best] = Append(@, <<strategy, W>>)] ELSE received
    /\ \E ok \in {TRUE, best \notin Remotes} :
          decisions' = IF ok THEN Append(decisions, [strategy |-> strategy, workload |-> W,
                                                     cluster |-> best])
                       ELSE decisions
    /\ counter' = IF Running = "RoundRobin" THEN (counter + 1) % N ELSE counter
    /\ Advance

(* The error of SubmitJob is ignored: the decision is logged whether the   *)
(* submission arrived or not.                                              *)
Submit(arrives) ==
    /\ pc = "submit"
    /\ arrives \/ best \in Remotes
    /\ received' = IF arrives
                   THEN [received EXCEPT ![best] = Append(@, <<strategy, W>>)] ELSE received
    /\ decisions' = Append(decisions, [strategy |-> strategy, workload |-> W, cluster |-> best])
    /\ counter' = IF Running = "RoundRobin" THEN (counter + 1) % N ELSE counter
    /\ Advance

Done == pc = "done" /\ UNCHANGED vars

Step == Ask \/ AskUtilisation \/ EndScan \/ FailToPlace \/ \E arrives \in BOOLEAN : Submit(arrives)

Next == Step \/ Done

(* The dispatcher is one goroutine; the HTTP calls it waits for return.    *)
Spec == Init /\ [][Next]_vars /\ WF_vars(Step)

-----------------------------------------------------------------------------
(* What a cluster receives was decided: a submission that was lost or      *)
(* refused is still in the log (CentralUnit.go:46), but none that arrived  *)
(* is missing from it, and a strategy submits a workload once only.        *)
ReceivedIsDecided ==
    \A c \in ToSet(Clusters) :
        /\ IsInjective(received[c])
        /\ \A x \in DOMAIN received[c] :
              [strategy |-> received[c][x][1], workload |-> received[c][x][2], cluster |-> c]
                  \in ToSet(decisions)
        /\ \A d \in ToSet(Clusters) \ {c} : ToSet(received[c]) \cap ToSet(received[d]) = {}

(* The placements of RoundRobin, and how many of them were before x.       *)
Rounds == {x \in DOMAIN decisions : Strategies[decisions[x].strategy] = "RoundRobin"}
Turn(x) == Cardinality({y \in Rounds : y < x})

(* Of any N placements in a row, one is on each cluster that would have    *)
(* accepted them all: although the counter moves by one from where it was  *)
(* and not from the cluster chosen (SchedulingStrategy.go:34), it comes    *)
(* past everyone, and workloads nobody takes leave it where it is.         *)
RoundRobinServesAll ==
    \A x, z \in Rounds : Turn(z) = Turn(x) + N - 1 =>
        LET row == {y \in Rounds : x <= y /\ y <= z}
        IN  \A c \in ToSet(Clusters) \ Remotes :
               (\A y \in row : CpuOf[decisions[y].workload] <= MaxCPU[c])
               => \E y \in row : decisions[y].cluster = c

Position(c) == CHOOSE i \in 1..N : Clusters[i] = c

(* The cluster chosen accepted this workload, and no cluster that did has  *)
(* a better cost, or the same and an earlier place.                        *)
ChoiceIsBest ==
    pc = "submit" =>
        /\ best \in offers
        /\ Running \in {"MinMin", "EnergyAware", "MaxMin"} =>
              \A c \in offers \ {best} :
                 LET gain == IF Running = "MaxMin"
                             THEN EstimateEnergyCost(best) - EstimateEnergyCost(c)
                             ELSE EstimateEnergyCost(c) - EstimateEnergyCost(best)
                 IN  gain > 0 \/ (gain = 0 /\ Position(best) < Position(c))

(* The dispatcher comes to the end of its workloads.                       *)
DispatchEnds == <>(pc = "done")
=============================================================================
