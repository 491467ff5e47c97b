------------------------------ MODULE Placement ------------------------------
(***************************************************************************)
(* How the controller decides on one pod (hetsched/controller/main.go:     *)
(* schedulePod, snapshot; scheduler.go; the gates of pkg/engine/engine.go) *)
(* while the cluster changes under it.  Controller has the pods, the queue *)
(* and the workers and leaves the decision open; here is the decision,     *)
(* with nodes that come and go between the list of the pods and the list   *)
(* of the nodes, the node cap, the three schedulers and their deferrals.   *)
(*                                                                         *)
(* A node is the place of its name in the alphabet.  Which of the nodes    *)
(* that fit ecokube or carbonscaler prefer is left open (see Policies).    *)
(***************************************************************************)
EXTENDS Integers, FiniteSets, Sequences, FiniteSetsExt, SequencesExt

CONSTANTS
    Nodes,       \* names of nodes, as numbers
    SiteKnown,   \* those with a site of sites.json
    Alloc,       \* Alloc[n][r]: allocatable
    CINorm,      \* CINorm[n]: cinormForNode in percent
    Pods,        \* pods of the namespace
    Job,         \* the pod to be placed
    Demand,      \* Demand[p][r]: podResources
    Load,        \* Load[r][S]: sum of Demand[p][r] over the pods p of S
    Length,      \* Length[p]: ciw/duration_req_s, or the minute that stands for it
    Slack,       \* SlackSeconds of Job
    Shift,       \* EstimatedDuration * shiftFrac of Job
    Threshold,   \* deferThresh in percent
    NodeCaps,    \* values of CIW_NODE_CAP, 0 for no cap
    Policies,    \* schedulers
    None         \* no node

Res == {"cpu", "mem"}

ASSUME NodesAssumption ==
    /\ Nodes \subseteq Nat /\ IsFiniteSet(Nodes)
    /\ SiteKnown \subseteq Nodes
    /\ Alloc \in [Nodes -> [Res -> Nat]]
    /\ CINorm \in [Nodes -> 0..100]

ASSUME JobAssumption ==
    /\ IsFiniteSet(Pods) /\ Job \in Pods
    /\ Demand \in [Pods -> [Res -> Nat]]
    /\ Length \in [Pods -> Nat \ {0}]
    /\ {Slack, Shift, Threshold} \cup NodeCaps \subseteq Nat

ASSUME NoneAssumption == None \notin Nodes

(* Load is the sum of demands: this determines it on finite sets of pods.  *)
ASSUME LoadAssumption ==
    /\ Load \in [Res -> [SUBSET Pods -> Nat]]
    /\ \A r \in Res, p \in Pods : Load[r][{p}] = Demand[p][r]
    /\ \A r \in Res : \A S, T, U \in SUBSET Pods :
          S \cup T = U /\ S \cap T = {} => Load[r][U] = Load[r][S] + Load[r][T]

VARIABLES
    policy,   \* SCHEDULER_POLICY
    nodeCap,  \* Controller.nodeCap
    remote,   \* Job carries the label remote_data=true (only k8sScheduler cares)
    cluster,  \* nodes that exist
    pods,     \* pods[p]: its node, if its start was reported, its age, if it lasts
    at,       \* what the worker is at
    listed,   \* the pods as they were listed
    known,    \* history: the nodes listed
    views,    \* the names of the views, in their order
    outcome,  \* the decision on Job
    wait,     \* seconds left of the deferral
    fresh     \* history: pods bound since the pods were listed

settings == <<policy, nodeCap, remote>>
world == <<policy, nodeCap, remote, cluster, pods>>
work == <<at, listed, known, views, outcome>>
vars == <<world, work, wait, fresh>>

NoOutcome == [what |-> "none", node |-> None]
Unbound == [p \in Pods |-> [node |-> None, started |-> FALSE, age |-> 0, lasts |-> TRUE]]

Init ==
    /\ policy \in Policies
    /\ nodeCap \in NodeCaps
    /\ remote \in {FALSE, policy = "k8s"}
    /\ cluster \in SUBSET Nodes
    /\ pods = Unbound
    /\ at = "idle"
    /\ listed = Unbound
    /\ known = {}
    /\ views = <<>>
    /\ outcome = NoOutcome
    /\ wait = 0
    /\ fresh = {}

-----------------------------------------------------------------------------
(* The cluster: nodes come and go; other pods are bound, start and end, and *)
(* new ones like them may come for ever.  Time is told by ages: a pod's is *)
(* counted from its start, or from its creation until that is reported, up *)
(* to its length, where its reservation is over; when it is over, no more. *)

Occupants(n) == {p \in Pods : pods[p].node = n /\ pods[p].lasts}
Running(p) == pods[p].node # None /\ pods[p].lasts

(* A second passes.                                                        *)
Tick ==
    /\ pods' = [p \in Pods |->
                  IF Running(p) THEN [pods[p] EXCEPT !.age = Min({@ + 1, Length[p]})]
                  ELSE pods[p]]
    /\ wait' = Max({0, wait - 1})
    /\ UNCHANGED <<settings, cluster, work, fresh>>

Join(n) == n \notin cluster /\ cluster' = cluster \cup {n}
           /\ UNCHANGED <<settings, pods, work, wait, fresh>>

Leave(n) == n \in cluster /\ cluster' = cluster \ {n}
            /\ UNCHANGED <<settings, pods, work, wait, fresh>>

(* Some time after its creation; p may be a new pod like one that is over.  *)
BindOther(p, n) ==
    /\ p # Job
    /\ n \in cluster
    /\ ~Running(p)
    /\ \E age \in 0..Length[p] :
          pods' = [pods EXCEPT ![p] =
                      [node |-> n, started |-> FALSE, age |-> age, lasts |-> TRUE]]
    /\ fresh' = fresh \cup {p}
    /\ UNCHANGED <<settings, cluster, work, wait>>

ReportStart(p) ==
    /\ p # Job
    /\ Running(p)
    /\ ~pods[p].started
    /\ pods' = [pods EXCEPT ![p] = [@ EXCEPT !.started = TRUE, !.age = 0]]
    /\ UNCHANGED <<settings, cluster, work, wait, fresh>>

End(p) ==
    /\ Running(p)
    /\ pods[p].started
    /\ pods' = [pods EXCEPT ![p] = [@ EXCEPT !.lasts = FALSE, !.age = 0]]
    /\ UNCHANGED <<settings, cluster, work, wait, fresh>>

-----------------------------------------------------------------------------
(* snapshot                                                                *)

ListPods ==
    /\ at = "idle"
    /\ listed' = pods
    /\ fresh' = {}
    /\ at' = "nodes"
    /\ UNCHANGED <<world, known, views, outcome, wait>>

(* Mutant: pods count once they have started.                              *)
CountedStarted(n) ==
    {p \in Pods : listed[p].node = n /\ listed[p].lasts /\ listed[p].started}

(* The pods that count on node n: bound to it, not over, asking something. *)
Counted(n) ==
    {p \in Pods : /\ listed[p].node = n
                  /\ listed[p].lasts
                  /\ \E r \in Res : Demand[p][r] > 0}

Free(n, r) == Max({0, Alloc[n][r] - Load[r][Counted(n)]})

(* Until the end of the reservation of pod p.                              *)
Remaining(p) == Length[p] - listed[p].age

(* Mutant: with any reservation at all it is a second at least.            *)
QueueAtLeastOne(n) ==
    IF Counted(n) = {} THEN 0
    ELSE Max({1, Min({Remaining(p) : p \in Counted(n)})})

(* queueSecondsForNode: until the next reservation ends.                   *)
QueueSeconds(n) ==
    LET ahead == {s \in {Remaining(p) : p \in Counted(n)} : s > 0}
    IN  IF ahead = {} THEN 0 ELSE Min(ahead)

(* The orders that the views of the nodes N can be in: that of the list of *)
(* the API server, any; or, when the cap cuts them, the first by name.     *)
Listings(N) ==
    IF nodeCap = 0 \/ Cardinality(N) <= nodeCap
    THEN {s \in [1..Cardinality(N) -> N] : \A n \in N : \E i \in DOMAIN s : s[i] = n}
    ELSE {s \in [1..nodeCap -> N] : \A i \in DOMAIN s : Cardinality({m \in N : m < s[i]}) = i - 1}

(* Mutant: the cap counts nodes that are left out.                         *)
ViewsCappedFirst(N) == {SelectSeq(s, LAMBDA n : n \in SiteKnown) : s \in Listings(N)}

(* Nodes of unknown sites are left out.                                    *)
Views(N) == Listings(N \cap SiteKnown)

ListNodes ==
    /\ at = "nodes"
    /\ views' \in Views(cluster)
    /\ known' = cluster
    /\ at' = "schedule"
    /\ UNCHANGED <<world, listed, outcome, wait, fresh>>

-----------------------------------------------------------------------------
(* The schedulers                                                          *)

(* The nodes that are feasible for the policies: jobToCore hands on no     *)
(* labels, so GPUs are not looked at.                                      *)
Feasible == {n \in ToSet(views) : \A r \in Res : Free(n, r) >= Demand[Job][r]}

(* engine.ScoreNodes: of those, none for a pod with remote data.           *)
Evaluated == IF remote THEN {} ELSE Feasible

(* neutraliseSnapshot: every scheduler but ecokube sees one half.          *)
SeenCINorm(n) == IF policy = "ecokube" THEN CINorm[n] ELSE 50

MaxDefer == IF Slack > 0 THEN Slack ELSE Shift

Defers(n) ==
    /\ policy = "carbonscaler"
    /\ QueueSeconds(n) > 0
    /\ QueueSeconds(n) <= MaxDefer
    /\ SeenCINorm(n) >= Threshold

(* k8sScheduler: the first of the evaluated nodes with the shortest queue. *)
ShortestQueue ==
    LET best == Min({QueueSeconds(n) : n \in Evaluated})
    IN  views[Min({i \in DOMAIN views : views[i] \in Evaluated /\ QueueSeconds(views[i]) = best})]

(* What the scheduler may answer.                                          *)
Answers ==
    IF policy # "k8s" THEN Feasible
    ELSE IF Evaluated = {} THEN {} ELSE {ShortestQueue}

Choose ==
    /\ at = "schedule"
    /\ \E n \in Answers :
          IF Defers(n)
          THEN /\ outcome' = [what |-> "deferred", node |-> n]
               /\ at' = "retry"
               /\ wait' = QueueSeconds(n)
          ELSE /\ outcome' = [what |-> "chosen", node |-> n]
               /\ at' = "bind"
               /\ UNCHANGED wait
    /\ UNCHANGED <<world, listed, known, views, fresh>>

(* "no_nodes", "no_candidate" or, when the policy answered the empty name, *)
(* "selected_node_missing".                                                *)
GiveUp ==
    /\ at = "schedule"
    /\ Answers = {}
    /\ outcome' = [NoOutcome EXCEPT !.what = "rejected"]
    /\ at' = "retry"
    /\ UNCHANGED <<world, listed, known, views, wait, fresh>>

(* The locals of schedulePod go with it.                                   *)
Return ==
    /\ listed' = Unbound
    /\ known' = {}
    /\ views' = <<>>
    /\ outcome' = NoOutcome

(* The API server binds to any name of a node.                             *)
Bind ==
    /\ at = "bind"
    /\ pods' = [pods EXCEPT ![Job].node = outcome.node]
    /\ at' = "bound"
    /\ Return
    /\ UNCHANGED <<settings, cluster, wait, fresh>>

(* The key comes back after the back-off or the deferral, or before it     *)
(* with an update of the pod.                                              *)
Again ==
    /\ at = "retry"
    /\ at' = "idle"
    /\ wait' = 0
    /\ Return
    /\ UNCHANGED <<world, fresh>>

Worker == ListPods \/ ListNodes \/ Choose \/ GiveUp \/ Bind \/ Again

Bound == at = "bound" /\ UNCHANGED vars

Next ==
    \/ Tick
    \/ \E n \in Nodes : Join(n) \/ Leave(n)
    \/ \E p \in Pods : ReportStart(p) \/ End(p) \/ \E n \in Nodes : BindOther(p, n)
    \/ Worker
    \/ Bound

(* Time passes and the worker goes on; nothing says that nodes come or go. *)
Spec == Init /\ [][Next]_vars /\ WF_vars(Tick) /\ WF_vars(Worker)

-----------------------------------------------------------------------------
(* The node chosen can take the pod next to everything that was bound      *)
(* there when the pods were listed: what is missed is what was bound since *)
(* then, on old nodes or on nodes that joined between the lists            *)
(* (main.go:450).  Of a resource that the pod asks nothing of there may be *)
(* too little already.                                                     *)
ChoiceFitsKnown ==
    at = "bind" =>
        \A r \in Res : Demand[Job][r] > 0 =>
            Load[r][Occupants(outcome.node) \ fresh] + Demand[Job][r]
                <= Alloc[outcome.node][r]

(* The node cap hides node n of the nodes N: nodeCap others of known sites *)
(* come before it by name.                                                 *)
Hidden(n, N) == nodeCap > 0 /\ Cardinality({m \in N \cap SiteKnown : m < n}) >= nodeCap

(* A pod is rejected although a node of a known site has room only if it   *)
(* needs remote data and asks the k8s scheduler, or if the cap hides the   *)
(* node, in whatever order the nodes were listed (main.go:520).            *)
RejectedOnlyIfFull ==
    outcome.what = "rejected" =>
        \/ remote /\ policy = "k8s"
        \/ \A n \in known \cap SiteKnown :
              (\A r \in Res : Free(n, r) >= Demand[Job][r]) => Hidden(n, known)

(* A pod that keeps room on some node that the cap does not hide is bound  *)
(* in the end, whatever nodes come and go; if carbonscaler defers, unless  *)
(* other pods are bound or started for ever: each brings a new reservation *)
(* to wait for, and the waits are not added up (scheduler.go:179-189), but *)
(* one that is over does not hold the pod up although its pod goes on.     *)
(* The k8s scheduler refuses a pod with remote data for ever.              *)
HasRoom(n) ==
    /\ n \in cluster \cap SiteKnown
    /\ ~Hidden(n, cluster)
    /\ \A r \in Res : Load[r][Occupants(n)] + Demand[Job][r] <= Alloc[n][r]

NewReservation == \E p \in Pods : ReportStart(p) \/ \E n \in Nodes : BindOther(p, n)

BoundIfRoom ==
    \/ remote /\ policy = "k8s"
    \/ policy = "carbonscaler" /\ []<><<NewReservation>>_vars
    \/ \A n \in SiteKnown : []<>(at = "bound") \/ []<>~HasRoom(n)

(* "CarbonScaler honours temporal shifting" (README.md:184): on a node     *)
(* whose carbon reaches the threshold, a pod waits for a release that is   *)
(* within its slack.                                                       *)
ShiftingHonoured ==
    at = "bind" /\ policy = "carbonscaler" =>
        LET n == outcome.node
        IN  CINorm[n] < Threshold \/ QueueSeconds(n) = 0 \/ QueueSeconds(n) > MaxDefer
=============================================================================
