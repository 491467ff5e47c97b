----------------------------- MODULE Controller -----------------------------
(***************************************************************************)
(* The Kubernetes controller (hetsched/controller/main.go, scheduler.go):  *)
(* an informer whose handlers observe pods and enqueue the ones to place,  *)
(* workers that place one pod at a time by listing the cluster, asking the *)
(* policy and binding, and the API server and kubelets they act upon.      *)
(*                                                                         *)
(* Every access to what another goroutine or process may change is a step  *)
(* of its own: the lister, the pod list, the binding, the annotation, the  *)
(* two halves of observePod around its Unlock.  The policy is open: it may *)
(* take any node on which the pod fits in the snapshot, which is what all  *)
(* three schedulers pick from.  Nodes and their sites do not change.       *)
(***************************************************************************)
EXTENDS Integers, FiniteSets, Sequences, WorkQueue

CONSTANTS
    Pods,         \* pod UIDs
    KeyOf,        \* KeyOf[u]: the namespace/name of pod u
    Nodes,        \* nodes with a known site, within the node cap
    Workers,      \* goroutines of runWorkers
    Capacity,     \* Capacity[n][r]: allocatable of node n
    Demand,       \* Demand[u][r]: podResources of pod u
    Load,         \* Load[r][S]: sum of Demand[u][r] over the pods u of S
    CanDefer,     \* carbonscaler with a threshold that its CINorm reaches
    Slack,        \* Slack[u]: the longest single deferral of u
    None,         \* no node, no pod, no state
    Doomed,       \* pods that somebody may delete
    MaxDeferral,  \* bound on what the deferrals of a pod add up to
    MaxFaults,    \* bound on failed calls to the API server
    MaxRestarts,  \* bound on restarts of the controller
    MaxNotes      \* bound on notifications the informer has not delivered

Res == {"cpu", "mem"}

ASSUME PodsAssumption ==
    /\ IsFiniteSet(Pods)
    /\ KeyOf \in [Pods -> Keys]
    /\ Slack \in [Pods -> Nat]
    /\ None \notin Nodes \cup Pods \cup Keys

ASSUME ClusterAssumption ==
    /\ Capacity \in [Nodes -> [Res -> Nat]]
    /\ Demand \in [Pods -> [Res -> Nat]]
    /\ IsFiniteSet(Workers) /\ Workers # {}

(* Load is the sum of demands: this determines it on finite sets of pods.  *)
ASSUME LoadAssumption ==
    /\ Load \in [Res -> [SUBSET Pods -> Nat]]
    /\ \A r \in Res, u \in Pods : Load[r][{u}] = Demand[u][r]
    /\ \A r \in Res : \A S, T, U \in SUBSET Pods :
          S \cup T = U /\ S \cap T = {} => Load[r][U] = Load[r][S] + Load[r][T]

ASSUME BoundsAssumption ==
    /\ CanDefer \in BOOLEAN
    /\ {MaxDeferral, MaxFaults, MaxRestarts, MaxNotes} \subseteq Nat

VARIABLES
    api,        \* api[u]: pod u at the API server
    lister,     \* lister[k]: the informer's copy of the pod named k, or None
    notes,      \* notifications the event handlers have not got yet
    handler,    \* what the handler goroutine is at, and with which pod
    states,     \* controller.states: states[u] is a podState or None
    worker,     \* worker[w]: what worker w is at, and with which pod and node
    decisions,  \* decisions[u]: nodes of the decision lines written for u
    ends,       \* ends[u]: for every line with an end that observePod wrote
                \* for u, whether it carries the decision
    deferred,   \* deferred[u]: sum of the deferrals of u so far
    faults,     \* API calls that failed so far
    restarts    \* restarts so far

memory == <<lister, notes, handler, states, worker>>
lines == <<decisions, ends, deferred>>
bounds == <<faults, restarts>>
vars == <<api, memory, lines, bounds, queueVars>>

-----------------------------------------------------------------------------
(* Pods at the API server                                                  *)

Stages == {"absent", "pending", "running", "ended", "gone"}

PodObject == [stage : Stages, node : Nodes \cup {None}, marked : BOOLEAN,
              deleting : BOOLEAN]

(* A copy of a pod object, as the lister and the handlers hold it.         *)
PodCopy == [pod : Pods, stage : Stages, node : Nodes \cup {None},
            marked : BOOLEAN, deleting : BOOLEAN]

ASSUME NoneAssumption == None \notin PodCopy

CopyOf(u) == [pod |-> u, stage |-> api[u].stage, node |-> api[u].node,
              marked |-> api[u].marked, deleting |-> api[u].deleting]

Live == {u \in Pods : api[u].stage \in {"pending", "running", "ended"}}

(* The pod that now has the name k, if any.                                *)
Named(k) == {u \in Live : KeyOf[u] = k}

Current(k) == IF Named(k) = {} THEN None ELSE CopyOf(CHOOSE u \in Named(k) : TRUE)

(* What still holds resources of node n.                                   *)
Occupants(n) == {u \in Pods : api[u].node = n /\ api[u].stage \in {"pending", "running"}}

Create(u) ==
    /\ api[u].stage = "absent"
    /\ Named(KeyOf[u]) = {}
    /\ api' = [api EXCEPT ![u].stage = "pending"]
    /\ UNCHANGED <<memory, lines, bounds, queueVars>>

KubeletStart(u) ==
    /\ api[u].stage = "pending"
    /\ api[u].node # None
    /\ ~api[u].deleting
    /\ api' = [api EXCEPT ![u].stage = "running"]
    /\ UNCHANGED <<memory, lines, bounds, queueVars>>

KubeletEnd(u) ==
    /\ api[u].stage = "running"
    /\ api' = [api EXCEPT ![u].stage = "ended"]
    /\ UNCHANGED <<memory, lines, bounds, queueVars>>

Delete(u) ==
    /\ u \in Doomed \cap Live
    /\ ~api[u].deleting
    /\ api' = [api EXCEPT ![u].deleting = TRUE]
    /\ UNCHANGED <<memory, lines, bounds, queueVars>>

Remove(u) ==
    /\ u \in Live
    /\ api[u].deleting
    /\ api' = [api EXCEPT ![u].stage = "gone"]
    /\ UNCHANGED <<memory, lines, bounds, queueVars>>

-----------------------------------------------------------------------------
(* The informer.  It may skip changes: what it catches up with is the      *)
(* current object.  The removal of a pod may reach DeleteFunc as a         *)
(* tombstone ("missed"), which the handler does not recognise.             *)

Notify(what, copy) == notes' = Append(notes, [what |-> what, copy |-> copy])

Deliver(k) ==
    /\ lister[k] # Current(k)
    /\ Len(notes) < MaxNotes
    /\ lister' = [lister EXCEPT ![k] = Current(k)]
    /\ IF Current(k) = None
       THEN \E what \in {"deleted", "missed"} : Notify(what, lister[k])
       ELSE Notify("seen", Current(k))
    /\ UNCHANGED <<api, handler, states, worker, lines, bounds, queueVars>>

-----------------------------------------------------------------------------
(* main.go: shouldSchedule, observePod, dropState, the event handlers      *)

ShouldSchedule(copy) ==
    /\ copy # None
    /\ ~copy.deleting
    /\ copy.node = None
    /\ ~copy.marked

PodState == [started : BOOLEAN, ended : BOOLEAN, decided : BOOLEAN]

FreshState == [started |-> FALSE, ended |-> FALSE, decided |-> FALSE]

StateOf(u) == IF states[u] = None THEN FreshState ELSE states[u]

HasStart(copy) == copy.stage \in {"running", "ended"}
HasEnd(copy) == copy.stage = "ended"

IdleHandler == [at |-> "idle", copy |-> None, seen |-> None]

(* Mutant: what was known of the pod is not kept.                          *)
NotedAfresh(copy) ==
    [started |-> HasStart(copy), ended |-> HasEnd(copy), decided |-> FALSE]

(* What observePod makes of the pod's trace: it never clears a time.       *)
Noted(copy) ==
    LET st == StateOf(copy.pod)
    IN  [st EXCEPT !.started = @ \/ HasStart(copy), !.ended = @ \/ HasEnd(copy)]

(* After the line is written, or if there is none to write: dropState for  *)
(* a pod that has ended, else enqueueIfNeeded.  (One that ended is bound.) *)
Leave(copy) ==
    IF HasEnd(copy)
    THEN /\ handler' = [at |-> "drop", copy |-> copy, seen |-> None]
         /\ UNCHANGED <<queue, dirty>>
    ELSE /\ handler' = IdleHandler
         /\ IF ShouldSchedule(copy)
            THEN Add(KeyOf[copy.pod])
            ELSE UNCHANGED <<queue, dirty>>

Changed(copy) == StateOf(copy.pod) # Noted(copy)

(* observePod up to Unlock: `seen` is the trace at that moment.            *)
HandleSeen ==
    /\ handler.at = "idle"
    /\ notes # <<>>
    /\ Head(notes).what = "seen"
    /\ LET copy == Head(notes).copy IN
       /\ states' = [states EXCEPT ![copy.pod] = Noted(copy)]
       /\ IF Changed(copy)
          THEN /\ handler' = [at |-> "write", copy |-> copy, seen |-> Noted(copy)]
               /\ UNCHANGED <<queue, dirty>>
          ELSE Leave(copy)
    /\ notes' = Tail(notes)
    /\ UNCHANGED <<api, lister, worker, lines, bounds, processing, delayed>>

HandleDelete ==
    /\ handler.at = "idle"
    /\ notes # <<>>
    /\ Head(notes).what # "seen"
    /\ states' = IF Head(notes).what = "deleted"
                 THEN [states EXCEPT ![Head(notes).copy.pod] = None]
                 ELSE states
    /\ notes' = Tail(notes)
    /\ UNCHANGED <<api, lister, handler, worker, lines, bounds, queueVars>>

(* observePod reads the trace after Unlock.  If recordState has replaced   *)
(* it meanwhile, each field read is the old one or the new one.            *)
Torn(old, new) == {t \in PodState : \A f \in DOMAIN t : t[f] \in {old[f], new[f]}}

WriteObserved ==
    /\ handler.at = "write"
    /\ LET u == handler.copy.pod IN
       \E line \in Torn(handler.seen, states[u]) :
           ends' = IF line.ended THEN [ends EXCEPT ![u] = @ \cup {line.decided}] ELSE ends
    /\ Leave(handler.copy)
    /\ UNCHANGED <<api, lister, notes, states, worker, decisions, deferred, bounds,
                   processing, delayed>>

DropState ==
    /\ handler.at = "drop"
    /\ states' = [states EXCEPT ![handler.copy.pod] = None]
    /\ handler' = IdleHandler
    /\ UNCHANGED <<api, lister, notes, worker, lines, bounds, queueVars>>

-----------------------------------------------------------------------------
(* main.go: processNextItem, schedulePod, snapshot, bindPod, annotatePod   *)

IdleWorker == [at |-> "idle", key |-> None, pod |-> None, node |-> None]

Goto(w, where) == worker' = [worker EXCEPT ![w].at = where]

(* Leave processNextItem: the key is given back, and put aside if it is to *)
(* be tried again.                                                         *)
Forget(w) ==
    /\ Done(worker[w].key)
    /\ worker' = [worker EXCEPT ![w] = IdleWorker]
    /\ UNCHANGED delayed

Retry(w) ==
    /\ AddLater(worker[w].key)
    /\ Done(worker[w].key)
    /\ worker' = [worker EXCEPT ![w] = IdleWorker]

Fault == faults < MaxFaults /\ faults' = faults + 1

Take(w) ==
    /\ worker[w].at = "idle"
    /\ \E k \in Keys :
          /\ Get(k)
          /\ worker' = [worker EXCEPT ![w].at = "look", ![w].key = k]
    /\ UNCHANGED <<api, lister, notes, handler, states, lines, bounds>>

(* Mutant: the pod is known by its name instead of its UID.                *)
LookUpByName(w) ==
    /\ worker[w].at = "look"
    /\ IF ShouldSchedule(lister[worker[w].key])
       THEN /\ worker' = [worker EXCEPT ![w].at = "list", ![w].pod = worker[w].key]
            /\ UNCHANGED queueVars
       ELSE Forget(w)
    /\ UNCHANGED <<api, lister, notes, handler, states, lines, bounds>>

(* The lister's copy of the pod decides whether there is something to do.  *)
LookUp(w) ==
    /\ worker[w].at = "look"
    /\ LET copy == lister[worker[w].key] IN
       IF ShouldSchedule(copy)
       THEN /\ worker' = [worker EXCEPT ![w].at = "list", ![w].pod = copy.pod]
            /\ UNCHANGED queueVars
       ELSE Forget(w)
    /\ UNCHANGED <<api, lister, notes, handler, states, lines, bounds>>

Free(n, r) == LET left == Capacity[n][r] - Load[r][Occupants(n)]
              IN  IF left < 0 THEN 0 ELSE left

(* Mutant: a pod counts only once it runs.                                 *)
FitsRunning(u, n) ==
    \A r \in Res : Demand[u][r]
        + Load[r][{v \in Occupants(n) : api[v].stage = "running"}] <= Capacity[n][r]

Fits(u, n) == \A r \in Res : Demand[u][r] <= Free(n, r)

(* The nodes a policy may answer; for none it answers "" or an error.      *)
Candidates(u) == {n \in Nodes : Fits(u, n)}

(* List the pods, then choose.  The nodes listed after them do not change. *)
Choose(w) ==
    /\ worker[w].at = "list"
    /\ \E n \in Candidates(worker[w].pod) :
          worker' = [worker EXCEPT ![w].at = "bind", ![w].node = n]
    /\ UNCHANGED <<api, lister, notes, handler, states, lines, bounds, queueVars>>

(* carbonscaler puts the pod off until the next release on the node it     *)
(* chose, if that is within the slack.                                     *)
Reserved(n) == {u \in Occupants(n) : \E r \in Res : Demand[u][r] > 0}

Defer(w) ==
    /\ worker[w].at = "list"
    /\ CanDefer
    /\ LET u == worker[w].pod IN
       /\ \E n \in Candidates(u) : Reserved(n) # {}
       /\ \E wait \in 1..Slack[u] :
             /\ deferred[u] + wait <= MaxDeferral
             /\ deferred' = [deferred EXCEPT ![u] = @ + wait]
    /\ Retry(w)
    /\ UNCHANGED <<api, lister, notes, handler, states, decisions, ends, bounds>>

(* No node fits, or the list call fails.                                   *)
GiveUp(w) ==
    /\ worker[w].at = "list"
    /\ \/ Candidates(worker[w].pod) = {} /\ UNCHANGED faults
       \/ Fault
    /\ Retry(w)
    /\ UNCHANGED <<api, lister, notes, handler, states, lines, restarts>>

(* The API server binds a pod that exists under this UID and is free.      *)
Bindable(u) == api[u].stage = "pending" /\ api[u].node = None /\ ~api[u].deleting

Bind(w) ==
    /\ worker[w].at = "bind"
    /\ Bindable(worker[w].pod)
    /\ api' = [api EXCEPT ![worker[w].pod].node = worker[w].node]
    /\ Goto(w, "annotate")
    /\ UNCHANGED <<lister, notes, handler, states, lines, bounds, queueVars>>

(* The binding is made, but the answer does not come in time.              *)
BindAnswerLost(w) ==
    /\ worker[w].at = "bind"
    /\ Bindable(worker[w].pod)
    /\ api' = [api EXCEPT ![worker[w].pod].node = worker[w].node]
    /\ Fault
    /\ Retry(w)
    /\ UNCHANGED <<lister, notes, handler, states, lines, restarts>>

(* Mutant: a refused binding is taken for a binding made before.           *)
AssumeBound(w) ==
    /\ worker[w].at = "bind"
    /\ ~Bindable(worker[w].pod)
    /\ Goto(w, "annotate")
    /\ UNCHANGED <<api, lister, notes, handler, states, lines, bounds, queueVars>>

BindFails(w) ==
    /\ worker[w].at = "bind"
    /\ \/ ~Bindable(worker[w].pod) /\ UNCHANGED faults
       \/ Fault
    /\ Retry(w)
    /\ UNCHANGED <<api, lister, notes, handler, states, lines, restarts>>

(* The patch names the pod, not its UID.  Its failure is only logged.      *)
Annotate(w) ==
    /\ worker[w].at = "annotate"
    /\ \/ /\ api' = [u \in Pods |-> IF u \in Named(worker[w].key)
                                    THEN [api[u] EXCEPT !.marked = TRUE]
                                    ELSE api[u]]
          /\ UNCHANGED faults
       \/ Fault /\ UNCHANGED api
    /\ Goto(w, "record")
    /\ UNCHANGED <<lister, notes, handler, states, lines, restarts, queueVars>>

(* recordState puts a trace without start and end in the place of u's.     *)
RecordState(u) == states' = [states EXCEPT ![u] = [FreshState EXCEPT !.decided = TRUE]]

(* WriteOne of the decision line, then recordState, then Done.             *)
Record(w) ==
    /\ worker[w].at = "record"
    /\ LET u == worker[w].pod IN
       /\ decisions' = [decisions EXCEPT ![u] = Append(@, worker[w].node)]
       /\ RecordState(u)
    /\ Forget(w)
    /\ UNCHANGED <<api, lister, notes, handler, ends, deferred, bounds>>

-----------------------------------------------------------------------------
(* The controller dies and starts again: all but the lines it wrote and    *)
(* what the API server holds is lost.                                      *)

Restart ==
    /\ restarts < MaxRestarts
    /\ restarts' = restarts + 1
    /\ lister' = [k \in Keys |-> None]
    /\ notes' = <<>>
    /\ handler' = IdleHandler
    /\ states' = [u \in Pods |-> None]
    /\ worker' = [w \in Workers |-> IdleWorker]
    /\ LoseQueue
    /\ UNCHANGED <<api, lines, faults>>

Init ==
    /\ api = [u \in Pods |-> [stage |-> "absent", node |-> None,
                              marked |-> FALSE, deleting |-> FALSE]]
    /\ lister = [k \in Keys |-> None]
    /\ notes = <<>>
    /\ handler = IdleHandler
    /\ states = [u \in Pods |-> None]
    /\ worker = [w \in Workers |-> IdleWorker]
    /\ decisions = [u \in Pods |-> <<>>]
    /\ ends = [u \in Pods |-> {}]
    /\ deferred = [u \in Pods |-> 0]
    /\ faults = 0
    /\ restarts = 0
    /\ EmptyQueue

Kubelet(u) == KubeletStart(u) \/ KubeletEnd(u) \/ Remove(u)

Handler == HandleSeen \/ HandleDelete \/ WriteObserved \/ DropState

Work(w) ==
    \/ Take(w) \/ LookUp(w)
    \/ Choose(w) \/ Defer(w) \/ GiveUp(w)
    \/ Bind(w) \/ BindAnswerLost(w) \/ BindFails(w)
    \/ Annotate(w) \/ Record(w)

ExpireKey(k) == Expire(k) /\ UNCHANGED <<api, memory, lines, bounds>>

Next ==
    \/ \E u \in Pods : Create(u) \/ Delete(u) \/ Kubelet(u)
    \/ \E k \in Keys : Deliver(k) \/ ExpireKey(k)
    \/ Handler
    \/ \E w \in Workers : Work(w)
    \/ Restart

Spec == Init /\ [][Next]_vars

(* Goroutines, the informer's stream and kubelets keep going; nothing says *)
(* that pods are created or deleted, that calls fail or the process dies.  *)
Fairness ==
    /\ \A u \in Pods : WF_vars(Kubelet(u))
    /\ \A k \in Keys : WF_vars(Deliver(k)) /\ WF_vars(ExpireKey(k))
    /\ WF_vars(Handler)
    /\ \A w \in Workers : WF_vars(Work(w))

FairSpec == Spec /\ Fairness

-----------------------------------------------------------------------------
(* Properties                                                              *)

WorkerAt == {"idle", "look", "list", "bind", "annotate", "record"}

(* Every variable holds what its declaration says.                         *)
TypeOK ==
    /\ api \in [Pods -> PodObject]
    /\ lister \in [Keys -> PodCopy \cup {None}]
    /\ notes \in Seq([what : {"seen", "deleted", "missed"}, copy : PodCopy])
    /\ handler \in [at : {"idle", "write", "drop"}, copy : PodCopy \cup {None},
                    seen : PodState \cup {None}]
    /\ states \in [Pods -> PodState \cup {None}]
    /\ worker \in [Workers -> [at : WorkerAt, key : Keys \cup {None},
                               pod : Pods \cup {None}, node : Nodes \cup {None}]]
    /\ decisions \in [Pods -> Seq(Nodes)]
    /\ ends \in [Pods -> SUBSET BOOLEAN]
    /\ deferred \in [Pods -> 0..MaxDeferral]
    /\ faults \in 0..MaxFaults
    /\ restarts \in 0..MaxRestarts
    /\ QueueTypeOK

(* Binding is not atomic with the snapshot it rests on, so workers can     *)
(* place more on a node than it has.  They exceed it by no more than one   *)
(* pod for each other worker: without at most |Workers|-1 of its pods a    *)
(* node is within its allocatable of a resource.  (Not the same pods for   *)
(* both: the snapshot shows none free of a resource that is exceeded, so a *)
(* pod that asks for none of it is placed and may exceed the other.)       *)
(* (main.go: snapshot, bindPod.)                                           *)
OvercommitBounded ==
    \A n \in Nodes, r \in Res : \E S \in SUBSET Occupants(n) :
        /\ Cardinality(S) < Cardinality(Workers)
        /\ Load[r][Occupants(n) \ S] <= Capacity[n][r]

(* The decision lines are true: at most one for a pod, also across stale   *)
(* caches, retries, lost answers and restarts, and it names the node that  *)
(* the pod is bound to (main.go: schedulePod).                             *)
DecisionIsBinding ==
    \A u \in Pods :
        /\ Len(decisions[u]) <= 1
        /\ decisions[u] # <<>> => decisions[u][1] = api[u].node

(* A pod annotated as scheduled has a node: otherwise shouldSchedule would *)
(* leave it alone for ever.  The one exception is a pod that has the name  *)
(* of an earlier one: the patch is by name and may have been meant for     *)
(* that one, which was bound (main.go: annotatePod, shouldSchedule).       *)
MarkedIsBound ==
    \A u \in Live : api[u].marked =>
        \/ api[u].node # None
        \/ \E v \in Pods \ {u} :
              KeyOf[v] = KeyOf[u] /\ api[v].stage = "gone" /\ api[v].node # None

(* No pod is lost: while one waits for a node, its key is in the queue or  *)
(* with a worker, or news of it is on the way (main.go: event handlers,    *)
(* processNextItem).                                                       *)
Waiting(u) == u \in Live /\ ShouldSchedule(CopyOf(u))

NewsOf(u) ==
    \/ lister[KeyOf[u]] # CopyOf(u)
    \/ \E i \in DOMAIN notes : notes[i].copy = CopyOf(u)
    \/ handler.at # "idle" /\ handler.copy = CopyOf(u)

NoLostPod ==
    \A u \in Pods : Waiting(u) =>
        \/ KeyOf[u] \in processing \cup delayed
        \/ \E i \in DOMAIN queue : queue[i] = KeyOf[u]
        \/ NewsOf(u)

(* A pod that waits is bound in the end, however many calls fail and       *)
(* restarts happen (finitely many), unless somebody deletes it.            *)
EventuallyBound ==
    \A u \in Pods :
        Waiting(u) ~> (api[u].node # None \/ api[u].deleting \/ api[u].stage = "gone")

(* The end of a pod's run is written down, if it was still running when    *)
(* the worker that placed it was done with it, and is not deleted.  (While *)
(* the worker is at it, recordState may overwrite what observePod noted.)  *)
(* One line with the end carries the decision as well, under the same id,  *)
(* unless the trace was lost, by a restart or with the answer to the       *)
(* binding: then the line is under the pod's UID (main.go:611), where the  *)
(* decision is under ciw/workload_id (main.go:826), and only a reader who  *)
(* knows the UID can put it to its job.  Lines without the decision may    *)
(* follow: an update after the end makes a new trace (main.go:651).        *)
RunsAlone(u) ==
    /\ api[u].stage = "running"
    /\ \A w \in Workers : worker[w].pod # u

EndsObserved ==
    \A u \in Pods : RunsAlone(u) ~>
        \/ api[u].deleting
        \/ TRUE \in ends[u]
        \/ ends[u] # {} /\ (decisions[u] = <<>> \/ restarts > 0)

(* Through failures, races and restarts the controller does what it is     *)
(* there for: PlacementService.                                            *)
Service == INSTANCE PlacementService WITH
    stage <- [u \in Pods |-> api[u].stage],
    node  <- [u \in Pods |-> api[u].node],
    told  <- decisions,
    Few   <- {S \in SUBSET Pods : Cardinality(S) < Cardinality(Workers)}

ImplementsService == Service!Spec
=============================================================================
