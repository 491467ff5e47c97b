-------------------------- MODULE ControllerProofs --------------------------
(***************************************************************************)
(* Theorems about the controller, for every set of pods, names, nodes and  *)
(* workers, every bound on failures and restarts, and every policy.  Each  *)
(* invariant is proved from the ones before it:                            *)
(*   TypeInv       types, and what the handler and the workers hold        *)
(*   PodsInv       what the life of a pod makes impossible                 *)
(*   BindingInv    decision lines and marks follow bindings                *)
(*   QueueInv      the work queue, and that a key is with one worker       *)
(*   AttendedInv   every waiting pod is attended to                        *)
(*   RoomInv       what a worker that is about to bind takes of a node     *)
(***************************************************************************)
EXTENDS Controller, FiniteSetTheorems, SequenceTheorems, TLAPS

-----------------------------------------------------------------------------
(* Types                                                                   *)

Note == [what : {"seen", "deleted", "missed"}, copy : PodCopy]

WorkerRecord == [at : WorkerAt, key : Keys \cup {None}, pod : Pods \cup {None},
                 node : Nodes \cup {None}]

HasPod == {"list", "bind", "annotate", "record"}
HasNode == {"bind", "annotate", "record"}

(* A pod a worker has looked up is the one that had the key it took, and a *)
(* copy in the lister is under the name of its pod.                        *)
HandlerInv ==
    /\ handler.at # "idle" => handler.copy \in PodCopy
    /\ handler.at = "write" => handler.seen \in PodState
    /\ handler.at = "drop" => handler.copy.stage = "ended"

ListerInv == \A k \in Keys : lister[k] # None => KeyOf[lister[k].pod] = k

WorkerInv ==
    \A w \in Workers :
        /\ worker[w].at # "idle" => worker[w].key \in Keys
        /\ worker[w].at \in HasPod => /\ worker[w].pod \in Pods
                                      /\ KeyOf[worker[w].pod] = worker[w].key
        /\ worker[w].at \in HasNode => worker[w].node \in Nodes

TypeInv == TypeOK /\ HandlerInv /\ ListerInv /\ WorkerInv

(* What Append and Tail do, in the terms the proofs use.                   *)
LEMMA AppendFacts ==
    ASSUME NEW T, NEW s \in Seq(T), NEW e \in T
    PROVE  /\ Append(s, e) \in Seq(T)
           /\ DOMAIN Append(s, e) = 1..Len(s) + 1
           /\ DOMAIN s = 1..Len(s)
           /\ Len(s) \in Nat
           /\ \A i \in DOMAIN s : Append(s, e)[i] = s[i]
           /\ Append(s, e)[Len(s) + 1] = e
OBVIOUS

LEMMA TailFacts ==
    ASSUME NEW T, NEW s \in Seq(T), s # <<>>
    PROVE  /\ Head(s) \in T /\ Head(s) = s[1] /\ 1 \in DOMAIN s
           /\ Tail(s) \in Seq(T)
           /\ Len(s) \in Nat \ {0}
           /\ DOMAIN s = 1..Len(s)
           /\ DOMAIN Tail(s) = 1..Len(s) - 1
           /\ \A i \in DOMAIN Tail(s) : Tail(s)[i] = s[i + 1]
OBVIOUS

LEMMA HeadNote ==
    ASSUME TypeOK, notes # <<>>
    PROVE  /\ Head(notes) \in Note
           /\ Head(notes).copy \in PodCopy
           /\ Head(notes).copy.pod \in Pods
           /\ Tail(notes) \in Seq(Note)
<1>1. notes \in Seq(Note)
  BY DEF TypeOK, Note
<1>2. Head(notes) \in Note /\ Tail(notes) \in Seq(Note)
  BY <1>1, TailFacts
<1> QED
  BY <1>2 DEF Note, PodCopy

LEMMA CopyType ==
    ASSUME TypeOK, NEW u \in Pods
    PROVE  CopyOf(u) \in PodCopy
<1>1. api[u] \in PodObject
  BY DEF TypeOK
<1> QED
  BY <1>1 DEF CopyOf, PodCopy, PodObject

LEMMA NotedType ==
    ASSUME TypeOK, NEW copy \in PodCopy
    PROVE  Noted(copy) \in PodState
<1>1. copy.pod \in Pods
  BY DEF PodCopy
<1>2. StateOf(copy.pod) \in PodState
  BY <1>1 DEF TypeOK, StateOf, FreshState, PodState
<1> QED
  BY <1>2 DEF Noted, PodState, HasStart, HasEnd

(* What the name of a pod refers to is a pod of that name.                 *)
LEMMA CurrentType ==
    ASSUME TypeOK, NEW k \in Keys, Current(k) # None
    PROVE  /\ Current(k) \in PodCopy
           /\ Current(k).pod \in Named(k)
           /\ Current(k) = CopyOf(Current(k).pod)
<1>1. PICK u \in Named(k) : Current(k) = CopyOf(u)
  BY DEF Current
<1>2. u \in Pods
  BY DEF Named, Live
<1>3. CopyOf(u).pod = u
  BY DEF CopyOf
<1> QED
  BY <1>1, <1>2, <1>3, CopyType

(* What the work queue's operations do to types.                           *)
LEMMA QueueTypes ==
    ASSUME QueueTypeOK, NEW k \in Keys
    PROVE  /\ Add(k) => queue' \in Seq(Keys) /\ dirty' \subseteq Keys
           /\ Get(k) => QueueTypeOK'
           /\ Done(k) => /\ queue' \in Seq(Keys) /\ dirty' \subseteq Keys
                         /\ processing' \subseteq Keys
           /\ AddLater(k) => delayed' \subseteq Keys
           /\ Expire(k) => QueueTypeOK'
BY AppendFacts, TailFacts DEF QueueTypeOK, Add, Get, Done, AddLater, Expire

LEMMA TypeInit == Init => TypeInv
<1> SUFFICES ASSUME Init PROVE TypeInv
  OBVIOUS
<1>1. TypeOK
  BY BoundsAssumption
  DEF Init, TypeOK, PodObject, Stages, IdleHandler, IdleWorker, WorkerAt,
      EmptyQueue, QueueTypeOK
<1>2. HandlerInv /\ ListerInv /\ WorkerInv
  BY DEF Init, HandlerInv, ListerInv, WorkerInv, IdleHandler, IdleWorker,
         HasPod, HasNode
<1> QED
  BY <1>1, <1>2 DEF TypeInv

(* What a worker that holds its key leaves when it is done with it.        *)
LEMMA LeavingTypes ==
    ASSUME TypeInv, NEW w \in Workers, worker[w].at # "idle",
           \/ Forget(w)
           \/ Retry(w)
    PROVE  /\ QueueTypeOK'
           /\ worker' \in [Workers -> WorkerRecord]
           /\ WorkerInv'
<1>1. worker[w].key \in Keys /\ QueueTypeOK
  BY DEF TypeInv, WorkerInv, TypeOK
<1>2. QueueTypeOK'
  BY <1>1, QueueTypes DEF Forget, Retry, QueueTypeOK
<1>3. worker' = [worker EXCEPT ![w] = IdleWorker]
  BY DEF Forget, Retry
<1> QED
  BY <1>2, <1>3 DEF TypeInv, TypeOK, WorkerRecord, WorkerInv, IdleWorker, WorkerAt, HasPod,
                         HasNode

(* A worker that moves on keeps its type.                                  *)
LEMMA MovingTypes ==
    ASSUME TypeOK, NEW w \in Workers, NEW at \in WorkerAt
    PROVE  /\ [worker EXCEPT ![w].at = at] \in [Workers -> WorkerRecord]
           /\ \A k \in Keys :
                 [worker EXCEPT ![w].at = at, ![w].key = k] \in [Workers -> WorkerRecord]
           /\ \A u \in Pods :
                 [worker EXCEPT ![w].at = at, ![w].pod = u] \in [Workers -> WorkerRecord]
           /\ \A n \in Nodes :
                 [worker EXCEPT ![w].at = at, ![w].node = n] \in [Workers -> WorkerRecord]
<1>1. worker \in [Workers -> WorkerRecord]
  BY DEF TypeOK, WorkerRecord
<1>2. ASSUME NEW f \in [Workers -> WorkerRecord]
      PROVE  /\ [f EXCEPT ![w].at = at] \in [Workers -> WorkerRecord]
             /\ \A k \in Keys : [f EXCEPT ![w].key = k] \in [Workers -> WorkerRecord]
             /\ \A u \in Pods : [f EXCEPT ![w].pod = u] \in [Workers -> WorkerRecord]
             /\ \A n \in Nodes : [f EXCEPT ![w].node = n] \in [Workers -> WorkerRecord]
  <2>1. f[w] \in WorkerRecord
    OBVIOUS
  <2>2. /\ [f[w] EXCEPT !.at = at] \in WorkerRecord
        /\ \A k \in Keys : [f[w] EXCEPT !.key = k] \in WorkerRecord
        /\ \A u \in Pods : [f[w] EXCEPT !.pod = u] \in WorkerRecord
        /\ \A n \in Nodes : [f[w] EXCEPT !.node = n] \in WorkerRecord
    BY <2>1 DEF WorkerRecord
  <2> QED
    BY <2>2
<1> QED
  BY <1>1, <1>2

(* A pod object keeps its type under what the steps change of it.          *)
LEMMA PodTypes ==
    ASSUME TypeOK, NEW u \in Pods
    PROVE  /\ \A s \in Stages : [api EXCEPT ![u].stage = s] \in [Pods -> PodObject]
           /\ [api EXCEPT ![u].deleting = TRUE] \in [Pods -> PodObject]
           /\ \A n \in Nodes : [api EXCEPT ![u].node = n] \in [Pods -> PodObject]
           /\ [api[u] EXCEPT !.marked = TRUE] \in PodObject
<1>1. api \in [Pods -> PodObject] /\ api[u] \in PodObject
  BY DEF TypeOK
<1>2. /\ \A s \in Stages : [api[u] EXCEPT !.stage = s] \in PodObject
      /\ [api[u] EXCEPT !.deleting = TRUE] \in PodObject
      /\ \A n \in Nodes : [api[u] EXCEPT !.node = n] \in PodObject
      /\ [api[u] EXCEPT !.marked = TRUE] \in PodObject
  BY <1>1 DEF PodObject
<1> QED
  BY <1>1, <1>2

LEMMA TypeStep == TypeInv /\ [Next]_vars => TypeInv'
<1> SUFFICES ASSUME TypeInv, [Next]_vars PROVE TypeInv'
  OBVIOUS
<1> USE DEF memory, lines, bounds
<1>1. ASSUME NEW u \in Pods, Create(u) \/ Delete(u) \/ Kubelet(u)
      PROVE  TypeInv'
  <2>1. UNCHANGED <<memory, lines, bounds, queueVars>>
    BY <1>1 DEF Create, Delete, Kubelet, KubeletStart, KubeletEnd, Remove
  <2>2. \/ \E s \in Stages : api' = [api EXCEPT ![u].stage = s]
        \/ api' = [api EXCEPT ![u].deleting = TRUE]
    <3>1. {"pending", "running", "ended", "gone"} \subseteq Stages
      BY DEF Stages
    <3> QED
      BY <1>1, <3>1, Zenon DEF Create, Delete, Kubelet, KubeletStart, KubeletEnd, Remove
  <2>3. api' \in [Pods -> PodObject]
    <3>1. TypeOK
      BY DEF TypeInv
    <3>2. CASE \E s \in Stages : api' = [api EXCEPT ![u].stage = s]
      <4>1. PICK s \in Stages : api' = [api EXCEPT ![u].stage = s]
        BY <3>2
      <4>2. [api EXCEPT ![u].stage = s] \in [Pods -> PodObject]
        BY <3>1, PodTypes
      <4> QED
        BY <4>1, <4>2
    <3>3. CASE api' = [api EXCEPT ![u].deleting = TRUE]
      BY <3>1, <3>3, PodTypes
    <3> QED
      BY <2>2, <3>2, <3>3
  <2> QED
    BY <2>1, <2>3
    DEF TypeInv, TypeOK, HandlerInv, ListerInv, WorkerInv, queueVars, QueueTypeOK
<1>2. ASSUME NEW k \in Keys, Deliver(k) PROVE TypeInv'
  <2>1. Current(k) # None => Current(k) \in PodCopy /\ KeyOf[Current(k).pod] = k
    BY CurrentType DEF TypeInv, Named
  <2>2. Current(k) = None => lister[k] \in PodCopy
    BY <1>2 DEF Deliver, TypeInv, TypeOK
  <2>3. notes' \in Seq(Note)
    <3>1. PICK note \in Note : notes' = Append(notes, note)
      BY <1>2, <2>1, <2>2 DEF Deliver, Notify, Note
    <3>2. notes \in Seq(Note)
      BY DEF TypeInv, TypeOK, Note
    <3> QED
      BY <3>1, <3>2, AppendFacts
  <2>4. lister' \in [Keys -> PodCopy \cup {None}] /\ ListerInv'
    BY <1>2, <2>1 DEF Deliver, TypeInv, TypeOK, ListerInv
  <2> QED
    BY <1>2, <2>3, <2>4
    DEF Deliver, TypeInv, TypeOK, Note, HandlerInv, WorkerInv, queueVars, QueueTypeOK
<1>3. ASSUME NEW k \in Keys, ExpireKey(k) PROVE TypeInv'
  BY <1>3, QueueTypes
  DEF ExpireKey, TypeInv, TypeOK, HandlerInv, ListerInv, WorkerInv
<1>4. ASSUME HandleSeen PROVE TypeInv'
  <2> DEFINE copy == Head(notes).copy
  <2>1. copy \in PodCopy /\ copy.pod \in Pods
    BY <1>4, HeadNote DEF HandleSeen, TypeInv
  <2>2. Noted(copy) \in PodState
    BY <2>1, NotedType DEF TypeInv
  <2>3. notes' \in Seq(Note)
    BY <1>4, HeadNote DEF HandleSeen, TypeInv
  <2>4. states' \in [Pods -> PodState \cup {None}]
    BY <1>4, <2>1, <2>2 DEF HandleSeen, TypeInv, TypeOK
  <2>5. KeyOf[copy.pod] \in Keys
    BY <2>1, PodsAssumption
  <2>6. /\ handler' \in [at : {"idle", "write", "drop"}, copy : PodCopy \cup {None},
                         seen : PodState \cup {None}]
        /\ HandlerInv'
        /\ queue' \in Seq(Keys) /\ dirty' \subseteq Keys
    <3>1. CASE Changed(copy)
      BY <1>4, <2>1, <2>2, <3>1
      DEF HandleSeen, TypeInv, TypeOK, HandlerInv, QueueTypeOK
    <3>2. CASE ~Changed(copy)
      <4>1. Leave(copy)
        BY <1>4, <3>2 DEF HandleSeen
      <4> QED
        BY <2>1, <2>5, <4>1, QueueTypes
        DEF Leave, HasEnd, IdleHandler, TypeInv, TypeOK, HandlerInv, QueueTypeOK
    <3> QED
      BY <3>1, <3>2
  <2> QED
    BY <1>4, <2>3, <2>4, <2>6
    DEF HandleSeen, TypeInv, TypeOK, Note, ListerInv, WorkerInv, QueueTypeOK
<1>5. ASSUME HandleDelete PROVE TypeInv'
  <2>1. Head(notes).copy.pod \in Pods /\ notes' \in Seq(Note)
    BY <1>5, HeadNote DEF HandleDelete, TypeInv
  <2>2. states' \in [Pods -> PodState \cup {None}]
    BY <1>5, <2>1 DEF HandleDelete, TypeInv, TypeOK
  <2> QED
    BY <1>5, <2>1, <2>2
    DEF HandleDelete, TypeInv, TypeOK, Note, HandlerInv, ListerInv, WorkerInv, queueVars,
        QueueTypeOK
<1>6. ASSUME WriteObserved PROVE TypeInv'
  <2>1. handler.copy \in PodCopy /\ handler.copy.pod \in Pods
    BY <1>6 DEF WriteObserved, TypeInv, HandlerInv, PodCopy
  <2>2. ends' \in [Pods -> SUBSET BOOLEAN]
    <3>1. PICK line \in PodState :
             ends' = IF line.ended
                     THEN [ends EXCEPT ![handler.copy.pod] = @ \cup {line.decided}]
                     ELSE ends
      BY <1>6 DEF WriteObserved, Torn
    <3>2. line.decided \in BOOLEAN /\ ends \in [Pods -> SUBSET BOOLEAN]
      BY <3>1 DEF PodState, TypeInv, TypeOK
    <3> QED
      BY <2>1, <3>1, <3>2
  <2>3. KeyOf[handler.copy.pod] \in Keys
    BY <2>1, PodsAssumption
  <2>4. /\ handler' \in [at : {"idle", "write", "drop"}, copy : PodCopy \cup {None},
                         seen : PodState \cup {None}]
        /\ HandlerInv'
        /\ queue' \in Seq(Keys) /\ dirty' \subseteq Keys
    <3>1. Leave(handler.copy)
      BY <1>6 DEF WriteObserved
    <3> QED
      BY <2>1, <2>3, <3>1, QueueTypes
      DEF Leave, HasEnd, IdleHandler, TypeInv, TypeOK, HandlerInv, QueueTypeOK
  <2> QED
    BY <1>6, <2>2, <2>4
    DEF WriteObserved, TypeInv, TypeOK, ListerInv, WorkerInv, QueueTypeOK
<1>7. ASSUME DropState PROVE TypeInv'
  <2>1. handler.copy.pod \in Pods
    BY <1>7 DEF DropState, TypeInv, HandlerInv, PodCopy
  <2> QED
    BY <1>7, <2>1
    DEF DropState, TypeInv, TypeOK, HandlerInv, IdleHandler, ListerInv, WorkerInv,
        queueVars, QueueTypeOK
<1>8. ASSUME NEW w \in Workers, Take(w) PROVE TypeInv'
  <2>1. PICK k \in Keys :
           /\ Get(k)
           /\ worker' = [worker EXCEPT ![w].at = "look", ![w].key = k]
    BY <1>8 DEF Take
  <2>2. QueueTypeOK'
    BY <2>1, QueueTypes DEF TypeInv, TypeOK
  <2>3. worker' \in [Workers -> WorkerRecord]
    BY <2>1, MovingTypes DEF TypeInv, WorkerAt
  <2>4. WorkerInv'
    BY <2>1 DEF TypeInv, TypeOK, WorkerInv, HasPod, HasNode
  <2> QED
    BY <1>8, <2>2, <2>3, <2>4
    DEF Take, TypeInv, TypeOK, WorkerRecord, HandlerInv, ListerInv
<1>9. ASSUME NEW w \in Workers, LookUp(w) PROVE TypeInv'
  <2>1. CASE ShouldSchedule(lister[worker[w].key])
    <3> DEFINE copy == lister[worker[w].key]
    <3>1. worker' = [worker EXCEPT ![w].at = "list", ![w].pod = copy.pod]
      BY <1>9, <2>1 DEF LookUp
    <3>2. worker[w].key \in Keys /\ copy # None
      BY <1>9, <2>1 DEF LookUp, TypeInv, WorkerInv, ShouldSchedule
    <3>3. copy.pod \in Pods /\ KeyOf[copy.pod] = worker[w].key
      BY <3>2 DEF TypeInv, TypeOK, ListerInv, PodCopy
    <3>4. worker' \in [Workers -> WorkerRecord]
      BY <3>1, <3>3, MovingTypes DEF TypeInv, WorkerAt
    <3>5. WorkerInv'
      BY <3>1, <3>2, <3>3 DEF TypeInv, TypeOK, WorkerInv, HasPod, HasNode
    <3> QED
      BY <1>9, <2>1, <3>4, <3>5
      DEF LookUp, TypeInv, TypeOK, WorkerRecord, HandlerInv, ListerInv, queueVars,
          QueueTypeOK
  <2>2. CASE ~ShouldSchedule(lister[worker[w].key])
    <3>1. Forget(w) /\ worker[w].at # "idle"
      BY <1>9, <2>2 DEF LookUp
    <3> QED
      BY <1>9, <3>1, LeavingTypes DEF LookUp, TypeInv, TypeOK, WorkerRecord, HandlerInv, ListerInv
  <2> QED
    BY <2>1, <2>2
<1>10. ASSUME NEW w \in Workers, Choose(w) PROVE TypeInv'
  <2>1. PICK n \in Nodes : worker' = [worker EXCEPT ![w].at = "bind", ![w].node = n]
    BY <1>10 DEF Choose, Candidates
  <2>2. worker' \in [Workers -> WorkerRecord]
    BY <2>1, MovingTypes DEF TypeInv, WorkerAt
  <2>3. WorkerInv'
    BY <1>10, <2>1 DEF Choose, TypeInv, TypeOK, WorkerInv, HasPod, HasNode
  <2> QED
    BY <1>10, <2>2, <2>3
    DEF Choose, TypeInv, TypeOK, WorkerRecord, HandlerInv, ListerInv, queueVars,
        QueueTypeOK
<1>11. ASSUME NEW w \in Workers, Defer(w) PROVE TypeInv'
  <2>1. worker[w].pod \in Pods /\ worker[w].at # "idle" /\ Retry(w)
    BY <1>11 DEF Defer, TypeInv, WorkerInv, HasPod
  <2>2. deferred' \in [Pods -> 0..MaxDeferral]
    <3>1. Slack[worker[w].pod] \in Nat /\ deferred \in [Pods -> 0..MaxDeferral]
      BY <2>1, PodsAssumption DEF TypeInv, TypeOK
    <3>2. PICK wait \in 1..Slack[worker[w].pod] :
             /\ deferred[worker[w].pod] + wait <= MaxDeferral
             /\ deferred' = [deferred EXCEPT ![worker[w].pod] = @ + wait]
      BY <1>11 DEF Defer
    <3> QED
      BY <2>1, <3>1, <3>2, BoundsAssumption
  <2> QED
    BY <1>11, <2>1, <2>2, LeavingTypes DEF Defer, TypeInv, TypeOK, WorkerRecord, HandlerInv, ListerInv
<1>12. ASSUME NEW w \in Workers, GiveUp(w) \/ BindFails(w) PROVE TypeInv'
  <2>1. worker[w].at # "idle" /\ Retry(w)
    BY <1>12 DEF GiveUp, BindFails
  <2>2. faults' \in 0..MaxFaults
    BY <1>12, BoundsAssumption DEF GiveUp, BindFails, Fault, TypeInv, TypeOK
  <2> QED
    BY <1>12, <2>1, <2>2, LeavingTypes
    DEF GiveUp, BindFails, TypeInv, TypeOK, WorkerRecord, HandlerInv, ListerInv
<1>13. ASSUME NEW w \in Workers, Bind(w) \/ BindAnswerLost(w) PROVE TypeInv'
  <2>1. worker[w].at = "bind" /\ worker[w].pod \in Pods /\ worker[w].node \in Nodes
    BY <1>13 DEF Bind, BindAnswerLost, TypeInv, WorkerInv, HasPod, HasNode
  <2>2. api' \in [Pods -> PodObject]
    <3>1. api' = [api EXCEPT ![worker[w].pod].node = worker[w].node]
      BY <1>13 DEF Bind, BindAnswerLost
    <3> QED
      BY <2>1, <3>1, PodTypes DEF TypeInv
  <2>3. CASE Bind(w)
    <3>1. worker' = [worker EXCEPT ![w].at = "annotate"]
      BY <2>3 DEF Bind, Goto
    <3>2. worker' \in [Workers -> WorkerRecord]
      BY <3>1, MovingTypes DEF TypeInv, WorkerAt
    <3>3. WorkerInv'
      BY <2>1, <3>1 DEF TypeInv, TypeOK, WorkerInv, HasPod, HasNode
    <3> QED
      BY <2>2, <2>3, <3>2, <3>3
      DEF Bind, TypeInv, TypeOK, WorkerRecord, HandlerInv, ListerInv, queueVars,
          QueueTypeOK
  <2>4. CASE BindAnswerLost(w)
    <3>1. Retry(w) /\ worker[w].at # "idle"
      BY <2>1, <2>4 DEF BindAnswerLost
    <3>2. faults' \in 0..MaxFaults
      BY <2>4, BoundsAssumption DEF BindAnswerLost, Fault, TypeInv, TypeOK
    <3> QED
      BY <2>2, <2>4, <3>1, <3>2, LeavingTypes
      DEF BindAnswerLost, TypeInv, TypeOK, WorkerRecord, HandlerInv, ListerInv
  <2> QED
    BY <1>13, <2>3, <2>4
<1>14. ASSUME NEW w \in Workers, Annotate(w) PROVE TypeInv'
  <2>1. faults' \in 0..MaxFaults
    BY <1>14, BoundsAssumption DEF Annotate, Fault, TypeInv, TypeOK
  <2>2. api' \in [Pods -> PodObject]
    <3>1. api \in [Pods -> PodObject]
      BY DEF TypeInv, TypeOK
    <3>2. \A u \in Pods : [api[u] EXCEPT !.marked = TRUE] \in PodObject
      BY PodTypes DEF TypeInv
    <3> QED
      BY <1>14, <3>1, <3>2 DEF Annotate
  <2>3. worker' = [worker EXCEPT ![w].at = "record"]
    BY <1>14 DEF Annotate, Goto
  <2>4. worker' \in [Workers -> WorkerRecord]
    BY <2>3, MovingTypes DEF TypeInv, WorkerAt
  <2>5. WorkerInv'
    BY <1>14, <2>3 DEF Annotate, TypeInv, TypeOK, WorkerInv, HasPod, HasNode
  <2> QED
    BY <1>14, <2>1, <2>2, <2>4, <2>5
    DEF Annotate, TypeInv, TypeOK, WorkerRecord, HandlerInv, ListerInv, queueVars, QueueTypeOK
<1>15. ASSUME NEW w \in Workers, Record(w) PROVE TypeInv'
  <2>1. /\ worker[w].pod \in Pods /\ worker[w].node \in Nodes
        /\ worker[w].at # "idle" /\ Forget(w)
    BY <1>15 DEF Record, TypeInv, WorkerInv, HasPod, HasNode
  <2>2. decisions' \in [Pods -> Seq(Nodes)]
    BY <1>15, <2>1, AppendFacts DEF Record, TypeInv, TypeOK
  <2>3. states' \in [Pods -> PodState \cup {None}]
    <3>1. [FreshState EXCEPT !.decided = TRUE] \in PodState
      BY DEF FreshState, PodState
    <3> QED
      BY <1>15, <2>1, <3>1 DEF Record, RecordState, TypeInv, TypeOK
  <2> QED
    BY <1>15, <2>1, <2>2, <2>3, LeavingTypes
    DEF Record, TypeInv, TypeOK, WorkerRecord, HandlerInv, ListerInv
<1>16. ASSUME Restart PROVE TypeInv'
  <2>1. restarts' \in 0..MaxRestarts
    BY <1>16, BoundsAssumption DEF Restart, TypeInv, TypeOK
  <2> QED
    BY <1>16, <2>1
    DEF Restart, TypeInv, TypeOK, IdleHandler, IdleWorker, WorkerAt, LoseQueue,
        QueueTypeOK, HandlerInv, ListerInv, WorkerInv, HasPod, HasNode
<1>17. CASE UNCHANGED vars
  BY <1>17
  DEF vars, TypeInv, TypeOK, HandlerInv, ListerInv, WorkerInv, queueVars, QueueTypeOK
<1> QED
  BY <1>1, <1>2, <1>3, <1>4, <1>5, <1>6, <1>7, <1>8, <1>9, <1>10, <1>11, <1>12, <1>13,
     <1>14, <1>15, <1>16, <1>17
  DEF Next, Handler, Work

(* TypeOK: every variable of the controller, of the API server and of the  *)
(* work queue keeps its type, and no count exceeds its bound.              *)
THEOREM ControllerTypes == Spec => []TypeOK
<1>1. TypeInv => TypeOK
  BY DEF TypeInv
<1> QED
  BY TypeInit, TypeStep, <1>1, PTL DEF Spec

-----------------------------------------------------------------------------
(* The life of a pod                                                       *)

PodsInv ==
    /\ \A u \in Pods :
          /\ api[u].stage = "absent" => api[u].node = None /\ ~api[u].marked
          /\ api[u].stage \in {"running", "ended"} => api[u].node # None
    /\ \A u, v \in Live : KeyOf[u] = KeyOf[v] => u = v
    /\ \A k \in Keys : lister[k] # None => api[lister[k].pod].stage # "absent"
    /\ \A i \in DOMAIN notes :
          notes[i].what # "seen" => api[notes[i].copy.pod].stage = "gone"

(* The steps that leave pods, lister and notifications alone.              *)
LEMMA WorkFrame ==
    ASSUME \/ \E w \in Workers : \/ Take(w) \/ LookUp(w) \/ Choose(w) \/ Defer(w)
                                 \/ GiveUp(w) \/ BindFails(w) \/ Record(w)
           \/ \E k \in Keys : ExpireKey(k)
           \/ WriteObserved \/ DropState
           \/ UNCHANGED vars
    PROVE  UNCHANGED <<api, lister, notes>>
BY DEF Take, LookUp, Choose, Defer, GiveUp, BindFails, Record, ExpireKey, WriteObserved,
       DropState, vars, memory

(* What a step of the pod's own life changes: its stage, or that it is     *)
(* being deleted.                                                          *)
LEMMA LifeMoves ==
    ASSUME TypeOK, NEW u \in Pods, Create(u) \/ Delete(u) \/ Kubelet(u), NEW v \in Pods
    PROVE  /\ api'[v].node = api[v].node /\ api'[v].marked = api[v].marked
           /\ api[v].deleting => api'[v].deleting
           /\ v # u => api'[v] = api[v]
           /\ \/ api'[v].stage = api[v].stage
              \/ v = u /\ Create(u) /\ api[v].stage = "absent" /\ api'[v].stage = "pending"
              \/ /\ api[v].stage = "pending" /\ api'[v].stage = "running"
                 /\ api[v].node # None
              \/ api[v].stage = "running" /\ api'[v].stage = "ended"
              \/ v \in Live /\ api'[v].stage = "gone"
<1>1. api \in [Pods -> PodObject] /\ api[u] \in PodObject
  BY DEF TypeOK
<1>2. CASE v = u
  <2>1. CASE Create(u)
    BY <1>1, <1>2, <2>1 DEF Create, PodObject
  <2>2. CASE Delete(u)
    BY <1>1, <1>2, <2>2 DEF Delete, PodObject
  <2>3. CASE Kubelet(u)
    BY <1>1, <1>2, <2>3 DEF Kubelet, KubeletStart, KubeletEnd, Remove, PodObject
  <2> QED
    BY <2>1, <2>2, <2>3
<1>3. CASE v # u
  <2>1. api'[v] = api[v]
    BY <1>1, <1>3 DEF Create, Delete, Kubelet, KubeletStart, KubeletEnd, Remove
  <2> QED
    BY <1>3, <2>1
<1> QED
  BY <1>2, <1>3

(* A binding changes the node of the worker's pod, which had none.         *)
LEMMA BindMoves ==
    ASSUME TypeInv, NEW w \in Workers, Bind(w) \/ BindAnswerLost(w)
    PROVE  LET u == worker[w].pod IN
           /\ u \in Pods /\ worker[w].node \in Nodes /\ Bindable(u)
           /\ api'[u].node = worker[w].node
           /\ \A v \in Pods : /\ v # u => api'[v] = api[v]
                              /\ api'[v].stage = api[v].stage
                              /\ api'[v].marked = api[v].marked
                              /\ api'[v].deleting = api[v].deleting
<1> DEFINE u == worker[w].pod
<1>1. u \in Pods /\ worker[w].node \in Nodes /\ Bindable(u)
  BY DEF Bind, BindAnswerLost, TypeInv, WorkerInv, HasPod, HasNode
<1>2. api' = [api EXCEPT ![u].node = worker[w].node]
  BY DEF Bind, BindAnswerLost
<1>3. api \in [Pods -> PodObject] /\ api[u] \in PodObject
  BY <1>1 DEF TypeInv, TypeOK
<1>4. api' = [api EXCEPT ![u] = [api[u] EXCEPT !.node = worker[w].node]]
  BY <1>2
<1>5. /\ api'[u] = [api[u] EXCEPT !.node = worker[w].node]
      /\ \A v \in Pods : v # u => api'[v] = api[v]
  BY <1>1, <1>3, <1>4
<1>6. /\ api'[u].node = worker[w].node /\ api'[u].stage = api[u].stage
      /\ api'[u].marked = api[u].marked /\ api'[u].deleting = api[u].deleting
  BY <1>3, <1>5 DEF PodObject
<1> QED
  BY <1>1, <1>5, <1>6

(* The annotation marks the pod that has the worker's key now, or none.    *)
LEMMA MarkMoves ==
    ASSUME TypeOK, NEW w \in Workers, Annotate(w), NEW v \in Pods
    PROVE  /\ api'[v].node = api[v].node /\ api'[v].stage = api[v].stage
           /\ api'[v].deleting = api[v].deleting
           /\ \/ api'[v] = api[v]
              \/ v \in Named(worker[w].key) /\ api'[v].marked
<1>1. api[v] \in PodObject
  BY DEF TypeOK
<1>2. api'[v] = api[v] \/ (/\ v \in Named(worker[w].key)
                           /\ api'[v] = [api[v] EXCEPT !.marked = TRUE])
  BY DEF Annotate
<1> QED
  BY <1>1, <1>2 DEF PodObject

(* What any step may do to a pod: it is never unbound and never comes back.*)
LEMMA PodMoves ==
    ASSUME TypeInv, [Next]_vars, NEW u \in Pods
    PROVE  /\ api[u].node # None => api'[u].node = api[u].node
           /\ api[u].stage = "gone" => api'[u].stage = "gone"
           /\ api[u].stage # "absent" => api'[u].stage # "absent"
           /\ api[u].marked => api'[u].marked
<1> USE DEF TypeInv, TypeOK
<1>1. ASSUME NEW v \in Pods, Create(v) \/ Delete(v) \/ Kubelet(v)
      PROVE  /\ api'[u].node = api[u].node /\ api'[u].marked = api[u].marked
             /\ api[u].stage = "gone" => api'[u].stage = "gone"
             /\ api[u].stage # "absent" => api'[u].stage # "absent"
  BY <1>1, LifeMoves DEF Live
<1>2. ASSUME NEW w \in Workers, Bind(w) \/ BindAnswerLost(w)
      PROVE  /\ api[u].node # None => api'[u].node = api[u].node
             /\ api'[u].stage = api[u].stage /\ api'[u].marked = api[u].marked
  BY <1>2, BindMoves DEF Bindable
<1>3. ASSUME NEW w \in Workers, Annotate(w)
      PROVE  /\ api'[u].node = api[u].node /\ api'[u].stage = api[u].stage
             /\ api[u].marked => api'[u].marked
  BY <1>3, MarkMoves
<1>4. ASSUME \/ \E k \in Keys : Deliver(k)
             \/ HandleSeen \/ HandleDelete \/ Restart
      PROVE  UNCHANGED api
  BY <1>4 DEF Deliver, HandleSeen, HandleDelete, Restart
<1> QED
  BY <1>1, <1>2, <1>3, <1>4, WorkFrame DEF Next, Handler, Work

LEMMA PodsInit == Init => PodsInv
BY DEF Init, PodsInv, Live

LEMMA PodsStep == TypeInv /\ PodsInv /\ [Next]_vars => PodsInv'
<1> SUFFICES ASSUME TypeInv, PodsInv, [Next]_vars PROVE PodsInv'
  OBVIOUS
<1> DEFINE PodOK(u) == /\ api[u].stage = "absent" => api[u].node = None /\ ~api[u].marked
                       /\ api[u].stage \in {"running", "ended"} => api[u].node # None
           NamesOK == \A u, v \in Live : KeyOf[u] = KeyOf[v] => u = v
<1>1. TypeInv'
  BY TypeStep
<1>2. ASSUME NEW k \in Keys, lister' = lister, lister[k] # None
      PROVE  api'[lister'[k].pod].stage # "absent"
  <2>1. lister[k].pod \in Pods
    BY <1>2 DEF TypeInv, TypeOK, PodCopy
  <2> QED
    BY <1>2, <2>1, PodMoves DEF PodsInv
<1>3. ASSUME NEW i \in DOMAIN notes, notes[i].what # "seen"
      PROVE  api'[notes[i].copy.pod].stage = "gone"
  <2>1. notes[i].copy.pod \in Pods
    <3>1. notes \in Seq(Note)
      BY DEF TypeInv, TypeOK, Note
    <3>2. notes[i] \in Note
      BY <1>3, <3>1
    <3> QED
      BY <3>2 DEF Note, PodCopy
  <2> QED
    BY <1>3, <2>1, PodMoves DEF PodsInv
<1>4. ASSUME NEW u \in Pods, Create(u) \/ Delete(u) \/ Kubelet(u)
      PROVE  PodsInv'
  <2>1. UNCHANGED <<lister, notes>>
    BY <1>4 DEF Create, Delete, Kubelet, KubeletStart, KubeletEnd, Remove, memory
  <2>2. ASSUME NEW v \in Pods, PodOK(v) PROVE PodOK(v)'
    BY <1>4, <2>2, LifeMoves DEF TypeInv, Live
  <2>3. NamesOK'
    <3>1. CASE Create(u)
      <4>1. Live' = Live \cup {u}
        <5>1. api'[u].stage = "pending"
          BY <3>1 DEF Create, TypeInv, TypeOK, PodObject
        <5>2. \A v \in Pods : v # u => api'[v] = api[v]
          BY <3>1, LifeMoves DEF TypeInv
        <5> QED
          BY <5>1, <5>2 DEF Live
      <4>2. \A v \in Live : KeyOf[v] # KeyOf[u]
        BY <3>1 DEF Create, Named
      <4> QED
        BY <4>1, <4>2 DEF PodsInv
    <3>2. CASE Delete(u) \/ Kubelet(u)
      <4>1. Live' \subseteq Live
        BY <3>2, LifeMoves
        DEF Delete, Kubelet, KubeletStart, KubeletEnd, Remove, Live, TypeInv, TypeOK,
            PodObject
      <4> QED
        BY <4>1 DEF PodsInv
    <3> QED
      BY <1>4, <3>1, <3>2
  <2> QED
    BY <1>2, <1>3, <2>1, <2>2, <2>3 DEF PodsInv
<1>5. ASSUME NEW w \in Workers, Bind(w) \/ BindAnswerLost(w) \/ Annotate(w)
      PROVE  PodsInv'
  <2>1. UNCHANGED <<lister, notes>>
    BY <1>5 DEF Bind, BindAnswerLost, Annotate
  <2>2. Live' = Live
    BY <1>5, BindMoves, MarkMoves DEF TypeInv, Live
  <2>3. ASSUME NEW v \in Pods, PodOK(v) PROVE PodOK(v)'
    <3>1. CASE Bind(w) \/ BindAnswerLost(w)
      BY <2>3, <3>1, BindMoves, PodsAssumption DEF Bindable
    <3>2. CASE Annotate(w)
      BY <2>3, <3>2, MarkMoves DEF Named, Live, TypeInv
    <3> QED
      BY <1>5, <3>1, <3>2
  <2> QED
    BY <1>2, <1>3, <2>1, <2>2, <2>3 DEF PodsInv
<1>6. ASSUME NEW k \in Keys, Deliver(k) PROVE PodsInv'
  <2>1. UNCHANGED api
    BY <1>6 DEF Deliver
  <2>2. Live' = Live
    BY <2>1 DEF Live
  <2>3. ASSUME NEW l \in Keys, lister'[l] # None
        PROVE  api'[lister'[l].pod].stage # "absent"
    <3>1. CASE l = k
      <4>1. lister'[l] = Current(k)
        BY <1>6, <3>1 DEF Deliver, TypeInv, TypeOK
      <4> QED
        BY <2>1, <2>3, <4>1, CurrentType DEF TypeInv, Named, Live
    <3>2. CASE l # k
      <4>1. lister'[l] = lister[l]
        BY <1>6, <3>2 DEF Deliver, TypeInv, TypeOK
      <4> QED
        BY <2>1, <2>3, <4>1 DEF PodsInv
    <3> QED
      BY <3>1, <3>2
  <2>4. ASSUME NEW i \in DOMAIN notes', notes'[i].what # "seen"
        PROVE  api'[notes'[i].copy.pod].stage = "gone"
    <3> DEFINE note == notes'[Len(notes) + 1]
    <3>1. notes \in Seq(Note)
      BY DEF TypeInv, TypeOK, Note
    <3>2. PICK what \in {"seen", "deleted", "missed"}, copy \in PodCopy :
             /\ notes' = Append(notes, [what |-> what, copy |-> copy])
             /\ what # "seen" => Current(k) = None /\ copy = lister[k] /\ copy # None
      <4>1. CASE Current(k) = None
        <5>1. lister[k] \in PodCopy
          BY <1>6, <4>1 DEF Deliver, TypeInv, TypeOK
        <5> QED
          BY <1>6, <4>1, <5>1, NoneAssumption DEF Deliver, Notify
      <4>2. CASE Current(k) # None
        BY <1>6, <4>2, CurrentType DEF Deliver, Notify, TypeInv
      <4> QED
        BY <4>1, <4>2
    <3>3. CASE i = Len(notes) + 1
      <4>1. notes'[i] = [what |-> what, copy |-> copy]
        BY <3>1, <3>2, <3>3, AppendFacts DEF Note
      <4>2. copy = lister[k] /\ copy # None /\ Named(k) = {}
        <5>1. Current(k) = None /\ copy = lister[k] /\ copy # None
          BY <2>4, <3>2, <4>1
        <5>2. ASSUME NEW u \in Pods PROVE CopyOf(u) # None
          BY CopyType, NoneAssumption DEF TypeInv
        <5> QED
          BY <5>1, <5>2 DEF Current, Named, Live
      <4>3. /\ copy.pod \in Pods /\ KeyOf[copy.pod] = k
            /\ api[copy.pod].stage # "absent"
        BY <4>2 DEF PodCopy, TypeInv, ListerInv, PodsInv
      <4>4. copy.pod \notin Live
        BY <4>2, <4>3 DEF Named
      <4>5. api[copy.pod].stage = "gone"
        BY <4>3, <4>4 DEF Live, TypeInv, TypeOK, PodObject, Stages
      <4> QED
        BY <2>1, <4>1, <4>5
    <3>4. CASE i # Len(notes) + 1
      <4>1. i \in DOMAIN notes /\ notes'[i] = notes[i]
        BY <3>1, <3>2, <3>4, AppendFacts DEF Note
      <4> QED
        BY <1>3, <2>4, <4>1
    <3> QED
      BY <3>3, <3>4
  <2> QED
    BY <2>1, <2>2, <2>3, <2>4 DEF PodsInv
<1>7. ASSUME HandleSeen \/ HandleDelete PROVE PodsInv'
  <2>1. UNCHANGED <<api, lister>> /\ notes # <<>> /\ notes' = Tail(notes)
    BY <1>7 DEF HandleSeen, HandleDelete
  <2>2. Live' = Live
    BY <2>1 DEF Live
  <2>3. ASSUME NEW i \in DOMAIN notes', notes'[i].what # "seen"
        PROVE  api'[notes'[i].copy.pod].stage = "gone"
    <3>1. notes \in Seq(Note)
      BY DEF TypeInv, TypeOK, Note
    <3>2. i + 1 \in DOMAIN notes /\ notes'[i] = notes[i + 1]
      BY <2>1, <3>1, TailFacts
    <3> QED
      BY <1>3, <2>3, <3>2
  <2> QED
    BY <2>1, <2>2, <2>3 DEF PodsInv
<1>8. CASE Restart
  BY <1>8 DEF Restart, PodsInv, Live
<1>9. CASE UNCHANGED <<api, lister, notes>>
  BY <1>9 DEF PodsInv, Live
<1> QED
  BY <1>4, <1>5, <1>6, <1>7, <1>8, <1>9, WorkFrame DEF Next, Handler, Work

-----------------------------------------------------------------------------
(* The work queue                                                          *)

(* The keys in the queue are those that need processing and that no worker *)
(* has, each once.  What a worker has it alone has, and nothing else is    *)
(* held back.                                                              *)
QueueOK ==
    /\ \A k \in dirty \ processing : \E i \in DOMAIN queue : queue[i] = k
    /\ \A i \in DOMAIN queue : queue[i] \in dirty \ processing
    /\ \A i, j \in DOMAIN queue : queue[i] = queue[j] => i = j

HeldOK ==
    /\ \A k \in processing : \E w \in Workers : worker[w].at # "idle" /\ worker[w].key = k
    /\ \A w \in Workers : worker[w].at # "idle" => worker[w].key \in processing
    /\ \A v, w \in Workers :
          /\ worker[v].at # "idle" /\ worker[w].at # "idle"
          /\ worker[v].key = worker[w].key
          => v = w

QueueInv == QueueOK /\ HeldOK

LEMMA AppendQueue ==
    ASSUME QueueTypeOK, QueueOK, NEW k \in Keys, k \notin dirty \ processing,
           queue' = Append(queue, k), dirty' \ processing' = (dirty \ processing) \cup {k}
    PROVE  QueueOK'
<1>1. /\ queue \in Seq(Keys) /\ DOMAIN queue = 1..Len(queue) /\ Len(queue) \in Nat
      /\ DOMAIN queue' = 1..Len(queue) + 1
      /\ \A i \in DOMAIN queue : queue'[i] = queue[i]
      /\ queue'[Len(queue) + 1] = k
  BY AppendFacts DEF QueueTypeOK
<1>2. \A i \in DOMAIN queue : queue[i] # k
  BY DEF QueueOK
<1>3. \A i \in DOMAIN queue' : i \in DOMAIN queue \/ i = Len(queue) + 1
  BY <1>1
<1>4. DOMAIN queue \subseteq DOMAIN queue' /\ Len(queue) + 1 \in DOMAIN queue'
  BY <1>1
<1> QED
  BY <1>1, <1>2, <1>3, <1>4 DEF QueueOK

LEMMA AddQueue ==
    ASSUME QueueTypeOK, QueueOK, NEW k \in Keys, Add(k), UNCHANGED processing
    PROVE  QueueOK' /\ dirty' = dirty \cup {k}
<1>1. CASE k \in dirty \/ k \in processing
  BY <1>1 DEF Add, QueueOK
<1>2. CASE k \notin dirty /\ k \notin processing
  BY <1>2, AppendQueue DEF Add
<1> QED
  BY <1>1, <1>2

LEMMA GetQueue ==
    ASSUME QueueTypeOK, QueueOK, NEW k \in Keys, Get(k)
    PROVE  /\ QueueOK'
           /\ k \notin processing
           /\ dirty' = dirty \ {k} /\ processing' = processing \cup {k}
<1>1. /\ queue # <<>> /\ k = queue[1] /\ 1 \in DOMAIN queue
      /\ Len(queue) \in Nat \ {0}
      /\ DOMAIN queue = 1..Len(queue) /\ DOMAIN queue' = 1..Len(queue) - 1
      /\ \A i \in DOMAIN queue' : queue'[i] = queue[i + 1]
  BY TailFacts DEF Get, QueueTypeOK
<1>2. dirty' = dirty \ {k} /\ processing' = processing \cup {k}
  BY DEF Get
<1>3. k \in dirty \ processing
  BY <1>1 DEF QueueOK
<1>4. ASSUME NEW l \in dirty' \ processing'
      PROVE  \E i \in DOMAIN queue' : queue'[i] = l
  <2>1. l \in dirty \ processing /\ l # k
    BY <1>2, <1>4
  <2>2. PICK i \in DOMAIN queue : queue[i] = l
    BY <2>1 DEF QueueOK
  <2>3. i # 1
    BY <1>1, <2>1, <2>2
  <2>4. i - 1 \in DOMAIN queue' /\ queue'[i - 1] = queue[(i - 1) + 1] /\ (i - 1) + 1 = i
    BY <1>1, <2>3
  <2> QED
    BY <2>2, <2>4
<1>5. ASSUME NEW i \in DOMAIN queue' PROVE queue'[i] \in dirty' \ processing'
  <2>1. i + 1 \in DOMAIN queue /\ i + 1 # 1 /\ queue'[i] = queue[i + 1]
    BY <1>1
  <2>2. queue[i + 1] # k /\ queue[i + 1] \in dirty \ processing
    BY <1>1, <2>1 DEF QueueOK
  <2> QED
    BY <1>2, <2>1, <2>2
<1>6. ASSUME NEW i \in DOMAIN queue', NEW j \in DOMAIN queue', queue'[i] = queue'[j]
      PROVE  i = j
  <2>1. /\ i + 1 \in DOMAIN queue /\ j + 1 \in DOMAIN queue
        /\ queue[i + 1] = queue[j + 1]
    BY <1>1, <1>6
  <2>2. i + 1 = j + 1
    BY <2>1 DEF QueueOK
  <2> QED
    BY <1>1, <2>2
<1> QED
  BY <1>2, <1>3, <1>4, <1>5, <1>6 DEF QueueOK

LEMMA DoneQueue ==
    ASSUME QueueTypeOK, QueueOK, NEW k \in processing, Done(k)
    PROVE  QueueOK' /\ dirty' = dirty /\ processing' = processing \ {k}
<1>1. dirty' = dirty /\ processing' = processing \ {k} /\ k \in Keys
  BY DEF Done, QueueTypeOK
<1>2. CASE k \in dirty
  BY <1>1, <1>2, AppendQueue DEF Done
<1>3. CASE k \notin dirty
  BY <1>1, <1>3 DEF Done, QueueOK
<1> QED
  BY <1>1, <1>2, <1>3

(* A worker that is done leaves its key to the queue.                      *)
LEMMA LeavingQueue ==
    ASSUME TypeInv, QueueInv, NEW w \in Workers, worker[w].at # "idle",
           Forget(w) \/ Retry(w)
    PROVE  /\ QueueInv'
           /\ dirty' = dirty /\ processing' = processing \ {worker[w].key}
           /\ worker'[w] = IdleWorker
           /\ \A v \in Workers : v # w => worker'[v] = worker[v]
<1>1. worker[w].key \in processing /\ QueueTypeOK /\ Done(worker[w].key)
  BY DEF QueueInv, HeldOK, TypeInv, TypeOK, Forget, Retry
<1>2. QueueOK' /\ dirty' = dirty /\ processing' = processing \ {worker[w].key}
  BY <1>1, DoneQueue DEF QueueInv
<1>3. worker'[w] = IdleWorker /\ \A v \in Workers : v # w => worker'[v] = worker[v]
  BY DEF Forget, Retry, TypeInv, TypeOK
<1>4. worker'[w].at = "idle"
  BY <1>3 DEF IdleWorker
<1>5. HeldOK'
  BY <1>2, <1>3, <1>4 DEF QueueInv, HeldOK
<1> QED
  BY <1>2, <1>3, <1>5 DEF QueueInv

(* A worker that goes on with its key.                                     *)
LEMMA GoingOnQueue ==
    ASSUME TypeInv, QueueInv, UNCHANGED queueVars,
           \A w \in Workers : /\ worker'[w].at # "idle" <=> worker[w].at # "idle"
                              /\ worker'[w].key = worker[w].key
    PROVE  QueueInv'
BY DEF QueueInv, QueueOK, HeldOK, queueVars

LEMMA QueueInit == Init => QueueInv
BY DEF Init, EmptyQueue, QueueInv, QueueOK, HeldOK, IdleWorker

LEMMA QueueStep == TypeInv /\ QueueInv /\ [Next]_vars => QueueInv'
<1> SUFFICES ASSUME TypeInv, QueueInv, [Next]_vars PROVE QueueInv'
  OBVIOUS
<1>1. QueueTypeOK
  BY DEF TypeInv, TypeOK
<1>2. CASE UNCHANGED <<queueVars, worker>>
  BY <1>2, GoingOnQueue
<1>3. ASSUME \/ \E u \in Pods : Create(u) \/ Delete(u) \/ Kubelet(u)
             \/ \E k \in Keys : Deliver(k)
             \/ HandleDelete \/ DropState \/ UNCHANGED vars
      PROVE  UNCHANGED <<queueVars, worker>>
  BY <1>3
  DEF Create, Delete, Kubelet, KubeletStart, KubeletEnd, Remove, Deliver, HandleDelete,
      DropState, vars, memory
<1>4. ASSUME UNCHANGED <<worker, processing>>,
             UNCHANGED <<queue, dirty>> \/ \E k \in Keys : Add(k)
      PROVE  QueueInv'
  <2>1. QueueOK'
    BY <1>1, <1>4, AddQueue DEF QueueInv, QueueOK
  <2> QED
    BY <1>4, <2>1 DEF QueueInv, HeldOK
<1>5. ASSUME NEW k \in Keys, ExpireKey(k) PROVE QueueInv'
  BY <1>4, <1>5 DEF ExpireKey, Expire, memory
<1>6. ASSUME HandleSeen \/ WriteObserved PROVE QueueInv'
  <2>1. UNCHANGED <<worker, processing>>
    BY <1>6 DEF HandleSeen, WriteObserved
  <2>2. ASSUME NEW copy \in PodCopy, Leave(copy)
        PROVE  UNCHANGED <<queue, dirty>> \/ \E k \in Keys : Add(k)
    <3>1. KeyOf[copy.pod] \in Keys
      BY PodsAssumption DEF PodCopy
    <3> QED
      BY <2>2, <3>1 DEF Leave
  <2>3. CASE HandleSeen
    <3>1. Head(notes).copy \in PodCopy
      BY <2>3, HeadNote DEF HandleSeen, TypeInv
    <3> QED
      BY <1>4, <2>1, <2>2, <2>3, <3>1 DEF HandleSeen
  <2>4. CASE WriteObserved
    <3>1. handler.copy \in PodCopy
      BY <2>4 DEF WriteObserved, TypeInv, HandlerInv
    <3> QED
      BY <1>4, <2>1, <2>2, <2>4, <3>1 DEF WriteObserved
  <2> QED
    BY <1>6, <2>3, <2>4
<1>7. ASSUME NEW w \in Workers, Take(w) PROVE QueueInv'
  <2>1. PICK k \in Keys :
           /\ Get(k)
           /\ worker' = [worker EXCEPT ![w].at = "look", ![w].key = k]
    BY <1>7 DEF Take
  <2>2. /\ worker[w].at = "idle"
        /\ worker'[w].at = "look" /\ worker'[w].key = k
        /\ \A v \in Workers : v # w => worker'[v] = worker[v]
    BY <1>7, <2>1 DEF Take, TypeInv, TypeOK
  <2>3. /\ QueueOK' /\ k \notin processing
        /\ processing' = processing \cup {k}
    BY <1>1, <2>1, GetQueue DEF QueueInv
  <2>4. HeldOK'
    BY <2>2, <2>3 DEF QueueInv, HeldOK
  <2> QED
    BY <2>3, <2>4 DEF QueueInv
<1>8. ASSUME NEW w \in Workers, LookUp(w) PROVE QueueInv'
  <2>1. CASE ShouldSchedule(lister[worker[w].key])
    <3>1. /\ UNCHANGED queueVars
          /\ worker' = [worker EXCEPT ![w].at = "list",
                                      ![w].pod = lister[worker[w].key].pod]
          /\ worker[w].at = "look"
      BY <1>8, <2>1 DEF LookUp
    <3>2. \A v \in Workers : /\ worker'[v].at # "idle" <=> worker[v].at # "idle"
                             /\ worker'[v].key = worker[v].key
      BY <3>1 DEF TypeInv, TypeOK
    <3> QED
      BY <3>1, <3>2, GoingOnQueue
  <2>2. CASE ~ShouldSchedule(lister[worker[w].key])
    BY <1>8, <2>2, LeavingQueue DEF LookUp
  <2> QED
    BY <2>1, <2>2
<1>9. ASSUME NEW w \in Workers, Choose(w) \/ Bind(w) \/ Annotate(w) PROVE QueueInv'
  <2>1. UNCHANGED queueVars
    BY <1>9 DEF Choose, Bind, Annotate
  <2>2. \A v \in Workers : /\ worker'[v].at # "idle" <=> worker[v].at # "idle"
                           /\ worker'[v].key = worker[v].key
    <3>1. CASE Choose(w)
      <4>1. PICK n \in Nodes : worker' = [worker EXCEPT ![w].at = "bind", ![w].node = n]
        BY <3>1 DEF Choose, Candidates
      <4> QED
        BY <3>1, <4>1 DEF Choose, TypeInv, TypeOK
    <3>2. CASE Bind(w) \/ Annotate(w)
      <4>1. PICK at \in {"annotate", "record"} : worker' = [worker EXCEPT ![w].at = at]
        BY <3>2 DEF Bind, Annotate, Goto
      <4>2. worker[w].at # "idle"
        BY <3>2 DEF Bind, Annotate
      <4> QED
        BY <4>1, <4>2 DEF TypeInv, TypeOK
    <3> QED
      BY <1>9, <3>1, <3>2
  <2> QED
    BY <2>1, <2>2, GoingOnQueue
<1>10. ASSUME NEW w \in Workers,
              Defer(w) \/ GiveUp(w) \/ BindAnswerLost(w) \/ BindFails(w) \/ Record(w)
       PROVE  QueueInv'
  <2>1. worker[w].at # "idle" /\ (Forget(w) \/ Retry(w))
    BY <1>10 DEF Defer, GiveUp, BindAnswerLost, BindFails, Record
  <2> QED
    BY <2>1, LeavingQueue
<1>11. CASE Restart
  BY <1>11 DEF Restart, LoseQueue, QueueInv, QueueOK, HeldOK, IdleWorker
<1> QED
  BY <1>2, <1>3, <1>5, <1>6, <1>7, <1>8, <1>9, <1>10, <1>11 DEF Next, Handler, Work

-----------------------------------------------------------------------------
(* Decision lines and marks                                                *)

BindingInv ==
    /\ \A w \in Workers : worker[w].at \in {"annotate", "record"} =>
          /\ api[worker[w].pod].node = worker[w].node
          /\ decisions[worker[w].pod] = <<>>
    /\ \A u \in Pods : decisions[u] # <<>> =>
          /\ api[u].node # None
          /\ decisions[u] = <<api[u].node>>

LEMMA BindingInit == Init => BindingInv
BY DEF Init, BindingInv, IdleWorker

(* It is enough that nodes stay bound, that no line is written, and that   *)
(* no other worker comes to have a binding.                                *)
LEMMA BindingFrame ==
    ASSUME TypeInv, BindingInv, [Next]_vars, UNCHANGED decisions,
           \A w \in Workers : worker'[w].at \in {"annotate", "record"} =>
               \/ /\ worker[w].at \in {"annotate", "record"}
                  /\ worker'[w].pod = worker[w].pod /\ worker'[w].node = worker[w].node
               \/ /\ worker'[w].pod \in Pods
                  /\ api'[worker'[w].pod].node = worker'[w].node
                  /\ decisions[worker'[w].pod] = <<>>
    PROVE  BindingInv'
<1>1. ASSUME NEW w \in Workers, worker'[w].at \in {"annotate", "record"}
      PROVE  /\ api'[worker'[w].pod].node = worker'[w].node
             /\ decisions'[worker'[w].pod] = <<>>
  <2>1. CASE /\ worker[w].at \in {"annotate", "record"}
             /\ worker'[w].pod = worker[w].pod /\ worker'[w].node = worker[w].node
    <3>1. worker[w].pod \in Pods /\ worker[w].node # None
      BY <2>1, PodsAssumption DEF TypeInv, WorkerInv, HasPod, HasNode
    <3>2. /\ api[worker[w].pod].node = worker[w].node
          /\ decisions[worker[w].pod] = <<>>
      BY <2>1 DEF BindingInv
    <3> QED
      BY <2>1, <3>1, <3>2, PodMoves
  <2> QED
    BY <1>1, <2>1
<1>2. ASSUME NEW u \in Pods, decisions'[u] # <<>>
      PROVE  api'[u].node # None /\ decisions'[u] = <<api'[u].node>>
  BY <1>2, PodMoves DEF BindingInv
<1> QED
  BY <1>1, <1>2 DEF BindingInv

LEMMA BindingStep == TypeInv /\ QueueInv /\ BindingInv /\ [Next]_vars => BindingInv'
<1> SUFFICES ASSUME TypeInv, QueueInv, BindingInv, [Next]_vars PROVE BindingInv'
  OBVIOUS
<1>1. worker \in [Workers -> WorkerRecord] /\ decisions \in [Pods -> Seq(Nodes)]
  BY DEF TypeInv, TypeOK, WorkerRecord
<1>2. CASE UNCHANGED <<worker, decisions>>
  BY <1>2, BindingFrame
<1>3. ASSUME \/ \E u \in Pods : Create(u) \/ Delete(u) \/ Kubelet(u)
             \/ \E k \in Keys : Deliver(k) \/ ExpireKey(k)
             \/ Handler \/ UNCHANGED vars
      PROVE  UNCHANGED <<worker, decisions>>
  BY <1>3
  DEF Create, Delete, Kubelet, KubeletStart, KubeletEnd, Remove, Deliver, ExpireKey,
      Handler, HandleSeen, HandleDelete, WriteObserved, DropState, vars, memory, lines
<1>4. ASSUME NEW w \in Workers, worker'[w].at \notin {"annotate", "record"},
             \A v \in Workers : v # w => worker'[v] = worker[v],
             UNCHANGED decisions
      PROVE  BindingInv'
  BY <1>4, BindingFrame
<1>5. ASSUME NEW w \in Workers, Take(w) \/ LookUp(w) \/ Choose(w)
      PROVE  BindingInv'
  <2>1. UNCHANGED decisions
    BY <1>5 DEF Take, LookUp, Choose, lines
  <2>2. PICK r : worker' = [worker EXCEPT ![w] = r] /\ r.at \notin {"annotate", "record"}
    <3>1. CASE Take(w)
      <4>1. PICK k \in Keys : worker' = [worker EXCEPT ![w].at = "look", ![w].key = k]
        BY <3>1 DEF Take
      <4>2. worker' = [worker EXCEPT ![w] = [worker[w] EXCEPT !.at = "look", !.key = k]]
        BY <1>1, <4>1
      <4>3. [worker[w] EXCEPT !.at = "look", !.key = k].at = "look"
        BY <1>1 DEF WorkerRecord
      <4> QED
        BY <4>2, <4>3
    <3>2. CASE LookUp(w)
      <4>1. CASE Forget(w)
        <5>1. worker' = [worker EXCEPT ![w] = IdleWorker]
          BY <4>1 DEF Forget
        <5>2. IdleWorker.at \notin {"annotate", "record"}
          BY DEF IdleWorker
        <5> QED
          BY <5>1, <5>2
      <4>2. CASE ~Forget(w)
        <5> DEFINE u == lister[worker[w].key].pod
        <5>1. worker' = [worker EXCEPT ![w].at = "list", ![w].pod = u]
          BY <3>2, <4>2 DEF LookUp
        <5>2. worker' = [worker EXCEPT ![w] = [worker[w] EXCEPT !.at = "list", !.pod = u]]
          BY <1>1, <5>1
        <5>3. [worker[w] EXCEPT !.at = "list", !.pod = u].at = "list"
          BY <1>1 DEF WorkerRecord
        <5> QED
          BY <5>2, <5>3
      <4> QED
        BY <4>1, <4>2
    <3>3. CASE Choose(w)
      <4>1. PICK n \in Nodes : worker' = [worker EXCEPT ![w].at = "bind", ![w].node = n]
        BY <3>3 DEF Choose, Candidates
      <4>2. worker' = [worker EXCEPT ![w] = [worker[w] EXCEPT !.at = "bind", !.node = n]]
        BY <1>1, <4>1
      <4>3. [worker[w] EXCEPT !.at = "bind", !.node = n].at = "bind"
        BY <1>1 DEF WorkerRecord
      <4> QED
        BY <4>2, <4>3
    <3> QED
      BY <1>5, <3>1, <3>2, <3>3
  <2> QED
    BY <1>1, <1>4, <2>1, <2>2
<1>6. ASSUME NEW w \in Workers, Defer(w) \/ GiveUp(w) \/ BindAnswerLost(w) \/ BindFails(w)
      PROVE  BindingInv'
  <2>1. worker[w].at # "idle" /\ Retry(w) /\ UNCHANGED decisions
    BY <1>6 DEF Defer, GiveUp, BindAnswerLost, BindFails, lines
  <2>2. worker'[w] = IdleWorker /\ \A v \in Workers : v # w => worker'[v] = worker[v]
    BY <2>1, LeavingQueue
  <2> QED
    BY <1>4, <2>1, <2>2 DEF IdleWorker
<1>7. ASSUME NEW w \in Workers, Bind(w) PROVE BindingInv'
  <2>1. worker' = [worker EXCEPT ![w] = [worker[w] EXCEPT !.at = "annotate"]]
    BY <1>1, <1>7 DEF Bind, Goto
  <2>2. /\ worker'[w].pod = worker[w].pod /\ worker'[w].node = worker[w].node
        /\ \A v \in Workers : v # w => worker'[v] = worker[v]
    BY <1>1, <2>1 DEF WorkerRecord
  <2>3. /\ worker[w].pod \in Pods
        /\ api'[worker[w].pod].node = worker[w].node
        /\ api[worker[w].pod].node = None
    BY <1>7, BindMoves DEF Bindable
  <2>4. decisions[worker[w].pod] = <<>>
    BY <2>3 DEF BindingInv
  <2> QED
    BY <1>7, <2>2, <2>3, <2>4, BindingFrame DEF Bind, lines
<1>8. ASSUME NEW w \in Workers, Annotate(w) PROVE BindingInv'
  <2>1. worker' = [worker EXCEPT ![w] = [worker[w] EXCEPT !.at = "record"]]
    BY <1>1, <1>8 DEF Annotate, Goto
  <2>2. /\ worker'[w].pod = worker[w].pod /\ worker'[w].node = worker[w].node
        /\ \A v \in Workers : v # w => worker'[v] = worker[v]
    BY <1>1, <2>1 DEF WorkerRecord
  <2> QED
    BY <1>8, <2>2, BindingFrame DEF Annotate, lines
<1>9. ASSUME NEW w \in Workers, Record(w) PROVE BindingInv'
  <2> DEFINE u == worker[w].pod
  <2>1. /\ worker[w].at = "record" /\ Forget(w) /\ UNCHANGED api
        /\ decisions' = [decisions EXCEPT ![u] = Append(@, worker[w].node)]
    BY <1>9 DEF Record
  <2>2. u \in Pods /\ worker[w].node \in Nodes /\ worker[w].node # None
    BY <2>1, PodsAssumption DEF TypeInv, WorkerInv, HasPod, HasNode
  <2>3. decisions[u] = <<>> /\ api[u].node = worker[w].node
    BY <2>1 DEF BindingInv
  <2>4. /\ decisions'[u] = <<worker[w].node>>
        /\ \A v \in Pods : v # u => decisions'[v] = decisions[v]
    BY <1>1, <2>1, <2>2, <2>3
  <2>5. worker'[w] = IdleWorker /\ \A v \in Workers : v # w => worker'[v] = worker[v]
    BY <2>1, LeavingQueue
  <2>6. ASSUME NEW v \in Workers, worker'[v].at \in {"annotate", "record"}
        PROVE  /\ api'[worker'[v].pod].node = worker'[v].node
               /\ decisions'[worker'[v].pod] = <<>>
    <3>1. v # w /\ worker'[v] = worker[v]
      BY <2>5, <2>6 DEF IdleWorker
    <3>2. worker[v].pod # u
      <4>1. worker[v].key # worker[w].key
        BY <2>1, <2>6, <3>1 DEF QueueInv, HeldOK
      <4> QED
        BY <2>1, <2>6, <3>1, <4>1 DEF TypeInv, WorkerInv, HasPod
    <3>3. worker[v].pod \in Pods
      BY <2>6, <3>1 DEF TypeInv, WorkerInv, HasPod
    <3> QED
      BY <2>1, <2>4, <2>6, <3>1, <3>2, <3>3 DEF BindingInv
  <2>7. ASSUME NEW v \in Pods, decisions'[v] # <<>>
        PROVE  api'[v].node # None /\ decisions'[v] = <<api'[v].node>>
    BY <2>1, <2>2, <2>3, <2>4, <2>7 DEF BindingInv
  <2> QED
    BY <2>6, <2>7 DEF BindingInv
<1>10. CASE Restart
  BY <1>10, BindingFrame DEF Restart, IdleWorker, lines
<1> QED
  BY <1>2, <1>3, <1>5, <1>6, <1>7, <1>8, <1>9, <1>10 DEF Next, Work

(* All that has been proved so far, together.                              *)
StateInv == TypeInv /\ PodsInv /\ QueueInv /\ BindingInv

LEMMA StateInvariant == Spec => []StateInv
<1>1. Init => StateInv
  BY TypeInit, PodsInit, QueueInit, BindingInit DEF StateInv
<1>2. StateInv /\ [Next]_vars => StateInv'
  BY TypeStep, PodsStep, QueueStep, BindingStep DEF StateInv
<1> QED
  BY <1>1, <1>2, PTL DEF Spec

(* DecisionIsBinding: whatever fails and however often the controller      *)
(* starts again, a pod has at most one decision line, and it names the     *)
(* node that the pod is bound to (main.go: schedulePod, bindPod).          *)
THEOREM DecisionLinesAreTrue == Spec => []DecisionIsBinding
<1>1. StateInv => DecisionIsBinding
  <2> SUFFICES ASSUME StateInv, NEW u \in Pods
               PROVE  /\ Len(decisions[u]) <= 1
                      /\ decisions[u] # <<>> => decisions[u][1] = api[u].node
    BY DEF DecisionIsBinding
  <2>1. CASE decisions[u] = <<>>
    BY <2>1
  <2>2. CASE decisions[u] # <<>>
    <3>1. decisions[u] = <<api[u].node>>
      BY <2>2 DEF StateInv, BindingInv
    <3>2. \A n : Len(<<n>>) = 1 /\ <<n>>[1] = n
      OBVIOUS
    <3> QED
      BY <3>1, <3>2
  <2> QED
    BY <2>1, <2>2
<1> QED
  BY <1>1, StateInvariant, PTL

(* Only annotatePod marks a pod, and it finds the pod by its name.         *)
LEMMA MarkCause ==
    ASSUME TypeInv, [Next]_vars, NEW u \in Pods, api'[u].marked, ~api[u].marked
    PROVE  \E w \in Workers : Annotate(w) /\ u \in Named(worker[w].key)
<1>1. ASSUME NEW v \in Pods, Create(v) \/ Delete(v) \/ Kubelet(v) PROVE FALSE
  BY <1>1, LifeMoves DEF TypeInv
<1>2. ASSUME NEW w \in Workers, Bind(w) \/ BindAnswerLost(w) PROVE FALSE
  BY <1>2, BindMoves
<1>3. ASSUME NEW w \in Workers, Annotate(w) PROVE u \in Named(worker[w].key)
  BY <1>3, MarkMoves DEF TypeInv
<1>4. ASSUME \/ \E k \in Keys : Deliver(k)
             \/ HandleSeen \/ HandleDelete \/ Restart
      PROVE  FALSE
  BY <1>4 DEF Deliver, HandleSeen, HandleDelete, Restart
<1> QED
  BY <1>1, <1>2, <1>3, <1>4, WorkFrame DEF Next, Handler, Work

LEMMA MarkStep == StateInv /\ MarkedIsBound /\ [Next]_vars => MarkedIsBound'
<1> SUFFICES ASSUME StateInv, MarkedIsBound, [Next]_vars,
                    NEW u \in Live', api'[u].marked
             PROVE  \/ api'[u].node # None
                    \/ \E v \in Pods \ {u} :
                          KeyOf[v] = KeyOf[u] /\ api'[v].stage = "gone" /\ api'[v].node # None
  BY DEF MarkedIsBound
<1>1. TypeInv /\ u \in Pods
  BY DEF StateInv, Live
<1>2. CASE api[u].marked
  <2>1. u \in Live
    <3>1. api[u].stage # "absent" /\ api[u].stage # "gone"
      BY <1>1, <1>2, PodMoves DEF StateInv, PodsInv, Live
    <3> QED
      BY <1>1, <3>1 DEF Live, TypeInv, TypeOK, PodObject, Stages
  <2>2. CASE api[u].node # None
    BY <1>1, <2>2, PodMoves
  <2>3. CASE \E v \in Pods \ {u} :
                KeyOf[v] = KeyOf[u] /\ api[v].stage = "gone" /\ api[v].node # None
    BY <1>1, <2>3, PodMoves
  <2> QED
    BY <1>2, <2>1, <2>2, <2>3 DEF MarkedIsBound
<1>3. CASE ~api[u].marked
  <2>1. PICK w \in Workers : Annotate(w) /\ u \in Named(worker[w].key)
    BY <1>1, <1>3, MarkCause
  <2> DEFINE v == worker[w].pod
  <2>2. v \in Pods /\ KeyOf[v] = worker[w].key /\ worker[w].node # None
    BY <2>1, PodsAssumption
    DEF Annotate, StateInv, TypeInv, WorkerInv, HasPod, HasNode
  <2>3. api[v].node # None
    BY <2>1, <2>2 DEF Annotate, StateInv, BindingInv
  <2>4. u \in Live /\ KeyOf[u] = KeyOf[v]
    BY <2>1, <2>2 DEF Named
  <2>5. CASE v = u
    BY <1>1, <2>3, <2>5, PodMoves
  <2>6. CASE v # u
    <3>1. v \notin Live /\ api[v].stage # "absent"
      BY <2>2, <2>3, <2>4, <2>6 DEF StateInv, PodsInv
    <3>2. api[v].stage = "gone"
      BY <1>1, <2>2, <3>1 DEF Live, TypeInv, TypeOK, PodObject, Stages
    <3> QED
      BY <1>1, <2>2, <2>3, <2>4, <2>6, <3>2, PodMoves
  <2> QED
    BY <2>5, <2>6
<1> QED
  BY <1>2, <1>3

(* MarkedIsBound: no pod is annotated without a node, so that the handlers *)
(* would leave it alone for ever, but for one that follows a bound pod of  *)
(* the same name (main.go: annotatePod, shouldSchedule).                   *)
THEOREM MarksFollowBindings == Spec => []MarkedIsBound
<1>1. Init => MarkedIsBound
  BY DEF Init, MarkedIsBound, Live
<1> QED
  BY <1>1, MarkStep, StateInvariant, PTL DEF Spec

-----------------------------------------------------------------------------
(* Who attends to a pod: its key needs processing or will be added again,  *)
(* or a worker has it that has not bound yet.                              *)
Attended(u) ==
    \/ KeyOf[u] \in dirty \cup delayed
    \/ \E w \in Workers : /\ worker[w].at \in {"look", "list", "bind"}
                          /\ worker[w].key = KeyOf[u]

AttendedInv == \A u \in Pods : Waiting(u) => Attended(u) \/ NewsOf(u)

LEMMA WaitingMeans ==
    ASSUME TypeOK, NEW u \in Pods
    PROVE  /\ CopyOf(u) # None
           /\ Waiting(u) <=> /\ u \in Live
                             /\ ~api[u].deleting /\ api[u].node = None /\ ~api[u].marked
<1>1. CopyOf(u) # None
  BY CopyType, NoneAssumption
<1>2. /\ CopyOf(u).deleting = api[u].deleting
      /\ CopyOf(u).node = api[u].node
      /\ CopyOf(u).marked = api[u].marked
  BY DEF CopyOf
<1> QED
  BY <1>1, <1>2 DEF Waiting, ShouldSchedule

(* A pod that waits was created just now, or nothing has happened to it.   *)
LEMMA WaitingMoves ==
    ASSUME StateInv, [Next]_vars, NEW u \in Pods, Waiting(u)'
    PROVE  \/ Create(u)
           \/ Waiting(u) /\ api'[u] = api[u] /\ CopyOf(u)' = CopyOf(u)
<1>1. TypeInv /\ TypeOK /\ TypeOK'
  BY TypeStep DEF StateInv, TypeInv
<1>2. /\ api'[u].stage \in {"pending", "running", "ended"}
      /\ ~api'[u].deleting /\ api'[u].node = None /\ ~api'[u].marked
  <2>1. CopyOf(u)'.deleting = api'[u].deleting /\ CopyOf(u)'.node = api'[u].node
        /\ CopyOf(u)'.marked = api'[u].marked
    BY DEF CopyOf
  <2> QED
    BY <2>1 DEF Waiting, ShouldSchedule, Live
<1>3. ASSUME api'[u] = api[u]
      PROVE  Waiting(u) /\ CopyOf(u)' = CopyOf(u)
  <2>1. CopyOf(u)' = CopyOf(u)
    BY <1>3 DEF CopyOf
  <2> QED
    BY <1>2, <1>3, <2>1, <1>1, WaitingMeans DEF Live
<1>4. ASSUME NEW v \in Pods, Create(v) \/ Delete(v) \/ Kubelet(v)
      PROVE  Create(u) \/ api'[u] = api[u]
  <2>1. CASE v # u
    BY <1>1, <1>4, <2>1, LifeMoves
  <2>2. CASE v = u
    <3>1. ASSUME Delete(u) PROVE FALSE
      BY <1>1, <1>2, <3>1 DEF Delete, TypeOK, PodObject
    <3>2. ASSUME KubeletStart(u) \/ KubeletEnd(u) PROVE FALSE
      <4>1. api[u].node # None
        BY <3>2 DEF KubeletStart, KubeletEnd, StateInv, PodsInv
      <4> QED
        BY <1>1, <1>2, <4>1, PodMoves
    <3>3. ASSUME Remove(u) PROVE FALSE
      BY <1>1, <1>2, <3>3 DEF Remove, TypeOK, PodObject
    <3> QED
      BY <1>4, <2>2, <3>1, <3>2, <3>3 DEF Kubelet
  <2> QED
    BY <2>1, <2>2
<1>5. ASSUME NEW w \in Workers, Bind(w) \/ BindAnswerLost(w)
      PROVE  api'[u] = api[u]
  <2>1. worker[w].pod # u
    BY <1>1, <1>2, <1>5, BindMoves, PodsAssumption
  <2> QED
    BY <1>1, <1>5, <2>1, BindMoves
<1>6. ASSUME NEW w \in Workers, Annotate(w) PROVE api'[u] = api[u]
  BY <1>1, <1>2, <1>6, MarkMoves
<1>7. ASSUME \/ \E k \in Keys : Deliver(k)
             \/ HandleSeen \/ HandleDelete \/ Restart
      PROVE  api'[u] = api[u]
  BY <1>7 DEF Deliver, HandleSeen, HandleDelete, Restart
<1> QED
  BY <1>3, <1>4, <1>5, <1>6, <1>7, WorkFrame DEF Next, Handler, Work

(* observePod leaves a pod that waits in the queue.                        *)
LEMMA LeavingAttends ==
    ASSUME StateInv, NEW u \in Pods, Waiting(u), Leave(CopyOf(u)), UNCHANGED processing
    PROVE  \/ KeyOf[u] \in dirty'
           \/ handler'.at # "idle" /\ handler'.copy = CopyOf(u)
<1>1. CopyOf(u).pod = u /\ ShouldSchedule(CopyOf(u)) /\ KeyOf[u] \in Keys
  BY PodsAssumption DEF CopyOf, Waiting
<1>2. CASE HasEnd(CopyOf(u))
  BY <1>2 DEF Leave
<1>3. CASE ~HasEnd(CopyOf(u))
  <2>1. Add(KeyOf[u])
    BY <1>1, <1>3 DEF Leave
  <2> QED
    BY <1>1, <2>1, AddQueue DEF StateInv, QueueInv, TypeInv, TypeOK
<1> QED
  BY <1>2, <1>3

(* News of a pod that waits is not lost before it reaches the queue.       *)
LEMMA NewsStays ==
    ASSUME StateInv, [Next]_vars, NEW u \in Pods, Waiting(u), Waiting(u)',
           CopyOf(u)' = CopyOf(u), NewsOf(u)
    PROVE  KeyOf[u] \in dirty' \/ NewsOf(u)'
<1> DEFINE c == CopyOf(u)
<1>1. TypeInv /\ TypeOK
  BY DEF StateInv, TypeInv
<1>2. /\ c \in PodCopy /\ c # None /\ c.pod = u /\ c.stage = api[u].stage
      /\ KeyOf[u] \in Keys /\ u \in Live /\ api[u].node = None
  BY <1>1, CopyType, WaitingMeans, PodsAssumption DEF CopyOf
<1>3. notes \in Seq(Note)
  BY <1>1 DEF TypeOK, Note
<1>4. CASE UNCHANGED <<lister, notes, handler>>
  BY <1>4 DEF NewsOf
<1>5. ASSUME \/ \E v \in Pods : Create(v) \/ Delete(v) \/ Kubelet(v)
             \/ \E k \in Keys : ExpireKey(k)
             \/ \E w \in Workers : Work(w)
             \/ UNCHANGED vars
      PROVE  UNCHANGED <<lister, notes, handler>>
  BY <1>5
  DEF Create, Delete, Kubelet, KubeletStart, KubeletEnd, Remove, ExpireKey, Work, Take,
      LookUp, Choose, Defer, GiveUp, Bind, BindAnswerLost, BindFails, Annotate, Record,
      vars, memory
<1>6. ASSUME NEW k \in Keys, Deliver(k) PROVE NewsOf(u)'
  <2>1. PICK note :
           /\ notes' = Append(notes, note) /\ note \in Note
           /\ Current(k) # None => note.copy = Current(k)
    <3>1. CASE Current(k) = None
      <4>1. lister[k] \in PodCopy
        BY <1>1, <1>6, <3>1 DEF Deliver, TypeOK
      <4> QED
        BY <1>6, <3>1, <4>1 DEF Deliver, Notify, Note
    <3>2. CASE Current(k) # None
      BY <1>1, <1>6, <3>2, CurrentType DEF Deliver, Notify, Note
    <3> QED
      BY <3>1, <3>2
  <2>2. /\ \A i \in DOMAIN notes : i \in DOMAIN notes' /\ notes'[i] = notes[i]
        /\ \E i \in DOMAIN notes' : notes'[i] = note
    BY <1>3, <2>1, AppendFacts
  <2>3. handler' = handler
    BY <1>6 DEF Deliver
  <2>4. CASE k = KeyOf[u] /\ lister[k] # c
    <3>1. Named(k) = {u}
      BY <1>2, <2>4 DEF Named, Live, StateInv, PodsInv
    <3>2. Current(k) = c
      BY <1>2, <3>1 DEF Current
    <3> QED
      BY <1>2, <2>1, <2>2, <3>2 DEF NewsOf
  <2>5. CASE k # KeyOf[u] /\ lister[KeyOf[u]] # c
    <3>1. lister'[KeyOf[u]] = lister[KeyOf[u]]
      BY <1>1, <1>2, <1>6, <2>5 DEF Deliver, TypeOK
    <3> QED
      BY <2>5, <3>1 DEF NewsOf
  <2>6. CASE \E i \in DOMAIN notes : notes[i].copy = c
    BY <2>2, <2>6 DEF NewsOf
  <2>7. CASE handler.at # "idle" /\ handler.copy = c
    BY <2>3, <2>7 DEF NewsOf
  <2> QED
    BY <2>4, <2>5, <2>6, <2>7 DEF NewsOf
<1>7. ASSUME HandleSeen \/ HandleDelete PROVE KeyOf[u] \in dirty' \/ NewsOf(u)'
  <2>1. /\ lister' = lister /\ handler.at = "idle"
        /\ notes # <<>> /\ notes' = Tail(notes)
    BY <1>7 DEF HandleSeen, HandleDelete
  <2>2. CASE lister[KeyOf[u]] # c
    BY <2>1, <2>2 DEF NewsOf
  <2>3. ASSUME NEW i \in DOMAIN notes, notes[i].copy = c
        PROVE  KeyOf[u] \in dirty' \/ NewsOf(u)'
    <3>1. CASE i # 1
      <4>1. i - 1 \in DOMAIN notes' /\ notes'[i - 1] = notes[(i - 1) + 1] /\ (i - 1) + 1 = i
        BY <1>3, <2>1, <3>1, TailFacts
      <4> QED
        BY <2>3, <4>1 DEF NewsOf
    <3>2. CASE i = 1
      <4>1. Head(notes) = notes[1]
        BY <1>3, <2>1, TailFacts
      <4>2. CASE HandleDelete
        <5>1. api[u].stage = "gone"
          BY <1>2, <2>3, <3>2, <4>1, <4>2 DEF HandleDelete, StateInv, PodsInv
        <5> QED
          BY <1>2, <5>1 DEF Live
      <4>3. CASE HandleSeen
        <5>1. CASE Changed(c)
          BY <2>3, <3>2, <4>1, <4>3, <5>1 DEF HandleSeen, NewsOf
        <5>2. CASE ~Changed(c)
          <6>1. Leave(c) /\ UNCHANGED processing
            BY <2>3, <3>2, <4>1, <4>3, <5>2 DEF HandleSeen
          <6> QED
            BY <6>1, LeavingAttends DEF NewsOf
        <5> QED
          BY <5>1, <5>2
      <4> QED
        BY <1>7, <4>2, <4>3
    <3> QED
      BY <3>1, <3>2
  <2> QED
    BY <2>1, <2>2, <2>3 DEF NewsOf
<1>8. ASSUME WriteObserved \/ DropState PROVE KeyOf[u] \in dirty' \/ NewsOf(u)'
  <2>1. UNCHANGED <<lister, notes>>
    BY <1>8 DEF WriteObserved, DropState
  <2>2. CASE ~(handler.at # "idle" /\ handler.copy = c)
    BY <2>1, <2>2 DEF NewsOf
  <2>3. CASE handler.at # "idle" /\ handler.copy = c
    <3>1. CASE WriteObserved
      <4>1. Leave(c) /\ UNCHANGED processing
        BY <2>3, <3>1 DEF WriteObserved
      <4> QED
        BY <4>1, LeavingAttends DEF NewsOf
    <3>2. ASSUME DropState PROVE FALSE
      <4>1. api[u].stage = "ended"
        BY <1>1, <1>2, <2>3, <3>2 DEF DropState, TypeInv, HandlerInv
      <4> QED
        BY <1>2, <4>1 DEF StateInv, PodsInv
    <3> QED
      BY <1>8, <3>1, <3>2
  <2> QED
    BY <2>2, <2>3
<1>9. ASSUME Restart PROVE NewsOf(u)'
  BY <1>2, <1>9 DEF Restart, NewsOf
<1> QED
  BY <1>4, <1>5, <1>6, <1>7, <1>8, <1>9 DEF Next, Handler

(* Who attends to a pod that waits does so until its key is put back, or   *)
(* lets go of it because the lister does not have the pod as it is.        *)
LEMMA AttendedStays ==
    ASSUME StateInv, [Next]_vars, NEW u \in Pods, Waiting(u), Waiting(u)',
           CopyOf(u)' = CopyOf(u), Attended(u)
    PROVE  Attended(u)' \/ NewsOf(u)'
<1> DEFINE k == KeyOf[u]
           Having(w) == /\ worker[w].at \in {"look", "list", "bind"}
                        /\ worker[w].key = k
<1>1. TypeInv /\ TypeOK /\ QueueInv /\ QueueTypeOK /\ QueueOK
  BY DEF StateInv, TypeInv, TypeOK, QueueInv
<1>2. k \in Keys /\ u \in Live /\ ShouldSchedule(CopyOf(u)) /\ CopyOf(u) # None
  BY <1>1, WaitingMeans, PodsAssumption DEF Waiting
<1>3. ASSUME dirty \subseteq dirty', delayed \subseteq delayed',
             \A w \in Workers : Having(w) => Having(w)' \/ k \in delayed'
      PROVE  Attended(u)'
  BY <1>3 DEF Attended
<1>4. ASSUME \/ \E v \in Pods : Create(v) \/ Delete(v) \/ Kubelet(v)
             \/ \E l \in Keys : Deliver(l)
             \/ HandleDelete \/ DropState \/ UNCHANGED vars
      PROVE  UNCHANGED <<worker, dirty, delayed>>
  BY <1>4
  DEF Create, Delete, Kubelet, KubeletStart, KubeletEnd, Remove, Deliver, HandleDelete,
      DropState, vars, memory, queueVars
<1>5. ASSUME HandleSeen \/ WriteObserved
      PROVE  UNCHANGED <<worker, delayed>> /\ dirty \subseteq dirty'
  <2>1. UNCHANGED <<worker, delayed>>
    BY <1>5 DEF HandleSeen, WriteObserved
  <2>2. ASSUME NEW copy, Leave(copy) PROVE dirty \subseteq dirty'
    BY <2>2 DEF Leave, Add
  <2>3. dirty \subseteq dirty'
    BY <1>5, <2>2 DEF HandleSeen, WriteObserved
  <2> QED
    BY <2>1, <2>3
<1>6. ASSUME NEW l \in Keys, ExpireKey(l) PROVE Attended(u)'
  <2>1. worker' = worker /\ delayed' = delayed \ {l} /\ dirty' = dirty \cup {l}
    BY <1>1, <1>6, AddQueue DEF ExpireKey, Expire, memory
  <2> QED
    BY <2>1 DEF Attended
<1>7. ASSUME NEW w \in Workers, Take(w) PROVE Attended(u)'
  <2>1. PICK l \in Keys :
           /\ Get(l)
           /\ worker' = [worker EXCEPT ![w].at = "look", ![w].key = l]
    BY <1>7 DEF Take
  <2>2. /\ worker[w].at = "idle"
        /\ worker'[w].at = "look" /\ worker'[w].key = l
        /\ \A v \in Workers : v # w => worker'[v] = worker[v]
    BY <1>1, <1>7, <2>1 DEF Take, TypeOK
  <2>3. dirty' = dirty \ {l} /\ delayed' = delayed
    BY <2>1 DEF Get
  <2> QED
    BY <2>2, <2>3 DEF Attended
<1>8. ASSUME NEW w \in Workers, LookUp(w) PROVE Attended(u)' \/ NewsOf(u)'
  <2>1. CASE ShouldSchedule(lister[worker[w].key])
    <3> DEFINE p == lister[worker[w].key].pod
    <3>1. UNCHANGED queueVars /\ worker' = [worker EXCEPT ![w].at = "list", ![w].pod = p]
      BY <1>8, <2>1 DEF LookUp
    <3>2. /\ worker'[w].at = "list" /\ worker'[w].key = worker[w].key
          /\ \A v \in Workers : v # w => worker'[v] = worker[v]
      BY <1>1, <3>1 DEF TypeOK
    <3> QED
      BY <1>3, <3>1, <3>2 DEF queueVars
  <2>2. CASE ~ShouldSchedule(lister[worker[w].key])
    <3>1. Forget(w) /\ worker[w].at # "idle" /\ lister' = lister
      BY <1>8, <2>2 DEF LookUp
    <3>2. dirty' = dirty /\ delayed' = delayed
          /\ \A v \in Workers : v # w => worker'[v] = worker[v]
      BY <1>1, <3>1, LeavingQueue DEF Forget
    <3>3. CASE worker[w].key = k
      <4>1. lister[k] # CopyOf(u)
        BY <1>2, <2>2, <3>3
      <4> QED
        BY <3>1, <4>1 DEF NewsOf
    <3>4. CASE worker[w].key # k
      BY <3>2, <3>4 DEF Attended
    <3> QED
      BY <3>3, <3>4
  <2> QED
    BY <2>1, <2>2
<1>9. ASSUME NEW w \in Workers, Choose(w) PROVE Attended(u)'
  <2>1. PICK n \in Nodes : worker' = [worker EXCEPT ![w].at = "bind", ![w].node = n]
    BY <1>9 DEF Choose, Candidates
  <2>2. /\ worker'[w].at = "bind" /\ worker'[w].key = worker[w].key
        /\ \A v \in Workers : v # w => worker'[v] = worker[v]
    BY <1>1, <2>1 DEF TypeOK
  <2> QED
    BY <1>3, <1>9, <2>2 DEF Choose, queueVars
<1>10. ASSUME NEW w \in Workers,
              Defer(w) \/ GiveUp(w) \/ BindAnswerLost(w) \/ BindFails(w)
       PROVE  Attended(u)'
  <2>1. worker[w].at # "idle" /\ Retry(w)
    BY <1>10 DEF Defer, GiveUp, BindAnswerLost, BindFails
  <2>2. dirty' = dirty /\ delayed' = delayed \cup {worker[w].key}
        /\ \A v \in Workers : v # w => worker'[v] = worker[v]
    BY <1>1, <2>1, LeavingQueue DEF Retry, AddLater
  <2> QED
    BY <1>3, <2>2
<1>11. ASSUME NEW w \in Workers, Bind(w) PROVE Attended(u)'
  <2> DEFINE p == worker[w].pod
  <2>1. /\ p \in Pods /\ api'[p].node # None /\ p \in Live
        /\ KeyOf[p] = worker[w].key
    <3>1. /\ p \in Pods /\ Bindable(p) /\ api'[p].node = worker[w].node
          /\ worker[w].node \in Nodes
      BY <1>1, <1>11, BindMoves
    <3>2. worker[w].at = "bind" /\ WorkerInv
      BY <1>1, <1>11 DEF Bind, TypeInv
    <3> QED
      BY <3>1, <3>2, PodsAssumption DEF Bindable, Live, WorkerInv, HasPod
  <2>2. api'[u].node = None
    <3>1. CopyOf(u)'.node = api'[u].node
      BY DEF CopyOf
    <3> QED
      BY <3>1 DEF Waiting, ShouldSchedule
  <2>3. worker[w].key # k
    BY <1>2, <2>1, <2>2 DEF StateInv, PodsInv
  <2>4. \A v \in Workers : v # w => worker'[v] = worker[v]
    BY <1>1, <1>11 DEF Bind, Goto, TypeOK
  <2> QED
    BY <1>3, <1>11, <2>3, <2>4 DEF Bind, queueVars
<1>12. ASSUME NEW w \in Workers, Annotate(w) \/ Record(w) PROVE Attended(u)'
  <2>1. dirty' = dirty /\ delayed' = delayed
    BY <1>12 DEF Annotate, Record, Forget, Done, queueVars
  <2>2. ~Having(w) /\ \A v \in Workers : v # w => worker'[v] = worker[v]
    BY <1>1, <1>12 DEF Annotate, Record, Forget, Goto, TypeOK
  <2> QED
    BY <1>3, <2>1, <2>2
<1>13. ASSUME Restart PROVE NewsOf(u)'
  BY <1>2, <1>13 DEF Restart, NewsOf
<1> QED
  BY <1>3, <1>4, <1>5, <1>6, <1>7, <1>8, <1>9, <1>10, <1>11, <1>12, <1>13
  DEF Next, Handler, Work

LEMMA AttendedStep == StateInv /\ AttendedInv /\ [Next]_vars => AttendedInv'
<1> SUFFICES ASSUME StateInv, AttendedInv, [Next]_vars, NEW u \in Pods, Waiting(u)'
             PROVE  Attended(u)' \/ NewsOf(u)'
  BY DEF AttendedInv
<1>1. CASE Create(u)
  <2>1. lister' = lister /\ api[u].stage = "absent" /\ KeyOf[u] \in Keys
    BY <1>1, PodsAssumption DEF Create, memory
  <2>2. CopyOf(u)' # None /\ CopyOf(u)'.pod = u
    <3>1. CopyOf(u)' # None
      BY DEF Waiting, ShouldSchedule
    <3>2. CopyOf(u)'.pod = u
      BY DEF CopyOf
    <3> QED
      BY <3>1, <3>2
  <2>3. lister[KeyOf[u]] # CopyOf(u)'
    BY <2>1, <2>2 DEF StateInv, PodsInv
  <2> QED
    BY <2>1, <2>3 DEF NewsOf
<1>2. CASE ~Create(u)
  <2>1. Waiting(u) /\ CopyOf(u)' = CopyOf(u)
    BY <1>2, WaitingMoves
  <2>2. CASE NewsOf(u)
    BY <2>1, <2>2, NewsStays DEF Attended
  <2>3. CASE Attended(u)
    BY <2>1, <2>3, AttendedStays
  <2> QED
    BY <2>1, <2>2, <2>3 DEF AttendedInv
<1> QED
  BY <1>1, <1>2

(* NoLostPod: while a pod waits for a node, its key is in the queue or     *)
(* with a worker, or news of it is on the way, across skipped changes,     *)
(* missed deletions, retries and restarts (main.go: processNextItem).      *)
THEOREM NoPodIsLost == Spec => []NoLostPod
<1>1. Init => AttendedInv
  BY DEF Init, AttendedInv, Waiting, Live
<1>2. StateInv /\ AttendedInv => NoLostPod
  <2> SUFFICES ASSUME StateInv, AttendedInv, NEW u \in Pods, Waiting(u)
               PROVE  \/ KeyOf[u] \in processing \cup delayed
                      \/ \E i \in DOMAIN queue : queue[i] = KeyOf[u]
                      \/ NewsOf(u)
    BY DEF NoLostPod
  <2>1. CASE KeyOf[u] \in dirty
    BY <2>1 DEF StateInv, QueueInv, QueueOK
  <2>2. CASE \E w \in Workers : /\ worker[w].at \in {"look", "list", "bind"}
                                /\ worker[w].key = KeyOf[u]
    BY <2>2 DEF StateInv, QueueInv, HeldOK
  <2> QED
    BY <2>1, <2>2 DEF AttendedInv, Attended
<1> QED
  BY <1>1, <1>2, AttendedStep, StateInvariant, PTL DEF Spec

-----------------------------------------------------------------------------
(* What node n has given away: its occupants, and the pods that workers    *)
(* are about to bind to it.  But for one pod per other worker, these fit:  *)
(* whoever chooses n found its occupants within what n has, or asks for    *)
(* none of what is exceeded, and any pod not listed is another worker's.   *)
Binders(n) == {w \in Workers : worker[w].at = "bind" /\ worker[w].node = n}

Claims(n) == Occupants(n) \cup {worker[w].pod : w \in Binders(n)}

Room(n, r, C) ==
    \E S \in SUBSET C :
        /\ Cardinality(S) < Cardinality(Workers)
        /\ Load[r][C \ S] <= Capacity[n][r]

RoomInv == \A n \in Nodes, r \in Res : Room(n, r, Claims(n))

LEMMA LoadOfUnion ==
    ASSUME NEW r \in Res, NEW S \in SUBSET Pods, NEW T \in SUBSET Pods,
           NEW U \in SUBSET Pods, S \cup T = U, S \cap T = {}
    PROVE  Load[r][U] = Load[r][S] + Load[r][T]
BY LoadAssumption

(* Load is additive, so fewer pods are no more load.                       *)
LEMMA LoadMonotone ==
    ASSUME NEW r \in Res, NEW T \in SUBSET Pods, NEW S \in SUBSET T
    PROVE  /\ Load[r][S] \in Nat /\ Load[r][T] \in Nat
           /\ Load[r][S] <= Load[r][T]
<1>1. S \in SUBSET Pods /\ T \ S \in SUBSET Pods
  OBVIOUS
<1>2. Load[r][S] \in Nat /\ Load[r][T] \in Nat /\ Load[r][T \ S] \in Nat
  BY <1>1, LoadAssumption
<1>3. S \cup (T \ S) = T /\ S \cap (T \ S) = {}
  OBVIOUS
<1>4. Load[r][T] = Load[r][S] + Load[r][T \ S]
  BY <1>1, <1>3, LoadOfUnion
<1> QED
  BY <1>2, <1>4

LEMMA LoadOfOneMore ==
    ASSUME NEW r \in Res, NEW S \in SUBSET Pods, NEW u \in Pods
    PROVE  /\ Load[r][S \cup {u}] \in Nat /\ Load[r][S] \in Nat /\ Demand[u][r] \in Nat
           /\ Load[r][S \cup {u}] <= Load[r][S] + Demand[u][r]
<1>1. Load[r][S] \in Nat /\ Load[r][S \cup {u}] \in Nat /\ Demand[u][r] \in Nat
  BY LoadAssumption, ClusterAssumption
<1>2. CASE u \in S
  <2>1. Load[r][S \cup {u}] = Load[r][S]
    <3>1. S \cup {u} = S
      BY <1>2
    <3> QED
      BY <3>1, Zenon
  <2> QED
    BY <1>1, <2>1
<1>3. CASE u \notin S
  <2>1. PICK U \in SUBSET Pods : U = S \cup {u}
    OBVIOUS
  <2>2. S \cap {u} = {} /\ {u} \in SUBSET Pods /\ S \cup {u} = U
    BY <1>3, <2>1
  <2>3. Load[r][U] = Load[r][S] + Load[r][{u}]
    BY <2>2, LoadOfUnion
  <2>4. Load[r][{u}] = Demand[u][r]
    BY LoadAssumption
  <2> QED
    BY <1>1, <2>1, <2>3, <2>4
<1> QED
  BY <1>2, <1>3

LEMMA RoomForFewer ==
    ASSUME NEW n \in Nodes, NEW r \in Res, NEW C \in SUBSET Pods, NEW D \in SUBSET C,
           Room(n, r, C)
    PROVE  Room(n, r, D)
<1>1. PICK S \in SUBSET C : /\ Cardinality(S) < Cardinality(Workers)
                            /\ Load[r][C \ S] <= Capacity[n][r]
  BY DEF Room
<1>2. IsFiniteSet(S) /\ S \cap D \in SUBSET S
  BY PodsAssumption, FS_Subset
<1>3. Cardinality(S \cap D) <= Cardinality(S)
  BY <1>2, FS_Subset
<1>4. /\ Cardinality(S) \in Nat /\ Cardinality(S \cap D) \in Nat
      /\ Cardinality(Workers) \in Nat
  BY <1>2, FS_Subset, FS_CardinalityType, ClusterAssumption
<1>5. /\ C \ S \in SUBSET Pods
      /\ D \ (S \cap D) \in SUBSET (C \ S)
  OBVIOUS
<1>6. Load[r][D \ (S \cap D)] <= Load[r][C \ S] /\ Load[r][D \ (S \cap D)] \in Nat
      /\ Load[r][C \ S] \in Nat /\ Capacity[n][r] \in Nat
  BY <1>5, LoadMonotone, ClusterAssumption
<1>7. /\ S \cap D \in SUBSET D
      /\ Cardinality(S \cap D) < Cardinality(Workers)
      /\ Load[r][D \ (S \cap D)] <= Capacity[n][r]
  BY <1>1, <1>3, <1>4, <1>6
<1> QED
  BY <1>7 DEF Room

LEMMA ClaimsArePods ==
    ASSUME TypeInv, NEW n \in Nodes
    PROVE  Claims(n) \in SUBSET Pods /\ Occupants(n) \in SUBSET Claims(n)
BY DEF Claims, Binders, Occupants, TypeInv, WorkerInv, HasPod

(* The pods of the binders other than w are fewer than the workers.        *)
LEMMA OthersAreFewer ==
    ASSUME TypeInv, NEW w \in Workers, NEW B \in SUBSET (Workers \ {w}),
           NEW S \in SUBSET {worker[v].pod : v \in B}
    PROVE  Cardinality(S) < Cardinality(Workers)
<1> DEFINE T == {worker[v].pod : v \in B}
           f == [v \in B |-> worker[v].pod]
<1>1. /\ IsFiniteSet(Workers \ {w})
      /\ Cardinality(Workers \ {w}) = Cardinality(Workers) - 1
      /\ Cardinality(Workers) \in Nat
  BY ClusterAssumption, FS_RemoveElement, FS_CardinalityType
<1>2. IsFiniteSet(B) /\ Cardinality(B) <= Cardinality(Workers \ {w})
      /\ Cardinality(B) \in Nat
  BY <1>1, FS_Subset, FS_CardinalityType
<1>3. f \in Surjection(B, T)
  BY DEF Surjection
<1>4. IsFiniteSet(T) /\ Cardinality(T) <= Cardinality(B) /\ Cardinality(T) \in Nat
  BY <1>2, <1>3, FS_Surjection, FS_CardinalityType
<1>5. Cardinality(S) <= Cardinality(T) /\ Cardinality(S) \in Nat
  BY <1>4, FS_Subset, FS_CardinalityType
<1> QED
  BY <1>1, <1>2, <1>4, <1>5

(* A worker that chooses n finds room for its pod, and what it has not     *)
(* seen in the list are the pods of other workers.                         *)
LEMMA RoomToChoose ==
    ASSUME StateInv, NEW n \in Nodes, NEW r \in Res, Room(n, r, Claims(n)),
           NEW w \in Workers, worker[w].at = "list", Fits(worker[w].pod, n)
    PROVE  Room(n, r, Claims(n) \cup {worker[w].pod})
<1> DEFINE u == worker[w].pod
           O == Occupants(n)
           P == {worker[v].pod : v \in Binders(n)}
           C == Claims(n)
<1>1. TypeInv /\ u \in Pods
  BY DEF StateInv, TypeInv, WorkerInv, HasPod
<1>2. C \in SUBSET Pods /\ O \in SUBSET Pods /\ C = O \cup P
  BY <1>1, ClaimsArePods DEF Claims
<1>3. /\ Capacity[n][r] \in Nat /\ Demand[u][r] \in Nat /\ Load[r][O] \in Nat
      /\ Load[r][O \cup {u}] \in Nat
      /\ Load[r][O \cup {u}] <= Load[r][O] + Demand[u][r]
  <2>1. Capacity[n][r] \in Nat
    BY ClusterAssumption
  <2>2. O \in SUBSET Pods /\ u \in Pods
    BY <1>1, <1>2
  <2> HIDE DEF O, u
  <2> QED
    BY <2>1, <2>2, LoadOfOneMore
<1>4. Demand[u][r] <= Free(n, r)
  BY DEF Fits
<1>5. CASE Load[r][O] <= Capacity[n][r]
  <2> DEFINE S == P \ (O \cup {u})
  <2>1. Load[r][O \cup {u}] <= Capacity[n][r]
    BY <1>3, <1>4, <1>5 DEF Free
  <2>2. (C \cup {u}) \ S = O \cup {u} /\ S \in SUBSET (C \cup {u})
    BY <1>2
  <2>3. Cardinality(S) < Cardinality(Workers)
    <3>1. Binders(n) \in SUBSET (Workers \ {w})
      BY DEF Binders
    <3>2. S \in SUBSET P
      OBVIOUS
    <3> QED
      BY <1>1, <3>1, <3>2, OthersAreFewer
  <2> QED
    BY <2>1, <2>2, <2>3 DEF Room
<1>6. CASE ~(Load[r][O] <= Capacity[n][r])
  <2>1. Demand[u][r] = 0
    BY <1>3, <1>4, <1>6 DEF Free
  <2>2. PICK S \in SUBSET C : /\ Cardinality(S) < Cardinality(Workers)
                              /\ Load[r][C \ S] <= Capacity[n][r]
    BY DEF Room
  <2>3. C \ S \in SUBSET Pods
    BY <1>2
  <2>4. /\ Load[r][(C \ S) \cup {u}] \in Nat /\ Load[r][C \ S] \in Nat
        /\ Load[r][(C \ S) \cup {u}] <= Load[r][C \ S] + Demand[u][r]
    BY <1>1, <2>3, LoadOfOneMore
  <2>5. /\ (C \ S) \cup {u} \in SUBSET Pods
        /\ (C \cup {u}) \ S \in SUBSET ((C \ S) \cup {u})
    BY <1>1, <2>3
  <2>6. /\ Load[r][(C \cup {u}) \ S] \in Nat
        /\ Load[r][(C \cup {u}) \ S] <= Load[r][(C \ S) \cup {u}]
    BY <2>5, LoadMonotone
  <2>7. Load[r][(C \cup {u}) \ S] <= Capacity[n][r]
    BY <1>3, <2>1, <2>2, <2>4, <2>6
  <2>8. S \in SUBSET (C \cup {u})
    OBVIOUS
  <2> QED
    BY <2>2, <2>7, <2>8 DEF Room
<1> QED
  BY <1>5, <1>6

(* Every other step keeps what a node has given away within what it had.   *)
LEMMA ClaimsShrink ==
    ASSUME TypeInv, NEW n \in Nodes, Occupants(n)' \subseteq Claims(n),
           \A w \in Workers : /\ worker'[w].at = "bind" /\ worker'[w].node = n
                              => worker'[w] = worker[w]
    PROVE  Claims(n)' \subseteq Claims(n)
<1>1. ASSUME NEW w \in Workers, worker'[w].at = "bind", worker'[w].node = n
      PROVE  worker'[w].pod \in Claims(n)
  BY <1>1 DEF Claims, Binders
<1> QED
  BY <1>1 DEF Claims, Binders

LEMMA ClaimsStep ==
    ASSUME StateInv, [Next]_vars, NEW n \in Nodes,
           ~ \E w \in Workers : Choose(w) /\ worker'[w].node = n
    PROVE  Claims(n)' \subseteq Claims(n)
<1>1. TypeInv /\ worker \in [Workers -> WorkerRecord] /\ n # None
  BY PodsAssumption DEF StateInv, TypeInv, TypeOK, WorkerRecord
<1>2. Occupants(n) \subseteq Claims(n)
  BY DEF Claims
<1>3. ASSUME NEW w \in Workers, worker'[w].at # "bind",
             \A v \in Workers : v # w => worker'[v] = worker[v],
             Occupants(n)' \subseteq Claims(n)
      PROVE  Claims(n)' \subseteq Claims(n)
  BY <1>1, <1>3, ClaimsShrink
<1>4. ASSUME UNCHANGED worker, Occupants(n)' \subseteq Occupants(n)
      PROVE  Claims(n)' \subseteq Claims(n)
  BY <1>1, <1>2, <1>4, ClaimsShrink
<1>5. ASSUME UNCHANGED api PROVE Occupants(n)' = Occupants(n)
  BY <1>5 DEF Occupants
<1>6. ASSUME NEW u \in Pods, Create(u) \/ Delete(u) \/ Kubelet(u)
      PROVE  Claims(n)' \subseteq Claims(n)
  <2>1. UNCHANGED worker
    BY <1>6 DEF Create, Delete, Kubelet, KubeletStart, KubeletEnd, Remove, memory
  <2>2. ASSUME NEW v \in Occupants(n)' PROVE v \in Occupants(n)
    <3>1. v \in Pods /\ api'[v].node = n /\ api'[v].stage \in {"pending", "running"}
      BY <2>2 DEF Occupants
    <3>2. api[v].node = n
      BY <1>1, <1>6, <3>1, LifeMoves DEF TypeInv
    <3>3. api[v].stage # "absent"
      BY <1>1, <3>1, <3>2 DEF StateInv, PodsInv
    <3> QED
      BY <1>1, <1>6, <3>1, <3>2, <3>3, LifeMoves DEF TypeInv, Occupants
  <2> QED
    BY <1>4, <2>1, <2>2
<1>7. ASSUME \/ \E k \in Keys : Deliver(k) \/ ExpireKey(k)
             \/ Handler \/ UNCHANGED vars
      PROVE  Claims(n)' \subseteq Claims(n)
  <2>1. UNCHANGED <<api, worker>>
    BY <1>7
    DEF Deliver, ExpireKey, Handler, HandleSeen, HandleDelete, WriteObserved, DropState,
        vars, memory
  <2> QED
    BY <1>4, <1>5, <2>1
<1>8. ASSUME NEW w \in Workers, Take(w) PROVE Claims(n)' \subseteq Claims(n)
  <2>1. PICK k \in Keys : worker' = [worker EXCEPT ![w].at = "look", ![w].key = k]
    BY <1>8 DEF Take
  <2>2. worker'[w].at = "look" /\ \A v \in Workers : v # w => worker'[v] = worker[v]
    BY <1>1, <2>1 DEF WorkerRecord
  <2> QED
    BY <1>2, <1>3, <1>5, <1>8, <2>2 DEF Take
<1>9. ASSUME NEW w \in Workers, LookUp(w) PROVE Claims(n)' \subseteq Claims(n)
  <2>1. CASE Forget(w)
    <3>1. worker'[w] = IdleWorker /\ \A v \in Workers : v # w => worker'[v] = worker[v]
      BY <1>1, <2>1 DEF Forget
    <3> QED
      BY <1>2, <1>3, <1>5, <1>9, <3>1 DEF LookUp, IdleWorker
  <2>2. CASE ~Forget(w)
    <3> DEFINE u == lister[worker[w].key].pod
    <3>1. worker' = [worker EXCEPT ![w].at = "list", ![w].pod = u]
      BY <1>9, <2>2 DEF LookUp
    <3>2. worker'[w].at = "list" /\ \A v \in Workers : v # w => worker'[v] = worker[v]
      BY <1>1, <3>1 DEF WorkerRecord
    <3> QED
      BY <1>2, <1>3, <1>5, <1>9, <3>2 DEF LookUp
  <2> QED
    BY <2>1, <2>2
<1>10. ASSUME NEW w \in Workers, Choose(w) PROVE Claims(n)' \subseteq Claims(n)
  <2>1. PICK m \in Nodes : worker' = [worker EXCEPT ![w].at = "bind", ![w].node = m]
    BY <1>10 DEF Choose, Candidates
  <2>2. worker'[w].node = m /\ \A v \in Workers : v # w => worker'[v] = worker[v]
    BY <1>1, <2>1 DEF WorkerRecord
  <2>3. m # n
    BY <1>10, <2>2
  <2>4. UNCHANGED api
    BY <1>10 DEF Choose
  <2> QED
    BY <1>1, <1>2, <1>5, <2>2, <2>3, <2>4, ClaimsShrink
<1>11. ASSUME NEW w \in Workers, Defer(w) \/ GiveUp(w) \/ BindFails(w) \/ Record(w)
       PROVE  Claims(n)' \subseteq Claims(n)
  <2>1. worker[w].at # "idle" /\ (Forget(w) \/ Retry(w)) /\ UNCHANGED api
    BY <1>11 DEF Defer, GiveUp, BindFails, Record
  <2>2. worker'[w] = IdleWorker /\ \A v \in Workers : v # w => worker'[v] = worker[v]
    BY <2>1, LeavingQueue DEF StateInv
  <2> QED
    BY <1>2, <1>3, <1>5, <2>1, <2>2 DEF IdleWorker
<1>12. ASSUME NEW w \in Workers, Bind(w) \/ BindAnswerLost(w)
       PROVE  Claims(n)' \subseteq Claims(n)
  <2> DEFINE u == worker[w].pod
  <2>1. worker'[w].at # "bind" /\ \A v \in Workers : v # w => worker'[v] = worker[v]
    <3>1. CASE Bind(w)
      BY <1>1, <3>1 DEF Bind, Goto, WorkerRecord
    <3>2. CASE BindAnswerLost(w)
      BY <1>1, <3>2 DEF BindAnswerLost, Retry, IdleWorker
    <3> QED
      BY <1>12, <3>1, <3>2
  <2>2. ASSUME NEW v \in Occupants(n)' PROVE v \in Claims(n)
    <3>1. v \in Pods /\ api'[v].node = n /\ api'[v].stage \in {"pending", "running"}
      BY <2>2 DEF Occupants
    <3>2. CASE v # u
      BY <1>1, <1>2, <1>12, <3>1, <3>2, BindMoves DEF Occupants
    <3>3. CASE v = u
      <4>1. worker[w].node = n /\ worker[w].at = "bind"
        BY <1>1, <1>12, <3>1, <3>3, BindMoves DEF Bind, BindAnswerLost
      <4> QED
        BY <3>3, <4>1 DEF Claims, Binders
    <3> QED
      BY <3>2, <3>3
  <2> QED
    BY <1>3, <2>1, <2>2
<1>13. ASSUME NEW w \in Workers, Annotate(w) PROVE Claims(n)' \subseteq Claims(n)
  <2>1. worker'[w].at # "bind" /\ \A v \in Workers : v # w => worker'[v] = worker[v]
    BY <1>1, <1>13 DEF Annotate, Goto, WorkerRecord
  <2>2. Occupants(n)' = Occupants(n)
    BY <1>1, <1>13, MarkMoves DEF Occupants, TypeInv
  <2> QED
    BY <1>2, <1>3, <2>1, <2>2
<1>14. ASSUME Restart PROVE Claims(n)' \subseteq Claims(n)
  <2>1. UNCHANGED api /\ \A w \in Workers : worker'[w].at # "bind"
    BY <1>14 DEF Restart, IdleWorker
  <2> QED
    BY <1>1, <1>2, <1>5, <2>1, ClaimsShrink
<1> QED
  BY <1>6, <1>7, <1>8, <1>9, <1>10, <1>11, <1>12, <1>13, <1>14 DEF Next, Work

LEMMA RoomStep == StateInv /\ RoomInv /\ [Next]_vars => RoomInv'
<1> SUFFICES ASSUME StateInv, RoomInv, [Next]_vars, NEW n \in Nodes, NEW r \in Res
             PROVE  Room(n, r, Claims(n)')
  BY DEF RoomInv, Room
<1>1. /\ TypeInv /\ worker \in [Workers -> WorkerRecord]
      /\ Claims(n) \in SUBSET Pods /\ Room(n, r, Claims(n))
  BY ClaimsArePods DEF StateInv, TypeInv, TypeOK, WorkerRecord, RoomInv
<1>2. CASE ~ \E w \in Workers : Choose(w) /\ worker'[w].node = n
  BY <1>1, <1>2, ClaimsStep, RoomForFewer
<1>3. ASSUME NEW w \in Workers, Choose(w), worker'[w].node = n
      PROVE  Room(n, r, Claims(n)')
  <2>1. PICK m \in Nodes : /\ Fits(worker[w].pod, m)
                           /\ worker' = [worker EXCEPT ![w].at = "bind", ![w].node = m]
    BY <1>3 DEF Choose, Candidates
  <2>2. /\ worker'[w].node = m /\ worker'[w].pod = worker[w].pod
        /\ \A v \in Workers : v # w => worker'[v] = worker[v]
    BY <1>1, <2>1 DEF WorkerRecord
  <2>3. worker[w].at = "list" /\ UNCHANGED api
    BY <1>3 DEF Choose
  <2>4. Room(n, r, Claims(n) \cup {worker[w].pod})
    BY <1>1, <1>3, <2>1, <2>2, <2>3, RoomToChoose
  <2>5. Claims(n)' \subseteq Claims(n) \cup {worker[w].pod}
    BY <2>2, <2>3 DEF Claims, Binders, Occupants
  <2>6. Claims(n) \cup {worker[w].pod} \in SUBSET Pods
    BY <1>1, <2>3 DEF TypeInv, WorkerInv, HasPod
  <2> QED
    BY <2>4, <2>5, <2>6, RoomForFewer
<1> QED
  BY <1>2, <1>3

LEMMA RoomInit == Init => RoomInv
<1> SUFFICES ASSUME Init, NEW n \in Nodes, NEW r \in Res PROVE Room(n, r, Claims(n))
  BY DEF RoomInv
<1>1. Claims(n) = {}
  BY DEF Init, Claims, Binders, Occupants, IdleWorker
<1>2. Cardinality({}) < Cardinality(Workers)
  <2>1. Cardinality(Workers) \in Nat /\ Cardinality(Workers) # 0
    BY ClusterAssumption, FS_CardinalityType, FS_EmptySet
  <2> QED
    BY <2>1, FS_EmptySet
<1>3. Load[r][{}] = 0
  <2>1. PICK E \in SUBSET Pods : E = {}
    OBVIOUS
  <2>2. E \cup E = E /\ E \cap E = {}
    BY <2>1
  <2>3. Load[r][E] = Load[r][E] + Load[r][E]
    BY <2>2, LoadOfUnion
  <2>4. Load[r][E] \in Nat
    BY LoadAssumption
  <2>5. \A x \in Nat : x + x <= x => x = 0
    OBVIOUS
  <2>6. \A x \in Nat : x <= x
    OBVIOUS
  <2>7. Load[r][E] + Load[r][E] <= Load[r][E]
    BY <2>3, <2>4, <2>6, Zenon
  <2> QED
    BY <2>1, <2>4, <2>5, <2>7, Zenon
<1>4. Load[r][{} \ {}] <= Capacity[n][r]
  BY <1>3, ClusterAssumption
<1> QED
  BY <1>1, <1>2, <1>4 DEF Room

(* OvercommitBounded: however many workers race, without at most one pod   *)
(* for each other worker a node is within its allocatable of a resource    *)
(* (main.go: snapshot, bindPod).                                           *)
THEOREM RacesOvercommitByFew == Spec => []OvercommitBounded
<1>1. StateInv /\ RoomInv => OvercommitBounded
  <2> SUFFICES ASSUME StateInv, RoomInv, NEW n \in Nodes, NEW r \in Res
               PROVE  Room(n, r, Occupants(n))
    BY DEF OvercommitBounded, Room
  <2> QED
    BY ClaimsArePods, RoomForFewer DEF StateInv, RoomInv
<1> QED
  BY <1>1, RoomInit, RoomStep, StateInvariant, PTL DEF Spec

-----------------------------------------------------------------------------
(* The controller implements the service                                   *)

StageOf == [u \in Pods |-> api[u].stage]
NodeOf == [u \in Pods |-> api[u].node]

LEMMA ServiceInit == Init => Service!Init
<1> SUFFICES ASSUME Init PROVE Service!Init
  OBVIOUS
<1>1. StageOf = [u \in Pods |-> "absent"] /\ NodeOf = [u \in Pods |-> None]
  BY DEF Init, StageOf, NodeOf
<1> QED
  BY <1>1 DEF Init, Service!Init, StageOf, NodeOf

(* A step that changes the stage of one pod and nothing else of the map.   *)
LEMMA ServiceFrame ==
    ASSUME NEW u \in Pods, UNCHANGED decisions,
           \A v \in Pods : api'[v].node = api[v].node,
           \A v \in Pods : v # u => api'[v].stage = api[v].stage
    PROVE  /\ NodeOf' = NodeOf
           /\ StageOf' = [StageOf EXCEPT ![u] = api'[u].stage]
           /\ StageOf[u] = api[u].stage /\ NodeOf[u] = api[u].node
BY DEF StageOf, NodeOf

LEMMA ServiceLife ==
    ASSUME StateInv, NEW u \in Pods, Create(u) \/ Delete(u) \/ Kubelet(u)
    PROVE  [Service!Next]_(Service!vars)
<1>1. UNCHANGED decisions
  BY DEF Create, Delete, Kubelet, KubeletStart, KubeletEnd, Remove, lines
<1>2. \A v \in Pods : /\ api'[v].node = api[v].node
                      /\ v # u => api'[v].stage = api[v].stage
  BY LifeMoves DEF StateInv, TypeInv
<1>3. /\ NodeOf' = NodeOf
      /\ StageOf' = [StageOf EXCEPT ![u] = api'[u].stage]
      /\ StageOf[u] = api[u].stage /\ NodeOf[u] = api[u].node
  BY <1>1, <1>2, ServiceFrame
<1>4. \/ api'[u].stage = api[u].stage
      \/ api[u].stage = "absent" /\ api'[u].stage = "pending"
      \/ api[u].stage = "pending" /\ api'[u].stage = "running" /\ api[u].node # None
      \/ api[u].stage = "running" /\ api'[u].stage = "ended"
      \/ u \in Live /\ api'[u].stage = "gone"
  BY LifeMoves DEF StateInv, TypeInv
<1>5. CASE api'[u].stage = api[u].stage
  <2>1. StageOf' = StageOf
    BY <1>3, <1>5 DEF StageOf
  <2> QED
    BY <1>1, <1>3, <2>1 DEF Service!vars, StageOf, NodeOf
<1>6. CASE api[u].stage = "absent" /\ api'[u].stage = "pending"
  <2>1. Service!Appear(u)
    BY <1>1, <1>3, <1>6 DEF Service!Appear, StageOf, NodeOf
  <2> QED
    BY <2>1 DEF Service!Next
<1>7. CASE api[u].stage = "pending" /\ api'[u].stage = "running" /\ api[u].node # None
  <2>1. Service!Run(u)
    BY <1>1, <1>3, <1>7 DEF Service!Run, StageOf, NodeOf
  <2> QED
    BY <2>1 DEF Service!Next
<1>8. CASE api[u].stage = "running" /\ api'[u].stage = "ended"
  <2>1. Service!End(u)
    BY <1>1, <1>3, <1>8 DEF Service!End, StageOf, NodeOf
  <2> QED
    BY <2>1 DEF Service!Next
<1>9. CASE u \in Live /\ api'[u].stage = "gone"
  <2>1. api[u].stage \in {"pending", "running", "ended"}
    BY <1>9 DEF Live
  <2>2. Service!Vanish(u)
    BY <1>1, <1>3, <1>9, <2>1 DEF Service!Vanish, StageOf, NodeOf
  <2> QED
    BY <2>2 DEF Service!Next
<1> QED
  BY <1>4, <1>5, <1>6, <1>7, <1>8, <1>9

(* A binding is a placement: what its worker claimed for it is there.      *)
LEMMA ServicePlace ==
    ASSUME StateInv, RoomInv, NEW w \in Workers, Bind(w) \/ BindAnswerLost(w)
    PROVE  Service!Next
<1>1. PICK u \in Pods : u = worker[w].pod
  BY BindMoves DEF StateInv
<1>2. PICK n \in Nodes : n = worker[w].node
  BY BindMoves DEF StateInv
<1>3. /\ Bindable(u) /\ api'[u].node = n
      /\ \A v \in Pods : /\ v # u => api'[v] = api[v]
                         /\ api'[v].stage = api[v].stage
  BY <1>1, <1>2, BindMoves DEF StateInv
<1>4. StageOf' = StageOf /\ NodeOf' = [NodeOf EXCEPT ![u] = n]
  BY <1>3 DEF StageOf, NodeOf
<1>5. StageOf[u] = "pending" /\ NodeOf[u] = None
  BY <1>3 DEF StageOf, NodeOf, Bindable
<1>6. UNCHANGED decisions
  BY DEF Bind, BindAnswerLost, lines
<1>7. Service!Holders(n) = Occupants(n)
  BY DEF Service!Holders, Occupants
<1>8. Service!Bearable(n, Occupants(n) \cup {u})
  <2>1. PICK C \in SUBSET Pods : C = Occupants(n) \cup {u}
    BY DEF Occupants
  <2>2. w \in Binders(n)
    BY <1>2 DEF Binders, Bind, BindAnswerLost
  <2>3. C \in SUBSET Claims(n) /\ Claims(n) \in SUBSET Pods
    BY <1>1, <2>1, <2>2, ClaimsArePods DEF StateInv, Claims
  <2>4. ASSUME NEW r \in Res PROVE Room(n, r, C)
    BY <2>3, <2>4, RoomForFewer DEF RoomInv
  <2>5. ASSUME NEW r \in Res
        PROVE  \E S \in {T \in SUBSET Pods : Cardinality(T) < Cardinality(Workers)} :
                  Load[r][C \ S] <= Capacity[n][r]
    BY <2>3, <2>4, <2>5 DEF Room
  <2>6. Service!Bearable(n, C)
    BY <2>5 DEF Service!Bearable
  <2> QED
    BY <2>1, <2>6, Zenon
<1>9. Service!Place(u, n)
  BY <1>4, <1>5, <1>6, <1>7, <1>8 DEF Service!Place, StageOf, NodeOf
<1> QED
  BY <1>9 DEF Service!Next

LEMMA ServiceTell ==
    ASSUME StateInv, NEW w \in Workers, Record(w)
    PROVE  Service!Next
<1>1. PICK u \in Pods : u = worker[w].pod
  BY DEF Record, StateInv, TypeInv, WorkerInv, HasPod
<1>2. worker[w].node \in Nodes /\ worker[w].at = "record"
  BY DEF Record, StateInv, TypeInv, WorkerInv, HasNode
<1>3. api[u].node = worker[w].node /\ decisions[u] = <<>>
  BY <1>1, <1>2 DEF StateInv, BindingInv
<1>4. UNCHANGED api /\ decisions' = [decisions EXCEPT ![u] = Append(decisions[u], worker[w].node)]
  BY <1>1 DEF Record
<1>5. Append(decisions[u], worker[w].node) = <<api[u].node>>
  BY <1>3
<1>6. NodeOf[u] = api[u].node /\ NodeOf[u] # None
  BY <1>2, <1>3, PodsAssumption DEF NodeOf
<1>7. StageOf' = StageOf /\ NodeOf' = NodeOf
  BY <1>4 DEF StageOf, NodeOf
<1>8. Service!Tell(u)
  BY <1>3, <1>4, <1>5, <1>6, <1>7 DEF Service!Tell, StageOf, NodeOf
<1> QED
  BY <1>8 DEF Service!Next

LEMMA ServiceStep == StateInv /\ RoomInv /\ [Next]_vars => [Service!Next]_(Service!vars)
<1> SUFFICES ASSUME StateInv, RoomInv, [Next]_vars
             PROVE  [Service!Next]_(Service!vars)
  OBVIOUS
<1>1. ASSUME UNCHANGED decisions,
             \A v \in Pods : api'[v].node = api[v].node /\ api'[v].stage = api[v].stage
      PROVE  UNCHANGED Service!vars
  <2>1. StageOf' = StageOf /\ NodeOf' = NodeOf
    BY <1>1 DEF StageOf, NodeOf
  <2> QED
    BY <1>1, <2>1 DEF Service!vars, StageOf, NodeOf
<1>2. ASSUME NEW w \in Workers, Annotate(w)
      PROVE  UNCHANGED Service!vars
  <2>1. UNCHANGED decisions
    BY <1>2 DEF Annotate, lines
  <2>2. \A v \in Pods : api'[v].node = api[v].node /\ api'[v].stage = api[v].stage
    BY <1>2, MarkMoves DEF StateInv, TypeInv
  <2> QED
    BY <1>1, <2>1, <2>2
<1>3. ASSUME \/ \E w \in Workers : \/ Take(w) \/ LookUp(w) \/ Choose(w) \/ Defer(w)
                                   \/ GiveUp(w) \/ BindFails(w)
             \/ \E k \in Keys : Deliver(k) \/ ExpireKey(k)
             \/ Handler \/ Restart
             \/ UNCHANGED vars
      PROVE  UNCHANGED Service!vars
  <2>1. UNCHANGED <<api, decisions>>
    BY <1>3 DEF Take, LookUp, Choose, Defer, GiveUp, BindFails, Deliver, ExpireKey, Handler,
                HandleSeen, HandleDelete, WriteObserved, DropState, Restart, lines, vars
  <2> QED
    BY <1>1, <2>1
<1> QED
  BY <1>2, <1>3, ServiceLife, ServicePlace, ServiceTell DEF Next, Work

(* ImplementsService: every run of the controller, with whatever races,    *)
(* failures and restarts, is a run of PlacementService: bindings are made  *)
(* once, with room but for one pod per other worker, and told as they are. *)
THEOREM ControllerImplementsService == Spec => ImplementsService
<1>1. RoomInv /\ StateInv /\ [Next]_vars => RoomInv'
  BY RoomStep
<1> QED
  BY RoomInit, <1>1, ServiceInit, ServiceStep, StateInvariant, PTL
  DEF Spec, ImplementsService, Service!Spec
=============================================================================
