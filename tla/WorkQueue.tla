----------------------------- MODULE WorkQueue -----------------------------
(***************************************************************************)
(* The rate limiting work queue of client-go as the controller uses it     *)
(* (hetsched/controller/main.go): handlers Add a pod's key, workers Get a  *)
(* key and call Done when they have processed it, AddRateLimited and       *)
(* AddAfter put a key back later.  A key that is added while a worker has  *)
(* it waits until that worker is done, so no two workers get the same key. *)
(***************************************************************************)
EXTENDS Sequences

CONSTANT Keys  \* namespace/name of the pods

VARIABLES
    queue,       \* keys a worker may get, oldest first
    dirty,       \* keys that need processing
    processing,  \* keys some worker has got and not yet given back
    delayed      \* keys waiting for their back-off or deferral to pass

queueVars == <<queue, dirty, processing, delayed>>

EmptyQueue ==
    /\ queue = <<>>
    /\ dirty = {}
    /\ processing = {}
    /\ delayed = {}

Add(k) ==
    IF k \in dirty
    THEN UNCHANGED <<queue, dirty>>
    ELSE /\ dirty' = dirty \cup {k}
         /\ queue' = IF k \in processing THEN queue ELSE Append(queue, k)

Get(k) ==
    /\ queue # <<>>
    /\ k = Head(queue)
    /\ queue' = Tail(queue)
    /\ dirty' = dirty \ {k}
    /\ processing' = processing \cup {k}
    /\ UNCHANGED delayed

(* Mutant: a key added while it was processed is forgotten.                *)
DoneDropsDirty(k) ==
    /\ processing' = processing \ {k}
    /\ UNCHANGED <<queue, dirty>>

Done(k) ==
    /\ processing' = processing \ {k}
    /\ queue' = IF k \in dirty THEN Append(queue, k) ELSE queue
    /\ UNCHANGED dirty

(* Mutant: a retry is not remembered.                                      *)
NoRetry(k) == UNCHANGED delayed

AddLater(k) == delayed' = delayed \cup {k}

Expire(k) ==
    /\ k \in delayed
    /\ delayed' = delayed \ {k}
    /\ Add(k)
    /\ UNCHANGED processing

LoseQueue ==
    /\ queue' = <<>>
    /\ dirty' = {}
    /\ processing' = {}
    /\ delayed' = {}

QueueTypeOK ==
    /\ queue \in Seq(Keys)
    /\ dirty \subseteq Keys
    /\ processing \subseteq Keys
    /\ delayed \subseteq Keys
=============================================================================
