-------------------------- MODULE PlacementService --------------------------
(***************************************************************************)
(* What the controller promises, without queue, caches, workers, failures  *)
(* or restarts: a pod is given a node once, which it keeps; the node fits  *)
(* what it has been given, but for a few pods; and the placement is told   *)
(* once, after it is made, as it is.                                       *)
(***************************************************************************)
EXTENDS Integers, Sequences

CONSTANTS
    Pods,
    Nodes,
    Res,        \* resource kinds, e.g. cpu and memory
    Capacity,   \* Capacity[n][r]: what node n has of r
    Load,       \* Load[r][S]: what the pods of S need of r together
    Few,        \* the sets of pods that may be too many on a node
    None        \* no node

VARIABLES
    stage,      \* stage[u]: "absent" | "pending" | "running" | "ended" | "gone"
    node,       \* node[u]: the node pod u is given, or None
    told        \* told[u]: the placements of u that were told

vars == <<stage, node, told>>

Init ==
    /\ stage = [u \in Pods |-> "absent"]
    /\ node = [u \in Pods |-> None]
    /\ told = [u \in Pods |-> <<>>]

Appear(u) ==
    /\ stage[u] = "absent"
    /\ stage' = [stage EXCEPT ![u] = "pending"]
    /\ UNCHANGED <<node, told>>

(* Only a pod with a node runs.                                            *)
Run(u) ==
    /\ stage[u] = "pending"
    /\ node[u] # None
    /\ stage' = [stage EXCEPT ![u] = "running"]
    /\ UNCHANGED <<node, told>>

End(u) ==
    /\ stage[u] = "running"
    /\ stage' = [stage EXCEPT ![u] = "ended"]
    /\ UNCHANGED <<node, told>>

Vanish(u) ==
    /\ stage[u] \in {"pending", "running", "ended"}
    /\ stage' = [stage EXCEPT ![u] = "gone"]
    /\ UNCHANGED <<node, told>>

Holders(n) == {u \in Pods : node[u] = n /\ stage[u] \in {"pending", "running"}}

(* Without few of them, the pods of C fit node n.                          *)
Bearable(n, C) == \A r \in Res : \E S \in Few : Load[r][C \ S] <= Capacity[n][r]

Place(u, n) ==
    /\ stage[u] = "pending"
    /\ node[u] = None
    /\ Bearable(n, Holders(n) \cup {u})
    /\ node' = [node EXCEPT ![u] = n]
    /\ UNCHANGED <<stage, told>>

Tell(u) ==
    /\ node[u] # None
    /\ told[u] = <<>>
    /\ told' = [told EXCEPT ![u] = <<node[u]>>]
    /\ UNCHANGED <<stage, node>>

Next ==
    \E u \in Pods :
        \/ Appear(u) \/ Run(u) \/ End(u) \/ Vanish(u) \/ Tell(u)
        \/ \E n \in Nodes : Place(u, n)

Spec == Init /\ [][Next]_vars
=============================================================================
