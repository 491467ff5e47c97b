----------------------------- MODULE NodeSelect -----------------------------
(***************************************************************************)
(* How a node is selected from the scores a policy gives                   *)
(* (hetsched/pkg/core/scheduler.go: SelectSiteAndNode, ArgMin).            *)
(*                                                                         *)
(* scores is a Go map: ArgMin ranges over it in an order that the runtime  *)
(* picks, here any.  Node names are the positive numbers in their          *)
(* alphabetic order and 0 is the empty name.  Which map a policy answers   *)
(* is PolicyChoice's; all of them answer {"": +Inf} when no node is        *)
(* feasible.                                                               *)
(***************************************************************************)
EXTENDS Integers, FiniteSets

CONSTANT Inf   \* +Inf, above every number

ASSUME InfAssumption == Inf \notin Int

Empty == 0

VARIABLES
    scores,  \* the map a policy returned
    todo,    \* keys of scores the range loop has not come to
    best,    \* best
    bestID,  \* bestID
    pc,      \* "score", "range", or "done" once SelectSiteAndNode has returned
    failed   \* whether it returned an error

vars == <<scores, todo, best, bestID, pc, failed>>

(* The order of costs.                                                     *)
Lower(x, y) == x # Inf /\ (y = Inf \/ x < y)

(* Mutant: the first of equal scores is kept, whichever comes first.       *)
BetterFirst(id) == Lower(scores[id], best) \/ (scores[id] = best /\ bestID = Empty)

Better(id) ==
    \/ Lower(scores[id], best)
    \/ scores[id] = best /\ (bestID = Empty \/ id < bestID)

(* ArgMin starts to range over the map that was scored.                    *)
ArgMin(map) ==
    /\ scores' = map
    /\ todo' = DOMAIN map
    /\ best' = Inf
    /\ bestID' = Empty
    /\ pc' = "range"
    /\ UNCHANGED failed

Visit(id) ==
    /\ pc = "range"
    /\ id \in todo
    /\ todo' = todo \ {id}
    /\ IF Better(id)
       THEN best' = scores[id] /\ bestID' = id
       ELSE UNCHANGED <<best, bestID>>
    /\ UNCHANGED <<scores, pc, failed>>

(* An empty map has no minimum; that is the only error of its own.         *)
Return ==
    /\ pc = "range"
    /\ todo = {}
    /\ pc' = "done"
    /\ failed' = (DOMAIN scores = {})
    /\ UNCHANGED <<scores, todo, best, bestID>>

-----------------------------------------------------------------------------
(* id comes before all other keys of the map in the order of cost and name. *)
Least(id) ==
    /\ id \in DOMAIN scores
    /\ \A o \in DOMAIN scores \ {id} :
          Lower(scores[id], scores[o]) \/ (scores[id] = scores[o] /\ id < o)

(* The selection does not depend on the order in which the map is ranged   *)
(* over: it is the cheapest node, and of equal ones the first by name      *)
(* (scheduler.go:16, "using a deterministic tie-breaker").                 *)
SelectionIsLeast == pc = "done" /\ ~failed => Least(bestID)
=============================================================================
