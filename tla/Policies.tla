------------------------------ MODULE Policies ------------------------------
(***************************************************************************)
(* How the policies score the nodes from the signals they measured         *)
(* (policies/ecokube, keids, topsis, carbonscaler, k8sched).  A lower      *)
(* score is better.                                                        *)
(*                                                                         *)
(* items is the list of nodes in the order the policy got it, each with    *)
(* its name, whether it is feasible, and its signals.  Weights are in      *)
(* percent; a signal scaled to [0, 1] is a number of 0..Scale, rounded     *)
(* down: it is exact when Scale is a multiple of the signal's range.       *)
(***************************************************************************)
EXTENDS Filter, FiniteSetsExt

CONSTANTS
    Scale,   \* one
    NoNode   \* the empty name, which comes before all others

ASSUME ScaleAssumption == Scale \in Nat \ {0}

(* The weights and bounds of the policies.                                 *)
Configurations ==
    [alpha : Nat, beta : Nat, gamma : Nat, delta : Nat, fit : Nat,
     lambda : Int, maxRuntime : Int, maxMove : Int]

(* The item of a node with signals s.                                      *)
Item(id, feasible, s) ==
    [f \in {"id", "feasible"} \cup DOMAIN s |->
        CASE f = "id" -> id [] f = "feasible" -> feasible [] OTHER -> s[f]]

(* The positions of the feasible items, and the names at positions.        *)
Feasibles(items) == {i \in DOMAIN items : items[i].feasible}
NamesAt(items, S) == {items[i].id : i \in S}

(* The item named id.                                                      *)
ItemOf(items, id) == items[CHOOSE i \in DOMAIN items : items[i].id = id]

-----------------------------------------------------------------------------
(* Scaling                                                                 *)

(* Mutant: infeasible items, whose signals are zero, are in the list.      *)
SignalsOfAll(items, f) == [i \in DOMAIN items |-> items[i][f]]

(* Values of signal f, one for each feasible item.                         *)
Signals(items, f) ==
    LET feasible == AtPositions(items, Feasibles(items))
    IN  [i \in DOMAIN feasible |-> feasible[i][f]]

Values(vals) == {vals[i] : i \in DOMAIN vals}

(* normaliseMinMax: one half if the range collapses.                       *)
MinMax(vals) ==
    LET lo == Min(Values(vals))
        hi == Max(Values(vals))
    IN  [i \in DOMAIN vals |-> IF hi = lo THEN Scale \div 2
                               ELSE (Scale * (vals[i] - lo)) \div (hi - lo)]

(* Where idx is when the loop over the items comes to position i.          *)
Idx(items, i) == Rank(Feasibles(items), i)

(* Signal f of the feasible item i, scaled.                                *)
Hat(items, f, i) == MinMax(Signals(items, f))[Idx(items, i)]

(* The map from names to scores, with score[i] for item i.                 *)
ScoreMap(items, score) ==
    [id \in NamesAt(items, Feasibles(items)) |->
        score[CHOOSE i \in Feasibles(items) : items[i].id = id]]

Clamp(x, low, high) == IF x < low THEN low ELSE IF x > high THEN high ELSE x

-----------------------------------------------------------------------------
(* ecokube                                                                 *)

(* Mutant: the fit is added instead of its shortfall.                      *)
WeightedByFit(items, w) == ScoreMap(items, [i \in Feasibles(items) |->
    w.alpha * Hat(items, "co2", i)
    + Max({0, 100 - (w.alpha + w.beta + w.gamma)}) * Hat(items, "energy", i)
    + w.beta * Hat(items, "runtime", i)
    + w.gamma * Hat(items, "queue", i)
    + w.delta * Hat(items, "move", i)
    + w.fit * Hat(items, "fit", i)])

WeightedScores(items, w) == ScoreMap(items, [i \in Feasibles(items) |->
    w.alpha * Hat(items, "co2", i)
    + Max({0, 100 - (w.alpha + w.beta + w.gamma)}) * Hat(items, "energy", i)
    + w.beta * Hat(items, "runtime", i)
    + w.gamma * Hat(items, "queue", i)
    + w.delta * Hat(items, "move", i)
    + w.fit * (IF w.fit > 0 THEN Scale - Hat(items, "fit", i) ELSE 0)])

(* The feasible items within the bounds of the configuration (a bound of   *)
(* zero or less is off), or all if there is none.                          *)
WithinBounds(items, w) ==
    {i \in Feasibles(items) :
        /\ w.maxRuntime > 0 => items[i].runtime <= w.maxRuntime
        /\ w.maxMove > 0 => items[i].move <= w.maxMove}

BoundedItems(items, w) ==
    IF WithinBounds(items, w) = {} THEN Feasibles(items) ELSE WithinBounds(items, w)

(* Of the positions S, those within 15 percent of the least carbon and of  *)
(* the least energy in S.                                                  *)
Guarded(items, S) ==
    {i \in S : \A f \in {"co2", "energy"} :
        100 * items[i][f] <= 115 * Min({items[k][f] : k \in S})}

(* Mutant: the guard is taken against all feasible items.                  *)
CandidatesGuardedFirst(items, w) ==
    LET S == BoundedItems(items, w)
        G == Guarded(items, Feasibles(items)) \cap S
    IN  IF G = {} THEN S ELSE G

EpsilonCandidates(items, w) ==
    LET S == BoundedItems(items, w)
    IN  IF Guarded(items, S) = {} THEN S ELSE Guarded(items, S)

(* Mutant: runtime is not compared.                                        *)
RanksBeforeSkipping(items, i, k) ==
    \/ items[i].co2 < items[k].co2
    \/ /\ items[i].co2 = items[k].co2
       /\ \/ items[i].queue < items[k].queue
          \/ items[i].queue = items[k].queue /\ i < k

(* The stable sort by carbon, runtime and queue.                           *)
RanksBefore(items, i, k) ==
    \/ items[i].co2 < items[k].co2
    \/ /\ items[i].co2 = items[k].co2
       /\ \/ items[i].runtime < items[k].runtime
          \/ /\ items[i].runtime = items[k].runtime
             /\ \/ items[i].queue < items[k].queue
                \/ items[i].queue = items[k].queue /\ i < k

(* A candidate scores its rank, any other feasible item more than all.     *)
EpsilonScores(items, w) ==
    LET C == EpsilonCandidates(items, w)
    IN  ScoreMap(items, [i \in Feasibles(items) |->
            IF i \in C THEN Cardinality({k \in C : RanksBefore(items, k, i)})
            ELSE Cardinality(C) + 1])

-----------------------------------------------------------------------------
(* keids: interference grows with the queue relative to the runtime.       *)
KeidsScores(items, w) == ScoreMap(items, [i \in Feasibles(items) |->
    100 * (w.alpha * Hat(items, "co2", i) + w.beta * Hat(items, "runtime", i)
           + w.gamma * Hat(items, "queue", i))
    + IF items[i].runtime > 0
      THEN (5 * w.gamma * Scale * items[i].queue) \div (items[i].runtime + 1) ELSE 0])

-----------------------------------------------------------------------------
(* topsis: closeness to the ideal.  It is compared by its squares: of two  *)
(* distances worst/(best+worst) is larger where worst^2/best^2 is.         *)

WeightOf(w, f) == CASE f = "co2" -> w.alpha [] f = "runtime" -> w.beta [] f = "queue" -> w.gamma

SquareSum(items, f) ==
    LET square == [id \in NamesAt(items, Feasibles(items)) |->
                      ItemOf(items, id)[f] * ItemOf(items, id)[f]]
    IN  MapThenSumSet(LAMBDA id : square[id], DOMAIN square)

(* Product of the other criteria's sums of squares, the common denominator. *)
Cofactor(items, f) ==
    LET Factor(g) == IF g = f \/ SquareSum(items, g) = 0 THEN 1 ELSE SquareSum(items, g)
    IN  Factor("co2") * Factor("runtime") * Factor("queue")

(* The squared distance of item i from the best or worst value of each     *)
(* criterion; a criterion that is zero everywhere adds nothing.            *)
SquareDistance(items, w, i, Ideal(_)) ==
    LET Gap(f) == items[i][f] - Ideal({items[k][f] : k \in Feasibles(items)})
        Part(f) == IF SquareSum(items, f) = 0 THEN 0
                   ELSE WeightOf(w, f) * WeightOf(w, f) * Gap(f) * Gap(f) * Cofactor(items, f)
    IN  Part("co2") + Part("runtime") + Part("queue")

(* Whether item i is closer to the ideal than item k.                      *)
Closer(items, w, i, k) ==
    SquareDistance(items, w, i, Max) * SquareDistance(items, w, k, Min)
        > SquareDistance(items, w, k, Max) * SquareDistance(items, w, i, Min)

(* 1 - closeness, as the number of nodes that are closer.                  *)
TopsisScores(items, w) == ScoreMap(items, [i \in Feasibles(items) |->
    Cardinality(NamesAt(items, {k \in Feasibles(items) : Closer(items, w, k, i)}))])

-----------------------------------------------------------------------------
(* carbonscaler: lambda weighs carbon against the share of the longest     *)
(* queue.                                                                  *)
ScalerScores(items, w) ==
    LET longest == Max({0} \cup Values(Signals(items, "queue")))
    IN  ScoreMap(items, [i \in Feasibles(items) |->
            Clamp(w.lambda, 0, 100) * Hat(items, "co2", i)
            + (100 - Clamp(w.lambda, 0, 100)) *
              (IF longest > 0 THEN (Scale * items[i].queue) \div longest ELSE 0)])

(* k8sched: the share of CPU and memory in use.                            *)
K8sScores(items) == ScoreMap(items, [i \in Feasibles(items) |-> items[i].used])

-----------------------------------------------------------------------------
(* The modes of ecokube that score a weighted sum; "" is the default.      *)
Weighing == {"", "eco-weighted-sum", "eco-greedy-normalised"}
Kinds == Weighing \cup {"eco-epsilon-constraint", "keids", "topsis", "carbonscaler", "k8s"}

(* The signals it reads.                                                   *)
Read(kind) ==
    CASE kind \in Weighing ->
            {"co2", "energy", "runtime", "queue", "move", "fit"}
      [] kind = "eco-epsilon-constraint" -> {"co2", "energy", "runtime", "queue", "move"}
      [] kind \in {"keids", "topsis"} -> {"co2", "runtime", "queue"}
      [] kind = "carbonscaler" -> {"co2", "queue"}
      [] kind = "k8s" -> {"used"}

(* Policy.Score of a policy of this kind.                                  *)
Scores(kind, items, w) ==
    CASE kind \in Weighing -> WeightedScores(items, w)
      [] kind = "eco-epsilon-constraint" -> EpsilonScores(items, w)
      [] kind = "keids" -> KeidsScores(items, w)
      [] kind = "topsis" -> TopsisScores(items, w)
      [] kind = "carbonscaler" -> ScalerScores(items, w)
      [] kind = "k8s" -> K8sScores(items)

(* The node SelectSiteAndNode answers: the least score, by name among      *)
(* equals (see NodeSelect), or the empty name of the map {"": +Inf}.       *)
Selected(kind, items, w) ==
    LET scores == Scores(kind, items, w)
        best == {n \in DOMAIN scores : \A o \in DOMAIN scores : scores[n] <= scores[o]}
    IN  IF Feasibles(items) = {} THEN NoNode ELSE Min(best)
=============================================================================
