---------------------------- MODULE PolicyChoice ----------------------------
(***************************************************************************)
(* One call of SelectSiteAndNode: a policy of any kind scores a list of    *)
(* nodes with any signals, and ArgMin (NodeSelect) ranges over the map it  *)
(* answers.  The name of a node is its place in the alphabet.              *)
(***************************************************************************)
EXTENDS Policies, NodeSelect

CONSTANTS
    Cases,  \* policies: their kind, configuration and the values of their signals
    Lists   \* the nodes they may be asked about, in an order

(* For keids the runtime of a workload is the same on all nodes            *)
(* (candidate.go:104).                                                     *)
ASSUME ChoiceAssumption ==
    /\ NoNode = Empty
    /\ \A l \in Lists : /\ l \in Seq(Nat \ {Empty})
                         /\ \A i, k \in DOMAIN l : l[i] = l[k] => i = k
    /\ \A c \in Cases :
          /\ c.weights \in Configurations
          /\ \A f \in DOMAIN c.signal : c.signal[f] \subseteq Nat
          /\ c.kind \in Kinds => Read(c.kind) \subseteq DOMAIN c.signal
          /\ c.kind = "keids" => \A x, y \in c.signal["runtime"] : x = y

VARIABLES
    policy,  \* one of Cases
    items    \* the nodes with their signals

choiceVars == <<policy, items, vars>>

kind == policy.kind
weights == policy.weights
answer == bestID
Fields == DOMAIN policy.signal

SignalRecords(signal) ==
    LET fields == DOMAIN signal
    IN  {s \in [fields -> UNION {signal[f] : f \in fields}] :
            \A f \in fields : s[f] \in signal[f]}

(* The signals of an infeasible node are not computed and stay zero.       *)
Measured(signal) ==
    {<<TRUE, s>> : s \in SignalRecords(signal)} \cup {<<FALSE, [f \in DOMAIN signal |-> 0]>>}

ChoiceInit ==
    /\ policy \in Cases
    /\ \E names \in Lists :
          \E m \in [DOMAIN names -> Measured(policy.signal)] :
              items = [i \in DOMAIN names |-> Item(names[i], m[i][1], m[i][2])]
    /\ scores = [id \in {} |-> 0]
    /\ todo = {}
    /\ best = Inf
    /\ bestID = Empty
    /\ pc = "score"
    /\ failed = FALSE

(* ecokube, keids and topsis refuse an empty list, ecokube an unknown mode. *)
Fails == \/ kind \notin Kinds
         \/ items = <<>> /\ kind \notin {"carbonscaler", "k8s"}

(* Policy.Score; without a feasible node the map is {"": +Inf}.            *)
Score ==
    /\ pc = "score"
    /\ ~Fails
    /\ ArgMin(IF Feasibles(items) = {} THEN [id \in {Empty} |-> Inf]
              ELSE Scores(kind, items, weights))
    /\ UNCHANGED <<policy, items>>

(* The error of the policy is returned.                                    *)
Fail ==
    /\ pc = "score"
    /\ Fails
    /\ pc' = "done"
    /\ failed' = TRUE
    /\ UNCHANGED <<policy, items, scores, todo, best, bestID>>

Select ==
    /\ (\E id \in todo : Visit(id)) \/ Return
    /\ UNCHANGED <<policy, items>>

ChoiceNext == Score \/ Fail \/ Select \/ (pc = "done" /\ UNCHANGED choiceVars)

ChoiceSpec == ChoiceInit /\ [][ChoiceNext]_choiceVars

-----------------------------------------------------------------------------
Chosen == ItemOf(items, answer)
IsChoice == pc = "done" /\ ~failed /\ Feasibles(items) # {}

(* What the weighted sums weigh besides carbon, runtime and queue: energy  *)
(* has the weight that these leave of 100.                                 *)
WeighedToo(w) ==
    (IF w.alpha + w.beta + w.gamma < 100 THEN {"energy"} ELSE {})
    \cup (IF w.delta > 0 THEN {"move"} ELSE {})
    \cup (IF w.fit > 0 THEN {"fit"} ELSE {})

(* The signals that kind k weighs, with configuration w.                   *)
Weighed(k, w) ==
    CASE k = "eco-epsilon-constraint" -> {"co2", "runtime", "queue"}
      [] k = "carbonscaler" -> (IF w.lambda > 0 THEN {"co2"} ELSE {})
                               \cup (IF w.lambda < 100 THEN {"queue"} ELSE {})
      [] k = "k8s" -> {"used"}
      [] OTHER -> (IF w.alpha > 0 THEN {"co2"} ELSE {})
                  \cup (IF w.beta > 0 THEN {"runtime"} ELSE {})
                  \cup (IF w.gamma > 0 THEN {"queue"} ELSE {})
                  \cup (IF k \in {"keids", "topsis"} THEN {} ELSE WeighedToo(w))

NoWorse(a, b, f) == IF f = "fit" THEN a[f] >= b[f] ELSE a[f] <= b[f]

(* The scaled signals tell all values apart.                               *)
ScaleIsFine == \A c \in Cases : \A f \in DOMAIN c.signal : c.signal[f] \subseteq 0..Scale

(* No feasible node is at least as good as the chosen one in every signal  *)
(* and better in one that the policy weighs, whatever the nodes are scaled *)
(* against (ecokube.go:203 and 245, keids.go:72, topsis.go:94,             *)
(* carbonscaler.go:104).                                                   *)
Undominated ==
    IsChoice =>
        /\ Chosen.feasible
        /\ ~\E i \in Feasibles(items) :
              /\ \A f \in Fields : NoWorse(items[i], Chosen, f)
              /\ \E f \in Weighed(kind, weights) \cap Fields : items[i][f] # Chosen[f]

(* Nodes that cannot take the job change nothing: the choice is that among *)
(* the feasible nodes alone (ecokube.go:185, the walk of idx).             *)
InfeasibleIrrelevant ==
    IsChoice => answer = Selected(kind, AtPositions(items, Feasibles(items)), weights)

Orders == {p \in [DOMAIN items -> DOMAIN items] : \A i, k \in DOMAIN items : p[i] = p[k] => i = k}
Reordered(p) == [i \in DOMAIN items |-> items[p[i]]]

(* The order of the list of nodes, which is that of the CSV or of the API  *)
(* server, does not matter.  The ranks of eco-epsilon-constraint depend on *)
(* it, but only between nodes of equal carbon, runtime and queue.          *)
OrderIrrelevant ==
    IsChoice => \A p \in Orders :
        LET other == ItemOf(items, Selected(kind, Reordered(p), weights))
        IN  IF kind = "eco-epsilon-constraint"
            THEN \A f \in {"co2", "runtime", "queue"} : other[f] = Chosen[f]
            ELSE other.id = answer

(* eco-epsilon-constraint: the bounds hold for the choice if any feasible  *)
(* node meets them, and among the nodes that meet them (all, if none does) *)
(* it stays within 15 percent of the least carbon and the least energy if  *)
(* one of them does (ecokube.go:247-301).                                  *)
EpsilonKept ==
    IsChoice /\ kind = "eco-epsilon-constraint" =>
        LET meets(it) == /\ weights.maxRuntime > 0 => it.runtime <= weights.maxRuntime
                         /\ weights.maxMove > 0 => it.move <= weights.maxMove
            able == {i \in Feasibles(items) : meets(items[i])}
            pool == IF able = {} THEN Feasibles(items) ELSE able
            near(it) == \A k \in pool : /\ 100 * it.co2 <= 115 * items[k].co2
                                        /\ 100 * it.energy <= 115 * items[k].energy
        IN  /\ able # {} => meets(Chosen)
            /\ (\E i \in pool : near(items[i])) => near(Chosen)
=============================================================================
