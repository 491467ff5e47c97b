--------------------------- MODULE PlacementProofs ---------------------------
(***************************************************************************)
(* Theorems about the decision on a pod, for every cluster, demand, cap    *)
(* and scheduler.  The inductive invariant is DecisionInv:                 *)
(*   TypeInv       types, and what the views can be                        *)
(*   ListedInv     a pod not bound since the list was listed on its node   *)
(*   ChosenInv     the node about to be bound to has room on the list      *)
(*   RejectedInv   no view of a rejected pod has room on the list          *)
(***************************************************************************)
EXTENDS Placement, FiniteSetTheorems, WellFoundedInduction, TLAPS

PodRecords == [node : Nodes \cup {None}, started : BOOLEAN, age : Nat, lasts : BOOLEAN]

TypeInv ==
    /\ nodeCap \in Nat
    /\ cluster \subseteq Nodes
    /\ pods \in [Pods -> PodRecords]
    /\ listed \in [Pods -> PodRecords]
    /\ known \subseteq Nodes
    /\ views \in Views(known)

ListedInv ==
    at \in {"nodes", "schedule", "bind"} =>
        \A p \in Pods \ fresh : pods[p].node # None /\ pods[p].lasts =>
            listed[p].node = pods[p].node /\ listed[p].lasts

Fits(n) == \A r \in Res : Free(n, r) >= Demand[Job][r]

ChosenInv == at = "bind" => outcome.node \in Nodes /\ Fits(outcome.node)

RejectedInv ==
    outcome.what = "rejected" =>
        /\ at = "retry"
        /\ (remote /\ policy = "k8s") \/ \A n \in ToSet(views) : ~Fits(n)

DecisionInv == TypeInv /\ ListedInv /\ ChosenInv /\ RejectedInv

-----------------------------------------------------------------------------
(* Minima of sets of natural numbers                                       *)

LEMMA NatLess == IsWellFoundedOn({ss \in Nat \X Nat : ss[1] < ss[2]}, Nat)
BY NatLessThanWellFounded, Zenon DEF OpToRel

LEMMA LeastNumber ==
    ASSUME NEW T \in SUBSET Nat, T # {}
    PROVE  \E x \in T : \A y \in T : x <= y
<1> DEFINE R == {ss \in Nat \X Nat : ss[1] < ss[2]}
<1>1. IsWellFoundedOn(R, Nat)
  BY NatLess
<1>2. \A x, y \in Nat : ~(<<y, x>> \in R) => x <= y
  OBVIOUS
<1> HIDE DEF R
<1>3. PICK x \in T : \A y \in T : ~(<<y, x>> \in R)
  BY <1>1, WFMin
<1> QED
  BY <1>2, <1>3

LEMMA MinIsMember ==
    ASSUME NEW T \in SUBSET Nat, T # {}
    PROVE  Min(T) \in T
BY LeastNumber DEF Min

-----------------------------------------------------------------------------
(* Loads                                                                   *)

LEMMA LoadOfUnion ==
    ASSUME NEW r \in Res, NEW S \in SUBSET Pods, NEW T \in SUBSET Pods,
           NEW U \in SUBSET Pods, S \cup T = U, S \cap T = {}
    PROVE  Load[r][U] = Load[r][S] + Load[r][T]
BY LoadAssumption

LEMMA LoadIsNat ==
    ASSUME NEW r \in Res, NEW S \in SUBSET Pods
    PROVE  Load[r][S] \in Nat
BY LoadAssumption

(* Load is additive, so fewer pods are no more load.                       *)
LEMMA LoadMonotone ==
    ASSUME NEW r \in Res, NEW T \in SUBSET Pods, NEW S \in SUBSET T
    PROVE  Load[r][S] <= Load[r][T]
<1>1. S \in SUBSET Pods /\ T \ S \in SUBSET Pods
  OBVIOUS
<1>2. S \cup (T \ S) = T /\ S \cap (T \ S) = {}
  OBVIOUS
<1>3. Load[r][T] = Load[r][S] + Load[r][T \ S]
  BY <1>1, <1>2, LoadOfUnion
<1> QED
  BY <1>1, <1>3, LoadIsNat

LEMMA NoLoad ==
    ASSUME NEW r \in Res
    PROVE  Load[r][{}] = 0
<1>1. PICK S \in SUBSET Pods : S = {}
  OBVIOUS
<1>2. Load[r][S] \in Nat
  BY LoadIsNat
<1>3. Load[r][S] = Load[r][S] + Load[r][S]
  BY <1>1, LoadOfUnion
<1>4. \A x \in Nat : x = x + x => x = 0
  OBVIOUS
<1>5. Load[r][S] = 0
  BY <1>2, <1>3, <1>4, Zenon
<1> QED
  BY <1>1, <1>5

(* Pods that ask nothing are no load: otherwise take the fewest of them    *)
(* that are one, and leave out one more.                                   *)
LEMMA NothingAsked ==
    ASSUME NEW r \in Res, NEW Z \in SUBSET Pods, \A p \in Z : Demand[p][r] = 0
    PROVE  Load[r][Z] = 0
<1> SUFFICES ASSUME Load[r][Z] # 0 PROVE FALSE
  OBVIOUS
<1> DEFINE Bad == {S \in SUBSET Z : Load[r][S] # 0}
           Sizes == {Cardinality(S) : S \in Bad}
<1>1. \A S \in SUBSET Z : S \in SUBSET Pods /\ IsFiniteSet(S) /\ Cardinality(S) \in Nat
  BY JobAssumption, FS_Subset, FS_CardinalityType
<1>2. Sizes \in SUBSET Nat /\ Sizes # {}
  <2>1. Z \in Bad
    OBVIOUS
  <2> QED
    BY <1>1, <2>1
<1>3. PICK k \in Sizes : \A l \in Sizes : k <= l
  <2> HIDE DEF Sizes
  <2> QED
    BY <1>2, LeastNumber
<1>4. PICK S \in Bad : Cardinality(S) = k
  BY <1>3
<1>5. S \in SUBSET Z /\ S \in SUBSET Pods /\ IsFiniteSet(S) /\ Cardinality(S) \in Nat
  BY <1>1, <1>4
<1>6. S # {}
  BY <1>4, NoLoad
<1>7. PICK p \in S : TRUE
  BY <1>6
<1>8. PICK T \in SUBSET Pods : T = S \ {p}
  BY <1>5
<1>9. Load[r][S] = Load[r][T] + Load[r][{p}]
  <2>1. T \cup {p} = S /\ T \cap {p} = {} /\ {p} \in SUBSET Pods
    BY <1>5, <1>7, <1>8
  <2> QED
    BY <1>5, <2>1, LoadOfUnion
<1>10. Load[r][{p}] = 0
  <2>1. p \in Pods /\ p \in Z
    BY <1>5, <1>7
  <2> QED
    BY <2>1, LoadAssumption
<1>11. Load[r][T] # 0
  BY <1>4, <1>9, <1>10, LoadIsNat
<1>12. T \in SUBSET Z
  BY <1>5, <1>8
<1>13. Cardinality(T) \in Sizes
  BY <1>11, <1>12
<1>14. Cardinality(T) = k - 1
  BY <1>4, <1>5, <1>7, <1>8, FS_RemoveElement
<1>15. k \in Nat
  BY <1>4, <1>5
<1> HIDE DEF Sizes
<1>16. k <= Cardinality(T)
  BY <1>3, <1>13
<1> QED
  BY <1>14, <1>15, <1>16

-----------------------------------------------------------------------------
(* The views                                                               *)

(* What is listed is of N, and what is not is behind the cap by name.      *)
LEMMA ListingsComplete ==
    ASSUME nodeCap \in Nat, NEW N \in SUBSET Nodes, NEW s \in Listings(N)
    PROVE  /\ DOMAIN s \subseteq Nat
           /\ \A i \in DOMAIN s : s[i] \in N
           /\ \A n \in N \ ToSet(s) : nodeCap > 0 /\ Cardinality({m \in N : m < n}) >= nodeCap
<1>1. N \subseteq Nat /\ IsFiniteSet(N) /\ Cardinality(N) \in Nat
  BY NodesAssumption, FS_Subset, FS_CardinalityType
<1>2. CASE nodeCap = 0 \/ Cardinality(N) <= nodeCap
  <2>1. /\ s \in [1..Cardinality(N) -> N]
        /\ \A n \in N : \E i \in DOMAIN s : s[i] = n
    BY <1>2 DEF Listings
  <2> QED
    BY <1>1, <2>1 DEF ToSet
<1>3. CASE ~(nodeCap = 0 \/ Cardinality(N) <= nodeCap)
  <2> DEFINE Before(n) == {m \in N : m < n}
  <2>1. /\ s \in [1..nodeCap -> N]
        /\ \A i \in DOMAIN s : Cardinality(Before(s[i])) = i - 1
    BY <1>3 DEF Listings
  <2>2. \A n \in N : IsFiniteSet(Before(n)) /\ Cardinality(Before(n)) \in Nat
    <3>1. \A n \in N : Before(n) \in SUBSET N
      OBVIOUS
    <3> QED
      BY <1>1, <3>1, FS_Subset, FS_CardinalityType
  <2>3. \A a, b \in N : a < b => Cardinality(Before(a)) # Cardinality(Before(b))
    <3> SUFFICES ASSUME NEW a \in N, NEW b \in N, a < b,
                        Cardinality(Before(a)) = Cardinality(Before(b))
                 PROVE  FALSE
      OBVIOUS
    <3>0. a \in Nat /\ b \in Nat /\ \A m \in N : m \in Nat
      BY <1>1
    <3>1. Before(a) \in SUBSET Before(b) /\ a \in Before(b) /\ a \notin Before(a)
      <4>1. \A m \in N : m < a => m < b
        BY <3>0
      <4>2. ~(a < a)
        BY <3>0
      <4> QED
        BY <4>1, <4>2
    <3> HIDE DEF Before
    <3>2. Before(a) = Before(b)
      BY <2>2, <3>1, FS_Subset
    <3> QED
      BY <3>1, <3>2
  <2>4. ASSUME NEW n \in N \ ToSet(s), Cardinality(Before(n)) < nodeCap PROVE FALSE
    <3>1. PICK i : i = Cardinality(Before(n)) + 1
      OBVIOUS
    <3>2. i \in 1..nodeCap /\ Cardinality(Before(n)) = i - 1
      BY <2>2, <2>4, <3>1
    <3>3. s[i] \in N /\ s[i] # n /\ Cardinality(Before(s[i])) = Cardinality(Before(n))
      BY <2>1, <2>4, <3>2 DEF ToSet
    <3>4. s[i] < n \/ n < s[i]
      <4>1. s[i] \in Nat /\ n \in Nat
        BY <1>1, <3>3
      <4> QED
        BY <3>3, <4>1
    <3> HIDE DEF Before
    <3> QED
      BY <2>3, <3>3, <3>4
  <2>5. ASSUME NEW n \in N \ ToSet(s) PROVE Cardinality(Before(n)) >= nodeCap
    <3>1. PICK c \in Nat : c = Cardinality(Before(n))
      BY <2>2
    <3>2. ~(c < nodeCap)
      BY <2>4, <3>1, Zenon
    <3>3. c >= nodeCap
      BY <3>2
    <3> QED
      BY <3>1, <3>3, Zenon
  <2> QED
    BY <1>3, <2>1, <2>5
<1> QED
  BY <1>2, <1>3

(* The views are of known sites, and what they leave out the cap hides.    *)
LEMMA ViewsComplete ==
    ASSUME TypeInv
    PROVE  /\ DOMAIN views \subseteq Nat
           /\ \A i \in DOMAIN views : views[i] \in Nodes
           /\ \A n \in (known \cap SiteKnown) \ ToSet(views) : Hidden(n, known)
<1>1. known \cap SiteKnown \in SUBSET Nodes /\ views \in Listings(known \cap SiteKnown)
  BY DEF TypeInv, Views
<1> QED
  BY <1>1, ListingsComplete DEF TypeInv, Hidden

-----------------------------------------------------------------------------
(* The answer of a scheduler                                               *)

LEMMA QueueIsNat ==
    ASSUME TypeInv, NEW n \in Nodes
    PROVE  QueueSeconds(n) \in Nat
<1> DEFINE ahead == {s \in {Remaining(p) : p \in Counted(n)} : s > 0}
<1>1. \A p \in Pods : Remaining(p) \in Int
  BY JobAssumption DEF TypeInv, PodRecords, Remaining
<1>2. ahead \in SUBSET Nat
  BY <1>1 DEF Counted
<1>3. QueueSeconds(n) = IF ahead = {} THEN 0 ELSE Min(ahead)
  BY DEF QueueSeconds
<1> HIDE DEF ahead
<1>4. ASSUME ahead # {} PROVE Min(ahead) \in Nat
  <2>1. Min(ahead) \in ahead
    BY <1>2, <1>4, MinIsMember
  <2> QED
    BY <1>2, <2>1
<1> QED
  BY <1>3, <1>4

LEMMA ShortestIsEvaluated ==
    ASSUME TypeInv, Evaluated # {}
    PROVE  ShortestQueue \in Evaluated
<1>1. Evaluated \subseteq ToSet(views)
  BY DEF Evaluated, Feasible
<1>2. DOMAIN views \subseteq Nat /\ Evaluated \subseteq Nodes
  BY <1>1, ViewsComplete DEF ToSet
<1>3. PICK B : B = {QueueSeconds(n) : n \in Evaluated}
  OBVIOUS
<1>4. B \in SUBSET Nat /\ B # {}
  BY <1>2, <1>3, QueueIsNat
<1>5. Min(B) \in B
  BY <1>4, MinIsMember
<1>6. PICK n \in Evaluated : QueueSeconds(n) = Min(B)
  BY <1>3, <1>5
<1>7. PICK I : I = {i \in DOMAIN views : views[i] \in Evaluated /\ QueueSeconds(views[i]) = Min(B)}
  OBVIOUS
<1>8. I \in SUBSET Nat /\ I # {}
  BY <1>1, <1>2, <1>6, <1>7 DEF ToSet
<1>9. Min(I) \in I
  BY <1>8, MinIsMember
<1>10. ShortestQueue = views[Min(I)]
  BY <1>3, <1>7 DEF ShortestQueue
<1> QED
  BY <1>7, <1>9, <1>10

(* Whatever the scheduler, its answer fits.                                *)
LEMMA AnswersFit ==
    ASSUME TypeInv, NEW n \in Answers
    PROVE  n \in Nodes /\ Fits(n)
<1>1. n \in Feasible
  BY ShortestIsEvaluated DEF Answers, Evaluated
<1> QED
  BY <1>1, ViewsComplete DEF Feasible, Fits, ToSet

-----------------------------------------------------------------------------
(* The invariant                                                           *)

LEMMA UnboundType == Unbound \in [Pods -> PodRecords]
BY DEF Unbound, PodRecords

(* Without nodes there are no views.                                       *)
LEMMA NothingListed ==
    ASSUME nodeCap \in Nat
    PROVE  <<>> \in Views({})
<1>1. PICK N : N = {} \cap SiteKnown
  OBVIOUS
<1>2. N = {} /\ Cardinality(N) = 0
  BY <1>1, FS_EmptySet
<1>3. <<>> \in [1..Cardinality(N) -> N]
  <2>1. <<>> \in [{} -> {}]
    OBVIOUS
  <2>2. 1..0 = {}
    OBVIOUS
  <2> QED
    BY <1>2, <2>1, <2>2
<1>4. <<>> \in Listings(N)
  BY <1>2, <1>3 DEF Listings
<1> QED
  BY <1>1, <1>4 DEF Views

LEMMA DecisionInit == Init => DecisionInv
<1> SUFFICES ASSUME Init PROVE DecisionInv
  OBVIOUS
<1>1. TypeInv
  <2>1. nodeCap \in Nat /\ cluster \subseteq Nodes /\ known \subseteq Nodes
    BY JobAssumption DEF Init
  <2>2. pods \in [Pods -> PodRecords] /\ listed \in [Pods -> PodRecords]
    BY UnboundType DEF Init
  <2>3. views \in Views(known)
    BY <2>1, NothingListed DEF Init
  <2> QED
    BY <2>1, <2>2, <2>3 DEF TypeInv
<1> QED
  BY <1>1 DEF Init, DecisionInv, ListedInv, ChosenInv, RejectedInv, NoOutcome

(* What the list and the order of the steps determine does not change      *)
(* while the list does not.                                                *)
LEMMA RoomFrame ==
    ASSUME UNCHANGED listed
    PROVE  \A n : Fits(n)' <=> Fits(n)
BY DEF Fits, Free, Counted

LEMMA TypeFrame ==
    ASSUME TypeInv, UNCHANGED <<nodeCap, known, views>>,
           cluster' \subseteq Nodes,
           pods' \in [Pods -> PodRecords], listed' \in [Pods -> PodRecords]
    PROVE  TypeInv'
<1>1. views' \in Views(known)'
  BY DEF TypeInv, Views, Listings
<1> QED
  BY <1>1 DEF TypeInv

(* Steps of the cluster that bind no pod and leave the worker alone.       *)
LEMMA ClusterSteps ==
    ASSUME DecisionInv, UNCHANGED <<settings, work>>,
           cluster' \subseteq Nodes, pods' \in [Pods -> PodRecords],
           fresh \subseteq fresh',
           \A p \in Pods \ fresh' :
               pods'[p].node # None /\ pods'[p].lasts =>
                   pods'[p].node = pods[p].node /\ pods[p].lasts
    PROVE  DecisionInv'
<1>1. UNCHANGED <<policy, nodeCap, remote, at, listed, known, views, outcome>>
  BY DEF settings, work
<1>2. TypeInv'
  BY <1>1, TypeFrame DEF DecisionInv, TypeInv
<1>3. ListedInv'
  <2> SUFFICES ASSUME at \in {"nodes", "schedule", "bind"}, NEW p \in Pods \ fresh',
                      pods'[p].node # None, pods'[p].lasts
               PROVE  listed[p].node = pods'[p].node /\ listed[p].lasts
    BY <1>1 DEF ListedInv
  <2>1. p \in Pods \ fresh /\ pods'[p].node = pods[p].node /\ pods[p].lasts
    OBVIOUS
  <2> QED
    BY <2>1 DEF DecisionInv, ListedInv
<1>4. ChosenInv' /\ RejectedInv'
  BY <1>1, RoomFrame DEF DecisionInv, ChosenInv, RejectedInv
<1> QED
  BY <1>2, <1>3, <1>4 DEF DecisionInv

LEMMA DecisionStep == DecisionInv /\ [Next]_vars => DecisionInv'
<1> SUFFICES ASSUME DecisionInv, [Next]_vars PROVE DecisionInv'
  OBVIOUS
<1>1. /\ nodeCap \in Nat /\ cluster \subseteq Nodes /\ pods \in [Pods -> PodRecords]
      /\ listed \in [Pods -> PodRecords]
      /\ \A p \in Pods : pods[p] \in PodRecords
  BY DEF DecisionInv, TypeInv
<1>2. ASSUME Tick PROVE DecisionInv'
  <2>1. /\ UNCHANGED <<settings, work>> /\ UNCHANGED <<cluster, fresh>>
        /\ pods' = [p \in Pods |->
                      IF Running(p) THEN [pods[p] EXCEPT !.age = Min({@ + 1, Length[p]})]
                      ELSE pods[p]]
    BY <1>2 DEF Tick
  <2>2. ASSUME NEW p \in Pods PROVE Min({pods[p].age + 1, Length[p]}) \in Nat
    <3>1. PICK T : T = {pods[p].age + 1, Length[p]}
      OBVIOUS
    <3>2. T \in SUBSET Nat /\ T # {}
      BY <1>1, <3>1, JobAssumption DEF PodRecords
    <3> QED
      BY <3>1, <3>2, MinIsMember
  <2>3. pods' \in [Pods -> PodRecords]
    BY <1>1, <2>1, <2>2 DEF PodRecords
  <2>4. \A p \in Pods : pods'[p].node = pods[p].node /\ pods'[p].lasts = pods[p].lasts
    BY <1>1, <2>1 DEF PodRecords
  <2> QED
    BY <1>1, <2>1, <2>3, <2>4, ClusterSteps
<1>3. ASSUME NEW n \in Nodes, Join(n) \/ Leave(n) PROVE DecisionInv'
  <2>1. UNCHANGED <<settings, work>> /\ UNCHANGED <<pods, fresh>>
    BY <1>3 DEF Join, Leave
  <2>2. cluster' \subseteq Nodes
    BY <1>1, <1>3 DEF Join, Leave
  <2> QED
    BY <1>1, <2>1, <2>2, ClusterSteps
<1>4. ASSUME NEW p \in Pods, NEW n \in Nodes, BindOther(p, n) PROVE DecisionInv'
  <2>1. UNCHANGED <<settings, work>> /\ UNCHANGED cluster
    BY <1>4 DEF BindOther
  <2>2. PICK age \in 0..Length[p] :
           pods' = [pods EXCEPT ![p] =
                       [node |-> n, started |-> FALSE, age |-> age, lasts |-> TRUE]]
    BY <1>4 DEF BindOther
  <2>3. age \in Nat
    BY <2>2, JobAssumption
  <2>4. pods' \in [Pods -> PodRecords]
    BY <1>1, <2>2, <2>3 DEF PodRecords
  <2>5. fresh' = fresh \cup {p}
    BY <1>4 DEF BindOther
  <2>6. \A q \in Pods \ fresh' : pods'[q] = pods[q]
    BY <1>1, <2>2, <2>5
  <2> QED
    BY <1>1, <2>1, <2>4, <2>5, <2>6, ClusterSteps
<1>5. ASSUME NEW p \in Pods, ReportStart(p) PROVE DecisionInv'
  <2>1. UNCHANGED <<settings, work>> /\ UNCHANGED <<cluster, fresh>>
    BY <1>5 DEF ReportStart
  <2>2. pods' = [pods EXCEPT ![p] = [@ EXCEPT !.started = TRUE, !.age = 0]]
    BY <1>5 DEF ReportStart
  <2>3. pods' \in [Pods -> PodRecords]
    BY <1>1, <2>2 DEF PodRecords
  <2>4. \A q \in Pods : pods'[q].node = pods[q].node /\ pods'[q].lasts = pods[q].lasts
    BY <1>1, <2>2 DEF PodRecords
  <2> QED
    BY <1>1, <2>1, <2>3, <2>4, ClusterSteps
<1>6. ASSUME NEW p \in Pods, End(p) PROVE DecisionInv'
  <2>1. UNCHANGED <<settings, work>> /\ UNCHANGED <<cluster, fresh>>
    BY <1>6 DEF End
  <2>2. pods' = [pods EXCEPT ![p] = [@ EXCEPT !.lasts = FALSE, !.age = 0]] /\ pods[p].lasts
    BY <1>6 DEF End, Running
  <2>3. pods' \in [Pods -> PodRecords]
    BY <1>1, <2>2 DEF PodRecords
  <2>4. \A q \in Pods : pods'[q].node = pods[q].node /\ (pods'[q].lasts => pods[q].lasts)
    BY <1>1, <2>2 DEF PodRecords
  <2> QED
    BY <1>1, <2>1, <2>3, <2>4, ClusterSteps
<1>7. ASSUME ListPods PROVE DecisionInv'
  <2>1. /\ at = "idle" /\ listed' = pods /\ at' = "nodes"
        /\ UNCHANGED <<nodeCap, cluster, pods, known, views, outcome>>
    BY <1>7 DEF ListPods, world
  <2>2. TypeInv'
    BY <1>1, <2>1, TypeFrame DEF DecisionInv
  <2>3. outcome.what # "rejected"
    BY <2>1 DEF DecisionInv, RejectedInv
  <2> QED
    BY <2>1, <2>2, <2>3 DEF DecisionInv, ListedInv, ChosenInv, RejectedInv
<1>8. ASSUME ListNodes PROVE DecisionInv'
  <2>1. /\ at = "nodes" /\ at' = "schedule" /\ known' = cluster /\ views' \in Views(cluster)
        /\ UNCHANGED <<nodeCap, cluster, pods, listed, outcome, fresh>>
    BY <1>8 DEF ListNodes, world
  <2>2. TypeInv'
    <3>1. views' \in Views(known)'
      BY <2>1 DEF Views, Listings
    <3> QED
      BY <2>1, <3>1 DEF DecisionInv, TypeInv
  <2>3. outcome.what # "rejected"
    BY <2>1 DEF DecisionInv, RejectedInv
  <2> QED
    BY <2>1, <2>2, <2>3 DEF DecisionInv, ListedInv, ChosenInv, RejectedInv
<1>9. ASSUME Choose \/ GiveUp PROVE DecisionInv'
  <2>1. /\ at = "schedule"
        /\ UNCHANGED <<policy, remote, nodeCap, cluster, pods, listed, known, views, fresh>>
    BY <1>9 DEF Choose, GiveUp, world
  <2>2. TypeInv'
    BY <1>1, <2>1, TypeFrame DEF DecisionInv
  <2>3. ASSUME Choose PROVE DecisionInv'
    <3>1. PICK n \in Answers :
             /\ outcome'.node = n /\ outcome'.what # "rejected"
             /\ at' \in {"retry", "bind"}
      BY <2>3 DEF Choose
    <3>2. n \in Nodes /\ Fits(n)
      BY AnswersFit DEF DecisionInv
    <3>3. Fits(n)'
      BY <2>1, <3>2, RoomFrame
    <3>4. ChosenInv'
      <4>1. Fits(outcome.node)'
        BY <3>1, <3>3 DEF Fits
      <4> QED
        BY <3>1, <3>2, <4>1 DEF ChosenInv
    <3>5. ListedInv'
      BY <2>1, <3>1 DEF DecisionInv, ListedInv
    <3> QED
      BY <2>2, <3>1, <3>4, <3>5 DEF DecisionInv, RejectedInv
  <2>4. ASSUME GiveUp PROVE DecisionInv'
    <3>1. /\ Answers = {} /\ at' = "retry"
          /\ outcome' = [NoOutcome EXCEPT !.what = "rejected"]
      BY <2>4 DEF GiveUp
    <3>2. (remote /\ policy = "k8s") \/ Feasible = {}
      BY <3>1 DEF Answers, Evaluated
    <3>3. (remote /\ policy = "k8s") \/ \A n \in ToSet(views) : ~Fits(n)
      BY <3>2 DEF Feasible, Fits
    <3>4. RejectedInv'
      BY <2>1, <3>1, <3>3, RoomFrame DEF RejectedInv
    <3> QED
      BY <2>2, <3>1, <3>4 DEF DecisionInv, ListedInv, ChosenInv
  <2> QED
    BY <1>9, <2>3, <2>4
<1>10. ASSUME Bind \/ Again PROVE DecisionInv'
  <2>1. /\ at' \in {"bound", "idle"} /\ listed' = Unbound /\ known' = {} /\ views' = <<>>
        /\ outcome'.what = "none" /\ UNCHANGED <<nodeCap, cluster>>
    BY <1>10 DEF Bind, Again, Return, NoOutcome, world, settings
  <2>2. pods' \in [Pods -> PodRecords]
    <3>1. ASSUME Bind PROVE pods' \in [Pods -> PodRecords]
      <4>1. at = "bind" /\ pods' = [pods EXCEPT ![Job].node = outcome.node]
        BY <3>1 DEF Bind
      <4>2. outcome.node \in Nodes
        BY <4>1 DEF DecisionInv, ChosenInv
      <4> QED
        BY <1>1, <4>1, <4>2, JobAssumption DEF PodRecords
    <3>2. ASSUME Again PROVE pods' = pods
      BY <3>2 DEF Again, world
    <3> QED
      BY <1>1, <1>10, <3>1, <3>2
  <2>3. TypeInv'
    <3>1. views' \in Views(known)'
      <4>1. <<>> \in Views({})
        BY <1>1, NothingListed
      <4>2. Views({})' = Views({})
        BY <2>1 DEF Views, Listings
      <4> QED
        BY <2>1, <4>1, <4>2
    <3> QED
      BY <1>1, <2>1, <2>2, <3>1, UnboundType DEF TypeInv
  <2> QED
    BY <2>1, <2>3 DEF DecisionInv, ListedInv, ChosenInv, RejectedInv
<1>11. ASSUME UNCHANGED vars PROVE DecisionInv'
  <2>1. UNCHANGED <<settings, work>> /\ UNCHANGED <<cluster, pods, fresh>>
    BY <1>11 DEF vars, world, settings
  <2> QED
    BY <1>1, <2>1, ClusterSteps
<1> QED
  BY <1>2, <1>3, <1>4, <1>5, <1>6, <1>7, <1>8, <1>9, <1>10, <1>11 DEF Next, Worker, Bound

LEMMA DecisionInvariant == Spec => []DecisionInv
BY DecisionInit, DecisionStep, PTL DEF Spec

-----------------------------------------------------------------------------
(* The properties                                                          *)

(* What is on a node and was not bound since the pods were listed counted, *)
(* or asks nothing: a node with room on the list has room next to it.      *)
LEMMA ListedLoad ==
    ASSUME ListedInv, at = "bind", NEW n \in Nodes, NEW r \in Res
    PROVE  Load[r][Occupants(n) \ fresh] <= Load[r][Counted(n)]
<1>1. PICK S \in SUBSET Pods : S = Occupants(n) \ fresh
  BY DEF Occupants
<1>2. PICK C \in SUBSET Pods : C = Counted(n)
  BY DEF Counted
<1>3. None \notin Nodes
  BY NoneAssumption
<1>4. ASSUME NEW p \in S \ C PROVE Demand[p][r] = 0
  <2>1. p \in Pods \ fresh /\ pods[p].node = n /\ pods[p].lasts
    BY <1>1 DEF Occupants
  <2>2. listed[p].node = n /\ listed[p].lasts
    BY <1>3, <2>1 DEF ListedInv
  <2>3. ~(Demand[p][r] > 0)
    BY <1>2, <2>1, <2>2 DEF Counted
  <2>4. Demand[p][r] \in Nat
    BY <2>1, JobAssumption
  <2> QED
    BY <2>3, <2>4
<1>5. S \ C \in SUBSET Pods /\ S \cap C \in SUBSET C /\ S \cap C \in SUBSET Pods
      /\ (S \ C) \cup (S \cap C) = S /\ (S \ C) \cap (S \cap C) = {}
  OBVIOUS
<1>6. Load[r][S \ C] = 0
  BY <1>4, <1>5, NothingAsked
<1>7. Load[r][S] = Load[r][S \ C] + Load[r][S \cap C]
  BY <1>5, LoadOfUnion
<1>8. Load[r][S \cap C] <= Load[r][C] /\ Load[r][S \cap C] \in Nat
  BY <1>5, LoadMonotone, LoadIsNat
<1>9. Load[r][S] <= Load[r][C]
  BY <1>6, <1>7, <1>8
<1> QED
  BY <1>1, <1>2, <1>9

(* What is free, where anything is, is what is allocatable less the load.  *)
LEMMA FreeIsLeft ==
    ASSUME NEW n \in Nodes, NEW r \in Res, Free(n, r) > 0
    PROVE  Free(n, r) = Alloc[n][r] - Load[r][Counted(n)]
<1>1. PICK x \in Int : x = Alloc[n][r] - Load[r][Counted(n)]
  <2>1. Counted(n) \in SUBSET Pods
    BY DEF Counted
  <2> QED
    BY <2>1, LoadIsNat, NodesAssumption
<1>2. \E y \in {0, x} : \A z \in {0, x} : y >= z
  OBVIOUS
<1>3. Free(n, r) \in {0, x}
  BY <1>1, <1>2 DEF Free, Max
<1> QED
  BY <1>1, <1>3

(* ChoiceFitsKnown: but for pods bound since the pods were listed, the     *)
(* node about to be bound to can take the pod.                             *)
THEOREM ChoicesFit == Spec => []ChoiceFitsKnown
<1>1. DecisionInv => ChoiceFitsKnown
  <2> SUFFICES ASSUME DecisionInv, at = "bind", NEW r \in Res, Demand[Job][r] > 0
               PROVE  Load[r][Occupants(outcome.node) \ fresh] + Demand[Job][r]
                         <= Alloc[outcome.node][r]
    BY DEF ChoiceFitsKnown
  <2>1. PICK n \in Nodes : n = outcome.node /\ Free(n, r) >= Demand[Job][r]
    BY DEF DecisionInv, ChosenInv, Fits
  <2>2. Demand[Job][r] \in Nat /\ Alloc[n][r] \in Nat
    BY JobAssumption, NodesAssumption
  <2>3. Counted(n) \in SUBSET Pods /\ Occupants(n) \ fresh \in SUBSET Pods
    BY DEF Counted, Occupants
  <2>4. Load[r][Counted(n)] \in Nat /\ Load[r][Occupants(n) \ fresh] \in Nat
    BY <2>3, LoadIsNat
  <2>5. Free(n, r) > 0
    <3>1. Free(n, r) \in Int
      <4>1. PICK x \in Int : x = Alloc[n][r] - Load[r][Counted(n)]
        BY <2>2, <2>4
      <4>2. \E y \in {0, x} : \A z \in {0, x} : y >= z
        OBVIOUS
      <4> QED
        BY <4>1, <4>2 DEF Free, Max
    <3> QED
      BY <2>1, <2>2, <3>1
  <2>6. Free(n, r) = Alloc[n][r] - Load[r][Counted(n)]
    BY <2>5, FreeIsLeft
  <2>7. Load[r][Occupants(n) \ fresh] <= Load[r][Counted(n)]
    BY ListedLoad DEF DecisionInv
  <2> QED
    BY <2>1, <2>2, <2>4, <2>6, <2>7
<1> QED
  BY DecisionInvariant, <1>1, PTL

(* RejectedOnlyIfFull: a pod is not rejected while a node that the cap     *)
(* does not hide has room, unless the scheduler refuses remote data.       *)
THEOREM RejectionsAreDue == Spec => []RejectedOnlyIfFull
<1>1. DecisionInv => RejectedOnlyIfFull
  <2> SUFFICES ASSUME DecisionInv, outcome.what = "rejected", ~(remote /\ policy = "k8s"),
                      NEW n \in known \cap SiteKnown, Fits(n)
               PROVE  Hidden(n, known)
    BY DEF RejectedOnlyIfFull, Fits
  <2>1. n \notin ToSet(views)
    BY DEF DecisionInv, RejectedInv
  <2> QED
    BY <2>1, ViewsComplete DEF DecisionInv
<1> QED
  BY DecisionInvariant, <1>1, PTL
=============================================================================
