-------------------------- MODULE DispatcherProofs --------------------------
(***************************************************************************)
(* What holds of the dispatcher for any clusters, strategies, workloads    *)
(* and answers:                                                            *)
(*   CursorInv    types, and where the two loops may be                    *)
(*   OfferInv     the best so far is the best of the offers so far         *)
(*   SentInv      what was submitted lies behind the loops                 *)
(*   TurnInv      the placements of RoundRobin take turns                  *)
(***************************************************************************)
EXTENDS Dispatcher, FiniteSetTheorems, TLAPS

Names == ToSet(Clusters)
AllWorkloads == UNION {ToSet(r.workloads) : r \in Runs}
Submission == Nat \X AllWorkloads
Decision == [strategy : Nat, workload : AllWorkloads, cluster : Names]

-----------------------------------------------------------------------------
(* Types                                                                   *)

CursorInv ==
    /\ run \in Runs
    /\ strategy \in 1..Len(Strategies)
    /\ workload \in 1..Len(Workloads)
    /\ pc \in {"scan", "metric", "submit", "done"}
    /\ asked \in 0..N
    /\ pc = "metric" => asked > 0
    /\ offers \subseteq Names
    /\ best \in Names \cup {None}
    /\ pc = "submit" => best # None
    /\ decisions \in Seq(Decision)
    /\ received \in [Names -> Seq(Submission)]

LEMMA ClusterFacts ==
    /\ N \in Nat
    /\ \A i \in 1..N : Clusters[i] \in Names
    /\ \A i, k \in 1..N : Clusters[i] = Clusters[k] => i = k
    /\ \A c \in Names : \E i \in 1..N : c = Clusters[i]
    /\ None \notin Names
<1>1. Clusters \in Seq(Names) /\ None \notin Names
  BY ClusterAssumption DEF Names
<1>2. DOMAIN Clusters = 1..N /\ N \in Nat
  BY <1>1 DEF N
<1> QED
  BY <1>1, <1>2, ClusterAssumption DEF IsInjective, ToSet, Names

LEMMA RunFacts ==
    ASSUME run \in Runs
    PROVE  /\ Len(Strategies) \in Nat \ {0}
           /\ Len(Workloads) \in Nat \ {0}
           /\ \A i \in 1..Len(Workloads) : /\ Workloads[i] \in AllWorkloads
                                           /\ CpuOf[Workloads[i]] \in Nat
           /\ \A i, k \in 1..Len(Workloads) : Workloads[i] = Workloads[k] => i = k
<1> DEFINE S == ToSet(run.strategies)
           T == ToSet(run.workloads)
<1>1. /\ run.strategies \in Seq(S) /\ run.strategies # <<>>
      /\ run.workloads \in Seq(T) /\ run.workloads # <<>>
      /\ IsInjective(run.workloads)
      /\ \A w \in T : CpuOf[w] \in Nat
      /\ T \subseteq AllWorkloads
  BY ClusterAssumption DEF AllWorkloads
<1> HIDE DEF S, T
<1>2. DOMAIN run.workloads = 1..Len(run.workloads)
  BY <1>1
<1> QED
  BY <1>1, <1>2 DEF Strategies, Workloads, IsInjective

(* The cluster that is asked.                                              *)
LEMMA AskingFacts ==
    ASSUME CursorInv, asked < N
    PROVE  /\ Asking \in Names \/ Running = "RoundRobin"
           /\ Running # "RoundRobin" => Asking = Clusters[asked + 1]
<1>1. asked \in 0..N /\ asked + 1 \in 1..N /\ N \in Nat
  BY ClusterFacts DEF CursorInv
<1>2. asked % N = asked
  BY <1>1
<1> QED
  BY <1>1, <1>2, ClusterFacts DEF Asking

CounterInv == counter \in Nat

LEMMA AskingName ==
    ASSUME CursorInv, CounterInv, asked < N
    PROVE  Asking \in Names
<1>1. asked \in Nat /\ counter \in Nat /\ N \in Nat \ {0}
  BY ClusterFacts DEF CursorInv, CounterInv
<1>2. ((counter + asked) % N) + 1 \in 1..N /\ (asked % N) + 1 \in 1..N
  <2>1. \A x \in Nat : (x % N) \in 0..(N - 1)
    BY <1>1
  <2>2. counter + asked \in Nat
    BY <1>1
  <2> QED
    BY <1>1, <2>1, <2>2
<1> QED
  BY <1>2, ClusterFacts DEF Asking

LEMMA CursorInit == Init => CursorInv /\ CounterInv
<1> SUFFICES ASSUME Init PROVE CursorInv /\ CounterInv
  OBVIOUS
<1>1. run \in Runs /\ strategy = 1 /\ workload = 1
  BY DEF Init
<1>2. 1 \in 1..Len(Strategies) /\ 1 \in 1..Len(Workloads)
  BY <1>1, RunFacts
<1>3. received \in [Names -> Seq(Submission)] /\ decisions \in Seq(Decision)
  BY DEF Init, Names
<1> QED
  BY <1>1, <1>2, <1>3, ClusterFacts DEF Init, CursorInv, CounterInv

(* Advance moves the loops on, or ends them.                               *)
LEMMA AdvanceFacts ==
    ASSUME CursorInv, Advance
    PROVE  /\ strategy' \in 1..Len(Strategies) /\ workload' \in 1..Len(Workloads)
           /\ pc' \in {"scan", "done"}
           /\ asked' = 0 /\ offers' = {} /\ best' = None /\ run' = run
           /\ pc' # "done" =>
                 \/ strategy' = strategy /\ workload' = workload + 1
                 \/ strategy' = strategy + 1
<1>1. /\ Len(Strategies) \in Nat \ {0} /\ Len(Workloads) \in Nat \ {0}
      /\ strategy \in 1..Len(Strategies) /\ workload \in 1..Len(Workloads)
  BY RunFacts DEF CursorInv
<1>2. CASE workload < Len(Workloads)
  BY <1>1, <1>2 DEF Advance
<1>3. CASE ~(workload < Len(Workloads))
  BY <1>1, <1>3 DEF Advance
<1> QED
  BY <1>2, <1>3

LEMMA SubmitTypes ==
    ASSUME CursorInv, NEW arrives \in BOOLEAN, Submit(arrives)
    PROVE  CursorInv'
<1>1. run \in Runs /\ best \in Names /\ W \in AllWorkloads /\ strategy \in Nat
  <2>1. run \in Runs /\ workload \in 1..Len(Workloads) /\ strategy \in 1..Len(Strategies)
    BY DEF CursorInv
  <2> QED
    BY <2>1, RunFacts DEF CursorInv, Submit, W
<1>2. received' \in [Names -> Seq(Submission)]
  <2>1. <<strategy, W>> \in Submission
    BY <1>1 DEF Submission
  <2>2. received \in [Names -> Seq(Submission)]
    BY DEF CursorInv
  <2>3. received[best] \in Seq(Submission)
    BY <1>1, <2>2
  <2>4. Append(received[best], <<strategy, W>>) \in Seq(Submission)
    BY <2>1, <2>3
  <2> QED
    BY <1>1, <2>2, <2>4 DEF Submit
<1>3. decisions' \in Seq(Decision)
  <2>1. [strategy |-> strategy, workload |-> W, cluster |-> best] \in Decision
    BY <1>1 DEF Decision
  <2>2. decisions \in Seq(Decision)
    BY DEF CursorInv
  <2> QED
    BY <2>1, <2>2 DEF Submit
<1>4. Advance
  BY DEF Submit
<1>5. Strategies' = Strategies /\ Workloads' = Workloads
  BY <1>4, AdvanceFacts DEF Strategies, Workloads
<1> QED
  BY <1>1, <1>2, <1>3, <1>4, <1>5, AdvanceFacts, ClusterFacts DEF CursorInv

LEMMA CursorStep == CursorInv /\ CounterInv /\ [Next]_vars => (CursorInv /\ CounterInv)'
<1> SUFFICES ASSUME CursorInv, CounterInv, [Next]_vars PROVE (CursorInv /\ CounterInv)'
  OBVIOUS
<1> USE DEF Strategies, Workloads
<1>1. ASSUME Ask PROVE (CursorInv /\ CounterInv)'
  <2>1. Asking \in Names
    BY <1>1, AskingName DEF Ask
  <2>2. /\ asked < N /\ asked' = asked + 1
        /\ UNCHANGED <<run, strategy, workload, counter, decisions, received>>
    BY <1>1 DEF Ask
  <2>3. asked' \in 0..N /\ asked' > 0
    BY <2>2, ClusterFacts DEF CursorInv
  <2>4. /\ offers' \in {offers, offers \cup {Asking}}
        /\ best' \in {best, Asking}
        /\ pc' \in {"scan", "metric", "submit"}
        /\ pc' = "submit" => best' = Asking
    BY <1>1 DEF Ask, TakesFirst
  <2>5. offers' \subseteq Names /\ best' \in Names \cup {None}
    BY <2>1, <2>4 DEF CursorInv
  <2>6. pc' = "submit" => best' # None
    BY <2>1, <2>4, ClusterFacts
  <2> QED
    BY <2>2, <2>3, <2>4, <2>5, <2>6 DEF CursorInv, CounterInv
<1>2. ASSUME AskUtilisation PROVE (CursorInv /\ CounterInv)'
  <2>1. Asked \in Names
    <3>1. asked \in 1..N
      BY <1>2, ClusterFacts DEF AskUtilisation, CursorInv
    <3> QED
      BY <3>1, ClusterFacts DEF Asked
  <2>2. best' \in {best, Asked}
    BY <1>2 DEF AskUtilisation
  <2> QED
    BY <1>2, <2>1, <2>2 DEF AskUtilisation, CursorInv, CounterInv
<1>3. ASSUME EndScan PROVE (CursorInv /\ CounterInv)'
  BY <1>3 DEF EndScan, CursorInv, CounterInv
<1>4. ASSUME FailToPlace PROVE (CursorInv /\ CounterInv)'
  BY <1>4, AdvanceFacts, ClusterFacts DEF FailToPlace, CursorInv, CounterInv
<1>5. ASSUME NEW arrives \in BOOLEAN, Submit(arrives) PROVE (CursorInv /\ CounterInv)'
  <2>1. N \in Nat \ {0}
    <3>1. best \in Names
      BY <1>5 DEF CursorInv, Submit
    <3> QED
      BY <3>1, ClusterFacts
  <2>2. CounterInv'
    <3>1. \A x \in Nat : (x % N) \in Nat
      BY <2>1
    <3> QED
      BY <1>5, <3>1 DEF Submit, CounterInv
  <2> QED
    BY <1>5, <2>2, SubmitTypes
<1>6. ASSUME Done \/ UNCHANGED vars PROVE (CursorInv /\ CounterInv)'
  BY <1>6 DEF Done, vars, CursorInv, CounterInv
<1> QED
  BY <1>1, <1>2, <1>3, <1>4, <1>5, <1>6 DEF Next, Step

-----------------------------------------------------------------------------
(* The best of the offers                                                  *)

ByCost == Running \in {"MinMin", "EnergyAware", "MaxMin"}

Cost(c) == EstimateEnergyCost(c)

(* Cluster b is to be taken before cluster c.                              *)
Beats(b, c) ==
    LET gain == IF Running = "MaxMin" THEN Cost(b) - Cost(c) ELSE Cost(c) - Cost(b)
    IN  gain > 0 \/ (gain = 0 /\ Position(b) < Position(c))

OfferInv ==
    /\ best # None => best \in offers
    /\ pc = "metric" => Asked \in offers /\ Running = "CIaware"
    /\ ByCost =>
          /\ \A c \in offers : Position(c) <= asked
          /\ best = None => offers = {}
          /\ best # None => /\ bestCost = Cost(best)
                            /\ \A c \in offers \ {best} : Beats(best, c)

LEMMA PositionFacts ==
    /\ \A i \in 1..N : Position(Clusters[i]) = i
    /\ \A c \in Names : Position(c) \in 1..N
BY ClusterFacts DEF Position

LEMMA CostType ==
    ASSUME CursorInv, NEW c \in Names
    PROVE  Cost(c) \in Int
<1>1. run \in Runs /\ workload \in 1..Len(Workloads)
  BY DEF CursorInv
<1>2. CpuOf[W] \in Nat
  BY <1>1, RunFacts DEF W
<1>3. c \notin Remotes => EnergyBias[c] \in Nat
  BY ClusterAssumption DEF Names
<1>4. \A x, y \in Nat : x * y \in Int
  OBVIOUS
<1> QED
  BY <1>2, <1>3, <1>4 DEF Cost, EstimateEnergyCost

LEMMA OfferInit == Init => OfferInv
BY DEF Init, OfferInv

(* A cluster that accepts either becomes the best or is beaten by it.      *)
LEMMA AskKeepsOffers ==
    ASSUME CursorInv, CounterInv, OfferInv, Ask
    PROVE  OfferInv'
<1> DEFINE c == Asking
<1>0. c \in Names /\ asked < N /\ asked \in Nat /\ None \notin Names
  BY AskingName, ClusterFacts DEF Ask, CursorInv
<1>1. PICK usage \in IF c \in Remotes THEN Usages \cup {Error} ELSE {Error} :
        LET accepted == Accepts(c, usage)
            keep == accepted /\ (TakesFirst \/ Better(EstimateEnergyCost(c)))
        IN  /\ offers' = IF accepted THEN offers \cup {c} ELSE offers
            /\ IF Running = "CIaware"
               THEN /\ pc' = IF accepted /\ c \in Remotes THEN "metric" ELSE "scan"
                    /\ UNCHANGED <<best, bestCost>>
               ELSE /\ best' = IF keep THEN c ELSE best
                    /\ bestCost' = IF keep THEN EstimateEnergyCost(c) ELSE bestCost
                    /\ pc' = IF TakesFirst /\ accepted THEN "submit" ELSE "scan"
  BY DEF Ask
<1>2. /\ pc = "scan" /\ asked' = asked + 1
      /\ UNCHANGED <<run, strategy, workload>>
  BY DEF Ask
<1>3. /\ \A d : Cost(d)' = Cost(d)
      /\ \A d : Position(d)' = Position(d)
      /\ Running' = Running
  BY <1>2 DEF Cost, EstimateEnergyCost, Position, Running, Strategies, W, Workloads
<1>4. ByCost' <=> ByCost
  BY <1>3 DEF ByCost
<1>5. ByCost => c = Clusters[asked + 1] /\ Position(c) = asked + 1
  <2>1. asked + 1 \in 1..N
    BY <1>0, ClusterFacts
  <2> QED
    BY <1>0, <2>1, AskingFacts, PositionFacts DEF ByCost
<1>6. pc' = "metric" => Asked' \in offers' /\ Running' = "CIaware"
  <2> SUFFICES ASSUME pc' = "metric" PROVE Asked' \in offers' /\ Running' = "CIaware"
    OBVIOUS
  <2>1. Running = "CIaware" /\ Accepts(c, usage)
    BY <1>1
  <2>2. c = Clusters[asked + 1]
    BY <1>0, <2>1, AskingFacts
  <2> QED
    BY <1>1, <1>2, <1>3, <2>1, <2>2 DEF Asked
<1>7. best' # None => best' \in offers'
  <2>1. CASE best' = best
    BY <1>1, <2>1 DEF OfferInv
  <2>2. CASE best' # best
    BY <1>1, <2>2
  <2> QED
    BY <2>1, <2>2
<1>8. ASSUME ByCost
      PROVE  /\ \A d \in offers' : Position(d) <= asked'
             /\ best' = None => offers' = {}
             /\ best' # None => /\ bestCost' = Cost(best')
                                /\ \A d \in offers' \ {best'} : Beats(best', d)
  <2>1. ~TakesFirst /\ Running # "CIaware"
    BY <1>8 DEF ByCost, TakesFirst
  <2>2. /\ \A d \in offers : Position(d) <= asked /\ d \in Names /\ Position(d) \in Nat
        /\ best = None => offers = {}
        /\ best # None => /\ bestCost = Cost(best) /\ best \in offers
                          /\ \A d \in offers \ {best} : Beats(best, d)
    BY <1>8, PositionFacts DEF OfferInv, CursorInv
  <2>3. \A d \in offers : Cost(d) \in Int
    BY <2>2, CostType
  <2>4. Cost(c) \in Int
    BY <1>0, CostType
  <2>5. Position(c) = asked + 1
    BY <1>5, <1>8
  <2>6. CASE ~Accepts(c, usage)
    <3>1. offers' = offers /\ best' = best /\ bestCost' = bestCost
      BY <1>1, <2>1, <2>6
    <3> QED
      BY <1>0, <1>2, <2>2, <3>1
  <2>7. CASE Accepts(c, usage) /\ Better(Cost(c))
    <3>1. offers' = offers \cup {c} /\ best' = c /\ bestCost' = Cost(c)
      BY <1>1, <2>1, <2>7 DEF Cost
    <3>2. ASSUME NEW d \in offers PROVE Beats(c, d)
      <4>1. best # None
        BY <2>2, <3>2
      <4>2. IF Running = "MaxMin" THEN Cost(c) > Cost(best) ELSE Cost(c) < Cost(best)
        BY <2>2, <2>7, <4>1 DEF Better
      <4>3. d = best \/ Beats(best, d)
        BY <2>2, <4>1
      <4>4. Cost(best) \in Int /\ Cost(d) \in Int
        BY <2>2, <2>3, <4>1
      <4> QED
        BY <2>4, <4>2, <4>3, <4>4 DEF Beats
    <3> QED
      BY <1>0, <1>2, <2>2, <2>5, <3>1, <3>2
  <2>8. CASE Accepts(c, usage) /\ ~Better(Cost(c))
    <3>1. offers' = offers \cup {c} /\ best' = best /\ bestCost' = bestCost
      BY <1>1, <2>1, <2>8 DEF Cost
    <3>2. best # None /\ best \in offers /\ bestCost = Cost(best)
      BY <2>2, <2>8 DEF Better
    <3>3. IF Running = "MaxMin" THEN ~(Cost(c) > Cost(best)) ELSE ~(Cost(c) < Cost(best))
      BY <2>8, <3>2 DEF Better
    <3>4. Position(best) < Position(c)
      BY <1>0, <2>2, <2>5, <3>2
    <3>5. Beats(best, c)
      BY <2>3, <2>4, <3>2, <3>3, <3>4 DEF Beats
    <3> QED
      BY <1>0, <1>2, <2>2, <2>5, <3>1, <3>2, <3>5
  <2> QED
    BY <2>6, <2>7, <2>8
<1> HIDE DEF c
<1> QED
  BY <1>2, <1>3, <1>4, <1>6, <1>7, <1>8 DEF OfferInv, Beats

LEMMA OfferStep == CursorInv /\ CounterInv /\ OfferInv /\ [Next]_vars => OfferInv'
<1> SUFFICES ASSUME CursorInv, CounterInv, OfferInv, [Next]_vars PROVE OfferInv'
  OBVIOUS
<1>1. ASSUME AskUtilisation PROVE OfferInv'
  <2>1. /\ pc = "metric" /\ pc' = "scan" /\ best' \in {best, Asked}
        /\ UNCHANGED <<run, strategy, workload, asked, offers>>
    BY <1>1 DEF AskUtilisation
  <2>2. Asked \in offers /\ ~ByCost
    BY <2>1 DEF OfferInv, ByCost
  <2>3. ~ByCost'
    BY <2>1, <2>2 DEF ByCost, Running, Strategies
  <2> QED
    BY <2>1, <2>2, <2>3 DEF OfferInv
<1>2. ASSUME FailToPlace \/ \E arrives \in BOOLEAN : Submit(arrives) PROVE OfferInv'
  <2>1. Advance
    BY <1>2 DEF FailToPlace, Submit
  <2>2. best' = None /\ offers' = {} /\ pc' # "metric"
    BY <2>1, AdvanceFacts
  <2> QED
    BY <2>2 DEF OfferInv
<1>3. ASSUME EndScan \/ Done \/ UNCHANGED vars PROVE OfferInv'
  <2>1. /\ UNCHANGED <<run, strategy, workload, asked, offers, best, bestCost>>
        /\ pc' = "metric" => pc = "metric"
    BY <1>3 DEF EndScan, Done, vars
  <2>2. /\ \A d : Cost(d)' = Cost(d)
        /\ Running' = Running /\ Asked' = Asked
    BY <2>1 DEF Cost, EstimateEnergyCost, Running, Strategies, W, Workloads, Asked
  <2> QED
    BY <2>1, <2>2 DEF OfferInv, ByCost, Beats, Position
<1> QED
  BY <1>1, <1>2, <1>3, AskKeepsOffers DEF Next, Step

(* ChoiceIsBest: what is submitted to accepted the workload, and for the   *)
(* strategies that compare costs no other cluster that did is better.      *)
THEOREM SubmitsToTheBest == Spec => []ChoiceIsBest
<1>1. CursorInv /\ OfferInv => ChoiceIsBest
  BY DEF CursorInv, OfferInv, ChoiceIsBest, ByCost, Beats, Cost
<1>2. Init => CursorInv /\ CounterInv /\ OfferInv
  BY CursorInit, OfferInit
<1>3. (CursorInv /\ CounterInv /\ OfferInv) /\ [Next]_vars => (CursorInv /\ CounterInv /\ OfferInv)'
  BY CursorStep, OfferStep
<1> QED
  BY <1>1, <1>2, <1>3, PTL DEF Spec

-----------------------------------------------------------------------------
(* Submissions and decisions                                               *)

(* The submission s was made before the loops came to where they are.      *)
Behind(s) ==
    \/ s[1] < strategy
    \/ s[1] = strategy /\ \E i \in 1..(workload - 1) : s[2] = Workloads[i]

SentInv ==
    /\ pc # "done" => \A c \in Names : \A x \in DOMAIN received[c] : Behind(received[c][x])
    /\ ReceivedIsDecided

LEMMA SentInit == Init => SentInv
<1> SUFFICES ASSUME Init PROVE SentInv
  OBVIOUS
<1>1. \A c \in Names : received[c] = <<>>
  BY DEF Init, Names
<1>2. \A c \in Names : DOMAIN received[c] = {}
  BY <1>1
<1> QED
  BY <1>2 DEF SentInv, ReceivedIsDecided, Names, IsInjective, ToSet

(* The submission that is made now was not made before.                    *)
LEMMA NotBehind ==
    ASSUME CursorInv
    PROVE  ~Behind(<<strategy, W>>)
<1>1. strategy \in Nat /\ run \in Runs /\ workload \in 1..Len(Workloads)
  BY RunFacts DEF CursorInv
<1>2. \A i \in 1..(workload - 1) : Workloads[i] # W
  <2>1. Len(Workloads) \in Nat
    BY <1>1, RunFacts
  <2> QED
    BY <1>1, <2>1, RunFacts DEF W
<1> QED
  BY <1>1, <1>2 DEF Behind

(* What is behind the loops stays behind when they move on, and so is what *)
(* was just submitted.                                                     *)
LEMMA AdvancePasses ==
    ASSUME CursorInv, Advance, pc' # "done", NEW s, Behind(s) \/ s = <<strategy, W>>,
           s[1] \in Nat
    PROVE  Behind(s)'
<1>1. /\ strategy \in Nat /\ workload \in Nat \ {0} /\ run \in Runs /\ run' = run
      /\ \/ strategy' = strategy /\ workload' = workload + 1
         \/ strategy' = strategy + 1
  BY AdvanceFacts, RunFacts DEF CursorInv
<1>2. Workloads' = Workloads
  BY <1>1 DEF Workloads
<1>3. CASE strategy' = strategy + 1
  BY <1>1, <1>3 DEF Behind
<1>4. CASE strategy' = strategy /\ workload' = workload + 1
  <2>1. CASE Behind(s)
    <3>1. \A i \in 1..(workload - 1) : i \in 1..(workload' - 1)
      BY <1>1, <1>4
    <3> QED
      BY <1>2, <1>4, <2>1, <3>1 DEF Behind
  <2>2. CASE s = <<strategy, W>>
    <3>1. workload \in 1..(workload' - 1)
      BY <1>1, <1>4
    <3>2. s[1] = strategy' /\ s[2] = Workloads'[workload]
      BY <1>2, <1>4, <2>2 DEF W
    <3> QED
      BY <3>1, <3>2 DEF Behind
  <2> QED
    BY <2>1, <2>2
<1> QED
  BY <1>1, <1>3, <1>4

LEMMA SubmitKeepsSent ==
    ASSUME CursorInv, SentInv, NEW arrives \in BOOLEAN, Submit(arrives)
    PROVE  SentInv'
<1> DEFINE s == <<strategy, W>>
           d == [strategy |-> strategy, workload |-> W, cluster |-> best]
<1>1. /\ pc = "submit" /\ best \in Names /\ Advance
      /\ received' = IF arrives THEN [received EXCEPT ![best] = Append(@, s)] ELSE received
      /\ decisions' = Append(decisions, d)
  BY DEF Submit, CursorInv
<1>2. /\ received \in [Names -> Seq(Submission)] /\ decisions \in Seq(Decision)
      /\ s \in Submission /\ d \in Decision
  <2>1. run \in Runs /\ workload \in 1..Len(Workloads) /\ strategy \in 1..Len(Strategies)
    BY DEF CursorInv
  <2>2. W \in AllWorkloads /\ strategy \in Nat
    BY <2>1, RunFacts DEF W
  <2> QED
    BY <1>1, <2>2 DEF CursorInv, Submission, Decision
<1>3. /\ d.strategy = s[1] /\ d.workload = s[2] /\ d.cluster = best
  OBVIOUS
<1>4. ~Behind(s)
  BY NotBehind
<1>5. d = [strategy |-> s[1], workload |-> s[2], cluster |-> best]
  OBVIOUS
<1>6. \A t : Behind(t) \/ t = s => (t[1] \in Nat /\ pc' # "done" => Behind(t)')
  BY <1>1, AdvancePasses
<1> HIDE DEF s, d
<1>7. /\ ToSet(decisions') = ToSet(decisions) \cup {d}
  <2>1. /\ DOMAIN decisions' = DOMAIN decisions \cup {Len(decisions) + 1}
        /\ decisions'[Len(decisions) + 1] = d
        /\ \A x \in DOMAIN decisions : decisions'[x] = decisions[x]
    BY <1>1, <1>2
  <2> QED
    BY <2>1 DEF ToSet
<1>8. /\ \A c \in Names : \A x \in DOMAIN received[c] :
            /\ Behind(received[c][x]) /\ received[c][x] \in Submission
            /\ received[c][x] # s
      /\ \A c \in Names :
            /\ \A x, y \in DOMAIN received[c] : received[c][x] = received[c][y] => x = y
            /\ \A x \in DOMAIN received[c] :
                  [strategy |-> received[c][x][1], workload |-> received[c][x][2], cluster |-> c]
                      \in ToSet(decisions)
            /\ \A e \in Names \ {c} : \A x \in DOMAIN received[c], y \in DOMAIN received[e] :
                  received[c][x] # received[e][y]
  <2>1. \A c \in Names : \A x \in DOMAIN received[c] : Behind(received[c][x])
    BY <1>1 DEF SentInv
  <2>2. \A c \in Names : \A x \in DOMAIN received[c] : received[c][x] \in Submission
    BY <1>2
  <2> QED
    BY <1>4, <2>1, <2>2 DEF SentInv, ReceivedIsDecided, IsInjective, ToSet, Names
<1>9. ASSUME NEW c \in Names, NEW x \in DOMAIN received'[c]
      PROVE  \/ x \in DOMAIN received[c] /\ received'[c][x] = received[c][x]
             \/ c = best /\ x = Len(received[c]) + 1 /\ received'[c][x] = s
  <2>1. received[c] \in Seq(Submission)
    BY <1>2
  <2>2. CASE c = best /\ arrives
    <3>1. received'[c] = Append(received[c], s)
      BY <1>1, <1>2, <2>2
    <3> QED
      BY <1>2, <1>9, <2>1, <2>2, <3>1
  <2>3. CASE ~(c = best /\ arrives)
    BY <1>1, <1>2, <1>9, <2>3
  <2> QED
    BY <2>2, <2>3
<1>10. pc' # "done" => \A c \in Names : \A x \in DOMAIN received'[c] : Behind(received[c][x])'
  <2> SUFFICES ASSUME pc' # "done", NEW c \in Names, NEW x \in DOMAIN received'[c]
               PROVE  Behind(received[c][x])'
    OBVIOUS
  <2>1. PICK t : t = received'[c][x]
    OBVIOUS
  <2>2. t \in Submission /\ (Behind(t) \/ t = s)
    BY <1>2, <1>8, <1>9, <2>1
  <2>3. t[1] \in Nat
    BY <2>2 DEF Submission
  <2>4. Behind(t)'
    BY <1>6, <2>2, <2>3
  <2> QED
    BY <2>1, <2>4 DEF Behind
<1>11. ASSUME NEW c \in Names PROVE IsInjective(received'[c])
  <2> SUFFICES ASSUME NEW x \in DOMAIN received'[c], NEW y \in DOMAIN received'[c],
                      received'[c][x] = received'[c][y]
               PROVE  x = y
    BY DEF IsInjective
  <2> QED
    BY <1>8, <1>9
<1>12. ASSUME NEW c \in Names, NEW x \in DOMAIN received'[c]
       PROVE  [strategy |-> received'[c][x][1], workload |-> received'[c][x][2], cluster |-> c]
                  \in ToSet(decisions')
  BY <1>5, <1>7, <1>8, <1>9
<1>13. ASSUME NEW c \in Names, NEW e \in Names \ {c}
       PROVE  ToSet(received'[c]) \cap ToSet(received'[e]) = {}
  <2> SUFFICES ASSUME NEW x \in DOMAIN received'[c], NEW y \in DOMAIN received'[e],
                      received'[c][x] = received'[e][y]
               PROVE  FALSE
    BY DEF ToSet
  <2> QED
    BY <1>8, <1>9
<1>14. ReceivedIsDecided'
  BY <1>11, <1>12, <1>13 DEF ReceivedIsDecided, Names
<1> QED
  BY <1>10, <1>14 DEF SentInv

LEMMA SentStep == CursorInv /\ SentInv /\ [Next]_vars => SentInv'
<1> SUFFICES ASSUME CursorInv, SentInv, [Next]_vars PROVE SentInv'
  OBVIOUS
<1>1. ASSUME FailToPlace PROVE SentInv'
  <2>1. Advance /\ UNCHANGED <<decisions, received>> /\ pc = "scan"
    BY <1>1 DEF FailToPlace
  <2>2. ASSUME pc' # "done", NEW c \in Names, NEW x \in DOMAIN received[c]
        PROVE  Behind(received[c][x])'
    <3>1. PICK t : t = received[c][x]
      OBVIOUS
    <3>2. t \in Submission /\ Behind(t)
      BY <2>1, <2>2, <3>1 DEF CursorInv, SentInv
    <3>3. t[1] \in Nat
      BY <3>2 DEF Submission
    <3>4. Behind(t)'
      BY <2>1, <2>2, <3>2, <3>3, AdvancePasses
    <3> QED
      BY <2>1, <3>1, <3>4 DEF Behind
  <2> QED
    BY <2>1, <2>2 DEF SentInv, ReceivedIsDecided
<1>2. ASSUME Ask \/ AskUtilisation \/ EndScan \/ Done \/ UNCHANGED vars PROVE SentInv'
  <2>1. /\ UNCHANGED <<run, strategy, workload, decisions, received>>
        /\ pc' = pc \/ pc # "done"
    BY <1>2 DEF Ask, AskUtilisation, EndScan, Done, vars
  <2> QED
    BY <2>1 DEF SentInv, ReceivedIsDecided, Behind, Workloads
<1> QED
  BY <1>1, <1>2, SubmitKeepsSent DEF Next, Step

(* ReceivedIsDecided: no submission that arrived is missing from the       *)
(* decision log, and no strategy submits a workload twice.                 *)
THEOREM SubmissionsAreDecided == Spec => []ReceivedIsDecided
<1>1. Init => CursorInv /\ CounterInv /\ SentInv
  BY CursorInit, SentInit
<1>2. (CursorInv /\ CounterInv /\ SentInv) /\ [Next]_vars => (CursorInv /\ CounterInv /\ SentInv)'
  BY CursorStep, SentStep
<1> QED
  BY <1>1, <1>2, PTL DEF Spec, SentInv

-----------------------------------------------------------------------------
(* Round robin                                                             *)

(* Division with remainder.                                                *)
LEMMA ModFacts ==
  ASSUME NEW n \in Nat \ {0}, NEW t \in Nat
  PROVE /\ t % n \in 0..(n-1)
        /\ t \div n \in Nat
        /\ t = n * (t \div n) + (t % n)
OBVIOUS

(* The remainder is the only one.                                          *)
LEMMA ModUnique ==
  ASSUME NEW n \in Nat \ {0}, NEW q \in Nat, NEW p \in 0..(n-1)
  PROVE (n * q + p) % n = p
<1>1. PICK t \in Nat : t = n * q + p
  OBVIOUS
<1>2. PICK r \in 0..(n-1), k \in Nat : t % n = r /\ t = n * k + r
  BY ModFacts
<1>3. n * q + p = n * k + r
  BY <1>1, <1>2
<1>4. n * q - n * k = r - p
  BY <1>3
<1>5. ASSUME q < k PROVE FALSE
  <2>1. PICK d \in Nat : k = q + 1 + d
    BY <1>5
  <2>2. n * k = n * q + n + n * d /\ n * d \in Nat
    BY <2>1
  <2> QED
    BY <1>4, <2>2
<1>6. ASSUME k < q PROVE FALSE
  <2>1. PICK d \in Nat : q = k + 1 + d
    BY <1>6
  <2>2. n * q = n * k + n + n * d /\ n * d \in Nat
    BY <2>1
  <2> QED
    BY <1>4, <2>2
<1>7. r = p
  BY <1>3, <1>5, <1>6
<1> QED
  BY <1>1, <1>2, <1>7

(* n numbers in a row leave every remainder.                               *)
LEMMA Window ==
  ASSUME NEW n \in Nat \ {0}, NEW t \in Nat, NEW p \in 0..(n-1)
  PROVE \E u \in t..(t + n - 1) : u % n = p
<1>1. PICK r \in 0..(n-1), q \in Nat : t = n * q + r
  BY ModFacts
<1>2. CASE r <= p
  <2>1. (n * q + p) % n = p
    BY ModUnique
  <2>2. PICK m \in Nat : m = n * q
    OBVIOUS
  <2>3. m + p \in t..(t + n - 1)
    BY <1>1, <1>2, <2>2
  <2> QED
    BY <2>1, <2>2, <2>3
<1>3. CASE p < r
  <2>1. (n * (q + 1) + p) % n = p
    BY ModUnique
  <2>2. PICK m \in Nat : m = n * q /\ n * (q + 1) = m + n
    OBVIOUS
  <2>3. m + n + p \in t..(t + n - 1)
    BY <1>1, <1>3, <2>2
  <2> QED
    BY <2>1, <2>2, <2>3
<1> QED
  BY <1>2, <1>3

Placed == Cardinality(Rounds)

(* The cluster the counter shows at turn t.                                *)
ClusterAt(t) == Clusters[(t % N) + 1]

(* Turns count the placements of RoundRobin, the counter follows them, and *)
(* a simulated cluster takes what fits it at its turn.                     *)
TurnInv ==
    /\ IsFiniteSet(Rounds)
    /\ Placed \in Nat
    /\ N > 0 => counter = Placed % N
    /\ \A y \in Rounds : Turn(y) \in Nat /\ Turn(y) < Placed
    /\ \A x, y \in Rounds : x < y => Turn(x) < Turn(y)
    /\ \A t \in Nat : t < Placed => \E y \in Rounds : Turn(y) = t
    /\ \A y \in Rounds :
          LET c == ClusterAt(Turn(y))
          IN  c \notin Remotes /\ CpuOf[decisions[y].workload] <= MaxCPU[c]
              => decisions[y].cluster = c

(* RoundRobin asks the cluster its counter shows first, and takes it if it *)
(* is one that cannot refuse.                                              *)
FirstInv ==
    Running = "RoundRobin" =>
        /\ pc = "scan" => best = None
        /\ asked = 0 => pc \in {"scan", "done"}
        /\ LET c == ClusterAt(counter)
           IN  asked > 0 /\ c \notin Remotes /\ CpuOf[W] <= MaxCPU[c]
               => pc = "submit" /\ best = c

LEMMA FirstInit == Init => FirstInv
BY DEF Init, FirstInv

LEMMA FirstStep ==
    CursorInv /\ CounterInv /\ OfferInv /\ FirstInv /\ [Next]_vars => FirstInv'
<1> SUFFICES ASSUME CursorInv, CounterInv, OfferInv, FirstInv, [Next]_vars, (Running = "RoundRobin")'
             PROVE  /\ pc' = "scan" => best' = None
                    /\ asked' = 0 => pc' \in {"scan", "done"}
                    /\ LET c == ClusterAt(counter)'
                       IN  asked' > 0 /\ c \notin Remotes /\ CpuOf[W'] <= MaxCPU[c]
                           => pc' = "submit" /\ best' = c
  BY DEF FirstInv
<1>1. CASE Ask
  <2>1. /\ pc = "scan" /\ asked' = asked + 1 /\ asked \in Nat
        /\ W' = W /\ Running = "RoundRobin" /\ ClusterAt(counter)' = ClusterAt(counter)
    BY <1>1 DEF Ask, W, Workloads, Running, Strategies, ClusterAt, CursorInv
  <2>2. best = None
    BY <2>1 DEF FirstInv
  <2>3. PICK usage \in IF Asking \in Remotes THEN Usages \cup {Error} ELSE {Error} :
          /\ best' = IF Accepts(Asking, usage) THEN Asking ELSE best
          /\ pc' = IF Accepts(Asking, usage) THEN "submit" ELSE "scan"
    BY <1>1, <2>1 DEF Ask, TakesFirst
  <2>4. CASE asked = 0
    <3>1. Asking = ClusterAt(counter)
      <4>1. counter + asked = counter
        BY <2>4 DEF CounterInv
      <4> QED
        BY <2>1, <4>1 DEF Asking, ClusterAt
    <3> QED
      BY <2>1, <2>2, <2>3, <2>4, <3>1 DEF Accepts
  <2>5. CASE asked > 0
    <3>1. ~(ClusterAt(counter) \notin Remotes /\ CpuOf[W] <= MaxCPU[ClusterAt(counter)])
      BY <2>1, <2>5 DEF FirstInv
    <3> QED
      BY <2>1, <2>2, <2>3, <2>5, <3>1
  <2> QED
    BY <2>1, <2>4, <2>5
<1>2. CASE AskUtilisation
  <2>1. pc = "metric" /\ Running = "RoundRobin"
    BY <1>2 DEF AskUtilisation, Running, Strategies
  <2> QED
    BY <2>1 DEF OfferInv
<1>3. CASE EndScan
  <2>1. pc = "scan" /\ Running = "RoundRobin" /\ best # None
    BY <1>3 DEF EndScan, Running, Strategies
  <2> QED
    BY <2>1 DEF FirstInv
<1>4. CASE FailToPlace \/ \E arrives \in BOOLEAN : Submit(arrives)
  <2>1. Advance
    BY <1>4 DEF FailToPlace, Submit
  <2> QED
    BY <2>1, AdvanceFacts
<1>5. CASE Done \/ UNCHANGED vars
  BY <1>5 DEF Done, vars, FirstInv, W, Workloads, Running, Strategies, ClusterAt
<1> QED
  BY <1>1, <1>2, <1>3, <1>4, <1>5 DEF Next, Step

LEMMA TurnInit == Init => TurnInv
<1> SUFFICES ASSUME Init PROVE TurnInv
  OBVIOUS
<1>1. Rounds = {}
  BY DEF Init, Rounds
<1>2. IsFiniteSet(Rounds) /\ Placed = 0
  BY <1>1, FS_EmptySet DEF Placed
<1>3. N > 0 => counter = 0 % N
  BY ClusterFacts DEF Init
<1> QED
  BY <1>1, <1>2, <1>3 DEF TurnInv

(* A further placement takes the next turn.                                *)
LEMMA NextTurn ==
    ASSUME CursorInv, CounterInv, FirstInv, TurnInv, Running = "RoundRobin",
           NEW arrives \in BOOLEAN, Submit(arrives)
    PROVE  TurnInv'
<1>a. PICK m \in Nat \ {0} : m = Len(decisions) + 1
  BY DEF CursorInv
<1>1. /\ run' = run /\ pc = "submit" /\ best \in Names
      /\ decisions' = Append(decisions, [strategy |-> strategy, workload |-> W, cluster |-> best])
      /\ counter' = (counter + 1) % N
  BY AdvanceFacts DEF Submit, CursorInv
<1>2. N \in Nat \ {0}
  BY <1>1, ClusterFacts
<1>3. /\ DOMAIN decisions = 1..(m - 1) /\ DOMAIN decisions' = 1..m
      /\ \A y \in 1..(m - 1) : decisions'[y] = decisions[y]
      /\ decisions'[m] = [strategy |-> strategy, workload |-> W, cluster |-> best]
  BY <1>a, <1>1 DEF CursorInv
<1>4. Rounds \subseteq 1..(m - 1) /\ Rounds' = Rounds \cup {m}
  BY <1>1, <1>3 DEF Rounds, Strategies, Running
<1>5. m \notin Rounds
  BY <1>1, <1>4
<1>6. IsFiniteSet(Rounds') /\ Placed' = Placed + 1 /\ Placed \in Nat
  BY <1>4, <1>5, FS_AddElement DEF TurnInv, Placed
<1>7. \A y \in Rounds : Turn(y)' = Turn(y)
  <2> SUFFICES ASSUME NEW y \in Rounds PROVE Turn(y)' = Turn(y)
    OBVIOUS
  <2>1. {x \in Rounds' : x < y} = {x \in Rounds : x < y}
    BY <1>1, <1>4
  <2> QED
    BY <2>1 DEF Turn
<1>8. Turn(m)' = Placed
  <2>1. {x \in Rounds' : x < m} = Rounds
    <3>1. \A x \in Rounds : x < m
      BY <1>a, <1>4
    <3>2. ~(m < m)
      BY <1>a
    <3> QED
      BY <1>4, <3>1, <3>2
  <2> QED
    BY <2>1 DEF Turn, Placed
<1>9. counter = Placed % N /\ counter \in 0..(N - 1)
  BY <1>2, <1>6, ModFacts DEF TurnInv
<1>10. counter' = Placed' % N
  <2>1. PICK q \in Nat : Placed = N * q + counter
    BY <1>2, <1>6, <1>9, ModFacts
  <2>2. PICK k \in Nat : k = N * q /\ N * (q + 1) = k + N
    BY <1>2
  <2>3. CASE counter + 1 < N
    <3>1. counter + 1 \in 0..(N - 1) /\ Placed + 1 = N * q + (counter + 1)
      BY <1>2, <1>9, <2>1, <2>2, <2>3
    <3>2. (N * q + (counter + 1)) % N = counter + 1
      BY <1>2, <3>1, ModUnique
    <3>3. (N * 0 + (counter + 1)) % N = counter + 1 /\ N * 0 = 0
      BY <1>2, <3>1, ModUnique
    <3> QED
      BY <1>1, <1>6, <3>1, <3>2, <3>3
  <2>4. CASE counter + 1 = N
    <3>1. Placed + 1 = N * (q + 1) + 0
      <4>1. Placed = k + counter /\ N * (q + 1) = k + N /\ counter \in Nat
        BY <1>9, <2>1, <2>2
      <4>2. PICK j : j = N * (q + 1)
        OBVIOUS
      <4>3. Placed + 1 = j + 0
        BY <1>2, <2>2, <2>4, <4>1, <4>2
      <4> QED
        BY <4>2, <4>3
    <3>2. (N * (q + 1) + 0) % N = 0
      BY <1>2, ModUnique
    <3>3. N = N * 1 + 0 /\ (N * 1 + 0) % N = 0
      BY <1>2, ModUnique
    <3>4. (counter + 1) % N = 0
      BY <2>4, <3>3
    <3> QED
      BY <1>1, <1>6, <3>1, <3>2, <3>4
  <2> QED
    BY <1>2, <1>9, <2>3, <2>4
<1>11. LET c == ClusterAt(Placed)
       IN  c \notin Remotes /\ CpuOf[W] <= MaxCPU[c] => best = c
  <2>1. counter % N = counter
    BY <1>2, <1>9
  <2>2. ClusterAt(Placed) = ClusterAt(counter)
    BY <1>9, <2>1 DEF ClusterAt
  <2>3. asked > 0
    BY <1>1 DEF FirstInv, CursorInv
  <2> QED
    BY <2>2, <2>3 DEF FirstInv
<1>12. \A x, y \in Rounds' : x < y => Turn(x)' < Turn(y)'
  <2> SUFFICES ASSUME NEW x \in Rounds', NEW y \in Rounds', x < y PROVE Turn(x)' < Turn(y)'
    OBVIOUS
  <2>1. x \in Rounds
    BY <1>1, <1>4
  <2> QED
    BY <1>4, <1>7, <1>8, <2>1 DEF TurnInv
<1>13. \A t \in Nat : t < Placed' => \E y \in Rounds' : Turn(y)' = t
  <2> SUFFICES ASSUME NEW t \in Nat, t < Placed' PROVE \E y \in Rounds' : Turn(y)' = t
    OBVIOUS
  <2>1. t < Placed \/ t = Placed
    BY <1>6
  <2> QED
    BY <1>4, <1>7, <1>8, <2>1 DEF TurnInv
<1>14. \A y \in Rounds' :
          LET c == ClusterAt(Turn(y)')
          IN  c \notin Remotes /\ CpuOf[decisions'[y].workload] <= MaxCPU[c]
              => decisions'[y].cluster = c
  BY <1>3, <1>4, <1>7, <1>8, <1>11 DEF TurnInv
<1>15. \A y \in Rounds' : Turn(y)' \in Nat /\ Turn(y)' < Placed'
  BY <1>4, <1>6, <1>7, <1>8 DEF TurnInv
<1>16. \A t : ClusterAt(t)' = ClusterAt(t)
  BY DEF ClusterAt
<1> QED
  BY <1>6, <1>10, <1>12, <1>13, <1>14, <1>15, <1>16 DEF TurnInv

LEMMA TurnStep == CursorInv /\ CounterInv /\ FirstInv /\ TurnInv /\ [Next]_vars => TurnInv'
<1> SUFFICES ASSUME CursorInv, CounterInv, FirstInv, TurnInv, [Next]_vars PROVE TurnInv'
  OBVIOUS
<1>1. ASSUME UNCHANGED <<run, counter, decisions>> PROVE TurnInv'
  BY <1>1 DEF TurnInv, Rounds, Placed, Turn, Strategies, ClusterAt
<1>2. ASSUME NEW arrives \in BOOLEAN, Submit(arrives), Running # "RoundRobin" PROVE TurnInv'
  <2>1. /\ run' = run /\ counter' = counter
        /\ decisions' = Append(decisions, [strategy |-> strategy, workload |-> W, cluster |-> best])
    BY <1>2, AdvanceFacts DEF Submit
  <2>2. Rounds' = Rounds /\ \A y \in Rounds : decisions'[y] = decisions[y]
    <3>1. PICK m \in Nat \ {0} : m = Len(decisions) + 1
      BY DEF CursorInv
    <3>2. /\ DOMAIN decisions = 1..(m - 1) /\ DOMAIN decisions' = 1..m
          /\ \A y \in 1..(m - 1) : decisions'[y] = decisions[y]
          /\ decisions'[m].strategy = strategy
      BY <2>1, <3>1 DEF CursorInv
    <3> QED
      BY <1>2, <2>1, <3>2 DEF Rounds, Strategies, Running
  <2>3. Placed' = Placed /\ \A y : Turn(y)' = Turn(y)
    BY <2>2 DEF Placed, Turn
  <2> QED
    BY <2>1, <2>2, <2>3 DEF TurnInv, ClusterAt
<1>3. Ask \/ AskUtilisation \/ EndScan \/ FailToPlace \/ Done \/ UNCHANGED vars
      => UNCHANGED <<run, counter, decisions>>
  BY DEF Ask, AskUtilisation, EndScan, FailToPlace, Advance, Done, vars
<1> QED
  BY <1>1, <1>2, <1>3, NextTurn DEF Next, Step

(* RoundRobinServesAll: of any N placements of RoundRobin in a row one is  *)
(* on each cluster that would have accepted them all.                      *)
THEOREM RoundRobinIsFair == Spec => []RoundRobinServesAll
<1>1. ASSUME CursorInv, TurnInv PROVE RoundRobinServesAll
  <2> SUFFICES ASSUME NEW x \in Rounds, NEW z \in Rounds, Turn(z) = Turn(x) + N - 1,
                      NEW c \in Names \ Remotes,
                      \A y \in Rounds : x <= y /\ y <= z => CpuOf[decisions[y].workload] <= MaxCPU[c]
               PROVE  \E y \in Rounds : x <= y /\ y <= z /\ decisions[y].cluster = c
    BY DEF RoundRobinServesAll, Names
  <2>1. N \in Nat \ {0} /\ Position(c) \in 1..N /\ Clusters[Position(c)] = c
    BY ClusterFacts, PositionFacts
  <2>2. Turn(x) \in Nat /\ Turn(z) < Placed /\ Placed \in Nat /\ Turn(z) \in Nat
    BY <1>1 DEF TurnInv
  <2>3. PICK u \in Turn(x)..(Turn(x) + N - 1) : u % N = Position(c) - 1
    <3>1. Position(c) - 1 \in 0..(N - 1)
      BY <2>1
    <3> QED
      BY <2>1, <2>2, <3>1, Window
  <2>4. u \in Nat /\ u < Placed /\ Turn(x) <= u /\ u <= Turn(z)
    BY <2>1, <2>2, <2>3
  <2>5. PICK y \in Rounds : Turn(y) = u
    BY <1>1, <2>4 DEF TurnInv
  <2>6. x <= y /\ y <= z
    <3>1. x \in Int /\ y \in Int /\ z \in Int
      BY <1>1 DEF Rounds, CursorInv
    <3>2. y < x => Turn(y) < Turn(x)
      BY <1>1 DEF TurnInv
    <3>3. z < y => Turn(z) < Turn(y)
      BY <1>1 DEF TurnInv
    <3> QED
      BY <2>2, <2>4, <2>5, <3>1, <3>2, <3>3
  <2>7. ClusterAt(u) = c
    BY <2>1, <2>3 DEF ClusterAt
  <2> QED
    BY <1>1, <2>5, <2>6, <2>7 DEF TurnInv
<1>2. Init => CursorInv /\ CounterInv /\ OfferInv /\ FirstInv /\ TurnInv
  BY CursorInit, OfferInit, FirstInit, TurnInit
<1>3. (CursorInv /\ CounterInv /\ OfferInv /\ FirstInv /\ TurnInv) /\ [Next]_vars
      => (CursorInv /\ CounterInv /\ OfferInv /\ FirstInv /\ TurnInv)'
  BY CursorStep, OfferStep, FirstStep, TurnStep
<1> QED
  BY <1>1, <1>2, <1>3, PTL DEF Spec
=============================================================================
