------------------------- MODULE PolicyChoiceProofs -------------------------
(***************************************************************************)
(* Theorems about the choice of a node: which of the scored nodes is       *)
(* selected, that the choice does not depend on the order of the nodes or  *)
(* on nodes that cannot take the job, and that no other node is better.    *)
(***************************************************************************)
EXTENDS PolicyChoice, PoliciesProofs

-----------------------------------------------------------------------------
(* The nodes                                                               *)

(* The list that is scored has the signals that the policy reads.          *)
ItemsInv ==
    /\ policy \in Cases
    /\ kind \in Kinds =>
          /\ IsList(items, Read(kind))
          /\ \A i \in DOMAIN items : items[i].id \in Nat \ {Empty}
          /\ \A i \in Feasibles(items), f \in Read(kind) : items[i][f] \in policy.signal[f]

LEMMA CaseFacts ==
    ASSUME policy \in Cases
    PROVE  /\ weights \in Configurations
           /\ kind \in Kinds =>
                 \A f \in Read(kind) : f \in DOMAIN policy.signal /\ policy.signal[f] \subseteq Nat
BY ChoiceAssumption DEF weights, kind

LEMMA ItemsInit == ChoiceInit => ItemsInv
<1> SUFFICES ASSUME ChoiceInit PROVE ItemsInv
  OBVIOUS
<1>1. policy \in Cases
  BY DEF ChoiceInit
<1> PICK names \in Lists :
         \E m \in [DOMAIN names -> Measured(policy.signal)] :
            items = [i \in DOMAIN names |-> Item(names[i], m[i][1], m[i][2])]
  BY DEF ChoiceInit
<1>2. PICK m \in [DOMAIN names -> Measured(policy.signal)] :
         items = [i \in DOMAIN names |-> Item(names[i], m[i][1], m[i][2])]
  OBVIOUS
<1>3. /\ names \in Seq(Nat \ {Empty})
      /\ \A i, k \in DOMAIN names : names[i] = names[k] => i = k
  BY ChoiceAssumption
<1>4. DOMAIN items = DOMAIN names /\ DOMAIN names = 1..Len(names) /\ Len(names) \in Nat
  BY <1>2, <1>3
<1>5. \A i \in DOMAIN items : items[i].id = names[i] /\ items[i].feasible = m[i][1]
                              /\ names[i] \in Nat \ {Empty}
  BY <1>2, <1>3, <1>4, ItemFacts
<1>6. ASSUME NEW i \in DOMAIN items
      PROVE  /\ m[i][1] \in BOOLEAN /\ DOMAIN m[i][2] = DOMAIN policy.signal
             /\ m[i][1] => \A f \in DOMAIN policy.signal : m[i][2][f] \in policy.signal[f]
  <2>1. m[i] \in Measured(policy.signal)
    BY <1>2, <1>4
  <2>2. CASE \E s \in SignalRecords(policy.signal) : m[i] = <<TRUE, s>>
    <3>1. PICK s \in SignalRecords(policy.signal) : m[i] = <<TRUE, s>>
      BY <2>2
    <3>2. DOMAIN s = DOMAIN policy.signal /\ \A f \in DOMAIN policy.signal : s[f] \in policy.signal[f]
      BY <3>1 DEF SignalRecords
    <3> QED
      BY <3>1, <3>2
  <2>3. CASE m[i] = <<FALSE, [f \in DOMAIN policy.signal |-> 0]>>
    BY <2>3
  <2> QED
    BY <2>1, <2>2, <2>3 DEF Measured
<1>7. ASSUME kind \in Kinds, NEW i \in Feasibles(items), NEW f \in Read(kind)
      PROVE  items[i][f] \in policy.signal[f] /\ items[i][f] \in Int
  <2>1. f \in DOMAIN policy.signal /\ policy.signal[f] \subseteq Nat /\ f # "id" /\ f # "feasible"
    BY <1>1, <1>7, CaseFacts, ReadIsNoName
  <2>2. i \in DOMAIN items /\ m[i][1]
    BY <1>5 DEF Feasibles
  <2>3. items[i][f] = m[i][2][f]
    BY <1>2, <1>4, <1>6, <2>1, <2>2, ItemFacts
  <2> QED
    BY <1>6, <2>1, <2>2, <2>3
<1>8. \A i \in DOMAIN items : items[i].id \in Int /\ items[i].feasible \in BOOLEAN
  BY <1>5, <1>6
<1>9. \A i, k \in DOMAIN items : items[i].id = items[k].id => i = k
  BY <1>3, <1>4, <1>5
<1>10. kind \in Kinds => IsList(items, Read(kind))
  <2>1. \E n \in Nat : DOMAIN items = 1..n
    BY <1>4, Zenon
  <2>2. kind \in Kinds => \A i \in Feasibles(items), f \in Read(kind) : items[i][f] \in Int
    BY <1>7
  <2> QED
    BY <1>8, <1>9, <2>1, <2>2, Zenon DEF IsList
<1> QED
  BY <1>1, <1>5, <1>7, <1>10 DEF ItemsInv

-----------------------------------------------------------------------------
(* The range over the map                                                  *)

Ranging == pc = "range" \/ (pc = "done" /\ ~failed)

(* What the loop has: nothing yet, or the least of the keys it has seen.   *)
Seen == DOMAIN scores \ todo

LeastSeen ==
    /\ bestID \in Seen
    /\ best = scores[bestID]
    /\ \A o \in Seen \ {bestID} :
          Lower(best, scores[o]) \/ (best = scores[o] /\ bestID < o)

SelectInv ==
    /\ pc \in {"score", "range", "done"}
    /\ Ranging =>
          /\ kind \in Kinds
          /\ scores = IF Feasibles(items) = {} THEN [id \in {Empty} |-> Inf]
                      ELSE Scores(kind, items, weights)
          /\ todo \subseteq DOMAIN scores
          /\ \/ Seen = {} /\ best = Inf /\ bestID = Empty
             \/ LeastSeen
          /\ pc = "done" => todo = {}

ChoiceInv == ItemsInv /\ SelectInv

(* The map that is ranged over: numbers for the feasible nodes, or +Inf    *)
(* for the empty name alone.                                               *)
LEMMA MapFacts ==
    ASSUME ChoiceInv, Ranging
    PROVE  /\ DOMAIN scores # {} /\ DOMAIN scores \subseteq Nat
           /\ \A id \in DOMAIN scores : scores[id] \in Int \cup {Inf}
           /\ DOMAIN scores = {Empty} \/ Empty \notin DOMAIN scores
<1>1. CASE Feasibles(items) = {}
  <2>1. scores = [id \in {Empty} |-> Inf]
    BY <1>1 DEF ChoiceInv, SelectInv
  <2> QED
    BY <2>1 DEF Empty
<1>2. CASE Feasibles(items) # {}
  <2>1. scores = Scores(kind, items, weights) /\ kind \in Kinds /\ IsList(items, Read(kind))
        /\ weights \in Configurations
    BY <1>2, CaseFacts DEF ChoiceInv, SelectInv, ItemsInv
  <2>2. /\ DOMAIN scores = NamesAt(items, Feasibles(items))
        /\ \A i \in Feasibles(items) : scores[items[i].id] \in Int
    BY <2>1, ScoresFacts
  <2>3. \A id \in DOMAIN scores : \E i \in Feasibles(items) : id = items[i].id
    BY <2>2 DEF NamesAt
  <2>4. \A i \in Feasibles(items) : items[i].id \in Nat \ {Empty}
    BY <2>1 DEF ChoiceInv, ItemsInv, Feasibles
  <2>5. DOMAIN scores # {}
    BY <1>2, <2>2 DEF NamesAt
  <2> QED
    BY <2>2, <2>3, <2>4, <2>5
<1> QED
  BY <1>1, <1>2

LEMMA SelectInit == ChoiceInit => SelectInv
BY DEF ChoiceInit, SelectInv, Ranging

LEMMA VisitKeeps ==
    ASSUME ChoiceInv, NEW id \in todo, Visit(id), UNCHANGED <<policy, items>>
    PROVE  ChoiceInv'
<1>1. Ranging /\ pc = "range" /\ Ranging' /\ kind' = kind /\ weights' = weights
  BY DEF Ranging, Visit, kind, weights
<1>2. ItemsInv'
  BY DEF ChoiceInv, ItemsInv, kind, Feasibles
<1>3. /\ id \in DOMAIN scores /\ id \notin Seen
      /\ Seen' = Seen \cup {id}
      /\ DOMAIN scores' = DOMAIN scores /\ scores' = scores
  BY <1>1 DEF ChoiceInv, SelectInv, Seen, Visit
<1>4. /\ DOMAIN scores \subseteq Nat
      /\ \A o \in DOMAIN scores : scores[o] \in Int \cup {Inf}
      /\ DOMAIN scores = {Empty} \/ Empty \notin DOMAIN scores
  BY <1>1, MapFacts
<1>5. \A v \in Int : v # Inf
  BY InfAssumption
<1>6. LeastSeen'
  <2>1. CASE Seen = {} /\ best = Inf /\ bestID = Empty
    <3>1. Better(id)
      BY <1>3, <1>4, <1>5, <2>1 DEF Better, Lower
    <3> QED
      BY <1>3, <2>1, <3>1 DEF Visit, LeastSeen
  <2>2. CASE LeastSeen
    <3>1. bestID \in DOMAIN scores /\ bestID \in Nat /\ best \in Int \cup {Inf} /\ bestID # id
          /\ id \in Nat /\ scores[id] \in Int \cup {Inf}
      BY <1>3, <1>4, <2>2 DEF LeastSeen, Seen
    <3>2. bestID # Empty
      BY <1>3, <1>4, <3>1
    <3>3. CASE Better(id)
      <4>1. best' = scores[id] /\ bestID' = id
        BY <3>3 DEF Visit
      <4>2. Lower(scores[id], best) \/ (scores[id] = best /\ id < bestID)
        BY <3>2, <3>3 DEF Better
      <4>3. ASSUME NEW o \in Seen
            PROVE  Lower(scores[id], scores[o]) \/ (scores[id] = scores[o] /\ id < o)
        <5>1. scores[o] \in Int \cup {Inf} /\ o \in Nat
          BY <1>4 DEF Seen
        <5>2. o = bestID \/ Lower(best, scores[o]) \/ (best = scores[o] /\ bestID < o)
          BY <2>2 DEF LeastSeen
        <5>3. best = scores[bestID]
          BY <2>2 DEF LeastSeen
        <5> QED
          BY <1>5, <3>1, <4>2, <5>1, <5>2, <5>3 DEF Lower
      <4> QED
        BY <1>3, <4>1, <4>3 DEF LeastSeen
    <3>4. CASE ~Better(id)
      <4>1. best' = best /\ bestID' = bestID
        BY <3>4 DEF Visit
      <4>2. Lower(best, scores[id]) \/ (best = scores[id] /\ bestID < id)
        BY <1>5, <3>1, <3>4 DEF Better, Lower
      <4> QED
        BY <1>3, <2>2, <4>1, <4>2 DEF LeastSeen
    <3> QED
      BY <3>3, <3>4
  <2> QED
    BY <1>1, <2>1, <2>2 DEF ChoiceInv, SelectInv
<1>7. todo' \subseteq DOMAIN scores' /\ pc' = "range"
  BY <1>1 DEF Visit, ChoiceInv, SelectInv
<1>8. scores' = IF Feasibles(items') = {} THEN [i \in {Empty} |-> Inf]
                ELSE Scores(kind', items', weights')
  BY <1>1, <1>3 DEF ChoiceInv, SelectInv
<1> QED
  BY <1>1, <1>2, <1>6, <1>7, <1>8 DEF ChoiceInv, SelectInv

LEMMA ChoiceStep == ChoiceInv /\ [ChoiceNext]_choiceVars => ChoiceInv'
<1> SUFFICES ASSUME ChoiceInv, [ChoiceNext]_choiceVars PROVE ChoiceInv'
  OBVIOUS
<1>1. CASE Score
  <2>1. ItemsInv'
    BY <1>1 DEF Score, ChoiceInv, ItemsInv, kind, Feasibles
  <2>2. kind \in Kinds /\ kind' = kind /\ weights' = weights /\ items' = items
    BY <1>1 DEF Score, Fails, kind, weights
  <2>3. pc' = "range" /\ todo' = DOMAIN scores' /\ best' = Inf /\ bestID' = Empty
        /\ scores' = IF Feasibles(items) = {} THEN [id \in {Empty} |-> Inf]
                     ELSE Scores(kind, items, weights)
    BY <1>1 DEF Score, ArgMin
  <2>4. Seen' = {}
    BY <2>3 DEF Seen
  <2> QED
    BY <2>1, <2>2, <2>3, <2>4 DEF ChoiceInv, SelectInv
<1>2. CASE Fail
  BY <1>2 DEF Fail, ChoiceInv, ItemsInv, SelectInv, Ranging, kind, Feasibles
<1>3. ASSUME NEW id \in todo, Visit(id), UNCHANGED <<policy, items>> PROVE ChoiceInv'
  BY <1>3, VisitKeeps
<1>4. CASE Return /\ UNCHANGED <<policy, items>>
  BY <1>4 DEF Return, ChoiceInv, ItemsInv, SelectInv, Ranging, Seen, LeastSeen, kind, weights, Feasibles
<1>5. CASE UNCHANGED choiceVars
  BY <1>5 DEF choiceVars, vars, ChoiceInv, ItemsInv, SelectInv, Ranging, Seen, LeastSeen, kind,
              weights, Feasibles
<1> QED
  BY <1>1, <1>2, <1>3, <1>4, <1>5 DEF ChoiceNext, Select

LEMMA ChoiceInvariant == ChoiceSpec => []ChoiceInv
<1>1. ChoiceInit => ChoiceInv
  BY ItemsInit, SelectInit DEF ChoiceInv
<1> QED
  BY <1>1, ChoiceStep, PTL DEF ChoiceSpec

(* SelectionIsLeast: whatever the order the map is ranged over in, the     *)
(* node selected is the cheapest and, of equal ones, the first by name.    *)
THEOREM SelectsLeast == ChoiceSpec => []SelectionIsLeast
<1>1. ChoiceInv => SelectionIsLeast
  <2> SUFFICES ASSUME ChoiceInv, pc = "done", ~failed
               PROVE  Least(bestID)
    BY DEF SelectionIsLeast
  <2>1. Ranging /\ Seen = DOMAIN scores
    BY DEF Ranging, ChoiceInv, SelectInv, Seen
  <2>2. DOMAIN scores # {}
    BY <2>1, MapFacts
  <2>3. LeastSeen
    BY <2>1, <2>2 DEF ChoiceInv, SelectInv
  <2> QED
    BY <2>1, <2>3 DEF LeastSeen, Least
<1> QED
  BY ChoiceInvariant, <1>1, PTL

-----------------------------------------------------------------------------
(* The choice                                                              *)

LEMMA ChoiceFacts ==
    ASSUME ChoiceInv, IsChoice
    PROVE  /\ kind \in Kinds /\ weights \in Configurations /\ IsList(items, Read(kind))
           /\ answer = Selected(kind, items, weights)
           /\ \E c \in Feasibles(items) : answer = items[c].id /\ Chosen = items[c]
<1>1. Ranging /\ Feasibles(items) # {}
  BY DEF IsChoice, Ranging
<1>2. kind \in Kinds /\ weights \in Configurations /\ IsList(items, Read(kind))
  BY <1>1, CaseFacts DEF ChoiceInv, SelectInv, ItemsInv
<1>3. scores = Scores(kind, items, weights)
  BY <1>1 DEF ChoiceInv, SelectInv
<1>4. DOMAIN scores = NamesAt(items, Feasibles(items))
      /\ \A i \in Feasibles(items) : items[i].id \in DOMAIN scores /\ scores[items[i].id] \in Int
  BY <1>2, <1>3, ScoresFacts
<1>5. Least(bestID)
  <2>1. Seen = DOMAIN scores /\ DOMAIN scores # {}
    BY <1>1, MapFacts DEF IsChoice, ChoiceInv, SelectInv, Seen
  <2>2. LeastSeen
    BY <1>1, <2>1 DEF ChoiceInv, SelectInv
  <2> QED
    BY <2>1, <2>2 DEF LeastSeen, Least
<1>6. PICK c \in Feasibles(items) :
         /\ Selected(kind, items, weights) = items[c].id
         /\ \A i \in Feasibles(items) :
               /\ scores[items[c].id] <= scores[items[i].id]
               /\ scores[items[c].id] = scores[items[i].id] => items[c].id <= items[i].id
  BY <1>1, <1>2, <1>3, SelectedIsBest
<1>7. bestID = items[c].id
  <2> SUFFICES ASSUME bestID # items[c].id PROVE FALSE
    OBVIOUS
  <2>1. PICK b \in Feasibles(items) : bestID = items[b].id
    BY <1>4, <1>5 DEF Least, NamesAt
  <2>2. \/ Lower(scores[items[b].id], scores[items[c].id])
        \/ scores[items[b].id] = scores[items[c].id] /\ items[b].id < items[c].id
    BY <1>4, <1>5, <2>1 DEF Least
  <2>3. items[b].id \in Int /\ items[c].id \in Int
        /\ scores[items[b].id] \in Int /\ scores[items[c].id] \in Int
    BY <1>2, <1>4 DEF IsList, Feasibles
  <2>4. \/ scores[items[b].id] < scores[items[c].id]
        \/ scores[items[b].id] = scores[items[c].id] /\ items[b].id < items[c].id
    <3>1. scores[items[b].id] # Inf /\ scores[items[c].id] # Inf
      BY <2>3, InfAssumption
    <3> QED
      BY <2>2, <3>1 DEF Lower
  <2>5. /\ scores[items[c].id] <= scores[items[b].id]
        /\ scores[items[c].id] = scores[items[b].id] => items[c].id <= items[b].id
    BY <1>6
  <2> QED
    BY <2>3, <2>4, <2>5
<1>8. Chosen = items[c]
  <2>1. c \in DOMAIN items
    BY DEF Feasibles
  <2>2. ItemOf(items, items[c].id) = items[c]
    BY <1>2, <2>1, ItemOfId
  <2> QED
    BY <1>7, <2>2 DEF Chosen, answer
<1> QED
  BY <1>2, <1>6, <1>7, <1>8 DEF answer

LEMMA EpsilonIsKind == "eco-epsilon-constraint" \in Kinds
BY Zenon DEF Kinds

(* InfeasibleIrrelevant: nodes that cannot take the job change nothing.    *)
THEOREM InfeasibleNodesChangeNothing == ChoiceSpec => []InfeasibleIrrelevant
<1>1. ChoiceInv => InfeasibleIrrelevant
  <2> SUFFICES ASSUME ChoiceInv, IsChoice
               PROVE  answer = Selected(kind, AtPositions(items, Feasibles(items)), weights)
    BY DEF InfeasibleIrrelevant
  <2>1. /\ kind \in Kinds /\ weights \in Configurations /\ IsList(items, Read(kind))
        /\ answer = Selected(kind, items, weights)
    BY ChoiceFacts
  <2>2. PICK y : y = AtPositions(items, Feasibles(items))
    OBVIOUS
  <2>3. /\ IsList(y, Read(kind)) /\ SameNodes(items, y) /\ Feasibles(y) = DOMAIN y
        /\ \A i \in Feasibles(items) : Idx(items, i) \in DOMAIN y /\ y[Idx(items, i)] = items[i]
        /\ \A i, k \in Feasibles(items) : i < k <=> Idx(items, i) < Idx(items, k)
        /\ \A r \in DOMAIN y : \E i \in Feasibles(items) : Idx(items, i) = r
    BY <2>1, <2>2, FeasibleList
  <2>4. CASE kind # "eco-epsilon-constraint"
    BY <2>1, <2>2, <2>3, <2>4, SameSelected
  <2>5. CASE kind = "eco-epsilon-constraint"
    <3>1. Feasibles(items) # {} /\ Feasibles(y) # {}
      BY <2>1, <2>3, SameFacts DEF IsChoice
    <3>2. IsList(items, Read("eco-epsilon-constraint")) /\ IsList(y, Read("eco-epsilon-constraint"))
      BY <2>1, <2>3, <2>5
    <3>3. PICK c \in EpsilonCandidates(items, weights) :
             /\ Selected(kind, items, weights) = items[c].id
             /\ \A k \in EpsilonCandidates(items, weights) \ {c} : RanksBefore(items, c, k)
      BY <2>1, <2>5, <3>1, <3>2, EpsilonSelected
    <3>4. PICK d \in EpsilonCandidates(y, weights) :
             /\ Selected(kind, y, weights) = y[d].id
             /\ \A k \in EpsilonCandidates(y, weights) \ {d} : RanksBefore(y, d, k)
      BY <2>1, <2>5, <3>1, <3>2, EpsilonSelected
    <3>5. c \in Feasibles(items) /\ d \in Feasibles(y)
      BY <3>2, CandidatesFeasible
    <3>6. PICK i \in Feasibles(items) : Idx(items, i) = d
      BY <2>3, <3>5
    <3>7. PICK e \in Feasibles(y) : e = Idx(items, c)
      BY <2>3, <3>5
    <3>8. y[d] = items[i] /\ y[e] = items[c]
      BY <2>3, <3>5, <3>6, <3>7
    <3>9. i \in EpsilonCandidates(items, weights) /\ e \in EpsilonCandidates(y, weights)
      BY <2>3, <3>2, <3>5, <3>8, SameCandidates
    <3>10. RanksBefore(items, c, i) <=> RanksBefore(y, e, d)
      BY <2>3, <3>5, <3>6, <3>7, <3>8 DEF RanksBefore
    <3>11. i = c
      <4> SUFFICES ASSUME i # c PROVE FALSE
        OBVIOUS
      <4>1. RanksBefore(y, e, d)
        BY <3>3, <3>9, <3>10
      <4>2. e # d
        BY <3>2, <3>5, <4>1, RanksBeforeFacts
      <4>3. RanksBefore(y, d, e)
        BY <3>4, <3>9, <4>2
      <4> QED
        BY <3>2, <3>5, <4>1, <4>3, RanksBeforeFacts
    <3> QED
      BY <2>1, <2>2, <3>3, <3>4, <3>8, <3>11
  <2> QED
    BY <2>4, <2>5
<1> QED
  BY ChoiceInvariant, <1>1, PTL

(* OrderIrrelevant: the order of the nodes decides nothing, for            *)
(* eco-epsilon-constraint only between nodes of equal carbon, runtime and  *)
(* queue.                                                                  *)
THEOREM OrderChangesNothing == ChoiceSpec => []OrderIrrelevant
<1>1. ChoiceInv => OrderIrrelevant
  <2> SUFFICES ASSUME ChoiceInv, IsChoice, NEW p \in Orders
               PROVE  LET other == ItemOf(items, Selected(kind, Reordered(p), weights))
                      IN  IF kind = "eco-epsilon-constraint"
                          THEN \A f \in {"co2", "runtime", "queue"} : other[f] = Chosen[f]
                          ELSE other.id = answer
    BY DEF OrderIrrelevant
  <2>1. /\ kind \in Kinds /\ weights \in Configurations /\ IsList(items, Read(kind))
        /\ answer = Selected(kind, items, weights)
    BY ChoiceFacts
  <2>2. PICK c \in Feasibles(items) : answer = items[c].id /\ Chosen = items[c]
    BY ChoiceFacts
  <2>3. PICK y : y = Reordered(p)
    OBVIOUS
  <2>4. /\ IsList(y, Read(kind)) /\ SameNodes(items, y)
        /\ \A i \in Feasibles(items) : \E k \in Feasibles(y) : p[k] = i
        /\ \A k \in Feasibles(y) : p[k] \in Feasibles(items) /\ y[k] = items[p[k]]
    <3>1. /\ p \in [DOMAIN items -> DOMAIN items]
          /\ \A i, k \in DOMAIN items : p[i] = p[k] => i = k
      BY DEF Orders
    <3>2. y = [i \in DOMAIN items |-> items[p[i]]]
      BY <2>3 DEF Reordered
    <3> QED
      BY <2>1, <3>1, <3>2, ReorderedList
  <2>5. CASE kind # "eco-epsilon-constraint"
    <3>1. Selected(kind, y, weights) = answer
      BY <2>1, <2>4, <2>5, SameSelected
    <3>2. ItemOf(items, answer) = items[c]
      BY <2>2 DEF Chosen
    <3> QED
      BY <2>2, <2>3, <2>5, <3>1, <3>2
  <2>6. CASE kind = "eco-epsilon-constraint"
    <3>1. Feasibles(items) # {} /\ Feasibles(y) # {}
      BY <2>1, <2>4, SameFacts DEF IsChoice
    <3>2. IsList(items, Read("eco-epsilon-constraint")) /\ IsList(y, Read("eco-epsilon-constraint"))
      BY <2>1, <2>4, <2>6
    <3>3. PICK b \in EpsilonCandidates(items, weights) :
             /\ Selected(kind, items, weights) = items[b].id
             /\ \A k \in EpsilonCandidates(items, weights) \ {b} : RanksBefore(items, b, k)
      BY <2>1, <2>6, <3>1, <3>2, EpsilonSelected
    <3>4. PICK d \in EpsilonCandidates(y, weights) :
             /\ Selected(kind, y, weights) = y[d].id
             /\ \A k \in EpsilonCandidates(y, weights) \ {d} : RanksBefore(y, d, k)
      BY <2>1, <2>6, <3>1, <3>2, EpsilonSelected
    <3>5. b \in Feasibles(items) /\ d \in Feasibles(y)
      BY <3>2, CandidatesFeasible
    <3>6. b = c
      <4>1. items[b].id = items[c].id /\ b \in DOMAIN items /\ c \in DOMAIN items
        BY <2>1, <2>2, <3>3, <3>5 DEF Feasibles
      <4> QED
        BY <2>1, <4>1 DEF IsList
    <3>7. PICK e \in Feasibles(y) : p[e] = c
      BY <2>4
    <3>8. p[d] \in Feasibles(items) /\ y[d] = items[p[d]] /\ y[e] = items[c]
      BY <2>4, <3>5, <3>7
    <3>9. p[d] \in EpsilonCandidates(items, weights) /\ e \in EpsilonCandidates(y, weights)
      BY <2>4, <3>2, <3>3, <3>5, <3>6, <3>7, <3>8, SameCandidates
    <3>10. ItemOf(items, Selected(kind, y, weights)) = items[p[d]]
      <4>1. p[d] \in DOMAIN items
        BY <3>8 DEF Feasibles
      <4> QED
        BY <2>1, <3>4, <3>8, <4>1, ItemOfId
    <3>11. \A f \in {"co2", "runtime", "queue"} : items[p[d]][f] = items[c][f]
      <4>1. CASE e = d
        BY <3>8, <4>1
      <4>2. CASE p[d] = c
        BY <4>2
      <4>3. CASE e # d /\ p[d] # c
        <5>1. RanksBefore(y, d, e) /\ RanksBefore(items, c, p[d])
          BY <3>3, <3>4, <3>6, <3>9, <4>3
        <5>2. \A f \in {"co2", "runtime", "queue"} : items[p[d]][f] \in Int /\ items[c][f] \in Int
          BY <3>2, <3>8, ReadOf DEF IsList
        <5> QED
          BY <3>8, <5>1, <5>2 DEF RanksBefore
      <4> QED
        BY <4>1, <4>2, <4>3
    <3> QED
      BY <2>2, <2>3, <2>6, <3>10, <3>11
  <2> QED
    BY <2>5, <2>6
<1> QED
  BY ChoiceInvariant, <1>1, PTL

-----------------------------------------------------------------------------
(* What is better                                                          *)

(* EpsilonKept: eco-epsilon-constraint keeps the bounds and the guard for  *)
(* carbon and energy whenever one of the nodes does.                       *)
THEOREM EpsilonKeepsBounds == ChoiceSpec => []EpsilonKept
<1>1. ChoiceInv => EpsilonKept
  <2> SUFFICES ASSUME ChoiceInv, IsChoice, kind = "eco-epsilon-constraint"
               PROVE  EpsilonKept
    BY DEF EpsilonKept
  <2>1. /\ weights \in Configurations /\ IsList(items, Read("eco-epsilon-constraint"))
        /\ Feasibles(items) # {} /\ answer = Selected("eco-epsilon-constraint", items, weights)
    BY ChoiceFacts DEF IsChoice
  <2>2. PICK c \in Feasibles(items) : answer = items[c].id /\ Chosen = items[c]
    BY ChoiceFacts
  <2>3. c \in EpsilonCandidates(items, weights)
    <3>1. PICK b \in EpsilonCandidates(items, weights) : answer = items[b].id
      BY <2>1, EpsilonSelected
    <3>2. b \in DOMAIN items /\ c \in DOMAIN items
      BY <2>1, <3>1, CandidatesFeasible DEF Feasibles
    <3>3. b = c
      BY <2>1, <2>2, <3>1, <3>2 DEF IsList
    <3> QED
      BY <3>1, <3>3
  <2>4. PICK A, S : A = WithinBounds(items, weights) /\ S = BoundedItems(items, weights)
    OBVIOUS
  <2>5. /\ S = IF A = {} THEN Feasibles(items) ELSE A
        /\ S \in SUBSET Feasibles(items) /\ c \in S
        /\ c \in IF Guarded(items, S) = {} THEN S ELSE Guarded(items, S)
    <3>1. S = IF A = {} THEN Feasibles(items) ELSE A
      BY <2>4, Zenon DEF BoundedItems
    <3>2. S \in SUBSET Feasibles(items) /\ c \in S
      BY <2>1, <2>3, <2>4, CandidatesFeasible
    <3>3. c \in IF Guarded(items, S) = {} THEN S ELSE Guarded(items, S)
      BY <2>3, <2>4, Zenon DEF EpsilonCandidates
    <3> QED
      BY <3>1, <3>2, <3>3
  <2>6. A = {i \in Feasibles(items) :
               /\ weights.maxRuntime > 0 => items[i].runtime <= weights.maxRuntime
               /\ weights.maxMove > 0 => items[i].move <= weights.maxMove}
    BY <2>4, Zenon DEF WithinBounds
  <2>7. A # {} => /\ weights.maxRuntime > 0 => items[c].runtime <= weights.maxRuntime
                  /\ weights.maxMove > 0 => items[c].move <= weights.maxMove
    <3>1. A # {} => c \in A
      BY <2>5
    <3> QED
      BY <2>6, <3>1
  <2>8. ASSUME NEW i \in S,
               \A k \in S : /\ 100 * items[i].co2 <= 115 * items[k].co2
                            /\ 100 * items[i].energy <= 115 * items[k].energy
        PROVE  \A k \in S : /\ 100 * items[c].co2 <= 115 * items[k].co2
                            /\ 100 * items[c].energy <= 115 * items[k].energy
    <3>1. i \in Guarded(items, S)
      BY <2>1, <2>5, <2>8, GuardedIs
    <3>2. c \in Guarded(items, S)
      BY <2>5, <3>1
    <3> QED
      BY <2>1, <2>5, <3>2, GuardedIs
  <2> QED
    BY <2>2, <2>5, <2>6, <2>7, <2>8 DEF EpsilonKept
<1> QED
  BY ChoiceInvariant, <1>1, PTL

(* The signals that are weighed are read, and the scale tells them apart.  *)
LEMMA SignalFacts ==
    ASSUME ChoiceInv, ScaleIsFine, kind \in Kinds, NEW f \in Read(kind)
    PROVE  /\ f \in Fields
           /\ \A i \in Feasibles(items) : items[i][f] \in Nat
           /\ ValuesOf(items, f) \subseteq 0..Scale /\ ValuesOf(items, f) \subseteq Nat
<1>1. policy \in Cases /\ f \in DOMAIN policy.signal
  BY CaseFacts DEF ChoiceInv, ItemsInv
<1>2. policy.signal[f] \subseteq 0..Scale /\ policy.signal[f] \subseteq Nat
  BY <1>1, ChoiceAssumption DEF ScaleIsFine
<1>3. \A i \in Feasibles(items) : items[i][f] \in policy.signal[f]
  BY DEF ChoiceInv, ItemsInv
<1> QED
  BY <1>1, <1>2, <1>3 DEF Fields, ValuesOf

(* A node that is no worse in any signal and differs in one that is        *)
(* weighed scores lower.                                                   *)
LEMMA BetterScoresLower ==
    ASSUME ChoiceInv, ScaleIsFine, kind \in Kinds, kind # "eco-epsilon-constraint",
           NEW i \in Feasibles(items), NEW k \in Feasibles(items),
           \A f \in Fields : NoWorse(items[i], items[k], f),
           NEW g \in Weighed(kind, weights), items[i][g] # items[k][g]
    PROVE  Scores(kind, items, weights)[items[i].id] < Scores(kind, items, weights)[items[k].id]
<1>1. policy \in Cases /\ weights \in Configurations /\ IsList(items, Read(kind))
  BY CaseFacts DEF ChoiceInv, ItemsInv
<1>2. /\ \A f \in Read(kind) : items[i][f] \in Nat /\ items[k][f] \in Nat
      /\ \A f \in Read(kind) : ValuesOf(items, f) \subseteq 0..Scale /\ ValuesOf(items, f) \subseteq Nat
      /\ \A f \in Read(kind) \ {"fit"} : items[i][f] <= items[k][f]
      /\ "fit" \in Read(kind) => items[i].fit >= items[k].fit
  <2>1. \A f \in Read(kind) : NoWorse(items[i], items[k], f)
    BY SignalFacts
  <2> QED
    BY <2>1, SignalFacts DEF NoWorse
<1>3. kind \notin {"carbonscaler", "k8s"} =>
         \/ g = "co2" /\ weights.alpha > 0
         \/ g = "runtime" /\ weights.beta > 0
         \/ g = "queue" /\ weights.gamma > 0
         \/ kind \notin {"keids", "topsis"} /\ g \in WeighedToo(weights)
  BY DEF Weighed
<1>4. CASE kind \in Weighing
  <2>1. kind \notin {"carbonscaler", "k8s", "keids", "topsis"}
    BY <1>4, KindCases DEF Others
  <2>2. Read(kind) = {"co2", "energy", "runtime", "queue", "move", "fit"}
        /\ Read("eco-weighted-sum") = Read(kind)
    BY <1>4, ReadOf, KindCases
  <2>3. \/ weights.alpha > 0 /\ items[i].co2 < items[k].co2
        \/ weights.alpha + weights.beta + weights.gamma < 100 /\ items[i].energy < items[k].energy
        \/ weights.beta > 0 /\ items[i].runtime < items[k].runtime
        \/ weights.gamma > 0 /\ items[i].queue < items[k].queue
        \/ weights.delta > 0 /\ items[i].move < items[k].move
        \/ weights.fit > 0 /\ items[i].fit > items[k].fit
    <3>1. \/ g = "co2" /\ weights.alpha > 0
          \/ g = "energy" /\ weights.alpha + weights.beta + weights.gamma < 100
          \/ g = "runtime" /\ weights.beta > 0
          \/ g = "queue" /\ weights.gamma > 0
          \/ g = "move" /\ weights.delta > 0
          \/ g = "fit" /\ weights.fit > 0
      BY <1>3, <2>1 DEF WeighedToo
    <3> QED
      BY <1>2, <2>2, <3>1
  <2>4. /\ \A f \in {"co2", "energy", "runtime", "queue", "move"} : items[i][f] <= items[k][f]
        /\ items[i].fit >= items[k].fit
    BY <1>2, <2>2
  <2>5. /\ IsList(items, Read("eco-weighted-sum"))
        /\ \A f \in Read("eco-weighted-sum") : ValuesOf(items, f) \subseteq 0..Scale
    BY <1>1, <1>2, <2>2
  <2>6. WeightedScores(items, weights)[items[i].id] < WeightedScores(items, weights)[items[k].id]
    BY <1>1, <2>3, <2>4, <2>5, WeightedLower
  <2> QED
    BY <1>4, <2>6, ScoresOf
<1>5. CASE kind = "keids"
  <2>1. Read(kind) = {"co2", "runtime", "queue"}
    BY <1>5, ReadOf
  <2>2. items[i].runtime = items[k].runtime
    <3>1. items[i].runtime \in policy.signal["runtime"] /\ items[k].runtime \in policy.signal["runtime"]
      BY <2>1 DEF ChoiceInv, ItemsInv
    <3> QED
      BY <1>1, <1>5, <3>1, ChoiceAssumption DEF kind
  <2>3. items[i].co2 <= items[k].co2 /\ items[i].queue <= items[k].queue
    BY <1>2, <2>1
  <2>4. \/ weights.alpha > 0 /\ items[i].co2 < items[k].co2
        \/ weights.gamma > 0 /\ items[i].queue < items[k].queue
    BY <1>2, <1>3, <1>5, <2>1, <2>2
  <2> QED
    BY <1>1, <1>2, <1>5, <2>2, <2>3, <2>4, KeidsLower, ScoresOf
<1>6. CASE kind = "topsis"
  <2>1. Read(kind) = {"co2", "runtime", "queue"}
    BY <1>6, ReadOf
  <2>2. \A f \in {"co2", "runtime", "queue"} : items[i][f] <= items[k][f]
    BY <1>2, <2>1
  <2>3. g \in {"co2", "runtime", "queue"} /\ WeightOf(weights, g) > 0
    BY <1>3, <1>6 DEF WeightOf
  <2>4. items[i][g] < items[k][g]
    BY <1>2, <2>1, <2>2, <2>3
  <2> QED
    BY <1>1, <1>2, <1>6, <2>2, <2>3, <2>4, TopsisLower, ScoresOf
<1>7. CASE kind = "carbonscaler"
  <2>1. Read(kind) = {"co2", "queue"}
    BY <1>7, ReadOf
  <2>2. \/ g = "co2" /\ weights.lambda > 0
        \/ g = "queue" /\ weights.lambda < 100
    BY <1>7 DEF Weighed
  <2>3. items[i].co2 <= items[k].co2 /\ items[i].queue <= items[k].queue
    BY <1>2, <2>1
  <2>4. \/ weights.lambda > 0 /\ items[i].co2 < items[k].co2
        \/ weights.lambda < 100 /\ items[i].queue < items[k].queue
    BY <1>2, <2>1, <2>2, <2>3
  <2> QED
    BY <1>1, <1>2, <1>7, <2>3, <2>4, ScalerLower, ScoresOf
<1>8. CASE kind = "k8s"
  <2>1. Read(kind) = {"used"} /\ g = "used"
    BY <1>8, ReadOf DEF Weighed
  <2>2. items[i].used < items[k].used
    BY <1>2, <2>1
  <2> QED
    BY <1>1, <1>8, <2>2, K8sScore, ScoresOf
<1>9. kind \in Weighing \/ kind \in {"keids", "topsis", "carbonscaler", "k8s"}
  BY KindCases DEF Others
<1> QED
  BY <1>4, <1>5, <1>6, <1>7, <1>8, <1>9

(* Undominated: no feasible node is at least as good as the chosen one in  *)
(* every signal and better in one that the policy weighs, if the scale     *)
(* tells the values of the signals apart.                                  *)
THEOREM ChoiceIsUndominated ==
    ASSUME ScaleIsFine
    PROVE  ChoiceSpec => []Undominated
<1>1. ChoiceInv => Undominated
  <2> SUFFICES ASSUME ChoiceInv, IsChoice PROVE Undominated
    BY DEF Undominated
  <2>1. /\ kind \in Kinds /\ weights \in Configurations /\ IsList(items, Read(kind))
        /\ Feasibles(items) # {} /\ answer = Selected(kind, items, weights)
    BY ChoiceFacts DEF IsChoice
  <2>2. PICK c \in Feasibles(items) : answer = items[c].id /\ Chosen = items[c]
    BY ChoiceFacts
  <2>3. ASSUME NEW i \in Feasibles(items), \A f \in Fields : NoWorse(items[i], items[c], f),
               NEW g \in Weighed(kind, weights) \cap Fields, items[i][g] # items[c][g]
        PROVE  FALSE
    <3>1. CASE kind # "eco-epsilon-constraint"
      <4>1. PICK m : m = Scores(kind, items, weights)
        OBVIOUS
      <4>2. m[items[i].id] < m[items[c].id]
        BY <2>1, <2>3, <3>1, <4>1, BetterScoresLower
      <4>3. PICK b \in Feasibles(items) :
               /\ answer = items[b].id
               /\ m[items[b].id] <= m[items[i].id]
        BY <2>1, <4>1, SelectedIsBest
      <4>4. m[items[c].id] \in Int /\ m[items[i].id] \in Int
        BY <2>1, <4>1, ScoresFacts
      <4> QED
        BY <2>2, <4>2, <4>3, <4>4
    <3>2. CASE kind = "eco-epsilon-constraint"
      <4>1. IsList(items, Read("eco-epsilon-constraint"))
        BY <2>1, <3>2
      <4>2. /\ c \in EpsilonCandidates(items, weights)
            /\ \A k \in EpsilonCandidates(items, weights) \ {c} : RanksBefore(items, c, k)
        <5>1. PICK b \in EpsilonCandidates(items, weights) :
                 /\ answer = items[b].id
                 /\ \A k \in EpsilonCandidates(items, weights) \ {b} : RanksBefore(items, b, k)
          BY <2>1, <3>2, <4>1, EpsilonSelected
        <5>2. b \in DOMAIN items /\ c \in DOMAIN items
          BY <4>1, <5>1, CandidatesFeasible DEF Feasibles
        <5>3. b = c
          BY <2>1, <2>2, <5>1, <5>2 DEF IsList
        <5> QED
          BY <5>1, <5>3
      <4>3. \A f \in {"co2", "energy", "runtime", "queue", "move"} :
               /\ items[i][f] <= items[c][f]
               /\ items[i][f] \in Nat /\ items[c][f] \in Nat
        <5>1. Read(kind) = {"co2", "energy", "runtime", "queue", "move"}
          BY <3>2, ReadOf
        <5>2. \A f \in Read(kind) : /\ f \in Fields
                                     /\ items[i][f] \in Nat /\ items[c][f] \in Nat
          BY <2>1, SignalFacts
        <5> QED
          BY <2>3, <5>1, <5>2 DEF NoWorse
      <4>4. i \in EpsilonCandidates(items, weights)
        BY <2>1, <4>1, <4>2, <4>3, EpsilonNoWorse
      <4>5. i # c
        BY <2>3
      <4>6. RanksBefore(items, c, i)
        BY <4>2, <4>4, <4>5
      <4>7. g \in {"co2", "runtime", "queue"}
        BY <3>2 DEF Weighed
      <4> QED
        BY <2>3, <4>3, <4>6, <4>7 DEF RanksBefore
    <3> QED
      BY <3>1, <3>2
  <2>4. Chosen.feasible
    BY <2>2 DEF Feasibles
  <2> QED
    BY <2>2, <2>3, <2>4 DEF Undominated
<1> QED
  BY ChoiceInvariant, <1>1, PTL
=============================================================================
