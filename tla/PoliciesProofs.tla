--------------------------- MODULE PoliciesProofs ---------------------------
(***************************************************************************)
(* Lemmas about the scores of the policies (Policies), for any list of     *)
(* nodes, and about what they are made of: minima, filtered lists and sums. *)
(***************************************************************************)
EXTENDS Policies, FiniteSetTheorems, WellFoundedInduction, TLAPS

-----------------------------------------------------------------------------
(* Numbers and finite sets                                                 *)

(* Sets of natural numbers have a least element.                           *)
LEMMA NatLess == IsWellFoundedOn({ss \in Nat \X Nat : ss[1] < ss[2]}, Nat)
BY NatLessThanWellFounded, Zenon DEF OpToRel

LEMMA LeastNat ==
    ASSUME NEW T \in SUBSET Nat, T # {}
    PROVE  \E x \in T : \A y \in T : x <= y
<1> DEFINE R == {ss \in Nat \X Nat : ss[1] < ss[2]}
<1>1. IsWellFoundedOn(R, Nat)
  BY NatLess
<1>2. \A x, y \in Nat : ~(<<y, x>> \in R) => x <= y
  OBVIOUS
<1> HIDE DEF R
<1>3. PICK x \in T : \A y \in T : ~(<<y, x>> \in R)
  BY <1>1, WFMin
<1> QED
  BY <1>2, <1>3

(* Induction, for a set of numbers.                                        *)
LEMMA NatInduct ==
    ASSUME NEW A, 0 \in A, \A n \in Nat : n \in A => n + 1 \in A
    PROVE  \A n \in Nat : n \in A
<1>1. SUFFICES ASSUME Nat \ A # {} PROVE FALSE
  OBVIOUS
<1>2. PICK x \in Nat \ A : \A y \in Nat \ A : x <= y
  <2>1. PICK T \in SUBSET Nat : T = Nat \ A
    OBVIOUS
  <2> QED
    BY <1>1, <2>1, LeastNat
<1>3. x - 1 \in Nat /\ x - 1 \in A
  BY <1>2
<1> QED
  BY <1>2, <1>3

(* A finite set with a strict order has a minimal element.                 *)
LEMMA FiniteMinimal ==
    ASSUME NEW S, IsFiniteSet(S), S # {}, NEW R,
           \A x \in S : <<x, x>> \notin R,
           \A x, y, z \in S : <<x, y>> \in R /\ <<y, z>> \in R => <<x, z>> \in R
    PROVE  \E x \in S : \A y \in S : <<y, x>> \notin R
<1> DEFINE Below(x) == {y \in S : <<y, x>> \in R}
<1>1. \A x \in S : IsFiniteSet(Below(x)) /\ Cardinality(Below(x)) \in Nat
  BY FS_Subset, FS_CardinalityType
<1>2. PICK x \in S : \A y \in S : Cardinality(Below(x)) <= Cardinality(Below(y))
  <2>1. PICK T : T = {Cardinality(Below(x)) : x \in S}
    OBVIOUS
  <2>2. \A x \in S : Cardinality(Below(x)) \in Nat
    BY <1>1
  <2> HIDE DEF Below
  <2>3. T \in SUBSET Nat /\ T # {}
    BY <2>1, <2>2
  <2>4. PICK m \in T : \A n \in T : m <= n
    BY <2>3, LeastNat
  <2>5. PICK x \in S : m = Cardinality(Below(x))
    BY <2>1
  <2> QED
    BY <2>1, <2>4, <2>5
<1>3. ASSUME NEW y \in S, <<y, x>> \in R PROVE FALSE
  <2>1. Below(y) \subseteq Below(x) /\ y \in Below(x) /\ y \notin Below(y)
    BY <1>3
  <2>2. Cardinality(Below(y)) <= Cardinality(Below(x))
        /\ (Cardinality(Below(x)) = Cardinality(Below(y)) => Below(x) = Below(y))
    BY <1>1, <2>1, FS_Subset
  <2>3. Cardinality(Below(y)) \in Nat /\ Cardinality(Below(x)) \in Nat
        /\ Cardinality(Below(x)) <= Cardinality(Below(y))
    BY <1>1, <1>2
  <2> HIDE DEF Below
  <2> QED
    BY <2>1, <2>2, <2>3
<1> QED
  BY <1>3

LEMMA MinFacts ==
    ASSUME NEW S \in SUBSET Int, IsFiniteSet(S), S # {}
    PROVE  Min(S) \in S /\ \A y \in S : Min(S) <= y
<1> DEFINE R == {ss \in Int \X Int : ss[1] < ss[2]}
<1>1. \A x, y \in Int : <<x, y>> \in R <=> x < y
  OBVIOUS
<1> HIDE DEF R
<1>2. \E x \in S : \A y \in S : <<y, x>> \notin R
  <2>1. \A x \in S : <<x, x>> \notin R
    BY <1>1
  <2>2. \A x, y, z \in S : <<x, y>> \in R /\ <<y, z>> \in R => <<x, z>> \in R
    BY <1>1
  <2> QED
    BY <2>1, <2>2, FiniteMinimal
<1>3. \E x \in S : \A y \in S : x <= y
  <2>1. PICK x \in S : \A y \in S : <<y, x>> \notin R
    BY <1>2
  <2>2. \A y \in S : ~(y < x)
    BY <1>1, <2>1
  <2>3. \A y \in S : x <= y
    BY <2>2
  <2> QED
    BY <2>3
<1> QED
  BY <1>3 DEF Min

LEMMA MaxFacts ==
    ASSUME NEW S \in SUBSET Int, IsFiniteSet(S), S # {}
    PROVE  Max(S) \in S /\ \A y \in S : Max(S) >= y
<1> DEFINE R == {ss \in Int \X Int : ss[1] > ss[2]}
<1>1. \A x, y \in Int : <<x, y>> \in R <=> x > y
  OBVIOUS
<1> HIDE DEF R
<1>2. \E x \in S : \A y \in S : <<y, x>> \notin R
  <2>1. \A x \in S : <<x, x>> \notin R
    BY <1>1
  <2>2. \A x, y, z \in S : <<x, y>> \in R /\ <<y, z>> \in R => <<x, z>> \in R
    BY <1>1
  <2> QED
    BY <2>1, <2>2, FiniteMinimal
<1>3. \E x \in S : \A y \in S : x >= y
  <2>1. PICK x \in S : \A y \in S : <<y, x>> \notin R
    BY <1>2
  <2>2. \A y \in S : ~(y > x)
    BY <1>1, <2>1
  <2>3. \A y \in S : x >= y
    BY <2>2
  <2> QED
    BY <2>3
<1> QED
  BY <1>3 DEF Max

(* Positions of a filtered list.                                           *)
LEMMA RankFacts ==
    ASSUME NEW n \in Nat, NEW S \in SUBSET (1..n)
    PROVE  /\ IsFiniteSet(S) /\ Cardinality(S) \in Nat
           /\ \A i \in S : Rank(S, i) \in 1..Cardinality(S)
           /\ \A i, k \in S : i < k <=> Rank(S, i) < Rank(S, k)
           /\ \A r \in 1..Cardinality(S) : \E i \in S : Rank(S, i) = r
<1>1. IsFiniteSet(S)
  <2>1. IsFiniteSet(1..n)
    BY FS_Interval
  <2> QED
    BY <2>1, FS_Subset
<1>2. Cardinality(S) \in Nat
  BY <1>1, FS_CardinalityType
<1>3. \A i \in S : i \in Int
  OBVIOUS
<1> DEFINE Upto(i) == {j \in S : j <= i}
<1>4. \A i \in S : /\ IsFiniteSet(Upto(i)) /\ Cardinality(Upto(i)) \in Nat
                   /\ Cardinality(Upto(i)) <= Cardinality(S)
  BY <1>1, FS_Subset, FS_CardinalityType
<1>5. ASSUME NEW i \in S PROVE Cardinality(Upto(i)) # 0
  <2>1. i \in Upto(i)
    BY <1>3
  <2>2. Upto(i) # {} /\ IsFiniteSet(Upto(i))
    BY <1>4, <2>1
  <2> HIDE DEF Upto
  <2> QED
    BY <2>2, FS_EmptySet
<1>6. \A i \in S : Rank(S, i) \in 1..Cardinality(S)
  BY <1>2, <1>4, <1>5 DEF Rank
<1>7. ASSUME NEW i \in S, NEW k \in S, i < k PROVE Rank(S, i) < Rank(S, k)
  <2>1. Upto(i) \in SUBSET Upto(k) /\ k \in Upto(k) /\ k \notin Upto(i)
    <3>1. i \in Int /\ k \in Int /\ ~(k <= i) /\ k <= k
      BY <1>3, <1>7
    <3>2. \A j \in S : j <= i => j <= k
      BY <1>3, <1>7
    <3> QED
      BY <3>1, <3>2
  <2>2. IsFiniteSet(Upto(k)) /\ Cardinality(Upto(i)) \in Nat /\ Cardinality(Upto(k)) \in Nat
    BY <1>4
  <2>3. Rank(S, i) = Cardinality(Upto(i)) /\ Rank(S, k) = Cardinality(Upto(k))
    BY DEF Rank
  <2> HIDE DEF Upto
  <2>4. /\ Cardinality(Upto(i)) <= Cardinality(Upto(k))
        /\ Cardinality(Upto(k)) = Cardinality(Upto(i)) => Upto(k) = Upto(i)
    BY <2>1, <2>2, FS_Subset
  <2> QED
    BY <2>1, <2>2, <2>3, <2>4
<1>8. \A i, k \in S : i < k <=> Rank(S, i) < Rank(S, k)
  <2> SUFFICES ASSUME NEW i \in S, NEW k \in S PROVE i < k <=> Rank(S, i) < Rank(S, k)
    OBVIOUS
  <2>1. i < k \/ i = k \/ k < i
    BY <1>3
  <2>2. Rank(S, i) \in Int /\ Rank(S, k) \in Int
    BY <1>6
  <2> QED
    BY <1>3, <1>7, <2>1, <2>2
<1>9. \A r \in 1..Cardinality(S) : \E i \in S : Rank(S, i) = r
  <2>1. PICK f : f = [i \in S |-> Rank(S, i)]
    OBVIOUS
  <2>2. PICK T : T = 1..Cardinality(S)
    OBVIOUS
  <2>3. IsFiniteSet(T) /\ Cardinality(T) = Cardinality(S)
    BY <1>2, <2>2, FS_Interval
  <2>4. f \in Injection(S, T)
    <3>1. f \in [S -> T]
      BY <1>6, <2>1, <2>2
    <3>2. \A i, k \in S : f[i] = f[k] => i = k
      BY <1>3, <1>6, <1>8, <2>1
    <3> QED
      BY <3>1, <3>2 DEF Injection, IsInjective
  <2>5. f \in Surjection(S, T)
    BY <2>3, <2>4, FS_Injection
  <2> QED
    BY <2>1, <2>2, <2>5 DEF Surjection
<1> QED
  BY <1>1, <1>2, <1>6, <1>8, <1>9

LEMMA FilteredFacts ==
    ASSUME NEW n \in Nat, NEW S \in SUBSET (1..n), NEW s
    PROVE  /\ DOMAIN AtPositions(s, S) = 1..Cardinality(S)
           /\ Cardinality(S) \in Nat
           /\ AtPositions(s, S) = [k \in 1..Cardinality(S) |-> AtPositions(s, S)[k]]
           /\ \A i \in S : Rank(S, i) \in 1..Cardinality(S) /\ AtPositions(s, S)[Rank(S, i)] = s[i]
<1>1. DOMAIN AtPositions(s, S) = 1..Cardinality(S) /\ Cardinality(S) \in Nat
      /\ AtPositions(s, S) = [k \in 1..Cardinality(S) |-> AtPositions(s, S)[k]]
  <2>1. Cardinality(S) \in Nat
    BY RankFacts
  <2>2. PICK g : g = AtPositions(s, S)
    OBVIOUS
  <2>3. DOMAIN g = 1..Cardinality(S) /\ g = [k \in 1..Cardinality(S) |-> g[k]]
    BY <2>2 DEF AtPositions
  <2> QED
    BY <2>1, <2>2, <2>3
<1>2. ASSUME NEW i \in S PROVE Rank(S, i) \in 1..Cardinality(S) /\ AtPositions(s, S)[Rank(S, i)] = s[i]
  <2>1. Rank(S, i) \in 1..Cardinality(S)
    BY RankFacts
  <2>2. \A k \in S : Rank(S, k) = Rank(S, i) => k = i
    <3> SUFFICES ASSUME NEW k \in S, Rank(S, k) = Rank(S, i) PROVE k = i
      OBVIOUS
    <3>1. ~(Rank(S, i) < Rank(S, k)) /\ ~(Rank(S, k) < Rank(S, i))
      BY <2>1
    <3>2. ~(i < k) /\ ~(k < i)
      BY <3>1, RankFacts
    <3> QED
      BY <3>2
  <2>3. (CHOOSE k \in S : Rank(S, k) = Rank(S, i)) = i
    BY <2>2
  <2> QED
    BY <2>1, <2>3 DEF AtPositions
<1> QED
  BY <1>1, <1>2

-----------------------------------------------------------------------------
(* Sums                                                                    *)

(* The recursion of a sum over a set.                                      *)
Sums(S, g, F) == F = [s \in SUBSET S |-> IF s = {} THEN 0
                        ELSE LET x == CHOOSE x \in s : TRUE IN g[x] + F[s \ {x}]]

Total(S, g) == (CHOOSE F : Sums(S, g, F))[S]

LEMMA SumIsTotal ==
    ASSUME NEW S, NEW g
    PROVE  MapThenSumSet(LAMBDA x : g[x], S) = Total(S, g)
BY Zenon DEF MapThenSumSet, MapThenFoldSet, Sums, Total

LEMMA SmallerSet ==
    ASSUME NEW S, IsFiniteSet(S), S # {}
    PROVE  LET x == CHOOSE x \in S : TRUE
           IN  /\ x \in S /\ IsFiniteSet(S \ {x})
               /\ Cardinality(S) \in Nat /\ Cardinality(S \ {x}) \in Nat
               /\ Cardinality(S \ {x}) + 1 = Cardinality(S)
<1>1. PICK x : x = CHOOSE y \in S : TRUE
  OBVIOUS
<1>2. x \in S
  BY <1>1
<1>3. IsFiniteSet(S \ {x}) /\ Cardinality(S \ {x}) = Cardinality(S) - 1
  BY <1>2, FS_RemoveElement
<1>4. Cardinality(S) \in Nat /\ Cardinality(S \ {x}) \in Nat
  BY <1>3, FS_CardinalityType
<1> QED
  BY <1>1, <1>2, <1>3, <1>4

(* The set that the recursion goes on with.                                *)
LEMMA SmallerByOne ==
    ASSUME NEW S, IsFiniteSet(S), NEW n \in Nat, Cardinality(S) = n + 1,
           NEW x, x = CHOOSE y \in S : TRUE
    PROVE  S # {} /\ x \in S /\ IsFiniteSet(S \ {x}) /\ Cardinality(S \ {x}) = n
<1>1. S # {}
  BY FS_EmptySet
<1> QED
  BY <1>1, SmallerSet

(* Solutions of the recursion agree.                                       *)
LEMMA SumsAgree ==
    ASSUME NEW g, NEW S, NEW F, Sums(S, g, F), NEW T, NEW H, Sums(T, g, H),
           NEW u, IsFiniteSet(u), u \subseteq S, u \subseteq T
    PROVE  F[u] = H[u]
<1> DEFINE A == {n \in Nat : \A v : IsFiniteSet(v) /\ Cardinality(v) = n /\ v \subseteq S /\ v \subseteq T
                                    => F[v] = H[v]}
<1>1. 0 \in A
  <2> SUFFICES ASSUME NEW v, IsFiniteSet(v), Cardinality(v) = 0, v \subseteq S, v \subseteq T
               PROVE  F[v] = H[v]
    OBVIOUS
  <2>1. v = {}
    BY FS_EmptySet
  <2> QED
    BY <2>1 DEF Sums
<1>2. ASSUME NEW n \in Nat, n \in A PROVE n + 1 \in A
  <2> SUFFICES ASSUME NEW v, IsFiniteSet(v), Cardinality(v) = n + 1, v \subseteq S, v \subseteq T
               PROVE  F[v] = H[v]
    OBVIOUS
  <2>1. v # {}
    BY FS_EmptySet
  <2>2. PICK x : x = CHOOSE y \in v : TRUE
    OBVIOUS
  <2>3. /\ x \in v /\ IsFiniteSet(v \ {x}) /\ Cardinality(v \ {x}) = n
    BY <2>2, SmallerByOne
  <2>4. ASSUME NEW V, NEW K, Sums(V, g, K), v \subseteq V PROVE K[v] = g[x] + K[v \ {x}]
    <3>1. v \in SUBSET V
      BY <2>4
    <3>2. K = [q \in SUBSET V |-> IF q = {} THEN 0
                  ELSE LET y == CHOOSE y \in q : TRUE IN g[y] + K[q \ {y}]]
      BY <2>4, Zenon DEF Sums
    <3> QED
      BY <2>1, <2>2, <3>1, <3>2, Zenon
  <2>5. F[v \ {x}] = H[v \ {x}]
    BY <1>2, <2>3
  <2> QED
    BY <2>4, <2>5
<1> HIDE DEF A
<1>3. Cardinality(u) \in A
  BY <1>1, <1>2, NatInduct, FS_CardinalityType
<1> QED
  BY <1>3 DEF A

LEMMA SumsExist ==
    ASSUME NEW g, NEW S, IsFiniteSet(S)
    PROVE  \E F : Sums(S, g, F)
<1> DEFINE A == {n \in Nat : \A v : IsFiniteSet(v) /\ Cardinality(v) <= n => \E F : Sums(v, g, F)}
<1>1. 0 \in A
  <2> SUFFICES ASSUME NEW v, IsFiniteSet(v), Cardinality(v) <= 0 PROVE \E F : Sums(v, g, F)
    OBVIOUS
  <2>1. v = {}
    <3>1. Cardinality(v) = 0
      BY FS_CardinalityType
    <3> QED
      BY <3>1, FS_EmptySet
  <2>2. PICK F : F = [s \in {{}} |-> 0]
    OBVIOUS
  <2>3. SUBSET v = {{}}
    BY <2>1
  <2>4. Sums(v, g, F)
    BY <2>2, <2>3 DEF Sums
  <2> QED
    BY <2>4
<1>2. ASSUME NEW n \in Nat, n \in A PROVE n + 1 \in A
  <2> SUFFICES ASSUME NEW v, IsFiniteSet(v), Cardinality(v) <= n + 1
               PROVE  \E F : Sums(v, g, F)
    OBVIOUS
  <2>1. \A s \in SUBSET v : IsFiniteSet(s) /\ Cardinality(s) \in Nat
    BY FS_Subset, FS_CardinalityType
  <2>2. ASSUME NEW s \in SUBSET v, s # v PROVE \E F : Sums(s, g, F)
    <3>1. Cardinality(s) <= Cardinality(v) /\ Cardinality(s) # Cardinality(v)
      BY <2>2, FS_Subset
    <3>2. Cardinality(v) \in Nat /\ Cardinality(s) \in Nat
      BY <2>1
    <3>3. Cardinality(s) <= n
      BY <3>1, <3>2
    <3> QED
      BY <1>2, <2>1, <3>3
  <2>3. PICK F : F = [s \in SUBSET v |->
                        IF s = {} THEN 0
                        ELSE LET x == CHOOSE x \in s : TRUE IN g[x] + Total(s \ {x}, g)]
    OBVIOUS
  <2>4. ASSUME NEW s \in SUBSET v, s # v PROVE F[s] = Total(s, g)
    <3>1. PICK K : K = CHOOSE G : Sums(s, g, G)
      OBVIOUS
    <3>2. Sums(s, g, K) /\ Total(s, g) = K[s]
      BY <2>2, <2>4, <3>1, Zenon DEF Total
    <3>3. CASE s = {}
      <4>1. F[s] = 0
        BY <2>3, <3>3
      <4>2. K[s] = 0
        BY <3>2, <3>3 DEF Sums
      <4> QED
        BY <3>2, <4>1, <4>2
    <3>4. CASE s # {}
      <4>1. PICK x : x = CHOOSE y \in s : TRUE
        OBVIOUS
      <4>2. x \in s
        BY <3>4, <4>1
      <4>3. F[s] = g[x] + Total(s \ {x}, g)
        BY <2>3, <3>4, <4>1, Zenon
      <4>4. K[s] = g[x] + K[s \ {x}]
        <5>1. s \in SUBSET s
          OBVIOUS
        <5>2. K = [q \in SUBSET s |-> IF q = {} THEN 0
                        ELSE LET y == CHOOSE y \in q : TRUE IN g[y] + K[q \ {y}]]
          BY <3>2, Zenon DEF Sums
        <5> QED
          BY <3>4, <4>1, <5>1, <5>2, Zenon
      <4>5. s \ {x} \in SUBSET v /\ s \ {x} # v /\ s \ {x} \subseteq s
        BY <2>4, <4>2
      <4>6. PICK K1 : K1 = CHOOSE G : Sums(s \ {x}, g, G)
        OBVIOUS
      <4>7. Sums(s \ {x}, g, K1) /\ Total(s \ {x}, g) = K1[s \ {x}]
        BY <2>2, <4>5, <4>6, Zenon DEF Total
      <4>8. K[s \ {x}] = K1[s \ {x}]
        BY <2>1, <3>2, <4>5, <4>7, SumsAgree
      <4> QED
        BY <3>2, <4>3, <4>4, <4>7, <4>8
    <3> QED
      BY <3>3, <3>4
  <2>5. \A s \in SUBSET v : s # {} =>
           LET x == CHOOSE x \in s : TRUE IN F[s \ {x}] = Total(s \ {x}, g)
    <3> SUFFICES ASSUME NEW s \in SUBSET v, s # {}, NEW x, x = CHOOSE y \in s : TRUE
                 PROVE  F[s \ {x}] = Total(s \ {x}, g)
      OBVIOUS
    <3>1. x \in s
      OBVIOUS
    <3>2. s \ {x} \in SUBSET v /\ s \ {x} # v
      BY <3>1
    <3> QED
      BY <2>4, <3>2
  <2>6. F = [s \in SUBSET v |-> IF s = {} THEN 0
                        ELSE LET x == CHOOSE x \in s : TRUE IN g[x] + F[s \ {x}]]
    <3>1. ASSUME NEW s \in SUBSET v
          PROVE  F[s] = IF s = {} THEN 0
                        ELSE LET x == CHOOSE x \in s : TRUE IN g[x] + F[s \ {x}]
      <4>1. CASE s = {}
        BY <2>3, <4>1
      <4>2. CASE s # {}
        <5>1. PICK x : x = CHOOSE y \in s : TRUE
          OBVIOUS
        <5>2. F[s] = g[x] + Total(s \ {x}, g)
          BY <2>3, <4>2, <5>1, Zenon
        <5>3. F[s \ {x}] = Total(s \ {x}, g)
          BY <2>5, <4>2, <5>1
        <5> QED
          BY <4>2, <5>1, <5>2, <5>3
      <4> QED
        BY <4>1, <4>2
    <3>2. F = [s \in SUBSET v |-> F[s]]
      BY <2>3
    <3> QED
      BY <3>1, <3>2, Zenon
  <2> QED
    BY <2>6, Zenon DEF Sums
<1> HIDE DEF A
<1>3. Cardinality(S) \in A /\ Cardinality(S) \in Nat
  BY <1>1, <1>2, NatInduct, FS_CardinalityType
<1> QED
  BY <1>3 DEF A

LEMMA TotalStep ==
    ASSUME NEW g, NEW S, IsFiniteSet(S)
    PROVE  /\ S = {} => Total(S, g) = 0
           /\ S # {} => LET x == CHOOSE x \in S : TRUE IN Total(S, g) = g[x] + Total(S \ {x}, g)
<1>1. ASSUME NEW T, IsFiniteSet(T)
      PROVE  \E F : Sums(T, g, F) /\ Total(T, g) = F[T]
  <2>1. PICK F : F = CHOOSE G : Sums(T, g, G)
    OBVIOUS
  <2>2. Sums(T, g, F)
    BY <1>1, <2>1, SumsExist, Zenon
  <2> QED
    BY <2>1, <2>2, Zenon DEF Total
<1>2. PICK F : Sums(S, g, F) /\ Total(S, g) = F[S]
  BY <1>1
<1>3. F = [s \in SUBSET S |-> IF s = {} THEN 0
                        ELSE LET x == CHOOSE x \in s : TRUE IN g[x] + F[s \ {x}]]
  BY <1>2, Zenon DEF Sums
<1>4. S \in SUBSET S
  OBVIOUS
<1>5. S = {} => F[S] = 0
  BY <1>3, <1>4
<1>6. ASSUME S # {}, NEW x, x = CHOOSE y \in S : TRUE
      PROVE  Total(S, g) = g[x] + Total(S \ {x}, g)
  <2>1. F[S] = g[x] + F[S \ {x}]
    BY <1>3, <1>4, <1>6, Zenon
  <2>2. IsFiniteSet(S \ {x})
    BY FS_Subset
  <2>3. PICK H : Sums(S \ {x}, g, H) /\ Total(S \ {x}, g) = H[S \ {x}]
    BY <1>1, <2>2
  <2>4. H[S \ {x}] = F[S \ {x}]
    BY <1>2, <2>2, <2>3, SumsAgree
  <2> QED
    BY <1>2, <2>1, <2>3, <2>4
<1> QED
  BY <1>2, <1>5, <1>6


(* A sum of numbers is a number, and no less than a summand that is        *)
(* among natural numbers.                                                  *)
LEMMA TotalType ==
    ASSUME NEW S, IsFiniteSet(S), NEW g, \A x \in S : g[x] \in Int
    PROVE  /\ Total(S, g) \in Int
           /\ (\A x \in S : g[x] >= 0) => /\ Total(S, g) >= 0
                                          /\ \A x \in S : Total(S, g) >= g[x]
<1> DEFINE OK(v) == /\ Total(v, g) \in Int
                    /\ (\A x \in v : g[x] >= 0) => /\ Total(v, g) >= 0
                                                   /\ \A x \in v : Total(v, g) >= g[x]
           A == {n \in Nat : \A v \in SUBSET S : IsFiniteSet(v) /\ Cardinality(v) = n => OK(v)}
<1>1. 0 \in A
  <2> SUFFICES ASSUME NEW v \in SUBSET S, IsFiniteSet(v), Cardinality(v) = 0 PROVE OK(v)
    OBVIOUS
  <2>1. v = {}
    BY FS_EmptySet
  <2>2. Total(v, g) = 0
    BY <2>1, TotalStep
  <2> QED
    BY <2>1, <2>2
<1>2. ASSUME NEW n \in Nat, n \in A PROVE n + 1 \in A
  <2> SUFFICES ASSUME NEW v \in SUBSET S, IsFiniteSet(v), Cardinality(v) = n + 1 PROVE OK(v)
    OBVIOUS
  <2>1. v # {}
    BY FS_EmptySet
  <2>2. PICK x : x = CHOOSE y \in v : TRUE
    OBVIOUS
  <2>3. /\ x \in v /\ IsFiniteSet(v \ {x}) /\ Cardinality(v \ {x}) = n
    BY <2>2, SmallerByOne
  <2>4. Total(v, g) = g[x] + Total(v \ {x}, g)
    BY <2>1, <2>2, TotalStep
  <2>5. OK(v \ {x})
    BY <1>2, <2>3
  <2>6. g[x] \in Int /\ \A y \in v : y = x \/ y \in v \ {x}
    BY <2>3
  <2>7. PICK a, b \in Int : a = g[x] /\ b = Total(v \ {x}, g) /\ Total(v, g) = a + b
    BY <2>4, <2>5, <2>6
  <2>8. ASSUME \A y \in v : g[y] >= 0
        PROVE  Total(v, g) >= 0 /\ \A y \in v : Total(v, g) >= g[y]
    <3>1. a >= 0 /\ b >= 0 /\ \A y \in v \ {x} : b >= g[y] /\ g[y] \in Int
      BY <2>3, <2>5, <2>7, <2>8
    <3> QED
      BY <2>6, <2>7, <3>1
  <2> QED
    BY <2>7, <2>8
<1> HIDE DEF A
<1>3. Cardinality(S) \in A
  BY <1>1, <1>2, NatInduct, FS_CardinalityType
<1> QED
  BY <1>3 DEF A

(* Sums compare as their summands.                                         *)
LEMMA TotalsCompare ==
    ASSUME NEW S, IsFiniteSet(S), S # {}, NEW a, NEW b, NEW p \in Int, NEW q \in Int,
           \A x \in S : a[x] \in Int /\ b[x] \in Int /\ p * a[x] < q * b[x]
    PROVE  p * Total(S, a) < q * Total(S, b)
<1> DEFINE A == {n \in Nat : \A v \in SUBSET S : IsFiniteSet(v) /\ Cardinality(v) = n =>
                     IF v = {} THEN Total(v, a) = 0 /\ Total(v, b) = 0
                     ELSE p * Total(v, a) < q * Total(v, b)}
<1>1. 0 \in A
  <2> SUFFICES ASSUME NEW v \in SUBSET S, IsFiniteSet(v), Cardinality(v) = 0
               PROVE  v = {} /\ Total(v, a) = 0 /\ Total(v, b) = 0
    OBVIOUS
  <2>1. v = {}
    BY FS_EmptySet
  <2> QED
    BY <2>1, TotalStep
<1>2. ASSUME NEW n \in Nat, n \in A PROVE n + 1 \in A
  <2> SUFFICES ASSUME NEW v \in SUBSET S, IsFiniteSet(v), Cardinality(v) = n + 1
               PROVE  v # {} /\ p * Total(v, a) < q * Total(v, b)
    OBVIOUS
  <2>1. v # {}
    BY FS_EmptySet
  <2>2. PICK x : x = CHOOSE y \in v : TRUE
    OBVIOUS
  <2>3. /\ x \in v /\ IsFiniteSet(v \ {x}) /\ Cardinality(v \ {x}) = n
    BY <2>2, SmallerByOne, Zenon
  <2>4. Total(v, a) = a[x] + Total(v \ {x}, a) /\ Total(v, b) = b[x] + Total(v \ {x}, b)
    BY <2>1, <2>2, TotalStep
  <2>5. PICK a1, b1 \in Int : a1 = a[x] /\ b1 = b[x] /\ p * a1 < q * b1
    BY <2>3
  <2>6. PICK a2, b2 \in Int : a2 = Total(v \ {x}, a) /\ b2 = Total(v \ {x}, b)
    BY <2>3, TotalType
  <2>7. p * a2 < q * b2 \/ (a2 = 0 /\ b2 = 0)
    BY <1>2, <2>3, <2>6
  <2>8. p * (a1 + a2) = p * a1 + p * a2 /\ q * (b1 + b2) = q * b1 + q * b2
    OBVIOUS
  <2>9. PICK pa1, pa2, qb1, qb2 \in Int : pa1 = p * a1 /\ pa2 = p * a2 /\ qb1 = q * b1 /\ qb2 = q * b2
    OBVIOUS
  <2>10. pa2 <= qb2
    <3>1. CASE a2 = 0 /\ b2 = 0
      BY <2>9, <3>1
    <3> QED
      BY <2>7, <2>9, <3>1
  <2>11. p * (a1 + a2) < q * (b1 + b2)
    BY <2>5, <2>8, <2>9, <2>10
  <2> QED
    BY <2>1, <2>4, <2>5, <2>6, <2>11
<1> HIDE DEF A
<1>3. Cardinality(S) \in A
  BY <1>1, <1>2, NatInduct, FS_CardinalityType
<1> QED
  BY <1>3 DEF A

LEMMA FiniteRange ==
    ASSUME NEW S, IsFiniteSet(S), NEW g
    PROVE  IsFiniteSet({g[x] : x \in S})
<1>1. PICK T : T = {g[x] : x \in S}
  OBVIOUS
<1>2. PICK f : f = [x \in S |-> g[x]]
  OBVIOUS
<1>3. f \in Surjection(S, T)
  BY <1>1, <1>2 DEF Surjection
<1> QED
  BY <1>1, <1>3, FS_Surjection

-----------------------------------------------------------------------------
(* Division                                                                *)

LEMMA DivFacts ==
    ASSUME NEW a \in Int, NEW b \in Int, NEW r \in Nat \ {0}
    PROVE  /\ a \div r \in Int
           /\ a <= b => a \div r <= b \div r
           /\ a + r <= b => a \div r < b \div r
           /\ a >= 0 => a \div r >= 0
<1>1. PICK p, m \in Int : p = a \div r /\ a = r * p + m /\ 0 <= m /\ m < r
  <2>1. a \div r \in Int /\ a % r \in Int /\ a = r * (a \div r) + (a % r) /\ 0 <= a % r /\ a % r < r
    OBVIOUS
  <2> QED
    BY <2>1
<1>2. PICK q, n \in Int : q = b \div r /\ b = r * q + n /\ 0 <= n /\ n < r
  <2>1. b \div r \in Int /\ b % r \in Int /\ b = r * (b \div r) + (b % r) /\ 0 <= b % r /\ b % r < r
    OBVIOUS
  <2> QED
    BY <2>1
<1>3. \A x, y \in Int : x <= y => r * x <= r * y
  OBVIOUS
<1>4. r * (q + 1) = r * q + r /\ r * 0 = 0 /\ r * (0 - 1) = 0 - r
  OBVIOUS
<1>5. PICK rp, rq, rq1 \in Int : rp = r * p /\ rq = r * q /\ rq1 = r * (q + 1) /\ rq1 = rq + r
  BY <1>1, <1>2, <1>4
<1>6. a <= b => p <= q
  <2> SUFFICES ASSUME a <= b, p >= q + 1 PROVE FALSE
    BY <1>1, <1>2
  <2>1. rp >= rq1
    BY <1>1, <1>2, <1>3, <1>5
  <2> QED
    BY <1>1, <1>2, <1>5, <2>1
<1>7. a + r <= b => p < q
  <2> SUFFICES ASSUME a + r <= b, p >= q PROVE FALSE
    BY <1>1, <1>2
  <2>1. rp >= rq
    BY <1>1, <1>2, <1>3, <1>5
  <2> QED
    BY <1>1, <1>2, <1>5, <2>1
<1>8. a >= 0 => p >= 0
  <2> SUFFICES ASSUME a >= 0, p <= 0 - 1 PROVE FALSE
    BY <1>1
  <2>1. rp <= 0 - r
    BY <1>1, <1>3, <1>4, <1>5
  <2> QED
    BY <1>1, <1>5, <2>1
<1> QED
  BY <1>1, <1>2, <1>6, <1>7, <1>8

-----------------------------------------------------------------------------
(* Lists of nodes                                                          *)

(* A list of nodes with the signals F.                                     *)
IsList(x, F) ==
    /\ \E n \in Nat : DOMAIN x = 1..n
    /\ \A i \in DOMAIN x : x[i].id \in Int /\ x[i].feasible \in BOOLEAN
    /\ \A i, k \in DOMAIN x : x[i].id = x[k].id => i = k
    /\ \A i \in Feasibles(x), f \in F : x[i][f] \in Int

ValuesOf(x, f) == {x[i][f] : i \in Feasibles(x)}

(* Value v among the values V, scaled.                                     *)
Scaled(V, v) == IF Max(V) = Min(V) THEN Scale \div 2
                ELSE (Scale * (v - Min(V))) \div (Max(V) - Min(V))

LEMMA FeasiblesFinite ==
    ASSUME NEW F, NEW x, IsList(x, F)
    PROVE  /\ Feasibles(x) \subseteq DOMAIN x /\ Feasibles(x) \subseteq Nat
           /\ IsFiniteSet(Feasibles(x))
           /\ \A f : IsFiniteSet(ValuesOf(x, f))
           /\ \A S \in SUBSET Feasibles(x) : IsFiniteSet(NamesAt(x, S))
<1>1. PICK n \in Nat : DOMAIN x = 1..n
  BY DEF IsList
<1>2. Feasibles(x) \subseteq 1..n
  BY <1>1 DEF Feasibles
<1>3. IsFiniteSet(Feasibles(x))
  <2>1. IsFiniteSet(1..n)
    BY FS_Interval
  <2> QED
    BY <1>2, <2>1, FS_Subset
<1>4. ASSUME NEW f PROVE IsFiniteSet(ValuesOf(x, f))
  <2>1. PICK g : g = [i \in Feasibles(x) |-> x[i][f]]
    OBVIOUS
  <2>2. ValuesOf(x, f) = {g[i] : i \in Feasibles(x)}
    BY <2>1 DEF ValuesOf
  <2> QED
    BY <1>3, <2>2, FiniteRange
<1>5. ASSUME NEW S \in SUBSET Feasibles(x) PROVE IsFiniteSet(NamesAt(x, S))
  <2>1. IsFiniteSet(S)
    BY <1>3, FS_Subset
  <2> QED
    <3>1. PICK g : g = [i \in S |-> x[i].id]
      OBVIOUS
    <3>2. NamesAt(x, S) = {g[i] : i \in S}
      BY <3>1 DEF NamesAt
    <3> QED
      BY <2>1, <3>2, FiniteRange
<1> QED
  BY <1>1, <1>2, <1>3, <1>4, <1>5

(* A node that is feasible has its scaled signal, whatever comes before it *)
(* in the list.                                                            *)
LEMMA HatIsScaled ==
    ASSUME NEW F, NEW x, IsList(x, F), NEW f, NEW i \in Feasibles(x)
    PROVE  Hat(x, f, i) = Scaled(ValuesOf(x, f), x[i][f])
<1>1. PICK n \in Nat : DOMAIN x = 1..n
  BY DEF IsList
<1>2. PICK S : S = Feasibles(x)
  OBVIOUS
<1>3. S \in SUBSET (1..n) /\ i \in S
  BY <1>1, <1>2 DEF Feasibles
<1>4. PICK y : y = AtPositions(x, S)
  OBVIOUS
<1>5. /\ DOMAIN y = 1..Cardinality(S)
      /\ \A k \in S : Rank(S, k) \in 1..Cardinality(S) /\ y[Rank(S, k)] = x[k]
      /\ \A r \in 1..Cardinality(S) : \E k \in S : Rank(S, k) = r
  BY <1>3, <1>4, FilteredFacts, RankFacts
<1>6. PICK v : v = Signals(x, f)
  OBVIOUS
<1>7. v = [k \in DOMAIN y |-> y[k][f]]
  BY <1>2, <1>4, <1>6 DEF Signals
<1>8. Values(v) = ValuesOf(x, f)
  <2>1. ASSUME NEW k \in S PROVE \E r \in DOMAIN v : v[r] = x[k][f]
    BY <1>5, <1>7
  <2>2. ASSUME NEW r \in DOMAIN v PROVE \E k \in S : v[r] = x[k][f]
    <3>1. PICK k \in S : Rank(S, k) = r
      BY <1>5, <1>7
    <3> QED
      BY <1>5, <1>7, <3>1
  <2> QED
    BY <1>2, <2>1, <2>2 DEF Values, ValuesOf
<1>9. Idx(x, i) \in DOMAIN v /\ v[Idx(x, i)] = x[i][f]
  BY <1>2, <1>3, <1>5, <1>7 DEF Idx
<1> QED
  BY <1>6, <1>8, <1>9 DEF Hat, MinMax, Scaled

(* Scaling keeps the order of values, and strictly so when the scale is as *)
(* fine as the values.                                                     *)
LEMMA ScaledFacts ==
    ASSUME NEW V \in SUBSET Int, IsFiniteSet(V), NEW u \in V, NEW v \in V
    PROVE  /\ Scaled(V, u) \in Int
           /\ u <= v => Scaled(V, u) <= Scaled(V, v)
           /\ u < v /\ V \subseteq 0..Scale => Scaled(V, u) < Scaled(V, v)
<1>1. PICK lo \in Int, hi \in Int : lo = Min(V) /\ hi = Max(V)
  BY MinFacts, MaxFacts
<1>2. lo \in V /\ hi \in V /\ lo <= u /\ u <= hi /\ lo <= v /\ v <= hi
  BY <1>1, MinFacts, MaxFacts
<1>3. Scale \in Nat \ {0} /\ u \in Int /\ v \in Int
  BY ScaleAssumption
<1>4. CASE hi = lo
  <2>1. Scaled(V, u) = Scale \div 2 /\ Scaled(V, v) = Scale \div 2
    BY <1>1, <1>4 DEF Scaled
  <2>2. Scale \div 2 \in Int
    BY <1>3
  <2>3. u = lo /\ v = lo
    BY <1>2, <1>3, <1>4
  <2> QED
    BY <2>1, <2>2, <2>3, <1>3
<1>5. CASE hi # lo
  <2>1. PICK r \in Nat \ {0} : r = hi - lo
    BY <1>2, <1>3, <1>5
  <2>2. PICK a, b \in Int : a = Scale * (u - lo) /\ b = Scale * (v - lo)
    BY <1>3
  <2>3. Scaled(V, u) = a \div r /\ Scaled(V, v) = b \div r
    BY <1>1, <1>5, <2>1, <2>2 DEF Scaled
  <2>4. u <= v => a <= b
    BY <1>3, <2>2
  <2>5. u < v => a + Scale <= b
    <3> SUFFICES ASSUME u < v PROVE a + Scale <= b
      OBVIOUS
    <3>1. PICK d \in Nat : v - lo = (u - lo) + 1 + d
      <4>1. v - u - 1 \in Nat /\ v - lo = (u - lo) + 1 + (v - u - 1)
        BY <1>3
      <4> QED
        BY <4>1
    <3>2. Scale * ((u - lo) + 1 + d) = Scale * (u - lo) + Scale + Scale * d
      BY <1>3
    <3>3. Scale * d >= 0 /\ Scale * d \in Int
      BY <1>3
    <3> QED
      BY <1>3, <2>2, <3>1, <3>2, <3>3
  <2>6. V \subseteq 0..Scale => r <= Scale
    BY <1>2, <1>3, <2>1
  <2>7. u < v /\ V \subseteq 0..Scale => a + r <= b
    BY <1>3, <2>1, <2>2, <2>5, <2>6
  <2> QED
    BY <2>1, <2>2, <2>3, <2>4, <2>7, DivFacts
<1> QED
  BY <1>4, <1>5

-----------------------------------------------------------------------------
(* Maps of scores                                                          *)

LEMMA ScoreMapFacts ==
    ASSUME NEW F, NEW x, IsList(x, F), NEW g
    PROVE  /\ ScoreMap(x, g) = [id \in NamesAt(x, Feasibles(x)) |-> ScoreMap(x, g)[id]]
           /\ DOMAIN ScoreMap(x, g) = NamesAt(x, Feasibles(x))
           /\ \A i \in Feasibles(x) : x[i].id \in NamesAt(x, Feasibles(x)) /\ ScoreMap(x, g)[x[i].id] = g[i]
<1>1. PICK m : m = ScoreMap(x, g)
  OBVIOUS
<1>2. m = [id \in NamesAt(x, Feasibles(x)) |->
             g[CHOOSE i \in Feasibles(x) : x[i].id = id]]
  BY <1>1 DEF ScoreMap
<1>3. m = [id \in NamesAt(x, Feasibles(x)) |-> m[id]] /\ DOMAIN m = NamesAt(x, Feasibles(x))
  BY <1>2
<1>4. ASSUME NEW i \in Feasibles(x)
      PROVE  x[i].id \in NamesAt(x, Feasibles(x)) /\ m[x[i].id] = g[i]
  <2>1. x[i].id \in NamesAt(x, Feasibles(x))
    BY DEF NamesAt
  <2>2. \A k \in Feasibles(x) : x[k].id = x[i].id => k = i
    BY DEF IsList, Feasibles
  <2>3. (CHOOSE k \in Feasibles(x) : x[k].id = x[i].id) = i
    BY <2>2
  <2> QED
    BY <1>2, <2>1, <2>3
<1> QED
  BY <1>1, <1>3, <1>4

(* The map a policy of any kind answers.                                   *)
Others == {"eco-epsilon-constraint", "keids", "topsis", "carbonscaler", "k8s"}

LEMMA KindCases ==
    /\ "eco-weighted-sum" \in Weighing
    /\ \A kind \in Kinds : kind \in Weighing \/ kind \in Others
    /\ \A kind \in Others : kind \notin Weighing
BY Zenon DEF Kinds, Weighing, Others

LEMMA ScoresOf ==
    ASSUME NEW kind \in Kinds, NEW x, NEW w
    PROVE  /\ kind \in Weighing => Scores(kind, x, w) = WeightedScores(x, w)
           /\ kind = "eco-epsilon-constraint" => Scores(kind, x, w) = EpsilonScores(x, w)
           /\ kind = "keids" => Scores(kind, x, w) = KeidsScores(x, w)
           /\ kind = "topsis" => Scores(kind, x, w) = TopsisScores(x, w)
           /\ kind = "carbonscaler" => Scores(kind, x, w) = ScalerScores(x, w)
           /\ kind = "k8s" => Scores(kind, x, w) = K8sScores(x)
<1> USE KindCases DEF Others
<1>1. ASSUME kind \in Weighing PROVE Scores(kind, x, w) = WeightedScores(x, w)
  BY <1>1 DEF Scores
<1>2. ASSUME kind = "eco-epsilon-constraint" PROVE Scores(kind, x, w) = EpsilonScores(x, w)
  BY <1>2 DEF Scores
<1>3. ASSUME kind = "keids" PROVE Scores(kind, x, w) = KeidsScores(x, w)
  BY <1>3 DEF Scores
<1>4. ASSUME kind = "topsis" PROVE Scores(kind, x, w) = TopsisScores(x, w)
  BY <1>4 DEF Scores
<1>5. ASSUME kind = "carbonscaler" PROVE Scores(kind, x, w) = ScalerScores(x, w)
  BY <1>5 DEF Scores
<1>6. ASSUME kind = "k8s" PROVE Scores(kind, x, w) = K8sScores(x)
  BY <1>6 DEF Scores
<1> QED
  BY <1>1, <1>2, <1>3, <1>4, <1>5, <1>6

LEMMA ReadOf ==
    /\ \A kind \in Weighing : Read(kind) = {"co2", "energy", "runtime", "queue", "move", "fit"}
    /\ Read("eco-epsilon-constraint") = {"co2", "energy", "runtime", "queue", "move"}
    /\ Read("keids") = {"co2", "runtime", "queue"}
    /\ Read("topsis") = {"co2", "runtime", "queue"}
    /\ Read("carbonscaler") = {"co2", "queue"}
    /\ Read("k8s") = {"used"}
<1> USE KindCases DEF Others
<1>1. \A kind \in Weighing : Read(kind) = {"co2", "energy", "runtime", "queue", "move", "fit"}
  BY DEF Read
<1>2. Read("eco-epsilon-constraint") = {"co2", "energy", "runtime", "queue", "move"}
  BY DEF Read
<1>3. Read("keids") = {"co2", "runtime", "queue"} /\ Read("topsis") = {"co2", "runtime", "queue"}
  BY DEF Read
<1>4. Read("carbonscaler") = {"co2", "queue"} /\ Read("k8s") = {"used"}
  BY DEF Read
<1> QED
  BY <1>1, <1>2, <1>3, <1>4

LEMMA ReadIsNoName ==
    ASSUME NEW k \in Kinds, NEW f \in Read(k)
    PROVE  f # "id" /\ f # "feasible"
<1>1. k \in Weighing \/ k \in Others
  BY KindCases
<1>2. CASE k \in Weighing
  <2>1. f \in {"co2", "energy", "runtime", "queue", "move", "fit"}
    BY <1>2, ReadOf
  <2> QED
    BY <2>1
<1>3. CASE k \in Others
  <2>1. f \in {"co2", "energy", "runtime", "queue", "move", "used"}
    BY <1>3, ReadOf DEF Others
  <2> QED
    BY <2>1
<1> QED
  BY <1>1, <1>2, <1>3

LEMMA ItemFacts ==
    ASSUME NEW id, NEW feasible, NEW s
    PROVE  /\ Item(id, feasible, s).id = id
           /\ Item(id, feasible, s).feasible = feasible
           /\ \A f \in DOMAIN s : f # "id" /\ f # "feasible" => Item(id, feasible, s)[f] = s[f]
BY DEF Item

LEMMA HatInt ==
    ASSUME NEW F, NEW x, IsList(x, F), NEW f \in F, NEW i \in Feasibles(x)
    PROVE  /\ Hat(x, f, i) \in Int
           /\ ValuesOf(x, f) \in SUBSET Int /\ IsFiniteSet(ValuesOf(x, f)) /\ x[i][f] \in ValuesOf(x, f)
<1>1. ValuesOf(x, f) \in SUBSET Int
  BY DEF IsList, ValuesOf
<1>2. IsFiniteSet(ValuesOf(x, f))
  BY FeasiblesFinite
<1>3. x[i][f] \in ValuesOf(x, f)
  BY DEF ValuesOf
<1>4. Hat(x, f, i) = Scaled(ValuesOf(x, f), x[i][f])
  BY HatIsScaled
<1> QED
  BY <1>1, <1>2, <1>3, <1>4, ScaledFacts

(* max(0, 1 - alpha - beta - gamma)                                        *)
LEMMA RestOfWeights ==
    ASSUME NEW w \in Configurations
    PROVE  /\ Max({0, 100 - (w.alpha + w.beta + w.gamma)}) \in Nat
           /\ w.alpha + w.beta + w.gamma < 100
                => Max({0, 100 - (w.alpha + w.beta + w.gamma)}) > 0
<1>1. PICK v \in Int : v = 100 - (w.alpha + w.beta + w.gamma)
  BY DEF Configurations
<1>2. \E m \in {0, v} : m \in Nat /\ \A y \in {0, v} : m >= y
  <2>1. CASE v >= 0
    BY <1>1, <2>1
  <2>2. CASE v < 0
    BY <1>1, <2>2
  <2> QED
    BY <1>1, <2>1, <2>2
<1>3. Max({0, v}) \in {0, v} /\ \A y \in {0, v} : Max({0, v}) >= y
  BY <1>2 DEF Max
<1>4. Max({0, v}) \in Nat /\ (v > 0 => Max({0, v}) > 0)
  BY <1>1, <1>3
<1>5. w.alpha + w.beta + w.gamma < 100 => v > 0
  BY <1>1 DEF Configurations
<1> QED
  BY <1>1, <1>4, <1>5

LEMMA WeightedScore ==
    ASSUME NEW x, IsList(x, Read("eco-weighted-sum")), NEW w \in Configurations, NEW i \in Feasibles(x)
    PROVE  LET rest == Max({0, 100 - (w.alpha + w.beta + w.gamma)})
           IN  WeightedScores(x, w)[x[i].id] =
                  w.alpha * Hat(x, "co2", i) + rest * Hat(x, "energy", i)
                  + w.beta * Hat(x, "runtime", i) + w.gamma * Hat(x, "queue", i)
                  + w.delta * Hat(x, "move", i)
                  + w.fit * (IF w.fit > 0 THEN Scale - Hat(x, "fit", i) ELSE 0)
<1>1. PICK g : g = [k \in Feasibles(x) |->
                  w.alpha * Hat(x, "co2", k) + Max({0, 100 - (w.alpha + w.beta + w.gamma)}) * Hat(x, "energy", k)
                  + w.beta * Hat(x, "runtime", k) + w.gamma * Hat(x, "queue", k)
                  + w.delta * Hat(x, "move", k)
                  + w.fit * (IF w.fit > 0 THEN Scale - Hat(x, "fit", k) ELSE 0)]
  OBVIOUS
<1>2. WeightedScores(x, w) = ScoreMap(x, g)
  BY <1>1, Zenon DEF WeightedScores
<1>3. WeightedScores(x, w)[x[i].id] = g[i]
  BY <1>2, ScoreMapFacts
<1> QED
  BY <1>1, <1>3, Zenon

LEMMA KeidsScore ==
    ASSUME NEW x, IsList(x, Read("keids")), NEW w \in Configurations, NEW i \in Feasibles(x)
    PROVE  KeidsScores(x, w)[x[i].id] =
               100 * (w.alpha * Hat(x, "co2", i) + w.beta * Hat(x, "runtime", i)
                      + w.gamma * Hat(x, "queue", i))
               + IF x[i].runtime > 0
                 THEN (5 * w.gamma * Scale * x[i].queue) \div (x[i].runtime + 1) ELSE 0
<1>1. PICK g : g = [k \in Feasibles(x) |->
                  100 * (w.alpha * Hat(x, "co2", k) + w.beta * Hat(x, "runtime", k)
                      + w.gamma * Hat(x, "queue", k))
               + IF x[k].runtime > 0
                 THEN (5 * w.gamma * Scale * x[k].queue) \div (x[k].runtime + 1) ELSE 0]
  OBVIOUS
<1>2. KeidsScores(x, w) = ScoreMap(x, g)
  BY <1>1, Zenon DEF KeidsScores
<1>3. KeidsScores(x, w)[x[i].id] = g[i]
  BY <1>2, ScoreMapFacts
<1> QED
  BY <1>1, <1>3, Zenon

LEMMA TopsisScore ==
    ASSUME NEW x, IsList(x, Read("topsis")), NEW w \in Configurations, NEW i \in Feasibles(x)
    PROVE  TopsisScores(x, w)[x[i].id] =
               Cardinality(NamesAt(x, {k \in Feasibles(x) : Closer(x, w, k, i)}))
<1>1. PICK g : g = [k \in Feasibles(x) |->
                  Cardinality(NamesAt(x, {j \in Feasibles(x) : Closer(x, w, j, k)}))]
  OBVIOUS
<1>2. TopsisScores(x, w) = ScoreMap(x, g)
  BY <1>1, Zenon DEF TopsisScores
<1>3. TopsisScores(x, w)[x[i].id] = g[i]
  BY <1>2, ScoreMapFacts
<1> QED
  BY <1>1, <1>3, Zenon

Longest(x) == Max({0} \cup ValuesOf(x, "queue"))

LEMMA LongestIs ==
    ASSUME NEW F, NEW x, IsList(x, F), "queue" \in F
    PROVE  /\ Max({0} \cup Values(Signals(x, "queue"))) = Longest(x)
           /\ Longest(x) \in Nat /\ \A i \in Feasibles(x) : x[i].queue <= Longest(x)
           /\ ValuesOf(x, "queue") \subseteq 0..Scale => Longest(x) <= Scale
<1>1. PICK n \in Nat : DOMAIN x = 1..n
  BY DEF IsList
<1>2. PICK S : S = Feasibles(x)
  OBVIOUS
<1>3. S \in SUBSET (1..n)
  BY <1>1, <1>2 DEF Feasibles
<1>4. PICK y : y = AtPositions(x, S)
  OBVIOUS
<1>5. /\ DOMAIN y = 1..Cardinality(S)
      /\ \A k \in S : Rank(S, k) \in 1..Cardinality(S) /\ y[Rank(S, k)] = x[k]
      /\ \A r \in 1..Cardinality(S) : \E k \in S : Rank(S, k) = r
  BY <1>3, <1>4, FilteredFacts, RankFacts
<1>6. PICK v : v = Signals(x, "queue")
  OBVIOUS
<1>7. v = [k \in DOMAIN y |-> y[k]["queue"]]
  BY <1>2, <1>4, <1>6 DEF Signals
<1>8. Values(v) = ValuesOf(x, "queue")
  <2>1. ASSUME NEW k \in S PROVE \E r \in DOMAIN v : v[r] = x[k]["queue"]
    BY <1>5, <1>7
  <2>2. ASSUME NEW r \in DOMAIN v PROVE \E k \in S : v[r] = x[k]["queue"]
    <3>1. PICK k \in S : Rank(S, k) = r
      BY <1>5, <1>7
    <3> QED
      BY <1>5, <1>7, <3>1
  <2> QED
    BY <1>2, <2>1, <2>2 DEF Values, ValuesOf
<1>9. PICK V : V = {0} \cup ValuesOf(x, "queue")
  OBVIOUS
<1>10. V \in SUBSET Int /\ IsFiniteSet(V) /\ 0 \in V /\ \A i \in Feasibles(x) : x[i].queue \in V
  <2>1. \A i \in Feasibles(x) : x[i]["queue"] \in Int
    BY DEF IsList
  <2>2. IsFiniteSet(ValuesOf(x, "queue"))
    BY FeasiblesFinite
  <2> QED
    BY <1>9, <2>1, <2>2, FS_AddElement DEF ValuesOf
<1>11. Max(V) \in V /\ \A u \in V : Max(V) >= u
  BY <1>10, MaxFacts
<1> QED
  BY <1>6, <1>8, <1>9, <1>10, <1>11, ScaleAssumption DEF Longest

LEMMA ScalerScore ==
    ASSUME NEW x, IsList(x, Read("carbonscaler")), NEW w \in Configurations, NEW i \in Feasibles(x)
    PROVE  ScalerScores(x, w)[x[i].id] =
               Clamp(w.lambda, 0, 100) * Hat(x, "co2", i)
               + (100 - Clamp(w.lambda, 0, 100)) *
                 (IF Longest(x) > 0 THEN (Scale * x[i].queue) \div Longest(x) ELSE 0)
<1>1. "queue" \in Read("carbonscaler")
  BY DEF Read
<1>2. Max({0} \cup Values(Signals(x, "queue"))) = Longest(x)
  BY <1>1, LongestIs
<1>3. PICK g : g = [k \in Feasibles(x) |->
               Clamp(w.lambda, 0, 100) * Hat(x, "co2", k)
               + (100 - Clamp(w.lambda, 0, 100)) *
                 (IF Longest(x) > 0 THEN (Scale * x[k].queue) \div Longest(x) ELSE 0)]
  OBVIOUS
<1>4. ScalerScores(x, w) = ScoreMap(x, g)
  BY <1>2, <1>3, Zenon DEF ScalerScores
<1>5. ScalerScores(x, w)[x[i].id] = g[i]
  BY <1>4, ScoreMapFacts
<1> QED
  BY <1>3, <1>5, Zenon

LEMMA K8sScore ==
    ASSUME NEW x, IsList(x, Read("k8s")), NEW i \in Feasibles(x)
    PROVE  K8sScores(x)[x[i].id] = x[i].used
<1>1. PICK g : g = [k \in Feasibles(x) |->
                  x[k].used]
  OBVIOUS
<1>2. K8sScores(x) = ScoreMap(x, g)
  BY <1>1, Zenon DEF K8sScores
<1>3. K8sScores(x)[x[i].id] = g[i]
  BY <1>2, ScoreMapFacts
<1> QED
  BY <1>1, <1>3, Zenon

LEMMA EpsilonScore ==
    ASSUME NEW x, IsList(x, Read("eco-epsilon-constraint")), NEW w \in Configurations, NEW i \in Feasibles(x)
    PROVE  EpsilonScores(x, w)[x[i].id] =
               IF i \in EpsilonCandidates(x, w)
               THEN Cardinality({k \in EpsilonCandidates(x, w) : RanksBefore(x, k, i)})
               ELSE Cardinality(EpsilonCandidates(x, w)) + 1
<1>1. PICK g : g = [k \in Feasibles(x) |->
                  IF k \in EpsilonCandidates(x, w)
               THEN Cardinality({j \in EpsilonCandidates(x, w) : RanksBefore(x, j, k)})
               ELSE Cardinality(EpsilonCandidates(x, w)) + 1]
  OBVIOUS
<1>2. EpsilonScores(x, w) = ScoreMap(x, g)
  BY <1>1, Zenon DEF EpsilonScores
<1>3. EpsilonScores(x, w)[x[i].id] = g[i]
  BY <1>2, ScoreMapFacts
<1> QED
  BY <1>1, <1>3, Zenon

LEMMA CandidatesFeasible ==
    ASSUME NEW F, NEW x, IsList(x, F), NEW w
    PROVE  /\ EpsilonCandidates(x, w) \subseteq BoundedItems(x, w)
           /\ BoundedItems(x, w) \subseteq Feasibles(x)
           /\ Cardinality(EpsilonCandidates(x, w)) \in Nat
           /\ \A S \in SUBSET EpsilonCandidates(x, w) :
                 /\ IsFiniteSet(S) /\ Cardinality(S) \in Nat
                 /\ Cardinality(S) <= Cardinality(EpsilonCandidates(x, w))
<1>1. BoundedItems(x, w) \subseteq Feasibles(x)
  BY DEF BoundedItems, WithinBounds
<1>2. EpsilonCandidates(x, w) \subseteq BoundedItems(x, w)
  BY DEF EpsilonCandidates, Guarded
<1>3. IsFiniteSet(EpsilonCandidates(x, w))
  BY <1>1, <1>2, FeasiblesFinite, FS_Subset
<1> QED
  BY <1>1, <1>2, <1>3, FS_Subset, FS_CardinalityType

(* Every feasible node has a score, which is a number.                     *)
LEMMA ScoresFacts ==
    ASSUME NEW kind \in Kinds, NEW x, IsList(x, Read(kind)), NEW w \in Configurations
    PROVE  /\ Scores(kind, x, w) = [id \in NamesAt(x, Feasibles(x)) |-> Scores(kind, x, w)[id]]
           /\ DOMAIN Scores(kind, x, w) = NamesAt(x, Feasibles(x))
           /\ \A i \in Feasibles(x) : /\ x[i].id \in NamesAt(x, Feasibles(x))
                                      /\ Scores(kind, x, w)[x[i].id] \in Int
<1> DEFINE M(m) == /\ m = [id \in NamesAt(x, Feasibles(x)) |-> m[id]]
                   /\ DOMAIN m = NamesAt(x, Feasibles(x))
           N(m) == \A i \in Feasibles(x) : m[x[i].id] \in Int
<1>1. \A i \in Feasibles(x) : x[i].id \in NamesAt(x, Feasibles(x))
  BY DEF NamesAt
<1>2. \A g : M(ScoreMap(x, g))
  BY ScoreMapFacts
<1>3. kind \in Weighing \/ kind \in Others
  BY KindCases
<1>4. w \in Configurations /\ Scale \in Int
  BY ScaleAssumption
<1> HIDE DEF M
<1>5. CASE kind \in Weighing
  <2>1. IsList(x, Read("eco-weighted-sum")) /\ Scores(kind, x, w) = WeightedScores(x, w)
    BY <1>5, KindCases, ReadOf, ScoresOf
  <2>2. M(WeightedScores(x, w))
    BY <1>2, Zenon DEF WeightedScores
  <2>3. ASSUME NEW i \in Feasibles(x) PROVE WeightedScores(x, w)[x[i].id] \in Int
    <3>1. \A f \in {"co2", "energy", "runtime", "queue", "move", "fit"} : Hat(x, f, i) \in Int
      BY <1>5, ReadOf, HatInt
    <3>2. PICK r \in Int : r = Max({0, 100 - (w.alpha + w.beta + w.gamma)})
      BY RestOfWeights
    <3>3. PICK h1, h2, h3, h4, h5, h6 \in Int :
             /\ h1 = Hat(x, "co2", i) /\ h2 = Hat(x, "energy", i) /\ h3 = Hat(x, "runtime", i)
             /\ h4 = Hat(x, "queue", i) /\ h5 = Hat(x, "move", i)
             /\ h6 = IF w.fit > 0 THEN Scale - Hat(x, "fit", i) ELSE 0
      BY <1>4, <3>1
    <3>4. WeightedScores(x, w)[x[i].id] = w.alpha * h1 + r * h2 + w.beta * h3 + w.gamma * h4
                                          + w.delta * h5 + w.fit * h6
      BY <2>1, <3>2, <3>3, WeightedScore, Zenon
    <3>5. w.alpha \in Int /\ w.beta \in Int /\ w.gamma \in Int /\ w.delta \in Int /\ w.fit \in Int
      BY DEF Configurations
    <3> QED
      BY <3>2, <3>3, <3>4, <3>5
  <2> QED
    BY <1>1, <2>1, <2>2, <2>3 DEF M
<1>6. CASE kind = "eco-epsilon-constraint"
  <2>1. Scores(kind, x, w) = EpsilonScores(x, w)
    BY <1>6, ScoresOf
  <2>2. M(EpsilonScores(x, w))
    BY <1>2, Zenon DEF EpsilonScores
  <2>3. ASSUME NEW i \in Feasibles(x) PROVE EpsilonScores(x, w)[x[i].id] \in Int
    <3>1. PICK C : C = EpsilonCandidates(x, w)
      OBVIOUS
    <3>2. Cardinality(C) \in Nat /\ Cardinality({k \in C : RanksBefore(x, k, i)}) \in Nat
      BY <3>1, CandidatesFeasible
    <3>3. EpsilonScores(x, w)[x[i].id] =
             IF i \in C THEN Cardinality({k \in C : RanksBefore(x, k, i)}) ELSE Cardinality(C) + 1
      BY <1>6, <3>1, EpsilonScore
    <3> QED
      BY <3>2, <3>3
  <2> QED
    BY <1>1, <2>1, <2>2, <2>3 DEF M
<1>7. CASE kind = "keids"
  <2>1. Scores(kind, x, w) = KeidsScores(x, w)
    BY <1>7, ScoresOf
  <2>2. M(KeidsScores(x, w))
    BY <1>2, Zenon DEF KeidsScores
  <2>3. ASSUME NEW i \in Feasibles(x) PROVE KeidsScores(x, w)[x[i].id] \in Int
    <3>1. \A f \in {"co2", "runtime", "queue"} : Hat(x, f, i) \in Int /\ x[i][f] \in Int
      BY <1>7, ReadOf, HatInt DEF IsList
    <3>2. w.alpha \in Int /\ w.beta \in Int /\ w.gamma \in Int
      BY DEF Configurations
    <3>3. PICK d \in Int : d = IF x[i].runtime > 0
                 THEN (5 * w.gamma * Scale * x[i].queue) \div (x[i].runtime + 1) ELSE 0
      <4>1. PICK a \in Int : a = 5 * w.gamma * Scale * x[i].queue
        BY <1>4, <3>1, <3>2
      <4>2. x[i].runtime > 0 => x[i].runtime + 1 \in Nat \ {0}
        BY <3>1
      <4>3. x[i].runtime > 0 => a \div (x[i].runtime + 1) \in Int
        BY <4>1, <4>2, DivFacts
      <4> QED
        BY <4>1, <4>3
    <3>4. KeidsScores(x, w)[x[i].id] =
               100 * (w.alpha * Hat(x, "co2", i) + w.beta * Hat(x, "runtime", i)
                      + w.gamma * Hat(x, "queue", i)) + d
      BY <1>7, <3>3, KeidsScore
    <3> QED
      BY <3>1, <3>2, <3>3, <3>4
  <2> QED
    BY <1>1, <2>1, <2>2, <2>3 DEF M
<1>8. CASE kind = "topsis"
  <2>1. Scores(kind, x, w) = TopsisScores(x, w)
    BY <1>8, ScoresOf
  <2>2. M(TopsisScores(x, w))
    BY <1>2, Zenon DEF TopsisScores
  <2>3. ASSUME NEW i \in Feasibles(x) PROVE TopsisScores(x, w)[x[i].id] \in Int
    <3>1. PICK S \in SUBSET Feasibles(x) : S = {k \in Feasibles(x) : Closer(x, w, k, i)}
      OBVIOUS
    <3>2. Cardinality(NamesAt(x, S)) \in Nat
      BY FeasiblesFinite, FS_CardinalityType
    <3>3. IsList(x, Read("topsis"))
      BY <1>8
    <3>4. TopsisScores(x, w)[x[i].id] = Cardinality(NamesAt(x, S))
      BY <3>1, <3>3, TopsisScore, Zenon
    <3> QED
      BY <3>2, <3>4
  <2> QED
    BY <1>1, <2>1, <2>2, <2>3 DEF M
<1>9. CASE kind = "carbonscaler"
  <2>1. Scores(kind, x, w) = ScalerScores(x, w)
    BY <1>9, ScoresOf
  <2>2. M(ScalerScores(x, w))
    BY <1>2, Zenon DEF ScalerScores
  <2>3. ASSUME NEW i \in Feasibles(x) PROVE ScalerScores(x, w)[x[i].id] \in Int
    <3>1. Hat(x, "co2", i) \in Int /\ x[i].queue \in Int /\ Longest(x) \in Nat
      BY <1>9, ReadOf, HatInt, LongestIs DEF IsList
    <3>2. PICK l \in Int : l = Clamp(w.lambda, 0, 100)
      BY DEF Clamp, Configurations
    <3>3. PICK d \in Int : d = IF Longest(x) > 0 THEN (Scale * x[i].queue) \div Longest(x) ELSE 0
      <4>1. PICK a \in Int : a = Scale * x[i].queue
        BY <1>4, <3>1
      <4>2. Longest(x) > 0 => a \div Longest(x) \in Int
        BY <3>1, <4>1, DivFacts
      <4> QED
        BY <4>1, <4>2
    <3>4. ScalerScores(x, w)[x[i].id] = l * Hat(x, "co2", i) + (100 - l) * d
      BY <1>9, <3>2, <3>3, ScalerScore
    <3> QED
      BY <3>1, <3>2, <3>3, <3>4
  <2> QED
    BY <1>1, <2>1, <2>2, <2>3 DEF M
<1>10. CASE kind = "k8s"
  <2>1. Scores(kind, x, w) = K8sScores(x)
    BY <1>10, ScoresOf
  <2>2. M(K8sScores(x))
    BY <1>2, Zenon DEF K8sScores
  <2>3. ASSUME NEW i \in Feasibles(x) PROVE K8sScores(x)[x[i].id] \in Int
    BY <1>10, ReadOf, K8sScore DEF IsList
  <2> QED
    BY <1>1, <2>1, <2>2, <2>3 DEF M
<1> QED
  BY <1>3, <1>5, <1>6, <1>7, <1>8, <1>9, <1>10 DEF Others

(* What is selected: a feasible node of the least score, and of those the  *)
(* first by name.                                                          *)
LEMMA SelectedIsBest ==
    ASSUME NEW kind \in Kinds, NEW x, IsList(x, Read(kind)), NEW w \in Configurations,
           Feasibles(x) # {}
    PROVE  \E c \in Feasibles(x) :
              /\ Selected(kind, x, w) = x[c].id
              /\ \A i \in Feasibles(x) :
                    /\ Scores(kind, x, w)[x[c].id] <= Scores(kind, x, w)[x[i].id]
                    /\ Scores(kind, x, w)[x[c].id] = Scores(kind, x, w)[x[i].id] => x[c].id <= x[i].id
<1>1. PICK m : m = Scores(kind, x, w)
  OBVIOUS
<1>2. PICK N : N = NamesAt(x, Feasibles(x))
  OBVIOUS
<1>3. DOMAIN m = N /\ (\A n \in N : m[n] \in Int) /\ N \in SUBSET Int /\ IsFiniteSet(N) /\ N # {}
  <2>1. DOMAIN m = N /\ \A i \in Feasibles(x) : x[i].id \in N /\ m[x[i].id] \in Int
    BY <1>1, <1>2, ScoresFacts
  <2>2. \A n \in N : \E i \in Feasibles(x) : n = x[i].id
    BY <1>2 DEF NamesAt
  <2>3. \A i \in Feasibles(x) : x[i].id \in Int
    BY DEF IsList, Feasibles
  <2>4. IsFiniteSet(N)
    BY <1>2, FeasiblesFinite
  <2> QED
    BY <2>1, <2>2, <2>3, <2>4
<1>4. PICK V : V = {m[n] : n \in N}
  OBVIOUS
<1>5. V \in SUBSET Int /\ V # {} /\ IsFiniteSet(V)
  <2>1. IsFiniteSet({m[n] : n \in N})
    BY <1>3, FiniteRange
  <2> QED
    BY <1>3, <1>4, <2>1
<1>6. PICK b : b = {n \in DOMAIN m : \A o \in DOMAIN m : m[n] <= m[o]}
  OBVIOUS
<1>7. b # {} /\ b \in SUBSET Int /\ IsFiniteSet(b)
  <2>1. Min(V) \in V /\ \A u \in V : Min(V) <= u
    BY <1>5, MinFacts
  <2>2. PICK n \in N : Min(V) = m[n]
    BY <1>4, <2>1
  <2>3. n \in b
    BY <1>3, <1>4, <1>6, <2>1, <2>2
  <2>4. b \subseteq N
    BY <1>3, <1>6
  <2> QED
    BY <1>3, <2>3, <2>4, FS_Subset
<1>8. Min(b) \in b /\ \A n \in b : Min(b) <= n
  BY <1>7, MinFacts
<1>9. Selected(kind, x, w) = Min(b)
  BY <1>1, <1>6 DEF Selected
<1>10. PICK c \in Feasibles(x) : Min(b) = x[c].id
  <2>1. Min(b) \in N
    BY <1>3, <1>6, <1>8
  <2> QED
    BY <1>2, <2>1 DEF NamesAt
<1>11. ASSUME NEW i \in Feasibles(x)
       PROVE  m[x[c].id] <= m[x[i].id] /\ (m[x[c].id] = m[x[i].id] => x[c].id <= x[i].id)
  <2>1. x[i].id \in N /\ x[c].id \in N
    BY <1>2 DEF NamesAt
  <2>2. \A o \in N : m[x[c].id] <= m[o]
    BY <1>3, <1>6, <1>8, <1>10
  <2>3. m[x[c].id] = m[x[i].id] => x[i].id \in b
    BY <1>3, <1>6, <2>1, <2>2
  <2> QED
    BY <1>8, <1>10, <2>1, <2>2, <2>3
<1> QED
  BY <1>1, <1>9, <1>10, <1>11

-----------------------------------------------------------------------------
(* Lists of the same feasible nodes                                        *)

SameNodes(x, y) == {x[i] : i \in Feasibles(x)} = {y[i] : i \in Feasibles(y)}

LEMMA SameFacts ==
    ASSUME NEW F, NEW x, NEW y, IsList(x, F), IsList(y, F), SameNodes(x, y)
    PROVE  /\ \A i \in Feasibles(x) : \E k \in Feasibles(y) : y[k] = x[i]
           /\ \A k \in Feasibles(y) : \E i \in Feasibles(x) : x[i] = y[k]
           /\ \A f : ValuesOf(x, f) = ValuesOf(y, f)
           /\ NamesAt(x, Feasibles(x)) = NamesAt(y, Feasibles(y))
           /\ Feasibles(x) = {} <=> Feasibles(y) = {}
<1>1. PICK R : R = {x[i] : i \in Feasibles(x)} /\ R = {y[i] : i \in Feasibles(y)}
  BY DEF SameNodes
<1>2. \A i \in Feasibles(x) : \E k \in Feasibles(y) : y[k] = x[i]
  BY <1>1
<1>3. \A k \in Feasibles(y) : \E i \in Feasibles(x) : x[i] = y[k]
  BY <1>1
<1>4. ASSUME NEW f PROVE ValuesOf(x, f) = ValuesOf(y, f)
  BY <1>2, <1>3 DEF ValuesOf
<1>5. NamesAt(x, Feasibles(x)) = NamesAt(y, Feasibles(y))
  BY <1>2, <1>3 DEF NamesAt
<1>6. Feasibles(x) = {} <=> Feasibles(y) = {}
  BY <1>2, <1>3
<1> QED
  BY <1>2, <1>3, <1>4, <1>5, <1>6

(* The signal of a node is scaled alike in both.                           *)
LEMMA SameHat ==
    ASSUME NEW F, NEW x, NEW y, IsList(x, F), IsList(y, F), SameNodes(x, y),
           NEW i \in Feasibles(x), NEW k \in Feasibles(y), x[i] = y[k], NEW f
    PROVE  Hat(x, f, i) = Hat(y, f, k)
<1>1. ValuesOf(x, f) = ValuesOf(y, f)
  BY SameFacts
<1> QED
  BY <1>1, HatIsScaled

-----------------------------------------------------------------------------
(* topsis: sums of squares and distances                                   *)

LEMMA ItemOfId ==
    ASSUME NEW F, NEW x, IsList(x, F), NEW i \in DOMAIN x
    PROVE  ItemOf(x, x[i].id) = x[i]
<1>1. \A k \in DOMAIN x : x[k].id = x[i].id => k = i
  BY DEF IsList
<1>2. (CHOOSE k \in DOMAIN x : x[k].id = x[i].id) = i
  BY <1>1
<1> QED
  BY <1>2 DEF ItemOf

Squares(x, f) == [id \in NamesAt(x, Feasibles(x)) |-> ItemOf(x, id)[f] * ItemOf(x, id)[f]]

LEMMA SquareSumFacts ==
    ASSUME NEW F, NEW x, IsList(x, F), NEW f \in F
    PROVE  /\ SquareSum(x, f) = Total(NamesAt(x, Feasibles(x)), Squares(x, f))
           /\ SquareSum(x, f) \in Nat
           /\ \A i \in Feasibles(x) : x[i][f] # 0 => SquareSum(x, f) > 0
<1>1. PICK N : N = NamesAt(x, Feasibles(x))
  OBVIOUS
<1>2. PICK g : g = Squares(x, f)
  OBVIOUS
<1>3. DOMAIN g = N
  BY <1>1, <1>2 DEF Squares
<1>4. SquareSum(x, f) = Total(N, g)
  <2>1. SquareSum(x, f) = MapThenSumSet(LAMBDA id : Squares(x, f)[id], DOMAIN Squares(x, f))
    BY DEF SquareSum, Squares
  <2>2. SquareSum(x, f) = Total(DOMAIN Squares(x, f), Squares(x, f))
    BY <2>1, SumIsTotal
  <2> QED
    BY <1>2, <1>3, <2>2
<1>5. ASSUME NEW i \in Feasibles(x)
      PROVE  x[i].id \in N /\ g[x[i].id] = x[i][f] * x[i][f] /\ x[i][f] \in Int
  <2>1. x[i].id \in N
    BY <1>1 DEF NamesAt
  <2>2. ItemOf(x, x[i].id) = x[i]
    BY ItemOfId, FeasiblesFinite
  <2>3. x[i][f] \in Int
    BY DEF IsList
  <2> QED
    BY <1>1, <1>2, <2>1, <2>2, <2>3 DEF Squares
<1>6. \A v \in Int : v * v \in Nat /\ (v # 0 => v * v > 0)
  <2> SUFFICES ASSUME NEW v \in Int PROVE v * v \in Nat /\ (v # 0 => v * v > 0)
    OBVIOUS
  <2>1. CASE v >= 0
    BY <2>1
  <2>2. CASE v < 0
    <3>1. PICK u \in Nat : u = 0 - v /\ u > 0
      BY <2>2
    <3>2. v * v = u * u
      BY <3>1
    <3> QED
      BY <3>1, <3>2
  <2> QED
    BY <2>1, <2>2
<1>7. ASSUME NEW id \in N PROVE g[id] \in Int /\ g[id] >= 0
  <2>1. PICK i \in Feasibles(x) : id = x[i].id
    BY <1>1, <1>7 DEF NamesAt
  <2> QED
    BY <1>5, <1>6, <2>1
<1>8. IsFiniteSet(N)
  BY <1>1, FeasiblesFinite
<1>9. Total(N, g) \in Int /\ Total(N, g) >= 0 /\ \A id \in N : Total(N, g) >= g[id]
  BY <1>7, <1>8, TotalType
<1>10. ASSUME NEW i \in Feasibles(x), x[i][f] # 0 PROVE Total(N, g) > 0
  <2>1. g[x[i].id] > 0 /\ g[x[i].id] \in Int /\ x[i].id \in N
    BY <1>5, <1>6, <1>7, <1>10
  <2> QED
    BY <1>9, <2>1
<1> QED
  BY <1>1, <1>2, <1>4, <1>9, <1>10

LEMMA SameSquareSum ==
    ASSUME NEW F, NEW x, NEW y, IsList(x, F), IsList(y, F), SameNodes(x, y), NEW f \in F
    PROVE  SquareSum(x, f) = SquareSum(y, f)
<1>1. PICK N : N = NamesAt(x, Feasibles(x)) /\ N = NamesAt(y, Feasibles(y))
  BY SameFacts
<1>2. ASSUME NEW id \in N PROVE ItemOf(x, id) = ItemOf(y, id)
  <2>1. PICK i \in Feasibles(x) : id = x[i].id
    BY <1>1, <1>2 DEF NamesAt
  <2>2. PICK k \in Feasibles(y) : y[k] = x[i]
    BY SameFacts
  <2>3. ItemOf(x, id) = x[i]
    BY <2>1, ItemOfId, FeasiblesFinite
  <2>4. ItemOf(y, id) = y[k]
    BY <2>1, <2>2, ItemOfId, FeasiblesFinite
  <2> QED
    BY <2>2, <2>3, <2>4
<1>3. Squares(x, f) = Squares(y, f)
  BY <1>1, <1>2 DEF Squares
<1> QED
  BY <1>1, <1>3, SquareSumFacts

(* What criterion f adds to the distance over a gap.                       *)
Part(x, w, f, gap) ==
    IF SquareSum(x, f) = 0 THEN 0
    ELSE WeightOf(w, f) * WeightOf(w, f) * gap * gap * Cofactor(x, f)

FromWorst(x, w, i) ==
    Part(x, w, "co2", x[i].co2 - Max(ValuesOf(x, "co2")))
    + Part(x, w, "runtime", x[i].runtime - Max(ValuesOf(x, "runtime")))
    + Part(x, w, "queue", x[i].queue - Max(ValuesOf(x, "queue")))

FromBest(x, w, i) ==
    Part(x, w, "co2", x[i].co2 - Min(ValuesOf(x, "co2")))
    + Part(x, w, "runtime", x[i].runtime - Min(ValuesOf(x, "runtime")))
    + Part(x, w, "queue", x[i].queue - Min(ValuesOf(x, "queue")))

LEMMA CloserIs ==
    ASSUME NEW x, NEW w, NEW i, NEW k
    PROVE  Closer(x, w, i, k) <=>
               FromWorst(x, w, i) * FromBest(x, w, k) > FromWorst(x, w, k) * FromBest(x, w, i)
BY Zenon DEF Closer, SquareDistance, FromWorst, FromBest, Part, ValuesOf

LEMMA SameCloser ==
    ASSUME NEW x, NEW y, IsList(x, Read("topsis")), IsList(y, Read("topsis")), SameNodes(x, y), NEW w,
           NEW i \in Feasibles(x), NEW k \in Feasibles(x), NEW i1 \in Feasibles(y), NEW k1 \in Feasibles(y),
           x[i] = y[i1], x[k] = y[k1]
    PROVE  Closer(x, w, i, k) <=> Closer(y, w, i1, k1)
<1>1. \A f \in {"co2", "runtime", "queue"} : SquareSum(x, f) = SquareSum(y, f)
  BY ReadOf, SameSquareSum
<1>2. \A f \in {"co2", "runtime", "queue"} : Cofactor(x, f) = Cofactor(y, f)
  BY <1>1 DEF Cofactor
<1>3. \A f \in {"co2", "runtime", "queue"} : \A g : Part(x, w, f, g) = Part(y, w, f, g)
  BY <1>1, <1>2, Zenon DEF Part
<1>4. \A f : ValuesOf(x, f) = ValuesOf(y, f)
  BY SameFacts
<1>5. /\ FromWorst(x, w, i) = FromWorst(y, w, i1) /\ FromBest(x, w, i) = FromBest(y, w, i1)
      /\ FromWorst(x, w, k) = FromWorst(y, w, k1) /\ FromBest(x, w, k) = FromBest(y, w, k1)
  <2>1. ASSUME NEW a \in Feasibles(x), NEW b \in Feasibles(y), x[a] = y[b]
        PROVE  FromWorst(x, w, a) = FromWorst(y, w, b) /\ FromBest(x, w, a) = FromBest(y, w, b)
    BY <1>3, <1>4, <2>1 DEF FromWorst, FromBest
  <2> QED
    BY <2>1
<1> QED
  BY <1>5, CloserIs

(* Every policy but eco-epsilon-constraint gives the same scores whatever  *)
(* the order of the nodes and whatever else is in the list.                *)
LEMMA SameScores ==
    ASSUME NEW kind \in Kinds, kind # "eco-epsilon-constraint", NEW x, NEW y,
           IsList(x, Read(kind)), IsList(y, Read(kind)), SameNodes(x, y), NEW w \in Configurations
    PROVE  Scores(kind, x, w) = Scores(kind, y, w)
<1>1. ASSUME NEW i \in Feasibles(x), NEW k \in Feasibles(y), x[i] = y[k]
      PROVE  Scores(kind, x, w)[x[i].id] = Scores(kind, y, w)[y[k].id]
  <2>1. \A f : Hat(x, f, i) = Hat(y, f, k)
    BY <1>1, SameHat
  <2>2. kind \in Weighing \/ kind \in Others
    BY KindCases
  <2>3. CASE kind \in Weighing
    <3>1. IsList(x, Read("eco-weighted-sum")) /\ IsList(y, Read("eco-weighted-sum"))
      BY <2>3, KindCases, ReadOf
    <3>2. Scores(kind, x, w) = WeightedScores(x, w) /\ Scores(kind, y, w) = WeightedScores(y, w)
      BY <2>3, ScoresOf
    <3>3. PICK rest : rest = Max({0, 100 - (w.alpha + w.beta + w.gamma)})
      OBVIOUS
    <3>4. PICK h1, h2, h3, h4, h5, h6 :
             /\ h1 = Hat(x, "co2", i) /\ h2 = Hat(x, "energy", i) /\ h3 = Hat(x, "runtime", i)
             /\ h4 = Hat(x, "queue", i) /\ h5 = Hat(x, "move", i) /\ h6 = Hat(x, "fit", i)
      OBVIOUS
    <3>5. WeightedScores(x, w)[x[i].id] =
             w.alpha * h1 + rest * h2 + w.beta * h3 + w.gamma * h4 + w.delta * h5
             + w.fit * (IF w.fit > 0 THEN Scale - h6 ELSE 0)
      BY <3>1, <3>3, <3>4, WeightedScore, Zenon
    <3>6. /\ h1 = Hat(y, "co2", k) /\ h2 = Hat(y, "energy", k) /\ h3 = Hat(y, "runtime", k)
          /\ h4 = Hat(y, "queue", k) /\ h5 = Hat(y, "move", k) /\ h6 = Hat(y, "fit", k)
      BY <2>1, <3>4
    <3>7. WeightedScores(y, w)[y[k].id] =
             w.alpha * h1 + rest * h2 + w.beta * h3 + w.gamma * h4 + w.delta * h5
             + w.fit * (IF w.fit > 0 THEN Scale - h6 ELSE 0)
      BY <3>1, <3>3, <3>6, WeightedScore, Zenon
    <3> QED
      BY <3>2, <3>5, <3>7
  <2>4. CASE kind = "keids"
    <3>1. Scores(kind, x, w) = KeidsScores(x, w) /\ Scores(kind, y, w) = KeidsScores(y, w)
      BY <2>4, ScoresOf
    <3>2. IsList(x, Read("keids")) /\ IsList(y, Read("keids"))
      BY <2>4
    <3>3. PICK h1, h2, h3, r, q :
             /\ h1 = Hat(x, "co2", i) /\ h2 = Hat(x, "runtime", i) /\ h3 = Hat(x, "queue", i)
             /\ r = x[i].runtime /\ q = x[i].queue
      OBVIOUS
    <3>4. KeidsScores(x, w)[x[i].id] = 100 * (w.alpha * h1 + w.beta * h2 + w.gamma * h3)
             + IF r > 0 THEN (5 * w.gamma * Scale * q) \div (r + 1) ELSE 0
      BY <3>2, <3>3, KeidsScore, Zenon
    <3>5. /\ h1 = Hat(y, "co2", k) /\ h2 = Hat(y, "runtime", k) /\ h3 = Hat(y, "queue", k)
          /\ r = y[k].runtime /\ q = y[k].queue
      BY <1>1, <2>1, <3>3
    <3>6. KeidsScores(y, w)[y[k].id] = 100 * (w.alpha * h1 + w.beta * h2 + w.gamma * h3)
             + IF r > 0 THEN (5 * w.gamma * Scale * q) \div (r + 1) ELSE 0
      BY <3>2, <3>5, KeidsScore, Zenon
    <3> QED
      BY <3>1, <3>4, <3>6
  <2>5. CASE kind = "topsis"
    <3>1. IsList(x, Read("topsis")) /\ IsList(y, Read("topsis"))
      BY <2>5
    <3>2. PICK S : S = NamesAt(x, {j \in Feasibles(x) : Closer(x, w, j, i)})
      OBVIOUS
    <3>3. PICK T : T = NamesAt(y, {j \in Feasibles(y) : Closer(y, w, j, k)})
      OBVIOUS
    <3>4. \A id : id \in S => id \in T
      <4> SUFFICES ASSUME NEW j \in Feasibles(x), Closer(x, w, j, i) PROVE x[j].id \in T
        BY <3>2 DEF NamesAt
      <4>1. PICK l \in Feasibles(y) : y[l] = x[j]
        BY SameFacts
      <4>2. Closer(y, w, l, k)
        BY <1>1, <3>1, <4>1, SameCloser
      <4> QED
        BY <3>3, <4>1, <4>2 DEF NamesAt
    <3>5. \A id : id \in T => id \in S
      <4> SUFFICES ASSUME NEW j \in Feasibles(y), Closer(y, w, j, k) PROVE y[j].id \in S
        BY <3>3 DEF NamesAt
      <4>1. PICK l \in Feasibles(x) : x[l] = y[j]
        BY SameFacts
      <4>2. Closer(x, w, l, i)
        BY <1>1, <3>1, <4>1, SameCloser
      <4> QED
        BY <3>2, <4>1, <4>2 DEF NamesAt
    <3>6. S = T
      BY <3>4, <3>5, Zenon
    <3>7. Scores(kind, x, w) = TopsisScores(x, w) /\ Scores(kind, y, w) = TopsisScores(y, w)
      BY <2>5, ScoresOf
    <3>8. TopsisScores(x, w)[x[i].id] = Cardinality(S) /\ TopsisScores(y, w)[y[k].id] = Cardinality(T)
      BY <3>1, <3>2, <3>3, TopsisScore, Zenon
    <3> QED
      BY <3>6, <3>7, <3>8
  <2>6. CASE kind = "carbonscaler"
    <3>1. Scores(kind, x, w) = ScalerScores(x, w) /\ Scores(kind, y, w) = ScalerScores(y, w)
      BY <2>6, ScoresOf
    <3>2. IsList(x, Read("carbonscaler")) /\ IsList(y, Read("carbonscaler"))
      BY <2>6
    <3>3. ValuesOf(x, "queue") = ValuesOf(y, "queue")
      BY <3>2, SameFacts
    <3>4. Longest(x) = Longest(y)
      BY <3>3, Zenon DEF Longest
    <3>5. PICK h, q, l : h = Hat(x, "co2", i) /\ q = x[i].queue /\ l = Longest(x)
      OBVIOUS
    <3>6. ScalerScores(x, w)[x[i].id] = Clamp(w.lambda, 0, 100) * h
             + (100 - Clamp(w.lambda, 0, 100)) * (IF l > 0 THEN (Scale * q) \div l ELSE 0)
      BY <3>2, <3>5, ScalerScore, Zenon
    <3>7. h = Hat(y, "co2", k) /\ q = y[k].queue /\ l = Longest(y)
      BY <1>1, <2>1, <3>4, <3>5
    <3>8. ScalerScores(y, w)[y[k].id] = Clamp(w.lambda, 0, 100) * h
             + (100 - Clamp(w.lambda, 0, 100)) * (IF l > 0 THEN (Scale * q) \div l ELSE 0)
      BY <3>2, <3>7, ScalerScore, Zenon
    <3> QED
      BY <3>1, <3>6, <3>8
  <2>7. CASE kind = "k8s"
    <3>1. Scores(kind, x, w) = K8sScores(x) /\ Scores(kind, y, w) = K8sScores(y)
      BY <2>7, ScoresOf
    <3>2. IsList(x, Read("k8s")) /\ IsList(y, Read("k8s"))
      BY <2>7
    <3> QED
      BY <1>1, <3>1, <3>2, K8sScore
  <2> QED
    BY <2>2, <2>3, <2>4, <2>5, <2>6, <2>7 DEF Others
<1>2. PICK N : N = NamesAt(x, Feasibles(x)) /\ N = NamesAt(y, Feasibles(y))
  BY SameFacts
<1>3. PICK m, n : m = Scores(kind, x, w) /\ n = Scores(kind, y, w)
  OBVIOUS
<1>4. m = [id \in N |-> m[id]] /\ n = [id \in N |-> n[id]]
  BY <1>2, <1>3, ScoresFacts
<1>5. ASSUME NEW id \in N PROVE m[id] = n[id]
  <2>1. PICK i \in Feasibles(x) : id = x[i].id
    BY <1>2, <1>5 DEF NamesAt
  <2>2. PICK k \in Feasibles(y) : y[k] = x[i]
    BY SameFacts
  <2> QED
    BY <1>1, <1>3, <2>1, <2>2
<1> QED
  BY <1>3, <1>4, <1>5, Zenon

LEMMA SameSelected ==
    ASSUME NEW kind \in Kinds, kind # "eco-epsilon-constraint", NEW x, NEW y,
           IsList(x, Read(kind)), IsList(y, Read(kind)), SameNodes(x, y), NEW w \in Configurations
    PROVE  Selected(kind, x, w) = Selected(kind, y, w)
<1>1. Scores(kind, x, w) = Scores(kind, y, w)
  BY SameScores
<1>2. Feasibles(x) = {} <=> Feasibles(y) = {}
  BY SameFacts
<1> QED
  BY <1>1, <1>2, Zenon DEF Selected

-----------------------------------------------------------------------------
(* eco-epsilon-constraint                                                  *)

LEMMA RanksBeforeFacts ==
    ASSUME NEW x, IsList(x, Read("eco-epsilon-constraint"))
    PROVE  /\ \A i, k \in Feasibles(x) : i = k \/ RanksBefore(x, i, k) \/ RanksBefore(x, k, i)
           /\ \A i \in Feasibles(x) : ~RanksBefore(x, i, i)
           /\ \A i, k \in Feasibles(x) : RanksBefore(x, i, k) => ~RanksBefore(x, k, i)
           /\ \A i, k, l \in Feasibles(x) :
                 RanksBefore(x, i, k) /\ RanksBefore(x, k, l) => RanksBefore(x, i, l)
<1>1. \A i \in Feasibles(x) : x[i].co2 \in Int /\ x[i].runtime \in Int /\ x[i].queue \in Int /\ i \in Int
  <2>1. \A i \in Feasibles(x) : \A f \in {"co2", "runtime", "queue"} : x[i][f] \in Int
    BY ReadOf DEF IsList
  <2>2. \A i \in Feasibles(x) : i \in Int
    BY FeasiblesFinite
  <2> QED
    BY <2>1, <2>2
<1>2. \A i, k \in Feasibles(x) : i = k \/ RanksBefore(x, i, k) \/ RanksBefore(x, k, i)
  BY <1>1 DEF RanksBefore
<1>3. \A i \in Feasibles(x) : ~RanksBefore(x, i, i)
  BY <1>1 DEF RanksBefore
<1>4. \A i, k \in Feasibles(x) : RanksBefore(x, i, k) => ~RanksBefore(x, k, i)
  BY <1>1 DEF RanksBefore
<1>5. \A i, k, l \in Feasibles(x) :
          RanksBefore(x, i, k) /\ RanksBefore(x, k, l) => RanksBefore(x, i, l)
  BY <1>1 DEF RanksBefore
<1> QED
  BY <1>2, <1>3, <1>4, <1>5

(* Some candidate ranks before the others.                                 *)
LEMMA FirstRanked ==
    ASSUME NEW x, IsList(x, Read("eco-epsilon-constraint")), NEW C \in SUBSET Feasibles(x), C # {}
    PROVE  \E c \in C : \A k \in C \ {c} : RanksBefore(x, c, k)
<1>1. IsFiniteSet(C)
  BY FeasiblesFinite, FS_Subset
<1>2. PICK R : R = {ss \in C \X C : RanksBefore(x, ss[1], ss[2])}
  OBVIOUS
<1>3. \A i, k \in C : <<i, k>> \in R <=> RanksBefore(x, i, k)
  BY <1>2
<1>4. \E c \in C : \A k \in C : <<k, c>> \notin R
  <2>1. \A i \in C : <<i, i>> \notin R
    BY <1>3, RanksBeforeFacts
  <2>2. \A i, k, l \in C : <<i, k>> \in R /\ <<k, l>> \in R => <<i, l>> \in R
    BY <1>3, RanksBeforeFacts
  <2> QED
    BY <1>1, <2>1, <2>2, FiniteMinimal
<1> QED
  BY <1>3, <1>4, RanksBeforeFacts

LEMMA CandidatesExist ==
    ASSUME NEW x, NEW w, Feasibles(x) # {}
    PROVE  EpsilonCandidates(x, w) # {}
BY DEF EpsilonCandidates, BoundedItems

(* It is the one that is selected.                                         *)
LEMMA EpsilonSelected ==
    ASSUME NEW x, IsList(x, Read("eco-epsilon-constraint")), NEW w \in Configurations,
           Feasibles(x) # {}
    PROVE  \E c \in EpsilonCandidates(x, w) :
              /\ Selected("eco-epsilon-constraint", x, w) = x[c].id
              /\ \A k \in EpsilonCandidates(x, w) \ {c} : RanksBefore(x, c, k)
<1>1. PICK C \in SUBSET Feasibles(x) : C = EpsilonCandidates(x, w)
  BY CandidatesFeasible
<1>2. C # {}
  BY <1>1, CandidatesExist
<1>3. PICK c \in C : \A k \in C \ {c} : RanksBefore(x, c, k)
  BY <1>2, FirstRanked
<1>4. PICK kind \in Kinds : kind = "eco-epsilon-constraint"
  BY Zenon DEF Kinds
<1>5. PICK m : m = Scores(kind, x, w)
  OBVIOUS
<1>6. \A i \in Feasibles(x) :
         m[x[i].id] = IF i \in C THEN Cardinality({k \in C : RanksBefore(x, k, i)}) ELSE Cardinality(C) + 1
  BY <1>1, <1>4, <1>5, ScoresOf, EpsilonScore
<1>7. m[x[c].id] = 0
  <2>1. {k \in C : RanksBefore(x, k, c)} = {}
    BY <1>3, RanksBeforeFacts
  <2>2. Cardinality({}) = 0
    BY FS_EmptySet
  <2> QED
    BY <1>6, <2>1, <2>2
<1>8. ASSUME NEW i \in Feasibles(x), i # c PROVE m[x[i].id] \in Int /\ m[x[i].id] > 0
  <2>1. CASE i \in C
    <3>1. PICK B : B = {k \in C : RanksBefore(x, k, i)}
      OBVIOUS
    <3>2. c \in B
      BY <1>3, <1>8, <2>1, <3>1
    <3>3. IsFiniteSet(B) /\ Cardinality(B) \in Nat
      BY <1>1, <3>1, CandidatesFeasible
    <3>4. Cardinality(B) # 0
      BY <3>2, <3>3, FS_EmptySet
    <3> QED
      BY <1>6, <2>1, <3>1, <3>3, <3>4
  <2>2. CASE i \notin C
    <3>1. Cardinality(C) \in Nat
      BY <1>1, CandidatesFeasible
    <3>2. m[x[i].id] = Cardinality(C) + 1
      BY <1>6, <2>2, Zenon
    <3> QED
      BY <3>1, <3>2
  <2> QED
    BY <2>1, <2>2
<1>9. PICK d \in Feasibles(x) :
         /\ Selected(kind, x, w) = x[d].id
         /\ \A i \in Feasibles(x) : m[x[d].id] <= m[x[i].id]
  BY <1>4, <1>5, SelectedIsBest
<1>10. d = c
  BY <1>7, <1>8, <1>9
<1> QED
  BY <1>1, <1>3, <1>4, <1>9, <1>10

(* The candidates are the same nodes in lists of the same feasible nodes.  *)
LEMMA SameCandidates ==
    ASSUME NEW x, NEW y, IsList(x, Read("eco-epsilon-constraint")),
           IsList(y, Read("eco-epsilon-constraint")), SameNodes(x, y), NEW w,
           NEW i \in Feasibles(x), NEW k \in Feasibles(y), x[i] = y[k]
    PROVE  i \in EpsilonCandidates(x, w) <=> k \in EpsilonCandidates(y, w)
<1> DEFINE Alike(S, T) == \A a \in Feasibles(x), b \in Feasibles(y) : x[a] = y[b] => (a \in S <=> b \in T)
<1>1. \A a \in Feasibles(x) : \E b \in Feasibles(y) : y[b] = x[a]
  BY SameFacts
<1>2. \A b \in Feasibles(y) : \E a \in Feasibles(x) : x[a] = y[b]
  BY SameFacts
<1>3. ASSUME NEW S \in SUBSET Feasibles(x), NEW T \in SUBSET Feasibles(y), Alike(S, T)
      PROVE  /\ S = {} <=> T = {}
             /\ \A a \in S : \E b \in T : y[b] = x[a]
             /\ \A b \in T : \E a \in S : x[a] = y[b]
  <2>1. \A a \in S : \E b \in T : y[b] = x[a]
    BY <1>1, <1>3
  <2>2. \A b \in T : \E a \in S : x[a] = y[b]
    BY <1>2, <1>3
  <2> QED
    BY <2>1, <2>2
<1>4. PICK W \in SUBSET Feasibles(x) : W = WithinBounds(x, w)
  BY DEF WithinBounds
<1>5. PICK V \in SUBSET Feasibles(y) : V = WithinBounds(y, w)
  BY DEF WithinBounds
<1>6. Alike(W, V)
  BY <1>4, <1>5 DEF WithinBounds
<1>7. PICK S \in SUBSET Feasibles(x) : S = BoundedItems(x, w)
  BY CandidatesFeasible
<1>8. PICK T \in SUBSET Feasibles(y) : T = BoundedItems(y, w)
  BY CandidatesFeasible
<1>9. Alike(S, T)
  <2>1. W = {} <=> V = {}
    BY <1>3, <1>6
  <2> QED
    BY <1>4, <1>5, <1>6, <1>7, <1>8, <2>1 DEF BoundedItems
<1>10. PICK G \in SUBSET Feasibles(x) : G = Guarded(x, S)
  BY DEF Guarded
<1>11. PICK H \in SUBSET Feasibles(y) : H = Guarded(y, T)
  BY DEF Guarded
<1>12. Alike(G, H)
  <2>1. PICK m : m = [f \in {"co2", "energy"} |-> Min({x[a][f] : a \in S})]
    OBVIOUS
  <2>2. m = [f \in {"co2", "energy"} |-> Min({y[b][f] : b \in T})]
    <3>1. \A a \in S : \E b \in T : y[b] = x[a]
      BY <1>3, <1>9
    <3>2. \A b \in T : \E a \in S : x[a] = y[b]
      BY <1>3, <1>9
    <3>3. \A f : {x[a][f] : a \in S} = {y[b][f] : b \in T}
      BY <3>1, <3>2
    <3> QED
      BY <2>1, <3>3, Zenon
  <2>3. \A a \in Feasibles(x) : a \in G <=> a \in S /\ \A f \in {"co2", "energy"} : 100 * x[a][f] <= 115 * m[f]
    BY <1>10, <2>1 DEF Guarded
  <2>4. \A b \in Feasibles(y) : b \in H <=> b \in T /\ \A f \in {"co2", "energy"} : 100 * y[b][f] <= 115 * m[f]
    BY <1>11, <2>2 DEF Guarded
  <2> QED
    BY <1>9, <2>3, <2>4
<1>13. G = {} <=> H = {}
  BY <1>3, <1>12
<1>14. EpsilonCandidates(x, w) = IF G = {} THEN S ELSE G
  BY <1>7, <1>10, Zenon DEF EpsilonCandidates
<1>15. EpsilonCandidates(y, w) = IF H = {} THEN T ELSE H
  BY <1>8, <1>11, Zenon DEF EpsilonCandidates
<1> QED
  BY <1>9, <1>12, <1>13, <1>14, <1>15

-----------------------------------------------------------------------------
(* The feasible nodes alone, and the nodes in another order                *)

LEMMA FeasibleList ==
    ASSUME NEW F, NEW x, IsList(x, F), NEW y, y = AtPositions(x, Feasibles(x))
    PROVE  /\ IsList(y, F) /\ SameNodes(x, y) /\ Feasibles(y) = DOMAIN y
           /\ \A i \in Feasibles(x) : Idx(x, i) \in DOMAIN y /\ y[Idx(x, i)] = x[i]
           /\ \A i, k \in Feasibles(x) : i < k <=> Idx(x, i) < Idx(x, k)
           /\ \A r \in DOMAIN y : \E i \in Feasibles(x) : Idx(x, i) = r
<1>1. PICK n \in Nat : DOMAIN x = 1..n
  BY DEF IsList
<1>2. PICK S \in SUBSET (1..n) : S = Feasibles(x)
  BY <1>1 DEF Feasibles
<1>3. PICK c \in Nat : c = Cardinality(S)
  BY FilteredFacts
<1>4. DOMAIN y = 1..c
  BY <1>2, <1>3, FilteredFacts
<1>5. \A i \in S : Idx(x, i) \in DOMAIN y /\ y[Idx(x, i)] = x[i]
  BY <1>2, <1>3, <1>4, FilteredFacts DEF Idx
<1>6. \A r \in DOMAIN y : \E i \in S : Idx(x, i) = r
  BY <1>2, <1>3, <1>4, RankFacts DEF Idx
<1>7. \A i, k \in S : i < k <=> Idx(x, i) < Idx(x, k)
  BY <1>2, RankFacts DEF Idx
<1>8. \A r \in DOMAIN y : y[r].id \in Int /\ y[r].feasible \in BOOLEAN /\ y[r].feasible
  BY <1>2, <1>5, <1>6 DEF IsList, Feasibles
<1>9. ASSUME NEW r \in DOMAIN y, NEW s \in DOMAIN y, y[r].id = y[s].id PROVE r = s
  <2>1. PICK i \in S, k \in S : Idx(x, i) = r /\ Idx(x, k) = s
    BY <1>6
  <2>2. x[i].id = x[k].id
    BY <1>5, <1>9, <2>1
  <2>3. i = k
    BY <1>1, <2>2 DEF IsList
  <2> QED
    BY <2>1, <2>3
<1>10. Feasibles(y) = DOMAIN y
  BY <1>8 DEF Feasibles
<1>11. \A r \in DOMAIN y, f \in F : y[r][f] \in Int
  BY <1>2, <1>5, <1>6 DEF IsList
<1>12. IsList(y, F)
  <2>1. \E m \in Nat : DOMAIN y = 1..m
    BY <1>4, Zenon
  <2> QED
    BY <1>8, <1>9, <1>10, <1>11, <2>1 DEF IsList
<1>13. SameNodes(x, y)
  <2>1. \A i \in Feasibles(x) : \E r \in Feasibles(y) : y[r] = x[i]
    BY <1>2, <1>5, <1>10
  <2>2. \A r \in Feasibles(y) : \E i \in Feasibles(x) : y[r] = x[i]
    BY <1>2, <1>5, <1>6, <1>10
  <2> QED
    BY <2>1, <2>2 DEF SameNodes
<1> QED
  BY <1>2, <1>5, <1>6, <1>7, <1>10, <1>12, <1>13

LEMMA ReorderedList ==
    ASSUME NEW F, NEW x, IsList(x, F), NEW p \in [DOMAIN x -> DOMAIN x],
           \A i, k \in DOMAIN x : p[i] = p[k] => i = k,
           NEW y, y = [i \in DOMAIN x |-> x[p[i]]]
    PROVE  /\ IsList(y, F) /\ SameNodes(x, y)
           /\ \A i \in Feasibles(x) : \E k \in Feasibles(y) : p[k] = i
           /\ \A k \in Feasibles(y) : p[k] \in Feasibles(x) /\ y[k] = x[p[k]]
<1>1. PICK n \in Nat : DOMAIN x = 1..n
  BY DEF IsList
<1>2. PICK D : D = DOMAIN x
  OBVIOUS
<1>3. \A i \in D : \E k \in D : p[k] = i
  <2>1. IsFiniteSet(D)
    BY <1>1, <1>2, FS_Interval
  <2>2. p \in Injection(D, D)
    BY <1>2 DEF Injection, IsInjective
  <2>3. p \in Surjection(D, D)
    BY <2>1, <2>2, FS_Injection
  <2> QED
    BY <2>3 DEF Surjection
<1>4. DOMAIN y = D /\ \A k \in D : p[k] \in D /\ y[k] = x[p[k]]
  BY <1>2
<1>5. \A k \in Feasibles(y) : k \in D /\ p[k] \in Feasibles(x) /\ y[k] = x[p[k]]
  BY <1>2, <1>4 DEF Feasibles
<1>6. \A i \in Feasibles(x) : \E k \in Feasibles(y) : p[k] = i
  BY <1>2, <1>3, <1>4 DEF Feasibles
<1>7. IsList(y, F)
  <2>1. \E m \in Nat : DOMAIN y = 1..m
    BY <1>1, <1>2, <1>4
  <2>2. \A k \in DOMAIN y : y[k].id \in Int /\ y[k].feasible \in BOOLEAN
    BY <1>2, <1>4 DEF IsList
  <2>3. \A k, l \in DOMAIN y : y[k].id = y[l].id => k = l
    BY <1>2, <1>4 DEF IsList
  <2>4. \A k \in Feasibles(y), f \in F : y[k][f] \in Int
    BY <1>5 DEF IsList
  <2> QED
    BY <2>1, <2>2, <2>3, <2>4 DEF IsList
<1>8. SameNodes(x, y)
  <2>1. ASSUME NEW i \in Feasibles(x) PROVE \E k \in Feasibles(y) : y[k] = x[i]
    <3>1. PICK k \in Feasibles(y) : p[k] = i
      BY <1>6
    <3>2. y[k] = x[p[k]]
      BY <1>5
    <3> QED
      BY <3>1, <3>2
  <2>2. \A k \in Feasibles(y) : \E i \in Feasibles(x) : y[k] = x[i]
    BY <1>5
  <2> QED
    BY <2>1, <2>2 DEF SameNodes
<1> QED
  BY <1>5, <1>6, <1>7, <1>8

-----------------------------------------------------------------------------
(* Better nodes score lower                                                *)

LEMMA Products ==
    ASSUME NEW w \in Nat, NEW a \in Int, NEW b \in Int
    PROVE  /\ w * a \in Int /\ w * b \in Int
           /\ a <= b => w * a <= w * b
           /\ a < b /\ w > 0 => w * a < w * b
OBVIOUS

LEMMA SquareOrder ==
    ASSUME NEW a \in Int, NEW b \in Int
    PROVE  /\ a * a \in Nat
           /\ 0 <= a /\ a <= b => a * a <= b * b
           /\ 0 <= a /\ a < b => a * a < b * b
           /\ a <= 0 /\ b <= a => a * a <= b * b
           /\ a <= 0 /\ b < a => a * a < b * b
<1>1. ASSUME NEW p \in Nat, NEW q \in Nat
      PROVE  p * p \in Nat /\ (p <= q => p * p <= q * q) /\ (p < q => p * p < q * q)
  <2>1. p * p \in Nat /\ p * q \in Nat /\ q * q \in Nat
    OBVIOUS
  <2>2. p <= q => p * p <= p * q /\ q * p <= q * q
    OBVIOUS
  <2>3. p < q => p * q < q * q
    <3>1. q > 0 /\ p < q => q * p < q * q
      BY Products
    <3> QED
      BY <3>1
  <2> QED
    BY <2>1, <2>2, <2>3
<1>2. CASE a >= 0
  <2>1. a \in Nat /\ (a <= b => b \in Nat)
    BY <1>2
  <2>2. a <= 0 => a = 0
    BY <1>2
  <2>3. b < 0 => b * b > 0 /\ b * b \in Nat
    <3> SUFFICES ASSUME b < 0 PROVE b * b > 0 /\ b * b \in Nat
      OBVIOUS
    <3>1. PICK q \in Nat : q = 0 - b /\ q > 0
      OBVIOUS
    <3>2. b * b = q * q
      BY <3>1
    <3>3. 0 * 0 < q * q /\ q * q \in Nat
      BY <1>1, <3>1
    <3> QED
      BY <3>2, <3>3
  <2>4. 0 * 0 = 0
    OBVIOUS
  <2> QED
    BY <1>1, <1>2, <2>1, <2>2, <2>3, <2>4
<1>3. CASE a < 0
  <2>1. PICK p \in Nat : p = 0 - a /\ a * a = p * p
    <3>1. 0 - a \in Nat /\ a * a = (0 - a) * (0 - a)
      BY <1>3
    <3> QED
      BY <3>1
  <2>2. b <= a => \E q \in Nat : q = 0 - b /\ b * b = q * q /\ p <= q
    <3> SUFFICES ASSUME b <= a PROVE \E q \in Nat : q = 0 - b /\ b * b = q * q /\ p <= q
      OBVIOUS
    <3>1. 0 - b \in Nat /\ b * b = (0 - b) * (0 - b) /\ p <= 0 - b
      BY <1>3, <2>1
    <3> QED
      BY <3>1
  <2> QED
    BY <1>1, <1>3, <2>1, <2>2
<1> QED
  BY <1>2, <1>3

LEMMA HatOrder ==
    ASSUME NEW F, NEW x, IsList(x, F), NEW f \in F, NEW i \in Feasibles(x), NEW k \in Feasibles(x)
    PROVE  /\ Hat(x, f, i) \in Int /\ Hat(x, f, k) \in Int
           /\ x[i][f] <= x[k][f] => Hat(x, f, i) <= Hat(x, f, k)
           /\ x[i][f] < x[k][f] /\ ValuesOf(x, f) \subseteq 0..Scale => Hat(x, f, i) < Hat(x, f, k)
<1>1. ValuesOf(x, f) \in SUBSET Int /\ IsFiniteSet(ValuesOf(x, f))
      /\ x[i][f] \in ValuesOf(x, f) /\ x[k][f] \in ValuesOf(x, f)
  BY HatInt
<1>2. Hat(x, f, i) = Scaled(ValuesOf(x, f), x[i][f]) /\ Hat(x, f, k) = Scaled(ValuesOf(x, f), x[k][f])
  BY HatIsScaled
<1> QED
  BY <1>1, <1>2, ScaledFacts

LEMMA WeightedLower ==
    ASSUME NEW x, IsList(x, Read("eco-weighted-sum")), NEW w \in Configurations,
           NEW i \in Feasibles(x), NEW k \in Feasibles(x),
           \A f \in Read("eco-weighted-sum") : ValuesOf(x, f) \subseteq 0..Scale,
           \A f \in {"co2", "energy", "runtime", "queue", "move"} : x[i][f] <= x[k][f],
           x[i].fit >= x[k].fit,
           \/ w.alpha > 0 /\ x[i].co2 < x[k].co2
           \/ w.alpha + w.beta + w.gamma < 100 /\ x[i].energy < x[k].energy
           \/ w.beta > 0 /\ x[i].runtime < x[k].runtime
           \/ w.gamma > 0 /\ x[i].queue < x[k].queue
           \/ w.delta > 0 /\ x[i].move < x[k].move
           \/ w.fit > 0 /\ x[i].fit > x[k].fit
    PROVE  WeightedScores(x, w)[x[i].id] < WeightedScores(x, w)[x[k].id]
<1>1. /\ w.alpha \in Nat /\ w.beta \in Nat /\ w.gamma \in Nat /\ w.delta \in Nat /\ w.fit \in Nat
      /\ Scale \in Int
  BY ScaleAssumption DEF Configurations
<1>2. PICK rest \in Nat : /\ rest = Max({0, 100 - (w.alpha + w.beta + w.gamma)})
                          /\ w.alpha + w.beta + w.gamma < 100 => rest > 0
  BY RestOfWeights
<1>3. \A f \in {"co2", "energy", "runtime", "queue", "move"} :
         /\ Hat(x, f, i) \in Int /\ Hat(x, f, k) \in Int /\ Hat(x, f, i) <= Hat(x, f, k)
         /\ x[i][f] < x[k][f] => Hat(x, f, i) < Hat(x, f, k)
  <2> SUFFICES ASSUME NEW f \in {"co2", "energy", "runtime", "queue", "move"}
               PROVE  /\ Hat(x, f, i) \in Int /\ Hat(x, f, k) \in Int /\ Hat(x, f, i) <= Hat(x, f, k)
                      /\ x[i][f] < x[k][f] => Hat(x, f, i) < Hat(x, f, k)
    OBVIOUS
  <2>1. f \in Read("eco-weighted-sum")
    BY ReadOf, KindCases
  <2> QED
    BY <2>1, HatOrder
<1>4. /\ Hat(x, "fit", i) \in Int /\ Hat(x, "fit", k) \in Int /\ Hat(x, "fit", i) >= Hat(x, "fit", k)
      /\ x[i].fit > x[k].fit => Hat(x, "fit", i) > Hat(x, "fit", k)
  <2>1. "fit" \in Read("eco-weighted-sum")
    BY ReadOf, KindCases
  <2> QED
    BY <2>1, HatOrder
<1>5. PICK a1, a2, a3, a4, a5, a6 :
         /\ a1 = Hat(x, "co2", i) /\ a2 = Hat(x, "energy", i) /\ a3 = Hat(x, "runtime", i)
         /\ a4 = Hat(x, "queue", i) /\ a5 = Hat(x, "move", i)
         /\ a6 = IF w.fit > 0 THEN Scale - Hat(x, "fit", i) ELSE 0
  OBVIOUS
<1>6. PICK b1, b2, b3, b4, b5, b6 :
         /\ b1 = Hat(x, "co2", k) /\ b2 = Hat(x, "energy", k) /\ b3 = Hat(x, "runtime", k)
         /\ b4 = Hat(x, "queue", k) /\ b5 = Hat(x, "move", k)
         /\ b6 = IF w.fit > 0 THEN Scale - Hat(x, "fit", k) ELSE 0
  OBVIOUS
<1>i. a1 \in Int /\ a2 \in Int /\ a3 \in Int /\ a4 \in Int /\ a5 \in Int /\ a6 \in Int
  BY <1>1, <1>3, <1>4, <1>5
<1>k. b1 \in Int /\ b2 \in Int /\ b3 \in Int /\ b4 \in Int /\ b5 \in Int /\ b6 \in Int
  BY <1>1, <1>3, <1>4, <1>6
<1>7. /\ a1 <= b1 /\ a2 <= b2 /\ a3 <= b3 /\ a4 <= b4 /\ a5 <= b5 /\ a6 <= b6
      /\ \/ w.alpha > 0 /\ a1 < b1
         \/ rest > 0 /\ a2 < b2
         \/ w.beta > 0 /\ a3 < b3
         \/ w.gamma > 0 /\ a4 < b4
         \/ w.delta > 0 /\ a5 < b5
         \/ w.fit > 0 /\ a6 < b6
  <2>1. a1 <= b1 /\ a2 <= b2 /\ a3 <= b3 /\ a4 <= b4 /\ a5 <= b5
    BY <1>3, <1>5, <1>6
  <2>2. a6 <= b6
    BY <1>1, <1>4, <1>5, <1>6
  <2>3. x[i].fit > x[k].fit /\ w.fit > 0 => a6 < b6
    BY <1>1, <1>4, <1>5, <1>6
  <2>4. \/ w.alpha > 0 /\ a1 < b1
        \/ rest > 0 /\ a2 < b2
        \/ w.beta > 0 /\ a3 < b3
        \/ w.gamma > 0 /\ a4 < b4
        \/ w.delta > 0 /\ a5 < b5
        \/ w.fit > 0 /\ a6 < b6
    BY <1>2, <1>3, <1>5, <1>6, <2>3
  <2> QED
    BY <2>1, <2>2, <2>4
<1>8. /\ WeightedScores(x, w)[x[i].id] = w.alpha * a1 + rest * a2 + w.beta * a3 + w.gamma * a4
                                         + w.delta * a5 + w.fit * a6
      /\ WeightedScores(x, w)[x[k].id] = w.alpha * b1 + rest * b2 + w.beta * b3 + w.gamma * b4
                                         + w.delta * b5 + w.fit * b6
  BY <1>2, <1>5, <1>6, WeightedScore, Zenon
<1>9. PICK s1, s2, s3, s4, s5, s6 :
         /\ s1 = w.alpha * a1 /\ s2 = rest * a2 /\ s3 = w.beta * a3 /\ s4 = w.gamma * a4
         /\ s5 = w.delta * a5 /\ s6 = w.fit * a6
  OBVIOUS
<1>10. PICK t1, t2, t3, t4, t5, t6 :
         /\ t1 = w.alpha * b1 /\ t2 = rest * b2 /\ t3 = w.beta * b3 /\ t4 = w.gamma * b4
         /\ t5 = w.delta * b5 /\ t6 = w.fit * b6
  OBVIOUS
<1>11. /\ s1 \in Int /\ t1 \in Int /\ s1 <= t1 /\ (w.alpha > 0 /\ a1 < b1 => s1 < t1)
       /\ s2 \in Int /\ t2 \in Int /\ s2 <= t2 /\ (rest > 0 /\ a2 < b2 => s2 < t2)
       /\ s3 \in Int /\ t3 \in Int /\ s3 <= t3 /\ (w.beta > 0 /\ a3 < b3 => s3 < t3)
       /\ s4 \in Int /\ t4 \in Int /\ s4 <= t4 /\ (w.gamma > 0 /\ a4 < b4 => s4 < t4)
       /\ s5 \in Int /\ t5 \in Int /\ s5 <= t5 /\ (w.delta > 0 /\ a5 < b5 => s5 < t5)
       /\ s6 \in Int /\ t6 \in Int /\ s6 <= t6 /\ (w.fit > 0 /\ a6 < b6 => s6 < t6)
  BY <1>1, <1>2, <1>i, <1>k, <1>7, <1>9, <1>10, Products
<1>12. s1 < t1 \/ s2 < t2 \/ s3 < t3 \/ s4 < t4 \/ s5 < t5 \/ s6 < t6
  BY <1>7, <1>11
<1>13. s1 + s2 + s3 + s4 + s5 + s6 < t1 + t2 + t3 + t4 + t5 + t6
  BY <1>11, <1>12
<1> QED
  BY <1>8, <1>9, <1>10, <1>13, Zenon

LEMMA KeidsLower ==
    ASSUME NEW x, IsList(x, Read("keids")), NEW w \in Configurations,
           NEW i \in Feasibles(x), NEW k \in Feasibles(x),
           \A f \in Read("keids") : ValuesOf(x, f) \subseteq 0..Scale,
           x[i].co2 <= x[k].co2, x[i].runtime = x[k].runtime, x[i].queue <= x[k].queue,
           \/ w.alpha > 0 /\ x[i].co2 < x[k].co2
           \/ w.gamma > 0 /\ x[i].queue < x[k].queue
    PROVE  KeidsScores(x, w)[x[i].id] < KeidsScores(x, w)[x[k].id]
<1>1. w.alpha \in Nat /\ w.beta \in Nat /\ w.gamma \in Nat /\ Scale \in Nat
  BY ScaleAssumption DEF Configurations
<1>2. \A f \in {"co2", "runtime", "queue"} :
         /\ x[i][f] \in Int /\ x[k][f] \in Int
         /\ Hat(x, f, i) \in Int /\ Hat(x, f, k) \in Int
         /\ x[i][f] <= x[k][f] => Hat(x, f, i) <= Hat(x, f, k)
         /\ x[i][f] < x[k][f] => Hat(x, f, i) < Hat(x, f, k)
  BY ReadOf, HatOrder DEF IsList
<1>3. PICK a1, a2, a3, b1, b2, b3 :
         /\ a1 = Hat(x, "co2", i) /\ a2 = Hat(x, "runtime", i) /\ a3 = Hat(x, "queue", i)
         /\ b1 = Hat(x, "co2", k) /\ b2 = Hat(x, "runtime", k) /\ b3 = Hat(x, "queue", k)
  OBVIOUS
<1>4. /\ a1 \in Int /\ b1 \in Int /\ a1 <= b1 /\ (x[i].co2 < x[k].co2 => a1 < b1)
      /\ a2 \in Int /\ b2 \in Int /\ a2 <= b2
      /\ a3 \in Int /\ b3 \in Int /\ a3 <= b3 /\ (x[i].queue < x[k].queue => a3 < b3)
  BY <1>2, <1>3
<1>5. PICK r \in Int : r = x[i].runtime /\ r = x[k].runtime
  BY <1>2
<1>6. PICK p \in Int, q \in Int : p = 5 * w.gamma * Scale * x[i].queue /\ q = 5 * w.gamma * Scale * x[k].queue
  BY <1>1, <1>2
<1>7. p <= q
  <2>1. PICK c \in Nat : c = 5 * w.gamma * Scale
    BY <1>1
  <2>2. PICK u \in Int, v \in Int : u = x[i].queue /\ v = x[k].queue /\ u <= v
    BY <1>2
  <2>3. p = c * u /\ q = c * v
    BY <1>6, <2>1, <2>2
  <2> QED
    BY <2>1, <2>2, <2>3, Products
<1>d. PICK d : d = IF x[i].runtime > 0
                   THEN (5 * w.gamma * Scale * x[i].queue) \div (x[i].runtime + 1) ELSE 0
  OBVIOUS
<1>e. PICK e : e = IF x[k].runtime > 0
                   THEN (5 * w.gamma * Scale * x[k].queue) \div (x[k].runtime + 1) ELSE 0
  OBVIOUS
<1>8. /\ d = IF r > 0 THEN p \div (r + 1) ELSE 0
      /\ e = IF r > 0 THEN q \div (r + 1) ELSE 0
  BY <1>5, <1>6, <1>d, <1>e, Zenon
<1>9. d \in Int /\ e \in Int /\ d <= e
  <2>1. CASE r > 0
    <3>1. PICK s \in Nat \ {0} : s = r + 1
      BY <1>5, <2>1
    <3> QED
      BY <1>6, <1>7, <1>8, <2>1, <3>1, DivFacts
  <2>2. CASE ~(r > 0)
    BY <1>8, <2>2
  <2> QED
    BY <2>1, <2>2
<1>10. KeidsScores(x, w)[x[i].id] = 100 * (w.alpha * a1 + w.beta * a2 + w.gamma * a3) + d
  BY <1>3, <1>d, KeidsScore, Zenon
<1>11. KeidsScores(x, w)[x[k].id] = 100 * (w.alpha * b1 + w.beta * b2 + w.gamma * b3) + e
  BY <1>3, <1>e, KeidsScore, Zenon
<1>12. PICK s1, s2, s3, t1, t2, t3 :
          /\ s1 = w.alpha * a1 /\ s2 = w.beta * a2 /\ s3 = w.gamma * a3
          /\ t1 = w.alpha * b1 /\ t2 = w.beta * b2 /\ t3 = w.gamma * b3
  OBVIOUS
<1>13. /\ s1 \in Int /\ t1 \in Int /\ s1 <= t1 /\ (w.alpha > 0 /\ a1 < b1 => s1 < t1)
       /\ s2 \in Int /\ t2 \in Int /\ s2 <= t2
       /\ s3 \in Int /\ t3 \in Int /\ s3 <= t3 /\ (w.gamma > 0 /\ a3 < b3 => s3 < t3)
  BY <1>1, <1>4, <1>12, Products
<1>14. s1 < t1 \/ s3 < t3
  BY <1>4, <1>13
<1>15. 100 * (s1 + s2 + s3) + d < 100 * (t1 + t2 + t3) + e
  BY <1>9, <1>13, <1>14
<1> QED
  BY <1>10, <1>11, <1>12, <1>15, Zenon

LEMMA ScalerLower ==
    ASSUME NEW x, IsList(x, Read("carbonscaler")), NEW w \in Configurations,
           NEW i \in Feasibles(x), NEW k \in Feasibles(x),
           \A f \in Read("carbonscaler") : ValuesOf(x, f) \subseteq 0..Scale,
           x[i].co2 <= x[k].co2, x[i].queue <= x[k].queue,
           \/ w.lambda > 0 /\ x[i].co2 < x[k].co2
           \/ w.lambda < 100 /\ x[i].queue < x[k].queue
    PROVE  ScalerScores(x, w)[x[i].id] < ScalerScores(x, w)[x[k].id]
<1>1. w.lambda \in Int /\ Scale \in Nat
  BY ScaleAssumption DEF Configurations
<1>2. \A f \in {"co2", "queue"} : ValuesOf(x, f) \subseteq 0..Scale /\ x[i][f] \in ValuesOf(x, f)
  BY ReadOf DEF ValuesOf
<1>3. PICK a, b : a = Hat(x, "co2", i) /\ b = Hat(x, "co2", k)
  OBVIOUS
<1>4. a \in Int /\ b \in Int /\ a <= b /\ (x[i].co2 < x[k].co2 => a < b)
  BY <1>2, <1>3, ReadOf, HatOrder
<1>5. PICK l \in Nat : l = Clamp(w.lambda, 0, 100) /\ l <= 100 /\ (w.lambda > 0 => l > 0)
                       /\ (w.lambda < 100 => l < 100)
  BY <1>1 DEF Clamp
<1>6. PICK u \in Int, v \in Int : u = x[i].queue /\ v = x[k].queue /\ u <= v /\ u >= 0
  BY <1>1, <1>2, ReadOf DEF IsList
<1>7. PICK m \in Nat : m = Longest(x) /\ v <= m /\ m <= Scale
  BY <1>2, <1>6, ReadOf, LongestIs
<1>d. PICK d : d = IF Longest(x) > 0 THEN (Scale * x[i].queue) \div Longest(x) ELSE 0
  OBVIOUS
<1>e. PICK e : e = IF Longest(x) > 0 THEN (Scale * x[k].queue) \div Longest(x) ELSE 0
  OBVIOUS
<1>8. /\ d = IF m > 0 THEN (Scale * u) \div m ELSE 0
      /\ e = IF m > 0 THEN (Scale * v) \div m ELSE 0
  BY <1>6, <1>7, <1>d, <1>e, Zenon
<1>9. d \in Int /\ e \in Int /\ d <= e /\ (u < v => d < e)
  <2>1. CASE m > 0
    <3>1. PICK p \in Int, q \in Int : p = Scale * u /\ q = Scale * v
      BY <1>1
    <3>2. p <= q
      BY <1>1, <1>6, <3>1, Products
    <3>3. u < v => p + m <= q
      <4> SUFFICES ASSUME u < v PROVE p + m <= q
        OBVIOUS
      <4>1. PICK z \in Nat : v = u + 1 + z
        <5>1. v - u - 1 \in Nat /\ v = u + 1 + (v - u - 1)
          OBVIOUS
        <5> QED
          BY <5>1
      <4>2. Scale * (u + 1 + z) = Scale * u + Scale + Scale * z /\ Scale * z \in Nat
        BY <1>1
      <4>3. PICK y \in Nat : y = Scale * z
        BY <4>2
      <4> QED
        BY <1>1, <1>7, <3>1, <4>1, <4>2, <4>3
    <3> QED
      BY <1>7, <1>8, <2>1, <3>1, <3>2, <3>3, DivFacts
  <2>2. CASE ~(m > 0)
    BY <1>6, <1>7, <1>8, <2>2
  <2> QED
    BY <2>1, <2>2
<1>10. ScalerScores(x, w)[x[i].id] = l * a + (100 - l) * d
  BY <1>3, <1>5, <1>d, ScalerScore, Zenon
<1>11. ScalerScores(x, w)[x[k].id] = l * b + (100 - l) * e
  BY <1>3, <1>5, <1>e, ScalerScore, Zenon
<1>12. PICK h \in Nat : h = 100 - l
  BY <1>5
<1>13. /\ l * a \in Int /\ l * b \in Int /\ l * a <= l * b /\ (l > 0 /\ a < b => l * a < l * b)
       /\ h * d \in Int /\ h * e \in Int /\ h * d <= h * e /\ (h > 0 /\ d < e => h * d < h * e)
  BY <1>4, <1>5, <1>9, <1>12, Products
<1>14. PICK s1, t1, s2, t2 \in Int : s1 = l * a /\ t1 = l * b /\ s2 = h * d /\ t2 = h * e
  BY <1>13
<1>15. s1 <= t1 /\ s2 <= t2 /\ (s1 < t1 \/ s2 < t2)
  BY <1>4, <1>5, <1>6, <1>9, <1>12, <1>13, <1>14
<1>16. s1 + s2 < t1 + t2
  BY <1>15
<1> QED
  BY <1>10, <1>11, <1>12, <1>14, <1>16, Zenon

LEMMA CofactorPositive ==
    ASSUME NEW x, IsList(x, Read("topsis")), NEW f
    PROVE  Cofactor(x, f) \in Nat \ {0}
<1>1. ASSUME NEW g \in {"co2", "runtime", "queue"}
      PROVE  (IF g = f \/ SquareSum(x, g) = 0 THEN 1 ELSE SquareSum(x, g)) \in Nat \ {0}
  <2>1. SquareSum(x, g) \in Nat
    BY ReadOf, SquareSumFacts
  <2> QED
    BY <2>1
<1>2. \A a, b, c \in Nat \ {0} : a * b * c \in Nat \ {0}
  OBVIOUS
<1>3. PICK a, b, c \in Nat \ {0} :
         /\ a = IF "co2" = f \/ SquareSum(x, "co2") = 0 THEN 1 ELSE SquareSum(x, "co2")
         /\ b = IF "runtime" = f \/ SquareSum(x, "runtime") = 0 THEN 1 ELSE SquareSum(x, "runtime")
         /\ c = IF "queue" = f \/ SquareSum(x, "queue") = 0 THEN 1 ELSE SquareSum(x, "queue")
  BY <1>1
<1>4. Cofactor(x, f) = a * b * c
  BY <1>3, Zenon DEF Cofactor
<1> QED
  BY <1>2, <1>4

(* A criterion counts by the square of the gap.                            *)
LEMMA PartOrder ==
    ASSUME NEW x, IsList(x, Read("topsis")), NEW w \in Configurations,
           NEW f \in {"co2", "runtime", "queue"}, NEW g \in Int, NEW h \in Int
    PROVE  /\ Part(x, w, f, g) \in Nat
           /\ g * g <= h * h => Part(x, w, f, g) <= Part(x, w, f, h)
           /\ g * g < h * h /\ WeightOf(w, f) > 0 /\ SquareSum(x, f) > 0 =>
                 Part(x, w, f, g) < Part(x, w, f, h)
<1>1. PICK s \in Nat : s = SquareSum(x, f)
  BY ReadOf, SquareSumFacts
<1>2. PICK c \in Nat \ {0} : c = Cofactor(x, f)
  BY CofactorPositive
<1>3. PICK v \in Nat : v = WeightOf(w, f)
  BY DEF WeightOf, Configurations
<1>4. PICK m \in Nat : m = v * v * c /\ (v > 0 => m > 0)
  <2>1. v * v * c \in Nat
    BY <1>2, <1>3
  <2>2. \A a, b \in Nat \ {0} : a * a * b > 0
    OBVIOUS
  <2>3. v > 0 => v * v * c > 0
    BY <2>2
  <2> QED
    BY <2>1, <2>3
<1>5. PICK p \in Nat, q \in Nat : p = g * g /\ q = h * h
  BY SquareOrder
<1>6. /\ Part(x, w, f, g) = IF s = 0 THEN 0 ELSE v * v * g * g * c
      /\ Part(x, w, f, h) = IF s = 0 THEN 0 ELSE v * v * h * h * c
  BY <1>1, <1>2, <1>3, Zenon DEF Part
<1>7. v * v * g * g * c = m * p /\ v * v * h * h * c = m * q
  <2>1. v * v * g * g * c = (v * v * c) * (g * g) /\ v * v * h * h * c = (v * v * c) * (h * h)
    OBVIOUS
  <2> QED
    BY <1>4, <1>5, <2>1
<1>8. /\ m * p \in Int /\ m * q \in Int
      /\ p <= q => m * p <= m * q
      /\ p < q /\ m > 0 => m * p < m * q
  BY Products
<1>9. m * p \in Nat
  OBVIOUS
<1>10. PICK a \in Nat, b \in Int : a = m * p /\ b = m * q
  BY <1>8, <1>9
<1>11. (p <= q => a <= b) /\ (p < q /\ m > 0 => a < b)
  BY <1>8, <1>10
<1>12. /\ Part(x, w, f, g) = IF s = 0 THEN 0 ELSE a
       /\ Part(x, w, f, h) = IF s = 0 THEN 0 ELSE b
  BY <1>6, <1>7, <1>10, Zenon
<1> QED
  BY <1>1, <1>3, <1>4, <1>5, <1>11, <1>12

(* No worse in a criterion: no less far from the worst and no further from *)
(* the best.                                                               *)
LEMMA CriterionOrder ==
    ASSUME NEW x, IsList(x, Read("topsis")), NEW w \in Configurations,
           NEW f \in {"co2", "runtime", "queue"}, NEW i \in Feasibles(x), NEW k \in Feasibles(x),
           ValuesOf(x, f) \subseteq Nat, x[i][f] <= x[k][f]
    PROVE  LET worst == Max(ValuesOf(x, f))
               best == Min(ValuesOf(x, f))
           IN  /\ Part(x, w, f, x[i][f] - worst) \in Nat /\ Part(x, w, f, x[k][f] - worst) \in Nat
               /\ Part(x, w, f, x[i][f] - best) \in Nat /\ Part(x, w, f, x[k][f] - best) \in Nat
               /\ Part(x, w, f, x[k][f] - worst) <= Part(x, w, f, x[i][f] - worst)
               /\ Part(x, w, f, x[i][f] - best) <= Part(x, w, f, x[k][f] - best)
               /\ WeightOf(w, f) > 0 /\ x[i][f] < x[k][f] =>
                     /\ Part(x, w, f, x[k][f] - worst) < Part(x, w, f, x[i][f] - worst)
                     /\ Part(x, w, f, x[i][f] - best) < Part(x, w, f, x[k][f] - best)
<1>1. PICK V : V = ValuesOf(x, f)
  OBVIOUS
<1>2. V \in SUBSET Int /\ IsFiniteSet(V) /\ x[i][f] \in V /\ x[k][f] \in V /\ V \subseteq Nat
  BY <1>1, ReadOf, HatInt
<1>3. PICK a \in Nat, b \in Nat : a = x[i][f] /\ b = x[k][f] /\ a <= b
  BY <1>2
<1>4. PICK lo \in Int, hi \in Int : lo = Min(V) /\ hi = Max(V) /\ lo <= a /\ b <= hi
  BY <1>2, <1>3, MinFacts, MaxFacts
<1>5. a - hi \in Int /\ b - hi \in Int /\ a - lo \in Int /\ b - lo \in Int
  OBVIOUS
<1>6. /\ (b - hi) * (b - hi) <= (a - hi) * (a - hi)
      /\ a < b => (b - hi) * (b - hi) < (a - hi) * (a - hi)
  <2>1. b - hi <= 0 /\ a - hi <= b - hi /\ (a < b => a - hi < b - hi)
    BY <1>3, <1>4
  <2> QED
    BY <1>5, <2>1, SquareOrder
<1>7. /\ (a - lo) * (a - lo) <= (b - lo) * (b - lo)
      /\ a < b => (a - lo) * (a - lo) < (b - lo) * (b - lo)
  <2>1. 0 <= a - lo /\ a - lo <= b - lo /\ (a < b => a - lo < b - lo)
    BY <1>3, <1>4
  <2> QED
    BY <1>5, <2>1, SquareOrder
<1>8. a < b => SquareSum(x, f) > 0
  <2>1. a < b => x[k][f] # 0
    BY <1>3
  <2> QED
    BY <2>1, ReadOf, SquareSumFacts
<1>9. /\ Part(x, w, f, b - hi) \in Nat /\ Part(x, w, f, a - hi) \in Nat
      /\ Part(x, w, f, b - hi) <= Part(x, w, f, a - hi)
      /\ WeightOf(w, f) > 0 /\ a < b => Part(x, w, f, b - hi) < Part(x, w, f, a - hi)
  BY <1>5, <1>6, <1>8, PartOrder
<1>10. /\ Part(x, w, f, a - lo) \in Nat /\ Part(x, w, f, b - lo) \in Nat
       /\ Part(x, w, f, a - lo) <= Part(x, w, f, b - lo)
       /\ WeightOf(w, f) > 0 /\ a < b => Part(x, w, f, a - lo) < Part(x, w, f, b - lo)
  BY <1>5, <1>7, <1>8, PartOrder
<1> QED
  BY <1>1, <1>3, <1>4, <1>9, <1>10, Zenon

LEMMA DistanceTypes ==
    ASSUME NEW x, IsList(x, Read("topsis")), NEW w \in Configurations,
           \A f \in Read("topsis") : ValuesOf(x, f) \subseteq Nat, NEW i \in Feasibles(x)
    PROVE  FromWorst(x, w, i) \in Nat /\ FromBest(x, w, i) \in Nat
<1>1. ASSUME NEW f \in {"co2", "runtime", "queue"}
      PROVE  /\ Part(x, w, f, x[i][f] - Max(ValuesOf(x, f))) \in Nat
             /\ Part(x, w, f, x[i][f] - Min(ValuesOf(x, f))) \in Nat
  <2>1. ValuesOf(x, f) \subseteq Nat /\ x[i][f] \in Int
    BY ReadOf DEF IsList
  <2> QED
    BY <2>1, CriterionOrder
<1> QED
  BY <1>1 DEF FromWorst, FromBest

LEMMA CloserOrder ==
    ASSUME NEW x, IsList(x, Read("topsis")), NEW w \in Configurations,
           \A f \in Read("topsis") : ValuesOf(x, f) \subseteq Nat,
           NEW i \in Feasibles(x), NEW k \in Feasibles(x), Closer(x, w, i, k), NEW j \in Feasibles(x)
    PROVE  /\ ~Closer(x, w, i, i)
           /\ Closer(x, w, j, i) => Closer(x, w, j, k)
<1>1. PICK Wi, Bi, Wk, Bk, Wj, Bj \in Nat :
         /\ Wi = FromWorst(x, w, i) /\ Bi = FromBest(x, w, i)
         /\ Wk = FromWorst(x, w, k) /\ Bk = FromBest(x, w, k)
         /\ Wj = FromWorst(x, w, j) /\ Bj = FromBest(x, w, j)
  BY DistanceTypes
<1>2. Wi * Bk > Wk * Bi
  BY <1>1, CloserIs
<1>3. (Closer(x, w, i, i) <=> Wi * Bi > Wi * Bi) /\ (Closer(x, w, j, i) <=> Wj * Bi > Wi * Bj)
      /\ (Closer(x, w, j, k) <=> Wj * Bk > Wk * Bj)
  BY <1>1, CloserIs
<1>4. Wi * Bi \in Nat /\ ~(Wi * Bi > Wi * Bi)
  <2>1. PICK z \in Nat : z = Wi * Bi
    OBVIOUS
  <2> QED
    BY <2>1
<1>5. Wj * Bi > Wi * Bj => Wj * Bk > Wk * Bj
  <2> SUFFICES ASSUME Wj * Bi > Wi * Bj PROVE Wj * Bk > Wk * Bj
    OBVIOUS
  <2>1. PICK p, q, r, s, t, u \in Nat :
           /\ p = Wi * Bk /\ q = Wk * Bi /\ r = Wj * Bi /\ s = Wi * Bj /\ t = Wj * Bk /\ u = Wk * Bj
    OBVIOUS
  <2>2. p > q /\ r > s
    BY <1>2, <2>1
  <2>3. Wi > 0 /\ Wj > 0
    <3>1. Wi = 0 => Wi * Bk = 0
      OBVIOUS
    <3>2. Wj = 0 => Wj * Bi = 0
      OBVIOUS
    <3> QED
      BY <2>1, <2>2, <3>1, <3>2
  <2>4. Wj * q < Wj * p /\ Wk * s <= Wk * r
    BY <2>2, <2>3, Products
  <2>5. Wi * t = Wj * p /\ Wi * u = Wk * s /\ Wj * q = Wk * r
    <3>1. Wi * (Wj * Bk) = Wj * (Wi * Bk)
      OBVIOUS
    <3>2. Wi * (Wk * Bj) = Wk * (Wi * Bj)
      OBVIOUS
    <3>3. Wj * (Wk * Bi) = Wk * (Wj * Bi)
      OBVIOUS
    <3> QED
      BY <2>1, <3>1, <3>2, <3>3
  <2>6. Wi * u < Wi * t
    <3>1. PICK a, b, c, d, e, f \in Int :
             a = Wj * q /\ b = Wj * p /\ c = Wk * s /\ d = Wk * r /\ e = Wi * t /\ f = Wi * u
      OBVIOUS
    <3>2. a < b /\ c <= d /\ e = b /\ f = c /\ a = d
      BY <2>4, <2>5, <3>1
    <3> QED
      BY <3>1, <3>2
  <2>7. t <= u => Wi * t <= Wi * u
    BY Products
  <2>8. u < t
    <3>1. PICK a, b \in Int : a = Wi * u /\ b = Wi * t
      OBVIOUS
    <3> QED
      BY <2>1, <2>6, <2>7, <3>1
  <2> QED
    BY <2>1, <2>8
<1> QED
  BY <1>3, <1>4, <1>5

(* A node that is no worse and better where it counts is closer than, and  *)
(* fewer nodes are closer than it.                                         *)
LEMMA TopsisLower ==
    ASSUME NEW x, IsList(x, Read("topsis")), NEW w \in Configurations,
           NEW i \in Feasibles(x), NEW k \in Feasibles(x),
           \A f \in Read("topsis") : ValuesOf(x, f) \subseteq Nat,
           \A f \in {"co2", "runtime", "queue"} : x[i][f] <= x[k][f],
           \E f \in {"co2", "runtime", "queue"} : WeightOf(w, f) > 0 /\ x[i][f] < x[k][f]
    PROVE  TopsisScores(x, w)[x[i].id] < TopsisScores(x, w)[x[k].id]
<1>1. PICK Wi, Bi, Wk, Bk \in Nat :
         /\ Wi = FromWorst(x, w, i) /\ Bi = FromBest(x, w, i)
         /\ Wk = FromWorst(x, w, k) /\ Bk = FromBest(x, w, k)
  BY DistanceTypes
<1>2. Wk < Wi /\ Bi < Bk
  <2>1. ASSUME NEW f \in {"co2", "runtime", "queue"}
        PROVE  LET worst == Max(ValuesOf(x, f))
                   best == Min(ValuesOf(x, f))
               IN  /\ Part(x, w, f, x[i][f] - worst) \in Nat /\ Part(x, w, f, x[k][f] - worst) \in Nat
                   /\ Part(x, w, f, x[i][f] - best) \in Nat /\ Part(x, w, f, x[k][f] - best) \in Nat
                   /\ Part(x, w, f, x[k][f] - worst) <= Part(x, w, f, x[i][f] - worst)
                   /\ Part(x, w, f, x[i][f] - best) <= Part(x, w, f, x[k][f] - best)
                   /\ WeightOf(w, f) > 0 /\ x[i][f] < x[k][f] =>
                         /\ Part(x, w, f, x[k][f] - worst) < Part(x, w, f, x[i][f] - worst)
                         /\ Part(x, w, f, x[i][f] - best) < Part(x, w, f, x[k][f] - best)
    <3>1. ValuesOf(x, f) \subseteq Nat
      BY ReadOf
    <3> QED
      BY <3>1, CriterionOrder
  <2>2. PICK wi, wk, bi, bk :
           /\ wi = [f \in {"co2", "runtime", "queue"} |-> Part(x, w, f, x[i][f] - Max(ValuesOf(x, f)))]
           /\ wk = [f \in {"co2", "runtime", "queue"} |-> Part(x, w, f, x[k][f] - Max(ValuesOf(x, f)))]
           /\ bi = [f \in {"co2", "runtime", "queue"} |-> Part(x, w, f, x[i][f] - Min(ValuesOf(x, f)))]
           /\ bk = [f \in {"co2", "runtime", "queue"} |-> Part(x, w, f, x[k][f] - Min(ValuesOf(x, f)))]
    OBVIOUS
  <2>3. ASSUME NEW f \in {"co2", "runtime", "queue"}
        PROVE  /\ wi[f] \in Nat /\ wk[f] \in Nat /\ bi[f] \in Nat /\ bk[f] \in Nat
               /\ wk[f] <= wi[f] /\ bi[f] <= bk[f]
               /\ WeightOf(w, f) > 0 /\ x[i][f] < x[k][f] => wk[f] < wi[f] /\ bi[f] < bk[f]
    BY <2>1, <2>2
  <2>4. /\ Wi = wi["co2"] + wi["runtime"] + wi["queue"] /\ Bi = bi["co2"] + bi["runtime"] + bi["queue"]
        /\ Wk = wk["co2"] + wk["runtime"] + wk["queue"] /\ Bk = bk["co2"] + bk["runtime"] + bk["queue"]
    BY <1>1, <2>2 DEF FromWorst, FromBest
  <2>5. PICK f \in {"co2", "runtime", "queue"} : wk[f] < wi[f] /\ bi[f] < bk[f]
    BY <2>3
  <2> QED
    BY <2>3, <2>4, <2>5
<1>3. Closer(x, w, i, k)
  <2>1. Wi * Bk > Wk * Bi
    <3>1. Wk * Bi \in Int /\ Wk * Bk \in Int /\ Wk * Bi <= Wk * Bk
      BY <1>2, Products
    <3>2. Bk * Wk \in Int /\ Bk * Wi \in Int /\ Bk * Wk < Bk * Wi
      <4>1. Bk > 0
        BY <1>2
      <4> QED
        BY <1>2, <4>1, Products
    <3>3. Bk * Wk = Wk * Bk /\ Bk * Wi = Wi * Bk
      OBVIOUS
    <3>4. PICK a, b, c \in Int : a = Wk * Bi /\ b = Wk * Bk /\ c = Wi * Bk
      BY <3>1, <3>2, <3>3
    <3>5. a <= b /\ b < c
      BY <3>1, <3>2, <3>3, <3>4
    <3> QED
      BY <3>4, <3>5
  <2> QED
    BY <1>1, <2>1, CloserIs
<1>4. PICK I, K : I = {j \in Feasibles(x) : Closer(x, w, j, i)} /\ K = {j \in Feasibles(x) : Closer(x, w, j, k)}
  OBVIOUS
<1>5. I \subseteq K /\ i \in K /\ i \notin I /\ K \subseteq Feasibles(x)
  BY <1>3, <1>4, CloserOrder
<1>6. PICK M, N : M = NamesAt(x, I) /\ N = NamesAt(x, K)
  OBVIOUS
<1>7. IsFiniteSet(N) /\ IsFiniteSet(M)
  BY <1>5, <1>6, FeasiblesFinite
<1>8. M \subseteq N /\ x[i].id \in N /\ x[i].id \notin M
  <2>1. \A j \in Feasibles(x) : x[j].id = x[i].id => j = i
    BY FeasiblesFinite DEF IsList
  <2> QED
    BY <1>5, <1>6, <2>1 DEF NamesAt
<1>9. Cardinality(M) \in Nat /\ Cardinality(N) \in Nat /\ Cardinality(M) < Cardinality(N)
  BY <1>7, <1>8, FS_Subset, FS_CardinalityType
<1>10. /\ TopsisScores(x, w)[x[i].id] = Cardinality(M)
       /\ TopsisScores(x, w)[x[k].id] = Cardinality(N)
  BY <1>4, <1>6, TopsisScore, Zenon
<1> QED
  BY <1>9, <1>10

(* The guard, without the minima: within 15 percent of every other in S.   *)
LEMMA GuardedIs ==
    ASSUME NEW x, IsList(x, Read("eco-epsilon-constraint")), NEW S \in SUBSET Feasibles(x),
           NEW i \in S
    PROVE  i \in Guarded(x, S) <=>
               \A k \in S : 100 * x[i].co2 <= 115 * x[k].co2 /\ 100 * x[i].energy <= 115 * x[k].energy
<1>1. ASSUME NEW f \in {"co2", "energy"}
      PROVE  100 * x[i][f] <= 115 * Min({x[k][f] : k \in S}) <=>
                 \A k \in S : 100 * x[i][f] <= 115 * x[k][f]
  <2>1. PICK V : V = {x[k][f] : k \in S}
    OBVIOUS
  <2>2. IsFiniteSet(V)
    <3>1. IsFiniteSet(S)
      BY FeasiblesFinite, FS_Subset
    <3>2. PICK g : g = [k \in S |-> x[k][f]]
      OBVIOUS
    <3>3. V = {g[k] : k \in S}
      BY <2>1, <3>2
    <3> QED
      BY <3>1, <3>3, FiniteRange
  <2>3. \A k \in S : x[k][f] \in Int
    BY ReadOf DEF IsList
  <2>4. V \in SUBSET Int /\ V # {}
    BY <2>1, <2>3
  <2>5. PICK lo \in Int : lo = Min(V) /\ lo \in V /\ \A v \in V : lo <= v
    BY <2>2, <2>4, MinFacts
  <2>6. PICK l \in S : lo = x[l][f]
    BY <2>1, <2>5
  <2>7. \A k \in S : lo <= x[k][f]
    BY <2>1, <2>5
  <2>8. 100 * x[i][f] <= 115 * lo <=> \A k \in S : 100 * x[i][f] <= 115 * x[k][f]
    BY <2>3, <2>6, <2>7
  <2> QED
    BY <2>1, <2>5, <2>8
<1>2. i \in Guarded(x, S) <=>
          \A f \in {"co2", "energy"} : 100 * x[i][f] <= 115 * Min({x[k][f] : k \in S})
  BY Zenon DEF Guarded
<1>3. i \in Guarded(x, S) <=>
          /\ \A k \in S : 100 * x[i].co2 <= 115 * x[k].co2
          /\ \A k \in S : 100 * x[i].energy <= 115 * x[k].energy
  BY <1>1, <1>2, Zenon
<1> QED
  BY <1>3, Zenon

(* A node that is no worse than a candidate is a candidate.                *)
LEMMA EpsilonNoWorse ==
    ASSUME NEW x, IsList(x, Read("eco-epsilon-constraint")), NEW w \in Configurations,
           NEW c \in EpsilonCandidates(x, w), NEW i \in Feasibles(x),
           \A f \in {"co2", "energy", "runtime", "move"} : x[i][f] <= x[c][f]
    PROVE  i \in EpsilonCandidates(x, w)
<1>1. PICK S : S = BoundedItems(x, w)
  OBVIOUS
<1>2. S \in SUBSET Feasibles(x) /\ c \in S /\ c \in Feasibles(x)
  BY <1>1, CandidatesFeasible
<1>3. \A f \in {"co2", "energy", "runtime", "move"}, k \in Feasibles(x) : x[k][f] \in Int
  BY ReadOf DEF IsList
<1>4. i \in S
  <2>1. w.maxRuntime \in Int /\ w.maxMove \in Int
    BY DEF Configurations
  <2>2. c \in WithinBounds(x, w) => i \in WithinBounds(x, w)
    BY <1>2, <1>3, <2>1 DEF WithinBounds
  <2> QED
    BY <1>1, <1>2, <2>2 DEF BoundedItems
<1>5. c \in Guarded(x, S) => i \in Guarded(x, S)
  <2> SUFFICES ASSUME c \in Guarded(x, S) PROVE i \in Guarded(x, S)
    OBVIOUS
  <2>1. \A k \in S : 100 * x[c].co2 <= 115 * x[k].co2 /\ 100 * x[c].energy <= 115 * x[k].energy
    BY <1>2, GuardedIs
  <2>2. \A k \in S : 100 * x[i].co2 <= 115 * x[k].co2 /\ 100 * x[i].energy <= 115 * x[k].energy
    <3> SUFFICES ASSUME NEW k \in S
                 PROVE  100 * x[i].co2 <= 115 * x[k].co2 /\ 100 * x[i].energy <= 115 * x[k].energy
      OBVIOUS
    <3>1. /\ x[i].co2 \in Int /\ x[c].co2 \in Int /\ x[k].co2 \in Int /\ x[i].co2 <= x[c].co2
          /\ x[i].energy \in Int /\ x[c].energy \in Int /\ x[k].energy \in Int
          /\ x[i].energy <= x[c].energy
      BY <1>2, <1>3
    <3> QED
      BY <2>1, <3>1
  <2> QED
    BY <1>2, <1>4, <2>2, GuardedIs
<1>6. EpsilonCandidates(x, w) = IF Guarded(x, S) = {} THEN S ELSE Guarded(x, S)
  BY <1>1, Zenon DEF EpsilonCandidates
<1> QED
  BY <1>2, <1>4, <1>5, <1>6
=============================================================================
