------------------------------- MODULE Filter -------------------------------
(***************************************************************************)
(* What a loop leaves that appends the elements which pass a test to a     *)
(* fresh slice: the elements at a set of positions, in their order.        *)
(***************************************************************************)
EXTENDS Integers, Sequences, FiniteSets

(* The place of i among the numbers of S.                                  *)
Rank(S, i) == Cardinality({j \in S : j <= i})

(* The elements of s at the positions S.                                   *)
AtPositions(s, S) ==
    [k \in 1..Cardinality(S) |-> s[CHOOSE i \in S : Rank(S, i) = k]]
=============================================================================
