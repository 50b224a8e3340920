------------------------------ MODULE Ordering ------------------------------
(***************************************************************************)
(* Sorting and filtering without recursion, so that it can be reasoned     *)
(* about: an element's place is the number of those before it.             *)
(***************************************************************************)
EXTENDS Naturals, FiniteSets

(* The elements of S in the order of the pairs in R.                        *)
InOrder(S, R) ==
    [n \in 1..Cardinality(S) |->
        CHOOSE x \in S : Cardinality({y \in S : <<y, x>> \in R}) = n - 1]

(* A set of numbers, the least first.                                       *)
Ascending(S) == InOrder(S, {p \in S \X S : p[1] < p[2]})

(* What stands at the given places of s, closed up.                         *)
AtPlaces(s, places) ==
    [n \in 1..Cardinality(places) |-> s[Ascending(places)[n]]]
=============================================================================
