------------------------------ MODULE Listing ------------------------------
(***************************************************************************)
(* The sequence of the elements of a finite set in a strict total order,   *)
(* a set of pairs.                                                         *)
(*                                                                         *)
(* An element is at the place that the number of elements before it gives. *)
(* Written this way, what the sequence holds follows from the theorems of  *)
(* FiniteSetTheorems, with no recursion over the set.                      *)
(***************************************************************************)
EXTENDS Integers, FiniteSets

\* R is a strict total order of S.
Orders(R, S) ==
    /\ \A x \in S : <<x, x>> \notin R
    /\ \A x, y, z \in S : <<x, y>> \in R /\ <<y, z>> \in R => <<x, z>> \in R
    /\ \A x, y \in S : x # y => <<x, y>> \in R \/ <<y, x>> \in R

\* The elements of S that are before x.
Preceding(S, R, x) == {y \in S : <<y, x>> \in R}

\* S in the order R.
Listed(S, R) ==
    [n \in 1 .. Cardinality(S) |->
        CHOOSE x \in S : Cardinality(Preceding(S, R, x)) = n - 1]
=============================================================================
