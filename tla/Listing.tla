------------------------------ MODULE Listing ------------------------------
(***************************************************************************)
(* The members of a finite set in order, as sorted() and a comprehension   *)
(* over a list give them.                                                  *)
(***************************************************************************)
EXTENDS Integers, FiniteSets

\* Those of S that come before x, when R is the pairs that are in order.
Earlier(S, R, x) == {y \in S : <<y, x>> \in R}

\* Each place is taken by the member with as many before it.
Listed(S, R) ==
    [n \in 1..Cardinality(S) |-> CHOOSE x \in S : Cardinality(Earlier(S, R, x)) = n - 1]
=============================================================================
