---------------------------- MODULE Subsequence -----------------------------
(***************************************************************************)
(* What a sequence holds at some of its places. SelectSeq says the same of *)
(* the elements that pass a test, by recursion.                            *)
(***************************************************************************)
EXTENDS Integers, FiniteSets

\* The k-th of a set of numbers, counted from 1.
Nth(S, k) == CHOOSE c \in S : Cardinality({d \in S : d < c}) = k - 1

\* The values of s at the places in S, in the order of the places.
Picked(s, S) == [k \in 1..Cardinality(S) |-> s[Nth(S, k)]]
=============================================================================
