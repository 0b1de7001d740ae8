------------------------------- MODULE MC_LSQ -------------------------------
(* A small queue beside a small reorder buffer. *)
EXTENDS LSQ, TLC

WordAt(w) == [word |-> w, off |-> 0, size |-> 1]

OneWord == {WordAt(0)}
TwoWords == {WordAt(0), WordAt(1)}

\* One word of two bytes, read and written as a whole or by its lower byte.
TwoSizes == {[word |-> 0, off |-> 0, size |-> 2], [word |-> 0, off |-> 0, size |-> 1]}

\* The values stored are interchangeable.
Swaps == Permutations(Values)
=============================================================================
