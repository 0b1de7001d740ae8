----------------------------- MODULE IssueFIFO -----------------------------
(***************************************************************************)
(* What an issue buffer promises the reservation station and the units of  *)
(* one class: instructions leave in the order in which they were issued,   *)
(* each to one unit; those of a thread that is being flushed leave at once *)
(* and reach no unit; nothing else disappears.                             *)
(***************************************************************************)
EXTENDS Integers, Sequences, Subsequence

CONSTANTS CAPACITY, IN_NUM, OUT_NUM, Threads, Inst

VARIABLE waiting   \* the instructions waiting for a unit, oldest first

FIFOInit == waiting = <<>>

Unaffected(mis, s) == Picked(s, {i \in DOMAIN s : s[i].thread_idx \notin mis})

\* The queue becomes next when the threads in mis are flushed: what stays keeps its
\* order, and the reservation station adds some of the other threads' instructions.
Extends(kept, next, mis) ==
    /\ Len(next) - Len(kept) \in 0..IN_NUM
    /\ Len(next) <= CAPACITY
    /\ SubSeq(next, 1, Len(kept)) = kept
    /\ \A i \in (Len(kept) + 1)..Len(next) :
          next[i] \in Inst /\ next[i].thread_idx \notin mis

Moves(now, next) ==
    \E mis \in SUBSET Threads : \E k \in 0..OUT_NUM :
        /\ k <= Len(now)
        /\ \A i \in 1..k : now[i].thread_idx \notin mis
        /\ Extends(Unaffected(mis, SubSeq(now, k + 1, Len(now))), next, mis)

\* One clock: the first k go to units, the threads in mis are flushed.
FIFOClock == Moves(waiting, waiting')

FIFOSpec == FIFOInit /\ [][FIFOClock]_waiting
=============================================================================
