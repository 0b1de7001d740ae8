------------------------------ MODULE MC_Issue ------------------------------
(* The issue queue and the functional units, each against whatever the other *)
(* may do. They share no state, so that a behaviour of the run moves only    *)
(* one of the two, and the states add up instead of multiplying.             *)
(* The queue: one class, two threads, and two instructions of one thread     *)
(* that differ, so that a change of order shows. The units: four of them,    *)
(* one bus channel, two threads.                                             *)
EXTENDS IBQueue, Execute

VARIABLE moving

MCThreads == {0, 1}

MCInst == {[id |-> "a", thread_idx |-> 0], [id |-> "b", thread_idx |-> 0],
           [id |-> "a", thread_idx |-> 1]}

MCNoInst == [id |-> "none", thread_idx |-> 0]

QueueMoves == moving = "queue" /\ Next /\ UNCHANGED <<busVars, moving>>
UnitsMove == moving = "units" /\ BusNext /\ UNCHANGED <<vars, moving>>

\* The fairness of FairSpec, in the behaviours in which the queue moves.
QueueServed == moving = "queue" /\ Served /\ UNCHANGED <<busVars, moving>>

IssueInit == Init /\ BusInit /\ moving \in {"queue", "units"}

IssueSpec ==
    /\ IssueInit
    /\ [][QueueMoves \/ UnitsMove]_<<vars, busVars, moving>>
    /\ WF_<<vars, busVars, moving>>(QueueServed)
=============================================================================
