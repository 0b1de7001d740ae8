-------------------------------- MODULE ROB --------------------------------
(***************************************************************************)
(* One thread's reorder buffer (src/verilog/ROB.sv) under any dispatcher   *)
(* that respects rob_dp_o.avail_num and any broadcast of results of        *)
(* instructions in flight. One step is one rising edge of the clock.       *)
(***************************************************************************)
EXTENDS ROBLogic, Sequences

CONSTANTS
    CDB_NUM,   \* results broadcast per cycle
    Inst,      \* what dispatch writes: records [inst, br_predict, wfi]
    Result     \* what a broadcast carries: records [br_result, br_target]

ASSUME ROBTraffic ==
    /\ CDB_NUM \in Nat
    /\ \A x \in Inst : x.br_predict \in BOOLEAN /\ x.wfi \in BOOLEAN
    /\ \A x \in Result :
          /\ x.br_result \in BOOLEAN
          /\ x = [br_result |-> x.br_result, br_target |-> x.br_target]

VARIABLE rob   \* the buffer's registers

vars == rob

Init == rob = EmptyROB

\* Entries whose result is still to come.
InFlight == {i \in Entries : rob.array[i].valid /\ ~rob.array[i].complete}

\* The retiring branch was mispredicted: every entry is zeroed. The dispatcher
\* sends nothing to a thread in this cycle (DP sees avail_num = 0 from IF).
Flush ==
    /\ BrMisValid(rob)
    /\ rob' = NextROB(rob, 0, <<>>, <<>>)

\* Dispatch, complete and retire in one ordinary cycle.
Advancing ==
    /\ ~BrMisValid(rob)
    /\ \E n \in 0..DpAvail(rob) : \E dp \in [0..(n - 1) -> Inst] :
       \E done \in {s \in SUBSET InFlight : Cardinality(s) <= CDB_NUM} :
       \E cdb \in [done -> Result] :
          rob' = NextROB(rob, n, dp, cdb)

Next == Flush \/ Advancing

Spec == Init /\ [][Next]_vars

\* The clock does not stop, and the units answer every instruction in the end.
FairSpec == Spec /\ WF_vars(Next) /\ \A i \in Entries : []<>(i \notin InFlight)
-----------------------------------------------------------------------------
Insts == {x.inst : x \in Inst}
Targets == {x.br_target : x \in Result}

\* The registers keep their types and the pointers stay inside the array.
TypeOK == rob \in ROBOf(Insts, Targets)

\* The two rollover bits and the two pointers always tell a full buffer from an
\* empty one: equal bits never go with a tail behind the head, nor different
\* bits with a tail past it (ROB.sv l.134-141, l.159-165).
PointersAgree == Ordered(rob)

\* An entry is valid exactly when it lies between the pointers: dispatch into
\* entries that retire at the same edge, a wrap and a flush lose no instruction
\* and resurrect none (ROB.sv l.176-194, l.312-362).
ValidIsWindow == FillsWindow(rob)

\* The k-th oldest instruction, as the commit queue records it.
Oldest(k) ==
    LET e == rob.array[Advance(rob.head, k - 1)] IN
    [inst |-> e.inst, br_predict |-> e.br_predict, wfi |-> e.wfi,
     done |-> e.complete,
     result |-> [br_result |-> e.br_result, br_target |-> e.br_target]]

Abstract ==
    INSTANCE CommitQueue WITH
        CAPACITY <- ROB_ENTRY_NUM,
        queue <- [k \in 1..Occupied(rob) |-> Oldest(k)],
        halted <- rob.rt_wfi

\* The ring implements the commit queue: program order, nothing retires before
\* it completes, past a mispredicted branch or past a WFI, nothing is lost
\* (ROB.sv as a whole).
CommitsInOrder == Abstract!CQSpec

\* While results keep coming, the head never stays where it is for ever: the
\* oldest instruction retires or is flushed, unless a WFI has stopped the thread
\* (ROB.sv l.230-290).
HeadMoves ==
    \A h \in Entries :
        []<>(rob.head # h \/ Occupied(rob) = 0 \/ rob.rt_wfi)

=============================================================================
