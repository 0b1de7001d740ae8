------------------------------ MODULE ROBLogic ------------------------------
(***************************************************************************)
(* The reorder buffer of one hardware thread (src/verilog/ROB.sv): its     *)
(* registers are one record r and its combinational signals are operators  *)
(* on r, so that the module serves a single buffer (ROB) and one buffer    *)
(* per thread (Rename).                                                    *)
(*                                                                         *)
(* The registers of r:                                                     *)
(*   head, tail                     the ring's pointers                    *)
(*   head_rollover, tail_rollover   one bit each, flipped on a wrap        *)
(*   array                          rob_array                              *)
(*   rt_wfi                         a WFI has retired: nothing retires     *)
(* An entry's inst stands for its payload (pc, rd, tag, tag_old).          *)
(***************************************************************************)
EXTENDS Integers, FiniteSets

CONSTANTS
    ROB_ENTRY_NUM,  \* C_ROB_ENTRY_NUM
    DP_NUM,         \* C_DP_NUM, the dispatch channels
    RT_NUM,         \* C_RT_NUM, the retire channels
    NoInst,         \* the payload of a zeroed entry
    NoTarget        \* the br_target of a zeroed entry

ASSUME ROBParameters ==
    /\ ROB_ENTRY_NUM \in Nat \ {0}
    /\ DP_NUM \in 1..ROB_ENTRY_NUM
    /\ RT_NUM \in 1..ROB_ENTRY_NUM

Entries == 0..(ROB_ENTRY_NUM - 1)

\* 'b0: what reset, a flush and retirement leave in an entry.
EmptyEntry ==
    [valid |-> FALSE, complete |-> FALSE, br_predict |-> FALSE,
     br_result |-> FALSE, br_target |-> NoTarget, wfi |-> FALSE,
     inst |-> NoInst]

EmptyROB ==
    [head |-> 0, tail |-> 0, head_rollover |-> FALSE,
     tail_rollover |-> FALSE, rt_wfi |-> FALSE,
     array |-> [i \in Entries |-> EmptyEntry]]

\* The types of an entry and of the registers.
EntryOf(insts, targets) ==
    [valid : BOOLEAN, complete : BOOLEAN, br_predict : BOOLEAN,
     br_result : BOOLEAN, br_target : targets \cup {NoTarget}, wfi : BOOLEAN,
     inst : insts \cup {NoInst}]

ROBOf(insts, targets) ==
    [head : Entries, tail : Entries, head_rollover : BOOLEAN,
     tail_rollover : BOOLEAN, rt_wfi : BOOLEAN,
     array : [Entries -> EntryOf(insts, targets)]]

-----------------------------------------------------------------------------
\* Retirement.

Mispredicted(e) == e.br_predict # e.br_result

\* Mutant of RtSel: an entry is checked for its own completion only.
RtSelAnyComplete(r) ==
    IF r.rt_wfi THEN {}
    ELSE {i \in Entries :
            /\ i >= r.head
            /\ i < r.head + RT_NUM
            /\ r.array[i].valid
            /\ r.array[i].complete}

\* rt_sel. The loop visits the entries by index, 0 first, and every rt_sel bit
\* is 0 before it starts: entry 0, when it is not the head, therefore always
\* reads rt_sel[ROB_ENTRY_NUM-1] = 0, and what one cycle selects never goes past
\* the end of the array.
RtSel(r) ==
    IF r.rt_wfi THEN {}
    ELSE {i \in Entries :
            /\ i >= r.head
            /\ i < r.head + RT_NUM
            /\ \A j \in r.head..i :
                  /\ r.array[j].valid
                  /\ r.array[j].complete
                  /\ j < i => /\ ~Mispredicted(r.array[j])
                              /\ ~r.array[j].wfi}

RtNum(r) == Cardinality(RtSel(r))

BrMisValid(r) == \E i \in RtSel(r) : Mispredicted(r.array[i])

WfiRetires(r) == \E i \in RtSel(r) : r.array[i].wfi

-----------------------------------------------------------------------------
\* Pointers and dispatch.

\* Mutants of Advance and Wraps: the wrap is noticed one entry too late.
AdvanceLate(p, n) ==
    IF p + n > ROB_ENTRY_NUM THEN p + n - ROB_ENTRY_NUM ELSE p + n

WrapsLate(p, n) == p + n > ROB_ENTRY_NUM

Advance(p, n) ==
    IF p + n >= ROB_ENTRY_NUM THEN p + n - ROB_ENTRY_NUM ELSE p + n

Wraps(p, n) == p + n >= ROB_ENTRY_NUM

\* avail_num counts what retires in this very cycle.
AvailNum(r) ==
    IF r.head_rollover = r.tail_rollover
    THEN ROB_ENTRY_NUM - (r.tail - r.head) + RtNum(r)
    ELSE r.head - r.tail + RtNum(r)

\* rob_dp_o.avail_num
DpAvail(r) == IF AvailNum(r) > DP_NUM THEN DP_NUM ELSE AvailNum(r)

DpSel(r, n) ==
    IF Wraps(r.tail, n)
    THEN {i \in Entries : i >= r.tail \/ i < r.tail + n - ROB_ENTRY_NUM}
    ELSE {i \in Entries : i >= r.tail /\ i < r.tail + n}

\* The dispatch channel, from 0, that fills entry i.
DpChannel(r, i) ==
    IF i < r.tail THEN i + ROB_ENTRY_NUM - r.tail ELSE i - r.tail

-----------------------------------------------------------------------------
\* The next state. n instructions dp[0..n-1] are dispatched; cdb maps the
\* entries that this cycle's common data bus names to their results.

\* Mutant of NextEntry: retirement is looked at before dispatch.
NextEntryRetireFirst(r, n, dp, cdb, i) ==
    IF BrMisValid(r) \/ i \in RtSel(r) THEN EmptyEntry
    ELSE IF i \in DpSel(r, n) THEN
        [r.array[i] EXCEPT !.valid = TRUE, !.complete = FALSE,
              !.br_predict = dp[DpChannel(r, i)].br_predict,
              !.wfi = dp[DpChannel(r, i)].wfi,
              !.inst = dp[DpChannel(r, i)].inst]
    ELSE IF i \in DOMAIN cdb /\ r.array[i].valid THEN
        [r.array[i] EXCEPT !.complete = TRUE,
              !.br_result = cdb[i].br_result,
              !.br_target = cdb[i].br_target]
    ELSE r.array[i]

NextEntry(r, n, dp, cdb, i) ==
    IF BrMisValid(r) THEN EmptyEntry
    ELSE IF i \in DpSel(r, n) THEN
        [r.array[i] EXCEPT !.valid = TRUE, !.complete = FALSE,
              !.br_predict = dp[DpChannel(r, i)].br_predict,
              !.wfi = dp[DpChannel(r, i)].wfi,
              !.inst = dp[DpChannel(r, i)].inst]
    ELSE IF i \in RtSel(r) THEN EmptyEntry
    ELSE IF i \in DOMAIN cdb /\ r.array[i].valid THEN
        [r.array[i] EXCEPT !.complete = TRUE,
              !.br_result = cdb[i].br_result,
              !.br_target = cdb[i].br_target]
    ELSE r.array[i]

\* Mutant of NextHeadRollover: a flush resets the pointers but not this bit.
NextHeadRolloverKept(r) ==
    IF ~BrMisValid(r) /\ Wraps(r.head, RtNum(r)) THEN ~r.head_rollover
    ELSE r.head_rollover

NextHeadRollover(r) ==
    IF BrMisValid(r) THEN FALSE
    ELSE IF Wraps(r.head, RtNum(r)) THEN ~r.head_rollover
    ELSE r.head_rollover

NextROB(r, n, dp, cdb) ==
    [head |-> IF BrMisValid(r) THEN 0 ELSE Advance(r.head, RtNum(r)),
     tail |-> IF BrMisValid(r) THEN 0 ELSE Advance(r.tail, n),
     head_rollover |-> NextHeadRollover(r),
     tail_rollover |->
        IF BrMisValid(r) THEN FALSE
        ELSE IF Wraps(r.tail, n) THEN ~r.tail_rollover
        ELSE r.tail_rollover,
     rt_wfi |-> r.rt_wfi \/ WfiRetires(r),
     array |-> [i \in Entries |-> NextEntry(r, n, dp, cdb, i)]]

-----------------------------------------------------------------------------
\* The ring as its users see it.

\* The number of entries between the pointers.
Occupied(r) ==
    IF r.head_rollover = r.tail_rollover
    THEN r.tail - r.head
    ELSE ROB_ENTRY_NUM - r.head + r.tail

\* The entries between the pointers.
Window(r) ==
    IF r.head_rollover = r.tail_rollover
    THEN {i \in Entries : r.head <= i /\ i < r.tail}
    ELSE {i \in Entries : r.head <= i \/ i < r.tail}

\* The rollover bits are equal exactly when the tail has not passed the end of
\* the array since the head last did.
Ordered(r) ==
    IF r.head_rollover = r.tail_rollover
    THEN r.head <= r.tail
    ELSE r.tail <= r.head

FillsWindow(r) == \A i \in Entries : r.array[i].valid <=> i \in Window(r)
=============================================================================
