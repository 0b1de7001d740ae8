------------------------------ MODULE IBQueue ------------------------------
(***************************************************************************)
(* One class of the issue buffer (IB.sv): push-in router, ring queue and   *)
(* pop-out router (IB_ALU.sv and its four copies for MULT, BR, LOAD and    *)
(* STORE, which differ in their sizes and in the class they let in). One   *)
(* step is one rising clock edge.                                          *)
(***************************************************************************)
EXTENDS Integers, Sequences, Subsequence

CONSTANTS
    C_SIZE,     \* entries of the ring
    C_IN_NUM,   \* IS_NUM, the issue channels
    C_OUT_NUM,  \* the functional units of the class
    Threads,
    Inst,       \* what the reservation station issues: records [id, thread_idx]
    NoInst      \* a zeroed entry: a record like those of Inst

ASSUME IBParameters ==
    /\ C_SIZE \in Nat \ {0}
    /\ C_IN_NUM \in 1..C_SIZE
    /\ C_OUT_NUM \in 1..C_SIZE
    /\ \A x \in Inst \cup {NoInst} : x.thread_idx \in Threads

Entries == 0..(C_SIZE - 1)

VARIABLES head, tail, head_rollover, tail_rollover, queue, valid

vars == <<head, tail, head_rollover, tail_rollover, queue, valid>>

Init ==
    /\ head = 0 /\ tail = 0
    /\ head_rollover = FALSE /\ tail_rollover = FALSE
    /\ queue = [i \in Entries |-> NoInst]
    /\ valid = [i \in Entries |-> FALSE]

-----------------------------------------------------------------------------
\* The entry n places after p. (push_in_idx, pop_out_idx and the next pointers.)
Advance(p, n) == IF p + n >= C_SIZE THEN p + n - C_SIZE ELSE p + n

Wraps(p, n) == p + n >= C_SIZE

data_num ==
    IF head_rollover = tail_rollover THEN tail - head ELSE C_SIZE - (head - tail)

\* Pop-out channel c offers an instruction of a thread that is not in mis.
\* Mutant: the squash is not looked at.
LiveFlushed(c, mis) == valid[Advance(head, c)]

Live(c, mis) ==
    LET i == Advance(head, c) IN valid[i] /\ queue[i].thread_idx \notin mis

\* m_valid_o: the channels that offer an instruction.
Offered(mis) == {c \in 0..(C_OUT_NUM - 1) : c < data_num /\ Live(c, mis)}

\* The pop-out router gives the next offered channel to each of the units that
\* are ready, and stops at the first channel that offers nothing.
PopOut(mis, ready) ==
    {c \in Offered(mis) : c < ready /\ 0..c \subseteq Offered(mis)}

\* What leaves the ring: what is popped, and the squashed entries up to the next
\* one that stays (squash_flag).
\* Mutant: squashed entries stay.
LeavingPopped(mis, ready) == PopOut(mis, ready)

Leaving(mis, ready) ==
    {c \in 0..(C_OUT_NUM - 1) :
        /\ c < data_num
        /\ \A d \in 0..c : d \in PopOut(mis, ready) \/ d \notin Offered(mis)}

\* pop_out_num. Leaving is an interval from 0.
\* Mutant: it counts what is offered, taken or not.
PopOutNumOffered(mis, ready) ==
    IF Offered(mis) = {} THEN 0
    ELSE 1 + CHOOSE c \in Offered(mis) : \A d \in Offered(mis) : d <= c

PopOutNum(mis, ready) ==
    IF Leaving(mis, ready) = {} THEN 0
    ELSE 1 + CHOOSE c \in Leaving(mis, ready) :
                \A d \in Leaving(mis, ready) : d <= c

empty_num(out) ==
    IF head_rollover = tail_rollover
    THEN C_SIZE - (tail - head) + out
    ELSE head - tail + out

\* ready_o of the push-in router: the ring can take a full group.
Ready(mis, ready) == C_IN_NUM <= empty_num(PopOutNum(mis, ready))

\* One edge: the threads in mis are flushed, ready units want an instruction, the
\* reservation station issues group. It issues nothing of a flushed thread, and
\* nothing to a class that is not ready (RS.sv l.290-310).
Edge(mis, ready, group) ==
    LET out == PopOutNum(mis, ready)
        in == Len(group)
        pushed == {Advance(tail, c) : c \in 0..(in - 1)}
        popped == {Advance(head, c) : c \in Leaving(mis, ready)}
        channel(i) == IF i >= tail THEN i - tail ELSE i + C_SIZE - tail
    IN  /\ in > 0 => Ready(mis, ready)
        /\ \A c \in DOMAIN group : group[c].thread_idx \notin mis
        /\ head' = Advance(head, out)
        /\ tail' = Advance(tail, in)
        /\ head_rollover' = (IF Wraps(head, out) THEN ~head_rollover
                             ELSE head_rollover)
        /\ tail_rollover' = (IF Wraps(tail, in) THEN ~tail_rollover
                             ELSE tail_rollover)
        /\ queue' = [i \in Entries |->
                       IF i \in pushed THEN group[channel(i) + 1]
                       ELSE IF i \in popped THEN NoInst
                       ELSE queue[i]]
        /\ valid' = [i \in Entries |->
                       \/ i \in pushed
                       \/ /\ valid[i] /\ i \notin popped
                          /\ queue[i].thread_idx \notin mis]

Groups == UNION {[1..n -> Inst] : n \in 0..C_IN_NUM}

Next ==
    \E mis \in SUBSET Threads : \E ready \in 0..C_OUT_NUM :
    \E group \in Groups : Edge(mis, ready, group)

Spec == Init /\ [][Next]_vars

\* The clock does not stop, and the units of the class never stay busy for ever.
Served ==
    \E mis \in SUBSET Threads : \E ready \in 1..C_OUT_NUM :
    \E group \in Groups : Edge(mis, ready, group)

FairSpec == Spec /\ WF_vars(Served)
-----------------------------------------------------------------------------
\* The types, and a queue never holds more than its entries.
TypeOK ==
    /\ head \in Entries /\ tail \in Entries
    /\ head_rollover \in BOOLEAN /\ tail_rollover \in BOOLEAN
    /\ queue \in [Entries -> Inst \cup {NoInst}]
    /\ valid \in [Entries -> BOOLEAN]
    /\ data_num \in 0..C_SIZE

\* Nothing is valid outside the pointers, where no unit would ever find it and the
\* next push would overwrite it (IB_ALU_queue.sv l.163-171, l.252-280).
ValidIsInside ==
    \A i \in Entries :
        valid[i] => \E c \in 0..(data_num - 1) : i = Advance(head, c)

\* The places from the head that hold an instruction.
Places == {c \in 0..(data_num - 1) : valid[Advance(head, c)]}

Abstract ==
    INSTANCE IssueFIFO WITH
        CAPACITY <- C_SIZE, IN_NUM <- C_IN_NUM, OUT_NUM <- C_OUT_NUM,
        waiting <- Picked([c \in 0..(data_num - 1) |-> queue[Advance(head, c)]], Places)

\* The ring with its holes implements the queue: issue order is kept, a flush takes
\* exactly the instructions of its thread, wherever they are, and no hole makes a
\* unit skip or repeat an instruction (IB_ALU_queue.sv, IB_ALU_pop_out_router.sv).
ImplementsFIFO == Abstract!FIFOSpec

\* The oldest entry always leaves in the end, to a unit or, when a flush has made
\* a hole of it, by itself: holes do not clog the ring (IB_ALU_queue.sv l.216-244).
OldestLeaves == \A h \in Entries : []<>(head # h \/ data_num = 0)
=============================================================================
