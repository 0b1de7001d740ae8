------------------------------- MODULE Fetch -------------------------------
(***************************************************************************)
(* The fetch stage (IF.sv): one queue of instructions per thread, filled   *)
(* from the instruction cache, which answers hits at once and misses later *)
(* under the tag of the request, and emptied by the dispatcher. One step   *)
(* is one rising clock edge.                                               *)
(*                                                                         *)
(* A PC counts instructions and has PC_NUM values; a block holds two of    *)
(* them. An instruction is the PC that it was read from.                   *)
(***************************************************************************)
EXTENDS Integers

CONSTANTS
    THREAD_NUM,
    FIQ_NUM,    \* entries of a queue, a power of two
    DP_NUM,
    PC_NUM,
    Tags,       \* the miss entries of the cache, which are its tags
    NoTag,
    Enabled,    \* pc_en_i: the threads that run
    Targets,    \* bound: the PCs that threads start at or are flushed to
    Illegal     \* the PCs of illegal instructions

Threads == 0..(THREAD_NUM - 1)
Slots == 0..(FIQ_NUM - 1)
Pcs == 0..(PC_NUM - 1)

ASSUME FetchParameters ==
    /\ THREAD_NUM \in Nat \ {0}
    /\ FIQ_NUM \in Nat \ {0}
    /\ DP_NUM \in Nat \ {0}
    /\ PC_NUM \in Nat \ {0}
    /\ PC_NUM % 2 = 0
    /\ FIQ_NUM <= PC_NUM
    /\ 2 <= PC_NUM
    /\ NoTag \notin Tags
    /\ Enabled \subseteq Threads
    /\ Illegal \subseteq Pcs
    /\ Targets \subseteq Pcs

\* A zeroed instruction, which is illegal, and no block.
Zero == -1
NoBlock == -1

VARIABLES
    thread_data,      \* per thread: CONTEXT
    thread_to_ft,     \* the thread whose PC is on the cache's bus
    thread_counter,   \* the thread that is offered to the dispatcher first
    thread_idx_disp,  \* the thread that was offered in the last cycle
    misses,           \* the cache: per tag, the block to be answered
    next              \* observer: per thread, the PC to be dispatched next

vars == <<thread_data, thread_to_ft, thread_counter, thread_idx_disp, misses, next>>

FiqEntry(inst, pc, tag) == [inst |-> inst, pc |-> pc, mem_tag |-> tag]

\* A queue that was reset or flushed.
Context(pc) ==
    [PC_reg |-> pc, inst_buff |-> [s \in Slots |-> FiqEntry(Zero, 0, NoTag)],
     avail_size |-> FIQ_NUM, hd_ptr |-> 0, tail_ptr |-> 0]

Init ==
    /\ \E rst_pc \in [Threads -> Targets] :
         /\ thread_data = [t \in Threads |-> Context(rst_pc[t])]
         /\ next = rst_pc
    /\ thread_to_ft = 0 /\ thread_counter = 0 /\ thread_idx_disp = 0
    /\ misses = [x \in Tags |-> NoBlock]

-----------------------------------------------------------------------------
\* Arithmetic of the widths of the registers: a pointer has one bit more than an
\* index, and a PC wraps.
Plus(p, n) == IF p + n >= 2 * FIQ_NUM THEN p + n - 2 * FIQ_NUM ELSE p + n

Slot(p) == IF p >= FIQ_NUM THEN p - FIQ_NUM ELSE p

PcPlus(pc, n) == IF pc + n >= PC_NUM THEN pc + n - PC_NUM ELSE pc + n

Block(pc) == pc \div 2
Offset(pc) == pc % 2

\* data_as_inst: the instruction at an offset of a block
Word(block, offset) == 2 * block + offset

After(t) == IF t = THREAD_NUM - 1 THEN 0 ELSE t + 1

Lesser(a, b) == IF a < b THEN a ELSE b

-----------------------------------------------------------------------------
\* What the cache drives in a cycle: a response confirms the request of thread_to_ft,
\* and a tag comes with the data of a block.
Requested == thread_data[thread_to_ft].avail_size > 0
RequestedBlock == Block(thread_data[thread_to_ft].PC_reg)

Quiet == [response |-> NoTag, tag |-> NoTag, data |-> NoBlock]

Free == {x \in Tags : misses[x] = NoBlock}

Hits == IF Requested THEN {[response |-> x, tag |-> x, data |-> RequestedBlock] : x \in Free}
        ELSE {}

Misses == IF Requested THEN {[response |-> x, tag |-> NoTag, data |-> NoBlock] : x \in Free}
          ELSE {}

Answer(x) == [response |-> NoTag, tag |-> x, data |-> misses[x]]

NextMisses(ic) ==
    [x \in Tags |-> IF x = ic.response /\ ic.tag = NoTag THEN RequestedBlock
                    ELSE IF x = ic.tag THEN NoBlock
                    ELSE misses[x]]

-----------------------------------------------------------------------------
\* Mutant of ThreadIdx: the first thread that has something.
ThreadIdxFirst(mis) ==
    IF 0 \in mis \/ thread_data[0].avail_size = FIQ_NUM THEN After(0) ELSE 0

\* The dispatcher's side: the first choice, or the next thread if the first is being
\* flushed or has nothing.
ThreadIdx(mis) ==
    IF thread_counter \in mis \/ thread_data[thread_counter].avail_size = FIQ_NUM
    THEN After(thread_counter) ELSE thread_counter

AvailNum(mis) ==
    IF ThreadIdx(mis) \in mis THEN 0
    ELSE Lesser(DP_NUM, FIQ_NUM - thread_data[ThreadIdx(mis)].avail_size)

\* The entry that is k places behind the head of t's queue.
Entry(t, k) ==
    thread_data[t].inst_buff[Slot(Plus(thread_data[t].hd_ptr, k))]

\* The dispatcher takes no instruction behind an illegal one; how many of the others
\* it takes is up to the rest of the processor.
Dispatchable(mis) ==
    {n \in 0..AvailNum(mis) :
        \A k \in 0..(n - 1) : Entry(ThreadIdx(mis), k).inst \notin Illegal \cup {Zero}}

-----------------------------------------------------------------------------
\* One thread's queue.

\* inst_to_insert_i: what is left of the block, as far as it fits.
Inserted(t, ic) ==
    IF t \in Enabled /\ t = thread_to_ft /\ ic.response # NoTag
    THEN Lesser(2 - Offset(thread_data[t].PC_reg), thread_data[t].avail_size)
    ELSE 0

\* Mutant of Filled: the tag of an answer is not looked at.
FilledAny(e, ic) ==
    IF ic.tag # NoTag /\ e.mem_tag # NoTag
    THEN FiqEntry(Word(ic.data, Offset(e.pc)), e.pc, NoTag)
    ELSE e

\* Data for an entry that waits.
Filled(e, ic) ==
    IF ic.tag # NoTag /\ e.mem_tag = ic.tag
    THEN FiqEntry(Word(ic.data, Offset(e.pc)), e.pc, NoTag)
    ELSE e

\* The k-th instruction behind PC_reg: there if the cache hit, to come if not.
Fetched(t, k, ic) ==
    LET pc == PcPlus(thread_data[t].PC_reg, k)
    IN  IF ic.response = ic.tag
        THEN FiqEntry(Word(ic.data, Offset(thread_data[t].PC_reg) + k), pc, NoTag)
        ELSE FiqEntry(Zero, pc, ic.response)

\* The insert window, by the places behind the tail.
Window(t, ic) == 0..(Inserted(t, ic) - 1)

\* A slot of the window takes its instruction; data for the tag that a slot held
\* goes in all the same.
NextBuff(t, ic) ==
    LET at(k) == Slot(Plus(thread_data[t].tail_ptr, k))
    IN  [s \in Slots |->
           LET e == Filled(thread_data[t].inst_buff[s], ic)
           IN  IF \E k \in Window(t, ic) : s = at(k)
               THEN LET f == Fetched(t, CHOOSE k \in Window(t, ic) : s = at(k), ic)
                    IN  IF e # thread_data[t].inst_buff[s]
                        THEN FiqEntry(e.inst, f.pc, NoTag) ELSE f
               ELSE e]

\* n instructions are dispatched.
NextContext(t, ic, n) ==
    [PC_reg |-> PcPlus(thread_data[t].PC_reg, Inserted(t, ic)),
     inst_buff |-> NextBuff(t, ic),
     avail_size |-> thread_data[t].avail_size - Inserted(t, ic) + n,
     hd_ptr |-> Plus(thread_data[t].hd_ptr, n),
     tail_ptr |-> Plus(thread_data[t].tail_ptr, Inserted(t, ic))]

-----------------------------------------------------------------------------
\* One edge: the cache drives ic, the threads in mis are flushed to their
\* targets, the dispatcher takes n instructions.
\* Behind the last thread the code reads past pc_en_i, which may count as either.
Edge(ic, mis, target, n) ==
    LET taken(t) == IF t = ThreadIdx(mis) THEN n ELSE 0 IN
    /\ thread_data' =
         [t \in Threads |->
            IF t \in mis THEN Context(target[t])
            ELSE IF t \in Enabled THEN NextContext(t, ic, taken(t))
            ELSE thread_data[t]]
    /\ next' = [t \in Threads |->
                  IF t \in mis THEN target[t] ELSE PcPlus(next[t], taken(t))]
    /\ misses' = NextMisses(ic)
    /\ \E past \in BOOLEAN :
         LET stays == IF thread_to_ft = THREAD_NUM - 1 THEN past
                      ELSE After(thread_to_ft) \notin Enabled
         IN  thread_to_ft' = IF thread_to_ft \in mis \/ stays THEN thread_to_ft
                             ELSE After(thread_to_ft)
    /\ thread_idx_disp' = ThreadIdx(mis)
    /\ thread_counter' = After(ThreadIdx(mis))

Step(ic) ==
    \E mis \in SUBSET Enabled : \E target \in [mis -> Targets] :
    \E n \in Dispatchable(mis) : Edge(ic, mis, target, n)

Drive == \E ic \in {Quiet} \cup Hits \cup Misses : Step(ic)

\* A miss comes to its end.
Return(x) == misses[x] # NoBlock /\ Step(Answer(x))

Next == Drive \/ \E x \in Tags : Return(x)

Spec == Init /\ [][Next]_vars

\* The clock does not stop, and the cache answers in the end what it has taken. That
\* is an assumption about the program: memory serves the data cache first
\* (mem_fixed_priority_arbiter.sv l.49-54) and owes the instruction cache nothing.
FairSpec == Spec /\ WF_vars(Next) /\ \A x \in Tags : WF_vars(Return(x))
-----------------------------------------------------------------------------
Used(t) == FIQ_NUM - thread_data[t].avail_size

\* From the head on, a queue holds the thread's next instructions, one after the other
\* and up to the PC, each of them the one at its PC or waiting under a tag whose answer
\* is the block of that PC: no answer to a fetch from before a flush, no wrap and no
\* full queue puts a wrong one there (IF.sv l.327-442, l.476-516).
StreamInOrder ==
    \A t \in Enabled :
        /\ thread_data[t].tail_ptr = Plus(thread_data[t].hd_ptr, Used(t))
        /\ thread_data[t].PC_reg = PcPlus(next[t], Used(t))
        /\ \A k \in 0..(Used(t) - 1) :
             LET e == Entry(t, k) IN
             /\ e.pc = PcPlus(next[t], k)
             /\ \/ e.mem_tag = NoTag /\ e.inst = e.pc
                \/ e.mem_tag \in Tags /\ e.inst = Zero /\ misses[e.mem_tag] = Block(e.pc)

\* A thread that has instructions is offered to the dispatcher again and again, and
\* its oldest instruction does not stay away for ever (IF.sv l.562-593, l.420-433).
EveryThreadIsServed ==
    \A t \in Enabled :
        /\ []<>(Used(t) = 0 \/ thread_idx_disp = t)
        /\ []<>(Used(t) = 0 \/ Entry(t, 0).mem_tag = NoTag)
=============================================================================
