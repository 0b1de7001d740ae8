--------------------------------- MODULE RS ---------------------------------
(***************************************************************************)
(* The reservation station (RS.sv), shared by all threads, with the        *)
(* register file behind it (PRF.sv). One step is one rising clock edge.    *)
(*                                                                         *)
(* Around it, as far as it decides what the station sees: the dispatcher,  *)
(* which names operands by tag with the ready bits of the map table        *)
(* (MtReady in module Rename), and the units, which broadcast what was     *)
(* issued, later and in any order. A tag has an owner from the dispatch of *)
(* the instruction that writes it until it is returned to the free list;   *)
(* the free list returns no tag that a waiting instruction still names,    *)
(* because the reader retires before the tag does (TagsConserved in        *)
(* RenameProps).                                                           *)
(*                                                                         *)
(* A flush squashes what the units hold of the thread, but the load-store  *)
(* queue puts its own flush off while a store leaves                       *)
(* (LSQ_global_ctrl.sv l.217-255), and its loads go on to broadcast with   *)
(* the old thread, tag and rob_idx (LSQ_entry_ctrl.sv l.508-522). Such a   *)
(* stray may carry a tag that has a new owner, and may complete a new      *)
(* entry of the reorder buffer. It strikes the threads of both: what they  *)
(* compute from then on may be wrong, an instruction completed by a stray  *)
(* may retire before its own result comes, and its tag may go back while   *)
(* that result is still under way, a stray in its turn.                    *)
(***************************************************************************)
EXTENDS Integers, FiniteSetsExt

CONSTANTS
    RS_ENTRY_NUM, DP_NUM, IS_NUM, CDB_NUM,
    RSThreads,
    Tags, NoTag,     \* physical registers; NoTag is ZERO_REG
    UnitClasses,     \* the classes of unit: ALU, MULT, BR, LOAD, STORE
    NoUnit,          \* the class of an instruction that no unit executes
    Nobody,          \* the owner of a free tag
    Operands         \* operands an instruction may have, 0 to 2

ASSUME RSParameters ==
    /\ RS_ENTRY_NUM \in Nat \ {0}
    /\ DP_NUM \in 1..2 /\ DP_NUM <= RS_ENTRY_NUM
    /\ IS_NUM \in 1..RS_ENTRY_NUM
    /\ CDB_NUM \in Nat
    /\ IsFiniteSet(RSThreads)
    /\ NoTag \notin Tags /\ NoUnit \notin UnitClasses /\ Nobody \notin RSThreads
    /\ Operands \in 0..2

RSEntries == 0..(RS_ENTRY_NUM - 1)
Channels == 0..(IS_NUM - 1)

\* Registers hold "own", the result of the tag's owner, "stray", another result that
\* was broadcast for the tag since it has this owner, or "old", what was there
\* before. ZERO_REG reads as the value it should.
Values == {"old", "own", "stray"}

\* What the bus carries, as far as the station looks at it.
Results == [thread_idx : RSThreads, tag : Tags]

DecInst ==
    [thread_idx : RSThreads \cup {Nobody}, unit : UnitClasses \cup {NoUnit},
     tag : Tags \cup {NoTag},
     tag1 : Tags \cup {NoTag}, tag1_ready : BOOLEAN,
     tag2 : Tags \cup {NoTag}, tag2_ready : BOOLEAN]

Cleared ==
    [valid |-> FALSE,
     dec_inst |-> [thread_idx |-> Nobody, unit |-> NoUnit, tag |-> NoTag,
                   tag1 |-> NoTag, tag1_ready |-> FALSE,
                   tag2 |-> NoTag, tag2_ready |-> FALSE]]

VARIABLES
    rs_array,    \* the entries, [valid, dec_inst]
    valid_cnt,   \* per thread, the counter of its entries
    cod,         \* centre of dispatch
    registers,   \* of the register file, by tag
    rs_ib,       \* what the last edge issued: per channel, the thread and the values
    owner,       \* the thread that a tag belongs to
    flying,      \* tags of instructions issued and not yet broadcast
    strays,      \* results under way of instructions that are gone, or may be
    struck       \* observer: the threads that a stray has struck

rsVars ==
    <<rs_array, valid_cnt, cod, registers, rs_ib, owner, flying, strays, struck>>

NotIssued ==
    [valid |-> FALSE, thread_idx |-> Nobody, rs1_value |-> "own", rs2_value |-> "own"]

\* In reset nothing is dispatched and sod sums up centres.
RSInit ==
    /\ rs_array = [e \in RSEntries |-> Cleared]
    /\ valid_cnt = [t \in RSThreads |-> 0]
    /\ cod = RS_ENTRY_NUM \div 2
    /\ registers = [x \in Tags |-> "old"]
    /\ rs_ib = [c \in Channels |-> NotIssued]
    /\ owner = [x \in Tags |-> Nobody]
    /\ flying = {}
    /\ strays = {}
    /\ struck = {}

-----------------------------------------------------------------------------
\* Select and issue. mis are the threads that are being flushed, ready the classes
\* whose issue queue has room.

Thread(e) == rs_array[e].dec_inst.thread_idx

\* is_ready
\* Mutant: the second operand is forgotten.
IsReadyFirst(e, mis, ready) ==
    /\ rs_array[e].valid
    /\ rs_array[e].dec_inst.tag1_ready
    /\ Thread(e) \notin mis
    /\ rs_array[e].dec_inst.unit \in ready

IsReady(e, mis, ready) ==
    /\ rs_array[e].valid
    /\ rs_array[e].dec_inst.tag1_ready
    /\ rs_array[e].dec_inst.tag2_ready
    /\ Thread(e) \notin mis
    /\ rs_array[e].dec_inst.unit \in ready

\* is_entry_idx: channel c issues the entry that has c ready ones before it, counted
\* from the lowest index when the last dispatches went high, else from the highest.
LowFirst == cod >= RS_ENTRY_NUM \div 2

Before(e, S) == {d \in S : IF LowFirst THEN d < e ELSE d > e}

IsEntries(R, c) == {e \in R : Cardinality(Before(e, R)) = c}

IsSel(R) == UNION {IsEntries(R, c) : c \in Channels}

\* The results of a cycle: those of the tags in cast, by their owners, and the
\* strays in late.
Bus(cast, late) == {[thread_idx |-> owner[x], tag |-> x] : x \in cast} \cup late

TagsOf(results) == {r.tag : r \in results}

\* What the bus has for a tag in that cycle, v if nothing.
OnBus(x, cast, late, v) ==
    IF x \in TagsOf(late) THEN "stray" ELSE IF x \in cast THEN "own" ELSE v

\* The value that read port c gives for a tag. It forwards from the bus when the
\* channel of the port's own number is enabled. The broadcaster fills the channels
\* from 0.
Read(c, x, cast, late) ==
    IF x = NoTag THEN "own"
    ELSE IF c < Cardinality(cast) + Cardinality(late)
    THEN OnBus(x, cast, late, registers[x])
    ELSE registers[x]

NextIB(sel, cast, late) ==
    [c \in Channels |->
        IF IsEntries(sel, c) = {} THEN NotIssued
        ELSE LET e == CHOOSE e \in IsEntries(sel, c) : TRUE
             IN  [valid |-> TRUE,
                  thread_idx |-> Thread(e),
                  rs1_value |-> Read(c, rs_array[e].dec_inst.tag1, cast, late),
                  rs2_value |-> Read(c, rs_array[e].dec_inst.tag2, cast, late)]]

-----------------------------------------------------------------------------
\* Dispatch. sel are the entries that issue; g is a function on 0..(n - 1).

IsCnt(t, sel) == Cardinality({e \in sel : Thread(e) = t})

Occupied == MapThenSumSet(LAMBDA t : valid_cnt[t], RSThreads)

\* rs_dp_o.avail_num
AvailNum(sel) ==
    LET avail_cnt == RS_ENTRY_NUM - Occupied + Cardinality(sel)
    IN  IF avail_cnt >= DP_NUM THEN DP_NUM ELSE avail_cnt

\* entry_empty_concat: what issues in this cycle can be written again.
Empty(sel) == {e \in RSEntries : ~rs_array[e].valid \/ e \in sel}

\* dp_entry_idx, dp_valid: channel k gets the entry with k empty ones below it.
DpEntries(sel, n) ==
    {e \in Empty(sel) : Cardinality({d \in Empty(sel) : d < e}) < n}

DpChannel(e, sel) == Cardinality({d \in Empty(sel) : d < e})

\* sod and cod: the mean index of what is dispatched, with the centre for a channel
\* of the adder that dispatches nothing.
ADDER_IN_NUM ==
    CHOOSE w \in 1..(2 * DP_NUM) :
        /\ \E i \in 0..DP_NUM : w = 2^i
        /\ w >= DP_NUM /\ w < 2 * DP_NUM

NextCod(dp_sel) ==
    LET idle == ADDER_IN_NUM - Cardinality(dp_sel)
        sod == SumSet(dp_sel) + idle * (RS_ENTRY_NUM \div 2)
    IN  sod \div ADDER_IN_NUM

-----------------------------------------------------------------------------
\* Next state of the registers.

\* cp_sel_tag1, cp_sel_tag2: a channel of the bus carries the tag and the thread.
Hit(x, i, bus) == [thread_idx |-> i.thread_idx, tag |-> x] \in bus

\* Mutants of Woken: the two operands are not set independently; only one of the
\* channels of the bus is compared.
WokenOne(i, bus) ==
    IF Hit(i.tag1, i, bus) THEN [i EXCEPT !.tag1_ready = TRUE]
    ELSE IF Hit(i.tag2, i, bus) THEN [i EXCEPT !.tag2_ready = TRUE] ELSE i

WokenFirst(i, bus) ==
    LET first == IF bus = {} THEN {} ELSE {CHOOSE r \in bus : TRUE}
    IN  [i EXCEPT !.tag1_ready = @ \/ Hit(i.tag1, i, first),
                  !.tag2_ready = @ \/ Hit(i.tag2, i, first)]

Woken(i, bus) ==
    [i EXCEPT !.tag1_ready = @ \/ Hit(i.tag1, i, bus),
              !.tag2_ready = @ \/ Hit(i.tag2, i, bus)]

NextEntry(e, mis, sel, dp_sel, g, bus) ==
    IF rs_array[e].valid /\ Thread(e) \in mis THEN Cleared
    ELSE IF e \in dp_sel
    THEN [valid |-> TRUE, dec_inst |-> g[DpChannel(e, sel)]]
    ELSE IF e \in sel THEN Cleared
    ELSE IF rs_array[e].valid
    THEN [rs_array[e] EXCEPT !.dec_inst = Woken(@, bus)]
    ELSE rs_array[e]

\* Mutant of NextCnt: a flush does not reset the counter.
NextCntKept(t, mis, sel, s, n) ==
    valid_cnt[t] + (IF s = t THEN n ELSE 0) - IsCnt(t, sel)

NextCnt(t, mis, sel, s, n) ==
    IF t \in mis THEN 0
    ELSE valid_cnt[t] + (IF s = t THEN n ELSE 0) - IsCnt(t, sel)

-----------------------------------------------------------------------------
\* The surroundings: dispatcher, units and free list.

Owned(t) == {x \in Tags : owner[x] = t}
Free == Owned(Nobody)

\* Tags that an entry waits for or has yet to read, of the threads that go on.
Named(mis) ==
    UNION {{rs_array[e].dec_inst.tag1, rs_array[e].dec_inst.tag2} :
             e \in {d \in RSEntries : rs_array[d].valid /\ Thread(d) \notin mis}}

\* The groups of n instructions that the dispatcher may send for thread t, when
\* freed are the tags that go back in this cycle: a destination is a free tag (which
\* one makes no difference, since nobody names it), and an operand is ZERO_REG, the
\* destination of an older channel, or a tag of the thread, with the map table's
\* bypass of the bus.
Fresh(older) ==
    IF Free \subseteq older THEN {} ELSE {CHOOSE x \in Free \ older : TRUE}

Sources(t, older, freed) == {NoTag} \cup older \cup (Owned(t) \ freed)

\* tag_ready of the map table, which compares the tags of the bus alone (MT_SS.sv).
ReadyAtDispatch(x, older, bus) ==
    x = NoTag \/ (x \notin older /\ (registers[x] # "old" \/ x \in TagsOf(bus)))

Decoded(t, older, freed, bus) ==
    LET src == Sources(t, older, freed)
    IN  {[thread_idx |-> t, unit |-> u, tag |-> x,
          tag1 |-> a, tag1_ready |-> ReadyAtDispatch(a, older, bus),
          tag2 |-> b, tag2_ready |-> ReadyAtDispatch(b, older, bus)] :
            u \in UnitClasses \cup {NoUnit}, x \in {NoTag} \cup Fresh(older),
            a \in (IF Operands >= 1 THEN src ELSE {NoTag}),
            b \in (IF Operands >= 2 THEN src ELSE {NoTag})}

\* Groups of at most two, DP_NUM's value. An instruction that no unit executes
\* writes no register (DP_lsq.sv l.721-724).
RSGroups(t, n, freed, bus) ==
    LET legal(i) == i.unit = NoUnit => i.tag = NoTag
        first == {i \in Decoded(t, {}, freed, bus) : legal(i)}
        second(i) == {j \in Decoded(t, {i.tag} \ {NoTag}, freed, bus) : legal(j)}
    IN  CASE n = 1 -> {[k \in {0} |-> i] : i \in first}
          [] n = 2 -> UNION {{[k \in {0, 1} |-> IF k = 0 THEN i ELSE j] :
                                j \in second(i)} : i \in first}

\* What goes back in any case: the destinations of a flushed thread that have no
\* result. In a struck thread they may have retired without it.
Lost(mis) == {x \in Tags : owner[x] \in mis \ struck /\ registers[x] = "old"}

\* What may go back: a result that nobody here waits to read, and in a struck
\* thread, whose instructions may retire early, any tag.
Retired(mis) ==
    {x \in Tags : \/ registers[x] # "old" /\ x \notin Named(mis)
                  \/ owner[x] \in struck}

\* The owners of the tags that strays carry, and the threads in whose reorder
\* buffers they complete another's entry.
Struck(late, hit) == struck \cup hit \cup ({owner[x] : x \in TagsOf(late)} \ {Nobody})

\* A flush restores the map table from the committed one, all of it marked ready
\* (MT_SS.sv), whatever has come. What a free register holds makes no difference.
NextRegister(x, mis, taken, back, cast, late) ==
    IF x \in taken \cup back \/ owner[x] = Nobody THEN "old"
    ELSE IF owner[x] \in mis /\ registers[x] = "old" THEN "stray"
    ELSE OnBus(x, cast, late, registers[x])

\* The results that the entries in sel will broadcast.
Issued(sel) ==
    {[thread_idx |-> Thread(e), tag |-> rs_array[e].dec_inst.tag] :
        e \in {d \in sel : rs_array[d].dec_inst.tag # NoTag}}

\* The units' at the next edge, of the threads that are not struck.
NextFlying(issued, back, cast, late, hit) ==
    LET begun == {x \in Tags : \E r \in issued :
                    r.tag = x /\ r.thread_idx \notin Struck(late, hit)}
    IN  {x \in (flying \cup begun) \ (cast \cup back) : owner[x] \notin Struck(late, hit)}

\* The strays at the next edge. Loads of a thread that is flushed may live on, and
\* so may its strays. The results of a struck thread may come after their
\* instructions have gone. A stray may come again, when two are alike.
NextStrays(mis, issued, cast, late, hit) ==
    LET held == {[thread_idx |-> owner[x], tag |-> x] : x \in flying \ cast}
        comes == {r \in held \cup issued : r.thread_idx \in Struck(late, hit)}
        stay == {r \in strays \cup comes : r.thread_idx \notin mis} \ late
        may == strays \cup comes \cup {r \in held : r.thread_idx \in mis}
    IN  {stay \cup S : S \in SUBSET may}

\* One edge: the entries in sel issue, s dispatches the n instructions of g, the
\* results of the tags in cast and the strays in late are broadcast, strays hit the
\* reorder buffers of the threads in hit, the tags in freed go back to the free list.
RSEdge(mis, sel, s, n, g, cast, late, hit, freed) ==
    LET dp_sel == DpEntries(sel, n)
        taken == {g[k].tag : k \in 0..(n - 1)}
        back == freed \cup Lost(mis)
    IN  /\ rs_array' = [e \in RSEntries |->
                           NextEntry(e, mis, sel, dp_sel, g, Bus(cast, late))]
        /\ valid_cnt' = [t \in RSThreads |-> NextCnt(t, mis, sel, s, n)]
        /\ cod' = NextCod(dp_sel)
        /\ rs_ib' = NextIB(sel, cast, late)
        /\ registers' =
              [x \in Tags |-> NextRegister(x, mis, taken, back, cast, late)]
        /\ owner' = [x \in Tags |-> IF x \in taken THEN s
                                    ELSE IF x \in back THEN Nobody
                                    ELSE owner[x]]
        /\ struck' = Struck(late, hit)
        /\ strays' \in NextStrays(mis, Issued(sel), cast, late, hit)
        /\ flying' = NextFlying(Issued(sel), back, cast, late, hit)

\* What the bus may carry: results of the units, which hold nothing of a thread that
\* is being flushed, and strays, whenever.
Broadcasts(mis, late) ==
    {c \in SUBSET {x \in flying : owner[x] \notin mis} :
        Cardinality(c) + Cardinality(late) <= CDB_NUM}

\* A cycle in which the strays in late come, and hit the threads in hit.
Cycle(late, hit) ==
    \E mis \in SUBSET RSThreads, ready \in SUBSET UnitClasses :
    \E cast \in Broadcasts(mis, late), freed \in SUBSET Retired(mis) :
        LET sel == IsSel({e \in RSEntries : IsReady(e, mis, ready)})
        IN  \/ RSEdge(mis, sel, Nobody, 0, <<>>, cast, late, hit, freed)
            \/ \E s \in RSThreads \ mis : \E n \in 1..DP_NUM :
                  /\ n <= AvailNum(sel)
                  /\ \E g \in RSGroups(s, n, freed, Bus(cast, late)) :
                        RSEdge(mis, sel, s, n, g, cast, late, hit, freed)

RSNext ==
    \E late \in SUBSET strays : \E hit \in SUBSET {r.thread_idx : r \in late} :
        Cycle(late, hit)

RSSpec == RSInit /\ [][RSNext]_rsVars
-----------------------------------------------------------------------------
\* The types; the counters stay within the entries.
RSTypeOK ==
    /\ rs_array \in [RSEntries -> [valid : BOOLEAN, dec_inst : DecInst]]
    /\ valid_cnt \in [RSThreads -> 0..RS_ENTRY_NUM]
    /\ cod \in RSEntries
    /\ registers \in [Tags -> Values]
    /\ rs_ib \in [Channels -> [valid : BOOLEAN, thread_idx : RSThreads \cup {Nobody},
                               rs1_value : Values, rs2_value : Values]]
    /\ owner \in [Tags -> RSThreads \cup {Nobody}]
    /\ flying \subseteq Tags
    /\ strays \subseteq Results
    /\ struck \subseteq RSThreads

\* The counters are kept up and down from what is sent and what leaves (RS.sv
\* l.103-171) and never from the entries themselves. Yet each is the number of
\* entries of its thread, through dispatch into issuing entries and flushes: the
\* dispatcher is offered all the room there is, and no instruction that it sends
\* finds no entry or falls on an occupied one.
CountersCount ==
    \A t \in RSThreads :
        valid_cnt[t] = Cardinality({e \in RSEntries :
                                      rs_array[e].valid /\ Thread(e) = t})

\* In a thread that no stray has struck, an operand is marked ready exactly when the
\* register file holds the result of the instruction that it names: no broadcast is
\* missed between the map table's look at the bus, in the cycle of dispatch, and the
\* station's own, from the next cycle on (RS.sv l.242-283), none is taken for that
\* of another owner of the tag, and no stray that carries a free tag, or a tag of
\* the other thread, does harm.
WaitsForItsProducer ==
    \A e \in RSEntries :
        LET i == rs_array[e].dec_inst
            there(x) == x = NoTag \/ registers[x] = "own"
        IN  rs_array[e].valid /\ i.thread_idx \notin struck =>
                (i.tag1_ready <=> there(i.tag1)) /\ (i.tag2_ready <=> there(i.tag2))

\* What a thread that no stray has struck issues carries the results of the
\* instructions that it depends on: the read ports (PRF.sv l.63-98), which forward
\* by the wrong channel's enable, are never asked for a tag that is on the bus, and
\* a register that was written for a stray while it was free is not read as such.
ReadsItsProducer ==
    \A c \in Channels :
        rs_ib[c].valid /\ rs_ib[c].thread_idx \notin struck =>
            rs_ib[c].rs1_value = "own" /\ rs_ib[c].rs2_value = "own"

\* The station never waits for itself, struck or not: when no unit holds an
\* instruction that has yet to write a register, some waiting instruction has all
\* its operands.
NeverAllWaiting ==
    (flying = {} /\ strays = {} /\ \E e \in RSEntries : rs_array[e].valid) =>
        \E e \in RSEntries :
            /\ rs_array[e].valid
            /\ rs_array[e].dec_inst.tag1_ready
            /\ rs_array[e].dec_inst.tag2_ready
=============================================================================
