------------------------------- MODULE Rename -------------------------------
(***************************************************************************)
(* Register renaming with two-threaded retirement: the free list           *)
(* (FL_smt.sv), the map table (MT_SS.sv), the architectural map table      *)
(* (AMT.sv) and the reorder buffer (ROB.sv) of every thread, driven by the *)
(* dispatcher (DP_lsq.sv) and wired as in pipeline_ss_smt.sv. One step is  *)
(* one rising clock edge: every register is updated from the old state.    *)
(*                                                                         *)
(* The functional units are the environment: in a cycle they broadcast     *)
(* results of any instructions in flight, in any order. A flush squashes   *)
(* what they hold of the thread, but the load-store queue puts its own     *)
(* flush off while a store leaves (LSQ_global_ctrl.sv l.217-255), and its  *)
(* loads go on to broadcast with the old thread, tag and rob_idx           *)
(* (LSQ_entry_ctrl.sv l.508-522). Such a stray may complete another        *)
(* instruction, whose own result is then a stray in its turn, and may mark *)
(* a tag ready that has a new owner. It strikes the thread it does that to.*)
(***************************************************************************)
EXTENDS ROBLogic

CONSTANTS
    THREAD_NUM, ARCH_REG_NUM, PHY_REG_NUM, CDB_NUM,
    Decoded     \* what the decoder yields: records [rd, wfi]

Threads == 0..(THREAD_NUM - 1)
Regs    == 0..(ARCH_REG_NUM - 1)
Tags    == 0..(PHY_REG_NUM - 1)

\* FL_ENTRY_NUM, C_FL_START_TAG and the reset value of the map tables.
FL_ENTRY_NUM == PHY_REG_NUM - (ARCH_REG_NUM - 1) * THREAD_NUM - 1
FLEntries == 0..(FL_ENTRY_NUM - 1)
FL_START_TAG == THREAD_NUM * ARCH_REG_NUM - (THREAD_NUM - 1)
ResetTag(t, r) == IF r = 0 THEN 0 ELSE r + t * (ARCH_REG_NUM - 1)

\* What a zeroed reorder buffer entry holds of an instruction. Branch targets
\* are left out: there is one, 0.
NoRename == [rd |-> 0, tag |-> 0, tag_old |-> 0]

ASSUME RenameParameters ==
    /\ THREAD_NUM \in Nat \ {0}
    /\ ARCH_REG_NUM \in Nat \ {0}
    /\ PHY_REG_NUM \in Nat
    /\ FL_ENTRY_NUM > 0
    /\ CDB_NUM \in Nat
    /\ Decoded \subseteq [rd : Regs, wfi : BOOLEAN]
    /\ NoInst = NoRename
    /\ NoTarget = 0

VARIABLES
    rob,         \* per thread, the registers of ROB.sv
    fl,          \* fl_entry: [valid, thread_idx, tag]
    avail_num,   \* the free list's counter of valid entries
    amt,         \* per thread and register, the committed tag
    mt,          \* per thread and register, [tag, tag_ready]
    strays,      \* results under way whose instructions are gone, or complete
    struck       \* observer: the threads that a stray has struck since their flush

vars == <<rob, fl, avail_num, amt, mt, strays, struck>>

\* What the bus carries of a result.
Results == [thread_idx : Threads, rob_idx : Entries, tag : Tags]

Init ==
    /\ rob = [t \in Threads |-> EmptyROB]
    /\ fl = [f \in FLEntries |->
               [valid |-> TRUE, thread_idx |-> 0, tag |-> f + FL_START_TAG]]
    /\ avail_num = FL_ENTRY_NUM
    /\ amt = [t \in Threads |-> [r \in Regs |-> ResetTag(t, r)]]
    /\ mt = [t \in Threads |-> [r \in Regs |->
               [tag |-> ResetTag(t, r), tag_ready |-> TRUE]]]
    /\ strays = {}
    /\ struck = {}

-----------------------------------------------------------------------------
\* Wires.

\* br_mis.valid[t]
BrMis(t) == BrMisValid(rob[t])

\* The retire channels of thread t, from 0: rob_fl_o and rob_amt_o.
RetireChannels(t) == 0..(RtNum(rob[t]) - 1)
RetiringInst(t, k) == rob[t].array[rob[t].head + k].inst

\* dp_en: no dispatch for a thread whose WFI retires or has retired.
DpEn(t) == ~rob[t].rt_wfi /\ ~WfiRetires(rob[t])

FlAvail == IF avail_num > DP_NUM THEN DP_NUM ELSE avail_num

\* The most the dispatcher may take for thread t: IF offers nothing to a thread
\* that is being flushed.
DpLimit(t) ==
    IF ~DpEn(t) \/ BrMis(t) THEN 0
    ELSE IF FlAvail < DpAvail(rob[t]) THEN FlAvail ELSE DpAvail(rob[t])

\* Dispatch ends with a WFI, so only the last channel may hold one.
Groups(n) ==
    {g \in [0..(n - 1) -> Decoded] : \A k \in 0..(n - 2) : ~g[k].wfi}

\* fl_dp_o.tag[k]: the tag of the valid entry with k valid entries below it.
FlDpIdx(k) ==
    CHOOSE f \in FLEntries :
        /\ fl[f].valid
        /\ Cardinality({e \in FLEntries : e < f /\ fl[e].valid}) = k

\* How many of the first k channels of a group take a tag.
TagsBefore(g, k) == Cardinality({j \in 0..(k - 1) : g[j].rd # 0})

DpTag(g, k) ==
    IF g[k].rd = 0 THEN 0 ELSE fl[FlDpIdx(TagsBefore(g, k))].tag

\* The older channels of the group that write register r.
Writers(g, k, r) == {j \in 0..(k - 1) : r # 0 /\ g[j].rd = r}

Youngest(S) == CHOOSE j \in S : \A i \in S : i <= j

\* mt_dp_o: the tag of register r, and whether its value has been broadcast, as
\* channel k of group g reads them.
\*
\* Mutants of MtTag and MtReady: the bypass between the channels of a group, or
\* that from the data bus, is missing.
MtTagNoBypass(t, g, k, r) == mt[t][r].tag

MtReadyNoBypass(t, g, k, r, cdbTags) ==
    Writers(g, k, r) = {} /\ mt[t][r].tag_ready

MtTag(t, g, k, r) ==
    IF Writers(g, k, r) # {}
    THEN DpTag(g, Youngest(Writers(g, k, r)))
    ELSE mt[t][r].tag

MtReady(t, g, k, r, cdbTags) ==
    /\ Writers(g, k, r) = {}
    /\ mt[t][r].tag_ready \/ mt[t][r].tag \in cdbTags \ {0}

\* What dispatch writes into thread t's reorder buffer.
Renamed(t, g, k) ==
    [br_predict |-> FALSE,
     wfi |-> g[k].wfi,
     inst |-> [rd |-> g[k].rd, tag |-> DpTag(g, k),
               tag_old |-> MtTag(t, g, k, g[k].rd)]]

-----------------------------------------------------------------------------
\* The next state of each table; t dispatches the n instructions of g.

\* The free list entries whose tags the group takes.
FlDpSel(n, g) == {FlDpIdx(i) : i \in 0..(TagsBefore(g, n) - 1)}

\* The retire channels that match an entry of the free list in flight.
\* Mutant: it looks at the first channel only.
MatchingFirst(f) ==
    {k \in RetireChannels(fl[f].thread_idx) :
        k = 0 /\ RetiringInst(fl[f].thread_idx, k).tag = fl[f].tag}

Matching(f) ==
    {k \in RetireChannels(fl[f].thread_idx) :
        RetiringInst(fl[f].thread_idx, k).tag = fl[f].tag}

NextFL(t, n, g) ==
    [f \in FLEntries |->
        IF fl[f].valid THEN
            IF f \in FlDpSel(n, g)
            THEN [fl[f] EXCEPT !.valid = FALSE, !.thread_idx = t]
            ELSE fl[f]
        ELSE IF Matching(f) # {} THEN
            [valid |-> TRUE, thread_idx |-> 0,
             tag |-> RetiringInst(fl[f].thread_idx,
                                  Youngest(Matching(f))).tag_old]
        ELSE IF BrMis(fl[f].thread_idx) THEN [fl[f] EXCEPT !.valid = TRUE]
        ELSE fl[f]]

\* Mutant of Returning: a flush returns only what retires.
ReturningRetired(t) ==
    Cardinality({k \in RetireChannels(t) : RetiringInst(t, k).tag # 0})

\* thread_tag_num, thread_rt_num and next_avail_num.
Returning(t) ==
    IF BrMis(t)
    THEN Cardinality({f \in FLEntries : ~fl[f].valid /\ fl[f].thread_idx = t})
    ELSE Cardinality({k \in RetireChannels(t) : RetiringInst(t, k).tag # 0})

ReturningBelow[t \in 0..THREAD_NUM] ==
    IF t = 0 THEN 0 ELSE ReturningBelow[t - 1] + Returning(t - 1)

NextAvail(n, g) == avail_num + ReturningBelow[THREAD_NUM] - TagsBefore(g, n)

\* The retire channels of t that write register r.
Committing(t, r) == {k \in RetireChannels(t) : RetiringInst(t, k).rd = r}

\* amt_entry after the edge; it is also what amt_o shows during a rollback.
\* Mutant: of two writers, the older one is committed.
NextAMTOldest(t) ==
    [r \in Regs |->
        IF Committing(t, r) = {} THEN amt[t][r]
        ELSE RetiringInst(t, CHOOSE k \in Committing(t, r) :
                               \A j \in Committing(t, r) : k <= j).tag]

NextAMT(t) ==
    [r \in Regs |->
        IF Committing(t, r) = {} THEN amt[t][r]
        ELSE RetiringInst(t, Youngest(Committing(t, r))).tag]

\* Mutant of RolledBack: the committed table of the cycle before.
RolledBackEarly(s, r) == [tag |-> amt[s][r], tag_ready |-> TRUE]

RolledBack(s, r) == [tag |-> NextAMT(s)[r], tag_ready |-> TRUE]

\* Mutant of NewMapping: the ready bit is not cleared.
NewMappingReady(n, g, r) ==
    [tag |-> DpTag(g, Youngest(Writers(g, n, r))), tag_ready |-> TRUE]

NewMapping(n, g, r) ==
    [tag |-> DpTag(g, Youngest(Writers(g, n, r))), tag_ready |-> FALSE]

NextMT(s, t, n, g, cdbTags) ==
    [r \in Regs |->
        IF BrMis(s) THEN RolledBack(s, r)
        ELSE IF r = 0 THEN [tag |-> 0, tag_ready |-> TRUE]
        ELSE IF s = t /\ Writers(g, n, r) # {}
        THEN NewMapping(n, g, r)
        ELSE [tag |-> mt[s][r].tag,
              tag_ready |-> mt[s][r].tag_ready \/ mt[s][r].tag \in cdbTags]]

-----------------------------------------------------------------------------
\* The data bus.

Incomplete == {p \in Threads \X Entries : /\ rob[p[1]].array[p[2]].valid
                                          /\ ~rob[p[1]].array[p[2]].complete}

\* The instructions in flight whose results the units may broadcast: what they hold
\* of a thread that is being flushed is squashed in the same cycle. A load of it that
\* comes in that very cycle finds the thread's tables reset.
InFlight == {p \in Incomplete : ~BrMis(p[1])}

\* With the strays in late, the results of these may be on the bus.
Broadcasts(late) ==
    {s \in SUBSET InFlight : Cardinality(s) + Cardinality(late) <= CDB_NUM}

ResultOf(p) ==
    [thread_idx |-> p[1], rob_idx |-> p[2], tag |-> rob[p[1]].array[p[2]].inst.tag]

\* The entries that the reorder buffers complete, and the tags that the map tables
\* compare.
NamedBy(late) == {<<r.thread_idx, r.rob_idx>> : r \in late}
Completed(done, late) == done \cup NamedBy(late)
CdbTags(done, late) == {ResultOf(p).tag : p \in done} \cup {r.tag : r \in late}

\* The threads in which a stray completes an instruction or makes a tag ready.
StruckBy(late) ==
    {t \in Threads :
        \/ \E p \in NamedBy(late) \cap Incomplete : p[1] = t
        \/ \E x \in Regs : \E r \in late :
              mt[t][x].tag = r.tag /\ ~mt[t][x].tag_ready}

\* The strays at the next edge: those that do not come now, and the results of what
\* the ones that come complete. Loads of a thread that is flushed, strays or not, may
\* live on. A stray may come again, when two are alike.
NextStrays(done, late) ==
    LET overtaken == {ResultOf(p) : p \in (InFlight \ done) \cap NamedBy(late)}
        stay == {r \in strays \ late : ~BrMis(r.thread_idx)} \cup overtaken
        may == strays \cup {ResultOf(p) : p \in Incomplete \ InFlight}
    IN  {stay \cup S : S \in SUBSET may}

-----------------------------------------------------------------------------
\* One rising edge: the results of done and the strays in late are broadcast (those
\* in taken say of a branch that it was taken, against the prediction) and t
\* dispatches the n instructions of g.
Edge(t, n, g, done, late, taken) ==
    LET completed == Completed(done, late)
        cdb(s) == [i \in {p[2] : p \in {q \in completed : q[1] = s}} |->
                     [br_result |-> <<s, i>> \in taken, br_target |-> 0]]
    IN  /\ rob' = [s \in Threads |->
                     NextROB(rob[s], IF s = t THEN n ELSE 0,
                             [k \in 0..(n - 1) |-> Renamed(t, g, k)], cdb(s))]
        /\ fl' = NextFL(t, n, g)
        /\ avail_num' = NextAvail(n, g)
        /\ amt' = [s \in Threads |-> NextAMT(s)]
        /\ mt' = [s \in Threads |-> NextMT(s, t, n, g, CdbTags(done, late))]
        /\ strays' \in NextStrays(done, late)
        /\ struck' = {s \in struck \cup StruckBy(late) : ~BrMis(s)}

Next ==
    \E t \in Threads : \E n \in 0..DpLimit(t) : \E g \in Groups(n) :
    \E late \in SUBSET strays : \E done \in Broadcasts(late) :
    \E taken \in SUBSET Completed(done, late) :
        Edge(t, n, g, done, late, taken)

Spec == Init /\ [][Next]_vars
=============================================================================
