---------------------------- MODULE RenameProps ----------------------------
(***************************************************************************)
(* What must hold of the renaming tables between any two edges.            *)
(***************************************************************************)
EXTENDS Rename

\* The k-th oldest instruction of thread t, from 1.
Oldest(t, k) == rob[t].array[Advance(rob[t].head, k - 1)]

\* The instructions of t in flight, by age, that write register r.
WritersOf(t, r) ==
    {k \in 1..Occupied(rob[t]) : r # 0 /\ Oldest(t, k).inst.rd = r}

\* Every register keeps its type.
TypeOK ==
    /\ fl \in [FLEntries -> [valid : BOOLEAN, thread_idx : Threads, tag : Tags]]
    /\ avail_num \in 0..FL_ENTRY_NUM
    /\ amt \in [Threads -> [Regs -> Tags]]
    /\ mt \in [Threads -> [Regs -> [tag : Tags, tag_ready : BOOLEAN]]]
    /\ rob \in [Threads ->
                  ROBOf([rd : Regs, tag : Tags, tag_old : Tags], {0})]
    /\ strays \subseteq Results
    /\ struck \subseteq Threads

\* No physical register is lost or owned twice: the free list, whose entries in
\* flight stand for the destinations of instructions in the reorder buffers, and
\* the architectural maps of all threads share out the tags 1..PHY_REG_NUM-1
\* (FL_smt.sv l.99-133, AMT.sv l.41-46).
TagsConserved ==
    LET flTags == {fl[f].tag : f \in FLEntries}
        amtTags == {amt[t][r] : t \in Threads, r \in Regs \ {0}}
    IN  /\ flTags \cup amtTags = Tags \ {0}
        /\ flTags \cap amtTags = {}
        /\ \A f, e \in FLEntries : fl[f].tag = fl[e].tag => f = e
        /\ \A t \in Threads : amt[t][0] = 0

\* The free list's entries in flight are exactly the destinations of the
\* instructions in the reorder buffers, thread by thread: a flush, a retirement
\* and a dispatch in the same cycle leave no orphan (FL_smt.sv l.100-133).
InFlightMatchesROB ==
    \A t \in Threads :
        {fl[f].tag : f \in {e \in FLEntries : ~fl[e].valid /\ fl[e].thread_idx = t}}
            = {Oldest(t, k).inst.tag : k \in 1..Occupied(rob[t])} \ {0}

\* avail_num, updated from counts of what leaves and what returns, is the number
\* of free entries (FL_smt.sv l.174-219).
AvailCounts == avail_num = Cardinality({f \in FLEntries : fl[f].valid})

\* The map table names, for every register, the youngest instruction in flight
\* that writes it, or else the committed tag (MT_SS.sv l.98-148).
MapsYoungestWriter ==
    \A t \in Threads, r \in Regs :
        mt[t][r].tag =
            IF WritersOf(t, r) = {} THEN amt[t][r]
            ELSE Oldest(t, Youngest(WritersOf(t, r))).inst.tag

\* In a thread that no stray has struck since its last flush, a register is marked
\* ready exactly when that instruction has completed: no broadcast is missed, none
\* of an older writer is taken for it, and no stray of either thread does harm whose
\* tag is free, or retired, or whose place in the reorder buffer is empty, or
\* complete (MT_SS.sv l.106-121).
ReadyIffProduced ==
    \A t \in Threads \ struck, r \in Regs :
        mt[t][r].tag_ready <=>
            \/ WritersOf(t, r) = {}
            \/ Oldest(t, Youngest(WritersOf(t, r))).complete

\* tag_old is what the register was mapped to when the instruction was renamed,
\* so that what its retirement frees is the value nobody can read any more
\* (MT_SS.sv l.86-89, DP_lsq.sv l.393).
FreesThePrevious ==
    \A t \in Threads : \A k \in 1..Occupied(rob[t]) :
        LET i == Oldest(t, k).inst
            before == {j \in WritersOf(t, i.rd) : j < k}
        IN  i.rd # 0 =>
              i.tag_old = IF before = {} THEN amt[t][i.rd]
                          ELSE Oldest(t, Youngest(before)).inst.tag

\* What a group of a thread that is not struck is told of its operands in the very
\* cycle of a broadcast: an operand is ready exactly when no older channel of the
\* group writes it and its youngest writer in flight, if any, has completed or is
\* being broadcast now, so that no reservation station ever waits for a result that
\* is already past (MT_SS.sv l.45-93).
OperandsMissNoBroadcast ==
    \A late \in SUBSET strays : \A done \in Broadcasts(late) :
    \A t \in Threads \ (struck \cup StruckBy(late)) :
    \A n \in 1..DpLimit(t) : \A g \in Groups(n) :
    \A k \in 0..(n - 1), r \in Regs :
        MtReady(t, g, k, r, CdbTags(done, late)) <=>
            /\ Writers(g, k, r) = {}
            /\ \/ WritersOf(t, r) = {}
               \/ LET y == Youngest(WritersOf(t, r))
                  IN  \/ Oldest(t, y).complete
                      \/ <<t, Advance(rob[t].head, y - 1)>> \in done
=============================================================================
