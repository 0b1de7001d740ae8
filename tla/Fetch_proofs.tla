---------------------------- MODULE Fetch_proofs ----------------------------
(***************************************************************************)
(* The order of the fetch queues, for every number of threads, size of a   *)
(* queue and of the program, and every set of tags.                        *)
(***************************************************************************)
EXTENDS Fetch, TLAPS

Blocks == {Block(pc) : pc \in Pcs}

FiqEntries == [inst : Pcs \cup {Zero}, pc : Pcs, mem_tag : Tags \cup {NoTag}]

Contexts ==
    [PC_reg : Pcs, inst_buff : [Slots -> FiqEntries], avail_size : 0..FIQ_NUM,
     hd_ptr : 0..(2 * FIQ_NUM - 1), tail_ptr : 0..(2 * FIQ_NUM - 1)]

\* The entry e may stand at pc, with ms under way.
Right(e, pc, ms) ==
    /\ e.pc = pc
    /\ \/ e.mem_tag = NoTag /\ e.inst = pc
       \/ e.mem_tag \in Tags /\ e.inst = Zero /\ ms[e.mem_tag] = Block(pc)

UsedOf(c) == FIQ_NUM - c.avail_size

At(c, k) == Slot(Plus(c.hd_ptr, k))

\* A queue whose head is at the PC nx.
InOrder(c, nx, ms) ==
    /\ c.tail_ptr = Plus(c.hd_ptr, UsedOf(c))
    /\ c.PC_reg = PcPlus(nx, UsedOf(c))
    /\ \A k \in 0..(UsedOf(c) - 1) : Right(c.inst_buff[At(c, k)], PcPlus(nx, k), ms)

\* No slot outside the queue waits for an answer.
NoStrays(c) ==
    \A s \in Slots :
        c.inst_buff[s].mem_tag # NoTag => \E k \in 0..(UsedOf(c) - 1) : s = At(c, k)

Typed ==
    /\ thread_data \in [Threads -> Contexts]
    /\ next \in [Threads -> Pcs]
    /\ misses \in [Tags -> Blocks \cup {NoBlock}]
    /\ thread_to_ft \in Threads
    /\ thread_counter \in Threads

\* The inductive invariant. StreamInOrder alone is not inductive: a slot behind the
\* tail with a tag of its own would be filled over the instruction that goes in.
IInv ==
    /\ Typed
    /\ \A t \in Enabled : InOrder(thread_data[t], next[t], misses) /\ NoStrays(thread_data[t])

-----------------------------------------------------------------------------
\* Pointers, PCs and blocks.

\* The widths, as inequalities.
LEMMA Sizes ==
    /\ FIQ_NUM \in Nat /\ FIQ_NUM >= 1
    /\ PC_NUM \in Nat /\ PC_NUM >= 2 /\ FIQ_NUM <= PC_NUM
    /\ THREAD_NUM \in Nat /\ THREAD_NUM >= 1
    /\ DP_NUM \in Nat
    /\ NoTag \notin Tags /\ Enabled \subseteq Threads /\ Targets \subseteq Pcs
  BY FetchParameters

\* Two moves of a pointer are one.
LEMMA PlusTwice ==
  ASSUME NEW p \in 0..(2 * FIQ_NUM - 1), NEW a \in Nat, NEW b \in Nat,
         a + b <= 2 * FIQ_NUM
  PROVE  /\ Plus(p, a) \in 0..(2 * FIQ_NUM - 1)
         /\ Plus(Plus(p, a), b) = Plus(p, a + b)
  BY Sizes DEF Plus

LEMMA PcPlusTwice ==
  ASSUME NEW pc \in Pcs, NEW a \in Nat, NEW b \in Nat, a + b <= PC_NUM
  PROVE  /\ PcPlus(pc, a) \in Pcs
         /\ PcPlus(PcPlus(pc, a), b) = PcPlus(pc, a + b)
  BY Sizes DEF PcPlus, Pcs

\* The places of a queue are slots, and no two of them the same one.
LEMMA PlacesDiffer ==
  ASSUME NEW p \in 0..(2 * FIQ_NUM - 1), NEW a \in 0..(FIQ_NUM - 1),
         NEW b \in 0..(FIQ_NUM - 1)
  PROVE  /\ Slot(Plus(p, a)) \in Slots
         /\ Slot(Plus(p, a)) = Slot(Plus(p, b)) => a = b
  BY Sizes DEF Plus, Slot, Slots

\* An address is its block and its offset, and a block does not reach past the end
\* of the memory.
LEMMA WordOfPc ==
  ASSUME NEW pc \in Pcs
  PROVE  /\ Offset(pc) \in {0, 1}
         /\ Word(Block(pc), Offset(pc)) = pc
         /\ Block(pc) \in Blocks /\ Block(pc) # NoBlock
  BY Sizes DEF Offset, Word, Block, Blocks, NoBlock, Pcs

LEMMA RestOfBlock ==
  ASSUME NEW pc \in Pcs, NEW k \in 0..(1 - Offset(pc))
  PROVE  /\ PcPlus(pc, k) \in Pcs
         /\ PcPlus(pc, k) = Word(Block(pc), Offset(pc) + k)
         /\ Block(PcPlus(pc, k)) = Block(pc)
<1>1. PC_NUM % 2 = 0 /\ PC_NUM \in Nat
  BY FetchParameters
<1>2. pc \in 0..(PC_NUM - 1) /\ pc + k < PC_NUM
  BY <1>1 DEF Offset, Pcs
<1> QED
  BY <1>1, <1>2 DEF PcPlus, Word, Block, Offset, Pcs

-----------------------------------------------------------------------------
\* One thread's queue at one edge.

\* What the cache may drive: nothing, an answer to a miss, or a hit or a miss of the
\* block that thread_to_ft asks for.
Driven(ic) == ic \in {Quiet} \cup Hits \cup Misses \/ \E x \in Tags : misses[x] # NoBlock /\ ic = Answer(x)

\* n instructions may leave t's queue: they are there, and have come.
Leaves(t, n) ==
    /\ n \in 0..UsedOf(thread_data[t])
    /\ \A k \in 0..(n - 1) : Entry(t, k).inst # Zero

\* What goes in fits, and is what is left of the block.
LEMMA InsertedFits ==
  ASSUME Typed, NEW t \in Threads, NEW ic
  PROVE  /\ Inserted(t, ic) \in 0..thread_data[t].avail_size
         /\ Inserted(t, ic) \in Nat
         /\ \A k \in Window(t, ic) : k \in 0..(1 - Offset(thread_data[t].PC_reg))
         /\ Inserted(t, ic) > 0 => t = thread_to_ft /\ ic.response # NoTag
<1>1. thread_data[t].avail_size \in 0..FIQ_NUM /\ thread_data[t].PC_reg \in Pcs
  BY DEF Typed, Contexts
<1>2. Offset(thread_data[t].PC_reg) \in {0, 1}
  BY <1>1, WordOfPc
<1> QED
  BY <1>1, <1>2, Sizes DEF Inserted, Window, Lesser

\* An entry that is right is right after the edge: only the answer to its own miss
\* touches it, and that is the block of its PC.
LEMMA RightStays ==
  ASSUME Typed, NEW ic, Driven(ic), NEW e \in FiqEntries, NEW pc \in Pcs,
         Right(e, pc, misses)
  PROVE  Right(Filled(e, ic), pc, NextMisses(ic))
<1>1. CASE e.mem_tag = NoTag
  BY <1>1, Sizes DEF Right, Filled
<1>2. CASE e.mem_tag \in Tags
  <2>0. e.mem_tag # NoTag /\ e.pc = pc /\ e.inst = Zero /\ misses[e.mem_tag] = Block(pc)
    BY <1>2, Sizes DEF Right
  <2>1. misses[e.mem_tag] # NoBlock /\ e.mem_tag \notin Free
    BY <2>0, WordOfPc DEF Free
  <2>2. CASE ic = Quiet
    BY <1>2, <2>0, <2>2, Sizes DEF Quiet, Filled, NextMisses, Right
  <2>3. CASE ic \in Hits
    <3>1. PICK x \in Free : ic = [response |-> x, tag |-> x, data |-> RequestedBlock]
      BY <2>3 DEF Hits
    <3> QED
      BY <1>2, <2>0, <2>1, <3>1, Sizes DEF Filled, NextMisses, Right
  <2>4. CASE ic \in Misses
    <3>1. PICK x \in Free : ic = [response |-> x, tag |-> NoTag, data |-> NoBlock]
      BY <2>4 DEF Misses
    <3> QED
      BY <1>2, <2>0, <2>1, <3>1, Sizes DEF Filled, NextMisses, Right
  <2>5. ASSUME NEW x \in Tags, misses[x] # NoBlock, ic = Answer(x)
        PROVE  Right(Filled(e, ic), pc, NextMisses(ic))
    <3>1. ic.response = NoTag /\ ic.tag = x /\ ic.data = misses[x] /\ x # NoTag
      BY <2>5, Sizes DEF Answer
    <3>2. CASE e.mem_tag = x
      <4>1. Filled(e, ic) = FiqEntry(Word(Block(pc), Offset(pc)), pc, NoTag)
        BY <2>0, <3>1, <3>2 DEF Filled
      <4> QED
        BY <4>1, WordOfPc DEF Right, FiqEntry
    <3>3. CASE e.mem_tag # x
      BY <1>2, <2>0, <3>1, <3>3, Sizes DEF Filled, NextMisses, Right
    <3> QED
      BY <3>2, <3>3
  <2> QED
    BY <2>2, <2>3, <2>4, <2>5 DEF Driven
<1> QED
  BY <1>1, <1>2 DEF Right

\* What comes from the cache are instructions.
LEMMA FilledTyped ==
  ASSUME Typed, NEW ic, Driven(ic), NEW e \in FiqEntries
  PROVE  Filled(e, ic) \in FiqEntries
<1>1. CASE ic.tag # NoTag /\ e.mem_tag = ic.tag
  <2>1. ic.data \in Blocks
    <3>1. CASE ic \in Hits
      <4>1. RequestedBlock \in Blocks
        BY DEF Typed, Contexts, RequestedBlock, Blocks
      <4> QED
        BY <3>1, <4>1 DEF Hits
    <3>2. ASSUME NEW x \in Tags, misses[x] # NoBlock, ic = Answer(x)
          PROVE  ic.data \in Blocks
      BY <3>2 DEF Answer, Typed
    <3> QED
      BY <1>1, <3>1, <3>2 DEF Driven, Quiet, Misses
  <2>2. PICK pc \in Pcs : ic.data = Block(pc)
    BY <2>1 DEF Blocks
  <2>3. Offset(e.pc) \in {0, 1} /\ e.pc \in Pcs
    BY WordOfPc DEF FiqEntries
  <2>4. PC_NUM % 2 = 0 /\ PC_NUM \in Nat
    BY FetchParameters
  <2>5. Word(Block(pc), Offset(e.pc)) \in Pcs
    BY <2>3, <2>4 DEF Word, Block, Pcs
  <2> QED
    BY <1>1, <2>2, <2>3, <2>5 DEF Filled, FiqEntry, FiqEntries
<1> QED
  BY <1>1 DEF Filled

\* An instruction that goes in is the one at its PC or waits for its block.
LEMMA FetchedIsRight ==
  ASSUME Typed, NEW ic, Driven(ic), NEW t \in Threads, NEW k \in Window(t, ic)
  PROVE  /\ Fetched(t, k, ic) \in FiqEntries
         /\ Right(Fetched(t, k, ic), PcPlus(thread_data[t].PC_reg, k), NextMisses(ic))
<1> DEFINE PC == thread_data[t].PC_reg
<1>1. PC \in Pcs
  BY DEF Typed, Contexts
<1>2. k \in 0..(1 - Offset(PC))
  BY InsertedFits
<1>3. t = thread_to_ft /\ ic.response # NoTag
  BY InsertedFits DEF Window
<1>4. /\ PcPlus(PC, k) \in Pcs
      /\ PcPlus(PC, k) = Word(Block(PC), Offset(PC) + k)
      /\ Block(PcPlus(PC, k)) = Block(PC)
  BY <1>1, <1>2, RestOfBlock
<1>5. RequestedBlock = Block(PC)
  BY <1>3 DEF RequestedBlock
<1> HIDE DEF PC
<1>6. CASE ic \in Hits
  <2>1. PICK x \in Free : ic = [response |-> x, tag |-> x, data |-> RequestedBlock]
    BY <1>6 DEF Hits
  <2>2. Fetched(t, k, ic) = FiqEntry(PcPlus(PC, k), PcPlus(PC, k), NoTag)
    BY <2>1, <1>4, <1>5 DEF Fetched, PC
  <2> QED
    BY <2>2, <1>4 DEF Right, FiqEntry, FiqEntries, PC
<1>7. CASE ic \in Misses
  <2>1. PICK x \in Free : ic = [response |-> x, tag |-> NoTag, data |-> NoBlock]
    BY <1>7 DEF Misses
  <2>2. x \in Tags /\ x # NoTag
    BY Sizes DEF Free
  <2>3. Fetched(t, k, ic) = FiqEntry(Zero, PcPlus(PC, k), x)
    BY <2>1, <2>2 DEF Fetched, PC
  <2>4. NextMisses(ic)[x] = Block(PC)
    BY <2>1, <2>2, <1>5 DEF NextMisses
  <2> QED
    BY <2>2, <2>3, <2>4, <1>4 DEF Right, FiqEntry, FiqEntries, PC
<1>8. ic \in Hits \/ ic \in Misses
  BY <1>3 DEF Driven, Quiet, Answer
<1> QED
  BY <1>6, <1>7, <1>8

\* The k-th place behind the tail is the (Used + k)-th behind the head.
LEMMA TailPlaces ==
  ASSUME NEW c \in Contexts, c.tail_ptr = Plus(c.hd_ptr, UsedOf(c)),
         NEW k \in 0..(c.avail_size - 1)
  PROVE  /\ Slot(Plus(c.tail_ptr, k)) = At(c, UsedOf(c) + k)
         /\ UsedOf(c) + k \in 0..(FIQ_NUM - 1)
<1>1. /\ c.hd_ptr \in 0..(2 * FIQ_NUM - 1) /\ c.avail_size \in 0..FIQ_NUM
      /\ UsedOf(c) \in Nat /\ UsedOf(c) + k <= FIQ_NUM - 1 /\ k \in Nat
  BY Sizes DEF Contexts, UsedOf
<1>2. UsedOf(c) + k <= 2 * FIQ_NUM
  BY <1>1, Sizes
<1>3. Plus(Plus(c.hd_ptr, UsedOf(c)), k) = Plus(c.hd_ptr, UsedOf(c) + k)
  BY <1>1, <1>2, PlusTwice
<1> QED
  BY <1>1, <1>3 DEF At

\* What the slots hold after an edge: a place of the queue what it held, filled if
\* its answer came; a place of the window what was fetched, and nothing else, since no
\* slot outside the queue waits; any other slot what it held.
LEMMA SlotsAfter ==
  ASSUME Typed, NEW t \in Threads, NEW ic,
         InOrder(thread_data[t], next[t], misses), NoStrays(thread_data[t])
  PROVE  LET c == thread_data[t] IN
         /\ \A k \in 0..(UsedOf(c) - 1) :
               NextBuff(t, ic)[At(c, k)] = Filled(c.inst_buff[At(c, k)], ic)
         /\ \A k \in Window(t, ic) :
               NextBuff(t, ic)[At(c, UsedOf(c) + k)] = Fetched(t, k, ic)
         /\ \A s \in Slots :
               \/ NextBuff(t, ic)[s] = Filled(c.inst_buff[s], ic)
               \/ \E k \in Window(t, ic) : s = At(c, UsedOf(c) + k)
<1> DEFINE c == thread_data[t]
           at(k) == Slot(Plus(c.tail_ptr, k))
<1>1. c \in Contexts /\ c.hd_ptr \in 0..(2 * FIQ_NUM - 1) /\ c.avail_size \in 0..FIQ_NUM
  BY DEF Typed, Contexts
<1>2. c.tail_ptr = Plus(c.hd_ptr, UsedOf(c))
  BY DEF InOrder
<1>3. /\ Inserted(t, ic) \in 0..c.avail_size
      /\ \A k \in Window(t, ic) : k \in 0..(c.avail_size - 1)
  BY InsertedFits, <1>1 DEF Window
<1> HIDE DEF c
<1>4. \A k \in Window(t, ic) :
        at(k) = At(c, UsedOf(c) + k) /\ UsedOf(c) + k \in 0..(FIQ_NUM - 1)
  BY <1>1, <1>2, <1>3, TailPlaces
<1>5. \A j \in 0..(FIQ_NUM - 1), k \in 0..(FIQ_NUM - 1) :
        At(c, j) \in Slots /\ (At(c, j) = At(c, k) => j = k)
  BY <1>1, PlacesDiffer DEF At
<1>6. UsedOf(c) \in 0..FIQ_NUM
  BY <1>1, Sizes DEF UsedOf
<1>7. ASSUME NEW s \in Slots, ~\E k \in Window(t, ic) : s = at(k)
      PROVE  NextBuff(t, ic)[s] = Filled(c.inst_buff[s], ic)
  BY <1>7 DEF NextBuff, c
<1>8. ASSUME NEW k \in 0..(UsedOf(c) - 1)
      PROVE  NextBuff(t, ic)[At(c, k)] = Filled(c.inst_buff[At(c, k)], ic)
  <2>1. k \in 0..(FIQ_NUM - 1)
    BY <1>6, Sizes
  <2>2. At(c, k) \in Slots
    BY <2>1, <1>5
  <2>3. ASSUME NEW j \in Window(t, ic) PROVE At(c, k) # at(j)
    <3>1. UsedOf(c) + j # k
      BY <1>3, <1>6 DEF Window
    <3> QED
      BY <2>1, <3>1, <1>4, <1>5
  <2> HIDE DEF at
  <2> QED
    BY <1>7, <2>2, <2>3
<1>9. ASSUME NEW k \in Window(t, ic)
      PROVE  NextBuff(t, ic)[At(c, UsedOf(c) + k)] = Fetched(t, k, ic)
  <2>1. at(k) \in Slots /\ at(k) = At(c, UsedOf(c) + k)
    BY <1>4, <1>5
  <2>2. \A j \in Window(t, ic) : at(j) = at(k) => j = k
    <3> SUFFICES ASSUME NEW j \in Window(t, ic), at(j) = at(k) PROVE j = k
      OBVIOUS
    <3>1. j \in Int /\ k \in Int /\ UsedOf(c) \in Int
      BY <1>3, <1>6
    <3>3. UsedOf(c) + j = UsedOf(c) + k
      BY <1>4, <1>5
    <3> QED
      BY <3>1, <3>3
  <2>3. (CHOOSE j \in Window(t, ic) : at(k) = at(j)) = k
    BY <2>2
  <2>4. c.inst_buff[at(k)].mem_tag = NoTag
    <3>1. ASSUME NEW j \in 0..(UsedOf(c) - 1) PROVE at(k) # At(c, j)
      <4>1. j \in 0..(FIQ_NUM - 1) /\ UsedOf(c) + k # j
        BY <1>3, <1>6, Sizes
      <4> QED
        BY <4>1, <1>4, <1>5
    <3> QED
      BY <2>1, <3>1 DEF NoStrays, c
  <2>5. Filled(c.inst_buff[at(k)], ic) = c.inst_buff[at(k)]
    BY <2>4 DEF Filled
  <2>6. NextBuff(t, ic)[at(k)] = Fetched(t, CHOOSE j \in Window(t, ic) : at(k) = at(j), ic)
    BY <2>1, <2>5 DEF NextBuff, c
  <2> QED
    BY <2>1, <2>3, <2>6
<1>10. ASSUME NEW s \in Slots
       PROVE  \/ NextBuff(t, ic)[s] = Filled(c.inst_buff[s], ic)
              \/ \E k \in Window(t, ic) : s = At(c, UsedOf(c) + k)
  BY <1>4, <1>7
<1> QED
  BY <1>8, <1>9, <1>10 DEF c

\* The queue that an edge leaves behind is in order, and its slots outside wait for
\* nothing.
LEMMA QueueStaysInOrder ==
  ASSUME Typed, NEW t \in Threads, NEW ic, Driven(ic), NEW n, Leaves(t, n),
         InOrder(thread_data[t], next[t], misses), NoStrays(thread_data[t])
  PROVE  /\ NextContext(t, ic, n) \in Contexts
         /\ PcPlus(next[t], n) \in Pcs
         /\ InOrder(NextContext(t, ic, n), PcPlus(next[t], n), NextMisses(ic))
         /\ NoStrays(NextContext(t, ic, n))
<1> DEFINE c == thread_data[t]
           d == NextContext(t, ic, n)
           nx == next[t]
           in == Inserted(t, ic)
<1>1. /\ c \in Contexts /\ c.hd_ptr \in 0..(2 * FIQ_NUM - 1) /\ c.avail_size \in 0..FIQ_NUM
      /\ c.tail_ptr \in 0..(2 * FIQ_NUM - 1) /\ c.PC_reg \in Pcs /\ nx \in Pcs
      /\ c.inst_buff \in [Slots -> FiqEntries]
  BY DEF Typed, Contexts
<1>2. /\ in \in 0..c.avail_size
      /\ \A k \in Window(t, ic) : k \in 0..(in - 1)
      /\ \A k \in 0..(in - 1) : k \in Window(t, ic)
  BY InsertedFits DEF Window
<1>3. UsedOf(c) \in 0..FIQ_NUM /\ n \in 0..UsedOf(c)
  BY <1>1, Sizes DEF UsedOf, Leaves
<1>4. /\ d.PC_reg = PcPlus(c.PC_reg, in) /\ d.inst_buff = NextBuff(t, ic)
      /\ d.avail_size = c.avail_size - in + n
      /\ d.hd_ptr = Plus(c.hd_ptr, n) /\ d.tail_ptr = Plus(c.tail_ptr, in)
  BY DEF NextContext
<1>5. /\ \A k \in 0..(UsedOf(c) - 1) : NextBuff(t, ic)[At(c, k)] = Filled(c.inst_buff[At(c, k)], ic)
      /\ \A k \in Window(t, ic) : NextBuff(t, ic)[At(c, UsedOf(c) + k)] = Fetched(t, k, ic)
      /\ \A s \in Slots :
            \/ NextBuff(t, ic)[s] = Filled(c.inst_buff[s], ic)
            \/ \E k \in Window(t, ic) : s = At(c, UsedOf(c) + k)
  BY SlotsAfter
<1>6. /\ c.tail_ptr = Plus(c.hd_ptr, UsedOf(c)) /\ c.PC_reg = PcPlus(nx, UsedOf(c))
      /\ \A k \in 0..(UsedOf(c) - 1) : Right(c.inst_buff[At(c, k)], PcPlus(nx, k), misses)
  BY DEF InOrder
<1>7. \A k \in Window(t, ic) :
        /\ Fetched(t, k, ic) \in FiqEntries
        /\ Right(Fetched(t, k, ic), PcPlus(c.PC_reg, k), NextMisses(ic))
  BY FetchedIsRight
<1>8. \A k \in 0..(n - 1) : c.inst_buff[At(c, k)].inst # Zero
  BY DEF Leaves, Entry, At
<1> HIDE DEF c, nx, in
<1>9. NextBuff(t, ic) \in [Slots -> FiqEntries]
  <2>1. \A u \in Slots : NextBuff(t, ic)[u] \in FiqEntries
    <3> SUFFICES ASSUME NEW u \in Slots PROVE NextBuff(t, ic)[u] \in FiqEntries
      OBVIOUS
    <3>1. CASE NextBuff(t, ic)[u] = Filled(c.inst_buff[u], ic)
      BY <3>1, <1>1, FilledTyped
    <3>2. CASE \E k \in Window(t, ic) : u = At(c, UsedOf(c) + k)
      BY <3>2, <1>5, <1>7
    <3> QED
      BY <3>1, <3>2, <1>5
  <2> QED
    BY <2>1 DEF NextBuff
<1> HIDE DEF d
<1>10. /\ UsedOf(d) = UsedOf(c) - n + in /\ UsedOf(d) \in Nat /\ UsedOf(d) <= FIQ_NUM
       /\ UsedOf(c) - n \in Nat /\ in \in Nat /\ n \in Nat /\ UsedOf(c) \in Nat
       /\ UsedOf(c) + in <= FIQ_NUM
       /\ d.avail_size \in 0..FIQ_NUM
  BY <1>1, <1>2, <1>3, <1>4, Sizes DEF UsedOf
<1>11. \A k \in 0..(UsedOf(d) - 1) :
         At(d, k) = At(c, n + k) /\ PcPlus(PcPlus(nx, n), k) = PcPlus(nx, n + k)
  <2> SUFFICES ASSUME NEW k \in 0..(UsedOf(d) - 1)
               PROVE  /\ At(d, k) = At(c, n + k)
                      /\ PcPlus(PcPlus(nx, n), k) = PcPlus(nx, n + k)
    OBVIOUS
  <2>1. k \in Nat /\ n + k <= 2 * FIQ_NUM /\ n + k <= PC_NUM
    BY <1>10, Sizes
  <2> QED
    BY <2>1, <1>1, <1>4, <1>10, PlusTwice, PcPlusTwice DEF At
<1>12. d \in Contexts /\ PcPlus(nx, n) \in Pcs
  <2>1. PcPlus(nx, n) \in Pcs /\ d.PC_reg \in Pcs
    <3>1. n + 0 <= PC_NUM /\ in + 0 <= PC_NUM
      BY <1>10, Sizes
    <3> QED
      BY <3>1, <1>1, <1>4, <1>10, PcPlusTwice
  <2>2. d.hd_ptr \in 0..(2 * FIQ_NUM - 1) /\ d.tail_ptr \in 0..(2 * FIQ_NUM - 1)
    <3>1. n + 0 <= 2 * FIQ_NUM /\ in + 0 <= 2 * FIQ_NUM
      BY <1>10, Sizes
    <3> QED
      BY <3>1, <1>1, <1>4, <1>10, PlusTwice
  <2> QED
    BY <2>1, <2>2, <1>4, <1>9, <1>10 DEF Contexts, NextContext, d
<1>13. d.tail_ptr = Plus(d.hd_ptr, UsedOf(d)) /\ d.PC_reg = PcPlus(PcPlus(nx, n), UsedOf(d))
  <2>1. /\ UsedOf(c) + in <= 2 * FIQ_NUM /\ UsedOf(c) + in <= PC_NUM
        /\ n + UsedOf(d) = UsedOf(c) + in
    BY <1>10, Sizes
  <2>2. /\ Plus(Plus(c.hd_ptr, UsedOf(c)), in) = Plus(c.hd_ptr, UsedOf(c) + in)
        /\ Plus(Plus(c.hd_ptr, n), UsedOf(d)) = Plus(c.hd_ptr, n + UsedOf(d))
    BY <2>1, <1>1, <1>10, PlusTwice
  <2>3. /\ PcPlus(PcPlus(nx, UsedOf(c)), in) = PcPlus(nx, UsedOf(c) + in)
        /\ PcPlus(PcPlus(nx, n), UsedOf(d)) = PcPlus(nx, n + UsedOf(d))
    BY <2>1, <1>1, <1>10, PcPlusTwice
  <2> QED
    BY <2>1, <2>2, <2>3, <1>4, <1>6
<1>14. ASSUME NEW k \in 0..(UsedOf(d) - 1)
       PROVE  Right(d.inst_buff[At(d, k)], PcPlus(PcPlus(nx, n), k), NextMisses(ic))
  <2>1. CASE n + k < UsedOf(c)
    <3>1. n + k \in 0..(UsedOf(c) - 1) /\ n + k \in 0..(FIQ_NUM - 1)
      BY <2>1, <1>3, <1>10, Sizes
    <3>2. Right(c.inst_buff[At(c, n + k)], PcPlus(nx, n + k), misses)
      BY <3>1, <1>6
    <3>3. At(c, n + k) \in Slots
      BY <3>1, <1>1, PlacesDiffer DEF At
    <3>4. n + k + 0 <= PC_NUM /\ n + k \in Nat
      BY <3>1, Sizes
    <3>5. PcPlus(nx, n + k) \in Pcs
      BY <3>4, <1>1, PcPlusTwice
    <3>6. Right(Filled(c.inst_buff[At(c, n + k)], ic), PcPlus(nx, n + k), NextMisses(ic))
      BY <3>2, <3>3, <3>5, <1>1, RightStays
    <3> QED
      BY <3>1, <3>6, <1>4, <1>5, <1>11
  <2>2. CASE ~(n + k < UsedOf(c))
    <3> DEFINE j == n + k - UsedOf(c)
    <3>1. j \in 0..(in - 1) /\ n + k = UsedOf(c) + j /\ j \in Nat
      BY <2>2, <1>10
    <3>2. UsedOf(c) + j <= PC_NUM
      BY <3>1, <1>10, Sizes
    <3> HIDE DEF j
    <3>3. PcPlus(c.PC_reg, j) = PcPlus(nx, n + k)
      BY <3>1, <3>2, <1>1, <1>6, <1>10, PcPlusTwice
    <3>4. j \in Window(t, ic)
      BY <3>1, <1>2
    <3>5. NextBuff(t, ic)[At(c, UsedOf(c) + j)] = Fetched(t, j, ic)
      BY <3>4, <1>5
    <3> QED
      BY <3>1, <3>3, <3>4, <3>5, <1>4, <1>7, <1>11
  <2> QED
    BY <2>1, <2>2
<1>15. ASSUME NEW u \in Slots, d.inst_buff[u].mem_tag # NoTag
       PROVE  \E k \in 0..(UsedOf(d) - 1) : u = At(d, k)
  <2>1. CASE \E k \in Window(t, ic) : u = At(c, UsedOf(c) + k)
    <3>1. PICK k \in Window(t, ic) : u = At(c, UsedOf(c) + k)
      BY <2>1
    <3>2. UsedOf(c) - n + k \in 0..(UsedOf(d) - 1) /\ n + (UsedOf(c) - n + k) = UsedOf(c) + k
      BY <1>2, <1>10
    <3> QED
      BY <3>1, <3>2, <1>11
  <2>2. CASE NextBuff(t, ic)[u] = Filled(c.inst_buff[u], ic)
    <3>1. c.inst_buff[u].mem_tag # NoTag
      BY <2>2, <1>4, <1>15 DEF Filled, FiqEntry
    <3>2. PICK k \in 0..(UsedOf(c) - 1) : u = At(c, k)
      BY <3>1 DEF NoStrays, c
    <3>3. Right(c.inst_buff[At(c, k)], PcPlus(nx, k), misses)
      BY <1>6
    <3>4. ~(k < n)
      <4>1. SUFFICES ASSUME k < n PROVE FALSE
        OBVIOUS
      <4>2. k \in 0..(n - 1)
        BY <4>1, <1>10
      <4> QED
        BY <4>2, <3>1, <3>2, <3>3, <1>8 DEF Right
    <3>5. k - n \in 0..(UsedOf(d) - 1) /\ n + (k - n) = k
      BY <3>4, <1>10
    <3> QED
      BY <3>2, <3>5, <1>11
  <2> QED
    BY <2>1, <2>2, <1>5
<1>16. InOrder(d, PcPlus(nx, n), NextMisses(ic))
  BY <1>13, <1>14 DEF InOrder
<1>17. NoStrays(d)
  BY <1>15 DEF NoStrays
<1> QED
  BY <1>12, <1>16, <1>17 DEF d, nx

-----------------------------------------------------------------------------
\* The invariant.

\* A queue that was reset or flushed.
LEMMA EmptyQueue ==
  ASSUME NEW pc \in Pcs, NEW ms
  PROVE  /\ Context(pc) \in Contexts
         /\ InOrder(Context(pc), pc, ms) /\ NoStrays(Context(pc))
<1>1. Context(pc) \in Contexts
  BY Sizes DEF Context, Contexts, FiqEntry, FiqEntries, Zero, Pcs
<1>2. UsedOf(Context(pc)) = 0
  BY Sizes DEF Context, UsedOf
<1>3. Plus(0, 0) = 0 /\ PcPlus(pc, 0) = pc
  BY Sizes DEF Plus, PcPlus, Pcs
<1>4. InOrder(Context(pc), pc, ms)
  BY <1>2, <1>3 DEF InOrder, Context
<1>5. NoStrays(Context(pc))
  BY DEF NoStrays, Context, FiqEntry
<1> QED
  BY <1>1, <1>4, <1>5

LEMMA InitIInv == Init => IInv
<1> SUFFICES ASSUME Init PROVE IInv
  OBVIOUS
<1>1. PICK rst_pc \in [Threads -> Targets] :
        thread_data = [t \in Threads |-> Context(rst_pc[t])] /\ next = rst_pc
  BY DEF Init
<1>2. \A t \in Threads : rst_pc[t] \in Pcs
  BY <1>1, Sizes
<1>3. 0 \in Threads
  BY Sizes DEF Threads
<1>4. Typed
  BY <1>1, <1>2, <1>3, EmptyQueue DEF Init, Typed
<1>5. \A t \in Enabled : InOrder(thread_data[t], next[t], misses) /\ NoStrays(thread_data[t])
  BY <1>1, <1>2, Sizes, EmptyQueue
<1> QED
  BY <1>4, <1>5 DEF IInv

\* What the dispatcher may take is there.
LEMMA DispatchableLeaves ==
  ASSUME Typed, NEW mis, NEW n \in Dispatchable(mis)
  PROVE  /\ ThreadIdx(mis) \in Threads
         /\ Leaves(ThreadIdx(mis), n)
<1>1. ThreadIdx(mis) \in Threads
  BY Sizes DEF ThreadIdx, After, Typed, Threads
<1>2. thread_data[ThreadIdx(mis)].avail_size \in 0..FIQ_NUM
  BY <1>1 DEF Typed, Contexts
<1>3. AvailNum(mis) \in 0..UsedOf(thread_data[ThreadIdx(mis)])
  BY <1>2, Sizes DEF AvailNum, Lesser, UsedOf
<1> QED
  BY <1>1, <1>3, <1>2, Sizes DEF Dispatchable, Leaves, UsedOf

LEMMA EdgeKeepsIInv ==
  ASSUME IInv, NEW ic, Driven(ic), NEW mis \in SUBSET Enabled,
         NEW target \in [mis -> Targets], NEW n \in Dispatchable(mis),
         Edge(ic, mis, target, n)
  PROVE  IInv'
<1> DEFINE taken(t) == IF t = ThreadIdx(mis) THEN n ELSE 0
<1>1. Typed /\ Enabled \subseteq Threads
  BY Sizes DEF IInv
<1>2. ASSUME NEW t \in Threads PROVE Leaves(t, taken(t))
  <2>1. CASE t = ThreadIdx(mis)
    BY <2>1, <1>1, DispatchableLeaves
  <2>2. CASE t # ThreadIdx(mis)
    <3>1. thread_data[t].avail_size \in 0..FIQ_NUM
      BY <1>1 DEF Typed, Contexts
    <3> QED
      BY <2>2, <3>1, Sizes DEF Leaves, UsedOf
  <2> QED
    BY <2>1, <2>2
<1>3. /\ thread_data' = [t \in Threads |->
            IF t \in mis THEN Context(target[t])
            ELSE IF t \in Enabled THEN NextContext(t, ic, taken(t))
            ELSE thread_data[t]]
      /\ next' = [t \in Threads |-> IF t \in mis THEN target[t] ELSE PcPlus(next[t], taken(t))]
      /\ misses' = NextMisses(ic)
  BY DEF Edge
<1> HIDE DEF taken
<1>4. ASSUME NEW t \in mis
      PROVE  /\ thread_data'[t] \in Contexts /\ next'[t] \in Pcs
             /\ InOrder(thread_data'[t], next'[t], misses') /\ NoStrays(thread_data'[t])
  <2>1. t \in Threads /\ target[t] \in Pcs
    BY <1>1, Sizes
  <2> QED
    BY <2>1, <1>3, EmptyQueue
<1>5. ASSUME NEW t \in Enabled, t \notin mis
      PROVE  /\ thread_data'[t] \in Contexts /\ next'[t] \in Pcs
             /\ InOrder(thread_data'[t], next'[t], misses') /\ NoStrays(thread_data'[t])
  <2>1. t \in Threads /\ Leaves(t, taken(t))
    BY <1>1, <1>2
  <2>2. InOrder(thread_data[t], next[t], misses) /\ NoStrays(thread_data[t])
    BY DEF IInv
  <2>3. thread_data'[t] = NextContext(t, ic, taken(t)) /\ next'[t] = PcPlus(next[t], taken(t))
    BY <2>1, <1>3, <1>5
  <2> QED
    BY <2>1, <2>2, <2>3, <1>1, <1>3, QueueStaysInOrder
<1>6. ASSUME NEW t \in Threads, t \notin Enabled
      PROVE  thread_data'[t] \in Contexts /\ next'[t] \in Pcs
  <2>1. thread_data[t] \in Contexts /\ next[t] \in Pcs
    BY <1>1 DEF Typed
  <2>2. taken(t) \in Nat /\ taken(t) + 0 <= PC_NUM
    BY <2>1, <1>2, Sizes DEF Leaves, UsedOf, Contexts
  <2> QED
    BY <2>1, <2>2, <1>3, <1>6, PcPlusTwice
<1>7. thread_data' \in [Threads -> Contexts] /\ next' \in [Threads -> Pcs]
  BY <1>3, <1>4, <1>5, <1>6
<1>8. misses' \in [Tags -> Blocks \cup {NoBlock}]
  <2>1. RequestedBlock \in Blocks
    BY <1>1 DEF Typed, Contexts, RequestedBlock, Blocks
  <2> QED
    BY <2>1, <1>1, <1>3 DEF NextMisses, Typed
<1>9. thread_to_ft' \in Threads /\ thread_counter' \in Threads
  <2>1. ThreadIdx(mis) \in Threads
    BY <1>1, DispatchableLeaves
  <2>2. \A t \in Threads : After(t) \in Threads
    BY Sizes DEF After, Threads
  <2>3. thread_to_ft' \in {thread_to_ft, After(thread_to_ft)} /\ thread_counter' = After(ThreadIdx(mis))
    BY DEF Edge
  <2> QED
    BY <2>1, <2>2, <2>3, <1>1 DEF Typed
<1> QED
  BY <1>1, <1>4, <1>5, <1>7, <1>8, <1>9 DEF IInv, Typed

LEMMA NextIInv == IInv /\ [Next]_vars => IInv'
<1> SUFFICES ASSUME IInv, [Next]_vars PROVE IInv'
  OBVIOUS
<1>1. ASSUME NEW ic, Driven(ic), Step(ic) PROVE IInv'
  <2>1. PICK mis \in SUBSET Enabled : \E target \in [mis -> Targets] :
          \E n \in Dispatchable(mis) : Edge(ic, mis, target, n)
    BY <1>1 DEF Step
  <2>2. PICK target \in [mis -> Targets] : \E n \in Dispatchable(mis) : Edge(ic, mis, target, n)
    BY <2>1
  <2>3. PICK n \in Dispatchable(mis) : Edge(ic, mis, target, n)
    BY <2>2
  <2> QED
    BY <1>1, <2>3, EdgeKeepsIInv
<1>2. CASE Drive
  BY <1>1, <1>2 DEF Drive, Driven
<1>3. CASE \E x \in Tags : Return(x)
  BY <1>1, <1>3 DEF Return, Driven
<1>4. CASE UNCHANGED vars
  BY <1>4 DEF vars, IInv, Typed
<1> QED
  BY <1>2, <1>3, <1>4 DEF Next

LEMMA IInvShowsOrder == IInv => StreamInOrder
<1> SUFFICES ASSUME IInv, NEW t \in Enabled
             PROVE  /\ thread_data[t].tail_ptr = Plus(thread_data[t].hd_ptr, Used(t))
                    /\ thread_data[t].PC_reg = PcPlus(next[t], Used(t))
                    /\ \A k \in 0..(Used(t) - 1) :
                         LET e == Entry(t, k) IN
                         /\ e.pc = PcPlus(next[t], k)
                         /\ \/ e.mem_tag = NoTag /\ e.inst = e.pc
                            \/ /\ e.mem_tag \in Tags /\ e.inst = Zero
                               /\ misses[e.mem_tag] = Block(e.pc)
  BY DEF StreamInOrder
<1> QED
  BY DEF IInv, InOrder, Right, UsedOf, Used, Entry, At

\* Whatever the cache answers, in whatever order, and whenever threads are flushed, a
\* fetch queue holds the thread's next instructions in order, and what is still to come
\* will be the right block (IF.sv l.327-442, l.476-516).
THEOREM QueuesStayInOrder == Spec => []StreamInOrder
<1>1. Init => IInv
  BY InitIInv
<1>2. IInv /\ [Next]_vars => IInv'
  BY NextIInv
<1>3. IInv => StreamInOrder
  BY IInvShowsOrder
<1> QED
  BY <1>1, <1>2, <1>3, PTL DEF Spec
=============================================================================
