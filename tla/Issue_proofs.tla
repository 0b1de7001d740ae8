----------------------------- MODULE Issue_proofs -----------------------------
(***************************************************************************)
(* The path of an instruction from its dispatch to its result, for every   *)
(* size, every number of channels, units and broadcasts, and every set of  *)
(* threads, tags and instructions. The reservation station: an entry waits *)
(* for its producers and nothing else. The issue buffer: nothing is valid  *)
(* outside the pointers, and the ring with its holes is a queue. The units *)
(* that the buffer feeds and their data bus: no result waits too long.     *)
(***************************************************************************)
EXTENDS RS, IBQueue, Execute, FiniteSetTheorems, SequenceTheorems, TLAPS

USE DEF Entries

-----------------------------------------------------------------------------
\* Sets of numbers.

\* Every set of natural numbers has a least element.
LEMMA LeastExists ==
  ASSUME NEW S \in SUBSET Nat, S # {}
  PROVE  \E x \in S : \A y \in S : x <= y
<1> DEFINE R == OpToRel(<, Nat)
<1>1. IsWellFoundedOn(R, Nat)
  BY NatLessThanWellFounded
<1>2. \A x, y \in Nat : <<y, x>> \in R <=> y < x
  BY DEF OpToRel
<1> HIDE DEF R
<1>3. PICK x \in S : \A y \in S : ~(<<y, x>> \in R)
  BY <1>1, WFMin
<1>4. ASSUME NEW y \in S PROVE x <= y
  <2>1. x \in Nat /\ y \in Nat /\ ~(y < x)
    BY <1>2, <1>3
  <2> QED
    BY <2>1
<1> QED
  BY <1>4

\* The ranks of the elements of a finite set of numbers are the numbers below
\* its cardinality, and each is the rank of one element.
LEMMA RanksCover ==
  ASSUME NEW V \in SUBSET Nat, IsFiniteSet(V)
  PROVE  /\ \A f \in V : Cardinality({e \in V : e < f}) \in 0..(Cardinality(V) - 1)
         /\ \A f, e \in V : Cardinality({d \in V : d < f})
                              = Cardinality({d \in V : d < e}) => f = e
         /\ \A k \in 0..(Cardinality(V) - 1) :
               \E f \in V : Cardinality({e \in V : e < f}) = k
<1> DEFINE below(f) == {e \in V : e < f}
           rank == [f \in V |-> Cardinality(below(f))]
           T == 0..(Cardinality(V) - 1)
<1>1. Cardinality(V) \in Nat
  BY FS_CardinalityType
<1>2. ASSUME NEW f \in V
      PROVE  /\ IsFiniteSet(below(f)) /\ Cardinality(below(f)) \in Nat
             /\ Cardinality(below(f)) < Cardinality(V)
  <2>1. below(f) \in SUBSET V /\ below(f) # V
    OBVIOUS
  <2> HIDE DEF below
  <2>2. IsFiniteSet(below(f)) /\ Cardinality(below(f)) <= Cardinality(V)
        /\ Cardinality(below(f)) # Cardinality(V)
    BY <2>1, FS_Subset
  <2>3. Cardinality(below(f)) \in Nat
    BY <2>2, FS_CardinalityType
  <2> QED
    BY <1>1, <2>2, <2>3
<1>3. ASSUME NEW f \in V, NEW e \in V, f < e
      PROVE  Cardinality(below(f)) # Cardinality(below(e))
  <2>1. f \in below(e) /\ f \notin below(f)
    BY <1>3
  <2>2. \A d \in below(f) : d \in below(e)
    BY <1>3
  <2>3. below(f) \in SUBSET below(e) /\ below(f) # below(e)
    BY <2>1, <2>2
  <2> HIDE DEF below
  <2> QED
    BY <1>2, <2>3, FS_Subset
<1>4. \A f, e \in V : Cardinality(below(f)) = Cardinality(below(e)) => f = e
  <2> HIDE DEF below
  <2>1. \A f, e \in V : f < e \/ e < f \/ f = e
    OBVIOUS
  <2> QED
    BY <1>3, <2>1
<1>5. rank \in Injection(V, T)
  <2> HIDE DEF below
  <2>1. \A f \in V : Cardinality(below(f)) \in T
    BY <1>1, <1>2
  <2> QED
    BY <1>4, <2>1 DEF Injection, IsInjective
<1>6. IsFiniteSet(T) /\ Cardinality(T) = Cardinality(V)
  <2>1. 0 \in Int /\ Cardinality(V) - 1 \in Int
    BY <1>1
  <2>2. /\ IsFiniteSet(T)
        /\ Cardinality(T) = IF 0 > Cardinality(V) - 1 THEN 0 ELSE Cardinality(V) - 1 - 0 + 1
    BY <2>1, FS_Interval
  <2> QED
    BY <1>1, <2>2
<1> HIDE DEF T, rank
<1>7. rank \in Surjection(V, T)
  BY <1>5, <1>6, FS_Injection
<1>8. \A k \in T : \E f \in V : rank[f] = k
  BY <1>7 DEF Surjection
<1> QED
  BY <1>1, <1>2, <1>4, <1>8 DEF rank, T

-----------------------------------------------------------------------------
\* The operands.

\* An operand x of thread t that is marked ready or not: ZERO_REG, or a tag; in a
\* thread that is not among hits, its own tag, ready when its result is in the
\* register file.
OperandSound(x, ready, t, whose, results, hits) ==
    \/ x = NoTag /\ ready
    \/ x \in Tags /\ (t \notin hits => whose[x] = t /\ (ready <=> results[x] = "own"))

\* The tag that an instruction of thread t will write: nobody has produced it.
TargetSound(x, t, whose, results, sent, hits) ==
    \/ x = NoTag
    \/ /\ x \in Tags
       /\ t \notin hits => whose[x] = t /\ results[x] = "old" /\ x \notin sent

EntrySound(e) ==
    LET i == rs_array[e].dec_inst
    IN  rs_array[e].valid =>
            /\ i.thread_idx \in RSThreads
            /\ OperandSound(i.tag1, i.tag1_ready, i.thread_idx, owner, registers, struck)
            /\ OperandSound(i.tag2, i.tag2_ready, i.thread_idx, owner, registers, struck)
            /\ TargetSound(i.tag, i.thread_idx, owner, registers, flying, struck)

Typed ==
    /\ rs_array \in [RSEntries -> [valid : BOOLEAN, dec_inst : DecInst]]
    /\ registers \in [Tags -> Values]
    /\ owner \in [Tags -> RSThreads \cup {Nobody}]
    /\ flying \subseteq Tags
    /\ strays \subseteq Results
    /\ struck \subseteq RSThreads

\* A free tag is clean: a later owner starts without a result.
FreeIsClean ==
    \A x \in Tags : owner[x] = Nobody => registers[x] = "old" /\ x \notin flying

\* No stray has touched the tags of a thread that is not struck, and what flies
\* belongs to such a thread.
NotTouched ==
    \A x \in Tags : /\ registers[x] = "stray" => owner[x] \in struck
                    /\ x \in flying => owner[x] \notin struck

\* No two entries of threads that are not struck write one tag.
OneWriter ==
    \A d, e \in RSEntries :
        /\ rs_array[d].valid /\ rs_array[e].valid /\ d # e
        /\ Thread(d) \notin struck /\ Thread(e) \notin struck
        /\ rs_array[d].dec_inst.tag # NoTag
        => rs_array[d].dec_inst.tag # rs_array[e].dec_inst.tag

\* The inductive invariant. WaitsForItsProducer alone is not inductive: that a tag
\* is not returned, produced twice or woken for another owner while an entry names
\* it follows from whose it is and from who will write it.
OperandsInv ==
    /\ Typed
    /\ FreeIsClean
    /\ NotTouched
    /\ \A e \in RSEntries : EntrySound(e)
    /\ OneWriter
    /\ ReadsItsProducer

-----------------------------------------------------------------------------
\* What the dispatcher may send.

\* Instruction i of thread t, behind older channels of its group that write older.
Arrives(i, t, older, freed, bus) ==
    /\ i \in DecInst
    /\ i.thread_idx = t
    /\ i.tag \in {NoTag} \cup (Free \ older)
    /\ i.tag1 \in Sources(t, older, freed)
    /\ i.tag1_ready = ReadyAtDispatch(i.tag1, older, bus)
    /\ i.tag2 \in Sources(t, older, freed)
    /\ i.tag2_ready = ReadyAtDispatch(i.tag2, older, bus)

\* What the group g of n instructions writes.
Taken(g, n) == {g[j].tag : j \in 0..(n - 1)}

LEMMA DecodedArrives ==
  ASSUME NEW t \in RSThreads, NEW older \in SUBSET Tags, NEW freed, NEW bus,
         NEW i \in Decoded(t, older, freed, bus)
  PROVE  Arrives(i, t, older, freed, bus)
<1> DEFINE src == Sources(t, older, freed)
<1>1. PICK u \in UnitClasses \cup {NoUnit}, x \in {NoTag} \cup Fresh(older),
           a \in (IF Operands >= 1 THEN src ELSE {NoTag}),
           b \in (IF Operands >= 2 THEN src ELSE {NoTag}) :
        i = [thread_idx |-> t, unit |-> u, tag |-> x,
             tag1 |-> a, tag1_ready |-> ReadyAtDispatch(a, older, bus),
             tag2 |-> b, tag2_ready |-> ReadyAtDispatch(b, older, bus)]
  BY DEF Decoded
<1>2. NoTag \in src /\ src \subseteq Tags \cup {NoTag}
  BY DEF Sources, Owned
<1>3. a \in src /\ b \in src
  BY <1>2
<1>4. Fresh(older) \subseteq Free \ older
  BY DEF Fresh
<1>5. \A y : ReadyAtDispatch(y, older, bus) \in BOOLEAN
  BY DEF ReadyAtDispatch
<1>6. Free \subseteq Tags
  BY DEF Free, Owned
<1>7. i \in DecInst
  BY <1>1, <1>2, <1>3, <1>4, <1>5, <1>6 DEF DecInst
<1> QED
  BY <1>1, <1>3, <1>4, <1>7 DEF Arrives

\* A group: its instructions write different free tags, and those that an operand
\* takes for the older channels' are free tags which the group takes.
LEMMA GroupArrives ==
  ASSUME NEW t \in RSThreads, NEW n \in 1..DP_NUM, NEW freed, NEW bus,
         NEW g \in RSGroups(t, n, freed, bus)
  PROVE  /\ \A k \in 0..(n - 1) : \E older \in SUBSET Free :
               /\ older \subseteq Taken(g, k)
               /\ Arrives(g[k], t, older, freed, bus)
         /\ \A j, k \in 0..(n - 1) : j # k => g[j].tag = NoTag \/ g[j].tag # g[k].tag
<1> DEFINE second(i) == {i.tag} \ {NoTag}
<1>1. n = 1 \/ n = 2
  BY RSParameters
<1>2. CASE n = 1
  <2>1. PICK i \in Decoded(t, {}, freed, bus) : g = [k \in {0} |-> i]
    BY <1>2 DEF RSGroups
  <2>2. Arrives(i, t, {}, freed, bus)
    BY DecodedArrives
  <2> QED
    BY <1>2, <2>1, <2>2
<1>3. CASE n = 2
  <2>1. PICK i \in Decoded(t, {}, freed, bus) : \E j \in Decoded(t, second(i), freed, bus) :
          g = [k \in {0, 1} |-> IF k = 0 THEN i ELSE j]
    BY <1>3 DEF RSGroups
  <2> PICK j \in Decoded(t, second(i), freed, bus) : g = [k \in {0, 1} |-> IF k = 0 THEN i ELSE j]
    BY <2>1
  <2>2. Arrives(i, t, {}, freed, bus)
    BY DecodedArrives
  <2>3. second(i) \in SUBSET Free /\ second(i) \in SUBSET Tags
    BY <2>2 DEF Arrives, Free, Owned
  <2>4. Arrives(j, t, second(i), freed, bus)
    BY <2>3, DecodedArrives
  <2>5. g[0] = i /\ g[1] = j /\ 0..(n - 1) = {0, 1}
    BY <1>3
  <2>6. i.tag = NoTag \/ i.tag # j.tag
    BY <2>4 DEF Arrives
  <2>7. second(i) \subseteq Taken(g, 1)
    BY <2>5 DEF Taken
  <2>8. \A k \in 0..(n - 1) : \E older \in SUBSET Free :
          /\ older \subseteq Taken(g, k)
          /\ Arrives(g[k], t, older, freed, bus)
    BY <2>2, <2>3, <2>4, <2>5, <2>7
  <2>9. \A k, l \in 0..(n - 1) : l # k => g[l].tag = NoTag \/ g[l].tag # g[k].tag
    BY <2>5, <2>6
  <2> QED
    BY <2>8, <2>9
<1> QED
  BY <1>1, <1>2, <1>3

-----------------------------------------------------------------------------
\* Where they go.

\* The channels of the entries that are dispatched to: each is one entry's, and when
\* there is room no channel is without.
LEMMA DispatchedChannels ==
  ASSUME NEW sel, NEW n \in Nat
  PROVE  /\ \A e \in DpEntries(sel, n) : e \in RSEntries /\ DpChannel(e, sel) \in 0..(n - 1)
         /\ \A d, e \in DpEntries(sel, n) : DpChannel(d, sel) = DpChannel(e, sel) => d = e
         /\ n <= Cardinality(Empty(sel)) =>
               \A k \in 0..(n - 1) : \E e \in DpEntries(sel, n) : DpChannel(e, sel) = k
<1>1. IsFiniteSet(RSEntries) /\ RSEntries \subseteq Nat
  BY FS_Interval, RSParameters DEF RSEntries
<1>2. Empty(sel) \in SUBSET RSEntries
  BY DEF Empty
<1>3. Empty(sel) \in SUBSET Nat /\ IsFiniteSet(Empty(sel)) /\ Cardinality(Empty(sel)) \in Nat
  BY <1>1, <1>2, FS_Subset, FS_CardinalityType
<1>4. /\ \A e \in Empty(sel) : DpChannel(e, sel) \in 0..(Cardinality(Empty(sel)) - 1)
      /\ \A d, e \in Empty(sel) : DpChannel(d, sel) = DpChannel(e, sel) => d = e
      /\ \A k \in 0..(Cardinality(Empty(sel)) - 1) :
            \E e \in Empty(sel) : DpChannel(e, sel) = k
  <2>1. \A e \in Empty(sel) : DpChannel(e, sel) \in 0..(Cardinality(Empty(sel)) - 1)
    BY <1>3, RanksCover DEF DpChannel
  <2>2. \A d, e \in Empty(sel) : DpChannel(d, sel) = DpChannel(e, sel) => d = e
    BY <1>3, RanksCover DEF DpChannel
  <2>3. \A k \in 0..(Cardinality(Empty(sel)) - 1) :
           \E e \in Empty(sel) : DpChannel(e, sel) = k
    BY <1>3, RanksCover DEF DpChannel
  <2> QED
    BY <2>1, <2>2, <2>3
<1>5. DpEntries(sel, n) = {e \in Empty(sel) : DpChannel(e, sel) < n}
  BY DEF DpEntries, DpChannel
<1> QED
  BY <1>2, <1>3, <1>4, <1>5

\* So they are as many as the channels.
LEMMA DispatchedCount ==
  ASSUME NEW sel, NEW n \in Nat, n <= Cardinality(Empty(sel))
  PROVE  IsFiniteSet(DpEntries(sel, n)) /\ Cardinality(DpEntries(sel, n)) = n
<1> DEFINE h == [e \in DpEntries(sel, n) |-> DpChannel(e, sel)]
           C == 0..(n - 1)
<1>1. IsFiniteSet(C) /\ Cardinality(C) = n
  <2>1. /\ IsFiniteSet(C)
        /\ Cardinality(C) = IF 0 > n - 1 THEN 0 ELSE ((n - 1) - 0) + 1
    BY FS_Interval
  <2>2. ((n - 1) - 0) + 1 = n /\ (0 > n - 1 => n = 0)
    OBVIOUS
  <2> QED
    BY <2>1, <2>2
<1>2. h \in Injection(DpEntries(sel, n), C)
  BY DispatchedChannels DEF Injection, IsInjective
<1>3. h \in Surjection(DpEntries(sel, n), C)
  BY <1>2, DispatchedChannels DEF Injection, Surjection
<1> QED
  BY <1>1, <1>2, <1>3, FS_Injection

-----------------------------------------------------------------------------
\* An edge.

\* What the surroundings may do at an edge that issues sel, while mis are flushed.
Permitted(mis, sel, s, n, g, cast, late, hit, freed) ==
    /\ mis \in SUBSET RSThreads
    /\ late \in SUBSET strays
    /\ hit \in SUBSET {r.thread_idx : r \in late}
    /\ \A e \in sel :
          /\ e \in RSEntries
          /\ rs_array[e].valid
          /\ rs_array[e].dec_inst.tag1_ready
          /\ rs_array[e].dec_inst.tag2_ready
          /\ Thread(e) \notin mis
    /\ cast \in Broadcasts(mis, late)
    /\ freed \in SUBSET Retired(mis)
    /\ n \in Nat
    /\ n > 0 => s \in RSThreads \ mis /\ n <= AvailNum(sel)
    /\ \A k \in 0..(n - 1) : \E older \in SUBSET Free :
          /\ older \subseteq Taken(g, k)
          /\ Arrives(g[k], s, older, freed, Bus(cast, late))
    /\ \A j, k \in 0..(n - 1) : j # k => g[j].tag = NoTag \/ g[j].tag # g[k].tag

\* A stray on the bus strikes the owner of its tag, so that a thread that is not
\* struck is woken for its own results only.
LEMMA OnlyItsOwn ==
  ASSUME NEW cast, NEW late, NEW hit, NEW x, NEW t,
         t \notin Struck(late, hit), owner[x] = t, t # Nobody
  PROVE  /\ x \notin TagsOf(late)
         /\ [thread_idx |-> t, tag |-> x] \in Bus(cast, late) <=> x \in cast
         /\ cast \subseteq Tags => (x \in TagsOf(Bus(cast, late)) <=> x \in cast)
<1>1. x \notin TagsOf(late)
  BY DEF Struck
<1>2. \A r \in late : r.tag # x
  BY <1>1 DEF TagsOf
<1>3. \A r \in Bus(cast, late) \ late : \E y \in cast :
         r = [thread_idx |-> owner[y], tag |-> y]
  BY DEF Bus
<1>4. x \in cast => [thread_idx |-> owner[x], tag |-> x] \in Bus(cast, late)
  BY DEF Bus
<1>5. [thread_idx |-> t, tag |-> x] \in Bus(cast, late) <=> x \in cast
  <2>1. [thread_idx |-> t, tag |-> x] \notin late
    BY <1>2
  <2> QED
    BY <2>1, <1>3, <1>4
<1>6. x \in TagsOf(Bus(cast, late)) <=> x \in cast
  BY <1>2, <1>3, <1>4 DEF TagsOf
<1> QED
  BY <1>1, <1>5, <1>6

\* What is issued reads the results that it depends on, as nothing that is ready
\* needs the bus.
LEMMA IssuedReads ==
  ASSUME OperandsInv, NEW mis, NEW sel, NEW s, NEW n, NEW g,
         NEW cast, NEW late, NEW hit, NEW freed,
         Permitted(mis, sel, s, n, g, cast, late, hit, freed),
         rs_ib' = NextIB(sel, cast, late), struck' = Struck(late, hit)
  PROVE  ReadsItsProducer'
<1> SUFFICES ASSUME NEW c \in Channels, rs_ib'[c].valid,
                    rs_ib'[c].thread_idx \notin Struck(late, hit)
             PROVE  rs_ib'[c].rs1_value = "own" /\ rs_ib'[c].rs2_value = "own"
  BY DEF ReadsItsProducer
<1>1. IsEntries(sel, c) # {}
  BY DEF NextIB, NotIssued
<1>2. PICK e \in sel : rs_ib'[c] =
                         [valid |-> TRUE, thread_idx |-> Thread(e),
                          rs1_value |-> Read(c, rs_array[e].dec_inst.tag1, cast, late),
                          rs2_value |-> Read(c, rs_array[e].dec_inst.tag2, cast, late)]
  BY <1>1 DEF NextIB, IsEntries
<1>3. /\ rs_array[e].valid /\ EntrySound(e)
      /\ rs_array[e].dec_inst.tag1_ready /\ rs_array[e].dec_inst.tag2_ready
      /\ Thread(e) \in RSThreads /\ Thread(e) \notin Struck(late, hit)
  BY <1>2 DEF Permitted, OperandsInv, EntrySound, Thread
<1> DEFINE t == Thread(e)
<1>4. t \notin struck /\ t # Nobody
  BY <1>3, RSParameters DEF Struck
<1>5. ASSUME NEW x, OperandSound(x, TRUE, t, owner, registers, struck)
      PROVE  Read(c, x, cast, late) = "own"
  <2>1. CASE x = NoTag
    BY <2>1 DEF Read
  <2>2. CASE x # NoTag
    <3>1. owner[x] = t /\ registers[x] = "own"
      BY <1>4, <1>5, <2>2 DEF OperandSound
    <3>2. x \notin TagsOf(late)
      BY <1>3, <1>4, <3>1, OnlyItsOwn
    <3> QED
      BY <3>1, <3>2 DEF Read, OnBus
  <2> QED
    BY <2>1, <2>2
<1>6. /\ OperandSound(rs_array[e].dec_inst.tag1, TRUE, t, owner, registers, struck)
      /\ OperandSound(rs_array[e].dec_inst.tag2, TRUE, t, owner, registers, struck)
  BY <1>3 DEF EntrySound, OperandSound, Thread
<1>7. /\ Read(c, rs_array[e].dec_inst.tag1, cast, late) = "own"
      /\ Read(c, rs_array[e].dec_inst.tag2, cast, late) = "own"
  BY <1>5, <1>6
<1> QED
  BY <1>2, <1>7

\* What becomes of an entry: it stays, woken, or it is dispatched to.
Stays(e, mis, sel, bus) ==
    /\ rs_array[e].valid /\ Thread(e) \notin mis /\ e \notin sel
    /\ rs_array'[e] = [valid |-> TRUE, dec_inst |-> Woken(rs_array[e].dec_inst, bus)]

Enters(e, sel, n, g) ==
    /\ e \in DpEntries(sel, n)
    /\ rs_array'[e] = [valid |-> TRUE, dec_inst |-> g[DpChannel(e, sel)]]

LEMMA EntriesAfterEdge ==
  ASSUME Typed, NEW mis, NEW sel, NEW s, NEW n, NEW g,
         NEW cast, NEW late, NEW hit, NEW freed,
         RSEdge(mis, sel, s, n, g, cast, late, hit, freed),
         NEW e \in RSEntries
  PROVE  \/ Stays(e, mis, sel, Bus(cast, late))
         \/ Enters(e, sel, n, g)
         \/ rs_array'[e] = Cleared
         \/ ~rs_array[e].valid /\ rs_array'[e] = rs_array[e]
<1> DEFINE bus == Bus(cast, late)
<1>1. rs_array'[e] = NextEntry(e, mis, sel, DpEntries(sel, n), g, bus)
  BY DEF RSEdge
<1> HIDE DEF bus
<1>2. rs_array[e] \in [valid : BOOLEAN, dec_inst : DecInst]
  BY DEF Typed
<1>3. ASSUME NEW r \in [valid : BOOLEAN, dec_inst : DecInst], r.valid, NEW w
      PROVE  [r EXCEPT !.dec_inst = w] = [valid |-> TRUE, dec_inst |-> w]
  <2>1. r.valid = TRUE
    BY <1>3
  <2>2. [r EXCEPT !.dec_inst = w] = [valid |-> r.valid, dec_inst |-> w]
    OBVIOUS
  <2> QED
    BY <2>1, <2>2
<1>4. \/ Stays(e, mis, sel, bus)
      \/ Enters(e, sel, n, g)
      \/ rs_array'[e] = Cleared
      \/ ~rs_array[e].valid /\ rs_array'[e] = rs_array[e]
  BY <1>1, <1>2, <1>3 DEF NextEntry, Stays, Enters
<1> QED
  BY <1>4 DEF bus

\* Waking changes nothing of an instruction but the two bits.
LEMMA WokenIs ==
  ASSUME NEW i \in DecInst, NEW bus
  PROVE  LET w == Woken(i, bus)
         IN  /\ w \in DecInst
             /\ w.thread_idx = i.thread_idx /\ w.tag = i.tag
             /\ w.tag1 = i.tag1 /\ w.tag2 = i.tag2
             /\ w.tag1_ready <=> i.tag1_ready \/ Hit(i.tag1, i, bus)
             /\ w.tag2_ready <=> i.tag2_ready \/ Hit(i.tag2, i, bus)
<1>1. \A x : Hit(x, i, bus) \in BOOLEAN
  BY DEF Hit
<1> QED
  BY <1>1 DEF Woken, DecInst

\* What becomes of a tag: it is taken, it goes back, or it keeps its owner, and the
\* strays leave it alone unless the owner is struck.
LEMMA TagsAfterEdge ==
  ASSUME OperandsInv, NEW mis, NEW sel, NEW s, NEW n, NEW g,
         NEW cast, NEW late, NEW hit, NEW freed,
         Permitted(mis, sel, s, n, g, cast, late, hit, freed),
         RSEdge(mis, sel, s, n, g, cast, late, hit, freed),
         NEW x \in Tags
  PROVE  LET taken == Taken(g, n)
             back == freed \cup Lost(mis)
         IN  /\ x \in taken => /\ owner[x] = Nobody /\ owner'[x] = s
                               /\ registers'[x] = "old" /\ x \notin flying'
             /\ x \in back => owner[x] # Nobody
             /\ x \in back => owner'[x] = Nobody /\ registers'[x] = "old" /\ x \notin flying'
             /\ x \notin taken \cup back =>
                   /\ owner'[x] = owner[x]
                   /\ owner[x] = Nobody => registers'[x] = "old" /\ x \notin flying'
                   /\ owner[x] # Nobody /\ owner[x] \notin Struck(late, hit) =>
                         registers'[x] = IF x \in cast THEN "own" ELSE registers[x]
             /\ x \in flying' => owner[x] \notin Struck(late, hit) /\ owner'[x] = owner[x]
             /\ x \in flying' /\ x \notin flying =>
                   \E e \in sel : /\ Thread(e) \notin Struck(late, hit)
                                  /\ rs_array[e].dec_inst.tag = x
             /\ registers'[x] \in Values /\ owner'[x] \in RSThreads \cup {Nobody}
<1> DEFINE taken == Taken(g, n)
           back == freed \cup Lost(mis)
           hits == Struck(late, hit)
<1>1. /\ registers'[x] = NextRegister(x, mis, taken, back, cast, late)
      /\ owner'[x] = IF x \in taken THEN s ELSE IF x \in back THEN Nobody ELSE owner[x]
      /\ flying' = NextFlying(Issued(sel), back, cast, late, hit)
  BY DEF RSEdge, Taken
<1>2. x \in taken => owner[x] = Nobody /\ s \in RSThreads
  <2>1. ASSUME NEW k \in 0..(n - 1) PROVE g[k].tag # x \/ owner[x] = Nobody
    <3>1. PICK older \in SUBSET Free : Arrives(g[k], s, older, freed, Bus(cast, late))
      BY DEF Permitted
    <3> QED
      BY <3>1, RSParameters DEF Arrives, Free, Owned
  <2> QED
    BY <2>1 DEF Permitted, Taken
<1>3. x \in back => owner[x] # Nobody
  BY RSParameters DEF Permitted, Retired, Lost, OperandsInv, FreeIsClean, Typed
<1>4. owner[x] \in RSThreads \cup {Nobody} /\ registers[x] \in Values
  BY DEF OperandsInv, Typed
<1>5. x \in flying' => /\ x \notin back /\ owner[x] \notin hits
                       /\ \/ x \in flying
                          \/ \E e \in sel : /\ Thread(e) \notin hits
                                            /\ rs_array[e].dec_inst.tag = x
  <2>1. \A r \in Issued(sel) : \E e \in sel :
           r = [thread_idx |-> Thread(e), tag |-> rs_array[e].dec_inst.tag]
    BY DEF Issued
  <2> HIDE DEF back, hits
  <2>2. x \in flying' => /\ x \notin back /\ owner[x] \notin hits
                         /\ \/ x \in flying
                            \/ \E r \in Issued(sel) : r.tag = x /\ r.thread_idx \notin hits
    BY <1>1 DEF NextFlying, hits
  <2> QED
    BY <2>1, <2>2
<1>6. x \in flying' => owner[x] # Nobody
  <2>1. ASSUME NEW e \in sel, Thread(e) \notin hits, rs_array[e].dec_inst.tag = x
        PROVE  owner[x] # Nobody
    <3>1. EntrySound(e) /\ rs_array[e].valid /\ Thread(e) \notin struck
      BY <2>1 DEF Permitted, OperandsInv, Struck
    <3> QED
      BY <2>1, <3>1, RSParameters DEF EntrySound, TargetSound, Thread
  <2> QED
    BY <1>5, <2>1 DEF OperandsInv, FreeIsClean
<1>7. owner[x] # Nobody /\ owner[x] \notin hits /\ x \notin taken \cup back =>
        registers'[x] = IF x \in cast THEN "own" ELSE registers[x]
  <2> SUFFICES ASSUME owner[x] # Nobody, owner[x] \notin hits, x \notin taken \cup back
               PROVE  registers'[x] = IF x \in cast THEN "own" ELSE registers[x]
    OBVIOUS
  <2>1. x \notin TagsOf(late) /\ owner[x] \notin struck
    BY OnlyItsOwn DEF Struck
  <2>2. ~(owner[x] \in mis /\ registers[x] = "old")
    BY <2>1 DEF Lost
  <2> QED
    BY <1>1, <2>1, <2>2 DEF NextRegister, OnBus
<1>8. registers'[x] \in Values /\ owner'[x] \in RSThreads \cup {Nobody}
  BY <1>1, <1>2, <1>4 DEF NextRegister, OnBus, Values
<1>9. x \in taken \cup back \/ owner[x] = Nobody => registers'[x] = "old"
  BY <1>1 DEF NextRegister
<1> HIDE DEF taken, back, hits
<1>10. x \in taken => owner'[x] = s
  BY <1>1
<1>11. x \notin taken => owner'[x] = IF x \in back THEN Nobody ELSE owner[x]
  BY <1>1
<1> QED
  BY <1>2, <1>3, <1>5, <1>6, <1>7, <1>8, <1>9, <1>10, <1>11 DEF taken, back, hits

LEMMA EdgeKeepsOperands ==
  ASSUME OperandsInv, NEW mis, NEW sel, NEW s, NEW n, NEW g,
         NEW cast, NEW late, NEW hit, NEW freed,
         Permitted(mis, sel, s, n, g, cast, late, hit, freed),
         RSEdge(mis, sel, s, n, g, cast, late, hit, freed)
  PROVE  OperandsInv'
<1> DEFINE taken == Taken(g, n)
           back == freed \cup Lost(mis)
           bus == Bus(cast, late)
           hits == Struck(late, hit)
<1>1. \A x \in Tags :
         /\ x \in taken => /\ owner[x] = Nobody /\ owner'[x] = s
                           /\ registers'[x] = "old" /\ x \notin flying'
         /\ x \in back => owner[x] # Nobody
         /\ x \in back => owner'[x] = Nobody /\ registers'[x] = "old" /\ x \notin flying'
         /\ x \notin taken \cup back =>
               /\ owner'[x] = owner[x]
               /\ owner[x] = Nobody => registers'[x] = "old" /\ x \notin flying'
               /\ owner[x] # Nobody /\ owner[x] \notin hits =>
                     registers'[x] = IF x \in cast THEN "own" ELSE registers[x]
         /\ x \in flying' => owner[x] \notin hits /\ owner'[x] = owner[x]
         /\ x \in flying' /\ x \notin flying =>
               \E e \in sel : Thread(e) \notin hits /\ rs_array[e].dec_inst.tag = x
         /\ registers'[x] \in Values /\ owner'[x] \in RSThreads \cup {Nobody}
  BY TagsAfterEdge
<1>2. cast \subseteq flying /\ flying \subseteq Tags
  BY DEF Permitted, Broadcasts, OperandsInv, Typed
<1>3. struck' = hits /\ struck \subseteq hits /\ hits \subseteq RSThreads
  <2>1. \A r \in late : r \in Results
    BY DEF Permitted, OperandsInv, Typed
  <2>2. hit \subseteq RSThreads
    BY <2>1 DEF Permitted, Results
  <2>3. \A x \in TagsOf(late) : owner[x] \in RSThreads \cup {Nobody}
    BY <2>1 DEF TagsOf, Results, OperandsInv, Typed
  <2> QED
    BY <2>2, <2>3 DEF RSEdge, Struck, OperandsInv, Typed
<1>4. \A x \in taken : x = NoTag \/ x \in Tags
  BY DEF Permitted, Arrives, Free, Owned, Taken
<1>5. taken # {} => s \in RSThreads \ mis
  BY DEF Permitted, Taken
<1>6. Nobody \notin hits
  BY <1>3, RSParameters
<1>7. \A e \in RSEntries : \/ Stays(e, mis, sel, bus)
                           \/ Enters(e, sel, n, g)
                           \/ rs_array'[e] = Cleared
                           \/ ~rs_array[e].valid /\ rs_array'[e] = rs_array[e]
  BY EntriesAfterEdge DEF OperandsInv
<1>8. ASSUME NEW e \in RSEntries, Enters(e, sel, n, g)
      PROVE  /\ DpChannel(e, sel) \in 0..(n - 1)
             /\ \E older \in SUBSET (Free \cap taken) :
                  Arrives(g[DpChannel(e, sel)], s, older, freed, bus)
  <2>1. DpChannel(e, sel) \in 0..(n - 1)
    BY <1>8, DispatchedChannels DEF Enters, Permitted
  <2> DEFINE k == DpChannel(e, sel)
  <2> HIDE DEF k
  <2>2. ASSUME k \in 0..(n - 1) PROVE Taken(g, k) \subseteq taken
    BY <2>2 DEF Permitted, Taken
  <2>3. ASSUME k \in 0..(n - 1)
        PROVE  \E older \in SUBSET (Free \cap taken) : Arrives(g[k], s, older, freed, bus)
    BY <2>2, <2>3 DEF Permitted
  <2> QED
    BY <2>1, <2>3 DEF k
\* Of a thread that is not struck: its tags that do not go back stay as they are, and
\* the bus has its own results only.
<1>9. ASSUME NEW t \in RSThreads \ hits
      PROVE  /\ t \notin struck
             /\ \A x \in Tags : owner[x] = t =>
                   /\ x \notin taken /\ (x \in freed => registers[x] # "old")
                   /\ t \notin mis /\ x \notin freed =>
                         /\ owner'[x] = t
                         /\ registers'[x] = IF x \in cast THEN "own" ELSE registers[x]
                   /\ registers[x] # "stray"
                   /\ [thread_idx |-> t, tag |-> x] \in bus <=> x \in cast
                   /\ x \in TagsOf(bus) <=> x \in cast
             /\ \A e \in RSEntries : rs_array[e].valid /\ Thread(e) = t /\ t \notin mis =>
                   rs_array[e].dec_inst.tag1 \notin freed /\ rs_array[e].dec_inst.tag2 \notin freed
  <2>1. t \notin struck /\ t # Nobody
    BY <1>3, RSParameters
  <2>2. ASSUME NEW x \in Tags, owner[x] = t
        PROVE  /\ x \notin taken /\ (x \in freed => registers[x] # "old")
               /\ t \notin mis /\ x \notin freed =>
                     /\ owner'[x] = t
                     /\ registers'[x] = IF x \in cast THEN "own" ELSE registers[x]
               /\ registers[x] # "stray"
               /\ [thread_idx |-> t, tag |-> x] \in bus <=> x \in cast
               /\ x \in TagsOf(bus) <=> x \in cast
    <3>1. x \notin taken
      BY <1>1, <2>1, <2>2
    <3>2. x \in freed => registers[x] # "old"
      BY <2>1, <2>2 DEF Permitted, Retired
    <3>3. t \notin mis /\ x \notin freed => x \notin back
      BY <2>2 DEF Lost
    <3>4. registers[x] # "stray"
      BY <2>1, <2>2 DEF OperandsInv, NotTouched
    <3>5. ([thread_idx |-> t, tag |-> x] \in bus <=> x \in cast)
          /\ (x \in TagsOf(bus) <=> x \in cast)
      BY <1>2, <2>1, <2>2, OnlyItsOwn
    <3> HIDE DEF taken, back, bus, hits
    <3> QED
      BY <1>1, <2>1, <2>2, <3>1, <3>2, <3>3, <3>4, <3>5
  <2>3. ASSUME NEW e \in RSEntries, rs_array[e].valid, Thread(e) = t, t \notin mis
        PROVE  rs_array[e].dec_inst.tag1 \notin freed /\ rs_array[e].dec_inst.tag2 \notin freed
    <3>1. EntrySound(e)
      BY DEF OperandsInv
    <3>2. rs_array[e].dec_inst.tag1 \in Named(mis) /\ rs_array[e].dec_inst.tag2 \in Named(mis)
      BY <2>3 DEF Named
    <3>3. \A x \in freed : x \in Tags /\ (x \notin Named(mis) \/ owner[x] \in struck)
      BY DEF Permitted, Retired
    <3> QED
      BY <2>1, <2>3, <3>1, <3>2, <3>3, RSParameters DEF EntrySound, OperandSound, Thread
  <2> QED
    BY <2>1, <2>2, <2>3
<1> HIDE DEF taken, back, bus, hits
<1>10. Typed'
  <2>1. registers' \in [Tags -> Values]
    <3>1. registers' = [x \in Tags |-> registers'[x]]
      BY DEF RSEdge
    <3> QED
      BY <3>1, <1>1
  <2>2. owner' \in [Tags -> RSThreads \cup {Nobody}]
    <3>1. owner' = [x \in Tags |-> owner'[x]]
      BY DEF RSEdge
    <3> QED
      BY <3>1, <1>1
  <2>3. flying' \subseteq Tags
    BY <1>2 DEF RSEdge, NextFlying
  <2>4. rs_array' \in [RSEntries -> [valid : BOOLEAN, dec_inst : DecInst]]
    <3>1. rs_array' = [e \in RSEntries |-> rs_array'[e]]
      BY DEF RSEdge
    <3>2. ASSUME NEW e \in RSEntries
          PROVE  rs_array'[e] \in [valid : BOOLEAN, dec_inst : DecInst]
      <4>1. rs_array[e] \in [valid : BOOLEAN, dec_inst : DecInst]
        BY DEF OperandsInv, Typed
      <4>2. CASE Stays(e, mis, sel, bus)
        BY <4>1, <4>2, WokenIs DEF Stays
      <4>3. CASE Enters(e, sel, n, g)
        BY <4>3, <1>8 DEF Enters, Arrives
      <4>4. Cleared \in [valid : BOOLEAN, dec_inst : DecInst]
        BY DEF Cleared, DecInst
      <4> QED
        BY <4>1, <4>2, <4>3, <4>4, <1>7
    <3> QED
      BY <3>1, <3>2
  <2>5. strays' \subseteq Results
    <3> DEFINE held == {[thread_idx |-> owner[x], tag |-> x] : x \in flying \ cast}
               comes == {r \in held \cup Issued(sel) : r.thread_idx \in hits}
    <3>1. strays' \subseteq strays \cup comes \cup {r \in held : r.thread_idx \in mis}
      BY DEF RSEdge, NextStrays, hits
    <3>2. \A r \in held : r.thread_idx \in RSThreads /\ r \in Results
      <4>1. \A x \in flying : owner[x] \in RSThreads /\ x \in Tags
        BY DEF OperandsInv, Typed, FreeIsClean
      <4> QED
        BY <4>1 DEF Results
    <3>3. \A r \in Issued(sel) : r \in Results
      <4>1. \A e \in sel : /\ Thread(e) \in RSThreads
                           /\ rs_array[e].dec_inst.tag = NoTag \/ rs_array[e].dec_inst.tag \in Tags
        BY DEF Permitted, OperandsInv, EntrySound, TargetSound, Thread
      <4> QED
        BY <4>1 DEF Issued, Results
    <3> QED
      BY <3>1, <3>2, <3>3 DEF OperandsInv, Typed
  <2> QED
    BY <2>1, <2>2, <2>3, <2>4, <2>5, <1>3 DEF Typed
<1>11. FreeIsClean'
  <2> SUFFICES ASSUME NEW x \in Tags, owner'[x] = Nobody
               PROVE  registers'[x] = "old" /\ x \notin flying'
    BY DEF FreeIsClean
  <2> QED
    BY <1>1
<1>12. NotTouched'
  <2> SUFFICES ASSUME NEW x \in Tags
               PROVE  /\ registers'[x] = "stray" => owner'[x] \in hits
                      /\ x \in flying' => owner'[x] \notin hits
    BY <1>3 DEF NotTouched
  <2>1. x \in flying' => owner'[x] \notin hits
    BY <1>1
  <2>2. ASSUME registers'[x] = "stray" PROVE owner'[x] \in hits
    <3>1. x \notin taken \cup back /\ owner'[x] = owner[x] /\ owner[x] # Nobody
      BY <1>1, <2>2
    <3>2. registers[x] = "stray" => owner[x] \in struck
      BY DEF OperandsInv, NotTouched
    <3> QED
      BY <1>1, <1>3, <2>2, <3>1, <3>2
  <2> QED
    BY <2>1, <2>2
<1>13. ASSUME NEW e \in RSEntries, Stays(e, mis, sel, bus)
       PROVE  EntrySound(e)'
  <2> DEFINE i == rs_array[e].dec_inst
             t == i.thread_idx
             w == Woken(i, bus)
  <2>1. i \in DecInst /\ EntrySound(e) /\ rs_array[e].valid
    BY <1>13 DEF Stays, OperandsInv, Typed
  <2>2. t \in RSThreads \ mis
    BY <1>13, <2>1 DEF Stays, EntrySound, Thread
  <2>3. /\ w.thread_idx = t /\ w.tag = i.tag /\ w.tag1 = i.tag1 /\ w.tag2 = i.tag2
        /\ w.tag1_ready <=> i.tag1_ready \/ [thread_idx |-> t, tag |-> i.tag1] \in bus
        /\ w.tag2_ready <=> i.tag2_ready \/ [thread_idx |-> t, tag |-> i.tag2] \in bus
    BY <2>1, WokenIs DEF Hit
  <2>4. t \notin hits =>
           /\ t \notin struck
           /\ \A x \in Tags : owner[x] = t /\ x \notin freed =>
                 /\ owner'[x] = t
                 /\ registers'[x] = IF x \in cast THEN "own" ELSE registers[x]
                 /\ [thread_idx |-> t, tag |-> x] \in bus <=> x \in cast
           /\ i.tag1 \notin freed /\ i.tag2 \notin freed
    BY <1>9, <2>1, <2>2 DEF Thread
  <2>5. OperandSound(w.tag1, w.tag1_ready, t, owner', registers', hits)
    BY <2>1, <2>3, <2>4 DEF EntrySound, OperandSound
  <2>6. OperandSound(w.tag2, w.tag2_ready, t, owner', registers', hits)
    BY <2>1, <2>3, <2>4 DEF EntrySound, OperandSound
  <2>7. TargetSound(w.tag, t, owner', registers', flying', hits)
    <3>1. i.tag = NoTag \/ i.tag \in Tags
      BY <2>1 DEF EntrySound, TargetSound
    <3>2. ASSUME i.tag # NoTag, t \notin hits
          PROVE  owner'[i.tag] = t /\ registers'[i.tag] = "old" /\ i.tag \notin flying'
      <4>1. i.tag \in Tags /\ owner[i.tag] = t /\ registers[i.tag] = "old" /\ i.tag \notin flying
        BY <2>1, <2>4, <3>2 DEF EntrySound, TargetSound
      <4>2. i.tag \notin freed /\ i.tag \notin cast
        BY <4>1, <1>2, <1>9, <2>2, <3>2
      <4>3. \A d \in sel : Thread(d) \notin hits => rs_array[d].dec_inst.tag # i.tag
        BY <1>3, <1>13, <2>1, <3>2 DEF Stays, Permitted, OperandsInv, OneWriter, Thread
      <4> QED
        BY <4>1, <4>2, <4>3, <2>4, <3>2, <1>1
    <3> QED
      BY <2>3, <3>1, <3>2 DEF TargetSound
  <2>8. rs_array'[e] = [valid |-> TRUE, dec_inst |-> w]
    BY <1>13 DEF Stays
  <2> QED
    BY <1>3, <2>2, <2>3, <2>5, <2>6, <2>7, <2>8 DEF EntrySound
<1>14. ASSUME NEW e \in RSEntries, Enters(e, sel, n, g)
       PROVE  EntrySound(e)'
  <2> DEFINE i == g[DpChannel(e, sel)]
  <2>1. PICK older \in SUBSET (Free \cap taken) : Arrives(i, s, older, freed, bus)
    BY <1>8, <1>14
  <2>2. i.tag \in taken /\ s \in RSThreads \ mis /\ s # Nobody
    BY <1>5, <1>8, <1>14, RSParameters DEF Taken, taken
  <2>3. ASSUME NEW x, NEW ready, x \in Sources(s, older, freed),
               ready <=> ReadyAtDispatch(x, older, bus)
        PROVE  OperandSound(x, ready, s, owner', registers', hits)
    <3>1. CASE x = NoTag
      BY <3>1, <2>3 DEF OperandSound, ReadyAtDispatch
    <3>2. CASE x \in older
      <4>1. x \in Tags /\ x \in taken /\ x # NoTag
        BY <3>2, RSParameters DEF Free, Owned
      <4>2. registers'[x] = "old" /\ owner'[x] = s
        BY <4>1, <1>1
      <4> QED
        BY <3>2, <4>1, <4>2, <2>3 DEF OperandSound, ReadyAtDispatch
    <3>3. CASE x \in Owned(s) \ freed
      <4>1. x \in Tags /\ owner[x] = s /\ x # NoTag /\ x \notin older
        BY <3>3, <2>2, RSParameters DEF Owned, Free
      <4>2. s \notin hits =>
               /\ owner'[x] = s /\ registers'[x] = IF x \in cast THEN "own" ELSE registers[x]
               /\ x \in TagsOf(bus) <=> x \in cast
               /\ registers[x] = "old" \/ registers[x] = "own"
        <5>1. registers[x] \in Values
          BY <4>1 DEF OperandsInv, Typed
        <5> QED
          BY <4>1, <5>1, <1>9, <2>2, <3>3 DEF Values
      <4> QED
        BY <4>1, <4>2, <2>3 DEF OperandSound, ReadyAtDispatch
    <3> QED
      BY <3>1, <3>2, <3>3, <2>3 DEF Sources
  <2>4. /\ OperandSound(i.tag1, i.tag1_ready, s, owner', registers', hits)
        /\ OperandSound(i.tag2, i.tag2_ready, s, owner', registers', hits)
    BY <2>1, <2>3 DEF Arrives
  <2>5. TargetSound(i.tag, s, owner', registers', flying', hits)
    BY <1>1, <1>4, <2>2 DEF TargetSound
  <2>6. rs_array'[e] = [valid |-> TRUE, dec_inst |-> i] /\ i.thread_idx = s
    BY <1>14, <2>1 DEF Enters, Arrives
  <2> QED
    BY <1>3, <2>2, <2>4, <2>5, <2>6 DEF EntrySound
<1>15. \A e \in RSEntries : rs_array'[e].valid =>
         Stays(e, mis, sel, bus) \/ Enters(e, sel, n, g)
  BY <1>7 DEF Cleared
<1>16. \A e \in RSEntries : EntrySound(e)'
  BY <1>13, <1>14, <1>15 DEF EntrySound
<1>17. OneWriter'
  <2> SUFFICES ASSUME NEW d \in RSEntries, NEW e \in RSEntries,
                      rs_array'[d].valid, rs_array'[e].valid, d # e,
                      Thread(d)' \notin hits, Thread(e)' \notin hits,
                      rs_array'[d].dec_inst.tag # NoTag
               PROVE  rs_array'[d].dec_inst.tag # rs_array'[e].dec_inst.tag
    BY <1>3 DEF OneWriter
  <2>1. ASSUME NEW f \in RSEntries, Stays(f, mis, sel, bus), Thread(f)' \notin hits
        PROVE  /\ rs_array[f].valid /\ Thread(f) \notin struck
               /\ rs_array'[f].dec_inst.tag = rs_array[f].dec_inst.tag
               /\ rs_array[f].dec_inst.tag # NoTag => owner[rs_array[f].dec_inst.tag] # Nobody
    <3>1. rs_array[f].valid /\ rs_array[f].dec_inst \in DecInst /\ EntrySound(f)
      BY <2>1 DEF Stays, OperandsInv, Typed
    <3>2. /\ rs_array'[f].dec_inst.tag = rs_array[f].dec_inst.tag
          /\ Thread(f)' = Thread(f)
      BY <2>1, <3>1, WokenIs DEF Stays, Thread
    <3>3. Thread(f) \notin struck
      BY <1>3, <2>1, <3>2
    <3> QED
      BY <3>1, <3>2, <3>3, RSParameters DEF EntrySound, TargetSound, Thread
  <2>2. ASSUME NEW f \in RSEntries, Enters(f, sel, n, g)
        PROVE  /\ rs_array'[f].dec_inst.tag = g[DpChannel(f, sel)].tag
               /\ rs_array'[f].dec_inst.tag # NoTag => owner[rs_array'[f].dec_inst.tag] = Nobody
    <3>1. g[DpChannel(f, sel)].tag \in taken
      BY <1>8, <2>2 DEF taken, Taken
    <3> QED
      BY <2>2, <3>1, <1>1, <1>4 DEF Enters
  <2>3. CASE Stays(d, mis, sel, bus) /\ Stays(e, mis, sel, bus)
    BY <2>1, <2>3 DEF OperandsInv, OneWriter
  <2>4. CASE Enters(d, sel, n, g) /\ Enters(e, sel, n, g)
    <3>1. DpChannel(d, sel) # DpChannel(e, sel)
      BY <2>4, DispatchedChannels DEF Enters, Permitted
    <3> QED
      BY <3>1, <2>2, <2>4, <1>8 DEF Permitted
  <2> QED
    BY <2>1, <2>2, <2>3, <2>4, <1>15
<1>18. ReadsItsProducer'
  BY IssuedReads DEF RSEdge
<1> QED
  BY <1>10, <1>11, <1>12, <1>16, <1>17, <1>18 DEF OperandsInv

-----------------------------------------------------------------------------
\* Every step is a permitted edge.

LEMMA StepIsPermitted ==
  ASSUME RSNext
  PROVE  \E mis, sel, s, n, g, cast, late, hit, freed :
            /\ Permitted(mis, sel, s, n, g, cast, late, hit, freed)
            /\ RSEdge(mis, sel, s, n, g, cast, late, hit, freed)
<1>0. PICK late \in SUBSET strays :
         \E hit \in SUBSET {r.thread_idx : r \in late} : Cycle(late, hit)
  BY DEF RSNext
<1>1. PICK hit \in SUBSET {r.thread_idx : r \in late} : Cycle(late, hit)
  BY <1>0
<1>2. PICK mis \in SUBSET RSThreads, ready \in SUBSET UnitClasses :
        \E cast \in Broadcasts(mis, late), freed \in SUBSET Retired(mis) :
        LET sel == IsSel({e \in RSEntries : IsReady(e, mis, ready)})
        IN  \/ RSEdge(mis, sel, Nobody, 0, <<>>, cast, late, hit, freed)
            \/ \E s \in RSThreads \ mis : \E n \in 1..DP_NUM :
                  /\ n <= AvailNum(sel)
                  /\ \E g \in RSGroups(s, n, freed, Bus(cast, late)) :
                        RSEdge(mis, sel, s, n, g, cast, late, hit, freed)
  BY <1>1 DEF Cycle
<1> DEFINE sel == IsSel({e \in RSEntries : IsReady(e, mis, ready)})
<1>3. PICK cast \in Broadcasts(mis, late), freed \in SUBSET Retired(mis) :
        \/ RSEdge(mis, sel, Nobody, 0, <<>>, cast, late, hit, freed)
        \/ \E s \in RSThreads \ mis : \E n \in 1..DP_NUM :
              /\ n <= AvailNum(sel)
              /\ \E g \in RSGroups(s, n, freed, Bus(cast, late)) :
                    RSEdge(mis, sel, s, n, g, cast, late, hit, freed)
  BY <1>2
<1>4. \A e \in sel : /\ e \in RSEntries /\ rs_array[e].valid
                     /\ rs_array[e].dec_inst.tag1_ready
                     /\ rs_array[e].dec_inst.tag2_ready
                     /\ Thread(e) \notin mis
  BY DEF IsSel, IsEntries, IsReady
<1> HIDE DEF sel
<1>5. CASE RSEdge(mis, sel, Nobody, 0, <<>>, cast, late, hit, freed)
  <2>1. 0..(0 - 1) = {}
    OBVIOUS
  <2>2. Permitted(mis, sel, Nobody, 0, <<>>, cast, late, hit, freed)
    BY <1>4, <2>1 DEF Permitted
  <2> QED
    BY <1>5, <2>2
<1>6. ASSUME NEW s \in RSThreads \ mis, NEW n \in 1..DP_NUM, n <= AvailNum(sel),
             NEW g \in RSGroups(s, n, freed, Bus(cast, late)),
             RSEdge(mis, sel, s, n, g, cast, late, hit, freed)
      PROVE  Permitted(mis, sel, s, n, g, cast, late, hit, freed)
  <2>1. n \in Nat
    BY RSParameters
  <2>2. /\ \A k \in 0..(n - 1) : \E older \in SUBSET Free :
              /\ older \subseteq Taken(g, k)
              /\ Arrives(g[k], s, older, freed, Bus(cast, late))
        /\ \A j, k \in 0..(n - 1) : j # k => g[j].tag = NoTag \/ g[j].tag # g[k].tag
    BY GroupArrives
  <2> QED
    BY <1>4, <1>6, <2>1, <2>2 DEF Permitted
<1> QED
  BY <1>3, <1>5, <1>6

LEMMA StepKeepsOperands ==
  ASSUME OperandsInv, RSNext
  PROVE  OperandsInv'
<1>1. PICK mis, sel, s, n, g, cast, late, hit, freed :
        /\ Permitted(mis, sel, s, n, g, cast, late, hit, freed)
        /\ RSEdge(mis, sel, s, n, g, cast, late, hit, freed)
  BY StepIsPermitted
<1> QED
  BY <1>1, EdgeKeepsOperands

LEMMA InitOperands == RSInit => OperandsInv
<1> SUFFICES ASSUME RSInit PROVE OperandsInv
  OBVIOUS
<1>1. Cleared \in [valid : BOOLEAN, dec_inst : DecInst] /\ ~Cleared.valid
  BY DEF Cleared, DecInst
<1>2. \A e \in RSEntries : rs_array[e] = Cleared
  BY DEF RSInit
<1>3. Typed /\ FreeIsClean /\ NotTouched
  BY <1>1 DEF RSInit, Typed, FreeIsClean, NotTouched, Values
<1>4. OneWriter /\ \A e \in RSEntries : EntrySound(e)
  BY <1>1, <1>2 DEF OneWriter, EntrySound
<1>5. ReadsItsProducer
  BY DEF RSInit, ReadsItsProducer, NotIssued
<1> QED
  BY <1>3, <1>4, <1>5 DEF OperandsInv

LEMMA StutterKeepsOperands == OperandsInv /\ UNCHANGED rsVars => OperandsInv'
<1> SUFFICES ASSUME OperandsInv, UNCHANGED rsVars PROVE OperandsInv'
  OBVIOUS
<1>1. Typed' /\ FreeIsClean' /\ NotTouched' /\ ReadsItsProducer'
  BY DEF rsVars, OperandsInv, Typed, FreeIsClean, NotTouched, ReadsItsProducer
<1>2. OneWriter' /\ \A e \in RSEntries : EntrySound(e)'
  BY DEF rsVars, OperandsInv, EntrySound, OneWriter, Thread
<1> QED
  BY <1>1, <1>2 DEF OperandsInv

LEMMA AlwaysOperands == RSSpec => []OperandsInv
<1>1. OperandsInv /\ [RSNext]_rsVars => OperandsInv'
  BY StepKeepsOperands, StutterKeepsOperands
<1> QED
  BY InitOperands, <1>1, PTL DEF RSSpec

LEMMA OperandsWait == OperandsInv => WaitsForItsProducer
<1> SUFFICES ASSUME OperandsInv, NEW e \in RSEntries, rs_array[e].valid,
                    rs_array[e].dec_inst.thread_idx \notin struck
             PROVE  LET i == rs_array[e].dec_inst
                        there(x) == x = NoTag \/ registers[x] = "own"
                    IN  (i.tag1_ready <=> there(i.tag1)) /\ (i.tag2_ready <=> there(i.tag2))
  BY DEF WaitsForItsProducer
<1>1. EntrySound(e)
  BY DEF OperandsInv
<1> QED
  BY <1>1, RSParameters DEF EntrySound, OperandSound

\* An operand of a thread that no stray has struck is marked ready exactly when its
\* value is in the register file (RS.sv l.242-283, l.474-483): through any number of
\* reuses of its tag, flushes and dispatches at the edge of the broadcast, and
\* whatever strays the load-store queue broadcasts with tags that are free or the
\* other threads' (LSQ_entry_ctrl.sv l.508-522).
THEOREM OperandsWaitForTheirProducers == RSSpec => []WaitsForItsProducer
  BY AlwaysOperands, OperandsWait, PTL

\* What such a thread issues carries the results it depends on (PRF.sv l.63-98).
THEOREM IssuesWithItsOperands == RSSpec => []ReadsItsProducer
<1>1. OperandsInv => ReadsItsProducer
  BY DEF OperandsInv
<1> QED
  BY AlwaysOperands, <1>1, PTL

-----------------------------------------------------------------------------
\* The counters.

Valid == {e \in RSEntries : rs_array[e].valid}

ValidOf(t) == {e \in RSEntries : rs_array[e].valid /\ Thread(e) = t}

LEMMA EntriesAreFinite ==
  /\ IsFiniteSet(RSEntries) /\ Cardinality(RSEntries) = RS_ENTRY_NUM
  /\ \A S \in SUBSET RSEntries : IsFiniteSet(S) /\ Cardinality(S) \in Nat
<1>1. IsFiniteSet(RSEntries) /\ Cardinality(RSEntries) = RS_ENTRY_NUM
  <2>1. /\ IsFiniteSet(RSEntries)
        /\ Cardinality(RSEntries) =
              IF 0 > RS_ENTRY_NUM - 1 THEN 0 ELSE ((RS_ENTRY_NUM - 1) - 0) + 1
    BY RSParameters, FS_Interval DEF RSEntries
  <2>2. ((RS_ENTRY_NUM - 1) - 0) + 1 = RS_ENTRY_NUM /\ ~(0 > RS_ENTRY_NUM - 1)
    BY RSParameters
  <2> QED
    BY <2>1, <2>2
<1> QED
  BY <1>1, FS_Subset, FS_CardinalityType

LEMMA SumOfParts ==
  ASSUME NEW S, NEW T, NEW U, IsFiniteSet(S), IsFiniteSet(T), U = S \cup T, S \cap T = {}
  PROVE  IsFiniteSet(U) /\ Cardinality(U) = Cardinality(S) + Cardinality(T)
<1>1. /\ IsFiniteSet(S \cup T)
      /\ Cardinality(S \cup T) = Cardinality(S) + Cardinality(T) - Cardinality(S \cap T)
  BY FS_Union
<1>2. /\ Cardinality(S \cap T) = 0
      /\ Cardinality(S) \in Nat /\ Cardinality(T) \in Nat
  BY FS_EmptySet, FS_CardinalityType
<1> QED
  BY <1>1, <1>2

\* The sum of the counters counts the entries of any number of threads.
LEMMA OccupiedCounts ==
  ASSUME CountersCount, \A e \in Valid : Thread(e) \in RSThreads
  PROVE  Occupied = Cardinality(Valid)
<1> DEFINE any(S) == CHOOSE x \in S : TRUE
           among(S) == {e \in Valid : Thread(e) \in S}
           c == [S \in SUBSET RSThreads |-> Cardinality(among(S))]
           f == CHOOSE h : h = [S \in SUBSET RSThreads |->
                   IF S = {} THEN 0
                   ELSE valid_cnt[any(S)] + h[S \ {any(S)}]]
<1>1. Occupied = f[RSThreads]
  BY DEF Occupied, MapThenSumSet, MapThenFoldSet
<1>2. \A S : IsFiniteSet(among(S)) /\ Cardinality(among(S)) \in Nat
  BY EntriesAreFinite DEF Valid
<1>3. ASSUME NEW S \in SUBSET RSThreads, S # {}
      PROVE  c[S] = valid_cnt[any(S)] + c[S \ {any(S)}]
  <2> DEFINE t == any(S)
  <2>1. t \in S /\ t \in RSThreads
    BY <1>3
  <2> HIDE DEF t
  <2>2. among(S) = among(S \ {t}) \cup ValidOf(t) /\ among(S \ {t}) \cap ValidOf(t) = {}
    BY <2>1 DEF Valid, ValidOf
  <2>3. IsFiniteSet(ValidOf(t)) /\ Cardinality(ValidOf(t)) \in Nat
    BY EntriesAreFinite DEF ValidOf
  <2>4. valid_cnt[t] = Cardinality(ValidOf(t))
    BY <2>1 DEF CountersCount, ValidOf
  <2> HIDE DEF among
  <2>5. Cardinality(among(S)) = Cardinality(among(S \ {t})) + Cardinality(ValidOf(t))
    BY <1>2, <2>2, <2>3, SumOfParts
  <2>6. c[S] = Cardinality(among(S)) /\ c[S \ {t}] = Cardinality(among(S \ {t}))
    BY <1>3
  <2>7. c[S] = valid_cnt[t] + c[S \ {t}]
    BY <1>2, <2>3, <2>4, <2>5, <2>6
  <2> QED
    BY <2>7 DEF t
<1>4. c[{}] = 0
  <2>1. among({}) = {}
    OBVIOUS
  <2> QED
    BY <2>1, FS_EmptySet
<1>5. c[RSThreads] = Cardinality(Valid)
  <2>1. among(RSThreads) = Valid
    OBVIOUS
  <2> QED
    BY <2>1
<1>6. c = [S \in SUBSET RSThreads |-> c[S]]
  OBVIOUS
<1> HIDE DEF c, any, among
<1>7. c = [S \in SUBSET RSThreads |-> IF S = {} THEN 0
                                    ELSE valid_cnt[any(S)] + c[S \ {any(S)}]]
  BY <1>3, <1>4, <1>6
<1>8. f = [S \in SUBSET RSThreads |-> IF S = {} THEN 0
                                    ELSE valid_cnt[any(S)] + f[S \ {any(S)}]]
  BY <1>7
<1> HIDE DEF f
<1>9. ASSUME NEW S \in SUBSET RSThreads, S # {}
      PROVE  /\ any(S) \in S
             /\ IsFiniteSet(S \ {any(S)}) /\ Cardinality(S \ {any(S)}) \in Nat
             /\ Cardinality(S \ {any(S)}) < Cardinality(S)
  <2>1. IsFiniteSet(S) /\ Cardinality(S) \in Nat
    BY RSParameters, FS_Subset, FS_CardinalityType
  <2>2. any(S) \in S
    BY <1>9 DEF any
  <2>3. /\ IsFiniteSet(S \ {any(S)})
        /\ Cardinality(S \ {any(S)}) = Cardinality(S) - 1
    BY <2>1, <2>2, FS_RemoveElement
  <2>4. Cardinality(S \ {any(S)}) \in Nat
    BY <2>3, FS_CardinalityType
  <2> QED
    BY <2>1, <2>2, <2>3, <2>4
<1>10. ASSUME NEW S \in SUBSET RSThreads PROVE f[S] = c[S]
  <2> DEFINE D == {n \in Nat : \E R \in SUBSET RSThreads : Cardinality(R) = n /\ f[R] # c[R]}
  <2> SUFFICES ASSUME f[S] # c[S] PROVE FALSE
    OBVIOUS
  <2>1. Cardinality(S) \in D
    BY RSParameters, FS_Subset, FS_CardinalityType
  <2>2. PICK n \in D : \A m \in D : n <= m
    <3>1. D \in SUBSET Nat /\ D # {}
      BY <2>1
    <3> HIDE DEF D
    <3> QED
      BY <3>1, LeastExists
  <2>3. PICK R \in SUBSET RSThreads : Cardinality(R) = n /\ f[R] # c[R]
    BY <2>2
  <2>4. R # {}
    BY <1>4, <1>8, <2>3
  <2>5. Cardinality(R \ {any(R)}) \in Nat /\ Cardinality(R \ {any(R)}) < n
    BY <1>9, <2>3, <2>4
  <2>6. Cardinality(R \ {any(R)}) \notin D
    <3>1. n \in Nat
      BY <2>2
    <3> HIDE DEF D
    <3> QED
      BY <2>2, <2>5, <3>1
  <2>7. R \ {any(R)} \in SUBSET RSThreads
    OBVIOUS
  <2>8. f[R \ {any(R)}] = c[R \ {any(R)}]
    BY <2>5, <2>6, <2>7
  <2> HIDE DEF D
  <2>9. f[R] = valid_cnt[any(R)] + f[R \ {any(R)}]
    BY <1>8, <2>4
  <2>10. c[R] = valid_cnt[any(R)] + c[R \ {any(R)}]
    BY <1>3, <2>4
  <2> QED
    BY <2>3, <2>8, <2>9, <2>10
<1> QED
  BY <1>1, <1>5, <1>10

CInv == OperandsInv /\ CountersCount

\* The room that the dispatcher is offered is there.
LEMMA RoomIsThere ==
  ASSUME OperandsInv, CountersCount, NEW sel \in SUBSET Valid
  PROVE  /\ AvailNum(sel) \in Int
         /\ AvailNum(sel) <= Cardinality(Empty(sel))
         /\ Cardinality(Empty(sel)) \in Nat
<1>1. \A e \in Valid : Thread(e) \in RSThreads
  BY DEF Valid, OperandsInv, EntrySound, Thread
<1>2. Occupied = Cardinality(Valid)
  BY <1>1, OccupiedCounts
<1>3. /\ Valid \in SUBSET RSEntries /\ sel \in SUBSET RSEntries
      /\ Empty(sel) \in SUBSET RSEntries
      /\ Empty(sel) = (RSEntries \ Valid) \cup sel
      /\ (RSEntries \ Valid) \cap sel = {} /\ RSEntries \cap Valid = Valid
  BY DEF Valid, Empty
<1>4. /\ Cardinality(Valid) \in Nat /\ Cardinality(sel) \in Nat /\ IsFiniteSet(sel)
      /\ Cardinality(Empty(sel)) \in Nat
  BY <1>3, EntriesAreFinite
<1>5. /\ IsFiniteSet(RSEntries \ Valid)
      /\ Cardinality(RSEntries \ Valid) = RS_ENTRY_NUM - Cardinality(Valid)
  BY <1>3, EntriesAreFinite, FS_Difference
<1>6. Cardinality(Empty(sel)) = Cardinality(RSEntries \ Valid) + Cardinality(sel)
  BY <1>3, <1>4, <1>5, SumOfParts
<1> QED
  BY <1>2, <1>4, <1>5, <1>6, RSParameters DEF AvailNum

LEMMA RoomForThem ==
  ASSUME CInv, NEW mis, NEW sel, NEW s, NEW n, NEW g,
         NEW cast, NEW late, NEW hit, NEW freed,
         Permitted(mis, sel, s, n, g, cast, late, hit, freed)
  PROVE  n <= Cardinality(Empty(sel))
<1>1. sel \in SUBSET Valid /\ n \in Nat
  BY DEF Permitted, Valid
<1>2. /\ AvailNum(sel) \in Int /\ AvailNum(sel) <= Cardinality(Empty(sel))
      /\ Cardinality(Empty(sel)) \in Nat
  BY <1>1, RoomIsThere DEF CInv
<1>3. n = 0 \/ n <= AvailNum(sel)
  BY <1>1 DEF Permitted
<1> QED
  BY <1>1, <1>2, <1>3

LEMMA EdgeKeepsCounters ==
  ASSUME OperandsInv, CountersCount, NEW mis, NEW sel, NEW s, NEW n, NEW g,
         NEW cast, NEW late, NEW hit, NEW freed,
         Permitted(mis, sel, s, n, g, cast, late, hit, freed),
         RSEdge(mis, sel, s, n, g, cast, late, hit, freed)
  PROVE  CountersCount'
<1> DEFINE D == DpEntries(sel, n)
           Sent(t) == {e \in sel : Thread(e) = t}
           bus == Bus(cast, late)
<1>1. sel \in SUBSET Valid /\ n \in Nat /\ \A e \in sel : Thread(e) \notin mis
  BY DEF Permitted, Valid
<1>2. IsFiniteSet(D) /\ Cardinality(D) = n
  <2>1. n <= Cardinality(Empty(sel))
    BY RoomForThem DEF CInv
  <2> QED
    BY <1>1, <2>1, DispatchedCount
<1>3. /\ \A e \in D : /\ e \in RSEntries
                      /\ ~rs_array[e].valid \/ e \in sel
                      /\ rs_array'[e].valid /\ Thread(e)' = s
      /\ D # {} => s \notin mis
  <2>1. ASSUME NEW e \in D
        PROVE  /\ e \in RSEntries
               /\ ~rs_array[e].valid \/ e \in sel
               /\ s \notin mis
               /\ rs_array'[e].valid /\ Thread(e)' = s
    <3>1. e \in RSEntries /\ (~rs_array[e].valid \/ e \in sel)
      BY DEF DpEntries, Empty
    <3>2. DpChannel(e, sel) \in 0..(n - 1)
      BY <1>1, DispatchedChannels
    <3>3. s \notin mis
      BY <3>2, <1>1 DEF Permitted
    <3>4. rs_array'[e] = [valid |-> TRUE, dec_inst |-> g[DpChannel(e, sel)]]
      BY <1>1, <3>1 DEF RSEdge, NextEntry
    <3>5. g[DpChannel(e, sel)].thread_idx = s
      BY <3>2 DEF Permitted, Arrives
    <3> QED
      BY <3>1, <3>3, <3>4, <3>5 DEF Thread
  <2> QED
    BY <2>1
<1>4. \A e \in RSEntries \ D :
         /\ rs_array'[e].valid <=> rs_array[e].valid /\ Thread(e) \notin mis /\ e \notin sel
         /\ rs_array'[e].valid => Thread(e)' = Thread(e)
  <2> TAKE e \in RSEntries \ D
  <2>1. rs_array'[e] = NextEntry(e, mis, sel, D, g, bus)
    BY DEF RSEdge
  <2>2. /\ rs_array[e] \in [valid : BOOLEAN, dec_inst : DecInst]
        /\ Woken(rs_array[e].dec_inst, bus).thread_idx = rs_array[e].dec_inst.thread_idx
    BY WokenIs DEF OperandsInv, Typed
  <2> HIDE DEF D
  <2>3. CASE (rs_array[e].valid /\ Thread(e) \in mis) \/ e \in sel
    BY <1>1, <2>1, <2>3 DEF NextEntry, Cleared
  <2>4. CASE rs_array[e].valid /\ Thread(e) \notin mis /\ e \notin sel
    <3>1. rs_array'[e] = [rs_array[e] EXCEPT !.dec_inst = Woken(@, bus)]
      BY <2>1, <2>4 DEF NextEntry
    <3>2. rs_array'[e].valid /\ rs_array'[e].dec_inst = Woken(rs_array[e].dec_inst, bus)
      BY <2>2, <2>4, <3>1
    <3> QED
      BY <2>2, <2>4, <3>2 DEF Thread
  <2>5. CASE ~rs_array[e].valid /\ e \notin sel
    BY <2>1, <2>5 DEF NextEntry
  <2> QED
    BY <2>3, <2>4, <2>5
<1> HIDE DEF D
<1>5. ASSUME NEW t \in RSThreads, t \in mis
      PROVE  valid_cnt'[t] = Cardinality(ValidOf(t)')
  <2>1. ValidOf(t)' = {}
    BY <1>3, <1>4, <1>5 DEF ValidOf
  <2>2. valid_cnt'[t] = 0
    BY <1>5 DEF RSEdge, NextCnt
  <2> QED
    BY <2>1, <2>2, FS_EmptySet
<1>6. ASSUME NEW t \in RSThreads, t \notin mis
      PROVE  valid_cnt'[t] = Cardinality(ValidOf(t)')
  <2> DEFINE Left == ValidOf(t) \ Sent(t)
             New == IF s = t THEN D ELSE {}
  <2>1. ValidOf(t)' = Left \cup New /\ Left \cap New = {}
    <3>1. ASSUME NEW e \in RSEntries PROVE e \in ValidOf(t)' <=> e \in Left \/ e \in New
      <4>1. CASE e \in D
        BY <1>1, <1>3, <4>1 DEF ValidOf, Thread
      <4>2. CASE e \notin D
        BY <1>4, <1>6, <4>2 DEF ValidOf
      <4> QED
        BY <4>1, <4>2
    <3>2. ValidOf(t)' \subseteq RSEntries /\ Left \subseteq RSEntries /\ New \subseteq RSEntries
      BY <1>3 DEF ValidOf
    <3>3. Left \cap New = {}
      BY <1>3 DEF ValidOf
    <3> QED
      BY <3>1, <3>2, <3>3
  <2>2. /\ ValidOf(t) \in SUBSET RSEntries /\ Sent(t) \in SUBSET RSEntries
        /\ Sent(t) = ValidOf(t) \cap Sent(t)
    BY <1>1 DEF Valid, ValidOf
  <2>3. /\ Cardinality(ValidOf(t)) \in Nat /\ Cardinality(Sent(t)) \in Nat
        /\ IsFiniteSet(Left)
        /\ Cardinality(Left) = Cardinality(ValidOf(t)) - Cardinality(Sent(t))
    <3>1. /\ IsFiniteSet(ValidOf(t)) /\ Cardinality(ValidOf(t)) \in Nat
          /\ Cardinality(Sent(t)) \in Nat
      BY <2>2, EntriesAreFinite
    <3>2. /\ IsFiniteSet(Left)
          /\ Cardinality(Left) = Cardinality(ValidOf(t)) - Cardinality(ValidOf(t) \cap Sent(t))
      BY <3>1, FS_Difference
    <3> QED
      BY <2>2, <3>1, <3>2
  <2>4. IsFiniteSet(New) /\ Cardinality(New) = IF s = t THEN n ELSE 0
    BY <1>2, FS_EmptySet
  <2>5. Cardinality(ValidOf(t)') = Cardinality(Left) + Cardinality(New)
    <3> HIDE DEF Left, New
    <3> QED
      BY <2>1, <2>3, <2>4, SumOfParts
  <2>6. valid_cnt[t] = Cardinality(ValidOf(t))
    BY DEF CountersCount, ValidOf
  <2>7. valid_cnt'[t] = valid_cnt[t] + (IF s = t THEN n ELSE 0) - Cardinality(Sent(t))
    BY <1>6 DEF RSEdge, NextCnt, IsCnt
  <2> HIDE DEF Left, New, Sent
  <2> QED
    BY <1>1, <2>3, <2>4, <2>5, <2>6, <2>7
<1> QED
  BY <1>5, <1>6 DEF CountersCount, ValidOf

LEMMA InitCounters == RSInit => CountersCount
<1> SUFFICES ASSUME RSInit PROVE CountersCount
  OBVIOUS
<1>1. \A t : {e \in RSEntries : rs_array[e].valid /\ Thread(e) = t} = {}
  BY DEF RSInit, Cleared
<1> QED
  BY <1>1, FS_EmptySet DEF RSInit, CountersCount

LEMMA InitCInv == RSInit => CInv
  BY InitOperands, InitCounters DEF CInv

LEMMA NextCInv == CInv /\ [RSNext]_rsVars => CInv'
<1>1. CInv /\ RSNext => CInv'
  <2> SUFFICES ASSUME CInv, RSNext PROVE CInv'
    OBVIOUS
  <2>1. PICK mis, sel, s, n, g, cast, late, hit, freed :
          /\ Permitted(mis, sel, s, n, g, cast, late, hit, freed)
          /\ RSEdge(mis, sel, s, n, g, cast, late, hit, freed)
    BY StepIsPermitted
  <2> QED
    BY <2>1, StepKeepsOperands, EdgeKeepsCounters DEF CInv
<1>2. CInv /\ UNCHANGED rsVars => CInv'
  BY StutterKeepsOperands DEF rsVars, CInv, CountersCount, Thread
<1> QED
  BY <1>1, <1>2

\* The counters, kept from what is sent and what leaves (RS.sv l.103-171), are the
\* numbers of entries, for any number of threads and entries: an instruction that
\* the dispatcher sends always finds an empty entry of its own.
THEOREM CountersAreExact == RSSpec => []CountersCount
<1>1. CInv => CountersCount
  BY DEF CInv
<1> QED
  BY InitCInv, NextCInv, <1>1, PTL DEF RSSpec

-----------------------------------------------------------------------------
-----------------------------------------------------------------------------
\* The station never waits for itself.

Target(e) == rs_array[e].dec_inst.tag

\* The operands that an entry waits for.
Awaits(e) ==
    LET i == rs_array[e].dec_inst
    IN  {x \in Tags : (x = i.tag1 /\ ~i.tag1_ready) \/ (x = i.tag2 /\ ~i.tag2_ready)}

\* A result with tag x and thread t is on its way to the bus.
UnderWay(x, t) ==
    (x \in flying /\ owner[x] = t) \/ [thread_idx |-> t, tag |-> x] \in strays

\* Entry e will send it there.
Writes(e, x, t) == e \in Valid /\ Target(e) = x /\ Thread(e) = t

\* Whatever its owner has yet to write is under way, or has its writer.
HasWriter ==
    \A x \in Tags : \A t \in RSThreads :
        owner[x] = t /\ registers[x] = "old" =>
            UnderWay(x, t) \/ \E e \in RSEntries : Writes(e, x, t)

\* The entries can be ranked such that what each waits for is under way or has its
\* writer in a lower rank. The program order is such a rank.
WritersFirst(rank) ==
    \A e \in Valid : \A x \in Awaits(e) :
        \/ UnderWay(x, Thread(e))
        \/ \E d \in RSEntries : Writes(d, x, Thread(e)) /\ rank[d] < rank[e]

Ranked == \E B \in Nat : \E rank \in [RSEntries -> 0..B] : WritersFirst(rank)

\* What is in the station after an edge was there, and waits for what has not come,
\* or it has been dispatched.
LEMMA ValidAfterEdge ==
  ASSUME OperandsInv, NEW mis, NEW sel, NEW s, NEW n, NEW g,
         NEW cast, NEW late, NEW hit, NEW freed,
         Permitted(mis, sel, s, n, g, cast, late, hit, freed),
         RSEdge(mis, sel, s, n, g, cast, late, hit, freed),
         NEW e \in RSEntries
  PROVE  /\ e \in Valid \ sel /\ Thread(e) \notin mis =>
               /\ rs_array'[e].valid /\ e \notin DpEntries(sel, n)
               /\ Target(e)' = Target(e) /\ Thread(e)' = Thread(e)
         /\ rs_array'[e].valid /\ e \notin DpEntries(sel, n) =>
               /\ e \in Valid \ sel /\ Thread(e) \notin mis
               /\ \A x \in Awaits(e)' :
                     /\ x \in Awaits(e)
                     /\ [thread_idx |-> Thread(e), tag |-> x] \notin Bus(cast, late)
         /\ e \in DpEntries(sel, n) =>
               rs_array'[e].valid /\ rs_array'[e].dec_inst = g[DpChannel(e, sel)]
<1> DEFINE D == DpEntries(sel, n)
           bus == Bus(cast, late)
<1>1. rs_array'[e] = NextEntry(e, mis, sel, D, g, bus)
  BY DEF RSEdge
<1>2. e \in D => (~rs_array[e].valid \/ e \in sel) /\ (e \in sel => Thread(e) \notin mis)
  BY DEF DpEntries, Empty, Permitted
<1> DEFINE i == rs_array[e].dec_inst
           w == Woken(i, bus)
<1>3. /\ rs_array[e] \in [valid : BOOLEAN, dec_inst : DecInst]
      /\ w.tag = i.tag /\ w.tag1 = i.tag1 /\ w.tag2 = i.tag2 /\ w.thread_idx = i.thread_idx
      /\ w.tag1_ready <=> i.tag1_ready \/ [thread_idx |-> i.thread_idx, tag |-> i.tag1] \in bus
      /\ w.tag2_ready <=> i.tag2_ready \/ [thread_idx |-> i.thread_idx, tag |-> i.tag2] \in bus
  BY WokenIs DEF OperandsInv, Typed, Hit
<1> HIDE DEF D, w, bus
<1>4. CASE e \in D
  <2>1. rs_array'[e] = [valid |-> TRUE, dec_inst |-> g[DpChannel(e, sel)]]
    BY <1>1, <1>2, <1>4 DEF NextEntry
  <2>2. e \notin Valid \ sel
    BY <1>2, <1>4 DEF Valid
  <2> QED
    BY <1>4, <2>1, <2>2 DEF D
<1>5. CASE e \notin D /\ ~rs_array[e].valid
  <2>1. ~rs_array'[e].valid
    BY <1>1, <1>5 DEF NextEntry, Cleared
  <2> QED
    BY <1>5, <2>1 DEF D, Valid
<1>6. CASE e \notin D /\ rs_array[e].valid /\ (Thread(e) \in mis \/ e \in sel)
  <2>1. ~rs_array'[e].valid
    BY <1>1, <1>6 DEF NextEntry, Cleared
  <2> QED
    BY <1>6, <2>1 DEF D
<1>7. CASE e \notin D /\ rs_array[e].valid /\ Thread(e) \notin mis /\ e \notin sel
  <2>1. rs_array'[e] = [rs_array[e] EXCEPT !.dec_inst = w]
    BY <1>1, <1>7 DEF NextEntry, w
  <2>2. rs_array'[e].valid /\ rs_array'[e].dec_inst = w
    BY <1>3, <1>7, <2>1
  <2>3. \A x \in Awaits(e)' :
           x \in Awaits(e) /\ [thread_idx |-> Thread(e), tag |-> x] \notin bus
    BY <1>3, <2>2 DEF Awaits, Thread
  <2>4. Target(e)' = Target(e) /\ Thread(e)' = Thread(e)
    BY <1>3, <2>2 DEF Target, Thread
  <2> QED
    BY <1>7, <2>2, <2>3, <2>4 DEF D, bus, Valid
<1> QED
  BY <1>4, <1>5, <1>6, <1>7

\* What is under way, or will be sent there, still is after an edge that neither
\* flushes its thread nor broadcasts it.
LEMMA StillUnderWay ==
  ASSUME OperandsInv, NEW mis, NEW sel, NEW s, NEW n, NEW g,
         NEW cast, NEW late, NEW hit, NEW freed,
         Permitted(mis, sel, s, n, g, cast, late, hit, freed),
         RSEdge(mis, sel, s, n, g, cast, late, hit, freed),
         NEW x \in Tags, NEW t \in RSThreads \ mis,
         [thread_idx |-> t, tag |-> x] \notin Bus(cast, late)
  PROVE  /\ UnderWay(x, t) => UnderWay(x, t)' \/ (x \in freed /\ t \notin struck)
         /\ \A d \in RSEntries : Writes(d, x, t) =>
               IF d \in sel THEN UnderWay(x, t)' ELSE Writes(d, x, t)'
<1> DEFINE r == [thread_idx |-> t, tag |-> x]
           hits == Struck(late, hit)
           held == {[thread_idx |-> owner[y], tag |-> y] : y \in flying \ cast}
           comes == {q \in held \cup Issued(sel) : q.thread_idx \in hits}
<1>1. /\ {q \in strays \cup comes : q.thread_idx \notin mis} \ late \subseteq strays'
      /\ flying' = NextFlying(Issued(sel), freed \cup Lost(mis), cast, late, hit)
  BY DEF RSEdge, NextStrays
<1>2. r \notin late /\ r.thread_idx = t /\ t # Nobody
  BY RSParameters DEF Bus
<1>3. ASSUME r \in strays \cup comes PROVE UnderWay(x, t)'
  <2>1. r \in strays'
    BY <1>1, <1>2, <1>3
  <2> QED
    BY <2>1 DEF UnderWay
<1>4. ASSUME owner[x] = t, t \notin hits, x \notin freed, x \notin cast,
             x \in flying \/ \E q \in Issued(sel) : q = r
      PROVE  UnderWay(x, t)'
  <2>1. x \notin Lost(mis)
    BY <1>4 DEF Lost
  <2>2. x \in flying'
    BY <1>1, <1>2, <1>4, <2>1 DEF NextFlying
  <2>3. owner'[x] = t
    BY <1>4, <2>2, TagsAfterEdge
  <2> QED
    BY <2>2, <2>3 DEF UnderWay
<1>5. ASSUME x \in flying, owner[x] = t, x \notin freed \/ t \in struck
      PROVE  UnderWay(x, t)'
  <2>1. t \notin struck /\ x \notin freed
    BY <1>5 DEF OperandsInv, NotTouched
  <2>2. x \notin cast
    BY <1>5 DEF Bus
  <2>3. CASE t \in hits
    <3>1. r \in held
      BY <1>5, <2>2
    <3> QED
      BY <1>2, <1>3, <2>3, <3>1
  <2>4. CASE t \notin hits
    BY <1>4, <1>5, <2>1, <2>2, <2>4
  <2> QED
    BY <2>3, <2>4
<1>6. ASSUME NEW d \in RSEntries, Writes(d, x, t), d \in sel
      PROVE  UnderWay(x, t)'
  <2>1. rs_array[d].valid /\ Target(d) = x /\ Thread(d) = t /\ x # NoTag
    BY <1>6, RSParameters DEF Writes, Valid
  <2>2. r \in Issued(sel)
    BY <1>6, <2>1 DEF Issued, Target
  <2>3. CASE t \in hits
    BY <1>2, <1>3, <2>2, <2>3
  <2>4. CASE t \notin hits
    <3>1. t \notin struck
      BY <2>4 DEF Struck
    <3>2. owner[x] = t /\ registers[x] = "old" /\ x \notin flying
      BY <2>1, <3>1 DEF OperandsInv, EntrySound, TargetSound, Target, Thread
    <3>3. x \notin cast /\ x \notin freed
      BY <3>1, <3>2 DEF Permitted, Broadcasts, Retired
    <3> QED
      BY <1>4, <2>2, <2>4, <3>2, <3>3
  <2> QED
    BY <2>3, <2>4
<1>7. ASSUME NEW d \in RSEntries, Writes(d, x, t), d \notin sel
      PROVE  Writes(d, x, t)'
  <2>1. d \in Valid \ sel /\ Thread(d) \notin mis /\ Target(d) = x /\ Thread(d) = t
    BY <1>7 DEF Writes
  <2>2. rs_array'[d].valid /\ Target(d)' = x /\ Thread(d)' = t
    BY <2>1, ValidAfterEdge
  <2> QED
    BY <2>2 DEF Writes, Valid
<1>8. UnderWay(x, t) => UnderWay(x, t)' \/ (x \in freed /\ t \notin struck)
  BY <1>3, <1>5 DEF UnderWay
<1> QED
  BY <1>6, <1>7, <1>8

\* Channel k of the group has an entry.
LEMMA ChannelArrives ==
  ASSUME CInv, NEW mis, NEW sel, NEW s, NEW n, NEW g,
         NEW cast, NEW late, NEW hit, NEW freed,
         Permitted(mis, sel, s, n, g, cast, late, hit, freed),
         RSEdge(mis, sel, s, n, g, cast, late, hit, freed),
         NEW k \in 0..(n - 1)
  PROVE  \E e \in DpEntries(sel, n) :
            DpChannel(e, sel) = k /\ Writes(e, g[k].tag, s)'
<1>1. n \in Nat /\ n <= Cardinality(Empty(sel))
  BY RoomForThem DEF Permitted
<1>2. PICK e \in DpEntries(sel, n) : DpChannel(e, sel) = k
  BY <1>1, DispatchedChannels
<1>3. e \in RSEntries
  BY <1>1, DispatchedChannels
<1>4. rs_array'[e].valid /\ rs_array'[e].dec_inst = g[k]
  BY <1>2, <1>3, ValidAfterEdge DEF CInv
<1>5. g[k].thread_idx = s
  BY DEF Permitted, Arrives
<1> QED
  BY <1>2, <1>3, <1>4, <1>5 DEF Writes, Valid, Target, Thread

LEMMA EdgeKeepsWriters ==
  ASSUME CInv, HasWriter, NEW mis, NEW sel, NEW s, NEW n, NEW g,
         NEW cast, NEW late, NEW hit, NEW freed,
         Permitted(mis, sel, s, n, g, cast, late, hit, freed),
         RSEdge(mis, sel, s, n, g, cast, late, hit, freed)
  PROVE  HasWriter'
<1> DEFINE taken == Taken(g, n)
           back == freed \cup Lost(mis)
<1>0. OperandsInv
  BY DEF CInv
<1> SUFFICES ASSUME NEW x \in Tags, NEW t \in RSThreads, owner'[x] = t, registers'[x] = "old"
             PROVE  UnderWay(x, t)' \/ \E e \in RSEntries : Writes(e, x, t)'
  BY DEF HasWriter
<1>1. CASE x \in taken
  <2>1. owner'[x] = s
    BY <1>0, <1>1, TagsAfterEdge
  <2>2. PICK k \in 0..(n - 1) : g[k].tag = x
    BY <1>1 DEF Taken
  <2>3. PICK e \in DpEntries(sel, n) : Writes(e, x, s)'
    BY <2>2, ChannelArrives
  <2> QED
    BY <2>1, <2>3 DEF Writes, Valid
<1>2. CASE x \notin taken
  <2>1. t # Nobody
    BY RSParameters
  <2>2. x \notin back /\ owner[x] = t
    BY <1>0, <1>2, <2>1, TagsAfterEdge
  <2>3. registers'[x] = NextRegister(x, mis, taken, back, cast, late)
    BY DEF RSEdge, Taken
  <2>4. registers[x] = "old" /\ t \notin mis /\ x \notin TagsOf(late) /\ x \notin cast
    BY <1>2, <2>1, <2>2, <2>3 DEF NextRegister, OnBus
  <2>5. [thread_idx |-> t, tag |-> x] \notin Bus(cast, late)
    <3>1. \A r \in late : r.tag # x
      BY <2>4 DEF TagsOf
    <3>2. \A y \in cast : [thread_idx |-> owner[y], tag |-> y].tag # x
      BY <2>4
    <3> QED
      BY <3>1, <3>2 DEF Bus
  <2>6. UnderWay(x, t) \/ \E e \in RSEntries : Writes(e, x, t)
    BY <2>2, <2>4 DEF HasWriter
  <2> QED
    BY <1>0, <2>2, <2>4, <2>5, <2>6, StillUnderWay
<1> QED
  BY <1>1, <1>2

LEMMA EdgeKeepsRank ==
  ASSUME CInv, HasWriter, Ranked, NEW mis, NEW sel, NEW s, NEW n, NEW g,
         NEW cast, NEW late, NEW hit, NEW freed,
         Permitted(mis, sel, s, n, g, cast, late, hit, freed),
         RSEdge(mis, sel, s, n, g, cast, late, hit, freed)
  PROVE  Ranked'
<1> DEFINE D == DpEntries(sel, n)
           ch(e) == DpChannel(e, sel)
           bus == Bus(cast, late)
<1>0. OperandsInv
  BY DEF CInv
<1>1. PICK B \in Nat : \E rank \in [RSEntries -> 0..B] : WritersFirst(rank)
  BY DEF Ranked
<1>2. PICK rank \in [RSEntries -> 0..B] : WritersFirst(rank)
  BY <1>1
<1>3. n \in Nat
  BY DEF Permitted
<1>4. \A e \in D : e \in RSEntries /\ ch(e) \in 0..(n - 1)
  BY <1>3, DispatchedChannels
<1> DEFINE later == [e \in RSEntries |-> IF e \in D THEN B + 1 + ch(e) ELSE rank[e]]
<1>5. /\ later \in [RSEntries -> 0..(B + n)]
      /\ \A e \in RSEntries \ D : later[e] \in 0..B /\ later[e] = rank[e]
  <2> HIDE DEF D, ch
  <2>1. ASSUME NEW e \in RSEntries PROVE later[e] \in 0..(B + n)
    <3>1. rank[e] \in 0..B
      OBVIOUS
    <3>2. e \in D => ch(e) \in 0..(n - 1)
      BY <1>4
    <3> QED
      BY <1>3, <3>1, <3>2
  <2>2. \A e \in RSEntries \ D : later[e] \in 0..B /\ later[e] = rank[e]
    OBVIOUS
  <2> QED
    BY <2>1, <2>2
<1>6. ASSUME NEW e \in D, NEW x \in Awaits(e)'
      PROVE  \/ UnderWay(x, Thread(e))'
             \/ \E d \in RSEntries : Writes(d, x, Thread(e))' /\ later[d] < later[e]
  <2> DEFINE k == ch(e)
             i == g[k]
  <2>1. e \in RSEntries /\ k \in 0..(n - 1) /\ rs_array'[e].dec_inst = i
    BY <1>0, <1>4, ValidAfterEdge
  <2> HIDE DEF k
  <2>2. PICK older \in SUBSET Free : older \subseteq Taken(g, k) /\ Arrives(i, s, older, freed, bus)
    BY <2>1 DEF Permitted
  <2>3. s \in RSThreads \ mis /\ Thread(e)' = s
    BY <1>3, <2>1, <2>2 DEF Permitted, Arrives, Thread
  <2>4. x \in Tags /\ x \in Sources(s, older, freed) /\ ~ReadyAtDispatch(x, older, bus)
    BY <2>1, <2>2 DEF Awaits, Arrives
  <2>5. CASE x \in older
    <3>1. PICK j \in 0..(k - 1) : g[j].tag = x
      BY <2>2, <2>5 DEF Taken
    <3>2. j \in 0..(n - 1)
      BY <1>3, <2>1
    <3>3. PICK d \in D : ch(d) = j /\ Writes(d, x, s)'
      BY <3>1, <3>2, ChannelArrives
    <3>4. d \in RSEntries
      BY <1>4
    <3> HIDE DEF D, ch
    <3>5. later[d] = B + 1 + j /\ later[e] = B + 1 + k
      BY <2>1, <3>3, <3>4 DEF k
    <3>6. later[d] < later[e]
      BY <1>3, <2>1, <3>5
    <3> QED
      BY <2>3, <3>3, <3>4, <3>6
  <2>6. CASE x \notin older
    <3>1. /\ owner[x] = s /\ x \notin freed /\ registers[x] = "old"
          /\ [thread_idx |-> s, tag |-> x] \notin bus
      <4>1. x # NoTag
        BY <2>4, RSParameters
      <4>2. x \notin TagsOf(bus)
        BY <2>4, <2>6, <4>1 DEF ReadyAtDispatch
      <4>3. [thread_idx |-> s, tag |-> x] \notin bus
        BY <4>2 DEF TagsOf
      <4> QED
        BY <2>4, <2>6, <4>1, <4>3 DEF ReadyAtDispatch, Sources, Owned
    <3>2. CASE UnderWay(x, s)
      BY <1>0, <2>3, <2>4, <3>1, <3>2, StillUnderWay
    <3>3. CASE ~UnderWay(x, s)
      <4>1. PICK d \in RSEntries : Writes(d, x, s)
        BY <2>3, <2>4, <3>1, <3>3 DEF HasWriter
      <4>2. IF d \in sel THEN UnderWay(x, s)' ELSE Writes(d, x, s)'
        BY <1>0, <2>3, <2>4, <3>1, <4>1, StillUnderWay
      <4>3. CASE d \in sel
        BY <2>3, <4>2, <4>3
      <4>4. CASE d \notin sel
        <5>1. d \notin D
          BY <1>0, <2>3, <4>1, <4>4, ValidAfterEdge DEF Writes
        <5>2. later[d] \in 0..B
          BY <1>5, <5>1
        <5>3. later[e] = B + 1 + k
          BY <2>1 DEF k
        <5> HIDE DEF D, later
        <5>4. later[d] < later[e]
          BY <1>3, <2>1, <5>2, <5>3
        <5> QED
          BY <2>3, <4>2, <4>4, <5>4
      <4> QED
        BY <4>3, <4>4
    <3> QED
      BY <2>3, <3>2, <3>3
  <2> QED
    BY <2>5, <2>6
<1>7. ASSUME NEW e \in RSEntries, e \notin D, rs_array'[e].valid, NEW x \in Awaits(e)'
      PROVE  \/ UnderWay(x, Thread(e))'
             \/ \E d \in RSEntries : Writes(d, x, Thread(e))' /\ later[d] < later[e]
  <2>0. PICK t : t = Thread(e)
    OBVIOUS
  <2>1. /\ e \in Valid \ sel /\ t \notin mis /\ x \in Awaits(e)
        /\ [thread_idx |-> t, tag |-> x] \notin bus
    BY <1>0, <1>7, <2>0, ValidAfterEdge
  <2>2. Thread(e)' = t
    BY <1>0, <2>0, <2>1, ValidAfterEdge
  <2>3. t \in RSThreads /\ x \in Tags
    BY <1>0, <2>0, <2>1 DEF OperandsInv, EntrySound, Valid, Thread, Awaits
  <2>4. x \in freed => t \in struck \/ owner[x] # t
    <3>1. x \in Named(mis)
      BY <2>0, <2>1 DEF Named, Awaits, Valid
    <3> QED
      BY <3>1 DEF Permitted, Retired
  <2>5. CASE UnderWay(x, t)
    <3>1. x \in freed => t \in struck \/ UnderWay(x, t)'
      <4>1. t \notin struck => owner[x] = t
        BY <1>0, <2>0, <2>1, <2>3, RSParameters
        DEF OperandsInv, EntrySound, OperandSound, Valid, Thread, Awaits
      <4> QED
        BY <2>4, <4>1
    <3> QED
      BY <1>0, <2>1, <2>2, <2>3, <2>5, <3>1, StillUnderWay
  <2>6. ASSUME NEW d \in RSEntries, Writes(d, x, t), rank[d] < rank[e]
        PROVE  UnderWay(x, t)' \/ (Writes(d, x, t)' /\ later[d] < later[e])
    <3>1. CASE d \in sel
      BY <1>0, <2>1, <2>3, <2>6, <3>1, StillUnderWay
    <3>2. CASE d \notin sel
      <4>1. d \notin D
        BY <1>0, <2>1, <2>6, <3>2, ValidAfterEdge DEF Writes
      <4>2. later[d] < later[e]
        BY <1>5, <1>7, <2>6, <4>1
      <4> QED
        BY <1>0, <2>1, <2>3, <2>6, <4>2, StillUnderWay
    <3> QED
      BY <3>1, <3>2
  <2> QED
    BY <1>2, <2>0, <2>1, <2>2, <2>5, <2>6 DEF WritersFirst
<1>8. B + n \in Nat
  BY <1>3
<1>9. PICK higher \in [RSEntries -> 0..(B + n)] : higher = later
  BY <1>5
<1> HIDE DEF later, D, ch, bus
<1>10. WritersFirst(higher)'
  BY <1>4, <1>6, <1>7, <1>9 DEF WritersFirst, Valid
<1> QED
  BY <1>8, <1>10 DEF Ranked

\* That every operand is ready some time: it is inductive only with the ranks, or two
\* entries might wait for each other, and with the counters, or a writer might be
\* sent to no entry.
WInv == CInv /\ HasWriter /\ Ranked

LEMMA NextWInv == WInv /\ [RSNext]_rsVars => WInv'
<1>1. WInv /\ RSNext => WInv'
  <2> SUFFICES ASSUME WInv, RSNext PROVE WInv'
    OBVIOUS
  <2>1. PICK mis, sel, s, n, g, cast, late, hit, freed :
          /\ Permitted(mis, sel, s, n, g, cast, late, hit, freed)
          /\ RSEdge(mis, sel, s, n, g, cast, late, hit, freed)
    BY StepIsPermitted
  <2>2. CInv /\ HasWriter /\ Ranked
    BY DEF WInv
  <2>3. CInv'
    BY <2>2, NextCInv
  <2>4. HasWriter'
    BY <2>1, <2>2, EdgeKeepsWriters
  <2>5. Ranked'
    BY <2>1, <2>2, EdgeKeepsRank
  <2> QED
    BY <2>3, <2>4, <2>5 DEF WInv
<1>2. WInv /\ UNCHANGED rsVars => WInv'
  <2> SUFFICES ASSUME WInv, UNCHANGED rsVars PROVE WInv'
    OBVIOUS
  <2>1. CInv'
    BY NextCInv DEF WInv
  <2>2. /\ \A x, t : UnderWay(x, t)' <=> UnderWay(x, t)
        /\ \A e, x, t : Writes(e, x, t)' <=> Writes(e, x, t)
        /\ \A e : Awaits(e)' = Awaits(e) /\ Thread(e)' = Thread(e)
        /\ Valid' = Valid /\ owner' = owner /\ registers' = registers
    BY DEF rsVars, UnderWay, Writes, Valid, Target, Thread, Awaits
  <2>3. HasWriter'
    BY <2>2 DEF WInv, HasWriter
  <2>4. \A rank : WritersFirst(rank) => WritersFirst(rank)'
    BY <2>2 DEF WritersFirst
  <2>5. Ranked'
    BY <2>4 DEF WInv, Ranked
  <2> QED
    BY <2>1, <2>3, <2>5 DEF WInv
<1> QED
  BY <1>1, <1>2

LEMMA InitWInv == RSInit => WInv
<1> SUFFICES ASSUME RSInit PROVE WInv
  OBVIOUS
<1>1. Valid = {}
  BY DEF RSInit, Valid, Cleared
<1>2. CInv
  BY InitCInv
<1>3. HasWriter
  BY RSParameters DEF RSInit, HasWriter
<1>4. [e \in RSEntries |-> 0] \in [RSEntries -> 0..0]
  OBVIOUS
<1>5. Ranked
  BY <1>1, <1>4 DEF Ranked, WritersFirst
<1> QED
  BY <1>2, <1>3, <1>5 DEF WInv

\* The lowest entry of any rank waits for nothing but results under way.
LEMMA LowestIsReady ==
  ASSUME WInv, flying = {}, strays = {}, Valid # {}
  PROVE  \E e \in Valid : /\ rs_array[e].dec_inst.tag1_ready
                          /\ rs_array[e].dec_inst.tag2_ready
<1>1. PICK B \in Nat : \E rank \in [RSEntries -> 0..B] : WritersFirst(rank)
  BY DEF WInv, Ranked
<1>2. PICK rank \in [RSEntries -> 0..B] : WritersFirst(rank)
  BY <1>1
<1>3. PICK e \in Valid : \A d \in Valid : rank[e] <= rank[d]
  <2> DEFINE R == {rank[d] : d \in Valid}
  <2>1. R \in SUBSET Nat /\ R # {}
    BY DEF Valid
  <2>2. PICK r \in R : \A q \in R : r <= q
    <3> HIDE DEF R
    <3> QED
      BY <2>1, LeastExists
  <2> QED
    BY <2>2
<1>4. ASSUME NEW x \in Awaits(e) PROVE FALSE
  <2>1. PICK d \in Valid : rank[d] < rank[e]
    BY <1>2, <1>4 DEF WritersFirst, UnderWay, Writes
  <2>2. rank[e] <= rank[d] /\ rank[d] \in Nat /\ rank[e] \in Nat
    BY <1>3 DEF Valid
  <2> QED
    BY <2>1, <2>2
<1>5. EntrySound(e) /\ rs_array[e].valid
  BY DEF WInv, CInv, OperandsInv, Valid
<1>6. rs_array[e].dec_inst.tag1_ready /\ rs_array[e].dec_inst.tag2_ready
  BY <1>4, <1>5 DEF EntrySound, OperandSound, Awaits
<1> QED
  BY <1>6

\* The station never waits for itself (RS.sv l.242-283, l.474-483): however many
\* entries it has and however they depend on each other, and even in threads that
\* strays have struck, when nothing is on its way to the bus some waiting
\* instruction has all its operands.
THEOREM SomeEntryCanIssue == RSSpec => []NeverAllWaiting
<1>1. WInv => NeverAllWaiting
  <2> SUFFICES ASSUME WInv, flying = {}, strays = {}, NEW e \in RSEntries, rs_array[e].valid
               PROVE  \E d \in RSEntries : /\ rs_array[d].valid
                                           /\ rs_array[d].dec_inst.tag1_ready
                                           /\ rs_array[d].dec_inst.tag2_ready
    BY DEF NeverAllWaiting
  <2>1. Valid # {}
    BY DEF Valid
  <2> QED
    BY <2>1, LowestIsReady DEF Valid
<1> QED
  BY InitWInv, NextWInv, <1>1, PTL DEF RSSpec

-----------------------------------------------------------------------------
\* The ring of the issue buffer (IB.sv).

\* The pointers lie in the array, and the rollover bits say which is ahead.
Pointers ==
    /\ head \in Entries /\ tail \in Entries
    /\ head_rollover \in BOOLEAN /\ tail_rollover \in BOOLEAN
    /\ head_rollover = tail_rollover => head <= tail
    /\ head_rollover # tail_rollover => tail <= head

\* Entry i lies between the pointers.
Between(i) ==
    IF head_rollover = tail_rollover THEN head <= i /\ i < tail
    ELSE head <= i \/ i < tail

\* The inductive invariant. ValidIsInside alone is not inductive: without the order
\* of the pointers the count of entries, which tells how many may be pushed, means
\* nothing.
RingInv ==
    /\ Pointers
    /\ DOMAIN valid = Entries
    /\ \A i \in Entries : valid[i] => Between(i)

\* The number of entries between the pointers.
LEMMA CountsEntries == Pointers => data_num \in 0..C_SIZE
  BY IBParameters DEF Pointers, data_num

\* An entry between the pointers is one of the data_num entries from the head.
LEMMA InsideIsBetween ==
  ASSUME Pointers, NEW i \in Entries
  PROVE  Between(i) <=> \E c \in 0..(data_num - 1) : i = Advance(head, c)
<1>1. ASSUME Between(i) PROVE \E c \in 0..(data_num - 1) : i = Advance(head, c)
  <2>1. CASE i >= head
    <3>1. i - head \in 0..(data_num - 1) /\ i = Advance(head, i - head)
      BY <1>1, <2>1, IBParameters DEF Pointers, Between, data_num, Advance
    <3> QED
      BY <3>1
  <2>2. CASE i < head
    <3>1. /\ i + C_SIZE - head \in 0..(data_num - 1)
          /\ i = Advance(head, i + C_SIZE - head)
      BY <1>1, <2>2, IBParameters DEF Pointers, Between, data_num, Advance
    <3> QED
      BY <3>1
  <2> QED
    BY <2>1, <2>2, IBParameters DEF Pointers
<1>2. ASSUME NEW c \in 0..(data_num - 1), i = Advance(head, c) PROVE Between(i)
  BY <1>2, CountsEntries, IBParameters DEF Pointers, Between, data_num, Advance
<1> QED
  BY <1>1, <1>2

\* A set of channels that holds all those before each of its own is an interval.
LEMMA ChannelsFromZero ==
  ASSUME NEW N \in Nat, NEW S, S \subseteq 0..(N - 1), \A c \in S : 0..c \subseteq S
  PROVE  Cardinality(S) \in 0..N /\ S = 0..(Cardinality(S) - 1)
<1>1. IsFiniteSet(0..(N - 1)) /\ Cardinality(0..(N - 1)) = N
  <2>1. 0 \in Int /\ N - 1 \in Int
    OBVIOUS
  <2>2. /\ IsFiniteSet(0..(N - 1))
        /\ Cardinality(0..(N - 1)) = IF 0 > N - 1 THEN 0 ELSE N - 1 - 0 + 1
    BY <2>1, FS_Interval
  <2> QED
    BY <2>2
<1>2. IsFiniteSet(S) /\ Cardinality(S) <= N
  <2>1. IsFiniteSet(S) /\ Cardinality(S) <= Cardinality(0..(N - 1))
    BY <1>1, FS_Subset
  <2> QED
    BY <1>1, <2>1
<1>3. Cardinality(S) \in Nat
  BY <1>2, FS_CardinalityType
<1>4. ASSUME NEW c \in S PROVE c <= Cardinality(S) - 1
  <2>1. c \in Int /\ c >= 0
    OBVIOUS
  <2>2. Cardinality(0..c) = c + 1
    BY <2>1, FS_Interval
  <2>3. Cardinality(0..c) <= Cardinality(S)
    BY <1>2, FS_Subset
  <2> QED
    BY <2>1, <2>2, <2>3, <1>3
<1> DEFINE e == Cardinality(S) - 1
<1>5. e \in Int /\ e >= -1 /\ S \subseteq 0..e
  BY <1>3, <1>4
<1>6. IsFiniteSet(0..e) /\ Cardinality(0..e) = Cardinality(S)
  <2>1. IsFiniteSet(0..e) /\ Cardinality(0..e) = IF 0 > e THEN 0 ELSE e - 0 + 1
    BY <1>5, FS_Interval, 0 \in Int
  <2> QED
    BY <2>1, <1>3
<1>7. S = 0..e
  BY <1>5, <1>6, FS_Subset
<1> QED
  BY <1>2, <1>3, <1>7

\* What leaves at one edge are the first pop_out_num entries: no more than there
\* are, and no more than there are units (IB_ALU_queue.sv l.216-244).
LEMMA LeavesFromTheHead ==
  ASSUME Pointers, NEW mis, NEW ready
  PROVE  LET out == PopOutNum(mis, ready) IN
         out \in Nat /\ out <= data_num /\ Leaving(mis, ready) = 0..(out - 1)
<1> DEFINE S == Leaving(mis, ready)
           m == Cardinality(S)
<1>1. data_num \in Nat
  BY CountsEntries, IBParameters
<1>2. S \subseteq 0..(data_num - 1)
  BY <1>1, IBParameters DEF Leaving
<1>3. \A c \in S : 0..c \subseteq S
  BY <1>1, IBParameters DEF Leaving
<1> HIDE DEF S
<1>4. m \in 0..data_num /\ S = 0..(m - 1)
  BY <1>1, <1>2, <1>3, ChannelsFromZero
<1> HIDE DEF m
<1>5. PopOutNum(mis, ready) = m
  <2>1. CASE m = 0
    BY <2>1, <1>4 DEF PopOutNum, S
  <2>2. CASE m # 0
    <3>1. S # {} /\ m - 1 \in S /\ \A d \in S : d <= m - 1
      BY <2>2, <1>1, <1>4
    <3>2. \A c \in S : (\A d \in S : d <= c) => c = m - 1
      BY <3>1, <1>1, <1>4
    <3> DEFINE last == CHOOSE c \in S : \A d \in S : d <= c
    <3>3. last = m - 1
      BY <3>1, <3>2
    <3>4. PopOutNum(mis, ready) = 1 + last
      BY <3>1 DEF PopOutNum, S
    <3> HIDE DEF last
    <3> QED
      BY <3>3, <3>4, <1>1, <1>4
  <2> QED
    BY <2>1, <2>2
<1> QED
  BY <1>1, <1>4, <1>5 DEF S

\* One edge, in terms of the numbers that enter and leave: in fits into what is
\* free once out have left.
LEMMA EdgeMovesPointers ==
  ASSUME Pointers, NEW mis, NEW ready, NEW group \in Groups, Edge(mis, ready, group),
         NEW out, out = PopOutNum(mis, ready), NEW in, in = Len(group)
  PROVE  /\ out \in Nat /\ out <= data_num /\ out <= C_SIZE
         /\ in \in Nat /\ in <= C_SIZE /\ in + data_num <= C_SIZE + out
         /\ head' = Advance(head, out) /\ tail' = Advance(tail, in)
         /\ head_rollover' = (IF Wraps(head, out) THEN ~head_rollover ELSE head_rollover)
         /\ tail_rollover' = (IF Wraps(tail, in) THEN ~tail_rollover ELSE tail_rollover)
         /\ DOMAIN valid' = Entries
         /\ \A i \in Entries : valid'[i] =>
               \/ \E c \in 0..(in - 1) : i = Advance(tail, c)
               \/ valid[i] /\ \A c \in 0..(out - 1) : i # Advance(head, c)
<1>1. /\ out \in Nat /\ out <= data_num /\ Leaving(mis, ready) = 0..(out - 1)
  BY LeavesFromTheHead
<1>2. data_num \in 0..C_SIZE
  BY CountsEntries
<1>3. in \in Nat /\ in <= C_IN_NUM
  <2>1. PICK n \in 0..C_IN_NUM : group \in [1..n -> Inst]
    BY DEF Groups
  <2>2. n \in Nat /\ n <= C_IN_NUM
    BY IBParameters
  <2>3. group \in Seq(Inst)
    BY <2>1, <2>2, SeqDef
  <2>4. Len(group) \in Nat /\ DOMAIN group = 1..Len(group)
    BY <2>3, LenProperties
  <2>5. Len(group) = n
    BY <2>1, <2>2, <2>4
  <2> QED
    BY <2>2, <2>5
<1>4. in > 0 => C_IN_NUM <= empty_num(out)
  BY DEF Edge, Ready
<1>5. empty_num(out) = C_SIZE - data_num + out
  BY <1>1, IBParameters DEF empty_num, data_num, Pointers
<1>6. in + data_num <= C_SIZE + out
  BY <1>1, <1>2, <1>3, <1>4, <1>5, IBParameters
<1>7. /\ DOMAIN valid' = Entries
      /\ \A i \in Entries : valid'[i] =>
           \/ \E c \in 0..(in - 1) : i = Advance(tail, c)
           \/ valid[i] /\ \A c \in 0..(out - 1) : i # Advance(head, c)
  BY <1>1 DEF Edge
<1>8. /\ head' = Advance(head, out) /\ tail' = Advance(tail, in)
      /\ head_rollover' = (IF Wraps(head, out) THEN ~head_rollover ELSE head_rollover)
      /\ tail_rollover' = (IF Wraps(tail, in) THEN ~tail_rollover ELSE tail_rollover)
  BY DEF Edge
<1> QED
  BY <1>1, <1>2, <1>3, <1>6, <1>7, <1>8, IBParameters

\* Every edge keeps the invariant.
LEMMA EdgeKeepsRing ==
  ASSUME RingInv, NEW mis, NEW ready, NEW group \in Groups, Edge(mis, ready, group)
  PROVE  RingInv'
<1> DEFINE out == PopOutNum(mis, ready)
           in == Len(group)
<1>0. Pointers
  BY DEF RingInv
<1>1. /\ out \in Nat /\ out <= data_num /\ out <= C_SIZE
      /\ in \in Nat /\ in <= C_SIZE /\ in + data_num <= C_SIZE + out
      /\ head' = Advance(head, out) /\ tail' = Advance(tail, in)
      /\ head_rollover' = (IF Wraps(head, out) THEN ~head_rollover ELSE head_rollover)
      /\ tail_rollover' = (IF Wraps(tail, in) THEN ~tail_rollover ELSE tail_rollover)
      /\ DOMAIN valid' = Entries
      /\ \A i \in Entries : valid'[i] =>
            \/ \E c \in 0..(in - 1) : i = Advance(tail, c)
            \/ valid[i] /\ \A c \in 0..(out - 1) : i # Advance(head, c)
  BY <1>0, EdgeMovesPointers
<1> HIDE DEF out, in
<1>2. Pointers'
  <2>1. /\ head' \in Entries /\ tail' \in Entries
        /\ head_rollover' \in BOOLEAN /\ tail_rollover' \in BOOLEAN
    <3>1. head' \in Entries /\ tail' \in Entries
      BY <1>0, <1>1, IBParameters DEF Pointers, Advance
    <3>2. head_rollover' \in BOOLEAN
      BY <1>0, <1>1 DEF Pointers
    <3>3. tail_rollover' \in BOOLEAN
      BY <1>0, <1>1 DEF Pointers
    <3> QED
      BY <3>1, <3>2, <3>3
  <2>2. CASE head_rollover = tail_rollover
    <3>1. ~Wraps(head, out) \/ (Wraps(tail, in) /\ Advance(tail, in) = tail + in - C_SIZE)
      BY <1>0, <1>1, <2>2, IBParameters DEF Pointers, Advance, Wraps, data_num
    <3>2. head_rollover' = tail_rollover' => head' <= tail'
      BY <1>0, <1>1, <2>2, <3>1, IBParameters DEF Pointers, Advance, Wraps, data_num
    <3>3. head_rollover' # tail_rollover' => tail' <= head'
      BY <1>0, <1>1, <2>2, <3>1, IBParameters DEF Pointers, Advance, Wraps, data_num
    <3> QED
      BY <2>1, <3>2, <3>3 DEF Pointers
  <2>3. CASE head_rollover # tail_rollover
    <3>1. head_rollover' = tail_rollover' => head' <= tail'
      BY <1>0, <1>1, <2>3, IBParameters DEF Pointers, Advance, Wraps, data_num
    <3>2. head_rollover' # tail_rollover' => tail' <= head'
      BY <1>0, <1>1, <2>3, IBParameters DEF Pointers, Advance, Wraps, data_num
    <3> QED
      BY <2>1, <3>1, <3>2 DEF Pointers
  <2> QED
    BY <2>2, <2>3
<1>3. ASSUME NEW i \in Entries, NEW c \in 0..(in - 1), i = Advance(tail, c)
      PROVE  Between(i)'
  BY <1>0, <1>1, <1>3, IBParameters DEF Pointers, Between, Advance, Wraps, data_num
<1>4. ASSUME NEW i \in Entries, Between(i), \A c \in 0..(out - 1) : i # Advance(head, c)
      PROVE  Between(i)'
  <2>1. CASE i >= head
    <3>1. i - head \notin 0..(out - 1)
      BY <1>0, <1>4, <2>1, IBParameters DEF Pointers, Advance
    <3> QED
      BY <1>0, <1>1, <1>4, <2>1, <3>1, IBParameters
         DEF Pointers, Between, Advance, Wraps, data_num
  <2>2. CASE i < head
    <3>1. i + C_SIZE - head \notin 0..(out - 1)
      BY <1>0, <1>4, <2>2, IBParameters DEF Pointers, Advance
    <3> QED
      BY <1>0, <1>1, <1>4, <2>2, <3>1, IBParameters
         DEF Pointers, Between, Advance, Wraps, data_num
  <2> QED
    BY <2>1, <2>2, <1>0, IBParameters DEF Pointers
<1>5. \A i \in Entries : valid[i] => Between(i)
  BY DEF RingInv
<1>6. \A i \in Entries : valid'[i] => Between(i)'
  BY <1>1, <1>3, <1>4, <1>5
<1> QED
  BY <1>1, <1>2, <1>6 DEF RingInv

LEMMA InitRingInv == Init => RingInv
<1> SUFFICES ASSUME Init PROVE RingInv
  OBVIOUS
<1>1. 0 \in Entries
  BY IBParameters
<1>2. Pointers
  <2>1. head = 0 /\ tail = 0 /\ head \in Entries /\ tail \in Entries
    BY <1>1 DEF Init
  <2>2. head_rollover \in BOOLEAN /\ tail_rollover \in BOOLEAN /\ head_rollover = tail_rollover
    BY Zenon DEF Init
  <2> QED
    BY <2>1, <2>2 DEF Pointers
<1>3. DOMAIN valid = Entries /\ \A i \in Entries : ~valid[i]
  BY DEF Init
<1> QED
  BY <1>2, <1>3 DEF RingInv

LEMMA StepKeepsRing == RingInv /\ [Next]_vars => RingInv'
<1> SUFFICES ASSUME RingInv, [Next]_vars PROVE RingInv'
  OBVIOUS
<1>1. CASE Next
  BY <1>1, EdgeKeepsRing DEF Next
<1>2. CASE UNCHANGED vars
  BY <1>2 DEF vars, RingInv, Pointers, Between
<1> QED
  BY <1>1, <1>2

\* Nothing is valid outside the pointers, whatever is pushed, popped and flushed
\* (IB_ALU_queue.sv l.163-171, l.252-280).
THEOREM NothingOutside == Spec => []ValidIsInside
<1>1. Init => RingInv
  BY InitRingInv
<1>2. RingInv /\ [Next]_vars => RingInv'
  BY StepKeepsRing
<1>3. RingInv => ValidIsInside
  BY InsideIsBetween DEF RingInv, ValidIsInside
<1> QED
  BY <1>1, <1>2, <1>3, PTL DEF Spec

-----------------------------------------------------------------------------
\* Finite sets of numbers, in order.


-----------------------------------------------------------------------------
\* Places in order.

\* The places of a finite set of numbers, in order.
LEMMA NthOrders ==
  ASSUME NEW S \in SUBSET Nat, IsFiniteSet(S)
  PROVE  /\ Cardinality(S) \in Nat
         /\ \A k \in 1..Cardinality(S) : /\ Nth(S, k) \in S
                                         /\ Cardinality({d \in S : d < Nth(S, k)}) = k - 1
         /\ \A c \in S : \E k \in 1..Cardinality(S) : Nth(S, k) = c
         /\ \A j, k \in 1..Cardinality(S) : j < k => Nth(S, j) < Nth(S, k)
<1> DEFINE n == Cardinality(S)
           rank(c) == Cardinality({d \in S : d < c})
<1>1. n \in Nat
  BY FS_CardinalityType
<1>2. /\ \A c \in S : rank(c) \in 0..(n - 1)
      /\ \A c, d \in S : rank(c) = rank(d) => c = d
      /\ \A k \in 0..(n - 1) : \E c \in S : rank(c) = k
  BY RanksCover
<1>3. \A k : Nth(S, k) = CHOOSE c \in S : rank(c) = k - 1
  BY DEF Nth
<1>4. \A c, d \in S : c < d => rank(c) < rank(d)
  <2> SUFFICES ASSUME NEW c \in S, NEW d \in S, c < d PROVE rank(c) < rank(d)
    OBVIOUS
  <2> DEFINE C == {e \in S : e < c}
             D == {e \in S : e < d}
  <2>1. C \subseteq D /\ c \in D /\ c \notin C
    <3>1. \A e \in S : e \in Nat
      OBVIOUS
    <3>2. \A e \in S : e < c => e < d
      BY <3>1
    <3>3. ~(c < c)
      BY <3>1
    <3> QED
      BY <3>2, <3>3
  <2>2. IsFiniteSet(D) /\ IsFiniteSet(C)
    BY FS_Subset
  <2> HIDE DEF C, D
  <2>3. Cardinality(C) < Cardinality(D)
    <3>1. Cardinality(C \cup {c}) = Cardinality(C) + 1
      BY <2>1, <2>2, FS_AddElement
    <3>2. C \cup {c} \subseteq D
      BY <2>1
    <3>3. Cardinality(C \cup {c}) <= Cardinality(D)
      BY <2>2, <3>2, FS_Subset
    <3>4. Cardinality(C) \in Nat /\ Cardinality(D) \in Nat
      BY <2>2, FS_CardinalityType
    <3> QED
      BY <3>1, <3>3, <3>4
  <2> QED
    BY <2>3 DEF C, D
<1> HIDE DEF n, rank
<1>5. ASSUME NEW k \in 1..n PROVE Nth(S, k) \in S /\ rank(Nth(S, k)) = k - 1
  <2>1. k - 1 \in 0..(n - 1)
    BY <1>1
  <2>2. \E c \in S : rank(c) = k - 1
    BY <1>2, <2>1
  <2> QED
    BY <1>3, <2>2
<1>6. ASSUME NEW c \in S PROVE \E k \in 1..n : Nth(S, k) = c
  <2>1. rank(c) + 1 \in 1..n /\ (rank(c) + 1) - 1 = rank(c)
    BY <1>1, <1>2
  <2>2. Nth(S, rank(c) + 1) \in S /\ rank(Nth(S, rank(c) + 1)) = rank(c)
    BY <1>5, <2>1
  <2> QED
    BY <1>2, <2>1, <2>2
<1>7. ASSUME NEW j \in 1..n, NEW k \in 1..n, j < k PROVE Nth(S, j) < Nth(S, k)
  <2> DEFINE a == Nth(S, j)
             b == Nth(S, k)
  <2>1. a \in S /\ b \in S /\ rank(a) = j - 1 /\ rank(b) = k - 1
    BY <1>5
  <2> HIDE DEF a, b
  <2>2. a \in Nat /\ b \in Nat /\ ~(b < a) /\ a # b
    BY <1>1, <1>4, <1>7, <2>1
  <2> QED
    BY <2>2 DEF a, b
<1> QED
  BY <1>1, <1>5, <1>6, <1>7 DEF n, rank

\* What lists a set of numbers in order has as many of them as the set.
LEMMA ListCounts ==
  ASSUME NEW S \in SUBSET Nat, NEW n \in Nat, NEW f,
         \A k \in 1..n : f[k] \in S,
         \A c \in S : \E k \in 1..n : f[k] = c,
         \A j, k \in 1..n : j < k => f[j] < f[k]
  PROVE  IsFiniteSet(S) /\ Cardinality(S) = n
<1> DEFINE F == [k \in 1..n |-> f[k]]
<1>1. \A j, k \in 1..n : f[j] = f[k] => j = k
  <2> SUFFICES ASSUME NEW j \in 1..n, NEW k \in 1..n, f[j] = f[k], j # k PROVE FALSE
    OBVIOUS
  <2>1. j < k \/ k < j
    OBVIOUS
  <2>2. f[j] \in Nat
    OBVIOUS
  <2> QED
    BY <2>1, <2>2
<1>2. F \in Bijection(1..n, S)
  BY <1>1 DEF Bijection, Injection, Surjection, IsInjective
<1>3. IsFiniteSet(1..n) /\ Cardinality(1..n) = n
  <2>1. (n - 1) + 1 = n /\ (1 > n <=> n = 0)
    OBVIOUS
  <2> QED
    BY <2>1, FS_Interval, 1 \in Int, n \in Int
<1>4. ExistsBijection(1..n, S)
  BY <1>2 DEF ExistsBijection
<1> QED
  BY <1>3, <1>4, FS_Bijection

\* It is the list of the places.
Lists(f, n, S) ==
    /\ \A k \in 1..n : f[k] \in S
    /\ \A c \in S : \E k \in 1..n : f[k] = c
    /\ \A j, k \in 1..n : j < k => f[j] < f[k]

LEMMA ListIsNth ==
  ASSUME NEW S \in SUBSET Nat, NEW n \in Nat, NEW f, Lists(f, n, S)
  PROVE  /\ IsFiniteSet(S) /\ Cardinality(S) = n
         /\ \A k \in 1..n : Nth(S, k) = f[k]
<1> USE DEF Lists
<1>1. IsFiniteSet(S) /\ Cardinality(S) = n
  BY ListCounts
<1>2. ASSUME NEW k \in 1..n PROVE Cardinality({d \in S : d < f[k]}) = k - 1
  <2> DEFINE U == {d \in S : d < f[k]}
  <2>0. k - 1 \in Nat /\ k \in Nat /\ U \in SUBSET Nat /\ f[k] \in Nat
    <3>1. k - 1 \in Nat /\ k \in Nat
      OBVIOUS
    <3>2. f[k] \in Nat
      OBVIOUS
    <3>3. U \in SUBSET Nat
      OBVIOUS
    <3> QED
      BY <3>1, <3>2, <3>3
  <2>1. \A j \in 1..(k - 1) : f[j] \in U /\ j \in 1..n
    <3> TAKE j \in 1..(k - 1)
    <3>1. j \in 1..n /\ j < k
      OBVIOUS
    <3> QED
      BY <3>1
  <2>2. \A c \in U : \E j \in 1..(k - 1) : f[j] = c
    <3> TAKE c \in U
    <3>1. PICK j \in 1..n : f[j] = c
      OBVIOUS
    <3>2. j # k /\ ~(k < j)
      <4>1. c \in Nat /\ c < f[k]
        OBVIOUS
      <4> QED
        BY <2>0, <3>1, <4>1
    <3>3. j \in 1..(k - 1)
      BY <3>2
    <3> QED
      BY <3>1, <3>3
  <2>3. \A i, j \in 1..(k - 1) : i < j => f[i] < f[j]
    BY <2>1
  <2> HIDE DEF U
  <2>4. Cardinality(U) = k - 1
    BY <2>0, <2>1, <2>2, <2>3, ListCounts
  <2> QED
    BY <2>4 DEF U
<1>3. ASSUME NEW k \in 1..n PROVE Nth(S, k) = f[k]
  <2>1. \A c, d \in S : Cardinality({e \in S : e < c}) = Cardinality({e \in S : e < d}) => c = d
    BY <1>1, RanksCover
  <2>2. f[k] \in S /\ Cardinality({d \in S : d < f[k]}) = k - 1
    BY <1>2
  <2>3. Nth(S, k) \in S /\ Cardinality({d \in S : d < Nth(S, k)}) = k - 1
    BY <1>1, NthOrders
  <2> QED
    BY <2>1, <2>2, <2>3
<1> QED
  BY <1>1, <1>3

-----------------------------------------------------------------------------
\* The ring as a queue.

\* The instruction c places from the head.
Inside(c) == queue[Advance(head, c)]

\* Both modules pick alike.
LEMMA SameCardinality == ASSUME NEW S PROVE Abstract!Cardinality(S) = Cardinality(S)
  BY DEF Abstract!Cardinality, Cardinality

LEMMA SamePicked == ASSUME NEW s, NEW S PROVE Abstract!Picked(s, S) = Picked(s, S)
<1>1. \A k : Abstract!Nth(S, k) = Nth(S, k)
  <2> TAKE k
  <2>1. \A c \in S : Abstract!Cardinality({d \in S : d < c}) = Cardinality({d \in S : d < c})
    BY SameCardinality
  <2> QED
    BY <2>1 DEF Abstract!Nth, Nth
<1>2. Abstract!Cardinality(S) = Cardinality(S)
  BY SameCardinality
<1> QED
  BY <1>1, <1>2 DEF Abstract!Picked, Picked

\* The places from the head are different entries, and behind those in use come the
\* ones from the tail.
LEMMA PlacesDiffer ==
  ASSUME Pointers
  PROVE  /\ \A c \in 0..(C_SIZE - 1) : Advance(head, c) \in Entries
         /\ \A c \in 0..(C_SIZE - 1) : Advance(tail, c) \in Entries
         /\ \A c, d \in 0..(C_SIZE - 1) : Advance(head, c) = Advance(head, d) => c = d
         /\ \A c, d \in 0..(C_SIZE - 1) : Advance(tail, c) = Advance(tail, d) => c = d
         /\ \A c \in Nat : c + data_num < C_SIZE =>
               Advance(tail, c) = Advance(head, c + data_num)
         /\ \A c \in Nat : c < C_SIZE /\ c + data_num >= C_SIZE =>
               Advance(tail, c) = Advance(head, (c + data_num) - C_SIZE)
<1>1. head \in Nat /\ tail \in Nat /\ head < C_SIZE /\ tail < C_SIZE /\ C_SIZE \in Nat
  BY IBParameters DEF Pointers
<1>2. data_num = IF head_rollover = tail_rollover THEN tail - head
                 ELSE (C_SIZE - head) + tail
  BY <1>1 DEF data_num
<1>3. /\ head_rollover = tail_rollover => head <= tail
      /\ head_rollover # tail_rollover => tail <= head
  BY DEF Pointers
<1> QED
  BY <1>1, <1>2, <1>3 DEF Advance

\* Advancing twice around the ring.
LEMMA AdvanceTwice ==
  ASSUME NEW p \in Entries, NEW a \in 0..C_SIZE, NEW c \in 0..(C_SIZE - 1)
  PROVE  /\ c + a < C_SIZE => Advance(Advance(p, a), c) = Advance(p, c + a)
         /\ c + a >= C_SIZE => Advance(Advance(p, a), c) = Advance(p, (c + a) - C_SIZE)
<1>1. /\ C_SIZE \in Nat /\ p \in Nat /\ p < C_SIZE /\ a \in Nat /\ a <= C_SIZE
      /\ c \in Nat /\ c < C_SIZE
  BY IBParameters
<1>2. CASE p + a >= C_SIZE
  <2>1. Advance(p, a) = (p + a) - C_SIZE
    BY <1>1, <1>2 DEF Advance
  <2> QED
    BY <1>1, <1>2, <2>1 DEF Advance
<1>3. CASE p + a < C_SIZE
  <2>1. Advance(p, a) = p + a
    BY <1>1, <1>3 DEF Advance
  <2> QED
    BY <1>1, <1>3, <2>1 DEF Advance
<1> QED
  BY <1>1, <1>2, <1>3

\* Two rollover bits after they have flipped or not.
LEMMA Rollovers ==
  ASSUME NEW a \in BOOLEAN, NEW b \in BOOLEAN, NEW h \in BOOLEAN, NEW t \in BOOLEAN
  PROVE  (IF h THEN ~a ELSE a) = (IF t THEN ~b ELSE b) <=> ((a = b) <=> (h <=> t))
<1>1. CASE h /\ t
  BY <1>1
<1>2. CASE h /\ ~t
  BY <1>2
<1>3. CASE ~h /\ t
  BY <1>3
<1>4. CASE ~h /\ ~t
  BY <1>4
<1> QED
  BY <1>1, <1>2, <1>3, <1>4

\* The number of entries in use after an edge.
LEMMA CountMoves ==
  ASSUME Pointers, NEW out \in Nat, NEW in \in Nat,
         out <= data_num, out <= C_SIZE, in <= C_SIZE, in + data_num <= C_SIZE + out,
         head' = Advance(head, out), tail' = Advance(tail, in),
         head_rollover' = (IF Wraps(head, out) THEN ~head_rollover ELSE head_rollover),
         tail_rollover' = (IF Wraps(tail, in) THEN ~tail_rollover ELSE tail_rollover)
  PROVE  data_num' = (data_num - out) + in
<1>1. data_num \in 0..C_SIZE /\ C_SIZE \in Nat
  BY CountsEntries, IBParameters
<1>2. head \in Nat /\ head < C_SIZE /\ tail \in Nat /\ tail < C_SIZE
  BY <1>1 DEF Pointers
<1>3. /\ head_rollover \in BOOLEAN /\ tail_rollover \in BOOLEAN
      /\ head_rollover = tail_rollover => data_num = tail - head /\ head <= tail
      /\ head_rollover # tail_rollover =>
            data_num = (C_SIZE - head) + tail /\ tail <= head
  BY <1>1, <1>2 DEF Pointers, data_num
<1>4. /\ head' = IF head + out >= C_SIZE THEN (head + out) - C_SIZE ELSE head + out
      /\ tail' = IF tail + in >= C_SIZE THEN (tail + in) - C_SIZE ELSE tail + in
  <2>1. head' = Advance(head, out) /\ tail' = Advance(tail, in)
    OBVIOUS
  <2> QED
    BY <1>1, <1>2, <2>1 DEF Advance
<1>5. /\ head_rollover' = IF head + out >= C_SIZE THEN ~head_rollover ELSE head_rollover
      /\ tail_rollover' = IF tail + in >= C_SIZE THEN ~tail_rollover ELSE tail_rollover
      /\ data_num' = IF head_rollover' = tail_rollover' THEN tail' - head'
                      ELSE C_SIZE - (head' - tail')
  BY DEF Wraps, data_num
<1>6. /\ in \in Nat /\ out \in Nat /\ out <= data_num /\ in + data_num <= C_SIZE + out
      /\ in <= C_SIZE /\ out <= C_SIZE /\ data_num \in Nat /\ data_num <= C_SIZE /\ C_SIZE \in Nat
  BY <1>1
<1>7. head_rollover' = tail_rollover' <=>
          ((head_rollover = tail_rollover) <=> (head + out >= C_SIZE <=> tail + in >= C_SIZE))
  <2> DEFINE H == head + out >= C_SIZE
             T == tail + in >= C_SIZE
  <2>1. H \in BOOLEAN /\ T \in BOOLEAN
    OBVIOUS
  <2>2. /\ head_rollover' = (IF H THEN ~head_rollover ELSE head_rollover)
        /\ tail_rollover' = (IF T THEN ~tail_rollover ELSE tail_rollover)
    BY <1>5
  <2> HIDE DEF H, T
  <2>3. head_rollover' = tail_rollover' <=> ((head_rollover = tail_rollover) <=> (H <=> T))
    BY <1>3, <2>1, <2>2, Rollovers
  <2> QED
    BY <2>3 DEF H, T
<1>8. data_num' = (data_num - out) + in
  <2> DEFINE H == head + out >= C_SIZE
             T == tail + in >= C_SIZE
  <2>1. CASE head_rollover = tail_rollover
    <3>0. data_num = tail - head /\ head <= tail
      BY <1>3, <2>1
    <3>1. ~H /\ data_num = tail - head
      BY <1>2, <1>6, <3>0
    <3>2. CASE T
      <4>1. head_rollover' # tail_rollover'
        BY <1>7, <2>1, <3>1, <3>2
      <4>2. data_num' = C_SIZE - (head' - tail')
        BY <1>5, <4>1
      <4>3. head' = head + out /\ tail' = (tail + in) - C_SIZE
        BY <1>2, <1>4, <1>6, <3>1, <3>2
      <4> QED
        BY <1>2, <1>6, <3>1, <4>2, <4>3
    <3>3. CASE ~T
      <4>1. head_rollover' = tail_rollover'
        BY <1>7, <2>1, <3>1, <3>3
      <4>2. data_num' = tail' - head'
        BY <1>5, <4>1
      <4>3. head' = head + out /\ tail' = tail + in
        BY <1>2, <1>4, <1>6, <3>1, <3>3
      <4> QED
        BY <1>2, <1>6, <3>1, <4>2, <4>3
    <3> QED
      BY <3>2, <3>3
  <2>2. CASE head_rollover # tail_rollover
    <3>0. data_num = (C_SIZE - head) + tail /\ tail <= head
      BY <1>3, <2>2
    <3>1. (T => H) /\ data_num = (C_SIZE - head) + tail
      BY <1>2, <1>6, <3>0
    <3>2. CASE H <=> T
      <4>1. head_rollover' # tail_rollover'
        BY <1>7, <2>2, <3>2
      <4>2. data_num' = C_SIZE - (head' - tail')
        BY <1>5, <4>1
      <4>3. head' - tail' = (head + out) - (tail + in)
        BY <1>2, <1>4, <1>6, <3>2
      <4> QED
        BY <1>2, <1>6, <3>1, <4>2, <4>3
    <3>3. CASE H /\ ~T
      <4>1. head_rollover' = tail_rollover'
        BY <1>7, <2>2, <3>3
      <4>2. data_num' = tail' - head'
        BY <1>5, <4>1
      <4>3. head' = (head + out) - C_SIZE /\ tail' = tail + in
        BY <1>2, <1>4, <1>6, <3>3
      <4> QED
        BY <1>2, <1>6, <3>1, <4>2, <4>3
    <3> QED
      BY <3>1, <3>2, <3>3
  <2> QED
    BY <2>1, <2>2
<1> QED
  BY <1>8

\* What an edge does to the places: those that leave are the first, the others move
\* up, the group comes behind them.
LEMMA PlacesMove ==
  ASSUME RingInv, NEW mis, NEW ready, NEW group \in Groups, Edge(mis, ready, group),
         NEW out, out = PopOutNum(mis, ready), NEW in, in = Len(group)
  PROVE  /\ data_num' = (data_num - out) + in
         /\ \A c \in 0..(C_SIZE - 1) : c + out < data_num =>
               /\ valid'[Advance(head, c)'] <=>
                     valid[Advance(head, c + out)] /\ Inside(c + out).thread_idx \notin mis
               /\ Inside(c)' = Inside(c + out)
         /\ \A c \in 0..(C_SIZE - 1) : c + out >= data_num /\ c + out < data_num + in =>
               /\ valid'[Advance(head, c)']
               /\ Inside(c)' = group[((c + out) - data_num) + 1]
<1>0. /\ RingInv /\ Pointers /\ RingInv' /\ Pointers'
  BY EdgeKeepsRing DEF RingInv
<1>1. /\ out \in Nat /\ out <= data_num /\ out <= C_SIZE
      /\ in \in Nat /\ in <= C_SIZE /\ in + data_num <= C_SIZE + out
      /\ head' = Advance(head, out) /\ tail' = Advance(tail, in)
      /\ head_rollover' = (IF Wraps(head, out) THEN ~head_rollover ELSE head_rollover)
      /\ tail_rollover' = (IF Wraps(tail, in) THEN ~tail_rollover ELSE tail_rollover)
  BY <1>0, EdgeMovesPointers
<1>2. Leaving(mis, ready) = 0..(out - 1)
  BY <1>0, LeavesFromTheHead
<1>3. data_num \in 0..C_SIZE /\ C_SIZE \in Nat
  BY <1>0, CountsEntries, IBParameters
<1>4. data_num' = (data_num - out) + in
  BY <1>0, <1>1, CountMoves
<1>9. head \in Nat /\ head < C_SIZE /\ tail \in Nat /\ tail < C_SIZE
  BY <1>0, <1>3 DEF Pointers
<1>10. /\ head' = IF head + out >= C_SIZE THEN (head + out) - C_SIZE ELSE head + out
       /\ tail' = IF tail + in >= C_SIZE THEN (tail + in) - C_SIZE ELSE tail + in
  BY <1>1, <1>3, <1>9 DEF Advance
<1>12. /\ in \in Nat /\ out \in Nat /\ out <= data_num /\ in + data_num <= C_SIZE + out
       /\ in <= C_SIZE /\ out <= C_SIZE /\ data_num \in Nat /\ data_num <= C_SIZE /\ C_SIZE \in Nat
  BY <1>1, <1>3
<1> DEFINE pushed == {Advance(tail, c) : c \in 0..(in - 1)}
           popped == {Advance(head, c) : c \in 0..(out - 1)}
           channel(i) == IF i >= tail THEN i - tail ELSE i + C_SIZE - tail
<1>5. ASSUME NEW i \in Entries
      PROVE  /\ queue'[i] = IF i \in pushed THEN group[channel(i) + 1]
                            ELSE IF i \in popped THEN NoInst ELSE queue[i]
             /\ valid'[i] <=> \/ i \in pushed
                              \/ valid[i] /\ i \notin popped /\ queue[i].thread_idx \notin mis
  BY <1>2 DEF Edge
<1> HIDE DEF channel
<1>6. ASSUME NEW c \in 0..(C_SIZE - 1), c + out < C_SIZE
      PROVE  Advance(head, c)' = Advance(head, c + out)
  <2>1. Advance(head, c)' = Advance(head', c)
    BY DEF Advance
  <2> QED
    BY <1>0, <1>1, <1>6, <1>12, <2>1, AdvanceTwice DEF Pointers
<1>7. ASSUME NEW c \in 0..(C_SIZE - 1), c + out < data_num
      PROVE  /\ valid'[Advance(head, c)'] <=>
                     valid[Advance(head, c + out)] /\ Inside(c + out).thread_idx \notin mis
             /\ Inside(c)' = Inside(c + out)
  <2> DEFINE i == Advance(head, c + out)
  <2>0. c + out \in 0..(C_SIZE - 1)
    BY <1>7, <1>12
  <2>1. c + out \in 0..(C_SIZE - 1) /\ i \in Entries /\ Advance(head, c)' = i
    BY <1>0, <1>6, <1>12, <2>0, PlacesDiffer
  <2>2. i \notin popped
    <3> SUFFICES ASSUME NEW d \in 0..(out - 1), i = Advance(head, d) PROVE FALSE
      OBVIOUS
    <3>1. d \in 0..(C_SIZE - 1) /\ d # c + out
      BY <1>1, <1>3
    <3> QED
      BY <1>0, <2>1, <3>1, PlacesDiffer
  <2>3. i \notin pushed
    <3> SUFFICES ASSUME NEW d \in 0..(in - 1), i = Advance(tail, d) PROVE FALSE
      OBVIOUS
    <3>1. d \in Nat /\ d < in /\ d < C_SIZE
      BY <1>12
    <3>2. CASE d + data_num < C_SIZE
      <4>1. i = Advance(head, d + data_num) /\ d + data_num \in 0..(C_SIZE - 1)
        BY <1>0, <1>3, <3>1, <3>2, PlacesDiffer
      <4>2. d + data_num = c + out
        BY <1>0, <2>1, <4>1, PlacesDiffer
      <4> QED
        BY <1>1, <1>3, <1>7, <3>1, <4>2
    <3>3. CASE d + data_num >= C_SIZE
      <4>1. /\ i = Advance(head, (d + data_num) - C_SIZE)
            /\ (d + data_num) - C_SIZE \in 0..(C_SIZE - 1)
        BY <1>0, <1>3, <3>1, <3>3, PlacesDiffer
      <4>2. (d + data_num) - C_SIZE = c + out
        BY <1>0, <2>1, <4>1, PlacesDiffer
      <4> QED
        BY <1>1, <1>3, <1>7, <3>1, <4>2
    <3> QED
      BY <3>2, <3>3, <1>3, <3>1
  <2>4. Inside(c)' = queue'[i] /\ Inside(c + out) = queue[i]
    BY <2>1 DEF Inside
  <2> HIDE DEF i, popped, pushed
  <2>5. queue'[i] = queue[i] /\ (valid'[i] <=> valid[i] /\ queue[i].thread_idx \notin mis)
    BY <1>5, <2>1, <2>2, <2>3
  <2>6. /\ valid'[Advance(head, c)'] <=> valid[i] /\ Inside(c + out).thread_idx \notin mis
        /\ Inside(c)' = Inside(c + out)
    BY <2>1, <2>4, <2>5
  <2> QED
    BY <2>6 DEF i
<1>8. ASSUME NEW c \in 0..(C_SIZE - 1), c + out >= data_num, c + out < data_num + in
      PROVE  /\ valid'[Advance(head, c)']
             /\ Inside(c)' = group[((c + out) - data_num) + 1]
  <2> DEFINE j == (c + out) - data_num
             i == Advance(tail, j)
  <2>1. j \in 0..(in - 1) /\ j \in 0..(C_SIZE - 1) /\ j \in Nat
    BY <1>1, <1>3, <1>8
  <2>2. i \in Entries /\ i \in pushed
    BY <1>0, <2>1, PlacesDiffer
  <2>3. channel(i) = j
    BY <1>0, <1>3, <2>1, IBParameters DEF channel, Advance, Pointers
  <2>4. Advance(head, c)' = i
    <3>0. Advance(head, c)' = Advance(head', c)
      BY DEF Advance
    <3>1. CASE c + out < C_SIZE
      <4>1. Advance(head, c)' = Advance(head, c + out) /\ j + data_num = c + out
        BY <1>6, <1>12, <3>1
      <4>2. Advance(tail, j) = Advance(head, j + data_num)
        BY <1>0, <2>1, <3>1, <4>1, PlacesDiffer
      <4> HIDE DEF j
      <4> QED
        BY <4>1, <4>2
    <3>2. CASE c + out >= C_SIZE
      <4>1. Advance(head', c) = Advance(head, (c + out) - C_SIZE)
        BY <1>0, <1>1, <1>12, <3>2, AdvanceTwice DEF Pointers
      <4>2. j + data_num = c + out
        BY <1>12
      <4> HIDE DEF j
      <4>3. j \in Nat /\ j < C_SIZE /\ j + data_num >= C_SIZE
        BY <1>12, <2>1, <3>2, <4>2
      <4>4. Advance(tail, j) = Advance(head, (j + data_num) - C_SIZE)
        BY <1>0, <4>3, PlacesDiffer
      <4> QED
        BY <3>0, <4>1, <4>2, <4>4
    <3> QED
      BY <3>1, <3>2, <1>12
  <2>5. Inside(c)' = queue'[i]
    BY <2>4 DEF Inside
  <2> HIDE DEF i, pushed
  <2>6. valid'[i] /\ queue'[i] = group[channel(i) + 1]
    BY <1>5, <2>2
  <2> QED
    BY <2>3, <2>4, <2>5, <2>6
<1> QED
  BY <1>4, <1>7, <1>8

\* If the first places are all in the set, they come first.
LEMMA FirstAreFirst ==
  ASSUME NEW S \in SUBSET Nat, IsFiniteSet(S), NEW p \in Nat, 0..(p - 1) \subseteq S
  PROVE  /\ p <= Cardinality(S)
         /\ \A j \in 1..p : Nth(S, j) = j - 1
         /\ \A k \in 1..Cardinality(S) : k > p => Nth(S, k) >= p
<1>1. /\ Cardinality(S) \in Nat
      /\ \A k \in 1..Cardinality(S) : /\ Nth(S, k) \in S
                                      /\ Cardinality({d \in S : d < Nth(S, k)}) = k - 1
      /\ \A c \in S : \E k \in 1..Cardinality(S) : Nth(S, k) = c
      /\ \A j, k \in 1..Cardinality(S) : j < k => Nth(S, j) < Nth(S, k)
  BY NthOrders
<1>2. \A c \in Nat : IsFiniteSet(0..(c - 1)) /\ Cardinality(0..(c - 1)) = c
  <2> TAKE c \in Nat
  <2>1. ((c - 1) - 0) + 1 = c /\ (0 > c - 1 <=> c = 0)
    OBVIOUS
  <2> QED
    BY <2>1, FS_Interval, 0 \in Int, c - 1 \in Int
<1>3. p <= Cardinality(S)
  BY <1>2, FS_Subset
<1>4. ASSUME NEW j \in 1..p PROVE Nth(S, j) = j - 1
  <2> DEFINE c == j - 1
  <2>1. c \in Nat /\ c \in S /\ c < p /\ c + 1 = j
    OBVIOUS
  <2> HIDE DEF c
  <2>2. PICK k \in 1..Cardinality(S) : Nth(S, k) = c
    BY <1>1, <2>1
  <2>3. {d \in S : d < c} = 0..(c - 1)
    <3>1. ASSUME NEW d \in S, d < c PROVE d \in 0..(c - 1)
      <4>1. d \in Nat
        OBVIOUS
      <4> QED
        BY <2>1, <3>1, <4>1
    <3>2. ASSUME NEW d \in 0..(c - 1) PROVE d \in S /\ d < c
      <4>1. d \in 0..(p - 1)
        BY <2>1
      <4> QED
        BY <2>1, <4>1
    <3> QED
      BY <3>1, <3>2
  <2>4. k - 1 = c
    BY <1>1, <1>2, <2>1, <2>2, <2>3
  <2>5. k = j
    BY <1>1, <2>1, <2>4
  <2> QED
    BY <2>2, <2>5 DEF c
<1>5. ASSUME NEW k \in 1..Cardinality(S), k > p PROVE Nth(S, k) >= p
  <2>1. Nth(S, k) \in Nat
    BY <1>1
  <2>2. CASE p = 0
    BY <2>1, <2>2
  <2>3. CASE p # 0
    <3>1. p \in 1..Cardinality(S) /\ p \in 1..p /\ p < k
      BY <1>1, <1>3, <1>5, <2>3
    <3>2. Nth(S, p) = p - 1 /\ Nth(S, p) < Nth(S, k)
      BY <1>1, <1>4, <3>1
    <3> QED
      BY <2>1, <3>2
  <2> QED
    BY <2>2, <2>3
<1> QED
  BY <1>3, <1>4, <1>5

\* The queue and what becomes of it, for any array q of d places of which those in L
\* hold something: the first p of them leave, those of the threads in mis as
\* well, out places are given up, and a group comes behind.
Shifts(d, q, L, mis, p, out, in, e, g, r, K) ==
    /\ d \in Nat /\ p \in Nat /\ out \in Nat /\ in \in Nat /\ e \in Nat
    /\ p <= out /\ out <= d /\ e = (d - out) + in
    /\ L \subseteq 0..(d - 1) /\ K \subseteq 0..(e - 1) /\ 0..(p - 1) \subseteq L
    /\ \A c \in L : c >= p /\ q[c].thread_idx \notin mis => c >= out
    /\ \A c \in 0..(e - 1) :
          /\ c + out < d => /\ c \in K <=> c + out \in L /\ q[c + out].thread_idx \notin mis
                            /\ r[c] = q[c + out]
          /\ c + out >= d => c \in K /\ r[c] = g[((c + out) - d) + 1]

\* Sequence sub is what is left of w behind its first p, and J are its m places that
\* hold nothing of mis.
Leaves(w, n, p, mis, sub, J, m) ==
    /\ sub = [i \in 1..(n - p) |-> w[p + i]]
    /\ J = {i \in 1..(n - p) : sub[i].thread_idx \notin mis}
    /\ m = Cardinality(J)

LEMMA QueueMoves ==
  ASSUME NEW d, NEW q, NEW L, NEW mis, NEW p, NEW out, NEW in, NEW e, NEW g, NEW r, NEW K,
         Shifts(d, q, L, mis, p, out, in, e, g, r, K),
         NEW n, n = Cardinality(L), NEW sub, NEW J, NEW m,
         Leaves(Picked(q, L), n, p, mis, sub, J, m)
  PROVE  /\ n \in Nat /\ p <= n /\ m \in Nat /\ Cardinality(K) = m + in
         /\ \A j \in 1..p : Picked(q, L)[j] = q[j - 1]
         /\ \A k \in 1..m : Picked(r, K)[k] = Picked(sub, J)[k]
         /\ \A k \in 1..in : Picked(r, K)[m + k] = g[k]
<1> USE DEF Shifts, Leaves
<1>0. /\ d \in Nat /\ p \in Nat /\ out \in Nat /\ in \in Nat /\ e \in Nat
      /\ out <= d /\ e = (d - out) + in
  OBVIOUS
<1> DEFINE N(k) == Nth(L, k)
           M(k) == Nth(J, k)
<1>1. L \in SUBSET Nat /\ IsFiniteSet(L)
  <2>1. L \in SUBSET Nat
    OBVIOUS
  <2>2. IsFiniteSet(0..(d - 1))
    BY FS_Interval, 0 \in Int, d - 1 \in Int
  <2> QED
    BY <2>1, <2>2, FS_Subset
<1>2. /\ n \in Nat
      /\ \A k \in 1..n : N(k) \in L
      /\ \A c \in L : \E k \in 1..n : N(k) = c
      /\ \A j, k \in 1..n : j < k => N(j) < N(k)
  BY <1>1, NthOrders
<1>3. /\ p <= n /\ \A j \in 1..p : N(j) = j - 1
      /\ \A k \in 1..n : k > p => N(k) >= p
  BY <1>1, FirstAreFirst
<1>4. /\ DOMAIN Picked(q, L) = 1..n
      /\ \A k \in 1..n : Picked(q, L)[k] = q[N(k)]
  BY DEF Picked
<1>5. J \in SUBSET Nat /\ IsFiniteSet(J)
  <2>0. n - p \in Int
    BY <1>2
  <2>1. J \subseteq 1..(n - p) /\ J \in SUBSET Nat
    BY <2>0
  <2>2. IsFiniteSet(1..(n - p))
    BY <2>0, FS_Interval, 1 \in Int
  <2> QED
    BY <2>1, <2>2, FS_Subset
<1>6. /\ m \in Nat
      /\ \A k \in 1..m : M(k) \in J
      /\ \A i \in J : \E k \in 1..m : M(k) = i
      /\ \A j, k \in 1..m : j < k => M(j) < M(k)
  BY <1>5, NthOrders
<1> HIDE DEF N, M
<1>7. \A j \in 1..p : Picked(q, L)[j] = q[j - 1]
  BY <1>2, <1>3, <1>4
<1>8. ASSUME NEW i \in J
      PROVE  /\ i \in 1..(n - p) /\ p + i \in 1..n /\ sub[i] = q[N(p + i)]
             /\ N(p + i) \in L /\ N(p + i) >= out /\ N(p + i) < d /\ N(p + i) \in Nat
             /\ q[N(p + i)].thread_idx \notin mis
  <2>1. i \in 1..(n - p) /\ sub[i].thread_idx \notin mis
    OBVIOUS
  <2>2. p + i \in 1..n /\ p + i > p
    BY <1>2, <2>1
  <2>3. sub[i] = q[N(p + i)]
    BY <1>4, <2>1, <2>2
  <2>4. N(p + i) \in L /\ N(p + i) >= p
    BY <1>2, <1>3, <2>2
  <2>5. N(p + i) \in Nat /\ N(p + i) < d
    <3>1. N(p + i) \in 0..(d - 1)
      BY <2>4
    <3> QED
      BY <3>1
  <2> QED
    BY <2>1, <2>2, <2>3, <2>4, <2>5
<1> DEFINE f == [k \in 1..(m + in) |->
                   IF k <= m THEN N(p + M(k)) - out ELSE ((d - out) + (k - m)) - 1]
<1>9. ASSUME NEW k \in 1..m
      PROVE  LET c == N(p + M(k)) IN
             /\ c \in L /\ c \in Nat /\ out <= c /\ c < d /\ q[c].thread_idx \notin mis
             /\ p + M(k) \in 1..n /\ Picked(sub, J)[k] = q[c]
  <2>1. M(k) \in J
    BY <1>6
  <2>2. Picked(sub, J)[k] = sub[M(k)]
    BY DEF Picked, M
  <2> QED
    BY <1>8, <2>1, <2>2
<1>10. \A k \in 1..(m + in) : f[k] \in K
  <2> TAKE k \in 1..(m + in)
  <2>0. k \in Nat /\ m \in Nat /\ k <= m + in /\ k >= 1
    BY <1>6
  <2>1. CASE k <= m
    <3> DEFINE c == N(p + M(k))
    <3>1. k \in 1..m
      BY <1>6, <2>1
    <3>2. c \in L /\ c \in Nat /\ out <= c /\ c < d /\ q[c].thread_idx \notin mis
      BY <1>9, <3>1
    <3>3. f[k] = c - out
      BY <2>1
    <3> HIDE DEF c, f
    <3>4. c - out \in 0..(e - 1) /\ (c - out) + out = c
      BY <3>2
    <3> QED
      BY <3>2, <3>3, <3>4
  <2>2. CASE k > m
    <3> DEFINE c == ((d - out) + (k - m)) - 1
    <3>0. k \in Nat /\ m \in Nat /\ k <= m + in /\ k > m
      BY <2>0, <2>2
    <3>1. f[k] = c
      BY <3>0
    <3> HIDE DEF f, Shifts, Leaves
    <3>2. c \in 0..(e - 1) /\ c + out >= d
      BY <1>0, <3>0
    <3> USE DEF Shifts
    <3> HIDE DEF c
    <3> QED
      BY <3>1, <3>2
  <2> HIDE DEF f
  <2> QED
    BY <2>0, <2>1, <2>2
<1>11. \A c \in K : \E k \in 1..(m + in) : f[k] = c
  <2> TAKE c \in K
  <2>0. c \in 0..(e - 1) /\ c \in Nat
    OBVIOUS
  <2>1. CASE c + out < d
    <3>1. c + out \in L /\ q[c + out].thread_idx \notin mis
      BY <2>0, <2>1
    <3>2. PICK k \in 1..n : N(k) = c + out
      BY <1>2, <3>1
    <3>3. k > p
      <4> SUFFICES ASSUME k <= p PROVE FALSE
        BY <1>2
      <4>1. N(k) = k - 1
        BY <1>3
      <4> QED
        BY <2>0, <3>2, <4>1
    <3>4. k - p \in 1..(n - p) /\ p + (k - p) = k
      BY <1>2, <3>3
    <3>5. sub[k - p] = q[c + out]
      BY <1>4, <3>2, <3>4
    <3>6. k - p \in J
      BY <3>1, <3>4, <3>5
    <3>7. PICK l \in 1..m : M(l) = k - p
      BY <1>6, <3>6
    <3>8. l \in 1..(m + in) /\ l <= m
      BY <1>6
    <3>9. f[l] = N(p + M(l)) - out
      BY <3>8
    <3>10. f[l] = c
      BY <2>0, <3>2, <3>4, <3>7, <3>9
    <3> QED
      BY <3>8, <3>10
  <2>2. CASE c + out >= d
    <3> DEFINE k == (m + ((c + out) - d)) + 1
    <3>0. m \in Nat
      BY <1>6
    <3> HIDE DEF f
    <3>1. k \in 1..(m + in) /\ ~(k <= m) /\ ((d - out) + (k - m)) - 1 = c
      BY <2>0, <2>2, <3>0
    <3> HIDE DEF k
    <3>2. f[k] = c
      BY <3>1 DEF f
    <3> QED
      BY <3>1, <3>2
  <2> HIDE DEF f
  <2>3. c + out < d \/ c + out >= d
    BY <2>0
  <2> QED
    BY <2>1, <2>2, <2>3
<1>12. \A j, k \in 1..(m + in) : j < k => f[j] < f[k]
  <2> SUFFICES ASSUME NEW j \in 1..(m + in), NEW k \in 1..(m + in), j < k PROVE f[j] < f[k]
    OBVIOUS
  <2>0. /\ m \in Nat /\ j \in Nat /\ k \in Nat /\ 1 <= j /\ 1 <= k
        /\ j <= m + in /\ k <= m + in
    BY <1>6
  <2>1. CASE k <= m
    <3>1. j \in 1..m /\ k \in 1..m
      BY <1>6, <2>1
    <3>2. M(j) < M(k) /\ M(j) \in J /\ M(k) \in J
      BY <1>6, <3>1
    <3>3. /\ p + M(j) \in 1..n /\ p + M(k) \in 1..n /\ p + M(j) < p + M(k)
          /\ N(p + M(j)) \in Nat /\ N(p + M(k)) \in Nat
      BY <1>8, <3>2
    <3>4. N(p + M(j)) < N(p + M(k))
      BY <1>2, <3>3
    <3>5. f[j] = N(p + M(j)) - out /\ f[k] = N(p + M(k)) - out
      <4>1. j <= m /\ k <= m
        BY <2>0, <2>1
      <4> QED
        BY <4>1
    <3> DEFINE cj == N(p + M(j))
               ck == N(p + M(k))
    <3>6. cj \in Nat /\ ck \in Nat /\ cj < ck /\ f[j] = cj - out /\ f[k] = ck - out
      BY <3>3, <3>4, <3>5
    <3>7. out \in Nat
      BY <2>0, <1>6
    <3> HIDE DEF f, cj, ck
    <3> QED
      BY <3>6, <3>7
  <2>2. CASE j <= m /\ k > m
    <3> DEFINE c == N(p + M(j))
    <3>1. j \in 1..m /\ ~(k <= m)
      BY <2>0, <2>2
    <3>2. c \in Nat /\ c < d
      BY <1>9, <3>1
    <3>3. f[j] = c - out /\ f[k] = ((d - out) + (k - m)) - 1
      BY <2>2, <3>1
    <3>4. d \in Nat /\ out \in Nat /\ m \in Nat /\ k \in Nat /\ k > m
      BY <1>0, <2>0, <2>2
    <3> HIDE DEF c, f, Shifts, Leaves
    <3>5. f[j] < d - out /\ f[k] >= d - out
      BY <3>2, <3>3, <3>4
    <3> QED
      BY <3>2, <3>3, <3>4, <3>5
  <2>3. CASE j > m
    <3>0. ~(j <= m) /\ ~(k <= m)
      BY <2>0, <2>3
    <3>1. f[j] = ((d - out) + (j - m)) - 1 /\ f[k] = ((d - out) + (k - m)) - 1
      BY <3>0
    <3> HIDE DEF f
    <3> QED
      BY <2>0, <3>1
  <2> HIDE DEF f
  <2>4. k <= m \/ (j <= m /\ k > m) \/ j > m
    BY <2>0
  <2> QED
    BY <2>1, <2>2, <2>3, <2>4
<1>13. Cardinality(K) = m + in /\ \A k \in 1..(m + in) : Nth(K, k) = f[k]
  <2> DEFINE w == m + in
  <2>1. w \in Nat /\ K \in SUBSET Nat
    BY <1>6
  <2> HIDE DEF f
  <2>2. Lists(f, w, K)
    BY <1>10, <1>11, <1>12 DEF Lists
  <2> HIDE DEF w, Shifts, Leaves
  <2>3. Cardinality(K) = w /\ \A k \in 1..w : Nth(K, k) = f[k]
    BY <2>1, <2>2, ListIsNth
  <2> QED
    BY <2>3 DEF w
<1>14. ASSUME NEW k \in 1..m PROVE Picked(r, K)[k] = Picked(sub, J)[k]
  <2> DEFINE c == N(p + M(k))
  <2>1. k \in 1..(m + in) /\ k <= m
    BY <1>6
  <2>2. c \in Nat /\ out <= c /\ c < d /\ Picked(sub, J)[k] = q[c]
    BY <1>9
  <2>3. f[k] = c - out
    BY <2>1
  <2> HIDE DEF c, f
  <2>4. c - out \in 0..(e - 1) /\ (c - out) + out = c
    BY <2>2
  <2>5. r[c - out] = q[c]
    BY <2>2, <2>4
  <2>6. Picked(r, K)[k] = r[f[k]]
    BY <1>13, <2>1 DEF Picked
  <2> QED
    BY <2>2, <2>3, <2>5, <2>6
<1>15. ASSUME NEW k \in 1..in PROVE Picked(r, K)[m + k] = g[k]
  <2> DEFINE c == ((d - out) + k) - 1
  <2>0. k \in Nat /\ m \in Nat /\ 1 <= k /\ k <= in
    BY <1>6
  <2>1. m + k \in 1..(m + in) /\ ~(m + k <= m) /\ (m + k) - m = k
    BY <2>0
  <2>2. f[m + k] = c
    BY <2>1
  <2> HIDE DEF f
  <2>3. c \in 0..(e - 1) /\ c + out >= d /\ ((c + out) - d) + 1 = k
    BY <2>0
  <2> HIDE DEF c
  <2>4. r[c] = g[k]
    BY <2>3
  <2>5. Picked(r, K)[m + k] = r[f[m + k]]
    BY <1>13, <2>1 DEF Picked
  <2> QED
    BY <2>2, <2>4, <2>5
<1> QED
  BY <1>2, <1>3, <1>6, <1>7, <1>13, <1>14, <1>15

\* What the units take are the first places, all of them live; of the places that
\* are given up besides, none is live.
LEMMA PopsTheFirst ==
  ASSUME Pointers, NEW mis, NEW ready \in 0..C_OUT_NUM,
         NEW out, out = PopOutNum(mis, ready)
  PROVE  \E p \in 0..C_OUT_NUM :
            /\ p <= out /\ 0..(p - 1) \subseteq Places
            /\ \A c \in 0..(p - 1) : Inside(c).thread_idx \notin mis
            /\ \A c \in Places : c >= p /\ Inside(c).thread_idx \notin mis => c >= out
<1> DEFINE S == PopOut(mis, ready)
           p == Cardinality(S)
<1>1. /\ data_num \in Nat /\ C_OUT_NUM \in Nat
      /\ out \in Nat /\ out <= data_num /\ Leaving(mis, ready) = 0..(out - 1)
  BY CountsEntries, LeavesFromTheHead, IBParameters
<1>2. S \subseteq 0..(C_OUT_NUM - 1) /\ \A c \in S : 0..c \subseteq S
  BY <1>1 DEF PopOut, Offered
<1>3. \A c \in S : c \in Leaving(mis, ready)
  BY <1>2, <1>1 DEF Leaving, PopOut, Offered
<1>4. \A c \in S : c \in Places /\ Inside(c).thread_idx \notin mis
  BY <1>1 DEF PopOut, Offered, Live, Places, Inside
<1>5. ASSUME NEW c \in Places, Inside(c).thread_idx \notin mis, c \in Leaving(mis, ready)
      PROVE  c \in S
  BY <1>1, <1>5 DEF Leaving, Offered, Live, Places, Inside
<1> HIDE DEF S
<1>6. p \in 0..C_OUT_NUM /\ S = 0..(p - 1)
  BY <1>1, <1>2, ChannelsFromZero
<1> HIDE DEF p
<1>7. p <= out
  <2>1. CASE p = 0
    BY <1>1, <2>1
  <2>2. CASE p # 0
    <3>1. p - 1 \in S
      BY <1>1, <1>6, <2>2
    <3>2. p - 1 \in 0..(out - 1)
      BY <1>1, <1>3, <3>1
    <3> QED
      BY <1>1, <1>6, <3>2
  <2> QED
    BY <2>1, <2>2
<1>8. ASSUME NEW c \in Places, c >= p, Inside(c).thread_idx \notin mis PROVE c >= out
  <2>1. c \in Nat
    BY <1>1 DEF Places
  <2>2. c \notin S
    BY <1>1, <1>6, <1>8, <2>1
  <2>3. c \notin 0..(out - 1)
    BY <1>1, <1>5, <1>8, <2>2
  <2> QED
    BY <1>1, <2>1, <2>3
<1> QED
  BY <1>4, <1>6, <1>7, <1>8

\* The places from x to b of s hold members of S.
Holds(s, x, b, S) == \A i \in x..b : s[i] \in S

LEMMA PartOf ==
  ASSUME NEW S, NEW s, NEW x \in Int, NEW b \in Int, Holds(s, x, b, S)
  PROVE  /\ SubSeq(s, x, b) \in Seq(S)
         /\ Len(SubSeq(s, x, b)) = IF x <= b THEN b - x + 1 ELSE 0
         /\ \A i \in 1..(b - x + 1) : SubSeq(s, x, b)[i] = s[x + i - 1]
  BY SubSeqProperties DEF Holds

\* s is a sequence of length n.
OfLength(s, n) == s = [k \in 1..n |-> s[k]]

\* The length of a sequence, and a part of it.
LEMMA Slices ==
  ASSUME NEW n \in Nat, NEW s, OfLength(s, n)
  PROVE  /\ Len(s) = n
         /\ \A a, b \in 0..n : a <= b => SubSeq(s, a + 1, b) = [i \in 1..(b - a) |-> s[a + i]]
<1> DEFINE S == {s[k] : k \in 1..n}
<1>1. s \in [1..n -> S]
  BY DEF OfLength
<1>2. s \in Seq(S)
  BY <1>1, SeqDef
<1>3. Len(s) = n
  <2>1. Len(s) \in Nat /\ DOMAIN s = 1..Len(s) /\ DOMAIN s = 1..n
    BY <1>1, <1>2, LenProperties
  <2>2. \A a, b \in Nat : 1..a = 1..b => a <= b
    <3> TAKE a, b \in Nat
    <3> SUFFICES ASSUME 1..a = 1..b, a > b PROVE FALSE
      OBVIOUS
    <3>1. a \in 1..a /\ a \notin 1..b
      OBVIOUS
    <3> QED
      BY <3>1
  <2>3. Len(s) \in Nat /\ Len(s) <= n /\ n <= Len(s)
    BY <2>1, <2>2
  <2> QED
    BY <2>3
<1>4. ASSUME NEW a \in 0..n, NEW b \in 0..n, a <= b
      PROVE  SubSeq(s, a + 1, b) = [i \in 1..(b - a) |-> s[a + i]]
  <2>1. \A i \in (a + 1)..b : s[i] \in S
    OBVIOUS
  <2> HIDE DEF S
  <2>2. /\ a + 1 \in Int /\ b \in Int /\ a \in Int
        /\ (b - (a + 1)) + 1 = b - a
        /\ a + 1 <= b <=> b - a # 0
    BY <1>4
  <2> DEFINE u == SubSeq(s, a + 1, b)
  <2>3. /\ u \in Seq(S)
        /\ Len(u) = b - a
        /\ \A i \in 1..(b - a) : u[i] = s[a + i]
    <3>0. PICK x : x = a + 1
      OBVIOUS
    <3>1. x \in Int /\ b \in Int /\ \A i \in x..b : s[i] \in S
      BY <2>1, <2>2, <3>0
    <3>3. /\ SubSeq(s, x, b) \in Seq(S)
          /\ Len(SubSeq(s, x, b)) = IF x <= b THEN b - x + 1 ELSE 0
          /\ \A i \in 1..(b - x + 1) : SubSeq(s, x, b)[i] = s[x + i - 1]
      <4>1. Holds(s, x, b, S)
        BY <3>1 DEF Holds
      <4> QED
        BY <3>1, <4>1, PartOf
    <3>4. u = SubSeq(s, x, b)
      BY <3>0
    <3> HIDE DEF u
    <3>2. Len(u) = b - a
      BY <2>2, <3>0, <3>3, <3>4
    <3>5. ASSUME NEW i \in 1..(b - a) PROVE u[i] = s[a + i]
      <4>1. i \in 1..(b - x + 1) /\ x + i - 1 = a + i
        BY <2>2, <3>0
      <4>2. u[i] = s[x + i - 1]
        BY <3>3, <3>4, <4>1
      <4> QED
        BY <4>1, <4>2
    <3> QED
      BY <3>2, <3>3, <3>4, <3>5
  <2> HIDE DEF u
  <2>5. u = [i \in 1..Len(u) |-> u[i]]
    BY <2>3
  <2>6. u = [i \in 1..(b - a) |-> u[i]]
    BY <2>3, <2>5
  <2> QED
    BY <2>3, <2>6 DEF u
<1> QED
  BY <1>3, <1>4

\* The first b places of a sequence.
LEMMA Prefixes ==
  ASSUME NEW n \in Nat, NEW s, OfLength(s, n), NEW b \in 0..n
  PROVE  Len(s) = n /\ SubSeq(s, 1, b) = [i \in 1..b |-> s[i]]
<1>1. PICK z : z = 0
  OBVIOUS
<1>2. z \in 0..n /\ z <= b /\ z + 1 = 1 /\ b - z = b /\ \A i \in 1..b : z + i = i
  BY <1>1
<1>3. SubSeq(s, z + 1, b) = [i \in 1..(b - z) |-> s[z + i]] /\ Len(s) = n
  BY <1>2, Slices
<1>4. SubSeq(s, 1, b) = [i \in 1..b |-> s[z + i]]
  BY <1>2, <1>3
<1> QED
  BY <1>2, <1>3, <1>4

\* What the reservation station sends.
LEMMA GroupHas ==
  ASSUME NEW group \in Groups
  PROVE  Len(group) \in 0..C_IN_NUM /\ group \in [1..Len(group) -> Inst]
<1>1. PICK n \in 0..C_IN_NUM : group \in [1..n -> Inst]
  BY DEF Groups
<1>2. n \in Nat
  BY IBParameters
<1>3. OfLength(group, n)
  BY <1>1 DEF OfLength
<1>4. Len(group) = n
  BY <1>2, <1>3, Slices
<1> QED
  BY <1>1, <1>4

\* A queue that loses its first p, then those in mis, and gains a group, has moved
\* as the abstract queue may.
Gains(w, n, p, mis, sub, J, m, in, g, w1) ==
    /\ mis \subseteq Threads /\ p \in 0..C_OUT_NUM /\ n \in Nat /\ p <= n
    /\ OfLength(w, n) /\ \A j \in 1..p : w[j].thread_idx \notin mis
    /\ m \in Nat /\ in \in 0..C_IN_NUM /\ m + in <= C_SIZE
    /\ \A k \in 1..in : g[k] \in Inst /\ g[k].thread_idx \notin mis
    /\ OfLength(w1, m + in)
    /\ \A k \in 1..m : w1[k] = Picked(sub, J)[k]
    /\ \A k \in 1..in : w1[m + k] = g[k]

LEMMA MovesIf ==
  ASSUME NEW w, NEW n, NEW p, NEW mis, NEW sub, NEW J, NEW m, NEW in, NEW g, NEW w1,
         Gains(w, n, p, mis, sub, J, m, in, g, w1), Leaves(w, n, p, mis, sub, J, m)
  PROVE  Abstract!Moves(w, w1)
<1>1. /\ in \in 0..C_IN_NUM /\ in \in Nat /\ p \in 0..C_OUT_NUM /\ p \in Nat
      /\ n \in Nat /\ p <= n /\ m \in Nat /\ m + in \in Nat /\ m + in <= C_SIZE
  BY IBParameters DEF Gains
<1>2. /\ mis \in SUBSET Threads /\ \A j \in 1..p : w[j].thread_idx \notin mis
      /\ \A k \in 1..in : g[k] \in Inst /\ g[k].thread_idx \notin mis
      /\ \A k \in 1..in : w1[m + k] = g[k]
  BY DEF Gains
<1>3. Len(w) = n /\ SubSeq(w, p + 1, n) = sub
  <2>1. OfLength(w, n) /\ sub = [i \in 1..(n - p) |-> w[p + i]]
    BY DEF Gains, Leaves
  <2>2. p \in 0..n /\ n \in 0..n
    BY <1>1
  <2> QED
    BY <1>1, <2>1, <2>2, Slices
<1>4. Abstract!Unaffected(mis, sub) = Picked(sub, J)
  <2>1. DOMAIN sub = 1..(n - p)
    BY DEF Leaves
  <2>2. J = {i \in DOMAIN sub : sub[i].thread_idx \notin mis}
    BY <2>1 DEF Leaves
  <2>3. Abstract!Unaffected(mis, sub) = Abstract!Picked(sub, J)
    BY <2>2 DEF Abstract!Unaffected
  <2> QED
    BY <2>3, SamePicked
<1> DEFINE kept == Picked(sub, J)
<1>5. OfLength(kept, m)
  BY DEF Picked, OfLength, Leaves
<1>6. \A k \in 1..m : w1[k] = kept[k]
  BY DEF Gains
<1> HIDE DEF kept
<1>7. Len(kept) = m
  BY <1>1, <1>5, Slices
<1>8. Len(w1) = m + in /\ SubSeq(w1, 1, m) = [i \in 1..m |-> w1[i]]
  <2>1. PICK e : e = m + in
    OBVIOUS
  <2>2. OfLength(w1, e)
    BY <2>1 DEF Gains
  <2>3. e \in Nat /\ m \in 0..e
    BY <1>1, <2>1
  <2>4. Len(w1) = e /\ SubSeq(w1, 1, m) = [i \in 1..m |-> w1[i]]
    BY <2>2, <2>3, Prefixes
  <2> QED
    BY <2>1, <2>4
<1>9. SubSeq(w1, 1, m) = kept
  <2>1. kept = [k \in 1..m |-> kept[k]]
    BY <1>5 DEF OfLength
  <2> QED
    BY <1>6, <1>8, <2>1
<1>10. Abstract!Extends(kept, w1, mis)
  <2>1. Len(w1) - Len(kept) = in /\ Len(kept) = m /\ Len(w1) = m + in
    <3>1. (m + in) - m = in
      BY <1>1
    <3> QED
      BY <1>7, <1>8, <3>1
  <2>2. \A i \in (m + 1)..(m + in) : w1[i] \in Inst /\ w1[i].thread_idx \notin mis
    <3> TAKE i \in (m + 1)..(m + in)
    <3>1. i - m \in 1..in /\ m + (i - m) = i
      BY <1>1
    <3> QED
      BY <1>2, <3>1
  <2> QED
    BY <1>1, <1>9, <2>1, <2>2 DEF Abstract!Extends
<1>11. Abstract!Extends(Abstract!Unaffected(mis, SubSeq(w, p + 1, Len(w))), w1, mis)
  BY <1>3, <1>4, <1>10 DEF kept
<1> QED
  BY <1>1, <1>2, <1>3, <1>11 DEF Abstract!Moves

\* A set of places below e has at most e of them.
LEMMA CountBelow ==
  ASSUME NEW e \in Nat, NEW K \in SUBSET (0..(e - 1))
  PROVE  Cardinality(K) <= e
<1>1. (e - 1) \in Int /\ ((e - 1) - 0) + 1 = e /\ (0 > e - 1 <=> e = 0)
  OBVIOUS
<1>2. IsFiniteSet(0..(e - 1)) /\ Cardinality(0..(e - 1)) = e
  BY <1>1, FS_Interval, 0 \in Int
<1> QED
  BY <1>2, FS_Subset

\* The same of the array: what QueueMoves says of it is a clock.
LEMMA QueueClocks ==
  ASSUME NEW d, NEW q, NEW L, NEW mis, NEW p, NEW out, NEW in, NEW e, NEW g, NEW r, NEW K,
         Shifts(d, q, L, mis, p, out, in, e, g, r, K),
         mis \subseteq Threads, p \in 0..C_OUT_NUM, in \in 0..C_IN_NUM, e <= C_SIZE,
         \A c \in 0..(p - 1) : q[c].thread_idx \notin mis,
         \A k \in 1..in : g[k] \in Inst /\ g[k].thread_idx \notin mis
  PROVE  Abstract!Moves(Picked(q, L), Picked(r, K))
<1>1. in \in Nat /\ p \in Nat /\ C_SIZE \in Nat /\ e \in Nat /\ K \in SUBSET (0..(e - 1))
  BY IBParameters DEF Shifts
<1>2. PICK w : w = Picked(q, L)
  OBVIOUS
<1>3. PICK w1 : w1 = Picked(r, K)
  OBVIOUS
<1>4. PICK n : n = Cardinality(L)
  OBVIOUS
<1>5. PICK sub : sub = [i \in 1..(n - p) |-> w[p + i]]
  OBVIOUS
<1>6. PICK J : J = {i \in 1..(n - p) : sub[i].thread_idx \notin mis}
  OBVIOUS
<1>7. PICK m : m = Cardinality(J)
  OBVIOUS
<1>8. Leaves(w, n, p, mis, sub, J, m)
  BY <1>5, <1>6, <1>7 DEF Leaves
<1>9. /\ n \in Nat /\ p <= n /\ m \in Nat /\ Cardinality(K) = m + in
      /\ \A j \in 1..p : w[j] = q[j - 1]
      /\ \A k \in 1..m : w1[k] = Picked(sub, J)[k]
      /\ \A k \in 1..in : w1[m + k] = g[k]
  <2>1. Leaves(Picked(q, L), n, p, mis, sub, J, m)
    BY <1>2, <1>8
  <2> QED
    BY <1>2, <1>3, <1>4, <2>1, QueueMoves
<1>10. m + in <= C_SIZE
  <2>1. Cardinality(K) <= e
    BY <1>1, CountBelow
  <2> QED
    BY <1>1, <1>9, <2>1
<1>11. \A j \in 1..p : w[j].thread_idx \notin mis
  <2> TAKE j \in 1..p
  <2>1. j - 1 \in 0..(p - 1)
    BY <1>1
  <2> QED
    BY <1>9, <2>1
<1>12. OfLength(w, n) /\ OfLength(w1, m + in)
  BY <1>2, <1>3, <1>4, <1>9 DEF Picked, OfLength
<1>13. Gains(w, n, p, mis, sub, J, m, in, g, w1)
  BY <1>9, <1>10, <1>11, <1>12 DEF Gains
<1>14. Abstract!Moves(w, w1)
  BY <1>8, <1>13, MovesIf
<1> QED
  BY <1>2, <1>3, <1>14

\* How the places before and after an edge correspond.
LEMMA PlacesBefore ==
  ASSUME NEW d \in Nat, NEW out \in Nat, out <= d, NEW in \in Nat, NEW N \in Nat,
         NEW e, e = (d - out) + in, e <= N
  PROVE  /\ e \in Nat
         /\ \A c \in 0..(e - 1) :
               /\ c \in 0..(N - 1) /\ c + out < d + in
               /\ c + out < d => c + out \in 0..(d - 1)
               /\ c + out < d \/ c + out >= d
  OBVIOUS

\* An edge of the ring is a clock of the abstract queue.
LEMMA EdgeIsClock ==
  ASSUME RingInv, NEW mis \in SUBSET Threads, NEW ready \in 0..C_OUT_NUM,
         NEW group \in Groups, Edge(mis, ready, group)
  PROVE  Abstract!FIFOClock
<1> DEFINE W == Picked([c \in 0..(data_num - 1) |-> Inside(c)], Places)
<1>0. Pointers /\ RingInv' /\ Pointers'
  BY EdgeKeepsRing DEF RingInv
<1>1. PICK out : out = PopOutNum(mis, ready)
  OBVIOUS
<1>2. PICK in : in = Len(group)
  OBVIOUS
<1>3. /\ out \in Nat /\ out <= data_num /\ in \in Nat
      /\ in + data_num <= C_SIZE + out
  BY <1>0, <1>1, <1>2, EdgeMovesPointers
<1>4. in \in 0..C_IN_NUM /\ \A k \in 1..in : group[k] \in Inst /\ group[k].thread_idx \notin mis
  <2>1. in \in 0..C_IN_NUM /\ group \in [1..in -> Inst] /\ DOMAIN group = 1..in
    BY <1>2, GroupHas
  <2>2. \A c \in DOMAIN group : group[c].thread_idx \notin mis
    BY DEF Edge
  <2> QED
    BY <2>1, <2>2
<1>5. /\ data_num' = (data_num - out) + in
      /\ \A c \in 0..(C_SIZE - 1) : c + out < data_num =>
            /\ valid'[Advance(head, c)'] <=>
                  valid[Advance(head, c + out)] /\ Inside(c + out).thread_idx \notin mis
            /\ Inside(c)' = Inside(c + out)
      /\ \A c \in 0..(C_SIZE - 1) : c + out >= data_num /\ c + out < data_num + in =>
            /\ valid'[Advance(head, c)']
            /\ Inside(c)' = group[((c + out) - data_num) + 1]
  BY <1>1, <1>2, PlacesMove
<1>6. data_num \in 0..C_SIZE /\ data_num' \in 0..C_SIZE /\ C_SIZE \in Nat
  <2>1. data_num \in 0..C_SIZE
    BY <1>0, CountsEntries
  <2>2. data_num' \in 0..C_SIZE
    BY <1>3, <1>5, <2>1, IBParameters
  <2> QED
    BY <2>1, <2>2, IBParameters
<1>7. PICK d : d = data_num
  OBVIOUS
<1>8. PICK q : q = [c \in 0..(data_num - 1) |-> Inside(c)]
  OBVIOUS
<1>9. PICK r : r = [c \in 0..(data_num' - 1) |-> Inside(c)']
  OBVIOUS
<1>10. PICK L : L = Places
  OBVIOUS
<1>11. PICK K : K = Places'
  OBVIOUS
<1>12. PICK p \in 0..C_OUT_NUM :
          /\ p <= out /\ 0..(p - 1) \subseteq L
          /\ \A c \in 0..(p - 1) : Inside(c).thread_idx \notin mis
          /\ \A c \in L : c >= p /\ Inside(c).thread_idx \notin mis => c >= out
  BY <1>0, <1>1, <1>10, PopsTheFirst
<1>13. p \in Nat /\ d \in Nat /\ d <= C_SIZE
  BY <1>6, <1>7, IBParameters
<1>14. /\ L \in SUBSET (0..(d - 1)) /\ \A c \in 0..(d - 1) : q[c] = Inside(c)
       /\ \A c \in 0..(d - 1) : c \in L <=> valid[Advance(head, c)]
  BY <1>7, <1>8, <1>10 DEF Places
<1>15. PICK e : e = (d - out) + in
  OBVIOUS
<1>16. e = data_num' /\ e \in Nat /\ e <= C_SIZE
  BY <1>5, <1>6, <1>7, <1>15
<1>17. /\ K \in SUBSET (0..(e - 1)) /\ \A c \in 0..(e - 1) : r[c] = Inside(c)'
       /\ \A c \in 0..(e - 1) : c \in K <=> valid'[Advance(head, c)']
  BY <1>9, <1>11, <1>16 DEF Places
<1>18. \A c \in 0..(e - 1) :
         /\ c + out < d => /\ c \in K <=> c + out \in L /\ q[c + out].thread_idx \notin mis
                           /\ r[c] = q[c + out]
         /\ c + out >= d => c \in K /\ r[c] = group[((c + out) - d) + 1]
  <2> TAKE c \in 0..(e - 1)
  <2>1. /\ c \in 0..(C_SIZE - 1) /\ c + out < d + in
        /\ c + out < d => c + out \in 0..(d - 1)
        /\ c + out < d \/ c + out >= d
    BY <1>3, <1>6, <1>7, <1>13, <1>15, <1>16, PlacesBefore
  <2>2. CASE c + out < d
    <3>1. c + out \in 0..(d - 1)
      BY <2>1, <2>2
    <3>2. /\ c + out \in L <=> valid[Advance(head, c + out)]
          /\ q[c + out] = Inside(c + out)
      BY <1>14, <3>1
    <3>3. /\ valid'[Advance(head, c)'] <=>
                valid[Advance(head, c + out)] /\ Inside(c + out).thread_idx \notin mis
          /\ Inside(c)' = Inside(c + out)
      BY <1>5, <1>7, <2>1, <2>2
    <3> QED
      BY <1>17, <2>2, <3>2, <3>3, <1>3, <1>13, <2>1
  <2>3. CASE c + out >= d
    <3>1. valid'[Advance(head, c)'] /\ Inside(c)' = group[((c + out) - d) + 1]
      BY <1>5, <1>7, <2>1, <2>3
    <3> QED
      BY <1>17, <2>3, <3>1, <1>3, <1>13, <2>1
  <2> QED
    BY <2>2, <2>3, <1>3, <1>13, <2>1
<1>19. /\ \A c \in L : c >= p /\ q[c].thread_idx \notin mis => c >= out
       /\ \A c \in 0..(p - 1) : q[c].thread_idx \notin mis
  BY <1>12, <1>14
<1>20. \A k \in 1..in : group[k] \in Inst /\ group[k].thread_idx \notin mis
  BY <1>4
<1>21. Abstract!Moves(Picked(q, L), Picked(r, K))
  <2>1. out <= d /\ p <= out /\ 0..(p - 1) \subseteq L
    BY <1>3, <1>7, <1>12
  <2>2. Shifts(d, q, L, mis, p, out, in, e, group, r, K)
    BY <1>3, <1>13, <1>14, <1>15, <1>16, <1>17, <1>18, <1>19, <2>1 DEF Shifts
  <2> QED
    BY <1>4, <1>12, <1>16, <1>19, <1>20, <2>2, QueueClocks
<1>22. Picked(q, L) = W /\ Picked(r, K) = W'
  <2>1. Picked(r, K) = Picked([c \in 0..(data_num' - 1) |-> Inside(c)'], Places')
    BY <1>9, <1>11
  <2>2. W' = Picked([c \in 0..(data_num' - 1) |-> Inside(c)'], Places')
    OBVIOUS
  <2> QED
    BY <1>8, <1>10, <2>1, <2>2
<1>23. W = Picked([c \in 0..(data_num - 1) |-> queue[Advance(head, c)]], Places)
  BY DEF Inside
<1> QED
  BY <1>21, <1>22, <1>23 DEF Abstract!FIFOClock, Inside

\* The ring, its holes and its routers implement the queue: issue order is kept, a
\* flush takes exactly the instructions of its thread, nothing is skipped, repeated
\* or overwritten (IB_ALU_queue.sv, IB_ALU_pop_out_router.sv).
THEOREM RingIsFIFO == Spec => ImplementsFIFO
<1>1. Init => RingInv
  BY InitRingInv
<1>2. RingInv /\ [Next]_vars => RingInv'
  BY StepKeepsRing
<1>3. Init => Abstract!FIFOInit
  <2> SUFFICES ASSUME Init PROVE Abstract!FIFOInit
    OBVIOUS
  <2>1. data_num = 0
    <3>1. head_rollover = tail_rollover
      BY Zenon DEF Init
    <3>2. head = 0 /\ tail = 0
      BY DEF Init
    <3> QED
      BY <3>1, <3>2 DEF data_num
  <2>2. Places = {}
    BY <2>1 DEF Places
  <2>3. Cardinality({}) = 0
    BY FS_EmptySet
  <2>4. \A s : Picked(s, {}) = <<>>
    BY <2>3 DEF Picked
  <2> QED
    BY <2>2, <2>4 DEF Abstract!FIFOInit
<1>4. RingInv /\ [Next]_vars =>
        [Abstract!FIFOClock]_(Picked([c \in 0..(data_num - 1) |-> queue[Advance(head, c)]],
                                     Places))
  <2> SUFFICES ASSUME RingInv, [Next]_vars
               PROVE  [Abstract!FIFOClock]_(Picked(
                          [c \in 0..(data_num - 1) |-> queue[Advance(head, c)]], Places))
    OBVIOUS
  <2>1. CASE Next
    <3>1. PICK mis \in SUBSET Threads, ready \in 0..C_OUT_NUM, group \in Groups :
             Edge(mis, ready, group)
      BY <2>1 DEF Next
    <3>2. Abstract!FIFOClock
      BY <3>1, EdgeIsClock
    <3> QED
      BY <3>2
  <2>2. CASE UNCHANGED vars
    <3>1. /\ data_num' = data_num /\ Places' = Places
          /\ \A c : queue'[Advance(head, c)'] = queue[Advance(head, c)]
      BY <2>2 DEF vars, data_num, Places, Advance
    <3> QED
      BY <3>1
  <2> QED
    BY <2>1, <2>2
<1> QED
  BY <1>1, <1>2, <1>3, <1>4, PTL DEF Spec, ImplementsFIFO, Abstract!FIFOSpec

-----------------------------------------------------------------------------
\* The units and the data bus (FU.sv, BC.sv).

\* The inputs of the broadcaster that come before u and that it looks at.
MaskedBefore(u) == {v \in mask : v < u}

\* The rounds that are left, at most, after a unit has gone out first in one.
Rest == Rounds(BC_IN_NUM - C_CDB_NUM)

\* What keeps a result waiting. While the broadcaster looks at its unit, those
\* before it, which leave the mask C_CDB_NUM at a time; when the unit has left the mask
\* itself, all that are in it, and then a round in which the last unit is not before
\* it.
MayWait(u) ==
    IF u \in mask
    THEN Cardinality(MaskedBefore(u)) < (MaxWait - wait[u] + 1) * C_CDB_NUM
    ELSE /\ u < BC_IN_NUM - 1
         /\ Cardinality(mask) <= (Rest - wait[u]) * C_CDB_NUM

\* The inductive invariant.
BusInv ==
    /\ mask \subseteq Units /\ mask # {}
    /\ wait \in [Units -> Nat]
    /\ mask = Units \/ Cardinality(mask) <= BC_IN_NUM - C_CDB_NUM
    /\ \A u \in Units : MayWait(u)

LEMMA BusSizes ==
         /\ BC_IN_NUM \in Nat /\ C_CDB_NUM \in Nat /\ 1 <= C_CDB_NUM /\ C_CDB_NUM < BC_IN_NUM
         /\ IsFiniteSet(Units) /\ Cardinality(Units) = BC_IN_NUM
         /\ Units \subseteq Nat
<1>1. BC_IN_NUM \in Nat /\ C_CDB_NUM \in Nat /\ 1 <= C_CDB_NUM /\ C_CDB_NUM < BC_IN_NUM
  BY ExecuteParameters DEF ExecuteParameters
<1>2. IsFiniteSet(0..(BC_IN_NUM - 1)) /\ Cardinality(0..(BC_IN_NUM - 1)) = BC_IN_NUM
  <2>1. ((BC_IN_NUM - 1) - 0) + 1 = BC_IN_NUM /\ ~(0 > BC_IN_NUM - 1)
    BY <1>1
  <2> QED
    BY <1>1, <2>1, FS_Interval, 0 \in Int, BC_IN_NUM - 1 \in Int
<1> QED
  BY <1>1, <1>2 DEF Units

\* n results take Rounds(n) full cycles of the bus.
LEMMA RoundsFill ==
  ASSUME NEW n \in Nat
  PROVE  /\ Rounds(n) \in Nat
         /\ n <= Rounds(n) * C_CDB_NUM
         /\ Rounds(n) * C_CDB_NUM < n + C_CDB_NUM
<1>1. C_CDB_NUM \in Nat /\ 1 <= C_CDB_NUM
  BY BusSizes
<1> DEFINE a == (n + C_CDB_NUM) - 1
           q == a \div C_CDB_NUM
<1>2. a \in Nat
  BY <1>1
<1>3. q \in Nat /\ q * C_CDB_NUM <= a /\ a < q * C_CDB_NUM + C_CDB_NUM
  BY <1>1, <1>2
<1>4. Rounds(n) = q
  BY <1>1 DEF Rounds
<1> HIDE DEF q
<1>5. q * C_CDB_NUM \in Int
  BY <1>1, <1>3
<1> QED
  BY <1>1, <1>3, <1>4, <1>5

LEMMA Products ==
  ASSUME NEW c \in Nat, 1 <= c, NEW x \in Int, NEW y \in Int
  PROVE  /\ x * c \in Int /\ (x - 1) * c = (x * c) - c /\ (x + 1) * c = (x * c) + c
         /\ x <= y => x * c <= y * c
         /\ 0 < x * c => 1 <= x
<1>1. x * c \in Int /\ (x - 1) * c = (x * c) - c /\ (x + 1) * c = (x * c) + c
  OBVIOUS
<1>2. ASSUME x <= y PROVE x * c <= y * c
  BY <1>2
<1>3. ASSUME 0 < x * c PROVE 1 <= x
  BY <1>3
<1> QED
  BY <1>1, <1>2, <1>3

\* What is served comes before what is left queued, and fills the bus if anything is.
LEMMA ServesTheLowest ==
  ASSUME NEW S, S \subseteq Nat, IsFiniteSet(S),
         NEW u \in S \ Lowest(S)
  PROVE  /\ \A v \in Lowest(S) : v < u
         /\ IsFiniteSet(Lowest(S)) /\ Cardinality(Lowest(S)) >= C_CDB_NUM
<1> DEFINE L == Lowest(S)
           Under(v) == {w \in S : w < v}
<1>0. C_CDB_NUM \in Nat /\ 1 <= C_CDB_NUM
  BY BusSizes
<1>1. L \subseteq S /\ \A v \in S : v \in L <=> Cardinality(Under(v)) < C_CDB_NUM
  BY DEF Lowest
<1> HIDE DEF L
<1>2. \A v \in S : IsFiniteSet(Under(v)) /\ Cardinality(Under(v)) \in Nat
  BY FS_Subset, FS_CardinalityType, Zenon
<1>3. ASSUME NEW w \in S \ L PROVE \A v \in L : v < w
  <2> SUFFICES ASSUME NEW v \in L, w <= v PROVE FALSE
    BY <1>1
  <2>0. v \in Nat /\ w \in Nat /\ S \subseteq Nat
    BY <1>1, <1>3
  <2>1. Under(w) \subseteq Under(v)
    <3> SUFFICES ASSUME NEW x \in S, x < w PROVE x < v
      OBVIOUS
    <3>1. x \in Nat
      BY <2>0
    <3> QED
      BY <1>3, <2>0, <3>1
  <2>2. Cardinality(Under(w)) <= Cardinality(Under(v))
    BY <1>1, <1>2, <2>1, FS_Subset
  <2> QED
    BY <1>0, <1>1, <1>2, <2>2
<1>4. PICK w \in S \ L : \A v \in S \ L : w <= v
  <2> DEFINE T == S \ L
  <2>1. T \in SUBSET Nat /\ T # {}
    BY DEF L
  <2> HIDE DEF T
  <2>2. \E w \in T : \A v \in T : w <= v
    BY <2>1, LeastExists
  <2> QED
    BY <2>2 DEF T
<1>5. Under(w) = L
  <2>1. \A v \in L : v \in Under(w)
    BY <1>1, <1>3
  <2>2. \A v \in Under(w) : v \in L
    BY <1>4
  <2> QED
    BY <2>1, <2>2
<1>6. IsFiniteSet(L) /\ Cardinality(L) >= C_CDB_NUM
  BY <1>0, <1>1, <1>2, <1>5
<1> QED
  BY <1>3, <1>6 DEF L

\* The bounds in products, as they are needed below.
LEMMA Bounds ==
         /\ Rest \in Nat /\ 1 <= Rest /\ BC_IN_NUM - C_CDB_NUM <= Rest * C_CDB_NUM
         /\ MaxWait \in Nat /\ Rest <= MaxWait
         /\ \A x \in Int : 1 <= x => BC_IN_NUM - 1 <= (MaxWait - Rest + x) * C_CDB_NUM
         /\ BC_IN_NUM - 1 < (MaxWait + 1) * C_CDB_NUM
<1> DEFINE R == Rounds(BC_IN_NUM - 1)
           C == C_CDB_NUM
           N == BC_IN_NUM
<1>0. N \in Nat /\ C \in Nat /\ 1 <= C /\ C < N
  BY BusSizes
<1>1. R \in Nat /\ N - 1 <= R * C
  BY <1>0, RoundsFill, N - 1 \in Nat
<1>2. Rest \in Nat /\ N - C <= Rest * C
  BY <1>0, RoundsFill, N - C \in Nat DEF Rest
<1>3. MaxWait = (Rest + R) - 1
  BY <1>1, <1>2 DEF MaxWait, Rest
<1> HIDE DEF R, C, N
<1>4. R * C \in Int /\ Rest * C \in Int
  BY <1>0, <1>1, <1>2
<1>5. 1 <= Rest /\ 1 <= R
  <2>1. 0 < Rest * C /\ 0 < R * C
    BY <1>0, <1>1, <1>2, <1>4
  <2> QED
    BY <1>0, <1>1, <1>2, <2>1, Products
<1>6. ASSUME NEW x \in Int, 1 <= x PROVE N - 1 <= (MaxWait - Rest + x) * C
  <2>1. R <= MaxWait - Rest + x /\ MaxWait - Rest + x \in Int
    BY <1>1, <1>2, <1>3, <1>6
  <2>2. R * C <= (MaxWait - Rest + x) * C /\ (MaxWait - Rest + x) * C \in Int
    BY <1>0, <1>1, <2>1, Products
  <2> QED
    BY <1>0, <1>1, <1>4, <2>2
<1>7. N - 1 < (MaxWait + 1) * C
  <2>1. R + 1 <= MaxWait + 1 /\ MaxWait + 1 \in Int
    BY <1>1, <1>2, <1>3, <1>5
  <2>2. (R + 1) * C <= (MaxWait + 1) * C /\ (MaxWait + 1) * C \in Int
    BY <1>0, <1>1, <2>1, Products, R + 1 \in Int
  <2>3. (R + 1) * C = (R * C) + C
    BY <1>0, <1>1, Products
  <2> QED
    BY <1>0, <1>1, <1>4, <2>2, <2>3
<1>8. MaxWait \in Nat /\ Rest <= MaxWait
  BY <1>1, <1>2, <1>3, <1>5
<1> QED
  BY <1>2, <1>5, <1>6, <1>7, <1>8 DEF C, N

\* The number of inputs before one.
LEMMA FewBefore ==
  ASSUME NEW M \in SUBSET Units, NEW u \in Units,
         NEW W, W = {v \in M : v < u}
  PROVE  /\ IsFiniteSet(M) /\ Cardinality(M) \in Nat
         /\ IsFiniteSet(W) /\ Cardinality(W) \in Nat
         /\ Cardinality(W) <= u /\ u \in Nat /\ u <= BC_IN_NUM - 1
<1>1. /\ BC_IN_NUM \in Nat /\ IsFiniteSet(Units) /\ Units = 0..(BC_IN_NUM - 1)
      /\ u \in Nat /\ u <= BC_IN_NUM - 1
  BY BusSizes DEF Units
<1>2. IsFiniteSet(M) /\ Cardinality(M) \in Nat
  BY <1>1, FS_Subset, FS_CardinalityType
<1>3. IsFiniteSet(W) /\ Cardinality(W) \in Nat
  BY <1>2, FS_Subset, FS_CardinalityType
<1>4. W \subseteq 0..(u - 1)
  <2> SUFFICES ASSUME NEW v \in M, v < u PROVE v \in 0..(u - 1)
    OBVIOUS
  <2>1. v \in Units
    OBVIOUS
  <2> QED
    BY <1>1, <2>1
<1>5. IsFiniteSet(0..(u - 1)) /\ Cardinality(0..(u - 1)) = u
  <2>1. ((u - 1) - 0) + 1 = u /\ (0 > u - 1 <=> u = 0)
    BY <1>1
  <2> QED
    BY <1>1, <2>1, FS_Interval, 0 \in Int, u - 1 \in Int
<1>6. Cardinality(W) <= u
  BY <1>4, <1>5, FS_Subset
<1> QED
  BY <1>1, <1>2, <1>3, <1>6

\* The results of a cycle: some are served, the others wait.
Held(mis) == Requests(mis) \ broadcasted(mis)

\* The next mask: once nothing is queued everything is looked at again; as long as
\* something is, at least C_CDB_NUM inputs before it have left.
LEMMA MaskMoves ==
  ASSUME mask \subseteq Units, mask # {}, NEW mis
  PROVE  LET B == broadcasted(mis)
             Q == queued(mis)
         IN  /\ B \subseteq mask /\ Q \subseteq mask \ B /\ Held(mis) \cap mask = Q
             /\ Held(mis) \cap B = {}
             /\ NextMask(mis) = IF Q # {} THEN mask \ B ELSE Units
             /\ \A u \in Q : \A v \in B : v < u
             /\ Q # {} => IsFiniteSet(B) /\ Cardinality(B) >= C_CDB_NUM /\ Cardinality(B) \in Nat
<1> DEFINE S == Requests(mis) \cap mask
           B == broadcasted(mis)
           Q == queued(mis)
<1>1. B = Lowest(S) /\ Q = S \ Lowest(S)
  BY DEF broadcasted, queued
<1>2. Lowest(S) \subseteq S
  BY DEF Lowest
<1>3. S \subseteq Nat /\ IsFiniteSet(S)
  <2>1. S \subseteq Units
    OBVIOUS
  <2> QED
    BY <2>1, BusSizes, FS_Subset
<1>4. Held(mis) \cap mask = S \ B /\ S \subseteq mask
  BY DEF Held
<1>5. NextMask(mis) = IF Q # {} THEN mask \ B ELSE Units
  BY DEF NextMask
<1>6. Held(mis) \cap B = {}
  BY DEF Held
<1> HIDE DEF S, B, Q
<1>7. ASSUME NEW u \in Q
      PROVE  /\ \A v \in B : v < u
             /\ IsFiniteSet(B) /\ Cardinality(B) >= C_CDB_NUM
  BY <1>1, <1>3, <1>7, ServesTheLowest
<1>8. Q # {} => IsFiniteSet(B) /\ Cardinality(B) >= C_CDB_NUM /\ Cardinality(B) \in Nat
  BY <1>7, FS_CardinalityType
<1>9. B \subseteq mask /\ Q \subseteq mask \ B /\ Held(mis) \cap mask = Q
  BY <1>1, <1>2, <1>4
<1> QED
  BY <1>5, <1>6, <1>7, <1>8, <1>9 DEF B, Q

\* Taking b out of a set of n, and its product with the width of the bus.
LEMMA OneRoundLess ==
  ASSUME NEW S, NEW B \in SUBSET S, IsFiniteSet(S),
         IsFiniteSet(B), Cardinality(B) \in Nat, Cardinality(B) >= C_CDB_NUM
  PROVE  /\ IsFiniteSet(S \ B) /\ Cardinality(S \ B) \in Nat /\ Cardinality(S) \in Nat
         /\ Cardinality(S \ B) <= Cardinality(S) - C_CDB_NUM
         /\ \A x \in Int : Cardinality(S) < x * C_CDB_NUM
                              => Cardinality(S \ B) < (x - 1) * C_CDB_NUM
         /\ \A x \in Int : Cardinality(S) <= x * C_CDB_NUM
                              => Cardinality(S \ B) <= (x - 1) * C_CDB_NUM
<1>0. C_CDB_NUM \in Nat /\ 1 <= C_CDB_NUM
  BY BusSizes
<1>1. IsFiniteSet(S \ B) /\ Cardinality(S \ B) = Cardinality(S) - Cardinality(S \cap B)
  BY FS_Difference
<1>2. S \cap B = B
  OBVIOUS
<1>3. Cardinality(S) \in Nat /\ Cardinality(S \ B) \in Nat
  BY <1>1, FS_CardinalityType
<1>4. Cardinality(S \ B) <= Cardinality(S) - C_CDB_NUM
  BY <1>0, <1>1, <1>2, <1>3
<1>5. \A x \in Int : x * C_CDB_NUM \in Int /\ (x - 1) * C_CDB_NUM = (x * C_CDB_NUM) - C_CDB_NUM
  BY <1>0, Products
<1>6. ASSUME NEW x \in Int
      PROVE  /\ Cardinality(S) < x * C_CDB_NUM => Cardinality(S \ B) < (x - 1) * C_CDB_NUM
             /\ Cardinality(S) <= x * C_CDB_NUM => Cardinality(S \ B) <= (x - 1) * C_CDB_NUM
  <2> DEFINE p == x * C_CDB_NUM
             q == (x - 1) * C_CDB_NUM
  <2>1. p \in Int /\ q = p - C_CDB_NUM
    BY <1>5
  <2> HIDE DEF p, q
  <2>2. (Cardinality(S) < p => Cardinality(S \ B) < q) /\ (Cardinality(S) <= p => Cardinality(S \ B) <= q)
    BY <1>0, <1>3, <1>4, <2>1
  <2> QED
    BY <2>2 DEF p, q
<1> QED
  BY <1>1, <1>3, <1>4, <1>6

LEMMA EdgeKeepsBusInv ==
  ASSUME BusInv, NEW mis, NEW start, NEW th,
         BusEdge(mis, start, th)
  PROVE  BusInv'
<1> DEFINE B == broadcasted(mis)
           Q == queued(mis)
           H == Held(mis)
<1>0. /\ mask \subseteq Units /\ mask # {} /\ wait \in [Units -> Nat]
      /\ mask = Units \/ Cardinality(mask) <= BC_IN_NUM - C_CDB_NUM
      /\ \A u \in Units : MayWait(u)
  BY DEF BusInv
<1>1. /\ BC_IN_NUM \in Nat /\ C_CDB_NUM \in Nat /\ 1 <= C_CDB_NUM /\ C_CDB_NUM < BC_IN_NUM
      /\ IsFiniteSet(Units) /\ Cardinality(Units) = BC_IN_NUM
      /\ Units = 0..(BC_IN_NUM - 1)
  BY BusSizes DEF Units
<1>2. /\ B \subseteq mask /\ Q \subseteq mask \ B /\ H \cap mask = Q /\ H \cap B = {}
      /\ \A u \in Q : \A v \in B : v < u
      /\ Q # {} => IsFiniteSet(B) /\ Cardinality(B) >= C_CDB_NUM /\ Cardinality(B) \in Nat
  BY <1>0, MaskMoves
<1>3. /\ mask' = IF Q # {} THEN mask \ B ELSE Units
      /\ wait' = [u \in Units |-> IF u \in H THEN wait[u] + 1 ELSE 0]
  <2>1. mask' = NextMask(mis)
    BY DEF BusEdge
  <2>2. wait' = [u \in Units |-> IF u \in H THEN wait[u] + 1 ELSE 0]
    BY DEF BusEdge, Held
  <2> QED
    BY <1>0, <2>1, <2>2, MaskMoves
<1> HIDE DEF B, Q, H
<1>4. IsFiniteSet(mask) /\ Cardinality(mask) \in Nat /\ 1 <= Cardinality(mask)
  <2>1. IsFiniteSet(mask)
    BY <1>0, <1>1, FS_Subset
  <2> QED
    BY <2>1, <1>0, FS_CardinalityType, FS_EmptySet
<1>5. mask' \subseteq Units /\ mask' # {}
  BY <1>0, <1>1, <1>2, <1>3
<1>6. wait' \in [Units -> Nat]
  BY <1>0, <1>3
<1>7. Q # {} => Cardinality(mask') <= BC_IN_NUM - C_CDB_NUM /\ Cardinality(mask') \in Nat
  <2> HAVE Q # {}
  <2>1. mask' = mask \ B
    BY <1>3
  <2>2. Cardinality(mask \ B) <= Cardinality(mask) - C_CDB_NUM /\ Cardinality(mask \ B) \in Nat
    BY <1>2, <1>4, OneRoundLess
  <2>3. Cardinality(mask) <= BC_IN_NUM
    BY <1>0, <1>1, FS_Subset
  <2> QED
    BY <1>1, <1>4, <2>1, <2>2, <2>3
<1>8. ASSUME NEW u \in Units, NEW W, W = {v \in mask : v < u},
             NEW V, V = {v \in mask' : v < u}
      PROVE  IF u \in mask'
             THEN Cardinality(V) < (MaxWait - wait'[u] + 1) * C_CDB_NUM
             ELSE /\ u < BC_IN_NUM - 1
                  /\ Cardinality(mask') <= (Rest - wait'[u]) * C_CDB_NUM
  <2>0. /\ IsFiniteSet(W) /\ Cardinality(W) \in Nat /\ u \in Nat /\ u <= BC_IN_NUM - 1
        /\ wait[u] \in Nat /\ Cardinality(V) \in Nat /\ Cardinality(V) <= u
    BY <1>0, <1>5, <1>8, FewBefore
  <2>1. /\ u \in mask => Cardinality(W) < (MaxWait - wait[u] + 1) * C_CDB_NUM
        /\ u \notin mask => /\ u < BC_IN_NUM - 1
                            /\ Cardinality(mask) <= (Rest - wait[u]) * C_CDB_NUM
    BY <1>0, <1>8 DEF MayWait, MaskedBefore
  <2>2. /\ Rest \in Nat /\ 1 <= Rest /\ BC_IN_NUM - C_CDB_NUM <= Rest * C_CDB_NUM
        /\ MaxWait \in Nat
        /\ BC_IN_NUM - 1 < (MaxWait + 1) * C_CDB_NUM
    BY Bounds
  <2>3. CASE u \notin H
    <3>1. wait'[u] = 0
      BY <1>3, <2>3
    <3>2. /\ MaxWait - wait'[u] + 1 = MaxWait + 1
          /\ Rest - wait'[u] = Rest
      BY <2>2, <3>1
    <3>3. (MaxWait + 1) * C_CDB_NUM \in Int /\ Rest * C_CDB_NUM \in Int
      BY <1>1, <2>2
    <3>4. Cardinality(V) < (MaxWait + 1) * C_CDB_NUM
      BY <1>1, <2>0, <2>2, <3>3
    <3>5. ASSUME u \notin mask'
          PROVE  u < BC_IN_NUM - 1 /\ Cardinality(mask') <= Rest * C_CDB_NUM
      <4>1. Q # {}
        BY <1>3, <3>5
      <4>2. Cardinality(mask') <= Rest * C_CDB_NUM
        BY <1>1, <1>7, <2>2, <3>3, <4>1
      <4>3. CASE u \in mask
        <5>1. u \in B
          BY <1>3, <3>5, <4>1, <4>3
        <5>2. PICK w \in Q : u < w
          BY <1>2, <4>1, <5>1
        <5>3. w \in Nat /\ w <= BC_IN_NUM - 1
          BY <1>0, <1>1, <1>2
        <5> QED
          BY <1>1, <2>0, <4>2, <5>2, <5>3
      <4>4. CASE u \notin mask
        BY <2>1, <4>2, <4>4
      <4> QED
        BY <4>3, <4>4
    <3> QED
      BY <3>2, <3>4, <3>5
  <2>4. CASE u \in H
    <3>1. wait'[u] = wait[u] + 1
      BY <1>3, <2>4
    <3>2. /\ MaxWait - wait'[u] + 1 = (MaxWait - wait[u] + 1) - 1
          /\ Rest - wait'[u] = (Rest - wait[u]) - 1
          /\ MaxWait - wait[u] + 1 \in Int /\ Rest - wait[u] \in Int
      BY <2>0, <2>2, <3>1
    <3>3. CASE u \in mask
      <4>1. u \in Q /\ Q # {} /\ u \in mask'
        BY <1>2, <1>3, <2>4, <3>3
      <4>2. B \in SUBSET W
        BY <1>2, <1>8, <4>1
      <4>3. V = W \ B
        BY <1>3, <1>8, <4>1
      <4>4. Cardinality(V) < ((MaxWait - wait[u] + 1) - 1) * C_CDB_NUM
        BY <1>2, <2>0, <2>1, <3>2, <3>3, <4>1, <4>2, <4>3, OneRoundLess
      <4> QED
        BY <3>2, <4>1, <4>4
    <3>4. CASE u \notin mask /\ Q # {}
      <4>1. mask' = mask \ B /\ u \notin mask'
        BY <1>3, <3>4
      <4>2. Cardinality(mask \ B) <= ((Rest - wait[u]) - 1) * C_CDB_NUM
        BY <1>2, <1>4, <2>1, <3>2, <3>4, OneRoundLess
      <4> QED
        BY <2>1, <3>2, <3>4, <4>1, <4>2
    <3>5. CASE u \notin mask /\ Q = {}
      <4>1. u \in mask'
        BY <1>3, <3>5
      <4>2. 1 <= Rest - wait[u]
        <5>1. (Rest - wait[u]) * C_CDB_NUM \in Int
          BY <1>1, <3>2
        <5>2. 0 < (Rest - wait[u]) * C_CDB_NUM
          BY <1>4, <2>1, <3>5, <5>1
        <5> QED
          BY <1>1, <3>2, <5>2, Products
      <4>3. BC_IN_NUM - 1 <= (MaxWait - Rest + (Rest - wait[u])) * C_CDB_NUM
        BY <3>2, <4>2, Bounds
      <4>4. MaxWait - Rest + (Rest - wait[u]) = (MaxWait - wait[u] + 1) - 1
        BY <2>0, <2>2
      <4>5. ((MaxWait - wait[u] + 1) - 1) * C_CDB_NUM \in Int
        BY <1>1, <3>2
      <4>6. Cardinality(V) < ((MaxWait - wait[u] + 1) - 1) * C_CDB_NUM
        BY <1>1, <2>0, <2>1, <3>5, <4>3, <4>4, <4>5
      <4> QED
        BY <3>2, <4>1, <4>6
    <3> QED
      BY <3>3, <3>4, <3>5
  <2> QED
    BY <2>3, <2>4
<1>9. \A u \in Units : MayWait(u)'
  BY <1>8 DEF MayWait, MaskedBefore
<1> QED
  BY <1>3, <1>5, <1>6, <1>7, <1>9 DEF BusInv

\* No result waits for longer than MaxWait edges, whatever the other units do and
\* whatever is squashed: the mask keeps the fixed priority of the encoders from
\* starving a unit (BC.sv l.64-84).
THEOREM NoUnitStarves ==
  BusSpec => []WaitIsBounded
<1>1. BusInit => BusInv
  <2> SUFFICES ASSUME BusInit PROVE BusInv
    OBVIOUS
  <2>1. /\ mask = Units /\ wait = [u \in Units |-> 0]
        /\ 0 \in Units
    BY BusSizes DEF BusInit, Units
  <2>2. ASSUME NEW u \in Units PROVE MayWait(u)
    <3>1. Cardinality(MaskedBefore(u)) \in Nat /\ Cardinality(MaskedBefore(u)) <= BC_IN_NUM - 1
      BY <2>1, FewBefore, BusSizes DEF MaskedBefore
    <3>2. MaxWait - wait[u] + 1 = MaxWait + 1 /\ (MaxWait + 1) * C_CDB_NUM \in Int
      BY <2>1, Bounds, BusSizes
    <3>3. Cardinality(MaskedBefore(u)) < (MaxWait + 1) * C_CDB_NUM
      BY <3>1, <3>2, Bounds, BusSizes
    <3> QED
      BY <2>1, <3>2, <3>3 DEF MayWait
  <2> QED
    BY <2>1, <2>2 DEF BusInv
<1>2. BusInv /\ [BusNext]_busVars => BusInv'
  <2> SUFFICES ASSUME BusInv, [BusNext]_busVars PROVE BusInv'
    OBVIOUS
  <2>1. CASE BusNext
    BY <2>1, EdgeKeepsBusInv DEF BusNext
  <2>2. CASE UNCHANGED busVars
    BY <2>2 DEF busVars, BusInv, MayWait, MaskedBefore
  <2> QED
    BY <2>1, <2>2
<1>3. BusInv => WaitIsBounded
  <2> SUFFICES ASSUME BusInv, NEW u \in Units PROVE wait[u] <= MaxWait
    BY DEF WaitIsBounded
  <2>1. /\ mask \subseteq Units /\ mask # {} /\ wait[u] \in Nat /\ MayWait(u)
        /\ C_CDB_NUM \in Nat /\ 1 <= C_CDB_NUM
    BY BusSizes DEF BusInv
  <2>2. /\ IsFiniteSet(mask) /\ Cardinality(mask) \in Nat /\ Cardinality(MaskedBefore(u)) \in Nat
    BY <2>1, FewBefore DEF MaskedBefore
  <2>3. Rest \in Nat /\ MaxWait \in Nat /\ Rest <= MaxWait
    BY Bounds
  <2>4. CASE u \in mask
    <3>1. /\ MaxWait - wait[u] + 1 \in Int
          /\ (MaxWait - wait[u] + 1) * C_CDB_NUM \in Int
      BY <2>1, <2>3
    <3>2. 0 < (MaxWait - wait[u] + 1) * C_CDB_NUM
      BY <2>1, <2>2, <2>4, <3>1 DEF MayWait
    <3>3. 1 <= MaxWait - wait[u] + 1
      BY <2>1, <3>1, <3>2, Products
    <3> QED
      BY <2>1, <2>3, <3>3
  <2>5. CASE u \notin mask
    <3>1. Rest - wait[u] \in Int /\ (Rest - wait[u]) * C_CDB_NUM \in Int
      BY <2>1, <2>3
    <3>2. 1 <= Cardinality(mask)
      BY <2>1, <2>2, FS_EmptySet
    <3>3. 0 < (Rest - wait[u]) * C_CDB_NUM
      BY <2>1, <2>2, <2>5, <3>1, <3>2 DEF MayWait
    <3>4. 1 <= Rest - wait[u]
      BY <2>1, <3>1, <3>3, Products
    <3> QED
      BY <2>1, <2>3, <3>4
  <2> QED
    BY <2>4, <2>5
<1> QED
  BY <1>1, <1>2, <1>3, PTL DEF BusSpec

===============================================================================
