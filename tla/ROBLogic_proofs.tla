-------------------------- MODULE ROBLogic_proofs --------------------------
(***************************************************************************)
(* What one clock edge does to a ring of any size, whoever drives it.      *)
(***************************************************************************)
EXTENDS ROBLogic, FiniteSetTheorems, TLAPS

USE DEF Entries

-----------------------------------------------------------------------------
\* Sets of numbers.

\* Every set of natural numbers has a least element.
LEMMA LeastExists ==
  ASSUME NEW S \in SUBSET Nat, S # {}
  PROVE  \E x \in S : \A y \in S : x <= y
<1> DEFINE R == OpToRel(<, Nat)
<1>1. IsWellFoundedOn(R, Nat)
  BY NatLessThanWellFounded
<1>2. \A x, y \in Nat : <<y, x>> \in R <=> y < x
  BY DEF OpToRel
<1> HIDE DEF R
<1>3. PICK x \in S : \A y \in S : ~(<<y, x>> \in R)
  BY <1>1, WFMin
<1>4. ASSUME NEW y \in S PROVE x <= y
  <2>1. x \in Nat /\ y \in Nat /\ ~(y < x)
    BY <1>2, <1>3
  <2> QED
    BY <2>1
<1> QED
  BY <1>4

\* The ranks of the elements of a finite set of numbers are the numbers below
\* its cardinality, and each is the rank of one element.
LEMMA RanksCover ==
  ASSUME NEW V \in SUBSET Nat, IsFiniteSet(V)
  PROVE  /\ \A f \in V : Cardinality({e \in V : e < f}) \in 0..(Cardinality(V) - 1)
         /\ \A f, e \in V : Cardinality({d \in V : d < f})
                              = Cardinality({d \in V : d < e}) => f = e
         /\ \A k \in 0..(Cardinality(V) - 1) :
               \E f \in V : Cardinality({e \in V : e < f}) = k
<1> DEFINE below(f) == {e \in V : e < f}
           rank == [f \in V |-> Cardinality(below(f))]
           T == 0..(Cardinality(V) - 1)
<1>1. Cardinality(V) \in Nat
  BY FS_CardinalityType
<1>2. ASSUME NEW f \in V
      PROVE  /\ IsFiniteSet(below(f)) /\ Cardinality(below(f)) \in Nat
             /\ Cardinality(below(f)) < Cardinality(V)
  <2>1. below(f) \in SUBSET V /\ below(f) # V
    OBVIOUS
  <2> HIDE DEF below
  <2>2. IsFiniteSet(below(f)) /\ Cardinality(below(f)) <= Cardinality(V)
        /\ Cardinality(below(f)) # Cardinality(V)
    BY <2>1, FS_Subset
  <2>3. Cardinality(below(f)) \in Nat
    BY <2>2, FS_CardinalityType
  <2> QED
    BY <1>1, <2>2, <2>3
<1>3. ASSUME NEW f \in V, NEW e \in V, f < e
      PROVE  Cardinality(below(f)) # Cardinality(below(e))
  <2>1. f \in below(e) /\ f \notin below(f)
    BY <1>3
  <2>2. \A d \in below(f) : d \in below(e)
    BY <1>3
  <2>3. below(f) \in SUBSET below(e) /\ below(f) # below(e)
    BY <2>1, <2>2
  <2> HIDE DEF below
  <2> QED
    BY <1>2, <2>3, FS_Subset
<1>4. \A f, e \in V : Cardinality(below(f)) = Cardinality(below(e)) => f = e
  <2> HIDE DEF below
  <2>1. \A f, e \in V : f < e \/ e < f \/ f = e
    OBVIOUS
  <2> QED
    BY <1>3, <2>1
<1>5. rank \in Injection(V, T)
  <2> HIDE DEF below
  <2>1. \A f \in V : Cardinality(below(f)) \in T
    BY <1>1, <1>2
  <2> QED
    BY <1>4, <2>1 DEF Injection, IsInjective
<1>6. IsFiniteSet(T) /\ Cardinality(T) = Cardinality(V)
  <2>1. 0 \in Int /\ Cardinality(V) - 1 \in Int
    BY <1>1
  <2>2. /\ IsFiniteSet(T)
        /\ Cardinality(T) = IF 0 > Cardinality(V) - 1 THEN 0 ELSE Cardinality(V) - 1 - 0 + 1
    BY <2>1, FS_Interval
  <2> QED
    BY <1>1, <2>2
<1> HIDE DEF T, rank
<1>7. rank \in Surjection(V, T)
  BY <1>5, <1>6, FS_Injection
<1>8. \A k \in T : \E f \in V : rank[f] = k
  BY <1>7 DEF Surjection
<1> QED
  BY <1>1, <1>2, <1>4, <1>8 DEF rank, T

-----------------------------------------------------------------------------
\* What one cycle retires is an interval that starts at the head, has RtNum
\* entries, at most RT_NUM of them, and stays inside the array (ROB.sv l.244-266).
LEMMA RetiresAnInterval ==
    ASSUME NEW r, r.head \in Entries
    PROVE  /\ RtNum(r) \in 0..RT_NUM
           /\ r.head + RtNum(r) <= ROB_ENTRY_NUM
           /\ RtSel(r) = r.head .. (r.head + RtNum(r) - 1)
<1> DEFINE S == RtSel(r)
           h == r.head
<1> USE ROBParameters
<1>1. /\ S \subseteq h .. (h + RT_NUM - 1)
      /\ S \subseteq h .. (ROB_ENTRY_NUM - 1)
      /\ \A i \in S : h..i \subseteq S
  BY DEF RtSel
<1>0. h \in Int /\ h + RT_NUM - 1 \in Int /\ ROB_ENTRY_NUM - 1 \in Int
  OBVIOUS
<1>2. /\ IsFiniteSet(h .. (h + RT_NUM - 1))
      /\ Cardinality(h .. (h + RT_NUM - 1)) = RT_NUM
  <2> DEFINE top == h + RT_NUM - 1
  <2>1. top \in Int /\ h <= top /\ (top - h) + 1 = RT_NUM
    BY <1>0
  <2> HIDE DEF top
  <2>2. /\ IsFiniteSet(h .. top)
        /\ Cardinality(h .. top) = IF h > top THEN 0 ELSE (top - h) + 1
    BY <1>0, <2>1, FS_Interval
  <2>3. IsFiniteSet(h .. top) /\ Cardinality(h .. top) = RT_NUM
    BY <2>1, <2>2, <1>0
  <2> QED
    BY <2>3 DEF top
<1>b. /\ IsFiniteSet(h .. (ROB_ENTRY_NUM - 1))
      /\ Cardinality(h .. (ROB_ENTRY_NUM - 1)) = ROB_ENTRY_NUM - h
  <2> DEFINE top == ROB_ENTRY_NUM - 1
  <2>1. top \in Int /\ h <= top /\ (top - h) + 1 = ROB_ENTRY_NUM - h
    BY <1>0
  <2> HIDE DEF top
  <2>2. /\ IsFiniteSet(h .. top)
        /\ Cardinality(h .. top) = IF h > top THEN 0 ELSE (top - h) + 1
    BY <1>0, <2>1, FS_Interval
  <2>3. IsFiniteSet(h .. top) /\ Cardinality(h .. top) = ROB_ENTRY_NUM - h
    BY <2>1, <2>2, <1>0
  <2> QED
    BY <2>3 DEF top
<1> HIDE DEF S
<1>3. /\ IsFiniteSet(S)
      /\ Cardinality(S) <= RT_NUM
      /\ Cardinality(S) <= ROB_ENTRY_NUM - h
  <2>1. IsFiniteSet(S) /\ Cardinality(S) <= Cardinality(h .. (h + RT_NUM - 1))
    BY <1>1, <1>2, FS_Subset, Zenon
  <2>2. Cardinality(S) <= Cardinality(h .. (ROB_ENTRY_NUM - 1))
    BY <1>1, <1>b, FS_Subset, Zenon
  <2> QED
    BY <2>1, <2>2, <1>2, <1>b
<1>4. Cardinality(S) \in Nat
  BY <1>3, FS_CardinalityType
<1>5. ASSUME NEW i \in S
      PROVE  i <= h + Cardinality(S) - 1
  <2>1. i \in Int /\ i >= h
    BY <1>1
  <2>2. Cardinality(h..i) = i - h + 1
    BY <2>1, FS_Interval
  <2>3. Cardinality(h..i) <= Cardinality(S)
    BY <1>1, <1>3, FS_Subset
  <2> QED
    BY <2>1, <2>2, <2>3, <1>4
<1>6. S \subseteq h .. (h + Cardinality(S) - 1)
  BY <1>1, <1>4, <1>5
<1>7. /\ IsFiniteSet(h .. (h + Cardinality(S) - 1))
      /\ Cardinality(h .. (h + Cardinality(S) - 1)) = Cardinality(S)
  <2> DEFINE e == h + Cardinality(S) - 1
  <2>1. e \in Int
    BY <1>4
  <2>2. /\ IsFiniteSet(h..e)
        /\ Cardinality(h..e) = IF h > e THEN 0 ELSE e - h + 1
    BY <1>0, <2>1, FS_Interval
  <2>3. (IF h > e THEN 0 ELSE e - h + 1) = Cardinality(S)
    BY <1>4
  <2> QED
    BY <2>2, <2>3
<1>8. S = h .. (h + Cardinality(S) - 1)
  BY <1>6, <1>7, FS_Subset
<1> QED
  BY <1>3, <1>4, <1>8 DEF RtNum, S

\* The pointers, as reset leaves them and as every edge must.
Pointers(r) ==
    /\ r.head \in Entries /\ r.tail \in Entries
    /\ r.head_rollover \in BOOLEAN /\ r.tail_rollover \in BOOLEAN

\* A ring whose valid entries are those between its pointers never retires more
\* than it holds, and never leaves more room than there is: what the dispatcher
\* is offered fits (ROB.sv l.159-171).
LEMMA RetiresWhatItHolds ==
    ASSUME NEW r, Pointers(r), Ordered(r), FillsWindow(r)
    PROVE  /\ RtSel(r) \subseteq Window(r)
           /\ RtNum(r) <= Occupied(r)
           /\ Occupied(r) \in 0..ROB_ENTRY_NUM
           /\ AvailNum(r) = ROB_ENTRY_NUM - Occupied(r) + RtNum(r)
<1> USE ROBParameters
<1>1. /\ RtNum(r) \in 0..RT_NUM
      /\ r.head + RtNum(r) <= ROB_ENTRY_NUM
      /\ RtSel(r) = r.head .. (r.head + RtNum(r) - 1)
  BY RetiresAnInterval DEF Pointers
<1>2. RtSel(r) \subseteq Window(r)
  BY DEF RtSel, FillsWindow, Pointers
<1>3. Occupied(r) \in 0..ROB_ENTRY_NUM
  BY DEF Occupied, Ordered, Pointers
<1>4. RtNum(r) <= Occupied(r)
  <2>1. CASE RtNum(r) = 0
    BY <2>1, <1>3
  <2>2. CASE RtNum(r) > 0
    <3>1. r.head + RtNum(r) - 1 \in Window(r)
      BY <1>1, <1>2, <2>2 DEF Pointers
    <3> QED
      BY <3>1, <1>1 DEF Window, Occupied, Ordered, Pointers
  <2> QED
    BY <1>1, <2>1, <2>2
<1>5. AvailNum(r) = ROB_ENTRY_NUM - Occupied(r) + RtNum(r)
  BY <1>1 DEF AvailNum, Occupied, Pointers
<1> QED
  BY <1>2, <1>3, <1>4, <1>5

\* The two cases of a pointer that moves.
LEMMA AdvanceIs ==
  ASSUME NEW h \in Entries, NEW a \in Nat
  PROVE  /\ h + a >= ROB_ENTRY_NUM => Advance(h, a) = (h + a) - ROB_ENTRY_NUM
         /\ h + a < ROB_ENTRY_NUM => Advance(h, a) = h + a
BY ROBParameters DEF Advance

\* Without a flush, an edge takes the retired entries out of the window and puts
\* the dispatched ones in, whichever pointers wrap (ROB.sv l.115-156, l.176-194).
LEMMA WindowMoves ==
    ASSUME NEW r, Pointers(r), Ordered(r), FillsWindow(r),
           NEW n \in Nat, n <= DP_NUM, n <= AvailNum(r),
           NEW q, Pointers(q),
           q.head = Advance(r.head, RtNum(r)),
           q.tail = Advance(r.tail, n),
           q.head_rollover = (IF Wraps(r.head, RtNum(r))
                              THEN ~r.head_rollover ELSE r.head_rollover),
           q.tail_rollover = (IF Wraps(r.tail, n)
                              THEN ~r.tail_rollover ELSE r.tail_rollover)
    PROVE  /\ Ordered(q)
           /\ Window(q) = (Window(r) \ RtSel(r)) \cup DpSel(r, n)
<1> DEFINE k == RtNum(r)
           h == r.head
           t == r.tail
           same == r.head_rollover = r.tail_rollover
           sameq == q.head_rollover = q.tail_rollover
<1>1. /\ k \in 0..RT_NUM
      /\ h + k <= ROB_ENTRY_NUM
      /\ RtSel(r) = h .. (h + k - 1)
  BY RetiresAnInterval DEF Pointers
<1>2. /\ k <= Occupied(r)
      /\ n <= ROB_ENTRY_NUM - Occupied(r) + k
  BY RetiresWhatItHolds
<1>3. /\ ROB_ENTRY_NUM \in Nat \ {0} /\ DP_NUM \in 1..ROB_ENTRY_NUM
      /\ h \in Entries /\ t \in Entries /\ k \in Nat
  BY <1>1, ROBParameters DEF Pointers
<1>4. CASE same
  <2>1. h <= t /\ Occupied(r) = t - h
    BY <1>4 DEF Ordered, Occupied
  <2>2. Window(r) = {i \in Entries : h <= i /\ i < t}
    BY <1>4 DEF Window
  <2>3. CASE Wraps(h, k)
    <3>1. h + k = ROB_ENTRY_NUM
      BY <2>3, <1>1, <1>3 DEF Wraps
    <3> QED
      BY <3>1, <2>1, <1>2, <1>3
  <2>4. CASE ~Wraps(h, k) /\ Wraps(t, n)
    <3>1. ~sameq
      BY <1>4, <2>4 DEF Pointers
    <3>2. q.head = h + k /\ q.tail = t + n - ROB_ENTRY_NUM
      BY <2>4 DEF Advance, Wraps
    <3>3. Window(q) = {i \in Entries : h + k <= i \/ i < t + n - ROB_ENTRY_NUM}
      BY <3>1, <3>2 DEF Window
    <3>4. DpSel(r, n) = {i \in Entries : i >= t \/ i < t + n - ROB_ENTRY_NUM}
      BY <2>4 DEF DpSel
    <3>5. Ordered(q)
      BY <3>1, <3>2, <2>1, <1>2, <1>3 DEF Ordered
    <3>6. h + k <= t
      BY <2>1, <1>2, <1>3
    <3>7. Window(r) \ RtSel(r) = {i \in Entries : h + k <= i /\ i < t}
      BY <2>2, <1>1, <1>3
    <3> QED
      BY <3>3, <3>4, <3>5, <3>6, <3>7, <1>3
  <2>5. CASE ~Wraps(h, k) /\ ~Wraps(t, n)
    <3>1. sameq
      BY <1>4, <2>5
    <3>2. q.head = h + k /\ q.tail = t + n
      BY <2>5 DEF Advance, Wraps
    <3>3. Window(q) = {i \in Entries : h + k <= i /\ i < t + n}
      BY <3>1, <3>2 DEF Window
    <3>4. DpSel(r, n) = {i \in Entries : i >= t /\ i < t + n}
      BY <2>5 DEF DpSel
    <3>5. Ordered(q)
      BY <3>1, <3>2, <2>1, <1>2, <1>3 DEF Ordered
    <3>6. Window(r) \ RtSel(r) = {i \in Entries : h + k <= i /\ i < t}
      BY <2>2, <1>1, <1>3
    <3>7. h + k <= t
      BY <2>1, <1>2, <1>3
    <3>8. {i \in Entries : h + k <= i /\ i < t + n}
            = {i \in Entries : h + k <= i /\ i < t} \cup {i \in Entries : i >= t /\ i < t + n}
      BY <3>7, <1>3
    <3> QED
      BY <3>3, <3>4, <3>5, <3>6, <3>8
  <2> QED
    BY <2>3, <2>4, <2>5
<1>5. CASE ~same
  <2>1. t <= h /\ Occupied(r) = ROB_ENTRY_NUM - h + t
    BY <1>5 DEF Ordered, Occupied
  <2>2. Window(r) = {i \in Entries : h <= i \/ i < t}
    BY <1>5 DEF Window
  <2>3. ~Wraps(t, n) \/ (Wraps(h, k) /\ t + n = ROB_ENTRY_NUM)
    <3>1. n <= h + k - t
      BY <2>1, <1>2, <1>3
    <3>2. t + n <= h + k
      BY <3>1, <1>3
    <3> QED
      BY <3>2, <1>1, <1>3 DEF Wraps
  <2>4. CASE Wraps(h, k) /\ ~Wraps(t, n)
    <3>1. sameq
      BY <1>5, <2>4 DEF Pointers
    <3>2. q.head = 0 /\ q.tail = t + n /\ h + k = ROB_ENTRY_NUM
      BY <2>4, <1>1, <1>3 DEF Advance, Wraps
    <3>3. Window(q) = {i \in Entries : 0 <= i /\ i < t + n}
      BY <3>1, <3>2 DEF Window
    <3>4. DpSel(r, n) = {i \in Entries : i >= t /\ i < t + n}
      BY <2>4 DEF DpSel
    <3>5. Ordered(q)
      BY <3>1, <3>2, <1>3 DEF Ordered
    <3>6. Window(r) \ RtSel(r) = {i \in Entries : i < t}
      BY <3>2, <2>1, <2>2, <1>1, <1>3
    <3>7. {i \in Entries : 0 <= i /\ i < t + n}
            = {i \in Entries : i < t} \cup {i \in Entries : i >= t /\ i < t + n}
      BY <1>3
    <3> QED
      BY <3>3, <3>4, <3>5, <3>6, <3>7
  <2>5. CASE ~Wraps(h, k) /\ ~Wraps(t, n)
    <3>1. ~sameq
      BY <1>5, <2>5
    <3>2. q.head = h + k /\ q.tail = t + n
      BY <2>5 DEF Advance, Wraps
    <3>3. Window(q) = {i \in Entries : h + k <= i \/ i < t + n}
      BY <3>1, <3>2 DEF Window
    <3>4. DpSel(r, n) = {i \in Entries : i >= t /\ i < t + n}
      BY <2>5 DEF DpSel
    <3>5. Ordered(q)
      BY <3>1, <3>2, <2>1, <1>2, <1>3 DEF Ordered
    <3>6. t <= h + k
      BY <2>1, <1>3
    <3>7. Window(r) \ RtSel(r) = {i \in Entries : h + k <= i \/ i < t}
      BY <2>1, <2>2, <1>1, <1>3
    <3>8. {i \in Entries : h + k <= i \/ i < t + n}
            = {i \in Entries : h + k <= i \/ i < t} \cup {i \in Entries : i >= t /\ i < t + n}
      BY <3>6, <1>3
    <3> QED
      BY <3>3, <3>4, <3>5, <3>7, <3>8
  <2>6. CASE Wraps(h, k) /\ Wraps(t, n)
    <3>1. ~sameq
      BY <1>5, <2>6 DEF Pointers
    <3>a. h + k = ROB_ENTRY_NUM /\ t + n = ROB_ENTRY_NUM
      BY <2>3, <2>6, <1>1, <1>3 DEF Wraps
    <3>2. /\ q.head = 0 /\ q.tail = 0
          /\ h + k = ROB_ENTRY_NUM /\ t + n = ROB_ENTRY_NUM
      <4>1. Advance(h, k) = 0 /\ Advance(t, n) = 0
        <5>1. h \in Entries /\ t \in Entries /\ k \in Nat /\ n \in Nat
          BY <1>1, <1>3
        <5>2. Advance(h, k) = (h + k) - ROB_ENTRY_NUM /\ Advance(t, n) = (t + n) - ROB_ENTRY_NUM
          BY <5>1, <3>a, <1>3, AdvanceIs
        <5> QED
          BY <5>2, <3>a, <1>3
      <4> QED
        BY <3>a, <4>1
    <3>3. Window(q) = Entries
      BY <3>1, <3>2 DEF Window
    <3>4. DpSel(r, n) = {i \in Entries : i >= t \/ i < 0}
      BY <2>6, <3>2, <1>3 DEF DpSel
    <3>5. Ordered(q)
      BY <3>1, <3>2 DEF Ordered
    <3> QED
      <4>1. Window(r) \ RtSel(r) = {i \in Entries : i < t}
        <5>1. RtSel(r) = h .. (ROB_ENTRY_NUM - 1)
          <6>1. h + k - 1 = ROB_ENTRY_NUM - 1
            BY <3>2, <1>3
          <6> QED
            BY <6>1, <1>1
        <5>2. \A i \in Entries : i \notin RtSel(r) <=> i < h
          BY <5>1, <1>3
        <5> QED
          BY <5>2, <2>1, <2>2, <1>3
      <4>2. Entries = {i \in Entries : i < t} \cup {i \in Entries : i >= t \/ i < 0}
        <5>1. \A i \in Entries : i < t \/ i >= t
          BY <1>3
        <5> QED
          BY <5>1
      <4> QED
        BY <3>3, <3>4, <3>5, <4>1, <4>2
  <2> QED
    BY <2>3, <2>4, <2>5, <2>6
<1> QED
  BY <1>4, <1>5

\* What an edge leaves in an entry: an instruction if one was there that does not
\* retire, or if one is dispatched into it; nothing after a flush
\* (ROB.sv l.312-362).
LEMMA ValidAfterEdge ==
    ASSUME NEW insts, NEW targets, NEW r \in ROBOf(insts, targets),
           NEW n, NEW dp, NEW cdb, NEW i \in Entries
    PROVE  NextEntry(r, n, dp, cdb, i).valid <=>
              /\ ~BrMisValid(r)
              /\ i \in DpSel(r, n) \/ (r.array[i].valid /\ i \notin RtSel(r))
<1> DEFINE e == r.array[i]
<1>1. e \in EntryOf(insts, targets)
  BY DEF ROBOf
<1>2. CASE BrMisValid(r)
  BY <1>2 DEF NextEntry, EmptyEntry
<1>3. CASE ~BrMisValid(r) /\ i \in DpSel(r, n)
  BY <1>1, <1>3 DEF NextEntry, EntryOf
<1>4. CASE ~BrMisValid(r) /\ i \notin DpSel(r, n)
  BY <1>1, <1>4 DEF NextEntry, EntryOf, EmptyEntry
<1> QED
  BY <1>2, <1>3, <1>4

\* What is dispatched into the ring and broadcast to it.
Traffic(insts, targets, n, dp, cdb) ==
    /\ \A k \in 0..(n - 1) : /\ dp[k].br_predict \in BOOLEAN
                             /\ dp[k].wfi \in BOOLEAN
                             /\ dp[k].inst \in insts
    /\ \A i \in DOMAIN cdb : /\ cdb[i].br_result \in BOOLEAN
                             /\ cdb[i].br_target \in targets

\* An entry keeps its type: a dispatched entry is filled from a channel that was
\* dispatched (ROB.sv l.312-362).
LEMMA EntryKeepsType ==
    ASSUME NEW insts, NEW targets, NEW r \in ROBOf(insts, targets),
           NEW n \in 0..DP_NUM, NEW dp, NEW cdb,
           Traffic(insts, targets, n, dp, cdb), NEW i \in Entries
    PROVE  NextEntry(r, n, dp, cdb, i) \in EntryOf(insts, targets)
<1> DEFINE e == r.array[i]
           c == DpChannel(r, i)
<1>1. e \in EntryOf(insts, targets) /\ r.tail \in Entries
  BY DEF ROBOf
<1>2. EmptyEntry \in EntryOf(insts, targets)
  BY DEF EmptyEntry, EntryOf
<1>3. CASE i \in DpSel(r, n)
  <2>1. c \in 0..(n - 1)
    BY <1>1, <1>3, ROBParameters DEF DpSel, DpChannel, Wraps
  <2>2. /\ dp[c].br_predict \in BOOLEAN /\ dp[c].wfi \in BOOLEAN
        /\ dp[c].inst \in insts
    BY <2>1 DEF Traffic
  <2> HIDE DEF c
  <2>3. [e EXCEPT !.valid = TRUE, !.complete = FALSE,
                  !.br_predict = dp[c].br_predict, !.wfi = dp[c].wfi,
                  !.inst = dp[c].inst] \in EntryOf(insts, targets)
    BY <1>1, <2>2 DEF EntryOf
  <2> QED
    BY <1>2, <1>3, <2>3 DEF NextEntry, c
<1>4. CASE i \notin DpSel(r, n) /\ i \in DOMAIN cdb
  <2>1. [e EXCEPT !.complete = TRUE, !.br_result = cdb[i].br_result,
                  !.br_target = cdb[i].br_target] \in EntryOf(insts, targets)
    BY <1>1, <1>4 DEF EntryOf, Traffic
  <2> QED
    BY <1>1, <1>2, <1>4, <2>1 DEF NextEntry
<1>5. CASE i \notin DpSel(r, n) /\ i \notin DOMAIN cdb
  BY <1>1, <1>2, <1>5 DEF NextEntry
<1> QED
  BY <1>3, <1>4, <1>5

\* The state of a ring between two edges.
Whole(insts, targets, r) ==
    r \in ROBOf(insts, targets) /\ Ordered(r) /\ FillsWindow(r)

\* Every edge leaves the ring whole, as long as no more is dispatched than
\* rob_dp_o offers (ROB.sv as a whole).
LEMMA EdgeKeepsRingWhole ==
    ASSUME NEW insts, NEW targets, NEW r, Whole(insts, targets, r),
           NEW n \in Nat, n <= DpAvail(r), NEW dp, NEW cdb,
           Traffic(insts, targets, n, dp, cdb)
    PROVE  Whole(insts, targets, NextROB(r, n, dp, cdb))
<1> DEFINE q == NextROB(r, n, dp, cdb)
           k == RtNum(r)
<1>1. Pointers(r) /\ r \in ROBOf(insts, targets)
  BY DEF Pointers, Whole, ROBOf
<1>2. /\ k \in Nat /\ r.head + k <= ROB_ENTRY_NUM
  BY <1>1, RetiresAnInterval DEF Pointers
<1>3. AvailNum(r) \in Int
  BY <1>1, <1>2, RetiresWhatItHolds, ROBParameters DEF Whole
<1>4. n <= DP_NUM /\ n <= AvailNum(r) /\ n \in 0..DP_NUM
  BY <1>3, ROBParameters DEF DpAvail
<1>5. /\ Advance(r.head, k) \in Entries
      /\ Advance(r.tail, n) \in Entries
      /\ 0 \in Entries
  BY <1>1, <1>2, <1>4, ROBParameters DEF Advance, Pointers
<1>6. q.array \in [Entries -> EntryOf(insts, targets)]
  BY <1>1, <1>4, EntryKeepsType DEF NextROB, NextHeadRollover
<1>7. /\ q.head \in Entries /\ q.tail \in Entries
      /\ q.head_rollover \in BOOLEAN /\ q.tail_rollover \in BOOLEAN
  BY <1>1, <1>5 DEF NextROB, NextHeadRollover, Pointers
<1>8. q.rt_wfi \in BOOLEAN
  BY <1>1 DEF NextROB, NextHeadRollover, ROBOf
<1>9. q \in ROBOf(insts, targets)
  <2>1. q = [head |-> q.head, tail |-> q.tail,
             head_rollover |-> q.head_rollover,
             tail_rollover |-> q.tail_rollover, rt_wfi |-> q.rt_wfi,
             array |-> q.array]
    BY DEF NextROB, NextHeadRollover
  <2> QED
    BY <1>6, <1>7, <1>8, <2>1 DEF ROBOf
<1>10. \A i \in Entries : q.array[i] = NextEntry(r, n, dp, cdb, i)
  BY DEF NextROB, NextHeadRollover
<1>11. CASE BrMisValid(r)
  <2>1. q.head = 0 /\ q.tail = 0 /\ q.head_rollover = q.tail_rollover
    BY <1>11 DEF NextROB, NextHeadRollover
  <2>2. Ordered(q) /\ Window(q) = {}
    BY <2>1 DEF Ordered, Window
  <2>3. \A i \in Entries : ~q.array[i].valid
    BY <1>1, <1>10, <1>11, ValidAfterEdge
  <2> QED
    BY <1>9, <2>2, <2>3 DEF Whole, FillsWindow
<1>12. CASE ~BrMisValid(r)
  <2>1. /\ q.head = Advance(r.head, k)
        /\ q.tail = Advance(r.tail, n)
        /\ q.head_rollover = (IF Wraps(r.head, k)
                              THEN ~r.head_rollover ELSE r.head_rollover)
        /\ q.tail_rollover = (IF Wraps(r.tail, n)
                              THEN ~r.tail_rollover ELSE r.tail_rollover)
    BY <1>12 DEF NextROB, NextHeadRollover
  <2>2. Pointers(q)
    BY <1>7 DEF Pointers
  <2> HIDE DEF q, k
  <2>3. /\ Ordered(q)
        /\ Window(q) = (Window(r) \ RtSel(r)) \cup DpSel(r, n)
    BY <1>1, <1>4, <2>1, <2>2, WindowMoves DEF Whole, k
  <2>4. ASSUME NEW i \in Entries
        PROVE  q.array[i].valid <=> i \in Window(q)
    <3>1. q.array[i].valid <=>
            (i \in DpSel(r, n) \/ (r.array[i].valid /\ i \notin RtSel(r)))
      BY <1>1, <1>10, <1>12, ValidAfterEdge
    <3>2. r.array[i].valid <=> i \in Window(r)
      BY DEF Whole, FillsWindow
    <3> QED
      BY <2>3, <3>1, <3>2
  <2> QED
    BY <1>9, <2>3, <2>4 DEF Whole, FillsWindow, q
<1> QED
  BY <1>11, <1>12

-----------------------------------------------------------------------------
\* The instructions of a ring by age.

\* The entry a places behind the head.
Place(r, a) == Advance(r.head, a)

\* The places of the instructions held are entries of the window.
LEMMA PlacesOfRing ==
  ASSUME NEW r, Pointers(r), Ordered(r), NEW a \in Nat, a < Occupied(r)
  PROVE  Place(r, a) \in Window(r) /\ Place(r, a) \in Entries
  BY ROBParameters DEF Pointers, Ordered, Occupied, Window, Place, Advance

\* A place counted from a later head.
LEMMA PlaceMoves ==
  ASSUME NEW h \in Entries, NEW a \in Nat, NEW b \in Nat, a + b < ROB_ENTRY_NUM
  PROVE  Advance(Advance(h, a), b) = Advance(h, a + b)
  BY ROBParameters DEF Advance

\* What retires are the first RtNum places and no others.
LEMMA RetiringPlaces ==
  ASSUME NEW r, Pointers(r), Ordered(r), FillsWindow(r),
         NEW a \in Nat, a < Occupied(r)
  PROVE  Place(r, a) \in RtSel(r) <=> a < RtNum(r)
<1>1. /\ RtNum(r) \in Nat /\ r.head + RtNum(r) <= ROB_ENTRY_NUM
      /\ RtSel(r) = r.head .. (r.head + RtNum(r) - 1)
  BY RetiresAnInterval DEF Pointers
<1>2. Occupied(r) \in 0..ROB_ENTRY_NUM
  BY RetiresWhatItHolds
<1> QED
  BY <1>1, <1>2, ROBParameters DEF Place, Advance, Pointers

\* Dispatch goes behind the last place.
LEMMA DispatchedPlaces ==
  ASSUME NEW r, Pointers(r), Ordered(r), FillsWindow(r),
         NEW n \in Nat, n <= DP_NUM, n <= ROB_ENTRY_NUM - Occupied(r) + RtNum(r),
         NEW a \in Nat, RtNum(r) <= a, a < Occupied(r) + n
  PROVE  Place(r, a) \in DpSel(r, n) <=> Occupied(r) <= a
<1>1. /\ RtNum(r) \in Nat /\ r.head + RtNum(r) <= ROB_ENTRY_NUM
  BY RetiresAnInterval DEF Pointers
<1>2. Occupied(r) \in 0..ROB_ENTRY_NUM /\ RtNum(r) <= Occupied(r)
  BY RetiresWhatItHolds
<1>3. CASE r.head_rollover = r.tail_rollover
  BY <1>1, <1>2, <1>3, ROBParameters DEF Place, Advance, Pointers, Ordered, Occupied, DpSel, Wraps
<1>4. CASE r.head_rollover # r.tail_rollover
  BY <1>1, <1>2, <1>4, ROBParameters DEF Place, Advance, Pointers, Ordered, Occupied, DpSel, Wraps
<1> QED
  BY <1>3, <1>4

\* Channel c fills the c-th place behind the last one.
LEMMA ChannelOfPlace ==
  ASSUME NEW r, Pointers(r), Ordered(r), FillsWindow(r),
         NEW n \in Nat, n <= DP_NUM, n <= ROB_ENTRY_NUM - Occupied(r) + RtNum(r),
         NEW a \in Nat, Occupied(r) <= a, a < Occupied(r) + n
  PROVE  DpChannel(r, Place(r, a)) = a - Occupied(r)
<1>1. /\ RtNum(r) \in Nat /\ r.head + RtNum(r) <= ROB_ENTRY_NUM
  BY RetiresAnInterval DEF Pointers
<1>2. Occupied(r) \in 0..ROB_ENTRY_NUM /\ RtNum(r) <= Occupied(r)
  BY RetiresWhatItHolds
<1>3. CASE r.head_rollover = r.tail_rollover
  BY <1>1, <1>2, <1>3, ROBParameters DEF Place, Advance, Pointers, Ordered, Occupied, DpChannel
<1>4. CASE r.head_rollover # r.tail_rollover
  BY <1>1, <1>2, <1>4, ROBParameters DEF Place, Advance, Pointers, Ordered, Occupied, DpChannel
<1> QED
  BY <1>3, <1>4

\* No two places are the same entry, and every entry of the window is one.
LEMMA PlacesCoverWindow ==
  ASSUME NEW r, Pointers(r), Ordered(r), Occupied(r) \in 0..ROB_ENTRY_NUM
  PROVE  /\ \A a, b \in 0..(ROB_ENTRY_NUM - 1) : Place(r, a) = Place(r, b) => a = b
         /\ \A i \in Window(r) : \E a \in 0..(Occupied(r) - 1) : i = Place(r, a)
<1>1. \A a, b \in 0..(ROB_ENTRY_NUM - 1) : Place(r, a) = Place(r, b) => a = b
  BY ROBParameters DEF Pointers, Place, Advance
<1>2. ASSUME NEW i \in Window(r)
      PROVE  \E a \in 0..(Occupied(r) - 1) : i = Place(r, a)
  <2> DEFINE a == IF r.head <= i THEN i - r.head ELSE i + ROB_ENTRY_NUM - r.head
  <2>1. a \in 0..(Occupied(r) - 1) /\ i = Place(r, a)
    BY ROBParameters DEF Pointers, Ordered, Occupied, Window, Place, Advance
  <2> QED
    BY <2>1
<1> QED
  BY <1>1, <1>2

-----------------------------------------------------------------------------
\* Without a flush, an edge moves every instruction that stays RtNum places
\* towards the head and puts the dispatched ones behind them, channel 0 first
\* (ROB.sv l.115-156, l.176-194).
LEMMA PlacesAfterEdge ==
  ASSUME NEW insts, NEW targets, NEW r, Whole(insts, targets, r), ~BrMisValid(r),
         NEW n \in Nat, n <= DpAvail(r), NEW dp, NEW cdb,
         Traffic(insts, targets, n, dp, cdb)
  PROVE  /\ Occupied(NextROB(r, n, dp, cdb)) = Occupied(r) - RtNum(r) + n
         /\ Occupied(NextROB(r, n, dp, cdb)) <= ROB_ENTRY_NUM
         /\ \A i \in 1..Occupied(NextROB(r, n, dp, cdb)) :
               LET e == Place(NextROB(r, n, dp, cdb), i - 1) IN
               /\ e = Place(r, RtNum(r) + (i - 1))
               /\ e \in Entries
               /\ e \in DpSel(r, n) <=> i > Occupied(r) - RtNum(r)
               /\ e \notin DpSel(r, n) => e \notin RtSel(r)
               /\ e \in DpSel(r, n) =>
                    DpChannel(r, e) = i - (Occupied(r) - RtNum(r)) - 1
<1> DEFINE q == NextROB(r, n, dp, cdb)
           k == RtNum(r)
<1>1. Pointers(r) /\ Ordered(r) /\ FillsWindow(r) /\ r \in ROBOf(insts, targets)
  BY DEF Whole, Pointers, ROBOf
<1>2. /\ k \in Nat /\ r.head + k <= ROB_ENTRY_NUM
      /\ Occupied(r) \in 0..ROB_ENTRY_NUM /\ k <= Occupied(r)
      /\ AvailNum(r) = ROB_ENTRY_NUM - Occupied(r) + k
  BY <1>1, RetiresAnInterval, RetiresWhatItHolds DEF Pointers
<1>3. n <= DP_NUM /\ n <= ROB_ENTRY_NUM - Occupied(r) + k
  BY <1>2, ROBParameters DEF DpAvail
<1>4. /\ q.head = Advance(r.head, k) /\ q.tail = Advance(r.tail, n)
      /\ q.head_rollover = (IF Wraps(r.head, k) THEN ~r.head_rollover ELSE r.head_rollover)
      /\ q.tail_rollover = (IF Wraps(r.tail, n) THEN ~r.tail_rollover ELSE r.tail_rollover)
      /\ q.array = [i \in Entries |-> NextEntry(r, n, dp, cdb, i)]
  BY DEF NextROB, NextHeadRollover
<1>5. Whole(insts, targets, q)
  BY EdgeKeepsRingWhole
<1> HIDE DEF q, k
<1>6. Occupied(q) = Occupied(r) - k + n /\ Occupied(q) <= ROB_ENTRY_NUM
  <2>1. /\ r.head \in Entries /\ r.tail \in Entries
        /\ r.head_rollover \in BOOLEAN /\ r.tail_rollover \in BOOLEAN
        /\ r.head_rollover = r.tail_rollover => r.head <= r.tail
        /\ r.head_rollover # r.tail_rollover => r.tail <= r.head
    BY <1>1 DEF Pointers, Ordered
  <2>2. CASE r.head_rollover = r.tail_rollover
    <3>1. Occupied(r) = r.tail - r.head
      BY <2>2 DEF Occupied
    <3>2. ~Wraps(r.head, k)
      BY <3>1, <2>1, <1>2, ROBParameters DEF Wraps
    <3>3. CASE Wraps(r.tail, n)
      <4>1. q.head_rollover # q.tail_rollover
        BY <2>1, <2>2, <1>4, <3>2, <3>3
      <4>2. Occupied(q) = ROB_ENTRY_NUM - q.head + q.tail
        BY <4>1 DEF Occupied
      <4>3. q.head = r.head + k /\ q.tail = r.tail + n - ROB_ENTRY_NUM
        BY <3>2, <3>3, <1>4 DEF Advance, Wraps
      <4> QED
        BY <4>2, <4>3, <3>1, <2>1, <1>2, <1>3, ROBParameters
    <3>4. CASE ~Wraps(r.tail, n)
      <4>1. q.head_rollover = q.tail_rollover
        BY <2>2, <1>4, <3>2, <3>4
      <4>2. Occupied(q) = q.tail - q.head
        BY <4>1 DEF Occupied
      <4>3. q.head = r.head + k /\ q.tail = r.tail + n
        BY <3>2, <3>4, <1>4 DEF Advance, Wraps
      <4> QED
        BY <4>2, <4>3, <3>1, <3>4, <2>1, <1>2, <1>3, ROBParameters DEF Wraps
    <3> QED
      BY <3>3, <3>4
  <2>3. CASE r.head_rollover # r.tail_rollover
    <3>1. Occupied(r) = ROB_ENTRY_NUM - r.head + r.tail
      BY <2>3 DEF Occupied
    <3>2. Wraps(r.tail, n) => Wraps(r.head, k)
      BY <3>1, <2>1, <1>2, <1>3, ROBParameters DEF Wraps
    <3>3. CASE Wraps(r.head, k) /\ ~Wraps(r.tail, n)
      <4>1. q.head_rollover = q.tail_rollover
        BY <2>1, <2>3, <1>4, <3>3
      <4>2. Occupied(q) = q.tail - q.head
        BY <4>1 DEF Occupied
      <4>3. q.head = r.head + k - ROB_ENTRY_NUM /\ q.tail = r.tail + n
        BY <3>3, <1>4 DEF Advance, Wraps
      <4> QED
        BY <4>2, <4>3, <3>1, <2>1, <1>2, <1>3, ROBParameters
    <3>4. CASE Wraps(r.head, k) <=> Wraps(r.tail, n)
      <4>1. q.head_rollover # q.tail_rollover
        BY <2>1, <2>3, <1>4, <3>4
      <4>2. Occupied(q) = ROB_ENTRY_NUM - q.head + q.tail
        BY <4>1 DEF Occupied
      <4>3. \/ q.head = r.head + k /\ q.tail = r.tail + n
            \/ q.head = r.head + k - ROB_ENTRY_NUM /\ q.tail = r.tail + n - ROB_ENTRY_NUM
        BY <3>4, <1>4 DEF Advance, Wraps
      <4>4. CASE q.head = r.head + k /\ q.tail = r.tail + n
        BY <4>2, <4>4, <3>1, <2>1, <1>2, <1>3, ROBParameters
      <4>5. CASE q.head = r.head + k - ROB_ENTRY_NUM /\ q.tail = r.tail + n - ROB_ENTRY_NUM
        BY <4>2, <4>5, <3>1, <2>1, <1>2, <1>3, ROBParameters
      <4> QED
        BY <4>3, <4>4, <4>5
    <3> QED
      BY <3>2, <3>3, <3>4
  <2> QED
    BY <2>2, <2>3
<1>7. ASSUME NEW i \in 1..Occupied(q)
      PROVE  /\ Place(q, i - 1) = Place(r, k + (i - 1))
             /\ Place(q, i - 1) \in Entries
             /\ Place(q, i - 1) \in DpSel(r, n) <=> i > Occupied(r) - k
             /\ Place(q, i - 1) \notin DpSel(r, n) => Place(q, i - 1) \notin RtSel(r)
             /\ Place(q, i - 1) \in DpSel(r, n) =>
                  DpChannel(r, Place(q, i - 1)) = i - (Occupied(r) - k) - 1
  <2> DEFINE a == k + (i - 1)
  <2>1. /\ i - 1 \in Nat /\ i - 1 < Occupied(q) /\ a \in Nat /\ k <= a /\ a < Occupied(r) + n
        /\ r.head \in Entries
    BY <1>1, <1>2, <1>6 DEF Pointers
  <2>2. Place(q, i - 1) \in Entries
    BY <2>1, <1>5, PlacesOfRing DEF Whole, Pointers, ROBOf
  <2>3. Place(q, i - 1) = Place(r, a)
    <3>1. CASE a < ROB_ENTRY_NUM
      BY <3>1, <2>1, <1>2, <1>4, PlaceMoves DEF Place
    <3>2. CASE a >= ROB_ENTRY_NUM
      <4>1. r.head \in Nat /\ i - 1 \in Nat /\ i - 1 < ROB_ENTRY_NUM /\ ROB_ENTRY_NUM \in Nat
        BY <2>1, <1>2, <1>3, <1>6, ROBParameters
      <4>2. Advance(r.head, a) = (r.head + a) - ROB_ENTRY_NUM
        <5>1. r.head + a >= ROB_ENTRY_NUM
          BY <3>2, <4>1, <2>1
        <5> QED
          BY <5>1, <2>1, AdvanceIs
      <4>3. CASE r.head + k = ROB_ENTRY_NUM
        <5>1. q.head = 0
          <6>1. Advance(r.head, k) = (r.head + k) - ROB_ENTRY_NUM
            BY <4>3, <4>1, <1>2, <2>1, AdvanceIs
          <6> QED
            BY <6>1, <4>3, <4>1, <1>2, <1>4
        <5>2. Advance(0, i - 1) = i - 1
          BY <4>1, AdvanceIs, ROBParameters
        <5>3. (r.head + a) - ROB_ENTRY_NUM = i - 1
          BY <4>1, <4>3, <1>2
        <5> QED
          BY <4>2, <5>1, <5>2, <5>3 DEF Place
      <4>4. CASE r.head + k < ROB_ENTRY_NUM
        <5>1. q.head = r.head + k /\ q.head \in Entries
          BY <4>1, <4>4, <1>2, <1>4, AdvanceIs, <2>1
        <5>2. q.head + (i - 1) = r.head + a
          BY <5>1, <4>1, <1>2
        <5>3. q.head + (i - 1) >= ROB_ENTRY_NUM
          BY <5>2, <3>2, <4>1, <2>1
        <5>4. Advance(q.head, i - 1) = (q.head + (i - 1)) - ROB_ENTRY_NUM
          BY <5>1, <5>3, <4>1, AdvanceIs
        <5> QED
          BY <4>2, <5>2, <5>4 DEF Place
      <4> QED
        BY <4>1, <4>3, <4>4, <1>2
    <3> QED
      BY <3>1, <3>2, <2>1, ROBParameters
  <2> HIDE DEF a
  <2>4. Place(r, a) \in DpSel(r, n) <=> Occupied(r) <= a
    BY <2>1, <1>1, <1>3, DispatchedPlaces DEF k
  <2>5. a < Occupied(r) => Place(r, a) \notin RtSel(r)
    BY <2>1, <1>1, <1>2, RetiringPlaces DEF k
  <2>6. Occupied(r) <= a <=> i > Occupied(r) - k
    BY <1>2, <2>1 DEF a
  <2>7. Occupied(r) <= a \/ a < Occupied(r)
    BY <1>2, <2>1
  <2>8. Occupied(r) <= a => DpChannel(r, Place(r, a)) = a - Occupied(r)
    BY <2>1, <1>1, <1>2, <1>3, ChannelOfPlace DEF k
  <2>9. a - Occupied(r) = i - (Occupied(r) - k) - 1
    BY <1>2 DEF a
  <2> QED
    BY <2>2, <2>3, <2>4, <2>5, <2>6, <2>7, <2>8, <2>9 DEF a
<1> QED
  BY <1>6, <1>7 DEF q, k

\* The a-th oldest entry.
Aged(r, a) == r.array[Place(r, a - 1)]

\* What the ages of a ring are: its window, oldest first. The first RtNum retire
\* and have completed (ROB.sv l.230-266).
LEMMA AgesNow ==
  ASSUME NEW insts, NEW targets, NEW r, Whole(insts, targets, r)
  PROVE  /\ Occupied(r) \in 0..ROB_ENTRY_NUM
         /\ RtNum(r) \in 0..Occupied(r)
         /\ \A a \in 1..Occupied(r) : /\ Aged(r, a) \in EntryOf(insts, targets)
                                      /\ Aged(r, a).valid
         /\ \A a \in 1..RtNum(r) : /\ Aged(r, a) = r.array[r.head + (a - 1)]
                                   /\ Aged(r, a).complete
         /\ \A a, b \in 1..Occupied(r) : Place(r, a - 1) = Place(r, b - 1) => a = b
<1>1. Pointers(r) /\ Ordered(r) /\ FillsWindow(r) /\ r \in ROBOf(insts, targets)
  BY DEF Whole, Pointers, ROBOf
<1>2. /\ Occupied(r) \in 0..ROB_ENTRY_NUM
      /\ RtNum(r) \in 0..Occupied(r)
      /\ r.head + RtNum(r) <= ROB_ENTRY_NUM
      /\ RtSel(r) = r.head .. (r.head + RtNum(r) - 1)
  BY <1>1, RetiresAnInterval, RetiresWhatItHolds DEF Pointers
<1>3. ASSUME NEW a \in 1..Occupied(r)
      PROVE  Aged(r, a) \in EntryOf(insts, targets) /\ Aged(r, a).valid
  <2>1. Place(r, a - 1) \in Window(r) /\ Place(r, a - 1) \in Entries
    BY <1>1, <1>2, PlacesOfRing
  <2> QED
    BY <1>1, <2>1 DEF Aged, ROBOf, FillsWindow
<1>4. ASSUME NEW a \in 1..RtNum(r)
      PROVE  Aged(r, a) = r.array[r.head + (a - 1)] /\ Aged(r, a).complete
  <2>1. Place(r, a - 1) = r.head + (a - 1)
    BY <1>1, <1>2, ROBParameters DEF Place, Advance, Pointers
  <2>2. r.head + (a - 1) \in RtSel(r) /\ r.head + (a - 1) \in r.head..(r.head + (a - 1))
    BY <1>1, <1>2 DEF Pointers
  <2>3. r.array[r.head + (a - 1)].complete
    BY <2>2 DEF RtSel
  <2> QED
    BY <2>1, <2>3 DEF Aged
<1>5. \A a, b \in 1..Occupied(r) : Place(r, a - 1) = Place(r, b - 1) => a = b
  <2>1. \A a \in 1..Occupied(r) : a - 1 \in 0..(ROB_ENTRY_NUM - 1) /\ a = (a - 1) + 1
    BY <1>2, ROBParameters
  <2>2. \A a, b \in 0..(ROB_ENTRY_NUM - 1) : Place(r, a) = Place(r, b) => a = b
    BY <1>1, <1>2, PlacesCoverWindow
  <2> QED
    BY <2>1, <2>2
<1> QED
  BY <1>2, <1>3, <1>4, <1>5

\* q is r after an edge without a flush: the instructions that stay are RtNum
\* younger than they were old, those named by heard have completed, and the n
\* instructions dp stand behind them.
Moves(r, q, n, dp, heard) ==
    LET kept == Occupied(r) - RtNum(r) IN
    /\ Occupied(q) = kept + n
    /\ \A a \in 1..kept :
          /\ Aged(q, a).inst = Aged(r, a + RtNum(r)).inst
          /\ Aged(q, a).complete <=>
                \/ Aged(r, a + RtNum(r)).complete
                \/ Place(r, (a + RtNum(r)) - 1) \in heard
    /\ \A c \in 0..(n - 1) :
          /\ Aged(q, kept + 1 + c).inst = dp[c].inst
          /\ ~Aged(q, kept + 1 + c).complete

LEMMA AgesAfterEdge ==
  ASSUME NEW insts, NEW targets, NEW r, Whole(insts, targets, r), ~BrMisValid(r),
         NEW n \in Nat, n <= DpAvail(r), NEW dp, NEW cdb,
         Traffic(insts, targets, n, dp, cdb)
  PROVE  Moves(r, NextROB(r, n, dp, cdb), n, dp, DOMAIN cdb)
<1> DEFINE q == NextROB(r, n, dp, cdb)
           k == RtNum(r)
           kept == Occupied(r) - k
<1>1. r \in ROBOf(insts, targets) /\ k \in 0..Occupied(r) /\ Occupied(r) \in Nat
  BY AgesNow DEF Whole
<1>2. q.array = [i \in Entries |-> NextEntry(r, n, dp, cdb, i)]
  BY DEF NextROB, NextHeadRollover
<1> HIDE DEF q, k
<1>3. /\ Occupied(q) = kept + n
      /\ \A a \in 1..Occupied(q) :
           LET e == Place(q, a - 1) IN
           /\ e = Place(r, k + (a - 1))
           /\ e \in Entries
           /\ e \in DpSel(r, n) <=> a > kept
           /\ e \notin DpSel(r, n) => e \notin RtSel(r)
           /\ e \in DpSel(r, n) => DpChannel(r, e) = a - kept - 1
  BY PlacesAfterEdge DEF q, k
<1>4. ASSUME NEW a \in 1..kept
      PROVE  /\ Aged(q, a).inst = Aged(r, a + k).inst
             /\ Aged(q, a).complete <=>
                   Aged(r, a + k).complete \/ Place(r, (a + k) - 1) \in DOMAIN cdb
  <2> DEFINE e == Place(q, a - 1)
  <2>1. a \in 1..Occupied(q) /\ ~(a > kept) /\ k + (a - 1) = (a + k) - 1 /\ a + k \in 1..Occupied(r)
    BY <1>1, <1>3
  <2>2. /\ e \in Entries /\ e \notin DpSel(r, n) /\ e \notin RtSel(r)
        /\ e = Place(r, (a + k) - 1)
    BY <1>3, <2>1
  <2>3. q.array[e] = NextEntry(r, n, dp, cdb, e) /\ r.array[e] \in EntryOf(insts, targets)
    BY <1>1, <1>2, <2>2 DEF ROBOf
  <2>4. Aged(q, a) = q.array[e] /\ Aged(r, a + k) = r.array[e]
    BY <2>2 DEF Aged
  <2>5. r.array[e].valid
    BY <2>1, <2>4, AgesNow
  <2> HIDE DEF e
  <2> QED
    BY <2>2, <2>3, <2>4, <2>5 DEF NextEntry, EntryOf
<1>5. ASSUME NEW c \in 0..(n - 1)
      PROVE  Aged(q, kept + 1 + c).inst = dp[c].inst /\ ~Aged(q, kept + 1 + c).complete
  <2> DEFINE a == kept + 1 + c
             e == Place(q, a - 1)
  <2>1. a \in 1..Occupied(q) /\ a > kept /\ a - kept - 1 = c
    BY <1>1, <1>3
  <2> HIDE DEF a
  <2>2. e \in Entries /\ e \in DpSel(r, n) /\ DpChannel(r, e) = c
    BY <1>3, <2>1
  <2>3. q.array[e] = NextEntry(r, n, dp, cdb, e) /\ r.array[e] \in EntryOf(insts, targets)
    BY <1>1, <1>2, <2>2 DEF ROBOf
  <2>4. Aged(q, a) = q.array[e]
    BY DEF Aged
  <2> HIDE DEF e
  <2> QED
    BY <2>2, <2>3, <2>4 DEF NextEntry, EntryOf, a
<1> QED
  BY <1>3, <1>4, <1>5 DEF Moves, q, k
=============================================================================
