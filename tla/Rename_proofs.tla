---------------------------- MODULE Rename_proofs ----------------------------
(***************************************************************************)
(* Renaming, for every number of threads, registers and channels and every *)
(* size of the reorder buffers and of the free list.                       *)
(***************************************************************************)
EXTENDS RenameProps, ROBLogic_proofs

USE DEF Entries

-----------------------------------------------------------------------------
\* Sets of numbers.

\* Youngest finds the greatest element of a bounded set, which is unique.
LEMMA YoungestExists ==
  ASSUME NEW n \in Nat, NEW S \in SUBSET (0..n), S # {}
  PROVE  Youngest(S) \in S /\ \A i \in S : i <= Youngest(S)
<1> DEFINE T == {i \in 0..n : n - i \in S}
<1>1. T \in SUBSET Nat /\ T # {}
  <2>1. PICK j \in S : j \in 0..n
    OBVIOUS
  <2>2. n - j \in 0..n /\ n - (n - j) = j
    BY <2>1
  <2>3. n - j \in T
    BY <2>1, <2>2
  <2>4. \A i \in T : i \in Nat
    OBVIOUS
  <2> HIDE DEF T
  <2> QED
    BY <2>3, <2>4
<1> HIDE DEF T
<1>2. PICK x \in T : \A y \in T : x <= y
  BY <1>1, LeastExists
<1>3. n - x \in S /\ x \in 0..n
  BY <1>2 DEF T
<1>4. ASSUME NEW i \in S PROVE i <= n - x
  <2>1. n - i \in T
    BY DEF T
  <2> QED
    BY <1>2, <1>3, <2>1
<1>5. \E j \in S : \A i \in S : i <= j
  BY <1>3, <1>4
<1> QED
  BY <1>5 DEF Youngest

LEMMA YoungestIs ==
  ASSUME NEW S \in SUBSET Int, NEW j \in S, \A i \in S : i <= j
  PROVE  Youngest(S) = j
<1>1. \A k \in S : (\A i \in S : i <= k) => k = j
  OBVIOUS
<1> QED
  BY <1>1 DEF Youngest

-----------------------------------------------------------------------------
\* What dispatch takes from the free list.

FreeEntries == {f \in FLEntries : fl[f].valid}

\* The free list entry whose tag channel j of group g takes.
Taken(g, j) == FlDpIdx(TagsBefore(g, j))

\* The group's channels that write a register.
WritingChannels(g, n) == {j \in 0..(n - 1) : g[j].rd # 0}

\* As long as the group is no larger than the number of free entries, every
\* channel that writes a register takes an entry of its own, and FlDpSel holds
\* these entries and no others (FL_smt.sv l.61-97).
LEMMA DispatchTakes ==
  ASSUME NEW n \in Nat, NEW g, n <= Cardinality(FreeEntries)
  PROVE  /\ \A j \in WritingChannels(g, n) :
               /\ Taken(g, j) \in FLEntries /\ fl[Taken(g, j)].valid
               /\ Taken(g, j) \in FlDpSel(n, g)
         /\ \A i, j \in WritingChannels(g, n) : Taken(g, i) = Taken(g, j) => i = j
         /\ \A f \in FlDpSel(n, g) : \E j \in WritingChannels(g, n) : f = Taken(g, j)
         /\ FlDpSel(n, g) \subseteq FreeEntries
         /\ TagsBefore(g, n) \in 0..n
         /\ IsFiniteSet(FlDpSel(n, g)) /\ Cardinality(FlDpSel(n, g)) = TagsBefore(g, n)
<1> DEFINE W == WritingChannels(g, n)
           V == FreeEntries
           m == TagsBefore(g, n)
           N == 0..(m - 1)
<1>1. IsFiniteSet(FLEntries) /\ FLEntries \in SUBSET Nat
  <2>1. 0 \in Int /\ FL_ENTRY_NUM - 1 \in Int
    BY RenameParameters DEF FL_ENTRY_NUM
  <2> QED
    BY <2>1, FS_Interval DEF FLEntries
<1>2. IsFiniteSet(V) /\ V \in SUBSET Nat /\ V \in SUBSET FLEntries
      /\ Cardinality(V) \in Nat
  <2>1. V \in SUBSET FLEntries
    BY DEF FreeEntries
  <2> QED
    BY <1>1, <2>1, FS_Subset, FS_CardinalityType
<1>3. /\ IsFiniteSet(0..(n - 1)) /\ Cardinality(0..(n - 1)) = n
  <2>1. 0 \in Int /\ n - 1 \in Int
    OBVIOUS
  <2>2. /\ IsFiniteSet(0..(n - 1))
        /\ Cardinality(0..(n - 1)) = IF 0 > n - 1 THEN 0 ELSE n - 1 - 0 + 1
    BY <2>1, FS_Interval
  <2> QED
    BY <2>2
<1>4. W \in SUBSET (0..(n - 1)) /\ W \in SUBSET Nat /\ m = Cardinality(W)
  BY DEF WritingChannels, TagsBefore
<1>5. IsFiniteSet(W) /\ m \in 0..n
  <2>1. IsFiniteSet(W) /\ Cardinality(W) <= n
    BY <1>3, <1>4, FS_Subset
  <2>2. Cardinality(W) \in Nat
    BY <2>1, FS_CardinalityType
  <2> QED
    BY <1>4, <2>1, <2>2
<1>6. ASSUME NEW j \in W
      PROVE  TagsBefore(g, j) = Cardinality({i \in W : i < j})
  <2>1. {i \in 0..(j - 1) : g[i].rd # 0} = {i \in W : i < j}
    BY <1>4 DEF WritingChannels
  <2> QED
    BY <2>1 DEF TagsBefore
<1>7. /\ \A j \in W : TagsBefore(g, j) \in N
      /\ \A i, j \in W : TagsBefore(g, i) = TagsBefore(g, j) => i = j
      /\ \A k \in N : \E j \in W : TagsBefore(g, j) = k
  <2> HIDE DEF W, m
  <2>1. \A f \in W : Cardinality({e \in W : e < f}) \in 0..(Cardinality(W) - 1)
    BY <1>4, <1>5, RanksCover
  <2>2. \A f, e \in W : Cardinality({d \in W : d < f})
                           = Cardinality({d \in W : d < e}) => f = e
    BY <1>4, <1>5, RanksCover
  <2>3. \A k \in 0..(Cardinality(W) - 1) :
           \E f \in W : Cardinality({e \in W : e < f}) = k
    BY <1>4, <1>5, RanksCover
  <2> QED
    BY <1>4, <1>6, <2>1, <2>2, <2>3
<1>8. \A k \in N : /\ FlDpIdx(k) \in V
                   /\ Cardinality({e \in V : e < FlDpIdx(k)}) = k
  <2> SUFFICES ASSUME NEW k \in N
               PROVE  /\ FlDpIdx(k) \in V
                      /\ Cardinality({e \in V : e < FlDpIdx(k)}) = k
    OBVIOUS
  <2>1. k \in 0..(Cardinality(V) - 1)
    BY <1>2, <1>5
  <2>2. \E f \in V : Cardinality({e \in V : e < f}) = k
    <3> HIDE DEF V
    <3> QED
      BY <1>2, <2>1, RanksCover
  <2>3. \A f \in FLEntries : {e \in FLEntries : e < f /\ fl[e].valid} = {e \in V : e < f}
    BY DEF FreeEntries
  <2>4. \E f \in FLEntries : /\ fl[f].valid
                             /\ Cardinality({e \in FLEntries : e < f /\ fl[e].valid}) = k
    BY <2>2, <2>3 DEF FreeEntries
  <2>5. /\ FlDpIdx(k) \in FLEntries /\ fl[FlDpIdx(k)].valid
        /\ Cardinality({e \in FLEntries : e < FlDpIdx(k) /\ fl[e].valid}) = k
    BY <2>4 DEF FlDpIdx
  <2> QED
    BY <2>3, <2>5 DEF FreeEntries
<1>9. \A i, k \in N : FlDpIdx(i) = FlDpIdx(k) => i = k
  BY <1>8
<1>10. FlDpSel(n, g) = {FlDpIdx(i) : i \in N}
  BY DEF FlDpSel
<1>11. IsFiniteSet(N) /\ Cardinality(N) = m
  <2>1. 0 \in Int /\ m - 1 \in Int
    BY <1>5
  <2>2. /\ IsFiniteSet(N)
        /\ Cardinality(N) = IF 0 > m - 1 THEN 0 ELSE m - 1 - 0 + 1
    BY <2>1, FS_Interval
  <2> QED
    BY <1>5, <2>2
<1> HIDE DEF N, W, V, m
<1>12. IsFiniteSet(FlDpSel(n, g)) /\ Cardinality(FlDpSel(n, g)) = m
  <2> DEFINE h == [i \in N |-> FlDpIdx(i)]
  <2>1. h \in Surjection(N, FlDpSel(n, g)) /\ h \in Injection(N, FlDpSel(n, g))
    BY <1>9, <1>10 DEF Surjection, Injection, IsInjective
  <2> QED
    BY <1>11, <2>1, FS_Surjection
<1>13. \A j \in W : /\ Taken(g, j) \in V
                    /\ Taken(g, j) \in FlDpSel(n, g)
  BY <1>7, <1>8, <1>10 DEF Taken
<1>14. \A i, j \in W : Taken(g, i) = Taken(g, j) => i = j
  BY <1>7, <1>9 DEF Taken
<1>15. ASSUME NEW f \in FlDpSel(n, g)
       PROVE  f \in V /\ \E j \in W : f = Taken(g, j)
  <2>1. PICK i \in N : f = FlDpIdx(i)
    BY <1>10
  <2>2. PICK j \in W : TagsBefore(g, j) = i
    BY <1>7
  <2> QED
    BY <1>8, <2>1, <2>2 DEF Taken
<1> QED
  BY <1>2, <1>5, <1>12, <1>13, <1>14, <1>15 DEF W, V, m, FreeEntries

-----------------------------------------------------------------------------
\* The tag of a register at some age.

\* The instructions of a ring that are older than age b and write register x.
WritersBelow(r, x, b) ==
    {a \in 1..Occupied(r) : a < b /\ x # 0 /\ Aged(r, a).inst.rd = x}

\* The age of the youngest of them, 0 if there is none.
LastAge(r, x, b) ==
    IF WritersBelow(r, x, b) = {} THEN 0 ELSE Youngest(WritersBelow(r, x, b))

\* The tag of register x as the instruction of age b finds it: that of its
\* youngest older writer in flight, or else the committed one.
LastTag(r, committed, x, b) ==
    IF LastAge(r, x, b) = 0 THEN committed ELSE Aged(r, LastAge(r, x, b)).inst.tag

LEMMA LastAgeFound ==
  ASSUME NEW r, Occupied(r) \in Nat, NEW x, NEW b
  PROVE  /\ LastAge(r, x, b) \in 0..Occupied(r)
         /\ LastAge(r, x, b) # 0 => LastAge(r, x, b) \in WritersBelow(r, x, b)
         /\ \A a \in WritersBelow(r, x, b) : a \in 1..LastAge(r, x, b)
         /\ LastAge(r, x, b) = 0 <=> WritersBelow(r, x, b) = {}
<1> DEFINE W == WritersBelow(r, x, b)
<1>1. W \in SUBSET (1..Occupied(r)) /\ W \in SUBSET (0..Occupied(r))
  BY DEF WritersBelow
<1> HIDE DEF W
<1>2. CASE W = {}
  BY <1>2 DEF LastAge, W
<1>3. CASE W # {}
  <2>1. Youngest(W) \in W /\ \A a \in W : a <= Youngest(W)
    BY <1>1, <1>3, YoungestExists
  <2>2. LastAge(r, x, b) = Youngest(W)
    BY <1>3 DEF LastAge, W
  <2>3. \A a \in W : a \in 1..Youngest(W)
    BY <1>1, <2>1
  <2>4. Youngest(W) \in 1..Occupied(r)
    BY <1>1, <2>1
  <2> QED
    BY <1>3, <2>1, <2>2, <2>3, <2>4 DEF W
<1> QED
  BY <1>2, <1>3

LEMMA LastAgeIs ==
  ASSUME NEW r, NEW x, NEW b, NEW a \in WritersBelow(r, x, b),
         \A c \in WritersBelow(r, x, b) : c <= a
  PROVE  LastAge(r, x, b) = a
<1>1. WritersBelow(r, x, b) \in SUBSET Int
  BY DEF WritersBelow
<1> QED
  BY <1>1, YoungestIs DEF LastAge

\* An edge changes nobody's view: an instruction that stays finds the same last
\* writer as before, RtNum younger, unless that has retired.
LEMMA LastAgeMoves ==
  ASSUME NEW r, NEW q, NEW n \in Nat, NEW dp, NEW heard, Moves(r, q, n, dp, heard),
         Occupied(r) \in Nat, RtNum(r) \in 0..Occupied(r),
         NEW x, NEW b \in (RtNum(r) + 1)..(Occupied(r) + 1)
  PROVE  /\ LastAge(r, x, b) > RtNum(r) =>
              LastAge(q, x, b - RtNum(r)) = LastAge(r, x, b) - RtNum(r)
         /\ LastAge(r, x, b) <= RtNum(r) =>
              /\ LastAge(q, x, b - RtNum(r)) = 0
              /\ LastAge(r, x, RtNum(r) + 1) = LastAge(r, x, b)
<1> DEFINE k == RtNum(r)
           old == WritersBelow(r, x, b)
           gone == WritersBelow(r, x, k + 1)
           new == WritersBelow(q, x, b - k)
           y == LastAge(r, x, b)
<1>1. Occupied(q) = Occupied(r) - k + n /\ Occupied(q) \in Nat
  BY DEF Moves
<1>2. \A a \in 1..(Occupied(r) - k) : Aged(q, a).inst = Aged(r, a + k).inst
  BY DEF Moves
<1>3. \A a \in new : a \in 1..(Occupied(r) - k) /\ a + k \in old
  BY <1>1, <1>2 DEF WritersBelow
<1>4. ASSUME NEW a \in old, a > k PROVE a - k \in new
  <2>1. a - k \in 1..(Occupied(r) - k) /\ (a - k) + k = a /\ a - k < b - k
        /\ a - k \in 1..Occupied(q)
    BY <1>1, <1>4 DEF WritersBelow
  <2> QED
    BY <1>2, <2>1 DEF WritersBelow
<1>5. gone = {a \in old : a <= k}
  BY DEF WritersBelow
<1>6. /\ y \in 0..Occupied(r)
      /\ y # 0 => y \in old
      /\ \A a \in old : a \in 1..y
      /\ y = 0 <=> old = {}
  BY LastAgeFound
<1> HIDE DEF y, new, old, gone
<1>7. CASE y > k
  <2>1. y - k \in new
    BY <1>4, <1>6, <1>7
  <2>2. \A c \in new : c <= y - k
    BY <1>3, <1>6
  <2>3. LastAge(q, x, b - k) = y - k
    BY <2>1, <2>2, LastAgeIs DEF new
  <2> QED
    BY <1>7, <2>3, <1>6 DEF y
<1>8. CASE y <= k
  <2>1. new = {}
    <3> SUFFICES ASSUME NEW a \in new PROVE FALSE
      OBVIOUS
    <3>1. a + k \in 1..y /\ a \in Nat /\ a > 0
      BY <1>3, <1>6
    <3> QED
      BY <1>6, <1>8, <3>1
  <2>2. LastAge(q, x, b - k) = 0
    BY <2>1, <1>1, LastAgeFound DEF new
  <2>3. gone = old
    BY <1>5, <1>6, <1>8
  <2>4. LastAge(r, x, k + 1) = LastAge(r, x, b)
    BY <2>3 DEF LastAge, gone, old
  <2> QED
    BY <1>8, <2>2, <2>4, <1>6 DEF y
<1> QED
  BY <1>6, <1>7, <1>8

\* Hence the tag stays what it was, if retirement commits the tags of the youngest
\* instructions that retire.
LEMMA LastTagMoves ==
  ASSUME NEW r, NEW q, NEW n \in Nat, NEW dp, NEW heard, Moves(r, q, n, dp, heard),
         Occupied(r) \in Nat, RtNum(r) \in 0..Occupied(r),
         NEW x, NEW committed, NEW b \in (RtNum(r) + 1)..(Occupied(r) + 1)
  PROVE  LastTag(q, LastTag(r, committed, x, RtNum(r) + 1), x, b - RtNum(r))
           = LastTag(r, committed, x, b)
<1> DEFINE y == LastAge(r, x, b)
<1>1. y \in 0..Occupied(r)
  BY LastAgeFound
<1>2. /\ y > RtNum(r) => LastAge(q, x, b - RtNum(r)) = y - RtNum(r)
      /\ y <= RtNum(r) => /\ LastAge(q, x, b - RtNum(r)) = 0
                          /\ LastAge(r, x, RtNum(r) + 1) = y
  BY LastAgeMoves
<1> HIDE DEF y
<1>3. CASE y > RtNum(r)
  <2>1. y - RtNum(r) \in 1..(Occupied(r) - RtNum(r)) /\ (y - RtNum(r)) + RtNum(r) = y
        /\ y - RtNum(r) # 0 /\ y # 0
    BY <1>1, <1>3
  <2>2. Aged(q, y - RtNum(r)).inst = Aged(r, y).inst
    BY <2>1 DEF Moves
  <2> QED
    BY <1>2, <1>3, <2>1, <2>2 DEF LastTag, y
<1>4. CASE y <= RtNum(r)
  BY <1>2, <1>4 DEF LastTag, y
<1> QED
  BY <1>1, <1>3, <1>4

\* The channels below j of a dispatched group that write register x.
ChannelsBelow(dp, x, j) == {i \in 0..(j - 1) : x # 0 /\ dp[i].inst.rd = x}

\* A dispatched instruction finds the youngest older channel that writes the
\* register, or else what was in flight before (MT_SS.sv l.45-89).
LEMMA LastAgeDispatched ==
  ASSUME NEW r, NEW q, NEW n \in Nat, NEW dp, NEW heard, Moves(r, q, n, dp, heard),
         Occupied(r) \in Nat, RtNum(r) \in 0..Occupied(r),
         NEW x, NEW j \in 0..n
  PROVE  /\ ChannelsBelow(dp, x, j) = {} =>
               LastAge(q, x, Occupied(r) - RtNum(r) + 1 + j)
                 = LastAge(q, x, Occupied(r) - RtNum(r) + 1)
         /\ ChannelsBelow(dp, x, j) # {} =>
               LastAge(q, x, Occupied(r) - RtNum(r) + 1 + j)
                 = Occupied(r) - RtNum(r) + 1 + Youngest(ChannelsBelow(dp, x, j))
<1> DEFINE kept == Occupied(r) - RtNum(r)
           C == ChannelsBelow(dp, x, j)
           W == WritersBelow(q, x, kept + 1 + j)
<1>1. Occupied(q) = kept + n /\ kept \in Nat
  BY DEF Moves
<1>2. \A c \in 0..(n - 1) : Aged(q, kept + 1 + c).inst = dp[c].inst
  BY DEF Moves
<1>3. ASSUME NEW a \in W, a > kept
      PROVE  a - kept - 1 \in C
  <2>1. a - kept - 1 \in 0..(n - 1) /\ kept + 1 + (a - kept - 1) = a /\ a - kept - 1 < j
    BY <1>1, <1>3 DEF WritersBelow
  <2>2. x # 0 /\ dp[a - kept - 1].inst.rd = x
    BY <1>2, <2>1 DEF WritersBelow
  <2> QED
    BY <2>1, <2>2 DEF ChannelsBelow
<1>4. ASSUME NEW c \in C
      PROVE  kept + 1 + c \in W
  <2>1. c \in 0..(n - 1) /\ kept + 1 + c \in 1..Occupied(q) /\ kept + 1 + c < kept + 1 + j
        /\ dp[c].inst.rd = x /\ x # 0
    BY <1>1 DEF ChannelsBelow
  <2> QED
    BY <1>2, <2>1 DEF WritersBelow
<1>5. CASE C = {}
  <2>1. \A a \in W : a <= kept
    BY <1>1, <1>3, <1>5 DEF WritersBelow
  <2>2. W = WritersBelow(q, x, kept + 1)
    <3>1. \A a \in W : a \in WritersBelow(q, x, kept + 1)
      BY <1>1, <2>1 DEF WritersBelow
    <3>2. \A a \in WritersBelow(q, x, kept + 1) : a \in W
      BY <1>1 DEF WritersBelow
    <3> QED
      BY <3>1, <3>2
  <2> QED
    BY <1>5, <2>2 DEF LastAge
<1>6. CASE C # {}
  <2>1. C \in SUBSET (0..n) /\ C \in SUBSET (0..(j - 1))
    BY DEF ChannelsBelow
  <2> DEFINE y == Youngest(C)
  <2> HIDE DEF C, W
  <2>2. y \in C /\ \A i \in C : i <= y
    BY <1>6, <2>1, YoungestExists
  <2> HIDE DEF y
  <2>3. kept + 1 + y \in W
    BY <1>4, <2>2
  <2>4. ASSUME NEW a \in W PROVE a <= kept + 1 + y
    <3>1. a \in Int
      BY DEF W, WritersBelow
    <3>2. CASE a <= kept
      BY <1>1, <2>1, <2>2, <3>1, <3>2
    <3>3. CASE a > kept
      BY <1>1, <1>3, <2>1, <2>2, <3>1, <3>3
    <3> QED
      BY <1>1, <3>1, <3>2, <3>3
  <2>5. LastAge(q, x, kept + 1 + j) = kept + 1 + y
    BY <2>3, <2>4, LastAgeIs DEF W
  <2> QED
    BY <1>6, <2>5 DEF C, y
<1> QED
  BY <1>5, <1>6

LEMMA LastTagDispatched ==
  ASSUME NEW r, NEW q, NEW n \in Nat, NEW dp, NEW heard, Moves(r, q, n, dp, heard),
         Occupied(r) \in Nat, RtNum(r) \in 0..Occupied(r),
         NEW x, NEW committed, NEW j \in 0..n
  PROVE  LastTag(q, committed, x, Occupied(r) - RtNum(r) + 1 + j) =
            IF ChannelsBelow(dp, x, j) = {}
            THEN LastTag(q, committed, x, Occupied(r) - RtNum(r) + 1)
            ELSE dp[Youngest(ChannelsBelow(dp, x, j))].inst.tag
<1> DEFINE kept == Occupied(r) - RtNum(r)
           C == ChannelsBelow(dp, x, j)
           y == Youngest(C)
<1>1. /\ C = {} => LastAge(q, x, kept + 1 + j) = LastAge(q, x, kept + 1)
      /\ C # {} => LastAge(q, x, kept + 1 + j) = kept + 1 + y
  BY LastAgeDispatched
<1>2. C \in SUBSET (0..n) /\ C \in SUBSET (0..(n - 1))
  BY DEF ChannelsBelow
<1> HIDE DEF C
<1>3. CASE C = {}
  BY <1>1, <1>3 DEF LastTag, C
<1>4. CASE C # {}
  <2>1. y \in C
    BY <1>2, <1>4, YoungestExists
  <2> HIDE DEF y
  <2>2. Aged(q, kept + 1 + y).inst = dp[y].inst /\ kept + 1 + y # 0
    BY <1>2, <2>1 DEF Moves
  <2> QED
    BY <1>1, <1>4, <2>2 DEF LastTag, C, y
<1> QED
  BY <1>3, <1>4

-----------------------------------------------------------------------------
\* The inductive invariant, as conditions on the tables' values: R the reorder
\* buffers, F the free list, A and M the committed and the speculative maps.

Insts == [rd : Regs, tag : Tags, tag_old : Tags]

\* Every reorder buffer is whole.
Rings(R) ==
    /\ R \in [Threads -> ROBOf(Insts, {0})]
    /\ \A t \in Threads : Whole(Insts, {0}, R[t])

\* An instruction has a tag exactly when it writes a register, and no two
\* instructions of a thread have the same.
Named(R) ==
    \A t \in Threads : \A a, b \in 1..Occupied(R[t]) :
        /\ Aged(R[t], a).inst.rd = 0 <=> Aged(R[t], a).inst.tag = 0
        /\ Aged(R[t], a).inst.tag = Aged(R[t], b).inst.tag =>
              a = b \/ Aged(R[t], a).inst.tag = 0

\* The free list and the committed maps share out the tags, each name once.
Shared(F, A) ==
    /\ F \in [FLEntries -> [valid : BOOLEAN, thread_idx : Threads, tag : Tags]]
    /\ A \in [Threads -> [Regs -> Tags]]
    /\ \A t \in Threads : A[t][0] = 0
    /\ \A f \in FLEntries : F[f].tag # 0
    /\ \A f, e \in FLEntries : F[f].tag = F[e].tag => f = e
    /\ \A t \in Threads : \A x \in Regs \ {0} : A[t][x] # 0
    /\ \A s, t \in Threads : \A x, y \in Regs \ {0} :
          A[s][x] = A[t][y] => s = t /\ x = y
    /\ \A f \in FLEntries : \A t \in Threads : \A x \in Regs \ {0} :
          F[f].tag # A[t][x]
    /\ \A v \in Tags \ {0} :
          \/ \E f \in FLEntries : F[f].tag = v
          \/ \E t \in Threads : \E x \in Regs \ {0} : A[t][x] = v

\* The entries in flight are the destinations of the instructions in flight.
Held(R, F) ==
    /\ \A f \in FLEntries : ~F[f].valid =>
          \E a \in 1..Occupied(R[F[f].thread_idx]) :
             Aged(R[F[f].thread_idx], a).inst.tag = F[f].tag
    /\ \A t \in Threads : \A a \in 1..Occupied(R[t]) :
          Aged(R[t], a).inst.tag # 0 =>
             \E f \in FLEntries : /\ ~F[f].valid
                                  /\ F[f].thread_idx = t
                                  /\ F[f].tag = Aged(R[t], a).inst.tag

Counted(F, c) == c = Cardinality({f \in FLEntries : F[f].valid})

\* The map table shows every register as an instruction behind the youngest one
\* would find it ...
Mapped(R, A, M) ==
    /\ M \in [Threads -> [Regs -> [tag : Tags, tag_ready : BOOLEAN]]]
    /\ \A t \in Threads : \A x \in Regs :
          M[t][x].tag = LastTag(R[t], A[t][x], x, Occupied(R[t]) + 1)

\* ... and, in the threads that are not in K, ready when its last writer has
\* completed.
Readied(R, M, K) ==
    \A t \in Threads \ K : \A x \in Regs :
        M[t][x].tag_ready <=>
            LET y == LastAge(R[t], x, Occupied(R[t]) + 1)
            IN  y = 0 \/ Aged(R[t], y).complete

\* What an instruction will free is what it found its register mapped to.
Frees(R, A) ==
    \A t \in Threads : \A a \in 1..Occupied(R[t]) :
        Aged(R[t], a).inst.rd # 0 =>
            Aged(R[t], a).inst.tag_old =
                LastTag(R[t], A[t][Aged(R[t], a).inst.rd], Aged(R[t], a).inst.rd, a)

IInv ==
    /\ Rings(rob) /\ Named(rob)
    /\ Shared(fl, amt) /\ Held(rob, fl) /\ Counted(fl, avail_num)
    /\ Mapped(rob, amt, mt) /\ Readied(rob, mt, struck) /\ Frees(rob, amt)
    /\ strays \subseteq Results /\ struck \subseteq Threads

-----------------------------------------------------------------------------
\* One edge, thread by thread.

\* t dispatches the n instructions of g, in a cycle whose bus completes the entries
\* in hit, those in taken as branches that were taken.
Cycle(t, n, g, hit, taken) ==
    /\ t \in Threads /\ n \in 0..DpLimit(t) /\ g \in Groups(n)
    /\ hit \subseteq Threads \X Entries /\ taken \subseteq hit

Group(t, n, g) == [k \in 0..(n - 1) |-> Renamed(t, g, k)]

Heard(s, hit) == {p[2] : p \in {q \in hit : q[1] = s}}

Cdb(s, hit, taken) ==
    [i \in Heard(s, hit) |-> [br_result |-> <<s, i>> \in taken, br_target |-> 0]]

Taking(s, t, n) == IF s = t THEN n ELSE 0

NextRing(s, t, n, g, hit, taken) ==
    NextROB(rob[s], Taking(s, t, n), Group(t, n, g), Cdb(s, hit, taken))

LEMMA Constants ==
  /\ 0 \in Tags /\ 0 \in Regs /\ 0 \in Threads
  /\ FL_ENTRY_NUM \in Nat /\ IsFiniteSet(FLEntries) /\ FLEntries \in SUBSET Nat
<1>1. THREAD_NUM \in Nat \ {0} /\ ARCH_REG_NUM \in Nat \ {0} /\ PHY_REG_NUM \in Nat
  BY RenameParameters
<1> DEFINE a == ARCH_REG_NUM - 1
<1>2. a \in Nat
  BY <1>1
<1>3. a * THREAD_NUM \in Nat
  BY <1>1, <1>2
<1>4. FL_ENTRY_NUM = PHY_REG_NUM - a * THREAD_NUM - 1 /\ FL_ENTRY_NUM > 0
  BY RenameParameters DEF FL_ENTRY_NUM
<1> HIDE DEF a
<1>5. FL_ENTRY_NUM \in Nat /\ PHY_REG_NUM > 0
  BY <1>1, <1>3, <1>4
<1>6. 0 \in Tags /\ 0 \in Regs /\ 0 \in Threads
  BY <1>1, <1>5 DEF Tags, Regs, Threads
<1>7. IsFiniteSet(FLEntries) /\ FLEntries \in SUBSET Nat
  <2>1. 0 \in Int /\ FL_ENTRY_NUM - 1 \in Int
    BY <1>5
  <2> QED
    BY <2>1, FS_Interval DEF FLEntries
<1> QED
  BY <1>5, <1>6, <1>7

\* The dispatcher takes no more than the free list and the reorder buffer offer,
\* and nothing for a thread that is being flushed (DP_lsq.sv l.309-333).
LEMMA DispatchFits ==
  ASSUME IInv, NEW t \in Threads, NEW n \in 0..DpLimit(t)
  PROVE  /\ n \in Nat /\ n <= Cardinality(FreeEntries)
         /\ n <= DpAvail(rob[t]) /\ 0 <= DpAvail(rob[t])
         /\ n > 0 => ~BrMis(t)
<1>1. avail_num = Cardinality(FreeEntries)
  BY DEF IInv, Counted, FreeEntries
<1>2. Cardinality(FreeEntries) \in Nat
  <2>1. FreeEntries \in SUBSET FLEntries
    BY DEF FreeEntries
  <2> QED
    BY <2>1, Constants, FS_Subset, FS_CardinalityType
<1>3. AvailNum(rob[t]) \in Nat
  <2>1. Whole(Insts, {0}, rob[t])
    BY DEF IInv, Rings
  <2>2. /\ Pointers(rob[t]) /\ Ordered(rob[t]) /\ FillsWindow(rob[t])
        /\ RtNum(rob[t]) \in 0..Occupied(rob[t]) /\ Occupied(rob[t]) \in 0..ROB_ENTRY_NUM
    BY <2>1, AgesNow DEF Whole, Pointers, ROBOf
  <2>3. AvailNum(rob[t]) = ROB_ENTRY_NUM - Occupied(rob[t]) + RtNum(rob[t])
    BY <2>2, RetiresWhatItHolds
  <2> QED
    BY <2>2, <2>3, ROBParameters
<1>4. DP_NUM \in Nat
  BY ROBParameters
<1>5. DpAvail(rob[t]) \in Nat
  BY <1>3, <1>4 DEF DpAvail
<1>6. FlAvail \in Nat /\ FlAvail <= Cardinality(FreeEntries)
  BY <1>1, <1>2, <1>4 DEF FlAvail
<1>7. /\ DpLimit(t) \in Nat /\ DpLimit(t) <= FlAvail /\ DpLimit(t) <= DpAvail(rob[t])
      /\ DpLimit(t) > 0 => ~BrMis(t)
  BY <1>5, <1>6 DEF DpLimit
<1> QED
  BY <1>2, <1>5, <1>6, <1>7

\* Every channel of the group carries an instruction.
LEMMA GroupHasTypes ==
  ASSUME IInv, NEW t \in Threads, NEW n \in 0..DpLimit(t), NEW g \in Groups(n),
         NEW k \in 0..(n - 1)
  PROVE  /\ g[k].rd \in Regs /\ g[k].wfi \in BOOLEAN
         /\ DpTag(g, k) \in Tags
         /\ DpTag(g, k) = 0 <=> g[k].rd = 0
         /\ Renamed(t, g, k).inst \in Insts
<1>1. \A j \in 0..(n - 1) : g[j].rd \in Regs /\ g[j].wfi \in BOOLEAN
  BY RenameParameters DEF Groups
<1>2. Shared(fl, amt) /\ Mapped(rob, amt, mt)
  BY DEF IInv
<1>3. ASSUME NEW j \in 0..(n - 1)
      PROVE  DpTag(g, j) \in Tags /\ (DpTag(g, j) = 0 <=> g[j].rd = 0)
  <2>1. CASE g[j].rd = 0
    BY <2>1, Constants DEF DpTag
  <2>2. CASE g[j].rd # 0
    <3>1. j \in WritingChannels(g, n)
      BY <2>2 DEF WritingChannels
    <3>2. Taken(g, j) \in FLEntries
      BY <3>1, DispatchFits, DispatchTakes
    <3>3. DpTag(g, j) = fl[Taken(g, j)].tag
      BY <2>2 DEF DpTag, Taken
    <3> QED
      BY <1>2, <2>2, <3>2, <3>3 DEF Shared
  <2> QED
    BY <2>1, <2>2
<1>4. MtTag(t, g, k, g[k].rd) \in Tags
  <2> DEFINE W == Writers(g, k, g[k].rd)
  <2>1. W \in SUBSET (0..(k - 1)) /\ W \in SUBSET (0..n)
    BY DEF Writers
  <2> HIDE DEF W
  <2>2. CASE W = {}
    <3>1. mt[t][g[k].rd].tag \in Tags
      BY <1>1, <1>2 DEF Mapped
    <3> QED
      BY <2>2, <3>1 DEF MtTag, W
  <2>3. CASE W # {}
    <3>1. n \in Nat
      BY DispatchFits
    <3>2. Youngest(W) \in W
      BY <2>1, <2>3, <3>1, YoungestExists
    <3>a. Youngest(W) \in 0..(k - 1)
      BY <2>1, <3>2
    <3>b. k \in Int /\ k <= n - 1
      BY <3>1
    <3>3. Youngest(W) \in 0..(n - 1)
      BY <3>1, <3>a, <3>b
    <3> QED
      BY <1>3, <2>3, <3>3 DEF MtTag, W
  <2> QED
    BY <2>2, <2>3
<1> QED
  BY <1>1, <1>3, <1>4 DEF Renamed, Insts

\* Every ring stays whole; one that is flushed is left empty, and in any other the
\* instructions that stay move up and the group stands behind them.
LEMMA ThreadMoves ==
  ASSUME IInv, NEW t, NEW n, NEW g, NEW hit, NEW taken, Cycle(t, n, g, hit, taken),
         NEW s \in Threads
  PROVE  /\ Whole(Insts, {0}, NextRing(s, t, n, g, hit, taken))
         /\ BrMis(s) => Occupied(NextRing(s, t, n, g, hit, taken)) = 0
         /\ ~BrMis(s) => Moves(rob[s], NextRing(s, t, n, g, hit, taken),
                               Taking(s, t, n), Group(t, n, g), Heard(s, hit))
<1> DEFINE m == Taking(s, t, n)
           dp == Group(t, n, g)
           cdb == Cdb(s, hit, taken)
           r == rob[s]
<1>1. /\ t \in Threads /\ n \in 0..DpLimit(t) /\ g \in Groups(n)
  BY DEF Cycle
<1>2. Whole(Insts, {0}, r)
  BY DEF IInv, Rings
<1>3. m \in Nat /\ m <= DpAvail(r)
  <2>1. CASE s = t
    BY <1>1, <2>1, DispatchFits DEF Taking
  <2>2. CASE s # t
    <3>1. 0 \in 0..DpLimit(s) \/ DpLimit(s) \notin Nat
      OBVIOUS
    <3>2. 0 <= DpAvail(rob[s])
      <4>1. Pointers(r) /\ Ordered(r) /\ FillsWindow(r)
        BY <1>2 DEF Whole, Pointers, ROBOf
      <4>2. /\ RtNum(r) \in 0..Occupied(r) /\ Occupied(r) \in 0..ROB_ENTRY_NUM
            /\ AvailNum(r) = ROB_ENTRY_NUM - Occupied(r) + RtNum(r)
        BY <1>2, <4>1, AgesNow, RetiresWhatItHolds
      <4>3. AvailNum(r) \in Nat
        BY <4>2, ROBParameters
      <4> QED
        BY <4>3, ROBParameters DEF DpAvail
    <3> QED
      BY <2>2, <3>2 DEF Taking
  <2> QED
    BY <2>1, <2>2
<1>4. Traffic(Insts, {0}, m, dp, cdb)
  <2>1. ASSUME NEW k \in 0..(m - 1)
        PROVE  /\ dp[k].br_predict \in BOOLEAN /\ dp[k].wfi \in BOOLEAN
               /\ dp[k].inst \in Insts
    <3>1. k \in 0..(n - 1)
      BY <1>3 DEF Taking
    <3>2. dp[k] = Renamed(t, g, k)
      BY <3>1 DEF Group
    <3>3. g[k].wfi \in BOOLEAN /\ Renamed(t, g, k).inst \in Insts
      BY <1>1, <3>1, GroupHasTypes
    <3>4. Renamed(t, g, k).br_predict \in BOOLEAN /\ Renamed(t, g, k).wfi \in BOOLEAN
      BY <3>3 DEF Renamed
    <3> QED
      BY <3>2, <3>3, <3>4
  <2>2. ASSUME NEW i \in DOMAIN cdb
        PROVE  cdb[i].br_result \in BOOLEAN /\ cdb[i].br_target \in {0}
    <3>1. PICK b \in BOOLEAN : b <=> <<s, i>> \in taken
      OBVIOUS
    <3>2. b = (<<s, i>> \in taken)
      BY <3>1
    <3>3. cdb[i] = [br_result |-> b, br_target |-> 0]
      BY <3>2 DEF Cdb
    <3> QED
      BY <3>3
  <2> QED
    BY <2>1, <2>2 DEF Traffic
<1>5. DOMAIN cdb = Heard(s, hit)
  BY DEF Cdb
<1> HIDE DEF m, dp, cdb, r
<1>6. Whole(Insts, {0}, NextROB(r, m, dp, cdb))
  BY <1>2, <1>3, <1>4, EdgeKeepsRingWhole
<1>7. BrMisValid(r) => Occupied(NextROB(r, m, dp, cdb)) = 0
  BY DEF NextROB, NextHeadRollover, Occupied
<1>8. ~BrMisValid(r) => Moves(r, NextROB(r, m, dp, cdb), m, dp, DOMAIN cdb)
  BY <1>2, <1>3, <1>4, AgesAfterEdge
<1> QED
  BY <1>5, <1>6, <1>7, <1>8 DEF NextRing, BrMis, m, dp, cdb, r

\* The retire channels carry the oldest instructions, channel k that of age k+1.
LEMMA RetireChannelsAre ==
  ASSUME Rings(rob), NEW s \in Threads
  PROVE  /\ Occupied(rob[s]) \in Nat /\ RtNum(rob[s]) \in 0..Occupied(rob[s])
         /\ \A k \in RetireChannels(s) : /\ k \in Nat /\ k + 1 \in 1..RtNum(rob[s])
                                         /\ RetiringInst(s, k) = Aged(rob[s], k + 1).inst
         /\ \A a \in 1..RtNum(rob[s]) : /\ a - 1 \in RetireChannels(s)
                                        /\ RetiringInst(s, a - 1) = Aged(rob[s], a).inst
<1> DEFINE r == rob[s]
<1>1. Whole(Insts, {0}, r)
  BY DEF Rings
<1>2. /\ Occupied(r) \in Nat /\ RtNum(r) \in 0..Occupied(r)
      /\ \A a \in 1..RtNum(r) : Aged(r, a) = r.array[r.head + (a - 1)]
  BY <1>1, AgesNow
<1>3. ASSUME NEW a \in 1..RtNum(r)
      PROVE  a - 1 \in RetireChannels(s) /\ RetiringInst(s, a - 1) = Aged(r, a).inst
  <2>1. a - 1 \in 0..(RtNum(r) - 1)
    BY <1>2
  <2> QED
    BY <1>2, <2>1 DEF RetireChannels, RetiringInst
<1>4. ASSUME NEW k \in RetireChannels(s)
      PROVE  /\ k \in Nat /\ k + 1 \in 1..RtNum(r)
             /\ RetiringInst(s, k) = Aged(r, k + 1).inst
  <2>1. k \in Nat /\ k + 1 \in 1..RtNum(r) /\ (k + 1) - 1 = k
    BY <1>2 DEF RetireChannels
  <2> QED
    BY <1>3, <2>1
<1> QED
  BY <1>2, <1>3, <1>4

\* Retirement commits, for every register, what the instruction behind the last
\* one that retires would have found (AMT.sv l.41-62).
LEMMA Commits ==
  ASSUME IInv, NEW s \in Threads, NEW x \in Regs
  PROVE  NextAMT(s)[x] = LastTag(rob[s], amt[s][x], x, RtNum(rob[s]) + 1)
<1> DEFINE r == rob[s]
           C == Committing(s, x)
           W == WritersBelow(r, x, RtNum(r) + 1)
<1>1. /\ Occupied(r) \in Nat /\ RtNum(r) \in 0..Occupied(r)
      /\ \A k \in RetireChannels(s) : /\ k \in Nat /\ k + 1 \in 1..RtNum(r)
                                      /\ RetiringInst(s, k) = Aged(r, k + 1).inst
      /\ \A a \in 1..RtNum(r) : /\ a - 1 \in RetireChannels(s)
                                /\ RetiringInst(s, a - 1) = Aged(r, a).inst
  BY RetireChannelsAre DEF IInv
<1>2. C \in SUBSET (0..Occupied(r)) /\ C \in SUBSET Int
  BY <1>1 DEF Committing
<1>3. NextAMT(s)[x] = IF C = {} THEN amt[s][x] ELSE RetiringInst(s, Youngest(C)).tag
  BY DEF NextAMT
<1>4. C # {} => Youngest(C) \in C /\ \A i \in C : i <= Youngest(C)
  <2> HIDE DEF C
  <2> QED
    BY <1>1, <1>2, YoungestExists
<1>5. CASE x = 0
  <2>1. LastTag(r, amt[s][x], x, RtNum(r) + 1) = 0
    <3>1. WritersBelow(r, x, RtNum(r) + 1) = {}
      BY <1>5 DEF WritersBelow
    <3>2. amt[s][x] = 0
      BY <1>5 DEF IInv, Shared
    <3> QED
      BY <3>1, <3>2 DEF LastTag, LastAge
  <2>2. C = {} => amt[s][x] = 0
    BY <1>5 DEF IInv, Shared
  <2>3. C # {} => RetiringInst(s, Youngest(C)).tag = 0
    <3> SUFFICES ASSUME C # {} PROVE RetiringInst(s, Youngest(C)).tag = 0
      OBVIOUS
    <3>1. PICK k : k = Youngest(C)
      OBVIOUS
    <3>2. k \in RetireChannels(s) /\ RetiringInst(s, k).rd = 0
      BY <1>4, <1>5, <3>1 DEF Committing
    <3>3. k + 1 \in 1..Occupied(r) /\ Aged(r, k + 1).inst.rd = 0
          /\ RetiringInst(s, k) = Aged(r, k + 1).inst
      BY <1>1, <3>2
    <3>4. Aged(r, k + 1).inst.tag = 0
      BY <3>3 DEF IInv, Named
    <3> QED
      BY <3>1, <3>3, <3>4
  <2> QED
    BY <1>3, <2>1, <2>2, <2>3
<1>6. CASE x # 0
  <2>1. ASSUME NEW k \in C PROVE k + 1 \in W
    BY <1>1, <1>6 DEF Committing, WritersBelow
  <2>2. ASSUME NEW a \in W PROVE a - 1 \in C
    BY <1>1 DEF Committing, WritersBelow
  <2>3. CASE C = {}
    <3>1. W = {}
      BY <2>2, <2>3
    <3> QED
      BY <1>3, <2>3, <3>1 DEF LastTag, LastAge
  <2>4. CASE C # {}
    <3>1. PICK y : y = Youngest(C)
      OBVIOUS
    <3>2. y \in C /\ \A i \in C : i <= y
      BY <1>4, <2>4, <3>1
    <3>3. y + 1 \in W
      BY <2>1, <3>2
    <3>4. \A a \in W : a <= y + 1
      <4> SUFFICES ASSUME NEW a \in W PROVE a <= y + 1
        OBVIOUS
      <4>1. a - 1 <= y /\ a \in Int /\ y \in Int
        BY <1>2, <2>2, <3>2 DEF WritersBelow
      <4> QED
        BY <4>1
    <3>5. LastAge(r, x, RtNum(r) + 1) = y + 1
      BY <3>3, <3>4, LastAgeIs
    <3>6. y + 1 # 0 /\ RetiringInst(s, y) = Aged(r, y + 1).inst
      BY <1>1, <3>2 DEF Committing
    <3> QED
      BY <1>3, <2>4, <3>1, <3>5, <3>6 DEF LastTag
  <2> QED
    BY <2>3, <2>4
<1> QED
  BY <1>5, <1>6

-----------------------------------------------------------------------------
\* What one edge does to the free list.

\* The retirement of the instruction of age a frees entry f.
Freed(f, a) ==
    /\ ~fl[f].valid
    /\ a \in 1..RtNum(rob[fl[f].thread_idx])
    /\ Aged(rob[fl[f].thread_idx], a).inst.tag = fl[f].tag

\* The instruction of age b is the last writer of the register of that of age a
\* among those that are older.
LastWriterBefore(r, b, a) ==
    /\ b \in 1..(a - 1)
    /\ Aged(r, b).inst.rd = Aged(r, a).inst.rd
    /\ \A c \in (b + 1)..(a - 1) : Aged(r, c).inst.rd # Aged(r, a).inst.rd

\* No older instruction writes the register of that of age a.
NoWriterBefore(r, a) ==
    \A b \in 1..(a - 1) : Aged(r, b).inst.rd # Aged(r, a).inst.rd

\* Of those younger than age a that retire, that of age c is the first to write x.
FirstWriterAfter(r, c, a, x) ==
    /\ c \in (a + 1)..RtNum(r)
    /\ Aged(r, c).inst.rd = x
    /\ \A b \in (a + 1)..(c - 1) : Aged(r, b).inst.rd # x

\* An entry is taken, is freed with the tag that its instruction replaced, comes
\* back from a flush, or stays (FL_smt.sv l.99-172).
LEMMA EntryMoves ==
  ASSUME IInv, NEW t \in Threads, NEW n, NEW g, NEW f \in FLEntries
  PROVE  LET e == NextFL(t, n, g)[f]
             s == fl[f].thread_idx
         IN
         /\ fl[f].valid => /\ e.valid <=> f \notin FlDpSel(n, g)
                           /\ f \in FlDpSel(n, g) => e.thread_idx = t
                           /\ e.thread_idx \in Threads
                           /\ e.tag = fl[f].tag
         /\ \A a : Freed(f, a) =>
               /\ e.valid /\ e.thread_idx = 0
               /\ e.tag = Aged(rob[s], a).inst.tag_old
         /\ ~fl[f].valid /\ ~(\E a : Freed(f, a)) =>
               /\ e.valid <=> BrMis(s)
               /\ e.thread_idx = s
               /\ e.tag = fl[f].tag
<1> DEFINE e == NextFL(t, n, g)[f]
           s == fl[f].thread_idx
           old == fl[f]
<1>1. old \in [valid : BOOLEAN, thread_idx : Threads, tag : Tags]
  BY DEF IInv, Shared
<1>2. s \in Threads /\ old.tag # 0
  BY <1>1 DEF IInv, Shared
<1>3. e = IF old.valid THEN
            IF f \in FlDpSel(n, g) THEN [old EXCEPT !.valid = FALSE, !.thread_idx = t]
            ELSE old
          ELSE IF Matching(f) # {} THEN
            [valid |-> TRUE, thread_idx |-> 0,
             tag |-> RetiringInst(s, Youngest(Matching(f))).tag_old]
          ELSE IF BrMis(s) THEN [old EXCEPT !.valid = TRUE]
          ELSE old
  BY DEF NextFL
<1>4. /\ Occupied(rob[s]) \in Nat /\ RtNum(rob[s]) \in 0..Occupied(rob[s])
      /\ \A k \in RetireChannels(s) : /\ k \in Nat /\ k + 1 \in 1..RtNum(rob[s])
                                      /\ RetiringInst(s, k) = Aged(rob[s], k + 1).inst
      /\ \A a \in 1..RtNum(rob[s]) : /\ a - 1 \in RetireChannels(s)
                                     /\ RetiringInst(s, a - 1) = Aged(rob[s], a).inst
  BY <1>2, RetireChannelsAre DEF IInv
<1> HIDE DEF e, old
<1>5. CASE old.valid
  <2>1. ~(\E a : Freed(f, a))
    BY <1>5 DEF Freed, old
  <2>2. CASE f \in FlDpSel(n, g)
    <3>1. e = [old EXCEPT !.valid = FALSE, !.thread_idx = t]
      BY <1>3, <1>5, <2>2
    <3>2. e.valid = FALSE /\ e.thread_idx = t /\ e.tag = old.tag
      BY <1>1, <3>1
    <3> QED
      BY <1>5, <2>1, <2>2, <3>2 DEF e, old
  <2>3. CASE f \notin FlDpSel(n, g)
    BY <1>1, <1>2, <1>3, <1>5, <2>1, <2>3 DEF e, old
  <2> QED
    BY <2>2, <2>3
<1>6. CASE ~old.valid
  <2>1. ASSUME NEW a, Freed(f, a)
        PROVE  /\ a - 1 \in Matching(f)
               /\ Matching(f) = {a - 1}
    <3>1. /\ a \in 1..RtNum(rob[s]) /\ Aged(rob[s], a).inst.tag = old.tag
      BY <2>1 DEF Freed, old
    <3>2. a - 1 \in RetireChannels(s) /\ RetiringInst(s, a - 1).tag = old.tag
      BY <1>4, <3>1
    <3>3. a - 1 \in Matching(f)
      BY <3>2 DEF Matching, old
    <3>4. ASSUME NEW k \in Matching(f) PROVE k = a - 1
      <4>1. k \in RetireChannels(s) /\ RetiringInst(s, k).tag = old.tag
        BY DEF Matching, old
      <4>2. k + 1 \in 1..Occupied(rob[s]) /\ Aged(rob[s], k + 1).inst.tag = old.tag
            /\ a \in 1..Occupied(rob[s]) /\ k \in Nat
        BY <1>4, <3>1, <4>1
      <4>3. k + 1 = a
        BY <1>2, <3>1, <4>2 DEF IInv, Named
      <4> QED
        BY <4>2, <4>3
    <3> QED
      BY <3>3, <3>4
  <2>2. ASSUME Matching(f) # {} PROVE \E a : Freed(f, a)
    <3>1. PICK k \in Matching(f) : TRUE
      BY <2>2
    <3>2. k \in RetireChannels(s) /\ RetiringInst(s, k).tag = old.tag
      BY <3>1 DEF Matching, old
    <3>3. Freed(f, k + 1)
      BY <1>4, <1>6, <3>2 DEF Freed, old
    <3> QED
      BY <3>3
  <2>3. ASSUME NEW a, Freed(f, a)
        PROVE  e.valid /\ e.thread_idx = 0 /\ e.tag = Aged(rob[s], a).inst.tag_old
    <3>1. Matching(f) = {a - 1} /\ a \in 1..RtNum(rob[s])
      BY <2>1, <2>3 DEF Freed
    <3>2. Youngest(Matching(f)) = a - 1
      <4>1. Matching(f) \in SUBSET Int /\ a - 1 \in Matching(f)
            /\ \A i \in Matching(f) : i <= a - 1
        BY <1>4, <3>1
      <4> QED
        BY <4>1, YoungestIs
    <3>3. e = [valid |-> TRUE, thread_idx |-> 0,
               tag |-> RetiringInst(s, a - 1).tag_old]
      BY <1>3, <1>6, <3>1, <3>2
    <3>4. RetiringInst(s, a - 1) = Aged(rob[s], a).inst
      BY <1>4, <3>1
    <3> QED
      BY <3>3, <3>4
  <2>4. ASSUME ~(\E a : Freed(f, a))
        PROVE  /\ e.valid <=> BrMis(s)
               /\ e.thread_idx = s /\ e.tag = old.tag
    <3>1. Matching(f) = {}
      BY <2>2, <2>4
    <3>2. CASE BrMis(s)
      <4>1. e = [old EXCEPT !.valid = TRUE]
        BY <1>3, <1>6, <3>1, <3>2
      <4>2. e.valid = TRUE /\ e.thread_idx = old.thread_idx /\ e.tag = old.tag
        BY <1>1, <4>1
      <4> QED
        BY <3>2, <4>2 DEF old
    <3>3. CASE ~BrMis(s)
      BY <1>3, <1>6, <3>1, <3>3 DEF old
    <3> QED
      BY <3>2, <3>3
  <2> QED
    BY <1>6, <2>3, <2>4 DEF e, old
<1> QED
  BY <1>5, <1>6

\* Every retiring instruction with a destination frees an entry of its thread.
LEMMA RetirementFrees ==
  ASSUME IInv, NEW s \in Threads, NEW a \in 1..RtNum(rob[s]),
         Aged(rob[s], a).inst.rd # 0
  PROVE  \E f \in FLEntries : /\ Freed(f, a) /\ fl[f].thread_idx = s
                              /\ fl[f].tag = Aged(rob[s], a).inst.tag
<1>1. a \in 1..Occupied(rob[s])
  BY RetireChannelsAre DEF IInv
<1>2. Aged(rob[s], a).inst.tag # 0
  BY <1>1 DEF IInv, Named
<1>3. PICK f \in FLEntries : /\ ~fl[f].valid /\ fl[f].thread_idx = s
                             /\ fl[f].tag = Aged(rob[s], a).inst.tag
  BY <1>1, <1>2 DEF IInv, Held
<1> QED
  BY <1>3 DEF Freed

\* What a freed entry receives is the committed tag, if its instruction is the
\* oldest writer of its register, and else the tag of the writer before it, which
\* retires in the same cycle.
LEMMA WhatIsFreed ==
  ASSUME IInv, NEW f \in FLEntries, NEW a, Freed(f, a)
  PROVE  LET s == fl[f].thread_idx
             i == Aged(rob[s], a).inst
         IN
         /\ s \in Threads /\ i.rd \in Regs \ {0} /\ i.tag = fl[f].tag
         /\ \/ i.tag_old = amt[s][i.rd] /\ NoWriterBefore(rob[s], a)
            \/ \E b \in 1..RtNum(rob[s]) :
                  i.tag_old = Aged(rob[s], b).inst.tag /\ LastWriterBefore(rob[s], b, a)
<1> DEFINE s == fl[f].thread_idx
           r == rob[s]
           i == Aged(r, a).inst
           y == LastAge(r, i.rd, a)
<1>1. s \in Threads
  BY DEF IInv, Shared
<1>2. /\ a \in 1..RtNum(r) /\ i.tag = fl[f].tag
      /\ Occupied(r) \in Nat /\ RtNum(r) \in 0..Occupied(r)
  BY <1>1, RetireChannelsAre DEF IInv, Freed
<1>3. a \in 1..Occupied(r) /\ i.tag # 0
  BY <1>2 DEF IInv, Shared
<1>4. i.rd # 0
  BY <1>1, <1>3 DEF IInv, Named
<1>5. i.rd \in Regs
  <2>1. Aged(r, a) \in EntryOf(Insts, {0})
    BY <1>1, <1>3, AgesNow DEF IInv, Rings
  <2>2. i \in Insts \cup {NoInst}
    BY <2>1 DEF EntryOf
  <2>3. NoInst \in Insts
    BY RenameParameters, Constants DEF NoRename, Insts
  <2> QED
    BY <2>2, <2>3 DEF Insts
<1>6. i.tag_old = LastTag(r, amt[s][i.rd], i.rd, a)
  BY <1>1, <1>3, <1>4 DEF IInv, Frees
<1>7. /\ y \in 0..Occupied(r)
      /\ y # 0 => y \in WritersBelow(r, i.rd, a)
      /\ \A b \in WritersBelow(r, i.rd, a) : b \in 1..y
  BY <1>2, LastAgeFound
<1>8. \A b \in 1..(a - 1) : Aged(r, b).inst.rd = i.rd => b <= y
  <2> SUFFICES ASSUME NEW b \in 1..(a - 1), Aged(r, b).inst.rd = i.rd PROVE b <= y
    OBVIOUS
  <2>1. b \in 1..Occupied(r) /\ b < a
    BY <1>2, <1>3
  <2>2. b \in WritersBelow(r, i.rd, a)
    <3> HIDE DEF y, i, s, r
    <3> QED
      BY <1>4, <2>1 DEF WritersBelow
  <2>3. b \in 1..y /\ y \in 0..Occupied(r)
    <3> HIDE DEF y, i, s, r
    <3> QED
      BY <1>7, <2>2
  <2> QED
    BY <1>2, <2>3
<1> HIDE DEF y, i, s, r
<1>9. CASE y = 0
  <2>1. i.tag_old = amt[s][i.rd]
    BY <1>6, <1>9 DEF LastTag, y
  <2>2. \A b \in 1..(a - 1) : Aged(r, b).inst.rd # i.rd
    BY <1>8, <1>9
  <2>3. NoWriterBefore(r, a)
    BY <2>2 DEF NoWriterBefore, i
  <2> QED
    BY <1>1, <1>2, <1>4, <1>5, <2>1, <2>3 DEF s, i, r
<1>10. CASE y # 0
  <2>1. i.tag_old = Aged(r, y).inst.tag
    BY <1>6, <1>10 DEF LastTag, y
  <2>2. y \in 1..(a - 1) /\ Aged(r, y).inst.rd = i.rd /\ y \in 1..RtNum(r)
    BY <1>2, <1>7, <1>10 DEF WritersBelow
  <2>3. \A c \in (y + 1)..(a - 1) : Aged(r, c).inst.rd # i.rd
    BY <1>2, <1>8, <2>2
  <2>4. LastWriterBefore(r, y, a)
    BY <2>2, <2>3 DEF LastWriterBefore, i
  <2> QED
    BY <1>1, <1>2, <1>4, <1>5, <2>1, <2>2, <2>4 DEF s, i, r
<1> QED
  BY <1>9, <1>10

\* A register is committed to its youngest writer that retires, if there is one.
LEMMA WhatIsCommitted ==
  ASSUME IInv, NEW s \in Threads, NEW x \in Regs \ {0}
  PROVE  \/ /\ NextAMT(s)[x] = amt[s][x]
            /\ \A a \in 1..RtNum(rob[s]) : Aged(rob[s], a).inst.rd # x
         \/ \E a \in 1..RtNum(rob[s]) :
               /\ Aged(rob[s], a).inst.rd = x
               /\ NextAMT(s)[x] = Aged(rob[s], a).inst.tag
               /\ \A c \in (a + 1)..RtNum(rob[s]) : Aged(rob[s], c).inst.rd # x
<1> DEFINE r == rob[s]
           k == RtNum(r)
           y == LastAge(r, x, k + 1)
<1>1. Occupied(r) \in Nat /\ k \in 0..Occupied(r)
  BY RetireChannelsAre DEF IInv
<1>2. NextAMT(s)[x] = LastTag(r, amt[s][x], x, k + 1)
  BY Commits
<1>3. /\ y \in 0..Occupied(r)
      /\ y # 0 => y \in WritersBelow(r, x, k + 1)
      /\ \A b \in WritersBelow(r, x, k + 1) : b \in 1..y
  BY <1>1, LastAgeFound
<1>4. \A b \in 1..k : Aged(r, b).inst.rd = x => b <= y
  <2> SUFFICES ASSUME NEW b \in 1..k, Aged(r, b).inst.rd = x PROVE b <= y
    OBVIOUS
  <2>1. b \in WritersBelow(r, x, k + 1)
    BY <1>1 DEF WritersBelow
  <2> QED
    BY <1>3, <2>1
<1> HIDE DEF y, r, k
<1>5. CASE y = 0
  <2>1. NextAMT(s)[x] = amt[s][x]
    BY <1>2, <1>5 DEF LastTag, y
  <2>2. \A a \in 1..k : Aged(r, a).inst.rd # x
    BY <1>4, <1>5
  <2> QED
    BY <2>1, <2>2 DEF r, k
<1>6. CASE y # 0
  <2>1. NextAMT(s)[x] = Aged(r, y).inst.tag
    BY <1>2, <1>6 DEF LastTag, y
  <2>2. y \in 1..k /\ Aged(r, y).inst.rd = x
    BY <1>1, <1>3, <1>6 DEF WritersBelow
  <2>3. \A c \in (y + 1)..k : Aged(r, c).inst.rd # x
    BY <1>1, <1>4, <2>2
  <2> QED
    BY <2>1, <2>2, <2>3 DEF r, k
<1> QED
  BY <1>5, <1>6

\* No tag has two places.
LEMMA TagsApart ==
  ASSUME IInv
  PROVE  /\ \A f, e \in FLEntries : fl[f].tag = fl[e].tag => f = e
         /\ \A s, t \in Threads : \A x, y \in Regs \ {0} :
               amt[s][x] = amt[t][y] => s = t /\ x = y
         /\ \A f \in FLEntries : \A t \in Threads : \A x \in Regs \ {0} :
               fl[f].tag # amt[t][x]
         /\ \A f \in FLEntries : fl[f].tag \in Tags \ {0} /\ fl[f].thread_idx \in Threads
         /\ \A t \in Threads : \A x \in Regs \ {0} : amt[t][x] \in Tags \ {0}
  BY DEF IInv, Shared

\* An entry is freed by one instruction.
LEMMA FreedOnce ==
  ASSUME IInv, NEW f \in FLEntries, NEW a, NEW b, Freed(f, a), Freed(f, b)
  PROVE  a = b
<1> DEFINE s == fl[f].thread_idx
<1>1. s \in Threads /\ fl[f].tag # 0
  BY DEF IInv, Shared
<1>2. RtNum(rob[s]) \in 0..Occupied(rob[s]) /\ Occupied(rob[s]) \in Nat
  BY <1>1, RetireChannelsAre DEF IInv
<1>3. /\ a \in 1..Occupied(rob[s]) /\ b \in 1..Occupied(rob[s])
      /\ Aged(rob[s], a).inst.tag = fl[f].tag /\ Aged(rob[s], b).inst.tag = fl[f].tag
  BY <1>2 DEF Freed
<1> QED
  BY <1>1, <1>3 DEF IInv, Named

\* The tag that a retiring instruction gives back for its own is in the free list
\* only as the destination of an older instruction that retires with it: the last
\* older writer of the register.
LEMMA GivenBackFromList ==
  ASSUME IInv, NEW f \in FLEntries, NEW a, Freed(f, a), NEW e \in FLEntries,
         Aged(rob[fl[f].thread_idx], a).inst.tag_old = fl[e].tag
  PROVE  \E b : /\ Freed(e, b) /\ fl[e].thread_idx = fl[f].thread_idx
               /\ LastWriterBefore(rob[fl[f].thread_idx], b, a)
<1> DEFINE s == fl[f].thread_idx
           i == Aged(rob[s], a).inst
<1>1. /\ s \in Threads /\ i.rd \in Regs \ {0}
      /\ \/ i.tag_old = amt[s][i.rd]
         \/ \E b \in 1..RtNum(rob[s]) :
               i.tag_old = Aged(rob[s], b).inst.tag /\ LastWriterBefore(rob[s], b, a)
  BY WhatIsFreed
<1>2. i.tag_old = fl[e].tag
  OBVIOUS
<1>3. i.rd = Aged(rob[s], a).inst.rd
  OBVIOUS
<1> HIDE DEF i, s
<1>4. fl[e].tag # amt[s][i.rd]
  BY <1>1, TagsApart
<1>5. PICK b \in 1..RtNum(rob[s]) :
         i.tag_old = Aged(rob[s], b).inst.tag /\ LastWriterBefore(rob[s], b, a)
  BY <1>1, <1>2, <1>4
<1>6. Aged(rob[s], b).inst.rd # 0
  BY <1>1, <1>3, <1>5 DEF LastWriterBefore
<1>7. PICK d \in FLEntries : /\ Freed(d, b) /\ fl[d].thread_idx = s
                             /\ fl[d].tag = Aged(rob[s], b).inst.tag
  BY <1>1, <1>6, RetirementFrees
<1>8. d = e
  <2>1. fl[d].tag = fl[e].tag
    BY <1>2, <1>5, <1>7
  <2> QED
    BY <2>1, TagsApart
<1> QED
  BY <1>5, <1>7, <1>8 DEF s

\* It is a committed tag only when it is the one of that very register, and no
\* older instruction writes the register.
LEMMA GivenBackFromMap ==
  ASSUME IInv, NEW f \in FLEntries, NEW a, Freed(f, a),
         NEW u \in Threads, NEW x \in Regs \ {0},
         Aged(rob[fl[f].thread_idx], a).inst.tag_old = amt[u][x]
  PROVE  /\ u = fl[f].thread_idx
         /\ x = Aged(rob[u], a).inst.rd
         /\ NoWriterBefore(rob[u], a)
<1> DEFINE s == fl[f].thread_idx
           i == Aged(rob[s], a).inst
<1>1. /\ s \in Threads /\ i.rd \in Regs \ {0}
      /\ \/ i.tag_old = amt[s][i.rd] /\ NoWriterBefore(rob[s], a)
         \/ \E b \in 1..RtNum(rob[s]) :
               i.tag_old = Aged(rob[s], b).inst.tag /\ LastWriterBefore(rob[s], b, a)
  BY WhatIsFreed
<1>2. i.tag_old = amt[u][x] /\ i.rd = Aged(rob[s], a).inst.rd
  OBVIOUS
<1> HIDE DEF i, s
<1>3. CASE i.tag_old = amt[s][i.rd] /\ NoWriterBefore(rob[s], a)
  <2>1. amt[s][i.rd] = amt[u][x] /\ s \in Threads /\ i.rd \in Regs \ {0}
    BY <1>1, <1>2, <1>3
  <2>2. u = s /\ x = i.rd
    BY <2>1, TagsApart
  <2> QED
    BY <1>2, <1>3, <2>2 DEF s
<1>4. ASSUME NEW b \in 1..RtNum(rob[s]), LastWriterBefore(rob[s], b, a),
             i.tag_old = Aged(rob[s], b).inst.tag
      PROVE  FALSE
  <2>1. Aged(rob[s], b).inst.rd # 0
    BY <1>1, <1>2, <1>4 DEF LastWriterBefore
  <2>2. PICK d \in FLEntries : fl[d].tag = Aged(rob[s], b).inst.tag
    BY <1>1, <2>1, RetirementFrees
  <2>3. fl[d].tag = amt[u][x]
    BY <1>2, <1>4, <2>2
  <2>4. fl[d].tag # amt[u][x]
    BY TagsApart
  <2> QED
    BY <2>3, <2>4
<1> QED
  BY <1>1, <1>3, <1>4

\* What retirement commits is the old committed tag, or one of a freed entry.
LEMMA CommittedFromList ==
  ASSUME IInv, NEW s \in Threads, NEW x \in Regs \ {0}
  PROVE  \/ /\ NextAMT(s)[x] = amt[s][x]
            /\ \A a \in 1..RtNum(rob[s]) : Aged(rob[s], a).inst.rd # x
         \/ \E d \in FLEntries : \E a \in 1..RtNum(rob[s]) :
               /\ Freed(d, a) /\ fl[d].thread_idx = s
               /\ NextAMT(s)[x] = fl[d].tag
               /\ Aged(rob[s], a).inst.rd = x
               /\ \A c \in (a + 1)..RtNum(rob[s]) : Aged(rob[s], c).inst.rd # x
<1>1. CASE \E a \in 1..RtNum(rob[s]) :
               /\ Aged(rob[s], a).inst.rd = x
               /\ NextAMT(s)[x] = Aged(rob[s], a).inst.tag
               /\ \A c \in (a + 1)..RtNum(rob[s]) : Aged(rob[s], c).inst.rd # x
  <2>1. PICK a \in 1..RtNum(rob[s]) :
               /\ Aged(rob[s], a).inst.rd = x
               /\ NextAMT(s)[x] = Aged(rob[s], a).inst.tag
               /\ \A c \in (a + 1)..RtNum(rob[s]) : Aged(rob[s], c).inst.rd # x
    BY <1>1
  <2>2. PICK d \in FLEntries : /\ Freed(d, a) /\ fl[d].thread_idx = s
                               /\ fl[d].tag = Aged(rob[s], a).inst.tag
    BY <2>1, RetirementFrees
  <2> QED
    BY <2>1, <2>2
<1> QED
  BY <1>1, WhatIsCommitted

\* Both tables keep their types.
LEMMA TablesKeepTypes ==
  ASSUME IInv, NEW t \in Threads, NEW n, NEW g
  PROVE  /\ NextFL(t, n, g) \in
              [FLEntries -> [valid : BOOLEAN, thread_idx : Threads, tag : Tags]]
         /\ [s \in Threads |-> NextAMT(s)] \in [Threads -> [Regs -> Tags]]
<1>1. ASSUME NEW f \in FLEntries
      PROVE  NextFL(t, n, g)[f] \in [valid : BOOLEAN, thread_idx : Threads, tag : Tags]
  <2> DEFINE old == fl[f]
             s == old.thread_idx
             e == NextFL(t, n, g)[f]
  <2>1. old \in [valid : BOOLEAN, thread_idx : Threads, tag : Tags] /\ s \in Threads
    BY DEF IInv, Shared
  <2>2. e = IF old.valid THEN
              IF f \in FlDpSel(n, g) THEN [old EXCEPT !.valid = FALSE, !.thread_idx = t]
              ELSE old
            ELSE IF Matching(f) # {} THEN
              [valid |-> TRUE, thread_idx |-> 0,
               tag |-> RetiringInst(s, Youngest(Matching(f))).tag_old]
            ELSE IF BrMis(s) THEN [old EXCEPT !.valid = TRUE]
            ELSE old
    BY DEF NextFL
  <2>3. CASE \E a : Freed(f, a)
    <3>1. PICK a : Freed(f, a)
      BY <2>3
    <3>2. e.tag = Aged(rob[s], a).inst.tag_old
      BY <3>1, EntryMoves
    <3>3. Aged(rob[s], a).inst.tag_old \in Tags
      <4>1. a \in 1..Occupied(rob[s])
        BY <2>1, <3>1, RetireChannelsAre DEF IInv, Freed
      <4>2. Aged(rob[s], a) \in EntryOf(Insts, {0})
        BY <2>1, <4>1, AgesNow DEF IInv, Rings
      <4>3. Aged(rob[s], a).inst \in Insts \cup {NoInst}
        BY <4>2 DEF EntryOf
      <4>4. NoInst \in Insts
        BY RenameParameters, Constants DEF NoRename, Insts
      <4> QED
        BY <4>3, <4>4 DEF Insts
    <3>4. ~old.valid
      BY <3>1 DEF Freed
    <3> DEFINE o == RetiringInst(s, Youngest(Matching(f))).tag_old
    <3>5. \/ e = [valid |-> TRUE, thread_idx |-> 0, tag |-> o]
          \/ e = [old EXCEPT !.valid = TRUE]
          \/ e = old
      BY <2>2, <3>4
    <3> HIDE DEF o, e, old
    <3>6. CASE e = [valid |-> TRUE, thread_idx |-> 0, tag |-> o]
      <4>1. o \in Tags
        BY <3>2, <3>3, <3>6 DEF s
      <4> QED
        BY <3>6, <4>1, Constants DEF e
    <3> QED
      BY <2>1, <3>5, <3>6 DEF e
  <2>4. CASE ~\E a : Freed(f, a)
    <3>1. e.tag = old.tag
      BY <2>1, <2>4, EntryMoves
    <3> DEFINE o == RetiringInst(s, Youngest(Matching(f))).tag_old
    <3>2. \/ e = [valid |-> TRUE, thread_idx |-> 0, tag |-> o]
          \/ e = [old EXCEPT !.valid = TRUE]
          \/ e = [old EXCEPT !.valid = FALSE, !.thread_idx = t]
          \/ e = old
      BY <2>2
    <3> HIDE DEF o, e, old
    <3>3. CASE e = [valid |-> TRUE, thread_idx |-> 0, tag |-> o]
      BY <2>1, <3>1, <3>3, Constants DEF e
    <3> QED
      BY <2>1, <3>2, <3>3 DEF e
  <2> QED
    BY <2>3, <2>4
<1>2. ASSUME NEW s \in Threads, NEW x \in Regs
      PROVE  NextAMT(s)[x] \in Tags
  <2>1. CASE x = 0
    <3>1. NextAMT(s)[x] = LastTag(rob[s], amt[s][x], x, RtNum(rob[s]) + 1)
      BY Commits
    <3>2. WritersBelow(rob[s], x, RtNum(rob[s]) + 1) = {}
      BY <2>1 DEF WritersBelow
    <3>3. NextAMT(s)[x] = amt[s][x]
      BY <3>1, <3>2 DEF LastTag, LastAge
    <3> QED
      BY <3>3 DEF IInv, Shared
  <2>2. CASE x # 0
    <3>1. \/ NextAMT(s)[x] = amt[s][x]
          \/ \E d \in FLEntries : NextAMT(s)[x] = fl[d].tag
      BY <2>2, CommittedFromList
    <3> QED
      BY <3>1 DEF IInv, Shared
  <2> QED
    BY <2>1, <2>2
<1>3. \A s \in Threads : NextAMT(s) = [x \in Regs |-> NextAMT(s)[x]]
  BY DEF NextAMT
<1>4. NextFL(t, n, g) = [f \in FLEntries |-> NextFL(t, n, g)[f]]
  BY DEF NextFL
<1>5. \A s \in Threads : NextAMT(s) \in [Regs -> Tags]
  BY <1>2, <1>3
<1>6. NextFL(t, n, g) \in
              [FLEntries -> [valid : BOOLEAN, thread_idx : Threads, tag : Tags]]
  BY <1>1, <1>4
<1> QED
  BY <1>5, <1>6

\* An entry that no retirement frees keeps its tag, and a freed one receives
\* what its instruction replaced.
LEMMA TagAfterEdge ==
  ASSUME IInv, NEW t \in Threads, NEW n, NEW g, NEW f \in FLEntries
  PROVE  /\ ~(\E a : Freed(f, a)) => NextFL(t, n, g)[f].tag = fl[f].tag
         /\ \A a : Freed(f, a) =>
               NextFL(t, n, g)[f].tag = Aged(rob[fl[f].thread_idx], a).inst.tag_old
<1>1. fl[f].valid \/ ~fl[f].valid
  OBVIOUS
<1> QED
  BY <1>1, EntryMoves

\* No tag is given back twice.
LEMMA GivenBackOnce ==
  ASSUME IInv, NEW f \in FLEntries, NEW a, Freed(f, a),
         NEW e \in FLEntries, NEW b, Freed(e, b),
         Aged(rob[fl[f].thread_idx], a).inst.tag_old
           = Aged(rob[fl[e].thread_idx], b).inst.tag_old
  PROVE  f = e
<1> DEFINE s == fl[f].thread_idx
           u == fl[e].thread_idx
           old(c) == Aged(rob[s], c).inst.tag_old
           rd(c) == Aged(rob[s], c).inst.rd
<1>1. s \in Threads /\ u \in Threads
  BY TagsApart
<1>2. /\ rd(a) \in Regs \ {0} /\ Aged(rob[s], a).inst.tag = fl[f].tag
      /\ \/ old(a) = amt[s][rd(a)]
         \/ \E c \in 1..RtNum(rob[s]) :
               old(a) = Aged(rob[s], c).inst.tag /\ LastWriterBefore(rob[s], c, a)
  BY WhatIsFreed
<1>3. Aged(rob[u], b).inst.tag = fl[e].tag
  BY WhatIsFreed
<1>4. old(a) = Aged(rob[u], b).inst.tag_old
  OBVIOUS
<1>5. /\ a \in 1..RtNum(rob[s]) /\ b \in 1..RtNum(rob[u])
      /\ RtNum(rob[s]) \in Nat /\ RtNum(rob[u]) \in Nat
  BY <1>1, RetireChannelsAre DEF Freed, IInv
<1>6. ASSUME s = u, a = b PROVE f = e
  <2>1. fl[f].tag = fl[e].tag
    BY <1>2, <1>3, <1>6
  <2> QED
    BY <2>1, TagsApart
<1>7. CASE old(a) = amt[s][rd(a)]
  <2>1. NoWriterBefore(rob[s], a)
    <3>1. /\ s \in Threads /\ rd(a) \in Regs \ {0}
          /\ Aged(rob[fl[f].thread_idx], a).inst.tag_old = amt[s][rd(a)]
      BY <1>1, <1>2, <1>7
    <3> HIDE DEF rd, s, old
    <3> QED
      BY <3>1, GivenBackFromMap
  <2>2. s = u /\ rd(a) = Aged(rob[s], b).inst.rd /\ NoWriterBefore(rob[s], b)
    <3>1. /\ s \in Threads /\ rd(a) \in Regs \ {0}
          /\ Aged(rob[fl[e].thread_idx], b).inst.tag_old = amt[s][rd(a)]
      BY <1>1, <1>2, <1>4, <1>7
    <3> HIDE DEF rd, s, old
    <3> QED
      BY <3>1, GivenBackFromMap DEF u
  <2>3. rd(a) = rd(b)
    BY <2>2
  <2>4. /\ \A c \in 1..(a - 1) : rd(c) # rd(a)
        /\ \A c \in 1..(b - 1) : rd(c) # rd(b)
    BY <2>1, <2>2 DEF NoWriterBefore
  <2> HIDE DEF s, u, rd, old
  <2>5. a \in 1..(b - 1) \/ b \in 1..(a - 1) \/ a = b
    BY <1>5
  <2>6. a = b
    BY <2>3, <2>4, <2>5
  <2> QED
    BY <1>6, <2>2, <2>6
<1>8. CASE old(a) # amt[s][rd(a)]
  <2>1. PICK c \in 1..RtNum(rob[s]) :
           old(a) = Aged(rob[s], c).inst.tag /\ LastWriterBefore(rob[s], c, a)
    <3> HIDE DEF rd, s, old
    <3> QED
      BY <1>2, <1>8
  <2>2. Aged(rob[s], c).inst.rd # 0
    BY <1>2, <2>1 DEF LastWriterBefore
  <2>3. PICK d \in FLEntries : fl[d].tag = Aged(rob[s], c).inst.tag
    <3> HIDE DEF s
    <3> QED
      BY <1>1, <2>2, RetirementFrees
  <2>4. PICK p : /\ Freed(d, p) /\ fl[d].thread_idx = s
                 /\ LastWriterBefore(rob[s], p, a)
    <3>1. Aged(rob[fl[f].thread_idx], a).inst.tag_old = fl[d].tag
      BY <2>1, <2>3
    <3> QED
      BY <3>1, GivenBackFromList
  <2>5. PICK p2 : /\ Freed(d, p2) /\ fl[d].thread_idx = u
                  /\ LastWriterBefore(rob[u], p2, b)
    <3>1. Aged(rob[fl[e].thread_idx], b).inst.tag_old = fl[d].tag
      BY <1>4, <2>1, <2>3
    <3> QED
      BY <3>1, GivenBackFromList
  <2>6. p = p2 /\ s = u
    <3>1. p = p2
      BY <2>4, <2>5, FreedOnce
    <3> QED
      BY <3>1, <2>4, <2>5
  <2>7. /\ p \in 1..(a - 1) /\ p \in 1..(b - 1)
        /\ rd(p) = rd(a) /\ rd(p) = rd(b)
        /\ \A q \in (p + 1)..(a - 1) : rd(q) # rd(a)
        /\ \A q \in (p + 1)..(b - 1) : rd(q) # rd(b)
    BY <2>4, <2>5, <2>6 DEF LastWriterBefore
  <2> HIDE DEF s, u, rd, old
  <2>8. a \in (p + 1)..(b - 1) \/ b \in (p + 1)..(a - 1) \/ a = b
    BY <1>5, <2>7
  <2>9. a = b
    BY <2>7, <2>8
  <2> QED
    BY <1>6, <2>6, <2>9
<1> QED
  BY <1>7, <1>8

\* No two entries have the same tag after the edge, and none has tag 0.
LEMMA ListStaysApart ==
  ASSUME IInv, NEW t \in Threads, NEW n, NEW g, NEW f \in FLEntries
  PROVE  /\ NextFL(t, n, g)[f].tag # 0
         /\ \A e \in FLEntries : NextFL(t, n, g)[f].tag = NextFL(t, n, g)[e].tag => f = e
<1> DEFINE F(e) == NextFL(t, n, g)[e].tag
<1>1. ASSUME NEW e \in FLEntries, NEW a, Freed(e, a)
      PROVE  F(e) = Aged(rob[fl[e].thread_idx], a).inst.tag_old
  BY <1>1, TagAfterEdge
<1>2. ASSUME NEW e \in FLEntries, ~(\E a : Freed(e, a))
      PROVE  F(e) = fl[e].tag
  BY <1>2, TagAfterEdge
<1>3. ASSUME NEW e \in FLEntries, ~(\E a : Freed(e, a)),
             NEW d \in FLEntries, NEW a, Freed(d, a)
      PROVE  F(e) # F(d)
  <2> SUFFICES ASSUME F(e) = F(d) PROVE FALSE
    OBVIOUS
  <2>1. Aged(rob[fl[d].thread_idx], a).inst.tag_old = fl[e].tag
    BY <1>1, <1>2, <1>3
  <2>2. \E b : Freed(e, b)
    <3> HIDE DEF F
    <3> QED
      BY <1>3, <2>1, GivenBackFromList
  <2> QED
    BY <1>3, <2>2
<1>4. ASSUME NEW e \in FLEntries, F(f) = F(e) PROVE f = e
  <2>1. CASE (\E a : Freed(f, a)) /\ (\E b : Freed(e, b))
    <3>1. PICK a : Freed(f, a)
      BY <2>1
    <3>2. PICK b : Freed(e, b)
      BY <2>1
    <3>3. Aged(rob[fl[f].thread_idx], a).inst.tag_old
            = Aged(rob[fl[e].thread_idx], b).inst.tag_old
      BY <1>1, <1>4, <3>1, <3>2
    <3> QED
      BY <3>1, <3>2, <3>3, GivenBackOnce
  <2>2. CASE ~(\E a : Freed(f, a)) /\ ~(\E b : Freed(e, b))
    <3>1. fl[f].tag = fl[e].tag
      BY <1>2, <1>4, <2>2
    <3> QED
      BY <3>1, TagsApart
  <2> HIDE DEF F
  <2> QED
    BY <1>3, <1>4, <2>1, <2>2
<1>5. F(f) # 0
  <2>1. CASE \E a : Freed(f, a)
    <3>1. PICK a : Freed(f, a)
      BY <2>1
    <3> DEFINE s == fl[f].thread_idx
               i == Aged(rob[s], a).inst
    <3>2. /\ s \in Threads /\ i.rd \in Regs \ {0}
          /\ \/ i.tag_old = amt[s][i.rd]
             \/ \E c \in 1..RtNum(rob[s]) :
                   i.tag_old = Aged(rob[s], c).inst.tag /\ LastWriterBefore(rob[s], c, a)
      BY <3>1, WhatIsFreed
    <3>3. F(f) = i.tag_old
      BY <1>1, <3>1
    <3> HIDE DEF i, s, F
    <3>4. CASE i.tag_old = amt[s][i.rd]
      <4>1. amt[s][i.rd] # 0
        BY <3>2, TagsApart
      <4> QED
        BY <3>3, <3>4, <4>1
    <3>5. ASSUME NEW c \in 1..RtNum(rob[s]), LastWriterBefore(rob[s], c, a),
                 i.tag_old = Aged(rob[s], c).inst.tag
          PROVE  F(f) # 0
      <4>0. Aged(rob[s], c).inst.rd # 0
        BY <3>2, <3>5 DEF LastWriterBefore, i
      <4>1. PICK d \in FLEntries : fl[d].tag = Aged(rob[s], c).inst.tag
        BY <3>2, <4>0, RetirementFrees
      <4>2. fl[d].tag # 0
        BY TagsApart
      <4> QED
        BY <3>3, <3>5, <4>1, <4>2
    <3> QED
      BY <3>2, <3>4, <3>5
  <2>2. CASE ~(\E a : Freed(f, a))
    <3>1. fl[f].tag # 0
      BY TagsApart
    <3> QED
      BY <1>2, <2>2, <3>1
  <2> QED
    BY <2>1, <2>2
<1> QED
  BY <1>4, <1>5

\* Nor does a committed map name a tag of another register or of the list.
LEMMA MapsStayApart ==
  ASSUME IInv, NEW t \in Threads, NEW n, NEW g, NEW s \in Threads, NEW x \in Regs \ {0}
  PROVE  /\ NextAMT(s)[x] # 0
         /\ \A u \in Threads : \A y \in Regs \ {0} :
               NextAMT(s)[x] = NextAMT(u)[y] => s = u /\ x = y
         /\ \A f \in FLEntries : NextFL(t, n, g)[f].tag # NextAMT(s)[x]
<1>1. ASSUME NEW u \in Threads, NEW y \in Regs \ {0}
      PROVE  \/ /\ NextAMT(u)[y] = amt[u][y]
                /\ \A a \in 1..RtNum(rob[u]) : Aged(rob[u], a).inst.rd # y
             \/ \E d \in FLEntries : \E a \in 1..RtNum(rob[u]) :
                   /\ Freed(d, a) /\ fl[d].thread_idx = u
                   /\ NextAMT(u)[y] = fl[d].tag
                   /\ Aged(rob[u], a).inst.rd = y
                   /\ \A c \in (a + 1)..RtNum(rob[u]) : Aged(rob[u], c).inst.rd # y
  BY CommittedFromList
<1>2. NextAMT(s)[x] # 0
  BY <1>1, TagsApart
<1>3. ASSUME NEW u \in Threads, NEW y \in Regs \ {0}, NextAMT(s)[x] = NextAMT(u)[y]
      PROVE  s = u /\ x = y
  <2>1. CASE NextAMT(s)[x] = amt[s][x]
    <3>1. ASSUME NEW d \in FLEntries, NextAMT(u)[y] = fl[d].tag PROVE FALSE
      <4>1. fl[d].tag = amt[s][x]
        BY <1>3, <2>1, <3>1
      <4>2. fl[d].tag # amt[s][x]
        BY TagsApart
      <4> QED
        BY <4>1, <4>2
    <3>2. NextAMT(u)[y] = amt[u][y]
      BY <1>1, <3>1
    <3>3. amt[s][x] = amt[u][y]
      BY <1>3, <2>1, <3>2
    <3> QED
      BY <3>3, TagsApart
  <2>2. CASE NextAMT(s)[x] # amt[s][x]
    <3>1. PICK d \in FLEntries, a \in 1..RtNum(rob[s]) :
             /\ Freed(d, a) /\ fl[d].thread_idx = s /\ NextAMT(s)[x] = fl[d].tag
             /\ Aged(rob[s], a).inst.rd = x
      BY <1>1, <2>2
    <3>2. NextAMT(u)[y] # amt[u][y]
      <4>1. fl[d].tag # amt[u][y]
        BY TagsApart
      <4> QED
        BY <1>3, <3>1, <4>1
    <3>3. \E e \in FLEntries : \E b \in 1..RtNum(rob[u]) :
             /\ Freed(e, b) /\ fl[e].thread_idx = u /\ NextAMT(u)[y] = fl[e].tag
             /\ Aged(rob[u], b).inst.rd = y
      BY <1>1, <3>2
    <3>4. PICK e \in FLEntries : \E b \in 1..RtNum(rob[u]) :
             /\ Freed(e, b) /\ fl[e].thread_idx = u /\ NextAMT(u)[y] = fl[e].tag
             /\ Aged(rob[u], b).inst.rd = y
      BY <3>3
    <3>5. PICK b \in 1..RtNum(rob[u]) :
             /\ Freed(e, b) /\ fl[e].thread_idx = u /\ NextAMT(u)[y] = fl[e].tag
             /\ Aged(rob[u], b).inst.rd = y
      BY <3>4
    <3>6. fl[d].tag = fl[e].tag
      BY <1>3, <3>1, <3>5
    <3>7. d = e
      BY <3>6, TagsApart
    <3>8. a = b
      BY <3>1, <3>5, <3>7, FreedOnce
    <3> QED
      BY <3>1, <3>5, <3>7, <3>8
  <2> QED
    BY <2>1, <2>2
<1>4. ASSUME NEW f \in FLEntries, NextFL(t, n, g)[f].tag = NextAMT(s)[x]
      PROVE  FALSE
  <2>1. CASE ~(\E b : Freed(f, b))
    <3>1. NextAMT(s)[x] = fl[f].tag
      BY <1>4, <2>1, TagAfterEdge
    <3>2. fl[f].tag # amt[s][x]
      BY TagsApart
    <3>3. PICK d \in FLEntries, a \in 1..RtNum(rob[s]) :
             Freed(d, a) /\ NextAMT(s)[x] = fl[d].tag
      BY <1>1, <3>1, <3>2
    <3>4. fl[d].tag = fl[f].tag
      BY <3>1, <3>3
    <3>5. d = f
      BY <3>4, TagsApart
    <3> QED
      BY <2>1, <3>3, <3>5
  <2>2. ASSUME NEW b, Freed(f, b) PROVE FALSE
    <3> DEFINE u == fl[f].thread_idx
    <3>1. NextAMT(s)[x] = Aged(rob[u], b).inst.tag_old
      BY <1>4, <2>2, TagAfterEdge
    <3>2. b \in 1..RtNum(rob[u]) /\ u \in Threads
      BY <2>2, TagsApart DEF Freed
    <3>3. CASE /\ NextAMT(s)[x] = amt[s][x]
               /\ \A a \in 1..RtNum(rob[s]) : Aged(rob[s], a).inst.rd # x
      <4>1. Aged(rob[fl[f].thread_idx], b).inst.tag_old = amt[s][x]
        BY <3>1, <3>3
      <4>2. s = u /\ x = Aged(rob[s], b).inst.rd
        <5> HIDE DEF u
        <5> QED
          BY <2>2, <4>1, GivenBackFromMap DEF u
      <4> QED
        BY <3>2, <3>3, <4>2
    <3>4. ASSUME NEW d \in FLEntries, NEW a \in 1..RtNum(rob[s]),
                 Freed(d, a), fl[d].thread_idx = s, NextAMT(s)[x] = fl[d].tag,
                 Aged(rob[s], a).inst.rd = x,
                 \A c \in (a + 1)..RtNum(rob[s]) : Aged(rob[s], c).inst.rd # x
          PROVE  FALSE
      <4>1. Aged(rob[fl[f].thread_idx], b).inst.tag_old = fl[d].tag
        BY <3>1, <3>4
      <4>2. PICK c \in 1..(b - 1) :
               /\ Freed(d, c) /\ fl[d].thread_idx = u
               /\ Aged(rob[u], c).inst.rd = Aged(rob[u], b).inst.rd
        <5>1. PICK c : /\ Freed(d, c) /\ fl[d].thread_idx = fl[f].thread_idx
                       /\ LastWriterBefore(rob[fl[f].thread_idx], c, b)
          BY <2>2, <4>1, GivenBackFromList
        <5> QED
          BY <5>1 DEF LastWriterBefore
      <4>3. c = a
        BY <3>4, <4>2, FreedOnce
      <4>4. s = u /\ Aged(rob[s], b).inst.rd = x
        BY <3>4, <4>2, <4>3
      <4>5. RtNum(rob[s]) \in Nat
        BY RetireChannelsAre DEF IInv
      <4> HIDE DEF u
      <4>6. b \in (a + 1)..RtNum(rob[s])
        BY <3>2, <4>2, <4>3, <4>4, <4>5
      <4> QED
        BY <3>4, <4>4, <4>6
    <3> QED
      BY <1>1, <3>3, <3>4
  <2> QED
    BY <2>1, <2>2
<1> QED
  BY <1>2, <1>3, <1>4

\* And no tag is lost.
LEMMA NoTagLost ==
  ASSUME IInv, NEW t \in Threads, NEW n, NEW g, NEW v \in Tags \ {0}
  PROVE  \/ \E f \in FLEntries : NextFL(t, n, g)[f].tag = v
         \/ \E s \in Threads : \E x \in Regs \ {0} : NextAMT(s)[x] = v
<1>1. ASSUME NEW s \in Threads, NEW a \in Nat, NEW x \in Regs \ {0},
             \E c \in (a + 1)..RtNum(rob[s]) : Aged(rob[s], c).inst.rd = x
      PROVE  \E c : FirstWriterAfter(rob[s], c, a, x)
  <2> DEFINE W == {c \in (a + 1)..RtNum(rob[s]) : Aged(rob[s], c).inst.rd = x}
  <2>1. RtNum(rob[s]) \in Nat
    BY RetireChannelsAre DEF IInv
  <2>2. W # {} /\ \A c \in W : c \in Nat
    BY <1>1, <2>1
  <2> HIDE DEF W
  <2>3. PICK c \in W : \A b \in W : c <= b
    BY <2>2, LeastExists
  <2>4. c \in (a + 1)..RtNum(rob[s]) /\ Aged(rob[s], c).inst.rd = x
    BY <2>3 DEF W
  <2>5. ASSUME NEW b \in (a + 1)..(c - 1) PROVE Aged(rob[s], b).inst.rd # x
    <3>1. b \in (a + 1)..RtNum(rob[s]) /\ b < c
      BY <2>1, <2>4
    <3>2. b \notin W
      BY <2>3, <2>4, <3>1
    <3> QED
      BY <3>1, <3>2 DEF W
  <2> QED
    BY <2>4, <2>5 DEF FirstWriterAfter
<1>2. CASE \E f \in FLEntries : fl[f].tag = v
  <2>1. PICK f \in FLEntries : fl[f].tag = v
    BY <1>2
  <2>2. CASE ~(\E a : Freed(f, a))
    BY <2>1, <2>2, TagAfterEdge
  <2>3. ASSUME NEW a, Freed(f, a)
        PROVE  \/ \E e \in FLEntries : NextFL(t, n, g)[e].tag = v
               \/ \E s \in Threads : \E x \in Regs \ {0} : NextAMT(s)[x] = v
    <3> DEFINE s == fl[f].thread_idx
               x == Aged(rob[s], a).inst.rd
    <3>1. /\ s \in Threads /\ x \in Regs \ {0} /\ a \in 1..RtNum(rob[s])
          /\ Aged(rob[s], a).inst.tag = v
      BY <2>1, <2>3, WhatIsFreed DEF Freed
    <3>2. RtNum(rob[s]) \in Nat /\ a \in Nat
      BY <3>1, RetireChannelsAre DEF IInv
    <3> HIDE DEF s, x
    <3>3. CASE \E c \in (a + 1)..RtNum(rob[s]) : Aged(rob[s], c).inst.rd = x
      <4>1. PICK c \in (a + 1)..RtNum(rob[s]) :
               /\ Aged(rob[s], c).inst.rd = x
               /\ \A b \in (a + 1)..(c - 1) : Aged(rob[s], b).inst.rd # x
        <5>1. PICK c : FirstWriterAfter(rob[s], c, a, x)
          BY <1>1, <3>1, <3>2, <3>3
        <5> QED
          BY <5>1 DEF FirstWriterAfter
      <4>2. c \in 1..RtNum(rob[s]) /\ a \in 1..(c - 1)
        BY <3>1, <3>2
      <4>3. PICK e \in FLEntries : Freed(e, c) /\ fl[e].thread_idx = s
        BY <3>1, <4>1, <4>2, RetirementFrees
      <4>4. \/ \A b \in 1..(c - 1) : Aged(rob[s], b).inst.rd # x
            \/ \E b \in 1..(c - 1) :
                  /\ Aged(rob[s], b).inst.rd = x
                  /\ Aged(rob[s], c).inst.tag_old = Aged(rob[s], b).inst.tag
                  /\ \A d \in (b + 1)..(c - 1) : Aged(rob[s], d).inst.rd # x
        <5>1. \/ NoWriterBefore(rob[s], c)
              \/ \E b \in 1..RtNum(rob[s]) :
                    /\ Aged(rob[s], c).inst.tag_old = Aged(rob[s], b).inst.tag
                    /\ LastWriterBefore(rob[s], b, c)
          BY <4>3, WhatIsFreed
        <5> QED
          BY <4>1, <5>1 DEF NoWriterBefore, LastWriterBefore
      <4>5. Aged(rob[s], a).inst.rd = x
        BY DEF x, s
      <4>6. PICK b \in 1..(c - 1) :
                  /\ Aged(rob[s], b).inst.rd = x
                  /\ Aged(rob[s], c).inst.tag_old = Aged(rob[s], b).inst.tag
                  /\ \A d \in (b + 1)..(c - 1) : Aged(rob[s], d).inst.rd # x
        BY <4>2, <4>4, <4>5
      <4>7. a \in (b + 1)..(c - 1) \/ b \in (a + 1)..(c - 1) \/ a = b
        BY <4>2, <3>2
      <4>8. a = b
        BY <4>1, <4>5, <4>6, <4>7
      <4>9. NextFL(t, n, g)[e].tag = Aged(rob[s], c).inst.tag_old
        BY <4>3, TagAfterEdge
      <4> QED
        BY <3>1, <4>6, <4>8, <4>9
    <3>4. CASE ~(\E c \in (a + 1)..RtNum(rob[s]) : Aged(rob[s], c).inst.rd = x)
      <4>1. Aged(rob[s], a).inst.rd = x
        BY DEF x, s
      <4>2. PICK b \in 1..RtNum(rob[s]) :
               /\ Aged(rob[s], b).inst.rd = x
               /\ NextAMT(s)[x] = Aged(rob[s], b).inst.tag
               /\ \A c \in (b + 1)..RtNum(rob[s]) : Aged(rob[s], c).inst.rd # x
        BY <3>1, <4>1, WhatIsCommitted
      <4>3. a \in (b + 1)..RtNum(rob[s]) \/ b \in (a + 1)..RtNum(rob[s]) \/ a = b
        BY <3>1, <3>2
      <4>4. a = b
        BY <3>4, <4>1, <4>2, <4>3
      <4> QED
        BY <3>1, <4>2, <4>4
    <3> QED
      BY <3>3, <3>4
  <2> QED
    BY <2>2, <2>3
<1>3. ASSUME NEW s \in Threads, NEW x \in Regs \ {0}, amt[s][x] = v
      PROVE  \/ \E e \in FLEntries : NextFL(t, n, g)[e].tag = v
             \/ \E u \in Threads : \E y \in Regs \ {0} : NextAMT(u)[y] = v
  <2>1. RtNum(rob[s]) \in Nat
    BY RetireChannelsAre DEF IInv
  <2>2. CASE \E c \in (0 + 1)..RtNum(rob[s]) : Aged(rob[s], c).inst.rd = x
    <3>1. PICK c \in (0 + 1)..RtNum(rob[s]) :
             /\ Aged(rob[s], c).inst.rd = x
             /\ \A b \in (0 + 1)..(c - 1) : Aged(rob[s], b).inst.rd # x
      <4>1. PICK c : FirstWriterAfter(rob[s], c, 0, x)
        BY <1>1, <2>2
      <4> QED
        BY <4>1 DEF FirstWriterAfter
    <3>2. c \in 1..RtNum(rob[s]) /\ \A b \in 1..(c - 1) : Aged(rob[s], b).inst.rd # x
      BY <3>1
    <3>3. PICK e \in FLEntries : Freed(e, c) /\ fl[e].thread_idx = s
      BY <3>1, <3>2, RetirementFrees
    <3>4. Aged(rob[s], c).inst.tag_old = amt[s][x]
      <4>1. \/ Aged(rob[s], c).inst.tag_old = amt[s][Aged(rob[s], c).inst.rd]
            \/ \E b \in 1..RtNum(rob[s]) : LastWriterBefore(rob[s], b, c)
        BY <3>3, WhatIsFreed
      <4>2. ~(\E b \in 1..RtNum(rob[s]) : LastWriterBefore(rob[s], b, c))
        BY <3>1, <3>2 DEF LastWriterBefore
      <4> QED
        BY <3>1, <4>1, <4>2
    <3>5. NextFL(t, n, g)[e].tag = Aged(rob[s], c).inst.tag_old
      BY <3>3, TagAfterEdge
    <3> QED
      BY <1>3, <3>4, <3>5
  <2>3. CASE ~(\E c \in (0 + 1)..RtNum(rob[s]) : Aged(rob[s], c).inst.rd = x)
    <3>1. \A c \in 1..RtNum(rob[s]) : Aged(rob[s], c).inst.rd # x
      BY <2>3
    <3>2. NextAMT(s)[x] = amt[s][x]
      BY <3>1, WhatIsCommitted
    <3> QED
      BY <1>3, <3>2
  <2> QED
    BY <2>2, <2>3
<1>4. \/ \E f \in FLEntries : fl[f].tag = v
      \/ \E s \in Threads : \E x \in Regs \ {0} : amt[s][x] = v
  BY DEF IInv, Shared
<1> QED
  BY <1>2, <1>3, <1>4

\* Both tables after an edge.
AmtAfter == [s \in Threads |-> NextAMT(s)]

\* An edge keeps the tags shared out (FL_smt.sv l.99-133, AMT.sv l.41-46).
LEMMA TagsStayShared ==
  ASSUME IInv, NEW t \in Threads, NEW n, NEW g
  PROVE  Shared(NextFL(t, n, g), AmtAfter)
<1> DEFINE F == NextFL(t, n, g)
<1>1. \A s \in Threads : AmtAfter[s] = NextAMT(s)
  BY DEF AmtAfter
<1>2. /\ F \in [FLEntries -> [valid : BOOLEAN, thread_idx : Threads, tag : Tags]]
      /\ AmtAfter \in [Threads -> [Regs -> Tags]]
  BY TablesKeepTypes DEF AmtAfter
<1>3. \A s \in Threads : AmtAfter[s][0] = 0
  <2> SUFFICES ASSUME NEW s \in Threads PROVE AmtAfter[s][0] = 0
    OBVIOUS
  <2>1. NextAMT(s)[0] = LastTag(rob[s], amt[s][0], 0, RtNum(rob[s]) + 1)
    BY Commits, Constants
  <2>2. WritersBelow(rob[s], 0, RtNum(rob[s]) + 1) = {}
    BY DEF WritersBelow
  <2>3. NextAMT(s)[0] = amt[s][0]
    BY <2>1, <2>2 DEF LastTag, LastAge
  <2>4. amt[s][0] = 0
    BY DEF IInv, Shared
  <2> QED
    BY <1>1, <2>3, <2>4
<1>4. \A f \in FLEntries : /\ F[f].tag # 0
                           /\ \A e \in FLEntries : F[f].tag = F[e].tag => f = e
  BY ListStaysApart
<1>5. \A s \in Threads : \A x \in Regs \ {0} :
         /\ NextAMT(s)[x] # 0
         /\ \A u \in Threads : \A y \in Regs \ {0} :
               NextAMT(s)[x] = NextAMT(u)[y] => s = u /\ x = y
         /\ \A f \in FLEntries : F[f].tag # NextAMT(s)[x]
  BY MapsStayApart
<1>6. \A v \in Tags \ {0} :
         \/ \E f \in FLEntries : F[f].tag = v
         \/ \E s \in Threads : \E x \in Regs \ {0} : NextAMT(s)[x] = v
  BY NoTagLost
<1> HIDE DEF F
<1>7. \A s \in Threads : \A x \in Regs \ {0} : AmtAfter[s][x] # 0
  BY <1>1, <1>5
<1>8. \A s, u \in Threads : \A x, y \in Regs \ {0} :
         AmtAfter[s][x] = AmtAfter[u][y] => s = u /\ x = y
  BY <1>1, <1>5
<1>9. \A f \in FLEntries : \A s \in Threads : \A x \in Regs \ {0} :
         F[f].tag # AmtAfter[s][x]
  BY <1>1, <1>5
<1>10. \A v \in Tags \ {0} :
         \/ \E f \in FLEntries : F[f].tag = v
         \/ \E s \in Threads : \E x \in Regs \ {0} : AmtAfter[s][x] = v
  BY <1>1, <1>6
<1> QED
  BY <1>2, <1>3, <1>4, <1>7, <1>8, <1>9, <1>10 DEF Shared, F

-----------------------------------------------------------------------------
\* What one edge does to the reorder buffers.

\* An instruction in flight after the edge was there before or has just been
\* dispatched to its thread, and conversely.
LEMMA InstAfterEdge ==
  ASSUME IInv, NEW t, NEW n, NEW g, NEW hit, NEW taken, Cycle(t, n, g, hit, taken),
         NEW s \in Threads, ~BrMis(s), NEW q, q = NextRing(s, t, n, g, hit, taken)
  PROVE  /\ Occupied(rob[s]) \in Nat /\ RtNum(rob[s]) \in 0..Occupied(rob[s])
         /\ n \in Nat /\ Occupied(q) = (Occupied(rob[s]) - RtNum(rob[s])) + Taking(s, t, n)
         /\ \A a \in 1..Occupied(q) :
               \/ /\ a + RtNum(rob[s]) \in (RtNum(rob[s]) + 1)..Occupied(rob[s])
                  /\ Aged(q, a).inst = Aged(rob[s], a + RtNum(rob[s])).inst
               \/ /\ s = t
                  /\ \E c \in 0..(n - 1) :
                        /\ a = (Occupied(rob[s]) - RtNum(rob[s])) + 1 + c
                        /\ Aged(q, a).inst = Renamed(t, g, c).inst
         /\ \A a \in (RtNum(rob[s]) + 1)..Occupied(rob[s]) :
               /\ a - RtNum(rob[s]) \in 1..Occupied(q)
               /\ Aged(q, a - RtNum(rob[s])).inst = Aged(rob[s], a).inst
         /\ s = t => \A c \in 0..(n - 1) :
               /\ (Occupied(rob[s]) - RtNum(rob[s])) + 1 + c \in 1..Occupied(q)
               /\ Aged(q, (Occupied(rob[s]) - RtNum(rob[s])) + 1 + c).inst
                    = Renamed(t, g, c).inst
<1> DEFINE k == RtNum(rob[s])
           o == Occupied(rob[s])
           m == Taking(s, t, n)
<1>1. o \in Nat /\ k \in 0..o
  BY RetireChannelsAre DEF IInv
<1>2. n \in Nat
  BY DispatchFits DEF Cycle
<1>3. m \in Nat /\ (s = t => m = n) /\ (s # t => m = 0)
  BY <1>2 DEF Taking
<1>4. Moves(rob[s], q, m, Group(t, n, g), Heard(s, hit))
  BY ThreadMoves
<1>5. /\ Occupied(q) = (o - k) + m
      /\ \A a \in 1..(o - k) : Aged(q, a).inst = Aged(rob[s], a + k).inst
      /\ \A c \in 0..(m - 1) : Aged(q, (o - k) + 1 + c).inst = Group(t, n, g)[c].inst
  BY <1>4 DEF Moves
<1>6. \A c \in 0..(n - 1) : Group(t, n, g)[c] = Renamed(t, g, c)
  BY DEF Group
<1> HIDE DEF k, o, m
<1>7. ASSUME NEW a \in 1..Occupied(q)
      PROVE  \/ /\ a + k \in (k + 1)..o
                /\ Aged(q, a).inst = Aged(rob[s], a + k).inst
             \/ /\ s = t
                /\ \E c \in 0..(n - 1) : /\ a = (o - k) + 1 + c
                                         /\ Aged(q, a).inst = Renamed(t, g, c).inst
  <2>1. CASE a <= o - k
    BY <1>1, <1>5, <2>1
  <2>2. CASE a > o - k
    <3>1. /\ a - (o - k) - 1 \in 0..(m - 1) /\ a = (o - k) + 1 + (a - (o - k) - 1)
          /\ m # 0
      BY <1>1, <1>3, <1>5, <2>2
    <3>2. s = t /\ a - (o - k) - 1 \in 0..(n - 1)
      BY <1>3, <3>1
    <3> QED
      BY <1>5, <1>6, <3>1, <3>2
  <2> QED
    BY <1>1, <2>1, <2>2
<1>8. ASSUME NEW a \in (k + 1)..o
      PROVE  a - k \in 1..Occupied(q) /\ Aged(q, a - k).inst = Aged(rob[s], a).inst
  <2>1. a - k \in 1..(o - k) /\ (a - k) + k = a /\ a - k \in 1..Occupied(q)
    BY <1>1, <1>3, <1>5
  <2> QED
    BY <1>5, <2>1
<1>9. ASSUME s = t, NEW c \in 0..(n - 1)
      PROVE  /\ (o - k) + 1 + c \in 1..Occupied(q)
             /\ Aged(q, (o - k) + 1 + c).inst = Renamed(t, g, c).inst
  <2>1. (o - k) + 1 + c \in 1..Occupied(q) /\ c \in 0..(m - 1)
    BY <1>1, <1>2, <1>3, <1>5, <1>9
  <2> QED
    BY <1>5, <1>6, <2>1
<1> QED
  BY <1>1, <1>2, <1>5, <1>7, <1>8, <1>9 DEF k, o, m

\* The tag that a channel takes is one of a free entry.
LEMMA NewTags ==
  ASSUME IInv, NEW t \in Threads, NEW n \in 0..DpLimit(t), NEW g \in Groups(n),
         NEW c \in 0..(n - 1), g[c].rd # 0
  PROVE  /\ Taken(g, c) \in FlDpSel(n, g) /\ Taken(g, c) \in FLEntries
         /\ fl[Taken(g, c)].valid /\ fl[Taken(g, c)].tag = DpTag(g, c)
         /\ \A d \in 0..(n - 1) : DpTag(g, c) = DpTag(g, d) => c = d
<1>1. n \in Nat /\ n <= Cardinality(FreeEntries)
  BY DispatchFits
<1>2. c \in WritingChannels(g, n)
  BY DEF WritingChannels
<1>3. /\ \A j \in WritingChannels(g, n) : /\ Taken(g, j) \in FLEntries
                                          /\ fl[Taken(g, j)].valid
                                          /\ Taken(g, j) \in FlDpSel(n, g)
      /\ \A i, j \in WritingChannels(g, n) : Taken(g, i) = Taken(g, j) => i = j
  BY <1>1, DispatchTakes
<1>4. \A d : g[d].rd # 0 => DpTag(g, d) = fl[Taken(g, d)].tag
  BY DEF DpTag, Taken
<1>5. ASSUME NEW d \in 0..(n - 1), DpTag(g, c) = DpTag(g, d) PROVE c = d
  <2>1. DpTag(g, c) # 0
    BY GroupHasTypes
  <2>2. g[d].rd # 0
    BY <1>5, <2>1, GroupHasTypes
  <2>3. d \in WritingChannels(g, n)
    BY <2>2 DEF WritingChannels
  <2>4. fl[Taken(g, c)].tag = fl[Taken(g, d)].tag
    BY <1>4, <1>5, <2>2
  <2>5. Taken(g, c) = Taken(g, d)
    BY <1>2, <1>3, <2>3, <2>4, TagsApart
  <2> QED
    BY <1>2, <1>3, <2>3, <2>5
<1> QED
  BY <1>2, <1>3, <1>4, <1>5

\* The tag of an instruction in flight is one of an entry in flight.
LEMMA OldTags ==
  ASSUME IInv, NEW s \in Threads, NEW a \in 1..Occupied(rob[s]),
         Aged(rob[s], a).inst.tag # 0
  PROVE  \E f \in FLEntries : /\ ~fl[f].valid /\ fl[f].thread_idx = s
                              /\ fl[f].tag = Aged(rob[s], a).inst.tag
                              /\ \A b : Freed(f, b) => a = b
<1>1. PICK f \in FLEntries : /\ ~fl[f].valid /\ fl[f].thread_idx = s
                             /\ fl[f].tag = Aged(rob[s], a).inst.tag
  BY DEF IInv, Held
<1>2. RtNum(rob[s]) \in 0..Occupied(rob[s]) /\ Occupied(rob[s]) \in Nat
  BY RetireChannelsAre DEF IInv
<1>3. ASSUME NEW b, Freed(f, b) PROVE a = b
  <2>1. b \in 1..Occupied(rob[s]) /\ Aged(rob[s], b).inst.tag = Aged(rob[s], a).inst.tag
    BY <1>1, <1>2, <1>3 DEF Freed
  <2> QED
    BY <2>1 DEF IInv, Named
<1> QED
  BY <1>1, <1>3

RobAfter(t, n, g, hit, taken) ==
    [s \in Threads |-> NextRing(s, t, n, g, hit, taken)]

\* The instructions in flight keep their own tags.
LEMMA TagsStayNamed ==
  ASSUME IInv, NEW t, NEW n, NEW g, NEW hit, NEW taken, Cycle(t, n, g, hit, taken)
  PROVE  Named(RobAfter(t, n, g, hit, taken))
<1> DEFINE R == RobAfter(t, n, g, hit, taken)
<1>1. t \in Threads /\ n \in 0..DpLimit(t) /\ g \in Groups(n)
  BY DEF Cycle
<1>2. SUFFICES ASSUME NEW s \in Threads,
                      NEW a \in 1..Occupied(NextRing(s, t, n, g, hit, taken)),
                      NEW b \in 1..Occupied(NextRing(s, t, n, g, hit, taken))
               PROVE  LET q == NextRing(s, t, n, g, hit, taken) IN
                      /\ Aged(q, a).inst.rd = 0 <=> Aged(q, a).inst.tag = 0
                      /\ Aged(q, a).inst.tag = Aged(q, b).inst.tag =>
                            a = b \/ Aged(q, a).inst.tag = 0
  BY DEF RobAfter, Named
<1> DEFINE q == NextRing(s, t, n, g, hit, taken)
           k == RtNum(rob[s])
           o == Occupied(rob[s])
<1>3. ~BrMis(s)
  <2>1. BrMis(s) => Occupied(q) = 0
    BY ThreadMoves
  <2> QED
    BY <2>1
<1>4. /\ o \in Nat /\ k \in 0..o /\ n \in Nat
      /\ \A i \in 1..Occupied(q) :
            \/ /\ i + k \in (k + 1)..o
               /\ Aged(q, i).inst = Aged(rob[s], i + k).inst
            \/ /\ s = t
               /\ \E c \in 0..(n - 1) : /\ i = (o - k) + 1 + c
                                        /\ Aged(q, i).inst = Renamed(t, g, c).inst
  BY <1>3, InstAfterEdge
<1>5. ASSUME NEW c \in 0..(n - 1)
      PROVE  /\ Renamed(t, g, c).inst.rd = g[c].rd
             /\ Renamed(t, g, c).inst.tag = DpTag(g, c)
             /\ DpTag(g, c) = 0 <=> g[c].rd = 0
  BY <1>1, GroupHasTypes DEF Renamed
<1>6. \A i, j \in 1..o : /\ Aged(rob[s], i).inst.rd = 0 <=> Aged(rob[s], i).inst.tag = 0
                         /\ Aged(rob[s], i).inst.tag = Aged(rob[s], j).inst.tag =>
                               i = j \/ Aged(rob[s], i).inst.tag = 0
  BY DEF IInv, Named
<1>7. ASSUME NEW c \in 0..(n - 1), NEW i \in 1..o,
             Aged(rob[s], i).inst.tag = DpTag(g, c)
      PROVE  DpTag(g, c) = 0
  <2> SUFFICES ASSUME DpTag(g, c) # 0 PROVE FALSE
    OBVIOUS
  <2>1. PICK f \in FLEntries : ~fl[f].valid /\ fl[f].tag = DpTag(g, c)
    BY <1>7, OldTags
  <2>2. g[c].rd # 0
    BY <1>5
  <2>3. Taken(g, c) \in FLEntries /\ fl[Taken(g, c)].valid
        /\ fl[Taken(g, c)].tag = DpTag(g, c)
    BY <1>1, <2>2, NewTags
  <2>4. f = Taken(g, c)
    BY <2>1, <2>3, TagsApart
  <2> QED
    BY <2>1, <2>3, <2>4
<1>8. ASSUME NEW c \in 0..(n - 1), NEW d \in 0..(n - 1), DpTag(g, c) = DpTag(g, d)
      PROVE  c = d \/ DpTag(g, c) = 0
  BY <1>1, <1>5, <1>8, NewTags
<1> HIDE DEF q, k, o
<1>9. Aged(q, a).inst.rd = 0 <=> Aged(q, a).inst.tag = 0
  <2>1. CASE a + k \in (k + 1)..o /\ Aged(q, a).inst = Aged(rob[s], a + k).inst
    <3>1. a + k \in 1..o
      BY <1>4, <2>1
    <3> QED
      BY <1>6, <2>1, <3>1
  <2>2. ASSUME NEW c \in 0..(n - 1), Aged(q, a).inst = Renamed(t, g, c).inst
        PROVE  Aged(q, a).inst.rd = 0 <=> Aged(q, a).inst.tag = 0
    BY <1>5, <2>2
  <2> QED
    BY <1>4, <2>1, <2>2 DEF q
<1>10. ASSUME Aged(q, a).inst.tag = Aged(q, b).inst.tag
       PROVE  a = b \/ Aged(q, a).inst.tag = 0
  <2>1. ASSUME a + k \in (k + 1)..o, Aged(q, a).inst = Aged(rob[s], a + k).inst,
               b + k \in (k + 1)..o, Aged(q, b).inst = Aged(rob[s], b + k).inst
        PROVE  a = b \/ Aged(q, a).inst.tag = 0
    <3>1. a + k \in 1..o /\ b + k \in 1..o /\ (a + k = b + k => a = b)
      BY <1>4, <2>1
    <3> QED
      BY <1>6, <1>10, <2>1, <3>1
  <2>2. ASSUME a + k \in (k + 1)..o, Aged(q, a).inst = Aged(rob[s], a + k).inst,
               NEW d \in 0..(n - 1), Aged(q, b).inst = Renamed(t, g, d).inst
        PROVE  a = b \/ Aged(q, a).inst.tag = 0
    <3>1. a + k \in 1..o
      BY <1>4, <2>2
    <3> QED
      BY <1>5, <1>7, <1>10, <2>2, <3>1
  <2>3. ASSUME b + k \in (k + 1)..o, Aged(q, b).inst = Aged(rob[s], b + k).inst,
               NEW c \in 0..(n - 1), Aged(q, a).inst = Renamed(t, g, c).inst
        PROVE  a = b \/ Aged(q, a).inst.tag = 0
    <3>1. b + k \in 1..o
      BY <1>4, <2>3
    <3> QED
      BY <1>5, <1>7, <1>10, <2>3, <3>1
  <2>4. ASSUME NEW c \in 0..(n - 1), Aged(q, a).inst = Renamed(t, g, c).inst,
               NEW d \in 0..(n - 1), Aged(q, b).inst = Renamed(t, g, d).inst,
               a = (o - k) + 1 + c, b = (o - k) + 1 + d
        PROVE  a = b \/ Aged(q, a).inst.tag = 0
    BY <1>5, <1>8, <1>10, <2>4
  <2> QED
    BY <1>4, <2>1, <2>2, <2>3, <2>4 DEF q
<1> QED
  BY <1>9, <1>10 DEF q

\* And the free list keeps an entry in flight for each of them and for nothing
\* else (FL_smt.sv l.100-133).
LEMMA TagsStayHeld ==
  ASSUME IInv, NEW t, NEW n, NEW g, NEW hit, NEW taken, Cycle(t, n, g, hit, taken)
  PROVE  Held(RobAfter(t, n, g, hit, taken), NextFL(t, n, g))
<1> DEFINE q(s) == NextRing(s, t, n, g, hit, taken)
           F == NextFL(t, n, g)
<1>1. t \in Threads /\ n \in 0..DpLimit(t) /\ g \in Groups(n)
  BY DEF Cycle
<1>2. \A s \in Threads : RobAfter(t, n, g, hit, taken)[s] = q(s)
  BY DEF RobAfter
<1>3. ASSUME NEW f \in FLEntries, ~F[f].valid
      PROVE  /\ F[f].thread_idx \in Threads
             /\ \E a \in 1..Occupied(q(F[f].thread_idx)) :
                   Aged(q(F[f].thread_idx), a).inst.tag = F[f].tag
  <2>1. CASE fl[f].valid
    <3>1. f \in FlDpSel(n, g) /\ F[f].thread_idx = t /\ F[f].tag = fl[f].tag
      BY <1>1, <1>3, <2>1, EntryMoves
    <3>2. n \in Nat /\ n <= Cardinality(FreeEntries) /\ (n > 0 => ~BrMis(t))
      BY <1>1, DispatchFits
    <3>3. PICK c \in WritingChannels(g, n) : f = Taken(g, c)
      BY <3>1, <3>2, DispatchTakes
    <3>4. c \in 0..(n - 1) /\ g[c].rd # 0
      BY DEF WritingChannels
    <3>5. DpTag(g, c) = F[f].tag
      BY <3>1, <3>3, <3>4 DEF DpTag, Taken
    <3>6. ~BrMis(t)
      BY <3>2, <3>4
    <3> DEFINE a == (Occupied(rob[t]) - RtNum(rob[t])) + 1 + c
    <3>7. a \in 1..Occupied(q(t)) /\ Aged(q(t), a).inst = Renamed(t, g, c).inst
      BY <1>1, <3>4, <3>6, InstAfterEdge
    <3>8. Aged(q(t), a).inst.tag = F[f].tag
      BY <3>5, <3>7 DEF Renamed
    <3> HIDE DEF a, q, F
    <3> QED
      BY <1>1, <3>1, <3>7, <3>8
  <2>2. CASE ~fl[f].valid
    <3> DEFINE s == fl[f].thread_idx
    <3>1. s \in Threads
      BY TagsApart
    <3>2. ~(\E a : Freed(f, a))
      BY <1>1, <1>3, EntryMoves
    <3>3. ~BrMis(s) /\ F[f].thread_idx = s /\ F[f].tag = fl[f].tag
      BY <1>1, <1>3, <2>2, <3>2, EntryMoves
    <3>4. PICK a \in 1..Occupied(rob[s]) : Aged(rob[s], a).inst.tag = fl[f].tag
      BY <2>2 DEF IInv, Held
    <3>5. a \notin 1..RtNum(rob[s])
      BY <2>2, <3>2, <3>4 DEF Freed
    <3>6. /\ Occupied(rob[s]) \in Nat /\ RtNum(rob[s]) \in 0..Occupied(rob[s])
          /\ \A b \in (RtNum(rob[s]) + 1)..Occupied(rob[s]) :
                /\ b - RtNum(rob[s]) \in 1..Occupied(q(s))
                /\ Aged(q(s), b - RtNum(rob[s])).inst = Aged(rob[s], b).inst
      BY <3>1, <3>3, InstAfterEdge
    <3>7. a \in (RtNum(rob[s]) + 1)..Occupied(rob[s])
      BY <3>5, <3>6
    <3>8. /\ a - RtNum(rob[s]) \in 1..Occupied(q(s))
          /\ Aged(q(s), a - RtNum(rob[s])).inst.tag = fl[f].tag
      BY <3>4, <3>6, <3>7
    <3> HIDE DEF s, q, F
    <3> QED
      BY <3>1, <3>3, <3>8
  <2> QED
    BY <2>1, <2>2
<1>4. ASSUME NEW s \in Threads, NEW a \in 1..Occupied(q(s)), Aged(q(s), a).inst.tag # 0
      PROVE  \E f \in FLEntries : /\ ~F[f].valid /\ F[f].thread_idx = s
                                  /\ F[f].tag = Aged(q(s), a).inst.tag
  <2> DEFINE k == RtNum(rob[s])
             o == Occupied(rob[s])
  <2>1. ~BrMis(s)
    <3>1. BrMis(s) => Occupied(q(s)) = 0
      BY ThreadMoves
    <3> QED
      BY <3>1
  <2>2. /\ o \in Nat /\ k \in 0..o
        /\ \A i \in 1..Occupied(q(s)) :
            \/ /\ i + k \in (k + 1)..o
               /\ Aged(q(s), i).inst = Aged(rob[s], i + k).inst
            \/ /\ s = t
               /\ \E c \in 0..(n - 1) : Aged(q(s), i).inst = Renamed(t, g, c).inst
    BY <2>1, InstAfterEdge
  <2>3. CASE a + k \in (k + 1)..o /\ Aged(q(s), a).inst = Aged(rob[s], a + k).inst
    <3>1. a + k \in 1..o /\ a + k > k /\ k \in Nat
      BY <2>2, <2>3
    <3>2. Aged(rob[s], a + k).inst.tag # 0
      BY <1>4, <2>3
    <3>3. PICK f \in FLEntries : /\ ~fl[f].valid /\ fl[f].thread_idx = s
                                 /\ fl[f].tag = Aged(rob[s], a + k).inst.tag
                                 /\ \A b : Freed(f, b) => a + k = b
      BY <3>1, <3>2, OldTags
    <3>4. ASSUME NEW b, Freed(f, b) PROVE FALSE
      <4>1. b \in 1..k /\ b = a + k
        BY <3>3, <3>4 DEF Freed
      <4> QED
        BY <3>1, <4>1
    <3>5. ~F[f].valid /\ F[f].thread_idx = s /\ F[f].tag = fl[f].tag
      BY <1>1, <2>1, <3>3, <3>4, EntryMoves
    <3> HIDE DEF q, F
    <3> QED
      BY <2>3, <3>3, <3>5
  <2>4. ASSUME s = t, NEW c \in 0..(n - 1), Aged(q(s), a).inst = Renamed(t, g, c).inst
        PROVE  \E f \in FLEntries : /\ ~F[f].valid /\ F[f].thread_idx = s
                                    /\ F[f].tag = Aged(q(s), a).inst.tag
    <3>1. Aged(q(s), a).inst.tag = DpTag(g, c)
      BY <2>4 DEF Renamed
    <3>2. g[c].rd # 0
      BY <1>1, <1>4, <3>1, GroupHasTypes
    <3>3. /\ Taken(g, c) \in FlDpSel(n, g) /\ Taken(g, c) \in FLEntries
          /\ fl[Taken(g, c)].valid /\ fl[Taken(g, c)].tag = DpTag(g, c)
      BY <1>1, <3>2, NewTags
    <3>4. PICK f \in FLEntries : f = Taken(g, c)
      BY <3>3
    <3>5. ~F[f].valid /\ F[f].thread_idx = t /\ F[f].tag = DpTag(g, c)
      BY <1>1, <3>3, <3>4, EntryMoves
    <3> HIDE DEF q, F
    <3> QED
      BY <2>4, <3>1, <3>5
  <2> QED
    BY <2>2, <2>3, <2>4
<1> HIDE DEF q, F
<1>5. \A f \in FLEntries : ~F[f].valid =>
         \E a \in 1..Occupied(RobAfter(t, n, g, hit, taken)[F[f].thread_idx]) :
            Aged(RobAfter(t, n, g, hit, taken)[F[f].thread_idx], a).inst.tag = F[f].tag
  BY <1>2, <1>3
<1>6. \A s \in Threads : \A a \in 1..Occupied(RobAfter(t, n, g, hit, taken)[s]) :
        Aged(RobAfter(t, n, g, hit, taken)[s], a).inst.tag # 0 =>
           \E f \in FLEntries : /\ ~F[f].valid /\ F[f].thread_idx = s
               /\ F[f].tag = Aged(RobAfter(t, n, g, hit, taken)[s], a).inst.tag
  BY <1>2, <1>4
<1> QED
  BY <1>5, <1>6 DEF Held, F

-----------------------------------------------------------------------------
\* What the counter of free entries counts.

\* The entries in flight that thread s gives back in this cycle.
Back(s) ==
    {f \in FLEntries : /\ ~fl[f].valid /\ fl[f].thread_idx = s
                       /\ BrMis(s) \/ \E a : Freed(f, a)}

\* They are as many as thread_rt_num says (FL_smt.sv l.174-206).
LEMMA ReturningCounts ==
  ASSUME IInv, NEW s \in Threads
  PROVE  IsFiniteSet(Back(s)) /\ Cardinality(Back(s)) = Returning(s)
<1>1. IsFiniteSet(Back(s))
  <2>1. Back(s) \in SUBSET FLEntries
    BY DEF Back
  <2> QED
    BY <2>1, Constants, FS_Subset
<1>2. CASE BrMis(s)
  <2>1. Back(s) = {f \in FLEntries : ~fl[f].valid /\ fl[f].thread_idx = s}
    BY <1>2 DEF Back
  <2> QED
    BY <1>1, <1>2, <2>1 DEF Returning
<1>3. CASE ~BrMis(s)
  <2> DEFINE C == {k \in RetireChannels(s) : RetiringInst(s, k).tag # 0}
  <2>1. /\ Occupied(rob[s]) \in Nat /\ RtNum(rob[s]) \in 0..Occupied(rob[s])
        /\ \A k \in RetireChannels(s) : /\ k \in Nat /\ k + 1 \in 1..RtNum(rob[s])
                                        /\ RetiringInst(s, k) = Aged(rob[s], k + 1).inst
        /\ \A a \in 1..RtNum(rob[s]) : /\ a - 1 \in RetireChannels(s)
                                       /\ RetiringInst(s, a - 1) = Aged(rob[s], a).inst
    BY RetireChannelsAre DEF IInv
  <2>2. IsFiniteSet(C)
    <3>1. 0 \in Int /\ RtNum(rob[s]) - 1 \in Int
      BY <2>1
    <3>2. IsFiniteSet(RetireChannels(s))
      BY <3>1, FS_Interval DEF RetireChannels
    <3>3. C \in SUBSET RetireChannels(s)
      OBVIOUS
    <3> QED
      BY <3>2, <3>3, FS_Subset
  <2>3. ASSUME NEW k \in C
        PROVE  \E f \in FLEntries : /\ Freed(f, k + 1) /\ fl[f].thread_idx = s
                                    /\ fl[f].tag = RetiringInst(s, k).tag
    <3>1. k + 1 \in 1..RtNum(rob[s]) /\ RetiringInst(s, k) = Aged(rob[s], k + 1).inst
      BY <2>1
    <3>2. k + 1 \in 1..Occupied(rob[s]) /\ Aged(rob[s], k + 1).inst.tag # 0
      BY <2>1, <3>1
    <3>3. Aged(rob[s], k + 1).inst.rd # 0
      BY <3>2 DEF IInv, Named
    <3> QED
      BY <3>1, <3>3, RetirementFrees
  <2> DEFINE h == [k \in C |-> CHOOSE f \in FLEntries :
                      /\ Freed(f, k + 1) /\ fl[f].thread_idx = s
                      /\ fl[f].tag = RetiringInst(s, k).tag]
  <2>4. ASSUME NEW k \in C
        PROVE  /\ h[k] \in FLEntries /\ Freed(h[k], k + 1) /\ fl[h[k]].thread_idx = s
               /\ fl[h[k]].tag = RetiringInst(s, k).tag
    BY <2>3
  <2>5. ASSUME NEW k \in C PROVE h[k] \in Back(s)
    BY <2>4 DEF Back, Freed
  <2>6. ASSUME NEW f \in Back(s) PROVE \E k \in C : h[k] = f
    <3>1. PICK a : Freed(f, a)
      BY <1>3 DEF Back
    <3>2. /\ f \in FLEntries /\ fl[f].thread_idx = s /\ a \in 1..RtNum(rob[s])
          /\ Aged(rob[s], a).inst.tag = fl[f].tag
      BY <3>1 DEF Back, Freed
    <3>3. fl[f].tag # 0
      BY <3>2, TagsApart
    <3>4. a - 1 \in C /\ RetiringInst(s, a - 1).tag = fl[f].tag
      BY <2>1, <3>2, <3>3
    <3>5. h[a - 1] \in FLEntries /\ fl[h[a - 1]].tag = fl[f].tag
      BY <2>4, <3>4
    <3> HIDE DEF h
    <3>6. h[a - 1] = f
      BY <3>2, <3>5, TagsApart
    <3> QED
      BY <3>4, <3>6
  <2>7. ASSUME NEW k \in C, NEW j \in C, h[k] = h[j] PROVE k = j
    <3>1. /\ h[k] \in FLEntries /\ Freed(h[k], k + 1) /\ Freed(h[k], j + 1)
          /\ k \in Nat /\ j \in Nat
      BY <2>1, <2>4, <2>7
    <3> HIDE DEF h
    <3>2. k + 1 = j + 1
      BY <3>1, FreedOnce
    <3> QED
      BY <3>1, <3>2
  <2>8. h \in [C -> Back(s)]
    BY <2>5
  <2> HIDE DEF h, C
  <2>9. h \in Surjection(C, Back(s))
    BY <2>6, <2>8 DEF Surjection
  <2>10. h \in Injection(C, Back(s))
    BY <2>7, <2>8 DEF Injection, IsInjective
  <2>11. Cardinality(Back(s)) = Cardinality(C)
    BY <2>2, <2>9, <2>10, FS_Surjection
  <2> QED
    BY <1>1, <1>3, <2>11 DEF Returning, C
<1> QED
  BY <1>2, <1>3

\* The entries that come back are those of the threads, one thread after another.
LEMMA ReturningSums ==
  ASSUME IInv
  PROVE  /\ IsFiniteSet({f \in FLEntries : f \in Back(fl[f].thread_idx)})
         /\ ReturningBelow[THREAD_NUM] =
               Cardinality({f \in FLEntries : f \in Back(fl[f].thread_idx)})
<1> DEFINE S(j) == {f \in FLEntries : f \in Back(fl[f].thread_idx) /\ fl[f].thread_idx < j}
           c == [j \in 0..THREAD_NUM |-> Cardinality(S(j))]
<1>1. THREAD_NUM \in Nat
  BY RenameParameters
<1>2. \A f \in FLEntries : fl[f].thread_idx \in 0..(THREAD_NUM - 1)
  BY TagsApart DEF Threads
<1>3. ASSUME NEW j PROVE IsFiniteSet(S(j)) /\ Cardinality(S(j)) \in Nat
  <2>1. S(j) \in SUBSET FLEntries
    OBVIOUS
  <2> QED
    BY <2>1, Constants, FS_Subset, FS_CardinalityType
<1>4. ASSUME NEW j \in 1..THREAD_NUM
      PROVE  Cardinality(S(j)) = Cardinality(S(j - 1)) + Returning(j - 1)
  <2>1. j - 1 \in Threads
    BY <1>1 DEF Threads
  <2>2. IsFiniteSet(Back(j - 1)) /\ Cardinality(Back(j - 1)) = Returning(j - 1)
    BY <2>1, ReturningCounts
  <2>3. \A f \in Back(j - 1) : f \in FLEntries /\ fl[f].thread_idx = j - 1
    BY DEF Back
  <2>4. S(j - 1) \cap Back(j - 1) = {}
    BY <2>3
  <2>5. S(j) = S(j - 1) \cup Back(j - 1)
    <3>1. ASSUME NEW f \in S(j) PROVE f \in S(j - 1) \cup Back(j - 1)
      <4>1. fl[f].thread_idx < j - 1 \/ fl[f].thread_idx = j - 1
        BY <1>2
      <4> QED
        BY <4>1
    <3>2. ASSUME NEW f \in S(j - 1) PROVE f \in S(j)
      BY <1>2
    <3>3. ASSUME NEW f \in Back(j - 1) PROVE f \in S(j)
      BY <2>3
    <3> QED
      BY <3>1, <3>2, <3>3
  <2> HIDE DEF S
  <2>6. Cardinality(S(j)) = Cardinality(S(j - 1)) + Cardinality(Back(j - 1))
                              - Cardinality({})
    BY <1>3, <2>2, <2>4, <2>5, FS_Union
  <2>7. Cardinality({}) = 0 /\ Cardinality(Back(j - 1)) \in Nat
    BY <2>2, FS_EmptySet, FS_CardinalityType
  <2> QED
    BY <1>3, <2>2, <2>6, <2>7
<1>5. S(0) = {} /\ Cardinality(S(0)) = 0
  <2>1. S(0) = {}
    BY <1>2
  <2> QED
    BY <2>1, FS_EmptySet
<1> HIDE DEF S
<1>6. c = [j \in 0..THREAD_NUM |-> IF j = 0 THEN 0 ELSE c[j - 1] + Returning(j - 1)]
  <2>1. ASSUME NEW j \in 0..THREAD_NUM
        PROVE  c[j] = IF j = 0 THEN 0 ELSE c[j - 1] + Returning(j - 1)
    <3>1. CASE j = 0
      BY <1>5, <3>1
    <3>2. CASE j # 0
      <4>1. j \in 1..THREAD_NUM /\ j - 1 \in 0..THREAD_NUM
        BY <1>1, <3>2
      <4> QED
        BY <1>4, <3>2, <4>1
    <3> QED
      BY <3>1, <3>2
  <2> QED
    BY <2>1
<1> HIDE DEF c
<1>7. ReturningBelow = [j \in 0..THREAD_NUM |->
         IF j = 0 THEN 0 ELSE ReturningBelow[j - 1] + Returning(j - 1)]
  BY <1>6 DEF ReturningBelow
<1>8. \A j \in 0..THREAD_NUM : ReturningBelow[j] = c[j]
  <2> DEFINE D == {j \in 0..THREAD_NUM : ReturningBelow[j] # c[j]}
  <2> SUFFICES ASSUME D # {} PROVE FALSE
    OBVIOUS
  <2>1. D \in SUBSET Nat
    BY <1>1
  <2>2. PICK j \in D : \A i \in D : j <= i
    BY <2>1, LeastExists
  <2>3. j \in 0..THREAD_NUM /\ ReturningBelow[j] # c[j]
    OBVIOUS
  <2>4. j # 0
    BY <1>6, <1>7, <2>3
  <2>5. j - 1 \in 0..THREAD_NUM /\ j - 1 \notin D
    BY <1>1, <2>2, <2>3, <2>4
  <2>6. ReturningBelow[j - 1] = c[j - 1]
    BY <2>5
  <2> HIDE DEF D
  <2>7. /\ ReturningBelow[j] = ReturningBelow[j - 1] + Returning(j - 1)
        /\ c[j] = c[j - 1] + Returning(j - 1)
    BY <1>6, <1>7, <2>3, <2>4
  <2> QED
    BY <2>3, <2>6, <2>7
<1>9. S(THREAD_NUM) = {f \in FLEntries : f \in Back(fl[f].thread_idx)}
  BY <1>1, <1>2 DEF S
<1>10. c[THREAD_NUM] = Cardinality(S(THREAD_NUM))
  BY <1>1 DEF c
<1>11. IsFiniteSet(S(THREAD_NUM))
  BY <1>3
<1>12. ReturningBelow[THREAD_NUM] = Cardinality(S(THREAD_NUM))
  BY <1>1, <1>8, <1>10
<1> QED
  BY <1>9, <1>11, <1>12

\* The size of a set that loses some of its elements and gains others.
LEMMA SizeAfterExchange ==
  ASSUME NEW A, IsFiniteSet(A), NEW S \in SUBSET A, NEW B, IsFiniteSet(B), A \cap B = {}
  PROVE  /\ IsFiniteSet(S) /\ Cardinality(S) \in Nat
         /\ Cardinality((A \ S) \cup B) = Cardinality(A) - Cardinality(S) + Cardinality(B)
<1>1. IsFiniteSet(S) /\ Cardinality(S) \in Nat /\ Cardinality(A) \in Nat
      /\ Cardinality(B) \in Nat
  BY FS_Subset, FS_CardinalityType
<1>2. PICK C : C = A \ S
  OBVIOUS
<1>3. IsFiniteSet(C) /\ Cardinality(C) = Cardinality(A) - Cardinality(A \cap S)
  BY <1>2, FS_Difference, Zenon
<1>4. A \cap S = S /\ C \cap B = {}
  BY <1>2
<1>5. Cardinality(C \cup B) = Cardinality(C) + Cardinality(B) - Cardinality(C \cap B)
  BY <1>3, FS_Union, Zenon
<1>6. Cardinality(C \cap B) = 0
  BY <1>4, FS_EmptySet
<1>7. Cardinality(C) = Cardinality(A) - Cardinality(S)
  BY <1>3, <1>4, Zenon
<1>8. Cardinality(C \cup B) = Cardinality(A) - Cardinality(S) + Cardinality(B)
  BY <1>1, <1>5, <1>6, <1>7
<1> QED
  BY <1>1, <1>2, <1>8

\* The counter stays the number of free entries (FL_smt.sv l.208-219).
LEMMA CountFollows ==
  ASSUME IInv, NEW t \in Threads, NEW n \in 0..DpLimit(t), NEW g \in Groups(n)
  PROVE  Counted(NextFL(t, n, g), NextAvail(n, g))
<1> DEFINE F == NextFL(t, n, g)
           B == {f \in FLEntries : f \in Back(fl[f].thread_idx)}
           Sel == FlDpSel(n, g)
           V == {f \in FLEntries : F[f].valid}
<1>1. IsFiniteSet(FreeEntries) /\ Cardinality(FreeEntries) \in Nat
  <2>1. FreeEntries \in SUBSET FLEntries
    BY DEF FreeEntries
  <2> QED
    BY <2>1, Constants, FS_Subset, FS_CardinalityType
<1>2. /\ Sel \subseteq FreeEntries /\ IsFiniteSet(Sel)
      /\ Cardinality(Sel) = TagsBefore(g, n) /\ TagsBefore(g, n) \in Nat
  <2>1. n \in Nat /\ n <= Cardinality(FreeEntries)
    BY DispatchFits
  <2> QED
    BY <2>1, DispatchTakes
<1>3. /\ IsFiniteSet(B) /\ Cardinality(B) = ReturningBelow[THREAD_NUM]
  BY ReturningSums
<1>4. ASSUME NEW f \in FLEntries
      PROVE  /\ fl[f].valid => (F[f].valid <=> f \notin Sel)
             /\ ~fl[f].valid => (F[f].valid <=> f \in B)
  <2>1. CASE fl[f].valid
    BY <2>1, EntryMoves
  <2>2. CASE ~fl[f].valid
    <3>1. f \in B <=> (BrMis(fl[f].thread_idx) \/ \E a : Freed(f, a))
      BY <2>2 DEF Back
    <3>2. (\E a : Freed(f, a)) => F[f].valid
      BY EntryMoves
    <3>3. ~(\E a : Freed(f, a)) => (F[f].valid <=> BrMis(fl[f].thread_idx))
      BY <2>2, EntryMoves
    <3> QED
      BY <2>2, <3>1, <3>2, <3>3
  <2> QED
    BY <2>1, <2>2
<1>5. \A f \in B : f \in FLEntries /\ ~fl[f].valid
  BY DEF Back
<1>6. avail_num = Cardinality(FreeEntries)
  BY DEF IInv, Counted, FreeEntries
<1> HIDE DEF F, B, Sel
<1>7. V = (FreeEntries \ Sel) \cup B
  BY <1>2, <1>4, <1>5 DEF FreeEntries
<1>8. FreeEntries \cap B = {}
  BY <1>5 DEF FreeEntries
<1>9. Cardinality((FreeEntries \ Sel) \cup B)
        = Cardinality(FreeEntries) - Cardinality(Sel) + Cardinality(B)
  BY <1>1, <1>2, <1>3, <1>8, SizeAfterExchange
<1>10. Cardinality(B) \in Nat
  BY <1>3, FS_CardinalityType
<1>12. Cardinality(V)
        = Cardinality(FreeEntries) - Cardinality(Sel) + Cardinality(B)
  BY <1>7, <1>9, Zenon
<1> HIDE DEF V
<1>11. Cardinality(V) = avail_num + ReturningBelow[THREAD_NUM] - TagsBefore(g, n)
  BY <1>1, <1>2, <1>3, <1>6, <1>10, <1>12
<1> QED
  BY <1>11 DEF Counted, NextAvail, V, F

-----------------------------------------------------------------------------
\* What one edge does to the map table.

OwnTags(done) == {ResultOf(p).tag : p \in done}

\* The tag of a result that is no stray is that of one instruction in flight, and of
\* the right thread (MT_SS.sv l.106-121).
LEMMA BroadcastNames ==
  ASSUME IInv, NEW done \in SUBSET InFlight, NEW s \in Threads,
         NEW y \in 1..Occupied(rob[s]), Aged(rob[s], y).inst.tag # 0
  PROVE  Aged(rob[s], y).inst.tag \in OwnTags(done)
           <=> <<s, Place(rob[s], y - 1)>> \in done
<1>1. ASSUME <<s, Place(rob[s], y - 1)>> \in done
      PROVE  Aged(rob[s], y).inst.tag \in OwnTags(done)
  <2>1. PICK p \in done : p = <<s, Place(rob[s], y - 1)>>
    BY <1>1
  <2>2. rob[p[1]].array[p[2]] = Aged(rob[s], y)
    BY <2>1 DEF Aged
  <2>3. rob[p[1]].array[p[2]].inst.tag \in OwnTags(done)
    BY <2>1 DEF OwnTags, ResultOf
  <2> QED
    BY <2>2, <2>3
<1>2. ASSUME Aged(rob[s], y).inst.tag \in OwnTags(done)
      PROVE  <<s, Place(rob[s], y - 1)>> \in done
  <2>1. PICK p \in done : rob[p[1]].array[p[2]].inst.tag = Aged(rob[s], y).inst.tag
    BY <1>2 DEF OwnTags, ResultOf
  <2>2. p \in InFlight
    OBVIOUS
  <2>3. p \in Threads \X Entries /\ rob[p[1]].array[p[2]].valid
    BY <2>2 DEF InFlight, Incomplete
  <2>4. PICK u \in Threads, e \in Entries : p = <<u, e>> /\ rob[u].array[e].valid
    BY <2>3
  <2>5. Whole(Insts, {0}, rob[u])
    BY DEF IInv, Rings
  <2>6. e \in Window(rob[u])
    BY <2>4, <2>5 DEF Whole, FillsWindow
  <2>7. /\ Pointers(rob[u]) /\ Ordered(rob[u]) /\ Occupied(rob[u]) \in 0..ROB_ENTRY_NUM
    BY <2>5, AgesNow DEF Whole, Pointers, ROBOf
  <2>8. PICK c \in 0..(Occupied(rob[u]) - 1) : e = Place(rob[u], c)
    BY <2>6, <2>7, PlacesCoverWindow
  <2>9. c + 1 \in 1..Occupied(rob[u]) /\ (c + 1) - 1 = c
    BY <2>7
  <2>10. Aged(rob[u], c + 1) = rob[u].array[e]
    BY <2>8, <2>9 DEF Aged
  <2>11. Aged(rob[u], c + 1).inst.tag = Aged(rob[s], y).inst.tag
    BY <2>1, <2>4, <2>10
  <2>12. PICK f \in FLEntries : /\ fl[f].thread_idx = u
                                /\ fl[f].tag = Aged(rob[u], c + 1).inst.tag
    BY <2>9, <2>11, OldTags
  <2>13. PICK d \in FLEntries : /\ fl[d].thread_idx = s
                                /\ fl[d].tag = Aged(rob[s], y).inst.tag
    BY OldTags
  <2>14. f = d
    BY <2>11, <2>12, <2>13, TagsApart
  <2>15. u = s
    BY <2>12, <2>13, <2>14
  <2>16. c + 1 = y
    BY <2>9, <2>11, <2>15 DEF IInv, Named
  <2> QED
    BY <2>4, <2>8, <2>9, <2>15, <2>16
<1> QED
  BY <1>1, <1>2

LEMMA HeardIs ==
  ASSUME IInv, NEW late \in SUBSET strays, NEW done \in Broadcasts(late), NEW s, NEW i
  PROVE  i \in Heard(s, Completed(done, late))
            <=> <<s, i>> \in done \/ <<s, i>> \in NamedBy(late)
<1>1. \A p \in done : p = <<p[1], p[2]>>
  BY DEF Broadcasts, InFlight, Incomplete
<1>2. \A p \in NamedBy(late) : p = <<p[1], p[2]>>
  BY DEF NamedBy
<1> QED
  BY <1>1, <1>2 DEF Heard, Completed

\* In a thread that no stray has struck, nor strikes now, the strays on the bus change
\* neither what the map table makes of the tag of an instruction in flight nor what
\* the reorder buffer makes of its place.
LEMMA StraysAreHarmless ==
  ASSUME IInv, NEW late \in SUBSET strays, NEW done \in Broadcasts(late),
         NEW s \in Threads, s \notin struck, s \notin StruckBy(late), NEW x \in Regs,
         NEW y \in 1..Occupied(rob[s]),
         mt[s][x].tag = Aged(rob[s], y).inst.tag, Aged(rob[s], y).inst.tag # 0,
         mt[s][x].tag_ready <=> Aged(rob[s], y).complete
  PROVE  /\ mt[s][x].tag_ready \/ mt[s][x].tag \in CdbTags(done, late)
              <=> Aged(rob[s], y).complete \/ <<s, Place(rob[s], y - 1)>> \in done
         /\ Aged(rob[s], y).complete
               \/ Place(rob[s], y - 1) \in Heard(s, Completed(done, late))
              <=> Aged(rob[s], y).complete \/ <<s, Place(rob[s], y - 1)>> \in done
<1> DEFINE p == Place(rob[s], y - 1)
           a == Aged(rob[s], y)
<1>1. a.inst.tag \in OwnTags(done) <=> <<s, p>> \in done
  BY BroadcastNames DEF Broadcasts
<1>2. ASSUME NEW r \in late, r.tag = mt[s][x].tag PROVE mt[s][x].tag_ready
  BY <1>2 DEF StruckBy
<1>3. mt[s][x].tag \in CdbTags(done, late) =>
        mt[s][x].tag \in OwnTags(done) \/ mt[s][x].tag_ready
  BY <1>2 DEF CdbTags, OwnTags
<1>4. mt[s][x].tag \in OwnTags(done) => mt[s][x].tag \in CdbTags(done, late)
  BY DEF CdbTags, OwnTags
<1>5. p \in Heard(s, Completed(done, late))
         <=> <<s, p>> \in done \/ <<s, p>> \in NamedBy(late)
  BY HeardIs
<1>6. ASSUME <<s, p>> \in NamedBy(late) PROVE a.complete
  <2>1. <<s, p>> \notin Incomplete
    BY <1>6 DEF StruckBy
  <2>2. Whole(Insts, {0}, rob[s])
    BY DEF IInv, Rings
  <2>3. /\ Pointers(rob[s]) /\ Ordered(rob[s]) /\ FillsWindow(rob[s])
        /\ Occupied(rob[s]) \in 0..ROB_ENTRY_NUM
    BY <2>2, AgesNow DEF Whole, Pointers, ROBOf
  <2>4. y - 1 \in 0..(Occupied(rob[s]) - 1)
    BY <2>3
  <2>5. p \in Window(rob[s])
    BY <2>3, <2>4, PlacesOfRing
  <2>6. p \in Entries /\ rob[s].array[p].valid
    BY <2>3, <2>5 DEF FillsWindow, Window
  <2>7. rob[s].array[p].complete
    BY <2>1, <2>6 DEF Incomplete
  <2> QED
    BY <2>7 DEF Aged
<1> HIDE DEF p, a
<1> QED
  BY <1>1, <1>3, <1>4, <1>5, <1>6 DEF p, a

\* After an edge without a flush a register shows, behind the instructions that
\* stay and the first j channels of the group, what channel j would have read.
LEMMA MapAfterEdge ==
  ASSUME IInv, NEW t, NEW n, NEW g, NEW hit, NEW taken, Cycle(t, n, g, hit, taken),
         NEW s \in Threads, ~BrMis(s), NEW q, q = NextRing(s, t, n, g, hit, taken),
         NEW x \in Regs, NEW j \in 0..Taking(s, t, n)
  PROVE  /\ LastTag(q, NextAMT(s)[x], x, (Occupied(rob[s]) - RtNum(rob[s])) + 1 + j) =
               IF Writers(g, j, x) = {} THEN mt[s][x].tag
               ELSE DpTag(g, Youngest(Writers(g, j, x)))
         /\ IF Writers(g, j, x) = {}
            THEN LastAge(q, x, (Occupied(rob[s]) - RtNum(rob[s])) + 1 + j)
                   = LastAge(q, x, (Occupied(rob[s]) - RtNum(rob[s])) + 1)
            ELSE /\ LastAge(q, x, (Occupied(rob[s]) - RtNum(rob[s])) + 1 + j)
                      = (Occupied(rob[s]) - RtNum(rob[s])) + 1 + Youngest(Writers(g, j, x))
                 /\ Youngest(Writers(g, j, x)) \in 0..(Taking(s, t, n) - 1)
<1> DEFINE k == RtNum(rob[s])
           o == Occupied(rob[s])
           m == Taking(s, t, n)
           dp == Group(t, n, g)
<1>1. o \in Nat /\ k \in 0..o
  BY RetireChannelsAre DEF IInv
<1>2. n \in Nat /\ m \in Nat /\ m <= n
  <2>1. n \in Nat
    BY DispatchFits DEF Cycle
  <2> QED
    BY <2>1 DEF Taking
<1>3. Moves(rob[s], q, m, dp, Heard(s, hit))
  BY ThreadMoves
<1>4. \A c \in 0..(n - 1) : dp[c] = Renamed(t, g, c)
  BY DEF Group
<1>5. ChannelsBelow(dp, x, j) = Writers(g, j, x)
  <2>1. \A c \in 0..(j - 1) : c \in 0..(n - 1)
    BY <1>2
  <2>2. ASSUME NEW c \in 0..(j - 1) PROVE dp[c].inst.rd = g[c].rd
    <3>1. dp[c] = Renamed(t, g, c)
      BY <1>4, <2>1
    <3> HIDE DEF dp
    <3> QED
      BY <3>1 DEF Renamed
  <2> QED
    BY <2>2 DEF ChannelsBelow, Writers
<1> DEFINE W == Writers(g, j, x)
<1>6. W # {} => Youngest(W) \in 0..(m - 1) /\ Youngest(W) \in 0..(n - 1)
  <2>1. W \in SUBSET (0..n) /\ \A c \in W : c \in 0..(m - 1) /\ c \in 0..(n - 1)
    BY <1>2 DEF Writers
  <2> HIDE DEF W
  <2> QED
    BY <1>2, <2>1, YoungestExists
<1>7. mt[s][x].tag = LastTag(rob[s], amt[s][x], x, o + 1)
  BY DEF IInv, Mapped
<1>8. NextAMT(s)[x] = LastTag(rob[s], amt[s][x], x, k + 1)
  BY Commits
<1>9. LastTag(q, NextAMT(s)[x], x, (o - k) + 1) = mt[s][x].tag
  <2>1. o + 1 \in (k + 1)..(o + 1) /\ (o + 1) - k = (o - k) + 1
    BY <1>1
  <2>2. LastTag(q, LastTag(rob[s], amt[s][x], x, k + 1), x, (o + 1) - k)
          = LastTag(rob[s], amt[s][x], x, o + 1)
    BY <1>1, <1>2, <1>3, <2>1, LastTagMoves
  <2> QED
    BY <1>7, <1>8, <2>1, <2>2
<1>10. LastTag(q, NextAMT(s)[x], x, (o - k) + 1 + j) =
          IF W = {} THEN LastTag(q, NextAMT(s)[x], x, (o - k) + 1)
          ELSE dp[Youngest(W)].inst.tag
  BY <1>1, <1>2, <1>3, <1>5, LastTagDispatched
<1>11. W # {} => dp[Youngest(W)].inst.tag = DpTag(g, Youngest(W))
  <2> HIDE DEF W
  <2>1. W # {} => dp[Youngest(W)] = Renamed(t, g, Youngest(W))
    BY <1>4, <1>6
  <2> QED
    BY <2>1 DEF Renamed
<1>12. /\ W = {} => LastAge(q, x, (o - k) + 1 + j) = LastAge(q, x, (o - k) + 1)
       /\ W # {} => LastAge(q, x, (o - k) + 1 + j) = (o - k) + 1 + Youngest(W)
  <2> DEFINE C == ChannelsBelow(dp, x, j)
  <2>1. /\ C = {} => LastAge(q, x, (o - k) + 1 + j) = LastAge(q, x, (o - k) + 1)
        /\ C # {} => LastAge(q, x, (o - k) + 1 + j) = (o - k) + 1 + Youngest(C)
    BY <1>1, <1>2, <1>3, LastAgeDispatched
  <2>2. C = W
    BY <1>5
  <2> HIDE DEF C, W
  <2> QED
    BY <2>1, <2>2
<1> HIDE DEF k, o, m, dp, W
<1>13. LastTag(q, NextAMT(s)[x], x, (o - k) + 1 + j) =
          IF W = {} THEN mt[s][x].tag ELSE DpTag(g, Youngest(W))
  BY <1>9, <1>10, <1>11
<1>14. IF W = {} THEN LastAge(q, x, (o - k) + 1 + j) = LastAge(q, x, (o - k) + 1)
       ELSE /\ LastAge(q, x, (o - k) + 1 + j) = (o - k) + 1 + Youngest(W)
            /\ Youngest(W) \in 0..(m - 1)
  BY <1>6, <1>12
<1> QED
  BY <1>13, <1>14 DEF k, o, m, W

MtAfter(t, n, g, tags) == [s \in Threads |-> NextMT(s, t, n, g, tags)]

\* The cases of one map table entry.
LEMMA MappingMoves ==
  ASSUME IInv, NEW t, NEW n, NEW g, NEW tags, NEW s \in Threads, NEW x \in Regs
  PROVE  LET e == NextMT(s, t, n, g, tags)[x] IN
         /\ BrMis(s) => e.tag = NextAMT(s)[x] /\ e.tag_ready = TRUE
         /\ ~BrMis(s) /\ x = 0 => e.tag = 0 /\ e.tag_ready = TRUE
         /\ ~BrMis(s) /\ x # 0 /\ ~(s = t /\ Writers(g, n, x) # {}) =>
               /\ e.tag = mt[s][x].tag
               /\ e.tag_ready <=> mt[s][x].tag_ready \/ mt[s][x].tag \in tags
         /\ e.tag_ready \in BOOLEAN /\ e = [tag |-> e.tag, tag_ready |-> e.tag_ready]
<1> DEFINE e == NextMT(s, t, n, g, tags)[x]
           b == mt[s][x].tag_ready \/ mt[s][x].tag \in tags
<1>1. e = IF BrMis(s) THEN [tag |-> NextAMT(s)[x], tag_ready |-> TRUE]
          ELSE IF x = 0 THEN [tag |-> 0, tag_ready |-> TRUE]
          ELSE IF s = t /\ Writers(g, n, x) # {}
          THEN [tag |-> DpTag(g, Youngest(Writers(g, n, x))), tag_ready |-> FALSE]
          ELSE [tag |-> mt[s][x].tag, tag_ready |-> b]
  BY DEF NextMT, RolledBack, NewMapping
<1>2. b \in BOOLEAN
  OBVIOUS
<1>3. (mt[s][x].tag_ready \/ mt[s][x].tag \in tags) <=> b
  OBVIOUS
<1> HIDE DEF e, b
<1>4. CASE BrMis(s)
  BY <1>1, <1>4 DEF e
<1>5. CASE ~BrMis(s) /\ x = 0
  BY <1>1, <1>5 DEF e
<1>6. CASE ~BrMis(s) /\ x # 0 /\ s = t /\ Writers(g, n, x) # {}
  BY <1>1, <1>6 DEF e
<1>7. CASE ~BrMis(s) /\ x # 0 /\ ~(s = t /\ Writers(g, n, x) # {})
  <2>1. e = [tag |-> mt[s][x].tag, tag_ready |-> b]
    BY <1>1, <1>7
  <2>2. e.tag = mt[s][x].tag /\ e.tag_ready = b
    BY <2>1
  <2>3. e.tag_ready \in BOOLEAN /\ e = [tag |-> e.tag, tag_ready |-> e.tag_ready]
    BY <1>2, <2>1, <2>2
  <2> QED
    BY <1>3, <1>7, <2>2, <2>3 DEF e
<1> QED
  BY <1>4, <1>5, <1>6, <1>7

LEMMA DispatchMaps ==
  ASSUME NEW t \in Threads, ~BrMis(t), NEW n, NEW g, NEW x \in Regs, x # 0,
         Writers(g, n, x) # {}, NEW tags
  PROVE  NextMT(t, t, n, g, tags)[x]
           = [tag |-> DpTag(g, Youngest(Writers(g, n, x))), tag_ready |-> FALSE]
BY DEF NextMT, NewMapping

\* Nobody writes register 0.
LEMMA ZeroIsConstant ==
  ASSUME NEW r, NEW committed, NEW b
  PROVE  LastAge(r, 0, b) = 0 /\ LastTag(r, committed, 0, b) = committed
<1>1. WritersBelow(r, 0, b) = {}
  BY DEF WritersBelow
<1> QED
  BY <1>1 DEF LastAge, LastTag

\* The map table stays the youngest instruction's view (MT_SS.sv l.98-148).
LEMMA MapFollows ==
  ASSUME IInv, NEW t, NEW n, NEW g, NEW hit, NEW taken, NEW tags,
         Cycle(t, n, g, hit, taken)
  PROVE  Mapped(RobAfter(t, n, g, hit, taken), AmtAfter, MtAfter(t, n, g, tags))
<1>1. t \in Threads /\ n \in 0..DpLimit(t) /\ g \in Groups(n) /\ n \in Nat
  BY DispatchFits DEF Cycle
<1>2. Shared(NextFL(t, n, g), AmtAfter)
  BY <1>1, TagsStayShared
<1>3. ASSUME NEW s \in Threads, NEW x \in Regs
      PROVE  LET q == NextRing(s, t, n, g, hit, taken)
                 e == NextMT(s, t, n, g, tags)[x]
             IN  /\ e \in [tag : Tags, tag_ready : BOOLEAN]
                 /\ e.tag = LastTag(q, NextAMT(s)[x], x, Occupied(q) + 1)
  <2> DEFINE q == NextRing(s, t, n, g, hit, taken)
             e == NextMT(s, t, n, g, tags)[x]
             o == Occupied(rob[s])
             k == RtNum(rob[s])
             m == Taking(s, t, n)
  <2>0. /\ ~BrMis(s) /\ x = 0 => e.tag = 0 /\ e.tag_ready = TRUE
        /\ ~BrMis(s) /\ x # 0 /\ ~(s = t /\ Writers(g, n, x) # {}) =>
              /\ e.tag = mt[s][x].tag
              /\ e.tag_ready <=> mt[s][x].tag_ready \/ mt[s][x].tag \in tags
    BY MappingMoves
  <2>1. NextAMT(s)[x] \in Tags /\ NextAMT(s)[0] = 0
    <3>1. AmtAfter[s] = NextAMT(s)
      BY DEF AmtAfter
    <3> QED
      BY <1>2, <3>1 DEF Shared
  <2>2. e.tag_ready \in BOOLEAN /\ e = [tag |-> e.tag, tag_ready |-> e.tag_ready]
    BY MappingMoves
  <2>3. ASSUME e.tag \in Tags PROVE e \in [tag : Tags, tag_ready : BOOLEAN]
    <3> HIDE DEF e
    <3>1. PICK v, w : v = e.tag /\ w = e.tag_ready
      OBVIOUS
    <3>2. v \in Tags /\ w \in BOOLEAN /\ e = [tag |-> v, tag_ready |-> w]
      BY <2>2, <2>3, <3>1
    <3> QED
      BY <3>2
  <2>4. CASE BrMis(s)
    <3>1. e.tag = NextAMT(s)[x]
      BY <2>4, MappingMoves
    <3>2. Occupied(q) = 0
      BY <2>4, ThreadMoves
    <3>3. WritersBelow(q, x, Occupied(q) + 1) = {}
      BY <3>2 DEF WritersBelow
    <3>4. LastTag(q, NextAMT(s)[x], x, Occupied(q) + 1) = NextAMT(s)[x]
      BY <3>3 DEF LastTag, LastAge
    <3> QED
      BY <2>1, <2>3, <3>1, <3>4
  <2>5. CASE ~BrMis(s) /\ x = 0
    <3>1. e.tag = 0
      BY <2>5, MappingMoves
    <3>2. LastTag(q, NextAMT(s)[x], x, Occupied(q) + 1) = 0
      BY <2>1, <2>5, ZeroIsConstant
    <3> QED
      BY <2>3, <3>1, <3>2, Constants
  <2>6. CASE ~BrMis(s) /\ x # 0
    <3>1. /\ o \in Nat /\ k \in 0..o /\ Occupied(q) = (o - k) + m
      BY <2>6, InstAfterEdge
    <3>2. m \in Nat /\ m \in 0..m /\ (s = t => m = n) /\ (s # t => m = 0)
      BY <1>1 DEF Taking
    <3>3. /\ LastTag(q, NextAMT(s)[x], x, (o - k) + 1 + m) =
               IF Writers(g, m, x) = {} THEN mt[s][x].tag
               ELSE DpTag(g, Youngest(Writers(g, m, x)))
          /\ Writers(g, m, x) # {} => Youngest(Writers(g, m, x)) \in 0..(m - 1)
      BY <2>6, <3>2, MapAfterEdge
    <3>4. Occupied(q) + 1 = (o - k) + 1 + m
      BY <3>1, <3>2
    <3>5. s # t => Writers(g, m, x) = {}
      BY <3>2 DEF Writers
    <3>6. (s = t /\ Writers(g, n, x) # {}) <=> Writers(g, m, x) # {}
      BY <3>2, <3>5
    <3>7. e.tag = IF Writers(g, m, x) = {} THEN mt[s][x].tag
                  ELSE DpTag(g, Youngest(Writers(g, m, x)))
      <4>1. CASE Writers(g, m, x) = {}
        <5> HIDE DEF e, m
        <5> QED
          BY <2>0, <2>6, <3>6, <4>1
      <4>2. CASE Writers(g, m, x) # {}
        <5>1. e.tag = DpTag(g, Youngest(Writers(g, n, x)))
          <6>1. ~BrMis(s) /\ x # 0 /\ s = t /\ Writers(g, n, x) # {}
            BY <2>6, <3>6, <4>2
          <6>2. ~BrMis(t) /\ x # 0 /\ t \in Threads /\ Writers(g, n, x) # {}
            BY <6>1
          <6>3. NextMT(t, t, n, g, tags)[x]
                  = [tag |-> DpTag(g, Youngest(Writers(g, n, x))), tag_ready |-> FALSE]
            BY <6>2, DispatchMaps
          <6>4. e = [tag |-> DpTag(g, Youngest(Writers(g, n, x))), tag_ready |-> FALSE]
            BY <6>1, <6>3
          <6> HIDE DEF e
          <6> QED
            BY <6>4
        <5> QED
          BY <3>2, <3>6, <4>2, <5>1
      <4> QED
        BY <4>1, <4>2
    <3>8. e.tag \in Tags
      <4>1. CASE Writers(g, m, x) = {}
        <5>1. mt[s][x].tag \in Tags
          BY DEF IInv, Mapped
        <5> QED
          BY <3>7, <4>1, <5>1
      <4>2. CASE Writers(g, m, x) # {}
        <5>1. Youngest(Writers(g, m, x)) \in 0..(n - 1)
          BY <3>2, <3>3, <3>6, <4>2
        <5>2. DpTag(g, Youngest(Writers(g, m, x))) \in Tags
          BY <1>1, <5>1, GroupHasTypes
        <5> QED
          BY <3>7, <4>2, <5>2
      <4> QED
        BY <4>1, <4>2
    <3> HIDE DEF e, q, o, k, m
    <3>9. e.tag = LastTag(q, NextAMT(s)[x], x, Occupied(q) + 1)
      BY <3>3, <3>4, <3>7
    <3> QED
      BY <2>3, <3>8, <3>9 DEF e, q
  <2> QED
    BY <2>4, <2>5, <2>6
<1>4. \A s \in Threads : MtAfter(t, n, g, tags)[s] =
         [x \in Regs |-> NextMT(s, t, n, g, tags)[x]]
  BY DEF MtAfter, NextMT
<1>5. MtAfter(t, n, g, tags) \in [Threads -> [Regs -> [tag : Tags, tag_ready : BOOLEAN]]]
  <2>1. \A s \in Threads : MtAfter(t, n, g, tags)[s]
                              \in [Regs -> [tag : Tags, tag_ready : BOOLEAN]]
    BY <1>3, <1>4
  <2>2. MtAfter(t, n, g, tags) = [s \in Threads |-> MtAfter(t, n, g, tags)[s]]
    BY DEF MtAfter
  <2> QED
    BY <2>1, <2>2
<1>6. ASSUME NEW s \in Threads, NEW x \in Regs
      PROVE  MtAfter(t, n, g, tags)[s][x].tag
               = LastTag(RobAfter(t, n, g, hit, taken)[s], AmtAfter[s][x], x,
                         Occupied(RobAfter(t, n, g, hit, taken)[s]) + 1)
  BY <1>3 DEF MtAfter, RobAfter, AmtAfter
<1> QED
  BY <1>5, <1>6 DEF Mapped

\* What an instruction will free stays what it replaced (MT_SS.sv l.86-89).
LEMMA FreesStay ==
  ASSUME IInv, NEW t, NEW n, NEW g, NEW hit, NEW taken, Cycle(t, n, g, hit, taken)
  PROVE  Frees(RobAfter(t, n, g, hit, taken), AmtAfter)
<1>1. t \in Threads /\ n \in 0..DpLimit(t) /\ g \in Groups(n) /\ n \in Nat
  BY DispatchFits DEF Cycle
<1>2. SUFFICES ASSUME NEW s \in Threads,
                      NEW a \in 1..Occupied(NextRing(s, t, n, g, hit, taken)),
                      Aged(NextRing(s, t, n, g, hit, taken), a).inst.rd # 0
               PROVE  LET q == NextRing(s, t, n, g, hit, taken)
                          i == Aged(q, a).inst
                      IN  i.tag_old = LastTag(q, NextAMT(s)[i.rd], i.rd, a)
  BY DEF RobAfter, AmtAfter, Frees
<1> DEFINE q == NextRing(s, t, n, g, hit, taken)
           i == Aged(q, a).inst
           k == RtNum(rob[s])
           o == Occupied(rob[s])
<1>3. ~BrMis(s)
  <2>1. BrMis(s) => Occupied(q) = 0
    BY ThreadMoves
  <2> QED
    BY <2>1
<1>4. /\ o \in Nat /\ k \in 0..o
      /\ \A b \in 1..Occupied(q) :
            \/ /\ b + k \in (k + 1)..o
               /\ Aged(q, b).inst = Aged(rob[s], b + k).inst
            \/ /\ s = t
               /\ \E c \in 0..(n - 1) : /\ b = (o - k) + 1 + c
                                        /\ Aged(q, b).inst = Renamed(t, g, c).inst
  BY <1>3, InstAfterEdge
<1>5. Moves(rob[s], q, Taking(s, t, n), Group(t, n, g), Heard(s, hit))
      /\ Taking(s, t, n) \in Nat
  BY <1>1, <1>3, ThreadMoves DEF Taking
<1>6. CASE a + k \in (k + 1)..o /\ i = Aged(rob[s], a + k).inst
  <2>1. a + k \in 1..o /\ a + k \in (k + 1)..(o + 1) /\ (a + k) - k = a
    BY <1>4, <1>6
  <2>2. Whole(Insts, {0}, rob[s])
    BY DEF IInv, Rings
  <2>3. i.rd \in Regs
    <3>1. Aged(rob[s], a + k) \in EntryOf(Insts, {0})
      BY <2>1, <2>2, AgesNow
    <3>2. Aged(rob[s], a + k).inst \in Insts \cup {NoInst}
      BY <3>1 DEF EntryOf
    <3>3. NoInst \in Insts
      BY RenameParameters, Constants DEF NoRename, Insts
    <3>4. Aged(rob[s], a + k).inst.rd \in Regs
      BY <3>2, <3>3 DEF Insts
    <3> QED
      BY <1>6, <3>4
  <2> HIDE DEF i, k, o, q
  <2>4. i.rd # 0
    BY <1>2 DEF i, q
  <2>5. i.tag_old = LastTag(rob[s], amt[s][i.rd], i.rd, a + k)
    BY <1>6, <2>1, <2>4 DEF IInv, Frees, o
  <2>6. NextAMT(s)[i.rd] = LastTag(rob[s], amt[s][i.rd], i.rd, k + 1)
    BY <2>3, Commits DEF k
  <2>7. LastTag(q, LastTag(rob[s], amt[s][i.rd], i.rd, k + 1), i.rd, (a + k) - k)
          = LastTag(rob[s], amt[s][i.rd], i.rd, a + k)
    BY <1>4, <1>5, <2>1, LastTagMoves DEF k, o
  <2> QED
    BY <2>1, <2>5, <2>6, <2>7 DEF i, q
<1>7. ASSUME s = t, NEW c \in 0..(n - 1), a = (o - k) + 1 + c,
             i = Renamed(t, g, c).inst
      PROVE  i.tag_old = LastTag(q, NextAMT(s)[i.rd], i.rd, a)
  <2>1. c \in 0..Taking(s, t, n)
    BY <1>1, <1>7 DEF Taking
  <2>2. /\ i.rd = g[c].rd /\ i.tag_old = MtTag(t, g, c, g[c].rd)
    <3> HIDE DEF i
    <3> QED
      BY <1>7 DEF Renamed
  <2>3. i.rd \in Regs
    BY <1>1, <2>2, GroupHasTypes
  <2> HIDE DEF i, k, o, q
  <2>4. LastTag(q, NextAMT(s)[i.rd], i.rd, (o - k) + 1 + c) =
               IF Writers(g, c, i.rd) = {} THEN mt[s][i.rd].tag
               ELSE DpTag(g, Youngest(Writers(g, c, i.rd)))
    BY <1>3, <2>1, <2>3, MapAfterEdge DEF k, o, q
  <2> QED
    BY <1>7, <2>2, <2>4 DEF MtTag
<1> QED
  BY <1>4, <1>6, <1>7

\* The threads that are struck after an edge.
StruckAfter(late) == {s \in struck \cup StruckBy(late) : ~BrMis(s)}

\* A register is ready after the edge exactly when its last writer has completed:
\* the broadcasts of the cycle, and of no older writer, are taken into account
\* (MT_SS.sv l.106-121).
LEMMA ReadyFollows ==
  ASSUME IInv, NEW t, NEW n, NEW g, NEW hit, NEW taken, Cycle(t, n, g, hit, taken),
         NEW late \in SUBSET strays, NEW done \in Broadcasts(late),
         hit = Completed(done, late), NEW tags, tags = CdbTags(done, late)
  PROVE  Readied(RobAfter(t, n, g, hit, taken), MtAfter(t, n, g, tags),
                 StruckAfter(late))
<1>1. /\ t \in Threads /\ n \in 0..DpLimit(t) /\ g \in Groups(n) /\ n \in Nat
  BY DispatchFits DEF Cycle
<1>2. ASSUME NEW s \in Threads, s \notin StruckAfter(late), NEW x \in Regs
      PROVE  LET q == NextRing(s, t, n, g, hit, taken)
                 e == NextMT(s, t, n, g, tags)[x]
                 y == LastAge(q, x, Occupied(q) + 1)
             IN  e.tag_ready <=> (y = 0 \/ Aged(q, y).complete)
  <2> DEFINE q == NextRing(s, t, n, g, hit, taken)
             e == NextMT(s, t, n, g, tags)[x]
             y == LastAge(q, x, Occupied(q) + 1)
             o == Occupied(rob[s])
             k == RtNum(rob[s])
             m == Taking(s, t, n)
  <2>0. /\ BrMis(s) => e.tag_ready = TRUE
        /\ ~BrMis(s) /\ x = 0 => e.tag = 0 /\ e.tag_ready = TRUE
        /\ ~BrMis(s) /\ x # 0 /\ ~(s = t /\ Writers(g, n, x) # {}) =>
              /\ e.tag = mt[s][x].tag
              /\ e.tag_ready <=> mt[s][x].tag_ready \/ mt[s][x].tag \in tags
    BY ONLY IInv, s \in Threads, x \in Regs, MappingMoves
  <2>1. CASE BrMis(s)
    <3>1. e.tag_ready = TRUE
      BY <2>0, <2>1
    <3>2. Occupied(q) = 0
      BY <2>1, ThreadMoves
    <3>3. WritersBelow(q, x, Occupied(q) + 1) = {}
      BY <3>2 DEF WritersBelow
    <3>4. y = 0
      BY <3>3 DEF LastAge
    <3> QED
      BY <3>1, <3>4
  <2>2. CASE ~BrMis(s) /\ x = 0
    <3>1. e.tag_ready = TRUE
      BY <2>0, <2>2
    <3>2. y = 0
      BY <2>2, ZeroIsConstant
    <3> QED
      BY <3>1, <3>2
  <2>3. CASE ~BrMis(s) /\ x # 0
    <3>1. /\ o \in Nat /\ k \in 0..o /\ Occupied(q) = (o - k) + m
      BY <2>3, InstAfterEdge
    <3>2. m \in Nat /\ m \in 0..m /\ (s = t => m = n) /\ (s # t => m = 0)
      BY <1>1 DEF Taking
    <3>3. Moves(rob[s], q, m, Group(t, n, g), Heard(s, hit))
      BY <2>3, ThreadMoves
    <3>4. IF Writers(g, m, x) = {}
          THEN LastAge(q, x, (o - k) + 1 + m) = LastAge(q, x, (o - k) + 1)
          ELSE /\ LastAge(q, x, (o - k) + 1 + m)
                    = (o - k) + 1 + Youngest(Writers(g, m, x))
               /\ Youngest(Writers(g, m, x)) \in 0..(m - 1)
      BY <2>3, <3>2, MapAfterEdge
    <3>5. Occupied(q) + 1 = (o - k) + 1 + m
      BY <3>1, <3>2
    <3>6. s # t => Writers(g, m, x) = {}
      BY <3>2 DEF Writers
    <3>7. (s = t /\ Writers(g, n, x) # {}) <=> Writers(g, m, x) # {}
      BY <3>2, <3>6
    <3>8. CASE Writers(g, m, x) # {}
      <4>1. e.tag_ready = FALSE
        <5>1. ~BrMis(s) /\ x # 0 /\ s = t /\ Writers(g, n, x) # {}
          BY <2>3, <3>7, <3>8
        <5>2. ~BrMis(t) /\ x # 0 /\ t \in Threads /\ Writers(g, n, x) # {}
          BY <5>1
        <5>3. NextMT(t, t, n, g, tags)[x]
                = [tag |-> DpTag(g, Youngest(Writers(g, n, x))), tag_ready |-> FALSE]
          BY <5>2, DispatchMaps
        <5>4. e = [tag |-> DpTag(g, Youngest(Writers(g, n, x))), tag_ready |-> FALSE]
          BY <5>1, <5>3
        <5> HIDE DEF e
        <5> QED
          BY <5>4
      <4> DEFINE c == Youngest(Writers(g, m, x))
      <4>2. y = (o - k) + 1 + c /\ c \in 0..(m - 1)
        BY <3>4, <3>5, <3>8
      <4>3. ~Aged(q, (o - k) + 1 + c).complete
        BY <3>3, <4>2 DEF Moves
      <4>4. y # 0
        BY <3>1, <4>2
      <4> HIDE DEF y, q, c, e, o, k
      <4> QED
        BY <4>1, <4>2, <4>3, <4>4 DEF y, e, q
    <3>9. CASE Writers(g, m, x) = {}
      <4> DEFINE old == LastAge(rob[s], x, o + 1)
      <4>1. e.tag_ready <=> mt[s][x].tag_ready \/ mt[s][x].tag \in tags
        <5> HIDE DEF e, m
        <5> QED
          BY <2>0, <2>3, <3>7, <3>9
      <4>2. mt[s][x].tag_ready <=> (old = 0 \/ Aged(rob[s], old).complete)
        <5>1. s \notin struck
          BY <1>2, <2>3 DEF StruckAfter
        <5> QED
          BY <5>1 DEF IInv, Readied
      <4>3. o + 1 \in (k + 1)..(o + 1) /\ (o + 1) - k = (o - k) + 1
        BY <3>1
      <4>4. y = LastAge(q, x, (o + 1) - k)
        BY <3>4, <3>5, <3>9, <4>3
      <4>5. /\ old > k => LastAge(q, x, (o + 1) - k) = old - k
            /\ old <= k => LastAge(q, x, (o + 1) - k) = 0
        BY <3>1, <3>2, <3>3, <4>3, LastAgeMoves
      <4>6. /\ old \in 0..o
            /\ old # 0 => old \in WritersBelow(rob[s], x, o + 1)
        BY <3>1, LastAgeFound
      <4>7. Whole(Insts, {0}, rob[s])
        BY DEF IInv, Rings
      <4>8. CASE old <= k
        <5>1. y = 0
          BY <4>4, <4>5, <4>8
        <5>2. old # 0 => Aged(rob[s], old).complete
          <6>1. old # 0 => old \in 1..k
            BY <3>1, <4>6, <4>8
          <6> QED
            BY <4>7, <6>1, AgesNow
        <5> HIDE DEF e, y, old
        <5> QED
          BY <4>1, <4>2, <5>1, <5>2 DEF e, y
      <4>9. CASE old > k
        <5>1. old \in 1..o /\ old # 0 /\ old - k \in 1..(o - k) /\ (old - k) + k = old
              /\ old - k # 0
          BY <3>1, <4>6, <4>9
        <5>2. y = old - k
          BY <4>4, <4>5, <4>9
        <5>3. Aged(q, old - k).complete <=>
                \/ Aged(rob[s], (old - k) + k).complete
                \/ Place(rob[s], ((old - k) + k) - 1) \in Heard(s, hit)
          BY <3>3, <5>1 DEF Moves
        <5>4. mt[s][x].tag = Aged(rob[s], old).inst.tag
          <6>1. mt[s][x].tag = LastTag(rob[s], amt[s][x], x, o + 1)
            BY DEF IInv, Mapped
          <6> HIDE DEF old
          <6> QED
            BY <5>1, <6>1 DEF LastTag, old
        <5>5. Aged(rob[s], old).inst.tag # 0
          <6>1. Aged(rob[s], old).inst.rd = x
            BY <4>6, <5>1 DEF WritersBelow
          <6> HIDE DEF old
          <6> QED
            BY <2>3, <5>1, <6>1 DEF IInv, Named
        <5> HIDE DEF e, y, old, q
        <5>6. s \notin struck /\ s \notin StruckBy(late)
          BY <1>2, <2>3 DEF StruckAfter
        <5>7. /\ mt[s][x].tag_ready \/ mt[s][x].tag \in tags
                   <=> Aged(rob[s], old).complete
                         \/ Place(rob[s], old - 1) \in Heard(s, hit)
          BY <4>2, <5>1, <5>4, <5>5, <5>6, StraysAreHarmless
        <5>8. e.tag_ready <=> Aged(q, y).complete
          BY <4>1, <5>1, <5>2, <5>3, <5>7
        <5> QED
          BY <5>1, <5>2, <5>8 DEF e, y, q
      <4> QED
        BY <3>1, <4>6, <4>8, <4>9
    <3> QED
      BY <3>8, <3>9
  <2> QED
    BY <2>1, <2>2, <2>3
<1>3. ASSUME NEW s \in Threads, NEW x \in Regs
      PROVE  /\ MtAfter(t, n, g, tags)[s][x] = NextMT(s, t, n, g, tags)[x]
             /\ RobAfter(t, n, g, hit, taken)[s] = NextRing(s, t, n, g, hit, taken)
  BY DEF MtAfter, RobAfter
<1> QED
  BY <1>2, <1>3 DEF Readied

-----------------------------------------------------------------------------
\* The tables after reset.

\* Multiples of a.
LEMMA Multiples ==
  ASSUME NEW a \in Nat
  PROVE  /\ \A t \in Nat : t * a \in Nat /\ (t + 1) * a = t * a + a
         /\ \A t, u \in Nat : t < u => t * a + a <= u * a
<1>1. ASSUME NEW t \in Nat PROVE t * a \in Nat /\ (t + 1) * a = t * a + a
  OBVIOUS
<1>2. ASSUME NEW t \in Nat, NEW u \in Nat, t < u PROVE t * a + a <= u * a
  <2>1. PICK d \in Nat : u = (t + 1) + d
    <3>1. u - (t + 1) \in Nat /\ u = (t + 1) + (u - (t + 1))
      BY <1>2
    <3> QED
      BY <3>1
  <2>2. d * a \in Nat
    OBVIOUS
  <2>3. u * a = (t * a + a) + d * a
    BY <2>1
  <2>4. t * a + a \in Nat
    OBVIOUS
  <2> QED
    BY <2>2, <2>3, <2>4
<1> QED
  BY <1>1, <1>2

\* The tags that reset gives to the registers and to the free list.
LEMMA ResetTags ==
  LET a == ARCH_REG_NUM - 1 IN
  /\ a \in Nat /\ THREAD_NUM * a \in Nat
  /\ \A t \in Threads : \A x \in Regs \ {0} :
        /\ x \in 1..a /\ t \in Nat /\ t * a \in Nat
        /\ ResetTag(t, x) = x + t * a
        /\ ResetTag(t, x) \in 1..(THREAD_NUM * a)
  /\ FL_START_TAG = THREAD_NUM * a + 1
  /\ FL_ENTRY_NUM = PHY_REG_NUM - (THREAD_NUM * a + 1) /\ FL_ENTRY_NUM > 0
<1> DEFINE a == ARCH_REG_NUM - 1
<1>1. /\ a \in Nat /\ THREAD_NUM \in Nat /\ THREAD_NUM > 0 /\ PHY_REG_NUM \in Nat
      /\ ARCH_REG_NUM = a + 1
  BY RenameParameters
<1>2. FL_ENTRY_NUM = PHY_REG_NUM - a * THREAD_NUM - 1 /\ FL_ENTRY_NUM > 0
  BY RenameParameters DEF FL_ENTRY_NUM
<1>3. FL_START_TAG = THREAD_NUM * (a + 1) - (THREAD_NUM - 1)
  BY <1>1 DEF FL_START_TAG
<1>4. ASSUME NEW t \in Threads, NEW x \in Regs \ {0}
      PROVE  x \in 1..a /\ t \in Nat /\ t < THREAD_NUM /\ ResetTag(t, x) = x + t * a
  BY <1>1 DEF Threads, Regs, ResetTag
<1> HIDE DEF a
<1>5. THREAD_NUM * a \in Nat /\ THREAD_NUM * (a + 1) = THREAD_NUM * a + THREAD_NUM
      /\ a * THREAD_NUM = THREAD_NUM * a
  BY <1>1
<1>6. FL_START_TAG = THREAD_NUM * a + 1
      /\ FL_ENTRY_NUM = PHY_REG_NUM - (THREAD_NUM * a + 1)
  BY <1>1, <1>2, <1>3, <1>5
<1>7. ASSUME NEW t \in Threads, NEW x \in Regs \ {0}
      PROVE  t * a \in Nat /\ ResetTag(t, x) \in 1..(THREAD_NUM * a)
  <2>1. x \in 1..a /\ t \in Nat /\ t < THREAD_NUM /\ ResetTag(t, x) = x + t * a
    BY <1>4
  <2>2. t * a \in Nat /\ t * a + a <= THREAD_NUM * a
    BY <1>1, <2>1, Multiples
  <2> QED
    BY <1>1, <1>5, <2>1, <2>2
<1> QED
  BY <1>1, <1>2, <1>4, <1>5, <1>6, <1>7 DEF a

\* Reset shares out the tags.
LEMMA ResetShares ==
  ASSUME Init
  PROVE  Shared(fl, amt)
<1> DEFINE a == ARCH_REG_NUM - 1
           m == THREAD_NUM * a
<1>1. /\ a \in Nat /\ m \in Nat
      /\ \A t \in Threads : \A x \in Regs \ {0} :
            /\ x \in 1..a /\ t \in Nat /\ t * a \in Nat
            /\ ResetTag(t, x) = x + t * a /\ ResetTag(t, x) \in 1..m
      /\ FL_START_TAG = m + 1
      /\ FL_ENTRY_NUM = PHY_REG_NUM - (m + 1) /\ FL_ENTRY_NUM > 0
  BY ResetTags
<1>2. THREAD_NUM \in Nat /\ THREAD_NUM > 0 /\ PHY_REG_NUM \in Nat
      /\ Regs = 0..a /\ Threads = 0..(THREAD_NUM - 1) /\ Tags = 0..(PHY_REG_NUM - 1)
      /\ FLEntries = 0..(FL_ENTRY_NUM - 1)
  BY RenameParameters DEF Regs, Threads, Tags, FLEntries
<1>3. \A t, u \in Nat : t < u => t * a + a <= u * a
  BY <1>1, Multiples
<1>4. \A t \in Nat : (t + 1) * a = t * a + a /\ t * a \in Nat
  BY <1>1, Multiples
<1>5. \A f \in FLEntries : fl[f] = [valid |-> TRUE, thread_idx |-> 0, tag |-> f + (m + 1)]
  BY <1>1 DEF Init
<1>6. \A t \in Threads : \A x \in Regs : amt[t][x] = ResetTag(t, x)
  BY DEF Init
<1>7. amt = [t \in Threads |-> [r \in Regs |-> ResetTag(t, r)]]
      /\ fl = [f \in FLEntries |-> fl[f]]
  BY DEF Init
<1> HIDE DEF a, m
<1>8. \A f \in FLEntries : f \in Nat /\ f + (m + 1) \in (m + 1)..(PHY_REG_NUM - 1)
  BY <1>1, <1>2
<1>9. \A v \in (m + 1)..(PHY_REG_NUM - 1) : v - (m + 1) \in FLEntries
                                            /\ (v - (m + 1)) + (m + 1) = v
  BY <1>1, <1>2
<1>10. \A t \in Threads : ResetTag(t, 0) = 0
  BY DEF ResetTag
<1>11. \A v \in 1..m : v \in Tags /\ v # 0
  BY <1>1, <1>2
<1>12. \A t \in Threads : \A x \in Regs : ResetTag(t, x) \in Tags
  BY <1>1, <1>10, <1>11, Constants
<1>13. ASSUME NEW s \in Threads, NEW t \in Threads, NEW x \in Regs \ {0}, NEW y \in Regs \ {0},
              ResetTag(s, x) = ResetTag(t, y)
       PROVE  s = t /\ x = y
  <2>1. x + s * a = y + t * a /\ x \in 1..a /\ y \in 1..a /\ s \in Nat /\ t \in Nat
        /\ s * a \in Nat /\ t * a \in Nat
    BY <1>1, <1>13
  <2>2. ~(s < t)
    BY <1>1, <1>3, <2>1
  <2>3. ~(t < s)
    BY <1>1, <1>3, <2>1
  <2>4. s = t
    BY <2>1, <2>2, <2>3
  <2> QED
    BY <2>1, <2>4
<1>14. ASSUME NEW v \in 1..m
       PROVE  \E t \in Threads : \E x \in Regs \ {0} : ResetTag(t, x) = v
  <2> DEFINE S == {t \in Nat : v <= (t + 1) * a}
  <2>1. THREAD_NUM - 1 \in Nat /\ (THREAD_NUM - 1) + 1 = THREAD_NUM
    BY <1>2
  <2>2. THREAD_NUM - 1 \in S
    BY <2>1 DEF m
  <2>3. \A t \in S : t \in Nat
    OBVIOUS
  <2> HIDE DEF S
  <2>4. PICK t \in S : \A u \in S : t <= u
    BY <2>2, <2>3, LeastExists
  <2>5. t \in Nat /\ v <= t * a + a /\ t * a \in Nat
    BY <1>4, <2>4 DEF S
  <2>6. t \in Threads
    BY <1>2, <2>1, <2>2, <2>4, <2>5
  <2>7. t * a < v
    <3>1. CASE t = 0
      <4>1. t * a = 0
        BY <1>1, <3>1
      <4> QED
        BY <1>1, <4>1
    <3>2. CASE t # 0
      <4>1. t - 1 \in Nat /\ (t - 1) + 1 = t /\ ~(t <= t - 1)
        BY <2>5, <3>2
      <4>2. t - 1 \notin S
        BY <2>4, <4>1
      <4>3. ~(v <= ((t - 1) + 1) * a)
        BY <4>1, <4>2 DEF S
      <4> QED
        BY <1>1, <2>5, <4>1, <4>3
    <3> QED
      BY <3>1, <3>2
  <2>8. v - t * a \in 1..a /\ (v - t * a) + t * a = v
    BY <1>1, <2>5, <2>7
  <2>9. v - t * a \in Regs \ {0}
    BY <1>1, <1>2, <2>8
  <2>10. ResetTag(t, v - t * a) = v
    BY <1>1, <2>6, <2>8, <2>9
  <2> QED
    BY <2>6, <2>9, <2>10
<1>15. fl \in [FLEntries -> [valid : BOOLEAN, thread_idx : Threads, tag : Tags]]
  <2>1. \A f \in FLEntries : f + (m + 1) \in Tags
    BY <1>1, <1>2, <1>8
  <2>2. ASSUME NEW f \in FLEntries
        PROVE  fl[f] \in [valid : BOOLEAN, thread_idx : Threads, tag : Tags]
    <3>1. PICK w \in Tags : w = f + (m + 1)
      BY <2>1
    <3>2. fl[f] = [valid |-> TRUE, thread_idx |-> 0, tag |-> w]
      BY <1>5, <3>1
    <3> QED
      BY <3>2, Constants
  <2> QED
    BY <1>7, <2>2
<1>16. amt \in [Threads -> [Regs -> Tags]]
  BY <1>7, <1>12
<1>17. \A t \in Threads : amt[t][0] = 0
  BY <1>6, <1>10, Constants
<1>18. ASSUME NEW f \in FLEntries PROVE fl[f].tag = f + (m + 1) /\ fl[f].tag # 0
  <2>1. fl[f].tag = f + (m + 1)
    <3>1. PICK w : w = f + (m + 1)
      OBVIOUS
    <3>2. fl[f] = [valid |-> TRUE, thread_idx |-> 0, tag |-> w]
      BY <1>5, <3>1
    <3>3. fl[f].tag = w
      BY <3>2
    <3> QED
      BY <3>1, <3>3
  <2> QED
    BY <1>1, <1>8, <2>1
<1>19. \A f, e \in FLEntries : fl[f].tag = fl[e].tag => f = e
  BY <1>1, <1>8, <1>18
<1>20. \A t \in Threads : \A x \in Regs \ {0} : amt[t][x] \in 1..m
  BY <1>1, <1>6
<1>21. \A f \in FLEntries : \A t \in Threads : \A x \in Regs \ {0} : fl[f].tag # amt[t][x]
  BY <1>1, <1>8, <1>18, <1>20
<1>22. \A t \in Threads : \A x \in Regs \ {0} : amt[t][x] # 0
  BY <1>1, <1>20
<1>23. \A s, t \in Threads : \A x, y \in Regs \ {0} : amt[s][x] = amt[t][y] => s = t /\ x = y
  BY <1>6, <1>13
<1>24. ASSUME NEW v \in Tags \ {0}
       PROVE  \/ \E f \in FLEntries : fl[f].tag = v
              \/ \E t \in Threads : \E x \in Regs \ {0} : amt[t][x] = v
  <2>1. v \in 1..m \/ v \in (m + 1)..(PHY_REG_NUM - 1)
    BY <1>1, <1>2
  <2>2. CASE v \in 1..m
    BY <1>6, <1>14, <2>2
  <2>3. CASE v \in (m + 1)..(PHY_REG_NUM - 1)
    BY <1>9, <1>18, <2>3
  <2> QED
    BY <2>1, <2>2, <2>3
<1> QED
  BY <1>15, <1>16, <1>17, <1>18, <1>19, <1>21, <1>22, <1>23, <1>24 DEF Shared

\* Every table is as it should be after reset.
LEMMA InitIInv == Init => IInv
<1> SUFFICES ASSUME Init PROVE IInv
  OBVIOUS
<1>1. rob = [t \in Threads |-> EmptyROB]
  BY DEF Init
<1>2. Occupied(EmptyROB) = 0 /\ Window(EmptyROB) = {}
  BY DEF EmptyROB, Occupied, Window
<1>3. EmptyROB \in ROBOf(Insts, {0})
  <2>1. EmptyEntry \in EntryOf(Insts, {0}) /\ 0 \in Entries
    BY ROBParameters DEF EmptyEntry, EntryOf
  <2> QED
    BY <2>1 DEF EmptyROB, ROBOf
<1>4. Whole(Insts, {0}, EmptyROB)
  <2>1. Ordered(EmptyROB)
    BY DEF EmptyROB, Ordered
  <2>2. \A i \in Entries : ~EmptyROB.array[i].valid
    BY DEF EmptyROB, EmptyEntry
  <2> QED
    BY <1>2, <1>3, <2>1, <2>2 DEF Whole, FillsWindow
<1>5. Rings(rob)
  BY <1>1, <1>3, <1>4 DEF Rings
<1>6. \A t \in Threads : Occupied(rob[t]) = 0
  BY <1>1, <1>2
<1>7. Named(rob) /\ Frees(rob, amt)
  BY <1>6 DEF Named, Frees
<1>8. Shared(fl, amt)
  BY ResetShares
<1>9. \A f \in FLEntries : fl[f].valid = TRUE
  BY DEF Init
<1>10. Held(rob, fl)
  BY <1>6, <1>9 DEF Held
<1>11. Counted(fl, avail_num)
  <2>1. {f \in FLEntries : fl[f].valid} = FLEntries
    BY <1>9
  <2>2. Cardinality(FLEntries) = FL_ENTRY_NUM
    <3>1. 0 \in Int /\ FL_ENTRY_NUM - 1 \in Int /\ FL_ENTRY_NUM \in Nat
      BY Constants
    <3>2. Cardinality(0..(FL_ENTRY_NUM - 1)) =
            IF 0 > FL_ENTRY_NUM - 1 THEN 0 ELSE (FL_ENTRY_NUM - 1) - 0 + 1
      BY <3>1, FS_Interval
    <3> QED
      BY <3>1, <3>2 DEF FLEntries
  <2> QED
    BY <2>1, <2>2 DEF Counted, Init
<1>12. ASSUME NEW t \in Threads, NEW x \in Regs
       PROVE  /\ LastAge(rob[t], x, Occupied(rob[t]) + 1) = 0
              /\ LastTag(rob[t], amt[t][x], x, Occupied(rob[t]) + 1) = amt[t][x]
  <2>1. WritersBelow(rob[t], x, Occupied(rob[t]) + 1) = {}
    BY <1>6 DEF WritersBelow
  <2> QED
    BY <2>1 DEF LastAge, LastTag
<1>13. ASSUME NEW t \in Threads, NEW x \in Regs
       PROVE  mt[t][x].tag = amt[t][x] /\ mt[t][x].tag_ready = TRUE
  <2>1. PICK w : w = ResetTag(t, x)
    OBVIOUS
  <2>2. amt[t][x] = w /\ mt[t][x] = [tag |-> w, tag_ready |-> TRUE]
    BY <2>1 DEF Init
  <2> QED
    BY <2>2
<1>14. mt \in [Threads -> [Regs -> [tag : Tags, tag_ready : BOOLEAN]]]
  <2>1. ASSUME NEW t \in Threads, NEW x \in Regs
        PROVE  [tag |-> ResetTag(t, x), tag_ready |-> TRUE] \in [tag : Tags, tag_ready : BOOLEAN]
    <3>1. amt[t][x] = ResetTag(t, x)
      BY DEF Init
    <3>2. PICK w \in Tags : w = ResetTag(t, x)
      BY <1>8, <3>1 DEF Shared
    <3> QED
      BY <3>2
  <2> QED
    BY <2>1 DEF Init
<1>15. Mapped(rob, amt, mt)
  <2>1. ASSUME NEW t \in Threads, NEW x \in Regs
        PROVE  mt[t][x].tag = LastTag(rob[t], amt[t][x], x, Occupied(rob[t]) + 1)
    <3>1. mt[t][x].tag = amt[t][x]
      BY <1>13
    <3> QED
      BY <1>12, <3>1
  <2> QED
    BY <1>14, <2>1 DEF Mapped
<1>16. Readied(rob, mt, struck)
  <2>1. ASSUME NEW t \in Threads, NEW x \in Regs
        PROVE  mt[t][x].tag_ready /\ LastAge(rob[t], x, Occupied(rob[t]) + 1) = 0
    BY <1>12, <1>13
  <2> QED
    BY <2>1 DEF Readied
<1>17. strays \subseteq Results /\ struck \subseteq Threads
  BY DEF Init
<1> QED
  BY <1>5, <1>7, <1>8, <1>10, <1>11, <1>15, <1>16, <1>17 DEF IInv

\* The strays of the next cycle are results, and the struck are threads.
LEMMA StraysStayTyped ==
  ASSUME IInv, NEW late \in SUBSET strays, NEW done \in Broadcasts(late)
  PROVE  /\ \A S \in NextStrays(done, late) : S \subseteq Results
         /\ StruckAfter(late) \subseteq Threads
<1>1. ASSUME NEW p \in Incomplete PROVE ResultOf(p) \in Results
  <2>1. PICK s \in Threads, i \in Entries : p = <<s, i>> /\ rob[s].array[i].valid
    BY DEF Incomplete
  <2>2. rob[s] \in ROBOf(Insts, {0})
    BY DEF IInv, Rings
  <2>3. rob[s].array[i] \in EntryOf(Insts, {0})
    BY <2>2 DEF ROBOf
  <2>4. rob[s].array[i].inst \in Insts \cup {NoInst}
    BY <2>3 DEF EntryOf
  <2>5. NoInst \in Insts
    BY RenameParameters, Constants DEF NoRename, Insts
  <2>6. rob[s].array[i].inst.tag \in Tags
    BY <2>4, <2>5 DEF Insts
  <2> QED
    BY <2>1, <2>6 DEF ResultOf, Results
<1>2. InFlight \subseteq Incomplete
  BY DEF InFlight
<1>3. strays \subseteq Results /\ struck \subseteq Threads
  BY DEF IInv
<1>4. ASSUME NEW S \in NextStrays(done, late) PROVE S \subseteq Results
  <2>1. \A r \in S : \/ r \in strays
                   \/ \E p \in Incomplete : r = ResultOf(p)
    BY <1>2 DEF NextStrays
  <2> QED
    BY <1>1, <1>3, <2>1
<1> QED
  BY <1>3, <1>4 DEF StruckAfter, StruckBy

\* Every edge keeps them so.
LEMMA NextIInv == IInv /\ [Next]_vars => IInv'
<1> SUFFICES ASSUME IInv, [Next]_vars PROVE IInv'
  OBVIOUS
<1>1. ASSUME NEW t \in Threads, NEW n \in 0..DpLimit(t), NEW g \in Groups(n),
             NEW late \in SUBSET strays, NEW done \in Broadcasts(late),
             NEW taken \in SUBSET Completed(done, late),
             Edge(t, n, g, done, late, taken)
      PROVE  IInv'
  <2>2. PICK hit, tags : hit = Completed(done, late) /\ tags = CdbTags(done, late)
    OBVIOUS
  <2>1. Cycle(t, n, g, hit, taken)
    <3>1. \A r \in late : r.thread_idx \in Threads /\ r.rob_idx \in Entries
      BY DEF IInv, Results
    <3>2. Completed(done, late) \subseteq Threads \X Entries
      BY <3>1 DEF Completed, NamedBy, Broadcasts, InFlight, Incomplete
    <3> QED
      BY <2>2, <3>2 DEF Cycle
  <2>3. rob' = RobAfter(t, n, g, hit, taken)
    <3>1. rob' = [s \in Threads |->
                     NextROB(rob[s], IF s = t THEN n ELSE 0,
                             [k \in 0..(n - 1) |-> Renamed(t, g, k)],
                             [i \in {p[2] : p \in {q \in hit : q[1] = s}} |->
                                [br_result |-> <<s, i>> \in taken, br_target |-> 0]])]
      BY <1>1, <2>2 DEF Edge
    <3> QED
      BY <3>1 DEF RobAfter, NextRing, Taking, Group, Cdb, Heard
  <2>4. fl' = NextFL(t, n, g) /\ avail_num' = NextAvail(n, g)
        /\ amt' = AmtAfter /\ mt' = MtAfter(t, n, g, tags)
        /\ strays' \in NextStrays(done, late) /\ struck' = StruckAfter(late)
    BY <1>1, <2>2 DEF Edge, AmtAfter, MtAfter, StruckAfter
  <2>5. Rings(rob')
    <3>1. \A s \in Threads : Whole(Insts, {0}, NextRing(s, t, n, g, hit, taken))
      BY <2>1, ThreadMoves
    <3>2. \A s \in Threads : NextRing(s, t, n, g, hit, taken) \in ROBOf(Insts, {0})
      BY <3>1 DEF Whole
    <3>3. RobAfter(t, n, g, hit, taken) \in [Threads -> ROBOf(Insts, {0})]
      BY <3>2 DEF RobAfter
    <3>4. \A s \in Threads : Whole(Insts, {0}, RobAfter(t, n, g, hit, taken)[s])
      BY <3>1 DEF RobAfter
    <3> QED
      BY <2>3, <3>3, <3>4 DEF Rings
  <2>6. Named(rob')
    BY <2>1, <2>3, TagsStayNamed
  <2>7. Shared(fl', amt')
    BY <2>4, TagsStayShared
  <2>8. Held(rob', fl')
    BY <2>1, <2>3, <2>4, TagsStayHeld
  <2>9. Counted(fl', avail_num')
    BY <2>4, CountFollows
  <2>10. Mapped(rob', amt', mt')
    BY <2>1, <2>3, <2>4, MapFollows
  <2>11. Readied(rob', mt', struck')
    BY <2>1, <2>2, <2>3, <2>4, ReadyFollows
  <2>12. Frees(rob', amt')
    BY <2>1, <2>3, <2>4, FreesStay
  <2>13. strays' \subseteq Results /\ struck' \subseteq Threads
    BY <2>4, StraysStayTyped
  <2> QED
    BY <2>5, <2>6, <2>7, <2>8, <2>9, <2>10, <2>11, <2>12, <2>13 DEF IInv
<1>2. CASE UNCHANGED vars
  BY <1>2 DEF vars, IInv
<1> QED
  BY <1>1, <1>2 DEF Next

LEMMA Invariance == Spec => []IInv
BY InitIInv, NextIInv, PTL DEF Spec

-----------------------------------------------------------------------------
\* The properties.

\* Every register of the renaming tables keeps its type.
THEOREM Typed == Spec => []TypeOK
<1>1. ASSUME IInv PROVE TypeOK
  <2>1. rob \in [Threads -> ROBOf([rd : Regs, tag : Tags, tag_old : Tags], {0})]
    BY <1>1 DEF IInv, Rings, Insts
  <2>2. avail_num \in 0..FL_ENTRY_NUM
    <3>1. avail_num = Cardinality(FreeEntries)
      BY <1>1 DEF IInv, Counted, FreeEntries
    <3>2. FreeEntries \in SUBSET FLEntries
      BY DEF FreeEntries
    <3>3. /\ IsFiniteSet(FreeEntries) /\ Cardinality(FreeEntries) <= Cardinality(FLEntries)
          /\ Cardinality(FreeEntries) \in Nat
      BY <3>2, Constants, FS_Subset, FS_CardinalityType
    <3>4. Cardinality(FLEntries) = FL_ENTRY_NUM
      <4>1. 0 \in Int /\ FL_ENTRY_NUM - 1 \in Int /\ FL_ENTRY_NUM \in Nat
        BY Constants
      <4>2. Cardinality(0..(FL_ENTRY_NUM - 1)) =
              IF 0 > FL_ENTRY_NUM - 1 THEN 0 ELSE (FL_ENTRY_NUM - 1) - 0 + 1
        BY <4>1, FS_Interval
      <4> QED
        BY <4>1, <4>2 DEF FLEntries
    <3> QED
      BY <3>1, <3>3, <3>4, Constants
  <2> QED
    BY <1>1, <2>1, <2>2 DEF TypeOK, IInv, Shared, Mapped
<1> QED
  BY <1>1, Invariance, PTL

\* No physical register is lost or owned twice (FL_smt.sv l.99-133, AMT.sv
\* l.41-46).
THEOREM TagsAreConserved == Spec => []TagsConserved
<1>1. ASSUME IInv PROVE TagsConserved
  <2> DEFINE flTags == {fl[f].tag : f \in FLEntries}
             amtTags == {amt[t][r] : t \in Threads, r \in Regs \ {0}}
  <2>1. /\ \A f, e \in FLEntries : fl[f].tag = fl[e].tag => f = e
        /\ \A f \in FLEntries : \A t \in Threads : \A x \in Regs \ {0} :
              fl[f].tag # amt[t][x]
        /\ \A f \in FLEntries : fl[f].tag \in Tags \ {0}
        /\ \A t \in Threads : \A x \in Regs \ {0} : amt[t][x] \in Tags \ {0}
    BY <1>1, TagsApart
  <2>2. \A v \in Tags \ {0} :
          \/ \E f \in FLEntries : fl[f].tag = v
          \/ \E t \in Threads : \E x \in Regs \ {0} : amt[t][x] = v
    BY <1>1 DEF IInv, Shared
  <2>3. \A t \in Threads : amt[t][0] = 0
    BY <1>1 DEF IInv, Shared
  <2>4. \A v \in flTags : v \in Tags \ {0} /\ v \notin amtTags
    BY <2>1
  <2>5. \A v \in amtTags : v \in Tags \ {0}
    BY <2>1
  <2>6. \A v \in Tags \ {0} : v \in flTags \/ v \in amtTags
    BY <2>2
  <2> HIDE DEF flTags, amtTags
  <2>7. flTags \cup amtTags = Tags \ {0} /\ flTags \cap amtTags = {}
    BY <2>4, <2>5, <2>6
  <2> QED
    BY <2>1, <2>3, <2>7 DEF TagsConserved, flTags, amtTags
<1> QED
  BY <1>1, Invariance, PTL

\* The free list's entries in flight are exactly the destinations of the
\* instructions in flight, thread by thread (FL_smt.sv l.100-133).
THEOREM InFlightEntriesMatch == Spec => []InFlightMatchesROB
<1>1. ASSUME IInv PROVE InFlightMatchesROB
  <2> SUFFICES ASSUME NEW t \in Threads
               PROVE  {fl[f].tag : f \in {e \in FLEntries :
                                            ~fl[e].valid /\ fl[e].thread_idx = t}}
                        = {Oldest(t, k).inst.tag : k \in 1..Occupied(rob[t])} \ {0}
    BY DEF InFlightMatchesROB
  <2> DEFINE L == {fl[f].tag : f \in {e \in FLEntries :
                                        ~fl[e].valid /\ fl[e].thread_idx = t}}
             O == {Oldest(t, k).inst.tag : k \in 1..Occupied(rob[t])}
  <2>1. \A k : Oldest(t, k) = Aged(rob[t], k)
    BY DEF Oldest, Aged, Place
  <2>2. ASSUME NEW v \in L PROVE v \in O \ {0}
    <3>1. PICK f \in FLEntries : ~fl[f].valid /\ fl[f].thread_idx = t /\ v = fl[f].tag
      OBVIOUS
    <3>2. PICK k \in 1..Occupied(rob[t]) : Aged(rob[t], k).inst.tag = v
      BY <1>1, <3>1 DEF IInv, Held
    <3>3. v # 0
      BY <1>1, <3>1 DEF IInv, Shared
    <3> QED
      BY <2>1, <3>2, <3>3
  <2>3. ASSUME NEW v \in O \ {0} PROVE v \in L
    <3>1. PICK k \in 1..Occupied(rob[t]) : v = Oldest(t, k).inst.tag
      OBVIOUS
    <3>2. v = Aged(rob[t], k).inst.tag /\ v # 0
      BY <2>1, <3>1
    <3>3. PICK f \in FLEntries : ~fl[f].valid /\ fl[f].thread_idx = t /\ fl[f].tag = v
      BY <1>1, <3>2 DEF IInv, Held
    <3> QED
      BY <3>3
  <2> QED
    BY <2>2, <2>3
<1> QED
  BY <1>1, Invariance, PTL

\* avail_num is the number of free entries (FL_smt.sv l.174-219).
THEOREM AvailIsCounted == Spec => []AvailCounts
<1>1. IInv => AvailCounts
  BY DEF IInv, Counted, AvailCounts
<1> QED
  BY <1>1, Invariance, PTL

\* The writers of a register that the properties speak of.
LEMMA WritersAre ==
  ASSUME IInv, NEW t \in Threads, NEW r \in Regs
  PROVE  /\ \A k : Oldest(t, k) = Aged(rob[t], k)
         /\ WritersOf(t, r) = WritersBelow(rob[t], r, Occupied(rob[t]) + 1)
         /\ LastAge(rob[t], r, Occupied(rob[t]) + 1) =
               IF WritersOf(t, r) = {} THEN 0 ELSE Youngest(WritersOf(t, r))
         /\ WritersOf(t, r) # {} => /\ Youngest(WritersOf(t, r)) # 0
                                    /\ Youngest(WritersOf(t, r)) \in 1..Occupied(rob[t])
                                    /\ Youngest(WritersOf(t, r)) \in WritersOf(t, r)
<1>1. \A k : Oldest(t, k) = Aged(rob[t], k)
  BY DEF Oldest, Aged, Place
<1>2. Occupied(rob[t]) \in Nat
  BY RetireChannelsAre DEF IInv
<1>3. WritersOf(t, r) = WritersBelow(rob[t], r, Occupied(rob[t]) + 1)
  BY <1>1, <1>2 DEF WritersOf, WritersBelow
<1> DEFINE W == WritersOf(t, r)
           y == LastAge(rob[t], r, Occupied(rob[t]) + 1)
<1>4. y = IF W = {} THEN 0 ELSE Youngest(W)
  BY <1>3 DEF LastAge
<1>5. y \in 0..Occupied(rob[t]) /\ (y # 0 => y \in W) /\ (y = 0 <=> W = {})
  BY <1>2, <1>3, LastAgeFound
<1> HIDE DEF y, W
<1>6. W # {} => Youngest(W) # 0 /\ Youngest(W) \in 1..Occupied(rob[t]) /\ Youngest(W) \in W
  BY <1>2, <1>4, <1>5
<1> QED
  BY <1>1, <1>3, <1>4, <1>6 DEF y, W

\* The map table names, for every register, the youngest instruction in flight
\* that writes it, or else the committed tag (MT_SS.sv l.98-148).
THEOREM MapsTheYoungest == Spec => []MapsYoungestWriter
<1>1. ASSUME IInv PROVE MapsYoungestWriter
  <2> SUFFICES ASSUME NEW t \in Threads, NEW r \in Regs
               PROVE  mt[t][r].tag = IF WritersOf(t, r) = {} THEN amt[t][r]
                                     ELSE Oldest(t, Youngest(WritersOf(t, r))).inst.tag
    BY DEF MapsYoungestWriter
  <2>1. mt[t][r].tag = LastTag(rob[t], amt[t][r], r, Occupied(rob[t]) + 1)
    BY <1>1 DEF IInv, Mapped
  <2> QED
    BY <1>1, <2>1, WritersAre DEF LastTag
<1> QED
  BY <1>1, Invariance, PTL

\* In a thread that no stray has struck since its last flush, a register is ready
\* exactly when that instruction has completed: no broadcast is missed, none of an
\* older writer is taken for it (MT_SS.sv l.106-121).
THEOREM ReadyExactly == Spec => []ReadyIffProduced
<1>1. ASSUME IInv PROVE ReadyIffProduced
  <2> SUFFICES ASSUME NEW t \in Threads \ struck, NEW r \in Regs
               PROVE  mt[t][r].tag_ready <=>
                        \/ WritersOf(t, r) = {}
                        \/ Oldest(t, Youngest(WritersOf(t, r))).complete
    BY DEF ReadyIffProduced
  <2> DEFINE y == LastAge(rob[t], r, Occupied(rob[t]) + 1)
             W == WritersOf(t, r)
  <2>1. mt[t][r].tag_ready <=> y = 0 \/ Aged(rob[t], y).complete
    BY <1>1 DEF IInv, Readied
  <2>2. /\ y = IF W = {} THEN 0 ELSE Youngest(W)
        /\ W # {} => Youngest(W) # 0
        /\ \A k : Oldest(t, k) = Aged(rob[t], k)
    BY <1>1, WritersAre
  <2> HIDE DEF y, W
  <2>3. mt[t][r].tag_ready <=> W = {} \/ Oldest(t, Youngest(W)).complete
    BY <2>1, <2>2
  <2> QED
    BY <2>3 DEF W
<1> QED
  BY <1>1, Invariance, PTL

\* What the retirement of an instruction frees is what its register was mapped to
\* when it was renamed (MT_SS.sv l.86-89, DP_lsq.sv l.393).
THEOREM FreesThePreviousTag == Spec => []FreesThePrevious
<1>1. ASSUME IInv PROVE FreesThePrevious
  <2> SUFFICES ASSUME NEW t \in Threads, NEW k \in 1..Occupied(rob[t]),
                      Oldest(t, k).inst.rd # 0
               PROVE  LET i == Oldest(t, k).inst
                          before == {j \in WritersOf(t, i.rd) : j < k}
                      IN  i.tag_old = IF before = {} THEN amt[t][i.rd]
                                      ELSE Oldest(t, Youngest(before)).inst.tag
    BY DEF FreesThePrevious
  <2> DEFINE i == Oldest(t, k).inst
             before == {j \in WritersOf(t, i.rd) : j < k}
             y == LastAge(rob[t], i.rd, k)
  <2>1. \A j : Oldest(t, j) = Aged(rob[t], j)
    BY DEF Oldest, Aged, Place
  <2>2. Occupied(rob[t]) \in Nat
    BY <1>1, RetireChannelsAre DEF IInv
  <2>3. before = WritersBelow(rob[t], i.rd, k)
    <3> HIDE DEF i
    <3> QED
      BY <2>1 DEF WritersOf, WritersBelow
  <2>4. i.tag_old = LastTag(rob[t], amt[t][i.rd], i.rd, k)
    BY <1>1, <2>1 DEF IInv, Frees
  <2>5. y = (IF before = {} THEN 0 ELSE Youngest(before)) /\ (y = 0 <=> before = {})
    BY <2>2, <2>3, LastAgeFound DEF LastAge
  <2>6. LastTag(rob[t], amt[t][i.rd], i.rd, k)
          = IF y = 0 THEN amt[t][i.rd] ELSE Aged(rob[t], y).inst.tag
    BY DEF LastTag
  <2> HIDE DEF i, before, y
  <2>7. i.tag_old = IF before = {} THEN amt[t][i.rd]
                    ELSE Oldest(t, Youngest(before)).inst.tag
    BY <2>1, <2>4, <2>5, <2>6
  <2> QED
    BY <2>7 DEF i, before
<1> QED
  BY <1>1, Invariance, PTL

\* A group of a thread that is not struck is told that an operand is ready exactly
\* when its producer has completed or broadcasts in that very cycle (MT_SS.sv l.45-93).
THEOREM NoBroadcastIsMissed == Spec => []OperandsMissNoBroadcast
<1>1. ASSUME IInv PROVE OperandsMissNoBroadcast
  <2> SUFFICES ASSUME NEW late \in SUBSET strays, NEW done \in Broadcasts(late),
                      NEW t \in Threads, t \notin struck, t \notin StruckBy(late),
                      NEW n \in 1..DpLimit(t), NEW g \in Groups(n),
                      NEW k \in 0..(n - 1), NEW r \in Regs
               PROVE  MtReady(t, g, k, r, CdbTags(done, late)) <=>
                        /\ Writers(g, k, r) = {}
                        /\ \/ WritersOf(t, r) = {}
                           \/ LET y == Youngest(WritersOf(t, r))
                              IN  \/ Oldest(t, y).complete
                                  \/ <<t, Advance(rob[t].head, y - 1)>> \in done
    BY DEF OperandsMissNoBroadcast
  <2> DEFINE W == WritersOf(t, r)
             y == Youngest(W)
  <2>1. /\ LastAge(rob[t], r, Occupied(rob[t]) + 1) = IF W = {} THEN 0 ELSE y
        /\ \A j : Oldest(t, j) = Aged(rob[t], j)
        /\ W # {} => y # 0 /\ y \in 1..Occupied(rob[t]) /\ y \in W
    BY <1>1, WritersAre
  <2>2. mt[t][r].tag_ready <=>
          \/ LastAge(rob[t], r, Occupied(rob[t]) + 1) = 0
          \/ Aged(rob[t], LastAge(rob[t], r, Occupied(rob[t]) + 1)).complete
    BY <1>1 DEF IInv, Readied
  <2>3. MtReady(t, g, k, r, CdbTags(done, late)) <=>
          /\ Writers(g, k, r) = {}
          /\ mt[t][r].tag_ready \/ (mt[t][r].tag \in CdbTags(done, late) /\ mt[t][r].tag # 0)
    BY DEF MtReady
  <2>4. CASE W = {}
    <3>1. mt[t][r].tag_ready
      BY <2>1, <2>2, <2>4
    <3> QED
      BY <2>3, <2>4, <3>1
  <2>5. CASE W # {}
    <3>1. y \in 1..Occupied(rob[t]) /\ Aged(rob[t], y).inst.rd = r /\ r # 0 /\ y # 0
      <4>1. y \in W /\ y \in 1..Occupied(rob[t]) /\ y # 0
        BY <2>1, <2>5
      <4> HIDE DEF y
      <4> QED
        BY <2>1, <4>1 DEF WritersOf
    <3> HIDE DEF y, W
    <3>2. mt[t][r].tag = Aged(rob[t], y).inst.tag
      <4>1. mt[t][r].tag = LastTag(rob[t], amt[t][r], r, Occupied(rob[t]) + 1)
        BY <1>1 DEF IInv, Mapped
      <4> QED
        BY <2>1, <2>5, <3>1, <4>1 DEF LastTag
    <3>3. Aged(rob[t], y).inst.tag # 0
      BY <1>1, <3>1 DEF IInv, Named
    <3>4. mt[t][r].tag_ready <=> Aged(rob[t], y).complete
      BY <2>1, <2>2, <2>5, <3>1
    <3>5. mt[t][r].tag_ready \/ mt[t][r].tag \in CdbTags(done, late)
            <=> Oldest(t, y).complete \/ <<t, Advance(rob[t].head, y - 1)>> \in done
      BY <1>1, <2>1, <3>1, <3>2, <3>3, <3>4, StraysAreHarmless DEF Place
    <3>6. MtReady(t, g, k, r, CdbTags(done, late)) <=>
            /\ Writers(g, k, r) = {}
            /\ \/ W = {}
               \/ Oldest(t, y).complete
               \/ <<t, Advance(rob[t].head, y - 1)>> \in done
      BY <2>3, <2>5, <3>2, <3>3, <3>5
    <3> QED
      BY <3>6 DEF y, W
  <2> QED
    BY <2>4, <2>5
<1> QED
  BY <1>1, Invariance, PTL
=============================================================================
