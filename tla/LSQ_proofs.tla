----------------------------- MODULE LSQ_proofs -----------------------------
(***************************************************************************)
(* The load-store queue, for every size of the queue and of the reorder    *)
(* buffer, every set of addresses and every cache.                         *)
(***************************************************************************)
EXTENDS LSQ, ROBLogic_proofs

USE DEF LEntries

-----------------------------------------------------------------------------
\* The ring. An entry's age is its distance from the head.

Ring ==
    /\ head \in LEntries /\ tail \in LEntries
    /\ head_rollover \in BOOLEAN /\ tail_rollover \in BOOLEAN
    /\ IF head_rollover = tail_rollover THEN head <= tail ELSE tail <= head

LEMMA Sizes ==
  /\ LSQ_ENTRY_NUM \in Nat /\ LSQ_ENTRY_NUM > 0
  /\ DP_NUM \in Nat /\ DP_NUM <= LSQ_ENTRY_NUM
BY LSQParameters, ROBParameters

\* Ages are the numbers below the size of the queue, and each is one entry's.
LEMMA Ages ==
  ASSUME Ring
  PROVE  /\ LOccupied \in 0..LSQ_ENTRY_NUM
         /\ \A i \in LEntries : Age(i) \in LEntries
         /\ \A i, j \in LEntries : Age(i) = Age(j) => i = j
         /\ \A a \in LEntries : \E i \in LEntries : Age(i) = a
<1>1. LOccupied \in 0..LSQ_ENTRY_NUM
  BY Sizes DEF Ring, LOccupied
<1>2. \A i \in LEntries : Age(i) \in LEntries
  BY Sizes DEF Ring, Age
<1>3. \A i, j \in LEntries : Age(i) = Age(j) => i = j
  BY Sizes DEF Ring, Age
<1>4. ASSUME NEW a \in LEntries PROVE \E i \in LEntries : Age(i) = a
  <2>1. LAdvance(head, a) \in LEntries /\ Age(LAdvance(head, a)) = a
    BY Sizes DEF Ring, Age, LAdvance
  <2> QED
    BY <2>1
<1> QED
  BY <1>1, <1>2, <1>3, <1>4

\* What leaves the queue are the LRtNum oldest entries (LSQ_global_ctrl.sv
\* l.189-224).
LEMMA LeavesOldest ==
  ASSUME Ring
  PROVE  /\ LRtNum \in 0..LOccupied
         /\ \A i \in LEntries : i \in LRtSel <=> Age(i) < LRtNum
<1>1. /\ LOccupied \in 0..LSQ_ENTRY_NUM
      /\ \A i \in LEntries : Age(i) \in LEntries
      /\ \A i, j \in LEntries : Age(i) = Age(j) => i = j
      /\ \A a \in LEntries : \E i \in LEntries : Age(i) = a
  BY Ages
<1>2. LRtSel \in SUBSET LEntries
  BY DEF LRtSel
<1>3. \A i \in LRtSel : \A j \in LEntries : Age(j) <= Age(i) => j \in LRtSel
  <2> SUFFICES ASSUME NEW i \in LRtSel, NEW j \in LEntries, Age(j) <= Age(i)
               PROVE  j \in LRtSel
    OBVIOUS
  <2>1. i \in LEntries /\ Age(i) \in Nat /\ Age(j) \in Nat /\ Age(i) < LOccupied
    BY <1>1, <1>2, Sizes DEF LRtSel
  <2>2. Age(j) < LOccupied
    BY <1>1, <2>1
  <2>3. \A k \in LEntries : Age(k) <= Age(j) => Age(k) <= Age(i)
    BY <1>1, <2>1, Sizes
  <2> QED
    BY <2>1, <2>2, <2>3 DEF LRtSel
<1> DEFINE stays == {a \in 0..LSQ_ENTRY_NUM : \A i \in LRtSel : Age(i) # a}
<1>4. LSQ_ENTRY_NUM \in stays /\ stays \in SUBSET Nat
  BY <1>1, <1>2, Sizes
<1> HIDE DEF stays
<1>5. PICK a \in stays : \A b \in stays : a <= b
  BY <1>4, LeastExists
<1>6. a \in 0..LSQ_ENTRY_NUM
  BY <1>5 DEF stays
<1>7. \A i \in LEntries : i \in LRtSel <=> Age(i) < a
  <2> SUFFICES ASSUME NEW i \in LEntries PROVE i \in LRtSel <=> Age(i) < a
    OBVIOUS
  <2>1. CASE Age(i) < a
    <3>1. Age(i) \notin stays
      BY <1>1, <1>5, <1>6, <2>1, <1>4, Sizes
    <3>2. PICK j \in LRtSel : Age(j) = Age(i)
      BY <3>1, <1>1, Sizes DEF stays
    <3>3. i = j
      BY <3>2, <1>1, <1>2
    <3> QED
      BY <3>2, <3>3, <2>1
  <2>2. CASE i \in LRtSel /\ a <= Age(i)
    <3>1. a \in LEntries
      BY <1>1, <1>6, <2>2, Sizes
    <3>2. PICK j \in LEntries : Age(j) = a
      BY <1>1, <3>1
    <3>3. j \in LRtSel
      BY <1>3, <2>2, <3>2
    <3> QED
      BY <3>2, <3>3, <1>5 DEF stays
  <2> QED
    BY <2>1, <2>2, <1>1, <1>6, Sizes
<1>8. LRtNum = a
  <2> DEFINE age == [i \in LRtSel |-> Age(i)]
             T == 0..(a - 1)
  <2>1. age \in Bijection(LRtSel, T)
    <3>1. \A i \in LRtSel : age[i] \in T
      BY <1>1, <1>2, <1>6, <1>7, Sizes
    <3>2. \A i, j \in LRtSel : age[i] = age[j] => i = j
      BY <1>1, <1>2
    <3>3. ASSUME NEW b \in T PROVE \E i \in LRtSel : age[i] = b
      <4>1. b \in LEntries
        BY <1>6, Sizes
      <4>2. PICK i \in LEntries : Age(i) = b
        BY <1>1, <4>1
      <4> QED
        BY <4>2, <1>6, <1>7
    <3> HIDE DEF T
    <3>4. age \in [LRtSel -> T]
      BY <3>1
    <3> HIDE DEF age
    <3> QED
      BY <3>1, <3>2, <3>3, <3>4 DEF Bijection, Injection, Surjection, IsInjective
  <2>2. /\ IsFiniteSet(T)
        /\ Cardinality(T) = IF 0 > a - 1 THEN 0 ELSE ((a - 1) - 0) + 1
    BY <1>6, Sizes, FS_Interval
  <2>3. Cardinality(T) = a
    BY <1>6, <2>2, Sizes
  <2> HIDE DEF T, age
  <2>4. IsFiniteSet(LRtSel)
    <3>1. IsFiniteSet(LEntries)
      BY Sizes, FS_Interval
    <3> QED
      BY <1>2, <3>1, FS_Subset
  <2>5. ExistsBijection(LRtSel, T)
    BY <2>1 DEF ExistsBijection
  <2>6. Cardinality(LRtSel) = Cardinality(T)
    BY <2>4, <2>5, FS_Bijection
  <2> QED
    BY <2>3, <2>6 DEF LRtNum
<1>9. a <= LOccupied
  <2> SUFFICES ASSUME a > LOccupied PROVE FALSE
    BY <1>1, <1>6
  <2>1. LOccupied \in LEntries
    BY <1>1, <1>6, Sizes
  <2>2. PICK i \in LEntries : Age(i) = LOccupied
    BY <1>1, <2>1
  <2>3. i \in LRtSel
    BY <1>7, <2>2
  <2> QED
    BY <1>1, <2>2, <2>3 DEF LRtSel
<1> QED
  BY <1>1, <1>6, <1>7, <1>8, <1>9, Sizes

\* An edge without a flush makes the entries that stay LRtNum younger, and gives
\* the n places behind them to the loads and stores that are dispatched
\* (LSQ_global_ctrl.sv l.69-98, l.226-255).
LEMMA AgesMove ==
  ASSUME Ring, NEW in, NextLSQ(in), ~Rollback,
         in.n \in Nat, in.n <= DP_NUM, in.n <= (LSQ_ENTRY_NUM - LOccupied) + LRtNum
  PROVE  /\ Ring'
         /\ LOccupied' = (LOccupied - LRtNum) + in.n
         /\ \A i \in LEntries :
               Age(i)' = IF Age(i) >= LRtNum THEN Age(i) - LRtNum
                         ELSE (Age(i) + LSQ_ENTRY_NUM) - LRtNum
<1>1. LRtNum \in 0..LOccupied /\ LOccupied \in 0..LSQ_ENTRY_NUM
  BY Ages, LeavesOldest
<1> DEFINE k == LRtNum
           n == in.n
<1>2. /\ head' = LAdvance(head, k) /\ tail' = LAdvance(tail, n)
      /\ head_rollover' = (head_rollover # LWraps(head, k))
      /\ tail_rollover' = (tail_rollover # LWraps(tail, n))
  BY DEF NextLSQ
<1>3. /\ k \in Nat /\ n \in Nat /\ k <= LOccupied /\ n <= DP_NUM
      /\ n <= (LSQ_ENTRY_NUM - LOccupied) + k
  BY <1>1, Sizes
<1> HIDE DEF k, n
<1>4. /\ head' \in LEntries /\ tail' \in LEntries
      /\ head_rollover' \in BOOLEAN /\ tail_rollover' \in BOOLEAN
  BY <1>1, <1>2, <1>3, Sizes DEF Ring, LAdvance
<1>5. ASSUME head_rollover = tail_rollover
      PROVE  /\ LOccupied' = (LOccupied - k) + n
             /\ IF head_rollover' = tail_rollover' THEN head' <= tail' ELSE tail' <= head'
  <2>1. LOccupied = tail - head /\ head <= tail
    BY <1>5 DEF Ring, LOccupied
  <2>2. (head_rollover' = tail_rollover') <=> (LWraps(head, k) <=> LWraps(tail, n))
    BY <1>2, <1>5 DEF Ring, LWraps
  <2>3. IF head_rollover' = tail_rollover' THEN head' <= tail' ELSE tail' <= head'
    BY <1>2, <1>3, <2>1, <2>2, Sizes DEF Ring, LWraps, LAdvance
  <2>4. LOccupied' = (LOccupied - k) + n
    BY <1>2, <1>3, <2>1, <2>2, Sizes DEF Ring, LWraps, LAdvance, LOccupied
  <2> QED
    BY <2>3, <2>4
<1>6. ASSUME head_rollover # tail_rollover
      PROVE  /\ LOccupied' = (LOccupied - k) + n
             /\ IF head_rollover' = tail_rollover' THEN head' <= tail' ELSE tail' <= head'
  <2>1. LOccupied = LSQ_ENTRY_NUM - (head - tail) /\ tail <= head
    BY <1>6 DEF Ring, LOccupied
  <2>2. (head_rollover' # tail_rollover') <=> (LWraps(head, k) <=> LWraps(tail, n))
    BY <1>2, <1>6 DEF Ring, LWraps
  <2>3. IF head_rollover' = tail_rollover' THEN head' <= tail' ELSE tail' <= head'
    BY <1>2, <1>3, <2>1, <2>2, Sizes DEF Ring, LWraps, LAdvance
  <2>4. LOccupied' = (LOccupied - k) + n
    BY <1>2, <1>3, <2>1, <2>2, Sizes DEF Ring, LWraps, LAdvance, LOccupied
  <2> QED
    BY <2>3, <2>4
<1>7. Ring'
  BY <1>4, <1>5, <1>6 DEF Ring
<1>8. ASSUME NEW i \in LEntries
      PROVE  Age(i)' = IF Age(i) >= k THEN Age(i) - k ELSE (Age(i) + LSQ_ENTRY_NUM) - k
  BY <1>1, <1>2, <1>3, Sizes DEF Ring, LAdvance, Age
<1> QED
  BY <1>5, <1>6, <1>7, <1>8 DEF k, n

\* The places that are given out, and the channel of each.
LEMMA PlacesGiven ==
  ASSUME Ring, NEW n \in Nat, n <= DP_NUM, NEW i \in LEntries
  PROVE  LET at == IF i < tail THEN (i + LSQ_ENTRY_NUM) - tail ELSE i - tail
         IN  /\ i \in LDpSel(n) <=> at < n
             /\ at = IF LOccupied <= Age(i) THEN Age(i) - LOccupied
                     ELSE (Age(i) + LSQ_ENTRY_NUM) - LOccupied
<1>1. ASSUME i \in LDpSel(n)
      PROVE  (IF i < tail THEN (i + LSQ_ENTRY_NUM) - tail ELSE i - tail) < n
  <2>1. PICK k \in 0..(n - 1) : i = LAdvance(tail, k)
    BY <1>1 DEF LDpSel
  <2> QED
    BY <2>1, Sizes DEF Ring, LAdvance
<1>2. ASSUME (IF i < tail THEN (i + LSQ_ENTRY_NUM) - tail ELSE i - tail) < n
      PROVE  i \in LDpSel(n)
  <2> DEFINE k == IF i < tail THEN (i + LSQ_ENTRY_NUM) - tail ELSE i - tail
  <2>1. k \in 0..(n - 1) /\ i = LAdvance(tail, k)
    BY <1>2, Sizes DEF Ring, LAdvance
  <2> QED
    BY <2>1 DEF LDpSel
<1>3. (IF i < tail THEN (i + LSQ_ENTRY_NUM) - tail ELSE i - tail)
        = IF LOccupied <= Age(i) THEN Age(i) - LOccupied
          ELSE (Age(i) + LSQ_ENTRY_NUM) - LOccupied
  BY Sizes DEF Ring, LOccupied, Age
<1> QED
  BY <1>1, <1>2, <1>3

-----------------------------------------------------------------------------
\* The entries.

Fields == DOMAIN IdleEntry

\* What an entry's state says of its other fields.
Entry(e) ==
    /\ DOMAIN e = Fields /\ e.state \in States
    /\ e.retire <=> e.state = "RETIRE"
    /\ e.state # "IDLE" => e.cmd \in {"LOAD", "STORE"}
    /\ e.state \in {"DEPEND", "RD_MEM", "WAIT_MEM", "LOAD_CP"} => e.cmd = "LOAD"
    /\ e.state = "WR_MEM" => e.cmd = "STORE"
    /\ e.state = "ADDR" /\ e.cmd = "STORE" => ~e.addr_valid
    /\ e.state \notin {"IDLE", "ADDR"} => e.addr_valid
    /\ e.addr_valid => e.acc \in Accesses

\* The entries between the pointers are the ones in use.
Queued == \A i \in LEntries : lsq_array[i].state # "IDLE" <=> Age(i) < LOccupied

Shaped == DOMAIN lsq_array = LEntries /\ \A i \in LEntries : Entry(lsq_array[i])

\* What a cycle may bring.
Given(in) ==
    /\ in.n \in Nat /\ in.n <= LAvail
    /\ \A k \in 0..(in.n - 1) : in.dp[k].cmd \in {"LOAD", "STORE"}
    /\ \A i \in DOMAIN in.fu : /\ i \in Waiting("LOAD") \cup Waiting("STORE")
                               /\ in.fu[i].acc \in Accesses

\* The entry x is e a cycle later, still in the queue: it keeps its instruction and,
\* once it has one, its address; a store keeps its data, too.
Kept(e, x) ==
    /\ x.state # "IDLE" /\ x.cmd = e.cmd /\ x.rob_idx = e.rob_idx
    /\ e.addr_valid => x.addr_valid /\ x.acc = e.acc
    /\ e.addr_valid /\ e.cmd = "STORE" => x.data = e.data

LEMMA HasFields ==
  /\ Fields = {"state", "cmd", "rob_idx", "acc", "addr_valid", "data", "retire", "mem_tag"}
  /\ Entry(IdleEntry) /\ IdleEntry.state = "IDLE"
<1>1. Fields = {"state", "cmd", "rob_idx", "acc", "addr_valid", "data", "retire", "mem_tag"}
  BY DEF Fields, IdleEntry
<1>2. /\ IdleEntry.state = "IDLE" /\ DOMAIN IdleEntry = Fields
      /\ ~IdleEntry.retire /\ ~IdleEntry.addr_valid
  BY DEF Fields, IdleEntry
<1> QED
  BY <1>1, <1>2 DEF Entry, States

\* The states, one by one.
LEMMA NextByState ==
  ASSUME NEW i \in LEntries, NEW in
  PROVE  /\ lsq_array[i].state = "IDLE" => NextLsqEntry(i, in) = NextIdle(i, in)
         /\ lsq_array[i].state = "ADDR" => NextLsqEntry(i, in) = NextAddr(i, in)
         /\ lsq_array[i].state = "DEPEND" => NextLsqEntry(i, in) = NextDepend(i)
         /\ lsq_array[i].state = "RD_MEM" => NextLsqEntry(i, in) = NextRdMem(i, in)
         /\ lsq_array[i].state = "WAIT_MEM" => NextLsqEntry(i, in) = NextWaitMem(i, in)
         /\ lsq_array[i].state = "LOAD_CP" => NextLsqEntry(i, in) = NextLoadCp(i, in)
         /\ lsq_array[i].state = "ROB_RETIRE" => NextLsqEntry(i, in) = NextRobRetire(i)
         /\ lsq_array[i].state = "WR_MEM" => NextLsqEntry(i, in) = NextWrMem(i, in)
         /\ lsq_array[i].state = "RETIRE" => NextLsqEntry(i, in) = NextRetire(i, in)
BY DEF NextLsqEntry

\* An entry stays one, and keeps what it has as long as it is in the queue
\* (LSQ_entry_ctrl.sv l.94-341).
LEMMA EntryMoves ==
  ASSUME Shaped, NEW in, Given(in), NEW i \in LEntries
  PROVE  lsq_array[i].state \notin {"IDLE", "RETIRE"} =>
            /\ Entry(NextLsqEntry(i, in))
            /\ Kept(lsq_array[i], NextLsqEntry(i, in))
<1> DEFINE e == lsq_array[i]
<1>0. Entry(e) /\ DOMAIN e = {"state", "cmd", "rob_idx", "acc", "addr_valid", "data", "retire", "mem_tag"}
  BY HasFields DEF Shaped, Entry
<1>1. ASSUME e.state = "ADDR"
      PROVE  Entry(NextAddr(i, in)) /\ Kept(e, NextAddr(i, in))
  <2>1. i \in DOMAIN in.fu => ~e.addr_valid /\ in.fu[i].acc \in Accesses
    BY DEF Given, Waiting
  <2> DEFINE sent == IF i \in DOMAIN in.fu
                     THEN [e EXCEPT !.addr_valid = TRUE, !.acc = in.fu[i].acc] ELSE e
  <2>2. /\ DOMAIN sent = DOMAIN e /\ sent.state = "ADDR" /\ sent.cmd = e.cmd
        /\ sent.rob_idx = e.rob_idx /\ sent.retire = e.retire
        /\ sent.addr_valid => sent.acc \in Accesses
        /\ e.addr_valid => sent.addr_valid /\ sent.acc = e.acc
        /\ sent.data = e.data
        /\ i \in DOMAIN in.fu => sent.addr_valid
        /\ i \notin DOMAIN in.fu => sent = e
    BY <1>0, <1>1, <2>1 DEF Entry
  <2> HIDE DEF sent
  <2>3. NextAddr(i, in) =
          IF e.cmd = "LOAD" THEN
            IF ~e.addr_valid THEN sent
            ELSE IF OlderStoreKnown(i) /\ Dependences(i) = {}
            THEN [sent EXCEPT !.state = "RD_MEM"]
            ELSE [sent EXCEPT !.state = "DEPEND"]
          ELSE IF i \in DOMAIN in.fu
          THEN [sent EXCEPT !.state = "ROB_RETIRE", !.data = in.fu[i].data]
          ELSE e
    BY DEF NextAddr, sent
  <2>4. CASE e.cmd = "LOAD"
    BY <1>0, <1>1, <2>2, <2>3, <2>4 DEF Entry, Kept, States
  <2>5. CASE e.cmd = "STORE"
    BY <1>0, <1>1, <2>2, <2>3, <2>5 DEF Entry, Kept, States
  <2> QED
    BY <1>0, <1>1, <2>4, <2>5 DEF Entry
<1>2. ASSUME e.state = "DEPEND"
      PROVE  Entry(NextDepend(i)) /\ Kept(e, NextDepend(i))
  BY <1>0, <1>2, HasFields DEF Entry, Kept, States, NextDepend
<1>3. ASSUME e.state = "RD_MEM"
      PROVE  Entry(NextRdMem(i, in)) /\ Kept(e, NextRdMem(i, in))
  BY <1>0, <1>3, HasFields DEF Entry, Kept, States, NextRdMem
<1>4. ASSUME e.state = "WAIT_MEM"
      PROVE  Entry(NextWaitMem(i, in)) /\ Kept(e, NextWaitMem(i, in))
  BY <1>0, <1>4, HasFields DEF Entry, Kept, States, NextWaitMem
<1>5. ASSUME e.state = "LOAD_CP"
      PROVE  Entry(NextLoadCp(i, in)) /\ Kept(e, NextLoadCp(i, in))
  BY <1>0, <1>5, HasFields DEF Entry, Kept, States, NextLoadCp
<1>6. ASSUME e.state = "ROB_RETIRE"
      PROVE  Entry(NextRobRetire(i)) /\ Kept(e, NextRobRetire(i))
  BY <1>0, <1>6, HasFields DEF Entry, Kept, States, NextRobRetire
<1>7. ASSUME e.state = "WR_MEM"
      PROVE  Entry(NextWrMem(i, in)) /\ Kept(e, NextWrMem(i, in))
  BY <1>0, <1>7, HasFields DEF Entry, Kept, States, NextWrMem
<1>8. e.state \in States
  BY <1>0 DEF Entry
<1> QED
  BY <1>1, <1>2, <1>3, <1>4, <1>5, <1>6, <1>7, <1>8, NextByState DEF States

\* What the dispatcher sends fits (LSQ_global_ctrl.sv l.104-120).
LEMMA Fits ==
  ASSUME Ring, NEW in, Given(in)
  PROVE  /\ in.n \in Nat /\ in.n <= DP_NUM
         /\ in.n <= (LSQ_ENTRY_NUM - LOccupied) + LRtNum
<1>1. LRtNum \in 0..LOccupied /\ LOccupied \in 0..LSQ_ENTRY_NUM
  BY Ages, LeavesOldest
<1>2. LRtNum \in Nat /\ LOccupied \in Nat /\ LRtNum <= LOccupied /\ LOccupied <= LSQ_ENTRY_NUM
  BY <1>1, Sizes
<1>3. LAvail <= DP_NUM /\ LAvail <= (LSQ_ENTRY_NUM - LOccupied) + LRtNum /\ LAvail \in Int
  BY <1>2, Sizes DEF LAvail
<1> QED
  BY <1>2, <1>3, Sizes DEF Given

\* The entry that a load or store gets.
Fresh(op) ==
    [IdleEntry EXCEPT !.state = "ADDR", !.cmd = op.cmd, !.rob_idx = op.rob_idx]

LEMMA FreshIs ==
  ASSUME NEW op, op.cmd \in {"LOAD", "STORE"}
  PROVE  /\ Entry(Fresh(op)) /\ Fresh(op).state = "ADDR" /\ Fresh(op).cmd = op.cmd
         /\ Fresh(op).rob_idx = op.rob_idx /\ ~Fresh(op).addr_valid
BY DEF Entry, Fields, Fresh, IdleEntry, States

\* Where the entries of the queue come from at an edge without a flush: the older
\* ones were there, the younger ones are given to the group.
LEMMA QueueMoves ==
  ASSUME Ring, Shaped, Queued, NEW in, Given(in), NextLSQ(in), ~Rollback,
         NEW i \in LEntries
  PROVE  /\ Age(i)' < LOccupied - LRtNum =>
               /\ Age(i) = Age(i)' + LRtNum /\ Age(i) < LOccupied
               /\ lsq_array[i].state # "IDLE" /\ i \notin LRtSel
               /\ lsq_array'[i] = NextLsqEntry(i, in)
               /\ Entry(lsq_array'[i]) /\ Kept(lsq_array[i], lsq_array'[i])
         /\ Age(i)' >= LOccupied - LRtNum /\ Age(i)' < LOccupied' =>
               /\ Age(i)' - (LOccupied - LRtNum) \in 0..(in.n - 1)
               /\ lsq_array'[i] = Fresh(in.dp[Age(i)' - (LOccupied - LRtNum)])
         /\ Age(i)' >= LOccupied' => lsq_array'[i].state = "IDLE" /\ Entry(lsq_array'[i])
<1> DEFINE k == LRtNum
           a == Age(i)
           e == lsq_array[i]
           given == IF i < tail THEN (i + LSQ_ENTRY_NUM) - tail ELSE i - tail
<1>1. /\ k \in Nat /\ LOccupied \in Nat /\ k <= LOccupied /\ LOccupied <= LSQ_ENTRY_NUM
      /\ i \in LRtSel <=> a < k
      /\ a \in Nat /\ a < LSQ_ENTRY_NUM
  BY Ages, LeavesOldest, Sizes
<1>2. /\ in.n \in Nat /\ in.n <= DP_NUM /\ in.n <= (LSQ_ENTRY_NUM - LOccupied) + k
  BY Fits
<1>3. /\ Ring' /\ LOccupied' = (LOccupied - k) + in.n
      /\ Age(i)' = IF a >= k THEN a - k ELSE (a + LSQ_ENTRY_NUM) - k
  BY <1>2, AgesMove
<1>4. /\ i \in LDpSel(in.n) <=> given < in.n
      /\ given = IF LOccupied <= a THEN a - LOccupied ELSE (a + LSQ_ENTRY_NUM) - LOccupied
  BY <1>2, PlacesGiven
<1>5. Entry(e) /\ (e.state # "IDLE" <=> a < LOccupied)
  BY DEF Shaped, Queued
<1>6. lsq_array'[i] = NextLsqEntry(i, in)
  BY DEF NextLSQ
<1>7. a < k => e.state = "RETIRE"
  BY <1>1, <1>5 DEF LRtSel, Entry
<1> HIDE DEF k, a, e
<1>8. ASSUME Age(i)' < LOccupied - k
      PROVE  /\ a = Age(i)' + k /\ a < LOccupied
             /\ e.state # "IDLE" /\ i \notin LRtSel
             /\ Entry(lsq_array'[i]) /\ Kept(e, lsq_array'[i])
  <2>1. a >= k /\ a = Age(i)' + k /\ a < LOccupied
    BY <1>1, <1>3, <1>8, Sizes
  <2>2. e.state # "IDLE" /\ i \notin LRtSel
    BY <1>1, <1>5, <2>1
  <2>3. CASE e.state = "RETIRE"
    <3>1. lsq_array'[i] = e
      BY <1>6, <2>2, <2>3, NextByState DEF NextRetire, e
    <3> QED
      BY <1>5, <2>1, <2>2, <3>1 DEF Kept, Entry
  <2>4. CASE e.state # "RETIRE"
    BY <1>6, <2>1, <2>2, <2>4, EntryMoves DEF e
  <2> QED
    BY <2>1, <2>2, <2>3, <2>4
<1>9. ASSUME Age(i)' >= LOccupied - k, Age(i)' < LOccupied'
      PROVE  /\ Age(i)' - (LOccupied - k) \in 0..(in.n - 1)
             /\ lsq_array'[i] = Fresh(in.dp[Age(i)' - (LOccupied - k)])
  <2>1. given = Age(i)' - (LOccupied - k) /\ given \in 0..(in.n - 1)
        /\ (a < k \/ a >= LOccupied)
    BY <1>1, <1>2, <1>3, <1>4, <1>9, Sizes
  <2>2. i \in LDpSel(in.n)
    BY <1>4, <2>1, <1>2
  <2>3. e.state = "IDLE" \/ (e.state = "RETIRE" /\ i \in LRtSel)
    BY <1>1, <1>5, <1>7, <2>1
  <2>4. NextLsqEntry(i, in) = Allocated(i, in)
    BY <2>2, <2>3, NextByState DEF NextIdle, NextRetire, e
  <2>5. given = IF i < tail THEN i + LSQ_ENTRY_NUM - tail ELSE i - tail
    BY Sizes DEF Ring
  <2> HIDE DEF given
  <2>6. Allocated(i, in) = Fresh(in.dp[given])
    BY <2>5 DEF Allocated, Fresh
  <2> QED
    BY <1>6, <2>1, <2>4, <2>6
<1>10. ASSUME Age(i)' >= LOccupied'
       PROVE  lsq_array'[i].state = "IDLE" /\ Entry(lsq_array'[i])
  <2>1. given \in Int /\ given >= in.n /\ (a < k \/ a >= LOccupied)
    BY <1>1, <1>2, <1>3, <1>4, <1>10, Sizes
  <2>2. i \notin LDpSel(in.n)
    BY <1>4, <2>1, <1>1, <1>2
  <2>3. e.state = "IDLE" \/ (e.state = "RETIRE" /\ i \in LRtSel)
    BY <1>1, <1>5, <1>7, <2>1
  <2>4. NextLsqEntry(i, in) = IdleEntry \/ (NextLsqEntry(i, in) = e /\ e.state = "IDLE")
    BY <2>2, <2>3, NextByState DEF NextIdle, NextRetire, e
  <2> QED
    BY <1>5, <1>6, <2>4, HasFields
<1> QED
  BY <1>6, <1>8, <1>9, <1>10 DEF k, a, e

-----------------------------------------------------------------------------
\* Loads and the stores before them.

\* A load that has looked at the stores before it did so when their addresses were
\* known.
Knows ==
    \A i \in LEntries :
        /\ lsq_array[i].cmd = "LOAD"
        /\ lsq_array[i].state \in {"RD_MEM", "WAIT_MEM", "LOAD_CP", "ROB_RETIRE"}
        => OlderStoreKnown(i)

QInv == Ring /\ Shaped /\ Queued /\ Knows /\ LoadsWaitForStores

\* A load goes on only when the addresses before it are known, and to memory only
\* when no store before it writes the word (LSQ_entry_ctrl.sv l.135-199).
LEMMA GoesOn ==
  ASSUME QInv, NEW in, Given(in), NEW i \in LEntries,
         lsq_array[i].state \notin {"IDLE", "RETIRE"}, lsq_array[i].cmd = "LOAD"
  PROVE  /\ NextLsqEntry(i, in).state \in {"RD_MEM", "WAIT_MEM", "LOAD_CP", "ROB_RETIRE"} =>
               OlderStoreKnown(i)
         /\ NextLsqEntry(i, in).state \in {"RD_MEM", "WAIT_MEM"} =>
               Dependences(i) = {} /\ lsq_array[i].addr_valid
<1> DEFINE e == lsq_array[i]
<1>0. Entry(e) /\ DOMAIN e = {"state", "cmd", "rob_idx", "acc", "addr_valid", "data", "retire", "mem_tag"}
  BY HasFields DEF QInv, Shaped, Entry
<1>1. CASE e.state = "ADDR"
  <2>1. NextLsqEntry(i, in) = NextAddr(i, in)
    BY <1>1, NextByState
  <2>2. ASSUME ~e.addr_valid PROVE NextAddr(i, in).state = "ADDR"
    BY <1>0, <1>1, <2>2 DEF NextAddr
  <2>3. ASSUME e.addr_valid, ~(OlderStoreKnown(i) /\ Dependences(i) = {})
        PROVE  NextAddr(i, in).state = "DEPEND"
    BY <1>0, <1>1, <2>3 DEF NextAddr
  <2> QED
    BY <2>1, <2>2, <2>3
<1>2. CASE e.state = "DEPEND"
  BY <1>0, <1>2, NextByState DEF NextDepend, Entry
<1>3. CASE e.state = "RD_MEM"
  <2>1. OlderStoreKnown(i) /\ Dependences(i) = {} /\ e.addr_valid
    BY <1>0, <1>3 DEF QInv, LoadsWaitForStores, Entry
  <2> QED
    BY <2>1
<1>4. CASE e.state = "WAIT_MEM"
  <2>1. OlderStoreKnown(i) /\ Dependences(i) = {} /\ e.addr_valid
    BY <1>0, <1>4 DEF QInv, LoadsWaitForStores, Entry
  <2> QED
    BY <2>1
<1>5. CASE e.state \in {"LOAD_CP", "ROB_RETIRE"}
  <2>1. OlderStoreKnown(i)
    BY <1>5 DEF QInv, Knows
  <2>2. CASE e.state = "LOAD_CP"
    <3>1. NextLsqEntry(i, in) = NextLoadCp(i, in)
      BY <2>2, NextByState
    <3>2. NextLoadCp(i, in).state \in {"LOAD_CP", "ROB_RETIRE"}
      BY <1>0, <2>2 DEF NextLoadCp
    <3> QED
      BY <2>1, <3>1, <3>2
  <2>3. CASE e.state = "ROB_RETIRE"
    <3>1. NextLsqEntry(i, in) = NextRobRetire(i)
      BY <2>3, NextByState
    <3>2. NextRobRetire(i).state \in {"ROB_RETIRE", "RETIRE", "WR_MEM"}
      BY <1>0, <2>3 DEF NextRobRetire
    <3> QED
      BY <2>1, <3>1, <3>2
  <2> QED
    BY <1>5, <2>2, <2>3
<1>6. e.state # "WR_MEM"
  BY <1>0 DEF Entry
<1> QED
  BY <1>0, <1>1, <1>2, <1>3, <1>4, <1>5, <1>6 DEF Entry, States

\* Of two entries the older one was there before, and before the other.
LEMMA OlderWasOlder ==
  ASSUME Ring, Shaped, Queued, NEW in, Given(in), NextLSQ(in), ~Rollback,
         NEW i \in LEntries, Age(i)' < LOccupied - LRtNum,
         NEW j \in LEntries, Age(j)' < Age(i)'
  PROVE  /\ Age(j)' < LOccupied - LRtNum /\ Age(j) < Age(i)
         /\ lsq_array[j].state # "IDLE" /\ Kept(lsq_array[j], lsq_array'[j])
         /\ lsq_array'[j] = NextLsqEntry(j, in)
<1>1. /\ LRtNum \in Nat /\ LOccupied \in Nat /\ LRtNum <= LOccupied
      /\ LOccupied <= LSQ_ENTRY_NUM /\ Age(i) \in Nat /\ Age(j) \in Nat
  BY Ages, LeavesOldest, Sizes
<1>2. \A m \in LEntries :
        Age(m)' = IF Age(m) >= LRtNum THEN Age(m) - LRtNum
                  ELSE (Age(m) + LSQ_ENTRY_NUM) - LRtNum
  BY Fits, AgesMove
<1>3. Age(i)' \in Nat /\ Age(j)' \in Nat
  BY <1>1, <1>2, Sizes
<1>4. Age(j)' < LOccupied - LRtNum
  BY <1>1, <1>3
<1>5. Age(i) = Age(i)' + LRtNum /\ Age(j) = Age(j)' + LRtNum
  BY <1>4, QueueMoves
<1> QED
  BY <1>1, <1>3, <1>4, <1>5, QueueMoves

\* What was known of the stores before an entry stays known.
LEMMA StaysKnown ==
  ASSUME Ring, Shaped, Queued, NEW in, Given(in), NextLSQ(in), ~Rollback,
         NEW i \in LEntries, Age(i)' < LOccupied - LRtNum, OlderStoreKnown(i)
  PROVE  /\ OlderStoreKnown(i)'
         /\ \A j \in Older(i)' : lsq_array'[j].cmd = "STORE" =>
               /\ j \in Older(i) /\ lsq_array[j].cmd = "STORE" /\ lsq_array[j].addr_valid
               /\ lsq_array'[j].addr_valid /\ lsq_array'[j].acc = lsq_array[j].acc
               /\ lsq_array'[j].data = lsq_array[j].data
<1>1. ASSUME NEW j \in Older(i)'
      PROVE  /\ j \in LEntries /\ j \in Older(i) /\ Kept(lsq_array[j], lsq_array'[j])
             /\ StoreCheck(j)
  <2>1. j \in LEntries /\ Age(j)' < Age(i)'
    BY <1>1 DEF Older
  <2>2. Age(j) < Age(i) /\ Kept(lsq_array[j], lsq_array'[j])
    BY <2>1, OlderWasOlder
  <2> QED
    BY <2>1, <2>2 DEF Older, OlderStoreKnown
<1>2. ASSUME NEW j \in Older(i)', lsq_array'[j].cmd = "STORE"
      PROVE  /\ j \in Older(i) /\ lsq_array[j].cmd = "STORE" /\ lsq_array[j].addr_valid
             /\ lsq_array'[j].addr_valid /\ lsq_array'[j].acc = lsq_array[j].acc
             /\ lsq_array'[j].data = lsq_array[j].data
  BY <1>1, <1>2 DEF Kept, StoreCheck
<1>3. ASSUME NEW j \in Older(i)' PROVE StoreCheck(j)'
  <2>1. CASE lsq_array[j].cmd = "STORE"
    BY <1>1, <1>2, <2>1 DEF Kept, StoreCheck
  <2>2. CASE lsq_array[j].cmd = "LOAD"
    BY <1>1, <2>2 DEF Kept, StoreCheck
  <2> QED
    BY <1>1, <2>1, <2>2 DEF StoreCheck
<1> QED
  BY <1>2, <1>3 DEF OlderStoreKnown

-----------------------------------------------------------------------------
\* What a cycle brings.

Input(g, c, ld, st, cp) ==
    [n |-> Cardinality(DOMAIN MemOps(g)), dp |-> MemOps(g),
     fu |-> [i \in DOMAIN ld \cup DOMAIN st |->
               IF i \in DOMAIN ld THEN ld[i] ELSE st[i]],
     cp |-> cp,
     confirm |-> c.confirm, tag |-> c.tag, response |-> c.response]

Group(g) == [k \in DOMAIN g |-> [inst |-> g[k], br_predict |-> FALSE, wfi |-> FALSE]]

Results(cp, stored, done, taken) ==
    [r \in done \cup {lsq_array[i].rob_idx : i \in cp \cup stored} |->
       [br_result |-> r \in taken, br_target |-> NoTarget]]

\* Every step is an edge with some input.
LEMMA StepIsEdge ==
  ASSUME Next
  PROVE  \E g \in Groups, c \in CacheMoves, ld \in LoadUnitSends, st \in StoreUnitSends,
            cp \in {{}} \cup {{i} : i \in Requests("LOAD_CP")} :
         \E stored \in {{}} \cup {{i} : i \in StoreUnit \cup DOMAIN st} :
         \E done \in SUBSET OthersInFlight : \E taken \in SUBSET done :
            /\ rob' = NextROB(rob, Cardinality(DOMAIN g), Group(g),
                              Results(cp, stored, done, taken))
            /\ NextLSQ(Input(g, c, ld, st, cp))
            /\ NextCache(Input(g, c, ld, st, cp))
BY DEF Next, Input, Group, Results

\* The loads and stores of a group, in the group's order.
MemChannels(g) == {k \in DOMAIN g : g[k] # "OTHER"}
Size(g) == Cardinality(MemChannels(g))

LEMMA OpsAre ==
  ASSUME NEW m \in Nat, NEW g \in [0..(m - 1) -> Kinds]
  PROVE  /\ Size(g) \in 0..m /\ DOMAIN MemOps(g) = 0..(Size(g) - 1)
         /\ Cardinality(DOMAIN MemOps(g)) = Size(g)
         /\ \E at \in [0..(Size(g) - 1) -> MemChannels(g)] :
               /\ \A x, y \in 0..(Size(g) - 1) : x < y => at[x] < at[y]
               /\ \A k \in MemChannels(g) : \E x \in 0..(Size(g) - 1) : at[x] = k
               /\ MemOps(g) = [x \in 0..(Size(g) - 1) |->
                     [cmd |-> g[at[x]], rob_idx |-> Advance(rob.tail, at[x])]]
<1> DEFINE ops == MemChannels(g)
           n == Size(g)
           below(k) == {j \in ops : j < k}
           at == [x \in 0..(n - 1) |-> CHOOSE k \in ops : Cardinality(below(k)) = x]
<1>1. DOMAIN g = 0..(m - 1) /\ IsFiniteSet(DOMAIN g) /\ Cardinality(DOMAIN g) = m
  <2>1. m - 1 \in Int /\ 0 \in Int /\ ((m - 1) - 0) + 1 = m
    OBVIOUS
  <2>2. /\ IsFiniteSet(0..(m - 1))
        /\ Cardinality(0..(m - 1)) = IF 0 > m - 1 THEN 0 ELSE ((m - 1) - 0) + 1
    BY <2>1, FS_Interval
  <2> QED
    BY <2>1, <2>2
<1>2. ops \in SUBSET Nat /\ ops \in SUBSET (0..(m - 1))
  BY <1>1 DEF MemChannels
<1>3. IsFiniteSet(ops) /\ n \in Nat /\ n <= m
  <2>1. ops \in SUBSET (DOMAIN g)
    BY DEF MemChannels
  <2> QED
    BY <1>1, <2>1, FS_Subset, FS_CardinalityType DEF Size
<1>4. MemOps(g) = [x \in 0..(n - 1) |->
                     [cmd |-> g[at[x]], rob_idx |-> Advance(rob.tail, at[x])]]
  <2>1. \A k : {j \in DOMAIN g : j < k /\ g[j] # "OTHER"} = below(k)
    BY DEF MemChannels
  <2> QED
    BY <2>1 DEF MemOps, MemChannels, Size
<1>5. /\ \A f \in ops : Cardinality(below(f)) \in 0..(n - 1)
      /\ \A k \in 0..(n - 1) : \E f \in ops : Cardinality(below(f)) = k
      /\ \A f, e \in ops : Cardinality(below(f)) = Cardinality(below(e)) => f = e
  <2>1. \A f \in ops : Cardinality(below(f)) \in 0..(n - 1)
    BY <1>2, <1>3, RanksCover DEF Size
  <2>2. \A k \in 0..(n - 1) : \E f \in ops : Cardinality(below(f)) = k
    BY <1>2, <1>3, RanksCover DEF Size
  <2>3. \A f, e \in ops : Cardinality(below(f)) = Cardinality(below(e)) => f = e
    BY <1>2, <1>3, RanksCover DEF Size
  <2> QED
    BY <2>1, <2>2, <2>3
<1>6. \A x \in 0..(n - 1) : at[x] \in ops /\ Cardinality(below(at[x])) = x
  BY <1>5
<1>7. ASSUME NEW k \in ops PROVE \E x \in 0..(n - 1) : at[x] = k
  <2> DEFINE x == Cardinality(below(k))
  <2>1. x \in 0..(n - 1)
    BY <1>5
  <2>2. at[x] \in ops /\ Cardinality(below(at[x])) = x
    BY <1>6, <2>1
  <2>3. at[x] = k
    BY <1>5, <2>2
  <2> QED
    BY <2>1, <2>3
<1> HIDE DEF n, at
<1>8. ASSUME NEW x \in 0..(n - 1), NEW y \in 0..(n - 1), x < y PROVE at[x] < at[y]
  <2>1. at[x] \in ops /\ at[y] \in ops /\ at[x] \in Nat /\ at[y] \in Nat
    BY <1>2, <1>6
  <2>2. at[x] # at[y]
    <3>1. x # y /\ Cardinality(below(at[x])) = x /\ Cardinality(below(at[y])) = y
      BY <1>3, <1>6, <1>8
    <3> HIDE DEF below
    <3> QED
      BY <3>1
  <2>3. SUFFICES ASSUME at[y] < at[x] PROVE FALSE
    BY <2>1, <2>2
  <2>4. below(at[y]) \in SUBSET below(at[x])
    BY <1>2, <2>1, <2>3
  <2>5. IsFiniteSet(below(at[x]))
    <3>1. below(at[x]) \in SUBSET ops
      OBVIOUS
    <3> QED
      BY <1>3, <3>1, FS_Subset
  <2>6. Cardinality(below(at[y])) <= Cardinality(below(at[x]))
    BY <2>4, <2>5, FS_Subset
  <2> QED
    BY <1>3, <1>6, <1>8, <2>6
<1>9. at \in [0..(n - 1) -> ops]
  BY <1>6 DEF at
<1>10. Cardinality(0..(n - 1)) = n
  <2>1. n - 1 \in Int /\ 0 \in Int /\ ((n - 1) - 0) + 1 = n
    BY <1>3
  <2>2. /\ IsFiniteSet(0..(n - 1))
        /\ Cardinality(0..(n - 1)) = IF 0 > n - 1 THEN 0 ELSE ((n - 1) - 0) + 1
    BY <2>1, FS_Interval
  <2> QED
    BY <1>3, <2>1, <2>2
<1>11. DOMAIN MemOps(g) = 0..(n - 1)
  BY <1>4
<1> QED
  BY <1>3, <1>4, <1>7, <1>8, <1>9, <1>10, <1>11 DEF n

\* What the dispatcher may send: no more than the reorder buffer and the queue have
\* room for, and nothing while a flush is pending.
LEMMA GroupIs ==
  ASSUME NEW g \in Groups
  PROVE  /\ Cardinality(DOMAIN g) \in Nat
         /\ g \in [0..(Cardinality(DOMAIN g) - 1) -> Kinds]
         /\ BrMisValid(rob) => Cardinality(DOMAIN g) = 0
         /\ ~BrMisValid(rob) => Cardinality(DOMAIN g) <= DpAvail(rob)
         /\ Size(g) <= LAvail
<1> DEFINE avail == IF BrMisValid(rob) THEN 0 ELSE DpAvail(rob)
<1>1. g \in UNION {[0..(n - 1) -> Kinds] : n \in 0..avail} /\ Size(g) <= LAvail
  BY DEF Groups, Size, MemChannels
<1>2. PICK n \in 0..avail : g \in [0..(n - 1) -> Kinds]
  <2> HIDE DEF avail
  <2> QED
    BY <1>1
<1>3. DOMAIN g = 0..(n - 1) /\ n \in Nat /\ n <= avail
  BY <1>2
<1>4. Cardinality(DOMAIN g) = n
  <2>1. n - 1 \in Int /\ 0 \in Int /\ ((n - 1) - 0) + 1 = n
    BY <1>3
  <2>2. /\ IsFiniteSet(0..(n - 1))
        /\ Cardinality(0..(n - 1)) = IF 0 > n - 1 THEN 0 ELSE ((n - 1) - 0) + 1
    BY <2>1, FS_Interval
  <2> QED
    BY <1>3, <2>1, <2>2
<1> QED
  BY <1>1, <1>2, <1>3, <1>4

\* What the cache may do to the queue's requests.
Cached(in) ==
    /\ in.tag \in DOMAIN misses \cup {0}
    /\ in.confirm # "wait" => in.tag = 0 /\ ArbiterReq # {}
    /\ in.confirm = "miss" =>
          /\ in.response \in MemTags /\ in.response \notin DOMAIN misses
          /\ lsq_array[Grant].cmd = "LOAD"

LEMMA SendsFrom ==
  ASSUME NEW S, NEW D, NEW f \in Sends(S, D)
  PROVE  \A i \in DOMAIN f : i \in S /\ f[i].acc \in Accesses
<1>1. CASE f = <<>>
  BY <1>1
<1>2. CASE f \in UNION {[{i} -> [acc : Accesses, data : D]] : i \in S}
  <2>1. PICK i \in S : f \in [{i} -> [acc : Accesses, data : D]]
    BY <1>2
  <2> QED
    BY <2>1
<1> QED
  BY <1>1, <1>2 DEF Sends

LEMMA StoresSent ==
  ASSUME NEW st \in StoreUnitSends
  PROVE  \A i \in DOMAIN st : i \in Waiting("STORE") /\ st[i].acc \in Accesses
<1> DEFINE S == IF StoreUnit = {} THEN Waiting("STORE") ELSE {}
<1>1. st \in Sends(S, {[l \in Lanes |-> v] : v \in Values})
  BY DEF StoreUnitSends
<1>2. \A i \in S : i \in Waiting("STORE")
  OBVIOUS
<1> HIDE DEF S
<1> QED
  BY <1>1, <1>2, SendsFrom

LEMMA InputIs ==
  ASSUME NEW g \in Groups, NEW c \in CacheMoves, NEW ld \in LoadUnitSends,
         NEW st \in StoreUnitSends, NEW cp
  PROVE  /\ Given(Input(g, c, ld, st, cp)) /\ Cached(Input(g, c, ld, st, cp))
         /\ Input(g, c, ld, st, cp).n = Size(g)
         /\ Input(g, c, ld, st, cp).dp = MemOps(g)
         /\ Input(g, c, ld, st, cp).cp = cp
         /\ DOMAIN Input(g, c, ld, st, cp).fu = DOMAIN ld \cup DOMAIN st
<1> DEFINE in == Input(g, c, ld, st, cp)
           m == Cardinality(DOMAIN g)
<1>1. /\ m \in Nat /\ g \in [0..(m - 1) -> Kinds] /\ Size(g) <= LAvail
  BY GroupIs
<1>2. /\ in.n = Cardinality(DOMAIN MemOps(g)) /\ in.dp = MemOps(g) /\ in.cp = cp
      /\ DOMAIN in.fu = DOMAIN ld \cup DOMAIN st
      /\ in.tag = c.tag /\ in.confirm = c.confirm /\ in.response = c.response
  BY DEF Input
<1> HIDE DEF in, m
<1>3. /\ Size(g) \in 0..m /\ Cardinality(DOMAIN MemOps(g)) = Size(g)
      /\ \E at \in [0..(Size(g) - 1) -> MemChannels(g)] :
            MemOps(g) = [x \in 0..(Size(g) - 1) |->
                           [cmd |-> g[at[x]], rob_idx |-> Advance(rob.tail, at[x])]]
  BY <1>1, OpsAre
<1>4. in.n = Size(g) /\ in.n \in Nat /\ in.n <= LAvail
  BY <1>1, <1>2, <1>3
<1>5. \A x \in 0..(in.n - 1) : in.dp[x].cmd \in {"LOAD", "STORE"}
  <2>1. PICK at \in [0..(Size(g) - 1) -> MemChannels(g)] :
            MemOps(g) = [x \in 0..(Size(g) - 1) |->
                           [cmd |-> g[at[x]], rob_idx |-> Advance(rob.tail, at[x])]]
    BY <1>3
  <2>2. \A k \in MemChannels(g) : g[k] \in {"LOAD", "STORE"}
    BY <1>1, LSQParameters DEF MemChannels
  <2> QED
    BY <1>2, <1>4, <2>1, <2>2
<1>6. ASSUME NEW i \in DOMAIN in.fu
      PROVE  i \in Waiting("LOAD") \cup Waiting("STORE") /\ in.fu[i].acc \in Accesses
  <2>1. in.fu[i] = IF i \in DOMAIN ld THEN ld[i] ELSE st[i]
    BY DEF Input, in
  <2>2. i \in DOMAIN ld => i \in Waiting("LOAD") /\ ld[i].acc \in Accesses
    BY SendsFrom DEF LoadUnitSends
  <2>3. i \in DOMAIN st => i \in Waiting("STORE") /\ st[i].acc \in Accesses
    BY StoresSent
  <2> QED
    BY <1>2, <2>1, <2>2, <2>3
<1>7. Cached(in)
  BY <1>2 DEF CacheMoves, Cached
<1> QED
  BY <1>2, <1>4, <1>5, <1>6, <1>7 DEF Given, in

-----------------------------------------------------------------------------
\* The invariant of the queue.

LEMMA InitQInv == Init => QInv
<1> SUFFICES ASSUME Init PROVE QInv
  OBVIOUS
<1>1. /\ head = 0 /\ tail = 0 /\ head_rollover = FALSE /\ tail_rollover = FALSE
      /\ lsq_array = [i \in LEntries |-> IdleEntry]
  BY DEF Init
<1>2. head_rollover = tail_rollover /\ head_rollover \in BOOLEAN /\ tail_rollover \in BOOLEAN
  BY <1>1, Zenon
<1>3. LOccupied = 0 /\ Ring /\ \A i \in LEntries : Age(i) = i
  <2>1. head = 0 /\ tail = 0
    BY <1>1
  <2> QED
    BY <1>2, <2>1, Sizes DEF Age, LOccupied, Ring
<1>4. \A i \in LEntries : lsq_array[i] = IdleEntry /\ ~(Age(i) < LOccupied)
  BY <1>1, <1>3, Sizes
<1>5. Shaped /\ Queued
  BY <1>1, <1>4, HasFields DEF Shaped, Queued
<1>6. Knows /\ LoadsWaitForStores
  BY <1>4, HasFields DEF Knows, LoadsWaitForStores
<1> QED
  BY <1>3, <1>5, <1>6 DEF QInv

\* A flush leaves an empty queue (LSQ_global_ctrl.sv l.226-255).
LEMMA FlushKeepsQInv == ASSUME NEW in, NextLSQ(in), Rollback PROVE QInv'
<1>1. /\ head' = 0 /\ tail' = 0 /\ head_rollover' = FALSE /\ tail_rollover' = FALSE
      /\ lsq_array' = [i \in LEntries |-> IdleEntry]
  BY DEF NextLSQ
<1>2. /\ head_rollover' = tail_rollover'
      /\ head_rollover' \in BOOLEAN /\ tail_rollover' \in BOOLEAN
  BY <1>1, Zenon
<1>3. LOccupied' = 0 /\ Ring' /\ \A i \in LEntries : Age(i)' = i
  <2>1. head' = 0 /\ tail' = 0
    BY <1>1
  <2> QED
    BY <1>2, <2>1, Sizes DEF Age, LOccupied, Ring
<1>4. \A i \in LEntries : lsq_array'[i] = IdleEntry /\ ~(Age(i)' < LOccupied')
  BY <1>1, <1>3, Sizes
<1>5. Shaped' /\ Queued'
  BY <1>1, <1>4, HasFields DEF Shaped, Queued
<1>6. Knows' /\ LoadsWaitForStores'
  BY <1>4, HasFields DEF Knows, LoadsWaitForStores
<1> QED
  BY <1>3, <1>5, <1>6 DEF QInv

\* Any other edge moves the entries on.
LEMMA EdgeKeepsQInv ==
  ASSUME QInv, NEW in, Given(in), NextLSQ(in), ~Rollback
  PROVE  QInv'
<1>1. Ring /\ Shaped /\ Queued
  BY DEF QInv
<1>2. /\ Ring' /\ LOccupied' = (LOccupied - LRtNum) + in.n
      /\ in.n \in Nat
  BY <1>1, Fits, AgesMove
<1>3. /\ LRtNum \in Nat /\ LOccupied \in Nat /\ LRtNum <= LOccupied
  BY <1>1, Ages, LeavesOldest, Sizes
<1>4. ASSUME NEW i \in LEntries PROVE Age(i)' \in Nat
  <2>1. Age(i) \in Nat /\ Age(i) < LSQ_ENTRY_NUM /\ LOccupied <= LSQ_ENTRY_NUM
    BY <1>1, Ages, Sizes
  <2>2. Age(i)' = IF Age(i) >= LRtNum THEN Age(i) - LRtNum
                  ELSE (Age(i) + LSQ_ENTRY_NUM) - LRtNum
    BY <1>1, Fits, AgesMove
  <2> QED
    BY <1>3, <2>1, <2>2, Sizes
<1>5. ASSUME NEW i \in LEntries
      PROVE  /\ Entry(lsq_array'[i])
             /\ lsq_array'[i].state # "IDLE" <=> Age(i)' < LOccupied'
             /\ lsq_array'[i].state \in {"RD_MEM", "WAIT_MEM", "LOAD_CP", "ROB_RETIRE"}
                   => Age(i)' < LOccupied - LRtNum
  <2>1. CASE Age(i)' < LOccupied - LRtNum
    <3>1. Entry(lsq_array'[i]) /\ lsq_array'[i].state # "IDLE"
      BY <1>1, <2>1, QueueMoves DEF Kept
    <3>2. Age(i)' < LOccupied'
      BY <1>2, <1>3, <1>4, <2>1
    <3> QED
      BY <2>1, <3>1, <3>2
  <2>2. CASE Age(i)' >= LOccupied - LRtNum /\ Age(i)' < LOccupied'
    <3>1. PICK k \in 0..(in.n - 1) : lsq_array'[i] = Fresh(in.dp[k])
      BY <1>1, <2>2, QueueMoves
    <3>2. Entry(lsq_array'[i]) /\ lsq_array'[i].state = "ADDR"
      BY <3>1, FreshIs DEF Given
    <3> QED
      BY <2>2, <3>2
  <2>3. CASE Age(i)' >= LOccupied'
    <3>1. Entry(lsq_array'[i]) /\ lsq_array'[i].state = "IDLE"
      BY <1>1, <2>3, QueueMoves
    <3> QED
      BY <1>2, <1>3, <1>4, <2>3, <3>1
  <2> QED
    BY <1>2, <1>3, <1>4, <2>1, <2>2, <2>3
<1>6. Shaped' /\ Queued'
  BY <1>5 DEF NextLSQ, Shaped, Queued
<1>7. ASSUME NEW i \in LEntries, Age(i)' < LOccupied - LRtNum, lsq_array'[i].cmd = "LOAD",
             lsq_array'[i].state \in {"RD_MEM", "WAIT_MEM", "LOAD_CP", "ROB_RETIRE"}
      PROVE  /\ OlderStoreKnown(i)'
             /\ lsq_array'[i].state \in {"RD_MEM", "WAIT_MEM"} => Dependences(i)' = {}
  <2>1. /\ lsq_array[i].state # "IDLE" /\ lsq_array'[i] = NextLsqEntry(i, in)
        /\ i \notin LRtSel /\ Kept(lsq_array[i], lsq_array'[i])
    BY <1>1, <1>7, QueueMoves
  <2>2. lsq_array[i].cmd = "LOAD"
    BY <1>7, <2>1 DEF Kept
  <2>3. lsq_array[i].state # "RETIRE"
    BY <1>7, <2>1, NextByState DEF NextRetire
  <2>4. /\ OlderStoreKnown(i)
        /\ lsq_array'[i].state \in {"RD_MEM", "WAIT_MEM"} =>
              Dependences(i) = {} /\ lsq_array[i].addr_valid
    BY <1>7, <2>1, <2>2, <2>3, GoesOn
  <2>5. /\ OlderStoreKnown(i)'
        /\ \A j \in Older(i)' : lsq_array'[j].cmd = "STORE" =>
              /\ j \in Older(i) /\ lsq_array[j].cmd = "STORE" /\ lsq_array[j].addr_valid
              /\ lsq_array'[j].acc = lsq_array[j].acc
    BY <1>1, <1>7, <2>4, StaysKnown
  <2>6. ASSUME lsq_array'[i].state \in {"RD_MEM", "WAIT_MEM"}, NEW j \in Dependences(i)'
        PROVE  FALSE
    <3>1. /\ j \in Older(i)' /\ lsq_array'[j].cmd = "STORE"
          /\ lsq_array'[j].acc.word = lsq_array'[i].acc.word
      BY <2>6 DEF Dependences
    <3>2. lsq_array'[i].acc = lsq_array[i].acc
      BY <2>1, <2>4, <2>6 DEF Kept
    <3>3. j \in Dependences(i)
      BY <2>5, <3>1, <3>2 DEF Dependences
    <3> QED
      BY <2>4, <2>6, <3>3
  <2> QED
    BY <2>5, <2>6
<1>8. Knows'
  BY <1>5, <1>7 DEF Knows
<1>9. LoadsWaitForStores'
  <2>1. \A i \in LEntries : lsq_array'[i].state \in {"RD_MEM", "WAIT_MEM"} =>
          lsq_array'[i].cmd = "LOAD"
    BY <1>5 DEF Entry
  <2> QED
    BY <1>5, <1>7, <2>1 DEF LoadsWaitForStores
<1> QED
  BY <1>2, <1>6, <1>8, <1>9 DEF QInv

LEMMA NextQInv == QInv /\ [Next]_vars => QInv'
<1> SUFFICES ASSUME QInv, [Next]_vars PROVE QInv'
  OBVIOUS
<1>1. CASE Next
  <2>1. PICK in : Given(in) /\ NextLSQ(in)
    BY <1>1, StepIsEdge, InputIs
  <2> QED
    BY <2>1, FlushKeepsQInv, EdgeKeepsQInv
<1>2. CASE UNCHANGED vars
  <2>1. UNCHANGED <<head, tail, head_rollover, tail_rollover, lsq_array>>
    BY <1>2 DEF vars, lsqVars
  <2>2. Ring' /\ Shaped' /\ Queued'
    BY <2>1 DEF QInv, Ring, Shaped, Queued, Age, LOccupied
  <2>3. Knows' /\ LoadsWaitForStores'
    BY <2>1 DEF QInv, Knows, LoadsWaitForStores, OlderStoreKnown, Dependences, Older,
                StoreCheck, Age
  <2> QED
    BY <2>2, <2>3 DEF QInv
<1> QED
  BY <1>1, <1>2

LEMMA AlwaysQInv == Spec => []QInv
  BY InitQInv, NextQInv, PTL DEF Spec

\* No load reads memory before the addresses of all stores before it are known and
\* those that write its word have been written, whatever the units, the cache and a
\* flush do meanwhile (LSQ_entry_ctrl.sv l.135-199, l.377-482).
THEOREM LoadsNeverOvertakeStores == Spec => []LoadsWaitForStores
<1>1. QInv => LoadsWaitForStores
  BY DEF QInv
<1> QED
  BY <1>1, AlwaysQInv, PTL

-----------------------------------------------------------------------------
\* Stores that have retired.

\* A store that retires or has retired.
Retired(i) ==
    \/ lsq_array[i].state = "WR_MEM"
    \/ RobRetire(i) /\ lsq_array[i].cmd = "STORE"

\* Without a flush, a store that has retired is to be written, or has been.
LEMMA RetiredIsWritten ==
  ASSUME QInv, NEW i \in LEntries, NEW in, Retired(i)
  PROVE  NextLsqEntry(i, in).state \in {"WR_MEM", "RETIRE"}
<1>0. DOMAIN lsq_array[i] = Fields
  BY DEF QInv, Shaped, Entry
<1>1. CASE lsq_array[i].state = "WR_MEM"
  <2>1. NextWrMem(i, in).state \in {"WR_MEM", "RETIRE"}
    BY <1>0, <1>1, HasFields DEF NextWrMem
  <2> QED
    BY <1>1, <2>1, NextByState
<1>2. CASE RobRetire(i) /\ lsq_array[i].cmd = "STORE"
  <2>1. lsq_array[i].state = "ROB_RETIRE"
    BY <1>2 DEF RobRetire
  <2>2. NextRobRetire(i).state = "WR_MEM"
    BY <1>0, <1>2, HasFields DEF NextRobRetire
  <2> QED
    BY <2>1, <2>2, NextByState
<1> QED
  BY <1>1, <1>2 DEF Retired

\* What RetiredStoresSurvive says of one step.
LEMMA StepKeepsRetired ==
  QInv /\ [Next]_vars =>
    [\A i \in LEntries :
        \/ lsq_array[i].state = "WR_MEM"
        \/ RobRetire(i) /\ lsq_array[i].cmd = "STORE"
        => lsq_array'[i].state \in {"WR_MEM", "RETIRE"}]_vars
<1> SUFFICES ASSUME QInv, Next, NEW i \in LEntries, Retired(i)
             PROVE  lsq_array'[i].state \in {"WR_MEM", "RETIRE"}
  BY DEF Retired
<1>1. PICK in : NextLSQ(in)
  BY StepIsEdge
<1>2. ~Rollback
  BY DEF Rollback, StoreRetiring, Retired
<1>3. lsq_array'[i] = NextLsqEntry(i, in)
  BY <1>1, <1>2 DEF NextLSQ
<1> QED
  BY <1>3, RetiredIsWritten

\* No flush, put off or not, and nothing that happens meanwhile takes a store that the
\* reorder buffer has retired from the queue before the cache has confirmed it
\* (LSQ_global_ctrl.sv l.226-255, LSQ_entry_ctrl.sv l.271-330).
THEOREM RetiredStoresAreWritten == Spec => RetiredStoresSurvive
<1>1. QInv /\ [Next]_vars =>
        [\A i \in LEntries :
            \/ lsq_array[i].state = "WR_MEM"
            \/ RobRetire(i) /\ lsq_array[i].cmd = "STORE"
            => lsq_array'[i].state \in {"WR_MEM", "RETIRE"}]_vars
  BY StepKeepsRetired
<1> QED
  BY <1>1, AlwaysQInv, PTL DEF Spec, RetiredStoresSurvive

-----------------------------------------------------------------------------
\* The reorder buffer beside the queue.

RobWhole == Whole({"LOAD", "STORE", "OTHER"}, {NoTarget}, rob)

Held == {i \in Entries : rob.array[i].valid}

LEMMA RobSizes ==
  ASSUME RobWhole
  PROVE  /\ Pointers(rob) /\ Ordered(rob) /\ FillsWindow(rob)
         /\ rob \in ROBOf({"LOAD", "STORE", "OTHER"}, {NoTarget})
         /\ Occupied(rob) \in 0..ROB_ENTRY_NUM
         /\ RtNum(rob) \in Nat /\ RtNum(rob) <= Occupied(rob) /\ RtSel(rob) \subseteq Held
         /\ AvailNum(rob) = (ROB_ENTRY_NUM - Occupied(rob)) + RtNum(rob)
<1>1. /\ Ordered(rob) /\ FillsWindow(rob)
      /\ rob \in ROBOf({"LOAD", "STORE", "OTHER"}, {NoTarget})
  BY DEF RobWhole, Whole
<1>2. Pointers(rob)
  BY <1>1 DEF ROBOf, Pointers
<1>3. /\ RtSel(rob) \subseteq Window(rob) /\ RtNum(rob) <= Occupied(rob)
      /\ Occupied(rob) \in 0..ROB_ENTRY_NUM
      /\ AvailNum(rob) = ROB_ENTRY_NUM - Occupied(rob) + RtNum(rob)
  BY <1>1, <1>2, RetiresWhatItHolds
<1>4. RtNum(rob) \in 0..RT_NUM
  BY <1>2, RetiresAnInterval DEF Pointers
<1>5. RtSel(rob) \subseteq Held
  BY <1>1, <1>3 DEF FillsWindow, Held, Window
<1> QED
  BY <1>1, <1>2, <1>3, <1>4, <1>5, ROBParameters

\* An instruction's age is its distance from the head; the oldest RtNum retire.
LEMMA RobAges ==
  ASSUME RobWhole
  PROVE  /\ \A i \in Entries : RobAge(i) \in Entries
         /\ \A i, j \in Entries : RobAge(i) = RobAge(j) => i = j
         /\ \A i \in Entries : i \in Held <=> RobAge(i) < Occupied(rob)
         /\ \A i \in Entries : i \in RtSel(rob) <=> RobAge(i) < RtNum(rob)
         /\ \A i \in RtSel(rob) : rob.array[i].complete
<1>1. Pointers(rob) /\ Ordered(rob) /\ FillsWindow(rob) /\ RtNum(rob) \in Nat
  BY RobSizes
<1>2. ROB_ENTRY_NUM \in Nat /\ ROB_ENTRY_NUM > 0
  BY ROBParameters
<1>3. \A i \in Entries : RobAge(i) \in Entries
  BY <1>1, <1>2 DEF Pointers, RobAge, Entries
<1>4. \A i, j \in Entries : RobAge(i) = RobAge(j) => i = j
  BY <1>1, <1>2 DEF Pointers, RobAge, Entries
<1>5. \A i \in Entries : i \in Window(rob) <=> RobAge(i) < Occupied(rob)
  BY <1>1, <1>2 DEF Pointers, Ordered, Window, Occupied, RobAge, Entries
<1>6. \A i \in Entries : i \in Held <=> RobAge(i) < Occupied(rob)
  BY <1>1, <1>5 DEF FillsWindow, Held
<1>7. /\ rob.head + RtNum(rob) <= ROB_ENTRY_NUM
      /\ RtSel(rob) = rob.head .. (rob.head + RtNum(rob) - 1)
  BY <1>1, RetiresAnInterval DEF Pointers
<1>8. \A i \in Entries : i \in RtSel(rob) <=> RobAge(i) < RtNum(rob)
  BY <1>1, <1>2, <1>7 DEF Pointers, RobAge, Entries
<1>9. \A i \in RtSel(rob) : rob.array[i].complete
  <2> SUFFICES ASSUME NEW i \in RtSel(rob) PROVE rob.array[i].complete
    OBVIOUS
  <2>1. i \in Entries /\ i >= rob.head
        /\ \A j \in rob.head..i : rob.array[j].complete
    BY DEF RtSel
  <2>2. i \in rob.head..i
    BY <1>1, <1>2, <2>1 DEF Pointers, Entries
  <2> QED
    BY <2>1, <2>2
<1> QED
  BY <1>3, <1>4, <1>6, <1>8, <1>9

\* The instruction k of a group gets the place k behind the youngest.
LEMMA RobPlacesGiven ==
  ASSUME RobWhole, NEW n \in Nat, n <= DP_NUM, NEW i \in Entries
  PROVE  /\ i \in DpSel(rob, n) <=> DpChannel(rob, i) < n
         /\ DpChannel(rob, i) \in Nat
         /\ i = Advance(rob.tail, DpChannel(rob, i))
         /\ DpChannel(rob, i) = IF Occupied(rob) <= RobAge(i) THEN RobAge(i) - Occupied(rob)
                                ELSE (RobAge(i) + ROB_ENTRY_NUM) - Occupied(rob)
<1>1. Pointers(rob) /\ Ordered(rob)
  BY RobSizes
<1>2. ROB_ENTRY_NUM \in Nat /\ ROB_ENTRY_NUM > 0 /\ DP_NUM <= ROB_ENTRY_NUM /\ DP_NUM \in Nat
  BY ROBParameters
<1>3. i \in DpSel(rob, n) <=> DpChannel(rob, i) < n
  BY <1>1, <1>2 DEF Pointers, DpSel, DpChannel, Wraps, Entries
<1>4. DpChannel(rob, i) \in Nat
  BY <1>1, <1>2 DEF Pointers, DpChannel, Entries
<1>5. i = Advance(rob.tail, DpChannel(rob, i))
  BY <1>1, <1>2 DEF Pointers, DpChannel, Advance, Entries
<1>6. DpChannel(rob, i) = IF Occupied(rob) <= RobAge(i) THEN RobAge(i) - Occupied(rob)
                          ELSE (RobAge(i) + ROB_ENTRY_NUM) - Occupied(rob)
  BY <1>1, <1>2 DEF Pointers, Ordered, Occupied, DpChannel, RobAge, Entries
<1> QED
  BY <1>3, <1>4, <1>5, <1>6

\* What a cycle does to the reorder buffer when nothing is flushed.
RobInput(n, g, cdb) ==
    /\ n \in Nat /\ n <= DpAvail(rob)
    /\ g \in [0..(n - 1) -> Kinds]
    /\ \A i \in DOMAIN cdb : cdb[i].br_result \in BOOLEAN /\ cdb[i].br_target = NoTarget
    /\ rob' = NextROB(rob, n, Group(g), cdb)

LEMMA RobStaysWhole ==
  ASSUME RobWhole, NEW n, NEW g, NEW cdb, RobInput(n, g, cdb)
  PROVE  RobWhole'
<1>1. /\ n \in Nat /\ n <= DpAvail(rob) /\ rob' = NextROB(rob, n, Group(g), cdb)
      /\ g \in [0..(n - 1) -> Kinds]
      /\ \A i \in DOMAIN cdb : cdb[i].br_result \in BOOLEAN /\ cdb[i].br_target = NoTarget
  BY DEF RobInput
<1>2. Traffic({"LOAD", "STORE", "OTHER"}, {NoTarget}, n, Group(g), cdb)
  <2>1. ASSUME NEW k \in 0..(n - 1)
        PROVE  /\ Group(g)[k].br_predict \in BOOLEAN /\ Group(g)[k].wfi \in BOOLEAN
               /\ Group(g)[k].inst \in {"LOAD", "STORE", "OTHER"}
    <3>1. k \in DOMAIN g /\ g[k] \in {"LOAD", "STORE", "OTHER"}
      BY <1>1, LSQParameters
    <3>2. Group(g)[k] = [inst |-> g[k], br_predict |-> FALSE, wfi |-> FALSE]
      BY <3>1 DEF Group
    <3> QED
      BY <3>1, <3>2
  <2> QED
    BY <1>1, <2>1 DEF Traffic
<1>3. Whole({"LOAD", "STORE", "OTHER"}, {NoTarget}, NextROB(rob, n, Group(g), cdb))
  BY <1>1, <1>2, EdgeKeepsRingWhole DEF RobWhole
<1> QED
  BY <1>1, <1>3 DEF RobWhole

\* What the reorder buffer holds after an edge without a flush: what stays is RtNum
\* younger and has completed if it has been heard of, the group is behind it.
LEMMA RobMoves ==
  ASSUME RobWhole, ~BrMisValid(rob), NEW n, NEW g, NEW cdb, RobInput(n, g, cdb),
         NEW i \in Entries
  PROVE  /\ i \in Held /\ i \notin RtSel(rob) =>
               /\ i \in Held' /\ RobAge(i)' = RobAge(i) - RtNum(rob)
               /\ rob'.array[i].inst = rob.array[i].inst
               /\ rob'.array[i].complete =>
                     rob.array[i].complete \/ i \in DOMAIN cdb
         /\ i \in Held' => \/ i \in Held /\ i \notin RtSel(rob)
                           \/ DpChannel(rob, i) \in 0..(n - 1)
         /\ DpChannel(rob, i) \in 0..(n - 1) =>
               /\ i \in Held' /\ ~rob'.array[i].complete
               /\ rob'.array[i].inst = g[DpChannel(rob, i)]
               /\ RobAge(i)' = (Occupied(rob) - RtNum(rob)) + DpChannel(rob, i)
<1> DEFINE e == rob.array[i]
           c == DpChannel(rob, i)
           N == ROB_ENTRY_NUM
           k == RtNum(rob)
           oc == Occupied(rob)
           insts == {"LOAD", "STORE", "OTHER"}
<1>1. /\ Pointers(rob) /\ rob \in ROBOf(insts, {NoTarget})
      /\ oc \in Nat /\ oc <= N /\ k \in Nat /\ k <= oc
      /\ AvailNum(rob) = (N - oc) + k
  BY RobSizes, ROBParameters
<1>2. N \in Nat /\ N > 0 /\ DP_NUM <= N /\ DP_NUM \in Nat
  BY ROBParameters
<1>3. /\ n \in Nat /\ n <= DpAvail(rob) /\ rob' = NextROB(rob, n, Group(g), cdb)
      /\ g \in [0..(n - 1) -> Kinds]
  BY DEF RobInput
<1>4. n <= DP_NUM /\ n <= (N - oc) + k
  BY <1>1, <1>2, <1>3 DEF DpAvail
<1>5. /\ i \in DpSel(rob, n) <=> c < n
      /\ c \in Nat
      /\ c = IF oc <= RobAge(i) THEN RobAge(i) - oc ELSE (RobAge(i) + N) - oc
  BY <1>3, <1>4, RobPlacesGiven
<1>6. /\ RobAge(i) \in Nat /\ RobAge(i) < N /\ (i \in Held <=> RobAge(i) < oc)
      /\ i \in RtSel(rob) <=> RobAge(i) < k
  BY <1>2, RobAges DEF Entries
<1>7. /\ rob'.array[i] = NextEntry(rob, n, Group(g), cdb, i)
      /\ rob'.head = Advance(rob.head, k)
  BY <1>3 DEF NextROB
<1>8. NextEntry(rob, n, Group(g), cdb, i).valid <=>
        \/ i \in DpSel(rob, n)
        \/ e.valid /\ i \notin RtSel(rob)
  BY <1>1, ValidAfterEdge
<1>9. i \in Held' <=> c < n \/ (i \in Held /\ i \notin RtSel(rob))
  BY <1>5, <1>7, <1>8 DEF Held
<1>10. RobAge(i)' = IF RobAge(i) >= k THEN RobAge(i) - k ELSE (RobAge(i) + N) - k
  BY <1>1, <1>2, <1>7 DEF Pointers, RobAge, Advance, Entries
<1>11. DOMAIN e = {"valid", "complete", "br_predict", "br_result", "br_target", "wfi", "inst"}
  <2>1. e \in EntryOf(insts, {NoTarget})
    BY <1>1 DEF ROBOf
  <2> QED
    BY <2>1 DEF EntryOf
<1> HIDE DEF k, oc, N, c, e
<1>12. ASSUME i \in Held, i \notin RtSel(rob)
       PROVE  /\ i \in Held' /\ RobAge(i)' = RobAge(i) - k
              /\ rob'.array[i].inst = e.inst
              /\ rob'.array[i].complete => e.complete \/ i \in DOMAIN cdb
  <2>1. ~(c < n)
    BY <1>1, <1>2, <1>3, <1>4, <1>5, <1>6, <1>12
  <2>2. i \notin DpSel(rob, n)
    BY <1>5, <2>1
  <2>3. RobAge(i) >= k
    BY <1>1, <1>6, <1>12
  <2>4. rob'.array[i] = IF i \in DOMAIN cdb /\ e.valid
                        THEN [e EXCEPT !.complete = TRUE, !.br_result = cdb[i].br_result,
                                       !.br_target = cdb[i].br_target]
                        ELSE e
    BY <1>7, <1>12, <2>2 DEF NextEntry, e
  <2>5. rob'.array[i].inst = e.inst
    BY <1>11, <2>4
  <2>6. rob'.array[i].complete => e.complete \/ i \in DOMAIN cdb
    BY <1>11, <2>4
  <2> QED
    BY <1>9, <1>10, <1>12, <2>3, <2>5, <2>6
<1>13. ASSUME c \in 0..(n - 1)
       PROVE  /\ i \in Held' /\ ~rob'.array[i].complete
              /\ rob'.array[i].inst = g[c]
              /\ RobAge(i)' = (oc - k) + c
  <2>1. c < n /\ i \in DpSel(rob, n)
    BY <1>3, <1>5, <1>13
  <2>2. Group(g)[c] = [inst |-> g[c], br_predict |-> FALSE, wfi |-> FALSE]
    BY <1>3, <1>13 DEF Group
  <2>3. rob'.array[i] = [e EXCEPT !.valid = TRUE, !.complete = FALSE,
              !.br_predict = Group(g)[c].br_predict, !.wfi = Group(g)[c].wfi,
              !.inst = Group(g)[c].inst]
    BY <1>7, <2>1 DEF NextEntry, e, c
  <2>4. RobAge(i)' = (oc - k) + c
    <3>1. RobAge(i) < oc => RobAge(i) < k
      BY <1>1, <1>2, <1>3, <1>4, <1>5, <1>6, <2>1
    <3>2. CASE RobAge(i) >= oc
      BY <1>1, <1>2, <1>5, <1>6, <1>10, <3>2
    <3>3. CASE RobAge(i) < k
      BY <1>1, <1>2, <1>5, <1>6, <1>10, <3>3
    <3> QED
      BY <1>1, <1>6, <3>1, <3>2, <3>3
  <2>5. ~rob'.array[i].complete /\ rob'.array[i].inst = g[c]
    BY <1>11, <2>2, <2>3
  <2> QED
    BY <1>9, <2>1, <2>4, <2>5
<1>14. c < n => c \in 0..(n - 1)
  BY <1>3, <1>5
<1> QED
  BY <1>9, <1>12, <1>13, <1>14 DEF c, e, k, oc

-----------------------------------------------------------------------------
\* The queue and the reorder buffer together.

\* Unless a flush is put off, an instruction of the queue that has completed waits
\* to retire; while one is, the reorder buffer holds no load or store.
CompletedWait ==
    \A i \in Pending :
        rob.array[lsq_array[i].rob_idx].complete => lsq_array[i].state = "ROB_RETIRE"

FInv ==
    /\ QInv /\ RobWhole /\ rollback_flag \in BOOLEAN
    /\ QueueFollowsROB
    /\ ~rollback_flag => CompletedWait
    /\ rollback_flag => RobOps = {}

\* at lists the loads and stores of group g in their order.
Lists(g, at) ==
    /\ at \in [0..(Size(g) - 1) -> MemChannels(g)]
    /\ \A x, y \in 0..(Size(g) - 1) : x < y => at[x] < at[y]
    /\ \A k \in MemChannels(g) : \E x \in 0..(Size(g) - 1) : at[x] = k
    /\ MemOps(g) = [x \in 0..(Size(g) - 1) |->
                       [cmd |-> g[at[x]], rob_idx |-> Advance(rob.tail, at[x])]]

\* An edge on which nothing is flushed. The broadcasts that name an instruction of
\* the queue are its own.
Edge(n, g, at, in, cdb) ==
    /\ FInv /\ ~rollback_flag /\ ~BrMisValid(rob)
    /\ NextLSQ(in) /\ Given(in) /\ in.n = Size(g) /\ in.dp = MemOps(g)
    /\ Lists(g, at) /\ RobInput(n, g, cdb)
    /\ \A i \in Pending : lsq_array[i].rob_idx \in DOMAIN cdb =>
          \/ lsq_array[i].state = "LOAD_CP" /\ i \in in.cp
          \/ /\ lsq_array[i].state = "ADDR" /\ lsq_array[i].cmd = "STORE"
             /\ i \in DOMAIN in.fu
          \/ lsq_array[i].state = "ROB_RETIRE"

LEMMA EdgeParts ==
  ASSUME NEW n, NEW g, NEW at, NEW in, NEW cdb, Edge(n, g, at, in, cdb)
  PROVE  /\ Ring /\ Shaped /\ Queued /\ QInv /\ RobWhole /\ ~Rollback
         /\ ~BrMisValid(rob) /\ CompletedWait
         /\ Given(in) /\ NextLSQ(in) /\ in.n = Size(g) /\ in.dp = MemOps(g)
         /\ Lists(g, at) /\ RobInput(n, g, cdb)
         /\ \A i \in Pending, j \in InQueue : Age(i) < Age(j) => j \in Pending
         /\ {lsq_array[i].rob_idx : i \in Pending} = RobOps
         /\ \A i \in Pending : /\ lsq_array[i].state # "IDLE"
                               /\ lsq_array[i].cmd = rob.array[lsq_array[i].rob_idx].inst
         /\ \A i, j \in Pending :
               Age(i) < Age(j) => RobAge(lsq_array[i].rob_idx) < RobAge(lsq_array[j].rob_idx)
<1>1. FInv /\ ~rollback_flag
  BY DEF Edge
<1>2. QueueFollowsROB /\ QInv
  BY <1>1 DEF FInv
<1>3. /\ \A i \in Pending, j \in InQueue : Age(i) < Age(j) => j \in Pending
      /\ {lsq_array[i].rob_idx : i \in Pending} = RobOps
      /\ \A i \in Pending : /\ lsq_array[i].state # "IDLE"
                            /\ lsq_array[i].cmd = rob.array[lsq_array[i].rob_idx].inst
      /\ \A i, j \in Pending :
            Age(i) < Age(j) => RobAge(lsq_array[i].rob_idx) < RobAge(lsq_array[j].rob_idx)
  BY <1>1, <1>2 DEF QueueFollowsROB
<1>4. Ring /\ Shaped /\ Queued /\ RobWhole /\ CompletedWait /\ ~Rollback
  BY <1>1, <1>2 DEF FInv, QInv, Edge, Rollback
<1> QED
  BY <1>2, <1>3, <1>4 DEF Edge

\* An instruction of the group in the reorder buffer.
LEMMA NewOps ==
  ASSUME NEW n, NEW g, NEW at, NEW in, NEW cdb, Edge(n, g, at, in, cdb),
         NEW x \in 0..(Size(g) - 1)
  PROVE  /\ in.dp[x].rob_idx \in RobOps' /\ in.dp[x].cmd = rob'.array[in.dp[x].rob_idx].inst
         /\ in.dp[x].cmd \in {"LOAD", "STORE"}
         /\ ~rob'.array[in.dp[x].rob_idx].complete
         /\ at[x] \in Nat
         /\ RobAge(in.dp[x].rob_idx)' = (Occupied(rob) - RtNum(rob)) + at[x]
<1> DEFINE k == at[x]
<1>1. /\ RobWhole /\ ~BrMisValid(rob) /\ in.dp = MemOps(g)
      /\ Lists(g, at) /\ RobInput(n, g, cdb)
  BY EdgeParts
<1>2. k \in MemChannels(g) /\ in.dp[x] = [cmd |-> g[k], rob_idx |-> Advance(rob.tail, k)]
  BY <1>1 DEF Lists
<1>3. n \in Nat /\ n <= DP_NUM /\ k \in 0..(n - 1) /\ g[k] \in {"LOAD", "STORE"}
  <2>1. n \in Nat /\ n <= DpAvail(rob) /\ g \in [0..(n - 1) -> Kinds]
    BY <1>1 DEF RobInput
  <2>2. AvailNum(rob) \in Int
    BY <1>1, RobSizes, ROBParameters
  <2>3. n <= DP_NUM
    BY <2>1, <2>2, ROBParameters DEF DpAvail
  <2>4. k \in 0..(n - 1) /\ g[k] \in {"LOAD", "STORE"}
    BY <1>2, <2>1, LSQParameters DEF MemChannels
  <2> QED
    BY <2>1, <2>3, <2>4
<1>4. PICK e \in Entries : e = Advance(rob.tail, k) /\ DpChannel(rob, e) = k
  <2>1. rob.tail \in Entries
    BY <1>1, RobSizes DEF Pointers
  <2> QED
    BY <1>3, <2>1, ROBParameters DEF Advance, DpChannel, Entries
<1> HIDE DEF k
<1>5. /\ e \in Held' /\ ~rob'.array[e].complete /\ rob'.array[e].inst = g[k]
      /\ RobAge(e)' = (Occupied(rob) - RtNum(rob)) + k
  BY <1>1, <1>3, <1>4, RobMoves
<1>6. e \in RobOps'
  BY <1>3, <1>4, <1>5 DEF RobOps, Held
<1> QED
  <2>1. in.dp[x].rob_idx = e /\ in.dp[x].cmd = g[k]
    BY <1>2, <1>4
  <2>2. RobAge(in.dp[x].rob_idx)' = RobAge(e)'
    BY <2>1
  <2> QED
    BY <1>3, <1>5, <1>6, <2>1, <2>2 DEF k

\* An entry that has not retired, and does not, has not retired.
LEMMA StaysPending ==
  ASSUME Shaped, NEW in, Given(in), NEW i \in LEntries,
         lsq_array[i].state \notin {"IDLE", "WR_MEM", "RETIRE"}
  PROVE  NextLsqEntry(i, in).state \in {"WR_MEM", "RETIRE"} <=> RobRetire(i)
<1> DEFINE e == lsq_array[i]
<1>0. /\ Entry(e)
      /\ DOMAIN e = {"state", "cmd", "rob_idx", "acc", "addr_valid", "data", "retire", "mem_tag"}
  BY HasFields DEF Shaped, Entry
<1>1. CASE e.state = "ROB_RETIRE"
  BY <1>0, <1>1, NextByState DEF NextRobRetire
<1>2. CASE e.state # "ROB_RETIRE"
  <2>1. ~RobRetire(i)
    BY <1>2 DEF RobRetire
  <2>2. CASE e.state = "ADDR"
    <3>1. NextAddr(i, in).state \in {"ADDR", "RD_MEM", "DEPEND", "ROB_RETIRE"}
      BY <1>0, <2>2 DEF NextAddr
    <3> QED
      BY <2>1, <2>2, <3>1, NextByState
  <2>3. CASE e.state = "DEPEND"
    <3>1. NextDepend(i).state \in {"DEPEND", "RD_MEM", "LOAD_CP"}
      BY <1>0, <2>3 DEF NextDepend
    <3> QED
      BY <2>1, <2>3, <3>1, NextByState
  <2>4. CASE e.state = "RD_MEM"
    <3>1. NextRdMem(i, in).state \in {"RD_MEM", "WAIT_MEM", "LOAD_CP"}
      BY <1>0, <2>4 DEF NextRdMem
    <3> QED
      BY <2>1, <2>4, <3>1, NextByState
  <2>5. CASE e.state = "WAIT_MEM"
    <3>1. NextWaitMem(i, in).state \in {"WAIT_MEM", "LOAD_CP"}
      BY <1>0, <2>5 DEF NextWaitMem
    <3> QED
      BY <2>1, <2>5, <3>1, NextByState
  <2>6. CASE e.state = "LOAD_CP"
    <3>1. NextLoadCp(i, in).state \in {"LOAD_CP", "ROB_RETIRE"}
      BY <1>0, <2>6 DEF NextLoadCp
    <3> QED
      BY <2>1, <2>6, <3>1, NextByState
  <2> QED
    BY <1>0, <1>2, <2>2, <2>3, <2>4, <2>5, <2>6 DEF Entry, States
<1> QED
  BY <1>1, <1>2

\* An instruction that is still to retire after the edge was there and does not
\* retire now, or is one of the group; and all of these are.
LEMMA PendingMoves ==
  ASSUME NEW n, NEW g, NEW at, NEW in, NEW cdb, Edge(n, g, at, in, cdb),
         NEW i \in LEntries
  PROVE  /\ i \in Pending /\ lsq_array[i].rob_idx \notin RtSel(rob) =>
               /\ i \in Pending' /\ Age(i)' < LOccupied - LRtNum
               /\ lsq_array'[i] = NextLsqEntry(i, in)
         /\ i \in Pending' /\ Age(i)' < LOccupied - LRtNum =>
               /\ i \in Pending /\ lsq_array[i].rob_idx \notin RtSel(rob)
               /\ Age(i) = Age(i)' + LRtNum /\ Kept(lsq_array[i], lsq_array'[i])
               /\ lsq_array'[i] = NextLsqEntry(i, in)
         /\ i \in InQueue' /\ Age(i)' >= LOccupied - LRtNum =>
               /\ i \in Pending' /\ lsq_array'[i].state = "ADDR"
               /\ Age(i)' - (LOccupied - LRtNum) \in 0..(Size(g) - 1)
               /\ lsq_array'[i] = Fresh(in.dp[Age(i)' - (LOccupied - LRtNum)])
<1> DEFINE e == lsq_array[i]
           k == LRtNum
<1>1. /\ Ring /\ Shaped /\ Queued /\ QInv /\ RobWhole /\ ~Rollback /\ CompletedWait
      /\ Given(in) /\ NextLSQ(in) /\ in.n = Size(g)
      /\ {lsq_array[j].rob_idx : j \in Pending} = RobOps
  BY EdgeParts
<1>2. /\ k \in Nat /\ LOccupied \in Nat /\ k <= LOccupied /\ LOccupied <= LSQ_ENTRY_NUM
      /\ i \in LRtSel <=> Age(i) < k
      /\ Age(i) \in Nat /\ Age(i) < LSQ_ENTRY_NUM
  BY <1>1, Ages, LeavesOldest, Sizes
<1>3. /\ in.n \in Nat
      /\ LOccupied' = (LOccupied - k) + in.n
      /\ Age(i)' = IF Age(i) >= k THEN Age(i) - k ELSE (Age(i) + LSQ_ENTRY_NUM) - k
  BY <1>1, Fits, AgesMove
<1>4. Entry(e) /\ (e.state # "IDLE" <=> Age(i) < LOccupied)
  BY <1>1 DEF Shaped, Queued
<1>5. i \in Pending <=> e.state \notin {"IDLE", "WR_MEM", "RETIRE"}
  BY <1>4 DEF Pending, InQueue
<1>6. i \in Pending' <=> Age(i)' < LOccupied' /\ lsq_array'[i].state \notin {"WR_MEM", "RETIRE"}
  BY DEF Pending, InQueue
<1>7. lsq_array'[i] = NextLsqEntry(i, in)
  BY <1>1 DEF NextLSQ
<1> HIDE DEF k
<1>8. ASSUME i \in Pending, e.rob_idx \notin RtSel(rob)
      PROVE  i \in Pending' /\ Age(i)' < LOccupied - k
  <2>1. i \notin LRtSel
    BY <1>2, <1>4, <1>5, <1>8 DEF LRtSel, Entry
  <2>2. Age(i)' < LOccupied - k /\ Age(i)' < LOccupied'
    BY <1>2, <1>3, <1>4, <1>5, <1>8, <2>1
  <2>3. ~RobRetire(i)
    BY <1>8 DEF RobRetire
  <2>4. lsq_array'[i].state \notin {"WR_MEM", "RETIRE"}
    BY <1>1, <1>5, <1>7, <1>8, <2>3, StaysPending
  <2> QED
    BY <1>6, <2>2, <2>4
<1>9. ASSUME i \in Pending', Age(i)' < LOccupied - k
      PROVE  /\ i \in Pending /\ e.rob_idx \notin RtSel(rob)
             /\ Age(i) = Age(i)' + k /\ Kept(e, lsq_array'[i])
  <2>1. /\ Age(i) = Age(i)' + k /\ Age(i) < LOccupied /\ e.state # "IDLE"
        /\ i \notin LRtSel /\ Kept(e, lsq_array'[i])
    BY <1>1, <1>9, QueueMoves DEF k
  <2>2. e.state # "RETIRE"
    BY <1>6, <1>7, <1>9, <2>1, NextByState DEF NextRetire
  <2>3. e.state # "WR_MEM"
    BY <1>1, <1>6, <1>7, <1>9, RetiredIsWritten DEF Retired
  <2>4. i \in Pending
    BY <1>5, <2>1, <2>2, <2>3
  <2>5. ~RobRetire(i)
    BY <1>1, <1>6, <1>7, <1>9, <2>1, <2>2, <2>3, StaysPending
  <2>6. ASSUME e.rob_idx \in RtSel(rob) PROVE FALSE
    <3>1. rob.array[e.rob_idx].complete
      BY <1>1, <2>6, RobAges
    <3>2. e.state = "ROB_RETIRE"
      BY <1>1, <2>4, <3>1 DEF CompletedWait
    <3> QED
      BY <2>5, <2>6, <3>2 DEF RobRetire
  <2> QED
    BY <2>1, <2>4, <2>6
<1>10. ASSUME i \in InQueue', Age(i)' >= LOccupied - k
       PROVE  /\ i \in Pending' /\ lsq_array'[i].state = "ADDR"
              /\ Age(i)' - (LOccupied - k) \in 0..(Size(g) - 1)
              /\ lsq_array'[i] = Fresh(in.dp[Age(i)' - (LOccupied - k)])
  <2>1. Age(i)' < LOccupied'
    BY <1>10 DEF InQueue
  <2>2. /\ Age(i)' - (LOccupied - k) \in 0..(in.n - 1)
        /\ lsq_array'[i] = Fresh(in.dp[Age(i)' - (LOccupied - k)])
    BY <1>1, <1>10, <2>1, QueueMoves DEF k
  <2> DEFINE x == Age(i)' - (LOccupied - k)
  <2>3. in.dp[x].cmd \in {"LOAD", "STORE"} /\ x \in 0..(Size(g) - 1)
    BY <1>1, <2>2 DEF Given
  <2> HIDE DEF x
  <2>4. Fresh(in.dp[x]).state = "ADDR"
    BY <2>3, FreshIs
  <2>5. lsq_array'[i].state = "ADDR"
    BY <2>2, <2>4 DEF x
  <2> QED
    BY <1>6, <2>1, <2>2, <2>5, <2>3 DEF x
<1> QED
  BY <1>7, <1>8, <1>9, <1>10 DEF k

\* Every instruction of the group gets an entry.
LEMMA GroupGetsEntries ==
  ASSUME NEW n, NEW g, NEW at, NEW in, NEW cdb, Edge(n, g, at, in, cdb),
         NEW x \in 0..(Size(g) - 1)
  PROVE  \E i \in LEntries : i \in Pending' /\ lsq_array'[i] = Fresh(in.dp[x])
<1> DEFINE k == LRtNum
           N == LSQ_ENTRY_NUM
           y == (LOccupied - k) + x
           z == IF y + k < N THEN y + k ELSE (y + k) - N
<1>1. Ring /\ Given(in) /\ NextLSQ(in) /\ in.n = Size(g) /\ ~Rollback
  BY EdgeParts
<1>2. /\ k \in Nat /\ LOccupied \in Nat /\ k <= LOccupied /\ LOccupied <= N
      /\ N \in Nat
  BY <1>1, Ages, LeavesOldest, Sizes
<1>3. /\ in.n \in Nat /\ in.n <= (N - LOccupied) + k
      /\ LOccupied' = (LOccupied - k) + in.n
  BY <1>1, Fits, AgesMove
<1>4. x \in Nat /\ x < in.n
  BY <1>1, <1>3
<1> HIDE DEF k, N
<1>5. z \in 0..(N - 1) /\ y = IF z >= k THEN z - k ELSE (z + N) - k
  BY <1>2, <1>3, <1>4
<1>6. PICK i \in LEntries : Age(i) = z
  BY <1>1, <1>5, Ages DEF N
<1>7. Age(i)' = IF Age(i) >= k THEN Age(i) - k ELSE (Age(i) + N) - k
  BY <1>1, Fits, AgesMove DEF k, N
<1>8. Age(i)' = y
  BY <1>5, <1>6, <1>7
<1>9. i \in InQueue'
  BY <1>2, <1>3, <1>4, <1>8 DEF InQueue
<1>10. Age(i)' >= LOccupied - k /\ Age(i)' - (LOccupied - k) = x
  BY <1>2, <1>4, <1>8
<1>11. i \in Pending' /\ lsq_array'[i] = Fresh(in.dp[Age(i)' - (LOccupied - LRtNum)])
  BY <1>9, <1>10, PendingMoves DEF k
<1> QED
  BY <1>10, <1>11 DEF k

\* What the two say of each other, after an edge without a flush.
LEMMA EdgeKeepsOrder ==
  ASSUME NEW n, NEW g, NEW at, NEW in, NEW cdb, Edge(n, g, at, in, cdb),
         NEW i \in Pending', NEW j \in InQueue', (Age(i) < Age(j))'
  PROVE  /\ j \in Pending'
         /\ (RobAge(lsq_array[i].rob_idx) < RobAge(lsq_array[j].rob_idx))'
<1> DEFINE kept == LOccupied - LRtNum
           oc == Occupied(rob)
           k == RtNum(rob)
<1>1. /\ Ring /\ QInv /\ RobWhole /\ Given(in) /\ NextLSQ(in) /\ ~Rollback /\ ~BrMisValid(rob)
      /\ RobInput(n, g, cdb) /\ Lists(g, at)
      /\ \A a \in Pending, b \in InQueue : Age(a) < Age(b) => b \in Pending
      /\ {lsq_array[a].rob_idx : a \in Pending} = RobOps
      /\ \A a, b \in Pending :
            Age(a) < Age(b) => RobAge(lsq_array[a].rob_idx) < RobAge(lsq_array[b].rob_idx)
  BY EdgeParts
<1>2. i \in LEntries /\ j \in LEntries /\ i \in InQueue'
  BY DEF Pending, InQueue
<1>3. /\ LRtNum \in Nat /\ LOccupied \in Nat /\ LRtNum <= LOccupied
      /\ LOccupied <= LSQ_ENTRY_NUM
  BY <1>1, Ages, LeavesOldest, Sizes
<1>4. ASSUME NEW a \in LEntries PROVE Age(a)' \in Nat /\ Age(a) \in Nat
  <2>1. Age(a) \in Nat /\ Age(a) < LSQ_ENTRY_NUM
    BY <1>1, Ages, Sizes
  <2>2. Age(a)' = IF Age(a) >= LRtNum THEN Age(a) - LRtNum
                  ELSE (Age(a) + LSQ_ENTRY_NUM) - LRtNum
    BY <1>1, Fits, AgesMove
  <2> QED
    BY <1>3, <2>1, <2>2, Sizes
<1>5. oc \in Nat /\ k \in Nat /\ k <= oc
  BY <1>1, RobSizes, ROBParameters
\* An instruction that stays.
<1>6. ASSUME NEW a \in LEntries, a \in Pending', Age(a)' < kept
      PROVE  /\ a \in Pending /\ lsq_array'[a].rob_idx = lsq_array[a].rob_idx
             /\ Age(a) = Age(a)' + LRtNum
             /\ lsq_array[a].rob_idx \in Entries
             /\ RobAge(lsq_array[a].rob_idx) \in Nat
             /\ RobAge(lsq_array[a].rob_idx) >= k /\ RobAge(lsq_array[a].rob_idx) < oc
             /\ RobAge(lsq_array[a].rob_idx)' = RobAge(lsq_array[a].rob_idx) - k
  <2>1. /\ a \in Pending /\ lsq_array[a].rob_idx \notin RtSel(rob)
        /\ Age(a) = Age(a)' + LRtNum /\ Kept(lsq_array[a], lsq_array'[a])
    BY <1>6, PendingMoves
  <2>2. PICK r : r = lsq_array[a].rob_idx
    OBVIOUS
  <2>3. r \in RobOps /\ r \in Entries /\ r \in Held
    BY <1>1, <2>1, <2>2 DEF RobOps, Held
  <2>4. RobAge(r)' = RobAge(r) - k
    BY <1>1, <2>1, <2>2, <2>3, RobMoves
  <2>5. RobAge(r) \in Nat /\ RobAge(r) < oc /\ RobAge(r) >= k
    <3>1. RobAge(r) \in Nat /\ (r \in Held <=> RobAge(r) < oc) /\ (r \in RtSel(rob) <=> RobAge(r) < k)
      BY <1>1, <2>3, RobAges, ROBParameters DEF Entries
    <3> QED
      BY <1>5, <2>1, <2>2, <2>3, <3>1
  <2>6. lsq_array'[a].rob_idx = r
    BY <2>1, <2>2 DEF Kept
  <2>7. RobAge(lsq_array[a].rob_idx)' = RobAge(r)'
    BY <2>6
  <2> QED
    BY <2>1, <2>2, <2>3, <2>4, <2>5, <2>6, <2>7
\* One of the group.
<1>7. ASSUME NEW a \in LEntries, a \in InQueue', Age(a)' >= kept
      PROVE  /\ a \in Pending' /\ Age(a)' - kept \in 0..(Size(g) - 1)
             /\ at[Age(a)' - kept] \in Nat
             /\ RobAge(lsq_array[a].rob_idx)' = (oc - k) + at[Age(a)' - kept]
  <2>1. PICK x : x = Age(a)' - kept
    OBVIOUS
  <2>2. a \in Pending' /\ x \in 0..(Size(g) - 1) /\ lsq_array'[a] = Fresh(in.dp[x])
    BY <1>7, <2>1, PendingMoves
  <2>3. /\ in.dp[x].cmd \in {"LOAD", "STORE"} /\ at[x] \in Nat
        /\ RobAge(in.dp[x].rob_idx)' = (oc - k) + at[x]
    BY <2>2, NewOps
  <2>4. lsq_array'[a].rob_idx = in.dp[x].rob_idx
    BY <2>2, <2>3, FreshIs
  <2>5. RobAge(lsq_array[a].rob_idx)' = RobAge(in.dp[x].rob_idx)'
    BY <2>4
  <2> QED
    BY <2>1, <2>2, <2>3, <2>5
<1> HIDE DEF kept, oc, k
<1>8. Age(i)' < Age(j)'
  OBVIOUS
<1>9. kept \in Nat
  BY <1>3 DEF kept
<1>10. CASE Age(j)' < kept
  <2>1. Age(i)' < kept /\ i \in Pending /\ Age(i) = Age(i)' + LRtNum
    BY <1>2, <1>4, <1>6, <1>8, <1>9, <1>10
  <2>2. j \in InQueue /\ Age(j) = Age(j)' + LRtNum
    <3>1. Age(j) = Age(j)' + LRtNum /\ Age(j) < LOccupied
      BY <1>1, <1>2, <1>10, QueueMoves DEF QInv, kept
    <3> QED
      BY <1>2, <3>1 DEF InQueue
  <2>3. Age(i) < Age(j)
    BY <1>2, <1>3, <1>4, <1>8, <2>1, <2>2
  <2>4. j \in Pending
    BY <1>1, <2>1, <2>2, <2>3
  <2>5. RobAge(lsq_array[i].rob_idx) < RobAge(lsq_array[j].rob_idx)
    BY <1>1, <2>1, <2>3, <2>4
  <2>6. lsq_array[j].rob_idx \notin RtSel(rob)
    <3>1. lsq_array[j].rob_idx \in RobOps /\ lsq_array[j].rob_idx \in Entries
      BY <1>1, <2>4 DEF RobOps
    <3>2. RobAge(lsq_array[i].rob_idx) >= k /\ RobAge(lsq_array[i].rob_idx) \in Nat
      BY <1>2, <1>6, <2>1
    <3>3. RobAge(lsq_array[j].rob_idx) \in Nat
      BY <1>1, <3>1, RobAges, ROBParameters DEF Entries
    <3>4. ~(RobAge(lsq_array[j].rob_idx) < k)
      BY <1>5, <2>5, <3>2, <3>3
    <3> QED
      BY <1>1, <3>1, <3>4, RobAges DEF k
  <2>7. j \in Pending'
    BY <1>2, <2>4, <2>6, PendingMoves
  <2>8. /\ RobAge(lsq_array[i].rob_idx)' = RobAge(lsq_array[i].rob_idx) - k
        /\ RobAge(lsq_array[i].rob_idx) \in Nat
    BY <1>2, <1>6, <2>1
  <2>9. /\ RobAge(lsq_array[j].rob_idx)' = RobAge(lsq_array[j].rob_idx) - k
        /\ RobAge(lsq_array[j].rob_idx) \in Nat
    BY <1>2, <1>6, <1>10, <2>7
  <2>10. RobAge(lsq_array[i].rob_idx)' < RobAge(lsq_array[j].rob_idx)'
    BY <1>5, <2>5, <2>8, <2>9
  <2> QED
    BY <2>7, <2>10
<1>11. CASE Age(j)' >= kept
  <2>1. /\ j \in Pending' /\ Age(j)' - kept \in 0..(Size(g) - 1)
        /\ at[Age(j)' - kept] \in Nat
        /\ RobAge(lsq_array[j].rob_idx)' = (oc - k) + at[Age(j)' - kept]
    BY <1>2, <1>7, <1>11
  <2>2. CASE Age(i)' < kept
    <3>1. /\ RobAge(lsq_array[i].rob_idx)' = RobAge(lsq_array[i].rob_idx) - k
          /\ RobAge(lsq_array[i].rob_idx) \in Nat
          /\ RobAge(lsq_array[i].rob_idx) >= k /\ RobAge(lsq_array[i].rob_idx) < oc
      BY <1>2, <1>6, <2>2
    <3>2. RobAge(lsq_array[i].rob_idx)' < RobAge(lsq_array[j].rob_idx)'
      BY <1>5, <2>1, <3>1
    <3> QED
      BY <2>1, <3>2
  <2>3. CASE Age(i)' >= kept
    <3>1. /\ Age(i)' - kept \in 0..(Size(g) - 1) /\ at[Age(i)' - kept] \in Nat
          /\ RobAge(lsq_array[i].rob_idx)' = (oc - k) + at[Age(i)' - kept]
      BY <1>2, <1>7, <2>3
    <3>2. Age(i)' - kept < Age(j)' - kept
      BY <1>2, <1>4, <1>8, <1>9
    <3>3. at[Age(i)' - kept] < at[Age(j)' - kept]
      BY <1>1, <2>1, <3>1, <3>2 DEF Lists
    <3>4. RobAge(lsq_array[i].rob_idx)' < RobAge(lsq_array[j].rob_idx)'
      BY <1>5, <2>1, <3>1, <3>3
    <3> QED
      BY <2>1, <3>4
  <2> QED
    BY <1>2, <1>4, <1>9, <2>2, <2>3
<1> QED
  BY <1>2, <1>4, <1>9, <1>10, <1>11

\* The instructions of the queue that are to retire are the loads and stores of the
\* reorder buffer, after an edge without a flush.
LEMMA EdgeKeepsMatch ==
  ASSUME NEW n, NEW g, NEW at, NEW in, NEW cdb, Edge(n, g, at, in, cdb)
  PROVE  /\ {lsq_array[i].rob_idx : i \in Pending}' = RobOps'
         /\ \A i \in Pending' :
               /\ lsq_array'[i].state # "IDLE"
               /\ lsq_array'[i].cmd = rob'.array[lsq_array'[i].rob_idx].inst
<1>1. /\ Shaped /\ RobWhole /\ ~BrMisValid(rob) /\ RobInput(n, g, cdb) /\ Lists(g, at)
      /\ in.dp = MemOps(g) /\ QInv /\ Given(in) /\ in.n = Size(g)
      /\ {lsq_array[a].rob_idx : a \in Pending} = RobOps
      /\ \A a \in Pending : /\ lsq_array[a].state # "IDLE"
                            /\ lsq_array[a].cmd = rob.array[lsq_array[a].rob_idx].inst
  BY EdgeParts
<1>2. ASSUME NEW r \in RobOps, r \notin RtSel(rob)
      PROVE  r \in RobOps' /\ rob'.array[r].inst = rob.array[r].inst
  <2>1. r \in Entries /\ r \in Held /\ rob.array[r].inst # "OTHER"
    BY DEF RobOps, Held
  <2>2. r \in Held' /\ rob'.array[r].inst = rob.array[r].inst
    BY <1>1, <1>2, <2>1, RobMoves
  <2> QED
    BY <2>1, <2>2 DEF RobOps, Held
<1>3. ASSUME NEW i \in Pending'
      PROVE  /\ lsq_array'[i].rob_idx \in RobOps' /\ lsq_array'[i].state # "IDLE"
             /\ lsq_array'[i].cmd = rob'.array[lsq_array'[i].rob_idx].inst
  <2>1. i \in LEntries /\ i \in InQueue'
    BY DEF Pending, InQueue
  <2>2. CASE Age(i)' < LOccupied - LRtNum
    <3>1. /\ i \in Pending /\ lsq_array[i].rob_idx \notin RtSel(rob)
          /\ Kept(lsq_array[i], lsq_array'[i])
      BY <2>1, <2>2, PendingMoves
    <3>2. lsq_array[i].rob_idx \in RobOps
      BY <1>1, <3>1
    <3> QED
      BY <1>1, <1>2, <3>1, <3>2 DEF Kept
  <2>3. CASE Age(i)' >= LOccupied - LRtNum
    <3>1. PICK x \in 0..(Size(g) - 1) : lsq_array'[i] = Fresh(in.dp[x])
      BY <2>1, <2>3, PendingMoves
    <3>2. /\ in.dp[x].rob_idx \in RobOps' /\ in.dp[x].cmd = rob'.array[in.dp[x].rob_idx].inst
          /\ in.dp[x].cmd \in {"LOAD", "STORE"}
      BY NewOps
    <3>3. /\ lsq_array'[i].rob_idx = in.dp[x].rob_idx /\ lsq_array'[i].cmd = in.dp[x].cmd
          /\ lsq_array'[i].state = "ADDR"
      BY <3>1, <3>2, FreshIs
    <3> QED
      BY <3>2, <3>3
  <2>4. Age(i)' \in Int /\ LOccupied - LRtNum \in Int
    <3>1. /\ Ring /\ Given(in) /\ NextLSQ(in) /\ ~Rollback
      BY EdgeParts
    <3>2. /\ LRtNum \in Nat /\ LOccupied \in Nat /\ Age(i) \in Nat
      BY <2>1, <3>1, Ages, LeavesOldest, Sizes
    <3>3. Age(i)' = IF Age(i) >= LRtNum THEN Age(i) - LRtNum
                    ELSE (Age(i) + LSQ_ENTRY_NUM) - LRtNum
      BY <2>1, <3>1, Fits, AgesMove
    <3> QED
      BY <3>2, <3>3, Sizes
  <2> QED
    BY <2>2, <2>3, <2>4
<1>4. ASSUME NEW r \in RobOps' PROVE \E i \in Pending' : lsq_array'[i].rob_idx = r
  <2>1. r \in Entries /\ r \in Held' /\ rob'.array[r].inst # "OTHER"
    BY DEF RobOps, Held
  <2>2. CASE r \in Held /\ r \notin RtSel(rob)
    <3>1. rob'.array[r].inst = rob.array[r].inst
      BY <1>1, <2>1, <2>2, RobMoves
    <3>2. r \in RobOps
      BY <2>1, <2>2, <3>1 DEF RobOps, Held
    <3>3. PICK i \in Pending : lsq_array[i].rob_idx = r
      BY <1>1, <3>2
    <3>4. i \in LEntries
      BY DEF Pending, InQueue
    <3>5. i \in Pending' /\ lsq_array'[i] = NextLsqEntry(i, in)
      BY <2>2, <3>3, <3>4, PendingMoves
    <3>6. Kept(lsq_array[i], lsq_array'[i])
      <4>1. lsq_array[i].state \notin {"IDLE", "RETIRE"}
        BY <1>1, <3>3 DEF Pending
      <4> QED
        BY <1>1, <3>4, <3>5, <4>1, EntryMoves
    <3> QED
      BY <3>3, <3>5, <3>6 DEF Kept
  <2>3. CASE DpChannel(rob, r) \in 0..(n - 1)
    <3>2. rob'.array[r].inst = g[DpChannel(rob, r)] /\ DpChannel(rob, r) \in DOMAIN g
      BY <1>1, <2>1, <2>3, RobMoves DEF RobInput
    <3>3. DpChannel(rob, r) \in MemChannels(g)
      BY <2>1, <3>2 DEF MemChannels
    <3>4. PICK x \in 0..(Size(g) - 1) : at[x] = DpChannel(rob, r)
      BY <1>1, <3>3 DEF Lists
    <3>5. in.dp[x].rob_idx = Advance(rob.tail, at[x])
      BY <1>1 DEF Lists
    <3>6. r = Advance(rob.tail, DpChannel(rob, r))
      BY <1>1, <2>1, RobPlacesGiven, ROBParameters
    <3>7. PICK i \in LEntries : i \in Pending' /\ lsq_array'[i] = Fresh(in.dp[x])
      BY GroupGetsEntries
    <3>8. in.dp[x].cmd \in {"LOAD", "STORE"}
      BY NewOps
    <3>9. lsq_array'[i].rob_idx = in.dp[x].rob_idx
      BY <3>7, <3>8, FreshIs
    <3> QED
      BY <3>4, <3>5, <3>6, <3>7, <3>9
  <2> QED
    BY <1>1, <2>1, <2>2, <2>3, RobMoves
<1>5. {lsq_array[i].rob_idx : i \in Pending}' = {lsq_array'[i].rob_idx : i \in Pending'}
  OBVIOUS
<1> QED
  BY <1>3, <1>4, <1>5

\* An instruction completes when its entry is ready to retire.
LEMMA EdgeKeepsCompleted ==
  ASSUME NEW n, NEW g, NEW at, NEW in, NEW cdb, Edge(n, g, at, in, cdb)
  PROVE  CompletedWait'
<1>1. /\ Shaped /\ RobWhole /\ ~BrMisValid(rob) /\ RobInput(n, g, cdb)
      /\ QInv /\ Ring /\ Given(in) /\ NextLSQ(in) /\ ~Rollback /\ CompletedWait
      /\ {lsq_array[a].rob_idx : a \in Pending} = RobOps
  BY EdgeParts
<1>2. SUFFICES ASSUME NEW i \in Pending', rob'.array[lsq_array'[i].rob_idx].complete
               PROVE  lsq_array'[i].state = "ROB_RETIRE"
  BY DEF CompletedWait
<1>3. i \in LEntries /\ i \in InQueue'
  BY DEF Pending, InQueue
<1>4. Age(i)' \in Int /\ LOccupied - LRtNum \in Int
  <2>1. /\ LRtNum \in Nat /\ LOccupied \in Nat /\ Age(i) \in Nat
    BY <1>1, <1>3, Ages, LeavesOldest, Sizes
  <2>2. Age(i)' = IF Age(i) >= LRtNum THEN Age(i) - LRtNum
                  ELSE (Age(i) + LSQ_ENTRY_NUM) - LRtNum
    BY <1>1, <1>3, Fits, AgesMove
  <2> QED
    BY <2>1, <2>2, Sizes
<1>5. ASSUME Age(i)' >= LOccupied - LRtNum PROVE FALSE
  <2>1. PICK x \in 0..(Size(g) - 1) : lsq_array'[i] = Fresh(in.dp[x])
    BY <1>3, <1>5, PendingMoves
  <2>2. ~rob'.array[in.dp[x].rob_idx].complete /\ in.dp[x].cmd \in {"LOAD", "STORE"}
    BY NewOps
  <2>3. lsq_array'[i].rob_idx = in.dp[x].rob_idx
    BY <2>1, <2>2, FreshIs
  <2> QED
    BY <1>2, <2>2, <2>3
<1>6. /\ i \in Pending /\ lsq_array[i].rob_idx \notin RtSel(rob)
      /\ Kept(lsq_array[i], lsq_array'[i]) /\ lsq_array'[i] = NextLsqEntry(i, in)
  BY <1>3, <1>4, <1>5, PendingMoves
<1>7. PICK r : r = lsq_array[i].rob_idx
  OBVIOUS
<1>8. r \in RobOps /\ r \in Entries /\ r \in Held /\ lsq_array'[i].rob_idx = r
  BY <1>1, <1>6, <1>7 DEF RobOps, Held, Kept
<1>9. rob.array[r].complete \/ r \in DOMAIN cdb
  BY <1>1, <1>2, <1>6, <1>7, <1>8, RobMoves
<1>10. /\ Entry(lsq_array[i])
       /\ DOMAIN lsq_array[i] = {"state", "cmd", "rob_idx", "acc", "addr_valid", "data", "retire", "mem_tag"}
  BY <1>1, <1>3, HasFields DEF Shaped, Entry
<1>11. CASE lsq_array[i].state = "ROB_RETIRE"
  <2>1. ~RobRetire(i)
    BY <1>6 DEF RobRetire
  <2> QED
    BY <1>3, <1>6, <1>11, <2>1, NextByState DEF NextRobRetire
<1>12. CASE lsq_array[i].state = "LOAD_CP" /\ i \in in.cp
  BY <1>3, <1>6, <1>10, <1>12, NextByState DEF NextLoadCp
<1>13. CASE lsq_array[i].state = "ADDR" /\ lsq_array[i].cmd = "STORE" /\ i \in DOMAIN in.fu
  <2>1. NextAddr(i, in).state = "ROB_RETIRE"
    BY <1>10, <1>13 DEF NextAddr
  <2> QED
    BY <1>3, <1>6, <1>13, <2>1, NextByState
<1>14. \/ lsq_array[i].state = "LOAD_CP" /\ i \in in.cp
       \/ /\ lsq_array[i].state = "ADDR" /\ lsq_array[i].cmd = "STORE"
          /\ i \in DOMAIN in.fu
       \/ lsq_array[i].state = "ROB_RETIRE"
  <2>1. CASE rob.array[r].complete
    BY <1>1, <1>6, <1>7, <2>1 DEF CompletedWait
  <2>2. CASE r \in DOMAIN cdb
    BY <1>6, <1>7, <2>2 DEF Edge
  <2> QED
    BY <1>9, <2>1, <2>2
<1> QED
  BY <1>11, <1>12, <1>13, <1>14

\* A flush, put off or not, leaves no load or store in the reorder buffer, and no
\* more come while it is put off (LSQ_global_ctrl.sv l.104-120).
LEMMA FlushLeavesNoOps ==
  ASSUME RobWhole, NEW n, NEW g, NEW cdb, RobInput(n, g, cdb),
         NEW at, Lists(g, at), Size(g) \in Nat, Size(g) <= LAvail,
         \/ BrMisValid(rob)
         \/ rollback_flag /\ RobOps = {}
  PROVE  RobOps' = {}
<1>1. CASE BrMisValid(rob)
  <2>1. \A i \in Entries : rob'.array[i] = EmptyEntry
    BY <1>1 DEF RobInput, NextROB, NextEntry
  <2> QED
    BY <2>1 DEF RobOps, EmptyEntry
<1>2. CASE ~BrMisValid(rob)
  <2>1. LAvail = 0
    BY <1>2 DEF LAvail
  <2>2. MemChannels(g) = {}
    BY <2>1 DEF Lists
  <2>3. SUFFICES ASSUME NEW r \in RobOps' PROVE FALSE
    OBVIOUS
  <2>4. r \in Entries /\ r \in Held' /\ rob'.array[r].inst # "OTHER"
    BY DEF RobOps, Held
  <2>5. CASE r \in Held /\ r \notin RtSel(rob)
    <3>1. rob'.array[r].inst = rob.array[r].inst
      BY <1>2, <2>4, <2>5, RobMoves
    <3> QED
      BY <1>2, <2>4, <2>5, <3>1 DEF RobOps, Held
  <2>6. CASE DpChannel(rob, r) \in 0..(n - 1)
    <3>1. rob'.array[r].inst = g[DpChannel(rob, r)] /\ DpChannel(rob, r) \in DOMAIN g
      BY <1>2, <2>4, <2>6, RobMoves DEF RobInput
    <3> QED
      BY <2>2, <2>4, <3>1 DEF MemChannels
  <2> QED
    BY <1>2, <2>4, <2>5, <2>6, RobMoves
<1> QED
  BY <1>1, <1>2

\* A result that names an instruction of the queue is that instruction's.
LEMMA HeardIsOwn ==
  ASSUME FInv, ~rollback_flag, NEW cp \in {{}} \cup {{i} : i \in Requests("LOAD_CP")},
         NEW st \in StoreUnitSends,
         NEW stored \in {{}} \cup {{i} : i \in StoreUnit \cup DOMAIN st},
         NEW done \in SUBSET OthersInFlight, NEW taken,
         NEW i \in Pending, lsq_array[i].rob_idx \in DOMAIN Results(cp, stored, done, taken)
  PROVE  \/ lsq_array[i].state = "LOAD_CP" /\ i \in cp
         \/ lsq_array[i].state = "ADDR" /\ lsq_array[i].cmd = "STORE" /\ i \in DOMAIN st
         \/ lsq_array[i].state = "ROB_RETIRE"
<1>1. /\ Ring /\ Shaped /\ Queued /\ RobWhole
      /\ {lsq_array[a].rob_idx : a \in Pending} = RobOps
      /\ \A a, b \in Pending :
            Age(a) < Age(b) => RobAge(lsq_array[a].rob_idx) < RobAge(lsq_array[b].rob_idx)
  BY DEF FInv, QInv, QueueFollowsROB
<1>2. lsq_array[i].rob_idx \notin done
  <2>1. lsq_array[i].rob_idx \in RobOps
    BY <1>1
  <2> QED
    BY <2>1 DEF RobOps, OthersInFlight
<1>3. PICK j \in cp \cup stored : lsq_array[j].rob_idx = lsq_array[i].rob_idx
  BY <1>2 DEF Results
<1>4. /\ j \in LEntries
      /\ \/ lsq_array[j].state = "LOAD_CP" /\ j \in cp
         \/ lsq_array[j].state = "ADDR" /\ lsq_array[j].cmd = "STORE" /\ j \in DOMAIN st
         \/ lsq_array[j].state = "ROB_RETIRE"
  <2>1. CASE j \in cp
    BY <2>1 DEF Requests
  <2>2. CASE j \in StoreUnit
    BY <2>2 DEF StoreUnit
  <2>3. CASE j \in DOMAIN st
    <3>1. j \in Waiting("STORE")
      BY <2>3, StoresSent
    <3> QED
      BY <2>3, <3>1 DEF Waiting
  <2> QED
    BY <2>1, <2>2, <2>3
<1>5. j \in Pending
  BY <1>1, <1>4 DEF Queued, Pending, InQueue
<1>6. i \in LEntries /\ Age(i) \in Nat /\ Age(j) \in Nat
  <2>1. i \in LEntries
    BY DEF Pending, InQueue
  <2> QED
    BY <1>1, <1>4, <2>1, Ages, Sizes
<1>7. ~(Age(i) < Age(j)) /\ ~(Age(j) < Age(i))
  <2>1. lsq_array[i].rob_idx \in Entries
    BY <1>1 DEF RobOps
  <2>2. RobAge(lsq_array[i].rob_idx) \in Nat
    BY <1>1, <2>1, RobAges, ROBParameters DEF Entries
  <2>3. ~(RobAge(lsq_array[i].rob_idx) < RobAge(lsq_array[j].rob_idx))
        /\ ~(RobAge(lsq_array[j].rob_idx) < RobAge(lsq_array[i].rob_idx))
    BY <1>3, <2>2
  <2> QED
    BY <1>1, <1>5, <2>3
<1>8. i = j
  BY <1>1, <1>4, <1>6, <1>7, Ages
<1> QED
  BY <1>4, <1>8

-----------------------------------------------------------------------------
\* The invariant of the two.

LEMMA InitFInv == Init => FInv
<1> SUFFICES ASSUME Init PROVE FInv
  OBVIOUS
<1>1. QInv
  BY InitQInv
<1>2. rob = EmptyROB /\ rollback_flag = FALSE /\ lsq_array = [i \in LEntries |-> IdleEntry]
  BY DEF Init
<1>3. RobWhole
  <2>1. rob \in ROBOf({"LOAD", "STORE", "OTHER"}, {NoTarget})
    BY <1>2, ROBParameters DEF EmptyROB, EmptyEntry, ROBOf, EntryOf, Entries
  <2>2. rob.head = 0 /\ rob.tail = 0 /\ rob.head_rollover = rob.tail_rollover
    BY <1>2 DEF EmptyROB
  <2>3. \A i \in Entries : rob.array[i] = EmptyEntry
    BY <1>2 DEF EmptyROB
  <2>4. Ordered(rob)
    BY <2>2 DEF Ordered
  <2>5. FillsWindow(rob)
    BY <2>2, <2>3, ROBParameters DEF FillsWindow, Window, EmptyEntry, Entries
  <2> QED
    BY <2>1, <2>4, <2>5 DEF RobWhole, Whole
<1>4. Pending = {}
  BY <1>1, <1>2, HasFields DEF QInv, Queued, Pending, InQueue
<1>5. RobOps = {}
  BY <1>2 DEF RobOps, EmptyROB, EmptyEntry
<1>6. QueueFollowsROB /\ CompletedWait
  BY <1>4, <1>5 DEF QueueFollowsROB, CompletedWait
<1> QED
  BY <1>1, <1>2, <1>3, <1>5, <1>6 DEF FInv

LEMMA ListsExist ==
  ASSUME NEW m \in Nat, NEW g \in [0..(m - 1) -> Kinds]
  PROVE  \E at : Lists(g, at)
<1>1. PICK at \in [0..(Size(g) - 1) -> MemChannels(g)] :
        /\ \A x, y \in 0..(Size(g) - 1) : x < y => at[x] < at[y]
        /\ \A k \in MemChannels(g) : \E x \in 0..(Size(g) - 1) : at[x] = k
        /\ MemOps(g) = [x \in 0..(Size(g) - 1) |->
              [cmd |-> g[at[x]], rob_idx |-> Advance(rob.tail, at[x])]]
  BY OpsAre
<1>2. Lists(g, at)
  BY <1>1 DEF Lists
<1> QED
  BY <1>2

LEMMA ResultsAre ==
  ASSUME NEW cp, NEW stored, NEW done, NEW taken,
         NEW i \in DOMAIN Results(cp, stored, done, taken)
  PROVE  /\ Results(cp, stored, done, taken)[i].br_result \in BOOLEAN
         /\ Results(cp, stored, done, taken)[i].br_target = NoTarget
<1>1. PICK b : b = (i \in taken)
  OBVIOUS
<1>2. Results(cp, stored, done, taken)[i] = [br_result |-> b, br_target |-> NoTarget]
  BY <1>1 DEF Results
<1>3. b \in BOOLEAN
  <2>1. b = TRUE \/ b = FALSE
    BY <1>1
  <2> QED
    BY <2>1
<1> QED
  BY <1>2, <1>3

LEMMA NextFInv == FInv /\ [Next]_vars => FInv'
<1> SUFFICES ASSUME FInv, [Next]_vars PROVE FInv'
  OBVIOUS
<1>0. QInv'
  BY NextQInv DEF FInv
<1>1. CASE Next
  <2>1. PICK g \in Groups, c \in CacheMoves, ld \in LoadUnitSends, st \in StoreUnitSends,
             cp \in {{}} \cup {{i} : i \in Requests("LOAD_CP")} :
             \E stored \in {{}} \cup {{i} : i \in StoreUnit \cup DOMAIN st} :
             \E done \in SUBSET OthersInFlight : \E taken \in SUBSET done :
                /\ rob' = NextROB(rob, Cardinality(DOMAIN g), Group(g),
                                  Results(cp, stored, done, taken))
                /\ NextLSQ(Input(g, c, ld, st, cp))
                /\ NextCache(Input(g, c, ld, st, cp))
    BY <1>1, StepIsEdge
  <2>2. PICK stored \in {{}} \cup {{i} : i \in StoreUnit \cup DOMAIN st} :
             \E done \in SUBSET OthersInFlight : \E taken \in SUBSET done :
                /\ rob' = NextROB(rob, Cardinality(DOMAIN g), Group(g),
                                  Results(cp, stored, done, taken))
                /\ NextLSQ(Input(g, c, ld, st, cp))
    BY <2>1
  <2>3. PICK done \in SUBSET OthersInFlight : \E taken \in SUBSET done :
                /\ rob' = NextROB(rob, Cardinality(DOMAIN g), Group(g),
                                  Results(cp, stored, done, taken))
                /\ NextLSQ(Input(g, c, ld, st, cp))
    BY <2>2
  <2>30. PICK taken \in SUBSET done :
                /\ rob' = NextROB(rob, Cardinality(DOMAIN g), Group(g),
                                  Results(cp, stored, done, taken))
                /\ NextLSQ(Input(g, c, ld, st, cp))
    BY <2>3
  <2> DEFINE n == Cardinality(DOMAIN g)
             in == Input(g, c, ld, st, cp)
             cdb == Results(cp, stored, done, taken)
  <2>4. /\ Given(in) /\ in.n = Size(g) /\ in.dp = MemOps(g) /\ in.cp = cp
        /\ DOMAIN in.fu = DOMAIN ld \cup DOMAIN st
    BY InputIs
  <2>5. /\ n \in Nat /\ g \in [0..(n - 1) -> Kinds] /\ Size(g) <= LAvail
        /\ BrMisValid(rob) => n = 0
        /\ ~BrMisValid(rob) => n <= DpAvail(rob)
    BY GroupIs
  <2>6. \E at : Lists(g, at)
    <3> HIDE DEF n
    <3> QED
      BY <2>5, ListsExist
  <2>7. PICK at : Lists(g, at)
    BY <2>6
  <2>8. RobInput(n, g, cdb)
    <3>1. n <= DpAvail(rob)
      <4>1. DpAvail(rob) \in Nat
        <5>1. AvailNum(rob) \in Nat
          BY RobSizes, ROBParameters DEF FInv
        <5> QED
          BY <5>1, ROBParameters DEF DpAvail
      <4> HIDE DEF n
      <4> QED
        BY <2>5, <4>1
    <3>2. \A i \in DOMAIN cdb : cdb[i].br_result \in BOOLEAN /\ cdb[i].br_target = NoTarget
      BY ResultsAre
    <3> QED
      BY <2>30, <2>5, <3>1, <3>2 DEF RobInput
  <2>9. Size(g) \in Nat
    <3> HIDE DEF n
    <3> QED
      BY <2>5, OpsAre
  <2>10. NextLSQ(in)
    BY <2>30
  <2>11. ASSUME NEW i \in Pending, ~rollback_flag, lsq_array[i].rob_idx \in DOMAIN cdb
         PROVE  \/ lsq_array[i].state = "LOAD_CP" /\ i \in in.cp
                \/ /\ lsq_array[i].state = "ADDR" /\ lsq_array[i].cmd = "STORE"
                   /\ i \in DOMAIN in.fu
                \/ lsq_array[i].state = "ROB_RETIRE"
    <3>1. \/ lsq_array[i].state = "LOAD_CP" /\ i \in cp
          \/ lsq_array[i].state = "ADDR" /\ lsq_array[i].cmd = "STORE" /\ i \in DOMAIN st
          \/ lsq_array[i].state = "ROB_RETIRE"
      BY <2>11, HeardIsOwn
    <3> QED
      BY <2>4, <3>1
  <2> HIDE DEF n, in, cdb
  <2>12. RobWhole'
    BY <2>8, RobStaysWhole DEF FInv
  <2>13. rollback_flag' = ((BrMisValid(rob) \/ rollback_flag) /\ StoreRetiring)
    BY <2>10 DEF NextLSQ
  <2>16. rollback_flag' \in BOOLEAN
    BY <2>13
  <2>14. CASE BrMisValid(rob) \/ rollback_flag
    <3>1. RobOps' = {}
      BY <2>5, <2>7, <2>8, <2>9, <2>14, FlushLeavesNoOps DEF FInv
    <3>2. ASSUME ~rollback_flag' PROVE QueueFollowsROB' /\ CompletedWait'
      <4>1. Rollback
        BY <2>13, <2>14, <3>2 DEF Rollback
      <4>2. \A i \in LEntries : lsq_array'[i] = IdleEntry
        BY <2>10, <4>1 DEF NextLSQ
      <4>3. Pending' = {}
        BY <1>0, <4>2, HasFields DEF QInv, Queued, Pending, InQueue
      <4> QED
        BY <3>1, <4>3 DEF QueueFollowsROB, CompletedWait
    <3>3. QueueFollowsROB'
      BY <3>2 DEF QueueFollowsROB
    <3> QED
      BY <1>0, <2>12, <2>13, <2>16, <3>1, <3>2, <3>3 DEF FInv
  <2>15. CASE ~BrMisValid(rob) /\ ~rollback_flag
    <3>1. Edge(n, g, at, in, cdb)
      BY <2>4, <2>7, <2>8, <2>10, <2>11, <2>15 DEF Edge, in, n
    <3>2. ~rollback_flag'
      BY <2>13, <2>15
    <3>3. \A i \in Pending', j \in InQueue' : (Age(i) < Age(j))' => j \in Pending'
      BY <3>1, EdgeKeepsOrder
    <3>4. \A i, j \in Pending' : (Age(i) < Age(j))' =>
             (RobAge(lsq_array[i].rob_idx) < RobAge(lsq_array[j].rob_idx))'
      <4>1. \A j \in Pending' : j \in InQueue'
        BY DEF Pending
      <4> QED
        BY <3>1, <4>1, EdgeKeepsOrder
    <3>5. /\ {lsq_array[i].rob_idx : i \in Pending}' = RobOps'
          /\ \A i \in Pending' :
               /\ lsq_array'[i].state # "IDLE"
               /\ lsq_array'[i].cmd = rob'.array[lsq_array'[i].rob_idx].inst
      BY <3>1, EdgeKeepsMatch
    <3>6. QueueFollowsROB'
      BY <3>3, <3>4, <3>5 DEF QueueFollowsROB
    <3>7. CompletedWait'
      BY <3>1, EdgeKeepsCompleted
    <3> QED
      BY <1>0, <2>12, <2>16, <3>2, <3>6, <3>7 DEF FInv
  <2> QED
    BY <2>14, <2>15
<1>2. CASE UNCHANGED vars
  <2>1. UNCHANGED <<rob, head, tail, head_rollover, tail_rollover, lsq_array, rollback_flag>>
    BY <1>2 DEF vars, lsqVars
  <2>2. RobOps' = RobOps /\ (RobWhole <=> RobWhole')
    BY <2>1 DEF RobOps, RobWhole
  <2>3. InQueue' = InQueue /\ Pending' = Pending
    BY <2>1 DEF InQueue, Pending, Age, LOccupied
  <2>4. QueueFollowsROB'
    BY <2>1, <2>2, <2>3 DEF FInv, QueueFollowsROB, Age, RobAge
  <2>5. ~rollback_flag' => CompletedWait'
    BY <2>1, <2>3 DEF FInv, CompletedWait
  <2> QED
    BY <1>0, <2>1, <2>2, <2>4, <2>5 DEF FInv
<1> QED
  BY <1>1, <1>2

LEMMA AlwaysFInv == Spec => []FInv
  BY InitFInv, NextFInv, PTL DEF Spec

\* What the queue holds that has not retired is, in program order, the loads and
\* stores that the reorder buffer holds, whatever retires, completes, is dispatched
\* or is flushed in one cycle (LSQ_global_ctrl.sv l.69-245).
THEOREM QueueHoldsTheROBsOps == Spec => []QueueFollowsROB
<1>1. FInv => QueueFollowsROB
  BY DEF FInv
<1> QED
  BY <1>1, AlwaysFInv, PTL

-----------------------------------------------------------------------------
\* What a load reads.

\* The cache takes the request of an entry that asks (LSQ_rr_arbiter.sv l.21-61).
LEMMA GrantAsks ==
  ASSUME top_idx \in LEntries, ArbiterReq # {}
  PROVE  Grant \in ArbiterReq /\ Grant \in LEntries
<1> DEFINE ranks == {Rank(i) : i \in ArbiterReq}
<1>1. ArbiterReq \subseteq LEntries
  BY DEF ArbiterReq, Requests
<1>2. \A i \in LEntries : Rank(i) \in Nat
  BY Sizes DEF Rank
<1>3. ranks \in SUBSET Nat /\ \E r : r \in ranks
  BY <1>1, <1>2
<1>4. PICK r \in ranks : \A s \in ranks : r <= s
  <2> HIDE DEF ranks
  <2> QED
    BY <1>3, LeastExists
<1>5. PICK i \in ArbiterReq : \A j \in ArbiterReq : Rank(i) <= Rank(j)
  BY <1>4
<1> QED
  BY <1>1, <1>5 DEF Grant

\* What a load waits for is what memory holds.
WaitsForMemory ==
    \A i \in LEntries :
        lsq_array[i].state = "WAIT_MEM" =>
            /\ lsq_array[i].mem_tag \in DOMAIN misses
            /\ misses[lsq_array[i].mem_tag] = ReadMem(lsq_array[i].acc)

MemInv == DOMAIN mem = Words /\ top_idx \in LEntries

\* A store that is being written comes before every load that waits, and writes
\* another word: the load looked at it (LSQ_entry_ctrl.sv l.135-199).
LEMMA WaitingIsNotWritten ==
  ASSUME FInv, ~rollback_flag, MemInv, NEW in, NextCache(in),
         NEW i \in LEntries, lsq_array[i].state \in {"RD_MEM", "WAIT_MEM"}
  PROVE  mem'[lsq_array[i].acc.word] = mem[lsq_array[i].acc.word]
<1> DEFINE e == lsq_array[Grant]
           w == lsq_array[i].acc.word
<1>1. QInv /\ Ring /\ Queued /\ Shaped /\ LoadsWaitForStores
  BY DEF FInv, QInv
<1>2. Entry(lsq_array[i]) /\ w \in Words
  BY <1>1, LSQParameters DEF Shaped, Entry
<1>3. ASSUME ArbiterReq # {}, e.cmd = "STORE" PROVE e.acc.word # w
  <2>1. Grant \in ArbiterReq /\ Grant \in LEntries
    BY <1>3, GrantAsks DEF MemInv
  <2>2. e.state = "WR_MEM"
    BY <1>1, <1>3, <2>1 DEF ArbiterReq, Requests, Shaped, Entry
  <2>3. i \in Pending /\ Grant \in InQueue /\ Grant \notin Pending
    BY <1>1, <2>1, <2>2 DEF Queued, Pending, InQueue
  <2>4. ~(Age(i) < Age(Grant))
    BY <2>3 DEF FInv, QueueFollowsROB
  <2>5. Age(i) # Age(Grant) /\ Age(i) \in Nat /\ Age(Grant) \in Nat
    <3>1. i # Grant
      BY <2>2
    <3> QED
      BY <1>1, <2>1, <3>1, Ages, Sizes
  <2>6. Grant \in Older(i)
    BY <2>1, <2>4, <2>5 DEF Older
  <2>7. e.addr_valid
    BY <1>1, <2>1, <2>2 DEF Shaped, Entry
  <2>8. Dependences(i) = {}
    BY <1>1 DEF LoadsWaitForStores
  <2> QED
    BY <1>3, <2>6, <2>7, <2>8 DEF Dependences
<1>4. mem' = mem \/ (ArbiterReq # {} /\ e.cmd = "STORE" /\ mem' = WrittenMem(e))
  BY DEF NextCache
<1>5. CASE ArbiterReq # {} /\ e.cmd = "STORE" /\ mem' = WrittenMem(e)
  BY <1>2, <1>3, <1>5 DEF WrittenMem, MemInv
<1> QED
  BY <1>4, <1>5

LEMMA OnlyReadersWait ==
  ASSUME Shaped, NEW in, Given(in), NEW i \in LEntries,
         NextLsqEntry(i, in).state = "WAIT_MEM"
  PROVE  lsq_array[i].state \in {"RD_MEM", "WAIT_MEM"}
<1> DEFINE e == lsq_array[i]
<1>0. /\ Entry(e)
      /\ DOMAIN e = {"state", "cmd", "rob_idx", "acc", "addr_valid", "data", "retire", "mem_tag"}
  BY HasFields DEF Shaped, Entry
<1>1. Allocated(i, in).state = "ADDR" /\ IdleEntry.state = "IDLE"
  BY DEF Allocated, IdleEntry
<1>2. e.state = "IDLE" => NextIdle(i, in).state # "WAIT_MEM"
  BY <1>1 DEF NextIdle
<1>3. e.state = "ADDR" => NextAddr(i, in).state # "WAIT_MEM"
  BY <1>0 DEF NextAddr
<1>4. e.state = "DEPEND" => NextDepend(i).state # "WAIT_MEM"
  BY <1>0 DEF NextDepend
<1>5. e.state = "LOAD_CP" => NextLoadCp(i, in).state # "WAIT_MEM"
  BY <1>0 DEF NextLoadCp
<1>6. e.state = "ROB_RETIRE" => NextRobRetire(i).state # "WAIT_MEM"
  BY <1>0 DEF NextRobRetire
<1>7. e.state = "WR_MEM" => NextWrMem(i, in).state # "WAIT_MEM"
  BY <1>0 DEF NextWrMem
<1>8. e.state = "RETIRE" => NextRetire(i, in).state # "WAIT_MEM"
  BY <1>1 DEF NextRetire
<1> QED
  BY <1>0, <1>2, <1>3, <1>4, <1>5, <1>6, <1>7, <1>8, NextByState DEF Entry, States

\* An edge without a flush, with what the cache does.
MemEdge(in) ==
    /\ FInv /\ ~rollback_flag /\ ~Rollback /\ MemInv /\ WaitsForMemory
    /\ Given(in) /\ Cached(in) /\ NextLSQ(in) /\ NextCache(in)

\* What memory holds for a load is answered, now or later (LSQ_entry_ctrl.sv
\* l.205-261).
LEMMA EdgeKeepsMemory ==
  ASSUME NEW in, MemEdge(in)
  PROVE  WaitsForMemory'
<1>1. /\ FInv /\ ~rollback_flag /\ ~Rollback /\ MemInv /\ WaitsForMemory
      /\ Given(in) /\ Cached(in) /\ NextLSQ(in) /\ NextCache(in)
  BY DEF MemEdge
<1>2. QInv /\ Ring /\ Queued /\ Shaped /\ LoadsWaitForStores
  BY <1>1 DEF FInv, QInv
<1>3. SUFFICES ASSUME NEW i \in LEntries, lsq_array'[i].state = "WAIT_MEM"
               PROVE  /\ lsq_array'[i].mem_tag \in DOMAIN misses'
                      /\ misses'[lsq_array'[i].mem_tag] = ReadMem(lsq_array[i].acc)'
  BY DEF WaitsForMemory
<1> DEFINE e == lsq_array[i]
           m == lsq_array[Grant]
           missed == /\ ArbiterReq # {} /\ in.confirm \in {"hit", "miss"}
                     /\ m.cmd = "LOAD" /\ in.confirm = "miss"
<1>4. misses' = [t \in (DOMAIN misses \ {in.tag})
                         \cup (IF missed THEN {in.response} ELSE {}) |->
                   IF t \in DOMAIN misses THEN misses[t] ELSE ReadMem(m.acc)]
  BY <1>1 DEF NextCache
<1>5. /\ e.state \in {"RD_MEM", "WAIT_MEM"} /\ lsq_array'[i] = NextLsqEntry(i, in)
      /\ DOMAIN e = {"state", "cmd", "rob_idx", "acc", "addr_valid", "data", "retire", "mem_tag"}
      /\ Entry(e)
  <2>1. lsq_array'[i] = NextLsqEntry(i, in)
    BY <1>1 DEF NextLSQ
  <2>2. /\ Entry(e)
        /\ DOMAIN e = {"state", "cmd", "rob_idx", "acc", "addr_valid", "data", "retire", "mem_tag"}
    BY <1>2, HasFields DEF Shaped, Entry
  <2>3. e.state \in {"RD_MEM", "WAIT_MEM"}
    BY <1>1, <1>2, <1>3, <2>1, <2>2, OnlyReadersWait
  <2> QED
    BY <2>1, <2>2, <2>3
<1>6. mem'[e.acc.word] = mem[e.acc.word]
  BY <1>1, <1>5, WaitingIsNotWritten
<1>7. CASE e.state = "WAIT_MEM"
  <2>1. in.tag # e.mem_tag /\ lsq_array'[i] = e
    BY <1>3, <1>5, <1>7, NextByState DEF NextWaitMem
  <2>2. e.mem_tag \in DOMAIN misses /\ misses[e.mem_tag] = ReadMem(e.acc)
    BY <1>1, <1>7 DEF WaitsForMemory
  <2>3. ReadMem(lsq_array[i].acc)' = ReadMem(e.acc)
    BY <1>6, <2>1 DEF ReadMem
  <2> QED
    BY <1>4, <2>1, <2>2, <2>3
<1>8. CASE e.state = "RD_MEM"
  <2>1. /\ Granted(i, in) /\ in.confirm # "hit"
        /\ lsq_array'[i] = [e EXCEPT !.state = "WAIT_MEM", !.mem_tag = in.response]
    <3>1. lsq_array'[i] = NextRdMem(i, in)
      BY <1>5, <1>8, NextByState
    <3>2. Granted(i, in)
      BY <1>3, <1>5, <1>8, <3>1 DEF NextRdMem
    <3>3. in.confirm # "hit"
      <4>1. [e EXCEPT !.state = "LOAD_CP", !.data = ReadMem(e.acc)].state = "LOAD_CP"
        BY <1>5
      <4> QED
        BY <1>3, <3>1, <3>2, <4>1 DEF NextRdMem
    <3> QED
      BY <3>1, <3>2, <3>3 DEF NextRdMem
  <2>2. lsq_array'[i].mem_tag = in.response /\ lsq_array'[i].acc = e.acc
    BY <1>5, <2>1
  <2>3. missed /\ i = Grant /\ m = e
    BY <1>5, <1>8, <2>1 DEF Granted, Entry
  <2>4. in.response \notin DOMAIN misses
    BY <1>1, <2>3 DEF Cached
  <2>5. ReadMem(lsq_array[i].acc)' = ReadMem(e.acc)
    BY <1>6, <2>2 DEF ReadMem
  <2> QED
    BY <1>4, <2>2, <2>3, <2>4, <2>5
<1> QED
  BY <1>5, <1>7, <1>8

\* j is the nearest of the stores before load i that write byte k of access a.
Nearest(i, a, k, j) ==
    j \in Writers(i, a, k) /\ \A m \in Writers(i, a, k) : Age(m) <= Age(j)

ReadsNearest ==
    \A i \in LEntries :
        lsq_array[i].cmd = "LOAD" /\ lsq_array[i].state \in {"LOAD_CP", "ROB_RETIRE"} =>
            \A k \in DOMAIN lsq_array[i].data, j \in LEntries :
                Nearest(i, lsq_array[i].acc, k, j) =>
                    lsq_array[i].data[k] =
                        lsq_array[j].data[lsq_array[i].acc.off + k - lsq_array[j].acc.off]

\* Where a store writes the byte one is the nearest.
LEMMA NearestExists ==
  ASSUME Ring, NEW i \in LEntries, NEW a, NEW k, Writers(i, a, k) # {}
  PROVE  \E j \in LEntries : Nearest(i, a, k, j)
<1> DEFINE W == Writers(i, a, k)
           gaps == {LSQ_ENTRY_NUM - Age(j) : j \in W}
<1>1. W \subseteq LEntries
  BY DEF Writers, Older
<1>2. \A j \in LEntries : Age(j) \in Nat /\ LSQ_ENTRY_NUM - Age(j) \in Nat
  BY Ages, Sizes
<1>3. gaps \in SUBSET Nat /\ \E d : d \in gaps
  <2>1. PICK j \in LEntries : j \in W
    BY <1>1
  <2> HIDE DEF W
  <2>2. LSQ_ENTRY_NUM - Age(j) \in gaps
    BY <2>1
  <2>3. gaps \in SUBSET Nat
    BY <1>1, <1>2
  <2> QED
    BY <2>2, <2>3
<1>4. PICK d \in gaps : \A e \in gaps : d <= e
  <2> HIDE DEF gaps
  <2> QED
    BY <1>3, LeastExists
<1>5. PICK j \in W : d = LSQ_ENTRY_NUM - Age(j)
  BY <1>4
<1>6. \A m \in W : Age(m) <= Age(j)
  <2> HIDE DEF W
  <2> SUFFICES ASSUME NEW m \in W PROVE Age(m) <= Age(j)
    OBVIOUS
  <2>1. LSQ_ENTRY_NUM - Age(m) \in gaps
    OBVIOUS
  <2>2. LSQ_ENTRY_NUM - Age(j) <= LSQ_ENTRY_NUM - Age(m)
    BY <1>4, <1>5, <2>1
  <2>3. Age(j) \in Nat /\ Age(m) \in Nat
    BY <1>1, <1>2
  <2> QED
    BY <2>2, <2>3, Sizes
<1> QED
  BY <1>1, <1>5, <1>6 DEF Nearest

\* The nearest store after an edge was the nearest before it: stores leave oldest
\* first, and those that stay keep their address and data.
LEMMA NearestWasNearest ==
  ASSUME Ring, Shaped, Queued, NEW in, Given(in), NextLSQ(in), ~Rollback,
         NEW i \in LEntries, Age(i)' < LOccupied - LRtNum, OlderStoreKnown(i),
         NEW a, NEW k, NEW j \in LEntries, Nearest(i, a, k, j)'
  PROVE  /\ Nearest(i, a, k, j)
         /\ lsq_array'[j].data = lsq_array[j].data /\ lsq_array'[j].acc = lsq_array[j].acc
<1>1. j \in Writers(i, a, k)' /\ \A m \in Writers(i, a, k)' : Age(m)' <= Age(j)'
  BY DEF Nearest
<1>2. /\ j \in Older(i)' /\ lsq_array'[j].cmd = "STORE" /\ lsq_array'[j].addr_valid
      /\ lsq_array'[j].acc.word = a.word
      /\ a.off + k \in
            lsq_array'[j].acc.off..(lsq_array'[j].acc.off + lsq_array'[j].acc.size - 1)
  BY <1>1 DEF Writers
<1>3. /\ j \in Older(i) /\ lsq_array[j].cmd = "STORE" /\ lsq_array[j].addr_valid
      /\ lsq_array'[j].acc = lsq_array[j].acc
      /\ lsq_array'[j].data = lsq_array[j].data
  BY <1>2, StaysKnown
<1>4. j \in Writers(i, a, k)
  BY <1>2, <1>3 DEF Writers
<1>5. /\ LRtNum \in Nat /\ LOccupied \in Nat /\ LRtNum <= LOccupied
      /\ LOccupied <= LSQ_ENTRY_NUM
      /\ \A m \in LEntries : Age(m) \in Nat /\ Age(m) < LSQ_ENTRY_NUM
  BY Ages, LeavesOldest, Sizes
<1>6. Age(i) = Age(i)' + LRtNum /\ Age(i) < LOccupied
  BY QueueMoves
<1>7. ASSUME NEW m \in LEntries
      PROVE  /\ Age(m)' = IF Age(m) >= LRtNum THEN Age(m) - LRtNum
                          ELSE (Age(m) + LSQ_ENTRY_NUM) - LRtNum
             /\ Age(m)' \in Nat
  <2>1. Age(m)' = IF Age(m) >= LRtNum THEN Age(m) - LRtNum
                  ELSE (Age(m) + LSQ_ENTRY_NUM) - LRtNum
    BY Fits, AgesMove
  <2>2. Age(m) \in Nat /\ Age(m) < LSQ_ENTRY_NUM
    BY <1>5
  <2> QED
    BY <1>5, <2>1, <2>2, Sizes
<1>8. Age(j) = Age(j)' + LRtNum /\ Age(j)' \in Nat
  <2>1. Age(j)' < Age(i)'
    BY <1>2 DEF Older
  <2>2. Age(j)' < LOccupied - LRtNum
    BY <2>1, OlderWasOlder
  <2>3. Age(j) = Age(j)' + LRtNum
    BY <2>2, QueueMoves
  <2> QED
    BY <1>7, <2>3
<1>9. ASSUME NEW m \in Writers(i, a, k) PROVE Age(m) <= Age(j)
  <2>1. /\ m \in LEntries /\ Age(m) < Age(i) /\ lsq_array[m].cmd = "STORE"
        /\ lsq_array[m].addr_valid /\ lsq_array[m].acc.word = a.word
        /\ a.off + k \in
              lsq_array[m].acc.off..(lsq_array[m].acc.off + lsq_array[m].acc.size - 1)
    BY DEF Writers, Older
  <2>2. CASE Age(m) < LRtNum
    BY <1>5, <1>8, <2>1, <2>2
  <2>3. CASE Age(m) >= LRtNum
    <3>1. Age(m)' = Age(m) - LRtNum
      BY <1>7, <2>1, <2>3
    <3>2. Age(m)' < Age(i)' /\ Age(m)' < LOccupied - LRtNum
      <4>1. Age(i)' \in Nat /\ Age(m) \in Nat
        BY <1>5, <1>7, <2>1
      <4> QED
        BY <1>5, <1>6, <2>1, <2>3, <3>1, <4>1
    <3>3. Kept(lsq_array[m], lsq_array'[m])
      BY <2>1, <3>2, QueueMoves
    <3>4. m \in Writers(i, a, k)'
      <4>1. m \in Older(i)'
        BY <2>1, <3>2 DEF Older
      <4>2. /\ lsq_array'[m].cmd = "STORE" /\ lsq_array'[m].addr_valid
            /\ lsq_array'[m].acc = lsq_array[m].acc
        BY <2>1, <3>3 DEF Kept
      <4> QED
        BY <2>1, <4>1, <4>2 DEF Writers
    <3>5. Age(m)' <= Age(j)'
      BY <1>1, <3>4
    <3> QED
      BY <1>5, <1>8, <2>1, <3>1, <3>5
  <2> QED
    BY <1>5, <2>1, <2>2, <2>3
<1> QED
  BY <1>3, <1>4, <1>9 DEF Nearest

LEMMA InUseWasThere ==
  ASSUME QInv, NEW in, Given(in), NextLSQ(in), ~Rollback,
         NEW i \in LEntries, lsq_array'[i].state \notin {"IDLE", "ADDR"}
  PROVE  /\ Age(i)' < LOccupied - LRtNum
         /\ lsq_array'[i] = NextLsqEntry(i, in) /\ Kept(lsq_array[i], lsq_array'[i])
         /\ lsq_array[i].state # "IDLE" /\ i \notin LRtSel
<1>1. Ring /\ Shaped /\ Queued
  BY DEF QInv
<1>2. ~(Age(i)' >= LOccupied - LRtNum /\ Age(i)' < LOccupied')
  <2> SUFFICES ASSUME Age(i)' >= LOccupied - LRtNum /\ Age(i)' < LOccupied' PROVE FALSE
    OBVIOUS
  <2>1. PICK k \in 0..(in.n - 1) : lsq_array'[i] = Fresh(in.dp[k])
    BY <1>1, QueueMoves
  <2> QED
    BY <2>1, FreshIs DEF Given
<1>3. ~(Age(i)' >= LOccupied')
  BY <1>1, QueueMoves
<1>4. /\ LRtNum \in Nat /\ LOccupied \in Nat /\ Age(i) \in Nat
      /\ LOccupied' = (LOccupied - LRtNum) + in.n /\ in.n \in Nat
      /\ Age(i)' = IF Age(i) >= LRtNum THEN Age(i) - LRtNum
                   ELSE (Age(i) + LSQ_ENTRY_NUM) - LRtNum
  BY <1>1, Ages, LeavesOldest, Fits, AgesMove, Sizes
<1>5. Age(i)' < LOccupied - LRtNum
  BY <1>2, <1>3, <1>4, Sizes
<1> QED
  BY <1>1, <1>5, QueueMoves

\* The program reads and writes each word with one size at one place.
AccessesOfAWordAgree == \A a, b \in Accesses : a.word = b.word => a = b

\* A load takes the data of the nearest store before it that has its address
\* (LSQ_entry_ctrl.sv l.163-199).
LEMMA ForwardsTheNearest ==
  ASSUME AccessesOfAWordAgree, QInv, NEW i \in LEntries,
         lsq_array[i].addr_valid, ForwardFlag(i),
         NEW k \in DOMAIN LowBytes(lsq_array[DependIdx(i)].data, lsq_array[i].acc),
         NEW j \in LEntries, Nearest(i, lsq_array[i].acc, k, j)
  PROVE  LowBytes(lsq_array[DependIdx(i)].data, lsq_array[i].acc)[k] =
           lsq_array[j].data[lsq_array[i].acc.off + k - lsq_array[j].acc.off]
<1> DEFINE a == lsq_array[i].acc
           D == Dependences(i)
<1>1. Ring /\ Shaped
  BY DEF QInv
<1>2. a \in Accesses /\ a.off \in Nat /\ a.size \in Nat
  BY <1>1, LSQParameters DEF Shaped, Entry
<1>3. k \in 0..(a.size - 1) /\ k \in Int
  BY <1>2 DEF LowBytes
<1>4. \A m \in D : m \in LEntries /\ lsq_array[m].acc = a
  <2> SUFFICES ASSUME NEW m \in D PROVE m \in LEntries /\ lsq_array[m].acc = a
    OBVIOUS
  <2>1. /\ m \in LEntries /\ lsq_array[m].addr_valid
        /\ lsq_array[m].acc.word = a.word
    BY DEF Dependences, Older
  <2>2. lsq_array[m].acc \in Accesses
    BY <1>1, <2>1 DEF Shaped, Entry
  <2> QED
    BY <1>2, <2>1, <2>2 DEF AccessesOfAWordAgree
<1>5. \A m \in D : m \in Writers(i, a, k)
  <2> SUFFICES ASSUME NEW m \in D PROVE m \in Writers(i, a, k)
    OBVIOUS
  <2>1. m \in Older(i) /\ lsq_array[m].cmd = "STORE" /\ lsq_array[m].addr_valid
    BY DEF Dependences
  <2>2. lsq_array[m].acc = a
    BY <1>4
  <2>3. a.off + k \in a.off..(a.off + a.size - 1)
    BY <1>2, <1>3
  <2> HIDE DEF a
  <2> QED
    BY <2>1, <2>2, <2>3 DEF Writers
<1>6. j \in D
  BY DEF Nearest, Writers, Dependences
<1>7. \A m \in D : Age(m) <= Age(j)
  BY <1>5 DEF Nearest
<1>8. DependIdx(i) \in D /\ \A m \in D : Age(m) <= Age(DependIdx(i))
  BY <1>6, <1>7 DEF DependIdx
<1>9. DependIdx(i) = j
  <2>1. DependIdx(i) \in LEntries
    BY <1>4, <1>8
  <2>2. Age(j) \in Nat /\ Age(DependIdx(i)) \in Nat
    BY <1>1, <2>1, Ages, Sizes
  <2>3. Age(j) <= Age(DependIdx(i)) /\ Age(DependIdx(i)) <= Age(j)
    BY <1>6, <1>7, <1>8
  <2>4. Age(j) = Age(DependIdx(i))
    BY <2>2, <2>3
  <2> QED
    BY <1>1, <2>1, <2>4, Ages
<1>10. lsq_array[j].acc = a
  BY <1>4, <1>6
<1>11. a.off + k - a.off = k
  BY <1>2, <1>3
<1>12. LowBytes(lsq_array[DependIdx(i)].data, a)[k] = lsq_array[j].data[k]
  BY <1>3, <1>9 DEF LowBytes
<1> HIDE DEF a
<1>13. lsq_array[j].data[a.off + k - lsq_array[j].acc.off] = lsq_array[j].data[k]
  BY <1>10, <1>11
<1> QED
  BY <1>12, <1>13 DEF a

LEMMA EdgeKeepsData ==
  ASSUME AccessesOfAWordAgree, NEW in, MemEdge(in), ReadsNearest
  PROVE  ReadsNearest'
<1>1. /\ QInv /\ Ring /\ Shaped /\ Queued /\ LoadsWaitForStores /\ ~Rollback
      /\ Given(in) /\ NextLSQ(in)
  BY DEF MemEdge, FInv, QInv
<1>2. SUFFICES ASSUME NEW i \in LEntries, lsq_array'[i].cmd = "LOAD",
                      lsq_array'[i].state \in {"LOAD_CP", "ROB_RETIRE"},
                      NEW k \in DOMAIN lsq_array'[i].data, NEW j \in LEntries,
                      Nearest(i, lsq_array[i].acc, k, j)'
               PROVE  lsq_array'[i].data[k] =
                        lsq_array'[j].data[lsq_array'[i].acc.off + k - lsq_array'[j].acc.off]
  BY DEF ReadsNearest
<1> DEFINE e == lsq_array[i]
<1>3. /\ Age(i)' < LOccupied - LRtNum /\ lsq_array'[i] = NextLsqEntry(i, in)
      /\ Kept(e, lsq_array'[i]) /\ e.state # "IDLE" /\ i \notin LRtSel
  BY <1>1, <1>2, InUseWasThere
<1>4. /\ Entry(e) /\ e.cmd = "LOAD"
      /\ DOMAIN e = {"state", "cmd", "rob_idx", "acc", "addr_valid", "data", "retire", "mem_tag"}
  BY <1>1, <1>2, <1>3, HasFields DEF Shaped, Entry, Kept
<1>5. e.state # "RETIRE"
  BY <1>2, <1>3, NextByState DEF NextRetire
<1>6. OlderStoreKnown(i)
  BY <1>1, <1>2, <1>3, <1>4, <1>5, GoesOn
<1>7. e.state # "ADDR"
  <2> SUFFICES ASSUME e.state = "ADDR" PROVE FALSE
    OBVIOUS
  <2>1. NextAddr(i, in).state \in {"ADDR", "RD_MEM", "DEPEND"}
    BY <1>4 DEF NextAddr
  <2> QED
    BY <1>2, <1>3, <2>1, NextByState
<1>8. e.addr_valid /\ lsq_array'[i].acc = e.acc
  BY <1>3, <1>4, <1>7 DEF Entry, Kept
<1>9. PICK a : a = e.acc
  OBVIOUS
<1>10. Nearest(i, a, k, j)'
  BY <1>2, <1>8, <1>9 DEF Nearest, Writers
<1>11. /\ Nearest(i, a, k, j)
       /\ lsq_array'[j].data = lsq_array[j].data /\ lsq_array'[j].acc = lsq_array[j].acc
  BY <1>1, <1>3, <1>6, <1>10, NearestWasNearest
<1>12. CASE e.state \in {"LOAD_CP", "ROB_RETIRE"}
  <2>1. lsq_array'[i].data = e.data
    <3>1. NextLoadCp(i, in).data = e.data /\ NextRobRetire(i).data = e.data
      BY <1>4 DEF NextLoadCp, NextRobRetire
    <3> QED
      BY <1>3, <1>12, <3>1, NextByState
  <2> QED
    BY <1>2, <1>4, <1>8, <1>9, <1>11, <1>12, <2>1 DEF ReadsNearest
<1>13. CASE e.state \in {"RD_MEM", "WAIT_MEM"}
  <2>1. j \in Dependences(i)
    BY <1>9, <1>11 DEF Nearest, Writers, Dependences
  <2> QED
    BY <1>1, <1>13, <2>1 DEF LoadsWaitForStores
<1>14. CASE e.state = "DEPEND"
  <2>1. lsq_array'[i] = NextDepend(i)
    BY <1>3, <1>14, NextByState
  <2>2. ForwardFlag(i) /\ lsq_array'[i].data = LowBytes(lsq_array[DependIdx(i)].data, e.acc)
    <3>1. Dependences(i) # {} /\ ForwardFlag(i)
      BY <1>2, <1>4, <1>14, <2>1 DEF NextDepend
    <3> QED
      BY <1>4, <1>6, <2>1, <3>1 DEF NextDepend
  <2>3. LowBytes(lsq_array[DependIdx(i)].data, e.acc)[k] =
          lsq_array[j].data[e.acc.off + k - lsq_array[j].acc.off]
    BY <1>1, <1>2, <1>8, <1>9, <1>11, <2>2, ForwardsTheNearest
  <2> QED
    BY <1>8, <1>11, <2>2, <2>3
<1> QED
  BY <1>4, <1>5, <1>7, <1>12, <1>13, <1>14, <1>3 DEF Entry, States

-----------------------------------------------------------------------------
\* The invariants of the data.

\* Unless a flush is put off, what the cache is to answer a load is what memory
\* still holds.
MissesStayTrue == ~rollback_flag => WaitsForMemory

MInv == FInv /\ MemInv /\ MissesStayTrue

DInv == MInv /\ (~rollback_flag => ReadsNearest)

LEMMA InitDInv == Init => DInv
<1> SUFFICES ASSUME Init PROVE DInv
  OBVIOUS
<1>1. FInv
  BY InitFInv
<1>2. MemInv
  BY Sizes DEF Init, MemInv
<1>3. \A i \in LEntries : lsq_array[i].state = "IDLE"
  BY HasFields DEF Init
<1>4. WaitsForMemory /\ ReadsNearest
  BY <1>3 DEF WaitsForMemory, ReadsNearest
<1> QED
  BY <1>1, <1>2, <1>4 DEF DInv, MInv, MissesStayTrue

\* A flush that is put off ends with an empty queue: otherwise nothing was put off.
LEMMA FlushedOrEdge ==
  ASSUME MInv, NEW in, Given(in), Cached(in), NextLSQ(in), NextCache(in), ~rollback_flag'
  PROVE  \/ \A i \in LEntries : lsq_array'[i].state = "IDLE"
         \/ MemEdge(in)
<1>1. CASE Rollback
  BY <1>1, HasFields DEF NextLSQ
<1>2. CASE ~Rollback
  <2>1. ~rollback_flag
    BY <1>2 DEF NextLSQ, Rollback
  <2> QED
    BY <1>2, <2>1 DEF MInv, MissesStayTrue, MemEdge
<1> QED
  BY <1>1, <1>2

LEMMA StepIsInput ==
  ASSUME Next PROVE \E in : Given(in) /\ Cached(in) /\ NextLSQ(in) /\ NextCache(in)
  BY StepIsEdge, InputIs

LEMMA NextMInv == MInv /\ [Next]_vars => MInv'
<1> SUFFICES ASSUME MInv, [Next]_vars PROVE MInv'
  OBVIOUS
<1>0. FInv'
  BY NextFInv DEF MInv
<1>1. CASE Next
  <2>1. PICK in : Given(in) /\ Cached(in) /\ NextLSQ(in) /\ NextCache(in)
    BY <1>1, StepIsInput
  <2>2. MemInv'
    <3>1. top_idx' = IF ArbiterReq # {} /\ in.confirm # "wait"
                     THEN LAdvance(Grant, 1) ELSE top_idx
      BY <2>1 DEF NextLSQ
    <3>2. ArbiterReq # {} => Grant \in LEntries
      BY GrantAsks DEF MInv, MemInv
    <3>3. ArbiterReq # {} => LAdvance(Grant, 1) \in LEntries
      BY <3>2, Sizes DEF LAdvance
    <3>4. DOMAIN mem' = DOMAIN mem
      BY <2>1 DEF NextCache, WrittenMem
    <3> QED
      BY <3>1, <3>3, <3>4 DEF MInv, MemInv
  <2>3. MissesStayTrue'
    <3> SUFFICES ASSUME ~rollback_flag' PROVE WaitsForMemory'
      BY DEF MissesStayTrue
    <3>1. CASE \A i \in LEntries : lsq_array'[i].state = "IDLE"
      BY <3>1 DEF WaitsForMemory
    <3>2. CASE MemEdge(in)
      BY <3>2, EdgeKeepsMemory
    <3> QED
      BY <2>1, <3>1, <3>2, FlushedOrEdge
  <2> QED
    BY <1>0, <2>2, <2>3 DEF MInv
<1>2. CASE UNCHANGED vars
  <2>1. UNCHANGED <<lsq_array, rollback_flag, top_idx, mem, misses>>
    BY <1>2 DEF vars, lsqVars
  <2>2. MemInv' /\ MissesStayTrue'
    BY <2>1 DEF MInv, MemInv, MissesStayTrue, WaitsForMemory, ReadMem
  <2> QED
    BY <1>0, <2>2 DEF MInv
<1> QED
  BY <1>1, <1>2

LEMMA NextDInv ==
  ASSUME AccessesOfAWordAgree
  PROVE  DInv /\ [Next]_vars => DInv'
<1> SUFFICES ASSUME DInv, [Next]_vars, ~rollback_flag' PROVE ReadsNearest'
  BY NextMInv DEF DInv
<1>1. CASE Next
  <2>1. PICK in : Given(in) /\ Cached(in) /\ NextLSQ(in) /\ NextCache(in)
    BY <1>1, StepIsInput
  <2>2. CASE \A i \in LEntries : lsq_array'[i].state = "IDLE"
    BY <2>2 DEF ReadsNearest
  <2>3. CASE MemEdge(in)
    BY <2>3, EdgeKeepsData DEF DInv, MemEdge
  <2> QED
    BY <2>1, <2>2, <2>3, FlushedOrEdge DEF DInv
<1>2. CASE UNCHANGED vars
  <2>1. UNCHANGED <<head, lsq_array, rollback_flag>>
    BY <1>2 DEF vars, lsqVars
  <2> QED
    BY <2>1 DEF DInv, ReadsNearest, Nearest, Writers, Older, Age
<1> QED
  BY <1>1, <1>2

\* The cache answers a load that missed with what memory still holds, whatever has
\* been written since the cache took the request, and whichever sizes the program
\* uses: no store overtakes the load, before it or behind it (LSQ_entry_ctrl.sv
\* l.205-261, LSQ_rr_arbiter.sv l.21-61).
THEOREM AnswersAreStillTrue == Spec => []MissesStayTrue
<1>1. Init => MInv
  BY InitDInv DEF DInv
<1>2. MInv /\ [Next]_vars => MInv'
  BY NextMInv
<1>3. MInv => MissesStayTrue
  BY DEF MInv
<1> QED
  BY <1>1, <1>2, <1>3, PTL DEF Spec

LEMMA DataInOrder == DInv => LoadsSeeProgramOrder
<1> SUFFICES ASSUME DInv, ~rollback_flag PROVE LoadsSeeProgramOrder
  BY DEF LoadsSeeProgramOrder
<1>1. Ring /\ WaitsForMemory /\ ReadsNearest
  BY DEF DInv, MInv, MissesStayTrue, FInv, QInv
<1>2. ASSUME NEW i \in LEntries, lsq_array[i].cmd = "LOAD",
             lsq_array[i].state \in {"LOAD_CP", "ROB_RETIRE"},
             NEW k \in DOMAIN lsq_array[i].data, Writers(i, lsq_array[i].acc, k) # {}
      PROVE  LET j == CHOOSE j \in Writers(i, lsq_array[i].acc, k) :
                         \A m \in Writers(i, lsq_array[i].acc, k) : Age(m) <= Age(j)
             IN  lsq_array[i].data[k] =
                   lsq_array[j].data[lsq_array[i].acc.off + k - lsq_array[j].acc.off]
  <2> DEFINE W == Writers(i, lsq_array[i].acc, k)
             j == CHOOSE x \in W : \A m \in W : Age(m) <= Age(x)
  <2>1. \E x \in W : \A m \in W : Age(m) <= Age(x)
    BY <1>1, <1>2, NearestExists DEF Nearest
  <2>2. j \in W /\ \A m \in W : Age(m) <= Age(j)
    BY <2>1
  <2>3. j \in LEntries /\ Nearest(i, lsq_array[i].acc, k, j)
    BY <2>2 DEF Nearest, Writers, Older
  <2> HIDE DEF j
  <2>4. lsq_array[i].data[k] =
          lsq_array[j].data[lsq_array[i].acc.off + k - lsq_array[j].acc.off]
    BY <1>1, <1>2, <2>3 DEF ReadsNearest
  <2> QED
    BY <2>4 DEF j
<1>3. \A i \in LEntries : lsq_array[i].state = "WAIT_MEM" =>
         misses[lsq_array[i].mem_tag] = ReadMem(lsq_array[i].acc)
  BY <1>1 DEF WaitsForMemory
<1> QED
  BY <1>2, <1>3 DEF LoadsSeeProgramOrder

\* As long as the program accesses each word with one size at one place, every byte
\* that a load reads is the one that the nearest store before it wrote, and what the
\* cache is to answer is what memory still holds (LSQ_entry_ctrl.sv l.122-261,
\* l.377-482). With two sizes it is not so: the nearest store to the word is
\* forwarded when any store before the load has its address.
THEOREM LoadsReadInOrder ==
  ASSUME AccessesOfAWordAgree
  PROVE  Spec => []LoadsSeeProgramOrder
<1>1. Init => DInv
  BY InitDInv
<1>2. DInv /\ [Next]_vars => DInv'
  BY NextDInv
<1>3. DInv => LoadsSeeProgramOrder
  BY DataInOrder
<1> QED
  BY <1>1, <1>2, <1>3, PTL DEF Spec
=============================================================================
