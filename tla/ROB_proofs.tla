----------------------------- MODULE ROB_proofs -----------------------------
(***************************************************************************)
(* The reorder buffer's invariants, and that it implements the commit      *)
(* queue, for every ring size and every number of dispatch, retire and     *)
(* broadcast channels.                                                     *)
(***************************************************************************)
EXTENDS ROB, ROBLogic_proofs, SequenceTheorems

USE DEF Entries

\* The inductive invariant: the registers have their types, the rollover bits
\* agree with the pointers, and the valid entries are those between them. No one
\* of the three is inductive alone: the pointers stay ordered because no more
\* retires than the window holds, which needs the valid bits.
IInv == Whole(Insts, Targets, rob)

\* The invariant is the conjunction of the three properties of the runs.
LEMMA IInvParts == IInv <=> TypeOK /\ PointersAgree /\ ValidIsWindow
  BY DEF IInv, Whole, TypeOK, PointersAgree, ValidIsWindow

\* The reset state satisfies it (ROB.sv l.115-122, l.312-318).
LEMMA InitIInv == Init => IInv
<1> SUFFICES ASSUME Init PROVE IInv
  OBVIOUS
<1>1. 0 \in Entries
  BY ROBParameters
<1>2. EmptyEntry \in EntryOf(Insts, Targets) /\ ~EmptyEntry.valid
  BY DEF EmptyEntry, EntryOf
<1>3. rob \in ROBOf(Insts, Targets)
  BY <1>1, <1>2 DEF Init, EmptyROB, ROBOf
<1>4. Ordered(rob) /\ Window(rob) = {}
  BY DEF Init, EmptyROB, Ordered, Window
<1> QED
  BY <1>2, <1>3, <1>4 DEF Init, EmptyROB, IInv, Whole, FillsWindow

\* Every edge, a flush or an ordinary one, keeps it: EdgeKeepsRingWhole, whose
\* assumptions on the traffic are what Flush and Advancing allow.
LEMMA NextIInv == IInv /\ [Next]_vars => IInv'
<1> SUFFICES ASSUME IInv, [Next]_vars PROVE IInv'
  OBVIOUS
<1>1. CASE Flush
  <2>1. Traffic(Insts, Targets, 0, <<>>, <<>>)
    BY DEF Traffic
  <2>2. 0 <= DpAvail(rob)
    <3>1. Pointers(rob)
      BY DEF IInv, Whole, Pointers, ROBOf
    <3>2. RtNum(rob) \in Nat
      BY <3>1, RetiresAnInterval DEF Pointers
    <3>3. AvailNum(rob) \in Nat
      BY <3>1, <3>2, RetiresWhatItHolds, ROBParameters DEF IInv, Whole
    <3> QED
      BY <3>3, ROBParameters DEF DpAvail
  <2>3. Whole(Insts, Targets, NextROB(rob, 0, <<>>, <<>>))
    BY <2>1, <2>2, EdgeKeepsRingWhole DEF IInv
  <2> QED
    BY <1>1, <2>3 DEF Flush, IInv
<1>2. CASE Advancing
  <2>1. PICK n \in 0..DpAvail(rob) :
          \E dp \in [0..(n - 1) -> Inst], done \in SUBSET InFlight :
          \E cdb \in [done -> Result] : rob' = NextROB(rob, n, dp, cdb)
    BY <1>2 DEF Advancing
  <2>2. PICK dp \in [0..(n - 1) -> Inst], done \in SUBSET InFlight :
          \E cdb \in [done -> Result] : rob' = NextROB(rob, n, dp, cdb)
    BY <2>1
  <2>3. PICK cdb \in [done -> Result] : rob' = NextROB(rob, n, dp, cdb)
    BY <2>2
  <2>4. Traffic(Insts, Targets, n, dp, cdb)
    BY <2>2, <2>3, ROBTraffic DEF Traffic, Insts, Targets
  <2>5. n \in Nat /\ n <= DpAvail(rob)
    BY <2>1
  <2>6. Whole(Insts, Targets, NextROB(rob, n, dp, cdb))
    BY <2>4, <2>5, EdgeKeepsRingWhole DEF IInv
  <2> QED
    BY <2>3, <2>6 DEF IInv
<1>3. CASE UNCHANGED vars
  BY <1>3 DEF vars, IInv, Whole, ROBOf, Ordered, FillsWindow, Window
<1> QED
  BY <1>1, <1>2, <1>3 DEF Next

\* Hence it holds in every reachable state.
LEMMA AlwaysIInv == Spec => []IInv
  BY InitIInv, NextIInv, PTL DEF Spec

\* The registers keep their types: in particular the pointers never leave the
\* array (ROB.sv l.115-156).
THEOREM TypeCorrect == Spec => []TypeOK
<1>1. IInv => TypeOK
  BY IInvParts
<1> QED
  BY <1>1, AlwaysIInv, PTL

\* A full ring is never taken for an empty one (ROB.sv l.134-165).
THEOREM PointersAlwaysAgree == Spec => []PointersAgree
<1>1. IInv => PointersAgree
  BY IInvParts
<1> QED
  BY <1>1, AlwaysIInv, PTL

\* No dispatch overwrites an instruction in flight, no retirement or flush leaves
\* one behind, and none retires twice (ROB.sv l.176-194, l.312-362).
THEOREM NothingLostOrResurrected == Spec => []ValidIsWindow
<1>1. IInv => ValidIsWindow
  BY IInvParts
<1> QED
  BY <1>1, AlwaysIInv, PTL

-----------------------------------------------------------------------------
\* The ring as a commit queue.

OldestOf(r, k) ==
    LET e == r.array[Place(r, k - 1)] IN
    [inst |-> e.inst, br_predict |-> e.br_predict, wfi |-> e.wfi,
     done |-> e.complete,
     result |-> [br_result |-> e.br_result, br_target |-> e.br_target]]

\* The commit queue of a ring.
QueueOf(r) == [k \in 1..Occupied(r) |-> OldestOf(r, k)]

-----------------------------------------------------------------------------
\* One edge.

\* What waits after an edge without a flush: what waited and does not retire, each with
\* its result if that was broadcast, and behind it what was dispatched.
LEMMA QueueAfterEdge ==
  ASSUME NEW r, Whole(Insts, Targets, r), ~BrMisValid(r),
         NEW n \in Nat, n <= DpAvail(r), NEW dp, NEW cdb,
         Traffic(Insts, Targets, n, dp, cdb),
         \A i \in DOMAIN cdb : ~r.array[i].complete /\ cdb[i] \in Result
  PROVE  /\ Occupied(NextROB(r, n, dp, cdb)) = Occupied(r) - RtNum(r) + n
         /\ Occupied(NextROB(r, n, dp, cdb)) <= ROB_ENTRY_NUM
         /\ \A i \in 1..Occupied(NextROB(r, n, dp, cdb)) :
               IF i <= Occupied(r) - RtNum(r)
               THEN \/ OldestOf(NextROB(r, n, dp, cdb), i) = OldestOf(r, i + RtNum(r))
                    \/ /\ ~OldestOf(r, i + RtNum(r)).done
                       /\ \E x \in Result : OldestOf(NextROB(r, n, dp, cdb), i) =
                            [OldestOf(r, i + RtNum(r)) EXCEPT !.done = TRUE, !.result = x]
               ELSE ~OldestOf(NextROB(r, n, dp, cdb), i).done
<1> DEFINE q == NextROB(r, n, dp, cdb)
           k == RtNum(r)
<1>1. Pointers(r) /\ Ordered(r) /\ FillsWindow(r) /\ r \in ROBOf(Insts, Targets)
  BY DEF Whole, Pointers, ROBOf
<1>2. k \in Nat /\ Occupied(r) \in 0..ROB_ENTRY_NUM
  BY <1>1, RetiresAnInterval, RetiresWhatItHolds DEF Pointers
<1>4. q.array = [i \in Entries |-> NextEntry(r, n, dp, cdb, i)]
  BY DEF NextROB, NextHeadRollover
<1> HIDE DEF q, k
<1>7. /\ Occupied(q) = Occupied(r) - k + n
      /\ Occupied(q) <= ROB_ENTRY_NUM
      /\ \A i \in 1..Occupied(q) :
           /\ Place(q, i - 1) = Place(r, k + (i - 1))
           /\ Place(q, i - 1) \in Entries
           /\ Place(q, i - 1) \in DpSel(r, n) <=> i > Occupied(r) - k
           /\ Place(q, i - 1) \notin DpSel(r, n) => Place(q, i - 1) \notin RtSel(r)
  BY PlacesAfterEdge DEF q, k
<1>8. ASSUME NEW i \in 1..Occupied(q), i > Occupied(r) - k
      PROVE  ~OldestOf(q, i).done
  <2> DEFINE e == Place(q, i - 1)
  <2>1. e \in Entries /\ e \in DpSel(r, n)
    BY <1>7, <1>8
  <2>2. r.array[e] \in EntryOf(Insts, Targets)
    BY <2>1, <1>1 DEF ROBOf
  <2>3. ~NextEntry(r, n, dp, cdb, e).complete
    BY <2>1, <2>2 DEF NextEntry, EntryOf
  <2> HIDE DEF e
  <2>4. q.array[e] = NextEntry(r, n, dp, cdb, e)
    BY <2>1, <1>4
  <2> QED
    BY <2>3, <2>4 DEF OldestOf, e
<1>9. ASSUME NEW i \in 1..Occupied(q), ~(i > Occupied(r) - k)
      PROVE  \/ OldestOf(q, i) = OldestOf(r, i + k)
             \/ /\ ~OldestOf(r, i + k).done
                /\ \E x \in Result : OldestOf(q, i) =
                     [OldestOf(r, i + k) EXCEPT !.done = TRUE, !.result = x]
  <2> DEFINE e == Place(q, i - 1)
  <2>1. /\ e \in Entries /\ e \notin DpSel(r, n) /\ e \notin RtSel(r)
        /\ e = Place(r, k + (i - 1))
    BY <1>7, <1>9
  <2>2. k + (i - 1) = (i + k) - 1
    BY <1>2
  <2>3. e = Place(r, (i + k) - 1)
    BY <2>1, <2>2
  <2>4. r.array[e] \in EntryOf(Insts, Targets)
    BY <2>1, <1>1 DEF ROBOf
  <2>5. q.array[e] = NextEntry(r, n, dp, cdb, e)
    BY <2>1, <1>4
  <2> HIDE DEF e
  <2>6. CASE e \in DOMAIN cdb /\ r.array[e].valid
    <3>1. q.array[e] = [r.array[e] EXCEPT !.complete = TRUE, !.br_result = cdb[e].br_result,
                                         !.br_target = cdb[e].br_target]
      BY <2>1, <2>5, <2>6 DEF NextEntry
    <3>2. ~r.array[e].complete /\ cdb[e] \in Result
      BY <2>6
    <3>3. cdb[e] = [br_result |-> cdb[e].br_result, br_target |-> cdb[e].br_target]
      BY <3>2, ROBTraffic
    <3>4. /\ q.array[e].complete = TRUE /\ q.array[e].br_result = cdb[e].br_result
          /\ q.array[e].br_target = cdb[e].br_target /\ q.array[e].inst = r.array[e].inst
          /\ q.array[e].br_predict = r.array[e].br_predict /\ q.array[e].wfi = r.array[e].wfi
      BY <3>1, <2>4 DEF EntryOf
    <3>5. ~OldestOf(r, i + k).done
      BY <3>2, <2>3 DEF OldestOf
    <3>6. OldestOf(q, i) =
            [inst |-> r.array[e].inst, br_predict |-> r.array[e].br_predict,
             wfi |-> r.array[e].wfi, done |-> TRUE, result |-> cdb[e]]
      BY <3>3, <3>4 DEF OldestOf, e
    <3> DEFINE old == r.array[e]
               ins == old.inst
               pre == old.br_predict
               wfi == old.wfi
               com == old.complete
               res == [br_result |-> old.br_result, br_target |-> old.br_target]
               new == cdb[e]
    <3>7. /\ OldestOf(r, i + k) =
               [inst |-> ins, br_predict |-> pre, wfi |-> wfi, done |-> com, result |-> res]
          /\ OldestOf(q, i) =
               [inst |-> ins, br_predict |-> pre, wfi |-> wfi, done |-> TRUE, result |-> new]
      BY <2>3, <3>6 DEF OldestOf
    <3> HIDE DEF ins, pre, wfi, com, res, new
    <3>8. [inst |-> ins, br_predict |-> pre, wfi |-> wfi, done |-> TRUE, result |-> new]
            = [[inst |-> ins, br_predict |-> pre, wfi |-> wfi, done |-> com, result |-> res]
                 EXCEPT !.done = TRUE, !.result = new]
      <4> DEFINE f == [[inst |-> ins, br_predict |-> pre, wfi |-> wfi, done |-> com,
                        result |-> res] EXCEPT !.done = TRUE, !.result = new]
      <4>1. f \in [inst : {ins}, br_predict : {pre}, wfi : {wfi}, done : {TRUE},
                   result : {new}]
        OBVIOUS
      <4> HIDE DEF f
      <4>2. f = [inst |-> ins, br_predict |-> pre, wfi |-> wfi, done |-> TRUE, result |-> new]
        BY <4>1
      <4> QED
        BY <4>2 DEF f
    <3>9. OldestOf(q, i) = [OldestOf(r, i + k) EXCEPT !.done = TRUE, !.result = cdb[e]]
      BY <3>7, <3>8 DEF new
    <3> QED
      BY <3>2, <3>5, <3>9
  <2>7. CASE ~(e \in DOMAIN cdb /\ r.array[e].valid)
    <3>1. q.array[e] = r.array[e]
      BY <2>1, <2>5, <2>7 DEF NextEntry
    <3> QED
      BY <3>1, <2>3 DEF OldestOf, e
  <2> QED
    BY <2>6, <2>7
<1>10. \A i \in 1..Occupied(q) : i <= Occupied(r) - k <=> ~(i > Occupied(r) - k)
  BY <1>2
<1> QED
  BY <1>7, <1>8, <1>9, <1>10 DEF q, k

\* The first RtNum instructions of the queue may leave it together, and only the last
\* of them may be a wrong prediction or a WFI.
LEMMA RetiringMayCommit ==
  ASSUME NEW r, Whole(Insts, Targets, r)
  PROVE  LET k == RtNum(r) IN
         /\ k \in 0..RT_NUM /\ k <= Occupied(r)
         /\ k > 0 => ~r.rt_wfi
         /\ \A i \in 1..k : OldestOf(r, i).done
         /\ \A i \in 1..(k - 1) : /\ OldestOf(r, i).br_predict = OldestOf(r, i).result.br_result
                                  /\ ~OldestOf(r, i).wfi
         /\ BrMisValid(r) <=>
              k > 0 /\ OldestOf(r, k).br_predict # OldestOf(r, k).result.br_result
         /\ WfiRetires(r) <=> k > 0 /\ OldestOf(r, k).wfi
<1> DEFINE k == RtNum(r)
           h == r.head
<1>1. Pointers(r) /\ Ordered(r) /\ FillsWindow(r) /\ r \in ROBOf(Insts, Targets)
  BY DEF Whole, Pointers, ROBOf
<1>2. /\ k \in 0..RT_NUM /\ h + k <= ROB_ENTRY_NUM /\ h \in Entries
      /\ RtSel(r) = h .. (h + k - 1)
      /\ k <= Occupied(r)
  BY <1>1, RetiresAnInterval, RetiresWhatItHolds DEF Pointers
<1> HIDE DEF k, h
<1>3. ASSUME NEW i \in 1..k PROVE Place(r, i - 1) = h + i - 1 /\ h + i - 1 \in RtSel(r)
  BY <1>2, ROBParameters DEF Place, Advance, h
<1>4. \A e \in RtSel(r) :
        /\ ~r.rt_wfi
        /\ r.array[e].complete
        /\ \A j \in h..e : j < e => ~Mispredicted(r.array[j]) /\ ~r.array[j].wfi
  <2> SUFFICES ASSUME NEW e \in RtSel(r)
               PROVE  /\ ~r.rt_wfi
                      /\ r.array[e].complete
                      /\ \A j \in h..e : j < e => ~Mispredicted(r.array[j]) /\ ~r.array[j].wfi
    OBVIOUS
  <2>1. e \in h..e
    BY <1>2
  <2> QED
    BY <2>1 DEF RtSel, h
<1>5. k > 0 => ~r.rt_wfi
  <2>1. k > 0 => h \in RtSel(r)
    BY <1>2
  <2> QED
    BY <2>1, <1>4
<1>6. \A i \in 1..k : OldestOf(r, i).done
  BY <1>3, <1>4 DEF OldestOf
<1>7. ASSUME NEW e \in RtSel(r), e # h + k - 1
      PROVE  ~Mispredicted(r.array[e]) /\ ~r.array[e].wfi
  <2>1. h + k - 1 \in RtSel(r) /\ e \in h..(h + k - 1) /\ e < h + k - 1
    BY <1>2, <1>7
  <2> QED
    BY <2>1, <1>4
<1>8. \A i \in 1..(k - 1) : /\ OldestOf(r, i).br_predict = OldestOf(r, i).result.br_result
                            /\ ~OldestOf(r, i).wfi
  <2> SUFFICES ASSUME NEW i \in 1..(k - 1)
               PROVE  /\ OldestOf(r, i).br_predict = OldestOf(r, i).result.br_result
                      /\ ~OldestOf(r, i).wfi
    OBVIOUS
  <2>1. i \in 1..k /\ h + i - 1 # h + k - 1
    BY <1>2
  <2> QED
    BY <2>1, <1>3, <1>7 DEF OldestOf, Mispredicted
<1>9. k > 0 => Place(r, k - 1) = h + k - 1 /\ h + k - 1 \in RtSel(r)
  BY <1>2, <1>3
<1>10. RtSel(r) # {} => k > 0
  BY <1>2
<1>11. BrMisValid(r) <=>
         k > 0 /\ OldestOf(r, k).br_predict # OldestOf(r, k).result.br_result
  BY <1>7, <1>9, <1>10 DEF BrMisValid, Mispredicted, OldestOf
<1>12. WfiRetires(r) <=> k > 0 /\ OldestOf(r, k).wfi
  BY <1>7, <1>9, <1>10 DEF WfiRetires, OldestOf
<1> QED
  BY <1>2, <1>5, <1>6, <1>8, <1>11, <1>12 DEF k

-----------------------------------------------------------------------------
\* The refinement.

\* A function on 1..n is a sequence of length n.
LEMMA LengthOf ==
  ASSUME NEW n \in Nat, NEW f, f = [k \in 1..n |-> f[k]]
  PROVE  Len(f) = n /\ DOMAIN f = 1..n
<1> DEFINE S == {f[k] : k \in 1..n}
<1>1. f \in [1..n -> S]
  OBVIOUS
<1>2. f \in Seq(S) /\ DOMAIN f = 1..n
  BY <1>1, SeqDef
<1>3. Len(f) \in Nat /\ DOMAIN f = 1..Len(f)
  BY <1>2, LenProperties
<1> QED
  BY <1>2, <1>3

\* The queue of a ring has the ring's length.
LEMMA QueueLength ==
  ASSUME NEW r, Occupied(r) \in Nat
  PROVE  /\ Len(QueueOf(r)) = Occupied(r) /\ DOMAIN QueueOf(r) = 1..Occupied(r)
         /\ \A i \in 1..Occupied(r) : QueueOf(r)[i] = OldestOf(r, i)
<1> DEFINE f == QueueOf(r)
<1>1. f = [k \in 1..Occupied(r) |-> f[k]]
  BY DEF QueueOf
<1>2. \A i \in 1..Occupied(r) : f[i] = OldestOf(r, i)
  BY DEF QueueOf
<1> HIDE DEF f
<1>3. Len(f) = Occupied(r) /\ DOMAIN f = 1..Occupied(r)
  BY <1>1, LengthOf
<1> QED
  BY <1>2, <1>3 DEF f

\* The queue of the commit queue's specification is the queue of the ring.
LEMMA QueueOfRing ==
  /\ [k \in 1..Occupied(rob) |-> Oldest(k)] = QueueOf(rob)
  /\ [k \in 1..Occupied(rob) |-> Oldest(k)]' = QueueOf(rob')
<1>1. /\ \A k : Oldest(k) = OldestOf(rob, k)
      /\ \A k : Oldest(k)' = OldestOf(rob', k)
  BY DEF Oldest, OldestOf, Place
<1> QED
  BY <1>1 DEF QueueOf

\* One edge of the ring is one clock of the queue: as many leave as retire.
LEMMA EdgeIsClock ==
  ASSUME IInv, IInv', Next
  PROVE  Abstract!Clock
<1> DEFINE k == RtNum(rob)
           Q == QueueOf(rob)
           P == QueueOf(rob')
<1>1. /\ k \in 0..RT_NUM /\ k <= Occupied(rob)
      /\ k > 0 => ~rob.rt_wfi
      /\ \A i \in 1..k : OldestOf(rob, i).done
      /\ \A i \in 1..(k - 1) : /\ OldestOf(rob, i).br_predict = OldestOf(rob, i).result.br_result
                               /\ ~OldestOf(rob, i).wfi
      /\ BrMisValid(rob) <=>
           k > 0 /\ OldestOf(rob, k).br_predict # OldestOf(rob, k).result.br_result
      /\ WfiRetires(rob) <=> k > 0 /\ OldestOf(rob, k).wfi
  BY RetiringMayCommit DEF IInv
<1>2. Occupied(rob) \in 0..ROB_ENTRY_NUM /\ AvailNum(rob) \in Nat
  <2>1. Pointers(rob) /\ Ordered(rob) /\ FillsWindow(rob)
    BY DEF IInv, Whole, Pointers, ROBOf
  <2>2. /\ Occupied(rob) \in 0..ROB_ENTRY_NUM
        /\ AvailNum(rob) = ROB_ENTRY_NUM - Occupied(rob) + RtNum(rob)
    BY <2>1, RetiresWhatItHolds
  <2> QED
    BY <2>2, <1>1, ROBParameters
<1>3. Occupied(rob') \in 0..ROB_ENTRY_NUM
  <2>1. Pointers(rob') /\ Ordered(rob') /\ FillsWindow(rob')
    BY DEF IInv, Whole, Pointers, ROBOf, TypeOK
  <2> QED
    BY <2>1, RetiresWhatItHolds
<1>4. /\ Len(Q) = Occupied(rob) /\ DOMAIN Q = 1..Occupied(rob)
      /\ \A i \in 1..Occupied(rob) : Q[i] = OldestOf(rob, i)
  BY <1>2, QueueLength
<1>5. /\ Len(P) = Occupied(rob') /\ DOMAIN P = 1..Occupied(rob')
      /\ \A i \in 1..Occupied(rob') : P[i] = OldestOf(rob', i)
  BY <1>3, QueueLength
<1>6. /\ [j \in 1..Occupied(rob) |-> Oldest(j)] = Q
      /\ [j \in 1..Occupied(rob) |-> Oldest(j)]' = P
  BY QueueOfRing
<1> HIDE DEF Q, P, k
<1>7. /\ k <= Len(Q)
      /\ k > 0 => ~rob.rt_wfi
      /\ \A i \in 1..k : Q[i].done
      /\ \A i \in 1..(k - 1) : ~(Q[i].br_predict # Q[i].result.br_result) /\ ~Q[i].wfi
  <2>1. \A i \in 1..k : i \in 1..Occupied(rob)
    BY <1>1, <1>2
  <2>2. \A i \in 1..(k - 1) : i \in 1..k
    BY <1>1
  <2> QED
    BY <1>1, <1>2, <1>4, <2>1, <2>2
<1>8. /\ BrMisValid(rob) <=> k > 0 /\ Q[k].br_predict # Q[k].result.br_result
      /\ WfiRetires(rob) <=> k > 0 /\ Q[k].wfi
  <2>1. k > 0 => k \in 1..Occupied(rob)
    BY <1>1, <1>2
  <2> QED
    BY <1>1, <1>4, <2>1
<1>9. rob'.rt_wfi = (rob.rt_wfi \/ (k > 0 /\ Q[k].wfi))
  <2>1. CASE Flush
    BY <2>1, <1>8 DEF Flush, NextROB
  <2>2. CASE Advancing
    BY <2>2, <1>8 DEF Advancing, NextROB
  <2> QED
    BY <2>1, <2>2 DEF Next
<1>10. IF k > 0 /\ Q[k].br_predict # Q[k].result.br_result
       THEN P = <<>>
       ELSE /\ Len(P) <= ROB_ENTRY_NUM
            /\ Len(P) - (Len(Q) - k) \in 0..DP_NUM
            /\ \A i \in DOMAIN P :
                 IF i <= Len(Q) - k
                 THEN \/ P[i] = Q[i + k]
                      \/ /\ ~Q[i + k].done
                         /\ \E x \in Result : P[i] = [Q[i + k] EXCEPT !.done = TRUE,
                                                                      !.result = x]
                 ELSE ~P[i].done
  <2>1. CASE Flush
    <3>1. Occupied(rob') = 0
      BY <2>1 DEF Flush, NextROB, NextHeadRollover, Occupied
    <3>2. P = <<>>
      BY <3>1 DEF P, QueueOf
    <3> QED
      BY <2>1, <3>2, <1>8 DEF Flush
  <2>2. CASE Advancing
    <3>1. PICK n \in 0..DpAvail(rob) :
            \E dp \in [0..(n - 1) -> Inst], done \in SUBSET InFlight :
            \E cdb \in [done -> Result] : rob' = NextROB(rob, n, dp, cdb)
      BY <2>2 DEF Advancing
    <3>2. PICK dp \in [0..(n - 1) -> Inst], done \in SUBSET InFlight :
            \E cdb \in [done -> Result] : rob' = NextROB(rob, n, dp, cdb)
      BY <3>1
    <3>3. PICK cdb \in [done -> Result] : rob' = NextROB(rob, n, dp, cdb)
      BY <3>2
    <3>4. Traffic(Insts, Targets, n, dp, cdb)
      BY <3>2, <3>3, ROBTraffic DEF Traffic, Insts, Targets
    <3>5. n \in Nat /\ n <= DpAvail(rob) /\ n <= DP_NUM
      BY <3>1, <1>2, ROBParameters DEF DpAvail
    <3>6. \A i \in DOMAIN cdb : ~rob.array[i].complete /\ cdb[i] \in Result
      BY <3>2, <3>3 DEF InFlight
    <3>7. ~BrMisValid(rob)
      BY <2>2 DEF Advancing
    <3>8. /\ Occupied(rob') = Occupied(rob) - k + n
          /\ Occupied(rob') <= ROB_ENTRY_NUM
          /\ \A i \in 1..Occupied(rob') :
               IF i <= Occupied(rob) - k
               THEN \/ OldestOf(rob', i) = OldestOf(rob, i + k)
                    \/ /\ ~OldestOf(rob, i + k).done
                       /\ \E x \in Result : OldestOf(rob', i) =
                            [OldestOf(rob, i + k) EXCEPT !.done = TRUE, !.result = x]
               ELSE ~OldestOf(rob', i).done
      <4>1. Whole(Insts, Targets, rob)
        BY DEF IInv
      <4> DEFINE q == NextROB(rob, n, dp, cdb)
      <4>2. /\ Occupied(q) = Occupied(rob) - RtNum(rob) + n
            /\ Occupied(q) <= ROB_ENTRY_NUM
            /\ \A i \in 1..Occupied(q) :
                 IF i <= Occupied(rob) - RtNum(rob)
                 THEN \/ OldestOf(q, i) = OldestOf(rob, i + RtNum(rob))
                      \/ /\ ~OldestOf(rob, i + RtNum(rob)).done
                         /\ \E x \in Result : OldestOf(q, i) =
                              [OldestOf(rob, i + RtNum(rob)) EXCEPT !.done = TRUE,
                                                                    !.result = x]
                 ELSE ~OldestOf(q, i).done
        BY <3>4, <3>5, <3>6, <3>7, <4>1, QueueAfterEdge, Zenon
      <4>3. rob' = q
        BY <3>3
      <4> HIDE DEF q
      <4> QED
        BY <4>2, <4>3, Zenon DEF k
    <3>9. Len(P) <= ROB_ENTRY_NUM /\ Len(P) - (Len(Q) - k) \in 0..DP_NUM
      <4>1. /\ Len(P) = Occupied(rob') /\ Len(Q) = Occupied(rob)
            /\ Occupied(rob') = Occupied(rob) - k + n /\ Occupied(rob') <= ROB_ENTRY_NUM
        BY <1>4, <1>5, <3>8
      <4>2. Len(P) - (Len(Q) - k) = n
        BY <4>1, <1>1, <1>2, <1>3, <3>5
      <4>3. n \in 0..DP_NUM
        BY <3>5, ROBParameters
      <4> QED
        BY <4>1, <4>2, <4>3
    <3>10. \A i \in DOMAIN P : i <= Len(Q) - k => i + k \in 1..Occupied(rob)
      BY <1>1, <1>2, <1>3, <1>4, <1>5
    <3>11. \A i \in DOMAIN P :
             IF i <= Len(Q) - k
             THEN \/ P[i] = Q[i + k]
                  \/ /\ ~Q[i + k].done
                     /\ \E x \in Result : P[i] = [Q[i + k] EXCEPT !.done = TRUE,
                                                                  !.result = x]
             ELSE ~P[i].done
      <4> SUFFICES ASSUME NEW i \in DOMAIN P
                   PROVE  IF i <= Len(Q) - k
                          THEN \/ P[i] = Q[i + k]
                               \/ /\ ~Q[i + k].done
                                  /\ \E x \in Result : P[i] =
                                       [Q[i + k] EXCEPT !.done = TRUE, !.result = x]
                          ELSE ~P[i].done
        OBVIOUS
      <4>1. i \in 1..Occupied(rob') /\ P[i] = OldestOf(rob', i)
        BY <1>5
      <4>2. i <= Len(Q) - k => Q[i + k] = OldestOf(rob, i + k)
        BY <1>4, <3>10
      <4>3. i <= Len(Q) - k <=> i <= Occupied(rob) - k
        BY <1>4
      <4> QED
        BY <3>8, <4>1, <4>2, <4>3
    <3> QED
      BY <3>7, <3>9, <3>11, <1>8
  <2> QED
    BY <2>1, <2>2 DEF Next
<1>11. Abstract!MayCommit(k)
  BY <1>6, <1>7 DEF Abstract!MayCommit, Abstract!Wrong
<1> QED
  BY <1>1, <1>6, <1>9, <1>10, <1>11 DEF Abstract!Clock, Abstract!Wrong

\* The reset state is the empty queue.
LEMMA InitIsInit == Init => Abstract!CQInit
<1> SUFFICES ASSUME Init PROVE Abstract!CQInit
  OBVIOUS
<1>1. Occupied(rob) = 0 /\ rob.rt_wfi = FALSE
  BY DEF Init, EmptyROB, Occupied
<1>2. QueueOf(rob) = <<>>
  BY <1>1 DEF QueueOf
<1> QED
  BY <1>1, <1>2, QueueOfRing DEF Abstract!CQInit

\* The ring implements the commit queue: instructions leave in program order and
\* only once complete, nothing leaves past a wrong prediction or a WFI, and
\* nothing is lost (ROB.sv as a whole).
THEOREM RingIsCommitQueue == Spec => CommitsInOrder
<1>1. IInv /\ IInv' /\ [Next]_vars => [Abstract!Clock]_(Abstract!cqVars)
  <2> SUFFICES ASSUME IInv, IInv', [Next]_vars PROVE [Abstract!Clock]_(Abstract!cqVars)
    OBVIOUS
  <2>1. CASE Next
    BY <2>1, EdgeIsClock
  <2>2. CASE UNCHANGED vars
    <3>1. rob' = rob
      BY <2>2 DEF vars
    <3> QED
      BY <3>1, QueueOfRing DEF Abstract!cqVars
  <2> QED
    BY <2>1, <2>2
<1> QED
  BY <1>1, InitIsInit, AlwaysIInv, PTL DEF Spec, CommitsInOrder, Abstract!CQSpec
=============================================================================
