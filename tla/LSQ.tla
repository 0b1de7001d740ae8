-------------------------------- MODULE LSQ --------------------------------
(***************************************************************************)
(* The load-store queue of one thread (LSQ.sv, LSQ_entry_ctrl.sv,          *)
(* LSQ_global_ctrl.sv, LSQ_memory_switch.sv, LSQ_rr_arbiter.sv) beside the *)
(* thread's reorder buffer (ROBLogic) and in front of the data cache. One  *)
(* step is one rising clock edge.                                          *)
(*                                                                         *)
(* The cache is a memory: it takes effect in the order in which it         *)
(* confirms requests (response), answers a load at once (a hit) or later   *)
(* by its tag (a miss), and may keep a request waiting. A register or a    *)
(* word of memory is a function of the byte lanes.                         *)
(***************************************************************************)
EXTENDS ROBLogic

CONSTANTS
    LSQ_ENTRY_NUM,
    Words,      \* the aligned words of memory
    LANES,      \* bytes per word
    Accesses,   \* the addresses and sizes used: records [word, off, size]
    Values,     \* what a store may write; memory holds Zero at first
    Zero,
    MemTags,    \* the cache's miss entries
    Confirms,   \* what the cache may do to a request: "hit", "miss",
                \* "wait", or "other" (it confirms the other thread's)
    MaxInFlight,   \* bound: entries of the queue and other instructions
    Kinds       \* the instructions dispatched: "LOAD", "STORE", "OTHER"

Lanes == 0..(LANES - 1)
LEntries == 0..(LSQ_ENTRY_NUM - 1)
NoAccess == [word |-> 0, off |-> 0, size |-> 0]

ASSUME LSQParameters ==
    /\ LSQ_ENTRY_NUM \in Nat \ {0}
    /\ DP_NUM <= LSQ_ENTRY_NUM
    /\ \A a \in Accesses : /\ a.word \in Words
                           /\ a.off \in Nat /\ a.size \in Nat /\ a.off + a.size <= LANES
    /\ MemTags \subseteq Nat \ {0}
    /\ MaxInFlight \in Nat
    /\ Kinds \subseteq {"LOAD", "STORE", "OTHER"}

VARIABLES
    rob,            \* the reorder buffer; an instruction is its kind
    head, tail, head_rollover, tail_rollover,
    lsq_array,
    rollback_flag,  \* a flush waits for a store to be written
    top_idx,        \* the memory arbiter's round-robin pointer
    mem,            \* the cache's contents
    misses          \* the cache's misses: tag -> data

lsqVars == <<head, tail, head_rollover, tail_rollover, lsq_array, rollback_flag,
             top_idx>>
vars == <<rob, lsqVars, mem, misses>>

IdleEntry ==
    [state |-> "IDLE", cmd |-> "NONE", rob_idx |-> 0, acc |-> NoAccess,
     addr_valid |-> FALSE, data |-> <<>>, retire |-> FALSE, mem_tag |-> 0]

Init ==
    /\ rob = EmptyROB
    /\ head = 0 /\ tail = 0
    /\ head_rollover = FALSE /\ tail_rollover = FALSE
    /\ lsq_array = [i \in LEntries |-> IdleEntry]
    /\ rollback_flag = FALSE
    /\ top_idx = 0
    /\ mem = [w \in Words |-> [l \in Lanes |-> Zero]]
    /\ misses = <<>>

-----------------------------------------------------------------------------
\* The ring.

LAdvance(p, n) ==
    IF p + n >= LSQ_ENTRY_NUM THEN p + n - LSQ_ENTRY_NUM ELSE p + n

LWraps(p, n) == p + n >= LSQ_ENTRY_NUM

\* The place of entry i in the queue, from 0, the oldest.
Age(i) == IF i >= head THEN i - head ELSE i + LSQ_ENTRY_NUM - head

LOccupied ==
    IF head_rollover = tail_rollover THEN tail - head
    ELSE LSQ_ENTRY_NUM - (head - tail)

\* rt_sel: the oldest entries, as far as they have retired.
LRtSel ==
    {i \in LEntries :
        /\ Age(i) < LOccupied
        /\ \A j \in LEntries : Age(j) <= Age(i) => lsq_array[j].retire}

LRtNum == Cardinality(LRtSel)

\* lsq_dp_o.avail_num
LAvail ==
    IF rollback_flag \/ BrMisValid(rob) THEN 0
    ELSE LET n == LSQ_ENTRY_NUM - LOccupied + LRtNum
         IN  IF n > DP_NUM THEN DP_NUM ELSE n

-----------------------------------------------------------------------------
\* Dependences between a load and the stores before it.

Older(i) == {j \in LEntries : Age(j) < Age(i)}

\* store_check
StoreCheck(j) ==
    \/ lsq_array[j].cmd = "STORE" /\ lsq_array[j].addr_valid
    \/ lsq_array[j].cmd = "LOAD"

OlderStoreKnown(i) == \A j \in Older(i) : StoreCheck(j)

\* The older stores that are known to write the word that entry i reads.
Dependences(i) ==
    {j \in Older(i) :
        /\ lsq_array[j].cmd = "STORE" /\ lsq_array[j].addr_valid
        /\ lsq_array[j].acc.word = lsq_array[i].acc.word}

\* A mutant of DependIdx: the farthest of them.
DependIdxFirst(i) ==
    CHOOSE j \in Dependences(i) : \A k \in Dependences(i) : Age(k) >= Age(j)

\* depend_idx: the nearest of them.
DependIdx(i) ==
    CHOOSE j \in Dependences(i) : \A k \in Dependences(i) : Age(k) <= Age(j)

\* forward_flag: one of them, not always the nearest, has the load's address and
\* size.
ForwardFlag(i) == \E j \in Dependences(i) : lsq_array[j].acc = lsq_array[i].acc

\* The low bytes of a register, as many as the access has.
LowBytes(data, a) == [k \in 0..(a.size - 1) |-> data[k]]

-----------------------------------------------------------------------------
\* The memory switch.

Requests(state) == {i \in LEntries : lsq_array[i].state = state}

\* Stores go before loads.
ArbiterReq ==
    IF Requests("WR_MEM") # {} THEN Requests("WR_MEM") ELSE Requests("RD_MEM")

\* The first request at or after top_idx.
Rank(i) == IF i >= top_idx THEN i - top_idx ELSE i + LSQ_ENTRY_NUM - top_idx
Grant == CHOOSE i \in ArbiterReq : \A j \in ArbiterReq : Rank(i) <= Rank(j)

ReadMem(a) == [k \in 0..(a.size - 1) |-> mem[a.word][a.off + k]]

WrittenMem(e) ==
    [mem EXCEPT ![e.acc.word] =
        [l \in Lanes |-> IF l \in e.acc.off..(e.acc.off + e.acc.size - 1)
                         THEN e.data[l - e.acc.off] ELSE mem[e.acc.word][l]]]

-----------------------------------------------------------------------------
\* One entry's next state. The inputs of a cycle, in:
\*   n, dp       the dispatched loads and stores: records [cmd, rob_idx]
\*   fu          what the load and store units send: entry -> [acc, data]
\*   cp          the entries whose result is broadcast
\*   confirm     what the cache does to the granted request
\*   tag         the miss that the cache answers, or 0

\* rob_retire_o
RobRetire(i) ==
    lsq_array[i].state = "ROB_RETIRE" /\ lsq_array[i].rob_idx \in RtSel(rob)

Granted(i, in) ==
    ArbiterReq # {} /\ i = Grant /\ in.confirm \in {"hit", "miss"}

LDpSel(n) == {LAdvance(tail, k) : k \in 0..(n - 1)}

Allocated(i, in) ==
    LET k == IF i < tail THEN i + LSQ_ENTRY_NUM - tail ELSE i - tail
    IN  [IdleEntry EXCEPT !.state = "ADDR", !.cmd = in.dp[k].cmd,
                          !.rob_idx = in.dp[k].rob_idx]

NextIdle(i, in) == IF i \in LDpSel(in.n) THEN Allocated(i, in) ELSE lsq_array[i]

\* A load looks at the older stores in the cycle after its address came.
NextAddr(i, in) ==
    LET e == lsq_array[i]
        sent == IF i \in DOMAIN in.fu
                THEN [e EXCEPT !.addr_valid = TRUE, !.acc = in.fu[i].acc]
                ELSE e
    IN  IF e.cmd = "LOAD" THEN
            IF ~e.addr_valid THEN sent
            ELSE IF OlderStoreKnown(i) /\ Dependences(i) = {}
            THEN [sent EXCEPT !.state = "RD_MEM"]
            ELSE [sent EXCEPT !.state = "DEPEND"]
        ELSE IF i \in DOMAIN in.fu
        THEN [sent EXCEPT !.state = "ROB_RETIRE", !.data = in.fu[i].data]
        ELSE e

\* A mutant of NextDepend: older_store_known is not checked.
NextDependUnknown(i) ==
    LET e == lsq_array[i] IN
    IF Dependences(i) = {} THEN [e EXCEPT !.state = "RD_MEM"]
    ELSE IF ForwardFlag(i)
    THEN [e EXCEPT !.state = "LOAD_CP",
                   !.data = LowBytes(lsq_array[DependIdx(i)].data, e.acc)]
    ELSE e

NextDepend(i) ==
    LET e == lsq_array[i] IN
    IF ~OlderStoreKnown(i) THEN e
    ELSE IF Dependences(i) = {} THEN [e EXCEPT !.state = "RD_MEM"]
    ELSE IF ForwardFlag(i)
    THEN [e EXCEPT !.state = "LOAD_CP",
                   !.data = LowBytes(lsq_array[DependIdx(i)].data, e.acc)]
    ELSE e

NextRdMem(i, in) ==
    LET e == lsq_array[i] IN
    IF ~Granted(i, in) THEN e
    ELSE IF in.confirm = "hit"
    THEN [e EXCEPT !.state = "LOAD_CP", !.data = ReadMem(e.acc)]
    ELSE [e EXCEPT !.state = "WAIT_MEM", !.mem_tag = in.response]

NextWaitMem(i, in) ==
    IF in.tag = lsq_array[i].mem_tag
    THEN [lsq_array[i] EXCEPT !.state = "LOAD_CP", !.data = misses[in.tag]]
    ELSE lsq_array[i]

NextLoadCp(i, in) ==
    IF i \in in.cp THEN [lsq_array[i] EXCEPT !.state = "ROB_RETIRE"]
    ELSE lsq_array[i]

NextRobRetire(i) ==
    IF ~RobRetire(i) THEN lsq_array[i]
    ELSE IF lsq_array[i].cmd = "LOAD"
    THEN [lsq_array[i] EXCEPT !.state = "RETIRE", !.retire = TRUE]
    ELSE [lsq_array[i] EXCEPT !.state = "WR_MEM"]

NextWrMem(i, in) ==
    IF Granted(i, in)
    THEN [lsq_array[i] EXCEPT !.state = "RETIRE", !.retire = TRUE]
    ELSE lsq_array[i]

NextRetire(i, in) ==
    IF i \notin LRtSel THEN lsq_array[i]
    ELSE IF i \in LDpSel(in.n) THEN Allocated(i, in)
    ELSE IdleEntry

NextLsqEntry(i, in) ==
    CASE lsq_array[i].state = "IDLE"       -> NextIdle(i, in)
      [] lsq_array[i].state = "ADDR"       -> NextAddr(i, in)
      [] lsq_array[i].state = "DEPEND"     -> NextDepend(i)
      [] lsq_array[i].state = "RD_MEM"     -> NextRdMem(i, in)
      [] lsq_array[i].state = "WAIT_MEM"   -> NextWaitMem(i, in)
      [] lsq_array[i].state = "LOAD_CP"    -> NextLoadCp(i, in)
      [] lsq_array[i].state = "ROB_RETIRE" -> NextRobRetire(i)
      [] lsq_array[i].state = "WR_MEM"     -> NextWrMem(i, in)
      [] lsq_array[i].state = "RETIRE"     -> NextRetire(i, in)

-----------------------------------------------------------------------------
\* A store that has retired must reach the cache before a flush clears the queue.
StoreRetiring ==
    \E i \in LEntries :
        \/ lsq_array[i].state = "WR_MEM"
        \/ RobRetire(i) /\ lsq_array[i].cmd = "STORE"

\* A mutant of Rollback: it does not wait for the stores.
RollbackAtOnce == BrMisValid(rob) \/ rollback_flag

\* A mutant of Rollback: the flush that was put off is forgotten.
RollbackForgotten == BrMisValid(rob) /\ ~StoreRetiring

Rollback == (BrMisValid(rob) \/ rollback_flag) /\ ~StoreRetiring

NextLSQ(in) ==
    /\ IF Rollback
       THEN /\ lsq_array' = [i \in LEntries |-> IdleEntry]
            /\ head' = 0 /\ tail' = 0
            /\ head_rollover' = FALSE /\ tail_rollover' = FALSE
       ELSE LET out == LRtNum IN
            /\ lsq_array' = [i \in LEntries |-> NextLsqEntry(i, in)]
            /\ head' = LAdvance(head, out)
            /\ tail' = LAdvance(tail, in.n)
            /\ head_rollover' = (head_rollover # LWraps(head, out))
            /\ tail_rollover' = (tail_rollover # LWraps(tail, in.n))
    /\ rollback_flag' = ((BrMisValid(rob) \/ rollback_flag) /\ StoreRetiring)
    /\ top_idx' = IF ArbiterReq # {} /\ in.confirm # "wait"
                  THEN LAdvance(Grant, 1) ELSE top_idx

\* The cache's own step. It holds the data of a miss as of its confirmation.
NextCache(in) ==
    LET e == lsq_array[Grant]
        confirmed == ArbiterReq # {} /\ in.confirm \in {"hit", "miss"}
        missed == confirmed /\ e.cmd = "LOAD" /\ in.confirm = "miss"
    IN  /\ mem' = IF confirmed /\ e.cmd = "STORE" THEN WrittenMem(e) ELSE mem
        /\ misses' = [t \in (DOMAIN misses \ {in.tag})
                               \cup (IF missed THEN {in.response} ELSE {}) |->
                        IF t \in DOMAIN misses THEN misses[t]
                        ELSE ReadMem(e.acc)]

-----------------------------------------------------------------------------
\* The rest of the thread.

\* The kinds of the instructions that may be dispatched together: none in the
\* cycle of a flush, and no more than MaxInFlight with what is about.
Groups ==
    LET avail == IF BrMisValid(rob) THEN 0 ELSE DpAvail(rob)
        lsq_avail == LAvail
        others == {i \in Entries : rob.array[i].valid /\ rob.array[i].inst = "OTHER"}
        bound == MaxInFlight - (LOccupied - LRtNum) - Cardinality(others)
    IN  {g \in UNION {[0..(n - 1) -> Kinds] : n \in 0..avail} :
            /\ Cardinality({k \in DOMAIN g : g[k] # "OTHER"}) <= lsq_avail
            /\ g = <<>> \/ Cardinality(DOMAIN g) <= bound}

\* The loads and stores of a group, in their order.
MemOps(g) ==
    LET before(k) == Cardinality({j \in DOMAIN g : j < k /\ g[j] # "OTHER"})
        ops == {k \in DOMAIN g : g[k] # "OTHER"}
        at(m) == CHOOSE k \in ops : before(k) = m
    IN  [m \in 0..(Cardinality(ops) - 1) |->
           [cmd |-> g[at(m)], rob_idx |-> Advance(rob.tail, at(m))]]

\* The entries that wait for their address: those of a flushed path wait in vain,
\* since the units, the issue buffer and the reservation station drop theirs.
Waiting(cmd) ==
    {i \in LEntries :
        /\ lsq_array[i].state = "ADDR" /\ lsq_array[i].cmd = cmd
        /\ ~lsq_array[i].addr_valid
        /\ ~rollback_flag /\ ~BrMisValid(rob)}

\* The stores whose result the store unit holds until it is broadcast.
StoreUnit ==
    {i \in LEntries :
        /\ lsq_array[i].cmd = "STORE" /\ lsq_array[i].state = "ROB_RETIRE"
        /\ ~rob.array[lsq_array[i].rob_idx].complete
        /\ ~rollback_flag /\ ~BrMisValid(rob)}

\* What the load unit and the store unit send to the queue in a cycle.
Sends(entries, datas) ==
    {<<>>} \cup UNION {[{i} -> [acc : Accesses, data : datas]] : i \in entries}

LoadUnitSends == Sends(Waiting("LOAD"), {<<>>})
StoreUnitSends ==
    Sends(IF StoreUnit = {} THEN Waiting("STORE") ELSE {},
          {[l \in Lanes |-> v] : v \in Values})

\* The other instructions in flight.
OthersInFlight ==
    {i \in Entries :
        /\ rob.array[i].valid /\ ~rob.array[i].complete
        /\ rob.array[i].inst = "OTHER"
        /\ ~BrMisValid(rob)}

\* A load that is still to look at the stores, behind a store, behind a retired one.
LoadBehindTwo ==
    \E i \in Requests("WR_MEM"), k \in Requests("ADDR") \cup Requests("DEPEND") :
        /\ lsq_array[k].cmd = "LOAD"
        /\ \E j \in Older(k) : i \in Older(j) /\ lsq_array[j].cmd = "STORE"

\* The cache confirms a request or answers a miss, not both (mshr_proc_switch). Bounds
\* of the model: it keeps a request waiting, or prefers the other thread's, only if
\* "wait" or "other" is allowed, the one in front of a LoadBehindTwo, the other while
\* a flush is put off, where the wait matters most.
CacheMoves ==
    {c \in [confirm : Confirms \cup {"wait"}, tag : DOMAIN misses \cup {0},
            response : MemTags] :
        /\ c.confirm # "wait" => c.tag = 0 /\ ArbiterReq # {}
        /\ c.confirm = "other" => rollback_flag
        /\ c.confirm = "wait" => ArbiterReq = {} \/ ("wait" \in Confirms /\ LoadBehindTwo)
        /\ IF c.confirm = "miss"
           THEN c.response \notin DOMAIN misses /\ lsq_array[Grant].cmd = "LOAD"
           ELSE c.response = CHOOSE t \in MemTags : TRUE}

\* One edge: the group g is dispatched, the units send ld and st, the results of
\* the loads in cp, of the stores in stored and of the other instructions in done
\* are broadcast, those in taken as mispredicted branches; the cache does c.
Next ==
    \E g \in Groups, c \in CacheMoves, ld \in LoadUnitSends, st \in StoreUnitSends,
       cp \in {{}} \cup {{i} : i \in Requests("LOAD_CP")} :
    \E stored \in {{}} \cup {{i} : i \in StoreUnit \cup DOMAIN st} :
    \E done \in SUBSET OthersInFlight : \E taken \in SUBSET done :
        LET ops == MemOps(g)
            in == [n |-> Cardinality(DOMAIN ops), dp |-> ops,
                   fu |-> [i \in DOMAIN ld \cup DOMAIN st |->
                             IF i \in DOMAIN ld THEN ld[i] ELSE st[i]],
                   cp |-> cp,
                   confirm |-> c.confirm, tag |-> c.tag, response |-> c.response]
            results == done \cup {lsq_array[i].rob_idx : i \in cp \cup stored}
        IN  /\ rob' = NextROB(rob, Cardinality(DOMAIN g),
                     [k \in DOMAIN g |-> [inst |-> g[k], br_predict |-> FALSE,
                                          wfi |-> FALSE]],
                     [r \in results |-> [br_result |-> r \in taken,
                                         br_target |-> NoTarget]])
            /\ NextLSQ(in)
            /\ NextCache(in)

Spec == Init /\ [][Next]_vars
-----------------------------------------------------------------------------
States == {"IDLE", "ADDR", "DEPEND", "RD_MEM", "WAIT_MEM", "LOAD_CP",
           "ROB_RETIRE", "WR_MEM", "RETIRE"}

TypeOK ==
    /\ rob \in ROBOf({"LOAD", "STORE", "OTHER"}, {})
    /\ head \in LEntries /\ tail \in LEntries
    /\ head_rollover \in BOOLEAN /\ tail_rollover \in BOOLEAN
    /\ \A i \in LEntries :
          /\ DOMAIN lsq_array[i] = DOMAIN IdleEntry
          /\ lsq_array[i].state \in States
          /\ lsq_array[i].cmd \in {"NONE", "LOAD", "STORE"}
          /\ lsq_array[i].rob_idx \in Entries
          /\ lsq_array[i].acc \in Accesses \cup {NoAccess}
          /\ lsq_array[i].addr_valid \in BOOLEAN /\ lsq_array[i].retire \in BOOLEAN
          /\ lsq_array[i].mem_tag \in MemTags \cup {0}
    /\ LOccupied \in 0..LSQ_ENTRY_NUM
    /\ rollback_flag \in BOOLEAN
    /\ top_idx \in LEntries
    /\ mem \in [Words -> [Lanes -> Values \cup {Zero}]]
    /\ DOMAIN misses \subseteq MemTags

InQueue == {i \in LEntries : Age(i) < LOccupied}

\* The entries whose instruction the reorder buffer has not retired.
Pending == {i \in InQueue : lsq_array[i].state \notin {"WR_MEM", "RETIRE"}}

\* The loads and stores of the reorder buffer, and the place of one in it.
RobOps == {i \in Entries : rob.array[i].valid /\ rob.array[i].inst # "OTHER"}
RobAge(i) == IF i >= rob.head THEN i - rob.head ELSE i + ROB_ENTRY_NUM - rob.head

\* Unless a flush is being put off, the queue holds some instructions that have
\* retired, and then exactly the loads and stores of the reorder buffer, in program
\* order and each with its own rob_idx (LSQ_global_ctrl.sv l.69-245).
QueueFollowsROB ==
    ~rollback_flag =>
        /\ \A i \in Pending, j \in InQueue : Age(i) < Age(j) => j \in Pending
        /\ {lsq_array[i].rob_idx : i \in Pending} = RobOps
        /\ \A i \in Pending : /\ lsq_array[i].state # "IDLE"
                              /\ lsq_array[i].cmd = rob.array[lsq_array[i].rob_idx].inst
        /\ \A i, j \in Pending :
              Age(i) < Age(j) => RobAge(lsq_array[i].rob_idx) < RobAge(lsq_array[j].rob_idx)

\* A load that reads memory, or has, is not overtaking any store: every older store
\* in the queue has its address, and none that writes the same word is still to be
\* written (LSQ_entry_ctrl.sv l.135-199, l.377-482).
LoadsWaitForStores ==
    \A i \in LEntries :
        lsq_array[i].state \in {"RD_MEM", "WAIT_MEM"} =>
            /\ OlderStoreKnown(i)
            /\ Dependences(i) = {}

\* The older stores of the queue that write byte k of access a.
Writers(i, a, k) ==
    {j \in Older(i) :
        LET s == lsq_array[j]
        IN  /\ s.cmd = "STORE" /\ s.addr_valid /\ s.acc.word = a.word
            /\ a.off + k \in s.acc.off..(s.acc.off + s.acc.size - 1)}

\* Each byte of a load's value that older stores of the queue write is the one that
\* the nearest of them writes, and what the cache will answer a load is what the
\* memory still holds: no store overtook it (LSQ_entry_ctrl.sv l.122-261, 377-482).
LoadsSeeProgramOrder ==
    ~rollback_flag =>
        \A i \in LEntries :
            LET e == lsq_array[i]
                nearest(k) == CHOOSE j \in Writers(i, e.acc, k) :
                                  \A m \in Writers(i, e.acc, k) : Age(m) <= Age(j)
                byte(k) == LET s == lsq_array[nearest(k)]
                           IN  s.data[e.acc.off + k - s.acc.off]
            IN  /\ e.cmd = "LOAD" /\ e.state \in {"LOAD_CP", "ROB_RETIRE"} =>
                       \A k \in DOMAIN e.data :
                           Writers(i, e.acc, k) # {} => e.data[k] = byte(k)
                /\ e.state = "WAIT_MEM" => misses[e.mem_tag] = ReadMem(e.acc)

\* A store that the reorder buffer has retired is not lost to a flush: it stays
\* until the cache has confirmed it (LSQ_global_ctrl.sv l.226-255).
RetiredStoresSurvive ==
    [][\A i \in LEntries :
          \/ lsq_array[i].state = "WR_MEM"
          \/ RobRetire(i) /\ lsq_array[i].cmd = "STORE"
          => lsq_array'[i].state \in {"WR_MEM", "RETIRE"}]_vars

\* A load that is to be forwarded gets the data of a store with its address and
\* size (LSQ_entry_ctrl.sv l.173-176, l.403-410). Not so with mixed sizes: see the
\* README.
ForwardsItsOwn ==
    \A i \in LEntries :
        lsq_array[i].state = "DEPEND" /\ OlderStoreKnown(i) /\ ForwardFlag(i)
            => lsq_array[DependIdx(i)].acc = lsq_array[i].acc
=============================================================================
