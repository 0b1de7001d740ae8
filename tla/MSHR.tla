-------------------------------- MODULE MSHR --------------------------------
(***************************************************************************)
(* The cache controller (cache_ctrl.sv) over one set of its array: the     *)
(* miss entries (mshr_entry_ctrl.sv), the detectors and switches between   *)
(* them, and memory behind them. One step is one rising clock edge.        *)
(*                                                                         *)
(* The processor puts any request on its bus in any cycle, or none, and    *)
(* may withdraw it: the queues' arbiters choose anew each cycle. Memory    *)
(* (testbench/mem.sv) takes effect when it accepts and answers loads later *)
(* and in any order; it gives no tag twice at a time, so that a tag is     *)
(* named by the entry that holds it. It serves the other cache as well.    *)
(*                                                                         *)
(* ref and expect are the reference memory of testbench/cache_tb.sv: what  *)
(* the confirmed stores have written, and what a confirmed load must read. *)
(* spoiled observes the blocks whose misses the entries have lost track of *)
(* (NextSpoiled); the properties are about the others.                     *)
(***************************************************************************)
EXTENDS Integers, CacheSet, FiniteSetsExt

CONSTANTS
    MSHR_ENTRY_NUM,
    Blocks, NoBlock,
    Lanes,            \* the parts of a block that requests read and write
    Values, NoValue,  \* what stores write
    Zero,             \* what memory holds at first
    NoData

Idxs == 0..(MSHR_ENTRY_NUM - 1)
Entries == Idxs \ {0}    \* entry 0 is tied off (cache_ctrl.sv l.199-206)
BlockData == [Lanes -> Values \cup {Zero}]

ASSUME MSHRParameters ==
    /\ MSHR_ENTRY_NUM \in Nat \ {0, 1}
    /\ NoBlock \notin Blocks /\ NoValue \notin Values /\ Zero # NoValue
    /\ NoData \notin BlockData

MshrEntry ==
    [state : {"IDLE", "WAIT_DEPEND", "WAIT_EVICT", "RD_MEM", "WAIT_MEM", "UPDATE",
              "OUTPUT", "EVICT"},
     cmd : {"NONE", "LOAD", "STORE"}, blk : Blocks \cup {NoBlock},
     lane : Lanes \cup {NoValue},
     value : Values \cup {NoValue},       \* req_data, until the block comes
     data : BlockData \cup {NoData},      \* req_data, from then on
     evict_blk : Blocks \cup {NoBlock},   \* NoBlock: evict_dirty is 0
     evict_data : BlockData \cup {NoData},
     link_idx : Idxs, linked : BOOLEAN]

IdleEntry ==
    [state |-> "IDLE", cmd |-> "NONE", blk |-> NoBlock, lane |-> NoValue,
     value |-> NoValue, data |-> NoData, evict_blk |-> NoBlock,
     evict_data |-> NoData, link_idx |-> 0, linked |-> FALSE]

NoRequest ==
    [cmd |-> "NONE", blk |-> NoBlock, lane |-> NoValue, value |-> NoValue]

Requests ==
    {NoRequest}
    \cup [cmd : {"LOAD"}, blk : Blocks, lane : Lanes, value : {NoValue}]
    \cup [cmd : {"STORE"}, blk : Blocks, lane : Lanes, value : Values]

VARIABLES
    mshr,      \* mshr_entry of each entry
    cp_data,   \* mshr_cp_data_o; NoData when mshr_cp_flag_o is 0
    cache,     \* the set, as in CacheSet
    top,       \* top_idx of the three round-robin arbiters
    memory,    \* unified_memory
    loaded,    \* loaded_data of the entry's tag
    ref,       \* the reference memory
    expect,    \* what the load of an entry must read
    spoiled    \* observer: the blocks that the entries have lost track of

vars == <<mshr, cp_data, cache, top, memory, loaded, ref, expect, spoiled>>

Init ==
    /\ mshr = [e \in Entries |-> IdleEntry]
    /\ cp_data = [e \in Entries |-> NoData]
    /\ cache = <<>>
    /\ top = [proc |-> 0, mem |-> 0, cache_mem |-> 0]
    /\ memory = [b \in Blocks |-> [l \in Lanes |-> Zero]]
    /\ loaded = [e \in Entries |-> NoData]
    /\ ref = [b \in Blocks |-> [l \in Lanes |-> Zero]]
    /\ expect = [e \in Entries |-> NoValue]
    /\ spoiled = {}

-----------------------------------------------------------------------------
\* Detectors and switches, as functions of the request on the bus. Index 0 stands for
\* none.

Live == {e \in Entries : mshr[e].cmd # "NONE"}
In(state) == {e \in Entries : mshr[e].state = state}

CpFlag(e) == e # 0 /\ cp_data[e] # NoData

Last1(S) == IF S = {} THEN 0 ELSE Max(S)

\* mshr_hit_detector
MshrHitIdx(req) == Last1({e \in Live : mshr[e].blk = req.blk /\ ~mshr[e].linked})

\* evict_hit_detector
\* Mutant: evicted blocks are not looked for.
EvictHitIdxNone(req) == 0

EvictHitIdx(req) == Last1({e \in Live : mshr[e].evict_blk = req.blk})

\* mshr_dispatch_selector
DpIdx == IF Entries \subseteq Live THEN 0 ELSE Min(Entries \ Live)

\* Waits for the completion of an older entry: for the one that it depends on, or for
\* a write-back.
Depends(req) == MshrHitIdx(req) # 0 /\ ~CpFlag(MshrHitIdx(req))
AwaitsEvict(req) == EvictHitIdx(req) # 0 /\ ~CpFlag(EvictHitIdx(req))

\* mshr_rr_arbiter
RoundRobin(S, t) ==
    IF S = {} THEN 0
    ELSE IF \E e \in S : e >= t THEN Min({e \in S : e >= t}) ELSE Min(S)

After(g) == (g + 1) % MSHR_ENTRY_NUM

\* mshr_cache_mem_switch
CacheMemGrant(req) ==
    RoundRobin(In("UPDATE") \cup (IF req = NoRequest THEN {} ELSE {DpIdx} \ {0}),
               top.cache_mem)

\* The request is confirmed, response # 0.
Confirmed(req) ==
    /\ req # NoRequest /\ DpIdx # 0
    /\ Depends(req) \/ AwaitsEvict(req) \/ CacheMemGrant(req) = DpIdx

\* mshr_proc_switch: confirmations before answers.
ProcGrant(req) ==
    IF Confirmed(req) THEN DpIdx ELSE RoundRobin(In("OUTPUT"), top.proc)

\* mshr_memory_switch
MemoryGrant == RoundRobin(In("RD_MEM") \cup In("EVICT"), top.mem)

\* Memory's responses: to no one, to this cache, to the other one.
Responses == {"none", "ours", "other"}

-----------------------------------------------------------------------------
\* Next state of entry e, by its state.

Merged(d, r) == IF r.cmd = "STORE" THEN [d EXCEPT ![r.lane] = r.value] ELSE d

Allocated(req, state, link) ==
    [IdleEntry EXCEPT !.state = state, !.cmd = req.cmd, !.blk = req.blk,
                      !.lane = req.lane, !.value = req.value, !.link_idx = link]

NextIdle(e, req) ==
    IF ~(req # NoRequest /\ e = DpIdx /\ ProcGrant(req) = e) THEN mshr[e]
    ELSE IF Depends(req) THEN Allocated(req, "WAIT_DEPEND", MshrHitIdx(req))
    ELSE IF AwaitsEvict(req) THEN Allocated(req, "WAIT_EVICT", EvictHitIdx(req))
    ELSE IF ~Hit(cache, req.blk) /\ CacheMemGrant(req) = e
    THEN Allocated(req, "RD_MEM", 0)
    ELSE mshr[e]

Filled(e, d) == [mshr[e] EXCEPT !.state = "UPDATE", !.data = d, !.link_idx = 0]

NextWaitDepend(e) ==
    IF ~CpFlag(mshr[e].link_idx) THEN mshr[e]
    ELSE Filled(e, Merged(cp_data[mshr[e].link_idx], mshr[e]))

NextWaitEvict(e) ==
    IF ~CpFlag(mshr[e].link_idx) THEN mshr[e]
    ELSE [mshr[e] EXCEPT !.state = "RD_MEM", !.link_idx = 0]

NextRdMem(e, m) ==
    IF MemoryGrant = e /\ m = "ours" THEN [mshr[e] EXCEPT !.state = "WAIT_MEM"]
    ELSE mshr[e]

NextWaitMem(e, ans) ==
    IF ans = e THEN Filled(e, Merged(loaded[e], mshr[e])) ELSE mshr[e]

\* Every block of a full set counts as dirty (dcache_mem.sv l.182, l.229).
NextUpdate(e, req) ==
    LET evicts == Evicts(cache, mshr[e].blk)
        out == [mshr[e] EXCEPT
                  !.evict_blk = IF evicts THEN Last(cache).blk ELSE NoBlock,
                  !.evict_data = IF evicts THEN Last(cache).data ELSE NoData]
    IN  IF CacheMemGrant(req) # e THEN mshr[e]
        ELSE IF mshr[e].cmd = "LOAD" THEN [out EXCEPT !.state = "OUTPUT"]
        ELSE IF evicts THEN [out EXCEPT !.state = "EVICT"]
        ELSE IdleEntry

\* Mutant: an answered load forgets the block that it has evicted.
NextOutputDropped(e, req) == IF ProcGrant(req) # e THEN mshr[e] ELSE IdleEntry

NextOutput(e, req) ==
    IF ProcGrant(req) # e THEN mshr[e]
    ELSE IF mshr[e].evict_blk # NoBlock THEN [mshr[e] EXCEPT !.state = "EVICT"]
    ELSE IdleEntry

NextEvict(e, m) == IF MemoryGrant = e /\ m = "ours" THEN IdleEntry ELSE mshr[e]

NextByState(e, req, m, ans) ==
    CASE mshr[e].state = "IDLE" -> NextIdle(e, req)
      [] mshr[e].state = "WAIT_DEPEND" -> NextWaitDepend(e)
      [] mshr[e].state = "WAIT_EVICT" -> NextWaitEvict(e)
      [] mshr[e].state = "RD_MEM" -> NextRdMem(e, m)
      [] mshr[e].state = "WAIT_MEM" -> NextWaitMem(e, ans)
      [] mshr[e].state = "UPDATE" -> NextUpdate(e, req)
      [] mshr[e].state = "OUTPUT" -> NextOutput(e, req)
      [] mshr[e].state = "EVICT" -> NextEvict(e, m)

\* An entry is linked once a request for its block has been on the bus, confirmed or
\* not.
Linked(e, req) == mshr[e].linked \/ (req # NoRequest /\ MshrHitIdx(req) = e)

NextEntry(e, req, m, ans) ==
    LET next == NextByState(e, req, m, ans)
    IN  [next EXCEPT !.linked = next.state # "IDLE" /\ Linked(e, req)]

\* mshr_cp_flag_o and mshr_cp_data_o: for one cycle after an entry has become idle.
\* Mutant: not after a write-back.
NextCpDataEarly(e, next) ==
    IF mshr[e].state \notin {"IDLE", "EVICT"} /\ next.state = "IDLE" THEN mshr[e].data
    ELSE NoData

NextCpData(e, next) ==
    IF mshr[e].state # "IDLE" /\ next.state = "IDLE" THEN mshr[e].data ELSE NoData

\* cache_ctrl_mem_o and what the array does with it. The data of a store is merged with
\* the array's own output, in the same cycle.
NextCache(req) ==
    LET g == CacheMemGrant(req)
    IN  IF g = 0 THEN cache
        ELSE IF mshr[g].state = "UPDATE"
        THEN IF mshr[g].cmd = "LOAD" THEN LoadMiss(cache, mshr[g].blk, mshr[g].data)
             ELSE StoreMiss(cache, mshr[g].blk, mshr[g].data)
        ELSE IF req.cmd = "LOAD" \/ ~Hit(cache, req.blk) THEN Load(cache, req.blk)
        ELSE Store(cache, req.blk, Merged(DataOf(cache, req.blk), req))

\* All three pointers move past what they grant, that of memory on any response.
NextTop(req, m) ==
    [proc |-> IF ProcGrant(req) = 0 THEN top.proc ELSE After(ProcGrant(req)),
     mem |-> IF MemoryGrant = 0 \/ m = "none" THEN top.mem ELSE After(MemoryGrant),
     cache_mem |-> IF CacheMemGrant(req) = 0 THEN top.cache_mem
                   ELSE After(CacheMemGrant(req))]

-----------------------------------------------------------------------------
\* Memory. Accepted(m) is the entry whose request it accepts.
Accepted(m) == IF m = "ours" THEN MemoryGrant ELSE 0

NextMemory(m) ==
    LET a == Accepted(m)
    IN  IF a # 0 /\ mshr[a].state = "EVICT"
        THEN [memory EXCEPT ![mshr[a].evict_blk] = mshr[a].evict_data] ELSE memory

NextLoaded(m, ans) ==
    [e \in Entries |->
        IF e = Accepted(m) /\ mshr[e].state = "RD_MEM" THEN memory[mshr[e].blk]
        ELSE IF e = ans THEN NoData ELSE loaded[e]]

\* The reference memory and what is expected of the loads.
NextRef(req) ==
    IF Confirmed(req) /\ req.cmd = "STORE"
    THEN [ref EXCEPT ![req.blk] = Merged(@, req)] ELSE ref

NextExpect(e, req, next) ==
    IF next.cmd # "LOAD" THEN NoValue
    ELSE IF mshr[e].cmd = "NONE" THEN ref[req.blk][req.lane] ELSE expect[e]

\* A request that finds the table full is not confirmed, and yet it marks the miss
\* that it hits as linked: its repetition finds no miss to wait for.
LosesTheLink(req) == req # NoRequest /\ DpIdx = 0 /\ MshrHitIdx(req) # 0

\* A chained miss brings its block back while the write-back of the block, evicted
\* since, is still under way: the array and the write-back hold a copy each.
HeldTwice(set, next) ==
    {b \in Blocks : Hit(set, b) /\ \E e \in Entries : next[e].evict_blk = b}

NextSpoiled(req, set, next) ==
    spoiled \cup HeldTwice(set, next) \cup (IF LosesTheLink(req) THEN {req.blk} ELSE {})

Cycle(req, m, ans) ==
    LET next == [e \in Entries |-> NextEntry(e, req, m, ans)]
    IN  /\ m = "ours" => MemoryGrant # 0
        /\ ans # 0 => loaded[ans] # NoData
        /\ mshr' = next
        /\ cp_data' = [e \in Entries |-> NextCpData(e, next[e])]
        /\ cache' = NextCache(req)
        /\ top' = NextTop(req, m)
        /\ memory' = NextMemory(m)
        /\ loaded' = NextLoaded(m, ans)
        /\ ref' = NextRef(req)
        /\ expect' = [e \in Entries |-> NextExpect(e, req, next[e])]
        /\ spoiled' = NextSpoiled(req, NextCache(req), next)

Next == \E req \in Requests : \E m \in Responses : \E ans \in Idxs : Cycle(req, m, ans)

Spec == Init /\ [][Next]_vars
-----------------------------------------------------------------------------
TypeOK ==
    /\ mshr \in [Entries -> MshrEntry]
    /\ cp_data \in [Entries -> BlockData \cup {NoData}]
    /\ cache \in BoundedSeq([blk : Blocks, data : BlockData], SASS)
    /\ top \in [proc : Idxs, mem : Idxs, cache_mem : Idxs]
    /\ memory \in [Blocks -> BlockData]
    /\ loaded \in [Entries -> BlockData \cup {NoData}]
    /\ ref \in [Blocks -> BlockData]
    /\ expect \in [Entries -> Values \cup {Zero, NoValue}]
    /\ spoiled \subseteq Blocks

\* What the scoreboard of cache_tb.sv takes for granted (l.226): the answer of a miss
\* is what the stores confirmed before the load have written.
ScoreboardAgrees == \A e \in In("OUTPUT") : mshr[e].data[mshr[e].lane] = expect[e]

\* For a block that is not spoiled it is so, and a hit is answered with the latest
\* value too: through misses chained to misses, write-backs that later misses wait
\* for, and evictions between a fill and the next one.
ReadsLatest ==
    /\ \A e \in In("OUTPUT") :
          mshr[e].blk \notin spoiled => mshr[e].data[mshr[e].lane] = expect[e]
    /\ \A b \in Blocks \ spoiled :
          LET req == [NoRequest EXCEPT !.blk = b]
          IN  /\ DpIdx # 0 /\ Hit(cache, b)
              /\ MshrHitIdx(req) = 0 /\ EvictHitIdx(req) = 0
              => DataOf(cache, b) = ref[b]

\* When nothing of a block is in flight, its copy in the cache, or else in memory, holds
\* every store to it that was confirmed, unless the block is spoiled: the processor,
\* which has let go of them, will not write them again.
StoresSurvive ==
    \A b \in Blocks \ spoiled :
        (\A e \in Live : mshr[e].blk # b /\ mshr[e].evict_blk # b) =>
            ref[b] = IF Hit(cache, b) THEN DataOf(cache, b) ELSE memory[b]

\* An entry that waits for another one waits for a live miss of its block, or for the
\* write-back of its block, or is told in this cycle that it has ended: the one cycle
\* of a completion is never missed, and no entry is left to wait for what another
\* block has made of its index. Nor do entries wait for each other in a circle.
Waiting == In("WAIT_DEPEND") \cup In("WAIT_EVICT")

Awaited(e) ==
    LET f == mshr[mshr[e].link_idx]
    IN  IF mshr[e].state = "WAIT_DEPEND" THEN f.blk ELSE f.evict_blk

WaitsForTheLiving ==
    /\ \A e \in Waiting :
          \/ CpFlag(mshr[e].link_idx)
          \/ mshr[e].link_idx \in Live /\ Awaited(e) = mshr[e].blk
    /\ \A S \in SUBSET Waiting : S # {} => \E e \in S : mshr[e].link_idx \notin S
=============================================================================
