# A TLA+ model of an out-of-order, two-threaded RISC-V pipeline, its tools and programs

The system (`src/verilog`, `src/sys_defs.svh`) is a superscalar RISC-V processor
with out-of-order execution and two hardware threads (SMT). It fetches, dispatches,
issues, broadcasts and retires two instructions a cycle. Everything is clocked: a
*step* of every module here is one rising edge of `clk_i`, at which all registers of
the modelled part take their next values, computed from the old ones. Interleaving in
this system is not of processes but of what happens *in the same cycle*: dispatch into
an entry that retires, a broadcast of the value that is being renamed, a flush of one
thread while the other one allocates. That is where its bugs live, and what the
modules quantify over.

Beside the processor stand the tools it is looked at with (a visual debugger that is a
process of its own, `src/testbench/visual_c_hooks.cpp`, and two disassemblers) and the
C programs that it is tested with (`src/test_progs`). There a step is what the program
does between two points at which another process can see it, or one call.

## Inventory

| Component | State | Operations | Talks to | Correct when |
|---|---|---|---|---|
| Fetch, instruction queue (`IF.sv`) | per thread: PC, ring of fetched instructions with pending tags; two round-robin counters | request, hit, late answer, pop, flush | instruction cache, dispatcher, flush | every instruction of a thread leaves once, in order, with its own word; nothing of a flushed path leaves |
| Dispatcher (`DP_lsq.sv`) | none | decode, choose how many of one thread go | all tables below | never more than any table can take; tags go to the instructions that write |
| Reservation station (`RS.sv`) | entries with operand tags and ready bits | dispatch, wake up, select, squash | dispatcher, map table (through it), data bus, issue buffer, register file | nothing issues before its operands; nothing is lost or issued twice; nothing waits for ever |
| Register file (`PRF.sv`) | values | read at issue, write at broadcast | reservation station, bus | a read sees the latest write |
| Issue buffer (`IB*.sv`) | five rings, one per class of unit | push, pop, squash | reservation station, units | a FIFO with holes |
| Units, broadcaster (`FU.sv`, `BC.sv`) | one instruction per unit; arbitration mask | start, finish, squash, broadcast | issue buffer, load-store queue, everybody on the bus | one broadcast per result; no starvation |
| Free list (`FL_smt.sv`) | entries (valid, thread, tag); a counter | allocate, return at retirement, return at flush | dispatcher, reorder buffers | no tag lost or owned twice; the counter is right |
| Map table (`MT_SS.sv`) | register -> tag, ready | rename, mark ready, roll back | dispatcher, bus, architectural map | names the youngest writer; ready iff produced |
| Architectural map (`AMT.sv`) | register -> tag | commit | reorder buffer, map table | names the youngest retired writer |
| Reorder buffer (`ROB.sv`) | ring, rollover bits, WFI flag | dispatch, complete, retire, flush | all tables | commits in program order |
| Load-store queue (`LSQ*.sv`) | ring of entries with nine states, deferred-flush flag, arbiter pointer | allocate, address, depend, forward, read, wait, write, retire, flush | dispatcher, units, reorder buffer, data cache | loads see older stores; retired stores are written; wrong-path stores are not |
| Caches (`cache_ctrl.sv`, `mshr_*.sv`, `*_mem.sv`, ...) | blocks, LRU, miss entries | hit, miss, fill, evict, chain | queues, fetch, memory | a load reads what was stored before it; nobody waits for what has ended |
| Instruction tables (`ISA.svh`, `riscv_inst.h`, `pipe_print.c`, `get_opcode_str`) | none | decode, encode, print | decoder, debugger, `print_stage` | all of them mean the same |
| Visual debugger (`visual_c_hooks.cpp`, `visual_testbench.v`) | ring of snapshots, indices, flags; two pipes | snapshot, answer, step, search, run, quit | simulator, user | in step with the simulator; shows what it sent |
| Test programs (`test_progs/*.c`, `tj_malloc.h`) | arrays, lists, a heap | sort, search, walk, multiply, allocate | the processor, which runs them | the results of their definitions; a heap that loses nothing |
| Arbitration (`dcache_switch.sv`, `mem_switch.sv`, ...) | round-robin pointer of the data cache's users; the grant of the last cycle, by fixed priority, data cache first, before memory | grant | queues, caches, memory | answers go to whom they belong |
| Wiring (`pipeline_ss_smt.sv`) | `wfi_flag` | `dp_en` | all | a thread stops after its WFI |

A misprediction is resolved at retirement: in that cycle `br_mis.valid[t]` reaches
every component, each of which drops what it holds of thread `t` at the next edge (the
load-store queue possibly later, so that a *stray*, a load of the wrong path, may still
reach the data bus under its old tag, thread and `rob_idx`). `exception_i` is tied to 0 in the pipeline, and the
modules leave it out everywhere.

What is hard here: many writers of one register per cycle; incremental counters; rings
whose fullness is told by two bits; flushes that coincide with everything else;
identifiers (`rob_idx`, tags, miss tags) that are reused while old holders are still
about; arbitration without fairness by itself. `PROJECT.json` lists each place under
`hazards`.

## Plan

1. `ROBLogic`, `ROB`, with `CommitQueue` as the abstract specification: everything else
   is ordered by this ring. *Done, checked; three invariants proved.*
2. `Rename`: free list, both map tables and the reorder buffers of all threads
   together, since none of them is correct alone. *Done, checked and proved.*
3. `IBQueue` with `IssueFIFO`; `Execute`: units and data bus. *Done, checked and proved.*
4. `LSQ`: the queue, its reorder buffer and a cache that keeps order. *Done, checked and proved.*
5. `RS` with the register file's forwarding: the wake-up protocol between map table,
   station and bus, the select tree, the counters. *Done, checked and proved.*
6. `CacheWays` against `CacheSpec`: one set of the array and its order of use. *Done,
   checked and proved.* `MSHR`: the miss entries over `CacheSet`, against a reference
   memory. *Done, checked, with one expected violation.*
7. `Fetch`: the instruction queues of the threads before a cache that answers late.
   *Done, checked and proved.*
8. `Debugger`: two processes and two pipes. *Done, checked and proved.*
9. `Isa`, `Sorting`, `GraphSearch`, `Arithmetic`, `TjMalloc`, `Heap`, `PriorityQueue`, joined by
   `Programs`. *Done, checked.*
10. Proofs: the ring of the reorder buffer; that it implements `CommitQueue`; the fetch
   queues; the order of loads and stores; the ring of an issue buffer and that it implements
   `IssueFIFO`; the wait for the data bus; one victim, and that `CacheWays` implements
   `CacheSpec`; the wake-up of the station and its counters; renaming; the debugger's ring
   of snapshots and its screen. *Done.*

What could follow: five instances of `IBQueue` behind the shared issue channels, with
the classes of `RS`.

## Modules

**`ROBLogic`** holds the combinational logic of `ROB.sv` as operators on a record of
registers, so that one text serves a single buffer and one per thread. `RtSel` is
`rt_sel` (l.247-266), including the order in which its loop visits the entries;
`NextEntry` keeps the priority of l.312-362 (flush, dispatch, retire, complete). `inst`
stands for `pc`, `rd`, `tag` and `tag_old`.
**`ROB`** puts it under any dispatcher that respects `avail_num`: `Flush` is the cycle in
which a wrong prediction retires, `Advancing` any other.
**`CommitQueue`** says the same without a ring: a sequence, of which completed
instructions leave from the front.

**`Rename`** has one register per table (`fl`, `avail_num`, `amt`, `mt`, and one `rob`
per thread through `ROBLogic`) and one action, `Edge`: thread `t` dispatches a group `g`,
the units broadcast `done`, of which `taken` are wrong predictions. Names are the
code's: `DpLimit` is `dp_num`, `FlDpIdx` the priority encoder, `MtTag` and `MtReady` the
reads with their bypasses, `NextAMT` both the table and `amt_o`. The reservation station
and the load-store queue may only lower `DpLimit`, which quantifies over every smaller
group anyway. **`RenameProps`** states what must hold of it.

`strays` are results under way whose instructions have gone: a flush squashes what the units
hold, but `LSQ_global_ctrl.sv` l.217-255 puts the queue's own flush off while a store leaves,
and `LSQ_entry_ctrl.sv` l.508-522 broadcasts its loads without a look at either. A stray
completes the entry `rob_idx` of its thread, whoever is there now (`ROB.sv` l.216-221), and
marks every register ready that is mapped to its tag (`MT_SS.sv` l.106-112). `late` are the
strays that come in a cycle; `NextStrays` lets any load of a flushed thread become one, a
superset of what the queue can do. When a stray completes the instruction of another, or
makes a register ready, that thread is *struck* (`StruckBy`, an observer) until its next
flush, and the instruction's own result is a stray in its turn. What a struck thread
computes may be wrong in the code itself, so `ReadyIffProduced` and
`OperandsMissNoBroadcast` speak of the others; the tags (five of the seven invariants) stay
right in all.

**`IBQueue`** is one class of the issue buffer; `IB_ALU*.sv` is the text, the other four
are copies. **`IssueFIFO`** is its abstract specification. **`Subsequence`** has what both
need: the values of a sequence at a set of places.

**`Execute`** is occupation of the units and the bus. `wait` observes how long a result
has been held; it influences nothing.

**`LSQ`** is one thread's queue with the thread's reorder buffer. `NextLsqEntry` has one
operator per state of `LSQ_entry_ctrl.sv`; `Rollback` and `NextLSQ` are
`LSQ_global_ctrl.sv`; `ArbiterReq` and `Grant` the memory switch and its round-robin
arbiter. The data cache is a memory (`ReadMem`, `WrittenMem`, `NextCache`): `mem` takes effect in the order of
confirmations and `misses` are answered later. That is what `cache_ctrl.sv` is built for, and more
than its miss entries keep with three misses at once (finding 2); `Confirms` says what the cache may
do to a request.
`other` is a confirmation of the other thread's request, which moves this thread's arbiter
(`LSQ_memory_switch.sv` l.90-94 looks at `response` but not at `mem_enable_i`).

**`RS`** is the station of all threads and the register file. A register holds its owner's
result (`own`) or anything older (`old`), which is all that reading the right value
depends on. `RSEdge` is one cycle: `sel` issues (the select tree, from the side that the
centre of dispatch favours), thread `s` dispatches `g`, `cast` is broadcast, `freed` goes
back to the free list. The surroundings are those of `Rename` and `Execute`, cut down to
what the station sees of them: operands are tags of the thread with the map table's ready
bit and bypass, a new tag is any free one, and the broadcasts of instructions without a
destination are left out since nothing compares with their tag. `RSGroups` builds groups of at most two, the code's width. A flush returns the tags
that have not been broadcast; those that have may go back at any time. Strays come as
in `Rename`: they wake every operand of their thread and tag (`RS.sv` l.256-283), are taken by the map
table's bypass by their tag alone, and write the register (`BC.sv` l.98-104), which then holds
`stray`. `hit` are the threads in whose reorder buffers they complete an entry, `struck` those that
were hit or owned such a tag. `NoUnit` is the
class of an instruction that no unit executes (a CSR access), which keeps its entry.

**`CacheSet`** is what one set of the cache does, as operators on a sequence of blocks in
the order of use; **`CacheSpec`** makes them steps. **`CacheWays`** is the set as
`dcache_mem.sv` builds it, with ways and the triangular matrix of
`dcache_LRU_update.sv`, and implements `CacheSpec` (`Place` counts the ways used since). Every block
of a full set is evicted as dirty (l.182, l.229), so dirty bits decide nothing.

**`MSHR`** is `cache_ctrl.sv`: one operator per state of `mshr_entry_ctrl.sv`
(`NextIdle`, `NextWaitDepend`, ...), one per detector, selector and arbiter, and
`Cycle`, which joins them with a set of `CacheSet` and with the memory of
`testbench/mem.sv` (`Accepted`, `NextMemory`, `NextLoaded`). The processor puts any request on the bus each cycle and may
withdraw it, as the queues' arbiters do. A block has `Lanes`, of which a request reads or
writes one. `ref` and `expect` are the scoreboard of `testbench/cache_tb.sv`.
Nothing holds the processor's requests back. `spoiled` observes the blocks whose misses the
entries have lost track of, in one of two ways that the code itself allows: a request on a full
table takes the link of the miss it hits (`LosesTheLink`), or a block is in the array and in a
write-back at once (`HeldTwice`). The properties speak of the other blocks; the run
`mshr_scoreboard` shows what becomes of one that is spoiled.

**`Fetch`** is `IF.sv`: `NextContext` is one thread's next state, `NextBuff` its queue, with
the insert window of l.476-517 and the answers of l.420-433, which go into a slot of the
window too; `ThreadIdx` and the end of `Edge` are the two choices of a thread. The
instruction cache is what `mshr_proc_switch.sv` and `mshr_entry_ctrl.sv` drive: a
response and a tag, equal on a hit. A PC counts instructions modulo `PC_NUM`, a block
holds two, and an instruction *is* the PC it was read from, so that a wrong word shows.
`next` observes what each thread is to dispatch next. `past` is the value of `pc_en_i`
read behind its last thread (l.162).

**`Debugger`** holds the variables of the C program in one record `d`; `pc` says whether
it reads, waits for a key or has gone. `Frame` is what follows a complete snapshot
(l.885-918), `Press` the keys, `Goto`, `Visited` and `Searched` the search of l.960-1022,
and `Leave` the code behind the loop of commands. The number of an edge stands for every
value in its snapshot. `screen` observes what is shown and with what it was compared.
The simulator is `visual_testbench.v`: `Edge`, `Halt`, `WaitForResponse`. A slot that
nothing was stored in reads as anything in `Junk`.

**`Isa`** has the patterns of `ISA.svh` in the decoder's order (`Decoded`,
`SignExtended`), `inst_t` of `riscv_inst.h` (`Str`, `Op`, `Analyze`, `Forms`, `Encode`),
`print_stage` (`StageName`) and `get_opcode_str`. A word is the set of its bits.
**`Sorting`**, **`GraphSearch`** and **`Arithmetic`** are the functions of the programs,
as recursive functions over arrays with the C indices, widths (`Short`) and bounds;
**`TjMalloc`** is the allocator over a heap of words; **`Heap`** a program that asks it for
blocks of several sizes and gives them back in any order, with `used`, the blocks it holds, and
`intact`, an observer of the first cut or join; **`PriorityQueue`** the list of
`priority_queue.c` on top of it. **`Programs`** runs them: a job takes an
input and leaves a result, and the priority queue and the use of the heap go on for ever.

`MC_*.tla` give the constants their values; definitions called *mutant* are altered
copies of the operator below them, in no specification: they show that the
property named for them can fail.

## Runs

| Run | Shows | Bounds |
|---|---|---|
| `rob` | types, rollover bits, valid = between the pointers, refinement of `CommitQueue`, `HeadMoves` | 3 entries, 2 channels each way |
| `rename` | seven invariants | 2 threads, 2 renamed registers, 2 free tags, 2 entries each, 1 stray (`MaxStrays`), of thread 0, beside at most 2 instructions (`MaxBusy`), up to the first strike |
| `issue` | the queue: nothing outside the pointers, refinement of `IssueFIFO`, `OldestLeaves`; the bus: `WaitIsBounded` | 3 entries, 2 in, 2 out, 2 threads; 4 units, 1 channel, 2 threads |
| `rs` | counters, broadcasts and wake-up agree, operands are read right, somebody is ready | 2 entries, 2 threads, 2 dispatched and 2 issued a cycle, 2 operands, 2 tags, 1 stray (`MaxStrays`), no strike (`UnstruckSpec`) |
| `lsq` | queue follows reorder buffer, loads wait for stores and see program order, retired stores survive | queue 3, reorder buffer 2, at most 3 instructions in both (`MaxInFlight`), 1 word, 2 values, 1 dispatched and up to 2 retired a cycle |
| `cache_ways` | one victim, refinement of `CacheSpec` | 3 ways, 4 blocks |
| `mshr` | `ReadsLatest`, `StoresSurvive`, `WaitsForTheLiving` | 4 entries, of which the code ties one off, 1 way, 2 blocks of 1 lane, 2 values, until a block is spoiled (`NoneSpoiled`) |
| `fetch` | `StreamInOrder`, `EveryThreadIsServed` | 2 threads, queues of 2, 4 instructions in 2 blocks, 2 miss entries |
| `debugger` | `InStep`, `HistoryIsRecent`, `ShowsReceived`, `HighlightsChanges`, `QuitEnds` | ring of 3, 2 signals, 5 edges, 4 times to go to |
| `programs` | `ComputesItsReference`, `TablesAgree`, `QueueServesInOrder`, `HeapAccounts` | arrays of up to 5 numbers, all graphs of 4 vertices, some 3500 instruction words, a heap of 19 words, blocks of 3 and of 12 bytes, 4 items, until a block is cut or joined (`Intact`) |
| `lsq_sizes` | *violated*: the first finding | 3 entries each, 2 sizes |
| `mshr_scoreboard` | *violated*: the second finding | as `mshr`, without `NoneSpoiled` |

Most modules have a `TypeOK`; only `rob` spends a property on it, since in the other runs a value of
the wrong type would show in the properties that are checked.

Why the bounds are enough. Every ring here has an odd number of entries, or is wider than
a group and narrower than two, so that wraps at every offset, full and empty rings, and
retirement next to dispatch all occur. Three entries hold an older instruction, a branch
and a younger one; for the queue, two stores and a load, the least that tells the nearest
store from another one. `MaxInFlight` leaves out a queue of three entries with a
branch in flight besides. In `lsq` the cache keeps a request waiting either by itself
(`wait`) or by confirming the other thread's (`other`), which also moves the arbiter. Both are
bounded to where they matter: `wait` to a load behind two stores (`LoadBehindTwo`), `other` to a
flush that is put off. Two threads are all there are.
With two renamed registers most instructions conflict, and some do not; the WFI that
`Rename` lets the decoder yield is exercised in `rob` only. `Values` in `lsq` are
interchangeable and symmetric (`Swaps`). `rename` uses `View`: the code compares tags for
equality only, and the view keeps which places share a tag and how often the free list
holds it. It does not identify states that the invariants tell apart.

A station of two entries is filled by one group, empties in one cycle and refills in the
same; an instruction without a unit (`NoUnit`) keeps one entry while the other turns over.
Three ways are the least whose order of use is more than one bit; four blocks fill them
and bring an eviction. For the miss entries, a store writes one of two values, so
that a lost store shows unless the value was there before. Entry 0 is tied off
(`cache_ctrl.sv` l.199-206), so that four entries hold three misses: a chain of three, or an
eviction between the fills of two chained ones, and a request that finds the table full. In a set
of one block each fill evicts. `View` keeps of the data whether it agrees with the reference,
since the entries never look at it.

`rs` and `rename` follow a stray as long as it strikes nobody: it comes for a free tag, for one of
the other thread, in the cycle of the flush or of a dispatch, or not at all. What happens in the
other thread after a strike is left to the proofs, which have no such bound. In `issue` the queue
and the units share no state; `moving` lets a behaviour move one of them, so that one run
asks both. A heap of 19 words has room for three larger blocks, or six small ones, which reuse
by first fit and exact fit, exhaustion and both ends of the free list need.

Two instructions a block and two in a queue make every fetch start at either offset, wrap
the queue and be cut by a full one; two miss entries let an answer from before a flush come
back while its tag's neighbour serves the new path. A ring of three snapshots wraps twice
in five edges and has a slot that is neither the newest nor the next one to be written. The
arrays bring equal elements, sorted and reversed orders; the graphs, every distance up to
three; the words, every opcode with each function code and every bit of an immediate set
and cleared; the heap holds all but one of the items, so that `tj_malloc` must reuse
what was freed.

Fairness. `rob` assumes that the clock ticks and that each entry's result comes in
the end (`FairSpec`), which the mask of `Execute` and the finite units justify, but for
the stuck instructions listed under `hazards`. `issue` assumes that the clock ticks
and that the units of the class are ready again and again (`Served`); that a flush does
not matter to it is part of what is checked. `fetch` assumes that the clock ticks and that
the cache answers in the end what it has taken. No module justifies the latter, and the code does
not promise it: `mshr_proc_switch.sv` puts confirmations before answers, memory's arbiter puts
the data cache first, and a response to the other cache moves the pointer of
`mshr_memory_switch.sv` past an entry that waits. It holds of programs that pause, as the
load-store queue and the fetch queues do when they wait or are full. `mshr` claims no
liveness for the same reason, but that no entry waits for what will never come. `debugger` assumes only
that the simulator, a running process, takes the steps it can; the user need not do
anything.

## Findings

1. `ForwardsItsOwn` (`LSQ_entry_ctrl.sv` l.402-410). `forward_flag` may come from an older
   store than `depend_idx`: store word, store byte, load word to one address forwards the
   byte store's register to the load as a word, against the comment of l.396-405.
2. `ScoreboardAgrees` (`mshr_entry_ctrl.sv` l.335-336). A request that finds all miss entries
   taken is not confirmed, yet it marks the older miss to its block as `linked`. When it is tried
   again, the detector (`mshr_hit_detector.sv` l.44-46) passes over that miss, and the load reads
   memory beside it, while a store that was confirmed before waits in the entries. The
   scoreboard of `cache_tb.sv` (l.226-229) expects the store's value.

## Observations

What the code does beyond the bounds of the passing runs, or against nothing that the
repository states.

- Wrong-path loads. A load that lives on while the flush of its queue is put off broadcasts its
  old tag (`LSQ_entry_ctrl.sv` l.508-522). `FL_smt.sv` l.103-104 has given the tag back in the cycle
  of the flush, and when an instruction of the new path has it by then, the load's value is
  written to its register, the map table and the station take it as ready, and its readers
  compute with it; if the entry `rob_idx` is taken again, that instruction counts as complete.
  The properties of `rename` and `rs` claim nothing of a thread between such a strike and its
  next flush, in `rs` for ever.
- Wrong-path stores (`LSQ_entry_ctrl.sv` l.263-282, `LSQ_global_ctrl.sv` l.239-255). While
  the flush of the queue waits for a store to be written, the wrong path's entries live on; the
  reorder buffer starts again from entry 0, and the retirement of a new instruction with
  the same `rob_idx` is taken for theirs. A wrong-path store is then written. The flush
  must wait longer than the new path needs from its fetch to its first retirement. `lsq`
  shows only what holds while it does not (reorder buffer 2).
- Block A is evicted by a fill between the fills of two chained stores to A
  (`mshr_entry_ctrl.sv` l.137-166). The second store puts a newer A in the array while the
  older A still waits to be written back. A new request for A is sent to wait for that
  write-back, before the array is looked at, and then reads the old A from memory. Three
  requests must be outstanding; `mshr` follows the block no further (`HeldTwice`).
- Two stores of one thread to one word may be written in the wrong order. The memory
  arbiter is round-robin over entries (`LSQ_rr_arbiter.sv`), its pointer survives flushes
  and moves with loads, and when both stores have retired before the first is confirmed,
  the one at or after the pointer goes first. `lsq` shows that loads are right in spite of
  it as long as the stores are in the queue; it claims nothing of memory afterwards.
- `IF.sv` l.162 reads `pc_en_i[ thread_to_ft + 1 ]` past its end for the last thread.
- The debugger: with `history_num` 0, `'n'` compares with (0 - 1) % NUM_HISTORY, which in C
  is -1, and never goes on to the next edge; once the end has been reached, stepping forward
  shows the slot of `history_num`, which holds no snapshot or the oldest. A search
  downwards from slot 0 of a ring that has not wrapped begins in slot NUM_HISTORY - 1, where nothing
  was stored (`ShowsReceived` excepts it). Going forward to a time shows the edge
  after it; `goto_flag` outlives a `'p'` and stops the next run; `'q'` is not heard while
  running; after a run as long as the ring, highlighting compares with a slot that has
  been written again (`HighlightsChanges` excepts it).
- `tj_malloc.h` adds sizes in bytes to `Header` pointers (l.58, l.67, l.116-117), which moves
  eight bytes for each. When a block is cut, its end is looked for outside of it, or, if nothing
  is left over, the block is handed out and stays on the list. Blocks that touch are not joined, and
  a block is joined with the one that lies eight times its size behind it, over whatever is
  between: after requests for 3, 12 and 12 bytes, giving back the first and the third makes one free
  block over the second, which is in use. The comments of l.59 and l.68 say "merge if exactly
  adjacent". `Heap` follows a program up to the first cut or join. None of the programs comes that far: `priority_queue.c` and `basic_malloc.c` have blocks of one size,
  too large to be taken for neighbours, and `graph.c` has several but gives none back.
  `newNode` does not look for NULL. `bfs.c` never resets its queue, and
  `matrix_mult_rec.c` its static indices: each is right for the one call it makes.
  `mergesort.c` passes 23 as the last index of an array of 23.
- `encode()` drops the sign of a store's offset, and `select()` gives `jal` an upper
  immediate where `decode()` reads a jump's (`RoundTrip` excepts both by name).
- A cycle per lap is lost, and no correctness: the comment at
`ROB.sv` l.231-234 and `rt_window` describe a retire window that wraps, while the loop of
l.247-265 reads `rt_sel[C_ROB_ENTRY_NUM-1]` for entry 0 before it has been computed, so
that a group never crosses the end of the array. `RtSel` keeps the order of the loop, and
the proofs rely on it in one place (`RetiresAnInterval`).

## Proofs

Everything below holds for every value of the constants that satisfies the module's
`ASSUME`s, which TLC evaluates for each run's values.

**The reorder buffer.** `ROBLogic_proofs` holds the lemmas about the operators;
`ROB_proofs` the invariants, with `ROBTraffic` on top: `TypeCorrect`,
`PointersAlwaysAgree` and `NothingLostOrResurrected`. The inductive invariant `IInv` is
their conjunction. None is inductive alone: the pointers stay ordered only because no
more entries retire than lie between them, which follows from valid entries lying between
them; and those stay there only if the pointers are ordered. The argument: what retires is
an interval at the head that does not cross the end (`RetiresAnInterval`); it is no longer
than the window (`RetiresWhatItHolds`); the window then moves by what retires and what is
dispatched, in each case of a wrap at either end (`WindowMoves`); the valid bits move with
it (`ValidAfterEdge`); types are kept entry by entry (`EntryKeepsType`).
`EdgeKeepsRingWhole` joins them and speaks of any record of registers.

**Its refinement.** `RingIsCommitQueue` in `ROB_proofs`: `Spec => CommitsInOrder`, with the
mapping of `ROB.tla` (the queue is what lies between the pointers, read from the
head). The number that leaves the abstract queue is `RtNum`. `PlacesOfRing`, `PlaceMoves`,
`RetiringPlaces` and `DispatchedPlaces` say which places of the ring are which of the queue,
across the wrap; `QueueAfterEdge` what each place holds after an edge without a flush;
`RetiringMayCommit` that what retires is complete and that only its last may be a wrong
prediction or a WFI. `EdgeIsClock` joins them; `IInv` is needed throughout, since outside it
the places between the pointers need not be valid.

**Renaming.** `Rename_proofs` proves the seven safety invariants of `RenameProps` and its
types: `Typed`, `TagsAreConserved`, `InFlightEntriesMatch`, `AvailIsCounted`,
`MapsTheYoungest`, `ReadyExactly`, `FreesThePreviousTag` and `NoBroadcastIsMissed`. They rest
on one inductive invariant, because the tables are right only together:
- `Rings`: every thread's ring is whole, which `EdgeKeepsRingWhole` has shown for any record
  of registers. `AgesNow` and `AgesAfterEdge` speak of the instruction of age `a`,
  counted from the head, which an edge moves down by what retires.
- `Named`: instructions in flight have a tag exactly if they write, each its own. Without it
  a broadcast would make two registers ready.
- `Shared`: free list and committed maps hold every tag once. Retirement swaps a tag
  between them, which is sound only if what is freed *is* the committed tag;
- hence `Frees`: `tag_old` is what the next older writer of the register left, and the
  committed tag when there is none, which makes the swap the right one.
- `Held`: an entry of the free list is in flight exactly if an instruction of its thread
  has its tag. A flush, which the code does by thread and not by tag, relies on that.
- `Counted`, `Mapped`, `Readied`: the counter, the map and its ready bits. `Mapped` is what
  makes `Frees` hold of a group just dispatched; `Readied`, the only part that strays can
  disturb and that speaks of threads not struck, needs `Named`. The others hold of any set of
  entries completed and any set of tags broadcast.

An edge without a flush moves ages down and appends the group; an edge with one empties
the ring behind the branch and restores the map from `amt_o`: each conjunct has a lemma for
each, and `NextIInv` joins them thread by thread.

**Fetch.** `QueuesStayInOrder` in `Fetch_proofs`: `Spec => []StreamInOrder`. The inductive
invariant adds to it the types of the pointers and that no two answers are
confused: a slot that waits does so under a tag that the cache has for its block, and no
slot outside the queue waits for anything. Without the latter an answer could fill a slot over
the instruction that goes in. It follows the three parts of an edge: what is inserted, what is
answered, what is dispatched.

**Load-store queue.** `LSQ_proofs` builds five theorems on three layers of invariants.
- `QInv`, the queue alone: its pointers (`Ring`), its entries by state (`Shaped`), entries in
  use are those between the pointers (`Queued`), and a load that has looked at the stores before
  it knew their addresses (`Knows`). With it `LoadsNeverOvertakeStores`:
  `Spec => []LoadsWaitForStores`. `AgesMove` says what an edge does to the age of an entry,
  `OlderWasOlder` that what is older after it was so before; new entries come behind every load
  that has looked. `RetiredStoresAreWritten` (`Spec => RetiredStoresSurvive`, an action
  property) needs no more: a flush is put off as long as a retired store is there.
- `FInv`, the queue beside the reorder buffer: `QInv`, the ring of the reorder buffer whole
  (`RobWhole`, by the same `EdgeKeepsRingWhole` as renaming), `QueueFollowsROB`, completed
  entries wait to retire, and while a flush is put off the reorder buffer holds no load or
  store. With it `QueueHoldsTheROBsOps`: `Spec => []QueueFollowsROB`. The entries that retire
  are the oldest pending ones, because both queues are in program order (`HeardIsOwn`,
  `PendingMoves`), and the entries of a dispatched group go to the places behind them
  (`GroupGetsEntries`).
- `MInv` and `DInv`, memory: the answer under way to a load is still what memory holds
  (`AnswersAreStillTrue`), since a store that is being written is older than such a load and
  writes another word (`WaitingIsNotWritten`); and each byte of a value that has been read is that
  of the nearest older store which writes it (`LoadsReadInOrder`,
  `Spec => []LoadsSeeProgramOrder`).

`LoadsReadInOrder` assumes `AccessesOfAWordAgree`: the program accesses each word with one size
at one offset. Without it the theorem is false, which is the finding `ForwardsItsOwn`; the
run `lsq` has such accesses. The other four theorems assume nothing of the sizes.

**Reservation station.** `Issue_proofs` follows the path of an instruction from the station
through the issue buffer to the data bus; so the three modules keep their names apart
(`RSInit`, `BusInit`, ...). `OperandsWaitForTheirProducers` and `IssuesWithItsOperands`:
`RSSpec => []WaitsForItsProducer` and `RSSpec => []ReadsItsProducer`. The invariant adds whose
each named tag is (`EntrySound`), that a tag has one writer, which is not yet among the units
(`OneWriter`), and that a free tag is clean (`FreeIsClean`): without these a tag could be
returned, produced or woken while an entry names it for another. Strays add `NotTouched`: a
register holds a stray's value, as long as it has an owner, only in a struck thread, and what a
unit holds belongs to one that is not struck. All of it but the types and `FreeIsClean` speaks of
threads that are not struck, which is enough, since a strike reaches a thread only through
the owner of a tag or the entry hit. What the dispatcher sends is
`GroupArrives`, where it goes `DispatchedChannels`; an entry at an edge stays, is dispatched
to, or is empty (`EntriesAfterEdge`), and `EdgeKeepsOperands` has a step for each.
`ReadsItsProducer` then needs no forwarding in the read ports at all.

`CountersAreExact`: `RSSpec => []CountersCount`, for any finite set of threads. The code never
counts the entries; it adds what is sent and subtracts what leaves. `CInv` joins `CountersCount`
to the invariant above: as many entries take a group as it has instructions only if
the counters have offered no more room than there is (`RoomIsThere`, `RoomForThem`). The sum
over the threads is a fold, which `OccupiedCounts` shows to be the number of occupied
entries, by a least counterexample in place of an induction.

`SomeEntryCanIssue`: `RSSpec => []NeverAllWaiting`. `WInv` adds that a result still awaited is on
its way or will be written by a waiting entry (`HasWriter`), and that the entries can be ranked
so that writers have a lower rank than their readers (`Ranked`): a group takes ranks above all
those in the station (`EdgeKeepsRank`). The lowest entry then waits for none of the others
(`LowestIsReady`).

**Issue buffer.** `NothingOutside` in `Issue_proofs`: `Spec => []ValidIsInside`. The
invariant adds the order of the pointers. `ChannelsFromZero` and `LeavesFromTheHead` show
that what leaves are the first `pop_out_num` entries; what enters fits because readiness
counts a full group (`EdgeMovesPointers`).

`RingIsFIFO`: `Spec => ImplementsFIFO`. The abstract queue is what is picked at the places
from the head that are valid (`Places`), so the mapping skips the holes. The invariant is
the same one. `PlacesMove` says what an edge does to the places: the first `pop_out_num` are
given up, the others move up and keep what they hold unless it is squashed, the group comes
behind; `CountMoves` does the arithmetic of the rollover bits. `PopsTheFirst` says that what
the units take are the first places, all of them live, and that of the places given up
besides none is. From these facts alone, for any array, `QueueMoves` concludes that the
picked sequence loses its first elements and the squashed ones and gains the group: the order
of the places kept, moved up, lists those of the new array (`ListIsNth`).

**Data bus.** `NoUnitStarves`, in the same module: `BusSpec => []WaitIsBounded`. `BusInv`
bounds the wait of a result by the inputs the broadcaster serves before it: while the unit is in
the mask, those of a lower number in the mask; once it has been served and has left the mask,
all that are still in it and then one round of the others. Every cycle in which a result is held
serves a full bus of the inputs before it (`OneRoundLess`), and a mask is either full or has lost
a full bus.

**Cache.** `AlwaysOneVictim` in `CacheWays_proofs`: `Spec => []OneVictim`, for every number
of ways. The invariant says that the matrix is an order: some numbering of the ways
agrees with it (`Ranks`), so that exactly one row is full. An access to one way makes it the last
(`AccessKeepsOrder`); an access is to one way at most only because no block is in two
and, in a full set, because there is one victim, which is why the three must be
proved together.

`WaysAreSet`: `Spec => ImplementsSet`, from the same invariant. A way's place in the set is
the number of valid ways used since, itself among them; `PlacesNumberWays` shows that the
places of any set of ways number it without gaps. An access makes its way the youngest, so that it
takes the first place and those before it move down by one (`PlacesMove`), which is what
`Touched` does to the sequence (`ListMoves`). What is left is where the accessed way was:
at the place of the block on a hit (`HitIsAccess`), behind the last when an empty way is
filled, and at the last place, whose block goes, when none is empty (`FillIsAccess`).

**Visual debugger.** `Debugger_proofs` proves the four safety properties of the run
`debugger` and the types: `StaysInStep`, `RingIsRecent`, `ScreenShowsReceived`,
`HighlightsAreChanges` and `DebuggerTypes`. One inductive invariant carries them. While the
simulation runs, `R` snapshots have been received and `n` lines of the next one (`Going`):
- `Talking`: what the pipes hold, from the simulator's phase and `n`. Each snapshot is
  answered once, after its last line, which is `InStep`.
- `Ring`: `j` slots behind `history_num` is snapshot `R - j + 1`, or an empty slot before the
  first lap; the slot that is being filled is excepted. `HistoryIsRecent` leaves out the oldest
  slot and those never written, but the user may look at the one and search past the others.
- `Filling`: the `n` lines are where they belong, and the counter of the group of signals is at
  `n - 2`. Without it a snapshot is not known to be whole when its last line comes.
- `Screen`: what is on it is a snapshot received, with its clock (`Shows`); the slot `old` holds
  it unless the ring has gone round (`Keeps`), from which what is highlighted follows
  (`Highlights`); and while the user is asked, the slot `hist_num_temp` has been written, but
  after a search that started below slot 0 (`Looks`).

When the debugger has heard of the end, the types and the pipes are left (`Ending`): the
observations above say what the screen may then show. Steps of the user keep the ring and may only draw a slot that is
recorded (`Obeys`), which each command is shown to do (`NextEdgeObeys`, `PreviousEdgeObeys`,
`GotoObeys`, `SwitchesObey`); a line read keeps the screen until the last (`LineKeeps`).

**What stays with TLC.** Liveness (`OldestLeaves`, `QuitEnds` and the like), since the prover does not reach
fairness or ENABLED. What the recursive functions of the programs compute, whose proofs are by
induction over data, and with them `HeapAccounts`. `ReadsLatest`, `StoresSurvive` and
`WaitsForTheLiving` of `MSHR`, of which the first two hold only of blocks that are not spoiled.

## Not modelled

- In the processor: what the units compute and the control signals of the decoder; addresses
  beyond equality of words and byte lanes; sign extension of loads; `exception_i` and
  `br_predict`, which are constants; several sets of a cache, which share only the miss entries;
  requests of more than one lane; the composition of the five issue queues; the two
  memory multiplexers as modules of their own (their users quantify over whose turn it is).
- Of the tools: the text and layout of what is printed. The debugger's windows are which
  snapshot they show.
- Of the programs: straight-line numeric code (`alexnet.c`, `fc_forward.c`,
  `outer_product.c`), `backtrack.c`, `basic_malloc.c`, `omegalul.c` and the assembly
  programs, which have no state that a property could be about beyond their one result.
- Test benches other than the memory of `mem.sv` and the scoreboard of `cache_tb.sv`, which `MSHR`
  has; build and synthesis scripts.
