-------------------------------- MODULE Heap --------------------------------
(***************************************************************************)
(* A program that uses the allocator of test_progs/tj_malloc.h, with blocks*)
(* of several sizes, and what it may count on.                             *)
(***************************************************************************)
EXTENDS TjMalloc, Sequences, FiniteSets, Functions

CONSTANT Sizes   \* what the program asks for, in bytes

VARIABLES heap,
          used,    \* observes the blocks in use: how many bytes were asked for
          intact   \* observes that no block has been cut and no two joined

heapVars == <<heap, used, intact>>

HeapInit ==
  /\ heap = InitialHeap
  /\ used = [b \in {} |-> 0]
  /\ intact = TRUE

\* No block has another size than before.
SameBlocks(h, h2) == \A b \in DOMAIN h.size : h2.size[b] = h.size[b]

\* What tj_malloc has returned is in use now; NULL is nothing.
Obtain(got, bytes) ==
  LET b == Plus(got.mem, -1) IN
  /\ heap' = got.heap
  /\ used' = IF got.mem = Null THEN used
             ELSE [a \in DOMAIN used \cup {b} |-> IF a = b THEN bytes ELSE used[a]]
  /\ intact' = (intact /\ SameBlocks(heap, got.heap))

Release(mem) ==
  LET freed == Free(heap, mem) IN
  /\ heap' = freed
  /\ used' = Restrict(used, DOMAIN used \ {Plus(mem, -1)})
  /\ intact' = (intact /\ SameBlocks(heap, freed))

HeapNext ==
  \/ \E bytes \in Sizes : Obtain(Malloc(heap, bytes), bytes)
  \/ \E b \in DOMAIN used : Release(Plus(b, 1))
-----------------------------------------------------------------------------
\* The words of a block, its header included.
Extent(b) == b..b + HeaderWords + heap.size[b] \div WordBytes - 1

\* As long as no block has been cut or joined, every word that was taken from the heap
\* belongs to one block, which is in use, with room for what was asked for, or on the
\* free list, and not both; the list stays a cycle in the order of the addresses
\* (tj_malloc.h l.42-130).
HeapAccounts ==
  intact =>
    LET free == FreeList(heap)
        blocks == Range(free) \cup DOMAIN used
    IN  /\ Range(free) \cap DOMAIN used = {}
        /\ UNION {Extent(b) : b \in blocks} = 0..heap.next_index - 1
        /\ \A b, c \in blocks : b # c => Extent(b) \cap Extent(c) = {}
        /\ \A b \in DOMAIN used : heap.size[b] >= used[b]
        /\ \A i \in 1..Len(free) - 1 : free[i] < free[i + 1]
        /\ heap.next_index <= HEAP_SIZE
        /\ heap.avail_mem = (HEAP_SIZE - heap.next_index) * WordBytes
=============================================================================
