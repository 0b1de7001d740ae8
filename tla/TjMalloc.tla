------------------------------ MODULE TjMalloc ------------------------------
(***************************************************************************)
(* The allocator of test_progs/tj_malloc.h.  An address is the number of a *)
(* word; a header is two words, the size in it counts bytes, and "p + k"   *)
(* on a header's address moves k headers.  Headers are kept by address,    *)
(* whether the block is free or not, as in memory.                         *)
(***************************************************************************)
EXTENDS Integers

CONSTANTS HEAP_SIZE,   \* words
          Base         \* the address of base, outside the heap and far from it

HeaderWords == 2
WordBytes == 4

Null == -1

\* base has no neighbours and freep is NULL until the first call.
InitialHeap ==
  [next_index |-> 0, avail_mem |-> HEAP_SIZE * WordBytes, freep |-> Null,
   next |-> [a \in {Base} |-> Base], size |-> [a \in {Base} |-> 0]]

\* p + n of a Header pointer
Plus(p, n) == p + n * HeaderWords

SetHeader(h, p, next, size) ==
  [h EXCEPT !.next = [a \in DOMAIN @ \cup {p} |-> IF a = p THEN next ELSE @[a]],
            !.size = [a \in DOMAIN @ \cup {p} |-> IF a = p THEN size ELSE @[a]]]

\* The place of bp in the free list: between two blocks, or at either end.
RECURSIVE Before(_, _, _)
Before(h, p, bp) ==
  LET next == h.next[p] IN
  IF \/ bp > p /\ bp < next
     \/ p >= next /\ (bp > p \/ bp < next)
  THEN p
  ELSE Before(h, next, bp)

\* mutant: the block goes behind the first one of the list
FreeAtFront(h, mem) ==
  LET bp == Plus(mem, -1) IN
  SetHeader(SetHeader(h, bp, h.next[h.freep], h.size[bp]),
            h.freep, bp, h.size[h.freep])

\* tj_free: insert, and join with either neighbour if they touch.
Free(h, mem) ==
  LET bp == Plus(mem, -1)
      p  == Before(h, h.freep, bp)
      n  == h.next[p]
      joinsUpper == Plus(bp, h.size[bp]) = n
      joinsLower == Plus(p, h.size[p]) = bp
      up  == IF joinsUpper
             THEN SetHeader(h, bp, h.next[n], h.size[bp] + h.size[n])
             ELSE SetHeader(h, bp, n, h.size[bp])
      low == IF joinsLower
             THEN SetHeader(up, p, up.next[bp], up.size[p] + up.size[bp])
             ELSE SetHeader(up, p, bp, up.size[p])
  IN  [low EXCEPT !.freep = p]

\* getmoremem: a new block at the end of what is in use, freed at once.
MoreMem(h, total_size) ==
  LET up == h.next_index
      h1 == [h EXCEPT !.next_index = @ + total_size \div WordBytes,
                      !.avail_mem = @ - total_size]
  IN  Free(SetHeader(h1, up, Null, total_size - HeaderWords * WordBytes),
           Plus(up, 1))

\* The block at p, behind prevp, is big enough: take it or its end.  "p += p->size"
\* moves that many headers, eight times the bytes (and the size is unsigned: a rest
\* below zero is a large one).
Take(h, prevp, p, size) ==
  LET rest == h.size[p] - (size + HeaderWords * WordBytes)
      cut  == SetHeader(h, p, h.next[p], rest)
      q    == Plus(p, rest)
  IN  IF h.size[p] = size
      THEN [mem |-> Plus(p, 1),
            heap |-> [SetHeader(h, prevp, h.next[p], h.size[prevp])
                        EXCEPT !.freep = prevp]]
      ELSE [mem |-> Plus(q, 1),
            heap |-> [SetHeader(cut, q, Null, size) EXCEPT !.freep = prevp]]

RECURSIVE Scan(_, _, _, _)
Scan(h, prevp, p, size) ==
  LET total_size == size + HeaderWords * WordBytes IN
  IF h.size[p] >= size THEN Take(h, prevp, p, size)
  ELSE IF p # h.freep THEN Scan(h, p, h.next[p], size)
  ELSE IF h.avail_mem < total_size THEN [mem |-> Null, heap |-> h]
  ELSE LET more == MoreMem(h, total_size)
       IN  Scan(more, more.freep, more.next[more.freep], size)

\* tj_malloc: the memory, or Null, and the heap afterwards.
Malloc(h, bytes) ==
  LET size == IF bytes % 4 = 0 THEN bytes ELSE bytes + (4 - (bytes % 4))
      h1   == IF h.freep = Null THEN [h EXCEPT !.freep = Base] ELSE h
  IN  IF size > HEAP_SIZE * WordBytes THEN [mem |-> Null, heap |-> h]
      ELSE Scan(h1, h1.freep, h1.next[h1.freep], size)

\* The free blocks, in the order of the list from base on.
FreeList(h) ==
  LET f[n \in 0..HEAP_SIZE] == IF n = 0 THEN Base ELSE h.next[f[n - 1]]
      len == CHOOSE n \in 1..HEAP_SIZE :
               f[n] = Base /\ \A m \in 1..n - 1 : f[m] # Base
  IN  [n \in 1..len - 1 |-> f[n]]
=============================================================================
