--------------------------- MODULE PriorityQueue ---------------------------
(***************************************************************************)
(* The priority queue of test_progs/priority_queue.c: a linked list whose  *)
(* nodes tj_malloc and tj_free hand out and take back.                     *)
(***************************************************************************)
EXTENDS Heap

CONSTANTS Items, Priorities

NodeBytes == 12   \* three words

VARIABLES node,   \* what was last written at the addresses of nodes
          head,
          held    \* observes what is in the queue

pqVars == <<heapVars, node, head, held>>

PQInit ==
  /\ HeapInit
  /\ node = [a \in {} |-> a]
  /\ head = Null
  /\ held = {}

\* newNode
NewNode(mem, d, p, next) ==
  [a \in DOMAIN node \cup {mem} |->
     IF a = mem THEN [data |-> d, priority |-> p, next |-> next] ELSE node[a]]

\* mutant: past the nodes of a higher value
RECURSIVE PlaceBeyond(_, _)
PlaceBeyond(start, p) ==
  IF node[start].next # Null /\ node[node[start].next].priority > p
  THEN PlaceBeyond(node[start].next, p) ELSE start

RECURSIVE Place(_, _)
Place(start, p) ==
  IF node[start].next # Null /\ node[node[start].next].priority < p
  THEN Place(node[start].next, p) ELSE start

\* push, into the memory that tj_malloc has returned: before the head, or
\* behind the last node of a higher priority.
Inserted(mem, d, p) ==
  IF node[head].priority > p
  THEN [head |-> mem, node |-> NewNode(mem, d, p, head)]
  ELSE LET start == Place(head, p)
       IN  [head |-> head,
            node |-> [NewNode(mem, d, p, node[start].next) EXCEPT ![start].next = mem]]

\* Nothing looks whether tj_malloc returned NULL: the program does not ask for more
\* than the heap has.
Push(d, p) ==
  LET got == Malloc(heap, NodeBytes) IN
  /\ got.mem # Null
  /\ d \notin {x[1] : x \in held}   \* bound: an item is not in the queue twice
  /\ Obtain(got, NodeBytes)
  /\ IF head = Null
     THEN head' = got.mem /\ node' = NewNode(got.mem, d, p, Null)
     ELSE LET new == Inserted(got.mem, d, p)
          IN  head' = new.head /\ node' = new.node
  /\ held' = held \cup {<<d, p>>}

\* peek and pop
Pop ==
  /\ head # Null
  /\ Release(head)
  /\ head' = node[head].next
  /\ held' = {x \in held : x[1] # node[head].data}
  /\ UNCHANGED node

PQNext == Pop \/ \E d \in Items, p \in Priorities : Push(d, p)
-----------------------------------------------------------------------------
\* The nodes from head on.
Nodes ==
  LET f[n \in 0..Cardinality(held) + 1] ==
        IF n = 0 THEN head
        ELSE IF f[n - 1] = Null THEN Null ELSE node[f[n - 1]].next
      len == Cardinality({n \in DOMAIN f : f[n] # Null})
  IN  [n \in 1..len |-> f[n - 1]]

\* The list holds what was pushed and not yet popped, each once, by priority:
\* pop takes one of the highest priority, and no node is written over
\* while it is in the list (priority_queue.c l.42-80).
QueueServesInOrder ==
  /\ {<<node[a].data, node[a].priority>> : a \in Range(Nodes)} = held
  /\ Len(Nodes) = Cardinality(held)
  /\ \A i \in 1..Len(Nodes) - 1 :
        node[Nodes[i]].priority <= node[Nodes[i + 1]].priority
=============================================================================
