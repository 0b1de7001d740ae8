---------------------------- MODULE GraphSearch ----------------------------
(***************************************************************************)
(* The searches of test_progs: bfs.c (a queue of vertices), and of graph.c *)
(* the depth-first search (a stack) and the breadth-first one over lists   *)
(* of neighbours.  A search has visited, the vertices marked, and line,    *)
(* what the queue or stack holds; log observes the order of the visits.    *)
(***************************************************************************)
EXTENDS Integers, Sequences, SequencesExt

\* getAdjUnvisitedVertex: the first one by number, or -1.
Unvisited(adj, visited, v) ==
  LET found == {w \in adj[v] : w \notin visited}
  IN  IF found = {} THEN -1 ELSE CHOOSE w \in found : \A u \in found : w <= u

Start(v) == [visited |-> {v}, line |-> <<v>>, log |-> <<v>>]

Visit(s, w) == [s EXCEPT !.visited = @ \cup {w}, !.line = Append(@, w), !.log = Append(@, w)]

\* mutant: a vertex is marked when it leaves the queue
QueueAllMarked(adj, s, v) ==
  [s EXCEPT !.visited = @ \cup {v},
            !.line = @ \o SetToSortSeq(adj[v] \ (s.visited \cup {v}), <),
            !.log = @ \o SetToSortSeq(adj[v] \ (s.visited \cup {v}), <)]

\* The inner loop of breadthFirstSearch in bfs.c.
RECURSIVE QueueAll(_, _, _)
QueueAll(adj, s, v) ==
  LET w == Unvisited(adj, s.visited, v)
  IN  IF w = -1 THEN s ELSE QueueAll(adj, Visit(s, w), v)

RECURSIVE Breadth(_, _)
Breadth(adj, s) ==
  IF s.line = <<>> THEN s
  ELSE Breadth(adj, QueueAll(adj, [s EXCEPT !.line = Tail(@)], Head(s.line)))

\* depthFirstSearch in graph.c: push the first unvisited neighbour or pop.
RECURSIVE Depth(_, _)
Depth(adj, s) ==
  IF s.line = <<>> THEN s
  ELSE LET w == Unvisited(adj, s.visited, Last(s.line))
       IN  Depth(adj, IF w = -1 THEN [s EXCEPT !.line = Front(@)] ELSE Visit(s, w))

\* addEdge in graph.c: each end goes to the front of the other's list.
AddEdge(lists, src, dest) ==
  LET one == [lists EXCEPT ![src] = <<dest>> \o @]
  IN  [one EXCEPT ![dest] = <<src>> \o @]

Lists(vertices, edges) ==
  FoldLeft(LAMBDA l, e : AddEdge(l, e[1], e[2]), [v \in vertices |-> <<>>], edges)

\* bfs in graph.c
RECURSIVE BreadthOfLists(_, _)
BreadthOfLists(lists, s) ==
  IF s.line = <<>> THEN s
  ELSE BreadthOfLists(lists,
         FoldLeft(LAMBDA t, w : IF w \in t.visited THEN t ELSE Visit(t, w),
                  [s EXCEPT !.line = Tail(@)], lists[Head(s.line)]))
-----------------------------------------------------------------------------
\* The vertices at most n edges away from v.
Within(adj, v, n) ==
  LET f[k \in 0..n] == IF k = 0 THEN {v}
                       ELSE f[k - 1] \cup UNION {adj[u] : u \in f[k - 1]}
  IN  f[n]

\* The search visits what can be reached, each vertex once: nothing more is ever put
\* in the arrays than there are vertices.
VisitsAll(adj, v, s) ==
  LET n == Len(s.log)
  IN  /\ Range(s.log) = Within(adj, v, n)
      /\ s.visited = Range(s.log)
      /\ \A i, j \in 1..n : s.log[i] = s.log[j] => i = j

\* Nearer vertices come first.
NearestFirst(adj, v, s) ==
  LET distance(w) == CHOOSE k \in 0..Len(s.log) :
                       w \in Within(adj, v, k) /\ (k = 0 \/ w \notin Within(adj, v, k - 1))
  IN  \A i \in 1..Len(s.log) - 1 : distance(s.log[i]) <= distance(s.log[i + 1])

\* Each vertex is visited from the last one visited before it that has a neighbour
\* left to visit.
DeepestFirst(adj, s) ==
  \A i \in 2..Len(s.log) :
    LET before == {s.log[k] : k \in 1..i - 1}
        open == {k \in 1..i - 1 : adj[s.log[k]] \ before # {}}
    IN  s.log[i] \in adj[s.log[CHOOSE k \in open : \A l \in open : l <= k]]
=============================================================================
