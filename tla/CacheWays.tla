----------------------------- MODULE CacheWays ------------------------------
(***************************************************************************)
(* One set of the cache array as it is built (dcache_mem.sv): ways with    *)
(* valid bits and tags, and a triangular matrix of who has gone unused for *)
(* longer (dcache_LRU_update.sv). One step is one rising clock edge with   *)
(* one request, or none. Dirty bits are written and never read.            *)
(***************************************************************************)
EXTENDS Integers, FiniteSetsExt

CONSTANTS SASS, Blocks, NoBlock, Data, NoData

ASSUME WaysParameters ==
    SASS \in Nat \ {0} /\ NoBlock \notin Blocks /\ NoData \notin Data

Ways == 0..(SASS - 1)
Pairs == {p \in Ways \X Ways : p[1] < p[2]}

VARIABLES
    cache_array,    \* per way, [valid, lru, tag, data]
    use_history,    \* the upper triangle: the first is older than the second
    out             \* req_cmd and cache_mem_ctrl_o at the last edge

vars == <<cache_array, use_history, out>>

NoWay == [blk |-> NoBlock, data |-> NoData]
Nothing == [cmd |-> "NONE", hit |-> FALSE, data |-> NoData, evict |-> NoWay]

Init ==
    /\ cache_array =
          [w \in Ways |-> [valid |-> FALSE, lru |-> FALSE, tag |-> NoBlock,
                           data |-> NoData]]
    /\ use_history = [p \in Pairs |-> FALSE]
    /\ out = Nothing

-----------------------------------------------------------------------------
\* The matrix. acc are the ways that are accessed; of two, the higher comes last.
Expand(i, j) ==
    \/ i = j
    \/ i < j /\ use_history[<<i, j>>]
    \/ i > j /\ ~use_history[<<j, i>>]

\* Mutant: the column of the accessed way is not set.
NextExpandRow(acc, i, j) == i = j \/ (i \notin acc /\ Expand(i, j))

NextExpand(acc, i, j) ==
    \/ i = j
    \/ j \in acc /\ (i \notin acc \/ i < j)
    \/ i \notin acc /\ j \notin acc /\ Expand(i, j)

NextLru(acc, i) == \A j \in Ways : NextExpand(acc, i, j)

-----------------------------------------------------------------------------
\* The request.
HitWays(b) == {w \in Ways : cache_array[w].valid /\ cache_array[w].tag = b}
EmptyWays == {w \in Ways : ~cache_array[w].valid}

\* The way that a miss fills.
Victims ==
    IF EmptyWays # {} THEN {Max(EmptyWays)} ELSE {w \in Ways : cache_array[w].lru}

Accessed(cmd, b) ==
    IF HitWays(b) # {} THEN HitWays(b)
    ELSE IF cmd \in {"LOAD_MISS", "STORE_MISS"} THEN Victims ELSE {}

\* Mutant: a load's fill overwrites the block that has come meanwhile.
WritesAnyFill(cmd, b) == cmd \in {"STORE", "STORE_MISS", "LOAD_MISS"}

\* A hit is written by stores only, a fill always.
Writes(cmd, b) == HitWays(b) = {} \/ cmd \in {"STORE", "STORE_MISS"}

NextWay(w, cmd, b, d) ==
    LET acc == Accessed(cmd, b)
        way == IF w \in acc /\ Writes(cmd, b)
               THEN [cache_array[w] EXCEPT !.valid = TRUE, !.tag = b, !.data = d]
               ELSE cache_array[w]
    IN  [way EXCEPT !.lru = NextLru(acc, w)]

\* What goes to the cache controller.
Evicted(cmd, b) ==
    IF HitWays(b) = {} /\ EmptyWays = {} /\ cmd \in {"LOAD_MISS", "STORE_MISS"}
    THEN Victims ELSE {}

Content(w) == [blk |-> cache_array[w].tag, data |-> cache_array[w].data]

Output(cmd, b) ==
    [cmd |-> cmd, hit |-> HitWays(b) # {},
     data |-> IF HitWays(b) = {} THEN NoData ELSE cache_array[Max(HitWays(b))].data,
     evict |-> IF Evicted(cmd, b) = {} THEN NoWay ELSE Content(Max(Evicted(cmd, b)))]

Edge(acc, ways, o) ==
    /\ cache_array' = ways
    /\ use_history' = [p \in Pairs |-> NextExpand(acc, p[1], p[2])]
    /\ out' = o

Idle ==
    Edge({}, [w \in Ways |-> [cache_array[w] EXCEPT !.lru = NextLru({}, w)]], Nothing)

Request(cmd, b, d) ==
    Edge(Accessed(cmd, b), [w \in Ways |-> NextWay(w, cmd, b, d)], Output(cmd, b))

Next ==
    \/ Idle
    \/ \E cmd \in {"LOAD", "STORE", "LOAD_MISS", "STORE_MISS"} :
       \E b \in Blocks : \E d \in Data : Request(cmd, b, d)

Spec == Init /\ [][Next]_vars
-----------------------------------------------------------------------------
\* The types; a valid way has a block and its data.
TypeOK ==
    /\ \A w \in Ways :
          cache_array[w].valid => Content(w) \in [blk : Blocks, data : Data]
    /\ cache_array \in [Ways -> [valid : BOOLEAN, lru : BOOLEAN,
                                 tag : Blocks \cup {NoBlock},
                                 data : Data \cup {NoData}]]
    /\ use_history \in [Pairs -> BOOLEAN]
    /\ out \in [cmd : {"NONE", "LOAD", "STORE", "LOAD_MISS", "STORE_MISS"},
                hit : BOOLEAN, data : Data \cup {NoData},
                evict : [blk : Blocks \cup {NoBlock}, data : Data \cup {NoData}]]

\* The matrix orders the ways by their last use, and each block is in one way at most,
\* so that the array is a set of CacheSpec: it finds, keeps and gives up the
\* same blocks with the same data.
ValidWays == {w \in Ways : cache_array[w].valid}

\* How many of the valid ways were used since, the way itself among them.
Place(w) == Cardinality({v \in ValidWays : Expand(w, v)})

Abstract == INSTANCE CacheSpec WITH
    set <- [k \in 1..Cardinality(ValidWays) |->
              Content(CHOOSE w \in ValidWays : Place(w) = k)]

ImplementsSet == Abstract!Spec

\* One way and one only is the next to go, once the set is full: the order of the
\* matrix has no cycle. With none, a fill would be lost; with two, a block would be
\* in the set twice.
OneVictim == EmptyWays = {} => Cardinality(Victims) = 1
=============================================================================
