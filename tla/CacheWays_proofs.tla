-------------------------- MODULE CacheWays_proofs --------------------------
(***************************************************************************)
(* The ways of the cache and their replacement matrix, for every number of *)
(* ways, every set of blocks and every set of data: one way is the next to *)
(* go, and together they are the set of CacheSpec.                         *)
(***************************************************************************)
EXTENDS CacheWays, Sequences, FiniteSetTheorems, TLAPS

USE DEF Ways

\* The matrix orders the ways: f numbers them, 0 for the one unused for longest.
Orders(f) ==
    /\ f \in [Ways -> Ways]
    /\ \A i, j \in Ways : f[i] = f[j] => i = j
    /\ \A k \in Ways : \E i \in Ways : f[i] = k

Ranks(f) == Orders(f) /\ \A i, j \in Ways : Expand(i, j) <=> f[i] <= f[j]

\* The same of the matrix after an access to the ways in acc.
NextRanks(acc, f) ==
    Orders(f) /\ \A i, j \in Ways : NextExpand(acc, i, j) <=> f[i] <= f[j]

\* No block is in two ways.
BlocksApart ==
    \A v, w \in Ways :
        cache_array[v].valid /\ cache_array[w].valid
          /\ cache_array[v].tag = cache_array[w].tag => v = w

\* The lru bits are the full rows of the matrix; reset clears them, and they are
\* right from the first edge on, before any block has come.
LruIsOldest ==
    \/ \A w \in Ways : ~cache_array[w].valid
    \/ \A w \in Ways : cache_array[w].lru <=> \A j \in Ways : Expand(w, j)

Fields == {"valid", "lru", "tag", "data"}

\* The inductive invariant. One victim follows from the order; the order is kept
\* because only one way is accessed, which needs the blocks apart and, when the
\* set is full, the one victim.
IInv ==
    /\ DOMAIN cache_array = Ways
    /\ \A w \in Ways : DOMAIN cache_array[w] = Fields
    /\ BlocksApart
    /\ \E f : Ranks(f)
    /\ LruIsOldest

-----------------------------------------------------------------------------
\* Of the ways of an order, one and only one is the oldest.
LEMMA OneOldest ==
  ASSUME NEW f, Ranks(f)
  PROVE  \E v \in Ways : \A w \in Ways : (\A j \in Ways : Expand(w, j)) <=> w = v
<1>1. 0 \in Ways
  BY WaysParameters
<1>2. PICK v \in Ways : f[v] = 0
  BY <1>1 DEF Ranks, Orders
<1>3. \A j \in Ways : f[j] \in Ways /\ f[v] <= f[j]
  <2>1. \A j \in Ways : f[j] \in Ways
    BY DEF Ranks, Orders
  <2> QED
    BY <2>1, <1>2, WaysParameters
<1>4. \A j \in Ways : Expand(v, j)
  BY <1>3 DEF Ranks
<1>5. ASSUME NEW w \in Ways, \A j \in Ways : Expand(w, j) PROVE w = v
  <2>1. f[w] <= f[v]
    BY <1>5 DEF Ranks
  <2>2. f[w] = f[v]
    BY <2>1, <1>2, <1>3, WaysParameters
  <2> QED
    BY <2>2 DEF Ranks, Orders
<1> QED
  BY <1>4, <1>5

\* When the set is full, the lru bits name one way.
LEMMA FullSetHasOneVictim ==
  ASSUME IInv, EmptyWays = {}
  PROVE  \E v \in Ways : Victims = {v}
<1>1. PICK f : Ranks(f)
  BY DEF IInv
<1>2. PICK v \in Ways : \A w \in Ways : (\A j \in Ways : Expand(w, j)) <=> w = v
  BY <1>1, OneOldest
<1>3. 0 \in Ways /\ cache_array[0].valid
  BY WaysParameters DEF EmptyWays
<1>4. \A w \in Ways : cache_array[w].lru <=> w = v
  BY <1>2, <1>3 DEF IInv, LruIsOldest
<1>5. Victims = {w \in Ways : cache_array[w].lru}
  BY DEF Victims
<1> QED
  BY <1>4, <1>5

\* An access is to one way at most.
LEMMA AccessesOne ==
  ASSUME IInv, NEW cmd, NEW b
  PROVE  \A x, y \in Accessed(cmd, b) : x = y
<1>1. \A x, y \in HitWays(b) : x = y
  BY DEF IInv, BlocksApart, HitWays
<1>2. \A x, y \in Victims : x = y
  <2>1. CASE EmptyWays = {}
    BY <2>1, FullSetHasOneVictim
  <2>2. CASE EmptyWays # {}
    BY <2>2 DEF Victims
  <2> QED
    BY <2>1, <2>2
<1> QED
  BY <1>1, <1>2 DEF Accessed

\* The accessed way becomes the youngest, and the order of the others stays.
LEMMA AccessKeepsOrder ==
  ASSUME NEW f, Ranks(f), NEW acc, \A x, y \in acc : x = y
  PROVE  \E g : NextRanks(acc, g)
<1>1. CASE acc \cap Ways = {}
  <2>1. \A i, j \in Ways : NextExpand(acc, i, j) <=> Expand(i, j)
    <3> SUFFICES ASSUME NEW i \in Ways, NEW j \in Ways
                 PROVE  NextExpand(acc, i, j) <=> Expand(i, j)
      OBVIOUS
    <3>1. i \notin acc /\ j \notin acc
      BY <1>1
    <3>2. CASE i = j
      BY <3>2 DEF NextExpand, Expand
    <3>3. CASE i # j
      BY <3>1, <3>3 DEF NextExpand
    <3> QED
      BY <3>2, <3>3
  <2> QED
    BY <2>1 DEF Ranks, NextRanks
<1>2. CASE acc \cap Ways # {}
  <2>1. PICK a \in Ways : \A i \in Ways : i \in acc <=> i = a
    BY <1>2
  <2> DEFINE g == [i \in Ways |-> IF i = a THEN SASS - 1
                                  ELSE IF f[i] > f[a] THEN f[i] - 1 ELSE f[i]]
  <2>2. \A i \in Ways : f[i] \in Ways /\ (i # a => f[i] # f[a])
    BY DEF Ranks, Orders
  <2>3. g \in [Ways -> Ways]
    BY <2>2, WaysParameters
  <2>4. g[a] = SASS - 1
    OBVIOUS
  <2>5. \A i \in Ways : i # a => g[i] = IF f[i] > f[a] THEN f[i] - 1 ELSE f[i]
    OBVIOUS
  <2> HIDE DEF g
  <2>6. \A i, j \in Ways : g[i] = g[j] => i = j
    <3> SUFFICES ASSUME NEW i \in Ways, NEW j \in Ways, g[i] = g[j] PROVE i = j
      OBVIOUS
    <3>1. CASE i # a /\ j # a
      <4>1. f[i] = f[j]
        BY <3>1, <2>2, <2>5, WaysParameters
      <4> QED
        BY <4>1 DEF Ranks, Orders
    <3>2. CASE i = a \/ j = a
      BY <3>2, <2>2, <2>4, <2>5, WaysParameters
    <3> QED
      BY <3>1, <3>2
  <2>7. ASSUME NEW k \in Ways PROVE \E i \in Ways : g[i] = k
    <3>1. CASE k = SASS - 1
      BY <3>1, <2>4
    <3>2. CASE k # SASS - 1 /\ k < f[a]
      <4>1. PICK i \in Ways : f[i] = k
        BY DEF Ranks, Orders
      <4>2. g[i] = k
        BY <4>1, <3>2, <2>2, <2>5, WaysParameters
      <4> QED
        BY <4>2
    <3>3. CASE k # SASS - 1 /\ k >= f[a]
      <4>1. k + 1 \in Ways
        BY <3>3, WaysParameters
      <4>2. PICK i \in Ways : f[i] = k + 1
        BY <4>1 DEF Ranks, Orders
      <4>3. g[i] = k
        BY <4>2, <3>3, <2>2, <2>5, WaysParameters
      <4> QED
        BY <4>3
    <3> QED
      BY <3>1, <3>2, <3>3, <2>2, WaysParameters
  <2>8. ASSUME NEW i \in Ways, NEW j \in Ways
        PROVE  NextExpand(acc, i, j) <=> g[i] <= g[j]
    <3>1. CASE i = j
      BY <3>1, <2>3, WaysParameters DEF NextExpand
    <3>2. CASE i # j /\ i = a
      <4>1. ~NextExpand(acc, i, j)
        BY <3>2, <2>1 DEF NextExpand
      <4>2. g[j] # g[i] /\ g[j] \in Ways /\ g[i] = SASS - 1
        BY <3>2, <2>3, <2>4, <2>6
      <4> QED
        BY <4>1, <4>2, WaysParameters
    <3>3. CASE i # j /\ j = a
      <4>1. NextExpand(acc, i, j)
        BY <3>3, <2>1 DEF NextExpand
      <4>2. g[i] \in Ways /\ g[j] = SASS - 1
        BY <3>3, <2>3, <2>4
      <4> QED
        BY <4>1, <4>2, WaysParameters
    <3>4. CASE i # j /\ i # a /\ j # a
      <4>1. NextExpand(acc, i, j) <=> Expand(i, j)
        BY <3>4, <2>1 DEF NextExpand
      <4>2. f[i] # f[j]
        BY <3>4 DEF Ranks, Orders
      <4>3. f[i] <= f[j] <=> g[i] <= g[j]
        BY <3>4, <4>2, <2>2, <2>5, WaysParameters
      <4>4. Expand(i, j) <=> f[i] <= f[j]
        BY DEF Ranks
      <4> QED
        BY <4>1, <4>3, <4>4
    <3> QED
      BY <3>1, <3>2, <3>3, <3>4
  <2> QED
    BY <2>3, <2>6, <2>7, <2>8 DEF NextRanks, Orders
<1> QED
  BY <1>1, <1>2

-----------------------------------------------------------------------------
\* The registered triangle is what the logic computed for every pair.
LEMMA MatrixRegistered ==
  ASSUME NEW acc, \A x, y \in acc : x = y,
         use_history' = [p \in Pairs |-> NextExpand(acc, p[1], p[2])]
  PROVE  \A i, j \in Ways : Expand(i, j)' <=> NextExpand(acc, i, j)
<1> SUFFICES ASSUME NEW i \in Ways, NEW j \in Ways
             PROVE  Expand(i, j)' <=> NextExpand(acc, i, j)
  OBVIOUS
<1>1. CASE i = j
  BY <1>1 DEF Expand, NextExpand
<1>2. CASE i < j
  <2>1. <<i, j>> \in Pairs /\ i # j
    BY <1>2 DEF Pairs
  <2>2. use_history'[<<i, j>>] = NextExpand(acc, i, j)
    BY <2>1
  <2>3. Expand(i, j)' <=> use_history'[<<i, j>>]
    BY <1>2, <2>1 DEF Expand
  <2> QED
    BY <2>2, <2>3
<1>3. CASE j < i
  <2>1. <<j, i>> \in Pairs /\ i # j /\ ~(i < j)
    BY <1>3 DEF Pairs
  <2>2. use_history'[<<j, i>>] = NextExpand(acc, j, i)
    BY <2>1
  <2>3. Expand(i, j)' <=> ~use_history'[<<j, i>>]
    BY <1>3, <2>1 DEF Expand
  <2>4. Expand(i, j) <=> ~Expand(j, i)
    BY <1>3 DEF Expand
  <2>5. NextExpand(acc, i, j) <=> ~NextExpand(acc, j, i)
    BY <2>1, <2>4 DEF NextExpand
  <2> QED
    BY <2>2, <2>3, <2>5
<1> QED
  BY <1>1, <1>2, <1>3, WaysParameters

\* After an edge the lru bits are the full rows.
LEMMA EdgeKeepsOrder ==
  ASSUME IInv, NEW acc, \A x, y \in acc : x = y,
         use_history' = [p \in Pairs |-> NextExpand(acc, p[1], p[2])],
         \A w \in Ways : cache_array'[w].lru <=> NextLru(acc, w)
  PROVE  (\E f : Ranks(f))' /\ LruIsOldest'
<1>1. PICK f : Ranks(f)
  BY DEF IInv
<1>2. PICK g : NextRanks(acc, g)
  BY <1>1, AccessKeepsOrder
<1>3. \A i, j \in Ways : Expand(i, j)' <=> NextExpand(acc, i, j)
  BY MatrixRegistered
<1>4. Ranks(g)'
  BY <1>2, <1>3 DEF NextRanks, Ranks, Orders
<1>5. \A w \in Ways : cache_array'[w].lru <=> \A j \in Ways : Expand(w, j)'
  BY <1>3 DEF NextLru
<1> QED
  BY <1>4, <1>5 DEF LruIsOldest

\* The ways after a request. A block that is not in the set may enter one way.
LEMMA RequestKeepsWays ==
  ASSUME IInv, NEW cmd, NEW b, NEW d,
         cache_array' = [w \in Ways |-> NextWay(w, cmd, b, d)]
  PROVE  /\ DOMAIN cache_array' = Ways
         /\ \A w \in Ways : DOMAIN cache_array'[w] = Fields
         /\ BlocksApart'
         /\ \A w \in Ways : cache_array'[w].lru <=> NextLru(Accessed(cmd, b), w)
<1> DEFINE acc == Accessed(cmd, b)
<1>1. \A x, y \in acc : x = y
  BY AccessesOne
<1> HIDE DEF acc
<1>2. \A w \in Ways : DOMAIN cache_array[w] = Fields
  BY DEF IInv
<1>3. ASSUME NEW w \in Ways
      PROVE  /\ DOMAIN cache_array'[w] = Fields
             /\ cache_array'[w].lru <=> NextLru(acc, w)
             /\ IF w \in acc /\ Writes(cmd, b)
                THEN cache_array'[w].valid = TRUE /\ cache_array'[w].tag = b
                ELSE /\ cache_array'[w].valid = cache_array[w].valid
                     /\ cache_array'[w].tag = cache_array[w].tag
  BY <1>2 DEF NextWay, Fields, acc
<1>4. BlocksApart'
  <2> SUFFICES ASSUME NEW v \in Ways, NEW w \in Ways,
                      cache_array'[v].valid, cache_array'[w].valid,
                      cache_array'[v].tag = cache_array'[w].tag
               PROVE  v = w
    BY DEF BlocksApart
  <2>1. CASE ~Writes(cmd, b)
    BY <2>1, <1>3 DEF IInv, BlocksApart
  <2>2. CASE Writes(cmd, b) /\ HitWays(b) # {}
    <3>1. acc = HitWays(b)
      BY <2>2 DEF acc, Accessed
    <3>2. \A x \in Ways : x \in acc => cache_array[x].valid /\ cache_array[x].tag = b
      BY <3>1 DEF HitWays
    <3>3. \A x \in Ways : /\ cache_array'[x].valid => cache_array[x].valid
                          /\ cache_array'[x].tag = cache_array[x].tag
      BY <2>2, <3>2, <1>3
    <3>4. /\ cache_array[v].valid /\ cache_array[w].valid
          /\ cache_array[v].tag = cache_array[w].tag
      BY <3>3
    <3> QED
      BY <3>4 DEF IInv, BlocksApart
  <2>3. CASE Writes(cmd, b) /\ HitWays(b) = {}
    <3>1. \A x \in Ways : ~(cache_array[x].valid /\ cache_array[x].tag = b)
      BY <2>3 DEF HitWays
    <3>2. \A x \in Ways : x \notin acc => /\ cache_array'[x].valid = cache_array[x].valid
                                         /\ cache_array'[x].tag = cache_array[x].tag
      BY <1>3
    <3>3. \A x \in Ways : x \in acc => cache_array'[x].tag = b
      BY <1>3, <2>3
    <3>4. CASE v \in acc /\ w \in acc
      BY <1>1, <3>4
    <3>5. CASE v \notin acc /\ w \notin acc
      BY <3>2, <3>5 DEF IInv, BlocksApart
    <3>6. CASE v \in acc /\ w \notin acc
      <4>1. cache_array[w].valid /\ cache_array[w].tag = b
        BY <3>2, <3>3, <3>6
      <4> QED
        BY <3>1, <4>1
    <3>7. CASE v \notin acc /\ w \in acc
      <4>1. cache_array[v].valid /\ cache_array[v].tag = b
        BY <3>2, <3>3, <3>7
      <4> QED
        BY <3>1, <4>1
    <3> QED
      BY <3>4, <3>5, <3>6, <3>7
  <2> QED
    BY <2>1, <2>2, <2>3
<1> QED
  BY <1>3, <1>4 DEF acc

\* Every edge keeps the invariant.
LEMMA NextIInv == IInv /\ [Next]_vars => IInv'
<1> SUFFICES ASSUME IInv, [Next]_vars PROVE IInv'
  OBVIOUS
<1>1. CASE Idle
  <2>1. /\ cache_array' = [w \in Ways |-> [cache_array[w] EXCEPT !.lru = NextLru({}, w)]]
        /\ use_history' = [p \in Pairs |-> NextExpand({}, p[1], p[2])]
    BY <1>1 DEF Idle, Edge
  <2>2. \A w \in Ways : DOMAIN cache_array[w] = Fields
    BY DEF IInv
  <2>3. \A w \in Ways : /\ DOMAIN cache_array'[w] = Fields
                        /\ cache_array'[w].lru <=> NextLru({}, w)
                        /\ cache_array'[w].valid = cache_array[w].valid
                        /\ cache_array'[w].tag = cache_array[w].tag
    BY <2>1, <2>2 DEF Fields
  <2>4. DOMAIN cache_array' = Ways
    BY <2>1
  <2>5. BlocksApart'
    <3>1. BlocksApart
      BY DEF IInv
    <3> QED
      BY <2>3, <3>1 DEF BlocksApart
  <2>6. (\E f : Ranks(f))' /\ LruIsOldest'
    <3> DEFINE acc == {}
    <3>1. /\ \A x, y \in acc : x = y
          /\ use_history' = [p \in Pairs |-> NextExpand(acc, p[1], p[2])]
          /\ \A w \in Ways : cache_array'[w].lru <=> NextLru(acc, w)
      BY <2>1, <2>3
    <3> HIDE DEF acc
    <3> QED
      BY <3>1, EdgeKeepsOrder
  <2> QED
    BY <2>3, <2>4, <2>5, <2>6 DEF IInv
<1>2. ASSUME NEW cmd, NEW b, NEW d, Request(cmd, b, d) PROVE IInv'
  <2>1. /\ cache_array' = [w \in Ways |-> NextWay(w, cmd, b, d)]
        /\ use_history' = [p \in Pairs |-> NextExpand(Accessed(cmd, b), p[1], p[2])]
    BY <1>2 DEF Request, Edge
  <2>2. /\ DOMAIN cache_array' = Ways
        /\ \A w \in Ways : DOMAIN cache_array'[w] = Fields
        /\ BlocksApart'
        /\ \A w \in Ways : cache_array'[w].lru <=> NextLru(Accessed(cmd, b), w)
    BY <2>1, RequestKeepsWays
  <2>3. \A x, y \in Accessed(cmd, b) : x = y
    BY AccessesOne
  <2>4. (\E f : Ranks(f))' /\ LruIsOldest'
    BY <2>1, <2>2, <2>3, EdgeKeepsOrder
  <2> QED
    BY <2>2, <2>4 DEF IInv
<1>3. CASE UNCHANGED vars
  BY <1>3 DEF vars, IInv, BlocksApart, Ranks, Orders, Expand, LruIsOldest
<1> QED
  BY <1>1, <1>2, <1>3 DEF Next

\* Reset leaves the last way as the oldest.
LEMMA InitIInv == Init => IInv
<1> SUFFICES ASSUME Init PROVE IInv
  OBVIOUS
<1> DEFINE f == [i \in Ways |-> SASS - 1 - i]
<1>1. \A i \in Ways : f[i] = SASS - 1 - i /\ f[i] \in Ways
  BY WaysParameters
<1>2. f \in [Ways -> Ways]
  BY <1>1
<1> HIDE DEF f
<1>3. \A k \in Ways : \E i \in Ways : f[i] = k
  <2> SUFFICES ASSUME NEW k \in Ways PROVE \E i \in Ways : f[i] = k
    OBVIOUS
  <2>1. SASS - 1 - k \in Ways /\ SASS - 1 - (SASS - 1 - k) = k
    BY WaysParameters
  <2> QED
    BY <2>1, <1>1
<1>4. \A i, j \in Ways : f[i] = f[j] => i = j
  BY <1>1, WaysParameters
<1>5. ASSUME NEW i \in Ways, NEW j \in Ways PROVE Expand(i, j) <=> f[i] <= f[j]
  <2>1. Expand(i, j) <=> i >= j
    <3>1. CASE i = j
      BY <3>1 DEF Expand
    <3>2. CASE i < j
      <4>1. <<i, j>> \in Pairs /\ i # j
        BY <3>2 DEF Pairs
      <4>2. ~use_history[<<i, j>>]
        BY <4>1 DEF Init
      <4> QED
        BY <3>2, <4>1, <4>2 DEF Expand
    <3>3. CASE j < i
      <4>1. <<j, i>> \in Pairs /\ i # j /\ ~(i < j)
        BY <3>3 DEF Pairs
      <4>2. ~use_history[<<j, i>>]
        BY <4>1 DEF Init
      <4> QED
        BY <3>3, <4>1, <4>2 DEF Expand
    <3> QED
      BY <3>1, <3>2, <3>3, WaysParameters
  <2> QED
    BY <2>1, <1>1, WaysParameters
<1>6. Ranks(f)
  BY <1>2, <1>3, <1>4, <1>5 DEF Ranks, Orders
<1>7. /\ DOMAIN cache_array = Ways
      /\ \A w \in Ways : DOMAIN cache_array[w] = Fields /\ ~cache_array[w].valid
  BY DEF Init, Fields
<1> QED
  BY <1>6, <1>7 DEF IInv, BlocksApart, LruIsOldest

\* When the set is full, the matrix names one way to give up and only one, however
\* many ways there are (dcache_LRU_update.sv, dcache_mem.sv).
THEOREM AlwaysOneVictim == Spec => []OneVictim
<1>1. IInv => OneVictim
  <2> SUFFICES ASSUME IInv, EmptyWays = {} PROVE Cardinality(Victims) = 1
    BY DEF OneVictim
  <2>1. PICK v \in Ways : Victims = {v}
    BY FullSetHasOneVictim
  <2> QED
    BY <2>1, FS_Singleton
<1> QED
  BY <1>1, InitIInv, NextIInv, PTL DEF Spec
-----------------------------------------------------------------------------
\* The set as CacheSpec sees it. How many ways of V were used since w, itself among
\* them, when f orders the ways.
Later(V, f, w) == Cardinality({v \in V : f[w] <= f[v]})

\* s lists what c says of the ways of V, the most recently used first.
Lists(s, V, f, c) ==
    s = [k \in 1..Cardinality(V) |-> c[CHOOSE w \in V : Later(V, f, w) = k]]

\* The ways of a set have places, each its own, and none is left out.
LEMMA PlacesNumberWays ==
  ASSUME NEW f, Orders(f), NEW V \in SUBSET Ways
  PROVE  /\ IsFiniteSet(V) /\ Cardinality(V) \in Nat /\ Cardinality(V) <= SASS
         /\ \A w \in V : Later(V, f, w) \in 1..Cardinality(V)
         /\ \A v, w \in V : f[v] < f[w] => Later(V, f, w) < Later(V, f, v)
         /\ \A v, w \in V : Later(V, f, v) = Later(V, f, w) => v = w
         /\ \A k \in 1..Cardinality(V) : \E w \in V : Later(V, f, w) = k
<1> DEFINE n == Cardinality(V)
           Since(w) == {v \in V : f[w] <= f[v]}
<1>1. IsFiniteSet(V) /\ n \in Nat /\ n <= SASS
  <2>1. IsFiniteSet(0..(SASS - 1)) /\ Cardinality(0..(SASS - 1)) = SASS
    <3>1. SASS \in Nat /\ ((SASS - 1) - 0) + 1 = SASS /\ ~(0 > SASS - 1)
      BY WaysParameters
    <3> QED
      BY <3>1, FS_Interval, 0 \in Int, SASS - 1 \in Int
  <2> QED
    BY <2>1, FS_Subset, FS_CardinalityType
<1>2. \A w \in V : f[w] \in Nat
  BY DEF Orders
<1>3. \A v, w \in V : f[v] = f[w] => v = w
  BY DEF Orders
<1>4. \A w \in V : /\ IsFiniteSet(Since(w)) /\ Cardinality(Since(w)) \in Nat
                   /\ Cardinality(Since(w)) <= n
  BY <1>1, FS_Subset, FS_CardinalityType, Zenon
<1>5. \A w, v \in V : v \in Since(w) <=> f[w] <= f[v]
  OBVIOUS
<1>6. \A w \in V : Since(w) \subseteq V
  OBVIOUS
<1>7. \A w \in V : Later(V, f, w) = Cardinality(Since(w))
  BY DEF Later
<1> HIDE DEF Since
<1>8. ASSUME NEW w \in V PROVE Later(V, f, w) \in 1..n
  <2>1. w \in Since(w)
    BY <1>2, <1>5
  <2>2. Cardinality(Since(w)) # 0
    BY <1>4, <2>1, FS_EmptySet
  <2> QED
    BY <1>1, <1>4, <1>7, <2>2
<1>9. ASSUME NEW v \in V, NEW w \in V, f[v] < f[w]
      PROVE  Later(V, f, w) < Later(V, f, v)
  <2>1. f[v] \in Nat /\ f[w] \in Nat
    BY <1>2
  <2>2. ASSUME NEW x \in Since(w) PROVE x \in Since(v)
    <3>1. x \in V /\ f[x] \in Nat
      BY <1>2, <1>6
    <3>2. f[w] <= f[x]
      BY <1>5, <3>1
    <3>3. f[v] <= f[x]
      BY <1>9, <2>1, <3>1, <3>2
    <3> QED
      BY <1>5, <3>1, <3>3
  <2>3. v \in Since(v) /\ v \notin Since(w)
    BY <1>5, <1>9, <2>1
  <2>4. Since(w) \subseteq Since(v) /\ Since(w) # Since(v)
    BY <2>2, <2>3
  <2>5. /\ Cardinality(Since(w)) <= Cardinality(Since(v))
        /\ Cardinality(Since(w)) # Cardinality(Since(v))
    BY <1>4, <2>4, FS_Subset
  <2> QED
    BY <1>4, <1>7, <2>5
<1>10. ASSUME NEW v \in V, NEW w \in V, Later(V, f, v) = Later(V, f, w) PROVE v = w
  <2>1. f[v] \in Nat /\ f[w] \in Nat
    BY <1>2
  <2>2. ~(f[v] < f[w]) /\ ~(f[w] < f[v])
    BY <1>8, <1>9, <1>10
  <2> QED
    BY <1>3, <2>1, <2>2
<1>11. ASSUME NEW k \in 1..n PROVE \E w \in V : Later(V, f, w) = k
  <2> DEFINE p == [w \in V |-> Later(V, f, w)]
  <2>1. p \in Injection(V, 1..n)
    BY <1>8, <1>10 DEF Injection, IsInjective
  <2>2. IsFiniteSet(1..n) /\ Cardinality(1..n) = n
    BY <1>1, FS_Interval
  <2> HIDE DEF p
  <2>3. p \in Surjection(V, 1..n)
    BY <2>1, <2>2, FS_Injection
  <2>4. \E w \in V : p[w] = k
    BY <2>3 DEF Surjection
  <2> QED
    BY <2>4 DEF p
<1> QED
  BY <1>1, <1>8, <1>9, <1>10, <1>11

\* What is listed at the place of a way is of that way.
LEMMA ListedAtPlace ==
  ASSUME NEW f, Orders(f), NEW V \in SUBSET Ways, NEW c, NEW s, Lists(s, V, f, c)
  PROVE  \A w \in V : s[Later(V, f, w)] = c[w]
<1> SUFFICES ASSUME NEW w \in V PROVE s[Later(V, f, w)] = c[w]
  OBVIOUS
<1> DEFINE k == Later(V, f, w)
<1>1. k \in 1..Cardinality(V)
  BY PlacesNumberWays
<1>2. (CHOOSE v \in V : Later(V, f, v) = k) = w
  <2>1. \A v \in V : Later(V, f, v) = k <=> v = w
    BY PlacesNumberWays
  <2> HIDE DEF k
  <2> QED
    BY <2>1
<1> QED
  BY <1>1, <1>2 DEF Lists

\* g orders the ways as f does, but that a comes last.
Younger(f, g, a) ==
    \A i, j \in Ways : i # j => (g[i] <= g[j] <=> j = a \/ (i # a /\ f[i] <= f[j]))

\* Where the accessed way was in the list, or else the place behind the last.
PlaceIn(V, f, a) == IF a \in V THEN Later(V, f, a) ELSE Cardinality(V) + 1

LEMMA RanksAreNumbers ==
  ASSUME NEW f, Orders(f) PROVE \A w \in Ways : f[w] \in Nat
<1>1. f \in [Ways -> Ways]
  BY DEF Orders
<1> QED
  BY <1>1

\* The accessed way takes the first place, and those before it move down.
LEMMA PlacesMove ==
  ASSUME NEW f, Orders(f), NEW g, Orders(g), NEW a \in Ways, Younger(f, g, a),
         NEW V \in SUBSET Ways
  PROVE  /\ Later(V \cup {a}, g, a) = 1
         /\ \A w \in V \ {a} :
               Later(V \cup {a}, g, w) = IF Later(V, f, w) < PlaceIn(V, f, a)
                                         THEN Later(V, f, w) + 1 ELSE Later(V, f, w)
         /\ 1..Cardinality(V \cup {a}) = (1..Cardinality(V)) \cup {PlaceIn(V, f, a)}
<1> DEFINE W == V \cup {a}
           at == PlaceIn(V, f, a)
           n == Cardinality(V)
<1>1. /\ IsFiniteSet(V) /\ n \in Nat
      /\ \A w \in V : Later(V, f, w) \in 1..n
      /\ \A v, w \in V : f[v] < f[w] => Later(V, f, w) < Later(V, f, v)
  BY PlacesNumberWays
<1>2. Later(W, g, a) = 1
  <2>1. g[a] <= g[a]
    <3>1. g[a] \in Nat
      BY RanksAreNumbers
    <3> QED
      BY <3>1
  <2>2. \A v \in W : g[a] <= g[v] <=> v = a
    BY <2>1 DEF Younger
  <2>3. {v \in W : g[a] <= g[v]} = {a}
    BY <2>2
  <2> QED
    BY <2>3, FS_Singleton DEF Later
<1>3. ASSUME NEW w \in V \ {a}
      PROVE  Later(W, g, w) = IF Later(V, f, w) < at
                              THEN Later(V, f, w) + 1 ELSE Later(V, f, w)
  <2> DEFINE S == {v \in V : f[w] <= f[v]}
  <2>1. f[w] \in Nat /\ f[a] \in Nat /\ f[w] # f[a] /\ f[w] <= f[w] /\ g[w] <= g[w]
    <3>1. f[w] \in Nat /\ f[a] \in Nat /\ g[w] \in Nat
      BY RanksAreNumbers
    <3>2. f[w] # f[a]
      BY DEF Orders
    <3> QED
      BY <3>1, <3>2
  <2>2. {v \in W : g[w] <= g[v]} = S \cup {a}
    <3>1. ASSUME NEW v \in W PROVE g[w] <= g[v] <=> v \in S \cup {a}
      <4>1. CASE v = w
        BY <2>1, <4>1
      <4>2. CASE v # w
        BY <4>2 DEF Younger
      <4> QED
        BY <4>1, <4>2
    <3> QED
      BY <3>1
  <2>3. IsFiniteSet(S) /\ Cardinality(S) \in Nat
    BY <1>1, FS_Subset, FS_CardinalityType
  <2>4. Cardinality(S \cup {a}) = IF a \in S THEN Cardinality(S) ELSE Cardinality(S) + 1
    BY <2>3, FS_AddElement
  <2>5. Later(W, g, w) = Cardinality(S \cup {a}) /\ Later(V, f, w) = Cardinality(S)
    BY <2>2 DEF Later
  <2>6. a \in S <=> ~(Later(V, f, w) < at)
    <3>1. CASE a \in V /\ f[w] < f[a]
      <4>1. Later(V, f, a) < Later(V, f, w) /\ Later(V, f, a) \in Nat /\ Later(V, f, w) \in Nat
        BY <1>1, <3>1
      <4> QED
        BY <2>1, <3>1, <4>1 DEF PlaceIn
    <3>2. CASE a \in V /\ f[a] < f[w]
      <4>1. Later(V, f, w) < Later(V, f, a)
        BY <1>1, <3>2
      <4> QED
        BY <2>1, <3>2, <4>1 DEF PlaceIn
    <3>3. CASE a \notin V
      <4>1. Later(V, f, w) < n + 1
        BY <1>1
      <4> QED
        BY <3>3, <4>1 DEF PlaceIn
    <3> QED
      BY <2>1, <3>1, <3>2, <3>3
  <2> QED
    BY <2>4, <2>5, <2>6
<1>4. 1..Cardinality(W) = (1..n) \cup {at}
  <2>1. CASE a \in V
    <3>1. W = V /\ at \in 1..n
      BY <1>1, <2>1 DEF PlaceIn
    <3> QED
      BY <3>1
  <2>2. CASE a \notin V
    <3>1. Cardinality(W) = n + 1 /\ at = n + 1
      BY <1>1, <2>2, FS_AddElement DEF PlaceIn
    <3> HIDE DEF W, n, at
    <3> QED
      BY <1>1, <3>1
  <2> QED
    BY <2>1, <2>2
<1> QED
  BY <1>2, <1>3, <1>4

\* What an access at place at makes of a list of n.
MovedUp(s, n, at, new) ==
    [k \in (1..n) \cup {at} |->
        IF k = 1 THEN new ELSE IF k <= at THEN s[k - 1] ELSE s[k]]

\* Of all ways of V but a the same is said.
SameButAt(V, a, c, c1) == \A w \in V \ {a} : c1[w] = c[w]

\* An access moves its way to the front of the list, whatever becomes of its contents.
LEMMA ListMoves ==
  ASSUME NEW f, Orders(f), NEW g, Orders(g), NEW a \in Ways, Younger(f, g, a),
         NEW V \in SUBSET Ways, NEW c, NEW c1, SameButAt(V, a, c, c1),
         NEW s, Lists(s, V, f, c), NEW t, Lists(t, V \cup {a}, g, c1)
  PROVE  t = MovedUp(s, Cardinality(V), PlaceIn(V, f, a), c1[a])
<1> DEFINE W == V \cup {a}
           at == PlaceIn(V, f, a)
           D == (1..Cardinality(V)) \cup {at}
<1>1. /\ Later(W, g, a) = 1
      /\ \A w \in V \ {a} : Later(W, g, w) = IF Later(V, f, w) < at
                                             THEN Later(V, f, w) + 1 ELSE Later(V, f, w)
      /\ 1..Cardinality(W) = D
  BY PlacesMove
<1>2. t = [k \in D |-> t[k]]
  <2>1. t = [k \in 1..Cardinality(W) |-> t[k]]
    BY DEF Lists
  <2> HIDE DEF D, W
  <2> QED
    BY <1>1, <2>1
<1>3. /\ \A w \in V : Later(V, f, w) \in 1..Cardinality(V)
      /\ Cardinality(V) \in Nat
      /\ \A v, w \in V : Later(V, f, v) = Later(V, f, w) => v = w
  BY PlacesNumberWays
<1>4. at \in Nat /\ (a \in V => at = Later(V, f, a))
      /\ (a \notin V => at = Cardinality(V) + 1)
  BY <1>3 DEF PlaceIn
<1>5. W \in SUBSET Ways
  OBVIOUS
<1>6. \A k \in D : \E w \in W : Later(W, g, w) = k
  <2>1. \A k \in 1..Cardinality(W) : \E w \in W : Later(W, g, w) = k
    BY <1>5, PlacesNumberWays
  <2> HIDE DEF D, W
  <2> QED
    BY <1>1, <2>1
<1>7. \A w \in W : t[Later(W, g, w)] = c1[w]
  <2>1. Lists(t, W, g, c1)
    OBVIOUS
  <2> HIDE DEF W
  <2> QED
    BY <1>5, <2>1, ListedAtPlace
<1>8. \A w \in V : s[Later(V, f, w)] = c[w]
  BY ListedAtPlace
<1> HIDE DEF at, D
<1>9. ASSUME NEW k \in D
      PROVE  t[k] = IF k = 1 THEN c1[a] ELSE IF k <= at THEN s[k - 1] ELSE s[k]
  <2>1. PICK w \in W : Later(W, g, w) = k
    BY <1>6
  <2>2. t[k] = c1[w]
    BY <1>7, <2>1
  <2>3. CASE w = a
    BY <1>1, <2>1, <2>2, <2>3
  <2>4. CASE w # a
    <3>1. w \in V \ {a}
      BY <2>4
    <3> DEFINE p == Later(V, f, w)
    <3>2. p \in Nat /\ 1 <= p /\ p <= Cardinality(V) /\ s[p] = c1[w]
      BY <1>3, <1>8, <3>1 DEF SameButAt
    <3>3. k = IF p < at THEN p + 1 ELSE p
      BY <1>1, <2>1, <3>1
    <3>4. p # at
      BY <1>3, <1>4, <3>1, <3>2
    <3> HIDE DEF p
    <3>5. CASE p < at
      <4>1. k = p + 1 /\ k # 1 /\ k <= at /\ k - 1 = p
        BY <1>4, <3>2, <3>3, <3>5
      <4> QED
        BY <2>2, <3>2, <4>1
    <3>6. CASE ~(p < at)
      <4>1. k = p /\ ~(k <= at) /\ k # 1
        <5>1. 1 <= at
          BY <1>3, <1>4
        <5> QED
          BY <1>4, <3>2, <3>3, <3>4, <3>6, <5>1
      <4> QED
        BY <2>2, <3>2, <4>1
    <3> QED
      BY <3>5, <3>6
  <2> QED
    BY <2>3, <2>4
<1>10. t = [k \in D |-> IF k = 1 THEN c1[a] ELSE IF k <= at THEN s[k - 1] ELSE s[k]]
  BY <1>2, <1>9
<1> QED
  BY <1>10 DEF D, at, MovedUp

-----------------------------------------------------------------------------
\* The operations of CacheSpec on a list of n.
OfLength(s, n) == s = [k \in 1..n |-> s[k]]

LEMMA LengthOf ==
  ASSUME NEW s, NEW n \in Nat, OfLength(s, n)
  PROVE  DOMAIN s = 1..n /\ Len(s) = n
<1>1. DOMAIN s = 1..n
  BY DEF OfLength
<1>2. \E e : s = [k \in 1..n |-> e[k]]
  BY DEF OfLength
<1>3. Len(s) = n
  BY <1>2
<1> QED
  BY <1>1, <1>3

LEMMA TouchedMovesUp ==
  ASSUME NEW s, NEW n \in Nat, OfLength(s, n), NEW b, NEW d
  PROVE  Abstract!Touched(s, b, d)
            = MovedUp(s, n, Abstract!Place(s, b), [blk |-> b, data |-> d])
<1>1. DOMAIN s = 1..n
  BY LengthOf
<1> QED
  BY <1>1 DEF Abstract!Touched, MovedUp

\* A block at place i and nowhere else.
LEMMA HitAt ==
  ASSUME NEW s, NEW n \in Nat, OfLength(s, n), NEW b, NEW i \in 1..n, s[i].blk = b,
         \A j \in 1..n : s[j].blk = b => j = i
  PROVE  /\ Abstract!Hit(s, b) /\ Abstract!Place(s, b) = i
         /\ Abstract!DataOf(s, b) = s[i].data
         /\ Abstract!Kept(s, b) = s /\ ~Abstract!Evicts(s, b)
<1>1. DOMAIN s = 1..n
  BY LengthOf
<1>2. Abstract!Hit(s, b)
  BY <1>1 DEF Abstract!Hit
<1>3. \A j \in DOMAIN s : s[j].blk = b <=> j = i
  BY <1>1
<1>4. (CHOOSE j \in DOMAIN s : s[j].blk = b) = i
  BY <1>1, <1>3
<1>5. Abstract!Place(s, b) = i
  BY <1>2, <1>4 DEF Abstract!Place
<1>6. Abstract!DataOf(s, b) = s[i].data
  BY <1>5 DEF Abstract!DataOf
<1>7. ~Abstract!Evicts(s, b) /\ Abstract!Kept(s, b) = s
  BY <1>2 DEF Abstract!Evicts, Abstract!Kept
<1> QED
  BY <1>2, <1>5, <1>6, <1>7

\* A block that is nowhere. A full set gives up its last for it.
LEMMA MissIn ==
  ASSUME NEW s, NEW n \in Nat, OfLength(s, n), NEW b, \A j \in 1..n : s[j].blk # b
  PROVE  /\ ~Abstract!Hit(s, b) /\ Abstract!Place(s, b) = n + 1
         /\ Abstract!Evicts(s, b) <=> n = SASS
<1>1. DOMAIN s = 1..n /\ Len(s) = n
  BY LengthOf
<1>2. ~Abstract!Hit(s, b)
  BY <1>1 DEF Abstract!Hit
<1>3. Abstract!Place(s, b) = n + 1
  BY <1>1, <1>2 DEF Abstract!Place
<1>4. Abstract!Evicts(s, b) <=> n = SASS
  BY <1>1, <1>2 DEF Abstract!Evicts
<1> QED
  BY <1>2, <1>3, <1>4

LEMMA FrontTouched ==
  ASSUME NEW s, NEW n \in Nat, OfLength(s, n), NEW b, NEW d, n = SASS,
         \A j \in 1..n : s[j].blk # b
  PROVE  /\ Abstract!Touched(Abstract!Kept(s, b), b, d)
               = MovedUp(s, n, n, [blk |-> b, data |-> d])
         /\ Abstract!Last(s) = s[n]
<1>1. DOMAIN s = 1..n /\ Len(s) = n
  BY LengthOf
<1> DEFINE F == SubSeq(s, 1, n - 1)
<1>2. n - 1 \in Nat
  BY WaysParameters
<1>3. Abstract!Kept(s, b) = F
  BY <1>1, MissIn DEF Abstract!Kept, Abstract!Front
<1>4. F = [k \in 1..(n - 1) |-> s[k]]
  BY <1>1, <1>2
<1>5. OfLength(F, n - 1)
  BY <1>4 DEF OfLength
<1>6. \A j \in 1..(n - 1) : F[j] = s[j] /\ F[j].blk # b
  BY <1>2, <1>4
<1> HIDE DEF F
<1>7. Abstract!Place(F, b) = (n - 1) + 1
  BY <1>2, <1>5, <1>6, MissIn
<1>8. Abstract!Touched(F, b, d) = MovedUp(F, n - 1, n, [blk |-> b, data |-> d])
  BY <1>2, <1>5, <1>7, TouchedMovesUp
<1>9. MovedUp(F, n - 1, n, [blk |-> b, data |-> d])
         = MovedUp(s, n, n, [blk |-> b, data |-> d])
  <2>1. (1..(n - 1)) \cup {n} = (1..n) \cup {n}
    BY <1>2
  <2>2. \A k \in (1..n) \cup {n} : k # 1 => k <= n /\ F[k - 1] = s[k - 1]
    BY <1>2, <1>6
  <2> QED
    BY <2>1, <2>2 DEF MovedUp
<1>10. Abstract!Last(s) = s[n]
  BY <1>1 DEF Abstract!Last
<1> QED
  BY <1>3, <1>8, <1>9, <1>10

-----------------------------------------------------------------------------
\* The refinement.
SetNow ==
    [k \in 1..Cardinality(ValidWays) |->
        Content(CHOOSE w \in ValidWays : Place(w) = k)]

Contents == [w \in Ways |-> Content(w)]

\* Of an order that the matrix agrees with, the set is the list.
LEMMA SetIsList ==
  \A f : Ranks(f) => Lists(SetNow, ValidWays, f, Contents)
<1> SUFFICES ASSUME NEW f, Ranks(f) PROVE Lists(SetNow, ValidWays, f, Contents)
  OBVIOUS
<1>1. Orders(f) /\ ValidWays \in SUBSET Ways
  BY DEF Ranks, ValidWays
<1>2. \A w \in ValidWays : Place(w) = Later(ValidWays, f, w)
  <2> SUFFICES ASSUME NEW w \in ValidWays PROVE Place(w) = Later(ValidWays, f, w)
    OBVIOUS
  <2>1. \A v \in ValidWays : Expand(w, v) <=> f[w] <= f[v]
    BY <1>1 DEF Ranks
  <2>2. {v \in ValidWays : Expand(w, v)} = {v \in ValidWays : f[w] <= f[v]}
    BY <2>1
  <2> QED
    BY <2>2 DEF Place, Later
<1>3. \A k \in 1..Cardinality(ValidWays) :
         Content(CHOOSE w \in ValidWays : Place(w) = k)
            = Contents[CHOOSE w \in ValidWays : Later(ValidWays, f, w) = k]
  <2> SUFFICES ASSUME NEW k \in 1..Cardinality(ValidWays)
               PROVE  Content(CHOOSE w \in ValidWays : Place(w) = k)
                         = Contents[CHOOSE w \in ValidWays : Later(ValidWays, f, w) = k]
    OBVIOUS
  <2>1. PICK w \in ValidWays : Later(ValidWays, f, w) = k
    BY <1>1, PlacesNumberWays
  <2>2. \A v \in ValidWays : Later(ValidWays, f, v) = k <=> v = w
    BY <1>1, <2>1, PlacesNumberWays
  <2>3. (CHOOSE v \in ValidWays : Later(ValidWays, f, v) = k) = w
    BY <2>2
  <2>4. (CHOOSE v \in ValidWays : Place(v) = k) = w
    BY <1>2, <2>2
  <2> DEFINE x == CHOOSE v \in ValidWays : Place(v) = k
             y == CHOOSE v \in ValidWays : Later(ValidWays, f, v) = k
  <2>5. x = w /\ y = w /\ w \in Ways
    BY <1>1, <2>3, <2>4
  <2> HIDE DEF x, y
  <2>6. Content(x) = Contents[y]
    BY <2>5 DEF Contents
  <2> QED
    BY <2>6 DEF x, y
<1> QED
  BY <1>3 DEF Lists, SetNow

LEMMA SetIsListThen ==
  \A f : Ranks(f)' => Lists(SetNow', ValidWays', f, Contents')
<1>1. (\A f : Ranks(f) => Lists(SetNow, ValidWays, f, Contents))'
  BY SetIsList, PTL
<1> QED
  BY <1>1

LEMMA WaysListed ==
  ASSUME NEW f, Ranks(f), NEW n, n = Cardinality(ValidWays)
  PROVE  /\ n \in Nat /\ OfLength(SetNow, n)
         /\ \A w \in ValidWays : /\ Later(ValidWays, f, w) \in 1..n
                                 /\ SetNow[Later(ValidWays, f, w)] = Content(w)
         /\ \A j \in 1..n : \E w \in ValidWays :
               Later(ValidWays, f, w) = j /\ SetNow[j] = Content(w)
<1>1. Orders(f) /\ ValidWays \in SUBSET Ways
  BY DEF Ranks, ValidWays
<1>2. /\ Cardinality(ValidWays) \in Nat
      /\ \A w \in ValidWays : Later(ValidWays, f, w) \in 1..Cardinality(ValidWays)
      /\ \A k \in 1..Cardinality(ValidWays) :
            \E w \in ValidWays : Later(ValidWays, f, w) = k
  BY <1>1, PlacesNumberWays
<1>3. Lists(SetNow, ValidWays, f, Contents)
  BY SetIsList
<1>4. \A w \in ValidWays : SetNow[Later(ValidWays, f, w)] = Contents[w]
  BY <1>1, <1>3, ListedAtPlace
<1>5. \A w \in ValidWays : Contents[w] = Content(w)
  BY <1>1 DEF Contents
<1>6. OfLength(SetNow, n)
  BY DEF OfLength, SetNow
<1> QED
  BY <1>2, <1>4, <1>5, <1>6

\* A block in a way is in the set at the place of the way and nowhere else.
LEMMA HitListed ==
  ASSUME BlocksApart, NEW f, Ranks(f), NEW b, NEW h \in HitWays(b)
  PROVE  /\ HitWays(b) = {h}
         /\ Abstract!Hit(SetNow, b)
         /\ Abstract!Place(SetNow, b) = Later(ValidWays, f, h)
         /\ Abstract!DataOf(SetNow, b) = cache_array[h].data
         /\ Abstract!Kept(SetNow, b) = SetNow /\ ~Abstract!Evicts(SetNow, b)
<1> DEFINE n == Cardinality(ValidWays)
           i == Later(ValidWays, f, h)
<1>1. h \in ValidWays /\ cache_array[h].tag = b
  BY DEF HitWays, ValidWays
<1>2. /\ n \in Nat /\ OfLength(SetNow, n)
      /\ \A w \in ValidWays : /\ Later(ValidWays, f, w) \in 1..n
                              /\ SetNow[Later(ValidWays, f, w)] = Content(w)
      /\ \A j \in 1..n : \E w \in ValidWays :
            Later(ValidWays, f, w) = j /\ SetNow[j] = Content(w)
  BY WaysListed
<1>3. \A w : Content(w).blk = cache_array[w].tag /\ Content(w).data = cache_array[w].data
  BY DEF Content
<1>4. \A w \in ValidWays : cache_array[w].tag = b => w = h
  BY <1>1 DEF BlocksApart, ValidWays
<1>5. i \in 1..n /\ SetNow[i].blk = b /\ SetNow[i].data = cache_array[h].data
  BY <1>1, <1>2, <1>3
<1>6. \A j \in 1..n : SetNow[j].blk = b => j = i
  BY <1>2, <1>3, <1>4
<1>7. HitWays(b) = {h}
  BY <1>4 DEF HitWays, ValidWays
<1> HIDE DEF i, n
<1>8. /\ Abstract!Hit(SetNow, b) /\ Abstract!Place(SetNow, b) = i
      /\ Abstract!DataOf(SetNow, b) = SetNow[i].data
      /\ Abstract!Kept(SetNow, b) = SetNow /\ ~Abstract!Evicts(SetNow, b)
  BY <1>2, <1>5, <1>6, HitAt
<1> QED
  BY <1>5, <1>7, <1>8 DEF i

LEMMA MissListed ==
  ASSUME NEW f, Ranks(f), NEW b, HitWays(b) = {}
  PROVE  \A j \in 1..Cardinality(ValidWays) : SetNow[j].blk # b
<1> SUFFICES ASSUME NEW j \in 1..Cardinality(ValidWays) PROVE SetNow[j].blk # b
  OBVIOUS
<1>1. PICK w \in ValidWays : SetNow[j] = Content(w)
  BY WaysListed
<1>2. SetNow[j].blk = cache_array[w].tag
  BY <1>1 DEF Content
<1>3. cache_array[w].tag # b
  BY DEF HitWays, ValidWays
<1> QED
  BY <1>2, <1>3

\* The set is full when no way is empty.
LEMMA FullHasAllWays ==
  ASSUME NEW f, Orders(f)
  PROVE  Cardinality(ValidWays) = SASS <=> EmptyWays = {}
<1>1. IsFiniteSet(Ways) /\ Cardinality(Ways) = SASS
  <2>1. SASS \in Nat /\ ((SASS - 1) - 0) + 1 = SASS /\ ~(0 > SASS - 1)
    BY WaysParameters
  <2> QED
    BY <2>1, FS_Interval, 0 \in Int, SASS - 1 \in Int
<1>2. ValidWays \in SUBSET Ways
  BY DEF ValidWays
<1>3. EmptyWays = {} <=> ValidWays = Ways
  BY DEF EmptyWays, ValidWays
<1> HIDE DEF Ways
<1>4. Cardinality(ValidWays) = Cardinality(Ways) => ValidWays = Ways
  BY <1>1, <1>2, FS_Subset
<1> QED
  BY <1>1, <1>3, <1>4

LEMMA MaxOfOne == ASSUME NEW x \in Nat PROVE Max({x}) = x
<1>1. \A y \in {x} : y = x /\ x >= x
  OBVIOUS
<1> QED
  BY <1>1 DEF Max

\* The highest of some ways.
LEMMA MaxOfWays ==
  ASSUME NEW V \in SUBSET Ways, V # {}
  PROVE  Max(V) \in V
<1> DEFINE f == [w \in Ways |-> w]
<1>1. Orders(f)
  BY DEF Orders
<1>2. \A w \in Ways : f[w] = w
  OBVIOUS
<1> HIDE DEF f
<1>3. /\ Cardinality(V) \in Nat
      /\ \A w \in V : Later(V, f, w) \in 1..Cardinality(V)
      /\ \A v, w \in V : f[v] < f[w] => Later(V, f, w) < Later(V, f, v)
      /\ \A k \in 1..Cardinality(V) : \E w \in V : Later(V, f, w) = k
  BY <1>1, PlacesNumberWays
<1>4. 1 \in 1..Cardinality(V)
  <2>1. PICK v \in V : TRUE
    OBVIOUS
  <2>2. Later(V, f, v) \in 1..Cardinality(V)
    BY <1>3
  <2> QED
    BY <1>3, <2>2
<1>5. PICK x \in V : Later(V, f, x) = 1
  BY <1>3, <1>4
<1>6. ASSUME NEW y \in V PROVE x >= y
  <2>1. ~(x < y)
    BY <1>2, <1>3, <1>5
  <2>2. x \in Int /\ y \in Int
    OBVIOUS
  <2> QED
    BY <2>1, <2>2
<1> QED
  BY <1>6 DEF Max

\* An access moves the contents of its way to the front of the set.
LEMMA AccessMovesUp ==
  ASSUME NEW f, Ranks(f), NEW g, Ranks(g)', NEW a \in Ways, Younger(f, g, a),
         ValidWays' = ValidWays \cup {a},
         \A w \in Ways : w # a => Content(w)' = Content(w)
  PROVE  SetNow' = MovedUp(SetNow, Cardinality(ValidWays), PlaceIn(ValidWays, f, a),
                           Content(a)')
<1>1. Orders(f) /\ Orders(g) /\ ValidWays \in SUBSET Ways
  BY DEF Ranks, ValidWays, Orders
<1>2. Lists(SetNow, ValidWays, f, Contents)
  BY SetIsList
<1>3. Lists(SetNow', ValidWays \cup {a}, g, Contents')
  BY SetIsListThen
<1>4. /\ \A w \in ValidWays \ {a} : Contents'[w] = Contents[w]
      /\ Contents'[a] = Content(a)'
  BY <1>1 DEF Contents
<1> DEFINE V == ValidWays
           c == Contents
           c1 == Contents'
           s == SetNow
           t == SetNow'
<1>5. /\ Lists(s, V, f, c) /\ Lists(t, V \cup {a}, g, c1) /\ V \in SUBSET Ways
      /\ SameButAt(V, a, c, c1)
  BY <1>1, <1>2, <1>3, <1>4 DEF SameButAt
<1> HIDE DEF V, c, c1, s, t
<1>6. t = MovedUp(s, Cardinality(V), PlaceIn(V, f, a), c1[a])
  BY <1>1, <1>5, ListMoves
<1> QED
  BY <1>4, <1>6 DEF V, c1, s, t

\* What a request writes in the ways.
Written(cmd, b, d) == cache_array' = [w \in Ways |-> NextWay(w, cmd, b, d)]

LEMMA ContentAfter ==
  ASSUME IInv, NEW cmd, NEW b, NEW d, Written(cmd, b, d), NEW w \in Ways
  PROVE  IF w \in Accessed(cmd, b) /\ Writes(cmd, b)
         THEN cache_array'[w].valid /\ Content(w)' = [blk |-> b, data |-> d]
         ELSE (cache_array'[w].valid <=> cache_array[w].valid) /\ Content(w)' = Content(w)
<1>1. cache_array'[w] = NextWay(w, cmd, b, d)
  BY DEF Written
<1>2. DOMAIN cache_array[w] = Fields
  BY DEF IInv
<1>3. CASE w \in Accessed(cmd, b) /\ Writes(cmd, b)
  <2>1. NextWay(w, cmd, b, d) =
          [[cache_array[w] EXCEPT !.valid = TRUE, !.tag = b, !.data = d]
             EXCEPT !.lru = NextLru(Accessed(cmd, b), w)]
    BY <1>3 DEF NextWay
  <2>2. /\ cache_array'[w].valid = TRUE /\ cache_array'[w].tag = b
        /\ cache_array'[w].data = d
    BY <1>1, <1>2, <2>1 DEF Fields
  <2> QED
    BY <1>3, <2>2 DEF Content
<1>4. CASE ~(w \in Accessed(cmd, b) /\ Writes(cmd, b))
  <2>1. NextWay(w, cmd, b, d)
          = [cache_array[w] EXCEPT !.lru = NextLru(Accessed(cmd, b), w)]
    BY <1>4 DEF NextWay
  <2>2. /\ cache_array'[w].valid = cache_array[w].valid
        /\ cache_array'[w].tag = cache_array[w].tag
        /\ cache_array'[w].data = cache_array[w].data
    BY <1>1, <1>2, <2>1 DEF Fields
  <2> QED
    BY <1>4, <2>2 DEF Content
<1> QED
  BY <1>3, <1>4

\* An access to one way makes it the youngest.
LEMMA AccessedIsYoungest ==
  ASSUME NEW f, Ranks(f), NEW a \in Ways, NEW g, NextRanks({a}, g)
  PROVE  Younger(f, g, a)
<1> SUFFICES ASSUME NEW i \in Ways, NEW j \in Ways, i # j
             PROVE  g[i] <= g[j] <=> j = a \/ (i # a /\ f[i] <= f[j])
  BY DEF Younger
<1>1. g[i] <= g[j] <=> NextExpand({a}, i, j)
  BY DEF NextRanks
<1>2. f[i] <= f[j] <=> Expand(i, j)
  BY DEF Ranks
<1>3. NextExpand({a}, i, j) <=> j = a \/ (i # a /\ Expand(i, j))
  BY DEF NextExpand
<1> QED
  BY <1>1, <1>2, <1>3

\* The set after an access to one way, and where that way was.
LEMMA AccessOfOne ==
  ASSUME IInv, NEW cmd, NEW b, NEW d, Request(cmd, b, d),
         NEW a \in Ways, Accessed(cmd, b) = {a}, NEW f, Ranks(f),
         Writes(cmd, b) \/ cache_array[a].valid
  PROVE  SetNow' = MovedUp(SetNow, Cardinality(ValidWays), PlaceIn(ValidWays, f, a),
                           IF Writes(cmd, b) THEN [blk |-> b, data |-> d] ELSE Content(a))
<1>1. /\ Written(cmd, b, d)
      /\ use_history' = [p \in Pairs |-> NextExpand({a}, p[1], p[2])]
  BY DEF Request, Edge, Written
<1>2. \A w \in Ways :
         IF w = a /\ Writes(cmd, b)
         THEN cache_array'[w].valid /\ Content(w)' = [blk |-> b, data |-> d]
         ELSE (cache_array'[w].valid <=> cache_array[w].valid) /\ Content(w)' = Content(w)
  <2> SUFFICES ASSUME NEW w \in Ways
               PROVE  IF w = a /\ Writes(cmd, b)
                      THEN cache_array'[w].valid /\ Content(w)' = [blk |-> b, data |-> d]
                      ELSE /\ cache_array'[w].valid <=> cache_array[w].valid
                           /\ Content(w)' = Content(w)
    OBVIOUS
  <2>1. IF w \in Accessed(cmd, b) /\ Writes(cmd, b)
        THEN cache_array'[w].valid /\ Content(w)' = [blk |-> b, data |-> d]
        ELSE (cache_array'[w].valid <=> cache_array[w].valid) /\ Content(w)' = Content(w)
    BY <1>1, ContentAfter
  <2>2. w \in Accessed(cmd, b) <=> w = a
    OBVIOUS
  <2> QED
    BY <2>1, <2>2
<1>3. ValidWays' = ValidWays \cup {a}
  BY <1>2 DEF ValidWays
<1>4. \A w \in Ways : w # a => Content(w)' = Content(w)
  BY <1>2
<1>5. Content(a)' = IF Writes(cmd, b) THEN [blk |-> b, data |-> d] ELSE Content(a)
  BY <1>2
<1> DEFINE acc == {a}
<1>6. \A x, y \in acc : x = y
  OBVIOUS
<1>7. use_history' = [p \in Pairs |-> NextExpand(acc, p[1], p[2])]
  BY <1>1
<1> HIDE DEF acc
<1>8. PICK g : NextRanks(acc, g)
  BY <1>6, AccessKeepsOrder
<1>9. \A i, j \in Ways : Expand(i, j)' <=> NextExpand(acc, i, j)
  BY <1>6, <1>7, MatrixRegistered
<1>10. Ranks(g)'
  BY <1>8, <1>9 DEF NextRanks, Ranks, Orders
<1>11. Younger(f, g, a)
  BY <1>8, AccessedIsYoungest DEF acc
<1> QED
  BY <1>3, <1>4, <1>5, <1>10, <1>11, AccessMovesUp

\* With no access the set stays.
LEMMA NoAccessKeepsSet ==
  ASSUME NEW f, Ranks(f), use_history' = [p \in Pairs |-> NextExpand({}, p[1], p[2])],
         ValidWays' = ValidWays, \A w \in Ways : Content(w)' = Content(w)
  PROVE  SetNow' = SetNow
<1> DEFINE acc == {}
<1>1. /\ \A x, y \in acc : x = y
      /\ use_history' = [p \in Pairs |-> NextExpand(acc, p[1], p[2])]
  OBVIOUS
<1>2. \A i, j \in Ways : NextExpand(acc, i, j) <=> Expand(i, j)
  BY DEF NextExpand, Expand
<1> HIDE DEF acc
<1>3. \A i, j \in Ways : Expand(i, j)' <=> NextExpand(acc, i, j)
  BY <1>1, MatrixRegistered
<1>4. Ranks(f)'
  BY <1>2, <1>3 DEF Ranks, Orders
<1>5. Lists(SetNow, ValidWays, f, Contents) /\ Lists(SetNow', ValidWays', f, Contents')
  BY <1>4, SetIsList, SetIsListThen
<1>6. Contents' = Contents
  BY DEF Contents
<1> DEFINE V == ValidWays
           c == Contents
           s == SetNow
           t == SetNow'
<1>7. Lists(s, V, f, c) /\ Lists(t, V, f, c)
  BY <1>5, <1>6
<1> HIDE DEF V, c, s, t
<1>8. t = s
  BY <1>7 DEF Lists
<1> QED
  BY <1>8 DEF s, t

\* What the controller is told.
Answer(cmd, b, hit, data, evict) ==
    out' = [cmd |-> cmd, hit |-> hit, data |-> data, evict |-> evict]

\* The operation on the set that cmd stands for.
NextSetNow(cmd, b, d) ==
    CASE cmd = "LOAD" -> Abstract!Load(SetNow, b)
      [] cmd = "STORE" -> Abstract!Store(SetNow, b, d)
      [] cmd = "LOAD_MISS" -> Abstract!LoadMiss(SetNow, b, d)
      [] cmd = "STORE_MISS" -> Abstract!StoreMiss(SetNow, b, d)

LEMMA StepIsAccess ==
  ASSUME NEW cmd, NEW b, NEW d, SetNow' = NextSetNow(cmd, b, d),
         NEW hit \in BOOLEAN, hit <=> Abstract!Hit(SetNow, b),
         NEW data, data = IF hit THEN Abstract!DataOf(SetNow, b) ELSE NoData,
         NEW evict,
         evict = IF cmd \in {"LOAD_MISS", "STORE_MISS"} /\ Abstract!Evicts(SetNow, b)
                 THEN Abstract!Last(SetNow) ELSE NoWay,
         Answer(cmd, b, hit, data, evict)
  PROVE  Abstract!Access(cmd, b, d)
<1> DEFINE H == Abstract!Hit(SetNow, b)
<1>1. H \in BOOLEAN
  BY DEF Abstract!Hit
<1> HIDE DEF H
<1>2. hit = H
  BY <1>1 DEF H
<1>3. /\ out' = [cmd |-> cmd, hit |-> H,
                 data |-> IF H THEN Abstract!DataOf(SetNow, b) ELSE NoData,
                 evict |-> IF cmd \in {"LOAD_MISS", "STORE_MISS"}
                                 /\ Abstract!Evicts(SetNow, b)
                           THEN Abstract!Last(SetNow) ELSE NoWay]
  BY <1>2 DEF Answer
<1> QED
  BY <1>3 DEF H, Abstract!Access, Abstract!NextSet, NextSetNow, SetNow, NoWay,
              Abstract!NoWay

\* A hit.
LEMMA HitIsAccess ==
  ASSUME IInv, NEW cmd \in {"LOAD", "STORE", "LOAD_MISS", "STORE_MISS"}, NEW b, NEW d,
         Request(cmd, b, d), HitWays(b) # {}
  PROVE  Abstract!Access(cmd, b, d)
<1>1. PICK f : Ranks(f)
  BY DEF IInv
<1>2. PICK h \in HitWays(b) : TRUE
  OBVIOUS
<1>3. /\ HitWays(b) = {h} /\ Abstract!Hit(SetNow, b)
      /\ Abstract!Place(SetNow, b) = Later(ValidWays, f, h)
      /\ Abstract!DataOf(SetNow, b) = cache_array[h].data
      /\ Abstract!Kept(SetNow, b) = SetNow /\ ~Abstract!Evicts(SetNow, b)
  BY <1>1, HitListed DEF IInv
<1>4. /\ h \in Ways /\ cache_array[h].valid /\ cache_array[h].tag = b
      /\ h \in ValidWays /\ h \in Nat
  BY WaysParameters DEF HitWays, ValidWays
<1>5. Accessed(cmd, b) = {h}
  BY <1>3 DEF Accessed
<1> DEFINE n == Cardinality(ValidWays)
           e == IF Writes(cmd, b) THEN d ELSE cache_array[h].data
<1>6. SetNow' = MovedUp(SetNow, n, Abstract!Place(SetNow, b), [blk |-> b, data |-> e])
  <2>1. SetNow' = MovedUp(SetNow, n, PlaceIn(ValidWays, f, h),
                     IF Writes(cmd, b) THEN [blk |-> b, data |-> d] ELSE Content(h))
    BY <1>1, <1>4, <1>5, AccessOfOne
  <2>2. PlaceIn(ValidWays, f, h) = Abstract!Place(SetNow, b)
    BY <1>3, <1>4 DEF PlaceIn
  <2>3. Content(h) = [blk |-> b, data |-> cache_array[h].data]
    BY <1>4 DEF Content
  <2> QED
    BY <2>1, <2>2, <2>3
<1>7. n \in Nat /\ OfLength(SetNow, n)
  BY <1>1, WaysListed
<1>8. SetNow' = Abstract!Touched(SetNow, b, e)
  BY <1>6, <1>7, TouchedMovesUp
<1>9. Writes(cmd, b) <=> cmd \in {"STORE", "STORE_MISS"}
  BY DEF Writes
<1>10. SetNow' = NextSetNow(cmd, b, d)
  BY <1>3, <1>8, <1>9
     DEF NextSetNow, Abstract!Load, Abstract!Store, Abstract!LoadMiss, Abstract!StoreMiss
<1>11. Answer(cmd, b, TRUE, Abstract!DataOf(SetNow, b), NoWay)
  <2>1. out' = Output(cmd, b)
    BY DEF Request, Edge
  <2>2. Max(HitWays(b)) = h
    BY <1>3, <1>4, MaxOfOne
  <2>3. Evicted(cmd, b) = {}
    BY DEF Evicted
  <2> QED
    BY <1>3, <2>1, <2>2, <2>3 DEF Output, Answer
<1> QED
  BY <1>3, <1>10, <1>11, StepIsAccess

\* A miss that fills nothing.
LEMMA MissIsAccess ==
  ASSUME IInv, NEW cmd \in {"LOAD", "STORE"}, NEW b, NEW d,
         Request(cmd, b, d), HitWays(b) = {}
  PROVE  Abstract!Access(cmd, b, d)
<1>1. PICK f : Ranks(f)
  BY DEF IInv
<1> DEFINE n == Cardinality(ValidWays)
<1>2. n \in Nat /\ OfLength(SetNow, n) /\ \A j \in 1..n : SetNow[j].blk # b
  BY <1>1, WaysListed, MissListed
<1>3. ~Abstract!Hit(SetNow, b)
  <2> HIDE DEF n
  <2> QED
    BY <1>2, MissIn
<1>4. Accessed(cmd, b) = {}
  BY DEF Accessed
<1>5. /\ Written(cmd, b, d)
      /\ use_history' = [p \in Pairs |-> NextExpand({}, p[1], p[2])]
      /\ out' = Output(cmd, b)
  BY <1>4 DEF Request, Edge, Written
<1>6. \A w \in Ways : /\ cache_array'[w].valid <=> cache_array[w].valid
                      /\ Content(w)' = Content(w)
  <2> SUFFICES ASSUME NEW w \in Ways
               PROVE  /\ cache_array'[w].valid <=> cache_array[w].valid
                      /\ Content(w)' = Content(w)
    OBVIOUS
  <2>1. w \notin Accessed(cmd, b)
    BY <1>4
  <2>2. IF w \in Accessed(cmd, b) /\ Writes(cmd, b)
        THEN cache_array'[w].valid /\ Content(w)' = [blk |-> b, data |-> d]
        ELSE (cache_array'[w].valid <=> cache_array[w].valid) /\ Content(w)' = Content(w)
    BY <1>5, ContentAfter
  <2> QED
    BY <2>1, <2>2
<1>7. SetNow' = SetNow
  <2>1. ValidWays' = ValidWays
    BY <1>6 DEF ValidWays
  <2> QED
    BY <1>1, <1>5, <1>6, <2>1, NoAccessKeepsSet
<1>8. Answer(cmd, b, FALSE, NoData, NoWay)
  <2>1. Evicted(cmd, b) = {}
    BY DEF Evicted
  <2> QED
    BY <1>5, <2>1 DEF Output, Answer
<1>9. SetNow' = NextSetNow(cmd, b, d)
  <2>1. Abstract!Load(SetNow, b) = SetNow /\ Abstract!Store(SetNow, b, d) = SetNow
    BY <1>3 DEF Abstract!Load, Abstract!Store
  <2> QED
    BY <1>7, <2>1 DEF NextSetNow
<1> QED
  BY <1>3, <1>8, <1>9, StepIsAccess

\* A fill, of an empty way or of the way that has gone unused for longest.
LEMMA FillIsAccess ==
  ASSUME IInv, NEW cmd \in {"LOAD_MISS", "STORE_MISS"}, NEW b, NEW d,
         Request(cmd, b, d), HitWays(b) = {}
  PROVE  Abstract!Access(cmd, b, d)
<1>1. PICK f : Ranks(f)
  BY DEF IInv
<1> DEFINE n == Cardinality(ValidWays)
           new == [blk |-> b, data |-> d]
<1>2. n \in Nat /\ OfLength(SetNow, n) /\ \A j \in 1..n : SetNow[j].blk # b
  BY <1>1, WaysListed, MissListed
<1>3. n = SASS <=> EmptyWays = {}
  BY <1>1, FullHasAllWays DEF Ranks
<1>4. /\ ~Abstract!Hit(SetNow, b) /\ Abstract!Place(SetNow, b) = n + 1
      /\ Abstract!Evicts(SetNow, b) <=> EmptyWays = {}
  <2> HIDE DEF n
  <2> QED
    BY <1>2, <1>3, MissIn
<1>5. Accessed(cmd, b) = Victims /\ Writes(cmd, b)
  BY DEF Accessed, Writes
<1>6. out' = Output(cmd, b)
  BY DEF Request, Edge
<1>7. ASSUME NEW a \in Ways, Victims = {a}
      PROVE  SetNow' = MovedUp(SetNow, n, PlaceIn(ValidWays, f, a), new)
  BY <1>1, <1>5, <1>7, AccessOfOne
<1>8. CASE EmptyWays # {}
  <2> DEFINE a == Max(EmptyWays)
  <2>1. a \in Ways /\ a \notin ValidWays
    <3>1. EmptyWays \in SUBSET Ways
      BY DEF EmptyWays
    <3>2. a \in EmptyWays
      BY <1>8, <3>1, MaxOfWays
    <3> QED
      BY <3>2 DEF EmptyWays, ValidWays
  <2>2. Victims = {a}
    BY <1>8 DEF Victims
  <2> HIDE DEF a
  <2>3. PlaceIn(ValidWays, f, a) = Abstract!Place(SetNow, b)
    BY <1>4, <2>1 DEF PlaceIn
  <2>4. SetNow' = MovedUp(SetNow, n, Abstract!Place(SetNow, b), new)
    BY <1>7, <2>1, <2>2, <2>3
  <2>5. SetNow' = Abstract!Touched(SetNow, b, d)
    BY <1>2, <2>4, TouchedMovesUp
  <2>6. Abstract!Kept(SetNow, b) = SetNow /\ ~Abstract!Evicts(SetNow, b)
    BY <1>4, <1>8 DEF Abstract!Kept
  <2>7. Answer(cmd, b, FALSE, NoData, NoWay)
    <3>1. Evicted(cmd, b) = {}
      BY <1>8 DEF Evicted
    <3> QED
      BY <1>6, <3>1 DEF Output, Answer
  <2>8. /\ Abstract!LoadMiss(SetNow, b, d) = SetNow'
        /\ Abstract!StoreMiss(SetNow, b, d) = SetNow'
    BY <1>4, <2>5, <2>6 DEF Abstract!LoadMiss, Abstract!StoreMiss
  <2>9. SetNow' = NextSetNow(cmd, b, d)
    BY <2>8 DEF NextSetNow
  <2> QED
    BY <1>4, <2>6, <2>7, <2>9, StepIsAccess
<1>9. CASE EmptyWays = {}
  <2>1. PICK a \in Ways : Victims = {a}
    BY <1>9, FullSetHasOneVictim
  <2>2. ValidWays = Ways /\ n = SASS
    BY <1>3, <1>9 DEF EmptyWays, ValidWays
  <2>3. Later(ValidWays, f, a) = n
    <3>1. cache_array[a].lru /\ \A w \in Ways : cache_array[w].valid
      BY <1>9, <2>1 DEF Victims, EmptyWays
    <3>2. \A j \in Ways : Expand(a, j)
      BY <3>1 DEF IInv, LruIsOldest
    <3>3. \A j \in ValidWays : f[a] <= f[j]
      BY <1>1, <2>2, <3>2 DEF Ranks
    <3>4. {v \in ValidWays : f[a] <= f[v]} = ValidWays
      BY <3>3
    <3> QED
      BY <3>4 DEF Later
  <2>4. SetNow' = MovedUp(SetNow, n, n, new)
    <3>1. PlaceIn(ValidWays, f, a) = n
      BY <2>2, <2>3 DEF PlaceIn
    <3> QED
      BY <1>7, <2>1, <3>1
  <2>5. SetNow[n] = Content(a)
    BY <1>1, <2>2, <2>3, WaysListed
  <2>6. /\ SetNow' = Abstract!Touched(Abstract!Kept(SetNow, b), b, d)
        /\ Abstract!Last(SetNow) = Content(a)
    <3> HIDE DEF n
    <3> QED
      BY <1>2, <2>2, <2>4, <2>5, FrontTouched
  <2>7. Answer(cmd, b, FALSE, NoData, Content(a))
    <3>1. Evicted(cmd, b) = {a}
      BY <1>9, <2>1 DEF Evicted
    <3>2. a \in Nat
      BY WaysParameters
    <3>3. Max(Evicted(cmd, b)) = a
      BY <3>1, <3>2, MaxOfOne
    <3> QED
      BY <1>6, <3>1, <3>3 DEF Output, Answer
  <2>8. /\ Abstract!LoadMiss(SetNow, b, d) = SetNow'
        /\ Abstract!StoreMiss(SetNow, b, d) = SetNow'
    BY <1>4, <2>6 DEF Abstract!LoadMiss, Abstract!StoreMiss
  <2>9. SetNow' = NextSetNow(cmd, b, d)
    BY <2>8 DEF NextSetNow
  <2> QED
    BY <1>4, <1>9, <2>6, <2>7, <2>9, StepIsAccess
<1> QED
  BY <1>8, <1>9

LEMMA IdleIsIdle ==
  ASSUME IInv, Idle
  PROVE  Abstract!Idle
<1>1. PICK f : Ranks(f)
  BY DEF IInv
<1>2. /\ cache_array' = [w \in Ways |-> [cache_array[w] EXCEPT !.lru = NextLru({}, w)]]
      /\ use_history' = [p \in Pairs |-> NextExpand({}, p[1], p[2])]
      /\ out' = Nothing
  BY DEF Idle, Edge
<1>3. ASSUME NEW w \in Ways
      PROVE  /\ cache_array'[w].valid = cache_array[w].valid
             /\ Content(w)' = Content(w)
  <2>1. DOMAIN cache_array[w] = Fields
    BY DEF IInv
  <2>2. cache_array'[w] = [cache_array[w] EXCEPT !.lru = NextLru({}, w)]
    BY <1>2
  <2>3. /\ cache_array'[w].valid = cache_array[w].valid
        /\ cache_array'[w].tag = cache_array[w].tag
        /\ cache_array'[w].data = cache_array[w].data
    BY <2>1, <2>2 DEF Fields
  <2> QED
    BY <2>3 DEF Content
<1>4. ValidWays' = ValidWays
  BY <1>3 DEF ValidWays
<1>5. SetNow' = SetNow
  BY <1>1, <1>2, <1>3, <1>4, NoAccessKeepsSet
<1> QED
  BY <1>2, <1>5 DEF Abstract!Idle, SetNow, Nothing, NoWay, Abstract!Nothing, Abstract!NoWay

LEMMA RequestIsAccess ==
  ASSUME IInv, NEW cmd \in {"LOAD", "STORE", "LOAD_MISS", "STORE_MISS"}, NEW b, NEW d,
         Request(cmd, b, d)
  PROVE  Abstract!Access(cmd, b, d)
<1>1. CASE HitWays(b) # {}
  BY <1>1, HitIsAccess
<1>2. CASE HitWays(b) = {} /\ cmd \in {"LOAD", "STORE"}
  BY <1>2, MissIsAccess
<1>3. CASE HitWays(b) = {} /\ cmd \in {"LOAD_MISS", "STORE_MISS"}
  BY <1>3, FillIsAccess
<1> QED
  BY <1>1, <1>2, <1>3

\* The ways and their matrix are the set of CacheSpec, however many ways, blocks and
\* data there are: a request finds, writes, brings and gives up the same blocks with the
\* same data (dcache_mem.sv l.114-275, dcache_LRU_update.sv).
THEOREM WaysAreSet == Spec => ImplementsSet
<1>1. Init => Abstract!Init
  <2> SUFFICES ASSUME Init PROVE Abstract!Init
    OBVIOUS
  <2>1. ValidWays = {}
    BY DEF Init, ValidWays
  <2>2. Cardinality(ValidWays) = 0
    BY <2>1, FS_EmptySet
  <2>3. SetNow = <<>>
    BY <2>2 DEF SetNow
  <2> QED
    BY <2>3 DEF Init, Abstract!Init, SetNow, Nothing, NoWay, Abstract!Nothing, Abstract!NoWay
<1>2. IInv /\ [Next]_vars => [Abstract!Next]_(Abstract!vars)
  <2> SUFFICES ASSUME IInv, [Next]_vars PROVE [Abstract!Next]_(Abstract!vars)
    OBVIOUS
  <2>1. CASE Idle
    BY <2>1, IdleIsIdle DEF Abstract!Next
  <2>2. ASSUME NEW cmd \in {"LOAD", "STORE", "LOAD_MISS", "STORE_MISS"},
               NEW b \in Blocks, NEW d \in Data, Request(cmd, b, d)
        PROVE  Abstract!Next
    BY <2>2, RequestIsAccess DEF Abstract!Next
  <2>3. CASE UNCHANGED vars
    <3>1. SetNow' = SetNow /\ out' = out
      BY <2>3 DEF vars, SetNow, Content, Place, ValidWays, Expand
    <3> QED
      BY <3>1 DEF Abstract!vars, SetNow
  <2> QED
    BY <2>1, <2>2, <2>3 DEF Next
<1> QED
  BY <1>1, <1>2, InitIInv, NextIInv, PTL DEF Spec, ImplementsSet, Abstract!Spec
=============================================================================
