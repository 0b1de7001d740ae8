------------------------------ MODULE CacheSet ------------------------------
(***************************************************************************)
(* What one set of the cache array promises (dcache_mem.sv; icache_mem.sv  *)
(* is a copy): it holds at most SASS blocks and gives up the one that has  *)
(* gone unused for longest. A set is the sequence of its blocks, most      *)
(* recently used first. CacheWays does the same with ways and a matrix.    *)
(***************************************************************************)
EXTENDS Naturals, SequencesExt

CONSTANT SASS

ASSUME CacheSetParameters == SASS \in Nat \ {0}

Hit(set, b) == \E i \in DOMAIN set : set[i].blk = b

\* Where the block is, or else the place behind the last.
Place(set, b) ==
    IF Hit(set, b) THEN CHOOSE i \in DOMAIN set : set[i].blk = b ELSE Len(set) + 1

DataOf(set, b) == set[Place(set, b)].data

\* The block becomes the most recently used one; those before it move down.
Touched(set, b, d) ==
    [k \in DOMAIN set \cup {Place(set, b)} |->
        IF k = 1 THEN [blk |-> b, data |-> d]
        ELSE IF k <= Place(set, b) THEN set[k - 1]
        ELSE set[k]]

\* REQ_LOAD_MISS and REQ_STORE_MISS on a full set without the block.
Evicts(set, b) == ~Hit(set, b) /\ Len(set) = SASS

Kept(set, b) == IF Evicts(set, b) THEN Front(set) ELSE set

\* REQ_LOAD, REQ_STORE: nothing happens on a miss.
Load(set, b) == IF Hit(set, b) THEN Touched(set, b, DataOf(set, b)) ELSE set

Store(set, b, d) == IF Hit(set, b) THEN Touched(set, b, d) ELSE set

\* REQ_LOAD_MISS, REQ_STORE_MISS: a block that has come meanwhile is kept by a load.
LoadMiss(set, b, d) ==
    IF Hit(set, b) THEN Load(set, b) ELSE Touched(Kept(set, b), b, d)

StoreMiss(set, b, d) == Touched(Kept(set, b), b, d)
=============================================================================
