----------------------------- MODULE CacheSpec ------------------------------
(***************************************************************************)
(* A set of the cache as a specification: the operations of CacheSet, and  *)
(* what each of them tells the cache controller.                           *)
(***************************************************************************)
EXTENDS CacheSet

CONSTANTS Blocks, Data, NoData, NoBlock

VARIABLES
    set,
    out    \* of the last operation: req_cmd, req_hit, req_data_out, what is evicted

vars == <<set, out>>

NoWay == [blk |-> NoBlock, data |-> NoData]
Nothing == [cmd |-> "NONE", hit |-> FALSE, data |-> NoData, evict |-> NoWay]

Init == set = <<>> /\ out = Nothing

NextSet(cmd, b, d) ==
    CASE cmd = "LOAD" -> Load(set, b)
      [] cmd = "STORE" -> Store(set, b, d)
      [] cmd = "LOAD_MISS" -> LoadMiss(set, b, d)
      [] cmd = "STORE_MISS" -> StoreMiss(set, b, d)

Access(cmd, b, d) ==
    /\ set' = NextSet(cmd, b, d)
    /\ out' = [cmd |-> cmd, hit |-> Hit(set, b),
               data |-> IF Hit(set, b) THEN DataOf(set, b) ELSE NoData,
               evict |-> IF cmd \in {"LOAD_MISS", "STORE_MISS"} /\ Evicts(set, b)
                         THEN Last(set) ELSE NoWay]

Idle == set' = set /\ out' = Nothing

Next ==
    \/ Idle
    \/ \E cmd \in {"LOAD", "STORE", "LOAD_MISS", "STORE_MISS"} :
       \E b \in Blocks : \E d \in Data : Access(cmd, b, d)

Spec == Init /\ [][Next]_vars
=============================================================================
