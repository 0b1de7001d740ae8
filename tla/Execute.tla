------------------------------ MODULE Execute ------------------------------
(***************************************************************************)
(* The functional units (FU.sv) and the broadcaster that shares the common *)
(* data bus among them (BC.sv). One step is one rising clock edge.         *)
(*                                                                         *)
(* A unit works on one instruction at a time and holds its result until it *)
(* is broadcast or squashed; every unit takes one cycle (ALU_CYCLE,        *)
(* MULT_CYCLE and BR_CYCLE are 1). The load channels of the broadcaster,   *)
(* which the load-store queues drive, hold their requests in the same way. *)
(* The clock and the state have names of their own, so that one module can *)
(* speak of these units and of the issue buffer that feeds them.           *)
(***************************************************************************)
EXTENDS Integers, FiniteSets

CONSTANTS
    BC_IN_NUM,    \* the broadcaster's inputs
    C_CDB_NUM,    \* results broadcast per cycle
    THREAD_NUM

ASSUME ExecuteParameters ==
    /\ THREAD_NUM \in Nat \ {0}
    /\ BC_IN_NUM \in Nat
    /\ C_CDB_NUM \in 1..(BC_IN_NUM - 1)

Units == 0..(BC_IN_NUM - 1)
ThreadIds == 0..(THREAD_NUM - 1)

VARIABLES
    valid_sh,   \* per unit: it holds a result
    thread_idx, \* per unit: the thread of the latched instruction (ib_fu)
    mask,       \* the broadcaster's mask: the inputs it looks at
    wait        \* observer: for how many edges a unit's result has waited

busVars == <<valid_sh, thread_idx, mask, wait>>

\* At reset mask is unknown, so nothing is queued and all of it is set before any
\* unit can be valid.
BusInit ==
    /\ valid_sh = [u \in Units |-> FALSE]
    /\ thread_idx = [u \in Units |-> 0]
    /\ mask = Units
    /\ wait = [u \in Units |-> 0]

\* fu_bc_o.valid: the results of threads in mis are squashed.
Requests(mis) == {u \in Units : valid_sh[u] /\ thread_idx[u] \notin mis}

\* The priority encoders: the C_CDB_NUM lowest inputs among S.
Lowest(S) == {u \in S : Cardinality({v \in S : v < u}) < C_CDB_NUM}

\* Mutant of broadcasted: fixed priority alone.
broadcastedNoMask(mis) == Lowest(Requests(mis))

broadcasted(mis) == Lowest(Requests(mis) \cap mask)

queued(mis) == (Requests(mis) \cap mask) \ broadcasted(mis)

\* The inputs served leave the mask until every queued one has been served.
NextMask(mis) == IF queued(mis) # {} THEN mask \ broadcasted(mis) ELSE Units

\* fu_ib_o.ready. A unit whose result is squashed becomes ready one edge later.
UnitReady(mis) == {u \in Units : ~valid_sh[u]} \cup broadcasted(mis)

\* One edge: the threads in mis are flushed, the units of start begin, each with an
\* instruction of thread th[u]. The issue buffer pops nothing of a flushed thread.
BusEdge(mis, start, th) ==
    /\ start \subseteq UnitReady(mis)
    /\ valid_sh' = [u \in Units |->
                      IF u \in Requests(mis) \ broadcasted(mis) THEN TRUE
                      ELSE u \in start]
    /\ thread_idx' = [u \in Units |-> IF u \in start THEN th[u] ELSE thread_idx[u]]
    /\ mask' = NextMask(mis)
    /\ wait' = [u \in Units |->
                  IF u \in Requests(mis) \ broadcasted(mis) THEN wait[u] + 1 ELSE 0]

BusNext ==
    \E mis \in SUBSET ThreadIds : \E start \in SUBSET Units :
    \E th \in [start -> ThreadIds \ mis] : BusEdge(mis, start, th)

BusSpec == BusInit /\ [][BusNext]_busVars
-----------------------------------------------------------------------------
\* How often n results fill the bus.
Rounds(n) == (n + C_CDB_NUM - 1) \div C_CDB_NUM

\* The longest a result may wait: its unit's previous result went out in the first
\* cycle of a round, so that it sits that round out. Some input with a lower
\* priority was left queued in that cycle, so that at most BC_IN_NUM - 2 others go
\* before it in the next round.
MaxWait == Rounds(BC_IN_NUM - C_CDB_NUM) + Rounds(BC_IN_NUM - 1) - 1

\* The types; the mask never hides every input.
BusTypeOK ==
    /\ valid_sh \in [Units -> BOOLEAN]
    /\ thread_idx \in [Units -> ThreadIds]
    /\ mask \in SUBSET Units \ {{}}
    /\ wait \in [Units -> Nat]

\* No unit starves behind the fixed priority of the encoders: the mask bounds the
\* wait of every result, whatever the others do and whatever is squashed
\* (BC.sv l.64-84).
WaitIsBounded == \A u \in Units : wait[u] <= MaxWait
=============================================================================
