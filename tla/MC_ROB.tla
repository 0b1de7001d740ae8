------------------------------- MODULE MC_ROB -------------------------------
(* One thread's reorder buffer with a ring of a few entries. *)
EXTENDS ROB

CONSTANTS a, b, there

MCInst ==
    {[inst |-> a, br_predict |-> FALSE, wfi |-> FALSE],
     [inst |-> b, br_predict |-> TRUE,  wfi |-> FALSE],
     [inst |-> a, br_predict |-> FALSE, wfi |-> TRUE]}

MCResult ==
    {[br_result |-> FALSE, br_target |-> NoTarget],
     [br_result |-> TRUE,  br_target |-> there]}

=============================================================================
