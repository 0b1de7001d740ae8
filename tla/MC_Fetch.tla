------------------------------ MODULE MC_Fetch ------------------------------
(* Two threads with queues of two instructions over two blocks. *)
EXTENDS Fetch, TLC
=============================================================================
