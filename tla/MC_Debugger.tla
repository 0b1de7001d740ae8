---------------------------- MODULE MC_Debugger ----------------------------
(* A small instance of the debugger for TLC. *)
EXTENDS Debugger
=============================================================================
