----------------------------- MODULE MCSwapper ------------------------------
(***************************************************************************)
(* Constants for checking Swapper.  Programs are named after the ones that *)
(* call each other in the code; their sizes are 1 and 2 pages.             *)
(***************************************************************************)
EXTENDS Swapper

MCPrograms == {"answer", "exitsys", "shell"}
MCSize == [answer |-> 1, exitsys |-> 1, shell |-> 2]
=============================================================================
