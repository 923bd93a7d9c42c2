----------------------------- MODULE MCSpooler ------------------------------
(***************************************************************************)
(* Constants for checking Spooler: a file of two bytes, one of one byte on *)
(* another drive, and one that is not found.                               *)
(***************************************************************************)
EXTENDS Spooler

MCSize  == [f1 |-> 2, f2 |-> 1, f3 |-> 1]
MCDrive == [f1 |-> 0, f2 |-> 1, f3 |-> 0]
=============================================================================
