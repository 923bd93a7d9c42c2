----------------------------- MODULE MCModem7 -------------------------------
(***************************************************************************)
(* Constants for checking Modem7.  Names are one to three characters long; *)
(* the sum of the first one of TwoFiles passes 255.                        *)
(***************************************************************************)
EXTENDS Modem7

TwoFiles == << <<90, 88, 89>>, <<67>> >>
SohBlock == <<1, 254>>
=============================================================================
