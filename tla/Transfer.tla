------------------------------ MODULE Transfer ------------------------------
(***************************************************************************)
(* What a file transfer by xmodem means to the programs that start it at   *)
(* the two ends: how each end is told it went, and what the receiving disk *)
(* then holds.  No line, no frames, no block numbers.                      *)
(***************************************************************************)
EXTENDS Naturals

CONSTANT N   \* blocks in the file

VARIABLES
  s,    \* the sender's result: "busy", "sent", "presumed" or "failed"
  r,    \* the receiver's: "busy", "kept", "lost" (close failed) or "failed"
  got   \* blocks of the file, from the first one on, that the receiver has

vars == <<s, r, got>>

Init == s = "busy" /\ r = "busy" /\ got = 0

Store == r = "busy" /\ got < N /\ got' = got + 1 /\ UNCHANGED <<s, r>>

\* Only a whole file is kept.
Keep == r = "busy" /\ got = N /\ r' = "kept" /\ UNCHANGED <<s, got>>

Lose == r = "kept" /\ r' = "lost" /\ UNCHANGED <<s, got>>

\* A partial file is killed, if the disk lets it.
ReceiverFails ==
  r = "busy" /\ r' = "failed" /\ got' \in {0, got} /\ UNCHANGED s

\* The sender is told of success by a receiver that kept the file ...
Told == s = "busy" /\ r \in {"kept", "lost"} /\ s' = "sent" /\ UNCHANGED <<r, got>>

\* ... or presumes it, when all blocks but not the end were acknowledged.
Presume ==
  /\ s = "busy" /\ (got = N \/ r = "failed")
  /\ s' = "presumed" /\ UNCHANGED <<r, got>>

SenderFails == s = "busy" /\ s' = "failed" /\ UNCHANGED <<r, got>>

Next == Store \/ Keep \/ Lose \/ ReceiverFails \/ Told \/ Presume \/ SenderFails

Spec == Init /\ [][Next]_vars
=============================================================================
