------------------------------ MODULE MCXmodem ------------------------------
(***************************************************************************)
(* Two lines for one run of Xmodem: a bad one, where answers may also come *)
(* later than the other end waits (the run's own constants), and a good    *)
(* one, without a fault of the line, the disks or the operators.           *)
(***************************************************************************)
EXTENDS Xmodem

VARIABLE line   \* which of the two this behaviour has

Good == INSTANCE Xmodem
          WITH InitTries <- 2, FirstRead <- 2, MaxBlocks <- 3, Prompt <- TRUE,
               LineFaults <- FALSE, Forged <- {}, DiskFaults <- FALSE,
               Aborts <- FALSE

MCInit ==
  \/ line = "bad"  /\ Init
  \/ line = "good" /\ Good!Init

BadSender     == line = "bad"  /\ Sender
BadReceiver   == line = "bad"  /\ Receiver
BadOperators  == line = "bad"  /\ Operators
GoodSender    == line = "good" /\ Good!Sender
GoodReceiver  == line = "good" /\ Good!Receiver
GoodOperators == line = "good" /\ Good!Operators

MCNext ==
  /\ UNCHANGED line
  /\ \/ BadSender \/ BadReceiver \/ BadOperators
     \/ GoodSender \/ GoodReceiver \/ GoodOperators

MCSpec ==
  /\ MCInit /\ [][MCNext]_<<vars, line>>
  /\ WF_vars(BadSender) /\ WF_vars(BadReceiver)
  /\ WF_vars(GoodSender) /\ WF_vars(GoodReceiver)

\* On a good line, once the ends have agreed on the check, a file that needs
\* several disk reads (READ_BLK) and several buffers (WRITE_BLK) arrives whole
\* and the sender is told so.
Delivered ==
  (line = "good" /\ sPc = "read" /\ sCrc = RecvCrc)
    ~> (sPc = "acked" /\ rPc = "done" /\ Len(rFile) = N)
=============================================================================
