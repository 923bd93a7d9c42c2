------------------------------- MODULE Xmodem -------------------------------
(***************************************************************************)
(* One file transfer by zeta-bbs/file-transfer/xmodem: the program run as  *)
(* sender (SEND, xmodem1.asm) at one end of a telephone line and as        *)
(* receiver (EXIST_2, RCV_LP, xmodem1.asm) at the other.  Each end is a    *)
(* single thread that polls a one-byte USART and a 40 Hz ticker; it acts   *)
(* on a byte, on a timeout, on the BREAK key and on loss of carrier.       *)
(*                                                                         *)
(* A block is its position in the file, 1..N.  A frame (header, 128 bytes, *)
(* check) arrives whole, or as something the header or check tests refuse. *)
(***************************************************************************)
EXTENDS Naturals, Sequences

CONSTANTS
  N,            \* blocks in the file that is sent
  BlkMod,       \* values of the one-byte block number (256 in the code)
  MaxNaks,      \* MAX_NAKS, xmodem.asm:46
  CNaks,        \* NAKs of the first block sent as 'C' (6), xmodem2.asm:175
  InitTries,    \* seconds INIT_AHC waits (80), xmodem1.asm:780
  FirstRead,    \* blocks of the first disk read (10), xmodem1.asm:151
  MaxBlocks,    \* MAX_BLOCKS, the size of BIG_BUFF, xmodem.asm:47
  RecvCrc,      \* the receiver's CRCMODE (1 unless an earlier send cleared it)
  Prompt,       \* no timer fires while the other end owes or sends an answer
  LineFaults,   \* frames and replies may be lost or damaged
  Forged,       \* headers that line noise may turn into a control code
  DiskFaults,   \* DOS calls may fail
  Aborts        \* the operators may press BREAK, the line may drop

ASSUME XmodemAssumption ==
  /\ N \in Nat /\ CNaks \in Nat
  /\ BlkMod \in Nat /\ BlkMod >= 4
  /\ MaxNaks \in Nat /\ MaxNaks > 0
  /\ InitTries \in Nat /\ InitTries > 0
  /\ FirstRead \in Nat /\ FirstRead > 0
  /\ MaxBlocks \in Nat /\ MaxBlocks > 0
  /\ RecvCrc \in BOOLEAN /\ Prompt \in BOOLEAN /\ LineFaults \in BOOLEAN
  /\ DiskFaults \in BOOLEAN /\ Aborts \in BOOLEAN
  /\ Forged \subseteq {"EOT", "CAN", "SYN"}

VARIABLES
  sPc,      \* where the sender is in SEND
  sNum,     \* its BLK_SNT, the number in the header
  sPos,     \* the block in its DATABUF
  sNaks,    \* its NNAKS
  sCrc,     \* its CRCMODE
  sTries,   \* register E in INIT_AHC
  sStored,  \* its BLK_STORED, blocks read from disk and not yet sent
  sMax,     \* its MAX_TOREAD
  sEof,     \* its FIL_EOF
  sBreak,   \* its XFABRT, set by the BREAK key
  rPc,      \* where the receiver is
  rNum,     \* its BLK_SNT, the number of the last block stored
  rNaks,    \* its NNAKS
  rFirst,   \* its FIRST_BLK
  rData,    \* the block in its DATABUF
  rFile,    \* the blocks it stored, in memory and on disk
  rStored,  \* its BLK_STORED: how many of them are only in BIG_BUFF
  rBreak,   \* its XFABRT
  toS,      \* the reply in the sender's USART
  toR,      \* the frame arriving at the receiver's USART
  carrier   \* not CDS_DISCON

sVars == <<sPc, sNum, sPos, sNaks, sCrc, sTries, sStored, sMax, sEof, sBreak>>
rVars == <<rPc, rNum, rNaks, rFirst, rData, rFile, rStored, rBreak>>
vars  == <<sVars, rVars, toS, toR, carrier>>

Nums     == 0 .. BlkMod - 1
SEnded   == {"acked", "unacked", "aborted"}
REnded   == {"done", "closefail", "aborted"}
SStates  == {"off", "init", "read", "send", "wait", "eot", "eotwait", "cancel"}
              \cup SEnded
RStates  == {"off", "wait", "flush", "store", "finish", "closing", "cancel"}
              \cup REnded
Replies  == {"none", "ACK", "NAK", "C", "CAN", "junk"}
Signal(k) == [kind |-> k, num |-> 0, data |-> 0, crc |-> FALSE]
Frames   == [kind : {"none", "SOH", "EOT", "CAN", "SYN", "junk"},
             num : Nums, data : 0 .. N, crc : BOOLEAN]

\* Mutant: a block number that does not wrap at a byte.
Succ_NoWrap(n) == n + 1

\* INC A on the one-byte block number.
Succ(n) == IF n = BlkMod - 1 THEN 0 ELSE n + 1

-----------------------------------------------------------------------------
(* The line.  PUT_BYTE does not wait for the other end: a byte that finds  *)
(* the register full overruns it, and nothing arrives without carrier.     *)

ReplyLands(r) ==
  IF ~carrier THEN {toS}
  ELSE {r} \cup (IF LineFaults THEN {toS, "junk"} ELSE {})

FrameLands(f) ==
  IF ~carrier THEN {toR}
  ELSE {f} \cup (IF toR.kind # "none" THEN {Signal("junk")} ELSE {})
           \cup (IF LineFaults
                 THEN {toR, Signal("junk")} \cup {Signal(k) : k \in Forged}
                 ELSE {})

\* GET_BYTE at the sender has timed out: nothing came, and if both ends are
\* prompt nothing is on its way.
SQuiet ==
  /\ toS = "none"
  /\ Prompt => \/ rPc \in REnded
               \/ toR.kind = "none" /\ rPc \in {"off", "wait", "flush"}

\* Mutant: a timeout shorter than the sender's answer.
RQuiet_Early == toR.kind = "none"

\* GET_BYTE at the receiver has timed out.
RQuiet ==
  /\ toR.kind = "none"
  /\ Prompt => \/ sPc \in SEnded \cup {"off"}
               \/ toS = "none" /\ sPc \in {"init", "wait", "eotwait"}

\* KEY_ABRT: BREAK was pressed or the carrier fell.
SAbrt == sBreak \/ ~carrier
RAbrt == rBreak \/ ~carrier

-----------------------------------------------------------------------------
Init ==
  /\ sPc = "off" /\ sNum = 0 /\ sPos = 0 /\ sNaks = 0 /\ sCrc = TRUE
  /\ sTries = InitTries /\ sStored = 0 /\ sMax = FirstRead
  /\ sEof = FALSE /\ sBreak = FALSE
  /\ rPc = "off" /\ rNum = 0 /\ rNaks = 0 /\ rFirst = TRUE /\ rData = 0
  /\ rFile = <<>> /\ rStored = 0 /\ rBreak = FALSE
  /\ toS = "none" /\ toR = Signal("none") /\ carrier = TRUE

-----------------------------------------------------------------------------
(* The sender.                                                             *)

\* The file is open; CONFIG resets the USART, which forgets an early reply.
AFF_2 ==
  /\ sPc = "off"
  /\ sPc' = "init" /\ toS' = "none"
  /\ UNCHANGED <<sNum, sPos, sNaks, sCrc, sTries, sStored, sMax, sEof, sBreak,
                 rVars, toR, carrier>>

\* The initial NAK or 'C' chooses between checksum and CRC.
INIT_AHC ==
  /\ sPc = "init" /\ ~SAbrt /\ toS \in {"NAK", "C"}
  /\ sCrc' = (toS = "C")
  /\ sPc' = "read" /\ toS' = "none"
  /\ UNCHANGED <<sNum, sPos, sNaks, sTries, sStored, sMax, sEof, sBreak,
                 rVars, toR, carrier>>

INIT_AHC_CAN ==
  /\ sPc = "init" /\ ~SAbrt /\ toS = "CAN"
  /\ sPc' = "cancel" /\ toS' = "none"
  /\ UNCHANGED <<sNum, sPos, sNaks, sCrc, sTries, sStored, sMax, sEof, sBreak,
                 rVars, toR, carrier>>

\* A second went by, or something else came: both use up one try.
IAHC_1 ==
  /\ sPc = "init" /\ ~SAbrt /\ toS \in {"none", "ACK", "junk"}
  /\ sTries' = sTries - 1 /\ toS' = "none"
  /\ sPc' = IF sTries = 1 THEN "cancel" ELSE "init"
  /\ UNCHANGED <<sNum, sPos, sNaks, sCrc, sStored, sMax, sEof, sBreak,
                 rVars, toR, carrier>>

\* READ_BLK refills an empty buffer with up to MAX_TOREAD blocks.
Refill == sStored = 0 /\ ~sEof
Chunk  == IF N - sPos >= sMax THEN sMax ELSE N - sPos

\* Mutant: FIL_EOF is looked at before BLK_STORED.
Ready_EofFirst == IF Refill THEN Chunk ELSE IF sEof THEN 0 ELSE sStored

Ready == IF Refill THEN Chunk ELSE sStored

READ_BLK ==
  /\ sPc = "read"
  /\ sEof' = (sEof \/ (Refill /\ N - sPos < sMax))
  /\ sMax' = IF Refill THEN MaxBlocks ELSE sMax
  /\ sNaks' = 0
  /\ \/ /\ Ready > 0
        /\ sStored' = Ready - 1
        /\ sPos' = sPos + 1 /\ sNum' = Succ(sNum) /\ sPc' = "send"
     \/ /\ Ready = 0
        /\ sPc' = "eot"
        /\ UNCHANGED <<sStored, sPos, sNum>>
  /\ UNCHANGED <<sCrc, sTries, sBreak, rVars, toS, toR, carrier>>

\* ROM@GET failed while the buffer was filled.
READ_BLK_error ==
  /\ sPc = "read" /\ Refill /\ DiskFaults
  /\ sPc' = "cancel"
  /\ UNCHANGED <<sNum, sPos, sNaks, sCrc, sTries, sStored, sMax, sEof, sBreak,
                 rVars, toS, toR, carrier>>

\* SEND_HDR, SEND_BLK, SEND_CHECK.
SLP_1 ==
  /\ sPc = "send" /\ ~SAbrt
  /\ toR' \in FrameLands([kind |-> "SOH", num |-> sNum, data |-> sPos,
                          crc |-> sCrc])
  /\ sPc' = "wait"
  /\ UNCHANGED <<sNum, sPos, sNaks, sCrc, sTries, sStored, sMax, sEof, sBreak,
                 rVars, toS, carrier>>

\* WAIT_RESP returns: the block was acknowledged.
WAIT_RESP ==
  /\ sPc = "wait" /\ ~SAbrt /\ toS = "ACK"
  /\ sPc' = "read" /\ toS' = "none"
  /\ UNCHANGED <<sNum, sPos, sNaks, sCrc, sTries, sStored, sMax, sEof, sBreak,
                 rVars, toR, carrier>>

\* Mutant: NNAKS is cleared each time the block is sent, not once per block.
AFY_NoCount ==
  /\ sPc = "wait" /\ ~SAbrt
  /\ toS \in {"NAK", "C"} \/ SQuiet
  /\ sNaks' = 1 /\ toS' = "none" /\ sPc' = "send"
  /\ UNCHANGED <<sNum, sPos, sCrc, sTries, sStored, sMax, sEof, sBreak,
                 rVars, toR, carrier>>

\* A NAK, a 'C' or a timeout: the block goes out again, up to MAX_NAKS times.
AFY ==
  /\ sPc = "wait" /\ ~SAbrt
  /\ toS \in {"NAK", "C"} \/ SQuiet
  /\ sNaks' = sNaks + 1 /\ toS' = "none"
  /\ sPc' = IF sNaks + 1 >= MaxNaks THEN "cancel" ELSE "send"
  /\ UNCHANGED <<sNum, sPos, sCrc, sTries, sStored, sMax, sEof, sBreak,
                 rVars, toR, carrier>>

\* The other end cancels (two CANs); any other character restarts the wait.
AFY_4 ==
  /\ sPc \in {"wait", "eotwait"} /\ ~SAbrt /\ toS \in {"CAN", "junk"}
  /\ sPc' = IF toS = "CAN" THEN "cancel" ELSE sPc
  /\ toS' = "none"
  /\ UNCHANGED <<sNum, sPos, sNaks, sCrc, sTries, sStored, sMax, sEof, sBreak,
                 rVars, toR, carrier>>

SND_EOT_0 ==
  /\ sPc = "eot"
  /\ toR' \in FrameLands(Signal("EOT"))
  /\ sPc' = "eotwait"
  /\ UNCHANGED <<sNum, sPos, sNaks, sCrc, sTries, sStored, sMax, sEof, sBreak,
                 rVars, toS, carrier>>

S_E_2 ==
  /\ sPc = "eotwait" /\ ~SAbrt /\ toS = "ACK"
  /\ sPc' = "acked" /\ toS' = "none"
  /\ UNCHANGED <<sNum, sPos, sNaks, sCrc, sTries, sStored, sMax, sEof, sBreak,
                 rVars, toR, carrier>>

\* WAIT_RESP counts a refused EOT and SND_EOT_0 counts it again; the count
\* reaching MAX_NAKS there ends the transfer as "completed" (S_E_3).
EOT_again ==
  /\ sPc = "eotwait" /\ ~SAbrt
  /\ toS \in {"NAK", "C"} \/ SQuiet
  /\ toS' = "none"
  /\ \/ /\ sNaks + 1 >= MaxNaks
        /\ sNaks' = sNaks + 1 /\ sPc' = "cancel"
     \/ /\ sNaks + 1 < MaxNaks
        /\ sNaks' = sNaks + 2
        /\ sPc' = IF sNaks + 2 = MaxNaks THEN "unacked" ELSE "eot"
  /\ UNCHANGED <<sNum, sPos, sCrc, sTries, sStored, sMax, sEof, sBreak,
                 rVars, toR, carrier>>

\* POSS_ABRT: before a header, after a frame or EOT, and while waiting.
S_POSS_ABRT ==
  /\ sPc \in {"init", "send", "wait", "eotwait"} /\ SAbrt
  /\ sPc' = "cancel"
  /\ UNCHANGED <<sNum, sPos, sNaks, sCrc, sTries, sStored, sMax, sEof, sBreak,
                 rVars, toS, toR, carrier>>

\* WAIT_ONE reads until the line is silent, then two CANs go out (AHD exits).
S_WAIT_ONE ==
  /\ sPc = "cancel" /\ toS # "none"
  /\ toS' = "none"
  /\ UNCHANGED <<sVars, rVars, toR, carrier>>

S_SEND_CANS ==
  /\ sPc = "cancel" /\ toS = "none"
  /\ Prompt => toR.kind = "none" \/ rPc \in REnded \cup {"off"}
  /\ toR' \in FrameLands(Signal("CAN"))
  /\ sPc' = "aborted"
  /\ UNCHANGED <<sNum, sPos, sNaks, sCrc, sTries, sStored, sMax, sEof, sBreak,
                 rVars, toS, carrier>>

-----------------------------------------------------------------------------
(* The receiver.                                                           *)

\* The file is open; CONFIG resets the USART and INITIAL_NAK calls the sender.
EXIST_2 ==
  /\ rPc = "off"
  /\ rPc' = "wait" /\ toR' = Signal("none")
  /\ toS' \in ReplyLands(IF RecvCrc THEN "C" ELSE "NAK")
  /\ UNCHANGED <<rNum, rNaks, rFirst, rData, rFile, rStored, rBreak,
                 sVars, carrier>>

\* A frame whose check is of the kind this end expects.
Sound == toR.kind = "SOH" /\ toR.crc = RecvCrc

\* Mutant: any other number than the last one is a new block.
NextBlock_AnyNew == Sound /\ toR.num # rNum

NextBlock == Sound /\ toR.num # rNum /\ toR.num = Succ(rNum)

\* Mutant: any number that is not the next one is an old block.
Duplicate_AnyOld == Sound /\ ~NextBlock

Duplicate == Sound /\ toR.num = rNum

\* GET_BLK returns a block: the next one, to be stored.
CHECK_SEQ ==
  /\ rPc = "wait" /\ ~RAbrt /\ NextBlock
  /\ rData' = toR.data /\ rPc' = "store" /\ toR' = Signal("none")
  /\ UNCHANGED <<rNum, rNaks, rFirst, rFile, rStored, rBreak,
                 sVars, toS, carrier>>

\* The number of the block already stored: acknowledge and throw away.  A
\* Telink header (SYN) is acknowledged unread too.
AFR ==
  /\ rPc = "wait" /\ ~RAbrt
  /\ Duplicate \/ toR.kind = "SYN"
  /\ rNaks' = 0 /\ toR' = Signal("none")
  /\ toS' \in ReplyLands("ACK")
  /\ UNCHANGED <<rPc, rNum, rFirst, rData, rFile, rStored, rBreak,
                 sVars, carrier>>

\* Silence, junk, a bad check or a number out of sequence.
MSG_NAK ==
  /\ rPc = "wait" /\ ~RAbrt
  /\ \/ RQuiet
     \/ toR.kind = "junk"
     \/ toR.kind = "SOH" /\ ~Sound
     \/ Sound /\ ~NextBlock /\ ~Duplicate
  /\ rPc' = "flush" /\ toR' = Signal("none")
  /\ UNCHANGED <<rNum, rNaks, rFirst, rData, rFile, rStored, rBreak,
                 sVars, toS, carrier>>

\* SEND_NAK first swallows what arrives until the line is silent.
SN_0 ==
  /\ rPc = "flush" /\ ~RAbrt /\ toR.kind # "none"
  /\ toR' = Signal("none")
  /\ UNCHANGED <<rVars, sVars, toS, carrier>>

\* Mutant: NAKs are not counted.
SEND_NAK_NoCount ==
  /\ rPc = "flush" /\ ~RAbrt /\ RQuiet
  /\ toS' \in ReplyLands(IF rFirst THEN "C" ELSE "NAK")
  /\ rPc' = "wait"
  /\ UNCHANGED <<rNum, rNaks, rFirst, rData, rFile, rStored, rBreak,
                 sVars, toR, carrier>>

SEND_NAK ==
  /\ rPc = "flush" /\ ~RAbrt /\ RQuiet
  /\ toS' \in ReplyLands(IF rFirst /\ rNaks < CNaks THEN "C" ELSE "NAK")
  /\ rNaks' = rNaks + 1
  /\ rPc' = IF rNaks + 1 < MaxNaks THEN "wait" ELSE "cancel"
  /\ UNCHANGED <<rNum, rFirst, rData, rFile, rStored, rBreak,
                 sVars, toR, carrier>>

\* RCV_LP: WRITE_BLK stores the block (AGR writes the buffer out when it is
\* full), INC_SNT counts it, SEND_ACK; GET_BLK is entered again.
BufferFull == rStored + 1 = MaxBlocks

WRITE_BLK ==
  /\ rPc = "store" /\ ~RAbrt
  /\ rFile' = Append(rFile, rData)
  /\ rStored' = IF BufferFull THEN 0 ELSE rStored + 1
  /\ rNum' = Succ(rNum) /\ rNaks' = 0 /\ rFirst' = FALSE /\ rPc' = "wait"
  /\ toS' \in ReplyLands("ACK")
  /\ UNCHANGED <<rData, rBreak, sVars, toR, carrier>>

\* AGR failed after writing a part of the buffer.
CANT_WRITE ==
  /\ DiskFaults
  /\ \/ /\ rPc = "store" /\ ~RAbrt /\ BufferFull
        /\ rFile' = Append(rFile, rData) /\ rFirst' = FALSE
        /\ rStored' \in 1 .. MaxBlocks
     \/ /\ rPc = "finish" /\ rStored > 0
        /\ rStored' \in 1 .. rStored
        /\ UNCHANGED <<rFile, rFirst>>
  /\ rPc' = "cancel"
  /\ UNCHANGED <<rNum, rNaks, rData, rBreak, sVars, toS, toR, carrier>>

\* GET_BLK returns with carry set: the end of the file.
GET_BLK_EOT ==
  /\ rPc = "wait" /\ ~RAbrt /\ toR.kind = "EOT"
  /\ rPc' = "finish" /\ toR' = Signal("none")
  /\ UNCHANGED <<rNum, rNaks, rFirst, rData, rFile, rStored, rBreak,
                 sVars, toS, carrier>>

\* Mutant: the EOT is acknowledged with the last blocks still in memory.
RCV_OK_NoSave ==
  /\ rPc = "finish"
  /\ rPc' = "closing" /\ toS' \in ReplyLands("ACK")
  /\ UNCHANGED <<rNum, rNaks, rFirst, rData, rFile, rStored, rBreak,
                 sVars, toR, carrier>>

\* RCV_OK: AGR saves the rest, then the EOT is acknowledged (ROK_5) ...
RCV_OK ==
  /\ rPc = "finish"
  /\ rStored' = 0 /\ rPc' = "closing"
  /\ toS' \in ReplyLands("ACK")
  /\ UNCHANGED <<rNum, rNaks, rFirst, rData, rFile, rBreak,
                 sVars, toR, carrier>>

\* ... and only then is the file closed.
F_CLOSE ==
  /\ rPc = "closing"
  /\ \/ rPc' = "done"
     \/ DiskFaults /\ rPc' = "closefail"
  /\ UNCHANGED <<rNum, rNaks, rFirst, rData, rFile, rStored, rBreak,
                 sVars, toS, toR, carrier>>

SNDR_CANCELS ==
  /\ rPc = "wait" /\ ~RAbrt /\ toR.kind = "CAN"
  /\ rPc' = "cancel" /\ toR' = Signal("none")
  /\ UNCHANGED <<rNum, rNaks, rFirst, rData, rFile, rStored, rBreak,
                 sVars, toS, carrier>>

R_POSS_ABRT ==
  /\ rPc \in {"wait", "flush", "store"} /\ RAbrt
  /\ rPc' = "cancel"
  /\ UNCHANGED <<rNum, rNaks, rFirst, rData, rFile, rStored, rBreak,
                 sVars, toS, toR, carrier>>

R_WAIT_ONE ==
  /\ rPc = "cancel" /\ toR.kind # "none"
  /\ toR' = Signal("none")
  /\ UNCHANGED <<rVars, sVars, toS, carrier>>

\* Two CANs, then AHD kills the partial file.
R_SEND_CANS ==
  /\ rPc = "cancel" /\ toR.kind = "none"
  /\ Prompt => toS = "none" \/ sPc \in SEnded \cup {"off"}
  /\ toS' \in ReplyLands("CAN")
  /\ rPc' = "aborted"
  /\ \/ rFile' = <<>> /\ rStored' = 0
     \/ DiskFaults /\ UNCHANGED <<rFile, rStored>>
  /\ UNCHANGED <<rNum, rNaks, rFirst, rData, rBreak, sVars, toR, carrier>>

-----------------------------------------------------------------------------
(* The operators and the telephone line.                                   *)

S_BREAK ==
  /\ Aborts /\ ~sBreak /\ sPc \notin SEnded \cup {"off"}
  /\ sBreak' = TRUE
  /\ UNCHANGED <<sPc, sNum, sPos, sNaks, sCrc, sTries, sStored, sMax, sEof,
                 rVars, toS, toR, carrier>>

R_BREAK ==
  /\ Aborts /\ ~rBreak /\ rPc \notin REnded \cup {"off"}
  /\ rBreak' = TRUE
  /\ UNCHANGED <<rPc, rNum, rNaks, rFirst, rData, rFile, rStored,
                 sVars, toS, toR, carrier>>

HANGUP ==
  /\ Aborts /\ carrier
  /\ carrier' = FALSE /\ toS' = "none" /\ toR' = Signal("none")
  /\ UNCHANGED <<sVars, rVars>>

-----------------------------------------------------------------------------
Sender ==
  \/ INIT_AHC \/ INIT_AHC_CAN \/ IAHC_1
  \/ READ_BLK \/ READ_BLK_error \/ SLP_1
  \/ WAIT_RESP \/ AFY \/ AFY_4
  \/ SND_EOT_0 \/ S_E_2 \/ EOT_again
  \/ S_POSS_ABRT \/ S_WAIT_ONE \/ S_SEND_CANS

Receiver ==
  \/ CHECK_SEQ \/ AFR \/ MSG_NAK \/ SN_0 \/ SEND_NAK
  \/ WRITE_BLK \/ CANT_WRITE \/ GET_BLK_EOT \/ RCV_OK \/ F_CLOSE
  \/ SNDR_CANCELS \/ R_POSS_ABRT \/ R_WAIT_ONE \/ R_SEND_CANS

Operators == AFF_2 \/ EXIST_2 \/ S_BREAK \/ R_BREAK \/ HANGUP

Next == Sender \/ Receiver \/ Operators

Spec == Init /\ [][Next]_vars

\* Each end polls in a loop that neither sleeps nor waits for the other, so a
\* step it can take is taken.  Nobody has to start an end or to interfere.
FairSpec == Spec /\ WF_vars(Sender) /\ WF_vars(Receiver)

-----------------------------------------------------------------------------
TypeOK ==
  /\ sPc \in SStates /\ sNum \in Nums /\ sPos \in 0 .. N
  /\ sNaks \in 0 .. MaxNaks /\ sCrc \in BOOLEAN
  /\ sTries \in 0 .. InitTries /\ sStored \in 0 .. N - sPos
  /\ sMax \in {FirstRead, MaxBlocks} /\ sEof \in BOOLEAN /\ sBreak \in BOOLEAN
  /\ rPc \in RStates /\ rNum \in Nums /\ rNaks \in 0 .. MaxNaks
  /\ rFirst \in BOOLEAN /\ rData \in 0 .. N /\ rFile \in Seq(0 .. N)
  /\ rStored \in 0 .. MaxBlocks /\ rBreak \in BOOLEAN
  /\ toS \in Replies /\ toR \in Frames /\ carrier \in BOOLEAN

\* What the receiver stores is the file from its first block on: no block is
\* missing, repeated or out of place, although a header holds only one byte of
\* the block number and late replies may put the sender ahead of it
\* (CHECK_SEQ, AFR).
InOrder == \A i \in 1 .. Len(rFile) : rFile[i] = i

\* However late the replies, a sender is never more than three blocks ahead of a
\* receiver that still stores blocks, and never behind it; that is what makes
\* one byte of block number enough (CHECK_SEQ, WAIT_RESP).
Receiving == rPc \in {"off", "wait", "flush", "store"}

LeadBounded ==
  Receiving => Len(rFile) <= sPos /\ sPos <= Len(rFile) + 3

\* A sender told that its EOT arrived has delivered the whole file, and all of
\* it is on the receiver's disk (S_E_2 against RCV_OK).
AckedMeansWhole ==
  sPc = "acked" =>
    /\ Len(rFile) = N /\ rStored = 0
    /\ rPc \in {"closing", "done", "closefail"}

\* A receiver that ends normally keeps the whole file, never a part of it that
\* looks complete (RCV_OK, F_CLOSE).
ClosedMeansWhole ==
  rPc \in {"closing", "done", "closefail"} => Len(rFile) = N /\ rStored = 0

\* While both ends are prompt, the exchange of frames and replies amounts to an
\* abstract transfer: the receiver's file grows block by block, only a whole
\* file is kept, and only then is the sender told (SEND and RCV_LP together).
TR == INSTANCE Transfer WITH
  s <- CASE sPc = "acked" -> "sent" [] sPc = "unacked" -> "presumed"
         [] sPc = "aborted" -> "failed" [] OTHER -> "busy",
  r <- CASE rPc \in {"closing", "done"} -> "kept" [] rPc = "closefail" -> "lost"
         [] rPc = "aborted" -> "failed" [] OTHER -> "busy",
  got <- Len(rFile)

ImplementsTransfer == TR!Spec

\* An ACK the sender finds while it waits is for the block it sent last, not
\* one left over from an earlier copy (WAIT_RESP does not look at numbers).
AckIsForThisBlock ==
  toS = "ACK" /\ sPc = "wait" => Len(rFile) = sPos

\* Each end stops, whatever the line, the disks and the operators do: the
\* retry counts of the two ends never keep each other alive (GET_BLK clears
\* NNAKS after every duplicate).
SenderEnds   == sPc # "off" ~> sPc \in SEnded
ReceiverEnds == rPc # "off" ~> rPc \in REnded

\* Success is what happened: an ACK is believed only for the block it is for, and an end
\* that was told of success, or keeps the file, has the whole of it (SEND, RCV_LP).
ToldTruth == AckIsForThisBlock /\ AckedMeansWhole /\ ClosedMeansWhole

\* Whatever the other end does, or fails to do, neither end goes on for ever.
BothEnd == SenderEnds /\ ReceiverEnds
=============================================================================
