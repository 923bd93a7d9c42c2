------------------------------- MODULE Modem7 -------------------------------
(***************************************************************************)
(* zeta-bbs/comm/ftalk/ftalk2.asm: FILE_SEND at one end of a telephone     *)
(* line and FILE_RECV at the other.  They agree on the name of each file   *)
(* byte by byte (the Modem7 handshake), run xmodem for the file, and go on *)
(* to the next name until the sender answers EOT.                          *)
(*                                                                         *)
(* Bytes are numbers, for the checksum of a name may be any byte, an ACK   *)
(* or a NAK, too.  Reading a byte and what is sent in answer is one step.  *)
(***************************************************************************)
EXTENDS Naturals, Sequences, SequencesExt

CONSTANTS
  Files,       \* the names of the .fa file, padded by CONVFN, '*' ones left out
  MaxTries,    \* 20: tries of a question or of a name
  Block,       \* what xmodem -s sends when asked for its first block
  Junk,        \* bytes that a damaged byte may turn into
  MaxLost,     \* bound: bytes the line loses
  MaxDamaged,  \* bound: bytes the line damages
  MaxLate,     \* bound: answers that come after the timeout
  XferFaults,  \* xmodem may fail, at one end or at both
  PeerTsync    \* the receiver sends TSYNC when it turns the line around

Byte == 0 .. 255

ASSUME Modem7Assumption ==
  /\ Files \in Seq(Seq(Byte) \ {<<>>})
  /\ MaxTries \in Nat \ {0, 1}
  /\ Block \in Seq(Byte) /\ Junk \subseteq Byte
  /\ MaxLost \in Nat /\ MaxDamaged \in Nat /\ MaxLate \in Nat
  /\ XferFaults \in BOOLEAN /\ PeerTsync \in BOOLEAN

ACK == 6
NAK == 21
EOT == 4
SUB == 26
U   == 117    \* 'u': the sender gives the name up
CRC == 67     \* 'C'
TSYNC == 174

VARIABLES
  sPc,      \* the GET_BYTE the sender is at: see SPcs
  tries,    \* TRIES
  next,     \* the file of Files that READFN reads, or read last
  pos,      \* the character of its name that FS_MS1 sends next
  sSum,     \* C in MODEM7_FNAME1
  rPc,      \* the GET_BYTE the receiver is at: see RPcs
  m7try,    \* M7_TRY
  field,    \* M7_FIELD
  rSum,     \* C in MODEM7_FNAME
  heard,    \* the names of the files received
  toR, toS, \* the line
  lost, damaged, late

sender   == <<sPc, tries, next, pos, sSum>>
receiver == <<rPc, m7try, field, rSum, heard>>
line     == <<toR, toS, lost, damaged, late>>
vars     == <<sender, receiver, line>>

SPcs == {"FS_02", "MF1_00A", "FS_MS1", "FS_MS2", "xmodem", "done", "fatal"}
RPcs == {"flush", "flush again", "MF_01", "MF_04", "MF_06", "xmodem", "done", "fatal"}

Name == Files[next]
More == next <= Len(Files)

\* Mutant: the sum of the characters is not a byte.
Add_Wide(a, b) == a + b

Add(a, b) == (a + b) % 256
SumOf(name) == FoldLeft(Add, 0, Append(name, SUB))

Init ==
  /\ sPc = "FS_02" /\ tries = 1 /\ next = 1 /\ pos = 1 /\ sSum = 0
  /\ rPc = "flush" /\ m7try = 0 /\ field = <<>> /\ rSum = 0 /\ heard = <<>>
  /\ toR = <<>> /\ toS = <<>> /\ lost = 0 /\ damaged = 0
  /\ late = 0

-----------------------------------------------------------------------------
(* GET_BYTE and PUT_BYTE.                                                  *)

SGet == toS # <<>> /\ toS' = Tail(toS) /\ late' = late
RGet == toR # <<>> /\ toR' = Tail(toR) /\ late' = late

\* GET_BYTE times out: after 1 second at MF_04 and MF_06, 2 and 3 seconds at
\* the sender, 5 at MF_01.  The end with the shorter time gives up first, and
\* neither while the other has something to answer, unless the answer is late.
Waits(pcs) ==
  (toR = <<>> /\ rPc \in pcs) \/ rPc \in {"done", "fatal"}

OrLate(onTime) ==
  \/ onTime /\ late' = late
  \/ ~onTime /\ late < MaxLate /\ late' = late + 1

SQuiet ==
  toS = <<>> /\ toS' = toS /\ OrLate(Waits({"MF_01", "xmodem"}))

RQuiet ==
  toR = <<>> /\ toR' = toR /\ OrLate(toS = <<>> \/ sPc \in {"done", "fatal"})

-----------------------------------------------------------------------------
(* FILE_SEND.                                                              *)

\* Bytes sent to an end that has stopped are never read.
Sends(bytes) ==
  toR' = IF rPc \in {"done", "fatal"} THEN toR ELSE toR \o bytes

\* Mutant: TRIES is stored before it is counted.
Retry_NoCount(pc) ==
  /\ sPc' = pc /\ UNCHANGED <<tries, next, pos, sSum>>

\* One try more at FS_02 or FS_MS0.
Retry(pc) ==
  /\ tries' = tries + 1
  /\ sPc' = IF tries' = MaxTries THEN "fatal" ELSE pc
  /\ UNCHANGED <<next, pos, sSum>>

\* Mutant: the last name of the list is taken for its end.
FF_06_OneLess ==
  IF next < Len(Files)
  THEN /\ sPc' = "MF1_00A" /\ tries' = 1
       /\ Sends(<<>>) /\ UNCHANGED <<next, pos, sSum>>
  ELSE Sends(<<EOT>>) /\ Retry("FS_02")

\* FF_06 and FF_07: with no file left the answer is EOT.
FF_06 ==
  IF More
  THEN /\ sPc' = "MF1_00A" /\ tries' = 1
       /\ Sends(<<>>) /\ UNCHANGED <<next, pos, sSum>>
  ELSE Sends(<<EOT>>) /\ Retry("FS_02")

FS_02(b) ==
  /\ sPc = "FS_02"
  /\ \/ b \in {NAK, CRC} /\ FF_06
     \/ /\ b = TSYNC
        /\ sPc' = "done" /\ Sends(<<>>) /\ UNCHANGED <<tries, next, pos, sSum>>
     \/ b \notin {NAK, CRC, TSYNC} /\ Retry("FS_02") /\ Sends(<<>>)

\* The name starts with the answer to a second NAK.
MF1_00A(b) ==
  /\ sPc = "MF1_00A"
  /\ IF b = NAK
     THEN /\ Sends(<<ACK, Name[1]>>)
          /\ sPc' = "FS_MS1" /\ pos' = 2 /\ sSum' = Name[1]
          /\ UNCHANGED <<tries, next>>
     ELSE Retry("MF1_00A") /\ Sends(<<>>)

FS_MS1(b) ==
  /\ sPc = "FS_MS1"
  /\ IF b = ACK
     THEN LET c == IF pos > Len(Name) THEN SUB ELSE Name[pos] IN
            /\ Sends(<<c>>) /\ sSum' = Add(sSum, c) /\ pos' = pos + 1
            /\ sPc' = IF pos > Len(Name) THEN "FS_MS2" ELSE "FS_MS1"
            /\ UNCHANGED <<tries, next>>
     ELSE Sends(<<U>>) /\ Retry("MF1_00A")

\* Mutant: the receiver's checksum is not compared.
FS_MS2_AnySum(b) ==
  /\ sPc = "FS_MS2"
  /\ Sends(<<ACK>>) /\ sPc' = "xmodem" /\ UNCHANGED <<tries, next, pos, sSum>>

FS_MS2(b) ==
  /\ sPc = "FS_MS2"
  /\ IF b = sSum
     THEN /\ Sends(<<ACK>>) /\ sPc' = "xmodem"
          /\ UNCHANGED <<tries, next, pos, sSum>>
     ELSE Retry("MF1_00A") /\ Sends(<<>>)

S_timeout ==
  /\ SQuiet
  /\ \/ sPc = "FS_02" /\ Sends(<<>>) /\ Retry("FS_02")
     \/ sPc \in {"MF1_00A", "FS_MS2"} /\ Sends(<<>>) /\ Retry("MF1_00A")
     \/ sPc = "FS_MS1" /\ Sends(<<U>>) /\ Retry("MF1_00A")

\* xmodem -qcs, while the other end does not run xmodem: asked for a block it
\* sends one; in the end, after minutes, it gives up.
XMF_S_alone ==
  /\ sPc = "xmodem" /\ rPc # "xmodem"
  /\ \/ /\ SGet /\ UNCHANGED sender
        /\ Sends(IF Head(toS) \in {NAK, CRC} THEN Block ELSE <<>>)
     \/ /\ toS = <<>> /\ toS' = toS /\ Waits({"MF_01"}) /\ late' = late
        /\ sPc' = "fatal" /\ Sends(<<>>)
        /\ UNCHANGED <<tries, next, pos, sSum>>

-----------------------------------------------------------------------------
(* FILE_RECV.                                                              *)

Answers(bytes) ==
  toS' = IF sPc \in {"done", "fatal"} THEN toS ELSE toS \o bytes

\* Mutant: M7_TRY is not counted.
MF_00_NoCount ==
  /\ Answers(<<NAK>>) /\ rPc' = "MF_01" /\ UNCHANGED <<m7try, field, rSum, heard>>

\* MF_00: ask for a name, at most so many times.
MF_00 ==
  /\ m7try' = m7try + 1
  /\ IF m7try' = MaxTries THEN rPc' = "fatal" /\ Answers(<<>>)
                          ELSE rPc' = "MF_01" /\ Answers(<<NAK>>)
  /\ UNCHANGED <<field, rSum, heard>>

\* The two GET_BYTEs before the first MF_00.
Flush ==
  /\ RQuiet \/ RGet
  /\ \/ /\ rPc = "flush" /\ rPc' = "flush again"
        /\ Answers(<<>>) /\ UNCHANGED <<m7try, field, rSum, heard>>
     \/ rPc = "flush again" /\ MF_00

MF_01(b) ==
  /\ rPc = "MF_01"
  /\ \/ /\ b = ACK
        /\ rPc' = "MF_04" /\ field' = <<>> /\ rSum' = 0
        /\ Answers(<<>>) /\ UNCHANGED <<m7try, heard>>
     \/ /\ b \in {SUB, EOT}
        /\ rPc' = "done" /\ Answers(IF b = SUB THEN <<ACK>> ELSE <<>>)
        /\ UNCHANGED <<m7try, field, rSum, heard>>
     \/ b \notin {ACK, SUB, EOT} /\ MF_00

MF_04(b) ==
  /\ rPc = "MF_04"
  /\ \/ /\ b = EOT
        /\ rPc' = "done" /\ Answers(<<>>)
        /\ UNCHANGED <<m7try, field, rSum, heard>>
     \/ /\ b = SUB
        /\ rPc' = "MF_06" /\ Answers(<<Add(rSum, SUB)>>)
        /\ UNCHANGED <<m7try, field, rSum, heard>>
     \/ b = U /\ MF_00
     \/ /\ b \notin {EOT, SUB, U}
        /\ field' = Append(field, b) /\ rSum' = Add(rSum, b)
        /\ Answers(<<ACK>>) /\ UNCHANGED <<rPc, m7try, heard>>

\* Mutant: whatever follows the checksum accepts the name.
MF_06_AnyByte(b) ==
  /\ rPc = "MF_06"
  /\ rPc' = "xmodem" /\ Answers(<<>>) /\ UNCHANGED <<m7try, field, rSum, heard>>

MF_06(b) ==
  /\ rPc = "MF_06"
  /\ \/ /\ b = ACK
        /\ rPc' = "xmodem" /\ Answers(<<>>)
        /\ UNCHANGED <<m7try, field, rSum, heard>>
     \/ b # ACK /\ MF_00

R_timeout == rPc \in {"MF_01", "MF_04", "MF_06"} /\ RQuiet /\ MF_00

\* xmodem -qcr, likewise, asks for a block until it gives up.
XMF_R_alone ==
  /\ rPc = "xmodem" /\ sPc # "xmodem"
  /\ \/ RGet /\ Answers(<<>>) /\ UNCHANGED receiver
     \/ /\ RQuiet /\ m7try' = m7try + 1
        /\ IF m7try' >= MaxTries THEN rPc' = "fatal" /\ Answers(<<>>)
                                 ELSE rPc' = "xmodem" /\ Answers(<<CRC>>)
        /\ UNCHANGED <<field, rSum, heard>>

\* FTS-1: the end that has received sends next, and says so a few times (m7try
\* counts).  In ftalk2 only WHACK_CR sends TSYNC, for the end that dialled.
Turnaround ==
  /\ PeerTsync /\ rPc = "done" /\ toS = <<>> /\ UNCHANGED <<toR, late>>
  /\ m7try < MaxTries /\ m7try' = m7try + 1
  /\ Answers(<<TSYNC>>) /\ UNCHANGED <<rPc, field, rSum, heard>>

-----------------------------------------------------------------------------
(* Both.                                                                   *)

\* Mutant: the next name is not read.
Transfer_SameName(sok, rok) ==
  /\ sPc = "xmodem" /\ rPc = "xmodem"
  /\ ~(sok /\ rok) => XferFaults
  /\ sPc' = IF sok THEN "FS_02" ELSE "fatal"
  /\ tries' = 1 /\ UNCHANGED <<next, pos, sSum>>
  /\ rPc' = IF rok THEN "MF_01" ELSE "fatal"
  /\ heard' = IF rok THEN Append(heard, field) ELSE heard
  /\ m7try' = 1 /\ UNCHANGED <<field, rSum>>
  /\ toR' = <<>> /\ toS' = IF rok THEN <<NAK>> ELSE <<>>

\* xmodem at both ends, as in module Xmodem.  Each end goes on to its next file
\* or reports the failure.
Transfer(sok, rok) ==
  /\ sPc = "xmodem" /\ rPc = "xmodem"
  /\ ~(sok /\ rok) => XferFaults
  /\ sPc' = IF sok THEN "FS_02" ELSE "fatal"
  /\ tries' = 1 /\ next' = next + 1 /\ UNCHANGED <<pos, sSum>>
  /\ rPc' = IF rok THEN "MF_01" ELSE "fatal"
  /\ heard' = IF rok THEN Append(heard, field) ELSE heard
  /\ m7try' = 1 /\ UNCHANGED <<field, rSum>>
  /\ toR' = <<>> /\ toS' = IF rok THEN <<NAK>> ELSE <<>>

Lose ==
  /\ lost < MaxLost /\ lost' = lost + 1
  /\ \/ \E i \in DOMAIN toR : toR' = RemoveAt(toR, i) /\ toS' = toS
     \/ \E i \in DOMAIN toS : toS' = RemoveAt(toS, i) /\ toR' = toR
  /\ UNCHANGED <<sender, receiver, damaged, late>>

Damage ==
  /\ damaged < MaxDamaged /\ damaged' = damaged + 1
  /\ \E j \in Junk :
       \/ \E i \in DOMAIN toR : toR' = [toR EXCEPT ![i] = j] /\ toS' = toS
       \/ \E i \in DOMAIN toS : toS' = [toS EXCEPT ![i] = j] /\ toR' = toR
  /\ UNCHANGED <<sender, receiver, lost, late>>

-----------------------------------------------------------------------------
SenderStep ==
  \/ SGet /\ LET b == Head(toS) IN
               FS_02(b) \/ MF1_00A(b) \/ FS_MS1(b) \/ FS_MS2(b)
  \/ S_timeout \/ XMF_S_alone

ReceiverStep ==
  \/ RGet /\ LET b == Head(toR) IN MF_01(b) \/ MF_04(b) \/ MF_06(b)
  \/ Flush \/ R_timeout \/ XMF_R_alone \/ Turnaround

SenderActs   == SenderStep /\ UNCHANGED <<receiver, lost, damaged>>
ReceiverActs == ReceiverStep /\ UNCHANGED <<sender, lost, damaged>>
BothActs     == /\ \E sok, rok \in BOOLEAN : Transfer(sok, rok)
                /\ UNCHANGED <<lost, damaged, late>>

Next == SenderActs \/ ReceiverActs \/ BothActs \/ Lose \/ Damage

Spec == Init /\ [][Next]_vars

\* Both programs run until they end: every GET_BYTE has a timeout.
FairSpec ==
  Spec /\ WF_vars(SenderActs) /\ WF_vars(ReceiverActs) /\ WF_vars(BothActs)

-----------------------------------------------------------------------------
TypeOK ==
  /\ sPc \in SPcs /\ tries \in 1 .. MaxTries
  /\ next \in 1 .. Len(Files) + 1 /\ pos \in Nat /\ sSum \in Byte
  /\ rPc \in RPcs /\ m7try \in 0 .. MaxTries
  /\ field \in Seq(Byte) /\ rSum \in Byte /\ heard \in Seq(Seq(Byte))
  /\ toR \in Seq(Byte) /\ toS \in Seq(Byte)
  /\ lost \in 0 .. MaxLost /\ damaged \in 0 .. MaxDamaged
  /\ late \in 0 .. MaxLate

\* A name that the receiver accepts, and receives a file under, is the name of the
\* file the sender is sending, if no answer was late (MF_06 and FS_MS2).
HeardIsSent ==
  rPc = "xmodem" /\ late = 0 => More /\ field = Name

\* The sender does not start the file unless the receiver has its name, late
\* answers or not, but for names whose checksum looks like an answer (FS_MS2).
SentMeansHeard ==
  [][ sPc = "FS_MS2" /\ sPc' = "xmodem" /\ SumOf(Name) \notin {ACK, NAK}
        => field = Name ]_vars

\* The files received are the first ones of the list, each under its own name,
\* if no answer was late (READFN, FS_01).
NoFileSkipped == late = 0 => IsPrefix(heard, Files)

\* A receiver that ends without an error has all files, unless a byte was
\* damaged or an answer was late (MF_02, MF_08).
EndMeansAll == rPc = "done" /\ damaged = 0 /\ late = 0 => heard = Files

\* Both ends stop, whatever the line does (the 20 tries).
SenderEnds   == <>(sPc \in {"done", "fatal"})
ReceiverEnds == <>(rPc \in {"done", "fatal"})

\* Both ends mean the same files: each is received under its sender's name, none is left
\* out, and the end of the batch is the end of it (MODEM7_FNAME, MODEM7_FNAME1).
NamesAgreed == TypeOK /\ HeardIsSent /\ NoFileSkipped /\ EndMeansAll

\* Whatever the line does, neither end waits or tries for ever.
BothEnd == SenderEnds /\ ReceiverEnds
=============================================================================
