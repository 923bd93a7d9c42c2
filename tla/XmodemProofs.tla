---------------------------- MODULE XmodemProofs ----------------------------
(***************************************************************************)
(* Proofs about the transfer of Xmodem for every file length, buffer size, *)
(* retry limit and fault setting: the types, that the receiver stores the  *)
(* blocks of the file in order, and, between ends that do not answer late, *)
(* that what each end is told is what happened.                            *)
(***************************************************************************)
EXTENDS Xmodem, TLAPS

(* The retry counters are below their limits wherever they are counted up. *)
Counts ==
  /\ sPc \in {"off", "init"} => sTries > 0
  /\ sPc \in {"send", "wait", "eot", "eotwait"} => sNaks < MaxNaks
  /\ rPc \in {"off", "wait", "flush", "store"} => rNaks < MaxNaks
  /\ rPc \in {"off", "wait", "flush", "store", "finish"} => rStored < MaxBlocks

TypeInv == TypeOK /\ Counts

-----------------------------------------------------------------------------
(* INC A stays within a byte, and fewer than four INCs never return to the *)
(* number they started from.                                               *)
LEMMA SuccFacts ==
  ASSUME NEW n \in Nums
  PROVE  /\ Succ(n) \in Nums /\ Succ(n) # n
         /\ Succ(Succ(n)) # n /\ Succ(Succ(Succ(n))) # n
BY XmodemAssumption DEF Nums, Succ

(* What a reply leaves in the sender's USART.                              *)
LEMMA ReplyFacts ==
  ASSUME NEW r, NEW x \in ReplyLands(r)
  PROVE  x \in {r, toS, "junk"}
BY DEF ReplyLands

(* What a frame leaves at the receiver's USART.                            *)
LEMMA FrameFacts ==
  ASSUME NEW f, NEW x \in FrameLands(f)
  PROVE  \/ x \in {f, toR, Signal("junk")}
         \/ \E k \in Forged : x = Signal(k)
BY DEF FrameLands

LEMMA SignalType ==
  ASSUME NEW k \in {"none", "EOT", "CAN", "SYN", "junk"}
  PROVE  Signal(k) \in Frames /\ Signal(k).kind = k
BY XmodemAssumption DEF Signal, Frames, Nums

LEMMA FrameType ==
  ASSUME TypeOK, NEW f \in Frames, NEW x \in FrameLands(f)
  PROVE  x \in Frames
BY FrameFacts, SignalType, XmodemAssumption DEF TypeOK

LEMMA ReplyType ==
  ASSUME TypeOK, NEW r \in Replies, NEW x \in ReplyLands(r)
  PROVE  x \in Replies
BY ReplyFacts DEF TypeOK, Replies

-----------------------------------------------------------------------------
LEMMA TypeInit == Init => TypeInv
<1> SUFFICES ASSUME Init PROVE TypeInv
  OBVIOUS
<1> USE XmodemAssumption
<1>1. rFile \in Seq(0 .. N) /\ toR \in Frames
  BY SignalType DEF Init
<1>2. sPc \in SStates /\ rPc \in RStates /\ toS \in Replies
  BY DEF Init, SStates, RStates, Replies
<1>3. sNum \in Nums /\ rNum \in Nums /\ sPos \in 0 .. N /\ rData \in 0 .. N
      /\ sStored \in 0 .. N - sPos
  BY DEF Init, Nums
<1>4. /\ sNaks \in 0 .. MaxNaks /\ sTries \in 0 .. InitTries
      /\ rNaks \in 0 .. MaxNaks /\ rStored \in 0 .. MaxBlocks
      /\ sMax \in {FirstRead, MaxBlocks}
  BY DEF Init
<1>5. /\ sCrc \in BOOLEAN /\ sEof \in BOOLEAN /\ sBreak \in BOOLEAN
      /\ rFirst \in BOOLEAN /\ rBreak \in BOOLEAN /\ carrier \in BOOLEAN
  BY DEF Init
<1>6. Counts
  BY DEF Init, Counts
<1> QED
  BY <1>1, <1>2, <1>3, <1>4, <1>5, <1>6 DEF TypeInv, TypeOK

(* Every step of the sender keeps the types and the limits.                *)
LEMMA TypeSender ==
  ASSUME TypeInv, Sender \/ AFF_2
  PROVE  TypeInv'
<1> USE XmodemAssumption
<1>1. CASE AFF_2
  BY <1>1
     DEF TypeInv, TypeOK, Counts, AFF_2, SStates, SEnded,
              RStates, REnded, Replies, sVars, rVars
<1>2. CASE INIT_AHC
  BY <1>2
     DEF TypeInv, TypeOK, Counts, INIT_AHC, SStates, SEnded,
              RStates, REnded, Replies, sVars, rVars
<1>3. CASE INIT_AHC_CAN
  BY <1>3
     DEF TypeInv, TypeOK, Counts, INIT_AHC_CAN, SStates, SEnded,
              RStates, REnded, Replies, sVars, rVars
<1>4. CASE IAHC_1
  BY <1>4
     DEF TypeInv, TypeOK, Counts, IAHC_1, SStates, SEnded,
              RStates, REnded, Replies, sVars, rVars
<1>5. CASE READ_BLK
  <2>1. Ready \in Nat /\ Ready <= N - sPos
    BY DEF TypeInv, TypeOK, Ready, Refill, Chunk
  <2>2. Succ(sNum) \in Nums
    BY SuccFacts DEF TypeInv, TypeOK
  <2> QED
    BY <1>5, <2>1, <2>2
       DEF TypeInv, TypeOK, Counts, READ_BLK, SStates, SEnded,
              RStates, REnded, Replies, sVars, rVars
<1>6. CASE READ_BLK_error
  BY <1>6
     DEF TypeInv, TypeOK, Counts, READ_BLK_error, SStates, SEnded,
              RStates, REnded, Replies, sVars, rVars
<1>7. CASE SLP_1
  <2>1. [kind |-> "SOH", num |-> sNum, data |-> sPos, crc |-> sCrc] \in Frames
    BY DEF TypeInv, TypeOK, Frames
  <2>2. toR' \in Frames
    BY <1>7, <2>1, FrameType DEF TypeInv, SLP_1
  <2> QED
    BY <1>7, <2>2
       DEF TypeInv, TypeOK, Counts, SLP_1, SStates, SEnded,
              RStates, REnded, Replies, sVars, rVars
<1>8. CASE WAIT_RESP
  BY <1>8
     DEF TypeInv, TypeOK, Counts, WAIT_RESP, SStates, SEnded,
              RStates, REnded, Replies, sVars, rVars
<1>9. CASE AFY
  BY <1>9
     DEF TypeInv, TypeOK, Counts, AFY, SStates, SEnded,
              RStates, REnded, Replies, sVars, rVars
<1>10. CASE AFY_4
  BY <1>10
     DEF TypeInv, TypeOK, Counts, AFY_4, SStates, SEnded,
              RStates, REnded, Replies, sVars, rVars
<1>11. CASE SND_EOT_0
  <2>1. toR' \in Frames
    BY <1>11, SignalType, FrameType DEF TypeInv, SND_EOT_0
  <2> QED
    BY <1>11, <2>1
       DEF TypeInv, TypeOK, Counts, SND_EOT_0, SStates, SEnded,
              RStates, REnded, Replies, sVars, rVars
<1>12. CASE S_E_2
  BY <1>12
     DEF TypeInv, TypeOK, Counts, S_E_2, SStates, SEnded,
              RStates, REnded, Replies, sVars, rVars
<1>13. CASE EOT_again
  BY <1>13
     DEF TypeInv, TypeOK, Counts, EOT_again, SStates, SEnded,
              RStates, REnded, Replies, sVars, rVars
<1>14. CASE S_POSS_ABRT
  BY <1>14
     DEF TypeInv, TypeOK, Counts, S_POSS_ABRT, SStates, SEnded,
              RStates, REnded, Replies, sVars, rVars
<1>15. CASE S_WAIT_ONE
  BY <1>15
     DEF TypeInv, TypeOK, Counts, S_WAIT_ONE, SStates, SEnded,
              RStates, REnded, Replies, sVars, rVars
<1>16. CASE S_SEND_CANS
  <2>1. toR' \in Frames
    BY <1>16, SignalType, FrameType DEF TypeInv, S_SEND_CANS
  <2> QED
    BY <1>16, <2>1
       DEF TypeInv, TypeOK, Counts, S_SEND_CANS, SStates, SEnded,
              RStates, REnded, Replies, sVars, rVars
<1> QED
  BY <1>1, <1>2, <1>3, <1>4, <1>5, <1>6, <1>7, <1>8, <1>9, <1>10, <1>11,
     <1>12, <1>13, <1>14, <1>15, <1>16 DEF Sender

(* Every step of the receiver keeps the types and the limits.              *)
LEMMA TypeReceiver ==
  ASSUME TypeInv, Receiver \/ EXIST_2
  PROVE  TypeInv'
<1> USE XmodemAssumption
<1>0. Signal("none") \in Frames
  BY SignalType
<1>1. CASE EXIST_2
  <2>1. toS' \in Replies
    BY <1>1, ReplyType DEF TypeInv, EXIST_2, Replies
  <2> QED
    BY <1>0, <1>1, <2>1
       DEF TypeInv, TypeOK, Counts, EXIST_2, SStates, SEnded,
              RStates, REnded, sVars, rVars
<1>2. CASE CHECK_SEQ
  <2>1. toR.data \in 0 .. N
    BY DEF TypeInv, TypeOK, Frames
  <2> QED
    BY <1>0, <1>2, <2>1
       DEF TypeInv, TypeOK, Counts, CHECK_SEQ, SStates, SEnded,
              RStates, REnded, Replies, sVars, rVars
<1>3. CASE AFR
  <2>1. toS' \in Replies
    BY <1>3, ReplyType DEF TypeInv, AFR, Replies
  <2> QED
    BY <1>0, <1>3, <2>1
       DEF TypeInv, TypeOK, Counts, AFR, SStates, SEnded,
              RStates, REnded, sVars, rVars
<1>4. CASE MSG_NAK
  BY <1>4, <1>0
     DEF TypeInv, TypeOK, Counts, MSG_NAK, SStates, SEnded,
              RStates, REnded, Replies, sVars, rVars
<1>5. CASE SN_0
  BY <1>5, <1>0
     DEF TypeInv, TypeOK, Counts, SN_0, SStates, SEnded,
              RStates, REnded, Replies, sVars, rVars
<1>6. CASE SEND_NAK
  <2>1. toS' \in Replies
    BY <1>6, ReplyType DEF TypeInv, SEND_NAK, Replies
  <2> QED
    BY <1>0, <1>6, <2>1
       DEF TypeInv, TypeOK, Counts, SEND_NAK, SStates, SEnded,
              RStates, REnded, sVars, rVars
<1>7. CASE WRITE_BLK
  <2>1. toS' \in Replies
    BY <1>7, ReplyType DEF TypeInv, WRITE_BLK, Replies
  <2>2. rNum' \in Nums
    BY <1>7, SuccFacts DEF TypeInv, TypeOK, WRITE_BLK
  <2>3. rFile' \in Seq(0 .. N)
    BY <1>7 DEF TypeInv, TypeOK, WRITE_BLK
  <2>4. rStored' \in 0 .. MaxBlocks - 1
    BY <1>7 DEF TypeInv, TypeOK, Counts, WRITE_BLK, BufferFull
  <2>5. rNaks' = 0 /\ rFirst' = FALSE /\ rPc' = "wait"
        /\ UNCHANGED <<rData, rBreak, sVars, toR, carrier>>
    BY <1>7 DEF WRITE_BLK
  <2> QED
    <3>1. Counts'
      BY <2>4, <2>5 DEF TypeInv, TypeOK, Counts, sVars
    <3>2. rStored' \in 0 .. MaxBlocks /\ rNaks' \in 0 .. MaxNaks
      BY <2>4, <2>5
    <3>3. rPc' \in RStates /\ rFirst' \in BOOLEAN
      BY <2>5 DEF RStates
    <3> QED
      BY <3>1, <3>2, <3>3, <2>1, <2>2, <2>3, <2>5 DEF TypeInv, TypeOK, sVars
<1>8. CASE CANT_WRITE
  <2>1. rFile' \in Seq(0 .. N)
    BY <1>8 DEF TypeInv, TypeOK, CANT_WRITE
  <2>2. rStored' \in 0 .. MaxBlocks
    BY <1>8 DEF TypeInv, TypeOK, CANT_WRITE
  <2>4. rFirst' \in BOOLEAN
    BY <1>8 DEF TypeInv, TypeOK, CANT_WRITE
  <2>3. rPc' = "cancel"
        /\ UNCHANGED <<rNum, rNaks, rData, rBreak, sVars, toS, toR, carrier>>
    BY <1>8 DEF CANT_WRITE
  <2> QED
    BY <2>1, <2>2, <2>3, <2>4
       DEF TypeInv, TypeOK, Counts, SStates, SEnded, RStates, REnded, sVars
<1>9. CASE GET_BLK_EOT
  BY <1>9, <1>0
     DEF TypeInv, TypeOK, Counts, GET_BLK_EOT, SStates, SEnded,
              RStates, REnded, Replies, sVars, rVars
<1>10. CASE RCV_OK
  <2>1. toS' \in Replies
    BY <1>10, ReplyType DEF TypeInv, RCV_OK, Replies
  <2> QED
    BY <1>0, <1>10, <2>1
       DEF TypeInv, TypeOK, Counts, RCV_OK, SStates, SEnded,
              RStates, REnded, sVars, rVars
<1>11. CASE F_CLOSE
  BY <1>11, <1>0
     DEF TypeInv, TypeOK, Counts, F_CLOSE, SStates, SEnded,
              RStates, REnded, Replies, sVars, rVars
<1>12. CASE SNDR_CANCELS
  BY <1>12, <1>0
     DEF TypeInv, TypeOK, Counts, SNDR_CANCELS, SStates, SEnded,
              RStates, REnded, Replies, sVars, rVars
<1>13. CASE R_POSS_ABRT
  BY <1>13, <1>0
     DEF TypeInv, TypeOK, Counts, R_POSS_ABRT, SStates, SEnded,
              RStates, REnded, Replies, sVars, rVars
<1>14. CASE R_WAIT_ONE
  BY <1>14, <1>0
     DEF TypeInv, TypeOK, Counts, R_WAIT_ONE, SStates, SEnded,
              RStates, REnded, Replies, sVars, rVars
<1>15. CASE R_SEND_CANS
  <2>1. toS' \in Replies
    BY <1>15, ReplyType DEF TypeInv, R_SEND_CANS, Replies
  <2>2. <<>> \in Seq(0 .. N)
    OBVIOUS
  <2>3. \/ rFile' = <<>> /\ rStored' = 0
        \/ rFile' = rFile /\ rStored' = rStored
    BY <1>15 DEF R_SEND_CANS
  <2>5. rFile \in Seq(0 .. N) /\ rStored \in 0 .. MaxBlocks
    BY DEF TypeInv, TypeOK
  <2>7. rFile' \in Seq(0 .. N)
    BY <2>2, <2>3, <2>5
  <2>8. rStored' \in 0 .. MaxBlocks
    BY <2>3, <2>5
  <2>4. rPc' = "aborted"
        /\ UNCHANGED <<rNum, rNaks, rFirst, rData, rBreak, sVars, toR, carrier>>
    BY <1>15 DEF R_SEND_CANS
  <2> QED
    BY <2>1, <2>4, <2>7, <2>8
       DEF TypeInv, TypeOK, Counts, SStates, SEnded, RStates, REnded, sVars
<1> QED
  BY <1>1, <1>2, <1>3, <1>4, <1>5, <1>6, <1>7, <1>8, <1>9, <1>10, <1>11,
     <1>12, <1>13, <1>14, <1>15 DEF Receiver

LEMMA TypeStep == TypeInv /\ [Next]_vars => TypeInv'
<1> SUFFICES ASSUME TypeInv, [Next]_vars PROVE TypeInv'
  OBVIOUS
<1>1. CASE Sender \/ AFF_2
  BY <1>1, TypeSender
<1>2. CASE Receiver \/ EXIST_2
  BY <1>2, TypeReceiver
<1>3. CASE S_BREAK
  BY <1>3 DEF TypeInv, TypeOK, Counts, S_BREAK, rVars
<1>4. CASE R_BREAK
  BY <1>4 DEF TypeInv, TypeOK, Counts, R_BREAK, sVars
<1>5. CASE HANGUP
  BY <1>5, SignalType DEF TypeInv, TypeOK, Counts, HANGUP, sVars, rVars, Replies
<1>6. CASE UNCHANGED vars
  BY <1>6 DEF TypeInv, TypeOK, Counts, vars, sVars, rVars
<1> QED
  BY <1>1, <1>2, <1>3, <1>4, <1>5, <1>6 DEF Next, Operators

(* Each variable keeps its type: in particular the block numbers stay      *)
(* within a byte, the retry counts within MAX_NAKS, and the blocks held in *)
(* BIG_BUFF within MAX_BLOCKS.                                             *)
THEOREM TypeCorrect == Spec => []TypeOK
<1>1. TypeInv => TypeOK
  BY DEF TypeInv
<1> QED
  BY <1>1, TypeInit, TypeStep, PTL DEF Spec

-----------------------------------------------------------------------------
(* The blocks arrive in order.                                             *)

Bit(b)  == IF b THEN 1 ELSE 0
Got     == Len(rFile)
Storing == Bit(rPc = "store")
Ahead   == sPos - Got

\* n is the number of the block that comes j blocks after the last one stored.
Numbered(n, j) ==
  /\ j = 0 => n = rNum
  /\ j = 1 => n = Succ(rNum)
  /\ j = 2 => n = Succ(Succ(rNum))
  /\ j = 3 => n = Succ(Succ(Succ(rNum)))

\* The block on the line is one the receiver has, and will acknowledge again.
Again == toR.kind = "SOH" /\ toR.data = Got + Storing

\* Blocks the sender is ahead, and the leads that replies it has not read, or
\* will still be sent, may give it.
Credit == Ahead + Bit(toS = "ACK") + Bit(Again) + Bit(sPc = "read")

Window ==
  /\ Got + Storing <= sPos
  /\ Credit <= 3
  /\ Numbered(sNum, Ahead)
  /\ sPc \in {"off", "init"} => sPos = 0 /\ toR.kind # "SOH"

OnTheLine ==
  toR.kind = "SOH" => /\ Got + Storing <= toR.data /\ toR.data <= sPos
                      /\ Numbered(toR.num, toR.data - Got)

Chain ==
  Receiving => /\ Window
               /\ OnTheLine
               /\ rPc = "store" => rData = Got + 1

OrderInv ==
  /\ TypeInv
  /\ toR.kind # "SYN"
  /\ InOrder
  /\ Chain

LEMMA OrderInit == Init => OrderInv
<1> SUFFICES ASSUME Init PROVE OrderInv
  OBVIOUS
<1>1. TypeInv
  BY TypeInit
<1>2. toR.kind = "none" /\ Len(rFile) = 0
  BY SignalType DEF Init
<1>3. InOrder
  BY <1>2 DEF InOrder
<1>4. Chain
  BY <1>2 DEF Init, Chain, Window, OnTheLine, Credit, Ahead, Again, Got,
              Storing, Bit, Numbered
<1> QED
  BY <1>1, <1>2, <1>3, <1>4 DEF OrderInv

(* The facts about types that the steps below use.                         *)
LEMMA OrderTypes ==
  ASSUME TypeInv
  PROVE  /\ Got \in Nat /\ sPos \in Nat /\ Storing \in {0, 1}
         /\ sNum \in Nums /\ rNum \in Nums
         /\ toR.kind \in {"none", "SOH", "EOT", "CAN", "SYN", "junk"}
         /\ toR.data \in Nat /\ toR.num \in Nums
<1>1. rFile \in Seq(0 .. N)
  BY DEF TypeInv, TypeOK
<1>2. toR \in Frames
  BY DEF TypeInv, TypeOK
<1>3. Got \in Nat
  BY <1>1 DEF Got
<1>4. sPos \in Nat /\ sNum \in Nums /\ rNum \in Nums
  BY DEF TypeInv, TypeOK
<1>5. toR.data \in Nat /\ toR.num \in Nums
      /\ toR.kind \in {"none", "SOH", "EOT", "CAN", "SYN", "junk"}
  BY <1>2 DEF Frames
<1> QED
  BY <1>3, <1>4, <1>5 DEF Storing, Bit

(* A step that sends no block, takes no reply for an ACK and stores        *)
(* nothing leaves the chain as it is.                                      *)
LEMMA Bystander ==
  ASSUME TypeInv, Chain,
         UNCHANGED <<sPos, sNum, rNum, rFile>>,
         toS' = "ACK" => toS = "ACK",
         toR' = toR \/ toR'.kind # "SOH",
         sPc' = "read" => sPc = "read",
         sPc' \in {"off", "init"} => sPc \in {"off", "init"},
         Receiving' => Receiving,
         Receiving' => (rPc' = "store" <=> rPc = "store"),
         rPc' = "store" => rData' = rData
  PROVE  Chain'
<1> SUFFICES ASSUME Receiving' PROVE (Window /\ OnTheLine
                            /\ (rPc = "store" => rData = Got + 1))'
  BY DEF Chain
<1>1. Window /\ OnTheLine /\ (rPc = "store" => rData = Got + 1)
  BY DEF Chain
<1>2. Got' = Got /\ Ahead' = Ahead /\ Storing' = Storing
  BY DEF Got, Ahead, Storing
<1>3. Again' => Again
  BY <1>2 DEF Again
<1>4. Credit' <= 3
  <2>1. Credit <= 3 /\ Ahead \in Nat
    BY <1>1, OrderTypes DEF Window, Ahead
  <2>2. Bit(toS' = "ACK") <= Bit(toS = "ACK") /\ Bit(Again') <= Bit(Again)
        /\ Bit(sPc' = "read") <= Bit(sPc = "read")
    BY <1>3 DEF Bit
  <2> QED
    BY <2>1, <2>2, <1>2 DEF Credit, Bit
<1>5. Window'
  BY <1>1, <1>2, <1>4 DEF Window, Numbered
<1>6. OnTheLine'
  BY <1>1, <1>2 DEF OnTheLine, Numbered
<1> QED
  BY <1>1, <1>2, <1>5, <1>6

(* INIT_AHC: nothing has been sent and nothing stored yet.                 *)
LEMMA ChainStart == ASSUME TypeInv, Chain, INIT_AHC PROVE Chain'
<1> SUFFICES ASSUME Receiving' PROVE Chain'
  BY DEF Chain
<1>1. /\ Receiving /\ sPos' = sPos /\ sNum' = sNum /\ toR' = toR
      /\ rPc' = rPc /\ rNum' = rNum /\ rFile' = rFile /\ rData' = rData
      /\ sPc = "init" /\ sPc' = "read" /\ toS' = "none"
  BY DEF INIT_AHC, rVars, Receiving
<1>2. Window /\ (rPc = "store" => rData = Got + 1)
  BY <1>1 DEF Chain
<1>3. sPos = 0 /\ toR.kind # "SOH" /\ Got = 0 /\ Storing = 0
  BY <1>1, <1>2, OrderTypes DEF Window
<1>4. Got' = 0 /\ Storing' = 0 /\ Ahead' = 0 /\ ~Again'
  BY <1>1, <1>3, OrderTypes DEF Got, Storing, Ahead, Again, Bit
<1>5. Credit' <= 3
  BY <1>1, <1>4 DEF Credit, Bit
<1>6. Numbered(sNum, 0)' /\ rPc' # "store"
  BY <1>1, <1>2, <1>3, OrderTypes DEF Window, Ahead, Numbered, Storing, Bit
<1> QED
  BY <1>1, <1>3, <1>4, <1>5, <1>6 DEF Chain, Window, OnTheLine, Numbered

(* READ_BLK: the sender takes the lead it was given, and numbers the block *)
(* after the one before.                                                   *)
LEMMA ChainRead == ASSUME TypeInv, Chain, READ_BLK PROVE Chain'
<1> SUFFICES ASSUME Receiving' PROVE Chain'
  BY DEF Chain
<1>1. /\ Receiving /\ toR' = toR /\ toS' = toS
      /\ rPc' = rPc /\ rNum' = rNum /\ rFile' = rFile /\ rData' = rData
      /\ sPc = "read"
  BY DEF READ_BLK, rVars, Receiving
<1>2. CASE sPos' = sPos /\ sNum' = sNum /\ sPc' = "eot"
  BY <1>1, <1>2, Bystander
<1>3. CASE sPos' = sPos + 1 /\ sNum' = Succ(sNum) /\ sPc' = "send"
  <2>1. Window /\ OnTheLine /\ (rPc = "store" => rData = Got + 1)
    BY <1>1 DEF Chain
  <2>2. Got' = Got /\ Storing' = Storing /\ Ahead' = Ahead + 1
    BY <1>1, <1>3, <2>1, OrderTypes DEF Got, Storing, Ahead, Window
  <2>3. Again' <=> Again
    BY <1>1, <2>2 DEF Again
  <2>4. Ahead \in Nat /\ Ahead <= 2 /\ Credit' <= 3
    BY <1>1, <1>3, <2>1, <2>2, <2>3, OrderTypes DEF Window, Credit, Bit, Ahead
  <2>5. Numbered(sNum, Ahead)'
    BY <1>1, <1>3, <2>1, <2>2, <2>4 DEF Window, Numbered
  <2>6. OnTheLine'
    BY <1>1, <1>3, <2>1, <2>2, OrderTypes DEF OnTheLine, Numbered
  <2>7. Window'
    BY <1>3, <2>1, <2>2, <2>4, <2>5, OrderTypes DEF Window
  <2> QED
    BY <1>1, <2>1, <2>2, <2>6, <2>7 DEF Chain
<1> QED
  BY <1>2, <1>3 DEF READ_BLK

(* SLP_1: the block goes out under its number.                             *)
LEMMA ChainSend == ASSUME TypeInv, Chain, SLP_1 PROVE Chain'
<1> SUFFICES ASSUME Receiving' PROVE Chain'
  BY DEF Chain
<1> DEFINE frame == [kind |-> "SOH", num |-> sNum, data |-> sPos, crc |-> sCrc]
<1>1. /\ Receiving /\ toS' = toS /\ sPos' = sPos /\ sNum' = sNum
      /\ rPc' = rPc /\ rNum' = rNum /\ rFile' = rFile /\ rData' = rData
      /\ sPc = "send" /\ sPc' = "wait"
  BY DEF SLP_1, rVars, Receiving
<1>2. CASE toR' = toR \/ toR'.kind # "SOH"
  BY <1>1, <1>2, Bystander
<1>3. CASE toR' = frame
  <2>1. Window /\ (rPc = "store" => rData = Got + 1)
    BY <1>1 DEF Chain
  <2>2. Got' = Got /\ Storing' = Storing /\ Ahead' = Ahead /\ Ahead \in Nat
    BY <1>1, <2>1, OrderTypes DEF Got, Storing, Ahead, Window
  <2>3. toR'.kind = "SOH" /\ toR'.data = sPos /\ toR'.num = sNum
    BY <1>3
  <2>4. Again' => Ahead = Storing
    BY <2>1, <2>2, <2>3, OrderTypes DEF Again, Ahead, Window
  <2>5. Credit' <= 3
    BY <1>1, <2>1, <2>2, <2>4, OrderTypes DEF Window, Credit, Bit
  <2>6. OnTheLine'
    BY <1>1, <2>1, <2>2, <2>3, OrderTypes DEF OnTheLine, Window, Numbered, Ahead
  <2>7. Window'
    BY <1>1, <2>1, <2>2, <2>5 DEF Window, Numbered
  <2> QED
    BY <1>1, <2>1, <2>2, <2>6, <2>7 DEF Chain
<1>4. toR' = frame \/ toR' = toR \/ toR'.kind # "SOH"
  <2>1. toR' \in FrameLands(frame)
    BY DEF SLP_1
  <2>2. \/ toR' \in {frame, toR, Signal("junk")}
        \/ \E k \in Forged : toR' = Signal(k)
    BY <2>1, FrameFacts
  <2> QED
    BY <2>2, SignalType, XmodemAssumption
<1> QED
  BY <1>2, <1>3, <1>4

(* WAIT_RESP: an ACK, whatever block it was meant for, gives a lead of one.*)
LEMMA ChainAcked == ASSUME TypeInv, Chain, WAIT_RESP PROVE Chain'
<1> SUFFICES ASSUME Receiving' PROVE Chain'
  BY DEF Chain
<1>1. /\ Receiving /\ toR' = toR /\ sPos' = sPos /\ sNum' = sNum
      /\ rPc' = rPc /\ rNum' = rNum /\ rFile' = rFile /\ rData' = rData
      /\ sPc = "wait" /\ sPc' = "read" /\ toS = "ACK" /\ toS' = "none"
  BY DEF WAIT_RESP, rVars, Receiving
<1>2. Window /\ OnTheLine /\ (rPc = "store" => rData = Got + 1)
  BY <1>1 DEF Chain
<1>3. Got' = Got /\ Storing' = Storing /\ Ahead' = Ahead
  BY <1>1 DEF Got, Storing, Ahead
<1>4. Again' <=> Again
  BY <1>1, <1>3 DEF Again
<1>5. Credit' <= 3
  BY <1>1, <1>2, <1>3, <1>4, OrderTypes DEF Window, Credit, Bit, Ahead
<1> QED
  BY <1>1, <1>2, <1>3, <1>5 DEF Chain, Window, OnTheLine, Numbered

(* The byte in a header tells which block it is: at most three blocks lie  *)
(* between the last one stored and the one on the line.                    *)
LEMMA NumberTells ==
  ASSUME TypeInv, Chain, Receiving, toR.kind = "SOH"
  PROVE  /\ toR.num = rNum => toR.data = Got
         /\ toR.num = Succ(rNum) => toR.data = Got + 1
<1> DEFINE j == toR.data - Got
<1>1. Window /\ OnTheLine
  BY DEF Chain
<1>2. Got <= toR.data /\ toR.data <= sPos /\ sPos - Got <= 3
  <2>1. Ahead \in Nat /\ Ahead <= 3
    BY <1>1, OrderTypes DEF Window, Credit, Bit, Ahead
  <2> QED
    BY <1>1, <2>1, OrderTypes DEF OnTheLine, Ahead
<1>3. j \in {0, 1, 2, 3}
  BY <1>2, OrderTypes
<1>4. Numbered(toR.num, j)
  BY <1>1 DEF OnTheLine
<1>5. rNum \in Nums /\ Succ(rNum) \in Nums
  BY OrderTypes, SuccFacts
<1>6. /\ Succ(rNum) # rNum /\ Succ(Succ(rNum)) # rNum
      /\ Succ(Succ(Succ(rNum))) # rNum
      /\ Succ(Succ(rNum)) # Succ(rNum) /\ Succ(Succ(Succ(rNum))) # Succ(rNum)
  BY <1>5, SuccFacts
<1>7. /\ toR.num = rNum => j = 0
      /\ toR.num = Succ(rNum) => j = 1
  BY <1>3, <1>4, <1>6 DEF Numbered
<1> QED
  BY <1>7, <1>2, OrderTypes

(* CHECK_SEQ takes the block that comes after the last one stored.         *)
LEMMA ChainTaken == ASSUME TypeInv, Chain, CHECK_SEQ PROVE Chain'
<1>1. /\ Receiving /\ sPc' = sPc /\ sPos' = sPos /\ sNum' = sNum /\ toS' = toS
      /\ rPc = "wait" /\ rPc' = "store" /\ rNum' = rNum /\ rFile' = rFile
      /\ rData' = toR.data /\ toR' = Signal("none")
      /\ toR.kind = "SOH" /\ toR.num = Succ(rNum)
  BY DEF CHECK_SEQ, NextBlock, Sound, sVars, Receiving
<1>2. Window /\ OnTheLine
  BY <1>1 DEF Chain
<1>3. toR.data = Got + 1
  BY <1>1, NumberTells
<1>4. toR'.kind = "none"
  BY <1>1, SignalType
<1>5. Got' = Got /\ Ahead' = Ahead /\ Storing' = 1 /\ ~Again'
  BY <1>1, <1>4 DEF Got, Ahead, Storing, Again, Bit
<1>6. Got + 1 <= sPos
  BY <1>1, <1>2, <1>3 DEF OnTheLine
<1>7. Credit' <= 3
  BY <1>1, <1>2, <1>5, <1>6, OrderTypes DEF Window, Credit, Bit, Ahead
<1>8. Window'
  BY <1>1, <1>2, <1>4, <1>5, <1>6, <1>7 DEF Window, Numbered
<1> QED
  BY <1>1, <1>3, <1>4, <1>5, <1>8 DEF Chain, OnTheLine

(* AFR answers a block it has once more.                                   *)
LEMMA ChainRepeated ==
  ASSUME TypeInv, Chain, toR.kind # "SYN", AFR PROVE Chain'
<1>1. /\ Receiving /\ sPc' = sPc /\ sPos' = sPos /\ sNum' = sNum
      /\ rPc = "wait" /\ rPc' = "wait" /\ rNum' = rNum /\ rFile' = rFile
      /\ toR' = Signal("none") /\ toS' \in {"ACK", toS, "junk"}
      /\ toR.kind = "SOH" /\ toR.num = rNum
  BY ReplyFacts DEF AFR, Duplicate, Sound, sVars, Receiving
<1>2. Window
  BY <1>1 DEF Chain
<1>3. toR.data = Got
  BY <1>1, NumberTells
<1>4. toR'.kind = "none"
  BY <1>1, SignalType
<1>5. Got' = Got /\ Ahead' = Ahead /\ Storing' = 0 /\ Storing = 0
      /\ ~Again' /\ Again
  BY <1>1, <1>3, <1>4, OrderTypes DEF Got, Ahead, Storing, Again, Bit
<1>6. Credit' <= 3
  BY <1>1, <1>2, <1>5, OrderTypes DEF Window, Credit, Bit, Ahead
<1>7. Window'
  BY <1>1, <1>2, <1>4, <1>5, <1>6 DEF Window, Numbered
<1> QED
  BY <1>1, <1>4, <1>7 DEF Chain, OnTheLine

(* WRITE_BLK appends it: one lead less, one ACK more.                      *)
LEMMA ChainStored ==
  ASSUME TypeInv, Chain, InOrder, WRITE_BLK PROVE Chain' /\ InOrder'
<1>1. /\ Receiving /\ sPc' = sPc /\ sPos' = sPos /\ sNum' = sNum
      /\ rPc = "store" /\ rPc' = "wait" /\ rNum' = Succ(rNum)
      /\ rFile' = Append(rFile, rData)
      /\ toR' = toR /\ toS' \in {"ACK", toS, "junk"}
  BY ReplyFacts DEF WRITE_BLK, sVars, Receiving
<1>2. Window /\ OnTheLine /\ rData = Got + 1
  BY <1>1 DEF Chain
<1>3. rFile \in Seq(0 .. N) /\ rData \in 0 .. N
  BY DEF TypeInv, TypeOK
<1>4. Got' = Got + 1
  BY <1>1, <1>3 DEF Got
<1>5. Storing = 1 /\ Storing' = 0
  BY <1>1 DEF Storing, Bit
<1>6. Got + 1 <= sPos /\ Ahead' = Ahead - 1 /\ Ahead \in Nat /\ Ahead >= 1
  BY <1>1, <1>2, <1>4, <1>5, OrderTypes DEF Window, Ahead
<1>7. Again' <=> Again
  BY <1>1, <1>4, <1>5, OrderTypes DEF Again
<1>8. Credit' <= 3
  <2>1. Bit(toS' = "ACK") <= 1 /\ Bit(toS' = "ACK") \in Nat
    BY DEF Bit
  <2>2. Bit(toS = "ACK") \in Nat /\ Bit(Again) \in {0, 1}
        /\ Bit(sPc = "read") \in {0, 1}
    BY DEF Bit
  <2>3. Bit(Again') = Bit(Again) /\ Bit(sPc' = "read") = Bit(sPc = "read")
    BY <1>1, <1>7 DEF Bit
  <2>4. Credit' = Ahead' + Bit(toS' = "ACK") + Bit(Again') + Bit(sPc' = "read")
    BY DEF Credit
  <2>5. Credit <= 3
    BY <1>2 DEF Window
  <2> HIDE DEF Bit
  <2> QED
    BY <1>6, <2>1, <2>2, <2>3, <2>4, <2>5 DEF Credit
<1>9. Numbered(sNum, Ahead)'
  <2>1. Numbered(sNum, Ahead) /\ Ahead <= 3
    BY <1>2, <1>6 DEF Window, Credit, Bit
  <2>2. /\ Ahead = 1 => sNum = Succ(rNum)
        /\ Ahead = 2 => sNum = Succ(Succ(rNum))
        /\ Ahead = 3 => sNum = Succ(Succ(Succ(rNum)))
    BY <2>1 DEF Numbered
  <2> QED
    BY <1>1, <1>6, <2>1, <2>2 DEF Numbered
<1>10. Window'
  BY <1>1, <1>2, <1>4, <1>5, <1>6, <1>8, <1>9, OrderTypes DEF Window
<1>11. OnTheLine'
  <2> SUFFICES ASSUME toR.kind = "SOH" PROVE OnTheLine'
    BY <1>1 DEF OnTheLine
  <2>1. Got + 1 <= toR.data /\ toR.data <= sPos /\ Numbered(toR.num, toR.data - Got)
    BY <1>2, <1>5 DEF OnTheLine
  <2>2. Numbered(toR.num, toR.data - Got)'
    <3> DEFINE j == toR.data - Got
    <3>1. toR.data - (Got + 1) = j - 1 /\ j \in Nat /\ j <= 3
      BY <1>2, <1>6, <2>1, OrderTypes DEF Window, Credit, Bit, Ahead
    <3>2. /\ j = 1 => toR.num = Succ(rNum)
          /\ j = 2 => toR.num = Succ(Succ(rNum))
          /\ j = 3 => toR.num = Succ(Succ(Succ(rNum)))
      BY <2>1 DEF Numbered
    <3>3. (toR.data - Got)' = j - 1
      BY <1>1, <1>4, <3>1
    <3> HIDE DEF j
    <3> QED
      BY <1>1, <3>1, <3>2, <3>3 DEF Numbered
  <2> QED
    BY <1>1, <1>4, <1>5, <2>1, <2>2, OrderTypes DEF OnTheLine
<1>12. InOrder'
  <2>1. Len(rFile') = Got + 1
    BY <1>1, <1>3 DEF Got
  <2>2. ASSUME NEW i \in 1 .. Got + 1 PROVE rFile'[i] = i
    BY <1>1, <1>2, <1>3, OrderTypes DEF InOrder, Got
  <2> QED
    BY <2>1, <2>2 DEF InOrder
<1> QED
  BY <1>1, <1>10, <1>11, <1>12 DEF Chain

(* No noise that turns a header into SYN, no Telink header.                *)
LEMMA NoTelink ==
  ASSUME "SYN" \notin Forged, TypeInv, toR.kind # "SYN", [Next]_vars
  PROVE  toR'.kind # "SYN"
<1>1. \A k \in {"none", "EOT", "CAN", "junk"} : Signal(k).kind # "SYN"
  BY SignalType
<1>2. \A k \in Forged : Signal(k).kind # "SYN"
  BY SignalType, XmodemAssumption
<1>3. ASSUME NEW f, f.kind # "SYN", toR' \in FrameLands(f)
      PROVE  toR'.kind # "SYN"
  BY <1>1, <1>2, <1>3, FrameFacts
<1>4. CASE SLP_1
  <2> DEFINE f == [kind |-> "SOH", num |-> sNum, data |-> sPos, crc |-> sCrc]
  <2>1. f.kind # "SYN" /\ toR' \in FrameLands(f)
    BY <1>4 DEF SLP_1
  <2> QED
    BY <1>3, <2>1
<1>5. CASE SND_EOT_0 \/ S_SEND_CANS
  BY <1>1, <1>3, <1>5 DEF SND_EOT_0, S_SEND_CANS
<1>6. CASE toR' = toR \/ toR' = Signal("none")
  BY <1>1, <1>6
<1>7. toR' = toR \/ toR' = Signal("none") \/ SLP_1 \/ SND_EOT_0 \/ S_SEND_CANS
  BY DEF Next, Sender, Receiver, Operators, AFF_2, EXIST_2, S_BREAK, R_BREAK,
         HANGUP, INIT_AHC, INIT_AHC_CAN, IAHC_1, READ_BLK, READ_BLK_error,
         WAIT_RESP, AFY, AFY_4, S_E_2, EOT_again, S_POSS_ABRT, S_WAIT_ONE,
         CHECK_SEQ, AFR, MSG_NAK, SN_0, SEND_NAK, WRITE_BLK, CANT_WRITE,
         GET_BLK_EOT, RCV_OK, F_CLOSE, SNDR_CANCELS, R_POSS_ABRT, R_WAIT_ONE,
         R_SEND_CANS, vars
<1> QED
  BY <1>4, <1>5, <1>6, <1>7

(* The sender's other steps are bystanders.                                *)
LEMMA ChainSender ==
  ASSUME TypeInv, Chain, Sender \/ AFF_2 PROVE Chain'
<1>0. Signal("EOT").kind = "EOT" /\ Signal("CAN").kind = "CAN"
      /\ Signal("junk").kind = "junk" /\ Signal("none").kind = "none"
      /\ \A k \in Forged : Signal(k).kind # "SOH"
  BY SignalType, XmodemAssumption
<1>1. CASE INIT_AHC \/ READ_BLK \/ SLP_1 \/ WAIT_RESP
  BY <1>1, ChainStart, ChainRead, ChainSend, ChainAcked
<1>2. CASE SND_EOT_0
  <2>1. toR' = toR \/ toR'.kind # "SOH"
    BY <1>0, <1>2, FrameFacts DEF SND_EOT_0
  <2> QED
    BY <1>2, <2>1, Bystander DEF SND_EOT_0, rVars, Receiving
<1>3. CASE S_SEND_CANS
  <2>1. toR' = toR \/ toR'.kind # "SOH"
    BY <1>0, <1>3, FrameFacts DEF S_SEND_CANS
  <2> QED
    BY <1>3, <2>1, Bystander DEF S_SEND_CANS, rVars, Receiving
<1>4. CASE AFF_2
  BY <1>4, Bystander DEF AFF_2, rVars, Receiving
<1>5. CASE INIT_AHC_CAN
  BY <1>5, Bystander DEF INIT_AHC_CAN, rVars, Receiving
<1>6. CASE IAHC_1
  BY <1>6, Bystander DEF IAHC_1, rVars, Receiving
<1>7. CASE READ_BLK_error
  BY <1>7, Bystander DEF READ_BLK_error, rVars, Receiving
<1>8. CASE AFY
  BY <1>8, Bystander DEF AFY, rVars, Receiving
<1>9. CASE AFY_4
  BY <1>9, Bystander DEF AFY_4, rVars, Receiving
<1>10. CASE S_E_2
  BY <1>10, Bystander DEF S_E_2, rVars, Receiving
<1>11. CASE EOT_again
  BY <1>11, Bystander DEF EOT_again, rVars, Receiving
<1>12. CASE S_POSS_ABRT
  BY <1>12, Bystander DEF S_POSS_ABRT, rVars, Receiving
<1>13. CASE S_WAIT_ONE
  BY <1>13, Bystander DEF S_WAIT_ONE, sVars, rVars, Receiving
<1> QED
  BY <1>1, <1>2, <1>3, <1>4, <1>5, <1>6, <1>7, <1>8, <1>9, <1>10, <1>11,
     <1>12, <1>13 DEF Sender

(* The receiver's other steps are bystanders, or leave the receiving loop. *)
LEMMA ChainReceiver ==
  ASSUME TypeInv, Chain, InOrder, toR.kind # "SYN", Receiver \/ EXIST_2
  PROVE  Chain' /\ InOrder'
<1>0. Signal("none").kind = "none"
  BY SignalType
<1>1. CASE WRITE_BLK
  BY <1>1, ChainStored
<1>2. CASE CHECK_SEQ
  BY <1>2, ChainTaken DEF CHECK_SEQ, InOrder
<1>3. CASE AFR
  BY <1>3, ChainRepeated DEF AFR, InOrder
<1>4. CASE EXIST_2
  <2>1. toS' \in {"C", "NAK", toS, "junk"}
    BY <1>4, ReplyFacts DEF EXIST_2
  <2>2. Chain'
    BY <1>0, <1>4, <2>1, Bystander DEF EXIST_2, sVars, Receiving
  <2> QED
    BY <1>4, <2>2 DEF EXIST_2, InOrder
<1>5. CASE MSG_NAK
  BY <1>0, <1>5, Bystander DEF MSG_NAK, sVars, Receiving, InOrder
<1>6. CASE SN_0
  BY <1>0, <1>6, Bystander DEF SN_0, sVars, rVars, Receiving, InOrder
<1>7. CASE SEND_NAK
  <2>1. toS' \in {"C", "NAK", toS, "junk"}
    BY <1>7, ReplyFacts DEF SEND_NAK
  <2>2. Chain'
    BY <1>7, <2>1, Bystander DEF SEND_NAK, sVars, Receiving
  <2> QED
    BY <1>7, <2>2 DEF SEND_NAK, InOrder
<1>8. CASE CANT_WRITE
  <2>1. Chain'
    BY <1>8 DEF CANT_WRITE, Chain, Receiving
  <2>2. CASE rFile' = rFile
    BY <2>1, <2>2 DEF InOrder
  <2>3. CASE rPc = "store" /\ rFile' = Append(rFile, rData)
    <3>1. rData = Got + 1
      BY <2>3 DEF Chain, Receiving
    <3>2. rFile \in Seq(0 .. N) /\ rData \in 0 .. N
      BY DEF TypeInv, TypeOK
    <3>3. Len(rFile') = Got + 1
      BY <2>3, <3>2 DEF Got
    <3>4. ASSUME NEW i \in 1 .. Got + 1 PROVE rFile'[i] = i
      BY <2>3, <3>1, <3>2, OrderTypes DEF InOrder, Got
    <3> QED
      BY <2>1, <3>3, <3>4 DEF InOrder
  <2> QED
    BY <1>8, <2>2, <2>3 DEF CANT_WRITE
<1>9. CASE GET_BLK_EOT \/ RCV_OK \/ F_CLOSE \/ SNDR_CANCELS
  BY <1>9 DEF GET_BLK_EOT, RCV_OK, F_CLOSE, SNDR_CANCELS, Chain, Receiving,
              InOrder
<1>10. CASE R_POSS_ABRT \/ R_WAIT_ONE
  BY <1>10 DEF R_POSS_ABRT, R_WAIT_ONE, Chain, Receiving, InOrder, rVars
<1>11. CASE R_SEND_CANS
  <2>1. Chain'
    BY <1>11 DEF R_SEND_CANS, Chain, Receiving
  <2>2. rFile' = <<>> \/ rFile' = rFile
    BY <1>11 DEF R_SEND_CANS
  <2>3. Len(<<>>) = 0
    OBVIOUS
  <2> QED
    BY <2>1, <2>2, <2>3 DEF InOrder
<1> QED
  BY <1>1, <1>2, <1>3, <1>4, <1>5, <1>6, <1>7, <1>8, <1>9, <1>10, <1>11
     DEF Receiver

LEMMA OrderStep ==
  ASSUME "SYN" \notin Forged
  PROVE  OrderInv /\ [Next]_vars => OrderInv'
<1> SUFFICES ASSUME OrderInv, [Next]_vars PROVE OrderInv'
  OBVIOUS
<1>1. TypeInv' /\ toR'.kind # "SYN"
  BY TypeStep, NoTelink DEF OrderInv
<1>2. CASE Sender \/ AFF_2
  <2>1. rFile' = rFile
    BY <1>2 DEF Sender, AFF_2, INIT_AHC, INIT_AHC_CAN, IAHC_1, READ_BLK,
         READ_BLK_error, SLP_1, WAIT_RESP, AFY, AFY_4, SND_EOT_0, S_E_2,
         EOT_again, S_POSS_ABRT, S_WAIT_ONE, S_SEND_CANS, rVars
  <2> QED
    BY <1>1, <1>2, <2>1, ChainSender DEF OrderInv, InOrder
<1>3. CASE Receiver \/ EXIST_2
  BY <1>1, <1>3, ChainReceiver DEF OrderInv
<1>4. CASE S_BREAK \/ R_BREAK
  BY <1>1, <1>4, Bystander DEF OrderInv, InOrder, S_BREAK, R_BREAK, sVars,
         rVars, Receiving
<1>5. CASE HANGUP
  BY <1>1, <1>5, SignalType, Bystander DEF OrderInv, InOrder, HANGUP, sVars,
         rVars, Receiving
<1>6. CASE UNCHANGED vars
  BY <1>1, <1>6, Bystander DEF OrderInv, InOrder, vars, sVars, rVars, Receiving
<1> QED
  BY <1>2, <1>3, <1>4, <1>5, <1>6 DEF Next, Operators

(* Whatever the line loses, damages or delays, and whoever interferes, the *)
(* receiver's file holds the blocks of the sender's file from the first    *)
(* on, none missing, none twice: CHECK_SEQ's one-byte comparison is        *)
(* enough.  (A line that forges Telink headers is excluded.)               *)
THEOREM BlocksInOrder ==
  ASSUME "SYN" \notin Forged
  PROVE  Spec => []InOrder
<1>1. OrderInv => InOrder
  BY DEF OrderInv
<1> QED
  BY <1>1, OrderInit, OrderStep, PTL DEF Spec

(* The sender is never more than three blocks ahead of a receiver that     *)
(* still stores blocks.                                                    *)
THEOREM LeadStaysBounded ==
  ASSUME "SYN" \notin Forged
  PROVE  Spec => []LeadBounded
<1>1. OrderInv => LeadBounded
  <2> SUFFICES ASSUME OrderInv, Receiving
               PROVE  Len(rFile) <= sPos /\ sPos <= Len(rFile) + 3
    BY DEF LeadBounded
  <2>1. Window
    BY DEF OrderInv, Chain
  <2>2. Got \in Nat /\ sPos \in Nat /\ Storing \in {0, 1}
    BY OrderTypes DEF OrderInv
  <2>3. Got <= sPos /\ Ahead <= 3
    BY <2>1, <2>2 DEF Window, Credit, Bit, Ahead
  <2> QED
    BY <2>2, <2>3 DEF Got, Ahead
<1> QED
  BY <1>1, OrderInit, OrderStep, PTL DEF Spec

-----------------------------------------------------------------------------
(* The transfer between ends that do not answer late: what each end is     *)
(* told is what happened, and the exchange of frames and replies           *)
(* implements Transfer.  The line may lose and damage frames and replies,  *)
(* and turn a header into CAN; the disks may fail, the operators may break *)
(* in and the carrier may fall.                                            *)

(* The two ends take turns.  Between a sender that has called, or is       *)
(* called, and a receiver that has not ended there is one message or one   *)
(* end at work, never two.                                                 *)

SAtWork  == {"read", "send", "eot"}
SListens == {"wait", "eotwait"}
SPastEot == {"eot", "eotwait", "cancel"} \cup SEnded
RKept    == {"closing", "done", "closefail"}

\* Nothing has been sent before the first reply, and none comes before the
\* receiver is started.
NotStarted ==
  /\ sPc \in {"off", "init"} =>
       /\ toR.kind = "none" /\ toS # "ACK" /\ Got = 0 /\ sPos = 0
       /\ rPc \notin {"store", "finish"} \cup RKept
  /\ rPc = "off" =>
       toS = "none" /\ sPc \in {"off", "init", "cancel", "aborted"}

\* The sender works only while the receiver has nothing to answer.
SendersTurn ==
  sPc \in SAtWork /\ rPc \notin REnded =>
    /\ toS = "none" /\ toR.kind = "none"
    /\ rPc \in {"wait", "flush", "cancel", "closing"}

\* While the sender listens there is a reply, or a frame, or the receiver is
\* storing what the frame said, or nothing.
OneMessage ==
  sPc \in SListens /\ rPc \notin REnded =>
    /\ toS # "none" => toR.kind = "none" /\ rPc \notin {"store", "finish"}
    /\ rPc \in {"store", "finish"} => toR.kind = "none"

\* A block on its way is the one the sender waits for.
ThisBlock ==
  /\ toR.kind = "SOH" /\ rPc \notin REnded =>
       sPc \in {"wait", "cancel", "aborted"}
  /\ toR.kind = "SOH" /\ Receiving /\ sPc = "wait" => toR.data = sPos
  /\ rPc = "store" => sPc \in {"wait", "cancel", "aborted"} /\ toR.kind # "EOT"
  /\ rPc = "store" /\ sPc = "wait" => rData = sPos

\* READ_BLK finds no more blocks only when all of them were sent.
AllRead ==
  /\ sEof => sPos + sStored = N
  /\ sPc \in {"eot", "eotwait", "acked", "unacked"} => sPos = N

\* The sender goes on when the receiver has what was sent, unless the receiver
\* has given up since.
InStep ==
  /\ sPc \in {"read", "eot", "eotwait", "unacked"} =>
       Got = sPos \/ rPc = "aborted"
  /\ rPc = "aborted" /\ sPc \notin SEnded => toS # "ACK"
  /\ toS = "ACK" /\ sPc = "eotwait" => rPc \in RKept
  /\ sPc = "acked" => rPc \in RKept

\* An EOT means that the receiver has everything.
EotIsEnd ==
  /\ toR.kind = "EOT" /\ rPc # "aborted" => Got = N /\ sPc \in SPastEot
  /\ rPc \in {"finish"} \cup RKept => Got = N /\ sPc \in SPastEot
  /\ rPc \in RKept => rStored = 0

LockStep ==
  /\ NotStarted /\ SendersTurn /\ OneMessage /\ ThisBlock
  /\ AllRead /\ InStep /\ EotIsEnd
  /\ AckIsForThisBlock

PromptInv == OrderInv /\ LockStep

LEMMA LockSender ==
  ASSUME Prompt = TRUE, Forged \subseteq {"CAN"}, PromptInv, Sender \/ AFF_2
  PROVE  LockStep'
<1> USE DEF LockStep, NotStarted, SendersTurn, OneMessage, ThisBlock, AllRead,
            InStep, EotIsEnd, AckIsForThisBlock, SAtWork, SListens, SPastEot,
            RKept, SEnded, REnded, Receiving, rVars
<1>0. LockStep /\ TypeInv
  BY DEF PromptInv, OrderInv
<1>s. /\ Signal("junk").kind = "junk" /\ Signal("CAN").kind = "CAN"
      /\ Signal("EOT").kind = "EOT" /\ Signal("none").kind = "none"
  BY SignalType
<1>r. rPc \in {"off", "wait", "flush", "store", "finish", "closing", "cancel",
              "done", "closefail", "aborted"}
  BY <1>0 DEF TypeInv, TypeOK, RStates
<1>1. CASE AFF_2
  BY <1>0, <1>1 DEF AFF_2, Got
<1>2. CASE INIT_AHC
  BY <1>0, <1>r, <1>2 DEF INIT_AHC, Got
<1>3. CASE INIT_AHC_CAN
  BY <1>0, <1>3 DEF INIT_AHC_CAN, Got
<1>4. CASE IAHC_1
  BY <1>0, <1>4 DEF IAHC_1, Got
<1>5. CASE READ_BLK
  <2>1. Ready \in Nat /\ sPos \in Nat /\ sStored \in Nat /\ N \in Nat
    BY <1>0, XmodemAssumption DEF TypeInv, TypeOK, Ready, Refill, Chunk
  <2>2. sEof' => sPos' + sStored' = N
    BY <1>0, <1>5, <2>1 DEF READ_BLK, Ready, Refill, Chunk, TypeInv, TypeOK
  <2>3. sPc' = "eot" => sPos' = N
    BY <1>0, <1>5, <2>1, XmodemAssumption
       DEF READ_BLK, Ready, Refill, Chunk, TypeInv, TypeOK
  <2>4. sPc' = "eot" => sPos' = sPos
    BY <1>5 DEF READ_BLK
  <2>5. /\ sPc = "read" /\ sPc' \in {"send", "eot"}
        /\ UNCHANGED <<rVars, toS, toR>>
    BY <1>5 DEF READ_BLK
  <2>6. Got' = Got
    BY <2>5 DEF Got
  <2> QED
    BY <1>0, <2>2, <2>3, <2>4, <2>5, <2>6
<1>6. CASE READ_BLK_error
  BY <1>0, <1>6 DEF READ_BLK_error, Got
<1>7. CASE SLP_1
  <2> DEFINE f == [kind |-> "SOH", num |-> sNum, data |-> sPos, crc |-> sCrc]
  <2>1. toR' \in {f, toR, Signal("junk"), Signal("CAN")}
    BY <1>7, FrameFacts DEF SLP_1
  <2>2. f.kind = "SOH" /\ f.data = sPos
    OBVIOUS
  <2> HIDE DEF f
  <2>3. /\ toR'.kind \in {toR.kind, "SOH", "junk", "CAN"}
        /\ (toR' = toR \/ (toR'.kind = "SOH" => toR'.data = sPos))
    BY <2>1, <2>2, <1>s
  <2>4. /\ sPc = "send" /\ sPc' = "wait"
        /\ UNCHANGED <<sPos, sStored, sEof, rVars, toS>>
    BY <1>7 DEF SLP_1
  <2>5. Got' = Got
    BY <2>4 DEF Got
  <2> QED
    BY <1>0, <2>1, <2>2, <2>3, <2>4, <2>5, <1>s DEF Got
<1>8. CASE WAIT_RESP
  <2>1. Got = sPos
    BY <1>0, <1>8 DEF WAIT_RESP, Got
  <2>2. Got' = Got
    BY <1>8 DEF WAIT_RESP, Got
  <2> QED
    BY <1>0, <1>r, <1>8, <2>1, <2>2 DEF WAIT_RESP
<1>9. CASE AFY
  <2>1. Got' = Got
    BY <1>9 DEF AFY, Got
  <2>2. CASE toS \in {"NAK", "C"}
    BY <1>0, <1>r, <1>9, <2>1, <2>2 DEF AFY
  <2>3. CASE SQuiet
    BY <1>0, <1>9, <2>1, <2>3 DEF AFY, SQuiet
  <2> QED
    BY <1>9, <2>2, <2>3 DEF AFY
<1>10. CASE AFY_4
  BY <1>0, <1>10 DEF AFY_4, Got
<1>11. CASE SND_EOT_0
  <2>1. toR' \in {Signal("EOT"), toR, Signal("junk"), Signal("CAN")}
    BY <1>11, FrameFacts DEF SND_EOT_0
  <2>2. toR'.kind = "SOH" => toR' = toR
    BY <2>1, <1>s
  <2>3. /\ sPc = "eot" /\ sPc' = "eotwait"
        /\ UNCHANGED <<sPos, sStored, sEof, rVars, toS>>
    BY <1>11 DEF SND_EOT_0
  <2>4. Got' = Got
    BY <2>3 DEF Got
  <2> QED
    BY <1>0, <2>2, <2>3, <2>4
<1>12. CASE S_E_2
  BY <1>0, <1>12 DEF S_E_2, Got
<1>13. CASE EOT_again
  <2>1. Got' = Got
    BY <1>13 DEF EOT_again, Got
  <2>2. CASE toS \in {"NAK", "C"}
    BY <1>0, <1>r, <1>13, <2>1, <2>2 DEF EOT_again
  <2>3. CASE SQuiet
    BY <1>0, <1>13, <2>1, <2>3 DEF EOT_again, SQuiet
  <2> QED
    BY <1>13, <2>2, <2>3 DEF EOT_again
<1>14. CASE S_POSS_ABRT
  BY <1>0, <1>14 DEF S_POSS_ABRT, Got
<1>15. CASE S_WAIT_ONE
  BY <1>0, <1>15 DEF S_WAIT_ONE, sVars, Got
<1>16. CASE S_SEND_CANS
  <2>1. toR' \in {toR, Signal("junk"), Signal("CAN")}
    BY <1>16, FrameFacts DEF S_SEND_CANS
  <2>2. toR'.kind \in {toR.kind, "junk", "CAN"}
        /\ (toR' = toR \/ toR'.kind \in {"junk", "CAN"})
    BY <2>1, <1>s
  <2>3. /\ sPc = "cancel" /\ sPc' = "aborted"
        /\ UNCHANGED <<sPos, sStored, sEof, rVars, toS>>
    BY <1>16 DEF S_SEND_CANS
  <2>4. Got' = Got
    BY <2>3 DEF Got
  <2> QED
    BY <1>0, <2>2, <2>3, <2>4
<1> QED
  BY <1>1, <1>2, <1>3, <1>4, <1>5, <1>6, <1>7, <1>8, <1>9, <1>10, <1>11, <1>12,
     <1>13, <1>14, <1>15, <1>16 DEF Sender

LEMMA LockReceiver ==
  ASSUME Prompt = TRUE, Forged \subseteq {"CAN"}, PromptInv, Receiver \/ EXIST_2
  PROVE  LockStep'
<1> USE DEF LockStep, NotStarted, SendersTurn, OneMessage, ThisBlock, AllRead,
            InStep, EotIsEnd, AckIsForThisBlock, SAtWork, SListens, SPastEot,
            RKept, SEnded, REnded, Receiving, sVars
<1>0. LockStep /\ TypeInv /\ Chain /\ toR.kind # "SYN"
  BY DEF PromptInv, OrderInv
<1>s. Signal("none").kind = "none"
  BY SignalType
<1>r. /\ rPc \in {"off", "wait", "flush", "store", "finish", "closing", "cancel",
                 "done", "closefail", "aborted"}
      /\ sPc \in {"off", "init", "read", "send", "wait", "eot", "eotwait",
                 "cancel", "acked", "unacked", "aborted"}
  BY <1>0 DEF TypeInv, TypeOK, RStates, SStates
<1>1. CASE EXIST_2
  <2>1. toS' \in {"C", "NAK", toS, "junk"}
    BY <1>1, ReplyFacts DEF EXIST_2
  <2> QED
    BY <1>0, <1>s, <1>1, <2>1 DEF EXIST_2, Got
<1>2. CASE CHECK_SEQ
  <2>1. toR.kind = "SOH" /\ rPc = "wait"
    BY <1>2 DEF CHECK_SEQ, NextBlock, Sound
  <2> QED
    BY <1>0, <1>s, <1>2, <2>1 DEF CHECK_SEQ, Got
<1>3. CASE AFR
  <2>1. toR.kind = "SOH" /\ rPc = "wait" /\ toR.num = rNum
    BY <1>0, <1>3 DEF AFR, Duplicate, Sound
  <2>2. toR.data = Got
    BY <1>0, <2>1, NumberTells
  <2>3. toS' \in {"ACK", toS, "junk"}
    BY <1>3, ReplyFacts DEF AFR
  <2>4. Got' = Got
    BY <1>3 DEF AFR, Got
  <2>5. AckIsForThisBlock'
    BY <1>0, <1>3, <2>1, <2>2, <2>4 DEF AFR, Got
  <2> QED
    BY <1>0, <1>s, <1>3, <2>1, <2>3, <2>4, <2>5 DEF AFR
<1>4. CASE MSG_NAK
  <2>1. toR.kind # "EOT"
    BY <1>4 DEF MSG_NAK, RQuiet, Sound
  <2> QED
    BY <1>0, <1>s, <1>4, <2>1 DEF MSG_NAK, Got
<1>5. CASE SN_0
  BY <1>0, <1>s, <1>5 DEF SN_0, rVars, Got
<1>6. CASE SEND_NAK
  <2>1. toS' \in {"C", "NAK", toS, "junk"}
    BY <1>6, ReplyFacts DEF SEND_NAK
  <2> QED
    BY <1>0, <1>s, <1>6, <2>1 DEF SEND_NAK, RQuiet, Got
<1>7. CASE WRITE_BLK
  <2>1. toS' \in {"ACK", toS, "junk"}
    BY <1>7, ReplyFacts DEF WRITE_BLK
  <2>2. rData = Got + 1 /\ rPc = "store"
    BY <1>0, <1>7 DEF Chain, WRITE_BLK
  <2>3. Got' = Got + 1
    BY <1>0, <1>7 DEF WRITE_BLK, Got, TypeInv, TypeOK
  <2>4. sPc = "wait" => Got' = sPos
    BY <1>0, <2>2, <2>3
  <2>5. AckIsForThisBlock'
    BY <1>7, <2>4 DEF WRITE_BLK, Got
  <2> QED
    BY <1>0, <1>7, <2>1, <2>2, <2>5 DEF WRITE_BLK
<1>8. CASE CANT_WRITE
  <2>1. CASE rPc = "store"
    BY <1>0, <1>8, <2>1 DEF CANT_WRITE
  <2>2. CASE rPc = "finish"
    BY <1>0, <1>8, <2>2 DEF CANT_WRITE, Got
  <2> QED
    BY <1>8, <2>1, <2>2 DEF CANT_WRITE
<1>9. CASE GET_BLK_EOT
  BY <1>0, <1>s, <1>9 DEF GET_BLK_EOT, rVars, Got
<1>10. CASE RCV_OK
  <2>1. toS' \in {"ACK", toS, "junk"}
    BY <1>10, ReplyFacts DEF RCV_OK
  <2> QED
    BY <1>0, <1>10, <2>1 DEF RCV_OK, Got
<1>11. CASE F_CLOSE
  BY <1>0, <1>s, <1>11 DEF F_CLOSE, rVars, Got
<1>12. CASE SNDR_CANCELS
  BY <1>0, <1>s, <1>12 DEF SNDR_CANCELS, rVars, Got
<1>13. CASE R_POSS_ABRT
  BY <1>0, <1>s, <1>13 DEF R_POSS_ABRT, rVars, Got
<1>14. CASE R_WAIT_ONE
  BY <1>0, <1>s, <1>14 DEF R_WAIT_ONE, rVars, Got
<1>15. CASE R_SEND_CANS
  <2>1. toS' \in {"CAN", toS, "junk"}
    BY <1>15, ReplyFacts DEF R_SEND_CANS
  <2>2. CASE rFile' = rFile
    BY <1>0, <1>15, <2>1, <2>2 DEF R_SEND_CANS, Got
  <2>3. CASE rFile' = <<>>
    <3>1. Got' = 0
      BY <2>3 DEF Got
    <3> QED
      BY <1>0, <1>15, <2>1, <3>1 DEF R_SEND_CANS
  <2> QED
    BY <1>15, <2>2, <2>3 DEF R_SEND_CANS
<1> QED
  BY <1>1, <1>2, <1>3, <1>4, <1>5, <1>6, <1>7, <1>8, <1>9, <1>10, <1>11, <1>12,
     <1>13, <1>14, <1>15 DEF Receiver

LEMMA LockInit == Init => LockStep
<1> SUFFICES ASSUME Init PROVE LockStep
  OBVIOUS
<1>1. toR.kind = "none" /\ Got = 0 /\ sPos = 0 /\ toS = "none"
      /\ sPc = "off" /\ rPc = "off" /\ sEof = FALSE
  BY SignalType DEF Init, Got
<1> QED
  BY <1>1 DEF LockStep, NotStarted, SendersTurn, OneMessage, ThisBlock, AllRead,
         InStep, EotIsEnd, AckIsForThisBlock, SAtWork, SListens, SPastEot,
         RKept, SEnded, REnded, Receiving

(* The BREAK keys and the carrier answer nothing.                          *)
LEMMA LockOthers ==
  ASSUME LockStep, S_BREAK \/ R_BREAK \/ HANGUP \/ UNCHANGED vars
  PROVE  LockStep'
<1> USE DEF LockStep, NotStarted, SendersTurn, OneMessage, ThisBlock, AllRead,
            InStep, EotIsEnd, AckIsForThisBlock, SAtWork, SListens, SPastEot,
            RKept, SEnded, REnded, Receiving, sVars, rVars
<1>1. CASE S_BREAK
  BY <1>1 DEF S_BREAK, Got
<1>2. CASE R_BREAK
  BY <1>2 DEF R_BREAK, Got
<1>3. CASE HANGUP
  BY <1>3, SignalType DEF HANGUP, Got
<1>4. CASE UNCHANGED vars
  BY <1>4 DEF vars, Got
<1> QED
  BY <1>1, <1>2, <1>3, <1>4

LEMMA PromptInit == Init => PromptInv
BY OrderInit, LockInit DEF PromptInv

LEMMA PromptStep ==
  ASSUME Prompt = TRUE, Forged \subseteq {"CAN"}
  PROVE  PromptInv /\ [Next]_vars => PromptInv'
<1> SUFFICES ASSUME PromptInv, [Next]_vars PROVE PromptInv'
  OBVIOUS
<1>1. OrderInv'
  BY OrderStep DEF PromptInv
<1>2. LockStep'
  <2>1. CASE Sender \/ AFF_2
    BY <2>1, LockSender
  <2>2. CASE Receiver \/ EXIST_2
    BY <2>2, LockReceiver
  <2>3. CASE S_BREAK \/ R_BREAK \/ HANGUP \/ UNCHANGED vars
    BY <2>3, LockOthers DEF PromptInv
  <2> QED
    BY <2>1, <2>2, <2>3 DEF Next, Operators
<1> QED
  BY <1>1, <1>2 DEF PromptInv

(* Between ends that do not answer late, an ACK is believed only for the   *)
(* block it is for, a sender told of success has delivered the whole file  *)
(* to the other disk, and a receiver never keeps a part of it as if it     *)
(* were whole: however frames and replies are lost and damaged, and        *)
(* whoever breaks in (WAIT_RESP, S_E_2, RCV_OK).                           *)
THEOREM SuccessIsTold ==
  ASSUME Prompt = TRUE, Forged \subseteq {"CAN"}
  PROVE  Spec => []ToldTruth
<1>1. PromptInv => ToldTruth
  BY DEF PromptInv, LockStep, InStep, EotIsEnd, ToldTruth, AckedMeansWhole,
         ClosedMeansWhole, RKept, Got
<1> QED
  BY <1>1, PromptInit, PromptStep, PTL DEF Spec

-----------------------------------------------------------------------------
(* The transfer implements Transfer, step by step.                         *)

\* What the programs that started the two ends know of them.
SResult == CASE sPc = "acked" -> "sent" [] sPc = "unacked" -> "presumed"
             [] sPc = "aborted" -> "failed" [] OTHER -> "busy"
RResult == CASE rPc \in {"closing", "done"} -> "kept"
             [] rPc = "closefail" -> "lost"
             [] rPc = "aborted" -> "failed" [] OTHER -> "busy"

(* A step of the sender that does not end it is none of the transfer's.    *)
LEMMA SenderResult ==
  ASSUME Prompt = TRUE, PromptInv, Sender \/ AFF_2
  PROVE  [TR!Next]_(TR!vars)
<1> DEFINE over == {"acked", "unacked", "aborted"}
<1>0. RResult' = RResult /\ Got' = Got
  BY DEF Sender, AFF_2, INIT_AHC, INIT_AHC_CAN, IAHC_1, READ_BLK,
         READ_BLK_error, SLP_1, WAIT_RESP, AFY, AFY_4, SND_EOT_0, S_E_2,
         EOT_again, S_POSS_ABRT, S_WAIT_ONE, S_SEND_CANS, rVars, RResult, Got
<1>1. CASE S_E_2
  <2>1. sPc = "eotwait" /\ sPc' = "acked" /\ rPc \in RKept
    BY <1>1 DEF S_E_2, PromptInv, LockStep, InStep
  <2> QED
    BY <1>0, <2>1 DEF TR!Next, TR!Told, RKept, RResult, Got
<1>2. CASE EOT_again /\ sPc' = "unacked"
  <2>1. sPc = "eotwait" /\ (Got = N \/ rPc = "aborted")
    BY <1>2 DEF EOT_again, PromptInv, LockStep, InStep, AllRead
  <2> QED
    BY <1>0, <1>2, <2>1 DEF TR!Next, TR!Presume, RResult, Got
<1>3. CASE S_SEND_CANS
  <2>1. sPc = "cancel" /\ sPc' = "aborted"
    BY <1>3 DEF S_SEND_CANS
  <2> QED
    BY <1>0, <2>1 DEF TR!Next, TR!SenderFails, RResult, Got
<1>4. CASE sPc \notin over /\ sPc' \notin over
  BY <1>0, <1>4 DEF TR!vars, RResult, Got
<1>5. \/ S_E_2
      \/ EOT_again /\ sPc' = "unacked"
      \/ S_SEND_CANS
      \/ sPc \notin over /\ sPc' \notin over
  BY DEF Sender, AFF_2, INIT_AHC, INIT_AHC_CAN, IAHC_1, READ_BLK,
         READ_BLK_error, SLP_1, WAIT_RESP, AFY, AFY_4, SND_EOT_0, S_E_2,
         EOT_again, S_POSS_ABRT, S_WAIT_ONE, S_SEND_CANS, sVars
<1> QED
  BY <1>1, <1>2, <1>3, <1>4, <1>5

LEMMA ReceiverResult ==
  ASSUME Prompt = TRUE, Forged \subseteq {"CAN"}, PromptInv, PromptInv',
         Receiver \/ EXIST_2
  PROVE  [TR!Next]_(TR!vars)
<1> DEFINE over == {"closing", "done", "closefail", "aborted"}
<1>0. SResult' = SResult
  BY DEF Receiver, EXIST_2, CHECK_SEQ, AFR, MSG_NAK, SN_0, SEND_NAK, WRITE_BLK,
         CANT_WRITE, GET_BLK_EOT, RCV_OK, F_CLOSE, SNDR_CANCELS, R_POSS_ABRT,
         R_WAIT_ONE, R_SEND_CANS, sVars, SResult
<1>1. CASE WRITE_BLK \/ (CANT_WRITE /\ rPc = "store")
  <2>1. rPc = "store" /\ rPc' \in {"wait", "cancel"}
        /\ rFile' = Append(rFile, rData)
    BY <1>1 DEF WRITE_BLK, CANT_WRITE
  <2>2. rFile \in Seq(0 .. N) /\ rData \in 0 .. N /\ sPos \in 0 .. N
    BY DEF PromptInv, OrderInv, TypeInv, TypeOK
  <2>3. Len(rFile') = Len(rFile) + 1
    BY <2>1, <2>2
  <2>4. Got + 1 <= sPos
    BY <2>1 DEF PromptInv, OrderInv, Chain, Receiving, Window, Storing, Bit
  <2>5. Len(rFile) < N
    BY <2>2, <2>4, XmodemAssumption DEF Got
  <2> QED
    BY <1>0, <2>1, <2>3, <2>5 DEF TR!Next, TR!Store, SResult
<1>2. CASE RCV_OK
  <2>1. rPc = "finish" /\ rPc' = "closing" /\ Len(rFile) = N /\ rFile' = rFile
    BY <1>2 DEF RCV_OK, PromptInv, LockStep, EotIsEnd, Got
  <2> QED
    BY <1>0, <2>1 DEF TR!Next, TR!Keep, SResult
<1>3. CASE F_CLOSE
  <2>1. rPc = "closing" /\ rPc' \in {"done", "closefail"} /\ rFile' = rFile
    BY <1>3 DEF F_CLOSE
  <2> QED
    BY <1>0, <2>1 DEF TR!Next, TR!Lose, TR!vars, SResult
<1>4. CASE R_SEND_CANS
  <2>1. rPc = "cancel" /\ rPc' = "aborted"
        /\ (rFile' = <<>> \/ rFile' = rFile)
    BY <1>4 DEF R_SEND_CANS
  <2>2. Len(rFile') \in {0, Len(rFile)}
    BY <2>1
  <2> QED
    BY <1>0, <2>1, <2>2 DEF TR!Next, TR!ReceiverFails, SResult
<1>5. CASE rPc \notin over /\ rPc' \notin over /\ rFile' = rFile
  BY <1>0, <1>5 DEF TR!vars, SResult
<1>6. \/ WRITE_BLK \/ (CANT_WRITE /\ rPc = "store")
      \/ RCV_OK \/ F_CLOSE \/ R_SEND_CANS
      \/ rPc \notin over /\ rPc' \notin over /\ rFile' = rFile
  BY DEF Receiver, EXIST_2, CHECK_SEQ, AFR, MSG_NAK, SN_0, SEND_NAK,
         CANT_WRITE, GET_BLK_EOT, SNDR_CANCELS, R_POSS_ABRT, R_WAIT_ONE, rVars
<1> QED
  BY <1>1, <1>2, <1>3, <1>4, <1>5, <1>6

(* The exchange of frames and replies amounts to the abstract transfer:    *)
(* the file grows block by block, only a whole one is kept, and the sender *)
(* is told of success only then (SEND and RCV_LP together).                *)
THEOREM XmodemIsTransfer ==
  ASSUME Prompt = TRUE, Forged \subseteq {"CAN"}
  PROVE  Spec => ImplementsTransfer
<1>1. Init => TR!Init
  BY DEF Init, TR!Init
<1>2. PromptInv /\ PromptInv' /\ [Next]_vars => [TR!Next]_(TR!vars)
  <2> SUFFICES ASSUME PromptInv, PromptInv', [Next]_vars
               PROVE  [TR!Next]_(TR!vars)
    OBVIOUS
  <2>1. CASE Sender \/ AFF_2
    BY <2>1, SenderResult
  <2>2. CASE Receiver \/ EXIST_2
    BY <2>2, ReceiverResult
  <2>3. CASE S_BREAK \/ R_BREAK \/ HANGUP \/ UNCHANGED vars
    BY <2>3 DEF S_BREAK, R_BREAK, HANGUP, vars, sVars, rVars, TR!vars
  <2> QED
    BY <2>1, <2>2, <2>3 DEF Next, Operators
<1> QED
  BY <1>1, <1>2, PromptInit, PromptStep, PTL DEF Spec, TR!Spec, ImplementsTransfer
=============================================================================
