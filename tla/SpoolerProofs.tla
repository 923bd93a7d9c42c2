--------------------------- MODULE SpoolerProofs ----------------------------
(***************************************************************************)
(* Proofs about Spooler for any files, queue length and depth of nesting:  *)
(* the types, that DOS is not entered again, that files leave the queue in *)
(* the order in which they were put there, and that what they hold is what *)
(* is printed.                                                             *)
(***************************************************************************)
EXTENDS Spooler, TLAPS, FiniteSetTheorems, SequenceTheorems

InHand == {FF} \cup (Files \X Nat)
Activation == [at : Labels, byte : InHand]

(* The parts of TypeOK, with what the handlers rely on: names in use are   *)
(* names of files, and FCB describes one wherever it is used.              *)
TypeInv ==
  /\ TypeOK
  /\ \A i \in 1 .. queue : slot[i] \in Files
  /\ fcb \notin Files => ~printing
  /\ fcb \notin Files =>
       \A i \in DOMAIN handlers : handlers[i].at \in {"EXECUTE", "EXIT"}

(* A handler that was interrupted is in the ROM, and so is, if a handler   *)
(* runs, whatever it interrupted, unless that is the user's own code.      *)
Interrupted ==
  /\ \A i \in DOMAIN handlers : i < Len(handlers) => AreaOf(handlers[i].at) = "rom"
  /\ handlers # <<>> => at \in {"user", "rom"}

-----------------------------------------------------------------------------
(* The stack of activations.                                               *)

LEMMA GotoFacts ==
  ASSUME NEW label \in Labels, NEW old \in Labels, TypeOK, Handler(old), Goto(label)
  PROVE  /\ handlers' \in Seq(Activation) /\ Len(handlers') = Len(handlers)
         /\ Len(handlers) > 0 /\ handlers' # <<>>
         /\ DOMAIN handlers' = DOMAIN handlers
         /\ \A i \in DOMAIN handlers :
              handlers'[i].at = IF i = Len(handlers) THEN label ELSE handlers[i].at
<1>1. handlers \in Seq(Activation) /\ handlers # <<>>
  BY DEF TypeOK, Handler, Activation, InHand
<1>2. Len(handlers) \in 1 .. Len(handlers) /\ Len(handlers) > 0
  BY <1>1
<1>3. handlers' = [handlers EXCEPT ![Len(handlers)].at = label]
  BY DEF Goto
<1>4. handlers[Len(handlers)] \in Activation
  BY <1>1, <1>2
<1>5. [handlers[Len(handlers)] EXCEPT !.at = label] \in Activation
  BY <1>4 DEF Activation
<1>6. handlers' = [handlers EXCEPT ![Len(handlers)] = [@ EXCEPT !.at = label]]
  BY <1>3
<1>7. handlers' \in Seq(Activation) /\ Len(handlers') = Len(handlers)
  BY <1>1, <1>2, <1>5, <1>6
<1>8. \A i \in 1 .. Len(handlers) :
        handlers'[i].at = IF i = Len(handlers) THEN label ELSE handlers[i].at
  BY <1>1, <1>2, <1>4, <1>6 DEF Activation
<1> QED
  BY <1>1, <1>2, <1>7, <1>8

LEMMA PopFacts ==
  ASSUME TypeOK, handlers # <<>>, handlers' = Front(handlers)
  PROVE  /\ handlers' \in Seq(Activation) /\ Len(handlers') = Len(handlers) - 1
         /\ \A i \in 1 .. Len(handlers') : i \in 1 .. Len(handlers)
              /\ i < Len(handlers) /\ handlers'[i] = handlers[i]
<1>1. handlers \in Seq(Activation)
  BY DEF TypeOK, Activation, InHand
<1> DEFINE n == Len(handlers) - 1
<1>2. n \in Nat /\ n <= Len(handlers) /\ \A i \in 1 .. n : handlers[i] \in Activation
  BY <1>1
<1>3. handlers' = SubSeq(handlers, 1, n)
  BY DEF Front
<1>4. /\ handlers' \in Seq(Activation)
      /\ Len(handlers') = IF 1 <= n THEN n - 1 + 1 ELSE 0
      /\ \A i \in 1 .. n - 1 + 1 : handlers'[i] = handlers[1 + i - 1]
  BY <1>2, <1>3, SubSeqProperties
<1> HIDE DEF n
<1>5. Len(handlers') = n
  <2>1. n - 1 + 1 = n /\ (1 <= n \/ n = 0)
    BY <1>2
  <2> QED
    BY <2>1, <1>4
<1>6. \A i \in 1 .. n : handlers'[i] = handlers[i]
  BY <1>2, <1>4
<1> QED
  BY <1>1, <1>2, <1>4, <1>5, <1>6 DEF n

LEMMA PushFacts ==
  ASSUME TypeOK, handlers' = Append(handlers, [at |-> "EXECUTE", byte |-> FF])
  PROVE  /\ handlers' \in Seq(Activation) /\ Len(handlers') = Len(handlers) + 1
         /\ handlers' # <<>> /\ handlers'[Len(handlers')].at = "EXECUTE"
         /\ \A i \in 1 .. Len(handlers) : handlers'[i] = handlers[i]
<1>1. handlers \in Seq(Activation)
  BY DEF TypeOK, Activation, InHand
<1>2. [at |-> "EXECUTE", byte |-> FF] \in Activation
  BY DEF Activation, InHand, Labels
<1> QED
  BY <1>1, <1>2, AppendProperties

LEMMA GetFacts ==
  ASSUME TypeInv, Get
  PROVE  /\ handlers' \in Seq(Activation) /\ Len(handlers') = Len(handlers)
         /\ Len(handlers) > 0 /\ handlers' # <<>> /\ fcb \in Files
         /\ \A i \in 1 .. Len(handlers) :
              handlers'[i].at = IF i = Len(handlers) THEN "return" ELSE handlers[i].at
<1> DEFINE b == IF pos < Size[fcb] THEN <<fcb, pos + 1>> ELSE FF
<1>1. handlers \in Seq(Activation) /\ handlers # <<>> /\ pos \in Nat
  BY DEF TypeInv, TypeOK, Get, Handler, Activation, InHand
<1>2. Len(handlers) \in 1 .. Len(handlers) /\ Len(handlers) > 0
  BY <1>1
<1>3. handlers[Len(handlers)].at = "get"
  BY DEF Get, Handler, Last
<1>4. fcb \in Files
  BY <1>1, <1>2, <1>3 DEF TypeInv, TypeOK
<1>5. pos + 1 \in Nat
  BY <1>1
<1>6. <<fcb, pos + 1>> \in Files \X Nat
  BY <1>4, <1>5
<1>7. b \in InHand
  BY <1>6 DEF InHand
<1>8. [at |-> "return", byte |-> b] \in Activation
  BY <1>7 DEF Activation, Labels
<1>9. handlers' = [handlers EXCEPT ![Len(handlers)] = [at |-> "return", byte |-> b]]
  BY DEF Get
<1> HIDE DEF b
<1> QED
  BY <1>1, <1>2, <1>4, <1>8, <1>9

-----------------------------------------------------------------------------
(* Types.                                                                  *)

LEMMA TypeInit == Init => TypeInv
<1> SUFFICES ASSUME Init PROVE TypeInv
  OBVIOUS
<1>1. handlers = <<>> /\ args = <<>> /\ spooled = <<>> /\ opened = <<>>
  BY DEF Init
<1>2. /\ handlers \in Seq([at : Labels, byte : {FF} \cup (Files \X Nat)])
      /\ args \in Seq(Files) /\ spooled \in Seq(Files) /\ opened \in Seq(Files)
  BY <1>1
<1>3. /\ queue \in 0 .. MaxQueue /\ pos \in Nat
      /\ slot \in [1 .. MaxQueue -> Files \cup {None}]
  BY SpoolerAssumption DEF Init
<1>4. TypeOK
  BY <1>2, <1>3 DEF Init, TypeOK
<1> QED
  BY <1>1, <1>4 DEF Init, TypeInv

(* The program and the command spool.                                      *)
LEMMA TypeProgram ==
  ASSUME TypeInv, Work \/ START \/ SPOOL_LOOP \/ SPOOL_DONE
  PROVE  TypeInv'
<1> USE SpoolerAssumption
<1>1. CASE Work
  BY <1>1 DEF TypeInv, TypeOK, Work, history
<1>2. CASE START
  <2>1. args' \in Seq(Files)
    BY <1>2 DEF START
  <2> QED
    BY <1>2, <2>1 DEF TypeInv, TypeOK, START, history
<1>3. CASE SPOOL_LOOP
  <2>1. Head(args) \in Files /\ args' \in Seq(Files)
    BY <1>3, HeadTailProperties DEF TypeInv, TypeOK, SPOOL_LOOP
  <2>2. spooled' \in Seq(Files)
    BY <1>3, <2>1, AppendProperties DEF TypeInv, TypeOK, SPOOL_LOOP
  <2>3. queue' \in 0 .. MaxQueue /\ queue' = queue + 1 /\ queue \in Nat
    BY <1>3 DEF TypeInv, TypeOK, SPOOL_LOOP, Full
  <2>4. slot' \in [1 .. MaxQueue -> Files \cup {None}]
    BY <1>3, <2>1 DEF TypeInv, TypeOK, SPOOL_LOOP
  <2>5. \A i \in 1 .. queue' : slot'[i] \in Files
    BY <1>3, <2>1, <2>3 DEF TypeInv, TypeOK, SPOOL_LOOP
  <2> QED
    BY <1>3, <2>1, <2>2, <2>3, <2>4, <2>5 DEF TypeInv, TypeOK, SPOOL_LOOP
<1>4. CASE SPOOL_DONE
  <2>1. args' \in Seq(Files)
    BY <1>4 DEF SPOOL_DONE
  <2> QED
    BY <1>4, <2>1 DEF TypeInv, TypeOK, SPOOL_DONE, history
<1> QED
  BY <1>1, <1>2, <1>3, <1>4

(* The handler.                                                            *)
LEMMA TypeHandler ==
  ASSUME TypeInv, SPOOLER \/ Handle
  PROVE  TypeInv'
<1> USE SpoolerAssumption
<1>0. TypeOK /\ handlers \in Seq(Activation)
  BY DEF TypeInv, TypeOK, Activation, InHand
<1>1. CASE SPOOLER
  <2>1. /\ handlers' \in Seq(Activation) /\ Len(handlers') = Len(handlers) + 1
        /\ handlers'[Len(handlers')].at = "EXECUTE"
        /\ \A i \in 1 .. Len(handlers) : handlers'[i] = handlers[i]
    BY <1>0, <1>1, PushFacts DEF SPOOLER
  <2>2. nested' \in BOOLEAN
    BY <1>1 DEF SPOOLER, TypeInv, TypeOK
  <2>3. TypeOK'
    BY <1>0, <1>1, <2>1, <2>2 DEF TypeOK, SPOOLER, program, history, Activation, InHand
  <2>4. fcb' \notin Files => \A i \in DOMAIN handlers' : handlers'[i].at \in {"EXECUTE", "EXIT"}
    BY <1>0, <1>1, <2>1 DEF TypeInv, SPOOLER
  <2> QED
    BY <1>1, <2>3, <2>4 DEF TypeInv, SPOOLER
<1>2. CASE EXECUTE
  <2>1. PICK label \in {"PRT_LOOP", "EXIT", "open"} :
          /\ Goto(label)
          /\ \/ /\ label = "PRT_LOOP" => printing
                /\ label # "open" /\ UNCHANGED <<queue, fcb, opened>>
             \/ /\ ~printing /\ queue > 0
                /\ fcb' = slot[queue] /\ queue' = queue - 1
                /\ opened' = Append(opened, slot[queue])
    BY <1>2 DEF EXECUTE
  <2>2. /\ handlers' \in Seq(Activation) /\ Len(handlers') = Len(handlers)
        /\ \A i \in DOMAIN handlers :
              handlers'[i].at = IF i = Len(handlers) THEN label ELSE handlers[i].at
        /\ DOMAIN handlers' = DOMAIN handlers
    BY <1>0, <1>2, <2>1, GotoFacts DEF EXECUTE, Labels
  <2>3. CASE /\ label = "PRT_LOOP" => printing
             /\ label # "open" /\ UNCHANGED <<queue, fcb, opened>>
    <3>1. TypeOK'
      BY <1>0, <1>2, <2>2, <2>3 DEF TypeOK, EXECUTE, program, Activation, InHand
    <3>2. fcb' \notin Files => \A i \in DOMAIN handlers' : handlers'[i].at \in {"EXECUTE", "EXIT"}
      BY <2>1, <2>2, <2>3 DEF TypeInv
    <3> QED
      BY <1>2, <2>3, <3>1, <3>2 DEF TypeInv, EXECUTE
  <2>4. CASE /\ ~printing /\ queue > 0 /\ fcb' = slot[queue] /\ queue' = queue - 1
             /\ opened' = Append(opened, slot[queue])
    <3>1. slot[queue] \in Files /\ queue \in 1 .. MaxQueue
      BY <2>4 DEF TypeInv, TypeOK
    <3>2. opened' \in Seq(Files)
      BY <1>0, <2>4, <3>1, AppendProperties DEF TypeOK
    <3>3. TypeOK'
      BY <1>0, <1>2, <2>2, <2>4, <3>1, <3>2 DEF TypeOK, EXECUTE, program, Activation, InHand
    <3>4. ~printing' /\ \A i \in 1 .. queue' : slot'[i] \in Files
      BY <1>2, <2>4, <3>1 DEF TypeInv, EXECUTE
    <3> QED
      BY <3>1, <3>3, <3>4, <2>4 DEF TypeInv
  <2> QED
    BY <2>1, <2>3, <2>4
<1>3. CASE Open \/ PRT_LOOP \/ CallGet \/ SendByte
  <2>1. PICK old \in {"open", "PRT_LOOP", "call", "return"}, label \in Labels :
          Handler(old) /\ Goto(label)
    BY <1>3 DEF Open, PRT_LOOP, CallGet, SendByte, Labels
  <2>2. /\ handlers' \in Seq(Activation) /\ Len(handlers) > 0
        /\ Len(handlers') = Len(handlers)
    BY <1>0, <2>1, GotoFacts DEF Labels
  <2>3. fcb \in Files /\ fcb' = fcb
    <3>1. Len(handlers) \in DOMAIN handlers
      BY <1>0, <2>2
    <3>2. handlers[Len(handlers)].at \notin {"EXECUTE", "EXIT"}
      BY <2>1 DEF Handler, Last
    <3> QED
      BY <1>3, <3>1, <3>2 DEF TypeInv, Open, PRT_LOOP, CallGet, SendByte, program
  <2>4. pos' \in Nat /\ printing' \in BOOLEAN /\ drive' \in Drives
    <3>1. CASE Open
      <4>1. drive' \in Drives
        BY <2>3, <3>1 DEF Open
      <4>2. \/ UNCHANGED <<pos, printing>>
            \/ pos' = 0 /\ printing' = TRUE
        BY <3>1 DEF Open
      <4>3. pos' \in Nat
        BY <1>0, <4>2 DEF TypeOK
      <4>4. printing \in BOOLEAN /\ (printing' = printing \/ printing' = TRUE)
        BY <1>0, <4>2, Zenon DEF TypeOK
      <4>5. printing' \in BOOLEAN
        BY <4>4, Zenon
      <4> QED
        BY <4>1, <4>3, <4>5
    <3>2. CASE PRT_LOOP \/ CallGet
      BY <1>0, <3>2 DEF TypeOK, PRT_LOOP, CallGet
    <3>3. CASE SendByte
      <4>1. printing' = FALSE \/ printing' = printing
        BY <3>3 DEF SendByte
      <4> QED
        BY <1>0, <3>3, <4>1 DEF TypeOK, SendByte
    <3> QED
      BY <1>3, <3>1, <3>2, <3>3
  <2>5. UNCHANGED <<slot, queue, curDn, program, spooled, opened, nested>>
    BY <1>3 DEF Open, PRT_LOOP, CallGet, SendByte, history
  <2>6. TypeOK'
    BY <1>0, <2>2, <2>3, <2>4, <2>5 DEF TypeOK, program, Activation, InHand
  <2> QED
    BY <2>3, <2>5, <2>6 DEF TypeInv
<1>4. CASE Get
  <2>1. handlers' \in Seq(Activation) /\ fcb \in Files
    BY <1>4, GetFacts
  <2>2. pos' \in Nat /\ drive' \in Drives
    BY <1>0, <1>4, <2>1 DEF TypeOK, Get
  <2>3. TypeOK'
    BY <1>0, <1>4, <2>1, <2>2 DEF TypeOK, Get, program, history, Activation, InHand
  <2> QED
    BY <1>4, <2>1, <2>3 DEF TypeInv, Get
<1>5. CASE EXIT
  <2>1. handlers' \in Seq(Activation)
        /\ \A i \in 1 .. Len(handlers') : i \in 1 .. Len(handlers)
             /\ i < Len(handlers) /\ handlers'[i] = handlers[i]
    BY <1>0, <1>5, PopFacts DEF EXIT, Handler
  <2>2. TypeOK'
    BY <1>0, <1>5, <2>1 DEF TypeOK, EXIT, program, history, Activation, InHand
  <2>3. fcb' \notin Files => \A i \in DOMAIN handlers' : handlers'[i].at \in {"EXECUTE", "EXIT"}
    <3>1. fcb' = fcb
      BY <1>5 DEF EXIT
    <3>2. fcb \notin Files => \A i \in DOMAIN handlers : handlers[i].at \in {"EXECUTE", "EXIT"}
      BY DEF TypeInv
    <3>3. \A i \in DOMAIN handlers' : i \in DOMAIN handlers /\ handlers'[i] = handlers[i]
      BY <1>0, <2>1
    <3> QED
      BY <3>1, <3>2, <3>3
  <2> QED
    BY <1>5, <2>2, <2>3 DEF TypeInv, EXIT
<1> QED
  BY <1>1, <1>2, <1>3, <1>4, <1>5 DEF Handle

LEMMA TypeStep == TypeInv /\ [Next]_vars => TypeInv'
<1> SUFFICES ASSUME TypeInv, [Next]_vars PROVE TypeInv'
  OBVIOUS
<1>1. CASE UNCHANGED vars
  BY <1>1 DEF TypeInv, TypeOK, vars
<1> QED
  BY <1>1, TypeProgram, TypeHandler DEF Next

(* Every step of the command (START, SPOOL_LOOP), of the handler (SPOOLER)  *)
(* and of the program keeps the types, for any files, queue and nesting.    *)
THEOREM SpoolerTypes == Spec => []TypeOK
<1>1. TypeInv => TypeOK
  BY DEF TypeInv
<1> QED
  BY <1>1, TypeInit, TypeStep, PTL DEF Spec

-----------------------------------------------------------------------------
(* DOS is not entered again.                                               *)

LEMMA InterruptedStep ==
  ASSUME TypeInv, TypeInv', Interrupted, [Next]_vars
  PROVE  Interrupted'
<1> USE DEF Interrupted
<1>0. TypeOK /\ handlers \in Seq(Activation)
  BY DEF TypeInv, TypeOK, Activation, InHand
<1>1. CASE Work \/ START
  <2>1. handlers = <<>> /\ handlers' = <<>>
    BY <1>1 DEF Work, START
  <2> QED
    BY <2>1
<1>2. CASE SPOOL_LOOP \/ SPOOL_DONE
  <2>1. at = "spool" /\ handlers' = handlers
    BY <1>2 DEF SPOOL_LOOP, SPOOL_DONE
  <2>2. handlers = <<>>
    BY <2>1
  <2> QED
    BY <2>1, <2>2
<1>3. CASE SPOOLER
  <2>1. /\ Len(handlers') = Len(handlers) + 1
        /\ \A i \in 1 .. Len(handlers) : handlers'[i] = handlers[i]
    BY <1>0, <1>3, PushFacts DEF SPOOLER
  <2>2. Here \in {"user", "rom"} /\ at' = at
    BY <1>3 DEF SPOOLER, Safe, program
  <2>3. at' \in {"user", "rom"}
    BY <2>2 DEF Here
  <2>4. ASSUME NEW i \in DOMAIN handlers', i < Len(handlers')
        PROVE  AreaOf(handlers'[i].at) = "rom"
    <3>1. i \in 1 .. Len(handlers) /\ Len(handlers) \in Nat
      <4>1. handlers' \in Seq(Activation)
        BY <1>0, <1>3, PushFacts DEF SPOOLER
      <4> QED
        BY <1>0, <2>1, <2>4, <4>1
    <3>2. handlers # <<>> /\ i \in DOMAIN handlers
      BY <1>0, <3>1
    <3>3. CASE i < Len(handlers)
      BY <2>1, <3>1, <3>2, <3>3
    <3>4. CASE i = Len(handlers)
      <4>1. Here = AreaOf(handlers[i].at)
        BY <3>2, <3>4 DEF Here, Last
      <4>2. handlers[i] \in Activation
        BY <1>0, <3>2
      <4>3. handlers[i].at \in Labels
        BY <4>2 DEF Activation
      <4>4. AreaOf(handlers[i].at) \in {"spooler", "dos", "rom"}
        BY <4>3 DEF AreaOf, Labels
      <4> QED
        BY <2>1, <2>2, <3>1, <4>1, <4>4
    <3> QED
      BY <3>1, <3>3, <3>4
  <2> QED
    BY <2>3, <2>4
<1>4. CASE EXECUTE \/ Open \/ PRT_LOOP \/ CallGet \/ SendByte
  <2>1. PICK old \in Labels, label \in Labels : Handler(old) /\ Goto(label)
    BY <1>4 DEF EXECUTE, Open, PRT_LOOP, CallGet, SendByte, Labels
  <2>2. at' = at
    BY <1>4 DEF EXECUTE, Open, PRT_LOOP, CallGet, SendByte, program
  <2>3. /\ handlers # <<>> /\ Len(handlers') = Len(handlers)
        /\ DOMAIN handlers' = DOMAIN handlers
        /\ \A i \in DOMAIN handlers :
              handlers'[i].at = IF i = Len(handlers) THEN label ELSE handlers[i].at
    BY <1>0, <2>1, GotoFacts DEF Handler
  <2> QED
    BY <1>0, <2>2, <2>3
<1>5. CASE Get
  <2>1. /\ handlers' \in Seq(Activation) /\ Len(handlers') = Len(handlers)
        /\ handlers # <<>>
        /\ \A i \in 1 .. Len(handlers) :
              handlers'[i].at = IF i = Len(handlers) THEN "return" ELSE handlers[i].at
    BY <1>5, GetFacts DEF Get, Handler
  <2>2. at' = at
    BY <1>5 DEF Get, program
  <2> QED
    BY <1>0, <2>1, <2>2
<1>6. CASE EXIT
  <2>1. /\ handlers' \in Seq(Activation) /\ handlers # <<>>
        /\ Len(handlers') = Len(handlers) - 1
        /\ \A i \in 1 .. Len(handlers') : i \in 1 .. Len(handlers)
              /\ i < Len(handlers) /\ handlers'[i] = handlers[i]
    BY <1>0, <1>6, PopFacts DEF EXIT, Handler
  <2>2. at' = at
    BY <1>6 DEF EXIT, program
  <2> QED
    BY <1>0, <2>1, <2>2
<1>7. CASE UNCHANGED vars
  BY <1>7 DEF vars
<1> QED
  BY <1>1, <1>2, <1>3, <1>4, <1>5, <1>6, <1>7 DEF Next, Handle

LEMMA InterruptedOnce ==
  ASSUME TypeInv, Interrupted
  PROVE  DosNotReentered
<1> DEFINE inDos == {i \in DOMAIN handlers : AreaOf(handlers[i].at) = "dos"}
<1>0. handlers \in Seq(Activation)
  BY DEF TypeInv, TypeOK, Activation, InHand
<1>1. CASE handlers = <<>>
  <2>1. inDos = {}
    BY <1>1
  <2> QED
    BY <2>1, FS_EmptySet DEF DosNotReentered
<1>2. CASE handlers # <<>>
  <2>1. at # "dos"
    BY <1>2 DEF Interrupted
  <2>2. inDos \subseteq {Len(handlers)}
    BY <1>0 DEF Interrupted
  <2>3. inDos = {} \/ inDos = {Len(handlers)}
    BY <2>2
  <2>4. Cardinality(inDos) \in {0, 1}
    BY <2>3, FS_EmptySet, FS_Singleton
  <2> QED
    BY <2>1, <2>4 DEF DosNotReentered
<1> QED
  BY <1>1, <1>2

(* However deeply the handler interrupts itself, and whatever it           *)
(* interrupts, at most one call of DOS is in progress: what the test of    *)
(* the old PC at the head of SPOOLER is for.                               *)
THEOREM DosEnteredOnce == Spec => []DosNotReentered
<1>1. Init => Interrupted
  BY DEF Init, Interrupted
<1>2. TypeInv /\ TypeInv' /\ Interrupted /\ [Next]_vars => Interrupted'
  BY InterruptedStep
<1>3. TypeInv /\ Interrupted => DosNotReentered
  BY InterruptedOnce
<1> QED
  BY <1>1, <1>2, <1>3, TypeInit, TypeStep, PTL DEF Spec

-----------------------------------------------------------------------------
(* The queue.                                                              *)

(* The first q names of s, the last of them, to be taken next, in front.   *)
Line(s, q) == [i \in 1 .. q |-> s[q + 1 - i]]
Queued == Line(slot, queue)

LEMMA LineIsSeq ==
  ASSUME NEW s, NEW q \in Nat, \A i \in 1 .. q : s[i] \in Files
  PROVE  Line(s, q) \in Seq(Files) /\ Len(Line(s, q)) = q
<1>1. \A i \in 1 .. q : q + 1 - i \in 1 .. q
  OBVIOUS
<1>2. \A i \in 1 .. q : s[q + 1 - i] \in Files
  BY <1>1
<1> QED
  BY <1>2 DEF Line

(* What is in the queue are names of files, before and after a step.       *)
LEMMA QueuedIsSeq ==
  ASSUME TypeInv, TypeInv'
  PROVE  /\ queue \in Nat /\ queue' \in Nat
         /\ Queued \in Seq(Files) /\ Len(Queued) = queue
         /\ Queued' \in Seq(Files) /\ Len(Queued') = queue'
<1>1. queue \in Nat /\ queue' \in Nat
  BY SpoolerAssumption DEF TypeInv, TypeOK
<1>2. \A i \in 1 .. queue : slot[i] \in Files
  BY DEF TypeInv
<1>3. \A i \in 1 .. queue' : slot'[i] \in Files
  BY DEF TypeInv
<1>4. Queued \in Seq(Files) /\ Len(Queued) = queue
  BY <1>1, <1>2, LineIsSeq DEF Queued
<1>5. Line(slot', queue') \in Seq(Files) /\ Len(Line(slot', queue')) = queue'
  BY <1>1, <1>3, LineIsSeq
<1> QED
  BY <1>1, <1>4, <1>5 DEF Queued

(* A name that is queued goes behind the others.                           *)
LEMMA QueuedLast ==
  ASSUME TypeInv, TypeInv', SPOOL_LOOP
  PROVE  Queued' = Append(Queued, Head(args))
<1>1. queue \in Nat /\ queue' = queue + 1 /\ queue' <= MaxQueue /\ MaxQueue \in Nat
  BY SpoolerAssumption DEF TypeInv, TypeOK, SPOOL_LOOP
<1>2. \A k \in 1 .. MaxQueue : slot'[k] = IF k = 1 THEN Head(args) ELSE slot[k - 1]
  BY DEF SPOOL_LOOP
<1>3. Queued' \in Seq(Files) /\ Len(Queued') = queue + 1
  BY <1>1, QueuedIsSeq
<1>4. Queued \in Seq(Files) /\ Len(Queued) = queue
  BY QueuedIsSeq
<1>5. \A i \in 1 .. queue : Queued'[i] = Queued[i]
  <2> TAKE i \in 1 .. queue
  <2>1. queue' + 1 - i \in 1 .. MaxQueue /\ queue' + 1 - i # 1
        /\ queue' + 1 - i - 1 = queue + 1 - i /\ i \in 1 .. queue'
    BY <1>1
  <2>2. slot'[queue' + 1 - i] = slot[queue + 1 - i]
    <3> DEFINE k == queue' + 1 - i
    <3>1. k \in 1 .. MaxQueue /\ k # 1 /\ k - 1 = queue + 1 - i
      BY <1>1, <2>1
    <3> HIDE DEF k
    <3>2. slot'[k] = slot[k - 1]
      BY <1>2, <3>1
    <3> QED
      BY <3>1, <3>2 DEF k
  <2> QED
    BY <2>1, <2>2 DEF Queued, Line
<1>6. Queued'[queue + 1] = Head(args)
  <2>1. queue + 1 \in 1 .. queue' /\ queue' + 1 - (queue + 1) = 1 /\ 1 \in 1 .. MaxQueue
    BY <1>1
  <2> QED
    BY <1>2, <2>1 DEF Queued, Line
<1> QED
  <2>1. Head(args) \in Files
    BY HeadTailProperties DEF TypeInv, TypeOK, SPOOL_LOOP
  <2> DEFINE t == Append(Queued, Head(args))
  <2>2. /\ t \in Seq(Files) /\ Len(t) = queue + 1
        /\ \A i \in 1 .. queue : t[i] = Queued[i]
        /\ t[queue + 1] = Head(args)
    BY <1>4, <2>1, AppendProperties
  <2>3. \A i \in 1 .. queue + 1 : Queued'[i] = t[i]
    BY <1>1, <1>5, <1>6, <2>2
  <2> HIDE DEF t
  <2>4. Queued' = t
    BY <1>1, <1>3, <2>2, <2>3
  <2> QED
    BY <2>4 DEF t

(* The name that EXECUTE takes is the first.                               *)
LEMMA QueuedFirst ==
  ASSUME TypeInv, TypeInv', queue > 0, queue' = queue - 1, slot' = slot
  PROVE  Queued = <<slot[queue]>> \o Queued'
<1>1. queue \in Nat /\ queue' \in Nat /\ slot[queue] \in Files
  BY SpoolerAssumption DEF TypeInv, TypeOK
<1>2. /\ Queued \in Seq(Files) /\ Len(Queued) = queue
      /\ Queued' \in Seq(Files) /\ Len(Queued') = queue - 1
  BY <1>1, QueuedIsSeq
<1> DEFINE t == <<slot[queue]>> \o Queued'
<1>3. /\ t \in Seq(Files) /\ Len(t) = queue
      /\ \A i \in 1 .. queue : t[i] = IF i <= 1 THEN slot[queue] ELSE Queued'[i - 1]
  <2>1. <<slot[queue]>> \in Seq(Files) /\ Len(<<slot[queue]>>) = 1
        /\ <<slot[queue]>>[1] = slot[queue]
    BY <1>1
  <2> QED
    BY <1>1, <1>2, <2>1, ConcatProperties
<1>4. \A i \in 1 .. queue : Queued[i] = t[i]
  <2> TAKE i \in 1 .. queue
  <2>1. Queued[i] = slot[queue + 1 - i]
    BY DEF Queued, Line
  <2>2. CASE i = 1
    BY <1>1, <1>3, <2>1, <2>2
  <2>3. CASE i # 1
    <3>1. i - 1 \in 1 .. queue' /\ queue' + 1 - (i - 1) = queue + 1 - i
      BY <1>1, <2>3
    <3>2. Queued'[i - 1] = slot[queue + 1 - i]
      BY <3>1 DEF Queued, Line
    <3> QED
      BY <1>1, <1>3, <2>1, <2>3, <3>2
  <2> QED
    BY <2>2, <2>3
<1> HIDE DEF t
<1>5. Queued = t
  BY <1>1, <1>2, <1>3, <1>4
<1> QED
  BY <1>5 DEF t

LEMMA OrderStep ==
  ASSUME TypeInv, TypeInv', FilesInOrder, [Next]_vars
  PROVE  FilesInOrder'
<1>1. spooled = opened \o Queued
  BY DEF FilesInOrder, Queued, Line
<1>2. /\ opened \in Seq(Files) /\ spooled \in Seq(Files) /\ opened' \in Seq(Files)
      /\ Queued \in Seq(Files) /\ Queued' \in Seq(Files)
  BY QueuedIsSeq DEF TypeInv, TypeOK
<1>3. CASE SPOOL_LOOP
  <2>1. Queued' = Append(Queued, Head(args)) /\ Head(args) \in Files
    BY <1>3, QueuedLast, HeadTailProperties DEF TypeInv, TypeOK, SPOOL_LOOP
  <2>2. /\ Append(Queued, Head(args)) = Queued \o <<Head(args)>>
        /\ Append(spooled, Head(args)) = spooled \o <<Head(args)>>
        /\ <<Head(args)>> \in Seq(Files)
    <3> DEFINE h == Head(args)
    <3>1. h \in Files
      BY <2>1
    <3> HIDE DEF h
    <3>2. Append(Queued, h) = Queued \o <<h>>
      BY <1>2, <3>1, AppendIsConcat
    <3>3. Append(spooled, h) = spooled \o <<h>>
      BY <1>2, <3>1, AppendIsConcat
    <3>4. <<h>> \in Seq(Files)
      BY <3>1
    <3> QED
      BY <3>2, <3>3, <3>4 DEF h
  <2>3. spooled' = Append(spooled, Head(args)) /\ opened' = opened
    BY <1>3 DEF SPOOL_LOOP
  <2>4. spooled' = opened \o (Queued \o <<Head(args)>>)
    <3>1. spooled' = (opened \o Queued) \o <<Head(args)>>
      BY <1>1, <2>2, <2>3
    <3>2. (opened \o Queued) \o <<Head(args)>> = opened \o (Queued \o <<Head(args)>>)
      <4> DEFINE w == <<Head(args)>>
      <4>1. w \in Seq(Files)
        BY <2>2
      <4> HIDE DEF w
      <4>2. (opened \o Queued) \o w = opened \o (Queued \o w)
        BY <1>2, <4>1, ConcatAssociative
      <4> QED
        BY <4>2 DEF w
    <3> QED
      BY <3>1, <3>2
  <2> QED
    BY <2>1, <2>2, <2>3, <2>4 DEF FilesInOrder, Queued, Line
<1>4. CASE /\ queue > 0 /\ queue' = queue - 1 /\ slot' = slot /\ spooled' = spooled
           /\ opened' = Append(opened, slot[queue])
  <2>1. slot[queue] \in Files
    BY <1>4, SpoolerAssumption DEF TypeInv, TypeOK
  <2>2. Queued = <<slot[queue]>> \o Queued' /\ <<slot[queue]>> \in Seq(Files)
    BY <1>4, <2>1, QueuedFirst
  <2>3. opened' = opened \o <<slot[queue]>>
    BY <1>2, <1>4, <2>1, AppendIsConcat
  <2>4. opened' \o Queued' = opened \o (<<slot[queue]>> \o Queued')
    BY <1>2, <2>2, <2>3, ConcatAssociative
  <2>5. spooled' = opened' \o Queued'
    BY <1>1, <1>4, <2>2, <2>4
  <2> QED
    BY <2>5 DEF FilesInOrder, Queued, Line
<1>5. CASE UNCHANGED <<slot, queue, spooled, opened>>
  BY <1>5 DEF FilesInOrder
<1>6. CASE EXECUTE
  BY <1>4, <1>5, <1>6 DEF EXECUTE
<1> QED
  BY <1>3, <1>5, <1>6
     DEF Next, Handle, Work, START, SPOOL_DONE, SPOOLER, Open, PRT_LOOP, CallGet,
         Get, SendByte, EXIT, history, vars

(* For any number of files, length of the queue and depth of nesting, files *)
(* are taken in the order in which they were queued, none twice, none lost. *)
THEOREM QueueKeepsOrder == Spec => []FilesInOrder
<1>1. Init => FilesInOrder
  <2> SUFFICES ASSUME Init PROVE FilesInOrder
    OBVIOUS
  <2>1. TypeInv /\ opened = <<>> /\ spooled = <<>> /\ queue = 0
    BY TypeInit DEF Init
  <2>2. Queued \in Seq(Files) /\ Len(Queued) = 0
    BY <2>1, LineIsSeq DEF Queued
  <2>3. Queued = <<>>
    BY <2>2
  <2>4. opened \o Queued = <<>>
    BY <2>1, <2>3
  <2> QED
    BY <2>1, <2>4 DEF FilesInOrder, Queued, Line
<1>2. TypeInv /\ TypeInv' /\ FilesInOrder /\ [Next]_vars => FilesInOrder'
  BY OrderStep
<1> QED
  BY <1>1, <1>2, TypeInit, TypeStep, PTL DEF Spec

-----------------------------------------------------------------------------
(* What is printed, and what the interrupted program notices.              *)

Busy == {"PRT_LOOP", "call", "get", "return"}

(* What has been printed, and the byte in the hand of a handler, were read *)
(* from a file.                                                            *)
PrintTypes == printed \in Seq(InHand)

(* A byte of a file that was taken is printed, or in the hand of a         *)
(* handler, or still to be read: one of the three for each time the file   *)
(* was taken.                                                              *)
Times(b)    == {i \in DOMAIN printed : printed[i] = b}
Takes(f)    == {i \in DOMAIN opened : opened[i] = f}
Holding(b)  == {i \in DOMAIN handlers :
                  handlers[i].at = "return" /\ handlers[i].byte = b}
Opening     == \E i \in DOMAIN handlers : handlers[i].at = "open"
StillDue(b) == fcb = b[1] /\ (pos < b[2] \/ Opening)
Owed(b)     == IF StillDue(b) THEN 1 ELSE 0
Bytes       == (Files \X Nat) \ {FF}

Counted ==
  \A b \in Bytes :
    Cardinality(Times(b)) + Cardinality(Holding(b)) + Owed(b)
      <= Cardinality(Takes(b[1]))

(* As long as no handler was interrupted there is one at most, and the     *)
(* drive it found is the program's.                                        *)
Alone ==
  ~nested =>
    /\ Len(handlers) <= 1
    /\ handlers = <<>> => drive = fgDrive
    /\ handlers # <<>> => curDn = fgDrive

(* Then what is printed is what is due, up to the place that was read in   *)
(* the file that was taken last; a byte in hand is the last one read.      *)
Newest == Len(opened)
InTurn ==
  ~nested =>
    /\ printing => /\ Newest > 0 /\ fcb = opened[Newest] /\ fcb \notin Missing
                   /\ pos \in 0 .. Size[fcb]
    /\ \A label \in Busy : Handler(label) => printing
    /\ printing /\ ~Handler("return") => Len(printed) = Cardinality(Upto(Newest, pos))
    /\ Handler("return") =>
         \/ /\ Last(handlers).byte = FF /\ pos = Size[fcb]
            /\ Len(printed) = Cardinality(Upto(Newest, pos))
         \/ /\ Last(handlers).byte = <<fcb, pos>> /\ pos > 0
            /\ Len(printed) = Cardinality(Upto(Newest, pos - 1))
    /\ Handler("open") =>
         /\ ~printing /\ Newest > 0 /\ fcb = opened[Newest]
         /\ Len(printed) = Cardinality(Upto(Newest, 0))
    /\ ~printing /\ ~Handler("open") => Len(printed) = Cardinality(Due)

\* Byte k that was printed is the k-th one due.
AsDue ==
  ~nested => \A k \in DOMAIN printed : \E d \in Due :
    k = Cardinality(Upto(d[1], d[2])) /\ printed[k] = ByteOf(d)

PrintInv ==
  /\ TypeInv /\ Interrupted /\ PrintTypes
  /\ Counted /\ Alone /\ InTurn /\ AsDue

-----------------------------------------------------------------------------
(* The stack of activations.                                               *)

LEMMA SeqFacts ==
  /\ \A S : \A s \in Seq(S) : /\ Len(s) \in Nat /\ DOMAIN s = 1 .. Len(s)
                              /\ \A i \in DOMAIN s : s[i] \in S
  /\ \A S : \A s \in Seq(S), e \in S :
       /\ Append(s, e) \in Seq(S) /\ Len(Append(s, e)) = Len(s) + 1
       /\ DOMAIN Append(s, e) = 1 .. Len(s) + 1
       /\ \A i \in DOMAIN s : Append(s, e)[i] = s[i]
       /\ Append(s, e)[Len(s) + 1] = e
<1>1. ASSUME NEW S, NEW s \in Seq(S), NEW e \in S
      PROVE  /\ Append(s, e) \in Seq(S) /\ Len(Append(s, e)) = Len(s) + 1
             /\ DOMAIN Append(s, e) = 1 .. Len(s) + 1
             /\ \A i \in DOMAIN s : Append(s, e)[i] = s[i]
             /\ Append(s, e)[Len(s) + 1] = e
  OBVIOUS
<1> QED
  BY <1>1

\* The last activation, when there is one.
LEMMA TopFacts ==
  ASSUME TypeInv
  PROVE  /\ handlers \in Seq(Activation) /\ Len(handlers) \in Nat
         /\ DOMAIN handlers = 1 .. Len(handlers)
         /\ \A label : Handler(label) =>
              /\ Len(handlers) \in DOMAIN handlers /\ Len(handlers) > 0
              /\ handlers[Len(handlers)].at = label
         /\ handlers = <<>> => \A label : ~Handler(label)
<1>1. handlers \in Seq(Activation)
  BY DEF TypeInv, TypeOK, Activation, InHand
<1>2. handlers # <<>> => Len(handlers) \in DOMAIN handlers /\ Len(handlers) > 0
  BY <1>1
<1> QED
  BY <1>1, <1>2 DEF Handler, Last

\* A step of the last activation from one label to another.
LEMMA MoveFacts ==
  ASSUME TypeInv, NEW old \in Labels, NEW label \in Labels, Handler(old), Goto(label)
  PROVE  /\ DOMAIN handlers' = DOMAIN handlers /\ Len(handlers') = Len(handlers)
         /\ Len(handlers) \in DOMAIN handlers /\ handlers' # <<>>
         /\ handlers[Len(handlers)].at = old
         /\ handlers'[Len(handlers)].at = label
         /\ \A i \in DOMAIN handlers :
              /\ handlers'[i].byte = handlers[i].byte
              /\ i # Len(handlers) => handlers'[i] = handlers[i]
         /\ \A l : Handler(l)' <=> l = label
<1>1. /\ handlers \in Seq(Activation) /\ Len(handlers) \in DOMAIN handlers
      /\ handlers[Len(handlers)].at = old
  BY TopFacts
<1>2. handlers' = [handlers EXCEPT ![Len(handlers)] = [handlers[Len(handlers)] EXCEPT !.at = label]]
  BY DEF Goto
<1>3. \A i \in DOMAIN handlers : handlers[i] \in Activation
  BY <1>1
<1>4. [handlers[Len(handlers)] EXCEPT !.at = label] \in Activation
  BY <1>1, <1>3 DEF Activation
<1>5. handlers' \in Seq(Activation) /\ Len(handlers') = Len(handlers)
  BY <1>1, <1>2, <1>4
<1>6. DOMAIN handlers' = DOMAIN handlers
  BY <1>2
<1>7. \A i \in DOMAIN handlers : i # Len(handlers) => handlers'[i] = handlers[i]
  BY <1>2
<1>8. /\ handlers'[Len(handlers)].at = label
      /\ handlers'[Len(handlers)].byte = handlers[Len(handlers)].byte
  BY <1>1, <1>2, <1>3 DEF Activation
<1>9. handlers' # <<>>
  BY <1>1, <1>5
<1>10. \A l : Handler(l)' <=> l = label
  BY <1>5, <1>8, <1>9 DEF Handler, Last
<1> QED
  BY <1>1, <1>5, <1>6, <1>7, <1>8, <1>9, <1>10

\* DOS reads the next byte, if there is one.
LEMMA ReadFacts ==
  ASSUME TypeInv, Get
  PROVE  /\ DOMAIN handlers' = DOMAIN handlers /\ Len(handlers') = Len(handlers)
         /\ Len(handlers) \in DOMAIN handlers /\ handlers' # <<>>
         /\ handlers[Len(handlers)].at = "get"
         /\ handlers'[Len(handlers)].at = "return"
         /\ handlers'[Len(handlers)].byte =
              (IF pos < Size[fcb] THEN <<fcb, pos + 1>> ELSE FF)
         /\ \A i \in DOMAIN handlers :
              i # Len(handlers) => handlers'[i] = handlers[i]
         /\ \A l : Handler(l)' <=> l = "return"
         /\ Last(handlers') = handlers'[Len(handlers)]
<1> DEFINE b == IF pos < Size[fcb] THEN <<fcb, pos + 1>> ELSE FF
<1>1. /\ handlers \in Seq(Activation) /\ Len(handlers) \in DOMAIN handlers
      /\ handlers[Len(handlers)].at = "get"
  BY TopFacts DEF Get
<1>2. handlers' = [handlers EXCEPT ![Len(handlers)] = [at |-> "return", byte |-> b]]
  BY DEF Get
<1>3. Len(handlers') = Len(handlers) /\ handlers' # <<>>
  BY GetFacts
<1> HIDE DEF b
<1>4. DOMAIN handlers' = DOMAIN handlers
  BY <1>2
<1>5. handlers'[Len(handlers)] = [at |-> "return", byte |-> b]
  BY <1>1, <1>2
<1>6. \A i \in DOMAIN handlers : i # Len(handlers) => handlers'[i] = handlers[i]
  BY <1>2
<1>7. Last(handlers') = handlers'[Len(handlers)]
  BY <1>3 DEF Last
<1>8. \A l : Handler(l)' <=> l = "return"
  BY <1>3, <1>5, <1>7 DEF Handler
<1> QED
  BY <1>1, <1>3, <1>4, <1>5, <1>6, <1>7, <1>8 DEF b

-----------------------------------------------------------------------------
(* No byte is printed twice.                                               *)

LEMMA PrintTypesStep ==
  ASSUME TypeInv, PrintTypes, [Next]_vars
  PROVE  PrintTypes'
<1>1. CASE SendByte
  <2>1. Last(handlers).byte \in InHand
    <3>1. /\ handlers \in Seq(Activation) /\ Len(handlers) \in DOMAIN handlers
      BY <1>1, TopFacts DEF SendByte
    <3>2. handlers[Len(handlers)] \in Activation
      BY <3>1
    <3> QED BY <3>2 DEF Last, Activation
  <2>2. printed' = Append(printed, Last(handlers).byte)
    BY <1>1 DEF SendByte
  <2> QED BY <2>1, <2>2, SeqFacts DEF PrintTypes
<1>2. CASE ~SendByte
  <2>1. printed' = printed
    BY <1>2 DEF Next, Handle, vars, program, history, Work, START, SPOOL_LOOP, SPOOL_DONE,
       SPOOLER, EXECUTE, Open, PRT_LOOP, CallGet, Get, EXIT
  <2> QED BY <2>1 DEF PrintTypes
<1> QED
  BY <1>1, <1>2

\* A set of places of a sequence is finite.
LEMMA PlacesFacts ==
  \A S : \A s \in Seq(S) : \A T \in SUBSET DOMAIN s :
    IsFiniteSet(T) /\ Cardinality(T) \in Nat
<1> SUFFICES ASSUME NEW S, NEW s \in Seq(S), NEW T \in SUBSET DOMAIN s
             PROVE  IsFiniteSet(T) /\ Cardinality(T) \in Nat
  OBVIOUS
<1>1. DOMAIN s = 1 .. Len(s) /\ Len(s) \in Int
  BY SeqFacts
<1>2. IsFiniteSet(DOMAIN s)
  BY <1>1, FS_Interval
<1>3. IsFiniteSet(T)
  BY <1>2, FS_Subset
<1> QED
  BY <1>3, FS_CardinalityType

\* The sets that are counted are finite.
LEMMA CountFacts ==
  ASSUME TypeInv, PrintTypes, NEW b
  PROVE  /\ IsFiniteSet(Times(b)) /\ Cardinality(Times(b)) \in Nat
         /\ IsFiniteSet(Holding(b)) /\ Cardinality(Holding(b)) \in Nat
         /\ \A f : IsFiniteSet(Takes(f)) /\ Cardinality(Takes(f)) \in Nat
<1>1. printed \in Seq(InHand) /\ opened \in Seq(Files) /\ handlers \in Seq(Activation)
  BY TopFacts DEF PrintTypes, TypeInv, TypeOK
<1>2. /\ Times(b) \in SUBSET DOMAIN printed /\ Holding(b) \in SUBSET DOMAIN handlers
      /\ \A f : Takes(f) \in SUBSET DOMAIN opened
  BY DEF Times, Holding, Takes
<1> QED
  BY <1>1, <1>2, PlacesFacts

\* In the last activation's DOS call there is no other one.
LEMMA OpeningFacts ==
  ASSUME TypeInv, Interrupted
  PROVE  Opening <=> Handler("open")
<1>1. /\ DOMAIN handlers = 1 .. Len(handlers) /\ Len(handlers) \in Nat
      /\ Handler("open") => Len(handlers) \in DOMAIN handlers /\ handlers[Len(handlers)].at = "open"
  BY TopFacts
<1>2. ASSUME NEW i \in DOMAIN handlers, handlers[i].at = "open" PROVE Handler("open")
  <2>1. ~(i < Len(handlers))
    BY <1>2 DEF Interrupted, AreaOf
  <2>2. i = Len(handlers) /\ handlers # <<>>
    BY <1>1, <2>1
  <2> QED BY <1>2, <2>2 DEF Handler, Last
<1> QED
  BY <1>1, <1>2 DEF Opening

LEMMA CountedStep ==
  ASSUME TypeInv, TypeInv', Interrupted, Interrupted', PrintTypes, PrintTypes',
         Counted, [Next]_vars
  PROVE  Counted'
<1> SUFFICES ASSUME NEW b \in Bytes
             PROVE  Cardinality(Times(b)') + Cardinality(Holding(b)') + Owed(b)'
                      <= Cardinality(Takes(b[1])')
  BY DEF Counted
<1> DEFINE c == Cardinality(Times(b))     cc == Cardinality(Times(b)')
           h == Cardinality(Holding(b))   hh == Cardinality(Holding(b)')
           t == Cardinality(Takes(b[1]))  tt == Cardinality(Takes(b[1])')
<1> SUFFICES cc + hh + Owed(b)' <= tt
  OBVIOUS
<1>1. {c, cc, h, hh, t, tt} \subseteq Nat
  <2>1. c \in Nat /\ h \in Nat /\ t \in Nat
    BY CountFacts
  <2>2. printed' \in Seq(InHand) /\ opened' \in Seq(Files) /\ handlers' \in Seq(Activation)
    BY DEF PrintTypes, TypeInv, TypeOK, Activation, InHand
  <2>3. /\ Times(b)' \in SUBSET DOMAIN printed' /\ Holding(b)' \in SUBSET DOMAIN handlers'
        /\ Takes(b[1])' \in SUBSET DOMAIN opened'
    BY DEF Times, Holding, Takes
  <2>4. cc \in Nat /\ hh \in Nat /\ tt \in Nat
    BY <2>2, <2>3, PlacesFacts
  <2> QED BY <2>1, <2>4
<1>2. c + h + Owed(b) <= t
  BY DEF Counted
<1>3. Owed(b) \in {0, 1} /\ Owed(b)' \in {0, 1}
  BY DEF Owed
<1>4. /\ opened' = opened => tt = t
      /\ printed' = printed => cc = c
  BY DEF Takes, Times
<1> HIDE DEF c, cc, h, hh, t, tt
\* Only the last activation can be in DOS.
<1>0. Opening' => handlers'[Len(handlers')].at = "open"
  <2>1. /\ handlers' \in Seq(Activation) /\ Len(handlers') \in Nat
        /\ DOMAIN handlers' = 1 .. Len(handlers')
    BY SeqFacts DEF TypeInv, TypeOK, Activation, InHand
  <2>2. \A i \in DOMAIN handlers' : i < Len(handlers') => handlers'[i].at # "open"
    BY DEF Interrupted, AreaOf
  <2> QED BY <2>1, <2>2 DEF Opening
\* What is printed and taken is as before, and no byte is read.
<1>5. ASSUME UNCHANGED <<printed, opened>>, hh = h, StillDue(b)' => StillDue(b)
      PROVE  cc + hh + Owed(b)' <= tt
  <2>1. Owed(b)' <= Owed(b)
    BY <1>5 DEF Owed
  <2>2. cc = c /\ tt = t
    BY <1>4, <1>5
  <2> QED BY <1>1, <1>2, <1>3, <1>5, <2>1, <2>2
<1>6. CASE Work \/ START \/ SPOOL_LOOP \/ SPOOL_DONE \/ UNCHANGED vars
  <2>1. UNCHANGED <<printed, opened, handlers, fcb, pos>>
    BY <1>6 DEF Work, START, SPOOL_LOOP, SPOOL_DONE, history, vars
  <2>2. hh = h
    BY <2>1 DEF h, hh, Holding
  <2>3. StillDue(b)' => StillDue(b)
    BY <2>1 DEF StillDue, Opening
  <2> QED BY <1>5, <2>1, <2>2, <2>3
<1>7. CASE SPOOLER
  <2>1. /\ Len(handlers') = Len(handlers) + 1
        /\ handlers'[Len(handlers')].at = "EXECUTE"
        /\ \A i \in 1 .. Len(handlers) : handlers'[i] = handlers[i]
        /\ DOMAIN handlers = 1 .. Len(handlers)
        /\ DOMAIN handlers' = 1 .. Len(handlers')
        /\ Len(handlers) \in Nat
    <3>1. TypeOK
      BY DEF TypeInv
    <3> QED BY <1>7, <3>1, TopFacts, PushFacts, SeqFacts DEF SPOOLER
  <2>2. \A i \in DOMAIN handlers' : i \in DOMAIN handlers \/ handlers'[i].at = "EXECUTE"
    BY <2>1
  <2>3. \A i \in DOMAIN handlers : i \in DOMAIN handlers' /\ handlers'[i] = handlers[i]
    BY <2>1
  <2>4. Holding(b)' = Holding(b)
    BY <2>2, <2>3 DEF Holding
  <2>5. Opening' => Opening
    BY <2>2, <2>3 DEF Opening
  <2>6. UNCHANGED <<printed, opened, fcb, pos>>
    BY <1>7 DEF SPOOLER, history
  <2>7. StillDue(b)' => StillDue(b)
    BY <2>5, <2>6 DEF StillDue
  <2>8. hh = h
    BY <2>4 DEF h, hh
  <2> QED BY <1>5, <2>6, <2>7, <2>8
<1>8. CASE EXECUTE
  <2>1. PICK label \in {"PRT_LOOP", "EXIT", "open"} :
          /\ Goto(label)
          /\ \/ label # "open" /\ UNCHANGED <<fcb, opened>>
             \/ /\ label = "open" /\ queue > 0
                /\ fcb' = slot[queue] /\ opened' = Append(opened, slot[queue])
    BY <1>8 DEF EXECUTE
  <2>2. /\ DOMAIN handlers' = DOMAIN handlers /\ Len(handlers) \in DOMAIN handlers
        /\ handlers[Len(handlers)].at = "EXECUTE" /\ handlers'[Len(handlers)].at = label
        /\ \A i \in DOMAIN handlers : i # Len(handlers) => handlers'[i] = handlers[i]
        /\ Len(handlers') = Len(handlers)
    BY <1>8, <2>1, MoveFacts DEF EXECUTE, Labels
  <2>3. Holding(b)' = Holding(b)
    BY <2>1, <2>2 DEF Holding
  <2>4. hh = h
    BY <2>3 DEF h, hh
  <2>5. UNCHANGED <<printed, pos>>
    BY <1>8 DEF EXECUTE
  <2>6. CASE label # "open" /\ UNCHANGED <<fcb, opened>>
    <3>1. Opening' => Opening
      BY <2>2, <2>6 DEF Opening
    <3>2. StillDue(b)' => StillDue(b)
      BY <2>5, <2>6, <3>1 DEF StillDue
    <3> QED BY <1>5, <2>4, <2>5, <2>6, <3>2
  <2>7. CASE /\ label = "open" /\ queue > 0
             /\ fcb' = slot[queue] /\ opened' = Append(opened, slot[queue])
    <3>1. opened \in Seq(Files) /\ slot[queue] \in Files
      BY <2>7 DEF TypeInv, TypeOK
    <3>2. /\ DOMAIN opened = 1 .. Len(opened) /\ Len(opened) \in Nat
          /\ DOMAIN opened' = 1 .. Len(opened) + 1
          /\ \A i \in DOMAIN opened : opened'[i] = opened[i]
          /\ opened'[Len(opened) + 1] = slot[queue]
      BY <2>7, <3>1, SeqFacts
    <3>3. cc = c
      BY <1>4, <2>5
    <3>4. CASE slot[queue] = b[1]
      <4>1. Takes(b[1])' = Takes(b[1]) \cup {Len(opened) + 1}
        BY <3>2, <3>4 DEF Takes
      <4>2. Len(opened) + 1 \notin Takes(b[1])
        BY <3>2 DEF Takes
      <4>3. tt = t + 1
        BY <4>1, <4>2, CountFacts, FS_AddElement DEF t, tt
      <4> QED BY <1>1, <1>2, <1>3, <2>4, <3>3, <4>3
    <3>5. CASE slot[queue] # b[1]
      <4>1. Takes(b[1])' = Takes(b[1])
        BY <3>2, <3>5 DEF Takes
      <4>2. tt = t
        BY <4>1 DEF t, tt
      <4>3. Owed(b)' = 0
        BY <2>7, <3>5 DEF Owed, StillDue
      <4> QED BY <1>1, <1>2, <1>3, <2>4, <3>3, <4>2, <4>3
    <3> QED BY <3>4, <3>5
  <2> QED BY <2>1, <2>6, <2>7
<1>9. CASE Open \/ PRT_LOOP \/ CallGet
  <2>1. PICK old \in {"open", "PRT_LOOP", "call"}, label \in {"EXIT", "call", "get"} :
          Handler(old) /\ Goto(label)
    BY <1>9 DEF Open, PRT_LOOP, CallGet
  <2>2. /\ DOMAIN handlers' = DOMAIN handlers /\ Len(handlers) \in DOMAIN handlers
        /\ handlers[Len(handlers)].at = old /\ handlers'[Len(handlers)].at = label
        /\ \A i \in DOMAIN handlers : i # Len(handlers) => handlers'[i] = handlers[i]
        /\ Len(handlers') = Len(handlers)
    BY <2>1, MoveFacts DEF Labels
  <2>3. Holding(b)' = Holding(b)
    BY <2>1, <2>2 DEF Holding
  <2>4. hh = h
    BY <2>3 DEF h, hh
  <2>5. UNCHANGED <<printed, opened, fcb>>
    BY <1>9 DEF Open, PRT_LOOP, CallGet, history
  <2>6. ~Opening'
    BY <1>0, <2>1, <2>2
  <2>7. Open \/ pos' = pos
    BY <1>9 DEF PRT_LOOP, CallGet
  <2>8. Open => Opening
    BY OpeningFacts DEF Open
  <2>9. StillDue(b)' => StillDue(b)
    BY <2>5, <2>6, <2>7, <2>8 DEF StillDue
  <2> QED BY <1>5, <2>4, <2>5, <2>9
<1>10. CASE Get
  <2>1. /\ DOMAIN handlers' = DOMAIN handlers /\ Len(handlers) \in DOMAIN handlers
        /\ handlers[Len(handlers)].at = "get" /\ handlers'[Len(handlers)].at = "return"
        /\ handlers'[Len(handlers)].byte = (IF pos < Size[fcb] THEN <<fcb, pos + 1>> ELSE FF)
        /\ \A i \in DOMAIN handlers : i # Len(handlers) => handlers'[i] = handlers[i]
        /\ Len(handlers') = Len(handlers)
    BY <1>10, ReadFacts
  <2>2. /\ UNCHANGED <<printed, opened, fcb>>
        /\ pos' = IF pos < Size[fcb] THEN pos + 1 ELSE pos
    BY <1>10 DEF Get, history
  <2>3. ~Opening'
    BY <1>0, <2>1
  <2>4. pos \in Nat /\ b # FF /\ b \in Files \X Nat
    BY DEF TypeInv, TypeOK, Bytes
  <2>5. CASE pos < Size[fcb] /\ b = <<fcb, pos + 1>>
    <3>1. Holding(b)' = Holding(b) \cup {Len(handlers)} /\ Len(handlers) \notin Holding(b)
      BY <2>1, <2>5 DEF Holding
    <3>2. hh = h + 1
      BY <3>1, CountFacts, FS_AddElement DEF h, hh
    <3>3. fcb = b[1] /\ b[2] = pos + 1 /\ pos' = pos + 1 /\ pos < b[2]
      BY <2>2, <2>4, <2>5
    <3>4. Owed(b) = 1
      BY <3>3 DEF Owed, StillDue
    <3>5. Owed(b)' = 0
      BY <2>2, <2>3, <2>4, <3>3 DEF Owed, StillDue
    <3>6. cc = c /\ tt = t
      BY <1>4, <2>2
    <3> QED BY <1>1, <1>2, <3>2, <3>4, <3>5, <3>6
  <2>6. CASE ~(pos < Size[fcb] /\ b = <<fcb, pos + 1>>)
    <3>1. handlers'[Len(handlers)].byte # b
      BY <2>1, <2>4, <2>6
    <3>2. Holding(b)' = Holding(b)
      BY <2>1, <3>1 DEF Holding
    <3>3. hh = h
      BY <3>2 DEF h, hh
    <3>4. b[2] \in Nat /\ (pos' < b[2] => pos < b[2])
      BY <2>2, <2>4
    <3>5. StillDue(b)' => StillDue(b)
      BY <2>2, <2>3, <3>4 DEF StillDue
    <3> QED BY <1>5, <2>2, <3>3, <3>5
  <2> QED BY <2>5, <2>6
<1>11. CASE SendByte
  <2>1. PICK label \in {"EXIT", "PRT_LOOP"} : Goto(label) /\ Handler("return")
    BY <1>11 DEF SendByte
  <2>2. /\ DOMAIN handlers' = DOMAIN handlers /\ Len(handlers) \in DOMAIN handlers
        /\ handlers[Len(handlers)].at = "return" /\ handlers'[Len(handlers)].at = label
        /\ \A i \in DOMAIN handlers : i # Len(handlers) => handlers'[i] = handlers[i]
        /\ Len(handlers') = Len(handlers)
    BY <2>1, MoveFacts DEF Labels
  <2>3. printed' = Append(printed, handlers[Len(handlers)].byte) /\ UNCHANGED <<opened, fcb, pos>>
    BY <1>11 DEF SendByte, Last
  <2>4. handlers[Len(handlers)].byte \in InHand
    <3>1. handlers[Len(handlers)] \in Activation
      BY <2>2, TopFacts
    <3> QED BY <3>1 DEF Activation
  <2>5. /\ DOMAIN printed = 1 .. Len(printed) /\ Len(printed) \in Nat
        /\ DOMAIN printed' = 1 .. Len(printed) + 1
        /\ \A i \in DOMAIN printed : printed'[i] = printed[i]
        /\ printed'[Len(printed) + 1] = handlers[Len(handlers)].byte
    BY <2>3, <2>4, SeqFacts DEF PrintTypes
  <2>6. ~Opening' /\ (StillDue(b)' => StillDue(b))
    <3>1. ~Opening'
      BY <1>0, <2>1, <2>2
    <3> QED BY <2>3, <3>1 DEF StillDue
  <2>7. CASE handlers[Len(handlers)].byte = b
    <3>1. Times(b)' = Times(b) \cup {Len(printed) + 1} /\ Len(printed) + 1 \notin Times(b)
      BY <2>5, <2>7 DEF Times
    <3>2. cc = c + 1
      BY <3>1, CountFacts, FS_AddElement DEF c, cc
    <3>3. Holding(b)' = Holding(b) \ {Len(handlers)} /\ Len(handlers) \in Holding(b)
      BY <2>1, <2>2, <2>7 DEF Holding
    <3>4. hh = h - 1
      BY <3>3, CountFacts, FS_RemoveElement DEF h, hh
    <3>5. Owed(b)' <= Owed(b)
      BY <2>6 DEF Owed
    <3>6. tt = t
      BY <1>4, <2>3
    <3> QED BY <1>1, <1>2, <1>3, <3>2, <3>4, <3>5, <3>6
  <2>8. CASE handlers[Len(handlers)].byte # b
    <3>1. Times(b)' = Times(b)
      BY <2>5, <2>8 DEF Times
    <3>2. Holding(b)' = Holding(b)
      BY <2>1, <2>2, <2>8 DEF Holding
    <3>3. cc = c /\ hh = h
      BY <3>1, <3>2 DEF c, cc, h, hh
    <3>4. Owed(b)' <= Owed(b)
      BY <2>6 DEF Owed
    <3>5. tt = t
      BY <1>4, <2>3
    <3> QED BY <1>1, <1>2, <1>3, <3>3, <3>4, <3>5
  <2> QED BY <2>7, <2>8
<1>12. CASE EXIT
  <2>1. /\ handlers[Len(handlers)].at = "EXIT" /\ Len(handlers) \in Nat
        /\ DOMAIN handlers = 1 .. Len(handlers)
        /\ Len(handlers') = Len(handlers) - 1
        /\ DOMAIN handlers' = 1 .. Len(handlers')
        /\ \A i \in DOMAIN handlers' : i \in DOMAIN handlers /\ handlers'[i] = handlers[i]
    <3>1. TypeOK
      BY DEF TypeInv
    <3>2. handlers # <<>> /\ handlers' = Front(handlers)
      BY <1>12 DEF EXIT, Handler
    <3>3. handlers' \in Seq(Activation)
      BY <3>1, <3>2, PopFacts
    <3> QED BY <1>12, <3>1, <3>2, <3>3, TopFacts, PopFacts, SeqFacts DEF EXIT
  <2>2. \A i \in DOMAIN handlers : i \in DOMAIN handlers' \/ handlers[i].at = "EXIT"
    BY <2>1
  <2>3. Holding(b)' = Holding(b)
    BY <2>1, <2>2 DEF Holding
  <2>4. hh = h
    BY <2>3 DEF h, hh
  <2>5. UNCHANGED <<printed, opened, fcb, pos>>
    BY <1>12 DEF EXIT, history
  <2>6. Opening' => Opening
    BY <2>1 DEF Opening
  <2>7. StillDue(b)' => StillDue(b)
    BY <2>5, <2>6 DEF StillDue
  <2> QED BY <1>5, <2>4, <2>5, <2>7
<1> QED
  BY <1>6, <1>7, <1>8, <1>9, <1>10, <1>11, <1>12 DEF Next, Handle

-----------------------------------------------------------------------------
(* What is due.                                                            *)

LEMMA DueFacts ==
  ASSUME TypeInv
  PROVE  /\ \A d \in Due : /\ d = <<d[1], d[2]>> /\ d[1] \in 1 .. Newest
                           /\ opened[d[1]] \in Files \ Missing
                           /\ d[2] \in 1 .. Size[opened[d[1]]] + 1
         /\ \A n \in 1 .. Newest : opened[n] \notin Missing =>
              \A i \in 1 .. Size[opened[n]] + 1 : <<n, i>> \in Due
         /\ IsFiniteSet(Due)
         /\ Newest \in Nat /\ \A n \in 1 .. Newest : opened[n] \in Files
<1> USE DEF Newest
<1>1. opened \in Seq(Files) /\ DOMAIN opened = 1 .. Newest /\ Newest \in Nat
  BY SeqFacts DEF TypeInv, TypeOK
<1>2. \A n \in 1 .. Newest : opened[n] \in Files
  BY <1>1, SeqFacts
<1> DEFINE there == {m \in DOMAIN opened : opened[m] \notin Missing}
           of(n) == {n} \X (1 .. Size[opened[n]] + 1)
           all == {of(n) : n \in there}
<1>3. Due = UNION all
  BY DEF Due
<1>4. IsFiniteSet(Due)
  <2>1. IsFiniteSet(there)
    <3>1. there \in SUBSET (1 .. Newest) /\ IsFiniteSet(1 .. Newest)
      BY <1>1, FS_Interval
    <3> QED BY <3>1, FS_Subset
  <2>2. IsFiniteSet(all)
    <3>1. [n \in there |-> of(n)] \in Surjection(there, all)
      BY DEF Surjection
    <3> QED BY <2>1, <3>1, FS_Surjection
  <2>3. \A t \in all : IsFiniteSet(t)
    <3> SUFFICES ASSUME NEW n \in there PROVE IsFiniteSet(of(n))
      OBVIOUS
    <3>1. Size[opened[n]] + 1 \in Int
      BY <1>1, <1>2, SpoolerAssumption
    <3>2. IsFiniteSet({n}) /\ IsFiniteSet(1 .. Size[opened[n]] + 1)
      <4>1. \A z \in Int : IsFiniteSet(1 .. z)
        BY FS_Interval
      <4>2. IsFiniteSet({n})
        BY FS_Singleton, Zenon
      <4> QED BY <3>1, <4>1, <4>2, Zenon
    <3> QED BY <3>2, FS_Product
  <2> HIDE DEF all
  <2> QED BY <1>3, <2>2, <2>3, FS_UNION
<1>5. \A d \in Due : /\ d = <<d[1], d[2]>> /\ d[1] \in 1 .. Newest
                     /\ opened[d[1]] \in Files \ Missing
                     /\ d[2] \in 1 .. Size[opened[d[1]]] + 1
  <2> SUFFICES ASSUME NEW n \in there, NEW d \in of(n)
               PROVE  /\ d = <<d[1], d[2]>> /\ d[1] \in 1 .. Newest
                      /\ opened[d[1]] \in Files \ Missing
                      /\ d[2] \in 1 .. Size[opened[d[1]]] + 1
    BY <1>3
  <2>1. d = <<d[1], d[2]>> /\ d[1] = n /\ d[2] \in 1 .. Size[opened[n]] + 1
    OBVIOUS
  <2>2. n \in 1 .. Newest /\ opened[n] \in Files \ Missing
    BY <1>1, <1>2
  <2> QED BY <2>1, <2>2
<1>6. \A n \in 1 .. Newest : opened[n] \notin Missing =>
        \A i \in 1 .. Size[opened[n]] + 1 : <<n, i>> \in Due
  <2> SUFFICES ASSUME NEW n \in 1 .. Newest, opened[n] \notin Missing,
                      NEW i \in 1 .. Size[opened[n]] + 1
               PROVE  <<n, i>> \in Due
    OBVIOUS
  <2>1. n \in there /\ <<n, i>> \in of(n)
    BY <1>1
  <2> QED BY <1>3, <2>1
<1> QED
  BY <1>1, <1>2, <1>4, <1>5, <1>6

LEMMA UptoFacts ==
  ASSUME TypeInv
  PROVE  /\ \A n, i : /\ Upto(n, i) \subseteq Due /\ IsFiniteSet(Upto(n, i))
                      /\ Cardinality(Upto(n, i)) \in Nat
         /\ Cardinality(Due) \in Nat
<1>1. IsFiniteSet(Due)
  BY DueFacts
<1>2. \A n, i : Upto(n, i) \in SUBSET Due
  BY DEF Upto
<1>3. \A n, i : IsFiniteSet(Upto(n, i))
  BY <1>1, <1>2, FS_Subset
<1> QED
  BY <1>1, <1>2, <1>3, FS_CardinalityType

\* The next byte of the newest file is the next one due.
LEMMA NextDue ==
  ASSUME TypeInv, Newest > 0, opened[Newest] \notin Missing,
         NEW i \in 0 .. Size[opened[Newest]]
  PROVE  /\ <<Newest, i + 1>> \in Due
         /\ Cardinality(Upto(Newest, i + 1)) = Cardinality(Upto(Newest, i)) + 1
<1>1. Newest \in 1 .. Newest /\ opened[Newest] \in Files
  BY DueFacts
<1>2. Size[opened[Newest]] \in Nat
  BY <1>1, SpoolerAssumption
<1>3. <<Newest, i + 1>> \in Due
  BY <1>1, <1>2, DueFacts
<1>4. Upto(Newest, i + 1) = Upto(Newest, i) \cup {<<Newest, i + 1>>}
  <2>1. ASSUME NEW d \in Due, d[1] = Newest
        PROVE  d[2] <= i + 1 <=> d[2] <= i \/ d = <<Newest, i + 1>>
    <3>1. d = <<d[1], d[2]>> /\ d[2] \in 1 .. Size[opened[Newest]] + 1
      BY <2>1, DueFacts
    <3>2. d[2] <= i + 1 <=> d[2] <= i \/ d[2] = i + 1
      BY <1>2, <3>1
    <3> QED BY <2>1, <3>1, <3>2
  <2>2. ASSUME NEW d \in Due PROVE d \in Upto(Newest, i + 1) <=> d \in Upto(Newest, i) \/ d = <<Newest, i + 1>>
    <3>1. CASE d[1] = Newest
      BY <2>1, <3>1 DEF Upto
    <3>2. CASE d[1] # Newest
      BY <3>2 DEF Upto
    <3> QED BY <3>1, <3>2
  <2>3. Upto(Newest, i + 1) \subseteq Due /\ Upto(Newest, i) \subseteq Due
    BY UptoFacts
  <2> QED BY <1>3, <2>2, <2>3
<1>5. <<Newest, i + 1>> \notin Upto(Newest, i)
  BY <1>1, <1>2 DEF Upto
<1>6. Cardinality(Upto(Newest, i + 1)) = Cardinality(Upto(Newest, i)) + 1
  BY <1>4, <1>5, UptoFacts, FS_AddElement
<1> QED
  BY <1>3, <1>6

\* Behind the form feed of the newest file, or before one that is missing,
\* nothing is due.
LEMMA AllDue ==
  ASSUME TypeInv, Newest > 0
  PROVE  /\ opened[Newest] \notin Missing => Upto(Newest, Size[opened[Newest]] + 1) = Due
         /\ opened[Newest] \in Missing => Upto(Newest, 0) = Due
<1>1. \A d \in Due : d[1] \in 1 .. Newest /\ opened[d[1]] \notin Missing
                     /\ d[2] \in 1 .. Size[opened[d[1]]] + 1
  BY DueFacts
<1>2. Newest \in Nat
  BY DueFacts
<1>3. \A d \in Due : d[1] < Newest \/ d[1] = Newest
  BY <1>1, <1>2
<1>4. \A d \in Due : d[1] = Newest => d[2] <= Size[opened[Newest]] + 1
  BY <1>1, <1>2
<1> QED
  BY <1>1, <1>3, <1>4 DEF Upto

\* A file that is taken is due behind all others.
LEMMA TakenDue ==
  ASSUME TypeInv, TypeInv', NEW f \in Files, opened' = Append(opened, f)
  PROVE  /\ Newest' = Newest + 1 /\ opened'[Newest'] = f
         /\ Due \subseteq Due'
         /\ \A d \in Due : /\ Upto(d[1], d[2])' = Upto(d[1], d[2])
                           /\ ByteOf(d)' = ByteOf(d)
         /\ Upto(Newest, 0)' = Due
<1>1. /\ opened \in Seq(Files) /\ DOMAIN opened = 1 .. Newest /\ Newest \in Nat
      /\ Newest' = Newest + 1 /\ DOMAIN opened' = 1 .. Newest + 1
      /\ \A n \in 1 .. Newest : opened'[n] = opened[n]
      /\ opened'[Newest + 1] = f
  BY SeqFacts DEF TypeInv, TypeOK, Newest
<1>2. \A d \in Due : d \in Due'
  <2> SUFFICES ASSUME NEW n \in DOMAIN opened, opened[n] \notin Missing,
                      NEW d \in {n} \X (1 .. Size[opened[n]] + 1)
               PROVE  d \in Due'
    BY DEF Due
  <2>1. n \in DOMAIN opened' /\ opened'[n] = opened[n]
    BY <1>1
  <2> QED BY <2>1 DEF Due
<1>3. ASSUME NEW d \in Due' PROVE (d[1] \in 1 .. Newest /\ d \in Due) \/ (d[1] = Newest + 1 /\ d[2] \in 1 .. Size[f] + 1)
  <2>1. PICK n \in DOMAIN opened' : opened'[n] \notin Missing
                                    /\ d \in {n} \X (1 .. Size[opened'[n]] + 1)
    BY <1>3 DEF Due
  <2>2. CASE n = Newest + 1
    BY <1>1, <2>1, <2>2
  <2>3. CASE n \in 1 .. Newest
    <3>1. opened'[n] = opened[n] /\ n \in DOMAIN opened
      BY <1>1, <2>3
    <3>2. d \in Due
      BY <2>1, <3>1 DEF Due
    <3> QED BY <2>1, <2>3, <3>2
  <2> QED BY <1>1, <2>1, <2>2, <2>3
<1>4. Size[f] \in Nat
  BY SpoolerAssumption
<1>5. \A d \in Due : d[1] \in 1 .. Newest
  BY DueFacts
<1>6. \A d \in Due : Upto(d[1], d[2])' = Upto(d[1], d[2])
  <2> SUFFICES ASSUME NEW d \in Due, NEW e
               PROVE  e \in Upto(d[1], d[2])' <=> e \in Upto(d[1], d[2])
    BY DEF Upto
  <2>1. d[1] \in 1 .. Newest
    BY <1>5
  <2>2. CASE e \in Due
    BY <1>2, <2>2 DEF Upto
  <2>3. CASE e \in Due' /\ e \notin Due
    <3>1. e[1] = Newest + 1
      BY <1>3, <2>3
    <3>2. ~(e[1] < d[1]) /\ e[1] # d[1]
      BY <1>1, <2>1, <3>1
    <3> QED BY <2>3, <3>2 DEF Upto
  <2> QED BY <2>2, <2>3 DEF Upto
<1>7. \A d \in Due : ByteOf(d)' = ByteOf(d)
  BY <1>1, <1>5 DEF ByteOf
<1>8. Upto(Newest, 0)' = Due
  <2> SUFFICES ASSUME NEW e PROVE e \in Upto(Newest, 0)' <=> e \in Due
    OBVIOUS
  <2>1. e \in Upto(Newest, 0)' <=>
          e \in Due' /\ (e[1] < Newest + 1 \/ (e[1] = Newest + 1 /\ e[2] <= 0))
    BY <1>1 DEF Upto
  <2>2. CASE e \in Due
    BY <1>1, <1>2, <1>5, <2>1, <2>2
  <2>3. CASE e \in Due' /\ e \notin Due
    BY <1>1, <1>3, <1>4, <2>1, <2>3
  <2> QED BY <2>1, <2>2, <2>3
<1> QED
  BY <1>1, <1>2, <1>6, <1>7, <1>8

-----------------------------------------------------------------------------
(* The drive, and the order of what is printed.                            *)

\* A handler that is not nested found no other one.
LEMMA FirstHandler ==
  ASSUME TypeInv, [Next]_vars, ~nested'
  PROVE  ~nested /\ (SPOOLER => handlers = <<>>)
BY DEF TypeInv, TypeOK, Next, Handle, vars, Work, START, SPOOL_LOOP, SPOOL_DONE, SPOOLER,
   EXECUTE, Open, PRT_LOOP, CallGet, Get, SendByte, EXIT

LEMMA AloneStep ==
  ASSUME TypeInv, Interrupted, Alone, [Next]_vars
  PROVE  Alone'
<1> SUFFICES ASSUME ~nested'
             PROVE  /\ Len(handlers') <= 1
                    /\ handlers' = <<>> => drive' = fgDrive'
                    /\ handlers' # <<>> => curDn' = fgDrive'
  BY DEF Alone
<1>1. /\ ~nested /\ Len(handlers) <= 1
      /\ handlers = <<>> => drive = fgDrive
      /\ handlers # <<>> => curDn = fgDrive
      /\ SPOOLER => handlers = <<>>
  BY FirstHandler DEF Alone
<1>2. CASE Work \/ START \/ UNCHANGED vars
  BY <1>1, <1>2 DEF Work, START, vars
<1>3. CASE SPOOL_LOOP \/ SPOOL_DONE
  BY <1>1, <1>3 DEF SPOOL_LOOP, SPOOL_DONE
<1>4. CASE SPOOLER
  <2>1. handlers = <<>> /\ handlers' = Append(handlers, [at |-> "EXECUTE", byte |-> FF])
    BY <1>1, <1>4 DEF SPOOLER
  <2>2. Len(handlers') = 1 /\ handlers' # <<>>
    BY <2>1
  <2>3. curDn' = drive /\ fgDrive' = fgDrive
    BY <1>4 DEF SPOOLER, program
  <2> QED BY <1>1, <2>1, <2>2, <2>3
<1>5. CASE EXECUTE \/ Open \/ PRT_LOOP \/ CallGet \/ Get \/ SendByte
  <2>1. Len(handlers') = Len(handlers) /\ handlers # <<>> /\ handlers' # <<>>
    <3>1. CASE Get
      BY <3>1, GetFacts DEF Get, Handler
    <3>2. CASE ~Get
      <4>1. \E old \in Labels, label \in Labels : Handler(old) /\ Goto(label)
        BY <1>5, <3>2 DEF EXECUTE, Open, PRT_LOOP, CallGet, SendByte, Labels
      <4> QED BY <4>1, MoveFacts DEF Handler
    <3> QED BY <3>1, <3>2
  <2>2. UNCHANGED <<curDn, fgDrive>>
    BY <1>5 DEF EXECUTE, Open, PRT_LOOP, CallGet, Get, SendByte, program
  <2> QED BY <1>1, <2>1, <2>2
<1>6. CASE EXIT
  <2>1. handlers # <<>> /\ handlers' = Front(handlers) /\ drive' = curDn /\ fgDrive' = fgDrive
    BY <1>6 DEF EXIT, Handler, program
  <2>2. handlers' \in Seq(Activation) /\ Len(handlers') = Len(handlers) - 1
    <3>1. TypeOK
      BY DEF TypeInv
    <3> QED BY <2>1, <3>1, PopFacts
  <2>3. handlers' = <<>> /\ Len(handlers') <= 1
    <3>1. Len(handlers) \in Nat
      BY TopFacts
    <3>2. Len(handlers') \in Nat
      BY <2>2
    <3>3. Len(handlers') = 0
      BY <1>1, <2>2, <3>1, <3>2
    <3>4. \A q \in Seq(Activation) : Len(q) = 0 => q = <<>>
      OBVIOUS
    <3>5. handlers' = <<>>
      BY <2>2, <3>3, <3>4, Zenon
    <3> QED BY <3>3, <3>5
  <2> QED BY <1>1, <2>1, <2>3
<1> QED
  BY <1>2, <1>3, <1>4, <1>5, <1>6 DEF Next, Handle

LEMMA SameDue ==
  ASSUME opened' = opened
  PROVE  /\ Due' = Due /\ Newest' = Newest
         /\ \A n, i : Upto(n, i)' = Upto(n, i)
         /\ \A d : ByteOf(d)' = ByteOf(d)
BY DEF Due, Newest, Upto, ByteOf

\* The parts of InTurn, while no handler was interrupted.
FileOpen == printing =>
  /\ Newest > 0 /\ fcb = opened[Newest] /\ fcb \notin Missing /\ pos \in 0 .. Size[fcb]
PrintedSoFar ==
  /\ \A label \in Busy : Handler(label) => printing
  /\ printing /\ ~Handler("return") => Len(printed) = Cardinality(Upto(Newest, pos))
ByteInHand == Handler("return") =>
  \/ /\ Last(handlers).byte = FF /\ pos = Size[fcb]
     /\ Len(printed) = Cardinality(Upto(Newest, pos))
  \/ /\ Last(handlers).byte = <<fcb, pos>> /\ pos > 0
     /\ Len(printed) = Cardinality(Upto(Newest, pos - 1))
FileFound == Handler("open") =>
  /\ ~printing /\ Newest > 0 /\ fcb = opened[Newest]
  /\ Len(printed) = Cardinality(Upto(Newest, 0))
AllSent == ~printing /\ ~Handler("open") => Len(printed) = Cardinality(Due)
Turn == FileOpen /\ PrintedSoFar /\ ByteInHand /\ FileFound /\ AllSent

LEMMA TurnParts == InTurn <=> (~nested => Turn)
BY DEF InTurn, Turn, FileOpen, PrintedSoFar, ByteInHand, FileFound, AllSent

\* The byte that is printed is the next one due.
LEMMA NextIsDue ==
  ASSUME TypeInv, Turn, SendByte
  PROVE  LET b == Last(handlers).byte
             i == IF b = FF THEN pos ELSE pos - 1
         IN  /\ printed' = Append(printed, b)
             /\ opened' = opened /\ printing /\ Newest > 0 /\ opened[Newest] \notin Missing
             /\ i \in 0 .. Size[opened[Newest]]
             /\ b = FF => i = Size[opened[Newest]]
             /\ b # FF => b = <<opened[Newest], i + 1>> /\ i + 1 = pos
                          /\ i < Size[opened[Newest]]
             /\ Len(printed) = Cardinality(Upto(Newest, i))
<1> DEFINE b == Last(handlers).byte
           i == IF b = FF THEN pos ELSE pos - 1
<1>1. Handler("return") /\ printed' = Append(printed, b) /\ opened' = opened
  BY DEF SendByte
<1>2. printing
  BY <1>1 DEF Turn, PrintedSoFar, Busy
<1>3. Newest > 0 /\ fcb = opened[Newest] /\ fcb \notin Missing /\ pos \in 0 .. Size[fcb]
  BY <1>2 DEF Turn, FileOpen
<1>4. \/ b = FF /\ pos = Size[fcb] /\ Len(printed) = Cardinality(Upto(Newest, pos))
      \/ b = <<fcb, pos>> /\ pos > 0 /\ Len(printed) = Cardinality(Upto(Newest, pos - 1))
  BY <1>1 DEF Turn, ByteInHand
<1>5. Size[fcb] \in Nat
  <2>1. fcb \in Files
    BY <1>2 DEF TypeInv
  <2> QED BY <2>1, SpoolerAssumption
<1> HIDE DEF b
<1>6. b # FF => pos > 0
  BY <1>4
<1>7. b = FF => /\ i \in 0 .. Size[fcb] /\ i = Size[fcb]
                /\ Len(printed) = Cardinality(Upto(Newest, i))
  <2> SUFFICES ASSUME b = FF
               PROVE  /\ i \in 0 .. Size[fcb] /\ i = Size[fcb]
                      /\ Len(printed) = Cardinality(Upto(Newest, i))
    OBVIOUS
  <2>1. i = pos
    OBVIOUS
  <2>2. ~(b = <<fcb, pos>> /\ pos > 0)
    BY DEF FF
  <2> QED BY <1>3, <1>4, <2>1, <2>2
<1>8. b # FF => /\ i \in 0 .. Size[fcb] /\ i + 1 = pos /\ i < Size[fcb] /\ b = <<fcb, i + 1>>
                /\ Len(printed) = Cardinality(Upto(Newest, i))
  BY <1>3, <1>4, <1>5
<1> QED
  BY <1>1, <1>2, <1>3, <1>7, <1>8 DEF b

LEMMA TurnStep ==
  ASSUME TypeInv, TypeInv', PrintTypes, Alone, InTurn, [Next]_vars
  PROVE  InTurn'
<1> SUFFICES ASSUME ~nested' PROVE Turn'
  BY TurnParts DEF InTurn, Turn, FileOpen, PrintedSoFar, ByteInHand, FileFound, AllSent
<1>1. /\ ~nested /\ Len(handlers) <= 1 /\ Turn
      /\ SPOOLER => handlers = <<>>
  BY FirstHandler, TurnParts DEF Alone
<1> USE DEF Busy
<1>2. CASE Work \/ START \/ SPOOL_LOOP \/ SPOOL_DONE \/ UNCHANGED vars
  <2>1. UNCHANGED <<printed, opened, handlers, fcb, pos, printing>>
    BY <1>2 DEF Work, START, SPOOL_LOOP, SPOOL_DONE, history, vars
  <2>2. \A l : Handler(l)' <=> Handler(l)
    BY <2>1 DEF Handler
  <2> QED BY <1>1, <2>1, <2>2, SameDue DEF Turn, FileOpen, PrintedSoFar, ByteInHand, FileFound, AllSent
<1>3. CASE SPOOLER
  <2>1. UNCHANGED <<printed, opened, fcb, pos, printing>> /\ ~Handler("open") /\ ~Handler("return")
    BY <1>1, <1>3 DEF SPOOLER, history, Handler
  <2>2. /\ handlers' # <<>> /\ handlers'[Len(handlers')].at = "EXECUTE"
    <3>1. TypeOK
      BY DEF TypeInv
    <3> QED BY <1>3, <3>1, PushFacts DEF SPOOLER
  <2>3. \A l : Handler(l)' <=> l = "EXECUTE"
    BY <2>2 DEF Handler, Last
  <2> QED BY <1>1, <2>1, <2>3, SameDue DEF Turn, FileOpen, PrintedSoFar, ByteInHand, FileFound, AllSent
<1>4. CASE EXECUTE
  <2>1. PICK label \in {"PRT_LOOP", "EXIT", "open"} :
          /\ Goto(label)
          /\ \/ label # "open" /\ (label = "PRT_LOOP" => printing) /\ UNCHANGED <<fcb, opened>>
             \/ /\ label = "open" /\ queue > 0 /\ ~printing
                /\ fcb' = slot[queue] /\ opened' = Append(opened, slot[queue])
    BY <1>4 DEF EXECUTE
  <2>2. /\ \A l : Handler(l)' <=> l = label
        /\ ~Handler("open") /\ ~Handler("return")
    BY <1>4, <2>1, MoveFacts DEF EXECUTE, Labels, Handler
  <2>3. UNCHANGED <<printed, pos, printing>>
    BY <1>4 DEF EXECUTE
  <2>4. CASE label # "open" /\ (label = "PRT_LOOP" => printing) /\ UNCHANGED <<fcb, opened>>
    BY <1>1, <2>1, <2>2, <2>3, <2>4, SameDue
       DEF Turn, FileOpen, PrintedSoFar, ByteInHand, FileFound, AllSent
  <2>5. CASE /\ label = "open" /\ queue > 0 /\ ~printing
             /\ fcb' = slot[queue] /\ opened' = Append(opened, slot[queue])
    <3>1. slot[queue] \in Files
      BY <2>5 DEF TypeInv, TypeOK
    <3>2. Newest' = Newest + 1 /\ opened'[Newest'] = slot[queue] /\ Upto(Newest, 0)' = Due
      BY <2>5, <3>1, TakenDue
    <3>3. Newest' > 0
      BY <3>2, DueFacts
    <3>4. Len(printed) = Cardinality(Due)
      BY <1>1, <2>2, <2>5 DEF Turn, AllSent
    <3>5. FileFound'
      BY <2>3, <2>5, <3>2, <3>3, <3>4 DEF FileFound
    <3>6. FileOpen' /\ PrintedSoFar' /\ ByteInHand' /\ AllSent'
      BY <2>2, <2>3, <2>5 DEF FileOpen, PrintedSoFar, ByteInHand, AllSent
    <3> QED BY <3>5, <3>6 DEF Turn
  <2> QED BY <2>1, <2>4, <2>5
<1>5. CASE Open
  <2>1. /\ Handler("open") /\ Goto("EXIT") /\ UNCHANGED <<printed, opened, fcb>>
        /\ \/ fcb \in Missing /\ UNCHANGED <<pos, printing>>
           \/ fcb \notin Missing /\ pos' = 0 /\ printing' = TRUE
    BY <1>5 DEF Open, history
  <2>2. \A l : Handler(l)' <=> l = "EXIT"
    BY <2>1, MoveFacts DEF Labels
  <2>3. /\ ~printing /\ Newest > 0 /\ fcb = opened[Newest]
        /\ Len(printed) = Cardinality(Upto(Newest, 0))
    BY <1>1, <2>1 DEF Turn, FileFound
  <2>4. Due' = Due /\ Newest' = Newest /\ Upto(Newest, 0)' = Upto(Newest, 0)
    BY <2>1, SameDue
  <2>5. FileFound' /\ ByteInHand'
    BY <2>2 DEF FileFound, ByteInHand
  <2>6. FileOpen'
    <3>1. opened[Newest] \in Files
      BY <2>3, DueFacts
    <3>2. 0 \in 0 .. Size[fcb]
      BY <2>3, <3>1, SpoolerAssumption
    <3> QED BY <2>1, <2>3, <2>4, <3>2 DEF FileOpen
  <2>7. PrintedSoFar'
    <3>1. printing' => pos' = 0
      BY <2>1, <2>3
    <3>2. printing' => Upto(Newest, pos)' = Upto(Newest, 0)
      BY <2>1, <3>1, SameDue
    <3> QED BY <2>1, <2>2, <2>3, <3>2 DEF PrintedSoFar
  <2>8. AllSent'
    BY <2>1, <2>2, <2>3, <2>4, AllDue DEF AllSent
  <2> QED BY <2>5, <2>6, <2>7, <2>8 DEF Turn
<1>6. CASE PRT_LOOP \/ CallGet
  <2>1. PICK old \in {"PRT_LOOP", "call"}, label \in {"EXIT", "call", "get"} :
          Handler(old) /\ Goto(label)
    BY <1>6 DEF PRT_LOOP, CallGet
  <2>2. \A l : (Handler(l)' <=> l = label) /\ (Handler(l) => l = old)
    BY <2>1, MoveFacts DEF Labels, Handler
  <2>3. UNCHANGED <<printed, opened, fcb, pos, printing>> /\ printing
    BY <1>1, <1>6, <2>1 DEF PRT_LOOP, CallGet, history, Turn, PrintedSoFar
  <2>4. ~Handler("return") /\ ~Handler("return")'
    BY <2>1, <2>2
  <2> QED BY <1>1, <2>1, <2>2, <2>3, <2>4, SameDue
          DEF Turn, FileOpen, PrintedSoFar, ByteInHand, FileFound, AllSent
<1>7. CASE Get
  <2>1. /\ \A l : Handler(l)' <=> l = "return"
        /\ Last(handlers').byte = (IF pos < Size[fcb] THEN <<fcb, pos + 1>> ELSE FF)
    BY <1>7, ReadFacts
  <2>2. /\ UNCHANGED <<printed, opened, fcb, printing>>
        /\ pos' = IF pos < Size[fcb] THEN pos + 1 ELSE pos
        /\ Handler("get")
    BY <1>7 DEF Get, history
  <2>3. printing /\ ~Handler("return")
    BY <1>1, <2>2 DEF Turn, PrintedSoFar, Handler
  <2>4. /\ Len(printed) = Cardinality(Upto(Newest, pos)) /\ Newest > 0 /\ fcb = opened[Newest]
        /\ fcb \notin Missing /\ pos \in 0 .. Size[fcb]
    BY <1>1, <2>3 DEF Turn, PrintedSoFar, FileOpen
  <2>5. Size[fcb] \in Nat
    <3>1. fcb \in Files
      BY <2>3 DEF TypeInv
    <3> QED BY <3>1, SpoolerAssumption
  <2>6. pos' \in 0 .. Size[fcb]
    BY <2>2, <2>4, <2>5
  <2>7. \A n, i : Upto(n, i)' = Upto(n, i) /\ Newest' = Newest
    BY <2>2, SameDue
  <2>8. ByteInHand'
    <3>1. CASE pos < Size[fcb]
      <4>1. pos' = pos + 1 /\ pos' > 0 /\ pos' - 1 = pos
        BY <2>2, <2>4, <3>1
      <4>2. Last(handlers').byte = <<fcb', pos'>>
        BY <2>1, <2>2, <3>1, <4>1
      <4>3. Len(printed') = Cardinality(Upto(Newest, pos - 1)')
        BY <2>2, <2>4, <2>7, <4>1
      <4> QED BY <4>1, <4>2, <4>3 DEF ByteInHand
    <3>2. CASE ~(pos < Size[fcb])
      <4>1. pos' = pos /\ pos = Size[fcb]
        BY <2>2, <2>4, <2>5, <3>2
      <4>2. Last(handlers').byte = FF
        BY <2>1, <3>2
      <4>3. Len(printed') = Cardinality(Upto(Newest, pos)')
        BY <2>2, <2>4, <2>7, <4>1
      <4> QED BY <2>2, <4>1, <4>2, <4>3 DEF ByteInHand
    <3> QED BY <3>1, <3>2
  <2>9. FileOpen'
    BY <2>2, <2>4, <2>6, <2>7 DEF FileOpen
  <2>10. PrintedSoFar' /\ FileFound' /\ AllSent'
    BY <2>1, <2>2, <2>3 DEF PrintedSoFar, FileFound, AllSent
  <2> QED BY <2>8, <2>9, <2>10 DEF Turn
<1>8. CASE SendByte
  <2> DEFINE b == Last(handlers).byte
             i == IF b = FF THEN pos ELSE pos - 1
  <2>1. /\ printed' = Append(printed, b)
        /\ opened' = opened /\ printing /\ Newest > 0 /\ opened[Newest] \notin Missing
        /\ i \in 0 .. Size[opened[Newest]]
        /\ b = FF => i = Size[opened[Newest]]
        /\ b # FF => b = <<opened[Newest], i + 1>> /\ i + 1 = pos /\ i < Size[opened[Newest]]
        /\ Len(printed) = Cardinality(Upto(Newest, i))
    BY <1>1, <1>8, NextIsDue
  <2>2. /\ Handler("return") /\ UNCHANGED <<fcb, pos>>
        /\ IF b = FF THEN printing' = FALSE /\ Goto("EXIT")
                     ELSE printing' = printing /\ Goto("PRT_LOOP")
    BY <1>8 DEF SendByte
  <2> HIDE DEF b, i
  <2>3. Cardinality(Upto(Newest, i + 1)) = Cardinality(Upto(Newest, i)) + 1
    BY <2>1, NextDue
  <2>4. Len(printed') = Len(printed) + 1
    <3>1. b \in InHand
      <4>1. handlers[Len(handlers)] \in Activation
        BY <2>2, TopFacts
      <4> QED BY <4>1 DEF b, Last, Activation
    <3> QED BY <2>1, <3>1, SeqFacts DEF PrintTypes
  <2>5. Len(printed') = Cardinality(Upto(Newest, i + 1))
    BY <2>1, <2>3, <2>4
  <2>6. PICK label \in {"EXIT", "PRT_LOOP"} :
          Goto(label) /\ (IF b = FF THEN label = "EXIT" /\ printing' = FALSE
                                    ELSE label = "PRT_LOOP" /\ printing' = printing)
    BY <2>2
  <2>7. \A l : Handler(l)' <=> l = label
    BY <2>2, <2>6, MoveFacts DEF Labels
  <2>8. /\ \A n, m : Upto(n, m)' = Upto(n, m)
        /\ Newest' = Newest /\ Due' = Due
    BY <2>1, SameDue
  <2>9. FileOpen'
    BY <1>1, <2>1, <2>2, <2>6, <2>8 DEF Turn, FileOpen
  <2>10. PrintedSoFar'
    <3>1. printing' => label = "PRT_LOOP" /\ b # FF
      BY <2>1, <2>6
    <3>2. printing' => Len(printed') = Cardinality(Upto(Newest, pos))
      BY <2>1, <2>5, <3>1
    <3>3. Upto(Newest, pos)' = Upto(Newest, pos)
      BY <2>2, <2>8
    <3>4. label = "PRT_LOOP" => printing'
      BY <2>1, <2>6
    <3> QED BY <2>6, <2>7, <3>2, <3>3, <3>4 DEF PrintedSoFar
  <2>11. AllSent'
    <3>1. ~printing' => b = FF
      BY <2>1, <2>6
    <3>2. ~printing' => Len(printed') = Cardinality(Due)
      BY <2>1, <2>5, <3>1, AllDue
    <3> QED BY <2>8, <3>2 DEF AllSent
  <2>12. ByteInHand' /\ FileFound'
    BY <2>6, <2>7 DEF ByteInHand, FileFound
  <2> QED BY <2>9, <2>10, <2>11, <2>12 DEF Turn
<1>9. CASE EXIT
  <2>1. Handler("EXIT") /\ handlers' = Front(handlers) /\ UNCHANGED <<printed, opened, fcb, pos, printing>>
    BY <1>9 DEF EXIT, history
  <2>2. handlers' = <<>>
    <3>1. TypeOK /\ handlers # <<>>
      BY <2>1 DEF TypeInv, Handler
    <3>2. handlers' \in Seq(Activation) /\ Len(handlers') = Len(handlers) - 1
      BY <2>1, <3>1, PopFacts
    <3>3. Len(handlers) \in Nat /\ Len(handlers') \in Nat
      BY <3>2, TopFacts, SeqFacts
    <3>4. Len(handlers') = 0
      BY <1>1, <3>2, <3>3
    <3>5. \A q \in Seq(Activation) : Len(q) = 0 => q = <<>>
      OBVIOUS
    <3> QED BY <3>2, <3>4, <3>5, Zenon
  <2>3. /\ \A l : ~Handler(l)'
        /\ \A l : Handler(l) => l = "EXIT"
    BY <2>1, <2>2 DEF Handler
  <2> QED BY <1>1, <2>1, <2>3, SameDue DEF Turn, FileOpen, PrintedSoFar, ByteInHand, FileFound, AllSent
<1> QED
  BY <1>2, <1>3, <1>4, <1>5, <1>6, <1>7, <1>8, <1>9 DEF Next, Handle

LEMMA AsDueStep ==
  ASSUME TypeInv, TypeInv', PrintTypes, InTurn, AsDue, [Next]_vars
  PROVE  AsDue'
<1> SUFFICES ASSUME ~nested', NEW k \in DOMAIN printed'
             PROVE  \E d \in Due' : k = Cardinality(Upto(d[1], d[2])') /\ printed'[k] = ByteOf(d)'
  BY DEF AsDue
<1>1. /\ ~nested /\ Turn
      /\ \A j \in DOMAIN printed : \E d \in Due :
           j = Cardinality(Upto(d[1], d[2])) /\ printed[j] = ByteOf(d)
  BY FirstHandler, TurnParts DEF AsDue
<1>2. CASE UNCHANGED <<printed, opened>>
  BY <1>1, <1>2, SameDue
<1>3. CASE SendByte
  <2> DEFINE b == Last(handlers).byte
             i == IF b = FF THEN pos ELSE pos - 1
  <2>1. /\ printed' = Append(printed, b)
        /\ opened' = opened /\ printing /\ Newest > 0 /\ opened[Newest] \notin Missing
        /\ i \in 0 .. Size[opened[Newest]]
        /\ b = FF => i = Size[opened[Newest]]
        /\ b # FF => b = <<opened[Newest], i + 1>> /\ i + 1 = pos /\ i < Size[opened[Newest]]
        /\ Len(printed) = Cardinality(Upto(Newest, i))
    BY <1>1, <1>3, NextIsDue
  <2>2. b \in InHand
    <3>1. handlers[Len(handlers)] \in Activation
      BY <1>3, TopFacts DEF SendByte
    <3> QED BY <3>1 DEF Last, Activation
  <2> HIDE DEF b, i
  <2>3. /\ DOMAIN printed' = 1 .. Len(printed) + 1 /\ DOMAIN printed = 1 .. Len(printed)
        /\ \A j \in DOMAIN printed : printed'[j] = printed[j]
        /\ printed'[Len(printed) + 1] = b /\ Len(printed) \in Nat
    BY <2>1, <2>2, SeqFacts DEF PrintTypes
  <2>4. CASE k \in DOMAIN printed
    BY <1>1, <2>1, <2>3, <2>4, SameDue
  <2>5. CASE k = Len(printed) + 1
    <3>1. /\ <<Newest, i + 1>> \in Due
          /\ Cardinality(Upto(Newest, i + 1)) = Len(printed) + 1
      BY <2>1, NextDue
    <3>2. Size[opened[Newest]] \in Nat
      <4>1. opened[Newest] \in Files
        BY <2>1, DueFacts
      <4> QED BY <4>1, SpoolerAssumption
    <3>3. ByteOf(<<Newest, i + 1>>) = b
      BY <2>1, <3>2 DEF ByteOf
    <3>4. PICK d \in Due : Cardinality(Upto(d[1], d[2])) = Len(printed) + 1 /\ ByteOf(d) = b
      BY <3>1, <3>3
    <3>5. printed'[k] = b
      BY <2>3, <2>5
    <3> QED BY <2>1, <2>5, <3>4, <3>5, SameDue
  <2> QED BY <2>3, <2>4, <2>5
<1>4. CASE EXECUTE
  <2>1. CASE opened' = opened
    BY <1>2, <1>4, <2>1 DEF EXECUTE
  <2>2. CASE queue > 0 /\ opened' = Append(opened, slot[queue])
    <3>1. slot[queue] \in Files
      BY <2>2 DEF TypeInv, TypeOK
    <3>2. /\ Due \subseteq Due'
          /\ \A d \in Due : /\ Upto(d[1], d[2])' = Upto(d[1], d[2])
                            /\ ByteOf(d)' = ByteOf(d)
      BY <2>2, <3>1, TakenDue
    <3>3. printed' = printed
      BY <1>4 DEF EXECUTE
    <3> QED BY <1>1, <3>2, <3>3
  <2> QED BY <1>4, <2>1, <2>2 DEF EXECUTE
<1> QED
  BY <1>2, <1>3, <1>4 DEF Next, Handle, vars, history, Work, START, SPOOL_LOOP, SPOOL_DONE,
     SPOOLER, Open, PRT_LOOP, CallGet, Get, EXIT

-----------------------------------------------------------------------------
(* The theorem.                                                            *)

LEMMA PrintInit == Init => PrintInv
<1> SUFFICES ASSUME Init PROVE PrintInv
  OBVIOUS
<1>1. TypeInv
  BY TypeInit
<1>2. Interrupted
  BY DEF Init, Interrupted
<1>3. /\ handlers = <<>> /\ printed = <<>> /\ opened = <<>> /\ printing = FALSE
      /\ drive = fgDrive /\ curDn = fgDrive
  BY DEF Init
<1>4. PrintTypes
  BY <1>3 DEF PrintTypes
<1>5. Counted
  <2> SUFFICES ASSUME NEW b \in Bytes
               PROVE  Cardinality(Times(b)) + Cardinality(Holding(b)) + Owed(b)
                        <= Cardinality(Takes(b[1]))
    BY DEF Counted
  <2>1. Times(b) = {} /\ Holding(b) = {} /\ Takes(b[1]) = {}
    BY <1>3 DEF Times, Holding, Takes
  <2>2. b[1] \in Files /\ pos = 0 /\ fcb = None /\ ~Opening
    BY <1>3 DEF Bytes, Init, Opening
  <2>3. ~StillDue(b)
    BY <2>2, SpoolerAssumption DEF StillDue
  <2> QED BY <2>1, <2>3, FS_EmptySet DEF Owed
<1>6. Alone
  BY <1>3 DEF Alone
<1>7. InTurn
  <2>1. Due = {}
    BY <1>3 DEF Due
  <2>2. \A l : ~Handler(l)
    BY <1>3 DEF Handler
  <2>3. Len(printed) = Cardinality(Due)
    BY <1>3, <2>1, FS_EmptySet
  <2> QED BY <1>3, <2>2, <2>3 DEF InTurn
<1>8. AsDue
  BY <1>3 DEF AsDue
<1> QED
  BY <1>1, <1>2, <1>4, <1>5, <1>6, <1>7, <1>8 DEF PrintInv

LEMMA PrintStep == PrintInv /\ [Next]_vars => PrintInv'
<1> SUFFICES ASSUME PrintInv, [Next]_vars PROVE PrintInv'
  OBVIOUS
<1>1. TypeInv /\ Interrupted /\ PrintTypes /\ Counted /\ Alone /\ InTurn /\ AsDue
  BY DEF PrintInv
<1>2. TypeInv'
  BY <1>1, TypeStep
<1>3. Interrupted'
  BY <1>1, <1>2, InterruptedStep
<1>4. PrintTypes'
  BY <1>1, PrintTypesStep
<1>5. Counted'
  BY <1>1, <1>2, <1>3, <1>4, CountedStep
<1>6. Alone'
  BY <1>1, AloneStep
<1>7. InTurn'
  BY <1>1, <1>2, TurnStep
<1>8. AsDue'
  BY <1>1, <1>2, AsDueStep
<1> QED
  BY <1>2, <1>3, <1>4, <1>5, <1>6, <1>7, <1>8 DEF PrintInv

(* Each byte of a file is printed once at most for each time the file was  *)
(* queued, even when handlers interrupt one another; when they do not, the *)
(* bytes come in order and none is left out; and the program that was      *)
(* interrupted finds the drive it had selected (PRT_LOOP, GETFIL, EXIT).   *)
THEOREM PrintsRight == Spec => []PrintedRight
<1>1. PrintInv => PrintedRight
  <2> SUFFICES ASSUME PrintInv PROVE PrintedRight
    OBVIOUS
  <2>1. TypeInv /\ PrintTypes /\ Counted /\ Alone /\ InTurn /\ AsDue
    BY DEF PrintInv
  <2>2. NoByteTwice
    <3> SUFFICES ASSUME NEW b \in Range(printed) \ {FF}
                 PROVE  Cardinality({i \in DOMAIN printed : printed[i] = b})
                          <= Cardinality({i \in DOMAIN opened : opened[i] = b[1]})
      BY DEF NoByteTwice
    <3>1. b \in InHand
      BY <2>1, SeqFacts DEF Range, PrintTypes
    <3>2. b \in Bytes
      BY <3>1 DEF InHand, Bytes
    <3>3. Cardinality(Times(b)) + Cardinality(Holding(b)) + Owed(b)
            <= Cardinality(Takes(b[1]))
      BY <2>1, <3>2 DEF Counted
    <3>4. /\ Cardinality(Times(b)) \in Nat /\ Cardinality(Holding(b)) \in Nat
          /\ Cardinality(Takes(b[1])) \in Nat /\ Owed(b) \in {0, 1}
      BY <2>1, CountFacts DEF Owed
    <3>5. Cardinality(Times(b)) <= Cardinality(Takes(b[1]))
      BY <3>3, <3>4
    <3> QED BY <3>5 DEF Times, Takes
  <2>3. InOrderUnlessNested
    <3>1. ~nested /\ handlers = <<>> /\ ~printing => Len(printed) = Cardinality(Due)
      BY <2>1 DEF InTurn, Handler
    <3> QED BY <2>1, <3>1 DEF InOrderUnlessNested, AsDue
  <2>4. DriveKept
    BY <2>1 DEF DriveKept, Alone
  <2> QED BY <2>2, <2>3, <2>4 DEF PrintedRight
<1> QED
  BY <1>1, PrintInit, PrintStep, PTL DEF Spec
=============================================================================
