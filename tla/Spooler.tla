------------------------------ MODULE Spooler -------------------------------
(***************************************************************************)
(* printer-utils/spool: the command spool queues files; spooler.asm, called *)
(* by the clock interrupt, prints them behind the back of whatever program *)
(* runs.  The handler enables interrupts, so it may itself be interrupted  *)
(* and entered again.  It tells from the interrupted address whether it may*)
(* work: not inside DOS (4000H - 5200H) and not inside itself (FC00H on).  *)
(*                                                                         *)
(* handlers is the stack of the handler's activations; only the last runs. *)
(***************************************************************************)
EXTENDS Naturals, Sequences, FiniteSets, SequencesExt

CONSTANTS
  Files,      \* files that are spooled
  Size,       \* Size[f]: bytes of f
  Missing,    \* files that DOS_OPEN_EX does not find
  Drive,      \* Drive[f]: the disk drive f is on
  Drives,
  MaxQueue,   \* MAX_QUEUE, 16
  MaxArgs,    \* bound: files named in one spool command
  MaxSpooled, \* bound: files queued in a behavior
  MaxNested   \* bound: activations of the handler at a time

None == "none"        \* no file

ASSUME SpoolerAssumption ==
  /\ None \notin Files
  /\ Size \in [Files -> Nat] /\ Missing \subseteq Files
  /\ Drive \in [Files -> Drives]
  /\ MaxQueue \in Nat \ {0} /\ MaxArgs \in Nat /\ MaxSpooled \in Nat
  /\ MaxNested \in Nat \ {0}

FF == <<None, 0>>      \* the form feed; <<f, i>> is byte i of file f

VARIABLES
  slot,      \* the names at QUEUE_PTR
  queue,     \* QUEUE, how many of them are in use
  fcb,       \* the file FCB describes
  pos,       \* how much of it has been read
  printing,  \* PRINTING
  drive,     \* the drive DOS has selected (4308H)
  curDn,     \* CUR_DN
  handlers,  \* activations: at, the label; byte, what register A holds
  at,        \* where the program that is interrupted executes
  args,      \* the file names spool has still to queue
  printed,   \* what the printer has received
  spooled, opened, \* files queued and files taken, in order
  fgDrive,   \* the drive the program has selected
  nested     \* an activation has been interrupted by another one

program == <<at, args, fgDrive>>
history == <<printed, spooled, opened>>
vars == <<slot, queue, fcb, pos, printing, drive, curDn, handlers, at, args,
          printed, spooled, opened, fgDrive, nested>>

Labels == {"EXECUTE", "open", "PRT_LOOP", "call", "get", "return", "EXIT"}

\* The address that an interrupt finds, by area.
AreaOf(label) ==
  CASE label \in {"EXECUTE", "PRT_LOOP"} -> "spooler"
    [] label \in {"open", "get", "EXIT"} -> "dos"
    [] label \in {"call", "return"}      -> "rom"

Here == IF handlers = <<>> THEN at ELSE AreaOf(Last(handlers).at)

Init ==
  /\ slot = [i \in 1 .. MaxQueue |-> None] /\ queue = 0
  /\ fcb = None /\ pos = 0 /\ printing = FALSE
  /\ fgDrive \in Drives /\ drive = fgDrive /\ curDn = fgDrive
  /\ handlers = <<>> /\ at = "user" /\ args = <<>>
  /\ printed = <<>> /\ spooled = <<>> /\ opened = <<>> /\ nested = FALSE

-----------------------------------------------------------------------------
(* The program, and the command spool among the programs.                  *)

\* A program calls DOS, ROM and its own subroutines, and in DOS may select
\* another drive.
Work ==
  /\ handlers = <<>> /\ at # "spool"
  /\ at' \in {"user", "dos", "rom"}
  /\ IF at = "dos" THEN drive' \in Drives ELSE drive' = drive
  /\ fgDrive' = drive'
  /\ UNCHANGED <<slot, queue, fcb, pos, printing, curDn, handlers, args,
                 history, nested>>

\* spool starts, and disables interrupts.
START ==
  /\ handlers = <<>> /\ at = "user"
  /\ \E n \in 1 .. MaxArgs : \E s \in [1 .. n -> Files] :
       Len(spooled) + n <= MaxSpooled /\ args' = s
  /\ at' = "spool"
  /\ UNCHANGED <<slot, queue, fcb, pos, printing, drive, curDn, handlers,
                 history, fgDrive, nested>>

\* Mutant: the queue is taken for full one name too late.
Full_OffByOne == queue > MaxQueue

Full == queue = MaxQueue

\* SPOOL_LOOP: the names move up, the new one is the first.
SPOOL_LOOP ==
  /\ at = "spool" /\ args # <<>> /\ ~Full
  /\ slot' = [i \in 1 .. MaxQueue |-> IF i = 1 THEN Head(args) ELSE slot[i - 1]]
  /\ queue' = queue + 1
  /\ args' = Tail(args) /\ spooled' = Append(spooled, Head(args))
  /\ UNCHANGED <<fcb, pos, printing, drive, curDn, handlers, at, printed,
                 opened, fgDrive, nested>>

\* SPOOL_DONE, or Q_FULL, which forgets the other names.
SPOOL_DONE ==
  /\ at = "spool" /\ (args = <<>> \/ Full)
  /\ at' = "user" /\ args' = <<>>
  /\ UNCHANGED <<slot, queue, fcb, pos, printing, drive, curDn, handlers,
                 history, fgDrive, nested>>

-----------------------------------------------------------------------------
(* The interrupt handler.                                                  *)

Goto(label) == handlers' = [handlers EXCEPT ![Len(handlers)].at = label]
Handler(label) == handlers # <<>> /\ Last(handlers).at = label

\* Mutant: DOS is taken for a place where the handler may work.
Safe_Dos == Here # "spooler" /\ at # "spool"

\* The test of the interrupted address; spool has interrupts disabled.
Safe == Here \in {"user", "rom"}

\* SPOOLER: elsewhere it returns at NO_EXECUTE.
SPOOLER ==
  /\ Safe /\ Len(handlers) < MaxNested
  /\ handlers' = Append(handlers, [at |-> "EXECUTE", byte |-> FF])
  /\ curDn' = drive /\ nested' = (nested \/ handlers # <<>>)
  /\ UNCHANGED <<slot, queue, fcb, pos, printing, drive, program, history>>

\* Mutant: the newest name is taken.
EXECUTE_Newest ==
  /\ Handler("EXECUTE")
  /\ \/ printing /\ Goto("PRT_LOOP") /\ UNCHANGED <<queue, fcb, opened>>
     \/ ~printing /\ queue = 0 /\ Goto("EXIT") /\ UNCHANGED <<queue, fcb, opened>>
     \/ /\ ~printing /\ queue > 0
        /\ fcb' = slot[1] /\ queue' = queue - 1
        /\ opened' = Append(opened, slot[1]) /\ Goto("open")
  /\ UNCHANGED <<slot, pos, printing, drive, curDn, program, printed, spooled,
                 nested>>

\* Mutant: the last name stays in the queue.
EXECUTE_LastStays ==
  /\ Handler("EXECUTE")
  /\ \/ printing /\ Goto("PRT_LOOP") /\ UNCHANGED <<queue, fcb, opened>>
     \/ ~printing /\ queue <= 1 /\ Goto("EXIT") /\ UNCHANGED <<queue, fcb, opened>>
     \/ /\ ~printing /\ queue > 1
        /\ fcb' = slot[queue] /\ queue' = queue - 1
        /\ opened' = Append(opened, slot[queue]) /\ Goto("open")
  /\ UNCHANGED <<slot, pos, printing, drive, curDn, program, printed, spooled,
                 nested>>

\* EXECUTE: go on with the file, or take the oldest name from the queue.
EXECUTE ==
  /\ Handler("EXECUTE")
  /\ \/ printing /\ Goto("PRT_LOOP") /\ UNCHANGED <<queue, fcb, opened>>
     \/ ~printing /\ queue = 0 /\ Goto("EXIT") /\ UNCHANGED <<queue, fcb, opened>>
     \/ /\ ~printing /\ queue > 0
        /\ fcb' = slot[queue] /\ queue' = queue - 1
        /\ opened' = Append(opened, slot[queue]) /\ Goto("open")
  /\ UNCHANGED <<slot, pos, printing, drive, curDn, program, printed, spooled,
                 nested>>

\* DOS_OPEN_EX.  A file that is not there is forgotten.
Open ==
  /\ Handler("open") /\ Goto("EXIT")
  /\ IF fcb \in Missing THEN UNCHANGED <<pos, printing>>
                        ELSE pos' = 0 /\ printing' = TRUE
  /\ drive' = Drive[fcb]
  /\ UNCHANGED <<slot, queue, fcb, curDn, program, history, nested>>

\* Mutant: a file is closed when the printer is busy.
PRT_LOOP_Drop ==
  /\ Handler("PRT_LOOP")
  /\ \/ Goto("call") /\ printing' = printing
     \/ Goto("EXIT") /\ printing' = FALSE
  /\ UNCHANGED <<slot, queue, fcb, pos, drive, curDn, program, history, nested>>

\* PRT_LOOP and GETFIL: a byte is read if the printer is ready.  ROM@GET is in
\* ROM, before and after it calls DOS.
PRT_LOOP ==
  /\ Handler("PRT_LOOP") /\ (Goto("call") \/ Goto("EXIT"))
  /\ UNCHANGED <<slot, queue, fcb, pos, printing, drive, curDn, program,
                 history, nested>>

CallGet ==
  /\ Handler("call") /\ Goto("get")
  /\ UNCHANGED <<slot, queue, fcb, pos, printing, drive, curDn, program,
                 history, nested>>

\* Mutant: the byte stays the next one to be read.
Get_Stays ==
  /\ Handler("get")
  /\ handlers' = [handlers EXCEPT ![Len(handlers)] =
                    [at |-> "return",
                     byte |-> IF pos < Size[fcb] THEN <<fcb, pos + 1>> ELSE FF]]
  /\ pos' \in {pos, pos + 1} /\ pos' <= Size[fcb]
  /\ drive' = Drive[fcb]
  /\ UNCHANGED <<slot, queue, fcb, printing, curDn, program, history, nested>>

Get ==
  /\ Handler("get")
  /\ handlers' = [handlers EXCEPT ![Len(handlers)] =
                    [at |-> "return",
                     byte |-> IF pos < Size[fcb] THEN <<fcb, pos + 1>> ELSE FF]]
  /\ pos' = IF pos < Size[fcb] THEN pos + 1 ELSE pos
  /\ drive' = Drive[fcb]
  /\ UNCHANGED <<slot, queue, fcb, printing, curDn, program, history, nested>>

\* The byte read is printed, or at END_FILE a form feed.
SendByte ==
  /\ Handler("return")
  /\ LET b == Last(handlers).byte IN
       /\ printed' = Append(printed, b)
       /\ IF b = FF THEN printing' = FALSE /\ Goto("EXIT")
                    ELSE printing' = printing /\ Goto("PRT_LOOP")
  /\ UNCHANGED <<slot, queue, fcb, pos, drive, curDn, program, spooled, opened,
                 nested>>

\* Mutant: the drive is not selected again.
EXIT_Drive ==
  /\ Handler("EXIT") /\ handlers' = Front(handlers)
  /\ UNCHANGED <<slot, queue, fcb, pos, printing, drive, curDn, program, history,
                 nested>>

\* EXIT: the drive that was selected is selected again (445BH).
EXIT ==
  /\ Handler("EXIT") /\ handlers' = Front(handlers)
  /\ drive' = curDn
  /\ UNCHANGED <<slot, queue, fcb, pos, printing, curDn, program, history,
                 nested>>

-----------------------------------------------------------------------------
Handle == EXECUTE \/ Open \/ PRT_LOOP \/ CallGet \/ Get \/ SendByte \/ EXIT

Next == Work \/ START \/ SPOOL_LOOP \/ SPOOL_DONE \/ SPOOLER \/ Handle

Spec == Init /\ [][Next]_vars

\* The clock ticks forever, and now and then finds the program outside DOS; the
\* printer is ready again and again.
FairSpec ==
  /\ Spec /\ WF_vars(SPOOL_LOOP \/ SPOOL_DONE) /\ WF_vars(Handle)
  /\ WF_vars(Work /\ at' = "user") /\ SF_vars(SPOOLER /\ handlers = <<>>)
  /\ SF_vars(PRT_LOOP /\ Last(handlers').at = "call")

-----------------------------------------------------------------------------
TypeOK ==
  /\ slot \in [1 .. MaxQueue -> Files \cup {None}] /\ queue \in 0 .. MaxQueue
  /\ fcb \in Files \cup {None} /\ pos \in Nat /\ printing \in BOOLEAN
  /\ {drive, curDn, fgDrive} \subseteq Drives
  /\ handlers \in Seq([at : Labels, byte : {FF} \cup (Files \X Nat)])
  /\ at \in {"user", "dos", "rom", "spool"} /\ args \in Seq(Files)
  /\ {spooled, opened} \subseteq Seq(Files) /\ nested \in BOOLEAN

\* DOS is never entered while a call of it is in progress: neither the program's
\* nor that of a handler that was interrupted (the test of the old PC).
DosNotReentered ==
  LET inDos == {i \in DOMAIN handlers : AreaOf(handlers[i].at) = "dos"} IN
    Cardinality(inDos) + (IF at = "dos" THEN 1 ELSE 0) <= 1

\* Files are taken in the order they were queued, none twice and none lost.
FilesInOrder ==
  spooled = opened \o [i \in 1 .. queue |-> slot[queue + 1 - i]]

\* What the printer should receive: byte i of the n-th file taken, for every
\* file but those not found; behind the last byte comes a form feed.
Due == UNION {{n} \X (1 .. Size[opened[n]] + 1) :
                n \in {m \in DOMAIN opened : opened[m] \notin Missing}}
ByteOf(d) == IF d[2] <= Size[opened[d[1]]] THEN <<opened[d[1]], d[2]>> ELSE FF

\* What is due up to byte i of the n-th file.
Upto(n, i) == {d \in Due : d[1] < n \/ (d[1] = n /\ d[2] <= i)}

\* However often the handler interrupts itself, no byte is printed more often
\* than its file was taken from the queue.
NoByteTwice ==
  \A b \in Range(printed) \ {FF} :
    Cardinality({i \in DOMAIN printed : printed[i] = b})
      <= Cardinality({i \in DOMAIN opened : opened[i] = b[1]})

\* When the handler does not interrupt itself, the printer receives what it
\* should, in order, and nothing is left over when a file has been closed.
InOrderUnlessNested ==
  ~nested =>
    /\ \A k \in DOMAIN printed : \E d \in Due :
         k = Cardinality(Upto(d[1], d[2])) /\ printed[k] = ByteOf(d)
    /\ handlers = <<>> /\ ~printing => Len(printed) = Cardinality(Due)

\* A program finds the drive it had selected (CUR_DN).
DriveKept == handlers = <<>> /\ ~nested => drive = fgDrive

\* Every file queued is taken from the queue, and the printer comes to rest.
AllPrinted == <>[](queue = 0 /\ ~printing)

\* The printer receives each file once and, unless the handler interrupted itself, in
\* order, and the interrupted program notices nothing (PRT_LOOP, EXIT).
PrintedRight == NoByteTwice /\ InOrderUnlessNested /\ DriveKept
=============================================================================
