------------------------------ MODULE Swapper -------------------------------
(***************************************************************************)
(* zeta-bbs/internal/swapper/swapper.asm: one program at a time occupies   *)
(* the address space; CALL_PROG copies it, with its registers, into pages  *)
(* of the 256K memory, loads another program over it, and TERMINATE copies *)
(* it back.  OVERLAY does the same but forgets the caller once the new     *)
(* program is loaded.  The pages are those of high-memory/special.asm.     *)
(*                                                                         *)
(* Memory is counted in pages.  A page of a program's memory is named by   *)
(* the program, the version of its contents (a program that runs changes   *)
(* them) and the position of the page; the saved registers and the         *)
(* program block are part of the first page.                               *)
(***************************************************************************)
EXTENDS Naturals, FiniteSets, FiniteSetsExt

CONSTANTS
  Programs,    \* the executable files
  Answer,      \* the program START calls
  Exitsys,     \* the program FELL_OFF_END calls
  Size,        \* Size[p]: pages that p and its saved registers fill
  HasDiscon,   \* programs whose load information has a DISCON vector
  NPages,      \* pages that may be allocated (208), special.asm:443
  Resident,    \* pages ptrlog and restore took before the swapper started
  NumResident, \* their program number (81H), prognumb.asm:5
  MaxDepth,    \* bound: programs call each other only this deep
  Versions,    \* contents a program's memory may have
  Loaded,      \* the contents it has when just loaded
  StartErrors, \* Answer or Exitsys may fail to load, too
  DropSignals  \* programs may be lost to a disconnect

ASSUME SwapperAssumption ==
  /\ IsFiniteSet(Programs) /\ Answer \in Programs /\ Exitsys \in Programs
  /\ Answer # Exitsys
  /\ Size \in [Programs -> Nat \ {0}]
  /\ HasDiscon \subseteq Programs
  /\ NPages \in Nat /\ Resident \subseteq 1 .. NPages
  /\ NumResident \in Nat /\ MaxDepth \in Nat \ {0} /\ MaxDepth < NumResident
  /\ Loaded \in Versions /\ Loaded # "none"
  /\ StartErrors \in BOOLEAN /\ DropSignals \in BOOLEAN

Pages    == 1 .. NPages
RamPages == 1 .. Max({Size[p] : p \in Programs})

VARIABLES
  process,   \* PROCESS, the number of the executing program; 0: none
  owner,     \* MEM_OWNER: 0 for a free page
  page,      \* what the pages hold
  ram,       \* what the program area holds, in pages
  cur,       \* the program PROG_START and PROG_END describe
  pc,        \* where the swapper is; "run": a program executes
  new,       \* the program named by NEW_CMD
  isCall,    \* IS_CALL
  k,         \* pages copied or loaded so far; 0 while a program executes
  pagenum,   \* PAGENUM, where FIND_PAGE looks next
  temp,      \* the page seen at TEMP_RAM; 0: the one that belongs there
  oldPage,   \* OLDPAGE
  reply,     \* A_REGISTER and the zero flag, as the caller sees them
  discon     \* CDS_DISCON of CD_STAT

vars == <<process, owner, page, ram, cur, pc, new, isCall, k, pagenum, temp,
          oldPage, reply, discon>>

Chunk(p, v, i) == [prog |-> p, ver |-> v, pos |-> i]
Blank == [prog |-> Answer, ver |-> "none", pos |-> 0]
Chunks == {Blank} \cup [prog : Programs, ver : Versions, pos : RamPages]
PcStates == {"run", "signal", "save", "open", "load", "restore",
             "halt", "error2", "error4", "wild"}
Replies == {"ok", "read", "open", "memory"}

Init ==
  /\ process = 0
  /\ owner = [g \in Pages |-> IF g \in Resident THEN NumResident ELSE 0]
  /\ page = [g \in Pages |-> Blank]
  /\ ram = [i \in RamPages |-> Blank]
  /\ cur = Answer /\ pc = "open" /\ new = Answer /\ isCall = TRUE
  /\ k = 0 /\ pagenum = 1 /\ temp = 0 /\ oldPage = 0
  /\ reply = "ok" /\ discon = FALSE

-----------------------------------------------------------------------------
(* The page allocator (special.asm) and its users.                         *)

Free == {g \in Pages : owner[g] = 0}

\* Mutant: the page count is compared with one page too many.
Enough_OffByOne == Size[cur] <= Cardinality(Free) + 1

\* COUNT_UNUSED against the pages required, before anything is allocated.
Enough == Size[cur] <= Cardinality(Free)

\* Mutant: the search runs from the end of the table.
Allocated_Last == Max(Free)

\* ALLOC_PAGE takes the first free page.
Allocated == Min(Free)

\* Mutant: every page that is not free is freed.
Freed_All(n) == [g \in Pages |-> 0]

\* FREE_ALL
Freed(n) == [g \in Pages |-> IF owner[g] = n THEN 0 ELSE owner[g]]

\* FIND_PAGE: the next page of the process, from PAGENUM on.
Found == {g \in Pages : g >= pagenum /\ owner[g] = process}

-----------------------------------------------------------------------------
(* Programs call the swapper.                                              *)

\* A program that executes changes its memory.
Work(v) ==
  /\ pc = "run"
  /\ ram' = [i \in RamPages |-> IF i <= Size[cur] THEN Chunk(cur, v, i)
                                ELSE ram[i]]
  /\ UNCHANGED <<process, owner, page, cur, pc, new, isCall, k, pagenum, temp,
                 oldPage, reply, discon>>

\* _CALL_PROG and _OVERLAY, down to PUSH_PROG's test of PROCESS and the test of
\* memory in SAVE_MEMORY.  SAVE_MEMORY has pushed the program's length and
\* returns through it when there is not enough memory.  Exitsys overlays Answer,
\* once, and is called by FELL_OFF_END only.
PUSH_PROG(p, call) ==
  /\ pc = "run"
  /\ p # Exitsys /\ (p = Answer => cur = Exitsys /\ ~call)
  /\ cur = Exitsys => p = Answer /\ reply = "ok"
  /\ call => process < MaxDepth
  /\ new' = p /\ isCall' = call /\ k' = 0
  /\ pc' = IF process = 0 THEN "open" ELSE IF Enough THEN "save" ELSE "wild"
  /\ UNCHANGED <<process, owner, page, ram, cur, pagenum, temp, oldPage, reply,
                 discon>>

\* Mutant: OLDPAGE is set for every page.
SM_02_OldPage ==
  /\ pc = "save" /\ k < Size[cur]
  /\ owner' = [owner EXCEPT ![Allocated] = process]
  /\ page' = [page EXCEPT ![Allocated] = ram[k + 1]]
  /\ temp' = Allocated /\ oldPage' = temp
  /\ k' = k + 1
  /\ UNCHANGED <<process, ram, cur, pc, new, isCall, pagenum, reply, discon>>

\* SM_01 and SM_02: one more page is allocated, mapped and filled.  Without a
\* page the swapper loops at ERROR_2.
SM_02 ==
  /\ pc = "save" /\ k < Size[cur]
  /\ IF Free = {}
     THEN pc' = "error2" /\ UNCHANGED <<owner, page, temp, oldPage, k>>
     ELSE /\ owner' = [owner EXCEPT ![Allocated] = process]
          /\ page' = [page EXCEPT ![Allocated] = ram[k + 1]]
          /\ temp' = Allocated
          /\ oldPage' = IF k = 0 THEN temp ELSE oldPage
          /\ k' = k + 1 /\ pc' = pc
  /\ UNCHANGED <<process, ram, cur, new, isCall, pagenum, reply, discon>>

SM_END ==
  /\ pc = "save" /\ k = Size[cur]
  /\ temp' = oldPage
  /\ pc' = "open" /\ k' = 0
  /\ UNCHANGED <<process, owner, page, ram, cur, new, isCall, pagenum, oldPage,
                 reply, discon>>

-----------------------------------------------------------------------------
(* Loading.                                                                *)

\* The command file is there, and executable.
CMD_3A ==
  /\ pc = "open"
  /\ pc' = "load" /\ k' = 0
  /\ UNCHANGED <<process, owner, page, ram, cur, new, isCall, pagenum, temp,
                 oldPage, reply, discon>>

\* It is not: the caller's memory is still in place, its copy is not needed.
\* START and FELL_OFF_END loop forever.
ERROR_3 ==
  /\ pc = "open" /\ (process = 0 => StartErrors)
  /\ owner' = Freed(process) /\ reply' = "open"
  /\ pc' = IF process = 0 THEN "halt" ELSE "run"
  /\ UNCHANGED <<process, page, ram, cur, new, isCall, k, pagenum, temp,
                 oldPage, discon>>

\* Mutant: the transfer record that ends the file is not looked for.
CMD_6_NoEnd ==
  /\ pc = "load"
  /\ ram' = [ram EXCEPT ![k + 1] = Chunk(new, Loaded, k + 1)]
  /\ k' = k + 1 /\ cur' = new
  /\ UNCHANGED <<process, owner, page, pc, new, isCall, pagenum, temp, oldPage,
                 reply, discon>>

\* CMD_6: the file is read over the program area.  Its load information sets
\* PROG_START and PROG_END.
CMD_6 ==
  /\ pc = "load" /\ k < Size[new]
  /\ ram' = [ram EXCEPT ![k + 1] = Chunk(new, Loaded, k + 1)]
  /\ k' = k + 1 /\ cur' = new
  /\ UNCHANGED <<process, owner, page, pc, new, isCall, pagenum, temp, oldPage,
                 reply, discon>>

\* A read error, or a record that is not one of a command file: the caller's
\* memory must come back from its pages.
ERROR_1 ==
  /\ pc = "load" /\ (process = 0 => StartErrors)
  /\ reply' = "read"
  /\ pc' = "restore" /\ k' = 0 /\ pagenum' = 1
  /\ UNCHANGED <<process, owner, page, ram, cur, new, isCall, temp, oldPage,
                 discon>>

\* Mutant: an overlaid program keeps its pages.
CMD_LOADED_NoZap ==
  /\ pc = "load" /\ k = Size[new]
  /\ process' = IF isCall THEN process + 1 ELSE process
  /\ pc' = "run" /\ k' = 0
  /\ UNCHANGED <<owner, page, ram, cur, new, isCall, pagenum, temp, oldPage,
                 reply, discon>>

\* ZAP_OVERLAY or the next process number, then the new program executes.
CMD_LOADED ==
  /\ pc = "load" /\ k = Size[new]
  /\ owner' = IF isCall THEN owner ELSE Freed(process)
  /\ process' = IF isCall THEN process + 1 ELSE process
  /\ pc' = "run" /\ k' = 0
  /\ UNCHANGED <<page, ram, cur, new, isCall, pagenum, temp, oldPage, reply,
                 discon>>

-----------------------------------------------------------------------------
(* Returning.                                                              *)

\* TERM_PROG, from TERMINATE, TERM_ABORT and TERM_DISC (which reports a
\* disconnect).  FELL_OFF_END calls Exitsys.
TERM_PROG(d) ==
  /\ pc \in {"run", "signal"} /\ process > 0
  /\ process' = process - 1
  /\ discon' = (discon \/ d)
  /\ k' = 0
  /\ IF process = 1
     THEN /\ new' = Exitsys /\ isCall' = TRUE /\ pc' = "open"
          /\ reply' = "ok" /\ UNCHANGED pagenum
     ELSE /\ pc' = "restore" /\ pagenum' = 1 /\ reply' = "ok"
          /\ UNCHANGED <<new, isCall>>
  /\ UNCHANGED <<owner, page, ram, cur, temp, oldPage>>

\* RESTORE_MEM and RM_02: the next page of the process is copied back; the
\* first one tells how long the program is.  With process 0 that is a free page,
\* which may never have held a program.  Without a page the swapper loops at
\* ERROR_4.
RM_02 ==
  /\ pc = "restore" /\ (k > 0 => k < Size[cur])
  /\ IF Found = {}
     THEN pc' = "error4" /\ UNCHANGED <<ram, cur, k, pagenum, temp, oldPage>>
     ELSE LET g == Min(Found) IN
            /\ ram' = [ram EXCEPT ![k + 1] = page[g]]
            /\ cur' = IF k = 0 THEN page[g].prog ELSE cur
            /\ pc' = IF page[g] = Blank THEN "wild" ELSE "restore"
            /\ k' = k + 1 /\ pagenum' = g + 1
            /\ temp' = g /\ oldPage' = IF k = 0 THEN temp ELSE oldPage
  /\ UNCHANGED <<process, owner, page, new, isCall, reply, discon>>

\* Mutant: the disconnect is taken as delivered once one program was told.
RM_END_OneSignal ==
  /\ pc = "restore" /\ k > 0 /\ k = Size[cur]
  /\ temp' = oldPage
  /\ owner' = Freed(process)
  /\ pc' = "run" /\ discon' = FALSE
  /\ k' = 0 /\ pagenum' = 1
  /\ UNCHANGED <<process, page, ram, cur, new, isCall, oldPage, reply>>

\* RM_END, FREE_ALL, and the program executes again: at its DISCON vector if
\* the caller is gone, but never after an error.
RM_END ==
  /\ pc = "restore" /\ k > 0 /\ k = Size[cur]
  /\ temp' = oldPage
  /\ owner' = Freed(process)
  /\ k' = 0 /\ pagenum' = 1
  /\ pc' = IF reply = "ok" /\ discon /\ cur \in HasDiscon THEN "signal"
           ELSE "run"
  /\ UNCHANGED <<process, page, ram, cur, new, isCall, oldPage, reply, discon>>

-----------------------------------------------------------------------------
(* The telephone line.                                                     *)

\* carrier.asm (MODE_3) or USR_LOGOUT: the caller is gone.
LOST_CARRIER ==
  /\ DropSignals /\ ~discon
  /\ discon' = TRUE
  /\ UNCHANGED <<process, owner, page, ram, cur, pc, new, isCall, k, pagenum,
                 temp, oldPage, reply>>

\* Answer, started by Exitsys, is ready for the next caller.
ANS_01 ==
  /\ pc = "run" /\ cur = Answer /\ discon
  /\ discon' = FALSE
  /\ UNCHANGED <<process, owner, page, ram, cur, pc, new, isCall, k, pagenum,
                 temp, oldPage, reply>>

-----------------------------------------------------------------------------
Program ==
  \/ \E v \in Versions : Work(v)
  \/ \E p \in Programs, call \in BOOLEAN : PUSH_PROG(p, call)
  \/ \E d \in BOOLEAN : cur # Exitsys /\ (d => DropSignals) /\ TERM_PROG(d)
  \/ ANS_01

Swapping ==
  \/ SM_02 \/ SM_END
  \/ CMD_3A \/ ERROR_3 \/ CMD_6 \/ ERROR_1 \/ CMD_LOADED
  \/ RM_02 \/ RM_END

Next == Program \/ Swapping \/ LOST_CARRIER

Spec == Init /\ [][Next]_vars

\* The swapper's own code neither waits nor sleeps.  A program whose caller is
\* gone ends: at its DISCON vector, which the serial routines jump to when it
\* reads or writes the line again (devices.asm:681-722), or, without a vector,
\* because it is a batch program.  It may call other programs before.
Unwind ==
  /\ discon /\ cur # Exitsys /\ (cur = Answer => pc = "signal")
  /\ TERM_PROG(FALSE)

FairSpec == Spec /\ WF_vars(Swapping) /\ SF_vars(Unwind)

-----------------------------------------------------------------------------
TypeOK ==
  /\ process \in 0 .. MaxDepth
  /\ owner \in [Pages -> 0 .. MaxDepth \cup {NumResident}]
  /\ page \in [Pages -> Chunks] /\ ram \in [RamPages -> Chunks]
  /\ cur \in Programs /\ pc \in PcStates /\ new \in Programs
  /\ isCall \in BOOLEAN /\ k \in 0 .. Cardinality(RamPages)
  /\ pagenum \in 1 .. NPages + 1 /\ temp \in 0 .. NPages
  /\ oldPage \in 0 .. NPages /\ reply \in Replies /\ discon \in BOOLEAN

\* The stack of programs that pages, owners and the program area represent: the
\* pages of process n, in the order FIND_PAGE meets them, are n's memory.
Bad == [prog |-> Answer, ver |-> "none"]

Owned(n) == {g \in Pages : owner[g] = n}
First(n) == page[Min(Owned(n))]
Rank(g, S) == Cardinality({h \in S : h <= g})

Whole(n) ==
  /\ Owned(n) # {}
  /\ Cardinality(Owned(n)) = Size[First(n).prog]
  /\ \A g \in Owned(n) :
       page[g] = Chunk(First(n).prog, First(n).ver, Rank(g, Owned(n)))

InPlace == \A i \in 1 .. Size[cur] : ram[i] = Chunk(cur, ram[1].ver, i)

Saved(n) ==
  IF Whole(n) THEN [prog |-> First(n).prog, ver |-> First(n).ver] ELSE Bad

Running == IF InPlace THEN [prog |-> cur, ver |-> ram[1].ver] ELSE Bad

Stack ==
  [n \in 1 .. process |->
     IF n = process /\ pc \notin {"load", "restore"} THEN Running ELSE Saved(n)]

\* However programs call, replace and leave each other, and whatever fails on
\* the way, each of them finds its memory as it left it, and a call that fails
\* reports an error to an unchanged caller (swapper.asm as a whole).
PS == INSTANCE ProcStack WITH Boot <- Answer, Logoff <- Exitsys,
                              stack <- Stack

ImplementsStack == PS!Spec

\* While a program executes, only its callers own pages: no ending, overlay or
\* failed call leaks memory (FREE_ALL in every path back).
NoLeak ==
  pc \in {"run", "signal"} =>
    \A g \in Pages : owner[g] \in 0 .. process - 1 \cup {NumResident}

\* The pages ptrlog and restore allocated before are neither freed nor written
\* (ALLOC_PAGE, FREE_ALL).
ResidentKept ==
  \A g \in Resident : owner[g] = NumResident /\ page[g] = Blank

\* A program finds at TEMP_RAM the page that belongs there, however many pages
\* the swapper mapped in between (OLDPAGE, SM_END, RM_END).
TempHome == pc = "run" => temp = 0

\* The two fatal errors cannot happen: pages that were counted can be allocated,
\* and every program that must come back has all its pages (ERROR_2, ERROR_4).
NeverFatal == pc \notin {"error2", "error4"}

\* When the caller is gone every program in the stack ends, down to the point
\* where Exitsys logs the caller off (TERM_PROG, SEND_SIGNAL, FELL_OFF_END); unless a
\* call without enough memory has jumped to the length on the stack ("wild").
LoggedOff ==
  discon ~> (pc = "run" /\ process = 1 /\ cur \in {Exitsys, Answer}) \/ pc = "wild"

\* Memory is in order whenever a program executes, whatever calls, overlays, endings and
\* errors went before: every page has its owner, the program its pages, and nothing that
\* was counted on is missing (SAVE_MEMORY, RESTORE_MEM, FREE_ALL).
MemorySound == TypeOK /\ NeverFatal /\ NoLeak /\ ResidentKept /\ TempHome
=============================================================================
