------------------------------ MODULE MsgBase -------------------------------
(***************************************************************************)
(* The two message bases of the BBS, loctxt (mail) and msgtxt (news and    *)
(* echomail), and the outgoing Fidonet bundles, as packdis, mailass and    *)
(* bbass read and write them: msgfunc.c, bunfunc.c, and the routines that  *)
(* the three programs have in common.                                      *)
(*                                                                         *)
(* A base is a text file whose sector 0 is a bitmap of the sectors in use, *)
(* a header file, and a top file with the number of messages.  A program   *)
(* reads bitmap and top when it starts, works on its copy of them, and     *)
(* writes them back.  Every disk write is a step of its own, so that the   *)
(* system may crash between any two of them.                               *)
(***************************************************************************)
EXTENDS Integers, Sequences, FiniteSets, FiniteSetsExt

CONSTANTS
  NumSectors,  \* the text sectors of a base, without the bitmap
  Letters,     \* records with the fields to, from, area, ours and size
  NoticeSize,  \* the sectors of a bounce notice
  MaxFaults    \* bound: disk writes that fail

ASSUME MsgBaseAssumption ==
  /\ NumSectors \in Nat \ {0}
  /\ NoticeSize \in Nat \ {0} /\ MaxFaults \in Nat
  /\ \A l \in Letters : l.size \in Nat \ {0}

VARIABLES
  disk,    \* per base: used (the bitmap), top, hdr and txt
  mem,     \* the running program's copy of the bitmaps and tops
  w,       \* the writer: newtxt, rec_first, write_rec
  bundle,  \* the messages in the bundles to the two links
  faults,  \* how many writes have failed
  pc, job, \* the running program, and its own variables
  leaked,  \* sectors were left that nothing will free
  uncopied,\* a message is marked whose copy could not be made
  unmapped \* a bitmap could not be written, but the top was

baseVars == <<disk, mem, w, bundle, faults>>
histVars == <<leaked, uncopied, unmapped>>

Sectors == 1 .. NumSectors
Bases == {"loc", "msg"}
Links == {"fido", "acs"}
Flags == {"INCOMING", "OUTGOING", "INTRANSIT", "NEW", "PROCESSED", "DELETED"}

\* What a message says: a letter, or a notice by Postmaster that it bounced,
\* to the sender or to Sysop.
Texts == [kind : {"letter", "notice", "sysop"}, of : Letters]
Size(t) == IF t.kind = "letter" THEN t.of.size ELSE NoticeSize

\* The From and To fields of a text (bouncedat for the notices).
From(t) == IF t.kind = "letter" THEN t.of.from ELSE "postmaster"
To(t) == CASE t.kind = "letter" -> t.of.to
           [] t.kind = "notice" -> t.of.from
           [] OTHER -> "sysop"

NoText == [kind |-> "none"]
Broken == [kind |-> "broken"]
Blank == [text |-> NoText, part |-> 0, next |-> 0]
Sector(t, k, s) == [text |-> t, part |-> k, next |-> s]
EmptyBase == [used |-> {}, top |-> 0, hdr |-> <<>>,
              txt |-> [s \in Sectors |-> Blank]]
NoWriter == [base |-> "loc", text |-> NoText, first |-> 0, rec |-> 0, part |-> 0]
NoJob == [prog |-> "none"]
NoMem == [used |-> [b \in Bases |-> {}], top |-> [b \in Bases |-> 0]]

\* The sectors linked from s, in order, then zeros.
Links_(b, s) ==
  LET c[k \in 0 .. Cardinality(Sectors)] ==
        IF k = 0 THEN s
        ELSE IF c[k - 1] = 0 THEN 0 ELSE disk[b].txt[c[k - 1]].next
  IN c
Chain(b, s) == {Links_(b, s)[k] : k \in 0 .. Cardinality(Sectors)} \ {0}

\* The message at header h can be read from the disk as it was written.
Readable(b, h) ==
  LET c == Links_(b, h.first) IN
    /\ \A k \in 1 .. Size(h.text) :
         c[k - 1] # 0 /\ disk[b].txt[c[k - 1]] = Sector(h.text, k, c[k])
    /\ c[Size(h.text)] = 0

Listed(b) == {disk[b].hdr[i] : i \in 1 .. disk[b].top}
Live(b) == {i \in 1 .. disk[b].top : "DELETED" \notin disk[b].hdr[i].flags}

-----------------------------------------------------------------------------
(* A write that fails, read_info, and the bitmap and top written back.     *)

WriteFault == faults < MaxFaults /\ faults' = faults + 1

ReadInfo == mem' = [used |-> [b \in Bases |-> disk[b].used],
                    top |-> [b \in Bases |-> disk[b].top]]

WriteFree(b) == disk' = [disk EXCEPT ![b].used = mem.used[b]]

\* Mutant: the number of the next message is written.
WriteTop_Next(b) == disk' = [disk EXCEPT ![b].top = mem.top[b] + 1]

WriteTop(b) == disk' = [disk EXCEPT ![b].top = mem.top[b]]

\* The history of a write that failed at the end of a program.
MapLost == unmapped' = (unmapped \/ pc \in {"free", "free2"})

\* The header goes behind the last message of the program's copy, and counts
\* only there.
PutHeader(b, h) ==
  LET n == mem.top[b] + 1
      old == disk[b].hdr
  IN /\ disk' = [disk EXCEPT ![b].hdr =
                   [i \in 1 .. (IF n > Len(old) THEN n ELSE Len(old)) |->
                      IF i = n THEN h ELSE old[i]]]
     /\ mem' = [mem EXCEPT !.top[b] = n]

SetFlag(b, i, flag) ==
  disk' = [disk EXCEPT ![b].hdr[i].flags = @ \cup {flag}]

-----------------------------------------------------------------------------
(* Text is written sector by sector.                                       *)

Full(b) == Sectors \subseteq mem.used[b]
Getfree(b) == Min(Sectors \ mem.used[b])

\* write_rec = rec_first = getfree(...)
Claim(b, t) ==
  /\ ~Full(b)
  /\ mem' = [mem EXCEPT !.used[b] = @ \cup {Getfree(b)}]
  /\ w' = [base |-> b, text |-> t, first |-> Getfree(b), rec |-> Getfree(b),
           part |-> 1]

\* putctxt and putstxt when the sector is full: the next one is allocated, and
\* this one is written with its number.
PutLink ==
  LET b == w.base IN
    /\ w.part < Size(w.text) /\ ~Full(b)
    /\ disk' = [disk EXCEPT ![b].txt[w.rec] =
                  Sector(w.text, w.part, Getfree(b))]
    /\ mem' = [mem EXCEPT !.used[b] = @ \cup {Getfree(b)}]
    /\ w' = [w EXCEPT !.rec = Getfree(b), !.part = @ + 1]

\* They fail: no sector is free, or the write failed and the new sector is
\* freed again (so the bitmap is as before).
NoRoom == w.part < Size(w.text) /\ Full(w.base)
PutFails ==
  \/ NoRoom /\ UNCHANGED faults
  \/ w.part < Size(w.text) /\ ~Full(w.base) /\ WriteFault

\* flushtxt: the last sector.
Flush ==
  /\ w.part = Size(w.text)
  /\ disk' = [disk EXCEPT ![w.base].txt[w.rec] = Sector(w.text, w.part, 0)]

\* recover(1): the sectors from rec_first to write_rec are freed, and the
\* bitmap is written.
Recover1 ==
  LET c == Links_(w.base, w.first)
      last == CHOOSE k \in DOMAIN c :
                c[k] = w.rec /\ \A j \in DOMAIN c : j < k => c[j] # w.rec
      kept == mem.used[w.base] \ {c[k] : k \in 0 .. last}
  IN /\ mem' = [mem EXCEPT !.used[w.base] = kept]
     /\ disk' = [disk EXCEPT ![w.base].used = kept]

-----------------------------------------------------------------------------
(* Bundles.  A message is written over the two zeros that end the bundle   *)
(* and followed by two new ones.  Broken is a place where only part of a *)
(* message was written, or where recover(2) put two zeros over its start:  *)
(* the reader of the bundle gets no further.                               *)

\* makemsg: the start of the message is written.
Append_(x) == bundle' = [bundle EXCEPT ![x] = Append(@, Broken)]

\* copydat, copymsg (and addtear): the rest of it.
Complete(x, t) ==
  bundle' = [bundle EXCEPT ![x] = [@ EXCEPT ![Len(@)] = t]]

\* What the link will find in the bundle.
Arriving(x) ==
  {bundle[x][i] : i \in {j \in DOMAIN bundle[x] :
                           \A k \in 1 .. j : bundle[x][k] # Broken}}

BaseInit ==
  /\ disk = [b \in Bases |-> EmptyBase]
  /\ mem = NoMem /\ w = NoWriter
  /\ bundle = [x \in Links |-> <<>>]
  /\ faults = 0 /\ pc = "idle" /\ job = NoJob
  /\ leaked = FALSE /\ uncopied = FALSE
  /\ unmapped = FALSE

\* A program ends, or is lost in a crash.
Gone == pc' = "idle" /\ job' = NoJob /\ mem' = NoMem /\ w' = NoWriter

\* closef and the end of main.
Exit ==
  /\ pc = "exit" /\ Gone
  /\ UNCHANGED <<disk, bundle, faults, histVars>>
=============================================================================
