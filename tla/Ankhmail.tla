------------------------------ MODULE Ankhmail ------------------------------
(***************************************************************************)
(* ankhmail: the files that arrived are processed by their kind.  A line   *)
(* of the file INFILES stands for each of them, with its status; the       *)
(* packets that come out of an archive are listed in the file PACKETS,     *)
(* followed by the archive, and given to packdis one by one (-p) or by one *)
(* run of packdis (-d).  Every change of a file is a step of its own.      *)
(***************************************************************************)
EXTENDS Integers, Sequences, FiniteSets, FiniteSetsExt

CONSTANTS
  Arrivals,        \* what may arrive: sequences of records with kind and name
  Queued,          \* the lines the operator put into the queue of news before
  Members,         \* the packets in each archive
  MaxUnarcErrors,  \* bound: how often unarc, or arcnext, fails
  MaxFailures,     \* bound: how often packdis fails and says so
  MaxQuiet,        \* bound: how often packdis fails and returns 0
  MaxAnkhCrashes   \* bound

Packets == UNION {{Members[a][i] : i \in DOMAIN Members[a]} : a \in DOMAIN Members}
Kinds == {"arc", "net", "news", "fnews", "ndiff", "other"}
AllNames == UNION {{s[i].name : i \in DOMAIN s} : s \in Arrivals \cup {Queued}}

\* A name stands for one file; its form tells archives, packets and the rest apart.
ASSUME AnkhAssumption ==
  /\ \A a \in DOMAIN Members : Members[a] \in Seq(Packets)
  /\ \A a, b \in DOMAIN Members : a # b =>
       \A i \in DOMAIN Members[a], j \in DOMAIN Members[b] : Members[a][i] # Members[b][j]
  /\ (AllNames \cup DOMAIN Members) \cap Packets = {}
  /\ Queued \in Seq([st : {"Q"}, kind : {"news", "fnews"}, name : AllNames])
  /\ Arrivals \subseteq Seq([kind : Kinds, name : AllNames])
  /\ \A i, j \in DOMAIN Queued : i # j => Queued[i].name # Queued[j].name
  /\ \A i \in DOMAIN Queued : Queued[i].name \notin DOMAIN Members
  /\ \A s \in Arrivals : \A i \in DOMAIN s :
       /\ s[i].kind = "arc" <=> s[i].name \in DOMAIN Members
       /\ \A j \in DOMAIN s : i # j => s[i].name # s[j].name
       /\ \A j \in DOMAIN Queued : s[i].name # Queued[j].name

VARIABLES
  arriving,  \* what still arrives
  mode,      \* the option given to ankhmail: "p" or "d"
  inf,       \* INFILES: records with st, kind and name
  packets,   \* PACKETS: records with st and name
  files,     \* the files that exist
  apc, at,   \* where ankhmail is: its step, and the line it has read
  member,    \* the next member of the archive
  groupOk,
  filed,     \* how often each packet was filed by packdis
  errs       \* counts of unarc, fail, quiet and crash

ankhVars == <<arriving, mode, inf, packets, files, apc, at, member, groupOk,
              filed, errs>>

Happens(e, max) == errs[e] < max /\ errs' = [errs EXCEPT ![e] = @ + 1]
Filable == Packets \cup
  UNION {{s[i].name : i \in {k \in DOMAIN s : s[k].kind = "net"}} : s \in Arrivals}

AnkhInit ==
  /\ arriving \in Arrivals /\ mode \in {"p", "d"}
  /\ inf = Queued /\ files = {Queued[i].name : i \in DOMAIN Queued}
  /\ packets = <<>>
  /\ apc = "idle" /\ at = 1 /\ member = 1 /\ groupOk = TRUE
  /\ filed = [p \in Filable |-> 0]
  /\ errs = [unarc |-> 0, fail |-> 0, quiet |-> 0, crash |-> 0]

\* A file is received, and a line for it is added.
Arrive ==
  /\ apc = "idle" /\ arriving # <<>>
  /\ inf' = Append(inf, [st |-> " ", kind |-> Head(arriving).kind,
                         name |-> Head(arriving).name])
  /\ files' = files \cup {Head(arriving).name}
  /\ arriving' = Tail(arriving)
  /\ UNCHANGED <<mode, packets, apc, at, member, groupOk, filed, errs>>

Ankhmail ==
  /\ apc = "idle"
  /\ apc' = "line" /\ at' = 1
  /\ UNCHANGED <<arriving, mode, inf, packets, files, member, groupOk, filed, errs>>

\* Power is lost.
AnkhCrash ==
  /\ apc # "idle" /\ Happens("crash", MaxAnkhCrashes)
  /\ apc' = "idle" /\ at' = 1 /\ member' = 1 /\ groupOk' = TRUE
  /\ UNCHANGED <<arriving, mode, inf, packets, files, filed>>

-----------------------------------------------------------------------------
(* INFILES: main and procfile.                                             *)

L == inf[at]

\* The line gets its status, and the next one is read.
Rewrite(s) == inf' = [inf EXCEPT ![at].st = s] /\ apc' = "line" /\ at' = at + 1
Skip == apc' = "line" /\ at' = at + 1 /\ UNCHANGED inf

\* Mutant: an archive that was unpacked in part is not tried again.
Settled_Partial(l) ==
  \/ l.st \in {".", "-", "P"}
  \/ l.kind = "arc" /\ l.st = "E"
  \/ l.kind \in {"net", "news", "fnews", "ndiff"} /\ l.st # " "
  \/ l.kind \in {"net", "fnews", "ndiff"} /\ l.name \notin files

\* What is not touched again: everything that was processed, a file that is
\* gone, news in the queue, and an archive in error.
Settled(l) ==
  \/ l.st \in {".", "-"}
  \/ l.kind = "arc" /\ l.st = "E"
  \/ l.kind \in {"net", "news", "fnews", "ndiff"} /\ l.st # " "
  \/ l.kind \in {"net", "fnews", "ndiff"} /\ l.name \notin files

ReadLine ==
  /\ apc = "line" /\ at <= Len(inf)
  /\ IF Settled(L) THEN Skip
     ELSE IF L.kind = "arc" /\ L.name \notin files THEN Rewrite(" ")
     ELSE IF L.kind = "other" THEN Rewrite("?")
     ELSE apc' = L.kind /\ UNCHANGED <<inf, at>>
  /\ member' = 1
  /\ UNCHANGED <<arriving, mode, packets, files, groupOk, filed, errs>>

\* fclose(inf), then procpac or packdis.
EndInfiles ==
  /\ apc = "line" /\ at > Len(inf)
  /\ apc' = "pac" /\ at' = 1 /\ groupOk' = TRUE
  /\ UNCHANGED <<arriving, mode, inf, packets, files, member, filed, errs>>

\* procarc: unarc writes the members.  4 is a full disk.
Unarc ==
  /\ apc = "arc"
  /\ \/ /\ files' = files \cup {Members[L.name][i] : i \in DOMAIN Members[L.name]}
        /\ apc' = "list" /\ UNCHANGED <<inf, at, errs>>
     \/ /\ Happens("unarc", MaxUnarcErrors)
        /\ \E s \in {"P", "E"} : Rewrite(s)
        /\ UNCHANGED files
  /\ UNCHANGED <<arriving, mode, packets, member, groupOk, filed>>

\* Mutant: the archive goes before its members.
ListMember_ArcFirst ==
  /\ apc = "list" /\ member <= Len(Members[L.name])
  /\ packets' =
       (IF member = 1 THEN Append(packets, [st |-> "A", name |-> L.name])
        ELSE packets) \o <<[st |-> " ", name |-> Members[L.name][member]]>>
  /\ member' = member + 1
  /\ UNCHANGED <<inf, at, apc, errs, arriving, mode, files, groupOk, filed>>

\* arcnext names the next member, for PACKETS; or the archive cannot be read.
ListMember ==
  /\ apc = "list" /\ member <= Len(Members[L.name])
  /\ \/ /\ packets' = Append(packets, [st |-> " ",
                                       name |-> Members[L.name][member]])
        /\ member' = member + 1 /\ UNCHANGED <<inf, at, apc, errs>>
     \/ /\ Happens("unarc", MaxUnarcErrors) /\ Rewrite("P")
        /\ UNCHANGED <<packets, member>>
  /\ UNCHANGED <<arriving, mode, files, groupOk, filed>>

\* The archive goes after its members.
ListArchive ==
  /\ apc = "list" /\ member > Len(Members[L.name])
  /\ packets' = Append(packets, [st |-> "A", name |-> L.name])
  /\ apc' = "listed"
  /\ UNCHANGED <<arriving, mode, inf, files, at, member, groupOk, filed, errs>>

\* Mutant: the line keeps its status.
MarkArchive_Skipped ==
  /\ apc = "listed" /\ Skip
  /\ UNCHANGED <<arriving, mode, packets, files, member, groupOk, filed, errs>>

MarkArchive ==
  /\ apc = "listed" /\ Rewrite(".")
  /\ UNCHANGED <<arriving, mode, packets, files, member, groupOk, filed, errs>>

\* Mutant: the newest file of the queue is removed.
Oldest_Last(kind) ==
  LET q == {i \in DOMAIN inf : inf[i].kind = kind /\ inf[i].st = "Q"} IN
    IF q = {} THEN 0 ELSE Max(q)

\* find: the first line with this kind of name and status Q.
Oldest(kind) ==
  LET q == {i \in DOMAIN inf : inf[i].kind = kind /\ inf[i].st = "Q"} IN
    IF q = {} THEN 0 ELSE Min(q)

\* procnews and procfnews: the oldest file of the queue is removed, and marked,
\* and the new one is in the queue.  fnews is unarced first.
RemoveOldest ==
  /\ apc \in {"news", "fnews"}
  /\ \/ /\ apc = "fnews" /\ Happens("unarc", MaxUnarcErrors)
        /\ Skip /\ UNCHANGED files
     \/ /\ IF Oldest(L.kind) = 0
           THEN apc' = "enqueue" /\ UNCHANGED files
           ELSE apc' = "unqueue" /\ files' = files \ {inf[Oldest(L.kind)].name}
        /\ UNCHANGED <<errs, inf, at>>
  /\ UNCHANGED <<arriving, mode, packets, member, groupOk, filed>>

\* Mutant: every file of the queue is marked.
MarkOldest_All ==
  /\ apc = "unqueue"
  /\ inf' = [i \in DOMAIN inf |->
              IF inf[i].kind = L.kind /\ inf[i].st = "Q"
              THEN [inf[i] EXCEPT !.st = "-"] ELSE inf[i]]
  /\ apc' = "enqueue"
  /\ UNCHANGED <<arriving, mode, packets, files, at, member, groupOk, filed, errs>>

MarkOldest ==
  /\ apc = "unqueue"
  /\ inf' = [inf EXCEPT ![Oldest(L.kind)].st = "-"]
  /\ apc' = "enqueue"
  /\ UNCHANGED <<arriving, mode, packets, files, at, member, groupOk, filed, errs>>

Enqueue ==
  /\ apc = "enqueue" /\ Rewrite("Q")
  /\ UNCHANGED <<arriving, mode, packets, files, member, groupOk, filed, errs>>

\* procndiff
RemoveNdiff ==
  /\ apc = "ndiff"
  /\ files' = files \ {L.name} /\ apc' = "gone"
  /\ UNCHANGED <<arriving, mode, inf, packets, at, member, groupOk, filed, errs>>

MarkGone ==
  /\ apc = "gone" /\ Rewrite("-")
  /\ UNCHANGED <<arriving, mode, packets, files, member, groupOk, filed, errs>>

-----------------------------------------------------------------------------
(* packdis -r file, as the caller sees it: the packet is filed and removed, *)
(* or it is not; the exit code is not 0 only when packdis cannot start.     *)

PackOne(p, good, bad) ==
  \/ /\ filed' = [filed EXCEPT ![p] = @ + 1] /\ files' = files \ {p}
     /\ good /\ UNCHANGED errs
  \/ Happens("quiet", MaxQuiet) /\ good /\ UNCHANGED <<filed, files>>
  \/ Happens("fail", MaxFailures) /\ bad /\ UNCHANGED <<filed, files>>

\* procnet.  An exit code of 0 is taken for a packet that was filed.
ProcNet ==
  /\ apc = "net"
  /\ PackOne(L.name, apc' = "ndiff" /\ UNCHANGED <<inf, at>>, Skip)
  /\ UNCHANGED <<arriving, mode, packets, member, groupOk>>

PL == packets[at]
NextPacket == at' = at + 1

\* do_pkt: the packet is not there.
OpenPkt ==
  /\ apc = "pac" /\ at <= Len(packets) /\ PL.st = " " /\ PL.name \notin files
  /\ groupOk' = FALSE /\ NextPacket
  /\ UNCHANGED <<arriving, mode, inf, packets, files, apc, member, filed, errs>>

\* Mutant: the exit code is not looked at.
DoPkt_AnyCode ==
  /\ apc = "pac" /\ mode = "p" /\ at <= Len(packets) /\ PL.st = " "
  /\ PL.name \in files
  /\ PackOne(PL.name, apc' = "unlink" /\ UNCHANGED <<at, groupOk>>,
             apc' = "unlink" /\ UNCHANGED <<at, groupOk>>)
  /\ UNCHANGED <<arriving, mode, inf, packets, member>>

\* do_pkt: packdis has it.
DoPkt ==
  /\ apc = "pac" /\ mode = "p" /\ at <= Len(packets) /\ PL.st = " "
  /\ PL.name \in files
  /\ PackOne(PL.name, apc' = "unlink" /\ UNCHANGED <<at, groupOk>>,
             apc' = "pac" /\ NextPacket /\ groupOk' = FALSE)
  /\ UNCHANGED <<arriving, mode, inf, packets, member>>

UnlinkPkt ==
  /\ apc = "unlink"
  /\ files' = files \ {PL.name} /\ apc' = "mark"
  /\ UNCHANGED <<arriving, mode, inf, packets, at, member, groupOk, filed, errs>>

MarkPkt ==
  /\ apc = "mark"
  /\ packets' = [packets EXCEPT ![at].st = "-"]
  /\ apc' = "pac" /\ NextPacket
  /\ UNCHANGED <<arriving, mode, inf, files, member, groupOk, filed, errs>>

\* packdis -pr: the packet is filed, or left, or marked as in error.
Batch ==
  /\ apc = "pac" /\ mode = "d" /\ at <= Len(packets) /\ PL.st = " "
  /\ PL.name \in files
  /\ \/ /\ filed' = [filed EXCEPT ![PL.name] = @ + 1]
        /\ files' = files \ {PL.name} /\ apc' = "mark"
        /\ UNCHANGED <<packets, at, groupOk, errs>>
     \/ /\ Happens("fail", MaxFailures)
        /\ \E s \in {" ", "E"} : packets' = [packets EXCEPT ![at].st = s]
        /\ groupOk' = FALSE /\ NextPacket
        /\ UNCHANGED <<apc, files, filed>>
  /\ UNCHANGED <<arriving, mode, inf, member>>

\* Mutant: the archive's line gets the status it has in INFILES.
ProcArchive_Dot ==
  /\ apc = "pac" /\ at <= Len(packets) /\ PL.st = "A"
  /\ files' = IF groupOk THEN files \ {PL.name} ELSE files
  /\ packets' = IF groupOk THEN [packets EXCEPT ![at].st = "."] ELSE packets
  /\ groupOk' = TRUE /\ NextPacket
  /\ UNCHANGED <<arriving, mode, inf, apc, member, filed, errs>>

\* The line of an archive.
ProcArchive ==
  /\ apc = "pac" /\ at <= Len(packets) /\ PL.st = "A"
  /\ files' = IF groupOk THEN files \ {PL.name} ELSE files
  /\ packets' = IF groupOk THEN [packets EXCEPT ![at].st = "R"] ELSE packets
  /\ groupOk' = TRUE /\ NextPacket
  /\ UNCHANGED <<arriving, mode, inf, apc, member, filed, errs>>

\* Lines that were processed.  Only packdis counts a packet in error against
\* its group.
PassLine ==
  /\ apc = "pac" /\ at <= Len(packets) /\ PL.st \in {"-", "E", "R"}
  /\ groupOk' = CASE mode = "d" /\ PL.st = "E" -> FALSE
                  [] mode = "d" /\ PL.st = "R" -> TRUE
                  [] OTHER -> groupOk
  /\ NextPacket
  /\ UNCHANGED <<arriving, mode, inf, packets, files, apc, member, filed, errs>>

EndPackets ==
  /\ apc = "pac" /\ at > Len(packets)
  /\ apc' = "idle" /\ at' = 1 /\ groupOk' = TRUE /\ member' = 1
  /\ UNCHANGED <<arriving, mode, inf, packets, files, filed, errs>>

AnkhStep ==
  \/ ReadLine \/ EndInfiles \/ Unarc \/ ListMember \/ ListArchive \/ MarkArchive
  \/ RemoveOldest \/ MarkOldest \/ Enqueue \/ RemoveNdiff \/ MarkGone
  \/ ProcNet \/ OpenPkt \/ DoPkt \/ UnlinkPkt \/ MarkPkt \/ Batch
  \/ ProcArchive \/ PassLine \/ EndPackets

AnkhNext == Arrive \/ Ankhmail \/ AnkhStep \/ AnkhCrash

AnkhSpec == AnkhInit /\ [][AnkhNext]_ankhVars

-----------------------------------------------------------------------------
AnkhTypeOK ==
  /\ \A i \in DOMAIN inf :
       inf[i].st \in {" ", ".", "-", "Q", "P", "E", "?"} /\ inf[i].kind \in Kinds
  /\ \A i \in DOMAIN packets : packets[i].st \in {" ", "-", "A", "R", "E"}
  /\ at \in 1 .. Max({Len(inf), Len(packets)}) + 1
  /\ groupOk \in BOOLEAN /\ member \in Nat

\* A packet that ankhmail or packdis has done with was filed
\* (ankhmai1.c:249-256 "If successful, remove bundle & set process flag").
RemovedIsFiled ==
  /\ \A i \in DOMAIN packets :
       packets[i].st = "-" => filed[packets[i].name] > 0
  /\ \A i \in DOMAIN inf :
       inf[i].kind = "net" /\ inf[i].st = "-" => filed[inf[i].name] > 0

\* An archive is removed only when all its packets were filed, even if ankhmail
\* was stopped while it listed them, or could list only some
\* (ankhmai1.c:230-236).
ArchiveHeld ==
  \A i \in DOMAIN inf :
    inf[i].kind = "arc" /\ inf[i].name \notin files =>
      \A k \in DOMAIN Members[inf[i].name] : filed[Members[inf[i].name][k]] > 0

\* The queue of news files is first in, first out, even across crashes: what is
\* behind the first file in it has not been removed (ankhmai1.c:25, 391-411).
\* A file that could not be unpacked in its turn is behind later ones.
QueueInOrder ==
  errs.unarc = 0 => \A i, j \in DOMAIN inf :
    /\ i < j /\ inf[i].kind = inf[j].kind /\ inf[i].kind \in {"news", "fnews"}
    /\ inf[i].st = "Q"
    => inf[j].st \in {"Q", " "}

\* A new file takes the place of one in the queue: never of two.
QueueKept ==
  [][errs.crash = 0 =>
       \A kind \in {"news", "fnews"} :
         LET Queue(f) == {i \in DOMAIN f : f[i].kind = kind /\ f[i].st = "Q"} IN
           Cardinality(Queue(inf)) - Cardinality(Queue(inf')) <=
             (IF at <= Len(inf) /\ inf[at].kind = kind /\ inf[at].st = " "
              THEN 1 ELSE 0)]_ankhVars

\* A packet is filed once, unless ankhmail is stopped or an archive is listed
\* in part and unpacked again.
FiledOnce ==
  errs.crash = 0 /\ errs.unarc = 0 => \A p \in Filable : filed[p] <= 1

\* What arrived is filed in the end, whatever failed before, unless unarc or
\* packdis found it in error and left it to the operator (ankhmai1.c:76-83).
FiledInTheEnd ==
  \A p \in Filable :
    (\E i \in DOMAIN inf : \/ inf[i].kind = "net" /\ inf[i].name = p
                          \/ /\ inf[i].kind = "arc"
                             /\ \E k \in DOMAIN Members[inf[i].name] :
                                  Members[inf[i].name][k] = p)
    ~> \/ filed[p] > 0
       \/ \E i \in DOMAIN inf : inf[i].kind = "arc" /\ inf[i].st = "E"
       \/ \E i \in DOMAIN packets : packets[i].st = "E" /\ packets[i].name = p

\* What arrived is neither removed before it was filed, nor filed twice, nor overtaken in
\* its queue, wherever a failure or a loss of power came (procarc, procpac, procnews).
FiledSafely == AnkhTypeOK /\ RemovedIsFiled /\ ArchiveHeld /\ QueueInOrder /\ FiledOnce
=============================================================================
