------------------------------ MODULE Packdis -------------------------------
(***************************************************************************)
(* packdis: the packets that arrived are filed in the message bases.       *)
(* Echomail goes to msgtxt, and a copy to loctxt when it is addressed to a *)
(* user of Zeta; netmail goes to loctxt, for a user or in transit.  A      *)
(* packet is filed as a whole: the bitmaps and tops are written when all   *)
(* its messages are, and read again when one of them cannot be.            *)
(***************************************************************************)
EXTENDS MsgBase

CONSTANTS
  \* the packets: sequences of records whose field what is "letter" (with the
  \* letter in the field of), "empty" (a message without text), or "bad" (the
  \* packet is damaged or truncated here)
  Content

ASSUME PackdisAssumption ==
  \A p \in DOMAIN Content :
    Content[p] \in Seq([what : {"letter"}, of : Letters] \cup [what : {"empty", "bad"}])

VARIABLES
  there,    \* the files, packets and archives, that exist
  lines     \* the file PACKETS: records with the fields st and name

packFiles == <<there, lines>>

Line == lines[job.line]

\* proc_pkt of the next line of the batch file, or of the archive in it.
StartPackdis(r) ==
  /\ pc = "idle"
  /\ pc' = "line"
  /\ job' = [prog |-> "packdis", line |-> 1, groupOk |-> TRUE, rFlag |-> r,
             item |-> 0, rc |-> 0, base |-> "loc"]
  /\ ReadInfo
  /\ UNCHANGED <<histVars, disk, w, bundle, faults, there, lines>>

\* Mutant: an archive is removed whatever became of its packets.
ProcLine_AnyGroup ==
  /\ pc = "line" /\ job.line <= Len(lines) /\ Line.st \notin {" "}
  /\ there' = IF Line.st = "A" THEN there \ {Line.name} ELSE there
  /\ lines' = IF Line.st = "A" THEN [lines EXCEPT ![job.line].st = "R"]
              ELSE lines
  /\ job' = [job EXCEPT !.line = @ + 1]
  /\ UNCHANGED <<histVars, baseVars, pc>>

\* proc_batch, a line that is not a packet to be processed.  The archive of a
\* group is removed when no packet of the group was left.
ProcLine ==
  /\ pc = "line" /\ job.line <= Len(lines) /\ Line.st # " "
  /\ LET remove == Line.st = "A" /\ job.groupOk IN
       /\ there' = IF remove THEN there \ {Line.name} ELSE there
       /\ lines' = IF remove THEN [lines EXCEPT ![job.line].st = "R"]
                   ELSE lines
       /\ job' = [job EXCEPT
                    !.line = @ + 1,
                    !.groupOk = CASE Line.st = "A" -> IF @ THEN @ ELSE TRUE
                                  [] Line.st = "R" -> TRUE
                                  [] Line.st = "E" -> FALSE
                                  [] OTHER -> @]
  /\ UNCHANGED <<histVars, baseVars, pc>>

\* A packet that cannot be opened stays as it is.
OpenFails ==
  /\ pc = "line" /\ job.line <= Len(lines) /\ Line.st = " "
  /\ Line.name \notin there
  /\ job' = [job EXCEPT !.line = @ + 1, !.groupOk = FALSE]
  /\ UNCHANGED <<histVars, baseVars, packFiles, pc>>

OpenPacket ==
  /\ pc = "line" /\ job.line <= Len(lines) /\ Line.st = " "
  /\ Line.name \in there
  /\ pc' = "item" /\ job' = [job EXCEPT !.item = 1, !.rc = 0]
  /\ UNCHANGED <<histVars, baseVars, packFiles>>

EndBatch ==
  /\ pc = "line" /\ job.line > Len(lines)
  /\ pc' = "exit"
  /\ UNCHANGED <<histVars, baseVars, packFiles, job>>

-----------------------------------------------------------------------------
(* One packet.                                                             *)

Items == Content[Line.name]
Item == Items[job.item]
IsLetter(i) == i.what = "letter"

\* read_every: a message for another node is netmail whatever is in it.  The
\* name in the To field is looked up only in the messages for this node.
ForUser(l) == l.ours /\ l.to = "user"
WantsMsg(l) == l.ours /\ l.area # "net"
WantsLoc(l) == ~WantsMsg(l) \/ ForUser(l)

LocFlags(l) == {"NEW", IF ForUser(l) THEN "INCOMING" ELSE "INTRANSIT"}

\* Mutant: echomail is filed like a message that a user entered.
MsgFlags_New == {"NEW"}

MsgFlags == {}

Letter(l) == [kind |-> "letter", of |-> l]

\* Mutant: a packet that was backed out is marked as processed.
Back_Marked(rc) ==
  /\ ReadInfo
  /\ lines' = [lines EXCEPT ![job.line].st = IF rc = 2 THEN "E" ELSE "-"]
  /\ pc' = IF rc > 2 THEN "exit" ELSE "line"
  /\ job' = [job EXCEPT !.line = @ + 1, !.groupOk = FALSE, !.rc = rc]

\* proc_pkt returns rc: the changes are backed out, and proc_batch goes on to
\* the next line or, after a fatal error, ends.  A 0 is only returned after the
\* commit.
Back(rc) ==
  /\ ReadInfo
  /\ lines' = IF rc = 2 THEN [lines EXCEPT ![job.line].st = "E"] ELSE lines
  /\ pc' = IF rc > 2 THEN "exit" ELSE "line"
  /\ job' = [job EXCEPT !.line = @ + 1, !.groupOk = FALSE, !.rc = rc]

\* read_pkthdr, read_msghdr or read_every fails, or the message is empty.
NextItem ==
  /\ pc = "item" /\ job.item <= Len(Items) /\ ~IsLetter(Item)
  /\ IF Item.what = "bad" THEN Back(2)
     ELSE /\ job' = [job EXCEPT !.item = @ + 1]
          /\ UNCHANGED <<mem, lines, pc>>
  /\ UNCHANGED <<histVars, disk, w, bundle, faults, there>>

\* write_msg or write_loc finds the first sector.
ClaimFirst(b) ==
  /\ IF Full(b) THEN Back(1) /\ UNCHANGED w
     ELSE /\ Claim(b, Letter(Item.of))
          /\ pc' = "put" /\ UNCHANGED <<job, lines>>
  /\ UNCHANGED <<histVars, disk, bundle, faults, there>>

WriteMsg == pc = "item" /\ job.item <= Len(Items) /\ IsLetter(Item)
            /\ ClaimFirst(IF WantsMsg(Item.of) THEN "msg" ELSE "loc")
WriteLoc == pc = "loc" /\ ClaimFirst("loc")

\* writemd, msg_cpy, writeld and loc_cpy.
PackPut ==
  /\ pc = "put" /\ job.prog = "packdis"
  /\ \/ PutLink /\ UNCHANGED <<faults, pc, job, lines>>
     \/ Flush /\ pc' = "hdr" /\ UNCHANGED <<faults, mem, w, job, lines>>
     \/ PutFails /\ Back(1) /\ UNCHANGED <<disk, w>>
     \/ /\ w.part = Size(w.text) /\ WriteFault
        /\ Back(IF w.base = "loc" THEN 3 ELSE 2) /\ UNCHANGED <<disk, w>>
  /\ UNCHANGED <<histVars, bundle, there>>

\* writeh, and on to write_loc or to the next message of the packet.
PackHeader ==
  /\ pc = "hdr" /\ job.prog = "packdis"
  /\ \/ /\ PutHeader(w.base,
             [flags |-> IF w.base = "loc" THEN LocFlags(Item.of) ELSE MsgFlags,
              first |-> w.first, text |-> w.text])
        /\ IF w.base = "msg" /\ WantsLoc(Item.of)
           THEN pc' = "loc" /\ UNCHANGED job
           ELSE pc' = "item" /\ job' = [job EXCEPT !.item = @ + 1]
        /\ UNCHANGED <<faults, lines>>
     \/ WriteFault /\ Back(3) /\ UNCHANGED disk
  /\ UNCHANGED <<histVars, w, bundle, there>>

-----------------------------------------------------------------------------
(* The commit: bitmap and top of loctxt, then of msgtxt.                   *)

EndPacket ==
  /\ pc = "item" /\ job.item > Len(Items)
  /\ pc' = "free" /\ job' = [job EXCEPT !.base = "loc"]
  /\ UNCHANGED <<histVars, baseVars, packFiles>>

\* Mutant: the top is written before the bitmap.
Commit_TopFirst ==
  /\ pc \in {"free", "top"} /\ job.prog = "packdis"
  /\ IF pc = "free" THEN WriteTop(job.base) ELSE WriteFree(job.base)
  /\ job' = [job EXCEPT !.base = IF pc = "top" THEN "msg" ELSE @]
  /\ pc' = CASE pc = "free" -> "top"
             [] OTHER -> IF job.base = "loc" THEN "free" ELSE "done"
  /\ UNCHANGED <<histVars, mem, w, bundle, faults, packFiles>>

\* writefree, then write_top even if writefree failed.  If one of them failed
\* for loctxt, msgtxt is not written at all, and packdis ends.
Commit ==
  /\ pc \in {"free", "top"} /\ job.prog = "packdis"
  /\ \E rc \in {job.rc, 3} :
       /\ \/ /\ rc = job.rc /\ UNCHANGED <<faults, unmapped>>
             /\ IF pc = "free" THEN WriteFree(job.base) ELSE WriteTop(job.base)
          \/ rc = 3 /\ WriteFault /\ MapLost /\ UNCHANGED disk
       /\ job' = [job EXCEPT !.rc = rc,
                             !.base = IF pc = "top" THEN "msg" ELSE @]
       /\ pc' = CASE pc = "free" -> "top"
                  [] pc = "top" /\ rc = 3 -> "exit"
                  [] OTHER -> IF job.base = "loc" THEN "free" ELSE "done"
  /\ UNCHANGED <<leaked, uncopied, mem, w, bundle, packFiles>>

\* With -r the packet is removed.
Unlink ==
  /\ pc = "done"
  /\ there' = IF job.rFlag THEN there \ {Line.name} ELSE there
  /\ pc' = "status"
  /\ UNCHANGED <<histVars, baseVars, lines, job>>

\* proc_batch: the line is marked as processed.
Status ==
  /\ pc = "status"
  /\ lines' = [lines EXCEPT ![job.line].st = "-"]
  /\ pc' = "line" /\ job' = [job EXCEPT !.line = @ + 1]
  /\ UNCHANGED <<histVars, baseVars, there>>

PackdisStep ==
  \/ ProcLine \/ OpenFails \/ OpenPacket \/ EndBatch
  \/ NextItem \/ WriteMsg \/ WriteLoc \/ PackPut \/ PackHeader
  \/ EndPacket \/ Commit \/ Unlink \/ Status
=============================================================================
