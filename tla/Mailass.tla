------------------------------ MODULE Mailass -------------------------------
(***************************************************************************)
(* mailass: the outgoing and in-transit messages of loctxt are delivered:  *)
(* into the bundle for Fidonet or ACSnet, as a copy for a local user, or,  *)
(* when the To field makes no sense, as a notice to the sender or Sysop.   *)
(* The message is then marked as processed, and deleted.                   *)
(***************************************************************************)
EXTENDS MsgBase

Old == disk["loc"].hdr[job.this]

\* openf and init.
StartMailass ==
  /\ pc = "idle"
  /\ pc' = "scan" /\ job' = [prog |-> "mailass", this |-> 1, text |-> NoText]
  /\ ReadInfo
  /\ UNCHANGED <<disk, w, bundle, faults, histVars>>

\* Mutant: messages in transit are left to somebody else.
Ignorel_Transit(h) ==
  h.flags \cap {"PROCESSED", "DELETED"} # {} \/ "OUTGOING" \notin h.flags

Ignorel(h) ==
  \/ h.flags \cap {"PROCESSED", "DELETED"} # {}
  \/ h.flags \cap {"OUTGOING", "INTRANSIT"} = {}

\* The loop of main, down to parse: num_msg grows while it runs.
Scan ==
  /\ pc = "scan" /\ job.prog = "mailass"
  /\ LET todo == {i \in job.this .. mem.top["loc"] :
                    ~Ignorel(disk["loc"].hdr[i])}
     IN IF todo = {} THEN pc' = "free" /\ UNCHANGED job
        ELSE /\ pc' = "act"
             /\ job' = [job EXCEPT
                          !.this = Min(todo),
                          !.text = disk["loc"].txt[
                                     disk["loc"].hdr[Min(todo)].first].text]
  /\ UNCHANGED <<baseVars, histVars>>

\* parse: the kind of address in the To field.
ToType(t) == CASE To(t) = "fido" -> "TO_FIDO"
               [] To(t) = "acs" -> "TO_ACS"
               [] To(t) = "user" -> "TO_LOCAL"
               [] OTHER -> "TO_BOUNCE"
Bouncing == ToType(job.text) = "TO_BOUNCE"
ForLink == ToType(job.text) \in {"TO_FIDO", "TO_ACS"}

\* Mutant: a notice in transit is bounced like anybody's message.
Bounced_Loop(h, t) ==
  IF "OUTGOING" \in h.flags
  THEN [flags |-> {"INCOMING", "NEW"}, kind |-> "notice"]
  ELSE [flags |-> {"INTRANSIT"}, kind |-> "notice"]

\* pars_bounce: the sender is told, by an incoming message or one in transit.
\* What comes from or goes to Postmaster is left to Sysop.
Bounced(h, t) ==
  IF "OUTGOING" \in h.flags
  THEN [flags |-> {"INCOMING", "NEW"}, kind |-> "notice"]
  ELSE IF "postmaster" \notin {From(t), To(t)}
  THEN [flags |-> {"INTRANSIT"}, kind |-> "notice"]
  ELSE [flags |-> {"INCOMING", "NEW"}, kind |-> "sysop"]

\* bouncedat: a notice about the letter.
Notice == [kind |-> Bounced(Old, job.text).kind, of |-> job.text.of]

\* local and pars_bounce start a new message.  A full base ends the run.
LocalClaim ==
  /\ pc = "act" /\ job.prog = "mailass" /\ ToType(job.text) = "TO_LOCAL"
  /\ IF Full("loc") THEN pc' = "free" /\ UNCHANGED <<mem, w>>
     ELSE Claim("loc", job.text) /\ pc' = "put"
  /\ UNCHANGED <<disk, bundle, faults, job, histVars>>

BounceClaim ==
  /\ pc = "act" /\ job.prog = "mailass" /\ Bouncing
  /\ IF Full("loc") THEN pc' = "free" /\ UNCHANGED <<mem, w>>
     ELSE Claim("loc", Notice) /\ pc' = "put"
  /\ UNCHANGED <<disk, bundle, faults, job, histVars>>

\* writedat, localcpy and bouncecpy, as long as they get on.
MailPut ==
  /\ pc = "put" /\ job.prog = "mailass"
  /\ \/ PutLink /\ UNCHANGED pc
     \/ Flush /\ pc' = "hdr" /\ UNCHANGED <<mem, w>>
  /\ UNCHANGED <<faults, bundle, job, histVars>>

PutError == PutFails \/ (w.part = Size(w.text) /\ WriteFault)

\* localcpy fails: recover, and do_msg's error ends the run.
LocalPutFails ==
  /\ pc = "put" /\ job.prog = "mailass" /\ ~Bouncing
  /\ PutError /\ Recover1 /\ pc' = "free"
  /\ UNCHANGED <<w, bundle, job, histVars>>

\* bouncecpy fails: nobody frees the sectors.
BouncePutFails ==
  /\ pc = "put" /\ job.prog = "mailass" /\ Bouncing
  /\ PutError /\ leaked' = TRUE /\ pc' = "free"
  /\ UNCHANGED <<disk, mem, w, bundle, job, uncopied, unmapped>>

\* write_hdr
MailHeader ==
  /\ pc = "hdr" /\ job.prog = "mailass"
  /\ \/ /\ PutHeader("loc",
             [flags |-> IF Bouncing THEN Bounced(Old, job.text).flags
                        ELSE {"INCOMING", "NEW"},
              first |-> w.first, text |-> w.text])
        /\ pc' = "proc" /\ UNCHANGED <<faults, leaked>>
     \/ WriteFault /\ leaked' = TRUE /\ pc' = "free" /\ UNCHANGED <<disk, mem>>
  /\ UNCHANGED <<w, bundle, job, uncopied, unmapped>>

\* Mutant: the bundle is positioned at its end, behind the two zeros.
MailAppend_AtEnd ==
  /\ pc = "act" /\ job.prog = "mailass" /\ ForLink
  /\ bundle' = [bundle EXCEPT ![To(job.text)] = @ \o <<Broken, Broken>>]
  /\ pc' = "body"
  /\ UNCHANGED <<disk, mem, w, faults, job, histVars>>

\* fido and acsnet: makemsg.  If the write is seen to fail, recover(2) leaves
\* two zeros where the message was to start; they end the bundle as before only
\* if nothing was written.
MailAppend ==
  /\ pc = "act" /\ job.prog = "mailass" /\ ForLink
  /\ \/ Append_(To(job.text)) /\ pc' = "body" /\ UNCHANGED faults
     \/ WriteFault /\ pc' = "free" /\ Append_(To(job.text))
     \/ WriteFault /\ pc' = "free" /\ UNCHANGED bundle
  /\ UNCHANGED <<disk, mem, w, job, histVars>>

\* copydat and copymsg: nobody looks whether these writes fail.
MailBody ==
  /\ pc = "body" /\ job.prog = "mailass"
  /\ \/ Complete(To(job.text), job.text) /\ UNCHANGED faults
     \/ WriteFault /\ UNCHANGED bundle
  /\ pc' = "proc"
  /\ UNCHANGED <<disk, mem, w, job, leaked, uncopied, unmapped>>

\* setproc.  The message has been delivered even if this write fails.
MailSetproc ==
  /\ pc = "proc" /\ job.prog = "mailass"
  /\ \/ SetFlag("loc", job.this, "PROCESSED") /\ pc' = "del" /\ UNCHANGED faults
     \/ WriteFault /\ pc' = "free" /\ UNCHANGED disk
  /\ UNCHANGED <<mem, w, bundle, job, histVars>>

\* Mutant: deleteold frees the first sector only.
DeleteFree_First ==
  /\ pc = "del"
  /\ LET kept == mem.used["loc"] \ {Old.first} IN
       /\ mem' = [mem EXCEPT !.used["loc"] = kept]
       /\ disk' = [disk EXCEPT !["loc"].used = kept]
  /\ pc' = "mark"
  /\ UNCHANGED <<w, bundle, faults, job, histVars>>

\* deleteold: the sectors are freed, and the bitmap is written.
DeleteFree ==
  /\ pc = "del"
  /\ LET kept == mem.used["loc"] \ Chain("loc", Old.first) IN
       /\ mem' = [mem EXCEPT !.used["loc"] = kept]
       /\ \/ /\ disk' = [disk EXCEPT !["loc"].used = kept]
             /\ pc' = "mark" /\ UNCHANGED faults
          \/ WriteFault /\ pc' = "free" /\ UNCHANGED disk
  /\ UNCHANGED <<w, bundle, job, histVars>>

\* Then the header is rewritten as a deleted message, and the loop goes on.
DeleteMark ==
  /\ pc = "mark"
  /\ \/ /\ SetFlag("loc", job.this, "DELETED")
        /\ pc' = "scan" /\ job' = [job EXCEPT !.this = @ + 1]
        /\ UNCHANGED faults
     \/ WriteFault /\ pc' = "free" /\ UNCHANGED <<disk, job>>
  /\ UNCHANGED <<mem, w, bundle, histVars>>

\* The end of main.  write_top looks at no result.
MailClose ==
  /\ pc \in {"free", "top"} /\ job.prog = "mailass"
  /\ \/ /\ IF pc = "free" THEN WriteFree("loc") ELSE WriteTop("loc")
        /\ UNCHANGED <<faults, unmapped>>
     \/ WriteFault /\ MapLost /\ UNCHANGED disk
  /\ pc' = IF pc = "free" THEN "top" ELSE "exit"
  /\ UNCHANGED <<mem, w, bundle, job, leaked, uncopied>>

MailassStep ==
  \/ Scan \/ LocalClaim \/ BounceClaim \/ MailPut
  \/ LocalPutFails \/ BouncePutFails \/ MailHeader \/ MailAppend \/ MailBody
  \/ MailSetproc \/ DeleteFree \/ DeleteMark \/ MailClose
=============================================================================
