------------------------------- MODULE Bbass --------------------------------
(***************************************************************************)
(* bbass: the messages that users entered in msgtxt go into the bundle of  *)
(* the link that carries their conference, and are copied to loctxt when   *)
(* they are addressed to a user of Zeta.                                   *)
(***************************************************************************)
EXTENDS MsgBase

StartBbass ==
  /\ pc = "idle"
  /\ pc' = "scan" /\ job' = [prog |-> "bbass", this |-> 1, text |-> NoText]
  /\ ReadInfo
  /\ UNCHANGED <<disk, w, bundle, faults, histVars>>

Ignorem(h) ==
  \/ h.flags \cap {"PROCESSED", "DELETED"} # {}
  \/ h.flags \cap {"OUTGOING", "NEW"} = {}

\* The loop of main: the next new message is read.
BbScan ==
  /\ pc = "scan" /\ job.prog = "bbass"
  /\ LET todo == {i \in job.this .. mem.top["msg"] :
                    ~Ignorem(disk["msg"].hdr[i])}
     IN IF todo = {}
        THEN pc' = "free" /\ job' = [job EXCEPT !.this = 0]
        ELSE /\ pc' = "act"
             /\ job' = [job EXCEPT
                          !.this = Min(todo),
                          !.text = disk["msg"].txt[
                                     disk["msg"].hdr[Min(todo)].first].text]
  /\ UNCHANGED <<baseVars, histVars>>

\* findtopic: the area is a conference of one of the links, or neither.
Area == job.text.of.area

\* fido and usenet, down to makemsg.
BbAppend ==
  /\ pc = "act" /\ job.prog = "bbass"
  /\ IF Area \in Links
     THEN \/ Append_(Area) /\ pc' = "body" /\ UNCHANGED faults
          \/ WriteFault /\ pc' = "free" /\ Append_(Area)
          \/ WriteFault /\ pc' = "free" /\ UNCHANGED bundle
     ELSE pc' = "proc" /\ UNCHANGED <<bundle, faults>>
  /\ UNCHANGED <<disk, mem, w, job, histVars>>

BbBody ==
  /\ pc = "body" /\ job.prog = "bbass"
  /\ \/ Complete(Area, job.text) /\ UNCHANGED faults
     \/ WriteFault /\ UNCHANGED bundle
  /\ pc' = "proc"
  /\ UNCHANGED <<disk, mem, w, job, leaked, uncopied, unmapped>>

\* setproc, and on to the copy if the message is to a user.
BbSetproc ==
  /\ pc = "proc" /\ job.prog = "bbass"
  /\ \/ /\ SetFlag("msg", job.this, "PROCESSED")
        /\ IF To(job.text) = "user" THEN pc' = "local" /\ UNCHANGED job
           ELSE pc' = "scan" /\ job' = [job EXCEPT !.this = @ + 1]
        /\ UNCHANGED faults
     \/ WriteFault /\ pc' = "free" /\ UNCHANGED <<disk, job>>
  /\ UNCHANGED <<mem, w, bundle, histVars>>

\* local, with the message marked already: "There is no recovery!"
BbLocal ==
  /\ pc = "local" /\ job.prog = "bbass"
  /\ IF Full("loc")
     THEN pc' = "free" /\ uncopied' = TRUE /\ UNCHANGED <<mem, w>>
     ELSE Claim("loc", job.text) /\ pc' = "put" /\ UNCHANGED uncopied
  /\ UNCHANGED <<disk, bundle, faults, job, leaked, unmapped>>

\* writedat, localcpy and localfls, each with its recover(1).
BbPut ==
  /\ pc = "put" /\ job.prog = "bbass"
  /\ \/ PutLink /\ UNCHANGED <<faults, pc, uncopied>>
     \/ Flush /\ pc' = "hdr" /\ UNCHANGED <<faults, mem, w, uncopied>>
     \/ /\ PutFails \/ (w.part = Size(w.text) /\ WriteFault)
        /\ Recover1 /\ pc' = "free" /\ uncopied' = TRUE /\ UNCHANGED w
  /\ UNCHANGED <<bundle, job, leaked, unmapped>>

BbHeader ==
  /\ pc = "hdr" /\ job.prog = "bbass"
  /\ \/ /\ PutHeader("loc", [flags |-> {"INCOMING", "NEW"}, first |-> w.first,
                             text |-> w.text])
        /\ pc' = "scan" /\ job' = [job EXCEPT !.this = @ + 1]
        /\ UNCHANGED <<faults, leaked, uncopied, unmapped>>
     \/ /\ WriteFault /\ pc' = "free" /\ leaked' = TRUE /\ uncopied' = TRUE
        /\ UNCHANGED <<disk, mem, job>>
  /\ UNCHANGED <<w, bundle, unmapped>>

\* The end of main, loctxt before msgtxt.
BbClose ==
  /\ pc \in {"free", "top", "free2", "top2"} /\ job.prog = "bbass"
  /\ \/ /\ CASE pc = "free" -> WriteFree("loc")
             [] pc = "top" -> WriteTop("loc")
             [] pc = "free2" -> WriteFree("msg")
             [] OTHER -> WriteTop("msg")
        /\ UNCHANGED <<faults, unmapped>>
     \/ WriteFault /\ MapLost /\ UNCHANGED disk
  /\ pc' = CASE pc = "free" -> "top" [] pc = "top" -> "free2"
             [] pc = "free2" -> "top2" [] OTHER -> "exit"
  /\ UNCHANGED <<mem, w, bundle, job, leaked, uncopied>>

BbassStep ==
  \/ BbScan \/ BbAppend \/ BbBody \/ BbSetproc \/ BbLocal \/ BbPut
  \/ BbHeader \/ BbClose
=============================================================================
