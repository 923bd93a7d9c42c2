-------------------------- MODULE NetMailKeptProofs --------------------------
(***************************************************************************)
(* Proofs about the network mail, for any messages and packets, disks of   *)
(* any size, and any number of failed writes and crashes: packets and      *)
(* archives go, and messages are marked, only when what is in them went    *)
(* where it should.  As long as no write fails and the machine does not    *)
(* stop, no message is filed or sent twice; and whatever fails, echomail   *)
(* that came in does not go out again.                                     *)
(***************************************************************************)
EXTENDS NetMailProofs

-----------------------------------------------------------------------------
(* Packets.                                                                *)

\* A letter is among the first headers of the bases it belongs to.
FiledIn(b, n, l) == \E i \in 1 .. n : disk[b].hdr[i].text = Letter(l)
FiledTo(msg, loc, l) ==
  (WantsMsg(l) => FiledIn("msg", msg, l)) /\ (WantsLoc(l) => FiledIn("loc", loc, l))

AtPacket == job.prog = "packdis" /\ pc \in AtItem
Filing == job.prog = "packdis" /\ pc \in {"put", "hdr"}

\* A name is a packet's or an archive's; the packet at work is one to be processed.
Passed(l) == l.st = "-"
IsArchive(l) == l.st \in {"A", "R"}
LinesKept ==
  /\ \A i \in DOMAIN lines : IsArchive(lines[i]) <=> lines[i].name \notin DOMAIN Content
  /\ AtPacket => Todo(Line)

\* What is filed of the packet at work, and what of it is on the disk.
FiledUpTo(n) ==
  \A k \in DOMAIN Items :
    k < n /\ IsLetter(Items[k]) => FiledTo(mem.top["msg"], mem.top["loc"], Items[k].of)
FiledSoFar ==
  AtPacket =>
    /\ FiledUpTo(job.item)
    /\ pc = "loc" => WantsMsg(Item.of) /\ WantsLoc(Item.of) /\ FiledIn("msg", mem.top["msg"], Item.of)
    /\ Filing => /\ w.text = Letter(Item.of)
                 /\ w.base = "msg" => WantsMsg(Item.of)
                 /\ w.base = "loc" => /\ WantsLoc(Item.of)
                                      /\ WantsMsg(Item.of) => FiledIn("msg", mem.top["msg"], Item.of)
    /\ pc \in {"free", "top", "done", "status"} => job.item > Len(Items)
    /\ pc \in {"free", "top"} /\ job.base = "msg" => disk["loc"].top = mem.top["loc"]
    /\ pc \in {"done", "status"} => \A b \in Bases : disk[b].top = mem.top[b]

\* All letters of a packet are filed for good.
AllFiled(p) ==
  \A k \in DOMAIN Content[p] :
    IsLetter(Content[p][k]) => FiledTo(disk["msg"].top, disk["loc"].top, Content[p][k].of)
PacketsSafe ==
  \A i \in DOMAIN lines :
    lines[i].name \in DOMAIN Content /\ (Passed(lines[i]) \/ lines[i].name \notin there) =>
      AllFiled(lines[i].name)

\* While groupOk is set the packets of the group that were passed are processed.
GroupFiled ==
  job.prog = "packdis" /\ pc # "exit" =>
    /\ job.groupOk \in BOOLEAN
    /\ job.groupOk => \A j \in Group(job.line) : Passed(lines[j])

PacketInv == LinesKept /\ FiledSoFar /\ PacketsSafe /\ ArchiveKept /\ GroupFiled

-----------------------------------------------------------------------------
(* Messages.                                                               *)

\* The messages of a base that count: for packdis only those that it has committed.
Mailing == job.prog \in {"mailass", "bbass"}
Known(b) == IF Mailing /\ b = "loc" THEN mem.top["loc"] ELSE disk[b].top

HasCopy(t) == \E i \in 1 .. Known("loc") :
             disk["loc"].hdr[i].text = t /\ "INCOMING" \in disk["loc"].hdr[i].flags
Tells(u, t) == u.of = t.of /\ u.kind # "letter" /\ u # t
Told(t) == \E i \in 1 .. Known("loc") : Tells(disk["loc"].hdr[i].text, t)
Seen(t) ==
  /\ To(t) \in Links => OnItsWay(To(t), t)
  /\ To(t) = "user" => HasCopy(t)
  /\ To(t) \notin Links \cup {"user"} => Told(t)

Marks ==
  /\ \A b \in Bases : \A i \in 1 .. Count(b) : "PROCESSED" \in disk[b].hdr[i].flags => i <= Known(b)
  /\ \A i \in 1 .. Count("loc") : LET h == disk["loc"].hdr[i] IN
       /\ "OUTGOING" \in h.flags => h.text.kind = "letter"
       /\ h.text.kind = "sysop" => h.flags \cap {"OUTGOING", "INTRANSIT"} = {}

\* The bundle at work is the only one with a part of a message, at its end.
Aim == IF job.prog = "mailass" THEN To(job.text) ELSE job.text.of.area
Bundles ==
  /\ bundle \in [Links -> Seq(Texts \cup {Broken})]
  /\ pc = "body" => /\ Aim \in Links /\ bundle[Aim] # <<>>
                     /\ bundle[Aim][Len(bundle[Aim])] = Broken
  /\ \A x \in Links : \A i \in DOMAIN bundle[x] :
       bundle[x][i] = Broken => pc = "body" /\ x = Aim /\ i = Len(bundle[x])

\* The message at work.
AtMail ==
  job.prog = "mailass" =>
    /\ pc \in AtOld => job.text = Old.text
    /\ pc \in {"put", "hdr"} => ~ForLink /\ w.text = IF Bouncing THEN Notice ELSE job.text
    /\ pc = "proc" => Seen(job.text)
    /\ pc = "exit" => disk["loc"].top = mem.top["loc"]
AtNews ==
  job.prog = "bbass" =>
    /\ pc \in AtOld => job.text = disk["msg"].hdr[job.this].text
    /\ pc = "proc" => (Aim \in Links => OnItsWay(Aim, job.text))
    /\ pc \in {"put", "hdr"} => w.text = job.text
    /\ pc \in {"free2", "top2", "exit"} => disk["loc"].top = mem.top["loc"]
Copying(i) == job.prog = "bbass" /\ pc \in {"local", "put", "hdr"} /\ i = job.this

MailDone ==
  \A i \in 1 .. Known("loc") : LET h == disk["loc"].hdr[i] IN
    "PROCESSED" \in h.flags => Seen(h.text)
NewsDone ==
  \A i \in 1 .. Known("msg") : LET h == disk["msg"].hdr[i] IN
    "PROCESSED" \in h.flags =>
      /\ h.text.of.area \in Links => OnItsWay(h.text.of.area, h.text)
      /\ To(h.text) = "user" /\ ~uncopied => HasCopy(h.text) \/ Copying(i)

MessageInv == Quiet => Marks /\ Bundles /\ AtMail /\ AtNews /\ MailDone /\ NewsDone

-----------------------------------------------------------------------------
(* What no step takes from the headers.                                    *)

HeadersSame == \A b \in Bases : disk'[b].hdr = disk[b].hdr
Grown ==
  \A b \in Bases :
    /\ disk'[b].top \in Nat /\ disk[b].top <= disk'[b].top
    /\ \A i \in 1 .. Count(b) : /\ disk'[b].hdr[i].text = disk[b].hdr[i].text
                                /\ disk[b].hdr[i].flags \subseteq disk'[b].hdr[i].flags

LEMMA SameGrows ==
  ASSUME Stores, Headed, HeadersSame,
         \A b \in Bases : \/ disk'[b].top = disk[b].top
                          \/ pc # "idle" /\ disk'[b].top = mem.top[b]
  PROVE  Grown
<1> SUFFICES ASSUME NEW b \in Bases
             PROVE  disk'[b].top \in Nat /\ disk[b].top <= disk'[b].top /\ disk'[b].hdr = disk[b].hdr
  BY DEF Grown
<1>1. disk[b].top \in Nat /\ mem.top[b] \in Nat /\ disk[b].top <= Count(b)
  BY HasFacts DEF Headed
<1> QED
  BY <1>1 DEF HeadersSame, Count

LEMMA HeaderGrows ==
  ASSUME Stores, Headed, pc # "idle", NEW b \in Bases, NEW h, PutHeader(b, h)
  PROVE  /\ Grown /\ mem.top[b] \in Nat /\ mem'.top[b] = mem.top[b] + 1
         /\ disk'[b].hdr[mem.top[b] + 1] = h
         /\ \A i \in 1 .. mem.top[b] : disk'[b].hdr[i] = disk[b].hdr[i]
         /\ \A c \in Bases : disk'[c].top = disk[c].top
         /\ \A c \in Bases : c # b => disk'[c].hdr = disk[c].hdr /\ mem'.top[c] = mem.top[c]
<1>1. /\ disk \in [Bases -> BaseSet] /\ mem \in [used : [Bases -> SUBSET Sectors], top : [Bases -> Nat]]
      /\ mem.top[b] \in Nat /\ disk[b].hdr \in Seq(Headers)
  BY HasFacts DEF Stores
<1> DEFINE n == mem.top[b] + 1
           old == disk[b].hdr
           new == [k \in 1 .. (IF n > Len(old) THEN n ELSE Len(old)) |-> IF k = n THEN h ELSE old[k]]
<1>2. disk' = [disk EXCEPT ![b].hdr = new] /\ mem' = [mem EXCEPT !.top[b] = n]
  BY DEF PutHeader
<1>3. new[n] = h /\ \A i \in 1 .. mem.top[b] : new[i] = old[i]
  BY <1>1
<1> HIDE DEF new
<1>4. disk'[b].hdr = new
  BY <1>1, <1>2 DEF BaseSet
<1>5. mem'.top[b] = n /\ \A c \in Bases : c # b => mem'.top[c] = mem.top[c]
  BY <1>1, <1>2
<1>6. \A c \in Bases : /\ disk'[c].top = disk[c].top
                       /\ c # b => disk'[c].hdr = disk[c].hdr
  BY <1>1, <1>2 DEF BaseSet
<1>7. Grown
  <2> SUFFICES ASSUME NEW c \in Bases, NEW i \in 1 .. Count(c)
               PROVE  disk[c].top \in Nat /\ disk'[c].hdr[i] = disk[c].hdr[i]
    BY <1>6, HasFacts DEF Grown
  <2>1. disk[c].top \in Nat
    BY HasFacts
  <2>2. CASE c = b
    BY <2>1, <2>2, <1>3, <1>4 DEF Count
  <2>3. CASE c # b
    BY <2>1, <2>3, <1>6
  <2> QED
    BY <2>2, <2>3
<1> QED
  BY <1>1, <1>3, <1>4, <1>5, <1>6, <1>7

LEMMA FlagGrows ==
  ASSUME Stores, Headed, NEW b \in Bases, NEW i \in 1 .. Count(b), NEW flag, SetFlag(b, i, flag)
  PROVE  /\ Grown
         /\ \A c \in Bases : disk'[c].top = disk[c].top
         /\ \A c \in Bases : \A j \in 1 .. Count(c) :
              c # b \/ j # i => disk'[c].hdr[j] = disk[c].hdr[j]
         /\ disk'[b].hdr[i].flags = disk[b].hdr[i].flags \cup {flag}
         /\ disk'[b].hdr[i].text = disk[b].hdr[i].text
<1>1. \A c \in Bases : disk[c].top \in Nat /\ Count(c) \in Nat /\ Count(c) <= Len(disk[c].hdr)
                       /\ disk[c].hdr \in Seq(Headers)
  BY HasFacts DEF Headed
<1>2. \A c \in Bases : \A j \in 1 .. Count(c) : j \in DOMAIN disk[c].hdr
  BY <1>1
<1>3. /\ \A c \in Bases : c # b => disk'[c].hdr = disk[c].hdr
      /\ \A c \in Bases : disk'[c].top = disk[c].top
      /\ \A j \in DOMAIN disk[b].hdr : j # i => disk'[b].hdr[j] = disk[b].hdr[j]
      /\ disk'[b].hdr[i].flags = disk[b].hdr[i].flags \cup {flag}
  BY <1>2, FlagSet
<1>4. disk'[b].hdr[i].text = disk[b].hdr[i].text
  <2>1. disk \in [Bases -> BaseSet] /\ disk[b].hdr \in Seq(Headers) /\ disk[b].hdr[i] \in Headers
    BY <1>1, <1>2 DEF Stores
  <2>2. PICK h : h = [disk[b].hdr[i] EXCEPT !.flags = @ \cup {flag}]
    OBVIOUS
  <2>3. h.text = disk[b].hdr[i].text
    BY <2>1, <2>2 DEF Headers
  <2>4. PICK g : g = [disk[b].hdr EXCEPT ![i] = h]
    OBVIOUS
  <2>5. g[i] = h
    BY <2>4, <1>2
  <2>6. disk' = [disk EXCEPT ![b].hdr = g]
    BY <2>2, <2>4 DEF SetFlag
  <2>7. disk'[b].hdr = g
    BY <2>1, <2>6 DEF BaseSet
  <2> QED
    BY <2>3, <2>5, <2>7
<1>5. \A c \in Bases : \A j \in 1 .. Count(c) : c # b \/ j # i => disk'[c].hdr[j] = disk[c].hdr[j]
  BY <1>2, <1>3
<1>6. Grown
  BY <1>1, <1>3, <1>4, <1>5 DEF Grown
<1> QED
  BY <1>3, <1>4, <1>5, <1>6

\* A header is put behind the first top ones, over the next if there is one.
Inserted(hdr, top, h) == SubSeq(hdr, 1, top) \o <<h>> \o SubSeq(hdr, top + 2, Len(hdr))

LEMMA EnteredIn ==
  ASSUME NEW T, NEW hdr \in Seq(T), NEW top \in Nat, top <= Len(hdr), NEW h \in T,
         NEW g, g = Inserted(hdr, top, h)
  PROVE  g[top + 1] = h /\ \A i \in 1 .. top : g[i] = hdr[i]
<1>1. PICK a : a = SubSeq(hdr, 1, top)
  OBVIOUS
<1>2. PICK d : d = SubSeq(hdr, top + 2, Len(hdr))
  OBVIOUS
<1>3. a \in Seq(T) /\ Len(a) = top /\ \A i \in 1 .. top : a[i] = hdr[i]
  <2>1. \A i \in 1 .. top : i \in 1 .. Len(hdr)
    OBVIOUS
  <2>2. a \in Seq(T) /\ Len(a) = top
    BY <1>1, <2>1, SubSeqProperties
  <2> QED
    BY <1>1, <2>1, <2>2
<1>4. d \in Seq(T)
  <2>1. \A i \in top + 2 .. Len(hdr) : i \in 1 .. Len(hdr)
    OBVIOUS
  <2> QED
    BY <1>2, <2>1, SubSeqProperties
<1>5. PICK c : c = a \o <<h>>
  OBVIOUS
<1>6. c \in Seq(T) /\ Len(c) = top + 1 /\ c[top + 1] = h /\ \A i \in 1 .. top : c[i] = hdr[i]
  BY <1>3, <1>5
<1>7. g = c \o d
  BY <1>1, <1>2, <1>5 DEF Inserted
<1>8. Len(d) \in Nat /\ \A i \in 1 .. Len(c) + Len(d) : g[i] = IF i <= Len(c) THEN c[i] ELSE d[i - Len(c)]
  BY <1>4, <1>6, <1>7, ConcatProperties
<1>9. \A i \in 1 .. top + 1 : i \in 1 .. Len(c) + Len(d) /\ i <= Len(c)
  BY <1>6, <1>8
<1>10. \A i \in 1 .. top + 1 : g[i] = c[i]
  BY <1>8, <1>9
<1> QED
  BY <1>6, <1>10

LEMMA EnterGrows ==
  ASSUME Stores, Headed, NEW e \in toEnter, toEnter \subseteq [base : Bases, letter : Letters], Enter(e)
  PROVE  /\ Grown /\ e.base \in Bases /\ disk[e.base].top \in Nat
         /\ disk'[e.base].top = disk[e.base].top + 1
         /\ disk'[e.base].hdr[disk[e.base].top + 1].text = Letter(e.letter)
         /\ disk'[e.base].hdr[disk[e.base].top + 1].flags
              = IF e.base = "loc" THEN {"OUTGOING"} ELSE {"NEW"}
         /\ \A c \in Bases : \A j \in 1 .. disk[c].top : disk'[c].hdr[j] = disk[c].hdr[j]
         /\ \A c \in Bases : c # e.base => disk'[c] = disk[c]
<1> DEFINE b == e.base
           old == disk[b]
           text == Letter(e.letter)
           free == Sectors \ old.used
           n == Size(text)
           at == LowestOf(free, n)
           mine == Laid(at, n)
           h == [flags |-> IF b = "loc" THEN {"OUTGOING"} ELSE {"NEW"}, first |-> at[1], text |-> text]
           g == Inserted(old.hdr, old.top, h)
           Put(s) == LET k == CHOOSE j \in 1 .. n : at[j] = s IN
                       Sector(text, k, IF k = n THEN 0 ELSE at[k + 1])
           u == [s \in Sectors |-> IF s \in mine THEN Put(s) ELSE old.txt[s]]
<1>2. disk' = [disk EXCEPT ![b] = [used |-> old.used \cup mine, top |-> old.top + 1, hdr |-> g, txt |-> u]]
  BY DEF Enter, LowestOf, Laid, Inserted
<1>4. h.text = Letter(e.letter) /\ h.flags = IF b = "loc" THEN {"OUTGOING"} ELSE {"NEW"}
  OBVIOUS
<1> HIDE DEF u, mine, at, n, text, free, h
<1>1. pc = "idle" /\ b \in Bases /\ disk \in [Bases -> BaseSet] /\ disk[b].top \in Nat
      /\ disk[b].hdr \in Seq(Headers) /\ disk[b].top <= Len(disk[b].hdr) /\ Count(b) = disk[b].top
  BY HasFacts DEF Enter, Headed, Count, Stores
<1>6. g[disk[b].top + 1] = h /\ \A i \in 1 .. disk[b].top : g[i] = disk[b].hdr[i]
  <2>1. PICK T : T = Headers \cup {h}
    OBVIOUS
  <2>2. old.hdr \in Seq(T)
    <3>1. \A i \in 1 .. Len(old.hdr) : old.hdr[i] \in T
      BY <2>1, <1>1
    <3> QED
      BY <3>1, <1>1
  <2>3. PICK hdr \in Seq(T) : hdr = old.hdr
    BY <2>2
  <2>4. PICK x \in T : x = h
    BY <2>1
  <2>5. PICK top \in Nat : top = old.top /\ top <= Len(hdr)
    BY <2>3, <1>1
  <2>6. g = Inserted(hdr, top, x)
    BY <2>3, <2>4, <2>5
  <2> HIDE DEF g
  <2>7. g[top + 1] = x /\ \A i \in 1 .. top : g[i] = hdr[i]
    BY <2>5, <2>6, EnteredIn
  <2> QED
    BY <2>3, <2>4, <2>5, <2>7
<1> HIDE DEF g
<1>8. /\ disk'[b].hdr = g /\ disk'[b].top = disk[b].top + 1
      /\ \A c \in Bases : c # b => disk'[c] = disk[c]
  BY <1>1, <1>2
<1>9. \A c \in Bases : \A j \in 1 .. disk[c].top : disk'[c].hdr[j] = disk[c].hdr[j]
  BY <1>6, <1>8
<1>10. Grown
  <2> SUFFICES ASSUME NEW c \in Bases
               PROVE  disk[c].top \in Nat /\ Count(c) = disk[c].top
                      /\ (disk'[c].top = disk[c].top \/ disk'[c].top = disk[c].top + 1)
    BY <1>9 DEF Grown
  <2> QED
    BY <1>1, <1>8, HasFacts DEF Count
<1> QED
  BY <1>1, <1>4, <1>6, <1>8, <1>9, <1>10
\* The writes that leave the headers alone.
LEMMA WritesSame ==
  ASSUME Stores, Headed,
         \/ UNCHANGED disk
         \/ PutLink
         \/ Flush /\ UNCHANGED <<mem, w>>
         \/ \E b \in Bases : WriteFree(b)
         \/ \E b \in Bases : pc # "idle" /\ WriteTop(b)
         \/ \E b \in Bases : \E kept : disk' = [disk EXCEPT ![b].used = kept]
  PROVE  Grown /\ HeadersSame
<1>1. disk \in [Bases -> BaseSet]
  BY DEF Stores
<1>2. CASE UNCHANGED disk
  BY <1>2, SameGrows DEF HeadersSame
<1>3. CASE PutLink \/ (Flush /\ UNCHANGED <<mem, w>>)
  BY <1>3, TextPlace, SameGrows DEF HeadersSame
<1>4. CASE \E b \in Bases : \E kept : disk' = [disk EXCEPT ![b].used = kept]
  <2>1. PICK b \in Bases : \E kept : disk' = [disk EXCEPT ![b].used = kept]
    BY <1>4
  <2>2. PICK kept : disk' = [disk EXCEPT ![b].used = kept]
    BY <2>1
  <2>3. \A c \in Bases : disk'[c].hdr = disk[c].hdr /\ disk'[c].top = disk[c].top
    BY <1>1, <2>2 DEF BaseSet
  <2> QED
    BY <2>3, SameGrows DEF HeadersSame
<1>5. CASE \E b \in Bases : WriteFree(b)
  <2>1. PICK b \in Bases : disk' = [disk EXCEPT ![b].used = mem.used[b]]
    BY <1>5 DEF WriteFree
  <2>2. \A c \in Bases : disk'[c].hdr = disk[c].hdr /\ disk'[c].top = disk[c].top
    BY <1>1, <2>1 DEF BaseSet
  <2> QED
    BY <2>2, SameGrows DEF HeadersSame
<1>6. CASE \E b \in Bases : pc # "idle" /\ WriteTop(b)
  <2>1. PICK b \in Bases : pc # "idle" /\ disk' = [disk EXCEPT ![b].top = mem.top[b]]
    BY <1>6 DEF WriteTop
  <2>2. \A c \in Bases : disk'[c].hdr = disk[c].hdr /\ disk'[c].top = IF c = b THEN mem.top[b] ELSE disk[c].top
    BY <1>1, <2>1 DEF BaseSet
  <2> QED
    BY <2>1, <2>2, SameGrows DEF HeadersSame
<1> QED
  BY <1>2, <1>3, <1>4, <1>5, <1>6

LEMMA PackGrows ==
  ASSUME NetInv, PackdisStep
  PROVE  Grown
<1>1. Stores /\ Rest /\ Places /\ Headed
  BY DEF NetInv
<1>2. CASE ProcLine \/ OpenFails \/ OpenPacket \/ EndBatch \/ EndPacket \/ Unlink \/ Status
  <2>1. disk' = disk
    BY <1>2, LineSteps DEF EndBatch, EndPacket, Unlink, Status, baseVars
  <2> QED
    BY <2>1, <1>1, WritesSame
<1>3. CASE NextItem \/ WriteMsg \/ WriteLoc
  <2>1. disk' = disk
    BY <1>3 DEF NextItem, WriteMsg, WriteLoc, ClaimFirst
  <2> QED
    BY <2>1, <1>1, WritesSame
<1>4. CASE PackPut
  <2>1. disk' = disk \/ PutLink \/ (Flush /\ UNCHANGED <<mem, w>>)
    BY <1>4 DEF PackPut
  <2> QED
    BY <2>1, <1>1, WritesSame
<1>5. CASE PackHeader
  <2>1. pc = "hdr" /\ (disk' = disk \/ \E h : PutHeader(w.base, h)) /\ w.base \in Bases
    BY <1>1, <1>5 DEF PackHeader, Stores
  <2> QED
    BY <2>1, <1>1, WritesSame, HeaderGrows
<1>6. CASE Commit
  <2>1. pc \in {"free", "top"} /\ job.base \in Bases
    BY <1>1, <1>6, PackPlace DEF Commit
  <2>2. disk' = disk \/ WriteFree(job.base) \/ WriteTop(job.base)
    BY <1>6 DEF Commit
  <2> QED
    BY <2>1, <2>2, <1>1, WritesSame
<1> QED
  BY <1>2, <1>3, <1>4, <1>5, <1>6 DEF PackdisStep

LEMMA MailGrows ==
  ASSUME NetInv, MailassStep
  PROVE  Grown
<1>1. Stores /\ Rest /\ Places /\ Headed /\ "loc" \in Bases
  BY DEF NetInv, Bases
<1>2. CASE Scan \/ LocalClaim \/ BounceClaim \/ BouncePutFails \/ MailAppend \/ MailBody
  <2>1. disk' = disk
    BY <1>2 DEF Scan, LocalClaim, BounceClaim, BouncePutFails, MailAppend, MailBody, baseVars
  <2> QED
    BY <2>1, <1>1, WritesSame
<1>3. CASE MailPut
  <2>1. PutLink \/ (Flush /\ UNCHANGED <<mem, w>>)
    BY <1>3 DEF MailPut
  <2> QED
    BY <2>1, <1>1, WritesSame
<1>4. CASE LocalPutFails
  <2>1. PICK kept : disk' = [disk EXCEPT ![w.base].used = kept]
    BY <1>4, Zenon DEF LocalPutFails, Recover1
  <2>2. w.base \in Bases
    BY <1>1 DEF Stores
  <2> QED
    BY <2>1, <2>2, <1>1, WritesSame
<1>5. CASE MailHeader
  <2>1. pc = "hdr" /\ (disk' = disk \/ \E h : PutHeader("loc", h))
    BY <1>5 DEF MailHeader
  <2> QED
    BY <2>1, <1>1, WritesSame, HeaderGrows
<1>6. CASE MailSetproc \/ DeleteMark
  <2>1. pc \in {"proc", "mark"} /\ job.prog = "mailass"
        /\ (disk' = disk \/ \E flag : SetFlag("loc", job.this, flag))
    BY <1>1, <1>6, MailPlace DEF MailSetproc, DeleteMark
  <2>2. job.this \in 1 .. Count("loc")
    BY <2>1, <1>1, MailPlace DEF AtOld, Count
  <2> QED
    BY <2>1, <2>2, <1>1, WritesSame, FlagGrows
<1>7. CASE DeleteFree
  <2>1. \E kept : disk' = disk \/ disk' = [disk EXCEPT !["loc"].used = kept]
    BY <1>7, Zenon DEF DeleteFree
  <2> QED
    BY <2>1, <1>1, WritesSame
<1>8. CASE MailClose
  <2>1. pc \in {"free", "top"} /\ (disk' = disk \/ WriteFree("loc") \/ WriteTop("loc"))
    BY <1>8 DEF MailClose
  <2> QED
    BY <2>1, <1>1, WritesSame
<1> QED
  BY <1>2, <1>3, <1>4, <1>5, <1>6, <1>7, <1>8 DEF MailassStep

LEMMA BbGrows ==
  ASSUME NetInv, BbassStep
  PROVE  Grown
<1>1. Stores /\ Rest /\ Places /\ Headed /\ "loc" \in Bases /\ "msg" \in Bases
  BY DEF NetInv, Bases
<1>2. CASE BbScan \/ BbAppend \/ BbBody \/ BbLocal
  <2>1. disk' = disk
    BY <1>2 DEF BbScan, BbAppend, BbBody, BbLocal, baseVars
  <2> QED
    BY <2>1, <1>1, WritesSame
<1>3. CASE BbPut
  <2>1. CASE PutLink \/ (Flush /\ UNCHANGED <<mem, w>>)
    BY <2>1, <1>1, WritesSame
  <2>2. CASE Recover1
    <3>1. PICK kept : disk' = [disk EXCEPT ![w.base].used = kept]
      BY <2>2, Zenon DEF Recover1
    <3>2. w.base \in Bases
      BY <1>1 DEF Stores
    <3> QED
      BY <3>1, <3>2, <1>1, WritesSame
  <2> QED
    BY <1>3, <2>1, <2>2 DEF BbPut
<1>4. CASE BbHeader
  <2>1. pc = "hdr" /\ (disk' = disk \/ \E h : PutHeader("loc", h))
    BY <1>4 DEF BbHeader
  <2> QED
    BY <2>1, <1>1, WritesSame, HeaderGrows
<1>5. CASE BbSetproc
  <2>1. pc = "proc" /\ job.prog = "bbass" /\ (disk' = disk \/ \E flag : SetFlag("msg", job.this, flag))
    BY <1>5 DEF BbSetproc
  <2>2. job.this \in 1 .. Count("msg")
    BY <2>1, <1>1, BbPlace DEF AtOld, Count
  <2> QED
    BY <2>1, <2>2, <1>1, WritesSame, FlagGrows
<1>6. CASE BbClose
  <2>1. /\ pc \in {"free", "top", "free2", "top2"}
        /\ disk' = disk \/ WriteFree("loc") \/ WriteTop("loc") \/ WriteFree("msg") \/ WriteTop("msg")
    BY <1>6 DEF BbClose
  <2> QED
    BY <2>1, <1>1, WritesSame
<1> QED
  BY <1>2, <1>3, <1>4, <1>5, <1>6 DEF BbassStep

\* A message that counts keeps its text and its flags.
LEMMA StepGrows ==
  ASSUME NetInv, [Next]_vars
  PROVE  Grown
<1>1. Stores /\ Rest /\ Places /\ Headed
  BY DEF NetInv
<1>2. CASE Start \/ Crash \/ Exit \/ (\E x \in Links : Collect(x)) \/ UNCHANGED vars
  <2>1. disk' = disk
    BY <1>2 DEF Start, StartPackdis, StartMailass, StartBbass, Crash, Exit, Collect, vars, baseVars
  <2> QED
    BY <2>1, <1>1, WritesSame
<1>3. CASE \E e \in toEnter : Enter(e)
  BY <1>1, <1>3, EnterGrows DEF Rest
<1> QED
  BY <1>2, <1>3, PackGrows, MailGrows, BbGrows DEF Next, Step
-----------------------------------------------------------------------------
(* Packets.                                                                *)

LEMMA FiledStays ==
  ASSUME Stores, Headed, Grown, NEW b \in Bases, NEW n \in Nat, NEW m \in Nat, n <= m, n <= Count(b),
         NEW l, FiledIn(b, n, l)
  PROVE  FiledIn(b, m, l)'
<1>1. PICK i \in 1 .. n : disk[b].hdr[i].text = Letter(l)
  BY DEF FiledIn
<1>2. i \in 1 .. m /\ i \in 1 .. Count(b)
  BY HasFacts
<1>3. disk'[b].hdr[i].text = Letter(l)
  BY <1>1, <1>2 DEF Grown
<1> QED
  BY <1>2, <1>3 DEF FiledIn

LEMMA FiledToStays ==
  ASSUME Stores, Headed, Grown, NEW n \in [Bases -> Nat], NEW m \in [Bases -> Nat],
         \A b \in Bases : n[b] <= m[b] /\ n[b] <= Count(b),
         NEW l, FiledTo(n["msg"], n["loc"], l)
  PROVE  FiledTo(m["msg"], m["loc"], l)'
<1>1. "msg" \in Bases /\ "loc" \in Bases
  BY DEF Bases
<1>2. WantsMsg(l) => FiledIn("msg", m["msg"], l)'
  <2> SUFFICES ASSUME FiledIn("msg", n["msg"], l) PROVE FiledIn("msg", m["msg"], l)'
    BY DEF FiledTo
  <2>1. PICK a \in Nat, c \in Nat : a = n["msg"] /\ c = m["msg"]
    BY <1>1
  <2> QED
    BY <1>1, <2>1, FiledStays
<1>3. WantsLoc(l) => FiledIn("loc", m["loc"], l)'
  <2> SUFFICES ASSUME FiledIn("loc", n["loc"], l) PROVE FiledIn("loc", m["loc"], l)'
    BY DEF FiledTo
  <2>1. PICK a \in Nat, c \in Nat : a = n["loc"] /\ c = m["loc"]
    BY <1>1
  <2> QED
    BY <1>1, <2>1, FiledStays
<1> QED
  BY <1>2, <1>3 DEF FiledTo

\* What became of the lines of PACKETS: none gets another name, no archive becomes a
\* packet, and what was processed stays so.
Relined ==
  /\ DOMAIN lines' = DOMAIN lines
  /\ \A i \in DOMAIN lines : /\ lines'[i].name = lines[i].name
                             /\ IsArchive(lines'[i]) <=> IsArchive(lines[i])
                             /\ Passed(lines[i]) => Passed(lines'[i])

LEMMA LineSet_ ==
  ASSUME Rest, NEW i \in DOMAIN lines
  PROVE  Todo(lines[i]) \/ Passed(lines[i]) \/ lines[i].st = "E" \/ IsArchive(lines[i])
<1>1. lines \in Seq(LineSet)
  BY DEF Rest
<1>2. lines[i] \in LineSet
  BY <1>1
<1>3. lines[i].st \in {" ", "-", "E", "A", "R"}
  BY <1>2, Zenon DEF LineSet
<1> QED
  BY <1>3, Zenon DEF Todo, Passed, IsArchive

LEMMA Remarked ==
  ASSUME Rest, NEW i \in DOMAIN lines, NEW st, lines' = [lines EXCEPT ![i].st = st]
  PROVE  /\ DOMAIN lines' = DOMAIN lines /\ lines'[i].st = st /\ lines'[i].name = lines[i].name
         /\ \A j \in DOMAIN lines : j # i => lines'[j] = lines[j]
<1>1. lines \in Seq(LineSet)
  BY DEF Rest
<1>2. lines[i] \in LineSet
  BY <1>1
<1>3. PICK l : l = [lines[i] EXCEPT !.st = st]
  OBVIOUS
<1>4. l.st = st /\ l.name = lines[i].name
  <2>1. PICK S : lines[i] \in [st : S, name : STRING]
    BY <1>2, Zenon DEF LineSet
  <2> QED
    BY <1>3, <2>1
<1>5. lines' = [lines EXCEPT ![i] = l]
  BY <1>3
<1> QED
  BY <1>4, <1>5

LEMMA RelinedTo ==
  ASSUME Rest, NEW i \in DOMAIN lines, NEW st, lines' = [lines EXCEPT ![i].st = st],
         \/ st = "R" /\ lines[i].st = "A"
         \/ st \in {"E", "-"} /\ Todo(lines[i])
  PROVE  Relined
<1>1. /\ DOMAIN lines' = DOMAIN lines /\ lines'[i].st = st /\ lines'[i].name = lines[i].name
      /\ \A j \in DOMAIN lines : j # i => lines'[j] = lines[j]
  BY Remarked
<1>2. ~Passed(lines[i]) /\ (IsArchive(lines'[i]) <=> IsArchive(lines[i]))
  BY <1>1, Zenon DEF Passed, IsArchive, Todo
<1>3. ASSUME NEW j \in DOMAIN lines
      PROVE  /\ lines'[j].name = lines[j].name /\ (IsArchive(lines'[j]) <=> IsArchive(lines[j]))
             /\ Passed(lines[j]) => Passed(lines'[j])
  <2>1. CASE j = i
    BY <2>1, <1>1, <1>2
  <2>2. CASE j # i
    <3>1. lines'[j] = lines[j]
      BY <2>2, <1>1
    <3> QED
      BY <3>1 DEF Passed, IsArchive
  <2> QED
    BY <2>1, <2>2
<1> QED
  BY <1>1, <1>3 DEF Relined

LEMMA RelinedSame ==
  ASSUME lines' = lines
  PROVE  Relined
BY DEF Relined, Passed, IsArchive

\* Groups.
LEMMA GroupLast ==
  ASSUME NEW n \in Nat \ {0}
  PROVE  /\ IsArchive(lines[n]) => Group(n + 1) = {}
         /\ ~IsArchive(lines[n]) => Group(n + 1) = Group(n) \cup {n}
         /\ Group(1) = {}
         /\ Group(n) \subseteq 1 .. n - 1
<1>1. IsArchive(lines[n]) => Group(n + 1) = {}
  <2> SUFFICES ASSUME IsArchive(lines[n]), NEW j \in Group(n + 1) PROVE FALSE
    OBVIOUS
  <2>1. j \in 1 .. n + 1 - 1 /\ \A k \in j .. n + 1 - 1 : ~IsArchive(lines[k])
    BY DEF Group, IsArchive
  <2>2. n \in j .. n + 1 - 1
    BY <2>1
  <2> QED
    BY <2>1, <2>2
<1>2. ~IsArchive(lines[n]) => Group(n + 1) = Group(n) \cup {n}
  <2> SUFFICES ASSUME ~IsArchive(lines[n]), NEW j PROVE j \in Group(n + 1) <=> j \in Group(n) \cup {n}
    OBVIOUS
  <2>1. j \in Group(n + 1) <=> j \in 1 .. n /\ \A k \in j .. n : ~IsArchive(lines[k])
    <3>1. n + 1 - 1 = n
      OBVIOUS
    <3> QED
      BY <3>1 DEF Group, IsArchive
  <2>2. j \in Group(n) <=> j \in 1 .. n - 1 /\ \A k \in j .. n - 1 : ~IsArchive(lines[k])
    BY DEF Group, IsArchive
  <2>3. CASE j = n
    <3>1. \A k \in j .. n : k = n
      BY <2>3
    <3> QED
      BY <2>1, <2>3, <3>1
  <2>4. CASE j \in 1 .. n - 1
    <3>1. \A k : k \in j .. n <=> k \in j .. n - 1 \/ k = n
      BY <2>4
    <3> QED
      BY <2>1, <2>2, <2>4, <3>1
  <2>5. CASE j \notin 1 .. n
    BY <2>1, <2>2, <2>5
  <2> QED
    BY <2>3, <2>4, <2>5
<1>3. Group(1) = {}
  BY DEF Group
<1>4. Group(n) \subseteq 1 .. n - 1
  BY DEF Group
<1> QED
  BY <1>1, <1>2, <1>3, <1>4

LEMMA GroupsStay ==
  ASSUME Rest, Relined, NEW n \in Nat \ {0}, n <= Len(lines) + 1
  PROVE  Group(n)' = Group(n) /\ Group(n) \subseteq DOMAIN lines
<1>1. lines \in Seq(LineSet)
  BY DEF Rest
<1>2. DOMAIN lines = 1 .. Len(lines) /\ Len(lines) \in Nat
  BY <1>1
<1>3. \A j \in 1 .. n - 1 : \A k \in j .. n - 1 : k \in DOMAIN lines
  BY <1>2
<1>4. \A k \in DOMAIN lines : lines'[k].st \in {"A", "R"} <=> lines[k].st \in {"A", "R"}
  BY DEF Relined, IsArchive
<1>5. Group(n)' = {j \in 1 .. n - 1 : \A k \in j .. n - 1 : lines'[k].st \notin {"A", "R"}}
  BY DEF Group
<1>6. Group(n) \subseteq DOMAIN lines
  BY <1>2 DEF Group
<1> QED
  BY <1>3, <1>4, <1>5, <1>6 DEF Group
LEMMA NamesStay ==
  ASSUME LinesKept, Relined, AtPacket' => Todo(Line)'
  PROVE  LinesKept'
<1>1. /\ DOMAIN lines' = DOMAIN lines
      /\ \A i \in DOMAIN lines : /\ lines'[i].name = lines[i].name
                                 /\ IsArchive(lines'[i]) <=> IsArchive(lines[i])
  BY DEF Relined
<1>2. \A i \in DOMAIN lines : IsArchive(lines[i]) <=> lines[i].name \notin DOMAIN Content
  BY DEF LinesKept
<1>3. \A i \in DOMAIN lines' : IsArchive(lines'[i]) <=> lines'[i].name \notin DOMAIN Content
  BY <1>1, <1>2
<1> QED
  BY <1>3 DEF LinesKept, IsArchive

LEMMA AllStay ==
  ASSUME Stores, Headed, Grown, NEW p, AllFiled(p)
  PROVE  AllFiled(p)'
<1>1. PICK n \in [Bases -> Nat] : \A b \in Bases : n[b] = disk[b].top
  <2>1. [b \in Bases |-> disk[b].top] \in [Bases -> Nat]
    BY HasFacts
  <2> QED
    BY <2>1
<1>2. PICK m \in [Bases -> Nat] : \A b \in Bases : m[b] = disk'[b].top
  <2>1. [b \in Bases |-> disk'[b].top] \in [Bases -> Nat]
    BY DEF Grown
  <2> QED
    BY <2>1
<1>3. \A b \in Bases : n[b] <= m[b] /\ n[b] <= Count(b)
  BY <1>1, <1>2 DEF Grown, Headed
<1>4. "msg" \in Bases /\ "loc" \in Bases
  BY DEF Bases
<1> SUFFICES ASSUME NEW k \in DOMAIN Content[p], IsLetter(Content[p][k])
             PROVE  FiledTo(disk["msg"].top, disk["loc"].top, Content[p][k].of)'
  BY DEF AllFiled, IsLetter
<1>5. FiledTo(n["msg"], n["loc"], Content[p][k].of)
  BY <1>1, <1>4 DEF AllFiled
<1>6. FiledTo(m["msg"], m["loc"], Content[p][k].of)'
  BY <1>3, <1>5, FiledToStays
<1> QED
  BY <1>2, <1>4, <1>6 DEF FiledTo, FiledIn

LEMMA SafeStays ==
  ASSUME Stores, Headed, Grown, PacketsSafe, Relined,
         \A i \in DOMAIN lines :
           lines[i].name \in DOMAIN Content /\ (Passed(lines'[i]) \/ lines[i].name \notin there') =>
             Passed(lines[i]) \/ lines[i].name \notin there \/ AllFiled(lines[i].name)
  PROVE  PacketsSafe'
<1>1. /\ DOMAIN lines' = DOMAIN lines
      /\ \A i \in DOMAIN lines : lines'[i].name = lines[i].name
  BY DEF Relined
<1>2. ASSUME NEW i \in DOMAIN lines', lines'[i].name \in DOMAIN Content,
             Passed(lines'[i]) \/ lines'[i].name \notin there', NEW p, p = lines'[i].name
      PROVE  AllFiled(p)'
  <2>1. i \in DOMAIN lines /\ p = lines[i].name
    BY <1>1, <1>2
  <2>2. AllFiled(lines[i].name)
    BY <1>2, <2>1 DEF PacketsSafe
  <2> QED
    BY <2>1, <2>2, AllStay
<1> QED
  BY <1>2 DEF PacketsSafe, Passed, AllFiled, FiledTo, FiledIn

LEMMA ArchivesStay ==
  ASSUME Rest, ArchiveKept, Relined,
         \A i \in DOMAIN lines :
           lines[i].name \notin DOMAIN Content /\ lines[i].name \notin there' =>
             \/ lines[i].name \notin there
             \/ \E n \in DOMAIN lines : /\ lines[n].name = lines[i].name
                                       /\ \A j \in Group(n) : Passed(lines[j])
  PROVE  ArchiveKept'
<1>1. /\ DOMAIN lines' = DOMAIN lines
      /\ \A i \in DOMAIN lines : lines'[i].name = lines[i].name /\ (Passed(lines[i]) => Passed(lines'[i]))
  BY DEF Relined
<1>2. lines \in Seq(LineSet)
  BY DEF Rest
<1> SUFFICES ASSUME NEW i \in DOMAIN lines, lines[i].name \notin DOMAIN Content, lines[i].name \notin there'
             PROVE  \E n \in DOMAIN lines : /\ lines[n].name = lines[i].name
                                            /\ \A j \in Group(n)' : lines'[j].st = "-"
  BY <1>1 DEF ArchiveKept
<1>3. PICK n \in DOMAIN lines : /\ lines[n].name = lines[i].name
                               /\ \A j \in Group(n) : Passed(lines[j])
  BY DEF ArchiveKept, Passed
<1>4. Group(n)' = Group(n) /\ Group(n) \subseteq DOMAIN lines
  BY <1>2, GroupsStay
<1> QED
  BY <1>1, <1>3, <1>4 DEF Passed

LEMMA PacketsAlone ==
  ASSUME NetInv, Grown, PacketInv, UNCHANGED packFiles, job'.prog # "packdis"
  PROVE  PacketInv'
<1>1. Stores /\ Headed /\ Rest /\ Relined /\ LinesKept /\ PacketsSafe /\ ArchiveKept /\ there' = there
      /\ lines' = lines
  BY RelinedSame DEF NetInv, PacketInv, packFiles
<1>2. LinesKept'
  BY <1>1, NamesStay DEF AtPacket
<1>3. PacketsSafe'
  BY <1>1, SafeStays DEF Passed
<1>4. ArchiveKept'
  BY <1>1, ArchivesStay
<1>5. FiledSoFar' /\ GroupFiled'
  BY DEF FiledSoFar, GroupFiled, AtPacket
<1> QED
  BY <1>2, <1>3, <1>4, <1>5 DEF PacketInv

\* The group of the line that packdis is at, or goes on to.
LEMMA GroupHolds ==
  ASSUME Rest, Relined, GroupFiled, job.prog = "packdis", pc # "exit", job.line \in Nat \ {0},
         job.line <= Len(lines) + 1, job'.line = job.line, job'.groupOk = job.groupOk
  PROVE  GroupFiled'
<1>1. /\ job.groupOk \in BOOLEAN
      /\ job.groupOk => \A j \in Group(job.line) : Passed(lines[j])
  BY DEF GroupFiled
<1>2. Group(job.line)' = Group(job.line) /\ Group(job.line) \subseteq DOMAIN lines
  <2>1. PICK n \in Nat \ {0} : n = job.line
    OBVIOUS
  <2>2. Group(n)' = Group(n) /\ Group(n) \subseteq DOMAIN lines
    BY <2>1, GroupsStay
  <2>3. n = job'.line
    BY <2>1
  <2> QED
    BY <2>1, <2>2, <2>3 DEF Group
<1>3. \A j \in DOMAIN lines : Passed(lines[j]) => Passed(lines'[j])
  BY DEF Relined
<1> QED
  BY <1>1, <1>2, <1>3 DEF GroupFiled, Passed

LEMMA GroupNext ==
  ASSUME Rest, Relined, GroupFiled, job.prog = "packdis", pc # "exit", job.line \in DOMAIN lines,
         job'.line = job.line + 1, job'.groupOk \in BOOLEAN,
         job'.groupOk => IsArchive(lines[job.line]) \/ (job.groupOk /\ Passed(lines'[job.line]))
  PROVE  GroupFiled'
<1>1. PICK n \in Nat \ {0} : n = job.line /\ n \in DOMAIN lines /\ n + 1 <= Len(lines) + 1
  BY DEF Rest
<1>2. Group(n + 1)' = Group(n + 1) /\ Group(n + 1) \subseteq DOMAIN lines
  <2>1. PICK m \in Nat \ {0} : m = n + 1
    BY <1>1
  <2>2. Group(m)' = Group(m) /\ Group(m) \subseteq DOMAIN lines
    BY <1>1, <2>1, GroupsStay
  <2> QED
    BY <2>1, <2>2
<1>3. \A j \in DOMAIN lines : Passed(lines[j]) => Passed(lines'[j])
  BY DEF Relined
<1>4. ASSUME job'.groupOk, NEW j \in Group(n + 1) PROVE Passed(lines'[j])
  <2>1. ~IsArchive(lines[n]) /\ Group(n + 1) = Group(n) \cup {n} /\ job.groupOk /\ Passed(lines'[n])
    BY <1>1, <1>4, GroupLast
  <2>2. CASE j = n
    BY <2>1, <2>2
  <2>3. CASE j \in Group(n)
    BY <1>1, <1>2, <1>3, <1>4, <2>1, <2>3 DEF GroupFiled
  <2> QED
    BY <1>4, <2>1, <2>2, <2>3
<1>5. \A j \in Group(job.line)' : j \in Group(n + 1)
  BY <1>1, <1>2 DEF Group
<1> QED
  BY <1>4, <1>5 DEF GroupFiled, Passed

\* What stays while packdis is at work on one packet.
LEMMA InPacket ==
  ASSUME NetInv, Grown, PacketInv, UNCHANGED packFiles, job.prog = "packdis", pc # "exit",
         job.line \in DOMAIN lines, Todo(Line),
         job'.line = job.line, job'.groupOk = job.groupOk
  PROVE  (LinesKept /\ PacketsSafe /\ ArchiveKept /\ GroupFiled)'
<1>1. /\ Stores /\ Headed /\ Rest /\ Relined /\ LinesKept /\ PacketsSafe /\ ArchiveKept /\ GroupFiled
      /\ there' = there /\ lines' = lines
  BY RelinedSame DEF NetInv, PacketInv, packFiles
<1>2. LinesKept'
  <2>1. Todo(Line)'
    BY <1>1, Zenon DEF Todo, Line
  <2> QED
    BY <2>1, <1>1, NamesStay
<1>3. PacketsSafe'
  BY <1>1, SafeStays DEF Passed
<1>4. ArchiveKept'
  BY <1>1, ArchivesStay
<1>5. GroupFiled'
  <2>1. job.line \in Nat \ {0} /\ job.line <= Len(lines) + 1
    BY <1>1 DEF Rest
  <2> QED
    BY <2>1, <1>1, GroupHolds
<1> QED
  BY <1>2, <1>3, <1>4, <1>5

\* The packet is left, with groupOk unset unless it was processed.
LEMMA OutOfPacket ==
  ASSUME NetInv, Grown, PacketInv, there' = there, Relined, job.prog = "packdis", pc # "exit",
         job.line \in DOMAIN lines, job'.line = job.line + 1, job'.groupOk \in BOOLEAN,
         job'.groupOk => job.groupOk /\ Passed(lines'[job.line]),
         \A i \in DOMAIN lines : lines[i].name \in DOMAIN Content /\ Passed(lines'[i]) =>
           Passed(lines[i]) \/ AllFiled(lines[i].name),
         pc' \notin AtItem
  PROVE  PacketInv'
<1>1. Stores /\ Headed /\ Rest /\ LinesKept /\ PacketsSafe /\ ArchiveKept /\ GroupFiled
  BY DEF NetInv, PacketInv
<1>2. LinesKept'
  BY <1>1, NamesStay DEF AtPacket
<1>3. PacketsSafe'
  BY <1>1, SafeStays
<1>4. ArchiveKept'
  BY <1>1, ArchivesStay
<1>5. GroupFiled'
  BY <1>1, GroupNext
<1>6. FiledSoFar'
  BY DEF FiledSoFar, AtPacket
<1> QED
  BY <1>2, <1>3, <1>4, <1>5, <1>6 DEF PacketInv

LEMMA BackFiles ==
  ASSUME NetInv, Grown, PacketInv, there' = there, NEW rc \in 1 .. 3, Back(rc),
         pc \in {"item", "put", "hdr", "loc"}, job.prog = "packdis"
  PROVE  PacketInv'
<1>1. /\ Rest /\ Places /\ pc \in AtItem /\ pc # "exit"
  BY DEF NetInv, AtItem
<1>2. job.line \in DOMAIN lines /\ IsPackJob(job)
  BY <1>1, PackPlace
<1>3. Todo(Line)
  BY <1>1 DEF PacketInv, LinesKept, AtPacket
<1>4. /\ lines' = lines \/ lines' = [lines EXCEPT ![job.line].st = "E"]
      /\ pc' \in {"exit", "line"} /\ job' = [job EXCEPT !.line = @ + 1, !.groupOk = FALSE, !.rc = rc]
  BY DEF Back
<1>5. Relined /\ \A i \in DOMAIN lines : Passed(lines'[i]) => Passed(lines[i])
  <2>1. CASE lines' = lines
    BY <2>1, RelinedSame
  <2>2. CASE lines' = [lines EXCEPT ![job.line].st = "E"]
    <3>1. Relined
      BY <2>2, <1>1, <1>2, <1>3, RelinedTo DEF Line
    <3>2. lines'[job.line].st = "E" /\ \A j \in DOMAIN lines : j # job.line => lines'[j] = lines[j]
      BY <2>2, <1>1, <1>2, Remarked
    <3> QED
      BY <3>1, <3>2 DEF Passed
  <2> QED
    BY <2>1, <2>2, <1>4
<1>6. job'.line = job.line + 1 /\ job'.groupOk = FALSE
  BY <1>2, <1>4 DEF IsPackJob
<1>7. pc' \notin AtItem
  BY <1>4 DEF AtItem
<1> QED
  BY <1>1, <1>2, <1>5, <1>6, <1>7, OutOfPacket

\* Steps from line to line.
LEMMA LineFiles ==
  ASSUME NetInv, Grown, PacketInv, ProcLine
  PROVE  PacketInv'
<1>1. Stores /\ Headed /\ Rest /\ LinesKept /\ PacketsSafe /\ ArchiveKept /\ GroupFiled
  BY DEF NetInv, PacketInv
<1>2. pc = "line" /\ job.line <= Len(lines) /\ pc' = pc
  BY LineSteps
<1>3. job.line \in DOMAIN lines /\ job.prog = "packdis" /\ IsPackJob(job) /\ pc # "exit"
  BY <1>2, PackPlace DEF NetInv
<1>4. job.groupOk \in BOOLEAN /\ (job.groupOk => \A j \in Group(job.line) : Passed(lines[j]))
  BY <1>1, <1>3 DEF GroupFiled
<1>5. PICK remove \in BOOLEAN :
        /\ remove <=> Line.st = "A" /\ job.groupOk
        /\ there' = IF remove THEN there \ {Line.name} ELSE there
        /\ lines' = IF remove THEN [lines EXCEPT ![job.line].st = "R"] ELSE lines
  BY Zenon DEF ProcLine
<1>6. Relined /\ \A i \in DOMAIN lines : Passed(lines'[i]) => Passed(lines[i])
  <2>1. CASE ~remove
    BY <2>1, <1>5, RelinedSame
  <2>2. CASE remove
    <3>1. Relined
      BY <2>2, <1>1, <1>3, <1>5, RelinedTo DEF Line
    <3>2. lines'[job.line].st = "R" /\ \A j \in DOMAIN lines : j # job.line => lines'[j] = lines[j]
      BY <2>2, <1>1, <1>3, <1>5, Remarked
    <3> QED
      BY <3>1, <3>2 DEF Passed
  <2> QED
    BY <2>1, <2>2
<1>7. LinesKept'
  BY <1>1, <1>2, <1>6, NamesStay DEF AtPacket, AtItem
\* Only an archive is removed.
<1>8. \A i \in DOMAIN lines : lines[i].name \notin there' =>
        lines[i].name \notin there \/ (remove /\ lines[i].name = Line.name)
  <2>1. remove => IsArchive(lines[job.line])
    BY <1>5 DEF IsArchive, Line
  <2> QED
    BY <2>1, <1>1, <1>3, <1>5 DEF LinesKept, Line
<1>9. remove => Line.name \notin DOMAIN Content
  <2>1. remove => IsArchive(lines[job.line])
    BY <1>5 DEF IsArchive, Line
  <2> QED
    BY <2>1, <1>1, <1>3 DEF LinesKept, Line
<1>10. PacketsSafe'
  <2>1. \A i \in DOMAIN lines : lines[i].name \in DOMAIN Content /\ lines[i].name \notin there' =>
          lines[i].name \notin there
    BY <1>8, <1>9 DEF Line
  <2> QED
    BY <2>1, <1>1, <1>6, SafeStays
<1>11. ArchiveKept'
  <2>1. \A i \in DOMAIN lines : lines[i].name \notin there' =>
          \/ lines[i].name \notin there
          \/ /\ lines[job.line].name = lines[i].name
             /\ \A j \in Group(job.line) : Passed(lines[j])
    BY <1>4, <1>5, <1>8 DEF Line
  <2> QED
    BY <2>1, <1>1, <1>3, <1>6, ArchivesStay
<1>12. GroupFiled'
  <2>1. PICK g : /\ g = CASE Line.st = "A" -> IF job.groupOk THEN job.groupOk ELSE TRUE
                           [] Line.st = "R" -> TRUE
                           [] Line.st = "E" -> FALSE
                           [] OTHER -> job.groupOk
                 /\ job' = [job EXCEPT !.line = @ + 1, !.groupOk = g]
    BY Zenon DEF ProcLine
  <2>2. job'.line = job.line + 1 /\ job'.groupOk = g
    BY <2>1, <1>3 DEF IsPackJob
  <2>3. g \in BOOLEAN
    BY <2>1, <1>4
  <2>4. g => IsArchive(Line) \/ (job.groupOk /\ Line.st # "E")
    BY <2>1 DEF IsArchive
  <2>5. ~Todo(Line)
    BY Zenon DEF ProcLine, Todo
  <2>6. Passed(Line) => Passed(lines'[job.line])
    BY <1>3, <1>6 DEF Relined, Line
  <2>7. g => IsArchive(Line) \/ (job.groupOk /\ Passed(lines'[job.line]))
    BY <2>4, <2>5, <2>6, <1>1, <1>3, LineSet_ DEF Line
  <2> QED
    BY <2>2, <2>3, <2>7, <1>1, <1>3, <1>6, GroupNext DEF Line
<1>13. FiledSoFar'
  BY <1>2 DEF FiledSoFar, AtPacket, AtItem
<1> QED
  BY <1>7, <1>10, <1>11, <1>12, <1>13 DEF PacketInv

LEMMA OpenFailsFiles ==
  ASSUME NetInv, Grown, PacketInv, OpenFails
  PROVE  PacketInv'
<1>1. pc = "line" /\ job.line <= Len(lines)
  BY DEF OpenFails
<1>2. job.line \in DOMAIN lines /\ job.prog = "packdis" /\ IsPackJob(job) /\ pc # "exit"
  BY <1>1, PackPlace DEF NetInv
<1>3. /\ job' = [job EXCEPT !.line = @ + 1, !.groupOk = FALSE] /\ pc' = pc
      /\ there' = there /\ lines' = lines
  BY LineSteps DEF packFiles
<1>4. job'.line = job.line + 1 /\ job'.groupOk = FALSE /\ pc' \notin AtItem
  BY <1>1, <1>2, <1>3 DEF IsPackJob, AtItem
<1> QED
  BY <1>2, <1>3, <1>4, OutOfPacket, RelinedSame

LEMMA EndBatchFiles ==
  ASSUME NetInv, Grown, PacketInv, EndBatch
  PROVE  PacketInv'
<1>1. /\ Stores /\ Headed /\ Rest /\ Relined /\ LinesKept /\ PacketsSafe /\ ArchiveKept
      /\ there' = there /\ lines' = lines /\ pc' = "exit"
  BY RelinedSame DEF NetInv, PacketInv, EndBatch, packFiles
<1>2. FiledSoFar' /\ GroupFiled'
  BY <1>1 DEF FiledSoFar, GroupFiled, AtPacket, AtItem
<1>3. LinesKept' /\ PacketsSafe' /\ ArchiveKept'
  BY <1>1, NamesStay, SafeStays, ArchivesStay DEF Passed, AtPacket, AtItem
<1> QED
  BY <1>1, <1>2, <1>3 DEF PacketInv

\* What is filed of a packet stays while the program goes on with it.
LEMMA UpToStays ==
  ASSUME Stores, Headed, Grown, Stores', pc # "idle", UNCHANGED lines, job'.line = job.line,
         \A b \in Bases : mem.top[b] <= mem'.top[b],
         NEW n, FiledUpTo(n)
  PROVE  FiledUpTo(n)'
<1>1. PICK t \in [Bases -> Nat] : t = mem.top
  BY DEF Stores
<1>2. PICK u \in [Bases -> Nat] : u = mem'.top
  BY DEF Stores
<1>3. \A b \in Bases : t[b] <= u[b] /\ t[b] <= Count(b)
  BY <1>1, <1>2 DEF Count
<1>4. "msg" \in Bases /\ "loc" \in Bases
  BY DEF Bases
<1>5. Items' = Items
  BY DEF Items, Line
<1> SUFFICES ASSUME NEW k \in DOMAIN Items, k < n, IsLetter(Items[k])
             PROVE  FiledTo(mem.top["msg"], mem.top["loc"], Items[k].of)'
  BY <1>5 DEF FiledUpTo, IsLetter
<1>6. PICK l : l = Items[k].of
  OBVIOUS
<1>7. FiledTo(t["msg"], t["loc"], l)
  BY <1>1, <1>6 DEF FiledUpTo
<1>8. FiledTo(u["msg"], u["loc"], l)'
  BY <1>3, <1>7, FiledToStays
<1> QED
  BY <1>2, <1>5, <1>6, <1>8 DEF FiledTo, FiledIn

\* It grows by an item that is no letter, or that is filed.
LEMMA UpToNext ==
  ASSUME NEW n \in Nat, n \in DOMAIN Items, DOMAIN Items \subseteq Nat, FiledUpTo(n),
         IsLetter(Items[n]) => FiledTo(mem.top["msg"], mem.top["loc"], Items[n].of)
  PROVE  FiledUpTo(n + 1)
<1> SUFFICES ASSUME NEW k \in DOMAIN Items, k < n + 1, IsLetter(Items[k])
             PROVE  FiledTo(mem.top["msg"], mem.top["loc"], Items[k].of)
  BY DEF FiledUpTo
<1>1. k = n \/ k < n
  OBVIOUS
<1> QED
  BY <1>1 DEF FiledUpTo

LEMMA OpenFiles ==
  ASSUME NetInv, Grown, PacketInv, OpenPacket, NetInv'
  PROVE  PacketInv'
<1>1. /\ pc = "line" /\ job.line <= Len(lines) /\ Todo(Line)
      /\ pc' = "item" /\ job' = [job EXCEPT !.item = 1, !.rc = 0]
      /\ UNCHANGED packFiles
  BY LineSteps
<1>2. job.line \in DOMAIN lines /\ job.prog = "packdis" /\ IsPackJob(job) /\ pc # "exit"
  BY <1>1, PackPlace DEF NetInv
<1>3. /\ job'.line = job.line /\ job'.groupOk = job.groupOk /\ job'.item = 1 /\ job'.prog = "packdis"
  BY <1>1, <1>2 DEF IsPackJob
<1>4. (LinesKept /\ PacketsSafe /\ ArchiveKept /\ GroupFiled)'
  BY <1>1, <1>2, <1>3, InPacket
<1>5. (DOMAIN Items = 1 .. Len(Items) /\ Len(Items) \in Nat)'
  <2>1. (Rest /\ Places /\ pc \in AtItem)' /\ (job.prog = "packdis")'
    BY <1>1, <1>3 DEF NetInv, AtItem
  <2> QED
    BY <2>1, PackPlace
<1>6. FiledUpTo(1)'
  BY <1>5 DEF FiledUpTo
<1>7. FiledSoFar'
  BY <1>1, <1>3, <1>6 DEF FiledSoFar, Filing, FiledUpTo
<1> QED
  BY <1>4, <1>7 DEF PacketInv

\* Where packdis is in a packet.
LEMMA PacketFacts ==
  ASSUME NetInv, PacketInv, pc \in AtItem, job.prog = "packdis" \/ pc \in {"item", "loc", "done", "status"}
  PROVE  /\ Stores /\ Headed /\ Rest /\ Places /\ job.prog = "packdis" /\ IsPackJob(job)
         /\ pc # "exit" /\ pc # "idle" /\ AtPacket /\ job.line \in DOMAIN lines /\ Todo(Line)
         /\ Line.name \in DOMAIN Content
         /\ job.item \in Nat /\ job.item # 0 /\ DOMAIN Items = 1 .. Len(Items) /\ Len(Items) \in Nat
         /\ job.line \in Nat /\ job.base \in Bases
         /\ pc \in {"put", "hdr", "loc"} => job.item \in DOMAIN Items /\ IsLetter(Item)
         /\ FiledUpTo(job.item)
<1>1. Stores /\ Headed /\ Rest /\ Places /\ pc # "exit" /\ pc # "idle"
  BY DEF NetInv, AtItem
<1>2. job.prog = "packdis" /\ IsPackJob(job) /\ AtPacket
  BY <1>1, PackPlace DEF AtPacket
<1>3. Todo(Line) /\ FiledUpTo(job.item)
  BY <1>2 DEF PacketInv, LinesKept, FiledSoFar
<1>4. /\ job.item \in Nat /\ job.item # 0 /\ DOMAIN Items = 1 .. Len(Items) /\ Len(Items) \in Nat
      /\ job.base \in Bases /\ job.line \in DOMAIN lines /\ job.line \in Nat
      /\ Line.name \in DOMAIN Content
      /\ pc \in {"put", "hdr", "loc"} => job.item \in DOMAIN Items /\ IsLetter(Item)
  BY <1>1, <1>2, PackPlace
<1> QED
  BY <1>1, <1>2, <1>3, <1>4

LEMMA NextItemFiles ==
  ASSUME NetInv, Grown, PacketInv, NextItem, NetInv'
  PROVE  PacketInv'
<1>1. /\ pc = "item" /\ pc \in AtItem /\ job.item <= Len(Items) /\ ~IsLetter(Item)
      /\ there' = there /\ UNCHANGED disk
  BY DEF NextItem, AtItem
<1>2. /\ Stores /\ Headed /\ job.prog = "packdis" /\ IsPackJob(job) /\ pc # "exit" /\ pc # "idle"
      /\ job.line \in DOMAIN lines /\ Todo(Line) /\ job.item \in DOMAIN Items /\ job.item \in Nat
      /\ DOMAIN Items \subseteq Nat /\ FiledUpTo(job.item)
  BY <1>1, PacketFacts
<1>3. CASE Item.what = "bad"
  <2>1. Back(2)
    BY <1>3 DEF NextItem
  <2> QED
    BY <2>1, <1>1, <1>2, BackFiles
<1>4. CASE Item.what # "bad"
  <2>1. /\ job' = [job EXCEPT !.item = @ + 1] /\ mem' = mem /\ lines' = lines /\ pc' = pc
        /\ UNCHANGED packFiles
    BY <1>1, <1>4 DEF NextItem, packFiles
  <2>2. /\ job'.line = job.line /\ job'.groupOk = job.groupOk /\ job'.prog = "packdis"
        /\ job'.item = job.item + 1
    BY <2>1, <1>2 DEF IsPackJob
  <2>3. (LinesKept /\ PacketsSafe /\ ArchiveKept /\ GroupFiled)'
    BY <2>1, <2>2, <1>2, InPacket
  <2>4. FiledUpTo(job.item + 1)
    BY <1>1, <1>2, UpToNext DEF Item
  <2>5. PICK n : n = job.item + 1
    OBVIOUS
  <2>6. FiledUpTo(n)'
    <3>1. Stores' /\ (\A b \in Bases : mem.top[b] <= mem'.top[b]) /\ FiledUpTo(n)
      BY <2>1, <2>4, <2>5, <1>2 DEF NetInv, Stores
    <3> QED
      BY <3>1, <2>1, <2>2, <1>2, UpToStays
  <2>7. FiledUpTo(job.item)'
    BY <2>2, <2>5, <2>6 DEF FiledUpTo
  <2>8. FiledSoFar'
    BY <2>1, <2>7, <1>1 DEF FiledSoFar, Filing
  <2> QED
    BY <2>3, <2>8 DEF PacketInv
<1> QED
  BY <1>3, <1>4

LEMMA ClaimFiles ==
  ASSUME NetInv, Grown, PacketInv, WriteMsg \/ WriteLoc, NetInv'
  PROVE  PacketInv'
<1>1. pc \in {"item", "loc"} /\ pc \in AtItem
  BY DEF WriteMsg, WriteLoc, AtItem
<1>2. /\ Stores /\ Headed /\ job.prog = "packdis" /\ IsPackJob(job) /\ pc # "exit" /\ pc # "idle"
      /\ job.line \in DOMAIN lines /\ Todo(Line) /\ AtPacket /\ FiledUpTo(job.item)
  BY <1>1, PacketFacts
<1>3. PICK b \in Bases : ClaimFirst(b) /\ b = IF pc = "item" /\ WantsMsg(Item.of) THEN "msg" ELSE "loc"
  BY DEF WriteMsg, WriteLoc, Bases
<1>4. there' = there /\ UNCHANGED disk
  BY <1>3 DEF ClaimFirst
<1>5. CASE Full(b)
  <2>1. Back(1)
    BY <1>3, <1>5 DEF ClaimFirst
  <2> QED
    BY <2>1, <1>1, <1>2, <1>4, BackFiles
<1>6. CASE ~Full(b)
  <2>1. Claim(b, Letter(Item.of)) /\ pc' = "put" /\ job' = job /\ lines' = lines /\ UNCHANGED packFiles
    BY <1>3, <1>4, <1>6 DEF ClaimFirst, packFiles
  <2>2. w'.base = b /\ w'.text = Letter(Item.of) /\ mem'.top = mem.top
    BY <2>1, <1>2 DEF Claim, Stores
  <2>3. (LinesKept /\ PacketsSafe /\ ArchiveKept /\ GroupFiled)'
    BY <2>1, <1>2, InPacket
  <2>4. FiledUpTo(job.item)'
    <3>1. PICK n : n = job.item
      OBVIOUS
    <3>2. Stores' /\ (\A c \in Bases : mem.top[c] <= mem'.top[c]) /\ FiledUpTo(n)
      BY <2>2, <3>1, <1>2 DEF NetInv, Stores
    <3>3. FiledUpTo(n)'
      BY <3>2, <2>1, <1>2, UpToStays
    <3> QED
      BY <3>1, <3>3, <2>1 DEF FiledUpTo
  <2>5. /\ b = "msg" => WantsMsg(Item.of)
        /\ b = "loc" => /\ WantsLoc(Item.of)
                        /\ WantsMsg(Item.of) => FiledIn("msg", mem.top["msg"], Item.of)
    BY <1>1, <1>2, <1>3 DEF PacketInv, FiledSoFar, WantsLoc
  <2>6. Item' = Item
    BY <2>1 DEF Item, Items, Line
  <2>7. /\ w'.base = "msg" => WantsMsg(Item.of)'
        /\ w'.base = "loc" => /\ WantsLoc(Item.of)'
                              /\ WantsMsg(Item.of)' => FiledIn("msg", mem.top["msg"], Item.of)'
        /\ (w.text = Letter(Item.of))'
    BY <2>2, <2>5, <2>6, <1>4 DEF WantsMsg, WantsLoc, ForUser, FiledIn, Letter
  <2>8. FiledSoFar'
    BY <2>1, <2>4, <2>7 DEF FiledSoFar, Filing
  <2> QED
    BY <2>3, <2>8 DEF PacketInv
<1> QED
  BY <1>5, <1>6

\* The same packet, at the same item.
LEMMA UpToGoesOn ==
  ASSUME NetInv, NetInv', Grown, PacketInv, AtPacket, UNCHANGED lines, job'.line = job.line,
         job'.item = job.item, \A b \in Bases : mem.top[b] <= mem'.top[b]
  PROVE  FiledUpTo(job.item)'
<1>1. Stores /\ Headed /\ Stores' /\ pc # "idle" /\ FiledUpTo(job.item)
  BY PacketFacts DEF NetInv, AtPacket, AtItem
<1>2. PICK n : n = job.item
  OBVIOUS
<1>3. FiledUpTo(n)'
  BY <1>1, <1>2, UpToStays
<1> QED
  BY <1>2, <1>3 DEF FiledUpTo

LEMMA PutFiles ==
  ASSUME NetInv, Grown, PacketInv, PackPut, NetInv'
  PROVE  PacketInv'
<1>1. pc = "put" /\ pc \in AtItem /\ job.prog = "packdis" /\ there' = there
  BY DEF PackPut, AtItem
<1>2. /\ Stores /\ Headed /\ IsPackJob(job) /\ job.line \in DOMAIN lines /\ Todo(Line) /\ AtPacket
      /\ pc # "exit"
  BY <1>1, PacketFacts
<1>3. ASSUME PutLink \/ (Flush /\ UNCHANGED <<mem, w>>), pc' \in {"put", "hdr"}, UNCHANGED <<job, lines>>
      PROVE  PacketInv'
  <2>1. HeadersSame
    BY <1>2, <1>3, WritesSame
  <2>2. w'.base = w.base /\ w'.text = w.text /\ mem'.top = mem.top
    BY <1>2, <1>3 DEF PutLink, Stores
  <2>3. (LinesKept /\ PacketsSafe /\ ArchiveKept /\ GroupFiled)'
    BY <1>1, <1>2, <1>3, InPacket DEF packFiles
  <2>4. FiledUpTo(job.item)'
    <3>1. \A b \in Bases : mem.top[b] <= mem'.top[b]
      BY <2>2, <1>2 DEF Stores
    <3> QED
      BY <3>1, <1>2, <1>3, UpToGoesOn
  <2>5. Item' = Item
    BY <1>3 DEF Item, Items, Line
  <2>6. /\ w.text = Letter(Item.of)
        /\ w.base = "msg" => WantsMsg(Item.of)
        /\ w.base = "loc" => /\ WantsLoc(Item.of)
                             /\ WantsMsg(Item.of) => FiledIn("msg", mem.top["msg"], Item.of)
    BY <1>1, <1>2 DEF PacketInv, FiledSoFar, Filing
  <2>7. disk'["msg"].hdr = disk["msg"].hdr
    BY <2>1 DEF HeadersSame, Bases
  <2>8. /\ (w.text = Letter(Item.of))'
        /\ w'.base = "msg" => WantsMsg(Item.of)'
        /\ w'.base = "loc" => /\ WantsLoc(Item.of)'
                              /\ WantsMsg(Item.of)' => FiledIn("msg", mem.top["msg"], Item.of)'
    BY <2>2, <2>5, <2>6, <2>7 DEF WantsMsg, WantsLoc, ForUser, FiledIn, Letter
  <2>9. FiledSoFar'
    BY <1>3, <2>4, <2>8 DEF FiledSoFar, Filing
  <2> QED
    BY <2>3, <2>9 DEF PacketInv
<1>4. CASE PutLink /\ UNCHANGED <<faults, pc, job, lines>>
  BY <1>1, <1>3, <1>4
<1>5. CASE Flush /\ pc' = "hdr" /\ UNCHANGED <<faults, mem, w, job, lines>>
  BY <1>3, <1>5
<1>6. CASE Back(1)
  BY <1>1, <1>6, BackFiles
<1>7. CASE Back(IF w.base = "loc" THEN 3 ELSE 2)
  <2>1. CASE w.base = "loc"
    BY <2>1, <1>1, <1>7, BackFiles
  <2>2. CASE w.base # "loc"
    BY <2>2, <1>1, <1>7, BackFiles
  <2> QED
    BY <2>1, <2>2
<1> QED
  BY <1>4, <1>5, <1>6, <1>7 DEF PackPut

LEMMA HeaderFiles ==
  ASSUME NetInv, Grown, PacketInv, PackHeader, NetInv'
  PROVE  PacketInv'
<1>1. pc = "hdr" /\ pc \in AtItem /\ job.prog = "packdis" /\ there' = there /\ w' = w
  BY DEF PackHeader, AtItem
<1>2. /\ Stores /\ Headed /\ IsPackJob(job) /\ job.line \in DOMAIN lines /\ Todo(Line) /\ AtPacket
      /\ pc # "exit" /\ pc # "idle" /\ FiledUpTo(job.item) /\ job.item \in DOMAIN Items
      /\ job.item \in Nat /\ DOMAIN Items \subseteq Nat /\ w.base \in Bases
  <2>1. w.base \in Bases
    BY <1>1, PacketFacts DEF Stores
  <2> QED
    BY <2>1, <1>1, PacketFacts
<1>3. /\ w.text = Letter(Item.of)
      /\ w.base = "msg" => WantsMsg(Item.of)
      /\ w.base = "loc" => /\ WantsLoc(Item.of)
                           /\ WantsMsg(Item.of) => FiledIn("msg", mem.top["msg"], Item.of)
  BY <1>1, <1>2 DEF PacketInv, FiledSoFar, Filing
<1>4. CASE WriteFault /\ Back(3)
  BY <1>1, <1>4, BackFiles
<1>5. ASSUME NEW h, PutHeader(w.base, h), h.text = w.text, UNCHANGED lines,
             IF w.base = "msg" /\ WantsLoc(Item.of) THEN pc' = "loc" /\ UNCHANGED job
             ELSE pc' = "item" /\ job' = [job EXCEPT !.item = @ + 1]
      PROVE  PacketInv'
  <2>1. PICK b \in Bases : b = w.base
    BY <1>2
  <2>2. /\ mem.top[b] \in Nat /\ mem'.top[b] = mem.top[b] + 1
        /\ disk'[b].hdr[mem.top[b] + 1] = h
        /\ \A c \in Bases : c # b => mem'.top[c] = mem.top[c] /\ disk'[c].hdr = disk[c].hdr
    BY <2>1, <1>2, <1>5, HeaderGrows
  <2>3. /\ job'.line = job.line /\ job'.groupOk = job.groupOk /\ job'.prog = "packdis"
        /\ job'.item = IF b = "msg" /\ WantsLoc(Item.of) THEN job.item ELSE job.item + 1
    BY <2>1, <1>2, <1>5 DEF IsPackJob
  <2>4. (LinesKept /\ PacketsSafe /\ ArchiveKept /\ GroupFiled)'
    BY <2>3, <1>1, <1>2, <1>5, InPacket DEF packFiles
  <2>5. PICK l : l = Item.of
    OBVIOUS
\* The letter is in the base that it was written to.
  <2>6. PICK n \in Nat : n = mem.top[b] + 1 /\ n \in 1 .. n
    BY <2>2
  <2>7. FiledIn(b, mem.top[b], l)'
    <3>1. disk'[b].hdr[n].text = Letter(l) /\ mem'.top[b] = n
      BY <2>2, <2>5, <2>6, <1>3, <1>5
    <3> QED
      BY <2>6, <3>1 DEF FiledIn
  <2>8. \A c \in Bases : mem.top[c] <= mem'.top[c]
    BY <2>2, <1>2 DEF Stores
  <2>9. CASE b = "msg" /\ WantsLoc(l)
    <3>1. /\ pc' = "loc" /\ job' = job /\ WantsMsg(l) /\ FiledIn("msg", mem.top["msg"], l)'
          /\ WantsLoc(l)
      BY <2>1, <2>5, <2>7, <2>9, <1>3, <1>5
    <3>2. FiledUpTo(job.item)'
      BY <3>1, <2>8, <1>2, <1>5, UpToGoesOn
    <3>3. Item' = Item
      BY <3>1, <1>5 DEF Item, Items, Line
    <3>4. (WantsMsg(Item.of) /\ WantsLoc(Item.of) /\ FiledIn("msg", mem.top["msg"], Item.of))'
      BY <3>1, <3>3, <2>5 DEF WantsMsg, WantsLoc, ForUser, FiledIn, Letter
    <3>5. FiledSoFar'
      BY <3>1, <3>2, <3>4 DEF FiledSoFar, Filing
    <3> QED
      BY <3>5, <2>4 DEF PacketInv
  <2>10. CASE ~(b = "msg" /\ WantsLoc(l))
    <3>1. pc' = "item" /\ job'.item = job.item + 1
      BY <2>1, <2>3, <2>5, <2>10, <1>5
    <3>2. FiledTo(mem.top["msg"], mem.top["loc"], l)'
      <4>1. CASE b = "msg"
        BY <4>1, <2>7, <2>10 DEF FiledTo
      <4>2. CASE b = "loc"
        <5>1. mem'.top["msg"] = mem.top["msg"] /\ disk'["msg"].hdr = disk["msg"].hdr
          BY <4>2, <2>2 DEF Bases
        <5>2. WantsMsg(l) => FiledIn("msg", mem.top["msg"], l)'
          BY <5>1, <4>2, <2>1, <2>5, <1>3 DEF FiledIn
        <5> QED
          BY <5>2, <4>2, <2>7 DEF FiledTo
      <4> QED
        BY <4>1, <4>2 DEF Bases
    <3>3. PICK i \in Nat : i = job.item
      BY <1>2
    <3>4. FiledUpTo(job.item)'
      <4>1. FiledUpTo(i)'
        BY <3>3, <2>3, <2>8, <1>2, <1>5, UpToStays DEF NetInv
      <4>2. Items' = Items
        BY <2>3, <1>5 DEF Items, Line
      <4>3. \A k \in DOMAIN Items : k < i + 1 => k < i \/ k = i
        BY <1>2
      <4>4. job'.item = i + 1 /\ Items[i].of = l
        BY <3>1, <3>3, <2>5 DEF Item
      <4> QED
        BY <4>1, <4>2, <4>3, <4>4, <3>2 DEF FiledUpTo, IsLetter, FiledTo, FiledIn
    <3>5. FiledSoFar'
      BY <3>1, <3>4 DEF FiledSoFar, Filing
    <3> QED
      BY <3>5, <2>4 DEF PacketInv
  <2> QED
    BY <2>9, <2>10
<1> QED
  BY <1>4, <1>5 DEF PackHeader

\* The last steps of a packet that is filed: all of it is read, then written.
LEMMA EndPacketFiles ==
  ASSUME NetInv, Grown, PacketInv, EndPacket, NetInv'
  PROVE  PacketInv'
<1>1. /\ pc = "item" /\ pc \in AtItem /\ job.item > Len(Items) /\ pc' = "free" /\ UNCHANGED packFiles
      /\ job' = [job EXCEPT !.base = "loc"] /\ UNCHANGED mem /\ lines' = lines
  BY DEF EndPacket, AtItem, packFiles, baseVars
<1>2. /\ Stores /\ job.prog = "packdis" /\ IsPackJob(job) /\ job.line \in DOMAIN lines /\ Todo(Line)
      /\ AtPacket /\ pc # "exit"
  BY <1>1, PacketFacts
<1>3. /\ job'.line = job.line /\ job'.groupOk = job.groupOk /\ job'.item = job.item
      /\ job'.base = "loc"
  BY <1>1, <1>2 DEF IsPackJob
<1>4. (LinesKept /\ PacketsSafe /\ ArchiveKept /\ GroupFiled)'
  BY <1>1, <1>2, <1>3, InPacket
<1>5. FiledUpTo(job.item)'
  <2>1. \A b \in Bases : mem.top[b] <= mem'.top[b]
    BY <1>1, <1>2 DEF Stores
  <2> QED
    BY <2>1, <1>1, <1>2, <1>3, UpToGoesOn
<1>6. (job.item > Len(Items))'
  BY <1>1, <1>3 DEF Items, Line
<1> QED
  BY <1>1, <1>3, <1>4, <1>5, <1>6 DEF PacketInv, FiledSoFar, Filing

LEMMA CommitFiles ==
  ASSUME NetInv, Grown, PacketInv, Commit, NetInv'
  PROVE  PacketInv'
<1>1. /\ pc \in {"free", "top"} /\ pc \in AtItem /\ job.prog = "packdis" /\ UNCHANGED <<mem, packFiles>>
      /\ lines' = lines
  BY DEF Commit, AtItem, packFiles
<1>2. /\ Stores /\ IsPackJob(job) /\ job.line \in DOMAIN lines /\ Todo(Line) /\ AtPacket
      /\ pc # "exit" /\ job.base \in Bases
  BY <1>1, PacketFacts
<1>3. PICK rc \in {job.rc, 3} :
        /\ \/ /\ rc = job.rc
              /\ IF pc = "free" THEN WriteFree(job.base) ELSE WriteTop(job.base)
           \/ rc = 3 /\ UNCHANGED disk
        /\ job' = [job EXCEPT !.rc = rc, !.base = IF pc = "top" THEN "msg" ELSE @]
        /\ pc' = CASE pc = "free" -> "top"
                   [] pc = "top" /\ rc = 3 -> "exit"
                   [] OTHER -> IF job.base = "loc" THEN "free" ELSE "done"
  BY DEF Commit
<1>4. PICK base : /\ base = IF pc = "top" THEN "msg" ELSE job.base
                  /\ job' = [job EXCEPT !.rc = rc, !.base = base]
  BY <1>3
<1>5. /\ job'.line = job.line /\ job'.groupOk = job.groupOk /\ job'.item = job.item
      /\ job'.base = base
  BY <1>2, <1>4 DEF IsPackJob
<1>6. (LinesKept /\ PacketsSafe /\ ArchiveKept /\ GroupFiled)'
  BY <1>1, <1>2, <1>5, InPacket
<1>7. CASE pc' = "exit"
  BY <1>6, <1>7 DEF PacketInv, FiledSoFar, AtPacket, AtItem
<1>8. CASE pc' # "exit"
  <2>1. /\ pc' \in {"free", "top", "done"}
        /\ pc = "free" => pc' = "top"
        /\ pc = "top" => rc # 3 /\ (pc' = IF job.base = "loc" THEN "free" ELSE "done")
    BY <1>1, <1>3, <1>8
  <2>2. FiledUpTo(job.item)'
    <3>1. \A b \in Bases : mem.top[b] <= mem'.top[b]
      BY <1>1, <1>2 DEF Stores
    <3> QED
      BY <3>1, <1>1, <1>2, <1>5, UpToGoesOn
  <2>3. (job.item > Len(Items))'
    <3>1. job.item > Len(Items)
      BY <1>1, <1>2 DEF PacketInv, FiledSoFar
    <3> QED
      BY <3>1, <1>1, <1>5 DEF Items, Line
  <2>4. job.base = "msg" => disk["loc"].top = mem.top["loc"]
    BY <1>1, <1>2 DEF PacketInv, FiledSoFar
  <2>5. CASE pc = "free"
    <3>1. disk'["loc"].top = disk["loc"].top
      <4>1. disk' = disk \/ WriteFree(job.base)
        BY <2>5, <1>3
      <4> QED
        BY <4>1, <1>2 DEF WriteFree, Stores, BaseSet, Bases
    <3>2. pc' = "top" /\ job'.base = job.base
      BY <2>1, <2>5, <1>4, <1>5
    <3> QED
      BY <3>1, <3>2, <2>2, <2>3, <2>4, <1>1, <1>6 DEF PacketInv, FiledSoFar, Filing
  <2>6. CASE pc = "top"
    <3>1. WriteTop(job.base)
      BY <2>1, <2>6, <1>3
    <3>2. \A b \in Bases : disk'[b].top = IF b = job.base THEN mem.top[b] ELSE disk[b].top
      BY <3>1, <1>2 DEF WriteTop, Stores, BaseSet
    <3>3. CASE job.base = "loc"
      <4>1. pc' = "free" /\ job'.base = "msg" /\ disk'["loc"].top = mem.top["loc"]
        BY <3>2, <3>3, <2>1, <2>6, <1>4, <1>5 DEF Bases
      <4> QED
        BY <4>1, <2>2, <2>3, <1>1, <1>6 DEF PacketInv, FiledSoFar, Filing
    <3>4. CASE job.base = "msg"
      <4>1. pc' = "done" /\ \A b \in Bases : disk'[b].top = mem.top[b]
        BY <3>2, <3>4, <2>1, <2>4, <2>6 DEF Bases
      <4> QED
        BY <4>1, <2>2, <2>3, <1>1, <1>6 DEF PacketInv, FiledSoFar, Filing
    <3> QED
      BY <3>3, <3>4, <1>2 DEF Bases
  <2> QED
    BY <2>5, <2>6, <1>1
<1> QED
  BY <1>7, <1>8

\* Once all of the packet is read and the tops are written, its letters are filed.
LEMMA PacketDone ==
  ASSUME NetInv, PacketInv, pc \in {"done", "status"}
  PROVE  AllFiled(Line.name)
<1>1. pc \in AtItem
  BY DEF AtItem
<1>2. AtPacket /\ DOMAIN Items = 1 .. Len(Items) /\ job.item \in Nat /\ Len(Items) \in Nat
  BY <1>1, PacketFacts
<1>3. FiledUpTo(job.item) /\ job.item > Len(Items) /\ \A b \in Bases : disk[b].top = mem.top[b]
  BY <1>2 DEF PacketInv, FiledSoFar
<1>4. disk["msg"].top = mem.top["msg"] /\ disk["loc"].top = mem.top["loc"]
  BY <1>3 DEF Bases
<1>5. \A k \in DOMAIN Items : k < job.item
  BY <1>2, <1>3
<1> QED
  BY <1>3, <1>4, <1>5 DEF AllFiled, FiledUpTo, Items

LEMMA UnlinkFiles ==
  ASSUME NetInv, Grown, PacketInv, Unlink, NetInv'
  PROVE  PacketInv'
<1>1. /\ pc = "done" /\ pc \in AtItem /\ pc' = "status" /\ UNCHANGED <<disk, mem, lines, job>>
      /\ there' = IF job.rFlag THEN there \ {Line.name} ELSE there
  BY DEF Unlink, AtItem, baseVars
<1>2. /\ Stores /\ Headed /\ Rest /\ job.prog = "packdis" /\ job.line \in DOMAIN lines /\ Todo(Line)
      /\ AtPacket /\ job.line \in Nat /\ job.line # 0 /\ Relined
      /\ Line.name \in DOMAIN Content
  BY <1>1, PacketFacts, RelinedSame DEF NetInv
<1>3. LinesKept /\ PacketsSafe /\ ArchiveKept /\ GroupFiled /\ FiledSoFar
  BY DEF PacketInv
<1>4. LinesKept'
  <2>1. Todo(Line)'
    BY <1>1, <1>2, Zenon DEF Todo, Line
  <2> QED
    BY <2>1, <1>2, <1>3, NamesStay
<1>5. PacketsSafe'
  <2>1. AllFiled(Line.name)
    BY <1>1, PacketDone
  <2>2. \A i \in DOMAIN lines : lines[i].name \notin there' => lines[i].name \notin there \/ lines[i].name = Line.name
    BY <1>1
  <2> QED
    BY <2>1, <2>2, <1>1, <1>2, <1>3, SafeStays
<1>6. ArchiveKept'
  <2>1. \A i \in DOMAIN lines : lines[i].name \notin DOMAIN Content /\ lines[i].name \notin there' =>
          lines[i].name \notin there
    BY <1>1, <1>2
  <2> QED
    BY <2>1, <1>2, <1>3, ArchivesStay
<1>7. GroupFiled'
  <2>1. job.line <= Len(lines) + 1 /\ job.line \in Nat \ {0} /\ pc # "exit"
    BY <1>1, <1>2 DEF Rest
  <2> QED
    BY <2>1, <1>1, <1>2, <1>3, GroupHolds
<1>8. FiledSoFar'
  <2>1. FiledUpTo(job.item)'
    <3>1. \A b \in Bases : mem.top[b] <= mem'.top[b]
      BY <1>1, <1>2 DEF Stores
    <3> QED
      BY <3>1, <1>1, <1>2, UpToGoesOn
  <2>2. job.item > Len(Items) /\ \A b \in Bases : disk[b].top = mem.top[b]
    BY <1>1, <1>2, <1>3 DEF FiledSoFar
  <2>3. (job.item > Len(Items) /\ \A b \in Bases : disk[b].top = mem.top[b])'
    BY <2>2, <1>1 DEF Items, Line
  <2> QED
    BY <2>1, <2>3, <1>1 DEF FiledSoFar, Filing
<1> QED
  BY <1>4, <1>5, <1>6, <1>7, <1>8 DEF PacketInv

LEMMA StatusFiles ==
  ASSUME NetInv, Grown, PacketInv, Status, NetInv'
  PROVE  PacketInv'
<1>1. /\ pc = "status" /\ pc \in AtItem /\ there' = there
      /\ lines' = [lines EXCEPT ![job.line].st = "-"]
      /\ pc' = "line" /\ job' = [job EXCEPT !.line = @ + 1]
  BY DEF Status, AtItem
<1>2. /\ Rest /\ job.prog = "packdis" /\ job.line \in DOMAIN lines /\ Todo(lines[job.line])
      /\ IsPackJob(job) /\ pc # "exit"
  BY <1>1, PacketFacts DEF Line
<1>3. Relined
  BY <1>1, <1>2, RelinedTo
<1>4. lines'[job.line].st = "-" /\ \A j \in DOMAIN lines : j # job.line => lines'[j] = lines[j]
  BY <1>1, <1>2, Remarked
<1>5. job'.line = job.line + 1 /\ job'.groupOk = job.groupOk /\ job.groupOk \in BOOLEAN
  <2>1. job.groupOk \in BOOLEAN
    BY <1>2 DEF PacketInv, GroupFiled
  <2> QED
    BY <2>1, <1>1, <1>2 DEF IsPackJob
<1>6. AllFiled(lines[job.line].name)
  BY <1>1, PacketDone DEF Line
<1>7. \A i \in DOMAIN lines : lines[i].name \in DOMAIN Content /\ Passed(lines'[i]) =>
        Passed(lines[i]) \/ AllFiled(lines[i].name)
  BY <1>4, <1>6
<1>8. pc' \notin AtItem /\ Passed(lines'[job.line])
  BY <1>1, <1>4 DEF AtItem, Passed
<1> QED
  BY <1>1, <1>2, <1>3, <1>5, <1>7, <1>8, OutOfPacket

LEMMA PackdisFiles ==
  ASSUME NetInv, Grown, PacketInv, PackdisStep, NetInv'
  PROVE  PacketInv'
BY LineFiles, OpenFailsFiles, OpenFiles, EndBatchFiles, NextItemFiles, ClaimFiles, PutFiles, HeaderFiles,
   EndPacketFiles, CommitFiles, UnlinkFiles, StatusFiles DEF PackdisStep

\* The other programs stay what they are, and only packdis looks at packets.
LEMMA ProgStays ==
  ASSUME NetInv, MailassStep \/ BbassStep
  PROVE  job.prog \in {"mailass", "bbass"} /\ job'.prog = job.prog /\ pc # "idle"
<1>1. ASSUME MailassStep
      PROVE  job.prog = "mailass" /\ job \in ScanJobs /\ pc # "idle"
  <2>1. job.prog = "mailass" \/ pc \in {"del", "mark"}
    BY <1>1 DEF MailassStep, Scan, LocalClaim, BounceClaim, MailPut, LocalPutFails, BouncePutFails,
                MailHeader, MailAppend, MailBody, MailSetproc, DeleteFree, DeleteMark, MailClose
  <2> QED
    BY <2>1, MailPlace DEF NetInv, MailPcs
<1>2. ASSUME BbassStep
      PROVE  job.prog = "bbass" /\ job \in ScanJobs /\ pc # "idle"
  <2>1. job.prog = "bbass"
    BY <1>2 DEF BbassStep, BbScan, BbAppend, BbBody, BbSetproc, BbLocal, BbPut, BbHeader, BbClose
  <2> QED
    BY <2>1, BbPlace DEF NetInv, BbPcs
<1>3. ASSUME MailassStep
      PROVE  \/ job' = job
             \/ \E i : job' = [job EXCEPT !.this = i]
             \/ \E i, t : job' = [job EXCEPT !.this = i, !.text = t]
  <2>1. CASE Scan
    BY <2>1, Zenon DEF Scan
  <2>2. CASE DeleteMark
    BY <2>2, Zenon DEF DeleteMark
  <2>3. CASE ~Scan /\ ~DeleteMark
    BY <2>3, <1>3 DEF MailassStep, LocalClaim, BounceClaim, MailPut, LocalPutFails, BouncePutFails,
                      MailHeader, MailAppend, MailBody, MailSetproc, DeleteFree, MailClose
  <2> QED
    BY <2>1, <2>2, <2>3
<1>4. ASSUME BbassStep
      PROVE  \/ job' = job
             \/ \E i : job' = [job EXCEPT !.this = i]
             \/ \E i, t : job' = [job EXCEPT !.this = i, !.text = t]
  <2>1. CASE BbScan
    BY <2>1, Zenon DEF BbScan
  <2>2. CASE BbSetproc
    BY <2>2, Zenon DEF BbSetproc
  <2>3. CASE BbHeader
    BY <2>3, Zenon DEF BbHeader
  <2>4. CASE ~BbScan /\ ~BbSetproc /\ ~BbHeader
    BY <2>4, <1>4 DEF BbassStep, BbAppend, BbBody, BbLocal, BbPut, BbClose
  <2> QED
    BY <2>1, <2>2, <2>3, <2>4
<1>5. ASSUME job \in ScanJobs,
             \/ job' = job
             \/ \E i : job' = [job EXCEPT !.this = i]
             \/ \E i, t : job' = [job EXCEPT !.this = i, !.text = t]
      PROVE  job'.prog = job.prog
  <2>1. ASSUME NEW i, job' = [job EXCEPT !.this = i] PROVE job'.prog = job.prog
    BY <1>5, <2>1 DEF ScanJobs
  <2>2. ASSUME NEW i, NEW t, job' = [job EXCEPT !.this = i, !.text = t] PROVE job'.prog = job.prog
    BY <1>5, <2>2 DEF ScanJobs
  <2> QED
    BY <1>5, <2>1, <2>2
<1>6. CASE MailassStep
  BY <1>1, <1>3, <1>5, <1>6
<1>7. CASE BbassStep
  BY <1>2, <1>4, <1>5, <1>7
<1> QED
  BY <1>6, <1>7

LEMMA StartFiles ==
  ASSUME NetInv, Grown, PacketInv, Start
  PROVE  PacketInv'
<1>1. CASE StartMailass \/ StartBbass
  <2>1. job'.prog # "packdis" /\ UNCHANGED packFiles
    BY <1>1 DEF Start, StartMailass, StartBbass, StartPackdis
  <2> QED
    BY <2>1, PacketsAlone
<1>2. CASE \E r \in BOOLEAN : StartPackdis(r)
  <2>1. /\ pc' = "line" /\ job'.prog = "packdis" /\ job'.line = 1 /\ job'.groupOk = TRUE
        /\ there' = there /\ lines' = lines
    BY <1>2 DEF StartPackdis
  <2>2. /\ Stores /\ Headed /\ Rest /\ Relined /\ LinesKept /\ PacketsSafe /\ ArchiveKept
    BY <2>1, RelinedSame DEF NetInv, PacketInv
  <2>3. LinesKept' /\ PacketsSafe' /\ ArchiveKept'
    BY <2>1, <2>2, NamesStay, SafeStays, ArchivesStay DEF Passed, AtPacket, AtItem
  <2>4. GroupFiled'
    <3>1. PICK n \in Nat \ {0} : n = 1
      OBVIOUS
    <3>2. Group(n)' = Group(n) /\ Group(n) = {}
      BY <3>1, <2>2, GroupsStay, GroupLast DEF Rest
    <3>3. Group(job.line)' = {}
      BY <3>1, <3>2, <2>1 DEF Group
    <3> QED
      BY <3>3, <2>1 DEF GroupFiled
  <2>5. FiledSoFar'
    BY <2>1 DEF FiledSoFar, AtPacket, AtItem
  <2> QED
    BY <2>3, <2>4, <2>5 DEF PacketInv
<1> QED
  BY <1>1, <1>2 DEF Start

LEMMA PacketsKept == NetInv /\ PacketInv /\ [Next]_vars => PacketInv'
<1> SUFFICES ASSUME NetInv, PacketInv, [Next]_vars PROVE PacketInv'
  OBVIOUS
<1>1. Grown /\ NetInv' /\ Places
  BY StepGrows, StepKeeps DEF NetInv
<1>2. pc = "idle" => job = NoJob
  BY <1>1 DEF Places, PackPcs, MailPcs, BbPcs
<1>3. NoJob.prog # "packdis"
  BY DEF NoJob
<1>4. CASE Start
  BY <1>1, <1>4, StartFiles
<1>5. CASE PackdisStep
  BY <1>1, <1>5, PackdisFiles
<1>6. CASE (MailassStep \/ BbassStep) /\ UNCHANGED packFiles
  BY <1>1, <1>6, ProgStays, PacketsAlone
<1>7. CASE (Exit /\ UNCHANGED packFiles) \/ Crash
  <2>1. job' = NoJob /\ UNCHANGED packFiles
    BY <1>7 DEF Exit, Crash, Gone
  <2> QED
    BY <2>1, <1>1, <1>3, PacketsAlone
<1>8. CASE (\E e \in toEnter : Enter(e)) \/ \E x \in Links : Collect(x)
  <2>1. pc = "idle" /\ job' = job /\ UNCHANGED packFiles
    BY <1>8 DEF Enter, Collect
  <2> QED
    BY <2>1, <1>1, <1>2, <1>3, PacketsAlone
<1>9. CASE UNCHANGED vars
  <2>1. UNCHANGED <<disk, mem, w, pc, job, there, lines>>
    BY <1>9 DEF vars, baseVars, packFiles
  <2>2. UNCHANGED <<LinesKept, FiledSoFar, PacketsSafe, ArchiveKept, GroupFiled>>
    BY <2>1 DEF LinesKept, FiledSoFar, PacketsSafe, ArchiveKept, GroupFiled, AtPacket, Line, Todo, FiledUpTo,
                FiledTo, FiledIn, AllFiled, Group, Items, Item, Filing, IsLetter
  <2> QED
    BY <2>2 DEF PacketInv
<1> QED
  BY <1>4, <1>5, <1>6, <1>7, <1>8, <1>9 DEF Next, Step

LEMMA StateIn ==
  ASSUME NEW S, NEW s \in Seq([st : S, name : STRING]), NEW i \in DOMAIN s
  PROVE  s[i].st \in S
<1> DEFINE R == [st : S, name : STRING]
<1>1. s \in Seq(R)
  OBVIOUS
<1> HIDE DEF R
<1>2. s[i] \in R
  BY <1>1
<1> QED
  BY <1>2 DEF R

LEMMA PacketsAtFirst == Init => PacketInv
<1> SUFFICES ASSUME Init PROVE PacketInv
  OBVIOUS
<1>1. PICK s \in Scenes : lines = s.lines
  BY DEF Init
<1>2. /\ \A i \in DOMAIN lines : lines[i].st = "A" <=> lines[i].name \notin DOMAIN Content
      /\ lines \in Seq([st : {" ", "E", "A"}, name : STRING])
  BY <1>1, NetMailAssumption, Zenon
<1>3. \A i \in DOMAIN lines : lines[i].st \in {" ", "E", "A"}
  <2> DEFINE S == {" ", "E", "A"}
  <2>1. lines \in Seq([st : S, name : STRING])
    BY <1>2, Zenon
  <2> HIDE DEF S
  <2>2. \A i \in DOMAIN lines : lines[i].st \in S
    BY <2>1, StateIn
  <2> QED
    BY <2>2, Zenon DEF S
<1>4. \A i \in DOMAIN lines : /\ IsArchive(lines[i]) <=> lines[i].st = "A"
                              /\ ~Passed(lines[i])
  BY <1>3, Zenon DEF IsArchive, Passed
<1>5. \A i \in DOMAIN lines : lines[i].name \in there
  BY DEF Init
<1>6. ~AtPacket /\ job.prog # "packdis"
  BY DEF Init, BaseInit, NoJob, AtPacket
<1>7. LinesKept
  BY <1>2, <1>4, <1>6 DEF LinesKept
<1>8. PacketsSafe /\ ArchiveKept
  BY <1>4, <1>5 DEF PacketsSafe, ArchiveKept
<1> QED
  BY <1>6, <1>7, <1>8 DEF PacketInv, FiledSoFar, GroupFiled

\* The invariant says of packets and archives what the property asks.
LEMMA PacketsSound == PacketInv => PacketsFiled /\ ArchiveKept
<1> SUFFICES ASSUME PacketInv PROVE PacketsFiled
  BY DEF PacketInv
<1>1. ASSUME NEW l, FiledTo(disk["msg"].top, disk["loc"].top, l)
      PROVE  Filed(l)
  BY <1>1 DEF FiledTo, FiledIn, Filed, Listed
<1> QED
  BY <1>1 DEF PacketInv, PacketsSafe, PacketsFiled, AllFiled, Passed


-----------------------------------------------------------------------------
(* What a step does to the headers, as long as nothing fails.              *)

\* A header written now makes sense: only letters go out, and a notice to Sysop stays.
Proper(h) ==
  /\ "OUTGOING" \in h.flags => h.text.kind = "letter"
  /\ h.text.kind = "sysop" => h.flags \cap {"OUTGOING", "INTRANSIT"} = {}

\* The message at work is marked as processed.
MarkedNow(b, i) ==
  pc = "proc" /\ pc' # "proc" /\ i = job.this /\ job.prog = IF b = "loc" THEN "mailass" ELSE "bbass"

\* A header that counts afterwards is as before, got a flag, or is new.
HeadStep(b, i) ==
  \/ i \in 1 .. Count(b) /\ disk'[b].hdr[i] = disk[b].hdr[i]
  \/ /\ i \in 1 .. Count(b)
     /\ \E flag \in {"PROCESSED", "DELETED"} :
          /\ disk'[b].hdr[i].flags = disk[b].hdr[i].flags \cup {flag}
          /\ disk'[b].hdr[i].text = disk[b].hdr[i].text
          /\ flag = "PROCESSED" => MarkedNow(b, i)
  \/ /\ "PROCESSED" \notin disk'[b].hdr[i].flags
     /\ b = "loc" => Proper(disk'[b].hdr[i])
HeadsStep == \A b \in Bases : \A i \in 1 .. Count(b)' : HeadStep(b, i)

LEMMA HeadsSame ==
  ASSUME Stores, Headed, HeadersSame,
         \A b \in Bases : \/ pc' = "idle" /\ disk'[b].top = disk[b].top
                          \/ pc' # "idle" /\ mem'.top[b] = disk[b].top
                          \/ pc' # "idle" /\ pc # "idle" /\ mem'.top[b] = mem.top[b]
  PROVE  HeadsStep
<1> SUFFICES ASSUME NEW b \in Bases, NEW i \in 1 .. Count(b)'
             PROVE  i \in 1 .. Count(b) /\ disk'[b].hdr[i] = disk[b].hdr[i]
  BY DEF HeadsStep, HeadStep
<1>1. disk[b].top \in Nat /\ mem.top[b] \in Nat /\ disk[b].top <= Count(b) /\ Count(b) \in Nat
  BY HasFacts DEF Headed
<1>2. Count(b)' = disk[b].top \/ Count(b)' = Count(b)
  BY DEF Count
<1> QED
  BY <1>1, <1>2 DEF HeadersSame

LEMMA HeadsAdded ==
  ASSUME Stores, Headed, pc # "idle", pc' # "idle", NEW b \in Bases, NEW h, PutHeader(b, h),
         "PROCESSED" \notin h.flags, b = "loc" => Proper(h)
  PROVE  HeadsStep
<1>1. /\ mem.top[b] \in Nat /\ mem'.top[b] = mem.top[b] + 1
      /\ disk'[b].hdr[mem.top[b] + 1] = h
      /\ \A i \in 1 .. mem.top[b] : disk'[b].hdr[i] = disk[b].hdr[i]
      /\ \A c \in Bases : c # b => disk'[c].hdr = disk[c].hdr /\ mem'.top[c] = mem.top[c]
  BY HeaderGrows
<1> SUFFICES ASSUME NEW c \in Bases, NEW i \in 1 .. Count(c)' PROVE HeadStep(c, i)
  BY DEF HeadsStep
<1>2. CASE c # b
  BY <1>1, <1>2 DEF HeadStep, Count
<1>3. CASE c = b
  <2>1. i \in 1 .. mem.top[b] \/ i = mem.top[b] + 1
    BY <1>1, <1>3 DEF Count
  <2>2. CASE i \in 1 .. mem.top[b]
    BY <2>2, <1>1, <1>3 DEF HeadStep, Count
  <2>3. CASE i = mem.top[b] + 1
    BY <2>3, <1>1, <1>3 DEF HeadStep, Proper
  <2> QED
    BY <2>1, <2>2, <2>3
<1> QED
  BY <1>2, <1>3

LEMMA HeadsFlagged ==
  ASSUME Stores, Headed, pc # "idle", pc' # "idle", mem' = mem,
         NEW b \in Bases, NEW j \in 1 .. Count(b), NEW flag \in {"PROCESSED", "DELETED"}, SetFlag(b, j, flag),
         flag = "PROCESSED" => MarkedNow(b, j)
  PROVE  HeadsStep
<1>1. /\ \A c \in Bases : \A i \in 1 .. Count(c) : c # b \/ i # j => disk'[c].hdr[i] = disk[c].hdr[i]
      /\ disk'[b].hdr[j].flags = disk[b].hdr[j].flags \cup {flag}
      /\ disk'[b].hdr[j].text = disk[b].hdr[j].text
  BY FlagGrows
<1>2. \A c \in Bases : Count(c)' = Count(c)
  BY DEF Count
<1> QED
  BY <1>1, <1>2 DEF HeadsStep, HeadStep

LEMMA HeadsEntered ==
  ASSUME Stores, Headed, Rest, NEW e \in toEnter, Enter(e)
  PROVE  HeadsStep
<1>1. /\ e.base \in Bases /\ disk[e.base].top \in Nat
      /\ disk'[e.base].top = disk[e.base].top + 1
      /\ disk'[e.base].hdr[disk[e.base].top + 1].text = Letter(e.letter)
      /\ disk'[e.base].hdr[disk[e.base].top + 1].flags = IF e.base = "loc" THEN {"OUTGOING"} ELSE {"NEW"}
      /\ \A c \in Bases : \A j \in 1 .. disk[c].top : disk'[c].hdr[j] = disk[c].hdr[j]
      /\ \A c \in Bases : c # e.base => disk'[c] = disk[c]
  BY EnterGrows DEF Rest
<1>2. pc = "idle" /\ pc' = "idle"
  BY DEF Enter
<1> SUFFICES ASSUME NEW c \in Bases, NEW i \in 1 .. disk'[c].top PROVE HeadStep(c, i)
  BY <1>2 DEF HeadsStep, Count
<1>3. CASE i \in 1 .. disk[c].top
  BY <1>1, <1>2, <1>3 DEF HeadStep, Count
<1>4. CASE i \notin 1 .. disk[c].top
  <2>1. c = e.base
    BY <1>1, <1>4
  <2>2. i = disk[e.base].top + 1
    BY <2>1, <1>1, <1>4
  <2>3. "PROCESSED" \notin disk'[c].hdr[i].flags
    BY <2>1, <2>2, <1>1
  <2>4. Proper(disk'[c].hdr[i])
    <3>1. disk'[c].hdr[i].text.kind = "letter"
      BY <2>1, <2>2, <1>1 DEF Letter
    <3> QED
      BY <3>1 DEF Proper
  <2> QED
    BY <2>3, <2>4 DEF HeadStep
<1> QED
  BY <1>3, <1>4

\* As long as nothing fails, nothing failed before.
LEMMA QuietGoes ==
  ASSUME NetInv, [Next]_vars, Quiet'
  PROVE  Quiet /\ ~unmapped /\ ~WriteFault /\ ~Crash
<1>1. Rest /\ Bitmaps /\ Places
  BY DEF NetInv
<1>2. CASE Start \/ (Exit /\ UNCHANGED envVars) \/ (\E x \in Links : Collect(x))
           \/ (\E e \in toEnter : Enter(e)) \/ UNCHANGED vars
  <2>1. UNCHANGED <<faults, crashes>>
    BY <1>2 DEF Start, StartPackdis, StartMailass, StartBbass, Exit, Collect, Enter, vars, baseVars, envVars
  <2> QED
    BY <2>1, <1>1 DEF Quiet, Rest, Bitmaps, WriteFault, Crash
<1>3. CASE PackdisStep /\ UNCHANGED envVars
  <2>1. Goes /\ crashes' = crashes
    BY <1>1, <1>3, PackdisGoes DEF envVars
  <2> QED
    BY <2>1, <1>1, GoesFacts DEF WriteFault, Crash
<1>4. CASE (MailassStep \/ BbassStep) /\ UNCHANGED <<packFiles, envVars>>
  <2>1. Goes
    BY <1>4, ScanGoes
  <2> QED
    BY <2>1, <1>1, GoesFacts DEF WriteFault, Crash
<1>5. CASE Crash
  BY <1>1, <1>5 DEF Crash, Quiet, Rest
<1> QED
  BY <1>2, <1>3, <1>4, <1>5 DEF Next, Step

LEMMA PackHeads ==
  ASSUME NetInv, NetInv', PacketInv, PackdisStep
  PROVE  HeadsStep
<1>1. Stores /\ Rest /\ Places /\ Headed /\ Stores'
  BY DEF NetInv
<1>2. pc # "idle" /\ pc' # "idle"
  <2>1. CASE ProcLine \/ OpenFails \/ OpenPacket
    BY <2>1, LineSteps
  <2>2. CASE EndBatch \/ EndPacket \/ Unlink \/ Status \/ Commit
    BY <2>2 DEF EndBatch, EndPacket, Unlink, Status, Commit
  <2>3. CASE NextItem \/ WriteMsg \/ WriteLoc \/ PackPut \/ PackHeader
    BY <2>3 DEF NextItem, WriteMsg, WriteLoc, ClaimFirst, PackPut, PackHeader, Back
  <2> QED
    BY <2>1, <2>2, <2>3 DEF PackdisStep
<1>3. ASSUME HeadersSame, mem'.top = mem.top \/ (ReadInfo /\ UNCHANGED disk)
      PROVE  HeadsStep
  <2>1. \A b \in Bases : mem'.top[b] = disk[b].top \/ mem'.top[b] = mem.top[b]
    BY <1>1, <1>3 DEF ReadInfo
  <2> QED
    BY <2>1, <1>1, <1>2, <1>3, HeadsSame
<1>4. CASE ProcLine \/ OpenFails \/ OpenPacket \/ EndBatch \/ EndPacket \/ Unlink \/ Status
  <2>1. disk' = disk /\ mem' = mem
    BY <1>4, LineSteps DEF EndBatch, EndPacket, Unlink, Status, baseVars
  <2> QED
    BY <2>1, <1>1, <1>3, WritesSame
<1>5. CASE NextItem \/ WriteMsg \/ WriteLoc
  <2>1. disk' = disk /\ (ReadInfo \/ mem' = mem \/ \E b \in Bases : \E t : Claim(b, t))
    BY <1>5 DEF NextItem, WriteMsg, WriteLoc, ClaimFirst, Back, Bases
  <2>2. ASSUME NEW b \in Bases, NEW t, Claim(b, t) PROVE mem'.top = mem.top
    BY <2>2, <1>1 DEF Claim, Stores
  <2> QED
    BY <2>1, <2>2, <1>1, <1>3, WritesSame
<1>6. CASE PackPut
  <2>1. (disk' = disk /\ ReadInfo) \/ PutLink \/ (Flush /\ UNCHANGED <<mem, w>>)
    BY <1>6 DEF PackPut, Back
  <2>2. PutLink => mem'.top = mem.top
    BY <1>1 DEF PutLink, Stores
  <2> QED
    BY <2>1, <2>2, <1>1, <1>3, WritesSame
<1>7. CASE PackHeader
  <2>1. pc = "hdr" /\ job.prog = "packdis" /\ w.base \in Bases
    BY <1>1, <1>7 DEF PackHeader, Stores
  <2>2. CASE UNCHANGED disk /\ Back(3)
    BY <2>2, <1>1, <1>3, WritesSame DEF Back
  <2>3. ASSUME NEW h, PutHeader(w.base, h), h.text = w.text,
               h.flags = IF w.base = "loc" THEN LocFlags(Item.of) ELSE MsgFlags
        PROVE  HeadsStep
    <3>1. w.text.kind = "letter"
      <4>1. Filing /\ AtPacket
        BY <2>1 DEF Filing, AtPacket, AtItem
      <4> QED
        BY <4>1 DEF PacketInv, FiledSoFar, Letter
    <3>2. h.flags \in {{"NEW", "INCOMING"}, {"NEW", "INTRANSIT"}, {}}
      BY <2>3 DEF LocFlags, MsgFlags
    <3>3. "PROCESSED" \notin h.flags /\ Proper(h)
      BY <3>1, <3>2, <2>3 DEF Proper
    <3> QED
      BY <3>3, <2>1, <2>3, <1>1, <1>2, HeadsAdded
  <2> QED
    BY <2>2, <2>3, <1>7 DEF PackHeader
<1>8. CASE Commit
  <2>1. job.base \in Bases /\ mem' = mem /\ pc \in {"free", "top"}
    BY <1>1, <1>8, PackPlace DEF Commit
  <2>2. disk' = disk \/ WriteFree(job.base) \/ WriteTop(job.base)
    BY <1>8 DEF Commit
  <2> QED
    BY <2>1, <2>2, <1>1, <1>2, <1>3, WritesSame
<1> QED
  BY <1>4, <1>5, <1>6, <1>7, <1>8 DEF PackdisStep

LEMMA MailHeads ==
  ASSUME NetInv, NetInv', AtMail, MailassStep
  PROVE  HeadsStep
<1>1. Stores /\ Rest /\ Places /\ Headed /\ "loc" \in Bases
  BY DEF NetInv, Bases
<1>2. pc # "idle" /\ pc' # "idle"
  BY DEF MailassStep, Scan, LocalClaim, BounceClaim, MailPut, LocalPutFails, BouncePutFails, MailHeader,
         MailAppend, MailBody, MailSetproc, DeleteFree, DeleteMark, MailClose
<1>3. ASSUME HeadersSame, mem'.top = mem.top
      PROVE  HeadsStep
  BY <1>1, <1>2, <1>3, HeadsSame
<1>4. CASE Scan \/ LocalClaim \/ BounceClaim \/ BouncePutFails \/ MailAppend \/ MailBody
  <2>1. disk' = disk /\ (mem' = mem \/ \E t : Claim("loc", t))
    BY <1>4 DEF Scan, LocalClaim, BounceClaim, BouncePutFails, MailAppend, MailBody, baseVars
  <2>2. ASSUME NEW t, Claim("loc", t) PROVE mem'.top = mem.top
    BY <2>2, <1>1 DEF Claim, Stores
  <2> QED
    BY <2>1, <2>2, <1>1, <1>3, WritesSame
<1>5. CASE MailPut
  <2>1. PutLink \/ (Flush /\ UNCHANGED <<mem, w>>)
    BY <1>5 DEF MailPut
  <2>2. PutLink => mem'.top = mem.top
    BY <1>1 DEF PutLink, Stores
  <2> QED
    BY <2>1, <2>2, <1>1, <1>3, WritesSame
<1>6. CASE LocalPutFails
  <2>1. PICK kept : disk' = [disk EXCEPT ![w.base].used = kept] /\ mem' = [mem EXCEPT !.used[w.base] = kept]
    BY <1>6, Zenon DEF LocalPutFails, Recover1
  <2>2. w.base \in Bases /\ mem'.top = mem.top
    BY <2>1, <1>1 DEF Stores
  <2> QED
    BY <2>1, <2>2, <1>1, <1>3, WritesSame
<1>7. CASE MailHeader
  <2>1. pc = "hdr" /\ job.prog = "mailass"
    BY <1>7 DEF MailHeader
  <2>2. CASE UNCHANGED <<disk, mem>>
    BY <2>2, <1>1, <1>3, WritesSame
  <2>3. ASSUME NEW h, PutHeader("loc", h), h.text = w.text,
               h.flags = IF Bouncing THEN Bounced(Old, job.text).flags ELSE {"INCOMING", "NEW"}
        PROVE  HeadsStep
    <3>1. Bouncing => h.text.kind = Bounced(Old, job.text).kind
      BY <2>1, <2>3 DEF AtMail, Notice
    <3>2. "PROCESSED" \notin h.flags /\ Proper(h)
      BY <3>1, <2>3 DEF Proper, Bounced
    <3> QED
      BY <3>2, <2>3, <1>1, <1>2, HeadsAdded
  <2> QED
    BY <2>2, <2>3, <1>7 DEF MailHeader
<1>8. CASE MailSetproc \/ DeleteMark
  <2>1. pc \in {"proc", "mark"} /\ job.prog = "mailass" /\ mem' = mem
    BY <1>1, <1>8, MailPlace DEF MailSetproc, DeleteMark
  <2>2. job.this \in 1 .. Count("loc")
    BY <2>1, <1>1, MailPlace DEF AtOld, Count
  <2>3. \/ disk' = disk
        \/ pc = "proc" /\ pc' = "del" /\ SetFlag("loc", job.this, "PROCESSED")
        \/ SetFlag("loc", job.this, "DELETED")
    BY <1>8 DEF MailSetproc, DeleteMark
  <2>4. CASE disk' = disk
    BY <2>1, <2>4, <1>1, <1>3, WritesSame
  <2>5. CASE pc = "proc" /\ pc' = "del" /\ SetFlag("loc", job.this, "PROCESSED")
    <3>1. MarkedNow("loc", job.this)
      BY <2>1, <2>5 DEF MarkedNow
    <3> QED
      BY <3>1, <2>1, <2>2, <2>5, <1>1, <1>2, HeadsFlagged
  <2>6. CASE SetFlag("loc", job.this, "DELETED")
    BY <2>1, <2>2, <2>6, <1>1, <1>2, HeadsFlagged
  <2> QED
    BY <2>3, <2>4, <2>5, <2>6
<1>9. CASE DeleteFree
  <2>1. PICK kept : /\ disk' = disk \/ disk' = [disk EXCEPT !["loc"].used = kept]
                    /\ mem' = [mem EXCEPT !.used["loc"] = kept]
    BY <1>9, Zenon DEF DeleteFree
  <2>2. mem'.top = mem.top
    BY <2>1, <1>1 DEF Stores
  <2> QED
    BY <2>1, <2>2, <1>1, <1>3, WritesSame
<1>10. CASE MailClose
  <2>1. pc \in {"free", "top"} /\ mem' = mem /\ (disk' = disk \/ WriteFree("loc") \/ WriteTop("loc"))
    BY <1>10 DEF MailClose
  <2> QED
    BY <2>1, <1>1, <1>3, WritesSame
<1> QED
  BY <1>4, <1>5, <1>6, <1>7, <1>8, <1>9, <1>10 DEF MailassStep

LEMMA BbHeads ==
  ASSUME NetInv, NetInv', BbassStep
  PROVE  HeadsStep
<1>1. Stores /\ Rest /\ Places /\ Headed /\ "loc" \in Bases /\ "msg" \in Bases
  BY DEF NetInv, Bases
<1>2. pc # "idle" /\ pc' # "idle"
  BY DEF BbassStep, BbScan, BbAppend, BbBody, BbSetproc, BbLocal, BbPut, BbHeader, BbClose
<1>3. ASSUME HeadersSame, mem'.top = mem.top
      PROVE  HeadsStep
  BY <1>1, <1>2, <1>3, HeadsSame
<1>4. CASE BbScan \/ BbAppend \/ BbBody \/ BbLocal
  <2>1. disk' = disk /\ (mem' = mem \/ \E t : Claim("loc", t))
    BY <1>4 DEF BbScan, BbAppend, BbBody, BbLocal, baseVars
  <2>2. ASSUME NEW t, Claim("loc", t) PROVE mem'.top = mem.top
    BY <2>2, <1>1 DEF Claim, Stores
  <2> QED
    BY <2>1, <2>2, <1>1, <1>3, WritesSame
<1>5. CASE BbPut
  <2>1. CASE PutLink \/ (Flush /\ UNCHANGED <<mem, w>>)
    <3>1. PutLink => mem'.top = mem.top
      BY <1>1 DEF PutLink, Stores
    <3> QED
      BY <2>1, <3>1, <1>1, <1>3, WritesSame
  <2>2. CASE Recover1
    <3>1. PICK kept : disk' = [disk EXCEPT ![w.base].used = kept] /\ mem' = [mem EXCEPT !.used[w.base] = kept]
      BY <2>2, Zenon DEF Recover1
    <3>2. w.base \in Bases /\ mem'.top = mem.top
      BY <3>1, <1>1 DEF Stores
    <3> QED
      BY <3>1, <3>2, <1>1, <1>3, WritesSame
  <2> QED
    BY <1>5, <2>1, <2>2 DEF BbPut
<1>6. CASE BbHeader
  <2>1. CASE UNCHANGED <<disk, mem>>
    BY <2>1, <1>1, <1>3, WritesSame
  <2>2. ASSUME NEW h, PutHeader("loc", h), h.flags = {"INCOMING", "NEW"}
        PROVE  HeadsStep
    <3>1. "PROCESSED" \notin h.flags /\ Proper(h)
      BY <2>2 DEF Proper
    <3> QED
      BY <3>1, <2>2, <1>1, <1>2, HeadsAdded
  <2> QED
    BY <2>1, <2>2, <1>6 DEF BbHeader
<1>7. CASE BbSetproc
  <2>1. /\ pc = "proc" /\ job.prog = "bbass" /\ mem' = mem
        /\ disk' = disk \/ (pc' \in {"local", "scan"} /\ SetFlag("msg", job.this, "PROCESSED"))
    BY <1>7 DEF BbSetproc
  <2>2. job.this \in 1 .. Count("msg")
    BY <2>1, <1>1, BbPlace DEF AtOld, Count
  <2>3. CASE disk' = disk
    BY <2>1, <2>3, <1>1, <1>3, WritesSame
  <2>4. CASE pc' \in {"local", "scan"} /\ SetFlag("msg", job.this, "PROCESSED")
    <3>1. MarkedNow("msg", job.this)
      BY <2>1, <2>4 DEF MarkedNow
    <3> QED
      BY <3>1, <2>1, <2>2, <2>4, <1>1, <1>2, HeadsFlagged
  <2> QED
    BY <2>1, <2>3, <2>4
<1>8. CASE BbClose
  <2>1. /\ pc \in {"free", "top", "free2", "top2"} /\ mem' = mem
        /\ disk' = disk \/ WriteFree("loc") \/ WriteTop("loc") \/ WriteFree("msg") \/ WriteTop("msg")
    BY <1>8 DEF BbClose
  <2> QED
    BY <2>1, <1>1, <1>3, WritesSame
<1> QED
  BY <1>4, <1>5, <1>6, <1>7, <1>8 DEF BbassStep

LEMMA StepHeads ==
  ASSUME NetInv, NetInv', PacketInv, AtMail, [Next]_vars
  PROVE  HeadsStep
<1>1. Stores /\ Rest /\ Places /\ Headed
  BY DEF NetInv
<1>2. ASSUME UNCHANGED disk, \/ pc' = "idle"
                             \/ pc = "idle" /\ ReadInfo
                             \/ UNCHANGED <<pc, mem>>
      PROVE  HeadsStep
  <2>1. \A b \in Bases : \/ pc' = "idle" /\ disk'[b].top = disk[b].top
                         \/ pc' # "idle" /\ mem'.top[b] = disk[b].top
                         \/ pc' # "idle" /\ pc # "idle" /\ mem'.top[b] = mem.top[b]
    BY <1>2 DEF ReadInfo
  <2> QED
    BY <2>1, <1>1, <1>2, WritesSame, HeadsSame
<1>3. CASE Start
  BY <1>2, <1>3 DEF Start, StartPackdis, StartMailass, StartBbass
<1>4. CASE Crash \/ Exit
  BY <1>2, <1>4 DEF Crash, Exit, Gone
<1>5. CASE \E x \in Links : Collect(x)
  BY <1>2, <1>5 DEF Collect
<1>6. CASE UNCHANGED vars
  BY <1>2, <1>6 DEF vars, baseVars
<1>7. CASE \E e \in toEnter : Enter(e)
  BY <1>1, <1>7, HeadsEntered
<1> QED
  BY <1>3, <1>4, <1>5, <1>6, <1>7, PackHeads, MailHeads, BbHeads DEF Next, Step

-----------------------------------------------------------------------------
(* What is known to a program, and what is on its way, grows.              *)

LEMMA KnownFacts ==
  ASSUME NetInv, NEW b \in Bases
  PROVE  /\ Known(b) \in Nat /\ Known(b) <= Count(b) /\ Count(b) \in Nat
         /\ Mailing => pc # "idle"
<1>1. Stores /\ Headed /\ Places
  BY DEF NetInv
<1>2. disk[b].top \in Nat /\ mem.top[b] \in Nat /\ disk[b].top <= Count(b) /\ Count(b) \in Nat
  BY <1>1, HasFacts DEF Headed
<1>3. pc = "idle" => job = NoJob
  BY <1>1 DEF Places, PackPcs, MailPcs, BbPcs
<1>4. Mailing => pc # "idle"
  BY <1>3 DEF Mailing, NoJob
<1> QED
  BY <1>2, <1>4 DEF Known, Count

LEMMA PackProg ==
  ASSUME NetInv, PackdisStep
  PROVE  job.prog = "packdis" /\ job'.prog = "packdis" /\ pc # "idle" /\ pc' # "idle"
<1>1. Rest /\ Places
  BY DEF NetInv
<1>2. job.prog = "packdis" /\ IsPackJob(job) /\ pc # "idle"
  <2>1. job.prog = "packdis" \/ pc \in {"line", "item", "loc", "done", "status"}
    BY DEF PackdisStep, ProcLine, OpenFails, OpenPacket, EndBatch, NextItem, WriteMsg, WriteLoc,
           PackPut, PackHeader, EndPacket, Commit, Unlink, Status
  <2> QED
    BY <2>1, <1>1, PackPlace DEF PackPcs
<1>3. CASE ProcLine
  <2>1. pc' = pc /\ \E g : job' = [job EXCEPT !.line = @ + 1, !.groupOk = g]
    BY <1>3, LineSteps
  <2> QED
    BY <2>1, <1>2 DEF IsPackJob
<1>4. CASE OpenFails \/ OpenPacket
  BY <1>2, <1>4, LineSteps DEF IsPackJob
<1>5. CASE EndBatch \/ EndPacket \/ Unlink \/ Status
  BY <1>2, <1>5 DEF EndBatch, EndPacket, Unlink, Status, IsPackJob
<1>6. ASSUME NEW rc, Back(rc) PROVE job'.prog = "packdis" /\ pc' # "idle"
  BY <1>2, <1>6 DEF Back, IsPackJob
<1>7. CASE NextItem \/ WriteMsg \/ WriteLoc
  <2>1. \/ \E rc : Back(rc)
        \/ pc' \in {pc, "put"} /\ (job' = job \/ job' = [job EXCEPT !.item = @ + 1])
    BY <1>7 DEF NextItem, WriteMsg, WriteLoc, ClaimFirst
  <2> QED
    BY <2>1, <1>2, <1>6 DEF IsPackJob
<1>8. CASE PackPut
  <2>1. (\E rc : Back(rc)) \/ (pc' \in {pc, "hdr"} /\ job' = job)
    BY <1>8 DEF PackPut
  <2> QED
    BY <2>1, <1>2, <1>6
<1>9. CASE PackHeader
  <2>1. \/ \E rc : Back(rc)
        \/ pc' \in {"loc", "item"} /\ (job' = job \/ job' = [job EXCEPT !.item = @ + 1])
    BY <1>9 DEF PackHeader
  <2> QED
    BY <2>1, <1>2, <1>6 DEF IsPackJob
<1>10. CASE Commit
  <2>1. /\ \E rc : job' = [job EXCEPT !.rc = rc, !.base = IF pc = "top" THEN "msg" ELSE @]
        /\ pc' # "idle"
    BY <1>10 DEF Commit
  <2> QED
    BY <2>1, <1>2 DEF IsPackJob
<1> QED
  BY <1>2, <1>3, <1>4, <1>5, <1>7, <1>8, <1>9, <1>10 DEF PackdisStep

\* The number of messages only grows while mailass or bbass runs.
LEMMA TopRises ==
  ASSUME NetInv, MailassStep \/ BbassStep
  PROVE  mem.top["loc"] <= mem'.top["loc"]
<1>1. Stores /\ Headed /\ Places /\ "loc" \in Bases /\ mem.top["loc"] \in Nat /\ pc # "idle"
  BY ProgStays, HasFacts DEF NetInv, Bases
<1>2. (\E h : PutHeader("loc", h)) \/ mem'.top = mem.top
  <2>1. \/ mem' = mem \/ (\E t : Claim("loc", t)) \/ PutLink \/ Recover1
        \/ (\E h : PutHeader("loc", h)) \/ DeleteFree
    BY DEF MailassStep, Scan, LocalClaim, BounceClaim, MailPut, LocalPutFails, BouncePutFails, MailHeader,
           MailAppend, MailBody, MailSetproc, DeleteMark, MailClose, BbassStep, BbScan, BbAppend, BbBody,
           BbSetproc, BbLocal, BbPut, BbHeader, BbClose, baseVars
  <2>2. ASSUME NEW t, Claim("loc", t) PROVE mem'.top = mem.top
    BY <2>2, <1>1 DEF Claim, Stores
  <2>3. PutLink => mem'.top = mem.top
    BY <1>1 DEF PutLink, Stores
  <2>4. ASSUME Recover1 PROVE mem'.top = mem.top
    <3>1. PICK kept : mem' = [mem EXCEPT !.used[w.base] = kept]
      BY <2>4, Zenon DEF Recover1
    <3> QED
      BY <3>1, <1>1 DEF Stores
  <2>5. ASSUME DeleteFree PROVE mem'.top = mem.top
    <3>1. PICK kept : mem' = [mem EXCEPT !.used["loc"] = kept]
      BY <2>5, Zenon DEF DeleteFree
    <3> QED
      BY <3>1, <1>1 DEF Stores
  <2> QED
    BY <2>1, <2>2, <2>3, <2>4, <2>5
<1>3. ASSUME NEW h, PutHeader("loc", h) PROVE mem'.top["loc"] = mem.top["loc"] + 1
  BY <1>1, <1>3, HeaderGrows
<1> QED
  BY <1>1, <1>2, <1>3

\* How far a base is known never goes back.
LEMMA StepKnown ==
  ASSUME NetInv, NetInv', Grown, [Next]_vars, AtMail, AtNews, ~Crash, NEW b \in Bases
  PROVE  Known(b) <= Known(b)'
<1>1. /\ Stores /\ Rest /\ Places /\ Headed /\ Known(b) \in Nat /\ Known(b)' \in Nat
      /\ disk[b].top \in Nat /\ disk'[b].top \in Nat /\ disk[b].top <= disk'[b].top
      /\ mem.top[b] \in Nat
  <2>1. Stores /\ Rest /\ Places /\ Headed /\ Stores'
    BY DEF NetInv
  <2>2. disk[b].top \in Nat /\ mem.top[b] \in Nat
    BY <2>1, HasFacts
  <2>3. disk'[b].top \in Nat /\ disk[b].top <= disk'[b].top
    BY DEF Grown
  <2>4. mem'.top["loc"] \in Nat /\ mem.top["loc"] \in Nat
    BY <2>1 DEF Stores, Bases
  <2> QED
    BY <2>1, <2>2, <2>3, <2>4 DEF Known
<1>2. pc = "idle" => ~Mailing
  BY KnownFacts
<1>3. CASE b # "loc"
  BY <1>1, <1>3 DEF Known
<1>4. ASSUME ~Mailing, ~Mailing' PROVE Known(b) <= Known(b)'
  BY <1>1, <1>4 DEF Known
<1>5. CASE b = "loc" /\ Start
  <2>1. pc = "idle" /\ ReadInfo /\ disk' = disk
    BY <1>5 DEF Start, StartPackdis, StartMailass, StartBbass
  <2>2. mem'.top[b] = disk[b].top
    BY <2>1 DEF ReadInfo
  <2> QED
    BY <2>1, <2>2, <1>1, <1>2 DEF Known
<1>6. CASE (\E e \in toEnter : Enter(e)) \/ \E x \in Links : Collect(x)
  <2>1. pc = "idle" /\ job' = job
    BY <1>6 DEF Enter, Collect
  <2> QED
    BY <2>1, <1>2, <1>4 DEF Mailing
<1>7. CASE UNCHANGED vars
  BY <1>1, <1>7 DEF vars, baseVars, Known, Mailing
<1>8. CASE b = "loc" /\ Exit
  <2>1. pc = "exit" /\ disk' = disk /\ job' = NoJob
    BY <1>8 DEF Exit, Gone
  <2>2. ~Mailing'
    BY <2>1 DEF Mailing, NoJob
  <2>3. Mailing => disk["loc"].top = mem.top["loc"]
    BY <2>1 DEF AtMail, AtNews, Mailing
  <2> QED
    BY <2>1, <2>2, <2>3, <1>1, <1>8 DEF Known
<1>9. CASE PackdisStep
  BY <1>4, <1>9, PackProg DEF Mailing
<1>10. CASE b = "loc" /\ (MailassStep \/ BbassStep)
  <2>1. Mailing /\ Mailing'
    BY <1>10, ProgStays DEF Mailing
  <2> QED
    BY <2>1, <1>10, TopRises DEF Known
<1> QED
  BY <1>3, <1>5, <1>6, <1>7, <1>8, <1>9, <1>10 DEF Next, Step

\* What can be read of a bundle.
Reads(s) == {s[i] : i \in {j \in DOMAIN s : \A k \in 1 .. j : s[k] # Broken}}

LEMMA AppendFacts ==
  ASSUME NEW T, NEW s \in Seq(T), NEW t \in T
  PROVE  LET u == Append(s, t) IN
           /\ u \in Seq(T) /\ Len(u) \in Nat \ {0} /\ DOMAIN u = 1 .. Len(u) /\ u[Len(u)] = t
           /\ \A i \in DOMAIN u : i = Len(u) \/ (i \in DOMAIN s /\ u[i] = s[i])
OBVIOUS

LEMMA ReadsMore ==
  ASSUME NEW T, NEW s \in Seq(T), NEW t \in T
  PROVE  Reads(s) \subseteq Reads(Append(s, t))
<1> DEFINE u == Append(s, t)
<1>1. Len(s) \in Nat /\ DOMAIN s = 1 .. Len(s) /\ DOMAIN u = 1 .. Len(s) + 1 /\ \A i \in DOMAIN s : u[i] = s[i]
  OBVIOUS
<1> HIDE DEF u
<1>2. \A j \in DOMAIN s : j \in DOMAIN u /\ \A k \in 1 .. j : k \in DOMAIN s
  BY <1>1
<1> QED
  BY <1>1, <1>2 DEF Reads, u

LEMMA ReadsDone ==
  ASSUME NEW T, NEW s \in Seq(T), s # <<>>, NEW t \in T, t # Broken,
         \A i \in DOMAIN s : s[i] = Broken <=> i = Len(s)
  PROVE  LET u == [s EXCEPT ![Len(s)] = t] IN
           /\ u \in Seq(T) /\ DOMAIN u = DOMAIN s /\ u[Len(s)] = t
           /\ \A i \in DOMAIN u : u[i] # Broken
           /\ Reads(s) \subseteq Reads(u) /\ t \in Reads(u)
<1> DEFINE u == [s EXCEPT ![Len(s)] = t]
<1>1. /\ Len(s) \in Nat \ {0} /\ DOMAIN s = 1 .. Len(s) /\ u \in Seq(T) /\ DOMAIN u = DOMAIN s
      /\ u[Len(s)] = t /\ \A i \in DOMAIN s : i # Len(s) => u[i] = s[i]
  OBVIOUS
<1> HIDE DEF u
<1>2. Len(s) \in DOMAIN s /\ \A i \in DOMAIN s : u[i] # Broken
  BY <1>1
<1>3. \A j \in DOMAIN s : \A k \in 1 .. j : k \in DOMAIN s
  BY <1>1
<1>4. \A i \in DOMAIN u : u[i] \in Reads(u)
  BY <1>1, <1>2, <1>3 DEF Reads
<1>5. t \in Reads(u)
  BY <1>1, <1>2, <1>4
<1>6. Reads(s) \subseteq Reads(u)
  <2> SUFFICES ASSUME NEW i \in DOMAIN s, \A k \in 1 .. i : s[k] # Broken PROVE s[i] \in Reads(u)
    BY DEF Reads
  <2>1. CASE i = Len(s)
    BY <2>1, <1>1
  <2>2. CASE i # Len(s)
    BY <2>2, <1>1, <1>4
  <2> QED
    BY <2>1, <2>2
<1> QED
  BY <1>1, <1>2, <1>5, <1>6 DEF u

LEMMA LinkTexts ==
  /\ Broken \notin Texts
  /\ \A x : Arriving(x) = Reads(bundle[x])
<1>1. Broken \notin Texts
  <2> SUFFICES ASSUME Broken \in Texts PROVE FALSE
    OBVIOUS
  <2>1. Broken.kind \in {"letter", "notice", "sysop"}
    BY DEF Texts
  <2> QED
    BY <2>1 DEF Broken
<1> QED
  BY <1>1 DEF Arriving, Reads

\* A message on its way to a link stays so.
Onward == \A x \in Links : \A t : OnItsWay(x, t) => OnItsWay(x, t)'

LEMMA BundleSame ==
  ASSUME Bundles, UNCHANGED <<bundle, sent>>, pc # "body", pc' # "body"
  PROVE  Bundles' /\ Onward
<1>1. Bundles'
  BY DEF Bundles
<1>2. Onward
  BY DEF Onward, OnItsWay, Arriving
<1> QED
  BY <1>1, <1>2

\* A message is started at the end of a bundle without a part of another.
LEMMA BundleStarted ==
  ASSUME Bundles, Aim \in Links, pc # "body", pc' = "body", job' = job, sent' = sent, Append_(Aim)
  PROVE  Bundles' /\ Onward
<1> DEFINE T == Texts \cup {Broken}
<1>1. PICK a \in Links : a = Aim
  OBVIOUS
<1>2. /\ bundle \in [Links -> Seq(T)]
      /\ \A x \in Links : \A i \in DOMAIN bundle[x] : bundle[x][i] # Broken
  BY DEF Bundles
<1> HIDE DEF T
<1>3. Broken \in T
  BY DEF T
<1>4. bundle' = [bundle EXCEPT ![a] = Append(@, Broken)] /\ a = Aim'
  BY <1>1 DEF Append_, Aim
<1>5. PICK s \in Seq(T), u \in {Append(bundle[a], Broken)} : s = bundle[a] /\ u = Append(s, Broken)
  BY <1>2, <1>3
<1>6. bundle'[a] = u /\ \A x \in Links : x # a => bundle'[x] = bundle[x]
  BY <1>2, <1>4, <1>5
<1>7. /\ u \in Seq(T) /\ Len(u) \in Nat \ {0} /\ DOMAIN u = 1 .. Len(u) /\ u[Len(u)] = Broken
      /\ \A i \in DOMAIN u : i = Len(u) \/ (i \in DOMAIN s /\ u[i] = s[i])
  BY <1>3, <1>5, AppendFacts
<1>8. Bundles'
  <2>1. bundle' \in [Links -> Seq(T)]
    <3>1. bundle' = [bundle EXCEPT ![a] = u]
      BY <1>2, <1>4, <1>5
    <3> QED
      BY <3>1, <1>2, <1>7
  <2>2. u # <<>>
    BY <1>7
  <2>3. /\ \A i \in DOMAIN u : u[i] = Broken => i = Len(u)
        /\ \A x \in Links : x # a => \A i \in DOMAIN bundle'[x] : bundle'[x][i] # Broken
    BY <1>2, <1>5, <1>6, <1>7
  <2>4. \A x \in Links : \A i \in DOMAIN bundle'[x] :
          bundle'[x][i] = Broken => x = a /\ i = Len(bundle'[x])
    BY <2>3, <1>6
  <2> QED
    BY <2>1, <2>2, <2>4, <1>4, <1>6, <1>7 DEF Bundles, T
<1>9. Onward
  <2>1. Reads(s) \subseteq Reads(u)
    BY <1>3, <1>5, ReadsMore
  <2>2. \A x \in Links : Reads(bundle[x]) \subseteq Reads(bundle'[x])
    BY <2>1, <1>5, <1>6
  <2> QED
    BY <2>2 DEF Onward, OnItsWay, Arriving, Reads
<1> QED
  BY <1>8, <1>9

\* The rest of it is written, and the link will find it.
LEMMA BundleDone ==
  ASSUME Bundles, pc = "body", pc' # "body", sent' = sent, NEW t \in Texts, Complete(Aim, t)
  PROVE  Bundles' /\ Onward /\ (\A x : x = Aim => OnItsWay(x, t)')
<1> DEFINE T == Texts \cup {Broken}
<1>1. PICK a \in Links : a = Aim
  BY DEF Bundles
<1>2. /\ bundle \in [Links -> Seq(T)] /\ bundle[a] # <<>>
      /\ \A i \in DOMAIN bundle[a] : bundle[a][i] = Broken <=> i = Len(bundle[a])
      /\ \A x \in Links : x # a => \A i \in DOMAIN bundle[x] : bundle[x][i] # Broken
  <2>1. /\ bundle \in [Links -> Seq(T)] /\ bundle[a] # <<>>
        /\ bundle[a][Len(bundle[a])] = Broken
        /\ \A x \in Links : \A i \in DOMAIN bundle[x] :
             bundle[x][i] = Broken => x = a /\ i = Len(bundle[x])
    BY <1>1 DEF Bundles
  <2> QED
    BY <2>1
<1>3. t # Broken /\ t \in T
  BY LinkTexts
<1> HIDE DEF T
<1>4. PICK s \in Seq(T) : s = bundle[a]
  BY <1>2
<1>5. PICK u : u = [s EXCEPT ![Len(s)] = t]
  OBVIOUS
<1>6. /\ u \in Seq(T) /\ DOMAIN u = DOMAIN s /\ \A i \in DOMAIN u : u[i] # Broken
      /\ Reads(s) \subseteq Reads(u) /\ t \in Reads(u)
  <2>1. s # <<>> /\ \A i \in DOMAIN s : s[i] = Broken <=> i = Len(s)
    BY <1>2, <1>4
  <2> QED
    BY <2>1, <1>3, <1>5, ReadsDone
<1>7. bundle' = [bundle EXCEPT ![a] = u]
  BY <1>1, <1>4, <1>5 DEF Complete
<1>8. bundle'[a] = u /\ \A x \in Links : x # a => bundle'[x] = bundle[x]
  BY <1>2, <1>7
<1>9. Bundles'
  <2>1. bundle' \in [Links -> Seq(T)]
    BY <1>2, <1>6, <1>7
  <2>2. \A x \in Links : \A i \in DOMAIN bundle'[x] : bundle'[x][i] # Broken
    BY <1>2, <1>6, <1>8
  <2> QED
    BY <2>1, <2>2 DEF Bundles, T
<1>10. \A x \in Links : Reads(bundle[x]) \subseteq Reads(bundle'[x])
  BY <1>4, <1>6, <1>8
<1>11. Onward
  BY <1>10 DEF Onward, OnItsWay, Arriving, Reads
<1>12. \A x : x = Aim => OnItsWay(x, t)'
  BY <1>1, <1>6, <1>8 DEF OnItsWay, Arriving, Reads
<1> QED
  BY <1>9, <1>11, <1>12

LEMMA BundleTaken ==
  ASSUME Bundles, NEW a \in Links, Collect(a)
  PROVE  Bundles' /\ Onward
<1>1. /\ pc = "idle" /\ pc' = "idle" /\ sent' = sent \cup ({a} \X Arriving(a))
      /\ bundle' = [bundle EXCEPT ![a] = <<>>]
  BY DEF Collect
<1>2. bundle \in [Links -> Seq(Texts \cup {Broken})]
  BY DEF Bundles
<1>3. bundle'[a] = <<>> /\ \A x \in Links : x # a => bundle'[x] = bundle[x]
  BY <1>1, <1>2
<1>4. Bundles'
  <2>1. bundle' \in [Links -> Seq(Texts \cup {Broken})]
    BY <1>1, <1>2
  <2>2. \A x \in Links : \A i \in DOMAIN bundle'[x] : bundle'[x][i] # Broken
    BY <1>1, <1>3 DEF Bundles
  <2> QED
    BY <2>1, <2>2, <1>1 DEF Bundles
<1>5. Onward
  BY <1>1, <1>3 DEF Onward, OnItsWay, Arriving
<1> QED
  BY <1>4, <1>5

LEMMA BodyDone ==
  ASSUME NetInv, Bundles, (MailBody \/ BbBody) /\ UNCHANGED sent, ~WriteFault
  PROVE  Bundles' /\ Onward /\ \A x : x = Aim => OnItsWay(x, job.text)'
<1>1. pc = "body" /\ pc' = "proc" /\ pc \in AtOld /\ job.prog \in {"mailass", "bbass"} /\ job' = job
  BY DEF MailBody, BbBody, AtOld
<1>2. PICK t \in Texts : t = job.text
  BY <1>1, MailPlace, BbPlace DEF NetInv
<1>3. Complete(Aim, t)
  BY <1>1, <1>2 DEF MailBody, BbBody, Aim, Area
<1>4. Bundles' /\ Onward /\ \A x : x = Aim => OnItsWay(x, t)'
  BY <1>1, <1>3, BundleDone
<1> QED
  BY <1>1, <1>2, <1>4 DEF OnItsWay

LEMMA StepBundles ==
  ASSUME NetInv, Bundles, [Next]_vars, ~WriteFault, ~Crash
  PROVE  Bundles' /\ Onward
<1>1. CASE Start
  BY <1>1, BundleSame DEF Start, StartPackdis, StartMailass, StartBbass, envVars
<1>2. CASE Exit /\ UNCHANGED envVars
  BY <1>2, BundleSame DEF Exit, Gone, envVars
<1>3. CASE \E e \in toEnter : Enter(e)
  BY <1>3, BundleSame DEF Enter
<1>4. CASE \E x \in Links : Collect(x)
  BY <1>4, BundleTaken
<1>5. CASE UNCHANGED vars
  BY <1>5 DEF vars, baseVars, envVars, Bundles, Aim, Onward, OnItsWay, Arriving
<1>6. CASE PackdisStep /\ UNCHANGED envVars
  <2>1. bundle' = bundle
    BY <1>6, LineSteps DEF PackdisStep, EndBatch, NextItem, WriteMsg, WriteLoc, ClaimFirst, PackPut, PackHeader,
                           EndPacket, Commit, Unlink, Status, baseVars
  <2>2. pc # "body"
    BY <1>6, PackProg, PackPlace DEF PackPcs, NetInv
  <2>3. pc' # "body"
    BY <1>6, <2>2, LineSteps DEF PackdisStep, EndBatch, NextItem, WriteMsg, WriteLoc, ClaimFirst, PackPut,
             PackHeader, EndPacket, Commit, Unlink, Status, Back
  <2> QED
    BY <2>1, <2>2, <2>3, <1>6, BundleSame DEF envVars
<1>7. CASE MailassStep /\ UNCHANGED envVars
  <2>1. CASE MailBody
    BY <2>1, <1>7, BodyDone DEF envVars
  <2>2. CASE MailAppend
    <3>1. /\ pc = "act" /\ pc' = "body" /\ Append_(To(job.text)) /\ job.prog = "mailass"
          /\ job' = job /\ ForLink
      BY <2>2 DEF MailAppend
    <3>2. Aim = To(job.text) /\ To(job.text) \in Links
      BY <3>1 DEF Aim, ForLink, ToType, Links
    <3> QED
      BY <3>1, <3>2, <1>7, BundleStarted DEF envVars
  <2>3. CASE ~MailBody /\ ~MailAppend
    <3>1. bundle' = bundle /\ pc # "body" /\ pc' # "body"
      BY <2>3, <1>7 DEF MailassStep, Scan, LocalClaim, BounceClaim, MailPut, LocalPutFails, BouncePutFails,
                        MailHeader, MailSetproc, DeleteFree, DeleteMark, MailClose, baseVars
    <3> QED
      BY <3>1, <1>7, BundleSame DEF envVars
  <2> QED
    BY <2>1, <2>2, <2>3
<1>8. CASE BbassStep /\ UNCHANGED envVars
  <2>1. CASE BbBody
    BY <2>1, <1>8, BodyDone DEF envVars
  <2>2. CASE BbAppend
    <3>1. pc = "act" /\ job.prog = "bbass" /\ job' = job
      BY <2>2 DEF BbAppend
    <3>2. Aim = Area
      BY <3>1 DEF Aim, Area
    <3>3. CASE Area \in Links
      <4>1. pc' = "body" /\ Append_(Area)
        BY <2>2, <3>3 DEF BbAppend
      <4> QED
        BY <4>1, <3>1, <3>2, <3>3, <1>8, BundleStarted DEF envVars
    <3>4. CASE Area \notin Links
      <4>1. pc' = "proc" /\ bundle' = bundle
        BY <2>2, <3>4 DEF BbAppend
      <4> QED
        BY <4>1, <3>1, <1>8, BundleSame DEF envVars
    <3> QED
      BY <3>3, <3>4
  <2>3. CASE ~BbBody /\ ~BbAppend
    <3>1. bundle' = bundle /\ pc # "body" /\ pc' # "body"
      BY <2>3, <1>8 DEF BbassStep, BbScan, BbSetproc, BbLocal, BbPut, BbHeader, BbClose, baseVars
    <3> QED
      BY <3>1, <1>8, BundleSame DEF envVars
  <2> QED
    BY <2>1, <2>2, <2>3
<1> QED
  BY <1>1, <1>2, <1>3, <1>4, <1>5, <1>6, <1>7, <1>8 DEF Next, Step

-----------------------------------------------------------------------------
(* What was done for a message stays done.                                 *)

LEMMA SeenStays ==
  ASSUME NetInv, NetInv', Grown, Onward, Known("loc") <= Known("loc")', NEW t
  PROVE  /\ HasCopy(t) => HasCopy(t)'
         /\ Told(t) => Told(t)'
         /\ Seen(t) => Seen(t)'
<1>1. "loc" \in Bases
  BY DEF Bases
<1>2. PICK n \in Nat : n = Known("loc") /\ n <= Count("loc") /\ Count("loc") \in Nat
  BY <1>1, KnownFacts
<1>3. PICK m \in Nat : m = Known("loc")' /\ n <= m
  <2>1. Stores'
    BY DEF NetInv
  <2>2. Known("loc")' \in Nat
    BY <2>1, <1>1 DEF Known, Stores, BaseSet
  <2> QED
    BY <2>2, <1>2
<1>4. \A i \in 1 .. n : /\ i \in 1 .. m /\ disk'["loc"].hdr[i].text = disk["loc"].hdr[i].text
                        /\ disk["loc"].hdr[i].flags \subseteq disk'["loc"].hdr[i].flags
  BY <1>1, <1>2, <1>3 DEF Grown
<1>5. HasCopy(t) => HasCopy(t)'
  BY <1>2, <1>3, <1>4 DEF HasCopy
<1>6. Told(t) => Told(t)'
  BY <1>2, <1>3, <1>4 DEF Told
<1>7. Seen(t) => Seen(t)'
  BY <1>5, <1>6 DEF Seen, Onward
<1> QED
  BY <1>5, <1>6, <1>7

LEMMA MarksStay ==
  ASSUME NetInv, NetInv', HeadsStep, Marks, \A b \in Bases : Known(b) <= Known(b)',
         \A b \in Bases : \A i : MarkedNow(b, i) => i \in 1 .. Known(b)
  PROVE  Marks'
<1>1. ASSUME NEW b \in Bases, NEW i \in 1 .. Count(b)', "PROCESSED" \in disk'[b].hdr[i].flags
      PROVE  i <= Known(b)'
  <2>1. PICK n \in Nat : n = Known(b)
    BY KnownFacts
  <2>2. PICK m \in Nat : m = Known(b)' /\ n <= m
    <3>1. Stores'
      BY DEF NetInv
    <3>2. Known(b)' \in Nat
      BY <3>1 DEF Known, Stores, BaseSet
    <3> QED
      BY <3>2, <2>1
  <2>3. HeadStep(b, i)
    BY <1>1 DEF HeadsStep
  <2>4. (i \in 1 .. Count(b) /\ "PROCESSED" \in disk[b].hdr[i].flags) \/ MarkedNow(b, i)
    BY <1>1, <2>3 DEF HeadStep
  <2>5. i \in Nat
    BY <1>1
  <2>6. i <= n
    BY <2>1, <2>4 DEF Marks
  <2> QED
    BY <2>1, <2>2, <2>5, <2>6
<1>2. ASSUME NEW i \in 1 .. Count("loc")' PROVE Proper(disk'["loc"].hdr[i])
  <2>1. HeadStep("loc", i)
    BY DEF HeadsStep, Bases
  <2>2. i \in 1 .. Count("loc") => Proper(disk["loc"].hdr[i])
    BY DEF Marks, Proper
  <2> QED
    BY <2>1, <2>2 DEF HeadStep, Proper
<1> QED
  BY <1>1, <1>2 DEF Marks, Proper

\* A message that is marked afterwards was known, and is marked before or now.
LEMMA MarkedBefore ==
  ASSUME NetInv, NetInv', Grown, HeadsStep, Marks,
         \A b \in Bases : \A i : MarkedNow(b, i) => i \in 1 .. Known(b),
         NEW b \in Bases, NEW m \in Nat, m = Known(b)', NEW i \in 1 .. m, "PROCESSED" \in disk'[b].hdr[i].flags
  PROVE  /\ i \in 1 .. Known(b) /\ disk'[b].hdr[i].text = disk[b].hdr[i].text
         /\ "PROCESSED" \in disk[b].hdr[i].flags \/ MarkedNow(b, i)
<1>1. m <= Count(b)' /\ Count(b)' \in Nat
  <2>1. Stores' /\ Headed' /\ Places'
    BY DEF NetInv
  <2>2. mem'.top[b] \in Nat /\ disk'[b].top \in Nat
    BY <2>1 DEF Stores, BaseSet
  <2>3. disk'[b].top <= Count(b)'
    BY <2>1 DEF Headed
  <2>4. pc' = "idle" => job' = NoJob
    BY <2>1 DEF Places, PackPcs, MailPcs, BbPcs
  <2>5. Mailing' => pc' # "idle"
    BY <2>4 DEF Mailing, NoJob
  <2> QED
    BY <2>2, <2>3, <2>5 DEF Known, Count
<1>2. i \in 1 .. Count(b)' /\ i \in Nat \ {0}
  BY <1>1
<1>3. HeadStep(b, i)
  BY <1>2 DEF HeadsStep
<1>4. (i \in 1 .. Count(b) /\ "PROCESSED" \in disk[b].hdr[i].flags) \/ MarkedNow(b, i)
  BY <1>3 DEF HeadStep
<1>5. PICK n \in Nat : n = Known(b) /\ n <= Count(b) /\ Count(b) \in Nat
  BY KnownFacts
<1>6. i \in 1 .. n
  <2>1. CASE MarkedNow(b, i)
    BY <2>1, <1>5
  <2>2. CASE ~MarkedNow(b, i)
    <3>1. i <= n
      BY <2>2, <1>4, <1>5 DEF Marks
    <3> QED
      BY <3>1, <1>2
  <2> QED
    BY <2>1, <2>2
<1>7. i \in 1 .. Count(b)
  BY <1>5, <1>6
<1>8. disk'[b].hdr[i].text = disk[b].hdr[i].text
  BY <1>7 DEF Grown
<1> QED
  BY <1>4, <1>5, <1>6, <1>8

LEMMA DoneStays ==
  ASSUME NetInv, NetInv', Grown, HeadsStep, Onward, Marks, MailDone, NewsDone,
         \A b \in Bases : Known(b) <= Known(b)', uncopied => uncopied',
         \A i : MarkedNow("loc", i) => i \in 1 .. Known("loc") /\ Seen(disk["loc"].hdr[i].text),
         \A i : MarkedNow("msg", i) =>
                  LET t == disk["msg"].hdr[i].text IN
                    /\ i \in 1 .. Known("msg")
                    /\ t.of.area \in Links => OnItsWay(t.of.area, t)
                    /\ To(t) = "user" => uncopied' \/ Copying(i)',
         \A i : Copying(i) => uncopied' \/ Copying(i)' \/ \A t : t = disk["msg"].hdr[i].text => HasCopy(t)'
  PROVE  MailDone' /\ NewsDone'
<1>1. "loc" \in Bases /\ "msg" \in Bases /\ \A b \in Bases : b \in {"loc", "msg"}
  BY DEF Bases
<1>2. \A b \in Bases : \A i : MarkedNow(b, i) => i \in 1 .. Known(b)
  BY <1>1
<1>3. \A b \in Bases : Known(b)' \in Nat
  <2>1. Stores'
    BY DEF NetInv
  <2> QED
    BY <2>1 DEF Known, Stores, BaseSet
<1>4. MailDone'
  <2>1. PICK m \in Nat : m = Known("loc")'
    BY <1>1, <1>3
  <2>2. ASSUME NEW i \in 1 .. m, "PROCESSED" \in disk'["loc"].hdr[i].flags,
               NEW t, t = disk'["loc"].hdr[i].text
        PROVE  Seen(t)'
    <3>1. /\ i \in 1 .. Known("loc") /\ t = disk["loc"].hdr[i].text
          /\ "PROCESSED" \in disk["loc"].hdr[i].flags \/ MarkedNow("loc", i)
      BY <1>1, <1>2, <2>1, <2>2, MarkedBefore
    <3>2. Seen(t)
      BY <3>1 DEF MailDone
    <3> QED
      BY <3>2, <1>1, SeenStays
  <2>3. ASSUME NEW i \in 1 .. m, "PROCESSED" \in disk'["loc"].hdr[i].flags
        PROVE  Seen(disk["loc"].hdr[i].text)'
    <3>1. PICK t : t = disk'["loc"].hdr[i].text
      OBVIOUS
    <3>2. Seen(t)'
      BY <2>2, <2>3, <3>1
    <3> QED
      BY <3>1, <3>2 DEF Seen, HasCopy, Told, OnItsWay, Arriving, To
  <2> QED
    BY <2>1, <2>3 DEF MailDone
<1>5. NewsDone'
  <2>1. PICK m \in Nat : m = Known("msg")'
    BY <1>1, <1>3
  <2>2. ASSUME NEW i \in 1 .. m, "PROCESSED" \in disk'["msg"].hdr[i].flags,
               NEW t, t = disk'["msg"].hdr[i].text
        PROVE  /\ t.of.area \in Links => OnItsWay(t.of.area, t)'
               /\ To(t) = "user" /\ ~uncopied' => HasCopy(t)' \/ Copying(i)'
    <3>1. /\ i \in 1 .. Known("msg") /\ t = disk["msg"].hdr[i].text
          /\ "PROCESSED" \in disk["msg"].hdr[i].flags \/ MarkedNow("msg", i)
      BY <1>1, <1>2, <2>1, <2>2, MarkedBefore
    <3>2. t.of.area \in Links => OnItsWay(t.of.area, t)
      BY <3>1 DEF NewsDone
    <3>3. To(t) = "user" /\ ~uncopied' => HasCopy(t) \/ Copying(i) \/ Copying(i)'
      BY <3>1 DEF NewsDone
    <3>4. HasCopy(t) => HasCopy(t)'
      BY <1>1, SeenStays
    <3>5. Copying(i) => uncopied' \/ Copying(i)' \/ HasCopy(t)'
      BY <3>1
    <3> QED
      BY <3>2, <3>3, <3>4, <3>5 DEF Onward
  <2> QED
    BY <2>1, <2>2 DEF NewsDone, HasCopy, OnItsWay, Arriving
<1> QED
  BY <1>4, <1>5

-----------------------------------------------------------------------------
(* The message that is marked by a step, and the copy that is made for it. *)

\* Who takes the step while mailass or bbass runs.
LEMMA WhoSteps ==
  ASSUME NetInv, [Next]_vars, ~Crash, Mailing, pc # "exit"
  PROVE  \/ job.prog = "mailass" /\ MailassStep /\ UNCHANGED <<packFiles, envVars>>
         \/ job.prog = "bbass" /\ BbassStep /\ UNCHANGED <<packFiles, envVars>>
         \/ UNCHANGED vars
<1>1. pc # "idle" /\ Places
  <2>1. "loc" \in Bases
    BY DEF Bases
  <2> QED
    BY <2>1, KnownFacts DEF NetInv
<1>2. CASE Start \/ Exit \/ (\E e \in toEnter : Enter(e)) \/ \E x \in Links : Collect(x)
  BY <1>1, <1>2 DEF Start, StartPackdis, StartMailass, StartBbass, Exit, Enter, Collect
<1>3. CASE PackdisStep
  BY <1>3, PackProg DEF Mailing
<1>4. ASSUME MailassStep PROVE job.prog = "mailass"
  <2>1. job.prog = "mailass" \/ pc \in {"del", "mark"}
    BY <1>4 DEF MailassStep, Scan, LocalClaim, BounceClaim, MailPut, LocalPutFails, BouncePutFails,
                MailHeader, MailAppend, MailBody, MailSetproc, DeleteFree, DeleteMark, MailClose
  <2> QED
    BY <2>1, <1>1, MailPlace
<1>5. ASSUME BbassStep PROVE job.prog = "bbass"
  BY <1>5 DEF BbassStep, BbScan, BbAppend, BbBody, BbSetproc, BbLocal, BbPut, BbHeader, BbClose
<1> QED
  BY <1>2, <1>3, <1>4, <1>5 DEF Next, Step

\* mailass marks a message that was seen to.
LEMMA MailMarked ==
  ASSUME NetInv, AtMail, NEW i, MarkedNow("loc", i)
  PROVE  i \in 1 .. Known("loc") /\ Seen(disk["loc"].hdr[i].text)
<1>1. pc = "proc" /\ job.prog = "mailass" /\ i = job.this /\ pc \in AtOld
  BY DEF MarkedNow, AtOld
<1>2. job.this \in 1 .. mem.top["loc"]
  BY <1>1, MailPlace DEF NetInv
<1>3. Seen(job.text) /\ job.text = disk["loc"].hdr[i].text
  BY <1>1 DEF AtMail, Old
<1> QED
  BY <1>1, <1>2, <1>3 DEF Known, Mailing

\* bbass marks a message that is on its way to its link, before it is copied.
LEMMA NewsMarked ==
  ASSUME NetInv, AtNews, [Next]_vars, ~WriteFault, ~Crash, NEW i, MarkedNow("msg", i)
  PROVE  LET t == disk["msg"].hdr[i].text IN
           /\ i \in 1 .. Known("msg")
           /\ t.of.area \in Links => OnItsWay(t.of.area, t)
           /\ To(t) = "user" => uncopied' \/ Copying(i)'
<1>1. pc = "proc" /\ pc' # "proc" /\ job.prog = "bbass" /\ i = job.this /\ pc \in AtOld
  BY DEF MarkedNow, AtOld
<1>2. i \in 1 .. Known("msg")
  BY <1>1, BbPlace DEF NetInv, Known
<1>3. job.text = disk["msg"].hdr[i].text
  BY <1>1 DEF AtNews
<1>4. job.text.of.area \in Links => OnItsWay(job.text.of.area, job.text)
  BY <1>1 DEF AtNews, Aim
<1>5. ASSUME To(job.text) = "user" PROVE Copying(i)'
  <2>1. BbassStep
    BY <1>1, WhoSteps DEF Mailing, vars
  <2>2. BbSetproc
    BY <1>1, <2>1 DEF BbassStep, BbScan, BbAppend, BbBody, BbLocal, BbPut, BbHeader, BbClose
  <2>3. pc' = "local" /\ job' = job
    BY <1>5, <2>2 DEF BbSetproc
  <2> QED
    BY <1>1, <2>3 DEF Copying
<1> QED
  BY <1>2, <1>3, <1>4, <1>5

\* What a program has written to loctxt is known there.
LEMMA NewHeader ==
  ASSUME NetInv, Mailing, job'.prog = job.prog, NEW h, PutHeader("loc", h)
  PROVE  /\ mem.top["loc"] \in Nat /\ Known("loc")' = mem.top["loc"] + 1
         /\ disk'["loc"].hdr[mem.top["loc"] + 1] = h
<1>1. "loc" \in Bases /\ Stores /\ Headed
  BY DEF Bases, NetInv
<1>2. pc # "idle"
  BY <1>1, KnownFacts
<1>3. /\ mem.top["loc"] \in Nat /\ mem'.top["loc"] = mem.top["loc"] + 1
      /\ disk'["loc"].hdr[mem.top["loc"] + 1] = h
  BY <1>1, <1>2, HeaderGrows
<1> QED
  BY <1>3 DEF Known, Mailing

LEMMA CopyStep ==
  ASSUME NetInv, AtNews, [Next]_vars, ~WriteFault, ~Crash, NEW i, Copying(i)
  PROVE  uncopied' \/ Copying(i)' \/ \A t : t = disk["msg"].hdr[i].text => HasCopy(t)'
<1>1. pc \in {"local", "put", "hdr"} /\ job.prog = "bbass" /\ i = job.this /\ pc \in AtOld
  BY DEF Copying, AtOld
<1>2. CASE UNCHANGED vars
  BY <1>1, <1>2 DEF vars, baseVars, Copying
<1>3. CASE BbassStep
  <2>1. BbLocal \/ BbPut \/ BbHeader
    BY <1>1, <1>3 DEF BbassStep, BbScan, BbAppend, BbBody, BbSetproc, BbClose
  <2>2. CASE BbLocal
    <3>1. uncopied' \/ (pc' = "put" /\ job' = job)
      BY <2>2 DEF BbLocal
    <3> QED
      BY <3>1, <1>1 DEF Copying
  <2>3. CASE BbPut
    <3>1. uncopied' \/ (pc' \in {"put", "hdr"} /\ job' = job)
      BY <2>3 DEF BbPut
    <3> QED
      BY <3>1, <1>1 DEF Copying
  <2>4. CASE BbHeader
    <3>1. pc = "hdr"
      BY <2>4 DEF BbHeader
    <3>2. w.text = disk["msg"].hdr[i].text
      BY <1>1, <3>1 DEF AtNews
    <3>3. PICK h : PutHeader("loc", h) /\ h.text = w.text /\ h.flags = {"INCOMING", "NEW"}
      <4> DEFINE h == [flags |-> {"INCOMING", "NEW"}, first |-> w.first, text |-> w.text]
      <4>1. PutHeader("loc", h)
        BY <2>4 DEF BbHeader
      <4>2. h.text = w.text /\ h.flags = {"INCOMING", "NEW"}
        OBVIOUS
      <4> HIDE DEF h
      <4> QED
        BY <4>1, <4>2
    <3>4. job'.prog = job.prog
      BY <1>3, ProgStays
    <3>5. PICK n \in Nat : n = mem.top["loc"] /\ Known("loc")' = n + 1 /\ disk'["loc"].hdr[n + 1] = h
      BY <1>1, <3>3, <3>4, NewHeader DEF Mailing
    <3>6. n + 1 \in 1 .. n + 1
      OBVIOUS
    <3> QED
      BY <3>2, <3>3, <3>5, <3>6 DEF HasCopy
  <2> QED
    BY <2>1, <2>2, <2>3, <2>4
<1> QED
  BY <1>1, <1>2, <1>3, WhoSteps DEF Mailing

LEMMA UncopiedStays == NetInv /\ [Next]_vars /\ uncopied => uncopied'
<1> SUFFICES ASSUME NetInv, [Next]_vars, uncopied PROVE uncopied'
  OBVIOUS
<1>1. CASE Start \/ Exit \/ Crash \/ (\E e \in toEnter : Enter(e)) \/ (\E x \in Links : Collect(x))
           \/ UNCHANGED vars
  BY <1>1 DEF Start, StartPackdis, StartMailass, StartBbass, Exit, Crash, Enter, Collect, vars, histVars
<1>2. CASE PackdisStep
  BY <1>2, LineSteps DEF PackdisStep, EndBatch, NextItem, WriteMsg, WriteLoc, ClaimFirst, PackPut,
     PackHeader, EndPacket, Commit, Unlink, Status, histVars
<1>3. CASE MailassStep
  BY <1>3 DEF MailassStep, Scan, LocalClaim, BounceClaim, MailPut, LocalPutFails, BouncePutFails,
     MailHeader, MailAppend, MailBody, MailSetproc, DeleteFree, DeleteMark, MailClose, histVars
<1>4. CASE BbassStep
  BY <1>4 DEF BbassStep, BbScan, BbAppend, BbBody, BbSetproc, BbLocal, BbPut, BbHeader, BbClose, histVars
<1> QED
  BY <1>1, <1>2, <1>3, <1>4 DEF Next, Step

-----------------------------------------------------------------------------
(* The message at work.                                                    *)

\* The program reads what was written there.
LEMMA TextFound ==
  ASSUME NetInv, ~unmapped, pc # "idle", NEW b \in Bases, NEW i \in 1 .. Count(b),
         disk[b].hdr[i].flags \cap {"PROCESSED", "DELETED"} = {}
  PROVE  disk[b].txt[disk[b].hdr[i].first].text = disk[b].hdr[i].text
<1>1. Stores /\ Headed /\ Separate
  BY DEF NetInv
<1>2. PICK t \in [Sectors -> SectorSet] : t = disk[b].txt
  BY <1>1, HasFacts
<1>3. i \in Has(b)
  BY DEF Has, Kept
<1>4. disk[b].hdr[i].first \in Sectors
  BY <1>1, <1>3, HasFacts
<1>5. PICK s \in 0 .. N : s = disk[b].hdr[i].first
  BY <1>4, SectorCount DEF Sectors, N
<1>6. Whole(t, s, disk[b].hdr[i].text)
  BY <1>1, <1>2, <1>3, <1>5 DEF Separate, Apart
<1>7. LinksIn(t, s)[0] = s
  BY LinksSteps
<1>8. PICK n \in 1 .. N : n = Size(disk[b].hdr[i].text)
  BY <1>6 DEF Whole
<1>9. 1 \in 1 .. n /\ 1 - 1 = 0
  OBVIOUS
<1>10. t[s] = Sector(disk[b].hdr[i].text, 1, LinksIn(t, s)[1])
  BY <1>6, <1>7, <1>8, <1>9 DEF Whole
<1> QED
  BY <1>2, <1>5, <1>10 DEF Sector

LEMMA MailScanned ==
  ASSUME NetInv, ~unmapped, Scan
  PROVE  AtMail'
<1>1. /\ Stores /\ Headed /\ Places /\ "loc" \in Bases
      /\ pc = "scan" /\ job.prog = "mailass" /\ UNCHANGED <<disk, mem>>
  BY DEF Scan, baseVars, NetInv, Bases
<1>2. job \in ScanJobs /\ job.this \in Nat \ {0}
  BY <1>1, MailPlace
<1> DEFINE todo == {i \in job.this .. mem.top["loc"] : ~Ignorel(disk["loc"].hdr[i])}
<1>3. CASE todo = {}
  BY <1>1, <1>3 DEF Scan, AtMail, AtOld
<1>4. CASE todo # {}
  <2>1. PICK m : m = Min(todo)
    OBVIOUS
  <2>2. /\ pc' = "act"
        /\ job' = [job EXCEPT !.this = m, !.text = disk["loc"].txt[disk["loc"].hdr[m].first].text]
    BY <1>4, <2>1 DEF Scan
  <2>3. mem.top["loc"] \in Nat /\ Count("loc") = mem.top["loc"]
    BY <1>1, HasFacts DEF Count
  <2>4. m \in todo
    <3>1. todo \subseteq Nat
      BY <1>2, <2>3
    <3> QED
      BY <1>4, <2>1, <3>1, MinFacts
  <2>5. m \in 1 .. Count("loc") /\ disk["loc"].hdr[m].flags \cap {"PROCESSED", "DELETED"} = {}
    BY <1>2, <2>3, <2>4 DEF Ignorel
  <2>6. job'.this = m /\ job'.text = disk["loc"].hdr[m].text
    <3>1. job'.this = m /\ job'.text = disk["loc"].txt[disk["loc"].hdr[m].first].text
      BY <1>2, <2>2 DEF ScanJobs
    <3> QED
      BY <3>1, <2>5, <1>1, TextFound
  <2> QED
    BY <1>1, <2>2, <2>6 DEF AtMail, Old
<1> QED
  BY <1>3, <1>4

\* The message at work stays the same.
LEMMA OldStays ==
  ASSUME NetInv, Grown, job' = job, pc \in AtOld, job.prog = "mailass", AtMail
  PROVE  job.text = Old.text /\ job'.text = Old'.text
<1>1. job.this \in 1 .. mem.top["loc"] /\ pc # "idle" /\ "loc" \in Bases
  BY MailPlace DEF NetInv, AtOld, Bases
<1>2. job.this \in 1 .. Count("loc")
  BY <1>1 DEF Count
<1>3. disk'["loc"].hdr[job.this].text = disk["loc"].hdr[job.this].text
  BY <1>1, <1>2 DEF Grown
<1>4. job.text = Old.text
  BY DEF AtMail
<1> QED
  BY <1>3, <1>4 DEF Old

\* The notice that is written tells of the message.
LEMMA NoticeTells ==
  ASSUME NetInv, AtMail, Marks, pc \in AtOld, job.prog = "mailass"
  PROVE  Tells(Notice, job.text)
<1>1. /\ pc # "idle" /\ "loc" \in Bases /\ job.this \in 1 .. mem.top["loc"]
      /\ job.text \in Texts /\ Old.flags \cap {"OUTGOING", "INTRANSIT"} # {}
  BY MailPlace DEF NetInv, AtOld, Bases
<1>2. job.this \in 1 .. Count("loc")
  BY <1>1 DEF Count
<1>3. job.text = Old.text
  BY DEF AtMail
<1>4. /\ "OUTGOING" \in Old.flags => job.text.kind = "letter"
      /\ job.text.kind # "sysop"
  BY <1>1, <1>2, <1>3 DEF Marks, Old
<1>5. Notice.kind \in {"notice", "sysop"} /\ Notice.of = job.text.of
  BY DEF Notice, Bounced
<1>6. job.text.kind = "notice" => Notice.kind = "sysop"
  BY <1>4 DEF Notice, Bounced, From
<1> QED
  BY <1>4, <1>5, <1>6 DEF Tells

LEMMA MailHeaded ==
  ASSUME NetInv, AtMail, Marks, MailHeader, ~WriteFault, job'.prog = job.prog
  PROVE  \A t : t = job.text => Seen(t)'
<1>1. pc = "hdr" /\ job.prog = "mailass" /\ pc \in AtOld /\ job' = job
  BY DEF MailHeader, AtOld
<1>2. PICK t \in Texts : t = job.text
  BY <1>1, MailPlace DEF NetInv
<1>3. PICK h : PutHeader("loc", h) /\ h.text = w.text /\ (~Bouncing => "INCOMING" \in h.flags)
  <2> DEFINE h == [flags |-> IF Bouncing THEN Bounced(Old, job.text).flags ELSE {"INCOMING", "NEW"},
                   first |-> w.first, text |-> w.text]
  <2>1. PutHeader("loc", h)
    BY DEF MailHeader
  <2>2. h.text = w.text /\ (~Bouncing => "INCOMING" \in h.flags)
    OBVIOUS
  <2> HIDE DEF h
  <2> QED
    BY <2>1, <2>2
<1>4. PICK n \in Nat : n = mem.top["loc"] /\ Known("loc")' = n + 1 /\ disk'["loc"].hdr[n + 1] = h
  BY <1>1, <1>3, NewHeader DEF Mailing
<1>5. n + 1 \in 1 .. n + 1
  OBVIOUS
<1>6. ~ForLink /\ w.text = IF Bouncing THEN Notice ELSE t
  BY <1>1, <1>2 DEF AtMail
<1>7. To(t) \notin Links
  BY <1>2, <1>6 DEF ForLink, ToType, Links
<1>8. CASE Bouncing
  <2>1. Tells(h.text, t)
    BY <1>1, <1>2, <1>3, <1>6, <1>8, NoticeTells
  <2>2. Told(t)'
    BY <2>1, <1>4, <1>5 DEF Told
  <2>3. To(t) # "user"
    BY <1>2, <1>8 DEF Bouncing, ToType
  <2> QED
    BY <2>2, <2>3, <1>2, <1>7 DEF Seen
<1>9. CASE ~Bouncing
  <2>1. HasCopy(t)'
    BY <1>2, <1>3, <1>4, <1>5, <1>6, <1>9 DEF HasCopy
  <2>2. To(t) = "user"
    BY <1>2, <1>6, <1>9 DEF Bouncing, ForLink, ToType
  <2> QED
    BY <2>1, <2>2, <1>2, <1>7 DEF Seen
<1> QED
  BY <1>8, <1>9

LEMMA AtMailStays ==
  ASSUME NetInv, Grown, AtMail, Marks, Bundles, MailassStep, UNCHANGED envVars, ~unmapped, ~WriteFault
  PROVE  AtMail'
<1>1. /\ Stores /\ Headed /\ Places /\ "loc" \in Bases
      /\ job'.prog = job.prog
  BY ProgStays DEF NetInv, Bases
<1>2. job.prog = "mailass"
  <2>1. job.prog = "mailass" \/ pc \in {"del", "mark"}
    BY DEF MailassStep, Scan, LocalClaim, BounceClaim, MailPut, LocalPutFails, BouncePutFails,
           MailHeader, MailAppend, MailBody, MailSetproc, DeleteFree, DeleteMark, MailClose
  <2> QED
    BY <2>1, <1>1, MailPlace
<1>3. ASSUME job' = job, pc \in AtOld, pc' \notin {"put", "hdr", "proc", "exit"}
      PROVE  AtMail'
  <2>1. job'.text = Old'.text
    BY <1>2, <1>3, OldStays
  <2> QED
    BY <2>1, <1>3 DEF AtMail
<1>4. CASE Scan
  BY <1>4, MailScanned
<1>5. CASE LocalClaim \/ BounceClaim
  <2>1. pc = "act" /\ pc \in AtOld /\ job' = job /\ disk' = disk /\ pc' \in {"free", "put"}
    BY <1>5 DEF LocalClaim, BounceClaim, AtOld
  <2>2. CASE pc' = "put"
    <3>1. job'.text = Old'.text
      BY <1>2, <2>1, OldStays
    <3>2. w'.text = IF Bouncing THEN Notice ELSE job.text
      BY <1>5, <2>2 DEF LocalClaim, BounceClaim, Claim, Bouncing
    <3>3. ~ForLink /\ Old' = Old
      BY <1>5, <2>1 DEF LocalClaim, BounceClaim, Bouncing, ForLink, Old
    <3> QED
      BY <2>1, <2>2, <3>1, <3>2, <3>3 DEF AtMail, ForLink, Bouncing, Notice
  <2>3. CASE pc' = "free"
    BY <2>1, <2>3, <1>3
  <2> QED
    BY <2>1, <2>2, <2>3
<1>6. CASE MailPut
  <2>1. pc = "put" /\ pc \in AtOld /\ job' = job /\ pc' \in {"put", "hdr"}
    BY <1>6 DEF MailPut, AtOld
  <2>2. PutLink \/ (Flush /\ UNCHANGED <<mem, w>>)
    BY <1>6 DEF MailPut
  <2>3. w'.text = w.text
    BY <2>2, <1>1 DEF PutLink, Stores
  <2>4. Old' = Old
    BY <2>1, <2>2, <1>1, WritesSame DEF HeadersSame, Old
  <2>5. job'.text = Old'.text
    BY <1>2, <2>1, OldStays
  <2>6. ~ForLink /\ w.text = IF Bouncing THEN Notice ELSE job.text
    BY <1>2, <2>1 DEF AtMail
  <2> QED
    BY <2>1, <2>3, <2>4, <2>5, <2>6 DEF AtMail, ForLink, Bouncing, Notice
<1>7. CASE LocalPutFails \/ BouncePutFails \/ MailAppend \/ MailSetproc \/ DeleteFree
  <2>1. pc \in AtOld /\ job' = job /\ pc' \in {"free", "body", "del", "mark"}
    BY <1>7 DEF LocalPutFails, BouncePutFails, MailAppend, MailSetproc, DeleteFree, AtOld
  <2> QED
    BY <2>1, <1>3
<1>8. CASE MailHeader
  <2>1. pc \in AtOld /\ job' = job /\ pc' = "proc"
    BY <1>8 DEF MailHeader, AtOld
  <2>2. job'.text = Old'.text
    BY <1>2, <2>1, OldStays
  <2>3. PICK t : t = job.text /\ t = job'.text
    BY <2>1
  <2>4. Seen(t)'
    BY <1>1, <1>8, <2>3, MailHeaded
  <2>5. Seen(job.text)'
    BY <2>3, <2>4 DEF Seen, HasCopy, Told, OnItsWay, Arriving, To
  <2> QED
    BY <2>1, <2>2, <2>5 DEF AtMail
<1>9. CASE MailBody
  <2>1. pc = "body" /\ pc \in AtOld /\ job' = job /\ pc' = "proc"
    BY <1>9 DEF MailBody, AtOld
  <2>2. job'.text = Old'.text
    BY <1>2, <2>1, OldStays
  <2>3. PICK t : t = job.text /\ t = job'.text
    BY <2>1
  <2>4. Aim \in Links /\ Aim = To(t)
    BY <1>2, <2>1, <2>3 DEF Bundles, Aim
  <2>5. \A x : x = Aim => OnItsWay(x, job.text)'
    BY <1>9, BodyDone DEF envVars
  <2>6. OnItsWay(To(t), t)'
    BY <2>3, <2>4, <2>5 DEF OnItsWay
  <2>7. Seen(t)'
    BY <2>4, <2>6 DEF Seen, Links
  <2>8. Seen(job.text)'
    BY <2>3, <2>7 DEF Seen, HasCopy, Told, OnItsWay, Arriving, To
  <2> QED
    BY <2>1, <2>2, <2>8 DEF AtMail
<1>10. CASE DeleteMark
  BY <1>10 DEF DeleteMark, AtMail, AtOld
<1>11. CASE MailClose
  <2>1. /\ pc \in {"free", "top"} /\ mem' = mem /\ pc' = IF pc = "free" THEN "top" ELSE "exit"
        /\ pc = "top" => WriteTop("loc")
    BY <1>11 DEF MailClose
  <2>2. pc = "top" => disk'["loc"].top = mem'.top["loc"]
    BY <2>1, <1>1 DEF WriteTop, Stores, BaseSet
  <2> QED
    BY <2>1, <2>2 DEF AtMail, AtOld
<1> QED
  BY <1>4, <1>5, <1>6, <1>7, <1>8, <1>9, <1>10, <1>11 DEF MailassStep

LEMMA NewsScanned ==
  ASSUME NetInv, ~unmapped, BbScan
  PROVE  AtNews'
<1>1. /\ Stores /\ Headed /\ Places /\ "msg" \in Bases
      /\ pc = "scan" /\ job.prog = "bbass" /\ UNCHANGED <<disk, mem>>
  BY DEF BbScan, baseVars, NetInv, Bases
<1>2. job \in ScanJobs /\ job.this \in Nat \ {0}
  BY <1>1, BbPlace
<1> DEFINE todo == {i \in job.this .. mem.top["msg"] : ~Ignorem(disk["msg"].hdr[i])}
<1>3. CASE todo = {}
  BY <1>1, <1>3 DEF BbScan, AtNews, AtOld
<1>4. CASE todo # {}
  <2>1. PICK m : m = Min(todo)
    OBVIOUS
  <2>2. /\ pc' = "act"
        /\ job' = [job EXCEPT !.this = m, !.text = disk["msg"].txt[disk["msg"].hdr[m].first].text]
    BY <1>4, <2>1 DEF BbScan
  <2>3. mem.top["msg"] \in Nat /\ Count("msg") = mem.top["msg"]
    BY <1>1, HasFacts DEF Count
  <2>4. m \in todo
    <3>1. todo \subseteq Nat
      BY <1>2, <2>3
    <3> QED
      BY <1>4, <2>1, <3>1, MinFacts
  <2>5. m \in 1 .. Count("msg") /\ disk["msg"].hdr[m].flags \cap {"PROCESSED", "DELETED"} = {}
    BY <1>2, <2>3, <2>4 DEF Ignorem
  <2>6. job'.this = m /\ job'.text = disk["msg"].hdr[m].text
    <3>1. job'.this = m /\ job'.text = disk["msg"].txt[disk["msg"].hdr[m].first].text
      BY <1>2, <2>2 DEF ScanJobs
    <3> QED
      BY <3>1, <2>5, <1>1, TextFound
  <2> QED
    BY <1>1, <2>2, <2>6 DEF AtNews
<1> QED
  BY <1>3, <1>4

LEMMA AtNewsStays ==
  ASSUME NetInv, Grown, AtNews, Bundles, BbassStep, UNCHANGED envVars, ~unmapped, ~WriteFault
  PROVE  AtNews'
<1>1. /\ Stores /\ Headed /\ Places /\ "loc" \in Bases /\ "msg" \in Bases
      /\ job'.prog = job.prog
  BY ProgStays DEF NetInv, Bases
<1>2. job.prog = "bbass"
  BY DEF BbassStep, BbScan, BbAppend, BbBody, BbSetproc, BbLocal, BbPut, BbHeader, BbClose
<1>3. ASSUME job' = job, pc \in AtOld
      PROVE  job'.text = disk'["msg"].hdr[job'.this].text
  <2>1. job.this \in 1 .. mem.top["msg"] /\ pc # "idle"
    BY <1>1, <1>2, <1>3, BbPlace DEF AtOld
  <2>2. job.this \in 1 .. Count("msg")
    BY <2>1 DEF Count
  <2>3. disk'["msg"].hdr[job.this].text = disk["msg"].hdr[job.this].text
    BY <1>1, <2>2 DEF Grown
  <2> QED
    BY <2>3, <1>2, <1>3 DEF AtNews
<1>4. ASSUME job' = job, pc \in AtOld, pc' \notin {"put", "hdr", "proc", "free2", "top2", "exit"}
      PROVE  AtNews'
  BY <1>3, <1>4 DEF AtNews
<1>5. CASE BbScan
  BY <1>5, NewsScanned
<1>6. CASE BbAppend
  <2>1. pc = "act" /\ pc \in AtOld /\ job' = job
    BY <1>6 DEF BbAppend, AtOld
  <2>2. CASE Area \in Links
    <3>1. pc' \in {"body", "free"}
      BY <1>6, <2>2 DEF BbAppend
    <3> QED
      BY <3>1, <2>1, <1>4
  <2>3. CASE Area \notin Links
    <3>1. pc' = "proc"
      BY <1>6, <2>3 DEF BbAppend
    <3>2. Aim' \notin Links
      BY <1>2, <2>1, <2>3 DEF Aim, Area
    <3>3. job'.text = disk'["msg"].hdr[job'.this].text
      BY <2>1, <1>3
    <3> QED
      BY <3>1, <3>2, <3>3 DEF AtNews
  <2> QED
    BY <2>2, <2>3
<1>7. CASE BbBody
  <2>1. pc = "body" /\ pc \in AtOld /\ job' = job /\ pc' = "proc"
    BY <1>7 DEF BbBody, AtOld
  <2>2. job'.text = disk'["msg"].hdr[job'.this].text
    BY <2>1, <1>3
  <2>3. \A x : x = Aim => OnItsWay(x, job.text)'
    BY <1>7, BodyDone DEF envVars
  <2>4. PICK a : a = Aim /\ a = Aim'
    BY <2>1 DEF Aim
  <2>5. OnItsWay(Aim, job.text)'
    BY <2>3, <2>4 DEF OnItsWay, Arriving
  <2> QED
    BY <2>1, <2>2, <2>5 DEF AtNews
<1>8. CASE BbSetproc
  <2>1. pc = "proc" /\ pc \in AtOld /\ pc' \in {"local", "scan", "free"} /\ (pc' # "scan" => job' = job)
    BY <1>8 DEF BbSetproc, AtOld
  <2>2. CASE pc' = "scan"
    BY <2>2 DEF AtNews, AtOld
  <2>3. CASE pc' # "scan"
    BY <2>1, <2>3, <1>4
  <2> QED
    BY <2>2, <2>3
<1>9. CASE BbLocal
  <2>1. pc = "local" /\ pc \in AtOld /\ job' = job /\ pc' \in {"free", "put"}
    BY <1>9 DEF BbLocal, AtOld
  <2>2. pc' = "put" => w'.text = job.text
    BY <1>9 DEF BbLocal, Claim
  <2>3. job'.text = disk'["msg"].hdr[job'.this].text
    BY <2>1, <1>3
  <2> QED
    BY <2>1, <2>2, <2>3 DEF AtNews
<1>10. CASE BbPut
  <2>1. pc = "put" /\ pc \in AtOld /\ job' = job /\ pc' \in {"put", "hdr", "free"}
    BY <1>10 DEF BbPut, AtOld
  <2>2. pc' \in {"put", "hdr"} => w'.text = w.text
    BY <1>10, <1>1 DEF BbPut, PutLink, Stores
  <2>3. job'.text = disk'["msg"].hdr[job'.this].text
    BY <2>1, <1>3
  <2>4. w.text = job.text
    BY <2>1, <1>2 DEF AtNews
  <2> QED
    BY <2>1, <2>2, <2>3, <2>4 DEF AtNews
<1>11. CASE BbHeader
  <2>1. pc = "hdr" /\ pc \in AtOld /\ pc' \in {"scan", "free"} /\ (pc' # "scan" => job' = job)
    BY <1>11 DEF BbHeader, AtOld
  <2>2. CASE pc' = "scan"
    BY <2>2 DEF AtNews, AtOld
  <2>3. CASE pc' # "scan"
    BY <2>1, <2>3, <1>4
  <2> QED
    BY <2>2, <2>3
<1>12. CASE BbClose
  <2>1. /\ pc \in {"free", "top", "free2", "top2"} /\ mem' = mem /\ pc' \in {"top", "free2", "top2", "exit"}
        /\ pc = "free" => pc' = "top"
    BY <1>12 DEF BbClose
  <2>2. pc = "top" => WriteTop("loc")
    BY <1>12 DEF BbClose
  <2>3. pc \in {"free2", "top2"} => WriteFree("msg") \/ WriteTop("msg")
    BY <1>12 DEF BbClose
  <2>4. pc = "top" => disk'["loc"].top = mem'.top["loc"]
    BY <2>1, <2>2, <1>1 DEF WriteTop, Stores, BaseSet
  <2>5. pc \in {"free2", "top2"} => disk'["loc"].top = mem'.top["loc"]
    <3>1. pc \in {"free2", "top2"} => disk'["loc"] = disk["loc"]
      BY <2>3, <1>1 DEF WriteFree, WriteTop, Stores
    <3> QED
      BY <3>1, <2>1, <1>2 DEF AtNews
  <2> QED
    BY <2>1, <2>4, <2>5 DEF AtNews, AtOld
<1> QED
  BY <1>5, <1>6, <1>7, <1>8, <1>9, <1>10, <1>11, <1>12 DEF BbassStep

\* The programs that are at no message know nothing of one.
LEMMA AtWorkStays ==
  ASSUME NetInv, Grown, AtMail, AtNews, Marks, Bundles, [Next]_vars, ~unmapped, ~WriteFault, ~Crash
  PROVE  AtMail' /\ AtNews'
<1>1. Places /\ (pc = "idle" => ~Mailing)
  <2>1. "loc" \in Bases
    BY DEF Bases
  <2> QED
    BY <2>1, KnownFacts DEF NetInv
<1>2. ASSUME ~Mailing' PROVE AtMail' /\ AtNews'
  BY <1>2 DEF Mailing, AtMail, AtNews
<1>3. CASE Start
  <2>1. pc' = "scan" \/ job'.prog = "packdis"
    BY <1>3 DEF Start, StartPackdis, StartMailass, StartBbass
  <2> QED
    BY <2>1 DEF AtMail, AtNews, AtOld
<1>4. CASE Exit
  <2>1. job' = NoJob
    BY <1>4 DEF Exit, Gone
  <2> QED
    BY <2>1, <1>2 DEF Mailing, NoJob
<1>5. CASE (\E e \in toEnter : Enter(e)) \/ \E x \in Links : Collect(x)
  <2>1. pc = "idle" /\ job' = job
    BY <1>5 DEF Enter, Collect
  <2> QED
    BY <2>1, <1>1, <1>2 DEF Mailing
<1>6. CASE UNCHANGED vars
  <2>1. UNCHANGED <<disk, mem, w, bundle, sent, pc, job>>
    BY <1>6 DEF vars, baseVars, envVars
  <2>2. AtMail'
    BY <2>1 DEF AtMail, Old, ForLink, Bouncing, Notice, Seen, HasCopy, Told, OnItsWay, Arriving, Known, Mailing
  <2>3. AtNews'
    BY <2>1 DEF AtNews, Aim, OnItsWay, Arriving
  <2> QED
    BY <2>2, <2>3
<1>7. CASE PackdisStep
  BY <1>2, <1>7, PackProg DEF Mailing
<1>8. CASE Mailing /\ pc # "exit" /\ ~UNCHANGED vars
  <2>1. \/ job.prog = "mailass" /\ MailassStep /\ UNCHANGED envVars
        \/ job.prog = "bbass" /\ BbassStep /\ UNCHANGED envVars
    BY <1>8, WhoSteps
  <2>2. CASE job.prog = "mailass" /\ MailassStep /\ UNCHANGED envVars
    <3>1. AtMail'
      BY <2>2, AtMailStays
    <3>2. job'.prog = "mailass"
      BY <2>2, ProgStays
    <3> QED
      BY <3>1, <3>2 DEF AtNews
  <2>3. CASE job.prog = "bbass" /\ BbassStep /\ UNCHANGED envVars
    <3>1. AtNews'
      BY <2>3, AtNewsStays
    <3>2. job'.prog = "bbass"
      BY <2>3, ProgStays
    <3> QED
      BY <3>1, <3>2 DEF AtMail
  <2> QED
    BY <2>1, <2>2, <2>3
<1>9. CASE MailassStep \/ BbassStep
  <2>1. Mailing /\ pc # "exit"
    <3>1. Mailing
      BY <1>9, ProgStays DEF Mailing
    <3>2. pc # "exit"
      BY <1>9 DEF MailassStep, Scan, LocalClaim, BounceClaim, MailPut, LocalPutFails, BouncePutFails,
              MailHeader, MailAppend, MailBody, MailSetproc, DeleteFree, DeleteMark, MailClose, BbassStep,
              BbScan, BbAppend, BbBody, BbSetproc, BbLocal, BbPut, BbHeader, BbClose
    <3> QED
      BY <3>1, <3>2
  <2> QED
    BY <2>1, <1>6, <1>8
<1> QED
  BY <1>3, <1>4, <1>5, <1>6, <1>7, <1>9 DEF Next, Step

LEMMA MessagesKept == NetInv /\ PacketInv /\ MessageInv /\ [Next]_vars => MessageInv'
<1> SUFFICES ASSUME NetInv, PacketInv, MessageInv, [Next]_vars, Quiet'
             PROVE  Marks' /\ Bundles' /\ AtMail' /\ AtNews' /\ MailDone' /\ NewsDone'
  BY DEF MessageInv
<1>1. Quiet /\ ~unmapped /\ ~WriteFault /\ ~Crash
  BY QuietGoes
<1>2. Marks /\ Bundles /\ AtMail /\ AtNews /\ MailDone /\ NewsDone
  BY <1>1 DEF MessageInv
<1>3. Grown /\ NetInv'
  BY StepGrows, StepKeeps
<1>4. HeadsStep
  BY <1>2, <1>3, StepHeads
<1>5. \A b \in Bases : Known(b) <= Known(b)'
  BY <1>1, <1>2, <1>3, StepKnown
<1>6. Bundles' /\ Onward
  BY <1>1, <1>2, StepBundles
<1>7. AtMail' /\ AtNews'
  BY <1>1, <1>2, <1>3, AtWorkStays
<1>8. \A i : MarkedNow("loc", i) => i \in 1 .. Known("loc") /\ Seen(disk["loc"].hdr[i].text)
  BY <1>2, MailMarked
<1>9. \A i : MarkedNow("msg", i) =>
               LET t == disk["msg"].hdr[i].text IN
                 /\ i \in 1 .. Known("msg")
                 /\ t.of.area \in Links => OnItsWay(t.of.area, t)
                 /\ To(t) = "user" => uncopied' \/ Copying(i)'
  BY <1>1, <1>2, NewsMarked
<1>10. \A i : Copying(i) => uncopied' \/ Copying(i)' \/ \A t : t = disk["msg"].hdr[i].text => HasCopy(t)'
  BY <1>1, <1>2, CopyStep
<1>11. Marks'
  <2>1. \A b \in Bases : \A i : MarkedNow(b, i) => i \in 1 .. Known(b)
    BY <1>8, <1>9 DEF Bases
  <2> QED
    BY <2>1, <1>2, <1>3, <1>4, <1>5, MarksStay
<1>12. MailDone' /\ NewsDone'
  BY <1>2, <1>3, <1>4, <1>5, <1>6, <1>8, <1>9, <1>10, UncopiedStays, DoneStays
<1> QED
  BY <1>6, <1>7, <1>11, <1>12

LEMMA MessagesAtFirst == Init => MessageInv
<1> SUFFICES ASSUME Init PROVE MessageInv
  OBVIOUS
<1>1. pc = "idle" /\ job = NoJob /\ bundle = [x \in Links |-> <<>>] /\ disk = [b \in Bases |-> EmptyBase]
  BY DEF Init, BaseInit
<1>2. job.prog \notin {"mailass", "bbass"}
  BY <1>1 DEF NoJob
<1>3. \A b \in Bases : disk[b].top = 0
  BY <1>1 DEF EmptyBase
<1>4. \A b \in Bases : Known(b) = 0 /\ Count(b) = 0
  BY <1>1, <1>2, <1>3 DEF Known, Mailing, Count
<1>5. "loc" \in Bases /\ "msg" \in Bases
  BY DEF Bases
<1>6. Bundles
  BY <1>1 DEF Bundles
<1> QED
  BY <1>2, <1>4, <1>5, <1>6 DEF MessageInv, Marks, AtMail, AtNews, MailDone, NewsDone

\* Between two programs the invariant says what the property asks.
LEMMA MessagesSound == NetInv /\ MessageInv => NothingLost
<1> SUFFICES ASSUME NetInv, MessageInv, Calm PROVE NothingLost
  BY DEF NothingLost
<1>1. MailDone /\ NewsDone /\ pc = "idle" /\ Quiet
  BY DEF Calm, MessageInv, Quiet
<1>2. job = NoJob
  BY <1>1 DEF NetInv, Places, PackPcs, MailPcs, BbPcs
<1>3. ~Mailing /\ \A i : ~Copying(i)
  BY <1>2 DEF Mailing, Copying, NoJob
<1>4. \A b \in Bases : Known(b) = disk[b].top
  BY <1>3 DEF Known
<1>5. "loc" \in Bases /\ "msg" \in Bases
  BY DEF Bases
<1>6. ASSUME NEW t, HasCopy(t) PROVE Delivered(t)
  BY <1>4, <1>5, <1>6 DEF HasCopy, Delivered, Listed
<1>7. ASSUME NEW t, Told(t)
      PROVE  \E h \in Listed("loc") : h.text.of = t.of /\ h.text.kind # "letter" /\ h.text # t
  <2>1. PICK i \in 1 .. disk["loc"].top : Tells(disk["loc"].hdr[i].text, t)
    BY <1>4, <1>5, <1>7 DEF Told
  <2>2. PICK h : h = disk["loc"].hdr[i]
    OBVIOUS
  <2>3. h \in Listed("loc")
    BY <2>2 DEF Listed
  <2>4. h.text.of = t.of /\ h.text.kind # "letter" /\ h.text # t
    BY <2>1, <2>2 DEF Tells
  <2> QED
    BY <2>3, <2>4
<1>8. ASSUME NEW t, Seen(t) PROVE Answered(t)
  <2>1. CASE To(t) \in Links
    <3>1. OnItsWay(To(t), t)
      BY <2>1, <1>8 DEF Seen
    <3>2. To(t) # "user"
      BY <2>1 DEF Links
    <3> QED
      BY <2>1, <3>1, <3>2 DEF Answered, OnItsWay
  <2>2. CASE To(t) = "user"
    <3>1. To(t) \notin Links
      BY <2>2 DEF Links
    <3>2. Delivered(t)
      BY <2>2, <1>6, <1>8 DEF Seen
    <3> QED
      BY <2>2, <3>1, <3>2 DEF Answered, Delivered
  <2>3. CASE To(t) \notin Links \cup {"user"}
    <3>1. \E h \in Listed("loc") : h.text.of = t.of /\ h.text.kind # "letter" /\ h.text # t
      BY <2>3, <1>7, <1>8 DEF Seen
    <3>2. To(t) \notin Links /\ To(t) # "user"
      BY <2>3
    <3> QED
      BY <3>1, <3>2 DEF Answered
  <2> QED
    BY <2>1, <2>2, <2>3
<1>9. ASSUME NEW h \in Listed("loc"), "PROCESSED" \in h.flags PROVE Answered(h.text)
  <2>1. PICK i \in 1 .. Known("loc") : h = disk["loc"].hdr[i]
    BY <1>4, <1>5 DEF Listed
  <2> QED
    BY <2>1, <1>1, <1>8, <1>9 DEF MailDone
<1>10. ASSUME NEW h \in Listed("msg"), "PROCESSED" \in h.flags
       PROVE  /\ h.text.of.area \in Links => OnItsWay(h.text.of.area, h.text)
              /\ To(h.text) = "user" /\ ~uncopied => Delivered(h.text)
  <2>1. PICK i \in 1 .. Known("msg") : h = disk["msg"].hdr[i]
    BY <1>4, <1>5 DEF Listed
  <2> QED
    BY <2>1, <1>1, <1>3, <1>6, <1>10 DEF NewsDone
<1> QED
  BY <1>9, <1>10 DEF NothingLost

\* Packets and archives are removed, and packets and messages marked as processed, only
\* when what is in them is where it should go.
THEOREM NothingIsDropped == Spec => []NothingDropped
<1>1. Init => NetInv /\ PacketInv /\ MessageInv
  BY InitSound, PacketsAtFirst, MessagesAtFirst
<1>2. NetInv /\ PacketInv /\ MessageInv /\ [Next]_vars => (NetInv /\ PacketInv /\ MessageInv)'
  BY StepKeeps, PacketsKept, MessagesKept
<1>3. NetInv /\ PacketInv /\ MessageInv => NothingDropped
  BY PacketsSound, MessagesSound DEF NothingDropped, PacketInv
<1> QED
  BY <1>1, <1>2, <1>3, PTL DEF Spec


-----------------------------------------------------------------------------
(* What is about a letter, and what has gone to a link.                    *)

\* A text that a message with text t may lead to, or t itself: a letter leads to its copies
\* and notices, a notice only to its copies and other notices.
Related(u, t) == u.of = t.of /\ (t.kind = "letter" \/ u.kind # "letter")

Went(x, t) == <<x, t>> \in sent \/ \E i \in DOMAIN bundle[x] : bundle[x][i] = t
Unsent(t) == \A x \in Links : \A u \in Texts : Went(x, u) => ~Related(u, t)
NotSent(l) == \A x \in Links : \A u \in Texts : Went(x, u) => u.of # l

\* A message that mailass or bbass will see to.
Waits(b, h) ==
  /\ "PROCESSED" \notin h.flags
  /\ b = "loc" => h.flags \cap {"OUTGOING", "INTRANSIT"} # {}
  /\ b = "msg" => h.flags \cap {"OUTGOING", "NEW"} # {}

\* No other message comes from it.
Alone(b, i) ==
  \A c \in Bases : \A j \in 1 .. Count(c) :
    Related(disk[c].hdr[j].text, disk[b].hdr[i].text) => c = b /\ j = i

\* It has gone where it should, and is about to be marked.
Answering(b, i) ==
  pc = "proc" /\ i = job.this /\ job.prog = IF b = "loc" THEN "mailass" ELSE "bbass"

FreshIn(b, n, l) == \A i \in 1 .. n : disk[b].hdr[i].text.of # l
Fresh(l) == NotSent(l) /\ \A b \in Bases : FreshIn(b, Count(b), l)
NoneWaits(l) ==
  \A b \in Bases : \A i \in 1 .. Count(b) : Waits(b, disk[b].hdr[i]) => disk[b].hdr[i].text.of # l

-----------------------------------------------------------------------------
(* The invariant, as long as nothing failed.                               *)

HeadsOnce ==
  \A b \in Bases : \A i, j \in 1 .. Count(b) :
    LET g == disk[b].hdr[i]  h == disk[b].hdr[j] IN
      g.text = h.text /\ ("INCOMING" \in g.flags <=> "INCOMING" \in h.flags) => i = j
BundlesOnce ==
  \A x \in Links :
    /\ \A i, j \in DOMAIN bundle[x] : bundle[x][i] = bundle[x][j] => i = j
    /\ \A i \in DOMAIN bundle[x] : <<x, bundle[x][i]>> \notin sent
SentTexts == sent \subseteq Links \X Texts

\* Nothing has come from a message that waits, until it is answered.
MsgLetters == \A i \in 1 .. Count("msg") : disk["msg"].hdr[i].text.kind = "letter"
Sources ==
  \A b \in Bases : \A i \in 1 .. Count(b) : LET h == disk[b].hdr[i] IN
    Waits(b, h) =>
      /\ Answering(b, i) \/ Unsent(h.text)
      /\ (b = "loc" /\ Answering(b, i)) \/ Alone(b, i)
NewsWaits == job.prog = "bbass" /\ pc \in {"act", "body", "proc"} => Waits("msg", disk["msg"].hdr[job.this])
CopyAlone ==
  \A i \in 1 .. Count("msg") :
    Copying(i) => Alone("msg", i) /\ "PROCESSED" \in disk["msg"].hdr[i].flags

\* Nothing is known of what was not entered or filed.
EnterOnce == \A e, f \in toEnter : e.letter = f.letter => e = f
EnterFresh == \A e \in toEnter : Fresh(e.letter)
LinesOnce ==
  \A i, j \in DOMAIN lines : Todo(lines[i]) /\ Todo(lines[j]) =>
    \A k \in LettersAt(lines[i].name), m \in LettersAt(lines[j].name) :
      Content[lines[i].name][k].of = Content[lines[j].name][m].of => i = j /\ k = m
LinesFresh ==
  \A i \in DOMAIN lines : Todo(lines[i]) /\ ~(AtPacket /\ i = job.line) =>
    \A k \in LettersAt(lines[i].name) : Fresh(Content[lines[i].name][k].of)

\* The packet at work: what was filed of it is not on the disk yet, and what is still to be
\* filed is not in the bases.  A letter may be in msgtxt already, while it goes to loctxt.
Unfiled == AtPacket /\ pc \in {"item", "put", "hdr", "loc"}
FreshOnDisk(l) == NotSent(l) /\ \A b \in Bases : FreshIn(b, disk[b].top, l)
AtHand(l) ==
  /\ FreshIn("loc", Count("loc"), l) /\ NoneWaits(l)
  /\ pc # "loc" /\ (w.base = "msg" \/ ~WantsMsg(l)) => FreshIn("msg", Count("msg"), l)
ItemsFresh ==
  Unfiled =>
    \A k \in LettersAt(Line.name) : LET l == Items[k].of IN
      /\ FreshOnDisk(l)
      /\ k > job.item \/ (pc = "item" /\ k = job.item) => Fresh(l)
      /\ pc # "item" /\ k = job.item => AtHand(l)

\* Nothing has failed of the packet at work.
NoneFailed == AtPacket => job.rc = 0

OnceInv ==
  Quiet =>
    /\ HeadsOnce /\ BundlesOnce /\ SentTexts /\ MsgLetters /\ Sources /\ NewsWaits /\ CopyAlone
    /\ EnterOnce /\ EnterFresh /\ LinesOnce /\ LinesFresh /\ ItemsFresh /\ NoneFailed

-----------------------------------------------------------------------------
(* The invariant about echomail, whatever fails.                           *)

Echoed(t) == t.kind = "letter" /\ Carried(t.of) /\ WantsMsg(t.of)
Homely(t) == Echoed(t) => t.of.to = "user"

\* In loctxt it is only for users; in msgtxt it is not where the messages are that were
\* entered, and no program gives their sectors away.
LocEcho == \A s \in Sectors : Homely(disk["loc"].txt[s].text)
Posted(h) == h.flags \cap {"OUTGOING", "NEW"} # {}
NewsEcho ==
  \A i \in 1 .. Count("msg") : LET h == disk["msg"].hdr[i] IN
    Posted(h) => h.first \in disk["msg"].used /\ ~Echoed(disk["msg"].txt[h.first].text)
MapGrows == pc # "idle" => disk["msg"].used \subseteq mem.used["msg"]

\* The writer, and the programs that deliver messages.
WriterEcho ==
  Working => /\ w.base = "loc" => Homely(w.text)
             /\ w.base = "msg" => w.rec \notin disk["msg"].used
WorkEcho ==
  /\ job.prog = "mailass" /\ pc \in AtOld => Homely(job.text)
  /\ job.prog = "mailass" /\ pc = "body" => To(job.text) \in Links
  /\ job.prog = "bbass" /\ pc \in AtOld => ~Echoed(job.text)

LinkEcho ==
  /\ bundle \in [Links -> Seq(Texts \cup {Broken})]
  /\ \A x \in Links : \A t \in Texts : Went(x, t) => ~Echoed(t)
EnterEcho == \A e \in toEnter : ~Carried(e.letter)

EchoInv ==
  LocEcho /\ NewsEcho /\ MapGrows /\ WriterEcho /\ WorkEcho /\ LinkEcho /\ EnterEcho

-----------------------------------------------------------------------------
(* What the steps that write text do to the disk.                          *)

LEMMA SectorWritten ==
  ASSUME Stores, PutLink \/ Flush
  PROVE  /\ w.base \in Bases
         /\ \A c \in Bases : /\ disk'[c].hdr = disk[c].hdr /\ disk'[c].used = disk[c].used
                             /\ disk'[c].top = disk[c].top
                             /\ c # w.base => disk'[c].txt = disk[c].txt
         /\ \A s \in Sectors :
              /\ s # w.rec => disk'[w.base].txt[s] = disk[w.base].txt[s]
              /\ disk'[w.base].txt[s].text \in {disk[w.base].txt[s].text, w.text}
<1>1. PICK n : disk' = [disk EXCEPT ![w.base].txt[w.rec] = Sector(w.text, w.part, n)]
  BY DEF PutLink, Flush
<1>2. w.base \in Bases /\ disk \in [Bases -> BaseSet] /\ disk[w.base].txt \in [Sectors -> SectorSet]
  BY DEF Stores, BaseSet
<1>6. Sector(w.text, w.part, n).text = w.text
  BY DEF Sector
<1>3. PICK v : v = Sector(w.text, w.part, n) /\ v.text = w.text
  BY <1>6
<1>4. disk'[w.base].txt = [disk[w.base].txt EXCEPT ![w.rec] = v]
  BY <1>1, <1>2, <1>3 DEF BaseSet
<1>5. \A c \in Bases : /\ disk'[c].hdr = disk[c].hdr /\ disk'[c].used = disk[c].used
                       /\ disk'[c].top = disk[c].top
                       /\ c # w.base => disk'[c].txt = disk[c].txt
  BY <1>1, <1>2 DEF BaseSet
<1> QED
  BY <1>2, <1>3, <1>4, <1>5

LEMMA EnterWrites ==
  ASSUME Stores, Headed, Rest, NEW e \in toEnter, Enter(e)
  PROVE  LET b == e.base  n == disk[b].top + 1 IN
         /\ b \in Bases /\ e.letter \in Letters /\ disk[b].used \subseteq disk'[b].used
         /\ \A s \in disk[b].used : disk'[b].txt[s] = disk[b].txt[s]
         /\ \A s \in Sectors : disk'[b].txt[s].text \in {disk[b].txt[s].text, Letter(e.letter)}
         /\ disk'[b].hdr[n].first \in disk'[b].used
         /\ disk'[b].txt[disk'[b].hdr[n].first].text = Letter(e.letter)
<1> DEFINE b == e.base
           n == disk[b].top + 1
           old == disk[b]
           text == Letter(e.letter)
           free == Sectors \ old.used
           size == Size(text)
           at == LowestOf(free, size)
           mine == Laid(at, size)
           h == [flags |-> IF b = "loc" THEN {"OUTGOING"} ELSE {"NEW"}, first |-> at[1], text |-> text]
           g == Inserted(old.hdr, old.top, h)
           Put(s) == LET k == CHOOSE j \in 1 .. size : at[j] = s IN
                       Sector(text, k, IF k = size THEN 0 ELSE at[k + 1])
           u == [s \in Sectors |-> IF s \in mine THEN Put(s) ELSE old.txt[s]]
<1>1. e \in [base : Bases, letter : Letters] /\ b \in Bases /\ e.letter \in Letters /\ text \in Texts
  BY DEF Rest, Letter, Texts
<1>2. pc = "idle" /\ Cardinality(free) >= size
      /\ disk' = [disk EXCEPT ![b] = [used |-> old.used \cup mine, top |-> old.top + 1,
                                      hdr |-> g, txt |-> u]]
  BY DEF Enter, LowestOf, Laid, Inserted
<1> HIDE DEF text
<1>3. size \in Nat \ {0}
  BY <1>1, SizeFacts
<1>4. /\ disk \in [Bases -> BaseSet] /\ old.txt \in [Sectors -> SectorSet] /\ old.hdr \in Seq(Headers)
      /\ old.used \in SUBSET Sectors /\ old.top \in Nat /\ old.top <= Len(old.hdr)
  BY <1>1, <1>2, HasFacts DEF Stores, Headed, Count
<1>5. /\ \A k \in 1 .. size : at[k] \in free
  <2> HIDE DEF size
  <2>1. IsFiniteSet(free) /\ free \in SUBSET Sectors
    BY SectorCount, FS_Subset
  <2>2. Cardinality(free) \in Nat /\ size <= Cardinality(free)
    BY <2>1, <1>2, <1>3, FS_CardinalityType
  <2> QED
    BY <2>1, <2>2, <1>3, LowestFacts
<1> HIDE DEF at, size
<1>6. mine \cap old.used = {} /\ at[1] \in mine /\ at[1] \in Sectors
  BY <1>3, <1>5 DEF Laid
<1>7. \A s \in Sectors : u[s].text = IF s \in mine THEN text ELSE old.txt[s].text
  BY DEF Sector
<1>8. \A s \in old.used : u[s] = old.txt[s]
  BY <1>4, <1>6
<1>9. g[old.top + 1] = h
  <2>1. PICK T : T = Headers \cup {h}
    OBVIOUS
  <2>2. old.hdr \in Seq(T)
    <3>1. \A i \in 1 .. Len(old.hdr) : old.hdr[i] \in T
      BY <2>1, <1>4
    <3> QED
      BY <3>1, <1>4
  <2>3. PICK hdr \in Seq(T) : hdr = old.hdr
    BY <2>2
  <2>4. PICK x \in T : x = h
    BY <2>1
  <2>5. PICK top \in Nat : top = old.top /\ top <= Len(hdr)
    BY <2>3, <1>4
  <2>6. g = Inserted(hdr, top, x)
    BY <2>3, <2>4, <2>5
  <2> HIDE DEF g
  <2>7. g[top + 1] = x
    BY <2>5, <2>6, EnteredIn
  <2> QED
    BY <2>4, <2>5, <2>7
<1>10. h.first = at[1]
  OBVIOUS
<1> HIDE DEF g, h, u, mine
<1>11. disk'[b].hdr = g /\ disk'[b].used = old.used \cup mine /\ disk'[b].txt = u
  BY <1>1, <1>2, <1>4
<1>12. disk'[b].hdr[n].first = at[1]
  BY <1>9, <1>10, <1>11
<1> QED
  BY <1>1, <1>4, <1>6, <1>7, <1>8, <1>11, <1>12 DEF text

-----------------------------------------------------------------------------
(* Echomail: the steps that write text, and those that do not.             *)

LEMMA EchoTexts ==
  /\ \A l : Echoed(Letter(l)) <=> Carried(l) /\ WantsMsg(l)
  /\ \A l : WantsLoc(l) => Homely(Letter(l))
  /\ \A t : ~Echoed(t) => Homely(t)
  /\ \A t : t.kind # "letter" => ~Echoed(t)
  /\ \A t : Homely(t) /\ To(t) \in Links => ~Echoed(t)
  /\ ~Echoed(NoText)
<1>1. \A l : Letter(l).kind = "letter" /\ Letter(l).of = l
  BY DEF Letter
<1>2. \A l : WantsLoc(l) /\ WantsMsg(l) => l.to = "user"
  BY DEF WantsLoc, ForUser
<1>3. \A t : t.kind = "letter" => To(t) = t.of.to
  BY DEF To
<1>4. "user" \notin Links /\ NoText.kind = "none"
  BY DEF Links, NoText
<1> QED
  BY <1>1, <1>2, <1>3, <1>4 DEF Echoed, Homely

\* A step that writes no text, takes no sector from msgtxt, and enters no message.
LEMMA EchoFrame ==
  ASSUME LocEcho, NewsEcho, ~Working',
         \A b \in Bases : disk'[b].txt = disk[b].txt,
         disk["msg"].used \subseteq disk'["msg"].used,
         pc' # "idle" => disk'["msg"].used \subseteq mem'.used["msg"],
         NEW n, n = Count("msg")',
         \A i \in 1 .. n : Posted(disk'["msg"].hdr[i]) =>
           /\ i \in 1 .. Count("msg") /\ Posted(disk["msg"].hdr[i])
           /\ disk'["msg"].hdr[i].first = disk["msg"].hdr[i].first
  PROVE  (LocEcho /\ NewsEcho /\ MapGrows /\ WriterEcho)'
<1>1. "loc" \in Bases /\ "msg" \in Bases
  BY DEF Bases
<1>2. NewsEcho'
  <2> SUFFICES ASSUME NEW i \in 1 .. n, Posted(disk'["msg"].hdr[i])
               PROVE  /\ disk'["msg"].hdr[i].first \in disk'["msg"].used
                      /\ ~Echoed(disk'["msg"].txt[disk'["msg"].hdr[i].first].text)
    BY DEF NewsEcho
  <2> QED
    BY <1>1 DEF NewsEcho
<1> QED
  BY <1>1, <1>2 DEF LocEcho, MapGrows, WriterEcho

\* The first sector of a message is claimed.
LEMMA EchoClaims ==
  ASSUME NetInv, LocEcho, NewsEcho, MapGrows, disk' = disk, pc # "idle", pc' = "put",
         NEW b \in Bases, NEW t, Claim(b, t), b = "loc" => Homely(t)
  PROVE  (LocEcho /\ NewsEcho /\ MapGrows /\ WriterEcho)'
<1>1. Stores /\ "msg" \in Bases
  BY DEF NetInv, Bases
<1>2. Getfree(b) \in Sectors /\ Getfree(b) \notin mem.used[b]
  BY <1>1, GetfreeFacts DEF Claim
<1>3. /\ w'.base = b /\ w'.text = t /\ w'.rec = Getfree(b)
      /\ mem' = [mem EXCEPT !.used[b] = @ \cup {Getfree(b)}]
  BY DEF Claim
<1> HIDE DEF Getfree
<1>4. mem'.top = mem.top /\ mem.used["msg"] \subseteq mem'.used["msg"]
  BY <1>1, <1>3 DEF Stores
<1>5. Count("msg")' = Count("msg")
  BY <1>4 DEF Count
<1>6. MapGrows'
  BY <1>4 DEF MapGrows
<1>7. WriterEcho'
  BY <1>2, <1>3 DEF WriterEcho, MapGrows
<1> QED
  BY <1>5, <1>6, <1>7 DEF LocEcho, NewsEcho

\* A sector is written.
LEMMA EchoPuts ==
  ASSUME NetInv, LocEcho, NewsEcho, MapGrows, WriterEcho, pc = "put", pc' \in {"put", "hdr"},
         PutLink \/ (Flush /\ UNCHANGED <<mem, w>>)
  PROVE  (LocEcho /\ NewsEcho /\ MapGrows /\ WriterEcho)'
<1>1. Stores /\ Headed /\ "msg" \in Bases /\ "loc" \in Bases /\ Working
  BY DEF NetInv, Bases, Working
<1>2. /\ w.base \in Bases
      /\ \A c \in Bases : /\ disk'[c].hdr = disk[c].hdr /\ disk'[c].used = disk[c].used
                          /\ c # w.base => disk'[c].txt = disk[c].txt
      /\ \A s \in Sectors :
           /\ s # w.rec => disk'[w.base].txt[s] = disk[w.base].txt[s]
           /\ disk'[w.base].txt[s].text \in {disk[w.base].txt[s].text, w.text}
  BY <1>1, SectorWritten
<1>3. /\ mem'.top = mem.top /\ mem.used["msg"] \subseteq mem'.used["msg"]
      /\ w'.base = w.base /\ w'.text = w.text
      /\ w'.rec = w.rec \/ (w'.rec = Getfree(w.base) /\ ~Full(w.base))
  <2>1. CASE PutLink
    <3>1. /\ mem' = [mem EXCEPT !.used[w.base] = @ \cup {Getfree(w.base)}]
          /\ w' = [w EXCEPT !.rec = Getfree(w.base), !.part = @ + 1] /\ ~Full(w.base)
      BY <2>1 DEF PutLink
    <3> HIDE DEF Getfree
    <3> QED
      BY <3>1, <1>1, <1>2 DEF Stores
  <2>2. CASE UNCHANGED <<mem, w>>
    BY <2>2
  <2> QED
    BY <2>1, <2>2
<1>4. Count("msg")' = Count("msg")
  BY <1>3 DEF Count
<1>5. LocEcho'
  <2>1. ASSUME NEW s \in Sectors PROVE Homely(disk'["loc"].txt[s].text)
    BY <1>1, <1>2 DEF LocEcho, WriterEcho, Bases
  <2> QED
    BY <2>1 DEF LocEcho
<1>6. NewsEcho'
  <2>1. \A s \in disk["msg"].used : disk'["msg"].txt[s] = disk["msg"].txt[s]
    <3>1. disk["msg"].used \subseteq Sectors
      BY <1>1, HasFacts
    <3> QED
      BY <3>1, <1>1, <1>2 DEF WriterEcho
  <2> QED
    BY <2>1, <1>1, <1>2, <1>4 DEF NewsEcho
<1>7. MapGrows'
  BY <1>1, <1>2, <1>3 DEF MapGrows
<1>8. WriterEcho'
  <2>1. ~Full("msg") => Getfree("msg") \notin mem.used["msg"]
    BY <1>1, GetfreeFacts
  <2> QED
    BY <2>1, <1>1, <1>2, <1>3 DEF WriterEcho, MapGrows
<1> QED
  BY <1>5, <1>6, <1>7, <1>8

-----------------------------------------------------------------------------
(* Echomail: packdis.                                                      *)

\* The headers of msgtxt stay, or some are dropped.
LEMMA EchoKept ==
  ASSUME NetInv, LocEcho, NewsEcho, MapGrows, ~Working', HeadersSame,
         \A b \in Bases : disk'[b].txt = disk[b].txt,
         disk["msg"].used \subseteq disk'["msg"].used,
         pc' # "idle" => disk'["msg"].used \subseteq mem'.used["msg"],
         \/ pc' = "idle" /\ disk'["msg"].top = disk["msg"].top
         \/ pc' # "idle" /\ mem'.top["msg"] = disk["msg"].top
         \/ pc' # "idle" /\ pc # "idle" /\ mem'.top["msg"] = mem.top["msg"]
  PROVE  (LocEcho /\ NewsEcho /\ MapGrows /\ WriterEcho)'
<1>1. "msg" \in Bases /\ Headed /\ Stores
  BY DEF Bases, NetInv
<1>2. disk["msg"].top \in Nat /\ mem.top["msg"] \in Nat /\ Count("msg") \in Nat
      /\ disk["msg"].top <= Count("msg")
  BY <1>1, HasFacts DEF Headed
<1>3. PICK n : n = Count("msg")'
  OBVIOUS
<1>4. n \in Nat /\ n <= Count("msg")
  BY <1>2, <1>3 DEF Count
<1>5. \A i \in 1 .. n : Posted(disk'["msg"].hdr[i]) =>
        /\ i \in 1 .. Count("msg") /\ Posted(disk["msg"].hdr[i])
        /\ disk'["msg"].hdr[i].first = disk["msg"].hdr[i].first
  BY <1>1, <1>2, <1>4 DEF HeadersSame
<1> QED
  BY <1>3, <1>5, EchoFrame

LEMMA EchoIdles ==
  ASSUME NetInv, LocEcho, NewsEcho, MapGrows, ~Working', pc # "idle", pc' # "idle", disk' = disk,
         ReadInfo \/ mem' = mem
  PROVE  (LocEcho /\ NewsEcho /\ MapGrows /\ WriterEcho)'
<1>1. "msg" \in Bases /\ HeadersSame
  BY DEF Bases, HeadersSame
<1>2. \/ mem'.top["msg"] = disk["msg"].top /\ mem'.used["msg"] = disk["msg"].used
      \/ mem' = mem
  BY <1>1 DEF ReadInfo
<1> QED
  BY <1>1, <1>2, EchoKept DEF MapGrows

\* A bitmap or a top is written.
LEMMA EchoCloses ==
  ASSUME NetInv, LocEcho, NewsEcho, MapGrows, ~Working', pc # "idle", pc' # "idle", mem' = mem,
         NEW b \in Bases, disk' = disk \/ WriteFree(b) \/ WriteTop(b)
  PROVE  (LocEcho /\ NewsEcho /\ MapGrows /\ WriterEcho)'
<1>1. disk \in [Bases -> BaseSet] /\ "msg" \in Bases
  BY DEF NetInv, Stores, Bases
<1>2. /\ \A c \in Bases : disk'[c].hdr = disk[c].hdr /\ disk'[c].txt = disk[c].txt
      /\ disk'["msg"].used \in {disk["msg"].used, mem.used["msg"]}
  <2>1. CASE WriteFree(b)
    <3>1. disk' = [disk EXCEPT ![b].used = mem.used[b]]
      BY <2>1 DEF WriteFree
    <3> QED
      BY <3>1, <1>1 DEF BaseSet
  <2>2. CASE WriteTop(b)
    <3>1. disk' = [disk EXCEPT ![b].top = mem.top[b]]
      BY <2>2 DEF WriteTop
    <3> QED
      BY <3>1, <1>1 DEF BaseSet
  <2> QED
    BY <2>1, <2>2, <1>1
<1> QED
  BY <1>1, <1>2, EchoKept DEF MapGrows, HeadersSame

\* A header is written, of no message that was entered.
LEMMA EchoHeaders ==
  ASSUME NetInv, LocEcho, NewsEcho, MapGrows, ~Working', pc # "idle", pc' # "idle",
         NEW b \in Bases, NEW h, PutHeader(b, h), b = "msg" => ~Posted(h)
  PROVE  (LocEcho /\ NewsEcho /\ MapGrows /\ WriterEcho)'
<1>1. "msg" \in Bases /\ Headed /\ Stores /\ disk \in [Bases -> BaseSet]
  BY DEF Bases, NetInv, Stores
<1>2. /\ mem.top[b] \in Nat /\ mem'.top[b] = mem.top[b] + 1
      /\ disk'[b].hdr[mem.top[b] + 1] = h
      /\ \A i \in 1 .. mem.top[b] : disk'[b].hdr[i] = disk[b].hdr[i]
      /\ \A c \in Bases : c # b => disk'[c].hdr = disk[c].hdr /\ mem'.top[c] = mem.top[c]
  BY <1>1, HeaderGrows
<1>3. /\ \A c \in Bases : disk'[c].txt = disk[c].txt /\ disk'[c].used = disk[c].used
      /\ mem'.used = mem.used
  <2>1. PICK g : disk' = [disk EXCEPT ![b].hdr = g]
    BY DEF PutHeader
  <2>2. mem' = [mem EXCEPT !.top[b] = mem.top[b] + 1]
    BY DEF PutHeader
  <2> QED
    BY <2>1, <2>2, <1>1 DEF Stores, BaseSet
<1>4. PICK n : n = Count("msg")'
  OBVIOUS
<1>5. n = mem'.top["msg"] /\ Count("msg") = mem.top["msg"] /\ mem.top["msg"] \in Nat
  BY <1>1, <1>4, HasFacts DEF Count
<1>6. \A i \in 1 .. n : Posted(disk'["msg"].hdr[i]) =>
        /\ i \in 1 .. Count("msg") /\ Posted(disk["msg"].hdr[i])
        /\ disk'["msg"].hdr[i].first = disk["msg"].hdr[i].first
  BY <1>1, <1>2, <1>5
<1> QED
  BY <1>1, <1>3, <1>4, <1>6, EchoFrame DEF MapGrows

LEMMA PackEchoes ==
  ASSUME NetInv, PacketInv, LocEcho, NewsEcho, MapGrows, WriterEcho, PackdisStep
  PROVE  (LocEcho /\ NewsEcho /\ MapGrows /\ WriterEcho)'
<1>1. /\ Stores /\ Headed /\ Rest /\ Places /\ "loc" \in Bases /\ "msg" \in Bases
      /\ job.prog = "packdis" /\ pc # "idle" /\ pc' # "idle"
  BY PackProg DEF NetInv, Bases
<1>2. CASE ProcLine \/ OpenFails \/ OpenPacket \/ EndBatch \/ EndPacket \/ Unlink \/ Status
  <2>1. disk' = disk /\ mem' = mem
    BY <1>2, LineSteps DEF EndBatch, EndPacket, Unlink, Status, baseVars
  <2>2. ~Working'
    BY <1>2, LineSteps DEF EndBatch, EndPacket, Unlink, Status, Working
  <2> QED
    BY <2>1, <2>2, <1>1, EchoIdles
<1>3. CASE NextItem
  <2>1. disk' = disk /\ (ReadInfo \/ mem' = mem) /\ pc' \in {"line", "item", "exit"}
    BY <1>3 DEF NextItem, Back
  <2> QED
    BY <2>1, <1>1, EchoIdles DEF Working
<1>4. CASE WriteMsg \/ WriteLoc
  <2>1. PICK b \in Bases : ClaimFirst(b) /\ (b = "loc" => WantsLoc(Item.of))
    <3>1. CASE WriteMsg
      <4>1. ClaimFirst("msg") \/ (ClaimFirst("loc") /\ ~WantsMsg(Item.of))
        BY <3>1 DEF WriteMsg
      <4> QED
        BY <4>1, <1>1 DEF WantsLoc
    <3>2. CASE WriteLoc
      <4>1. ClaimFirst("loc") /\ pc = "loc"
        BY <3>2 DEF WriteLoc
      <4>2. AtPacket
        BY <4>1, <1>1 DEF AtPacket, AtItem
      <4>3. WantsLoc(Item.of)
        BY <4>1, <4>2 DEF PacketInv, FiledSoFar
      <4> QED
        BY <4>1, <4>3, <1>1
    <3> QED
      BY <1>4, <3>1, <3>2
  <2>2. disk' = disk
    BY <2>1 DEF ClaimFirst
  <2>3. CASE Back(1)
    BY <2>2, <2>3, <1>1, EchoIdles DEF Back, Working
  <2>4. CASE Claim(b, Letter(Item.of)) /\ pc' = "put"
    <3>1. b = "loc" => Homely(Letter(Item.of))
      BY <2>1, EchoTexts
    <3> HIDE DEF Item
    <3> QED
      BY <3>1, <2>2, <2>4, <1>1, EchoClaims
  <2> QED
    BY <2>1, <2>3, <2>4 DEF ClaimFirst
<1>5. CASE PackPut
  <2>1. /\ pc = "put"
        /\ \/ PutLink /\ pc' = "put"
           \/ Flush /\ UNCHANGED <<mem, w>> /\ pc' = "hdr"
           \/ \E rc \in 1 .. 3 : Back(rc) /\ disk' = disk
    BY <1>5 DEF PackPut
  <2>2. ASSUME NEW rc \in 1 .. 3, Back(rc), disk' = disk
        PROVE  (LocEcho /\ NewsEcho /\ MapGrows /\ WriterEcho)'
    BY <2>2, <1>1, EchoIdles DEF Back, Working
  <2> QED
    BY <2>1, <2>2, EchoPuts
<1>6. CASE PackHeader
  <2>1. CASE Back(3) /\ disk' = disk
    BY <2>1, <1>1, EchoIdles DEF Back, Working
  <2>2. ASSUME NEW h, PutHeader(w.base, h), pc' \in {"loc", "item"},
               h.flags = IF w.base = "loc" THEN LocFlags(Item.of) ELSE MsgFlags
        PROVE  (LocEcho /\ NewsEcho /\ MapGrows /\ WriterEcho)'
    <3>1. w.base = "msg" => ~Posted(h)
      BY <2>2 DEF Posted, MsgFlags
    <3>2. w.base \in Bases /\ ~Working'
      BY <1>1, <2>2 DEF Stores, Working
    <3> QED
      BY <3>1, <3>2, <2>2, <1>1, EchoHeaders
  <2> QED
    BY <2>1, <2>2, <1>6 DEF PackHeader
<1>7. CASE Commit
  <2>1. /\ job.base \in Bases /\ mem' = mem /\ ~Working'
        /\ disk' = disk \/ WriteFree(job.base) \/ WriteTop(job.base)
    BY <1>1, <1>7, PackPlace DEF Commit, Working
  <2> QED
    BY <2>1, <1>1, EchoCloses
<1> QED
  BY <1>2, <1>3, <1>4, <1>5, <1>6, <1>7 DEF PackdisStep

-----------------------------------------------------------------------------
(* Echomail: mailass and bbass.                                            *)

\* Only loctxt and its bitmap change, but no text.
LEMMA EchoLoc ==
  ASSUME NetInv, LocEcho, NewsEcho, MapGrows, ~Working', pc # "idle", pc' # "idle",
         disk'["msg"] = disk["msg"], disk'["loc"].txt = disk["loc"].txt,
         mem'.used["msg"] = mem.used["msg"], mem'.top["msg"] = mem.top["msg"]
  PROVE  (LocEcho /\ NewsEcho /\ MapGrows /\ WriterEcho)'
<1>1. \A b \in Bases : disk'[b].txt = disk[b].txt
  BY DEF Bases
<1>2. PICK n : n = Count("msg")'
  OBVIOUS
<1>3. n = Count("msg")
  BY <1>2 DEF Count
<1> QED
  BY <1>1, <1>2, <1>3, EchoFrame DEF MapGrows

LEMMA EchoRecovers ==
  ASSUME NetInv, LocEcho, NewsEcho, MapGrows, ~Working', pc # "idle", pc' # "idle",
         NEW kept, disk' = [disk EXCEPT !["loc"].used = kept] \/ disk' = disk,
         mem' = [mem EXCEPT !.used["loc"] = kept]
  PROVE  (LocEcho /\ NewsEcho /\ MapGrows /\ WriterEcho)'
<1>1. Stores /\ "loc" \in Bases /\ "msg" \in Bases /\ "loc" # "msg"
  BY DEF NetInv, Bases
<1>2. disk'["msg"] = disk["msg"] /\ disk'["loc"].txt = disk["loc"].txt
  BY <1>1 DEF Stores, BaseSet
<1>3. mem'.used["msg"] = mem.used["msg"] /\ mem'.top["msg"] = mem.top["msg"]
  BY <1>1 DEF Stores
<1> QED
  BY <1>2, <1>3, EchoLoc

LEMMA EchoFlags ==
  ASSUME NetInv, LocEcho, NewsEcho, MapGrows, ~Working', pc # "idle", pc' # "idle", mem' = mem,
         NEW b \in Bases, NEW i \in 1 .. Count(b), NEW flag \in {"PROCESSED", "DELETED"}, SetFlag(b, i, flag)
  PROVE  (LocEcho /\ NewsEcho /\ MapGrows /\ WriterEcho)'
<1>1. Stores /\ Headed /\ "loc" \in Bases /\ "msg" \in Bases /\ disk \in [Bases -> BaseSet]
  BY DEF NetInv, Bases, Stores
<1>2. /\ Count(b) \in Nat /\ Count(b) <= Len(disk[b].hdr) /\ disk[b].hdr \in Seq(Headers)
      /\ i \in DOMAIN disk[b].hdr
  BY <1>1, HasFacts DEF Headed
<1>3. disk' = [disk EXCEPT ![b].hdr[i].flags = @ \cup {flag}]
  BY DEF SetFlag
<1>4. \A c \in Bases : disk'[c].txt = disk[c].txt /\ disk'[c].used = disk[c].used
  BY <1>1, <1>3 DEF BaseSet
<1>5. disk'[b].hdr = [disk[b].hdr EXCEPT ![i].flags = @ \cup {flag}]
      /\ \A c \in Bases : c # b => disk'[c].hdr = disk[c].hdr
  BY <1>1, <1>3 DEF BaseSet
<1>6. PICK n : n = Count("msg")'
  OBVIOUS
<1>7. n = Count("msg")
  BY <1>6 DEF Count
<1>8. \A j \in 1 .. n : Posted(disk'["msg"].hdr[j]) =>
        /\ j \in 1 .. Count("msg") /\ Posted(disk["msg"].hdr[j])
        /\ disk'["msg"].hdr[j].first = disk["msg"].hdr[j].first
  <2> SUFFICES ASSUME NEW j \in 1 .. n, Posted(disk'["msg"].hdr[j])
               PROVE  Posted(disk["msg"].hdr[j]) /\ disk'["msg"].hdr[j].first = disk["msg"].hdr[j].first
    BY <1>7
  <2>1. CASE b = "msg" /\ j = i
    <3>1. disk[b].hdr[i] \in Headers
      BY <1>2
    <3>2. disk'[b].hdr[i] = [disk[b].hdr[i] EXCEPT !.flags = @ \cup {flag}]
      BY <1>2, <1>5
    <3>3. disk'[b].hdr[i].flags = disk[b].hdr[i].flags \cup {flag}
          /\ disk'[b].hdr[i].first = disk[b].hdr[i].first
      BY <3>1, <3>2 DEF Headers
    <3> QED
      BY <2>1, <3>3 DEF Posted
  <2>2. CASE b # "msg" \/ j # i
    <3>1. disk'["msg"].hdr[j] = disk["msg"].hdr[j]
      BY <2>2, <1>1, <1>2, <1>5, <1>7
    <3> QED
      BY <3>1
  <2> QED
    BY <2>1, <2>2
<1> QED
  BY <1>1, <1>4, <1>6, <1>8, EchoFrame DEF MapGrows

LEMMA MailEchoes ==
  ASSUME NetInv, LocEcho, NewsEcho, MapGrows, WriterEcho, WorkEcho, MailassStep
  PROVE  (LocEcho /\ NewsEcho /\ MapGrows /\ WriterEcho)'
<1>1. /\ Stores /\ Headed /\ Rest /\ Places /\ "loc" \in Bases /\ "msg" \in Bases
      /\ job.prog = "mailass" /\ pc # "idle"
  BY MailPlace DEF NetInv, Bases, MailassStep, Scan, LocalClaim, BounceClaim, MailPut, LocalPutFails,
     BouncePutFails, MailHeader, MailAppend, MailBody, MailSetproc, DeleteFree, DeleteMark, MailClose
<1>2. CASE Scan \/ MailAppend \/ MailBody \/ BouncePutFails
  <2>1. disk' = disk /\ mem' = mem /\ pc' \in {"free", "act", "body", "proc"}
    BY <1>2 DEF Scan, MailAppend, MailBody, BouncePutFails, baseVars
  <2> QED
    BY <2>1, <1>1, EchoIdles DEF Working
<1>3. CASE LocalClaim \/ BounceClaim
  <2>1. PICK t \in {job.text, Notice} : /\ pc = "act" /\ disk' = disk
                                       /\ \/ pc' = "free" /\ mem' = mem
                                          \/ Claim("loc", t) /\ pc' = "put"
    BY <1>3 DEF LocalClaim, BounceClaim
  <2>2. Homely(t)
    <3>1. Homely(job.text)
      BY <2>1, <1>1 DEF WorkEcho, AtOld
    <3>2. Notice.kind # "letter"
      BY DEF Notice, Bounced
    <3> QED
      BY <3>1, <3>2, EchoTexts
  <2>3. CASE pc' = "free" /\ mem' = mem
    BY <2>1, <2>3, <1>1, EchoIdles DEF Working
  <2>4. CASE Claim("loc", t) /\ pc' = "put"
    <3> HIDE DEF Notice
    <3> QED
      BY <2>1, <2>2, <2>4, <1>1, EchoClaims
  <2> QED
    BY <2>1, <2>3, <2>4
<1>4. CASE MailPut
  BY <1>4, EchoPuts DEF MailPut
<1>5. CASE LocalPutFails
  <2>1. pc = "put" /\ Recover1 /\ pc' = "free"
    BY <1>5 DEF LocalPutFails
  <2>2. w.base = "loc"
    BY <2>1, <1>1, MailPlace
  <2>3. PICK kept : disk' = [disk EXCEPT !["loc"].used = kept] /\ mem' = [mem EXCEPT !.used["loc"] = kept]
    BY <2>1, <2>2, Zenon DEF Recover1
  <2> QED
    BY <2>1, <2>3, <1>1, EchoRecovers DEF Working
<1>6. CASE MailHeader
  <2>1. CASE UNCHANGED <<disk, mem>> /\ pc' = "free"
    BY <2>1, <1>1, EchoIdles DEF Working
  <2>2. ASSUME NEW h, PutHeader("loc", h), pc' = "proc"
        PROVE  (LocEcho /\ NewsEcho /\ MapGrows /\ WriterEcho)'
    BY <2>2, <1>1, EchoHeaders DEF Working
  <2> QED
    BY <2>1, <2>2, <1>6 DEF MailHeader
<1>7. CASE MailSetproc \/ DeleteMark
  <2>1. /\ pc \in {"proc", "mark"} /\ mem' = mem /\ pc' \in {"del", "free", "scan"}
        /\ \/ disk' = disk
           \/ \E flag \in {"PROCESSED", "DELETED"} : SetFlag("loc", job.this, flag)
    BY <1>7 DEF MailSetproc, DeleteMark
  <2>2. job.this \in 1 .. Count("loc")
    BY <2>1, <1>1, MailPlace DEF AtOld, Count
  <2> QED
    BY <2>1, <2>2, <1>1, EchoFlags, EchoIdles DEF Working
<1>8. CASE DeleteFree
  <2>1. pc' \in {"mark", "free"}
    BY <1>8 DEF DeleteFree
  <2>2. PICK kept : /\ mem' = [mem EXCEPT !.used["loc"] = kept]
                    /\ disk' = [disk EXCEPT !["loc"].used = kept] \/ disk' = disk
    BY <1>8, Zenon DEF DeleteFree
  <2> QED
    BY <2>1, <2>2, <1>1, EchoRecovers DEF Working
<1>9. CASE MailClose
  <2>1. mem' = mem /\ pc' \in {"top", "exit"} /\ (disk' = disk \/ WriteFree("loc") \/ WriteTop("loc"))
    BY <1>9 DEF MailClose
  <2> QED
    BY <2>1, <1>1, EchoCloses DEF Working
<1> QED
  BY <1>2, <1>3, <1>4, <1>5, <1>6, <1>7, <1>8, <1>9 DEF MailassStep

LEMMA BbEchoes ==
  ASSUME NetInv, LocEcho, NewsEcho, MapGrows, WriterEcho, WorkEcho, BbassStep
  PROVE  (LocEcho /\ NewsEcho /\ MapGrows /\ WriterEcho)'
<1>1. /\ Stores /\ Headed /\ Rest /\ Places /\ "loc" \in Bases /\ "msg" \in Bases
      /\ job.prog = "bbass" /\ pc # "idle"
  BY DEF NetInv, Bases, BbassStep, BbScan, BbAppend, BbBody, BbSetproc, BbLocal, BbPut, BbHeader, BbClose
<1>2. CASE BbScan \/ BbAppend \/ BbBody
  <2>1. disk' = disk /\ mem' = mem /\ pc' \in {"free", "act", "body", "proc"}
    BY <1>2 DEF BbScan, BbAppend, BbBody, baseVars
  <2> QED
    BY <2>1, <1>1, EchoIdles DEF Working
<1>3. CASE BbLocal
  <2>1. /\ pc = "local" /\ disk' = disk
        /\ \/ pc' = "free" /\ mem' = mem
           \/ Claim("loc", job.text) /\ pc' = "put"
    BY <1>3 DEF BbLocal
  <2>2. Homely(job.text)
    BY <2>1, <1>1, EchoTexts DEF WorkEcho, AtOld
  <2> QED
    BY <2>1, <2>2, <1>1, EchoClaims, EchoIdles DEF Working
<1>4. CASE BbPut
  <2>1. CASE (PutLink /\ pc' = "put") \/ (Flush /\ pc' = "hdr" /\ UNCHANGED <<mem, w>>)
    <3>1. pc = "put" /\ (PutLink => pc' \in {"put", "hdr"})
      BY <2>1, <1>4 DEF BbPut
    <3> QED
      BY <2>1, <3>1, EchoPuts
  <2>2. CASE Recover1 /\ pc' = "free"
    <3>1. w.base = "loc"
      BY <1>1, <1>4, BbPlace DEF BbPut
    <3>2. PICK kept : disk' = [disk EXCEPT !["loc"].used = kept] /\ mem' = [mem EXCEPT !.used["loc"] = kept]
      BY <2>2, <3>1, Zenon DEF Recover1
    <3> QED
      BY <2>2, <3>2, <1>1, EchoRecovers DEF Working
  <2> QED
    BY <1>4, <2>1, <2>2 DEF BbPut
<1>5. CASE BbHeader
  <2>1. CASE UNCHANGED <<disk, mem>> /\ pc' = "free"
    BY <2>1, <1>1, EchoIdles DEF Working
  <2>2. ASSUME NEW h, PutHeader("loc", h), pc' = "scan"
        PROVE  (LocEcho /\ NewsEcho /\ MapGrows /\ WriterEcho)'
    BY <2>2, <1>1, EchoHeaders DEF Working
  <2> QED
    BY <2>1, <2>2, <1>5 DEF BbHeader
<1>6. CASE BbSetproc
  <2>1. /\ pc = "proc" /\ mem' = mem /\ pc' \in {"local", "free", "scan"}
        /\ disk' = disk \/ SetFlag("msg", job.this, "PROCESSED")
    BY <1>6 DEF BbSetproc
  <2>2. job.this \in 1 .. Count("msg")
    BY <2>1, <1>1, BbPlace DEF AtOld, Count
  <2> QED
    BY <2>1, <2>2, <1>1, EchoFlags, EchoIdles DEF Working
<1>7. CASE BbClose
  <2>1. /\ pc \in {"free", "top", "free2", "top2"} /\ mem' = mem /\ pc' \in {"top", "free2", "top2", "exit"}
        /\ \E b \in {"loc", "msg"} : disk' = disk \/ WriteFree(b) \/ WriteTop(b)
    BY <1>7 DEF BbClose
  <2> QED
    BY <2>1, <1>1, EchoCloses DEF Working
<1> QED
  BY <1>2, <1>3, <1>4, <1>5, <1>6, <1>7 DEF BbassStep

-----------------------------------------------------------------------------
(* What mailass and bbass find to do, and what they know of it.            *)

LEMMA MailFinds ==
  ASSUME NetInv, Scan
  PROVE  \/ pc' = "free" /\ job' = job
         \/ /\ pc' = "act" /\ job'.prog = "mailass"
            /\ \E m \in 1 .. Count("loc") :
                 /\ job'.this = m /\ job'.text = disk["loc"].txt[disk["loc"].hdr[m].first].text
                 /\ ~Ignorel(disk["loc"].hdr[m]) /\ disk["loc"].hdr[m].first \in Sectors
<1>1. /\ Stores /\ Headed /\ Places /\ "loc" \in Bases /\ pc = "scan" /\ job.prog = "mailass"
  BY DEF Scan, NetInv, Bases
<1>2. job \in ScanJobs /\ job.this \in Nat \ {0}
  BY <1>1, MailPlace
<1> DEFINE todo == {i \in job.this .. mem.top["loc"] : ~Ignorel(disk["loc"].hdr[i])}
<1>3. CASE todo = {}
  BY <1>3 DEF Scan
<1>4. CASE todo # {}
  <2>1. PICK m : m = Min(todo)
    OBVIOUS
  <2>2. /\ pc' = "act"
        /\ job' = [job EXCEPT !.this = m, !.text = disk["loc"].txt[disk["loc"].hdr[m].first].text]
    BY <1>4, <2>1 DEF Scan
  <2>3. mem.top["loc"] \in Nat /\ Count("loc") = mem.top["loc"] /\ Count("loc") <= Len(disk["loc"].hdr)
        /\ disk["loc"].hdr \in Seq(Headers)
    BY <1>1, HasFacts DEF Count, Headed
  <2>4. m \in todo
    <3>1. todo \subseteq Nat
      BY <1>2, <2>3
    <3> QED
      BY <1>4, <2>1, <3>1, MinFacts
  <2>5. m \in 1 .. Count("loc") /\ ~Ignorel(disk["loc"].hdr[m])
    BY <1>2, <2>3, <2>4
  <2>6. disk["loc"].hdr[m].first \in Sectors
    <3>1. m \in DOMAIN disk["loc"].hdr
      BY <2>3, <2>5
    <3> QED
      BY <3>1, <1>1, HasFacts
  <2>7. job'.this = m /\ job'.text = disk["loc"].txt[disk["loc"].hdr[m].first].text /\ job'.prog = "mailass"
    BY <1>1, <1>2, <2>2 DEF ScanJobs
  <2> QED
    BY <2>2, <2>5, <2>6, <2>7
<1> QED
  BY <1>3, <1>4

LEMMA NewsFinds ==
  ASSUME NetInv, BbScan
  PROVE  \/ pc' = "free"
         \/ /\ pc' = "act" /\ job'.prog = "bbass"
            /\ \E m \in 1 .. Count("msg") :
                 /\ job'.this = m /\ job'.text = disk["msg"].txt[disk["msg"].hdr[m].first].text
                 /\ ~Ignorem(disk["msg"].hdr[m])
<1>1. /\ Stores /\ Headed /\ Places /\ "msg" \in Bases /\ pc = "scan" /\ job.prog = "bbass"
  BY DEF BbScan, NetInv, Bases
<1>2. job \in ScanJobs /\ job.this \in Nat \ {0}
  BY <1>1, BbPlace
<1> DEFINE todo == {i \in job.this .. mem.top["msg"] : ~Ignorem(disk["msg"].hdr[i])}
<1>3. CASE todo = {}
  BY <1>3 DEF BbScan
<1>4. CASE todo # {}
  <2>1. PICK m : m = Min(todo)
    OBVIOUS
  <2>2. /\ pc' = "act"
        /\ job' = [job EXCEPT !.this = m, !.text = disk["msg"].txt[disk["msg"].hdr[m].first].text]
    BY <1>4, <2>1 DEF BbScan
  <2>3. mem.top["msg"] \in Nat /\ Count("msg") = mem.top["msg"]
    BY <1>1, HasFacts DEF Count
  <2>4. m \in todo
    <3>1. todo \subseteq Nat
      BY <1>2, <2>3
    <3> QED
      BY <1>4, <2>1, <3>1, MinFacts
  <2>5. m \in 1 .. Count("msg") /\ ~Ignorem(disk["msg"].hdr[m])
    BY <1>2, <2>3, <2>4
  <2>7. job'.this = m /\ job'.text = disk["msg"].txt[disk["msg"].hdr[m].first].text /\ job'.prog = "bbass"
    BY <1>1, <1>2, <2>2 DEF ScanJobs
  <2> QED
    BY <2>2, <2>5, <2>7
<1> QED
  BY <1>3, <1>4

\* Echomail that mailass finds is for a user, and bbass finds none.
LEMMA WorkEchoes ==
  ASSUME NetInv, LocEcho, NewsEcho, WorkEcho, MailassStep \/ BbassStep
  PROVE  WorkEcho'
<1>1. job'.prog = job.prog
  BY ProgStays
<1>2. CASE Scan
  <2>1. CASE pc' = "act"
    <3>1. Homely(job'.text) /\ job'.prog = "mailass"
      BY <1>2, <2>1, MailFinds DEF LocEcho
    <3> QED
      BY <2>1, <3>1 DEF WorkEcho
  <2> QED
    BY <1>2, <2>1, MailFinds DEF WorkEcho, AtOld
<1>3. CASE BbScan
  <2>1. CASE pc' = "act"
    <3>1. ~Echoed(job'.text) /\ job'.prog = "bbass"
      BY <1>3, <2>1, NewsFinds DEF NewsEcho, Ignorem, Posted
    <3> QED
      BY <2>1, <3>1 DEF WorkEcho
  <2> QED
    BY <1>3, <2>1, NewsFinds DEF WorkEcho, AtOld
<1>4. CASE MailAppend
  <2>1. pc = "act" /\ job' = job /\ pc' \in {"body", "free"} /\ job.prog = "mailass" /\ ForLink
    BY <1>4 DEF MailAppend
  <2>2. To(job.text) \in Links
    BY <2>1 DEF ForLink, ToType, Links
  <2> QED
    BY <2>1, <2>2 DEF WorkEcho, AtOld
<1>5. CASE MailassStep /\ ~Scan /\ ~MailAppend
  <2>1. /\ pc' \in AtOld => pc \in AtOld /\ job' = job
        /\ pc' # "body" /\ job.prog \in {"mailass", "bbass"}
    BY <1>5, ProgStays DEF MailassStep, LocalClaim, BounceClaim, MailPut, LocalPutFails, BouncePutFails,
       MailHeader, MailBody, MailSetproc, DeleteFree, DeleteMark, MailClose, AtOld
  <2> QED
    BY <2>1, <1>1 DEF WorkEcho
<1>6. CASE BbassStep /\ ~BbScan
  <2>1. /\ pc' \in AtOld => pc \in AtOld /\ job' = job
        /\ job.prog = "bbass"
    BY <1>6 DEF BbassStep, BbAppend, BbBody, BbSetproc, BbLocal, BbPut, BbHeader, BbClose, AtOld
  <2> QED
    BY <2>1, <1>1 DEF WorkEcho
<1> QED
  BY <1>2, <1>3, <1>4, <1>5, <1>6 DEF MailassStep, BbassStep

-----------------------------------------------------------------------------
(* Bundles, whatever fails.                                                *)

LEMMA BundleMoves ==
  ASSUME NetInv, [Next]_vars
  PROVE  \/ UNCHANGED <<bundle, sent>>
         \/ sent' = sent /\ pc = "act" /\ \E x \in Links : Append_(x)
         \/ /\ sent' = sent /\ pc = "body" /\ pc' = "proc" /\ UNCHANGED <<disk, mem, job>>
            /\ Complete(Aim, job.text) /\ job.text \in Texts
         \/ \E x \in Links : Collect(x)
<1>1. CASE Start \/ (Exit /\ UNCHANGED envVars) \/ Crash \/ UNCHANGED vars
           \/ \E e \in toEnter : Enter(e)
  BY <1>1 DEF Start, StartPackdis, StartMailass, StartBbass, Exit, Crash, Enter, envVars, vars, baseVars
<1>2. CASE PackdisStep /\ UNCHANGED envVars
  BY <1>2, LineSteps DEF PackdisStep, EndBatch, NextItem, WriteMsg, WriteLoc, ClaimFirst, PackPut,
     PackHeader, EndPacket, Commit, Unlink, Status, baseVars, envVars
<1>3. CASE MailassStep /\ UNCHANGED envVars
  <2>1. CASE MailAppend
    <3>1. To(job.text) \in Links /\ pc = "act"
      BY <2>1 DEF MailAppend, ForLink, ToType, Links
    <3> QED
      BY <2>1, <3>1, <1>3 DEF MailAppend, envVars
  <2>2. CASE MailBody
    <3>1. Aim = To(job.text) /\ pc = "body" /\ job.prog = "mailass"
      BY <2>2 DEF MailBody, Aim
    <3>2. job.text \in Texts
      BY <3>1, MailPlace DEF NetInv, AtOld
    <3> QED
      BY <2>2, <3>1, <3>2, <1>3 DEF MailBody, envVars
  <2>3. CASE ~MailBody /\ ~MailAppend
    BY <2>3, <1>3 DEF MailassStep, Scan, LocalClaim, BounceClaim, MailPut, LocalPutFails, BouncePutFails,
       MailHeader, MailSetproc, DeleteFree, DeleteMark, MailClose, baseVars, envVars
  <2> QED
    BY <2>1, <2>2, <2>3
<1>4. CASE BbassStep /\ UNCHANGED envVars
  <2>1. CASE BbAppend
    BY <2>1, <1>4 DEF BbAppend, envVars
  <2>2. CASE BbBody
    <3>1. Aim = Area /\ pc = "body" /\ job.prog = "bbass"
      BY <2>2 DEF BbBody, Aim, Area
    <3>2. job.text \in Texts
      BY <3>1, BbPlace DEF NetInv, AtOld
    <3> QED
      BY <2>2, <3>1, <3>2, <1>4 DEF BbBody, envVars
  <2>3. CASE ~BbBody /\ ~BbAppend
    BY <2>3, <1>4 DEF BbassStep, BbScan, BbSetproc, BbLocal, BbPut, BbHeader, BbClose, baseVars, envVars
  <2> QED
    BY <2>1, <2>2, <2>3
<1>5. CASE \E x \in Links : Collect(x)
  BY <1>5
<1> QED
  BY <1>1, <1>2, <1>3, <1>4, <1>5 DEF Next, Step

BundleSet == [Links -> Seq(Texts \cup {Broken})]

\* Only a message whose text was just written goes to a link.
LEMMA WentStep ==
  ASSUME NetInv, bundle \in BundleSet, [Next]_vars
  PROVE  /\ bundle' \in BundleSet
         /\ \A x \in Links : \A t \in Texts :
              Went(x, t)' => \/ Went(x, t)
                             \/ pc = "body" /\ pc' = "proc" /\ x = Aim /\ t = job.text
<1>0. Broken \notin Texts /\ \A x : Arriving(x) = Reads(bundle[x])
  BY LinkTexts
<1>1. CASE UNCHANGED <<bundle, sent>>
  BY <1>1 DEF Went
<1>2. ASSUME sent' = sent, NEW a \in Links, Append_(a)
      PROVE  /\ bundle' \in BundleSet
             /\ \A x \in Links : \A t \in Texts : Went(x, t)' => Went(x, t)
  <2>1. PICK s \in Seq(Texts \cup {Broken}) : s = bundle[a]
    BY <1>2 DEF BundleSet
  <2>2. PICK u : u = Append(s, Broken)
    OBVIOUS
  <2>3. bundle' = [bundle EXCEPT ![a] = u]
    BY <1>2, <2>1, <2>2 DEF Append_
  <2>4. u \in Seq(Texts \cup {Broken}) /\ \A i \in DOMAIN u : u[i] = Broken \/ (i \in DOMAIN s /\ u[i] = s[i])
    BY <2>2, AppendFacts
  <2>5. bundle' \in BundleSet /\ bundle'[a] = u /\ \A x \in Links : x # a => bundle'[x] = bundle[x]
    BY <2>3, <2>4 DEF BundleSet
  <2> QED
    BY <2>1, <2>4, <2>5, <1>0, <1>2 DEF Went
<1>3. ASSUME sent' = sent, pc = "body", pc' = "proc", Complete(Aim, job.text), job.text \in Texts
      PROVE  /\ bundle' \in BundleSet
             /\ \A x \in Links : \A t \in Texts :
                  Went(x, t)' => Went(x, t) \/ (x = Aim /\ t = job.text)
  <2>1. PICK a, v : a = Aim /\ v = job.text
    OBVIOUS
  <2>2. bundle' = [bundle EXCEPT ![a] = [@ EXCEPT ![Len(@)] = v]] /\ v \in Texts
    BY <1>3, <2>1 DEF Complete
  <2>3. ASSUME NEW x \in Links
        PROVE  /\ bundle'[x] \in Seq(Texts \cup {Broken}) /\ DOMAIN bundle'[x] = DOMAIN bundle[x]
               /\ \A i \in DOMAIN bundle[x] : bundle'[x][i] = bundle[x][i] \/ (x = a /\ bundle'[x][i] = v)
    <3>1. PICK s \in Seq(Texts \cup {Broken}) : s = bundle[x]
      BY DEF BundleSet
    <3>2. bundle'[x] = s \/ (x = a /\ bundle'[x] = [s EXCEPT ![Len(s)] = v])
      BY <2>2, <3>1 DEF BundleSet
    <3> QED
      BY <2>2, <3>1, <3>2
  <2>4. bundle' \in BundleSet
    BY <2>2, <2>3 DEF BundleSet
  <2> QED
    BY <2>1, <2>3, <2>4, <1>3 DEF Went
<1>4. ASSUME NEW a \in Links, Collect(a)
      PROVE  /\ bundle' \in BundleSet
             /\ \A x \in Links : \A t \in Texts : Went(x, t)' => Went(x, t)
  <2>1. bundle' = [bundle EXCEPT ![a] = <<>>] /\ sent' = sent \cup ({a} \X Reads(bundle[a]))
    BY <1>4, <1>0 DEF Collect
  <2>2. bundle' \in BundleSet /\ bundle'[a] = <<>> /\ \A x \in Links : x # a => bundle'[x] = bundle[x]
    BY <2>1 DEF BundleSet
  <2>3. \A t \in Reads(bundle[a]) : \E i \in DOMAIN bundle[a] : bundle[a][i] = t
    BY DEF Reads
  <2>4. \A x, t : <<x, t>> \in sent' => <<x, t>> \in sent \/ (x = a /\ t \in Reads(bundle[a]))
    BY <2>1
  <2>5. DOMAIN bundle'[a] = {}
    BY <2>2
  <2> QED
    BY <2>2, <2>3, <2>4, <2>5 DEF Went
<1> QED
  BY <1>1, <1>2, <1>3, <1>4, BundleMoves

LEMMA LinkEchoes ==
  ASSUME NetInv, LinkEcho, WorkEcho, [Next]_vars
  PROVE  LinkEcho'
<1>1. bundle \in BundleSet
  BY DEF LinkEcho, BundleSet
<1>2. pc = "body" /\ Aim \in Links => ~Echoed(job.text)
  <2>1. ASSUME pc = "body" PROVE (job.prog = "mailass" /\ To(job.text) \in Links) \/ job.prog = "bbass"
    BY <2>1 DEF WorkEcho, NetInv, Places, PackPcs, ScanJobs
  <2> QED
    BY <2>1, EchoTexts DEF WorkEcho, AtOld
<1>3. bundle' \in BundleSet
  BY <1>1, WentStep
<1>4. ASSUME NEW x \in Links, NEW t \in Texts, Went(x, t)' PROVE ~Echoed(t)
  BY <1>1, <1>2, <1>4, WentStep DEF LinkEcho
<1> QED
  BY <1>3, <1>4 DEF LinkEcho, BundleSet

-----------------------------------------------------------------------------
(* Echomail: the other steps, and the theorem.                             *)

LEMMA EnterEchoes ==
  ASSUME NetInv, LocEcho, NewsEcho, EnterEcho, NEW e \in toEnter, Enter(e)
  PROVE  (LocEcho /\ NewsEcho /\ MapGrows /\ WriterEcho)'
<1>1. /\ Stores /\ Headed /\ Rest /\ "loc" \in Bases /\ "msg" \in Bases
      /\ toEnter \subseteq [base : Bases, letter : Letters]
      /\ pc = "idle" /\ pc' = "idle"
  BY DEF NetInv, Bases, Rest, Enter
<1>2. PICK b, n, text : b = e.base /\ n = disk[e.base].top + 1 /\ text = Letter(e.letter)
  OBVIOUS
<1>10. b \in Bases
  BY <1>1, <1>2
<1>3. ~Echoed(text) /\ Homely(text)
  BY <1>2, EchoTexts DEF EnterEcho
<1>4. /\ disk[b].used \subseteq disk'[b].used
      /\ \A s \in disk[b].used : disk'[b].txt[s] = disk[b].txt[s]
      /\ \A s \in Sectors : disk'[b].txt[s].text \in {disk[b].txt[s].text, text}
      /\ disk'[b].hdr[n].first \in disk'[b].used
      /\ disk'[b].txt[disk'[b].hdr[n].first].text = text
  BY <1>1, <1>2, <1>10, EnterWrites
<1>5. /\ disk[b].top \in Nat /\ disk'[b].top = n /\ n = disk[b].top + 1
      /\ \A c \in Bases : \A j \in 1 .. disk[c].top : disk'[c].hdr[j] = disk[c].hdr[j]
      /\ \A c \in Bases : c # b => disk'[c] = disk[c]
  BY <1>1, <1>2, <1>10, EnterGrows
<1>6. LocEcho'
  BY <1>1, <1>3, <1>4, <1>5, <1>10 DEF LocEcho
<1>7. NewsEcho'
  <2>1. Count("msg")' = disk'["msg"].top /\ Count("msg") = disk["msg"].top
    BY <1>1 DEF Count
  <2>2. CASE b # "msg"
    <3>1. disk'["msg"] = disk["msg"]
      BY <2>2, <1>1, <1>5
    <3> QED
      BY <2>1, <3>1 DEF NewsEcho
  <2>3. CASE b = "msg"
    <3> SUFFICES ASSUME NEW i \in 1 .. n, Posted(disk'[b].hdr[i])
                 PROVE  /\ disk'[b].hdr[i].first \in disk'[b].used
                        /\ ~Echoed(disk'[b].txt[disk'[b].hdr[i].first].text)
      BY <2>1, <2>3, <1>5 DEF NewsEcho
    <3>1. CASE i = n
      BY <3>1, <1>3, <1>4
    <3>2. CASE i # n
      <4>1. i \in 1 .. disk[b].top /\ disk'[b].hdr[i] = disk[b].hdr[i]
        BY <3>2, <1>5, <1>10
      <4>2. disk[b].hdr[i].first \in disk[b].used /\ ~Echoed(disk[b].txt[disk[b].hdr[i].first].text)
        BY <4>1, <2>1, <2>3 DEF NewsEcho
      <4> QED
        BY <4>1, <4>2, <1>4
    <3> QED
      BY <3>1, <3>2
  <2> QED
    BY <2>2, <2>3
<1> QED
  BY <1>1, <1>6, <1>7 DEF MapGrows, WriterEcho, Working

LEMMA EchoKeeps == NetInv /\ PacketInv /\ EchoInv /\ [Next]_vars => EchoInv'
<1> SUFFICES ASSUME NetInv, PacketInv, EchoInv, [Next]_vars
             PROVE  EchoInv'
  OBVIOUS
<1>1. LocEcho /\ NewsEcho /\ MapGrows /\ WriterEcho /\ WorkEcho /\ LinkEcho /\ EnterEcho
  BY DEF EchoInv
<1>2. LinkEcho'
  BY <1>1, LinkEchoes
<1>3. Places /\ Stores
  BY DEF NetInv
<1>4. CASE PackdisStep /\ UNCHANGED envVars
  <2>1. (LocEcho /\ NewsEcho /\ MapGrows /\ WriterEcho)'
    BY <1>1, <1>4, PackEchoes
  <2>2. WorkEcho' /\ EnterEcho'
    BY <1>1, <1>4, PackProg DEF WorkEcho, EnterEcho, envVars
  <2> QED
    BY <2>1, <2>2, <1>2 DEF EchoInv
<1>5. CASE (MailassStep \/ BbassStep) /\ UNCHANGED <<packFiles, envVars>>
  <2>1. (LocEcho /\ NewsEcho /\ MapGrows /\ WriterEcho)'
    BY <1>1, <1>5, MailEchoes, BbEchoes
  <2>2. WorkEcho' /\ EnterEcho'
    BY <1>1, <1>5, WorkEchoes DEF EnterEcho, envVars
  <2> QED
    BY <2>1, <2>2, <1>2 DEF EchoInv
<1>6. CASE Start \/ (Exit /\ UNCHANGED envVars) \/ Crash
  <2>1. /\ disk' = disk /\ toEnter' = toEnter /\ pc' \in {"idle", "line", "scan"}
        /\ pc' = "idle" \/ ReadInfo
    BY <1>6 DEF Start, StartPackdis, StartMailass, StartBbass, Exit, Crash, Gone, envVars
  <2>2. "msg" \in Bases /\ HeadersSame
    BY <2>1 DEF Bases, HeadersSame
  <2>3. pc' = "idle" \/ (mem'.top["msg"] = disk["msg"].top /\ mem'.used["msg"] = disk["msg"].used)
    BY <2>1, <2>2 DEF ReadInfo
  <2>4. (LocEcho /\ NewsEcho /\ MapGrows /\ WriterEcho)'
    BY <2>1, <2>2, <2>3, <1>1, EchoKept DEF Working
  <2>5. WorkEcho' /\ EnterEcho'
    BY <1>1, <2>1 DEF WorkEcho, EnterEcho, AtOld
  <2> QED
    BY <2>4, <2>5, <1>2 DEF EchoInv
<1>7. CASE \E e \in toEnter : Enter(e)
  <2>1. PICK e \in toEnter : Enter(e)
    BY <1>7
  <2>2. pc' = "idle" /\ toEnter' = toEnter \ {e}
    BY <2>1 DEF Enter
  <2>3. (LocEcho /\ NewsEcho /\ MapGrows /\ WriterEcho)'
    BY <1>1, <2>1, EnterEchoes
  <2>4. WorkEcho' /\ EnterEcho'
    BY <1>1, <2>2 DEF WorkEcho, EnterEcho, AtOld
  <2> QED
    BY <2>3, <2>4, <1>2 DEF EchoInv
<1>8. CASE \E x \in Links : Collect(x)
  <2>1. disk' = disk /\ pc' = pc /\ mem' = mem /\ w' = w /\ job' = job /\ toEnter' = toEnter
    BY <1>8 DEF Collect
  <2> QED
    BY <2>1, <1>1, <1>2 DEF EchoInv, LocEcho, NewsEcho, MapGrows, WriterEcho, WorkEcho, EnterEcho, Count, Working
<1>9. CASE UNCHANGED vars
  <2>1. disk' = disk /\ pc' = pc /\ mem' = mem /\ w' = w /\ job' = job /\ toEnter' = toEnter
    BY <1>9 DEF vars, baseVars, envVars
  <2> QED
    BY <2>1, <1>1, <1>2 DEF EchoInv, LocEcho, NewsEcho, MapGrows, WriterEcho, WorkEcho, EnterEcho, Count, Working
<1> QED
  BY <1>4, <1>5, <1>6, <1>7, <1>8, <1>9 DEF Next, Step

LEMMA EchoAtFirst == Init => EchoInv
<1> SUFFICES ASSUME Init PROVE EchoInv
  OBVIOUS
<1>1. /\ pc = "idle" /\ sent = {} /\ bundle = [x \in Links |-> <<>>]
      /\ disk = [b \in Bases |-> EmptyBase] /\ "loc" \in Bases /\ "msg" \in Bases
  BY DEF Init, BaseInit, Bases
<1>2. LocEcho
  <2>1. \A s \in Sectors : disk["loc"].txt[s].text = NoText
    BY <1>1 DEF EmptyBase, Blank
  <2> QED
    BY <2>1, EchoTexts DEF LocEcho
<1>3. NewsEcho
  <2>1. Count("msg") = 0
    BY <1>1 DEF Count, EmptyBase
  <2> QED
    BY <2>1 DEF NewsEcho
<1>4. LinkEcho
  <2>1. bundle \in [Links -> Seq(Texts \cup {Broken})]
    BY <1>1
  <2>2. \A x \in Links : DOMAIN bundle[x] = {}
    BY <1>1
  <2> QED
    BY <2>1, <2>2, <1>1 DEF LinkEcho, Went
<1>5. EnterEcho
  <2>1. \E s \in Scenes : toEnter = s.enter
    BY DEF Init
  <2> QED
    BY <2>1, OriginAssumption DEF EnterEcho
<1> QED
  BY <1>1, <1>2, <1>3, <1>4, <1>5 DEF EchoInv, MapGrows, WriterEcho, WorkEcho, Working, AtOld

LEMMA EchoSound == EchoInv => NoEcho
<1> SUFFICES ASSUME EchoInv, NEW p \in DOMAIN Content, NEW k \in DOMAIN Content[p],
                    IsLetter(Content[p][k]), WantsMsg(Content[p][k].of),
                    NEW x \in Links, OnItsWay(x, Letter(Content[p][k].of))
             PROVE  FALSE
  BY DEF NoEcho
<1>1. PICK i : i = Content[p][k]
  OBVIOUS
<1>2. i.of \in Letters
  <2>1. PICK S : S = [what : {"letter"}, of : Letters] \cup [what : {"empty", "bad"}]
    OBVIOUS
  <2>2. PICK s \in Seq(S) : s = Content[p]
    BY <2>1, PackdisAssumption
  <2>3. i \in S /\ i.what = "letter"
    BY <1>1, <2>2 DEF IsLetter
  <2> QED
    BY <2>1, <2>3
<1>3. Letter(i.of) \in Texts
  BY <1>2 DEF Letter, Texts
<1>4. Went(x, Letter(i.of))
  BY <1>1, LinkTexts DEF OnItsWay, Went, Reads
<1>5. Carried(i.of)
  BY <1>1 DEF Carried, LettersAt
<1> QED
  BY <1>1, <1>3, <1>4, <1>5, EchoTexts DEF EchoInv, LinkEcho

-----------------------------------------------------------------------------
(* Nothing twice: what a step may do to the headers and to the links.      *)

Incoming(h) == "INCOMING" \in h.flags

\* No header is written: a message may get a flag, or be dropped.
HeadKept(b, i) ==
  LET g == disk[b].hdr[i]  h == disk'[b].hdr[i] IN
    h.text = g.text /\ (Incoming(h) <=> Incoming(g)) /\ (Waits(b, h) => Waits(b, g))
HeadsKept ==
  \A b \in Bases : Count(b)' \in Nat /\ Count(b)' <= Count(b) /\ \A i \in 1 .. Count(b)' : HeadKept(b, i)

\* One header is written, behind the others.
HeadAdded(b, h) ==
  /\ Count(b)' = Count(b) + 1 /\ disk'[b].hdr[Count(b) + 1] = h
  /\ \A c \in Bases : \A i \in 1 .. Count(c) : disk'[c].hdr[i] = disk[c].hdr[i]
  /\ \A c \in Bases : c # b => Count(c)' = Count(c)

WentKept == \A x \in Links : \A t \in Texts : Went(x, t)' => Went(x, t)

LEMMA Counts ==
  ASSUME NetInv, NEW b \in Bases
  PROVE  /\ Count(b) \in Nat /\ disk[b].top \in Nat /\ disk[b].top <= Count(b)
         /\ mem.top[b] \in Nat /\ Count(b) <= Len(disk[b].hdr) /\ disk[b].hdr \in Seq(Headers)
         /\ \A i \in 1 .. Count(b) : i \in DOMAIN disk[b].hdr /\ disk[b].hdr[i] \in Headers
<1>1. Stores /\ Headed
  BY DEF NetInv
<1>2. /\ Count(b) \in Nat /\ disk[b].top \in Nat /\ disk[b].top <= Count(b)
      /\ mem.top[b] \in Nat /\ Count(b) <= Len(disk[b].hdr) /\ disk[b].hdr \in Seq(Headers)
  BY <1>1, HasFacts DEF Headed
<1>3. ASSUME NEW k \in Nat, NEW q \in Seq(Headers), k <= Len(q), NEW i \in 1 .. k
      PROVE  i \in DOMAIN q /\ q[i] \in Headers
  <2> HIDE DEF Headers
  <2>1. i \in DOMAIN q
    BY <1>3
  <2> QED
    BY <2>1
<1>4. PICK m \in Nat, s \in Seq(Headers) : m = Count(b) /\ s = disk[b].hdr /\ m <= Len(s)
  BY <1>2
<1>5. \A i \in 1 .. m : i \in DOMAIN s /\ s[i] \in Headers
  BY <1>3, <1>4
<1> QED
  BY <1>2, <1>4, <1>5

LEMMA KeptHeads ==
  ASSUME NetInv, HeadsKept, HeadsOnce
  PROVE  HeadsOnce'
<1> SUFFICES ASSUME NEW b \in Bases, NEW n, n = Count(b)', NEW i \in 1 .. n, NEW j \in 1 .. n,
                    disk'[b].hdr[i].text = disk'[b].hdr[j].text,
                    Incoming(disk'[b].hdr[i]) <=> Incoming(disk'[b].hdr[j])
             PROVE  i = j
  BY DEF HeadsOnce, Incoming
<1>1. n \in Nat /\ n <= Count(b) /\ HeadKept(b, i) /\ HeadKept(b, j)
  BY DEF HeadsKept
<1>2. PICK m \in Nat : m = Count(b)
  BY Counts
<1>3. i \in 1 .. m /\ j \in 1 .. m
  BY <1>1, <1>2
<1> QED
  BY <1>1, <1>2, <1>3 DEF HeadKept, HeadsOnce, Incoming

LEMMA KeptPlaces ==
  ASSUME NetInv, HeadsKept
  PROVE  /\ MsgLetters => MsgLetters'
         /\ \A l : NoneWaits(l) => NoneWaits(l)'
         /\ \A b \in Bases : \A l : FreshIn(b, Count(b), l) => FreshIn(b, Count(b), l)'
         /\ \A b \in Bases : \A i : i \in 1 .. Count(b) /\ i <= Count(b)' /\ Alone(b, i) => Alone(b, i)'
<1>1. ASSUME NEW b \in Bases, NEW n, n = Count(b)'
      PROVE  /\ Count(b) \in Nat /\ n \in Nat /\ n <= Count(b)
             /\ \A i \in 1 .. n : i \in 1 .. Count(b) /\ HeadKept(b, i)
  <2>1. Count(b) \in Nat /\ n \in Nat /\ n <= Count(b)
    BY <1>1, Counts DEF HeadsKept
  <2>2. \A i \in 1 .. n : HeadKept(b, i)
    BY <1>1 DEF HeadsKept
  <2> QED
    BY <2>1, <2>2
<1>4. ASSUME NEW b \in Bases, NEW l, FreshIn(b, Count(b), l)
      PROVE  FreshIn(b, Count(b), l)'
  BY <1>1, <1>4 DEF FreshIn, HeadKept
<1>6. ASSUME NEW l, NoneWaits(l) PROVE NoneWaits(l)'
  BY <1>1, <1>6 DEF NoneWaits, HeadKept
<1>7. ASSUME MsgLetters PROVE MsgLetters'
  <2>1. "msg" \in Bases
    BY DEF Bases
  <2> QED
    BY <1>1, <1>7, <2>1 DEF MsgLetters, HeadKept
<1>8. ASSUME NEW b \in Bases, NEW i \in 1 .. Count(b), i <= Count(b)', Alone(b, i)
      PROVE  Alone(b, i)'
  <2>1. PICK n : n = Count(b)'
    OBVIOUS
  <2>2. i \in 1 .. n
    BY <1>1, <1>8, <2>1
  <2>3. disk'[b].hdr[i].text = disk[b].hdr[i].text
    BY <1>1, <2>1, <2>2 DEF HeadKept
  <2>4. ASSUME NEW c \in Bases, NEW m, m = Count(c)', NEW j \in 1 .. m,
               Related(disk'[c].hdr[j].text, disk'[b].hdr[i].text)
        PROVE  c = b /\ j = i
    <3>1. j \in 1 .. Count(c) /\ disk'[c].hdr[j].text = disk[c].hdr[j].text
      BY <1>1, <2>4 DEF HeadKept
    <3> QED
      BY <3>1, <2>3, <2>4, <1>8 DEF Alone
  <2> QED
    BY <2>4 DEF Alone
<1> QED
  BY <1>4, <1>6, <1>7, <1>8


-----------------------------------------------------------------------------
(* Nothing twice: the steps that write no header.                          *)

LEMMA KeptSame ==
  ASSUME NetInv, HeadersSame,
         \A b \in Bases : \/ pc' = "idle" /\ disk'[b].top = disk[b].top
                          \/ pc' # "idle" /\ mem'.top[b] = disk[b].top
                          \/ pc' # "idle" /\ pc # "idle" /\ mem'.top[b] = mem.top[b]
  PROVE  HeadsKept
<1> SUFFICES ASSUME NEW b \in Bases
             PROVE  /\ Count(b)' \in Nat /\ Count(b)' <= Count(b)
                    /\ \A i \in 1 .. Count(b)' : HeadKept(b, i)
  BY DEF HeadsKept
<1>1. disk[b].top \in Nat /\ mem.top[b] \in Nat /\ disk[b].top <= Count(b) /\ Count(b) \in Nat
  BY Counts
<1>2. Count(b)' = disk[b].top \/ Count(b)' = Count(b)
  BY DEF Count
<1>3. \A i : HeadKept(b, i)
  BY DEF HeadKept, HeadersSame
<1> QED
  BY <1>1, <1>2, <1>3

LEMMA KeptFlag ==
  ASSUME NetInv, pc # "idle", pc' # "idle", mem' = mem,
         NEW b \in Bases, NEW j \in 1 .. Count(b), NEW flag \in {"PROCESSED", "DELETED"}, SetFlag(b, j, flag)
  PROVE  HeadsKept
<1>1. /\ \A c \in Bases : \A i \in 1 .. Count(c) : c # b \/ i # j => disk'[c].hdr[i] = disk[c].hdr[i]
      /\ disk'[b].hdr[j].flags = disk[b].hdr[j].flags \cup {flag}
      /\ disk'[b].hdr[j].text = disk[b].hdr[j].text
  BY FlagGrows DEF NetInv
<1>2. \A c \in Bases : Count(c)' = Count(c) /\ Count(c) \in Nat
  BY Counts DEF Count
<1>3. HeadKept(b, j)
  BY <1>1 DEF HeadKept, Incoming, Waits
<1>4. ASSUME NEW c \in Bases, NEW i \in 1 .. Count(c) PROVE HeadKept(c, i)
  <2>1. CASE c = b /\ i = j
    BY <2>1, <1>3
  <2>2. CASE c # b \/ i # j
    <3>1. disk'[c].hdr[i] = disk[c].hdr[i]
      BY <2>2, <1>1
    <3> QED
      BY <3>1 DEF HeadKept
  <2> QED
    BY <2>1, <2>2
<1> QED
  BY <1>2, <1>4 DEF HeadsKept

LEMMA HeaderAdds ==
  ASSUME NetInv, pc # "idle", pc' # "idle", NEW b \in Bases, NEW h, PutHeader(b, h)
  PROVE  HeadAdded(b, h)
<1>1. /\ mem.top[b] \in Nat /\ mem'.top[b] = mem.top[b] + 1
      /\ disk'[b].hdr[mem.top[b] + 1] = h
      /\ \A i \in 1 .. mem.top[b] : disk'[b].hdr[i] = disk[b].hdr[i]
      /\ \A c \in Bases : c # b => disk'[c].hdr = disk[c].hdr /\ mem'.top[c] = mem.top[c]
  BY HeaderGrows DEF NetInv
<1>2. \A c \in Bases : Count(c) = mem.top[c] /\ Count(c)' = mem'.top[c]
  BY DEF Count
<1> QED
  BY <1>1, <1>2 DEF HeadAdded

LEMMA PackKept ==
  ASSUME NetInv, PackdisStep, ~PackHeader
  PROVE  HeadsKept
<1>1. Stores /\ Rest /\ Places /\ Headed /\ pc # "idle" /\ pc' # "idle"
  BY PackProg DEF NetInv
<1>2. ASSUME HeadersSame, mem'.top = mem.top \/ (ReadInfo /\ UNCHANGED disk)
      PROVE  HeadsKept
  <2>1. \A b \in Bases : mem'.top[b] = disk[b].top \/ mem'.top[b] = mem.top[b]
    BY <1>1, <1>2 DEF ReadInfo
  <2> QED
    BY <2>1, <1>1, <1>2, KeptSame
<1>3. CASE ProcLine \/ OpenFails \/ OpenPacket \/ EndBatch \/ EndPacket \/ Unlink \/ Status
  <2>1. disk' = disk /\ mem' = mem
    BY <1>3, LineSteps DEF EndBatch, EndPacket, Unlink, Status, baseVars
  <2> QED
    BY <2>1, <1>1, <1>2, WritesSame
<1>4. CASE NextItem \/ WriteMsg \/ WriteLoc
  <2>1. disk' = disk /\ (ReadInfo \/ mem' = mem \/ \E b \in Bases : \E t : Claim(b, t))
    BY <1>4 DEF NextItem, WriteMsg, WriteLoc, ClaimFirst, Back, Bases
  <2>2. ASSUME NEW b \in Bases, NEW t, Claim(b, t) PROVE mem'.top = mem.top
    BY <2>2, <1>1 DEF Claim, Stores
  <2> QED
    BY <2>1, <2>2, <1>1, <1>2, WritesSame
<1>5. CASE PackPut
  <2>1. (disk' = disk /\ ReadInfo) \/ PutLink \/ (Flush /\ UNCHANGED <<mem, w>>)
    BY <1>5 DEF PackPut, Back
  <2>2. PutLink => mem'.top = mem.top
    BY <1>1 DEF PutLink, Stores
  <2> QED
    BY <2>1, <2>2, <1>1, <1>2, WritesSame
<1>6. CASE Commit
  <2>1. job.base \in Bases /\ mem' = mem /\ pc \in {"free", "top"}
    BY <1>1, <1>6, PackPlace DEF Commit
  <2>2. disk' = disk \/ WriteFree(job.base) \/ WriteTop(job.base)
    BY <1>6 DEF Commit
  <2> QED
    BY <2>1, <2>2, <1>1, <1>2, WritesSame
<1> QED
  BY <1>3, <1>4, <1>5, <1>6 DEF PackdisStep

LEMMA MailKept_ ==
  ASSUME NetInv, MailassStep, ~WriteFault, ~MailHeader
  PROVE  HeadsKept
<1>1. Stores /\ Rest /\ Places /\ Headed /\ "loc" \in Bases
  BY DEF NetInv, Bases
<1>2. pc # "idle" /\ pc' # "idle"
  BY DEF MailassStep, Scan, LocalClaim, BounceClaim, MailPut, LocalPutFails, BouncePutFails, MailHeader,
         MailAppend, MailBody, MailSetproc, DeleteFree, DeleteMark, MailClose
<1>3. ASSUME HeadersSame, mem'.top = mem.top
      PROVE  HeadsKept
  BY <1>1, <1>2, <1>3, KeptSame
<1>4. CASE Scan \/ LocalClaim \/ BounceClaim \/ BouncePutFails \/ MailAppend \/ MailBody
  <2>1. disk' = disk /\ (mem' = mem \/ \E t : Claim("loc", t))
    BY <1>4 DEF Scan, LocalClaim, BounceClaim, BouncePutFails, MailAppend, MailBody, baseVars
  <2>2. ASSUME NEW t, Claim("loc", t) PROVE mem'.top = mem.top
    BY <2>2, <1>1 DEF Claim, Stores
  <2> QED
    BY <2>1, <2>2, <1>1, <1>3, WritesSame
<1>5. CASE MailPut
  <2>1. PutLink \/ (Flush /\ UNCHANGED <<mem, w>>)
    BY <1>5 DEF MailPut
  <2>2. PutLink => mem'.top = mem.top
    BY <1>1 DEF PutLink, Stores
  <2> QED
    BY <2>1, <2>2, <1>1, <1>3, WritesSame
<1>6. CASE LocalPutFails
  <2>1. PICK kept : disk' = [disk EXCEPT ![w.base].used = kept] /\ mem' = [mem EXCEPT !.used[w.base] = kept]
    BY <1>6, Zenon DEF LocalPutFails, Recover1
  <2>2. w.base \in Bases /\ mem'.top = mem.top
    BY <2>1, <1>1 DEF Stores
  <2> QED
    BY <2>1, <2>2, <1>1, <1>3, WritesSame
<1>7. CASE MailSetproc \/ DeleteMark
  <2>1. /\ pc \in {"proc", "mark"} /\ job.prog = "mailass" /\ mem' = mem
        /\ \E flag \in {"PROCESSED", "DELETED"} : SetFlag("loc", job.this, flag)
    BY <1>1, <1>7, MailPlace DEF MailSetproc, DeleteMark
  <2>2. job.this \in 1 .. Count("loc")
    BY <2>1, <1>1, MailPlace DEF AtOld, Count
  <2> QED
    BY <2>1, <2>2, <1>1, <1>2, KeptFlag
<1>8. CASE DeleteFree
  <2>1. PICK kept : /\ disk' = disk \/ disk' = [disk EXCEPT !["loc"].used = kept]
                    /\ mem' = [mem EXCEPT !.used["loc"] = kept]
    BY <1>8, Zenon DEF DeleteFree
  <2>2. mem'.top = mem.top
    BY <2>1, <1>1 DEF Stores
  <2> QED
    BY <2>1, <2>2, <1>1, <1>3, WritesSame
<1>9. CASE MailClose
  <2>1. pc \in {"free", "top"} /\ mem' = mem /\ (disk' = disk \/ WriteFree("loc") \/ WriteTop("loc"))
    BY <1>9 DEF MailClose
  <2> QED
    BY <2>1, <1>1, <1>3, WritesSame
<1> QED
  BY <1>4, <1>5, <1>6, <1>7, <1>8, <1>9 DEF MailassStep

LEMMA BbKept ==
  ASSUME NetInv, BbassStep, ~WriteFault, ~BbHeader
  PROVE  HeadsKept
<1>1. Stores /\ Rest /\ Places /\ Headed /\ "loc" \in Bases /\ "msg" \in Bases
  BY DEF NetInv, Bases
<1>2. pc # "idle" /\ pc' # "idle"
  BY DEF BbassStep, BbScan, BbAppend, BbBody, BbSetproc, BbLocal, BbPut, BbHeader, BbClose
<1>3. ASSUME HeadersSame, mem'.top = mem.top
      PROVE  HeadsKept
  BY <1>1, <1>2, <1>3, KeptSame
<1>4. CASE BbScan \/ BbAppend \/ BbBody \/ BbLocal
  <2>1. disk' = disk /\ (mem' = mem \/ \E t : Claim("loc", t))
    BY <1>4 DEF BbScan, BbAppend, BbBody, BbLocal, baseVars
  <2>2. ASSUME NEW t, Claim("loc", t) PROVE mem'.top = mem.top
    BY <2>2, <1>1 DEF Claim, Stores
  <2> QED
    BY <2>1, <2>2, <1>1, <1>3, WritesSame
<1>5. CASE BbPut
  <2>1. CASE PutLink \/ (Flush /\ UNCHANGED <<mem, w>>)
    <3>1. PutLink => mem'.top = mem.top
      BY <1>1 DEF PutLink, Stores
    <3> QED
      BY <2>1, <3>1, <1>1, <1>3, WritesSame
  <2>2. CASE Recover1
    <3>1. PICK kept : disk' = [disk EXCEPT ![w.base].used = kept] /\ mem' = [mem EXCEPT !.used[w.base] = kept]
      BY <2>2, Zenon DEF Recover1
    <3>2. w.base \in Bases /\ mem'.top = mem.top
      BY <3>1, <1>1 DEF Stores
    <3> QED
      BY <3>1, <3>2, <1>1, <1>3, WritesSame
  <2> QED
    BY <1>5, <2>1, <2>2 DEF BbPut
<1>6. CASE BbSetproc
  <2>1. pc = "proc" /\ job.prog = "bbass" /\ mem' = mem /\ SetFlag("msg", job.this, "PROCESSED")
    BY <1>6 DEF BbSetproc
  <2>2. job.this \in 1 .. Count("msg")
    BY <2>1, <1>1, BbPlace DEF AtOld, Count
  <2> QED
    BY <2>1, <2>2, <1>1, <1>2, KeptFlag
<1>7. CASE BbClose
  <2>1. /\ pc \in {"free", "top", "free2", "top2"} /\ mem' = mem
        /\ disk' = disk \/ WriteFree("loc") \/ WriteTop("loc") \/ WriteFree("msg") \/ WriteTop("msg")
    BY <1>7 DEF BbClose
  <2> QED
    BY <2>1, <1>1, <1>3, WritesSame
<1> QED
  BY <1>4, <1>5, <1>6, <1>7 DEF BbassStep

LEMMA OthersKept ==
  ASSUME NetInv, Start \/ Exit \/ (\E x \in Links : Collect(x)) \/ UNCHANGED vars
  PROVE  HeadsKept
<1>1. Stores /\ Headed
  BY DEF NetInv
<1>2. UNCHANGED disk /\ \/ pc' = "idle"
                        \/ pc = "idle" /\ ReadInfo
                        \/ UNCHANGED <<pc, mem>>
  BY DEF Start, StartPackdis, StartMailass, StartBbass, Exit, Gone, Collect, vars, baseVars
<1>3. \A b \in Bases : \/ pc' = "idle" /\ disk'[b].top = disk[b].top
                       \/ pc' # "idle" /\ mem'.top[b] = disk[b].top
                       \/ pc' # "idle" /\ pc # "idle" /\ mem'.top[b] = mem.top[b]
  BY <1>2 DEF ReadInfo
<1> QED
  BY <1>1, <1>2, <1>3, WritesSame, KeptSame

-----------------------------------------------------------------------------
(* Nothing twice: the message at work, until it is answered.               *)

Active ==
  \/ job.prog = "mailass" /\ pc \in {"act", "put", "hdr", "body", "proc"}
  \/ job.prog = "bbass" /\ pc \in {"act", "body", "proc"}
AtBase == IF job.prog = "mailass" THEN "loc" ELSE "msg"

LEMMA Relations ==
  /\ \A t : Related(t, t)
  /\ \A t, u : t.of = u.of => Related(t, u) \/ Related(u, t)
  /\ \A t, u : t.of # u.of => ~Related(t, u)
BY DEF Related

LEMMA SourceFacts ==
  ASSUME NetInv, AtMail, AtNews, NewsWaits, Active
  PROVE  /\ AtBase \in Bases /\ job.this \in 1 .. Count(AtBase) /\ job.text \in Texts
         /\ disk[AtBase].hdr[job.this].text = job.text
         /\ Waits(AtBase, disk[AtBase].hdr[job.this])
<1>1. Places /\ pc \in AtOld /\ pc # "idle" /\ "loc" \in Bases /\ "msg" \in Bases /\ "loc" # "msg"
  BY DEF NetInv, Active, AtOld, Bases
<1>2. CASE job.prog = "mailass"
  <2>1. /\ job.this \in 1 .. mem.top["loc"] /\ job.text \in Texts /\ job.text = Old.text
        /\ Old.flags \cap {"OUTGOING", "INTRANSIT"} # {} /\ "PROCESSED" \notin Old.flags
    BY <1>1, <1>2, MailPlace DEF AtMail, Active
  <2>2. AtBase = "loc" /\ Count("loc") = mem.top["loc"] /\ Old = disk["loc"].hdr[job.this]
    BY <1>1, <1>2 DEF AtBase, Count, Old
  <2>3. Waits("loc", Old)
    BY <2>1, <1>1 DEF Waits
  <2> QED
    BY <1>1, <2>1, <2>2, <2>3
<1>3. CASE job.prog = "bbass"
  <2>1. job.this \in 1 .. mem.top["msg"] /\ job.text \in Texts
    BY <1>1, <1>3, BbPlace
  <2>2. job.text = disk["msg"].hdr[job.this].text /\ Waits("msg", disk["msg"].hdr[job.this])
    BY <1>1, <1>3 DEF AtNews, NewsWaits, Active
  <2>3. AtBase = "msg" /\ Count("msg") = mem.top["msg"]
    BY <1>1, <1>3 DEF AtBase, Count
  <2> QED
    BY <1>1, <2>1, <2>2, <2>3
<1> QED
  BY <1>2, <1>3 DEF Active

\* Until then nothing has come from it, and nothing comes from elsewhere.
LEMMA SourceAlone ==
  ASSUME NetInv, AtMail, AtNews, NewsWaits, Sources, Active, pc # "proc"
  PROVE  Unsent(job.text) /\ Alone(AtBase, job.this)
<1>1. /\ AtBase \in Bases /\ job.this \in 1 .. Count(AtBase) /\ Waits(AtBase, disk[AtBase].hdr[job.this])
      /\ disk[AtBase].hdr[job.this].text = job.text
  BY SourceFacts
<1>2. ~Answering(AtBase, job.this)
  BY DEF Answering
<1> QED
  BY <1>1, <1>2 DEF Sources

\* While it is answered it is marked.
LEMMA AnswerMarked ==
  ASSUME NetInv, [Next]_vars, ~WriteFault, ~Crash, NEW b \in Bases, NEW i \in 1 .. Count(b), Answering(b, i)
  PROVE  UNCHANGED vars \/ "PROCESSED" \in disk'[b].hdr[i].flags
<1>1. Stores /\ Headed /\ Places /\ Mailing /\ pc = "proc" /\ i = job.this
  BY DEF NetInv, Answering, Mailing
<1>2. CASE job.prog = "mailass" /\ MailassStep
  <2>1. b = "loc"
    BY <1>2 DEF Answering, Bases
  <2>2. MailSetproc
    BY <1>1, <1>2 DEF MailassStep, Scan, LocalClaim, BounceClaim, MailPut, LocalPutFails, BouncePutFails,
       MailHeader, MailAppend, MailBody, DeleteFree, DeleteMark, MailClose
  <2>3. SetFlag("loc", job.this, "PROCESSED")
    BY <2>2 DEF MailSetproc
  <2> QED
    BY <1>1, <2>1, <2>3, FlagGrows
<1>3. CASE job.prog = "bbass" /\ BbassStep
  <2>1. b = "msg"
    BY <1>3 DEF Answering, Bases
  <2>2. BbSetproc
    BY <1>1, <1>3 DEF BbassStep, BbScan, BbAppend, BbBody, BbLocal, BbPut, BbHeader, BbClose
  <2>3. SetFlag("msg", job.this, "PROCESSED")
    BY <2>2 DEF BbSetproc
  <2> QED
    BY <1>1, <2>1, <2>3, FlagGrows
<1> QED
  BY <1>1, <1>2, <1>3, WhoSteps

\* What has gone to a link is what the program was at.
LEMMA WentNow ==
  ASSUME NetInv, AtMail, AtNews, NewsWaits, Sources, bundle \in BundleSet, [Next]_vars
  PROVE  \/ WentKept
         \/ /\ pc = "body" /\ pc' = "proc" /\ job' = job /\ UNCHANGED <<disk, mem>> /\ Active
            /\ \A x \in Links : \A t \in Texts : Went(x, t)' => Went(x, t) \/ t = job.text
<1>1. CASE pc = "body" /\ pc' = "proc"
  <2>1. Active
    BY <1>1 DEF Active, NetInv, Places, PackPcs, ScanJobs
  <2>2. \/ UNCHANGED <<bundle, sent>>
        \/ UNCHANGED <<disk, mem, job>>
    BY <1>1, BundleMoves DEF Collect
  <2>3. \A x \in Links : \A t \in Texts : Went(x, t)' => Went(x, t) \/ t = job.text
    BY WentStep
  <2>4. UNCHANGED <<bundle, sent>> => WentKept
    BY DEF WentKept, Went
  <2> QED
    BY <1>1, <2>1, <2>2, <2>3, <2>4
<1>2. CASE ~(pc = "body" /\ pc' = "proc")
  BY <1>2, WentStep DEF WentKept
<1> QED
  BY <1>1, <1>2

\* A letter that nothing was known of, and a message that nothing came from.
LEMMA UnsentStays ==
  ASSUME NetInv, AtMail, AtNews, NewsWaits, Sources, bundle \in BundleSet, [Next]_vars
  PROVE  /\ \A l : Fresh(l) => NotSent(l)'
         /\ \A t : /\ Unsent(t)
                   /\ pc = "body" => ~Related(job.text, t)
                   => Unsent(t)'
<1>1. CASE WentKept
  BY <1>1 DEF WentKept, Fresh, NotSent, Unsent
<1>2. CASE /\ pc = "body" /\ pc' = "proc" /\ job' = job /\ UNCHANGED <<disk, mem>> /\ Active
           /\ \A x \in Links : \A t \in Texts : Went(x, t)' => Went(x, t) \/ t = job.text
  <2>1. /\ AtBase \in Bases /\ job.this \in 1 .. Count(AtBase)
        /\ disk[AtBase].hdr[job.this].text = job.text
    BY <1>2, SourceFacts
  <2>2. ASSUME NEW l, Fresh(l) PROVE job.text.of # l
    BY <2>1, <2>2 DEF Fresh, FreshIn
  <2> QED
    BY <1>2, <2>2 DEF Fresh, NotSent, Unsent
<1> QED
  BY <1>1, <1>2, WentNow

LEMMA NewsStays ==
  ASSUME NetInv, NewsWaits, [Next]_vars, ~Crash
  PROVE  NewsWaits'
<1> SUFFICES ASSUME job'.prog = "bbass", pc' \in {"act", "body", "proc"}
             PROVE  Waits("msg", disk'["msg"].hdr[job'.this])
  BY DEF NewsWaits, Waits
<1>1. CASE UNCHANGED vars
  <2>1. UNCHANGED <<disk, job, pc>>
    BY <1>1 DEF vars, baseVars
  <2> QED
    BY <2>1 DEF NewsWaits
<1>2. CASE Start \/ Exit \/ (\E x \in Links : Collect(x)) \/ (\E e \in toEnter : Enter(e))
  <2>1. pc' \in {"line", "scan", "idle"}
    BY <1>2 DEF Start, StartPackdis, StartMailass, StartBbass, Exit, Gone, Collect, Enter
  <2> QED
    BY <2>1
<1>3. CASE PackdisStep
  BY <1>3, PackProg
<1>4. CASE MailassStep
  <2>1. job.prog = "mailass"
    BY <1>4, MailPlace DEF NetInv, MailassStep, Scan, LocalClaim, BounceClaim, MailPut, LocalPutFails,
       BouncePutFails, MailHeader, MailAppend, MailBody, MailSetproc, DeleteFree, DeleteMark, MailClose
  <2> QED
    BY <2>1, <1>4, ProgStays
<1>5. CASE BbassStep
  <2>1. CASE BbScan
    <3>1. /\ pc' = "act" /\ disk' = disk
          /\ \E m \in 1 .. Count("msg") : job'.this = m /\ ~Ignorem(disk["msg"].hdr[m])
      BY <2>1, NewsFinds DEF BbScan, baseVars
    <3> QED
      BY <3>1 DEF Ignorem, Waits
  <2>2. CASE BbAppend \/ BbBody
    <3>1. pc \in {"act", "body"} /\ disk' = disk /\ job' = job /\ job.prog = "bbass"
      BY <2>2 DEF BbAppend, BbBody
    <3> QED
      BY <3>1 DEF NewsWaits
  <2>3. CASE BbSetproc \/ BbLocal \/ BbPut \/ BbHeader \/ BbClose
    <3>1. pc' \notin {"act", "body", "proc"}
      BY <2>3 DEF BbSetproc, BbLocal, BbPut, BbHeader, BbClose
    <3> QED
      BY <3>1
  <2> QED
    BY <1>5, <2>1, <2>2, <2>3 DEF BbassStep
<1> QED
  BY <1>1, <1>2, <1>3, <1>4, <1>5 DEF Next, Step

LEMMA KeptOnce ==
  ASSUME NetInv, AtMail, AtNews, NewsWaits, Sources, CopyAlone, HeadsOnce, MsgLetters,
         bundle \in BundleSet, [Next]_vars, ~WriteFault, ~Crash, HeadsKept
  PROVE  /\ HeadsOnce' /\ MsgLetters' /\ Sources' /\ CopyAlone'
         /\ \A l : Fresh(l) => Fresh(l)'
<1>1. ASSUME NEW b \in Bases, NEW n, n = Count(b)'
      PROVE  /\ Count(b) \in Nat /\ n \in Nat /\ n <= Count(b)
             /\ \A i \in 1 .. n : i \in 1 .. Count(b) /\ HeadKept(b, i)
  <2>1. Count(b) \in Nat /\ n \in Nat /\ n <= Count(b)
    BY <1>1, Counts DEF HeadsKept
  <2>2. \A i \in 1 .. n : HeadKept(b, i)
    BY <1>1 DEF HeadsKept
  <2> QED
    BY <2>1, <2>2
<1>2. Sources'
  <2> SUFFICES ASSUME NEW b \in Bases, NEW n, n = Count(b)', NEW i \in 1 .. n, Waits(b, disk'[b].hdr[i]),
                      NEW t, t = disk'[b].hdr[i].text
               PROVE  /\ Answering(b, i)' \/ Unsent(t)'
                      /\ (b = "loc" /\ Answering(b, i)') \/ Alone(b, i)'
    BY DEF Sources, Waits
  <2>1. /\ i \in 1 .. Count(b) /\ Waits(b, disk[b].hdr[i])
        /\ disk'[b].hdr[i].text = disk[b].hdr[i].text
    BY <1>1 DEF HeadKept
  <2>2. CASE Answering(b, i)
    <3>1. "PROCESSED" \notin disk'[b].hdr[i].flags
      BY DEF Waits
    <3>2. UNCHANGED <<disk, mem, bundle, sent, pc, job>>
      BY <3>1, <2>1, <2>2, AnswerMarked DEF vars, baseVars, envVars
    <3>3. (Answering(b, i)' <=> Answering(b, i)) /\ (Alone(b, i)' <=> Alone(b, i))
      BY <3>2 DEF Answering, Alone, Count
    <3> QED
      BY <3>3, <2>1, <2>2 DEF Sources
  <2>3. CASE ~Answering(b, i)
    <3>1. Unsent(disk[b].hdr[i].text) /\ Alone(b, i)
      BY <2>1, <2>3 DEF Sources
    <3>2. Alone(b, i)'
      <4>1. i <= Count(b)'
        BY <1>1
      <4> QED
        BY <4>1, <3>1, <2>1, KeptPlaces
    <3>3. CASE WentKept
      <4>1. Unsent(t)'
        BY <3>1, <3>3, <2>1 DEF Unsent, WentKept
      <4> QED
        BY <3>2, <4>1
    <3>4. CASE /\ pc = "body" /\ pc' = "proc" /\ job' = job /\ UNCHANGED <<disk, mem>> /\ Active
               /\ \A x \in Links : \A u \in Texts : Went(x, u)' => Went(x, u) \/ u = job.text
      <4>1. CASE Related(job.text, disk[b].hdr[i].text)
        <5>1. AtBase = b /\ job.this = i
          BY <4>1, <3>1, <3>4, SourceFacts DEF Alone
        <5>2. Answering(b, i)'
          BY <5>1, <3>4 DEF Answering, AtBase, Active
        <5> QED
          BY <5>2, <3>2
      <4>2. CASE ~Related(job.text, disk[b].hdr[i].text)
        <5>1. Unsent(t)'
          BY <4>2, <3>1, <3>4 DEF Unsent
        <5> QED
          BY <3>2, <5>1
      <4> QED
        BY <4>1, <4>2
    <3> QED
      BY <3>3, <3>4, WentNow
  <2> QED
    BY <2>2, <2>3
<1>3. CopyAlone'
  <2>0. "msg" \in Bases
    BY DEF Bases
  <2> SUFFICES ASSUME NEW n, n = Count("msg")', NEW i \in 1 .. n, Copying(i)'
               PROVE  Alone("msg", i)' /\ "PROCESSED" \in disk'["msg"].hdr[i].flags
    BY DEF CopyAlone
  <2>1. i \in 1 .. Count("msg") /\ i <= Count("msg")'
    BY <1>1, <2>0
  <2>2. Grown
    BY StepGrows
  <2>3. CASE Copying(i)
    <3>1. Alone("msg", i) /\ "PROCESSED" \in disk["msg"].hdr[i].flags
      BY <2>1, <2>3 DEF CopyAlone
    <3>2. "PROCESSED" \in disk'["msg"].hdr[i].flags
      BY <3>1, <2>0, <2>1, <2>2 DEF Grown
    <3> QED
      BY <3>1, <3>2, <2>0, <2>1, KeptPlaces
  <2>4. CASE ~Copying(i)
    <3>1. Answering("msg", i) /\ ~UNCHANGED vars
      <4>1. /\ job'.prog = "bbass" /\ pc' \in {"local", "put", "hdr"} /\ i = job'.this
            /\ ~(job.prog = "bbass" /\ pc \in {"local", "put", "hdr"} /\ i = job.this)
        BY <2>4 DEF Copying
      <4>2. CASE BbassStep
        <5>1. job.prog = "bbass"
          BY <4>2, <4>1, ProgStays
        <5>2. BbScan \/ BbAppend \/ BbBody \/ BbHeader \/ BbClose => FALSE
          BY <4>1 DEF BbScan, BbAppend, BbBody, BbHeader, BbClose
        <5>3. BbLocal \/ BbPut => FALSE
          BY <4>1, <5>1 DEF BbLocal, BbPut
        <5>4. BbSetproc
          BY <5>2, <5>3, <4>2 DEF BbassStep
        <5>5. pc = "proc" /\ job.this = i
          BY <5>4, <4>1 DEF BbSetproc
        <5> QED
          BY <5>1, <5>5, <4>1 DEF Answering, vars
      <4>3. CASE MailassStep
        <5>1. job.prog = "mailass"
          BY <4>3, MailPlace DEF NetInv, MailassStep, Scan, LocalClaim, BounceClaim, MailPut, LocalPutFails,
             BouncePutFails, MailHeader, MailAppend, MailBody, MailSetproc, DeleteFree, DeleteMark, MailClose
        <5> QED
          BY <5>1, <4>1, <4>3, ProgStays
      <4>4. CASE PackdisStep
        BY <4>4, <4>1, PackProg
      <4>5. CASE UNCHANGED vars
        BY <4>5, <4>1 DEF vars
      <4>6. CASE Start \/ Exit \/ (\E x \in Links : Collect(x)) \/ (\E e \in toEnter : Enter(e))
        <5>1. pc' \in {"line", "scan", "idle"}
          BY <4>6 DEF Start, StartPackdis, StartMailass, StartBbass, Exit, Gone, Collect, Enter
        <5> QED
          BY <5>1, <4>1
      <4> QED
        BY <4>2, <4>3, <4>4, <4>5, <4>6 DEF Next, Step
    <3>2. "PROCESSED" \in disk'["msg"].hdr[i].flags
      BY <3>1, <2>0, <2>1, AnswerMarked
    <3>3. Waits("msg", disk["msg"].hdr[i])
      BY <3>1 DEF Answering, NewsWaits
    <3>4. Alone("msg", i)
      BY <3>3, <2>0, <2>1 DEF Sources
    <3> QED
      BY <3>2, <3>4, <2>0, <2>1, KeptPlaces
  <2> QED
    BY <2>3, <2>4
<1>4. ASSUME NEW l, Fresh(l) PROVE Fresh(l)'
  BY <1>4, UnsentStays, KeptPlaces DEF Fresh
<1> QED
  BY <1>2, <1>3, <1>4, KeptHeads, KeptPlaces

-----------------------------------------------------------------------------
(* Nothing twice: the steps that write a header.                           *)

LEMMA AddedPlaces ==
  ASSUME NetInv, NEW b \in Bases, NEW h, HeadAdded(b, h), NEW c \in Bases, NEW n, n = Count(c)', NEW j \in 1 .. n
  PROVE  \/ j \in 1 .. Count(c) /\ disk'[c].hdr[j] = disk[c].hdr[j]
         \/ c = b /\ j = Count(b) + 1 /\ disk'[c].hdr[j] = h
<1>1. Count(c) \in Nat /\ Count(b) \in Nat
  BY Counts
<1>2. CASE c = b
  <2>1. j \in 1 .. Count(c) \/ j = Count(c) + 1
    BY <1>1, <1>2 DEF HeadAdded
  <2> QED
    BY <2>1, <1>2 DEF HeadAdded
<1>3. CASE c # b
  BY <1>3 DEF HeadAdded
<1> QED
  BY <1>2, <1>3

LEMMA AddedOnce ==
  ASSUME NetInv, HeadsOnce, MsgLetters, Sources, WentKept, pc # "proc",
         NEW b \in Bases, NEW h, HeadAdded(b, h),
         \A j \in 1 .. Count(b) :
           disk[b].hdr[j].text = h.text => ~(Incoming(disk[b].hdr[j]) <=> Incoming(h)),
         \A c \in Bases : \A j \in 1 .. Count(c) :
           Waits(c, disk[c].hdr[j]) /\ Related(h.text, disk[c].hdr[j].text) => c = "loc" /\ Answering(c, j)',
         Waits(b, h) => /\ Unsent(h.text)
                        /\ \A c \in Bases : \A j \in 1 .. Count(c) : ~Related(disk[c].hdr[j].text, h.text),
         b = "msg" => h.text.kind = "letter"
  PROVE  /\ HeadsOnce' /\ MsgLetters' /\ Sources'
         /\ \A l : Fresh(l) /\ l # h.text.of => Fresh(l)'
<1>0. Count(b) \in Nat
  BY Counts
<1>1. HeadsOnce'
  <2> SUFFICES ASSUME NEW c \in Bases, NEW n, n = Count(c)', NEW i \in 1 .. n, NEW j \in 1 .. n,
                      disk'[c].hdr[i].text = disk'[c].hdr[j].text,
                      Incoming(disk'[c].hdr[i]) <=> Incoming(disk'[c].hdr[j])
               PROVE  i = j
    BY DEF HeadsOnce, Incoming
  <2>1. /\ \/ i \in 1 .. Count(c) /\ disk'[c].hdr[i] = disk[c].hdr[i]
           \/ c = b /\ i = Count(b) + 1 /\ disk'[c].hdr[i] = h
        /\ \/ j \in 1 .. Count(c) /\ disk'[c].hdr[j] = disk[c].hdr[j]
           \/ c = b /\ j = Count(b) + 1 /\ disk'[c].hdr[j] = h
    BY AddedPlaces
  <2>2. CASE i \in 1 .. Count(c) /\ j \in 1 .. Count(c) /\ disk'[c].hdr[i] = disk[c].hdr[i]
             /\ disk'[c].hdr[j] = disk[c].hdr[j]
    BY <2>2 DEF HeadsOnce, Incoming
  <2> QED
    BY <2>1, <2>2, <1>0
<1>2. MsgLetters'
  <2> SUFFICES ASSUME NEW n, n = Count("msg")', NEW i \in 1 .. n PROVE disk'["msg"].hdr[i].text.kind = "letter"
    BY DEF MsgLetters
  <2>1. "msg" \in Bases
    BY DEF Bases
  <2> QED
    BY <2>1, AddedPlaces DEF MsgLetters
<1>3. Sources'
  <2> SUFFICES ASSUME NEW c \in Bases, NEW n, n = Count(c)', NEW i \in 1 .. n, Waits(c, disk'[c].hdr[i]),
                      NEW t, t = disk'[c].hdr[i].text
               PROVE  /\ Answering(c, i)' \/ Unsent(t)'
                      /\ (c = "loc" /\ Answering(c, i)') \/ Alone(c, i)'
    BY DEF Sources, Waits
  <2>0. \A u : Unsent(u) => Unsent(u)'
    BY DEF Unsent, WentKept
  <2>1. CASE i \in 1 .. Count(c) /\ disk'[c].hdr[i] = disk[c].hdr[i]
    <3>1. Unsent(t) /\ Alone(c, i)
      BY <2>1 DEF Sources, Answering
    <3>2. CASE Related(h.text, disk[c].hdr[i].text)
      BY <3>1, <3>2, <2>0, <2>1
    <3>3. CASE ~Related(h.text, disk[c].hdr[i].text)
      <4>1. ASSUME NEW d \in Bases, NEW m, m = Count(d)', NEW j \in 1 .. m,
                   Related(disk'[d].hdr[j].text, disk'[c].hdr[i].text)
            PROVE  d = c /\ j = i
        <5>1. \/ j \in 1 .. Count(d) /\ disk'[d].hdr[j] = disk[d].hdr[j]
              \/ disk'[d].hdr[j] = h
          BY <4>1, AddedPlaces
        <5> QED
          BY <5>1, <4>1, <3>1, <3>3, <2>1 DEF Alone
      <4>2. Alone(c, i)'
        BY <4>1 DEF Alone
      <4> QED
        BY <4>2, <3>1, <2>0
    <3> QED
      BY <3>2, <3>3
  <2>2. CASE c = b /\ i = Count(b) + 1 /\ disk'[c].hdr[i] = h
    <3>1. /\ Unsent(h.text)
          /\ \A d \in Bases : \A j \in 1 .. Count(d) : ~Related(disk[d].hdr[j].text, h.text)
      BY <2>2
    <3>2. ASSUME NEW d \in Bases, NEW m, m = Count(d)', NEW j \in 1 .. m,
                 Related(disk'[d].hdr[j].text, disk'[c].hdr[i].text)
          PROVE  d = c /\ j = i
      <4>1. \/ j \in 1 .. Count(d) /\ disk'[d].hdr[j] = disk[d].hdr[j]
            \/ d = b /\ j = Count(b) + 1
        BY <3>2, AddedPlaces
      <4> QED
        BY <4>1, <3>1, <3>2, <2>2
    <3>3. Alone(c, i)'
      BY <3>2 DEF Alone
    <3> QED
      BY <3>1, <3>3, <2>0, <2>2
  <2> QED
    BY <2>1, <2>2, AddedPlaces
<1>4. ASSUME NEW l, Fresh(l), l # h.text.of PROVE Fresh(l)'
  <2>1. NotSent(l)'
    BY <1>4 DEF Fresh, NotSent, WentKept
  <2>2. ASSUME NEW c \in Bases, NEW n, n = Count(c)' PROVE FreshIn(c, n, l)'
    <3>1. ASSUME NEW j \in 1 .. n PROVE disk'[c].hdr[j].text.of # l
      BY <3>1, <2>2, <1>4, AddedPlaces DEF Fresh, FreshIn
    <3> QED
      BY <3>1 DEF FreshIn
  <2>3. ASSUME NEW c \in Bases PROVE FreshIn(c, Count(c), l)'
    BY <2>2 DEF FreshIn
  <2> QED
    BY <2>1, <2>3 DEF Fresh
<1> QED
  BY <1>1, <1>2, <1>3, <1>4

LEMMA MailAdds ==
  ASSUME NetInv, AtMail, AtNews, Marks, NewsWaits, Sources, HeadsOnce, MsgLetters,
         MailHeader, UNCHANGED envVars, ~WriteFault
  PROVE  /\ HeadsOnce' /\ MsgLetters' /\ Sources'
         /\ \A l : Fresh(l) => Fresh(l)'
<1>1. /\ pc = "hdr" /\ job.prog = "mailass" /\ pc' = "proc" /\ job' = job /\ UNCHANGED <<bundle, sent>>
      /\ "loc" \in Bases /\ "msg" \in Bases /\ "loc" # "msg" /\ Headed /\ Stores
  BY DEF MailHeader, envVars, Bases, NetInv
<1>2. Active /\ AtBase = "loc"
  BY <1>1 DEF Active, AtBase
<1>3. /\ job.this \in 1 .. Count("loc") /\ job.text \in Texts /\ disk["loc"].hdr[job.this].text = job.text
      /\ Waits("loc", disk["loc"].hdr[job.this])
      /\ Unsent(job.text) /\ Alone("loc", job.this)
  BY <1>1, <1>2, SourceFacts, SourceAlone
<1>4. /\ Bouncing => w.text = Notice /\ Tells(Notice, job.text)
      /\ ~Bouncing => w.text = job.text
  BY <1>1, NoticeTells DEF AtMail, AtOld
<1>5. /\ w.text.of = job.text.of /\ (w.text = job.text \/ w.text.kind # "letter")
      /\ Related(w.text, job.text) /\ (Bouncing => w.text # job.text)
  BY <1>4 DEF Tells, Related
<1>6. ~Incoming(disk["loc"].hdr[job.this])
  <2>1. job.this \in DOMAIN disk["loc"].hdr
    BY <1>1, <1>3, Counts
  <2> QED
    BY <1>1, <1>3, <2>1 DEF Headed, Waits, Incoming
<1>7. Answering("loc", job.this)'
  BY <1>1 DEF Answering
<1>8. ASSUME NEW h, PutHeader("loc", h), h.text = w.text,
             h.flags = IF Bouncing THEN Bounced(Old, job.text).flags ELSE {"INCOMING", "NEW"}
      PROVE  /\ HeadsOnce' /\ MsgLetters' /\ Sources'
             /\ \A l : Fresh(l) => Fresh(l)'
  <2>1. HeadAdded("loc", h)
    BY <1>1, <1>8, HeaderAdds
  <2>2. WentKept
    BY <1>1 DEF WentKept, Went
  <2>3. ASSUME NEW j \in 1 .. Count("loc"), disk["loc"].hdr[j].text = h.text
        PROVE  ~(Incoming(disk["loc"].hdr[j]) <=> Incoming(h))
    <3>1. Related(disk["loc"].hdr[j].text, job.text)
      BY <2>3, <1>5, <1>8
    <3>2. j = job.this
      BY <3>1, <1>1, <1>3 DEF Alone
    <3>3. ~Bouncing
      BY <3>2, <2>3, <1>3, <1>5, <1>8
    <3> QED
      BY <3>2, <3>3, <1>6, <1>8 DEF Incoming
  <2>4. ASSUME NEW c \in Bases, NEW j \in 1 .. Count(c), Waits(c, disk[c].hdr[j]),
               Related(h.text, disk[c].hdr[j].text)
        PROVE  c = "loc" /\ Answering(c, j)'
    <3>1. disk[c].hdr[j].text.of = job.text.of
      BY <2>4, <1>5, <1>8 DEF Related
    <3>2. CASE Related(disk[c].hdr[j].text, job.text)
      BY <3>2, <1>1, <1>3, <1>7 DEF Alone
    <3>3. CASE Related(job.text, disk[c].hdr[j].text)
      <4>1. Alone(c, j)
        BY <2>4, <1>1 DEF Sources, Answering
      <4> QED
        BY <4>1, <3>3, <1>1, <1>3, <1>7 DEF Alone
    <3> QED
      BY <3>1, <3>2, <3>3, Relations
  <2>5. ASSUME Waits("loc", h)
        PROVE  /\ Unsent(h.text)
               /\ \A c \in Bases : \A j \in 1 .. Count(c) : ~Related(disk[c].hdr[j].text, h.text)
    <3>1. Bouncing /\ Bounced(Old, job.text).flags \cap {"OUTGOING", "INTRANSIT"} # {}
      BY <2>5, <1>8 DEF Waits
    <3>2. "postmaster" # From(job.text) /\ Bounced(Old, job.text).kind = "notice"
      BY <3>1 DEF Bounced
    <3>3. job.text.kind = "letter"
      BY <3>2 DEF From
    <3>4. h.text.kind = "notice"
      BY <3>1, <3>2, <1>4, <1>8 DEF Notice
    <3>5. \A u : Related(u, h.text) => Related(u, job.text)
      BY <3>3, <1>5, <1>8 DEF Related
    <3>6. ASSUME NEW c \in Bases, NEW j \in 1 .. Count(c), Related(disk[c].hdr[j].text, h.text) PROVE FALSE
      <4>1. c = "loc" /\ j = job.this
        BY <3>5, <3>6, <1>1, <1>3 DEF Alone
      <4>2. Related(job.text, h.text)
        BY <4>1, <3>6, <1>3
      <4> QED
        BY <4>2, <3>3, <3>4 DEF Related
    <3>7. Unsent(h.text)
      BY <3>5, <1>3 DEF Unsent
    <3> QED
      BY <3>6, <3>7
  <2>6. /\ HeadsOnce' /\ MsgLetters' /\ Sources'
        /\ \A l : Fresh(l) /\ l # h.text.of => Fresh(l)'
    BY <2>1, <2>2, <2>3, <2>4, <2>5, <1>1, AddedOnce
  <2>7. \A l : Fresh(l) => l # h.text.of
    BY <1>1, <1>3, <1>5, <1>8 DEF Fresh, FreshIn
  <2> QED
    BY <2>6, <2>7
<1> QED
  BY <1>8, <1>1 DEF MailHeader

LEMMA BbAdds ==
  ASSUME NetInv, AtNews, CopyAlone, Sources, HeadsOnce, MsgLetters, BbHeader, UNCHANGED envVars, ~WriteFault
  PROVE  /\ HeadsOnce' /\ MsgLetters' /\ Sources'
         /\ \A l : Fresh(l) => Fresh(l)'
<1>1. /\ pc = "hdr" /\ job.prog = "bbass" /\ pc' = "scan" /\ UNCHANGED <<bundle, sent>>
      /\ "loc" \in Bases /\ "msg" \in Bases /\ "loc" # "msg" /\ Places
  BY DEF BbHeader, envVars, Bases, NetInv
<1>2. job.this \in 1 .. Count("msg") /\ disk["msg"].hdr[job.this].text = job.text /\ w.text = job.text
  BY <1>1, BbPlace DEF AtNews, AtOld, Count
<1>3. Alone("msg", job.this) /\ "PROCESSED" \in disk["msg"].hdr[job.this].flags
  BY <1>1, <1>2 DEF CopyAlone, Copying
<1>4. ASSUME NEW h, PutHeader("loc", h), h.text = w.text, h.flags = {"INCOMING", "NEW"}
      PROVE  /\ HeadsOnce' /\ MsgLetters' /\ Sources'
             /\ \A l : Fresh(l) => Fresh(l)'
  <2>1. HeadAdded("loc", h) /\ WentKept
    BY <1>1, <1>4, HeaderAdds DEF WentKept, Went
  <2>2. ASSUME NEW j \in 1 .. Count("loc"), disk["loc"].hdr[j].text = h.text
        PROVE  FALSE
    BY <2>2, <1>1, <1>2, <1>3, <1>4, Relations DEF Alone
  <2>3. ASSUME NEW c \in Bases, NEW j \in 1 .. Count(c), Waits(c, disk[c].hdr[j]),
               Related(h.text, disk[c].hdr[j].text)
        PROVE  FALSE
    <3>1. Alone(c, j)
      BY <2>3, <1>1 DEF Sources, Answering
    <3>2. c = "msg" /\ j = job.this
      BY <3>1, <2>3, <1>1, <1>2, <1>4 DEF Alone
    <3> QED
      BY <3>2, <2>3, <1>3 DEF Waits
  <2>4. ~Waits("loc", h)
    BY <1>4 DEF Waits
  <2>5. /\ HeadsOnce' /\ MsgLetters' /\ Sources'
        /\ \A l : Fresh(l) /\ l # h.text.of => Fresh(l)'
    BY <2>1, <2>2, <2>3, <2>4, <1>1, AddedOnce
  <2>6. \A l : Fresh(l) => l # h.text.of
    BY <1>1, <1>2, <1>4 DEF Fresh, FreshIn
  <2> QED
    BY <2>5, <2>6
<1> QED
  BY <1>4, <1>1 DEF BbHeader

LEMMA EnterAdds ==
  ASSUME NetInv, EnterFresh, Sources, HeadsOnce, MsgLetters, NEW e \in toEnter, Enter(e)
  PROVE  /\ HeadsOnce' /\ MsgLetters' /\ Sources'
         /\ \A l : Fresh(l) /\ l # e.letter => Fresh(l)'
<1>1. Stores /\ Headed /\ Rest /\ toEnter \subseteq [base : Bases, letter : Letters]
  BY DEF NetInv, Rest
<1>2. pc = "idle" /\ pc' = "idle" /\ UNCHANGED <<bundle, sent>> /\ Fresh(e.letter)
  BY DEF Enter, EnterFresh
<1>3. PICK b \in Bases : b = e.base
  BY <1>1
<1>4. /\ disk[b].top \in Nat /\ disk'[b].top = disk[b].top + 1
      /\ disk'[b].hdr[disk[b].top + 1].text = Letter(e.letter)
      /\ \A c \in Bases : \A j \in 1 .. disk[c].top : disk'[c].hdr[j] = disk[c].hdr[j]
      /\ \A c \in Bases : c # b => disk'[c] = disk[c]
  BY <1>1, <1>3, EnterGrows
<1>5. PICK h : h = disk'[b].hdr[disk[b].top + 1]
  OBVIOUS
<1>6. h.text = Letter(e.letter) /\ h.text.of = e.letter /\ h.text.kind = "letter"
  BY <1>4, <1>5 DEF Letter
<1>7. HeadAdded(b, h) /\ WentKept
  <2>1. \A c \in Bases : Count(c) = disk[c].top /\ Count(c)' = disk'[c].top
    BY <1>2 DEF Count
  <2> QED
    BY <2>1, <1>2, <1>4, <1>5 DEF HeadAdded, WentKept, Went
<1>8. \A c \in Bases : \A j \in 1 .. Count(c) : disk[c].hdr[j].text.of # h.text.of
  BY <1>2, <1>6 DEF Fresh, FreshIn
<1>9. \A c \in Bases : \A j \in 1 .. Count(c) :
        ~Related(disk[c].hdr[j].text, h.text) /\ ~Related(h.text, disk[c].hdr[j].text)
  BY <1>8 DEF Related
<1>10. Unsent(h.text)
  BY <1>2, <1>6 DEF Fresh, NotSent, Unsent, Related
<1> QED
  BY <1>2, <1>6, <1>7, <1>8, <1>9, <1>10, AddedOnce

LEMMA ItemAtHand ==
  ASSUME NetInv, PacketInv, ItemsFresh, job.prog = "packdis", pc \in {"put", "hdr", "loc"}
  PROVE  /\ AtPacket /\ Unfiled /\ job.item \in LettersAt(Line.name) /\ job.item \in Nat
         /\ FreshOnDisk(Item.of) /\ AtHand(Item.of)
         /\ pc = "loc" => WantsMsg(Item.of)
         /\ pc # "loc" => /\ w.text = Letter(Item.of)
                          /\ w.base = "loc" => WantsLoc(Item.of)
<1>1. /\ AtPacket /\ job.item \in Nat /\ job.item \in DOMAIN Items /\ IsLetter(Item)
  BY PacketFacts DEF AtItem
<1>2. Unfiled
  BY <1>1 DEF Unfiled
<1>3. job.item \in LettersAt(Line.name) /\ Items[job.item] = Item
  BY <1>1 DEF LettersAt, Items, Item
<1>4. FreshOnDisk(Item.of) /\ AtHand(Item.of)
  BY <1>2, <1>3 DEF ItemsFresh
<1>5. /\ pc = "loc" => WantsMsg(Item.of)
      /\ pc # "loc" => /\ w.text = Letter(Item.of)
                       /\ w.base = "loc" => WantsLoc(Item.of)
  BY <1>1 DEF PacketInv, FiledSoFar, Filing
<1> QED
  BY <1>1, <1>2, <1>3, <1>4, <1>5

\* What packdis writes: the letter of its item, to a base where it was not.
PackAdded(h) ==
  /\ HeadAdded(w.base, h) /\ h.text = Letter(Item.of)
  /\ h.flags = IF w.base = "loc" THEN LocFlags(Item.of) ELSE MsgFlags

LEMMA PackWrites ==
  ASSUME NetInv, PacketInv, ItemsFresh, PackHeader, UNCHANGED envVars, ~WriteFault
  PROVE  /\ WentKept /\ pc = "hdr" /\ job.prog = "packdis" /\ w.base \in Bases /\ pc' \in {"loc", "item"}
         /\ \E h : PackAdded(h)
<1>1. /\ pc = "hdr" /\ job.prog = "packdis" /\ pc' \in {"loc", "item"} /\ UNCHANGED <<bundle, sent>>
  BY DEF PackHeader, envVars
<1>2. w.text = Letter(Item.of) /\ w.base \in Bases
  BY <1>1, ItemAtHand DEF NetInv, Stores
<1>3. ASSUME NEW h, PutHeader(w.base, h), h.text = w.text,
             h.flags = IF w.base = "loc" THEN LocFlags(Item.of) ELSE MsgFlags
      PROVE  \E g : PackAdded(g)
  <2>1. HeadAdded(w.base, h)
    BY <1>1, <1>2, <1>3, HeaderAdds
  <2> QED
    BY <2>1, <1>2, <1>3 DEF PackAdded
<1>4. \E h : PackAdded(h)
  BY <1>1, <1>3 DEF PackHeader
<1> QED
  BY <1>1, <1>2, <1>4 DEF WentKept, Went

LEMMA PackAdds ==
  ASSUME NetInv, PacketInv, ItemsFresh, Sources, HeadsOnce, MsgLetters,
         PackHeader, UNCHANGED envVars, ~WriteFault
  PROVE  /\ HeadsOnce' /\ MsgLetters' /\ Sources'
         /\ \A l : Fresh(l) /\ l # Item.of => Fresh(l)'
<1>1. /\ WentKept /\ pc = "hdr" /\ job.prog = "packdis" /\ w.base \in Bases
      /\ "loc" \in Bases /\ "msg" \in Bases /\ "loc" # "msg" /\ Bases = {"loc", "msg"}
  BY PackWrites DEF Bases
<1>2. PICK h : PackAdded(h)
  BY PackWrites
<1>3. PICK l : l = Item.of
  OBVIOUS
<1>4. FreshOnDisk(l) /\ AtHand(l) /\ (w.base = "loc" => WantsLoc(l))
  BY <1>1, <1>3, ItemAtHand
<1>5. /\ h.text.of = l /\ h.text.kind = "letter" /\ HeadAdded(w.base, h)
      /\ h.flags = IF w.base = "loc" THEN LocFlags(l) ELSE MsgFlags
  BY <1>2, <1>3 DEF PackAdded, Letter
<1>6. FreshIn(w.base, Count(w.base), l) /\ NoneWaits(l) /\ FreshIn("loc", Count("loc"), l)
  BY <1>1, <1>4 DEF AtHand
<1>7. \A j \in 1 .. Count(w.base) : disk[w.base].hdr[j].text # h.text
  BY <1>5, <1>6 DEF FreshIn
<1>8. \A c \in Bases : \A j \in 1 .. Count(c) :
        Waits(c, disk[c].hdr[j]) => ~Related(h.text, disk[c].hdr[j].text)
  BY <1>5, <1>6 DEF NoneWaits, Related
<1>9. ASSUME Waits(w.base, h)
      PROVE  /\ Unsent(h.text)
             /\ \A c \in Bases : \A j \in 1 .. Count(c) : ~Related(disk[c].hdr[j].text, h.text)
  <2>1. w.base = "loc"
    BY <1>1, <1>5, <1>9 DEF Waits, MsgFlags
  <2>2. ~ForUser(l)
    BY <2>1, <1>5, <1>9 DEF Waits, LocFlags
  <2>3. ~WantsMsg(l)
    BY <2>1, <2>2, <1>4 DEF WantsLoc
  <2>4. FreshIn("msg", Count("msg"), l)
    BY <2>3, <1>1, <1>4 DEF AtHand
  <2>5. \A c \in Bases : FreshIn(c, Count(c), l)
    BY <2>4, <1>1, <1>6
  <2>6. Unsent(h.text)
    BY <1>4, <1>5 DEF FreshOnDisk, NotSent, Unsent, Related
  <2> QED
    BY <2>5, <2>6, <1>5 DEF FreshIn, Related
<1>10. /\ HeadsOnce' /\ MsgLetters' /\ Sources'
       /\ \A m : Fresh(m) /\ m # h.text.of => Fresh(m)'
  BY <1>1, <1>5, <1>7, <1>8, <1>9, AddedOnce
<1> QED
  BY <1>3, <1>5, <1>10

-----------------------------------------------------------------------------
(* Nothing twice: the bundles.                                             *)

LEMMA ReadsTexts ==
  ASSUME NEW s \in Seq(Texts \cup {Broken})
  PROVE  Reads(s) \subseteq Texts
<1> SUFFICES ASSUME NEW i \in DOMAIN s, \A k \in 1 .. i : s[k] # Broken PROVE s[i] \in Texts
  BY DEF Reads
<1>1. i \in 1 .. i
  OBVIOUS
<1>2. s[i] \in Texts \cup {Broken}
  OBVIOUS
<1> QED
  BY <1>1, <1>2

LEMMA BundlesStay ==
  ASSUME NetInv, AtMail, AtNews, NewsWaits, Sources, Bundles, BundlesOnce, SentTexts, [Next]_vars
  PROVE  BundlesOnce' /\ SentTexts'
<1>0. bundle \in BundleSet /\ Broken \notin Texts /\ \A x : Arriving(x) = Reads(bundle[x])
  BY LinkTexts DEF Bundles, BundleSet
<1>1. CASE UNCHANGED <<bundle, sent>>
  BY <1>1 DEF BundlesOnce, SentTexts
<1>2. ASSUME sent' = sent, pc = "act", NEW a \in Links, Append_(a)
      PROVE  BundlesOnce' /\ SentTexts'
  <2>1. \A x \in Links : \A i \in DOMAIN bundle[x] : bundle[x][i] # Broken
    BY <1>2 DEF Bundles
  <2>2. PICK s \in Seq(Texts \cup {Broken}) : s = bundle[a]
    BY <1>0 DEF BundleSet
  <2>3. PICK u : u = Append(s, Broken)
    OBVIOUS
  <2>4. bundle' = [bundle EXCEPT ![a] = u]
    BY <1>2, <2>2, <2>3 DEF Append_
  <2>5. /\ Len(u) \in Nat \ {0} /\ DOMAIN u = 1 .. Len(u) /\ u[Len(u)] = Broken
        /\ \A i \in DOMAIN u : i = Len(u) \/ (i \in DOMAIN s /\ u[i] = s[i])
    BY <2>3, AppendFacts
  <2>6. bundle'[a] = u /\ \A x \in Links : x # a => bundle'[x] = bundle[x]
    BY <1>0, <2>4 DEF BundleSet
  <2>7. \A x : <<x, Broken>> \notin sent
    BY <1>0 DEF SentTexts
  <2>8. ASSUME NEW i \in DOMAIN u, NEW j \in DOMAIN u, u[i] = u[j] PROVE i = j
    BY <2>8, <2>1, <2>2, <2>5 DEF BundlesOnce
  <2>9. ASSUME NEW i \in DOMAIN u PROVE <<a, u[i]>> \notin sent
    BY <2>2, <2>5, <2>7 DEF BundlesOnce
  <2> QED
    BY <1>2, <2>6, <2>8, <2>9 DEF BundlesOnce, SentTexts
<1>3. ASSUME sent' = sent, pc = "body", Complete(Aim, job.text), job.text \in Texts
      PROVE  BundlesOnce' /\ SentTexts'
  <2>1. Active
    BY <1>3 DEF Active, NetInv, Places, PackPcs, ScanJobs
  <2>2. PICK a \in Links, v \in Texts : a = Aim /\ v = job.text
    BY <1>3 DEF Bundles
  <2>3. Unsent(v)
    BY <1>3, <2>1, <2>2, SourceAlone
  <2>4. <<a, v>> \notin sent /\ \A i \in DOMAIN bundle[a] : bundle[a][i] # v
    BY <2>2, <2>3, Relations DEF Unsent, Went
  <2>5. PICK s \in Seq(Texts \cup {Broken}) : s = bundle[a]
    BY <1>0 DEF BundleSet
  <2>6. PICK u : u = [s EXCEPT ![Len(s)] = v]
    OBVIOUS
  <2>7. bundle' = [bundle EXCEPT ![a] = u]
    BY <1>3, <2>2, <2>5, <2>6 DEF Complete
  <2>8. bundle'[a] = u /\ \A x \in Links : x # a => bundle'[x] = bundle[x]
    BY <1>0, <2>7 DEF BundleSet
  <2>9. DOMAIN u = DOMAIN s /\ \A i \in DOMAIN u : (i = Len(s) /\ u[i] = v) \/ (i # Len(s) /\ u[i] = s[i])
    BY <2>6
  <2>10. ASSUME NEW i \in DOMAIN u, NEW j \in DOMAIN u, u[i] = u[j] PROVE i = j
    BY <2>10, <2>4, <2>5, <2>9 DEF BundlesOnce
  <2>11. ASSUME NEW i \in DOMAIN u PROVE <<a, u[i]>> \notin sent
    BY <2>4, <2>5, <2>9 DEF BundlesOnce
  <2> QED
    BY <1>3, <2>8, <2>10, <2>11 DEF BundlesOnce, SentTexts
<1>4. ASSUME NEW a \in Links, Collect(a)
      PROVE  BundlesOnce' /\ SentTexts'
  <2>1. bundle' = [bundle EXCEPT ![a] = <<>>] /\ sent' = sent \cup ({a} \X Reads(bundle[a]))
    BY <1>4, <1>0 DEF Collect
  <2>2. bundle'[a] = <<>> /\ \A x \in Links : x # a => bundle'[x] = bundle[x]
    BY <2>1, <1>0 DEF BundleSet
  <2>3. Reads(bundle[a]) \subseteq Texts
    BY <1>0, ReadsTexts DEF BundleSet
  <2>4. \A x, t : <<x, t>> \in sent' => <<x, t>> \in sent \/ x = a
    BY <2>1
  <2>5. DOMAIN bundle'[a] = {}
    BY <2>2
  <2>6. BundlesOnce'
    BY <2>2, <2>4, <2>5 DEF BundlesOnce
  <2>7. SentTexts'
    BY <2>1, <2>3 DEF SentTexts
  <2> QED
    BY <2>6, <2>7
<1> QED
  BY <1>1, <1>2, <1>3, <1>4, BundleMoves

-----------------------------------------------------------------------------
(* Nothing twice: all steps.                                               *)

\* A letter of which nothing was known is filed or entered only now.
FiledNow(l) == job.prog = "packdis" /\ pc = "hdr" /\ l = Item.of
EnteredNow(l) == \E e \in toEnter : Enter(e) /\ l = e.letter
FreshStays == \A l : Fresh(l) => Fresh(l)' \/ FiledNow(l) \/ EnteredNow(l)

MessagesOnce == HeadsOnce /\ MsgLetters /\ Sources /\ NewsWaits /\ CopyAlone

LEMMA MessagesStay ==
  ASSUME NetInv, PacketInv, AtMail, AtNews, Marks, Bundles, MessagesOnce, EnterFresh, ItemsFresh,
         [Next]_vars, ~WriteFault, ~Crash
  PROVE  MessagesOnce' /\ FreshStays
<1>1. bundle \in BundleSet /\ HeadsOnce /\ MsgLetters /\ Sources /\ NewsWaits /\ CopyAlone
  BY DEF Bundles, BundleSet, MessagesOnce
<1>2. NewsWaits'
  BY <1>1, NewsStays
<1>3. ASSUME HeadsKept PROVE MessagesOnce' /\ FreshStays
  BY <1>1, <1>2, <1>3, KeptOnce DEF MessagesOnce, FreshStays
<1>4. ASSUME pc' \notin {"local", "put", "hdr"} PROVE CopyAlone'
  BY <1>4 DEF CopyAlone, Copying
<1>5. CASE Start \/ Exit \/ (\E x \in Links : Collect(x)) \/ UNCHANGED vars
  BY <1>3, <1>5, OthersKept
<1>6. CASE PackdisStep /\ UNCHANGED envVars
  <2>1. CASE PackHeader
    <3>1. pc' \in {"loc", "item"} /\ pc = "hdr" /\ job.prog = "packdis"
      BY <2>1, <1>6, PackWrites
    <3>2. CopyAlone'
      BY <3>1, <1>4
    <3>3. HeadsOnce' /\ MsgLetters' /\ Sources' /\ \A l : Fresh(l) /\ l # Item.of => Fresh(l)'
      BY <2>1, <1>1, <1>6, PackAdds
    <3> QED
      BY <3>1, <3>2, <3>3, <1>2 DEF MessagesOnce, FreshStays, FiledNow
  <2>2. CASE ~PackHeader
    BY <2>2, <1>3, <1>6, PackKept
  <2> QED
    BY <2>1, <2>2
<1>7. CASE MailassStep /\ UNCHANGED envVars
  <2>1. CASE MailHeader
    <3>1. pc' = "proc"
      BY <2>1 DEF MailHeader
    <3>2. CopyAlone'
      BY <3>1, <1>4
    <3>3. HeadsOnce' /\ MsgLetters' /\ Sources' /\ \A l : Fresh(l) => Fresh(l)'
      BY <2>1, <1>1, <1>7, MailAdds
    <3> QED
      BY <3>2, <3>3, <1>2 DEF MessagesOnce, FreshStays
  <2>2. CASE ~MailHeader
    BY <2>2, <1>3, <1>7, MailKept_
  <2> QED
    BY <2>1, <2>2
<1>8. CASE BbassStep /\ UNCHANGED envVars
  <2>1. CASE BbHeader
    <3>1. pc' = "scan"
      BY <2>1 DEF BbHeader
    <3>2. CopyAlone'
      BY <3>1, <1>4
    <3>3. HeadsOnce' /\ MsgLetters' /\ Sources' /\ \A l : Fresh(l) => Fresh(l)'
      BY <2>1, <1>1, <1>8, BbAdds
    <3> QED
      BY <3>2, <3>3, <1>2 DEF MessagesOnce, FreshStays
  <2>2. CASE ~BbHeader
    BY <2>2, <1>3, <1>8, BbKept
  <2> QED
    BY <2>1, <2>2
<1>9. ASSUME NEW e \in toEnter, Enter(e) PROVE MessagesOnce' /\ FreshStays
  <2>1. CopyAlone'
    BY <1>4, <1>9 DEF Enter
  <2>2. HeadsOnce' /\ MsgLetters' /\ Sources' /\ \A l : Fresh(l) /\ l # e.letter => Fresh(l)'
    BY <1>1, <1>9, EnterAdds
  <2> QED
    BY <2>1, <2>2, <1>2, <1>9 DEF MessagesOnce, FreshStays, EnteredNow
<1> QED
  BY <1>5, <1>6, <1>7, <1>8, <1>9 DEF Next, Step

-----------------------------------------------------------------------------
(* Nothing twice: what users enter, and the lines of PACKETS.              *)

LEMMA EnterStays ==
  ASSUME NetInv, PacketInv, ItemsFresh, EnterOnce, EnterFresh, EnterEcho, FreshStays, [Next]_vars
  PROVE  EnterOnce' /\ EnterFresh'
<1>1. toEnter' \subseteq toEnter
  BY DEF Next, Start, Step, Crash, Enter, Collect, envVars, vars
<1>2. ASSUME NEW f \in toEnter', ~Fresh(f.letter)' PROVE FALSE
  <2>1. Fresh(f.letter)
    BY <1>1 DEF EnterFresh
  <2>2. CASE FiledNow(f.letter)
    <3>1. job.item \in LettersAt(Line.name) /\ AtPacket
      BY <2>2, ItemAtHand DEF FiledNow
    <3>2. Line.name \in DOMAIN Content
      BY <3>1, <2>2, PacketFacts DEF FiledNow, AtItem
    <3>3. Carried(f.letter)
      BY <3>1, <3>2, <2>2 DEF Carried, FiledNow, Item, Items
    <3> QED
      BY <3>3, <1>1 DEF EnterEcho
  <2>3. CASE EnteredNow(f.letter)
    <3>1. PICK e \in toEnter : Enter(e) /\ f.letter = e.letter
      BY <2>3 DEF EnteredNow
    <3>2. f = e
      BY <3>1, <1>1 DEF EnterOnce
    <3>3. toEnter' = toEnter \ {e}
      BY <3>1 DEF Enter
    <3> QED
      BY <3>2, <3>3
  <2> QED
    BY <1>2, <2>1, <2>2, <2>3 DEF FreshStays
<1>3. EnterOnce'
  BY <1>1 DEF EnterOnce
<1> QED
  BY <1>2, <1>3 DEF EnterFresh

\* No line becomes one to be processed.
LEMMA LinesGo ==
  ASSUME NetInv, PacketInv, [Next]_vars
  PROVE  /\ DOMAIN lines' = DOMAIN lines
         /\ \A i \in DOMAIN lines : lines'[i].name = lines[i].name /\ (Todo(lines'[i]) => Todo(lines[i]))
<1>0. Rest /\ lines \in Seq(LineSet)
  BY DEF NetInv, Rest
<1>1. CASE lines' = lines
  BY <1>1
<1>2. ASSUME NEW i \in DOMAIN lines, NEW st \in {"R", "E", "-"}, lines' = [lines EXCEPT ![i].st = st]
      PROVE  /\ DOMAIN lines' = DOMAIN lines
             /\ \A j \in DOMAIN lines : lines'[j].name = lines[j].name /\ (Todo(lines'[j]) => Todo(lines[j]))
  <2>1. /\ DOMAIN lines' = DOMAIN lines /\ lines'[i].st = st /\ lines'[i].name = lines[i].name
        /\ \A j \in DOMAIN lines : j # i => lines'[j] = lines[j]
    BY <1>0, <1>2, Remarked
  <2>2. ~Todo(lines'[i])
    BY <2>1, <1>2, Zenon DEF Todo
  <2> QED
    BY <2>1, <2>2
<1>3. CASE PackdisStep
  <2>0. job.prog = "packdis"
    BY <1>3, PackProg
  <2>1. CASE ProcLine
    <3>1. job.line \in DOMAIN lines
      <4>1. job.line \in Nat \ {0} /\ job.line <= Len(lines)
        BY <2>0, <2>1, PackPlace DEF NetInv, IsPackJob, ProcLine
      <4>2. DOMAIN lines = 1 .. Len(lines) /\ Len(lines) \in Nat
        BY <1>0
      <4> QED
        BY <4>1, <4>2
    <3>2. lines' = lines \/ lines' = [lines EXCEPT ![job.line].st = "R"]
      BY <2>1, Zenon DEF ProcLine
    <3> QED
      BY <3>1, <3>2, <1>1, <1>2
  <2>2. CASE OpenFails \/ OpenPacket \/ EndBatch \/ PackHeader \/ EndPacket \/ Commit \/ Unlink \/ NextItem
             \/ WriteMsg \/ WriteLoc \/ PackPut
    <3>1. CASE pc = "line"
      <4>1. lines' = lines
        BY <2>2, <3>1, Zenon DEF OpenFails, OpenPacket, EndBatch, PackHeader, EndPacket, Commit, Unlink, NextItem,
           WriteMsg, WriteLoc, PackPut, packFiles
      <4> QED
        BY <4>1, <1>1
    <3>2. CASE pc # "line"
      <4>1. lines' = lines \/ (pc \in AtItem /\ \E rc : Back(rc))
        BY <2>2, <3>2 DEF OpenFails, OpenPacket, EndBatch, PackHeader, EndPacket, Commit, Unlink, NextItem,
           WriteMsg, WriteLoc, ClaimFirst, PackPut, packFiles, AtItem
      <4>2. CASE pc \in AtItem /\ \E rc : Back(rc)
        <5>1. job.line \in DOMAIN lines
          BY <4>2, <2>0, PacketFacts
        <5>2. lines' = lines \/ lines' = [lines EXCEPT ![job.line].st = "E"]
          BY <4>2 DEF Back
        <5> QED
          BY <5>1, <5>2, <1>1, <1>2
      <4> QED
        BY <4>1, <4>2, <1>1
    <3> QED
      BY <3>1, <3>2
  <2>3. CASE Status
    <3>1. job.line \in DOMAIN lines
      BY <2>0, <2>3, PacketFacts DEF Status, AtItem
    <3>2. lines' = [lines EXCEPT ![job.line].st = "-"]
      BY <2>3 DEF Status
    <3> QED
      BY <3>1, <3>2, <1>2
  <2> QED
    BY <1>3, <2>1, <2>2, <2>3 DEF PackdisStep
<1>4. CASE ~PackdisStep
  <2>1. lines' = lines
    BY <1>4 DEF Next, Start, StartPackdis, Step, Crash, Enter, Collect, packFiles, vars
  <2> QED
    BY <2>1, <1>1
<1> QED
  BY <1>3, <1>4

-----------------------------------------------------------------------------
(* Nothing twice: the packet at work.                                      *)

LEMMA InPacketStep ==
  ASSUME NetInv, PacketInv, AtPacket, [Next]_vars, ~Crash
  PROVE  UNCHANGED vars \/ (PackdisStep /\ UNCHANGED envVars)
<1>1. pc \notin {"idle", "exit"} /\ job.prog = "packdis"
  BY DEF AtPacket, AtItem
<1>2. ~(MailassStep \/ BbassStep)
  BY <1>1, ProgStays
<1>3. ~Start /\ ~Exit /\ (\A e \in toEnter : ~Enter(e)) /\ \A x \in Links : ~Collect(x)
  BY <1>1 DEF Start, StartPackdis, StartMailass, StartBbass, Exit, Enter, Collect
<1> QED
  BY <1>2, <1>3 DEF Next, Step

LEMMA PacketOpens ==
  ASSUME NetInv, ~AtPacket, AtPacket', [Next]_vars
  PROVE  OpenPacket /\ UNCHANGED envVars /\ pc = "line" /\ pc' = "item" /\ job'.rc = 0 /\ job'.line = job.line
<1>1. CASE PackdisStep /\ UNCHANGED envVars
  <2>1. job.prog = "packdis" /\ pc \notin AtItem
    BY <1>1, PackProg DEF AtPacket
  <2>2. ProcLine \/ OpenFails \/ OpenPacket \/ EndBatch
    BY <1>1, <2>1 DEF PackdisStep, NextItem, WriteMsg, WriteLoc, PackPut, PackHeader, EndPacket, Commit, Unlink,
       Status, AtItem
  <2>3. ~ProcLine /\ ~OpenFails /\ ~EndBatch
    BY <2>1 DEF ProcLine, OpenFails, EndBatch, AtPacket, AtItem
  <2>4. IsPackJob(job)
    BY <2>1, PackPlace DEF NetInv
  <2>5. job' = [job EXCEPT !.item = 1, !.rc = 0] /\ pc = "line" /\ pc' = "item"
    BY <2>2, <2>3 DEF OpenPacket
  <2>6. job'.rc = 0 /\ job'.line = job.line
    BY <2>4, <2>5 DEF IsPackJob
  <2> QED
    BY <1>1, <2>2, <2>3, <2>5, <2>6
<1>2. CASE MailassStep \/ BbassStep
  BY <1>2, ProgStays DEF AtPacket
<1>3. CASE Start \/ Exit \/ Crash
  <2>1. pc' \in {"idle", "line", "scan"}
    BY <1>3 DEF Start, StartPackdis, StartMailass, StartBbass, Exit, Crash, Gone
  <2> QED
    BY <2>1 DEF AtPacket, AtItem
<1>4. CASE UNCHANGED <<pc, job>>
  BY <1>4 DEF AtPacket
<1>5. CASE (\E e \in toEnter : Enter(e)) \/ (\E x \in Links : Collect(x)) \/ UNCHANGED vars
  BY <1>4, <1>5 DEF Enter, Collect, vars
<1> QED
  BY <1>1, <1>2, <1>3, <1>5 DEF Next, Step

\* Back to the next line: nothing was written since the bitmaps and tops were.
PacketLeft ==
  /\ pc \in {"item", "put", "loc"} /\ UNCHANGED <<disk, bundle, sent>> /\ ReadInfo
  /\ pc' = "line" /\ job'.line = job.line + 1
PacketSeen == lines'[job.line].st # " " /\ pc' = "line" /\ job'.line = job.line + 1
PacketStays ==
  /\ pc' \in AtItem /\ job'.prog = "packdis" /\ UNCHANGED <<lines, bundle, sent>>
  /\ job'.line = job.line /\ job'.rc = 0

LEMMA BackLeaves ==
  ASSUME IsPackJob(job), pc \in {"item", "put", "loc"}, UNCHANGED <<disk, bundle, sent>>,
         NEW rc \in {1, 2}, Back(rc)
  PROVE  PacketLeft
BY DEF PacketLeft, Back, IsPackJob

LEMMA PacketGoes ==
  ASSUME NetInv, PacketInv, AtPacket, NoneFailed, PackdisStep, UNCHANGED envVars, ~WriteFault
  PROVE  PacketLeft \/ PacketSeen \/ PacketStays
<1>1. /\ IsPackJob(job) /\ job.rc = 0 /\ job.prog = "packdis" /\ pc \in AtItem /\ Rest
      /\ job.line \in DOMAIN lines
  BY PacketFacts DEF NoneFailed, AtPacket
<1>2. sent' = sent
  BY DEF envVars
<1>3. ASSUME job' = job \/ (\E b : job' = [job EXCEPT !.base = b]) \/ job' = [job EXCEPT !.item = @ + 1],
             pc' \in AtItem, UNCHANGED <<lines, bundle>>
      PROVE  PacketStays
  BY <1>1, <1>2, <1>3 DEF PacketStays, IsPackJob
<1>4. CASE ProcLine \/ OpenFails \/ OpenPacket \/ EndBatch
  BY <1>1, <1>4 DEF ProcLine, OpenFails, OpenPacket, EndBatch, AtItem
<1>5. CASE NextItem
  <2>1. pc = "item" /\ UNCHANGED <<disk, bundle>>
    BY <1>5 DEF NextItem
  <2>2. CASE Back(2)
    BY <2>1, <2>2, <1>1, <1>2, BackLeaves
  <2>3. CASE job' = [job EXCEPT !.item = @ + 1] /\ UNCHANGED <<mem, lines, pc>>
    BY <2>1, <2>3, <1>3 DEF AtItem
  <2> QED
    BY <2>2, <2>3, <1>5 DEF NextItem
<1>6. CASE WriteMsg \/ WriteLoc
  <2>1. pc \in {"item", "loc"} /\ UNCHANGED <<disk, bundle>>
    BY <1>6 DEF WriteMsg, WriteLoc, ClaimFirst
  <2>2. CASE Back(1)
    BY <2>1, <2>2, <1>1, <1>2, BackLeaves
  <2>3. CASE pc' = "put" /\ UNCHANGED <<job, lines>>
    BY <2>1, <2>3, <1>3 DEF AtItem
  <2> QED
    BY <2>2, <2>3, <1>6 DEF WriteMsg, WriteLoc, ClaimFirst
<1>7. CASE PackPut
  <2>1. pc = "put" /\ bundle' = bundle
    BY <1>7 DEF PackPut
  <2>2. CASE Back(1) /\ UNCHANGED disk
    BY <2>1, <2>2, <1>1, <1>2, BackLeaves
  <2>3. CASE pc' \in {"put", "hdr"} /\ UNCHANGED <<job, lines>>
    BY <2>1, <2>3, <1>3 DEF AtItem
  <2> QED
    BY <2>1, <2>2, <2>3, <1>7 DEF PackPut
<1>8. CASE PackHeader
  <2>1. /\ pc' \in {"loc", "item"} /\ UNCHANGED <<bundle, lines>>
        /\ job' = job \/ job' = [job EXCEPT !.item = @ + 1]
    BY <1>8 DEF PackHeader
  <2> QED
    BY <2>1, <1>3 DEF AtItem
<1>9. CASE EndPacket
  <2>1. pc' = "free" /\ job' = [job EXCEPT !.base = "loc"] /\ UNCHANGED <<bundle, lines>>
    BY <1>9 DEF EndPacket, baseVars, packFiles
  <2> QED
    BY <2>1, <1>3 DEF AtItem
<1>10. CASE Commit
  <2>1. PICK rc \in {job.rc, 3} :
          /\ rc = job.rc
          /\ job' = [job EXCEPT !.rc = rc, !.base = IF pc = "top" THEN "msg" ELSE @]
          /\ pc' = CASE pc = "free" -> "top"
                     [] pc = "top" /\ rc = 3 -> "exit"
                     [] OTHER -> IF job.base = "loc" THEN "free" ELSE "done"
    BY <1>10 DEF Commit
  <2>2. UNCHANGED <<bundle, lines>> /\ pc \in {"free", "top"}
    BY <1>10 DEF Commit, packFiles
  <2>3. rc = 0 /\ rc # 3
    BY <2>1, <1>1
  <2>4. job'.rc = 0 /\ job'.line = job.line /\ job'.prog = "packdis"
    BY <2>1, <2>3, <1>1 DEF IsPackJob
  <2>5. pc' \in {"top", "free", "done"}
    BY <2>1, <2>2, <2>3
  <2> QED
    BY <2>2, <2>4, <2>5, <1>2 DEF PacketStays, AtItem
<1>11. CASE Unlink
  <2>1. pc' = "status" /\ UNCHANGED <<job, bundle, lines>>
    BY <1>11 DEF Unlink, baseVars
  <2> QED
    BY <2>1, <1>3 DEF AtItem
<1>12. CASE Status
  <2>1. lines' = [lines EXCEPT ![job.line].st = "-"] /\ pc' = "line" /\ job' = [job EXCEPT !.line = @ + 1]
    BY <1>12 DEF Status
  <2>2. lines'[job.line].st = "-"
    BY <2>1, <1>1, Remarked
  <2>3. lines'[job.line].st # " "
    BY <2>2, Zenon
  <2>4. job'.line = job.line + 1
    BY <2>1, <1>1 DEF IsPackJob
  <2> QED
    BY <2>1, <2>3, <2>4 DEF PacketSeen
<1> QED
  BY <1>4, <1>5, <1>6, <1>7, <1>8, <1>9, <1>10, <1>11, <1>12 DEF PackdisStep

LEMMA NoneFails ==
  ASSUME NetInv, PacketInv, NoneFailed, [Next]_vars, ~WriteFault, ~Crash
  PROVE  NoneFailed'
<1>1. CASE AtPacket
  <2>1. CASE UNCHANGED vars
    BY <2>1, <1>1 DEF vars, NoneFailed, AtPacket
  <2>2. CASE PackdisStep /\ UNCHANGED envVars
    <3>1. PacketLeft \/ PacketSeen \/ PacketStays
      BY <1>1, <2>2, PacketGoes
    <3> QED
      BY <3>1 DEF PacketLeft, PacketSeen, PacketStays, NoneFailed, AtPacket, AtItem
  <2> QED
    BY <1>1, <2>1, <2>2, InPacketStep
<1>2. CASE ~AtPacket
  BY <1>2, PacketOpens DEF NoneFailed
<1> QED
  BY <1>1, <1>2

\* Nothing since the last commit: what is not on the disk is nowhere.
LEMMA LeftFresh ==
  ASSUME PacketLeft, NEW l, FreshOnDisk(l)
  PROVE  Fresh(l)'
<1>1. \A b \in Bases : Count(b)' = disk[b].top /\ disk' = disk
  BY DEF PacketLeft, ReadInfo, Count
<1>2. NotSent(l)'
  BY DEF PacketLeft, FreshOnDisk, NotSent, Went
<1>3. ASSUME NEW b \in Bases PROVE FreshIn(b, Count(b), l)'
  BY <1>1 DEF FreshOnDisk, FreshIn
<1> QED
  BY <1>2, <1>3 DEF Fresh

\* A letter of a packet that is still to be filed stays unknown, unless it is the one that is
\* filed now.
LEMMA LetterFresh ==
  ASSUME NetInv, PacketInv, ItemsFresh, LinesOnce, EnterEcho, FreshStays,
         NEW i \in DOMAIN lines, Todo(lines[i]), NEW k \in LettersAt(lines[i].name),
         NEW l, l = Content[lines[i].name][k].of, Fresh(l)
  PROVE  Fresh(l)' \/ (AtPacket /\ pc = "hdr" /\ i = job.line /\ k = job.item)
<1>1. CASE FiledNow(l)
  <2>1. AtPacket /\ pc = "hdr" /\ job.item \in LettersAt(Line.name) /\ l = Item.of
    BY <1>1, ItemAtHand DEF FiledNow
  <2>2. job.line \in DOMAIN lines /\ Todo(Line)
    BY <2>1, PacketFacts DEF AtPacket, AtItem
  <2>3. Todo(lines[job.line]) /\ job.item \in LettersAt(lines[job.line].name)
        /\ l = Content[lines[job.line].name][job.item].of
    BY <2>1, <2>2 DEF Line, Item, Items
  <2>4. i = job.line /\ k = job.item
    <3>0. PICK j \in DOMAIN lines : j = job.line
      BY <2>2
    <3>1. PICK m \in LettersAt(lines[j].name) : m = job.item
      BY <3>0, <2>3
    <3>2. Content[lines[i].name][k].of = Content[lines[j].name][m].of /\ Todo(lines[j])
      BY <3>0, <3>1, <2>3
    <3> QED
      BY <3>0, <3>1, <3>2 DEF LinesOnce
  <2> QED
    BY <2>1, <2>4
<1>2. CASE EnteredNow(l)
  <2>1. lines[i].name \in DOMAIN Content
    BY DEF NetInv, Rest
  <2>2. Carried(l)
    BY <2>1 DEF Carried
  <2> QED
    BY <1>2, <2>2 DEF EnteredNow, EnterEcho
<1> QED
  BY <1>1, <1>2 DEF FreshStays

LEMMA LinesStay ==
  ASSUME NetInv, PacketInv, ItemsFresh, LinesOnce, LinesFresh, NoneFailed, EnterEcho, FreshStays,
         [Next]_vars, ~WriteFault, ~Crash
  PROVE  LinesOnce' /\ LinesFresh'
<1>1. /\ DOMAIN lines' = DOMAIN lines
      /\ \A i \in DOMAIN lines : lines'[i].name = lines[i].name /\ (Todo(lines'[i]) => Todo(lines[i]))
  BY LinesGo
<1>2. LinesOnce'
  BY <1>1 DEF LinesOnce
<1>3. ASSUME NEW i \in DOMAIN lines, Todo(lines'[i]), NEW k \in LettersAt(lines[i].name),
             NEW l, l = Content[lines[i].name][k].of, ~(AtPacket' /\ i = job'.line)
      PROVE  Fresh(l)'
  <2>1. Todo(lines[i])
    BY <1>1, <1>3
  <2>2. CASE ~(AtPacket /\ i = job.line)
    <3>1. Fresh(l)
      BY <2>1, <2>2, <1>3 DEF LinesFresh
    <3> QED
      BY <3>1, <2>1, <2>2, <1>3, LetterFresh
  <2>3. CASE AtPacket /\ i = job.line
    <3>1. CASE UNCHANGED vars
      BY <3>1, <2>3, <1>3 DEF vars, AtPacket
    <3>2. CASE PackdisStep /\ UNCHANGED envVars
      <4>1. CASE PacketLeft
        <5>1. Unfiled
          BY <4>1, <2>3 DEF PacketLeft, Unfiled
        <5>2. k \in LettersAt(Line.name) /\ l = Items[k].of
          BY <1>3, <2>3 DEF Line, Items
        <5>3. FreshOnDisk(l)
          BY <5>1, <5>2 DEF ItemsFresh
        <5> QED
          BY <4>1, <5>3, LeftFresh
      <4>2. CASE PacketSeen
        <5>1. ~Todo(lines'[i])
          BY <4>2, <2>3, Zenon DEF PacketSeen, Todo
        <5> QED
          BY <5>1, <1>3
      <4>3. CASE PacketStays
        BY <4>3, <2>3, <1>3 DEF PacketStays, AtPacket
      <4> QED
        BY <4>1, <4>2, <4>3, <3>2, <2>3, PacketGoes
    <3> QED
      BY <3>1, <3>2, <2>3, InPacketStep
  <2> QED
    BY <2>2, <2>3
<1>4. LinesFresh'
  BY <1>1, <1>3 DEF LinesFresh
<1> QED
  BY <1>2, <1>4

\* What a step does to a packet that is not filed yet.
ItemStep ==
  \/ pc = "item" /\ pc' = "item" /\ job'.item = job.item + 1
  \/ pc = "item" /\ pc' = "put" /\ job'.item = job.item
  \/ HeadsKept /\ pc = "loc" /\ pc' = "put" /\ job'.item = job.item /\ w'.base = "loc"
  \/ HeadsKept /\ pc = "put" /\ pc' \in {"put", "hdr"} /\ job'.item = job.item /\ w'.base = w.base
  \/ PackHeader /\ pc = "hdr" /\ pc' = "loc" /\ job'.item = job.item /\ w.base = "msg"
  \/ PackHeader /\ pc = "hdr" /\ pc' = "item" /\ job'.item = job.item + 1

LEMMA ItemSteps ==
  ASSUME NetInv, PacketInv, AtPacket, PackdisStep, PacketStays, Unfiled', ~WriteFault
  PROVE  Unfiled /\ ItemStep /\ \A b \in Bases : disk'[b].top = disk[b].top
<1>1. /\ pc' \in {"item", "put", "hdr", "loc"} /\ IsPackJob(job) /\ Stores /\ Headed /\ pc \in AtItem
      /\ pc # "idle" /\ job.prog = "packdis"
  BY PacketFacts DEF Unfiled, AtPacket
<1>2. ASSUME job' = [job EXCEPT !.item = @ + 1] PROVE job'.item = job.item + 1
  BY <1>1, <1>2 DEF IsPackJob
<1>3. ASSUME pc \in {"item", "put", "hdr", "loc"} PROVE Unfiled
  BY <1>3 DEF Unfiled
<1>4. ASSUME NEW rc, Back(rc) PROVE FALSE
  BY <1>1, <1>4 DEF Back
<1>5. CASE ProcLine \/ OpenFails \/ OpenPacket \/ EndBatch \/ EndPacket \/ Commit \/ Unlink \/ Status
  <2>1. CASE pc = "line"
    BY <1>1, <2>1 DEF AtItem
  <2>2. CASE pc # "line"
    <3>1. EndPacket \/ Commit \/ Unlink \/ Status
      BY <1>5, <2>2 DEF ProcLine, OpenFails, OpenPacket, EndBatch
    <3>2. CASE Commit
      <4>1. pc' \in {"top", "exit", "free", "done"}
        BY <3>2 DEF Commit
      <4> QED
        BY <4>1, <1>1
    <3>3. CASE EndPacket \/ Unlink \/ Status
      BY <3>3, <1>1 DEF EndPacket, Unlink, Status
    <3> QED
      BY <3>1, <3>2, <3>3
  <2> QED
    BY <2>1, <2>2
<1>6. CASE NextItem
  <2>1. pc = "item" /\ disk' = disk /\ job' = [job EXCEPT !.item = @ + 1] /\ pc' = pc
    BY <1>4, <1>6 DEF NextItem
  <2> QED
    BY <2>1, <1>2, <1>3 DEF ItemStep
<1>7. CASE WriteMsg
  <2>1. pc = "item" /\ disk' = disk /\ job' = job /\ pc' = "put"
    BY <1>4, <1>7 DEF WriteMsg, ClaimFirst
  <2> QED
    BY <2>1, <1>3 DEF ItemStep
<1>8. CASE WriteLoc
  <2>1. pc = "loc" /\ disk' = disk /\ job' = job /\ pc' = "put" /\ Claim("loc", Letter(Item.of))
    BY <1>4, <1>8 DEF WriteLoc, ClaimFirst
  <2>2. w'.base = "loc"
    BY <2>1 DEF Claim
  <2>3. ~PackHeader
    BY <2>1 DEF PackHeader
  <2>4. HeadsKept
    BY <2>3, PackKept
  <2> QED
    BY <2>1, <2>2, <2>4, <1>3 DEF ItemStep
<1>9. CASE PackPut
  <2>1. /\ pc = "put" /\ job' = job /\ pc' \in {"put", "hdr"}
        /\ PutLink \/ (Flush /\ w' = w /\ mem' = mem)
    BY <1>4, <1>9 DEF PackPut
  <2>2. w'.base = w.base
    BY <2>1, <1>1 DEF PutLink, Stores
  <2>3. \A b \in Bases : disk'[b].top = disk[b].top
    BY <2>1, <1>1 DEF PutLink, Flush, Stores, BaseSet
  <2>4. ~PackHeader
    BY <2>1 DEF PackHeader
  <2>5. HeadsKept
    BY <2>4, PackKept
  <2> QED
    BY <2>1, <2>2, <2>3, <2>5, <1>3 DEF ItemStep
<1>10. CASE PackHeader
  <2>1. /\ pc = "hdr"
        /\ IF w.base = "msg" /\ WantsLoc(Item.of)
           THEN pc' = "loc" /\ UNCHANGED job
           ELSE pc' = "item" /\ job' = [job EXCEPT !.item = @ + 1]
        /\ \E h : PutHeader(w.base, h)
    BY <1>10 DEF PackHeader
  <2>2. w.base \in Bases
    BY <1>1 DEF Stores
  <2>3. \A b \in Bases : disk'[b].top = disk[b].top
    BY <2>1, <2>2, <1>1, HeaderGrows
  <2>4. CASE w.base = "msg" /\ WantsLoc(Item.of)
    BY <2>1, <2>3, <2>4, <1>3, <1>10 DEF ItemStep
  <2>5. CASE ~(w.base = "msg" /\ WantsLoc(Item.of))
    BY <2>1, <2>3, <2>5, <1>2, <1>3, <1>10 DEF ItemStep
  <2> QED
    BY <2>4, <2>5
<1> QED
  BY <1>5, <1>6, <1>7, <1>8, <1>9, <1>10 DEF PackdisStep

LEMMA DiskStaysFresh ==
  ASSUME NetInv, Grown, UNCHANGED <<bundle, sent>>, \A b \in Bases : disk'[b].top = disk[b].top,
         NEW l, FreshOnDisk(l)
  PROVE  FreshOnDisk(l)'
<1>1. NotSent(l)'
  BY DEF FreshOnDisk, NotSent, Went
<1>2. ASSUME NEW b \in Bases PROVE FreshIn(b, disk[b].top, l)'
  <2>1. FreshIn(b, disk[b].top, l) /\ disk[b].top \in Nat /\ Count(b) \in Nat /\ disk[b].top <= Count(b)
    BY Counts DEF FreshOnDisk
  <2>2. \A i \in 1 .. disk[b].top : i \in 1 .. Count(b)
    BY <2>1
  <2>3. \A i \in 1 .. disk[b].top : disk'[b].hdr[i].text = disk[b].hdr[i].text
    BY <2>2 DEF Grown
  <2> QED
    BY <2>1, <2>3 DEF FreshIn
<1> QED
  BY <1>1, <1>2 DEF FreshOnDisk

\* The letter that was filed in msgtxt is not seen to there, and is still to go to loctxt.
LEMMA MsgFiled ==
  ASSUME NetInv, PacketInv, ItemsFresh, PackHeader, UNCHANGED envVars, ~WriteFault, w.base = "msg", pc' = "loc",
         NEW l, AtHand(l)
  PROVE  AtHand(l)'
<1>1. PICK h : PackAdded(h)
  BY PackWrites
<1>2. "loc" \in Bases /\ "msg" \in Bases /\ "loc" # "msg"
  BY DEF Bases
<1>3. HeadAdded("msg", h) /\ h.flags = {}
  BY <1>1, <1>2 DEF PackAdded, MsgFlags
<1>4. FreshIn("loc", Count("loc"), l)'
  <2>1. Count("loc")' = Count("loc") /\ \A i \in 1 .. Count("loc") : disk'["loc"].hdr[i] = disk["loc"].hdr[i]
    BY <1>2, <1>3 DEF HeadAdded
  <2> QED
    BY <2>1 DEF AtHand, FreshIn
<1>5. NoneWaits(l)'
  <2> SUFFICES ASSUME NEW b \in Bases, NEW n, n = Count(b)', NEW i \in 1 .. n, Waits(b, disk'[b].hdr[i])
               PROVE  disk'[b].hdr[i].text.of # l
    BY DEF NoneWaits
  <2>1. CASE i \in 1 .. Count(b) /\ disk'[b].hdr[i] = disk[b].hdr[i]
    BY <2>1 DEF AtHand, NoneWaits
  <2>2. CASE b = "msg" /\ disk'[b].hdr[i] = h
    BY <2>2, <1>3 DEF Waits
  <2> QED
    BY <2>1, <2>2, <1>2, <1>3, AddedPlaces
<1> QED
  BY <1>4, <1>5 DEF AtHand

LEMMA ItemsStay ==
  ASSUME NetInv, PacketInv, ItemsFresh, LinesOnce, LinesFresh, NoneFailed, EnterEcho, FreshStays,
         [Next]_vars, ~WriteFault, ~Crash
  PROVE  ItemsFresh'
<1> SUFFICES ASSUME Unfiled', NEW q, q = Line.name', NEW k \in LettersAt(q), NEW l, l = Content[q][k].of
             PROVE  /\ FreshOnDisk(l)'
                    /\ k > job'.item \/ (pc' = "item" /\ k = job'.item) => Fresh(l)'
                    /\ pc' # "item" /\ k = job'.item => AtHand(l)'
  BY DEF ItemsFresh, Items
<1>1. CASE ~AtPacket
  <2>1. OpenPacket /\ UNCHANGED envVars /\ pc = "line" /\ pc' = "item" /\ job'.line = job.line
    BY <1>1, PacketOpens DEF Unfiled
  <2>2. /\ job.line <= Len(lines) /\ Line.st = " " /\ UNCHANGED <<disk, mem, bundle, sent, lines>>
    BY <2>1 DEF OpenPacket, baseVars, packFiles, envVars
  <2>3. Todo(Line)
    BY <2>2, Zenon DEF Todo
  <2>4. job.line \in DOMAIN lines
    BY <2>1, <2>2, PackPlace DEF NetInv
  <2>5. q = lines[job.line].name
    BY <2>1, <2>2 DEF Line
  <2>6. Fresh(l)
    BY <2>3, <2>4, <2>5, <1>1 DEF LinesFresh, Line
  <2>7. Fresh(l)'
    BY <2>1, <2>2, <2>6 DEF Fresh, NotSent, Went, FreshIn, Count
  <2>8. FreshOnDisk(l)'
    <3>1. FreshOnDisk(l)
      <4>1. ASSUME NEW b \in Bases PROVE FreshIn(b, disk[b].top, l)
        BY <2>6, Counts DEF Fresh, FreshIn
      <4> QED
        BY <4>1, <2>6 DEF Fresh, FreshOnDisk
    <3> QED
      BY <2>2, <3>1 DEF FreshOnDisk, NotSent, Went, FreshIn
  <2> QED
    BY <2>1, <2>7, <2>8
<1>2. CASE UNCHANGED vars
  <2>1. /\ UNCHANGED <<disk, mem, w, bundle, sent, pc, job, lines>> /\ Unfiled
    BY <1>2 DEF vars, baseVars, packFiles, envVars, Unfiled, AtPacket
  <2>2. q = Line.name
    BY <2>1 DEF Line
  <2>3. /\ FreshOnDisk(l)
        /\ k > job.item \/ (pc = "item" /\ k = job.item) => Fresh(l)
        /\ pc # "item" /\ k = job.item => AtHand(l)
    BY <2>1, <2>2 DEF ItemsFresh, Items
  <2>4. FreshOnDisk(l) => FreshOnDisk(l)'
    BY <2>1 DEF FreshOnDisk, NotSent, Went, FreshIn
  <2>5. Fresh(l) => Fresh(l)'
    BY <2>1 DEF Fresh, NotSent, Went, FreshIn, Count
  <2>6. AtHand(l) => AtHand(l)'
    BY <2>1 DEF AtHand, NoneWaits, FreshIn, Count
  <2> QED
    BY <2>1, <2>3, <2>4, <2>5, <2>6
<1>3. CASE AtPacket /\ PackdisStep /\ UNCHANGED envVars
  <2>1. PacketStays
    <3>1. pc' # "line"
      BY DEF Unfiled
    <3> QED
      BY <3>1, <1>3, PacketGoes DEF PacketLeft, PacketSeen
  <2>2. Unfiled /\ ItemStep /\ (\A b \in Bases : disk'[b].top = disk[b].top)
    BY <1>3, <2>1, ItemSteps
  <2>3. q = Line.name /\ q = lines[job.line].name /\ UNCHANGED <<bundle, sent>>
    BY <2>1 DEF PacketStays, Line
  <2>4. /\ FreshOnDisk(l)
        /\ k > job.item \/ (pc = "item" /\ k = job.item) => Fresh(l)
        /\ pc # "item" /\ k = job.item => AtHand(l)
    BY <2>2, <2>3 DEF ItemsFresh, Items
  <2>5. /\ job.line \in DOMAIN lines /\ Todo(Line) /\ job.item \in Nat
        /\ DOMAIN Items = 1 .. Len(Items) /\ Len(Items) \in Nat
    BY <1>3, PacketFacts DEF AtPacket
  <2>6. k \in Nat
    BY <2>3, <2>5 DEF LettersAt, Items
  <2>7. ASSUME Fresh(l), pc # "hdr" \/ k # job.item PROVE Fresh(l)'
    <3>1. PICK i \in DOMAIN lines : i = job.line
      BY <2>5
    <3>2. Todo(lines[i]) /\ k \in LettersAt(lines[i].name) /\ l = Content[lines[i].name][k].of
      BY <3>1, <2>3, <2>5 DEF Line
    <3> QED
      BY <3>1, <3>2, <2>7, LetterFresh
  <2>8. FreshOnDisk(l)'
    BY <2>2, <2>3, <2>4, StepGrows, DiskStaysFresh
  <2>9. ASSUME k > job'.item \/ (pc' = "item" /\ k = job'.item) PROVE Fresh(l)'
    <3>1. k > job.item
      BY <2>2, <2>5, <2>6, <2>9 DEF ItemStep
    <3>2. k # job.item
      BY <3>1, <2>5, <2>6
    <3> QED
      BY <3>1, <3>2, <2>4, <2>7
  <2>10. ASSUME pc' # "item", k = job'.item PROVE AtHand(l)'
    <3>0. k = job.item /\ "loc" \in Bases /\ "msg" \in Bases
      BY <2>2, <2>10 DEF ItemStep, Bases
    <3>1. CASE pc = "item"
      <4>1. Fresh(l)'
        BY <3>0, <3>1, <2>4, <2>7
      <4> QED
        BY <4>1, <3>0 DEF Fresh, FreshIn, AtHand, NoneWaits
    <3>2. CASE HeadsKept /\ pc \in {"loc", "put"}
      <4>1. AtHand(l)
        BY <2>4, <3>0, <3>2
      <4>2. NoneWaits(l)' /\ FreshIn("loc", Count("loc"), l)'
        BY <4>1, <3>0, <3>2, KeptPlaces DEF AtHand
      <4>3. FreshIn("msg", Count("msg"), l) => FreshIn("msg", Count("msg"), l)'
        BY <3>0, <3>2, KeptPlaces
      <4>4. CASE pc = "loc"
        <5>1. w'.base = "loc"
          BY <4>4, <2>2 DEF ItemStep
        <5>2. l = Item.of
          BY <3>0, <2>3 DEF Item, Items
        <5>3. WantsMsg(l)
          BY <5>2, <4>4, <1>3, ItemAtHand DEF AtPacket
        <5> QED
          BY <5>1, <5>3, <4>2 DEF AtHand
      <4>5. CASE pc = "put"
        <5>1. w'.base = w.base
          BY <4>5, <2>2 DEF ItemStep
        <5> QED
          BY <5>1, <4>1, <4>2, <4>3, <4>5 DEF AtHand
      <4> QED
        BY <3>2, <4>4, <4>5
    <3>3. CASE pc = "hdr"
      <4>1. PackHeader /\ pc' = "loc" /\ w.base = "msg"
        BY <3>3, <2>2, <2>10 DEF ItemStep
      <4>2. AtHand(l)
        BY <2>4, <3>0, <3>3
      <4> QED
        BY <4>1, <4>2, <1>3, MsgFiled
    <3> QED
      BY <3>1, <3>2, <3>3, <2>2 DEF ItemStep
  <2> QED
    BY <2>8, <2>9, <2>10
<1> QED
  BY <1>1, <1>2, <1>3, InPacketStep

-----------------------------------------------------------------------------
(* The theorem.                                                            *)

LEMMA OnceAtFirst == Init => OnceInv
<1> SUFFICES ASSUME Init PROVE OnceInv
  OBVIOUS
<1>1. /\ pc = "idle" /\ job = NoJob /\ sent = {} /\ bundle = [x \in Links |-> <<>>]
      /\ disk = [b \in Bases |-> EmptyBase] /\ "loc" \in Bases /\ "msg" \in Bases
  BY DEF Init, BaseInit, Bases
<1>2. \A b \in Bases : Count(b) = 0
  BY <1>1 DEF Count, EmptyBase
<1>3. ~AtPacket /\ \A i : ~Copying(i)
  BY <1>1 DEF AtPacket, AtItem, Copying
<1>4. \A x \in Links : DOMAIN bundle[x] = {}
  BY <1>1
<1>5. ASSUME NEW l PROVE Fresh(l)
  BY <1>1, <1>2, <1>4 DEF Fresh, NotSent, Went, FreshIn
<1>6. PICK s \in Scenes : lines = s.lines /\ toEnter = s.enter
  BY DEF Init
<1>7. EnterOnce
  BY <1>6, OriginAssumption DEF EnterOnce
<1>8. LinesOnce
  <2> SUFFICES ASSUME NEW i \in DOMAIN lines, NEW j \in DOMAIN lines, Todo(lines[i]), Todo(lines[j]),
                      NEW k \in LettersAt(lines[i].name), NEW m \in LettersAt(lines[j].name),
                      Content[lines[i].name][k].of = Content[lines[j].name][m].of
               PROVE  i = j /\ k = m
    BY DEF LinesOnce
  <2>1. lines[i].st = " " /\ lines[j].st = " "
    BY Zenon DEF Todo
  <2> QED
    BY <2>1, <1>6, OriginAssumption, Zenon
<1>9. HeadsOnce /\ MsgLetters /\ Sources /\ CopyAlone
  BY <1>1, <1>2, <1>3 DEF HeadsOnce, MsgLetters, Sources, CopyAlone
<1>10. BundlesOnce /\ SentTexts
  BY <1>1, <1>4 DEF BundlesOnce, SentTexts
<1>11. NewsWaits /\ ItemsFresh /\ NoneFailed
  BY <1>1, <1>3 DEF NewsWaits, ItemsFresh, Unfiled, NoneFailed
<1>12. EnterFresh /\ LinesFresh
  BY <1>5 DEF EnterFresh, LinesFresh
<1> QED
  BY <1>7, <1>8, <1>9, <1>10, <1>11, <1>12 DEF OnceInv

LEMMA OnceKeeps == NetInv /\ PacketInv /\ MessageInv /\ EchoInv /\ OnceInv /\ [Next]_vars => OnceInv'
<1> SUFFICES ASSUME NetInv, PacketInv, MessageInv, EchoInv, OnceInv, [Next]_vars, Quiet'
             PROVE  /\ (HeadsOnce /\ BundlesOnce /\ SentTexts /\ MsgLetters /\ Sources /\ NewsWaits /\ CopyAlone)'
                    /\ (EnterOnce /\ EnterFresh /\ LinesOnce /\ LinesFresh /\ ItemsFresh /\ NoneFailed)'
  BY DEF OnceInv
<1>1. Quiet /\ ~WriteFault /\ ~Crash
  BY QuietGoes
<1>2. Marks /\ Bundles /\ AtMail /\ AtNews /\ EnterEcho
  BY <1>1 DEF MessageInv, EchoInv
<1>3. /\ HeadsOnce /\ BundlesOnce /\ SentTexts /\ MsgLetters /\ Sources /\ NewsWaits /\ CopyAlone
      /\ EnterOnce /\ EnterFresh /\ LinesOnce /\ LinesFresh /\ ItemsFresh /\ NoneFailed
  BY <1>1 DEF OnceInv
<1>4. MessagesOnce
  BY <1>3 DEF MessagesOnce
<1>5. MessagesOnce' /\ FreshStays
  BY <1>1, <1>2, <1>3, <1>4, MessagesStay
<1>6. BundlesOnce' /\ SentTexts'
  BY <1>2, <1>3, BundlesStay
<1>7. EnterOnce' /\ EnterFresh'
  BY <1>2, <1>3, <1>5, EnterStays
<1>8. LinesOnce' /\ LinesFresh'
  BY <1>1, <1>2, <1>3, <1>5, LinesStay
<1>9. ItemsFresh'
  BY <1>1, <1>2, <1>3, <1>5, ItemsStay
<1>10. NoneFailed'
  BY <1>1, <1>3, NoneFails
<1> QED
  BY <1>5, <1>6, <1>7, <1>8, <1>9, <1>10 DEF MessagesOnce

LEMMA OnceSound == OnceInv => OnceOnly
BY DEF OnceInv, Quiet, OnceOnly, HeadsOnce, BundlesOnce

\* No message is multiplied, whatever messages there are: as long as nothing fails and the
\* machine does not stop, no base holds a message twice, no bundle holds one twice and none
\* that was collected (a message is answered before it is marked, mailass1.c:120-151,
\* bbass1.c:142-196, and a packet is filed as a whole, packdis1.c:196-225); and whatever
\* fails, echomail that came in does not go out again: it is filed in msgtxt without the flags
\* that bbass looks for (packdis3.c:152-153).
THEOREM NothingIsTwice == Spec => []NothingTwice
<1>1. Init => NetInv /\ PacketInv /\ MessageInv /\ EchoInv /\ OnceInv
  BY InitSound, PacketsAtFirst, MessagesAtFirst, EchoAtFirst, OnceAtFirst
<1>2. NetInv /\ PacketInv /\ MessageInv /\ EchoInv /\ OnceInv /\ [Next]_vars
        => (NetInv /\ PacketInv /\ MessageInv /\ EchoInv /\ OnceInv)'
  BY StepKeeps, PacketsKept, MessagesKept, EchoKeeps, OnceKeeps
<1>3. EchoInv /\ OnceInv => NothingTwice
  BY EchoSound, OnceSound DEF NothingTwice
<1> QED
  BY <1>1, <1>2, <1>3, PTL DEF Spec
=============================================================================
