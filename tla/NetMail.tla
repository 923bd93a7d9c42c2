------------------------------ MODULE NetMail -------------------------------
(***************************************************************************)
(* The network mail of Zeta: packdis, mailass and bbass over the two       *)
(* message bases, one program at a time as the BBS runs them.  Users enter *)
(* messages and the links collect the bundles between two programs.  The   *)
(* machine may stop at any moment and be started again.                    *)
(***************************************************************************)
EXTENDS Packdis, Mailass, Bbass

CONSTANTS
  Scenes,     \* records with lines, what PACKETS is at first, and with enter,
              \* what users enter: records with the fields base and letter
  MaxCrashes  \* bound

\* PACKETS at first, before anything was filed: packets to be processed or in error, and
\* archives that are still there.  A name may be listed more than once.
ASSUME NetMailAssumption ==
  \A s \in Scenes :
    /\ s.lines \in Seq([st : {" ", "E", "A"}, name : STRING])
    /\ \A i \in DOMAIN s.lines : s.lines[i].st = "A" <=> s.lines[i].name \notin DOMAIN Content
    /\ s.enter \subseteq [base : Bases, letter : Letters]

\* A letter stands for one message, wherever it was written: it comes in one packet, at one
\* place, or one user enters it, once.
LettersAt(p) == {k \in DOMAIN Content[p] : IsLetter(Content[p][k])}
Carried(l) == \E p \in DOMAIN Content : \E k \in LettersAt(p) : Content[p][k].of = l
ASSUME OriginAssumption ==
  \A s \in Scenes :
    /\ \A i, j \in DOMAIN s.lines : s.lines[i].st = " " /\ s.lines[j].st = " " =>
         \A k \in LettersAt(s.lines[i].name), m \in LettersAt(s.lines[j].name) :
           Content[s.lines[i].name][k].of = Content[s.lines[j].name][m].of => i = j /\ k = m
    /\ \A e, f \in s.enter : e.letter = f.letter => e = f
    /\ \A e \in s.enter : ~Carried(e.letter)

VARIABLES
  toEnter,  \* what users still enter
  sent,     \* what the links have collected: pairs of link and text
  crashes   \* how often the machine has stopped

envVars == <<toEnter, sent, crashes>>
vars == <<baseVars, histVars, pc, job, packFiles, envVars>>

Init ==
  /\ BaseInit
  /\ \E s \in Scenes : lines = s.lines /\ toEnter = s.enter
  /\ there = {lines[i].name : i \in DOMAIN lines}
  /\ sent = {} /\ crashes = 0

\* A user enters a message, with the sectors that are free on the disk.
Enter(e) ==
  LET free == Sectors \ disk[e.base].used
      n == Size(Letter(e.letter))
      at[k \in 0 .. n] == IF k = 0 THEN 0
                          ELSE Min({s \in free : s > at[k - 1]})
      Put(s) == LET k == CHOOSE j \in 1 .. n : at[j] = s IN
                  Sector(Letter(e.letter), k, IF k = n THEN 0 ELSE at[k + 1])
      flags == IF e.base = "loc" THEN {"OUTGOING"} ELSE {"NEW"}
      old == disk[e.base]
      mine == {at[k] : k \in 1 .. n}
  IN /\ pc = "idle" /\ e \in toEnter /\ Cardinality(free) >= n
     /\ toEnter' = toEnter \ {e}
     /\ disk' = [disk EXCEPT ![e.base] =
          [used |-> old.used \cup mine, top |-> old.top + 1,
           hdr |-> SubSeq(old.hdr, 1, old.top)
                     \o <<[flags |-> flags, first |-> at[1],
                           text |-> Letter(e.letter)]>>
                     \o SubSeq(old.hdr, old.top + 2, Len(old.hdr)),
           txt |-> [s \in Sectors |-> IF s \in mine THEN Put(s)
                                      ELSE old.txt[s]]]]
     /\ UNCHANGED <<mem, w, bundle, faults, histVars, pc, job, packFiles, sent,
                    crashes>>

\* A link takes its bundle, and reads as far as it can.
Collect(x) ==
  /\ pc = "idle" /\ bundle[x] # <<>>
  /\ sent' = sent \cup ({x} \X Arriving(x))
  /\ bundle' = [bundle EXCEPT ![x] = <<>>]
  /\ UNCHANGED <<disk, mem, w, faults, histVars, pc, job, packFiles, toEnter,
                 crashes>>

\* What has been written stays, what the program knew is lost.
Crash ==
  /\ pc # "idle" /\ crashes < MaxCrashes
  /\ crashes' = crashes + 1
  /\ Gone
  /\ UNCHANGED <<disk, bundle, faults, histVars, packFiles, toEnter, sent>>

Start ==
  \/ \E r \in BOOLEAN : StartPackdis(r) /\ UNCHANGED envVars
  \/ StartMailass /\ UNCHANGED <<packFiles, envVars>>
  \/ StartBbass /\ UNCHANGED <<packFiles, envVars>>

Step ==
  \/ PackdisStep /\ UNCHANGED envVars
  \/ (MailassStep \/ BbassStep \/ Exit) /\ UNCHANGED <<packFiles, envVars>>

Next ==
  \/ Start \/ Step \/ Crash
  \/ \E e \in toEnter : Enter(e)
  \/ \E x \in Links : Collect(x)

Spec == Init /\ [][Next]_vars

\* A program that was started runs on, and mailass is started again and again,
\* whatever else is.
FairSpec ==
  /\ Spec /\ WF_vars(Step)
  /\ SF_vars(StartMailass /\ UNCHANGED <<packFiles, envVars>>)

-----------------------------------------------------------------------------
Calm == pc = "idle" /\ crashes = 0 /\ faults = 0

TypeOK ==
  /\ \A b \in Bases :
       /\ disk[b].used \subseteq Sectors /\ disk[b].top \in 0 .. Len(disk[b].hdr)
       /\ \A i \in DOMAIN disk[b].hdr :
            LET h == disk[b].hdr[i] IN
              h.flags \subseteq Flags /\ h.first \in Sectors /\ h.text \in Texts
       /\ mem.used[b] \subseteq Sectors /\ mem.top[b] \in Nat
  /\ w.rec \in Sectors \cup {0}
  /\ \A i \in DOMAIN lines : lines[i].st \in {" ", "-", "E", "A", "R"}

\* A message that somebody will still read, or a program process, can be read
\* as it was written, from sectors that are marked as used and that no other
\* such message has, wherever a crash came (msgfunc.c, packdis1.c:196-215,
\* mailass1.c:199-224, mailass2.c:308-346).  After a bitmap that was not
\* written this is lost: write_top follows all the same.
Wanted(b) == {i \in Live(b) : LET f == disk[b].hdr[i].flags IN
                                "PROCESSED" \notin f \/ "INCOMING" \in f}
ChainsKept ==
  ~unmapped => \A b \in Bases : \A i \in Wanted(b) :
    LET h == disk[b].hdr[i] IN
      /\ Readable(b, h) /\ Chain(b, h.first) \subseteq disk[b].used
      /\ \A j \in Wanted(b) \ {i} :
           Chain(b, h.first) \cap Chain(b, disk[b].hdr[j].first) = {}

\* Every sector marked as used belongs to a message, when no program failed.
NoLeak ==
  Calm /\ ~leaked => \A b \in Bases :
    disk[b].used = UNION {Chain(b, disk[b].hdr[i].first) : i \in Live(b)}

\* A packet that is gone, or marked as processed, has all its letters filed,
\* even if the machine stopped in between (packdis1.c:196-225).
Filed(l) ==
  /\ WantsMsg(l) => \E h \in Listed("msg") : h.text = Letter(l)
  /\ WantsLoc(l) => \E h \in Listed("loc") : h.text = Letter(l)
PacketsFiled ==
  \A i \in DOMAIN lines :
    /\ lines[i].name \in DOMAIN Content
    /\ lines[i].st = "-" \/ lines[i].name \notin there
    => \A k \in DOMAIN Content[lines[i].name] :
        IsLetter(Content[lines[i].name][k]) => Filed(Content[lines[i].name][k].of)

\* An archive is removed only when every packet that came from it is filed.  If a crash of
\* ankhmail has listed it twice, once is enough.
Group(i) == {j \in 1 .. i - 1 : \A k \in j .. i - 1 : lines[k].st \notin {"A", "R"}}
ArchiveKept ==
  \A i \in DOMAIN lines :
    lines[i].name \notin DOMAIN Content /\ lines[i].name \notin there =>
      \E n \in DOMAIN lines :
        lines[n].name = lines[i].name /\ \A j \in Group(n) : lines[j].st = "-"

\* A message marked as processed went where it should: to its link, to its
\* reader, or back (mailass1.c:120-151, bbass1.c:142-196).
OnItsWay(x, t) == <<x, t>> \in sent \/ t \in Arriving(x)
Delivered(t) == \E h \in Listed("loc") : h.text = t /\ "INCOMING" \in h.flags
Answered(t) ==
  CASE To(t) \in Links -> OnItsWay(To(t), t)
    [] To(t) = "user" -> Delivered(t)
    [] OTHER -> \E h \in Listed("loc") :
                  h.text.of = t.of /\ h.text.kind # "letter" /\ h.text # t
NothingLost ==
  Calm =>
    /\ \A h \in Listed("loc") : "PROCESSED" \in h.flags => Answered(h.text)
    /\ \A h \in Listed("msg") : "PROCESSED" \in h.flags =>
         /\ h.text.of.area \in Links => OnItsWay(h.text.of.area, h.text)
         /\ To(h.text) = "user" /\ ~uncopied => Delivered(h.text)

\* Nobody gets a message twice, and a bounced letter is answered once, also
\* while the program that files it still runs.
Count(b) == IF pc = "idle" THEN disk[b].top ELSE mem.top[b]
OnceOnly ==
  crashes = 0 /\ faults = 0 =>
    /\ \A b \in Bases : \A i, j \in 1 .. Count(b) :
         LET g == disk[b].hdr[i]  h == disk[b].hdr[j] IN
           g.text = h.text /\ ("INCOMING" \in g.flags <=> "INCOMING" \in h.flags)
             => i = j
    /\ \A x \in Links :
         /\ \A i, j \in DOMAIN bundle[x] : bundle[x][i] = bundle[x][j] => i = j
         /\ \A i \in DOMAIN bundle[x] : <<x, bundle[x][i]>> \notin sent

\* Echomail that came in does not go out again.
NoEcho ==
  \A p \in DOMAIN Content : \A k \in DOMAIN Content[p] :
    IsLetter(Content[p][k]) /\ WantsMsg(Content[p][k].of) =>
      \A x \in Links : ~OnItsWay(x, Letter(Content[p][k].of))

\* A message to be sent on is seen to, if there is room for an answer.
Waiting(i) ==
  i <= disk["loc"].top /\ LET f == disk["loc"].hdr[i].flags IN
    f \cap {"OUTGOING", "INTRANSIT"} # {} /\ f \cap {"PROCESSED", "DELETED"} = {}
NoSpace == Cardinality(Sectors \ disk["loc"].used) < NoticeSize
SeenTo ==
  \A i \in 1 .. 3 : Waiting(i) ~> (~Waiting(i) \/ NoSpace \/ crashes + faults > 0)

\* The message bases are sound after whatever packdis, bbass and mailass did, also when
\* they were stopped half way: messages are whole, and sectors have their owner.
BasesSound == TypeOK /\ ChainsKept /\ NoLeak

\* Nothing is removed or marked before it went where it should: neither packets, nor
\* archives, nor messages.
NothingDropped == PacketsFiled /\ ArchiveKept /\ NothingLost

\* Nothing is multiplied: no message twice, and none back to where it came from.
NothingTwice == OnceOnly /\ NoEcho
=============================================================================
