--------------------------- MODULE NetMailProofs ----------------------------
(***************************************************************************)
(* Proofs about the network mail, for any messages and packets, disks of   *)
(* any size, and any number of failed writes and crashes: the messages in  *)
(* the two bases stay whole, each in sectors of its own.                   *)
(***************************************************************************)
EXTENDS NetMail, SequenceTheorems, FiniteSetTheorems, WellFoundedInduction, TLAPS

-----------------------------------------------------------------------------
(* Chains of sectors, as functions of the text t of a base.                *)

N == NumSectors
SectorSet == [text : Texts \cup {NoText}, part : Nat, next : 0 .. N]

IsLinks(t, s, c) ==
  c = [k \in 0 .. N |-> IF k = 0 THEN s ELSE IF c[k - 1] = 0 THEN 0 ELSE t[c[k - 1]].next]

LinksIn(t, s) ==
  LET c[k \in 0 .. Cardinality(Sectors)] ==
        IF k = 0 THEN s ELSE IF c[k - 1] = 0 THEN 0 ELSE t[c[k - 1]].next
  IN c

\* The sectors of the chain, and of its first n links.
ChainIn(t, s) == {LinksIn(t, s)[k] : k \in 0 .. N} \ {0}
Begun(t, s, n) == {LinksIn(t, s)[k - 1] : k \in 1 .. n}

\* The text is there from sector s on.
Whole(t, s, text) ==
  LET c == LinksIn(t, s) IN
    /\ Size(text) \in 1 .. N
    /\ \A k \in 1 .. Size(text) : c[k - 1] # 0 /\ t[c[k - 1]] = Sector(text, k, c[k])
    /\ c[Size(text)] = 0

\* n sectors are claimed for the text, and all but the last, r, are written.
Building(t, s, text, r, n) ==
  LET c == LinksIn(t, s) IN
    /\ n \in 1 .. N /\ n <= Size(text) /\ c[n - 1] = r
    /\ \A k \in 1 .. n : c[k - 1] \in Sectors
    /\ \A j, k \in 1 .. n : c[j - 1] = c[k - 1] => j = k
    /\ \A k \in 1 .. n : k < n => t[c[k - 1]].text = text /\ t[c[k - 1]].part = k

\* The headers W have their messages, whole, in used, and without common sectors.
Apart(t, hdr, W, used) ==
  \A i \in W :
    /\ Whole(t, hdr[i].first, hdr[i].text) /\ ChainIn(t, hdr[i].first) \subseteq used
    /\ \A j \in W \ {i} : ChainIn(t, hdr[i].first) \cap ChainIn(t, hdr[j].first) = {}

\* Nothing else is used.
Exactly(t, hdr, W, used) == \A s \in used : \E i \in W : s \in ChainIn(t, hdr[i].first)

-----------------------------------------------------------------------------
(* Types, and where the programs are.                                      *)

Headers == [flags : SUBSET Flags, first : Sectors, text : Texts]
PackPcs == {"line", "item", "put", "hdr", "loc", "free", "top", "done", "status", "exit"}
MailPcs == {"scan", "act", "put", "hdr", "body", "proc", "del", "mark", "free", "top", "exit"}
BbPcs == {"scan", "act", "body", "proc", "local", "put", "hdr", "free", "top", "free2",
          "top2", "exit"}
IsPackJob(j) ==
  /\ DOMAIN j = {"prog", "line", "groupOk", "rFlag", "item", "rc", "base"} /\ j.prog = "packdis"
  /\ j.line \in Nat \ {0} /\ j.item \in Nat /\ j.base \in Bases
Todo(l) == l.st = " "
LineSet == [st : {" ", "-", "E", "A", "R"}, name : STRING]
ScanJobs == [prog : {"mailass", "bbass"}, this : Nat, text : Texts \cup {NoText}]

BaseSet == [used : SUBSET Sectors, top : Nat, hdr : Seq(Headers), txt : [Sectors -> SectorSet]]
Stores ==
  /\ disk \in [Bases -> BaseSet]
  /\ mem \in [used : [Bases -> SUBSET Sectors], top : [Bases -> Nat]]
  /\ w \in [base : Bases, text : Texts \cup {NoText}, first : 0 .. N, rec : 0 .. N, part : Nat]
Rest ==
  /\ faults \in Nat /\ crashes \in Nat
  /\ leaked \in BOOLEAN /\ unmapped \in BOOLEAN
  /\ lines \in Seq(LineSet)
  /\ \A i \in DOMAIN lines : Todo(lines[i]) => lines[i].name \in DOMAIN Content
  /\ toEnter \subseteq [base : Bases, letter : Letters]

\* The program that runs, and the packet or the message that it is at.
AtItem == {"item", "put", "hdr", "loc", "free", "top", "done", "status"}
AtOld == {"act", "put", "hdr", "body", "proc", "del", "mark", "local"}
Places ==
  \/ pc = "idle" /\ job = NoJob
  \/ /\ pc \in PackPcs /\ IsPackJob(job)
     /\ pc \in AtItem =>
          job.line \in DOMAIN lines /\ Line.name \in DOMAIN Content /\ job.item # 0
     /\ pc \in {"put", "hdr", "loc"} => job.item \in DOMAIN Items /\ IsLetter(Item)
  \/ /\ pc \in MailPcs /\ job \in ScanJobs /\ job.prog = "mailass"
     /\ pc = "scan" => job.this # 0
     /\ pc \in {"put", "hdr"} => w.base = "loc"
     /\ pc \in AtOld =>
          /\ job.this \in 1 .. mem.top["loc"] /\ job.text \in Texts
          /\ Old.flags \cap {"OUTGOING", "INTRANSIT"} # {} /\ "DELETED" \notin Old.flags
          /\ "PROCESSED" \in Old.flags <=> pc \in {"del", "mark"}
  \/ /\ pc \in BbPcs /\ job \in ScanJobs /\ job.prog = "bbass"
     /\ pc = "scan" => job.this # 0
     /\ pc \in {"put", "hdr"} => w.base = "loc"
     /\ pc \in AtOld => job.this \in 1 .. mem.top["msg"] /\ job.text \in Texts
     /\ mem.top["msg"] = disk["msg"].top /\ mem.used["msg"] = disk["msg"].used

Working == pc \in {"put", "hdr"}

\* The writer has its sectors, outside of what else is used.
Mine(b) == IF Working /\ b = w.base THEN Begun(disk[b].txt, w.first, w.part) ELSE {}
Writing ==
  LET t == disk[w.base].txt IN
  Working =>
    /\ w.text \in Texts /\ Building(t, w.first, w.text, w.rec, w.part)
    /\ Mine(w.base) \subseteq mem.used[w.base]
    /\ pc = "hdr" \/ w.part > 1 => t[w.first].text \in Texts
    /\ pc = "hdr" => /\ Whole(t, w.first, w.text)
                     /\ ChainIn(t, w.first) = Mine(w.base)

Headed ==
  \A b \in Bases :
    /\ disk[b].top <= Count(b) /\ Count(b) <= Len(disk[b].hdr)
    /\ \A i \in DOMAIN disk[b].hdr : LET h == disk[b].hdr[i] IN
         /\ disk[b].txt[h.first].text \in Texts
         /\ "INCOMING" \in h.flags => h.flags \cap {"OUTGOING", "INTRANSIT"} = {}

-----------------------------------------------------------------------------
(* Which messages have their sectors.                                      *)

Quiet == crashes = 0 /\ faults = 0

\* Those in msgtxt that are not deleted.  In loctxt one that is processed may have lost
\* its sectors, but when all went well only the one that is at work has.
Kept(b, i) ==
  LET f == disk[b].hdr[i].flags IN
    /\ "DELETED" \notin f
    /\ \/ b = "msg" \/ "PROCESSED" \notin f \/ "INCOMING" \in f
       \/ pc = "del" /\ i = job.this
       \/ Quiet /\ ~(pc = "mark" /\ i = job.this)
Has(b) == {i \in 1 .. Count(b) : Kept(b, i)}
HasOnDisk(b) == {i \in 1 .. disk[b].top : Kept(b, i)}

Separate ==
  ~unmapped => \A b \in Bases :
    LET d == disk[b] IN
      /\ Apart(d.txt, d.hdr, HasOnDisk(b), d.used)
      /\ pc # "idle" => Apart(d.txt, d.hdr, Has(b), mem.used[b] \ Mine(b))

\* The bitmap of the base is written, its top not yet.
BitmapFirst(b) ==
  \/ pc = "top" /\ job.prog = "packdis" /\ b = job.base
  \/ pc = "top" /\ job.prog # "packdis" /\ b = "loc"
Bitmaps ==
  /\ unmapped => faults > 0
  /\ ~unmapped => \A b \in Bases : BitmapFirst(b) => disk[b].used = mem.used[b]

\* When all went well no sector is lost in the program's bitmap, and none on the disk
\* but while the program still has changes to write.
Settled(b) ==
  \/ pc = "idle" \/ pc = "exit"
  \/ job.prog = "packdis" /\ ~BitmapFirst(b)
  \/ job.prog # "packdis" /\ (b = "msg" \/ pc \in {"free2", "top2"})
NoneLost ==
  Quiet /\ ~leaked => \A b \in Bases :
    LET d == disk[b] IN
      /\ Settled(b) => Exactly(d.txt, d.hdr, HasOnDisk(b), d.used)
      /\ pc # "idle" => Exactly(d.txt, d.hdr, Has(b), mem.used[b] \ Mine(b))

NetInv == Stores /\ Rest /\ Places /\ Writing /\ Headed /\ Separate /\ Bitmaps /\ NoneLost

-----------------------------------------------------------------------------
(* Lemmas: what a chain is.                                                *)

\* A set of numbers with 0, and with the next of each up to n, has all up to n.
LEMMA UpToN ==
  ASSUME NEW n \in Nat, NEW T, 0 \in T, \A k \in 0 .. n - 1 : k \in T => k + 1 \in T
  PROVE  0 .. n \subseteq T
<1> DEFINE Out == {k \in 0 .. n : k \notin T}
<1> SUFFICES ASSUME Out # {} PROVE FALSE
  OBVIOUS
<1>1. Out \subseteq Nat
  OBVIOUS
<1>2. PICK m \in Out : \A k \in Out : <<k, m>> \notin OpToRel(<, Nat)
  BY <1>1, NatLessThanWellFounded, WFMin, Zenon
<1>3. m # 0 /\ m \in 0 .. n
  OBVIOUS
<1>4. m - 1 \notin Out
  <2>1. m - 1 \in Nat /\ m \in Nat /\ m - 1 < m
    BY <1>3
  <2>2. <<m - 1, m>> \in OpToRel(<, Nat)
    BY <2>1 DEF OpToRel
  <2> QED BY <2>2, <1>2
<1>5. m - 1 \in 0 .. n - 1 /\ m - 1 \in 0 .. n
  BY <1>3
<1>6. m - 1 \in T
  BY <1>4, <1>5
<1>7. m - 1 + 1 = m
  BY <1>3
<1> QED
  BY <1>5, <1>6, <1>7

LEMMA SectorCount == N \in Nat \ {0} /\ Cardinality(Sectors) = N /\ IsFiniteSet(Sectors)
<1>1. N \in Nat \ {0}
  BY MsgBaseAssumption DEF N
<1> QED
  BY <1>1, FS_Interval DEF N, Sectors

LEMMA LinksExist ==
  ASSUME NEW t \in [Sectors -> SectorSet], NEW s \in 0 .. N
  PROVE  IsLinks(t, s, LinksIn(t, s)) /\ LinksIn(t, s) \in [0 .. N -> 0 .. N]
<1> DEFINE Val(f, k) == IF k = 0 THEN s ELSE IF f[k - 1] = 0 THEN 0 ELSE t[f[k - 1]].next
           Can == {m \in 0 .. N : \E f \in [0 .. m -> 0 .. N] : \A k \in 0 .. m : f[k] = Val(f, k)}
<1>0. /\ N \in Nat \ {0} /\ Sectors = 1 .. N /\ Cardinality(Sectors) = N
      /\ 0 \in 0 .. N /\ N \in 0 .. N
  BY SectorCount DEF N, Sectors
<1>1. \A x \in Sectors : t[x].next \in 0 .. N
  BY DEF SectorSet
<1>2. 0 \in Can
  <2>1. \A k \in 0 .. 0 : k = 0
    OBVIOUS
  <2> DEFINE f == [k \in 0 .. 0 |-> s]
  <2>2. f \in [0 .. 0 -> 0 .. N] /\ \A k \in 0 .. 0 : f[k] = Val(f, k)
    BY <2>1
  <2>3. \E x \in [0 .. 0 -> 0 .. N] : \A k \in 0 .. 0 : x[k] = Val(x, k)
    BY <2>2
  <2> QED
    BY <2>3, <1>0
<1>3. ASSUME NEW m \in 0 .. N - 1, m \in Can PROVE m + 1 \in Can
  <2>1. PICK f \in [0 .. m -> 0 .. N] : \A k \in 0 .. m : f[k] = Val(f, k)
    BY <1>3
  <2> DEFINE g == [k \in 0 .. m + 1 |-> IF k = m + 1 THEN IF f[m] = 0 THEN 0 ELSE t[f[m]].next
                                        ELSE f[k]]
  <2>2. g \in [0 .. m + 1 -> 0 .. N]
    BY <1>0, <1>1
  <2>3. \A k \in 0 .. m + 1 : g[k] = Val(g, k)
    <3> SUFFICES ASSUME NEW k \in 0 .. m + 1 PROVE g[k] = Val(g, k)
      OBVIOUS
    <3>1. CASE k = m + 1
      BY <3>1
    <3>2. CASE k # m + 1
      <4>1. k \in 0 .. m /\ (k # 0 => k - 1 \in 0 .. m /\ k - 1 \in 0 .. m + 1 /\ k - 1 # m + 1)
        BY <3>2
      <4>2. g[k] = f[k] /\ (k # 0 => g[k - 1] = f[k - 1])
        BY <4>1
      <4> QED
        BY <4>1, <4>2, <2>1
    <3> QED
      BY <3>1, <3>2
  <2>4. m + 1 \in 0 .. N
    BY <1>0
  <2> QED
    BY <2>2, <2>3, <2>4
<1>4. N \in Can
  <2>1. \A m \in 0 .. N - 1 : m \in Can => m + 1 \in Can
    BY <1>3
  <2> HIDE DEF Can
  <2>2. 0 .. N \subseteq Can
    BY <1>0, <1>2, <2>1, UpToN
  <2> QED
    BY <2>2, <1>0
<1>5. PICK f \in [0 .. N -> 0 .. N] : \A k \in 0 .. N : f[k] = Val(f, k)
  BY <1>4
<1>6. f = [k \in 0 .. N |-> Val(f, k)]
  BY <1>5
<1>7. IsLinks(t, s, LinksIn(t, s))
  BY <1>6, <1>0 DEF IsLinks, LinksIn
<1>8. LinksIn(t, s) \in [0 .. N -> 0 .. N]
  <2> DEFINE c == LinksIn(t, s)
             In == {m \in 0 .. N : c[m] \in 0 .. N}
  <2>1. c = [k \in 0 .. N |-> IF k = 0 THEN s ELSE IF c[k - 1] = 0 THEN 0 ELSE t[c[k - 1]].next]
    BY <1>7 DEF IsLinks
  <2> HIDE DEF c
  <2>2. \A k \in 0 .. N : c[k] = Val(c, k)
    BY <2>1
  <2>3. 0 \in In
    <3>1. c[0] = s
      BY <2>2, <1>0
    <3> QED
      BY <3>1, <1>0
  <2>4. ASSUME NEW m \in 0 .. N - 1, m \in In PROVE m + 1 \in In
    <3>1. m + 1 \in 0 .. N /\ m + 1 # 0 /\ m + 1 - 1 = m
      BY <1>0
    <3>2. c[m + 1] = IF c[m] = 0 THEN 0 ELSE t[c[m]].next
      BY <3>1, <2>2
    <3>3. c[m] \in 0 .. N
      BY <2>4
    <3>4. c[m] # 0 => c[m] \in Sectors
      BY <3>3, <1>0
    <3> QED
      BY <3>1, <3>2, <3>3, <3>4, <1>0, <1>1
  <2>5. 0 .. N \subseteq In
    BY <1>0, <2>3, <2>4, UpToN
  <2>6. \A k \in 0 .. N : c[k] \in 0 .. N
    BY <2>5
  <2> QED
    BY <2>1, <2>6 DEF c
<1> QED
  BY <1>7, <1>8

LEMMA LinksSteps ==
  ASSUME NEW t \in [Sectors -> SectorSet], NEW s \in 0 .. N
  PROVE  LET c == LinksIn(t, s) IN
           /\ c[0] = s
           /\ \A k \in 0 .. N : c[k] \in 0 .. N /\ (c[k] # 0 => c[k] \in Sectors)
           /\ \A k \in 1 .. N : c[k] = IF c[k - 1] = 0 THEN 0 ELSE t[c[k - 1]].next
<1> DEFINE c == LinksIn(t, s)
<1>0. N \in Nat \ {0} /\ Sectors = 1 .. N
  BY SectorCount DEF N, Sectors
<1>1. c \in [0 .. N -> 0 .. N]
  BY LinksExist
<1>2. c = [k \in 0 .. N |-> IF k = 0 THEN s ELSE IF c[k - 1] = 0 THEN 0 ELSE t[c[k - 1]].next]
  BY LinksExist DEF IsLinks
<1> HIDE DEF c
<1>3. \A k \in 0 .. N : c[k] = IF k = 0 THEN s
                              ELSE IF c[k - 1] = 0 THEN 0 ELSE t[c[k - 1]].next
  BY <1>2
<1>4. \A k \in 1 .. N : c[k] = IF c[k - 1] = 0 THEN 0 ELSE t[c[k - 1]].next
  BY <1>3, <1>0
<1>5. c[0] = s
  BY <1>3, <1>0
<1>6. \A k \in 0 .. N : c[k] \in 0 .. N /\ (c[k] # 0 => c[k] \in Sectors)
  BY <1>1, <1>0
<1> QED
  BY <1>4, <1>5, <1>6 DEF c

\* As far as two texts have the same links they have the same chain.
LEMMA SameLinks ==
  ASSUME NEW t \in [Sectors -> SectorSet], NEW u \in [Sectors -> SectorSet], NEW s \in 0 .. N,
         NEW m \in 0 .. N,
         \A k \in 0 .. N : k < m /\ LinksIn(t, s)[k] # 0 =>
            u[LinksIn(t, s)[k]].next = t[LinksIn(t, s)[k]].next
  PROVE  \A k \in 0 .. N : k <= m => LinksIn(u, s)[k] = LinksIn(t, s)[k]
<1> DEFINE c == LinksIn(t, s)
           d == LinksIn(u, s)
           Same == {k \in 0 .. m : d[k] = c[k]}
<1>0. N \in Nat \ {0}
  BY SectorCount
<1>1. c[0] = s /\ \A k \in 1 .. N : c[k] = IF c[k - 1] = 0 THEN 0 ELSE t[c[k - 1]].next
  BY LinksSteps
<1>2. d[0] = s /\ \A k \in 1 .. N : d[k] = IF d[k - 1] = 0 THEN 0 ELSE u[d[k - 1]].next
  BY LinksSteps
<1>3. \A k \in 0 .. N : k < m /\ c[k] # 0 => u[c[k]].next = t[c[k]].next
  OBVIOUS
<1> HIDE DEF c, d
<1>4. 0 \in Same
  BY <1>1, <1>2, <1>0
<1>5. ASSUME NEW k \in 0 .. m - 1, k \in Same PROVE k + 1 \in Same
  <2>1. k + 1 \in 1 .. N /\ k + 1 \in 0 .. m /\ k + 1 - 1 = k /\ k \in 0 .. N /\ k < m
    BY <1>0
  <2>2. c[k + 1] = IF c[k] = 0 THEN 0 ELSE t[c[k]].next
    BY <2>1, <1>1
  <2>3. d[k + 1] = IF d[k] = 0 THEN 0 ELSE u[d[k]].next
    BY <2>1, <1>2
  <2>4. d[k] = c[k]
    BY <1>5
  <2> QED
    BY <2>1, <2>2, <2>3, <2>4, <1>3
<1>6. m \in Nat /\ \A k \in 0 .. m - 1 : k \in Same => k + 1 \in Same
  BY <1>5, <1>0
<1> HIDE DEF Same
<1>7. 0 .. m \subseteq Same
  BY <1>4, <1>6, UpToN
<1> USE DEF Same
<1>8. \A k \in 0 .. N : k <= m => d[k] = c[k]
  BY <1>7
<1> QED
  BY <1>8 DEF c, d

LEMMA LinksEnd ==
  ASSUME NEW t \in [Sectors -> SectorSet], NEW s \in 0 .. N, NEW m \in 0 .. N,
         LinksIn(t, s)[m] = 0
  PROVE  \A k \in m .. N : LinksIn(t, s)[k] = 0
<1> DEFINE c == LinksIn(t, s)
           Zero == {k \in 0 .. N : k >= m => c[k] = 0}
<1>0. N \in Nat \ {0}
  BY SectorCount
<1>1. c[m] = 0 /\ \A k \in 1 .. N : c[k] = IF c[k - 1] = 0 THEN 0 ELSE t[c[k - 1]].next
  BY LinksSteps
<1> HIDE DEF c
<1>2. 0 \in Zero
  BY <1>1, <1>0
<1>3. \A k \in 0 .. N - 1 : k \in Zero => k + 1 \in Zero
  <2> SUFFICES ASSUME NEW k \in 0 .. N - 1, k \in Zero PROVE k + 1 \in Zero
    OBVIOUS
  <2>1. k + 1 \in 1 .. N /\ k + 1 - 1 = k /\ k + 1 \in 0 .. N /\ k \in Nat /\ m \in Nat
    BY <1>0
  <2>2. c[k + 1] = IF c[k] = 0 THEN 0 ELSE t[c[k]].next
    BY <2>1, <1>1
  <2>3. k + 1 >= m => k + 1 = m \/ k >= m
    BY <2>1
  <2> QED
    BY <2>1, <2>2, <2>3, <1>1
<1> HIDE DEF Zero
<1>4. 0 .. N \subseteq Zero
  BY <1>0, <1>2, <1>3, UpToN
<1> USE DEF Zero
<1>5. ASSUME NEW k \in m .. N PROVE c[k] = 0
  <2>1. k \in 0 .. N /\ k >= m
    BY <1>0
  <2> QED
    BY <2>1, <1>4
<1> QED
  BY <1>5 DEF c

\* Writing to sectors that are not in a chain leaves it as it is.
LEMMA SameChain ==
  ASSUME NEW t \in [Sectors -> SectorSet], NEW u \in [Sectors -> SectorSet], NEW s \in Sectors,
         \A x \in ChainIn(t, s) : u[x] = t[x]
  PROVE  /\ ChainIn(u, s) = ChainIn(t, s)
         /\ \A text : Whole(t, s, text) => Whole(u, s, text)
<1> DEFINE c == LinksIn(t, s)
           d == LinksIn(u, s)
<1>0. N \in Nat \ {0} /\ s \in 0 .. N /\ N \in 0 .. N
  BY SectorCount DEF Sectors, N
<1>1. \A k \in 0 .. N : c[k] # 0 => u[c[k]] = t[c[k]]
  BY DEF ChainIn
<1>3. \A k \in 0 .. N : k < N /\ c[k] # 0 => u[c[k]].next = t[c[k]].next
  BY <1>1
<1>4. \A k \in 0 .. N : d[k] = c[k]
  <2>1. \A k \in 0 .. N : k <= N => d[k] = c[k]
    BY <1>0, <1>3, SameLinks
  <2> QED
    BY <2>1, <1>0
<1>5. ChainIn(u, s) = ChainIn(t, s)
  BY <1>4 DEF ChainIn
<1>6. ASSUME NEW text, Whole(t, s, text) PROVE Whole(u, s, text)
  <2>1. /\ Size(text) \in 1 .. N
        /\ \A k \in 1 .. Size(text) : c[k - 1] # 0 /\ t[c[k - 1]] = Sector(text, k, c[k])
        /\ c[Size(text)] = 0
    BY <1>6 DEF Whole
  <2>2. Size(text) \in 0 .. N /\ \A k \in 1 .. Size(text) : k \in 0 .. N /\ k - 1 \in 0 .. N
    BY <2>1, <1>0
  <2> HIDE DEF c, d
  <2>3. \A k \in 1 .. Size(text) : d[k - 1] # 0 /\ u[d[k - 1]] = Sector(text, k, d[k])
    <3> SUFFICES ASSUME NEW k \in 1 .. Size(text)
                 PROVE  d[k - 1] # 0 /\ u[d[k - 1]] = Sector(text, k, d[k])
      OBVIOUS
    <3>1. d[k - 1] = c[k - 1] /\ d[k] = c[k]
      BY <2>2, <1>4
    <3>2. c[k - 1] # 0 /\ t[c[k - 1]] = Sector(text, k, c[k])
      BY <2>1
    <3>3. u[c[k - 1]] = t[c[k - 1]]
      BY <3>2, <2>2, <1>1
    <3> QED
      BY <3>1, <3>2, <3>3
  <2>4. d[Size(text)] = 0
    BY <2>1, <2>2, <1>4
  <2> QED
    BY <2>1, <2>3, <2>4 DEF Whole, d
<1> QED
  BY <1>5, <1>6

-----------------------------------------------------------------------------
(* Lemmas: a text is written sector by sector.                             *)

LEMMA BuildingStarts ==
  ASSUME NEW t \in [Sectors -> SectorSet], NEW s \in Sectors, NEW text,
         Size(text) \in Nat \ {0}
  PROVE  Building(t, s, text, s, 1) /\ Begun(t, s, 1) = {s}
<1>0. N \in Nat \ {0} /\ s \in 0 .. N
  BY SectorCount DEF Sectors, N
<1>1. LinksIn(t, s)[0] = s
  BY <1>0, LinksSteps
<1>2. 1 .. 1 = {1} /\ 1 \in 1 .. N /\ 1 <= Size(text) /\ 1 - 1 = 0
  BY <1>0
<1> QED
  BY <1>1, <1>2 DEF Building, Begun

\* A chain of n different sectors is no longer than the disk, and with another one that
\* is free there is room for n + 1.
LEMMA BuildingFits ==
  ASSUME NEW t, NEW s, NEW text, NEW r, NEW n, Building(t, s, text, r, n),
         NEW x \in Sectors, x \notin Begun(t, s, n)
  PROVE  n + 1 \in 1 .. N
<1> DEFINE c == LinksIn(t, s)
           f == [k \in 1 .. n |-> c[k - 1]]
           Others == Sectors \ {x}
<1>0. N \in Nat \ {0} /\ n \in 1 .. N
  BY SectorCount DEF Building
<1>2. \A k \in 1 .. n : c[k - 1] \in Others
  BY DEF Building, Begun
<1>3. \A j, k \in 1 .. n : c[j - 1] = c[k - 1] => j = k
  BY DEF Building
<1> HIDE DEF c, Others
<1>4. f \in [1 .. n -> Others]
  BY <1>2
<1>5. \A j, k \in 1 .. n : f[j] = f[k] => j = k
  BY <1>3
<1>6. f \in Injection(1 .. n, Others)
  BY <1>4, <1>5 DEF Injection, IsInjective
<1>7. IsFiniteSet(Others) /\ Cardinality(Others) = N - 1
  BY SectorCount, FS_RemoveElement DEF Others
<1>8. Cardinality(1 .. n) <= N - 1
  BY <1>6, <1>7, FS_Injection
<1>9. Cardinality(1 .. n) = n
  BY <1>0, FS_Interval
<1> QED
  BY <1>0, <1>8, <1>9

\* PutLink: a sector is written with the number of the next one.
LEMMA BuildingGoesOn ==
  ASSUME NEW t \in [Sectors -> SectorSet], NEW s \in Sectors, NEW text \in Texts, NEW r, NEW n,
         Building(t, s, text, r, n), n < Size(text), Size(text) \in Nat,
         NEW x \in Sectors, x \notin Begun(t, s, n),
         NEW u \in [Sectors -> SectorSet], u[r] = Sector(text, n, x),
         \A y \in Sectors : y # r => u[y] = t[y]
  PROVE  /\ Building(u, s, text, x, n + 1)
         /\ Begun(u, s, n + 1) = Begun(t, s, n) \cup {x}
         /\ \A y \in Sectors \ Begun(t, s, n) : u[y] = t[y]
         /\ u[s].text \in Texts
<1> DEFINE c == LinksIn(t, s)
           d == LinksIn(u, s)
<1>0. /\ N \in Nat \ {0} /\ Sectors = 1 .. N /\ s \in 0 .. N
      /\ n \in 1 .. N /\ n + 1 \in 1 .. N /\ n - 1 \in 0 .. N /\ n \in 1 .. n
  <2>1. N \in Nat \ {0} /\ Sectors = 1 .. N
    BY SectorCount DEF Sectors, N
  <2>2. n + 1 \in 1 .. N
    BY BuildingFits
  <2>3. n \in 1 .. N
    BY DEF Building
  <2> QED
    BY <2>1, <2>2, <2>3
<1>1. /\ c[n - 1] = r /\ \A k \in 1 .. n : c[k - 1] \in Sectors
      /\ \A j, k \in 1 .. n : c[j - 1] = c[k - 1] => j = k
      /\ \A k \in 1 .. n : k < n => t[c[k - 1]].text = text /\ t[c[k - 1]].part = k
      /\ Begun(t, s, n) = {c[k - 1] : k \in 1 .. n}
  BY DEF Building, Begun
<1>3. r \in Sectors /\ r \in Begun(t, s, n)
  BY <1>0, <1>1
<1>6. u[r] = Sector(text, n, x) /\ \A y \in Sectors : y # r => u[y] = t[y]
  OBVIOUS
<1>7. /\ d[0] = s
      /\ \A k \in 1 .. N : d[k] = IF d[k - 1] = 0 THEN 0 ELSE u[d[k - 1]].next
  BY <1>0, LinksSteps
<1>8. \A k \in 1 .. n : d[k - 1] = c[k - 1]
  <2>0. PICK m \in 0 .. N : m = n - 1
    BY <1>0
  <2>1. \A k \in 0 .. N : k < m /\ c[k] # 0 => u[c[k]].next = t[c[k]].next
    <3> SUFFICES ASSUME NEW k \in 0 .. N, k < m PROVE u[c[k]] = t[c[k]]
      OBVIOUS
    <3> HIDE DEF c
    <3>1. k + 1 \in 1 .. n /\ k + 1 # n /\ k + 1 - 1 = k
      BY <2>0, <1>0
    <3>2. c[k + 1 - 1] # c[n - 1] /\ c[k + 1 - 1] \in Sectors
      <4>1. n \in 1 .. n
        BY <1>0
      <4> QED
        BY <3>1, <4>1, <1>1
    <3>3. c[k] # r /\ c[k] \in Sectors
      BY <3>1, <3>2, <1>1
    <3> QED
      BY <3>3, <1>6
  <2>2. \A k \in 0 .. N : k <= m => d[k] = c[k]
    <3>1. s \in 0 .. N
      BY <1>0
    <3> QED
      BY <3>1, <2>1, SameLinks
  <2> HIDE DEF c, d
  <2> QED
    BY <2>0, <2>2, <1>0
<1> HIDE DEF c, d
<1>9. d[n] = x
  <2>1. d[n - 1] = r
    BY <1>8, <1>1, <1>0
  <2>2. r # 0
    BY <1>3, <1>0
  <2>3. d[n] = u[r].next
    BY <2>1, <2>2, <1>7, <1>0
  <2> QED
    BY <2>3, <1>6 DEF Sector
<1>10. \A k \in 1 .. n + 1 : (k = n + 1 /\ k - 1 = n) \/ k \in 1 .. n
  BY <1>0
<1>11. n + 1 - 1 = n /\ n + 1 \in 1 .. n + 1 /\ \A k \in 1 .. n : k \in 1 .. n + 1
  BY <1>0
<1>12. Begun(u, s, n + 1) = Begun(t, s, n) \cup {x}
  <2>1. Begun(u, s, n + 1) = {d[k - 1] : k \in 1 .. n + 1}
    BY DEF Begun, d
  <2>2. {d[k - 1] : k \in 1 .. n + 1} = {c[k - 1] : k \in 1 .. n} \cup {x}
    <3>1. \A k \in 1 .. n + 1 : d[k - 1] \in {c[i - 1] : i \in 1 .. n} \cup {x}
      BY <1>8, <1>9, <1>10
    <3>2. \A k \in 1 .. n : c[k - 1] \in {d[i - 1] : i \in 1 .. n + 1}
      BY <1>8, <1>11
    <3>3. x \in {d[i - 1] : i \in 1 .. n + 1}
      <4>1. PICK j \in 1 .. n + 1 : j = n + 1
        BY <1>11
      <4>2. j - 1 = n
        BY <4>1, <1>0
      <4>3. x = d[j - 1]
        BY <4>2, <1>9
      <4> QED
        BY <4>3
    <3> QED
      BY <3>1, <3>2, <3>3
  <2> QED
    BY <2>1, <2>2, <1>1
<1>13. \A k \in 1 .. n + 1 : d[k - 1] \in Sectors
  BY <1>8, <1>9, <1>10, <1>1
<1>14. \A j, k \in 1 .. n + 1 : d[j - 1] = d[k - 1] => j = k
  <2>1. \A i \in 1 .. n : d[i - 1] # x
    BY <1>8, <1>1
  <2> QED
    BY <2>1, <1>8, <1>9, <1>10, <1>1
<1>15. \A k \in 1 .. n : u[d[k - 1]].text = text /\ u[d[k - 1]].part = k
  <2> SUFFICES ASSUME NEW k \in 1 .. n
               PROVE  u[d[k - 1]].text = text /\ u[d[k - 1]].part = k
    OBVIOUS
  <2>1. d[k - 1] = c[k - 1]
    BY <1>8
  <2>2. CASE k = n
    <3>1. d[k - 1] = r
      BY <2>1, <2>2, <1>1
    <3> QED
      BY <3>1, <2>2, <1>6 DEF Sector
  <2>3. CASE k # n
    <3>1. c[k - 1] # r /\ c[k - 1] \in Sectors
      BY <2>3, <1>1, <1>0
    <3>2. k < n
      BY <2>3, <1>0
    <3> QED
      BY <3>1, <3>2, <2>1, <1>1, <1>6
  <2> QED
    BY <2>2, <2>3
<1>16. n + 1 <= Size(text)
  BY <1>0
<1>17. Building(u, s, text, x, n + 1)
  <2>1. \A k \in 1 .. n + 1 : k < n + 1 => u[d[k - 1]].text = text /\ u[d[k - 1]].part = k
    BY <1>15, <1>10, <1>0
  <2>2. d[n + 1 - 1] = x
    BY <1>9, <1>11
  <2> QED
    BY <2>1, <2>2, <1>0, <1>13, <1>14, <1>16 DEF Building, d
<1>18. \A y \in Sectors \ Begun(t, s, n) : u[y] = t[y]
  BY <1>3, <1>6
<1>19. u[s].text \in Texts
  <2>1. 1 \in 1 .. n /\ 1 - 1 = 0
    BY <1>0
  <2> QED
    BY <2>1, <1>15, <1>7
<1> QED
  BY <1>12, <1>17, <1>18, <1>19

\* Flush: the last sector is written.
LEMMA BuildingEnds ==
  ASSUME NEW t \in [Sectors -> SectorSet], NEW s \in Sectors, NEW text \in Texts, NEW r, NEW n,
         Building(t, s, text, r, n), n = Size(text),
         NEW u \in [Sectors -> SectorSet], u[r] = Sector(text, n, 0),
         \A y \in Sectors : y # r => u[y] = t[y]
  PROVE  /\ Building(u, s, text, r, n)
         /\ Begun(u, s, n) = Begun(t, s, n)
         /\ Whole(u, s, text) /\ ChainIn(u, s) = Begun(u, s, n)
         /\ \A y \in Sectors \ Begun(t, s, n) : u[y] = t[y]
         /\ u[s].text \in Texts
<1> DEFINE c == LinksIn(t, s)
           d == LinksIn(u, s)
<1>0. /\ N \in Nat \ {0} /\ Sectors = 1 .. N /\ s \in 0 .. N
      /\ n \in 1 .. N /\ n - 1 \in 0 .. N /\ n \in 1 .. n /\ n \in 0 .. N
  <2>1. N \in Nat \ {0} /\ Sectors = 1 .. N
    BY SectorCount DEF Sectors, N
  <2>2. n \in 1 .. N
    BY DEF Building
  <2> QED
    BY <2>1, <2>2
<1>00. s \in 0 .. N
  BY <1>0
<1>1. /\ c[n - 1] = r /\ \A k \in 1 .. n : c[k - 1] \in Sectors
      /\ \A j, k \in 1 .. n : c[j - 1] = c[k - 1] => j = k
      /\ \A k \in 1 .. n : k < n => t[c[k - 1]].text = text /\ t[c[k - 1]].part = k
      /\ Begun(t, s, n) = {c[k - 1] : k \in 1 .. n} /\ n <= Size(text)
  BY DEF Building, Begun
<1>3. r \in Sectors /\ r \in Begun(t, s, n)
  BY <1>0, <1>1
<1>6. u[r] = Sector(text, n, 0) /\ \A y \in Sectors : y # r => u[y] = t[y]
  OBVIOUS
<1>7. /\ d[0] = s
      /\ \A k \in 1 .. N : d[k] = IF d[k - 1] = 0 THEN 0 ELSE u[d[k - 1]].next
      /\ \A k \in 0 .. N : d[k] \in 0 .. N
  BY <1>00, LinksSteps
<1>8. \A k \in 1 .. n : d[k - 1] = c[k - 1]
  <2>0. PICK m \in 0 .. N : m = n - 1
    BY <1>0
  <2>1. \A k \in 0 .. N : k < m /\ c[k] # 0 => u[c[k]].next = t[c[k]].next
    <3> SUFFICES ASSUME NEW k \in 0 .. N, k < m PROVE u[c[k]] = t[c[k]]
      OBVIOUS
    <3> HIDE DEF c
    <3>1. k + 1 \in 1 .. n /\ k + 1 # n /\ k + 1 - 1 = k
      BY <2>0, <1>0
    <3>2. c[k + 1 - 1] # c[n - 1] /\ c[k + 1 - 1] \in Sectors
      <4>1. n \in 1 .. n
        BY <1>0
      <4> QED
        BY <3>1, <4>1, <1>1
    <3>3. c[k] # r /\ c[k] \in Sectors
      BY <3>1, <3>2, <1>1
    <3> QED
      BY <3>3, <1>6
  <2>2. \A k \in 0 .. N : k <= m => d[k] = c[k]
    BY <1>00, <2>1, SameLinks
  <2> HIDE DEF c, d
  <2> QED
    BY <2>0, <2>2, <1>0
<1>9. d[n] = 0 /\ \A k \in n .. N : d[k] = 0
  <2>1. d[n] = 0
    <3> HIDE DEF c, d
    <3>1. d[n - 1] = r
      BY <1>8, <1>1, <1>0
    <3>2. r # 0
      BY <1>3, <1>0
    <3>3. d[n] = u[r].next
      BY <3>1, <3>2, <1>7, <1>0
    <3> QED
      BY <3>3, <1>6 DEF Sector
  <2>2. n \in 0 .. N
    BY <1>0
  <2> QED
    BY <2>1, <2>2, <1>00, LinksEnd
<1> HIDE DEF c, d
<1>10. Begun(u, s, n) = Begun(t, s, n)
  <2>1. Begun(u, s, n) = {d[k - 1] : k \in 1 .. n}
    BY DEF Begun, d
  <2> QED
    BY <2>1, <1>1, <1>8
<1>11. \A k \in 1 .. n : u[d[k - 1]].text = text /\ u[d[k - 1]].part = k
  <2> SUFFICES ASSUME NEW k \in 1 .. n
               PROVE  u[d[k - 1]].text = text /\ u[d[k - 1]].part = k
    OBVIOUS
  <2>1. d[k - 1] = c[k - 1]
    BY <1>8
  <2>2. CASE k = n
    <3>1. d[k - 1] = r
      BY <2>1, <2>2, <1>1
    <3> QED
      BY <3>1, <2>2, <1>6 DEF Sector
  <2>3. CASE k # n
    <3>1. c[k - 1] # r /\ c[k - 1] \in Sectors
      BY <2>3, <1>1, <1>0
    <3>2. k < n
      BY <2>3, <1>0
    <3> QED
      BY <3>1, <3>2, <2>1, <1>1, <1>6
  <2> QED
    BY <2>2, <2>3
<1>12. Building(u, s, text, r, n)
  <2>1. d[n - 1] = r /\ \A k \in 1 .. n : d[k - 1] \in Sectors
    BY <1>8, <1>1, <1>0
  <2>2. \A j, k \in 1 .. n : d[j - 1] = d[k - 1] => j = k
    BY <1>8, <1>1
  <2> QED
    BY <2>1, <2>2, <1>0, <1>1, <1>11 DEF Building, d
<1>13. Whole(u, s, text)
  <2>1. \A k \in 1 .. n : d[k - 1] # 0 /\ u[d[k - 1]] = Sector(text, k, d[k])
    <3> SUFFICES ASSUME NEW k \in 1 .. n
                 PROVE  d[k - 1] # 0 /\ u[d[k - 1]] = Sector(text, k, d[k])
      OBVIOUS
    <3>1. d[k - 1] \in Sectors /\ d[k - 1] # 0
      BY <1>8, <1>1, <1>0
    <3>2. k \in 1 .. N
      BY <1>0
    <3>3. d[k] = u[d[k - 1]].next
      BY <3>1, <3>2, <1>7
    <3>4. u[d[k - 1]] \in SectorSet
      BY <3>1
    <3> QED
      BY <3>1, <3>3, <3>4, <1>11 DEF Sector, SectorSet
  <2>2. Size(text) \in 1 .. N
    BY <1>0
  <2> QED
    BY <2>1, <2>2, <1>9 DEF Whole, d
<1>14. ChainIn(u, s) = Begun(u, s, n)
  <2>1. ChainIn(u, s) = {d[k] : k \in 0 .. N} \ {0}
    BY DEF ChainIn, d
  <2>2. Begun(u, s, n) = {d[k - 1] : k \in 1 .. n}
    BY DEF Begun, d
  <2>3. ASSUME NEW k \in 0 .. N, d[k] # 0 PROVE d[k] \in {d[j - 1] : j \in 1 .. n}
    <3>1. k < n
      BY <2>3, <1>9, <1>0
    <3>2. PICK j \in 1 .. n : j = k + 1
      BY <3>1, <1>0
    <3>3. j - 1 = k
      BY <3>2
    <3>4. d[k] = d[j - 1]
      BY <3>3
    <3> QED
      BY <3>4
  <2>4. ASSUME NEW j \in 1 .. n PROVE d[j - 1] \in {d[k] : k \in 0 .. N} \ {0}
    <3>1. j - 1 \in 0 .. N
      BY <1>0
    <3>2. d[j - 1] \in Sectors
      BY <1>8, <1>1
    <3>3. d[j - 1] # 0
      BY <3>2, <1>0
    <3> QED
      BY <3>1, <3>3, Zenon
  <2> QED
    BY <2>1, <2>2, <2>3, <2>4
<1>15. \A y \in Sectors \ Begun(t, s, n) : u[y] = t[y]
  BY <1>3, <1>6
<1>16. u[s].text \in Texts
  <2>1. 1 \in 1 .. n /\ 1 - 1 = 0
    BY <1>0
  <2> QED
    BY <2>1, <1>11, <1>7
<1> QED
  BY <1>10, <1>12, <1>13, <1>14, <1>15, <1>16

\* recover(1): the links from the first sector to the one at work are those claimed.
LEMMA BuildingUndone ==
  ASSUME NEW t \in [Sectors -> SectorSet], NEW s \in Sectors, NEW text, NEW r, NEW n,
         Building(t, s, text, r, n)
  PROVE  LET c == LinksIn(t, s)
             last == CHOOSE k \in DOMAIN c :
                       c[k] = r /\ \A j \in DOMAIN c : j < k => c[j] # r
         IN {c[k] : k \in 0 .. last} = Begun(t, s, n)
<1> DEFINE c == LinksIn(t, s)
           First(k) == c[k] = r /\ \A j \in DOMAIN c : j < k => c[j] # r
           last == CHOOSE k \in DOMAIN c : First(k)
<1>0. N \in Nat \ {0} /\ n \in 1 .. N /\ n - 1 \in 0 .. N /\ n \in 1 .. n
  BY SectorCount DEF Building
<1>1. DOMAIN c = 0 .. N
  <2>1. s \in 0 .. N
    BY <1>0 DEF Sectors, N
  <2>2. c \in [0 .. N -> 0 .. N]
    BY <2>1, LinksExist
  <2> QED
    BY <2>2
<1>2. /\ c[n - 1] = r
      /\ \A j, k \in 1 .. n : c[j - 1] = c[k - 1] => j = k
      /\ Begun(t, s, n) = {c[k - 1] : k \in 1 .. n}
  BY DEF Building, Begun
<1> HIDE DEF c
<1>3. \A j \in 0 .. N : j < n - 1 => c[j] # r
  <2> SUFFICES ASSUME NEW j \in 0 .. N, j < n - 1 PROVE c[j] # r
    OBVIOUS
  <2>1. PICK k \in 1 .. n : k = j + 1
    BY <1>0
  <2>2. k - 1 = j /\ k # n
    BY <2>1, <1>0
  <2>3. c[k - 1] # c[n - 1]
    BY <2>2, <1>0, <1>2
  <2> QED
    BY <2>2, <2>3, <1>2
<1>4. n - 1 \in DOMAIN c /\ First(n - 1)
  BY <1>0, <1>1, <1>2, <1>3
<1>5. last \in DOMAIN c /\ First(last)
  <2> HIDE DEF First
  <2> QED
    BY <1>4
<1>6. last = n - 1
  <2>1. last \in 0 .. N /\ c[last] = r /\ \A j \in 0 .. N : j < last => c[j] # r
    BY <1>1, <1>5
  <2> HIDE DEF last
  <2> QED
    BY <2>1, <1>0, <1>2, <1>3
<1>7. {c[k] : k \in 0 .. last} = {c[k - 1] : k \in 1 .. n}
  <2> HIDE DEF last
  <2>1. ASSUME NEW k \in 0 .. last PROVE c[k] \in {c[j - 1] : j \in 1 .. n}
    <3>1. PICK j \in 1 .. n : j = k + 1
      BY <1>6, <1>0
    <3>2. j - 1 = k
      BY <3>1
    <3>3. c[k] = c[j - 1]
      BY <3>2
    <3> QED
      BY <3>3
  <2>2. ASSUME NEW j \in 1 .. n PROVE c[j - 1] \in {c[k] : k \in 0 .. last}
    <3>1. j - 1 \in 0 .. last
      BY <1>6, <1>0
    <3> QED
      BY <3>1
  <2> QED
    BY <2>1, <2>2
<1> QED
  BY <1>2, <1>7 DEF c

-----------------------------------------------------------------------------
(* Lemmas: messages that are apart stay so.                                *)

LEMMA ApartLess ==
  ASSUME NEW t, NEW hdr, NEW W, NEW V \in SUBSET W, NEW a, NEW b, Apart(t, hdr, W, a), a \subseteq b
  PROVE  Apart(t, hdr, V, b)
BY DEF Apart

\* The headers g and the texts u have the messages of hdr and t.
Agree(t, hdr, u, g, W) ==
  \A i \in W : /\ g[i].first = hdr[i].first /\ g[i].text = hdr[i].text
               /\ \A x \in ChainIn(t, hdr[i].first) : u[x] = t[x]

LEMMA ApartSame ==
  ASSUME NEW t \in [Sectors -> SectorSet], NEW u \in [Sectors -> SectorSet], NEW hdr, NEW g,
         NEW W, NEW a, \A i \in W : hdr[i].first \in Sectors,
         Apart(t, hdr, W, a), Agree(t, hdr, u, g, W)
  PROVE  /\ Apart(u, g, W, a)
         /\ \A d : Exactly(t, hdr, W, d) => Exactly(u, g, W, d)
<1>1. \A i \in W : /\ ChainIn(u, g[i].first) = ChainIn(t, hdr[i].first)
                   /\ Whole(t, hdr[i].first, hdr[i].text) => Whole(u, g[i].first, g[i].text)
  <2> SUFFICES ASSUME NEW i \in W
               PROVE  /\ ChainIn(u, g[i].first) = ChainIn(t, hdr[i].first)
                      /\ Whole(t, hdr[i].first, hdr[i].text) => Whole(u, g[i].first, g[i].text)
    OBVIOUS
  <2>1. /\ g[i].first = hdr[i].first /\ g[i].text = hdr[i].text
        /\ \A x \in ChainIn(t, hdr[i].first) : u[x] = t[x]
    BY DEF Agree
  <2>2. /\ ChainIn(u, hdr[i].first) = ChainIn(t, hdr[i].first)
        /\ Whole(t, hdr[i].first, hdr[i].text) => Whole(u, hdr[i].first, hdr[i].text)
    BY <2>1, SameChain
  <2> QED
    BY <2>1, <2>2
<1>2. Apart(u, g, W, a)
  BY <1>1 DEF Apart
<1>3. \A d : Exactly(t, hdr, W, d) => Exactly(u, g, W, d)
  BY <1>1 DEF Exactly
<1> QED
  BY <1>2, <1>3

LEMMA ApartMore ==
  ASSUME NEW t, NEW hdr, NEW W, NEW a, NEW n, n \notin W, Apart(t, hdr, W, a),
         Whole(t, hdr[n].first, hdr[n].text), ChainIn(t, hdr[n].first) \cap a = {}
  PROVE  /\ Apart(t, hdr, W \cup {n}, a \cup ChainIn(t, hdr[n].first))
         /\ Exactly(t, hdr, W, a) =>
              Exactly(t, hdr, W \cup {n}, a \cup ChainIn(t, hdr[n].first))
BY DEF Apart, Exactly

LEMMA ApartWithout ==
  ASSUME NEW t, NEW hdr, NEW W, NEW a, NEW n \in W, Apart(t, hdr, W, a)
  PROVE  /\ Apart(t, hdr, W \ {n}, a \ ChainIn(t, hdr[n].first))
         /\ Exactly(t, hdr, W, a) =>
              Exactly(t, hdr, W \ {n}, a \ ChainIn(t, hdr[n].first))
BY DEF Apart, Exactly

\* What the property says of a message is what the invariant says.
LEMMA ChainsAgree ==
  \A b : \A s : Chain(b, s) = ChainIn(disk[b].txt, s) /\ Links_(b, s) = LinksIn(disk[b].txt, s)
BY SectorCount, Zenon DEF Chain, ChainIn, Links_, LinksIn

-----------------------------------------------------------------------------
(* Lemmas: a message that a user enters.                                   *)

LEMMA MinFacts ==
  ASSUME NEW S \in SUBSET Nat, S # {}
  PROVE  Min(S) \in S /\ \A y \in S : Min(S) <= y
<1>1. PICK x \in S : \A y \in S : ~(<<y, x>> \in OpToRel(<, Nat))
  BY NatLessThanWellFounded, WFMin
<1>2. \A y \in S : ~(y < x)
  BY <1>1 DEF OpToRel
<1>3. \A y \in S : x <= y
  BY <1>2
<1> QED
  BY <1>3 DEF Min

\* The n lowest of the sectors that are free.
LowestOf(free, n) ==
  LET at[k \in 0 .. n] == IF k = 0 THEN 0 ELSE Min({s \in free : s > at[k - 1]}) IN at

LEMMA LowestSteps ==
  ASSUME NEW free, NEW n \in Nat
  PROVE  LET at == LowestOf(free, n) IN
           /\ at[0] = 0
           /\ \A k \in 1 .. n : at[k] = Min({s \in free : s > at[k - 1]})
<1> DEFINE Above(x) == Min({s \in free : s > x})
           Val(f, k) == IF k = 0 THEN 0 ELSE Above(f[k - 1])
           Can == {m \in 0 .. n : \E f : f = [k \in 0 .. m |-> Val(f, k)]}
<1> HIDE DEF Above
<1>1. 0 \in Can
  <2> DEFINE f == [k \in 0 .. 0 |-> 0]
  <2>1. \A k \in 0 .. 0 : k = 0
    OBVIOUS
  <2>2. f = [k \in 0 .. 0 |-> Val(f, k)]
    BY <2>1
  <2>3. \E g : g = [k \in 0 .. 0 |-> Val(g, k)]
    BY <2>2
  <2>4. 0 \in 0 .. n
    OBVIOUS
  <2> QED
    BY <2>3, <2>4
<1>2. ASSUME NEW m \in 0 .. n - 1, m \in Can PROVE m + 1 \in Can
  <2>1. PICK f : f = [k \in 0 .. m |-> Val(f, k)]
    BY <1>2
  <2> DEFINE g == [k \in 0 .. m + 1 |-> IF k = m + 1 THEN Above(f[m]) ELSE f[k]]
  <2>2. \A k \in 0 .. m : f[k] = Val(f, k)
    BY <2>1
  <2>3. \A k \in 0 .. m + 1 : g[k] = Val(g, k)
    <3> SUFFICES ASSUME NEW k \in 0 .. m + 1 PROVE g[k] = Val(g, k)
      OBVIOUS
    <3>1. CASE k = m + 1
      BY <3>1
    <3>2. CASE k # m + 1
      <4>1. k \in 0 .. m /\ (k # 0 => k - 1 \in 0 .. m /\ k - 1 \in 0 .. m + 1 /\ k - 1 # m + 1)
        BY <3>2
      <4>2. g[k] = f[k] /\ (k # 0 => g[k - 1] = f[k - 1])
        BY <4>1
      <4> QED
        BY <4>1, <4>2, <2>2
    <3> QED
      BY <3>1, <3>2
  <2>4. g = [k \in 0 .. m + 1 |-> Val(g, k)]
    BY <2>3
  <2> HIDE DEF g
  <2>5. \E h : h = [k \in 0 .. m + 1 |-> Val(h, k)]
    BY <2>4
  <2>6. m + 1 \in 0 .. n
    OBVIOUS
  <2> QED
    BY <2>5, <2>6
<1>3. \E f : f = [k \in 0 .. n |-> Val(f, k)]
  <2>1. \A m \in 0 .. n - 1 : m \in Can => m + 1 \in Can
    BY <1>2
  <2> HIDE DEF Can
  <2>2. 0 .. n \subseteq Can
    BY <1>1, <2>1, UpToN
  <2>3. n \in Can
    BY <2>2
  <2> QED
    BY <2>3 DEF Can
<1> DEFINE at == LowestOf(free, n)
<1>4. at = [k \in 0 .. n |-> IF k = 0 THEN 0 ELSE Min({s \in free : s > at[k - 1]})]
  BY <1>3 DEF LowestOf, Above
<1> HIDE DEF at
<1>5. \A k \in 0 .. n : at[k] = IF k = 0 THEN 0 ELSE Min({s \in free : s > at[k - 1]})
  BY <1>4
<1>6. at[0] = 0
  <2>1. 0 \in 0 .. n
    OBVIOUS
  <2> QED
    BY <2>1, <1>5
<1>7. \A k \in 1 .. n : at[k] = Min({s \in free : s > at[k - 1]})
  BY <1>5
<1> QED
  BY <1>6, <1>7 DEF at

LEMMA LowestFacts ==
  ASSUME NEW free \in SUBSET Sectors, NEW n \in Nat, n <= Cardinality(free)
  PROVE  LET at == LowestOf(free, n) IN
           /\ \A k \in 1 .. n : at[k] \in free
           /\ \A j, k \in 1 .. n : at[j] = at[k] => j = k
<1> DEFINE at == LowestOf(free, n)
           Upto(x) == {s \in free : s <= x}
           P(k) == /\ at[k] \in 0 .. N /\ Cardinality(Upto(at[k])) = k
                   /\ k > 0 => at[k] \in free
           Good == {k \in 0 .. n : P(k)}
<1>0. /\ N \in Nat \ {0} /\ Sectors = 1 .. N /\ IsFiniteSet(free)
      /\ \A s \in free : s \in Nat /\ s > 0 /\ s <= N
  <2>1. N \in Nat \ {0} /\ Sectors = 1 .. N
    BY SectorCount DEF Sectors, N
  <2>2. IsFiniteSet(free)
    BY SectorCount, FS_Subset
  <2> QED
    BY <2>1, <2>2
<1>1. at[0] = 0 /\ \A k \in 1 .. n : at[k] = Min({s \in free : s > at[k - 1]})
  BY LowestSteps
<1> HIDE DEF at, Upto
<1>2. 0 \in Good
  <2>1. Upto(0) = {}
    <3>1. \A s \in free : ~(s <= 0)
      BY <1>0
    <3> QED
      BY <3>1 DEF Upto
  <2>2. Cardinality(Upto(0)) = 0
    BY <2>1, FS_EmptySet
  <2> QED
    BY <2>2, <1>0, <1>1
<1>3. ASSUME NEW k \in 0 .. n - 1, k \in Good PROVE k + 1 \in Good
  <2> DEFINE x == at[k]
             High == {s \in free : s > x}
             y == Min(High)
  <2>1. x \in 0 .. N /\ Cardinality(Upto(x)) = k
    <3>1. P(k)
      <4> HIDE DEF P
      <4> QED
        BY <1>3
    <3> QED
      BY <3>1, Zenon
  <2>2. at[k + 1] = y
    <3>1. k + 1 \in 1 .. n /\ k + 1 - 1 = k
      OBVIOUS
    <3> QED
      BY <3>1, <1>1
  <2> HIDE DEF x
  <2>3. High # {}
    <3> SUFFICES ASSUME High = {} PROVE FALSE
      OBVIOUS
    <3>0. \A s \in free : s <= x
      BY <2>1, <1>0
    <3>1. Upto(x) = free
      BY <3>0 DEF Upto
    <3> QED
      BY <3>1, <2>1
  <2>4. High \in SUBSET Nat
    BY <1>0
  <2>5. y \in High /\ \A z \in High : y <= z
    BY <2>3, <2>4, MinFacts
  <2> HIDE DEF y
  <2>6. y \in free /\ y > x /\ y \in 0 .. N
    BY <2>5, <1>0
  <2>7. Upto(y) = Upto(x) \cup {y}
    <3>1. \A z \in free : z <= y => z <= x \/ z = y
      BY <2>5, <2>1, <2>6, <1>0
    <3>2. \A z \in free : z <= x => z <= y
      BY <2>1, <2>6, <1>0
    <3>3. y <= y
      BY <2>6
    <3> QED
      BY <3>1, <3>2, <3>3, <2>6 DEF Upto
  <2>8. y \notin Upto(x) /\ IsFiniteSet(Upto(x))
    <3>1. y \notin Upto(x)
      BY <2>1, <2>6 DEF Upto
    <3>2. Upto(x) \in SUBSET free
      BY DEF Upto
    <3> QED
      BY <3>1, <3>2, <1>0, FS_Subset
  <2>9. Cardinality(Upto(y)) = k + 1
    BY <2>1, <2>7, <2>8, FS_AddElement
  <2> QED
    BY <2>2, <2>6, <2>9
<1>4. \A k \in 0 .. n : k \in Good
  <2>1. \A m \in 0 .. n - 1 : m \in Good => m + 1 \in Good
    BY <1>3
  <2> HIDE DEF Good
  <2>2. 0 .. n \subseteq Good
    BY <1>2, <2>1, UpToN
  <2> QED
    BY <2>2
<1>5. \A k \in 1 .. n : at[k] \in free /\ Cardinality(Upto(at[k])) = k
  <2> SUFFICES ASSUME NEW k \in 1 .. n PROVE at[k] \in free /\ Cardinality(Upto(at[k])) = k
    OBVIOUS
  <2>1. k \in 0 .. n /\ k > 0
    OBVIOUS
  <2>2. P(k)
    <3> HIDE DEF P
    <3> QED
      BY <2>1, <1>4
  <2> QED
    BY <2>1, <2>2, Zenon
<1>6. \A j, k \in 1 .. n : at[j] = at[k] => j = k
  BY <1>5
<1> QED
  BY <1>5, <1>6 DEF at

Laid(at, n) == {at[k] : k \in 1 .. n}

\* A text is laid out over the sectors at[1] to at[n].
LEMMA LaidOut ==
  ASSUME NEW u \in [Sectors -> SectorSet], NEW text \in Texts, NEW n \in Nat \ {0}, n = Size(text),
         NEW at, \A k \in 1 .. n : at[k] \in Sectors, \A j, k \in 1 .. n : at[j] = at[k] => j = k,
         \A k \in 1 .. n : u[at[k]] = Sector(text, k, IF k = n THEN 0 ELSE at[k + 1])
  PROVE  Whole(u, at[1], text) /\ ChainIn(u, at[1]) = Laid(at, n)
<1> DEFINE d == LinksIn(u, at[1])
           f == [k \in 1 .. n |-> at[k]]
<1>0. N \in Nat \ {0} /\ Sectors = 1 .. N /\ 1 \in 1 .. n
  BY SectorCount DEF Sectors, N
<1>1. n \in 1 .. N
  <2>1. f \in Injection(1 .. n, Sectors)
    BY DEF Injection, IsInjective
  <2>2. Cardinality(1 .. n) <= Cardinality(Sectors)
    BY <2>1, SectorCount, FS_Injection
  <2>3. Cardinality(1 .. n) = n
    BY FS_Interval
  <2> QED
    BY <2>2, <2>3, SectorCount
<1>2. at[1] \in 0 .. N
  BY <1>0
<1>3. /\ d[0] = at[1] /\ \A k \in 0 .. N : d[k] \in 0 .. N
      /\ \A k \in 1 .. N : d[k] = IF d[k - 1] = 0 THEN 0 ELSE u[d[k - 1]].next
  BY <1>2, LinksSteps
<1>4. ASSUME d[n] = 0 PROVE \A k \in 0 .. N : k >= n => d[k] = 0
  <2>1. n \in 0 .. N
    BY <1>1
  <2>2. \A k \in n .. N : d[k] = 0
    BY <2>1, <1>2, <1>4, LinksEnd
  <2> HIDE DEF d
  <2> QED
    BY <2>2, <1>1
<1> HIDE DEF d
<1> DEFINE Good == {k \in 0 .. n : k < n => d[k] = at[k + 1]}
<1>5. 0 \in Good
  BY <1>3, <1>0
<1>6. ASSUME NEW k \in 0 .. n - 1, k \in Good PROVE k + 1 \in Good
  <2>1. SUFFICES ASSUME k + 1 < n PROVE d[k + 1] = at[k + 1 + 1]
    OBVIOUS
  <2>2. PICK j \in 1 .. n : j = k + 1
    OBVIOUS
  <2>3. d[j - 1] = at[j] /\ j - 1 = k
    BY <2>2, <1>6
  <2>4. at[j] \in Sectors /\ at[j] # 0 /\ j \in 1 .. N
    BY <1>0, <1>1
  <2>5. d[j] = u[at[j]].next
    BY <2>3, <2>4, <1>3
  <2>6. u[at[j]].next = at[j + 1]
    <3>1. u[at[j]] = Sector(text, j, at[j + 1])
      BY <2>1, <2>2
    <3> QED
      BY <3>1 DEF Sector
  <2> QED
    BY <2>2, <2>5, <2>6
<1>7. 0 .. n \subseteq Good
  <2>1. \A k \in 0 .. n - 1 : k \in Good => k + 1 \in Good
    BY <1>6
  <2> HIDE DEF Good
  <2> QED
    BY <1>5, <2>1, UpToN
<1>8. \A k \in 1 .. n : d[k - 1] = at[k]
  <2> SUFFICES ASSUME NEW k \in 1 .. n PROVE d[k - 1] = at[k]
    OBVIOUS
  <2>1. PICK j \in 0 .. n : j = k - 1
    OBVIOUS
  <2>2. d[j] = at[j + 1]
    BY <2>1, <1>7
  <2>3. j + 1 = k
    BY <2>1
  <2> QED
    BY <2>1, <2>2, <2>3
<1>9. \A k \in 1 .. n : d[k - 1] # 0 /\ d[k] = u[d[k - 1]].next
  <2> SUFFICES ASSUME NEW k \in 1 .. n PROVE d[k - 1] # 0 /\ d[k] = u[d[k - 1]].next
    OBVIOUS
  <2>1. at[k] \in Sectors /\ at[k] # 0 /\ k \in 1 .. N
    BY <1>0, <1>1
  <2> QED
    BY <2>1, <1>3, <1>8
<1>10. d[n] = 0
  <2>1. n \in 1 .. n
    OBVIOUS
  <2>2. d[n] = u[at[n]].next
    BY <2>1, <1>8, <1>9
  <2>3. u[at[n]] = Sector(text, n, 0)
    BY <2>1
  <2> QED
    BY <2>2, <2>3 DEF Sector
<1>11. Whole(u, at[1], text)
  <2>1. \A k \in 1 .. n : d[k - 1] # 0 /\ u[d[k - 1]] = Sector(text, k, d[k])
    <3> SUFFICES ASSUME NEW k \in 1 .. n PROVE u[d[k - 1]] = Sector(text, k, d[k])
      BY <1>9
    <3>1. u[d[k - 1]] = Sector(text, k, IF k = n THEN 0 ELSE at[k + 1])
      BY <1>8
    <3>2. d[k] = u[d[k - 1]].next
      BY <1>9
    <3> QED
      BY <3>1, <3>2 DEF Sector
  <2> QED
    BY <2>1, <1>1, <1>10 DEF Whole, d
<1>12. ChainIn(u, at[1]) = {at[k] : k \in 1 .. n}
  <2>1. ChainIn(u, at[1]) = {d[k] : k \in 0 .. N} \ {0}
    BY DEF ChainIn, d
  <2>2. ASSUME NEW k \in 0 .. N, d[k] # 0 PROVE d[k] \in {at[j] : j \in 1 .. n}
    <3>1. k < n
      BY <2>2, <1>4, <1>10, <1>1
    <3>2. PICK j \in 1 .. n : j = k + 1
      BY <3>1
    <3>3. j - 1 = k
      BY <3>2
    <3>4. d[k] = at[j]
      BY <3>3, <1>8
    <3> QED
      BY <3>4
  <2>3. ASSUME NEW j \in 1 .. n PROVE at[j] \in {d[k] : k \in 0 .. N} \ {0}
    <3>1. PICK k \in 0 .. N : k = j - 1
      <4>1. j - 1 \in 0 .. N
        BY <1>0, <1>1
      <4> QED
        BY <4>1
    <3>2. at[j] = d[k]
      BY <3>1, <1>8
    <3>3. at[j] # 0
      BY <1>0
    <3> QED
      BY <3>2, <3>3
  <2> QED
    BY <2>1, <2>2, <2>3
<1> QED
  BY <1>11, <1>12 DEF Laid

-----------------------------------------------------------------------------
(* Steps of the invariant, by what they do to the bases.                   *)

Shape == Writing /\ Headed /\ Separate /\ Bitmaps /\ NoneLost

\* What every step does to the histories.
Goes ==
  /\ faults' \in {faults, faults + 1} /\ crashes' \in {crashes, crashes + 1}
  /\ leaked' \in BOOLEAN /\ (leaked => leaked')
  /\ unmapped' \in BOOLEAN /\ (unmapped => unmapped')
  /\ unmapped' => unmapped \/ faults' = faults + 1

LEMMA GoesFacts ==
  ASSUME Rest, Bitmaps, Goes
  PROVE  /\ faults' \in Nat /\ crashes' \in Nat
         /\ Quiet' => Quiet
         /\ ~leaked' => ~leaked
         /\ ~unmapped' => ~unmapped
         /\ unmapped' => faults' > 0
         /\ Quiet => ~unmapped
         /\ Quiet' => ~unmapped'
         /\ faults' = faults + 1 => ~Quiet'
         /\ crashes' = crashes + 1 => ~Quiet'
<1>1. faults \in Nat /\ crashes \in Nat
  BY DEF Rest
<1>2. unmapped => faults > 0
  BY DEF Bitmaps
<1> QED
  BY <1>1, <1>2 DEF Goes, Quiet

LEMMA HasFacts ==
  ASSUME Stores, Headed, NEW b \in Bases
  PROVE  /\ disk[b].txt \in [Sectors -> SectorSet] /\ disk[b].hdr \in Seq(Headers)
         /\ disk[b].used \subseteq Sectors /\ mem.used[b] \subseteq Sectors
         /\ disk[b].top \in Nat /\ mem.top[b] \in Nat /\ Count(b) \in Nat
         /\ Has(b) \subseteq 1 .. Count(b) /\ Has(b) \subseteq DOMAIN disk[b].hdr
         /\ HasOnDisk(b) \subseteq 1 .. disk[b].top /\ HasOnDisk(b) \subseteq Has(b)
         /\ \A i \in DOMAIN disk[b].hdr : disk[b].hdr[i].first \in Sectors
         /\ pc = "idle" => HasOnDisk(b) = Has(b)
<1>1. /\ disk[b] \in BaseSet
      /\ mem.used[b] \in SUBSET Sectors /\ mem.top[b] \in Nat
  BY DEF Stores
<1>2. /\ disk[b].txt \in [Sectors -> SectorSet] /\ disk[b].hdr \in Seq(Headers)
      /\ disk[b].used \subseteq Sectors /\ disk[b].top \in Nat
  BY <1>1 DEF BaseSet
<1>3. Count(b) \in Nat /\ (pc = "idle" => Count(b) = disk[b].top)
  BY <1>1, <1>2 DEF Count
<1>4. disk[b].top <= Count(b) /\ Count(b) <= Len(disk[b].hdr)
  BY DEF Headed
<1>5. Len(disk[b].hdr) \in Nat /\ DOMAIN disk[b].hdr = 1 .. Len(disk[b].hdr)
  BY <1>2
<1>6. /\ \A i \in 1 .. disk[b].top : i \in 1 .. Count(b)
      /\ \A i \in 1 .. Count(b) : i \in DOMAIN disk[b].hdr
  BY <1>2, <1>3, <1>4, <1>5
<1>7. \A i \in DOMAIN disk[b].hdr : disk[b].hdr[i] \in Headers
  BY <1>2
<1>8. \A i \in DOMAIN disk[b].hdr : disk[b].hdr[i].first \in Sectors
  BY <1>7 DEF Headers
<1>9. /\ Has(b) \subseteq 1 .. Count(b) /\ Has(b) \subseteq DOMAIN disk[b].hdr
      /\ HasOnDisk(b) \subseteq 1 .. disk[b].top /\ HasOnDisk(b) \subseteq Has(b)
  BY <1>6 DEF Has, HasOnDisk
<1>10. pc = "idle" => HasOnDisk(b) = Has(b)
  BY <1>3 DEF Has, HasOnDisk
<1> QED
  BY <1>1, <1>2, <1>3, <1>8, <1>9, <1>10

LEMMA KeptStep ==
  ASSUME NEW b, NEW i, disk[b].hdr[i].flags' = disk[b].hdr[i].flags, Quiet' => Quiet,
         pc' \notin {"del", "mark"}, pc = "mark" => ~Quiet'
  PROVE  /\ Kept(b, i)' => Kept(b, i)
         /\ Quiet' /\ Kept(b, i) => Kept(b, i)'
BY DEF Kept

\* A step that leaves the bases alone, and ends a text at most by giving it up.
LEMMA BasesAlone ==
  ASSUME Stores, Rest, Shape, Goes, UNCHANGED <<disk, mem, w>>, pc # "idle",
         pc' \notin {"idle", "put", "hdr", "del", "mark"}, pc = "mark" => ~Quiet',
         pc' = "top" => unmapped',
         Quiet' /\ ~leaked' => pc \notin {"put", "hdr"} /\ \A b \in Bases : Settled(b)' => Settled(b)
  PROVE  (Stores /\ Shape)'
<1> USE DEF Shape
<1>1. /\ Quiet' => Quiet
      /\ ~leaked' => ~leaked
      /\ ~unmapped' => ~unmapped
      /\ unmapped' => faults' > 0
      /\ Quiet' => ~unmapped'
  BY GoesFacts
<1>2. Stores' /\ Writing'
  BY DEF Stores, Writing, Working
<1>3. Headed'
  BY DEF Headed, Count
<1>4. Bitmaps'
  BY <1>1 DEF Bitmaps, BitmapFirst
<1>5. ASSUME NEW b \in Bases
      PROVE  /\ Has(b)' \subseteq Has(b) /\ HasOnDisk(b)' \subseteq HasOnDisk(b)
             /\ Quiet' => Has(b)' = Has(b) /\ HasOnDisk(b)' = HasOnDisk(b)
  <2>1. Count(b)' = Count(b) /\ disk' = disk
    BY DEF Count
  <2>2. \A i : (Kept(b, i)' => Kept(b, i)) /\ (Quiet' /\ Kept(b, i) => Kept(b, i)')
    BY <1>1, KeptStep
  <2> QED
    BY <2>1, <2>2 DEF Has, HasOnDisk
<1>6. Separate'
  <2> SUFFICES ASSUME ~unmapped', NEW b \in Bases
               PROVE  /\ Apart(disk'[b].txt, disk'[b].hdr, HasOnDisk(b)', disk'[b].used)
                      /\ Apart(disk'[b].txt, disk'[b].hdr, Has(b)', mem'.used[b] \ Mine(b)')
    BY DEF Separate
  <2>1. /\ Apart(disk[b].txt, disk[b].hdr, HasOnDisk(b), disk[b].used)
        /\ Apart(disk[b].txt, disk[b].hdr, Has(b), mem.used[b] \ Mine(b))
    BY <1>1 DEF Separate
  <2>2. Mine(b)' = {}
    BY DEF Mine, Working
  <2>3. mem.used[b] \ Mine(b) \subseteq mem.used[b] \ Mine(b)'
    BY <2>2
  <2>4. Apart(disk[b].txt, disk[b].hdr, HasOnDisk(b)', disk[b].used)
    BY <2>1, <1>5, ApartLess
  <2>5. Apart(disk[b].txt, disk[b].hdr, Has(b)', mem.used[b] \ Mine(b)')
    BY <2>1, <2>3, <1>5, ApartLess
  <2> QED
    BY <2>4, <2>5
<1>7. NoneLost'
  <2> SUFFICES ASSUME Quiet', ~leaked', NEW b \in Bases
               PROVE  /\ Settled(b)' => Exactly(disk'[b].txt, disk'[b].hdr, HasOnDisk(b)', disk'[b].used)
                      /\ Exactly(disk'[b].txt, disk'[b].hdr, Has(b)', mem'.used[b] \ Mine(b)')
    BY DEF NoneLost
  <2>1. /\ Settled(b) => Exactly(disk[b].txt, disk[b].hdr, HasOnDisk(b), disk[b].used)
        /\ Exactly(disk[b].txt, disk[b].hdr, Has(b), mem.used[b] \ Mine(b))
    BY <1>1 DEF NoneLost
  <2>2. Mine(b)' = {} /\ Mine(b) = {}
    BY DEF Mine, Working
  <2> QED
    BY <2>1, <2>2, <1>5
<1> QED
  BY <1>2, <1>3, <1>4, <1>6, <1>7

\* A step that reads the bitmaps and tops from the disk again.
LEMMA BasesRead ==
  ASSUME Stores, Rest, Shape, Goes, UNCHANGED <<disk, w>>, ReadInfo,
         pc' \notin {"idle", "put", "hdr", "del", "mark", "top"}, pc # "mark",
         Quiet' /\ ~leaked' => \A b \in Bases : Settled(b)
  PROVE  (Stores /\ Shape)'
<1> USE DEF Shape
<1>1. /\ Quiet' => Quiet
      /\ ~leaked' => ~leaked
      /\ ~unmapped' => ~unmapped
      /\ unmapped' => faults' > 0
      /\ Quiet' => ~unmapped'
  BY GoesFacts
<1>2. \A b \in Bases : mem'.used[b] = disk[b].used /\ mem'.top[b] = disk[b].top
  BY DEF ReadInfo
<1>3. Stores'
  <2>1. \A b \in Bases : disk[b].used \subseteq Sectors /\ disk[b].top \in Nat
    BY HasFacts
  <2>2. mem' \in [used : [Bases -> SUBSET Sectors], top : [Bases -> Nat]]
    BY <2>1 DEF ReadInfo
  <2> QED
    BY <2>2 DEF Stores
<1>4. Writing'
  BY DEF Writing, Working
<1>5. \A b \in Bases : Count(b)' = disk[b].top
  BY <1>2 DEF Count
<1>6. Headed'
  <2> SUFFICES ASSUME NEW b \in Bases
               PROVE  /\ disk[b].top <= Count(b)' /\ Count(b)' <= Len(disk[b].hdr)
                      /\ \A i \in DOMAIN disk[b].hdr : LET h == disk[b].hdr[i] IN
                           /\ disk[b].txt[h.first].text \in Texts
                           /\ "INCOMING" \in h.flags => h.flags \cap {"OUTGOING", "INTRANSIT"} = {}
    BY DEF Headed
  <2>1. disk[b].top \in Nat /\ Count(b) \in Nat /\ disk[b].hdr \in Seq(Headers)
    BY HasFacts
  <2>2. disk[b].top <= Count(b) /\ Count(b) <= Len(disk[b].hdr)
    BY DEF Headed
  <2>3. Len(disk[b].hdr) \in Nat
    BY <2>1
  <2>4. disk[b].top <= Len(disk[b].hdr) /\ disk[b].top <= disk[b].top
    BY <2>1, <2>2, <2>3
  <2> QED
    BY <2>4, <1>5 DEF Headed
<1>7. Bitmaps'
  BY <1>1 DEF Bitmaps, BitmapFirst
<1>8. ASSUME NEW b \in Bases
      PROVE  /\ Has(b)' \subseteq HasOnDisk(b) /\ HasOnDisk(b)' \subseteq HasOnDisk(b)
             /\ Quiet' => Has(b)' = HasOnDisk(b) /\ HasOnDisk(b)' = HasOnDisk(b)
  <2>1. Count(b)' = disk[b].top /\ disk' = disk
    BY <1>5
  <2>2. \A i : (Kept(b, i)' => Kept(b, i)) /\ (Quiet' /\ Kept(b, i) => Kept(b, i)')
    BY <1>1, KeptStep
  <2> QED
    BY <2>1, <2>2 DEF Has, HasOnDisk
<1>9. \A b \in Bases : Mine(b)' = {}
  BY DEF Mine, Working
<1>10. Separate'
  <2> SUFFICES ASSUME ~unmapped', NEW b \in Bases
               PROVE  /\ Apart(disk'[b].txt, disk'[b].hdr, HasOnDisk(b)', disk'[b].used)
                      /\ Apart(disk'[b].txt, disk'[b].hdr, Has(b)', mem'.used[b] \ Mine(b)')
    BY DEF Separate
  <2>1. Apart(disk[b].txt, disk[b].hdr, HasOnDisk(b), disk[b].used)
    BY <1>1 DEF Separate
  <2>2. Apart(disk[b].txt, disk[b].hdr, HasOnDisk(b)', disk[b].used)
    BY <2>1, <1>8, ApartLess
  <2>3. Apart(disk[b].txt, disk[b].hdr, Has(b)', disk[b].used)
    BY <2>1, <1>8, ApartLess
  <2>4. mem'.used[b] \ Mine(b)' = disk[b].used
    BY <1>2, <1>9
  <2> QED
    BY <2>2, <2>3, <2>4
<1>11. NoneLost'
  <2> SUFFICES ASSUME Quiet', ~leaked', NEW b \in Bases
               PROVE  /\ Exactly(disk'[b].txt, disk'[b].hdr, HasOnDisk(b)', disk'[b].used)
                      /\ Exactly(disk'[b].txt, disk'[b].hdr, Has(b)', mem'.used[b] \ Mine(b)')
    BY DEF NoneLost
  <2>1. Exactly(disk[b].txt, disk[b].hdr, HasOnDisk(b), disk[b].used)
    BY <1>1 DEF NoneLost
  <2>2. mem'.used[b] \ Mine(b)' = disk[b].used
    BY <1>2, <1>9
  <2> QED
    BY <2>1, <2>2, <1>8
<1> QED
  BY <1>3, <1>4, <1>6, <1>7, <1>10, <1>11

LEMMA GetfreeFacts ==
  ASSUME Stores, NEW b \in Bases, ~Full(b)
  PROVE  Getfree(b) \in Sectors /\ Getfree(b) \notin mem.used[b]
<1>1. Sectors \ mem.used[b] \in SUBSET Nat
  BY DEF Sectors
<1>2. Sectors \ mem.used[b] # {}
  BY DEF Full
<1> QED
  BY <1>1, <1>2, MinFacts DEF Getfree

\* A sector is claimed for a text.
LEMMA ClaimStep ==
  ASSUME Stores, Rest, Shape, Goes, UNCHANGED disk,
         NEW b \in Bases, NEW t \in Texts, Claim(b, t),
         pc \notin {"idle", "put", "hdr", "mark"}, pc' = "put",
         Quiet' /\ ~leaked' => \A c \in Bases : Settled(c)' => Settled(c)
  PROVE  (Stores /\ Shape)'
<1> USE DEF Shape
<1> DEFINE x == Getfree(b)
<1>1. /\ Quiet' => Quiet
      /\ ~leaked' => ~leaked
      /\ ~unmapped' => ~unmapped
      /\ unmapped' => faults' > 0
      /\ Quiet' => ~unmapped'
  BY GoesFacts
<1>2. x \in Sectors /\ x \notin mem.used[b]
  BY GetfreeFacts DEF Claim
<1>3. /\ mem' = [mem EXCEPT !.used[b] = @ \cup {x}]
      /\ w' = [base |-> b, text |-> t, first |-> x, rec |-> x, part |-> 1]
  BY DEF Claim
<1> HIDE DEF x
<1>4. mem \in [used : [Bases -> SUBSET Sectors], top : [Bases -> Nat]]
  BY DEF Stores
<1>5. mem' \in [used : [Bases -> SUBSET Sectors], top : [Bases -> Nat]]
  BY <1>2, <1>3, <1>4
<1>6. /\ mem'.used[b] = mem.used[b] \cup {x} /\ mem'.top = mem.top
      /\ \A c \in Bases : c # b => mem'.used[c] = mem.used[c]
  BY <1>3, <1>4
<1>7. Stores'
  <2>1. x \in 0 .. N
    BY <1>2, SectorCount DEF Sectors, N
  <2>2. w' \in [base : Bases, text : Texts \cup {NoText}, first : 0 .. N, rec : 0 .. N, part : Nat]
    BY <1>3, <2>1
  <2> QED
    BY <1>5, <2>2 DEF Stores
<1>8. Size(t) \in Nat \ {0}
  BY MsgBaseAssumption DEF Size, Texts
<1>9. disk[b].txt \in [Sectors -> SectorSet]
  BY HasFacts
<1>10. Building(disk[b].txt, x, t, x, 1) /\ Begun(disk[b].txt, x, 1) = {x}
  BY <1>2, <1>8, <1>9, BuildingStarts
<1>11. Mine(b)' = {x} /\ \A c \in Bases : c # b => Mine(c)' = {}
  BY <1>3, <1>10 DEF Mine, Working
<1>12. \A c \in Bases : Mine(c) = {}
  BY DEF Mine, Working
<1>13. Writing'
  <2>1. /\ w'.text = t /\ w'.first = x /\ w'.rec = x /\ w'.part = 1 /\ w'.base = b
    BY <1>3
  <2> QED
    BY <2>1, <1>6, <1>10, <1>11 DEF Writing
<1>14. \A c \in Bases : Count(c)' = Count(c)
  BY <1>6 DEF Count
<1>15. Headed'
  BY <1>14 DEF Headed
<1>16. Bitmaps'
  BY <1>1 DEF Bitmaps, BitmapFirst
<1>17. ASSUME NEW c \in Bases
       PROVE  /\ Has(c)' \subseteq Has(c) /\ HasOnDisk(c)' \subseteq HasOnDisk(c)
              /\ Quiet' => Has(c)' = Has(c) /\ HasOnDisk(c)' = HasOnDisk(c)
              /\ mem'.used[c] \ Mine(c)' = mem.used[c] \ Mine(c)
  <2>1. Count(c)' = Count(c) /\ disk' = disk
    BY <1>14
  <2>2. \A i : (Kept(c, i)' => Kept(c, i)) /\ (Quiet' /\ Kept(c, i) => Kept(c, i)')
    BY <1>1, KeptStep
  <2>3. mem'.used[c] \ Mine(c)' = mem.used[c] \ Mine(c)
    BY <1>2, <1>6, <1>11, <1>12
  <2> QED
    BY <2>1, <2>2, <2>3 DEF Has, HasOnDisk
<1>18. Separate'
  <2> SUFFICES ASSUME ~unmapped', NEW c \in Bases
               PROVE  /\ Apart(disk'[c].txt, disk'[c].hdr, HasOnDisk(c)', disk'[c].used)
                      /\ Apart(disk'[c].txt, disk'[c].hdr, Has(c)', mem'.used[c] \ Mine(c)')
    BY DEF Separate
  <2>1. /\ Apart(disk[c].txt, disk[c].hdr, HasOnDisk(c), disk[c].used)
        /\ Apart(disk[c].txt, disk[c].hdr, Has(c), mem.used[c] \ Mine(c))
    BY <1>1 DEF Separate
  <2>2. Apart(disk[c].txt, disk[c].hdr, HasOnDisk(c)', disk[c].used)
    BY <2>1, <1>17, ApartLess
  <2>3. Apart(disk[c].txt, disk[c].hdr, Has(c)', mem.used[c] \ Mine(c))
    BY <2>1, <1>17, ApartLess
  <2> QED
    BY <2>2, <2>3, <1>17
<1>19. NoneLost'
  <2> SUFFICES ASSUME Quiet', ~leaked', NEW c \in Bases
               PROVE  /\ Settled(c)' => Exactly(disk'[c].txt, disk'[c].hdr, HasOnDisk(c)', disk'[c].used)
                      /\ Exactly(disk'[c].txt, disk'[c].hdr, Has(c)', mem'.used[c] \ Mine(c)')
    BY DEF NoneLost
  <2>1. /\ Settled(c) => Exactly(disk[c].txt, disk[c].hdr, HasOnDisk(c), disk[c].used)
        /\ Exactly(disk[c].txt, disk[c].hdr, Has(c), mem.used[c] \ Mine(c))
    BY <1>1 DEF NoneLost
  <2> QED
    BY <2>1, <1>17
<1> QED
  BY <1>7, <1>13, <1>15, <1>16, <1>18, <1>19

\* What the steps that write text have in common: they write only what they claimed.
TextStep(b, u) ==
  /\ \A c \in Bases : /\ disk'[c].hdr = disk[c].hdr /\ disk'[c].used = disk[c].used
                      /\ disk'[c].top = disk[c].top
                      /\ c # b => disk'[c].txt = disk[c].txt
  /\ disk'[b].txt = u
  /\ \A y \in Sectors \ Mine(b) : u[y] = disk[b].txt[y]
  /\ \A y \in Sectors : disk[b].txt[y].text \in Texts => u[y].text \in Texts
  /\ mem'.top = mem.top /\ mem'.used[b] \ Mine(b)' = mem.used[b] \ Mine(b)
  /\ \A c \in Bases : c # b => mem'.used[c] = mem.used[c] /\ Mine(c)' = Mine(c)

LEMMA TextWritten ==
  ASSUME Stores, Rest, Shape, Goes, UNCHANGED job,
         NEW b \in Bases, NEW u \in [Sectors -> SectorSet], TextStep(b, u),
         pc = "put", pc' \in {"put", "hdr"}
  PROVE  (Headed /\ Separate /\ Bitmaps /\ NoneLost)'
<1> USE DEF Shape
<1>1. /\ Quiet' => Quiet
      /\ ~leaked' => ~leaked
      /\ ~unmapped' => ~unmapped
      /\ unmapped' => faults' > 0
      /\ Quiet' => ~unmapped'
  BY GoesFacts
<1>2. \A c \in Bases : /\ disk'[c].hdr = disk[c].hdr /\ disk'[c].used = disk[c].used
                       /\ disk'[c].top = disk[c].top /\ mem'.top[c] = mem.top[c]
                       /\ disk'[c].txt = IF c = b THEN u ELSE disk[c].txt
                       /\ mem'.used[c] \ Mine(c)' = mem.used[c] \ Mine(c)
  BY DEF TextStep
<1>3. \A c \in Bases : Count(c)' = Count(c)
  BY <1>2 DEF Count
<1>4. Headed'
  <2> SUFFICES ASSUME NEW c \in Bases
               PROVE  /\ disk[c].top <= Count(c) /\ Count(c) <= Len(disk[c].hdr)
                      /\ \A i \in DOMAIN disk[c].hdr : LET h == disk[c].hdr[i] IN
                           /\ disk'[c].txt[h.first].text \in Texts
                           /\ "INCOMING" \in h.flags => h.flags \cap {"OUTGOING", "INTRANSIT"} = {}
    BY <1>2, <1>3 DEF Headed
  <2>1. \A i \in DOMAIN disk[c].hdr : disk[c].hdr[i].first \in Sectors
    BY HasFacts
  <2>2. \A y \in Sectors : disk[c].txt[y].text \in Texts => disk'[c].txt[y].text \in Texts
    BY <1>2 DEF TextStep
  <2> QED
    BY <2>1, <2>2 DEF Headed
<1>5. Bitmaps'
  BY <1>1 DEF Bitmaps, BitmapFirst
<1>6. ASSUME NEW c \in Bases
      PROVE  /\ Has(c)' \subseteq Has(c) /\ HasOnDisk(c)' \subseteq HasOnDisk(c)
             /\ Quiet' => Has(c)' = Has(c) /\ HasOnDisk(c)' = HasOnDisk(c)
  <2>1. Count(c)' = Count(c) /\ disk'[c].top = disk[c].top /\ disk'[c].hdr = disk[c].hdr
    BY <1>2, <1>3
  <2>2. \A i : (Kept(c, i)' => Kept(c, i)) /\ (Quiet' /\ Kept(c, i) => Kept(c, i)')
    BY <1>1, <2>1, KeptStep
  <2> QED
    BY <2>1, <2>2 DEF Has, HasOnDisk
<1>7. ASSUME ~unmapped, NEW c \in Bases
      PROVE  LET d == disk[c] IN
             /\ Apart(disk'[c].txt, d.hdr, HasOnDisk(c), d.used)
             /\ Apart(disk'[c].txt, d.hdr, Has(c), mem.used[c] \ Mine(c))
             /\ \A e : Exactly(d.txt, d.hdr, HasOnDisk(c), e)
                         => Exactly(disk'[c].txt, d.hdr, HasOnDisk(c), e)
             /\ \A e : Exactly(d.txt, d.hdr, Has(c), e)
                         => Exactly(disk'[c].txt, d.hdr, Has(c), e)
  <2> DEFINE d == disk[c]
             v == disk'[c].txt
  <2>1. Apart(d.txt, d.hdr, HasOnDisk(c), d.used) /\ Apart(d.txt, d.hdr, Has(c), mem.used[c] \ Mine(c))
    BY <1>7 DEF Separate
  <2>2. /\ d.txt \in [Sectors -> SectorSet] /\ mem.used[c] \subseteq Sectors
        /\ HasOnDisk(c) \subseteq Has(c) /\ Has(c) \subseteq DOMAIN d.hdr
        /\ \A i \in DOMAIN d.hdr : d.hdr[i].first \in Sectors
    BY HasFacts
  <2>3. v \in [Sectors -> SectorSet]
    BY <2>2, <1>2
  <2>4. \A y \in Sectors \ Mine(c) : v[y] = d.txt[y]
    BY <1>2 DEF TextStep
  <2>5. \A i \in Has(c) : ChainIn(d.txt, d.hdr[i].first) \subseteq Sectors \ Mine(c)
    BY <2>1, <2>2 DEF Apart
  <2> HIDE DEF d, v
  <2>6. Agree(d.txt, d.hdr, v, d.hdr, Has(c)) /\ Agree(d.txt, d.hdr, v, d.hdr, HasOnDisk(c))
    BY <2>2, <2>4, <2>5 DEF Agree
  <2>7. /\ Apart(v, d.hdr, HasOnDisk(c), d.used)
        /\ \A e : Exactly(d.txt, d.hdr, HasOnDisk(c), e) => Exactly(v, d.hdr, HasOnDisk(c), e)
    BY <2>1, <2>2, <2>3, <2>6, ApartSame
  <2>8. /\ Apart(v, d.hdr, Has(c), mem.used[c] \ Mine(c))
        /\ \A e : Exactly(d.txt, d.hdr, Has(c), e) => Exactly(v, d.hdr, Has(c), e)
    BY <2>1, <2>2, <2>3, <2>6, ApartSame
  <2> QED
    BY <2>7, <2>8 DEF d, v
<1>8. Separate'
  <2> SUFFICES ASSUME ~unmapped', NEW c \in Bases
               PROVE  /\ Apart(disk'[c].txt, disk'[c].hdr, HasOnDisk(c)', disk'[c].used)
                      /\ Apart(disk'[c].txt, disk'[c].hdr, Has(c)', mem'.used[c] \ Mine(c)')
    BY DEF Separate
  <2>1. /\ Apart(disk'[c].txt, disk[c].hdr, HasOnDisk(c), disk[c].used)
        /\ Apart(disk'[c].txt, disk[c].hdr, Has(c), mem.used[c] \ Mine(c))
    BY <1>1, <1>7
  <2>2. Apart(disk'[c].txt, disk[c].hdr, HasOnDisk(c)', disk[c].used)
    BY <2>1, <1>6, ApartLess
  <2>3. Apart(disk'[c].txt, disk[c].hdr, Has(c)', mem.used[c] \ Mine(c))
    BY <2>1, <1>6, ApartLess
  <2> QED
    BY <2>2, <2>3, <1>2
<1>9. NoneLost'
  <2> SUFFICES ASSUME Quiet', ~leaked', NEW c \in Bases
               PROVE  /\ Settled(c)' => Exactly(disk'[c].txt, disk'[c].hdr, HasOnDisk(c)', disk'[c].used)
                      /\ Exactly(disk'[c].txt, disk'[c].hdr, Has(c)', mem'.used[c] \ Mine(c)')
    BY DEF NoneLost
  <2>1. /\ Settled(c) => Exactly(disk[c].txt, disk[c].hdr, HasOnDisk(c), disk[c].used)
        /\ Exactly(disk[c].txt, disk[c].hdr, Has(c), mem.used[c] \ Mine(c))
    BY <1>1 DEF NoneLost
  <2>2. Settled(c)' => Settled(c)
    BY DEF Settled, BitmapFirst
  <2>3. ~unmapped
    BY <1>1
  <2> QED
    BY <2>1, <2>2, <2>3, <1>2, <1>6, <1>7
<1> QED
  BY <1>4, <1>5, <1>8, <1>9

LEMMA SizeFacts == \A t \in Texts : Size(t) \in Nat \ {0}
BY MsgBaseAssumption DEF Size, Texts

LEMMA WritingFacts ==
  ASSUME Stores, Writing, Working
  PROVE  /\ w.base \in Bases /\ w.text \in Texts /\ Size(w.text) \in Nat
         /\ w.first \in Sectors /\ w.rec \in Sectors /\ w.part \in Nat \ {0}
         /\ disk[w.base].txt \in [Sectors -> SectorSet]
         /\ Building(disk[w.base].txt, w.first, w.text, w.rec, w.part)
         /\ Mine(w.base) = Begun(disk[w.base].txt, w.first, w.part)
         /\ w.rec \in Mine(w.base) /\ w.first \in Mine(w.base)
         /\ Mine(w.base) \subseteq mem.used[w.base]
         /\ \A c \in Bases : c # w.base => Mine(c) = {}
<1> DEFINE t == disk[w.base].txt
           c == LinksIn(t, w.first)
<1>1. /\ w.base \in Bases /\ w.text \in Texts /\ Building(t, w.first, w.text, w.rec, w.part)
      /\ Mine(w.base) \subseteq mem.used[w.base] /\ w.first \in 0 .. N
  BY DEF Stores, Writing
<1>2. t \in [Sectors -> SectorSet]
  BY <1>1 DEF Stores, BaseSet
<1>3. Size(w.text) \in Nat
  BY <1>1, SizeFacts
<1>4. Mine(w.base) = Begun(t, w.first, w.part)
  BY <1>1 DEF Mine
<1>5. w.part \in 1 .. N /\ N \in Nat /\ c[w.part - 1] = w.rec
      /\ \A k \in 1 .. w.part : c[k - 1] \in Sectors /\ c[k - 1] \in Begun(t, w.first, w.part)
  BY <1>1, SectorCount DEF Building, Begun
<1>6. c[0] = w.first
  BY <1>1, <1>2, LinksSteps
<1> HIDE DEF c
<1>7. w.part \in 1 .. w.part /\ 1 \in 1 .. w.part /\ 1 - 1 = 0 /\ w.part \in Nat \ {0}
  BY <1>5
<1>8. w.rec \in Sectors /\ w.rec \in Begun(t, w.first, w.part)
  BY <1>5, <1>7
<1>9. w.first \in Sectors /\ w.first \in Begun(t, w.first, w.part)
  BY <1>5, <1>6, <1>7
<1>10. \A b \in Bases : b # w.base => Mine(b) = {}
  BY DEF Mine
<1> QED
  BY <1>1, <1>2, <1>3, <1>4, <1>7, <1>8, <1>9, <1>10

\* putctxt and putstxt: a sector is written, and the next one claimed.
LEMMA LinkStep ==
  ASSUME Stores, Rest, Shape, Goes, UNCHANGED job, PutLink, pc = "put", pc' = "put"
  PROVE  (Stores /\ Shape)'
<1> DEFINE b == w.base
           t == disk[b].txt
           x == Getfree(b)
           u == disk'[b].txt
<1>0. Working /\ Working'
  BY DEF Working
<1>1. /\ b \in Bases /\ w.text \in Texts /\ Size(w.text) \in Nat
      /\ w.first \in Sectors /\ w.rec \in Sectors /\ w.part \in Nat \ {0}
      /\ t \in [Sectors -> SectorSet] /\ Building(t, w.first, w.text, w.rec, w.part)
      /\ Mine(b) = Begun(t, w.first, w.part) /\ w.rec \in Mine(b)
      /\ Mine(b) \subseteq mem.used[b] /\ \A c \in Bases : c # b => Mine(c) = {}
  BY <1>0, WritingFacts DEF Shape
<1>2. /\ w.part < Size(w.text)
      /\ disk' = [disk EXCEPT ![b].txt[w.rec] = Sector(w.text, w.part, x)]
      /\ mem' = [mem EXCEPT !.used[b] = @ \cup {x}]
      /\ w' = [w EXCEPT !.rec = x, !.part = @ + 1]
  BY DEF PutLink
<1>3. x \in Sectors /\ x \notin mem.used[b]
  BY <1>1, GetfreeFacts DEF PutLink
<1> HIDE DEF x
<1>4. x \in 0 .. N
  BY <1>3, SectorCount DEF Sectors, N
<1>5. Sector(w.text, w.part, x) \in SectorSet
  BY <1>1, <1>4 DEF Sector, SectorSet
<1>6. u = [t EXCEPT ![w.rec] = Sector(w.text, w.part, x)]
  BY <1>1, <1>2 DEF Stores, BaseSet
<1>7. /\ u \in [Sectors -> SectorSet] /\ u[w.rec] = Sector(w.text, w.part, x)
      /\ \A y \in Sectors : y # w.rec => u[y] = t[y]
  BY <1>1, <1>5, <1>6
<1>8. \A c \in Bases : /\ disk'[c].hdr = disk[c].hdr /\ disk'[c].used = disk[c].used
                       /\ disk'[c].top = disk[c].top /\ (c # b => disk'[c].txt = disk[c].txt)
  BY <1>1, <1>2 DEF Stores
<1>9. Stores'
  <2>1. disk' \in [Bases -> BaseSet]
    <3>1. disk' = [disk EXCEPT ![b] = [@ EXCEPT !.txt = u]]
      BY <1>1, <1>2, <1>6 DEF Stores
    <3>2. disk[b] \in BaseSet
      BY <1>1 DEF Stores
    <3>3. u \in [Sectors -> SectorSet]
      BY <1>7
    <3> HIDE DEF u
    <3>4. [disk[b] EXCEPT !.txt = u] \in BaseSet
      BY <3>2, <3>3 DEF BaseSet
    <3> QED
      BY <3>1, <3>4, <1>1 DEF Stores
  <2>2. mem' \in [used : [Bases -> SUBSET Sectors], top : [Bases -> Nat]]
    BY <1>1, <1>2, <1>3 DEF Stores
  <2>3. w' \in [base : Bases, text : Texts \cup {NoText}, first : 0 .. N, rec : 0 .. N, part : Nat]
    <3>1. w \in [base : Bases, text : Texts \cup {NoText}, first : 0 .. N, rec : 0 .. N, part : Nat]
      BY DEF Stores
    <3>2. w.part + 1 \in Nat
      BY <1>1
    <3> QED
      BY <3>1, <3>2, <1>2, <1>4
  <2> QED
    BY <2>1, <2>2, <2>3 DEF Stores
<1>10. /\ w'.base = b /\ w'.text = w.text /\ w'.first = w.first /\ w'.rec = x
       /\ w'.part = w.part + 1
  BY <1>2 DEF Stores
<1>11. /\ mem'.used[b] = mem.used[b] \cup {x} /\ mem'.top = mem.top
       /\ \A c \in Bases : c # b => mem'.used[c] = mem.used[c]
  BY <1>1, <1>2 DEF Stores
<1>12. /\ Building(u, w.first, w.text, x, w.part + 1)
       /\ Begun(u, w.first, w.part + 1) = Begun(t, w.first, w.part) \cup {x}
       /\ \A y \in Sectors \ Begun(t, w.first, w.part) : u[y] = t[y]
       /\ u[w.first].text \in Texts
  <2> HIDE DEF t, u, b
  <2>1. x \notin Begun(t, w.first, w.part)
    BY <1>1, <1>3
  <2> QED
    BY <1>1, <1>2, <1>3, <1>7, <2>1, BuildingGoesOn
<1>13. Mine(b)' = Mine(b) \cup {x} /\ \A c \in Bases : c # b => Mine(c)' = {}
  BY <1>0, <1>1, <1>10, <1>12 DEF Mine
<1>14. Writing'
  <2>1. Mine(b)' \subseteq mem'.used[b]
    BY <1>1, <1>11, <1>13
  <2> QED
    BY <2>1, <1>1, <1>10, <1>12 DEF Writing
<1>15. TextStep(b, u)
  <2>1. \A y \in Sectors \ Mine(b) : u[y] = t[y]
    BY <1>1, <1>12
  <2>2. \A y \in Sectors : t[y].text \in Texts => u[y].text \in Texts
    <3>1. u[w.rec].text \in Texts
      BY <1>1, <1>7 DEF Sector
    <3> QED
      BY <3>1, <1>7
  <2>3. mem'.used[b] \ Mine(b)' = mem.used[b] \ Mine(b)
    BY <1>3, <1>11, <1>13
  <2> QED
    BY <2>1, <2>2, <2>3, <1>1, <1>8, <1>11, <1>13 DEF TextStep
<1>16. (Headed /\ Separate /\ Bitmaps /\ NoneLost)'
  <2> HIDE DEF u, b
  <2> QED
    BY <1>1, <1>7, <1>15, TextWritten
<1> QED
  BY <1>9, <1>14, <1>16 DEF Shape

\* flushtxt: the last sector is written.
LEMMA FlushStep ==
  ASSUME Stores, Rest, Shape, Goes, UNCHANGED <<mem, w, job>>, Flush, pc = "put", pc' = "hdr"
  PROVE  (Stores /\ Shape)'
<1> DEFINE b == w.base
           t == disk[b].txt
           u == disk'[b].txt
<1>0. Working /\ Working'
  BY DEF Working
<1>1. /\ b \in Bases /\ w.text \in Texts /\ Size(w.text) \in Nat
      /\ w.first \in Sectors /\ w.rec \in Sectors /\ w.part \in Nat \ {0}
      /\ t \in [Sectors -> SectorSet] /\ Building(t, w.first, w.text, w.rec, w.part)
      /\ Mine(b) = Begun(t, w.first, w.part) /\ w.rec \in Mine(b)
      /\ Mine(b) \subseteq mem.used[b] /\ \A c \in Bases : c # b => Mine(c) = {}
  BY <1>0, WritingFacts DEF Shape
<1>2. /\ w.part = Size(w.text)
      /\ disk' = [disk EXCEPT ![b].txt[w.rec] = Sector(w.text, w.part, 0)]
  BY DEF Flush
<1>5. Sector(w.text, w.part, 0) \in SectorSet
  BY <1>1, SectorCount DEF Sector, SectorSet
<1>6. u = [t EXCEPT ![w.rec] = Sector(w.text, w.part, 0)]
  BY <1>1, <1>2 DEF Stores
<1>7. /\ u \in [Sectors -> SectorSet] /\ u[w.rec] = Sector(w.text, w.part, 0)
      /\ \A y \in Sectors : y # w.rec => u[y] = t[y]
  BY <1>1, <1>5, <1>6
<1>8. \A c \in Bases : /\ disk'[c].hdr = disk[c].hdr /\ disk'[c].used = disk[c].used
                       /\ disk'[c].top = disk[c].top /\ (c # b => disk'[c].txt = disk[c].txt)
  BY <1>1, <1>2 DEF Stores
<1>9. Stores'
  <2>1. disk' \in [Bases -> BaseSet]
    <3>1. disk' = [disk EXCEPT ![b] = [@ EXCEPT !.txt = u]]
      BY <1>1, <1>2, <1>6 DEF Stores
    <3>2. disk[b] \in BaseSet
      BY <1>1 DEF Stores
    <3>3. u \in [Sectors -> SectorSet]
      BY <1>7
    <3> HIDE DEF u
    <3>4. [disk[b] EXCEPT !.txt = u] \in BaseSet
      BY <3>2, <3>3 DEF BaseSet
    <3> QED
      BY <3>1, <3>4, <1>1 DEF Stores
  <2> QED
    BY <2>1 DEF Stores
<1>12. /\ Building(u, w.first, w.text, w.rec, w.part)
       /\ Begun(u, w.first, w.part) = Begun(t, w.first, w.part)
       /\ Whole(u, w.first, w.text) /\ ChainIn(u, w.first) = Begun(u, w.first, w.part)
       /\ \A y \in Sectors \ Begun(t, w.first, w.part) : u[y] = t[y]
       /\ u[w.first].text \in Texts
  <2> HIDE DEF t, u, b
  <2> QED
    BY <1>1, <1>2, <1>7, BuildingEnds
<1>13. \A c \in Bases : Mine(c)' = Mine(c)
  BY <1>0, <1>1, <1>12 DEF Mine
<1>14. Writing'
  BY <1>1, <1>12, <1>13 DEF Writing
<1>15. TextStep(b, u)
  <2>1. \A y \in Sectors \ Mine(b) : u[y] = t[y]
    BY <1>1, <1>12
  <2>2. \A y \in Sectors : t[y].text \in Texts => u[y].text \in Texts
    <3>1. u[w.rec].text \in Texts
      BY <1>1, <1>7 DEF Sector
    <3> QED
      BY <3>1, <1>7
  <2> QED
    BY <2>1, <2>2, <1>1, <1>8, <1>13 DEF TextStep
<1>16. (Headed /\ Separate /\ Bitmaps /\ NoneLost)'
  <2> HIDE DEF u, b
  <2> QED
    BY <1>1, <1>7, <1>15, TextWritten
<1> QED
  BY <1>9, <1>14, <1>16 DEF Shape

\* writeh and write_hdr: the message counts, and what was the writer's is the message's.
LEMMA HeaderStep ==
  ASSUME Stores, Rest, Shape, Goes, UNCHANGED w, NEW h \in Headers, PutHeader(w.base, h),
         h.first = w.first, h.text = w.text, h.flags \cap {"PROCESSED", "DELETED"} = {},
         "INCOMING" \in h.flags => h.flags \cap {"OUTGOING", "INTRANSIT"} = {},
         pc = "hdr", pc' \notin {"idle", "put", "hdr", "del", "mark", "top"},
         Quiet' /\ ~leaked' => \A b \in Bases : Settled(b)' => Settled(b)
  PROVE  (Stores /\ Shape)'
<1> USE DEF Shape
<1>0. Working /\ ~Working'
  BY DEF Working
<1>a. PICK b \in Bases : b = w.base
  BY <1>0, WritingFacts
<1>b. PICK n : n = mem.top[b] + 1
  OBVIOUS
<1> DEFINE t == disk[b].txt
           old == disk[b].hdr
           g == disk'[b].hdr
<1>1. /\ b \in Bases /\ w.text \in Texts /\ w.first \in Sectors
      /\ t \in [Sectors -> SectorSet]
      /\ Mine(b) \subseteq mem.used[b] /\ \A c \in Bases : c # b => Mine(c) = {}
  BY <1>0, <1>a, WritingFacts
<1>2. Whole(t, w.first, w.text) /\ ChainIn(t, w.first) = Mine(b) /\ t[w.first].text \in Texts
  BY <1>0, <1>a DEF Writing
<1>3. /\ Quiet' => Quiet
      /\ ~leaked' => ~leaked
      /\ ~unmapped' => ~unmapped
      /\ unmapped' => faults' > 0
      /\ Quiet' => ~unmapped'
  BY GoesFacts
<1>4. /\ disk[b] \in BaseSet /\ old \in Seq(Headers) /\ mem.top[b] \in Nat /\ n \in Nat \ {0}
      /\ mem \in [used : [Bases -> SUBSET Sectors], top : [Bases -> Nat]]
      /\ disk \in [Bases -> BaseSet]
  <2>1. disk[b] \in BaseSet /\ mem.top[b] \in Nat
    BY <1>1 DEF Stores
  <2>2. old \in Seq(Headers)
    BY <2>1 DEF BaseSet
  <2>3. n \in Nat \ {0}
    BY <2>1, <1>b
  <2> QED
    BY <2>1, <2>2, <2>3 DEF Stores
<1>5. /\ disk' = [disk EXCEPT ![b].hdr = [i \in 1 .. (IF n > Len(old) THEN n ELSE Len(old)) |->
                                            IF i = n THEN h ELSE old[i]]]
      /\ mem' = [mem EXCEPT !.top[b] = n]
  BY <1>a, <1>b DEF PutHeader
<1>6. g = [i \in 1 .. (IF n > Len(old) THEN n ELSE Len(old)) |-> IF i = n THEN h ELSE old[i]]
  BY <1>1, <1>4, <1>5 DEF BaseSet
<1>7. disk[b].top <= mem.top[b] /\ mem.top[b] <= Len(old) /\ Len(old) \in Nat
      /\ DOMAIN old = 1 .. Len(old) /\ disk[b].top \in Nat
  <2>1. Count(b) = mem.top[b]
    BY DEF Count
  <2>2. disk[b].top \in Nat
    BY <1>4 DEF BaseSet
  <2> QED
    BY <1>1, <1>4, <2>1, <2>2 DEF Headed
<1>8. /\ \A i \in DOMAIN old : i \in DOMAIN g /\ (i # n => g[i] = old[i])
      /\ n \in DOMAIN g /\ g[n] = h
      /\ \A i \in DOMAIN g : i = n \/ i \in DOMAIN old
      /\ Len(g) \in Nat /\ n <= Len(g) /\ g \in Seq(Headers)
  <2> HIDE DEF g
  <2> DEFINE len == IF n > Len(old) THEN n ELSE Len(old)
  <2>1. len \in Nat /\ Len(old) <= len /\ n <= len /\ (len = n \/ len = Len(old))
    BY <1>4, <1>7
  <2>2. n <= Len(old) + 1
    BY <1>4, <1>7, <1>b
  <2>3. DOMAIN g = 1 .. len /\ \A i \in 1 .. len : g[i] = IF i = n THEN h ELSE old[i]
    BY <1>6
  <2> HIDE DEF len
  <2>4. \A i \in 1 .. len : i = n \/ i \in DOMAIN old
    <3>1. \A i \in 1 .. len : i # n => i <= Len(old)
      BY <1>4, <1>7, <2>1, <2>2
    <3> QED
      BY <3>1, <1>7, <2>1
  <2>5. \A i \in 1 .. len : g[i] \in Headers
    BY <1>4, <2>3, <2>4
  <2>6. g \in [1 .. len -> Headers]
    BY <1>6, <2>5, <2>3 DEF len
  <2>7. g \in Seq(Headers) /\ Len(g) = len
    BY <2>1, <2>6
  <2>8. n \in 1 .. len /\ \A i \in DOMAIN old : i \in 1 .. len
    BY <1>4, <1>7, <2>1
  <2> QED
    BY <2>1, <2>3, <2>4, <2>7, <2>8
<1>9. \A c \in Bases : /\ disk'[c].used = disk[c].used /\ disk'[c].top = disk[c].top
                       /\ disk'[c].txt = disk[c].txt
                       /\ c # b => disk'[c].hdr = disk[c].hdr
                       /\ mem'.used[c] = mem.used[c]
                       /\ mem'.top[c] = IF c = b THEN n ELSE mem.top[c]
  BY <1>1, <1>4, <1>5 DEF BaseSet
<1>10. Stores'
  <2>1. disk' \in [Bases -> BaseSet]
    <3>1. disk' = [disk EXCEPT ![b] = [@ EXCEPT !.hdr = g]]
      BY <1>1, <1>4, <1>5, <1>6
    <3> HIDE DEF g
    <3>2. [disk[b] EXCEPT !.hdr = g] \in BaseSet
      BY <1>4, <1>8 DEF BaseSet
    <3> QED
      BY <3>1, <3>2, <1>1, <1>4
  <2>2. mem' \in [used : [Bases -> SUBSET Sectors], top : [Bases -> Nat]]
    BY <1>1, <1>4, <1>5
  <2> QED
    BY <2>1, <2>2 DEF Stores
<1> HIDE DEF g
<1>11. Writing'
  BY <1>0 DEF Writing
<1>12. \A c \in Bases : Count(c)' = (IF c = b THEN n ELSE Count(c)) /\ Mine(c)' = {}
  BY <1>0, <1>9 DEF Count, Mine
<1>13. Headed'
  <2> SUFFICES ASSUME NEW c \in Bases
               PROVE  /\ disk[c].top <= Count(c)' /\ Count(c)' <= Len(disk'[c].hdr)
                      /\ \A i \in DOMAIN disk'[c].hdr : LET f == disk'[c].hdr[i] IN
                           /\ disk[c].txt[f.first].text \in Texts
                           /\ "INCOMING" \in f.flags => f.flags \cap {"OUTGOING", "INTRANSIT"} = {}
    BY <1>9 DEF Headed
  <2>1. CASE c # b
    BY <2>1, <1>9, <1>12 DEF Headed
  <2>2. CASE c = b
    <3>1. disk[b].top <= n
      BY <1>4, <1>7, <1>b
    <3>2. \A i \in DOMAIN g : g[i] = h \/ (i \in DOMAIN old /\ g[i] = old[i])
      BY <1>8
    <3>3. \A i \in DOMAIN g : LET f == g[i] IN
            /\ t[f.first].text \in Texts
            /\ "INCOMING" \in f.flags => f.flags \cap {"OUTGOING", "INTRANSIT"} = {}
      BY <3>2, <1>1, <1>2 DEF Headed
    <3> QED
      BY <2>2, <3>1, <3>3, <1>8, <1>12 DEF g
  <2> QED
    BY <2>1, <2>2
<1>14. Bitmaps'
  BY <1>3 DEF Bitmaps, BitmapFirst
<1>15. /\ Has(b)' \subseteq Has(b) \cup {n} /\ HasOnDisk(b)' \subseteq HasOnDisk(b)
       /\ Quiet' => Has(b)' = Has(b) \cup {n} /\ HasOnDisk(b)' = HasOnDisk(b)
       /\ n \notin Has(b) /\ n \notin HasOnDisk(b)
       /\ \A i \in Has(b) : i \in DOMAIN old /\ g[i] = old[i]
       /\ \A i \in HasOnDisk(b) : i \in DOMAIN old /\ g[i] = old[i]
  <2>1. Count(b) = mem.top[b] /\ Count(b)' = n /\ disk'[b].top = disk[b].top
    BY <1>1, <1>9, <1>12 DEF Count
  <2>2. \A i \in 1 .. n : i = n \/ i \in 1 .. Count(b)
    BY <2>1, <1>4, <1>b
  <2>3. /\ n \in 1 .. n /\ \A i \in 1 .. Count(b) : i \in 1 .. n /\ i # n /\ i \in DOMAIN old
    BY <2>1, <1>4, <1>7, <1>b
  <2>4. \A i \in 1 .. disk[b].top : i \in 1 .. Count(b)
    BY <2>1, <1>4, <1>7
  <2>5. \A i \in 1 .. Count(b) : disk[b].hdr[i].flags' = disk[b].hdr[i].flags /\ g[i] = old[i]
    BY <2>3, <1>8 DEF g
  <2>6. \A i \in 1 .. Count(b) : (Kept(b, i)' => Kept(b, i)) /\ (Quiet' /\ Kept(b, i) => Kept(b, i)')
    BY <1>3, <2>5, KeptStep
  <2>7. Kept(b, n)'
    <3>1. disk'[b].hdr[n].flags = h.flags
      BY <1>8 DEF g
    <3> QED
      BY <3>1 DEF Kept
  <2>8. /\ Has(b) = {i \in 1 .. Count(b) : Kept(b, i)}
        /\ Has(b)' = {i \in 1 .. n : Kept(b, i)'}
        /\ HasOnDisk(b) = {i \in 1 .. disk[b].top : Kept(b, i)}
        /\ HasOnDisk(b)' = {i \in 1 .. disk[b].top : Kept(b, i)'}
    BY <2>1 DEF Has, HasOnDisk
  <2>9. Has(b)' \subseteq Has(b) \cup {n}
    BY <2>2, <2>6, <2>8
  <2>10. Quiet' => Has(b) \cup {n} \subseteq Has(b)'
    BY <2>3, <2>6, <2>7, <2>8
  <2>11. HasOnDisk(b)' \subseteq HasOnDisk(b) /\ (Quiet' => HasOnDisk(b)' = HasOnDisk(b))
    BY <2>4, <2>6, <2>8
  <2> QED
    BY <2>3, <2>4, <2>5, <2>8, <2>9, <2>10, <2>11
<1>16. ASSUME NEW c \in Bases, c # b
       PROVE  /\ Has(c)' \subseteq Has(c) /\ HasOnDisk(c)' \subseteq HasOnDisk(c)
              /\ Quiet' => Has(c)' = Has(c) /\ HasOnDisk(c)' = HasOnDisk(c)
  <2>1. Count(c)' = Count(c) /\ disk'[c].hdr = disk[c].hdr /\ disk'[c].top = disk[c].top
    BY <1>9, <1>12, <1>16
  <2>2. \A i : (Kept(c, i)' => Kept(c, i)) /\ (Quiet' /\ Kept(c, i) => Kept(c, i)')
    BY <1>3, <2>1, KeptStep
  <2> QED
    BY <2>1, <2>2 DEF Has, HasOnDisk
<1>17. ASSUME ~unmapped
       PROVE  /\ Apart(t, g, HasOnDisk(b), disk[b].used)
              /\ Apart(t, g, Has(b) \cup {n}, mem.used[b])
              /\ Exactly(t, old, HasOnDisk(b), disk[b].used)
                   => Exactly(t, g, HasOnDisk(b), disk[b].used)
              /\ Exactly(t, old, Has(b), mem.used[b] \ Mine(b))
                   => Exactly(t, g, Has(b) \cup {n}, mem.used[b])
  <2> DEFINE a == mem.used[b] \ Mine(b)
  <2>1. Apart(t, old, HasOnDisk(b), disk[b].used) /\ Apart(t, old, Has(b), a)
    BY <1>1, <1>17 DEF Separate
  <2>2. \A i \in DOMAIN old : old[i].first \in Sectors
    BY <1>1, HasFacts
  <2>3. \A i \in Has(b) : old[i].first \in Sectors
    BY <2>2, <1>15
  <2>4. \A i \in HasOnDisk(b) : old[i].first \in Sectors
    BY <2>2, <1>15
  <2>5. Agree(t, old, t, g, Has(b)) /\ Agree(t, old, t, g, HasOnDisk(b))
    BY <1>15 DEF Agree
  <2>6. mem.used[b] = a \cup Mine(b) /\ a \cap Mine(b) = {}
    BY <1>1
  <2> HIDE DEF t, a, old
  <2>7. /\ Apart(t, g, HasOnDisk(b), disk[b].used)
        /\ \A d : Exactly(t, old, HasOnDisk(b), d) => Exactly(t, g, HasOnDisk(b), d)
    BY <2>1, <2>4, <2>5, <1>1, ApartSame
  <2>8. /\ Apart(t, g, Has(b), a)
        /\ \A d : Exactly(t, old, Has(b), d) => Exactly(t, g, Has(b), d)
    BY <2>1, <2>3, <2>5, <1>1, ApartSame
  <2>9. /\ Whole(t, g[n].first, g[n].text) /\ ChainIn(t, g[n].first) = Mine(b)
    BY <1>2, <1>8
  <2>10. /\ Apart(t, g, Has(b) \cup {n}, a \cup ChainIn(t, g[n].first))
         /\ Exactly(t, g, Has(b), a) => Exactly(t, g, Has(b) \cup {n}, a \cup ChainIn(t, g[n].first))
    BY <2>6, <2>8, <2>9, <1>15, ApartMore
  <2> QED
    BY <2>6, <2>7, <2>8, <2>9, <2>10 DEF a
<1>18. Separate'
  <2> SUFFICES ASSUME ~unmapped', NEW c \in Bases
               PROVE  /\ Apart(disk'[c].txt, disk'[c].hdr, HasOnDisk(c)', disk'[c].used)
                      /\ Apart(disk'[c].txt, disk'[c].hdr, Has(c)', mem'.used[c] \ Mine(c)')
    BY DEF Separate
  <2>0. mem'.used[c] \ Mine(c)' = mem.used[c]
    BY <1>9, <1>12
  <2>1. CASE c # b
    <3>1. /\ Apart(disk[c].txt, disk[c].hdr, HasOnDisk(c), disk[c].used)
          /\ Apart(disk[c].txt, disk[c].hdr, Has(c), mem.used[c] \ Mine(c))
      BY <1>3 DEF Separate
    <3>2. Apart(disk[c].txt, disk[c].hdr, HasOnDisk(c)', disk[c].used)
      BY <3>1, <2>1, <1>16, ApartLess
    <3>3. mem.used[c] \ Mine(c) \subseteq mem.used[c]
      OBVIOUS
    <3>4. Apart(disk[c].txt, disk[c].hdr, Has(c)', mem.used[c])
      BY <3>1, <3>3, <2>1, <1>16, ApartLess
    <3> QED
      BY <3>2, <3>4, <2>0, <2>1, <1>9
  <2>2. CASE c = b
    <3>1. Apart(t, g, HasOnDisk(b), disk[b].used) /\ Apart(t, g, Has(b) \cup {n}, mem.used[b])
      BY <1>3, <1>17
    <3>2. Apart(t, g, HasOnDisk(b)', disk[b].used)
      BY <3>1, <1>15, ApartLess
    <3>3. Apart(t, g, Has(b)', mem.used[b])
      BY <3>1, <1>15, ApartLess
    <3> QED
      BY <3>2, <3>3, <2>0, <2>2, <1>1, <1>9 DEF g
  <2> QED
    BY <2>1, <2>2
<1>19. NoneLost'
  <2> SUFFICES ASSUME Quiet', ~leaked', NEW c \in Bases
               PROVE  /\ Settled(c)' => Exactly(disk'[c].txt, disk'[c].hdr, HasOnDisk(c)', disk'[c].used)
                      /\ Exactly(disk'[c].txt, disk'[c].hdr, Has(c)', mem'.used[c] \ Mine(c)')
    BY DEF NoneLost
  <2>0. mem'.used[c] \ Mine(c)' = mem.used[c]
    BY <1>9, <1>12
  <2>1. /\ Settled(c)' => Exactly(disk[c].txt, disk[c].hdr, HasOnDisk(c), disk[c].used)
        /\ Exactly(disk[c].txt, disk[c].hdr, Has(c), mem.used[c] \ Mine(c))
    BY <1>3 DEF NoneLost
  <2>2. CASE c # b
    <3>1. mem.used[c] \ Mine(c) = mem.used[c]
      BY <2>2, <1>1
    <3> QED
      BY <3>1, <2>0, <2>1, <2>2, <1>9, <1>16
  <2>3. CASE c = b
    <3>1. /\ Settled(b)' => Exactly(t, g, HasOnDisk(b), disk[b].used)
          /\ Exactly(t, g, Has(b) \cup {n}, mem.used[b])
      BY <2>1, <2>3, <1>3, <1>17
    <3>2. Has(b)' = Has(b) \cup {n} /\ HasOnDisk(b)' = HasOnDisk(b)
      BY <1>15
    <3> QED
      BY <3>1, <3>2, <2>0, <2>3, <1>1, <1>9 DEF g
  <2> QED
    BY <2>2, <2>3
<1> QED
  BY <1>10, <1>11, <1>13, <1>14, <1>18, <1>19

\* A flag is set in the header of a message.
LEMMA FlagStep ==
  ASSUME Stores, Rest, Shape, Goes, UNCHANGED <<mem, w>>, NEW b \in Bases,
         NEW i \in 1 .. Count(b), NEW flag \in {"PROCESSED", "DELETED"}, SetFlag(b, i, flag),
         pc \notin {"idle", "put", "hdr"}, pc' \notin {"idle", "put", "hdr", "top"},
         \A c \in Bases : \A j \in 1 .. Count(c) : /\ Kept(c, j)' => Kept(c, j)
                                                   /\ Quiet' /\ Kept(c, j) => Kept(c, j)',
         Quiet' /\ ~leaked' => \A c \in Bases : Settled(c)' => Settled(c)
  PROVE  (Stores /\ Shape)'
<1> USE DEF Shape
<1> DEFINE old == disk[b].hdr
           g == disk'[b].hdr
           f == old[i].flags \cup {flag}
<1>1. /\ Quiet' => Quiet
      /\ ~leaked' => ~leaked
      /\ ~unmapped' => ~unmapped
      /\ unmapped' => faults' > 0
      /\ Quiet' => ~unmapped'
  BY GoesFacts
<1>2. disk \in [Bases -> BaseSet] /\ disk[b] \in BaseSet /\ old \in Seq(Headers)
  <2>1. disk \in [Bases -> BaseSet] /\ disk[b] \in BaseSet
    BY DEF Stores
  <2> QED
    BY <2>1 DEF BaseSet
<1>3. i \in DOMAIN old /\ old[i] \in Headers
  <2>1. Count(b) <= Len(old) /\ Count(b) \in Nat /\ Len(old) \in Nat
    BY <1>2, HasFacts DEF Headed
  <2>2. i \in DOMAIN old
    BY <1>2, <2>1
  <2> QED
    BY <1>2, <2>2
<1>4. g = [old EXCEPT ![i] = [@ EXCEPT !.flags = f]]
  BY <1>2, <1>3 DEF SetFlag, BaseSet
<1>5. \A c \in Bases : /\ disk'[c].used = disk[c].used /\ disk'[c].top = disk[c].top
                       /\ disk'[c].txt = disk[c].txt /\ (c # b => disk'[c].hdr = disk[c].hdr)
  BY <1>2 DEF SetFlag, BaseSet
<1>6. [old[i] EXCEPT !.flags = f] \in Headers
  <2>1. f \in SUBSET Flags
    BY <1>3 DEF Headers, Flags
  <2> HIDE DEF f, old
  <2> QED
    BY <1>3, <2>1 DEF Headers
<1>7. g \in Seq(Headers) /\ Len(g) = Len(old)
  <2> HIDE DEF f, old, g
  <2>1. old \in [1 .. Len(old) -> Headers] /\ Len(old) \in Nat
    BY <1>2
  <2>2. g \in [1 .. Len(old) -> Headers]
    BY <1>3, <1>4, <1>6, <2>1
  <2> QED
    BY <2>1, <2>2
<1>8. \A c \in Bases : /\ DOMAIN disk'[c].hdr = DOMAIN disk[c].hdr
                       /\ Len(disk'[c].hdr) = Len(disk[c].hdr)
                       /\ \A j \in DOMAIN disk[c].hdr :
                            /\ disk'[c].hdr[j].first = disk[c].hdr[j].first
                            /\ disk'[c].hdr[j].text = disk[c].hdr[j].text
                            /\ disk'[c].hdr[j].flags = disk[c].hdr[j].flags
                               \/ disk'[c].hdr[j].flags = disk[c].hdr[j].flags \cup {flag}
  <2> SUFFICES ASSUME NEW c \in Bases
               PROVE  /\ DOMAIN disk'[c].hdr = DOMAIN disk[c].hdr
                      /\ Len(disk'[c].hdr) = Len(disk[c].hdr)
                      /\ \A j \in DOMAIN disk[c].hdr :
                            /\ disk'[c].hdr[j].first = disk[c].hdr[j].first
                            /\ disk'[c].hdr[j].text = disk[c].hdr[j].text
                            /\ disk'[c].hdr[j].flags = disk[c].hdr[j].flags
                               \/ disk'[c].hdr[j].flags = disk[c].hdr[j].flags \cup {flag}
    OBVIOUS
  <2>1. CASE c # b
    BY <2>1, <1>5
  <2>2. CASE c = b
    <3>1. DOMAIN g = DOMAIN old
      BY <1>4
    <3>2. [old[i] EXCEPT !.flags = f].first = old[i].first
          /\ [old[i] EXCEPT !.flags = f].text = old[i].text
          /\ [old[i] EXCEPT !.flags = f].flags = old[i].flags \cup {flag}
      BY <1>3 DEF Headers
    <3>3. \A j \in DOMAIN old : g[j] = IF j = i THEN [old[i] EXCEPT !.flags = f] ELSE old[j]
      BY <1>4
    <3> HIDE DEF old, g, f
    <3>4. \A j \in DOMAIN old : /\ g[j].first = old[j].first /\ g[j].text = old[j].text
                                /\ \/ g[j].flags = old[j].flags
                                   \/ g[j].flags = old[j].flags \cup {flag}
      BY <3>2, <3>3
    <3> QED
      BY <2>2, <3>1, <3>4, <1>7 DEF old, g
  <2> QED
    BY <2>1, <2>2
<1>9. Stores'
  <2>1. disk' = [disk EXCEPT ![b] = [@ EXCEPT !.hdr = g]]
    BY <1>2, <1>4 DEF SetFlag
  <2> HIDE DEF g
  <2>2. [disk[b] EXCEPT !.hdr = g] \in BaseSet
    BY <1>2, <1>7 DEF BaseSet
  <2>3. disk' \in [Bases -> BaseSet]
    BY <2>1, <2>2, <1>2
  <2> QED
    BY <2>3 DEF Stores
<1> HIDE DEF g, old, f
<1>10. Writing'
  BY DEF Writing, Working
<1>11. \A c \in Bases : Count(c)' = Count(c) /\ Mine(c)' = {} /\ Mine(c) = {}
  BY <1>5 DEF Count, Mine, Working
<1>12. Headed'
  <2> SUFFICES ASSUME NEW c \in Bases
               PROVE  /\ disk[c].top <= Count(c) /\ Count(c) <= Len(disk[c].hdr)
                      /\ \A j \in DOMAIN disk[c].hdr : LET h == disk'[c].hdr[j] IN
                           /\ disk[c].txt[h.first].text \in Texts
                           /\ "INCOMING" \in h.flags => h.flags \cap {"OUTGOING", "INTRANSIT"} = {}
    BY <1>5, <1>8, <1>11 DEF Headed
  <2> QED
    BY <1>8 DEF Headed
<1>13. Bitmaps'
  BY <1>1 DEF Bitmaps, BitmapFirst
<1>14. ASSUME NEW c \in Bases
       PROVE  /\ Has(c)' \subseteq Has(c) /\ HasOnDisk(c)' \subseteq HasOnDisk(c)
              /\ Quiet' => Has(c)' = Has(c) /\ HasOnDisk(c)' = HasOnDisk(c)
  <2>1. Count(c)' = Count(c) /\ disk'[c].top = disk[c].top
    BY <1>5, <1>11
  <2>2. \A j \in 1 .. disk[c].top : j \in 1 .. Count(c)
    <3>1. disk[c].top <= Count(c) /\ disk[c].top \in Nat /\ Count(c) \in Nat
      BY HasFacts DEF Headed
    <3> QED
      BY <3>1
  <2> QED
    BY <2>1, <2>2 DEF Has, HasOnDisk
<1>15. ASSUME ~unmapped, NEW c \in Bases
      PROVE  LET d == disk[c] IN
             /\ Apart(d.txt, disk'[c].hdr, HasOnDisk(c), d.used)
             /\ Apart(d.txt, disk'[c].hdr, Has(c), mem.used[c] \ Mine(c))
             /\ \A e : Exactly(d.txt, d.hdr, HasOnDisk(c), e)
                         => Exactly(d.txt, disk'[c].hdr, HasOnDisk(c), e)
             /\ \A e : Exactly(d.txt, d.hdr, Has(c), e)
                         => Exactly(d.txt, disk'[c].hdr, Has(c), e)
  <2> DEFINE d == disk[c]
             v == disk'[c].hdr
  <2>1. Apart(d.txt, d.hdr, HasOnDisk(c), d.used) /\ Apart(d.txt, d.hdr, Has(c), mem.used[c] \ Mine(c))
    BY <1>15 DEF Separate
  <2>2. /\ d.txt \in [Sectors -> SectorSet]
        /\ HasOnDisk(c) \subseteq Has(c) /\ Has(c) \subseteq DOMAIN d.hdr
        /\ \A j \in DOMAIN d.hdr : d.hdr[j].first \in Sectors
    BY HasFacts
  <2>3. \A j \in DOMAIN d.hdr : v[j].first = d.hdr[j].first /\ v[j].text = d.hdr[j].text
    BY <1>8
  <2> HIDE DEF d, v
  <2>6. Agree(d.txt, d.hdr, d.txt, v, Has(c)) /\ Agree(d.txt, d.hdr, d.txt, v, HasOnDisk(c))
    BY <2>2, <2>3 DEF Agree
  <2>7. /\ Apart(d.txt, v, HasOnDisk(c), d.used)
        /\ \A e : Exactly(d.txt, d.hdr, HasOnDisk(c), e) => Exactly(d.txt, v, HasOnDisk(c), e)
    BY <2>1, <2>2, <2>6, ApartSame
  <2>8. /\ Apart(d.txt, v, Has(c), mem.used[c] \ Mine(c))
        /\ \A e : Exactly(d.txt, d.hdr, Has(c), e) => Exactly(d.txt, v, Has(c), e)
    BY <2>1, <2>2, <2>6, ApartSame
  <2> QED
    BY <2>7, <2>8 DEF d, v
<1>16. Separate'
  <2> SUFFICES ASSUME ~unmapped', NEW c \in Bases
               PROVE  /\ Apart(disk'[c].txt, disk'[c].hdr, HasOnDisk(c)', disk'[c].used)
                      /\ Apart(disk'[c].txt, disk'[c].hdr, Has(c)', mem'.used[c] \ Mine(c)')
    BY DEF Separate
  <2>1. /\ Apart(disk[c].txt, disk'[c].hdr, HasOnDisk(c), disk[c].used)
        /\ Apart(disk[c].txt, disk'[c].hdr, Has(c), mem.used[c] \ Mine(c))
    BY <1>1, <1>15
  <2>2. Apart(disk[c].txt, disk'[c].hdr, HasOnDisk(c)', disk[c].used)
    BY <2>1, <1>14, ApartLess
  <2>3. Apart(disk[c].txt, disk'[c].hdr, Has(c)', mem.used[c] \ Mine(c))
    BY <2>1, <1>14, ApartLess
  <2> QED
    BY <2>2, <2>3, <1>5, <1>11
<1>17. NoneLost'
  <2> SUFFICES ASSUME Quiet', ~leaked', NEW c \in Bases
               PROVE  /\ Settled(c)' => Exactly(disk'[c].txt, disk'[c].hdr, HasOnDisk(c)', disk'[c].used)
                      /\ Exactly(disk'[c].txt, disk'[c].hdr, Has(c)', mem'.used[c] \ Mine(c)')
    BY DEF NoneLost
  <2>1. /\ Settled(c)' => Exactly(disk[c].txt, disk[c].hdr, HasOnDisk(c), disk[c].used)
        /\ Exactly(disk[c].txt, disk[c].hdr, Has(c), mem.used[c] \ Mine(c))
    BY <1>1 DEF NoneLost
  <2>2. ~unmapped
    BY <1>1
  <2> QED
    BY <2>1, <2>2, <1>5, <1>11, <1>14, <1>15
<1> QED
  BY <1>9, <1>10, <1>12, <1>13, <1>16, <1>17

\* The bitmap, the top, or both are written: what is used, and what counts, on the disk is at
\* most what the program has.
MapStep(b) ==
  /\ \A c \in Bases : /\ disk'[c].hdr = disk[c].hdr /\ disk'[c].txt = disk[c].txt
                      /\ mem'.top[c] = mem.top[c] /\ Mine(c)' = {}
                      /\ c # b => /\ disk'[c].used = disk[c].used /\ disk'[c].top = disk[c].top
                                  /\ mem'.used[c] = mem.used[c] /\ Mine(c) = {}
  /\ mem'.used[b] = mem.used[b] \ Mine(b)
  /\ disk'[b].top \in {disk[b].top, mem.top[b]}
  /\ ~unmapped => disk'[b].used = mem'.used[b]

LEMMA MapWritten ==
  ASSUME Stores, Rest, Shape, Goes, NEW b \in Bases, MapStep(b), Stores',
         pc # "idle", pc # "mark", pc' \notin {"idle", "put", "hdr", "del", "mark"},
         \A c \in Bases : BitmapFirst(c)' => c = b,
         Quiet' /\ ~leaked' => /\ \A c \in Bases : Settled(c)' /\ c # b => Settled(c)
                               /\ Settled(b)' => \/ disk'[b].top = mem.top[b]
                                                 \/ /\ Settled(b) /\ disk'[b].used = disk[b].used
                                                    /\ disk'[b].top = disk[b].top
  PROVE  Shape'
<1> USE DEF Shape
<1>1. /\ Quiet' => Quiet
      /\ ~leaked' => ~leaked
      /\ ~unmapped' => ~unmapped
      /\ unmapped' => faults' > 0
      /\ Quiet' => ~unmapped'
  BY GoesFacts
<1>2. /\ \A c \in Bases : /\ disk'[c].hdr = disk[c].hdr /\ disk'[c].txt = disk[c].txt
                          /\ mem'.top[c] = mem.top[c] /\ Mine(c)' = {}
                          /\ c # b => /\ disk'[c].used = disk[c].used /\ disk'[c].top = disk[c].top
                          /\ mem'.used[c] = mem.used[c] \ Mine(c)
      /\ disk'[b].top \in {disk[b].top, mem.top[b]}
      /\ ~unmapped => disk'[b].used = mem'.used[b]
  BY DEF MapStep
<1>3. \A c \in Bases : Count(c)' = Count(c) /\ Count(c) = mem.top[c]
  BY <1>2 DEF Count
<1>4. Writing'
  BY DEF Writing, Working
<1>5. Headed'
  <2> SUFFICES ASSUME NEW c \in Bases PROVE disk'[c].top <= Count(c)
    BY <1>2, <1>3 DEF Headed
  <2>1. disk[c].top <= Count(c) /\ Count(c) \in Nat
    BY HasFacts DEF Headed
  <2> QED
    BY <2>1, <1>2, <1>3
<1>6. Bitmaps'
  BY <1>1, <1>2 DEF Bitmaps
<1>7. ASSUME NEW c \in Bases
      PROVE  /\ Has(c)' \subseteq Has(c) /\ HasOnDisk(c)' \subseteq Has(c)
             /\ Quiet' => Has(c)' = Has(c)
             /\ disk'[c].top = disk[c].top => /\ HasOnDisk(c)' \subseteq HasOnDisk(c)
                                              /\ Quiet' => HasOnDisk(c)' = HasOnDisk(c)
             /\ disk'[c].top = mem.top[c] => HasOnDisk(c)' = Has(c)'
  <2>1. Count(c)' = Count(c) /\ disk'[c].hdr = disk[c].hdr /\ Count(c) = mem.top[c]
    BY <1>2, <1>3
  <2>2. \A i : (Kept(c, i)' => Kept(c, i)) /\ (Quiet' /\ Kept(c, i) => Kept(c, i)')
    BY <1>1, <2>1, KeptStep
  <2>3. disk'[c].top \in {disk[c].top, mem.top[c]}
    BY <1>2
  <2>4. \A j \in 1 .. disk'[c].top : j \in 1 .. Count(c)
    <3>1. disk[c].top <= Count(c) /\ disk[c].top \in Nat /\ Count(c) \in Nat
      BY HasFacts DEF Headed
    <3> QED
      BY <3>1, <2>1, <2>3
  <2>5. Has(c)' \subseteq Has(c) /\ HasOnDisk(c)' \subseteq Has(c) /\ (Quiet' => Has(c)' = Has(c))
    BY <2>1, <2>2, <2>4 DEF Has, HasOnDisk
  <2>6. disk'[c].top = disk[c].top => /\ HasOnDisk(c)' \subseteq HasOnDisk(c)
                                      /\ Quiet' => HasOnDisk(c)' = HasOnDisk(c)
    BY <2>2 DEF HasOnDisk
  <2>7. disk'[c].top = mem.top[c] => HasOnDisk(c)' = Has(c)'
    BY <2>1 DEF HasOnDisk, Has
  <2> QED
    BY <2>5, <2>6, <2>7
<1>8. Separate'
  <2> SUFFICES ASSUME ~unmapped', NEW c \in Bases
               PROVE  /\ Apart(disk'[c].txt, disk'[c].hdr, HasOnDisk(c)', disk'[c].used)
                      /\ Apart(disk'[c].txt, disk'[c].hdr, Has(c)', mem'.used[c] \ Mine(c)')
    BY DEF Separate
  <2>1. /\ Apart(disk[c].txt, disk[c].hdr, HasOnDisk(c), disk[c].used)
        /\ Apart(disk[c].txt, disk[c].hdr, Has(c), mem.used[c] \ Mine(c))
    BY <1>1 DEF Separate
  <2>2. mem'.used[c] \ Mine(c)' = mem.used[c] \ Mine(c)
    BY <1>2
  <2>3. Apart(disk[c].txt, disk[c].hdr, Has(c)', mem.used[c] \ Mine(c))
    BY <2>1, <1>7, ApartLess
  <2>4. Apart(disk[c].txt, disk[c].hdr, HasOnDisk(c)', disk'[c].used)
    <3>1. CASE c # b
      <4>1. HasOnDisk(c)' \subseteq HasOnDisk(c) /\ disk'[c].used = disk[c].used
        BY <3>1, <1>2, <1>7
      <4> QED
        BY <4>1, <2>1, ApartLess
    <3>2. CASE c = b
      <4>1. disk'[c].used = mem.used[c] \ Mine(c)
        BY <3>2, <1>1, <1>2
      <4>2. HasOnDisk(c)' \subseteq Has(c)
        BY <1>7
      <4> QED
        BY <4>1, <4>2, <2>1, ApartLess
    <3> QED
      BY <3>1, <3>2
  <2> QED
    BY <2>2, <2>3, <2>4, <1>2
<1>9. NoneLost'
  <2> SUFFICES ASSUME Quiet', ~leaked', NEW c \in Bases
               PROVE  /\ Settled(c)' => Exactly(disk'[c].txt, disk'[c].hdr, HasOnDisk(c)', disk'[c].used)
                      /\ Exactly(disk'[c].txt, disk'[c].hdr, Has(c)', mem'.used[c] \ Mine(c)')
    BY DEF NoneLost
  <2>1. /\ Settled(c) => Exactly(disk[c].txt, disk[c].hdr, HasOnDisk(c), disk[c].used)
        /\ Exactly(disk[c].txt, disk[c].hdr, Has(c), mem.used[c] \ Mine(c))
    BY <1>1 DEF NoneLost
  <2>2. mem'.used[c] \ Mine(c)' = mem.used[c] \ Mine(c) /\ Has(c)' = Has(c)
        /\ disk'[c].txt = disk[c].txt /\ disk'[c].hdr = disk[c].hdr
    BY <1>2, <1>7
  <2>3. ASSUME Settled(c)'
        PROVE  Exactly(disk[c].txt, disk[c].hdr, HasOnDisk(c)', disk'[c].used)
    <3>1. CASE Settled(c) /\ disk'[c].used = disk[c].used /\ disk'[c].top = disk[c].top
      BY <3>1, <2>1, <1>7
    <3>2. CASE disk'[b].top = mem.top[b] /\ c = b
      <4>1. HasOnDisk(c)' = Has(c) /\ disk'[c].used = mem.used[c] \ Mine(c)
        BY <3>2, <2>2, <1>1, <1>2, <1>7
      <4> QED
        BY <4>1, <2>1
    <3> QED
      BY <3>1, <3>2, <2>3, <1>2
  <2> QED
    BY <2>1, <2>2, <2>3
<1> QED
  BY <1>4, <1>5, <1>6, <1>8, <1>9

\* writefree.
LEMMA FreeWritten ==
  ASSUME Stores, NEW b \in Bases, WriteFree(b), UNCHANGED <<mem, w>>, ~Working, ~Working'
  PROVE  Stores' /\ MapStep(b)
<1>1. /\ disk' = [disk EXCEPT ![b].used = mem.used[b]] /\ disk \in [Bases -> BaseSet]
      /\ mem.used[b] \in SUBSET Sectors
  BY DEF WriteFree, Stores
<1>2. [disk[b] EXCEPT !.used = mem.used[b]] \in BaseSet
  BY <1>1 DEF BaseSet
<1>3. disk' \in [Bases -> BaseSet]
  BY <1>1, <1>2
<1>4. Stores'
  BY <1>3 DEF Stores
<1>5. \A c \in Bases : Mine(c) = {} /\ Mine(c)' = {}
  BY DEF Mine
<1>6. /\ \A c \in Bases : /\ disk'[c].hdr = disk[c].hdr /\ disk'[c].txt = disk[c].txt
                          /\ disk'[c].top = disk[c].top
                          /\ c # b => disk'[c].used = disk[c].used
      /\ disk'[b].used = mem.used[b]
  BY <1>1 DEF BaseSet
<1> QED
  BY <1>4, <1>5, <1>6 DEF MapStep

\* write_top.
LEMMA TopWritten ==
  ASSUME Stores, NEW b \in Bases, WriteTop(b), UNCHANGED <<mem, w>>, ~Working, ~Working',
         ~unmapped => disk[b].used = mem.used[b]
  PROVE  Stores' /\ MapStep(b) /\ disk'[b].top = mem.top[b]
<1>1. /\ disk' = [disk EXCEPT ![b].top = mem.top[b]] /\ disk \in [Bases -> BaseSet]
      /\ mem.top[b] \in Nat
  BY DEF WriteTop, Stores
<1>2. [disk[b] EXCEPT !.top = mem.top[b]] \in BaseSet
  BY <1>1 DEF BaseSet
<1>3. disk' \in [Bases -> BaseSet]
  BY <1>1, <1>2
<1>4. Stores'
  BY <1>3 DEF Stores
<1>5. \A c \in Bases : Mine(c) = {} /\ Mine(c)' = {}
  BY DEF Mine
<1>6. /\ \A c \in Bases : /\ disk'[c].hdr = disk[c].hdr /\ disk'[c].txt = disk[c].txt
                          /\ disk'[c].used = disk[c].used
                          /\ c # b => disk'[c].top = disk[c].top
      /\ disk'[b].top = mem.top[b]
  BY <1>1 DEF BaseSet
<1> QED
  BY <1>4, <1>5, <1>6 DEF MapStep

\* recover(1): the sectors of the text that cannot be written are freed, and no other.
LEMMA TextUndone ==
  ASSUME Stores, Writing, Recover1, UNCHANGED w, Working, ~Working', NEW b \in Bases, b = w.base
  PROVE  Stores' /\ MapStep(b) /\ disk'[b].top = disk[b].top
<1> DEFINE c == Links_(b, w.first)
           last == CHOOSE k \in DOMAIN c : c[k] = w.rec /\ \A j \in DOMAIN c : j < k => c[j] # w.rec
           kept == mem.used[b] \ {c[k] : k \in 0 .. last}
<1>1. /\ disk' = [disk EXCEPT ![b].used = kept] /\ mem' = [mem EXCEPT !.used[b] = kept]
  BY DEF Recover1
<1>2. kept = mem.used[b] \ Mine(b)
  <2> DEFINE t == disk[b].txt
  <2>1. /\ t \in [Sectors -> SectorSet] /\ w.first \in Sectors
        /\ Building(t, w.first, w.text, w.rec, w.part) /\ Mine(b) = Begun(t, w.first, w.part)
    BY WritingFacts
  <2>2. c = LinksIn(t, w.first)
    BY ChainsAgree
  <2> HIDE DEF t
  <2>3. {c[k] : k \in 0 .. last} = Begun(t, w.first, w.part)
    BY <2>1, <2>2, BuildingUndone
  <2> QED
    BY <2>1, <2>3
<1> HIDE DEF kept
<1>3. /\ disk \in [Bases -> BaseSet] /\ kept \in SUBSET Sectors
      /\ mem \in [used : [Bases -> SUBSET Sectors], top : [Bases -> Nat]]
  BY <1>2 DEF Stores
<1>4. [disk[b] EXCEPT !.used = kept] \in BaseSet
  BY <1>3 DEF BaseSet
<1>5. disk' \in [Bases -> BaseSet]
  BY <1>1, <1>3, <1>4
<1>6. mem' \in [used : [Bases -> SUBSET Sectors], top : [Bases -> Nat]]
  BY <1>1, <1>3
<1>7. Stores'
  BY <1>5, <1>6 DEF Stores
<1>8. \A d \in Bases : (d # b => Mine(d) = {}) /\ Mine(d)' = {}
  BY DEF Mine
<1>9. /\ \A d \in Bases : /\ disk'[d].hdr = disk[d].hdr /\ disk'[d].txt = disk[d].txt
                          /\ disk'[d].top = disk[d].top
                          /\ mem'.top[d] = mem.top[d]
                          /\ d # b => disk'[d].used = disk[d].used /\ mem'.used[d] = mem.used[d]
      /\ disk'[b].used = kept /\ mem'.used[b] = kept
  BY <1>1, <1>3 DEF BaseSet
<1> QED
  BY <1>2, <1>7, <1>8, <1>9 DEF MapStep

\* The program ends, or is lost in a crash.
LEMMA GoneStep ==
  ASSUME Stores, Rest, Shape, Goes, UNCHANGED disk, Gone, pc = "mark" => ~Quiet',
         Quiet' /\ ~leaked' => \A b \in Bases : Settled(b)
  PROVE  (Stores /\ Shape)'
<1> USE DEF Shape
<1>1. /\ Quiet' => Quiet
      /\ ~leaked' => ~leaked
      /\ ~unmapped' => ~unmapped
      /\ unmapped' => faults' > 0
      /\ Quiet' => ~unmapped'
  BY GoesFacts
<1>2. pc' = "idle" /\ mem' = NoMem /\ w' = NoWriter
  BY DEF Gone
<1>3. Stores'
  <2>1. NoMem \in [used : [Bases -> SUBSET Sectors], top : [Bases -> Nat]]
    BY DEF NoMem
  <2>2. NoWriter \in [base : Bases, text : Texts \cup {NoText}, first : 0 .. N, rec : 0 .. N, part : Nat]
    BY SectorCount DEF NoWriter, Bases
  <2> QED
    BY <2>1, <2>2, <1>2 DEF Stores
<1>4. Writing'
  BY <1>2 DEF Writing, Working
<1>5. \A b \in Bases : Count(b)' = disk[b].top
  BY <1>2 DEF Count
<1>6. Headed'
  <2> SUFFICES ASSUME NEW b \in Bases
               PROVE  /\ disk[b].top <= disk[b].top /\ disk[b].top <= Len(disk[b].hdr)
                      /\ \A i \in DOMAIN disk[b].hdr : LET h == disk[b].hdr[i] IN
                           /\ disk[b].txt[h.first].text \in Texts
                           /\ "INCOMING" \in h.flags => h.flags \cap {"OUTGOING", "INTRANSIT"} = {}
    BY <1>5 DEF Headed
  <2>1. disk[b].top \in Nat /\ Count(b) \in Nat /\ disk[b].hdr \in Seq(Headers)
    BY HasFacts
  <2>2. disk[b].top <= Count(b) /\ Count(b) <= Len(disk[b].hdr)
    BY DEF Headed
  <2>3. Len(disk[b].hdr) \in Nat
    BY <2>1
  <2>4. disk[b].top <= Len(disk[b].hdr) /\ disk[b].top <= disk[b].top
    BY <2>1, <2>2, <2>3
  <2> QED
    BY <2>4 DEF Headed
<1>7. Bitmaps'
  BY <1>1, <1>2 DEF Bitmaps, BitmapFirst
<1>8. ASSUME NEW b \in Bases
      PROVE  /\ HasOnDisk(b)' \subseteq HasOnDisk(b)
             /\ Quiet' => HasOnDisk(b)' = HasOnDisk(b)
  <2>1. \A i : (Kept(b, i)' => Kept(b, i)) /\ (Quiet' /\ Kept(b, i) => Kept(b, i)')
    BY <1>1, <1>2, KeptStep
  <2> QED
    BY <2>1 DEF HasOnDisk
<1>9. Separate'
  <2> SUFFICES ASSUME ~unmapped', NEW b \in Bases
               PROVE  Apart(disk'[b].txt, disk'[b].hdr, HasOnDisk(b)', disk'[b].used)
    BY <1>2 DEF Separate
  <2>1. Apart(disk[b].txt, disk[b].hdr, HasOnDisk(b), disk[b].used)
    BY <1>1 DEF Separate
  <2>2. Apart(disk[b].txt, disk[b].hdr, HasOnDisk(b)', disk[b].used)
    BY <2>1, <1>8, ApartLess
  <2> QED
    BY <2>2
<1>10. NoneLost'
  <2> SUFFICES ASSUME Quiet', ~leaked', NEW b \in Bases
               PROVE  Exactly(disk'[b].txt, disk'[b].hdr, HasOnDisk(b)', disk'[b].used)
    BY <1>2 DEF NoneLost
  <2>1. Exactly(disk[b].txt, disk[b].hdr, HasOnDisk(b), disk[b].used)
    BY <1>1 DEF NoneLost
  <2> QED
    BY <2>1, <1>8
<1> QED
  BY <1>3, <1>4, <1>6, <1>7, <1>9, <1>10

\* deleteold: the sectors of the message are freed, and it is none of those that have theirs.
LEMMA DeleteStep ==
  ASSUME Stores, Rest, Shape, Goes, Places, DeleteFree
  PROVE  (Stores /\ Shape)'
<1> USE DEF Shape
<1> DEFINE b == "loc"
           t == disk[b].txt
           i == job.this
           C == ChainIn(t, disk[b].hdr[i].first)
           kept == mem.used[b] \ C
<1>1. /\ Quiet' => Quiet
      /\ ~leaked' => ~leaked
      /\ ~unmapped' => ~unmapped
      /\ unmapped' => faults' > 0
      /\ Quiet' => ~unmapped'
      /\ faults' = faults + 1 => ~Quiet'
  BY GoesFacts
<1>2. /\ pc = "del" /\ mem' = [mem EXCEPT !.used[b] = kept] /\ w' = w /\ job' = job
      /\ pc' \in {"mark", "free"} /\ (Quiet' => pc' = "mark")
      /\ \/ disk' = [disk EXCEPT ![b].used = kept]
         \/ disk' = disk /\ ~Quiet'
  <2>1. kept = mem.used[b] \ Chain(b, Old.first)
    BY ChainsAgree DEF Old
  <2> HIDE DEF kept
  <2> QED
    BY <2>1, <1>1 DEF DeleteFree, WriteFault
<1>3. /\ job.prog = "mailass" /\ i \in 1 .. mem.top[b]
      /\ Old.flags \cap {"OUTGOING", "INTRANSIT"} # {} /\ "DELETED" \notin Old.flags
      /\ "PROCESSED" \in Old.flags
  BY <1>2 DEF Places, AtOld, PackPcs, MailPcs, BbPcs
<1>4. b \in Bases /\ \A c \in Bases : Count(c) = mem.top[c] /\ Mine(c) = {} /\ Mine(c)' = {}
  BY <1>2 DEF Bases, Count, Mine, Working
<1>5. i \in Has(b) /\ "INCOMING" \notin Old.flags
  <2>1. Kept(b, i)
    BY <1>2, <1>3 DEF Kept, Old
  <2>2. i \in Has(b)
    BY <1>3, <1>4, <2>1 DEF Has
  <2>3. i \in DOMAIN disk[b].hdr
    BY <2>2, <1>4, HasFacts
  <2> QED
    BY <2>2, <2>3, <1>3, <1>4 DEF Headed, Old
<1>6. disk \in [Bases -> BaseSet] /\ mem \in [used : [Bases -> SUBSET Sectors], top : [Bases -> Nat]]
  BY DEF Stores
<1> HIDE DEF C
<1>7. kept \in SUBSET Sectors
  BY <1>4, <1>6
<1>8. Stores'
  <2>1. [disk[b] EXCEPT !.used = kept] \in BaseSet
    BY <1>4, <1>6, <1>7 DEF BaseSet
  <2> HIDE DEF kept
  <2>2. disk' \in [Bases -> BaseSet]
    BY <1>2, <1>6, <2>1
  <2>3. mem' \in [used : [Bases -> SUBSET Sectors], top : [Bases -> Nat]]
    BY <1>2, <1>4, <1>6, <1>7
  <2> QED
    BY <2>2, <2>3, <1>2 DEF Stores
<1>9. /\ \A c \in Bases : /\ disk'[c].hdr = disk[c].hdr /\ disk'[c].txt = disk[c].txt
                          /\ disk'[c].top = disk[c].top /\ mem'.top[c] = mem.top[c]
                          /\ c # b => disk'[c].used = disk[c].used /\ mem'.used[c] = mem.used[c]
      /\ mem'.used[b] = kept
      /\ disk'[b].used = kept \/ disk'[b].used = disk[b].used
  BY <1>2, <1>4, <1>6 DEF BaseSet
<1>10. \A c \in Bases : Count(c)' = Count(c)
  BY <1>2, <1>9 DEF Count
<1>11. Writing' /\ Headed' /\ Bitmaps'
  <2>1. Writing'
    BY <1>2 DEF Writing, Working
  <2>2. Headed'
    BY <1>9, <1>10 DEF Headed
  <2>3. Bitmaps'
    BY <1>1, <1>2 DEF Bitmaps, BitmapFirst
  <2> QED
    BY <2>1, <2>2, <2>3
<1>12. ASSUME NEW c \in Bases, NEW j, ~(c = b /\ j = i)
       PROVE  (Kept(c, j)' => Kept(c, j)) /\ (Quiet' /\ Kept(c, j) => Kept(c, j)')
  BY <1>1, <1>2, <1>9, <1>12 DEF Kept, Bases
<1>13. ~Kept(b, i)'
  <2>1. disk'[b].hdr[i] = Old
    BY <1>4, <1>9 DEF Old
  <2>2. b # "msg"
    OBVIOUS
  <2> QED
    BY <2>1, <2>2, <1>2, <1>3, <1>5 DEF Kept
<1>14. /\ Has(b)' \subseteq Has(b) \ {i} /\ HasOnDisk(b)' \subseteq HasOnDisk(b)
       /\ HasOnDisk(b)' \subseteq Has(b) \ {i}
       /\ Quiet' => Has(b)' = Has(b) \ {i}
  <2>1. Count(b)' = Count(b) /\ disk'[b].top = disk[b].top /\ disk[b].top <= Count(b)
        /\ disk[b].top \in Nat /\ Count(b) \in Nat
    BY <1>4, <1>9, <1>10, HasFacts DEF Headed
  <2>2. \A j \in 1 .. disk[b].top : j \in 1 .. Count(b)
    BY <2>1
  <2>3. i' = i
    BY <1>2
  <2> HIDE DEF i
  <2>4. \A j : j # i => (Kept(b, j)' => Kept(b, j)) /\ (Quiet' /\ Kept(b, j) => Kept(b, j)')
    BY <1>4, <1>12
  <2>5. ~Kept(b, i)'
    BY <1>13
  <2> QED
    BY <2>1, <2>2, <2>3, <2>4, <2>5 DEF Has, HasOnDisk
<1>15. ASSUME NEW c \in Bases, c # b
       PROVE  /\ Has(c)' \subseteq Has(c) /\ HasOnDisk(c)' \subseteq HasOnDisk(c)
              /\ Quiet' => Has(c)' = Has(c) /\ HasOnDisk(c)' = HasOnDisk(c)
  BY <1>9, <1>10, <1>12, <1>15 DEF Has, HasOnDisk
<1>16. Separate'
  <2> SUFFICES ASSUME ~unmapped', NEW c \in Bases
               PROVE  /\ Apart(disk'[c].txt, disk'[c].hdr, HasOnDisk(c)', disk'[c].used)
                      /\ Apart(disk'[c].txt, disk'[c].hdr, Has(c)', mem'.used[c] \ Mine(c)')
    BY DEF Separate
  <2>1. /\ Apart(disk[c].txt, disk[c].hdr, HasOnDisk(c), disk[c].used)
        /\ Apart(disk[c].txt, disk[c].hdr, Has(c), mem.used[c])
    BY <1>1, <1>2, <1>4 DEF Separate
  <2>2. mem'.used[c] \ Mine(c)' = mem'.used[c]
    BY <1>4
  <2>3. CASE c # b
    <3>1. Apart(disk[c].txt, disk[c].hdr, HasOnDisk(c)', disk[c].used)
      BY <2>1, <2>3, <1>15, ApartLess
    <3>2. Apart(disk[c].txt, disk[c].hdr, Has(c)', mem.used[c])
      BY <2>1, <2>3, <1>15, ApartLess
    <3> QED
      BY <3>1, <3>2, <2>2, <2>3, <1>9
  <2>4. CASE c = b
    <3>1. Apart(t, disk[b].hdr, Has(b) \ {i}, kept)
      BY <2>1, <2>4, <1>5, ApartWithout DEF C
    <3>2. Apart(t, disk[b].hdr, Has(b)', kept)
      BY <3>1, <1>14, ApartLess
    <3>3. Apart(t, disk[b].hdr, HasOnDisk(b)', kept)
      BY <3>1, <1>14, ApartLess
    <3>4. Apart(t, disk[b].hdr, HasOnDisk(b)', disk[b].used)
      BY <2>1, <2>4, <1>14, ApartLess
    <3> HIDE DEF kept
    <3> QED
      BY <3>2, <3>3, <3>4, <2>2, <2>4, <1>9
  <2> QED
    BY <2>3, <2>4
<1>17. NoneLost'
  <2> SUFFICES ASSUME Quiet', ~leaked', NEW c \in Bases
               PROVE  /\ Settled(c)' => Exactly(disk'[c].txt, disk'[c].hdr, HasOnDisk(c)', disk'[c].used)
                      /\ Exactly(disk'[c].txt, disk'[c].hdr, Has(c)', mem'.used[c] \ Mine(c)')
    BY DEF NoneLost
  <2>1. Exactly(disk[c].txt, disk[c].hdr, Has(c), mem.used[c])
        /\ (Settled(c) => Exactly(disk[c].txt, disk[c].hdr, HasOnDisk(c), disk[c].used))
    BY <1>1, <1>2, <1>4 DEF NoneLost
  <2>2. mem'.used[c] \ Mine(c)' = mem'.used[c]
    BY <1>4
  <2>3. CASE c # b
    <3>1. Settled(c)' => Settled(c)
      BY <2>3, <1>2, <1>3 DEF Settled, Bases
    <3> QED
      BY <3>1, <2>1, <2>2, <2>3, <1>9, <1>15
  <2>4. CASE c = b
    <3>1. ~Settled(c)'
      BY <2>4, <1>2, <1>3 DEF Settled
    <3>2. Exactly(t, disk[b].hdr, Has(b) \ {i}, kept)
      <4>1. Apart(disk[c].txt, disk[c].hdr, Has(c), mem.used[c])
        BY <1>1, <1>2, <1>4 DEF Separate
      <4> QED
        BY <4>1, <2>1, <2>4, <1>5, ApartWithout DEF C
    <3> HIDE DEF kept
    <3> QED
      BY <3>1, <3>2, <2>2, <2>4, <1>9, <1>14
  <2> QED
    BY <2>3, <2>4
<1> QED
  BY <1>8, <1>11, <1>16, <1>17

\* The headers of a base when a user's message has been entered.
LEMMA Entered ==
  ASSUME NEW hdr \in Seq(Headers), NEW top \in Nat, top <= Len(hdr), NEW h \in Headers
  PROVE  LET g == SubSeq(hdr, 1, top) \o <<h>> \o SubSeq(hdr, top + 2, Len(hdr)) IN
           /\ g \in Seq(Headers) /\ top + 1 <= Len(g) /\ g[top + 1] = h
           /\ \A i \in DOMAIN g : i = top + 1 \/ i \in DOMAIN hdr
           /\ \A i \in DOMAIN hdr : i \in DOMAIN g /\ (i # top + 1 => g[i] = hdr[i])
<1> DEFINE len == Len(hdr)
           a == SubSeq(hdr, 1, top)
           d == SubSeq(hdr, top + 2, len)
           c == a \o <<h>>
           g == c \o d
<1>1. len \in Nat /\ DOMAIN hdr = 1 .. len /\ \A i \in 1 .. len : hdr[i] \in Headers
  OBVIOUS
<1>2. a \in Seq(Headers) /\ Len(a) = top /\ \A i \in 1 .. top : a[i] = hdr[i]
  <2>1. \A i \in 1 .. top : i \in 1 .. len
    BY <1>1
  <2>2. a \in Seq(Headers) /\ Len(a) = top
    BY <1>1, <2>1, SubSeqProperties
  <2>3. \A i \in 1 .. top : a[i] = hdr[i]
    BY <1>1, <2>1
  <2> QED
    BY <2>2, <2>3
<1>3. /\ d \in Seq(Headers) /\ Len(d) = IF top + 2 <= len THEN len - (top + 1) ELSE 0
      /\ \A i \in 1 .. Len(d) : d[i] = hdr[top + 1 + i]
  <2>1. \A i \in top + 2 .. len : i \in 1 .. len
    BY <1>1
  <2>2. d \in Seq(Headers) /\ Len(d) = IF top + 2 <= len THEN len - (top + 1) ELSE 0
    BY <1>1, <2>1, SubSeqProperties
  <2>3. \A i \in 1 .. Len(d) : d[i] = hdr[top + 1 + i]
    BY <1>1, <2>1, <2>2
  <2> QED
    BY <2>2, <2>3
<1> HIDE DEF a, d
<1>4. /\ c \in Seq(Headers) /\ Len(c) = top + 1 /\ c[top + 1] = h
      /\ \A i \in 1 .. top : c[i] = hdr[i]
  BY <1>2
<1> HIDE DEF c
<1>5. /\ g \in Seq(Headers) /\ Len(g) = top + 1 + Len(d)
      /\ \A i \in 1 .. top + 1 : g[i] = c[i]
      /\ \A i \in 1 .. Len(d) : g[top + 1 + i] = d[i]
  <2>1. /\ g \in Seq(Headers) /\ Len(g) = Len(c) + Len(d)
        /\ \A i \in 1 .. Len(c) + Len(d) : g[i] = IF i <= Len(c) THEN c[i] ELSE d[i - Len(c)]
    BY <1>3, <1>4, ConcatProperties
  <2> HIDE DEF g
  <2>2. Len(d) \in Nat
    BY <1>3
  <2>3. \A i \in 1 .. top + 1 : i \in 1 .. Len(c) + Len(d) /\ i <= Len(c)
    BY <2>2, <1>4
  <2>4. \A i \in 1 .. Len(d) : /\ top + 1 + i \in 1 .. Len(c) + Len(d) /\ ~(top + 1 + i <= Len(c))
                               /\ top + 1 + i - Len(c) = i
    BY <2>2, <1>4
  <2> QED
    BY <2>1, <2>3, <2>4, <1>4
<1> HIDE DEF g, len
<1>6. \A i \in DOMAIN g : i = top + 1 \/ i \in DOMAIN hdr
  <2>1. DOMAIN g = 1 .. top + 1 + Len(d)
    BY <1>5
  <2>2. top <= len
    BY DEF len
  <2> QED
    BY <1>1, <1>3, <2>1, <2>2
<1>7. \A i \in DOMAIN hdr : i \in DOMAIN g /\ (i # top + 1 => g[i] = hdr[i])
  <2> SUFFICES ASSUME NEW i \in 1 .. len PROVE i \in DOMAIN g /\ (i # top + 1 => g[i] = hdr[i])
    BY <1>1
  <2>1. DOMAIN g = 1 .. top + 1 + Len(d)
    BY <1>5
  <2>2. CASE i <= top
    <3>1. i \in 1 .. top /\ i \in 1 .. top + 1 /\ i \in 1 .. top + 1 + Len(d)
      BY <1>1, <1>3, <2>2
    <3> QED
      BY <3>1, <2>1, <1>4, <1>5
  <2>3. CASE i = top + 1
    BY <2>1, <2>3, <1>1, <1>3
  <2>4. CASE i > top + 1
    <3>1. Len(d) = len - (top + 1)
      BY <1>1, <1>3, <2>4
    <3>2. PICK j \in 1 .. Len(d) : i = top + 1 + j
      <4>1. i - (top + 1) \in 1 .. Len(d) /\ i = top + 1 + (i - (top + 1))
        BY <1>1, <2>4, <3>1
      <4> QED
        BY <4>1
    <3>3. g[i] = d[j] /\ d[j] = hdr[i]
      BY <3>2, <1>3, <1>5
    <3>4. i \in DOMAIN g
      BY <2>1, <3>1, <1>1
    <3> QED
      BY <3>3, <3>4
  <2> QED
    BY <1>1, <2>2, <2>3, <2>4
<1>8. top + 1 <= Len(g) /\ g[top + 1] = h
  <2>1. top + 1 \in 1 .. top + 1 /\ Len(d) \in Nat
    BY <1>3
  <2> QED
    BY <2>1, <1>4, <1>5
<1> QED
  BY <1>5, <1>6, <1>7, <1>8 DEF g, c, a, d, len

LEMMA EnterStep ==
  ASSUME Stores, Rest, Shape, NEW e \in toEnter, Enter(e)
  PROVE  (Stores /\ Shape)'
<1> USE DEF Shape
<1> DEFINE b == e.base
           old == disk[b]
           text == Letter(e.letter)
           free == Sectors \ old.used
           n == Size(text)
           at == LowestOf(free, n)
           mine == Laid(at, n)
           h == [flags |-> IF b = "loc" THEN {"OUTGOING"} ELSE {"NEW"}, first |-> at[1], text |-> text]
           g == SubSeq(old.hdr, 1, old.top) \o <<h>> \o SubSeq(old.hdr, old.top + 2, Len(old.hdr))
           Put(s) == LET k == CHOOSE j \in 1 .. n : at[j] = s IN
                       Sector(text, k, IF k = n THEN 0 ELSE at[k + 1])
           u == [s \in Sectors |-> IF s \in mine THEN Put(s) ELSE old.txt[s]]
<1>1. b \in Bases /\ text \in Texts /\ n \in Nat \ {0}
  <2>1. b \in Bases /\ e.letter \in Letters
    BY DEF Rest
  <2>2. text \in Texts
    BY <2>1 DEF Letter, Texts
  <2> HIDE DEF text
  <2> QED
    BY <2>1, <2>2, SizeFacts
<1>2. /\ pc = "idle" /\ Cardinality(free) >= n
      /\ disk' = [disk EXCEPT ![b] = [used |-> old.used \cup mine, top |-> old.top + 1,
                                      hdr |-> g, txt |-> u]]
  BY DEF Enter, LowestOf, Laid
<1>3. /\ mem' = mem /\ w' = w /\ faults' = faults /\ leaked' = leaked /\ unmapped' = unmapped
      /\ pc' = pc /\ job' = job /\ crashes' = crashes
  BY DEF Enter, histVars
<1>4. /\ disk \in [Bases -> BaseSet] /\ old \in BaseSet /\ old.txt \in [Sectors -> SectorSet]
      /\ old.hdr \in Seq(Headers) /\ old.used \in SUBSET Sectors /\ old.top \in Nat
      /\ \A i \in DOMAIN old.hdr : old.hdr[i].first \in Sectors
      /\ HasOnDisk(b) \subseteq DOMAIN old.hdr
      /\ HasOnDisk(b) \subseteq 1 .. old.top /\ old.top <= Len(old.hdr)
  <2>1. disk \in [Bases -> BaseSet] /\ old \in BaseSet
    BY <1>1 DEF Stores
  <2>2. old.txt \in [Sectors -> SectorSet] /\ old.hdr \in Seq(Headers) /\ old.used \in SUBSET Sectors
        /\ old.top \in Nat
    BY <2>1 DEF BaseSet
  <2>3. Count(b) = old.top
    BY <1>2 DEF Count
  <2>4. old.top <= Len(old.hdr)
    BY <1>1, <2>3 DEF Headed
  <2> QED
    BY <1>1, <2>1, <2>2, <2>4, HasFacts
<1> HIDE DEF text
<1>5. /\ \A k \in 1 .. n : at[k] \in free /\ at[k] \in Sectors
      /\ \A j, k \in 1 .. n : at[j] = at[k] => j = k
  <2> HIDE DEF n
  <2>1. IsFiniteSet(free) /\ free \in SUBSET Sectors
    BY SectorCount, FS_Subset
  <2>2. Cardinality(free) \in Nat /\ n <= Cardinality(free)
    BY <2>1, <1>1, <1>2, FS_CardinalityType
  <2> QED
    BY <2>1, <2>2, <1>1, LowestFacts
<1> HIDE DEF at, n
<1>6. /\ mine \cap old.used = {} /\ mine \subseteq Sectors
      /\ \A k \in 1 .. n : at[k] \in mine
      /\ \A s \in mine : \E k \in 1 .. n : s = at[k]
  BY <1>5 DEF Laid
<1>7. \A k \in 1 .. n : /\ u[at[k]] = Sector(text, k, IF k = n THEN 0 ELSE at[k + 1])
                        /\ u[at[k]] \in SectorSet /\ u[at[k]].text = text
  <2> SUFFICES ASSUME NEW k \in 1 .. n
               PROVE  /\ u[at[k]] = Sector(text, k, IF k = n THEN 0 ELSE at[k + 1])
                      /\ u[at[k]] \in SectorSet /\ u[at[k]].text = text
    OBVIOUS
  <2>1. (CHOOSE j \in 1 .. n : at[j] = at[k]) = k
    BY <1>5
  <2>2. u[at[k]] = Put(at[k])
    BY <1>5, <1>6
  <2>3. Put(at[k]) = Sector(text, k, IF k = n THEN 0 ELSE at[k + 1])
    BY <2>1
  <2>4. (IF k = n THEN 0 ELSE at[k + 1]) \in 0 .. N
    <3>1. k # n => k + 1 \in 1 .. n
      BY <1>1
    <3>2. \A x \in Sectors : x \in 0 .. N
      BY SectorCount DEF Sectors, N
    <3>3. 0 \in 0 .. N
      BY SectorCount
    <3> QED
      BY <3>1, <3>2, <3>3, <1>5
  <2>5. k \in Nat
    BY <1>1
  <2> HIDE DEF u
  <2> QED
    BY <2>2, <2>3, <2>4, <2>5, <1>1 DEF Sector, SectorSet
<1>8. /\ \A s \in Sectors \ mine : u[s] = old.txt[s]
      /\ DOMAIN u = Sectors /\ u = [s \in Sectors |-> u[s]]
  OBVIOUS
<1> HIDE DEF u
<1>9. /\ u \in [Sectors -> SectorSet]
      /\ \A s \in Sectors : old.txt[s].text \in Texts => u[s].text \in Texts
  <2>1. \A s \in mine : u[s] \in SectorSet /\ u[s].text \in Texts
    BY <1>1, <1>6, <1>7
  <2>2. \A s \in Sectors : u[s] \in SectorSet
    BY <2>1, <1>4, <1>8
  <2> QED
    BY <2>1, <2>2, <1>8
<1>10. Whole(u, at[1], text) /\ ChainIn(u, at[1]) = mine
  <2>1. n = Size(text)
    BY DEF n
  <2>2. /\ \A k \in 1 .. n : u[at[k]] = Sector(text, k, IF k = n THEN 0 ELSE at[k + 1])
        /\ \A k \in 1 .. n : at[k] \in Sectors
        /\ \A j, k \in 1 .. n : at[j] = at[k] => j = k
    BY <1>5, <1>7
  <2>3. u \in [Sectors -> SectorSet] /\ text \in Texts /\ n \in Nat \ {0}
    BY <1>1, <1>9
  <2> QED
    BY <2>1, <2>2, <2>3, LaidOut
<1>11. at[1] \in Sectors /\ u[at[1]].text \in Texts
  <2>1. 1 \in 1 .. n
    BY <1>1
  <2> QED
    BY <2>1, <1>1, <1>5, <1>7
<1>12. h \in Headers /\ h.first = at[1] /\ h.text = text /\ h.flags \in {{"OUTGOING"}, {"NEW"}}
  BY <1>1, <1>11 DEF Headers, Flags
<1> HIDE DEF h, mine
<1>p. PICK p : p = old.top + 1
  OBVIOUS
<1>13. /\ g \in Seq(Headers) /\ p <= Len(g) /\ g[p] = h
       /\ \A i \in DOMAIN g : i = p \/ i \in DOMAIN old.hdr
       /\ \A i \in DOMAIN old.hdr : i \in DOMAIN g /\ (i # p => g[i] = old.hdr[i])
  <2>1. old.hdr \in Seq(Headers) /\ old.top \in Nat /\ old.top <= Len(old.hdr) /\ h \in Headers
    BY <1>4, <1>12
  <2>2. /\ g \in Seq(Headers) /\ old.top + 1 <= Len(g) /\ g[old.top + 1] = h
        /\ \A i \in DOMAIN g : i = old.top + 1 \/ i \in DOMAIN old.hdr
        /\ \A i \in DOMAIN old.hdr : i \in DOMAIN g /\ (i # old.top + 1 => g[i] = old.hdr[i])
    BY <2>1, Entered, Zenon
  <2> HIDE DEF old, g
  <2> QED
    BY <2>2, <1>p
<1> HIDE DEF g
<1>14. /\ disk'[b].used = old.used \cup mine /\ disk'[b].top = p
       /\ disk'[b].hdr = g /\ disk'[b].txt = u
       /\ \A c \in Bases : c # b => disk'[c] = disk[c]
  BY <1>1, <1>2, <1>4, <1>p
<1>15. Stores'
  <2>1. [used |-> old.used \cup mine, top |-> old.top + 1, hdr |-> g, txt |-> u] \in BaseSet
    BY <1>4, <1>6, <1>9, <1>13 DEF BaseSet
  <2>2. disk' \in [Bases -> BaseSet]
    BY <2>1, <1>1, <1>2, <1>4
  <2> QED
    BY <2>2, <1>3 DEF Stores
<1>16. \A c \in Bases : Count(c)' = disk'[c].top /\ Count(c) = disk[c].top
  BY <1>2, <1>3 DEF Count
<1>17. Writing' /\ Bitmaps'
  <2>1. Writing'
    BY <1>2, <1>3 DEF Writing, Working
  <2>2. Bitmaps'
    BY <1>2, <1>3 DEF Bitmaps, BitmapFirst
  <2> QED
    BY <2>1, <2>2
<1>18. Headed'
  <2> SUFFICES ASSUME NEW c \in Bases
               PROVE  /\ disk'[c].top <= disk'[c].top /\ disk'[c].top <= Len(disk'[c].hdr)
                      /\ \A i \in DOMAIN disk'[c].hdr : LET f == disk'[c].hdr[i] IN
                           /\ disk'[c].txt[f.first].text \in Texts
                           /\ "INCOMING" \in f.flags => f.flags \cap {"OUTGOING", "INTRANSIT"} = {}
    BY <1>16 DEF Headed
  <2>1. CASE c # b
    BY <2>1, <1>14, <1>16 DEF Headed
  <2>2. CASE c = b
    <3>1. p <= p
      BY <1>p, <1>4
    <3>2. \A i \in DOMAIN old.hdr : LET f == old.hdr[i] IN
            /\ u[f.first].text \in Texts
            /\ "INCOMING" \in f.flags => f.flags \cap {"OUTGOING", "INTRANSIT"} = {}
      BY <1>1, <1>4, <1>9 DEF Headed
    <3>3. u[h.first].text \in Texts /\ "INCOMING" \notin h.flags
      BY <1>11, <1>12
    <3>4. \A i \in DOMAIN g : g[i] = h \/ (i \in DOMAIN old.hdr /\ g[i] = old.hdr[i])
      BY <1>13
    <3> HIDE DEF old
    <3>5. \A i \in DOMAIN g : LET f == g[i] IN
            /\ u[f.first].text \in Texts
            /\ "INCOMING" \in f.flags => f.flags \cap {"OUTGOING", "INTRANSIT"} = {}
      BY <3>2, <3>3, <3>4
    <3> QED
      BY <2>2, <3>1, <3>5, <1>13, <1>14
  <2> QED
    BY <2>1, <2>2
<1>19. /\ HasOnDisk(b)' = HasOnDisk(b) \cup {p} /\ p \notin HasOnDisk(b)
       /\ \A i \in HasOnDisk(b) : g[i] = old.hdr[i]
  <2>1. \A i \in 1 .. old.top : i \in DOMAIN old.hdr /\ i # p /\ i \in 1 .. p
    BY <1>4, <1>p
  <2>2. \A i \in 1 .. p : i = p \/ i \in 1 .. old.top
    BY <1>4, <1>p
  <2>3. p \in 1 .. p
    BY <1>4, <1>p
  <2>4. \A i \in 1 .. old.top : disk'[b].hdr[i].flags = disk[b].hdr[i].flags
    BY <2>1, <1>13, <1>14
  <2>5. \A i \in 1 .. old.top : Kept(b, i)' <=> Kept(b, i)
    BY <2>4, <1>2, <1>3 DEF Kept, Quiet
  <2>6. Kept(b, p)'
    <3>1. disk'[b].hdr[p].flags = h.flags
      BY <1>13, <1>14
    <3> QED
      BY <3>1, <1>12 DEF Kept
  <2>7. HasOnDisk(b) = {i \in 1 .. old.top : Kept(b, i)} /\ HasOnDisk(b)' = {i \in 1 .. p : Kept(b, i)'}
    BY <1>14 DEF HasOnDisk
  <2> QED
    BY <2>1, <2>2, <2>3, <2>5, <2>6, <2>7, <1>13
<1>20. \A c \in Bases : c # b => HasOnDisk(c)' = HasOnDisk(c)
  BY <1>2, <1>3, <1>14 DEF HasOnDisk, Kept, Quiet
<1>21. ASSUME ~unmapped
       PROVE  /\ Apart(u, g, HasOnDisk(b) \cup {p}, old.used \cup mine)
              /\ Exactly(old.txt, old.hdr, HasOnDisk(b), old.used)
                   => Exactly(u, g, HasOnDisk(b) \cup {p}, old.used \cup mine)
  <2>1. Apart(old.txt, old.hdr, HasOnDisk(b), old.used)
    BY <1>1, <1>21 DEF Separate
  <2>2. \A i \in HasOnDisk(b) : old.hdr[i].first \in Sectors
    BY <1>4
  <2>3. \A i \in HasOnDisk(b) : \A x \in ChainIn(old.txt, old.hdr[i].first) : u[x] = old.txt[x]
    BY <2>1, <1>4, <1>6, <1>8 DEF Apart
  <2>4. Agree(old.txt, old.hdr, u, g, HasOnDisk(b))
    BY <2>3, <1>19 DEF Agree
  <2> HIDE DEF old
  <2>5. /\ Apart(u, g, HasOnDisk(b), old.used)
        /\ \A d : Exactly(old.txt, old.hdr, HasOnDisk(b), d) => Exactly(u, g, HasOnDisk(b), d)
    BY <2>1, <2>2, <2>4, <1>4, <1>9, ApartSame
  <2>6. Whole(u, g[p].first, g[p].text) /\ ChainIn(u, g[p].first) = mine
    BY <1>10, <1>12, <1>13
  <2>7. /\ Apart(u, g, HasOnDisk(b) \cup {p}, old.used \cup ChainIn(u, g[p].first))
        /\ Exactly(u, g, HasOnDisk(b), old.used)
             => Exactly(u, g, HasOnDisk(b) \cup {p}, old.used \cup ChainIn(u, g[p].first))
    BY <2>5, <2>6, <1>6, <1>19, ApartMore
  <2> QED
    BY <2>5, <2>6, <2>7
<1>22. Separate'
  <2> SUFFICES ASSUME ~unmapped, NEW c \in Bases
               PROVE  Apart(disk'[c].txt, disk'[c].hdr, HasOnDisk(c)', disk'[c].used)
    BY <1>2, <1>3 DEF Separate
  <2>1. CASE c # b
    BY <2>1, <1>14, <1>20 DEF Separate
  <2>2. CASE c = b
    BY <2>2, <1>14, <1>19, <1>21
  <2> QED
    BY <2>1, <2>2
<1>23. NoneLost'
  <2> SUFFICES ASSUME Quiet, ~leaked, NEW c \in Bases
               PROVE  Exactly(disk'[c].txt, disk'[c].hdr, HasOnDisk(c)', disk'[c].used)
    BY <1>2, <1>3 DEF NoneLost, Quiet
  <2>0. ~unmapped /\ Settled(c)
    BY <1>2 DEF Bitmaps, Settled, Quiet
  <2>1. Exactly(disk[c].txt, disk[c].hdr, HasOnDisk(c), disk[c].used)
    BY <2>0 DEF NoneLost
  <2>2. CASE c # b
    BY <2>1, <2>2, <1>14, <1>20
  <2>3. CASE c = b
    BY <2>0, <2>1, <2>3, <1>14, <1>19, <1>21
  <2> QED
    BY <2>2, <2>3
<1> QED
  BY <1>15, <1>17, <1>18, <1>22, <1>23

-----------------------------------------------------------------------------
(* Packdis.                                                                *)

LEMMA PackPlace ==
  ASSUME Rest, Places, job.prog = "packdis" \/ pc \in {"line", "item", "loc", "done", "status"}
  PROVE  /\ pc \in PackPcs /\ IsPackJob(job) /\ lines \in Seq(LineSet)
         /\ job.prog = "packdis" /\ job.line \in Nat \ {0} /\ job.item \in Nat /\ job.base \in Bases
         /\ job.line <= Len(lines) => job.line \in DOMAIN lines
         /\ pc \in AtItem => /\ job.line \in DOMAIN lines /\ Line.name \in DOMAIN Content
                             /\ job.item # 0 /\ DOMAIN Items = 1 .. Len(Items) /\ Len(Items) \in Nat
         /\ pc \in AtItem /\ job.item \in DOMAIN Items /\ IsLetter(Item) => Item.of \in Letters
         /\ pc \in {"put", "hdr", "loc"} => job.item \in DOMAIN Items /\ IsLetter(Item)
<1>1. /\ pc \in PackPcs /\ IsPackJob(job)
      /\ pc \in AtItem => job.line \in DOMAIN lines /\ Line.name \in DOMAIN Content /\ job.item # 0
      /\ pc \in {"put", "hdr", "loc"} => job.item \in DOMAIN Items /\ IsLetter(Item)
  BY DEF Places, ScanJobs, NoJob, MailPcs, BbPcs
<1>2. lines \in Seq(LineSet)
  BY DEF Rest
<1>3. job.prog = "packdis" /\ job.line \in Nat \ {0} /\ job.item \in Nat /\ job.base \in Bases
  BY <1>1 DEF IsPackJob
<1>4. job.line <= Len(lines) => job.line \in DOMAIN lines
  BY <1>2, <1>3
<1>5. pc \in AtItem =>
        Items \in Seq([what : {"letter"}, of : Letters] \cup [what : {"empty", "bad"}])
  BY <1>1, PackdisAssumption DEF Items
<1>6. pc \in AtItem => DOMAIN Items = 1 .. Len(Items) /\ Len(Items) \in Nat
  BY <1>5
<1>7. pc \in AtItem /\ job.item \in DOMAIN Items /\ IsLetter(Item) => Item.of \in Letters
  <2> SUFFICES ASSUME pc \in AtItem, job.item \in DOMAIN Items, IsLetter(Item)
               PROVE  Item.of \in Letters
    OBVIOUS
  <2>1. Item \in [what : {"letter"}, of : Letters] \cup [what : {"empty", "bad"}]
    BY <1>5 DEF Item
  <2>2. Item.what = "letter"
    BY DEF IsLetter
  <2> QED
    BY <2>1, <2>2
<1> QED
  BY <1>1, <1>2, <1>3, <1>4, <1>6, <1>7

LEMMA StateSet ==
  ASSUME NEW S, NEW l \in [st : S, name : STRING], NEW x \in S
  PROVE  [l EXCEPT !.st = x] \in [st : S, name : STRING] /\ [l EXCEPT !.st = x].st = x
OBVIOUS

\* A line of PACKETS gets another state.
LEMMA LineMarked ==
  ASSUME Rest, NEW i \in DOMAIN lines, NEW st \in {"-", "E", "R"}
  PROVE  LET new == [lines EXCEPT ![i].st = st] IN
           /\ new \in Seq(LineSet)
           /\ \A j \in DOMAIN new : Todo(new[j]) => new[j].name \in DOMAIN Content
<1> DEFINE line == [lines[i] EXCEPT !.st = st]
           new == [lines EXCEPT ![i] = line]
<1>1. lines \in Seq(LineSet) /\ \A j \in DOMAIN lines : Todo(lines[j]) => lines[j].name \in DOMAIN Content
  BY DEF Rest
<1>2. lines[i] \in LineSet
  BY <1>1
<1>3. line \in LineSet /\ ~Todo(line)
  <2>1. line \in LineSet
    BY <1>2, StateSet, Zenon DEF LineSet
  <2>2. line.st = st
    BY <1>2, StateSet, Zenon DEF LineSet
  <2> QED
    BY <2>1, <2>2, Zenon DEF Todo
<1>4. lines \in [1 .. Len(lines) -> LineSet] /\ Len(lines) \in Nat
  BY <1>1
<1> HIDE DEF line
<1>5. new \in [1 .. Len(lines) -> LineSet]
  BY <1>3, <1>4
<1>6. \A j \in DOMAIN new : Todo(new[j]) => new[j].name \in DOMAIN Content
  BY <1>1, <1>3, <1>4
<1>7. [lines EXCEPT ![i].st = st] = new
  BY DEF line
<1> HIDE DEF new
<1>8. new \in Seq(LineSet)
  BY <1>4, <1>5
<1> QED
  BY <1>6, <1>7, <1>8

\* What makes a step one that Goes allows.
LEMMA MapGoes ==
  ASSUME leaked \in BOOLEAN, unmapped \in BOOLEAN, faults' \in {faults, faults + 1},
         crashes' \in {crashes, crashes + 1}, leaked' \in BOOLEAN, leaked => leaked',
         unmapped' = unmapped \/ (faults' = faults + 1 /\ MapLost)
  PROVE  Goes
<1>1. leaked' \in BOOLEAN /\ (leaked => leaked')
  OBVIOUS
<1>2. CASE unmapped' = unmapped
  <2>1. unmapped' \in BOOLEAN /\ (unmapped => unmapped') /\ (unmapped' => unmapped)
    BY <1>2, Zenon
  <2> QED
    BY <1>1, <2>1, Zenon DEF Goes
<1>3. CASE faults' = faults + 1 /\ MapLost
  <2>1. unmapped' \in BOOLEAN /\ (unmapped => unmapped')
    BY <1>3, Zenon DEF MapLost
  <2> QED
    BY <1>1, <1>3, <2>1, Zenon DEF Goes
<1> QED
  BY <1>2, <1>3

\* The steps over PACKETS, without the names of the states of its lines.
LEMMA LineSteps ==
  /\ ProcLine =>
       /\ pc = "line" /\ job.line <= Len(lines)
       /\ lines' = lines \/ lines' = [lines EXCEPT ![job.line].st = "R"]
       /\ \E g : job' = [job EXCEPT !.line = @ + 1, !.groupOk = g]
       /\ UNCHANGED <<histVars, baseVars, pc>>
  /\ OpenFails =>
       /\ pc = "line" /\ job' = [job EXCEPT !.line = @ + 1, !.groupOk = FALSE]
       /\ UNCHANGED <<histVars, baseVars, packFiles, pc>>
  /\ OpenPacket =>
       /\ pc = "line" /\ job.line <= Len(lines) /\ Todo(Line)
       /\ pc' = "item" /\ job' = [job EXCEPT !.item = 1, !.rc = 0]
       /\ UNCHANGED <<histVars, baseVars, packFiles>>
<1>1. ASSUME ProcLine PROVE \E g : job' = [job EXCEPT !.line = @ + 1, !.groupOk = g]
  BY <1>1, Zenon DEF ProcLine
<1>2. ASSUME ProcLine PROVE lines' = lines \/ lines' = [lines EXCEPT ![job.line].st = "R"]
  BY <1>2, Zenon DEF ProcLine
<1>3. ASSUME ProcLine
      PROVE  pc = "line" /\ job.line <= Len(lines) /\ UNCHANGED <<histVars, baseVars, pc>>
  BY <1>3, Zenon DEF ProcLine
<1>4. ASSUME OpenFails
      PROVE  /\ pc = "line" /\ job' = [job EXCEPT !.line = @ + 1, !.groupOk = FALSE]
             /\ UNCHANGED <<histVars, baseVars, packFiles, pc>>
  BY <1>4, Zenon DEF OpenFails
<1>5. ASSUME OpenPacket
      PROVE  /\ pc = "line" /\ job.line <= Len(lines) /\ Todo(Line)
             /\ pc' = "item" /\ job' = [job EXCEPT !.item = 1, !.rc = 0]
             /\ UNCHANGED <<histVars, baseVars, packFiles>>
  BY <1>5, Zenon DEF OpenPacket, Todo
<1> QED
  BY <1>1, <1>2, <1>3, <1>4, <1>5

LEMMA PackdisGoes ==
  ASSUME Rest, PackdisStep, UNCHANGED envVars
  PROVE  Goes
<1>1. faults \in Nat /\ leaked \in BOOLEAN /\ unmapped \in BOOLEAN /\ crashes' = crashes
  BY DEF Rest, envVars
<1>2. /\ faults' \in {faults, faults + 1} /\ leaked' = leaked
      /\ unmapped' = unmapped \/ (faults' = faults + 1 /\ MapLost)
  <2>1. CASE ProcLine \/ OpenFails \/ OpenPacket \/ EndBatch \/ EndPacket \/ Unlink \/ Status
    BY <2>1, LineSteps DEF EndBatch, EndPacket, Unlink, Status, histVars, baseVars
  <2>2. CASE NextItem \/ WriteMsg \/ WriteLoc
    BY <2>2 DEF NextItem, WriteMsg, WriteLoc, ClaimFirst, histVars
  <2>3. CASE PackPut \/ PackHeader
    BY <2>3 DEF PackPut, PackHeader, PutFails, WriteFault, histVars
  <2>4. CASE Commit
    BY <2>4 DEF Commit, WriteFault
  <2> QED
    BY <2>1, <2>2, <2>3, <2>4 DEF PackdisStep
<1>3. leaked' \in BOOLEAN /\ (leaked => leaked')
  BY <1>1, <1>2, Zenon
<1> QED
  BY <1>1, <1>2, <1>3, MapGoes

LEMMA InvParts == NetInv <=> Stores /\ Rest /\ Places /\ Shape
BY DEF NetInv, Shape

\* Rest, as far as PACKETS stays as it is.
LEMMA RestSame ==
  ASSUME Rest, Bitmaps, Goes, lines' = lines, toEnter' \subseteq toEnter
  PROVE  Rest'
<1>1. faults' \in Nat /\ crashes' \in Nat /\ leaked' \in BOOLEAN /\ unmapped' \in BOOLEAN
  BY GoesFacts DEF Goes
<1> QED
  BY <1>1 DEF Rest

\* The packet is given up: the bitmaps and tops are read again.
LEMMA BackStep ==
  ASSUME NetInv, Goes, NEW rc \in 1 .. 3, Back(rc), UNCHANGED <<disk, w, toEnter>>,
         pc \in {"item", "put", "hdr", "loc"}, job.prog = "packdis"
  PROVE  NetInv'
<1>1. Stores /\ Rest /\ Places /\ Shape
  BY InvParts
<1>2. /\ IsPackJob(job) /\ job.line \in DOMAIN lines /\ job.line \in Nat \ {0}
  BY <1>1, PackPlace DEF AtItem
<1>3. /\ lines' = IF rc = 2 THEN [lines EXCEPT ![job.line].st = "E"] ELSE lines
      /\ pc' \in {"exit", "line"}
      /\ job' = [job EXCEPT !.line = @ + 1, !.groupOk = FALSE, !.rc = rc] /\ ReadInfo
  BY DEF Back
<1>4. Rest'
  <2>1. CASE rc = 2
    <3>1. /\ lines' \in Seq(LineSet)
          /\ \A j \in DOMAIN lines' : Todo(lines'[j]) => lines'[j].name \in DOMAIN Content
      BY <2>1, <1>1, <1>2, <1>3, LineMarked
    <3>2. faults' \in Nat /\ crashes' \in Nat /\ leaked' \in BOOLEAN /\ unmapped' \in BOOLEAN
      BY <1>1, GoesFacts DEF Goes, Shape
    <3> QED
      BY <3>1, <3>2, <1>1 DEF Rest
  <2>2. CASE rc # 2
    BY <2>2, <1>1, <1>3, RestSame DEF Shape
  <2> QED
    BY <2>1, <2>2
<1>5. Places'
  <2>1. IsPackJob(job')
    BY <1>2, <1>3 DEF IsPackJob
  <2>2. pc' \in PackPcs /\ pc' \notin AtItem /\ pc' \notin {"put", "hdr", "loc"}
    BY <1>3 DEF PackPcs, AtItem
  <2> QED
    BY <2>1, <2>2 DEF Places
<1>6. (Stores /\ Shape)'
  <2>1. \A b \in Bases : Settled(b)
    BY DEF Settled, BitmapFirst
  <2> QED
    BY <2>1, <1>1, <1>3, BasesRead
<1> QED
  BY <1>1, <1>4, <1>5, <1>6 DEF NetInv, Shape

\* Steps that only look at PACKETS.
LEMMA LineKeeps ==
  ASSUME NetInv, Goes, UNCHANGED envVars,
         ProcLine \/ OpenFails \/ OpenPacket \/ EndBatch \/ EndPacket \/ Unlink \/ Status
  PROVE  NetInv'
<1>1. Stores /\ Rest /\ Places /\ Shape
  BY InvParts
<1>2. /\ UNCHANGED <<disk, mem, w, faults, toEnter>> /\ crashes' = crashes /\ unmapped' = unmapped
      /\ pc \in {"line", "item", "done", "status"} /\ pc' \in {"line", "item", "exit", "free", "status"}
  BY LineSteps DEF EndBatch, EndPacket, Unlink, Status, baseVars, histVars,
         envVars
<1>3. /\ pc \in PackPcs /\ IsPackJob(job) /\ job.prog = "packdis" /\ job.line \in Nat \ {0}
      /\ job.item \in Nat
      /\ job.line <= Len(lines) => job.line \in DOMAIN lines
      /\ pc \in AtItem => /\ job.line \in DOMAIN lines /\ Line.name \in DOMAIN Content
                          /\ job.item # 0
  BY <1>1, <1>2, PackPlace
<1>4. Rest'
  <2>1. /\ lines' \in Seq(LineSet)
        /\ \A j \in DOMAIN lines' : Todo(lines'[j]) => lines'[j].name \in DOMAIN Content
    <3>1. CASE lines' = lines
      BY <3>1, <1>1 DEF Rest
    <3>2. CASE ProcLine /\ lines' # lines
      <4>1. job.line \in DOMAIN lines /\ lines' = [lines EXCEPT ![job.line].st = "R"]
        BY <3>2, <1>3, LineSteps
      <4> QED
        BY <4>1, <1>1, LineMarked
    <3>3. CASE Status
      <4>1. job.line \in DOMAIN lines /\ lines' = [lines EXCEPT ![job.line].st = "-"]
        BY <3>3, <1>3 DEF Status, AtItem
      <4> QED
        BY <4>1, <1>1, LineMarked
    <3> QED
      BY <3>1, <3>2, <3>3, LineSteps DEF EndBatch, EndPacket, Unlink, packFiles
  <2>2. faults' \in Nat /\ crashes' \in Nat /\ leaked' \in BOOLEAN /\ unmapped' \in BOOLEAN
    BY <1>1, GoesFacts DEF Goes, Shape
  <2> QED
    BY <2>1, <2>2, <1>1, <1>2 DEF Rest
<1>5. Places'
  <2> SUFFICES /\ pc' \in PackPcs /\ IsPackJob(job')
               /\ pc' \in AtItem => /\ job'.line \in DOMAIN lines'
                                    /\ lines'[job'.line].name \in DOMAIN Content /\ job'.item # 0
               /\ pc' \notin {"put", "hdr", "loc"}
    BY DEF Places, Line
  <2>1. pc' \in PackPcs /\ pc' \notin {"put", "hdr", "loc"}
    BY <1>2 DEF PackPcs
  <2>2. CASE ProcLine
    <3>1. pc' = "line" /\ IsPackJob(job')
      <4>1. PICK g : job' = [job EXCEPT !.line = @ + 1, !.groupOk = g]
        BY <2>2, LineSteps
      <4>2. pc' = "line"
        BY <2>2, LineSteps
      <4> QED
        BY <4>1, <4>2, <1>3 DEF IsPackJob
    <3> QED
      BY <3>1, <2>1 DEF AtItem
  <2>3. CASE OpenFails \/ EndBatch \/ Status
    <3>1. pc' \in {"line", "exit"} /\ IsPackJob(job')
      <4>1. CASE OpenFails
        <5>1. pc' = "line" /\ job' = [job EXCEPT !.line = @ + 1, !.groupOk = FALSE]
          BY <4>1, LineSteps
        <5> QED
          BY <5>1, <1>3 DEF IsPackJob
      <4>2. CASE EndBatch \/ Status
        BY <4>2, <1>3 DEF EndBatch, Status, IsPackJob
      <4> QED
        BY <2>3, <4>1, <4>2
    <3> QED
      BY <3>1, <2>1 DEF AtItem
  <2>4. CASE OpenPacket
    <3>1. /\ pc = "line" /\ job.line \in DOMAIN lines /\ Todo(Line) /\ lines' = lines
          /\ job' = [job EXCEPT !.item = 1, !.rc = 0]
      BY <2>4, <1>3, LineSteps DEF packFiles
    <3>2. IsPackJob(job') /\ job'.line = job.line /\ job'.item = 1
      BY <3>1, <1>3 DEF IsPackJob
    <3>3. Line.name \in DOMAIN Content
      BY <3>1, <1>1 DEF Rest, Line
    <3> QED
      BY <3>1, <3>2, <3>3, <2>1 DEF Line
  <2>5. CASE EndPacket \/ Unlink
    <3>1. lines' = lines /\ pc \in AtItem /\ (job' = [job EXCEPT !.base = "loc"] \/ job' = job)
      BY <2>5 DEF EndPacket, Unlink, packFiles, AtItem
    <3>2. IsPackJob(job') /\ job'.line = job.line /\ job'.item = job.item
      BY <3>1, <1>3 DEF IsPackJob, Bases
    <3> QED
      BY <3>1, <3>2, <1>3, <2>1 DEF Line
  <2> QED
    BY <2>2, <2>3, <2>4, <2>5
<1>6. (Stores /\ Shape)'
  <2>2. \A b \in Bases : Settled(b)
    BY <1>2, <1>3 DEF Settled, BitmapFirst
  <2> QED
    BY <2>2, <1>1, <1>2, BasesAlone
<1> QED
  BY <1>1, <1>4, <1>5, <1>6 DEF NetInv, Shape

LEMMA PackPlaceSame ==
  ASSUME Rest, Places, job.prog = "packdis", pc \in AtItem, UNCHANGED lines, pc' \in PackPcs,
         IsPackJob(job'), job'.line = job.line, job'.item # 0,
         pc' \in {"put", "hdr", "loc"} => job'.item = job.item /\ job.item \in DOMAIN Items /\ IsLetter(Item)
  PROVE  Places'
<1>1. job.line \in DOMAIN lines /\ Line.name \in DOMAIN Content
  BY PackPlace
<1>2. Line' = Line /\ Items' = Items
  BY DEF Line, Items
<1>3. pc' \in {"put", "hdr", "loc"} => job'.item \in DOMAIN Items' /\ IsLetter(Item)'
  BY <1>2 DEF Item, IsLetter
<1> QED
  BY <1>1, <1>2, <1>3 DEF Places

LEMMA NextItemKeeps ==
  ASSUME NetInv, Goes, UNCHANGED envVars, NextItem
  PROVE  NetInv'
<1>1. Stores /\ Rest /\ Places /\ Shape
  BY InvParts
<1>2. pc = "item" /\ UNCHANGED <<disk, w>> /\ toEnter' = toEnter /\ crashes' = crashes
  BY DEF NextItem, envVars
<1>3. job.prog = "packdis" /\ IsPackJob(job) /\ pc \in AtItem
  BY <1>1, <1>2, PackPlace DEF AtItem
<1>4. CASE Item.what = "bad"
  <2>1. Back(2)
    BY <1>4 DEF NextItem
  <2> QED
    BY <2>1, <1>2, <1>3, BackStep
<1>5. CASE Item.what # "bad"
  <2>1. job' = [job EXCEPT !.item = @ + 1] /\ mem' = mem /\ lines' = lines /\ pc' = pc
        /\ unmapped' = unmapped
    BY <1>5 DEF NextItem, histVars
  <2>2. Rest'
    BY <2>1, <1>1, <1>2, RestSame DEF Shape
  <2>3. IsPackJob(job') /\ job'.line = job.line /\ job'.item # 0
    BY <2>1, <1>3 DEF IsPackJob
  <2>4. Places'
    BY <2>1, <2>3, <1>1, <1>2, <1>3, PackPlaceSame DEF PackPcs
  <2>5. \A b \in Bases : Settled(b)
    BY <1>2, <1>3 DEF Settled, BitmapFirst
  <2>6. (Stores /\ Shape)'
    BY <2>1, <2>5, <1>1, <1>2, BasesAlone
  <2> QED
    BY <2>2, <2>4, <2>6 DEF NetInv, Shape
<1> QED
  BY <1>4, <1>5

LEMMA ClaimKeeps ==
  ASSUME NetInv, Goes, UNCHANGED envVars, WriteMsg \/ WriteLoc
  PROVE  NetInv'
<1>1. Stores /\ Rest /\ Places /\ Shape
  BY InvParts
<1>2. /\ pc \in {"item", "loc"} /\ UNCHANGED disk /\ toEnter' = toEnter
      /\ crashes' = crashes /\ pc \in AtItem
  BY DEF WriteMsg, WriteLoc, ClaimFirst, envVars, AtItem
<1>3. job.prog = "packdis" /\ IsPackJob(job)
  BY <1>1, <1>2, PackPlace
<1>4. PICK b \in Bases : ClaimFirst(b)
  BY DEF WriteMsg, WriteLoc, Bases
<1>5. job.item \in DOMAIN Items /\ IsLetter(Item)
  <2>1. /\ pc = "loc" => job.item \in DOMAIN Items /\ IsLetter(Item)
        /\ DOMAIN Items = 1 .. Len(Items) /\ Len(Items) \in Nat /\ job.item \in Nat /\ job.item # 0
    BY <1>1, <1>2, PackPlace
  <2>2. CASE WriteMsg
    <3>1. job.item <= Len(Items) /\ IsLetter(Item)
      BY <2>2 DEF WriteMsg
    <3> QED
      BY <2>1, <3>1
  <2>3. CASE WriteLoc
    BY <2>1, <2>3 DEF WriteLoc
  <2> QED
    BY <2>2, <2>3
<1>6. Letter(Item.of) \in Texts
  <2>1. Item.of \in Letters
    BY <1>1, <1>2, <1>5, PackPlace
  <2> QED
    BY <2>1 DEF Letter, Texts
<1>7. CASE Full(b)
  <2>1. Back(1) /\ w' = w
    BY <1>4, <1>7 DEF ClaimFirst
  <2> QED
    BY <2>1, <1>2, <1>3, BackStep
<1>8. CASE ~Full(b)
  <2>1. Claim(b, Letter(Item.of)) /\ pc' = "put" /\ job' = job /\ lines' = lines
    BY <1>4, <1>8 DEF ClaimFirst
  <2>2. Rest'
    BY <2>1, <1>1, <1>2, RestSame DEF Shape
  <2>3. Places'
    BY <2>1, <1>1, <1>2, <1>3, <1>5, PackPlaceSame, PackPlace DEF PackPcs
  <2>4. \A c \in Bases : Settled(c)
    BY <1>2, <1>3 DEF Settled, BitmapFirst
  <2>5. (Stores /\ Shape)'
    BY <2>1, <2>4, <1>1, <1>2, <1>6, ClaimStep
  <2> QED
    BY <2>2, <2>3, <2>5 DEF NetInv, Shape
<1> QED
  BY <1>7, <1>8

LEMMA PackPutKeeps ==
  ASSUME NetInv, Goes, UNCHANGED envVars, PackPut
  PROVE  NetInv'
<1>1. Stores /\ Rest /\ Places /\ Shape
  BY InvParts
<1>2. /\ pc = "put" /\ job.prog = "packdis" /\ toEnter' = toEnter /\ crashes' = crashes
      /\ pc \in AtItem
  BY DEF PackPut, envVars, AtItem
<1>3. IsPackJob(job) /\ job.item # 0 /\ job.item \in DOMAIN Items /\ IsLetter(Item)
  BY <1>1, <1>2, PackPlace
<1>4. ASSUME pc' \in {"put", "hdr"}, job' = job, lines' = lines PROVE Rest' /\ Places'
  <2>1. Rest'
    BY <1>1, <1>2, <1>4, RestSame DEF Shape
  <2>2. Places'
    BY <1>1, <1>2, <1>3, <1>4, PackPlaceSame DEF PackPcs
  <2> QED
    BY <2>1, <2>2
<1>5. CASE PutLink /\ UNCHANGED <<faults, pc, job, lines>>
  <2>1. (Stores /\ Shape)'
    BY <1>1, <1>2, <1>5, LinkStep
  <2> QED
    BY <2>1, <1>2, <1>4, <1>5 DEF NetInv, Shape
<1>6. CASE Flush /\ pc' = "hdr" /\ UNCHANGED <<faults, mem, w, job, lines>>
  <2>1. (Stores /\ Shape)'
    BY <1>1, <1>2, <1>6, FlushStep
  <2> QED
    BY <2>1, <1>4, <1>6 DEF NetInv, Shape
<1>7. CASE PutFails /\ Back(1) /\ UNCHANGED <<disk, w>>
  BY <1>2, <1>7, BackStep
<1>8. CASE /\ w.part = Size(w.text) /\ WriteFault
           /\ Back(IF w.base = "loc" THEN 3 ELSE 2) /\ UNCHANGED <<disk, w>>
  <2>1. CASE w.base = "loc"
    BY <2>1, <1>2, <1>8, BackStep
  <2>2. CASE w.base # "loc"
    BY <2>2, <1>2, <1>8, BackStep
  <2> QED
    BY <2>1, <2>2
<1> QED
  BY <1>5, <1>6, <1>7, <1>8 DEF PackPut

LEMMA PackHeaderKeeps ==
  ASSUME NetInv, Goes, UNCHANGED envVars, PackHeader
  PROVE  NetInv'
<1>1. Stores /\ Rest /\ Places /\ Shape
  BY InvParts
<1>2. /\ pc = "hdr" /\ job.prog = "packdis" /\ toEnter' = toEnter /\ crashes' = crashes
      /\ w' = w /\ unmapped' = unmapped /\ pc \in AtItem
  BY DEF PackHeader, envVars, histVars, AtItem
<1>3. IsPackJob(job) /\ job.item # 0 /\ job.item \in DOMAIN Items /\ IsLetter(Item)
  BY <1>1, <1>2, PackPlace
<1> DEFINE h == [flags |-> IF w.base = "loc" THEN LocFlags(Item.of) ELSE MsgFlags,
                 first |-> w.first, text |-> w.text]
<1>4. CASE /\ PutHeader(w.base, h)
           /\ IF w.base = "msg" /\ WantsLoc(Item.of)
              THEN pc' = "loc" /\ UNCHANGED job
              ELSE pc' = "item" /\ job' = [job EXCEPT !.item = @ + 1]
           /\ UNCHANGED <<faults, lines>>
  <2>1. h.flags \in {{"NEW", "INCOMING"}, {"NEW", "INTRANSIT"}, {}}
        /\ h.first = w.first /\ h.text = w.text
    BY DEF LocFlags, MsgFlags
  <2>2. h \in Headers
    <3>1. w.first \in Sectors /\ w.text \in Texts
      BY <1>1, <1>2, WritingFacts DEF Shape, Working
    <3>2. h.flags \in SUBSET Flags
      BY <2>1 DEF Flags
    <3> QED
      BY <3>1, <3>2 DEF Headers
  <2> HIDE DEF h
  <2>3. /\ pc' \in {"loc", "item"} /\ lines' = lines /\ IsPackJob(job') /\ job'.line = job.line
        /\ job'.item # 0 /\ (pc' = "loc" => job'.item = job.item)
    BY <1>3, <1>4 DEF IsPackJob
  <2>4. Rest'
    BY <2>3, <1>1, <1>2, RestSame DEF Shape
  <2>5. Places'
    BY <2>3, <1>1, <1>2, <1>3, PackPlaceSame DEF PackPcs
  <2>6. \A c \in Bases : Settled(c)
    BY <1>2 DEF Settled, BitmapFirst
  <2>7. (Stores /\ Shape)'
    <3>1. h.flags \cap {"PROCESSED", "DELETED"} = {}
          /\ ("INCOMING" \in h.flags => h.flags \cap {"OUTGOING", "INTRANSIT"} = {})
      BY <2>1
    <3> QED
      BY <3>1, <2>1, <2>2, <2>3, <2>6, <1>1, <1>2, <1>4, HeaderStep
  <2> QED
    BY <2>4, <2>5, <2>7 DEF NetInv, Shape
<1>5. CASE WriteFault /\ Back(3) /\ UNCHANGED disk
  BY <1>2, <1>5, BackStep
<1> QED
  BY <1>4, <1>5 DEF PackHeader

\* The commit, if its write succeeds.
LEMMA CommitWritten ==
  ASSUME Stores, Rest, Places, Shape, Goes, pc \in {"free", "top"}, job.prog = "packdis",
         IF pc = "free" THEN WriteFree(job.base) ELSE WriteTop(job.base),
         UNCHANGED <<mem, w>>, job'.prog = "packdis",
         pc = "free" => pc' = "top" /\ job'.base = job.base,
         pc = "top" => pc' \in {"exit", "free", "done"}
  PROVE  (Stores /\ Shape)'
<1>1. job.base \in Bases
  BY PackPlace
<1> DEFINE b == job.base
<1>2. ~Working /\ ~Working'
  BY DEF Working
<1>3. CASE pc = "free"
  <2>1. Stores' /\ MapStep(b)
    BY <1>1, <1>2, <1>3, FreeWritten
  <2>2. \A c \in Bases : (BitmapFirst(c)' <=> c = b) /\ Settled(c)
    BY <1>3 DEF BitmapFirst, Settled
  <2>3. ~Settled(b)'
    BY <1>3, <2>2 DEF Settled, BitmapFirst
  <2> HIDE DEF b
  <2>4. Shape'
    BY <2>1, <2>2, <2>3, <1>1, <1>3, MapWritten DEF b
  <2> QED
    BY <2>1, <2>4
<1>4. CASE pc = "top"
  <2>1. ~unmapped => disk[b].used = mem.used[b]
    BY <1>1, <1>4 DEF Shape, Bitmaps, BitmapFirst
  <2>2. Stores' /\ MapStep(b) /\ disk'[b].top = mem.top[b]
    BY <2>1, <1>1, <1>2, <1>4, TopWritten
  <2>3. \A c \in Bases : ~BitmapFirst(c)' /\ (c # b => Settled(c))
    BY <1>4 DEF BitmapFirst, Settled
  <2>4. Shape'
    BY <2>2, <2>3, <1>1, <1>4, MapWritten
  <2> QED
    BY <2>2, <2>4
<1> QED
  BY <1>3, <1>4

LEMMA CommitKeeps ==
  ASSUME NetInv, Goes, UNCHANGED envVars, Commit
  PROVE  NetInv'
<1>1. Stores /\ Rest /\ Places /\ Shape
  BY InvParts
<1>2. /\ pc \in {"free", "top"} /\ job.prog = "packdis" /\ toEnter' = toEnter /\ crashes' = crashes
      /\ UNCHANGED <<mem, w, lines>> /\ leaked' = leaked
  BY DEF Commit, envVars, packFiles
<1>3. IsPackJob(job) /\ (pc \in AtItem => job.item # 0)
  BY <1>1, <1>2, PackPlace
<1>4. PICK rc \in {job.rc, 3} :
        /\ \/ /\ rc = job.rc /\ UNCHANGED <<faults, unmapped>>
              /\ IF pc = "free" THEN WriteFree(job.base) ELSE WriteTop(job.base)
           \/ rc = 3 /\ WriteFault /\ MapLost /\ UNCHANGED disk
        /\ job' = [job EXCEPT !.rc = rc, !.base = IF pc = "top" THEN "msg" ELSE @]
        /\ pc' = CASE pc = "free" -> "top"
                   [] pc = "top" /\ rc = 3 -> "exit"
                   [] OTHER -> IF job.base = "loc" THEN "free" ELSE "done"
  BY DEF Commit
<1>5. /\ IsPackJob(job') /\ job'.line = job.line /\ job'.item = job.item
      /\ pc = "free" => pc' = "top" /\ job'.base = job.base
      /\ pc = "top" => pc' \in {"exit", "free", "done"}
  <2>1. job'.base \in Bases /\ (pc = "free" => job'.base = job.base)
    BY <1>2, <1>3, <1>4 DEF IsPackJob, Bases
  <2>2. /\ job'.prog = job.prog /\ job'.line = job.line /\ job'.item = job.item
        /\ DOMAIN job' = DOMAIN job
    BY <1>3, <1>4 DEF IsPackJob
  <2>3. /\ pc = "free" => pc' = "top"
        /\ pc = "top" => pc' \in {"exit", "free", "done"}
    BY <1>4
  <2> QED
    BY <2>1, <2>2, <2>3, <1>3 DEF IsPackJob
<1>6. Rest'
  BY <1>1, <1>2, RestSame DEF Shape
<1>7. Places'
  <2>1. pc' \in PackPcs /\ pc' \notin {"put", "hdr", "loc"} /\ pc \in AtItem
    BY <1>2, <1>5 DEF PackPcs, AtItem
  <2> QED
    BY <2>1, <1>1, <1>2, <1>3, <1>5, PackPlaceSame
<1>8. CASE IF pc = "free" THEN WriteFree(job.base) ELSE WriteTop(job.base)
  <2>1. (Stores /\ Shape)'
    BY <1>1, <1>2, <1>5, <1>8, CommitWritten DEF IsPackJob
  <2> QED
    BY <2>1, <1>6, <1>7 DEF NetInv, Shape
<1>9. CASE WriteFault /\ MapLost /\ UNCHANGED disk
  <2>1. ~Quiet'
    BY <1>1, <1>9, GoesFacts DEF WriteFault, Shape
  <2>2. pc' = "top" => unmapped'
    <3>1. pc' = "top" => pc = "free"
      BY <1>2, <1>5
    <3> QED
      BY <3>1, <1>9, Zenon DEF MapLost
  <2>3. (Stores /\ Shape)'
    <3>1. pc # "idle" /\ pc' \notin {"idle", "put", "hdr", "del", "mark"} /\ pc # "mark"
      BY <1>2, <1>5
    <3> QED
      BY <3>1, <2>1, <2>2, <1>1, <1>2, <1>9, BasesAlone
  <2> QED
    BY <2>3, <1>6, <1>7 DEF NetInv, Shape
<1> QED
  BY <1>4, <1>8, <1>9

LEMMA PackdisKeeps ==
  ASSUME NetInv, PackdisStep, UNCHANGED envVars
  PROVE  NetInv'
<1>1. Goes
  BY PackdisGoes DEF NetInv
<1> QED
  BY <1>1, LineKeeps, NextItemKeeps, ClaimKeeps, PackPutKeeps, PackHeaderKeeps, CommitKeeps
     DEF PackdisStep

-----------------------------------------------------------------------------
(* Mailass.                                                                *)

LEMMA MailPlace ==
  ASSUME Places, job.prog = "mailass" \/ pc \in {"del", "mark"}
  PROVE  /\ pc \in MailPcs /\ job \in ScanJobs /\ job.prog = "mailass" /\ job.this \in Nat
         /\ pc = "scan" => job.this # 0
         /\ pc \in {"put", "hdr"} => w.base = "loc"
         /\ pc \in AtOld =>
              /\ job.this \in 1 .. mem.top["loc"] /\ job.text \in Texts
              /\ Old.flags \cap {"OUTGOING", "INTRANSIT"} # {} /\ "DELETED" \notin Old.flags
              /\ "PROCESSED" \in Old.flags <=> pc \in {"del", "mark"}
<1>1. /\ pc \in MailPcs /\ job \in ScanJobs /\ job.prog = "mailass"
      /\ pc = "scan" => job.this # 0
      /\ pc \in {"put", "hdr"} => w.base = "loc"
      /\ pc \in AtOld =>
           /\ job.this \in 1 .. mem.top["loc"] /\ job.text \in Texts
           /\ Old.flags \cap {"OUTGOING", "INTRANSIT"} # {} /\ "DELETED" \notin Old.flags
           /\ "PROCESSED" \in Old.flags <=> pc \in {"del", "mark"}
  BY DEF Places, IsPackJob, NoJob, PackPcs, BbPcs
<1>2. job.this \in Nat
  BY <1>1 DEF ScanJobs
<1> QED
  BY <1>1, <1>2

\* A flag of the history that is at most raised.
LEMMA Raised ==
  ASSUME NEW x, NEW y \in BOOLEAN, x = y \/ x = TRUE
  PROVE  x \in BOOLEAN /\ (y => x)
OBVIOUS

\* What mailass and bbass do to the histories, and what they leave alone.
LEMMA ScanGoes ==
  ASSUME NetInv, MailassStep \/ BbassStep, UNCHANGED <<packFiles, envVars>>
  PROVE  Goes /\ Rest' /\ lines' = lines /\ toEnter' = toEnter /\ crashes' = crashes
<1>1. Rest /\ Bitmaps /\ faults \in Nat /\ leaked \in BOOLEAN /\ unmapped \in BOOLEAN
  BY DEF NetInv, Rest
<1>2. lines' = lines /\ toEnter' = toEnter /\ crashes' = crashes
  BY DEF packFiles, envVars
<1>3. /\ faults' \in {faults, faults + 1}
      /\ leaked' = leaked \/ leaked' = TRUE
      /\ unmapped' = unmapped \/ (faults' = faults + 1 /\ MapLost)
  <2>1. CASE Scan \/ LocalClaim \/ BounceClaim \/ MailPut
    BY <2>1 DEF Scan, LocalClaim, BounceClaim, MailPut, histVars, baseVars
  <2>2. CASE LocalPutFails \/ BouncePutFails \/ MailHeader
    BY <2>2 DEF LocalPutFails, BouncePutFails, MailHeader, PutError, PutFails, WriteFault, histVars
  <2>3. CASE MailAppend \/ MailBody \/ MailSetproc \/ DeleteFree \/ DeleteMark
    BY <2>3 DEF MailAppend, MailBody, MailSetproc, DeleteFree, DeleteMark, WriteFault, histVars
  <2>4. CASE MailClose \/ BbClose
    BY <2>4 DEF MailClose, BbClose, WriteFault
  <2>5. CASE BbScan \/ BbAppend \/ BbBody \/ BbSetproc \/ BbLocal
    BY <2>5 DEF BbScan, BbAppend, BbBody, BbSetproc, BbLocal, WriteFault, histVars, baseVars
  <2>6. CASE BbPut \/ BbHeader
    BY <2>6 DEF BbPut, BbHeader, PutFails, WriteFault
  <2> QED
    BY <2>1, <2>2, <2>3, <2>4, <2>5, <2>6 DEF MailassStep, BbassStep
<1>4. Goes
  <2>1. crashes' \in {crashes, crashes + 1}
    BY <1>2
  <2>2. leaked' \in BOOLEAN /\ (leaked => leaked')
    <3>1. leaked' = leaked \/ leaked' = TRUE
      BY <1>3
    <3> QED
      BY <3>1, <1>1, Raised
  <2> QED
    BY <2>1, <2>2, <1>1, <1>3, MapGoes
<1> QED
  BY <1>1, <1>2, <1>4, RestSame

\* As long as mailass or bbass works on loctxt, what is lost there does not count.
LEMMA SettledSame ==
  ASSUME job.prog # "packdis", job'.prog # "packdis", pc # "idle", pc \notin {"exit", "free2", "top2"},
         pc' \notin {"idle", "exit", "free2", "top2"}, NEW b \in Bases
  PROVE  /\ Settled(b)' <=> Settled(b)
         /\ Settled(b) <=> b = "msg"
BY DEF Settled

\* The message at work stays, or the program goes to its end.
LEMMA MailStays ==
  ASSUME Places, job.prog = "mailass", pc \in AtOld, job' = job, pc' \in MailPcs, Old'.flags = Old.flags,
         mem'.top["loc"] \in Nat, mem'.top["loc"] >= mem.top["loc"], mem.top["loc"] \in Nat,
         pc' \in {"put", "hdr"} => w'.base = "loc",
         pc' # "scan", pc' \in AtOld => (pc' \in {"del", "mark"} <=> pc \in {"del", "mark"})
  PROVE  Places'
<1>1. /\ job \in ScanJobs /\ job.this \in 1 .. mem.top["loc"] /\ job.text \in Texts
      /\ Old.flags \cap {"OUTGOING", "INTRANSIT"} # {} /\ "DELETED" \notin Old.flags
      /\ "PROCESSED" \in Old.flags <=> pc \in {"del", "mark"}
  BY MailPlace
<1>2. job'.this \in 1 .. mem'.top["loc"]
  BY <1>1
<1>3. pc' \in AtOld =>
           /\ job'.this \in 1 .. mem'.top["loc"] /\ job'.text \in Texts
           /\ Old'.flags \cap {"OUTGOING", "INTRANSIT"} # {} /\ "DELETED" \notin Old'.flags
           /\ "PROCESSED" \in Old'.flags <=> pc' \in {"del", "mark"}
  BY <1>1, <1>2
<1> QED
  BY <1>1, <1>3 DEF Places

LEMMA MailEnds ==
  ASSUME job' \in ScanJobs, job'.prog = "mailass", pc' \in MailPcs, pc' \notin AtOld,
         pc' = "scan" => job'.this # 0
  PROVE  Places'
BY DEF Places, AtOld

\* Steps after which the bases are as they were.
LEMMA MailAlone ==
  ASSUME NetInv, Goes, Rest', UNCHANGED <<disk, mem, w>>, job.prog = "mailass", Places',
         job'.prog = "mailass", pc # "idle", pc # "exit",
         pc' \notin {"idle", "put", "hdr", "del", "mark", "exit"}, pc = "mark" => ~Quiet',
         pc' = "top" => unmapped', pc \in {"put", "hdr"} => leaked' = TRUE
  PROVE  NetInv'
<1>1. Stores /\ Rest /\ Shape /\ Places
  BY InvParts
<1>2. pc \in MailPcs /\ pc' \in MailPcs
  <2>1. pc' \in MailPcs
    BY DEF Places, IsPackJob, NoJob, ScanJobs
  <2> QED
    BY <2>1, <1>1, MailPlace
<1>3. \A b \in Bases : Settled(b)' => Settled(b)
  BY <1>2, SettledSame DEF MailPcs
<1>4. ~leaked' => pc \notin {"put", "hdr"}
  BY Zenon
<1>5. (Stores /\ Shape)'
  BY <1>1, <1>3, <1>4, BasesAlone
<1> QED
  BY <1>5 DEF NetInv, Shape

LEMMA ScanKeeps ==
  ASSUME NetInv, Goes, Rest', Scan
  PROVE  NetInv'
<1>1. /\ Stores /\ Rest /\ Shape /\ Places
      /\ pc = "scan" /\ job.prog = "mailass" /\ UNCHANGED <<disk, mem, w>>
  BY InvParts DEF Scan, baseVars
<1>2. job \in ScanJobs /\ job.this \in Nat \ {0}
  BY <1>1, MailPlace
<1> DEFINE todo == {i \in job.this .. mem.top["loc"] : ~Ignorel(disk["loc"].hdr[i])}
<1>3. CASE todo = {}
  <2>1. pc' = "free" /\ job' = job
    BY <1>3 DEF Scan
  <2>2. Places'
    BY <2>1, <1>1, <1>2, MailEnds DEF MailPcs, AtOld
  <2> QED
    BY <2>1, <2>2, <1>1, MailAlone
<1>4. CASE todo # {}
  <2>1. PICK m : m = Min(todo)
    OBVIOUS
  <2>2. /\ pc' = "act"
        /\ job' = [job EXCEPT !.this = m, !.text = disk["loc"].txt[disk["loc"].hdr[m].first].text]
    BY <1>4, <2>1 DEF Scan
  <2>3. mem.top["loc"] \in Nat /\ Count("loc") = mem.top["loc"] /\ DOMAIN disk["loc"].hdr = 1 .. Len(disk["loc"].hdr)
        /\ Count("loc") <= Len(disk["loc"].hdr) /\ Len(disk["loc"].hdr) \in Nat
    <3>1. "loc" \in Bases
      BY DEF Bases
    <3>2. mem.top["loc"] \in Nat /\ disk["loc"].hdr \in Seq(Headers)
      BY <1>1, <3>1, HasFacts DEF Shape
    <3>3. Count("loc") <= Len(disk["loc"].hdr)
      BY <1>1, <3>1 DEF Shape, Headed
    <3> QED
      BY <3>2, <3>3, <1>1 DEF Count
  <2>4. m \in todo
    <3>1. todo \subseteq Nat
      BY <1>2, <2>3
    <3> QED
      BY <1>4, <2>1, <3>1, MinFacts
  <2>5. m \in 1 .. mem.top["loc"] /\ m \in DOMAIN disk["loc"].hdr /\ m \in Nat /\ m # 0
        /\ ~Ignorel(disk["loc"].hdr[m])
    BY <1>2, <2>3, <2>4
  <2>6. disk["loc"].txt[disk["loc"].hdr[m].first].text \in Texts
    BY <1>1, <2>5 DEF Shape, Headed, Bases
  <2>7. job' \in ScanJobs /\ job'.prog = "mailass" /\ job'.this = m /\ job'.text \in Texts
    BY <1>1, <1>2, <2>2, <2>5, <2>6 DEF ScanJobs
  <2>8. Places'
    <3>1. Old' = disk["loc"].hdr[m]
      BY <1>1, <2>7 DEF Old
    <3>2. /\ Old'.flags \cap {"OUTGOING", "INTRANSIT"} # {} /\ "DELETED" \notin Old'.flags
          /\ "PROCESSED" \notin Old'.flags
      BY <3>1, <2>5 DEF Ignorel
    <3>3. job'.this \in 1 .. mem'.top["loc"]
      BY <2>5, <2>7, <1>1
    <3>4. pc' \in MailPcs /\ pc' \notin {"scan", "put", "hdr", "del", "mark"}
      BY <2>2 DEF MailPcs
    <3> QED
      BY <2>7, <3>2, <3>3, <3>4 DEF Places
  <2> QED
    BY <2>2, <2>7, <2>8, <1>1, MailAlone
<1> QED
  BY <1>3, <1>4

\* A text is started in loctxt.
LEMMA MailClaim ==
  ASSUME NetInv, Goes, Rest', NEW t \in Texts, pc = "act", job.prog = "mailass",
         IF Full("loc") THEN pc' = "free" /\ UNCHANGED <<mem, w>>
         ELSE Claim("loc", t) /\ pc' = "put",
         UNCHANGED <<disk, job>>
  PROVE  NetInv'
<1>1. Stores /\ Rest /\ Shape /\ Places
  BY InvParts
<1>2. job \in ScanJobs /\ job.prog = "mailass" /\ "loc" \in Bases /\ mem.top["loc"] \in Nat
  BY <1>1, MailPlace, HasFacts DEF Bases, Shape
<1>3. CASE Full("loc")
  <2>1. Places'
    BY <1>2, <1>3, MailEnds DEF MailPcs, AtOld
  <2> QED
    BY <2>1, <1>3, MailAlone
<1>4. CASE ~Full("loc")
  <2>1. Claim("loc", t) /\ pc' = "put"
    BY <1>4
  <2>2. Places'
    <3>1. w'.base = "loc" /\ mem'.top["loc"] = mem.top["loc"]
      BY <2>1, <1>1 DEF Claim, Stores
    <3>2. Old' = Old
      BY DEF Old
    <3> QED
      BY <3>1, <3>2, <2>1, <1>1, <1>2, MailStays DEF MailPcs, AtOld
  <2>3. \A b \in Bases : Settled(b)' => Settled(b)
    BY <2>1, SettledSame
  <2>4. (Stores /\ Shape)'
    BY <2>1, <2>3, <1>1, <1>2, ClaimStep
  <2> QED
    BY <2>2, <2>4 DEF NetInv, Shape
<1> QED
  BY <1>3, <1>4

LEMMA MailClaimKeeps ==
  ASSUME NetInv, Goes, Rest', LocalClaim \/ BounceClaim
  PROVE  NetInv'
<1>1. pc = "act" /\ job.prog = "mailass" /\ UNCHANGED <<disk, job>>
  BY DEF LocalClaim, BounceClaim
<1>2. job.text \in Texts
  BY <1>1, MailPlace DEF NetInv, AtOld
<1>3. Notice \in Texts
  <2>1. job.text.of \in Letters
    BY <1>2 DEF Texts
  <2>2. Bounced(Old, job.text).kind \in {"letter", "notice", "sysop"}
    BY DEF Bounced
  <2> QED
    BY <2>1, <2>2 DEF Notice, Texts
<1>4. CASE LocalClaim
  <2>1. IF Full("loc") THEN pc' = "free" /\ UNCHANGED <<mem, w>>
        ELSE Claim("loc", job.text) /\ pc' = "put"
    BY <1>4 DEF LocalClaim
  <2> QED
    BY <1>1, <1>2, <2>1, MailClaim
<1>5. CASE BounceClaim
  <2>1. IF Full("loc") THEN pc' = "free" /\ UNCHANGED <<mem, w>>
        ELSE Claim("loc", Notice) /\ pc' = "put"
    BY <1>5 DEF BounceClaim
  <2> QED
    BY <1>1, <1>3, <2>1, MailClaim
<1> QED
  BY <1>4, <1>5

\* The writer's steps over loctxt, as far as Places goes.
LEMMA TextPlace ==
  ASSUME Stores, PutLink \/ (Flush /\ UNCHANGED <<mem, w>>)
  PROVE  /\ \A c \in Bases : disk'[c].hdr = disk[c].hdr /\ disk'[c].used = disk[c].used
                             /\ disk'[c].top = disk[c].top
         /\ mem'.top = mem.top /\ w'.base = w.base
         /\ \A c \in Bases : c # w.base => mem'.used[c] = mem.used[c]
<1>1. CASE PutLink
  BY <1>1 DEF PutLink, Stores, BaseSet
<1>2. CASE Flush /\ UNCHANGED <<mem, w>>
  BY <1>2 DEF Flush, Stores, BaseSet
<1> QED
  BY <1>1, <1>2

LEMMA MailPutKeeps ==
  ASSUME NetInv, Goes, Rest', MailPut
  PROVE  NetInv'
<1>1. /\ Stores /\ Rest /\ Shape /\ Places /\ pc = "put" /\ job.prog = "mailass" /\ job' = job
      /\ \/ PutLink /\ pc' = "put"
         \/ Flush /\ pc' = "hdr" /\ UNCHANGED <<mem, w>>
  BY InvParts DEF MailPut
<1>2. w.base = "loc" /\ "loc" \in Bases /\ mem.top["loc"] \in Nat
  BY <1>1, MailPlace, HasFacts DEF Shape, Bases
<1>3. (Stores /\ Shape)'
  BY <1>1, LinkStep, FlushStep
<1>4. Places'
  <2>1. disk'["loc"].hdr = disk["loc"].hdr /\ mem'.top = mem.top /\ w'.base = w.base
    BY <1>1, <1>2, TextPlace
  <2>2. Old' = Old
    BY <2>1, <1>1 DEF Old
  <2>3. pc' \in {"put", "hdr"} /\ pc' \in MailPcs /\ pc \in AtOld
    BY <1>1 DEF MailPcs, AtOld
  <2> QED
    BY <2>1, <2>2, <2>3, <1>1, <1>2, MailStays
<1> QED
  BY <1>3, <1>4 DEF NetInv, Shape

\* recover(1) on loctxt.
LEMMA UndoneStep ==
  ASSUME Stores, Rest, Shape, Goes, Recover1, UNCHANGED <<w, job>>, w.base = "loc", pc = "put",
         pc' = "free", job.prog # "packdis"
  PROVE  (Stores /\ Shape)'
<1>1. Working /\ ~Working' /\ "loc" \in Bases
  BY DEF Working, Bases
<1>2. Stores' /\ MapStep("loc")
  BY <1>1, TextUndone DEF Shape
<1>3. \A c \in Bases : /\ ~BitmapFirst(c)' /\ (Settled(c)' => Settled(c) /\ c # "loc")
  BY SettledSame DEF BitmapFirst
<1>4. Shape'
  BY <1>1, <1>2, <1>3, MapWritten
<1> QED
  BY <1>2, <1>4

LEMMA MailFailsKeeps ==
  ASSUME NetInv, Goes, Rest', LocalPutFails \/ BouncePutFails
  PROVE  NetInv'
<1>1. /\ Stores /\ Rest /\ Shape /\ Places /\ pc = "put" /\ job.prog = "mailass" /\ job' = job
      /\ pc' = "free" /\ w' = w
  BY InvParts DEF LocalPutFails, BouncePutFails
<1>2. w.base = "loc" /\ job \in ScanJobs
  BY <1>1, MailPlace
<1>3. Places'
  BY <1>1, <1>2, MailEnds DEF MailPcs, AtOld
<1>4. CASE LocalPutFails
  <2>1. (Stores /\ Shape)'
    BY <1>1, <1>2, <1>4, UndoneStep DEF LocalPutFails
  <2> QED
    BY <2>1, <1>3 DEF NetInv, Shape
<1>5. CASE BouncePutFails
  <2>1. disk' = disk /\ mem' = mem /\ leaked' = TRUE
    BY <1>5 DEF BouncePutFails
  <2> QED
    BY <2>1, <1>1, <1>3, MailAlone
<1> QED
  BY <1>4, <1>5

\* A header is written behind the last: those before it stay.
LEMMA HeaderPlace ==
  ASSUME Stores, Headed, pc # "idle", NEW b \in Bases, NEW h, PutHeader(b, h), NEW i \in 1 .. mem.top[b]
  PROVE  /\ disk'[b].hdr[i] = disk[b].hdr[i]
         /\ mem.top[b] \in Nat /\ mem'.top[b] = mem.top[b] + 1
         /\ \A c \in Bases : /\ disk'[c].used = disk[c].used /\ disk'[c].top = disk[c].top
                             /\ mem'.used[c] = mem.used[c]
                             /\ c # b => disk'[c].hdr = disk[c].hdr /\ mem'.top[c] = mem.top[c]
<1>1. /\ disk \in [Bases -> BaseSet] /\ mem \in [used : [Bases -> SUBSET Sectors], top : [Bases -> Nat]]
      /\ mem.top[b] \in Nat /\ disk[b].hdr \in Seq(Headers)
  BY HasFacts DEF Stores
<1> DEFINE n == mem.top[b] + 1
           old == disk[b].hdr
           new == [k \in 1 .. (IF n > Len(old) THEN n ELSE Len(old)) |-> IF k = n THEN h ELSE old[k]]
<1>2. disk' = [disk EXCEPT ![b].hdr = new] /\ mem' = [mem EXCEPT !.top[b] = n]
  BY DEF PutHeader
<1>3. new[i] = old[i]
  BY <1>1
<1> HIDE DEF new
<1>4. disk'[b].hdr = new
  BY <1>1, <1>2 DEF BaseSet
<1>5. mem'.top[b] = n /\ \A c \in Bases : mem'.used[c] = mem.used[c] /\ (c # b => mem'.top[c] = mem.top[c])
  BY <1>1, <1>2
<1>6. \A c \in Bases : /\ disk'[c].used = disk[c].used /\ disk'[c].top = disk[c].top
                       /\ c # b => disk'[c].hdr = disk[c].hdr
  BY <1>1, <1>2 DEF BaseSet
<1> QED
  BY <1>1, <1>3, <1>4, <1>5, <1>6

LEMMA MailHeaderKeeps ==
  ASSUME NetInv, Goes, Rest', MailHeader
  PROVE  NetInv'
<1>1. /\ Stores /\ Rest /\ Shape /\ Places /\ pc = "hdr" /\ job.prog = "mailass" /\ job' = job /\ w' = w
  BY InvParts DEF MailHeader
<1>2. w.base = "loc" /\ job \in ScanJobs /\ "loc" \in Bases /\ pc \in AtOld /\ job.this \in 1 .. mem.top["loc"]
  BY <1>1, MailPlace DEF Bases, AtOld
<1> DEFINE h == [flags |-> IF Bouncing THEN Bounced(Old, job.text).flags ELSE {"INCOMING", "NEW"},
                 first |-> w.first, text |-> w.text]
<1>3. CASE PutHeader("loc", h) /\ pc' = "proc"
  <2>1. h.flags \in {{"INCOMING", "NEW"}, {"INTRANSIT"}} /\ h.first = w.first /\ h.text = w.text
    BY DEF Bounced
  <2>2. h \in Headers
    <3>1. w.first \in Sectors /\ w.text \in Texts
      BY <1>1, WritingFacts DEF Shape, Working
    <3>2. h.flags \in SUBSET Flags
      BY <2>1 DEF Flags
    <3> QED
      BY <3>1, <3>2 DEF Headers
  <2> HIDE DEF h
  <2>3. h.flags \cap {"PROCESSED", "DELETED"} = {}
        /\ ("INCOMING" \in h.flags => h.flags \cap {"OUTGOING", "INTRANSIT"} = {})
    BY <2>1
  <2>4. \A b \in Bases : Settled(b)' => Settled(b)
    BY <1>1, <1>3, SettledSame
  <2>5. (Stores /\ Shape)'
    BY <2>1, <2>2, <2>3, <2>4, <1>1, <1>2, <1>3, HeaderStep
  <2>6. Places'
    <3>1. disk'["loc"].hdr[job.this] = disk["loc"].hdr[job.this] /\ mem'.top["loc"] = mem.top["loc"] + 1
          /\ mem.top["loc"] \in Nat
      BY <1>1, <1>2, <1>3, HeaderPlace DEF Shape
    <3>2. Old' = Old
      BY <3>1, <1>1 DEF Old
    <3>3. pc' \in MailPcs /\ mem'.top["loc"] \in Nat /\ mem'.top["loc"] >= mem.top["loc"]
      BY <3>1, <1>3 DEF MailPcs
    <3> QED
      BY <3>1, <3>2, <3>3, <1>1, <1>2, <1>3, MailStays
  <2> QED
    BY <2>5, <2>6 DEF NetInv, Shape
<1>4. CASE leaked' = TRUE /\ pc' = "free" /\ UNCHANGED <<disk, mem>>
  <2>1. Places'
    BY <1>1, <1>2, <1>4, MailEnds DEF MailPcs, AtOld
  <2> QED
    BY <2>1, <1>1, <1>4, MailAlone
<1> QED
  BY <1>3, <1>4 DEF MailHeader

LEMMA MailSendKeeps ==
  ASSUME NetInv, Goes, Rest', MailAppend \/ MailBody
  PROVE  NetInv'
<1>1. /\ Stores /\ Rest /\ Shape /\ Places /\ pc \in {"act", "body"} /\ job.prog = "mailass" /\ job' = job
      /\ pc' \in {"body", "proc", "free"} /\ UNCHANGED <<disk, mem, w>>
  BY InvParts DEF MailAppend, MailBody
<1>2. job \in ScanJobs /\ pc \in AtOld /\ "loc" \in Bases /\ mem.top["loc"] \in Nat
  BY <1>1, MailPlace, HasFacts DEF Bases, AtOld, Shape
<1>3. Places'
  <2>1. CASE pc' = "free"
    BY <2>1, <1>1, <1>2, MailEnds DEF MailPcs, AtOld
  <2>2. CASE pc' # "free"
    <3>1. Old' = Old
      BY <1>1 DEF Old
    <3>2. pc' \in MailPcs
      BY <1>1 DEF MailPcs
    <3> QED
      BY <2>2, <3>1, <3>2, <1>1, <1>2, MailStays
  <2> QED
    BY <2>1, <2>2
<1> QED
  BY <1>1, <1>3, MailAlone

\* SetFlag changes one header.
LEMMA FlagSet ==
  ASSUME Stores, NEW b \in Bases, NEW i \in DOMAIN disk[b].hdr, NEW flag, SetFlag(b, i, flag)
  PROVE  /\ \A c \in Bases : /\ c # b => disk'[c].hdr = disk[c].hdr
                             /\ disk'[c].used = disk[c].used /\ disk'[c].top = disk[c].top
         /\ \A j \in DOMAIN disk[b].hdr : j # i => disk'[b].hdr[j] = disk[b].hdr[j]
         /\ disk'[b].hdr[i].flags = disk[b].hdr[i].flags \cup {flag}
<1>1. disk \in [Bases -> BaseSet] /\ disk[b].hdr \in Seq(Headers) /\ disk[b].hdr[i] \in Headers
  BY DEF Stores, BaseSet
<1>2. PICK h : h = [disk[b].hdr[i] EXCEPT !.flags = @ \cup {flag}]
  OBVIOUS
<1>3. h.flags = disk[b].hdr[i].flags \cup {flag}
  BY <1>1, <1>2 DEF Headers
<1>4. PICK g : g = [disk[b].hdr EXCEPT ![i] = h]
  OBVIOUS
<1>5. g[i] = h /\ \A j \in DOMAIN disk[b].hdr : j # i => g[j] = disk[b].hdr[j]
  BY <1>4
<1>6. disk' = [disk EXCEPT ![b].hdr = g]
  BY <1>2, <1>4 DEF SetFlag
<1>7. /\ disk'[b].hdr = g
      /\ \A c \in Bases : /\ c # b => disk'[c].hdr = disk[c].hdr
                          /\ disk'[c].used = disk[c].used /\ disk'[c].top = disk[c].top
  BY <1>1, <1>6 DEF BaseSet
<1> QED
  BY <1>3, <1>5, <1>7

LEMMA MailSetprocKeeps ==
  ASSUME NetInv, Goes, Rest', MailSetproc
  PROVE  NetInv'
<1>1. /\ Stores /\ Rest /\ Shape /\ Places /\ pc = "proc" /\ job.prog = "mailass" /\ job' = job
      /\ UNCHANGED <<mem, w>> /\ crashes' \in {crashes, crashes + 1}
  BY InvParts DEF MailSetproc, Goes
<1>2. /\ job \in ScanJobs /\ "loc" \in Bases /\ pc \in AtOld /\ job.this \in 1 .. mem.top["loc"]
      /\ mem.top["loc"] \in Nat /\ Count("loc") = mem.top["loc"] /\ "PROCESSED" \notin Old.flags
      /\ job.text \in Texts /\ job.this \in DOMAIN disk["loc"].hdr
      /\ Old.flags \cap {"OUTGOING", "INTRANSIT"} # {} /\ "DELETED" \notin Old.flags
  <2>1. /\ job \in ScanJobs /\ "loc" \in Bases /\ pc \in AtOld /\ job.this \in 1 .. mem.top["loc"]
        /\ "PROCESSED" \notin Old.flags /\ job.text \in Texts
        /\ Old.flags \cap {"OUTGOING", "INTRANSIT"} # {} /\ "DELETED" \notin Old.flags
    BY <1>1, MailPlace DEF Bases, AtOld
  <2>2. Count("loc") = mem.top["loc"] /\ mem.top["loc"] \in Nat /\ disk["loc"].hdr \in Seq(Headers)
        /\ Count("loc") <= Len(disk["loc"].hdr)
    BY <2>1, <1>1, HasFacts DEF Count, Shape, Headed
  <2>3. job.this \in DOMAIN disk["loc"].hdr
    BY <2>1, <2>2
  <2> QED
    BY <2>1, <2>2, <2>3
<1>3. CASE SetFlag("loc", job.this, "PROCESSED") /\ pc' = "del"
  <2>1. /\ \A c \in Bases : c # "loc" => disk'[c].hdr = disk[c].hdr
        /\ \A j \in DOMAIN disk["loc"].hdr : j # job.this => disk'["loc"].hdr[j] = disk["loc"].hdr[j]
        /\ disk'["loc"].hdr[job.this].flags = Old.flags \cup {"PROCESSED"}
    BY <1>1, <1>2, <1>3, FlagSet DEF Old
  <2>2. Quiet' => Quiet
    BY <1>1, GoesFacts DEF Shape
  <2>3. \A c \in Bases : \A j \in 1 .. Count(c) : /\ Kept(c, j)' => Kept(c, j)
                                                  /\ Quiet' /\ Kept(c, j) => Kept(c, j)'
    <3> SUFFICES ASSUME NEW c \in Bases, NEW j \in 1 .. Count(c)
                 PROVE  /\ Kept(c, j)' => Kept(c, j)
                        /\ Quiet' /\ Kept(c, j) => Kept(c, j)'
      OBVIOUS
    <3>1. CASE c = "loc" /\ j = job.this
      <4>1. disk'[c].hdr[j].flags = disk[c].hdr[j].flags \cup {"PROCESSED"} /\ job'.this = j
        BY <2>1, <3>1, <1>1 DEF Old
      <4>2. Kept(c, j)
        BY <3>1, <1>2 DEF Kept, Old
      <4>3. Kept(c, j)'
        BY <3>1, <4>1, <1>2, <1>3 DEF Kept, Old
      <4> QED
        BY <4>2, <4>3
    <3>2. CASE c = "loc" /\ j # job.this
      <4>1. disk'[c].hdr[j] = disk[c].hdr[j]
        <5>1. j \in DOMAIN disk["loc"].hdr
          BY <3>2, <1>1, <1>2, HasFacts DEF Shape, Headed
        <5> QED
          BY <5>1, <3>2, <2>1
      <4> QED
        BY <4>1, <3>2, <2>2, <1>1, <1>3 DEF Kept
    <3>3. CASE c # "loc"
      <4>1. disk'[c].hdr[j] = disk[c].hdr[j] /\ c = "msg"
        BY <3>3, <2>1 DEF Bases
      <4> QED
        BY <4>1 DEF Kept
    <3> QED
      BY <3>1, <3>2, <3>3
  <2>4. \A c \in Bases : Settled(c)' => Settled(c)
    BY <1>1, <1>3, SettledSame
  <2>5. (Stores /\ Shape)'
    BY <2>3, <2>4, <1>1, <1>2, <1>3, FlagStep
  <2>6. Places'
    <3>1. Old'.flags = Old.flags \cup {"PROCESSED"} /\ mem' = mem /\ job' = job
      BY <2>1, <1>1 DEF Old
    <3>2. /\ Old'.flags \cap {"OUTGOING", "INTRANSIT"} # {} /\ "DELETED" \notin Old'.flags
          /\ "PROCESSED" \in Old'.flags
      BY <3>1, <1>2
    <3>3. pc' \in MailPcs /\ pc' = "del"
      BY <1>3 DEF MailPcs
    <3> QED
      BY <3>1, <3>2, <3>3, <1>1, <1>2 DEF Places
  <2> QED
    BY <2>5, <2>6 DEF NetInv, Shape
<1>4. CASE pc' = "free" /\ UNCHANGED disk
  <2>1. Places'
    BY <1>1, <1>2, <1>4, MailEnds DEF MailPcs, AtOld
  <2> QED
    BY <2>1, <1>1, <1>4, MailAlone
<1> QED
  BY <1>3, <1>4 DEF MailSetproc

LEMMA DeleteFreeKeeps ==
  ASSUME NetInv, Goes, Rest', DeleteFree
  PROVE  NetInv'
<1>1. /\ Stores /\ Rest /\ Shape /\ Places /\ pc = "del" /\ job' = job
  BY InvParts DEF DeleteFree
<1>2. /\ job \in ScanJobs /\ job.prog = "mailass" /\ "loc" \in Bases /\ mem.top["loc"] \in Nat
      /\ pc \in AtOld
  BY <1>1, MailPlace, HasFacts DEF Bases, Shape, AtOld
<1>3. (Stores /\ Shape)'
  BY <1>1, DeleteStep
<1>4. mem'.top["loc"] = mem.top["loc"] /\ disk'["loc"].hdr = disk["loc"].hdr
  <2> DEFINE kept == mem.used["loc"] \ Chain("loc", Old.first)
  <2>1. /\ mem' = [mem EXCEPT !.used["loc"] = kept]
        /\ disk' = [disk EXCEPT !["loc"].used = kept] \/ disk' = disk
    BY DEF DeleteFree
  <2> HIDE DEF kept
  <2> QED
    BY <2>1, <1>1, <1>2 DEF Stores, BaseSet
<1>5. Old' = Old
  BY <1>1, <1>4 DEF Old
<1>6. CASE pc' = "mark"
  <2>1. Places'
    BY <1>1, <1>2, <1>4, <1>5, <1>6, MailStays DEF MailPcs, AtOld
  <2> QED
    BY <2>1, <1>3 DEF NetInv, Shape
<1>7. CASE pc' = "free"
  <2>1. Places'
    BY <1>1, <1>2, <1>7, MailEnds DEF MailPcs, AtOld
  <2> QED
    BY <2>1, <1>3 DEF NetInv, Shape
<1> QED
  BY <1>6, <1>7 DEF DeleteFree

LEMMA DeleteMarkKeeps ==
  ASSUME NetInv, Goes, Rest', DeleteMark
  PROVE  NetInv'
<1>1. /\ Stores /\ Rest /\ Shape /\ Places /\ pc = "mark" /\ UNCHANGED <<mem, w>>
  BY InvParts DEF DeleteMark
<1>2. /\ job \in ScanJobs /\ job.prog = "mailass" /\ "loc" \in Bases /\ pc \in AtOld
      /\ job.this \in 1 .. mem.top["loc"] /\ "PROCESSED" \in Old.flags
      /\ Old.flags \cap {"OUTGOING", "INTRANSIT"} # {} /\ "DELETED" \notin Old.flags
  BY <1>1, MailPlace DEF Bases, AtOld
<1>3. /\ mem.top["loc"] \in Nat /\ Count("loc") = mem.top["loc"] /\ job.this \in DOMAIN disk["loc"].hdr
      /\ "INCOMING" \notin Old.flags
  <2>1. Count("loc") = mem.top["loc"] /\ mem.top["loc"] \in Nat /\ disk["loc"].hdr \in Seq(Headers)
        /\ Count("loc") <= Len(disk["loc"].hdr)
    BY <1>2, <1>1, HasFacts DEF Count, Shape, Headed
  <2>2. job.this \in DOMAIN disk["loc"].hdr
    BY <2>1, <1>2
  <2>3. "INCOMING" \notin Old.flags
    BY <2>2, <1>1, <1>2 DEF Shape, Headed, Old
  <2> QED
    BY <2>1, <2>2, <2>3
<1>4. CASE /\ SetFlag("loc", job.this, "DELETED") /\ pc' = "scan"
           /\ job' = [job EXCEPT !.this = @ + 1]
  <2>1. /\ \A c \in Bases : c # "loc" => disk'[c].hdr = disk[c].hdr
        /\ \A j \in DOMAIN disk["loc"].hdr : j # job.this => disk'["loc"].hdr[j] = disk["loc"].hdr[j]
        /\ disk'["loc"].hdr[job.this].flags = Old.flags \cup {"DELETED"}
    BY <1>1, <1>2, <1>3, <1>4, FlagSet DEF Old
  <2>2. Quiet' => Quiet
    BY <1>1, GoesFacts DEF Shape
  <2>3. \A c \in Bases : \A j \in 1 .. Count(c) : /\ Kept(c, j)' => Kept(c, j)
                                                  /\ Quiet' /\ Kept(c, j) => Kept(c, j)'
    <3> SUFFICES ASSUME NEW c \in Bases, NEW j \in 1 .. Count(c)
                 PROVE  /\ Kept(c, j)' => Kept(c, j)
                        /\ Quiet' /\ Kept(c, j) => Kept(c, j)'
      OBVIOUS
    <3>1. CASE c = "loc" /\ j = job.this
      <4>1. disk'[c].hdr[j].flags = disk[c].hdr[j].flags \cup {"DELETED"}
        BY <2>1, <3>1 DEF Old
      <4>2. ~Kept(c, j)'
        BY <4>1 DEF Kept
      <4>3. ~Kept(c, j)
        BY <3>1, <1>1, <1>2, <1>3 DEF Kept, Old
      <4> QED
        BY <4>2, <4>3
    <3>2. CASE c = "loc" /\ j # job.this
      <4>1. disk'[c].hdr[j] = disk[c].hdr[j]
        <5>1. j \in DOMAIN disk["loc"].hdr
          BY <3>2, <1>1, <1>2, HasFacts DEF Shape, Headed
        <5> QED
          BY <5>1, <3>2, <2>1
      <4> QED
        BY <4>1, <3>2, <2>2, <1>1, <1>4 DEF Kept
    <3>3. CASE c # "loc"
      <4>1. disk'[c].hdr[j] = disk[c].hdr[j] /\ c = "msg"
        BY <3>3, <2>1 DEF Bases
      <4> QED
        BY <4>1 DEF Kept
    <3> QED
      BY <3>1, <3>2, <3>3
  <2>4. job' \in ScanJobs /\ job'.prog = "mailass" /\ job'.this # 0
    BY <1>2, <1>4 DEF ScanJobs
  <2>5. \A c \in Bases : Settled(c)' => Settled(c)
    BY <2>4, <1>1, <1>2, <1>4, SettledSame
  <2>6. (Stores /\ Shape)'
    BY <2>3, <2>5, <1>1, <1>2, <1>3, <1>4, FlagStep
  <2>7. Places'
    BY <2>4, <1>4, MailEnds DEF MailPcs, AtOld
  <2> QED
    BY <2>6, <2>7 DEF NetInv, Shape
<1>5. CASE WriteFault /\ pc' = "free" /\ UNCHANGED <<disk, job>>
  <2>1. Places'
    BY <1>1, <1>2, <1>5, MailEnds DEF MailPcs, AtOld
  <2>2. ~Quiet'
    BY <1>1, <1>5, GoesFacts DEF WriteFault, Shape
  <2> QED
    BY <2>1, <2>2, <1>1, <1>2, <1>5, MailAlone
<1> QED
  BY <1>4, <1>5 DEF DeleteMark

\* writefree and write_top of loctxt at the end of mailass and bbass.
LEMMA CloseWritten ==
  ASSUME Stores, Rest, Shape, Goes, UNCHANGED <<mem, w>>, job.prog # "packdis", job' = job,
         \/ pc = "free" /\ WriteFree("loc") /\ pc' = "top"
         \/ pc = "top" /\ WriteTop("loc") /\ pc' \in {"exit", "free2"}
  PROVE  (Stores /\ Shape)' /\ MapStep("loc")
<1>1. ~Working /\ ~Working' /\ "loc" \in Bases
  BY DEF Working, Bases
<1>2. CASE pc = "free"
  <2>1. Stores' /\ MapStep("loc")
    BY <1>1, <1>2, FreeWritten
  <2>2. \A c \in Bases : (BitmapFirst(c)' <=> c = "loc") /\ (Settled(c)' => Settled(c) /\ c # "loc")
    BY <1>2 DEF BitmapFirst, Settled
  <2>3. Shape'
    BY <2>1, <2>2, <1>1, <1>2, MapWritten
  <2> QED
    BY <2>1, <2>3
<1>3. CASE pc = "top"
  <2>1. ~unmapped => disk["loc"].used = mem.used["loc"]
    BY <1>1, <1>3 DEF Shape, Bitmaps, BitmapFirst
  <2>2. Stores' /\ MapStep("loc") /\ disk'["loc"].top = mem.top["loc"]
    BY <2>1, <1>1, <1>3, TopWritten
  <2>3. \A c \in Bases : ~BitmapFirst(c)' /\ (c # "loc" => Settled(c))
    BY <1>3 DEF BitmapFirst, Settled, Bases
  <2>4. Shape'
    BY <2>2, <2>3, <1>1, <1>3, MapWritten
  <2> QED
    BY <2>2, <2>4
<1> QED
  BY <1>2, <1>3

LEMMA MailCloseKeeps ==
  ASSUME NetInv, Goes, Rest', MailClose
  PROVE  NetInv'
<1>1. /\ Stores /\ Rest /\ Shape /\ Places /\ pc \in {"free", "top"} /\ job.prog = "mailass" /\ job' = job
      /\ UNCHANGED <<mem, w>>
  BY InvParts DEF MailClose
<1>2. /\ pc = "free" => pc' = "top"
      /\ pc = "top" => pc' = "exit"
  BY DEF MailClose
<1>3. job \in ScanJobs
  BY <1>1, MailPlace
<1>4. Places'
  BY <1>1, <1>2, <1>3, MailEnds DEF MailPcs, AtOld
<1>5. CASE IF pc = "free" THEN WriteFree("loc") ELSE WriteTop("loc")
  <2>1. (Stores /\ Shape)'
    BY <1>1, <1>2, <1>5, CloseWritten
  <2> QED
    BY <2>1, <1>4 DEF NetInv, Shape
<1>6. CASE WriteFault /\ MapLost /\ UNCHANGED disk
  <2>1. ~Quiet'
    BY <1>1, <1>6, GoesFacts DEF WriteFault, Shape
  <2>2. pc' = "top" => unmapped'
    <3>1. pc' = "top" => pc = "free"
      BY <1>1, <1>2
    <3> QED
      BY <3>1, <1>6, Zenon DEF MapLost
  <2>3. (Stores /\ Shape)'
    <3>1. pc # "idle" /\ pc' \notin {"idle", "put", "hdr", "del", "mark"} /\ pc # "mark"
      BY <1>1, <1>2
    <3> QED
      BY <3>1, <2>1, <2>2, <1>1, <1>6, BasesAlone
  <2> QED
    BY <2>3, <1>4 DEF NetInv, Shape
<1> QED
  BY <1>5, <1>6 DEF MailClose

LEMMA MailassKeeps ==
  ASSUME NetInv, MailassStep, UNCHANGED <<packFiles, envVars>>
  PROVE  NetInv'
<1>1. Goes /\ Rest'
  BY ScanGoes
<1> QED
  BY <1>1, ScanKeeps, MailClaimKeeps, MailPutKeeps, MailFailsKeeps, MailHeaderKeeps, MailSendKeeps,
     MailSetprocKeeps, DeleteFreeKeeps, DeleteMarkKeeps, MailCloseKeeps DEF MailassStep

-----------------------------------------------------------------------------
(* Bbass.                                                                  *)

\* What it never changes of msgtxt, where it sets flags only.
MsgSame ==
  /\ mem'.top["msg"] = mem.top["msg"] /\ mem'.used["msg"] = mem.used["msg"]
  /\ disk'["msg"].top = disk["msg"].top /\ disk'["msg"].used = disk["msg"].used

LEMMA BbPlace ==
  ASSUME Places, job.prog = "bbass"
  PROVE  /\ pc \in BbPcs /\ job \in ScanJobs /\ job.this \in Nat
         /\ pc = "scan" => job.this # 0
         /\ pc \in {"put", "hdr"} => w.base = "loc"
         /\ pc \in AtOld => job.this \in 1 .. mem.top["msg"] /\ job.text \in Texts
         /\ mem.top["msg"] = disk["msg"].top /\ mem.used["msg"] = disk["msg"].used
<1>1. /\ pc \in BbPcs /\ job \in ScanJobs
      /\ pc = "scan" => job.this # 0
      /\ pc \in {"put", "hdr"} => w.base = "loc"
      /\ pc \in AtOld => job.this \in 1 .. mem.top["msg"] /\ job.text \in Texts
      /\ mem.top["msg"] = disk["msg"].top /\ mem.used["msg"] = disk["msg"].used
  BY DEF Places, IsPackJob, NoJob
<1>2. job.this \in Nat
  BY <1>1 DEF ScanJobs
<1> QED
  BY <1>1, <1>2

LEMMA BbStays ==
  ASSUME Places, job.prog = "bbass", MsgSame, job' \in ScanJobs, job'.prog = "bbass", pc' \in BbPcs,
         pc' = "scan" => job'.this # 0,
         pc' \in {"put", "hdr"} => w'.base = "loc",
         pc' \in AtOld => job'.this \in 1 .. mem.top["msg"] /\ job'.text \in Texts
  PROVE  Places'
<1>1. mem.top["msg"] = disk["msg"].top /\ mem.used["msg"] = disk["msg"].used
  BY BbPlace
<1>2. /\ mem'.top["msg"] = disk'["msg"].top /\ mem'.used["msg"] = disk'["msg"].used
      /\ mem'.top["msg"] = mem.top["msg"]
  BY <1>1 DEF MsgSame
<1> QED
  BY <1>2 DEF Places

\* With the job as it was.
LEMMA BbSameJob ==
  ASSUME Places, job.prog = "bbass", MsgSame, job' = job, pc' \in BbPcs, pc' # "scan",
         pc' \in {"put", "hdr"} => w'.base = "loc", pc' \in AtOld => pc \in AtOld
  PROVE  Places'
BY BbPlace, BbStays

\* On to the next message.
LEMMA BbNextJob ==
  ASSUME Places, job.prog = "bbass", MsgSame, job' = [job EXCEPT !.this = @ + 1], pc' = "scan"
  PROVE  Places'
<1>1. job \in ScanJobs /\ job.this \in Nat
  BY BbPlace
<1>2. job' \in ScanJobs /\ job'.prog = "bbass" /\ job'.this # 0
  BY <1>1 DEF ScanJobs
<1> QED
  BY <1>2, BbStays DEF BbPcs, AtOld

LEMMA BbAlone ==
  ASSUME NetInv, Goes, Rest', UNCHANGED <<disk, mem, w>>, job.prog = "bbass", Places',
         job'.prog = "bbass", pc \notin {"idle", "exit", "mark", "free2", "top2"},
         pc' \notin {"idle", "put", "hdr", "del", "mark", "exit", "free2", "top2"},
         pc' = "top" => unmapped', pc \in {"put", "hdr"} => leaked' = TRUE
  PROVE  NetInv'
<1>1. Stores /\ Rest /\ Shape /\ Places
  BY InvParts
<1>2. \A b \in Bases : Settled(b)' => Settled(b)
  BY SettledSame
<1>3. ~leaked' => pc \notin {"put", "hdr"}
  BY Zenon
<1>4. (Stores /\ Shape)'
  BY <1>1, <1>2, <1>3, BasesAlone
<1> QED
  BY <1>4 DEF NetInv, Shape

LEMMA BbScanKeeps ==
  ASSUME NetInv, Goes, Rest', BbScan
  PROVE  NetInv'
<1>1. /\ Stores /\ Rest /\ Shape /\ Places
      /\ pc = "scan" /\ job.prog = "bbass" /\ UNCHANGED <<disk, mem, w>>
  BY InvParts DEF BbScan, baseVars
<1>2. job \in ScanJobs /\ job.this \in Nat \ {0} /\ MsgSame
  BY <1>1, BbPlace DEF MsgSame
<1> DEFINE todo == {i \in job.this .. mem.top["msg"] : ~Ignorem(disk["msg"].hdr[i])}
<1>3. CASE todo = {}
  <2>1. pc' = "free" /\ job' = [job EXCEPT !.this = 0]
    BY <1>3 DEF BbScan
  <2>2. job' \in ScanJobs /\ job'.prog = "bbass"
    BY <2>1, <1>1, <1>2 DEF ScanJobs
  <2>3. Places'
    BY <2>1, <2>2, <1>1, <1>2, BbStays DEF BbPcs, AtOld
  <2> QED
    BY <2>1, <2>2, <2>3, <1>1, BbAlone
<1>4. CASE todo # {}
  <2>1. PICK m : m = Min(todo)
    OBVIOUS
  <2>2. /\ pc' = "act"
        /\ job' = [job EXCEPT !.this = m, !.text = disk["msg"].txt[disk["msg"].hdr[m].first].text]
    BY <1>4, <2>1 DEF BbScan
  <2>3. mem.top["msg"] \in Nat /\ Count("msg") = mem.top["msg"] /\ DOMAIN disk["msg"].hdr = 1 .. Len(disk["msg"].hdr)
        /\ Count("msg") <= Len(disk["msg"].hdr) /\ Len(disk["msg"].hdr) \in Nat
    <3>1. "msg" \in Bases
      BY DEF Bases
    <3>2. mem.top["msg"] \in Nat /\ disk["msg"].hdr \in Seq(Headers)
      BY <1>1, <3>1, HasFacts DEF Shape
    <3>3. Count("msg") <= Len(disk["msg"].hdr)
      BY <1>1, <3>1 DEF Shape, Headed
    <3> QED
      BY <3>2, <3>3, <1>1 DEF Count
  <2>4. m \in todo
    <3>1. todo \subseteq Nat
      BY <1>2, <2>3
    <3> QED
      BY <1>4, <2>1, <3>1, MinFacts
  <2>5. m \in 1 .. mem.top["msg"] /\ m \in DOMAIN disk["msg"].hdr /\ m \in Nat /\ m # 0
    BY <1>2, <2>3, <2>4
  <2>6. disk["msg"].txt[disk["msg"].hdr[m].first].text \in Texts
    BY <1>1, <2>5 DEF Shape, Headed, Bases
  <2>7. job' \in ScanJobs /\ job'.prog = "bbass" /\ job'.this = m /\ job'.text \in Texts
    BY <1>1, <1>2, <2>2, <2>5, <2>6 DEF ScanJobs
  <2>8. Places'
    BY <2>2, <2>5, <2>7, <1>1, <1>2, BbStays DEF BbPcs
  <2> QED
    BY <2>2, <2>7, <2>8, <1>1, BbAlone
<1> QED
  BY <1>3, <1>4

LEMMA BbSendKeeps ==
  ASSUME NetInv, Goes, Rest', BbAppend \/ BbBody
  PROVE  NetInv'
<1>1. /\ Stores /\ Rest /\ Shape /\ Places /\ pc \in {"act", "body"} /\ job.prog = "bbass" /\ job' = job
      /\ pc' \in {"body", "proc", "free"} /\ UNCHANGED <<disk, mem, w>>
  BY InvParts DEF BbAppend, BbBody
<1>2. Places'
  BY <1>1, BbSameJob DEF MsgSame, BbPcs, AtOld
<1> QED
  BY <1>1, <1>2, BbAlone

LEMMA BbSetprocKeeps ==
  ASSUME NetInv, Goes, Rest', BbSetproc
  PROVE  NetInv'
<1>1. /\ Stores /\ Rest /\ Shape /\ Places /\ pc = "proc" /\ job.prog = "bbass" /\ UNCHANGED <<mem, w>>
  BY InvParts DEF BbSetproc
<1>2. /\ job \in ScanJobs /\ "msg" \in Bases /\ job.this \in 1 .. mem.top["msg"] /\ job.text \in Texts
  BY <1>1, BbPlace DEF Bases, AtOld
<1>3. Count("msg") = mem.top["msg"] /\ job.this \in DOMAIN disk["msg"].hdr
  <2>1. Count("msg") = mem.top["msg"] /\ mem.top["msg"] \in Nat /\ disk["msg"].hdr \in Seq(Headers)
        /\ Count("msg") <= Len(disk["msg"].hdr)
    BY <1>2, <1>1, HasFacts DEF Count, Shape, Headed
  <2> QED
    BY <2>1, <1>2
<1>4. CASE /\ SetFlag("msg", job.this, "PROCESSED")
           /\ \/ pc' = "local" /\ job' = job
              \/ pc' = "scan" /\ job' = [job EXCEPT !.this = @ + 1]
  <2>1. /\ disk'["loc"].hdr = disk["loc"].hdr
        /\ \A j \in DOMAIN disk["msg"].hdr : j # job.this => disk'["msg"].hdr[j] = disk["msg"].hdr[j]
        /\ disk'["msg"].hdr[job.this].flags = disk["msg"].hdr[job.this].flags \cup {"PROCESSED"}
        /\ disk'["msg"].used = disk["msg"].used /\ disk'["msg"].top = disk["msg"].top
    BY <1>1, <1>2, <1>3, <1>4, FlagSet DEF Bases
  <2>2. Quiet' => Quiet
    BY <1>1, GoesFacts DEF Shape
  <2>3. MsgSame
    BY <2>1, <1>1 DEF MsgSame
  <2>4. Places'
    BY <2>3, <1>1, <1>4, BbSameJob, BbNextJob DEF BbPcs, AtOld
  <2>5. job'.prog = "bbass"
    BY <1>1, <1>2, <1>4 DEF ScanJobs
  <2>6. \A c \in Bases : Settled(c)' => Settled(c)
    BY <2>5, <1>1, <1>4, SettledSame
  <2>7. \A c \in Bases : \A j \in 1 .. Count(c) : /\ Kept(c, j)' => Kept(c, j)
                                                  /\ Quiet' /\ Kept(c, j) => Kept(c, j)'
    <3> SUFFICES ASSUME NEW c \in Bases, NEW j \in 1 .. Count(c)
                 PROVE  /\ Kept(c, j)' => Kept(c, j)
                        /\ Quiet' /\ Kept(c, j) => Kept(c, j)'
      OBVIOUS
    <3>1. CASE c = "msg"
      <4>1. "DELETED" \in disk'[c].hdr[j].flags <=> "DELETED" \in disk[c].hdr[j].flags
        <5>1. j \in DOMAIN disk["msg"].hdr
          BY <3>1, <1>1, HasFacts DEF Shape, Headed
        <5> QED
          BY <5>1, <3>1, <2>1
      <4> QED
        BY <4>1, <3>1 DEF Kept
    <3>2. CASE c = "loc"
      <4>1. disk'[c].hdr[j] = disk[c].hdr[j]
        BY <3>2, <2>1
      <4> QED
        BY <4>1, <3>2, <2>2, <1>1, <1>4 DEF Kept
    <3> QED
      BY <3>1, <3>2 DEF Bases
  <2>8. (Stores /\ Shape)'
    BY <2>6, <2>7, <1>1, <1>2, <1>3, <1>4, FlagStep
  <2> QED
    BY <2>4, <2>8 DEF NetInv, Shape
<1>5. CASE pc' = "free" /\ UNCHANGED <<disk, job>>
  <2>1. Places'
    BY <1>1, <1>5, BbSameJob DEF MsgSame, BbPcs, AtOld
  <2> QED
    BY <2>1, <1>1, <1>5, BbAlone
<1> QED
  BY <1>4, <1>5 DEF BbSetproc

LEMMA BbLocalKeeps ==
  ASSUME NetInv, Goes, Rest', BbLocal
  PROVE  NetInv'
<1>1. /\ Stores /\ Rest /\ Shape /\ Places /\ pc = "local" /\ job.prog = "bbass" /\ UNCHANGED <<disk, job>>
  BY InvParts DEF BbLocal
<1>2. job.text \in Texts /\ "loc" \in Bases
  BY <1>1, BbPlace DEF AtOld, Bases
<1>3. CASE pc' = "free" /\ UNCHANGED <<mem, w>>
  <2>1. Places'
    BY <1>1, <1>3, BbSameJob DEF MsgSame, BbPcs, AtOld
  <2> QED
    BY <2>1, <1>1, <1>3, BbAlone
<1>4. CASE Claim("loc", job.text) /\ pc' = "put"
  <2>1. w'.base = "loc" /\ mem'.top = mem.top /\ mem'.used["msg"] = mem.used["msg"]
    BY <1>4, <1>1 DEF Claim, Stores, Bases
  <2>2. MsgSame
    BY <2>1, <1>1 DEF MsgSame
  <2>3. Places'
    BY <2>1, <2>2, <1>1, <1>4, BbSameJob DEF BbPcs, AtOld
  <2>4. \A b \in Bases : Settled(b)' => Settled(b)
    BY <1>1, <1>4, SettledSame
  <2>5. (Stores /\ Shape)'
    <3>1. PICK t \in Texts : t = job.text
      BY <1>2
    <3>2. Claim("loc", t)
      BY <3>1, <1>4
    <3> QED
      BY <3>2, <2>4, <1>1, <1>2, <1>4, ClaimStep
  <2> QED
    BY <2>3, <2>5 DEF NetInv, Shape
<1> QED
  BY <1>3, <1>4 DEF BbLocal

LEMMA BbPutKeeps ==
  ASSUME NetInv, Goes, Rest', BbPut
  PROVE  NetInv'
<1>1. /\ Stores /\ Rest /\ Shape /\ Places /\ pc = "put" /\ job.prog = "bbass" /\ job' = job
  BY InvParts DEF BbPut
<1>2. w.base = "loc" /\ pc \in AtOld
  BY <1>1, BbPlace DEF AtOld
<1>3. CASE \/ PutLink /\ pc' = "put"
           \/ Flush /\ pc' = "hdr" /\ UNCHANGED <<mem, w>>
  <2>1. MsgSame /\ w'.base = "loc"
    BY <1>1, <1>2, <1>3, TextPlace DEF MsgSame, Bases
  <2>2. Places'
    BY <2>1, <1>1, <1>2, <1>3, BbSameJob DEF BbPcs
  <2>3. (Stores /\ Shape)'
    BY <1>1, <1>3, LinkStep, FlushStep
  <2> QED
    BY <2>2, <2>3 DEF NetInv, Shape
<1>4. CASE Recover1 /\ pc' = "free" /\ w' = w
  <2>1. (Stores /\ Shape)'
    BY <1>1, <1>2, <1>4, UndoneStep
  <2>2. MsgSame
    <3>1. PICK kept : /\ mem' = [mem EXCEPT !.used["loc"] = kept]
                      /\ disk' = [disk EXCEPT !["loc"].used = kept]
      BY <1>2, <1>4, Zenon DEF Recover1
    <3> QED
      BY <3>1, <1>1 DEF MsgSame, Stores, Bases, BaseSet
  <2>3. Places'
    BY <2>2, <1>1, <1>4, BbSameJob DEF BbPcs, AtOld
  <2> QED
    BY <2>1, <2>3 DEF NetInv, Shape
<1> QED
  BY <1>3, <1>4 DEF BbPut

LEMMA BbHeaderKeeps ==
  ASSUME NetInv, Goes, Rest', BbHeader
  PROVE  NetInv'
<1>1. /\ Stores /\ Rest /\ Shape /\ Places /\ pc = "hdr" /\ job.prog = "bbass" /\ w' = w
  BY InvParts DEF BbHeader
<1>2. w.base = "loc" /\ job \in ScanJobs /\ "loc" \in Bases /\ "msg" \in Bases
  BY <1>1, BbPlace DEF Bases
<1> DEFINE h == [flags |-> {"INCOMING", "NEW"}, first |-> w.first, text |-> w.text]
<1>3. CASE PutHeader("loc", h) /\ pc' = "scan" /\ job' = [job EXCEPT !.this = @ + 1]
  <2>1. h.flags = {"INCOMING", "NEW"} /\ h.first = w.first /\ h.text = w.text
    OBVIOUS
  <2>2. h \in Headers
    <3>1. w.first \in Sectors /\ w.text \in Texts
      BY <1>1, WritingFacts DEF Shape, Working
    <3> QED
      BY <3>1 DEF Headers, Flags
  <2> HIDE DEF h
  <2>3. h.flags \cap {"PROCESSED", "DELETED"} = {}
        /\ ("INCOMING" \in h.flags => h.flags \cap {"OUTGOING", "INTRANSIT"} = {})
    BY <2>1
  <2>4. MsgSame
    <3>1. PICK g : disk' = [disk EXCEPT !["loc"].hdr = g]
      BY <1>3, Zenon DEF PutHeader
    <3>2. PICK n : mem' = [mem EXCEPT !.top["loc"] = n]
      BY <1>3, Zenon DEF PutHeader
    <3> QED
      BY <3>1, <3>2, <1>1 DEF MsgSame, Stores, Bases, BaseSet
  <2>5. Places'
    BY <2>4, <1>1, <1>3, BbNextJob
  <2>6. job'.prog = "bbass"
    BY <1>1, <1>2, <1>3 DEF ScanJobs
  <2>7. \A b \in Bases : Settled(b)' => Settled(b)
    BY <2>6, <1>1, <1>3, SettledSame
  <2>8. (Stores /\ Shape)'
    BY <2>1, <2>2, <2>3, <2>7, <1>1, <1>2, <1>3, HeaderStep
  <2> QED
    BY <2>5, <2>8 DEF NetInv, Shape
<1>4. CASE pc' = "free" /\ leaked' = TRUE /\ UNCHANGED <<disk, mem, job>>
  <2>1. Places'
    BY <1>1, <1>4, BbSameJob DEF MsgSame, BbPcs, AtOld
  <2> QED
    BY <2>1, <1>1, <1>4, BbAlone
<1> QED
  BY <1>3, <1>4 DEF BbHeader

\* The bitmap and the top of msgtxt are written back as they were read.
LEMMA MsgWritten ==
  ASSUME Stores, Rest, Shape, Goes, Places, UNCHANGED <<mem, w>>, job.prog = "bbass", job' = job,
         \/ pc = "free2" /\ WriteFree("msg") /\ pc' = "top2"
         \/ pc = "top2" /\ WriteTop("msg") /\ pc' = "exit"
  PROVE  (Stores /\ Shape)' /\ MapStep("msg")
<1>1. ~Working /\ ~Working' /\ "msg" \in Bases /\ mem.top["msg"] = disk["msg"].top
      /\ mem.used["msg"] = disk["msg"].used
  BY BbPlace DEF Working, Bases
<1>2. Stores' /\ MapStep("msg") /\ disk'["msg"].top = mem.top["msg"]
  <2>1. CASE pc = "free2"
    <3>1. Stores' /\ MapStep("msg")
      BY <1>1, <2>1, FreeWritten
    <3>2. disk'["msg"].top \in {disk["msg"].top, mem.top["msg"]}
      BY <3>1 DEF MapStep
    <3> QED
      BY <3>1, <3>2, <1>1
  <2>2. CASE pc = "top2"
    BY <1>1, <2>2, TopWritten
  <2> QED
    BY <2>1, <2>2
<1>3. \A c \in Bases : ~BitmapFirst(c)' /\ Settled(c)
  BY DEF BitmapFirst, Settled
<1>4. Shape'
  BY <1>1, <1>2, <1>3, MapWritten
<1> QED
  BY <1>2, <1>4

LEMMA BbCloseKeeps ==
  ASSUME NetInv, Goes, Rest', BbClose
  PROVE  NetInv'
<1>1. /\ Stores /\ Rest /\ Shape /\ Places /\ pc \in {"free", "top", "free2", "top2"}
      /\ job.prog = "bbass" /\ job' = job /\ UNCHANGED <<mem, w>>
  BY InvParts DEF BbClose
<1>2. /\ pc = "free" => pc' = "top"
      /\ pc = "top" => pc' = "free2"
      /\ pc = "free2" => pc' = "top2"
      /\ pc = "top2" => pc' = "exit"
  BY <1>1 DEF BbClose
<1>3. mem.top["msg"] = disk["msg"].top /\ mem.used["msg"] = disk["msg"].used
  BY <1>1, BbPlace
<1>4. ASSUME MsgSame PROVE Places'
  BY <1>1, <1>2, <1>4, BbSameJob DEF BbPcs, AtOld
<1>5. CASE \/ pc = "free" /\ WriteFree("loc")
           \/ pc = "top" /\ WriteTop("loc")
  <2>1. (Stores /\ Shape)' /\ MapStep("loc")
    BY <1>1, <1>2, <1>5, CloseWritten
  <2>2. MsgSame
    BY <2>1, <1>1 DEF MapStep, MsgSame, Bases
  <2> QED
    BY <2>1, <2>2, <1>4 DEF NetInv, Shape
<1>6. CASE \/ pc = "free2" /\ WriteFree("msg")
           \/ pc = "top2" /\ WriteTop("msg")
  <2>1. (Stores /\ Shape)' /\ MapStep("msg")
    BY <1>1, <1>2, <1>6, MsgWritten
  <2>2. MsgSame
    <3>1. disk'["msg"].top = disk["msg"].top
      BY <2>1, <1>3 DEF MapStep
    <3>2. disk'["msg"].used = disk["msg"].used
      BY <1>6, <1>1, <1>3 DEF WriteFree, WriteTop, Stores, BaseSet, Bases
    <3> QED
      BY <3>1, <3>2, <1>1 DEF MsgSame
  <2> QED
    BY <2>1, <2>2, <1>4 DEF NetInv, Shape
<1>7. CASE WriteFault /\ MapLost /\ UNCHANGED disk
  <2>1. ~Quiet'
    BY <1>1, <1>7, GoesFacts DEF WriteFault, Shape
  <2>2. pc' = "top" => unmapped'
    <3>1. pc' = "top" => pc = "free"
      BY <1>1, <1>2
    <3> QED
      BY <3>1, <1>7, Zenon DEF MapLost
  <2>3. (Stores /\ Shape)'
    <3>1. pc # "idle" /\ pc' \notin {"idle", "put", "hdr", "del", "mark"} /\ pc # "mark"
      BY <1>1, <1>2
    <3> QED
      BY <3>1, <2>1, <2>2, <1>1, <1>7, BasesAlone
  <2>4. MsgSame
    BY <1>1, <1>7 DEF MsgSame
  <2> QED
    BY <2>3, <2>4, <1>4 DEF NetInv, Shape
<1> QED
  BY <1>1, <1>5, <1>6, <1>7 DEF BbClose

LEMMA BbassKeeps ==
  ASSUME NetInv, BbassStep, UNCHANGED <<packFiles, envVars>>
  PROVE  NetInv'
<1>1. Goes /\ Rest'
  BY ScanGoes
<1> QED
  BY <1>1, BbScanKeeps, BbSendKeeps, BbSetprocKeeps, BbLocalKeeps, BbPutKeeps, BbHeaderKeeps,
     BbCloseKeeps DEF BbassStep

-----------------------------------------------------------------------------
(* The system.                                                             *)

LEMMA StartKeeps ==
  ASSUME NetInv, Start
  PROVE  NetInv'
<1>1. Stores /\ Rest /\ Places /\ Shape
  BY InvParts
<1>2. /\ pc = "idle" /\ ReadInfo /\ UNCHANGED <<disk, w, faults, histVars, lines, toEnter, crashes>>
      /\ pc' \in {"line", "scan"}
  BY DEF Start, StartPackdis, StartMailass, StartBbass, packFiles, envVars
<1>3. Goes
  BY <1>1, <1>2, Zenon DEF Goes, Rest, histVars
<1>4. Rest'
  BY <1>1, <1>2, <1>3, RestSame DEF Shape
<1>5. (Stores /\ Shape)'
  <2>1. \A b \in Bases : Settled(b)
    BY <1>2 DEF Settled
  <2> QED
    BY <2>1, <1>1, <1>2, <1>3, BasesRead
<1>6. Places'
  <2>1. ASSUME NEW r \in BOOLEAN, StartPackdis(r) PROVE Places'
    BY <2>1 DEF StartPackdis, Places, IsPackJob, PackPcs, AtItem, Bases
  <2>2. CASE StartMailass
    <3>1. pc' = "scan" /\ job' = [prog |-> "mailass", this |-> 1, text |-> NoText]
      BY <2>2 DEF StartMailass
    <3>2. job' \in ScanJobs /\ job'.prog = "mailass" /\ job'.this # 0
      BY <3>1 DEF ScanJobs
    <3> QED
      BY <3>1, <3>2, MailEnds DEF MailPcs, AtOld
  <2>3. CASE StartBbass
    <3>1. pc' = "scan" /\ job' = [prog |-> "bbass", this |-> 1, text |-> NoText]
      BY <2>3 DEF StartBbass
    <3>2. job' \in ScanJobs /\ job'.prog = "bbass" /\ job'.this # 0
      BY <3>1 DEF ScanJobs
    <3>3. mem'.top["msg"] = disk'["msg"].top /\ mem'.used["msg"] = disk'["msg"].used
      BY <1>2 DEF ReadInfo, Bases
    <3> QED
      BY <3>1, <3>2, <3>3 DEF Places, BbPcs, AtOld
  <2> QED
    BY <2>1, <2>2, <2>3 DEF Start
<1> QED
  BY <1>4, <1>5, <1>6, InvParts DEF NetInv, Shape

LEMMA GoneKeeps ==
  ASSUME NetInv, Crash \/ (Exit /\ UNCHANGED <<packFiles, envVars>>)
  PROVE  NetInv'
<1>1. Stores /\ Rest /\ Places /\ Shape
  BY InvParts
<1>2. /\ Gone /\ UNCHANGED <<disk, faults, histVars, lines, toEnter>>
      /\ crashes' = crashes + 1 \/ (crashes' = crashes /\ pc = "exit")
  BY DEF Crash, Exit, packFiles, envVars
<1>3. Goes
  <2>1. crashes' \in {crashes, crashes + 1}
    BY <1>2
  <2> QED
    BY <2>1, <1>1, <1>2, Zenon DEF Goes, Rest, histVars
<1>4. Rest'
  BY <1>1, <1>2, <1>3, RestSame DEF Shape
<1>5. Places'
  BY <1>2 DEF Gone, Places
<1>6. (Stores /\ Shape)'
  <2>1. CASE crashes' = crashes + 1
    <3>1. ~Quiet'
      BY <2>1, <1>1, <1>3, GoesFacts DEF Shape
    <3> QED
      BY <3>1, <1>1, <1>2, <1>3, GoneStep
  <2>2. CASE pc = "exit"
    <3>1. \A b \in Bases : Settled(b)
      BY <2>2 DEF Settled
    <3> QED
      BY <3>1, <2>2, <1>1, <1>2, <1>3, GoneStep
  <2> QED
    BY <2>1, <2>2, <1>2
<1> QED
  BY <1>4, <1>5, <1>6 DEF NetInv, Shape

LEMMA EnterKeeps ==
  ASSUME NetInv, NEW e \in toEnter, Enter(e)
  PROVE  NetInv'
<1>1. Stores /\ Rest /\ Places /\ Shape
  BY InvParts
<1>2. /\ toEnter' = toEnter \ {e}
      /\ pc = "idle" /\ UNCHANGED <<mem, w, faults, histVars, pc, job, lines, crashes>>
  BY DEF Enter, packFiles
<1>3. Goes
  BY <1>1, <1>2, Zenon DEF Goes, Rest, histVars
<1>4. Rest'
  BY <1>1, <1>2, <1>3, RestSame DEF Shape
<1>5. Places'
  <2>1. job = NoJob
    BY <1>1, <1>2 DEF Places, PackPcs, MailPcs, BbPcs
  <2> QED
    BY <2>1, <1>2 DEF Places
<1>6. (Stores /\ Shape)'
  BY <1>1, EnterStep
<1> QED
  BY <1>4, <1>5, <1>6 DEF NetInv, Shape

\* The links take from the bundles only.
LEMMA StillKeeps ==
  ASSUME NetInv, UNCHANGED <<disk, mem, w, faults, histVars, pc, job, lines, toEnter, crashes>>
  PROVE  NetInv'
<1>1. Stores /\ Rest /\ Places /\ Shape
  BY InvParts
<1>2. Goes
  BY <1>1, Zenon DEF Goes, Rest, histVars
<1>3. Rest'
  BY <1>1, <1>2, RestSame DEF Shape
<1>4. Places'
  BY <1>1 DEF Places, IsPackJob, Line, Items, Item, IsLetter, Old
<1>5. Stores'
  BY <1>1 DEF Stores
<1>6. (\A b : Mine(b)' = Mine(b)) /\ Working' = Working
  BY DEF Mine, Working
<1>7. Writing' /\ Headed'
  BY <1>1, <1>6 DEF Shape, Writing, Headed, Count
<1>8. \A b, i : Kept(b, i)' = Kept(b, i)
  BY DEF Kept, Quiet
<1>9. \A b : Has(b)' = Has(b) /\ HasOnDisk(b)' = HasOnDisk(b)
  BY <1>8 DEF Has, HasOnDisk, Count
<1>10. Separate' /\ Bitmaps'
  <2>1. Separate'
    BY <1>1, <1>6, <1>9 DEF Shape, Separate, histVars
  <2>2. Bitmaps'
    BY <1>1 DEF Shape, Bitmaps, BitmapFirst, histVars
  <2> QED
    BY <2>1, <2>2
<1>11. NoneLost'
  <2>1. \A b : Settled(b)' = Settled(b)
    BY DEF Settled, BitmapFirst
  <2> QED
    BY <2>1, <1>1, <1>6, <1>9 DEF Shape, NoneLost, Quiet, histVars
<1> QED
  BY <1>3, <1>4, <1>5, <1>7, <1>10, <1>11 DEF NetInv

\* The states of the lines of PACKETS at first are among those that there are.
LEMMA Widened ==
  ASSUME NEW S, NEW T, S \subseteq T, NEW s \in Seq([st : S, name : STRING])
  PROVE  s \in Seq([st : T, name : STRING])
<1> DEFINE A == [st : S, name : STRING]
           B == [st : T, name : STRING]
<1>1. \A l \in A : l \in B
  OBVIOUS
<1> HIDE DEF A, B
<1>2. s \in Seq(A)
  BY DEF A
<1>3. \A i \in 1 .. Len(s) : s[i] \in B
  BY <1>1, <1>2
<1>4. s \in Seq(B)
  BY <1>2, <1>3
<1> QED
  BY <1>4 DEF B

LEMMA InitSound == Init => NetInv
<1> SUFFICES ASSUME Init PROVE NetInv
  OBVIOUS
<1> USE DEF Init, BaseInit
<1>1. N \in Nat
  BY SectorCount
<1>2. \A b \in Bases : disk[b] = EmptyBase
  OBVIOUS
<1>3. EmptyBase \in BaseSet /\ EmptyBase.hdr = <<>> /\ EmptyBase.top = 0 /\ EmptyBase.used = {}
  <2>1. Blank \in SectorSet
    BY <1>1 DEF Blank, SectorSet
  <2>2. [s \in Sectors |-> Blank] \in [Sectors -> SectorSet]
    BY <2>1
  <2>3. <<>> \in Seq(Headers)
    OBVIOUS
  <2> QED
    BY <2>2, <2>3 DEF EmptyBase, BaseSet
<1>4. Stores
  <2>1. disk \in [Bases -> BaseSet]
    BY <1>3
  <2>2. mem \in [used : [Bases -> SUBSET Sectors], top : [Bases -> Nat]]
    BY DEF NoMem
  <2>3. w \in [base : Bases, text : Texts \cup {NoText}, first : 0 .. N, rec : 0 .. N, part : Nat]
    BY <1>1 DEF NoWriter, Bases
  <2> QED
    BY <2>1, <2>2, <2>3 DEF Stores
<1>5. Rest
  <2>1. PICK s \in Scenes : lines = s.lines /\ toEnter = s.enter
    OBVIOUS
  <2>2. /\ s.lines \in Seq([st : {" ", "E", "A"}, name : STRING])
        /\ \A i \in DOMAIN s.lines : s.lines[i].st = "A" <=> s.lines[i].name \notin DOMAIN Content
        /\ s.enter \subseteq [base : Bases, letter : Letters]
    BY NetMailAssumption, Zenon
  <2>5. s.lines \in Seq(LineSet)
    <3> DEFINE A == {" ", "E", "A"}
               B == {" ", "-", "E", "A", "R"}
    <3>1. A \subseteq B /\ s.lines \in Seq([st : A, name : STRING])
      BY <2>2, Zenon
    <3> HIDE DEF A, B
    <3>2. s.lines \in Seq([st : B, name : STRING])
      BY <3>1, Widened
    <3> QED
      BY <3>2, Zenon DEF B, LineSet
  <2>6. \A i \in DOMAIN s.lines : Todo(s.lines[i]) => s.lines[i].name \in DOMAIN Content
    BY <2>2, Zenon DEF Todo
  <2>3. leaked \in BOOLEAN /\ unmapped \in BOOLEAN
    BY Zenon
  <2>4. faults \in Nat /\ crashes \in Nat
    OBVIOUS
  <2> QED
    BY <2>1, <2>2, <2>3, <2>4, <2>5, <2>6, Zenon DEF Rest
<1>6. Places
  BY DEF Places
<1>7. Writing /\ ~Working
  BY DEF Writing, Working
<1>8. Headed
  BY <1>2, <1>3 DEF Headed, Count
<1>9. \A b \in Bases : Has(b) = {} /\ HasOnDisk(b) = {}
  BY <1>2, <1>3 DEF Has, HasOnDisk, Count
<1>10. Separate
  BY <1>9 DEF Separate, Apart
<1>11. Bitmaps
  <2>1. ~unmapped
    BY Zenon
  <2> QED
    BY <2>1 DEF Bitmaps, BitmapFirst
<1>12. NoneLost
  BY <1>2, <1>3, <1>9 DEF NoneLost, Exactly
<1> QED
  BY <1>4, <1>5, <1>6, <1>7, <1>8, <1>10, <1>11, <1>12 DEF NetInv

LEMMA StepKeeps == NetInv /\ [Next]_vars => NetInv'
<1> SUFFICES ASSUME NetInv, [Next]_vars PROVE NetInv'
  OBVIOUS
<1>1. CASE Start
  BY <1>1, StartKeeps
<1>2. CASE Step
  BY <1>2, PackdisKeeps, MailassKeeps, BbassKeeps, GoneKeeps DEF Step
<1>3. CASE Crash
  BY <1>3, GoneKeeps
<1>4. CASE \E e \in toEnter : Enter(e)
  BY <1>4, EnterKeeps
<1>5. CASE \E x \in Links : Collect(x)
  BY <1>5, StillKeeps DEF Collect, packFiles
<1>6. CASE UNCHANGED vars
  BY <1>6, StillKeeps DEF vars, baseVars, histVars, packFiles, envVars
<1> QED
  BY <1>1, <1>2, <1>3, <1>4, <1>5, <1>6 DEF Next

\* The invariant says of every message what the property asks.
LEMMA InvSound == NetInv => BasesSound
<1> SUFFICES ASSUME NetInv PROVE BasesSound
  OBVIOUS
<1> USE DEF NetInv
<1>1. TypeOK
  <2>1. ASSUME NEW b \in Bases
        PROVE  /\ disk[b].used \subseteq Sectors /\ disk[b].top \in 0 .. Len(disk[b].hdr)
               /\ \A i \in DOMAIN disk[b].hdr :
                    LET h == disk[b].hdr[i] IN
                      h.flags \subseteq Flags /\ h.first \in Sectors /\ h.text \in Texts
               /\ mem.used[b] \subseteq Sectors /\ mem.top[b] \in Nat
    <3>1. /\ disk[b].hdr \in Seq(Headers) /\ disk[b].used \subseteq Sectors
          /\ mem.used[b] \subseteq Sectors /\ disk[b].top \in Nat /\ mem.top[b] \in Nat
          /\ Count(b) \in Nat
      BY <2>1, HasFacts
    <3>2. disk[b].top <= Len(disk[b].hdr)
      BY <2>1, <3>1 DEF Headed
    <3>3. \A i \in DOMAIN disk[b].hdr : disk[b].hdr[i] \in Headers
      BY <3>1
    <3> QED
      BY <3>1, <3>2, <3>3 DEF Headers
  <2>2. w.rec \in Sectors \cup {0}
    <3>1. w.rec \in 0 .. N /\ N \in Nat
      BY SectorCount DEF Stores
    <3> QED
      BY <3>1 DEF Sectors, N
  <2>3. \A i \in DOMAIN lines : lines[i].st \in {" ", "-", "E", "A", "R"}
    <3>1. \A i \in DOMAIN lines : lines[i] \in LineSet
      BY DEF Rest
    <3>2. \A l \in LineSet : l.st \in {" ", "-", "E", "A", "R"}
      BY Zenon DEF LineSet
    <3> QED
      BY <3>1, <3>2, Zenon
  <2> QED
    BY <2>1, <2>2, <2>3, Zenon DEF TypeOK
<1>2. ChainsKept
  <2> SUFFICES ASSUME ~unmapped, NEW b \in Bases, NEW i \in Wanted(b)
               PROVE  LET h == disk[b].hdr[i] IN
                        /\ Readable(b, h) /\ Chain(b, h.first) \subseteq disk[b].used
                        /\ \A j \in Wanted(b) \ {i} :
                             Chain(b, h.first) \cap Chain(b, disk[b].hdr[j].first) = {}
    BY DEF ChainsKept
  <2>1. Wanted(b) \subseteq HasOnDisk(b)
    BY DEF Wanted, Live, HasOnDisk, Kept
  <2>2. Apart(disk[b].txt, disk[b].hdr, HasOnDisk(b), disk[b].used)
    BY DEF Separate
  <2>3. /\ Whole(disk[b].txt, disk[b].hdr[i].first, disk[b].hdr[i].text)
        /\ ChainIn(disk[b].txt, disk[b].hdr[i].first) \subseteq disk[b].used
        /\ \A j \in Wanted(b) \ {i} :
             ChainIn(disk[b].txt, disk[b].hdr[i].first) \cap ChainIn(disk[b].txt, disk[b].hdr[j].first) = {}
    BY <2>1, <2>2 DEF Apart
  <2>4. Readable(b, disk[b].hdr[i])
    BY <2>3, ChainsAgree DEF Readable, Whole
  <2> QED
    BY <2>3, <2>4, ChainsAgree
<1>3. NoLeak
  <2> SUFFICES ASSUME Calm, ~leaked, NEW b \in Bases
               PROVE  disk[b].used = UNION {Chain(b, disk[b].hdr[i].first) : i \in Live(b)}
    BY DEF NoLeak
  <2>1. Quiet /\ ~unmapped /\ pc = "idle"
    BY DEF Calm, Quiet, Bitmaps
  <2>2. HasOnDisk(b) = Live(b)
    BY <2>1 DEF HasOnDisk, Kept, Live
  <2>3. /\ Exactly(disk[b].txt, disk[b].hdr, Live(b), disk[b].used)
        /\ Apart(disk[b].txt, disk[b].hdr, Live(b), disk[b].used)
    BY <2>1, <2>2 DEF NoneLost, Separate, Settled
  <2>4. \A i : Chain(b, disk[b].hdr[i].first) = ChainIn(disk[b].txt, disk[b].hdr[i].first)
    BY ChainsAgree
  <2> QED
    BY <2>3, <2>4 DEF Exactly, Apart
<1> QED
  BY <1>1, <1>2, <1>3 DEF BasesSound

\* The message bases are sound after whatever packdis, bbass and mailass did to them, for any
\* letters, packets and sizes of disk, and also when the programs were stopped half way or their
\* writes failed: every message that is still wanted is whole, in sectors that are marked as used
\* and that no other has, and when all went well no other sector is marked (msgfunc.c,
\* packdis1.c:196-215, mailass1.c:199-224, mailass2.c:308-346).
THEOREM BasesStaySound == Spec => []BasesSound
<1>1. Init => NetInv
  BY InitSound
<1>2. NetInv /\ [Next]_vars => NetInv'
  BY StepKeeps
<1>3. NetInv => BasesSound
  BY InvSound
<1> QED
  BY <1>1, <1>2, <1>3, PTL DEF Spec
=============================================================================
