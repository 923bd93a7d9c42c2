--------------------------- MODULE CProgramProofs ---------------------------
(***************************************************************************)
(* Proofs about ankhmail and about the files that programs in C have.       *)
(* Ankhmail, for every sequence of files that may arrive, any number of     *)
(* failures that are reported, and any number of losses of power: what      *)
(* arrived is removed only when it was filed, it is filed once, and the     *)
(* queues of news are first in, first out.  The standard files, for any     *)
(* number of slots, heap blocks and files, any strings, and any calls of    *)
(* which any may fail: streams keep apart, lines come whole, and what       *)
(* fwrite counts is there.                                                  *)
(***************************************************************************)
EXTENDS Ankhmail, DosStdio, FiniteSetTheorems, SequenceTheorems, WellFoundedInduction, TLAPS

Range_(f) == {f[i] : i \in DOMAIN f}

-----------------------------------------------------------------------------
(* Types, and where the programs are.                                      *)

Errors    == {"unarc", "fail", "quiet", "crash"}
InfStatus == {" ", ".", "-", "Q", "P", "E", "?"}
InfLines  == [st : InfStatus, kind : Kinds, name : AllNames]
PacLines  == [st : {" ", "-", "A", "R", "E"}, name : Packets \cup DOMAIN Members]
InLine    == {"arc", "list", "listed", "net", "ndiff", "gone", "news", "fnews",
              "unqueue", "enqueue"}
News      == {"news", "fnews"}
Types ==
  /\ arriving \in Seq([kind : Kinds, name : AllNames])
  /\ mode \in {"p", "d"}
  /\ inf \in Seq(InfLines) /\ packets \in Seq(PacLines)
  /\ apc \in {"idle", "line", "pac", "unlink", "mark"} \cup InLine
  /\ at \in Nat \ {0} /\ member \in Nat \ {0} /\ groupOk \in BOOLEAN
  /\ filed \in [Filable -> Nat] /\ errs \in [Errors -> Nat]

Places ==
  /\ apc \in {"idle", "line"} => at <= Len(inf) + 1
  /\ apc \in InLine => at <= Len(inf)
  /\ apc = "pac" => at <= Len(packets) + 1
  /\ apc \in {"unlink", "mark"} => at <= Len(packets)

\* The line that is at work is of the kind its step is for.
AtLine ==
  /\ apc \in {"arc", "list", "listed"} => L.kind = "arc"
  /\ apc = "net" => L.kind = "net" /\ L.name \in files
  /\ apc \in {"ndiff", "gone"} => L.kind \in {"net", "ndiff"}
  /\ apc \in {"ndiff", "gone"} /\ L.kind = "net" => filed[L.name] > 0
  /\ apc \in News => L.kind = apc
  /\ apc \in {"unqueue", "enqueue"} => L.kind \in News
  /\ apc \in InLine /\ L.kind \in News => L.st = " "
  /\ apc = "unqueue" => \E i \in DOMAIN inf : inf[i].kind = L.kind /\ inf[i].st = "Q"
  /\ apc = "arc" => member = 1
  /\ apc = "list" => member <= Len(Members[L.name]) + 1
  /\ apc \in {"unlink", "mark"} => PL.st = " "

\* Names stand for one file each, and tell archives and packets from the rest.
NamesApart ==
  /\ \A i, j \in DOMAIN inf : i # j => inf[i].name # inf[j].name
  /\ \A i, j \in DOMAIN arriving : i # j => arriving[i].name # arriving[j].name
  /\ \A i \in DOMAIN inf, j \in DOMAIN arriving : inf[i].name # arriving[j].name
  /\ \A i \in DOMAIN inf : inf[i].kind = "arc" <=> inf[i].name \in DOMAIN Members
  /\ \A i \in DOMAIN arriving :
       arriving[i].kind = "arc" <=> arriving[i].name \in DOMAIN Members
  /\ \A i \in DOMAIN inf : inf[i].kind = "net" => inf[i].name \in Filable
  /\ \A i \in DOMAIN arriving : arriving[i].kind = "net" => arriving[i].name \in Filable
  /\ \A i \in DOMAIN packets :
       packets[i].st \in {"A", "R"} <=> packets[i].name \in DOMAIN Members

-----------------------------------------------------------------------------
(* Archives and their packets.                                             *)

IsArchive(i) == packets[i].st \in {"A", "R"}
SameGroup(j, n) == \A m \in j .. n : ~IsArchive(m)

\* An archive in PACKETS is behind all its members, with no other in between.
Complete ==
  \A i \in DOMAIN packets : IsArchive(i) =>
    \A k \in DOMAIN Members[packets[i].name] :
      \E j \in 1 .. i - 1 :
        packets[j].name = Members[packets[i].name][k] /\ SameGroup(j, i - 1)

\* So are the members that are listed so far.
Listing ==
  apc = "list" => \A k \in 1 .. member - 1 :
    \E j \in DOMAIN packets :
      packets[j].name = Members[L.name][k] /\ SameGroup(j, Len(packets))

\* groupOk says that all packets of the group so far were filed.
GroupFiled ==
  /\ apc \in {"pac", "unlink", "mark"} /\ groupOk =>
       \A j \in 1 .. at - 1 : SameGroup(j, at - 1) => filed[packets[j].name] > 0
  /\ apc \in {"unlink", "mark"} => filed[PL.name] > 0
  /\ mode = "p" => \A i \in DOMAIN packets : packets[i].st # "E"

-----------------------------------------------------------------------------
(* The queues of news.                                                     *)

\* A file that waits its turn is there, and none behind it had its own, nor has
\* one before the line that is at work.
Turns ==
  /\ \A i \in DOMAIN inf : inf[i].kind = "fnews" /\ inf[i].st = " " => inf[i].name \in files
  /\ errs.unarc = 0 => \A i, j \in DOMAIN inf :
       i < j /\ inf[i].kind = inf[j].kind /\ inf[i].kind \in News /\ inf[i].st = " "
         => inf[j].st = " "
  /\ errs.unarc = 0 /\ apc \in {"line"} \cup InLine => \A i \in 1 .. at - 1 :
       i \in DOMAIN inf /\ inf[i].kind \in News => inf[i].st # " "

-----------------------------------------------------------------------------
(* Nothing is filed twice.                                                 *)

Calm == errs.crash = 0 /\ errs.unarc = 0

\* The packet p is still to come: by itself, in an archive that is to arrive, or
\* in one that is to be unpacked.
Unpacked(i) == i = at /\ apc \in {"list", "listed"}
Coming(p) ==
  \/ \E i \in DOMAIN arriving : arriving[i].name = p
  \/ \E i \in DOMAIN arriving :
       arriving[i].kind = "arc" /\ p \in Range_(Members[arriving[i].name])
  \/ \E i \in DOMAIN inf :
       /\ inf[i].kind = "arc" /\ inf[i].st = " " /\ ~Unpacked(i)
       /\ p \in Range_(Members[inf[i].name])

Once ==
  Calm =>
    /\ \A i \in DOMAIN inf : inf[i].kind = "arc" => inf[i].st \in {" ", "."}
    /\ apc = "arc" => L.st = " "
    /\ \A p \in Filable :
         /\ filed[p] <= 1
         /\ filed[p] > 0 => p \notin files
         /\ Coming(p) => filed[p] = 0 /\ p \notin files

AnkhInv ==
  /\ Types /\ Places /\ AtLine /\ NamesApart
  /\ Complete /\ Listing /\ GroupFiled /\ RemovedIsFiled /\ ArchiveHeld
  /\ Turns /\ QueueInOrder /\ Once

-----------------------------------------------------------------------------
(* Lemmas about the lines of the two files.                                *)

LEMMA RangeFacts ==
  ASSUME NEW n \in Nat
  PROVE  \A i \in 1 .. n + 1 : i = n + 1 \/ i \in 1 .. n
OBVIOUS

LEMMA BeforeFacts ==
  ASSUME NEW n \in Nat, NEW i, NEW j, i \in 1 .. n + 1, j \in 1 .. n + 1, i < j
  PROVE  i \in 1 .. n
OBVIOUS

LEMMA BehindFacts ==
  ASSUME NEW n \in Nat, NEW a \in 1 .. n, NEW i \in 1 .. n, NEW j \in 1 .. n,
         i < j, i # a, i \notin 1 .. a - 1
  PROVE  j # a
OBVIOUS

LEMMA SeqFacts ==
  ASSUME NEW S, NEW f \in Seq(S)
  PROVE  DOMAIN f = 1 .. Len(f) /\ Len(f) \in Nat /\ \A j \in DOMAIN f : f[j] \in S
OBVIOUS

LEMMA SeqOfMore ==
  ASSUME NEW S, NEW T, S \subseteq T, NEW f \in Seq(S)
  PROVE  f \in Seq(T)
OBVIOUS

LEMMA ExceptFacts ==
  ASSUME NEW S, NEW f \in Seq(S), NEW i \in DOMAIN f, NEW e \in S
  PROVE  LET g == [f EXCEPT ![i] = e] IN
           /\ g \in Seq(S) /\ Len(g) = Len(f) /\ DOMAIN g = DOMAIN f /\ g[i] = e
           /\ \A j \in DOMAIN f : j # i => g[j] = f[j]
OBVIOUS

(* Rewrite changes the status of the line that was read, and nothing else. *)
LEMMA RewriteFacts ==
  ASSUME inf \in Seq(InfLines), NEW i \in DOMAIN inf, NEW s \in InfStatus,
         inf' = [inf EXCEPT ![i].st = s]
  PROVE  /\ inf' \in Seq(InfLines) /\ Len(inf') = Len(inf)
         /\ DOMAIN inf' = DOMAIN inf
         /\ inf'[i].st = s
         /\ \A j \in DOMAIN inf : /\ inf'[j].kind = inf[j].kind
                                  /\ inf'[j].name = inf[j].name
                                  /\ (j # i => inf'[j] = inf[j])
<1> DEFINE e == [inf[i] EXCEPT !.st = s]
<1>1. inf[i] \in InfLines
  BY SeqFacts
<1>2. /\ e \in InfLines /\ e.st = s /\ e.name = inf[i].name
      /\ e.kind = inf[i].kind
  BY <1>1 DEF InfLines
<1>3. inf' = [inf EXCEPT ![i] = e]
  OBVIOUS
<1> HIDE DEF e
<1>4. LET g == [inf EXCEPT ![i] = e] IN
        /\ g \in Seq(InfLines) /\ Len(g) = Len(inf) /\ DOMAIN g = DOMAIN inf /\ g[i] = e
        /\ \A j \in DOMAIN inf : j # i => g[j] = inf[j]
  BY <1>2, ExceptFacts, Zenon
<1> QED
  BY <1>2, <1>3, <1>4

LEMMA PacketsFacts ==
  ASSUME packets \in Seq(PacLines), NEW i \in DOMAIN packets,
         NEW s \in {" ", "-", "A", "R", "E"},
         packets' = [packets EXCEPT ![i].st = s]
  PROVE  /\ packets' \in Seq(PacLines) /\ Len(packets') = Len(packets)
         /\ DOMAIN packets' = DOMAIN packets
         /\ packets'[i].st = s
         /\ \A j \in DOMAIN packets : /\ packets'[j].name = packets[j].name
                                      /\ (j # i => packets'[j] = packets[j])
<1> DEFINE e == [packets[i] EXCEPT !.st = s]
<1>1. packets[i] \in PacLines
  BY SeqFacts
<1>2. /\ e \in PacLines /\ e.st = s /\ e.name = packets[i].name
  BY <1>1 DEF PacLines
<1>3. packets' = [packets EXCEPT ![i] = e]
  OBVIOUS
<1> HIDE DEF e
<1>4. LET g == [packets EXCEPT ![i] = e] IN
        /\ g \in Seq(PacLines) /\ Len(g) = Len(packets) /\ DOMAIN g = DOMAIN packets /\ g[i] = e
        /\ \A j \in DOMAIN packets : j # i => g[j] = packets[j]
  BY <1>2, ExceptFacts, Zenon
<1> QED
  BY <1>2, <1>3, <1>4

LEMMA AppendFacts ==
  ASSUME NEW S, NEW f \in Seq(S), NEW e \in S
  PROVE  /\ Append(f, e) \in Seq(S) /\ Len(Append(f, e)) = Len(f) + 1
         /\ DOMAIN f = 1 .. Len(f) /\ DOMAIN Append(f, e) = 1 .. Len(f) + 1
         /\ \A i \in DOMAIN f : Append(f, e)[i] = f[i]
         /\ Append(f, e)[Len(f) + 1] = e
OBVIOUS

LEMMA TailFacts ==
  ASSUME NEW S, NEW f \in Seq(S), f # <<>>
  PROVE  /\ Head(f) \in S /\ Head(f) = f[1] /\ Tail(f) \in Seq(S)
         /\ Len(Tail(f)) = Len(f) - 1 /\ 1 \in DOMAIN f
         /\ \A i \in DOMAIN Tail(f) : i + 1 \in DOMAIN f /\ Tail(f)[i] = f[i + 1]
OBVIOUS

LEMMA TailDiffers ==
  ASSUME NEW S, NEW f \in Seq(S), f # <<>>
  PROVE  Tail(f) # f
<1>1. Len(Tail(f)) = Len(f) - 1 /\ Len(f) \in Nat
  BY TailFacts, SeqFacts
<1>2. \A n \in Nat : n - 1 # n
  OBVIOUS
<1> QED
  BY <1>1, <1>2, Zenon

(* Happens counts an error, and only if the bound allows one.              *)
LEMMA HappensFacts ==
  ASSUME Types, NEW e \in Errors, NEW max, Happens(e, max)
  PROVE  /\ errs' \in [Errors -> Nat] /\ errs'[e] = errs[e] + 1
         /\ \A d \in Errors : d # e => errs'[d] = errs[d]
         /\ errs[e] < max
BY DEF Types, Happens

(* A quiet failure is none that is allowed here.                           *)
LEMMA NoneIsQuiet ==
  ASSUME Types, MaxQuiet = 0
  PROVE  ~Happens("quiet", MaxQuiet)
BY HappensFacts DEF Types, Errors

LEMMA MembersFacts ==
  ASSUME NEW a \in DOMAIN Members
  PROVE  /\ Members[a] \in Seq(Packets)
         /\ Range_(Members[a]) \subseteq Packets
BY AnkhAssumption DEF Range_

LEMMA MembersApart ==
  ASSUME NEW a \in DOMAIN Members, NEW b \in DOMAIN Members, a # b,
         NEW p \in Range_(Members[a])
  PROVE  p \notin Range_(Members[b])
<1>1. \A i \in DOMAIN Members[a], j \in DOMAIN Members[b] : Members[a][i] # Members[b][j]
  BY AnkhAssumption
<1> QED
  BY <1>1 DEF Range_

LEMMA PacketsFilable == Packets \subseteq Filable
BY DEF Filable

LEMMA MinFacts ==
  ASSUME NEW S \in SUBSET Nat, S # {}
  PROVE  Min(S) \in S /\ \A y \in S : Min(S) <= y
<1>1. PICK x \in S : \A y \in S : ~(<<y, x>> \in OpToRel(<, Nat))
  BY NatLessThanWellFounded, WFMin
<1>2. \A y \in S : ~(y < x)
  BY <1>1 DEF OpToRel
<1>3. \A y \in S : x <= y
  BY <1>2
<1> QED
  BY <1>3 DEF Min

(* Oldest finds the first line that waits in the queue of its kind.        *)
LEMMA OldestFacts ==
  ASSUME inf \in Seq(InfLines), NEW kind
  PROVE  \/ /\ Oldest(kind) = 0
            /\ \A i \in DOMAIN inf : ~(inf[i].kind = kind /\ inf[i].st = "Q")
         \/ /\ Oldest(kind) \in DOMAIN inf /\ Oldest(kind) # 0
            /\ inf[Oldest(kind)].kind = kind /\ inf[Oldest(kind)].st = "Q"
            /\ \A i \in DOMAIN inf :
                 inf[i].kind = kind /\ inf[i].st = "Q" => Oldest(kind) <= i
<1> DEFINE q == {i \in DOMAIN inf : inf[i].kind = kind /\ inf[i].st = "Q"}
<1>1. DOMAIN inf = 1 .. Len(inf) /\ Len(inf) \in Nat
  BY SeqFacts
<1>2. q \in SUBSET Nat
  BY <1>1
<1>3. CASE q = {}
  BY <1>3 DEF Oldest
<1>4. CASE q # {}
  <2>1. Oldest(kind) = Min(q)
    BY <1>4 DEF Oldest
  <2>2. Oldest(kind) \in q /\ \A i \in q : Oldest(kind) <= i
    <3> HIDE DEF q
    <3> QED BY <1>2, <1>4, <2>1, MinFacts
  <2> QED
    BY <2>2, <1>1
<1> QED
  BY <1>3, <1>4

(* Where the line that is at work is one of its file.                      *)
LEMMA AtWorkFacts ==
  ASSUME Types, Places
  PROVE  /\ apc \in InLine \/ (apc = "line" /\ at <= Len(inf)) =>
              at \in DOMAIN inf /\ L \in InfLines
         /\ apc \in {"unlink", "mark"} \/ (apc = "pac" /\ at <= Len(packets)) =>
              at \in DOMAIN packets /\ PL \in PacLines
<1>1. /\ DOMAIN inf = 1 .. Len(inf) /\ Len(inf) \in Nat
      /\ \A j \in DOMAIN inf : inf[j] \in InfLines
  BY SeqFacts DEF Types
<1>2. /\ DOMAIN packets = 1 .. Len(packets) /\ Len(packets) \in Nat
      /\ \A j \in DOMAIN packets : packets[j] \in PacLines
  BY SeqFacts DEF Types
<1>3. /\ apc \in InLine \/ (apc = "line" /\ at <= Len(inf)) => at \in DOMAIN inf
      /\ apc \in {"unlink", "mark"} \/ (apc = "pac" /\ at <= Len(packets)) =>
           at \in DOMAIN packets
  BY <1>1, <1>2 DEF Types, Places
<1> QED
  BY <1>1, <1>2, <1>3 DEF L, PL

LEMMA RewriteStep ==
  ASSUME Types, at \in DOMAIN inf, NEW s \in InfStatus, Rewrite(s)
  PROVE  /\ inf' \in Seq(InfLines) /\ Len(inf') = Len(inf)
         /\ DOMAIN inf' = DOMAIN inf
         /\ inf'[at].st = s
         /\ \A j \in DOMAIN inf : /\ inf'[j].kind = inf[j].kind
                                  /\ inf'[j].name = inf[j].name
                                  /\ (j # at => inf'[j] = inf[j])
         /\ apc' = "line" /\ at' = at + 1
<1>1. inf \in Seq(InfLines) /\ inf' = [inf EXCEPT ![at].st = s]
  BY DEF Types, Rewrite
<1> QED
  BY <1>1, RewriteFacts DEF Rewrite

(* A line that Arrive adds, and one that ankhmail adds to PACKETS.         *)
LEMMA ArriveFacts ==
  ASSUME Types, Arrive
  PROVE  /\ arriving # <<>> /\ apc = "idle"
         /\ Head(arriving) \in [kind : Kinds, name : AllNames]
         /\ Head(arriving) = arriving[1] /\ 1 \in DOMAIN arriving
         /\ arriving' \in Seq([kind : Kinds, name : AllNames])
         /\ \A i \in DOMAIN arriving' : i + 1 \in DOMAIN arriving /\ i + 1 # 1
                                        /\ arriving'[i] = arriving[i + 1]
         /\ inf' \in Seq(InfLines) /\ Len(inf') = Len(inf) + 1
         /\ DOMAIN inf' = 1 .. Len(inf) + 1 /\ DOMAIN inf = 1 .. Len(inf)
         /\ Len(inf) \in Nat
         /\ \A i \in DOMAIN inf : inf'[i] = inf[i]
         /\ \A i \in DOMAIN inf' : i = Len(inf) + 1 \/ i \in DOMAIN inf
         /\ inf'[Len(inf) + 1] = [st |-> " ", kind |-> arriving[1].kind,
                                  name |-> arriving[1].name]
         /\ inf'[Len(inf) + 1].st = " " /\ inf'[Len(inf) + 1].kind = arriving[1].kind
         /\ inf'[Len(inf) + 1].name = arriving[1].name
         /\ files' = files \cup {arriving[1].name}
         /\ UNCHANGED <<mode, packets, apc, at, member, groupOk, filed, errs>>
<1> DEFINE e == [st |-> " ", kind |-> Head(arriving).kind, name |-> Head(arriving).name]
           A == [kind : Kinds, name : AllNames]
<1>1. /\ arriving # <<>> /\ apc = "idle" /\ arriving \in Seq(A) /\ inf \in Seq(InfLines)
      /\ arriving' = Tail(arriving) /\ inf' = Append(inf, e)
  BY DEF Types, Arrive
<1>2. /\ Head(arriving) \in A /\ Head(arriving) = arriving[1] /\ 1 \in DOMAIN arriving
      /\ Tail(arriving) \in Seq(A)
      /\ \A i \in DOMAIN Tail(arriving) : i + 1 \in DOMAIN arriving
                                          /\ Tail(arriving)[i] = arriving[i + 1]
  <2> HIDE DEF A
  <2> QED BY <1>1, TailFacts
<1>3. \A i \in DOMAIN Tail(arriving) : i + 1 # 1
  BY <1>2, SeqFacts
<1>4. e \in InfLines
  BY <1>2 DEF InfLines, InfStatus
<1>5. /\ inf' \in Seq(InfLines) /\ Len(inf') = Len(inf) + 1
      /\ DOMAIN inf' = 1 .. Len(inf) + 1 /\ DOMAIN inf = 1 .. Len(inf)
      /\ Len(inf) \in Nat /\ \A i \in DOMAIN inf : inf'[i] = inf[i]
      /\ inf'[Len(inf) + 1] = e
  <2> HIDE DEF e
  <2> QED BY <1>1, <1>4, AppendFacts
<1>6. \A i \in 1 .. Len(inf) + 1 : i = Len(inf) + 1 \/ i \in 1 .. Len(inf)
  BY <1>5, RangeFacts
<1>7. e.st = " " /\ e.kind = arriving[1].kind /\ e.name = arriving[1].name
      /\ e = [st |-> " ", kind |-> arriving[1].kind, name |-> arriving[1].name]
  BY <1>2
<1> QED
  BY <1>1, <1>2, <1>3, <1>5, <1>6, <1>7 DEF Arrive

LEMMA ListFacts ==
  ASSUME packets \in Seq(PacLines), NEW s \in {" ", "A"},
         NEW p \in Packets \cup DOMAIN Members,
         packets' = Append(packets, [st |-> s, name |-> p])
  PROVE  /\ packets' \in Seq(PacLines) /\ Len(packets') = Len(packets) + 1
         /\ DOMAIN packets' = 1 .. Len(packets) + 1
         /\ DOMAIN packets = 1 .. Len(packets) /\ Len(packets) \in Nat
         /\ \A i \in DOMAIN packets : packets'[i] = packets[i]
         /\ \A i \in DOMAIN packets' : i = Len(packets) + 1 \/ i \in DOMAIN packets
         /\ packets'[Len(packets) + 1].st = s /\ packets'[Len(packets) + 1].name = p
<1> DEFINE e == [st |-> s, name |-> p]
<1>1. e \in PacLines /\ e.st = s /\ e.name = p
  BY DEF PacLines
<1>2. Len(packets) \in Nat
  BY SeqFacts
<1> HIDE DEF e
<1>3. LET g == Append(packets, e) IN
        /\ g \in Seq(PacLines) /\ Len(g) = Len(packets) + 1
        /\ DOMAIN packets = 1 .. Len(packets) /\ DOMAIN g = 1 .. Len(packets) + 1
        /\ \A i \in DOMAIN packets : g[i] = packets[i]
        /\ g[Len(packets) + 1] = e
  BY <1>1, AppendFacts, Zenon
<1>4. packets' = Append(packets, e)
  BY DEF e
<1>5. \A i \in 1 .. Len(packets) + 1 : i = Len(packets) + 1 \/ i \in 1 .. Len(packets)
  BY <1>2, RangeFacts
<1> QED
  BY <1>1, <1>2, <1>3, <1>4, <1>5

-----------------------------------------------------------------------------
(* Types.                                                                  *)

LEMMA TypesInit == AnkhInit => Types
<1> SUFFICES ASSUME AnkhInit PROVE Types
  OBVIOUS
<1>1. arriving \in Seq([kind : Kinds, name : AllNames]) /\ mode \in {"p", "d"}
  BY AnkhAssumption DEF AnkhInit
<1>2. [st : {"Q"}, kind : {"news", "fnews"}, name : AllNames] \subseteq InfLines
  BY DEF InfLines, InfStatus, Kinds
<1>3. inf \in Seq(InfLines)
  <2>1. Queued \in Seq([st : {"Q"}, kind : {"news", "fnews"}, name : AllNames])
    BY AnkhAssumption
  <2> QED BY <1>2, <2>1, SeqOfMore DEF AnkhInit
<1>4. packets \in Seq(PacLines)
  BY DEF AnkhInit
<1>5. filed \in [Filable -> Nat] /\ errs \in [Errors -> Nat]
  BY DEF AnkhInit, Errors
<1> QED
  BY <1>1, <1>3, <1>4, <1>5 DEF AnkhInit, Types

(* The archive that is at work.                                            *)
LEMMA ArcFacts ==
  ASSUME Types, Places, AtLine, NamesApart, apc \in {"arc", "list", "listed"}
  PROVE  /\ at \in DOMAIN inf /\ L \in InfLines /\ L.kind = "arc"
         /\ L.name \in DOMAIN Members
         /\ Members[L.name] \in Seq(Packets) /\ Len(Members[L.name]) \in Nat
         /\ DOMAIN Members[L.name] = 1 .. Len(Members[L.name])
         /\ \A k \in DOMAIN Members[L.name] : Members[L.name][k] \in Packets
<1>1. at \in DOMAIN inf /\ L \in InfLines /\ L.kind = "arc"
  BY AtWorkFacts DEF AtLine, InLine
<1>2. L.name \in DOMAIN Members
  BY <1>1 DEF NamesApart, L
<1>3. Members[L.name] \in Seq(Packets)
  BY <1>2, AnkhAssumption
<1> QED
  BY <1>1, <1>2, <1>3, SeqFacts

(* What packdis is given may be filed.                                     *)
LEMMA WorkIsFilable ==
  ASSUME Types, Places, AtLine, NamesApart
  PROVE  /\ apc = "net" => L.name \in Filable
         /\ apc = "pac" /\ at <= Len(packets) /\ PL.st = " " => PL.name \in Packets
<1>1. apc = "net" => L.name \in Filable
  BY AtWorkFacts DEF AtLine, NamesApart, InLine, L
<1>2. ASSUME apc = "pac", at <= Len(packets), PL.st = " "
      PROVE  PL.name \in Packets
  BY <1>2, AtWorkFacts DEF NamesApart, PL, PacLines
<1> QED
  BY <1>1, <1>2

LEMMA TypesStep ==
  ASSUME Types, Places, AtLine, NamesApart, MaxQuiet = 0, [AnkhNext]_ankhVars
  PROVE  Types'
<1> USE DEF Errors
<1>a. /\ apc \in InLine \/ (apc = "line" /\ at <= Len(inf)) => at \in DOMAIN inf /\ L \in InfLines
      /\ at + 1 \in Nat \ {0} /\ 1 \in Nat \ {0} /\ member + 1 \in Nat \ {0}
  BY AtWorkFacts DEF Types
<1>b. \A s \in InfStatus : apc \in InLine \/ (apc = "line" /\ at <= Len(inf)) =>
        (Rewrite(s) => /\ inf' \in Seq(InfLines) /\ apc' = "line" /\ at' \in Nat \ {0})
  BY <1>a, RewriteStep
<1>c. Skip => apc' = "line" /\ at' \in Nat \ {0} /\ inf' \in Seq(InfLines)
  BY <1>a DEF Skip, Types
<1>1. CASE Arrive
  BY <1>1, ArriveFacts DEF Types
<1>2. CASE Ankhmail
  BY <1>2 DEF Ankhmail, Types
<1>3. CASE ReadLine
  <2>1. L.kind \in Kinds
    BY <1>3, <1>a DEF ReadLine, InfLines
  <2>2. CASE Settled(L)
    BY <1>3, <1>a, <1>c, <2>2 DEF ReadLine, Types
  <2>3. CASE ~Settled(L) /\ apc' = L.kind /\ UNCHANGED <<inf, at>> /\ L.kind # "other"
    <3>1. apc' \in InLine
      BY <2>1, <2>3 DEF Kinds, InLine
    <3> QED BY <1>3, <1>a, <2>3, <3>1 DEF ReadLine, Types
  <2>4. CASE ~Settled(L) /\ (Rewrite(" ") \/ Rewrite("?"))
    <3>1. /\ inf' \in Seq(InfLines) /\ apc' = "line" /\ at' \in Nat \ {0}
      BY <1>3, <1>b, <2>4 DEF ReadLine, InfStatus
    <3> QED BY <1>3, <1>a, <3>1 DEF ReadLine, Types
  <2> QED
    BY <1>3, <2>2, <2>3, <2>4 DEF ReadLine
<1>4. CASE EndInfiles
  BY <1>4 DEF EndInfiles, Types
<1>5. CASE Unarc
  <2>1. CASE apc' = "list" /\ UNCHANGED <<inf, at, errs>>
    BY <1>5, <2>1 DEF Unarc, Types, InLine
  <2>2. CASE Happens("unarc", MaxUnarcErrors) /\ \E s \in {"P", "E"} : Rewrite(s)
    <3>1. /\ inf' \in Seq(InfLines) /\ apc' = "line" /\ at' \in Nat \ {0}
      BY <1>5, <1>b, <2>2 DEF Unarc, InfStatus, InLine
    <3> QED BY <1>5, <2>2, <3>1, HappensFacts DEF Unarc, Types
  <2> QED
    BY <1>5, <2>1, <2>2 DEF Unarc
<1>6. CASE ListMember
  <2>1. CASE Happens("unarc", MaxUnarcErrors) /\ Rewrite("P") /\ UNCHANGED <<packets, member>>
    <3>1. /\ inf' \in Seq(InfLines) /\ apc' = "line" /\ at' \in Nat \ {0}
      BY <1>6, <1>b, <2>1 DEF ListMember, InfStatus, InLine
    <3> QED BY <1>6, <2>1, <3>1, HappensFacts DEF ListMember, Types
  <2>2. CASE /\ packets' = Append(packets, [st |-> " ", name |-> Members[L.name][member]])
             /\ member' = member + 1 /\ UNCHANGED <<inf, at, apc, errs>>
    <3>1. apc = "list" /\ member \in Nat \ {0} /\ member <= Len(Members[L.name])
      BY <1>6 DEF ListMember, Types
    <3>2. member \in DOMAIN Members[L.name]
      BY <3>1, ArcFacts
    <3>3. Members[L.name][member] \in Packets
      BY <3>1, <3>2, ArcFacts
    <3>4. packets' \in Seq(PacLines)
      BY <2>2, <3>3, ListFacts DEF Types
    <3> QED BY <1>6, <1>a, <2>2, <3>4 DEF ListMember, Types
  <2> QED
    BY <1>6, <2>1, <2>2 DEF ListMember
<1>7. CASE ListArchive
  <2>2. L.name \in DOMAIN Members
    BY <1>7, ArcFacts DEF ListArchive
  <2>3. packets' \in Seq(PacLines)
    BY <1>7, <2>2, ListFacts DEF Types, ListArchive
  <2> QED BY <1>7, <2>3 DEF ListArchive, Types, InLine
<1>8. CASE MarkArchive \/ Enqueue \/ MarkGone
  <2>1. /\ inf' \in Seq(InfLines) /\ apc' = "line" /\ at' \in Nat \ {0}
    BY <1>8, <1>b DEF MarkArchive, Enqueue, MarkGone, InfStatus, InLine
  <2> QED BY <1>8, <2>1 DEF MarkArchive, Enqueue, MarkGone, Types
<1>9. CASE RemoveOldest
  <2>1. CASE Happens("unarc", MaxUnarcErrors) /\ Skip
    BY <1>9, <2>1, <1>c, HappensFacts DEF RemoveOldest, Types
  <2>2. CASE apc' \in {"enqueue", "unqueue"} /\ UNCHANGED <<errs, inf, at>>
    BY <1>9, <2>2 DEF RemoveOldest, Types, InLine
  <2> QED
    BY <1>9, <2>1, <2>2 DEF RemoveOldest
<1>10. CASE MarkOldest
  <2>1. inf' \in Seq(InfLines)
    <3>1. Oldest(L.kind) \in DOMAIN inf
      BY <1>10, OldestFacts DEF MarkOldest, AtLine, Types
    <3> QED BY <1>10, <3>1, RewriteFacts DEF MarkOldest, Types, InfStatus
  <2> QED BY <1>10, <2>1 DEF MarkOldest, Types, InLine
<1>11. CASE RemoveNdiff
  BY <1>11 DEF RemoveNdiff, Types, InLine
<1>12. CASE ProcNet
  <2>1. L.name \in Filable
    BY <1>12, WorkIsFilable DEF ProcNet
  <2>2. \/ filed' = [filed EXCEPT ![L.name] = @ + 1] /\ apc' = "ndiff" /\ UNCHANGED <<inf, at, errs>>
        \/ Happens("fail", MaxFailures) /\ Skip /\ UNCHANGED filed
    BY <1>12, NoneIsQuiet DEF ProcNet, PackOne
  <2>3. CASE filed' = [filed EXCEPT ![L.name] = @ + 1] /\ apc' = "ndiff" /\ UNCHANGED <<inf, at, errs>>
    <3>1. filed' \in [Filable -> Nat]
      BY <2>1, <2>3 DEF Types
    <3> QED BY <1>12, <2>3, <3>1 DEF ProcNet, Types, InLine
  <2>4. CASE Happens("fail", MaxFailures) /\ Skip /\ UNCHANGED filed
    BY <1>12, <2>4, <1>c, HappensFacts DEF ProcNet, Types
  <2> QED
    BY <2>2, <2>3, <2>4
<1>13. CASE OpenPkt \/ PassLine
  <2>1. groupOk' \in BOOLEAN
    BY <1>13 DEF OpenPkt, PassLine, Types
  <2> QED BY <1>13, <1>a, <2>1 DEF OpenPkt, PassLine, NextPacket, Types
<1>14. CASE DoPkt
  <2>1. PL.name \in Filable
    BY <1>14, WorkIsFilable, PacketsFilable DEF DoPkt
  <2>2. \/ /\ filed' = [filed EXCEPT ![PL.name] = @ + 1] /\ apc' = "unlink"
           /\ UNCHANGED <<at, groupOk, errs>>
        \/ /\ Happens("fail", MaxFailures) /\ apc' = "pac" /\ NextPacket /\ groupOk' = FALSE
           /\ UNCHANGED filed
    BY <1>14, NoneIsQuiet DEF DoPkt, PackOne
  <2>3. CASE filed' = [filed EXCEPT ![PL.name] = @ + 1] /\ apc' = "unlink"
           /\ UNCHANGED <<at, groupOk, errs>>
    <3>1. filed' \in [Filable -> Nat]
      BY <2>1, <2>3 DEF Types
    <3> QED BY <1>14, <2>3, <3>1 DEF DoPkt, Types
  <2>4. CASE /\ Happens("fail", MaxFailures) /\ apc' = "pac" /\ NextPacket /\ groupOk' = FALSE
             /\ UNCHANGED filed
    BY <1>14, <1>a, <2>4, HappensFacts DEF DoPkt, Types, NextPacket
  <2> QED
    BY <2>2, <2>3, <2>4
<1>15. CASE UnlinkPkt
  BY <1>15 DEF UnlinkPkt, Types
<1>16. CASE MarkPkt
  <2>1. at \in DOMAIN packets
    BY <1>16, AtWorkFacts DEF MarkPkt
  <2>2. packets' \in Seq(PacLines)
    BY <1>16, <2>1, PacketsFacts DEF MarkPkt, Types
  <2> QED BY <1>16, <1>a, <2>2 DEF MarkPkt, Types, NextPacket
<1>17. CASE Batch
  <2>1. PL.name \in Filable /\ at \in DOMAIN packets
    BY <1>17, WorkIsFilable, PacketsFilable, AtWorkFacts DEF Batch
  <2>2. CASE filed' = [filed EXCEPT ![PL.name] = @ + 1] /\ apc' = "mark"
             /\ UNCHANGED <<packets, at, groupOk, errs>>
    <3>1. filed' \in [Filable -> Nat]
      BY <2>1, <2>2 DEF Types
    <3> QED BY <1>17, <2>2, <3>1 DEF Batch, Types
  <2>3. CASE /\ Happens("fail", MaxFailures)
             /\ \E s \in {" ", "E"} : packets' = [packets EXCEPT ![at].st = s]
             /\ groupOk' = FALSE /\ NextPacket /\ UNCHANGED <<apc, filed>>
    <3>1. packets' \in Seq(PacLines)
      BY <2>1, <2>3, PacketsFacts DEF Types
    <3> QED BY <1>17, <1>a, <2>3, <3>1, HappensFacts DEF Batch, Types, NextPacket
  <2> QED
    BY <1>17, <2>2, <2>3 DEF Batch
<1>18. CASE ProcArchive
  <2>1. at \in DOMAIN packets
    BY <1>18, AtWorkFacts DEF ProcArchive
  <2>2. packets' \in Seq(PacLines)
    BY <1>18, <2>1, PacketsFacts DEF ProcArchive, Types
  <2> QED BY <1>18, <1>a, <2>2 DEF ProcArchive, Types, NextPacket
<1>19. CASE EndPackets
  BY <1>19 DEF EndPackets, Types
<1>20. CASE AnkhCrash
  BY <1>20, HappensFacts DEF AnkhCrash, Types
<1>21. CASE UNCHANGED ankhVars
  BY <1>21 DEF ankhVars, Types
<1> QED
  BY <1>1, <1>2, <1>3, <1>4, <1>5, <1>6, <1>7, <1>8, <1>9, <1>10, <1>11, <1>12, <1>13,
     <1>14, <1>15, <1>16, <1>17, <1>18, <1>19, <1>20, <1>21 DEF AnkhNext, AnkhStep

-----------------------------------------------------------------------------
(* What a step does to each file.                                          *)

Rewritten(i, s) ==
  /\ i \in DOMAIN inf /\ DOMAIN inf' = DOMAIN inf /\ Len(inf') = Len(inf)
  /\ inf'[i].st = s
  /\ \A j \in DOMAIN inf : /\ inf'[j].kind = inf[j].kind /\ inf'[j].name = inf[j].name
                           /\ j # i => inf'[j] = inf[j]
Marked(i, s) ==
  /\ i \in DOMAIN packets /\ DOMAIN packets' = DOMAIN packets
  /\ Len(packets') = Len(packets) /\ packets'[i].st = s
  /\ \A j \in DOMAIN packets : /\ packets'[j].name = packets[j].name
                               /\ j # i => packets'[j] = packets[j]
Added(s, p) ==
  /\ Len(packets') = Len(packets) + 1 /\ DOMAIN packets' = 1 .. Len(packets) + 1
  /\ DOMAIN packets = 1 .. Len(packets) /\ Len(packets) \in Nat
  /\ \A i \in DOMAIN packets : packets'[i] = packets[i]
  /\ \A i \in DOMAIN packets' : i = Len(packets) + 1 \/ i \in DOMAIN packets
  /\ packets'[Len(packets) + 1].st = s /\ packets'[Len(packets) + 1].name = p

\* The statuses that a line at work gets, by the step that gives them.
Outcome(s) ==
  \/ s = " " /\ ReadLine /\ ~Settled(L) /\ L.kind = "arc"
  \/ s = "?" /\ ReadLine /\ ~Settled(L) /\ L.kind = "other"
  \/ s \in {"P", "E"} /\ Unarc /\ Happens("unarc", MaxUnarcErrors)
  \/ s = "P" /\ ListMember /\ Happens("unarc", MaxUnarcErrors) /\ UNCHANGED <<packets, member>>
  \/ s = "." /\ MarkArchive
  \/ s = "Q" /\ Enqueue
  \/ s = "-" /\ MarkGone

LEMMA InfEffect ==
  ASSUME Types, Places, AtLine, NamesApart, [AnkhNext]_ankhVars
  PROVE  \/ Arrive
         \/ inf' = inf /\ arriving' = arriving
         \/ /\ MarkOldest /\ Rewritten(Oldest(L.kind), "-") /\ arriving' = arriving
            /\ at \in DOMAIN inf /\ inf[Oldest(L.kind)].kind = L.kind
            /\ inf[Oldest(L.kind)].st = "Q"
            /\ \A i \in DOMAIN inf :
                 inf[i].kind = L.kind /\ inf[i].st = "Q" => Oldest(L.kind) <= i
         \/ \E s \in InfStatus : /\ Rewritten(at, s) /\ Outcome(s) /\ arriving' = arriving
                                 /\ apc' = "line" /\ at' = at + 1
<1>a. apc \in InLine \/ (apc = "line" /\ at <= Len(inf)) => at \in DOMAIN inf
  BY AtWorkFacts
<1>b. \A s \in InfStatus : at \in DOMAIN inf /\ Rewrite(s) =>
        Rewritten(at, s) /\ apc' = "line" /\ at' = at + 1
  BY RewriteStep DEF Rewritten
<1>1. CASE ReadLine
  BY <1>1, <1>a, <1>b DEF ReadLine, Skip, Outcome, InfStatus
<1>2. CASE Unarc
  BY <1>2, <1>a, <1>b DEF Unarc, Outcome, InfStatus, InLine
<1>3. CASE ListMember
  BY <1>3, <1>a, <1>b DEF ListMember, Outcome, InfStatus, InLine
<1>4. CASE MarkArchive \/ Enqueue \/ MarkGone
  BY <1>4, <1>a, <1>b DEF MarkArchive, Enqueue, MarkGone, Outcome, InfStatus, InLine
<1>5. CASE MarkOldest
  <2>1. at \in DOMAIN inf /\ inf \in Seq(InfLines) /\ L.kind \in News
    BY <1>5, <1>a DEF MarkOldest, InLine, Types, AtLine
  <2>2. /\ Oldest(L.kind) \in DOMAIN inf /\ inf[Oldest(L.kind)].kind = L.kind
        /\ inf[Oldest(L.kind)].st = "Q"
        /\ \A i \in DOMAIN inf :
             inf[i].kind = L.kind /\ inf[i].st = "Q" => Oldest(L.kind) <= i
    BY <1>5, <2>1, OldestFacts DEF MarkOldest, AtLine
  <2>3. Rewritten(Oldest(L.kind), "-")
    BY <1>5, <2>1, <2>2, RewriteFacts DEF MarkOldest, InfStatus, Rewritten
  <2> QED
    BY <1>5, <2>1, <2>2, <2>3 DEF MarkOldest
<1>6. CASE \/ Ankhmail \/ EndInfiles \/ ListArchive \/ RemoveOldest \/ RemoveNdiff
           \/ OpenPkt \/ DoPkt \/ UnlinkPkt \/ MarkPkt \/ Batch \/ ProcArchive
           \/ PassLine \/ EndPackets \/ AnkhCrash \/ UNCHANGED ankhVars
  BY <1>6 DEF Ankhmail, EndInfiles, ListArchive, RemoveOldest, RemoveNdiff, Skip,
     OpenPkt, DoPkt, UnlinkPkt, MarkPkt, Batch, ProcArchive, PassLine, EndPackets,
     AnkhCrash, ankhVars
<1>7. CASE ProcNet
  BY <1>7 DEF ProcNet, PackOne, Skip
<1> QED
  BY <1>1, <1>2, <1>3, <1>4, <1>5, <1>6, <1>7 DEF AnkhNext, AnkhStep

LEMMA PacketsEffect ==
  ASSUME Types, Places, AtLine, NamesApart, [AnkhNext]_ankhVars
  PROVE  \/ packets' = packets
         \/ /\ ListMember /\ member \in DOMAIN Members[L.name]
            /\ Added(" ", Members[L.name][member])
            /\ Members[L.name][member] \in Packets /\ L.name \in DOMAIN Members
            /\ member' = member + 1 /\ UNCHANGED <<inf, at, apc, errs>>
         \/ ListArchive /\ Added("A", L.name) /\ L.name \in DOMAIN Members
         \/ MarkPkt /\ PL.st = " " /\ Marked(at, "-")
         \/ Batch /\ apc' = "pac" /\ PL.st = " " /\ \E s \in {" ", "E"} : Marked(at, s)
         \/ ProcArchive /\ groupOk /\ PL.st = "A" /\ Marked(at, "R")
<1>1. CASE ListMember
  <2>1. CASE /\ packets' = Append(packets, [st |-> " ", name |-> Members[L.name][member]])
             /\ member' = member + 1 /\ UNCHANGED <<inf, at, apc, errs>>
    <3>1. apc = "list" /\ member \in Nat \ {0} /\ member <= Len(Members[L.name])
      BY <1>1 DEF ListMember, Types
    <3>2. member \in DOMAIN Members[L.name] /\ L.name \in DOMAIN Members
      BY <3>1, ArcFacts
    <3>3. Members[L.name][member] \in Packets
      BY <3>1, <3>2, ArcFacts
    <3>4. Added(" ", Members[L.name][member])
      BY <2>1, <3>3, ListFacts DEF Types, Added
    <3> QED BY <1>1, <2>1, <3>2, <3>3, <3>4
  <2> QED
    BY <1>1, <2>1 DEF ListMember
<1>2. CASE ListArchive
  <2>1. L.name \in DOMAIN Members
    BY <1>2, ArcFacts DEF ListArchive
  <2> QED
    BY <1>2, <2>1, ListFacts DEF ListArchive, Types, Added
<1>3. CASE MarkPkt
  <2>1. at \in DOMAIN packets
    BY <1>3, AtWorkFacts DEF MarkPkt
  <2> QED
    BY <1>3, <2>1, PacketsFacts DEF MarkPkt, Types, Marked, AtLine
<1>4. CASE Batch
  <2>1. at \in DOMAIN packets
    BY <1>4, AtWorkFacts DEF Batch
  <2>2. \A s \in {" ", "E"} : packets' = [packets EXCEPT ![at].st = s] => Marked(at, s)
    BY <2>1, PacketsFacts DEF Types, Marked
  <2> QED
    BY <1>4, <2>2 DEF Batch
<1>5. CASE ProcArchive
  <2>1. at \in DOMAIN packets
    BY <1>5, AtWorkFacts DEF ProcArchive
  <2>2. packets' = [packets EXCEPT ![at].st = "R"] => Marked(at, "R")
    BY <2>1, PacketsFacts DEF Types, Marked
  <2> QED
    BY <1>5, <2>2 DEF ProcArchive, Types
<1>6. CASE \/ Arrive \/ Ankhmail \/ ReadLine \/ EndInfiles \/ Unarc \/ MarkArchive
           \/ RemoveOldest \/ MarkOldest \/ Enqueue \/ RemoveNdiff \/ MarkGone \/ ProcNet
           \/ OpenPkt \/ DoPkt \/ UnlinkPkt \/ PassLine \/ EndPackets \/ AnkhCrash
           \/ UNCHANGED ankhVars
  BY <1>6 DEF Arrive, Ankhmail, ReadLine, EndInfiles, Unarc, MarkArchive, RemoveOldest,
     MarkOldest, Enqueue, RemoveNdiff, MarkGone, ProcNet, OpenPkt, DoPkt, UnlinkPkt,
     PassLine, EndPackets, AnkhCrash, ankhVars
<1> QED
  BY <1>1, <1>2, <1>3, <1>4, <1>5, <1>6 DEF AnkhNext, AnkhStep

\* packdis files the packet p.
Filing(p) ==
  /\ filed' = [filed EXCEPT ![p] = @ + 1] /\ files' = files \ {p}
  /\ UNCHANGED <<arriving, mode, inf, packets, at, member, groupOk, errs>>
  /\ \/ ProcNet /\ p = L.name /\ apc = "net" /\ apc' = "ndiff"
     \/ DoPkt /\ p = PL.name /\ p \in Packets /\ apc' = "unlink"
     \/ Batch /\ p = PL.name /\ p \in Packets /\ apc' = "mark"

LEMMA FiledSame ==
  ASSUME Types, NEW p \in Filable
  PROVE  [filed EXCEPT ![p] = @ + 1] # filed
<1>1. filed \in [Filable -> Nat]
  BY DEF Types
<1>2. [filed EXCEPT ![p] = @ + 1][p] = filed[p] + 1 /\ filed[p] \in Nat
  BY <1>1
<1> QED
  BY <1>2

LEMMA FiledEffect ==
  ASSUME Types, Places, AtLine, NamesApart, MaxQuiet = 0, [AnkhNext]_ankhVars
  PROVE  filed' = filed \/ \E p \in Filable : Filing(p)
<1>1. CASE ProcNet
  <2>1. L.name \in Filable
    BY <1>1, WorkIsFilable DEF ProcNet
  <2> QED BY <1>1, <2>1, NoneIsQuiet DEF ProcNet, PackOne, Filing
<1>2. CASE DoPkt
  <2>1. PL.name \in Filable /\ PL.name \in Packets
    BY <1>2, WorkIsFilable, PacketsFilable DEF DoPkt
  <2> QED BY <1>2, <2>1, NoneIsQuiet DEF DoPkt, PackOne, Filing
<1>3. CASE Batch
  <2>1. PL.name \in Filable /\ PL.name \in Packets
    BY <1>3, WorkIsFilable, PacketsFilable DEF Batch
  <2> QED BY <1>3, <2>1 DEF Batch, Filing
<1>4. CASE \/ Arrive \/ Ankhmail \/ ReadLine \/ EndInfiles \/ Unarc \/ ListMember
           \/ ListArchive \/ MarkArchive \/ RemoveOldest \/ MarkOldest \/ Enqueue
           \/ RemoveNdiff \/ MarkGone \/ OpenPkt \/ UnlinkPkt \/ MarkPkt \/ ProcArchive
           \/ PassLine \/ EndPackets \/ AnkhCrash \/ UNCHANGED ankhVars
  BY <1>4 DEF Arrive, Ankhmail, ReadLine, EndInfiles, Unarc, ListMember, ListArchive,
     MarkArchive, RemoveOldest, MarkOldest, Enqueue, RemoveNdiff, MarkGone, OpenPkt,
     UnlinkPkt, MarkPkt, ProcArchive, PassLine, EndPackets, AnkhCrash, ankhVars
<1> QED
  BY <1>1, <1>2, <1>3, <1>4 DEF AnkhNext, AnkhStep

\* RemoveOldest finds a file in the queue, and removes it.
Unqueueing ==
  /\ RemoveOldest /\ apc' = "unqueue" /\ UNCHANGED <<inf, at, errs>>
  /\ at \in DOMAIN inf /\ L.kind = apc
  /\ Oldest(L.kind) \in DOMAIN inf /\ inf[Oldest(L.kind)].kind = L.kind
  /\ inf[Oldest(L.kind)].st = "Q"
  /\ files' = files \ {inf[Oldest(L.kind)].name}

LEMMA FilesEffect ==
  ASSUME Types, Places, AtLine, NamesApart, MaxQuiet = 0, [AnkhNext]_ankhVars
  PROVE  \/ files' = files
         \/ Arrive
         \/ Unarc /\ apc' = "list" /\ files' = files \cup Range_(Members[L.name])
         \/ \E p \in Filable : Filing(p)
         \/ Unqueueing
         \/ RemoveNdiff
         \/ UnlinkPkt
         \/ ProcArchive /\ groupOk /\ files' = files \ {PL.name}
<1>1. CASE filed' # filed
  BY <1>1, FiledEffect
<1>2. CASE RemoveOldest
  <2>1. at \in DOMAIN inf /\ L.kind = apc /\ inf \in Seq(InfLines)
    BY <1>2, AtWorkFacts DEF RemoveOldest, AtLine, InLine, News, Types
  <2>2. CASE apc' = "unqueue" /\ UNCHANGED <<errs, inf, at>> /\ Oldest(L.kind) # 0
             /\ files' = files \ {inf[Oldest(L.kind)].name}
    BY <1>2, <2>1, <2>2, OldestFacts DEF Unqueueing
  <2> QED
    BY <1>2, <2>2 DEF RemoveOldest
<1>3. CASE filed' = filed /\ (ProcNet \/ DoPkt \/ Batch)
  BY <1>3, FiledSame, WorkIsFilable, PacketsFilable DEF ProcNet, DoPkt, Batch, PackOne
<1>4. CASE \/ Arrive \/ Ankhmail \/ ReadLine \/ EndInfiles \/ Unarc \/ ListMember
           \/ ListArchive \/ MarkArchive \/ MarkOldest \/ Enqueue
           \/ RemoveNdiff \/ MarkGone \/ OpenPkt \/ UnlinkPkt \/ MarkPkt \/ ProcArchive
           \/ PassLine \/ EndPackets \/ AnkhCrash \/ UNCHANGED ankhVars
  BY <1>4 DEF Arrive, Ankhmail, ReadLine, EndInfiles, Unarc, ListMember, ListArchive,
     MarkArchive, MarkOldest, Enqueue, RemoveNdiff, MarkGone, OpenPkt, UnlinkPkt, MarkPkt,
     ProcArchive, PassLine, EndPackets, AnkhCrash, ankhVars, Range_
<1> QED
  BY <1>1, <1>2, <1>3, <1>4 DEF AnkhNext, AnkhStep

(* Lines are added, and change their status only; what is filed stays so.  *)
LEMMA InfKeeps ==
  ASSUME Types, Places, AtLine, NamesApart, [AnkhNext]_ankhVars
  PROVE  /\ Len(inf) \in Nat /\ Len(inf') \in Nat /\ Len(inf') >= Len(inf)
         /\ DOMAIN inf = 1 .. Len(inf) /\ DOMAIN inf' = 1 .. Len(inf')
         /\ \A i \in DOMAIN inf : /\ i \in DOMAIN inf' /\ inf'[i].kind = inf[i].kind
                                  /\ inf'[i].name = inf[i].name
<1>1. DOMAIN inf = 1 .. Len(inf) /\ Len(inf) \in Nat
  BY SeqFacts DEF Types
<1>2. CASE Arrive
  <2>1. /\ Len(inf') = Len(inf) + 1 /\ DOMAIN inf' = 1 .. Len(inf) + 1
        /\ \A i \in DOMAIN inf : inf'[i] = inf[i]
    BY <1>2, ArriveFacts
  <2> QED BY <1>1, <2>1
<1>3. CASE inf' = inf
  BY <1>1, <1>3
<1>4. CASE \E i, s : Rewritten(i, s)
  BY <1>1, <1>4 DEF Rewritten
<1> QED
  BY <1>2, <1>3, <1>4, InfEffect

LEMMA PacketsKeep ==
  ASSUME Types, Places, AtLine, NamesApart, [AnkhNext]_ankhVars
  PROVE  /\ Len(packets) \in Nat /\ Len(packets') \in Nat /\ Len(packets') >= Len(packets)
         /\ DOMAIN packets = 1 .. Len(packets) /\ DOMAIN packets' = 1 .. Len(packets')
         /\ \A i \in DOMAIN packets : /\ i \in DOMAIN packets'
                                      /\ packets'[i].name = packets[i].name
<1>1. DOMAIN packets = 1 .. Len(packets) /\ Len(packets) \in Nat
  BY SeqFacts DEF Types
<1>2. CASE packets' = packets
  BY <1>1, <1>2
<1>3. CASE \E s, p : Added(s, p)
  BY <1>1, <1>3 DEF Added
<1>4. CASE \E i, s : Marked(i, s)
  BY <1>1, <1>4 DEF Marked
<1> QED
  BY <1>2, <1>3, <1>4, PacketsEffect

LEMMA FiledKeeps ==
  ASSUME Types, Places, AtLine, NamesApart, MaxQuiet = 0, [AnkhNext]_ankhVars
  PROVE  \A p \in Filable : filed[p] > 0 => filed'[p] > 0
<1>1. filed \in [Filable -> Nat]
  BY DEF Types
<1>2. ASSUME NEW q \in Filable, Filing(q), NEW p \in Filable, filed[p] > 0
      PROVE  filed'[p] > 0
  BY <1>1, <1>2 DEF Filing
<1> QED
  BY <1>2, FiledEffect

LEMMA PlacesStep ==
  ASSUME Types, Places, AtLine, NamesApart, [AnkhNext]_ankhVars
  PROVE  Places'
<1> USE DEF InLine
<1>a. /\ Len(inf) \in Nat /\ Len(inf') \in Nat /\ Len(inf') >= Len(inf)
      /\ DOMAIN inf = 1 .. Len(inf) /\ at \in Nat
      /\ Len(packets) \in Nat /\ Len(packets') \in Nat /\ Len(packets') >= Len(packets)
      /\ DOMAIN packets = 1 .. Len(packets)
      /\ (apc \in InLine \/ (apc = "line" /\ at <= Len(inf)) => at \in DOMAIN inf)
  BY InfKeeps, PacketsKeep, AtWorkFacts DEF Types
\* To another line, or in the same one.
<1> DEFINE Goes == \/ apc' = "idle" /\ at' = 1
                   \/ apc' = apc /\ at' = at
                   \/ apc' = "line" /\ at' = 1
                   \/ apc' = "pac" /\ at' = 1
                   \/ apc' = "line" /\ apc \in InLine /\ at' = at + 1
                   \/ apc' \in InLine /\ apc \in InLine /\ at' = at
                   \/ /\ apc = "line" /\ at <= Len(inf)
                      /\ \/ apc' = "line" /\ at' = at + 1
                         \/ apc' \in InLine /\ at' = at
                   \/ /\ apc = "pac" /\ at <= Len(packets)
                      /\ \/ apc' = "pac" /\ at' = at + 1
                         \/ apc' \in {"unlink", "mark"} /\ at' = at
                   \/ apc = "unlink" /\ apc' = "mark" /\ at' = at
                   \/ apc = "mark" /\ apc' = "pac" /\ at' = at + 1
<1>b. Goes => Places'
  BY <1>a DEF Places
<1> SUFFICES Goes
  BY <1>b
<1>1. CASE Arrive \/ Ankhmail \/ EndInfiles \/ EndPackets \/ AnkhCrash \/ UNCHANGED ankhVars
  BY <1>1 DEF Arrive, Ankhmail, EndInfiles, EndPackets, AnkhCrash, ankhVars
<1>2. CASE ReadLine
  <2>1. L.kind \in Kinds
    BY <1>2, AtWorkFacts DEF ReadLine, InfLines
  <2> QED BY <1>2, <2>1 DEF ReadLine, Skip, Rewrite, Kinds
<1>3. CASE Unarc \/ ListMember \/ ListArchive \/ MarkArchive
  BY <1>3 DEF Unarc, ListMember, ListArchive, MarkArchive, Rewrite
<1>4. CASE RemoveOldest \/ MarkOldest \/ Enqueue \/ RemoveNdiff \/ MarkGone
  BY <1>4 DEF RemoveOldest, MarkOldest, Enqueue, RemoveNdiff, MarkGone, Rewrite, Skip
<1>5. CASE ProcNet
  BY <1>5 DEF ProcNet, PackOne, Skip
<1>6. CASE OpenPkt \/ DoPkt \/ UnlinkPkt
  BY <1>6 DEF OpenPkt, DoPkt, PackOne, UnlinkPkt, NextPacket
<1>7. CASE MarkPkt \/ Batch \/ ProcArchive \/ PassLine
  BY <1>7 DEF MarkPkt, Batch, ProcArchive, PassLine, NextPacket
<1> QED
  BY <1>1, <1>2, <1>3, <1>4, <1>5, <1>6, <1>7 DEF AnkhNext, AnkhStep

LEMMA AtLineStep ==
  ASSUME Types, Places, AtLine, NamesApart, MaxQuiet = 0, [AnkhNext]_ankhVars
  PROVE  AtLine'
<1> USE DEF InLine, News
<1>a. apc \in InLine \/ (apc = "line" /\ at <= Len(inf)) => at \in DOMAIN inf /\ L \in InfLines
  BY AtWorkFacts
<1>b. CASE apc' \notin InLine \cup {"unlink", "mark"}
  BY <1>b DEF AtLine
<1>c. CASE apc' \in {"unlink", "mark"} /\ (DoPkt \/ Batch \/ UnlinkPkt)
  <2>1. packets' = packets /\ at' = at
    BY <1>c, NoneIsQuiet DEF DoPkt, Batch, UnlinkPkt, PackOne
  <2>2. PL.st = " " /\ PL' = PL
    BY <1>c, <2>1 DEF DoPkt, Batch, UnlinkPkt, PL, AtLine
  <2>3. PL'.st = " "
    BY <2>2
  <2>4. CASE apc' = "unlink"
    BY <2>3, <2>4 DEF AtLine
  <2>5. CASE apc' = "mark"
    BY <2>3, <2>5 DEF AtLine
  <2> QED BY <1>c, <2>4, <2>5
<1>1. CASE ReadLine /\ apc' \in InLine
  <2>1. ~Settled(L) /\ apc' = L.kind /\ UNCHANGED <<inf, at, files>> /\ member' = 1 /\ L' = L
    BY <1>1 DEF ReadLine, Skip, Rewrite, L
  <2>2. L.kind \in Kinds
    BY <1>1, <1>a DEF ReadLine, InfLines
  <2> QED
    BY <2>1, <2>2 DEF AtLine, Settled, Kinds
<1>2. CASE Unarc /\ apc' \in InLine
  <2>1. L' = L /\ apc' = "list" /\ member' = 1
    BY <1>2 DEF Unarc, L, Rewrite, AtLine
  <2>2. L.kind = "arc" /\ Len(Members[L.name]) \in Nat
    BY <1>2, ArcFacts DEF Unarc
  <2>3. L'.kind = "arc" /\ member' <= Len(Members[L'.name]) + 1
    BY <2>1, <2>2
  <2> QED
    BY <2>1, <2>3 DEF AtLine
<1>3. CASE ListMember /\ apc' \in InLine
  <2>1. L' = L /\ apc' = "list" /\ apc = "list" /\ member' = member + 1
        /\ member <= Len(Members[L.name]) /\ member \in Nat
    BY <1>3 DEF ListMember, L, Rewrite, Types
  <2>2. L.kind = "arc" /\ Len(Members[L.name]) \in Nat
    BY <2>1, ArcFacts
  <2>3. L'.kind = "arc" /\ member' <= Len(Members[L'.name]) + 1
    BY <2>1, <2>2
  <2> QED
    BY <2>1, <2>3 DEF AtLine
<1>4. CASE ListArchive
  BY <1>4 DEF ListArchive, AtLine, L
<1>5. CASE RemoveOldest /\ apc' \in InLine
  <2>1. /\ L' = L /\ apc' \in {"enqueue", "unqueue"} /\ apc \in News /\ L.kind = apc
        /\ UNCHANGED inf /\ (apc' = "unqueue" => Oldest(L.kind) # 0)
    BY <1>5 DEF RemoveOldest, L, Skip, AtLine
  <2>2. apc' = "unqueue" => \E i \in DOMAIN inf : inf[i].kind = L.kind /\ inf[i].st = "Q"
    BY <2>1, OldestFacts DEF Types
  <2> QED
    BY <2>1, <2>2 DEF AtLine
<1>6. CASE MarkOldest
  <2>1. /\ at \in DOMAIN inf /\ at' = at /\ apc' = "enqueue" /\ L.kind \in News /\ L.st = " "
    BY <1>6, <1>a DEF MarkOldest, AtLine
  <2>2. /\ Oldest(L.kind) \in DOMAIN inf /\ inf[Oldest(L.kind)].st = "Q"
        /\ inf' = [inf EXCEPT ![Oldest(L.kind)].st = "-"] /\ inf \in Seq(InfLines)
    BY <1>6, OldestFacts DEF MarkOldest, AtLine, Types
  <2>4. Rewritten(Oldest(L.kind), "-")
    BY <2>2, RewriteFacts DEF Rewritten, InfStatus
  <2>3. L'.kind = L.kind /\ L'.st = L.st
    BY <2>1, <2>2, <2>4 DEF Rewritten, L
  <2> QED
    BY <2>1, <2>3 DEF AtLine
<1>7. CASE RemoveNdiff
  BY <1>7 DEF RemoveNdiff, AtLine, L
<1>8. CASE ProcNet /\ apc' \in InLine
  <2>1. L.name \in Filable /\ apc = "net"
    BY <1>8, WorkIsFilable DEF ProcNet
  <2>3. filed' = [filed EXCEPT ![L.name] = @ + 1] /\ UNCHANGED <<inf, at>> /\ apc' = "ndiff"
    BY <1>8, NoneIsQuiet DEF ProcNet, PackOne, Skip
  <2>2. L' = L /\ L.kind = "net" /\ apc' = "ndiff" /\ filed'[L.name] > 0
    <3>1. L' = L /\ L.kind = "net"
      BY <2>1, <2>3 DEF L, AtLine
    <3>2. filed' [L.name] = filed[L.name] + 1 /\ filed[L.name] \in Nat
      BY <2>1, <2>3 DEF Types
    <3> QED BY <2>3, <3>1, <3>2
  <2> QED
    BY <2>2 DEF AtLine
<1>9. CASE UNCHANGED ankhVars
  BY <1>9 DEF ankhVars, AtLine, L, PL
<1>d. CASE \/ Arrive \/ Ankhmail \/ EndInfiles \/ MarkArchive \/ Enqueue \/ MarkGone
           \/ OpenPkt \/ MarkPkt \/ ProcArchive \/ PassLine \/ EndPackets \/ AnkhCrash
  <2>1. apc' \in {"idle", "line", "pac"}
    BY <1>d DEF Arrive, Ankhmail, EndInfiles, MarkArchive, Enqueue, MarkGone, Rewrite,
       OpenPkt, MarkPkt, ProcArchive, PassLine, EndPackets, AnkhCrash
  <2> QED BY <1>b, <2>1
<1>e. CASE ReadLine \/ Unarc \/ ListMember \/ RemoveOldest \/ ProcNet
  <2>1. apc' \in InLine \cup {"line"}
    BY <1>e, <1>a DEF ReadLine, Rewrite, Skip, InfLines, Kinds, Unarc, ListMember,
       RemoveOldest, ProcNet, PackOne
  <2> QED BY <1>b, <1>1, <1>2, <1>3, <1>5, <1>8, <1>e, <2>1
<1>f. CASE DoPkt \/ Batch \/ UnlinkPkt
  <2>1. apc' \in {"unlink", "mark", "pac"}
    BY <1>f DEF DoPkt, Batch, UnlinkPkt, PackOne
  <2> QED BY <1>b, <1>c, <1>f, <2>1
<1> QED
  BY <1>4, <1>6, <1>7, <1>9, <1>d, <1>e, <1>f DEF AnkhNext, AnkhStep

-----------------------------------------------------------------------------
(* Names.                                                                  *)

LEMMA NamesInit == AnkhInit => NamesApart
<1> SUFFICES ASSUME AnkhInit PROVE NamesApart
  OBVIOUS
<1>1. /\ arriving \in Arrivals /\ inf = Queued /\ packets = <<>>
  BY DEF AnkhInit
<1>2. \A i \in DOMAIN inf : inf[i].kind \in {"news", "fnews"}
  <2>1. inf \in Seq([st : {"Q"}, kind : {"news", "fnews"}, name : AllNames])
    BY <1>1, AnkhAssumption
  <2>2. \A i \in DOMAIN inf : inf[i] \in [st : {"Q"}, kind : {"news", "fnews"}, name : AllNames]
    BY <2>1, SeqFacts
  <2> QED BY <2>2
<1>3. \A i \in DOMAIN arriving : arriving[i].kind = "net" => arriving[i].name \in Filable
  BY <1>1 DEF Filable
<1>4. /\ \A i, j \in DOMAIN inf : i # j => inf[i].name # inf[j].name
      /\ \A i \in DOMAIN inf : inf[i].name \notin DOMAIN Members
  BY <1>1, AnkhAssumption
<1>5. \A i \in DOMAIN arriving :
        /\ arriving[i].kind = "arc" <=> arriving[i].name \in DOMAIN Members
        /\ \A j \in DOMAIN arriving : i # j => arriving[i].name # arriving[j].name
        /\ \A j \in DOMAIN inf : arriving[i].name # inf[j].name
  BY <1>1, AnkhAssumption
<1> QED
  BY <1>1, <1>2, <1>3, <1>4, <1>5 DEF NamesApart

LEMMA NamesStep ==
  ASSUME Types, Places, AtLine, NamesApart, [AnkhNext]_ankhVars
  PROVE  NamesApart'
<1>1. /\ \A i, j \in DOMAIN inf' : i # j => inf'[i].name # inf'[j].name
      /\ \A i, j \in DOMAIN arriving' : i # j => arriving'[i].name # arriving'[j].name
      /\ \A i \in DOMAIN inf', j \in DOMAIN arriving' : inf'[i].name # arriving'[j].name
      /\ \A i \in DOMAIN inf' : inf'[i].kind = "arc" <=> inf'[i].name \in DOMAIN Members
      /\ \A i \in DOMAIN arriving' :
           arriving'[i].kind = "arc" <=> arriving'[i].name \in DOMAIN Members
      /\ \A i \in DOMAIN inf' : inf'[i].kind = "net" => inf'[i].name \in Filable
      /\ \A i \in DOMAIN arriving' :
           arriving'[i].kind = "net" => arriving'[i].name \in Filable
  <2>1. CASE Arrive
    <3> DEFINE h == arriving[1]
    <3>1. /\ 1 \in DOMAIN arriving
          /\ \A i \in DOMAIN arriving' : i + 1 \in DOMAIN arriving /\ i + 1 # 1
                                         /\ arriving'[i] = arriving[i + 1]
          /\ DOMAIN inf' = 1 .. Len(inf) + 1 /\ DOMAIN inf = 1 .. Len(inf)
          /\ Len(inf) \in Nat /\ \A i \in DOMAIN inf : inf'[i] = inf[i]
          /\ inf'[Len(inf) + 1].kind = h.kind /\ inf'[Len(inf) + 1].name = h.name
      BY <2>1, ArriveFacts
    <3>2. \A i \in DOMAIN inf' : i = Len(inf) + 1 \/ i \in DOMAIN inf
      BY <2>1, ArriveFacts
    <3>3. DOMAIN arriving \subseteq Int /\ DOMAIN arriving' \subseteq Int
      <4>1. arriving' \in Seq([kind : Kinds, name : AllNames])
        BY <2>1, ArriveFacts
      <4> QED BY <4>1, SeqFacts DEF Types
    <3>4. \A i, j \in DOMAIN arriving' : i # j => arriving'[i].name # arriving'[j].name
      <4>1. \A i, j \in DOMAIN arriving' : i # j => i + 1 # j + 1
        BY <3>3
      <4> QED BY <3>1, <4>1 DEF NamesApart
    <3>5. \A i \in DOMAIN inf', j \in DOMAIN arriving' : inf'[i].name # arriving'[j].name
      BY <3>1, <3>2 DEF NamesApart
    <3>6. \A i, j \in DOMAIN inf' : i # j => inf'[i].name # inf'[j].name
      BY <3>1, <3>2 DEF NamesApart
    <3> QED
      BY <3>1, <3>2, <3>4, <3>5, <3>6 DEF NamesApart
  <2>2. CASE inf' = inf /\ arriving' = arriving
    BY <2>2 DEF NamesApart
  <2>3. CASE arriving' = arriving /\ \E i, s : Rewritten(i, s)
    BY <2>3 DEF Rewritten, NamesApart
  <2> QED
    BY <2>1, <2>2, <2>3, InfEffect
<1>2. \A i \in DOMAIN packets' :
        packets'[i].st \in {"A", "R"} <=> packets'[i].name \in DOMAIN Members
  <2> DEFINE Told(i) == packets[i].st \in {"A", "R"} <=> packets[i].name \in DOMAIN Members
  <2>1. \A i \in DOMAIN packets : Told(i)
    BY DEF NamesApart
  <2>2. CASE packets' = packets
    BY <2>1, <2>2
  <2>3. ASSUME NEW p \in Packets, Added(" ", p) PROVE \A i \in DOMAIN packets' : Told(i)'
    <3>1. p \notin DOMAIN Members
      BY AnkhAssumption
    <3> QED BY <2>1, <2>3, <3>1 DEF Added
  <2>4. ASSUME NEW a \in DOMAIN Members, Added("A", a) PROVE \A i \in DOMAIN packets' : Told(i)'
    BY <2>1, <2>4 DEF Added
  <2>5. ASSUME PL.st = " ", NEW s \in {" ", "E", "-"}, Marked(at, s)
        PROVE  \A i \in DOMAIN packets' : Told(i)'
    BY <2>1, <2>5 DEF Marked, PL
  <2>6. ASSUME PL.st = "A", Marked(at, "R") PROVE \A i \in DOMAIN packets' : Told(i)'
    BY <2>1, <2>6 DEF Marked, PL
  <2> QED
    BY <2>2, <2>3, <2>4, <2>5, <2>6, PacketsEffect
<1> QED
  BY <1>1, <1>2 DEF NamesApart

-----------------------------------------------------------------------------
(* Archives, and what is removed.                                          *)

(* The line of an archive stays one, and the others never become one.      *)
LEMMA ArchivesStay ==
  ASSUME Types, Places, AtLine, NamesApart, [AnkhNext]_ankhVars
  PROVE  /\ \A i \in DOMAIN packets : IsArchive(i)' <=> IsArchive(i)
         /\ \A i \in DOMAIN packets :
              ~IsArchive(i) => packets[i].name \in Packets /\ packets[i].name \in Filable
<1>1. NamesApart'
  BY NamesStep
<1>2. \A i \in DOMAIN packets : i \in DOMAIN packets' /\ packets'[i].name = packets[i].name
  BY PacketsKeep
<1>3. \A i \in DOMAIN packets : packets[i].name \in Packets \cup DOMAIN Members
  <2>1. \A i \in DOMAIN packets : packets[i] \in PacLines
    BY SeqFacts DEF Types
  <2> QED BY <2>1 DEF PacLines
<1>4. /\ \A i \in DOMAIN packets : IsArchive(i) <=> packets[i].name \in DOMAIN Members
      /\ \A i \in DOMAIN packets' : IsArchive(i)' <=> packets'[i].name \in DOMAIN Members
  BY <1>1 DEF NamesApart, IsArchive
<1> QED
  BY <1>2, <1>3, <1>4, PacketsFilable

LEMMA CompleteStep ==
  ASSUME Types, Places, AtLine, NamesApart, Complete, Listing, [AnkhNext]_ankhVars
  PROVE  Complete'
<1>a. /\ Len(packets) \in Nat /\ DOMAIN packets = 1 .. Len(packets)
      /\ \A i \in DOMAIN packets : i \in DOMAIN packets' /\ packets'[i].name = packets[i].name
      /\ \A i \in DOMAIN packets : IsArchive(i)' <=> IsArchive(i)
  BY PacketsKeep, ArchivesStay
<1>1. ASSUME NEW i \in DOMAIN packets, IsArchive(i)',
             NEW k \in DOMAIN Members[packets'[i].name]
      PROVE  \E j \in 1 .. i - 1 :
               packets'[j].name = Members[packets'[i].name][k] /\ SameGroup(j, i - 1)'
  <2>1. IsArchive(i) /\ packets'[i].name = packets[i].name
    BY <1>1, <1>a
  <2>2. PICK j \in 1 .. i - 1 : /\ packets[j].name = Members[packets[i].name][k]
                                /\ SameGroup(j, i - 1)
    BY <1>1, <2>1 DEF Complete
  <2>3. j \in DOMAIN packets /\ \A m \in j .. i - 1 : m \in DOMAIN packets
    BY <1>a, <2>2
  <2>4. SameGroup(j, i - 1)'
    BY <1>a, <2>2, <2>3 DEF SameGroup
  <2> QED
    BY <1>a, <2>1, <2>2, <2>3, <2>4
<1>2. ASSUME NEW i \in DOMAIN packets', i \notin DOMAIN packets, IsArchive(i)',
             NEW k \in DOMAIN Members[packets'[i].name]
      PROVE  \E j \in 1 .. i - 1 :
               packets'[j].name = Members[packets'[i].name][k] /\ SameGroup(j, i - 1)'
  <2>1. ListArchive /\ Added("A", L.name)
    BY <1>2, PacketsEffect DEF Added, Marked, IsArchive
  <2>2. i = Len(packets) + 1 /\ packets'[i].name = L.name
    BY <1>2, <2>1 DEF Added
  <2>3. /\ DOMAIN Members[L.name] = 1 .. Len(Members[L.name]) /\ Len(Members[L.name]) \in Nat
        /\ member \in Nat /\ apc = "list" /\ member > Len(Members[L.name])
    BY <2>1, ArcFacts DEF ListArchive, Types
  <2>4. k \in 1 .. member - 1
    BY <1>2, <2>2, <2>3
  <2>5. PICK j \in DOMAIN packets : /\ packets[j].name = Members[L.name][k]
                                    /\ SameGroup(j, Len(packets))
    BY <2>3, <2>4 DEF Listing
  <2>6. j \in 1 .. i - 1 /\ i - 1 = Len(packets) /\ \A m \in j .. i - 1 : m \in DOMAIN packets
    BY <1>a, <2>2
  <2>7. SameGroup(j, i - 1)'
    BY <1>a, <2>5, <2>6 DEF SameGroup
  <2> QED
    BY <1>a, <2>2, <2>5, <2>6, <2>7
<1> QED
  BY <1>1, <1>2 DEF Complete

LEMMA ListingStep ==
  ASSUME Types, Places, AtLine, NamesApart, Listing, [AnkhNext]_ankhVars
  PROVE  Listing'
<1> SUFFICES ASSUME apc' = "list" PROVE Listing'
  BY DEF Listing
<1>1. CASE Unarc
  <2>1. member' = 1
    BY <1>1 DEF Unarc, AtLine
  <2>2. \A k \in 1 .. member' - 1 : FALSE
    BY <2>1
  <2> QED BY <2>2 DEF Listing
<1>2. CASE ListMember
  <2>1. PICK n \in Nat : n = Len(packets)
    BY SeqFacts DEF Types
  <2>2. packets' = Append(packets, [st |-> " ", name |-> Members[L.name][member]])
    BY <1>2 DEF ListMember, Rewrite
  <2>3. member' = member + 1 /\ member \in Nat \ {0} /\ member <= Len(Members[L.name])
    BY <1>2 DEF ListMember, Rewrite, Types
  <2>4. apc = "list" /\ L' = L
    BY <1>2 DEF ListMember, Rewrite, L
  <2>5. member \in DOMAIN Members[L.name]
    BY <2>3, <2>4, ArcFacts
  <2>6. Members[L.name][member] \in Packets
    BY <2>4, <2>5, ArcFacts
  <2>7. Added(" ", Members[L.name][member])
    BY <2>2, <2>6, ListFacts DEF Types, Added
  <2>8. DOMAIN packets = 1 .. n /\ Len(packets') = n + 1 /\ DOMAIN packets' = 1 .. n + 1
    BY <2>1, <2>7 DEF Added
  <2>9. \A m \in DOMAIN packets : packets'[m] = packets[m]
    BY <2>7 DEF Added
  <2>10. packets'[n + 1].st = " " /\ packets'[n + 1].name = Members[L.name][member]
    BY <2>1, <2>7 DEF Added
  <2>11. ASSUME NEW k \in 1 .. member' - 1
        PROVE  \E j \in DOMAIN packets' :
                 packets'[j].name = Members[L'.name][k] /\ SameGroup(j, Len(packets))'
    <3>1. CASE k = member
      <4>1. \A m \in n + 1 .. Len(packets') : m = n + 1
        BY <2>8
      <4>2. \A m \in n + 1 .. Len(packets') : packets'[m].st = " "
        BY <4>1, <2>10
      <4>3. SameGroup(n + 1, Len(packets))'
        BY <4>2 DEF SameGroup, IsArchive
      <4>4. n + 1 \in DOMAIN packets'
        BY <2>8
      <4> QED BY <2>4, <2>10, <3>1, <4>3, <4>4
    <3>2. CASE k \in 1 .. member - 1
      <4>1. PICK j \in DOMAIN packets : /\ packets[j].name = Members[L.name][k]
                                        /\ SameGroup(j, Len(packets))
        BY <2>4, <3>2 DEF Listing
      <4>2. \A m \in j .. Len(packets') : m = n + 1 \/ (m \in DOMAIN packets /\ m \in j .. n)
        BY <2>8, <4>1
      <4>3. \A m \in j .. n : m \in DOMAIN packets => packets'[m].st \notin {"A", "R"}
        BY <2>1, <2>9, <4>1 DEF SameGroup, IsArchive
      <4>4. \A m \in j .. Len(packets') : packets'[m].st \notin {"A", "R"}
        BY <2>10, <4>2, <4>3
      <4>5. SameGroup(j, Len(packets))'
        BY <4>4 DEF SameGroup, IsArchive
      <4>6. j \in DOMAIN packets'
        BY <2>8
      <4>7. packets'[j].name = Members[L'.name][k]
        BY <2>4, <2>9, <4>1
      <4> QED BY <4>5, <4>6, <4>7
    <3>3. k = member \/ k \in 1 .. member - 1
      BY <2>3
    <3> QED BY <3>1, <3>2, <3>3
  <2> QED BY <2>11 DEF Listing
<1>3. CASE UNCHANGED ankhVars
  BY <1>3 DEF ankhVars, Listing, L, SameGroup, IsArchive
<1>4. CASE ReadLine
  <2>1. apc' \in Kinds \cup {"line"}
    BY <1>4, AtWorkFacts DEF ReadLine, Rewrite, Skip, InfLines
  <2> QED BY <2>1 DEF Kinds
<1> QED
  BY <1>1, <1>2, <1>3, <1>4 DEF AnkhNext, AnkhStep, Arrive, Ankhmail, EndInfiles,
     ListArchive, MarkArchive, RemoveOldest, MarkOldest, Enqueue, RemoveNdiff, MarkGone,
     ProcNet, PackOne, Skip, Rewrite, OpenPkt, DoPkt, UnlinkPkt, MarkPkt, Batch, ProcArchive,
     PassLine, EndPackets, AnkhCrash

(* What a line in PACKETS says is filed was filed when it got its status.  *)
LEMMA RemovedStep ==
  ASSUME Types, Places, AtLine, NamesApart, GroupFiled, RemovedIsFiled, MaxQuiet = 0,
         [AnkhNext]_ankhVars
  PROVE  RemovedIsFiled'
<1>1. ASSUME NEW i \in DOMAIN packets', packets'[i].st = "-"
      PROVE  filed'[packets'[i].name] > 0
  <2>1. i \in DOMAIN packets /\ (packets[i].st = "-" \/ (MarkPkt /\ i = at))
    BY <1>1, PacketsEffect DEF Added, Marked
  <2>2. packets'[i].name = packets[i].name
    BY <2>1, PacketsKeep
  <2>3. packets[i].st \in {"-", " "}
    BY <2>1 DEF AtLine, MarkPkt, PL
  <2>4. packets[i].name \in Filable
    BY <2>1, <2>3, ArchivesStay DEF IsArchive
  <2>5. filed[packets[i].name] > 0
    BY <2>1 DEF RemovedIsFiled, GroupFiled, MarkPkt, PL
  <2> QED BY <2>2, <2>4, <2>5, FiledKeeps
<1>2. ASSUME NEW i \in DOMAIN inf', inf'[i].kind = "net", inf'[i].st = "-"
      PROVE  filed'[inf'[i].name] > 0
  <2>1. i \in DOMAIN inf /\ inf[i].kind = "net" /\ inf'[i].name = inf[i].name
        /\ (inf[i].st = "-" \/ (MarkGone /\ i = at))
    <3>1. CASE Arrive
      BY <1>2, <3>1, ArriveFacts
    <3>2. CASE inf' = inf
      BY <1>2, <3>2
    <3>3. CASE Rewritten(Oldest(L.kind), "-") /\ L.kind \in News /\ inf[Oldest(L.kind)].kind = L.kind
      BY <1>2, <3>3 DEF Rewritten, News
    <3>4. ASSUME NEW s \in InfStatus, Rewritten(at, s), Outcome(s)
          PROVE  i \in DOMAIN inf /\ inf[i].kind = "net" /\ inf'[i].name = inf[i].name
                 /\ (inf[i].st = "-" \/ (MarkGone /\ i = at))
      <4>1. s = "-" => MarkGone
        BY <3>4 DEF Outcome
      <4> QED BY <1>2, <3>4, <4>1 DEF Rewritten
    <3> QED BY <3>1, <3>2, <3>3, <3>4, InfEffect DEF MarkOldest, AtLine
  <2>2. filed[inf[i].name] > 0
    BY <2>1 DEF RemovedIsFiled, MarkGone, AtLine, L
  <2>3. inf[i].name \in Filable
    BY <2>1 DEF NamesApart
  <2> QED BY <2>1, <2>2, <2>3, FiledKeeps
<1> QED
  BY <1>1, <1>2 DEF RemovedIsFiled

LEMMA GroupStep ==
  ASSUME Types, Places, AtLine, NamesApart, GroupFiled, RemovedIsFiled, MaxQuiet = 0,
         [AnkhNext]_ankhVars
  PROVE  GroupFiled'
<1>1. ASSUME mode' = "p", NEW i \in DOMAIN packets' PROVE packets'[i].st # "E"
  <2>1. mode = "p"
    BY <1>1 DEF AnkhNext, AnkhStep, Arrive, Ankhmail, ReadLine, EndInfiles, Unarc, ListMember,
       ListArchive, MarkArchive, RemoveOldest, MarkOldest, Enqueue, RemoveNdiff, MarkGone,
       ProcNet, OpenPkt, DoPkt, UnlinkPkt, MarkPkt, Batch, ProcArchive, PassLine, EndPackets,
       AnkhCrash, ankhVars
  <2>2. ~Batch
    BY <2>1 DEF Batch
  <2>3. i \in DOMAIN packets => packets[i].st # "E"
    BY <2>1 DEF GroupFiled
  <2> QED BY <1>1, <2>2, <2>3, PacketsEffect DEF Added, Marked
<1>2. ASSUME apc' \in {"unlink", "mark"} PROVE filed'[PL'.name] > 0
  <2>1. CASE UnlinkPkt \/ UNCHANGED ankhVars
    BY <1>2, <2>1 DEF UnlinkPkt, ankhVars, GroupFiled, PL
  <2>2. CASE DoPkt \/ Batch
    <3>1. PL.name \in Filable
      BY <2>2, WorkIsFilable, PacketsFilable DEF DoPkt, Batch
    <3>2. filed' = [filed EXCEPT ![PL.name] = @ + 1] /\ packets' = packets /\ at' = at
      BY <1>2, <2>2, NoneIsQuiet DEF DoPkt, Batch, PackOne
    <3>3. filed'[PL.name] = filed[PL.name] + 1 /\ filed[PL.name] \in Nat
      BY <3>1, <3>2 DEF Types
    <3> QED BY <3>2, <3>3 DEF PL
  <2>3. ReadLine => apc' \in Kinds \cup {"line"}
    BY AtWorkFacts DEF ReadLine, Rewrite, Skip, InfLines
  <2> QED
    BY <1>2, <2>1, <2>2, <2>3 DEF AnkhNext, AnkhStep, Arrive, Ankhmail, EndInfiles, Unarc,
       ListMember, ListArchive, MarkArchive, RemoveOldest, MarkOldest, Enqueue, RemoveNdiff,
       MarkGone, ProcNet, PackOne, OpenPkt, MarkPkt, ProcArchive, PassLine, EndPackets,
       AnkhCrash, Rewrite, Skip, Kinds
<1>3. ASSUME apc' \in {"pac", "unlink", "mark"}, groupOk',
             NEW j \in 1 .. at' - 1, SameGroup(j, at - 1)'
      PROVE  filed'[packets'[j].name] > 0
  <2>1. at \in Nat \ {0} /\ DOMAIN packets = 1 .. Len(packets) /\ Len(packets) \in Nat
    BY PacketsKeep DEF Types
  \* The same packets before the step.
  <2>2. ASSUME at' = at, apc \in {"pac", "unlink", "mark"}, groupOk, packets' = packets
        PROVE  filed'[packets'[j].name] > 0
    <3>1. SameGroup(j, at - 1) /\ j \in 1 .. at - 1
      BY <1>3, <2>2 DEF SameGroup, IsArchive
    <3>2. j \in DOMAIN packets /\ j \in j .. at - 1
      BY <2>1, <2>2, <3>1 DEF Places
    <3>3. filed[packets[j].name] > 0
      BY <2>2, <3>1 DEF GroupFiled
    <3>4. packets[j].name \in Filable
      BY <3>1, <3>2, ArchivesStay DEF SameGroup
    <3> QED BY <2>2, <3>3, <3>4, FiledKeeps
  \* One more packet, which was filed.
  <2>3. ASSUME at' = at + 1, apc \in {"pac", "unlink", "mark"}, groupOk, at \in DOMAIN packets,
               ~IsArchive(at) => filed[PL.name] > 0
        PROVE  filed'[packets'[j].name] > 0
    <3>1. j \in 1 .. at
      BY <2>1, <2>3
    <3>2. j \in DOMAIN packets /\ \A m \in j .. at : m \in DOMAIN packets
      BY <2>1, <2>3, <3>1
    <3>3. \A m \in j .. at : ~IsArchive(m)
      <4>1. \A m \in j .. at : packets'[m].st \notin {"A", "R"}
        BY <1>3, <2>1, <2>3 DEF SameGroup, IsArchive
      <4> QED BY <3>2, <4>1, ArchivesStay DEF IsArchive
    <3>4. j \in j .. at /\ at \in j .. at /\ \A m \in j .. at - 1 : m \in j .. at
      BY <2>1, <3>1
    <3>5. SameGroup(j, at - 1)
      BY <3>3, <3>4 DEF SameGroup
    <3>6. j = at \/ j \in 1 .. at - 1
      BY <2>1, <3>1
    <3>7. filed[packets[j].name] > 0
      BY <2>3, <3>3, <3>4, <3>5, <3>6 DEF GroupFiled, PL
    <3>8. packets[j].name \in Filable
      BY <3>2, <3>3, <3>4, ArchivesStay
    <3>9. packets'[j].name = packets[j].name
      BY <3>2, PacketsKeep
    <3> QED BY <3>7, <3>8, <3>9, FiledKeeps
  <2>4. CASE EndInfiles
    <3>1. at' = 1
      BY <2>4 DEF EndInfiles
    <3> QED BY <1>3, <3>1
  <2>5. CASE (DoPkt \/ Batch) /\ UNCHANGED <<at, groupOk, packets>>
    BY <1>3, <2>2, <2>5 DEF DoPkt, Batch
  <2>6. CASE UnlinkPkt \/ UNCHANGED ankhVars
    BY <1>3, <2>2, <2>6 DEF UnlinkPkt, ankhVars
  <2>7. CASE MarkPkt
    <3>1. at \in DOMAIN packets
      BY <2>7, AtWorkFacts DEF MarkPkt
    <3> QED BY <1>3, <2>3, <2>7, <3>1 DEF MarkPkt, NextPacket, GroupFiled
  <2>8. CASE ProcArchive
    <3>1. at' = at + 1 /\ at \in DOMAIN packets /\ IsArchive(at)
      BY <2>8, AtWorkFacts DEF ProcArchive, NextPacket, IsArchive, PL
    <3>2. packets'[at].st \in {"A", "R"}
      BY <3>1, ArchivesStay DEF IsArchive
    <3>3. at \in j .. at' - 1
      BY <1>3, <2>1, <3>1
    <3> QED BY <1>3, <3>2, <3>3 DEF SameGroup, IsArchive
  <2>9. CASE PassLine
    <3>1. at' = at + 1 /\ at \in DOMAIN packets /\ apc = "pac" /\ PL.st \in {"-", "E", "R"}
          /\ packets' = packets
      BY <2>9, AtWorkFacts DEF PassLine, NextPacket
    <3>2. CASE PL.st = "R"
      <4>1. packets'[at].st \in {"A", "R"}
        BY <3>1, <3>2 DEF PL
      <4>2. at \in j .. at' - 1
        BY <1>3, <2>1, <3>1
      <4> QED BY <1>3, <4>1, <4>2 DEF SameGroup, IsArchive
    <3>3. CASE PL.st = "-"
      <4>1. groupOk
        BY <1>3, <2>9, <3>3 DEF PassLine
      <4>2. filed[PL.name] > 0
        BY <3>1, <3>3 DEF RemovedIsFiled, PL
      <4> QED BY <2>3, <3>1, <4>1, <4>2
    <3>4. CASE PL.st = "E"
      <4>1. mode = "d"
        BY <3>1, <3>4 DEF GroupFiled, PL, Types
      <4> QED BY <1>3, <2>9, <3>4, <4>1 DEF PassLine
    <3> QED BY <3>1, <3>2, <3>3, <3>4
  <2>10. CASE OpenPkt \/ ((DoPkt \/ Batch) /\ ~UNCHANGED <<at, groupOk, packets>>)
    BY <1>3, <2>10, NoneIsQuiet DEF OpenPkt, DoPkt, Batch, PackOne
  <2>11. ReadLine => apc' \in Kinds \cup {"line"}
    BY AtWorkFacts DEF ReadLine, Rewrite, Skip, InfLines
  <2> QED
    BY <1>3, <2>4, <2>5, <2>6, <2>7, <2>8, <2>9, <2>10, <2>11 DEF AnkhNext, AnkhStep, Arrive,
       Ankhmail, Unarc, ListMember, ListArchive, MarkArchive, RemoveOldest, MarkOldest,
       Enqueue, RemoveNdiff, MarkGone, ProcNet, PackOne, EndPackets, AnkhCrash, Rewrite,
       Skip, Kinds
<1> QED
  BY <1>1, <1>2, <1>3 DEF GroupFiled

LEMMA ArchiveStep ==
  ASSUME Types, Places, AtLine, NamesApart, Complete, GroupFiled, ArchiveHeld, MaxQuiet = 0,
         [AnkhNext]_ankhVars
  PROVE  ArchiveHeld'
<1> SUFFICES ASSUME NEW i \in DOMAIN inf', inf'[i].kind = "arc", inf'[i].name \notin files',
                    NEW k \in DOMAIN Members[inf'[i].name]
             PROVE  filed'[Members[inf'[i].name][k]] > 0
  BY DEF ArchiveHeld
<1>1. i \in DOMAIN inf
  BY InfEffect, ArriveFacts DEF Rewritten
<1> DEFINE a == inf[i].name
<1>2. inf'[i].name = a /\ inf[i].kind = "arc"
  BY <1>1, InfKeeps
<1>3. a \in DOMAIN Members /\ a \notin Packets
  BY <1>1, <1>2, AnkhAssumption DEF NamesApart
<1>4. Members[a][k] \in Filable
  <2>1. Members[a] \in Seq(Packets) /\ k \in DOMAIN Members[a]
    BY <1>2, <1>3, MembersFacts
  <2> QED BY <2>1, SeqFacts, PacketsFilable
<1>5. \A j \in DOMAIN inf : inf[j].kind # "arc" => inf[j].name # a
  BY <1>1, <1>2 DEF NamesApart
<1>6. CASE a \notin files
  <2>1. filed[Members[a][k]] > 0
    BY <1>1, <1>2, <1>6 DEF ArchiveHeld
  <2> QED BY <1>2, <1>4, <2>1, FiledKeeps
<1>7. CASE a \in files
  <2>1. a \notin files'
    BY <1>2
  <2>2. ~Arrive
    BY <1>7, <2>1, ArriveFacts
  <2>3. ~\E p \in Filable : Filing(p)
    <3>1. apc = "net" => L.name # a
      BY <1>5, AtWorkFacts DEF AtLine, InLine, L
    <3> QED BY <1>3, <1>7, <2>1, <3>1 DEF Filing
  <2>4. ~Unqueueing
    <3>1. Unqueueing => inf[Oldest(L.kind)].name # a
      BY <1>5 DEF Unqueueing, RemoveOldest
    <3> QED BY <1>7, <2>1, <3>1 DEF Unqueueing
  <2>5. ~RemoveNdiff
    <3>1. RemoveNdiff => L.name # a
      BY <1>5, AtWorkFacts DEF RemoveNdiff, AtLine, InLine, L
    <3> QED BY <1>7, <2>1, <3>1 DEF RemoveNdiff
  <2>6. ~UnlinkPkt
    <3>1. UnlinkPkt => PL.name \in Packets
      BY AtWorkFacts, ArchivesStay DEF UnlinkPkt, AtLine, PL, IsArchive
    <3> QED BY <1>3, <1>7, <2>1, <3>1 DEF UnlinkPkt
  <2>7. ProcArchive /\ groupOk /\ PL.name = a
    BY <1>7, <2>1, <2>2, <2>3, <2>4, <2>5, <2>6, FilesEffect
  <2>8. at \in DOMAIN packets /\ IsArchive(at) /\ apc = "pac" /\ packets[at].name = a
    BY <2>7, AtWorkFacts DEF ProcArchive, PL, IsArchive
  <2>9. PICK j \in 1 .. at - 1 : packets[j].name = Members[a][k] /\ SameGroup(j, at - 1)
    BY <1>2, <2>8 DEF Complete
  <2>10. filed[Members[a][k]] > 0
    BY <2>7, <2>8, <2>9 DEF GroupFiled
  <2> QED BY <1>2, <1>4, <2>10, FiledKeeps
<1> QED
  BY <1>6, <1>7

-----------------------------------------------------------------------------
(* The queues.                                                             *)

(* An error of unarc is counted for good.                                  *)
LEMMA UnarcCounted ==
  ASSUME Types, Places, AtLine, NamesApart, MaxQuiet = 0, [AnkhNext]_ankhVars
  PROVE  /\ errs'["unarc"] = 0 => errs["unarc"] = 0 /\ ~Happens("unarc", MaxUnarcErrors)
         /\ errs'["crash"] = 0 => errs["crash"] = 0 /\ ~AnkhCrash
<1>1. /\ errs["unarc"] \in Nat /\ errs["crash"] \in Nat
      /\ \A max : Happens("unarc", max) =>
           errs'["unarc"] = errs["unarc"] + 1 /\ errs'["crash"] = errs["crash"]
      /\ \A max : Happens("crash", max) =>
           errs'["crash"] = errs["crash"] + 1 /\ errs'["unarc"] = errs["unarc"]
      /\ \A max : Happens("fail", max) =>
           errs'["crash"] = errs["crash"] /\ errs'["unarc"] = errs["unarc"]
  BY HappensFacts DEF Types, Errors
<1>2. CASE UNCHANGED errs
  BY <1>1, <1>2 DEF AnkhCrash
<1>3. CASE \E max : Happens("unarc", max)
  BY <1>1, <1>3 DEF AnkhCrash
<1>4. CASE AnkhCrash
  BY <1>1, <1>4 DEF AnkhCrash
<1>5. CASE \E max : Happens("fail", max)
  BY <1>1, <1>5 DEF AnkhCrash
<1> QED
  BY <1>2, <1>3, <1>4, <1>5, NoneIsQuiet DEF AnkhNext, AnkhStep, Arrive, Ankhmail, ReadLine,
     EndInfiles, Unarc, ListMember, ListArchive, MarkArchive, RemoveOldest, MarkOldest,
     Enqueue, RemoveNdiff, MarkGone, ProcNet, PackOne, OpenPkt, DoPkt, UnlinkPkt, MarkPkt,
     Batch, ProcArchive, PassLine, EndPackets, ankhVars

\* The parts of Turns.
Waiting == \A i \in DOMAIN inf :
  inf[i].kind = "fnews" /\ inf[i].st = " " => inf[i].name \in files
NewLast == errs["unarc"] = 0 => \A i, j \in DOMAIN inf :
  i < j /\ inf[i].kind = inf[j].kind /\ inf[i].kind \in News /\ inf[i].st = " "
    => inf[j].st = " "
HadTurn == errs["unarc"] = 0 /\ apc \in {"line"} \cup InLine => \A i \in 1 .. at - 1 :
  i \in DOMAIN inf /\ inf[i].kind \in News => inf[i].st # " "
Ordered == errs["unarc"] = 0 => \A i, j \in DOMAIN inf :
  i < j /\ inf[i].kind = inf[j].kind /\ inf[i].kind \in News /\ inf[i].st = "Q"
    => inf[j].st \in {"Q", " "}

LEMMA TurnsParts == Turns <=> Waiting /\ NewLast /\ HadTurn
BY DEF Turns, Waiting, NewLast, HadTurn

LEMMA OrderedIsQueueInOrder == Ordered <=> QueueInOrder
BY DEF Ordered, QueueInOrder, News

(* How a step changes a line of news: the new one goes into the queue, the *)
(* oldest one out of it.                                                   *)
LEMMA NewsEffect ==
  ASSUME Types, Places, AtLine, NamesApart, MaxQuiet = 0, [AnkhNext]_ankhVars
  PROVE  \/ Arrive
         \/ DOMAIN inf' = DOMAIN inf /\ \A i \in DOMAIN inf : inf'[i].kind \in News => inf'[i] = inf[i]
         \/ /\ MarkOldest /\ Rewritten(Oldest(L.kind), "-")
            /\ inf[Oldest(L.kind)].kind = L.kind /\ inf[Oldest(L.kind)].st = "Q"
            /\ \A i \in DOMAIN inf : inf[i].kind = L.kind /\ inf[i].st = "Q" => Oldest(L.kind) <= i
         \/ /\ Enqueue /\ Rewritten(at, "Q") /\ L.kind \in News /\ L.st = " "
            /\ apc' = "line" /\ at' = at + 1 /\ at \in DOMAIN inf
<1>1. CASE inf' = inf
  BY <1>1
<1>2. ASSUME NEW s \in InfStatus, Rewritten(at, s), Outcome(s), apc' = "line", at' = at + 1
      PROVE  \/ DOMAIN inf' = DOMAIN inf /\ \A i \in DOMAIN inf : inf'[i].kind \in News => inf'[i] = inf[i]
             \/ /\ Enqueue /\ Rewritten(at, "Q") /\ L.kind \in News /\ L.st = " "
                /\ apc' = "line" /\ at' = at + 1 /\ at \in DOMAIN inf
  <2>1. at \in DOMAIN inf
    BY <1>2 DEF Rewritten
  <2>2. CASE s = "Q" /\ Enqueue
    BY <1>2, <2>1, <2>2 DEF Enqueue, AtLine, InLine
  <2>3. CASE L.kind \notin News
    <3>1. inf'[at].kind \notin News /\ DOMAIN inf' = DOMAIN inf
      BY <1>2, <2>1, <2>3 DEF Rewritten, L
    <3> QED BY <1>2, <3>1 DEF Rewritten
  <2>4. ~(s = "Q" /\ Enqueue) => L.kind \in {"arc", "other", "net", "ndiff"}
    BY <1>2 DEF Outcome, AtLine, Unarc, ListMember, MarkArchive, MarkGone
  <2> QED BY <2>2, <2>3, <2>4 DEF News
<1> QED
  BY <1>1, <1>2, InfEffect

LEMMA NewLastStep ==
  ASSUME Types, Places, AtLine, NamesApart, NewLast, HadTurn, MaxQuiet = 0, [AnkhNext]_ankhVars
  PROVE  NewLast'
<1>0. DOMAIN inf' \subseteq Nat
  BY InfKeeps
<1> SUFFICES ASSUME errs'["unarc"] = 0, NEW i \in Nat, NEW j \in Nat, i < j,
                    i \in DOMAIN inf', j \in DOMAIN inf', inf'[i].kind = inf'[j].kind,
                    inf'[i].kind \in News, inf'[i].st = " "
             PROVE  inf'[j].st = " "
  BY <1>0 DEF NewLast
<1>1. errs["unarc"] = 0
  BY UnarcCounted
<1>a. DOMAIN inf = 1 .. Len(inf) /\ Len(inf) \in Nat
  BY InfKeeps
<1>2. CASE Arrive
  <2>1. /\ \A m \in DOMAIN inf : inf'[m] = inf[m]
        /\ \A m \in DOMAIN inf' : m = Len(inf) + 1 \/ m \in DOMAIN inf
    BY <1>2, ArriveFacts
  <2>2. DOMAIN inf' = 1 .. Len(inf) + 1 /\ inf'[Len(inf) + 1].st = " "
    BY <1>2, ArriveFacts
  <2>3. i \in DOMAIN inf
    <3>1. i \in 1 .. Len(inf) + 1 /\ j \in 1 .. Len(inf) + 1
      BY <2>2
    <3> QED BY <1>a, <3>1, BeforeFacts, Zenon
  <2>4. CASE j \in DOMAIN inf
    BY <1>1, <1>a, <2>1, <2>3, <2>4 DEF NewLast
  <2> QED BY <2>1, <2>2, <2>4
<1>3. CASE DOMAIN inf' = DOMAIN inf /\ \A m \in DOMAIN inf : inf'[m].kind \in News => inf'[m] = inf[m]
  <2>1. inf'[i] = inf[i] /\ inf'[j] = inf[j] /\ i \in DOMAIN inf /\ j \in DOMAIN inf
    BY <1>3
  <2>2. inf[i].kind = inf[j].kind /\ inf[i].kind \in News /\ inf[i].st = " "
    BY <2>1
  <2> QED BY <1>1, <1>a, <2>1, <2>2 DEF NewLast
<1>4. CASE Rewritten(Oldest(L.kind), "-") /\ inf[Oldest(L.kind)].st = "Q"
  <2>1. i # Oldest(L.kind) /\ i \in DOMAIN inf /\ j \in DOMAIN inf /\ inf'[i] = inf[i]
        /\ inf[j].kind = inf'[j].kind
    BY <1>4 DEF Rewritten
  <2>2. inf[j].st = " "
    BY <1>1, <1>a, <2>1 DEF NewLast
  <2> QED BY <1>4, <2>1, <2>2 DEF Rewritten
<1>5. CASE Enqueue /\ Rewritten(at, "Q") /\ at \in DOMAIN inf
  <2>1. i # at /\ i \in DOMAIN inf /\ j \in DOMAIN inf /\ inf'[i] = inf[i]
        /\ inf[j].kind = inf'[j].kind
    BY <1>5 DEF Rewritten
  <2>2. i \notin 1 .. at - 1
    BY <1>1, <1>a, <1>5, <2>1 DEF HadTurn, Enqueue, InLine
  <2>3. j # at
    <3>1. at \in DOMAIN inf
      BY <1>5
    <3> QED BY <1>a, <2>1, <2>2, <3>1, BehindFacts, Zenon
  <2>4. inf[j].st = " "
    BY <1>1, <1>a, <2>1 DEF NewLast
  <2> QED BY <1>5, <2>1, <2>3, <2>4 DEF Rewritten
<1> QED
  BY <1>2, <1>3, <1>4, <1>5, NewsEffect

LEMMA OrderedStep ==
  ASSUME Types, Places, AtLine, NamesApart, NewLast, Ordered, MaxQuiet = 0, [AnkhNext]_ankhVars
  PROVE  Ordered'
<1>0. DOMAIN inf' \subseteq Nat
  BY InfKeeps
<1> SUFFICES ASSUME errs'["unarc"] = 0, NEW i \in Nat, NEW j \in Nat, i < j,
                    i \in DOMAIN inf', j \in DOMAIN inf', inf'[i].kind = inf'[j].kind,
                    inf'[i].kind \in News, inf'[i].st = "Q"
             PROVE  inf'[j].st \in {"Q", " "}
  BY <1>0 DEF Ordered
<1>1. errs["unarc"] = 0
  BY UnarcCounted
<1>a. DOMAIN inf = 1 .. Len(inf) /\ Len(inf) \in Nat
  BY InfKeeps
<1>2. CASE Arrive
  BY <1>1, <1>a, <1>2, ArriveFacts DEF Ordered
<1>3. CASE DOMAIN inf' = DOMAIN inf /\ \A m \in DOMAIN inf : inf'[m].kind \in News => inf'[m] = inf[m]
  <2>1. inf'[i] = inf[i] /\ inf'[j] = inf[j] /\ i \in DOMAIN inf /\ j \in DOMAIN inf
    BY <1>3
  <2>2. inf[i].kind = inf[j].kind /\ inf[i].kind \in News /\ inf[i].st = "Q"
    BY <2>1
  <2> QED BY <1>1, <1>a, <2>1, <2>2 DEF Ordered
<1>4. CASE /\ Rewritten(Oldest(L.kind), "-") /\ inf[Oldest(L.kind)].kind = L.kind
           /\ inf[Oldest(L.kind)].st = "Q"
           /\ \A m \in DOMAIN inf : inf[m].kind = L.kind /\ inf[m].st = "Q" => Oldest(L.kind) <= m
  <2>1. i # Oldest(L.kind) /\ i \in DOMAIN inf /\ j \in DOMAIN inf /\ inf'[i] = inf[i]
        /\ inf[j].kind = inf'[j].kind
    BY <1>4 DEF Rewritten
  <2>2. inf[j].st \in {"Q", " "}
    BY <1>1, <1>a, <2>1 DEF Ordered
  <2>3. j # Oldest(L.kind)
    BY <1>1, <1>a, <1>4, <2>1
  <2> QED BY <1>4, <2>1, <2>2, <2>3 DEF Rewritten
<1>5. CASE Rewritten(at, "Q") /\ at \in DOMAIN inf /\ L.st = " "
  <2>1. i \in DOMAIN inf /\ j \in DOMAIN inf /\ inf[i].kind = inf'[i].kind
        /\ inf[j].kind = inf'[j].kind
    BY <1>5 DEF Rewritten
  <2>2. CASE i = at
    <3>1. inf[i].st = " "
      BY <1>5, <2>2 DEF L
    <3>2. inf[j].st = " "
      BY <1>1, <1>a, <2>1, <3>1 DEF NewLast
    <3>3. j # at
      BY <1>1, <1>a, <2>1, <2>2
    <3>4. inf'[j] = inf[j]
      BY <1>5, <2>1, <3>3 DEF Rewritten
    <3> QED BY <3>2, <3>4
  <2>3. CASE i # at
    <3>1. inf[j].st \in {"Q", " "}
      BY <1>1, <1>a, <1>5, <2>1, <2>3 DEF Ordered, Rewritten
    <3> QED BY <1>5, <2>1, <3>1 DEF Rewritten
  <2> QED BY <2>2, <2>3
<1> QED
  BY <1>2, <1>3, <1>4, <1>5, NewsEffect

LEMMA HadTurnStep ==
  ASSUME Types, Places, AtLine, NamesApart, Waiting, HadTurn, MaxQuiet = 0,
         [AnkhNext]_ankhVars
  PROVE  HadTurn'
<1> DEFINE Had(i) == inf[i].kind \in News => inf[i].st # " "
<1> SUFFICES ASSUME errs'["unarc"] = 0, apc' \in {"line"} \cup InLine,
                    NEW i \in 1 .. at' - 1, i \in DOMAIN inf'
             PROVE  Had(i)'
  BY DEF HadTurn
<1>1. errs["unarc"] = 0 /\ ~Happens("unarc", MaxUnarcErrors) /\ at \in Nat
  BY UnarcCounted DEF Types
<1>2. CASE apc \in {"line"} \cup InLine /\ at' = at
  <2>1. i \in 1 .. at - 1 /\ i \in DOMAIN inf
    BY <1>2, InfKeeps, AtWorkFacts DEF Places, Types
  <2>2. Had(i)
    BY <1>1, <1>2, <2>1 DEF HadTurn
  <2>3. CASE DOMAIN inf' = DOMAIN inf /\ \A m \in DOMAIN inf : inf'[m].kind \in News => inf'[m] = inf[m]
    BY <2>1, <2>2, <2>3
  <2>4. CASE Rewritten(Oldest(L.kind), "-")
    BY <2>1, <2>2, <2>4 DEF Rewritten
  <2>5. ~Arrive
    BY <1>2 DEF Arrive, InLine
  <2>6. ~(at' = at + 1)
    BY <1>1, <1>2
  <2> QED BY <2>3, <2>4, <2>5, <2>6, NewsEffect
<1>3. CASE apc \in {"line"} \cup InLine /\ apc' = "line" /\ at' = at + 1 /\ at \in DOMAIN inf
  <2>1. i = at \/ i \in 1 .. at - 1
    BY <1>1, <1>3
  <2>2. i \in DOMAIN inf
    BY <1>3, <2>1, InfKeeps
  <2>3. i \in 1 .. at - 1 => Had(i)
    BY <1>1, <1>3, <2>2 DEF HadTurn
  <2>4. CASE Enqueue /\ Rewritten(at, "Q")
    BY <2>1, <2>2, <2>3, <2>4 DEF Rewritten
  <2>5. CASE DOMAIN inf' = DOMAIN inf /\ \A m \in DOMAIN inf : inf'[m].kind \in News => inf'[m] = inf[m]
    <3>1. CASE i \in 1 .. at - 1
      BY <2>2, <2>3, <2>5, <3>1
    <3>2. CASE i = at
      <4>1. CASE ReadLine
        <5>1. CASE Settled(L)
          BY <1>1, <2>2, <2>5, <3>2, <4>1, <5>1 DEF Settled, Waiting, L, News
        <5>2. CASE ~Settled(L)
          <6>1. L.kind \in {"arc", "other"}
            <7>1. L.kind \in Kinds
              BY <1>3, AtWorkFacts, <4>1 DEF ReadLine, InfLines
            <7> QED BY <1>3, <4>1, <5>2, <7>1 DEF ReadLine, Kinds
          <6> QED BY <2>2, <2>5, <3>2, <6>1, InfKeeps DEF L, News
        <5> QED BY <5>1, <5>2
      <4>2. CASE Unarc \/ ListMember \/ MarkArchive \/ MarkGone \/ ProcNet
        <5>1. L.kind \in {"arc", "net", "ndiff"}
          BY <4>2 DEF Unarc, ListMember, MarkArchive, MarkGone, ProcNet, AtLine
        <5> QED BY <2>2, <2>5, <3>2, <5>1, InfKeeps DEF L, News
      <4>3. CASE RemoveOldest
        BY <1>1, <1>3, <4>3 DEF RemoveOldest
      <4>4. CASE Enqueue
        <5>1. Rewritten(at, "Q")
          BY <4>4, <1>3, RewriteStep DEF Enqueue, Rewritten, InfStatus
        <5> QED BY <2>4, <4>4, <5>1
      <4>5. CASE Ankhmail \/ UNCHANGED ankhVars
        <5>1. ~Ankhmail
          BY <1>3 DEF Ankhmail, InLine
        <5>2. at' # at
          BY <1>1, <1>3
        <5> QED BY <4>5, <5>1, <5>2 DEF ankhVars
      <4> QED
        BY <1>3, <4>1, <4>2, <4>3, <4>4, <4>5 DEF AnkhNext, AnkhStep, Arrive, EndInfiles,
           ListArchive, MarkOldest, RemoveNdiff, OpenPkt, DoPkt, UnlinkPkt, MarkPkt, Batch,
           ProcArchive, PassLine, EndPackets, AnkhCrash, InLine
    <3> QED BY <2>1, <3>1, <3>2
  <2>6. ~Arrive /\ ~MarkOldest
    BY <1>3 DEF Arrive, MarkOldest, InLine
  <2> QED BY <2>4, <2>5, <2>6, NewsEffect
<1>4. CASE at' = 1
  <2>1. 1 .. at' - 1 = {}
    BY <1>4
  <2> QED BY <2>1, Zenon
<1> QED
  <2>1. CASE Ankhmail \/ EndInfiles \/ EndPackets \/ AnkhCrash
    BY <1>4, <2>1 DEF Ankhmail, EndInfiles, EndPackets, AnkhCrash
  <2>2. CASE ReadLine \/ Unarc \/ ListMember \/ ListArchive \/ MarkArchive
    BY <1>2, <1>3, <2>2, AtWorkFacts DEF ReadLine, Unarc, ListMember, ListArchive, MarkArchive,
       Rewrite, Skip, InLine
  <2>3. CASE RemoveOldest \/ MarkOldest \/ Enqueue \/ RemoveNdiff \/ MarkGone \/ ProcNet
    BY <1>2, <1>3, <2>3, AtWorkFacts DEF RemoveOldest, MarkOldest, Enqueue, RemoveNdiff,
       MarkGone, ProcNet, PackOne, Rewrite, Skip, InLine
  <2>4. CASE Arrive
    BY <2>4 DEF Arrive, InLine
  <2>5. CASE OpenPkt \/ DoPkt \/ UnlinkPkt \/ MarkPkt \/ Batch \/ ProcArchive \/ PassLine
    <3>1. apc' \in {"pac", "unlink", "mark"}
      BY <2>5 DEF OpenPkt, DoPkt, PackOne, UnlinkPkt, MarkPkt, Batch, ProcArchive, PassLine
    <3> QED BY <3>1 DEF InLine
  <2>6. CASE UNCHANGED ankhVars
    BY <1>2, <2>6 DEF ankhVars
  <2> QED
    BY <2>1, <2>2, <2>3, <2>4, <2>5, <2>6 DEF AnkhNext, AnkhStep

LEMMA WaitingStep ==
  ASSUME Types, Places, AtLine, NamesApart, Waiting, MaxQuiet = 0, [AnkhNext]_ankhVars
  PROVE  Waiting'
<1> SUFFICES ASSUME NEW i \in DOMAIN inf', inf'[i].kind = "fnews", inf'[i].st = " "
             PROVE  inf'[i].name \in files'
  BY DEF Waiting
<1>1. CASE Arrive
  <2>1. i = Len(inf) + 1 => inf'[i].name \in files'
    BY <1>1, ArriveFacts
  <2>2. i \in DOMAIN inf => inf'[i] = inf[i] /\ files \subseteq files'
    BY <1>1, ArriveFacts
  <2> QED BY <1>1, <2>1, <2>2, ArriveFacts DEF Waiting
<1>2. CASE ~Arrive
  <2>1. i \in DOMAIN inf /\ inf[i] = inf'[i]
    <3>1. CASE DOMAIN inf' = DOMAIN inf /\ \A m \in DOMAIN inf : inf'[m].kind \in News => inf'[m] = inf[m]
      BY <3>1 DEF News
    <3>2. CASE Rewritten(Oldest(L.kind), "-") \/ Rewritten(at, "Q")
      BY <3>2 DEF Rewritten
    <3> QED BY <1>2, <3>1, <3>2, NewsEffect
  <2> DEFINE f == inf[i].name
  <2>2. f \in files /\ inf[i].kind = "fnews"
    BY <2>1 DEF Waiting
  <2>3. f \notin Packets
    <3>1. inf[i] \in InfLines
      BY <2>1, SeqFacts DEF Types
    <3> QED BY <3>1, AnkhAssumption DEF InfLines
  <2>4. f \notin DOMAIN Members
    BY <2>1, <2>2 DEF NamesApart
  <2>5. \A j \in DOMAIN inf : j # i => inf[j].name # f
    BY <2>1 DEF NamesApart
  <2>6. \A p \in Filable : ~(Filing(p) /\ f \notin files')
    <3>1. apc = "net" => L.name # f
      BY <2>2, <2>5, AtWorkFacts DEF AtLine, InLine, L
    <3> QED BY <2>2, <2>3, <3>1 DEF Filing
  <2>7. ~(Unqueueing /\ f \notin files')
    <3>1. Unqueueing => Oldest(L.kind) # i
      BY <2>1 DEF Unqueueing
    <3> QED BY <2>2, <2>5, <3>1 DEF Unqueueing
  <2>8. ~(RemoveNdiff /\ f \notin files')
    <3>1. RemoveNdiff => L.name # f
      BY <2>2, <2>5, AtWorkFacts DEF RemoveNdiff, AtLine, InLine, L
    <3> QED BY <2>2, <3>1 DEF RemoveNdiff
  <2>9. ~(UnlinkPkt /\ f \notin files')
    <3>1. UnlinkPkt => PL.name \in Packets
      BY AtWorkFacts, ArchivesStay DEF UnlinkPkt, AtLine, PL, IsArchive
    <3> QED BY <2>2, <2>3, <3>1 DEF UnlinkPkt
  <2>10. ~(ProcArchive /\ files' = files \ {PL.name} /\ f \notin files')
    <3>1. ProcArchive => PL.name \in DOMAIN Members
      BY AtWorkFacts DEF ProcArchive, NamesApart, PL
    <3> QED BY <2>2, <2>4, <3>1
  <2>11. \A m : files' = files \cup m => f \in files'
    BY <2>2
  <2>12. files' = files => f \in files'
    BY <2>2
  <2>13. f \in files'
    BY <1>2, <2>6, <2>7, <2>8, <2>9, <2>10, <2>11, <2>12, FilesEffect
  <2> QED BY <2>1, <2>13
<1> QED
  BY <1>1, <1>2

-----------------------------------------------------------------------------
(* Nothing is filed twice.                                                 *)

\* The parts of Once.
ArcStatus == Calm => \A i \in DOMAIN inf : inf[i].kind = "arc" => inf[i].st \in {" ", "."}
Untouched == Calm => (apc = "arc" => L.st = " ")
FiledOneTime == Calm => \A p \in Filable :
  /\ filed[p] <= 1
  /\ filed[p] > 0 => p \notin files
  /\ Coming(p) => filed[p] = 0 /\ p \notin files

LEMMA OnceParts == Once <=> ArcStatus /\ Untouched /\ FiledOneTime
BY DEF Once, ArcStatus, Untouched, FiledOneTime

LEMMA CalmBefore ==
  ASSUME Types, Places, AtLine, NamesApart, MaxQuiet = 0, [AnkhNext]_ankhVars, Calm'
  PROVE  Calm /\ ~AnkhCrash /\ ~Happens("unarc", MaxUnarcErrors)
BY UnarcCounted DEF Calm

LEMMA ArcStatusStep ==
  ASSUME Types, Places, AtLine, NamesApart, ArcStatus, Untouched, MaxQuiet = 0,
         [AnkhNext]_ankhVars
  PROVE  ArcStatus' /\ Untouched'
<1> SUFFICES ASSUME Calm' PROVE ArcStatus' /\ Untouched'
  BY DEF ArcStatus, Untouched
<1>1. Calm /\ ~AnkhCrash /\ ~Happens("unarc", MaxUnarcErrors)
  BY CalmBefore
<1>2. ASSUME NEW i \in DOMAIN inf', inf'[i].kind = "arc" PROVE inf'[i].st \in {" ", "."}
  <2>1. CASE Arrive
    <3>1. i = Len(inf) + 1 => inf'[i].st = " "
      BY <2>1, ArriveFacts
    <3>2. i \in DOMAIN inf => inf'[i] = inf[i]
      BY <2>1, ArriveFacts
    <3>3. i = Len(inf) + 1 \/ i \in DOMAIN inf
      BY <1>2, <2>1, ArriveFacts
    <3>4. CASE i \in DOMAIN inf
      BY <1>1, <1>2, <3>2, <3>4 DEF ArcStatus
    <3> QED BY <3>1, <3>3, <3>4
  <2>2. CASE inf' = inf
    BY <1>1, <1>2, <2>2 DEF ArcStatus
  <2>3. CASE Rewritten(Oldest(L.kind), "-") /\ inf[Oldest(L.kind)].kind = L.kind /\ L.kind \in News
    BY <1>1, <1>2, <2>3 DEF ArcStatus, Rewritten, News
  <2>4. ASSUME NEW s \in InfStatus, Rewritten(at, s), Outcome(s)
        PROVE  inf'[i].st \in {" ", "."}
    <3>1. i \in DOMAIN inf /\ inf[i].kind = "arc"
      BY <1>2, <2>4 DEF Rewritten
    <3>2. CASE i # at
      BY <1>1, <2>4, <3>1, <3>2 DEF ArcStatus, Rewritten
    <3>3. CASE i = at
      <4>1. L.kind = "arc"
        BY <3>1, <3>3 DEF L
      <4>2. s \in {" ", "."}
        BY <1>1, <2>4, <4>1 DEF Outcome, Enqueue, MarkGone, AtLine, News
      <4> QED BY <2>4, <3>3, <4>2 DEF Rewritten
    <3> QED BY <3>2, <3>3
  <2> QED BY <2>1, <2>2, <2>3, <2>4, InfEffect DEF MarkOldest, AtLine
<1>3. ASSUME apc' = "arc" PROVE L'.st = " "
  <2>1. CASE ReadLine
    <3>1. L.kind \in Kinds /\ at \in DOMAIN inf
      BY <2>1, AtWorkFacts DEF ReadLine, InfLines
    <3>2. ~Settled(L) /\ L.kind = "arc" /\ UNCHANGED <<inf, at>>
      BY <1>3, <2>1, <3>1 DEF ReadLine, Skip, Rewrite
    <3>3. L.st = " "
      BY <1>1, <3>1, <3>2 DEF ArcStatus, Settled, L
    <3> QED BY <3>2, <3>3 DEF L
  <2>2. CASE UNCHANGED ankhVars
    BY <1>1, <1>3, <2>2 DEF Untouched, ankhVars, L
  <2> QED
    BY <1>3, <2>1, <2>2 DEF AnkhNext, AnkhStep, Arrive, Ankhmail, EndInfiles, Unarc, ListMember,
       ListArchive, MarkArchive, RemoveOldest, MarkOldest, Enqueue, RemoveNdiff, MarkGone,
       ProcNet, PackOne, OpenPkt, DoPkt, UnlinkPkt, MarkPkt, Batch, ProcArchive, PassLine,
       EndPackets, AnkhCrash, Rewrite, Skip
<1> QED
  BY <1>2, <1>3 DEF ArcStatus, Untouched

(* An archive is listed and marked before anything else is done.           *)
LEMMA ListedNext ==
  ASSUME Types, Places, AtLine, NamesApart, MaxQuiet = 0, [AnkhNext]_ankhVars, Calm',
         apc \in {"list", "listed"}
  PROVE  \/ inf' = inf /\ apc' \in {"list", "listed"} /\ at' = at
         \/ MarkArchive
<1>1. ~AnkhCrash /\ ~Happens("unarc", MaxUnarcErrors)
  BY CalmBefore
<1> QED
  BY <1>1 DEF AnkhNext, AnkhStep, Arrive, Ankhmail, ReadLine, EndInfiles, Unarc, ListMember,
     ListArchive, RemoveOldest, MarkOldest, Enqueue, RemoveNdiff, MarkGone, ProcNet, OpenPkt,
     DoPkt, UnlinkPkt, MarkPkt, Batch, ProcArchive, PassLine, EndPackets, ankhVars

(* A packet that is to come was to come before.                            *)
LEMMA ComingBefore ==
  ASSUME Types, Places, AtLine, NamesApart, ArcStatus, MaxQuiet = 0, [AnkhNext]_ankhVars, Calm',
         NEW p, Coming(p)'
  PROVE  Coming(p)
<1>1. Calm /\ ~AnkhCrash /\ ~Happens("unarc", MaxUnarcErrors)
  BY CalmBefore
<1>2. CASE Arrive
  <2>1. \A i \in DOMAIN arriving' : i + 1 \in DOMAIN arriving /\ arriving'[i] = arriving[i + 1]
    BY <1>2, ArriveFacts
  <2>2. \A i \in DOMAIN inf' : i = Len(inf) + 1 \/ (i \in DOMAIN inf /\ inf'[i] = inf[i])
    BY <1>2, ArriveFacts
  <2>3. /\ inf'[Len(inf) + 1].kind = arriving[1].kind /\ inf'[Len(inf) + 1].name = arriving[1].name
        /\ 1 \in DOMAIN arriving
    BY <1>2, ArriveFacts
  <2>4. \A i : ~Unpacked(i)
    BY <1>2, ArriveFacts DEF Unpacked
  <2>5. CASE \E i \in DOMAIN arriving' : arriving'[i].name = p
    BY <2>1, <2>5 DEF Coming
  <2>6. CASE \E i \in DOMAIN arriving' :
               arriving'[i].kind = "arc" /\ p \in Range_(Members[arriving'[i].name])
    BY <2>1, <2>6 DEF Coming
  <2>7. ASSUME NEW i \in DOMAIN inf', inf'[i].kind = "arc", inf'[i].st = " ",
               p \in Range_(Members[inf'[i].name])
        PROVE  Coming(p)
    <3>1. CASE i = Len(inf) + 1
      BY <2>3, <2>7, <3>1 DEF Coming
    <3>2. CASE i \in DOMAIN inf /\ inf'[i] = inf[i]
      BY <2>4, <2>7, <3>2 DEF Coming
    <3> QED BY <2>2, <3>1, <3>2
  <2> QED BY <2>5, <2>6, <2>7 DEF Coming
<1>3. CASE arriving' = arriving
  <2>0. ~Arrive
    BY <1>3, TailDiffers DEF Arrive, Types
  <2>1. ASSUME NEW i \in DOMAIN inf', inf'[i].kind = "arc", inf'[i].st = " ", ~Unpacked(i)',
               p \in Range_(Members[inf'[i].name])
        PROVE  Coming(p)
    <3>1. i \in DOMAIN inf /\ inf[i].kind = "arc" /\ inf[i].name = inf'[i].name
      <4>1. i \in DOMAIN inf
        BY <2>0, <2>1, InfEffect DEF Rewritten
      <4> QED BY <2>1, <4>1, InfKeeps
    <3>2. inf[i].st = " "
      <4>1. CASE inf' = inf
        BY <2>1, <4>1
      <4>2. CASE Rewritten(Oldest(L.kind), "-")
        BY <2>1, <4>2 DEF Rewritten
      <4>3. ASSUME NEW s \in InfStatus, Rewritten(at, s), Outcome(s) PROVE inf[i].st = " "
        <5>1. CASE i # at
          BY <2>1, <4>3, <5>1, <3>1 DEF Rewritten
        <5>2. CASE i = at
          <6>1. s = " "
            BY <2>1, <4>3, <5>2 DEF Rewritten
          <6>2. ~Settled(L) /\ L.kind = "arc"
            BY <4>3, <6>1 DEF Outcome
          <6> QED BY <1>1, <3>1, <5>2, <6>2 DEF ArcStatus, Settled, L
        <5> QED BY <5>1, <5>2
      <4> QED BY <2>0, <4>1, <4>2, <4>3, InfEffect
    <3>3. ~Unpacked(i)
      <4> SUFFICES ASSUME Unpacked(i) PROVE FALSE
        OBVIOUS
      <4>1. i = at /\ apc \in {"list", "listed"}
        BY DEF Unpacked
      <4>2. ~(apc' \in {"list", "listed"} /\ at' = at)
        BY <2>1, <4>1 DEF Unpacked
      <4>3. MarkArchive
        BY <4>1, <4>2, ListedNext
      <4>4. Rewrite(".") /\ at \in DOMAIN inf
        BY <3>1, <4>1, <4>3 DEF MarkArchive
      <4>5. inf'[at].st = "."
        BY <4>4, RewriteStep DEF InfStatus
      <4> QED BY <2>1, <4>1, <4>5
    <3> QED BY <2>1, <3>1, <3>2, <3>3 DEF Coming
  <2>2. CASE \/ \E i \in DOMAIN arriving' : arriving'[i].name = p
             \/ \E i \in DOMAIN arriving' :
                  arriving'[i].kind = "arc" /\ p \in Range_(Members[arriving'[i].name])
    BY <1>3, <2>2 DEF Coming
  <2> QED BY <2>1, <2>2 DEF Coming
<1> QED
  BY <1>2, <1>3, InfEffect

LEMMA OneTimeStep ==
  ASSUME Types, Places, AtLine, NamesApart, ArcStatus, Untouched, FiledOneTime, MaxQuiet = 0,
         [AnkhNext]_ankhVars
  PROVE  FiledOneTime'
<1> SUFFICES ASSUME Calm', NEW p \in Filable
             PROVE  /\ filed'[p] <= 1
                    /\ filed'[p] > 0 => p \notin files'
                    /\ Coming(p)' => filed'[p] = 0 /\ p \notin files'
  BY DEF FiledOneTime
<1>1. Calm /\ ~AnkhCrash /\ ~Happens("unarc", MaxUnarcErrors)
  BY CalmBefore
<1>2. /\ filed[p] <= 1 /\ filed[p] \in Nat
      /\ filed[p] > 0 => p \notin files
      /\ Coming(p)' => Coming(p)
      /\ Coming(p) => filed[p] = 0 /\ p \notin files
  BY <1>1, ComingBefore DEF FiledOneTime, Types
<1>3. ASSUME NEW q \in Filable, Filing(q)
      PROVE  /\ filed'[p] <= 1
             /\ filed'[p] > 0 => p \notin files'
             /\ Coming(p)' => filed'[p] = 0 /\ p \notin files'
  <2>1. q \in files
    BY <1>3 DEF Filing, AtLine, DoPkt, Batch
  <2>2. filed' = [filed EXCEPT ![q] = @ + 1] /\ files' = files \ {q} /\ filed \in [Filable -> Nat]
    BY <1>3 DEF Filing, Types
  <2>3. CASE p = q
    <3>1. filed[p] = 0 /\ ~Coming(p)
      BY <1>2, <2>1, <2>3
    <3>2. filed'[p] = filed[p] + 1
      BY <2>2, <2>3
    <3> QED BY <1>2, <2>2, <2>3, <3>1, <3>2
  <2>4. CASE p # q
    <3>1. filed'[p] = filed[p] /\ (p \in files' => p \in files)
      BY <2>2, <2>4
    <3> QED BY <1>2, <3>1
  <2> QED BY <2>3, <2>4
<1>4. ASSUME filed' = filed, p \in files' => p \in files
      PROVE  /\ filed'[p] <= 1
             /\ filed'[p] > 0 => p \notin files'
             /\ Coming(p)' => filed'[p] = 0 /\ p \notin files'
  BY <1>2, <1>4
<1>5. ASSUME filed' = filed, Coming(p), ~Coming(p)'
      PROVE  /\ filed'[p] <= 1
             /\ filed'[p] > 0 => p \notin files'
             /\ Coming(p)' => filed'[p] = 0 /\ p \notin files'
  BY <1>2, <1>5
<1>6. CASE Arrive
  <2>1. filed' = filed /\ files' = files \cup {arriving[1].name} /\ 1 \in DOMAIN arriving
        /\ arriving \in Seq([kind : Kinds, name : AllNames])
    BY <1>6, ArriveFacts DEF Types
  <2>2. CASE p # arriving[1].name
    BY <1>4, <2>1, <2>2
  <2>3. CASE p = arriving[1].name
    <3>1. Coming(p)
      BY <2>1, <2>3 DEF Coming
    <3>2. p \notin Packets
      <4>1. arriving[1] \in [kind : Kinds, name : AllNames]
        BY <2>1, SeqFacts
      <4> QED BY <2>3, <4>1, AnkhAssumption
    <3>3. \A a \in DOMAIN Members : p \notin Range_(Members[a])
      BY <3>2, MembersFacts
    <3>4. \A i \in DOMAIN arriving' : arriving'[i].name # p
      <4>1. \A i \in DOMAIN arriving' : i + 1 \in DOMAIN arriving /\ i + 1 # 1
                                         /\ arriving'[i] = arriving[i + 1]
        BY <1>6, ArriveFacts
      <4>2. \A j \in DOMAIN arriving : j # 1 => arriving[j].name # arriving[1].name
        BY <2>1 DEF NamesApart
      <4> QED BY <2>3, <4>1, <4>2
    <3>5. NamesApart'
      BY NamesStep
    <3>6. ~Coming(p)'
      BY <3>3, <3>4, <3>5 DEF Coming, NamesApart
    <3> QED BY <1>5, <2>1, <3>1, <3>6
  <2> QED BY <2>2, <2>3
<1>7. CASE Unarc /\ apc' = "list" /\ files' = files \cup Range_(Members[L.name])
  <2>1. filed' = filed /\ arriving' = arriving /\ inf' = inf /\ at' = at /\ apc = "arc"
    BY <1>1, <1>7 DEF Unarc
  <2>2. CASE p \notin Range_(Members[L.name])
    BY <1>4, <1>7, <2>1, <2>2
  <2>3. CASE p \in Range_(Members[L.name])
    <3>1. at \in DOMAIN inf /\ L.kind = "arc" /\ L.name \in DOMAIN Members /\ L.st = " "
      BY <1>1, <2>1, ArcFacts DEF Untouched
    <3>2. ~Unpacked(at)
      BY <2>1 DEF Unpacked
    <3>3. Coming(p)
      BY <2>3, <3>1, <3>2 DEF Coming, L
    <3>4. \A a \in DOMAIN Members : a # L.name => p \notin Range_(Members[a])
      BY <2>3, <3>1, MembersApart
    <3>5. \A i \in DOMAIN arriving' : /\ arriving'[i].name # p
                                      /\ arriving'[i].name # L.name
      <4>1. p \in Packets
        BY <2>3, <3>1, MembersFacts
      <4>2. \A i \in DOMAIN arriving : arriving[i].name \in AllNames
        <5>1. \A i \in DOMAIN arriving : arriving[i] \in [kind : Kinds, name : AllNames]
          BY SeqFacts DEF Types
        <5> QED BY <5>1
      <4>3. \A i \in DOMAIN arriving : arriving[i].name # L.name
        BY <3>1 DEF NamesApart, L
      <4> QED BY <2>1, <4>1, <4>2, <4>3, AnkhAssumption
    <3>6. \A i \in DOMAIN inf : i # at => inf[i].name # L.name
      BY <3>1 DEF NamesApart, L
    <3>7. Unpacked(at)'
      BY <1>7, <2>1 DEF Unpacked
    <3>8. ~Coming(p)'
      <4>1. \A i \in DOMAIN arriving' :
              arriving'[i].kind = "arc" => p \notin Range_(Members[arriving'[i].name])
        BY <2>1, <3>4, <3>5 DEF NamesApart
      <4>2. \A i \in DOMAIN inf' : inf'[i].kind = "arc" /\ ~Unpacked(i)' =>
              p \notin Range_(Members[inf'[i].name])
        BY <1>7, <2>1, <3>4, <3>6 DEF NamesApart, Unpacked
      <4> QED BY <3>5, <4>1, <4>2 DEF Coming
    <3> QED BY <1>5, <2>1, <3>3, <3>8
  <2> QED BY <2>2, <2>3
<1>8. CASE filed' = filed /\ ~Arrive /\ ~(Unarc /\ apc' = "list")
  <2>1. p \in files' => p \in files
    BY <1>8, FilesEffect, FiledSame DEF Unqueueing, RemoveNdiff, UnlinkPkt, Filing
  <2> QED BY <1>4, <1>8, <2>1
<1>9. CASE filed' # filed
  BY <1>3, <1>9, FiledEffect
<1>10. CASE filed' = filed /\ Unarc /\ apc' = "list"
  <2>1. files' = files \cup Range_(Members[L.name])
    BY <1>1, <1>10 DEF Unarc, Range_
  <2> QED BY <1>7, <1>10, <2>1
<1> QED
  BY <1>6, <1>8, <1>9, <1>10

-----------------------------------------------------------------------------
(* The invariant.                                                          *)

LEMMA AnkhInvInit == AnkhInit => AnkhInv
<1> SUFFICES ASSUME AnkhInit PROVE AnkhInv
  OBVIOUS
<1>1. Types /\ NamesApart
  BY TypesInit, NamesInit
<1>2. apc = "idle" /\ at = 1 /\ inf = Queued /\ packets = <<>>
  BY DEF AnkhInit
<1>3. Len(inf) \in Nat
  BY <1>1, SeqFacts DEF Types
<1>4. Places
  BY <1>2, <1>3 DEF Places, InLine
<1>5. AtLine
  BY <1>2 DEF AtLine, InLine, News
<1>6. Complete /\ Listing /\ GroupFiled
  BY <1>2 DEF Complete, Listing, GroupFiled
<1>7. \A i \in DOMAIN inf : inf[i].st = "Q" /\ inf[i].kind \in {"news", "fnews"}
  <2>1. Queued \in Seq([st : {"Q"}, kind : {"news", "fnews"}, name : AllNames])
    BY AnkhAssumption
  <2>2. \A i \in DOMAIN inf : inf[i] \in [st : {"Q"}, kind : {"news", "fnews"}, name : AllNames]
    BY <1>2, <2>1, SeqFacts
  <2> QED BY <2>2
<1>8. RemovedIsFiled /\ ArchiveHeld
  BY <1>2, <1>7 DEF RemovedIsFiled, ArchiveHeld
<1>9. Turns
  BY <1>2, <1>7 DEF Turns, InLine
<1>10. QueueInOrder
  BY <1>7 DEF QueueInOrder
<1>11. ArcStatus /\ Untouched
  BY <1>2, <1>7 DEF ArcStatus, Untouched
<1>12. FiledOneTime
  <2> SUFFICES ASSUME NEW p \in Filable, Coming(p) PROVE p \notin files
    BY DEF FiledOneTime, AnkhInit
  <2>1. files = {Queued[i].name : i \in DOMAIN Queued} /\ arriving \in Arrivals
    BY DEF AnkhInit
  <2>2. CASE \E i \in DOMAIN arriving : arriving[i].name = p
    <3>1. \A i \in DOMAIN arriving : \A j \in DOMAIN Queued : arriving[i].name # Queued[j].name
      BY <2>1, AnkhAssumption
    <3> QED BY <2>1, <2>2, <3>1
  <2>3. CASE p \in Packets
    <3>1. \A i \in DOMAIN inf : inf[i].name \in AllNames
      <4>1. \A i \in DOMAIN inf : inf[i] \in InfLines
        BY <1>1, SeqFacts DEF Types
      <4> QED BY <4>1 DEF InfLines
    <3> QED BY <1>2, <2>1, <2>3, <3>1, AnkhAssumption
  <2>4. \A i \in DOMAIN arriving : arriving[i].kind = "arc" => Range_(Members[arriving[i].name]) \subseteq Packets
    BY <1>1, MembersFacts DEF NamesApart
  <2> QED BY <1>7, <2>2, <2>3, <2>4 DEF Coming
<1>13. Once
  BY <1>11, <1>12, OnceParts
<1> QED
  BY <1>1, <1>4, <1>5, <1>6, <1>8, <1>9, <1>10, <1>13 DEF AnkhInv

LEMMA AnkhInvStep ==
  ASSUME MaxQuiet = 0, AnkhInv, [AnkhNext]_ankhVars
  PROVE  AnkhInv'
<1>1. /\ Types /\ Places /\ AtLine /\ NamesApart /\ Complete /\ Listing /\ GroupFiled
      /\ RemovedIsFiled /\ ArchiveHeld /\ Turns /\ QueueInOrder /\ Once
  BY DEF AnkhInv
<1>2. Types'
  BY <1>1, TypesStep
<1>3. Places'
  BY <1>1, PlacesStep
<1>4. AtLine'
  BY <1>1, AtLineStep
<1>5. NamesApart'
  BY <1>1, NamesStep
<1>6. Complete' /\ Listing'
  BY <1>1, CompleteStep, ListingStep
<1>7. GroupFiled'
  BY <1>1, GroupStep
<1>8. RemovedIsFiled'
  BY <1>1, RemovedStep
<1>9. ArchiveHeld'
  BY <1>1, ArchiveStep
<1>10. Waiting /\ NewLast /\ HadTurn /\ Ordered
  BY <1>1, TurnsParts, OrderedIsQueueInOrder
<1>11. Waiting'
  BY <1>1, <1>10, WaitingStep
<1>12. NewLast'
  BY <1>1, <1>10, NewLastStep
<1>13. HadTurn'
  BY <1>1, <1>10, HadTurnStep
<1>14. Ordered'
  BY <1>1, <1>10, OrderedStep
<1>15. Turns'
  BY <1>11, <1>12, <1>13 DEF Turns, Waiting, NewLast, HadTurn
<1>16. QueueInOrder'
  BY <1>14 DEF QueueInOrder, Ordered, News
<1>17. ArcStatus /\ Untouched /\ FiledOneTime
  BY <1>1, OnceParts
<1>18. ArcStatus' /\ Untouched'
  BY <1>1, <1>17, ArcStatusStep
<1>19. FiledOneTime'
  BY <1>1, <1>17, OneTimeStep
<1>20. Once'
  BY <1>18, <1>19 DEF Once, ArcStatus, Untouched, FiledOneTime
<1> QED
  BY <1>2, <1>3, <1>4, <1>5, <1>6, <1>7, <1>8, <1>9, <1>15, <1>16, <1>20 DEF AnkhInv

LEMMA MaxFacts ==
  ASSUME NEW a \in Nat, NEW b \in Nat
  PROVE  Max({a, b}) \in Nat /\ a <= Max({a, b}) /\ b <= Max({a, b})
<1>1. \E x \in {a, b} : \A y \in {a, b} : x >= y
  OBVIOUS
<1>2. Max({a, b}) \in {a, b} /\ \A y \in {a, b} : Max({a, b}) >= y
  BY <1>1 DEF Max
<1> QED
  BY <1>2

LEMMA TypesAreOK ==
  ASSUME Types, Places
  PROVE  AnkhTypeOK
<1>1. \A i \in DOMAIN inf : inf[i].st \in InfStatus /\ inf[i].kind \in Kinds
  <2>1. \A i \in DOMAIN inf : inf[i] \in InfLines
    BY SeqFacts DEF Types
  <2> QED BY <2>1 DEF InfLines
<1>2. \A i \in DOMAIN packets : packets[i].st \in {" ", "-", "A", "R", "E"}
  <2>1. \A i \in DOMAIN packets : packets[i] \in PacLines
    BY SeqFacts DEF Types
  <2> QED BY <2>1 DEF PacLines
<1>3. at \in 1 .. Max({Len(inf), Len(packets)}) + 1
  <2>1. Len(inf) \in Nat /\ Len(packets) \in Nat
    BY SeqFacts DEF Types
  <2>2. at <= Len(inf) + 1 \/ at <= Len(packets) + 1
    BY <2>1 DEF Types, Places, InLine
  <2>3. /\ Max({Len(inf), Len(packets)}) \in Nat
        /\ Len(inf) <= Max({Len(inf), Len(packets)})
        /\ Len(packets) <= Max({Len(inf), Len(packets)})
    BY <2>1, MaxFacts
  <2> HIDE DEF Max
  <2> QED BY <2>1, <2>2, <2>3 DEF Types
<1>4. groupOk \in BOOLEAN /\ member \in Nat
  BY DEF Types
<1> QED
  BY <1>1, <1>2, <1>3, <1>4 DEF AnkhTypeOK, InfStatus

-----------------------------------------------------------------------------
(* The theorems.                                                           *)

(* What arrived is neither removed before it was filed, nor filed twice,   *)
(* nor overtaken in its queue (procarc, procpac, procnews).  A packdis     *)
(* that fails and returns 0 is not allowed: ankhmail takes its packet for  *)
(* filed.                                                                  *)
THEOREM WhatArrivedIsSafe ==
  ASSUME MaxQuiet = 0
  PROVE  AnkhSpec => []FiledSafely
<1>1. AnkhInit => AnkhInv
  BY AnkhInvInit
<1>2. AnkhInv /\ [AnkhNext]_ankhVars => AnkhInv'
  BY AnkhInvStep
<1>3. AnkhInv => FiledSafely
  <2> SUFFICES ASSUME AnkhInv PROVE FiledSafely
    OBVIOUS
  <2>1. AnkhTypeOK
    BY TypesAreOK DEF AnkhInv
  <2>2. FiledOnce
    <3>1. ASSUME errs["crash"] = 0, errs["unarc"] = 0, NEW p \in Filable PROVE filed[p] <= 1
      <4>1. Calm
        BY <3>1 DEF Calm
      <4>2. FiledOneTime
        BY OnceParts DEF AnkhInv
      <4> QED BY <4>1, <4>2 DEF FiledOneTime
    <3> QED BY <3>1 DEF FiledOnce
  <2> QED BY <2>1, <2>2 DEF AnkhInv, FiledSafely
<1> QED
  BY <1>1, <1>2, <1>3, PTL DEF AnkhSpec

\* The lines of the kind that wait in the file f.
Waits(f, kind) == {i \in DOMAIN f : f[i].kind = kind /\ f[i].st = "Q"}

(* A step takes one line out of a queue at most, and only for a new one.   *)
LEMMA QueueStep ==
  ASSUME AnkhInv, MaxQuiet = 0, [AnkhNext]_ankhVars, NEW kind \in {"news", "fnews"}
  PROVE  Cardinality(Waits(inf, kind)) - Cardinality(Waits(inf', kind)) <=
           (IF at <= Len(inf) /\ inf[at].kind = kind /\ inf[at].st = " " THEN 1 ELSE 0)
<1> DEFINE one == IF at <= Len(inf) /\ inf[at].kind = kind /\ inf[at].st = " " THEN 1 ELSE 0
           before == Waits(inf, kind)
           after == Waits(inf', kind)
<1> SUFFICES Cardinality(before) - Cardinality(after) <= one
  OBVIOUS
<1>1. Types /\ Places /\ AtLine /\ NamesApart /\ kind \in News
  BY DEF AnkhInv, News
<1>2. /\ IsFiniteSet(before) /\ IsFiniteSet(after)
      /\ Cardinality(before) \in Nat /\ Cardinality(after) \in Nat
  <2>1. /\ before \in SUBSET (1 .. Len(inf)) /\ after \in SUBSET (1 .. Len(inf'))
        /\ Len(inf) \in Int /\ Len(inf') \in Int
    BY <1>1, InfKeeps DEF Waits
  <2>2. IsFiniteSet(1 .. Len(inf)) /\ IsFiniteSet(1 .. Len(inf'))
    BY <2>1, FS_Interval
  <2> HIDE DEF before, after
  <2>3. IsFiniteSet(before) /\ IsFiniteSet(after)
    BY <2>1, <2>2, FS_Subset
  <2> QED BY <2>3, FS_CardinalityType
<1>3. one \in {0, 1}
  OBVIOUS
<1>4. ASSUME before \subseteq after PROVE Cardinality(before) - Cardinality(after) <= one
  <2> HIDE DEF before, after, one
  <2>1. Cardinality(before) <= Cardinality(after)
    BY <1>2, <1>4, FS_Subset
  <2> QED BY <1>2, <1>3, <2>1
<1>5. CASE Arrive
  <2>1. before \subseteq after
    <3>1. \A i \in DOMAIN inf : inf'[i] = inf[i]
      BY <1>1, <1>5, ArriveFacts
    <3>2. \A i \in DOMAIN inf : i \in DOMAIN inf'
      BY <1>1, InfKeeps
    <3> QED BY <3>1, <3>2 DEF Waits
  <2> QED BY <1>4, <2>1
<1>6. CASE DOMAIN inf' = DOMAIN inf /\ \A i \in DOMAIN inf : inf'[i].kind \in News => inf'[i] = inf[i]
  <2>1. before \subseteq after
    <3>1. \A i \in DOMAIN inf : inf[i].kind \in News => i \in DOMAIN inf' /\ inf'[i] = inf[i]
      BY <1>1, <1>6, InfKeeps
    <3> QED BY <1>1, <3>1 DEF Waits
  <2> QED BY <1>4, <2>1
<1>7. CASE Rewritten(at, "Q")
  <2>1. before \subseteq after
    BY <1>7 DEF Waits, Rewritten
  <2> QED BY <1>4, <2>1
<1>8. CASE MarkOldest /\ Rewritten(Oldest(L.kind), "-")
  <2>1. CASE L.kind # kind
    <3>1. before \subseteq after
      <4>1. inf[Oldest(L.kind)].kind = L.kind
        BY <1>1, <1>8, OldestFacts DEF MarkOldest, Types, AtLine
      <4> QED BY <1>8, <2>1, <4>1 DEF Waits, Rewritten
    <3> QED BY <1>4, <3>1
  <2>2. CASE L.kind = kind
    <3>1. one = 1
      <4>1. at \in DOMAIN inf /\ L.st = " "
        BY <1>1, <1>8, AtWorkFacts DEF MarkOldest, InLine, AtLine
      <4>2. at <= Len(inf)
        BY <1>1, <1>8 DEF MarkOldest, InLine, Places
      <4> QED BY <2>2, <4>1, <4>2 DEF L
    <3>2. before \ {Oldest(L.kind)} \subseteq after
      BY <1>8 DEF Waits, Rewritten
    <3> HIDE DEF before, after, one
    <3>3. /\ IsFiniteSet(before \ {Oldest(L.kind)})
          /\ Cardinality(before \ {Oldest(L.kind)}) >= Cardinality(before) - 1
      BY <1>2, FS_RemoveElement
    <3>4. Cardinality(before \ {Oldest(L.kind)}) <= Cardinality(after)
      BY <1>2, <3>2, FS_Subset
    <3>5. Cardinality(before \ {Oldest(L.kind)}) \in Nat
      BY <3>3, FS_CardinalityType
    <3> QED BY <1>2, <3>1, <3>3, <3>4, <3>5
  <2> QED BY <2>1, <2>2
<1>9. \/ Arrive
      \/ DOMAIN inf' = DOMAIN inf /\ \A i \in DOMAIN inf : inf'[i].kind \in News => inf'[i] = inf[i]
      \/ MarkOldest /\ Rewritten(Oldest(L.kind), "-")
      \/ Rewritten(at, "Q")
  BY <1>1, NewsEffect, Zenon
<1> HIDE DEF before, after, one
<1> QED
  BY <1>5, <1>6, <1>7, <1>8, <1>9, Zenon

(* A new file takes the place of one in the queue, never of two, even if   *)
(* ankhmail was stopped before (procnews, procfnews).                      *)
THEOREM NewsTakesOnePlace ==
  ASSUME MaxQuiet = 0
  PROVE  AnkhSpec => QueueKept
<1>1. AnkhInit => AnkhInv
  BY AnkhInvInit
<1>2. AnkhInv /\ [AnkhNext]_ankhVars => AnkhInv'
  BY AnkhInvStep
<1>3. AnkhInv /\ [AnkhNext]_ankhVars =>
        [errs.crash = 0 =>
           \A kind \in {"news", "fnews"} :
             LET Queue(f) == {i \in DOMAIN f : f[i].kind = kind /\ f[i].st = "Q"} IN
               Cardinality(Queue(inf)) - Cardinality(Queue(inf')) <=
                 (IF at <= Len(inf) /\ inf[at].kind = kind /\ inf[at].st = " "
                  THEN 1 ELSE 0)]_ankhVars
  BY QueueStep DEF Waits
<1> QED
  BY <1>1, <1>2, <1>3, PTL DEF AnkhSpec, QueueKept

-----------------------------------------------------------------------------
(* The standard files of programs in C.                                    *)

Flags == {"INUSE", "DCB", "EOF", "ERROR"}
Open == {s \in Slots : IsFile(s)}

\* The table of slots, and two blocks of the heap for each open file.
TableInv ==
  fd_array \in [Slots -> [flag : SUBSET Flags, buf : Nat, fcbptr : Int]]
HeapInv ==
  /\ used \subseteq 1 .. HeapBlocks
  /\ \A s \in Open : /\ fd_array[s].buf \in used /\ fd_array[s].fcbptr \in used
                     /\ fd_array[s].buf # fd_array[s].fcbptr
  /\ \A s, t \in Open : s # t => Released(s) \cap Released(t) = {}
  /\ used = UNION {Released(s) : s \in Open}
  /\ Cardinality(used) = 2 * Cardinality(Open)
  /\ DOMAIN fcbs = {fd_array[s].fcbptr : s \in Open}

\* Files, and what the FCBs say of them: an open one is there.
DiskInv ==
  /\ disk \in [FileNames -> Seq(Bytes)] /\ dir \in [FileNames -> Int]
  /\ \A f \in FileNames : Len(disk[f]) <= MaxSize /\ dir[f] \in -1 .. Len(disk[f])
FcbInv ==
  \A b \in DOMAIN fcbs :
    /\ fcbs[b] \in [name : FileNames, next : Nat, eof : Nat]
    /\ fcbs[b].next <= fcbs[b].eof /\ fcbs[b].eof <= Len(disk[fcbs[b].name])
    /\ dir[fcbs[b].name] # -1

\* What fgets has given of a stream is what the file has between two places.
TookInv ==
  /\ took \in [Slots -> [from : Nat, got : Seq(Bytes)]]
  /\ \A s \in Open :
       /\ FcbOf(s).next = took[s].from + Len(took[s].got)
       /\ took[s].got = SubSeq(disk[FcbOf(s).name], took[s].from + 1, FcbOf(s).next)
StdioInv ==
  TableInv /\ HeapInv /\ DiskInv /\ FcbInv /\ TookInv /\ calls \in 0 .. MaxCalls

\* What the last call gave.
LineInv ==
  call.op = "fgets" /\ call.ret # NULL =>
    /\ Len(call.line) < call.ret
    /\ \A i \in 1 .. Len(call.line) - 1 : call.line[i] # NL
CallInv == LineInv /\ WriteCounted

-----------------------------------------------------------------------------
(* Numbers, sets and sequences.                                            *)

LEMMA MinOfTwo ==
  ASSUME NEW a \in Nat, NEW b \in Nat
  PROVE  Min({a, b}) \in {a, b} /\ Min({a, b}) <= a /\ Min({a, b}) <= b
  BY MinFacts

LEMMA MaxOfTwo ==
  ASSUME NEW a \in Nat, NEW b \in Nat
  PROVE  Max({a, b}) \in {a, b} /\ a <= Max({a, b}) /\ b <= Max({a, b})
<1>1. \E x \in {a, b} : \A y \in {a, b} : x >= y
  <2>1. CASE a <= b
    BY <2>1
  <2>2. CASE ~(a <= b)
    BY <2>2
  <2> QED
    BY <2>1, <2>2
<1> QED
  BY <1>1 DEF Max

LEMMA LinesTyped ==
  ASSUME NEW l \in Lines
  PROVE  l \in Seq(Bytes) /\ Len(l) \in Nat /\ Len(l) <= MaxSize
<1>1. l \in Seq(0 .. 255) /\ Len(l) <= MaxSize
  BY StdioAssumption
<1>2. Len(l) \in Nat /\ DOMAIN l = 1 .. Len(l) /\ l \in [1 .. Len(l) -> 0 .. 255]
  BY <1>1, LenProperties
<1>3. \A i \in DOMAIN l : l[i] \in Bytes
  BY DEF Bytes, Range
<1>4. l \in [1 .. Len(l) -> Bytes]
  BY <1>2, <1>3
<1> QED
  BY <1>1, <1>2, <1>4, SeqDef

\* A part of a sequence.
LEMMA PartFacts ==
  ASSUME NEW S, NEW d \in Seq(S), NEW a \in Nat, NEW b \in Nat, a <= b, b <= Len(d)
  PROVE  /\ SubSeq(d, a + 1, b) \in Seq(S) /\ Len(SubSeq(d, a + 1, b)) = b - a
         /\ \A i \in 1 .. b - a : SubSeq(d, a + 1, b)[i] = d[a + i]
<1>0. Len(d) \in Nat
  BY LenProperties
<1>1. \A i \in a + 1 .. b : d[i] \in S
  BY <1>0, ElementOfSeq
<1>2. /\ SubSeq(d, a + 1, b) \in Seq(S)
      /\ Len(SubSeq(d, a + 1, b)) = IF a + 1 <= b THEN b - (a + 1) + 1 ELSE 0
      /\ \A i \in 1 .. b - (a + 1) + 1 : SubSeq(d, a + 1, b)[i] = d[(a + 1) + i - 1]
  BY <1>1, SubSeqProperties
<1> QED
  BY <1>2

\* The first k elements of a part, and two parts together.
LEMMA PartOfPart ==
  ASSUME NEW S, NEW d \in Seq(S), NEW a \in Nat, NEW b \in Nat, NEW k \in Nat,
         a + k <= b, b <= Len(d)
  PROVE  SubSeq(SubSeq(d, a + 1, b), 1, k) = SubSeq(d, a + 1, a + k)
<1> DEFINE p == SubSeq(d, a + 1, b)
           q == SubSeq(d, a + 1, a + k)
           r == SubSeq(p, 1, k)
<1>0. Len(d) \in Nat
  BY LenProperties
<1>1. p \in Seq(S) /\ Len(p) = b - a /\ \A i \in 1 .. b - a : p[i] = d[a + i]
  BY PartFacts
<1>2. q \in Seq(S) /\ Len(q) = k /\ \A i \in 1 .. k : q[i] = d[a + i]
  <2> DEFINE e == a + k
  <2>1. e \in Nat /\ a <= e /\ e <= Len(d) /\ e - a = k
    BY <1>0
  <2> HIDE DEF e
  <2>2. /\ SubSeq(d, a + 1, e) \in Seq(S) /\ Len(SubSeq(d, a + 1, e)) = e - a
        /\ \A i \in 1 .. e - a : SubSeq(d, a + 1, e)[i] = d[a + i]
    BY <2>1, PartFacts
  <2> QED
    BY <2>1, <2>2 DEF e
<1> HIDE DEF p, q
<1>3. r \in Seq(S) /\ Len(r) = k /\ \A i \in 1 .. k : r[i] = p[i]
  <2>1. k <= Len(p) /\ 0 \in Nat /\ 0 <= k /\ k - 0 = k /\ 0 + 1 = 1 /\ \A i \in 1 .. k : 0 + i = i
    BY <1>1
  <2>2. /\ SubSeq(p, 0 + 1, k) \in Seq(S) /\ Len(SubSeq(p, 0 + 1, k)) = k - 0
        /\ \A i \in 1 .. k - 0 : SubSeq(p, 0 + 1, k)[i] = p[0 + i]
    BY <2>1, <1>1, PartFacts
  <2> QED
    BY <2>1, <2>2
<1> HIDE DEF r
<1>4. \A i \in 1 .. k : r[i] = q[i]
  <2>1. \A i \in 1 .. k : i \in 1 .. b - a
    BY <1>0
  <2> QED
    BY <2>1, <1>1, <1>2, <1>3
<1>5. r = q
  BY <1>2, <1>3, <1>4, SeqEqual
<1> QED
  BY <1>5 DEF p, q, r

LEMMA PartsJoin ==
  ASSUME NEW S, NEW d \in Seq(S), NEW a \in Nat, NEW b \in Nat, NEW c \in Nat,
         a <= b, b <= c, c <= Len(d)
  PROVE  SubSeq(d, a + 1, b) \o SubSeq(d, b + 1, c) = SubSeq(d, a + 1, c)
<1>1. Len(d) \in Nat
  BY LenProperties
<1>2. a + 1 \in 1 .. Len(d) + 1 /\ b \in (a + 1) - 1 .. Len(d) /\ c \in b .. Len(d)
  BY <1>1
<1> QED
  BY <1>2, ConcatAdjacentSubSeq

\* Bytes put into a file at a place of it.
Put(d, n, w) == SubSeq(d, 1, n) \o w \o SubSeq(d, n + Len(w) + 1, Len(d))

LEMMA Overwritten ==
  ASSUME NEW S, NEW d \in Seq(S), NEW w \in Seq(S), NEW n \in Nat, n <= Len(d)
  PROVE  /\ Put(d, n, w) \in Seq(S) /\ Len(Put(d, n, w)) \in Nat
         /\ n + Len(w) <= Len(Put(d, n, w)) /\ Len(d) <= Len(Put(d, n, w))
         /\ Len(Put(d, n, w)) <= Len(d) \/ Len(Put(d, n, w)) <= n + Len(w)
         /\ \A i \in 1 .. Len(w) : /\ n + i \in DOMAIN Put(d, n, w)
                                   /\ Put(d, n, w)[n + i] = w[i]
<1> DEFINE after == n + Len(w)
           u == SubSeq(d, 1, n)
           v == SubSeq(d, after + 1, Len(d))
<1>00. after = n + Len(w)
  OBVIOUS
<1>0. Len(d) \in Nat /\ Len(w) \in Nat /\ after \in Nat
  BY LenProperties
<1>1. u \in Seq(S) /\ Len(u) = n
  <2>1. 0 \in Nat /\ 0 <= n /\ n - 0 = n /\ 0 + 1 = 1
    OBVIOUS
  <2>2. SubSeq(d, 0 + 1, n) \in Seq(S) /\ Len(SubSeq(d, 0 + 1, n)) = n - 0
    BY <2>1, PartFacts
  <2> QED
    BY <2>1, <2>2
<1>2. v \in Seq(S) /\ Len(v) = IF after <= Len(d) THEN Len(d) - after ELSE 0
  <2>1. CASE after <= Len(d)
    BY <2>1, <1>0, PartFacts
  <2>2. CASE ~(after <= Len(d))
    <3>1. v = <<>>
      BY <2>2, <1>0, SubSeqEmpty
    <3> QED
      BY <3>1, <2>2, EmptySeq
  <2> QED
    BY <2>1, <2>2
<1> HIDE DEF u, v, after
<1> DEFINE x == u \o w
           new == x \o v
<1>3. /\ x \in Seq(S) /\ Len(x) = n + Len(w)
      /\ \A i \in 1 .. Len(u) + Len(w) : x[i] = IF i <= Len(u) THEN u[i] ELSE w[i - Len(u)]
  BY <1>1, ConcatProperties
<1> HIDE DEF x
<1>4. /\ new \in Seq(S) /\ Len(new) = Len(x) + Len(v)
      /\ \A i \in 1 .. Len(x) + Len(v) : new[i] = IF i <= Len(x) THEN x[i] ELSE v[i - Len(x)]
  <2>1. x \in Seq(S) /\ v \in Seq(S)
    BY <1>3, <1>2
  <2> QED
    BY <2>1, ConcatProperties
<1>5. Len(new) = after + Len(v) /\ Len(v) \in Nat
  BY <1>3, <1>4, <1>2, <1>0 DEF after
<1>6. DOMAIN new = 1 .. Len(new)
  BY <1>4, LenProperties
<1> HIDE DEF new
<1>7. ASSUME NEW i \in 1 .. Len(w)
      PROVE  n + i \in DOMAIN new /\ new[n + i] = w[i]
  <2>1. n + i \in 1 .. Len(x) + Len(v) /\ n + i <= Len(x)
    BY <1>0, <1>3, <1>5
  <2>2. new[n + i] = x[n + i]
    BY <2>1, <1>4
  <2>3. n + i \in 1 .. Len(u) + Len(w) /\ ~(n + i <= Len(u)) /\ (n + i) - Len(u) = i
    BY <1>0, <1>1
  <2>4. x[n + i] = w[i]
    BY <2>3, <1>3
  <2> QED
    BY <2>1, <2>2, <2>4, <1>4, <1>6
<1>8. /\ after <= Len(new) /\ Len(d) <= Len(new)
      /\ Len(new) <= Len(d) \/ Len(new) <= after
      /\ Len(new) \in Nat
  BY <1>5, <1>2, <1>0
<1>9. new \in Seq(S) /\ \A i \in 1 .. Len(w) : n + i \in DOMAIN new /\ new[n + i] = w[i]
  BY <1>4, <1>7
<1>10. new = Put(d, n, w)
  BY DEF Put, u, v, after, x, new
<1> QED
  BY <1>8, <1>9, <1>10, <1>00

-----------------------------------------------------------------------------
(* What the table and the heap look like after a call that opens and closes *)
(* nothing.                                                                *)

SameTable ==
  /\ TableInv'
  /\ \A t \in Slots : /\ IsFile(t)' <=> IsFile(t)
                      /\ IsFile(t) => /\ fd_array'[t].buf = fd_array[t].buf
                                      /\ fd_array'[t].fcbptr = fd_array[t].fcbptr

LEMMA UnchangedTable ==
  ASSUME TableInv, UNCHANGED fd_array
  PROVE  SameTable
  BY DEF SameTable, TableInv, IsFile, InUse

LEMMA FlagsChange ==
  ASSUME TableInv, NEW s \in Slots, NEW F \in SUBSET Flags,
         "INUSE" \in F <=> "INUSE" \in fd_array[s].flag,
         "DCB" \in F <=> "DCB" \in fd_array[s].flag,
         fd_array' = [fd_array EXCEPT ![s].flag = F]
  PROVE  SameTable
<1>1. \A t \in Slots : fd_array[t] \in [flag : SUBSET Flags, buf : Nat, fcbptr : Int]
  BY DEF TableInv
<1>2. fd_array'[s] = [fd_array[s] EXCEPT !.flag = F]
  BY DEF TableInv
<1>3. \A t \in Slots \ {s} : fd_array'[t] = fd_array[t]
  BY DEF TableInv
<1>4. fd_array'[s].flag = F /\ fd_array'[s].buf = fd_array[s].buf /\ fd_array'[s].fcbptr = fd_array[s].fcbptr
  BY <1>1, <1>2
<1>5. fd_array'[s] \in [flag : SUBSET Flags, buf : Nat, fcbptr : Int]
  BY <1>1, <1>2
<1>6. TableInv'
  BY <1>1, <1>3, <1>5 DEF TableInv
<1>7. \A t \in Slots : IsFile(t)' <=> IsFile(t)
  BY <1>3, <1>4 DEF IsFile, InUse
<1> QED
  BY <1>3, <1>4, <1>6, <1>7 DEF SameTable

LEMMA SetFlagSame ==
  ASSUME TableInv, NEW s \in Slots, NEW f \in {"EOF", "ERROR"}, SetFlag(s, f)
  PROVE  SameTable
<1> DEFINE F == fd_array[s].flag \cup {f}
<1>1. F \in SUBSET Flags
  BY DEF TableInv, Flags
<1>2. fd_array' = [fd_array EXCEPT ![s].flag = F]
  BY DEF SetFlag, TableInv
<1> QED
  BY <1>1, <1>2, FlagsChange

LEMMA ClearFlagsSame ==
  ASSUME TableInv, NEW s \in Slots, NEW G \in SUBSET {"EOF", "ERROR"},
         fd_array' = [fd_array EXCEPT ![s].flag = @ \ G]
  PROVE  SameTable
<1> DEFINE F == fd_array[s].flag \ G
<1>1. F \in SUBSET Flags
  BY DEF TableInv
<1>2. fd_array' = [fd_array EXCEPT ![s].flag = F]
  BY DEF TableInv
<1> QED
  BY <1>1, <1>2, FlagsChange

LEMMA OpenFacts ==
  ASSUME HeapInv, FcbInv, DiskInv, NEW s \in Open
  PROVE  /\ s \in Slots /\ IsFile(s) /\ fd_array[s].fcbptr \in DOMAIN fcbs
         /\ FcbOf(s).name \in FileNames /\ FcbOf(s).next \in Nat /\ FcbOf(s).eof \in Nat
         /\ FcbOf(s).next <= FcbOf(s).eof /\ FcbOf(s).eof <= Len(disk[FcbOf(s).name])
         /\ disk[FcbOf(s).name] \in Seq(Bytes) /\ Len(disk[FcbOf(s).name]) \in Nat
         /\ dir[FcbOf(s).name] # -1
<1>1. fd_array[s].fcbptr \in DOMAIN fcbs
  BY DEF HeapInv
<1>2. /\ FcbOf(s) \in [name : FileNames, next : Nat, eof : Nat]
      /\ FcbOf(s).next <= FcbOf(s).eof /\ FcbOf(s).eof <= Len(disk[FcbOf(s).name])
      /\ dir[FcbOf(s).name] # -1
  BY <1>1 DEF FcbInv, FcbOf
<1>3. disk[FcbOf(s).name] \in Seq(Bytes)
  BY <1>2 DEF DiskInv
<1> QED
  BY <1>1, <1>2, <1>3, LenProperties DEF Open

LEMMA OtherFcb ==
  ASSUME HeapInv, NEW s \in Open, NEW t \in Open, s # t
  PROVE  fd_array[s].fcbptr # fd_array[t].fcbptr
  BY DEF HeapInv, Released

LEMMA SameOpen ==
  ASSUME SameTable
  PROVE  Open' = Open
  BY DEF SameTable, Open

LEMMA SameHeap ==
  ASSUME SameTable, HeapInv, used' = used, DOMAIN fcbs' = DOMAIN fcbs
  PROVE  HeapInv'
<1>1. Open' = Open /\ Open \subseteq Slots
  BY SameOpen DEF Open
<1>2. \A s \in Open : Released(s)' = Released(s)
  BY <1>1 DEF SameTable, Released, Open
<1>3. \A s \in Open : fd_array'[s].buf = fd_array[s].buf /\ fd_array'[s].fcbptr = fd_array[s].fcbptr
  BY <1>1 DEF SameTable, Open
<1>4. UNION {Released(s)' : s \in Open} = UNION {Released(s) : s \in Open}
  BY <1>2
<1>5. {fd_array'[s].fcbptr : s \in Open} = {fd_array[s].fcbptr : s \in Open}
  BY <1>3
<1> QED
  BY <1>1, <1>2, <1>3, <1>4, <1>5 DEF HeapInv

\* Nothing on the disk or in the FCBs changes.
LEMMA SameFiles ==
  ASSUME StdioInv, SameTable, FilesKept, UNCHANGED <<used, took>>
  PROVE  HeapInv' /\ DiskInv' /\ FcbInv' /\ TookInv'
<1>0. HeapInv /\ DiskInv /\ FcbInv /\ TookInv
  BY DEF StdioInv
<1>1. disk' = disk /\ dir' = dir /\ fcbs' = fcbs /\ used' = used /\ took' = took
  BY DEF FilesKept
<1>2. HeapInv'
  BY <1>0, <1>1, SameHeap
<1>3. DiskInv' /\ FcbInv'
  BY <1>0, <1>1 DEF DiskInv, FcbInv
<1>4. Open' = Open /\ \A s \in Open : FcbOf(s)' = FcbOf(s)
  BY <1>1, SameOpen DEF SameTable, FcbOf, Open
<1>5. TookInv'
  BY <1>0, <1>1, <1>4 DEF TookInv
<1> QED
  BY <1>2, <1>3, <1>5

\* One stream is positioned, by reading or otherwise.
At(s, n) ==
  /\ DOMAIN fcbs' = DOMAIN fcbs
  /\ fcbs'[fd_array[s].fcbptr] = [fcbs[fd_array[s].fcbptr] EXCEPT !.next = n]
  /\ \A b \in DOMAIN fcbs \ {fd_array[s].fcbptr} : fcbs'[b] = fcbs[b]

LEMMA Moved ==
  ASSUME StdioInv, SameTable, UNCHANGED <<disk, dir, used>>, NEW s \in Open,
         NEW n \in Nat, n <= FcbOf(s).eof,
         At(s, n),
         NEW new \in [from : Nat, got : Seq(Bytes)], took' = [took EXCEPT ![s] = new],
         n = new.from + Len(new.got),
         new.got = SubSeq(disk[FcbOf(s).name], new.from + 1, n)
  PROVE  HeapInv' /\ DiskInv' /\ FcbInv' /\ TookInv'
<1> DEFINE p == fd_array[s].fcbptr
<1>0. HeapInv /\ DiskInv /\ FcbInv /\ TookInv
  BY DEF StdioInv
<1>1. p \in DOMAIN fcbs /\ DOMAIN fcbs' = DOMAIN fcbs /\ s \in Slots
  BY <1>0, OpenFacts DEF At
<1>2. fcbs'[p] = [fcbs[p] EXCEPT !.next = n] /\ \A b \in DOMAIN fcbs \ {p} : fcbs'[b] = fcbs[b]
  BY DEF At
<1>3. fcbs[p] \in [name : FileNames, next : Nat, eof : Nat]
  BY <1>0, <1>1 DEF FcbInv
<1>4. /\ fcbs'[p] \in [name : FileNames, next : Nat, eof : Nat]
      /\ fcbs'[p].name = fcbs[p].name /\ fcbs'[p].next = n /\ fcbs'[p].eof = fcbs[p].eof
  <2> DEFINE c == fcbs[p]
  <2>1. fcbs'[p] = [c EXCEPT !.next = n] /\ c \in [name : FileNames, next : Nat, eof : Nat]
    BY <1>2, <1>3
  <2> HIDE DEF c
  <2>2. fcbs'[p] \in [name : FileNames, next : Nat, eof : Nat]
    BY <2>1
  <2>3. fcbs'[p].name = c.name /\ fcbs'[p].next = n /\ fcbs'[p].eof = c.eof
    BY <2>1
  <2> QED
    BY <2>2, <2>3 DEF c
<1>5. HeapInv'
  BY <1>0, <1>1, SameHeap
<1>6. DiskInv'
  BY <1>0 DEF DiskInv
<1>7. FcbInv'
  <2> SUFFICES ASSUME NEW b \in DOMAIN fcbs
               PROVE  /\ fcbs'[b] \in [name : FileNames, next : Nat, eof : Nat]
                      /\ fcbs'[b].next <= fcbs'[b].eof
                      /\ fcbs'[b].eof <= Len(disk[fcbs'[b].name]) /\ dir[fcbs'[b].name] # -1
    BY <1>1 DEF FcbInv
  <2>1. CASE b = p
    BY <2>1, <1>0, <1>1, <1>4 DEF FcbInv, FcbOf
  <2>2. CASE b # p
    BY <2>2, <1>0, <1>2 DEF FcbInv
  <2> QED
    BY <2>1, <2>2
<1>8. TookInv'
  <2>1. took' \in [Slots -> [from : Nat, got : Seq(Bytes)]]
    BY <1>0 DEF TookInv
  <2>2. Open' = Open /\ \A t \in Open : fd_array'[t].fcbptr = fd_array[t].fcbptr
    BY SameOpen DEF SameTable, Open
  <2>3. ASSUME NEW t \in Open
        PROVE  /\ FcbOf(t)'.next = took'[t].from + Len(took'[t].got)
               /\ took'[t].got = SubSeq(disk[FcbOf(t)'.name], took'[t].from + 1, FcbOf(t)'.next)
    <3>1. CASE t = s
      <4>1. took'[s] = new
        BY <1>0, <1>1 DEF TookInv
      <4>2. FcbOf(s)' = fcbs'[p]
        BY <2>2 DEF FcbOf
      <4> QED
        BY <3>1, <4>1, <4>2, <1>4 DEF FcbOf
    <3>2. CASE t # s
      <4>1. took'[t] = took[t]
        BY <3>2, <1>0 DEF TookInv, Open
      <4>2. fd_array[t].fcbptr \in DOMAIN fcbs \ {p}
        BY <3>2, <1>0, OpenFacts, OtherFcb
      <4>3. FcbOf(t)' = FcbOf(t)
        BY <4>2, <2>2, <1>2 DEF FcbOf
      <4> QED
        BY <4>1, <4>3, <1>0 DEF TookInv
    <3> QED
      BY <3>1, <3>2
  <2> QED
    BY <2>1, <2>2, <2>3 DEF TookInv
<1> QED
  BY <1>5, <1>6, <1>7, <1>8

-----------------------------------------------------------------------------
(* Bytes that are written to a stream.                                     *)

\* The bytes are put into the file, its streams are looked at afresh, and what is
\* written is where the stream was.
LEMMA Wrote ==
  ASSUME StdioInv, SameTable, UNCHANGED <<dir, used>>, NEW s \in Open,
         NEW w \in Seq(Bytes), dos_write_byte(s, w), Afresh(Sharing(s))
  PROVE  /\ HeapInv' /\ DiskInv' /\ FcbInv' /\ TookInv'
         /\ \A i \in 1 .. Len(w) :
              /\ FcbOf(s).next + i \in DOMAIN disk'[FcbOf(s)'.name]
              /\ disk'[FcbOf(s)'.name][FcbOf(s).next + i] = w[i]
<1> DEFINE p == fd_array[s].fcbptr
           c == fcbs[p]
           f == c.name
           old == disk[f]
           after == c.next + Len(w)
           new == SubSeq(old, 1, c.next) \o w \o SubSeq(old, after + 1, Len(old))
<1>0. HeapInv /\ DiskInv /\ FcbInv /\ TookInv
  BY DEF StdioInv
<1>1. /\ p \in DOMAIN fcbs /\ s \in Slots /\ f \in FileNames
      /\ c.next \in Nat /\ c.eof \in Nat /\ c.next <= c.eof /\ c.eof <= Len(old)
      /\ old \in Seq(Bytes) /\ Len(old) \in Nat
  BY <1>0, OpenFacts DEF FcbOf
<1>2. c \in [name : FileNames, next : Nat, eof : Nat]
  BY <1>0, <1>1 DEF FcbInv
<1>3. /\ after <= MaxSize
      /\ disk' = [disk EXCEPT ![f] = new]
      /\ fcbs' = [fcbs EXCEPT ![p].next = after, ![p].eof = Max({@, after})]
  BY DEF dos_write_byte, FcbOf
<1>4. c.next <= Len(old) /\ Len(w) \in Nat /\ after \in Nat
  BY <1>1, LenProperties
<1>5. /\ new \in Seq(Bytes) /\ Len(new) \in Nat
      /\ after <= Len(new) /\ Len(old) <= Len(new)
      /\ Len(new) <= Len(old) \/ Len(new) <= after
      /\ \A i \in 1 .. Len(w) : c.next + i \in DOMAIN new /\ new[c.next + i] = w[i]
  <2> DEFINE n == c.next
  <2>1. n \in Nat /\ old \in Seq(Bytes) /\ n <= Len(old) /\ after = n + Len(w)
    BY <1>1, <1>4
  <2>3. new = Put(old, n, w)
    BY DEF Put
  <2> HIDE DEF n, old, after, new
  <2>2. /\ Put(old, n, w) \in Seq(Bytes) /\ Len(Put(old, n, w)) \in Nat
        /\ n + Len(w) <= Len(Put(old, n, w)) /\ Len(old) <= Len(Put(old, n, w))
        /\ Len(Put(old, n, w)) <= Len(old) \/ Len(Put(old, n, w)) <= n + Len(w)
        /\ \A i \in 1 .. Len(w) : /\ n + i \in DOMAIN Put(old, n, w)
                                  /\ Put(old, n, w)[n + i] = w[i]
    BY <2>1, Overwritten
  <2> QED
    BY <2>1, <2>2, <2>3 DEF n
<1>6. DOMAIN fcbs' = DOMAIN fcbs /\ \A b \in DOMAIN fcbs \ {p} : fcbs'[b] = fcbs[b]
  BY <1>3
<1>7. /\ fcbs'[p] \in [name : FileNames, next : Nat, eof : Nat]
      /\ fcbs'[p].name = f /\ fcbs'[p].next = after
      /\ after <= fcbs'[p].eof /\ fcbs'[p].eof <= Len(new)
  <2> DEFINE m == Max({c.eof, after})
  <2>2. m \in {c.eof, after} /\ after <= m
    BY <1>1, <1>4, MaxOfTwo
  <2>3. m \in Nat /\ after <= m /\ m <= Len(new)
    <3> HIDE DEF m, new, after
    <3> QED
      BY <2>2, <1>1, <1>4, <1>5
  <2>1. fcbs'[p] = [c EXCEPT !.next = after, !.eof = m]
    BY <1>1, <1>2, <1>3
  <2> HIDE DEF m, new, after, c
  <2>4. fcbs'[p] \in [name : FileNames, next : Nat, eof : Nat]
    BY <2>1, <2>3, <1>2, <1>4
  <2>5. fcbs'[p].name = c.name /\ fcbs'[p].next = after /\ fcbs'[p].eof = m
    BY <2>1, <1>2
  <2> QED
    BY <2>3, <2>4, <2>5 DEF c
<1>8. disk'[f] = new /\ \A g \in FileNames \ {f} : disk'[g] = disk[g]
  BY <1>0, <1>1, <1>3 DEF DiskInv
<1> HIDE DEF new, after
<1>9. HeapInv'
  BY <1>0, <1>6, SameHeap
<1>10. DiskInv'
  <2>1. disk' \in [FileNames -> Seq(Bytes)]
    BY <1>0, <1>1, <1>3, <1>5 DEF DiskInv
  <2>2. ASSUME NEW g \in FileNames
        PROVE  Len(disk'[g]) <= MaxSize /\ dir[g] \in -1 .. Len(disk'[g])
    <3>1. CASE g = f
      <4>1. Len(old) <= MaxSize /\ dir[f] \in -1 .. Len(old)
        BY <1>0, <1>1 DEF DiskInv
      <4>2. MaxSize \in Nat
        BY StdioAssumption
      <4> HIDE DEF old, f
      <4> QED
        BY <3>1, <4>1, <4>2, <1>1, <1>3, <1>4, <1>5, <1>8
    <3>2. CASE g # f
      BY <3>2, <1>0, <1>8 DEF DiskInv
    <3> QED
      BY <3>1, <3>2
  <2> QED
    BY <1>0, <2>1, <2>2 DEF DiskInv
<1>11. FcbInv'
  <2> SUFFICES ASSUME NEW b \in DOMAIN fcbs
               PROVE  /\ fcbs'[b] \in [name : FileNames, next : Nat, eof : Nat]
                      /\ fcbs'[b].next <= fcbs'[b].eof
                      /\ fcbs'[b].eof <= Len(disk'[fcbs'[b].name]) /\ dir[fcbs'[b].name] # -1
    BY <1>6 DEF FcbInv
  <2>1. CASE b = p
    BY <2>1, <1>0, <1>1, <1>7, <1>8 DEF FcbInv
  <2>2. CASE b # p
    <3>1. /\ fcbs'[b] = fcbs[b] /\ fcbs[b] \in [name : FileNames, next : Nat, eof : Nat]
          /\ fcbs[b].next <= fcbs[b].eof /\ fcbs[b].eof <= Len(disk[fcbs[b].name])
          /\ dir[fcbs[b].name] # -1
      BY <2>2, <1>0, <1>6 DEF FcbInv
    <3>2. CASE fcbs[b].name = f
      <4>1. fcbs[b].eof <= Len(old) /\ fcbs[b].eof \in Nat
        BY <3>1, <3>2
      <4>2. fcbs[b].eof <= Len(new)
        <5> HIDE DEF old
        <5> QED
          BY <4>1, <1>1, <1>5
      <4> QED
        BY <3>1, <3>2, <4>2, <1>8
    <3>3. CASE fcbs[b].name # f
      BY <3>1, <3>3, <1>8
    <3> QED
      BY <3>2, <3>3
  <2> QED
    BY <2>1, <2>2
<1>12. Open' = Open /\ \A t \in Open : fd_array'[t].fcbptr = fd_array[t].fcbptr
  BY SameOpen DEF SameTable, Open
<1>13. TookInv'
  <2>1. \A t \in Sharing(s) : t \in Open /\ FcbOf(t).name = f
    BY DEF Sharing, Open, FcbOf
  <2>2. ASSUME NEW t \in Open
        PROVE  /\ FcbOf(t)'.next \in Nat
               /\ FcbOf(t)'.next <= Len(disk'[FcbOf(t)'.name])
               /\ FcbOf(t)'.name = FcbOf(t).name /\ FcbOf(t)'.name \in FileNames
    <3>1. fd_array[t].fcbptr \in DOMAIN fcbs' /\ FcbOf(t)' = fcbs'[fd_array[t].fcbptr] /\ t \in Slots
      BY <1>0, <1>6, <1>12, OpenFacts DEF FcbOf
    <3>2. /\ FcbOf(t)' \in [name : FileNames, next : Nat, eof : Nat]
          /\ FcbOf(t)'.next <= FcbOf(t)'.eof /\ FcbOf(t)'.eof <= Len(disk'[FcbOf(t)'.name])
      BY <3>1, <1>11 DEF FcbInv
    <3>3. FcbOf(t)'.name = FcbOf(t).name
      BY <3>1, <1>6, <1>7, <1>12 DEF FcbOf
    <3>4. FcbOf(t)'.name \in FileNames /\ FcbOf(t)'.next \in Nat /\ FcbOf(t)'.eof \in Nat
      BY <3>2
    <3>5. Len(disk'[FcbOf(t)'.name]) \in Nat
      <4>1. disk'[FcbOf(t)'.name] \in Seq(Bytes)
        BY <3>4, <1>10 DEF DiskInv
      <4> QED
        BY <4>1, LenProperties
    <3> QED
      BY <3>2, <3>3, <3>4, <3>5
  <2>3. took' = [t \in Slots |-> IF t \in Sharing(s)
                           THEN [from |-> fcbs'[fd_array[t].fcbptr].next, got |-> <<>>]
                           ELSE took[t]]
    BY <1>12 DEF Afresh
  <2>4. \A t \in Sharing(s) : fcbs'[fd_array[t].fcbptr].next \in Nat
    BY <2>1, <2>2, <1>12 DEF FcbOf, Open
  <2>5. took' \in [Slots -> [from : Nat, got : Seq(Bytes)]]
    <3>1. <<>> \in Seq(Bytes)
      BY EmptySeq
    <3>2. took \in [Slots -> [from : Nat, got : Seq(Bytes)]]
      BY <1>0 DEF TookInv
    <3> QED
      BY <2>3, <2>4, <3>1, <3>2
  <2>6. ASSUME NEW t \in Open
        PROVE  /\ FcbOf(t)'.next = took'[t].from + Len(took'[t].got)
               /\ took'[t].got = SubSeq(disk'[FcbOf(t)'.name], took'[t].from + 1, FcbOf(t)'.next)
    <3>0. t \in Slots
      BY DEF Open
    <3>1. CASE t \in Sharing(s)
      <4> DEFINE n == FcbOf(t)'.next
      <4>1. took'[t] = [from |-> n, got |-> <<>>] /\ n \in Nat
        BY <2>2, <2>3, <3>0, <3>1, <1>12 DEF FcbOf
      <4>2. SubSeq(disk'[FcbOf(t)'.name], n + 1, n) = <<>>
        <5> HIDE DEF n
        <5> QED
          BY <4>1, SubSeqEmpty
      <4>3. Len(<<>>) = 0
        BY EmptySeq
      <4> HIDE DEF n
      <4>4. took'[t].from = n /\ took'[t].got = <<>>
        BY <4>1
      <4> QED
        BY <4>1, <4>2, <4>3, <4>4 DEF n
    <3>2. CASE t \notin Sharing(s)
      <4>1. took'[t] = took[t]
        BY <2>3, <3>0, <3>2
      <4>2. FcbOf(t).name # f
        BY <3>0, <3>2 DEF Sharing, Open, FcbOf
      <4>3. fd_array[t].fcbptr # p
        BY <4>2 DEF FcbOf
      <4>4. FcbOf(t)' = FcbOf(t)
        BY <4>3, <3>0, <1>0, <1>6, <1>12, OpenFacts DEF FcbOf
      <4>5. disk'[FcbOf(t).name] = disk[FcbOf(t).name]
        BY <4>2, <1>0, <1>8, OpenFacts
      <4> QED
        BY <4>1, <4>4, <4>5, <1>0 DEF TookInv
    <3> QED
      BY <3>1, <3>2
  <2> QED
    BY <2>5, <2>6, <1>12 DEF TookInv
<1>14. FcbOf(s) = c /\ FcbOf(s)'.name = f
  BY <1>1, <1>7, <1>12 DEF FcbOf
<1> QED
  BY <1>5, <1>8, <1>9, <1>10, <1>11, <1>13, <1>14

-----------------------------------------------------------------------------
(* The calls, one by one.                                                  *)

Kept == StdioInv' /\ CallInv'

LEMMA Counted ==
  ASSUME calls \in 0 .. MaxCalls, Call
  PROVE  calls' \in 0 .. MaxCalls
  BY StdioAssumption DEF Call

LEMMA SaysNothing ==
  ASSUME NEW op, NEW s, NEW ret, op # "fgets" \/ ret = NULL, op # "fwrite", Returns(op, s, ret)
  PROVE  CallInv'
<1>1. call'.op = op /\ call'.ret = ret
  BY DEF Returns
<1> QED
  BY <1>1 DEF CallInv, LineInv, WriteCounted

\* A stream is looked at afresh where it is positioned.
LEMMA Positioned ==
  ASSUME StdioInv, SameTable, UNCHANGED <<disk, dir, used>>, NEW s \in Open,
         NEW n \in Nat, n <= FcbOf(s).eof, At(s, n), Afresh({s})
  PROVE  HeapInv' /\ DiskInv' /\ FcbInv' /\ TookInv'
<1> DEFINE new == [from |-> n, got |-> <<>>]
           p == fd_array[s].fcbptr
<1>0. HeapInv /\ DiskInv /\ FcbInv /\ TookInv /\ SameTable
  BY DEF StdioInv
<1>1. s \in Slots /\ p \in DOMAIN fcbs
  BY <1>0, OpenFacts
<1>2. fcbs[p] \in [name : FileNames, next : Nat, eof : Nat]
  BY <1>0, <1>1 DEF FcbInv
<1>3. fcbs'[p].next = n
  BY <1>2 DEF At
<1>4. took' = [t \in Slots |-> IF t \in {s}
                THEN [from |-> fcbs'[fd_array[t].fcbptr].next, got |-> <<>>] ELSE took[t]]
  BY DEF Afresh
<1>5. took' = [took EXCEPT ![s] = new]
  BY <1>0, <1>1, <1>3, <1>4 DEF TookInv
<1>6. <<>> \in Seq(Bytes) /\ Len(<<>>) = 0
  BY EmptySeq
<1>7. new \in [from : Nat, got : Seq(Bytes)] /\ new.from = n /\ new.got = <<>>
  BY <1>6
<1>8. SubSeq(disk[FcbOf(s).name], n + 1, n) = <<>>
  BY SubSeqEmpty
<1> HIDE DEF new
<1>9. n = new.from + Len(new.got) /\ new.got = SubSeq(disk[FcbOf(s).name], new.from + 1, n)
  BY <1>6, <1>7, <1>8
<1> QED
  BY <1>5, <1>7, <1>9, Moved

LEMMA SoughtAt ==
  ASSUME StdioInv, NEW s \in Open, NEW n \in Nat, dos_file_seek(s, n)
  PROVE  At(s, n)
<1>1. fd_array[s].fcbptr \in DOMAIN fcbs
  BY OpenFacts DEF StdioInv
<1> QED
  BY <1>1 DEF At, dos_file_seek

LEMMA AdvancedAt ==
  ASSUME StdioInv, NEW s \in Open, NEW k \in Nat, Advance(s, k)
  PROVE  At(s, FcbOf(s).next + k)
<1>1. fd_array[s].fcbptr \in DOMAIN fcbs
  BY OpenFacts DEF StdioInv
<1> QED
  BY <1>1 DEF At, Advance, FcbOf

LEMMA StillAt ==
  ASSUME StdioInv, NEW s \in Open, UNCHANGED fcbs
  PROVE  At(s, FcbOf(s).next)
<1> DEFINE c == FcbOf(s)
<1>1. fd_array[s].fcbptr \in DOMAIN fcbs
  BY OpenFacts DEF StdioInv
<1>2. c \in [name : FileNames, next : Nat, eof : Nat] /\ fcbs[fd_array[s].fcbptr] = c
  BY <1>1 DEF StdioInv, FcbInv, FcbOf
<1>3. c = [c EXCEPT !.next = c.next]
  <2> HIDE DEF c
  <2> QED
    BY <1>2
<1> HIDE DEF c
<1> QED
  BY <1>2, <1>3 DEF At, c

LEMMA IsOpen ==
  ASSUME NEW s \in Slots, IsFile(s)
  PROVE  s \in Open
  BY DEF Open

LEMMA ThenKept ==
  ASSUME StdioInv, Call, TableInv', HeapInv' /\ DiskInv' /\ FcbInv' /\ TookInv'
  PROVE  StdioInv'
  BY Counted DEF StdioInv

LEMMA SeekKeeps ==
  ASSUME StdioInv, NEW s \in Slots, NEW to \in Int, fseek(s, to)
  PROVE  Kept
<1>0. Call /\ s \in Open /\ UNCHANGED <<disk, dir, used>> /\ TableInv
  BY IsOpen DEF fseek, StdioInv
<1>1. CASE /\ \E place \in {to, dos_file_next(s) + to, dos_file_eof(s) + to} :
                /\ place \in 0 .. dos_file_eof(s)
                /\ dos_file_seek(s, place)
                /\ Returns("fseek", s, place)
           /\ fd_array' = [fd_array EXCEPT ![s].flag = @ \ {"EOF"}]
           /\ Afresh({s})
  <2>1. PICK place \in 0 .. dos_file_eof(s) :
               dos_file_seek(s, place) /\ Returns("fseek", s, place)
    BY <1>1
  <2>2. FcbOf(s).eof \in Nat
    BY <1>0, OpenFacts DEF StdioInv
  <2>3. place \in Nat /\ place <= FcbOf(s).eof
    BY <2>2 DEF dos_file_eof
  <2>4. SameTable
    BY <1>0, <1>1, ClearFlagsSame
  <2>5. At(s, place)
    BY <1>0, <2>1, <2>3, SoughtAt
  <2>6. HeapInv' /\ DiskInv' /\ FcbInv' /\ TookInv'
    BY <1>0, <1>1, <2>3, <2>4, <2>5, Positioned
  <2> QED
    BY <1>0, <2>1, <2>4, <2>6, SaysNothing, ThenKept DEF Kept, SameTable
<1>2. CASE Returns("fseek", s, -1) /\ UNCHANGED <<fcbs, fd_array, took>>
  <2>1. SameTable
    BY <1>0, <1>2, UnchangedTable
  <2>2. HeapInv' /\ DiskInv' /\ FcbInv' /\ TookInv'
    BY <1>0, <1>2, <2>1, SameFiles DEF FilesKept
  <2> QED
    BY <1>0, <1>2, <2>1, <2>2, SaysNothing, ThenKept DEF Kept, SameTable
<1> QED
  BY <1>1, <1>2 DEF fseek

LEMMA RewindKeeps ==
  ASSUME StdioInv, NEW s \in Slots, rewind(s)
  PROVE  Kept
<1>0. /\ Call /\ s \in Open /\ UNCHANGED <<disk, dir, used>> /\ TableInv
      /\ Returns("rewind", s, 0) /\ Afresh({s})
      /\ fd_array' = [fd_array EXCEPT ![s].flag = @ \ {"EOF"}]
  BY IsOpen DEF rewind, StdioInv
<1>1. SameTable
  BY <1>0, ClearFlagsSame
<1>2. FcbOf(s).eof \in Nat /\ FcbOf(s).next \in Nat /\ FcbOf(s).next <= FcbOf(s).eof
  BY <1>0, OpenFacts DEF StdioInv
<1>3. HeapInv' /\ DiskInv' /\ FcbInv' /\ TookInv'
  <2>1. CASE dos_file_seek(s, 0)
    <3>1. At(s, 0)
      BY <1>0, <2>1, SoughtAt
    <3> QED
      BY <3>1, <1>0, <1>1, <1>2, Positioned
  <2>2. CASE UNCHANGED fcbs
    <3>1. At(s, FcbOf(s).next)
      BY <1>0, <2>2, StillAt
    <3> QED
      BY <3>1, <1>0, <1>1, <1>2, Positioned
  <2> QED
    BY <2>1, <2>2 DEF rewind
<1> QED
  BY <1>0, <1>1, <1>3, SaysNothing, ThenKept DEF Kept, SameTable

LEMMA ClearerrKeeps ==
  ASSUME StdioInv, NEW s \in Slots, clearerr(s)
  PROVE  Kept
<1>0. /\ Call /\ UNCHANGED <<used, took>> /\ FilesKept /\ TableInv
      /\ Returns("clearerr", s, 0)
      /\ fd_array' = [fd_array EXCEPT ![s].flag = @ \ {"EOF", "ERROR"}]
  BY DEF clearerr, StdioInv
<1>1. SameTable
  BY <1>0, ClearFlagsSame
<1>2. HeapInv' /\ DiskInv' /\ FcbInv' /\ TookInv'
  BY <1>0, <1>1, SameFiles
<1> QED
  BY <1>0, <1>1, <1>2, SaysNothing, ThenKept DEF Kept, SameTable

LEMMA KeyboardKeeps ==
  ASSUME StdioInv, ReadKeyboard
  PROVE  Kept
<1>0. Call /\ UNCHANGED used /\ FilesKept /\ UNCHANGED took /\ TableInv
  BY DEF ReadKeyboard, StdioInv
<1>1. PICK s \in Slots :
        \/ SetFlag(s, "EOF") /\ Returns("fgetc", s, -1)
        \/ UNCHANGED fd_array /\ Returns("fgetc", s, NL)
        \/ /\ UNCHANGED fd_array
           /\ Returns("fgets", s, NULL)
  BY DEF ReadKeyboard
<1>2. SameTable
  BY <1>0, <1>1, SetFlagSame, UnchangedTable
<1>3. CallInv'
  BY <1>1, SaysNothing
<1>4. HeapInv' /\ DiskInv' /\ FcbInv' /\ TookInv'
  BY <1>0, <1>2, SameFiles
<1> QED
  BY <1>0, <1>2, <1>3, <1>4, ThenKept DEF Kept, SameTable

LEMMA UnchangedKeeps ==
  ASSUME StdioInv, CallInv, UNCHANGED stdioVars
  PROVE  Kept
<1>1. /\ fd_array' = fd_array /\ used' = used /\ fcbs' = fcbs /\ disk' = disk /\ dir' = dir
      /\ call' = call /\ took' = took /\ calls' = calls
  BY DEF stdioVars
<1>2. SameTable
  BY <1>1, UnchangedTable DEF StdioInv
<1>3. HeapInv' /\ DiskInv' /\ FcbInv' /\ TookInv'
  BY <1>1, <1>2, SameFiles DEF FilesKept
<1>4. CallInv'
  BY <1>1 DEF CallInv, LineInv, WriteCounted, FcbOf
<1> QED
  BY <1>1, <1>2, <1>3, <1>4 DEF Kept, StdioInv, SameTable

-----------------------------------------------------------------------------
(* Reading.                                                                *)

LEMMA WhatIsRead ==
  ASSUME StdioInv, NEW s \in Open, NEW good \in Nat
  PROVE  \E e \in Nat :
           /\ FcbOf(s).next <= e /\ e <= FcbOf(s).eof
           /\ dos_read_byte(s, good) = SubSeq(disk[FcbOf(s).name], FcbOf(s).next + 1, e)
           /\ dos_read_byte(s, good) \in Seq(Bytes)
           /\ Len(dos_read_byte(s, good)) = e - FcbOf(s).next
<1> DEFINE d == disk[FcbOf(s).name]
           a == FcbOf(s).next
           z == FcbOf(s).eof
           E == {z, Len(d), a + good}
           e == Min(E)
<1>1. a \in Nat /\ z \in Nat /\ a <= z /\ z <= Len(d) /\ d \in Seq(Bytes) /\ Len(d) \in Nat
  BY OpenFacts DEF StdioInv
<1>2. dos_read_byte(s, good) = SubSeq(d, a + 1, e)
  BY DEF dos_read_byte
<1> HIDE DEF d, a, z
<1>3. E \in SUBSET Nat /\ E # {}
  BY <1>1
<1> HIDE DEF E
<1>4. e \in E /\ \A y \in E : e <= y
  BY <1>3, MinFacts
<1> HIDE DEF e
<1>5. e \in Nat /\ a <= e /\ e <= z /\ e <= Len(d)
  BY <1>1, <1>4 DEF E
<1>6. SubSeq(d, a + 1, e) \in Seq(Bytes) /\ Len(SubSeq(d, a + 1, e)) = e - a
  BY <1>1, <1>5, PartFacts
<1> QED
  BY <1>2, <1>5, <1>6 DEF d, a, z

LEMMA FgetcSame ==
  ASSUME TableInv, NEW s \in Slots, NEW n, NEW good, fgetc(s, n, good)
  PROVE  SameTable
<1>1. UNCHANGED fd_array \/ SetFlag(s, "EOF")
  BY DEF fgetc
<1> QED
  BY <1>1, UnchangedTable, SetFlagSame

LEMMA ReadKeeps ==
  ASSUME StdioInv, NEW s \in Slots, NEW n \in Nat \ {0}, NEW good \in Good,
         fread(s, ItemSize, n, good)
  PROVE  Kept
<1> DEFINE got == dos_read_byte(s, good)
           all == ItemSize * n
           k == Min({all, Len(got)})
<1>0. /\ Call /\ s \in Open /\ UNCHANGED <<disk, dir, used>> /\ TableInv /\ Afresh({s})
      /\ fgetc(s, all, good) /\ Returns("fread", s, k \div ItemSize)
  BY IsOpen DEF fread, StdioInv
<1>1. SameTable
  BY <1>0, FgetcSame
<1>2. good \in Nat
  BY StdioAssumption DEF Good
<1>3. PICK e \in Nat : /\ FcbOf(s).next <= e /\ e <= FcbOf(s).eof
                       /\ Len(got) = e - FcbOf(s).next
  BY <1>0, <1>2, WhatIsRead
<1>4. FcbOf(s).next \in Nat /\ FcbOf(s).eof \in Nat
  BY <1>0, OpenFacts DEF StdioInv
<1>5. Advance(s, k)
  BY <1>0 DEF fgetc
<1> HIDE DEF got
<1>6. Len(got) \in Nat /\ all \in Nat
  <2>1. Len(got) \in Nat
    BY <1>3, <1>4
  <2>2. all \in Nat
    BY StdioAssumption
  <2> QED
    BY <2>1, <2>2
<1> HIDE DEF all
<1>7. k \in Nat /\ k <= Len(got)
  BY <1>6, MinOfTwo
<1> HIDE DEF k
<1>8. FcbOf(s).next + k \in Nat /\ FcbOf(s).next + k <= FcbOf(s).eof
  BY <1>3, <1>4, <1>7
<1>9. At(s, FcbOf(s).next + k)
  BY <1>0, <1>5, <1>7, AdvancedAt
<1>10. HeapInv' /\ DiskInv' /\ FcbInv' /\ TookInv'
  BY <1>0, <1>1, <1>8, <1>9, Positioned
<1> QED
  BY <1>0, <1>1, <1>10, SaysNothing, ThenKept DEF Kept, SameTable

\* A line ends at the first line end, and is shorter than the buffer.
LEMMA LineFacts ==
  ASSUME NEW got \in Seq(Bytes), NEW size \in Nat \ {0}
  PROVE  /\ LineLength(got, size) \in Nat /\ LineLength(got, size) <= size - 1
         /\ \A i \in DOMAIN got : got[i] = NL => LineLength(got, size) <= i
<1> DEFINE ends == {i \in DOMAIN got : got[i] = NL}
           all == {size - 1, Len(got) + 1} \cup ends
<1>1. Len(got) \in Nat /\ DOMAIN got = 1 .. Len(got)
  BY LenProperties
<1>2. all \in SUBSET Nat /\ all # {}
  BY <1>1
<1>3. Min(all) \in all /\ \A y \in all : Min(all) <= y
  <2> HIDE DEF all
  <2> QED
    BY <1>2, MinFacts
<1>4. LineLength(got, size) = Min(all)
  BY DEF LineLength
<1> QED
  BY <1>2, <1>3, <1>4

LEMMA GotChanged ==
  ASSUME NEW r \in [from : Nat, got : Seq(Bytes)], NEW x
  PROVE  [r EXCEPT !.got = x] = [from |-> r.from, got |-> x]
  OBVIOUS

LEMMA LineKeeps ==
  ASSUME StdioInv, NEW s \in Slots, NEW size \in Nat \ {0}, NEW good \in Good,
         fgets(s, size, good)
  PROVE  Kept
<1> DEFINE got == dos_read_byte(s, good)
           n == LineLength(got, size)
           k == Min({n, Len(got)})
           line == SubSeq(got, 1, k)
           a == FcbOf(s).next
           d == disk[FcbOf(s).name]
<1>0. Call /\ s \in Open /\ UNCHANGED <<disk, dir, used>> /\ TableInv /\ TookInv
  BY IsOpen DEF fgets, StdioInv
<1>1. CASE "EOF" \in fd_array[s].flag
  <2>1. Returns("fgets", s, NULL) /\ UNCHANGED <<fd_array, fcbs, took>>
    BY <1>1 DEF fgets
  <2>2. SameTable
    BY <1>0, <2>1, UnchangedTable
  <2>3. HeapInv' /\ DiskInv' /\ FcbInv' /\ TookInv'
    BY <1>0, <2>1, <2>2, SameFiles DEF FilesKept
  <2>4. CallInv'
    BY <2>1, SaysNothing
  <2> QED
    BY <1>0, <2>2, <2>3, <2>4, ThenKept DEF Kept, SameTable
<1>2. CASE "EOF" \notin fd_array[s].flag
  <2>0. /\ fgetc(s, n, good)
        /\ \/ Returns("fgets", s, NULL)
           \/ call' = [op |-> "fgets", s |-> s, ret |-> size, line |-> line]
        /\ took' = [took EXCEPT ![s].got = @ \o line]
    BY <1>2 DEF fgets
  <2>1. SameTable
    BY <1>0, <2>0, FgetcSame
  <2>2. good \in Nat
    BY StdioAssumption DEF Good
  <2>3. PICK e \in Nat : /\ a <= e /\ e <= FcbOf(s).eof
                         /\ got = SubSeq(d, a + 1, e)
                         /\ got \in Seq(Bytes) /\ Len(got) = e - a
    BY <1>0, <2>2, WhatIsRead
  <2>4. /\ a \in Nat /\ FcbOf(s).eof \in Nat /\ d \in Seq(Bytes) /\ Len(d) \in Nat
        /\ FcbOf(s).eof <= Len(d)
    BY <1>0, OpenFacts DEF StdioInv
  <2>5. Advance(s, k)
    BY <2>0 DEF fgetc
  <2> HIDE DEF got
  <2>6. n \in Nat /\ n <= size - 1 /\ \A i \in DOMAIN got : got[i] = NL => n <= i
    <3>1. size \in Nat \ {0} /\ got \in Seq(Bytes)
      BY <2>3
    <3> QED
      BY <3>1, LineFacts
  <2> HIDE DEF n, a, d
  <2>7. Len(got) \in Nat /\ DOMAIN got = 1 .. Len(got)
    BY <2>3, LenProperties
  <2>8. k \in Nat /\ k <= n /\ k <= Len(got)
    BY <2>6, <2>7, MinOfTwo
  <2> HIDE DEF k
  <2>9. line \in Seq(Bytes) /\ Len(line) = k /\ \A i \in 1 .. k : line[i] = got[i]
    <3>1. 0 \in Nat /\ 0 <= k /\ k - 0 = k /\ 0 + 1 = 1 /\ \A i \in 1 .. k : 0 + i = i
      BY <2>8
    <3>2. /\ SubSeq(got, 0 + 1, k) \in Seq(Bytes) /\ Len(SubSeq(got, 0 + 1, k)) = k - 0
          /\ \A i \in 1 .. k - 0 : SubSeq(got, 0 + 1, k)[i] = got[0 + i]
      BY <3>1, <2>3, <2>8, PartFacts
    <3> QED
      BY <3>1, <3>2
  <2>10. line = SubSeq(d, a + 1, a + k)
    <3>1. a + k <= e /\ e <= Len(d)
      BY <2>3, <2>4, <2>7, <2>8
    <3> QED
      BY <3>1, <2>3, <2>4, <2>8, PartOfPart
  <2> HIDE DEF line
  <2>11. CallInv'
    <3>1. CASE Returns("fgets", s, NULL)
      BY <3>1, SaysNothing
    <3>2. CASE call' = [op |-> "fgets", s |-> s, ret |-> size, line |-> line]
      <4>1. call'.op = "fgets" /\ call'.ret = size /\ call'.line = line
        BY <3>2
      <4>2. Len(line) < size
        BY <2>6, <2>8, <2>9
      <4>3. \A i \in 1 .. Len(line) - 1 : line[i] # NL
        BY <2>6, <2>7, <2>8, <2>9
      <4> QED
        BY <4>1, <4>2, <4>3 DEF CallInv, LineInv, WriteCounted
    <3> QED
      BY <2>0, <3>1, <3>2
  <2>12. At(s, a + k)
    BY <1>0, <2>5, <2>8, AdvancedAt DEF a
  <2>13. a + k \in Nat /\ a + k <= FcbOf(s).eof
    BY <2>3, <2>4, <2>7, <2>8
  <2> DEFINE r == took[s]
             new == [from |-> r.from, got |-> r.got \o line]
  <2>14. r \in [from : Nat, got : Seq(Bytes)]
    BY <1>0 DEF TookInv
  <2>15. a = r.from + Len(r.got) /\ r.got = SubSeq(d, r.from + 1, a)
    BY <1>0 DEF TookInv, a, d
  <2>16. took' = [took EXCEPT ![s] = new]
    <3>1. took' = [took EXCEPT ![s] = [took[s] EXCEPT !.got = took[s].got \o line]]
      BY <2>0
    <3>2. [r EXCEPT !.got = r.got \o line] = new
      <4> HIDE DEF r
      <4> QED
        BY <2>14, GotChanged
    <3> QED
      BY <3>1, <3>2
  <2> HIDE DEF r
  <2>17. r.from \in Nat /\ r.got \in Seq(Bytes) /\ Len(r.got) \in Nat
    BY <2>14, LenProperties
  <2> DEFINE g == r.got
             h == g \o line
  <2>18. h \in Seq(Bytes) /\ Len(h) = Len(g) + k
    <3>1. g \in Seq(Bytes) /\ line \in Seq(Bytes)
      BY <2>9, <2>17
    <3> HIDE DEF g
    <3> QED
      BY <3>1, <2>9, ConcatProperties
  <2>19. h = SubSeq(d, r.from + 1, a + k)
    <3> DEFINE f == r.from
               b == a + k
    <3>0. a = f + Len(r.got)
      BY <2>15
    <3>1. f \in Nat /\ f <= a /\ a <= b /\ b <= Len(d) /\ b \in Nat
      <4>1. f \in Nat /\ Len(r.got) \in Nat
        BY <2>17
      <4>2. b \in Nat /\ b <= Len(d)
        BY <2>4, <2>13
      <4> HIDE DEF f
      <4> QED
        BY <4>1, <4>2, <3>0, <2>4, <2>8
    <3>2. h = SubSeq(d, f + 1, a) \o SubSeq(d, a + 1, b)
      BY <2>10, <2>15
    <3> HIDE DEF f, b, h
    <3>3. SubSeq(d, f + 1, a) \o SubSeq(d, a + 1, b) = SubSeq(d, f + 1, b)
      BY <3>1, <2>4, PartsJoin
    <3> QED
      BY <3>2, <3>3 DEF f, b
  <2>20. new \in [from : Nat, got : Seq(Bytes)] /\ new.from = r.from /\ new.got = h
    <3> HIDE DEF h
    <3>1. new = [from |-> r.from, got |-> h]
      BY DEF h
    <3> HIDE DEF new
    <3> QED
      BY <3>1, <2>17, <2>18
  <2>21. a + k = new.from + Len(new.got) /\ new.got = SubSeq(d, new.from + 1, a + k)
    <3> HIDE DEF new, h
    <3>1. Len(new.got) = Len(r.got) + k
      BY <2>18, <2>20
    <3>2. a = r.from + Len(r.got)
      BY <2>15
    <3>3. a + k = new.from + Len(new.got)
      BY <3>1, <3>2, <2>8, <2>17, <2>20
    <3> QED
      BY <3>3, <2>19, <2>20
  <2> HIDE DEF new
  <2>22. HeapInv' /\ DiskInv' /\ FcbInv' /\ TookInv'
    BY <1>0, <2>1, <2>12, <2>13, <2>16, <2>20, <2>21, Moved DEF d
  <2> QED
    BY <1>0, <2>1, <2>11, <2>22, ThenKept DEF Kept, SameTable
<1> QED
  BY <1>1, <1>2

-----------------------------------------------------------------------------
(* Writing.                                                                *)

LEMMA PutsKeeps ==
  ASSUME StdioInv, NEW s \in Slots, NEW str \in Lines, fputs(str, s)
  PROVE  Kept
<1>1. PICK bad \in 1 .. Len(str) + 1 :
        /\ Call /\ IsFile(s)
        /\ dos_write_byte(s, SubSeq(str, 1, bad - 1))
        /\ IF bad <= Len(str) THEN SetError(s) ELSE UNCHANGED fd_array
        /\ Returns("fputs", s, IF bad <= Len(str) THEN -1 ELSE 0)
        /\ Afresh(Sharing(s))
        /\ UNCHANGED <<dir, used>>
  BY DEF fputs
<1> DEFINE k == bad - 1
<1>2. str \in Seq(Bytes) /\ Len(str) \in Nat
  BY LinesTyped
<1>3. k \in Nat /\ k <= Len(str)
  BY <1>2
<1> HIDE DEF k
<1>4. SubSeq(str, 1, k) \in Seq(Bytes)
  <2>1. 0 \in Nat /\ 0 <= k /\ 0 + 1 = 1
    BY <1>3
  <2>2. SubSeq(str, 0 + 1, k) \in Seq(Bytes)
    BY <2>1, <1>2, <1>3, PartFacts
  <2> QED
    BY <2>1, <2>2
<1>5. s \in Open /\ TableInv
  BY <1>1, IsOpen DEF StdioInv
<1>6. SameTable
  <2>1. UNCHANGED fd_array \/ SetFlag(s, "ERROR")
    BY <1>1 DEF SetError
  <2> QED
    BY <2>1, <1>5, UnchangedTable, SetFlagSame
<1>7. dos_write_byte(s, SubSeq(str, 1, k))
  BY <1>1 DEF k
<1>8. HeapInv' /\ DiskInv' /\ FcbInv' /\ TookInv'
  BY <1>1, <1>4, <1>5, <1>6, <1>7, Wrote
<1>9. CallInv'
  BY <1>1, SaysNothing
<1> QED
  BY <1>1, <1>6, <1>8, <1>9, ThenKept DEF Kept, SameTable

\* The bytes of some items of a string, and of these the ones that reach the file.
Repeated(str, items) == [i \in 1 .. Len(str) * items |-> str[((i - 1) % Len(str)) + 1]]
DoneOf(failing, b) == Cardinality((1 .. b) \ failing)
WrittenOf(str, items, failing) ==
  [i \in 1 .. DoneOf(failing, Len(str) * items) |->
     Repeated(str, items)[Min({b \in DOMAIN Repeated(str, items) : DoneOf(failing, b) >= i})]]

Span(size, items) == size * items
NoneOf(failing, m) == failing \cap (1 .. m) = {}

LEMMA DoneFacts ==
  ASSUME NEW failing, NEW b \in Nat
  PROVE  /\ DoneOf(failing, b) \in Nat
         /\ failing \cap (1 .. b) = {} => DoneOf(failing, b) = b
<1>1. IsFiniteSet(1 .. b) /\ Cardinality(1 .. b) = b
  BY FS_Interval
<1>2. IsFiniteSet((1 .. b) \ failing)
  BY <1>1, FS_Difference
<1>3. DoneOf(failing, b) \in Nat
  BY <1>2, FS_CardinalityType DEF DoneOf
<1>4. failing \cap (1 .. b) = {} => (1 .. b) \ failing = 1 .. b
  OBVIOUS
<1> QED
  BY <1>1, <1>3, <1>4 DEF DoneOf

LEMMA DoneGrows ==
  ASSUME NEW failing, NEW a \in Nat, NEW b \in Nat, a <= b
  PROVE  DoneOf(failing, a) <= DoneOf(failing, b)
<1>1. IsFiniteSet(1 .. b)
  BY FS_Interval
<1>2. IsFiniteSet((1 .. b) \ failing)
  BY <1>1, FS_Difference
<1>3. (1 .. a) \ failing \subseteq (1 .. b) \ failing
  OBVIOUS
<1> QED
  BY <1>2, <1>3, FS_Subset DEF DoneOf

LEMMA RepeatedFacts ==
  ASSUME NEW str \in Seq(Bytes), Len(str) > 0, NEW items \in Nat
  PROVE  /\ Len(str) * items \in Nat
         /\ DOMAIN Repeated(str, items) = 1 .. Len(str) * items
         /\ \A i \in 1 .. Len(str) * items :
              /\ Repeated(str, items)[i] = str[((i - 1) % Len(str)) + 1]
              /\ Repeated(str, items)[i] \in Bytes
<1> DEFINE size == Len(str)
<1>1. size \in Nat \ {0}
  BY LenProperties
<1>2. size * items \in Nat
  <2> HIDE DEF size
  <2> QED
    BY <1>1
<1>3. ASSUME NEW i \in 1 .. size * items
      PROVE  str[((i - 1) % size) + 1] \in Bytes
  <2> DEFINE r == (i - 1) % size
  <2>1. r \in 0 .. size - 1
    <3> HIDE DEF size
    <3>1. i - 1 \in Int
      BY <1>2
    <3> QED
      BY <1>1, <3>1
  <2> HIDE DEF r
  <2>2. r + 1 \in 1 .. size
    <3> HIDE DEF size
    <3> QED
      BY <1>1, <2>1
  <2>3. str[r + 1] \in Bytes
    BY <2>2, ElementOfSeq
  <2> QED
    BY <2>3 DEF r
<1> QED
  BY <1>2, <1>3 DEF Repeated

LEMMA WrittenFacts ==
  ASSUME NEW str \in Seq(Bytes), Len(str) > 0, NEW items \in Nat, NEW failing,
         NEW m \in Nat, m <= Span(Len(str), items), NoneOf(failing, m)
  PROVE  /\ WrittenOf(str, items, failing) \in Seq(Bytes)
         /\ m <= Len(WrittenOf(str, items, failing))
         /\ \A i \in 1 .. m :
              WrittenOf(str, items, failing)[i] = str[((i - 1) % Len(str)) + 1]
<1> DEFINE N == Len(str) * items
           rep == Repeated(str, items)
           D(b) == DoneOf(failing, b)
           B(i) == {b \in 1 .. N : D(b) >= i}
           w == WrittenOf(str, items, failing)
<1>1. N \in Nat /\ DOMAIN rep = 1 .. N /\ \A i \in 1 .. N : rep[i] \in Bytes
  BY RepeatedFacts
<1>2. \A i \in 1 .. N : rep[i] = str[((i - 1) % Len(str)) + 1]
  BY RepeatedFacts
<1>3. w = [i \in 1 .. D(N) |-> rep[Min(B(i))]]
  BY <1>1 DEF WrittenOf
<1>4. \A b \in Nat : D(b) \in Nat
  BY DoneFacts
<1>5. \A b \in 0 .. m : D(b) = b
  <2> TAKE b \in 0 .. m
  <2>1. b \in Nat /\ failing \cap (1 .. b) = {}
    BY DEF NoneOf
  <2> QED
    BY <2>1, DoneFacts
<1>6. m <= N
  BY DEF Span
<1>7. m <= D(N)
  <2>1. D(m) <= D(N)
    BY <1>1, <1>6, DoneGrows
  <2> QED
    BY <2>1, <1>5
<1> HIDE DEF N, rep, D, w
<1>8. ASSUME NEW i \in 1 .. D(N)
      PROVE  Min(B(i)) \in B(i) /\ \A y \in B(i) : Min(B(i)) <= y
  <2>1. N \in B(i)
    <3>1. N # 0
      <4>1. CASE m = 0
        <5>1. N = 0 => D(N) = 0
          BY <1>5, <4>1
        <5> QED
          BY <5>1, <1>1
      <4>2. CASE m # 0
        BY <4>2, <1>1, <1>6
      <4> QED
        BY <4>1, <4>2
    <3>2. D(N) \in Nat /\ D(N) >= i
      BY <1>1, <1>4
    <3> QED
      BY <1>1, <3>1, <3>2
  <2>2. B(i) \in SUBSET Nat /\ B(i) # {}
    BY <2>1
  <2> QED
    BY <2>2, MinFacts
<1>9. D(N) \in Nat
  BY <1>1, <1>4
<1>10. w \in [1 .. D(N) -> Bytes]
  <2>1. \A i \in 1 .. D(N) : rep[Min(B(i))] \in Bytes
    BY <1>1, <1>8
  <2> QED
    BY <1>3, <2>1
<1>11. w \in Seq(Bytes) /\ Len(w) = D(N)
  <2>1. w \in Seq(Bytes)
    BY <1>9, <1>10, SeqDef
  <2>2. DOMAIN w = 1 .. D(N)
    BY <1>10
  <2> QED
    BY <2>1, <2>2, <1>9, LenProperties
<1>12. ASSUME NEW i \in 1 .. m
       PROVE  w[i] = str[((i - 1) % Len(str)) + 1]
  <2>0. i \in 1 .. D(N) /\ i \in 1 .. N
    BY <1>1, <1>6, <1>7, <1>9
  <2>1. i \in B(i)
    BY <1>5, <2>0
  <2> DEFINE x == Min(B(i))
  <2>2. x \in 1 .. N /\ x <= i /\ D(x) >= i
    BY <1>8, <2>0, <2>1
  <2> HIDE DEF x
  <2>3. D(x) = x
    BY <1>5, <2>2
  <2>4. x = i
    BY <2>2, <2>3
  <2>5. w[i] = rep[x]
    BY <1>3, <2>0 DEF x
  <2> QED
    BY <2>0, <2>4, <2>5, <1>2
<1> QED
  BY <1>7, <1>11, <1>12 DEF w

\* A byte of the first k items is of an item before the k-th.
LEMMA ItemOf ==
  ASSUME NEW size \in Nat \ {0}, NEW k \in Nat, NEW b \in 1 .. k * size
  PROVE  (b - 1) \div size \in Nat /\ (b - 1) \div size < k
<1> DEFINE q == (b - 1) \div size
           r == (b - 1) % size
<1>1. k * size \in Nat
  OBVIOUS
<1>2. b - 1 \in Nat /\ b <= k * size
  BY <1>1
<1>3. q \in Nat /\ r \in Nat /\ b - 1 = size * q + r
  BY <1>2
<1> HIDE DEF q, r
<1>4. CASE q >= k
  <2>1. q * size >= k * size
    BY <1>3, <1>4
  <2> QED
    BY <2>1, <1>1, <1>2, <1>3
<1> QED
  BY <1>3, <1>4 DEF q


\* The items before the first one with a byte that failed, and no byte of them failed.
StopsOf(size, nmemb, failing, had) ==
  {i \in 1 .. nmemb : (\E b \in failing : (b - 1) \div size = i - 1) \/ had}
ItemsOf(size, nmemb, failing, had) ==
  LET stops == StopsOf(size, nmemb, failing, had)
  IN IF stops = {} THEN nmemb ELSE Min(stops)

LEMMA ItemsWhole ==
  ASSUME NEW size \in Nat \ {0}, NEW nmemb \in Nat \ {0}, NEW failing,
         NEW had \in BOOLEAN
  PROVE  LET items == ItemsOf(size, nmemb, failing, had)
         IN items \in 1 .. nmemb /\ NoneOf(failing, Span(items - 1, size))
<1> DEFINE stops == StopsOf(size, nmemb, failing, had)
           items == ItemsOf(size, nmemb, failing, had)
<1>0. /\ stops = {i \in 1 .. nmemb : (\E b \in failing : (b - 1) \div size = i - 1) \/ had}
      /\ items = IF stops = {} THEN nmemb ELSE Min(stops)
  BY DEF StopsOf, ItemsOf
<1> HIDE DEF stops, items
<1>1. stops \in SUBSET Nat
  BY <1>0
<1>2. stops # {} => items \in stops /\ \A y \in stops : items <= y
  BY <1>0, <1>1, MinFacts
<1>3. items \in 1 .. nmemb
  BY <1>0, <1>2
<1> DEFINE k == items - 1
<1>4. NoneOf(failing, Span(k, size))
  <2>1. k \in Nat /\ items = k + 1 /\ k <= nmemb - 1
    BY <1>3
  <2> HIDE DEF k
  <2>2. ASSUME NEW b \in failing, b \in 1 .. k * size
        PROVE  FALSE
    <3> DEFINE q == (b - 1) \div size
    <3>1. q \in Nat /\ q < k
      BY <2>1, <2>2, ItemOf
    <3> HIDE DEF q
    <3>2. q + 1 \in 1 .. nmemb /\ (q + 1) - 1 = q
      BY <2>1, <3>1
    <3>3. q + 1 \in stops
      BY <3>2, <1>0 DEF q
    <3>4. items <= q + 1
      BY <3>3, <1>2
    <3> QED
      BY <2>1, <3>1, <3>4
  <2> QED
    BY <2>2 DEF NoneOf, Span
<1> QED
  BY <1>3, <1>4 DEF items

LEMMA WriteKeeps ==
  ASSUME StdioInv, NEW s \in Slots, NEW str \in Lines, NEW nmemb \in Nat \ {0},
         fwrite(str, nmemb, s)
  PROVE  Kept
<1> DEFINE had == "ERROR" \in fd_array'[s].flag
           size == Len(str)
<1>1. PICK failing \in SUBSET (1 .. Len(str) * nmemb) :
        LET Bad(i) == \E b \in failing : (b - 1) \div size = i - 1
            stops == {i \in 1 .. nmemb : Bad(i) \/ "ERROR" \in fd_array[s].flag}
            items == IF stops = {} THEN nmemb ELSE Min(stops)
            bytes == [i \in 1 .. size * items |-> str[((i - 1) % size) + 1]]
            Done(b) == Cardinality((1 .. b) \ failing)
            written == [i \in 1 .. Done(size * items) |->
                          bytes[Min({b \in DOMAIN bytes : Done(b) >= i})]]
        IN /\ Call /\ IsFile(s) /\ size > 0
           /\ failing \subseteq 1 .. size * items
           /\ dos_write_byte(s, written)
           /\ IF failing = {} THEN UNCHANGED fd_array ELSE SetError(s)
           /\ call' = [op |-> "fwrite", s |-> s, item |-> str, at |-> FcbOf(s).next,
                       ret |-> IF had THEN items - 1 ELSE nmemb]
           /\ Afresh(Sharing(s))
           /\ UNCHANGED <<dir, used>>
  BY DEF fwrite
<1> DEFINE before == "ERROR" \in fd_array[s].flag
           stops == {i \in 1 .. nmemb : (\E b \in failing : (b - 1) \div size = i - 1) \/ before}
           items == IF stops = {} THEN nmemb ELSE Min(stops)
           w == WrittenOf(str, items, failing)
           ret == IF had THEN items - 1 ELSE nmemb
           start == FcbOf(s).next
<1>2. /\ Call /\ IsFile(s) /\ size > 0
      /\ failing \subseteq 1 .. size * items
      /\ IF failing = {} THEN UNCHANGED fd_array ELSE SetError(s)
      /\ call' = [op |-> "fwrite", s |-> s, item |-> str, at |-> start, ret |-> ret]
      /\ Afresh(Sharing(s))
      /\ UNCHANGED <<dir, used>>
  BY <1>1
<1>3. dos_write_byte(s, w)
  BY <1>1 DEF WrittenOf, Repeated, DoneOf
<1>4. s \in Open /\ TableInv
  BY <1>2, IsOpen DEF StdioInv
<1>5. str \in Seq(Bytes) /\ size \in Nat \ {0}
  BY <1>2, LinesTyped
<1>6. items \in 1 .. nmemb /\ failing \cap (1 .. (items - 1) * size) = {}
  <2>1. before \in BOOLEAN
    OBVIOUS
  <2>2. items = ItemsOf(size, nmemb, failing, before)
    BY DEF ItemsOf, StopsOf
  <2> HIDE DEF before, stops, items, size
  <2>3. items \in 1 .. nmemb /\ NoneOf(failing, Span(items - 1, size))
    BY <2>1, <2>2, <1>5, ItemsWhole
  <2> QED
    BY <2>3 DEF Span, NoneOf
<1>7. SameTable
  <2>1. UNCHANGED fd_array \/ SetFlag(s, "ERROR")
    BY <1>2 DEF SetError
  <2> QED
    BY <2>1, <1>4, UnchangedTable, SetFlagSame
<1> DEFINE m == ret * size
<1>8. m \in Nat /\ m <= size * items /\ failing \cap (1 .. m) = {}
  <2>1. CASE had
    <3>1. ret = items - 1
      BY <2>1
    <3>2. ret * size \in Nat /\ ret * size <= size * items
      <4> HIDE DEF items, size, had, ret
      <4>1. ret \in Nat /\ items = ret + 1
        BY <3>1, <1>6
      <4>2. size * (ret + 1) = ret * size + size
        BY <4>1, <1>5
      <4> QED
        BY <4>1, <4>2, <1>5
    <3> QED
      BY <3>1, <3>2, <1>6
  <2>2. CASE ~had
    <3>1. failing = {}
      <4>1. SetError(s) => had
        <5>1. s \in Slots /\ s \in DOMAIN fd_array
          BY <1>4 DEF TableInv
        <5> SUFFICES ASSUME SetError(s)
                     PROVE  had
          OBVIOUS
        <5>2. fd_array' = [fd_array EXCEPT ![s].flag = @ \cup {"ERROR"}]
          BY DEF SetError, SetFlag
        <5>3. fd_array[s] \in [flag : SUBSET Flags, buf : Nat, fcbptr : Int]
          BY <1>4 DEF TableInv
        <5>4. fd_array'[s].flag = fd_array[s].flag \cup {"ERROR"}
          BY <5>1, <5>2, <5>3
        <5> QED
          BY <5>4
      <4> QED
        BY <4>1, <1>2, <2>2
    <3>2. ~before
      BY <3>1, <1>2, <2>2
    <3>3. stops = {} /\ items = nmemb
      BY <3>1, <3>2
    <3>4. ret = items
      BY <3>3, <2>2
    <3>5. ret * size \in Nat /\ ret * size <= size * items
      <4> HIDE DEF items, size, had, ret
      <4>1. ret \in Nat
        BY <3>4, <1>6
      <4> QED
        BY <4>1, <3>4, <1>5
    <3> QED
      BY <3>1, <3>5
  <2> QED
    BY <2>1, <2>2
<1> HIDE DEF had, before, stops, items, ret, m, size, start
<1>9. /\ w \in Seq(Bytes) /\ m <= Len(w)
      /\ \A i \in 1 .. m : w[i] = str[((i - 1) % size) + 1]
  <2>1. items \in Nat /\ Len(str) > 0 /\ m <= Len(str) * items
    BY <1>2, <1>6, <1>8 DEF size
  <2> DEFINE x == items
             l == m
  <2>2. x \in Nat /\ l \in Nat /\ l <= Span(Len(str), x) /\ NoneOf(failing, l)
    BY <2>1, <1>8 DEF Span, NoneOf
  <2> HIDE DEF x, l
  <2>3. /\ WrittenOf(str, x, failing) \in Seq(Bytes)
        /\ l <= Len(WrittenOf(str, x, failing))
        /\ \A i \in 1 .. l : WrittenOf(str, x, failing)[i] = str[((i - 1) % Len(str)) + 1]
    <3>1. str \in Seq(Bytes) /\ Len(str) > 0
      BY <2>1, <1>5
    <3> QED
      BY <3>1, <2>2, WrittenFacts
  <2> QED
    BY <2>3 DEF x, l, size
<1> HIDE DEF w
<1>10. /\ HeapInv' /\ DiskInv' /\ FcbInv' /\ TookInv'
       /\ \A i \in 1 .. Len(w) :
            /\ start + i \in DOMAIN disk'[FcbOf(s)'.name]
            /\ disk'[FcbOf(s)'.name][start + i] = w[i]
  BY <1>2, <1>3, <1>4, <1>7, <1>9, Wrote DEF start
<1>11. CallInv'
  <2>1. /\ call'.op = "fwrite" /\ call'.s = s /\ call'.item = str /\ call'.at = start
        /\ call'.ret = ret
    BY <1>2
  <2>2. LineInv'
    BY <2>1 DEF LineInv
  <2>3. Len(w) \in Nat
    BY <1>9, LenProperties
  <2>4. \A i \in 1 .. m : i \in 1 .. Len(w)
    BY <2>3, <1>8, <1>9
  <2>5. \A i \in 1 .. m : /\ start + i \in DOMAIN disk'[FcbOf(s)'.name]
                          /\ disk'[FcbOf(s)'.name][start + i] = str[((i - 1) % size) + 1]
    BY <2>4, <1>9, <1>10
  <2>6. WriteCounted'
    BY <2>1, <2>5 DEF WriteCounted, m, size, FcbOf
  <2> QED
    BY <2>2, <2>6 DEF CallInv
<1> QED
  BY <1>2, <1>7, <1>10, <1>11, ThenKept DEF Kept, SameTable

-----------------------------------------------------------------------------
(* Opening and closing.                                                    *)

\* A file that DOS makes is one that no stream has open.
LEMMA FileTaken ==
  ASSUME StdioInv, NEW f \in FileNames, dos_file_open(f)
  PROVE  /\ DiskInv'
         /\ dir'[f] \in Nat /\ dir'[f] <= Len(disk'[f])
         /\ \A b \in DOMAIN fcbs : /\ disk'[fcbs[b].name] = disk[fcbs[b].name]
                                   /\ dir'[fcbs[b].name] = dir[fcbs[b].name]
<1>0. DiskInv /\ FcbInv
  BY DEF StdioInv
<1>1. /\ dir' = [dir EXCEPT ![f] = IF dir[f] = -1 THEN 0 ELSE dir[f]]
      /\ disk' = [disk EXCEPT ![f] = IF dir[f] = -1 THEN <<>> ELSE disk[f]]
  BY <1>0 DEF dos_file_open, DiskInv
<1>2. <<>> \in Seq(Bytes) /\ Len(<<>>) = 0 /\ MaxSize \in Nat
  BY EmptySeq, StdioAssumption
<1>3. /\ dir'[f] = IF dir[f] = -1 THEN 0 ELSE dir[f]
      /\ disk'[f] = IF dir[f] = -1 THEN <<>> ELSE disk[f]
      /\ \A g \in FileNames \ {f} : dir'[g] = dir[g] /\ disk'[g] = disk[g]
  BY <1>0, <1>1 DEF DiskInv
<1>4. disk' \in [FileNames -> Seq(Bytes)] /\ dir' \in [FileNames -> Int]
  BY <1>0, <1>1, <1>2 DEF DiskInv
<1>5. \A g \in FileNames : Len(disk[g]) <= MaxSize /\ dir[g] \in -1 .. Len(disk[g])
  BY <1>0 DEF DiskInv
<1>6. \A g \in FileNames : Len(disk[g]) \in Nat
  <2> TAKE g \in FileNames
  <2>1. disk[g] \in Seq(Bytes)
    BY <1>0 DEF DiskInv
  <2> QED
    BY <2>1, LenProperties
<1>7. ASSUME NEW g \in FileNames
      PROVE  Len(disk'[g]) <= MaxSize /\ dir'[g] \in -1 .. Len(disk'[g])
  <2>1. CASE g = f /\ dir[f] = -1
    BY <2>1, <1>2, <1>3
  <2>2. CASE g # f \/ dir[f] # -1
    BY <2>2, <1>3, <1>5
  <2> QED
    BY <2>1, <2>2
<1>8. DiskInv'
  BY <1>4, <1>7 DEF DiskInv
<1>9. dir'[f] \in Nat /\ dir'[f] <= Len(disk'[f])
  <2>1. CASE dir[f] = -1
    BY <2>1, <1>2, <1>3
  <2>2. CASE dir[f] # -1
    BY <2>2, <1>3, <1>5, <1>6
  <2> QED
    BY <2>1, <2>2
<1>10. ASSUME NEW b \in DOMAIN fcbs
       PROVE  disk'[fcbs[b].name] = disk[fcbs[b].name] /\ dir'[fcbs[b].name] = dir[fcbs[b].name]
  <2>1. fcbs[b].name \in FileNames /\ dir[fcbs[b].name] # -1
    BY <1>0 DEF FcbInv
  <2>2. CASE fcbs[b].name = f
    BY <2>1, <2>2, <1>3
  <2>3. CASE fcbs[b].name # f
    BY <2>1, <2>3, <1>3
  <2> QED
    BY <2>2, <2>3
<1> QED
  BY <1>8, <1>9, <1>10

\* The files of open streams stay as they are, whatever becomes of others.
LEMMA OtherFiles ==
  ASSUME StdioInv, SameTable, UNCHANGED <<fcbs, took, used>>,
         \A b \in DOMAIN fcbs : /\ disk'[fcbs[b].name] = disk[fcbs[b].name]
                                /\ dir'[fcbs[b].name] = dir[fcbs[b].name]
  PROVE  HeapInv' /\ FcbInv' /\ TookInv'
<1>0. HeapInv /\ DiskInv /\ FcbInv /\ TookInv
  BY DEF StdioInv
<1>1. HeapInv'
  BY <1>0, SameHeap
<1>2. FcbInv'
  <2> SUFFICES ASSUME NEW b \in DOMAIN fcbs
               PROVE  /\ fcbs[b] \in [name : FileNames, next : Nat, eof : Nat]
                      /\ fcbs[b].next <= fcbs[b].eof
                      /\ fcbs[b].eof <= Len(disk'[fcbs[b].name]) /\ dir'[fcbs[b].name] # -1
    BY DEF FcbInv
  <2> QED
    BY <1>0 DEF FcbInv
<1>3. Open' = Open /\ \A s \in Open : FcbOf(s)' = FcbOf(s) /\ disk'[FcbOf(s).name] = disk[FcbOf(s).name]
  <2>1. Open' = Open /\ \A s \in Open : fd_array'[s].fcbptr = fd_array[s].fcbptr
    BY SameOpen DEF SameTable, Open
  <2>2. \A s \in Open : fd_array[s].fcbptr \in DOMAIN fcbs
    BY <1>0, OpenFacts
  <2> QED
    BY <2>1, <2>2 DEF FcbOf
<1>4. TookInv'
  BY <1>0, <1>3 DEF TookInv
<1> QED
  BY <1>1, <1>2, <1>4

LEMMA OpenFinite ==
  ASSUME MAX_FILES \in Nat
  PROVE  IsFiniteSet(Open)
<1>1. IsFiniteSet(Slots)
  BY FS_Interval DEF Slots
<1> QED
  BY <1>1, FS_Subset DEF Open

LEMMA UsedFinite ==
  ASSUME HeapInv
  PROVE  IsFiniteSet(used)
<1>1. IsFiniteSet(1 .. HeapBlocks)
  BY StdioAssumption, FS_Interval
<1> QED
  BY <1>1, FS_Subset DEF HeapInv

LEMMA TwoBlocks ==
  ASSUME NEW S \in SUBSET Nat, IsFiniteSet(S), Cardinality(S) >= 2
  PROVE  /\ Min(S) \in S /\ Min(S \ {Min(S)}) \in S
         /\ Min(S) # Min(S \ {Min(S)})
<1>1. S # {}
  BY FS_EmptySet
<1>2. Min(S) \in S
  BY <1>1, MinFacts
<1> DEFINE a == Min(S)
<1> HIDE DEF a
<1>3. a \in S
  BY <1>2 DEF a
<1>4. Cardinality(S \ {a}) = Cardinality(S) - 1 /\ IsFiniteSet(S \ {a})
  BY <1>3, FS_RemoveElement
<1>5. Cardinality(S) \in Nat
  BY FS_CardinalityType
<1>6. S \ {a} # {}
  BY <1>4, <1>5, FS_EmptySet
<1>7. Min(S \ {a}) \in S \ {a}
  BY <1>6, MinFacts
<1> QED
  BY <1>3, <1>7 DEF a

\* A slot and two blocks are taken for a stream.
LEMMA SlotTaken ==
  ASSUME StdioInv, NEW s \in Slots, s \notin Open,
         NEW fcb \in 1 .. HeapBlocks, NEW buf \in 1 .. HeapBlocks,
         fcb \notin used, buf \notin used, fcb # buf,
         fd_array' = [fd_array EXCEPT ![s] = [flag |-> {"INUSE"}, buf |-> buf, fcbptr |-> fcb]],
         used' = used \cup {fcb, buf}, DOMAIN fcbs' = DOMAIN fcbs \cup {fcb}
  PROVE  /\ TableInv' /\ HeapInv' /\ Open' = Open \cup {s}
         /\ fd_array'[s].fcbptr = fcb /\ \A t \in Open : fd_array'[t] = fd_array[t]
<1> DEFINE r == [flag |-> {"INUSE"}, buf |-> buf, fcbptr |-> fcb]
<1>0. TableInv /\ HeapInv
  BY DEF StdioInv
<1>1. r \in [flag : SUBSET Flags, buf : Nat, fcbptr : Int]
  BY DEF Flags
<1>2. r.flag = {"INUSE"} /\ r.buf = buf /\ r.fcbptr = fcb
  OBVIOUS
<1>3. fd_array' = [fd_array EXCEPT ![s] = r]
  OBVIOUS
<1> HIDE DEF r
<1>4. TableInv' /\ fd_array'[s] = r /\ \A t \in Slots \ {s} : fd_array'[t] = fd_array[t]
  BY <1>0, <1>1, <1>3 DEF TableInv
<1>5. Open' = Open \cup {s}
  <2>1. IsFile(s)'
    BY <1>2, <1>4 DEF IsFile, InUse
  <2>2. \A t \in Slots \ {s} : IsFile(t)' <=> IsFile(t)
    BY <1>4 DEF IsFile, InUse
  <2> QED
    BY <2>1, <2>2 DEF Open
<1>6. /\ fd_array'[s].fcbptr = fcb /\ fd_array'[s].buf = buf
      /\ \A t \in Open : fd_array'[t] = fd_array[t]
  BY <1>2, <1>4 DEF Open
<1>7. Released(s)' = {buf, fcb} /\ \A t \in Open : Released(t)' = Released(t)
  BY <1>6 DEF Released
<1>8. \A t \in Open : Released(t) \subseteq used
  BY <1>0 DEF HeapInv, Released
<1>9. HeapInv'
  <2>1. used' \subseteq 1 .. HeapBlocks
    BY <1>0 DEF HeapInv
  <2>2. \A t \in Open' : /\ fd_array'[t].buf \in used' /\ fd_array'[t].fcbptr \in used'
                         /\ fd_array'[t].buf # fd_array'[t].fcbptr
    BY <1>0, <1>5, <1>6 DEF HeapInv
  <2>3. \A t, u \in Open' : t # u => Released(t)' \cap Released(u)' = {}
    <3>1. \A t \in Open : Released(t) \cap {buf, fcb} = {}
      BY <1>8
    <3>2. \A t, u \in Open : t # u => Released(t) \cap Released(u) = {}
      BY <1>0 DEF HeapInv
    <3> QED
      BY <3>1, <3>2, <1>5, <1>7
  <2>4. used' = UNION {Released(t)' : t \in Open'}
    <3>1. used = UNION {Released(t) : t \in Open}
      BY <1>0 DEF HeapInv
    <3> QED
      BY <3>1, <1>5, <1>7
  <2>5. Cardinality(used') = 2 * Cardinality(Open')
    <3>1. IsFiniteSet(used) /\ IsFiniteSet(Open)
      BY <1>0, UsedFinite, OpenFinite, StdioAssumption
    <3> DEFINE one == used \cup {fcb}
    <3>2. Cardinality(one) = Cardinality(used) + 1 /\ IsFiniteSet(one)
      BY <3>1, FS_AddElement
    <3>3. buf \notin one
      OBVIOUS
    <3>4. used' = one \cup {buf}
      OBVIOUS
    <3> HIDE DEF one
    <3>5. Cardinality(used') = Cardinality(one) + 1
      BY <3>2, <3>3, <3>4, FS_AddElement
    <3>6. Cardinality(Open') = Cardinality(Open) + 1
      BY <3>1, <1>5, FS_AddElement
    <3>7. Cardinality(used) = 2 * Cardinality(Open)
      BY <1>0 DEF HeapInv
    <3>8. Cardinality(Open) \in Nat
      BY <3>1, FS_CardinalityType
    <3> QED
      BY <3>2, <3>5, <3>6, <3>7, <3>8
  <2>6. DOMAIN fcbs' = {fd_array'[t].fcbptr : t \in Open'}
    <3>1. DOMAIN fcbs = {fd_array[t].fcbptr : t \in Open}
      BY <1>0 DEF HeapInv
    <3> QED
      BY <3>1, <1>5, <1>6
  <2> QED
    BY <2>1, <2>2, <2>3, <2>4, <2>5, <2>6 DEF HeapInv
<1> QED
  BY <1>4, <1>5, <1>6, <1>9

LEMMA OpenKeeps ==
  ASSUME StdioInv, NEW f \in FileNames, NEW how \in Modes, fopen(f, how)
  PROVE  Kept
<1> DEFINE blocks == {b \in 1 .. HeapBlocks : b \notin used}
           fcb == Min(blocks)
           buf == Min(blocks \ {fcb})
           free == {s \in Slots : ~ InUse(s)}
           Fail == Returns("fopen", 0, NULL) /\ UNCHANGED <<fd_array, used, fcbs, took>>
           place == IF how = "a" THEN dir'[f] ELSE 0
           c == [name |-> f, eof |-> dir'[f], next |-> place]
           slot == Min(free)
           Succeed ==
             /\ Cardinality(blocks) >= 2 /\ free # {}
             /\ how = "r" => dir[f] # -1
             /\ dos_file_open(f)
             /\ fcbs' = [b \in DOMAIN fcbs \cup {fcb} |-> IF b = fcb THEN c ELSE fcbs[b]]
             /\ used' = used \cup {fcb, buf}
             /\ fd_array' = [fd_array EXCEPT ![slot] =
                               [flag |-> {"INUSE"}, buf |-> buf, fcbptr |-> fcb]]
             /\ took' = [took EXCEPT ![slot] = [from |-> fcbs'[fcb].next, got |-> <<>>]]
             /\ Returns("fopen", slot, slot)
<1>0. Call /\ TableInv /\ HeapInv /\ DiskInv /\ FcbInv /\ TookInv
  BY DEF fopen, StdioInv
<1>1. CASE Fail /\ UNCHANGED <<disk, dir>>
  <2>1. SameTable
    BY <1>0, <1>1, UnchangedTable
  <2>2. HeapInv' /\ DiskInv' /\ FcbInv' /\ TookInv'
    BY <1>1, <2>1, SameFiles DEF FilesKept
  <2>3. CallInv'
    BY <1>1, SaysNothing
  <2> QED
    BY <1>0, <2>1, <2>2, <2>3, ThenKept DEF Kept, SameTable
<1>2. CASE dos_file_open(f) /\ Fail
  <2>1. SameTable
    BY <1>0, <1>2, UnchangedTable
  <2>2. DiskInv' /\ \A b \in DOMAIN fcbs : /\ disk'[fcbs[b].name] = disk[fcbs[b].name]
                                           /\ dir'[fcbs[b].name] = dir[fcbs[b].name]
    BY <1>2, FileTaken
  <2>3. HeapInv' /\ FcbInv' /\ TookInv'
    BY <1>2, <2>1, <2>2, OtherFiles
  <2>4. CallInv'
    BY <1>2, SaysNothing
  <2> QED
    BY <1>0, <2>1, <2>2, <2>3, <2>4, ThenKept DEF Kept, SameTable
<1>3. CASE Succeed
  <2>1. fcb \in 1 .. HeapBlocks /\ fcb \notin used /\ buf \in 1 .. HeapBlocks /\ buf \notin used
        /\ fcb # buf
    <3>1. IsFiniteSet(blocks) /\ blocks \in SUBSET Nat
      <4>1. IsFiniteSet(1 .. HeapBlocks)
        BY StdioAssumption, FS_Interval
      <4>2. blocks \subseteq 1 .. HeapBlocks /\ blocks \in SUBSET Nat
        BY StdioAssumption
      <4> HIDE DEF blocks
      <4> QED
        BY <4>1, <4>2, FS_Subset
    <3>2. Cardinality(blocks) >= 2
      BY <1>3
    <3> DEFINE B == blocks
    <3> HIDE DEF B
    <3>3. Min(B) \in B /\ Min(B \ {Min(B)}) \in B /\ Min(B) # Min(B \ {Min(B)})
      BY <3>1, <3>2, TwoBlocks DEF B
    <3> QED
      BY <3>3 DEF B
  <2>2. slot \in Slots /\ slot \notin Open
    <3>1. free \in SUBSET Nat /\ free # {}
      BY <1>3 DEF Slots
    <3>2. slot \in free
      <4> HIDE DEF free
      <4> QED
        BY <3>1, MinFacts
    <3> QED
      BY <3>2 DEF Open, IsFile
  <2>3. PICK s \in Slots : s = slot
    BY <2>2
  <2>4. PICK p \in 1 .. HeapBlocks : p = fcb
    BY <2>1
  <2>5. PICK q \in 1 .. HeapBlocks : q = buf
    BY <2>1
  <2>6. s \notin Open /\ p \notin used /\ q \notin used /\ p # q
    BY <2>1, <2>2, <2>3, <2>4, <2>5
  <2>7. /\ dos_file_open(f)
        /\ fcbs' = [b \in DOMAIN fcbs \cup {p} |-> IF b = p THEN c ELSE fcbs[b]]
        /\ used' = used \cup {p, q}
        /\ fd_array' = [fd_array EXCEPT ![s] = [flag |-> {"INUSE"}, buf |-> q, fcbptr |-> p]]
        /\ took' = [took EXCEPT ![s] = [from |-> fcbs'[p].next, got |-> <<>>]]
        /\ Returns("fopen", s, s)
    BY <1>3, <2>3, <2>4, <2>5
  <2>8. /\ DiskInv'
        /\ dir'[f] \in Nat /\ dir'[f] <= Len(disk'[f])
        /\ \A b \in DOMAIN fcbs : /\ disk'[fcbs[b].name] = disk[fcbs[b].name]
                                  /\ dir'[fcbs[b].name] = dir[fcbs[b].name]
    BY <2>7, FileTaken
  <2>9. place \in Nat /\ place <= dir'[f]
    BY <2>8
  <2>10. c.name = f /\ c.eof = dir'[f] /\ c.next = place
    OBVIOUS
  <2>11. c \in [name : FileNames, next : Nat, eof : Nat]
    <3> HIDE DEF place
    <3> QED
      BY <2>8, <2>9
  <2> HIDE DEF c, fcb, buf, slot, place, free, blocks
  <2>12. /\ DOMAIN fcbs' = DOMAIN fcbs \cup {p} /\ fcbs'[p] = c
        /\ \A b \in DOMAIN fcbs \ {p} : fcbs'[b] = fcbs[b]
    BY <2>7
  <2>13. \A b \in DOMAIN fcbs : b # p /\ b \in used
    BY <2>6, <1>0 DEF HeapInv
  <2>14. /\ TableInv' /\ HeapInv' /\ Open' = Open \cup {s}
         /\ fd_array'[s].fcbptr = p /\ \A t \in Open : fd_array'[t] = fd_array[t]
    BY <2>6, <2>7, <2>12, SlotTaken
  <2>15. FcbInv'
    <3> SUFFICES ASSUME NEW b \in DOMAIN fcbs'
                 PROVE  /\ fcbs'[b] \in [name : FileNames, next : Nat, eof : Nat]
                        /\ fcbs'[b].next <= fcbs'[b].eof
                        /\ fcbs'[b].eof <= Len(disk'[fcbs'[b].name])
                        /\ dir'[fcbs'[b].name] # -1
      BY DEF FcbInv
    <3>1. CASE b = p
      BY <3>1, <2>8, <2>9, <2>10, <2>11, <2>12
    <3>2. CASE b # p
      BY <3>2, <2>8, <2>12, <1>0 DEF FcbInv
    <3> QED
      BY <3>1, <3>2
  <2>16. TookInv'
    <3> DEFINE fresh == [from |-> place, got |-> <<>>]
    <3>1. <<>> \in Seq(Bytes) /\ Len(<<>>) = 0
      BY EmptySeq
    <3>2. fresh \in [from : Nat, got : Seq(Bytes)] /\ fresh.from = place /\ fresh.got = <<>>
      BY <3>1, <2>9
    <3>3. took' = [took EXCEPT ![s] = fresh]
      BY <2>7, <2>10, <2>12
    <3> HIDE DEF fresh
    <3>4. took' \in [Slots -> [from : Nat, got : Seq(Bytes)]]
      BY <3>2, <3>3, <1>0 DEF TookInv
    <3>5. took'[s] = fresh /\ \A t \in Open : took'[t] = took[t]
      BY <3>3, <2>6, <1>0 DEF TookInv, Open
    <3>6. FcbOf(s)' = c
      BY <2>12, <2>14 DEF FcbOf
    <3>7. /\ FcbOf(s)'.next = took'[s].from + Len(took'[s].got)
          /\ took'[s].got = SubSeq(disk'[FcbOf(s)'.name], took'[s].from + 1, FcbOf(s)'.next)
      <4>1. SubSeq(disk'[FcbOf(s)'.name], place + 1, place) = <<>>
        BY <2>9, SubSeqEmpty
      <4> QED
        BY <4>1, <3>1, <3>2, <3>5, <3>6, <2>9, <2>10
    <3>8. ASSUME NEW t \in Open
          PROVE  /\ FcbOf(t)'.next = took'[t].from + Len(took'[t].got)
                 /\ took'[t].got = SubSeq(disk'[FcbOf(t)'.name], took'[t].from + 1, FcbOf(t)'.next)
      <4>1. fd_array[t].fcbptr \in DOMAIN fcbs
        BY <1>0, OpenFacts
      <4>2. FcbOf(t)' = FcbOf(t)
        BY <4>1, <2>12, <2>13, <2>14 DEF FcbOf
      <4>3. disk'[FcbOf(t).name] = disk[FcbOf(t).name]
        BY <4>1, <2>8 DEF FcbOf
      <4> QED
        BY <4>2, <4>3, <3>5, <1>0 DEF TookInv
    <3> QED
      BY <3>4, <3>7, <3>8, <2>14 DEF TookInv
  <2>17. CallInv'
    BY <2>7, SaysNothing
  <2> QED
    BY <1>0, <2>8, <2>14, <2>15, <2>16, <2>17, ThenKept DEF Kept
<1> QED
  BY <1>1, <1>2, <1>3 DEF fopen

\* A slot is given back, and the two blocks of its stream.
LEMMA SlotFreed ==
  ASSUME StdioInv, NEW s \in Open,
         fd_array' = [fd_array EXCEPT ![s].flag = {}, ![s].buf = NULL],
         used' = used \ Released(s), DOMAIN fcbs' = DOMAIN fcbs \ {fd_array[s].fcbptr}
  PROVE  /\ TableInv' /\ HeapInv' /\ Open' = Open \ {s}
         /\ \A t \in Open \ {s} : fd_array'[t] = fd_array[t]
<1>0. TableInv /\ HeapInv /\ s \in Slots
  BY DEF StdioInv, Open
<1> DEFINE e == fd_array[s]
<1>1. e \in [flag : SUBSET Flags, buf : Nat, fcbptr : Int]
  BY <1>0 DEF TableInv
<1>2. /\ fd_array'[s] \in [flag : SUBSET Flags, buf : Nat, fcbptr : Int]
      /\ fd_array'[s].flag = {}
      /\ fd_array' \in [Slots -> [flag : SUBSET Flags, buf : Nat, fcbptr : Int]]
      /\ \A t \in Slots \ {s} : fd_array'[t] = fd_array[t]
  <2> DEFINE new == [[e EXCEPT !.flag = {}] EXCEPT !.buf = NULL]
  <2>1. fd_array' = [fd_array EXCEPT ![s] = new]
    BY <1>0 DEF TableInv
  <2>2. new \in [flag : SUBSET Flags, buf : Nat, fcbptr : Int] /\ new.flag = {}
    <3> HIDE DEF e
    <3> QED
      BY <1>1 DEF NULL
  <2> HIDE DEF new
  <2> QED
    BY <2>1, <2>2, <1>0 DEF TableInv
<1>3. Open' = Open \ {s}
  <2>1. ~ IsFile(s)'
    BY <1>2 DEF IsFile, InUse
  <2>2. \A t \in Slots \ {s} : IsFile(t)' <=> IsFile(t)
    BY <1>2 DEF IsFile, InUse
  <2> QED
    BY <2>1, <2>2 DEF Open
<1>4. \A t \in Open \ {s} : fd_array'[t] = fd_array[t] /\ Released(t)' = Released(t)
  BY <1>2 DEF Open, Released
<1>5. \A t \in Open : Released(t) \subseteq used
  BY <1>0 DEF HeapInv, Released
<1>6. \A t \in Open \ {s} : Released(t) \cap Released(s) = {}
  BY <1>0 DEF HeapInv
<1>7. HeapInv'
  <2>1. used' \subseteq 1 .. HeapBlocks
    BY <1>0 DEF HeapInv
  <2>2. \A t \in Open' : /\ fd_array'[t].buf \in used' /\ fd_array'[t].fcbptr \in used'
                         /\ fd_array'[t].buf # fd_array'[t].fcbptr
    <3> TAKE t \in Open'
    <3>1. t \in Open \ {s} /\ fd_array'[t] = fd_array[t]
      BY <1>3, <1>4
    <3>2. /\ fd_array[t].buf \in used /\ fd_array[t].fcbptr \in used
          /\ fd_array[t].buf # fd_array[t].fcbptr
      BY <3>1, <1>0 DEF HeapInv
    <3>3. fd_array[t].buf \notin Released(s) /\ fd_array[t].fcbptr \notin Released(s)
      BY <3>1, <1>6 DEF Released
    <3> QED
      BY <3>1, <3>2, <3>3
  <2>3. \A t, u \in Open' : t # u => Released(t)' \cap Released(u)' = {}
    <3>1. \A t, u \in Open : t # u => Released(t) \cap Released(u) = {}
      BY <1>0 DEF HeapInv
    <3> QED
      BY <3>1, <1>3, <1>4
  <2>4. used' = UNION {Released(t)' : t \in Open'}
    <3>1. used = UNION {Released(t) : t \in Open}
      BY <1>0 DEF HeapInv
    <3>2. UNION {Released(t)' : t \in Open'} = UNION {Released(t) : t \in Open \ {s}}
      BY <1>3, <1>4
    <3> QED
      BY <3>1, <3>2, <1>6
  <2>5. Cardinality(used') = 2 * Cardinality(Open')
    <3>1. IsFiniteSet(used) /\ IsFiniteSet(Open)
      BY <1>0, UsedFinite, OpenFinite, StdioAssumption
    <3> DEFINE a == e.buf
               b == e.fcbptr
               one == used \ {a}
    <3>2. a \in used /\ b \in used /\ a # b
      BY <1>0 DEF HeapInv
    <3>3. used' = one \ {b}
      BY DEF Released
    <3> HIDE DEF a, b
    <3>4. Cardinality(one) = Cardinality(used) - 1 /\ IsFiniteSet(one)
      BY <3>1, <3>2, FS_RemoveElement
    <3>5. b \in one
      BY <3>2
    <3> HIDE DEF one
    <3>6. Cardinality(used') = Cardinality(one) - 1
      BY <3>3, <3>4, <3>5, FS_RemoveElement
    <3>7. Cardinality(Open') = Cardinality(Open) - 1
      BY <3>1, <1>3, FS_RemoveElement
    <3>8. Cardinality(used) = 2 * Cardinality(Open)
      BY <1>0 DEF HeapInv
    <3>9. Cardinality(Open) \in Nat
      BY <3>1, FS_CardinalityType
    <3> QED
      BY <3>4, <3>6, <3>7, <3>8, <3>9
  <2>6. DOMAIN fcbs' = {fd_array'[t].fcbptr : t \in Open'}
    <3>1. DOMAIN fcbs = {fd_array[t].fcbptr : t \in Open}
      BY <1>0 DEF HeapInv
    <3>2. {fd_array'[t].fcbptr : t \in Open'} = {fd_array[t].fcbptr : t \in Open \ {s}}
      BY <1>3, <1>4
    <3>3. \A t \in Open \ {s} : fd_array[t].fcbptr # fd_array[s].fcbptr
      BY <1>6 DEF Released
    <3> QED
      BY <3>1, <3>2, <3>3
  <2> QED
    BY <2>1, <2>2, <2>3, <2>4, <2>5, <2>6 DEF HeapInv
<1>8. TableInv'
  BY <1>2 DEF TableInv
<1> QED
  BY <1>3, <1>4, <1>7, <1>8

LEMMA CloseKeeps ==
  ASSUME StdioInv, NEW s \in Slots, fclose(s)
  PROVE  Kept
<1>0. Call /\ TableInv /\ HeapInv /\ DiskInv /\ FcbInv /\ TookInv
  BY DEF fclose, StdioInv
<1>1. CASE /\ Returns("fclose", s, -1)
           /\ TableKept /\ FilesKept /\ UNCHANGED took
  <2>1. SameTable
    BY <1>0, <1>1, UnchangedTable DEF TableKept
  <2>2. HeapInv' /\ DiskInv' /\ FcbInv' /\ TookInv'
    BY <1>1, <2>1, SameFiles DEF TableKept
  <2>3. CallInv'
    BY <1>1, SaysNothing
  <2> QED
    BY <1>0, <2>1, <2>2, <2>3, ThenKept DEF Kept, SameTable
<1>2. CASE /\ "DCB" \in fd_array[s].flag
           /\ fd_array' = [fd_array EXCEPT ![s] = Closed]
           /\ Returns("fclose", s, 0)
           /\ UNCHANGED used /\ FilesKept /\ UNCHANGED took
  <2>1. SameTable
    <3>1. Closed \in [flag : SUBSET Flags, buf : Nat, fcbptr : Int] /\ Closed.flag = {}
      BY DEF Closed, NULL
    <3>2. fd_array' = [fd_array EXCEPT ![s] = Closed]
      BY <1>2
    <3>3. fd_array'[s] = Closed /\ \A t \in Slots \ {s} : fd_array'[t] = fd_array[t]
      BY <3>2, <1>0 DEF TableInv
    <3>4. TableInv'
      BY <3>1, <3>2, <1>0 DEF TableInv
    <3>5. ~ IsFile(s) /\ ~ IsFile(s)'
      BY <3>1, <3>3, <1>2 DEF IsFile, InUse
    <3>6. \A t \in Slots \ {s} : IsFile(t)' <=> IsFile(t)
      BY <3>3 DEF IsFile, InUse
    <3> QED
      BY <3>3, <3>4, <3>5, <3>6 DEF SameTable
  <2>2. HeapInv' /\ DiskInv' /\ FcbInv' /\ TookInv'
    BY <1>2, <2>1, SameFiles
  <2>3. CallInv'
    BY <1>2, SaysNothing
  <2> QED
    BY <1>0, <2>1, <2>2, <2>3, ThenKept DEF Kept, SameTable
<1>3. CASE /\ IsFile(s)
           /\ dos_file_close(s)
           /\ used' = used \ Released(s)
           /\ fd_array' = [fd_array EXCEPT ![s].flag = {}, ![s].buf = NULL]
           /\ Returns("fclose", s, 0)
           /\ UNCHANGED <<disk, took>>
  <2> DEFINE p == fd_array[s].fcbptr
             f == FcbOf(s).name
             z == FcbOf(s).eof
  <2>1. s \in Open /\ disk' = disk /\ took' = took
    BY <1>3, IsOpen
  <2>2. /\ DOMAIN fcbs' = DOMAIN fcbs \ {p}
        /\ \A b \in DOMAIN fcbs \ {p} : fcbs'[b] = fcbs[b]
    BY <1>3 DEF dos_file_close
  <2>3. /\ TableInv' /\ HeapInv' /\ Open' = Open \ {s}
        /\ \A t \in Open \ {s} : fd_array'[t] = fd_array[t]
    BY <1>3, <2>1, <2>2, SlotFreed
  <2>4. f \in FileNames /\ z \in Nat /\ z <= Len(disk[f]) /\ Len(disk[f]) \in Nat
    BY <1>0, <2>1, OpenFacts
  <2>5. dir' = [dir EXCEPT ![f] = z] \/ dir' = dir
    BY <1>3 DEF dos_file_close
  <2> HIDE DEF f, z
  <2>6. /\ dir' \in [FileNames -> Int]
        /\ \A g \in FileNames : \/ dir'[g] = dir[g]
                                \/ g = f /\ dir'[g] = z
    BY <2>4, <2>5, <1>0 DEF DiskInv
  <2>7. DiskInv'
    <3> SUFFICES ASSUME NEW g \in FileNames
                 PROVE  dir'[g] \in -1 .. Len(disk[g])
      BY <2>1, <2>6, <1>0 DEF DiskInv
    <3>1. CASE dir'[g] = dir[g]
      BY <3>1, <1>0 DEF DiskInv
    <3>2. CASE g = f /\ dir'[g] = z
      BY <3>2, <2>4
    <3> QED
      BY <3>1, <3>2, <2>6
  <2>8. FcbInv'
    <3> SUFFICES ASSUME NEW b \in DOMAIN fcbs \ {p}
                 PROVE  /\ fcbs[b] \in [name : FileNames, next : Nat, eof : Nat]
                        /\ fcbs[b].next <= fcbs[b].eof
                        /\ fcbs[b].eof <= Len(disk[fcbs[b].name])
                        /\ dir'[fcbs[b].name] # -1
      BY <2>1, <2>2 DEF FcbInv
    <3>1. /\ fcbs[b] \in [name : FileNames, next : Nat, eof : Nat]
          /\ fcbs[b].next <= fcbs[b].eof
          /\ fcbs[b].eof <= Len(disk[fcbs[b].name])
          /\ dir[fcbs[b].name] # -1
      BY <1>0 DEF FcbInv
    <3>2. fcbs[b].name \in FileNames
      BY <3>1
    <3>3. dir'[fcbs[b].name] # -1
      BY <3>1, <3>2, <2>4, <2>6
    <3> QED
      BY <3>1, <3>3
  <2>9. TookInv'
    <3>1. \A t \in Open \ {s} : FcbOf(t)' = FcbOf(t)
      <4> TAKE t \in Open \ {s}
      <4>1. fd_array[t].fcbptr \in DOMAIN fcbs \ {p}
        BY <1>0, <2>1, OpenFacts, OtherFcb
      <4> QED
        BY <4>1, <2>2, <2>3 DEF FcbOf
    <3> QED
      BY <3>1, <2>1, <2>3, <1>0 DEF TookInv
  <2>10. CallInv'
    BY <1>3, SaysNothing
  <2> QED
    BY <1>0, <2>3, <2>7, <2>8, <2>9, <2>10, ThenKept DEF Kept
<1> QED
  BY <1>1, <1>2, <1>3 DEF fclose

-----------------------------------------------------------------------------
(* From the start, and for every call.                                     *)

LEMMA StartsSound ==
  ASSUME StdioInit
  PROVE  StdioInv /\ CallInv
<1>0. MAX_FILES \in Nat /\ MaxCalls \in Nat /\ MaxSize \in Nat /\ HeapBlocks \in Nat
  BY StdioAssumption
<1>1. /\ fd_array = [s \in Slots |->
           IF s < 3 THEN [Closed EXCEPT !.flag = {"INUSE", "DCB"}, !.fcbptr = Devices[s + 1]]
           ELSE Closed]
      /\ used = {} /\ fcbs = <<>>
      /\ call = [op |-> "init", s |-> 0, ret |-> NULL]
      /\ took = [s \in Slots |-> [from |-> 0, got |-> <<>>]]
      /\ calls = 0
  BY DEF StdioInit
<1>2. /\ Closed = [flag |-> {}, buf |-> 0, fcbptr |-> 0]
      /\ Closed \in [flag : SUBSET Flags, buf : Nat, fcbptr : Int]
  BY DEF Closed, NULL
<1>3. \A s \in Slots : s < 3 => s + 1 \in {1, 2, 3}
  BY <1>0 DEF Slots
<1>4. \A i \in {1, 2, 3} : Devices[i] \in Int
  BY DEF Devices, Stdin
<1>5. ASSUME NEW s \in Slots
      PROVE  /\ fd_array[s] \in [flag : SUBSET Flags, buf : Nat, fcbptr : Int]
             /\ ~ IsFile(s)
  <2>1. CASE s < 3
    <3> DEFINE v == Devices[s + 1]
    <3>1. v \in Int
      BY <2>1, <1>3, <1>4
    <3> HIDE DEF v
    <3>2. fd_array[s] = [flag |-> {"INUSE", "DCB"}, buf |-> 0, fcbptr |-> v]
      BY <2>1, <1>1, <1>2 DEF v
    <3>3. fd_array[s].flag = {"INUSE", "DCB"}
      BY <3>2
    <3>4. fd_array[s] \in [flag : SUBSET Flags, buf : Nat, fcbptr : Int]
      BY <3>1, <3>2 DEF Flags
    <3> QED
      BY <3>3, <3>4 DEF IsFile
  <2>2. CASE ~(s < 3)
    <3>1. fd_array[s] = Closed
      BY <2>2, <1>1
    <3>2. fd_array[s].flag = {}
      BY <3>1, <1>2
    <3> QED
      BY <3>1, <3>2, <1>2 DEF IsFile, InUse
  <2> QED
    BY <2>1, <2>2
<1>6. TableInv
  BY <1>1, <1>5 DEF TableInv
<1>7. Open = {}
  BY <1>5 DEF Open
<1>8. DOMAIN fcbs = {}
  <2>1. <<>> \in Seq(Int) /\ Len(<<>>) = 0
    BY EmptySeq
  <2> DEFINE none == <<>>
  <2> HIDE DEF none
  <2>2. none \in Seq(Int) /\ Len(none) = 0
    BY <2>1 DEF none
  <2>3. DOMAIN none = 1 .. 0
    BY <2>2, LenProperties
  <2>4. fcbs = none
    BY DEF none, StdioInit
  <2> QED
    BY <2>3, <2>4
<1>9. HeapInv
  <2>1. Cardinality(used) = 0 /\ Cardinality(Open) = 0
    BY <1>1, <1>7, FS_EmptySet
  <2>2. used = {} /\ Open = {} /\ DOMAIN fcbs = {}
    BY <1>1, <1>7, <1>8
  <2>3. used = UNION {Released(s) : s \in Open}
    BY <2>2
  <2>4. DOMAIN fcbs = {fd_array[s].fcbptr : s \in Open}
    BY <2>2
  <2>5. Cardinality(used) = 2 * Cardinality(Open)
    BY <2>1
  <2> QED
    BY <2>2, <2>3, <2>4, <2>5 DEF HeapInv
<1>10. DiskInv
  <2>1. PICK old \in Lines :
          /\ disk = [f \in FileNames |-> old]
          /\ \E absent \in SUBSET FileNames :
               dir = [f \in FileNames |-> IF f \in absent THEN -1 ELSE Len(old)]
    BY DEF StdioInit
  <2>2. old \in Seq(Bytes) /\ Len(old) \in Nat /\ Len(old) <= MaxSize
    BY LinesTyped
  <2>3. /\ dir \in [FileNames -> Int]
        /\ \A f \in FileNames : dir[f] \in -1 .. Len(old)
    BY <2>1, <2>2
  <2> QED
    BY <2>1, <2>2, <2>3 DEF DiskInv
<1>11. FcbInv
  BY <1>8 DEF FcbInv
<1>12. TookInv
  <2>1. [from |-> 0, got |-> <<>>] \in [from : Nat, got : Seq(Bytes)]
    BY EmptySeq
  <2> QED
    BY <2>1, <1>1, <1>7 DEF TookInv
<1>13. CallInv
  <2>1. call.op = "init"
    BY <1>1
  <2> QED
    BY <2>1 DEF CallInv, LineInv, WriteCounted
<1>14. calls \in 0 .. MaxCalls
  <2>1. calls = 0
    BY DEF StdioInit
  <2> QED
    BY <2>1, <1>0
<1> QED
  BY <1>6, <1>9, <1>10, <1>11, <1>12, <1>13, <1>14 DEF StdioInv

LEMMA StepsSound ==
  ASSUME StdioInv, CallInv, [StdioNext]_stdioVars
  PROVE  (StdioInv /\ CallInv)'
<1>1. CASE \E f \in FileNames, how \in Modes : fopen(f, how)
  BY <1>1, OpenKeeps DEF Kept
<1>2. CASE ReadKeyboard
  BY <1>2, KeyboardKeeps DEF Kept
<1>3. ASSUME NEW s \in Slots, fclose(s) \/ rewind(s) \/ clearerr(s)
      PROVE  (StdioInv /\ CallInv)'
  BY <1>3, CloseKeeps, RewindKeeps, ClearerrKeeps DEF Kept
<1>4. ASSUME NEW s \in Slots, \E to \in -MaxOffset .. MaxOffset : fseek(s, to)
      PROVE  (StdioInv /\ CallInv)'
  BY <1>4, SeekKeeps DEF Kept
<1>5. ASSUME NEW s \in Slots,
             \E good \in Good, n \in 1 .. MaxCount : fread(s, ItemSize, n, good) \/ fgets(s, n, good)
      PROVE  (StdioInv /\ CallInv)'
  <2>1. PICK good \in Good, n \in 1 .. MaxCount : fread(s, ItemSize, n, good) \/ fgets(s, n, good)
    BY <1>5
  <2>2. CASE fread(s, ItemSize, n, good)
    BY <2>2, ReadKeeps DEF Kept
  <2>3. CASE fgets(s, n, good)
    BY <2>3, LineKeeps DEF Kept
  <2> QED
    BY <2>1, <2>2, <2>3
<1>6. ASSUME NEW s \in Slots, NEW str \in Lines, fputs(str, s)
      PROVE  (StdioInv /\ CallInv)'
  BY <1>6, PutsKeeps DEF Kept
<1>7. ASSUME NEW s \in Slots, NEW str \in Lines, NEW n \in 1 .. MaxItems, fwrite(str, n, s)
      PROVE  (StdioInv /\ CallInv)'
  BY <1>7, WriteKeeps DEF Kept
<1>8. CASE UNCHANGED stdioVars
  BY <1>8, UnchangedKeeps DEF Kept
<1>9. CASE StdioNext
  <2>1. ASSUME NEW s \in Slots,
               \/ fclose(s) \/ rewind(s) \/ clearerr(s)
               \/ \E to \in -MaxOffset .. MaxOffset : fseek(s, to)
               \/ \E good \in Good, n \in 1 .. MaxCount :
                    fread(s, ItemSize, n, good) \/ fgets(s, n, good)
               \/ \E str \in Lines : fputs(str, s) \/ \E n \in 1 .. MaxItems : fwrite(str, n, s)
        PROVE  (StdioInv /\ CallInv)'
    BY <2>1, <1>3, <1>4, <1>5, <1>6, <1>7
  <2> QED
    BY <1>1, <1>2, <1>9, <2>1 DEF StdioNext
<1> QED
  BY <1>8, <1>9

\* The invariant says what is promised.
LEMMA SoundThen ==
  ASSUME StdioInv, CallInv
  PROVE  StreamsSound
<1>0. TableInv /\ HeapInv /\ DiskInv /\ FcbInv /\ TookInv /\ calls \in 0 .. MaxCalls
  BY DEF StdioInv
<1>1. StdioTypeOK
  <2>1. ASSUME NEW s \in Slots
        PROVE  /\ fd_array[s].flag \subseteq {"INUSE", "DCB", "EOF", "ERROR"}
               /\ IsFile(s) => /\ fd_array[s].fcbptr \in DOMAIN fcbs
                               /\ fd_array[s].buf \in 1 .. HeapBlocks
    <3>1. fd_array[s] \in [flag : SUBSET Flags, buf : Nat, fcbptr : Int]
      BY <1>0 DEF TableInv
    <3>2. fd_array[s].flag \subseteq {"INUSE", "DCB", "EOF", "ERROR"}
      BY <3>1 DEF Flags
    <3>3. IsFile(s) => fd_array[s].fcbptr \in DOMAIN fcbs /\ fd_array[s].buf \in 1 .. HeapBlocks
      BY <1>0 DEF HeapInv, Open
    <3> QED
      BY <3>2, <3>3
  <2>2. used \subseteq 1 .. HeapBlocks /\ \A b \in DOMAIN fcbs : fcbs[b].next <= fcbs[b].eof
    BY <1>0 DEF HeapInv, FcbInv
  <2>3. \A f \in FileNames : /\ disk[f] \in Seq(Bytes) /\ Len(disk[f]) <= MaxSize
                             /\ dir[f] \in -1 .. Len(disk[f])
    BY <1>0 DEF DiskInv
  <2> QED
    BY <2>1, <2>2, <2>3, <1>0 DEF StdioTypeOK
<1>2. OwnBlocks
  BY <1>0 DEF OwnBlocks, HeapInv, Released, Open
<1>3. LinesWhole
  <2>1. \A s \in Slots : IsFile(s) =>
          /\ FcbOf(s).next = took[s].from + Len(took[s].got)
          /\ took[s].got = SubSeq(disk[FcbOf(s).name], took[s].from + 1, FcbOf(s).next)
    BY <1>0 DEF TookInv, Open
  <2> QED
    BY <2>1 DEF LinesWhole, CallInv, LineInv
<1> QED
  BY <1>1, <1>2, <1>3 DEF StreamsSound, CallInv

\* For any number of slots, heap blocks and files, any strings and any run of calls of
\* which any may fail: the blocks of the heap are those of the open files, each of one;
\* fgets gives the bytes of a file in order, in lines that fit their buffers; and every
\* item that fwrite counts is on the disk (fopen, fclose, fgets, fread, fputs, fwrite,
\* fseek, rewind, clearerr).
THEOREM StreamsStaySound == StdioSpec => []StreamsSound
<1>1. StdioInit => StdioInv /\ CallInv
  BY StartsSound
<1>2. (StdioInv /\ CallInv) /\ [StdioNext]_stdioVars => (StdioInv /\ CallInv)'
  BY StepsSound
<1>3. StdioInv /\ CallInv => StreamsSound
  BY SoundThen
<1> QED
  BY <1>1, <1>2, <1>3, PTL DEF StdioSpec
=============================================================================
