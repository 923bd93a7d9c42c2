---------------------------- MODULE Modem7Proofs ----------------------------
(***************************************************************************)
(* Proofs about the names of files, for any list of names, any number of   *)
(* tries and of lost bytes: until a byte is damaged or an answer is late,  *)
(* both ends mean the same file.                                           *)
(***************************************************************************)
EXTENDS Modem7, SequenceTheorems, TLAPS

\* No character of a name, and no byte that xmodem sends to an end that still asks for the
\* name, is taken for an answer.
PlainNames ==
  \A n \in DOMAIN Files : \A i \in DOMAIN Files[n] : Files[n][i] \notin {ACK, EOT, SUB, U}
Inert(s) == \A i \in DOMAIN s : s[i] \notin {ACK, SUB, EOT}
PlainBlock == Inert(Block)

-----------------------------------------------------------------------------
(* Types: an end that is at work has a try left.                           *)

Stopped == {"done", "fatal"}
SenderTypes ==
  /\ sPc \in SPcs /\ tries \in 1 .. MaxTries
  /\ next \in 1 .. Len(Files) + 1 /\ pos \in Nat \ {0} /\ sSum \in Byte
  /\ sPc # "fatal" => tries < MaxTries
  /\ sPc \in {"MF1_00A", "FS_MS1", "FS_MS2", "xmodem"} => More
ReceiverTypes ==
  /\ rPc \in RPcs /\ m7try \in 0 .. MaxTries
  /\ field \in Seq(Byte) /\ rSum \in Byte /\ heard \in Seq(Seq(Byte))
  /\ rPc \notin Stopped => m7try < MaxTries
LineTypes ==
  /\ toR \in Seq(Byte) /\ toS \in Seq(Byte)
  /\ lost \in 0 .. MaxLost /\ damaged \in 0 .. MaxDamaged /\ late \in 0 .. MaxLate
TypeInv == SenderTypes /\ ReceiverTypes /\ LineTypes

-----------------------------------------------------------------------------
(* One byte is under way, or none, and both ends are at the same place of  *)
(* the name, or one of them is about to notice that they are not.          *)

Nothing == toR = <<>> /\ toS = <<>>
Asked   == toR = <<>> /\ (toS = <<>> \/ toS = <<NAK>>)
Asking ==
  \/ sPc = "FS_02" /\ rPc \in {"flush", "flush again"} /\ Nothing
  \/ rPc = "MF_01" /\ Asked
  \/ sPc = "FS_02" /\ rPc = "MF_01" /\ ~More /\ toR = <<EOT>> /\ toS = <<>>
  \/ sPc = "MF1_00A" /\ rPc = "MF_01" /\ toR = <<U>> /\ toS = <<>>
  \/ sPc = "MF1_00A" /\ rPc = "MF_06" /\ Nothing
Spelling ==
  \/ rPc = "MF_01" /\ Asked
  \/ rPc = "MF_01" /\ toS = <<>> /\ pos = 2 /\ (toR = <<ACK, Name[1]>> \/ toR = <<ACK>>)
  \/ rPc = "MF_01" /\ toS = <<>> /\ toR = <<Name[1]>>
  \/ rPc = "MF_04" /\ Nothing
  \/ rPc = "MF_04" /\ pos \in 2 .. Len(Name) + 1 /\
       \/ toS = <<>> /\ toR = <<Name[pos - 1]>> /\ field = SubSeq(Name, 1, pos - 2)
       \/ toR = <<>> /\ toS = <<ACK>> /\ field = SubSeq(Name, 1, pos - 1)
Summing ==
  \/ rPc = "MF_01" /\ Asked
  \/ rPc = "MF_04" /\ Nothing
  \/ rPc = "MF_04" /\ toS = <<>> /\ toR = <<SUB>> /\ field = Name
  \/ rPc = "MF_06" /\ toR = <<>> /\ field = Name /\ (toS = <<>> \/ \E b \in Byte : toS = <<b>>)

\* The sender runs xmodem: the receiver has the name and will, too, or it never does.
Left == rPc \in {"MF_01", "MF_04", "MF_06"} /\ Inert(toR)
Sending ==
  \/ rPc = "xmodem" /\ field = Name
  \/ rPc = "MF_06" /\ toS = <<>> /\ toR = <<ACK>> /\ field = Name
  \/ rPc = "MF_01" /\ toS = <<>> /\ toR = <<ACK>>
  \/ Left
GivenUp == Left \/ (rPc = "MF_01" /\ ~More /\ toR = <<EOT>>)

InStep ==
  rPc \notin Stopped =>
    \/ sPc \in {"FS_02", "MF1_00A"} /\ Asking
    \/ sPc = "FS_MS1" /\ Spelling
    \/ sPc = "FS_MS2" /\ Summing
    \/ sPc = "xmodem" /\ Sending
    \/ sPc = "fatal" /\ GivenUp

\* What the receiver has got are the files before the one at work.
GotSoFar ==
  /\ next \in 1 .. Len(Files) + 1
  /\ rPc # "fatal" => heard = SubSeq(Files, 1, next - 1)
  /\ \E n \in 0 .. Len(Files) : heard = SubSeq(Files, 1, n)
  /\ rPc = "done" => heard = Files

AgreeInv == damaged = 0 /\ late = 0 => InStep /\ GotSoFar

-----------------------------------------------------------------------------
(* Short sequences.                                                        *)

LEMMA EmptyLine ==
  /\ <<>> \in Seq(Byte) /\ DOMAIN <<>> = {} /\ Inert(<<>>)
  /\ \A s \in Seq(Byte) : s \o <<>> = s /\ <<>> \o s = s
<1>1. <<>> \in Seq(Byte) /\ Len(<<>>) = 0
  BY EmptySeq
<1>2. DOMAIN <<>> = {}
  BY <1>1, LenProperties, SMT
<1>3. \A s \in Seq(Byte) : s \o <<>> = s /\ <<>> \o s = s
  BY ConcatEmptySeq
<1> QED
  BY <1>1, <1>2, <1>3 DEF Inert

\* A line with one byte on it.
LEMMA OneByte ==
  ASSUME NEW a \in Byte
  PROVE  /\ <<a>> \in Seq(Byte) /\ <<a>> # <<>> /\ DOMAIN <<a>> = {1}
         /\ Head(<<a>>) = a /\ Tail(<<a>>) = <<>> /\ <<a>>[1] = a
         /\ RemoveAt(<<a>>, 1) = <<>>
<1>1. <<a>> \in Seq(Byte) /\ <<a>> # <<>> /\ DOMAIN <<a>> = {1} /\ <<a>>[1] = a /\ Len(<<a>>) = 1
  OBVIOUS
<1>2. Head(<<a>>) = a /\ Tail(<<a>>) = <<>>
  BY <1>1, HeadTailProperties, EmptySeq
<1>3. SubSeq(<<a>>, 1, 1 - 1) = <<>> /\ SubSeq(<<a>>, 1 + 1, Len(<<a>>)) = <<>>
  BY <1>1, SubSeqEmpty
<1>4. RemoveAt(<<a>>, 1) = <<>>
  BY <1>3, EmptyLine DEF RemoveAt
<1> QED
  BY <1>1, <1>2, <1>4

\* A line with two bytes on it.
LEMMA TwoBytes ==
  ASSUME NEW a \in Byte, NEW b \in Byte
  PROVE  /\ <<a, b>> \in Seq(Byte) /\ <<a, b>> # <<>> /\ DOMAIN <<a, b>> = {1, 2}
         /\ Head(<<a, b>>) = a /\ Tail(<<a, b>>) = <<b>>
         /\ RemoveAt(<<a, b>>, 1) = <<b>> /\ RemoveAt(<<a, b>>, 2) = <<a>>
<1> DEFINE s == <<a, b>>
<1>1. s \in Seq(Byte) /\ s # <<>> /\ DOMAIN s = {1, 2} /\ s[1] = a /\ s[2] = b /\ Len(s) = 2
  OBVIOUS
<1> HIDE DEF s
<1>2. Head(s) = a
  BY <1>1, SubSeqFull, HeadTailOfSubSeq, SMT
<1>3. SubSeq(s, 1, 1) = <<a>> /\ SubSeq(s, 2, 2) = <<b>>
  <2>1. SubSeq(s, 1, 1) = <<s[1]>> \o SubSeq(s, 2, 1) /\ SubSeq(s, 2, 2) = <<s[2]>> \o SubSeq(s, 3, 2)
    <3>1. \A k \in 1 .. Len(s) : SubSeq(s, k, k) = <<s[k]>> \o SubSeq(s, k + 1, k)
      BY <1>1, SubSeqRecursiveFirst
    <3>2. 1 \in 1 .. Len(s) /\ 2 \in 1 .. Len(s)
      BY <1>1
    <3> QED
      BY <3>1, <3>2
  <2>2. SubSeq(s, 2, 1) = <<>> /\ SubSeq(s, 3, 2) = <<>>
    BY SubSeqEmpty
  <2> QED
    BY <2>1, <2>2, <1>1, OneByte, EmptyLine
<1>4. Tail(s) = <<b>>
  BY <1>1, <1>3, TailIsSubSeq
<1>5. SubSeq(s, 1, 0) = <<>> /\ SubSeq(s, 3, 2) = <<>>
  BY <1>1, SubSeqEmpty
<1>6. RemoveAt(s, 1) = <<b>> /\ RemoveAt(s, 2) = <<a>>
  <2>1. RemoveAt(s, 1) = SubSeq(s, 1, 0) \o SubSeq(s, 2, 2)
    BY <1>1 DEF RemoveAt
  <2>2. RemoveAt(s, 2) = SubSeq(s, 1, 1) \o SubSeq(s, 3, 2)
    BY <1>1 DEF RemoveAt
  <2> QED
    BY <2>1, <2>2, <1>3, <1>5, OneByte, EmptyLine
<1> QED
  BY <1>1, <1>2, <1>4, <1>6 DEF s

\* What is left of a line that is read from or loses a byte.
LEMMA LineParts ==
  ASSUME NEW s \in Seq(Byte)
  PROVE  /\ s # <<>> => Head(s) \in Byte /\ Tail(s) \in Seq(Byte)
         /\ \A i \in DOMAIN s : RemoveAt(s, i) \in Seq(Byte)
         /\ \A j \in Byte : \A i \in DOMAIN s : [s EXCEPT ![i] = j] \in Seq(Byte)
<1>0. DOMAIN s = 1 .. Len(s) /\ Len(s) \in Nat
  BY LenProperties
<1>1. s # <<>> => Head(s) \in Byte /\ Tail(s) \in Seq(Byte)
  BY HeadTailProperties
<1>2. ASSUME NEW i \in DOMAIN s PROVE RemoveAt(s, i) \in Seq(Byte)
  <2>1. SubSeq(s, 1, i - 1) \in Seq(Byte) /\ SubSeq(s, i + 1, Len(s)) \in Seq(Byte)
    <3>1. \A k \in 1 .. i - 1 : s[k] \in Byte
      BY <1>0, ElementOfSeq
    <3>2. \A k \in i + 1 .. Len(s) : s[k] \in Byte
      BY <1>0, ElementOfSeq
    <3> QED
      BY <3>1, <3>2, <1>0, SubSeqProperties
  <2> QED
    BY <2>1, ConcatProperties DEF RemoveAt
<1>3. ASSUME NEW j \in Byte, NEW i \in DOMAIN s PROVE [s EXCEPT ![i] = j] \in Seq(Byte)
  BY <1>0, ExceptSeq
<1> QED
  BY <1>1, <1>2, <1>3

\* Bytes that are no answer stay so.
LEMMA InertParts ==
  ASSUME NEW s \in Seq(Byte), NEW t \in Seq(Byte), Inert(s), Inert(t)
  PROVE  /\ Inert(s \o t)
         /\ s # <<>> => Head(s) \notin {ACK, SUB, EOT} /\ Inert(Tail(s))
         /\ \A i \in DOMAIN s : Inert(RemoveAt(s, i))
<1>0. DOMAIN s = 1 .. Len(s) /\ Len(s) \in Nat /\ DOMAIN t = 1 .. Len(t) /\ Len(t) \in Nat
  BY LenProperties
<1>1. Inert(s \o t)
  <2>1. s \o t \in Seq(Byte) /\ Len(s \o t) = Len(s) + Len(t)
    BY ConcatProperties
  <2>2. DOMAIN (s \o t) = 1 .. Len(s) + Len(t)
    BY <2>1, LenProperties
  <2>3. ASSUME NEW i \in 1 .. Len(s) + Len(t) PROVE (s \o t)[i] \notin {ACK, SUB, EOT}
    <3>1. (s \o t)[i] = IF i <= Len(s) THEN s[i] ELSE t[i - Len(s)]
      BY ConcatProperties
    <3>2. CASE i <= Len(s)
      BY <3>1, <3>2, <1>0 DEF Inert
    <3>3. CASE ~(i <= Len(s))
      <4>1. i - Len(s) \in DOMAIN t
        BY <3>3, <1>0
      <4> QED
        BY <4>1, <3>1, <3>3 DEF Inert
    <3> QED
      BY <3>2, <3>3
  <2> QED
    BY <2>2, <2>3 DEF Inert
<1>2. ASSUME s # <<>> PROVE Head(s) \notin {ACK, SUB, EOT} /\ Inert(Tail(s))
  <2>1. Len(s) # 0 /\ Tail(s) \in Seq(Byte) /\ Len(Tail(s)) = Len(s) - 1
    BY <1>2, EmptySeq, HeadTailProperties, <1>0
  <2>2. Head(s) = s[1]
    BY <1>0, <2>1, SubSeqFull, HeadTailOfSubSeq, SMT
  <2>3. DOMAIN Tail(s) = 1 .. Len(s) - 1
    BY <2>1, LenProperties
  <2>4. \A i \in 1 .. Len(s) - 1 : Tail(s)[i] = s[i + 1] /\ i + 1 \in DOMAIN s
    BY <1>2, <1>0, <2>1, HeadTailProperties
  <2> QED
    BY <2>1, <2>2, <2>3, <2>4, <1>0 DEF Inert
<1>3. ASSUME NEW k \in DOMAIN s PROVE Inert(RemoveAt(s, k))
  <2> DEFINE u == SubSeq(s, 1, k - 1)
             v == SubSeq(s, k + 1, Len(s))
  <2>1. u \in Seq(Byte) /\ v \in Seq(Byte) /\ Len(u) = k - 1 /\ Len(v) = Len(s) - k
    <3>1. (\A n \in 1 .. k - 1 : s[n] \in Byte) /\ (\A n \in k + 1 .. Len(s) : s[n] \in Byte)
      BY <1>0, ElementOfSeq
    <3> QED
      BY <3>1, <1>0, SubSeqProperties
  <2>2. (\A n \in 1 .. k - 1 : u[n] = s[n]) /\ (\A n \in 1 .. Len(s) - k : v[n] = s[k + n])
    <3>1. (\A n \in 1 .. k - 1 : s[n] \in Byte) /\ (\A n \in k + 1 .. Len(s) : s[n] \in Byte)
      BY <1>0, ElementOfSeq
    <3>2. \A n \in 1 .. (k - 1) - 1 + 1 : u[n] = s[1 + n - 1]
      BY <3>1, <1>0, SubSeqProperties
    <3>3. \A n \in 1 .. Len(s) - (k + 1) + 1 : v[n] = s[(k + 1) + n - 1]
      BY <3>1, <1>0, SubSeqProperties
    <3> QED
      BY <3>2, <3>3, <1>0
  <2> HIDE DEF u, v
  <2>3. u \o v \in Seq(Byte) /\ Len(u \o v) = Len(s) - 1 /\ DOMAIN (u \o v) = 1 .. Len(s) - 1
    <3>1. u \o v \in Seq(Byte) /\ Len(u \o v) = Len(u) + Len(v)
      BY <2>1, ConcatProperties
    <3>2. Len(u) + Len(v) = Len(s) - 1
      BY <2>1, <1>0
    <3> QED
      BY <3>1, <3>2, LenProperties
  <2>4. ASSUME NEW n \in 1 .. Len(s) - 1 PROVE (u \o v)[n] \notin {ACK, SUB, EOT}
    <3>1. (u \o v)[n] = IF n <= k - 1 THEN u[n] ELSE v[n - (k - 1)]
      BY <2>1, <1>0, ConcatProperties
    <3>2. CASE n <= k - 1
      BY <3>1, <3>2, <2>2, <1>0 DEF Inert
    <3>3. CASE ~(n <= k - 1)
      <4>1. n - (k - 1) \in 1 .. Len(s) - k /\ k + (n - (k - 1)) \in DOMAIN s
        BY <3>3, <1>0
      <4>2. v[n - (k - 1)] = s[k + (n - (k - 1))]
        BY <4>1, <2>2
      <4> QED
        BY <4>1, <4>2, <3>1, <3>3 DEF Inert
    <3> QED
      BY <3>2, <3>3
  <2>5. Inert(u \o v)
    BY <2>3, <2>4 DEF Inert
  <2> QED
    BY <2>5 DEF RemoveAt, u, v
<1> QED
  BY <1>1, <1>2, <1>3

-----------------------------------------------------------------------------
(* The names of the list.                                                  *)

LEMMA Counts ==
  /\ MaxTries \in Nat /\ MaxTries > 1 /\ MaxLost \in Nat /\ MaxDamaged \in Nat /\ MaxLate \in Nat
  /\ Len(Files) \in Nat /\ Files \in Seq(Seq(Byte)) /\ Block \in Seq(Byte) /\ Junk \subseteq Byte
<1>1. Files \in Seq(Seq(Byte) \ {<<>>}) /\ Seq(Byte) \ {<<>>} \subseteq Seq(Byte)
  BY Modem7Assumption
<1>2. Files \in Seq(Seq(Byte))
  BY <1>1, SeqMonotonic
<1> QED
  BY <1>2, LenProperties, Modem7Assumption

LEMMA Codes ==
  /\ ACK \in Byte /\ NAK \in Byte /\ EOT \in Byte /\ SUB \in Byte /\ U \in Byte /\ CRC \in Byte
  /\ TSYNC \in Byte
  /\ NAK \notin {ACK, SUB, EOT, U, TSYNC, CRC} /\ U \notin {ACK, SUB, EOT}
  /\ ACK \notin {SUB, EOT, U} /\ SUB \notin {ACK, EOT, U} /\ EOT \notin {ACK, SUB, U}
  BY DEF ACK, NAK, EOT, SUB, U, CRC, TSYNC, Byte

LEMMA AddIsByte ==
  ASSUME NEW a \in Byte, NEW b \in Byte
  PROVE  Add(a, b) \in Byte
  BY DEF Add, Byte

LEMMA NameIs ==
  ASSUME next \in 1 .. Len(Files) + 1, More
  PROVE  /\ next \in 1 .. Len(Files) /\ Name \in Seq(Byte) /\ Len(Name) \in Nat \ {0}
         /\ \A i \in 1 .. Len(Name) : Name[i] \in Byte
         /\ PlainNames => \A i \in 1 .. Len(Name) : Name[i] \notin {ACK, EOT, SUB, U}
<1>1. next \in 1 .. Len(Files) /\ Files \in Seq(Seq(Byte) \ {<<>>})
  BY Counts, Modem7Assumption DEF More
<1>2. Name \in Seq(Byte) \ {<<>>} /\ next \in DOMAIN Files
  BY <1>1, ElementOfSeq, LenProperties DEF Name
<1>3. Len(Name) \in Nat \ {0} /\ DOMAIN Name = 1 .. Len(Name)
  BY <1>2, EmptySeq, LenProperties
<1>4. \A i \in 1 .. Len(Name) : Name[i] \in Byte
  BY <1>2, ElementOfSeq
<1>5. ASSUME PlainNames PROVE \A i \in 1 .. Len(Name) : Name[i] \notin {ACK, EOT, SUB, U}
  BY <1>5, <1>2, <1>3 DEF PlainNames, Name
<1> QED
  BY <1>1, <1>2, <1>3, <1>4, <1>5

\* The first n elements of a list, and one more.
LEMMA FirstOnes ==
  ASSUME NEW S, NEW s \in Seq(S)
  PROVE  /\ SubSeq(s, 1, 0) = <<>> /\ SubSeq(s, 1, Len(s)) = s
         /\ \A n \in 1 .. Len(s) : Append(SubSeq(s, 1, n - 1), s[n]) = SubSeq(s, 1, n)
         /\ \A n \in 0 .. Len(s) : IsPrefix(SubSeq(s, 1, n), s)
<1>0. Len(s) \in Nat /\ \A i \in 1 .. Len(s) : s[i] \in S
  BY LenProperties, ElementOfSeq
<1>1. SubSeq(s, 1, 0) = <<>> /\ SubSeq(s, 1, Len(s)) = s
  BY SubSeqEmpty, SubSeqFull
<1>2. ASSUME NEW n \in 0 .. Len(s) PROVE SubSeq(s, 1, n) \in Seq(S) /\ Len(SubSeq(s, 1, n)) = n
  <2>1. \A i \in 1 .. n : s[i] \in S
    BY <1>0
  <2>2. /\ SubSeq(s, 1, n) \in Seq(S)
        /\ Len(SubSeq(s, 1, n)) = IF 1 <= n THEN n - 1 + 1 ELSE 0
    BY <2>1, <1>0, SubSeqProperties
  <2> QED
    BY <2>2, <1>0
<1>3. ASSUME NEW n \in 1 .. Len(s) PROVE Append(SubSeq(s, 1, n - 1), s[n]) = SubSeq(s, 1, n)
  <2>1. n - 1 \in 0 .. Len(s)
    BY <1>0
  <2>2. SubSeq(s, 1, n) = SubSeq(s, 1, n - 1) \o <<s[n]>>
    <3>1. 1 \in 1 .. Len(s) /\ n \in 1 .. Len(s)
      BY <1>0
    <3> QED
      BY <3>1, SubSeqRecursiveSecond
  <2>3. SubSeq(s, 1, n - 1) \in Seq(S) /\ s[n] \in S
    BY <2>1, <1>2, <1>0
  <2> QED
    BY <2>2, <2>3, AppendIsConcat
<1>4. ASSUME NEW n \in 0 .. Len(s) PROVE IsPrefix(SubSeq(s, 1, n), s)
  <2>1. SubSeq(s, 1, n) \in Seq(S) /\ Len(SubSeq(s, 1, n)) = n
    BY <1>2
  <2>2. SubSeq(SubSeq(s, 1, n), 1, n) = SubSeq(s, 1, n)
    BY <2>1, SubSeqFull
  <2>3. n <= Len(s)
    BY <1>0
  <2> QED
    BY <2>1, <2>2, <2>3 DEF IsPrefix
<1> QED
  BY <1>1, <1>3, <1>4

-----------------------------------------------------------------------------
(* Types.                                                                  *)

LEMMA InitTypes ==
  ASSUME Init
  PROVE  TypeInv
<1>1. <<>> \in Seq(Byte) /\ <<>> \in Seq(Seq(Byte))
  BY EmptySeq
<1>2. SenderTypes
  BY Counts DEF Init, SenderTypes, SPcs, Byte
<1>3. ReceiverTypes
  BY <1>1, Counts DEF Init, ReceiverTypes, RPcs, Byte, Stopped
<1>4. LineTypes
  BY <1>1, Counts DEF Init, LineTypes
<1> QED
  BY <1>2, <1>3, <1>4 DEF TypeInv

LEMMA OrLateTypes ==
  ASSUME NEW b \in BOOLEAN, late \in 0 .. MaxLate, OrLate(b)
  PROVE  late' \in 0 .. MaxLate /\ (late' = 0 => late = 0 /\ b)
  BY Counts DEF OrLate

\* What a sender with a try left makes of its counters.
LEMMA RetryTypes ==
  ASSUME SenderTypes, NEW pc \in {"FS_02", "MF1_00A"}, sPc # "fatal", Retry(pc),
         pc = "MF1_00A" => More
  PROVE  SenderTypes'
<1>1. /\ tries' = tries + 1 /\ sPc' = IF tries' = MaxTries THEN "fatal" ELSE pc
      /\ next' = next /\ pos' = pos /\ sSum' = sSum /\ (More' <=> More)
  BY DEF Retry, More
<1> QED
  BY <1>1, Counts DEF SenderTypes, SPcs

LEMMA LinePuts ==
  ASSUME LineTypes, NEW bytes \in Seq(Byte)
  PROVE  /\ Sends(bytes) => toR' \in Seq(Byte)
         /\ Answers(bytes) => toS' \in Seq(Byte)
         /\ SGet => Head(toS) \in Byte /\ toS' \in Seq(Byte)
         /\ RGet => Head(toR) \in Byte /\ toR' \in Seq(Byte)
<1>1. toR \o bytes \in Seq(Byte) /\ toS \o bytes \in Seq(Byte)
  BY ConcatProperties DEF LineTypes
<1> QED
  BY <1>1, LineParts DEF LineTypes, Sends, Answers, SGet, RGet

LEMMA FS_02Types ==
  ASSUME TypeInv, NEW b \in Byte, FS_02(b)
  PROVE  SenderTypes' /\ toR' \in Seq(Byte)
<1>0. sPc = "FS_02" /\ SenderTypes /\ LineTypes /\ <<>> \in Seq(Byte) /\ <<EOT>> \in Seq(Byte)
  BY EmptyLine, OneByte, Codes DEF FS_02, TypeInv
<1>1. CASE FF_06
  <2>1. CASE More
    <3>1. sPc' = "MF1_00A" /\ tries' = 1 /\ next' = next /\ pos' = pos /\ sSum' = sSum /\ More'
      BY <1>1, <2>1 DEF FF_06, More
    <3>2. Sends(<<>>)
      BY <1>1, <2>1 DEF FF_06
    <3>3. SenderTypes'
      BY <3>1, <1>0, Counts DEF SenderTypes, SPcs
    <3> QED
      BY <3>2, <3>3, <1>0, LinePuts
  <2>2. CASE ~More
    BY <1>1, <2>2, <1>0, RetryTypes, LinePuts DEF FF_06
  <2> QED
    BY <2>1, <2>2
<1>2. CASE sPc' = "done" /\ Sends(<<>>) /\ UNCHANGED <<tries, next, pos, sSum>>
  <2>1. More' <=> More
    BY <1>2 DEF More
  <2> QED
    BY <1>2, <2>1, <1>0, LinePuts DEF SenderTypes, SPcs
<1>3. CASE Retry("FS_02") /\ Sends(<<>>)
  BY <1>3, <1>0, RetryTypes, LinePuts
<1> QED
  BY <1>1, <1>2, <1>3 DEF FS_02

LEMMA MF1_00ATypes ==
  ASSUME TypeInv, NEW b \in Byte, MF1_00A(b)
  PROVE  SenderTypes' /\ toR' \in Seq(Byte)
<1>0. sPc = "MF1_00A" /\ SenderTypes /\ LineTypes /\ <<>> \in Seq(Byte) /\ More
  BY EmptyLine DEF MF1_00A, TypeInv, SenderTypes
<1>1. CASE b = NAK
  <2>1. Name[1] \in Byte
    BY <1>0, NameIs DEF SenderTypes
  <2>2. <<ACK, Name[1]>> \in Seq(Byte)
    BY <2>1, Codes, TwoBytes
  <2>3. /\ sPc' = "FS_MS1" /\ pos' = 2 /\ sSum' = Name[1] /\ tries' = tries /\ next' = next /\ More'
        /\ Sends(<<ACK, Name[1]>>)
    BY <1>0, <1>1 DEF MF1_00A, More
  <2>9. SenderTypes'
    BY <2>1, <2>2, <2>3, <1>0 DEF SenderTypes, SPcs
  <2> QED
    BY <2>2, <2>3, <2>9, <1>0, LinePuts
<1>2. CASE b # NAK
  BY <1>2, <1>0, RetryTypes, LinePuts DEF MF1_00A
<1> QED
  BY <1>1, <1>2

LEMMA FS_MS1Types ==
  ASSUME TypeInv, NEW b \in Byte, FS_MS1(b)
  PROVE  SenderTypes' /\ toR' \in Seq(Byte)
<1>0. sPc = "FS_MS1" /\ SenderTypes /\ LineTypes /\ <<U>> \in Seq(Byte) /\ More
  BY OneByte, Codes DEF FS_MS1, TypeInv, SenderTypes
<1>1. CASE b = ACK
  <2> DEFINE c == IF pos > Len(Name) THEN SUB ELSE Name[pos]
  <2>1. c \in Byte
    BY <1>0, NameIs, Codes DEF SenderTypes
  <2>2. /\ Sends(<<c>>) /\ sSum' = Add(sSum, c) /\ pos' = pos + 1
        /\ tries' = tries /\ next' = next /\ More' /\ sPc' \in {"FS_MS1", "FS_MS2"}
    BY <1>0, <1>1 DEF FS_MS1, More
  <2> HIDE DEF c
  <2>3. Add(sSum, c) \in Byte /\ <<c>> \in Seq(Byte)
    BY <2>1, <1>0, AddIsByte, OneByte DEF SenderTypes
  <2>9. SenderTypes'
    BY <2>2, <2>3, <1>0 DEF SenderTypes, SPcs
  <2> QED
    BY <2>2, <2>3, <2>9, <1>0, LinePuts
<1>2. CASE b # ACK
  BY <1>2, <1>0, RetryTypes, LinePuts DEF FS_MS1
<1> QED
  BY <1>1, <1>2

LEMMA FS_MS2Types ==
  ASSUME TypeInv, NEW b \in Byte, FS_MS2(b)
  PROVE  SenderTypes' /\ toR' \in Seq(Byte)
<1>0. /\ sPc = "FS_MS2" /\ SenderTypes /\ LineTypes /\ More
      /\ <<ACK>> \in Seq(Byte) /\ <<>> \in Seq(Byte)
  BY OneByte, EmptyLine, Codes DEF FS_MS2, TypeInv, SenderTypes
<1>1. CASE b = sSum
  <2>1. /\ Sends(<<ACK>>) /\ sPc' = "xmodem"
        /\ tries' = tries /\ next' = next /\ pos' = pos /\ sSum' = sSum /\ More'
    BY <1>0, <1>1 DEF FS_MS2, More
  <2> QED
    BY <2>1, <1>0, LinePuts DEF SenderTypes, SPcs
<1>2. CASE b # sSum
  BY <1>2, <1>0, RetryTypes, LinePuts DEF FS_MS2
<1> QED
  BY <1>1, <1>2

LEMMA S_timeoutTypes ==
  ASSUME TypeInv, S_timeout
  PROVE  SenderTypes' /\ toR' \in Seq(Byte)
<1>0. SenderTypes /\ LineTypes /\ <<U>> \in Seq(Byte) /\ <<>> \in Seq(Byte)
  BY OneByte, EmptyLine, Codes DEF TypeInv
<1>1. CASE sPc = "FS_02" /\ Sends(<<>>) /\ Retry("FS_02")
  BY <1>1, <1>0, RetryTypes, LinePuts
<1>2. CASE sPc \in {"MF1_00A", "FS_MS2"} /\ Sends(<<>>) /\ Retry("MF1_00A")
  <2>1. More
    BY <1>2, <1>0 DEF SenderTypes
  <2> QED
    BY <1>2, <2>1, <1>0, RetryTypes, LinePuts
<1>3. CASE sPc = "FS_MS1" /\ Sends(<<U>>) /\ Retry("MF1_00A")
  <2>1. More
    BY <1>3, <1>0 DEF SenderTypes
  <2> QED
    BY <1>3, <2>1, <1>0, RetryTypes, LinePuts
<1> QED
  BY <1>1, <1>2, <1>3 DEF S_timeout

LEMMA XMF_STypes ==
  ASSUME TypeInv, XMF_S_alone
  PROVE  SenderTypes' /\ toR' \in Seq(Byte)
<1>0. SenderTypes /\ LineTypes /\ <<>> \in Seq(Byte) /\ Block \in Seq(Byte)
  BY EmptyLine, Counts DEF TypeInv
<1>1. CASE UNCHANGED sender /\ \E bytes \in {Block, <<>>} : Sends(bytes)
  <2>1. SenderTypes'
    BY <1>1, <1>0 DEF sender, SenderTypes, More
  <2> QED
    BY <2>1, <1>1, <1>0, LinePuts
<1>2. CASE sPc' = "fatal" /\ Sends(<<>>) /\ UNCHANGED <<tries, next, pos, sSum>>
  BY <1>2, <1>0, LinePuts DEF SenderTypes, SPcs
<1> QED
  BY <1>1, <1>2 DEF XMF_S_alone

LEMMA SenderKeepsTypes ==
  ASSUME TypeInv, SenderActs
  PROVE  TypeInv'
<1>0. /\ SenderTypes /\ ReceiverTypes /\ LineTypes
      /\ rPc' = rPc /\ m7try' = m7try /\ field' = field /\ rSum' = rSum /\ heard' = heard
      /\ lost' = lost /\ damaged' = damaged
  BY DEF TypeInv, SenderActs, receiver
<1>1. ReceiverTypes'
  BY <1>0 DEF ReceiverTypes
<1>2. SenderTypes' /\ toR' \in Seq(Byte)
  <2>1. CASE SGet /\ LET b == Head(toS) IN FS_02(b) \/ MF1_00A(b) \/ FS_MS1(b) \/ FS_MS2(b)
    <3>1. Head(toS) \in Byte
      BY <2>1, <1>0, LineParts DEF SGet, LineTypes
    <3> QED
      BY <3>1, <2>1, FS_02Types, MF1_00ATypes, FS_MS1Types, FS_MS2Types
  <2>2. CASE S_timeout
    BY <2>2, S_timeoutTypes
  <2>3. CASE XMF_S_alone
    BY <2>3, XMF_STypes
  <2> QED
    BY <2>1, <2>2, <2>3 DEF SenderActs, SenderStep
<1>3. toS' \in Seq(Byte) /\ late' \in 0 .. MaxLate
  <2>1. CASE SGet
    BY <2>1, <1>0, LineParts DEF SGet, LineTypes
  <2>2. CASE SQuiet
    BY <2>2, <1>0, OrLateTypes DEF SQuiet, LineTypes, Waits
  <2>3. CASE toS' = toS /\ late' = late
    BY <2>3, <1>0 DEF LineTypes
  <2> QED
    BY <2>1, <2>2, <2>3 DEF SenderActs, SenderStep, S_timeout, XMF_S_alone
<1> QED
  BY <1>0, <1>1, <1>2, <1>3 DEF TypeInv, LineTypes

\* The receiver asks again, or has asked often enough.
LEMMA MF_00Types ==
  ASSUME ReceiverTypes, LineTypes, rPc \notin Stopped, MF_00
  PROVE  ReceiverTypes' /\ toS' \in Seq(Byte)
<1>0. <<>> \in Seq(Byte) /\ <<NAK>> \in Seq(Byte)
  BY EmptyLine, OneByte, Codes
<1>1. /\ m7try' = m7try + 1 /\ field' = field /\ rSum' = rSum /\ heard' = heard
      /\ rPc' = IF m7try' = MaxTries THEN "fatal" ELSE "MF_01"
  BY DEF MF_00
<1>2. Answers(<<>>) \/ Answers(<<NAK>>)
  BY DEF MF_00
<1>3. ReceiverTypes'
  <2>1. m7try < MaxTries /\ m7try \in Nat
    BY Counts DEF ReceiverTypes
  <2>2. m7try' \in 0 .. MaxTries /\ (m7try' # MaxTries => m7try' < MaxTries)
    BY <2>1, <1>1, Counts
  <2>3. rPc' \in RPcs /\ (rPc' \notin Stopped => m7try' < MaxTries)
    BY <2>2, <1>1 DEF RPcs, Stopped
  <2> QED
    BY <2>2, <2>3, <1>1 DEF ReceiverTypes
<1> QED
  BY <1>0, <1>2, <1>3, LinePuts

LEMMA FlushTypes ==
  ASSUME ReceiverTypes, LineTypes, Flush
  PROVE  ReceiverTypes' /\ toS' \in Seq(Byte)
<1>1. CASE rPc = "flush again" /\ MF_00
  BY <1>1, MF_00Types DEF Stopped
<1>2. CASE /\ rPc = "flush" /\ rPc' = "flush again"
           /\ Answers(<<>>) /\ UNCHANGED <<m7try, field, rSum, heard>>
  <2>1. ReceiverTypes'
    BY <1>2 DEF ReceiverTypes, RPcs, Stopped
  <2> QED
    BY <2>1, <1>2, EmptyLine, LinePuts
<1> QED
  BY <1>1, <1>2 DEF Flush

LEMMA MF_01Types ==
  ASSUME ReceiverTypes, LineTypes, NEW b \in Byte, MF_01(b)
  PROVE  ReceiverTypes' /\ toS' \in Seq(Byte)
<1>0. rPc = "MF_01" /\ <<>> \in Seq(Byte) /\ <<ACK>> \in Seq(Byte)
  BY EmptyLine, OneByte, Codes DEF MF_01
<1>1. CASE /\ rPc' = "MF_04" /\ field' = <<>> /\ rSum' = 0
           /\ Answers(<<>>) /\ UNCHANGED <<m7try, heard>>
  <2>1. ReceiverTypes'
    BY <1>1, <1>0 DEF ReceiverTypes, RPcs, Stopped, Byte
  <2> QED
    BY <2>1, <1>1, <1>0, LinePuts
<1>2. CASE /\ rPc' = "done" /\ Answers(IF b = SUB THEN <<ACK>> ELSE <<>>)
           /\ UNCHANGED <<m7try, field, rSum, heard>>
  <2>1. ReceiverTypes'
    BY <1>2, <1>0 DEF ReceiverTypes, RPcs, Stopped
  <2> QED
    BY <2>1, <1>2, <1>0, LinePuts
<1>3. CASE MF_00
  BY <1>3, <1>0, MF_00Types DEF Stopped
<1> QED
  BY <1>1, <1>2, <1>3 DEF MF_01

LEMMA MF_04Types ==
  ASSUME ReceiverTypes, LineTypes, NEW b \in Byte, MF_04(b)
  PROVE  ReceiverTypes' /\ toS' \in Seq(Byte)
<1>0. /\ rPc = "MF_04" /\ <<>> \in Seq(Byte) /\ <<ACK>> \in Seq(Byte)
      /\ Add(rSum, b) \in Byte /\ Add(rSum, SUB) \in Byte
  BY EmptyLine, OneByte, Codes, AddIsByte DEF MF_04, ReceiverTypes
<1>1. <<Add(rSum, SUB)>> \in Seq(Byte) /\ Append(field, b) \in Seq(Byte)
  BY <1>0, OneByte, AppendProperties DEF ReceiverTypes
<1>2. CASE /\ rPc' \in {"done", "MF_06"} /\ UNCHANGED <<m7try, field, rSum, heard>>
           /\ \E bytes \in {<<>>, <<Add(rSum, SUB)>>} : Answers(bytes)
  <2>1. ReceiverTypes'
    BY <1>2, <1>0 DEF ReceiverTypes, RPcs, Stopped
  <2> QED
    BY <2>1, <1>2, <1>1, <1>0, LinePuts
<1>3. CASE MF_00
  BY <1>3, <1>0, MF_00Types DEF Stopped
<1>4. CASE /\ field' = Append(field, b) /\ rSum' = Add(rSum, b)
           /\ Answers(<<ACK>>) /\ UNCHANGED <<rPc, m7try, heard>>
  <2>1. ReceiverTypes'
    BY <1>4, <1>1, <1>0 DEF ReceiverTypes
  <2> QED
    BY <2>1, <1>4, <1>0, LinePuts
<1> QED
  BY <1>2, <1>3, <1>4 DEF MF_04

LEMMA MF_06Types ==
  ASSUME ReceiverTypes, LineTypes, NEW b \in Byte, MF_06(b)
  PROVE  ReceiverTypes' /\ toS' \in Seq(Byte)
<1>0. rPc = "MF_06"
  BY DEF MF_06
<1>1. CASE rPc' = "xmodem" /\ Answers(<<>>) /\ UNCHANGED <<m7try, field, rSum, heard>>
  <2>1. ReceiverTypes'
    BY <1>1, <1>0 DEF ReceiverTypes, RPcs, Stopped
  <2> QED
    BY <2>1, <1>1, EmptyLine, LinePuts
<1>2. CASE MF_00
  BY <1>2, <1>0, MF_00Types DEF Stopped
<1> QED
  BY <1>1, <1>2 DEF MF_06

LEMMA XMF_RTypes ==
  ASSUME ReceiverTypes, LineTypes, XMF_R_alone
  PROVE  ReceiverTypes' /\ toS' \in Seq(Byte)
<1>0. rPc = "xmodem" /\ <<>> \in Seq(Byte) /\ <<CRC>> \in Seq(Byte)
  BY EmptyLine, OneByte, Codes DEF XMF_R_alone
<1>1. CASE Answers(<<>>) /\ UNCHANGED receiver
  <2>1. ReceiverTypes'
    BY <1>1 DEF ReceiverTypes, receiver
  <2> QED
    BY <2>1, <1>1, <1>0, LinePuts
<1>2. CASE /\ m7try' = m7try + 1 /\ UNCHANGED <<field, rSum, heard>>
           /\ IF m7try' >= MaxTries THEN rPc' = "fatal" /\ Answers(<<>>)
                                    ELSE rPc' = "xmodem" /\ Answers(<<CRC>>)
  <2>1. /\ rPc' = IF m7try + 1 >= MaxTries THEN "fatal" ELSE "xmodem"
        /\ m7try' = m7try + 1 /\ field' = field /\ rSum' = rSum /\ heard' = heard
    BY <1>2
  <2>2. ReceiverTypes'
    BY <2>1, <1>0, Counts DEF ReceiverTypes, RPcs, Stopped
  <2>3. Answers(<<>>) \/ Answers(<<CRC>>)
    BY <1>2
  <2> QED
    BY <2>2, <2>3, <1>0, LinePuts
<1> QED
  BY <1>1, <1>2 DEF XMF_R_alone

LEMMA TurnTypes ==
  ASSUME ReceiverTypes, LineTypes, Turnaround
  PROVE  ReceiverTypes' /\ toS' \in Seq(Byte)
<1>1. /\ rPc = "done" /\ rPc' = rPc /\ m7try < MaxTries /\ m7try' = m7try + 1
      /\ field' = field /\ rSum' = rSum /\ heard' = heard /\ Answers(<<TSYNC>>)
  BY DEF Turnaround
<1>2. ReceiverTypes'
  BY <1>1, Counts DEF ReceiverTypes, Stopped
<1> QED
  BY <1>1, <1>2, Codes, OneByte, LinePuts

LEMMA ReceiverKeepsTypes ==
  ASSUME TypeInv, ReceiverActs
  PROVE  TypeInv'
<1>0. /\ SenderTypes /\ ReceiverTypes /\ LineTypes
      /\ sPc' = sPc /\ tries' = tries /\ next' = next /\ pos' = pos /\ sSum' = sSum
      /\ lost' = lost /\ damaged' = damaged
  BY DEF TypeInv, ReceiverActs, sender
<1>1. SenderTypes'
  BY <1>0 DEF SenderTypes, More
<1>2. ReceiverTypes' /\ toS' \in Seq(Byte)
  <2>1. CASE RGet /\ LET b == Head(toR) IN MF_01(b) \/ MF_04(b) \/ MF_06(b)
    <3>1. Head(toR) \in Byte
      BY <2>1, <1>0, LineParts DEF RGet, LineTypes
    <3> QED
      BY <3>1, <2>1, <1>0, MF_01Types, MF_04Types, MF_06Types
  <2>2. CASE Flush
    BY <2>2, <1>0, FlushTypes
  <2>3. CASE R_timeout
    BY <2>3, <1>0, MF_00Types DEF R_timeout, Stopped
  <2>4. CASE XMF_R_alone
    BY <2>4, <1>0, XMF_RTypes
  <2>5. CASE Turnaround
    BY <2>5, <1>0, TurnTypes
  <2> QED
    BY <2>1, <2>2, <2>3, <2>4, <2>5 DEF ReceiverActs, ReceiverStep
<1>3. toR' \in Seq(Byte) /\ late' \in 0 .. MaxLate
  <2>1. CASE RGet
    BY <2>1, <1>0, LineParts DEF RGet, LineTypes
  <2>2. CASE RQuiet
    BY <2>2, <1>0, OrLateTypes DEF RQuiet, LineTypes
  <2>3. CASE toR' = toR /\ late' = late
    BY <2>3, <1>0 DEF LineTypes
  <2> QED
    BY <2>1, <2>2, <2>3 DEF ReceiverActs, ReceiverStep, Flush, R_timeout, XMF_R_alone, Turnaround
<1> QED
  BY <1>0, <1>1, <1>2, <1>3 DEF TypeInv, LineTypes

LEMMA TransferKeepsTypes ==
  ASSUME TypeInv, NEW sok \in BOOLEAN, NEW rok \in BOOLEAN, Transfer(sok, rok),
         UNCHANGED <<lost, damaged, late>>
  PROVE  TypeInv'
<1>1. /\ sPc = "xmodem" /\ rPc = "xmodem" /\ sPc' \in {"FS_02", "fatal"} /\ tries' = 1
      /\ next' = next + 1 /\ pos' = pos /\ sSum' = sSum
      /\ rPc' \in {"MF_01", "fatal"} /\ m7try' = 1 /\ field' = field /\ rSum' = rSum
      /\ heard' \in {Append(heard, field), heard}
      /\ toR' = <<>> /\ toS' \in {<<>>, <<NAK>>}
  BY DEF Transfer
<1>2. SenderTypes /\ ReceiverTypes /\ LineTypes
  BY DEF TypeInv
<1>3. SenderTypes'
  BY <1>1, <1>2, Counts DEF SenderTypes, SPcs, More
<1>4. Append(heard, field) \in Seq(Seq(Byte))
  BY <1>2, AppendProperties DEF ReceiverTypes
<1>5. ReceiverTypes'
  <2>1. heard' \in Seq(Seq(Byte))
    BY <1>1, <1>2, <1>4 DEF ReceiverTypes
  <2>2. rPc' \in RPcs /\ m7try' \in 0 .. MaxTries /\ m7try' < MaxTries
    <3>1. 1 \in 0 .. MaxTries /\ 1 < MaxTries
      BY Counts
    <3> QED
      BY <3>1, <1>1 DEF RPcs
  <2> QED
    BY <2>1, <2>2, <1>1, <1>2 DEF ReceiverTypes
<1>6. <<>> \in Seq(Byte) /\ <<NAK>> \in Seq(Byte)
  BY EmptyLine, OneByte, Codes
<1>7. LineTypes'
  BY <1>1, <1>2, <1>6 DEF LineTypes
<1> QED
  BY <1>3, <1>5, <1>7 DEF TypeInv

LEMMA LineKeepsTypes ==
  ASSUME TypeInv, Lose \/ Damage
  PROVE  TypeInv'
<1>0. /\ SenderTypes /\ ReceiverTypes /\ LineTypes
      /\ sPc' = sPc /\ tries' = tries /\ next' = next /\ pos' = pos /\ sSum' = sSum
      /\ rPc' = rPc /\ m7try' = m7try /\ field' = field /\ rSum' = rSum /\ heard' = heard
      /\ late' = late
  BY DEF TypeInv, Lose, Damage, sender, receiver
<1>1. SenderTypes' /\ ReceiverTypes'
  BY <1>0 DEF SenderTypes, ReceiverTypes, More
<1>2. toR' \in Seq(Byte) /\ toS' \in Seq(Byte)
  <2>1. CASE Lose
    BY <2>1, <1>0, LineParts DEF Lose, LineTypes
  <2>2. CASE Damage
    <3>1. PICK j \in Junk :
            \/ \E i \in DOMAIN toR : toR' = [toR EXCEPT ![i] = j] /\ toS' = toS
            \/ \E i \in DOMAIN toS : toS' = [toS EXCEPT ![i] = j] /\ toR' = toR
      BY <2>2 DEF Damage
    <3>2. j \in Byte
      BY Counts
    <3>3. toR \in Seq(Byte) /\ toS \in Seq(Byte)
      BY <1>0 DEF LineTypes
    <3>4. ASSUME NEW i \in DOMAIN toR, toR' = [toR EXCEPT ![i] = j] PROVE toR' \in Seq(Byte)
      BY <3>2, <3>3, <3>4, LineParts
    <3>5. ASSUME NEW i \in DOMAIN toS, toS' = [toS EXCEPT ![i] = j] PROVE toS' \in Seq(Byte)
      BY <3>2, <3>3, <3>5, LineParts
    <3> QED
      BY <3>1, <3>3, <3>4, <3>5
  <2> QED
    BY <2>1, <2>2
<1>3. lost' \in 0 .. MaxLost /\ damaged' \in 0 .. MaxDamaged
  BY <1>0, Counts DEF Lose, Damage, LineTypes
<1> QED
  BY <1>0, <1>1, <1>2, <1>3 DEF TypeInv, LineTypes

LEMMA StepKeepsTypes ==
  ASSUME TypeInv, [Next]_vars
  PROVE  TypeInv'
<1>1. CASE SenderActs
  BY <1>1, SenderKeepsTypes
<1>2. CASE ReceiverActs
  BY <1>2, ReceiverKeepsTypes
<1>3. CASE BothActs
  BY <1>3, TransferKeepsTypes DEF BothActs
<1>4. CASE Lose \/ Damage
  BY <1>4, LineKeepsTypes
<1>5. CASE UNCHANGED vars
  BY <1>5 DEF TypeInv, SenderTypes, ReceiverTypes, LineTypes, More, vars, sender, receiver, line
<1> QED
  BY <1>1, <1>2, <1>3, <1>4, <1>5 DEF Next

LEMMA TypesHold == TypeInv => TypeOK
<1> SUFFICES ASSUME TypeInv PROVE TypeOK
  OBVIOUS
<1>1. SenderTypes /\ ReceiverTypes /\ LineTypes
  BY DEF TypeInv
<1> QED
  BY <1>1 DEF SenderTypes, ReceiverTypes, LineTypes, TypeOK

-----------------------------------------------------------------------------
(* The ends stay in step when the sender acts.                             *)

LEMMA Puts ==
  ASSUME LineTypes
  PROVE  /\ rPc \notin Stopped => /\ Sends(<<>>) => toR' = toR
                                  /\ \A s \in Seq(Byte) : Sends(s) => toR' = toR \o s
                                  /\ \A s \in Seq(Byte) : toR = <<>> /\ Sends(s) => toR' = s
         /\ sPc \notin Stopped => /\ Answers(<<>>) => toS' = toS
                                  /\ \A s \in Seq(Byte) : toS = <<>> /\ Answers(s) => toS' = s
         /\ Answers(<<>>) => toS' = toS
<1>1. toR \o <<>> = toR /\ toS \o <<>> = toS /\ \A s \in Seq(Byte) : <<>> \o s = s
  BY EmptyLine DEF LineTypes
<1> QED
  BY <1>1 DEF Sends, Answers, Stopped

LEMMA SenderKeepsName ==
  ASSUME next' = next
  PROVE  Name' = Name /\ (More' <=> More)
  BY DEF Name, More

LEMMA FS_02InStep ==
  ASSUME TypeInv, InStep, rPc \notin Stopped, rPc' = rPc, field' = field, SGet, FS_02(Head(toS))
  PROVE  InStep'
<1>0. LineTypes /\ sPc = "FS_02" /\ toS # <<>> /\ toS' = Tail(toS)
  BY DEF TypeInv, FS_02, SGet
<1>1. rPc = "MF_01" /\ toR = <<>> /\ toS = <<NAK>>
  BY <1>0 DEF InStep, Asking, Nothing, Asked
<1>2. Head(toS) = NAK /\ toS' = <<>> /\ <<EOT>> \in Seq(Byte)
  BY <1>0, <1>1, OneByte, Codes
<1>3. FF_06
  BY <1>2, <1>0, Codes DEF FS_02
<1>4. CASE More
  <2>1. sPc' = "MF1_00A" /\ toR' = <<>>
    BY <1>3, <1>4, <1>0, <1>1, Puts DEF FF_06
  <2> QED
    BY <2>1, <1>1, <1>2 DEF InStep, Asking, Asked
<1>5. CASE ~More
  <2>1. toR' = <<EOT>> /\ sPc' \in {"FS_02", "fatal"} /\ ~More'
    BY <1>3, <1>5, <1>0, <1>1, <1>2, Puts, SenderKeepsName DEF FF_06, Retry
  <2> QED
    BY <2>1, <1>1, <1>2 DEF InStep, Asking, GivenUp
<1> QED
  BY <1>4, <1>5

LEMMA MF1_00AInStep ==
  ASSUME TypeInv, InStep, rPc \notin Stopped, rPc' = rPc, field' = field, SGet, MF1_00A(Head(toS))
  PROVE  InStep'
<1>0. LineTypes /\ SenderTypes /\ sPc = "MF1_00A" /\ toS # <<>> /\ toS' = Tail(toS)
  BY DEF TypeInv, MF1_00A, SGet
<1>1. rPc = "MF_01" /\ toR = <<>> /\ toS = <<NAK>>
  BY <1>0 DEF InStep, Asking, Nothing, Asked
<1>2. Head(toS) = NAK /\ toS' = <<>>
  BY <1>0, <1>1, OneByte, Codes
<1>3. Name[1] \in Byte
  BY <1>0, NameIs DEF SenderTypes
<1>4. <<ACK, Name[1]>> \in Seq(Byte)
  BY <1>3, TwoBytes, Codes
<1>5. sPc' = "FS_MS1" /\ pos' = 2 /\ next' = next /\ Sends(<<ACK, Name[1]>>)
  BY <1>2 DEF MF1_00A
<1>6. Name' = Name /\ toR' = <<ACK, Name[1]>>
  BY <1>5, <1>4, <1>0, <1>1, Puts, SenderKeepsName
<1> QED
  BY <1>1, <1>2, <1>5, <1>6 DEF InStep, Spelling

LEMMA FS_MS1InStep ==
  ASSUME TypeInv, InStep, rPc \notin Stopped, rPc' = rPc, field' = field, SGet, FS_MS1(Head(toS))
  PROVE  InStep'
<1>0. LineTypes /\ SenderTypes /\ sPc = "FS_MS1" /\ toS # <<>> /\ toS' = Tail(toS)
  BY DEF TypeInv, FS_MS1, SGet
<1>1. \/ rPc = "MF_01" /\ toR = <<>> /\ toS = <<NAK>>
      \/ /\ rPc = "MF_04" /\ toR = <<>> /\ toS = <<ACK>>
         /\ pos \in 2 .. Len(Name) + 1 /\ field = SubSeq(Name, 1, pos - 1)
  BY <1>0 DEF InStep, Spelling, Nothing, Asked
<1>2. CASE rPc = "MF_01" /\ toR = <<>> /\ toS = <<NAK>>
  <2>1. Head(toS) = NAK /\ toS' = <<>> /\ <<U>> \in Seq(Byte)
    BY <1>0, <1>2, OneByte, Codes
  <2>2. Sends(<<U>>) /\ sPc' \in {"MF1_00A", "fatal"}
    BY <2>1, Codes DEF FS_MS1, Retry
  <2>3. toR' = <<U>>
    BY <2>1, <2>2, <1>0, <1>2, Puts
  <2>4. Inert(<<U>>)
    BY OneByte, Codes DEF Inert
  <2> QED
    BY <2>1, <2>2, <2>3, <2>4, <1>2 DEF InStep, Asking, GivenUp, Left
<1>3. CASE /\ rPc = "MF_04" /\ toR = <<>> /\ toS = <<ACK>>
           /\ pos \in 2 .. Len(Name) + 1 /\ field = SubSeq(Name, 1, pos - 1)
  <2> DEFINE c == IF pos > Len(Name) THEN SUB ELSE Name[pos]
  <2>1. Head(toS) = ACK /\ toS' = <<>>
    BY <1>0, <1>3, OneByte, Codes
  <2>2. /\ Name \in Seq(Byte) /\ Len(Name) \in Nat \ {0} /\ pos \in Nat
        /\ \A i \in 1 .. Len(Name) : Name[i] \in Byte
    BY <1>0, NameIs DEF SenderTypes
  <2>3. c \in Byte
    BY <2>2, <1>3, Codes
  <2>4. /\ Sends(<<c>>) /\ pos' = pos + 1 /\ next' = next
        /\ sPc' = IF pos > Len(Name) THEN "FS_MS2" ELSE "FS_MS1"
    BY <2>1 DEF FS_MS1
  <2>5. Name' = Name
    BY <2>4, SenderKeepsName
  <2> HIDE DEF c
  <2>6. toR' = <<c>>
    BY <2>3, <2>4, <1>0, <1>3, OneByte, Puts
  <2>7. CASE pos > Len(Name)
    <3>1. pos - 1 = Len(Name)
      BY <2>7, <2>2, <1>3
    <3>2. field = Name
      BY <3>1, <2>2, <1>3, FirstOnes
    <3> QED
      BY <3>2, <2>1, <2>4, <2>5, <2>6, <2>7, <1>3 DEF InStep, Summing, c
  <2>8. CASE ~(pos > Len(Name))
    <3>1. pos' \in 2 .. Len(Name) + 1 /\ pos' - 1 = pos /\ pos' - 2 = pos - 1
      BY <2>8, <2>2, <2>4, <1>3
    <3>2. toR' = <<Name[pos' - 1]>> /\ field = SubSeq(Name, 1, pos' - 2)
      BY <3>1, <2>6, <2>8, <1>3 DEF c
    <3>3. toR' = <<Name'[pos' - 1]>> /\ field' = SubSeq(Name', 1, pos' - 2) /\ pos' \in 2 .. Len(Name') + 1
      BY <3>1, <3>2, <2>5
    <3> QED
      BY <3>3, <2>1, <2>4, <2>8, <1>3 DEF InStep, Spelling
  <2> QED
    BY <2>7, <2>8
<1> QED
  BY <1>1, <1>2, <1>3

LEMMA FS_MS2InStep ==
  ASSUME TypeInv, InStep, rPc \notin Stopped, rPc' = rPc, field' = field, SGet, FS_MS2(Head(toS))
  PROVE  InStep'
<1>0. LineTypes /\ SenderTypes /\ sPc = "FS_MS2" /\ toS # <<>> /\ toS' = Tail(toS)
  BY DEF TypeInv, FS_MS2, SGet
<1>1. \/ rPc = "MF_01" /\ toR = <<>> /\ toS = <<NAK>>
      \/ rPc = "MF_06" /\ toR = <<>> /\ field = Name /\ \E b \in Byte : toS = <<b>>
  BY <1>0 DEF InStep, Summing, Nothing, Asked
<1>2. toS' = <<>> /\ toR = <<>> /\ rPc \in {"MF_01", "MF_06"}
  BY <1>0, <1>1, OneByte, Codes
<1>3. CASE Sends(<<ACK>>) /\ sPc' = "xmodem" /\ UNCHANGED <<tries, next, pos, sSum>>
  <2>1. toR' = <<ACK>> /\ Name' = Name
    BY <1>0, <1>2, <1>3, OneByte, Codes, Puts, SenderKeepsName
  <2> QED
    BY <2>1, <1>1, <1>2, <1>3 DEF InStep, Sending
<1>4. CASE Sends(<<>>) /\ Retry("MF1_00A")
  <2>1. toR' = <<>> /\ sPc' \in {"MF1_00A", "fatal"}
    BY <1>0, <1>2, <1>4, Puts DEF Retry
  <2> QED
    BY <2>1, <1>2, EmptyLine DEF InStep, Asking, Asked, Nothing, GivenUp, Left
<1> QED
  BY <1>3, <1>4 DEF FS_MS2

LEMMA S_timeoutInStep ==
  ASSUME TypeInv, InStep, rPc \notin Stopped, rPc' = rPc, field' = field, S_timeout, late' = 0
  PROVE  InStep'
<1>0. LineTypes /\ late \in 0 .. MaxLate
  BY DEF TypeInv, LineTypes
<1>1. toS = <<>> /\ toS' = <<>> /\ Waits({"MF_01", "xmodem"})
  <2>1. toS = <<>> /\ toS' = toS /\ OrLate(Waits({"MF_01", "xmodem"}))
    BY DEF S_timeout, SQuiet
  <2> QED
    BY <2>1, <1>0, Counts DEF OrLate
<1>2. toR = <<>> /\ rPc \in {"MF_01", "xmodem"}
  BY <1>1 DEF Waits, Stopped
<1>3. sPc \in {"FS_02", "MF1_00A", "FS_MS1", "FS_MS2"}
  BY DEF S_timeout
<1>4. rPc = "MF_01"
  BY <1>2, <1>3 DEF InStep, Asking, Spelling, Summing
<1>5. CASE sPc # "FS_MS1"
  <2>1. Sends(<<>>) /\ sPc' \in {"FS_02", "MF1_00A", "fatal"}
    BY <1>5 DEF S_timeout, Retry
  <2>2. toR' = <<>>
    BY <2>1, <1>0, <1>2, Puts
  <2> QED
    BY <2>1, <2>2, <1>1, <1>4, EmptyLine DEF InStep, Asking, Asked, GivenUp, Left
<1>6. CASE sPc = "FS_MS1"
  <2>1. Sends(<<U>>) /\ sPc' \in {"MF1_00A", "fatal"} /\ <<U>> \in Seq(Byte)
    BY <1>6, OneByte, Codes DEF S_timeout, Retry
  <2>2. toR' = <<U>> /\ Inert(<<U>>)
    BY <2>1, <1>0, <1>2, OneByte, Codes, Puts DEF Inert
  <2> QED
    BY <2>1, <2>2, <1>1, <1>4 DEF InStep, Asking, GivenUp, Left
<1> QED
  BY <1>5, <1>6

LEMMA XMF_SInStep ==
  ASSUME TypeInv, InStep, PlainBlock, rPc \notin Stopped, rPc' = rPc, field' = field, XMF_S_alone
  PROVE  InStep'
<1>0. LineTypes /\ sPc = "xmodem" /\ rPc # "xmodem" /\ toR \in Seq(Byte)
  BY DEF TypeInv, LineTypes, XMF_S_alone
<1>1. \/ rPc \in {"MF_01", "MF_06"} /\ toS = <<>> /\ toR = <<ACK>>
      \/ Left
  BY <1>0 DEF InStep, Sending
<1>2. CASE /\ SGet /\ UNCHANGED sender
           /\ Sends(IF Head(toS) \in {NAK, CRC} THEN Block ELSE <<>>)
  <2>1. Left
    BY <1>1, <1>2 DEF SGet
  <2>2. PICK s \in {Block, <<>>} : Sends(s)
    BY <1>2
  <2>3. s \in Seq(Byte) /\ Inert(s)
    BY Counts, EmptyLine DEF PlainBlock
  <2>4. toR' = toR \o s
    BY <2>2, <2>3, <1>0, Puts
  <2>5. Inert(toR')
    BY <2>1, <2>3, <2>4, <1>0, InertParts DEF Left
  <2>6. Left' /\ sPc' = "xmodem"
    BY <2>1, <2>5, <1>0, <1>2 DEF Left, sender
  <2> QED
    BY <2>6 DEF InStep, Sending
<1>3. CASE toS = <<>> /\ Waits({"MF_01"}) /\ sPc' = "fatal" /\ Sends(<<>>)
  <2>1. toR = <<>> /\ rPc = "MF_01"
    BY <1>3 DEF Waits, Stopped
  <2>2. toR' = <<>> /\ Inert(<<>>)
    BY <2>1, <1>0, <1>3, Puts, EmptyLine
  <2> QED
    BY <2>1, <2>2, <1>3 DEF InStep, GivenUp, Left
<1> QED
  BY <1>2, <1>3 DEF XMF_S_alone

LEMMA SenderInStep ==
  ASSUME TypeInv, InStep, PlainBlock, SenderActs, late' = 0
  PROVE  InStep'
<1>1. rPc' = rPc /\ field' = field
  BY DEF SenderActs, receiver
<1>2. CASE rPc \in Stopped
  BY <1>1, <1>2 DEF InStep
<1>3. CASE rPc \notin Stopped
  <2>1. CASE SGet /\ LET b == Head(toS) IN FS_02(b) \/ MF1_00A(b) \/ FS_MS1(b) \/ FS_MS2(b)
    BY <2>1, <1>1, <1>3, FS_02InStep, MF1_00AInStep, FS_MS1InStep, FS_MS2InStep
  <2>2. CASE S_timeout
    BY <2>2, <1>1, <1>3, S_timeoutInStep
  <2>3. CASE XMF_S_alone
    BY <2>3, <1>1, <1>3, XMF_SInStep
  <2> QED
    BY <2>1, <2>2, <2>3 DEF SenderActs, SenderStep
<1> QED
  BY <1>2, <1>3

-----------------------------------------------------------------------------
(* The ends stay in step when the receiver acts.                           *)

LEMMA ReceiverKeepsName ==
  ASSUME UNCHANGED sender
  PROVE  Name' = Name /\ (More' <=> More) /\ pos' = pos /\ sPc' = sPc
  BY DEF Name, More, sender

\* The receiver asks for the name again, with nothing else on the line.
LEMMA MF_00InStep ==
  ASSUME LineTypes, toS = <<>>, toR' = <<>>, sPc \notin Stopped, sPc \in SPcs,
         UNCHANGED sender, MF_00
  PROVE  InStep'
<1>1. sPc' = sPc
  BY ReceiverKeepsName
<1>2. CASE rPc' = "fatal"
  BY <1>2 DEF InStep, Stopped
<1>3. CASE rPc' = "MF_01" /\ Answers(<<NAK>>)
  <2>1. toS' = <<NAK>>
    BY <1>3, Puts, OneByte, Codes
  <2> QED
    BY <2>1, <1>1, <1>3, EmptyLine
       DEF InStep, Asking, Asked, Spelling, Summing, Sending, Left, SPcs, Stopped
<1> QED
  BY <1>2, <1>3 DEF MF_00

\* It does so while the sender runs xmodem or has stopped.
LEMMA MF_00Left ==
  ASSUME Inert(toR'), sPc \in {"xmodem", "fatal"}, UNCHANGED sender, MF_00
  PROVE  InStep'
<1>1. sPc' = sPc /\ rPc' \in {"MF_01", "fatal"}
  BY ReceiverKeepsName DEF MF_00
<1> QED
  BY <1>1 DEF InStep, Sending, GivenUp, Left, Stopped

LEMMA FlushInStep ==
  ASSUME TypeInv, InStep, UNCHANGED sender, Flush
  PROVE  InStep'
<1>0. LineTypes /\ SenderTypes /\ rPc \in {"flush", "flush again"} /\ sPc' = sPc
  BY ReceiverKeepsName DEF TypeInv, Flush
<1>1. sPc = "FS_02" /\ toR = <<>> /\ toS = <<>>
  BY <1>0 DEF InStep, Asking, Spelling, Summing, Sending, GivenUp, Left, Nothing, Stopped
<1>2. toR' = <<>>
  BY <1>1 DEF Flush, RQuiet, RGet
<1>3. CASE rPc' = "flush again" /\ Answers(<<>>)
  <2>1. toS' = <<>>
    BY <1>3, <1>0, <1>1, Puts
  <2> QED
    BY <2>1, <1>0, <1>1, <1>2, <1>3 DEF InStep, Asking, Nothing
<1>4. CASE MF_00
  BY <1>0, <1>1, <1>2, <1>4, MF_00InStep DEF SenderTypes, Stopped
<1> QED
  BY <1>3, <1>4 DEF Flush

\* What comes while the receiver waits at MF_01.
LEMMA MF_01Reads ==
  ASSUME TypeInv, InStep, PlainNames, rPc = "MF_01", toR # <<>>
  PROVE  \/ sPc \in {"FS_02", "fatal"} /\ ~More /\ toR = <<EOT>>
         \/ sPc = "MF1_00A" /\ toR = <<U>> /\ toS = <<>>
         \/ sPc = "FS_MS1" /\ toS = <<>> /\ pos = 2 /\ toR = <<ACK, Name[1]>> /\ More
         \/ sPc = "FS_MS1" /\ toS = <<>> /\ toR = <<ACK>> /\ More
         \/ sPc = "FS_MS1" /\ toS = <<>> /\ toR = <<Name[1]>> /\ More
         \/ sPc = "xmodem" /\ toS = <<>> /\ toR = <<ACK>>
         \/ sPc \in {"xmodem", "fatal"} /\ Inert(toR)
<1>1. SenderTypes
  BY DEF TypeInv
<1> QED
  BY <1>1 DEF InStep, Asking, Spelling, Summing, Sending, GivenUp, Left, Nothing, Asked, Stopped,
              SenderTypes

LEMMA MF_01InStep ==
  ASSUME TypeInv, InStep, PlainNames, UNCHANGED sender, RGet, MF_01(Head(toR))
  PROVE  InStep'
<1>0. /\ LineTypes /\ SenderTypes /\ rPc = "MF_01" /\ toR # <<>> /\ toR' = Tail(toR)
      /\ toR \in Seq(Byte)
  BY DEF TypeInv, LineTypes, MF_01, RGet
<1>1. Name' = Name /\ (More' <=> More) /\ pos' = pos /\ sPc' = sPc
  BY ReceiverKeepsName
<1>2. Head(toR) = EOT => InStep'
  BY Codes DEF MF_01, InStep, Stopped
<1>3. CASE ~More /\ toR = <<EOT>>
  BY <1>2, <1>3, OneByte, Codes
<1>4. CASE sPc = "MF1_00A" /\ toR = <<U>> /\ toS = <<>>
  <2>1. Head(toR) = U /\ toR' = <<>>
    BY <1>0, <1>4, OneByte, Codes
  <2>2. MF_00
    BY <2>1, Codes DEF MF_01
  <2> QED
    BY <2>1, <2>2, <1>0, <1>4, MF_00InStep DEF SenderTypes, Stopped
<1>5. CASE sPc = "FS_MS1" /\ toS = <<>> /\ pos = 2 /\ toR = <<ACK, Name[1]>> /\ More
  <2>1. Name[1] \in Byte /\ Name \in Seq(Byte) /\ Len(Name) \in Nat \ {0}
    BY <1>0, <1>5, NameIs DEF SenderTypes
  <2>2. Head(toR) = ACK /\ toR' = <<Name[1]>>
    BY <2>1, <1>0, <1>5, TwoBytes, Codes
  <2>3. rPc' = "MF_04" /\ field' = <<>> /\ toS' = <<>>
    BY <2>2, <1>0, <1>5, Codes, Puts DEF MF_01
  <2>4. field' = SubSeq(Name, 1, 2 - 2) /\ 2 \in 2 .. Len(Name) + 1
    BY <2>1, <2>3, SubSeqEmpty
  <2>5. toR' = <<Name'[pos' - 1]>> /\ field' = SubSeq(Name', 1, pos' - 2) /\ pos' \in 2 .. Len(Name') + 1
    BY <2>2, <2>4, <1>1, <1>5
  <2> QED
    BY <2>3, <2>5, <1>1, <1>5 DEF InStep, Spelling
<1>6. CASE sPc = "FS_MS1" /\ toS = <<>> /\ toR = <<ACK>>
  <2>1. Head(toR) = ACK /\ toR' = <<>>
    BY <1>0, <1>6, OneByte, Codes
  <2>2. rPc' = "MF_04" /\ toS' = <<>>
    BY <2>1, <1>0, <1>6, Codes, Puts DEF MF_01
  <2> QED
    BY <2>1, <2>2, <1>1, <1>6 DEF InStep, Spelling, Nothing
<1>7. CASE sPc = "FS_MS1" /\ toS = <<>> /\ toR = <<Name[1]>> /\ More
  <2>1. Name[1] \in Byte /\ Name[1] \notin {ACK, SUB, EOT}
    BY <1>0, <1>7, NameIs DEF SenderTypes
  <2>2. Head(toR) = Name[1] /\ toR' = <<>>
    BY <2>1, <1>0, <1>7, OneByte
  <2>3. MF_00
    BY <2>1, <2>2 DEF MF_01
  <2> QED
    BY <2>2, <2>3, <1>0, <1>7, MF_00InStep DEF SenderTypes, Stopped
<1>8. CASE sPc = "xmodem" /\ toS = <<>> /\ toR = <<ACK>>
  <2>1. Head(toR) = ACK /\ toR' = <<>>
    BY <1>0, <1>8, OneByte, Codes
  <2>2. rPc' = "MF_04"
    BY <2>1, Codes DEF MF_01
  <2> QED
    BY <2>1, <2>2, <1>1, <1>8, EmptyLine DEF InStep, Sending, Left
<1>9. CASE sPc \in {"xmodem", "fatal"} /\ Inert(toR)
  <2>1. Head(toR) \notin {ACK, SUB, EOT} /\ Inert(toR')
    BY <1>9, <1>0, InertParts
  <2>2. MF_00
    BY <2>1 DEF MF_01
  <2> QED
    BY <2>1, <2>2, <1>9, MF_00Left
<1> QED
  BY <1>0, <1>3, <1>4, <1>5, <1>6, <1>7, <1>8, <1>9, MF_01Reads

LEMMA MF_04InStep ==
  ASSUME TypeInv, InStep, PlainNames, UNCHANGED sender, RGet, MF_04(Head(toR))
  PROVE  InStep'
<1>0. /\ LineTypes /\ SenderTypes /\ rPc = "MF_04" /\ toR # <<>> /\ toR' = Tail(toR)
      /\ toR \in Seq(Byte)
  BY DEF TypeInv, LineTypes, MF_04, RGet
<1>1. Name' = Name /\ (More' <=> More) /\ pos' = pos /\ sPc' = sPc
  BY ReceiverKeepsName
<1>2. \/ /\ sPc = "FS_MS1" /\ pos \in 2 .. Len(Name) + 1 /\ More
         /\ toS = <<>> /\ toR = <<Name[pos - 1]>> /\ field = SubSeq(Name, 1, pos - 2)
      \/ sPc = "FS_MS2" /\ toS = <<>> /\ toR = <<SUB>> /\ field = Name
      \/ sPc \in {"xmodem", "fatal"} /\ Inert(toR)
  BY <1>0 DEF InStep, Asking, Spelling, Summing, Sending, GivenUp, Left, Nothing, Asked, Stopped,
              SenderTypes
<1>3. CASE /\ sPc = "FS_MS1" /\ pos \in 2 .. Len(Name) + 1 /\ More
           /\ toS = <<>> /\ toR = <<Name[pos - 1]>> /\ field = SubSeq(Name, 1, pos - 2)
  <2>1. /\ Name \in Seq(Byte) /\ Len(Name) \in Nat \ {0} /\ pos - 1 \in 1 .. Len(Name)
        /\ Name[pos - 1] \in Byte /\ Name[pos - 1] \notin {EOT, SUB, U}
    <3>1. /\ Name \in Seq(Byte) /\ Len(Name) \in Nat \ {0}
          /\ \A i \in 1 .. Len(Name) : Name[i] \in Byte /\ Name[i] \notin {ACK, EOT, SUB, U}
      BY <1>0, <1>3, NameIs DEF SenderTypes
    <3>2. pos - 1 \in 1 .. Len(Name)
      BY <3>1, <1>3
    <3> QED
      BY <3>1, <3>2
  <2>2. Head(toR) = Name[pos - 1] /\ toR' = <<>>
    BY <2>1, <1>0, <1>3, OneByte
  <2>3. field' = Append(field, Name[pos - 1]) /\ Answers(<<ACK>>) /\ rPc' = rPc
    BY <2>1, <2>2 DEF MF_04
  <2>4. field' = SubSeq(Name, 1, pos - 1)
    <3>1. \A n \in 1 .. Len(Name) : Append(SubSeq(Name, 1, n - 1), Name[n]) = SubSeq(Name, 1, n)
      BY <2>1, FirstOnes
    <3>2. (pos - 1) - 1 = pos - 2
      BY <1>3
    <3> QED
      BY <3>1, <3>2, <2>1, <2>3, <1>3
  <2>5. toS' = <<ACK>>
    BY <2>3, <1>0, <1>3, OneByte, Codes, Puts DEF Stopped
  <2>6. field' = SubSeq(Name', 1, pos' - 1) /\ pos' \in 2 .. Len(Name') + 1
    BY <2>4, <1>1, <1>3
  <2> QED
    BY <2>2, <2>3, <2>5, <2>6, <1>0, <1>1, <1>3 DEF InStep, Spelling
<1>4. CASE sPc = "FS_MS2" /\ toS = <<>> /\ toR = <<SUB>> /\ field = Name
  <2>1. Head(toR) = SUB /\ toR' = <<>>
    BY <1>0, <1>4, OneByte, Codes
  <2>2. rPc' = "MF_06" /\ field' = field /\ Answers(<<Add(rSum, SUB)>>)
    BY <2>1, Codes DEF MF_04
  <2>3. Add(rSum, SUB) \in Byte
    BY AddIsByte, Codes DEF TypeInv, ReceiverTypes
  <2>4. toS' = <<Add(rSum, SUB)>>
    BY <2>2, <2>3, <1>0, <1>4, OneByte, Puts DEF Stopped
  <2>5. \E b \in Byte : toS' = <<b>>
    BY <2>3, <2>4
  <2> QED
    BY <2>1, <2>2, <2>5, <1>1, <1>4 DEF InStep, Summing
<1>5. CASE sPc \in {"xmodem", "fatal"} /\ Inert(toR)
  <2>1. Head(toR) \notin {ACK, SUB, EOT} /\ Inert(toR')
    BY <1>5, <1>0, InertParts
  <2>2. CASE MF_00
    BY <2>1, <2>2, <1>5, MF_00Left
  <2>3. CASE rPc' = rPc
    BY <2>1, <2>3, <1>0, <1>1, <1>5 DEF InStep, Sending, GivenUp, Left
  <2> QED
    BY <2>1, <2>2, <2>3 DEF MF_04
<1> QED
  BY <1>2, <1>3, <1>4, <1>5

LEMMA MF_06InStep ==
  ASSUME TypeInv, InStep, UNCHANGED sender, RGet, MF_06(Head(toR))
  PROVE  InStep'
<1>0. /\ rPc = "MF_06" /\ toR # <<>> /\ toR' = Tail(toR) /\ toR \in Seq(Byte)
  BY DEF TypeInv, LineTypes, MF_06, RGet
<1>1. Name' = Name /\ (More' <=> More) /\ pos' = pos /\ sPc' = sPc
  BY ReceiverKeepsName
<1>2. \/ sPc = "xmodem" /\ toR = <<ACK>> /\ field = Name
      \/ sPc \in {"xmodem", "fatal"} /\ Inert(toR)
  BY <1>0 DEF InStep, Asking, Spelling, Summing, Sending, GivenUp, Left, Nothing, Asked, Stopped
<1>3. CASE sPc = "xmodem" /\ toR = <<ACK>> /\ field = Name
  <2>1. rPc' = "xmodem" /\ field' = field
    BY <1>3, OneByte, Codes DEF MF_06
  <2> QED
    BY <2>1, <1>1, <1>3 DEF InStep, Sending
<1>4. CASE sPc \in {"xmodem", "fatal"} /\ Inert(toR)
  <2>1. Head(toR) \notin {ACK, SUB, EOT} /\ Inert(toR')
    BY <1>4, <1>0, InertParts
  <2>2. MF_00
    BY <2>1 DEF MF_06
  <2> QED
    BY <2>1, <2>2, <1>4, MF_00Left
<1> QED
  BY <1>2, <1>3, <1>4

LEMMA R_timeoutInStep ==
  ASSUME TypeInv, InStep, UNCHANGED sender, R_timeout, late' = 0
  PROVE  InStep'
<1>0. /\ LineTypes /\ SenderTypes /\ late \in 0 .. MaxLate
      /\ rPc \in {"MF_01", "MF_04", "MF_06"} /\ MF_00 /\ RQuiet
  BY DEF TypeInv, LineTypes, R_timeout
<1>1. toR = <<>> /\ toR' = <<>> /\ (toS = <<>> \/ sPc \in Stopped)
  BY <1>0, Counts DEF RQuiet, OrLate, Stopped
<1>2. sPc # "done"
  BY <1>0 DEF InStep, Stopped
<1>3. CASE sPc \in {"xmodem", "fatal"}
  BY <1>3, <1>0, <1>1, EmptyLine, MF_00Left
<1>4. CASE sPc \notin {"xmodem", "fatal"}
  BY <1>4, <1>0, <1>1, <1>2, MF_00InStep DEF SenderTypes, Stopped
<1> QED
  BY <1>3, <1>4

LEMMA ReceiverInStep ==
  ASSUME TypeInv, InStep, PlainNames, ReceiverActs, late' = 0
  PROVE  InStep'
<1>0. UNCHANGED sender
  BY DEF ReceiverActs
<1>1. CASE RGet /\ LET b == Head(toR) IN MF_01(b) \/ MF_04(b) \/ MF_06(b)
  BY <1>0, <1>1, MF_01InStep, MF_04InStep, MF_06InStep
<1>2. CASE Flush
  BY <1>0, <1>2, FlushInStep
<1>3. CASE R_timeout
  BY <1>0, <1>3, R_timeoutInStep
<1>4. CASE XMF_R_alone
  BY <1>4 DEF XMF_R_alone, InStep, Asking, Spelling, Summing, GivenUp, Left, Stopped
<1>5. CASE Turnaround
  BY <1>5 DEF Turnaround, InStep, Stopped
<1> QED
  BY <1>1, <1>2, <1>3, <1>4, <1>5 DEF ReceiverActs, ReceiverStep

-----------------------------------------------------------------------------
(* The ends stay in step when the line loses a byte, and after a file.     *)

LEMMA LoseInStep ==
  ASSUME TypeInv, InStep, Lose
  PROVE  InStep'
<1>0. LineTypes /\ SenderTypes /\ UNCHANGED <<sender, receiver>>
  BY DEF TypeInv, Lose
<1>1. /\ Name' = Name /\ (More' <=> More) /\ pos' = pos /\ sPc' = sPc
      /\ rPc' = rPc /\ field' = field
  BY <1>0, ReceiverKeepsName DEF receiver
<1>2. CASE rPc \in Stopped
  BY <1>1, <1>2 DEF InStep
<1>3. ASSUME NEW i \in DOMAIN toR, toR' = RemoveAt(toR, i), toS' = toS, rPc \notin Stopped
      PROVE  InStep'
  <2>1. toR # <<>> /\ toR \in Seq(Byte)
    BY <1>0, EmptyLine DEF LineTypes
  <2>2. ASSUME NEW a \in Byte, toR = <<a>> PROVE toR' = <<>>
    BY <2>2, <1>3, OneByte
  <2>3. CASE sPc \in {"xmodem", "fatal"} /\ Inert(toR)
    <3>1. Inert(toR')
      BY <2>1, <2>3, <1>3, InertParts
    <3> QED
      BY <3>1, <2>3, <1>1 DEF InStep, Sending, GivenUp, Left
  <2>4. CASE rPc = "xmodem" /\ field = Name
    BY <2>4, <1>1, <1>3 DEF InStep, Asking, Spelling, Summing, Sending, GivenUp, Left, Stopped
  <2>5. CASE \/ sPc \in {"FS_02", "fatal"} /\ rPc = "MF_01" /\ toR = <<EOT>> /\ (sPc = "fatal" \/ toS = <<>>)
             \/ sPc = "MF1_00A" /\ rPc = "MF_01" /\ toR = <<U>> /\ toS = <<>>
             \/ sPc = "FS_MS1" /\ rPc = "MF_01" /\ toS = <<>> /\ toR = <<ACK>>
             \/ sPc = "FS_MS2" /\ rPc = "MF_04" /\ toS = <<>> /\ toR = <<SUB>>
             \/ sPc = "xmodem" /\ rPc \in {"MF_01", "MF_06"} /\ toS = <<>> /\ toR = <<ACK>>
    <3>1. toR' = <<>>
      BY <2>2, <2>5, Codes
    <3> QED
      BY <3>1, <2>5, <1>1, <1>3, EmptyLine
         DEF InStep, Asking, Spelling, Summing, Sending, GivenUp, Left, Asked, Nothing
  <2>6. CASE sPc = "FS_MS1" /\ rPc = "MF_01" /\ toS = <<>> /\ pos = 2 /\ toR = <<ACK, Name[1]>>
    <3>1. Name[1] \in Byte
      BY <2>6, <1>0, NameIs DEF SenderTypes
    <3>2. toR' = <<ACK>> \/ toR' = <<Name[1]>>
      <4>1. i \in {1, 2} /\ RemoveAt(toR, 1) = <<Name[1]>> /\ RemoveAt(toR, 2) = <<ACK>>
        <5>1. /\ DOMAIN <<ACK, Name[1]>> = {1, 2}
              /\ RemoveAt(<<ACK, Name[1]>>, 1) = <<Name[1]>>
              /\ RemoveAt(<<ACK, Name[1]>>, 2) = <<ACK>>
          BY <3>1, TwoBytes, Codes
        <5> QED
          BY <5>1, <2>6
      <4> QED
        BY <4>1, <1>3
    <3> QED
      BY <3>2, <2>6, <1>1, <1>3 DEF InStep, Spelling
  <2>7. CASE /\ sPc = "FS_MS1" /\ toS = <<>>
             /\ \/ rPc = "MF_01" /\ toR = <<Name[1]>>
                \/ rPc = "MF_04" /\ pos \in 2 .. Len(Name) + 1 /\ toR = <<Name[pos - 1]>>
    <3>1. Name[1] \in Byte /\ (pos \in 2 .. Len(Name) + 1 => Name[pos - 1] \in Byte)
      <4>1. Len(Name) \in Nat \ {0} /\ \A k \in 1 .. Len(Name) : Name[k] \in Byte
        BY <2>7, <1>0, NameIs DEF SenderTypes
      <4> QED
        BY <4>1
    <3>2. toR' = <<>>
      BY <3>1, <2>2, <2>7
    <3> QED
      BY <3>2, <2>7, <1>1, <1>3 DEF InStep, Spelling, Asked, Nothing
  <2> QED
    BY <2>1, <2>3, <2>4, <2>5, <2>6, <2>7, <1>3
       DEF InStep, Asking, Spelling, Summing, Sending, GivenUp, Left, Asked, Nothing
<1>4. ASSUME NEW i \in DOMAIN toS, toS' = RemoveAt(toS, i), toR' = toR, rPc \notin Stopped
      PROVE  InStep'
  <2>1. toS # <<>>
    BY EmptyLine
  <2>2. ASSUME NEW a \in Byte, toS = <<a>> PROVE toS' = <<>>
    BY <2>2, <1>4, OneByte
  <2>3. CASE sPc \in {"xmodem", "fatal"}
    BY <2>1, <2>3, <1>1, <1>4 DEF InStep, Sending, GivenUp, Left
  <2>4. CASE sPc \notin {"xmodem", "fatal"}
    <3>1. \/ rPc = "MF_01" /\ toR = <<>> /\ toS = <<NAK>>
          \/ sPc = "FS_MS1" /\ rPc = "MF_04" /\ toR = <<>> /\ toS = <<ACK>>
          \/ sPc = "FS_MS2" /\ rPc = "MF_06" /\ toR = <<>> /\ field = Name /\ \E b \in Byte : toS = <<b>>
      BY <2>1, <2>4, <1>4 DEF InStep, Asking, Spelling, Summing, Asked, Nothing
    <3>2. toS' = <<>>
      BY <3>1, <2>2, Codes
    <3> QED
      BY <3>1, <3>2, <2>4, <1>1, <1>4 DEF InStep, Asking, Spelling, Summing, Asked, Nothing
  <2> QED
    BY <2>3, <2>4
<1> QED
  BY <1>2, <1>3, <1>4 DEF Lose

LEMMA TransferInStep ==
  ASSUME NEW sok \in BOOLEAN, NEW rok \in BOOLEAN, Transfer(sok, rok)
  PROVE  InStep'
<1>1. CASE rok
  <2>1. rPc' = "MF_01" /\ toR' = <<>> /\ toS' = <<NAK>> /\ sPc' \in {"FS_02", "fatal"}
    BY <1>1 DEF Transfer
  <2> QED
    BY <2>1, EmptyLine DEF InStep, Asking, Asked, GivenUp, Left
<1>2. CASE ~rok
  BY <1>2 DEF Transfer, InStep, Stopped
<1> QED
  BY <1>1, <1>2

-----------------------------------------------------------------------------
(* What has been received.                                                 *)

LEMMA HeardStays ==
  ASSUME GotSoFar, next' = next, heard' = heard,
         rPc' \in {rPc, "fatal"} \/ rPc \notin Stopped,
         rPc' = "done" /\ rPc # "done" => ~More
  PROVE  GotSoFar'
<1>1. CASE rPc' = "done" /\ rPc # "done"
  <2>1. next = Len(Files) + 1 /\ heard = SubSeq(Files, 1, next - 1)
    BY <1>1, Counts DEF GotSoFar, More, Stopped
  <2>2. heard = Files
    BY <2>1, Counts, FirstOnes
  <2> QED
    BY <2>1, <2>2 DEF GotSoFar
<1>2. CASE ~(rPc' = "done" /\ rPc # "done")
  BY <1>2 DEF GotSoFar, Stopped
<1> QED
  BY <1>1, <1>2

\* The receiver ends without an error only on the sender's EOT.
LEMMA EndIsEnd ==
  ASSUME TypeInv, InStep, PlainNames, ReceiverActs, rPc' = "done", rPc # "done"
  PROVE  ~More
<1>0. SenderTypes /\ LineTypes /\ toR \in Seq(Byte)
  BY DEF TypeInv, LineTypes
<1>1. CASE RGet /\ MF_01(Head(toR))
  <2>1. Head(toR) \in {SUB, EOT} /\ toR # <<>> /\ rPc = "MF_01"
    BY <1>1 DEF MF_01, MF_00, RGet
  <2>2. ASSUME More, toR = <<Name[1]>> \/ toR = <<ACK, Name[1]>> PROVE FALSE
    <3>1. Name[1] \in Byte /\ Name[1] \notin {SUB, EOT}
      BY <2>2, <1>0, NameIs DEF SenderTypes
    <3> QED
      BY <3>1, <2>1, <2>2, OneByte, TwoBytes, Codes
  <2>3. toR # <<U>> /\ toR # <<ACK>> /\ ~Inert(toR)
    BY <2>1, <1>0, OneByte, InertParts, Codes
  <2> QED
    BY <2>1, <2>2, <2>3, MF_01Reads
<1>2. CASE RGet /\ MF_04(Head(toR))
  <2>1. Head(toR) = EOT /\ toR # <<>> /\ rPc = "MF_04"
    BY <1>2 DEF MF_04, MF_00, RGet
  <2>2. ASSUME More, pos \in 2 .. Len(Name) + 1, toR = <<Name[pos - 1]>> PROVE FALSE
    <3>1. /\ Len(Name) \in Nat \ {0}
          /\ \A i \in 1 .. Len(Name) : Name[i] \in Byte /\ Name[i] # EOT
      BY <2>2, <1>0, NameIs DEF SenderTypes
    <3>2. Name[pos - 1] \in Byte /\ Name[pos - 1] # EOT
      BY <3>1, <2>2
    <3> QED
      BY <3>2, <2>1, <2>2, OneByte
  <2>3. toR # <<SUB>> /\ ~Inert(toR)
    BY <2>1, <1>0, OneByte, InertParts, Codes
  <2> QED
    BY <2>1, <2>2, <2>3, <1>0 DEF InStep, Asking, Spelling, Summing, Sending, GivenUp, Left,
                                  Nothing, Asked, Stopped, SenderTypes
<1>3. CASE ~(RGet /\ MF_01(Head(toR))) /\ ~(RGet /\ MF_04(Head(toR)))
  BY <1>3 DEF ReceiverActs, ReceiverStep, MF_06, Flush, R_timeout, XMF_R_alone, Turnaround, MF_00,
              receiver
<1> QED
  BY <1>1, <1>2, <1>3

LEMMA ReceiverActsHeard ==
  ASSUME ReceiverActs
  PROVE  next' = next /\ heard' = heard /\ (rPc' = rPc \/ rPc \notin Stopped)
<1>1. next' = next
  BY DEF ReceiverActs, sender
<1>2. CASE RGet /\ LET b == Head(toR) IN MF_01(b) \/ MF_04(b) \/ MF_06(b)
  BY <1>1, <1>2 DEF MF_01, MF_04, MF_06, MF_00, Stopped
<1>3. CASE Flush \/ R_timeout
  BY <1>1, <1>3 DEF Flush, R_timeout, MF_00, Stopped
<1>4. CASE XMF_R_alone \/ Turnaround
  BY <1>1, <1>4 DEF XMF_R_alone, Turnaround, receiver, Stopped
<1> QED
  BY <1>2, <1>3, <1>4 DEF ReceiverActs, ReceiverStep

\* A file more is received under its own name.
LEMMA TransferHeard ==
  ASSUME TypeInv, InStep, GotSoFar, NEW sok \in BOOLEAN, NEW rok \in BOOLEAN, Transfer(sok, rok)
  PROVE  GotSoFar'
<1>0. SenderTypes /\ sPc = "xmodem" /\ rPc = "xmodem" /\ next' = next + 1
  BY DEF TypeInv, Transfer
<1>1. More /\ field = Name
  BY <1>0 DEF SenderTypes, InStep, Asking, Spelling, Summing, Sending, GivenUp, Left, Stopped
<1>2. next \in 1 .. Len(Files) /\ next' \in 1 .. Len(Files) + 1 /\ next' - 1 = next
  BY <1>0, <1>1, NameIs, Counts DEF SenderTypes
<1>3. heard = SubSeq(Files, 1, next - 1)
  BY <1>0 DEF GotSoFar
<1>4. CASE rok
  <2>1. rPc' = "MF_01" /\ heard' = Append(heard, field)
    BY <1>4 DEF Transfer
  <2>2. heard' = SubSeq(Files, 1, next)
    BY <2>1, <1>1, <1>2, <1>3, Counts, FirstOnes DEF Name
  <2>3. next \in 0 .. Len(Files)
    BY <1>2, Counts
  <2> QED
    BY <2>1, <2>2, <2>3, <1>2 DEF GotSoFar
<1>5. CASE ~rok
  <2>1. rPc' = "fatal" /\ heard' = heard
    BY <1>5 DEF Transfer
  <2> QED
    BY <2>1, <1>2 DEF GotSoFar
<1> QED
  BY <1>4, <1>5

-----------------------------------------------------------------------------
(* The theorem.                                                            *)

LEMMA InitAgrees ==
  ASSUME Init
  PROVE  AgreeInv
<1>1. InStep
  BY DEF Init, InStep, Asking, Nothing
<1>2. heard = SubSeq(Files, 1, 0) /\ next = 1 /\ rPc = "flush"
  BY Counts, FirstOnes DEF Init
<1>3. 0 \in 0 .. Len(Files) /\ 1 \in 1 .. Len(Files) + 1 /\ 1 - 1 = 0
  BY Counts
<1>4. GotSoFar
  BY <1>2, <1>3 DEF GotSoFar
<1> QED
  BY <1>1, <1>4 DEF AgreeInv

LEMMA StepKeepsAgree ==
  ASSUME TypeInv, AgreeInv, PlainNames, PlainBlock, [Next]_vars
  PROVE  AgreeInv'
<1> SUFFICES ASSUME damaged' = 0, late' = 0
             PROVE  InStep' /\ GotSoFar'
  BY DEF AgreeInv
<1>0. LineTypes /\ late \in 0 .. MaxLate /\ damaged \in 0 .. MaxDamaged
  BY DEF TypeInv, LineTypes
<1>1. late = 0 /\ damaged = 0
  <2>1. late' = late \/ \E b \in BOOLEAN : OrLate(b)
    BY DEF Next, SenderActs, SenderStep, S_timeout, SQuiet, SGet, XMF_S_alone, ReceiverActs,
           ReceiverStep, RGet, Flush, R_timeout, RQuiet, XMF_R_alone, Turnaround, BothActs,
           Lose, Damage, vars, line, Waits
  <2>2. late = 0
    BY <2>1, <1>0, OrLateTypes
  <2>3. damaged' = damaged \/ damaged' = damaged + 1
    BY DEF Next, SenderActs, ReceiverActs, BothActs, Lose, Damage, vars, line
  <2> QED
    BY <2>2, <2>3, <1>0, Counts
<1>2. InStep /\ GotSoFar
  BY <1>1 DEF AgreeInv
<1>3. CASE SenderActs
  <2>1. next' = next /\ heard' = heard /\ rPc' = rPc
    BY <1>3 DEF SenderActs, SenderStep, FS_02, FF_06, MF1_00A, FS_MS1, FS_MS2, S_timeout, XMF_S_alone,
                Retry, sender, receiver
  <2> QED
    BY <2>1, <1>2, <1>3, SenderInStep, HeardStays
<1>4. CASE ReceiverActs
  BY <1>2, <1>4, ReceiverInStep, ReceiverActsHeard, EndIsEnd, HeardStays
<1>5. CASE BothActs
  BY <1>2, <1>5, TransferInStep, TransferHeard DEF BothActs
<1>6. CASE Lose
  <2>1. next' = next /\ heard' = heard /\ rPc' = rPc
    BY <1>6 DEF Lose, sender, receiver
  <2> QED
    BY <2>1, <1>2, <1>6, LoseInStep, HeardStays
<1>7. CASE Damage
  BY <1>7, <1>1 DEF Damage
<1>8. CASE UNCHANGED vars
  BY <1>2, <1>8 DEF vars, sender, receiver, line, InStep, Asking, Spelling, Summing, Sending, GivenUp,
                    Left, Nothing, Asked, Name, More, GotSoFar, Inert
<1> QED
  BY <1>3, <1>4, <1>5, <1>6, <1>7, <1>8 DEF Next

LEMMA AgreeIsNamesAgreed ==
  ASSUME TypeInv, AgreeInv
  PROVE  damaged = 0 => NamesAgreed
<1> SUFFICES ASSUME damaged = 0 PROVE NamesAgreed
  OBVIOUS
<1>1. ASSUME late = 0 PROVE InStep /\ GotSoFar
  BY <1>1 DEF AgreeInv
<1>2. HeardIsSent
  <2>1. SenderTypes
    BY DEF TypeInv
  <2> QED
    BY <1>1, <2>1 DEF HeardIsSent, SenderTypes, InStep, Asking, Spelling, Summing, Sending, GivenUp,
                      Left, Stopped
<1>3. NoFileSkipped
  BY <1>1, Counts, FirstOnes DEF GotSoFar, NoFileSkipped
<1>4. EndMeansAll
  BY <1>1 DEF GotSoFar, EndMeansAll
<1> QED
  BY <1>2, <1>3, <1>4, TypesHold DEF NamesAgreed

\* Types, whatever the line does.
THEOREM TypesAreRight == Spec => []TypeOK
<1>1. Init => TypeInv
  BY InitTypes
<1>2. TypeInv /\ [Next]_vars => TypeInv'
  BY StepKeepsTypes
<1> QED
  BY <1>1, <1>2, TypesHold, PTL DEF Spec

\* For any names without a byte that is an answer, any number of tries and of lost bytes, and
\* xmodem failing at either end: until a byte is damaged or an answer comes late, each file is
\* received under its sender's name, none is left out, and the receiver ends with all of them.
THEOREM NamesStayAgreed ==
  ASSUME PlainNames, PlainBlock
  PROVE  Spec => [](damaged = 0 => NamesAgreed)
<1>1. Init => TypeInv /\ AgreeInv
  BY InitTypes, InitAgrees
<1>2. TypeInv /\ AgreeInv /\ [Next]_vars => TypeInv' /\ AgreeInv'
  BY StepKeepsTypes, StepKeepsAgree
<1>3. TypeInv /\ AgreeInv => (damaged = 0 => NamesAgreed)
  BY AgreeIsNamesAgreed
<1> QED
  BY <1>1, <1>2, <1>3, PTL DEF Spec
=============================================================================
