------------------------------- MODULE Unpack -------------------------------
(***************************************************************************)
(* unpack (unpack.c): the dictionary of a .z file is read, then its bits are *)
(* followed down the tree, a level for each, until they mean the end.  The   *)
(* file may have lost its last bytes.                                        *)
(***************************************************************************)
EXTENDS Pack

VARIABLES
  zin,  \* the .z file that is read
  un,   \* the decoder
  out   \* what it has written

unpackVars == <<zin, un, out>>

UnpackInit ==
  /\ zin = <<>> /\ out = <<>>
  /\ un = [step |-> "none", read |-> 0, inbuff |-> <<>>, inp |-> 1, inleft |-> 0,
           origsize |-> 0, maxlev |-> 0, intnodes |-> <<>>, tree |-> <<>>,
           characters |-> <<>>, c |-> 0, bitsleft |-> 0, i |-> 0, lev |-> 1,
           outbuff |-> <<>>]

\* The file is opened, whole or cut off.
Open ==
  /\ pk.step = "packed" /\ un.step = "none"
  /\ \E n \in {Len(z)} \cup {k \in 8 .. Len(z) - 1 : k > Len(z) - 4} :
       zin' = SubSeq(z, 1, n)
  /\ un' = [un EXCEPT !.step = "dict"]
  /\ UNCHANGED <<packVars, out>>

\* read: a block, or what is left.
Fill(s) ==
  LET n == Min({BLKSIZE, Len(zin) - s.read}) IN
    [s EXCEPT !.inbuff = SubSeq(zin, s.read + 1, s.read + n), !.inp = 1,
              !.inleft = n, !.read = @ + n]

\* How many nodes of a level have children: half of the nodes below.
internal(counts) ==
  LET Above[i \in 1 .. Len(counts) + 1] ==
        IF i > Len(counts) THEN [int |-> 0, all |-> 0]
        ELSE LET half == Above[i + 1].all \div 2 IN [int |-> half, all |-> half + counts[i]]
  IN [i \in DOMAIN counts |-> Above[i].int]

\* getdict: the head of the file is in one block.  Bytes past what was read count
\* as there until all of them are taken.
getdict ==
  /\ un.step = "dict"
  /\ LET s == Fill(un)
         b == s.inbuff \o [i \in 1 .. BLKSIZE |-> 0]
         maxlev == b[7]
         counts == [i \in 1 .. maxlev |-> b[7 + i]]
         sum == FoldLeft(+, 0, counts)
         first == 7 + maxlev
         inp == first + sum + 2
     IN un' =
          IF s.inbuff[1] # US \/ s.inbuff[2] # RS THEN [s EXCEPT !.step = "bad"]
          ELSE IF s.inleft < inp - 1 THEN [s EXCEPT !.step = "bad"]
          ELSE [s EXCEPT
                  !.origsize = FoldLeft(LAMBDA a, x : a * Pow(Byte) + x, 0, SubSeq(b, 3, 6)),
                  !.maxlev = maxlev,
                  !.tree = [i \in 1 .. maxlev |-> 1 + FoldLeft(+, 0, SubSeq(counts, 1, i - 1))],
                  !.characters = SubSeq(b, first + 1, first + sum + 1),
                  !.intnodes = internal([i \in 1 .. maxlev |->
                                           counts[i] + IF i = maxlev THEN 2 ELSE 0]),
                  !.inp = inp, !.inleft = @ - (inp - 1),
                  !.step = "byte"]
  /\ UNCHANGED <<packVars, zin, out>>

\* Mutant: at the end of the file the buffer is read again.
NextByte_Again ==
  /\ un.step = "byte" /\ un.maxlev > 0
  /\ LET s == IF un.inleft <= 0 THEN Fill(un) ELSE un
         b == IF s.inleft = 0 THEN [s EXCEPT !.inbuff = un.inbuff] ELSE s
     IN un' = [b EXCEPT !.c = b.inbuff[b.inp], !.inp = @ + 1,
                        !.inleft = IF @ = 0 THEN 0 ELSE @ - 1,
                        !.bitsleft = Byte, !.step = "bit"]
  /\ UNCHANGED <<packVars, zin, out>>

\* decode: the next byte.
NextByte ==
  /\ un.step = "byte"
  /\ LET s == IF un.inleft <= 0 THEN Fill(un) ELSE un IN
       un' = IF s.inleft = 0 THEN [s EXCEPT !.step = "eof"]
             ELSE [s EXCEPT !.c = s.inbuff[s.inp], !.inp = @ + 1, !.inleft = @ - 1,
                            !.bitsleft = Byte, !.step = "bit"]
  /\ UNCHANGED <<packVars, zin, out>>

NextBitOf(c) == (c \div Pow(Byte - 1)) % 2

\* A bit: one level down, or a character, or the end.  The characters of a level
\* come behind its nodes that have children.
NextBit ==
  /\ un.step = "bit"
  /\ LET i == 2 * un.i + NextBitOf(un.c)
         s == [un EXCEPT !.i = i, !.c = (2 * @) % Pow(Byte), !.bitsleft = @ - 1,
                         !.step = IF un.bitsleft = 1 THEN "byte" ELSE @]
         p == un.tree[un.lev] + i - un.intnodes[un.lev]
     IN IF i < un.intnodes[un.lev] THEN un' = [s EXCEPT !.lev = @ + 1] /\ UNCHANGED out
        ELSE IF p > Len(un.characters)
        THEN /\ out' = out \o un.outbuff
             /\ un' = [s EXCEPT !.step = IF un.origsize = Len(un.outbuff) THEN "unpacked"
                                         ELSE "size"]
        ELSE LET o == Append(un.outbuff, un.characters[p])
                 full == Len(o) = BLKSIZE
             IN /\ out' = IF full THEN out \o o ELSE out
                /\ un' = [s EXCEPT !.outbuff = IF full THEN <<>> ELSE o,
                                   !.origsize = @ - IF full THEN BLKSIZE ELSE 0,
                                   !.i = 0, !.lev = 1]
  /\ UNCHANGED <<packVars, zin>>

unpack == Open \/ getdict \/ NextByte \/ NextBit
PackNext == (pack /\ UNCHANGED unpackVars) \/ unpack

-----------------------------------------------------------------------------
PackTypeOK ==
  /\ pk.outp \in 0 .. BLKSIZE + 3 /\ pk.bitsleft \in 0 .. Byte
  /\ \A i \in DOMAIN pk.buf : pk.buf[i] \in 0 .. Pow(Byte) - 1
  /\ un.inleft \in 0 .. BLKSIZE

\* What was packed is unpacked again, whatever the file, its blocks and where in a
\* byte its patterns end.  An empty file that is packed by force cannot be
\* unpacked (pack.c:85-183, unpack.c:47-200).
RoundTrip ==
  /\ un.step = "unpacked" => out = file
  /\ zin = z /\ file # <<>> => un.step \notin {"bad", "eof", "size"}

\* No other lengths for the characters give a shorter text (pack.c:187-254).
Shortest ==
  pk.step \in {"patterns", "nosaving"} /\ file # <<>> =>
    LET used == {c \in Chars : pk.count[c] > 0}
        Bits(length) == MapThenSumSet(LAMBDA c : length[c] * pk.count[c], used)
    IN \A length \in [used -> 1 .. Cardinality(used)] :
         MapThenSumSet(LAMBDA c : Pow(Cardinality(used) - length[c]), used)
           <= Pow(Cardinality(used))
         => Bits(pk.length) <= Bits(length)

\* A file that has lost its end is never taken for a whole one (unpack.c:145-200).
CutIsNoticed == un.step = "unpacked" => zin = z

\* The size on which pack decides is short of the real one by one byte of the
\* dictionary and the bits of the end at most (pack.c:278).
SizeKnown ==
  pk.step = "packed" =>
    Len(z) - pk.outsize \in 1 .. 2 + (pk.length[END] + Byte - 1) \div Byte

\* Packing loses nothing, hides no loss and is as short as it can be: whatever the file,
\* unpack gives it back or finds the error (pack.c, unpack.c).
PackedRight == PackTypeOK /\ RoundTrip /\ CutIsNoticed /\ Shortest /\ SizeKnown
=============================================================================
