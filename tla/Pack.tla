-------------------------------- MODULE Pack --------------------------------
(***************************************************************************)
(* pack, the Huffman encoder (pack.c), for one file: characters are counted, *)
(* the tree is built with a heap, each character gets a length and a bit     *)
(* pattern, and the file is written with its dictionary in blocks.  A        *)
(* character is a number below END; a byte has Byte bits, a long has four    *)
(* bytes and a pattern at most three.                                        *)
(***************************************************************************)
EXTENDS Integers, Sequences, FiniteSets, FiniteSetsExt, SequencesExt

CONSTANTS
  Files,    \* the files to pack
  END,      \* the number of characters, and the name of the end
  Byte,     \* the bits of a byte
  BLKSIZE   \* the size of a block

VARIABLES
  file, force,  \* the file that is packed, and whether it always is
  pk,           \* the encoder
  z             \* the bytes of the .z file

packVars == <<file, force, pk, z>>

Chars == 0 .. END
US == 31
RS == 30
MaxLevel == 3 * Byte
Pow(k) == 2 ^ k

PackInit ==
  /\ file \in Files /\ force \in BOOLEAN
  /\ pk = [step |-> "input", count |-> [c \in Chars |-> 0], heap |-> <<>>,
           parent |-> [i \in 0 .. 2 * END |-> 0], lastnode |-> END,
           length |-> [c \in Chars |-> 0], bits |-> [c \in Chars |-> 0],
           maxlev |-> 0, insize |-> 0, outsize |-> 0,
           buf |-> [i \in 0 .. BLKSIZE + 3 |-> 0], outp |-> 0, bitsleft |-> Byte, at |-> 1]
  /\ z = <<>>

Keep == UNCHANGED <<file, force>>

-----------------------------------------------------------------------------
(* The heap: a sequence of counts and nodes, the least count in front.      *)

\* Mutant: the left child is always the one that is looked at.
heapify_Left(heap, i) ==
  LET Sift[h \in Seq([count : Nat, node : Nat]), j \in Nat] ==
        LET k == 2 * j IN
          IF j > Len(h) \div 2 \/ h[j].count < h[k].count THEN h
          ELSE Sift[[h EXCEPT ![j] = h[k], ![k] = h[j]], k]
  IN Sift[heap, i]

\* heap[i] sinks until no child has a count that is less or equal.
heapify(heap, i) ==
  LET Sift[h \in Seq([count : Nat, node : Nat]), j \in Nat] ==
        LET k == IF 2 * j < Len(h) /\ h[2 * j].count > h[2 * j + 1].count
                 THEN 2 * j + 1 ELSE 2 * j
        IN IF j > Len(h) \div 2 \/ h[j].count < h[k].count THEN h
           ELSE Sift[[h EXCEPT ![j] = h[k], ![k] = h[j]], k]
  IN Sift[heap, i]

\* Counts are doubled, the end counts one; the last character is first in the
\* heap before it is made one.
input ==
  /\ pk.step = "input"
  /\ LET count == [c \in Chars |->
                     IF c = END THEN 1
                     ELSE 2 * Cardinality({i \in DOMAIN file : file[i] = c})]
         some == SetToSortSeq({c \in Chars : count[c] > 0}, LAMBDA a, b : a > b)
         heap == [i \in DOMAIN some |-> [count |-> count[some[i]], node |-> some[i]]]
     IN pk' = [pk EXCEPT !.count = count, !.insize = Len(file),
                         !.heap = FoldLeft(heapify, heap, Reverse([i \in 1 .. Len(heap) \div 2 |-> i])),
                         !.step = IF Len(heap) = 2 THEN "trivial" ELSE "tree"]
  /\ UNCHANGED z /\ Keep

\* The two least nodes become the children of a new one.
merge ==
  /\ pk.step = "tree" /\ Len(pk.heap) > 1
  /\ LET new == pk.lastnode + 1
         first == pk.heap[1]
         rest == heapify(Front([pk.heap EXCEPT ![1] = Last(pk.heap)]), 1)
     IN pk' = [pk EXCEPT !.parent[first.node] = new, !.parent[rest[1].node] = new,
                         !.lastnode = new,
                         !.heap = heapify([rest EXCEPT ![1] = [count |-> @.count + first.count,
                                                               node |-> new]], 1)]
  /\ UNCHANGED z /\ Keep

\* How deep a node is.
Depth(parent) ==
  LET D[i \in 0 .. 2 * END] == IF parent[i] = 0 THEN 0 ELSE 1 + D[parent[i]] IN D

\* The bits of the text; counts are doubled.  The mutant forgets it.
Bitsout_Doubled(length) == MapThenSumSet(LAMBDA c : length[c] * pk.count[c], Chars)
Bitsout(length) == MapThenSumSet(LAMBDA c : length[c] * (pk.count[c] \div 2), Chars)

\* The size the file would have, in blocks of the disk; it leaves out the bits of
\* the end and one byte of the dictionary.
Blocks(size) == (size + BLKSIZE - 1) \div BLKSIZE
lengths ==
  /\ pk.step = "tree" /\ Len(pk.heap) = 1
  /\ LET length == [c \in Chars |-> Depth(pk.parent)[c]]
         maxlev == Max(Range(length))
         diffbytes == Cardinality({c \in Chars : pk.count[c] > 0}) - 1
         outsize == (Bitsout(length) + Byte - 1) \div Byte + 6 + maxlev + diffbytes
     IN pk' = [pk EXCEPT !.length = length, !.maxlev = maxlev, !.outsize = outsize,
                         !.step = IF maxlev > MaxLevel THEN "levels"
                                  ELSE IF Blocks(pk.insize) <= Blocks(outsize) /\ ~ force
                                  THEN "nosaving" ELSE "patterns"]
  /\ UNCHANGED z /\ Keep

Level(i) == SetToSortSeq({c \in Chars : pk.length[c] = i}, LAMBDA a, b : a < b)

\* The patterns count up through a level, from the deepest one; the bit of the
\* level is cleared between two.
patterns ==
  /\ pk.step = "patterns"
  /\ LET Assign(s, i) ==
           LET inc == Pow(MaxLevel - i)
               level == Level(i)
               m == s.mask + Len(level) * inc
           IN [bits |-> [c \in Chars |->
                           IF pk.length[c] = i
                           THEN s.mask + (CHOOSE k \in DOMAIN level : level[k] = c) * inc - inc
                           ELSE s.bits[c]],
               mask |-> IF (m \div inc) % 2 = 1 THEN m - inc ELSE m]
         all == FoldLeft(Assign, [bits |-> pk.bits, mask |-> 0],
                         Reverse([i \in 1 .. pk.maxlev |-> i]))
     IN pk' = [pk EXCEPT !.bits = all.bits, !.step = "header"]
  /\ UNCHANGED z /\ Keep

-----------------------------------------------------------------------------
(* output                                                                   *)

\* The mark, the size, the number of levels and how many characters have each;
\* the last level is two less.
dictionary ==
  LET size == [i \in 1 .. 4 |-> (pk.insize \div Pow(Byte * (4 - i))) % Pow(Byte)]
      counts == [i \in Min({1, pk.maxlev}) .. pk.maxlev |->
                   Len(Level(i)) - IF i = pk.maxlev THEN 2 ELSE 0]
  IN <<US, RS>> \o size \o <<pk.maxlev>>
       \o [i \in 1 .. Max({1, pk.maxlev}) |-> counts[Min({i, pk.maxlev})]]
       \o SelectSeq(FlattenSeq([i \in 1 .. pk.maxlev |-> Level(i)]), LAMBDA c : c < END)

header ==
  /\ pk.step = "header"
  /\ pk' = [pk EXCEPT !.step = "text", !.outp = Len(dictionary),
                      !.buf = [i \in DOMAIN @ |-> IF i < Len(dictionary) THEN dictionary[i + 1]
                                                  ELSE @[i]]]
  /\ UNCHANGED z /\ Keep

\* The bytes of a long.
longch(l) == [i \in 0 .. 3 |-> (l \div Pow(Byte * (3 - i))) % Pow(Byte)]

\* Mutant: what is in the byte already is overwritten.
Written_Over(s, c) ==
  LET long == longch(s.bits[c] * Pow(s.bitsleft))
      n == IF s.length[c] > s.bitsleft
           THEN (s.length[c] - s.bitsleft + Byte - 1) \div Byte ELSE 0
  IN [s EXCEPT !.buf = [i \in DOMAIN @ |->
                          IF i \in s.outp .. s.outp + n THEN long[i - s.outp] ELSE @[i]],
               !.outp = @ + n, !.bitsleft = @ - s.length[c] + n * Byte]

\* The pattern of c is put behind what is there; its first bits share a byte.
Written(s, c) ==
  LET long == longch(s.bits[c] * Pow(s.bitsleft))
      n == IF s.length[c] > s.bitsleft
           THEN (s.length[c] - s.bitsleft + Byte - 1) \div Byte ELSE 0
  IN [s EXCEPT !.buf = [i \in DOMAIN @ |->
                          IF i = s.outp /\ s.bitsleft < Byte THEN @[i] + long[0]
                          ELSE IF i \in s.outp .. s.outp + n THEN long[i - s.outp]
                          ELSE @[i]],
               !.outp = @ + n, !.bitsleft = @ - s.length[c] + n * Byte]

\* A full block is written, and what is behind it moved to its beginning.  The mutant
\* does not move the place where the next byte goes.
Block(s) == [i \in 1 .. BLKSIZE |-> s.buf[i - 1]]
Moved_Keeps(s) ==
  [s EXCEPT !.buf = [i \in DOMAIN @ |-> IF i <= 3 THEN @[BLKSIZE + i] ELSE @[i]]]
Moved(s) ==
  [s EXCEPT !.buf = [i \in DOMAIN @ |-> IF i <= 3 THEN @[BLKSIZE + i] ELSE @[i]],
            !.outp = @ - BLKSIZE]

Encode ==
  /\ pk.step = "text"
  /\ LET c == IF pk.at > Len(file) THEN END ELSE file[pk.at]
         s == [Written(pk, c) EXCEPT !.at = @ + 1,
                                     !.step = IF c = END THEN "rest" ELSE @]
     IN IF s.outp >= BLKSIZE THEN z' = z \o Block(s) /\ pk' = Moved(s)
        ELSE pk' = s /\ UNCHANGED z
  /\ Keep

Rest ==
  /\ pk.step = "rest"
  /\ z' = z \o [i \in 1 .. pk.outp + (IF pk.bitsleft < Byte THEN 1 ELSE 0) |-> pk.buf[i - 1]]
  /\ pk' = [pk EXCEPT !.step = "packed"]
  /\ Keep

pack == input \/ merge \/ lengths \/ patterns \/ header \/ Encode \/ Rest
=============================================================================
