--------------------------- MODULE SwapperProofs ----------------------------
(***************************************************************************)
(* Proofs about Swapper for any programs, sizes, number of pages and depth *)
(* of calls, provided that Answer and Exitsys can always be loaded: memory *)
(* stays in order, and what programs see is the stack of ProcStack.        *)
(***************************************************************************)
EXTENDS Swapper, TLAPS, FiniteSetTheorems, SequenceTheorems

-----------------------------------------------------------------------------
(* The inductive invariant.                                                *)

Executing == {"run", "signal", "wild"}

\* Nothing fatal has happened; before the first program is in memory, Answer or
\* Exitsys is being called; a call has been checked against the depth.
DepthInv ==
  /\ pc \notin {"error2", "error4", "halt"}
  /\ pc \in Executing \cup {"save", "restore"} => process > 0
  /\ process = 0 => isCall /\ new \in {Answer, Exitsys}
  /\ pc \in {"save", "open", "load"} /\ isCall => process < MaxDepth

\* Pages that are not free belong to resident modules and to programs that
\* wait, or to the one that is being copied.
OwnerInv ==
  \A g \in Pages :
    owner[g] \in 0 .. (IF pc \in Executing THEN process - 1 ELSE process)
                 \cup {NumResident}

\* The pages of a program that waits are its memory.
SavedInv ==
  \A n \in 1 .. (IF pc \in Executing \cup {"save"} THEN process - 1 ELSE process) :
    Whole(n)

\* The program area holds the program that executes, and still does while its
\* successor is looked for; then its pages are a copy of it.
RamInv ==
  /\ pc \in Executing \cup {"save"} => InPlace
  /\ pc = "open" /\ process > 0 => InPlace /\ First(process) = ram[1]

\* While it is saved, the pages it got so far are its first k, in order, and the
\* rest of what was counted is still free.
SaveInv ==
  pc = "save" =>
    /\ k <= Size[cur] /\ Size[cur] <= k + Cardinality(Free)
    /\ Cardinality(Owned(process)) = k
    /\ \A g \in Owned(process), h \in Free : g < h
    /\ \A g \in Owned(process) : page[g] = ram[Rank(g, Owned(process))]

LoadInv ==
  pc = "load" =>
    /\ k <= Size[new] /\ (k > 0 => cur = new)
    /\ \A i \in 1 .. k : ram[i] = Chunk(new, Loaded, i)

\* While it is restored, the pages before PAGENUM have been copied back.
RestoreInv ==
  pc = "restore" =>
    /\ k <= Size[First(process).prog]
    /\ k = 0 => pagenum = 1
    /\ k > 0 => cur = First(process).prog
    /\ Cardinality({h \in Owned(process) : h < pagenum}) = k
    /\ \A i \in 1 .. k : ram[i] = Chunk(First(process).prog, First(process).ver, i)

TempInv ==
  /\ pc \notin {"save", "restore"} => k = 0 \/ pc = "load"
  /\ pc \notin {"save", "restore"} \/ k = 0 => temp = 0
  /\ pc \in {"save", "restore"} /\ k > 0 => oldPage = 0

IInv ==
  /\ TypeOK /\ ResidentKept /\ DepthInv /\ OwnerInv /\ SavedInv /\ RamInv
  /\ SaveInv /\ LoadInv /\ RestoreInv /\ TempInv

-----------------------------------------------------------------------------
(* Numbers and sets of pages.                                              *)

LEMMA LeastExists ==
  ASSUME NEW S \in SUBSET Nat, S # {}
  PROVE  \E x \in S : \A y \in S : x <= y
<1>1. PICK x \in S : \A y \in S : ~(<<y, x>> \in OpToRel(<, Nat))
  BY NatLessThanWellFounded, WFMin
<1>2. \A y \in S : ~(y < x)
  BY <1>1 DEF OpToRel
<1> QED
  BY <1>2

LEMMA MinFacts ==
  ASSUME NEW S \in SUBSET Nat, S # {}
  PROVE  Min(S) \in S /\ \A y \in S : Min(S) <= y
BY LeastExists DEF Min

(* The sizes have a maximum: take a program with the fewest that are as    *)
(* large.                                                                  *)
LEMMA LargestExists ==
  \E p \in Programs : \A q \in Programs : Size[p] >= Size[q]
<1> DEFINE AsLarge(p) == {q \in Programs : Size[q] >= Size[p]}
           Counts == {Cardinality(AsLarge(p)) : p \in Programs}
<1>1. \A p \in Programs : Size[p] \in Nat
  BY SwapperAssumption
<1>2. \A p \in Programs : IsFiniteSet(AsLarge(p)) /\ Cardinality(AsLarge(p)) \in Nat
  BY SwapperAssumption, FS_Subset, FS_CardinalityType
<1>3. Counts \in SUBSET Nat /\ Counts # {}
  <2> HIDE DEF AsLarge
  <2> QED BY <1>2, SwapperAssumption
<1>4. PICK c \in Counts : \A d \in Counts : c <= d
  <2> HIDE DEF Counts
  <2> QED BY <1>3, LeastExists
<1>5. PICK p \in Programs : c = Cardinality(AsLarge(p))
  BY <1>4
<1>6. ASSUME NEW q \in Programs, ~(Size[p] >= Size[q])
      PROVE  FALSE
  <2>1. AsLarge(q) \in SUBSET AsLarge(p) /\ p \in AsLarge(p) /\ p \notin AsLarge(q)
    BY <1>1, <1>6
  <2>2. AsLarge(q) # AsLarge(p)
    BY <2>1
  <2>3. Cardinality(AsLarge(q)) <= Cardinality(AsLarge(p))
        /\ Cardinality(AsLarge(q)) # Cardinality(AsLarge(p))
    <3> HIDE DEF AsLarge
    <3> QED BY <1>2, <2>1, <2>2, FS_Subset
  <2>4. Cardinality(AsLarge(p)) <= Cardinality(AsLarge(q))
    BY <1>4, <1>5
  <2> QED
    BY <1>2, <2>3, <2>4
<1> QED
  BY <1>6

LEMMA RamFacts ==
  /\ \A p \in Programs : Size[p] \in Nat /\ Size[p] > 0
  /\ \A p \in Programs : 1 .. Size[p] \subseteq RamPages
  /\ RamPages \subseteq Nat /\ 1 \in RamPages
  /\ \A p \in Programs : Size[p] <= Cardinality(RamPages)
  /\ Cardinality(RamPages) \in Nat
<1> DEFINE Sizes == {Size[p] : p \in Programs}
           M == Max(Sizes)
<1>1. \A p \in Programs : Size[p] \in Nat /\ Size[p] > 0
  BY SwapperAssumption
<1>2. M \in Sizes /\ \A n \in Sizes : M >= n
  BY LargestExists DEF Max
<1>3. M \in Nat /\ M > 0 /\ \A p \in Programs : Size[p] <= M
  BY <1>1, <1>2
<1>4. RamPages = 1 .. M
  BY DEF RamPages
<1> HIDE DEF M
<1>5. Cardinality(RamPages) = M
  BY <1>3, <1>4, FS_Interval
<1> QED
  BY <1>1, <1>3, <1>4, <1>5, SwapperAssumption

LEMMA PageSets ==
  ASSUME NEW S \in SUBSET Pages
  PROVE  IsFiniteSet(S) /\ Cardinality(S) \in Nat /\ S \in SUBSET Nat
<1>1. IsFiniteSet(Pages)
  BY SwapperAssumption, FS_Interval DEF Pages
<1>2. IsFiniteSet(S)
  BY <1>1, FS_Subset
<1> QED
  BY <1>2, FS_CardinalityType, SwapperAssumption DEF Pages

LEMMA PageNumbers ==
  ASSUME NEW g \in Pages
  PROVE  g \in Nat /\ g > 0 /\ g <= NPages
BY SwapperAssumption DEF Pages

LEMMA RankFacts ==
  ASSUME NEW S \in SUBSET Pages, NEW g \in S
  PROVE  /\ Rank(g, S) \in 1 .. Cardinality(S)
         /\ g = Min(S) => Rank(g, S) = 1
<1> DEFINE T == {h \in S : h <= g}
<1>1. T \in SUBSET S /\ T \in SUBSET Pages /\ g \in T
  BY PageNumbers
<1>2. IsFiniteSet(S) /\ Cardinality(S) \in Nat /\ IsFiniteSet(T) /\ Cardinality(T) \in Nat
  BY <1>1, PageSets
<1>3. Cardinality(T) <= Cardinality(S)
  BY <1>1, <1>2, FS_Subset
<1>4. Cardinality(T) # 0
  BY <1>1, <1>2, FS_EmptySet
<1>5. ASSUME g = Min(S) PROVE Cardinality(T) = 1
  <2>1. \A h \in S : g <= h
    BY <1>5, MinFacts, PageSets
  <2>2. T = {g}
    BY <2>1, <1>1, PageNumbers
  <2> QED
    BY <2>2, FS_Singleton
<1> QED
  BY <1>2, <1>3, <1>4, <1>5 DEF Rank

(* A page behind all others gets the next rank, and changes no other.      *)
LEMMA RankAppended ==
  ASSUME NEW S \in SUBSET Pages, NEW a \in Pages, \A g \in S : g < a
  PROVE  /\ \A g \in S : Rank(g, S \cup {a}) = Rank(g, S)
         /\ Rank(a, S \cup {a}) = Cardinality(S) + 1
         /\ Cardinality(S \cup {a}) = Cardinality(S) + 1
         /\ S # {} => Min(S \cup {a}) = Min(S)
<1>1. \A g \in S : {h \in S \cup {a} : h <= g} = {h \in S : h <= g}
  BY PageNumbers
<1>2. {h \in S \cup {a} : h <= a} = S \cup {a}
  BY PageNumbers
<1>3. a \notin S
  BY PageNumbers
<1>4. Cardinality(S \cup {a}) = Cardinality(S) + 1
  BY <1>3, PageSets, FS_AddElement
<1>5. ASSUME S # {} PROVE Min(S \cup {a}) = Min(S)
  <2>1. Min(S) \in S /\ \A y \in S : Min(S) <= y
    BY <1>5, MinFacts, PageSets
  <2>2. S \cup {a} \in SUBSET Nat
    BY PageSets
  <2>3. Min(S \cup {a}) \in S \cup {a} /\ \A y \in S \cup {a} : Min(S \cup {a}) <= y
    BY <2>2, MinFacts
  <2> QED
    BY <2>1, <2>2, <2>3, PageNumbers
<1> QED
  BY <1>1, <1>2, <1>4, <1>5 DEF Rank

(* The least page not yet passed has the next rank.                        *)
LEMMA RankNext ==
  ASSUME NEW S \in SUBSET Pages, NEW p \in Nat, NEW g \in S, g >= p,
         \A h \in S : h >= p => g <= h
  PROVE  /\ Rank(g, S) = Cardinality({h \in S : h < p}) + 1
         /\ Cardinality({h \in S : h < g + 1}) = Cardinality({h \in S : h < p}) + 1
<1> DEFINE T == {h \in S : h < p}
<1>1. {h \in S : h <= g} = T \cup {g} /\ {h \in S : h < g + 1} = T \cup {g}
  BY PageNumbers
<1>2. g \notin T /\ T \in SUBSET Pages
  BY PageNumbers
<1>3. Cardinality(T \cup {g}) = Cardinality(T) + 1
  BY <1>2, PageSets, FS_AddElement
<1> QED
  BY <1>1, <1>3 DEF Rank

-----------------------------------------------------------------------------
(* What a step leaves alone.                                               *)

LEMMA Types ==
  ASSUME TypeOK
  PROVE  /\ process \in Nat /\ process <= MaxDepth /\ MaxDepth \in Nat
         /\ \A g \in Pages : owner[g] \in 0 .. MaxDepth \cup {NumResident}
         /\ \A g \in Pages : page[g] \in Chunks
         /\ \A i \in RamPages : ram[i] \in Chunks
         /\ k \in Nat /\ Free \in SUBSET Pages
         /\ \A n : Owned(n) \in SUBSET Pages
BY SwapperAssumption, RamFacts DEF TypeOK, Free, Owned

LEMMA FirstFacts ==
  ASSUME TypeOK, NEW n, Owned(n) # {}
  PROVE  /\ Min(Owned(n)) \in Owned(n) /\ Min(Owned(n)) \in Pages
         /\ \A g \in Owned(n) : Min(Owned(n)) <= g
         /\ First(n) \in Chunks /\ First(n).prog \in Programs
<1>1. Owned(n) \in SUBSET Pages
  BY DEF Owned
<1>2. Min(Owned(n)) \in Owned(n) /\ \A g \in Owned(n) : Min(Owned(n)) <= g
  BY <1>1, PageSets, MinFacts
<1>3. First(n) \in Chunks
  BY <1>1, <1>2 DEF First, TypeOK
<1> QED
  BY <1>1, <1>2, <1>3, SwapperAssumption DEF Chunks, Blank

LEMMA SameMemory ==
  ASSUME UNCHANGED <<owner, page>>
  PROVE  /\ Free' = Free
         /\ \A n : /\ Owned(n)' = Owned(n) /\ First(n)' = First(n)
                   /\ Whole(n)' = Whole(n) /\ Saved(n)' = Saved(n)
BY DEF Free, Owned, First, Whole, Saved

LEMMA SamePages ==
  ASSUME NEW n, \A g \in Pages : owner'[g] = n <=> owner[g] = n,
         \A g \in Owned(n) : page'[g] = page[g], TypeOK
  PROVE  /\ Owned(n)' = Owned(n)
         /\ Owned(n) # {} => First(n)' = First(n)
         /\ Whole(n)' = Whole(n) /\ Saved(n)' = Saved(n)
<1>1. Owned(n)' = Owned(n)
  BY DEF Owned
<1>2. ASSUME Owned(n) # {} PROVE First(n)' = First(n)
  BY <1>1, <1>2, FirstFacts DEF First
<1>3. Whole(n)' = Whole(n)
  <2>1. CASE Owned(n) = {}
    BY <1>1, <2>1 DEF Whole
  <2>2. CASE Owned(n) # {}
    BY <1>1, <1>2, <2>2 DEF Whole
  <2> QED BY <2>1, <2>2
<1>4. Whole(n) => Owned(n) # {}
  BY DEF Whole
<1>5. Saved(n)' = Saved(n)
  BY <1>2, <1>3, <1>4 DEF Saved
<1> QED
  BY <1>1, <1>2, <1>3, <1>5

(* FREE_ALL takes the pages of one process and of nobody else.             *)
LEMMA FreedFacts ==
  ASSUME TypeOK, owner' = Freed(process), page' = page, process > 0
  PROVE  /\ owner' \in [Pages -> 0 .. MaxDepth \cup {NumResident}]
         /\ \A g \in Pages : owner'[g] # process
         /\ \A g \in Pages : owner'[g] # owner[g] => owner'[g] = 0 /\ owner[g] = process
         /\ \A n \in 1 .. process - 1 : Whole(n)' = Whole(n) /\ Saved(n)' = Saved(n)
         /\ ResidentKept => ResidentKept'
<1>1. \A g \in Pages : owner'[g] = IF owner[g] = process THEN 0 ELSE owner[g]
  BY DEF Freed
<1>2. owner' \in [Pages -> 0 .. MaxDepth \cup {NumResident}]
  BY SwapperAssumption DEF Freed, TypeOK
<1>3. ASSUME NEW n \in 1 .. process - 1
      PROVE  Whole(n)' = Whole(n) /\ Saved(n)' = Saved(n)
  <2>1. \A g \in Pages : owner'[g] = n <=> owner[g] = n
    BY <1>1, Types
  <2> QED
    BY <2>1, SamePages
<1>4. ResidentKept => ResidentKept'
  BY <1>1, Types, SwapperAssumption DEF ResidentKept, Pages
<1> QED
  BY <1>1, <1>2, <1>3, <1>4, Types

(* The stack has one image for each process, and with them it is extended, *)
(* cut or left alone.                                                      *)
LEMMA FunctionIsSeq ==
  ASSUME NEW S, NEW n \in Nat, NEW f \in [1 .. n -> S]
  PROVE  f \in Seq(S) /\ Len(f) = n
BY SeqDef

LEMMA Stacked ==
  ASSUME NEW S, NEW n \in Nat, NEW f \in [1 .. n -> S],
         NEW g \in [1 .. n + 1 -> S], \A i \in 1 .. n : g[i] = f[i]
  PROVE  /\ Len(f) = n /\ Len(g) = n + 1
         /\ g = Append(f, g[n + 1]) /\ f = SubSeq(g, 1, n)
<1>1. f \in Seq(S) /\ Len(f) = n /\ g \in Seq(S) /\ Len(g) = n + 1
  BY FunctionIsSeq, n + 1 \in Nat
<1>2. g[n + 1] \in S
  OBVIOUS
<1>3. g = Append(f, g[n + 1])
  BY <1>1, <1>2
<1>4. /\ SubSeq(g, 1, n) \in Seq(S) /\ Len(SubSeq(g, 1, n)) = n
      /\ \A i \in 1 .. n : SubSeq(g, 1, n)[i] = g[i]
  <2>1. \A i \in 1 .. n : g[i] \in S
    OBVIOUS
  <2> QED
    BY <2>1, SubSeqProperties
<1>5. f = SubSeq(g, 1, n)
  BY <1>1, <1>4
<1> QED
  BY <1>1, <1>3, <1>5

Images == {Stack[i] : i \in 1 .. process}

LEMMA StackFacts ==
  ASSUME TypeOK
  PROVE  /\ Stack = [i \in 1 .. process |-> Stack[i]]
         /\ Len(Stack) = process
         /\ process = 0 => Stack = <<>>
         /\ process > 0 => Stack # <<>>
<1>1. Stack = [i \in 1 .. process |-> Stack[i]]
  BY DEF Stack
<1>2. Stack \in [1 .. process -> Images] /\ process \in Nat
  BY <1>1, Types DEF Images
<1>3. Stack \in Seq(Images)
  BY <1>2, FunctionIsSeq
<1>4. Len(Stack) = process
  BY <1>2, FunctionIsSeq
<1>5. process = 0 => Stack = <<>>
  BY <1>2, <1>3, <1>4, EmptySeq
<1>6. process > 0 => Stack # <<>>
  BY <1>2, <1>4, EmptySeq
<1> QED
  BY <1>1, <1>4, <1>5, <1>6

LEMMA SeqSteps ==
  ASSUME NEW S, NEW m \in Nat, NEW n \in Nat,
         NEW f \in [1 .. m -> S], NEW g \in [1 .. n -> S]
  PROVE  /\ n = m /\ (\A i \in 1 .. m : g[i] = f[i]) => g = f
         /\ n = m + 1 /\ (\A i \in 1 .. m : g[i] = f[i]) => g = Append(f, g[m + 1])
         /\ n = m /\ m > 0 /\ (\A i \in 1 .. m - 1 : g[i] = f[i])
              => g = Append(SubSeq(f, 1, Len(f) - 1), g[m])
<1>1. Len(f) = m
  BY FunctionIsSeq
<1>2. ASSUME n = m, \A i \in 1 .. m : g[i] = f[i]
      PROVE  g = f
  BY <1>2
<1>3. ASSUME n = m + 1, \A i \in 1 .. m : g[i] = f[i]
      PROVE  g = Append(f, g[m + 1])
  BY <1>3, Stacked
<1>4. ASSUME n = m, m > 0, \A i \in 1 .. m - 1 : g[i] = f[i]
      PROVE  g = Append(SubSeq(f, 1, Len(f) - 1), g[m])
  <2> DEFINE R == [i \in 1 .. m - 1 |-> f[i]]
  <2>1. R \in [1 .. m - 1 -> S] /\ m - 1 \in Nat /\ (m - 1) + 1 = m
    BY <1>4
  <2>2. \A i \in 1 .. m - 1 : f[i] = R[i] /\ g[i] = R[i]
    BY <1>4
  <2> HIDE DEF R
  <2>3. R = SubSeq(f, 1, m - 1)
    BY <2>1, <2>2, Stacked
  <2>4. g = Append(R, g[m])
    BY <1>4, <2>1, <2>2, Stacked
  <2> QED
    BY <1>1, <2>3, <2>4
<1> QED
  BY <1>2, <1>3, <1>4

LEMMA StackSteps ==
  ASSUME TypeOK, TypeOK'
  PROVE  /\ process' = process /\ (\A i \in 1 .. process : Stack'[i] = Stack[i])
              => Stack' = Stack
         /\ process' = process + 1 /\ (\A i \in 1 .. process : Stack'[i] = Stack[i])
              => Stack' = Append(Stack, Stack'[process + 1])
         /\ process' = process - 1 /\ (\A i \in 1 .. process' : Stack'[i] = Stack[i])
              => Stack' = PS!Rest
         /\ process' = process /\ process > 0
            /\ (\A i \in 1 .. process - 1 : Stack'[i] = Stack[i])
              => Stack' = Append(PS!Rest, Stack'[process])
<1> DEFINE S == Images \cup Images'
<1>1. Stack \in [1 .. process -> S] /\ Stack' \in [1 .. process' -> S]
  BY DEF Stack, Images
<1>2. process \in Nat /\ process' \in Nat
  BY Types DEF TypeOK
<1> HIDE DEF S
<1>3. process' = process /\ (\A i \in 1 .. process : Stack'[i] = Stack[i])
        => Stack' = Stack
  BY <1>1, <1>2, SeqSteps
<1>4. process' = process + 1 /\ (\A i \in 1 .. process : Stack'[i] = Stack[i])
        => Stack' = Append(Stack, Stack'[process + 1])
  BY <1>1, <1>2, SeqSteps
<1>5. ASSUME process' = process - 1, \A i \in 1 .. process' : Stack'[i] = Stack[i]
      PROVE  Stack' = PS!Rest
  <2>1. Len(Stack) = process
    BY <1>1, <1>2, FunctionIsSeq
  <2>2. Stack \in [1 .. process' + 1 -> S]
    BY <1>1, <1>2, <1>5, process' + 1 = process
  <2>3. process' = Len(Stack) - 1
    BY <1>2, <1>5, <2>1
  <2>4. Stack' = SubSeq(Stack, 1, process')
    BY <1>1, <1>2, <1>5, <2>2, Stacked
  <2> QED
    BY <2>3, <2>4 DEF PS!Rest
<1>6. process' = process /\ process > 0
        /\ (\A i \in 1 .. process - 1 : Stack'[i] = Stack[i])
        => Stack' = Append(PS!Rest, Stack'[process])
  BY <1>1, <1>2, SeqSteps DEF PS!Rest
<1> QED
  BY <1>3, <1>4, <1>5, <1>6

-----------------------------------------------------------------------------
(* Each action keeps the invariant, and is a step of ProcStack or none.    *)

StackStep == PS!Next \/ UNCHANGED PS!vars

LEMMA Initially ==
  ASSUME Init
  PROVE  IInv /\ PS!Init
<1>1. TypeOK
  <2>1. Blank \in Chunks
    BY DEF Chunks
  <2>2. owner \in [Pages -> 0 .. MaxDepth \cup {NumResident}]
    BY SwapperAssumption DEF Init
  <2>3. page \in [Pages -> Chunks] /\ ram \in [RamPages -> Chunks]
    BY <2>1 DEF Init
  <2>4. k \in 0 .. Cardinality(RamPages)
    BY RamFacts DEF Init
  <2>5. /\ process \in 0 .. MaxDepth /\ cur \in Programs /\ new \in Programs
        /\ pagenum \in 1 .. NPages + 1 /\ temp \in 0 .. NPages /\ oldPage \in 0 .. NPages
    BY SwapperAssumption DEF Init
  <2> QED
    BY <2>2, <2>3, <2>4, <2>5 DEF Init, TypeOK, PcStates, Replies
<1>2. ResidentKept
  BY SwapperAssumption DEF Init, ResidentKept, Pages
<1>3. DepthInv /\ OwnerInv /\ SavedInv /\ RamInv /\ SaveInv /\ LoadInv
      /\ RestoreInv /\ TempInv
  BY SwapperAssumption
  DEF Init, DepthInv, OwnerInv, SavedInv, RamInv, SaveInv, LoadInv,
      RestoreInv, TempInv, Executing
<1>4. PS!Init
  BY <1>1, StackFacts DEF Init, PS!Init
<1> QED
  BY <1>1, <1>2, <1>3, <1>4 DEF IInv

LEMMA WorkStep ==
  ASSUME IInv, NEW v \in Versions, Work(v)
  PROVE  IInv' /\ StackStep
<1> USE DEF IInv
<1>1. pc = "run" /\ pc' = "run" /\ cur \in Programs /\ cur' = cur /\ process' = process
      /\ UNCHANGED <<owner, page>>
  BY DEF Work, TypeOK
<1>2. ram' = [i \in RamPages |-> IF i <= Size[cur] THEN Chunk(cur, v, i) ELSE ram[i]]
  BY DEF Work
<1>3. \A i \in 1 .. Size[cur] : ram'[i] = Chunk(cur, v, i)
  BY <1>1, <1>2, RamFacts
<1>4. TypeOK'
  <2>1. \A i \in RamPages : ram'[i] \in Chunks
    BY <1>1, <1>2, Types DEF Chunk, Chunks
  <2> QED
    BY <1>2, <2>1 DEF Work, TypeOK
<1>5. ram'[1].ver = v
  <2>1. 1 \in 1 .. Size[cur]
    BY <1>1, RamFacts
  <2>2. ram'[1] = Chunk(cur, v, 1)
    BY <1>3, <2>1
  <2> QED
    BY <2>2 DEF Chunk
<1>6. InPlace'
  BY <1>1, <1>3, <1>5 DEF InPlace
<1>7. SavedInv' /\ ResidentKept'
  BY <1>1, SameMemory DEF SavedInv, ResidentKept, Executing
<1>8. IInv'
  BY <1>1, <1>4, <1>6, <1>7
  DEF Work, DepthInv, OwnerInv, RamInv, SaveInv, LoadInv, RestoreInv, TempInv, Executing
<1>9. StackStep
  <2>1. process > 0 /\ process \in Nat
    BY <1>1, Types DEF DepthInv, Executing
  <2>2. Stack[process] = [prog |-> cur, ver |-> ram[1].ver]
    BY <1>1, <2>1 DEF Stack, Running, RamInv, Executing
  <2>3. Stack'[process] = [prog |-> cur, ver |-> v]
    BY <1>1, <1>5, <1>6, <2>1 DEF Stack, Running
  <2>4. \A i \in 1 .. process - 1 : Stack'[i] = Stack[i]
    BY <1>1, <2>1, SameMemory DEF Stack
  <2>5. Stack' = Append(PS!Rest, Stack'[process])
    BY <1>1, <1>4, <2>1, <2>4, StackSteps
  <2>6. Stack # <<>> /\ PS!Top = Stack[process]
    BY <2>1, StackFacts DEF PS!Top
  <2>7. Stack'[process] = [PS!Top EXCEPT !.ver = v]
    BY <2>2, <2>3, <2>6
  <2>8. reply' = reply
    BY DEF Work
  <2>9. PS!Work
    BY <2>5, <2>6, <2>7, <2>8 DEF PS!Work
  <2> QED
    BY <2>9 DEF StackStep, PS!Next
<1> QED
  BY <1>8, <1>9

(* No page belongs to the program that executes, or to one above it.       *)
LEMMA NothingOwned ==
  ASSUME TypeOK, OwnerInv, pc \in Executing, process > 0
  PROVE  Owned(process) = {} /\ Cardinality(Owned(process)) = 0
<1>1. process # NumResident /\ process \notin 0 .. process - 1
  BY Types, SwapperAssumption
<1>2. Owned(process) = {}
  BY <1>1 DEF OwnerInv, Owned
<1> QED
  BY <1>2, FS_EmptySet

LEMMA PushStep ==
  ASSUME IInv, NEW p \in Programs, NEW call \in BOOLEAN, PUSH_PROG(p, call)
  PROVE  IInv' /\ StackStep
<1> USE DEF IInv
<1>1. /\ pc = "run" /\ process' = process /\ cur' = cur /\ ram' = ram
      /\ UNCHANGED <<owner, page>> /\ k' = 0 /\ cur \in Programs
      /\ process > 0 /\ process \in Nat
      /\ pc' = IF Enough THEN "save" ELSE "wild"
  BY Types DEF PUSH_PROG, TypeOK, DepthInv, Executing
<1>2. TypeOK'
  BY <1>1, RamFacts DEF PUSH_PROG, TypeOK, PcStates
<1>3. ResidentKept'
  BY <1>1 DEF ResidentKept
<1>4. DepthInv'
  BY <1>1 DEF PUSH_PROG, DepthInv, Executing
<1>5. OwnerInv'
  <2>1. \A g \in Pages : owner[g] \in 0 .. process - 1 \cup {NumResident}
    BY <1>1 DEF OwnerInv, Executing
  <2>2. \A g \in Pages : owner'[g] \in 0 .. process' \cup {NumResident}
                         /\ owner'[g] \in 0 .. process' - 1 \cup {NumResident}
    BY <1>1, <2>1
  <2> QED
    BY <2>2 DEF OwnerInv
<1>6. SavedInv'
  BY <1>1, SameMemory DEF SavedInv, Executing
<1>7. RamInv'
  BY <1>1 DEF RamInv, InPlace, Executing
<1>8. SaveInv'
  <2>1. Owned(process) = {} /\ Cardinality(Owned(process)) = 0
    BY <1>1, NothingOwned DEF Executing
  <2>2. /\ Owned(process)' = {} /\ Cardinality(Owned(process)') = 0
        /\ Free' = Free
    BY <1>1, <2>1, SameMemory
  <2>3. Size[cur] \in Nat /\ Cardinality(Free) \in Nat
    BY <1>1, RamFacts, Types, PageSets
  <2>4. pc' = "save" => Size[cur] <= Cardinality(Free)
    BY <1>1 DEF Enough
  <2> QED
    BY <1>1, <2>2, <2>3, <2>4 DEF SaveInv
<1>9. LoadInv' /\ RestoreInv' /\ TempInv'
  BY <1>1 DEF PUSH_PROG, LoadInv, RestoreInv, TempInv
<1>10. Stack' = Stack
  <2>1. Running' = Running
    BY <1>1 DEF Running, InPlace
  <2> QED
    BY <1>1, <2>1, SameMemory DEF Stack
<1>11. StackStep
  BY <1>10 DEF PUSH_PROG, StackStep, PS!vars
<1> QED
  BY <1>2, <1>3, <1>4, <1>5, <1>6, <1>7, <1>8, <1>9, <1>11

(* The next page gets the next page of the program.                        *)
LEMMA SaveStep ==
  ASSUME IInv, SM_02
  PROVE  IInv' /\ StackStep
<1> USE DEF IInv
<1> DEFINE a == Allocated
           S == Owned(process)
<1>1. /\ pc = "save" /\ cur \in Programs /\ Size[cur] \in Nat /\ k < Size[cur]
      /\ k \in Nat /\ process > 0 /\ process \in Nat
  BY RamFacts, Types DEF SM_02, TypeOK, DepthInv, Executing
<1>2. /\ Size[cur] <= k + Cardinality(Free) /\ Cardinality(S) = k
      /\ \A g \in S, h \in Free : g < h
      /\ \A g \in S : page[g] = ram[Rank(g, S)]
  BY <1>1 DEF SaveInv
<1>3. Free # {}
  <2>1. Cardinality(Free) # 0 /\ IsFiniteSet(Free)
    BY <1>1, <1>2, Types, PageSets
  <2> QED
    BY <2>1, FS_EmptySet
<1>4. a \in Free /\ a \in Pages /\ owner[a] = 0 /\ \A g \in Free : a <= g
  BY <1>3, Types, PageSets, MinFacts DEF Allocated, Free
<1>5. /\ owner' = [owner EXCEPT ![a] = process] /\ page' = [page EXCEPT ![a] = ram[k + 1]]
      /\ temp' = a /\ oldPage' = (IF k = 0 THEN temp ELSE oldPage)
      /\ k' = k + 1 /\ pc' = "save"
      /\ UNCHANGED <<process, ram, cur, new, isCall, pagenum, reply, discon>>
  BY <1>1, <1>3 DEF SM_02
<1> HIDE DEF a
<1>6. S \in SUBSET Pages /\ Owned(process)' = S \cup {a}
  BY <1>4, <1>5 DEF Owned, TypeOK
<1>7. Free' = Free \ {a}
  BY <1>1, <1>4, <1>5 DEF Free, TypeOK
<1>8. \A g \in Pages : g # a => owner'[g] = owner[g] /\ page'[g] = page[g]
  BY <1>5 DEF TypeOK
<1>9. owner'[a] = process /\ page'[a] = ram[k + 1]
  BY <1>4, <1>5 DEF TypeOK
<1>10. k + 1 \in RamPages
  BY <1>1, RamFacts
<1>11. TypeOK'
  <2>1. k' \in 0 .. Cardinality(RamPages)
    BY <1>1, <1>5, RamFacts
  <2>2. a \in 0 .. NPages
    BY <1>4, PageNumbers, SwapperAssumption
  <2>3. owner' \in [Pages -> 0 .. MaxDepth \cup {NumResident}]
    BY <1>4, <1>5 DEF TypeOK
  <2>4. page' \in [Pages -> Chunks]
    BY <1>4, <1>5, <1>10 DEF TypeOK
  <2> QED
    BY <1>5, <2>1, <2>2, <2>3, <2>4 DEF TypeOK, PcStates
<1>12. ResidentKept'
  BY <1>4, <1>8, SwapperAssumption DEF ResidentKept, Pages
<1>13. DepthInv'
  BY <1>1, <1>5 DEF DepthInv, Executing
<1>14. OwnerInv'
  <2>1. \A g \in Pages : owner[g] \in 0 .. process \cup {NumResident}
    BY <1>1 DEF OwnerInv, Executing
  <2> QED
    BY <1>1, <1>5, <1>8, <1>9, <2>1 DEF OwnerInv, Executing
<1>15. \A n \in 1 .. process - 1 : Whole(n)' = Whole(n) /\ Saved(n)' = Saved(n)
  <2> SUFFICES ASSUME NEW n \in 1 .. process - 1
               PROVE  Whole(n)' = Whole(n) /\ Saved(n)' = Saved(n)
    OBVIOUS
  <2>1. \A g \in Pages : owner'[g] = n <=> owner[g] = n
    BY <1>1, <1>4, <1>8, <1>9
  <2>2. \A g \in Owned(n) : page'[g] = page[g]
    BY <1>4, <1>8 DEF Owned
  <2> QED
    BY <2>1, <2>2, SamePages
<1>16. SavedInv'
  BY <1>1, <1>5, <1>15 DEF SavedInv, Executing
<1>17. RamInv'
  BY <1>1, <1>5 DEF RamInv, InPlace, Executing
<1>18. SaveInv'
  <2>1. \A g \in S : g < a
    BY <1>2, <1>4
  <2>2. /\ \A g \in S : Rank(g, S \cup {a}) = Rank(g, S)
        /\ Rank(a, S \cup {a}) = k + 1 /\ Cardinality(S \cup {a}) = k + 1
    BY <1>2, <1>4, <1>6, <2>1, RankAppended
  <2>3. Cardinality(Free') = Cardinality(Free) - 1
    BY <1>4, <1>7, Types, PageSets, FS_RemoveElement
  <2>4. Size[cur] <= (k + 1) + Cardinality(Free')
    BY <1>1, <1>2, <2>3, Types, PageSets
  <2>5. \A g \in S \cup {a}, h \in Free' : g < h
    <3>1. \A h \in Free : h # a => a < h
      BY <1>4, Types, PageNumbers
    <3> QED
      BY <1>2, <1>7, <3>1
  <2>6. \A g \in S \cup {a} : page'[g] = ram[Rank(g, S \cup {a})]
    <3>1. \A g \in S : page'[g] = page[g]
      BY <1>4, <1>6, <1>8, <2>1, PageNumbers
    <3> QED
      BY <1>2, <1>9, <2>2, <3>1
  <2>7. k + 1 <= Size[cur]
    BY <1>1
  <2> HIDE DEF S
  <2> QED
    BY <1>5, <1>6, <2>2, <2>4, <2>5, <2>6, <2>7 DEF SaveInv
<1>19. LoadInv' /\ RestoreInv'
  BY <1>5 DEF LoadInv, RestoreInv
<1>20. TempInv'
  BY <1>1, <1>5 DEF TempInv
<1>21. Stack' = Stack
  <2>1. Running' = Running
    BY <1>5 DEF Running, InPlace
  <2>2. \A i \in 1 .. process : Stack'[i] = Stack[i]
    BY <1>1, <1>5, <1>15, <2>1 DEF Stack
  <2> QED
    BY <1>5, <1>11, <2>2, StackSteps
<1>22. StackStep
  BY <1>5, <1>21 DEF StackStep, PS!vars
<1> QED
  BY <1>11, <1>12, <1>13, <1>14, <1>16, <1>17, <1>18, <1>19, <1>20, <1>22

(* The copy is complete: the pages are the program's memory.               *)
LEMMA SavedStep ==
  ASSUME IInv, SM_END
  PROVE  IInv' /\ StackStep
<1> USE DEF IInv
<1> DEFINE S == Owned(process)
<1>1. /\ pc = "save" /\ cur \in Programs /\ Size[cur] \in Nat /\ k = Size[cur]
      /\ k > 0 /\ process > 0 /\ process \in Nat
  BY RamFacts, Types DEF SM_END, TypeOK, DepthInv, Executing
<1>2. /\ pc' = "open" /\ temp' = oldPage /\ k' = 0
      /\ UNCHANGED <<process, owner, page, ram, cur, new, isCall, pagenum, oldPage,
                     reply, discon>>
  BY DEF SM_END
<1>3. /\ Cardinality(S) = k /\ \A g \in S : page[g] = ram[Rank(g, S)]
      /\ S \in SUBSET Pages
  BY <1>1, Types DEF SaveInv
<1>4. S # {}
  BY <1>1, <1>3, FS_EmptySet
<1>5. \A i \in 1 .. Size[cur] : ram[i] = Chunk(cur, ram[1].ver, i)
  BY <1>1 DEF RamInv, InPlace
<1>6. First(process) = ram[1]
  BY <1>3, <1>4, FirstFacts, RankFacts DEF First
<1>7. First(process).prog = cur /\ First(process).ver = ram[1].ver
  <2>1. 1 \in 1 .. Size[cur]
    BY <1>1
  <2>2. ram[1] = Chunk(cur, ram[1].ver, 1)
    BY <1>5, <2>1
  <2> QED
    BY <1>6, <2>2 DEF Chunk
<1>8. Whole(process)
  <2>1. ASSUME NEW g \in S
        PROVE  page[g] = Chunk(First(process).prog, First(process).ver, Rank(g, S))
    BY <1>1, <1>3, <1>5, <1>7, RankFacts
  <2> QED
    BY <1>1, <1>3, <1>4, <1>7, <2>1 DEF Whole
<1>9. TypeOK'
  BY <1>2, RamFacts DEF TypeOK, PcStates
<1>10. ResidentKept' /\ DepthInv' /\ LoadInv' /\ RestoreInv' /\ SaveInv'
  BY <1>1, <1>2
  DEF ResidentKept, DepthInv, LoadInv, RestoreInv, SaveInv, Executing
<1>11. OwnerInv'
  BY <1>1, <1>2 DEF OwnerInv, Executing
<1>12. SavedInv'
  <2>1. \A n \in 1 .. process : Whole(n)
    BY <1>1, <1>8 DEF SavedInv, Executing
  <2> QED
    BY <1>2, <2>1, SameMemory DEF SavedInv, Executing
<1>13. RamInv'
  BY <1>1, <1>2, <1>6, SameMemory DEF RamInv, InPlace, Executing
<1>14. TempInv'
  BY <1>1, <1>2 DEF TempInv
<1>15. Stack' = Stack
  <2>1. Running' = Running
    BY <1>2 DEF Running, InPlace
  <2> QED
    BY <1>1, <1>2, <2>1, SameMemory DEF Stack
<1>16. StackStep
  BY <1>2, <1>15 DEF StackStep, PS!vars
<1> QED
  BY <1>9, <1>10, <1>11, <1>12, <1>13, <1>14, <1>16

(* The file is there: from now on the caller's memory is that in its pages. *)
LEMMA OpenStep ==
  ASSUME IInv, CMD_3A
  PROVE  IInv' /\ StackStep
<1> USE DEF IInv
<1>1. /\ pc = "open" /\ pc' = "load" /\ k' = 0 /\ process \in Nat
      /\ UNCHANGED <<process, owner, page, ram, cur, new, isCall, pagenum, temp,
                     oldPage, reply, discon>>
  BY Types DEF CMD_3A
<1>2. TypeOK'
  BY <1>1, RamFacts DEF TypeOK, PcStates
<1>3. LoadInv'
  BY <1>1, RamFacts DEF LoadInv, TypeOK
<1>4. ResidentKept' /\ DepthInv' /\ OwnerInv' /\ RestoreInv' /\ SaveInv' /\ TempInv'
      /\ RamInv'
  BY <1>1
  DEF ResidentKept, DepthInv, OwnerInv, RestoreInv, SaveInv, TempInv, RamInv, Executing
<1>5. SavedInv'
  BY <1>1, SameMemory DEF SavedInv, Executing
<1>6. ASSUME process > 0 PROVE Saved(process) = Running
  <2>1. Whole(process) /\ InPlace /\ First(process) = ram[1]
    BY <1>1, <1>6 DEF SavedInv, RamInv, Executing
  <2>2. 1 \in 1 .. Size[cur]
    BY RamFacts DEF TypeOK
  <2>3. ram[1] = Chunk(cur, ram[1].ver, 1)
    BY <2>1, <2>2 DEF InPlace
  <2> QED
    BY <2>1, <2>3 DEF Saved, Running, Chunk
<1>7. Stack' = Stack
  BY <1>1, <1>6, SameMemory DEF Stack
<1>8. StackStep
  BY <1>1, <1>7 DEF StackStep, PS!vars
<1> QED
  BY <1>2, <1>3, <1>4, <1>5, <1>8

(* It is not: the caller goes on, and its copy is given up.                *)
LEMMA NotFoundStep ==
  ASSUME ~StartErrors, IInv, ERROR_3
  PROVE  IInv' /\ StackStep
<1> USE DEF IInv
<1>1. /\ pc = "open" /\ process > 0 /\ process \in Nat /\ pc' = "run"
      /\ owner' = Freed(process) /\ reply' = "open" /\ k = 0
      /\ UNCHANGED <<process, page, ram, cur, new, isCall, k, pagenum, temp,
                     oldPage, discon>>
  BY Types DEF ERROR_3, TempInv
<1>2. /\ owner' \in [Pages -> 0 .. MaxDepth \cup {NumResident}]
      /\ \A g \in Pages : owner'[g] # process
      /\ \A g \in Pages : owner'[g] # owner[g] => owner'[g] = 0
      /\ \A n \in 1 .. process - 1 : Whole(n)' = Whole(n) /\ Saved(n)' = Saved(n)
      /\ ResidentKept'
  BY <1>1, FreedFacts
<1>3. TypeOK'
  BY <1>1, <1>2 DEF TypeOK, PcStates, Replies
<1>4. OwnerInv'
  <2>1. \A g \in Pages : owner[g] \in 0 .. process \cup {NumResident}
    BY <1>1 DEF OwnerInv, Executing
  <2>2. \A g \in Pages : owner'[g] \in 0 .. process - 1 \cup {NumResident}
    BY <1>1, <1>2, <2>1
  <2> QED
    BY <1>1, <2>2 DEF OwnerInv, Executing
<1>5. SavedInv'
  BY <1>1, <1>2 DEF SavedInv, Executing
<1>6. RamInv' /\ DepthInv' /\ SaveInv' /\ LoadInv' /\ RestoreInv' /\ TempInv'
  BY <1>1
  DEF RamInv, InPlace, DepthInv, SaveInv, LoadInv, RestoreInv, TempInv, Executing
<1>7. Stack' = Stack
  <2>1. Running' = Running
    BY <1>1 DEF Running, InPlace
  <2>2. \A i \in 1 .. process : Stack'[i] = Stack[i]
    BY <1>1, <1>2, <2>1 DEF Stack
  <2> QED
    BY <1>1, <1>3, <2>2, StackSteps
<1>8. StackStep
  BY <1>1, <1>7 DEF StackStep, PS!Next, PS!Refuse
<1> QED
  BY <1>2, <1>3, <1>4, <1>5, <1>6, <1>8

(* One more page of the new program is read.                               *)
LEMMA LoadStep ==
  ASSUME IInv, CMD_6
  PROVE  IInv' /\ StackStep
<1> USE DEF IInv
<1>1. /\ pc = "load" /\ pc' = "load" /\ k' = k + 1 /\ cur' = new /\ new' = new
      /\ ram' = [ram EXCEPT ![k + 1] = Chunk(new, Loaded, k + 1)]
      /\ k \in Nat /\ new \in Programs /\ Size[new] \in Nat /\ k < Size[new]
      /\ process \in Nat
      /\ UNCHANGED <<process, owner, page, isCall, pagenum, temp, oldPage, reply,
                     discon>>
  BY RamFacts, Types DEF CMD_6, TypeOK
<1>2. k + 1 \in RamPages /\ k + 1 \in 0 .. Cardinality(RamPages)
  BY <1>1, RamFacts
<1>3. TypeOK'
  <2>1. Chunk(new, Loaded, k + 1) \in Chunks
    BY <1>1, <1>2, SwapperAssumption DEF Chunk, Chunks
  <2> QED
    BY <1>1, <1>2, <2>1 DEF TypeOK, PcStates
<1>4. LoadInv'
  <2>1. \A i \in 1 .. k : ram[i] = Chunk(new, Loaded, i) /\ i \in RamPages
    BY <1>1, RamFacts DEF LoadInv
  <2>2. \A i \in 1 .. k + 1 : ram'[i] = Chunk(new, Loaded, i)
    BY <1>1, <1>2, <2>1 DEF TypeOK
  <2> QED
    BY <1>1, <2>2 DEF LoadInv
<1>5. ResidentKept' /\ DepthInv' /\ OwnerInv' /\ RestoreInv' /\ SaveInv' /\ TempInv'
      /\ RamInv'
  BY <1>1
  DEF ResidentKept, DepthInv, OwnerInv, RestoreInv, SaveInv, TempInv, RamInv, Executing
<1>6. SavedInv'
  BY <1>1, SameMemory DEF SavedInv, Executing
<1>7. Stack' = Stack
  BY <1>1, SameMemory DEF Stack
<1>8. StackStep
  BY <1>1, <1>7 DEF StackStep, PS!vars
<1> QED
  BY <1>3, <1>4, <1>5, <1>6, <1>8

(* It cannot be read: the caller is copied back.                           *)
LEMMA ReadErrorStep ==
  ASSUME ~StartErrors, IInv, ERROR_1
  PROVE  IInv' /\ StackStep
<1> USE DEF IInv
<1>1. /\ pc = "load" /\ pc' = "restore" /\ k' = 0 /\ pagenum' = 1 /\ reply' = "read"
      /\ process > 0 /\ process \in Nat
      /\ UNCHANGED <<process, owner, page, ram, cur, new, isCall, temp, oldPage,
                     discon>>
  BY Types DEF ERROR_1
<1>2. TypeOK'
  BY <1>1, RamFacts, SwapperAssumption DEF TypeOK, PcStates, Replies
<1>3. Whole(process)
  BY <1>1 DEF SavedInv, Executing
<1>4. RestoreInv'
  <2>1. First(process)' = First(process) /\ Owned(process)' = Owned(process)
    BY <1>1, SameMemory
  <2>2. Size[First(process).prog] \in Nat
    BY <1>3, FirstFacts, RamFacts DEF Whole
  <2>3. {h \in Owned(process) : h < 1} = {}
    BY PageNumbers DEF Owned
  <2> QED
    BY <1>1, <2>1, <2>2, <2>3, FS_EmptySet DEF RestoreInv
<1>5. ResidentKept' /\ DepthInv' /\ OwnerInv' /\ LoadInv' /\ SaveInv' /\ TempInv'
      /\ RamInv'
  BY <1>1
  DEF ResidentKept, DepthInv, OwnerInv, LoadInv, SaveInv, TempInv, RamInv, Executing
<1>6. SavedInv'
  BY <1>1, SameMemory DEF SavedInv, Executing
<1>7. Stack' = Stack
  BY <1>1, SameMemory DEF Stack
<1>8. StackStep
  BY <1>1, <1>7 DEF StackStep, PS!Next, PS!Refuse
<1> QED
  BY <1>2, <1>4, <1>5, <1>6, <1>8

(* It has been read: a call has a new program on top, an overlay another   *)
(* one in place of the top.                                                *)
LEMMA LoadedStep ==
  ASSUME IInv, CMD_LOADED
  PROVE  IInv' /\ StackStep
<1> USE DEF IInv
<1>1. /\ pc = "load" /\ pc' = "run" /\ k = Size[new] /\ k' = 0 /\ k > 0
      /\ process \in Nat /\ process <= MaxDepth /\ MaxDepth \in Nat
      /\ new \in Programs /\ isCall \in BOOLEAN
      /\ UNCHANGED <<page, ram, cur, new, isCall, pagenum, temp, oldPage, reply,
                     discon>>
  BY RamFacts, Types DEF CMD_LOADED, TypeOK
<1>2. cur = new /\ \A i \in 1 .. Size[cur] : ram[i] = Chunk(cur, Loaded, i)
  BY <1>1 DEF LoadInv
<1>3. InPlace' /\ Running' = [prog |-> new, ver |-> Loaded]
  <2>1. 1 \in 1 .. Size[cur]
    BY <1>1, <1>2, RamFacts
  <2>2. ram[1] = Chunk(cur, Loaded, 1)
    BY <1>2, <2>1
  <2>3. ram[1].ver = Loaded
    BY <2>2 DEF Chunk
  <2>4. InPlace'
    BY <1>1, <1>2, <2>3 DEF InPlace
  <2> QED
    BY <1>1, <1>2, <2>3, <2>4 DEF Running
<1>4. \A g \in Pages : owner[g] \in 0 .. process \cup {NumResident}
  BY <1>1 DEF OwnerInv, Executing
<1>5. \A n \in 1 .. process : Whole(n)
  BY <1>1 DEF SavedInv, Executing
<1>6. SaveInv' /\ LoadInv' /\ RestoreInv' /\ TempInv'
  BY <1>1 DEF SaveInv, LoadInv, RestoreInv, TempInv
<1>7. RamInv'
  BY <1>1, <1>3 DEF RamInv, Executing
<1>8. CASE isCall
  <2>1. process' = process + 1 /\ owner' = owner
    BY <1>8 DEF CMD_LOADED
  <2>2. TypeOK' /\ DepthInv'
    BY <1>1, <1>8, <2>1, RamFacts DEF TypeOK, DepthInv, PcStates, Executing
  <2>3. OwnerInv' /\ ResidentKept'
    BY <1>1, <1>4, <2>1 DEF OwnerInv, ResidentKept, Executing
  <2>4. SavedInv'
    BY <1>1, <1>5, <2>1, SameMemory DEF SavedInv, Executing
  <2>5. \A i \in 1 .. process : Stack'[i] = Stack[i]
    BY <1>1, <2>1, SameMemory DEF Stack
  <2>6. Stack' = Append(Stack, Stack'[process + 1])
    BY <2>1, <2>2, <2>5, StackSteps
  <2>7. Stack'[process + 1] = [prog |-> new, ver |-> Loaded]
    BY <1>1, <1>3, <2>1 DEF Stack
  <2>8. ASSUME process > 0 PROVE StackStep
    <3>1. Stack # <<>>
      BY <2>8, StackFacts
    <3>2. PS!Call
      BY <1>1, <2>6, <2>7, <3>1, SwapperAssumption DEF PS!Call, PS!Fresh
    <3> QED
      BY <3>2 DEF StackStep, PS!Next
  <2>9. ASSUME process = 0 PROVE StackStep
    <3>1. Stack = <<>> /\ new \in {Answer, Exitsys}
      BY <2>9, StackFacts DEF DepthInv
    <3>2. Stack' = <<[prog |-> new, ver |-> Loaded]>>
      BY <2>6, <2>7, <3>1
    <3>3. PS!Start
      BY <1>1, <3>1, <3>2, SwapperAssumption DEF PS!Start, PS!Fresh
    <3> QED
      BY <3>3 DEF StackStep, PS!Next
  <2> QED
    BY <1>1, <1>6, <1>7, <2>2, <2>3, <2>4, <2>8, <2>9
<1>9. CASE ~isCall
  <2>1. process' = process /\ owner' = Freed(process) /\ process > 0
    BY <1>1, <1>9 DEF CMD_LOADED, DepthInv
  <2>2. /\ owner' \in [Pages -> 0 .. MaxDepth \cup {NumResident}]
        /\ \A g \in Pages : owner'[g] # process
        /\ \A g \in Pages : owner'[g] # owner[g] => owner'[g] = 0
        /\ \A n \in 1 .. process - 1 : Whole(n)' = Whole(n) /\ Saved(n)' = Saved(n)
        /\ ResidentKept'
    BY <1>1, <2>1, FreedFacts
  <2>3. TypeOK' /\ DepthInv'
    BY <1>1, <1>9, <2>1, <2>2, RamFacts DEF TypeOK, DepthInv, PcStates, Executing
  <2>4. OwnerInv'
    <3>1. \A g \in Pages : owner'[g] \in 0 .. process - 1 \cup {NumResident}
      BY <1>1, <1>4, <2>1, <2>2
    <3> QED
      BY <1>1, <2>1, <3>1 DEF OwnerInv, Executing
  <2>5. SavedInv'
    BY <1>1, <1>5, <2>1, <2>2 DEF SavedInv, Executing
  <2>6. \A i \in 1 .. process - 1 : Stack'[i] = Stack[i]
    BY <1>1, <2>1, <2>2 DEF Stack
  <2>7. Stack' = Append(PS!Rest, Stack'[process]) /\ Stack # <<>>
    BY <2>1, <2>3, <2>6, StackSteps, StackFacts
  <2>8. Stack'[process] = [prog |-> new, ver |-> Loaded]
    BY <1>1, <1>3, <2>1 DEF Stack
  <2>9. PS!Overlay
    BY <1>1, <2>7, <2>8, SwapperAssumption DEF PS!Overlay, PS!Fresh
  <2>10. StackStep
    BY <2>9 DEF StackStep, PS!Next
  <2> QED
    BY <1>6, <1>7, <2>2, <2>3, <2>4, <2>5, <2>10
<1> QED
  BY <1>1, <1>8, <1>9

(* A program ends: its caller must come back from its pages, or, with none *)
(* left, Exitsys is called.                                                *)
LEMMA TermStep ==
  ASSUME IInv, NEW d \in BOOLEAN, TERM_PROG(d)
  PROVE  IInv' /\ StackStep
<1> USE DEF IInv
<1>1. /\ pc \in {"run", "signal"} /\ process > 0 /\ process \in Nat
      /\ process' = process - 1 /\ k' = 0 /\ reply' = "ok" /\ discon' = (discon \/ d)
      /\ pc' = IF process = 1 THEN "open" ELSE "restore"
      /\ process = 1 => new' = Exitsys /\ isCall' = TRUE /\ UNCHANGED pagenum
      /\ process # 1 => pagenum' = 1 /\ UNCHANGED <<new, isCall>>
      /\ UNCHANGED <<owner, page, ram, cur, temp, oldPage>>
  BY Types DEF TERM_PROG
<1>2. TypeOK'
  <2>1. process' \in 0 .. MaxDepth /\ k' \in 0 .. Cardinality(RamPages)
    BY <1>1, RamFacts, SwapperAssumption DEF TypeOK
  <2>2. pagenum' \in 1 .. NPages + 1
    BY <1>1, SwapperAssumption DEF TypeOK
  <2>3. new' \in Programs /\ isCall' \in BOOLEAN
    BY <1>1, SwapperAssumption DEF TypeOK
  <2>4. discon' \in BOOLEAN
    BY <1>1 DEF TypeOK
  <2> QED
    BY <1>1, <2>1, <2>2, <2>3, <2>4 DEF TypeOK, PcStates, Replies
<1>3. \A n \in 1 .. process - 1 : Whole(n)
  BY <1>1 DEF SavedInv, Executing
<1>4. RestoreInv'
  <2> SUFFICES ASSUME process # 1, NEW n \in Nat, n = process' PROVE RestoreInv'
    BY <1>1 DEF RestoreInv
  <2>1. Whole(n) /\ process' = n /\ n > 0
    BY <1>1, <1>3
  <2>2. First(n)' = First(n) /\ Owned(n)' = Owned(n)
    BY <1>1, SameMemory
  <2>3. Size[First(n).prog] \in Nat
    BY <2>1, FirstFacts, RamFacts DEF Whole
  <2>4. {h \in Owned(n) : h < 1} = {}
    BY PageNumbers DEF Owned
  <2>5. Cardinality({h \in Owned(n) : h < 1}) = 0
    BY <2>4, FS_EmptySet
  <2>6. First(process)' = First(n)' /\ Owned(process)' = Owned(n)'
    BY <2>1 DEF First, Owned
  <2> QED
    BY <1>1, <2>2, <2>3, <2>5, <2>6 DEF RestoreInv
<1>5. ResidentKept' /\ LoadInv' /\ SaveInv' /\ TempInv'
  BY <1>1 DEF ResidentKept, LoadInv, SaveInv, TempInv
<1>6. DepthInv'
  BY <1>1, SwapperAssumption DEF DepthInv, Executing
<1>7. OwnerInv' /\ RamInv'
  BY <1>1 DEF OwnerInv, RamInv, Executing
<1>8. SavedInv'
  BY <1>1, <1>3, SameMemory DEF SavedInv, Executing
<1>9. \A i \in 1 .. process' : Stack'[i] = Stack[i]
  BY <1>1, SameMemory DEF Stack
<1>10. Stack' = PS!Rest /\ Stack # <<>>
  BY <1>1, <1>2, <1>9, StackSteps, StackFacts
<1>11. StackStep
  BY <1>1, <1>10 DEF StackStep, PS!Next, PS!Return
<1> QED
  BY <1>2, <1>4, <1>5, <1>6, <1>7, <1>8, <1>11

(* The next page of the program that comes back is there, and is the next  *)
(* page of its memory.                                                     *)
LEMMA RestoreStep ==
  ASSUME IInv, RM_02
  PROVE  IInv' /\ StackStep
<1> USE DEF IInv
<1> DEFINE S == Owned(process)
           F == First(process)
           g == Min(Found)
<1>1. /\ pc = "restore"
      /\ k > 0 => k < Size[cur]
      /\ process > 0 /\ process \in Nat /\ k \in Nat /\ pagenum \in Nat
      /\ UNCHANGED <<process, owner, page, new, isCall, reply, discon>>
  BY Types, SwapperAssumption DEF RM_02, DepthInv, TypeOK
<1>2. /\ k = 0 => pagenum = 1
      /\ k > 0 => cur = F.prog
      /\ Cardinality({h \in S : h < pagenum}) = k
      /\ \A i \in 1 .. k : ram[i] = Chunk(F.prog, F.ver, i)
  BY <1>1 DEF RestoreInv
<1>3. /\ S # {} /\ S \in SUBSET Pages /\ Cardinality(S) = Size[F.prog]
      /\ \A h \in S : page[h] = Chunk(F.prog, F.ver, Rank(h, S))
      /\ F.prog \in Programs /\ Size[F.prog] \in Nat /\ Size[F.prog] > 0
  <2>1. Whole(process)
    BY <1>1 DEF SavedInv, Executing
  <2> QED
    BY <2>1, Types, FirstFacts, RamFacts DEF Whole
<1>4. k < Size[F.prog]
  BY <1>1, <1>2, <1>3
<1>5. Found = {h \in S : h >= pagenum} /\ Found \in SUBSET Pages
  BY DEF Found, Owned
<1>6. Found # {}
  <2>1. ASSUME Found = {} PROVE {h \in S : h < pagenum} = S
    BY <1>1, <1>3, <1>5, <2>1, PageNumbers
  <2> HIDE DEF S
  <2> QED
    BY <1>2, <1>3, <1>4, <2>1
<1>7. g \in Found /\ g \in S /\ g >= pagenum /\ \A h \in Found : g <= h
  BY <1>5, <1>6, PageSets, MinFacts
<1>8. /\ Rank(g, S) = k + 1
      /\ Cardinality({h \in S : h < g + 1}) = k + 1
  <2>1. \A h \in S : h >= pagenum => g <= h
    BY <1>5, <1>7
  <2> HIDE DEF S, g
  <2> QED
    BY <1>1, <1>2, <1>3, <1>7, <2>1, RankNext
<1>9. page[g] = Chunk(F.prog, F.ver, k + 1) /\ page[g].prog = F.prog
  BY <1>3, <1>7, <1>8 DEF Chunk
<1>10. page[g] # Blank
  <2>1. page[g].pos = k + 1 /\ Blank.pos = 0
    BY <1>9 DEF Chunk, Blank
  <2> QED
    BY <1>1, <2>1
<1>11. /\ ram' = [ram EXCEPT ![k + 1] = page[g]]
       /\ cur' = F.prog /\ pc' = "restore" /\ k' = k + 1 /\ pagenum' = g + 1
       /\ temp' = g /\ oldPage' = IF k = 0 THEN temp ELSE oldPage
  <2>1. IF k = 0 THEN cur' = page[g].prog ELSE cur' = cur
    BY <1>6 DEF RM_02
  <2>2. cur' = F.prog
    BY <1>1, <1>2, <1>9, <2>1
  <2> QED
    BY <1>6, <1>10, <2>2 DEF RM_02
<1>12. k + 1 \in RamPages /\ k + 1 \in 0 .. Cardinality(RamPages)
  BY <1>1, <1>3, <1>4, RamFacts
<1>13. g \in Nat /\ g > 0 /\ g <= NPages
  BY <1>3, <1>7, PageNumbers
<1>14. page[g] \in Chunks
  BY <1>3, <1>7, Types
<1> HIDE DEF g
<1>15. TypeOK'
  <2>1. ram' \in [RamPages -> Chunks]
    BY <1>11, <1>12, <1>14 DEF TypeOK
  <2>2. pagenum' \in 1 .. NPages + 1 /\ temp' \in 0 .. NPages /\ oldPage' \in 0 .. NPages
    BY <1>11, <1>13, SwapperAssumption DEF TypeOK
  <2> QED
    BY <1>1, <1>3, <1>11, <1>12, <2>1, <2>2 DEF TypeOK, PcStates
<1>16. RestoreInv'
  <2>1. First(process)' = F /\ Owned(process)' = S
    BY <1>1, SameMemory
  <2>2. \A i \in 1 .. k + 1 : ram'[i] = Chunk(F.prog, F.ver, i)
    <3>1. \A i \in 1 .. k : i \in RamPages
      <4>1. \A i \in 1 .. k : i \in 1 .. Size[F.prog]
        BY <1>1, <1>3, <1>4
      <4>2. 1 .. Size[F.prog] \subseteq RamPages
        BY <1>3, RamFacts
      <4> QED
        BY <4>1, <4>2
    <3> QED
      BY <1>1, <1>2, <1>9, <1>11, <1>12, <3>1 DEF TypeOK
  <2>3. k + 1 <= Size[F.prog] /\ k + 1 # 0
    BY <1>1, <1>3, <1>4
  <2> HIDE DEF S, F
  <2> QED
    BY <1>1, <1>8, <1>11, <2>1, <2>2, <2>3 DEF RestoreInv
<1>17. ResidentKept' /\ DepthInv' /\ OwnerInv' /\ LoadInv' /\ SaveInv' /\ RamInv'
  BY <1>1, <1>11
  DEF ResidentKept, DepthInv, OwnerInv, LoadInv, SaveInv, RamInv, Executing
<1>18. SavedInv'
  BY <1>1, <1>11, SameMemory DEF SavedInv, Executing
<1>19. TempInv'
  BY <1>1, <1>11 DEF TempInv
<1>20. Stack' = Stack
  BY <1>1, <1>11, SameMemory DEF Stack
<1>21. StackStep
  BY <1>1, <1>20 DEF StackStep, PS!vars
<1> QED
  BY <1>15, <1>16, <1>17, <1>18, <1>19, <1>21

(* All pages are back: the program area holds what the pages held.         *)
LEMMA RestoredStep ==
  ASSUME IInv, RM_END
  PROVE  IInv' /\ StackStep
<1> USE DEF IInv
<1> DEFINE F == First(process)
<1>1. /\ pc = "restore" /\ k > 0 /\ k = Size[cur] /\ process > 0 /\ process \in Nat
      /\ pc' \in {"run", "signal"} /\ k' = 0 /\ pagenum' = 1 /\ temp' = oldPage
      /\ owner' = Freed(process)
      /\ UNCHANGED <<process, page, ram, cur, new, isCall, oldPage, reply, discon>>
  BY Types DEF RM_END, DepthInv
<1>2. /\ owner' \in [Pages -> 0 .. MaxDepth \cup {NumResident}]
      /\ \A g \in Pages : owner'[g] # process
      /\ \A g \in Pages : owner'[g] # owner[g] => owner'[g] = 0
      /\ \A n \in 1 .. process - 1 : Whole(n)' = Whole(n) /\ Saved(n)' = Saved(n)
      /\ ResidentKept'
  BY <1>1, FreedFacts
<1>3. cur = F.prog /\ \A i \in 1 .. Size[cur] : ram[i] = Chunk(cur, F.ver, i)
  BY <1>1 DEF RestoreInv
<1>4. ram[1].ver = F.ver
  <2>1. 1 \in 1 .. Size[cur]
    BY RamFacts DEF TypeOK
  <2>2. ram[1] = Chunk(cur, F.ver, 1)
    BY <1>3, <2>1
  <2> QED
    BY <2>2 DEF Chunk
<1>5. InPlace' /\ Running' = [prog |-> F.prog, ver |-> F.ver]
  <2>1. InPlace'
    BY <1>1, <1>3, <1>4 DEF InPlace
  <2> QED
    BY <1>1, <1>3, <1>4, <2>1 DEF Running
<1>6. TypeOK'
  <2>1. 0 \in 0 .. Cardinality(RamPages) /\ 1 \in 1 .. NPages + 1
    BY RamFacts, SwapperAssumption
  <2> QED
    BY <1>1, <1>2, <2>1 DEF TypeOK, PcStates
<1>7. OwnerInv'
  <2>1. \A g \in Pages : owner[g] \in 0 .. process \cup {NumResident}
    BY <1>1 DEF OwnerInv, Executing
  <2>2. \A g \in Pages : owner'[g] \in 0 .. process - 1 \cup {NumResident}
    BY <1>1, <1>2, <2>1
  <2> QED
    BY <1>1, <2>2 DEF OwnerInv, Executing
<1>8. SavedInv'
  BY <1>1, <1>2 DEF SavedInv, Executing
<1>9. RamInv'
  BY <1>1, <1>5 DEF RamInv, Executing
<1>10. DepthInv' /\ SaveInv' /\ LoadInv' /\ RestoreInv' /\ TempInv'
  BY <1>1 DEF DepthInv, SaveInv, LoadInv, RestoreInv, TempInv, Executing
<1>11. Whole(process)
  BY <1>1 DEF SavedInv, Executing
<1>12. Stack' = Stack
  <2>1. Stack'[process] = Stack[process]
    BY <1>1, <1>5, <1>11 DEF Stack, Saved
  <2>2. \A i \in 1 .. process - 1 : Stack'[i] = Stack[i]
    BY <1>1, <1>2 DEF Stack
  <2>3. \A i \in 1 .. process : Stack'[i] = Stack[i]
    BY <1>1, <2>1, <2>2
  <2> QED
    BY <1>1, <1>6, <2>3, StackSteps
<1>13. StackStep
  BY <1>1, <1>12 DEF StackStep, PS!vars
<1> QED
  BY <1>2, <1>6, <1>7, <1>8, <1>9, <1>10, <1>13

(* Hanging up, and being ready again, touch no memory.                     *)
LEMMA LineStep ==
  ASSUME IInv, discon' \in BOOLEAN,
         UNCHANGED <<process, owner, page, ram, cur, pc, new, isCall, k, pagenum,
                     temp, oldPage, reply>>
  PROVE  IInv' /\ StackStep
<1>1. /\ First(process)' = First(process) /\ Owned(process)' = Owned(process)
      /\ Free' = Free
  BY SameMemory
<1>2. TypeOK' /\ ResidentKept' /\ DepthInv' /\ OwnerInv' /\ TempInv' /\ LoadInv'
  BY DEF IInv, TypeOK, ResidentKept, DepthInv, OwnerInv, TempInv, LoadInv
<1>3. RamInv' /\ SaveInv' /\ RestoreInv'
  BY <1>1 DEF IInv, RamInv, InPlace, SaveInv, RestoreInv
<1>4. SavedInv'
  BY SameMemory DEF IInv, SavedInv
<1>5. Stack' = Stack
  BY SameMemory DEF Stack, Running, InPlace
<1> QED
  BY <1>2, <1>3, <1>4, <1>5 DEF IInv, StackStep, PS!vars

-----------------------------------------------------------------------------
LEMMA Stepwise ==
  ASSUME ~StartErrors, IInv, [Next]_vars
  PROVE  IInv' /\ StackStep
<1>1. CASE Program
  <2>1. ASSUME NEW v \in Versions, Work(v) PROVE IInv' /\ StackStep
    BY <2>1, WorkStep
  <2>2. ASSUME NEW p \in Programs, NEW call \in BOOLEAN, PUSH_PROG(p, call)
        PROVE  IInv' /\ StackStep
    BY <2>2, PushStep
  <2>3. ASSUME NEW d \in BOOLEAN, TERM_PROG(d) PROVE IInv' /\ StackStep
    BY <2>3, TermStep
  <2>4. CASE ANS_01
    BY <2>4, LineStep DEF ANS_01
  <2> QED
    BY <1>1, <2>1, <2>2, <2>3, <2>4 DEF Program
<1>2. CASE Swapping
  <2>1. CASE SM_02
    BY <2>1, SaveStep
  <2>2. CASE SM_END
    BY <2>2, SavedStep
  <2>3. CASE CMD_3A
    BY <2>3, OpenStep
  <2>4. CASE ERROR_3
    BY <2>4, NotFoundStep
  <2>5. CASE CMD_6
    BY <2>5, LoadStep
  <2>6. CASE ERROR_1
    BY <2>6, ReadErrorStep
  <2>7. CASE CMD_LOADED
    BY <2>7, LoadedStep
  <2>8. CASE RM_02
    BY <2>8, RestoreStep
  <2>9. CASE RM_END
    BY <2>9, RestoredStep
  <2> QED
    BY <1>2, <2>1, <2>2, <2>3, <2>4, <2>5, <2>6, <2>7, <2>8, <2>9 DEF Swapping
<1>3. CASE LOST_CARRIER
  BY <1>3, LineStep DEF LOST_CARRIER
<1>4. CASE UNCHANGED vars
  <2>1. discon' \in BOOLEAN
    BY <1>4 DEF vars, IInv, TypeOK
  <2> QED
    BY <1>4, <2>1, LineStep DEF vars
<1> QED
  BY <1>1, <1>2, <1>3, <1>4 DEF Next

LEMMA Invariance ==
  ASSUME ~StartErrors
  PROVE  Spec => []IInv
<1>1. Init => IInv
  BY Initially
<1>2. IInv /\ [Next]_vars => IInv'
  BY Stepwise
<1> QED
  BY <1>1, <1>2, PTL DEF Spec

(* Whatever is called, replaced and ended in whatever order, and whatever  *)
(* cannot be loaded or saved: a page that was counted can be had, the      *)
(* pages of a program that must come back are there, nothing leaks, the    *)
(* resident modules keep their pages, and TEMP_RAM is as it was.           *)
THEOREM MemoryStaysSound ==
  ASSUME ~StartErrors
  PROVE  Spec => []MemorySound
<1>1. IInv => MemorySound
  <2> SUFFICES ASSUME IInv PROVE MemorySound
    OBVIOUS
  <2>1. TypeOK /\ ResidentKept /\ NeverFatal
    BY DEF IInv, DepthInv, NeverFatal
  <2>2. NoLeak
    BY DEF IInv, OwnerInv, NoLeak, Executing
  <2>3. TempHome
    BY DEF IInv, TempInv, TempHome
  <2> QED
    BY <2>1, <2>2, <2>3 DEF MemorySound
<1> QED
  BY <1>1, Invariance, PTL

(* What programs see of the swapper is the stack of ProcStack: each finds  *)
(* its memory as it left it, whoever ran in between.                       *)
THEOREM SwapperIsStack ==
  ASSUME ~StartErrors
  PROVE  Spec => ImplementsStack
<1>1. Init => PS!Init
  BY Initially
<1>2. IInv /\ [Next]_vars => [PS!Next]_(PS!vars)
  BY Stepwise DEF StackStep
<1> QED
  BY <1>1, <1>2, Invariance, PTL DEF Spec, PS!Spec, ImplementsStack
=============================================================================
