-------------------------- MODULE BuildSystemProofs --------------------------
(***************************************************************************)
(* Proofs about the build system, for any projects, any edits while it     *)
(* runs and any runs that fail: what a run says is built is made of the    *)
(* sources there were when it began or later, and the recursion ends       *)
(* unless directories or files need one another in a circle.               *)
(***************************************************************************)
EXTENDS BuildSystem, FiniteSetTheorems, SequenceTheorems, TLAPS

-----------------------------------------------------------------------------
(* The inductive invariant.                                                *)

Names    == STRING \cup {""}
Files    == Names \X Names
CallNames == {"dirs", "all", "file", "depends"}
Frames   == [call : CallNames, what : Files \cup Names, todo : Seq(Files \cup Names)]
Versions == project.sources \X (Nat \ {0})
FileTypes ==
  /\ project \in Projects
  /\ src \in [project.sources -> [ver : Nat \ {0}, mtime : Nat]]
  /\ built \in [DOMAIN built -> [from : SUBSET Versions, mtime : Nat]]
  /\ DOMAIN built \subseteq AllFiles
  /\ fileTime \in Nat /\ begun \in Nat /\ begun <= fileTime
  /\ \A f \in project.sources : src[f].mtime < fileTime
  /\ \A f \in DOMAIN built :
       built[f].mtime < fileTime /\ \A v \in built[f].from : v[2] <= src[v[1]].ver
StackTypes ==
  /\ stack \in Seq(Frames) /\ Len(stack) <= RecursionLimit
  /\ outcome \in {"none", "ok", "failed", "norule", "nocopy", "recursion"}

\* A file is skipped, or built by a rule, from files of its directory among others.
Skipped(f) == f \in DOMAIN project.rules \ DOMAIN src /\ project.rules[f].kind = "skip"
Ruled(f) == f \in DOMAIN project.rules \ DOMAIN src /\ project.rules[f].kind # "skip"
Local(f) == {Here(DirOf(f), p) : p \in {q \in Range(depends(f)) : q[1] = ""}}

\* A file is made of every source as it was when the run began or later.
Current(f) ==
  /\ f \in DOMAIN built
  /\ \A s \in Sources(f) :
       \E v \in built[f].from : v[1] = s /\ (src[s].mtime < begun => v[2] = src[s].ver)
Made(f) == Current(f) \/ Skipped(f)
Done(f) == Made(f) /\ (Ruled(f) => \A g \in Local(f) : Made(g))

\* A copy that is not older than its source is a copy of what the source is now.
CopiesTrue ==
  \A f \in DOMAIN built :
    f \in DOMAIN src /\ src[f].mtime <= built[f].mtime => built[f].from = Version(f)

\* What is there has a rule, or a file with a rule in its directory needs it.
Called(f) ==
  \/ f \in DOMAIN project.rules
  \/ \E g \in DOMAIN project.rules : Ruled(g) /\ DirOf(g) = DirOf(f) /\ f \in Local(g)
BuiltCalled == \A f \in DOMAIN built : Called(f) /\ ~ Skipped(f)

\* The directories that are built are.
DirsDone == \A d \in is_built : \A f \in Range(Rules(d)) : Done(f)

\* A call of a directory, at place i, and one of a file in directory d, with what they have
\* left to do.
FitsDir(i, c) ==
  /\ c.what \in Names
  /\ \/ c.call = "dirs" /\ c.todo \in Seq(IF i = 1 THEN {project.goal} ELSE dependency_dirs(c.what))
     \/ c.call = "all" /\ i > 1 /\ c.todo \in Seq(Range(Rules(c.what)))
FitsFile(d, c) ==
  /\ c.what \in Files /\ DirOf(c.what) = d
  /\ \/ c.call = "file" /\ Called(c.what)
     \/ c.call = "depends" /\ Ruled(c.what) /\ c.todo \in Seq(Range(depends(c.what)))

\* What a call asks for is what it needs.
Linked(i, c, x) ==
  /\ i > 1 /\ c.call = "dirs" => x \in dependency_dirs(c.what)
  /\ c.call = "all" => x \in Range(Rules(c.what))
  /\ c.call = "depends" => x \in Local(c.what)

\* A call has done all that it neither has left to do nor is doing, which are xs.
SoFar(i, c, xs) ==
  /\ i > 1 /\ c.call = "dirs" =>
       \A d \in dependency_dirs(c.what) : d \in is_built \/ d \in Range(c.todo) \cup xs
  /\ c.call = "all" =>
       /\ dependency_dirs(c.what) \subseteq is_built
       /\ \A f \in Range(Rules(c.what)) : Done(f) \/ f \in Range(c.todo) \cup xs
  /\ c.call = "depends" =>
       \A p \in Range(depends(c.what)) : p[1] = "" =>
         LET g == Here(DirOf(c.what), p) IN Made(g) \/ p \in Range(c.todo) \/ g \in xs
InIt(i) == IF i < Len(stack) THEN {stack[i + 1].what} ELSE {}

\* The calls of directories, up to the k-th; then those of files of that directory.
Calling(k) ==
  /\ k \in 1 .. Len(stack)
  /\ \A i \in 1 .. k : FitsDir(i, stack[i]) /\ (i < k => stack[i].call = "dirs")
  /\ k < Len(stack) => stack[k].call = "all"
  /\ \A i \in k + 1 .. Len(stack) : FitsFile(stack[k].what, stack[i])
  /\ \A i \in 1 .. Len(stack) - 1 :
       Linked(i, stack[i], stack[i + 1].what) /\ (i > k => stack[i].call = "depends")
  /\ \A i \in 1 .. Len(stack) : SoFar(i, stack[i], InIt(i))

FilesInv == FileTypes /\ CopiesTrue /\ BuiltCalled
CallsInv == StackTypes /\ (stack # <<>> => \E k \in 1 .. Len(stack) : Calling(k))
BuildInv == FilesInv /\ CallsInv /\ DirsDone /\ NoCircle

-----------------------------------------------------------------------------
(* Sequences and finite sets.                                              *)

LEMMA RangeFacts ==
  ASSUME NEW S, NEW s \in Seq(S)
  PROVE  /\ Range(s) = {s[i] : i \in 1 .. Len(s)}
         /\ Range(s) \subseteq S
         /\ s \in Seq(Range(s))
         /\ Len(s) \in Nat /\ DOMAIN s = 1 .. Len(s)
         /\ s = <<>> => Range(s) = {}
BY DEF Range

\* What a sequence has is its first and what its tail has.
LEMMA TailFacts ==
  ASSUME NEW S, NEW s \in Seq(S), s # <<>>
  PROVE  /\ Head(s) \in Range(s) /\ Tail(s) \in Seq(S)
         /\ Range(s) = {Head(s)} \cup Range(Tail(s))
<1>1. /\ Len(s) \in Nat \ {0} /\ Head(s) = s[1] /\ Tail(s) \in Seq(S)
      /\ Len(Tail(s)) = Len(s) - 1
      /\ \A i \in 1 .. Len(s) - 1 : Tail(s)[i] = s[i + 1]
  BY HeadTailProperties
<1>2. Range(s) = {s[i] : i \in 1 .. Len(s)} /\ Range(Tail(s)) = {Tail(s)[i] : i \in 1 .. Len(Tail(s))}
  BY <1>1, RangeFacts
<1>3. ASSUME NEW x \in Range(s) PROVE x = Head(s) \/ x \in Range(Tail(s))
  <2>1. PICK i \in 1 .. Len(s) : x = s[i]
    BY <1>2
  <2>2. CASE i = 1
    BY <2>1, <2>2, <1>1
  <2>3. CASE i # 1
    <3>1. i - 1 \in 1 .. Len(s) - 1 /\ (i - 1) + 1 = i
      BY <2>3, <1>1
    <3> QED
      BY <3>1, <2>1, <1>1, <1>2
  <2> QED
    BY <2>2, <2>3
<1>4. ASSUME NEW i \in 1 .. Len(Tail(s)) PROVE Tail(s)[i] \in Range(s)
  BY <1>1, <1>2
<1> QED
  BY <1>1, <1>2, <1>3, <1>4

\* What the last of a sequence, all but the last, and one that replaces it are.
LEMMA LastFacts ==
  ASSUME NEW S, NEW s \in Seq(S), s # <<>>, NEW x \in S
  PROVE  /\ Len(s) \in Nat \ {0} /\ DOMAIN s = 1 .. Len(s)
         /\ Last(s) = s[Len(s)] /\ Last(s) \in S
         /\ Front(s) \in Seq(S) /\ Len(Front(s)) = Len(s) - 1
         /\ \A i \in 1 .. Len(s) - 1 : Front(s)[i] = s[i]
         /\ Append(Front(s), x) \in Seq(S) /\ Len(Append(Front(s), x)) = Len(s)
         /\ \A i \in 1 .. Len(s) : Append(Front(s), x)[i] = IF i < Len(s) THEN s[i] ELSE x
<1>1. Len(s) \in Nat \ {0} /\ \A i \in 1 .. Len(s) : s[i] \in S
  OBVIOUS
<1>2. /\ Front(s) \in Seq(S) /\ Len(Front(s)) = Len(s) - 1
      /\ \A i \in 1 .. Len(s) - 1 : Front(s)[i] = s[i]
  <2> DEFINE m == Len(s) - 1
  <2>1. m \in Nat /\ \A i \in 1 .. m : s[i] \in S
    BY <1>1
  <2>2. Front(s) = SubSeq(s, 1, m)
    BY DEF Front
  <2> HIDE DEF m
  <2>3. /\ SubSeq(s, 1, m) \in Seq(S) /\ Len(SubSeq(s, 1, m)) = IF 1 <= m THEN m - 1 + 1 ELSE 0
        /\ \A i \in 1 .. m - 1 + 1 : SubSeq(s, 1, m)[i] = s[1 + i - 1]
    BY <2>1, SubSeqProperties
  <2>4. Len(SubSeq(s, 1, m)) = m /\ \A i \in 1 .. m : SubSeq(s, 1, m)[i] = s[i]
    BY <2>1, <2>3
  <2>5. m = Len(s) - 1
    BY DEF m
  <2> QED
    BY <2>2, <2>3, <2>4, <2>5
<1>3. Last(s) = s[Len(s)]
  BY DEF Last
<1> DEFINE u == Append(Front(s), x)
<1>4. /\ u \in Seq(S) /\ Len(u) = Len(s)
      /\ \A i \in 1 .. Len(s) : u[i] = IF i < Len(s) THEN s[i] ELSE x
  BY <1>1, <1>2, AppendProperties
<1>7. DOMAIN s = 1 .. Len(s) /\ s[Len(s)] \in S
  BY <1>1
<1> QED
  BY <1>1, <1>2, <1>3, <1>4, <1>7 DEF u

\* A sequence has finitely many.
LEMMA FiniteRange ==
  ASSUME NEW S, NEW s \in Seq(S)
  PROVE  IsFiniteSet(Range(s))
<1>1. Len(s) \in Nat /\ IsFiniteSet(1 .. Len(s))
  BY FS_Interval
<1>2. s \in Surjection(1 .. Len(s), Range(s))
  BY RangeFacts DEF Surjection, Range
<1> QED
  BY <1>1, <1>2, FS_Surjection

\* A set as a sequence: it has all of the set.
LEMMA SetToSeqsFacts ==
  ASSUME NEW S, IsFiniteSet(S), NEW s \in SetToSeqs(S)
  PROVE  s \in Seq(S) /\ Range(s) = S
<1> DEFINE n == Cardinality(S)
<1>1. n \in Nat /\ IsFiniteSet(1 .. n) /\ Cardinality(1 .. n) = n
  BY FS_CardinalityType, FS_Interval
<1>2. s \in [1 .. n -> S] /\ \A i, j \in 1 .. n : i # j => s[i] # s[j]
  BY DEF SetToSeqs
<1>3. s \in Injection(1 .. n, S)
  BY <1>2 DEF Injection, IsInjective
<1> HIDE DEF n
<1>4. s \in Surjection(1 .. n, S)
  BY <1>1, <1>3, FS_Injection DEF n
<1>5. Range(s) = S
  BY <1>2, <1>4 DEF Surjection, Range
<1> QED
  BY <1>1, <1>2, <1>5

-----------------------------------------------------------------------------
(* Projects, rules and what they need.                                     *)

LEMMA ProjectFacts ==
  ASSUME NEW p \in Projects
  PROVE  /\ p.sources \subseteq Files /\ p.goal \in Names
         /\ IsFiniteSet(DOMAIN p.rules) /\ DOMAIN p.rules \subseteq Files
         /\ DOMAIN p.order = RuleDirs(p)
         /\ \A d \in RuleDirs(p) : p.order[d] \in Seq(RulesIn(p, d)) /\ Range(p.order[d]) = RulesIn(p, d)
         /\ \A f \in DOMAIN p.rules :
              /\ p.rules[f].kind \in STRING /\ p.rules[f].depends \in Seq(Files)
              /\ p.rules[f].copy \in Seq(Files)
<1>1. STRING \X STRING \subseteq Files /\ p.goal \in Names
  BY BuildAssumption DEF Files, Names
<1>2. ASSUME NEW s \in Seq(STRING \X STRING) PROVE s \in Seq(Files)
  BY <1>1
<1> QED
  BY <1>1, <1>2, BuildAssumption

\* What is built in a directory: each of its rules.
LEMMA RulesFacts ==
  ASSUME project \in Projects, NEW d
  PROVE  /\ Rules(d) \in Seq(Files)
         /\ Range(Rules(d)) = {f \in DOMAIN project.rules : DirOf(f) = d}
<1>1. CASE d \in RuleDirs(project)
  <2>1. Rules(d) \in Seq(RulesIn(project, d)) /\ Range(Rules(d)) = RulesIn(project, d)
    BY <1>1, ProjectFacts DEF Rules
  <2>2. RulesIn(project, d) = {f \in DOMAIN project.rules : DirOf(f) = d}
    BY DEF RulesIn, DirOf
  <2>3. RulesIn(project, d) \subseteq Files
    BY <2>2, ProjectFacts
  <2>4. Rules(d) \in Seq(Files)
    BY <2>1, <2>3
  <2> QED
    BY <2>1, <2>2, <2>4
<1>2. CASE d \notin RuleDirs(project)
  <2>1. Rules(d) = <<>>
    BY <1>2, ProjectFacts DEF Rules
  <2>2. Range(Rules(d)) = {}
    BY <2>1, RangeFacts, <<>> \in Seq(Files)
  <2>3. \A f \in DOMAIN project.rules : DirOf(f) # d
    BY <1>2 DEF RuleDirs, DirOf
  <2> QED
    BY <2>1, <2>2, <2>3
<1> QED
  BY <1>1, <1>2

LEMMA HereFacts ==
  ASSUME NEW d \in Names, NEW p \in Files
  PROVE  /\ Here(d, p) \in Files /\ p[1] \in Names /\ DirOf(p) = p[1] /\ DirOf(p) \in Names
         /\ p[1] = "" => DirOf(Here(d, p)) = d
         /\ p[1] # "" => Here(d, p) = p
BY DEF Here, Files, DirOf

\* The dependencies of a rule: names of its directory for those in it.
LEMMA DependsFacts ==
  ASSUME project \in Projects, NEW f \in DOMAIN project.rules
  PROVE  /\ depends(f) \in Seq(Files) /\ Range(depends(f)) \subseteq Files
         /\ \A q \in Range(project.rules[f].depends) :
              \E p \in Range(depends(f)) : Here(DirOf(f), p) = Here(DirOf(f), q)
         /\ \A p \in Range(depends(f)) :
              \E q \in Range(project.rules[f].depends) :
                /\ Here(DirOf(f), p) = Here(DirOf(f), q)
                /\ p[1] = "" \/ (q[1] = p[1] /\ q[1] # DirOf(f))
                /\ q[1] \in {"", DirOf(f)} => p[1] = ""
<1> DEFINE ds == project.rules[f].depends
           to(q) == IF q[1] = DirOf(f) THEN <<"", q[2]>> ELSE q
<1>1. ds \in Seq(Files) /\ f \in Files /\ DirOf(f) \in Names
  BY ProjectFacts, HereFacts
<1>2. depends(f) = [i \in DOMAIN ds |-> to(ds[i])]
  BY DEF depends
<1>3. \A q \in Files :
        /\ to(q) \in Files
        /\ Here(DirOf(f), to(q)) = Here(DirOf(f), q)
        /\ to(q)[1] = "" \/ (q[1] = to(q)[1] /\ q[1] # DirOf(f))
        /\ q[1] \in {"", DirOf(f)} => to(q)[1] = ""
  <2> TAKE q \in Files
  <2>1. q[1] \in Names /\ q[2] \in Names /\ q = <<q[1], q[2]>>
    BY DEF Files
  <2>2. CASE q[1] = DirOf(f)
    <3>1. to(q) = <<"", q[2]>> /\ to(q)[1] = "" /\ to(q)[2] = q[2] /\ to(q) \in Files
      BY <2>1, <2>2 DEF Files, Names
    <3> QED
      BY <2>1, <2>2, <3>1 DEF Here
  <2>3. CASE q[1] # DirOf(f)
    BY <2>3
  <2> QED
    BY <2>2, <2>3
<1> HIDE DEF to, ds
<1>4. Len(ds) \in Nat /\ DOMAIN ds = 1 .. Len(ds) /\ \A i \in 1 .. Len(ds) : ds[i] \in Files
  BY <1>1
<1>5. depends(f) \in Seq(Files) /\ DOMAIN depends(f) = 1 .. Len(ds)
  <2>1. depends(f) = [i \in 1 .. Len(ds) |-> to(ds[i])]
    BY <1>2, <1>4
  <2>2. \A i \in 1 .. Len(ds) : to(ds[i]) \in Files
    BY <1>3, <1>4
  <2>3. depends(f) \in [1 .. Len(ds) -> Files]
    BY <2>1, <2>2
  <2> QED
    BY <2>3, <1>4
<1>6. ASSUME NEW q \in Range(ds) PROVE \E p \in Range(depends(f)) : p = to(q)
  <2>1. PICK i \in 1 .. Len(ds) : q = ds[i]
    BY <1>4 DEF Range
  <2>2. depends(f)[i] = to(q) /\ i \in DOMAIN depends(f)
    BY <2>1, <1>2, <1>4, <1>5
  <2> QED
    BY <2>2 DEF Range
<1>7. ASSUME NEW p \in Range(depends(f)) PROVE \E q \in Range(ds) : p = to(q)
  <2>1. PICK i \in 1 .. Len(ds) : p = depends(f)[i]
    BY <1>5 DEF Range
  <2>2. p = to(ds[i])
    BY <2>1, <1>2, <1>4
  <2> QED
    BY <2>2, <1>4 DEF Range
<1>8. Range(ds) \subseteq Files /\ Range(depends(f)) \subseteq Files
  BY <1>1, <1>5, RangeFacts
<1> QED
  BY <1>3, <1>5, <1>6, <1>7, <1>8 DEF ds

\* A file that is built is made of copies and of what its rule reads.
LEMMA InputsFacts ==
  ASSUME project \in Projects, NEW f \in DOMAIN project.rules, NEW g \in Inputs(f)
  PROVE  g \in Copied(f) \cup Read(f)
<1>1. CASE g \in Range(project.rules[f].copy)
  BY <1>1 DEF Copied
<1>2. CASE g \notin Range(project.rules[f].copy)
  <2>1. PICK q \in Range(project.rules[f].depends) : g = Here(DirOf(f), q)
    BY <1>2 DEF Inputs
  <2>2. PICK p \in Range(depends(f)) : g = Here(DirOf(f), p)
    BY <2>1, DependsFacts
  <2> QED
    BY <2>2 DEF Read
<1> QED
  BY <1>1, <1>2

\* The directories that a directory needs: finitely many, and others than itself.
LEMMA NeededFacts ==
  ASSUME project \in Projects, NEW d
  PROVE  /\ IsFiniteSet(dependency_dirs(d)) /\ dependency_dirs(d) \subseteq Names
         /\ dependency_dirs(d) \subseteq Needs(d)
         /\ dependency_dirs(d) # {} => d \in RuleDirs(project)
<1> DEFINE fs == Range(Rules(d))
<1>1. fs = {f \in DOMAIN project.rules : DirOf(f) = d} /\ IsFiniteSet(fs)
  BY RulesFacts, FiniteRange
<1> HIDE DEF fs
<1> DEFINE RangeOf == [f \in fs |-> Range(depends(f))]
           all == UNION Range(RangeOf)
<1>2. IsFiniteSet(Range(RangeOf)) /\ \A r \in Range(RangeOf) : IsFiniteSet(r)
  <2>1. RangeOf \in Surjection(fs, Range(RangeOf))
    BY DEF Surjection, Range
  <2>2. IsFiniteSet(Range(RangeOf))
    BY <2>1, <1>1, FS_Surjection
  <2>3. ASSUME NEW r \in Range(RangeOf) PROVE IsFiniteSet(r)
    <3>1. PICK f \in fs : r = Range(depends(f))
      BY DEF Range
    <3> QED
      BY <3>1, <1>1, DependsFacts, FiniteRange
  <2> QED
    BY <2>2, <2>3
<1>3. IsFiniteSet(all) /\ all = UNION {Range(depends(f)) : f \in fs}
  <2>1. Range(RangeOf) = {Range(depends(f)) : f \in fs}
    BY DEF Range
  <2> HIDE DEF RangeOf
  <2> QED
    BY <1>2, <2>1, FS_UNION
<1> HIDE DEF all, RangeOf
<1> DEFINE dirOf == [p \in all |-> p[1]]
<1>4. IsFiniteSet(Range(dirOf)) /\ Range(dirOf) = {p[1] : p \in all}
  <2>1. dirOf \in Surjection(all, Range(dirOf))
    BY DEF Surjection, Range
  <2> QED
    BY <2>1, <1>3, FS_Surjection DEF Range
<1>5. dependency_dirs(d) = {p[1] : p \in all} \ {""}
  BY <1>3 DEF dependency_dirs, fs
<1>6. IsFiniteSet(dependency_dirs(d))
  <2>1. dependency_dirs(d) \in SUBSET {p[1] : p \in all}
    BY <1>5
  <2> QED
    BY <2>1, <1>4, FS_Subset
<1>7. ASSUME NEW e \in dependency_dirs(d)
      PROVE  e \in Names /\ e \in Needs(d) /\ d \in RuleDirs(project)
  <2>1. PICK p \in all : e = p[1]
    BY <1>5, <1>7
  <2>2. PICK f \in fs : p \in Range(depends(f))
    BY <1>3
  <2>3. PICK q \in Range(project.rules[f].depends) :
          p[1] = "" \/ (q[1] = p[1] /\ q[1] # DirOf(f))
    BY <2>2, <1>1, DependsFacts
  <2>4. e # ""
    BY <1>5, <1>7
  <2>5. q[1] = e /\ e # d /\ q \in Files /\ f \in Files
    <3>1. f \in Files /\ DirOf(f) = d /\ project.rules[f].depends \in Seq(Files)
      BY <2>2, <1>1, ProjectFacts
    <3>2. q \in Files
      BY <3>1, RangeFacts
    <3> QED
      BY <2>1, <2>3, <2>4, <3>1, <3>2
  <2>6. q \in UNION {Range(project.rules[g].depends) : g \in Range(Rules(d))}
    BY <2>2 DEF fs
  <2>7. e \in Needs(d)
    BY <2>4, <2>5, <2>6 DEF Needs
  <2>8. d = f[1] /\ f \in DOMAIN project.rules
    BY <1>1 DEF DirOf
  <2>9. d \in RuleDirs(project)
    BY <2>8 DEF RuleDirs
  <2>10. e \in Names
    BY <2>5 DEF Files
  <2> QED
    BY <2>7, <2>9, <2>10
<1> QED
  BY <1>6, <1>7

-----------------------------------------------------------------------------
(* What files are made of.                                                 *)

LEMMA SourceOfItself ==
  ASSUME NEW f \in DOMAIN src
  PROVE  Sources(f) \subseteq {f}
<1>1. {f} \in SUBSET AllFiles /\ WithInputs({f})
  BY DEF AllFiles, WithInputs
<1> QED
  BY <1>1 DEF Sources

\* A file that is built has the sources of what it is made of: what has a set of files
\* with all that they are made of, but without s, is in one such set.
LEMMA SourcesByRule ==
  ASSUME NEW f \in DOMAIN project.rules \ DOMAIN src, NEW s \in Sources(f)
  PROVE  \E g \in Inputs(f) \cap AllFiles : s \in Sources(g)
<1> SUFFICES ASSUME \A g \in Inputs(f) \cap AllFiles : s \notin Sources(g)
             PROVE  FALSE
  OBVIOUS
<1> DEFINE without == {fs \in SUBSET AllFiles : WithInputs(fs) /\ s \notin fs}
           all == {f} \cup UNION without
<1>1. s \in DOMAIN src /\ \A fs \in SUBSET AllFiles : f \in fs /\ WithInputs(fs) => s \in fs
  BY DEF Sources
<1>2. \A g \in Inputs(f) \cap AllFiles : g \in UNION without
  BY <1>1 DEF Sources
<1>3. all \in SUBSET AllFiles /\ f \in all
  BY DEF AllFiles
<1>4. WithInputs(all)
  <2>1. SUFFICES ASSUME NEW g \in all \ DOMAIN src, NEW h \in Inputs(g) \cap AllFiles
                 PROVE  h \in all
    BY DEF WithInputs
  <2>2. CASE g = f
    BY <1>2, <2>2
  <2>3. CASE g # f
    <3>1. PICK fs \in without : g \in fs
      BY <2>3
    <3>2. h \in fs
      BY <3>1 DEF WithInputs
    <3> QED
      BY <3>1, <3>2
  <2> QED
    BY <2>2, <2>3
<1>5. s \notin all
  BY <1>1
<1> QED
  BY <1>1, <1>3, <1>4, <1>5

\* Sources are those of the project, whatever versions there are.
LEMMA SameSources ==
  ASSUME project' = project, DOMAIN src' = DOMAIN src
  PROVE  \A f : Sources(f)' = Sources(f)
BY DEF Sources, WithInputs, AllFiles, Inputs, Here, DirOf

LEMMA Unmade ==
  ASSUME project' = project, DOMAIN src' = DOMAIN src
  PROVE  \A f : /\ Skipped(f)' = Skipped(f) /\ Ruled(f)' = Ruled(f)
                /\ Local(f)' = Local(f) /\ depends(f)' = depends(f) /\ Called(f)' = Called(f)
                /\ Rules(f)' = Rules(f) /\ dependency_dirs(f)' = dependency_dirs(f)
<1>1. \A f : Skipped(f)' = Skipped(f)
  BY DEF Skipped
<1>2. \A f : Ruled(f)' = Ruled(f)
  BY DEF Ruled
<1>3. \A f : depends(f)' = depends(f)
  BY DEF depends
<1>4. \A f : Local(f)' = Local(f)
  BY <1>3 DEF Local, Here, DirOf
<1>5. \A f : Rules(f)' = Rules(f)
  BY DEF Rules
<1>6. \A f : dependency_dirs(f)' = dependency_dirs(f)
  BY <1>3, <1>5 DEF dependency_dirs
<1>7. \A f : Called(f)' = Called(f)
  BY <1>2, <1>4 DEF Called, DirOf
<1> QED
  BY <1>1, <1>2, <1>3, <1>4, <1>5, <1>6, <1>7

-----------------------------------------------------------------------------
(* What a step makes stays made.                                           *)

Stays ==
  /\ project' = project /\ DOMAIN src' = DOMAIN src
  /\ \A f : Made(f) => Made(f)'

LEMMA DoneStays ==
  ASSUME Stays
  PROVE  \A f : Done(f) => Done(f)'
<1>1. \A f : Ruled(f)' = Ruled(f) /\ Local(f)' = Local(f)
  BY Unmade DEF Stays
<1> QED
  BY <1>1 DEF Stays, Done

\* A file that is put there and has current versions of its sources is made, and others
\* are not changed.
LEMMA PutStays ==
  ASSUME FileTypes, UNCHANGED <<project, src, begun>>, NEW f, NEW from, Put(f, from),
         \A s \in Sources(f) :
           \E v \in from : v[1] = s /\ (src[s].mtime < begun => v[2] = src[s].ver)
  PROVE  Stays /\ Made(f)'
<1>1. \A g : Sources(g)' = Sources(g) /\ Skipped(g)' = Skipped(g)
  BY SameSources, Unmade
<1>2. /\ DOMAIN built' = DOMAIN built \cup {f} /\ built'[f].from = from
      /\ \A g \in DOMAIN built : g # f => built'[g] = built[g]
  BY DEF Put
<1>3. Current(f)'
  BY <1>1, <1>2 DEF Current
<1>4. ASSUME NEW g, Current(g) PROVE Current(g)'
  <2>1. CASE g = f
    BY <1>3, <2>1
  <2>2. CASE g # f
    BY <1>1, <1>2, <1>4, <2>2 DEF Current
  <2> QED
    BY <2>1, <2>2
<1> QED
  BY <1>1, <1>3, <1>4 DEF Stays, Made

LEMMA SameStays ==
  ASSUME UNCHANGED <<project, src, built, begun>>
  PROVE  Stays
<1>1. \A g : Sources(g)' = Sources(g) /\ Skipped(g)' = Skipped(g)
  BY SameSources, Unmade
<1>2. \A g : Current(g)' = Current(g)
  BY <1>1 DEF Current
<1> QED
  BY <1>1, <1>2 DEF Stays, Made

\* An edit is no earlier than the run's beginning.
LEMMA EditStays ==
  ASSUME FileTypes, Edit
  PROVE  Stays
<1>1. PICK e \in DOMAIN src : src' = [src EXCEPT ![e] = [ver |-> @.ver + 1, mtime |-> fileTime]]
  BY DEF Edit
<1>2. UNCHANGED <<project, built, begun>> /\ DOMAIN src' = DOMAIN src /\ begun <= fileTime
  BY <1>1 DEF Edit, FileTypes
<1>3. \A g : Sources(g)' = Sources(g) /\ Skipped(g)' = Skipped(g)
  BY <1>2, SameSources, Unmade
<1>4. \A s \in DOMAIN src : s = e \/ src'[s] = src[s]
  BY <1>1
<1>5. ~ (src'[e].mtime < begun)
  <2>1. src'[e].mtime = fileTime
    BY <1>1
  <2> QED
    BY <2>1 DEF FileTypes
<1>6. \A g : Sources(g) \subseteq DOMAIN src
  BY DEF Sources
<1>7. ASSUME NEW g, Current(g) PROVE Current(g)'
  <2>1. g \in DOMAIN built'
    BY <1>2, <1>7 DEF Current
  <2>2. ASSUME NEW s \in Sources(g)
        PROVE  \E v \in built'[g].from : v[1] = s /\ (src'[s].mtime < begun => v[2] = src'[s].ver)
    <3>1. PICK v \in built[g].from : v[1] = s /\ (src[s].mtime < begun => v[2] = src[s].ver)
      BY <1>7 DEF Current
    <3> QED
      BY <1>2, <1>4, <1>5, <1>6, <3>1
  <2> QED
    BY <1>2, <1>3, <2>1, <2>2 DEF Current
<1> QED
  BY <1>2, <1>3, <1>7 DEF Stays, Made

-----------------------------------------------------------------------------
(* Copies and builds make files of what sources are.                       *)

LEMMA VersionFacts ==
  ASSUME FileTypes, NEW f \in DOMAIN src
  PROVE  /\ Version(f) \in SUBSET Versions
         /\ \A v \in Version(f) : v[1] = f /\ v[2] = src[f].ver
         /\ \E v \in Version(f) : v[1] = f /\ v[2] = src[f].ver
BY DEF FileTypes, Version, Versions

\* A copy that is up to date is made.
LEMMA CopyIsMade ==
  ASSUME FileTypes, CopiesTrue, NEW f, UpToDate(f)
  PROVE  Made(f)
<1>1. f \in DOMAIN built /\ f \in DOMAIN src /\ built[f].from = Version(f)
  BY DEF UpToDate, CopiesTrue, FileTypes
<1>2. Sources(f) \subseteq {f}
  BY <1>1, SourceOfItself
<1> QED
  BY <1>1, <1>2, VersionFacts DEF Made, Current

\* And what is there of a directory that is built.
LEMMA BuiltThere ==
  ASSUME project \in Projects, DirsDone, BuiltCalled, NEW g \in DOMAIN built, DirOf(g) \in is_built
  PROVE  Current(g)
<1>1. Called(g) /\ ~ Skipped(g)
  BY DEF BuiltCalled
<1>2. \A f \in DOMAIN project.rules : DirOf(f) = DirOf(g) => Done(f)
  BY RulesFacts DEF DirsDone
<1>3. Made(g)
  <2>1. CASE g \in DOMAIN project.rules
    BY <1>2, <2>1 DEF Done
  <2>2. ASSUME NEW f \in DOMAIN project.rules, Ruled(f), DirOf(f) = DirOf(g), g \in Local(f)
        PROVE  Made(g)
    BY <1>2, <2>2 DEF Done
  <2> QED
    BY <1>1, <2>1, <2>2 DEF Called
<1> QED
  BY <1>1, <1>3 DEF Made

\* What a rule reads is made when the rule is carried out.
LEMMA ReadIsMade ==
  ASSUME project \in Projects, DirsDone, BuiltCalled, stack \in Seq(Frames),
         NEW k \in Nat, Calling(k), k < Len(stack),
         NEW f, f = stack[Len(stack)].what, stack[Len(stack)].call = "depends",
         stack[Len(stack)].todo = <<>>, Read(f) \subseteq DOMAIN built
  PROVE  /\ \A g \in Read(f) : Current(g)
         /\ \A g \in Local(f) : Made(g)
<1> DEFINE n == Len(stack)
<1>1. n \in Nat \ {0} /\ k \in 1 .. n /\ n \in k + 1 .. n /\ n \in 1 .. n /\ ~ (n < n)
  BY DEF Calling
<1>2. FitsFile(stack[k].what, stack[n]) /\ stack[k].call = "all"
  BY <1>1 DEF Calling
<1>3. SoFar(n, stack[n], {}) /\ SoFar(k, stack[k], InIt(k))
  BY <1>1 DEF Calling, InIt
<1> HIDE DEF n
<1>7. Ruled(f) /\ f \in DOMAIN project.rules /\ f \in Files /\ DirOf(f) = stack[k].what
  BY <1>2 DEF FitsFile, Ruled, n
<1>8. dependency_dirs(DirOf(f)) \subseteq is_built
  BY <1>2, <1>3, <1>7 DEF SoFar
<1>4. \A p \in Range(depends(f)) : p[1] = "" => Made(Here(DirOf(f), p))
  <2>1. Range(stack[n].todo) = {}
    BY RangeFacts, <<>> \in Seq({}) DEF n
  <2> QED
    BY <1>3, <2>1 DEF SoFar, n
<1>5. \A g \in Local(f) : Made(g)
  BY <1>4 DEF Local
<1>6. ASSUME NEW g \in Read(f) PROVE Current(g)
  <2>1. PICK p \in Range(depends(f)) : g = Here(DirOf(f), p)
    BY DEF Read
  <2>2. g \in DOMAIN built /\ ~ Skipped(g)
    BY DEF BuiltCalled
  <2>3. CASE p[1] = ""
    BY <1>4, <2>1, <2>2, <2>3 DEF Made
  <2>4. CASE p[1] # ""
    <3>1. p \in Files /\ DirOf(f) \in Names
      <4>1. p \in Files
        BY <1>7, <2>1, DependsFacts
      <4>2. DirOf(f) \in Names
        BY <1>7 DEF Files, DirOf
      <4> QED
        BY <4>1, <4>2
    <3>2. DirOf(g) = p[1]
      BY <2>1, <2>4, <3>1, HereFacts
    <3>3. f \in Range(Rules(DirOf(f)))
      BY <1>7, RulesFacts
    <3>4. p[1] \in dependency_dirs(DirOf(f))
      BY <2>4, <3>3 DEF dependency_dirs
    <3>5. DirOf(g) \in is_built
      BY <1>8, <3>2, <3>4
    <3> QED
      BY <2>2, <3>5, BuiltThere
  <2> QED
    BY <2>3, <2>4
<1> QED
  BY <1>5, <1>6

\* Of the versions that a rule then puts together there is one for each source.
LEMMA BuildIsMade ==
  ASSUME FileTypes, NEW f \in DOMAIN project.rules \ DOMAIN src,
         Copied(f) \subseteq DOMAIN src, \A g \in Read(f) : Current(g), NEW s \in Sources(f)
  PROVE  \E v \in UNION ({Version(p) : p \in Copied(f)} \cup {built[p].from : p \in Read(f)}) :
           v[1] = s /\ (src[s].mtime < begun => v[2] = src[s].ver)
<1>1. PICK g \in Inputs(f) \cap AllFiles : s \in Sources(g)
  BY SourcesByRule
<1>2. g \in Copied(f) \cup Read(f)
  BY <1>1, InputsFacts DEF FileTypes
<1>3. CASE g \in Copied(f)
  <2>1. s = g /\ g \in DOMAIN src
    BY <1>1, <1>3, SourceOfItself
  <2> QED
    BY <1>3, <2>1, VersionFacts
<1>4. CASE g \in Read(f)
  BY <1>1, <1>4 DEF Current
<1> QED
  BY <1>2, <1>3, <1>4

-----------------------------------------------------------------------------
(* The files, after each step.                                             *)

LEMMA FilesSame ==
  ASSUME FilesInv, UNCHANGED <<project, src, built, begun, fileTime>>
  PROVE  FilesInv'
<1>1. FileTypes'
  BY DEF FilesInv, FileTypes, Versions, AllFiles
<1>2. CopiesTrue'
  BY DEF FilesInv, CopiesTrue, Version
<1>3. BuiltCalled'
  BY Unmade DEF FilesInv, BuiltCalled
<1> QED
  BY <1>1, <1>2, <1>3 DEF FilesInv

LEMMA FilesPut ==
  ASSUME FilesInv, UNCHANGED <<project, src, begun>>, TimePasses,
         NEW f \in AllFiles, NEW from, Put(f, from), Called(f), ~ Skipped(f),
         from \subseteq Versions, \A v \in from : v[2] <= src[v[1]].ver,
         f \in DOMAIN src => from = Version(f)
  PROVE  FilesInv'
<1>1. /\ DOMAIN built' = DOMAIN built \cup {f}
      /\ built' = [g \in DOMAIN built \cup {f} |->
                    IF g = f THEN [from |-> from, mtime |-> fileTime] ELSE built[g]]
      /\ \A g \in DOMAIN built' : built'[g] = IF g = f THEN [from |-> from, mtime |-> fileTime] ELSE built[g]
  BY DEF Put
<1>2. fileTime \in Nat /\ fileTime' = fileTime + 1
  BY DEF FilesInv, FileTypes, TimePasses
<1>3. FileTypes'
  <2>1. \A g \in DOMAIN built' : built'[g] \in [from : SUBSET Versions, mtime : Nat]
    BY <1>1, <1>2 DEF FilesInv, FileTypes
  <2>2. built' \in [DOMAIN built' -> [from : SUBSET Versions, mtime : Nat]]
    BY <1>1, <2>1
  <2>3. Versions' = Versions /\ AllFiles' = AllFiles
    BY DEF Versions, AllFiles
  <2>4. \A g \in DOMAIN built' :
          built'[g].mtime < fileTime' /\ \A v \in built'[g].from : v[2] <= src'[v[1]].ver
    <3> TAKE g \in DOMAIN built'
    <3>1. CASE g = f
      BY <1>1, <1>2, <3>1
    <3>2. CASE g # f
      <4>1. g \in DOMAIN built /\ built'[g] = built[g] /\ built[g].mtime \in Nat /\ built[g].mtime < fileTime
        BY <1>1, <3>2 DEF FilesInv, FileTypes
      <4>2. \A v \in built[g].from : v[2] <= src[v[1]].ver
        BY <4>1 DEF FilesInv, FileTypes
      <4>3. built[g].mtime < fileTime'
        BY <4>1, <1>2
      <4> QED
        BY <4>1, <4>2, <4>3
    <3> QED
      BY <3>1, <3>2
  <2>5. /\ fileTime' \in Nat /\ begun' \in Nat /\ begun' <= fileTime'
        /\ \A g \in project'.sources : src'[g].mtime < fileTime'
    BY <1>2 DEF FilesInv, FileTypes
  <2>6. /\ project' \in Projects /\ src' \in [project'.sources -> [ver : Nat \ {0}, mtime : Nat]]
        /\ DOMAIN built' \subseteq AllFiles'
    BY <1>1, <2>3 DEF FilesInv, FileTypes
  <2> QED
    BY <2>2, <2>3, <2>4, <2>5, <2>6 DEF FileTypes
<1>4. CopiesTrue'
  <2>1. \A g : Version(g)' = Version(g)
    BY DEF Version
  <2> QED
    BY <1>1, <2>1 DEF FilesInv, CopiesTrue
<1>5. BuiltCalled'
  BY <1>1, Unmade DEF FilesInv, BuiltCalled
<1> QED
  BY <1>3, <1>4, <1>5 DEF FilesInv

LEMMA FilesTime ==
  ASSUME FilesInv, UNCHANGED <<project, src, built>>, TimePasses, begun' \in {begun, fileTime}
  PROVE  FilesInv'
<1>1. fileTime \in Nat /\ fileTime' = fileTime + 1
  BY DEF FilesInv, FileTypes, TimePasses
<1>2. FileTypes'
  <2>1. \A g \in DOMAIN built : built[g].mtime \in Nat
    BY DEF FilesInv, FileTypes
  <2>2. \A g \in DOMAIN built' :
          built'[g].mtime < fileTime' /\ \A v \in built'[g].from : v[2] <= src'[v[1]].ver
    BY <1>1, <2>1 DEF FilesInv, FileTypes
  <2>3. Versions' = Versions /\ AllFiles' = AllFiles
    BY DEF Versions, AllFiles
  <2>4. /\ fileTime' \in Nat /\ begun' \in Nat /\ begun' <= fileTime'
        /\ \A g \in project'.sources : src'[g].mtime < fileTime'
    BY <1>1 DEF FilesInv, FileTypes
  <2> QED
    BY <2>2, <2>3, <2>4 DEF FilesInv, FileTypes
<1>3. CopiesTrue'
  BY DEF FilesInv, CopiesTrue, Version
<1>4. BuiltCalled'
  BY Unmade DEF FilesInv, BuiltCalled
<1> QED
  BY <1>2, <1>3, <1>4 DEF FilesInv

LEMMA FilesEdit ==
  ASSUME FilesInv, Edit
  PROVE  FilesInv'
<1>1. PICK e \in DOMAIN src : src' = [src EXCEPT ![e] = [ver |-> @.ver + 1, mtime |-> fileTime]]
  BY DEF Edit
<1>2. /\ UNCHANGED <<project, built, begun>> /\ DOMAIN src' = DOMAIN src
      /\ fileTime \in Nat /\ fileTime' = fileTime + 1
  BY <1>1 DEF Edit, FilesInv, FileTypes, TimePasses
<1>3. /\ src'[e].ver = src[e].ver + 1 /\ src'[e].mtime = fileTime
      /\ \A f \in DOMAIN src : f # e => src'[f] = src[f]
      /\ DOMAIN src = project.sources
      /\ \A f \in DOMAIN src : src[f].ver \in Nat \ {0} /\ src[f].mtime \in Nat /\ src[f].mtime < fileTime
  BY <1>1 DEF FilesInv, FileTypes
<1>4. FileTypes'
  <2>1. Versions' = Versions /\ AllFiles' = AllFiles
    BY <1>2 DEF Versions, AllFiles
  <2>2. src' \in [project.sources -> [ver : Nat \ {0}, mtime : Nat]]
    BY <1>1, <1>2, <1>3 DEF FilesInv, FileTypes
  <2>3. \A f \in project.sources : src'[f].mtime < fileTime'
    BY <1>2, <1>3
  <2>4. ASSUME NEW f \in DOMAIN built'
        PROVE  built'[f].mtime < fileTime' /\ \A v \in built'[f].from : v[2] <= src'[v[1]].ver
    <3>1. built[f].mtime \in Nat /\ built[f].mtime < fileTime /\ built[f].from \subseteq Versions
      BY <1>2, <2>4 DEF FilesInv, FileTypes
    <3>2. ASSUME NEW v \in built[f].from PROVE v[2] <= src'[v[1]].ver
      <4>1. v[1] \in DOMAIN src /\ v[2] \in Nat /\ v[2] <= src[v[1]].ver
        BY <1>2, <1>3, <2>4, <3>1 DEF FilesInv, FileTypes, Versions
      <4> QED
        BY <1>3, <4>1
    <3> QED
      BY <1>2, <3>1, <3>2
  <2> QED
    BY <1>2, <2>1, <2>2, <2>3, <2>4 DEF FilesInv, FileTypes
<1>5. CopiesTrue'
  <2>1. SUFFICES ASSUME NEW f \in DOMAIN built, f \in DOMAIN src, src'[f].mtime <= built[f].mtime
                 PROVE  built[f].from = Version(f)'
    BY <1>2 DEF CopiesTrue
  <2>2. built[f].mtime \in Nat /\ built[f].mtime < fileTime
    BY DEF FilesInv, FileTypes
  <2>3. f # e
    BY <1>2, <1>3, <2>1, <2>2
  <2> QED
    BY <1>3, <2>1, <2>3 DEF FilesInv, CopiesTrue, Version
<1>6. BuiltCalled'
  BY <1>2, Unmade DEF FilesInv, BuiltCalled
<1> QED
  BY <1>4, <1>5, <1>6 DEF FilesInv

-----------------------------------------------------------------------------
(* The calls, after each step.                                             *)

\* What fits, fits after a step, and what is done stays done.
LEMMA FitsSame ==
  ASSUME project' = project, DOMAIN src' = DOMAIN src
  PROVE  /\ \A i, c : FitsDir(i, c)' = FitsDir(i, c)
         /\ \A d, c : FitsFile(d, c)' = FitsFile(d, c)
         /\ \A i, c, x : Linked(i, c, x)' = Linked(i, c, x)
<1>1. \A f : /\ Ruled(f)' = Ruled(f) /\ Local(f)' = Local(f) /\ depends(f)' = depends(f)
             /\ Called(f)' = Called(f) /\ Rules(f)' = Rules(f) /\ dependency_dirs(f)' = dependency_dirs(f)
  BY Unmade
<1>2. \A i, c : FitsDir(i, c)' = FitsDir(i, c)
  BY <1>1 DEF FitsDir
<1>3. \A d, c : FitsFile(d, c)' = FitsFile(d, c)
  BY <1>1 DEF FitsFile, DirOf
<1>4. \A i, c, x : Linked(i, c, x)' = Linked(i, c, x)
  BY <1>1 DEF Linked
<1> QED
  BY <1>2, <1>3, <1>4

LEMMA SoFarStays ==
  ASSUME Stays, is_built \subseteq is_built', NEW i, NEW c, NEW xs, SoFar(i, c, xs)
  PROVE  SoFar(i, c, xs)'
<1>1. \A f : /\ depends(f)' = depends(f) /\ Rules(f)' = Rules(f)
             /\ dependency_dirs(f)' = dependency_dirs(f)
             /\ Made(f) => Made(f)' 
             /\ Done(f) => Done(f)'
  BY Unmade, DoneStays DEF Stays
<1>2. i > 1 /\ c.call = "dirs" =>
        \A d \in dependency_dirs(c.what)' : d \in is_built' \/ d \in Range(c.todo) \cup xs
  BY <1>1 DEF SoFar
<1>3. c.call = "all" =>
        /\ dependency_dirs(c.what)' \subseteq is_built'
        /\ \A f \in Range(Rules(c.what))' : Done(f)' \/ f \in Range(c.todo) \cup xs
  BY <1>1 DEF SoFar, Range
<1>4. c.call = "depends" =>
        \A p \in Range(depends(c.what)') : p[1] = "" =>
          LET g == Here(DirOf(c.what), p) IN Made(g)' \/ p \in Range(c.todo) \/ g \in xs
  BY <1>1 DEF SoFar, Here, DirOf
<1> QED
  BY <1>2, <1>3, <1>4 DEF SoFar, Here, DirOf, Range

\* A call that is not the last is in its place.
InPlace(k, i) ==
  /\ i <= k => FitsDir(i, stack[i]) /\ (i < k => stack[i].call = "dirs")
  /\ i > k => FitsFile(stack[k].what, stack[i]) /\ stack[i].call = "depends"
  /\ Linked(i, stack[i], stack[i + 1].what)
  /\ SoFar(i, stack[i], InIt(i))
  /\ i = k => stack[i].call = "all"

\* The calls below one that goes on, as far as the m-th.
LEMMA BelowKeeps ==
  ASSUME Stays, is_built \subseteq is_built', stack \in Seq(Frames), stack' \in Seq(Frames),
         NEW k \in Nat, Calling(k), NEW m \in 1 .. Len(stack), m <= Len(stack'),
         \A j \in 1 .. m - 1 : stack'[j] = stack[j], stack'[m].what = stack[m].what,
         NEW i \in 1 .. m - 1
  PROVE  InPlace(k, i)'
<1>1. /\ Len(stack) \in Nat /\ Len(stack') \in Nat /\ m \in Nat /\ i \in Nat /\ k \in Nat
      /\ i \in 1 .. Len(stack) - 1 /\ i \in 1 .. Len(stack) /\ i < Len(stack) /\ i < Len(stack')
      /\ i + 1 \in 1 .. m
  OBVIOUS
<1>2. stack'[i] = stack[i] /\ stack'[i + 1].what = stack[i + 1].what
  <2>1. i + 1 = m \/ i + 1 \in 1 .. m - 1
    BY <1>1
  <2> QED
    BY <2>1
<1>3. InIt(i)' = InIt(i)
  BY <1>1, <1>2 DEF InIt
<1>4. /\ i <= k => FitsDir(i, stack[i]) /\ (i < k => stack[i].call = "dirs")
      /\ i > k => FitsFile(stack[k].what, stack[i]) /\ stack[i].call = "depends"
      /\ Linked(i, stack[i], stack[i + 1].what)
      /\ SoFar(i, stack[i], InIt(i))
      /\ i = k => stack[i].call = "all"
  <2>1. i <= k => i \in 1 .. k
    BY <1>1
  <2>2. i > k => i \in k + 1 .. Len(stack)
    BY <1>1
  <2> QED
    BY <1>1, <2>1, <2>2 DEF Calling
<1>5. i > k => stack'[k] = stack[k]
  <2>1. i > k => k \in 1 .. m - 1
    BY <1>1 DEF Calling
  <2> QED
    BY <2>1
<1>6. /\ \A j, c : FitsDir(j, c)' = FitsDir(j, c)
      /\ \A d, c : FitsFile(d, c)' = FitsFile(d, c)
      /\ \A j, c, x : Linked(j, c, x)' = Linked(j, c, x)
  BY FitsSame DEF Stays
<1> DEFINE c == stack[i]
           xs == InIt(i)
<1>7. SoFar(i, c, xs)
  BY <1>4
<1>8. PICK c1, xs1 : c1 = c /\ xs1 = xs
  OBVIOUS
<1>9. SoFar(i, c1, xs1)'
  BY <1>7, <1>8, SoFarStays
<1>10. SoFar(i, stack[i], InIt(i))'
  BY <1>2, <1>3, <1>8, <1>9
<1>11. i <= k => FitsDir(i, stack[i])' /\ (i < k => stack'[i].call = "dirs")
  BY <1>2, <1>4, <1>6
<1>12. i > k => FitsFile(stack[k].what, stack[i])' /\ stack'[i].call = "depends"
  BY <1>2, <1>4, <1>5, <1>6
<1>13. Linked(i, stack[i], stack[i + 1].what)'
  BY <1>2, <1>4, <1>6
<1> QED
  BY <1>2, <1>4, <1>10, <1>11, <1>12, <1>13 DEF InPlace

\* The call at work goes on as c, with the same to do or less.
LEMMA Changes ==
  ASSUME Stays, is_built \subseteq is_built', StackTypes, stack # <<>>,
         NEW k \in Nat, Calling(k),
         NEW c \in Frames, c.what = Top.what, stack' = Append(Below, c),
         k = Len(stack) => FitsDir(k, c),
         k < Len(stack) => FitsFile(stack[k].what, c),
         SoFar(Len(stack), c, {})'
  PROVE  stack' # <<>> /\ stack' \in Seq(Frames) /\ Len(stack') = Len(stack) /\ Calling(k)'
<1>0. PICK n \in Nat : n = Len(stack)
  BY DEF StackTypes
<1>1. /\ stack \in Seq(Frames) /\ n \in Nat \ {0} /\ Top = stack[n]
      /\ stack' \in Seq(Frames) /\ Len(stack') = n
      /\ \A i \in 1 .. n : stack'[i] = IF i < n THEN stack[i] ELSE c
  BY <1>0, LastFacts DEF StackTypes, Top, Below
<1>2. stack'[n] = c /\ stack'[n].what = stack[n].what /\ \A i \in 1 .. n - 1 : stack'[i] = stack[i]
  BY <1>1
<1>3. n \in 1 .. Len(stack) /\ n <= Len(stack') /\ k \in 1 .. n
  BY <1>0, <1>1 DEF Calling
<1>4. ASSUME NEW i \in 1 .. n - 1
      PROVE  InPlace(k, i)'
  BY <1>1, <1>2, <1>3, BelowKeeps
<1>5. SoFar(n, stack[n], InIt(n))'
  <2>1. InIt(n)' = {}
    BY <1>1 DEF InIt
  <2> QED
    BY <1>0, <1>1, <1>2, <2>1
<1>6. k = n => FitsDir(n, stack[n])'
  BY <1>0, <1>2, FitsSame DEF Stays
<1>7. k < n => FitsFile(stack[k].what, stack[n])'
  <2>1. k < n => stack'[k] = stack[k]
    BY <1>2, <1>3
  <2> QED
    BY <1>0, <1>2, <2>1, FitsSame DEF Stays
<1>8. \A i \in 1 .. k : FitsDir(i, stack[i])' /\ (i < k => stack'[i].call = "dirs")
  BY <1>1, <1>3, <1>4, <1>6 DEF InPlace
<1>9. \A i \in k + 1 .. n : FitsFile(stack[k].what, stack[i])'
  BY <1>1, <1>3, <1>4, <1>7 DEF InPlace
<1>10. k < n => stack'[k].call = "all"
  BY <1>1, <1>3, <1>4 DEF InPlace
<1>11. \A i \in 1 .. n - 1 :
         Linked(i, stack[i], stack[i + 1].what)' /\ (i > k => stack'[i].call = "depends")
  BY <1>4 DEF InPlace
<1>12. \A i \in 1 .. n : SoFar(i, stack[i], InIt(i))'
  BY <1>1, <1>4, <1>5 DEF InPlace
<1>13. Calling(k)'
  BY <1>1, <1>3, <1>8, <1>9, <1>10, <1>11, <1>12 DEF Calling
<1>14. stack' # <<>>
  BY <1>1
<1> QED
  BY <1>0, <1>1, <1>13, <1>14

\* The stack when the call at work, c now, has asked for a.
LEMMA AskedStack ==
  ASSUME StackTypes, stack # <<>>, NEW n \in Nat, n = Len(stack), NEW c \in Frames, NEW a \in Frames,
         stack' = Append(Append(Below, c), a)
  PROVE  /\ stack \in Seq(Frames) /\ n \in Nat \ {0} /\ Top = stack[n]
         /\ stack' \in Seq(Frames) /\ Len(stack') = n + 1
         /\ \A i \in 1 .. n + 1 : stack'[i] = IF i < n THEN stack[i] ELSE IF i = n THEN c ELSE a
<1>1. stack \in Seq(Frames)
  BY DEF StackTypes
<1>2. stack' = Append(Append(Front(stack), c), a) /\ Top = Last(stack)
  BY DEF Top, Below
<1>3. n \in Nat \ {0} /\ Last(stack) = stack[n]
  BY <1>1, LastFacts
<1>4. /\ stack' \in Seq(Frames) /\ Len(stack') = Len(stack) + 1
      /\ \A i \in 1 .. Len(stack) + 1 :
           stack'[i] = IF i < Len(stack) THEN stack[i] ELSE IF i = Len(stack) THEN c ELSE a
  <2> DEFINE u == Append(Front(stack), c)
  <2>2. /\ u \in Seq(Frames) /\ Len(u) = n
        /\ \A i \in 1 .. n : u[i] = IF i < n THEN stack[i] ELSE c
    BY <1>1, LastFacts
  <2>1. stack' = Append(u, a)
    BY <1>2
  <2> HIDE DEF u
  <2>3. /\ stack' \in Seq(Frames) /\ Len(stack') = Len(u) + 1
        /\ \A i \in 1 .. Len(u) : stack'[i] = u[i]
        /\ stack'[Len(u) + 1] = a
    BY <2>1, <2>2, AppendProperties
  <2> QED
    BY <1>3, <2>2, <2>3
<1> QED
  BY <1>1, <1>2, <1>3, <1>4

\* The call at work, c now, asks for a, which begins.
LEMMA Asks ==
  ASSUME Stays, is_built \subseteq is_built', StackTypes, stack # <<>>,
         NEW k \in Nat, Calling(k), NEW h \in Nat,
         NEW c \in Frames, c.what = Top.what, c.call = Top.call, NEW a \in Frames,
         stack' = Append(Append(Below, c), a),
         k = Len(stack) => FitsDir(k, c),
         k < Len(stack) => FitsFile(stack[k].what, c) /\ c.call = "depends",
         \/ k = Len(stack) /\ h = k + 1 /\ c.call = "dirs" /\ FitsDir(h, a)
         \/ h = k /\ (k = Len(stack) => c.call = "all") /\ FitsFile(stack[k].what, a),
         Linked(Len(stack), c, a.what),
         \A n \in Nat : n = Len(stack) => SoFar(n, c, {a.what})' /\ SoFar(n + 1, a, {})'
  PROVE  stack' # <<>> /\ stack' \in Seq(Frames) /\ Len(stack') = Len(stack) + 1 /\ Calling(h)'
<1>0. PICK n \in Nat : n = Len(stack)
  BY DEF StackTypes
<1>1. /\ stack \in Seq(Frames) /\ n \in Nat \ {0} /\ Top = stack[n]
      /\ stack' \in Seq(Frames) /\ Len(stack') = n + 1
      /\ \A i \in 1 .. n + 1 : stack'[i] = IF i < n THEN stack[i] ELSE IF i = n THEN c ELSE a
  BY <1>0, AskedStack
<1>2. /\ stack'[n] = c /\ stack'[n + 1] = a /\ stack'[n].what = stack[n].what
      /\ \A i \in 1 .. n - 1 : stack'[i] = stack[i]
  <2>1. n \in 1 .. n + 1 /\ n + 1 \in 1 .. n + 1 /\ ~ (n < n) /\ n + 1 # n /\ ~ (n + 1 < n)
    BY <1>1
  <2>2. \A i \in 1 .. n - 1 : i \in 1 .. n + 1 /\ i < n
    BY <1>1
  <2>3. stack'[n] = c /\ stack'[n + 1] = a
    BY <1>1, <2>1
  <2>4. \A i \in 1 .. n - 1 : stack'[i] = stack[i]
    BY <1>1, <2>2
  <2>5. stack'[n].what = stack[n].what
    BY <1>1, <2>3
  <2> QED
    BY <2>3, <2>4, <2>5
<1>3. n \in 1 .. Len(stack) /\ n <= Len(stack') /\ k \in 1 .. n /\ h \in 1 .. n + 1
  BY <1>0, <1>1 DEF Calling
<1>4. ASSUME NEW i \in 1 .. n - 1
      PROVE  InPlace(k, i)'
  <2>1. n <= Len(stack')
    BY <1>3
  <2> QED
    BY <1>1, <1>2, <1>3, <2>1, BelowKeeps
<1>5. /\ \A j, d : FitsDir(j, d)' = FitsDir(j, d)
      /\ \A d, e : FitsFile(d, e)' = FitsFile(d, e)
      /\ \A j, d, x : Linked(j, d, x)' = Linked(j, d, x)
  BY FitsSame DEF Stays
<1>6. SoFar(n, stack[n], InIt(n))'
  <2>1. InIt(n)' = {a.what}
    BY <1>1, <1>2 DEF InIt
  <2> QED
    BY <1>0, <1>2, <2>1
<1>7. SoFar(n + 1, stack[n + 1], InIt(n + 1))'
  <2>1. InIt(n + 1)' = {}
    BY <1>1 DEF InIt
  <2> QED
    BY <1>0, <1>2, <2>1
<1>8. Linked(n, stack[n], stack[n + 1].what)'
  <2>1. Linked(n, c, a.what)
    BY <1>0
  <2>2. Linked(n, c, a.what)'
    BY <1>5, <2>1
  <2> QED
    BY <1>2, <2>2
<1>9. stack'[k].what = stack[k].what
  <2>1. k = n \/ k \in 1 .. n - 1
    BY <1>3
  <2> QED
    BY <1>2, <2>1
<1>10. \A i \in 1 .. h : FitsDir(i, stack[i])' /\ (i < h => stack'[i].call = "dirs")
  <2>1. CASE k = n /\ h = n + 1
    <3>1. FitsDir(n, stack[n])' /\ stack'[n].call = "dirs" /\ FitsDir(n + 1, stack[n + 1])'
      BY <1>0, <1>1, <1>2, <1>5, <2>1
    <3> QED
      BY <1>1, <1>4, <2>1, <3>1 DEF InPlace
  <2>2. CASE h = k
    <3>1. k = n => FitsDir(n, stack[n])'
      BY <1>0, <1>1, <1>2, <1>5, <2>2
    <3> QED
      BY <1>1, <1>3, <1>4, <2>2, <3>1 DEF InPlace
  <2> QED
    BY <1>0, <2>1, <2>2
<1>11. \A i \in h + 1 .. n + 1 : FitsFile(stack[h].what, stack[i])'
  <2>1. CASE k = n /\ h = n + 1
    BY <1>1, <2>1
  <2>2. CASE h = k
    <3>1. k < n => FitsFile(stack[k].what, stack[n])'
      BY <1>0, <1>1, <1>2, <1>5, <1>9, <2>2
    <3>2. FitsFile(stack[k].what, stack[n + 1])'
      BY <1>0, <1>1, <1>2, <1>5, <1>9, <2>2
    <3> QED
      BY <1>1, <1>3, <1>4, <2>2, <3>1, <3>2 DEF InPlace
  <2> QED
    BY <1>0, <2>1, <2>2
<1>12. h < n + 1 => stack'[h].call = "all"
  <2>1. CASE k = n /\ h = n + 1
    BY <1>1, <2>1
  <2>2. CASE h = k
    BY <1>0, <1>1, <1>2, <1>3, <1>4, <2>2 DEF InPlace
  <2> QED
    BY <1>0, <2>1, <2>2
<1>13. \A i \in 1 .. n :
         Linked(i, stack[i], stack[i + 1].what)' /\ (i > h => stack'[i].call = "depends")
  <2>1. n > h => stack'[n].call = "depends"
    BY <1>0, <1>2, <1>3
  <2>2. \A i \in 1 .. n - 1 : i > h => i > k
    BY <1>0, <1>3
  <2> QED
    BY <1>1, <1>4, <1>8, <2>1, <2>2 DEF InPlace
<1>14. \A i \in 1 .. n + 1 : SoFar(i, stack[i], InIt(i))'
  <2>1. \A i \in 1 .. n + 1 : i \in 1 .. n - 1 \/ i = n \/ i = n + 1
    BY <1>1
  <2> QED
    BY <1>4, <1>6, <1>7, <2>1 DEF InPlace
<1>15. Calling(h)'
  <2>1. (n + 1) - 1 = n
    BY <1>1
  <2> QED
    BY <1>1, <1>3, <1>10, <1>11, <1>12, <1>13, <1>14, <2>1 DEF Calling
<1>16. stack' # <<>>
  BY <1>1
<1> QED
  BY <1>0, <1>1, <1>15, <1>16

\* The call at work ends, and what asked for it has done it.
LEMMA Returns ==
  ASSUME Stays, is_built \subseteq is_built', StackTypes,
         NEW k \in Nat, Calling(k), NEW n \in Nat, n + 1 = Len(stack), n > 0, stack' = Below,
         SoFar(n, stack[n], {})'
  PROVE  stack' # <<>> /\ stack' \in Seq(Frames) /\ Len(stack') = n /\ Calling(IF k <= n THEN k ELSE n)'
<1>1. /\ stack \in Seq(Frames) /\ stack # <<>>
      /\ stack' \in Seq(Frames) /\ Len(stack') = n
      /\ \A i \in 1 .. n : stack'[i] = stack[i]
  <2>1. stack \in Seq(Frames) /\ stack # <<>>
    BY DEF StackTypes
  <2>2. PICK x \in Frames : x = stack[n + 1]
    BY <2>1
  <2> QED
    BY <2>1, <2>2, LastFacts DEF Below
<1>2. PICK h \in Nat : h = IF k <= n THEN k ELSE n
  OBVIOUS
<1>3. n \in 1 .. Len(stack) /\ n <= Len(stack') /\ k \in 1 .. n + 1 /\ h \in 1 .. n
  BY <1>1, <1>2 DEF Calling
<1>4. ASSUME NEW i \in 1 .. n - 1
      PROVE  InPlace(k, i)'
  <2>1. stack'[n].what = stack[n].what /\ \A j \in 1 .. n - 1 : stack'[j] = stack[j]
    BY <1>1, <1>3
  <2> QED
    BY <1>1, <1>3, <2>1, BelowKeeps
<1>5. SoFar(n, stack[n], InIt(n))'
  <2>1. InIt(n)' = {}
    BY <1>1 DEF InIt
  <2> QED
    BY <2>1
<1>6. /\ n <= k => FitsDir(n, stack[n])
      /\ n > k => FitsFile(stack[k].what, stack[n])
      /\ n = k => stack[n].call = "all"
  <2>1. n <= k => n \in 1 .. k
    BY <1>3
  <2>2. n > k => n \in k + 1 .. Len(stack)
    BY <1>3
  <2> QED
    BY <2>1, <2>2, <1>3 DEF Calling
<1>7. /\ n <= k => FitsDir(n, stack[n])'
      /\ n > k => FitsFile(stack[k].what, stack[n])'
  <2>1. stack'[n] = stack[n] /\ (n > k => stack'[k] = stack[k])
    BY <1>1, <1>3
  <2> QED
    BY <1>6, <2>1, FitsSame DEF Stays
<1>8. \A i \in 1 .. h : FitsDir(i, stack[i])' /\ (i < h => stack'[i].call = "dirs")
  <2>1. ASSUME NEW i \in 1 .. h PROVE (i \in 1 .. n - 1 /\ i <= k /\ (i < h => i < k)) \/ (i = n /\ n <= k /\ h = n)
    BY <1>2, <1>3
  <2>2. ASSUME NEW i \in 1 .. h PROVE FitsDir(i, stack[i])' /\ (i < h => stack'[i].call = "dirs")
    <3>1. CASE i \in 1 .. n - 1 /\ i <= k /\ (i < h => i < k)
      BY <1>4, <3>1 DEF InPlace
    <3>2. CASE i = n /\ n <= k /\ h = n
      BY <1>7, <3>2
    <3> QED
      BY <2>1, <3>1, <3>2
  <2> QED
    BY <2>2
<1>9. \A i \in h + 1 .. n : FitsFile(stack[h].what, stack[i])'
  <2>1. ASSUME NEW i \in h + 1 .. n PROVE h = k /\ i > k /\ (i \in 1 .. n - 1 \/ i = n)
    BY <1>2, <1>3
  <2> QED
    BY <1>4, <1>7, <2>1 DEF InPlace
<1>10. h < n => stack'[h].call = "all"
  BY <1>2, <1>3, <1>4 DEF InPlace
<1>11. \A i \in 1 .. n - 1 :
         Linked(i, stack[i], stack[i + 1].what)' /\ (i > h => stack'[i].call = "depends")
  <2>1. \A i \in 1 .. n - 1 : i > h => i > k
    BY <1>2, <1>3
  <2> QED
    BY <1>4, <2>1 DEF InPlace
<1>12. \A i \in 1 .. n : SoFar(i, stack[i], InIt(i))'
  BY <1>4, <1>5 DEF InPlace
<1>13. Calling(h)'
  BY <1>1, <1>3, <1>8, <1>9, <1>10, <1>11, <1>12 DEF Calling
<1>14. stack' # <<>>
  BY <1>1
<1> QED
  BY <1>1, <1>2, <1>13, <1>14

\* Where the call at work is.
LEMMA TopPlace ==
  ASSUME StackTypes, stack # <<>>, NEW k \in Nat, Calling(k), NEW n \in Nat, n = Len(stack)
  PROVE  /\ n > 0 /\ k \in 1 .. n /\ Top = stack[n] /\ Top \in Frames /\ SoFar(n, Top, {})
         /\ Top.call \in {"dirs", "all"} => k = n /\ FitsDir(n, Top)
         /\ Top.call \in {"file", "depends"} => k < n /\ FitsFile(stack[k].what, Top)
         /\ Top.call = "all" => n > 1
<1>1. n > 0 /\ k \in 1 .. n /\ Top = stack[n] /\ Top \in Frames
  <2>1. stack \in Seq(Frames) /\ n > 0 /\ stack[n] \in Frames
    BY DEF StackTypes
  <2>2. Top = stack[n]
    BY DEF Top, Last
  <2>3. k \in 1 .. n
    BY DEF Calling
  <2>4. Top \in Frames
    BY <2>1, <2>2
  <2> QED
    BY <2>1, <2>2, <2>3, <2>4
<1>2. SoFar(n, Top, {})
  <2>1. InIt(n) = {}
    BY <1>1 DEF InIt
  <2>2. n \in 1 .. Len(stack)
    BY <1>1
  <2> QED
    BY <1>1, <2>1, <2>2 DEF Calling
<1>3. k = n => FitsDir(n, Top)
  BY <1>1 DEF Calling
<1>4. k < n => FitsFile(stack[k].what, Top)
  BY <1>1 DEF Calling
<1>5. FitsDir(n, Top) => Top.call \in {"dirs", "all"} /\ (Top.call = "all" => n > 1)
  BY DEF FitsDir
<1>6. FitsFile(stack[k].what, Top) => Top.call \in {"file", "depends"}
  BY DEF FitsFile
<1> QED
  BY <1>1, <1>2, <1>3, <1>4, <1>5, <1>6

\* A file that is made is no longer at work.
LEMMA FileReturns ==
  ASSUME Stays, is_built' = is_built, CallsInv, stack # <<>>, Top.call \in {"file", "depends"},
         NEW f, f = Top.what, Done(f)', stack' = Below, outcome' = outcome
  PROVE  CallsInv'
<1>1. PICK k \in 1 .. Len(stack) : Calling(k)
  BY DEF CallsInv
<1>2. StackTypes
  BY DEF CallsInv
<1>3. PICK n \in Nat : n + 1 = Len(stack)
  <2>1. Len(stack) \in Nat \ {0}
    BY <1>2 DEF StackTypes
  <2>2. Len(stack) - 1 \in Nat /\ (Len(stack) - 1) + 1 = Len(stack)
    BY <2>1
  <2> QED
    BY <2>2
<1>4. k < n + 1 /\ Top = stack[n + 1]
  <2>1. n + 1 \in Nat
    OBVIOUS
  <2> QED
    BY <1>1, <1>2, <1>3, <2>1, TopPlace
<1>5. n \in 1 .. Len(stack) - 1 /\ n \in 1 .. Len(stack) /\ n > 0 /\ n < Len(stack)
  BY <1>1, <1>3, <1>4
<1>6. SoFar(n, stack[n], {f})
  <2>1. InIt(n) = {f}
    BY <1>3, <1>4, <1>5 DEF InIt
  <2> QED
    BY <1>1, <1>5, <2>1 DEF Calling
<1>7. stack[n].call # "dirs"
  <2>1. n = k \/ n > k
    BY <1>1, <1>4
  <2> QED
    BY <1>1, <1>5, <2>1 DEF Calling
<1>8. PICK c : c = stack[n] /\ c.call # "dirs"
  BY <1>7
<1>9. SoFar(n, c, {f})'
  BY <1>6, <1>8, SoFarStays
<1>10. SoFar(n, c, {})'
  <2>1. Made(f)' /\ Done(f)'
    BY DEF Done
  <2> QED
    BY <1>8, <1>9, <2>1 DEF SoFar
<1>11. stack'[n] = stack[n]
  BY <1>2, <1>3, <1>5, LastFacts DEF Below, StackTypes
<1>12. SoFar(n, stack[n], {})'
  BY <1>8, <1>10, <1>11
<1>13. stack' # <<>> /\ stack' \in Seq(Frames) /\ Len(stack') = n /\ Calling(IF k <= n THEN k ELSE n)'
  BY <1>1, <1>2, <1>3, <1>5, <1>12, Returns
<1>14. Calling(k)' /\ k \in 1 .. Len(stack')
  <2>1. k <= n
    BY <1>1, <1>4
  <2>2. (IF k <= n THEN k ELSE n) = k
    BY <2>1
  <2> QED
    BY <1>1, <1>13, <2>1, <2>2
<1>15. StackTypes'
  <2>1. Len(stack') <= RecursionLimit
    BY <1>2, <1>3, <1>13, RecursionAssumption DEF StackTypes
  <2> QED
    BY <1>2, <1>13, <2>1 DEF StackTypes
<1> QED
  BY <1>14, <1>15 DEF CallsInv

\* When the stack is empty, and when nothing changes that the calls depend on.
LEMMA NoCalls ==
  ASSUME stack' = <<>>, outcome' \in {"ok", "failed", "norule", "nocopy", "recursion"}
  PROVE  CallsInv'
<1>1. stack' \in Seq(Frames) /\ Len(stack') = 0
  OBVIOUS
<1>2. 0 <= RecursionLimit
  BY RecursionAssumption
<1> QED
  BY <1>1, <1>2 DEF CallsInv, StackTypes

LEMMA CallsStay ==
  ASSUME Stays, is_built' = is_built, CallsInv, UNCHANGED <<stack, outcome>>
  PROVE  CallsInv'
<1>1. StackTypes'
  BY DEF CallsInv, StackTypes
<1>2. ASSUME stack # <<>> PROVE \E k \in 1 .. Len(stack') : Calling(k)'
  <2>1. PICK k \in 1 .. Len(stack) : Calling(k)
    BY <1>2 DEF CallsInv
  <2>2. /\ \A j, d : FitsDir(j, d)' = FitsDir(j, d)
        /\ \A d, e : FitsFile(d, e)' = FitsFile(d, e)
        /\ \A j, d, x : Linked(j, d, x)' = Linked(j, d, x)
    BY FitsSame DEF Stays
  <2>3. ASSUME NEW i \in 1 .. Len(stack) PROVE SoFar(i, stack[i], InIt(i))'
    <3>1. SoFar(i, stack[i], InIt(i))
      BY <2>1 DEF Calling
    <3>2. PICK c, xs : c = stack[i] /\ xs = InIt(i)
      OBVIOUS
    <3>3. SoFar(i, c, xs)'
      BY <3>1, <3>2, SoFarStays
    <3>4. InIt(i)' = InIt(i)
      BY DEF InIt
    <3> QED
      BY <3>2, <3>3, <3>4
  <2>4. Calling(k)'
    BY <2>1, <2>2, <2>3 DEF Calling
  <2> QED
    BY <2>1, <2>4
<1> QED
  BY <1>1, <1>2 DEF CallsInv

\* The call at work goes on.
LEMMA GoesOn ==
  ASSUME Stays, is_built' = is_built, CallsInv, stack # <<>>,
         NEW k \in Nat, Calling(k), outcome' = outcome,
         NEW c \in Frames, c.what = Top.what, stack' = Append(Below, c),
         k = Len(stack) => FitsDir(k, c),
         k < Len(stack) => FitsFile(stack[k].what, c),
         SoFar(Len(stack), c, {})
  PROVE  CallsInv'
<1>1. StackTypes
  BY DEF CallsInv
<1>2. PICK n \in Nat : n = Len(stack)
  BY <1>1 DEF StackTypes
<1>3. SoFar(n, c, {})'
  BY <1>2, SoFarStays
<1>4. Len(stack') = n
  BY <1>1, <1>2, LastFacts DEF StackTypes, Below
<1>5. SoFar(Len(stack), c, {})'
  BY <1>3, <1>4
<1>6. stack' # <<>> /\ stack' \in Seq(Frames) /\ Len(stack') = Len(stack) /\ Calling(k)'
  BY <1>1, <1>5, Changes
<1>7. k \in 1 .. Len(stack')
  BY <1>6 DEF Calling
<1>8. StackTypes'
  BY <1>1, <1>6 DEF StackTypes
<1> QED
  BY <1>6, <1>7, <1>8 DEF CallsInv

\* The call at work asks for another.
LEMMA AsksFor ==
  ASSUME Stays, is_built' = is_built, CallsInv, stack # <<>>,
         NEW k \in Nat, Calling(k), NEW h \in Nat, outcome' = outcome, Len(stack) < RecursionLimit,
         NEW c \in Frames, c.what = Top.what, c.call = Top.call, NEW a \in Frames,
         stack' = Append(Append(Below, c), a),
         k = Len(stack) => FitsDir(k, c),
         k < Len(stack) => FitsFile(stack[k].what, c) /\ c.call = "depends",
         \/ k = Len(stack) /\ h = k + 1 /\ c.call = "dirs" /\ FitsDir(h, a)
         \/ h = k /\ (k = Len(stack) => c.call = "all") /\ FitsFile(stack[k].what, a),
         Linked(Len(stack), c, a.what),
         SoFar(Len(stack), c, {a.what}), SoFar(Len(stack) + 1, a, {})
  PROVE  CallsInv'
<1>1. StackTypes
  BY DEF CallsInv
<1>2. ASSUME NEW n \in Nat, n = Len(stack) PROVE SoFar(n, c, {a.what})' /\ SoFar(n + 1, a, {})'
  BY <1>2, SoFarStays
<1>3. stack' # <<>> /\ stack' \in Seq(Frames) /\ Len(stack') = Len(stack) + 1 /\ Calling(h)'
  BY <1>1, <1>2, Asks
<1>4. h \in 1 .. Len(stack')
  BY <1>3 DEF Calling
<1>5. StackTypes'
  BY <1>1, <1>3, RecursionAssumption DEF StackTypes
<1> QED
  BY <1>3, <1>4, <1>5 DEF CallsInv

-----------------------------------------------------------------------------
(* The recursion is deep only when directories or files go in a circle.    *)

Circle == DirectoryCircle \/ FileCircle

\* A sequence with different elements of a finite set is no longer than the set.
LEMMA NoLonger ==
  ASSUME NEW S, IsFiniteSet(S), NEW a \in Nat, NEW b \in Nat, a <= b + 1, NEW w,
         \A i \in a .. b : w[i] \in S,
         \A i, j \in a .. b : i < j => w[i] # w[j]
  PROVE  Cardinality(S) \in Nat /\ b + 1 - a <= Cardinality(S)
<1> DEFINE f == [i \in a .. b |-> w[i]]
<1>1. f \in Injection(a .. b, S)
  <2>1. \A i, j \in a .. b : i # j => i < j \/ j < i
    OBVIOUS
  <2> QED
    BY <2>1 DEF Injection, IsInjective
<1> HIDE DEF f
<1>2. Cardinality(a .. b) = b + 1 - a
  BY FS_Interval
<1> QED
  BY <1>1, <1>2, FS_Injection, FS_CardinalityType

LEMMA DirsDiffer ==
  ASSUME project \in Projects, ~ Circle, NEW k \in Nat, Calling(k), NEW n \in Nat, n = Len(stack),
         NEW i \in 2 .. k, NEW j \in 2 .. k, i < j
  PROVE  stack[i].what # stack[j].what
<1> SUFFICES ASSUME stack[i].what = stack[j].what PROVE FALSE
  OBVIOUS
<1> DEFINE ds == {stack[m].what : m \in i .. j - 1}
<1>1. ASSUME NEW m \in i .. j - 1
      PROVE  /\ stack[m + 1].what \in dependency_dirs(stack[m].what)
             /\ stack[m + 1].what \in ds
  <2>1. m \in 1 .. k /\ m < k /\ m \in 1 .. n - 1 /\ m > 1 /\ i \in i .. j - 1
    BY DEF Calling
  <2>2. stack[m].call = "dirs" /\ Linked(m, stack[m], stack[m + 1].what)
    BY <2>1 DEF Calling
  <2>3. stack[m + 1].what \in ds
    <3>1. m + 1 = j \/ m + 1 \in i .. j - 1
      OBVIOUS
    <3> QED
      BY <2>1, <3>1
  <2> QED
    BY <2>1, <2>2, <2>3 DEF Linked
<1>2. ASSUME NEW d \in ds PROVE d \in RuleDirs(project) /\ Needs(d) \cap ds # {}
  <2>1. PICK m \in i .. j - 1 : d = stack[m].what
    OBVIOUS
  <2> QED
    BY <1>1, <2>1, NeededFacts
<1>3. ds # {}
  <2>1. i \in i .. j - 1
    OBVIOUS
  <2> QED
    BY <2>1
<1>4. RuleDirs(project) = {DirOf(f) : f \in DOMAIN project.rules}
  BY DEF RuleDirs, DirOf
<1> QED
  BY <1>2, <1>3, <1>4 DEF Circle, DirectoryCircle

LEMMA LocalDepends ==
  ASSUME project \in Projects, NEW f \in DOMAIN project.rules
  PROVE  Local(f) \subseteq Depends(f)
<1>1. Depends(f) = {Here(DirOf(f), q) : q \in Range(project.rules[f].depends)}
  BY DEF Depends
<1> QED
  BY <1>1, DependsFacts DEF Local

LEMMA FilesDiffer ==
  ASSUME FileTypes, ~ Circle, NEW k \in Nat, Calling(k), NEW n \in Nat, n = Len(stack),
         NEW i \in k + 1 .. n, NEW j \in k + 1 .. n, i < j
  PROVE  stack[i].what # stack[j].what
<1> SUFFICES ASSUME stack[i].what = stack[j].what PROVE FALSE
  OBVIOUS
<1> DEFINE fs == {stack[m].what : m \in i .. j - 1}
<1>0. project \in Projects /\ DOMAIN src = project.sources
  BY DEF FileTypes
<1>1. ASSUME NEW m \in i .. j - 1
      PROVE  /\ stack[m].what \in Followed
             /\ DirOf(stack[m].what) = stack[k].what
             /\ stack[m + 1].what \in Depends(stack[m].what)
             /\ stack[m + 1].what \in fs
  <2>1. m \in k + 1 .. n /\ m \in 1 .. n - 1 /\ m > k /\ i \in i .. j - 1
    BY DEF Calling
  <2>2. stack[m].call = "depends" /\ Linked(m, stack[m], stack[m + 1].what) /\ FitsFile(stack[k].what, stack[m])
    BY <2>1 DEF Calling
  <2>3. Ruled(stack[m].what) /\ DirOf(stack[m].what) = stack[k].what
    BY <2>2 DEF FitsFile
  <2>4. stack[m + 1].what \in fs
    <3>1. m + 1 = j \/ m + 1 \in i .. j - 1
      OBVIOUS
    <3> QED
      BY <2>1, <3>1
  <2>5. stack[m + 1].what \in Local(stack[m].what)
    BY <2>2 DEF Linked
  <2>6. stack[m].what \in Followed
    BY <1>0, <2>3 DEF Ruled, Followed
  <2>7. stack[m].what \in DOMAIN project.rules
    BY <2>6 DEF Followed
  <2> QED
    BY <1>0, <2>3, <2>4, <2>5, <2>6, <2>7, LocalDepends
<1>2. fs \in SUBSET Followed /\ \A f, g \in fs : DirOf(f) = DirOf(g)
  BY <1>1
<1>3. \A f \in fs : Depends(f) \cap fs # {}
  BY <1>1
<1>4. fs # {}
  <2>1. i \in i .. j - 1
    OBVIOUS
  <2> QED
    BY <2>1
<1> HIDE DEF fs
<1> QED
  BY <1>2, <1>3, <1>4 DEF Circle, FileCircle

LEMMA RuleDirsFinite ==
  ASSUME NEW p \in Projects
  PROVE  IsFiniteSet(RuleDirs(p)) /\ \A d : IsFiniteSet(RulesIn(p, d))
<1> DEFINE dirOf == [f \in DOMAIN p.rules |-> f[1]]
<1>1. dirOf \in Surjection(DOMAIN p.rules, Range(dirOf))
  BY DEF Surjection, Range
<1>2. Range(dirOf) = RuleDirs(p)
  BY DEF RuleDirs, Range
<1> HIDE DEF dirOf
<1>3. IsFiniteSet(RuleDirs(p))
  BY <1>1, <1>2, ProjectFacts, FS_Surjection
<1>4. ASSUME NEW d PROVE IsFiniteSet(RulesIn(p, d))
  <2>1. RulesIn(p, d) \in SUBSET DOMAIN p.rules
    BY DEF RulesIn
  <2> QED
    BY <2>1, ProjectFacts, FS_Subset
<1> QED
  BY <1>3, <1>4

\* When a call asks for another and nothing goes in a circle, Python allows it.
LEMMA RoomToCall ==
  ASSUME FileTypes, StackTypes, stack # <<>>, NEW k \in Nat, Calling(k), NEW n \in Nat, n = Len(stack),
         Top.todo # <<>>, Top.call # "file", ~ Circle
  PROVE  n < RecursionLimit
<1>0. project \in Projects
  BY DEF FileTypes
<1>1. /\ n > 0 /\ k \in 1 .. n /\ Top = stack[n] /\ Top \in Frames
      /\ Top.call \in {"dirs", "all"} => k = n /\ FitsDir(n, Top)
      /\ Top.call \in {"file", "depends"} => k < n /\ FitsFile(stack[k].what, Top)
  BY TopPlace
<1>2. k = n /\ n > 1 => Top.what \in RuleDirs(project)
  <2>1. SUFFICES ASSUME k = n, n > 1 PROVE Top.what \in RuleDirs(project)
    OBVIOUS
  <2>2. Top.call \in {"dirs", "all"} /\ FitsDir(n, Top)
    BY <1>1, <2>1 DEF Frames, CallNames
  <2>3. CASE Top.call = "dirs"
    <3>1. Top.todo \in Seq(dependency_dirs(Top.what))
      BY <2>1, <2>2, <2>3 DEF FitsDir
    <3>2. dependency_dirs(Top.what) # {}
      BY <3>1, HeadTailProperties
    <3> QED
      BY <1>0, <3>2, NeededFacts
  <2>4. CASE Top.call = "all"
    <3>1. Top.todo \in Seq(Range(Rules(Top.what)))
      BY <2>2, <2>4 DEF FitsDir
    <3>2. Head(Top.todo) \in Range(Rules(Top.what))
      BY <3>1, HeadTailProperties
    <3> QED
      BY <1>0, <3>2, RulesFacts DEF RuleDirs, DirOf
  <2> QED
    BY <2>2, <2>3, <2>4
<1>3. k < n => stack[k].what \in RuleDirs(project)
  <2>1. SUFFICES ASSUME k < n PROVE stack[k].what \in RuleDirs(project)
    OBVIOUS
  <2>2. k \in 1 .. n - 1
    BY <1>1, <2>1
  <2>3. stack[k + 1].what \in Range(Rules(stack[k].what))
    BY <2>1, <2>2 DEF Calling, Linked
  <2> QED
    BY <1>0, <2>3, RulesFacts DEF RuleDirs, DirOf
<1>4. ASSUME NEW i \in 2 .. k PROVE stack[i].what \in RuleDirs(project)
  <2>1. CASE i = k
    BY <1>1, <1>2, <1>3, <2>1
  <2>2. CASE i # k
    <3>1. i \in 1 .. k /\ i < k /\ i \in 1 .. n - 1 /\ i > 1
      BY <1>1, <2>2
    <3>2. stack[i + 1].what \in dependency_dirs(stack[i].what)
      BY <3>1 DEF Calling, Linked
    <3> QED
      BY <1>0, <3>2, NeededFacts
  <2> QED
    BY <2>1, <2>2
<1> DEFINE w == [i \in 1 .. n |-> stack[i].what]
           D == Cardinality(RuleDirs(project))
<1>5. D \in Nat /\ k - 1 <= D
  <2>1. \A i \in 2 .. k : w[i] \in RuleDirs(project)
    BY <1>1, <1>4
  <2>2. \A i, j \in 2 .. k : i < j => w[i] # w[j]
    BY <1>0, <1>1, DirsDiffer
  <2>3. k \in Nat /\ 2 <= k + 1 /\ 2 \in Nat /\ k + 1 - 2 = k - 1
    BY <1>1
  <2>4. IsFiniteSet(RuleDirs(project))
    BY <1>0, RuleDirsFinite
  <2> HIDE DEF w
  <2>5. Cardinality(RuleDirs(project)) \in Nat /\ k + 1 - 2 <= Cardinality(RuleDirs(project))
    BY <2>1, <2>2, <2>3, <2>4, NoLonger
  <2> QED
    BY <2>3, <2>5
<1>6. ASSUME NEW f \in DOMAIN project.rules
      PROVE  /\ Cardinality(RulesIn(project, f[1])) \in Nat
             /\ D + Cardinality(RulesIn(project, f[1])) + 2 <= RecursionLimit
  BY <1>0, BuildAssumption, RuleDirsFinite, FS_CardinalityType
<1>7. CASE k < n
  <2>1. PICK d : d = stack[k].what
    OBVIOUS
  <2> DEFINE R == Cardinality(RulesIn(project, d))
  <2>2. ASSUME NEW i \in k + 1 .. n PROVE Ruled(stack[i].what) /\ DirOf(stack[i].what) = d
    <3>1. FitsFile(stack[k].what, stack[i])
      BY DEF Calling
    <3>2. stack[i].call = "depends"
      <4>1. CASE i = n
        BY <1>1, <3>1, <4>1 DEF FitsFile
      <4>2. CASE i # n
        <5>1. i \in 1 .. n - 1 /\ i > k
          BY <1>1, <4>2
        <5> QED
          BY <5>1 DEF Calling
      <4> QED
        BY <4>1, <4>2
    <3> QED
      BY <2>1, <3>1, <3>2 DEF FitsFile
  <2>3. \A i \in k + 1 .. n : w[i] \in RulesIn(project, d)
    BY <1>1, <2>2 DEF RulesIn, Ruled, DirOf
  <2>4. \A i, j \in k + 1 .. n : i < j => w[i] # w[j]
    BY <1>1, FilesDiffer
  <2>5. n + 1 - (k + 1) <= R
    <3>1. IsFiniteSet(RulesIn(project, d))
      BY <1>0, RuleDirsFinite
    <3>2. k + 1 \in Nat /\ k + 1 <= n + 1
      BY <1>7
    <3> HIDE DEF w
    <3> QED
      BY <2>3, <2>4, <3>1, <3>2, NoLonger
  <2>6. R \in Nat /\ D + R + 2 <= RecursionLimit
    <3>1. n \in k + 1 .. n
      BY <1>7
    <3>2. stack[n].what \in DOMAIN project.rules /\ stack[n].what[1] = d
      BY <2>2, <3>1 DEF Ruled, DirOf
    <3> QED
      BY <1>6, <3>2
  <2> HIDE DEF R, D
  <2> QED
    BY <1>1, <1>5, <2>5, <2>6, RecursionAssumption
<1>8. CASE k = n /\ n > 1
  <2>1. PICK f \in DOMAIN project.rules : Top.what = f[1]
    BY <1>2, <1>8 DEF RuleDirs
  <2>2. PICK R \in Nat : D + R + 2 <= RecursionLimit
    BY <1>6
  <2> HIDE DEF D
  <2> QED
    BY <1>5, <1>8, <2>2, RecursionAssumption
<1>9. CASE n = 1
  BY <1>9, RecursionAssumption
<1> QED
  BY <1>1, <1>7, <1>8, <1>9

-----------------------------------------------------------------------------
(* The steps.                                                              *)

LEMMA TopFacts ==
  ASSUME StackTypes, stack # <<>>, Top.todo # <<>>
  PROVE  /\ Taken \in Frames /\ Taken.call = Top.call /\ Taken.what = Top.what
         /\ Taken.todo = Tail(Top.todo) /\ Top.todo \in Seq(Files \cup Names)
         /\ Range(Top.todo) = {Head(Top.todo)} \cup Range(Tail(Top.todo))
<1>1. stack \in Seq(Frames)
  BY DEF StackTypes
<1>2. Top \in Frames
  BY <1>1 DEF Top, Last
<1>3. Top.todo \in Seq(Files \cup Names) /\ Top.what \in Files \cup Names /\ Top.call \in CallNames
      /\ Top = [call |-> Top.call, what |-> Top.what, todo |-> Top.todo]
  BY <1>2 DEF Frames
<1>4. Tail(Top.todo) \in Seq(Files \cup Names)
      /\ Range(Top.todo) = {Head(Top.todo)} \cup Range(Tail(Top.todo))
  BY <1>3, TailFacts
<1>5. Taken = [call |-> Top.call, what |-> Top.what, todo |-> Tail(Top.todo)]
  BY <1>3 DEF Taken
<1> QED
  BY <1>3, <1>4, <1>5 DEF Frames


LEMMA SameFiles ==
  ASSUME BuildInv, UNCHANGED <<project, src, built, begun, fileTime, is_built>>
  PROVE  Stays /\ FilesInv' /\ DirsDone' /\ Circle' = Circle
<1>1. Stays /\ FilesInv'
  BY SameStays, FilesSame DEF BuildInv
<1>2. DirsDone'
  BY <1>1, DoneStays, Unmade DEF Stays, BuildInv, DirsDone
<1>3. Circle' = Circle
  BY DEF Circle, DirectoryCircle, FileCircle, Followed, Depends, Here, DirOf, Needs, Rules
<1> QED
  BY <1>1, <1>2, <1>3

LEMMA CircleStays ==
  ASSUME project' = project
  PROVE  Circle' = Circle
BY DEF Circle, DirectoryCircle, FileCircle, Followed, Depends, Here, DirOf, Needs, Rules

LEMMA DirsStayDone ==
  ASSUME Stays, is_built' = is_built, DirsDone
  PROVE  DirsDone'
BY DoneStays, Unmade DEF Stays, DirsDone

\* A call that is refused means that directories or files go in a circle.
LEMMA Refused ==
  ASSUME BuildInv, stack # <<>>, Top.todo # <<>>, Top.call # "file", ~ (Len(stack) < RecursionLimit)
  PROVE  Circle
<1>1. PICK k \in 1 .. Len(stack) : Calling(k)
  BY DEF BuildInv, CallsInv
<1>2. FileTypes /\ StackTypes
  BY DEF BuildInv, FilesInv, CallsInv
<1>3. Len(stack) \in Nat
  BY <1>2 DEF StackTypes
<1> QED
  BY <1>1, <1>2, <1>3, RoomToCall

LEMMA NextDirectory ==
  ASSUME BuildInv, build_sequence
  PROVE  BuildInv'
<1>1. /\ stack # <<>> /\ Top.call = "dirs" /\ Top.todo # <<>>
      /\ UNCHANGED <<fileTime, project, src, built, is_built, edits, runs, begun>>
  BY DEF build_sequence
<1>2. Stays /\ FilesInv' /\ DirsDone' /\ Circle' = Circle
  BY <1>1, SameFiles
<1>3. FileTypes /\ StackTypes /\ project \in Projects
  BY DEF BuildInv, FilesInv, CallsInv, FileTypes
<1>4. PICK n \in Nat : n = Len(stack)
  BY <1>3 DEF StackTypes
<1>5. PICK k \in 1 .. Len(stack) : Calling(k)
  BY <1>1 DEF BuildInv, CallsInv
<1>6. n > 0 /\ k = n /\ Top = stack[n] /\ FitsDir(n, Top) /\ SoFar(n, Top, {})
  BY <1>1, <1>3, <1>4, <1>5, TopPlace
<1> DEFINE d == Head(Top.todo)
           S == IF n = 1 THEN {project.goal} ELSE dependency_dirs(Top.what)
<1>7. /\ Taken \in Frames /\ Taken.call = Top.call /\ Taken.what = Top.what
      /\ Taken.todo = Tail(Top.todo) /\ Range(Top.todo) = {d} \cup Range(Tail(Top.todo))
  BY <1>1, <1>3, TopFacts
<1>8. Top.todo \in Seq(S) /\ Tail(Top.todo) \in Seq(S) /\ d \in S /\ Top.what \in Names
  <2>1. Top.todo \in Seq(S) /\ Top.what \in Names
    BY <1>1, <1>6 DEF FitsDir
  <2> HIDE DEF S
  <2> QED
    BY <1>1, <2>1, HeadTailProperties
<1>9. FitsDir(n, Taken)
  BY <1>1, <1>7, <1>8 DEF FitsDir
<1>10. CASE d \in is_built
  <2>1. stack' = Append(Below, Taken) /\ outcome' = outcome
    BY <1>10, <1>1 DEF build_sequence
  <2>2. SoFar(n, Taken, {})
    BY <1>1, <1>6, <1>7, <1>10 DEF SoFar
  <2>3. CallsInv'
    BY <1>1, <1>2, <1>4, <1>5, <1>6, <1>7, <1>9, <2>1, <2>2, GoesOn DEF BuildInv
  <2> QED
    BY <1>2, <2>1, <2>3 DEF BuildInv, NoCircle, Circle
<1>11. CASE d \notin is_built
  <2>1. PICK order \in SetToSeqs(dependency_dirs(d)) : Calls("dirs", d, order)
    BY <1>11 DEF build_sequence
  <2>2. order \in Seq(dependency_dirs(d)) /\ Range(order) = dependency_dirs(d) /\ dependency_dirs(d) \subseteq Names
    BY <1>3, NeededFacts, SetToSeqsFacts
  <2>3. d \in Names
    BY <1>3, <1>8, NeededFacts, ProjectFacts
  <2> DEFINE a == Frame("dirs", d, order)
  <2>4. a.call = "dirs" /\ a.what = d /\ a.todo = order
    BY DEF Frame
  <2>5. a \in Frames
    <3>1. order \in Seq(Files \cup Names)
      BY <2>2
    <3> QED
      BY <2>3, <3>1 DEF Frame, Frames, CallNames
  <2>6. CASE Len(stack) < RecursionLimit
    <3>1. stack' = Append(Append(Below, Taken), a) /\ outcome' = outcome
      BY <2>1, <2>6 DEF Calls
    <3> HIDE DEF a
    <3>2. PICK a1 : a1 = a
      OBVIOUS
    <3>3. FitsDir(n + 1, a1)
      <4>1. n + 1 # 1
        BY <1>6
      <4> QED
        BY <2>2, <2>3, <2>4, <3>2, <4>1 DEF FitsDir
    <3>4. Linked(n, Taken, a1.what)
      <4>1. n > 1 => d \in dependency_dirs(Top.what)
        BY <1>8
      <4> QED
        BY <1>1, <1>7, <2>4, <3>2, <4>1 DEF Linked
    <3>5. SoFar(n, Taken, {a1.what}) /\ SoFar(n + 1, a1, {})
      BY <1>1, <1>6, <1>7, <2>2, <2>4, <3>2 DEF SoFar
    <3>6. CallsInv'
      <4>1. n + 1 \in Nat /\ k \in Nat /\ n + 1 = k + 1 /\ k = Len(stack)
        BY <1>4, <1>6
      <4> QED
        BY <1>1, <1>2, <1>4, <1>5, <1>7, <1>9, <2>4, <2>5, <2>6, <3>1, <3>2, <3>3, <3>4, <3>5, <4>1,
           AsksFor DEF BuildInv
    <3> QED
      BY <1>2, <3>1, <3>6 DEF BuildInv, NoCircle, Circle
  <2>7. CASE ~ (Len(stack) < RecursionLimit)
    <3>1. stack' = <<>> /\ outcome' = "recursion"
      BY <2>1, <2>7 DEF Calls
    <3>2. Circle
      BY <1>1, <2>7, Refused
    <3> QED
      BY <1>2, <3>1, <3>2, NoCalls DEF BuildInv, NoCircle, Circle
  <2> QED
    BY <2>6, <2>7
<1> QED
  BY <1>10, <1>11
\* What is asked for is there, or the files of the directory are built.
LEMMA FilesOfDirectory ==
  ASSUME BuildInv, BuildHere
  PROVE  BuildInv'
<1>1. /\ stack # <<>> /\ Top.call = "dirs" /\ Top.todo = <<>>
      /\ UNCHANGED <<fileTime, project, src, built, is_built, edits, runs, begun>>
  BY DEF BuildHere
<1>2. Stays /\ FilesInv' /\ DirsDone' /\ Circle' = Circle
  BY <1>1, SameFiles
<1>3. FileTypes /\ StackTypes /\ project \in Projects
  BY DEF BuildInv, FilesInv, CallsInv, FileTypes
<1>4. PICK n \in Nat : n = Len(stack)
  BY <1>3 DEF StackTypes
<1>5. PICK k \in 1 .. Len(stack) : Calling(k)
  BY <1>1 DEF BuildInv, CallsInv
<1>6. n > 0 /\ k = n /\ Top = stack[n] /\ FitsDir(n, Top) /\ SoFar(n, Top, {})
  BY <1>1, <1>3, <1>4, <1>5, TopPlace
<1>7. CASE n = 1
  <2>1. stack' = <<>> /\ outcome' = "ok"
    BY <1>4, <1>7 DEF BuildHere
  <2> QED
    BY <1>2, <2>1, NoCalls DEF BuildInv, NoCircle, Circle
<1>8. CASE n # 1
  <2>1. stack' = Append(Below, Frame("all", Top.what, Rules(Top.what))) /\ outcome' = outcome
    BY <1>4, <1>8 DEF BuildHere
  <2>2. PICK c : c = Frame("all", Top.what, Rules(Top.what))
    OBVIOUS
  <2>3. c.call = "all" /\ c.what = Top.what /\ c.todo = Rules(Top.what)
        /\ c = [call |-> c.call, what |-> c.what, todo |-> c.todo]
    BY <2>2 DEF Frame
  <2>4. Rules(Top.what) \in Seq(Files) /\ Rules(Top.what) \in Seq(Range(Rules(Top.what)))
    <3>1. Rules(Top.what) \in Seq(Files)
      BY <1>3, RulesFacts
    <3> QED
      BY <3>1, RangeFacts
  <2>5. Top.what \in Names
    BY <1>6 DEF FitsDir
  <2>6. c \in Frames
    <3>1. Rules(Top.what) \in Seq(Files \cup Names)
      BY <2>4
    <3>2. Top.what \in Files \cup Names /\ "all" \in CallNames
      BY <2>5 DEF CallNames
    <3> QED
      BY <2>3, <3>1, <3>2 DEF Frames
  <2>7. FitsDir(n, c)
    BY <1>6, <1>8, <2>3, <2>4, <2>5 DEF FitsDir
  <2>8. Range(Top.todo) = {}
    BY <1>1 DEF Range
  <2>9. dependency_dirs(Top.what) \subseteq is_built
    BY <1>1, <1>6, <1>8, <2>8 DEF SoFar
  <2>10. SoFar(n, c, {})
    BY <2>3, <2>9 DEF SoFar
  <2>11. CallsInv'
    BY <1>1, <1>2, <1>4, <1>5, <1>6, <2>1, <2>2, <2>3, <2>6, <2>7, <2>10, GoesOn DEF BuildInv
  <2> QED
    BY <1>2, <2>1, <2>11 DEF BuildInv, NoCircle, Circle
<1> QED
  BY <1>7, <1>8

\* The files of a directory, one by one, and the directory is built.
LEMMA FilesInTurn ==
  ASSUME BuildInv, build_all
  PROVE  BuildInv'
<1>1. stack # <<>> /\ Top.call = "all" /\ UNCHANGED <<fileTime, project, src, built, edits, runs, begun>>
  BY DEF build_all
<1>2. Stays /\ FilesInv' /\ Circle' = Circle
  BY <1>1, SameStays, FilesSame, CircleStays DEF BuildInv
<1>3. FileTypes /\ StackTypes /\ project \in Projects
  BY DEF BuildInv, FilesInv, CallsInv, FileTypes
<1>4. PICK n \in Nat : n = Len(stack)
  BY <1>3 DEF StackTypes
<1>5. PICK k \in 1 .. Len(stack) : Calling(k)
  BY <1>1 DEF BuildInv, CallsInv
<1>6. n > 1 /\ k = n /\ Top = stack[n] /\ FitsDir(n, Top) /\ SoFar(n, Top, {}) /\ Top \in Frames
  BY <1>1, <1>3, <1>4, <1>5, TopPlace
<1>7. CASE Top.todo = <<>>
  <2>1. stack' = Below /\ outcome' = outcome /\ is_built' = is_built \cup {Top.what}
    BY <1>7 DEF build_all, Return
  <2>2. Range(Top.todo) = {}
    BY <1>7 DEF Range
  <2>3. \A f \in Range(Rules(Top.what)) : Done(f)
    BY <1>1, <1>6, <2>2 DEF SoFar
  <2>4. DirsDone'
    <3>1. \A d : Rules(d)' = Rules(d)
      BY <1>2, Unmade DEF Stays
    <3>2. \A d \in is_built' : \A f \in Range(Rules(d)) : Done(f)
      BY <2>1, <2>3 DEF BuildInv, DirsDone
    <3>3. \A f : Done(f) => Done(f)'
      BY <1>2, DoneStays
    <3> QED
      BY <3>1, <3>2, <3>3 DEF DirsDone
  <2>5. PICK m \in Nat : m + 1 = n /\ m > 0
    <3>1. n - 1 \in Nat /\ (n - 1) + 1 = n /\ n - 1 > 0
      BY <1>6
    <3> QED
      BY <3>1
  <2>6. m \in 1 .. Len(stack) - 1 /\ m \in 1 .. Len(stack) /\ m < Len(stack) /\ m \in 1 .. k /\ m < k
    BY <1>4, <1>6, <2>5
  <2>7. PICK c : c = stack[m]
    OBVIOUS
  <2>8. SoFar(m, c, {Top.what}) /\ c.call = "dirs"
    <3>1. InIt(m) = {Top.what}
      BY <1>6, <2>5, <2>6 DEF InIt
    <3> QED
      BY <1>5, <2>6, <2>7, <3>1 DEF Calling
  <2>9. is_built \subseteq is_built' /\ Top.what \in is_built'
    BY <2>1
  <2>10. PICK what : what = Top.what
    OBVIOUS
  <2>11. SoFar(m, c, {what})'
    BY <1>2, <2>8, <2>9, <2>10, SoFarStays
  <2>12. SoFar(m, c, {})'
    BY <2>8, <2>9, <2>10, <2>11 DEF SoFar
  <2>13. stack'[m] = stack[m]
    <3>1. stack \in Seq(Frames)
      BY <1>3 DEF StackTypes
    <3> QED
      BY <1>1, <1>6, <2>1, <2>6, <3>1, LastFacts DEF Below
  <2>14. SoFar(m, stack[m], {})'
    BY <2>7, <2>12, <2>13
  <2>15. stack' # <<>> /\ stack' \in Seq(Frames) /\ Len(stack') = m /\ Calling(IF k <= m THEN k ELSE m)'
    BY <1>2, <1>3, <1>4, <1>5, <2>1, <2>5, <2>9, <2>14, Returns
  <2>16. Calling(m)' /\ m \in 1 .. Len(stack')
    <3>1. (IF k <= m THEN k ELSE m) = m
      BY <1>6, <2>5
    <3> QED
      BY <2>5, <2>15, <3>1
  <2>17. StackTypes'
    <3>1. Len(stack') <= RecursionLimit
      BY <1>3, <1>4, <2>5, <2>15, RecursionAssumption DEF StackTypes
    <3> QED
      BY <1>3, <2>1, <2>15, <3>1 DEF StackTypes
  <2>18. CallsInv'
    BY <2>16, <2>17 DEF CallsInv
  <2> QED
    BY <1>2, <2>1, <2>4, <2>18 DEF BuildInv, NoCircle, Circle
<1>8. CASE Top.todo # <<>>
  <2> DEFINE f == Head(Top.todo)
  <2>1. Calls("file", f, <<>>) /\ is_built' = is_built
    BY <1>8 DEF build_all
  <2>2. DirsDone'
    BY <1>2, <2>1, DirsStayDone DEF BuildInv
  <2>3. /\ Taken \in Frames /\ Taken.call = Top.call /\ Taken.what = Top.what
        /\ Taken.todo = Tail(Top.todo) /\ Range(Top.todo) = {f} \cup Range(Tail(Top.todo))
    BY <1>1, <1>3, <1>8, TopFacts
  <2> DEFINE S == Range(Rules(Top.what))
  <2>4. Tail(Top.todo) \in Seq(S) /\ f \in S /\ Top.what \in Names
    <3>1. Top.todo \in Seq(S) /\ Top.what \in Names
      BY <1>1, <1>6 DEF FitsDir
    <3> HIDE DEF S
    <3> QED
      BY <1>8, <3>1, HeadTailProperties
  <2>5. f \in DOMAIN project.rules /\ DirOf(f) = Top.what /\ f \in Files
    BY <1>3, <2>4, RulesFacts, ProjectFacts
  <2>6. FitsDir(n, Taken)
    BY <1>1, <1>6, <2>3, <2>4 DEF FitsDir
  <2>7. PICK a : a = Frame("file", f, <<>>)
    OBVIOUS
  <2>8. a.call = "file" /\ a.what = f /\ a \in Frames
    BY <2>5, <2>7 DEF Frame, Frames, CallNames
  <2>9. CASE Len(stack) < RecursionLimit
    <3>1. stack' = Append(Append(Below, Taken), a) /\ outcome' = outcome
      BY <2>1, <2>7, <2>9 DEF Calls
    <3>2. FitsFile(stack[k].what, a)
      BY <1>6, <2>5, <2>8 DEF FitsFile, Called
    <3>3. Linked(n, Taken, a.what)
      BY <1>1, <2>3, <2>4, <2>8 DEF Linked
    <3>4. SoFar(n, Taken, {a.what}) /\ SoFar(n + 1, a, {})
      BY <1>1, <1>6, <2>3, <2>8 DEF SoFar
    <3>5. CallsInv'
      <4>1. k \in Nat /\ k = Len(stack) /\ ~ (k < Len(stack))
        BY <1>4, <1>6
      <4> QED
        BY <1>1, <1>2, <1>4, <1>5, <1>6, <2>1, <2>3, <2>6, <2>8, <2>9, <3>1, <3>2, <3>3, <3>4, <4>1,
           AsksFor DEF BuildInv
    <3> QED
      BY <1>2, <2>2, <3>1, <3>5 DEF BuildInv, NoCircle, Circle
  <2>10. CASE ~ (Len(stack) < RecursionLimit)
    <3>1. stack' = <<>> /\ outcome' = "recursion"
      BY <2>1, <2>10 DEF Calls
    <3>2. Circle
      BY <1>1, <1>8, <2>10, Refused
    <3> QED
      BY <1>2, <2>2, <3>1, <3>2, NoCalls DEF BuildInv, NoCircle, Circle
  <2> QED
    BY <2>9, <2>10
<1> QED
  BY <1>7, <1>8

\* The call at work is of a file.
LEMMA FileAtWork ==
  ASSUME BuildInv, stack # <<>>, Top.call \in {"file", "depends"}
  PROVE  /\ FileTypes /\ StackTypes /\ project \in Projects /\ CallsInv
         /\ \E n \in Nat, k \in Nat :
              /\ n = Len(stack) /\ k \in 1 .. Len(stack) /\ Calling(k) /\ n > 0 /\ k < n
              /\ Top = stack[n] /\ SoFar(n, Top, {}) /\ FitsFile(stack[k].what, Top)
         /\ Top.what \in Files /\ DirOf(Top.what) \in Names
<1>1. FileTypes /\ StackTypes /\ project \in Projects /\ CallsInv
  BY DEF BuildInv, FilesInv, CallsInv, FileTypes
<1>2. PICK n \in Nat : n = Len(stack)
  BY <1>1 DEF StackTypes
<1>3. PICK k \in 1 .. Len(stack) : Calling(k)
  BY DEF BuildInv, CallsInv
<1>4. /\ n > 0 /\ k < n /\ Top = stack[n] /\ SoFar(n, Top, {})
      /\ FitsFile(stack[k].what, Top)
  BY <1>1, <1>2, <1>3, TopPlace
<1>5. Top.what \in Files
  BY <1>4 DEF FitsFile
<1>6. DirOf(Top.what) \in Names
  BY <1>5 DEF Files, DirOf
<1>7. k \in Nat
  BY <1>2, <1>3
<1> QED
  BY <1>1, <1>2, <1>3, <1>4, <1>5, <1>6, <1>7

LEMMA FileCalled ==
  ASSUME project \in Projects, NEW d, NEW c, FitsFile(d, c)
  PROVE  Called(c.what) /\ (c.call = "depends" => Ruled(c.what) /\ c.what \in DOMAIN project.rules \ DOMAIN src)
BY DEF FitsFile, Called, Ruled

\* A file with a source is copied, or its copy is up to date.
LEMMA Copy ==
  ASSUME BuildInv, CopySource
  PROVE  BuildInv'
<1> DEFINE f == Top.what
<1>1. /\ stack # <<>> /\ Top.call = "file" /\ f \in DOMAIN src /\ stack' = Below /\ outcome' = outcome
      /\ UNCHANGED <<project, src, is_built, edits, runs, begun>>
  BY DEF CopySource, Return
<1>2. /\ FileTypes /\ StackTypes /\ project \in Projects /\ CallsInv /\ FilesInv /\ CopiesTrue
  BY <1>1, FileAtWork DEF BuildInv, FilesInv
<1>3. Called(f)
  BY <1>1, FileAtWork, FileCalled
<1>4. ~ Ruled(f) /\ ~ Skipped(f)
  BY <1>1 DEF Ruled, Skipped
<1> HIDE DEF f
<1>5. PICK g : g = f
  OBVIOUS
<1>6. Stays /\ Made(g)' /\ FilesInv'
  <2>1. CASE UpToDate(f)
    <3>1. UNCHANGED <<built, fileTime>>
      BY <2>1 DEF CopySource, f
    <3>2. Made(g)
      BY <1>2, <1>5, <2>1, CopyIsMade
    <3>3. Stays
      BY <1>1, <3>1, SameStays
    <3>4. FilesInv'
      BY <1>1, <1>2, <3>1, FilesSame
    <3> QED
      BY <3>2, <3>3, <3>4 DEF Stays
  <2>2. CASE ~ UpToDate(f)
    <3>1. Put(f, Version(f)) /\ TimePasses
      BY <2>2 DEF CopySource, f
    <3>2. /\ Version(f) \subseteq Versions
          /\ \A v \in Version(f) : v[1] = f /\ v[2] = src[f].ver
          /\ \E v \in Version(f) : v[1] = f /\ v[2] = src[f].ver
      BY <1>1, <1>2, VersionFacts DEF f
    <3>3. \A s \in Sources(f) :
            \E v \in Version(f) : v[1] = s /\ (src[s].mtime < begun => v[2] = src[s].ver)
      <4>1. \A s \in Sources(f) : s = f
        BY <1>1, SourceOfItself DEF f
      <4> QED
        BY <3>2, <4>1
    <3>4. Stays /\ Made(g)'
      BY <1>1, <1>2, <1>5, <3>1, <3>3, PutStays
    <3>5. \A v \in Version(f) : v[2] <= src[v[1]].ver
      <4>1. src[f].ver \in Nat
        BY <1>1, <1>2 DEF FileTypes, f
      <4> QED
        BY <3>2, <4>1
    <3>6. f \in AllFiles
      BY <1>1 DEF AllFiles, f
    <3>7. FilesInv'
      BY <1>1, <1>2, <1>3, <1>4, <3>1, <3>2, <3>5, <3>6, FilesPut
    <3> QED
      BY <3>4, <3>7
  <2> QED
    BY <2>1, <2>2
<1>7. Done(g)'
  <2>1. ~ Ruled(g)'
    BY <1>4, <1>5, <1>6, Unmade DEF Stays
  <2> QED
    BY <1>6, <2>1 DEF Done
<1>8. CallsInv'
  BY <1>1, <1>2, <1>5, <1>6, <1>7, FileReturns DEF f
<1>9. DirsDone' /\ Circle' = Circle
  BY <1>1, <1>6, DirsStayDone, CircleStays DEF BuildInv
<1> QED
  BY <1>1, <1>6, <1>8, <1>9 DEF BuildInv, NoCircle, Circle

\* A file without a source has a rule, that is followed unless it says to skip the file.
LEMMA Rule ==
  ASSUME BuildInv, FollowRule
  PROVE  BuildInv'
<1> DEFINE f == Top.what
<1>1. /\ stack # <<>> /\ Top.call = "file" /\ f \notin DOMAIN src
      /\ UNCHANGED <<fileTime, project, src, built, is_built, edits, runs, begun>>
      /\ IF f \notin DOMAIN project.rules THEN Raise("norule")
         ELSE IF project.rules[f].kind = "skip" THEN Return
         ELSE stack' = Append(Below, Frame("depends", f, depends(f))) /\ outcome' = outcome
  BY DEF FollowRule
<1>2. Stays /\ FilesInv' /\ DirsDone' /\ Circle' = Circle
  BY <1>1, SameFiles
<1>3. FileTypes /\ StackTypes /\ project \in Projects /\ CallsInv /\ f \in Files
  BY <1>1, FileAtWork
<1>4. PICK n \in Nat, k \in Nat :
        /\ n = Len(stack) /\ k \in 1 .. Len(stack) /\ Calling(k) /\ n > 0 /\ k < n
        /\ Top = stack[n] /\ SoFar(n, Top, {}) /\ FitsFile(stack[k].what, Top)
  BY <1>1, FileAtWork
<1> HIDE DEF f
<1>5. CASE f \notin DOMAIN project.rules
  <2>1. stack' = <<>> /\ outcome' = "norule"
    BY <1>1, <1>5 DEF Raise
  <2> QED
    BY <1>2, <2>1, NoCalls DEF BuildInv, NoCircle, Circle
<1>6. CASE f \in DOMAIN project.rules /\ project.rules[f].kind = "skip"
  <2>1. stack' = Below /\ outcome' = outcome
    BY <1>1, <1>6 DEF Return
  <2>2. PICK g : g = f
    OBVIOUS
  <2>3. Done(g)
    BY <1>1, <1>6, <2>2 DEF Done, Made, Skipped, Ruled, f
  <2>4. Done(g)'
    BY <1>2, <2>3, DoneStays
  <2>5. CallsInv'
    BY <1>1, <1>2, <1>3, <2>1, <2>2, <2>4, FileReturns DEF f
  <2> QED
    BY <1>2, <2>1, <2>5 DEF BuildInv, NoCircle, Circle
<1>7. CASE f \in DOMAIN project.rules /\ project.rules[f].kind # "skip"
  <2>1. stack' = Append(Below, Frame("depends", f, depends(f))) /\ outcome' = outcome
    BY <1>1, <1>7
  <2>2. PICK c : c = Frame("depends", f, depends(f))
    OBVIOUS
  <2>3. c.call = "depends" /\ c.what = f /\ c.todo = depends(f)
        /\ c = [call |-> c.call, what |-> c.what, todo |-> c.todo]
    BY <2>2 DEF Frame
  <2>4. depends(f) \in Seq(Files)
    BY <1>3, <1>7, DependsFacts
  <2>5. depends(f) \in Seq(Range(depends(f)))
    BY <2>4, RangeFacts
  <2>6. c \in Frames
    <3>1. depends(f) \in Seq(Files \cup Names)
      BY <2>4
    <3>2. f \in Files \cup Names /\ "depends" \in CallNames
      BY <1>3 DEF CallNames
    <3> QED
      BY <2>3, <3>1, <3>2 DEF Frames
  <2>7. Ruled(f)
    BY <1>1, <1>7 DEF Ruled, f
  <2>8. FitsFile(stack[k].what, c)
    <3>1. DirOf(f) = stack[k].what /\ f \in Files
      BY <1>3, <1>4 DEF FitsFile, f
    <3> QED
      BY <2>3, <2>5, <2>7, <3>1 DEF FitsFile
  <2>9. SoFar(n, c, {})
    BY <2>3 DEF SoFar
  <2>10. CallsInv'
    <3>1. k < Len(stack) /\ k # Len(stack) /\ c.what = Top.what
      BY <1>4, <2>3 DEF f
    <3> QED
      BY <1>1, <1>2, <1>3, <1>4, <2>1, <2>2, <2>6, <2>8, <2>9, <3>1, GoesOn
  <2> QED
    BY <1>2, <2>1, <2>10 DEF BuildInv, NoCircle, Circle
<1> QED
  BY <1>5, <1>6, <1>7

\* A file of the directory comes before one that depends on it.
LEMMA Dependency ==
  ASSUME BuildInv, Depend
  PROVE  BuildInv'
<1> DEFINE f == Top.what
           p == Head(Top.todo)
<1>1. /\ stack # <<>> /\ Top.call = "depends" /\ Top.todo # <<>>
      /\ UNCHANGED <<fileTime, project, src, built, is_built, edits, runs, begun>>
      /\ IF p[1] # "" THEN stack' = Append(Below, Taken) /\ outcome' = outcome
         ELSE Calls("file", Here(DirOf(f), p), <<>>)
  BY DEF Depend
<1>2. Stays /\ FilesInv' /\ DirsDone' /\ Circle' = Circle
  BY <1>1, SameFiles
<1>3. /\ FileTypes /\ StackTypes /\ project \in Projects /\ CallsInv /\ f \in Files /\ DirOf(f) \in Names
  BY <1>1, FileAtWork
<1>4. PICK n \in Nat, k \in Nat :
        /\ n = Len(stack) /\ k \in 1 .. Len(stack) /\ Calling(k) /\ n > 0 /\ k < n
        /\ Top = stack[n] /\ SoFar(n, Top, {}) /\ FitsFile(stack[k].what, Top)
  BY <1>1, FileAtWork
<1>5. /\ Taken \in Frames /\ Taken.call = "depends" /\ Taken.what = f
      /\ Taken.todo = Tail(Top.todo) /\ Range(Top.todo) = {p} \cup Range(Tail(Top.todo))
  BY <1>1, <1>3, TopFacts
<1> DEFINE S == Range(depends(f))
<1>6. Tail(Top.todo) \in Seq(S) /\ p \in S
  <2>1. Top.todo \in Seq(S)
    BY <1>1, <1>4 DEF FitsFile
  <2> HIDE DEF S
  <2> QED
    BY <1>1, <2>1, HeadTailProperties
<1>7. Ruled(f) /\ DirOf(f) = stack[k].what /\ f \in DOMAIN project.rules
  BY <1>1, <1>4 DEF FitsFile, Ruled
<1>8. FitsFile(stack[k].what, Taken)
  BY <1>3, <1>5, <1>6, <1>7 DEF FitsFile
<1>9. k < Len(stack) /\ k # Len(stack) /\ k \in 1 .. Len(stack) /\ n \in Nat
  BY <1>4
<1>10. CASE p[1] # ""
  <2>1. stack' = Append(Below, Taken) /\ outcome' = outcome
    BY <1>1, <1>10
  <2>2. SoFar(n, Taken, {})
    BY <1>1, <1>4, <1>5, <1>10 DEF SoFar
  <2>3. CallsInv'
    BY <1>1, <1>2, <1>3, <1>4, <1>5, <1>8, <1>9, <2>1, <2>2, GoesOn
  <2> QED
    BY <1>2, <2>1, <2>3 DEF BuildInv, NoCircle, Circle
<1>11. CASE p[1] = ""
  <2> DEFINE g == Here(DirOf(f), p)
  <2>1. Calls("file", g, <<>>)
    BY <1>1, <1>11
  <2>2. g \in Local(f)
    BY <1>6, <1>11 DEF Local
  <2>3. g \in Files /\ DirOf(g) = DirOf(f)
    <3>1. p \in Files
      BY <1>3, <1>6, <1>7, DependsFacts
    <3> QED
      BY <1>3, <1>11, <3>1, HereFacts
  <2>4. PICK a : a = Frame("file", g, <<>>)
    OBVIOUS
  <2> HIDE DEF g
  <2>5. a.call = "file" /\ a.what = g /\ a \in Frames
    BY <2>3, <2>4 DEF Frame, Frames, CallNames
  <2>6. FitsFile(stack[k].what, a)
    <3>1. Called(g)
      BY <1>7, <2>2, <2>3 DEF Called
    <3> QED
      BY <1>7, <2>3, <2>5, <3>1 DEF FitsFile
  <2>7. CASE Len(stack) < RecursionLimit
    <3>1. stack' = Append(Append(Below, Taken), a) /\ outcome' = outcome
      BY <2>1, <2>4, <2>7 DEF Calls
    <3>2. Linked(n, Taken, a.what)
      BY <1>5, <2>2, <2>5 DEF Linked
    <3>3. SoFar(n, Taken, {a.what}) /\ SoFar(n + 1, a, {})
      BY <1>1, <1>4, <1>5, <2>5 DEF SoFar, g
    <3>4. CallsInv'
      BY <1>1, <1>2, <1>3, <1>4, <1>5, <1>8, <1>9, <2>5, <2>6, <2>7, <3>1, <3>2, <3>3, AsksFor
    <3> QED
      BY <1>2, <3>1, <3>4 DEF BuildInv, NoCircle, Circle
  <2>8. CASE ~ (Len(stack) < RecursionLimit)
    <3>1. stack' = <<>> /\ outcome' = "recursion"
      BY <2>1, <2>8 DEF Calls
    <3>2. Circle
      BY <1>1, <2>8, Refused
    <3> QED
      BY <1>2, <3>1, <3>2, NoCalls DEF BuildInv, NoCircle, Circle
  <2> QED
    BY <2>7, <2>8
<1> QED
  BY <1>10, <1>11

\* A rule is carried out, or it fails.
LEMMA RuleCarriedOut ==
  ASSUME BuildInv, Build
  PROVE  BuildInv'
<1> DEFINE f == Top.what
           from == UNION ({Version(p) : p \in Copied(f)} \cup {built[p].from : p \in Read(f)})
<1>1. /\ stack # <<>> /\ Top.call = "depends" /\ Top.todo = <<>> /\ TimePasses
      /\ UNCHANGED <<project, src, is_built, edits, runs, begun>>
      /\ \/ /\ stack' = <<>> /\ outcome' \in {"failed", "nocopy"} /\ UNCHANGED built
         \/ /\ Copied(f) \subseteq DOMAIN src /\ Read(f) \subseteq DOMAIN built /\ Put(f, from)
            /\ stack' = Below /\ outcome' = outcome
  BY DEF Build, Raise, Return
<1>2. /\ FileTypes /\ StackTypes /\ project \in Projects /\ CallsInv /\ FilesInv /\ DirsDone
      /\ BuiltCalled /\ stack \in Seq(Frames)
  BY <1>1, FileAtWork DEF BuildInv, FilesInv, StackTypes
<1>3. PICK n \in Nat, k \in Nat :
        /\ n = Len(stack) /\ k \in 1 .. Len(stack) /\ Calling(k) /\ n > 0 /\ k < n
        /\ Top = stack[n] /\ SoFar(n, Top, {}) /\ FitsFile(stack[k].what, Top)
  BY <1>1, FileAtWork
<1>4. /\ Ruled(f) /\ f \in DOMAIN project.rules \ DOMAIN src /\ Called(f) /\ ~ Skipped(f) /\ f \in AllFiles
  BY <1>1, <1>2, <1>3, FileCalled DEF Ruled, Skipped, AllFiles
<1>5. CASE stack' = <<>> /\ outcome' \in {"failed", "nocopy"} /\ UNCHANGED built
  <2>1. Stays
    BY <1>1, <1>5, SameStays
  <2>2. FilesInv'
    BY <1>1, <1>2, <1>5, FilesTime
  <2>3. DirsDone'
    BY <1>1, <1>2, <2>1, DirsStayDone
  <2>4. CallsInv'
    BY <1>5, NoCalls
  <2>5. NoCircle'
    BY <1>5 DEF NoCircle
  <2> QED
    BY <2>2, <2>3, <2>4, <2>5 DEF BuildInv
<1>6. CASE /\ Copied(f) \subseteq DOMAIN src /\ Read(f) \subseteq DOMAIN built /\ Put(f, from)
           /\ stack' = Below /\ outcome' = outcome
  <2>1. (\A g \in Read(f) : Current(g)) /\ (\A g \in Local(f) : Made(g))
    BY <1>1, <1>2, <1>3, <1>6, ReadIsMade
  <2>2. PICK h : h = f
    OBVIOUS
  <2>3. \A s \in Sources(h) :
          \E v \in from : v[1] = s /\ (src[s].mtime < begun => v[2] = src[s].ver)
    BY <1>2, <1>4, <1>6, <2>1, <2>2, BuildIsMade
  <2>4. \A v \in from : v \in Versions /\ v[2] <= src[v[1]].ver
    <3>1. ASSUME NEW v \in from PROVE v \in Versions /\ v[2] <= src[v[1]].ver
      <4>1. CASE \E p \in Copied(f) : v \in Version(p)
        <5>1. PICK p \in Copied(f) : v \in Version(p)
          BY <4>1
        <5>2. p \in DOMAIN src
          BY <1>6
        <5>3. v \in Versions /\ v[1] = p /\ v[2] = src[p].ver
          BY <1>2, <5>1, <5>2, VersionFacts
        <5>4. src[p].ver \in Nat
          BY <1>2, <5>2 DEF FileTypes
        <5> QED
          BY <5>3, <5>4
      <4>2. CASE \E p \in Read(f) : v \in built[p].from
        <5>1. PICK p \in Read(f) : v \in built[p].from
          BY <4>2
        <5>2. p \in DOMAIN built
          BY <1>6
        <5> QED
          BY <1>2, <5>1, <5>2 DEF FileTypes
      <4> QED
        BY <4>1, <4>2
    <3> QED
      BY <3>1
  <2> HIDE DEF f, from
  <2>5. PICK made : made = from
    OBVIOUS
  <2>6. Put(h, made)
    BY <1>6, <2>2, <2>5
  <2>7. Stays /\ Made(h)'
    BY <1>1, <1>2, <2>3, <2>5, <2>6, PutStays
  <2>8. FilesInv'
    <3>1. /\ h \in AllFiles /\ Called(h) /\ ~ Skipped(h) /\ h \notin DOMAIN src
          /\ made \subseteq Versions /\ \A v \in made : v[2] <= src[v[1]].ver
      BY <1>4, <2>2, <2>4, <2>5
    <3> QED
      BY <1>1, <1>2, <2>6, <3>1, FilesPut
  <2>9. Done(h)'
    <3>1. \A g : Local(g)' = Local(g)
      BY <2>7, Unmade DEF Stays
    <3>2. \A g \in Local(h)' : Made(g)'
      BY <2>1, <2>2, <2>7, <3>1 DEF Stays
    <3> QED
      BY <2>7, <3>2 DEF Done
  <2>10. CallsInv'
    BY <1>1, <1>2, <1>6, <2>2, <2>7, <2>9, FileReturns DEF f
  <2>11. DirsDone' /\ Circle' = Circle
    BY <1>1, <1>2, <2>7, DirsStayDone, CircleStays
  <2> QED
    BY <1>6, <2>8, <2>10, <2>11 DEF BuildInv, NoCircle, Circle
<1> QED
  BY <1>1, <1>5, <1>6

LEMMA OneOnly ==
  ASSUME NEW S, NEW x \in S
  PROVE  <<x>> \in Seq(S) /\ Len(<<x>>) = 1 /\ <<x>>[1] = x /\ <<x>> # <<>>
OBVIOUS

\* A run begins.
LEMMA RunBegins ==
  ASSUME BuildInv, StartRun
  PROVE  BuildInv'
<1> DEFINE c == [call |-> "dirs", what |-> "", todo |-> <<project.goal>>]
<1>1. /\ is_built' = {} /\ outcome' = "none" /\ begun' = fileTime /\ stack' = <<c>>
      /\ TimePasses /\ UNCHANGED <<project, src, built>>
  BY DEF StartRun, Frame
<1>2. FilesInv /\ FileTypes /\ StackTypes /\ project \in Projects
  BY DEF BuildInv, FilesInv, CallsInv, FileTypes
<1>3. FilesInv'
  BY <1>1, <1>2, FilesTime
<1>4. c.what \in Names /\ project.goal \in Names /\ c.call = "dirs" /\ c.todo = <<project.goal>>
  BY <1>2, ProjectFacts DEF Names
<1>5. c \in Frames
  <2>1. project.goal \in Files \cup Names
    BY <1>4
  <2>2. <<project.goal>> \in Seq(Files \cup Names)
    BY <2>1, OneOnly
  <2> QED
    BY <1>4, <2>2 DEF Frames, CallNames
<1>6. stack' \in Seq(Frames) /\ Len(stack') = 1 /\ stack'[1] = c /\ stack' # <<>>
  <2> HIDE DEF c
  <2> QED
    BY <1>1, <1>5, OneOnly
<1>7. StackTypes'
  <2> HIDE DEF c
  <2>1. 1 <= RecursionLimit
    BY RecursionAssumption
  <2>2. Len(stack') <= RecursionLimit
    BY <1>6, <2>1
  <2> QED
    BY <1>1, <1>6, <2>2 DEF StackTypes
<1>8. c.todo \in Seq({project.goal}) /\ project' = project
  <2>1. <<project.goal>> \in Seq({project.goal})
    OBVIOUS
  <2> QED
    BY <1>1, <1>4, <2>1
<1>9. PICK e : e = c
  OBVIOUS
<1> HIDE DEF c
<1>10. FitsDir(1, e)' /\ SoFar(1, e, {})' /\ stack'[1] = e
  <2>1. e.call = "dirs" /\ e.what \in Names /\ e.todo \in Seq({project'.goal})
    BY <1>4, <1>8, <1>9
  <2> QED
    BY <1>6, <1>9, <2>1 DEF FitsDir, SoFar
<1>11. Calling(1)'
  <2>1. 1 \in 1 .. 1 /\ (\A i \in 1 .. 1 : i = 1) /\ 1 .. (1 - 1) = {} /\ 1 + 1 .. 1 = {}
    OBVIOUS
  <2>2. InIt(1)' = {}
    BY <1>6 DEF InIt
  <2>3. FitsDir(1, stack[1])' /\ SoFar(1, stack[1], InIt(1))'
    BY <1>10, <2>2
  <2> QED
    BY <1>6, <2>1, <2>3 DEF Calling
<1>12. CallsInv'
  <2>1. 1 \in 1 .. Len(stack')
    BY <1>6
  <2> QED
    BY <1>7, <1>11, <2>1 DEF CallsInv
<1>13. DirsDone' /\ NoCircle'
  BY <1>1 DEF DirsDone, NoCircle
<1> QED
  BY <1>3, <1>12, <1>13 DEF BuildInv

\* A source is edited, whatever the run is doing.
LEMMA SourceEdited ==
  ASSUME BuildInv, Edit
  PROVE  BuildInv'
<1>1. UNCHANGED <<project, built, stack, is_built, outcome, runs, begun>>
  BY DEF Edit
<1>2. Stays /\ FilesInv'
  BY EditStays, FilesEdit DEF BuildInv, FilesInv
<1>3. CallsInv' /\ DirsDone' /\ Circle' = Circle
  BY <1>1, <1>2, CallsStay, DirsStayDone, CircleStays DEF BuildInv
<1> QED
  BY <1>1, <1>2, <1>3 DEF BuildInv, NoCircle, Circle

LEMMA BuildStart == BuildInit => BuildInv
<1> SUFFICES ASSUME BuildInit PROVE BuildInv
  OBVIOUS
<1>1. /\ project \in Projects
      /\ src = [f \in project.sources |-> [ver |-> 1, mtime |-> 0]]
      /\ built = <<>> /\ stack = <<>> /\ is_built = {} /\ outcome = "none"
      /\ fileTime = 1 /\ begun = 0
  BY DEF BuildInit
<1>2. DOMAIN built = {} /\ DOMAIN src = project.sources
  BY <1>1
<1>3. FileTypes
  <2>1. built \in [DOMAIN built -> [from : SUBSET Versions, mtime : Nat]]
    BY <1>1, <1>2
  <2>2. src \in [project.sources -> [ver : Nat \ {0}, mtime : Nat]]
    BY <1>1
  <2>3. \A f \in project.sources : src[f].mtime < fileTime
    BY <1>1
  <2> QED
    BY <1>1, <1>2, <2>1, <2>2, <2>3 DEF FileTypes
<1>4. CopiesTrue /\ BuiltCalled /\ DirsDone /\ NoCircle
  BY <1>1, <1>2 DEF CopiesTrue, BuiltCalled, DirsDone, NoCircle
<1>5. StackTypes
  BY <1>1, RecursionAssumption DEF StackTypes
<1> QED
  BY <1>1, <1>3, <1>4, <1>5 DEF BuildInv, FilesInv, CallsInv

LEMMA BuildStep == BuildInv /\ [BuildNext]_buildVars => BuildInv'
<1> SUFFICES ASSUME BuildInv, [BuildNext]_buildVars PROVE BuildInv'
  OBVIOUS
<1>1. CASE build_sequence
  BY <1>1, NextDirectory
<1>2. CASE BuildHere
  BY <1>2, FilesOfDirectory
<1>3. CASE build_all
  BY <1>3, FilesInTurn
<1>4. CASE CopySource
  BY <1>4, Copy
<1>5. CASE FollowRule
  BY <1>5, Rule
<1>6. CASE Depend
  BY <1>6, Dependency
<1>7. CASE Build
  BY <1>7, RuleCarriedOut
<1>8. CASE StartRun
  BY <1>8, RunBegins
<1>9. CASE Edit
  BY <1>9, SourceEdited
<1>10. CASE UNCHANGED buildVars
  <2>1. UNCHANGED <<project, src, built, stack, is_built, outcome, fileTime, begun>>
    BY <1>10 DEF buildVars
  <2>2. Stays /\ FilesInv' /\ DirsDone' /\ Circle' = Circle
    BY <2>1, SameFiles
  <2>3. CallsInv'
    BY <2>1, <2>2, CallsStay DEF BuildInv
  <2> QED
    BY <2>1, <2>2, <2>3 DEF BuildInv, NoCircle, Circle
<1> QED
  BY <1>1, <1>2, <1>3, <1>4, <1>5, <1>6, <1>7, <1>8, <1>9, <1>10 DEF BuildNext, Run

LEMMA BuildSays == BuildInv => BuiltRight
<1> SUFFICES ASSUME BuildInv PROVE BuiltRight
  OBVIOUS
<1>1. FileTypes /\ StackTypes /\ DirsDone /\ NoCircle
  BY DEF BuildInv, FilesInv, CallsInv
<1>2. BuildTypeOK
  <2>1. ASSUME NEW f \in DOMAIN built
        PROVE  /\ f \in DOMAIN src \cup DOMAIN project.rules
               /\ built[f].mtime < fileTime
               /\ \A v \in built[f].from : v[1] \in DOMAIN src /\ v[2] \in 1 .. src[v[1]].ver
    <3>1. f \in AllFiles /\ built[f].mtime < fileTime /\ built[f].from \subseteq Versions
      BY <1>1 DEF FileTypes
    <3>2. ASSUME NEW v \in built[f].from PROVE v[1] \in DOMAIN src /\ v[2] \in 1 .. src[v[1]].ver
      <4>1. v[1] \in project.sources /\ v[2] \in Nat \ {0} /\ v[2] <= src[v[1]].ver
        BY <1>1, <3>1 DEF FileTypes, Versions
      <4>2. v[1] \in DOMAIN src /\ src[v[1]].ver \in Nat
        BY <1>1, <4>1 DEF FileTypes
      <4> QED
        BY <4>1, <4>2
    <3> QED
      BY <3>1, <3>2 DEF AllFiles
  <2>2. \A i \in DOMAIN stack : stack[i].call \in {"dirs", "all", "file", "depends"}
    <3>1. stack \in Seq(Frames)
      BY <1>1 DEF StackTypes
    <3>2. \A i \in DOMAIN stack : stack[i] \in Frames
      BY <3>1
    <3> QED
      BY <3>2 DEF Frames, CallNames
  <2> QED
    BY <1>1, <2>1, <2>2 DEF BuildTypeOK, StackTypes
<1>3. Fresh
  <2>1. ASSUME NEW f \in DOMAIN project.rules, DirOf(f) \in is_built, project.rules[f].kind # "skip"
        PROVE  Current(f)
    <3>1. project \in Projects
      BY <1>1 DEF FileTypes
    <3>2. f \in Range(Rules(DirOf(f)))
      BY <3>1, RulesFacts
    <3>3. Made(f)
      BY <1>1, <2>1, <3>2 DEF DirsDone, Done
    <3> QED
      BY <2>1, <3>3 DEF Made, Skipped
  <2> QED
    BY <2>1 DEF Fresh, Current
<1> QED
  BY <1>1, <1>2, <1>3 DEF BuiltRight

-----------------------------------------------------------------------------
(* The theorem.                                                            *)

\* Whatever the projects, however often sources are edited while runs go on or between
\* them, and however many runs fail half way: when a run says that it has succeeded, each
\* file of the directories it has built that a rule makes is there, of a version of every
\* source that it is made of by the rules, the one there is unless it was edited after
\* the run began; and a run gives up because of the depth of its calls only when there are
\* directories, or files of one directory, that need one another in a circle (control.py:
\* BuildSystem.build_sequence, DirectoryBuilder.build_all and build_sequence).
THEOREM BuiltAsSaid == BuildSpec => []BuiltRight
<1>1. BuildInit => BuildInv
  BY BuildStart
<1>2. BuildInv /\ [BuildNext]_buildVars => BuildInv'
  BY BuildStep
<1>3. BuildInv => BuiltRight
  BY BuildSays
<1> QED
  BY <1>1, <1>2, <1>3, PTL DEF BuildSpec
=============================================================================
