----------------------------- MODULE BuildSystem -----------------------------
(***************************************************************************)
(* The build system (buildsys/control.py): directories with a BUILD.yaml are *)
(* built one after the other, those another needs first; a file is copied    *)
(* from the source tree when it is newer there, or built by its rule after   *)
(* what it depends on.  Sources may be edited at any time; a run that fails  *)
(* leaves what it has built.                                                 *)
(***************************************************************************)
EXTENDS Integers, Sequences, FiniteSets, FiniteSetsExt, SequencesExt, TLC

CONSTANTS
  Projects,       \* what can be built: [rules, order, sources, goal], the order that
                  \* of the names in each directory's BUILD.yaml
  MaxEdits,       \* bound of the edits
  MaxRuns,        \* bound of the runs
  RecursionLimit  \* the recursion that Python allows

RuleDirs(p) == {f[1] : f \in DOMAIN p.rules}
RulesIn(p, d) == {f \in DOMAIN p.rules : f[1] = d}

\* A BUILD.yaml has each of its rules, and a rule sequences of names; and the recursion that
\* is allowed is enough for the directories there are and the files of one of them.
ASSUME BuildAssumption ==
  \A p \in Projects :
    /\ p.sources \subseteq STRING \X STRING /\ p.goal \in STRING
    /\ IsFiniteSet(DOMAIN p.rules) /\ DOMAIN p.rules \subseteq STRING \X STRING
    /\ DOMAIN p.order = RuleDirs(p)
    /\ \A d \in RuleDirs(p) : p.order[d] \in Seq(RulesIn(p, d)) /\ Range(p.order[d]) = RulesIn(p, d)
    /\ \A f \in DOMAIN p.rules :
         /\ p.rules[f] \in [kind : STRING, depends : Seq(STRING \X STRING), copy : Seq(STRING \X STRING)]
         /\ Cardinality(RuleDirs(p)) + Cardinality(RulesIn(p, f[1])) + 2 <= RecursionLimit
ASSUME RecursionAssumption == RecursionLimit \in Nat \ {0, 1}

VARIABLES
  project,
  src,       \* source file -> [ver, mtime]
  built,     \* file in the build tree -> [from, mtime]
  stack,     \* the calls at work, the innermost last
  is_built,  \* the directories that are built, in this run
  outcome,   \* "none", "ok", or how the run failed
  fileTime, edits, runs,
  begun      \* when the run began

buildVars == <<project, src, built, stack, is_built, outcome, fileTime, edits, runs, begun>>

\* A file is <<directory, name>>; a rule [kind, depends, copy], where a dependency is
\* <<directory, name>> too, with "" for the directory of the rule.
DirOf(f) == f[1]
Rules(d) == IF d \in DOMAIN project.order THEN project.order[d] ELSE <<>>
Here(d, p) == IF p[1] = "" THEN <<d, p[2]>> ELSE p

\* Mutant: a path into the directory itself is left as it is.
depends_AsWritten(f) == project.rules[f].depends

\* The dependencies of a rule; DirectoryBuilder takes paths into its own directory for
\* names in it.
depends(f) ==
  LET ds == project.rules[f].depends
  IN [i \in DOMAIN ds |-> IF ds[i][1] = DirOf(f) THEN <<"", ds[i][2]>> ELSE ds[i]]

dependency_dirs(d) ==
  {p[1] : p \in UNION {Range(depends(f)) : f \in Range(Rules(d))}} \ {""}

BuildInit ==
  /\ project \in Projects
  /\ src = [f \in project.sources |-> [ver |-> 1, mtime |-> 0]]
  /\ built = <<>> /\ stack = <<>> /\ is_built = {} /\ outcome = "none"
  /\ fileTime = 1 /\ edits = 0 /\ runs = 0 /\ begun = 0

TimePasses == fileTime' = fileTime + 1
Frame(call, what, todo) == [call |-> call, what |-> what, todo |-> todo]
Top == Last(stack)
Below == Front(stack)
Return == stack' = Below /\ UNCHANGED outcome
\* Mutant: a call takes the first of what it has left to do and leaves it there.
Taken_Stays == Top
\* A call takes the first of what it has left to do.
Taken == [Top EXCEPT !.todo = Tail(@)]

\* Mutant: the recursion has no bound.
Calls_Unbounded(call, what, todo) ==
  /\ stack' = Append(Append(Below, Taken), Frame(call, what, todo))
  /\ UNCHANGED outcome
Calls(call, what, todo) ==
  IF Len(stack) < RecursionLimit
  THEN /\ stack' = Append(Append(Below, Taken), Frame(call, what, todo))
       /\ UNCHANGED outcome
  ELSE stack' = <<>> /\ outcome' = "recursion"
Raise(why) == stack' = <<>> /\ outcome' = why

-----------------------------------------------------------------------------
(* BuildSystem: directories.                                                 *)

StartRun ==
  /\ stack = <<>> /\ runs < MaxRuns /\ runs' = runs + 1
  /\ is_built' = {} /\ outcome' = "none" /\ begun' = fileTime
  /\ stack' = <<Frame("dirs", "", <<project.goal>>)>>
  /\ TimePasses /\ UNCHANGED <<project, src, built, edits>>

\* BuildSystem.build_sequence of the next directory: those it needs come first.
build_sequence ==
  /\ stack # <<>> /\ Top.call = "dirs" /\ Top.todo # <<>>
  /\ LET d == Head(Top.todo)
     IN IF d \in is_built THEN /\ stack' = Append(Below, Taken) /\ UNCHANGED outcome
        ELSE \E order \in SetToSeqs(dependency_dirs(d)) : Calls("dirs", d, order)
  /\ UNCHANGED <<fileTime, project, src, built, is_built, edits, runs, begun>>

\* What it needs is there: build_all of its files.
BuildHere ==
  /\ stack # <<>> /\ Top.call = "dirs" /\ Top.todo = <<>>
  /\ IF Len(stack) = 1 THEN stack' = <<>> /\ outcome' = "ok"
     ELSE /\ stack' = Append(Below, Frame("all", Top.what, Rules(Top.what)))
          /\ UNCHANGED outcome
  /\ UNCHANGED <<fileTime, project, src, built, is_built, edits, runs, begun>>

build_all ==
  /\ stack # <<>> /\ Top.call = "all"
  /\ IF Top.todo = <<>>
     THEN Return /\ is_built' = is_built \cup {Top.what}
     ELSE Calls("file", Head(Top.todo), <<>>) /\ UNCHANGED is_built
  /\ UNCHANGED <<fileTime, project, src, built, edits, runs, begun>>

-----------------------------------------------------------------------------
(* DirectoryBuilder: a file.                                                 *)

Put(f, from) ==
  built' = [g \in DOMAIN built \cup {f} |->
             IF g = f THEN [from |-> from, mtime |-> fileTime] ELSE built[g]]
Version(f) == {<<f, src[f].ver>>}

\* Mutant: a copy that is there is taken for the source.
UpToDate_There(f) == f \in DOMAIN built /\ f \in DOMAIN src
UpToDate(f) == f \in DOMAIN built /\ f \in DOMAIN src /\ built[f].mtime >= src[f].mtime

\* build_sequence of a file that has a source: copied, unless the copy is not older.
CopySource ==
  /\ stack # <<>> /\ Top.call = "file" /\ Top.what \in DOMAIN src
  /\ IF UpToDate(Top.what) THEN UNCHANGED <<built, fileTime>>
     ELSE Put(Top.what, Version(Top.what)) /\ TimePasses
  /\ Return
  /\ UNCHANGED <<project, src, is_built, edits, runs, begun>>

\* Of one that has none: its rule, which must be there, and what it depends on first.
FollowRule ==
  LET f == Top.what
  IN /\ stack # <<>> /\ Top.call = "file" /\ f \notin DOMAIN src
     /\ IF f \notin DOMAIN project.rules THEN Raise("norule")
        ELSE IF project.rules[f].kind = "skip" THEN Return
        ELSE /\ stack' = Append(Below, Frame("depends", f, depends(f)))
             /\ UNCHANGED outcome
     /\ UNCHANGED <<fileTime, project, src, built, is_built, edits, runs, begun>>

\* A dependency in another directory is left as it is, there or not.
Depend ==
  /\ stack # <<>> /\ Top.call = "depends" /\ Top.todo # <<>>
  /\ LET p == Head(Top.todo)
     IN IF p[1] # "" THEN stack' = Append(Below, Taken) /\ UNCHANGED outcome
        ELSE Calls("file", Here(DirOf(Top.what), p), <<>>)
  /\ UNCHANGED <<fileTime, project, src, built, is_built, edits, runs, begun>>

\* What a rule reads: the copies it makes, of files that the source tree has, and files
\* of the build tree.  assemble makes copies of its dependencies in other directories.
Copied(f) ==
  LET r == project.rules[f]
  IN Range(r.copy) \cup
     IF r.kind = "assemble" THEN {p \in Range(depends(f)) : p[1] # ""} ELSE {}
Read(f) == {Here(DirOf(f), p) : p \in Range(depends(f))} \ Copied(f)

\* The rule is carried out; the tool may find an error.
Build ==
  LET f == Top.what
  IN /\ stack # <<>> /\ Top.call = "depends" /\ Top.todo = <<>>
     /\ IF ~ Copied(f) \subseteq DOMAIN src THEN Raise("nocopy") /\ UNCHANGED built
        ELSE \/ Raise("failed") /\ UNCHANGED built
             \/ /\ Read(f) \subseteq DOMAIN built
                /\ Put(f, UNION ({Version(p) : p \in Copied(f)}
                                 \cup {built[p].from : p \in Read(f)}))
                /\ Return
     /\ TimePasses /\ UNCHANGED <<project, src, is_built, edits, runs, begun>>

Run == build_sequence \/ BuildHere \/ build_all \/ CopySource \/ FollowRule \/ Depend \/ Build

\* A source is edited, at a time of its own.
Edit ==
  /\ edits < MaxEdits /\ edits' = edits + 1
  /\ \E f \in DOMAIN src :
       src' = [src EXCEPT ![f] = [ver |-> @.ver + 1, mtime |-> fileTime]]
  /\ TimePasses /\ UNCHANGED <<project, built, stack, is_built, outcome, runs, begun>>

BuildNext == StartRun \/ Run \/ Edit
BuildSpec == BuildInit /\ [][BuildNext]_buildVars

-----------------------------------------------------------------------------
(* Properties.                                                               *)

\* The sources a file is made of, by the rules: those in every set of files that has, with
\* a file that is built, what its rule makes it of.
Inputs(f) ==
  {Here(DirOf(f), p) : p \in Range(project.rules[f].depends)} \cup Range(project.rules[f].copy)
AllFiles == DOMAIN src \cup DOMAIN project.rules
WithInputs(fs) == \A f \in fs \ DOMAIN src : Inputs(f) \cap AllFiles \subseteq fs
Sources(f) ==
  {s \in DOMAIN src : \A fs \in SUBSET AllFiles : f \in fs /\ WithInputs(fs) => s \in fs}

\* Types: the build tree has files that are sources or have rules, made of versions of
\* sources there have been and at a time that has passed; calls are as deep as allowed.
BuildTypeOK ==
  /\ \A f \in DOMAIN built :
       /\ f \in DOMAIN src \cup DOMAIN project.rules
       /\ built[f].mtime < fileTime
       /\ \A v \in built[f].from : v[1] \in DOMAIN src /\ v[2] \in 1 .. src[v[1]].ver
  /\ \A i \in DOMAIN stack : stack[i].call \in {"dirs", "all", "file", "depends"}
  /\ Len(stack) <= RecursionLimit
  /\ outcome \in {"none", "ok", "failed", "norule", "nocopy", "recursion"}

\* After a run that succeeds, all that was asked for is made of every source as it was
\* when the run began or later: whatever was edited before, also during the runs before
\* and after a run that failed half way.
Fresh ==
  outcome = "ok" /\ stack = <<>> =>
    \A f \in DOMAIN project.rules :
      DirOf(f) \in is_built /\ project.rules[f].kind # "skip" =>
        /\ f \in DOMAIN built
        /\ \A s \in Sources(f) :
             \E v \in built[f].from :
               v[1] = s /\ (src[s].mtime < begun => v[2] = src[s].ver)

\* Only a project where directories need one another in a circle, or files of one
\* directory do, is taken for one: otherwise the recursion of directories and files ends.
Needs(d) ==
  {p[1] : p \in UNION {Range(project.rules[f].depends) : f \in Range(Rules(d))}} \ {"", d}
DirectoryCircle ==
  \E ds \in SUBSET {DirOf(f) : f \in DOMAIN project.rules} :
    ds # {} /\ \A d \in ds : Needs(d) \cap ds # {}
Depends(f) == {Here(DirOf(f), p) : p \in Range(project.rules[f].depends)}
Followed == {f \in DOMAIN project.rules \ project.sources : project.rules[f].kind # "skip"}
FileCircle ==
  \E fs \in SUBSET Followed :
    /\ fs # {} /\ \A f, g \in fs : DirOf(f) = DirOf(g)
    /\ \A f \in fs : Depends(f) \cap fs # {}
NoCircle == outcome = "recursion" => DirectoryCircle \/ FileCircle

\* What a run says it has built is built, of the sources there were, and only what cannot
\* be built is refused (build_sequence, build_all).
BuiltRight == BuildTypeOK /\ Fresh /\ NoCircle

\* A run ends, however often sources are edited while it goes on.
RunEnds == stack # <<>> ~> stack = <<>>
=============================================================================
