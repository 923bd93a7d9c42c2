------------------------------ MODULE SmallCPrep ------------------------------
(***************************************************************************)
(* How small-C reads its source (cc22.c to line 338, cc21.c:inline, cc12.c:  *)
(* doinclude, cc11.c:openin, cc13.c:doasm): files, an included file, #if     *)
(* lines, comments, macros and #asm.  A line is a sequence of words.  #if    *)
(* lines are seen when a line is read, #define, #include and #asm when the   *)
(* parser comes to them.                                                     *)
(***************************************************************************)
EXTENDS Integers, Sequences, FiniteSets, SequencesExt, FiniteSetsExt, TLC

CONSTANTS
  SourceTexts,  \* the arguments of the compiler: sequences of files
  IncludeFiles, \* the files that can be included: name -> lines
  Identifiers,  \* the words that are names
  MaxMacros     \* macros that the macro queue holds

VARIABLES
  source,  \* the arguments
  q        \* the reader

prepVars == <<source, q>>

Shut == [open |-> FALSE, rest |-> <<>>]
Opened(lines) == [open |-> TRUE, rest |-> lines]

\* The reader before the first line.
Reader(files) ==
  [args |-> files, input |-> Shut, input2 |-> Shut, eof |-> FALSE, iflevel |-> 0, skiplevel |-> 0,
   macros |-> <<>>, line |-> <<>>, errors |-> {}, abort |-> FALSE, depth |-> 0, out |-> <<>>]
PrepInit == source \in SourceTexts /\ q = Reader(source)

First(x) == IF x.line = <<>> THEN "" ELSE x.line[1]
Second(x) == IF Len(x.line) < 2 THEN "" ELSE x.line[2]
Error_(x, msg) == [x EXCEPT !.errors = @ \cup {msg}]
kill(x) == [x EXCEPT !.line = <<>>]

\* The macro that was defined first.
findmac(x, name) == SelectInSeq(x.macros, LAMBDA d : d.name = name)

openin(x) ==
  IF x.args = <<>> THEN kill([x EXCEPT !.eof = TRUE])
  ELSE kill([x EXCEPT !.input = Opened(Head(x.args)), !.args = Tail(@)])

\* The next line, of the included file as long as there is one.
RECURSIVE inline(_)
inline(x) ==
  LET y == IF x.input.open THEN x ELSE openin(x)
  IN IF y.eof THEN y
     ELSE IF y.input2.open
     THEN IF y.input2.rest = <<>> THEN inline([y EXCEPT !.input2 = Shut])
          ELSE [y EXCEPT !.line = Head(y.input2.rest), !.input2.rest = Tail(@)]
     ELSE IF y.input.rest = <<>> THEN inline([y EXCEPT !.input = Shut])
     ELSE [y EXCEPT !.line = Head(y.input.rest), !.input.rest = Tail(@)]

\* What an #if line does; another one has no effect.
If(x, defined) ==
  LET skips == x.skiplevel = 0 /\ (findmac(x, Second(x)) # 0) # defined
  IN [x EXCEPT !.iflevel = @ + 1, !.skiplevel = IF skips THEN x.iflevel + 1 ELSE @]
\* Mutant: the #else of an #if in what is skipped ends the skipping.
Else_Any(x) ==
  IF x.iflevel = 0 THEN Error_(x, "no matching #if...")
  ELSE [x EXCEPT !.skiplevel = IF @ = 0 THEN x.iflevel ELSE 0]
Else(x) ==
  IF x.iflevel = 0 THEN Error_(x, "no matching #if...")
  ELSE [x EXCEPT !.skiplevel = IF @ = x.iflevel THEN 0 ELSE IF @ = 0 THEN x.iflevel ELSE @]
\* Mutant: the level is left, not the skipping.
Endif_Skips(x) ==
  IF x.iflevel = 0 THEN Error_(x, "no matching #if...") ELSE [x EXCEPT !.iflevel = @ - 1]
\* Mutant: a nesting level is never left.
Endif_Stays(x) ==
  IF x.iflevel = 0 THEN Error_(x, "no matching #if...")
  ELSE [x EXCEPT !.skiplevel = IF @ = x.iflevel THEN 0 ELSE @]
Endif(x) ==
  IF x.iflevel = 0 THEN Error_(x, "no matching #if...")
  ELSE [x EXCEPT !.skiplevel = IF @ = x.iflevel THEN 0 ELSE @, !.iflevel = @ - 1]

\* The next line that is neither an #if line nor skipped nor empty.
RECURSIVE ifline(_)
ifline(x) ==
  LET y == inline(x)
      t == First(y)
  IN IF y.eof THEN y
     ELSE IF t = "#ifdef" THEN ifline(If(y, TRUE))
     ELSE IF t = "#ifndef" THEN ifline(If(y, FALSE))
     ELSE IF t = "#else" THEN ifline(Else(y))
     ELSE IF t = "#endif" THEN ifline(Endif(y))
     ELSE IF y.skiplevel # 0 \/ y.line = <<>> THEN ifline(y)
     ELSE y

\* The words of the line as the parser gets them: comments, over lines, dropped, macros
\* replaced.  done is what the line has so far.
RECURSIVE Words(_, _), comment(_, _)
Words(x, done) ==
  LET t == First(x)
      y == [x EXCEPT !.line = Tail(@)]
      at == findmac(x, t)
  IN IF x.line = <<>> THEN [x EXCEPT !.line = done]
     ELSE IF t = "/*" THEN comment(y, done)
     ELSE Words(y, done \o (IF at = 0 THEN <<t>> ELSE x.macros[at].text))
comment(x, done) ==
  LET end == SelectInSeq(x.line, LAMBDA t : t = "*/")
      y == ifline(x)
  IN IF end # 0 THEN Words([x EXCEPT !.line = SubSeq(@, end + 1, Len(@))], done)
     ELSE IF y.eof THEN [y EXCEPT !.line = done]
     ELSE comment(y, done)

preprocess(x) ==
  LET y == ifline(x) IN IF y.eof THEN y ELSE Words(y, <<>>)

-----------------------------------------------------------------------------
(* The parser, as far as the reader sees it: it takes words and comes to      *)
(* directives, #define and #include only between functions.                  *)

Reading == ~ q.abort /\ ~ (q.eof /\ q.line = <<>>)
Step(x) == q' = x /\ UNCHANGED source

Refill == Reading /\ q.line = <<>> /\ Step(preprocess(q))

Include ==
  /\ Reading /\ First(q) = "#include" /\ q.depth = 0
  /\ Step(kill(IF Second(q) \in DOMAIN IncludeFiles THEN [q EXCEPT !.input2 = Opened(IncludeFiles[Second(q)])]
               ELSE Error_([q EXCEPT !.input2 = Shut], "open failure on include file")))

\* The name may have been replaced: then it is none.
addmac ==
  /\ Reading /\ First(q) = "#define" /\ q.depth = 0
  /\ LET macro == [name |-> Second(q), text |-> SubSeq(q.line, 3, Len(q.line))]
         x == kill([q EXCEPT !.macros = Append(@, macro)])
     IN Step(IF Second(q) \notin Identifiers THEN kill(Error_(q, "illegal symbol"))
             ELSE IF Len(x.macros) >= MaxMacros
             THEN Error_([x EXCEPT !.abort = TRUE], "macro string queue full")
             ELSE x)

\* The lines up to #endasm go out as they are; empty ones are dropped.
RECURSIVE asm(_)
asm(x) ==
  LET y == inline(x)
  IN IF y.eof \/ First(y) = "#endasm" THEN kill(y)
     ELSE asm([y EXCEPT !.out = @ \o y.line])
doasm == Reading /\ First(q) = "#asm" /\ Step(asm(q))

Take ==
  /\ Reading /\ q.line # <<>>
  /\ First(q) # "#asm" /\ (First(q) \in {"#include", "#define"} => q.depth > 0)
  /\ LET t == First(q)
     IN Step([q EXCEPT !.line = Tail(@), !.out = Append(@, t),
                       !.depth = IF t = "{" THEN @ + 1 ELSE IF t = "}" /\ @ > 0 THEN @ - 1 ELSE @])

PrepNext == Refill \/ Include \/ addmac \/ doasm \/ Take

-----------------------------------------------------------------------------
(* What a source means, line by line.  ok: nothing in it is used that small-C *)
(* does not have, such as a second definition or an include in an include.    *)

Meaning0 == [defs |-> <<>>, ifs |-> <<>>, comment |-> FALSE, asm |-> FALSE, out |-> <<>>,
             depth |-> 0, ok |-> TRUE, matched |-> TRUE]
Live(r) == \A i \in DOMAIN r.ifs : r.ifs[i]
Defs(r, name) == {i \in DOMAIN r.defs : r.defs[i].name = name}

\* The words of a line, without comments and with macros replaced.
Plain(r, line) ==
  FoldLeft(LAMBDA x, t :
             IF x.comment THEN [x EXCEPT !.comment = t # "*/"]
             ELSE IF t = "/*" THEN [x EXCEPT !.comment = TRUE]
             ELSE [x EXCEPT !.words = @ \o (IF Defs(r, t) = {} THEN <<t>>
                                            ELSE r.defs[CHOOSE i \in Defs(r, t) : TRUE].text)],
           [comment |-> r.comment, words |-> <<>>], line)

RECURSIVE Meant(_, _, _)
Meant(r, lines, nested) ==
  LET line == Head(lines)
      t == IF line = <<>> THEN "" ELSE line[1]
      name == IF Len(line) > 1 THEN line[2] ELSE ""
      p == Plain(r, line)
      Text == [r EXCEPT !.comment = p.comment, !.out = @ \o p.words,
                        !.depth = FoldLeft(LAMBDA n, w : IF w = "{" THEN n + 1
                                             ELSE IF w = "}" /\ n > 0 THEN n - 1 ELSE n, @, p.words)]
      Not(x) == [x EXCEPT !.ok = FALSE]
      One ==
        IF r.asm THEN IF t = "#endasm" THEN [r EXCEPT !.asm = FALSE] ELSE [r EXCEPT !.out = @ \o line]
        ELSE IF t \in {"#ifdef", "#ifndef", "#else", "#endif"} /\ r.comment THEN Not(r)
        ELSE IF t = "#ifdef" THEN [r EXCEPT !.ifs = Append(@, Defs(r, name) # {})]
        ELSE IF t = "#ifndef" THEN [r EXCEPT !.ifs = Append(@, Defs(r, name) = {})]
        ELSE IF t \in {"#else", "#endif"} /\ r.ifs = <<>> THEN [r EXCEPT !.matched = FALSE]
        ELSE IF t = "#else" THEN [r EXCEPT !.ifs[Len(r.ifs)] = ~ @]
        ELSE IF t = "#endif" THEN [r EXCEPT !.ifs = Front(@)]
        ELSE IF ~ Live(r) THEN r
        ELSE IF r.comment THEN Text
        ELSE IF t = "#asm" THEN [r EXCEPT !.asm = TRUE]
        ELSE IF t \in {"#define", "#include"} /\ r.depth > 0 THEN Not(r)
        ELSE IF t = "#define"
        THEN LET x == [r EXCEPT !.defs = Append(@, [name |-> name, text |-> SubSeq(line, 3, Len(line))])]
             IN IF name \in Identifiers /\ Defs(r, name) = {} /\ Len(x.defs) < MaxMacros THEN x ELSE Not(x)
        ELSE IF t = "#include"
        THEN IF nested \/ name \notin DOMAIN IncludeFiles THEN Not(r) ELSE Meant(r, IncludeFiles[name], TRUE)
        ELSE Text
  IN IF lines = <<>> THEN r ELSE Meant(One, Tail(lines), nested)
SourceMeant == Meant(Meaning0, FlattenSeq(source), FALSE)

\* The reader's types: what is skipped began at a level that is still open.
PrepTypeOK ==
  /\ q.iflevel \in Nat /\ q.skiplevel \in 0 .. q.iflevel /\ q.depth \in Nat
  /\ Len(q.macros) <= MaxMacros
  /\ q.eof => ~ q.input.open

\* At the end the parser got what the source means (cc22.c:preprocess, ifline): no line
\* of a branch that is not taken, nothing of a comment, every macro replaced, the included
\* file in its place, over the files as over one.
TextMeant == ~ Reading /\ SourceMeant.ok => q.out = SourceMeant.out

\* An #else or #endif without an #if is reported, and none that has one.
IfsMatched == ~ Reading /\ SourceMeant.ok
                => (("no matching #if..." \in q.errors) <=> ~ SourceMeant.matched)

\* The parser gets what the source says, and the errors it has (ifline, preprocess).
ReadRight == PrepTypeOK /\ TextMeant /\ IfsMatched
=============================================================================
