------------------------------ MODULE SmallCCode ------------------------------
(***************************************************************************)
(* The small-C compiler: its tables and its output (cc21.c, cc22.c, cc41.c,  *)
(* cc42.c).  The compiler's state s is one record; what the C functions do   *)
(* to the globals is an operator from s to s.  The source is a sequence of   *)
(* tokens, one line; the output a sequence of instructions, in the staging   *)
(* buffer while an expression is compiled.                                   *)
(***************************************************************************)
EXTENDS Integers, Sequences, FiniteSets, SequencesExt, FiniteSetsExt, TLC

CONSTANTS
  Identifiers,  \* the names that programs use
  Numbers,      \* the numbers that programs use
  Strings,      \* string literal -> its characters
  OPTIMIZE,     \* the compile option: the peephole optimizer is there
  optimize,     \* the run option -o
  SecondWord,   \* what pp3 is given to fetch the word below the top of the stack:
                \* "pp2" in the code, which fetches it to de; "pp1" fetches it to hl
  STAGELIMIT,   \* instructions that the staging buffer holds
  NUMLOCS,      \* local symbols, of the average size
  MaxLoops,     \* entries of the while queue
  MaxCases,     \* entries of the switch table
  NullType      \* what is read as the type of the symbol at address 0

CCHAR == 4
CINT == 8
SizeOf(type) == type \div 4
FUNCTION == 4  \* the offset of a function that has been defined
NoSym == [name |-> "", ident |-> "NONE", type |-> NullType, offset |-> 0]
ValueOf == [t \in {ToString(n) : n \in Numbers} |-> CHOOSE n \in Numbers : ToString(n) = t]

\* The compiler's globals when it starts.
Start(tokens) ==
  [in |-> tokens, out |-> <<>>, stage |-> <<>>, staging |-> FALSE,
   errflag |-> FALSE, errors |-> {}, abort |-> FALSE,
   loc |-> <<>>, glb |-> <<>>, ssname |-> "", nxtlab |-> 0, wq |-> <<>>, csp |-> 0,
   declared |-> 0, ncmp |-> 0, nogo |-> 0, noloc |-> FALSE, lastst |-> "NONE",
   swactive |-> FALSE, swdefault |-> 0, cases |-> <<>>,
   litq |-> <<>>, litlab |-> 0, func1 |-> TRUE, beglab |-> 0, argstk |-> 0, argtop |-> 0]

-----------------------------------------------------------------------------
(* Tokens and errors.                                                        *)

Tok(s) == IF s.in = <<>> THEN "" ELSE Head(s.in)
Bump(s) == [s EXCEPT !.in = IF @ = <<>> THEN @ ELSE Tail(@)]
Eof(s) == s.in = <<>>
IsName(s) == Tok(s) \in Identifiers
an(t) == t \in Identifiers \cup DOMAIN ValueOf

\* Of the errors of a statement only the first is written.
error(s, msg) ==
  IF s.errflag THEN s ELSE [s EXCEPT !.errflag = TRUE, !.errors = @ \cup {msg}]
Abort(s, msg) == [error(s, msg) EXCEPT !.abort = TRUE, !.in = <<>>]

junk(s) ==
  LET t == SelectInSeq(s.in, an)
  IN [s EXCEPT !.in = IF @ = <<>> THEN @ ELSE IF an(Head(@)) THEN Tail(@)
                      ELSE IF t = 0 THEN <<>> ELSE SubSeq(@, t, Len(@))]

needtoken(s, t) == IF Tok(s) = t THEN Bump(s) ELSE error(s, "missing token")
ns(s) == IF Tok(s) = ";" THEN [Bump(s) EXCEPT !.errflag = FALSE]
         ELSE error(s, "no semicolon")
endst(s) == Tok(s) \in {";", ""}

\* symname: a name is taken, or what stands there is not one.
symname(s) == [Bump(s) EXCEPT !.ssname = Tok(s)]
illname(s) == junk(error(s, "illegal symbol"))

-----------------------------------------------------------------------------
(* Symbols, labels, loops.                                                   *)

\* The local that was declared last; the only global.
findloc(s, name) ==
  LET at == SelectLastInSeq(s.loc, LAMBDA y : y.name = name)
  IN IF at = 0 THEN NoSym ELSE s.loc[at]
findglb(s, name) ==
  LET at == SelectInSeq(s.glb, LAMBDA y : y.name = name)
  IN IF at = 0 THEN NoSym ELSE s.glb[at]

Symbol(name, ident, type, offset) ==
  [name |-> name, ident |-> ident, type |-> type, offset |-> offset]
addloc(s, ident, type, offset) ==
  IF Len(s.loc) >= NUMLOCS THEN Abort(s, "local symbol table overflow")
  ELSE [s EXCEPT !.loc = Append(@, Symbol(s.ssname, ident, type, offset))]
addglb(s, ident, type, offset) ==
  IF findglb(s, s.ssname) # NoSym THEN s
  ELSE [s EXCEPT !.glb = Append(@, Symbol(s.ssname, ident, type, offset))]

getlabel(s) == [s EXCEPT !.nxtlab = @ + 1]

\* A loop or a switch: the stack pointer there, and labels for continue and break.
addwhile(s) ==
  IF Len(s.wq) = MaxLoops THEN Abort(s, "too many active loops")
  ELSE [s EXCEPT !.nxtlab = @ + 2,
                 !.wq = Append(@, [sp |-> s.csp, loop |-> s.nxtlab + 1, exit |-> s.nxtlab + 2])]
\* Mutant: the innermost loop stays.
delwhile_Kept(s) == s
delwhile(s) == IF s.wq = <<>> THEN error(s, "no active loops") ELSE [s EXCEPT !.wq = Front(@)]

-----------------------------------------------------------------------------
(* Output.  An instruction is [op, n, nm]; sp is not part of it, but says of  *)
(* a label what the compiler took the stack pointer to be there.             *)

Ins(op) == [op |-> op, n |-> 0, nm |-> "", sp |-> 0]
InsN(op, n) == [op |-> op, n |-> n, nm |-> "", sp |-> 0]
InsS(op, nm) == [op |-> op, n |-> 0, nm |-> nm, sp |-> 0]

outbyte(s, i) ==
  IF ~ s.staging THEN [s EXCEPT !.out = Append(@, i)]
  ELSE IF Len(s.stage) >= STAGELIMIT THEN error(s, "staging buffer overflow")
  ELSE [s EXCEPT !.stage = Append(@, i)]
ol(s, op) == outbyte(s, Ins(op))
\* A routine of the library is named without its cc.
call(s, nm) == outbyte(s, InsS("call", nm))
const(s, n) == outbyte(s, InsN("ld hl", n))
const2(s, n) == outbyte(s, InsN("ld de", n))
address(s, y) == outbyte(s, InsS("ld hl", y.name))
jump(s, label) == outbyte(s, InsN("jp", label))
postlabel(s, label) == outbyte(s, [InsN("label", label) EXCEPT !.sp = s.csp])
\* Mutant: what is pushed is not counted.
push_Uncounted(s) == ol(s, "push hl")
push(s) == [ol(s, "push hl") EXCEPT !.csp = @ - 2]
pop(s) == [ol(s, "pop de") EXCEPT !.csp = @ + 2]

\* Where the next instruction goes in the staging buffer; 0 when there is none.
stagenext(s) == IF s.staging THEN Len(s.stage) + 1 ELSE 0
setstage(s) == IF s.staging THEN s ELSE [s EXCEPT !.staging = TRUE, !.stage = <<>>]

\* The optimizer's patterns, what each is replaced by, and what is left of the pattern's
\* last line as a line of its own when fewer characters are skipped than it has.
Patterns ==
  LET Add(to, nm) == <<InsS(to, ""), InsS("call", nm)>>
      Step(by, get, put) == <<Ins("add hl,sp"), Ins("move"), InsS("call", get), Ins(by), put>>
      int == InsS("call", "pint")
      char == Ins("ld (de),a")
      To(nm, rest) == <<InsS("call", nm)>> \o rest
  IN <<[p |-> Add("add hl,sp", "gint"), r |-> To("dsgi", <<>>)],
       [p |-> Add("add hl,de", "gint"), r |-> To("ddgi", <<>>)],
       [p |-> Add("add hl,sp", "gchar"), r |-> To("dsgc", <<>>)],
       [p |-> Add("add hl,de", "gchar"), r |-> To("ddgc", <<>>)],
       [p |-> Step("inc hl", "gint", int), r |-> To("inci", <<InsS("line", "t")>>)],
       [p |-> Step("dec hl", "gint", int), r |-> To("deci", <<InsS("line", "t")>>)],
       [p |-> Step("inc hl", "gchar", char), r |-> To("incc", <<InsS("line", "a")>>)],
       [p |-> Step("dec hl", "gchar", char), r |-> To("decc", <<InsS("line", "a")>>)],
       [p |-> <<Ins("add hl,de"), Ins("pop de"), int>>, r |-> To("ddpdpi", <<>>)],
       [p |-> <<Ins("add hl,de"), Ins("pop de"), char>>, r |-> To("ddpdpc", <<>>)],
       [p |-> <<Ins("pop de"), int>>, r |-> To("pdpi", <<>>)],
       [p |-> <<Ins("pop de"), char>>, r |-> To("pdpc", <<>>)]>>

pp1 == <<Ins("pop hl"), Ins("push hl")>>
pp2 == <<Ins("pop de"), Ins("push de")>>
pp3(pp) == <<Ins("pop bc")>> \o pp \o <<Ins("push bc")>>
Always ==
  LET Local(n) == <<InsN("ld hl", n), Ins("add hl,sp"), InsS("call", "gint")>>
  IN <<[p |-> Local(0), r |-> pp1],
       [p |-> Local(2), r |-> pp3(IF SecondWord = "pp2" THEN pp2 ELSE pp1)]>>

RECURSIVE peephole(_)
peephole(code) ==
  LET Used == (IF OPTIMIZE THEN Always ELSE <<>>)
              \o (IF OPTIMIZE /\ optimize THEN Patterns ELSE <<>>)
      at == SelectInSeq(Used, LAMBDA x : IsPrefix(x.p, code))
  IN IF code = <<>> THEN <<>>
     ELSE IF at = 0 THEN <<Head(code)>> \o peephole(Tail(code))
     ELSE Used[at].r \o peephole(SubSeq(code, Len(Used[at].p) + 1, Len(code)))

\* clearstage(before, start): back to where it was within an expression; at the end of
\* one, it is written from start on, or dropped.
clearstage(s, before, start) ==
  IF before # 0 THEN [s EXCEPT !.stage = SubSeq(@, 1, before - 1)]
  ELSE [s EXCEPT !.staging = FALSE, !.stage = <<>>,
                 !.out = IF start = 0 THEN @
                         ELSE @ \o peephole(SubSeq(s.stage, start, Len(s.stage)))]

\* A push is replaced by an exchange, and what follows finds its variables nearer.
unpush(s, start) ==
  [s EXCEPT
     !.csp = @ + 2,
     !.stage = [i \in DOMAIN @ |->
       IF i = start THEN Ins("ex de,hl")
       ELSE IF i < start THEN @[i]
       ELSE IF @[i].op = "label" THEN [@[i] EXCEPT !.sp = @ + 2]
       ELSE IF i < Len(@) /\ @[i + 1].op = "add hl,sp" THEN [@[i] EXCEPT !.n = @ - 2]
       ELSE @[i]]]

\* Mutant: the secondary register is never in use.
smartpop_Unused(s, secondary, start) == unpush(s, start)
smartpop(s, secondary, start) == IF secondary THEN pop(s) ELSE unpush(s, start)

\* Code that takes the stack pointer from csp to newsp; csp itself is the caller's.
modstk(s, newsp, save) ==
  LET k == newsp - s.csp
      Times(n, op) == [i \in 1 .. n |-> Ins(op)]
      Small == IF k > 0 THEN Times(k % 2, "inc sp") \o Times(k \div 2, "pop bc")
               ELSE Times((- k) % 2, "dec sp") \o Times((- k) \div 2, "push bc")
      Swap == IF save THEN <<Ins("ex de,hl")>> ELSE <<>>
      Large == Swap \o <<InsN("ld hl", k), Ins("add hl,sp"), Ins("ld sp,hl")>> \o Swap
  IN FoldLeft(outbyte, s, IF k \in -6 .. 6 THEN Small ELSE Large)
modsp(s, newsp, save) == [modstk(s, newsp, save) EXCEPT !.csp = newsp]

defstorage(s, size, n) == outbyte(s, InsN(IF size = 1 THEN "dcb" ELSE "dcw", n))
entry(s) == outbyte(s, InsS("entry", s.ssname))
=============================================================================
