------------------------------ MODULE SmallCStmt ------------------------------
(***************************************************************************)
(* The small-C compiler: statements (cc13.c), declarations and functions     *)
(* (cc11.c, cc12.c).                                                         *)
(***************************************************************************)
EXTENDS SmallCExpr

-----------------------------------------------------------------------------
(* Declarations.                                                             *)

\* The size of an array; nothing between the brackets is 0.
needsub(s) ==
  LET e == constexpr(s)
      v == IF e.con THEN e.val ELSE 1
      x == IF v < 0 THEN error(e.s, "negative size illegal") ELSE e.s
  IN IF Tok(s) = "]" THEN [s |-> Bump(s), n |-> 0]
     ELSE [s |-> needtoken(x, "]"), n |-> IF v < 0 THEN - v ELSE v]

\* The names of a declaration, each declared by Declare.
Declared(s, Declare(_)) ==
  LET RECURSIVE Next_(_)
      Next_(q) == IF endst(q) THEN q
                  ELSE LET x == Declare(q) IN IF Tok(x) = "," THEN Next_(Bump(x)) ELSE x
  IN Next_(s)

Name(s) == IF IsName(s) THEN symname(s) ELSE illname(s)

declloc(s, type) ==
  LET Declare(q) ==
        LET star == Tok(q) = "*"
            x == Name(IF star THEN Bump(q) ELSE q)
            sub == needsub(Bump(x))
            fn == Tok(x) = "(" /\ Len(x.in) > 1 /\ x.in[2] = ")"
            array == Tok(x) = "[" /\ sub.n # 0
            y == IF Tok(x) = "[" THEN sub.s ELSE IF fn THEN Bump(Bump(x)) ELSE x
            ident == IF array THEN "ARRAY" ELSE IF star \/ Tok(x) = "[" THEN "POINTER"
                     ELSE IF fn THEN "FUNCTION" ELSE "VARIABLE"
            size == IF array THEN sub.n * SizeOf(type)
                    ELSE IF type = CCHAR /\ ident = "VARIABLE" THEN 1 ELSE 2
            z == [y EXCEPT !.declared = @ + size]
        IN addloc(z, IF fn THEN "FUNCTION" ELSE ident, type, z.csp - z.declared)
      x == IF s.noloc THEN error(s, "not allowed with goto") ELSE s
  IN Declared(IF s.declared < 0 THEN error(x, "must declare first in block") ELSE x, Declare)

stowlit(s, v, size) ==
  [s EXCEPT !.litq = @ \o (IF size = 1 THEN <<v % 256>>
                           ELSE <<v % 256, (v \div 256) % 256>>)]

\* One initial value; a string takes as many elements as it has characters and one.
init(s, size, ident, dim) ==
  LET str == Strings[Tok(s)]
      x == [Bump(s) EXCEPT !.litq = @ \o str \o <<0>>]
      y == IF ident = "VARIABLE" \/ size # 1
           THEN error(x, "must assign to char pointer or array") ELSE x
      e == constexpr(s)
      z == IF ident = "POINTER" THEN error(e.s, "cannot assign to pointer") ELSE e.s
  IN IF Tok(s) \in DOMAIN Strings
     THEN [s |-> IF ident = "POINTER" THEN ol(y, "dcw $+2") ELSE y,
           dim |-> dim - (Len(str) + 1)]
     ELSE IF e.con THEN [s |-> stowlit(z, e.val, size), dim |-> dim - 1]
     ELSE [s |-> e.s, dim |-> dim]

dumplits(s, size) ==
  FoldLeft(LAMBDA x, i : defstorage(x, size, IF size = 1 THEN s.litq[i]
                                             ELSE s.litq[2 * i - 1] + 256 * s.litq[2 * i]),
           s, [i \in 1 .. Len(s.litq) \div size |-> i])
dumpzero(s, size, n) ==
  FoldLeft(LAMBDA x, i : defstorage(x, size, 0), s, [i \in 1 .. Max({0, n}) |-> i])

\* A global and its initial values; what has neither a size nor values is a pointer.
initials(s, size, ident, k) ==
  LET dim == IF k = 0 THEN -1 ELSE k
      x == entry([s EXCEPT !.litq = <<>>])
      RECURSIVE Values(_)
      Values(v) == IF v.dim = 0 THEN v
                   ELSE LET w == init(v.s, size, ident, v.dim)
                        IN IF Tok(w.s) = "," THEN Values([w EXCEPT !.s = Bump(@)]) ELSE w
      list == Values([s |-> Bump(Bump(x)), dim |-> dim])
      v == IF Tok(x) # "=" THEN [s |-> x, dim |-> dim]
           ELSE IF Tok(Bump(x)) = "{" THEN [list EXCEPT !.s = needtoken(@, "}")]
           ELSE init(Bump(x), size, ident, dim)
      none == v.dim = -1 /\ dim = -1
      width == IF none THEN 2 ELSE size
      y == IF none THEN stowlit(v.s, 0, 2) ELSE v.s
  IN [s |-> dumpzero(dumplits(y, width), width, v.dim),
      ident |-> IF none THEN "POINTER" ELSE ident]

declglb(s, type, extern) ==
  LET Declare(q) ==
        LET star == Tok(q) = "*"
            n == Name(IF star THEN Bump(q) ELSE q)
            x == IF findglb(n, n.ssname) # NoSym THEN error(n, "already defined") ELSE n
            fn == Tok(x) = "(" /\ Len(x.in) > 1 /\ x.in[2] = ")"
            sub == IF fn THEN [s |-> Bump(Bump(x)), n |-> IF star THEN 0 ELSE 1]
                   ELSE IF Tok(x) = "[" THEN needsub(Bump(x))
                   ELSE [s |-> x, n |-> IF star THEN 0 ELSE 1]
            ident == IF fn THEN "FUNCTION" ELSE IF Tok(x) = "[" THEN "ARRAY"
                     ELSE IF star THEN "POINTER" ELSE "VARIABLE"
            v == IF extern THEN [s |-> outbyte(sub.s, InsS("extern", x.ssname)), ident |-> ident]
                 ELSE initials(sub.s, SizeOf(type), ident, sub.n)
        IN addglb(v.s, v.ident, type, sub.n)
  IN ns(Declared(s, Declare))

-----------------------------------------------------------------------------
(* Statements.                                                               *)

RECURSIVE statement(_), compound(_)

RECURSIVE doexpr(_)
doexpr(s) ==
  LET before == stagenext(s)
      x == clearstage(expression(setstage(s)).s, before, 1)
  IN IF Tok(x) = "," THEN doexpr(Bump(x)) ELSE x

\* Mutant: what was allocated in the block is not taken off at its end.
compound_Left(s) ==
  LET RECURSIVE Body(_)
      Body(x) == IF x.abort THEN x ELSE IF Tok(x) = "}" THEN Bump(x)
                 ELSE IF Eof(x) THEN error(x, "no final }") ELSE Body(statement(x))
      x == Body([s EXCEPT !.declared = 0, !.ncmp = @ + 1])
  IN [x EXCEPT !.ncmp = @ - 1, !.csp = s.csp, !.declared = -1,
               !.loc = SubSeq(@, 1, Len(s.loc))
                       \o SelectSeq(SubSeq(@, Len(s.loc) + 1, Len(@)),
                                    LAMBDA y : y.ident = "LABEL")]

\* A block: its variables are taken off at its end, in the code and in the table, where
\* only labels stay.
compound(s) ==
  LET RECURSIVE Body(_)
      Body(x) == IF x.abort THEN x ELSE IF Tok(x) = "}" THEN Bump(x)
                 ELSE IF Eof(x) THEN error(x, "no final }") ELSE Body(statement(x))
      x == Body([s EXCEPT !.declared = 0, !.ncmp = @ + 1])
  IN [modsp([x EXCEPT !.ncmp = @ - 1], s.csp, FALSE) EXCEPT
        !.declared = -1,
        !.loc = SubSeq(@, 1, Len(s.loc))
                \o SelectSeq(SubSeq(@, Len(s.loc) + 1, Len(@)), LAMBDA y : y.ident = "LABEL")]

\* No jump over the else after a statement that does not go on.
doif(s) ==
  LET flab1 == s.nxtlab + 1
      x == statement(test(getlabel(s), flab1, TRUE))
      y == getlabel(Bump(x))
      z == IF y.lastst \in {"RETURN", "GOTO"} THEN y ELSE jump(y, y.nxtlab)
  IN IF Tok(x) # "else" THEN postlabel(x, flab1)
     ELSE postlabel(statement(postlabel(z, flab1)), y.nxtlab)

dowhile(s) ==
  LET x == addwhile(s)
      w == Last(x.wq)
      y == statement(test(postlabel(x, w.loop), w.exit, TRUE))
  IN IF x.abort THEN x ELSE delwhile(postlabel(jump(y, w.loop), w.exit))

\* Mutant: continue goes to the body instead of the test.
dodo_Body(s) ==
  LET x == getlabel(addwhile(s))
      w == Last(x.wq)
      y == needtoken(statement(postlabel(postlabel(x, w.loop), x.nxtlab)), "while")
      z == jump(test(y, w.exit, TRUE), x.nxtlab)
  IN IF x.abort THEN x ELSE ns(delwhile(postlabel(z, w.exit)))
dodo(s) ==
  LET x == getlabel(addwhile(s))
      w == Last(x.wq)
      y == needtoken(statement(postlabel(x, x.nxtlab)), "while")
      z == jump(test(postlabel(y, w.loop), w.exit, TRUE), x.nxtlab)
  IN IF x.abort THEN x ELSE ns(delwhile(postlabel(z, w.exit)))

dofor(s) ==
  LET x == getlabel(getlabel(addwhile(s)))
      w == Last(x.wq)
      lab1 == x.nxtlab - 1
      lab2 == x.nxtlab
      y == needtoken(x, "(")
      i == postlabel(IF Tok(y) = ";" THEN Bump(y) ELSE ns(doexpr(y)), lab1)
      t == IF Tok(i) = ";" THEN Bump(i) ELSE ns(test(i, w.exit, FALSE))
      e == postlabel(jump(t, lab2), w.loop)
      n == IF Tok(e) = ")" THEN Bump(e) ELSE needtoken(doexpr(e), ")")
      b == statement(postlabel(jump(n, lab1), lab2))
  IN IF x.abort THEN x ELSE delwhile(postlabel(jump(b, w.loop), w.exit))

\* The table of the cases follows the body.
doswitch(s) ==
  LET x == addwhile(s)
      w == Last(x.wq)
      e == getlabel(needtoken(doexpr(needtoken(x, "(")), ")"))
      b == statement(jump([e EXCEPT !.swdefault = 0, !.swactive = TRUE], e.nxtlab))
      sw == call(postlabel(jump(b, w.exit), e.nxtlab), "switch")
      mine == SubSeq(b.cases, Len(s.cases) + 1, Len(b.cases))
      t == FoldLeft(LAMBDA q, c : outbyte(outbyte(q, InsN("dcw label", c.lab)), InsN("dcw", c.val)),
                    sw, mine)
      z == defstorage(t, 2, 0)
      d == IF z.swdefault # 0 THEN jump(z, z.swdefault) ELSE z
  IN IF x.abort THEN x
     ELSE [delwhile(postlabel(d, w.exit)) EXCEPT
             !.cases = s.cases, !.swdefault = s.swdefault, !.swactive = s.swactive]

docase(s) ==
  LET x == IF s.swactive THEN s ELSE error(s, "not in switch")
      y == getlabel(x)
      e == constexpr(postlabel(y, y.nxtlab))
  IN IF Len(s.cases) >= MaxCases THEN error(x, "too many cases")
     ELSE needtoken([e.s EXCEPT !.cases = Append(@, [lab |-> y.nxtlab, val |-> e.val])], ":")

dodefault(s) ==
  LET x == IF ~ s.swactive THEN error(s, "not in switch")
           ELSE IF s.swdefault # 0 THEN error(s, "multiple defaults") ELSE s
      y == getlabel(needtoken(x, ":"))
  IN postlabel([y EXCEPT !.swdefault = y.nxtlab], y.nxtlab)

\* The label of a name, which may come later.
addlabel(s) ==
  LET y == findloc(s, s.ssname)
      x == addloc(getlabel(s), "LABEL", 0, s.nxtlab + 1)
  IN IF y = NoSym THEN [s |-> x, lab |-> x.nxtlab]
     ELSE [s |-> IF y.ident = "LABEL" THEN s ELSE error(s, "not a label"), lab |-> y.offset]

\* Mutant: a goto may leave a block that has variables.
dogoto_Anywhere(s) ==
  LET x == [s EXCEPT !.noloc = TRUE]
      a == addlabel(symname(x))
  IN ns(IF IsName(x) THEN jump(a.s, a.lab) ELSE error(x, "bad label"))
dogoto(s) ==
  LET x == IF s.nogo > 0 THEN error(s, "not allowed with block-locals")
           ELSE [s EXCEPT !.noloc = TRUE]
      a == addlabel(symname(x))
  IN ns(IF IsName(x) THEN jump(a.s, a.lab) ELSE error(x, "bad label"))

doreturn(s) ==
  LET e == IF endst(s) THEN s ELSE doexpr(s)
  IN ns(ol(modstk(e, 0, ~ endst(s)), "ret"))

\* break and continue take the stack back to where it was at the loop.
Leave(s, to) ==
  ns(IF s.wq = <<>> THEN error(s, "no active loops")
     ELSE jump(modstk(s, Last(s.wq).sp, FALSE), Last(s.wq)[to]))

\* The variables of the block are allocated before its first statement.
Allocate(s) ==
  IF s.declared < 0 THEN s
  ELSE [modsp([s EXCEPT !.nogo = IF s.ncmp > 1 THEN s.declared ELSE @],
              s.csp - s.declared, FALSE) EXCEPT !.declared = -1]

statement(s) ==
  LET t == Tok(s)
      x == Allocate(s)
      y == Bump(x)
      Was(q, st) == [q EXCEPT !.lastst = st]
      label == addlabel(symname(x))
  IN CASE t = "" -> s
       [] t = "char" -> ns(declloc(Bump(s), CCHAR))
       [] t = "int" -> ns(declloc(Bump(s), CINT))
       [] t = "{" -> compound(y)
       [] t = "if" -> Was(doif(y), "IF")
       [] t = "while" -> Was(dowhile(y), "WHILE")
       [] t = "do" -> Was(dodo(y), "DO")
       [] t = "for" -> Was(dofor(y), "FOR")
       [] t = "switch" -> Was(doswitch(y), "SWITCH")
       [] t = "case" -> Was(docase(y), "CASE")
       [] t = "default" -> Was(dodefault(y), "DEF")
       [] t = "goto" -> Was(dogoto(y), "GOTO")
       [] t = "return" -> Was(doreturn(y), "RETURN")
       [] t = "break" -> Was(Leave(y, "exit"), "BREAK")
       [] t = "continue" -> Was(Leave(y, "loop"), "CONT")
       [] t = ";" -> [y EXCEPT !.errflag = FALSE]
       [] OTHER ->
            IF IsName(x) /\ Len(x.in) > 1 /\ x.in[2] = ":"
            THEN LET p == Bump(label.s) IN postlabel(p, label.lab)
            ELSE Was(ns(doexpr(x)), "EXPR")

-----------------------------------------------------------------------------
(* Functions.                                                                *)

\* The types of the arguments, which have the places that their order gives them.
doargs(s, type) ==
  LET RECURSIVE Next_(_)
      Next_(q) ==
        LET star == Tok(q) = "*"
            named == IsName(IF star THEN Bump(q) ELSE q)
            x == Name(IF star THEN Bump(q) ELSE q)
            close == SelectInSeq(x.in, LAMBDA t : t = "]")
            y == IF Tok(x) = "[" THEN [x EXCEPT !.in = SubSeq(@, close + 1, Len(@))] ELSE x
            at == SelectLastInSeq(y.loc, LAMBDA v : v.name = y.ssname)
            z == IF ~ named THEN y
                 ELSE IF at = 0 THEN error(y, "not an argument")
                 ELSE [y EXCEPT !.loc[at] =
                         [@ EXCEPT !.ident = IF star \/ Tok(x) = "[" THEN "POINTER" ELSE "VARIABLE",
                                   !.type = type, !.offset = y.argtop - @]]
            w == [z EXCEPT !.argstk = @ - 2]
        IN IF q.argstk = 0 THEN q
           ELSE IF endst(w) THEN w
           ELSE Next_(IF Tok(w) = "," THEN Bump(w) ELSE error(w, "no comma"))
  IN ns(Next_(s))

\* A function: its arguments have their places in the order of the call, its strings
\* follow it.
newfunc(s) ==
  LET a == [getlabel(s) EXCEPT !.nogo = 0, !.noloc = FALSE, !.lastst = "NONE", !.litq = <<>>,
                               !.litlab = s.nxtlab + 1, !.loc = <<>>]
      b == IF a.func1 THEN [postlabel(symname(a), a.beglab) EXCEPT !.func1 = FALSE]
           ELSE symname(a)
      at == SelectInSeq(b.glb, LAMBDA y : y.name = b.ssname)
      c == IF at = 0 THEN addglb(b, "FUNCTION", CINT, FUNCTION)
           ELSE IF b.glb[at].ident # "FUNCTION" \/ b.glb[at].offset = FUNCTION
           THEN error(b, "already defined")
           ELSE [b EXCEPT !.glb[at].offset = FUNCTION]
      d == [entry(IF Tok(c) = "(" THEN Bump(c) ELSE error(c, "no open paren")) EXCEPT
              !.argstk = 0]
      RECURSIVE Names(_)
      Names(q) ==
        LET x == symname(q)
            y == IF ~ IsName(q) THEN junk(error(q, "illegal argument name"))
                 ELSE IF findloc(x, x.ssname) # NoSym THEN error(x, "already defined")
                 ELSE [addloc(x, "LABEL", 0, x.argstk) EXCEPT !.argstk = @ + 2]
            z == IF Tok(y) = ")" THEN y
                 ELSE IF Tok(y) = "," THEN Bump(y) ELSE error(y, "no comma")
        IN IF Tok(q) = ")" THEN Bump(q) ELSE IF endst(z) THEN z ELSE Names(z)
      e == Names(d)
      RECURSIVE Types(_)
      Types(q) ==
        IF q.argstk = 0 THEN q
        ELSE IF Tok(q) = "char" THEN Types(doargs(Bump(q), CCHAR))
        ELSE IF Tok(q) = "int" THEN Types(doargs(Bump(q), CINT))
        ELSE error(q, "wrong number of arguments")
      f == statement(Types([e EXCEPT !.csp = 0, !.argtop = e.argstk]))
      g == IF f.lastst = "RETURN" THEN f ELSE ol(f, "ret")
  IN IF ~ IsName(a) THEN [error(a, "illegal function or declaration") EXCEPT !.in = <<>>]
     ELSE IF g.litq = <<>> THEN g
     ELSE dumplits(outbyte(g, InsN("label", g.litlab)), 1)

RECURSIVE parse(_)
parse(s) ==
  IF Eof(s) THEN s
  ELSE parse(IF Tok(s) = "extern"
             THEN LET x == Bump(s)
                  IN IF Tok(x) = "char" THEN declglb(Bump(x), CCHAR, TRUE)
                     ELSE declglb(IF Tok(x) = "int" THEN Bump(x) ELSE x, CINT, TRUE)
             ELSE IF Tok(s) = "char" THEN declglb(Bump(s), CCHAR, FALSE)
             ELSE IF Tok(s) = "int" THEN declglb(Bump(s), CINT, FALSE)
             ELSE newfunc(s))

\* The whole program; it starts with its first function.
compile(tokens) ==
  LET s == getlabel(Start(tokens))
      x == parse(jump([s EXCEPT !.beglab = s.nxtlab], s.nxtlab))
  IN IF x.ncmp # 0 THEN error(x, "no closing bracket") ELSE x
=============================================================================
