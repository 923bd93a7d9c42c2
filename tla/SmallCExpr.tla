------------------------------ MODULE SmallCExpr ------------------------------
(***************************************************************************)
(* The small-C compiler: expressions (cc31.c, cc32.c, cc33.c).  A level of   *)
(* the hierarchy takes the compiler's state and returns a record: s, the     *)
(* state; k, whether what was found is an lvalue that is not fetched; l, the *)
(* C array lval.                                                             *)
(***************************************************************************)
EXTENDS SmallCCode

\* lval[0] to lval[7]: the symbol; the type to fetch indirectly, 0 for static; the type
\* that a pointer or an array is of; whether constant, and its value; whether the
\* secondary register was used; the operator; where the code of "operator 0" is.
lval0 == [sym |-> NoSym, ind |-> 0, ptr |-> 0, con |-> FALSE, val |-> 0,
          sec |-> FALSE, opr |-> "", zero |-> 0]
Found(s, k, l) == [s |-> s, k |-> k, l |-> l]

Wrap(n) == ((n + 32768) % 65536) - 32768
Truth(b) == IF b THEN 1 ELSE 0
RECURSIVE Bitwise_(_, _, _)
Bitwise_(f, a, b) ==  \* of the truth table f, over two's complement
  IF a \in {0, -1} /\ b \in {0, -1} THEN - f[(a % 2) + 1][(b % 2) + 1]
  ELSE 2 * Bitwise_(f, a \div 2, b \div 2) + f[(a % 2) + 1][(b % 2) + 1]
Quotient(a, b) ==
  LET Abs(n) == IF n < 0 THEN - n ELSE n
      q == Abs(a) \div Abs(b)
  IN IF (a < 0) = (b < 0) THEN q ELSE - q

\* The operators; the same table serves what the compiler folds and the machine's
\* routines.
calc(a, op, b) ==
  Wrap(CASE op = "or" -> Bitwise_(<<<<0, 1>>, <<1, 1>>>>, a, b)
         [] op = "xor" -> Bitwise_(<<<<0, 1>>, <<1, 0>>>>, a, b)
         [] op = "and" -> Bitwise_(<<<<0, 0>>, <<0, 1>>>>, a, b)
         [] op = "eq" -> Truth(a = b) [] op = "ne" -> Truth(a # b)
         [] op = "le" -> Truth(a <= b) [] op = "ge" -> Truth(a >= b)
         [] op = "lt" -> Truth(a < b) [] op = "gt" -> Truth(a > b)
         [] op = "asr" -> a \div 2 ^ b [] op = "asl" -> a * 2 ^ b
         [] op = "add" -> a + b [] op = "sub" -> a - b [] op = "mult" -> a * b
         [] op = "div" -> Quotient(a, b) [] op = "mod" -> a - b * Quotient(a, b))

\* The binary operators of each level, and those for pointers.
Levels ==
  <<[t \in {"|"} |-> "or"], [t \in {"^"} |-> "xor"], [t \in {"&"} |-> "and"],
    ("==" :> "eq") @@ ("!=" :> "ne"),
    ("<=" :> "le") @@ (">=" :> "ge") @@ ("<" :> "lt") @@ (">" :> "gt"),
    (">>" :> "asr") @@ ("<<" :> "asl"), ("+" :> "add") @@ ("-" :> "sub"),
    ("*" :> "mult") @@ ("/" :> "div") @@ ("%" :> "mod")>>
op2(op) == CASE op = "le" -> "ule" [] op = "ge" -> "uge" [] op = "lt" -> "ult"
             [] op = "gt" -> "ugt" [] OTHER -> op
Assigns ==
  ("|=" :> "or") @@ ("^=" :> "xor") @@ ("&=" :> "and") @@ ("+=" :> "add") @@
  ("-=" :> "sub") @@ ("*=" :> "mult") @@ ("/=" :> "div") @@ ("%=" :> "mod") @@
  (">>=" :> "asr") @@ ("<<=" :> "asl") @@ ("=" :> "")

-----------------------------------------------------------------------------
(* Fetching, storing, operating.                                             *)

rvalue(s, l) ==
  IF l.sym # NoSym /\ l.ind = 0
  THEN IF l.sym.ident # "POINTER" /\ l.sym.type = CCHAR
       THEN call(outbyte(s, InsS("ld a", l.sym.name)), "sxt")
       ELSE outbyte(s, InsS("ld hl,m", l.sym.name))
  ELSE call(s, IF l.ind = CCHAR THEN "gchar" ELSE "gint")
Fetched(r) == IF r.k THEN rvalue(r.s, r.l) ELSE r.s

store(s, l) ==
  IF l.ind # 0 THEN IF l.ind = CCHAR THEN ol(s, "ld (de),a") ELSE call(s, "pint")
  ELSE IF l.sym.ident # "POINTER" /\ l.sym.type = CCHAR
       THEN outbyte(s, InsS("ld m,a", l.sym.name))
       ELSE outbyte(s, InsS("ld m,hl", l.sym.name))

Operate(s, op) ==
  CASE op = "add" -> ol(s, "add hl,de") [] op = "sub" -> ol(s, "sub hl,de")
    [] op = "mod" -> ol(call(s, "div"), "ex de,hl") [] OTHER -> call(s, op)

\* One is counted where nothing is pointed to.
inc(s, by, size) == FoldLeft(ol, s, [i \in 1 .. (IF size < 1 THEN 1 ELSE size) |-> by])

step(s, by, l) ==
  LET Changed(x) == inc(rvalue(x, l), by, SizeOf(l.ptr))
  IN IF l.ind # 0 /\ l.sec THEN Found(store(pop(Changed(push(s))), l), FALSE, l)
     ELSE IF l.ind # 0
          THEN Found(store(Changed(ol(s, "move")), l), FALSE, [l EXCEPT !.sec = TRUE])
     ELSE Found(store(Changed(s), l), FALSE, l)

\* A value that is added to a pointer to int is doubled.
dbltest(a, b) == a.ptr = CINT /\ b.ptr = 0
Scaled(v, a, b) == Wrap(IF dbltest(a, b) THEN 2 * v ELSE v)

result(l, l2) ==
  IF l.ptr # 0 /\ l2.ptr # 0 THEN [l EXCEPT !.ptr = 0]
  ELSE IF l2.ptr # 0 THEN [l EXCEPT !.sym = l2.sym, !.ind = l2.ind, !.ptr = l2.ptr]
  ELSE l

-----------------------------------------------------------------------------
(* The hierarchy.                                                            *)

RECURSIVE heir1(_), skim(_, _, _), plunge(_, _), heir13(_), heir14(_), expression(_)

\* The levels: 1 assignment, 3 and 4 || and &&, 5 to 12 the binary ones, 13 unary.
heir(level, s) ==
  IF level = 1 THEN heir1(s) ELSE IF level = 3 THEN skim("||", s, 3)
  ELSE IF level = 4 THEN skim("&&", s, 4)
  ELSE IF level = 13 THEN heir13(s) ELSE plunge(level, s)

\* The code of a constant is dropped.
plunge1(level, s) ==
  LET r == heir(level, s)
      first == heir(level, setstage(s))
  IN IF ~ s.staging THEN IF first.l.con THEN [first EXCEPT !.s = clearstage(@, 0, 0)] ELSE first
     ELSE IF r.l.con THEN [r EXCEPT !.s = clearstage(@, stagenext(s), 0)] ELSE r

\* The right side of an operator, or of an assignment (op "").
plunge2(op, level, s, l) ==
  LET before == stagenext(s)
      left == [l EXCEPT !.sec = TRUE, !.zero = 0]
      r == plunge1(level, IF l.con THEN setstage(s) ELSE push(setstage(s)))
      l2 == r.l
      x == Fetched(r)
      Sides ==
        IF l.con THEN
          Found(const2(x, Scaled(l.val, l2, l)), FALSE,
                [left EXCEPT !.zero = IF l.val = 0 THEN stagenext(x) ELSE 0])
        ELSE IF l2.con THEN
          Found(IF op = "add"
                THEN const2(clearstage([x EXCEPT !.csp = @ + 2], before, 0),
                            Scaled(l2.val, l, l2))
                ELSE smartpop(const(x, Scaled(l2.val, l, l2)), l2.sec, before),
                FALSE, [left EXCEPT !.zero = IF l2.val = 0 THEN before ELSE 0])
        ELSE
          LET y == smartpop(x, l2.sec, before)
              z == IF dbltest(l, l2) THEN ol(y, "add hl,hl") ELSE y
              Swap(q) == ol(q, "ex de,hl")
              w == ol(Swap(z), "add hl,hl")
          IN Found(IF op \in {"add", "sub"} /\ dbltest(l2, l)
                   THEN IF op = "sub" THEN Swap(w) ELSE w
                   ELSE IF op \in {"add", "sub"} THEN z ELSE y,
                   FALSE, left)
      oper == IF l.ptr = 0 /\ l2.ptr = 0 THEN op ELSE op2(op)
      Folded == l.con /\ l2.con
      Done ==
        IF Folded
        THEN Found(clearstage(Sides.s, before, 0), FALSE,
                   [Sides.l EXCEPT !.con = TRUE, !.val = calc(l.val, op, l2.val), !.sec = FALSE])
        ELSE Found(Operate(Sides.s, oper), FALSE, [Sides.l EXCEPT !.con = FALSE, !.opr = oper])
      Halved == IF op = "sub" /\ l.ptr = CINT /\ l2.ptr = CINT
                THEN call(const(ol(Done.s, "ex de,hl"), 1), "asr") ELSE Done.s
  IN IF op = "" THEN Sides
     ELSE Found(Halved, FALSE,
                IF op \in {"add", "sub"} THEN result(Done.l, l2) ELSE Done.l)

\* The level of a binary operator, 0 for what is none.
BinaryLevel(t) == SelectInSeq(<<<<>>, <<>>, <<>>, <<>>>> \o Levels, LAMBDA ops : t \in DOMAIN ops)
Operator_(level, s) ==
  LET at == BinaryLevel(Tok(s)) IN IF at >= level THEN at ELSE 0
RECURSIVE More_(_, _)
More_(level, q) ==
  LET at == Operator_(level, q.s)
  IN IF at = 0 THEN q
     ELSE More_(level, plunge2(Levels[at - 4][Tok(q.s)], at + 1, Bump(q.s), q.l))

\* The levels from this one to 12: one that does not find its operator hands on what the
\* next one found.
plunge(level, s) ==
  LET r == plunge1(13, s)
  IN IF Operator_(level, r.s) = 0 THEN r ELSE More_(level, Found(Fetched(r), FALSE, r.l))

\* || and &&: each term may end it.  lval is that of the last term.
skim(opstr, s, level) ==
  LET or == opstr = "||"
      dropout(r, lab) ==
        outbyte(IF r.k THEN rvalue(r.s, r.l)
                ELSE IF r.l.con THEN const(r.s, r.l.val) ELSE r.s,
                InsN(IF or THEN "eq0" ELSE "ne0", lab))
      RECURSIVE Terms(_, _)
      Terms(r, droplab) ==
        IF Tok(r.s) = opstr
        THEN LET lab == IF droplab = 0 THEN r.s.nxtlab + 1 ELSE droplab
                 x == [Bump(r.s) EXCEPT !.nxtlab = IF droplab = 0 THEN @ + 1 ELSE @]
             IN Terms(plunge1(level + 1, dropout([r EXCEPT !.s = x], lab)), lab)
        ELSE IF droplab = 0 THEN r
        ELSE LET x == getlabel(const(dropout(r, droplab), Truth(~ or)))
                 y == postlabel(jump(x, x.nxtlab), droplab)
             IN Found(postlabel(const(y, Truth(or)), x.nxtlab), FALSE,
                      [r.l EXCEPT !.ind = 0, !.ptr = 0, !.con = FALSE, !.zero = 0])
  IN Terms(plunge1(level + 1, s), 0)

heir1(s) ==
  LET r == plunge1(3, s)
      l == r.l
      x == IF l.con THEN const(r.s, l.val) ELSE r.s
      op == Assigns[Tok(x)]
      y == Bump(x)
      Right ==
        IF l.ind # 0 /\ op # ""
        THEN LET q == plunge2(op, 1, rvalue(push(y), l), l) IN [q EXCEPT !.s = pop(@)]
        ELSE IF l.ind # 0 THEN plunge2("", 1, y, l)
        ELSE IF op # "" THEN plunge2(op, 1, rvalue(y, l), l)
        ELSE LET q == heir1(y) IN Found(Fetched(q), FALSE, [l EXCEPT !.sec = q.l.sec])
  IN IF Tok(x) \notin DOMAIN Assigns THEN [r EXCEPT !.s = x]
     ELSE IF ~ r.k THEN Found(error(y, "must be an lvalue"), FALSE, l)
     ELSE Found(store(Right.s, Right.l), FALSE, Right.l)

\* Unary operators.
heir13(s) ==
  LET r == heir13(Bump(s))
      l == r.l
      Unary(nm, val) == Found(call(Fetched(r), nm), FALSE, [l EXCEPT !.val = val])
      NeedLval(q) == Found(error(q.s, "must be an lvalue"), FALSE, q.l)
      By == ("++" :> "inc hl") @@ ("--" :> "dec hl")
      Back == ("++" :> "dec hl") @@ ("--" :> "inc hl")
      p == heir14(s)
      t == Tok(p.s)
      q == step(Bump(p.s), By[t], p.l)
  IN CASE Tok(s) \in DOMAIN By ->
            IF r.k THEN step(r.s, By[Tok(s)], l) ELSE NeedLval(r)
       [] Tok(s) = "~" -> Unary("com", - l.val - 1)
       [] Tok(s) = "!" -> Unary("lneg", Truth(l.val = 0))
       [] Tok(s) = "-" -> Unary("neg", Wrap(- l.val))
       [] Tok(s) = "*" ->
            Found(Fetched(r), TRUE,
                  [l EXCEPT !.ind = IF l.sym # NoSym THEN l.sym.type ELSE CINT,
                            !.ptr = 0, !.con = FALSE])
       [] Tok(s) = "&" ->
            IF ~ r.k THEN Found(error(r.s, "illegal address"), FALSE, l)
            ELSE IF l.ind # 0 THEN Found(r.s, FALSE, [l EXCEPT !.ptr = l.sym.type])
            ELSE Found(address(r.s, l.sym), FALSE,
                       [l EXCEPT !.ptr = l.sym.type, !.ind = l.sym.type])
       [] OTHER ->
            IF t \notin DOMAIN By THEN p
            ELSE IF ~ p.k THEN NeedLval([p EXCEPT !.s = Bump(@)])
            ELSE [q EXCEPT !.s = inc(@, Back[t], SizeOf(p.l.ptr))]

experr(s) == junk(const(error(s, "invalid expression"), 0))

\* A number with its signs, or a string, whose place in the literal pool is the value.
constant(s) ==
  LET n == SelectInSeq(s.in, LAMBDA t : t \notin {"+", "-"})
      x == [s EXCEPT !.in = IF n = 0 THEN <<>> ELSE SubSeq(@, n, Len(@))]
      minus == "-" \in Range(SubSeq(s.in, 1, n - 1))
      v == IF minus THEN - ValueOf[Tok(x)] ELSE ValueOf[Tok(x)]
      str == Strings[Tok(x)]
  IN IF Tok(x) \in DOMAIN ValueOf
     THEN Found(const(Bump(x), v), FALSE, [lval0 EXCEPT !.con = TRUE, !.val = v])
     ELSE IF Tok(x) \in DOMAIN Strings
     THEN Found(outbyte([Bump(x) EXCEPT !.litq = @ \o str \o <<0>>],
                        [InsN("ld hl,lit", Len(x.litq)) EXCEPT !.sp = x.litlab]),
                FALSE, [lval0 EXCEPT !.val = Len(x.litq)])
     ELSE Found(experr(x), FALSE, [lval0 EXCEPT !.con = TRUE])

primary(s) ==
  LET x == symname(s)
      loc == findloc(x, x.ssname)
      glb == findglb(x, x.ssname)
      inside == heir1(Bump(s))
      Local == ol(const(x, loc.offset - x.csp), "add hl,sp")
      new == addglb(x, "FUNCTION", CINT, 0)
  IN IF Tok(s) = "(" THEN [inside EXCEPT !.s = needtoken(@, ")")]
     ELSE IF ~ IsName(s) THEN constant(s)
     ELSE IF loc # NoSym /\ loc.ident = "LABEL" THEN Found(experr(x), FALSE, lval0)
     ELSE IF loc # NoSym THEN
       Found(Local, loc.ident # "ARRAY",
             [lval0 EXCEPT !.sym = loc,
                           !.ind = IF loc.ident = "POINTER" THEN CINT ELSE loc.type,
                           !.ptr = IF loc.ident \in {"POINTER", "ARRAY"} THEN loc.type ELSE 0])
     ELSE IF glb # NoSym /\ glb.ident # "FUNCTION" THEN
       IF glb.ident = "ARRAY"
       THEN Found(address(x, glb), FALSE,
                  [lval0 EXCEPT !.sym = glb, !.ind = glb.type, !.ptr = glb.type])
       ELSE Found(x, TRUE, [lval0 EXCEPT !.sym = glb,
                              !.ptr = IF glb.ident = "POINTER" THEN glb.type ELSE 0])
     ELSE Found(new, FALSE, [lval0 EXCEPT !.sym = findglb(new, x.ssname)])

\* The arguments are pushed in order; the address of what is called, when it was
\* computed, stays above them.
callfunction(s, y) ==
  LET RECURSIVE Args(_, _)
      Args(x, n) ==
        IF Tok(x) = ")" \/ endst(x) THEN [s |-> x, n |-> n]
        ELSE LET e == expression(x).s
                 z == push(IF y = NoSym THEN ol(e, "ex hl,(sp)") ELSE e)
             IN IF Tok(z) = "," THEN Args(Bump(z), n + 2) ELSE [s |-> z, n |-> n + 2]
      a == Args(IF y = NoSym THEN push(s) ELSE s, 0)
      x == outbyte(needtoken(a.s, ")"), InsN("ld a", a.n \div 2))
      Called == IF y # NoSym THEN call(x, y.name)
                ELSE [ol(x, "callstk") EXCEPT !.csp = @ + 2]
  IN modsp(Called, Called.csp + a.n, TRUE)

\* Subscripts and calls, as many as follow.
heir14(s) ==
  LET r == primary(s)
      sym == r.l.sym
      RECURSIVE More(_)
      More(q) ==
        LET x == IF sym.ident = "POINTER" THEN rvalue(Bump(q.s), q.l)
                 ELSE IF sym.ident # "ARRAY" THEN error(Bump(q.s), "can't subscript")
                 ELSE Bump(q.s)
            before == stagenext(x)
            sub == plunge1(1, push(x))
            y == smartpop(IF sub.l.con THEN const(Fetched(sub), sub.l.val)
                          ELSE Fetched(sub), sub.l.sec, before)
            z == needtoken(y, "]")
            v == sub.l.val * SizeOf(sym.type)
            Added == IF ~ sub.l.con
                     THEN ol(IF sym.type = CINT THEN ol(z, "add hl,hl") ELSE z, "add hl,de")
                     ELSE LET w == clearstage(z, before, 0)
                          IN IF v = 0 THEN w
                             ELSE ol(const2(w, IF sym.type = CINT THEN v ELSE sub.l.val),
                                     "add hl,de")
            Call == callfunction(IF sym # NoSym /\ sym.ident # "FUNCTION"
                                 THEN rvalue(Bump(q.s), q.l) ELSE Bump(q.s),
                                 IF sym.ident = "FUNCTION" THEN sym ELSE NoSym)
        IN IF Tok(q.s) = "[" /\ sym = NoSym
           THEN Found(needtoken(junk(error(Bump(q.s), "can't subscript")), "]"), FALSE, q.l)
           ELSE IF Tok(q.s) = "["
           THEN More(Found(Added, TRUE,
                           [q.l EXCEPT !.sym = NoSym, !.ptr = 0, !.ind = sym.type]))
           ELSE IF Tok(q.s) = "("
           THEN More(Found(Call, FALSE, [q.l EXCEPT !.sym = NoSym, !.con = FALSE]))
           ELSE q
  IN IF Tok(r.s) \in {"[", "("} THEN More([r EXCEPT !.l.sec = TRUE])
     ELSE IF sym.ident = "FUNCTION" THEN [r EXCEPT !.s = address(@, sym), !.k = FALSE]
     ELSE r

expression(s) ==
  LET r == heir1(s) IN [s |-> Fetched(r), con |-> r.l.con, val |-> r.l.val]

constexpr(s) ==
  LET before == stagenext(s)
      e == expression(setstage(s))
      x == clearstage(e.s, before, 0)
  IN [e EXCEPT !.s = IF e.con THEN x ELSE error(x, "must be constant expression")]

-----------------------------------------------------------------------------
(* Tests: a jump to label when the expression is false.                      *)

test(s, label, parens) ==
  LET RECURSIVE Last_(_)
      Last_(x) ==  \* all but the last of a list are only evaluated
        LET r == heir1(setstage(x))
            y == Fetched(r)
        IN IF Tok(y) = "," THEN Last_(clearstage(Bump(y), stagenext(x), 1))
           ELSE [r EXCEPT !.s = y]
      e == Last_(IF parens THEN needtoken(s, "(") ELSE s)
      x == IF parens THEN needtoken(e.s, ")") ELSE e.s
      l == e.l
      Zero == ("eq" :> "eq0") @@ ("ule" :> "eq0") @@ ("ne" :> "ne0") @@ ("ugt" :> "ne0")
              @@ ("gt" :> "gt0") @@ ("ge" :> "ge0") @@ ("lt" :> "lt0") @@ ("ult" :> "ult0")
              @@ ("le" :> "le0")
      Tested ==
        IF l.zero = 0 \/ l.opr \notin DOMAIN Zero \cup {"uge"}
        THEN outbyte(x, InsN("testjump", label))
        ELSE IF l.opr = "uge" THEN clearstage(x, l.zero, 0)
        ELSE outbyte(clearstage(x, l.zero, 0), InsN(Zero[l.opr], label))
  IN IF ~ l.con THEN clearstage(Tested, 0, 1)
     ELSE IF l.val # 0 THEN clearstage(x, 0, 0)
     ELSE jump(clearstage(x, 0, 0), label)
=============================================================================
