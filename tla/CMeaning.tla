------------------------------- MODULE CMeaning -------------------------------
(***************************************************************************)
(* What programs mean in C, the reference for what small-C compiles: a       *)
(* program is a tree, with the tokens it is written in and the values it     *)
(* computes.  Nothing here models code of the compiler; memory is a sequence *)
(* of cells, one for each variable or element.                               *)
(***************************************************************************)
EXTENDS SmallCRun

CONSTANT InC(_)  \* what a program returns and leaves in its globals: Meaning

-----------------------------------------------------------------------------
(* Programs as text, with the parentheses that the levels of operators need. *)

LevelOf ==
  [t \in {"|"} |-> 5] @@ [t \in {"^"} |-> 6] @@ [t \in {"&"} |-> 7] @@ [t \in {"==", "!="} |-> 8]
  @@ [t \in {"<", "<=", ">", ">="} |-> 9] @@ [t \in {"<<", ">>"} |-> 10]
  @@ [t \in {"+", "-"} |-> 11] @@ [t \in {"*", "/", "%"} |-> 12]
Level(e) ==
  CASE e[1] = "set" -> 1 [] e[1] = "or" -> 3 [] e[1] = "and" -> 4 [] e[1] = "bin" -> LevelOf[e[2]]
    [] e[1] \in {"un", "deref", "addr", "pre"} -> 13 [] OTHER -> 14
Separated(texts) ==
  FlattenSeq([i \in DOMAIN texts |-> IF i = 1 THEN texts[i] ELSE <<",">> \o texts[i]])

RECURSIVE Text(_)
Text(e) ==
  LET In(x, lv) == IF Level(x) >= lv THEN Text(x) ELSE <<"(">> \o Text(x) \o <<")">>
      List(es) == Separated([i \in DOMAIN es |-> Text(es[i])])
  IN CASE e[1] = "num" -> <<ToString(e[2])>> [] e[1] = "var" -> <<e[2]>>
       [] e[1] = "str" -> <<e[2]>>
       [] e[1] = "bin" -> In(e[3], LevelOf[e[2]]) \o <<e[2]>> \o In(e[4], LevelOf[e[2]] + 1)
       [] e[1] = "or" -> In(e[2], 3) \o <<"||">> \o In(e[3], 4)
       [] e[1] = "and" -> In(e[2], 4) \o <<"&&">> \o In(e[3], 5)
       [] e[1] = "set" -> In(e[3], 13) \o <<e[2]>> \o In(e[4], 1)
       [] e[1] \in {"un", "pre"} -> <<e[2]>> \o In(e[3], 13)
       [] e[1] = "deref" -> <<"*">> \o In(e[2], 13) [] e[1] = "addr" -> <<"&">> \o In(e[2], 13)
       [] e[1] = "post" -> In(e[3], 14) \o <<e[2]>>
       [] e[1] = "idx" -> In(e[2], 14) \o <<"[">> \o Text(e[3]) \o <<"]">>
       [] e[1] = "call" -> In(e[2], 14) \o <<"(">> \o List(e[3]) \o <<")">>

\* A declaration is [type, form, name, dim].
TypeName(d) == IF d.type = CCHAR THEN "char" ELSE "int"
Declarator(d) ==
  CASE d.form = "var" -> <<d.name>> [] d.form = "ptr" -> <<"*", d.name>>
    [] d.form = "arr" -> <<d.name, "[", ToString(d.dim), "]">>
DeclText(d) == <<TypeName(d)>> \o Declarator(d) \o <<";">>

RECURSIVE StmtText(_)
StmtText(t) ==
  LET Test(e) == <<"(">> \o Text(e) \o <<")">>
      All(ts) == FlattenSeq([i \in DOMAIN ts |-> StmtText(ts[i])])
  IN CASE t[1] = "expr" -> Separated([i \in DOMAIN t[2] |-> Text(t[2][i])]) \o <<";">>
       [] t[1] = "if" -> <<"if">> \o Test(t[2]) \o StmtText(t[3])
       [] t[1] = "ife" -> <<"if">> \o Test(t[2]) \o StmtText(t[3]) \o <<"else">> \o StmtText(t[4])
       [] t[1] = "while" -> <<"while">> \o Test(t[2]) \o StmtText(t[3])
       [] t[1] = "do" -> <<"do">> \o StmtText(t[2]) \o <<"while">> \o Test(t[3]) \o <<";">>
       [] t[1] = "for" -> <<"for", "(">> \o Text(t[2]) \o <<";">> \o Text(t[3]) \o <<";">>
                          \o Text(t[4]) \o <<")">> \o StmtText(t[5])
       [] t[1] = "switch" -> <<"switch">> \o Test(t[2]) \o StmtText(t[3])
       [] t[1] = "case" -> <<"case", ToString(t[2]), ":">>
       [] t[1] = "default" -> <<"default", ":">>
       [] t[1] \in {"break", "continue"} -> <<t[1], ";">>
       [] t[1] = "return" -> <<"return">> \o Text(t[2]) \o <<";">>
       [] t[1] = "empty" -> <<";">>
       [] t[1] = "goto" -> <<"goto", t[2], ";">> [] t[1] = "label" -> <<t[2], ":">>
       [] t[1] = "block" -> <<"{">> \o FlattenSeq([i \in DOMAIN t[2] |-> DeclText(t[2][i])])
                            \o All(t[3]) \o <<"}">>

\* A program is [globals, funs]: a global [d, init], a function [name, args, body].
ProgramText(p) ==
  LET Number(n) == IF n < 0 THEN <<"-", ToString(- n)>> ELSE <<ToString(n)>>
      Global(g) ==
        <<TypeName(g.d)>> \o Declarator(g.d)
        \o (IF g.init = <<>> THEN <<>>
            ELSE IF g.d.form = "arr"
            THEN <<"=", "{">> \o Separated([i \in DOMAIN g.init |-> Number(g.init[i])]) \o <<"}">>
            ELSE <<"=">> \o Number(g.init[1])) \o <<";">>
      Fun(f) == <<f.name, "(">> \o Separated([i \in DOMAIN f.args |-> <<f.args[i].name>>]) \o <<")">>
                \o FlattenSeq([i \in DOMAIN f.args |-> DeclText(f.args[i])]) \o StmtText(f.body)
  IN FlattenSeq([i \in DOMAIN p.globals |-> Global(p.globals[i])])
     \o FlattenSeq([i \in DOMAIN p.funs |-> Fun(p.funs[i])])

-----------------------------------------------------------------------------
(* Values.  q is the memory; env says where names are, the last one counts.  *)

Alloc(q, d, vals) ==
  LET n == IF d.form = "arr" THEN d.dim ELSE 1
  IN [val |-> q.val \o [i \in 1 .. n |-> IF i \in DOMAIN vals THEN vals[i] ELSE 0],
      kind |-> q.kind \o [i \in 1 .. n |-> IF d.form = "ptr" THEN CINT ELSE d.type]]
Bind(env, q, d) == Append(env, [name |-> d.name, at |-> Len(q.val) + 1, form |-> d.form])
Binding(env, name) == env[SelectLastInSeq(env, LAMBDA b : b.name = name)]
Put(q, at, v) ==
  [q EXCEPT !.val[at] = IF q.kind[at] = CCHAR THEN (((v + 128) % 256) - 128) ELSE Wrap(v)]

OpOf == ("|" :> "or") @@ ("^" :> "xor") @@ ("&" :> "and") @@ ("==" :> "eq") @@ ("!=" :> "ne")
        @@ ("<=" :> "le") @@ (">=" :> "ge") @@ ("<" :> "lt") @@ (">" :> "gt") @@ (">>" :> "asr")
        @@ ("<<" :> "asl") @@ ("+" :> "add") @@ ("-" :> "sub") @@ ("*" :> "mult")
        @@ ("/" :> "div") @@ ("%" :> "mod")
Is(v, q) == [v |-> v, q |-> q]

RECURSIVE Eval(_, _, _, _), Exec(_, _, _, _)

\* Function f of the program p, called with values.
CallOf(p, f, args, q, env) ==
  LET ds == p.funs[f].args
      globals == SubSeq(env, 1, Len(p.globals))
      Args == FoldLeft(LAMBDA x, i : [env |-> Bind(x.env, x.q, ds[i]),
                                      q |-> Put(Alloc(x.q, ds[i], <<>>), Len(x.q.val) + 1, args[i])],
                       [env |-> globals, q |-> q], [i \in DOMAIN ds |-> i])
      r == Exec(p, p.funs[f].body, Args.q, Args.env)
  IN Is(r.v, r.q)

Eval(p, e, q, env) ==
  LET E(x, y) == Eval(p, x, y, env)
      a(i) == E(e[i], q)
      Place(x, y) ==  \* of an lvalue
        CASE x[1] = "var" -> Is(Binding(env, x[2]).at, y)
          [] x[1] = "deref" -> E(x[2], y)
          [] x[1] = "idx" -> LET b == E(x[2], y) c == E(x[3], b.q) IN Is(b.v + c.v, c.q)
      Binary_(op, x, y) == LET b == E(y, x.q) IN Is(calc(x.v, OpOf[op], b.v), b.q)
      fun == SelectInSeq(p.funs, LAMBDA f : f.name = e[2])
      place == Place(e[3], q)
      Step(op, after) ==
        LET old == q.val[place.v]
            new == Put(place.q, place.v, IF op = "++" THEN old + 1 ELSE old - 1)
        IN Is(IF after THEN new.val[place.v] ELSE old, new)
  IN CASE e[1] = "num" -> Is(e[2], q)
       [] e[1] = "str" -> Is(Len(q.val) + 1,
             [val |-> q.val \o Append(Strings[e[2]], 0),
              kind |-> q.kind \o [i \in 1 .. Len(Strings[e[2]]) + 1 |-> CCHAR]])
       [] e[1] = "var" ->
            IF fun # 0 THEN Is(fun, q)
            ELSE LET b == Binding(env, e[2]) IN Is(IF b.form = "arr" THEN b.at ELSE q.val[b.at], q)
       [] e[1] = "bin" -> Binary_(e[2], a(3), e[4])
       [] e[1] = "or" -> IF a(2).v # 0 THEN Is(1, a(2).q)
                         ELSE LET b == E(e[3], a(2).q) IN Is(Truth(b.v # 0), b.q)
       [] e[1] = "and" -> IF a(2).v = 0 THEN Is(0, a(2).q)
                          ELSE LET b == E(e[3], a(2).q) IN Is(Truth(b.v # 0), b.q)
       [] e[1] = "un" -> Is(CASE e[2] = "-" -> Wrap(- a(3).v) [] e[2] = "~" -> - a(3).v - 1
                              [] e[2] = "!" -> Truth(a(3).v = 0), a(3).q)
       [] e[1] = "set" ->
            LET at == place.v
                b == E(e[4], place.q)
                v == IF e[2] = "=" THEN b.v ELSE calc(place.q.val[at], Assigns[e[2]], b.v)
                new == Put(b.q, at, v)
            IN Is(new.val[at], new)
       [] e[1] = "pre" -> Step(e[2], TRUE) [] e[1] = "post" -> Step(e[2], FALSE)
       [] e[1] = "deref" -> Is(a(2).q.val[a(2).v], a(2).q)
       [] e[1] = "idx" -> LET at == Place(e, q) IN Is(at.q.val[at.v], at.q)
       [] e[1] = "addr" -> Place(e[2], q)
       [] e[1] = "call" ->
            LET f == a(2)
                Args == FoldLeft(LAMBDA x, y : LET b == E(y, x.q)
                                               IN [vs |-> Append(x.vs, b.v), q |-> b.q],
                                 [vs |-> <<>>, q |-> f.q], e[3])
            IN CallOf(p, f.v, Args.vs, Args.q, env)

\* A statement ends with a flow, and with the value that is returned.
Exec(p, t, q, env) ==
  LET Flow(y, flow, v) == [q |-> y, flow |-> flow, v |-> v]
      E(x, y) == Eval(p, x, y, env)
      X(x, y) == Exec(p, x, y, env)
      RECURSIVE List(_, _, _)
      List(ts, y, ev) ==
        IF ts = <<>> THEN Flow(y, "next", 0)
        ELSE LET r == Exec(p, Head(ts), y, ev)
             IN IF r.flow # "next" THEN r ELSE List(Tail(ts), r.q, ev)
      RECURSIVE Loop(_, _)
      \* pre: whether the test comes first
      Loop(y, pre) ==
        LET cond == CASE t[1] = "while" -> E(t[2], y) [] t[1] = "do" -> E(t[3], y)
                      [] t[1] = "for" -> E(t[3], y)
            z == IF pre THEN cond ELSE Is(1, y)
            body == X(CASE t[1] = "while" -> t[3] [] t[1] = "do" -> t[2] [] t[1] = "for" -> t[5], z.q)
            next == IF t[1] = "for" THEN E(t[4], body.q).q ELSE body.q
        IN IF z.v = 0 THEN Flow(z.q, "next", 0)
           ELSE IF body.flow = "return" THEN body
           ELSE IF body.flow = "break" THEN Flow(body.q, "next", 0)
           ELSE Loop(next, TRUE)
      Block(d, y, ev) == FoldLeft(LAMBDA x, i : [env |-> Bind(x.env, x.q, d[i]),
                                                 q |-> Alloc(x.q, d[i], <<>>)],
                                  [env |-> ev, q |-> y], [i \in DOMAIN d |-> i])
      inner == Block(t[2], q, env)
  IN CASE t[1] = "expr" -> Flow(FoldLeft(LAMBDA y, e : E(e, y).q, q, t[2]), "next", 0)
       [] t[1] = "if" -> LET c == E(t[2], q) IN IF c.v # 0 THEN X(t[3], c.q) ELSE Flow(c.q, "next", 0)
       [] t[1] = "ife" -> LET c == E(t[2], q) IN X(IF c.v # 0 THEN t[3] ELSE t[4], c.q)
       [] t[1] = "while" -> Loop(q, TRUE) [] t[1] = "do" -> Loop(q, FALSE)
       [] t[1] = "for" -> Loop(E(t[2], q).q, TRUE)
       [] t[1] = "switch" ->
            LET c == E(t[2], q)
                body == t[3][3]
                is == SelectInSeq(body, LAMBDA x : x[1] = "case" /\ x[2] = c.v)
                from == IF is # 0 THEN is ELSE SelectInSeq(body, LAMBDA x : x[1] = "default")
                r == List(SubSeq(body, from, Len(body)), c.q, env)
            IN IF from = 0 THEN Flow(c.q, "next", 0)
               ELSE IF r.flow = "break" THEN Flow(r.q, "next", 0) ELSE r
       [] t[1] \in {"case", "default", "empty", "label"} -> Flow(q, "next", 0)
       [] t[1] \in {"break", "continue"} -> Flow(q, t[1], 0)
       [] t[1] = "return" -> LET r == E(t[2], q) IN Flow(r.q, "return", r.v)
       [] t[1] = "block" -> List(t[3], inner.q, inner.env)

\* The globals of the program cell by cell, pointers left out.
Cells(p, Value(_, _)) ==
  FlattenSeq([i \in DOMAIN p.globals |->
    LET d == p.globals[i].d
    IN IF d.form = "ptr" THEN <<>> ELSE [k \in 1 .. Max({1, d.dim}) |-> Value(i, k)]])

\* What the first function of a program returns, and the globals then.
Meaning(p) ==
  LET gs == FoldLeft(LAMBDA x, g : [env |-> Bind(x.env, x.q, g.d), q |-> Alloc(x.q, g.d, g.init)],
                     [env |-> <<>>, q |-> [val |-> <<>>, kind |-> <<>>]], p.globals)
      r == CallOf(p, 1, <<>>, gs.q, gs.env)
      Cell(i, k) == r.q.val[gs.env[i].at + k - 1]
  IN [v |-> r.v, globals |-> Cells(p, Cell)]

-----------------------------------------------------------------------------
(* What small-C is checked for.                                              *)

Begins == m = <<>> \/ m.pc = 1
Stopped == m = <<>> \/ m.status # "runs" \/ Astray

\* A global in the machine's memory.
InMemory(i, k) ==
  LET d == program.tree.globals[i].d
      at == Addr(d.name) + (k - 1) * SizeOf(d.type)
  IN IF d.type = CCHAR THEN Wrap(Extend(m.mem[at])) ELSE Wrap(Word(m, at))

\* The compiler's and the machine's types: the stack pointer of the code that is compiled
\* is never above the frame, and the memory holds bytes.
SmallCTypeOK ==
  /\ s.csp <= 0 /\ s.ncmp >= 0 /\ s.nxtlab \in Nat
  /\ m # <<>> => /\ m.hl \in 0 .. 65535 /\ m.de \in 0 .. 65535 /\ m.pc \in 0 .. Len(s.out)
                 /\ \A a \in DOMAIN m.mem : m.mem[a] \in 0 .. 255

\* A program that was compiled without an error ends, returns what it means in C and
\* leaves its globals as C would (cc11.c:parse and all that it calls).
RunsAsMeant ==
  Stopped /\ m # <<>> /\ program.bad = {} =>
    LET r == InC(program.tree)
    IN /\ m.status = "ended"
       /\ Wrap(m.hl) = r.v
       /\ Cells(program.tree, InMemory) = r.globals

\* Whichever way the code comes to a label, its stack pointer is what the compiler took it
\* to be when it posted the label (csp): pushes that are taken back, blocks that are left
\* by break, continue and return, and arguments all agree.
Balanced ==
  m # <<>> /\ m.status = "runs" /\ m.pc \in DOMAIN Code /\ Instr.op = "label"
    => m.sp = Last(m.frames) + Instr.sp

\* After a program without errors nothing is left over: no loop, case or staged code, the
\* stack is level, and every label that is jumped to is there once.
Settled ==
  Begins /\ program.bad = {} =>
    /\ ~ s.abort /\ ~ s.staging /\ s.wq = <<>> /\ s.cases = <<>> /\ ~ s.swactive /\ s.csp = 0
    /\ \A i \in DOMAIN s.out :
         s.out[i].op \in {"jp", "testjump", "eq0", "ne0", "lt0", "le0", "gt0", "ge0", "ult0",
                          "dcw label"}
           => Cardinality({k \in DOMAIN s.out : s.out[k].op = "label"
                                                 /\ s.out[k].n = s.out[i].n}) = 1

\* The errors that are written are those that the program has.
ErrorsMeant == s.errors = program.bad

\* The compiler and the program it made come to an end.
Ends == <>[]Stopped

\* What the compiler believes of the code it writes is so: the errors it reports are those
\* there are, its idea of the stack is the machine's, and nothing is left over at the end.
CompilesSoundly == SmallCTypeOK /\ Balanced /\ Settled /\ ErrorsMeant
=============================================================================
