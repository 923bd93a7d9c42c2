------------------------------- MODULE MCSmallC -------------------------------
(***************************************************************************)
(* Programs for checking small-C: every operator over every kind of operand *)
(* and where its value goes, loops, switches, blocks, pointers, calls; and   *)
(* programs with an error.                                                   *)
(***************************************************************************)
EXTENDS CMeaning

MCIdentifiers == {"main", "f", "g", "h", "v", "x", "c", "w", "p", "a", "b", "q", "l", "out"}
MCStrings == ("'ab'" :> <<97, 98>>) @@ ("'c'" :> <<99>>)

N(n) == <<"num", n>>
V(x) == <<"var", x>>
B(op, x, y) == <<"bin", op, x, y>>
Un(op, x) == <<"un", op, x>>
At_(x, y) == <<"idx", x, y>>
Deref(x) == <<"deref", x>>
Addr_(x) == <<"addr", x>>
Post(op, x) == <<"post", op, x>>
Pre(op, x) == <<"pre", op, x>>
SetTo(op, x, y) == <<"set", op, x, y>>
Of(f, es) == <<"call", V(f), es>>
Do(x) == <<"expr", <<x>>>>
Ret(x) == <<"return", x>>
IntVar(name) == [type |-> CINT, form |-> "var", name |-> name, dim |-> 0]
CharVar(name) == [type |-> CCHAR, form |-> "var", name |-> name, dim |-> 0]
Ptr(type, name) == [type |-> type, form |-> "ptr", name |-> name, dim |-> 0]
Arr(type, name, n) == [type |-> type, form |-> "arr", name |-> name, dim |-> n]
Block_(ds, ts) == <<"block", ds, ts>>
Fun(name, args, ds, ts) == [name |-> name, args |-> args, body |-> Block_(ds, ts)]
NoTree == [globals |-> <<>>, funs |-> <<>>]
Sound(tree) == [src |-> ProgramText(tree), tree |-> tree, bad |-> {}]
Bad(src, msgs) == [src |-> src, tree |-> NoTree, bad |-> msgs]

\* Every operator, over a local, a char, an argument, a global, an array, a pointer.
Globals_ == <<[d |-> IntVar("g"), init |-> <<3>>], [d |-> CharVar("h"), init |-> <<-2>>],
              [d |-> Arr(CINT, "v", 3), init |-> <<6, 1, -5>>]>>
Operands == {N(0), N(2), V("x"), V("c"), V("g"), V("h"), At_(V("v"), N(2)), At_(V("w"), V("g")),
             Deref(V("p")), Of("f", <<N(1)>>), Un("-", V("x"))}
Operators == DOMAIN OpOf
OperatorProgram(ts) ==
  [globals |-> Globals_,
   funs |-> <<Fun("main", <<>>, <<IntVar("x"), CharVar("c"), Arr(CCHAR, "w", 5), Ptr(CINT, "p")>>,
                  <<Do(SetTo("=", V("x"), N(5))), Do(SetTo("=", V("c"), Un("-", N(1)))),
                    Do(SetTo("=", At_(V("w"), N(3)), N(4))),
                    Do(SetTo("=", V("p"), Addr_(V("x"))))>> \o ts),
              Fun("f", <<IntVar("a")>>, <<>>, <<Ret(B("+", V("a"), N(1)))>>)>>]
Positive == {N(2), V("x"), V("g"), At_(V("w"), V("g")), Deref(V("p")), Of("f", <<N(1)>>)}
Legal(op) == IF op \in {"<<", ">>"} THEN Positive \cup {N(0)}
             ELSE IF op = "%" THEN Positive
             ELSE IF op = "/" THEN Operands \ {N(0)} ELSE Operands
Values == UNION {{B(op, x, y) : x \in Operands, y \in Legal(op)} : op \in Operators}
Binaries == {Sound(OperatorProgram(<<Ret(e)>>)) : e \in Values}

\* Tests: every comparison, and what is not one.
Compares == {"==", "!=", "<", "<=", ">", ">=", "&", "-"}
IfElse(e) == <<"ife", e, Do(Post("++", V("g"))), Do(SetTo("-=", V("g"), N(2)))>>
Tests == {Sound(OperatorProgram(<<IfElse(e), Ret(V("g"))>>)) :
            e \in {z \in Values : z[2] \in Compares /\ z[3] # N(0) /\ z[4] \in Positive \cup {N(0)}}}

\* Operators on both sides of an operator.
Small == {V("x"), N(3), At_(V("v"), V("a")), Of("f", <<V("g")>>), B("-", N(7), V("a")),
          Un("~", V("x"))}
Nested == {Sound([globals |-> Globals_,
                  funs |-> <<Fun("main", <<>>, <<>>, <<Ret(Of("q", <<N(2), N(1)>>))>>),
                             Fun("q", <<IntVar("x"), CharVar("a")>>, <<IntVar("b")>>,
                                 <<Do(SetTo("=", V("b"), B(o2, B(o1, e1, e2), e3))),
                                   Do(SetTo("+=", V("b"), B(o1, e1, B(o2, e2, e3)))), Ret(V("b"))>>),
                             Fun("f", <<IntVar("a")>>, <<>>, <<Ret(B("+", V("a"), N(1)))>>)>>]) :
            o1 \in {"-", "<", "*"}, o2 \in {"-", "&"}, e1 \in Small, e2 \in Small,
            e3 \in {V("x"), At_(V("v"), V("a")), B("-", N(7), V("a"))}}

\* The terms of || and &&, and ! of them, as values and as tests.  What may change a
\* variable is seen in g afterwards.
Terms_ == {V("x"), N(0), N(2), B(">", V("x"), N(3)), Post("--", V("g")), Un("!", V("h"))}
Logic ==
  {Sound(OperatorProgram(<<IfElse(e), Ret(V("g"))>>)) :
     e \in {<<o, a, b>> : o \in {"or", "and"}, a \in Terms_, b \in Terms_}}
  \cup {Sound(OperatorProgram(<<Ret(B("-", <<o1, a, <<o2, b, V("x")>>>>, V("g")))>>)) :
         o1 \in {"or", "and"}, o2 \in {"or", "and"}, a \in Terms_, b \in Terms_}

\* Assignments: every operator to every kind of lvalue, with ++ and -- on both sides.
Places_ == {V("x"), V("c"), V("g"), V("h"), At_(V("v"), N(1)), At_(V("w"), Of("f", <<N(2)>>)), Deref(V("p")),
            At_(V("p"), N(0))}
Assignments ==
  {Sound(OperatorProgram(<<Do(SetTo(op, e, N(2))), Ret(B("+", e, V("g")))>>)) :
     op \in DOMAIN Assigns \ {"%=", ">>=", "/="}, e \in Places_}
  \cup {Sound(OperatorProgram(<<Do(SetTo("=", At_(V("v"), N(0)), SetTo(op, e, V("g")))),
                                Ret(B("*", e, At_(V("v"), N(0))))>>)) :
         op \in {"=", "+=", "|="}, e \in Places_}
  \cup {Sound(OperatorProgram(<<Do(SetTo("=", V("g"), B("+", <<by, op, e>>, N(1)))),
                                Ret(B("+", B("*", N(10), e), V("g")))>>)) :
         op \in {"++", "--"}, by \in {"pre", "post"}, e \in Places_}

\* Loops of each kind, one in another, with break and continue out of blocks that have
\* variables of their own.
Body_(leave, at, inner) ==
  Block_(<<IntVar("b"), Arr(CCHAR, "w", 3)>>,
         <<Do(SetTo("=", V("b"), V("x"))), Do(SetTo("=", At_(V("w"), N(2)), V("x"))), inner,
           <<"if", B("==", At_(V("w"), N(2)), N(at)), <<leave>>>>, Do(SetTo("+=", V("g"), V("b")))>>)
Loops_(leave, at, inner) ==
  {<<"while", Post("--", V("x")), Body_(leave, at, inner)>>,
   <<"do", Body_(leave, at, inner), B(">", Pre("--", V("x")), N(0))>>,
   <<"for", SetTo("=", V("x"), N(0)), B("<", V("x"), N(4)), Post("++", V("x")),
     Body_(leave, at, inner)>>}
Inner_ ==
  {<<"empty">>,
   <<"while", B("<", V("b"), N(3)), Block_(<<CharVar("a")>>,
       <<Do(SetTo("=", V("a"), V("b"))), Do(Pre("++", V("b"))),
         <<"if", B("==", V("a"), N(1)), <<"continue">>>>, Do(SetTo("|=", V("g"), V("a")))>>)>>,
   <<"switch", V("b"), Block_(<<>>,
       <<<<"case", 1>>, Do(SetTo("=", V("g"), N(7))), <<"case", 2>>, Do(SetTo("|=", V("g"), N(8))), <<"break">>,
         <<"default">>, Do(SetTo("*=", V("g"), N(2))), <<"break">>, <<"case", 3>>,
         Block_(<<IntVar("a")>>, <<Do(SetTo("=", V("a"), N(5))), Do(SetTo("-=", V("g"), V("a"))),
                                   <<"break">>>>),
         <<"case", 4>>, Ret(V("b"))>>)>>}
Loops ==
  {Sound([globals |-> Globals_,
          funs |-> <<Fun("main", <<>>, <<IntVar("x")>>,
                         <<Do(SetTo("=", V("x"), N(5))), t, Ret(B("*", V("g"), N(2)))>>)>>]) :
     t \in UNION {Loops_(leave, at, inner) : leave \in {"break", "continue"}, at \in {0, 2},
                                             inner \in Inner_}}

\* Switches: every case, with and without a default, and with no case at all.
SwitchBody(default) ==
  <<<<"case", 1>>, Do(Post("++", V("g"))), <<"break">>, <<"case", 2>>>>
  \o (IF default THEN <<Do(SetTo("=", V("g"), N(9))), <<"default">>>> ELSE <<>>)
  \o <<Do(SetTo("+=", V("g"), N(4))), <<"case", 0>>, Ret(B("-", N(0), V("g")))>>
Switches ==
  {Sound([globals |-> Globals_,
          funs |-> <<Fun("main", <<>>, <<IntVar("x")>>,
                         <<Do(SetTo("=", V("x"), N(n))), <<"switch", B("-", V("x"), N(1)), Block_(<<>>, t)>>,
                           Ret(V("g"))>>)>>]) :
     n \in 1 .. 5, t \in {SwitchBody(TRUE), SwitchBody(FALSE), <<Do(Post("++", V("g")))>>}}

\* Calls: by name and by address, with arguments in order, recursive, with arrays.
Calling ==
  {Sound([globals |-> Globals_ \o <<[d |-> Ptr(CINT, "l"), init |-> <<>>]>>,
          funs |-> <<Fun("main", <<>>, <<IntVar("x"), Ptr(CCHAR, "q")>>, <<Ret(e)>>),
                     Fun("f", <<IntVar("a"), IntVar("b")>>, <<IntVar("c")>>,
                         <<Do(SetTo("=", V("c"), B("-", V("b"), N(1)))),
                           <<"ife", B("==", V("c"), N(0)), Ret(V("a")),
                             Ret(B("+", Of("f", <<B("*", V("a"), N(2)), V("c")>>), V("c")))>>>>),
                     Fun("out", <<Ptr(CINT, "p"), CharVar("a"), Ptr(CCHAR, "w")>>, <<>>,
                         <<Do(Post("++", Deref(V("p")))), Do(SetTo("=", At_(V("p"), N(1)), V("a"))),
                           Ret(B("+", At_(V("w"), N(1)), Deref(V("p"))))>>)>>]) :
     e \in {Of("f", <<N(3), N(4)>>), B("-", Of("f", <<N(3), N(2)>>), Of("f", <<V("g"), N(1)>>)),
            B("+", SetTo("=", V("x"), V("f")), B("-", Of("x", <<N(5), N(3)>>), V("x"))),
            B("+", Of("out", <<V("v"), N(8), <<"str", "'ab'">>>>), At_(V("v"), N(1))),
            Of("out", <<B("+", V("v"), N(1)), Of("f", <<N(1), N(2)>>), <<"str", "'ab'">>>>),
            Of("out", <<V("v"), Of("f", <<N(1), N(1)>>), SetTo("=", V("q"), <<"str", "'ab'">>)>>),
            Of("f", <<Of("f", <<N(1), N(3)>>), Of("f", <<N(2), N(1)>>)>>)}}

\* Pointers: to int and to char, counted up, subtracted and compared.
Pointing ==
  {Sound([globals |-> Globals_,
          funs |-> <<Fun("main", <<>>, <<Ptr(CINT, "p"), Ptr(CCHAR, "q"), Arr(CCHAR, "w", 4), Arr(CINT, "b", 2)>>,
             <<Do(SetTo("=", V("p"), V("v"))), Do(SetTo("=", V("q"), V("w"))),
               Do(SetTo("=", Deref(Post("++", V("q"))), N(7))), Do(SetTo("=", Deref(V("q")), N(5))),
               Do(SetTo("=", At_(V("b"), N(1)), Deref(Pre("++", V("p"))))), Ret(e)>>)>>]) :
     e \in {B("-", B("+", V("p"), N(1)), V("v")), B("-", V("q"), V("w")), B("==", B("-", V("p"), N(1)), V("v")),
            B("<", V("p"), V("v")), Deref(B("-", V("p"), N(1))),
            B("+", At_(V("q"), Un("-", N(1))), At_(V("b"), N(1))),
            Deref(SetTo("-=", V("p"), N(1))), Deref(B("+", N(1), V("p"))),
            B("-", B("+", V("g"), V("p")), V("p")), SetTo("=", Deref(V("p")), V("g"))}}
Goes(tree, means) == [src |-> ProgramText(tree), tree |-> means, bad |-> {}]
Gotos ==
  LET Of_(ts) == [globals |-> Globals_, funs |-> <<Fun("main", <<>>, <<IntVar("x")>>,
                    <<Do(SetTo("=", V("x"), N(4)))>> \o ts \o <<Ret(V("g"))>>)>>]
      Add == Do(SetTo("+=", V("g"), V("x")))
      Down == Do(Post("--", V("x")))
      Go == <<"goto", "l">>
      Label_ == <<"label", "l">>
  IN {Goes(Of_(<<Go, Add, Label_, Down>>), Of_(<<Down>>)),
      Goes(Of_(<<Label_, Add, Down, <<"if", V("x"), Go>>>>), Of_(<<<<"do", Block_(<<>>, <<Add, Down>>), V("x")>>>>)),
      Goes(Of_(<<<<"while", V("x"), Block_(<<>>, <<<<"if", B("==", V("x"), V("g")), Go>>, Add, Down>>)>>, Label_, Add>>),
           Of_(<<<<"while", V("x"), Block_(<<>>, <<<<"if", B("==", V("x"), V("g")), <<"break">>>>, Add, Down>>)>>, Add>>))}

\* Programs with an error: what is in the body of main, and whole programs.
InMain(ts) == <<"int", "g", ";", "main", "(", ")", "{">> \o ts \o <<"}">>
LostLeft == <<"do", ";", "while", "(", "1", ")", ";", "break", ";">>
Faulty ==
  {Bad(InMain(<<"x", "=", "1", ";">>), {"must be an lvalue"}),
   Bad(InMain(<<"g", "=", "5", "=", "g", ";", "++", "5", ";">>), {"must be an lvalue"}),
   Bad(InMain(<<"g", "=", "1", "5", ";", "g", "=", "2", ";">>), {"no semicolon"}),
   Bad(InMain(<<"if", "g", ")", ";">>), {"missing token"}),
   Bad(InMain(<<"g", "=", "&", "5", ";">>), {"illegal address"}),
   Bad(InMain(<<"g", "=", "g", "[", "1", "]", ";">>), {"can't subscript"}),
   Bad(InMain(<<"g", "=", "*", ";">>), {"invalid expression"}),
   Bad(InMain(LostLeft), {"no active loops"}),
   Bad(InMain(<<"continue", ";">>), {"no active loops"}),
   Bad(InMain(<<"case", "1", ":", ";">>), {"not in switch"}),
   Bad(InMain(<<"default", ":", ";">>), {"not in switch"}),
   Bad(InMain(<<"switch", "(", "g", ")", "{", "default", ":", "default", ":", ";", "}">>),
       {"multiple defaults"}),
   Bad(InMain(<<"switch", "(", "g", ")", "{", "case", "1", ":", "switch", "(", "1", ")", "{", "case", "1", ":",
                "case", "2", ":", ";", "}", "case", "2", ":", "case", "3", ":", "case", "4", ":",
                "case", "5", ":", ";", "}">>), {"too many cases"}),
   Bad(InMain(<<"switch", "(", "g", ")", "case", "g", ":", ";">>), {"must be constant expression"}),
   Bad(InMain(<<"while", "(", "1", ")", "while", "(", "1", ")", "do", "for", "(", ";", ";", ")", "switch", "(",
                "1", ")", ";", "while", "(", "1", ")", ";">>), {"too many active loops"}),
   Bad(InMain(<<"goto", "l", ";", "{", "int", "x", ";", "}", "l", ":", ";">>), {"not allowed with goto"}),
   Bad(InMain(<<"{", "int", "x", ";", "x", "=", "1", ";", "goto", "l", ";", "}", "l", ":", ";">>),
       {"not allowed with block-locals"}),
   Bad(InMain(<<"int", "x", ";", "goto", "x", ";">>), {"not a label"}),
   Bad(InMain(<<"goto", "5", ";">>), {"bad label"}),
   Bad(InMain(<<"g", "=", "1", ";", "int", "x", ";">>), {"must declare first in block"}),
   Bad(InMain(<<"int", "5", ";">>), {"illegal symbol"}),
   Bad(InMain(<<"int", "x", ",", "c", ",", "w", ",", "p", ",", "a", ",", "b", ",", "q", ";">>),
       {"local symbol table overflow"}),
   Bad(InMain(<<"g", "=", "g", "+", "(", "g", ";", "g", "=", "(", "1", ";">>), {"missing token"}),
   Bad(InMain(<<"{", "g", "=", "1", ";">>), {"no final }"}),
   Bad(<<"int", "g", ",", "g", ";", "main", "(", ")", "{", "}">>, {"already defined"}),
   Bad(<<"main", "(", ")", "{", "}", "main", "(", ")", "{", "}">>, {"already defined"}),
   Bad(<<"main", "(", "a", ",", "a", ")", "int", "a", ";", "{", "}">>, {"already defined"}),
   Bad(<<"main", "(", "a", ")", "{", "}">>, {"wrong number of arguments"}),
   Bad(<<"main", "(", "a", ")", "int", "b", ";", "{", "}">>, {"not an argument"}),
   Bad(<<"main", "(", "a", ",", "b", ")", "int", "a", "b", ";", "{", "}">>, {"no comma"}),
   Bad(<<"main", "(", "5", ")", "{", "}">>, {"illegal argument name"}),
   Bad(<<"main", "{", "}">>, {"no open paren"}),
   Bad(<<"5", "main", "(", ")", "{", "}">>, {"illegal function or declaration"}),
   Bad(<<"int", "g", "=", "'ab'", ";", "main", "(", ")", "{", "}">>, {"must assign to char pointer or array"}),
   Bad(<<"int", "*", "p", "=", "5", ";", "main", "(", ")", "{", "}">>, {"cannot assign to pointer"}),
   Bad(<<"int", "v", "[", "g", "]", ";", "main", "(", ")", "{", "}">>, {"must be constant expression"}),
   Bad(<<"int", "v", "[", "-", "2", "]", ";", "main", "(", ")", "{", "}">>, {"negative size illegal"}),
   Bad(InMain(<<"g", "=">> \o [i \in 1 .. 39 |-> IF i % 2 = 1 THEN "g" ELSE "-"] \o <<";">>),
       {"staging buffer overflow"})}
MCPrograms == Binaries \cup Tests \cup Nested \cup Logic \cup Assignments \cup Loops \cup Switches
                \cup Calling \cup Pointing \cup Gotos \cup Faulty
\* Outside MCPrograms: the negation of a test against zero, as a test.
WrongPrograms ==
  {Sound(OperatorProgram(<<Do(SetTo("=", V("x"), N(n))), IfElse(Un("!", B("==", V("x"), N(0)))),
                           Ret(V("g"))>>)) : n \in {0, 5}}
=============================================================================
