-------------------------------- MODULE MCL2 --------------------------------
(***************************************************************************)
(* Programs for checking L2: correct ones with what they write, and        *)
(* programs with a token lost, doubled or out of place.  A behaviour either *)
(* compiles and runs one, or scans a text.                                  *)
(***************************************************************************)
EXTENDS L2Interp, Lls

MCNames == {"x", "y", "f", "g", "a", "b", "n"}
MCHash == [t \in MCNames \cup {Reserved[i][1] : i \in DOMAIN Reserved} |->
             IF t \in {"x", "a", "f", "if"} THEN 1
             ELSE IF t \in {"y", "g", "or", "b"} THEN 2 ELSE 3]
MCNumbers == [t \in {"0", "1", "2", "3", "7", "10"} |->
                CASE t = "0" -> 0 [] t = "1" -> 1 [] t = "2" -> 2 [] t = "3" -> 3
                  [] t = "7" -> 7 [] t = "10" -> 10]
MCLiterals == {"'X='", "'end'"}

Program(functs, body) ==
  <<"prog", "var", "x", ",", "y", ";">> \o functs \o <<"begin">> \o body
    \o <<"endprg">>
Sound(src, in, expect) ==
  [src |-> src, size |-> 1000, in |-> in, expect |-> expect, sound |-> TRUE]

\* 7 p 3 q 2 and 7 p (3 q 2)
Does(p, a, b) == CASE p = "+" -> a + b [] p = "-" -> a - b [] p = "*" -> a * b
                   [] p = "/" -> Quotient(a, b)
Sums == {"+", "-"}
Terms == {"*", "/"}
Expressions ==
  {Sound(Program(<<>>, <<"write", "7", p, "3", q, "2", ",", "7", p, "(", "3", q,
                         "2", ")", ",", "-", "3", q, "2">>),
         <<>>,
         <<ToString(IF p \in Sums /\ q \in Terms THEN Does(p, 7, Does(q, 3, 2))
                    ELSE Does(q, Does(p, 7, 3), 2)),
           ToString(Does(p, 7, Does(q, 3, 2))),
           ToString(IF q \in Terms THEN - Does(q, 3, 2) ELSE Does(q, -3, 2))>>) :
     p \in Sums \cup Terms, q \in (Sums \cup Terms) \ {"/"}}

\* if x = 1 and y r 1
Holds(r, a, b) == CASE r = "=" -> a = b [] r = "<>" -> a # b [] r = "<" -> a < b
                    [] r = "<=" -> a <= b [] r = ">" -> a > b [] r = ">=" -> a >= b
Conditions ==
  {Sound(Program(<<>>, <<"read", "x", ",", "y", ";", "if", "x", "=", "1", o, "y", r,
                         "1", "then", "write", "1", "else", "write", "2", "endif">>),
         <<a, b>>,
         <<IF (IF o = "and" THEN a = 1 /\ Holds(r, b, 1) ELSE a = 1 \/ Holds(r, b, 1))
           THEN "1" ELSE "2">>) :
     r \in {"=", "<>", "<", "<=", ">", ">="}, o \in {"and", "or"},
     a \in {1, 2}, b \in {0, 1, 2}}

Loop_ ==
  Sound(Program(<<>>, <<"read", "x", ";", "y", ":=", "1", ";", "while", "x", ">",
                        "0", "do", "if", "y", "=", "1", "then", "write", "'X='", ",", "x",
                        "endif", ";", "y", ":=", "2", "-", "y", ";", "x", ":=", "x", "-", "1",
                        "enddo", ";", "write", "'end'">>),
        <<4>>, <<"'X='", "4", "'X='", "3", "'X='", "2", "'X='", "1", "'end'">>)

Factorial ==
  Sound(Program(<<"funct", "f", "(", "n", ")", ";", "begin", "if", "n", "=", "0",
                  "then", "return", "1", "endif", ";", "return", "n", "*", "f",
                  "(", "n", "-", "1", ")", "endfn">>,
                <<"write", "f", "(", "3", ")">>),
        <<>>, <<"6">>)

\* A function within a function, which uses the variables of both.
Nested ==
  Sound(Program(<<"funct", "f", "(", "a", ")", ";", "var", "b", ";",
                  "funct", "g", "(", "n", ")", ";", "begin", "b", ":=", "b", "+", "n",
                  ";", "x", ":=", "x", "+", "1", ";",
                  "if", "n", ">", "0", "then", "return", "a", "+", "g", "(", "n",
                  "-", "1", ")", "endif", ";", "return", "b", "endfn",
                  "begin", "b", ":=", "10", ";", "return", "g", "(", "2", ")", "endfn">>,
                <<"x", ":=", "0", ";", "write", "f", "(", "7", ")", ",", "x">>),
        <<>>, <<"27", "3">>)

\* The names of a function's parameters and variables are those outside it, a
\* call is an argument of a call, and a function calls one that is not its own.
Shadows ==
  Sound(Program(<<"funct", "f", "(", "x", ",", "a", ")", ";", "var", "y", ";",
                  "begin", "y", ":=", "x", "*", "2", ";", "return", "y", "+", "a",
                  "endfn",
                  "funct", "g", "(", "a", ")", ";",
                  "funct", "b", "(", "n", ")", ";", "begin",
                  "return", "f", "(", "n", ",", "a", ")", "endfn",
                  "begin", "return", "b", "(", "a", "+", "1", ")", "endfn">>,
                <<"x", ":=", "1", ";", "y", ":=", "f", "(", "3", ",", "f", "(", "2", ",", "x", ")",
                  ")", ";", "write", "x", ",", "y", ",", "g", "(", "7", ")">>),
        <<>>, <<"1", "11", "23">>)

\* A token is lost, doubled or changed places with the next one.
Without(q, i) == SubSeq(q, 1, i - 1) \o SubSeq(q, i + 1, Len(q))
Twice(q, i) == SubSeq(q, 1, i) \o SubSeq(q, i, Len(q))
Swapped(q, i) == [q EXCEPT ![i] = q[i + 1], ![i + 1] = q[i]]
Unsound(texts) ==
  {[src |-> t, size |-> 1000, in |-> <<1, 1, 1>>, expect |-> <<>>, sound |-> FALSE] :
     t \in texts}
Cut(q) == Unsound({Without(q, i) : i \in DOMAIN q})
Damaged(q) ==
  Cut(q) \cup Unsound({Twice(q, i) : i \in DOMAIN q}
                      \cup {Swapped(q, i) : i \in 1 .. Len(q) - 1})

\* The buffer of the code is full before the program ends.
Small(s, n) == [s EXCEPT !.size = n, !.sound = FALSE]
MCSources ==
  Expressions \cup Conditions \cup {Loop_, Factorial, Nested, Shadows}
  \cup Damaged(Factorial.src) \cup Cut(Loop_.src)
  \cup {Small(s, n) : s \in {Loop_, Nested}, n \in {16, 40}}

MCTexts ==
  {Append(t, NL) :
     t \in UNION {[1 .. n -> {"a", "1", " ", "(", "*", ")", "Q", ">", "=", NL}] : n \in 0 .. 3}
         \cup [1 .. 4 -> {"a", "(", "*", ")", "Q", "="}]}

AllVars == <<vars, llsVars>>
Init ==
  \/ CompilerInit /\ Start /\ step = "goal"
     /\ text = <<NL>> /\ ReadAhead /\ doing = "off"
  \/ CompilerInit /\ Start /\ step = "off" /\ source = Loop_
     /\ text \in Texts /\ ReadAhead /\ doing = "blank"

L2Next == l2 /\ UNCHANGED llsVars
LlsNext == Scan /\ UNCHANGED vars
Next == L2Next \/ LlsNext
Spec == Init /\ [][Next]_AllVars
FairSpec == Spec /\ WF_AllVars(Next)

\* Neither the compiler, nor a program without errors, nor the scanner of lls.c goes on
\* for ever (Ends, ScanEnds).
BothEnd == Ends /\ ScanEnds
=============================================================================
