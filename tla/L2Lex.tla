------------------------------- MODULE L2Lex --------------------------------
(***************************************************************************)
(* The lexical analyser of the L2 compiler (la.c): the symbol table, with  *)
(* its hash chains and levels, and what la answers for each of the reasons *)
(* it is called for.  An operator takes the state of the compiler as a      *)
(* record, s, and gives the next one.  The tokens lls would deliver are the *)
(* elements of s.src.                                                       *)
(***************************************************************************)
EXTENDS Integers, Sequences, FiniteSets, FiniteSetsExt, SequencesExt

CONSTANTS
  Names,     \* the names that occur in programs, besides the reserved words
  Hash,      \* their hash values, and those of the reserved words
  Numbers,   \* the tokens that are numbers, with their values
  Literals   \* the tokens that are strings

\* Token codes 1 to 15 (lls.h), and the class of each (classtbl).
OpCode == [t \in {"+", "-", "*", "/", "=", "<>", "<", "<=", ">", ">=", ":=", ";",
                  "(", ")", ","} |->
             CHOOSE i \in 1 .. 15 :
               t = <<"+", "-", "*", "/", "=", "<>", "<", "<=", ">", ">=", ":=",
                     ";", "(", ")", ",">>[i]]
classtbl == <<82, 82, 84, 84, 75, 75, 75, 75, 75, 75, 43, 11, 32, 73, 31>>
STRINGCLASS == 50
NUMBERCLASS == 89

\* Classes of the symbol table.
LOCALVAR == 30
GLOBAL == 33
FUNCTION == 34
FORMAL == 35

Reserved ==
  <<<<"prog", 2, -1>>, <<"endprg", 7, -1>>, <<"funct", 12, -1>>,
    <<"endfn", 23, -1>>, <<"begin", 28, -1>>, <<"var", 29, -1>>,
    <<"return", 39, 14>>, <<"read", 45, -1>>, <<"write", 49, -1>>,
    <<"while", 53, -1>>, <<"do", 55, -1>>, <<"enddo", 57, -1>>,
    <<"if", 58, -1>>, <<"then", 60, -1>>, <<"else", 62, -1>>,
    <<"endif", 64, -1>>, <<"or", 66, 12>>, <<"and", 69, 13>>>>

newsymb(s, name, class, code, level) ==
  [s EXCEPT !.desc = Append(@, [name |-> name, class |-> class, code |-> code,
                                level |-> level, syn |-> s.head[Hash[name]]]),
            !.head[Hash[name]] = Len(s.desc) + 1]

\* The descriptor of a name, along its hash chain; 0 if there is none.
findsym(s, name) ==
  LET Along[i \in 0 .. Len(s.desc)] ==
        IF i = 0 THEN 0
        ELSE IF s.desc[i].name = name THEN i ELSE Along[s.desc[i].syn]
  IN Along[s.head[Hash[name]]]

\* reason 10
reason10 ==
  FoldLeft(LAMBDA s, r : newsymb(s, r[1], r[2], r[3], 0),
           [desc |-> <<>>, head |-> [h \in Range(Hash) |-> 0], glb |-> 0,
            fun |-> 1, for |-> 0, loc |-> 0, cur |-> 0,
            nums |-> <<>>, strs |-> <<>>],
           Reserved)

\* A token is found to be of a class, or there is an error in it.
Token(s, class, code, level) ==
  [s EXCEPT !.class = class, !.code = code, !.level = level, !.err = 0]
laerror(s, e) == [s EXCEPT !.err = e]

AtEnd(s) == s.pos > Len(s.src)
IsName(s) == ~ AtEnd(s) /\ s.src[s.pos] \in DOMAIN Hash

\* Mutant: the source is read past its end.
nexttok_PastEnd(s) == [s EXCEPT !.pos = @ + 1]

\* lls: the next token.  At the end of the source it does not move.
nexttok(s) == [s EXCEPT !.pos = @ + (IF AtEnd(s) THEN 0 ELSE 1)]

addstr(s, t) == [s EXCEPT !.strs = Append(@, t), !.code = Len(s.strs)]

\* The place of a number in its table, counted from 0.
addnumb(s, n) ==
  LET i == {k \in DOMAIN s.nums : s.nums[k] = n} IN
    IF i # {} THEN [s EXCEPT !.code = Min(i) - 1]
    ELSE [s EXCEPT !.nums = Append(@, n), !.code = Len(s.nums)]

\* The next token, whatever it is.
reason1(s) ==
  LET t == s.src[s.pos]  n == nexttok(s) IN
    IF AtEnd(s) THEN laerror(n, 2)
    ELSE IF t \in DOMAIN OpCode
      THEN Token(n, classtbl[OpCode[t]], OpCode[t], s.level)
    ELSE IF t \in DOMAIN Numbers
      THEN addnumb(Token(n, NUMBERCLASS, 0, s.level), Numbers[t])
    ELSE IF t \in Literals
      THEN addstr(Token(n, STRINGCLASS, 0, s.level), t)
    ELSE LET d == findsym(s, t) IN
      IF d = 0 THEN laerror(n, 1)
      ELSE Token(n, s.desc[d].class, s.desc[d].code, s.desc[d].level)

\* A new name is expected: missing is the error if there is none, and taken(d)
\* the error if it is known by descriptor d.
Expect(s, missing, taken(_), new(_, _)) ==
  LET n == nexttok(s) IN
    IF ~ IsName(s) THEN laerror(n, missing)
    ELSE LET name == s.src[s.pos]
             d == findsym(s, name)
             e == IF d = 0 THEN 0 ELSE taken(s.desc[d])
         IN IF e # 0 THEN laerror(n, e) ELSE new(n, name)

\* A global variable.
reason2(s) ==
  LET new(n, name) ==
        Token([newsymb(n, name, GLOBAL, s.glb + 1, 1) EXCEPT !.glb = @ + 1],
              GLOBAL, s.glb + 1, 1)
  IN Expect(s, 4, LAMBDA d : 5, new)

\* A function.  Its parameters and variables are counted from 0.
reason3(s) ==
  LET new(n, name) ==
        Token([newsymb(n, name, FUNCTION, s.fun + 1, s.cur)
                 EXCEPT !.fun = @ + 1, !.for = 0, !.loc = 0],
              FUNCTION, s.fun + 1, s.cur)
  IN Expect(s, 6, LAMBDA d : 5, new)

Here(s, d, class) == d.level = s.cur /\ d.class = class

\* A formal parameter.
reason4(s) ==
  LET taken(d) == CASE Here(s, d, FORMAL) -> 8
                    [] Here(s, d, FUNCTION) -> 9
                    [] OTHER -> 0
      new(n, name) ==
        Token([newsymb(n, name, FORMAL, s.for + 1, s.cur)
                 EXCEPT !.for = @ + 1, !.loc = s.for + 1],
              FORMAL, s.for + 1, s.cur)
  IN Expect(s, 7, taken, new)

\* A local variable.
reason5(s) ==
  LET taken(d) == CASE Here(s, d, LOCALVAR) -> 11
                    [] Here(s, d, FORMAL) -> 8
                    [] Here(s, d, FUNCTION) -> 9
                    [] OTHER -> 0
      new(n, name) ==
        Token([newsymb(n, name, LOCALVAR, s.loc + 1, s.cur) EXCEPT !.loc = @ + 1],
              LOCALVAR, s.for, s.cur)
  IN Expect(s, 10, taken, new)

\* The last function declared at this level; 0 stands for the memory before the
\* table, which the code would go on to read.
ThisFunction(s) ==
  Max({0} \cup {i \in DOMAIN s.desc : Here(s, s.desc[i], FUNCTION)})

\* reasons 6 and 7: how many formals, or locals, the function has.
CountOf(s, class) ==
  Cardinality({i \in ThisFunction(s) + 1 .. Len(s.desc) :
                 Here(s, s.desc[i], class)})

\* Mutant: a chain that loses a name is emptied.
reason8_Emptied(s) ==
  LET keep == Max({0} \cup {i \in DOMAIN s.desc :
                              \/ s.desc[i].level < s.cur
                              \/ Here(s, s.desc[i], FUNCTION)})
  IN [s EXCEPT !.desc = SubSeq(@, 1, keep),
               !.head = [h \in DOMAIN @ |-> IF @[h] <= keep THEN @[h] ELSE 0]]

\* reason 8: what was declared in the function is deleted, last first, and each
\* chain begins again where it did before (delsymb).
reason8(s) ==
  LET keep == Max({0} \cup {i \in DOMAIN s.desc :
                              \/ s.desc[i].level < s.cur
                              \/ Here(s, s.desc[i], FUNCTION)})
      Before[i \in 0 .. Len(s.desc)] ==
        IF i <= keep THEN i ELSE Before[s.desc[i].syn]
  IN [s EXCEPT !.desc = SubSeq(@, 1, keep),
               !.head = [h \in DOMAIN @ |-> Before[@[h]]]]

la(s, reason) ==
  CASE reason = 1 -> reason1(s)
    [] reason = 2 -> reason2(s)
    [] reason = 3 -> reason3(s)
    [] reason = 4 -> reason4(s)
    [] reason = 5 -> reason5(s)
=============================================================================
