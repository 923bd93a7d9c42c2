----------------------------- MODULE L2Compiler -----------------------------
(***************************************************************************)
(* The L2 compiler (compiler.c): a goal, and a stack of the goals it is     *)
(* for, are taken through the syntax graph; each goal that succeeds has an  *)
(* action, which writes code.  A token that is not the expected one makes   *)
(* the compiler change the goal, the stack or the token, and go on.         *)
(***************************************************************************)
EXTENDS L2Lex

CONSTANTS
  Sources,   \* what is compiled: records with src and size, of the buffer
  MaxGoals   \* the depth of the goal stack and of the opcode stack

VARIABLES
  source,  \* the program that is compiled
  c,       \* the compiler's state
  step     \* where the compiler is

compilerVars == <<source, c, step>>

\* Alternate, definition, action and successor of each goal (l2.inf).
graph ==
  <<<<0, 2, 0, 0>>, <<0, 0, 1, 3>>, <<4, 8, 0, 3>>, <<5, 12, 0, 4>>,
    <<0, 28, 2, 6>>, <<0, 36, 0, 7>>, <<0, 0, 3, 0>>, <<0, 29, 4, 9>>,
    <<0, 33, 0, 10>>, <<11, 31, 4, 9>>, <<0, 0, 0, 0>>, <<0, 0, 5, 13>>,
    <<0, 34, 0, 14>>, <<0, 32, 6, 15>>, <<0, 35, 0, 16>>, <<17, 31, 6, 15>>,
    <<0, 73, 0, 18>>, <<0, 11, 7, 19>>, <<20, 24, 0, 19>>, <<21, 12, 0, 20>>,
    <<0, 28, 8, 22>>, <<0, 36, 0, 23>>, <<0, 0, 9, 0>>, <<0, 29, 10, 25>>,
    <<0, 30, 0, 26>>, <<27, 31, 10, 25>>, <<0, 11, 0, 0>>, <<0, 0, 0, 0>>,
    <<0, 0, 0, 0>>, <<0, 0, 0, 0>>, <<0, 0, 0, 0>>, <<0, 0, 0, 0>>,
    <<0, 0, 0, 0>>, <<0, 0, 0, 0>>, <<0, 0, 0, 0>>, <<0, 39, 0, 37>>,
    <<90, 11, 0, 36>>, <<41, 33, 11, 0>>, <<42, 0, 12, 40>>,
    <<0, 77, 13, 0>>, <<0, 30, 14, 0>>, <<45, 38, 0, 43>>, <<0, 0, 12, 44>>,
    <<0, 77, 13, 0>>, <<48, 0, 0, 46>>, <<0, 38, 15, 47>>, <<90, 31, 0, 46>>,
    <<53, 49, 16, 0>>, <<0, 0, 0, 50>>, <<51, 0, 17, 52>>, <<0, 77, 18, 52>>,
    <<90, 31, 0, 50>>, <<58, 0, 19, 54>>, <<0, 65, 0, 55>>, <<0, 0, 20, 56>>,
    <<0, 36, 0, 57>>, <<0, 0, 21, 0>>, <<0, 0, 0, 59>>, <<0, 65, 0, 60>>,
    <<0, 0, 20, 61>>, <<0, 36, 0, 62>>, <<64, 0, 22, 63>>, <<0, 36, 0, 64>>,
    <<0, 0, 23, 0>>, <<0, 68, 0, 66>>, <<90, 0, 12, 67>>, <<0, 68, 13, 66>>,
    <<0, 71, 0, 69>>, <<90, 0, 12, 70>>, <<0, 71, 13, 69>>,
    <<74, 32, 0, 72>>, <<0, 65, 0, 73>>, <<0, 0, 0, 0>>, <<0, 77, 0, 75>>,
    <<0, 0, 12, 76>>, <<0, 77, 13, 0>>, <<81, 82, 0, 78>>, <<0, 83, 24, 79>>,
    <<90, 82, 0, 80>>, <<0, 83, 13, 79>>, <<0, 83, 0, 79>>, <<0, 0, 12, 0>>,
    <<0, 86, 0, 84>>, <<90, 0, 12, 85>>, <<0, 86, 13, 84>>,
    <<87, 33, 25, 0>>, <<88, 35, 26, 0>>, <<89, 30, 26, 0>>,
    <<91, 0, 27, 0>>, <<0, 0, 0, 0>>, <<94, 32, 0, 92>>, <<0, 77, 0, 93>>,
    <<0, 73, 0, 0>>, <<0, 34, 28, 95>>, <<0, 32, 0, 96>>, <<0, 77, 0, 97>>,
    <<99, 31, 29, 98>>, <<0, 77, 0, 97>>, <<0, 73, 30, 0>>>>
alt(g) == IF g \in DOMAIN graph THEN graph[g][1] ELSE 0
def(g) == IF g \in DOMAIN graph THEN graph[g][2] ELSE 0
act(g) == IF g \in DOMAIN graph THEN graph[g][3] ELSE 0
suc(g) == IF g \in DOMAIN graph THEN graph[g][4] ELSE 0

\* Goals that are named (goals.h).
PROG == 2
ENDPRG == 7
SEMI == 11
ENDFN == 23
BEGIN == 28
GLEFT == 32
FNAME == 34
GGETS == 43
DO == 55
ENDDO == 57
SYNTAX == 58
THEN_ == 60
ELSE_ == 62
ENDIF == 64
GRIGHT == 73
RELOP == 75
EMPTY == 90

\* Opcodes (opcodes.h).
STOP == -17
CRASH == -18
READ == -19
WRITE == -20
WS == -21
WN == -22
GIF == -23
GO == -24
ISP == -25
CALL == -26
ISB == -27
RS == -28
RN == -29
START == -30

-----------------------------------------------------------------------------
(* The code: a buffer that is written out when it is full.                  *)

outflush(s) ==
  LET first == IF s.at <= s.size THEN 1 ELSE 0
      top == IF s.at % s.size = 0 THEN s.size ELSE s.at % s.size
  IN [s EXCEPT !.file = @ \o [i \in 1 .. top - first |-> s.buf[first + i - 1]]]

\* Mutant: the buffer is not written when it is full.
opcode_NoFlush(s, n) ==
  [s EXCEPT !.buf[s.at % s.size] = n, !.at = @ + 1]

opcode(s, n) ==
  [IF s.at % s.size = 0 THEN outflush(s) ELSE s
     EXCEPT !.buf[s.at % s.size] = n, !.at = @ + 1]

Emit(s, code) == FoldLeft(opcode, s, code)

error(s) == [s EXCEPT !.errors = TRUE]

\* What was written to the file cannot be changed any more.
store(s, addr, n) ==
  IF addr \div s.size # s.at \div s.size THEN error(s)
  ELSE [s EXCEPT !.buf[addr % s.size] = n]

\* A pop of an empty stack, or a push on a full one, ends the compiler.
push(s, g) ==
  IF Len(s.goals) = MaxGoals THEN [s EXCEPT !.exit = TRUE]
  ELSE [s EXCEPT !.goals = Append(@, g)]
pop(s) ==
  IF s.goals = <<>> THEN [s EXCEPT !.exit = TRUE]
  ELSE [s EXCEPT !.goal = Last(s.goals), !.goals = Front(@)]
togs(s) == IF s.goals = <<>> THEN 0 ELSE Last(s.goals)
pushop(s, n) ==
  IF Len(s.ops) = MaxGoals THEN [s EXCEPT !.exit = TRUE]
  ELSE [s EXCEPT !.ops = Append(@, n)]
popop(s) == IF s.ops = <<>> THEN [s EXCEPT !.exit = TRUE]
            ELSE [s EXCEPT !.ops = Front(@)]
topop(s) == IF s.ops = <<>> THEN 0 ELSE Last(s.ops)

-----------------------------------------------------------------------------
(* Actions 1 to 30.                                                         *)

Declare(s, a) ==
  CASE a = 1 -> [Emit([s EXCEPT !.at = 1], <<START>>) EXCEPT !.cur = 1, !.args = 0]
    [] a = 2 -> [s EXCEPT !.fn[1] = [startloc |-> s.at, nparam |-> 0,
                                     nlocal |-> s.glb, flevel |-> 1]]
    [] a = 3 -> Emit(s, <<STOP>>)
    [] a = 4 -> [s EXCEPT !.reason = 2]
    [] a = 5 -> [s EXCEPT !.cur = @ + 1, !.reason = 3]
    [] a = 6 -> [s EXCEPT !.reason = 4]
    [] a = 10 -> [s EXCEPT !.reason = 5]
    [] a \in {7, 8, 9} /\ ThisFunction(s) = 0 -> [s EXCEPT !.exit = TRUE]
    [] a = 7 ->
         LET f == s.desc[ThisFunction(s)].code IN
           [s EXCEPT !.fn[f].nparam = CountOf(s, FORMAL), !.fn[f].flevel = s.cur]
    [] a = 8 ->
         LET f == s.desc[ThisFunction(s)].code IN
           [s EXCEPT !.fn[f].startloc = s.at, !.fn[f].nlocal = CountOf(s, LOCALVAR)]
    [] a = 9 -> Emit([reason8(s) EXCEPT !.cur = @ - 1], <<CRASH>>)

Value(s, a) ==
  CASE a = 11 -> Emit(s, <<s.code>>)
    [] a = 12 -> pushop(s, s.code)
    [] a = 13 -> Emit(popop(s), <<- topop(s)>>)
    [] a = 14 -> Emit(s, <<s.code, s.level, ISB>>)
    [] a = 15 -> Emit(s, <<READ>>)
    [] a = 16 -> Emit(s, <<WRITE>>)
    [] a = 17 -> Emit(s, <<s.code, WS>>)
    [] a = 18 -> Emit(s, <<WN>>)
    [] a = 24 -> Emit(popop(s), <<- (topop(s) + 14)>>)
    [] a = 25 -> Emit(s, <<s.code, RS>>)
    [] a = 26 -> Emit(s, <<s.code, s.level, ISB, RS>>)
    [] a = 27 -> Emit(s, <<s.code, RN>>)

\* Mutant: the jump over the THEN part goes to the jump at its end.
Jump_Else(s, a) ==
  CASE a = 19 -> pushop(s, s.at)
    [] a = 20 -> Emit(pushop(s, s.at), <<CRASH, GIF>>)
    [] a = 21 -> LET t == popop(store(s, topop(s), s.at + 2)) IN
                   Emit(popop(t), <<topop(t), GO>>)
    [] a = 22 -> Emit(pushop(popop(store(s, topop(s), s.at)), s.at), <<CRASH, GO>>)
    [] a = 23 -> popop(store(s, topop(s), s.at))

\* The place of a jump is filled when it is known where it goes.
Jump(s, a) ==
  CASE a = 19 -> pushop(s, s.at)
    [] a = 20 -> Emit(pushop(s, s.at), <<CRASH, GIF>>)
    [] a = 21 -> LET t == popop(store(s, topop(s), s.at + 2)) IN
                   Emit(popop(t), <<topop(t), GO>>)
    [] a = 22 ->
         Emit(pushop(popop(store(s, topop(s), s.at + 2)), s.at), <<CRASH, GO>>)
    [] a = 23 -> popop(store(s, topop(s), s.at))

\* Mutant: the arguments of the call around this one are forgotten.
CallOf_Args(s, a) ==
  CASE a = 28 -> pushop(pushop([Emit(s, <<ISP>>) EXCEPT !.args = 0], s.args), s.code)
    [] a = 29 -> [s EXCEPT !.args = @ + 1]
    [] a = 30 ->
         LET f == topop(s)
             t == IF s.args + 1 # s.fn[f].nparam THEN error(s) ELSE s
         IN [popop(Emit(popop(t), <<f, CALL>>)) EXCEPT !.args = 0]

\* A call: arguments are counted, and those of a call around it come back.
CallOf(s, a) ==
  CASE a = 28 -> pushop(pushop([Emit(s, <<ISP>>) EXCEPT !.args = 0], s.args), s.code)
    [] a = 29 -> [s EXCEPT !.args = @ + 1]
    [] a = 30 ->
         LET f == topop(s)
             t == IF s.args + 1 # s.fn[f].nparam THEN error(s) ELSE s
             u == Emit(popop(t), <<f, CALL>>)
         IN [popop(u) EXCEPT !.args = topop(u)]

action(s, a) ==
  CASE a = 0 -> s
    [] a \in 1 .. 10 -> Declare(s, a)
    [] a \in 11 .. 18 \cup 24 .. 27 -> Value(s, a)
    [] a \in 19 .. 23 -> Jump(s, a)
    [] a \in 28 .. 30 -> CallOf(s, a)

-----------------------------------------------------------------------------
Become(s, next) == c' = s /\ step' = next /\ UNCHANGED source

\* The next goal, or the end.
Again(s) == IF s.exit THEN "exit" ELSE IF s.flag \/ s.goal = 1 THEN "done" ELSE "goal"

CompilerInit ==
  /\ source \in Sources
  /\ c = reason10 @@
         [src |-> source.src, pos |-> 1, class |-> 0, code |-> 0, level |-> 0,
          err |-> 0, goal |-> 1, goals |-> <<>>, ops |-> <<>>, need |-> TRUE,
          reason |-> 1, args |-> 0, errors |-> FALSE, flag |-> FALSE,
          exit |-> FALSE, after |-> "goal",
          fn |-> [f \in 0 .. 30 |-> [startloc |-> 0, nparam |-> 0, nlocal |-> 0,
                                     flevel |-> 0]],
          size |-> source.size, at |-> 0,
          buf |-> [i \in 0 .. source.size - 1 |-> 0], file |-> <<>>]

\* nextgoal: down to a goal without a definition.
nextgoal ==
  /\ step = "goal" /\ def(c.goal) # 0
  /\ Become([push(c, c.goal) EXCEPT !.goal = def(c.goal)],
            IF Len(c.goals) = MaxGoals THEN "exit" ELSE "goal")

\* lacheck: an error la found is reported, and the token taken for the one that
\* is expected.
lacheck(s) ==
  IF s.err = 0 THEN s
  ELSE IF s.err = 2 THEN [error(s) EXCEPT !.flag = TRUE]
  ELSE IF s.err \in {4, 10} THEN [error(s) EXCEPT !.after = "proc"]
  ELSE IF s.err = 1 /\ s.goal \notin {30, 33, 34, 35} THEN [error(s) EXCEPT !.class = 33]
  ELSE [error(s) EXCEPT !.class = s.goal]

\* nexttoken: a token is read if the last one was used.
nexttoken ==
  /\ step = "goal" /\ def(c.goal) = 0
  /\ IF ~ c.need THEN Become(c, "proc")
     ELSE LET s == lacheck([la(c, c.reason) EXCEPT !.need = FALSE, !.reason = 1]) IN
            Become(s, IF s.after = "proc" THEN "succ"
                      ELSE IF s.flag THEN "done" ELSE "proc")

\* successor: the action of a goal that succeeded, then the goal after it, or
\* the one it was for.
successor ==
  /\ step = "succ"
  /\ IF c.goal > 1
     THEN LET s == action(c, act(c.goal)) IN
            IF suc(c.goal) # 0
            THEN LET t == [push(s, - c.goal) EXCEPT !.goal = suc(c.goal),
                                                    !.after = "goal"]
                 IN Become(IF c.after = "stmt" /\ t.goal = 37
                           THEN [t EXCEPT !.goal = 36] ELSE t,
                           IF t.exit THEN "exit"
                           ELSE IF c.after = "proc" THEN "proc" ELSE Again(t))
            ELSE LET t == pop(s) IN Become(t, IF t.exit THEN "exit" ELSE "succ")
     ELSE IF c.goal = 1
     THEN Become([c EXCEPT !.after = "goal"], IF c.after = "proc" THEN "proc" ELSE "done")
     ELSE Become(pop(c), IF pop(c).exit THEN "exit" ELSE "succ")

-----------------------------------------------------------------------------
(* procgoal, and expected, which is asked first.                            *)

Succeed(s, next) == Become([s EXCEPT !.after = next], IF s.exit THEN "exit" ELSE "succ")
Loop(s) == Become(s, Again(s))

\* := for =, = for :=, and an assignment to a parameter.
Substitution(s) ==
  CASE s.goal = GGETS /\ s.class = RELOP /\ s.code = 5 ->
         [error(s) EXCEPT !.class = GGETS]
    [] s.goal = RELOP /\ s.class = GGETS ->
         [error(s) EXCEPT !.class = RELOP, !.code = 5]
    [] s.goal = LOCALVAR /\ togs(s) = 41 /\ s.class = FORMAL ->
         [error(s) EXCEPT !.class = s.goal]
    [] OTHER -> s

Found == c.goal = EMPTY \/ Substitution(c).class = c.goal

\* What is missing is taken for found, the token is kept.
Missing ==
  \/ c.goal \in {PROG, BEGIN, GGETS, DO, THEN_, GRIGHT, RELOP}
  \/ c.goal = GLEFT /\ togs(c) \in {14, 95}
  \/ c.goal = SEMI /\ togs(c) \in {-9, 18, 27}
NoSemicolon == c.goal \in {ENDPRG, ENDFN}
NoEnd == c.goal \in {ENDDO, ENDIF}
NoStatement == c.goal = SYNTAX
NoValue == c.goal = FNAME /\ togs(c) = 94

ProcFound ==
  /\ step = "proc" /\ Found
  /\ LET s == Substitution(c) IN
       Succeed([s EXCEPT !.need = (s.goal = s.class)], "goal")

ProcMissing ==
  /\ step = "proc" /\ ~ Found /\ Missing
  /\ Succeed(error(c), "goal")

\* Back into the statements: a semicolon may be missing.
ProcSemicolon ==
  /\ step = "proc" /\ ~ Found /\ NoSemicolon
  /\ Loop([pop(error(c)) EXCEPT !.goal = IF c.goal = ENDFN THEN 22 ELSE 6])

ProcEnd ==
  /\ step = "proc" /\ ~ Found /\ NoEnd
  /\ Succeed(error(c), "stmt")

\* Out of the expression.
ProcValue ==
  /\ step = "proc" /\ ~ Found /\ NoValue
  /\ Become(error(c), "expr")

LeaveExpr ==
  /\ step = "expr"
  /\ LET s == pop(c) IN
       IF s.exit THEN Become(s, "exit")
       ELSE IF s.goal \in {40, 44, 51, 74, 76, 92, 96, 98} THEN Succeed(s, "goal")
       ELSE Become(s, "expr")

BlockEnds == {ENDPRG, ENDFN, ENDDO, ENDIF, ELSE_}

\* The statements around are over: at the goal that has them.
SyntaxEnd ==
  /\ step = "proc" /\ ~ Found /\ NoStatement /\ c.class \in BlockEnds
  /\ LET s == pop(pop(c)) IN
       IF s.exit THEN Become(s, "exit")
       ELSE IF s.goal = -37 THEN Become(error(s), "seq")
       ELSE Become(s, "end")

LeaveSequence ==
  /\ step = "seq"
  /\ IF c.goal \in {-37, -36}
     THEN LET s == pop(c) IN Become(s, IF s.exit THEN "exit" ELSE "seq")
     ELSE Become(c, "end")

\* The token ends this block, or is ignored if it fits none.
EndOfBlock ==
  /\ step = "end"
  /\ LET s == push(c, - c.goal) IN
       IF s.class = suc(s.goal) \/ (s.class = 64 /\ s.goal = 61)
       THEN Succeed([s EXCEPT !.goal = s.class, !.need = TRUE], "goal")
       ELSE IF s.class \in {ENDPRG, ENDFN} THEN Succeed(s, "goal")
       ELSE Succeed([error(s) EXCEPT !.need = TRUE], "goal")

\* Mutant: the token is kept.
SyntaxIgnore_Kept ==
  /\ step = "proc" /\ ~ Found /\ NoStatement /\ c.class \notin BlockEnds
  /\ Loop(error(c))

\* A token that begins no statement is ignored.
SyntaxIgnore ==
  /\ step = "proc" /\ ~ Found /\ NoStatement /\ c.class \notin BlockEnds
  /\ Loop(IF c.class = SEMI THEN [pop(error(c)) EXCEPT !.need = TRUE]
          ELSE [error(c) EXCEPT !.need = TRUE])

\* No error: another goal may fit, of this goal or of those it is for.
ProcOther ==
  /\ step = "proc"
  /\ ~ (Found \/ Missing \/ NoSemicolon \/ NoEnd \/ NoStatement \/ NoValue)
  /\ Become(c, "alt")

Alternative ==
  /\ step = "alt"
  /\ IF c.goal > 1 /\ alt(c.goal) = 0
     THEN Become(pop(c), IF pop(c).exit THEN "exit" ELSE "alt")
     ELSE IF c.goal < 1 THEN Loop([c EXCEPT !.flag = TRUE])
     ELSE Loop([c EXCEPT !.goal = alt(c.goal)])

\* The rest of the code is written, unless the buffer has just been filled.
Finish ==
  /\ step = "done"
  /\ Become(IF c.at % c.size # 0 THEN outflush(c) ELSE c, "compiled")

compile ==
  \/ nextgoal \/ nexttoken \/ successor \/ ProcFound \/ ProcMissing
  \/ ProcSemicolon \/ ProcEnd \/ ProcValue \/ LeaveExpr \/ SyntaxEnd
  \/ LeaveSequence \/ EndOfBlock \/ SyntaxIgnore \/ ProcOther \/ Alternative
  \/ Finish
=============================================================================
