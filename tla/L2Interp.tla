------------------------------ MODULE L2Interp ------------------------------
(***************************************************************************)
(* The L2 machine (interp.c) and main: the code the compiler wrote is read  *)
(* into memory and run.  Values are on a stack with the variables; sb is    *)
(* the base of the running function, data[sb - 1] that of the function      *)
(* around it.  A program that was compiled with errors would be run too;    *)
(* what it does is not modelled.                                            *)
(***************************************************************************)
EXTENDS L2Compiler

CONSTANTS
  LoadStores,  \* whether loadmem stores the words it reads
  MaxData      \* the size of data

VARIABLE m     \* the machine
vars == <<compilerVars, m>>

\* Division truncates.
Quotient(a, b) ==
  LET q == (IF a < 0 THEN - a ELSE a) \div (IF b < 0 THEN - b ELSE b) IN
    IF (a < 0) = (b < 0) THEN q ELSE - q

Truth(p) == IF p THEN 1 ELSE 0

\* The stack, and a binary operation on its two top values.
pushs(s, v) == [s EXCEPT !.data[s.sp + 1] = v, !.sp = @ + 1]
top(s) == s.data[s.sp]
under(s) == s.data[s.sp - 1]
Binary(s, v) == [s EXCEPT !.data[s.sp - 1] = v, !.sp = @ - 1]
drop(s, n) == [s EXCEPT !.sp = @ - n]

Arithmetic(s, op) ==
  CASE op = -1 -> Binary(s, under(s) + top(s))
    [] op = -2 -> Binary(s, under(s) - top(s))
    [] op = -3 -> Binary(s, under(s) * top(s))
    [] op = -4 -> IF top(s) = 0 THEN [s EXCEPT !.stop = "zero"]
                  ELSE Binary(s, Quotient(under(s), top(s)))
    [] op = -15 -> s
    [] op = -16 -> [s EXCEPT !.data[s.sp] = - @]

Comparison(s, op) ==
  Binary(s, Truth(CASE op = -5 -> under(s) = top(s)
                    [] op = -6 -> under(s) # top(s)
                    [] op = -7 -> under(s) < top(s)
                    [] op = -8 -> under(s) <= top(s)
                    [] op = -9 -> under(s) > top(s)
                    [] op = -10 -> under(s) >= top(s)))

\* The operands are popped as || and && of C need them: when the first decides,
\* the second stays where it is.
Logical(s, op) ==
  CASE op = -12 -> IF top(s) # 0 THEN [s EXCEPT !.data[s.sp] = 1]
                   ELSE Binary(s, Truth(under(s) # 0))
    [] op = -13 -> IF top(s) = 0 THEN [s EXCEPT !.data[s.sp] = 0]
                   ELSE Binary(s, Truth(under(s) # 0))

Memory(s, op) ==
  CASE op = -11 -> drop([s EXCEPT !.data[under(s)] = top(s)], 2)
    [] op = -19 -> drop([s EXCEPT !.data[top(s)] = Head(s.in), !.in = Tail(@)], 1)
    [] op = -28 -> [s EXCEPT !.data[s.sp] = s.data[top(s)]]
    [] op = -29 -> [s EXCEPT !.data[s.sp] = c.nums[top(s) + 1]]

\* Mutant: the number of a string that was written stays on the stack.
Writing_Keeps(s, op) ==
  CASE op = -20 -> s
    [] op = -21 -> [s EXCEPT !.out = Append(@, c.strs[top(s) + 1])]
    [] op = -22 -> drop([s EXCEPT !.out = Append(@, ToString(top(s)))], 1)

Writing(s, op) ==
  CASE op = -20 -> s
    [] op = -21 -> drop([s EXCEPT !.out = Append(@, c.strs[top(s) + 1])], 1)
    [] op = -22 -> drop([s EXCEPT !.out = Append(@, ToString(top(s)))], 1)

Jumps(s, op) ==
  CASE op = -23 -> drop([s EXCEPT !.pc = IF under(s) = 0 THEN top(s) ELSE @], 2)
    [] op = -24 -> drop([s EXCEPT !.pc = top(s)], 1)

\* The base n levels further out than b.
Outer(s, b, n) ==
  LET Up[k \in 0 .. n] == IF k = 0 THEN b ELSE s.data[Up[k - 1] - 1] IN Up[n]

\* The base of the function around the one that is called.
setlevptr(s, level, caller) ==
  IF level > s.level THEN caller
  ELSE Outer(s, caller, s.level - level + 1)

Call(s) ==
  LET f == c.fn[top(s)]
      sp == s.sp - 1
      sb == sp - f.nparam
  IN [s EXCEPT !.data = [@ EXCEPT ![sb - 3] = s.pc, ![sb] = s.sb,
                                  ![sb - 1] = setlevptr(s, f.flevel, s.sb),
                                  ![sb - 2] = s.level],
               !.level = f.flevel, !.sb = sb, !.sp = sp + f.nlocal,
               !.pc = f.startloc]

Return(s) ==
  LET base == s.sb - 4 IN
    [s EXCEPT !.data[base] = top(s), !.sp = base, !.level = s.data[base + 2],
              !.sb = s.data[base + 4], !.pc = s.data[base + 1]]

Frames(s, op) ==
  CASE op = -14 -> Return(s)
    [] op = -25 -> [s EXCEPT !.sp = @ + 5]
    [] op = -26 -> Call(s)
    [] op = -27 -> LET a == drop(s, 1)
                       b == IF top(s) < s.level THEN Outer(s, s.sb, s.level - top(s))
                            ELSE s.sb
                   IN [a EXCEPT !.data[a.sp] = @ + b]
    [] op = -30 -> [s EXCEPT !.level = 1, !.sp = c.fn[1].nlocal,
                             !.pc = c.fn[1].startloc]

Instruction(s, op) ==
  CASE op >= 0 -> pushs(s, op)
    [] op \in {-1, -2, -3, -4, -15, -16} -> Arithmetic(s, op)
    [] op \in -10 .. -5 -> Comparison(s, op)
    [] op \in {-12, -13} -> Logical(s, op)
    [] op \in {-11, -19, -28, -29} -> Memory(s, op)
    [] op \in {-20, -21, -22} -> Writing(s, op)
    [] op \in {-23, -24} -> Jumps(s, op)
    [] op \in {-14, -25, -26, -27, -30} -> Frames(s, op)
    [] op = -17 -> [s EXCEPT !.stop = "stop"]
    [] op = -18 -> [s EXCEPT !.stop = "crash"]

Start ==
  m = [pc |-> 1, sp |-> 0, sb |-> 0, level |-> 0, stop |-> "",
       program |-> <<>>, data |-> [i \in 0 .. MaxData |-> 0],
       in |-> source.in, out |-> <<>>]

\* loadmem: the words are read; memory that nothing is stored in holds 0.
loadmem ==
  /\ step = "compiled" /\ ~ c.errors
  /\ m' = [m EXCEPT !.program =
             IF LoadStores THEN c.file ELSE [i \in DOMAIN c.file |-> 0]]
  /\ step' = "run" /\ UNCHANGED <<source, c>>

\* Beyond the program there are zeros, which are pushed.
execute ==
  /\ step = "run" /\ m.stop = ""
  /\ LET op == IF m.pc \in DOMAIN m.program THEN m.program[m.pc] ELSE 0 IN
       m' = IF m.sp + 6 > MaxData THEN [m EXCEPT !.stop = "overflow"]
            ELSE Instruction([m EXCEPT !.pc = @ + 1], op)
  /\ UNCHANGED compilerVars

l2 == (compile /\ UNCHANGED m) \/ loadmem \/ execute


-----------------------------------------------------------------------------
L2TypeOK ==
  /\ step \in {"off", "goal", "proc", "alt", "succ", "expr", "seq", "end", "done", "exit",
               "compiled", "run"}
  /\ c.goal \in -99 .. 99 /\ Len(c.goals) <= MaxGoals /\ Len(c.ops) <= MaxGoals
  /\ c.pos \in 1 .. Len(c.src) + 1 /\ c.at \in Nat
  /\ m.sp \in 0 .. MaxData /\ m.stop \in {"", "stop", "crash", "zero", "overflow"}

\* A name means its innermost declaration, whatever was deleted from its hash
\* chain when a function ended (la.c:690-714, 746-783).
FindsInnermost ==
  \A name \in Names :
    findsym(c, name) = Max({0} \cup {i \in DOMAIN c.desc : c.desc[i].name = name})

\* A correct program is compiled without an error, and nothing is left on the
\* stack of operators and jumps (compiler.c:118-145).
SoundCompiles ==
  source.sound /\ step \in {"compiled", "exit"} =>
    step = "compiled" /\ ~ c.errors /\ c.ops = <<>>

\* Every word of the code is in the file, once, unless the last one has just
\* filled the buffer (compiler.c:588-631, main.c:36).
CodeWritten ==
  step = "compiled" /\ c.at % c.size # 0 => Len(c.file) = c.at - 1

\* A correct program writes what it means: precedence, jumps, calls, parameters
\* and the variables of functions around it (interp.c:28-237).
RunsAsMeant ==
  source.sound /\ m.stop # "" => m.stop = "stop" /\ m.out = source.expect

\* No value is left on the stack when a program ends, but by the operators that
\* do not always pop both of theirs (interp.c:100-106).
StackDropped ==
  m.stop = "stop" /\ (\A i \in DOMAIN m.program : m.program[i] \notin {-12, -13})
    => m.sp = c.glb

\* Whatever the source, the compiler comes to an end (compiler.doc, "I don't
\* think the compiler can loop at all"), and so does a program without errors.
Ends ==
  step = "goal" ~> \/ step = "exit" \/ m.stop # ""
                   \/ step = "compiled" /\ c.errors

\* From the symbol table to the stack of the machine, each stage hands on what the next
\* one counts on: names, code without an error, all of it in the file, a level stack.
StagesSound == L2TypeOK /\ FindsInnermost /\ SoundCompiles /\ CodeWritten /\ StackDropped
=============================================================================
