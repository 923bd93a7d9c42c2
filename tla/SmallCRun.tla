------------------------------ MODULE SmallCRun ------------------------------
(***************************************************************************)
(* A program compiled by small-C, and its execution: the instructions as the *)
(* Z80 executes them, and the library (call.a).  Code is at the indices of   *)
(* the output, data from DATA on, the stack below STACK.                     *)
(***************************************************************************)
EXTENDS SmallCStmt

CONSTANTS
  Programs,   \* what is compiled: records with src, the tokens, and more
  Compiler(_), \* from tokens to the state in which the compiler ends: compile
  DATA, STACK, StackSize

VARIABLES
  program,
  s,      \* the compiler
  m       \* the machine: pc, registers, memory, status; <<>> if there is no code

smallcVars == <<program, s, m>>

Data == {"dcb", "dcw", "dcw $+2", "dcw label"}
Width(i) == IF i.op = "dcb" THEN 1 ELSE IF i.op \in Data THEN 2 ELSE 0

\* Where the data of each index of the output is; the address of a name or a label is
\* that of the data after it, or its index.
Places(out) ==
  LET at[i \in 1 .. Len(out) + 1] ==
        IF i = 1 THEN DATA ELSE at[i - 1] + Width(out[i - 1])
  IN at
AddressAt(out, i) ==
  IF i < Len(out) /\ out[i + 1].op \in {"dcb", "dcw", "dcw $+2"} THEN Places(out)[i] ELSE i
NameAt(out, nm) == SelectInSeq(out, LAMBDA i : i.op = "entry" /\ i.nm = nm)
LabelAt(out, n) == SelectInSeq(out, LAMBDA i : i.op = "label" /\ i.n = n)

Low(v) == v % 256
High(v) == (v \div 256) % 256
Image(out) ==
  LET at == Places(out)
      Value(i) == IF out[i].op = "dcw $+2" THEN at[i] + 2 ELSE out[i].n
      Holds(a) == CHOOSE i \in DOMAIN out : at[i] <= a /\ a < at[i] + Width(out[i])
  IN [a \in DATA .. at[Len(out) + 1] - 1 |->
        IF a = at[Holds(a)] THEN Low(Value(Holds(a))) ELSE High(Value(Holds(a)))]

\* The program is called: what it returns to is index 0.  frames, which the machine does
\* not have, are the stack pointers at the entries of the functions that are active.
Loaded(out) ==
  [pc |-> 1, hl |-> 0, de |-> 0, bc |-> 0, a |-> 0, sp |-> STACK - 2, status |-> "runs",
   frames |-> <<STACK - 2>>,
   mem |-> Image(out) @@ [a \in STACK - StackSize .. STACK - 1 |-> 0]]

\* The compiler has run; a program with an error is not started.
SmallCInit ==
  /\ program \in Programs
  /\ s = Compiler(program.src)
  /\ m = IF s.errors = {} /\ ~ s.abort THEN Loaded(s.out) ELSE <<>>

-----------------------------------------------------------------------------
(* The machine.                                                              *)

Word(x, a) == x.mem[a] + 256 * x.mem[a + 1]
Has(x, a) == {a, a + 1} \subseteq DOMAIN x.mem
PutWord(x, a, v) ==
  IF Has(x, a) THEN [x EXCEPT !.mem[a] = Low(v), !.mem[a + 1] = High(v)]
  ELSE [x EXCEPT !.status = "wild"]
PutByte(x, a, v) ==
  IF a \in DOMAIN x.mem THEN [x EXCEPT !.mem[a] = Low(v)] ELSE [x EXCEPT !.status = "wild"]
GetWord(x, a) == IF Has(x, a) THEN [x EXCEPT !.hl = Word(x, a)] ELSE [x EXCEPT !.status = "wild"]
Extend(b) == IF b > 127 THEN 65280 + b ELSE b
GetByte(x, a) ==
  IF a \in DOMAIN x.mem THEN [x EXCEPT !.hl = Extend(x.mem[a])] ELSE [x EXCEPT !.status = "wild"]
PushWord(x, v) == PutWord([x EXCEPT !.sp = @ - 2], x.sp - 2, v)
Popped(x) == [x EXCEPT !.sp = @ + 2]
U(v) == v % 65536

\* The library's binary operators: DE op HL.
Shifted(op, v, n) ==  \* n a byte; the loop counts down past zero
  IF n > 128 THEN v ELSE calc(v, op, Min({n, 16}))
Library(op, d, h) ==
  CASE op \in {"ule", "ult"} -> calc(d, IF op = "ule" THEN "le" ELSE "lt", h)
    [] op \in {"uge", "ugt"} -> calc(d, IF op = "uge" THEN "ge" ELSE "gt", h)
    [] op \in {"asr", "asl"} -> Shifted(op, Wrap(d), Low(h))
    [] OTHER -> calc(Wrap(d), op, Wrap(h))
Binary == {"or", "xor", "and", "eq", "ne", "le", "ge", "lt", "gt", "ule", "uge", "ult",
           "ugt", "asr", "asl", "mult"}
\* The remainder has the sign of the quotient.
Division(d, h) ==
  LET q == Quotient(d, h)
      r == IF d * h < 0 THEN - ((IF d < 0 THEN - d ELSE d) % (IF h < 0 THEN - h ELSE h))
           ELSE (IF d < 0 THEN - d ELSE d) % (IF h < 0 THEN - h ELSE h)
  IN [q |-> q, r |-> r]

Code == s.out
Instr == Code[m.pc]
Addr(nm) == AddressAt(Code, NameAt(Code, nm))
At(ops) == m # <<>> /\ m.status = "runs" /\ m.pc \in DOMAIN Code /\ Instr.op \in ops
Then(x) == m' = [x EXCEPT !.pc = m.pc + 1] /\ UNCHANGED <<program, s>>

Loads ==
  /\ At({"ld hl", "ld de", "ld hl,lit", "ld hl,m", "ld a", "ld m,a", "ld m,hl", "ld (de),a"})
  /\ Then(CASE Instr.op = "ld hl" ->
                 [m EXCEPT !.hl = IF Instr.nm = "" THEN U(Instr.n) ELSE Addr(Instr.nm)]
            [] Instr.op = "ld de" -> [m EXCEPT !.de = U(Instr.n)]
            [] Instr.op = "ld hl,lit" ->
                 [m EXCEPT !.hl = AddressAt(Code, LabelAt(Code, Instr.sp)) + Instr.n]
            [] Instr.op = "ld hl,m" -> GetWord(m, Addr(Instr.nm))
            [] Instr.op = "ld a" ->
                 IF Instr.nm = "" THEN [m EXCEPT !.a = Instr.n]
                 ELSE [m EXCEPT !.a = m.mem[Addr(Instr.nm)]]
            [] Instr.op = "ld m,a" -> PutByte(m, Addr(Instr.nm), m.hl)
            [] Instr.op = "ld m,hl" -> PutWord(m, Addr(Instr.nm), m.hl)
            [] Instr.op = "ld (de),a" -> PutByte(m, m.de, m.hl))

Arithmetic ==
  /\ At({"add hl,de", "sub hl,de", "add hl,sp", "add hl,hl", "inc hl", "dec hl", "ex de,hl",
         "move"})
  /\ Then(CASE Instr.op = "add hl,de" -> [m EXCEPT !.hl = U(@ + m.de)]
            [] Instr.op = "sub hl,de" -> [m EXCEPT !.hl = U(m.de - @)]
            [] Instr.op = "add hl,sp" -> [m EXCEPT !.hl = U(@ + m.sp)]
            [] Instr.op = "add hl,hl" -> [m EXCEPT !.hl = U(2 * @)]
            [] Instr.op = "inc hl" -> [m EXCEPT !.hl = U(@ + 1)]
            [] Instr.op = "dec hl" -> [m EXCEPT !.hl = U(@ - 1)]
            [] Instr.op = "ex de,hl" -> [m EXCEPT !.hl = m.de, !.de = m.hl]
            [] Instr.op = "move" -> [m EXCEPT !.de = m.hl])

Stack ==
  /\ At({"push hl", "push de", "push bc", "pop hl", "pop de", "pop bc", "inc sp", "dec sp",
         "ld sp,hl", "ex hl,(sp)"})
  /\ LET x == IF Has(m, m.sp) THEN m ELSE [m EXCEPT !.status = "wild"]
         top == IF Has(m, m.sp) THEN Word(m, m.sp) ELSE 0
     IN Then(CASE Instr.op = "push hl" -> PushWord(m, m.hl)
               [] Instr.op = "push de" -> PushWord(m, m.de)
               [] Instr.op = "push bc" -> PushWord(m, m.bc)
               [] Instr.op = "pop hl" -> [Popped(x) EXCEPT !.hl = top]
               [] Instr.op = "pop de" -> [Popped(x) EXCEPT !.de = top]
               [] Instr.op = "pop bc" -> [Popped(x) EXCEPT !.bc = top]
               [] Instr.op = "inc sp" -> [m EXCEPT !.sp = @ + 1]
               [] Instr.op = "dec sp" -> [m EXCEPT !.sp = @ - 1]
               [] Instr.op = "ld sp,hl" -> [m EXCEPT !.sp = m.hl]
               [] Instr.op = "ex hl,(sp)" -> [PutWord(x, m.sp, m.hl) EXCEPT !.hl = top])

\* Calls of the library; those that the optimizer puts in are made of others.
Routine(x, nm) ==
  LET Step(y, by, get(_, _), put(_, _, _)) ==
        LET a == y.hl + y.sp
            z == get([y EXCEPT !.de = a], a)
        IN put([z EXCEPT !.hl = U(@ + by)], a, U(z.hl + by))
      Pop_(y) == [Popped(y) EXCEPT !.de = Word(y, y.sp)]
      Plus(y) == [y EXCEPT !.hl = U(@ + y.de)]
      Into(y, put(_, _, _)) == put(y, y.de, y.hl)
      div == Division(Wrap(x.de), Wrap(x.hl))
  IN CASE nm = "gint" -> GetWord(x, x.hl) [] nm = "gchar" -> GetByte(x, x.hl)
       [] nm = "pint" -> [Into(x, PutWord) EXCEPT !.de = U(@ + 1)] [] nm = "sxt" -> [x EXCEPT !.hl = Extend(x.a)]
       [] nm = "neg" -> [x EXCEPT !.hl = U(- @)] [] nm = "com" -> [x EXCEPT !.hl = U(- @ - 1)]
       [] nm = "lneg" -> [x EXCEPT !.hl = Truth(@ = 0)]
       [] nm = "div" -> [x EXCEPT !.hl = U(div.q), !.de = U(div.r)]
       [] nm \in Binary -> [x EXCEPT !.hl = U(Library(nm, x.de, @))]
       [] nm = "dsgi" -> GetWord(x, x.hl + x.sp) [] nm = "ddgi" -> GetWord(x, Plus(x).hl)
       [] nm = "dsgc" -> GetByte(x, x.hl + x.sp) [] nm = "ddgc" -> GetByte(x, Plus(x).hl)
       [] nm = "inci" -> Step(x, 1, GetWord, PutWord)
       [] nm = "deci" -> Step(x, -1, GetWord, PutWord)
       [] nm = "incc" -> Step(x, 1, GetByte, PutByte)
       [] nm = "decc" -> Step(x, -1, GetByte, PutByte)
       [] nm = "pdpi" -> Into(Pop_(x), PutWord) [] nm = "pdpc" -> Into(Pop_(x), PutByte)
       [] nm = "ddpdpi" -> Into(Pop_(Plus(x)), PutWord)
       [] nm = "ddpdpc" -> Into(Pop_(Plus(x)), PutByte)

Calls ==
  /\ At({"call"}) /\ Instr.nm \notin Identifiers \cup {"switch"}
  /\ Then(Routine(m, Instr.nm))

\* The table behind the call has an address and a value for each case, and a zero.
Switch ==
  /\ At({"call"}) /\ Instr.nm = "switch"
  /\ LET end == Min({i \in DOMAIN Code : /\ i > m.pc /\ (i - m.pc) % 2 = 1
                                          /\ Code[i].op = "dcw"})
         hits == {i \in m.pc + 1 .. end - 1 :
                    Code[i].op = "dcw label" /\ U(Code[i + 1].n) = m.hl}
     IN m' = [m EXCEPT !.de = m.hl, !.pc = IF hits = {} THEN end + 1
                                        ELSE LabelAt(Code, Code[Min(hits)].n)]
  /\ UNCHANGED <<program, s>>

Goto(x, at) == m' = [x EXCEPT !.pc = at, !.status = IF at = 0 /\ x.status = "runs" THEN "nowhere" ELSE @]
               /\ UNCHANGED <<program, s>>

Jumps ==
  /\ At({"jp", "testjump", "eq0", "ne0", "lt0", "le0", "gt0", "ge0", "ult0"})
  /\ LET v == Wrap(m.hl)
         taken == CASE Instr.op \in {"jp", "ult0"} -> TRUE
                    [] Instr.op \in {"testjump", "ne0"} -> v = 0 [] Instr.op = "eq0" -> v # 0
                    [] Instr.op = "lt0" -> v >= 0 [] Instr.op = "le0" -> v > 0
                    [] Instr.op = "gt0" -> v <= 0 [] Instr.op = "ge0" -> v < 0
     IN IF taken THEN Goto(m, LabelAt(Code, Instr.n)) ELSE Then(m)

\* A function by its name, one by the address on the stack, and the return.
CallRet ==
  /\ \/ At({"call"}) /\ Instr.nm \in Identifiers
     \/ At({"callstk", "ret"})
  /\ LET x == IF Has(m, m.sp) THEN m ELSE [m EXCEPT !.status = "wild"]
         top == IF Has(m, m.sp) THEN Word(m, m.sp) ELSE 0
            Enter(y) == [y EXCEPT !.frames = Append(@, y.sp)]
         Left == [Popped(x) EXCEPT !.frames = Front(@),
                                   !.status = IF @ = "runs" /\ top = 0 THEN "ended" ELSE @]
     IN CASE Instr.op = "call" -> Goto(Enter(PushWord(m, m.pc + 1)), NameAt(Code, Instr.nm))
          [] Instr.op = "callstk" ->
               Goto(Enter(PutWord([x EXCEPT !.hl = top], m.sp, m.pc + 1)), top)
          [] Instr.op = "ret" -> Goto(Left, top)

Passes == At({"label", "entry", "extern"}) /\ Then(m)

\* What comes next is not an instruction: data, or no code at all.
Astray == m.pc \notin DOMAIN Code \/ Instr.op \in Data \cup {"line"}

Execute == Loads \/ Arithmetic \/ Stack \/ Calls \/ Switch \/ Jumps \/ CallRet \/ Passes
SmallCSpec == SmallCInit /\ [][Execute]_smallcVars /\ WF_smallcVars(Execute)
=============================================================================
