----------------------------- MODULE ProcStack ------------------------------
(***************************************************************************)
(* What zeta-bbs/internal/swapper promises to the programs of the BBS: a   *)
(* stack of programs in memory, of which the top one executes.  A program  *)
(* calls another {system()}, is replaced by another {execl()} or ends      *)
(* {exit()}; whoever executes again finds its memory as it left it.  There *)
(* are no pages here, no loading and no failure other than a refusal.      *)
(***************************************************************************)
EXTENDS Naturals, Sequences

CONSTANTS
  Programs,   \* program files
  Boot,      \* Answer, the program started at boot
  Logoff,       \* Exitsys, started when the last program has ended
  Versions    \* contents the memory of a program may have while it runs

Image == [prog : Programs, ver : Versions]

VARIABLES
  stack,      \* the images of the programs, the executing one last
  reply       \* what the executing program was last told: "ok" or an error

vars == <<stack, reply>>

Top    == stack[Len(stack)]
Rest   == SubSeq(stack, 1, Len(stack) - 1)
Fresh(p, v) == [prog |-> p, ver |-> v]

Init == stack = <<>> /\ reply = "ok"

\* The executing program changes its own memory, nobody else's.
Work ==
  /\ stack # <<>>
  /\ \E v \in Versions : stack' = Append(Rest, [Top EXCEPT !.ver = v])
  /\ UNCHANGED reply

Call ==
  /\ stack # <<>>
  /\ \E p \in Programs, v \in Versions : stack' = Append(stack, Fresh(p, v))
  /\ UNCHANGED reply

Overlay ==
  /\ stack # <<>>
  /\ \E p \in Programs, v \in Versions : stack' = Append(Rest, Fresh(p, v))
  /\ UNCHANGED reply

\* A call or overlay that fails changes no memory.
Refuse ==
  /\ reply' \in {"read", "open", "memory"}
  /\ UNCHANGED stack

Return ==
  /\ stack # <<>>
  /\ stack' = Rest /\ reply' = "ok"

\* Nothing is left: the program started next is Answer or Exitsys.
Start ==
  /\ stack = <<>>
  /\ \E p \in {Boot, Logoff}, v \in Versions : stack' = <<Fresh(p, v)>>
  /\ UNCHANGED reply

Next == Work \/ Call \/ Overlay \/ Refuse \/ Return \/ Start

Spec == Init /\ [][Next]_vars
=============================================================================
