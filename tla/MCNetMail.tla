----------------------------- MODULE MCNetMail ------------------------------
(***************************************************************************)
(* Constants for checking NetMail: one letter for every way through the    *)
(* three programs.                                                         *)
(***************************************************************************)
EXTENDS NetMail

L(from, to, area, ours, size) ==
  [from |-> from, to |-> to, area |-> area, ours |-> ours, size |-> size]

Echo == L("fido", "user", "fido", TRUE, 2)     \* echomail to a user
Stray == L("fido", "alien", "net", TRUE, 1)    \* netmail to an unknown name
Lost == L("postmaster", "alien", "net", TRUE, 1)
Reroute == L("acs", "fido", "net", FALSE, 1)   \* for another node
Chat == L("user", "user", "net", TRUE, 2)      \* from one user to another
Typo == L("user", "alien", "net", TRUE, 1)
News == L("user", "user", "acs", TRUE, 2)      \* a posting to a user
Own == L("user", "all", "own", TRUE, 1)        \* in no network conference
MCLetters == {Echo, Stray, Lost, Reroute, Chat, Typo, News, Own}

Is(l) == [what |-> "letter", of |-> l]
Empty == [what |-> "empty"]
Bad == [what |-> "bad"]
MCContent ==
  [p1 |-> <<Is(Echo), Empty>>, p2 |-> <<Is(Stray)>>, p3 |-> <<Bad>>,
   p4 |-> <<Is(Reroute), Is(Lost)>>, p5 |-> <<Is(Stray), Bad>>]

Packet(p) == [st |-> " ", name |-> p]
Archive(a) == [st |-> "A", name |-> a]
In(b, l) == [base |-> b, letter |-> l]
Scene(ls, es) == [lines |-> ls, enter |-> es]
MCScenes ==
  {Scene(<<Packet("p1"), Packet("p3"), Archive("a1")>>, {}),
   Scene(<<Packet("p1")>>, {In("loc", Typo), In("msg", News)}),
   Scene(<<Packet("p2"), Archive("a1")>>, {}),
   Scene(<<Packet("p4")>>, {}),
   Scene(<<Packet("p5"), Archive("a1")>>, {In("msg", Own)}),
   Scene(<<>>, {In("loc", Chat)}),
   Scene(<<>>, {In("loc", Typo)})}
=============================================================================
