------------------------------- MODULE MCTools -------------------------------
(***************************************************************************)
(* Programs and libraries that share no state: ankhmail, cron, the mail      *)
(* program, C's standard files over NEWDOS/80, pack and unpack, the build     *)
(* system and the source reader of small-C.  Each behaviour is of one of      *)
(* them; what the others start with is then one of their initial states.      *)
(***************************************************************************)
EXTENDS DosStdio, Unpack, Mail, BuildSystem, SmallCPrep, Ankhmail, Cron

VARIABLE part
vars == <<part, ankhVars, cronVars, stdioVars, packVars, unpackVars, mailVars, buildVars, prepVars>>

MCLines == {<<97>>, <<98, NL, 97>>}

\* Every file of up to five characters of three, and longer ones with deep trees.
MCFiles == UNION {[1 .. n -> 0 .. 2] : n \in 0 .. 5}
           \cup {<<0, 1, 2, 3, 0, 0, 0, 0, 1, 2, 0, 0>>, <<3, 3, 3, 3, 3, 3, 3, 3, 2, 2, 2, 2, 1, 1, 0>>,
                 <<0, 1, 2, 3, 0, 1, 2, 3, 0, 1, 2, 3, 0, 1, 2, 3, 0, 0>>}

MCItems == {<<>>, <<<<1>>>>, <<<<2>>>>, <<<<Dot, Dollar>>>>, <<<<Dollar>>, <<1>>>>, <<<<Star>>>>,
            <<<<1>>, <<2, 3>>>>}

Rule(k, ds, cs) == [kind |-> k, depends |-> ds, copy |-> cs]
MCProjects ==
  {[goal |-> "app", sources |-> {<<"app", "m.c">>, <<"lib", "l.c">>, <<"inc", "h">>},
    order |-> [app |-> <<<<"app", "m">>, <<"app", "m.rel">>>>,
               lib |-> <<<<"lib", "l.lib">>, <<"lib", "l.rel">>>>],
    rules |-> (<<"app", "m.rel">> :> Rule("sdcc", <<<<"app", "m.c">>>>, <<<<"inc", "h">>>>))
              @@ (<<"app", "m">> :> Rule("link", <<<<"", "m.rel">>, <<"lib", "l.lib">>>>, <<>>))
              @@ (<<"lib", "l.lib">> :> Rule("library", <<<<"", "l.rel">>>>, <<>>))
              @@ (<<"lib", "l.rel">> :> Rule("sdcc", <<<<"", "l.c">>>>, <<>>))],
   [goal |-> "a", sources |-> {<<"a", "x.asm">>, <<"inc", "y.asm">>},
    order |-> [a |-> <<<<"a", "x">>, <<"a", "z">>, <<"a", "w">>>>],
    rules |-> (<<"a", "x">> :> Rule("assemble", <<<<"", "x.asm">>, <<"inc", "y.asm">>>>, <<>>))
              @@ (<<"a", "z">> :> Rule("skip", <<>>, <<>>))
              @@ (<<"a", "w">> :> Rule("assemble", <<<<"", "x.asm">>>>, <<>>))],
   [goal |-> "a", sources |-> {<<"a", "x.asm">>},   \* sources that are missing
    order |-> [a |-> <<<<"a", "w">>, <<"a", "x">>>>, b |-> <<<<"b", "v.asm">>>>],
    rules |-> (<<"a", "x">> :> Rule("assemble", <<<<"", "q.asm">>>>, <<>>))
              @@ (<<"a", "w">> :> Rule("assemble", <<<<"", "x.asm">>, <<"b", "v.asm">>, <<"c", "u">>>>, <<>>))
              @@ (<<"b", "v.asm">> :> Rule("sdcc", <<>>, <<>>))],
   [goal |-> "a", sources |-> {<<"b", "x.c">>},     \* directories that need each other
    order |-> [a |-> <<<<"a", "x">>>>, b |-> <<<<"b", "y">>>>],
    rules |-> (<<"a", "x">> :> Rule("link", <<<<"b", "y">>>>, <<>>))
              @@ (<<"b", "y">> :> Rule("sdcc", <<<<"", "x.c">>, <<"a", "x">>>>, <<>>))],
   [goal |-> "a", sources |-> {<<"a", "z.c">>},     \* and files
    order |-> [a |-> <<<<"a", "x">>, <<"a", "y">>>>],
    rules |-> (<<"a", "x">> :> Rule("sdcc", <<<<"", "z.c">>, <<"a", "y">>>>, <<>>))
              @@ (<<"a", "y">> :> Rule("sdcc", <<<<"", "x">>>>, <<>>))]}

MCTextLines ==
  {<<"a">>, <<"A", "b">>, <<"#define", "A", "x">>, <<"#define", "B">>, <<"#ifdef", "A">>,
   <<"#ifndef", "B">>, <<"#else">>, <<"#endif">>, <<"c", "/*">>, <<"d", "*/", "A">>,
   <<"#include", "i">>, <<"#asm">>, <<"#endasm">>, <<"{">>}
MCAfter == {<<"a">>, <<"#define", "A", "x">>, <<"#endif">>}
MCIncludes == [i |-> <<<<"#ifdef", "A">>, <<"#define", "B">>, <<"#endif">>, <<"e", "A">>, <<>>>>]
\* Files of up to three lines, two files, and #if in #if.
MCSources ==
  {<<f \o <<<<>>>>>> : f \in UNION {[1 .. n -> MCTextLines] : n \in 0 .. 3}}
  \cup {<<f, g>> : f \in [1 .. 2 -> MCTextLines], g \in [1 .. 1 -> MCTextLines]}
  \cup {<<(<<<<"#ifdef", "A">>, <<"#ifndef", "B">>, a, <<"#else">>, b, <<"#endif">>, <<"#else">>, c,
             <<"#endif">>, <<"A", "b">>>>)>> :
          a \in MCTextLines, b \in MCTextLines, c \in MCAfter}


Arc(a) == [kind |-> "arc", name |-> a]
New(k, f) == [kind |-> k, name |-> f]
MCMembers == [a1 |-> <<"p1", "p2">>, a2 |-> <<"p3">>]
MCQueued == <<[st |-> "Q", kind |-> "news", name |-> "n1"],
              [st |-> "Q", kind |-> "fnews", name |-> "f1"],
              [st |-> "Q", kind |-> "news", name |-> "n2"]>>
MCArrivals ==
  {<<Arc("a1"), New("net", "p9")>>,
   <<Arc("a1"), Arc("a2")>>,
   <<New("other", "x1"), New("ndiff", "d1"), Arc("a2")>>,
   <<New("news", "n3"), New("fnews", "f2"), New("news", "n4")>>}

Job(f, n, s) == [freq |-> f, inc |-> n, sched |-> s]
MCTables ==
  {<<Job("M", 1, <<91, 12, 31, 0, 0>>), Job("H", 30, <<92, 2, 26, 12, 30>>)>>,
   <<Job("D", 40, <<91, 12, 25, 1, 30>>), Job("Y", 1, <<88, 2, 29, 2, 0>>)>>}
\* half past eleven at night, 31 December 1991 and 28 February 1992
MCStartTimes == {48 * 1461 - 1, 48 * 1520 - 1}
MCSteps == {1, 47, 1440}

Init ==
  /\ part \in {"stdio", "pack", "mail", "build", "prep", "ankhmail", "cron"}
  /\ part # "stdio" => dir = [f \in FileNames |-> -1] /\ disk = [f \in FileNames |-> <<97>>]
  /\ part # "pack" => file = <<>> /\ force = FALSE
  /\ part # "build" => project = CHOOSE p \in Projects : TRUE
  /\ AnkhInit /\ CronInit
  /\ part # "ankhmail" => mode = "p" /\ arriving = CHOOSE s \in Arrivals : TRUE
  /\ part # "cron" => tab = (CHOOSE t \in Tables : TRUE) /\ clock = CHOOSE c \in StartTimes : TRUE
  /\ StdioInit /\ PackInit /\ UnpackInit /\ MailInit /\ BuildInit
  /\ IF part = "prep" THEN PrepInit ELSE source = <<>> /\ q = Reader(<<>>)

AllPack == <<packVars, unpackVars>>
Others(p) ==
  /\ UNCHANGED part
  /\ p # "stdio" => UNCHANGED stdioVars
  /\ p # "pack" => UNCHANGED AllPack
  /\ p # "mail" => UNCHANGED mailVars
  /\ p # "build" => UNCHANGED buildVars
  /\ p # "prep" => UNCHANGED prepVars
  /\ p # "ankhmail" => UNCHANGED ankhVars
  /\ p # "cron" => UNCHANGED cronVars
Next ==
  \/ part = "stdio" /\ StdioNext /\ Others("stdio")
  \/ part = "pack" /\ PackNext /\ Others("pack")
  \/ part = "mail" /\ MailNext /\ Others("mail")
  \/ part = "build" /\ BuildNext /\ Others("build")
  \/ part = "prep" /\ PrepNext /\ Others("prep")
  \/ part = "ankhmail" /\ AnkhNext /\ Others("ankhmail")
  \/ part = "cron" /\ CronNext /\ Others("cron")

Spec == Init /\ [][Next]_vars
\* bin/build.py, ankhmail and cron, once started, go on, and ankhmail is started each
\* night.
FairSpec ==
  /\ Spec
  /\ WF_buildVars(part = "build" /\ Run /\ Others("build"))
  /\ WF_ankhVars(part = "ankhmail" /\ Ankhmail /\ Others("ankhmail"))
  /\ WF_ankhVars(part = "ankhmail" /\ AnkhStep /\ Others("ankhmail"))
  /\ WF_cronVars(part = "cron" /\ CronStep /\ Others("cron"))

\* CatchesUp and FiledInTheEnd, each of its own program.
CronCatchesUp == part = "cron" => CatchesUp
MailFiled == part = "ankhmail" => FiledInTheEnd

\* After however many losses of power and failed commands, mail that arrived is filed and
\* dates that were missed are caught up with (ankhmai1.c:main, cron1.c:main).
NightsWorkDone == CronCatchesUp /\ MailFiled
=============================================================================
