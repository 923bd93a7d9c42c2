-------------------------------- MODULE Lls ---------------------------------
(***************************************************************************)
(* The low level scan of the L2 compiler (lls.c): characters, two of them   *)
(* read ahead, become tokens.  A token is the sequence of its characters,   *)
(* a string has its quote in front; one step takes one character, or two.   *)
(***************************************************************************)
EXTENDS Integers, Sequences

CONSTANTS
  Texts,     \* source files: sequences of characters
  Letters, Digits,
  MaxDigits, \* MAXDIGITS
  LineSize   \* how much of a string that never ends is kept (bound)

VARIABLES
  text,
  look,    \* ch, nextch, eof, the characters read, the first one of the line
  doing,   \* what is scanned
  lexeme,  \* the characters of the token so far
  tokens   \* the tokens that were delivered

llsVars == <<text, look, doing, lexeme, tokens>>

NUL == "NUL"
NL == "NL"
Blanks == {" ", NL}
Singles == {"+", "-", "*", "/", "=", ";", ",", "(", ")"}
Pairs == {<<"<", ">">>, <<"<", "=">>, <<">", "=">>, <<":", "=">>}

\* At the end of the file both characters are dropped, and the line buffer
\* still holds the last line.
getnext(s) ==
  IF s.eof THEN [s EXCEPT !.ch = s.nextch, !.nextch = NUL]
  ELSE IF s.read = Len(text)
  THEN [s EXCEPT !.ch = NUL, !.nextch = s.first, !.eof = TRUE]
  ELSE [s EXCEPT !.ch = s.nextch, !.nextch = text[s.read + 1], !.read = @ + 1,
                 !.first = IF s.read = 0 \/ text[s.read] = NL THEN text[s.read + 1]
                           ELSE @]

\* The first two characters are read.
ReadAhead ==
  /\ look = getnext(getnext([ch |-> NUL, nextch |-> NUL, eof |-> FALSE, read |-> 0,
                             first |-> NUL]))
  /\ lexeme = <<>> /\ tokens = <<>>

Take(next, keep) ==
  /\ doing' = next /\ lexeme' = keep /\ look' = getnext(look)
  /\ UNCHANGED <<text, tokens>>
Deliver(t) == tokens' = Append(tokens, t) /\ lexeme' = <<>> /\ doing' = "blank"

OpensComment == look.ch = "(" /\ look.nextch = "*"
EndsComment == look.ch = "*" /\ look.nextch = ")"

\* blankcomm
Blank ==
  /\ doing = "blank" /\ look.ch \in Blanks
  /\ Take("blank", <<>>)

OpenComment ==
  /\ doing = "blank" /\ ~ look.eof /\ OpensComment
  /\ look' = getnext(getnext(look)) /\ doing' = "comment"
  /\ UNCHANGED <<text, lexeme, tokens>>

\* Mutant: a comment goes on into the next line.
InComment_Lines ==
  /\ doing = "comment" /\ ~ EndsComment
  /\ Take("comment", <<>>)

InComment ==
  /\ doing = "comment" /\ look.ch # NL /\ ~ EndsComment
  /\ Take("comment", <<>>)

\* A comment ends with its line, if not before.
CloseComment ==
  /\ doing = "comment" /\ (look.ch = NL \/ EndsComment)
  /\ look' = IF look.ch = NL THEN getnext(look) ELSE getnext(getnext(look))
  /\ doing' = "blank"
  /\ UNCHANGED <<text, lexeme, tokens>>

\* lls: the end of the file.
EndFile ==
  /\ doing = "blank" /\ look.eof /\ look.ch \notin Blanks
  /\ doing' = "end"
  /\ UNCHANGED <<text, look, lexeme, tokens>>

\* lls: what a token is, by its first character.
Begin ==
  /\ doing = "blank" /\ ~ look.eof /\ look.ch \notin Blanks /\ ~ OpensComment
  /\ CASE look.ch \in Letters -> Take("name", <<look.ch>>)
       [] look.ch \in Digits -> Take("number", <<look.ch>>)
       [] look.ch = "Q" -> Take("string", <<look.ch>>)
       [] OTHER -> doing' = "operator" /\ UNCHANGED <<text, look, lexeme, tokens>>

isname ==
  /\ doing = "name"
  /\ IF look.ch \in Letters \cup Digits THEN Take("name", Append(lexeme, look.ch))
     ELSE Deliver(lexeme) /\ UNCHANGED <<text, look>>

\* Digits beyond the last one that counts are skipped.
isnumber ==
  /\ doing = "number"
  /\ IF look.ch \in Digits
     THEN Take("number", IF Len(lexeme) < MaxDigits THEN Append(lexeme, look.ch)
                         ELSE lexeme)
     ELSE Deliver(lexeme) /\ UNCHANGED <<text, look>>

isstring ==
  /\ doing = "string"
  /\ IF look.ch \notin {NL, "Q"}
     THEN Take("string", IF Len(lexeme) < LineSize THEN Append(lexeme, look.ch)
                         ELSE lexeme)
     ELSE /\ Deliver(lexeme)
          /\ look' = IF look.ch = "Q" THEN getnext(look) ELSE look
          /\ UNCHANGED text

\* Mutant: the second character is not looked at.
isoperator_One ==
  /\ doing = "operator"
  /\ IF look.ch \in Singles \cup {"<", ">"} THEN Deliver(<<look.ch>>)
     ELSE doing' = "blank" /\ UNCHANGED <<lexeme, tokens>>
  /\ look' = getnext(look)
  /\ UNCHANGED text

\* One character or two, or an invalid one, which is skipped.
isoperator ==
  /\ doing = "operator"
  /\ IF <<look.ch, look.nextch>> \in Pairs
     THEN Deliver(<<look.ch, look.nextch>>) /\ look' = getnext(getnext(look))
     ELSE /\ IF look.ch \in Singles \cup {"<", ">"} THEN Deliver(<<look.ch>>)
             ELSE doing' = "blank" /\ UNCHANGED <<lexeme, tokens>>
          /\ look' = getnext(look)
  /\ UNCHANGED text

Scan ==
  \/ Blank \/ OpenComment \/ InComment \/ CloseComment \/ EndFile \/ Begin
  \/ isname \/ isnumber \/ isstring \/ isoperator

-----------------------------------------------------------------------------
(* What the tokens of a text are, without reading ahead.                    *)

Two(k) == IF k < Len(text) THEN <<text[k], text[k + 1]>> ELSE <<>>

\* How many characters from place k on are in a set.
Span[k \in Nat, set \in SUBSET (Letters \cup Digits)] ==
  IF k <= Len(text) /\ text[k] \in set THEN 1 + Span[k + 1, set] ELSE 0

\* The place after the string or comment whose inside begins at place k.
AfterString[k \in Nat] ==
  IF k > Len(text) THEN k ELSE IF text[k] = NL THEN k
  ELSE IF text[k] = "Q" THEN k + 1 ELSE AfterString[k + 1]
AfterComment[k \in Nat] ==
  IF k > Len(text) THEN k ELSE IF text[k] = NL THEN k + 1
  ELSE IF Two(k) = <<"*", ")">> THEN k + 2 ELSE AfterComment[k + 1]

TokensFrom[k \in Nat] ==
  LET two == Two(k)
      word == Span[k, Letters \cup Digits]
      number == Span[k, Digits]
      string == AfterString[k + 1]
  IN IF k > Len(text) THEN <<>>
     ELSE IF text[k] \in Letters
       THEN <<SubSeq(text, k, k + word - 1)>> \o TokensFrom[k + word]
     ELSE IF text[k] \in Digits
       THEN <<SubSeq(text, k, k + (IF number < MaxDigits THEN number ELSE MaxDigits) - 1)>>
              \o TokensFrom[k + number]
     ELSE IF text[k] = "Q"
       THEN <<SubSeq(text, k, IF text[string - 1] = "Q" /\ string > k + 1
                              THEN string - 2 ELSE string - 1)>> \o TokensFrom[string]
     ELSE IF two = <<"(", "*">> THEN TokensFrom[AfterComment[k + 2]]
     ELSE IF two \in Pairs THEN <<two>> \o TokensFrom[k + 2]
     ELSE IF text[k] \in Singles \cup {"<", ">"} THEN <<<<text[k]>>>> \o TokensFrom[k + 1]
     ELSE TokensFrom[k + 1]

\* The last line has a quote, or the start of a comment, with none after it.
OpenAtEnd ==
  \E k \in DOMAIN text :
    /\ \A i \in k .. Len(text) - 1 : text[i] # NL
    /\ \/ text[k] = "Q" /\ \A i \in k + 1 .. Len(text) : text[i] # "Q"
       \/ Two(k) = <<"(", "*">> /\ \A i \in k + 2 .. Len(text) : Two(i) # <<"*", ")">>

\* The scan delivers the tokens of the text, though it reads ahead over the ends
\* of lines, comments and the file, and drops the two characters it has read ahead
\* when the file ends (lls.c:46-260).
TokensOfText == doing = "end" /\ ~ OpenAtEnd => tokens = TokensFrom[1]

\* The scan comes to an end, unless the last line of the file has a string or a
\* comment that is not closed (lls.c:87, 149).
ScanEnds == doing = "blank" ~> doing = "end" \/ OpenAtEnd
=============================================================================
