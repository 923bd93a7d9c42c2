-------------------------------- MODULE Mail --------------------------------
(***************************************************************************)
(* mail, the mail program (mail-in-c/mail1.c to mail5.c): the mailfile is a  *)
(* chain of messages, each a chain of blocks, with a map of the free blocks  *)
(* in block 0.  A step is a command up to its next write to the mailfile, so *)
(* what a state shows is what a crash would leave.                           *)
(***************************************************************************)
EXTENDS Integers, Sequences, FiniteSets, FiniteSetsExt, SequencesExt

CONSTANTS
  MailUsers,  \* uids
  MAXMSGS,    \* the messages a session handles
  NBlocks,    \* the blocks of the mailfile
  FirstRoom,  \* the units of text that fit behind the names in a first block
  Room,       \* the units of text of any other block
  Lengths,    \* lengths of the message in temp.msg
  Items,      \* ranges of messages that users name
  MaxSent,    \* bound of the messages sent
  Again       \* whether users name messages again that they deleted

ASSUME MailAssumption == FirstRoom \in Nat /\ Room \in Nat \ {0} /\ NBlocks \in Nat \ {0, 1}

VARIABLES
  mf,       \* the blocks of the mailfile but the first
  map,      \* its block 0: the blocks in use, and whether anything else is in it
  mpc,      \* what the program does
  uid, yourmail, dot,
  freeBlocks,  \* free_block: the map in memory
  msg,      \* the message that sendmail writes
  list,     \* the messages that delete has left to do, and where it is
  named,    \* numbers deleted in this session
  theirs,   \* number -> which message it was at the start of the session
  mailbox,  \* the messages that were sent and not deleted, in their order
  sent      \* how many were sent

mailVars == <<mf, map, mpc, uid, yourmail, dot, freeBlocks, msg, list, named, theirs,
              mailbox, sent>>
session == <<uid, yourmail, dot, named, theirs>>
ghosts == <<mailbox, sent>>

Blocks_ == 1 .. NBlocks - 1
Anchor == [link |-> 0, prior |-> 0, next |-> 0, to |-> 0, from |-> 0, length |-> 0, text |-> <<>>]
NoMsg == [id |-> 0, to |-> 0, length |-> 0, newblk |-> 0, blk |-> 0, prior |-> 0, done |-> 0]
totmail == Len(yourmail)

MailInit ==
  /\ mf = [b \in Blocks_ |-> Anchor]
  /\ map = [bits |-> {0, 1}, intact |-> TRUE]
  /\ mpc = "out" /\ uid = 0 /\ yourmail = <<>> /\ dot = 1 /\ freeBlocks = {}
  /\ msg = NoMsg /\ list = [todo |-> <<>>, back |-> 0, fwd |-> 0]
  /\ named = {} /\ theirs = <<>> /\ mailbox = <<>> /\ sent = 0

-----------------------------------------------------------------------------
(* The mailfile.                                                             *)

\* The blocks that Next leads to from b: at most as many as there are.
Chain(b, Next(_)) ==
  LET f[n \in 0 .. NBlocks, c \in 0 .. NBlocks - 1] ==
        IF n = 0 \/ c = 0 THEN <<>> ELSE <<c>> \o f[n - 1, Next(c)]
  IN f[NBlocks, b]
Messages == Tail(Chain(1, LAMBDA b : mf[b].next))
BlocksOf(m) == Chain(m, LAMBDA b : mf[b].link)

\* getfree: the lowest block that is not in use, 0 when there is none.
getfree(bits) ==
  LET free == Blocks_ \ bits IN IF free = {} THEN 0 ELSE Min(free)

\* Mutant: a block that delete frees is the first of the message only.
putfree_First(m) == {m}

\* delete frees a message's blocks.
putfree(m) == Range(BlocksOf(m))

-----------------------------------------------------------------------------
(* Ranges.  Numbers are above 0; these stand for . $ and *.                  *)

Dot == -1
Dollar == -2
Star == -3

\* geti: an item a or a-b, as the first and the last message it names.
geti(item) ==
  LET a == item[1]
      Value(x) == IF x = Dot THEN dot ELSE IF x = Dollar THEN totmail ELSE x
  IN IF a = Star THEN <<1, totmail>>
     ELSE IF Len(item) = 1 THEN <<Value(a), Value(a)>>
     ELSE <<Value(a), IF item[2] = Star THEN totmail ELSE Value(item[2])>>

\* Mutant: the last message of a range may be one too many.
getr_Over(item) ==
  LET r == geti(item) IN r[1] <= r[2] /\ r[1] >= 1 /\ r[2] <= totmail + 1
\* getr: whether the item is a range of the messages there are.
getr(item) ==
  LET r == geti(item) IN r[1] <= r[2] /\ r[1] >= 1 /\ r[2] <= totmail

\* setrange and getrange: the numbers that the items name, up to the first that is not
\* valid; those of the default when there is none.
Numbers(items, default) ==
  LET Upto(r) == [i \in 1 .. r[2] - r[1] + 1 |-> r[1] + i - 1]
      bad == {i \in DOMAIN items : ~ getr(items[i])}
      good == SubSeq(items, 1, IF bad = {} THEN Len(items) ELSE Min(bad) - 1)
  IN IF items = <<>> THEN (IF default = Dot THEN <<dot>> ELSE Upto(<<1, totmail>>))
     ELSE FlattenSeq([i \in DOMAIN good |-> Upto(geti(good[i]))])

\* A command names messages; users who are careful name none they deleted.
Names(items, default) ==
  LET ns == Numbers(items, default)
  IN /\ Again \/ (Range(ns) \cap named = {} /\ Cardinality(Range(ns)) = Len(ns))
     /\ ns # <<>>

-----------------------------------------------------------------------------
(* A session.                                                                *)

Leave ==
  /\ mpc' = "out" /\ msg' = NoMsg /\ list' = [todo |-> <<>>, back |-> 0, fwd |-> 0]
  /\ freeBlocks' = {}
  /\ uid' = 0 /\ yourmail' = <<>> /\ dot' = 1 /\ named' = {} /\ theirs' = <<>>

\* findmail: the first MAXMSGS messages that are for the user.
findmail(u) ==
  LET mine == SelectSeq(Messages, LAMBDA m : mf[m].to = u)
  IN SubSeq(mine, 1, Min({MAXMSGS, Len(mine)}))

\* A user with mail gets to the prompt.
main ==
  /\ mpc = "out"
  /\ \E u \in MailUsers :
       /\ findmail(u) # <<>>
       /\ uid' = u /\ yourmail' = findmail(u) /\ mpc' = "prompt" /\ dot' = 1
       /\ theirs' = [n \in DOMAIN yourmail' |-> mf[yourmail'[n]].text[1][1]]
  /\ freeBlocks' = map.bits
  /\ named' = {}
  /\ UNCHANGED <<mf, map, msg, list, ghosts>>

windup == mpc = "prompt" /\ Leave /\ UNCHANGED <<mf, map, ghosts>>

\* print; h and s show and copy messages the same way and leave dot.
print(items) ==
  /\ mpc = "prompt" /\ Names(items, Dot)
  /\ dot' = Last(Numbers(items, Dot))
  /\ UNCHANGED <<mf, map, mpc, uid, yourmail, freeBlocks, msg, list, named, theirs, ghosts>>

-----------------------------------------------------------------------------
(* sendmail.                                                                 *)

\* The program is called with a name, or m or r is given at the prompt.  An empty
\* temp.msg, a name that is not a user's or a full mailfile ends the program.
sendmail(to, length) ==
  /\ sent < MaxSent
  /\ \/ mpc = "prompt" /\ UNCHANGED <<session, freeBlocks>>
     \/ /\ mpc = "out"
        /\ uid' \in MailUsers /\ freeBlocks' = map.bits
        /\ UNCHANGED <<yourmail, dot, named, theirs>>
  /\ LET newblk == getfree(freeBlocks')
     IN /\ length # 0 /\ newblk # 0
        /\ msg' = [id |-> sent + 1, to |-> to, length |-> length, newblk |-> newblk,
                   blk |-> newblk, prior |-> Last(Chain(1, LAMBDA b : mf[b].next)),
                   done |-> 0]
  /\ mpc' = "write" /\ sent' = sent + 1
  /\ UNCHANGED <<mf, map, list, mailbox>>

\* r goes to whom the message is from.
reply(items, length) ==
  /\ mpc = "prompt" /\ Names(items, Dot) /\ Len(Numbers(items, Dot)) = 1
  /\ LET from == mf[yourmail[Numbers(items, Dot)[1]]].from
     IN from # 0 /\ sendmail(from, length)

Refused ==
  /\ mpc = "prompt"
  /\ Leave /\ UNCHANGED <<mf, map, ghosts>>

\* bwrite and bflush: a block is written when it is full and another is needed, or at
\* the end.  The map in memory has the blocks that were taken.
bwrite ==
  LET room == IF msg.blk = msg.newblk THEN FirstRoom ELSE Room
      upto == Min({msg.length, msg.done + room})
      taken == freeBlocks \cup {msg.blk}
      more == upto < msg.length
      nextblk == IF more THEN getfree(taken) ELSE 0
  IN /\ mpc = "write"
     /\ IF more /\ nextblk = 0
        THEN Leave /\ UNCHANGED mf
        ELSE /\ mf' = [mf EXCEPT ![msg.blk] =
                  [Anchor EXCEPT
                     !.link = nextblk,
                     !.text = [i \in 1 .. upto - msg.done |-> <<msg.id, msg.done + i>>],
                     !.prior = IF msg.blk = msg.newblk THEN msg.prior ELSE 0,
                     !.to = IF msg.blk = msg.newblk THEN msg.to ELSE 0,
                     !.from = IF msg.blk = msg.newblk THEN uid ELSE 0,
                     !.length = IF msg.blk = msg.newblk THEN msg.length ELSE 0]]
             /\ freeBlocks' = taken
             /\ msg' = [msg EXCEPT !.done = upto, !.blk = nextblk]
             /\ mpc' = IF more THEN "write" ELSE "link"
             /\ UNCHANGED <<list, session>>
     /\ UNCHANGED <<map, ghosts>>

\* The last message is made to lead to the new one.
Link ==
  /\ mpc = "link"
  /\ mf' = [mf EXCEPT ![msg.prior].next = msg.newblk]
  /\ mailbox' = Append(mailbox, [id |-> msg.id, to |-> msg.to, length |-> msg.length])
  /\ mpc' = "map"
  /\ UNCHANGED <<map, freeBlocks, msg, list, session, sent>>

\* Mutant: the map is left to the end of the session.
writefree_Late(m) == m
writefree(m) == [bits |-> freeBlocks, intact |-> TRUE]

MapWritten ==
  /\ mpc = "map"
  /\ map' = writefree(map)
  /\ IF yourmail = <<>> THEN Leave
     ELSE mpc' = "prompt" /\ msg' = NoMsg /\ UNCHANGED <<list, freeBlocks, session>>
  /\ UNCHANGED <<mf, ghosts>>

-----------------------------------------------------------------------------
(* delete.                                                                   *)

delete(items) ==
  /\ mpc = "prompt" /\ Names(items, Dot)
  /\ freeBlocks' = map.bits
  /\ list' = [todo |-> Numbers(items, Dot), back |-> 0, fwd |-> 0]
  /\ mpc' = "unlink"
  /\ UNCHANGED <<mf, map, msg, session, ghosts>>

\* The message before leads to the one behind.
Unlink ==
  LET n == Head(list.todo)
      thismsg == yourmail[n]
      back == mf[thismsg].prior
      fwd == mf[thismsg].next
  IN /\ mpc = "unlink" /\ list.todo # <<>>
     /\ mf' = [mf EXCEPT ![back].next = fwd]
     /\ list' = [list EXCEPT !.back = back, !.fwd = fwd]
     /\ named' = named \cup {n}
     /\ mailbox' = SelectSeq(mailbox, LAMBDA m : m.id # theirs[n])
     /\ mpc' = "relink"
     /\ UNCHANGED <<map, uid, yourmail, dot, freeBlocks, msg, theirs, sent>>

\* Mutant: the one behind is left alone.
BackLink_Not == mf
\* The one behind leads back; behind the last message there is block 0, the map, which
\* delete writes its pointer into.
BackLink == IF list.fwd = 0 THEN mf ELSE [mf EXCEPT ![list.fwd].prior = list.back]

Relink ==
  LET thismsg == yourmail[Head(list.todo)]
  IN /\ mpc = "relink"
     /\ mf' = BackLink
     /\ map' = IF list.fwd = 0 THEN [map EXCEPT !.intact = FALSE] ELSE map
     /\ freeBlocks' = freeBlocks \ putfree(thismsg)
     /\ list' = [list EXCEPT !.todo = Tail(@)]
     /\ mpc' = IF Len(list.todo) = 1 THEN "map" ELSE "unlink"
     /\ UNCHANGED <<msg, session, ghosts>>

MailNext ==
  \/ main \/ windup \/ Refused \/ bwrite \/ Link \/ MapWritten \/ Unlink \/ Relink
  \/ \E to \in MailUsers, length \in Lengths : sendmail(to, length)
  \/ \E items \in Items : print(items) \/ delete(items)
  \/ \E items \in Items, length \in Lengths : reply(items, length)

-----------------------------------------------------------------------------
(* Properties.                                                               *)

\* Types: blocks lead to blocks, numbers to messages, and the message at work has taken
\* no more text than it has.
MailTypeOK ==
  /\ \A b \in Blocks_ : /\ {mf[b].link, mf[b].prior, mf[b].next} \subseteq 0 .. NBlocks - 1
                        /\ Len(mf[b].text) <= Max({FirstRoom, Room})
  /\ map.bits \subseteq 0 .. NBlocks - 1 /\ freeBlocks \subseteq 0 .. NBlocks - 1
  /\ totmail <= MAXMSGS /\ (mpc = "prompt" => dot \in 1 .. totmail)
  /\ Range(list.todo) \subseteq 1 .. totmail
  /\ msg.done <= msg.length

\* Whole messages on the disk at every moment: the chain has the messages that were sent
\* and not deleted, each once, in the order they were sent and with all of their text,
\* also between the writes of a sendmail or a delete, where a crash may come.
MailKept ==
  LET Text(m) == FlattenSeq([i \in DOMAIN BlocksOf(m) |-> mf[BlocksOf(m)[i]].text])
  IN /\ Len(Messages) = Len(mailbox)
     /\ \A i \in DOMAIN mailbox :
          LET m == mailbox[i] IN
            /\ mf[Messages[i]].to = m.to /\ mf[Messages[i]].length = m.length
            /\ Text(Messages[i]) = [k \in 1 .. m.length |-> <<m.id, k>>]

\* Backwards as forwards: each message leads back to the one before it, so that any of
\* them can be deleted, but while delete is at work between its two writes.
BothWays ==
  mpc # "relink" =>
    LET all == Chain(1, LAMBDA b : mf[b].next)
    IN \A i \in 2 .. Len(all) : mf[all[i]].prior = all[i - 1]

\* When no command is at work the map on the disk is whole, though deleting the last
\* message writes into it, and has exactly the blocks of the messages: none is lost and
\* none that is free is in use.
MapExact ==
  mpc \in {"out", "prompt"} =>
    /\ map.intact
    /\ map.bits = {0, 1} \cup UNION {Range(BlocksOf(m)) : m \in Range(Messages)}

\* A session only shows and deletes the mail of its user, while others may send.
OwnMail ==
  \A n \in DOMAIN yourmail \ named :
    \E m \in Range(mailbox) : m.id = theirs[n] /\ m.to = uid

\* The mail file is sound beneath the messages: its chain leads both ways, its map has
\* exactly their blocks, and a session sees the mail of its user only.
MailboxSound == MailTypeOK /\ BothWays /\ MapExact /\ OwnMail
=============================================================================
