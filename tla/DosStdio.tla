------------------------------ MODULE DosStdio ------------------------------
(***************************************************************************)
(* The stdio of programs on NEWDOS/80 (newdos80/dos_stdio.c, dos_file.c and *)
(* dos_stdio_fgets.c): the table of open files, with an FCB and a buffer     *)
(* from the heap for each.  A call is one step; what DOS and the heap do is  *)
(* external and may fail.                                                    *)
(***************************************************************************)
EXTENDS Integers, Sequences, FiniteSets, FiniteSetsExt, SequencesExt, TLC

CONSTANTS
  MAX_FILES,  \* the slots of fd_array
  HeapBlocks, \* the blocks the heap can give out
  FileNames,  \* names of files
  Lines,      \* strings that programs write; a string is a sequence of bytes
  MaxSize,    \* bound of a file's size
  ItemSize,   \* the size of the items that programs read
  MaxCount,   \* bound of their number in a call, and of the buffer of fgets
  MaxItems,   \* bound of the number of items that a call writes
  MaxOffset,  \* bound of what fseek is given
  MaxCalls    \* bound of the calls of a program

ASSUME StdioAssumption ==
  /\ MAX_FILES \in Nat /\ HeapBlocks \in Nat /\ MaxSize \in Nat /\ MaxCalls \in Nat
  /\ ItemSize \in Nat \ {0} /\ MaxCount \in Nat /\ MaxItems \in Nat /\ MaxOffset \in Nat
  /\ \A l \in Lines : l \in Seq(0 .. 255) /\ Len(l) <= MaxSize

NL == 10
NULL == 0            \* blocks are numbered from 1, the devices below NULL
Stdin == -1
Devices == <<Stdin, -2, -3>>
Bytes == {NL} \cup UNION {Range(l) : l \in Lines}
Slots == 0 .. MAX_FILES - 1
Modes == {"r", "w", "a"}   \* a + after them changes nothing

VARIABLES
  fd_array,  \* [flag, buf, fcbptr] of each slot
  used,      \* the blocks of the heap that are allocated
  fcbs,      \* block -> [name, next, eof] of the FCBs that DOS has opened
  disk,      \* name -> the bytes in its sectors
  dir,       \* name -> the end in its directory entry, -1 for no file
  call,      \* the call that was made last, with what it gave
  took,      \* slot -> what fgets gave of it since it was opened or positioned
  calls

stdioVars == <<fd_array, used, fcbs, disk, dir, call, took, calls>>

Closed == [flag |-> {}, buf |-> NULL, fcbptr |-> NULL]

\* _init_stdio: the first three slots are the devices.
StdioInit ==
  /\ fd_array = [s \in Slots |->
       IF s < 3 THEN [Closed EXCEPT !.flag = {"INUSE", "DCB"}, !.fcbptr = Devices[s + 1]]
       ELSE Closed]
  /\ used = {} /\ fcbs = <<>>
  /\ \E old \in Lines :
       /\ disk = [f \in FileNames |-> old]
       /\ \E absent \in SUBSET FileNames :
            dir = [f \in FileNames |-> IF f \in absent THEN -1 ELSE Len(old)]
  /\ call = [op |-> "init", s |-> 0, ret |-> NULL]
  /\ took = [s \in Slots |-> [from |-> 0, got |-> <<>>]]
  /\ calls = 0

-----------------------------------------------------------------------------
(* DOS and the heap.                                                         *)

InUse(s) == "INUSE" \in fd_array[s].flag
IsFile(s) == InUse(s) /\ "DCB" \notin fd_array[s].flag
FcbOf(s) == fcbs[fd_array[s].fcbptr]
dos_file_next(s) == FcbOf(s).next
dos_file_eof(s) == FcbOf(s).eof

\* dos_file_open_new makes a file that is not there, and takes one that is as it is;
\* dos_file_open_ex only takes one that is there.
dos_file_open(f) ==
  /\ dir' = [dir EXCEPT ![f] = IF @ = -1 THEN 0 ELSE @]
  /\ disk' = [disk EXCEPT ![f] = IF dir[f] = -1 THEN <<>> ELSE @]

\* The end of the file reaches the directory, if dos_file_close does not fail.
dos_file_close(s) ==
  /\ \/ dir' = [dir EXCEPT ![FcbOf(s).name] = FcbOf(s).eof]
     \/ UNCHANGED dir
  /\ fcbs' = [b \in DOMAIN fcbs \ {fd_array[s].fcbptr} |-> fcbs[b]]

\* dos_file_seek_rba and dos_file_rewind.
dos_file_seek(s, place) == fcbs' = [fcbs EXCEPT ![fd_array[s].fcbptr].next = place]

\* The bytes that calls of dos_read_byte give before one fails: up to the end of the
\* file, or fewer when a sector cannot be read.
dos_read_byte(s, good) ==
  LET c == FcbOf(s)
  IN SubSeq(disk[c.name], c.next + 1, Min({c.eof, Len(disk[c.name]), c.next + good}))

\* Mutant: a byte that is written leaves the end where it is.
dos_write_byte_End(s, bytes) ==
  LET c == FcbOf(s)
      old == disk[c.name]
      after == c.next + Len(bytes)
  IN /\ after <= MaxSize
     /\ disk' = [disk EXCEPT ![c.name] =
                   SubSeq(old, 1, c.next) \o bytes \o SubSeq(old, after + 1, Len(old))]
     /\ fcbs' = [fcbs EXCEPT ![fd_array[s].fcbptr].next = after]

\* dos_write_byte of bytes in turn: next moves on, and the end where it is passed.
dos_write_byte(s, bytes) ==
  LET c == FcbOf(s)
      old == disk[c.name]
      after == c.next + Len(bytes)
  IN /\ after <= MaxSize
     /\ disk' = [disk EXCEPT ![c.name] =
                   SubSeq(old, 1, c.next) \o bytes \o SubSeq(old, after + 1, Len(old))]
     /\ fcbs' = [fcbs EXCEPT ![fd_array[s].fcbptr].next = after,
                             ![fd_array[s].fcbptr].eof = Max({@, after})]

Call == calls < MaxCalls /\ calls' = calls + 1
Returns(op, s, ret) == call' = [op |-> op, s |-> s, ret |-> ret]
FilesKept == UNCHANGED <<disk, dir, fcbs>>
TableKept == UNCHANGED <<fd_array, used>>

\* What is read of these slots is looked at from here on.
Afresh(S) ==
  took' = [t \in Slots |-> IF t \in S
                           THEN [from |-> fcbs'[fd_array[t].fcbptr].next, got |-> <<>>]
                           ELSE took[t]]
Sharing(s) == {t \in Slots : IsFile(t) /\ FcbOf(t).name = FcbOf(s).name}

-----------------------------------------------------------------------------
(* fopen, fclose.                                                            *)

\* The heap has a block for the FCB and one for the buffer; the name is one; DOS opens
\* the file, an existing one for r; for a it positions the FCB to the end; and there is
\* a free slot.  On the way out every block is given back, and the file is as the last
\* call of DOS left it: the FCB that was opened is gone.
fopen(f, mode) ==
  LET blocks == {b \in 1 .. HeapBlocks : b \notin used}
      fcb == Min(blocks)
      buf == Min(blocks \ {fcb})
      free == {s \in Slots : ~ InUse(s)}
      Fail == Returns("fopen", 0, NULL) /\ UNCHANGED <<fd_array, used, fcbs, took>>
  IN /\ Call
     /\ \/ Fail /\ UNCHANGED <<disk, dir>>   \* no memory, a bad name, an error of DOS
        \/ /\ mode = "a" \/ free = {}        \* dos_file_seek_eof failed, or no slot
           /\ Cardinality(blocks) >= 2
           /\ mode = "r" => dir[f] # -1
           /\ dos_file_open(f) /\ Fail
        \/ /\ Cardinality(blocks) >= 2 /\ free # {}
           /\ mode = "r" => dir[f] # -1
           /\ dos_file_open(f)
           /\ LET opened == [name |-> f, eof |-> dir'[f],
                             next |-> IF mode = "a" THEN dir'[f] ELSE 0]
              IN fcbs' = [b \in DOMAIN fcbs \cup {fcb} |->
                            IF b = fcb THEN opened ELSE fcbs[b]]
           /\ used' = used \cup {fcb, buf}
           /\ LET s == Min(free)
              IN /\ fd_array' = [fd_array EXCEPT ![s] =
                                   [flag |-> {"INUSE"}, buf |-> buf, fcbptr |-> fcb]]
                 /\ took' = [took EXCEPT ![s] = [from |-> fcbs'[fcb].next, got |-> <<>>]]
                 /\ Returns("fopen", s, s)

\* Mutant: the FCB is not given back (as in libc/fileio.c).
Released_Buffer(s) == {fd_array[s].buf}

Released(s) == {fd_array[s].buf, fd_array[s].fcbptr}
\* fclose gives its blocks back whatever dos_file_close returns.
fclose(s) ==
  /\ Call
  /\ \/ /\ fd_array[s].flag = {}
        /\ Returns("fclose", s, -1)
        /\ TableKept /\ FilesKept /\ UNCHANGED took
     \/ /\ "DCB" \in fd_array[s].flag
        /\ fd_array' = [fd_array EXCEPT ![s] = Closed]
        /\ Returns("fclose", s, 0)
        /\ UNCHANGED used /\ FilesKept /\ UNCHANGED took
     \/ /\ IsFile(s)
        /\ dos_file_close(s)
        /\ used' = used \ Released(s)
        /\ fd_array' = [fd_array EXCEPT ![s].flag = {}, ![s].buf = NULL]
        /\ Returns("fclose", s, 0)
        /\ UNCHANGED <<disk, took>>

-----------------------------------------------------------------------------
(* Reading.  A read that fails, for the end of the file or an error, sets EOF. *)

Advance(s, n) == fcbs' = [fcbs EXCEPT ![fd_array[s].fcbptr].next = @ + n]
SetFlag(s, f) == fd_array' = [fd_array EXCEPT ![s].flag = @ \cup {f}]

\* n calls of fgetc, of which the first that fails is the last.
fgetc(s, n, good) ==
  LET got == dos_read_byte(s, good)
  IN /\ Advance(s, Min({n, Len(got)}))
     /\ IF n <= Len(got) THEN UNCHANGED fd_array ELSE SetFlag(s, "EOF")

\* What fread counts: the items that were read whole.
fread(s, size, nmemb, good) ==
  /\ Call /\ IsFile(s)
  /\ fgetc(s, size * nmemb, good)
  /\ Returns("fread", s, Min({size * nmemb, Len(dos_read_byte(s, good))}) \div size)
  /\ Afresh({s})
  /\ UNCHANGED <<disk, dir, used>>

\* Mutant: a line may fill the buffer to its last byte.
LineLength_Full(got, size) ==
  LET ends == {i \in DOMAIN got : got[i] = NL}
  IN Min({size, Len(got) + 1} \cup ends)

\* How many bytes fgets asks for: up to the first line end, at most size - 1, and one
\* more than there are when it meets the end.
LineLength(got, size) ==
  LET ends == {i \in DOMAIN got : got[i] = NL}
  IN Min({size - 1, Len(got) + 1} \cup ends)
fgets(s, size, good) ==
  /\ Call /\ IsFile(s)
  /\ UNCHANGED <<disk, dir, used>>
  /\ LET got == dos_read_byte(s, good)
         n == LineLength(got, size)
         line == SubSeq(got, 1, Min({n, Len(got)}))
     IN IF "EOF" \in fd_array[s].flag
        THEN /\ Returns("fgets", s, NULL)
             /\ UNCHANGED <<fd_array, fcbs, took>>
        ELSE /\ fgetc(s, n, good)
             /\ IF line = <<>> /\ n > 0 THEN Returns("fgets", s, NULL)
                ELSE call' = [op |-> "fgets", s |-> s, ret |-> size, line |-> line]
             /\ took' = [took EXCEPT ![s].got = @ \o line]

\* fgetc and fgets of stdin: a key that stands for the end, a line, or BREAK.
ReadKeyboard ==
  /\ Call
  /\ \E s \in Slots :
       /\ fd_array[s].fcbptr = Stdin
       /\ \/ SetFlag(s, "EOF") /\ Returns("fgetc", s, -1)
          \/ UNCHANGED fd_array /\ Returns("fgetc", s, NL)
          \/ /\ UNCHANGED fd_array
             /\ Returns("fgets", s, NULL)
  /\ UNCHANGED used /\ FilesKept /\ UNCHANGED took

-----------------------------------------------------------------------------
(* Writing.                                                                  *)

\* Mutant: fputc returns its error and forgets it.
SetError_Returned(s) == UNCHANGED fd_array
\* A stream that had an error has it until clearerr.
SetError(s) == SetFlag(s, "ERROR")
\* fputs, and fputc for a single byte: up to the first error.
fputs(str, s) ==
  \E bad \in 1 .. Len(str) + 1 :
    /\ Call /\ IsFile(s)
    /\ dos_write_byte(s, SubSeq(str, 1, bad - 1))
    /\ IF bad <= Len(str) THEN SetError(s) ELSE UNCHANGED fd_array
    /\ Returns("fputs", s, IF bad <= Len(str) THEN -1 ELSE 0)
    /\ Afresh(Sharing(s))
    /\ UNCHANGED <<dir, used>>

\* fwrite of an item of the bytes of str, nmemb times: it goes on after a byte that
\* failed, and looks at the error after each item.
fwrite(str, nmemb, s) ==
  \E failing \in SUBSET (1 .. Len(str) * nmemb) :
    LET had == "ERROR" \in fd_array'[s].flag
        size == Len(str)
        Bad(i) == \E b \in failing : (b - 1) \div size = i - 1
        stops == {i \in 1 .. nmemb : Bad(i) \/ "ERROR" \in fd_array[s].flag}
        items == IF stops = {} THEN nmemb ELSE Min(stops)
        bytes == [i \in 1 .. size * items |-> str[((i - 1) % size) + 1]]
        Done(b) == Cardinality((1 .. b) \ failing)   \* of the first b bytes
        written == [i \in 1 .. Done(size * items) |->
                      bytes[Min({b \in DOMAIN bytes : Done(b) >= i})]]
    IN /\ Call /\ IsFile(s) /\ size > 0
       /\ failing \subseteq 1 .. size * items
       /\ dos_write_byte(s, written)
       /\ IF failing = {} THEN UNCHANGED fd_array ELSE SetError(s)
       /\ call' = [op |-> "fwrite", s |-> s, item |-> str, at |-> FcbOf(s).next,
                   ret |-> IF had THEN items - 1 ELSE nmemb]
       /\ Afresh(Sharing(s))
       /\ UNCHANGED <<dir, used>>
-----------------------------------------------------------------------------
(* Positioning.                                                              *)

\* fseek to a place up to the end, from the start, from here or from the end; ftell
\* tells the place.  DOS may refuse, and then EOF stays.
fseek(s, to) ==
  /\ Call /\ IsFile(s)
  /\ UNCHANGED <<disk, dir, used>>
  /\ \/ /\ \E place \in {to, dos_file_next(s) + to, dos_file_eof(s) + to} :
             /\ place \in 0 .. dos_file_eof(s)
             /\ dos_file_seek(s, place)
             /\ Returns("fseek", s, place)
        /\ fd_array' = [fd_array EXCEPT ![s].flag = @ \ {"EOF"}]
        /\ Afresh({s})
     \/ Returns("fseek", s, -1) /\ UNCHANGED <<fcbs, fd_array, took>>

\* rewind takes EOF away whether or not DOS could position the file.
rewind(s) ==
  /\ Call /\ IsFile(s)
  /\ \/ dos_file_seek(s, 0)
     \/ UNCHANGED fcbs
  /\ fd_array' = [fd_array EXCEPT ![s].flag = @ \ {"EOF"}]
  /\ Afresh({s})
  /\ Returns("rewind", s, 0)
  /\ UNCHANGED <<disk, dir, used>>

clearerr(s) ==
  /\ Call /\ IsFile(s)
  /\ fd_array' = [fd_array EXCEPT ![s].flag = @ \ {"EOF", "ERROR"}]
  /\ Returns("clearerr", s, 0)
  /\ UNCHANGED <<used, took>> /\ FilesKept

Good == 0 .. MaxSize
StdioNext ==
  \/ \E f \in FileNames, mode \in Modes : fopen(f, mode)
  \/ ReadKeyboard
  \/ \E s \in Slots :
       \/ fclose(s) \/ rewind(s) \/ clearerr(s)
       \/ \E to \in -MaxOffset .. MaxOffset : fseek(s, to)
       \/ \E good \in Good, n \in 1 .. MaxCount : fread(s, ItemSize, n, good) \/ fgets(s, n, good)
       \/ \E str \in Lines : fputs(str, s) \/ \E n \in 1 .. MaxItems : fwrite(str, n, s)

StdioSpec == StdioInit /\ [][StdioNext]_stdioVars

-----------------------------------------------------------------------------
(* Properties.                                                               *)

\* Types: the slots of fd_array, the blocks of the heap, and files no longer than the
\* bound, whose end in the directory is in what was written.
StdioTypeOK ==
  /\ \A s \in Slots : /\ fd_array[s].flag \subseteq {"INUSE", "DCB", "EOF", "ERROR"}
                      /\ IsFile(s) => /\ fd_array[s].fcbptr \in DOMAIN fcbs
                                      /\ fd_array[s].buf \in 1 .. HeapBlocks
  /\ used \subseteq 1 .. HeapBlocks
  /\ \A f \in FileNames : /\ disk[f] \in Seq(Bytes) /\ Len(disk[f]) <= MaxSize
                          /\ dir[f] \in -1 .. Len(disk[f])
  /\ \A b \in DOMAIN fcbs : fcbs[b].next <= fcbs[b].eof
  /\ calls \in 0 .. MaxCalls

\* The blocks of the heap that are allocated are the FCBs and buffers of the open
\* files, each of one file: however an fopen ends and in whatever order files are
\* closed, nothing is leaked and no open file's block can be given out again.
OwnBlocks ==
  LET files == {s \in Slots : IsFile(s)}
  IN /\ used = UNION {{fd_array[s].buf, fd_array[s].fcbptr} : s \in files}
     /\ Cardinality(used) = 2 * Cardinality(files)
     /\ DOMAIN fcbs = {fd_array[s].fcbptr : s \in files}

\* fgets gives every byte of a file, in order, in pieces that end at a line's end and
\* fit the buffer with their zero byte: across short buffers, errors, the end and other
\* streams of the file that read.
LinesWhole ==
  /\ \A s \in Slots : IsFile(s) =>
       LET c == FcbOf(s) IN
         /\ c.next = took[s].from + Len(took[s].got)
         /\ took[s].got = SubSeq(disk[c.name], took[s].from + 1, c.next)
  /\ call.op = "fgets" /\ call.ret # NULL =>   \* ret: the size of the buffer
       /\ Len(call.line) < call.ret
       /\ \A i \in 1 .. Len(call.line) - 1 : call.line[i] # NL

\* Every item that fwrite counts is on the disk, whole and where it belongs, though
\* fwrite ignores what putc returns and looks at the stream's error after an item.
WriteCounted ==
  call.op = "fwrite" =>
    LET bytes == disk[FcbOf(call.s).name]
        size == Len(call.item)
    IN \A i \in 1 .. call.ret * size :
         /\ call.at + i \in DOMAIN bytes
         /\ bytes[call.at + i] = call.item[((i - 1) % size) + 1]

\* Streams keep apart and complete: no open file loses its blocks to another, nothing is
\* left behind, lines and items are whole (fopen, fclose, fgets, fwrite).
StreamsSound == StdioTypeOK /\ OwnBlocks /\ LinesWhole /\ WriteCounted
=============================================================================
