------------------------------- MODULE Stream -------------------------------
(***************************************************************************)
(* A FILE of src/file.c: the buffer between the program and the medium, a  *)
(* file reached through the operations of src/fopen.c or the terminal, on  *)
(* which printf and putchar (src/stdio.c) have a way of their own.         *)
(*                                                                         *)
(* The medium is in the record as well: "data" and "pos", and "bad" while  *)
(* it fails.  "told" is what the program may believe: the bytes, where it  *)
(* stands in them, the character it pushed back, and what the last call    *)
(* said next to what it owed.  "lost" is set when the code knows that      *)
(* bytes did not go out, which is when it sets the stream's error.         *)
(***************************************************************************)
EXTENDS Integers, Sequences

CONSTANTS Chars,       \* the bytes, 0 standing for '\n'
          MaxSize,     \* the room on the medium
          Bufsiz,      \* FILE_BUFSIZ
          Sizes,       \* of the buffers asked of setvbuf, and of the blocks moved
          Offsets,     \* asked of fseek
          Contents,    \* what a file may hold at first
          MaxText      \* bound: the bytes that a program writes

ASSUME StreamAssumption ==
    /\ Chars \subseteq Nat /\ MaxSize \in Nat /\ MaxText \in Nat
    /\ Bufsiz \in Nat \ {0} /\ Sizes \subseteq Nat \ {0} /\ Offsets \subseteq Int
    /\ \A d \in Contents : d \in Seq(Chars) /\ Len(d) <= MaxSize

VARIABLES file, told

streamVars == <<file, told>>

NL == 0
NoChar == -1
Fbf == "full"
Lbf == "line"
Nbf == "none"
Fewer(a, b) == IF a <= b THEN a ELSE b
Blocks == UNION {[1 .. n -> Chars] : n \in Sizes}

\* What a FILE is before it is opened; "std" is stdout, which begins and may end at the terminal.
Fresh == [std |-> FALSE, readable |-> FALSE, writable |-> FALSE, append |-> FALSE, eof |-> FALSE, error |-> FALSE,
          unget |-> NoChar, buf |-> <<>>, buf_pos |-> 0, buf_size |-> 0, buf_mode |-> Fbf, state |-> "empty", has |-> FALSE,
          listed |-> FALSE, hook |-> FALSE, term |-> FALSE, data |-> <<>>, pos |-> 0, bad |-> FALSE, nomem |-> FALSE,
          lost |-> FALSE, open |-> TRUE, wrote |-> 0, got |-> <<>>]

\* memset, open_into: what a stream starts as; a file has a buffer at its first read or write.
Zeroed(f) == [f EXCEPT !.eof = FALSE, !.error = FALSE, !.unget = NoChar, !.buf = <<>>, !.buf_pos = 0, !.buf_size = 0,
                       !.state = "empty", !.has = FALSE, !.pos = 0]
Opened(f, mode) ==
    [Zeroed(f) EXCEPT !.readable = mode \in {"r", "r+", "w+", "a+"}, !.writable = mode # "r", !.append = mode \in {"a", "a+"},
                      !.buf_mode = Fbf, !.term = FALSE, !.data = IF mode = "w+" THEN <<>> ELSE @]
Stdout(f) == [Zeroed(f) EXCEPT !.readable = FALSE, !.writable = TRUE, !.append = FALSE, !.buf_mode = Nbf, !.term = TRUE]
ToldOf(f) == [data |-> f.data, at |-> 0, back |-> NoChar, said |-> <<>>, owed |-> <<>>]

InitStream ==
    /\ \/ \E m \in {"r+", "a+"}, d \in Contents : file = Opened([Fresh EXCEPT !.data = d], m)
       \/ file = Stdout([Fresh EXCEPT !.std = TRUE])
    /\ told = ToldOf(file)

-----------------------------------------------------------------------------
(* Below the buffer. *)

Overlay(d, at, p) == SubSeq(d, 1, at) \o p \o SubSeq(d, at + Len(p) + 1, Len(d))

\* disk_write and fs_write, and host_write: what fits is written; the terminal takes everything.
RawWrite(f, p) ==
    LET at == IF f.append \/ f.term THEN Len(f.data) ELSE f.pos
        n == IF f.term THEN Len(p) ELSE IF f.bad \/ at > MaxSize THEN 0 ELSE Fewer(Len(p), MaxSize - at)
    IN  [f EXCEPT !.data = Overlay(f.data, at, SubSeq(p, 1, n)), !.pos = at + n, !.wrote = n,
                  !.error = @ \/ n < Len(p), !.lost = @ \/ n < Len(p)]
ReadFails(f) == f.bad
MediumRead(f, n) == SubSeq(f.data, f.pos + 1, Fewer(f.pos + n, Len(f.data)))

\* __file_flush: what is pending is no longer so, whether it went out or not.
Flush(f) == IF f.state # "writing" THEN f ELSE RawWrite([f EXCEPT !.state = "empty", !.buf = <<>>], f.buf)
FlushFailed(f, g) == f.state = "writing" /\ g.wrote < Len(f.buf)

Unread(f) == IF f.state = "reading" THEN Len(f.buf) - f.buf_pos ELSE 0
Emptied(f) == [f EXCEPT !.state = "empty", !.buf = <<>>, !.buf_pos = 0]
DropForgets(f) == IF f.state # "reading" THEN f ELSE Emptied(f)
DropReadAhead(f) == IF f.state # "reading" THEN f ELSE [Emptied(f) EXCEPT !.pos = @ - Unread(f)]

\* buffer_of: the buffer is there once "has" is set.
BufferOf(f) ==
    IF f.buf_mode = Nbf \/ f.has THEN f
    ELSE IF f.nomem THEN [f EXCEPT !.buf_mode = Nbf, !.buf_size = IF @ = 0 THEN Bufsiz ELSE @]
    ELSE [f EXCEPT !.has = TRUE, !.listed = TRUE, !.buf_size = IF @ = 0 THEN Bufsiz ELSE @]
Buffered(f) == f.buf_mode # Nbf

ReleaseBuffer(f) == [DropReadAhead(Flush(f)) EXCEPT !.has = FALSE, !.buf_size = 0]

\* __file_stdout_changed: printf and putchar go through a stream that is not plain.
StdoutChanged(f) == IF f.std THEN [f EXCEPT !.hook = ~(f.term /\ f.buf_mode = Nbf)] ELSE f

-----------------------------------------------------------------------------
(* Writing. *)

\* What a call leaves: the counts are the call's own.
Leaves(f) == file' = [f EXCEPT !.wrote = 0, !.got = <<>>]

HasNL(p) == \E i \in DOMAIN p : p[i] = NL
TakenIn(f, p) == [f EXCEPT !.buf = @ \o p, !.state = "writing", !.wrote = Len(p)]
LineOut(f) == IF f.buf_mode = Lbf /\ f.state = "writing" /\ HasNL(f.buf) THEN Flush(f) ELSE f

Putc(f, c) ==
    LET b == BufferOf(DropReadAhead(f))
        t == TakenIn(b, <<c>>)
    IN  IF ~Buffered(b) THEN RawWrite(b, <<c>>)
        ELSE IF Len(t.buf) = t.buf_size \/ (t.buf_mode = Lbf /\ c = NL) THEN Flush(t) ELSE t

\* write_bytes' loop, "left" being still to go: each turn takes some of it, or stops.
Pours(s) ==
    LET part == Fewer(Len(s.left), s.f.buf_size - Len(s.f.buf))
        t == TakenIn(s.f, SubSeq(s.left, 1, part))
        full == Len(t.buf) = t.buf_size
        failed == full /\ FlushFailed(t, Flush(t))
    IN  IF s.left = <<>> THEN s
        ELSE IF s.f.buf = <<>> /\ Len(s.left) >= s.f.buf_size THEN [f |-> RawWrite(s.f, s.left), left |-> <<>>]
        ELSE [f |-> IF full THEN Flush(t) ELSE t, left |-> IF failed THEN <<>> ELSE SubSeq(s.left, part + 1, Len(s.left))]
Poured(f, p) == LET after[n \in 0 .. Len(p)] == IF n = 0 THEN [f |-> f, left |-> p] ELSE Pours(after[n - 1]) IN after
IntoBuffer(f, p) == Poured(f, p)[Len(p)].f

WriteBytes(f, p) ==
    LET b == BufferOf(DropReadAhead(f))
    IN  IF Buffered(b) THEN LineOut(IntoBuffer(b, p)) ELSE RawWrite(b, p)

\* What the program makes of it: the bytes are where it stands, or at the end.
ToldWritten(p) ==
    LET at == IF file.append \/ file.std THEN Len(told.data) ELSE told.at
    IN  [told EXCEPT !.data = Overlay(@, at, p), !.at = at + Len(p), !.said = <<>>, !.owed = <<>>]
MayWrite(p) == file.open /\ file.writable /\ Len(told.data) + Len(p) <= MaxText

Fputc(c) == MayWrite(<<c>>) /\ Leaves(Putc(file, c)) /\ told' = ToldWritten(<<c>>)
Fwrite(p) == MayWrite(p) /\ Leaves(WriteBytes(file, p)) /\ told' = ToldWritten(p)

\* __stdout_write: putchar, puts and printf, straight to the terminal or through the stream.
Put(p) ==
    /\ file.std /\ MayWrite(p) /\ told' = ToldWritten(p)
    /\ Leaves(IF file.hook THEN WriteBytes(file, p) ELSE [file EXCEPT !.data = @ \o p])

-----------------------------------------------------------------------------
(* Reading: each of these leaves in "got" what it took. *)

Gave(f, p) == [f EXCEPT !.got = @ \o p]
Filled(f) ==
    LET p == MediumRead(f, f.buf_size)
    IN  IF ReadFails(f) \/ p = <<>> THEN [Emptied(f) EXCEPT !.error = @ \/ ReadFails(f)]
        ELSE [f EXCEPT !.state = "reading", !.buf = p, !.buf_pos = 0, !.pos = @ + Len(p)]
Direct(f, n) ==
    LET p == MediumRead(f, n)
    IN  IF ReadFails(f) THEN [f EXCEPT !.error = TRUE] ELSE Gave([f EXCEPT !.pos = @ + Len(p)], p)
FromBuffer(f, n) ==
    LET part == Fewer(n, Unread(f))
    IN  Gave([f EXCEPT !.buf_pos = @ + part], SubSeq(f.buf, f.buf_pos + 1, f.buf_pos + part))
FromUnget(f) == Gave([f EXCEPT !.unget = NoChar], <<f.unget>>)

\* ops_getc: through the buffer, or a byte at a time without one.
OpsGetc(f) ==
    LET b == BufferOf(Flush(f))
    IN  IF Unread(b) > 0 THEN FromBuffer(b, 1)
        ELSE IF Buffered(b) THEN FromBuffer(Filled(b), 1) ELSE Direct(b, 1)
Getc(f) ==
    LET g == OpsGetc(f)
    IN  IF f.unget # NoChar THEN FromUnget(f) ELSE IF g.got = f.got THEN [g EXCEPT !.eof = TRUE] ELSE g

\* fgets and getline: through the newline, or n characters, one at a turn.
Gets(s) ==
    LET g == Getc(s.f)
    IN  IF ~s.more THEN s ELSE [f |-> g, more |-> g.got # s.f.got /\ g.got[Len(g.got)] # NL]
Line(f, n) == LET after[i \in 0 .. n] == IF i = 0 THEN [f |-> f, more |-> TRUE] ELSE Gets(after[i - 1]) IN after

\* ops_read: what the buffer holds first, then blocks straight from the medium, the rest through the buffer; a turn takes
\* some of the n bytes, or is the last.
Short(f, g) == [g EXCEPT !.eof = @ \/ ~g.error \/ (f.error /\ ~ReadFails(f))]
Fetched(f, left) ==
    LET b == BufferOf(Emptied(f)) IN IF ~Buffered(b) \/ left >= b.buf_size THEN Direct(b, left) ELSE Filled(b)
Takes(s, n) ==
    LET left == n - Len(s.f.got)
        d == Fetched(s.f, left)
    IN  IF left = 0 \/ ~s.more THEN s
        ELSE IF Unread(s.f) > 0 THEN [s EXCEPT !.f = FromBuffer(@, left)]
        ELSE IF d.got = s.f.got /\ Unread(d) = 0 THEN [f |-> Short(s.f, d), more |-> FALSE]
        ELSE [s EXCEPT !.f = FromBuffer(d, n - Len(d.got))]
Block(f, n) == LET after[i \in 0 .. n] == IF i = 0 THEN [f |-> f, more |-> TRUE] ELSE Takes(after[i - 1], n) IN after
OpsRead(f, n) == LET g == Flush(f) IN Block(IF g.unget # NoChar THEN FromUnget(g) ELSE g, n)[n].f

\* What the program is owed: the character it pushed back, and the bytes from where it stands.
Pushed == IF told.back = NoChar THEN <<>> ELSE <<told.back>>
Ahead(n) == Pushed \o SubSeq(told.data, told.at + 1, Fewer(told.at + n - Len(Pushed), Len(told.data)))
LineOf(p) == IF HasNL(p) THEN SubSeq(p, 1, CHOOSE i \in DOMAIN p : p[i] = NL /\ \A j \in 1 .. i - 1 : p[j] # NL) ELSE p
Answer(g, asked, owed) ==
    LET p == g.got
    IN  /\ Leaves(g)
        /\ told' = [told EXCEPT !.said = [got |-> p, eof |-> g.eof, error |-> g.error, asked |-> asked], !.owed = owed,
                                !.back = IF p = <<>> THEN @ ELSE NoChar,
                                !.at = @ + Len(p) - IF p = <<>> THEN 0 ELSE Len(Pushed)]
MayRead == file.open /\ file.readable
\* eof is cleared first (clearerr), as it otherwise stays from the call before.
Clear(f) == [f EXCEPT !.eof = FALSE, !.error = FALSE]

Fgets(n) == MayRead /\ Answer(Line(Clear(file), n)[n].f, n, LineOf(Ahead(n)))
Fread(n) == MayRead /\ Answer(OpsRead(Clear(file), n), n, Ahead(n))
Ungetc(c) ==
    /\ MayRead /\ file.unget = NoChar
    /\ file' = [file EXCEPT !.unget = c, !.eof = FALSE]
    /\ told' = [told EXCEPT !.back = c, !.said = <<>>, !.owed = <<>>]

-----------------------------------------------------------------------------
(* Where the stream stands. *)

\* fseek: SEEK_CUR counts from where the program is; the medium refuses a place outside of the file.
SeekTo(f, offset, whence) ==
    CASE whence = "set" -> offset
      [] whence = "cur" -> f.pos + offset - Unread(f) - IF f.unget # NoChar THEN 1 ELSE 0
      [] whence = "end" -> Len(f.data) + offset
Fseek(offset, whence) ==
    LET g == Flush(file)
        to == SeekTo(g, offset, whence)
        h == [Emptied(g) EXCEPT !.unget = NoChar]
    IN  /\ file.open /\ ~file.std
        /\ IF FlushFailed(file, g) THEN Leaves(g) /\ told' = [told EXCEPT !.said = <<>>, !.owed = <<>>]
           ELSE IF to \notin 0 .. Len(g.data)
           THEN \* refused, and what was read ahead is skipped all the same
                /\ Leaves(h) /\ told' = [told EXCEPT !.back = NoChar, !.at = h.pos, !.said = <<>>, !.owed = <<>>]
           ELSE /\ Leaves([h EXCEPT !.pos = to, !.eof = FALSE])
                /\ told' = [told EXCEPT !.back = NoChar, !.said = <<>>, !.owed = <<>>,
                               !.at = CASE whence = "set" -> offset
                                        [] whence = "cur" -> @ + offset - Len(Pushed)
                                        [] whence = "end" -> Len(told.data) + offset]

\* ftell.
Tell(f) ==
    f.pos - Unread(f) + (IF f.state = "writing" THEN Len(f.buf) ELSE 0) - (IF f.unget # NoChar THEN 1 ELSE 0)

-----------------------------------------------------------------------------
(* The buffer, opening and closing. *)

Nothing == told' = [told EXCEPT !.said = <<>>, !.owed = <<>>]
Fflush == file.open /\ Leaves(DropReadAhead(Flush(file))) /\ Nothing

\* fflush(NULL) and exit() go over the list.
FlushAll(f) == IF f.listed THEN Flush(f) ELSE f
ExitFlushes == file.open /\ Leaves([FlushAll(file) EXCEPT !.open = FALSE]) /\ Nothing

Fclose == file.open /\ Leaves([DropReadAhead(Flush(file)) EXCEPT !.has = FALSE, !.listed = FALSE, !.open = FALSE]) /\ Nothing

\* setvbuf, with a buffer of the program's ("own") or one to be allocated.
Setvbuf(mode, own, size) ==
    LET f == [ReleaseBuffer(file) EXCEPT !.buf_mode = mode]
    IN  /\ file.open /\ Nothing
        /\ Leaves(StdoutChanged(IF mode = Nbf THEN f
                                ELSE [f EXCEPT !.has = own, !.buf_size = size, !.listed = @ \/ own]))

\* freopen: what was open goes first; a standard stream's file is written a line at a time, and it goes back to the
\* terminal when the file cannot be opened.
Freopen(to) ==
    LET f == ReleaseBuffer(file)
        mode == IF file.term /\ file.buf_mode # Nbf THEN file.buf_mode ELSE IF file.term THEN Lbf ELSE Fbf
    IN  /\ file.open
        /\ to \in IF file.std THEN {"term:", "log"} ELSE {"r", "w+", "a+"}
        /\ Leaves(StdoutChanged(IF to = "term:" THEN Stdout(f)
                                ELSE IF to = "log" THEN [Opened(f, "a") EXCEPT !.buf_mode = mode]
                                ELSE Opened(f, to)))
        /\ told' = [told EXCEPT !.data = IF to = "w+" THEN <<>> ELSE @, !.at = 0, !.back = NoChar, !.said = <<>>, !.owed = <<>>]

\* The medium breaks, and memory runs out.
Break == file.open /\ ~file.bad /\ ~file.term /\ file' = [file EXCEPT !.bad = TRUE] /\ Nothing
RunOut == file.open /\ ~file.nomem /\ file' = [file EXCEPT !.nomem = TRUE] /\ Nothing

\* What follows a lost byte is not followed.
NextStream ==
    /\ ~file.lost
    /\ \/ \E c \in Chars : Fputc(c) \/ Ungetc(c)
       \/ \E p \in Blocks : Fwrite(p) \/ Put(p)
       \/ \E n \in Sizes : Fgets(n) \/ Fread(n)
       \/ \E offset \in Offsets, whence \in {"set", "cur", "end"} : Fseek(offset, whence)
       \/ \E mode \in {Fbf, Lbf, Nbf}, own \in BOOLEAN, size \in Sizes : Setvbuf(mode, own, size)
       \/ \E to \in {"term:", "log", "r", "w+", "a+"} : Freopen(to)
       \/ Fflush \/ ExitFlushes \/ Fclose \/ Break \/ RunOut

-----------------------------------------------------------------------------
\* What the program wrote is on the medium but for what is held back, in the order it was written by whichever
\* function, and the program stands where it should, unless the stream owned up to an error.
StreamIsFile ==
    \/ file.lost
    \/ LET out == Flush(file)
       IN  /\ out.data = told.data \/ out.lost
           /\ file.std \/ out.lost \/ out.pos - Unread(file) = told.at
           /\ file.unget = told.back

\* A read gives the bytes of the file; when it gives fewer than were asked for, eof or error says why, and eof alone
\* means that there were no more.
ShortReadsSayWhy ==
    \/ told.said = <<>> \/ file.lost
    \/ /\ told.said.got = SubSeq(told.owed, 1, Len(told.said.got))
       /\ ~told.said.error => told.said.got = told.owed
       /\ Len(told.owed) < told.said.asked /\ told.said.got = <<>> => told.said.eof \/ told.said.error

\* What is held back is found by exit() and fflush(NULL), and after the end nothing is.
NothingLeftBehind ==
    /\ file.state = "writing" => file.listed /\ file.has
    /\ ~file.open /\ ~file.lost => file.data = told.data

\* ftell is where the program stands; but not when an appending stream holds bytes back.
TellAgrees ==
    \/ file.lost \/ file.std \/ (file.append /\ file.state = "writing")
    \/ Tell(file) = told.at - Len(Pushed)

-----------------------------------------------------------------------------
\* A stream over the program's own buffer: fmemopen of src/file.c, and
\* what the other functions do on it.  "text" is what the program may
\* believe it holds, "ends" whether it is kept NUL-terminated.

CONSTANTS MemChars,    \* not the NUL, which is 0
          MemSize,     \* of the buffer
          Buffers      \* what it may hold at first

ASSUME MemAssumption ==
    /\ MemChars \subseteq Nat \ {0} /\ MemSize \in Nat \ {0} /\ Buffers \subseteq [1 .. MemSize -> MemChars \cup {0}]

VARIABLES mem, text

memVars == <<mem, text>>

\* strnlen
TextLen(b) == IF \E i \in DOMAIN b : b[i] = 0 THEN (CHOOSE i \in DOMAIN b : b[i] = 0 /\ \A j \in 1 .. i - 1 : b[j] # 0) - 1 ELSE MemSize

Fmemopen(b, mode) ==
    LET len == CASE mode = "w" -> 0 [] mode = "a" -> TextLen(b) [] mode = "r" -> MemSize
    IN  [bytes |-> IF mode = "w" THEN [b EXCEPT ![1] = 0] ELSE b, len |-> len, pos |-> IF mode = "a" THEN len ELSE 0,
         append |-> mode = "a", unget |-> NoChar, eof |-> FALSE, error |-> FALSE, got |-> NoChar]
InitMem == \E b \in Buffers, mode \in {"r", "w", "a"} :
               /\ mem = Fmemopen(b, mode)
               /\ text = [held |-> SubSeq(b, 1, Fmemopen(b, mode).len), ends |-> mode # "r", said |-> NoChar]

\* memory_putc, with the place an appending stream writes at.
WriteAt(f) == IF f.append THEN f.len ELSE f.pos
Terminate(f) == IF f.len < MemSize THEN [f EXCEPT !.bytes[f.len + 1] = 0] ELSE f
MemoryPutc(f, c) ==
    LET at == WriteAt(f)
        g == [f EXCEPT !.bytes[at + 1] = c, !.pos = at + 1]
    IN  IF at >= MemSize THEN [f EXCEPT !.pos = at, !.error = TRUE]
        ELSE IF at + 1 > f.len THEN Terminate([g EXCEPT !.len = at + 1]) ELSE g

\* What lies between the end and a place sought past it is whatever the buffer held.
Uncovered(f) == IF WriteAt(f) > f.len THEN SubSeq(f.bytes, f.len + 1, WriteAt(f)) ELSE <<>>
MemFputc(c) ==
    /\ mem' = MemoryPutc(mem, c)
    /\ text' = IF WriteAt(mem) >= MemSize THEN [text EXCEPT !.said = NoChar]
               ELSE LET h == text.held \o Uncovered(mem)
                    IN  [text EXCEPT !.held = SubSeq(h, 1, WriteAt(mem)) \o <<c>> \o SubSeq(h, WriteAt(mem) + 2, Len(h)), !.said = NoChar]

MemGetc ==
    /\ mem' = IF mem.unget # NoChar THEN [mem EXCEPT !.got = mem.unget, !.unget = NoChar]
              ELSE IF mem.pos >= mem.len THEN [mem EXCEPT !.got = NoChar, !.eof = TRUE]
              ELSE [mem EXCEPT !.got = mem.bytes[mem.pos + 1], !.pos = @ + 1]
    /\ text' = [text EXCEPT !.said = IF mem.unget # NoChar THEN mem.unget
                                     ELSE IF mem.pos < Len(text.held) THEN text.held[mem.pos + 1] ELSE NoChar]

MemUngetc(c) == mem.unget = NoChar /\ mem' = [mem EXCEPT !.unget = c, !.eof = FALSE, !.got = NoChar] /\ text' = [text EXCEPT !.said = NoChar]

\* fseek goes anywhere in the buffer, past the text as well.
MemSeek(offset, whence) ==
    LET target == offset + CASE whence = "set" -> 0 [] whence = "cur" -> mem.pos [] whence = "end" -> mem.len
    IN  /\ mem' = IF target \in 0 .. MemSize THEN [mem EXCEPT !.pos = target, !.unget = NoChar, !.eof = FALSE, !.got = NoChar]
                  ELSE [mem EXCEPT !.got = NoChar]
        /\ text' = [text EXCEPT !.said = NoChar]

NextMem == \/ \E c \in MemChars : MemFputc(c) \/ MemUngetc(c)
           \/ MemGetc
           \/ \E offset \in Offsets, whence \in {"set", "cur", "end"} : MemSeek(offset, whence)

-----------------------------------------------------------------------------
\* The stream holds what was written to it, gives it back, and stays inside of the buffer.
MemoryHolds ==
    /\ mem.len <= MemSize /\ mem.pos <= MemSize /\ DOMAIN mem.bytes = 1 .. MemSize
    /\ SubSeq(mem.bytes, 1, mem.len) = text.held
    /\ text.said # NoChar => mem.got = text.said

\* A stream opened with w or a stays NUL-terminated while there is room.
Terminated == text.ends /\ mem.len < MemSize => mem.bytes[mem.len + 1] = 0

-----------------------------------------------------------------------------
NextStreams == (NextStream /\ UNCHANGED memVars) \/ (NextMem /\ UNCHANGED streamVars)
SpecStreams == InitStream /\ InitMem /\ [][NextStreams]_<<streamVars, memVars>>

\* What a program wrote to a stream is where it should be, in order, or the stream is in error; what is held back is
\* found at the end; a read says why it gave no more, and ftell where the program stands; a stream in memory is its text
\* (src/file.c, src/fopen.c, src/stdio.c).
StreamsHold == StreamIsFile /\ NothingLeftBehind /\ ShortReadsSayWhy /\ TellAgrees /\ MemoryHolds /\ Terminated
=============================================================================
