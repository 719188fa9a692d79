-------------------------------- MODULE Utf8 --------------------------------
(***************************************************************************)
(* UTF-8 (src/ceres/utf8.c) and the conversions that can be stopped and    *)
(* taken up again in the middle of a character (src/wchar.c).  Bytes, code *)
(* points and units are the numbers they are.                              *)
(***************************************************************************)
EXTENDS Integers, SequencesExt

CONSTANTS
    Bytes,             \* the bytes of the strings that are looked at, good or bad
    Points,            \* the characters of the texts that are converted
    MaxBytes,          \* bound: the bytes of a string that is looked at
    MaxPoints          \* bound: the characters of a text

VARIABLES
    job,               \* what is converted: a string of any bytes, or a text and its units
    conv               \* the conversion: mbstate_t, what it has still to read, what it wrote, and its last answer

vars == <<job, conv>>

UnicodeMax == 1114111
Replacement == 65533
Surrogates == 55296 .. 57343
IsPoint(c) == c \in 0 .. UnicodeMax /\ c \notin Surrogates

\* utf8_width, utf8_encode
Width(c) ==
    CASE c < 128 -> 1 [] c \in 128 .. 2047 -> 2 [] c \in Surrogates -> 0 [] c \in 2048 .. 65535 -> 3
      [] c \in 65536 .. UnicodeMax -> 4 [] OTHER -> 0
Rest(c) == 128 + (c % 64)
Encode(c) ==
    CASE Width(c) = 1 -> <<c>>
      [] Width(c) = 2 -> <<192 + c \div 64, Rest(c)>>
      [] Width(c) = 3 -> <<224 + c \div 4096, Rest(c \div 64), Rest(c)>>
      [] Width(c) = 4 -> <<240 + c \div 262144, Rest(c \div 4096), Rest(c \div 64), Rest(c)>>
      [] OTHER -> <<>>

-----------------------------------------------------------------------------
\* mbstate_t, and __utf8_feed of one byte: [ps, r, c].
Between == [bits |-> 0, need |-> 0, lead |-> 0, pending |-> 0]
IsInitial(ps) == ps.need = 0 /\ ps.pending = 0              \* mbsinit
Fed(ps, r, c) == [ps |-> ps, r |-> r, c |-> c]
Lead(b) ==
    CASE b \in 194 .. 223 -> [bits |-> b % 32, need |-> 1, lead |-> b, pending |-> 0]
      [] b \in 224 .. 239 -> [bits |-> b % 16, need |-> 2, lead |-> b, pending |-> 0]
      [] b \in 240 .. 244 -> [bits |-> b % 8, need |-> 3, lead |-> b, pending |-> 0]
Follow(lead) ==
    CASE lead = 224 -> 160 .. 191 [] lead = 237 -> 128 .. 159 [] lead = 240 -> 144 .. 191 [] lead = 244 -> 128 .. 143
      [] OTHER -> 128 .. 191
Feed(ps, b) ==
    IF ps.need = 0
    THEN IF b < 128 THEN Fed(ps, 1, b) ELSE IF b \in 194 .. 244 THEN Fed(Lead(b), 0, 0) ELSE Fed(ps, -1, 0)
    ELSE IF b \notin Follow(ps.lead) THEN Fed([ps EXCEPT !.bits = 0, !.need = 0, !.lead = 0], -1, 0)
    ELSE LET bits == ps.bits * 64 + (b % 64)
         IN IF ps.need > 1 THEN Fed([ps EXCEPT !.lead = 0, !.bits = bits, !.need = @ - 1], 0, 0)
            ELSE Fed([ps EXCEPT !.lead = 0, !.bits = 0, !.need = 0], 1, bits)

\* Bytes s[i ..] fed until a character is whole: [ps, n, c], n the bytes it took, -1 not UTF-8, -2 cut short.
RECURSIVE FeedAll(_, _, _)
FeedAll(ps, s, used) ==
    IF used = Len(s) THEN [ps |-> ps, n |-> -2, c |-> 0]
    ELSE LET f == Feed(ps, s[used + 1])
         IN IF f.r < 0 THEN [ps |-> f.ps, n |-> -1, c |-> 0]
            ELSE IF f.r > 0 THEN [ps |-> f.ps, n |-> used + 1, c |-> f.c]
            ELSE FeedAll(f.ps, s, used + 1)
FirstOf(s, n) == SubSeq(s, 1, IF n < Len(s) THEN n ELSE Len(s))
Decode(s) == LET d == FeedAll(Between, FirstOf(s, 4), 0) IN IF d.n < 0 THEN [n |-> -1, c |-> 0] ELSE [n |-> d.n, c |-> d.c]

\* utf8_next over a whole string, whose terminator no string of Bytes holds: the characters it gives.
RECURSIVE Read(_)
Read(s) ==
    IF s = <<>> THEN <<>>
    ELSE LET d == Decode(s)
         IN IF d.n < 0 THEN <<Replacement>> \o Read(Tail(s)) ELSE <<d.c>> \o Read(SubSeq(s, d.n + 1, Len(s)))
RECURSIVE Valid(_)
Valid(s) == s = <<>> \/ (Decode(s).n > 0 /\ Valid(SubSeq(s, Decode(s).n + 1, Len(s))))

\* latin1_to_utf8: [dst, length, full], a character at a time.
ToUtf8(size, s) ==
    FoldLeft(LAMBDA o, c : LET u == Encode(c)
                               fits == ~o.full /\ o.length + Len(u) < size
                           IN [dst |-> IF fits THEN o.dst \o u ELSE o.dst, length |-> o.length + Len(u), full |-> ~fits],
             [dst |-> <<>>, length |-> 0, full |-> FALSE], s)
\* utf8_to_latin1, unknown characters as 0
ToLatin1(size, s) ==
    LET cs == Read(s) IN [dst |-> FirstOf([i \in DOMAIN cs |-> IF cs[i] <= 255 THEN cs[i] ELSE 0], size - 1), length |-> Len(cs)]

-----------------------------------------------------------------------------
\* The conversions by units: u = [ps, n, out], what the call returned and the unit it gave.
Unit(ps, n, out) == [ps |-> ps, n |-> n, out |-> out]
PointOf(d) == Unit(IF d.n = -1 THEN Between ELSE d.ps, d.n, IF d.n < 0 THEN <<>> ELSE <<d.c>>)
ToPoint(ps, s) == PointOf(FeedAll(ps, s, 0))
\* mbrtoc16: the trail of a pair is kept, and given by the next call.
Pair(d) ==
    IF d.n < 0 \/ d.out[1] < 65536 THEN d
    ELSE LET c == d.out[1] - 65536
         IN Unit([d.ps EXCEPT !.bits = 56320 + (c % 1024), !.pending = 1], d.n, <<55296 + c \div 1024>>)
To16(ps, s) == IF ps.pending # 0 THEN Unit(Between, -3, <<ps.bits>>) ELSE Pair(ToPoint(ps, s))
\* mbrtoc8: the rest of the character's bytes likewise, the next one lowest in bits.
FirstByte(d, u) ==
    Unit([d.ps EXCEPT !.bits = FoldRight(LAMBDA b, x : x * 256 + b, Tail(u), 0), !.pending = Len(u) - 1], d.n, <<u[1]>>)
ByteOf(d) == IF d.n < 0 THEN d ELSE FirstByte(d, Encode(d.out[1]))
To8(ps, s) ==
    IF ps.pending # 0
    THEN Unit(IF ps.pending = 1 THEN Between ELSE [ps EXCEPT !.bits = @ \div 256, !.pending = @ - 1], -3, <<ps.bits % 256>>)
    ELSE ByteOf(ToPoint(ps, s))
\* c32rtomb: a character at a time, nothing waits
From32(ps, c) == IF Width(c) = 0 THEN Unit(Between, -1, <<>>) ELSE Unit(Between, Width(c), Encode(c))
\* c16rtomb: a lead waits for its trail.
From16(ps, c) ==
    IF ps.pending # 0
    THEN IF c \in 56320 .. 57343 THEN Unit(Between, 4, Encode(65536 + (ps.bits - 55296) * 1024 + (c - 56320))) ELSE Unit(Between, -1, <<>>)
    ELSE IF c \in 55296 .. 56319 THEN Unit([ps EXCEPT !.bits = c, !.pending = 1], 0, <<>>)
    ELSE IF c \in 56320 .. 57343 THEN Unit(Between, -1, <<>>)
    ELSE Unit(ps, Len(Encode(c)), Encode(c))
\* c8rtomb
From8(ps, b) ==
    LET f == Feed(ps, b)
    IN IF f.r < 0 THEN Unit(Between, -1, <<>>) ELSE IF f.r = 0 THEN Unit(f.ps, 0, <<>>) ELSE Unit(f.ps, Len(Encode(f.c)), Encode(f.c))

\* What the standard calls the text's units.
Units16(c) == IF c < 65536 THEN <<c>> ELSE <<55296 + (c - 65536) \div 1024, 56320 + ((c - 65536) % 1024)>>
InBytes(text) == FlattenSeq([i \in DOMAIN text |-> Encode(text[i])])
InUnits(text, how) ==
    CASE how = "to32" -> text [] how = "to16" -> FlattenSeq([i \in DOMAIN text |-> Units16(text[i])])
      [] OTHER -> InBytes(text)
InInput(text, how) ==
    CASE how = "from32" -> InUnits(text, "to32") [] how = "from16" -> InUnits(text, "to16") [] OTHER -> InBytes(text)
Into == {"to32", "to16", "to8"}
From == {"from32", "from16", "from8"}

Strings == UNION {[1 .. n -> Bytes] : n \in 0 .. MaxBytes}
Texts == UNION {[1 .. n -> Points] : n \in 1 .. MaxPoints}
Init ==
    /\ job \in [how : {"look"}, s : Strings] \cup [how : Into \cup From, text : Texts]
    /\ conv = IF job.how = "look" THEN [ps |-> Between, left |-> <<>>, out |-> <<>>, n |-> 0]
              ELSE [ps |-> Between, left |-> InInput(job.text, job.how), out |-> <<>>, n |-> 0]

\* A program that reads its text in pieces of any length, and asks on while there is more of a character.
Step(u, used) == conv' = [ps |-> u.ps, left |-> SubSeq(conv.left, used + 1, Len(conv.left)), out |-> conv.out \o u.out, n |-> u.n]
Used(n, piece) == CASE n = -2 -> piece [] n = -3 -> 0 [] n = -1 -> 0 [] OTHER -> n
Convert(piece) ==
    LET s == FirstOf(conv.left, piece)
        u == CASE job.how = "to32" -> ToPoint(conv.ps, s) [] job.how = "to16" -> To16(conv.ps, s) [] job.how = "to8" -> To8(conv.ps, s)
    IN Step(u, Used(u.n, Len(s)))
Back ==
    LET c == conv.left[1]
    IN Step(CASE job.how = "from32" -> From32(conv.ps, c) [] job.how = "from16" -> From16(conv.ps, c)
              [] job.how = "from8" -> From8(conv.ps, c), 1)
Next ==
    /\ UNCHANGED job /\ conv.n # -1
    /\ \/ /\ job.how \in Into /\ (conv.left # <<>> \/ conv.ps.pending # 0)
          /\ \E piece \in 1 .. 4 : Convert(piece)
       \/ job.how \in From /\ conv.left # <<>> /\ Back
Spec == Init /\ [][Next]_vars

-----------------------------------------------------------------------------
\* The value of the bits of n bytes, whatever they are.
Plain(s) ==
    CASE Len(s) = 1 -> s[1] [] Len(s) = 2 -> (s[1] % 32) * 64 + (s[2] % 64)
      [] Len(s) = 3 -> (s[1] % 16) * 4096 + (s[2] % 64) * 64 + (s[3] % 64)
      [] OTHER -> (s[1] % 8) * 262144 + (s[2] % 64) * 4096 + (s[3] % 64) * 64 + (s[4] % 64)
Shortest(s) == \E n \in 1 .. 4 : n <= Len(s) /\ Encode(Plain(FirstOf(s, n))) = FirstOf(s, n)

\* A string is read as UTF-8 where it is the shortest form of a character, and nowhere else (no overlong form, no
\* surrogate, nothing cut short), and the Latin-1 conversions never cut a character and say how long the whole is.
OnlyUtf8IsRead ==
    job.how = "look" =>
        /\ job.s # <<>> => (Decode(job.s).n > 0) = Shortest(job.s)
        /\ Valid(job.s) => InBytes(Read(job.s)) = job.s
        /\ \A size \in 1 .. (MaxBytes + 1) :
            LET u == ToUtf8(size, job.s)
            IN Len(u.dst) < size /\ Valid(u.dst) /\ u.length = Len(InBytes(job.s))
               /\ IsPrefix(ToLatin1(100, u.dst).dst, job.s) /\ (u.length < size => ToLatin1(100, u.dst).dst = job.s)

\* However a text comes in pieces, what came out of it so far is the start of its units, and all of them at the end.
PiecesAddUp ==
    job.how # "look" =>
        LET whole == InUnits(job.text, IF job.how \in From THEN "to8" ELSE job.how)
        IN /\ conv.n # -1 /\ IsPrefix(conv.out, whole)
           /\ conv.left = <<>> /\ IsInitial(conv.ps) => conv.out = whole
           /\ conv.left = <<>> => conv.ps.need = 0
=============================================================================
