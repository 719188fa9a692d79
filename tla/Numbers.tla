------------------------------ MODULE Numbers -------------------------------
(***************************************************************************)
(* Integers as text: strtol and strtoul (src/strtox.c), printf's integer   *)
(* conversions (src/format.c), and the field scanf reads one from          *)
(* (src/scanf.c).  A word counts to UintMax; the wide forms are the same   *)
(* code with a larger UintMax.                                             *)
(***************************************************************************)
EXTENDS Integers, SequencesExt

CONSTANTS
    UintMax,           \* UINT_MAX, or 2^64 - 1
    Bases,             \* the bases asked for
    NoBases,           \* and those there is no number in
    Texts,             \* what is read
    Values,            \* the magnitudes that are printed
    Widths, Precs,     \* the widths and precisions they are printed with; -1 is no precision
    FieldMax           \* FIELD_MAX

VARIABLES
    job,               \* what is to be read or printed
    out                \* what came of it

vars == <<job, out>>

SignedMax == UintMax \div 2                        \* LONG_MAX
SignedMin == -SignedMax - 1
Figures == <<"0", "1", "2", "3", "4", "5", "6", "7", "8", "9", "a", "b", "c", "d", "e", "f", "g">>
ValueOf == [c \in ToSet(Figures) |-> (CHOOSE i \in DOMAIN Figures : Figures[i] = c) - 1]
DigitValue(c) == IF c \in DOMAIN ValueOf THEN ValueOf[c] ELSE -1
Blank(c) == c = " "
At(s, i) == IF i <= Len(s) THEN s[i] ELSE "nul"
IsDigitIn(c, base) == DigitValue(c) >= 0 /\ DigitValue(c) < base

-----------------------------------------------------------------------------
\* parse_magnitude: [value, end, negative, over, err]; end is the characters read.
RECURSIVE AfterBlanks(_, _), TakeDigits(_, _, _)
AfterBlanks(s, i) == IF Blank(At(s, i)) THEN AfterBlanks(s, i + 1) ELSE i
TakeDigits(s, base, m) ==
    LET d == DigitValue(At(s, m.at))
        over == m.value > (UintMax - d) \div base
    IN IF ~IsDigitIn(At(s, m.at), base) THEN m
       ELSE TakeDigits(s, base, [at |-> m.at + 1, any |-> TRUE, over |-> m.over \/ over,
                                 value |-> IF over THEN m.value ELSE m.value * base + d])
IsPrefix0x(s, i, base) == base \in {0, 16} /\ At(s, i) = "0" /\ At(s, i + 1) = "x" /\ IsDigitIn(At(s, i + 2), 16)
NoBase(base) == base < 0 \/ base = 1 \/ base > 36
MagnitudeAt(s, base, start) ==
    LET signed == IF At(s, start) \in {"-", "+"} THEN start + 1 ELSE start
        hex == IsPrefix0x(s, signed, base)
        in == IF hex THEN 16 ELSE IF base # 0 THEN base ELSE IF At(s, signed) = "0" THEN 8 ELSE 10
        m == TakeDigits(s, in, [at |-> IF hex THEN signed + 2 ELSE signed, any |-> FALSE, over |-> FALSE, value |-> 0])
    IN IF NoBase(base) THEN [value |-> 0, end |-> 0, negative |-> FALSE, over |-> FALSE, err |-> "EINVAL"]
       ELSE [value |-> m.value, end |-> IF m.any THEN m.at - 1 ELSE 0, negative |-> At(s, start) = "-", over |-> m.over, err |-> "none"]
Magnitude(s, base) == MagnitudeAt(s, base, AfterBlanks(s, 1))

\* strtoul and strtol, also strtoull and strtoll: [v, end, err]
Number(v, m, range) == [v |-> v, end |-> m.end, err |-> IF range THEN "ERANGE" ELSE m.err]
Unsigned(m) ==
    IF m.over THEN Number(UintMax, m, TRUE) ELSE Number(IF m.negative THEN (UintMax + 1 - m.value) % (UintMax + 1) ELSE m.value, m, FALSE)
Signed(m) ==
    IF m.negative
    THEN IF m.over \/ m.value > SignedMax + 1 THEN Number(SignedMin, m, TRUE) ELSE Number(-m.value, m, FALSE)
    ELSE IF m.over \/ m.value > SignedMax THEN Number(SignedMax, m, TRUE) ELSE Number(m.value, m, FALSE)
Strtoul(s, base) == Unsigned(Magnitude(s, base))
Strtol(s, base) == Signed(Magnitude(s, base))

-----------------------------------------------------------------------------
\* put_field: sign or prefix, zeros and body, filled up to the width.
Many(n, c) == SubSeq([i \in 1 .. 32 |-> c], 1, n)
PutField(prefix, body, zeros, width, flags, mayZero) ==
    LET fill == width - (Len(prefix) + zeros + Len(body))
        zeroFill == "zero" \in flags /\ "left" \notin flags /\ mayZero
    IN (IF "left" \in flags \/ zeroFill THEN <<>> ELSE Many(fill, " ")) \o prefix
       \o (IF zeroFill THEN Many(fill, "0") ELSE <<>>) \o Many(zeros, "0") \o body
       \o (IF "left" \in flags THEN Many(fill, " ") ELSE <<>>)

\* utoa_base, fmt_integer
RECURSIVE InBase(_, _)
InBase(v, base) == (IF v < base THEN <<>> ELSE InBase(v \div base, base)) \o <<Figures[(v % base) + 1]>>
Sign(signed, negative, flags) ==
    IF ~signed THEN <<>> ELSE IF negative THEN <<"-">> ELSE IF "plus" \in flags THEN <<"+">>
    ELSE IF "space" \in flags THEN <<" ">> ELSE <<>>
FmtInteger(v, signed, negative, base, width, prec0, flags) ==
    LET digits == InBase(v, base)
        alt == "alt" \in flags /\ v # 0
        prec == IF alt /\ base = 8 /\ prec0 <= Len(digits) THEN Len(digits) + 1 ELSE prec0
        body == IF prec = 0 /\ v = 0 THEN <<>> ELSE digits
        prefix == Sign(signed, negative, flags) \o (IF alt /\ base = 16 THEN <<"0", "x">> ELSE <<>>)
    IN PutField(prefix, body, IF prec > Len(body) THEN prec - Len(body) ELSE 0, width, flags, prec < 0)

\* sink_mem and vsnprintf: what is left in a buffer of cap bytes, and the length the whole takes
Snprintf(cap, s) == [buf |-> SubSeq(s, 1, IF Len(s) < cap - 1 THEN Len(s) ELSE cap - 1), r |-> Len(s)]

-----------------------------------------------------------------------------
\* read_integer of scanf: a source read a character at a time, one of which may be given back; at is the next one.
\* f = [at, width, base, buf, digits].
Take(f, c, isDigit) ==
    [f EXCEPT !.at = @ + 1, !.width = @ - 1, !.buf = Append(@, c), !.digits = IF isDigit THEN @ + 1 ELSE 0]
RECURSIVE FieldDigits(_, _)
FieldDigits(s, f) ==
    LET c == At(s, f.at)
    IN IF f.width > 0 /\ Len(f.buf) < FieldMax - 1 /\ IsDigitIn(c, f.base) THEN FieldDigits(s, Take(f, c, TRUE)) ELSE f
FieldSign(s, f) == IF At(s, f.at) \in {"-", "+"} /\ f.width > 1 THEN Take(f, At(s, f.at), FALSE) ELSE f
FieldPrefix(s, f) ==
    LET zero == Take(f, "0", TRUE)
    IN IF At(s, f.at) # "0" \/ f.base \notin {0, 16} \/ f.width <= 1 THEN f
       ELSE IF At(s, zero.at) = "x" /\ zero.width > 1 THEN [Take(zero, "x", FALSE) EXCEPT !.base = 16]
       ELSE [zero EXCEPT !.base = IF @ = 0 THEN 8 ELSE @]
FieldBase(f) == [f EXCEPT !.base = IF @ = 0 THEN 10 ELSE @]
ReadInteger(s, width, base) ==
    LET f0 == [at |-> AfterBlanks(s, 1), width |-> IF width > 0 THEN width ELSE FieldMax, base |-> base, buf |-> <<>>, digits |-> 0]
        f == FieldDigits(s, FieldBase(FieldPrefix(s, FieldSign(s, f0))))
    IN [ok |-> f.digits > 0, buf |-> f.buf, at |-> f.at]

-----------------------------------------------------------------------------
Flags == SUBSET {"left", "plus", "space", "zero", "alt"}
Init ==
    /\ job \in [do : {"read"}, s : Texts, base : Bases] \cup
              [do : {"read"}, s : {t \in Texts : Len(t) = 1}, base : NoBases] \cup
              [do : {"print"}, v : Values, signed : {TRUE}, base : {10}, width : Widths, prec : Precs, flags : Flags] \cup
              [do : {"print"}, v : Values, signed : {FALSE}, base : {8, 10, 16}, width : Widths, prec : Precs, flags : Flags]
    /\ out = [done |-> FALSE]
Printed(j) ==
    LET negative == j.signed /\ j.v < 0
        v == IF j.v < 0 THEN IF j.signed THEN -j.v ELSE UintMax + 1 + j.v ELSE j.v
    IN FmtInteger(v, j.signed, negative, j.base, j.width, j.prec, j.flags)
Next ==
    /\ ~out.done /\ UNCHANGED job
    /\ out' = IF job.do = "print" THEN [done |-> TRUE, s |-> Printed(job)]
              ELSE [done |-> TRUE, l |-> Strtol(job.s, job.base), ul |-> Strtoul(job.s, job.base)]
Spec == Init /\ [][Next]_vars

\* The subject sequence of the standard: the longest start of a text that is blanks, a sign, a prefix and digits.
Form(s, base) ==
    LET b == AfterBlanks(s, 1)
        i == IF At(s, b) \in {"-", "+"} THEN b + 1 ELSE b
        hex == IsPrefix0x(s, i, base)
        in == IF hex THEN 16 ELSE IF base = 0 THEN (IF At(s, i) = "0" THEN 8 ELSE 10) ELSE base
        from == IF hex THEN i + 2 ELSE i
    IN [is |-> base \in {0} \cup 2 .. 36 /\ from <= Len(s) /\ \A k \in from .. Len(s) : IsDigitIn(s[k], in), from |-> from, in |-> in, minus |-> At(s, b) = "-"]
Worth(s, from, in) == FoldLeft(LAMBDA v, c : v * in + DigitValue(c), 0, SubSeq(s, from, Len(s)))
Subjects(s, base) == {k \in 1 .. Len(s) : Form(SubSeq(s, 1, k), base).is}

\* A text is read as far as it is a number and no further; a value in range is exact, any other the nearest end of
\* the range, and said to be out of it; and nothing is read in a base there is no number in, which is said too.
ReadAs(n, v) ==
    /\ out.l.err = IF v \in SignedMin .. SignedMax THEN "none" ELSE "ERANGE"
    /\ out.ul.err = IF n <= UintMax THEN "none" ELSE "ERANGE"
    /\ out.l.v = IF v > SignedMax THEN SignedMax ELSE IF v < SignedMin THEN SignedMin ELSE v
    /\ out.ul.v = IF n <= UintMax THEN v % (UintMax + 1) ELSE UintMax
ReadInForm(n, minus) == ReadAs(n, IF minus THEN -n ELSE n)
ReadSubject(s, f) == ReadInForm(Worth(s, f.from, f.in), f.minus)
ReadUpTo(ends) ==
    IF ends = {}
    THEN out.l = out.ul /\ out.l = [v |-> 0, end |-> 0, err |-> IF job.base \in {0} \cup 2 .. 36 THEN "none" ELSE "EINVAL"]
    ELSE /\ out.l.end = Max(ends) /\ out.ul.end = Max(ends)
         /\ LET s == SubSeq(job.s, 1, out.l.end) IN ReadSubject(s, Form(s, job.base))
ReadsExactly == job.do = "read" /\ out.done => ReadUpTo(Subjects(job.s, job.base))

\* A printed number is as wide as it was to be and reads back as itself, in a buffer of any size as far as it goes.
BaseBack(j) == IF j.signed THEN 10 ELSE IF "alt" \in j.flags THEN 0 ELSE j.base
ReadsBack ==
    job.do = "print" /\ out.done =>
        LET back == IF job.signed THEN Strtol(out.s, 10) ELSE Strtoul(out.s, BaseBack(job))
        IN /\ Len(out.s) >= job.width
           /\ \/ back.v = IF job.signed THEN job.v ELSE job.v % (UintMax + 1)
              \/ BaseBack(job) = 0 /\ job.base = 10      \* %#u with zeros before it looks like an octal number
           /\ \A cap \in 1 .. 6 : IsPrefix(Snprintf(cap, out.s).buf, out.s) /\ Snprintf(cap, out.s).r = Len(out.s)

\* What scanf takes for an integer is a number to strtol up to its last character, and no text with a number is refused.
FieldIsANumber ==
    job.do = "read" /\ out.done /\ job.base \in {0, 8, 10, 16} =>
        \A width \in 0 .. Len(job.s) :
            LET f == ReadInteger(job.s, width, job.base)
            IN /\ f.ok => Strtol(f.buf, job.base).end = Len(f.buf) /\ f.buf = SubSeq(job.s, f.at - Len(f.buf), f.at - 1)
               /\ width = 0 /\ f.ok => f.at - 1 = out.l.end
               /\ width = 0 /\ out.l.end > 0 /\ ~f.ok => At(job.s, f.at - 1) = "x"
=============================================================================
