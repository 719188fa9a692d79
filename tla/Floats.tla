------------------------------- MODULE Floats -------------------------------
(***************************************************************************)
(* Floating-point numbers as text: the exact conversions of src/fconv.c,   *)
(* the reading of src/strtox.c and the printing of src/format.c, for a     *)
(* small format with a binary mantissa.  A number is its bit pattern, its  *)
(* sign apart; the big integers of the code are integers, a hexadecimal    *)
(* digit is one bit, a letter stands for both its cases, and a blank for   *)
(* every white space.                                                      *)
(***************************************************************************)
EXTENDS Integers, FiniteSets, FiniteSetsExt, SequencesExt

CONSTANTS
    P,                 \* 24: the bits of a mantissa
    EMin,              \* -149: the exponent of a subnormal
    Inf,               \* 255: the biased exponent of infinity
    MaxDigits,         \* FCONV_MAX_DIGITS
    Enough,            \* 9: so many digits always read back
    Top, Bottom,       \* 40 and -46: the powers of ten past which no number is
    KeepBits,          \* 60: what is kept of a hexadecimal mantissa
    MostExp,           \* 100000: an exponent that is large enough
    Texts,             \* what is read
    Convs, Precs, Widths   \* how the numbers are printed

VARIABLES
    job,               \* a text to read, or a number and the way to print it
    out                \* what came of it

vars == <<job, out>>

Hidden == 2 ^ (P - 1)
Infinity == Inf * Hidden
NaN == Infinity + Hidden \div 2          \* the one that is read; all the patterns past Infinity are NaNs
Mantissa(v) == IF v < Hidden THEN v ELSE Hidden + (v % Hidden)
Exponent(v) == IF v < Hidden THEN EMin ELSE EMin + (v \div Hidden) - 1
Odd(n) == n % 2 = 1

-----------------------------------------------------------------------------
\* exact_digits: [d, x10], the digits of v and the power of ten of the first.
RECURSIVE DigitsOf(_), Reduced(_, _), Bits(_)
DigitsOf(n) == IF n = 0 THEN <<>> ELSE Append(DigitsOf(n \div 10), n % 10)
Reduced(m, e) == IF Odd(m) \/ e >= 0 THEN [m |-> m, e |-> e] ELSE Reduced(m \div 2, e + 1)
ExactDigits(v) ==
    LET r == Reduced(Mantissa(v), Exponent(v))
        d == DigitsOf(IF r.e >= 0 THEN r.m * 2 ^ r.e ELSE r.m * 5 ^ (-r.e))
    IN [d |-> d, x10 |-> Len(d) - 1 + IF r.e >= 0 THEN 0 ELSE r.e]

\* round_to: to nearest, ties to even, and a carry past the first digit is one more power of ten.
GoesUp(d, keep) ==
    /\ keep < Len(d)
    /\ \/ d[keep + 1] > 5
       \/ d[keep + 1] = 5 /\ ((\E i \in (keep + 2) .. Len(d) : d[i] # 0) \/ (keep > 0 /\ Odd(d[keep])))
RoundTo(d, keep, x10) ==
    LET kept == [i \in 1 .. keep |-> IF i <= Len(d) THEN d[i] ELSE 0]
        last == Max({0} \cup {i \in 1 .. keep : kept[i] # 9})
    IN IF ~GoesUp(d, keep) THEN [d |-> kept, x10 |-> x10]
       ELSE [d |-> [i \in 1 .. keep |-> CASE i < last -> kept[i] [] i = last -> kept[i] + 1 [] OTHER -> IF last = 0 /\ i = 1 THEN 1 ELSE 0],
             x10 |-> IF last = 0 THEN x10 + 1 ELSE x10]

\* __fconv_digits: so many significant digits, or so many after the point.
Kept(keep) == IF keep > MaxDigits THEN MaxDigits ELSE keep
Significant(v, count) == LET x == ExactDigits(v) IN RoundTo(x.d, Kept(IF count < 1 THEN 1 ELSE count), x.x10)
AfterPoint(v, count) ==
    LET x == ExactDigits(v)
        keep == x.x10 + 1 + Kept(count)
        r == RoundTo(x.d, Kept(keep), x.x10)
    IN IF keep <= 0
       THEN IF keep = 0 /\ GoesUp(x.d, 0) THEN [d |-> <<1>>, x10 |-> -count] ELSE [d |-> <<>>, x10 |-> 0]
       ELSE IF r.x10 # x.x10 /\ keep < MaxDigits THEN [r EXCEPT !.d = Append(@, 0)] ELSE r

-----------------------------------------------------------------------------
\* nearest: the number nearest num / den, ties to even: [v, range].  A quotient carries one bit to round with.
Bits(n) == IF n = 0 THEN 0 ELSE 1 + Bits(n \div 2)
Up2(n, s) == IF s > 0 THEN n * 2 ^ s ELSE n
Quotient(num, den, s) == LET a == Up2(num, s) b == Up2(den, -s) IN [q |-> a \div b, sticky |-> a % b # 0]
HalfUpAlways(q, sticky) == (q \div 2) + (q % 2)
HalfUp(q, sticky) == (q \div 2) + IF Odd(q) /\ (sticky \/ Odd(q \div 2)) THEN 1 ELSE 0
Got(v, range) == [v |-> v, range |-> range]
Subnormal(num, den, extra) ==
    LET r == Quotient(num, den, 1 - EMin)
        m == HalfUp(r.q, r.sticky \/ extra)
    IN Got(m, (Odd(r.q) \/ r.sticky \/ extra) /\ m < Hidden)
Nearest(num, den, extra) ==
    LET s0 == P + 1 - (Bits(num) - Bits(den))
        r == Quotient(num, den, s0)
        long == r.q >= 2 ^ (P + 1)
        q == IF long THEN r.q \div 2 ELSE r.q
        s == IF long THEN s0 - 1 ELSE s0
        m == HalfUp(q, r.sticky \/ extra \/ (long /\ Odd(r.q)))
        biased == 2 - s - EMin
        v == biased * Hidden + (m - Hidden)             \* a mantissa of 2^P is the next exponent's first
    IN IF biased >= Inf THEN Got(Infinity, TRUE)
       ELSE IF biased < 1 THEN Subnormal(num, den, extra)
       ELSE IF v >= Infinity THEN Got(Infinity, TRUE) ELSE Got(v, FALSE)

\* __fconv_decimal, __fconv_binary
RECURSIVE WithoutZeros(_)
WithoutZeros(d) == IF d # <<>> /\ d[1] = 0 THEN WithoutZeros(Tail(d)) ELSE d
ValueOf(d) == FoldLeft(LAMBDA n, x : n * 10 + x, 0, d)
Decimal(digits, sticky, exp10) ==
    LET d == WithoutZeros(digits)
        num == IF sticky THEN ValueOf(d) * 10 + 1 ELSE ValueOf(d)
        e == IF sticky THEN exp10 - 1 ELSE exp10
    IN IF d = <<>> THEN Got(0, FALSE)
       ELSE IF Len(d) + exp10 > Top THEN Got(Infinity, TRUE)
       ELSE IF Len(d) + exp10 < Bottom THEN Got(0, TRUE)
       ELSE Nearest(IF e >= 0 THEN num * 10 ^ e ELSE num, IF e < 0 THEN 10 ^ (-e) ELSE 1, FALSE)
Highest == EMin + P + Inf - 2                            \* 128: two to this is past the largest
Binary(h, sticky, exp2) ==
    LET top == Bits(h) - 1 + exp2
    IN IF h = 0 THEN Got(0, FALSE)
       ELSE IF top > Highest THEN Got(Infinity, TRUE)
       ELSE IF top < EMin - 2 THEN Got(0, TRUE)
       ELSE Nearest(Up2(h, exp2), Up2(1, -exp2), sticky)

\* __fconv_shortest: the fewest digits that read back.
Shortest(v) ==
    LET ReadBack(n) == LET r == Significant(v, n) IN Decimal(r.d, FALSE, r.x10 - (n - 1)).v = v
    IN Significant(v, Min({Enough} \cup {n \in 1 .. (Enough - 1) : ReadBack(n)}))

-----------------------------------------------------------------------------
\* scan_real, read_hex_float: [kind, negative, p] with p = [at, d, sticky, exp, any, point]; s is read from p.at on.
Figure == [c \in {"0", "1", "2", "3", "4", "5", "6", "7", "8", "9"} |->
             CASE c = "0" -> 0 [] c = "1" -> 1 [] c = "2" -> 2 [] c = "3" -> 3 [] c = "4" -> 4 [] c = "5" -> 5 [] c = "6" -> 6
               [] c = "7" -> 7 [] c = "8" -> 8 [] c = "9" -> 9]
At(s, i) == IF i <= Len(s) THEN s[i] ELSE "nul"
IsDigit(s, i) == At(s, i) \in DOMAIN Figure
Point(s, p) == At(s, p.at) = "." /\ ~p.point
On(p) == [p EXCEPT !.at = @ + 1]
DecimalDigit(p, x) ==
    LET shift == IF p.point THEN -1 ELSE 0
    IN IF p.d = <<>> /\ x = 0 THEN [p EXCEPT !.exp = @ + shift]
       ELSE IF Len(p.d) < MaxDigits THEN [p EXCEPT !.d = Append(@, x), !.exp = @ + shift]
       ELSE [p EXCEPT !.sticky = @ \/ x # 0, !.exp = @ + 1 + shift]
BinaryDigit(p, x) ==
    LET shift == IF p.point THEN -1 ELSE 0
    IN IF Len(WithoutZeros(p.d)) < KeepBits THEN [p EXCEPT !.d = Append(@, x), !.exp = @ + shift]
       ELSE [p EXCEPT !.sticky = @ \/ x # 0, !.exp = @ + 1 + shift]
RECURSIVE TakeDigits(_, _, _), TakeExp(_, _, _)
TakeDigits(s, p, hex) ==
    LET x == Figure[s[p.at]]
    IN IF Point(s, p) THEN TakeDigits(s, On([p EXCEPT !.point = TRUE]), hex)
       ELSE IF ~IsDigit(s, p.at) \/ (hex /\ x > 1) THEN p
       ELSE TakeDigits(s, [On(IF hex THEN BinaryDigit(p, x) ELSE DecimalDigit(p, x)) EXCEPT !.any = TRUE], hex)
TakeExp(s, i, e) ==
    IF IsDigit(s, i) THEN TakeExp(s, i + 1, IF e < MostExp THEN e * 10 + Figure[s[i]] ELSE e) ELSE [at |-> i, e |-> e]
WithExp(s, p, letter) ==
    LET from == IF At(s, p.at + 1) \in {"-", "+"} THEN p.at + 2 ELSE p.at + 1
        x == TakeExp(s, from, 0)
    IN IF At(s, p.at) # letter \/ ~IsDigit(s, from) THEN p
       ELSE [p EXCEPT !.at = x.at, !.exp = IF At(s, p.at + 1) = "-" THEN @ - x.e ELSE @ + x.e]
RECURSIVE AfterBlanks(_, _)
AfterBlanks(s, i) == IF At(s, i) = " " THEN AfterBlanks(s, i + 1) ELSE i
Word == [inf |-> <<"i", "n", "f">>, infinity |-> <<"i", "n", "f", "i", "n", "i", "t", "y">>, nan |-> <<"n", "a", "n">>]
MatchesWord(s, i, word) == \A k \in DOMAIN word : At(s, i + k - 1) = word[k]
ScanReal(s) ==
    LET first == AfterBlanks(s, 1)
        signed == IF At(s, first) \in {"-", "+"} THEN first + 1 ELSE first
        start == [at |-> signed, d |-> <<>>, sticky |-> FALSE, exp |-> 0, any |-> FALSE, point |-> FALSE]
        hex == TakeDigits(s, [start EXCEPT !.at = signed + 2], TRUE)
        dec == TakeDigits(s, start, FALSE)
        Real(kind, p) == [kind |-> kind, negative |-> At(s, first) = "-", p |-> p]
        After(word) == [start EXCEPT !.at = signed + Len(word)]
    IN CASE MatchesWord(s, signed, Word.infinity) -> Real("inf", After(Word.infinity))
         [] MatchesWord(s, signed, Word.inf) /\ ~MatchesWord(s, signed, Word.infinity) -> Real("inf", After(Word.inf))
         [] MatchesWord(s, signed, Word.nan) -> Real("nan", After(Word.nan))
         [] At(s, signed) = "0" /\ At(s, signed + 1) = "x" ->
              IF hex.any THEN Real("hex", WithExp(s, hex, "p")) ELSE Real("decimal", [start EXCEPT !.at = signed + 1])     \* the 0
         [] OTHER -> IF dec.any THEN Real("decimal", WithExp(s, dec, "e")) ELSE Real("none", [start EXCEPT !.at = 1])
\* strtof and strtod: a NaN, and no number at all, have no sign.
Strtof(s) ==
    LET t == ScanReal(s)
        r == CASE t.kind = "none" -> Got(0, FALSE) [] t.kind = "inf" -> Got(Infinity, FALSE) [] t.kind = "nan" -> Got(NaN, FALSE)
               [] t.kind = "hex" -> Binary(FoldLeft(LAMBDA n, x : n * 2 + x, 0, t.p.d), t.p.sticky, t.p.exp)
               [] OTHER -> Decimal(t.p.d, t.p.sticky, t.p.exp)
    IN [v |-> r.v, range |-> r.range, negative |-> t.negative /\ t.kind \notin {"none", "nan"}, end |-> t.p.at - 1]

-----------------------------------------------------------------------------
\* put_number and exponent_tail
Many(n, c) == SubSeq([i \in 1 .. 40 |-> c], 1, n)
Char(x) == CHOOSE c \in DOMAIN Figure : Figure[c] = x
Chars(d) == [i \in DOMAIN d |-> Char(d[i])]
PutNumber(prefix, b, width, flags) ==
    LET fill == width - (Len(prefix) + Len(b.body) + b.zeros + Len(b.tail))
        zero == "zero" \in flags /\ "left" \notin flags
    IN (IF "left" \in flags \/ zero THEN <<>> ELSE Many(fill, " ")) \o prefix \o (IF zero THEN Many(fill, "0") ELSE <<>>)
       \o b.body \o Many(b.zeros, "0") \o b.tail \o (IF "left" \in flags THEN Many(fill, " ") ELSE <<>>)
Size(x) == IF x < 0 THEN -x ELSE x
ExponentTail(letter, x, least) ==
    <<letter, IF x < 0 THEN "-" ELSE "+">> \o (IF least = 2 /\ Size(x) < 10 THEN <<"0">> ELSE <<>>)
    \o (IF x = 0 THEN <<"0">> ELSE Chars(DigitsOf(Size(x))))
Sign(negative, flags) ==
    IF negative THEN <<"-">> ELSE IF "plus" \in flags THEN <<"+">> ELSE IF "space" \in flags THEN <<" ">> ELSE <<>>
Dot(prec, flags) == IF prec > 0 \/ "alt" \in flags THEN <<".">> ELSE <<>>
OrZero(d, i) == IF i <= Len(d) THEN d[i] ELSE 0

\* fmt_float: %f
FixedBody(r, prec, flags) ==
    LET x == IF r.d = <<>> THEN 0 ELSE r.x10
        whole == IF r.d = <<>> \/ x < 0 THEN <<0>> ELSE [i \in 1 .. (x + 1) |-> OrZero(r.d, i)]
        there == IF r.d = <<>> THEN 0 ELSE Min({prec, Max({0, Len(r.d) - x - 1})})
        part == [j \in 1 .. there |-> IF x + 1 + j <= 0 THEN 0 ELSE r.d[x + 1 + j]]
    IN [body |-> Chars(whole) \o Dot(prec, flags) \o Chars(part), zeros |-> prec - there, tail |-> <<>>]
\* %e and %g: sig of the digits, and zeros for the rest of them
Stripped(d) == Max({1} \cup {i \in DOMAIN d : d[i] # 0})
ExpBody(d, x, sig, all, flags) ==
    [body |-> Chars(<<d[1]>>) \o Dot(all - 1, flags) \o Chars(SubSeq(d, 2, sig)), zeros |-> all - sig, tail |-> ExponentTail("e", x, 2)]
PlainBody(d, x, sig, all, flags) ==
    IF x >= 0
    THEN [body |-> Chars([i \in 1 .. (x + 1) |-> IF i <= sig THEN d[i] ELSE 0]) \o Dot(all - x - 1, flags) \o Chars(SubSeq(d, x + 2, sig)),
          zeros |-> all - Max({sig, x + 1}), tail |-> <<>>]
    ELSE [body |-> <<"0", ".">> \o Many(-x - 1, "0") \o Chars(SubSeq(d, 1, sig)), zeros |-> all - sig, tail |-> <<>>]
SignificantBody(r, conv, asked, flags) ==
    LET strip == conv = "g" /\ "alt" \notin flags
        sig == IF strip THEN Stripped(r.d) ELSE Len(r.d)
        all == IF strip THEN sig ELSE asked
    IN IF conv = "g" /\ r.x10 \in -4 .. (asked - 1) THEN PlainBody(r.d, r.x10, sig, all, flags)
       ELSE ExpBody(r.d, r.x10, sig, all, flags)
FloatBody(v, conv, prec, flags) ==
    LET asked == IF conv = "e" THEN prec + 1 ELSE IF prec = 0 THEN 1 ELSE prec
    IN IF conv = "f" THEN FixedBody(IF v = 0 THEN [d |-> <<>>, x10 |-> 0] ELSE AfterPoint(v, prec), prec, flags)
       ELSE SignificantBody(IF v = 0 THEN [d |-> <<0>>, x10 |-> 0] ELSE Significant(v, asked), conv, asked, flags)

\* fmt_hex_float: P - 1 bits after the point, or as many as asked for, rounded
HexBody(v, prec, flags) ==
    LET n == P - 1
        frac == v % Hidden
        lead == IF v < Hidden THEN 0 ELSE 1
        drop == 2 ^ (n - prec)
        up == HalfUp((lead * Hidden + frac) \div (drop \div 2), (frac % (drop \div 2)) # 0)
        kept == IF prec >= 0 /\ prec < n THEN up * drop ELSE lead * Hidden + frac
        bits == [i \in 1 .. n |-> (kept \div 2 ^ (n - i)) % 2]
        digits == IF prec >= 0 /\ prec < n THEN prec ELSE IF prec >= 0 THEN n ELSE Max({0} \cup {i \in 1 .. n : bits[i] # 0})
    IN [body |-> <<"0", "x">> \o Chars(<<kept \div Hidden>>) \o (IF digits > 0 \/ "alt" \in flags THEN <<".">> ELSE <<>>)
                 \o Chars(SubSeq(bits, 1, digits)),
        zeros |-> Max({0, prec - n}), tail |-> ExponentTail("p", IF v = 0 THEN 0 ELSE Exponent(v) + n, 1)]
\* put_special: an infinity, or a NaN, which has no sign
PutSpecial(v, negative, width, flags) ==
    PutNumber(Sign(negative /\ v = Infinity, flags),
              [body |-> IF v = Infinity THEN Word.inf ELSE Word.nan, zeros |-> 0, tail |-> <<>>], width, flags \ {"zero"})
FmtFloat(v, negative, conv, width, prec0, flags) ==
    IF v >= Infinity THEN PutSpecial(v, negative, width, flags)
    ELSE PutNumber(Sign(negative, flags),
                   IF conv = "a" THEN HexBody(v, prec0, flags) ELSE FloatBody(v, conv, IF prec0 < 0 THEN 6 ELSE prec0, flags),
                   width, flags)

-----------------------------------------------------------------------------
Flags == SUBSET {"left", "plus", "space", "zero", "alt"}
Init ==
    /\ job \in [do : {"read"}, s : Texts] \cup
              [do : {"print"}, v : 0 .. (Infinity + Hidden - 1), negative : BOOLEAN, conv : Convs, prec : Precs, width : Widths, flags : Flags]
    /\ out = [done |-> FALSE]
Printed(j, width) == FmtFloat(j.v, j.negative, j.conv, width, j.prec, j.flags)
Next ==
    /\ ~out.done /\ UNCHANGED job
    /\ out' = IF job.do = "read" THEN [done |-> TRUE, r |-> Strtof(job.s)] ELSE [done |-> TRUE, s |-> Printed(job, job.width)]
Spec == Init /\ [][Next]_vars

-----------------------------------------------------------------------------
\* The standard's: a text is a number when it is blanks, a sign, and either a word or digits with at most one point and
\* an exponent.
Count(s, c) == Cardinality({i \in DOMAIN s : s[i] = c})
IsMantissa(s, figures) == ToSet(s) \subseteq figures \cup {"."} /\ Count(s, ".") <= 1 /\ Len(s) > Count(s, ".")
IsPower(s) == s # <<>> /\ LET t == IF s[1] \in {"-", "+"} THEN Tail(s) ELSE s IN t # <<>> /\ ToSet(t) \subseteq DOMAIN Figure
CutAt(s, letter) == Min({Len(s) + 1} \cup {i \in DOMAIN s : s[i] = letter})
NotBlank(s) == SubSeq(s, Min({Len(s) + 1} \cup {i \in DOMAIN s : s[i] # " "}), Len(s))
Unsigned(s) == LET t == NotBlank(s) IN IF t # <<>> /\ t[1] \in {"-", "+"} THEN Tail(t) ELSE t
IsInfinity(s) == Unsigned(s) \in {Word.inf, Word.infinity}
IsNaN(s) == Unsigned(s) = Word.nan
Form(s) ==
    LET t == Unsigned(s)
        hex == Len(t) > 2 /\ t[1] = "0" /\ t[2] = "x"
        u == IF hex THEN SubSeq(t, 3, Len(t)) ELSE t
        cut == CutAt(u, IF hex THEN "p" ELSE "e")
    IN [hex |-> hex, m |-> SubSeq(u, 1, cut - 1), e |-> SubSeq(u, cut + 1, Len(u)), power |-> cut <= Len(u)]
IsNumber(s) == LET f == Form(s) IN IsMantissa(f.m, IF f.hex THEN {"0", "1"} ELSE DOMAIN Figure) /\ (f.power => IsPower(f.e))
IsReal(s) == IsInfinity(s) \/ IsNaN(s) \/ IsNumber(s)
Whole(s, base) == FoldLeft(LAMBDA n, c : IF c \in DOMAIN Figure THEN n * base + Figure[c] ELSE n, 0, s)
Signed(s, n) == IF s # <<>> /\ s[1] = "-" THEN -n ELSE n

\* In units of half the smallest number, which every number and every point half way between two is a whole number of.
Units(v) == 2 * Mantissa(v) * 2 ^ (Exponent(v) - EMin)
HalfWay(v) == (Units(v) + Units(v + 1)) \div 2
RightlyRounds(num, den, v) ==
    /\ v > 0 => num > HalfWay(v - 1) * den \/ (num = HalfWay(v - 1) * den /\ ~Odd(v))
    /\ v < Infinity => num < HalfWay(v) * den \/ (num = HalfWay(v) * den /\ ~Odd(v))
IsWritten(num, den) ==
    /\ RightlyRounds(num, den, out.r.v)
    /\ out.r.range = (out.r.v = Infinity \/ (out.r.v < Hidden /\ num # Units(out.r.v) * den))
IsTimes(m, base, near) ==
    IsWritten(m * 2 ^ (1 - EMin) * IF near > 0 THEN base ^ near ELSE 1, IF near < 0 THEN base ^ (-near) ELSE 1)
\* 1 times the base to most is past the largest number
WithinReach(m, x, least, most) == IF x > most THEN IF m = 0 THEN 0 ELSE most ELSE IF x < least THEN least ELSE x
IsScaled(f, m, base, x, most) == IsTimes(m, base, WithinReach(m, x, -Len(f.m) - most, most))
IsNearest(f) ==
    LET base == IF f.hex THEN 2 ELSE 10
    IN IsScaled(f, Whole(f.m, base), base,
                Signed(f.e, Whole(f.e, 10)) - (Len(f.m) - Min({Len(f.m), CutAt(f.m, ".")})), IF f.hex THEN 8 ELSE 3)
\* What is read is the longest number there is, and its nearest: ties go to the even one, and a result that is not
\* what was written, for want of exponents, is said to be so.  A word is read as what it says, which is in range.
Nothing == [v |-> 0, range |-> FALSE, negative |-> FALSE, end |-> 0]
IsRead(s) ==
    /\ out.r.negative = (NotBlank(s)[1] = "-" /\ ~IsNaN(s))
    /\ IF IsInfinity(s) THEN out.r.v = Infinity /\ ~out.r.range
       ELSE IF IsNaN(s) THEN out.r.v = NaN /\ ~out.r.range ELSE IsNearest(Form(s))
ReadsNearest ==
    job.do = "read" /\ out.done =>
        /\ out.r.end = Max({0} \cup {k \in DOMAIN job.s : IsReal(SubSeq(job.s, 1, k))})
        /\ IF out.r.end = 0 THEN out.r = Nothing ELSE IsRead(SubSeq(job.s, 1, out.r.end))

\* What is printed, without what fills it up and its sign
Bare(s) == Unsigned(SelectSeq(s, LAMBDA c : c # " "))
NearestWhole(n, num, den) == 2 * num >= (2 * n - 1) * den /\ 2 * num <= (2 * n + 1) * den
                             /\ (2 * num = (2 * n - 1) * den \/ 2 * num = (2 * n + 1) * den => ~Odd(n))
Scaled(v, x) ==         \* v * 10^x as a fraction
    [num |-> Units(v) * IF x > 0 THEN 10 ^ x ELSE 1, den |-> 2 ^ (1 - EMin) * IF x < 0 THEN 10 ^ (-x) ELSE 1]
Precision(j) == IF j.prec < 0 THEN 6 ELSE j.prec
FixedIsNearest(j, s) == LET x == Scaled(j.v, Precision(j)) IN NearestWhole(Whole(s, 10), x.num, x.den)
ExponentIsNearest(j, s) ==
    LET cut == CutAt(s, "e")
        n == Whole(SubSeq(s, 1, cut - 1), 10)
        p == Precision(j)
        x10 == Signed(SubSeq(s, cut + 1, Len(s)), Whole(SubSeq(s, cut + 1, Len(s)), 10))
        x == Scaled(j.v, p - x10)
        fine == Scaled(j.v, p - x10 + 1)
    IN /\ j.v > 0 => n \in 10 ^ p .. (10 ^ (p + 1) - 1)
       /\ NearestWhole(n, x.num, x.den)
       /\ n * x.den > x.num /\ n = 10 ^ p => NearestWhole(10 * n, fine.num, fine.den)
BinaryIsNearest(j, s) ==
    LET cut == CutAt(s, "p")
        places == IF j.prec < 0 THEN cut - 1 - Min({cut - 1, CutAt(s, ".")}) ELSE j.prec
        n == Whole(SubSeq(s, 3, cut - 1), 2)
        x == Signed(SubSeq(s, cut + 1, Len(s)), Whole(SubSeq(s, cut + 1, Len(s)), 10)) - places - EMin + 1
    IN IF x >= 0 THEN NearestWhole(n, Units(j.v), 2 ^ x) ELSE n = Units(j.v) * 2 ^ (-x)
\* %g is %e or %f, whichever its exponent calls for, without the zeros at the end.
RECURSIVE NoZeros(_)
NoZeros(s) == IF s[Len(s)] = "0" THEN NoZeros(SubSeq(s, 1, Len(s) - 1)) ELSE IF s[Len(s)] = "." THEN SubSeq(s, 1, Len(s) - 1) ELSE s
Printing(j, conv, prec) == Bare(FmtFloat(j.v, FALSE, conv, 0, prec, j.flags))
PowerIn(e, cut) == LET t == SubSeq(e, cut + 1, Len(e)) IN Signed(t, Whole(t, 10))
Short(j, t) == IF "alt" \in j.flags \/ "." \notin ToSet(t) THEN t ELSE NoZeros(t)
EitherOf(j, p, e, cut) ==
    IF PowerIn(e, cut) \in -4 .. (p - 1) THEN Short(j, Printing(j, "f", p - 1 - PowerIn(e, cut)))
    ELSE Short(j, SubSeq(e, 1, cut - 1)) \o SubSeq(e, cut, Len(e))
EitherFor(j, p, e) == EitherOf(j, p, e, CutAt(e, "e"))
GeneralIsEither(j) ==
    LET p == Max({1, Precision(j)}) IN Printing(j, "g", j.prec) = EitherFor(j, p, Printing(j, "e", p - 1))
\* One sign at most, the number's own or the one asked for, which a NaN has too; a blank that stands for it is there whatever
\* the width.
SignIsAsAsked(j, s) ==
    LET t == SelectSeq(s, LAMBDA c : c # " ")
    IN CASE j.negative /\ j.v <= Infinity -> t[1] = "-"
         [] "plus" \in j.flags /\ ~(j.negative /\ j.v <= Infinity) -> t[1] = "+"
         [] OTHER -> t[1] \notin {"-", "+"} /\ ("space" \in j.flags => s[1] = " ")
\* Every digit printed is the number's own, the last one rounded to nearest with ties to even (src/format.c:180-182); the
\* head of that file (src/format.c:11-13) still says otherwise.  What is no number is its word, with no zeros before it.
PrintsExactly ==
    job.do = "print" /\ out.done =>
        /\ SignIsAsAsked(job, out.s)
        /\ CASE job.v >= Infinity -> Bare(out.s) = IF job.v = Infinity THEN Word.inf ELSE Word.nan
             [] job.v < Infinity /\ job.conv = "f" -> FixedIsNearest(job, Bare(out.s))
             [] job.v < Infinity /\ job.conv = "e" -> ExponentIsNearest(job, Bare(out.s))
             [] job.v < Infinity /\ job.conv = "g" -> GeneralIsEither(job)
             [] job.v < Infinity /\ job.conv = "a" -> BinaryIsNearest(job, Bare(Printed(job, 0)))
ShortestReadsBack ==
    job.do = "print" /\ job.v \in 1 .. (Infinity - 1) =>
        LET r == Shortest(job.v) IN Decimal(r.d, FALSE, r.x10 - (Len(r.d) - 1)).v = job.v

\* A number is as wide as it is asked to be, and no wider than it is unless it is asked to.
Fits(j, s) == Len(s) = Max({j.width, Len(Printed(j, 0))})
OthersFit == job.do = "print" /\ out.done /\ (job.conv # "g" \/ "alt" \in job.flags) => Fits(job, out.s)
GeneralFits == job.do = "print" /\ out.done => Fits(job, out.s)
=============================================================================
