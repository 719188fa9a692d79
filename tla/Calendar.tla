------------------------------ MODULE Calendar ------------------------------
(***************************************************************************)
(* The calendar of src/time.c: days and dates, gmtime and mktime, which    *)
(* takes fields out of range, each up to its limits; what sleep and        *)
(* nanosleep wait for; and strftime's buffer.  A walk goes from day to day *)
(* by the rules of the calendar everyone knows, and the arithmetic of the  *)
(* code is held against it.  The day has fewer hours, minutes and seconds  *)
(* than ours, the clocks fewer bits, and the limits are nearer.            *)
(***************************************************************************)
EXTENDS Integers, SequencesExt

CONSTANTS
    Hours, Minutes, Seconds,   \* 24, 60, 60
    Years,                     \* where walks begin, on January 1
    MaxWalk,                   \* bound: the days of a walk
    MaxDays, MaxYear,          \* 2000000000 days either side of 1970, and 5800000 years
    Shifts,                    \* by how much a field given to mktime is out of its range
    Word,                      \* 2^64, what the nanosecond clock counts up to
    PerSecond,                 \* 1000000000
    MostSeconds,               \* 18000000000: a nanosleep of more lasts until the clock ends
    MsWord,                    \* 2^32, what milliseconds are counted in
    MsPerSecond,               \* 1000
    MostSleep,                 \* 4294967: the whole seconds that fit in it
    Formats                    \* what strftime is asked for

VARIABLES
    day,                       \* the days since 1970-01-01
    date,                      \* the date they come to, by the rules: [y, m, d, yday, wday]
    walked

vars == <<day, date, walked>>

DaySeconds == Hours * Minutes * Seconds

-----------------------------------------------------------------------------
\* C's division, toward zero
Div(a, b) == IF a >= 0 THEN a \div b ELSE -((-a) \div b)
Rem(a, b) == a - Div(a, b) * b
FloorDivC(a, b) == Div(a, b)
FloorDiv(a, b) == IF Rem(a, b) # 0 /\ a < 0 THEN Div(a, b) - 1 ELSE Div(a, b)

CivilFromDays(z0) ==
    LET z == z0 + 719468
        era == Div(IF z >= 0 THEN z ELSE z - 146096, 146097)
        doe == z - era * 146097
        yoe == Div(doe - Div(doe, 1460) + Div(doe, 36524) - Div(doe, 146096), 365)
        doy == doe - (365 * yoe + Div(yoe, 4) - Div(yoe, 100))
        mp == Div(5 * doy + 2, 153)
        m == IF mp < 10 THEN mp + 3 ELSE mp - 9
    IN [y |-> yoe + era * 400 + (IF m <= 2 THEN 1 ELSE 0), m |-> m, d |-> doy - Div(153 * mp + 2, 5) + 1]
DaysFromCivil(y0, m, d) ==
    LET y == IF m <= 2 THEN y0 - 1 ELSE y0
        era == Div(IF y >= 0 THEN y ELSE y - 399, 400)
        yoe == y - era * 400
        doy == Div(153 * (IF m > 2 THEN m - 3 ELSE m + 9) + 2, 5) + d - 1
    IN era * 146097 + yoe * 365 + Div(yoe, 4) - Div(yoe, 100) + doy - 719468

\* gmtime_r; struct tm has its year from 1900 and its month from 0.  A NULL leaves the fields as they were.
Fits(days) == ~(days > MaxDays \/ days < -MaxDays)
DateAt(c, days, rest) ==
       [hour |-> rest \div (Minutes * Seconds), min |-> (rest % (Minutes * Seconds)) \div Seconds, sec |-> rest % Seconds,
        wday |-> Rem(Rem(days + 4, 7) + 7, 7), year |-> c.y - 1900, mon |-> c.m - 1, mday |-> c.d,
        yday |-> days - DaysFromCivil(c.y, 1, 1)]
Gmtime(t, old) ==
    LET days == FloorDiv(t, DaySeconds)
    IN IF Fits(days) THEN [err |-> "none", tm |-> DateAt(CivilFromDays(days), days, t - days * DaySeconds)]
       ELSE [err |-> "EOVERFLOW", tm |-> old]
\* mktime: the time, and the fields put in their ranges.
Mktime(tm) ==
    LET year == tm.year + 1900 + FloorDiv(tm.mon, 12)
        mon == tm.mon - FloorDiv(tm.mon, 12) * 12
        seconds == tm.hour * Minutes * Seconds + tm.min * Seconds + tm.sec
        carry == FloorDiv(seconds, DaySeconds)
        days == DaysFromCivil(year, mon + 1, 1) + tm.mday - 1 + carry
        t == days * DaySeconds + seconds - carry * DaySeconds
    IN IF year > MaxYear \/ year < -MaxYear \/ ~Fits(days) THEN [err |-> "EOVERFLOW", t |-> -1, tm |-> tm]
       ELSE [err |-> "none", t |-> t, tm |-> Gmtime(t, tm).tm]

-----------------------------------------------------------------------------
\* sleep: the milliseconds it waits; more seconds than they can count are as many as they can.
Slept(seconds) == ((IF seconds > MostSleep THEN MostSleep ELSE seconds) * MsPerSecond) % MsWord
\* nanosleep: what the clock is waited to, from now and a request of whole seconds and nanoseconds
NoRequest == [sec |-> 0, nsec |-> -1]          \* a null pointer, refused as a negative time is
Refused(req) == req.sec < 0 \/ req.nsec < 0 \/ req.nsec > PerSecond - 1
WaitedTo(now, sec, nsec) ==
    LET span == IF sec > MostSeconds THEN Word - 1 ELSE (sec * PerSecond + nsec) % Word
    IN IF span > Word - 1 - now THEN Word - 1 ELSE (now + span) % Word
Nanosleep(now, req) ==
    IF Refused(req) THEN [err |-> "EINVAL", until |-> now] ELSE [err |-> "none", until |-> WaitedTo(now, req.sec, req.nsec)]

\* strftime: a field is a number in at least so many places, or a text; what does not fit leaves nothing.
Digit == <<"0", "1", "2", "3", "4", "5", "6", "7", "8", "9">>
RECURSIVE Digits(_)
Digits(v) == (IF v < 10 THEN <<>> ELSE Digits(v \div 10)) \o <<Digit[(v % 10) + 1]>>
PutChar(o, c) == IF o.len + 1 >= o.max THEN [o EXCEPT !.full = TRUE] ELSE [o EXCEPT !.buf = Append(@, c), !.len = @ + 1]
PutText(o, s) == FoldLeft(PutChar, o, s)
PutNumber(o, value, width, pad) ==
    LET digits == Digits(IF value < 0 THEN 0 ELSE value)
    IN PutText(o, SubSeq([i \in 1 .. width |-> pad], 1, width - Len(digits)) \o digits)
Noon(h) == LET r == h % (Hours \div 2) IN IF r = 0 THEN Hours \div 2 ELSE r
Composite == [F |-> <<"%Y", "-", "%m", "-", "%d">>, T |-> <<"%H", ":", "%M", ":", "%S">>, R |-> <<"%H", ":", "%M">>]
RECURSIVE FormatInto(_, _, _)
FormatOne(o, spec, tm) ==
    CASE spec = "%Y" -> PutNumber(o, tm.year + 1900, 1, "0")
      [] spec = "%C" -> PutNumber(o, Div(tm.year + 1900, 100), 2, "0")
      [] spec = "%y" -> PutNumber(o, Rem(tm.year + 1900, 100), 2, "0")
      [] spec = "%m" -> PutNumber(o, tm.mon + 1, 2, "0")
      [] spec = "%d" -> PutNumber(o, tm.mday, 2, "0")
      [] spec = "%e" -> PutNumber(o, tm.mday, 2, " ")
      [] spec = "%j" -> PutNumber(o, tm.yday + 1, 3, "0")
      [] spec = "%H" -> PutNumber(o, tm.hour, 2, "0")
      [] spec = "%I" -> PutNumber(o, Noon(tm.hour), 2, "0")
      [] spec = "%M" -> PutNumber(o, tm.min, 2, "0")
      [] spec = "%S" -> PutNumber(o, tm.sec, 2, "0")
      [] spec = "%p" -> PutText(o, IF tm.hour < Hours \div 2 THEN <<"A", "M">> ELSE <<"P", "M">>)
      [] spec = "%u" -> PutNumber(o, IF tm.wday = 0 THEN 7 ELSE tm.wday, 1, "0")
      [] spec = "%F" -> FormatInto(o, Composite.F, tm)
      [] spec = "%T" -> FormatInto(o, Composite.T, tm)
      [] spec = "%R" -> FormatInto(o, Composite.R, tm)
      [] OTHER -> PutChar(o, spec)
FormatInto(o, format, tm) == FoldLeft(LAMBDA x, spec : FormatOne(x, spec, tm), o, format)
Strftime(max, format, tm) ==
    LET o == FormatInto([buf |-> <<>>, max |-> max, len |-> 0, full |-> FALSE], format, tm)
    IN IF max = 0 \/ o.full THEN <<>> ELSE o.buf

-----------------------------------------------------------------------------
Leap(y) == (y % 4 = 0 /\ y % 100 # 0) \/ y % 400 = 0
DaysIn(y, m) == CASE m = 2 -> IF Leap(y) THEN 29 ELSE 28 [] m \in {4, 6, 9, 11} -> 30 [] OTHER -> 31
LeapsBefore(y) == (y - 1) \div 4 - (y - 1) \div 100 + (y - 1) \div 400
NewYear(y) == 365 * (y - 1970) + LeapsBefore(y) - LeapsBefore(1970)

Init ==
    \E y \in Years :
        /\ day = NewYear(y) /\ walked = 0
        /\ date = [y |-> y, m |-> 1, d |-> 1, yday |-> 0, wday |-> (4 + NewYear(y)) % 7]
Tomorrow ==
    IF date.d < DaysIn(date.y, date.m) THEN [date EXCEPT !.d = @ + 1, !.yday = @ + 1]
    ELSE IF date.m < 12 THEN [date EXCEPT !.m = @ + 1, !.d = 1, !.yday = @ + 1]
    ELSE [date EXCEPT !.y = @ + 1, !.m = 1, !.d = 1, !.yday = 0]
Next ==
    /\ walked < MaxWalk /\ walked' = walked + 1 /\ day' = day + 1
    /\ date' = [Tomorrow EXCEPT !.wday = (@ + 1) % 7]
Spec == Init /\ [][Next]_vars

-----------------------------------------------------------------------------
\* gmtime gives the date of every second of the day, mktime the second of the date, fields out of their range say the
\* same as the ones they come to, and are put right; and what passes the limits, and nothing else, is EOVERFLOW
\* (src/time.c).
Times == {day * DaySeconds + s : s \in {0, DaySeconds - 1}}
Within(d) == -MaxDays <= d /\ d <= MaxDays
ByTheRules(s) == [hour |-> s \div (Minutes * Seconds), min |-> (s \div Seconds) % Minutes, sec |-> s % Seconds,
                  wday |-> date.wday, year |-> date.y - 1900, mon |-> date.m - 1, mday |-> date.d, yday |-> date.yday]
\* The fields are taken for the time t, if there is one within the limits.
TakenFor(tm, t) ==
    IF Within(t \div DaySeconds)
    THEN Mktime(tm) = [err |-> "none", t |-> t, tm |-> Gmtime(t, tm).tm] ELSE Mktime(tm) = [err |-> "EOVERFLOW", t |-> -1, tm |-> tm]
IsDate(tm, t) ==
    /\ IF Within(day) THEN Gmtime(t, ByTheRules(0)) = [err |-> "none", tm |-> tm]
       ELSE Gmtime(t, ByTheRules(0)) = [err |-> "EOVERFLOW", tm |-> ByTheRules(0)]
    /\ TakenFor(tm, t) /\ TakenFor([tm EXCEPT !.wday = 8, !.yday = -1], t)
    /\ \A k \in Shifts :
        /\ TakenFor([tm EXCEPT !.mon = @ + 12 * k, !.year = @ - k], t)
        /\ TakenFor([tm EXCEPT !.mday = @ + 40 * k], t + 40 * k * DaySeconds)
        /\ TakenFor([tm EXCEPT !.hour = @ + k, !.min = @ + k, !.sec = @ + 7 * k],
                    t + k * Minutes * Seconds + k * Seconds + 7 * k)
    /\ \A y \in {2 * MaxYear, -2 * MaxYear} : Mktime([tm EXCEPT !.year = @ + y]).err = "EOVERFLOW"
CalendarHolds == \A t \in Times : IsDate(ByTheRules(t - day * DaySeconds), t)

\* A time's text is the same in every buffer it fits in with its end, and nothing is left in any other.
FitsWhole(format, tm, whole) ==
    \A max \in {0, 1, Len(whole) \div 2} \cup (Len(whole) - 1) .. (Len(whole) + 2) :
        Strftime(max, format, tm) = IF max > Len(whole) THEN whole ELSE <<>>
StampOf(format, tm) == FitsWhole(format, tm, Strftime(100, format, tm))
StampFits == \A format \in Formats : StampOf(format, ByTheRules(0))

\* nanosleep ends when asked to, or with the clock when that is sooner or when asked for more than MostSeconds, and refuses
\* what is no time; sleep lasts as asked up to MostSleep, and for all longer ones that long.
SleepLastsAsAsked ==
    walked = 0 =>
        /\ \A now \in 0 .. (Word - 1), sec \in -1 .. (2 * MostSeconds), nsec \in -1 .. PerSecond :
            LET asked == now + sec * PerSecond + nsec
                r == Nanosleep(now, [sec |-> sec, nsec |-> nsec])
            IN IF sec = -1 \/ nsec \in {-1, PerSecond} THEN r = [err |-> "EINVAL", until |-> now]
               ELSE r = [err |-> "none", until |-> IF asked < Word /\ sec <= MostSeconds THEN asked ELSE Word - 1]
        /\ Nanosleep(0, NoRequest).err = "EINVAL"
        /\ \A seconds \in 0 .. (MsWord - 1) :
            IF seconds <= MostSleep THEN Slept(seconds) = seconds * MsPerSecond ELSE Slept(seconds) = MostSleep * MsPerSecond
=============================================================================
