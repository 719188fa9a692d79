------------------------------- MODULE MCText -------------------------------
(***************************************************************************)
(* Texts, formats and algorithms, one of them in each behaviour: "kind"    *)
(* says which, and the other variables are those of its module.            *)
(***************************************************************************)
EXTENDS Integers, Sequences

CONSTANT Kinds         \* those explored

VARIABLES kind, job, out, told

vars == <<kind, job, out, told>>
None == 0
AllOf(S, n) == [1 .. n -> S]

IniValues == {<<>>, <<"\"", "\\", "n">>, <<" ", "\\", "n">>, <<"n", " ", ";">>, <<"nl">>}
IniTexts == AllOf({"n", "=", "[", "]", "\"", "nl"}, 3)
IniNames == {<<"n">>, <<"N">>, <<"x", " ", "[">>}
In == INSTANCE Ini WITH Names <- IniNames, Values <- IniValues, Texts <- IniTexts, LineMax <- 11, MaxEntries <- 2,
                        doc <- job, told <- told

JsonChars == {"{", "}", "[", "]", "\"", ":", ",", "1"}
JsonTexts == AllOf(JsonChars, 3) \cup AllOf(JsonChars, 4) \cup {<<"{", "\"", "\"", ":">> \o x : x \in AllOf(JsonChars, 3)}
                \cup {<<"1">> \o x : x \in AllOf({".", "e", "0", "-", " "}, 3)}
                \cup {<<"\"", "\\">> \o x : x \in AllOf({"u", "0", "n", "\"", "nl"}, 3)}
JsonStrings == {<<>>, <<"\"", "nl">>, <<"ctl", "\\">>}
Js == INSTANCE Json WITH Strings <- JsonStrings, Numbers <- {<<"1">>}, Texts <- JsonTexts, MaxDepth <- 2, Caps <- {8, 40},
                         MaxCalls <- 4, w <- job, told <- told, read <- out

LzInputs == UNION {AllOf({0, 1}, n) : n \in 0 .. 10}
LzBlocks == UNION {AllOf(0 .. 3, n) : n \in 1 .. 4} \cup {<<x, y>> \o z : x \in {0, 2}, y \in {0, 1}, z \in AllOf({0, 1, 3}, 4)}
LzMagic(of) == [word |-> "magic", of |-> of]
LzSize(n, stored) == [word |-> "size", n |-> n, stored |-> stored]
LzSum == [word |-> "sum"]
LzFlags(independent, blocksums, sum) == [word |-> "flags", version |-> 1, reserved |-> FALSE, most |-> 4, content |-> FALSE,
                                         dictionary |-> FALSE, independent |-> independent, blocksums |-> blocksums, sum |-> sum]
LzBlock(f, stored, bytes) == <<LzSize(Len(bytes), stored)>> \o [i \in DOMAIN bytes |-> [word |-> "byte", byte |-> bytes[i]]]
                                \o IF f.blocksums THEN <<LzSum>> ELSE <<>>
\* A frame of a stored block and a compressed one, of n bytes in all.
LzFrame(f, bytes, n) == <<LzMagic("frame"), f>> \o (IF f.content THEN <<[word |-> "field", n |-> n]>> ELSE <<>>)
                            \o (IF f.dictionary THEN <<[word |-> "field"]>> ELSE <<>>)
                            \o LzBlock(f, TRUE, <<1, 0>>) \o LzBlock(f, FALSE, bytes) \o <<LzSize(0, FALSE)>>
                            \o IF f.sum THEN <<LzSum>> ELSE <<>>
LzNoFrames == {<<LzMagic("skip"), LzSize(2, FALSE), LzSum, LzSum>>, <<LzMagic("other")>>}
LzInFrames == {<<0, y, 0, z>> : y \in 0 .. 3, z \in 0 .. 2} \cup {<<2, 0, 3>>, <<2, 0, 3, 1, 0, 0>>, <<2, 0, 3, 2, 0, 0>>, <<1, 1, 0, 1, 0>>}
LzStreams == {LzFrame(LzFlags(b, sums, sums), x, 0) : b, sums \in BOOLEAN, x \in LzInFrames} \cup LzNoFrames
LzPieces == LET plain == LzFlags(FALSE, FALSE, FALSE)
                of(f) == LzFrame(f, <<0, 1, 0, 0>>, 6)
            IN {of(LzFlags(b, sums, sum)) : b, sums, sum \in BOOLEAN} \cup LzNoFrames
                \cup {of([plain EXCEPT !.content = TRUE]), of([plain EXCEPT !.dictionary = TRUE]),
                       of([plain EXCEPT !.content = TRUE, !.dictionary = TRUE]),
                       of([plain EXCEPT !.version = 2]), of([plain EXCEPT !.reserved = TRUE]), of([plain EXCEPT !.most = 3])}
Lz_ == INSTANCE Lz WITH Base <- 4, Nibble <- 1, MinMatch <- 4, MfLimit <- 5, LastLiterals <- 1, Window <- 5, Buckets <- 2,
                        Slack <- 2, Inputs <- LzInputs, Blocks <- LzBlocks, Streams <- LzStreams, Pieces <- LzPieces,
                        Caps <- {3, 8, 20}

PackHeader(magic, version, count, directory) == [magic |-> magic, version |-> version, count |-> count, directory |-> directory]
PackEntry(name, offset, size, stored, crc) == [name |-> name, offset |-> offset, size |-> size, stored |-> stored, crc |-> crc]
PackEntries(at) == <<PackEntry("x", at, 3, 3, <<"a", "b", "c">>), PackEntry("y", at + 2, 4, 2, <<"c", "c", "d", "d">>),
                     PackEntry("x", at + 3, 3, 3, <<"d">>), PackEntry("z", at + 2, 2, 2, <<"c", "c">>),
                     PackEntry("w", at, 9, 1, <<"a">>)>>
PackData == <<"a", "b", "c", "d">>
PackMedia == {<<PackHeader("CPAK", 1, 5, 1)>> \o PackEntries(6) \o PackData, <<PackHeader("CPAK", 1, 5, 6)>> \o PackData \o PackEntries(1),
              <<>>, <<PackHeader("CPAK", 1, 0, 9), "a">>}
    \cup {<<h, PackEntries(1)[1]>> : h \in {PackHeader("CPAK", 2, 1, 1), PackHeader("junk", 1, 1, 1), PackHeader("CPAK", 1, 1, 1)}}
Pa == INSTANCE Pack WITH Sector <- 2, Media <- PackMedia, Names <- {"x", "z", "w", "v"}, Rooms <- {2, 4}, Most <- 9, MaxBad <- 1,
                         pack <- job, call <- out

Utf8Bytes == {0, 65, 127, 128, 143, 144, 159, 160, 191, 192, 193, 194, 223, 224, 237, 239, 240, 244, 245, 255}
Utf8Points == {65, 233, 2047, 2048, 65533, 65536, 1114111}
Ut == INSTANCE Utf8 WITH Bytes <- Utf8Bytes \ {0}, Points <- Utf8Points, MaxBytes <- 3, MaxPoints <- 2, conv <- out

So == INSTANCE Sorts WITH Keys <- {1, 2, 3}, MaxLength <- 6, Short <- 3, Depths <- {0, 1, 4}, Run <- 2, Sizes <- {0, 1, 3},
                          SizeMax <- 14

CalendarYears == {-401, -1, 1899, 1969, 1999, 4340}
CalendarFormats == {<<"%F", "%T">>, <<"%y", "%j", "%p", "x">>, <<"%C", "%e", "%I", "%u">>}
\* The days 865900 from 1970 are in the years -401 and 4340.
Ca == INSTANCE Calendar WITH Hours <- 4, Minutes <- 3, Seconds <- 2, Years <- CalendarYears, MaxWalk <- 430, MaxDays <- 865900,
                             MaxYear <- 4400, Shifts <- {-13, 1, 25}, Word <- 32, PerSecond <- 2, MostSeconds <- 13,
                             MsWord <- 16, MsPerSecond <- 3, MostSleep <- 5, Formats <- CalendarFormats,
                             day <- job, date <- out, walked <- told

NumberChars == {" ", "-", "0", "x", "1", "9", "f"}
NumberTexts == UNION {AllOf(NumberChars, n) : n \in 0 .. 3} \cup {<<c>> \o x : c \in {" ", "-", "0"}, x \in AllOf(NumberChars, 3)}
NumberValues == {-32, -31, -1, 0, 1, 7, 8, 31}
Nu == INSTANCE Numbers WITH UintMax <- 63, Bases <- {0, 8, 10, 16}, NoBases <- {-1, 1, 37}, Texts <- NumberTexts,
                            Values <- NumberValues, Widths <- {0, 5}, Precs <- {-1, 0, 2}, FieldMax <- 7

FloatTexts == UNION {AllOf({"0", "1", "2", "5", ".", "e", "-"}, n) : n \in 0 .. 4} \cup {<<"1", ".">> \o x : x \in AllOf({"0", "2", "5", "7"}, 4)}
                \cup {<<"0", "x">> \o x : x \in UNION {AllOf({"0", "1", ".", "p", "-"}, n) : n \in 0 .. 5}}
                \cup UNION {AllOf({"i", "n", "f", "a", " ", "-"}, n) : n \in 1 .. 4}
                \cup {<<"i", "n", "f">> \o x : x \in AllOf({"i", "n", "t", "y"}, 5)}
                \cup {<<" ">> \o x : x \in AllOf({" ", "-", "1", "."}, 3)}
FloatPrecs == {-1, 0, 1, 4}
Fl == INSTANCE Floats WITH P <- 3, EMin <- -2, Inf <- 5, MaxDigits <- 4, Enough <- 2, Top <- 2, Bottom <- -1, KeepBits <- 4, MostExp <- 10,
                           Texts <- FloatTexts, Convs <- {"e", "f", "g", "a"}, Precs <- FloatPrecs, Widths <- {0, 9}

NoTold == told = None
Init ==
    /\ kind \in Kinds
    /\ CASE kind = "ini" -> In!Init /\ out = None
         [] kind = "json" -> Js!Init
         [] kind = "lz" -> Lz_!Init /\ NoTold
         [] kind = "pack" -> Pa!Init /\ NoTold
         [] kind = "utf8" -> Ut!Init /\ NoTold
         [] kind = "sorts" -> So!Init /\ NoTold
         [] kind = "calendar" -> Ca!Init
         [] kind = "numbers" -> Nu!Init /\ NoTold
         [] kind = "floats" -> Fl!Init /\ NoTold

Next ==
    /\ UNCHANGED kind
    /\ \/ kind = "ini" /\ In!Next /\ UNCHANGED out
       \/ kind = "json" /\ Js!Next
       \/ kind = "lz" /\ Lz_!Next /\ UNCHANGED told
       \/ kind = "pack" /\ Pa!Next /\ UNCHANGED told
       \/ kind = "utf8" /\ Ut!Next /\ UNCHANGED told
       \/ kind = "sorts" /\ So!Next /\ UNCHANGED told
       \/ kind = "calendar" /\ Ca!Next
       \/ kind = "numbers" /\ Nu!Next /\ UNCHANGED told
       \/ kind = "floats" /\ Fl!Next /\ UNCHANGED told
Spec == Init /\ [][Next]_vars

-----------------------------------------------------------------------------
\* Settings and JSON written are read back as what they were, and JSON's searches find what is there and nothing else; only
\* UTF-8 is taken for it, and a conversion may be stopped anywhere (src/ceres/ini.c, json.c, utf8.c, src/wchar.c).
TextsReadBack ==
    CASE kind = "ini" -> In!SettingsKept /\ In!ReadsBack
      [] kind = "json" -> Js!WrittenReadsBack /\ Js!SearchesReach /\ Js!SmallArraysSaySo
      [] kind = "utf8" -> Ut!OnlyUtf8IsRead /\ Ut!PiecesAddUp
      [] OTHER -> TRUE

\* What is compressed comes back, nothing is written past the room there is, and frames stand each for itself; a resource
\* is read whole and as it was stored, or refused for a reason of its own (src/ceres/lz.c, pack.c).
PackingHolds ==
    CASE kind = "lz" -> Lz_!PacksBack /\ Lz_!StaysInRoom /\ Lz_!FramesStandAlone
      [] kind = "pack" -> Pa!PackReadsRight
      [] OTHER -> TRUE

\* Both sorts sort, the stable one stably or, when it has no memory for it, not at all (src/qsort.c, src/ceres/sort.c).
Sorted == kind = "sorts" => So!Sorted

\* Days, dates and stamps agree (src/time.c).
CalendarHolds == kind = "calendar" => Ca!CalendarHolds /\ Ca!StampFits /\ Ca!SleepLastsAsAsked

\* Integers are read and printed exactly; floating-point numbers are read as the nearest there is, and the digits
\* printed are theirs (src/strtox.c, src/format.c, src/scanf.c, src/fconv.c).
NumbersHold ==
    CASE kind = "numbers" -> Nu!ReadsExactly /\ Nu!ReadsBack /\ Nu!FieldIsANumber
      [] kind = "floats" -> Fl!ReadsNearest /\ Fl!PrintsExactly /\ Fl!ShortestReadsBack /\ Fl!OthersFit
      [] OTHER -> TRUE

\* "A number laid out as prefix, body, `zeros` zero digits, then tail, padded to `width`" (src/format.c:237-238):
\* a number that %g prints is as wide as asked, or as its text.
GeneralFits == kind = "floats" => Fl!GeneralFits
=============================================================================
