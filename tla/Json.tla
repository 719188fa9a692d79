-------------------------------- MODULE Json --------------------------------
(***************************************************************************)
(* JSON without the heap (src/ceres/json.c): the writer, call by call into *)
(* a buffer of Cap bytes, and the parser, text to tokens.  A word (true,   *)
(* null) is one character of a text, and so is a control character "ctl".  *)
(***************************************************************************)
EXTENDS Integers, SequencesExt

CONSTANTS
    Strings,           \* what the program writes as keys and strings
    Numbers,           \* the texts of the numbers it writes
    Texts,             \* the texts it reads that it has not written
    MaxDepth,          \* JSON_MAX_DEPTH
    Caps,              \* the sizes of its buffers
    MaxCalls           \* bound: the calls on one writer

VARIABLES
    w,                 \* struct json_writer, its buffer unbounded: [cap, text, depth, state, failed]
    told,              \* the calls so far, as the tokens they should read back as, and those still open
    read               \* what json_writer_end and json_parse then said

vars == <<w, told, read>>

Digits == {"0", "1"}
Named == [nl |-> "n", tab |-> "t"]             \* the control characters with an escape of their own
Put4 == <<"\\", "u", "0", "0", "0", "1">>      \* the form of any other

-----------------------------------------------------------------------------
\* json_parse: p is struct parser, [pos, t, max, error, at].
Fail(p, e) == IF p.error = "none" THEN [p EXCEPT !.error = e, !.at = p.pos] ELSE p
AtEnd(s, p) == p.pos > Len(s)
On(s, p, cs) == ~AtEnd(s, p) /\ s[p.pos] \in cs
Skip(p, n) == [p EXCEPT !.pos = @ + n]
RECURSIVE SkipSpace(_, _)
SkipSpace(s, p) == IF On(s, p, {" ", "nl"}) THEN SkipSpace(s, Skip(p, 1)) ELSE p
Token(type, pos) == [type |-> type, start |-> pos, end |-> pos, size |-> 0, skip |-> 1]
NewToken(p, type) == IF Len(p.t) >= p.max THEN Fail(p, "ENOSPC") ELSE [p EXCEPT !.t = Append(@, Token(type, p.pos))]
EndToken(p, i) == [p EXCEPT !.t[i].end = p.pos]

RECURSIVE InString(_, _)
InString(s, p) ==
    IF AtEnd(s, p) \/ s[p.pos] \in {"nl", "tab", "ctl"} THEN Fail(p, "EINVAL")
    ELSE IF s[p.pos] = "\"" THEN p
    ELSE IF s[p.pos] # "\\" THEN InString(s, Skip(p, 1))
    ELSE IF On(s, Skip(p, 1), {"u"})
         THEN IF \A k \in 2 .. 5 : On(s, Skip(p, k), Digits) THEN InString(s, Skip(p, 6)) ELSE Fail(Skip(p, 1), "EINVAL")
    ELSE IF On(s, Skip(p, 1), {"\"", "\\", "n", "t"}) THEN InString(s, Skip(p, 2))
    ELSE Fail(Skip(p, 1), "EINVAL")
ParseString(s, p) ==
    LET q == NewToken(Skip(p, 1), "string")
        r == InString(s, q)
    IN IF q.error # "none" THEN q ELSE IF r.error # "none" THEN r ELSE Skip(EndToken(r, Len(q.t)), 1)

RECURSIVE ManyDigits(_, _)
ManyDigits(s, p) == IF On(s, p, Digits) THEN ManyDigits(s, Skip(p, 1)) ELSE p
SomeDigits(s, p) == IF On(s, p, Digits) THEN ManyDigits(s, p) ELSE Fail(p, "EINVAL")
Fraction(s, p) == IF p.error = "none" /\ On(s, p, {"."}) THEN SomeDigits(s, Skip(p, 1)) ELSE p
Exponent(s, p) ==
    IF p.error # "none" \/ ~On(s, p, {"e"}) THEN p
    ELSE SomeDigits(s, IF On(s, Skip(p, 1), {"+", "-"}) THEN Skip(p, 2) ELSE Skip(p, 1))
ParseNumber(s, p) ==
    LET q == NewToken(p, "number")
        sign == IF s[p.pos] = "-" THEN Skip(q, 1) ELSE q
        whole == IF On(s, sign, {"0"}) THEN Skip(sign, 1) ELSE SomeDigits(s, sign)
        r == Exponent(s, Fraction(s, whole))
    IN IF q.error # "none" THEN q ELSE IF r.error # "none" THEN r ELSE EndToken(r, Len(q.t))
ParseWord(s, p) ==
    LET q == NewToken(p, s[p.pos]) IN IF q.error # "none" THEN q ELSE EndToken(Skip(q, 1), Len(q.t))

\* ok(p) and what comes after it: the early returns of the parser
Then(p, Rest(_)) == IF p.error # "none" THEN p ELSE Rest(p)
Expect(s, p, c) == Then(p, LAMBDA q : LET r == SkipSpace(s, q) IN IF On(s, r, {c}) THEN r ELSE Fail(r, "EINVAL"))

RECURSIVE ParseValue(_, _, _), Members(_, _, _, _, _)
Bracket(object) == IF object THEN "}" ELSE "]"
Closed(r, i) == IF r.error # "none" THEN r ELSE [r EXCEPT !.t[i].end = r.pos, !.t[i].skip = Len(r.t) - i + 1]
Inside(s, p, depth, i, object) ==
    Closed(IF On(s, p, {Bracket(object)}) THEN Skip(p, 1) ELSE Members(s, p, depth, i, object), i)
ParseContainer(s, p, depth, object) ==
    LET q == NewToken(p, IF object THEN "object" ELSE "array")
    IN IF depth >= MaxDepth THEN Fail(p, "EINVAL")
       ELSE Then(q, LAMBDA r : Inside(s, SkipSpace(s, Skip(r, 1)), depth, Len(r.t), object))
NextMember(s, p, depth, i, object) ==
    IF On(s, p, {Bracket(object)}) THEN Skip(p, 1)
    ELSE IF On(s, p, {","}) THEN Members(s, Skip(p, 1), depth, i, object)
    ELSE Fail(p, "EINVAL")
Members(s, p, depth, i, object) ==
    LET key == IF object THEN Then(Expect(s, p, "\""), LAMBDA q : ParseString(s, q)) ELSE p
        value == IF object THEN Then(Expect(s, key, ":"), LAMBDA q : Skip(q, 1)) ELSE key
    IN Then(Then(value, LAMBDA q : ParseValue(s, q, depth + 1)),
            LAMBDA r : NextMember(s, SkipSpace(s, [r EXCEPT !.t[i].size = @ + 1]), depth, i, object))
ParseValue(s, before, depth) ==
    LET p == SkipSpace(s, before)
    IN IF On(s, p, {"{", "["}) THEN ParseContainer(s, p, depth, s[p.pos] = "{")
       ELSE IF On(s, p, {"\""}) THEN ParseString(s, p)
       ELSE IF On(s, p, Digits \cup {"-"}) THEN ParseNumber(s, p)
       ELSE IF On(s, p, {"true", "null"}) THEN ParseWord(s, p)
       ELSE Fail(p, "EINVAL")
Parse(s, max) ==
    LET p == ParseValue(s, [pos |-> 1, t |-> <<>>, max |-> max, error |-> "none", at |-> 0], 0)
        q == SkipSpace(s, p)
    IN IF p.error = "none" /\ ~AtEnd(s, q) THEN Fail(q, "EINVAL") ELSE q

-----------------------------------------------------------------------------
\* unescape_next, over a whole string token: its value.
RECURSIVE Unescaped(_)
Unescaped(s) ==
    IF s = <<>> THEN <<>>
    ELSE IF s[1] # "\\" THEN <<s[1]>> \o Unescaped(Tail(s))
    ELSE IF s[2] = "u" THEN <<IF SubSeq(s, 1, 6) = Put4 THEN "ctl" ELSE "other">> \o Unescaped(SubSeq(s, 7, Len(s)))
    ELSE <<CASE s[2] = "n" -> "nl" [] s[2] = "t" -> "tab" [] OTHER -> s[2]>> \o Unescaped(SubSeq(s, 3, Len(s)))
Value(s, t, i) == SubSeq(s, t[i].start, t[i].end - 1)
Equals(s, t, i, key) == t[i].type = "string" /\ Unescaped(Value(s, t, i)) = key

RECURSIVE FindFrom(_, _, _, _, _)
FindFrom(s, t, i, k, key) ==
    IF k = 0 THEN 0
    ELSE IF Equals(s, t, i, key) THEN i + 1
    ELSE FindFrom(s, t, i + 1 + t[i + 1].skip, k - 1, key)
Find(s, t, object, key) == IF t[object].type # "object" THEN 0 ELSE FindFrom(s, t, object + 1, t[object].size, key)
RECURSIVE IndexFrom(_, _, _)
IndexFrom(t, at, i) == IF i = 0 THEN at ELSE IndexFrom(t, at + t[at].skip, i - 1)
Index(t, array, i) == IF t[array].type # "array" \/ i >= t[array].size THEN 0 ELSE IndexFrom(t, array + 1, i)

-----------------------------------------------------------------------------
\* The writer.  A level is [kind, last]: the bits of its state byte.
Level(kind) == [kind |-> kind, last |-> "none"]
Emit(o, s) == [o EXCEPT !.text = @ \o s]
Now(o) == o.state[o.depth + 1]
Wrote(o, what) == [o EXCEPT !.state[o.depth + 1].last = what]
Failed(o) == [o EXCEPT !.failed = TRUE]
BeforeValue(o) ==
    Wrote(CASE Now(o).kind = "top" /\ Now(o).last = "value" -> Failed(o)
            [] Now(o).kind = "object" /\ Now(o).last # "key" -> Failed(o)
            [] Now(o).kind = "array" /\ Now(o).last = "value" -> Emit(o, <<",">>)
            [] OTHER -> o, "value")
OpenLevel(o, kind) ==
    LET in == Emit(BeforeValue(o), IF kind = "object" THEN <<"{">> ELSE <<"[">>)
    IN IF in.depth + 1 > MaxDepth THEN Failed(in)
       ELSE [in EXCEPT !.depth = @ + 1, !.state = Append(SubSeq(@, 1, in.depth + 1), Level(kind))]
CloseLevel(o, kind) ==
    IF o.depth = 0 \/ Now(o).kind # kind \/ Now(o).last = "key" THEN Failed(o)
    ELSE Emit([o EXCEPT !.depth = @ - 1], IF kind = "object" THEN <<"}">> ELSE <<"]">>)
Quote(c) ==
    CASE c \in {"\"", "\\"} -> <<"\\", c>> [] c \in DOMAIN Named -> <<"\\", Named[c]>> [] c = "ctl" -> Put4 [] OTHER -> <<c>>
Quoted(v) == <<"\"">> \o FlattenSeq([i \in DOMAIN v |-> Quote(v[i])]) \o <<"\"">>
WriteKey(o, key) ==
    IF Now(o).kind # "object" \/ Now(o).last = "key" THEN Failed(o)
    ELSE Wrote(Emit(o, (IF Now(o).last = "value" THEN <<",">> ELSE <<>>) \o Quoted(key) \o <<":">>), "key")

\* json_writer_end: the bytes in the buffer, or why there are none
Ended(o) ==
    IF o.failed \/ o.depth # 0 \/ o.state[1].last # "value" THEN "EINVAL"
    ELSE IF Len(o.text) >= o.cap THEN "ENOSPC" ELSE "whole"

-----------------------------------------------------------------------------
\* told: [t, open]: tokens [type, size, skip, value, parent], the containers open, innermost last.
Parent == IF told.open = <<>> THEN 0 ELSE Last(told.open)
Note(type, v) == [type |-> type, size |-> 0, skip |-> 1, value |-> v, parent |-> Parent]
Counted == IF Parent = 0 THEN told.t ELSE [told.t EXCEPT ![Parent].size = @ + 1]
Told(t) == told' = [told EXCEPT !.t = t]

Init ==
    /\ \E cap \in Caps : w = [cap |-> cap, text |-> <<>>, depth |-> 0, state |-> <<Level("top")>>, failed |-> FALSE]
    /\ told = [t |-> <<>>, open |-> <<>>, calls |-> 0]
    /\ read = [end |-> "none"]

Begin(kind) ==
    /\ w' = OpenLevel(w, kind)
    /\ told' = [told EXCEPT !.t = Append(Counted, Note(kind, <<>>)), !.open = Append(@, Len(told.t) + 1), !.calls = @ + 1]
End(kind) ==
    /\ w' = CloseLevel(w, kind)
    /\ told' = IF Parent = 0 THEN [told EXCEPT !.calls = @ + 1]
               ELSE [told EXCEPT !.t[Parent].skip = Len(told.t) - Parent + 1, !.open = Front(@), !.calls = @ + 1]
Key(v) == w' = WriteKey(w, v) /\ told' = [told EXCEPT !.t = Append(@, Note("string", v)), !.calls = @ + 1]
PutValue(type, text, v) ==
    /\ w' = Emit(BeforeValue(w), text)
    /\ told' = [told EXCEPT !.t = Append(Counted, Note(type, v)), !.calls = @ + 1]
Finish == /\ w' = w /\ told' = told
          /\ read' = [end |-> Ended(w), text |-> w.text, p |-> Parse(w.text, Len(told.t))]
\* json_parse of any text, with one token fewer than it takes too
ReadText(text) ==
    /\ told.calls = 0
    /\ read' = [end |-> "text", text |-> text, p |-> Parse(text, Len(text) + 1)]
    /\ UNCHANGED <<w, told>>

Call ==
    \/ \E kind \in {"object", "array"} : Begin(kind) \/ End(kind)
    \/ \E v \in Strings : Key(v) \/ PutValue("string", Quoted(v), v)
    \/ \E n \in Numbers : PutValue("number", n, n)
    \/ PutValue("null", <<"null">>, <<"null">>)
Next ==
    \/ read.end = "none" /\ told.calls < MaxCalls /\ ~w.failed /\ Call /\ UNCHANGED read
    \/ read.end = "none" /\ (Finish \/ (\E text \in Texts : ReadText(text)))
Spec == Init /\ [][Next]_vars

-----------------------------------------------------------------------------
\* What the writer says it wrote whole is read as the values it was given, in their places.
WrittenReadsBack ==
    read.end = "whole" =>
        LET t == read.p.t
        IN /\ read.p.error = "none" /\ Len(t) = Len(told.t)
           /\ \A i \in DOMAIN t :
                /\ t[i].type = told.t[i].type /\ t[i].size = told.t[i].size /\ t[i].skip = told.t[i].skip
                /\ t[i].type \in {"string", "number"} => Unescaped(Value(read.text, t, i)) = told.t[i].value

\* Of a text read, every token lies within its container, and json_find and json_index, which step by the counts
\* kept in the tokens, come to the container's own keys and elements and to no others.
Children(t, i) == {j \in DOMAIN t : j > i /\ j < i + t[i].skip /\ \A k \in (i + 1) .. (j - 1) : k + t[k].skip <= j}
Within(t, i) == \A j \in (i + 1) .. (i + t[i].skip - 1) : t[i].start < t[j].start /\ t[j].end < t[i].end
SearchesReach ==
    read.end \in {"whole", "text"} /\ read.p.error = "none" =>
        LET t == read.p.t
        IN \A i \in DOMAIN t :
            /\ Within(t, i)
            /\ t[i].type = "array" => {Index(t, i, k) : k \in 0 .. (t[i].size - 1)} = Children(t, i)
            /\ t[i].type = "object" =>
                /\ Cardinality(Children(t, i)) = 2 * t[i].size
                /\ \A v \in Strings :
                    LET keys == {j \in Children(t, i) : Equals(read.text, t, j, v) /\ Cardinality(Children(t, i) \cap 1 .. j) % 2 = 1}
                    IN Find(read.text, t, i, v) = IF keys = {} THEN 0 ELSE Min(keys) + 1

\* With an array of tokens too small for it, a text is refused for that and for nothing else.
SmallArraysSaySo ==
    read.end \in {"whole", "text"} /\ read.p.error = "none" =>
        \A max \in 0 .. (Len(read.p.t) - 1) : Parse(read.text, max).error = "ENOSPC"
=============================================================================
