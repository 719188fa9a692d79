-------------------------------- MODULE Ini --------------------------------
(***************************************************************************)
(* Settings files (src/ceres/ini.c): a document of entries, the text they  *)
(* are written as, and the reading of any text.  Characters are strings of *)
(* one character, "nl" and "tab" among them; "N" is the capital of "n".    *)
(***************************************************************************)
EXTENDS Integers, SequencesExt

CONSTANTS
    Names,             \* the section and key names the program uses
    Values,            \* the values it sets
    Texts,             \* the files it finds
    LineMax,           \* LINE_MAX_BYTES
    MaxEntries         \* bound: the entries of a document

VARIABLES
    doc,               \* [entries, bad]: struct ini, and what the last reading returned
    told               \* the value each <<section, key>> was last given

vars == <<doc, told>>

Blanks == {" ", "tab"}
Blank(c) == c \in Blanks
Lower(s) == [i \in DOMAIN s |-> IF s[i] = "N" THEN "n" ELSE s[i]]
SameName(s, t) == Lower(s) = Lower(t)          \* strcasecmp

\* trim
Trim(s) ==
    LET ink == {i \in DOMAIN s : ~Blank(s[i])}
    IN IF ink = {} THEN <<>> ELSE SubSeq(s, Min(ink), Max(ink))

FirstAt(s, cs) == LET at == {i \in DOMAIN s : s[i] \in cs} IN IF at = {} THEN 0 ELSE Min(at)

-----------------------------------------------------------------------------
NoValue == [ok |-> FALSE, v |-> <<>>]
Meant(e) == CASE e = "n" -> "nl" [] e = "t" -> "tab" [] OTHER -> e
RECURSIVE Unquoted(_, _)
Unquoted(s, v) ==
    IF s = <<>> THEN NoValue
    ELSE IF s[1] = "\"" THEN LET rest == Trim(Tail(s)) IN [ok |-> rest = <<>> \/ rest[1] \in {";", "#"}, v |-> v]
    ELSE IF s[1] = "\\" /\ Len(s) > 1 THEN Unquoted(SubSeq(s, 3, Len(s)), Append(v, Meant(s[2])))
    ELSE Unquoted(Tail(s), Append(v, s[1]))

Comments(s) == {i \in 2 .. Len(s) : s[i] \in {";", "#"} /\ Blank(s[i - 1])}
ValueOf(line) ==
    LET s == Trim(line)
    IN IF s # <<>> /\ s[1] = "\"" THEN Unquoted(Tail(s), <<>>)
       ELSE [ok |-> TRUE, v |-> Trim(IF Comments(s) = {} THEN s ELSE SubSeq(s, 1, Min(Comments(s)) - 1))]

-----------------------------------------------------------------------------
AtEntry(es, section, key) == SelectInSeq(es, LAMBDA e : SameName(e.section, section) /\ SameName(e.key, key))

NeedsQuotes(v) ==
    /\ v # <<>>
    /\ \/ Blank(v[1]) \/ Blank(v[Len(v)]) \/ v[1] = "\""
       \/ "nl" \in ToSet(v)
       \/ Comments(v) # {}
EscapedQuotesOnly(c) == IF c = "\"" THEN <<"\\", c>> ELSE <<c>>
Escaped(c) ==
    CASE c \in {"\"", "\\"} -> <<"\\", c>> [] c = "nl" -> <<"\\", "n">> [] c = "tab" -> <<"\\", "t">> [] OTHER -> <<c>>
Written(v) ==
    IF NeedsQuotes(v) THEN <<"\"">> \o FlattenSeq([i \in DOMAIN v |-> Escaped(v[i])]) \o <<"\"">> ELSE v

Writable(s, isKey) ==
    /\ isKey => s # <<>> /\ s[1] \notin {"[", ";", "#"}
    /\ s # <<>> => ~Blank(s[1]) /\ ~Blank(s[Len(s)])
    /\ ToSet(s) \cap (IF isKey THEN {"nl", "=", ":"} ELSE {"nl", "]"}) = {}
MaySet(section, key, v) ==
    /\ Writable(section, FALSE) /\ Writable(key, TRUE)
    /\ Len(section) + 2 < LineMax /\ Len(key) + 3 + Len(Written(v)) < LineMax

\* ini_set on a list of entries
Put(es, section, key, v) ==
    LET at == AtEntry(es, section, key)
    IN IF at # 0 THEN [es EXCEPT ![at].value = v] ELSE Append(es, [section |-> section, key |-> key, value |-> v])

-----------------------------------------------------------------------------
RECURSIVE Lines(_)
Lines(text) ==
    LET nl == FirstAt(text, {"nl"})
    IN IF text = <<>> THEN <<>>
       ELSE IF nl = 0 THEN <<text>>
       ELSE <<SubSeq(text, 1, nl - 1)>> \o Lines(SubSeq(text, nl + 1, Len(text)))

\* One line of ini_parse, its visitor that of ini_read: "now" is the section, the entries, the line's number and errors.
BadLine(now) == [now EXCEPT !.bad = IF @ = 0 THEN now.line + 1 ELSE @]
SectionLine(now, s) ==
    LET close == FirstAt(s, {"]"})
    IN IF close = 0 THEN BadLine(now) ELSE [now EXCEPT !.section = Trim(SubSeq(s, 2, close - 1))]
KeyLine(now, s) ==
    LET eq == FirstAt(s, {"=", ":"})
        key == Trim(SubSeq(s, 1, eq - 1))
        value == ValueOf(SubSeq(s, eq + 1, Len(s)))
    IN IF eq = 0 \/ key = <<>> \/ ~value.ok THEN BadLine(now)
       ELSE IF ~MaySet(now.section, key, value.v) THEN [now EXCEPT !.stopped = TRUE]
       ELSE [now EXCEPT !.entries = Put(@, now.section, key, value.v)]
ReadLine(now, line) ==
    LET s == Trim(line)
        after ==
            IF Len(s) >= LineMax THEN BadLine(now)
            ELSE IF s = <<>> \/ s[1] \in {";", "#"} THEN now
            ELSE IF s[1] = "[" THEN SectionLine(now, s)
            ELSE KeyLine(now, s)
    IN IF now.stopped THEN now ELSE [after EXCEPT !.line = now.line + 1]
Read(es, text) ==
    FoldLeft(ReadLine, [section |-> <<>>, entries |-> es, line |-> 0, bad |-> 0, stopped |-> FALSE], Lines(text))
Loaded(es, text) == LET r == Read(es, text) IN [entries |-> r.entries, bad |-> IF r.stopped THEN -1 ELSE r.bad]

\* ini_write: by sections, in the order they first came.
EntryLine(e) == e.key \o <<" ", "=">> \o (IF e.value = <<>> THEN <<>> ELSE <<" ">> \o Written(e.value)) \o <<"nl">>
Starts(es) == {i \in DOMAIN es : \A j \in 1 .. (i - 1) : ~SameName(es[j].section, es[i].section)}
SectionText(es, i) ==
    LET mine == SelectSeq(es, LAMBDA e : SameName(e.section, es[i].section))
        header == IF es[i].section = <<>> /\ i = 1 THEN <<>>
                  ELSE (IF i > 1 THEN <<"nl">> ELSE <<>>) \o <<"[">> \o es[i].section \o <<"]", "nl">>
    IN header \o FlattenSeq([k \in DOMAIN mine |-> EntryLine(mine[k])])
Write(es) == FlattenSeq([i \in DOMAIN es |-> IF i \in Starts(es) THEN SectionText(es, i) ELSE <<>>])

-----------------------------------------------------------------------------
Places == {Lower(s) : s \in Names \cup {<<>>}} \X {Lower(s) : s \in Names}
Nothing == <<"unset">>
Get(es, place) == LET at == AtEntry(es, place[1], place[2]) IN IF at = 0 THEN Nothing ELSE es[at].value

Init == doc = [entries |-> <<>>, bad |-> 0] /\ told = [p \in Places |-> Nothing]

Set(section, key, v) ==
    /\ MaySet(section, key, v)
    /\ AtEntry(doc.entries, section, key) # 0 \/ Len(doc.entries) < MaxEntries
    /\ doc' = [doc EXCEPT !.entries = Put(@, section, key, v)]
    /\ told' = [told EXCEPT ![<<Lower(section), Lower(key)>>] = v]
Unset(section, key) ==
    LET at == AtEntry(doc.entries, section, key)
    IN /\ at # 0
       /\ doc' = [doc EXCEPT !.entries = RemoveAt(@, at)]
       /\ told' = [told EXCEPT ![<<Lower(section), Lower(key)>>] = Nothing]
\* ini_load of a file somebody else wrote, into an empty document
Load(text) ==
    /\ doc.entries = <<>>
    /\ doc' = Loaded(<<>>, text)
    /\ told' = [p \in Places |-> Get(doc'.entries, p)]
\* ini_save, ini_free, and ini_load of the same file
Reload == doc' = Loaded(<<>>, Write(doc.entries)) /\ UNCHANGED told

Next ==
    \/ \E section \in Names \cup {<<>>}, key \in Names :
        Unset(section, key) \/ (\E v \in Values : Set(section, key, v))
    \/ \E text \in Texts : Load(text)
    \/ doc.entries # <<>> /\ Reload
Spec == Init /\ [][Next]_vars

\* Settings are what they were last set to, under their names in any case, also after ini_save and ini_load.
SettingsKept == \A p \in Places : Get(doc.entries, p) = told[p]

\* What was read without an error is written as a text that reads so, nothing lost and no line bad.
ReadsBack ==
    doc.bad = 0 =>
        LET again == Loaded(<<>>, Write(doc.entries))
        IN /\ again.bad = 0
           /\ Len(again.entries) = Len(doc.entries)
           /\ \A i \in DOMAIN doc.entries :
                LET e == doc.entries[i] IN Get(again.entries, <<e.section, e.key>>) = e.value
=============================================================================
