------------------------------- MODULE Vector -------------------------------
(***************************************************************************)
(* The growable array of src/ceres/ds/vector.c, and the map by bisection   *)
(* of src/ceres/ds/flatmap.c in one.                                       *)
(*                                                                         *)
(* What lies past "len" is not kept: the code reads it nowhere.  "told" is *)
(* not in the code: the elements, or the pairs, its answers let the caller *)
(* believe are there.                                                      *)
(***************************************************************************)
EXTENDS Integers, Sequences, SequencesExt

CONSTANTS Items,       \* the elements, or the keys, numbers
          Values,      \* of a map; of an array's elements it is the same one
          MaxCap,      \* more elements do not fit a size_t
          Ordered      \* used as a flatmap, or as an array

VARIABLES vec, told

vars == <<vec, told>>

Free_ == [data |-> <<>>, cap |-> 0]
Pair(k, v) == [key |-> k, value |-> v]
Pairs == {Pair(k, v) : k \in Items, v \in Values}
Length(v) == Len(v.data)

\* vector_reserve and make_room_for_one, with memory or without
Reserved(v, cap) == [v EXCEPT !.cap = IF cap <= @ THEN @ ELSE cap]
Want(v) == IF v.cap = 0 THEN 4 ELSE v.cap * 2
Room(v) == IF Length(v) < v.cap THEN v ELSE Reserved(v, Want(v))
MayGrow(v) == Length(v) < v.cap \/ Want(v) <= MaxCap

\* The elements from i on move one up, or those past i one down (memmove; a copy from the low end would smear).
ShiftedSmeared(v, i, item) ==
    [v EXCEPT !.data = [j \in 1 .. Len(@) + 1 |-> IF j <= i THEN @[j] ELSE IF j = i + 1 THEN item ELSE @[i + 1]]]
Shifted(v, i, item) ==
    [v EXCEPT !.data = [j \in 1 .. Len(@) + 1 |-> IF j <= i THEN @[j] ELSE IF j = i + 1 THEN item ELSE @[j - 1]]]
Closed(v, i) == [v EXCEPT !.data = [j \in 1 .. Len(@) - 1 |-> IF j <= i THEN @[j] ELSE @[j + 1]]]

\* bisect: where the key is or belongs
Place(found, at) == [found |-> found, at |-> at]
RECURSIVE Bisect(_, _, _, _)
Bisect(v, k, lo, hi) ==
    LET mid == lo + (hi - lo) \div 2
    IN  IF lo >= hi THEN Place(FALSE, lo)
        ELSE IF k = v.data[mid + 1].key THEN Place(TRUE, mid)
        ELSE IF k < v.data[mid + 1].key THEN Bisect(v, k, lo, mid)
        ELSE Bisect(v, k, mid + 1, hi)
Search(v, k) == Bisect(v, k, 0, Length(v))

-----------------------------------------------------------------------------
(* The calls of an array: each may lack memory where it grows *)

Push(x) == MayGrow(vec) /\ vec' = [Room(vec) EXCEPT !.data = Append(@, x)] /\ told' = Append(told, x)
Insert(i, x) == /\ i <= Length(vec) /\ MayGrow(vec)
                /\ vec' = Shifted(Room(vec), i, x) /\ told' = InsertAt(told, i + 1, x)
Remove_(i) == i < Length(vec) /\ vec' = Closed(vec, i) /\ told' = RemoveAt(told, i + 1)
Pop == Length(vec) > 0 /\ vec' = [vec EXCEPT !.data = Front(@)] /\ told' = Front(told)
Reserve(cap) == cap <= MaxCap /\ vec' = Reserved(vec, cap) /\ UNCHANGED told
Clear == vec' = [vec EXCEPT !.data = <<>>] /\ told' = <<>>
Free == vec' = Free_ /\ told' = <<>>
\* No memory, a size that does not fit, an index past the end, nothing to pop
Fails == UNCHANGED vars

(* The calls of a map *)

Set(k, v) ==
    \/ /\ Search(vec, k).found
       /\ vec' = [vec EXCEPT !.data[Search(vec, k).at + 1] = Pair(k, v)]
       /\ told' = [i \in DOMAIN told |-> IF told[i].key = k THEN Pair(k, v) ELSE told[i]]
    \/ /\ ~Search(vec, k).found /\ MayGrow(vec)
       /\ vec' = Shifted(Room(vec), Search(vec, k).at, Pair(k, v))
       /\ told' = SelectSeq(told, LAMBDA p : p.key < k) \o <<Pair(k, v)>> \o SelectSeq(told, LAMBDA p : p.key > k)
RemoveKey(k) ==
    Search(vec, k).found /\ vec' = Closed(vec, Search(vec, k).at) /\ told' = SelectSeq(told, LAMBDA p : p.key # k)

Init == vec = Free_ /\ told = <<>>
Next == \/ ~Ordered /\ \/ \E x \in Pairs, i \in 0 .. MaxCap : Push(x) \/ Insert(i, x) \/ Remove_(i) \/ Reserve(i)
                       \/ Pop
        \/ Ordered /\ \E k \in Items : RemoveKey(k) \/ \E v \in Values : Set(k, v)
        \/ Clear \/ Free \/ Fails
Spec == Init /\ [][Next]_vars

-----------------------------------------------------------------------------
(* What the array and the map promise *)

\* The elements are those put in, where they were put in; a map's are in the order of the keys, no key twice,
\* and every key's is found.
IsVector ==
    /\ vec.data = told /\ Length(vec) <= vec.cap /\ vec.cap <= MaxCap
    /\ Ordered => \A k \in Items : LET r == Search(vec, k)
                                   IN  /\ r.found <=> \E i \in DOMAIN told : told[i].key = k
                                       /\ r.found => told[r.at + 1].key = k

-----------------------------------------------------------------------------
\* The growing string of src/ceres/ds/strbuf.c: its lengths.  "told" is
\* not in the code: how many characters the caller has put in.

CONSTANTS Top,         \* 2^32 - 1, the largest length
          MinCap,      \* 16
          Extras,      \* how much is appended
          Memory       \* more does not fit the heap

VARIABLE sb

textVars == <<sb, told>>

NoText == [allocated |-> FALSE, len |-> 0, cap |-> 0, nul |-> 0]

\* grow: room for the characters and the NUL, doubling, up to just what is needed where doubling would wrap
RECURSIVE Doubled(_, _)
Doubled(cap, need) ==
    IF cap >= need THEN cap ELSE IF cap > Top \div 2 THEN need ELSE Doubled(cap * 2, need)
Need(extra) == sb.len + extra + 1
NewCap(extra) == IF Need(extra) <= sb.cap THEN sb.cap ELSE Doubled(IF sb.cap = 0 THEN MinCap ELSE sb.cap, Need(extra))
TextMayGrow(extra) == extra <= Top - sb.len - 1 /\ (Need(extra) <= sb.cap \/ NewCap(extra) <= Memory)

\* sb_append_n, sb_append, sb_append_char and sb_appendf, which knows its length from a first pass
AppendText(n) ==
    /\ TextMayGrow(n) /\ sb' = [allocated |-> TRUE, len |-> sb.len + n, cap |-> NewCap(n), nul |-> sb.len + n]
    /\ told' = told + n
TextFails == UNCHANGED textVars
ClearText == sb' = [sb EXCEPT !.len = 0, !.nul = 0] /\ told' = 0
\* sb_free, or sb_take, after which the caller frees the memory
Leave == sb' = NoText /\ told' = 0

InitText == sb = NoText /\ told = 0
NextText == (\E n \in Extras : AppendText(n)) \/ TextFails \/ ClearText \/ Leave

\* The memory has room for the characters and their NUL, which is where they end, at the largest lengths too.
IsString == /\ sb.len = told /\ sb.nul = sb.len /\ (sb.allocated => sb.len + 1 <= sb.cap /\ sb.cap <= Memory)
            /\ sb.cap <= Top
=============================================================================
