-------------------------------- MODULE Trie --------------------------------
(***************************************************************************)
(* The trie of src/ceres/ds/trie.c: nodes from a pool of fixed size, each  *)
(* with its children in a list kept sorted.                                *)
(*                                                                         *)
(* A node is named by the characters that lead to it, its children by      *)
(* their character.  "told" is not in the code: the words its answers let  *)
(* the caller believe are there.                                           *)
(***************************************************************************)
EXTENDS Integers, Sequences, FiniteSets, SequencesExt

CONSTANTS Chars,       \* numbers, as they compare
          MaxLength,   \* of the words the caller uses
          Values,
          MaxNodes,    \* the pool's
          WalkBuf      \* TRIE_WALK_BUF

VARIABLES trie, told

vars == <<trie, told>>

None == 0
Root == <<>>
NewNode == [children |-> <<>>, value |-> None]
Empty == [p \in {Root} |-> NewNode]
Words == BoundedSeq(Chars, MaxLength)

\* find_child: the scan stops at the first greater character.
RECURSIVE ScanFor(_, _)
ScanFor(children, ch) ==
    IF children = <<>> \/ Head(children) > ch THEN FALSE ELSE Head(children) = ch \/ ScanFor(Tail(children), ch)
HasChild(t, p, ch) == ScanFor(t[p].children, ch)

\* insert_child_sorted
Sorted(children, ch) == SelectSeq(children, LAMBDA c : c < ch) \o <<ch>> \o SelectSeq(children, LAMBDA c : c >= ch)
WithChild(t, p, ch) ==
    [q \in DOMAIN t \cup {p \o <<ch>>} |->
        IF q = p \o <<ch>> THEN NewNode ELSE IF q = p THEN [t[p] EXCEPT !.children = Sorted(@, ch)] ELSE t[q]]

\* trie_insert from the node at p, down the rest of the key: it fails where the pool has no node left, and
\* what it added above stays.
PoolIsEmpty(t) == Cardinality(DOMAIN t \ {Root}) = MaxNodes
Outcome(t, ok) == [trie |-> t, ok |-> ok]
RECURSIVE InsertFrom(_, _, _, _)
InsertFrom(t, p, rest, v) ==
    IF rest = <<>> THEN Outcome([t EXCEPT ![p].value = v], TRUE)
    ELSE IF HasChild(t, p, Head(rest)) THEN InsertFrom(t, p \o <<Head(rest)>>, Tail(rest), v)
    ELSE IF PoolIsEmpty(t) THEN Outcome(t, FALSE)
    ELSE InsertFrom(WithChild(t, p, Head(rest)), p \o <<Head(rest)>>, Tail(rest), v)

RECURSIVE LeadsTo(_, _, _)
LeadsTo(t, p, rest) == rest = <<>> \/ (HasChild(t, p, Head(rest)) /\ LeadsTo(t, p \o <<Head(rest)>>, Tail(rest)))
HasPrefix(t, w) == LeadsTo(t, Root, w)
Find(t, w) == IF HasPrefix(t, w) THEN t[w].value ELSE None

\* walk, and trie_each_prefix: words too long for the buffer are left out.
RECURSIVE WalkNode(_, _), WalkChildren(_, _, _)
WalkNode(t, p) == (IF t[p].value # None THEN <<p>> ELSE <<>>) \o WalkChildren(t, p, t[p].children)
WalkChildren(t, p, children) ==
    IF children = <<>> \/ Len(p) + 1 >= WalkBuf THEN <<>>
    ELSE WalkNode(t, p \o <<Head(children)>>) \o WalkChildren(t, p, Tail(children))
EachPrefix(t, w) == IF ~HasPrefix(t, w) \/ Len(w) >= WalkBuf THEN <<>> ELSE WalkNode(t, w)

Init == trie = Empty /\ told = [w \in {} |-> None]
Insert(w, v) ==
    LET r == InsertFrom(trie, Root, w, v)
    IN  /\ trie' = r.trie
        /\ told' = IF r.ok THEN [x \in DOMAIN told \cup {w} |-> IF x = w THEN v ELSE told[x]] ELSE told
Clear == trie' = Empty /\ told' = [w \in {} |-> None]

Next == Clear \/ \E w \in Words, v \in Values : Insert(w, v)
Spec == Init /\ [][Next]_vars

-----------------------------------------------------------------------------
(* What the trie promises *)

RECURSIVE Before(_, _)
Before(a, b) ==
    b # <<>> /\ (a = <<>> \/ Head(a) < Head(b) \/ (Head(a) = Head(b) /\ Before(Tail(a), Tail(b))))

\* Every word is found with its last value and nothing else is, insertions that ran out of nodes half way
\* notwithstanding; and the words with a prefix are met in order, those longer than the buffer left out.
IsDictionary ==
    \A w \in Words :
        /\ Find(trie, w) = IF w \in DOMAIN told THEN told[w] ELSE None
        /\ (\E x \in DOMAIN told : IsPrefix(w, x)) => HasPrefix(trie, w)
        /\ EachPrefix(trie, w) =
              SetToSortSeq({x \in DOMAIN told : IsPrefix(w, x) /\ Len(x) < WalkBuf}, Before)
=============================================================================
