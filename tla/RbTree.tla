------------------------------- MODULE RbTree -------------------------------
(***************************************************************************)
(* The red-black tree of src/ceres/ds/rbtree.c, on nodes that live inside  *)
(* their owners' objects, and the map of src/ceres/ds/omap.c on it, where  *)
(* a node is allocated for every key and named by it.                      *)
(*                                                                         *)
(* "node" has the fields of the nodes that are in the tree: to read those  *)
(* of a node that is not is an error of the evaluation.  The code's mirror *)
(* images are one definition with a side.  "order" is not in the code: the *)
(* nodes as the callers expect to meet them; nor is "told": the pairs that *)
(* the map's answers let its caller believe are there.                     *)
(***************************************************************************)
EXTENDS Integers, Sequences

CONSTANTS Nodes,       \* the objects, numbers above zero
          Key,         \* what cmp compares of each
          Values       \* the map's

VARIABLES tree, order, values, told

LOCAL Seqs == INSTANCE SequencesExt

vars == <<tree, order>>
mapVars == <<tree, values, told>>

Null == 0
Left == 1
Right == 2
Mirror(s) == 3 - s

Empty == [root |-> Null, count |-> 0, node |-> [n \in {} |-> Null]]
Parent(t, n) == t.node[n].parent
Kid(t, n, s) == t.node[n].kid[s]
IsRed(t, n) == n # Null /\ t.node[n].red

-----------------------------------------------------------------------------
(* Links *)

SideOf(t, n) == IF n = Kid(t, Parent(t, n), Left) THEN Left ELSE Right
SetParent(t, n, p) == IF n = Null THEN t ELSE [t EXCEPT !.node[n].parent = p]

\* v for u, in u's parent's eyes
Instead(t, u, v) ==
    IF Parent(t, u) = Null THEN [t EXCEPT !.root = v]
    ELSE [t EXCEPT !.node[Parent(t, u)].kid[SideOf(t, u)] = v]
Transplant(t, u, v) == SetParent(Instead(t, u, v), v, Parent(t, u))

\* rotate_left and rotate_right: x goes down to side s, the child y on the other side comes up.
Turned(t, x, y, s) ==
    [Transplant(SetParent([t EXCEPT !.node[x].kid[Mirror(s)] = Kid(t, y, s)], Kid(t, y, s), x), x, y)
        EXCEPT !.node[y].kid[s] = x, !.node[x].parent = y]
Rotate(t, x, s) == Turned(t, x, Kid(t, x, Mirror(s)), s)

-----------------------------------------------------------------------------
(* Insertion *)

Blacken(t, n) == IF n = Null THEN t ELSE [t EXCEPT !.node[n].red = FALSE]
Redden(t, n) == [t EXCEPT !.node[n].red = TRUE]

RECURSIVE InsertFixup(_, _)
UnderRed(t, z, p, g, s) ==
    LET uncle == Kid(t, g, Mirror(s))
    IN  IF IsRed(t, uncle) THEN InsertFixup(Redden(Blacken(Blacken(t, p), uncle), g), g)
        ELSE IF z = Kid(t, p, Mirror(s)) THEN InsertFixup(Rotate(t, p, s), p)
        ELSE InsertFixup(Rotate(Redden(Blacken(t, p), g), g, Mirror(s)), z)
InsertFixup(t, z) ==
    IF ~IsRed(t, Parent(t, z)) THEN Blacken(t, t.root)
    ELSE UnderRed(t, z, Parent(t, z), Parent(t, Parent(t, z)), SideOf(t, Parent(t, z)))

\* Down from x, to the right of what is equal.
Under(t, k, x) == IF k < Key[x] THEN Left ELSE Right
RECURSIVE LeafFor(_, _, _)
LeafFor(t, k, x) == IF Kid(t, x, Under(t, k, x)) = Null THEN x ELSE LeafFor(t, k, Kid(t, x, Under(t, k, x)))

Joined(t, z, p) ==
    [t EXCEPT !.node = [n \in DOMAIN @ \cup {z} |->
                           IF n = z THEN [parent |-> p, kid |-> <<Null, Null>>, red |-> TRUE] ELSE @[n]]]
Hung(t, z, p) ==
    IF p = Null THEN [Joined(t, z, p) EXCEPT !.root = z]
    ELSE [Joined(t, z, p) EXCEPT !.node[p].kid[Under(t, Key[z], p)] = z]
Inserted(t, z) ==
    [InsertFixup(Hung(t, z, IF t.root = Null THEN Null ELSE LeafFor(t, Key[z], t.root)), z) EXCEPT !.count = @ + 1]

-----------------------------------------------------------------------------
(* Removal *)

RECURSIVE Furthest(_, _, _)
Furthest(t, x, s) == IF Kid(t, x, s) = Null THEN x ELSE Furthest(t, Kid(t, x, s), s)

\* x, which may be NULL, is one black short under xp, on side s.
RECURSIVE DeleteFixup(_, _, _)
TakesColour(t, w, xp) == [t EXCEPT !.node[w].red = t.node[xp].red]
FarRed(t, w, xp, s) ==
    LET turned == Rotate(Blacken(Blacken(TakesColour(t, w, xp), xp), Kid(t, w, Mirror(s))), xp, s)
    IN  DeleteFixup(turned, turned.root, Null)
BlackSibling(t, x, w, xp, s) ==
    IF ~IsRed(t, Kid(t, w, s)) /\ ~IsRed(t, Kid(t, w, Mirror(s))) THEN DeleteFixup(Redden(t, w), xp, Parent(t, xp))
    ELSE IF IsRed(t, Kid(t, w, Mirror(s))) THEN FarRed(t, w, xp, s)
    ELSE FarRed(Rotate(Redden(Blacken(t, Kid(t, w, s)), w), w, Mirror(s)), Kid(t, w, s), xp, s)
RedSibling(t, x, w, xp, s) == Rotate(Redden(Blacken(t, w), xp), xp, s)
Short(t, x, xp, s) ==
    LET w == Kid(t, xp, Mirror(s))
        u == RedSibling(t, x, w, xp, s)
    IN  IF IsRed(t, w) THEN BlackSibling(u, x, Kid(u, xp, Mirror(s)), xp, s) ELSE BlackSibling(t, x, w, xp, s)
DeleteFixup(t, x, xp) ==
    IF x = t.root \/ IsRed(t, x) THEN Blacken(t, x)
    ELSE Short(t, x, xp, IF x = Kid(t, xp, Left) THEN Left ELSE Right)

\* z's successor y takes z's place.
TakesPlace(t, y, z) ==
    SetParent([Transplant(t, z, y) EXCEPT !.node[y].kid[Left] = Kid(t, z, Left), !.node[y].red = t.node[z].red],
              Kid(t, z, Left), y)
Lifted(t, y, z) ==
    IF Parent(t, y) = z THEN t
    ELSE SetParent([Transplant(t, y, Kid(t, y, Right)) EXCEPT !.node[y].kid[Right] = Kid(t, z, Right)],
                   Kid(t, z, Right), y)
RemoveInner(t, y, z) ==
    LET u == TakesPlace(Lifted(t, y, z), y, z)
    IN  IF t.node[y].red THEN u ELSE DeleteFixup(u, Kid(t, y, Right), IF Parent(t, y) = z THEN y ELSE Parent(t, y))
RemoveOuter(t, z, x) ==
    IF t.node[z].red THEN Transplant(t, z, x) ELSE DeleteFixup(Transplant(t, z, x), x, Parent(t, z))
Unlinked(t, z) ==
    IF Kid(t, z, Left) = Null THEN RemoveOuter(t, z, Kid(t, z, Right))
    ELSE IF Kid(t, z, Right) = Null THEN RemoveOuter(t, z, Kid(t, z, Left))
    ELSE RemoveInner(t, Furthest(t, Kid(t, z, Right), Left), z)
Removed(t, z) ==
    LET u == Unlinked(t, z)
    IN  [u EXCEPT !.count = @ - 1, !.node = [n \in DOMAIN @ \ {z} |-> @[n]]]

-----------------------------------------------------------------------------
(* Search and traversal *)

RECURSIVE FindFrom(_, _, _)
FindFrom(t, k, x) ==
    IF x = Null \/ Key[x] = k THEN x ELSE FindFrom(t, k, Kid(t, x, IF k < Key[x] THEN Left ELSE Right))
Find(t, k) == FindFrom(t, k, t.root)

\* rb_first and rb_last; rb_next and rb_prev: the near end of the subtree on side s, or the first ancestor
\* met from the other side.
End(t, s) == IF t.root = Null THEN Null ELSE Furthest(t, t.root, s)
RECURSIVE Climb(_, _, _)
Climb(t, x, s) ==
    IF Parent(t, x) = Null \/ x # Kid(t, Parent(t, x), s) THEN Parent(t, x) ELSE Climb(t, Parent(t, x), s)
Step(t, n, s) == IF Kid(t, n, s) # Null THEN Furthest(t, Kid(t, n, s), Mirror(s)) ELSE Climb(t, n, s)

RECURSIVE WalkFrom(_, _, _)
WalkFrom(t, n, s) == IF n = Null THEN <<>> ELSE <<n>> \o WalkFrom(t, Step(t, n, s), s)
Walk(t, s) == WalkFrom(t, End(t, Mirror(s)), s)

-----------------------------------------------------------------------------
(* The calls *)

Init == tree = Empty /\ order = <<>>

Insert(z) ==
    /\ z \notin DOMAIN tree.node
    /\ tree' = Inserted(tree, z)
    /\ order' = SelectSeq(order, LAMBDA n : Key[n] <= Key[z]) \o <<z>> \o SelectSeq(order, LAMBDA n : Key[n] > Key[z])
Remove(z) ==
    /\ z \in DOMAIN tree.node
    /\ tree' = Removed(tree, z)
    /\ order' = SelectSeq(order, LAMBDA n : n # z)

Next == \E z \in Nodes : Insert(z) \/ Remove(z)
Spec == Init /\ [][Next]_vars

-----------------------------------------------------------------------------
(* What the tree promises *)

\* The black nodes on every way down from n, or -1 when two ways differ or two reds meet.
RECURSIVE BlackHeight(_, _)
BlackHeight(t, n) ==
    IF n = Null THEN 0
    ELSE LET l == BlackHeight(t, Kid(t, n, Left))
             r == BlackHeight(t, Kid(t, n, Right))
         IN  IF l # r \/ l < 0 \/ (IsRed(t, n) /\ (IsRed(t, Kid(t, n, Left)) \/ IsRed(t, Kid(t, n, Right)))) THEN -1
             ELSE IF IsRed(t, n) THEN l ELSE l + 1

\* "O(log n) guaranteed worst case for insert, remove and find" (rbtree.h): no red node has a red child and
\* all the ways down have as many black nodes, whatever was inserted and removed.
Balanced == ~IsRed(tree, tree.root) /\ BlackHeight(tree, tree.root) >= 0

\* From either end the traversal meets every node once, in order of the keys, equal ones as they came;
\* and what was inserted is found.
InOrder ==
    /\ Walk(tree, Right) = order /\ Walk(tree, Left) = Seqs!Reverse(order) /\ tree.count = Len(order)
    /\ \A z \in Nodes : LET f == Find(tree, Key[z])
                        IN  IF \E i \in DOMAIN order : Key[order[i]] = Key[z]
                            THEN f # Null /\ Key[f] = Key[z] ELSE f = Null

-----------------------------------------------------------------------------
(* omap.c: a node is allocated for every key, and one to search with for every call. *)

None == {}
Has(k) == Find(tree, k) # Null
\* omap_get, with memory for the search
Get(k) == IF Has(k) THEN {values[k]} ELSE None

Believed(k, v) == told' = [j \in DOMAIN told \cup {k} |-> IF j = k THEN v ELSE told[j]]
SetOld(k, v) == Has(k) /\ values' = [values EXCEPT ![k] = v] /\ Believed(k, v) /\ UNCHANGED tree
SetNew(k, v) ==
    /\ ~Has(k) /\ tree' = Inserted(tree, k)
    /\ values' = [j \in DOMAIN values \cup {k} |-> IF j = k THEN v ELSE values[j]] /\ Believed(k, v)
\* No memory to search with, or none for the node
SetFails == UNCHANGED mapVars

Without(f, k) == [j \in DOMAIN f \ {k} |-> f[j]]
RemoveKey(k) ==
    /\ Has(k) /\ tree' = Removed(tree, k)
    /\ values' = Without(values, k) /\ told' = Without(told, k)

\* omap_free: the leaves first, each detached before it goes; -1 is a node read after it was freed.
Detached(t, n, p) ==
    IF p = Null THEN t
    ELSE [t EXCEPT !.node[p].kid[IF Kid(t, p, Left) = n THEN Left ELSE Right] = Null]
RECURSIVE FreedFrom(_, _, _)
FreedFrom(t, n, freed) ==
    IF n = Null THEN freed
    ELSE IF n \in freed THEN {-1}
    ELSE IF Kid(t, n, Left) # Null THEN FreedFrom(t, Kid(t, n, Left), freed)
    ELSE IF Kid(t, n, Right) # Null THEN FreedFrom(t, Kid(t, n, Right), freed)
    ELSE FreedFrom(Detached(t, n, Parent(t, n)), Parent(t, n), freed \cup {n})
Freed == FreedFrom(tree, tree.root, {})
Free == /\ tree' = [Empty EXCEPT !.node = [k \in DOMAIN tree.node \ Freed |-> tree.node[k]]]
        /\ values' = [k \in {} |-> 0] /\ told' = values'

InitMap == tree = Empty /\ values = [k \in {} |-> 0] /\ told = values
NextMap == \/ \E k \in Nodes : RemoveKey(k) \/ \E v \in Values : SetOld(k, v) \/ SetNew(k, v)
           \/ SetFails \/ Free
SpecMap == InitMap /\ [][NextMap]_mapVars

\* Every key is found with its last value, no key has two nodes, the walk meets the keys in order, and
\* omap_free frees every node, none twice and none that it still reads.
IsOrderedMap ==
    /\ \A k \in Nodes : Get(k) = IF k \in DOMAIN told THEN {told[k]} ELSE None
    /\ LET walk == Walk(tree, Right)
       IN  /\ {walk[i] : i \in DOMAIN walk} = DOMAIN told /\ Len(walk) = tree.count
           /\ \A i \in 2 .. Len(walk) : walk[i - 1] < walk[i]
    /\ DOMAIN tree.node = DOMAIN told /\ Freed = DOMAIN told
=============================================================================
