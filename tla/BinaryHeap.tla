----------------------------- MODULE BinaryHeap -----------------------------
(***************************************************************************)
(* The binary heap of src/ceres/ds/heap_priv.h as src/ceres/ds/iheap.c     *)
(* uses it, with a handle to every element, and as src/ceres/ds/pqueue.c   *)
(* does, without.                                                          *)
(*                                                                         *)
(* "told" and "waiting" are not in the code: the elements that are in the  *)
(* two heaps as the callers know of them, the second a bag.                *)
(***************************************************************************)
EXTENDS Integers, Sequences, FiniteSetsExt

CONSTANTS Ranks,       \* the elements as cmp compares them, numbers
          MaxHandles,  \* of handles given out: they are never given out again
          MaxWaiting   \* of elements in the pqueue

VARIABLES ih,          \* items and pos by handle, heap the handles by slot
          pq,          \* the pqueue's elements by slot
          told, waiting

vars == <<ih, pq, told, waiting>>

NotInHeap == -1
Size(a) == Cardinality(DOMAIN a)
Exchanged(a, i, j) == [a EXCEPT ![i] = a[j], ![j] = a[i]]
Popped(a) == [i \in 0 .. Size(a) - 2 |-> a[i]]
Pushed(a, x) == [i \in 0 .. Size(a) |-> IF i = Size(a) THEN x ELSE a[i]]

\* HEAP_SIFT_UP and HEAP_SIFT_DOWN, of a heap whose slots hold what "rank" ranks
RECURSIVE SiftUp(_, _, _), SiftDown(_, _, _)
SiftUp(a, i, rank) ==
    LET p == (i - 1) \div 2
    IN  IF i = 0 \/ rank[a[i]] >= rank[a[p]] THEN a ELSE SiftUp(Exchanged(a, i, p), p, rank)
Best(a, rank, i, j) == IF j < Size(a) /\ rank[a[j]] < rank[a[i]] THEN j ELSE i
SiftDown(a, i, rank) ==
    LET best == Best(a, rank, Best(a, rank, i, 2 * i + 1), 2 * i + 2)
    IN  IF best = i THEN a ELSE SiftDown(Exchanged(a, i, best), best, rank)

\* swap_heap keeps pos at where the handles that moved ended up.
Placed(h, a) ==
    [h EXCEPT !.heap = a,
              !.pos = [x \in DOMAIN @ |->
                  LET moved == {i \in DOMAIN a : a[i] = x /\ h.heap[i] # x} IN IF moved = {} THEN @[x] ELSE Max(moved)]]
SiftedUp(h, i) == Placed(h, SiftUp(h.heap, i, h.items))
SiftedDown(h, i) == Placed(h, SiftDown(h.heap, i, h.items))
LastSlot(h) == Size(h.heap) - 1
Swapped(h, i, j) == Placed(h, Exchanged(h.heap, i, j))
Gone(h, x) == [h EXCEPT !.pos[x] = NotInHeap]
Shortened(h) == [h EXCEPT !.heap = Popped(@)]

-----------------------------------------------------------------------------
(* iheap.c *)

NewHandle == Size(ih.items)
PushItem(r) ==
    /\ NewHandle < MaxHandles
    /\ ih' = SiftedUp([items |-> Pushed(ih.items, r), heap |-> Pushed(ih.heap, NewHandle),
                       pos |-> Pushed(ih.pos, Size(ih.heap))], Size(ih.heap))
    /\ told' = Pushed(told, r) /\ UNCHANGED <<pq, waiting>>
\* One of the vectors lacked memory: none has a new element.
PushFails == UNCHANGED vars

Peek(h) == h.heap[0]
PopTop(h, top, last) ==
    IF last = 0 THEN Gone(Shortened(h), top) ELSE SiftedDown(Gone(Shortened(Swapped(h, 0, last)), top), 0)
PopItem ==
    /\ ih.heap # Popped([i \in {0} |-> 0])
    /\ ih' = PopTop(ih, Peek(ih), LastSlot(ih))
    /\ told' = [told EXCEPT ![Peek(ih)] = NotInHeap] /\ UNCHANGED <<pq, waiting>>

InHeap(x) == x \in DOMAIN ih.pos /\ ih.pos[x] # NotInHeap
BothWays(h, x) == LET up == SiftedUp(h, h.pos[x]) IN SiftedDown(up, up.pos[x])
Decrease(x, r) ==
    \/ ~InHeap(x) /\ UNCHANGED vars
    \/ /\ InHeap(x) /\ ih' = BothWays([ih EXCEPT !.items[x] = r], x)
       /\ told' = [told EXCEPT ![x] = r] /\ UNCHANGED <<pq, waiting>>

SiftedAt(h, p) == SiftedDown(SiftedUp(h, p), p)
RemoveAt_(h, p, last) == IF p = last THEN Shortened(h) ELSE SiftedAt(Shortened(Swapped(h, p, last)), p)
Remove_(x) ==
    \/ ~InHeap(x) /\ UNCHANGED vars
    \/ /\ InHeap(x) /\ ih' = Gone(RemoveAt_(ih, ih.pos[x], LastSlot(ih)), x)
       /\ told' = [told EXCEPT ![x] = NotInHeap] /\ UNCHANGED <<pq, waiting>>

-----------------------------------------------------------------------------
(* pqueue.c: the elements themselves lie in the slots *)

Self == [r \in Ranks |-> r]
PqPush(r) ==
    /\ Size(pq) < MaxWaiting /\ pq' = SiftUp(Pushed(pq, r), Size(pq), Self)
    /\ waiting' = [waiting EXCEPT ![r] = @ + 1] /\ UNCHANGED <<ih, told>>
PqPop ==
    /\ Size(pq) > 0
    /\ pq' = IF Size(pq) = 1 THEN Popped(pq) ELSE SiftDown(Popped(Exchanged(pq, 0, Size(pq) - 1)), 0, Self)
    /\ waiting' = [waiting EXCEPT ![pq[0]] = @ - 1] /\ UNCHANGED <<ih, told>>
PqClear == pq' = [i \in {} |-> 0] /\ waiting' = [r \in Ranks |-> 0] /\ UNCHANGED <<ih, told>>

Nothing == [i \in {} |-> 0]
Init == /\ ih = [items |-> Nothing, heap |-> Nothing, pos |-> Nothing] /\ told = Nothing
        /\ pq = Nothing /\ waiting = [r \in Ranks |-> 0]
NextHandles == \/ PushFails \/ PopItem
               \/ \E r \in Ranks : PushItem(r)
               \/ \E x \in 0 .. MaxHandles : Remove_(x) \/ \E r \in Ranks : Decrease(x, r)
NextWaiting == PqPop \/ PqClear \/ \E r \in Ranks : PqPush(r)
Next == NextHandles \/ NextWaiting
Spec == Init /\ [][Next]_vars

-----------------------------------------------------------------------------
(* What the heaps promise *)

\* The handles of the heap and their slots find each other, through any mixture of changes, removals and pops;
\* a handle given up stays so, the elements are those their handles were last given, and the first is least.
IsHeap ==
    /\ DOMAIN ih.pos = DOMAIN told
    /\ \A x \in DOMAIN told : IF told[x] = NotInHeap THEN ih.pos[x] = NotInHeap
                              ELSE ih.pos[x] \in DOMAIN ih.heap /\ ih.heap[ih.pos[x]] = x /\ ih.items[x] = told[x]
    /\ \A i \in DOMAIN ih.heap : ih.pos[ih.heap[i]] = i /\ ih.items[ih.heap[0]] <= ih.items[ih.heap[i]]

\* What the pqueue holds is what was pushed and not popped, and the least leaves first.
PqHolds ==
    /\ \A r \in Ranks : Cardinality({i \in DOMAIN pq : pq[i] = r}) = waiting[r]
    /\ \A i \in DOMAIN pq : pq[0] <= pq[i]
=============================================================================
