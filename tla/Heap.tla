-------------------------------- MODULE Heap --------------------------------
(***************************************************************************)
(* The allocator of src/malloc.c: blocks with boundary tags that tile the  *)
(* heap, free ones in lists by size class with two levels of bitmaps, as   *)
(* built without CERES_HEAP_DEBUG.                                         *)
(*                                                                         *)
(* Addresses and sizes count units of 8 bytes: a header is one unit, as is *)
(* the smallest payload.  "live" is not in the code: what the program      *)
(* holds; nor is "at": the headers met from the first block on.            *)
(***************************************************************************)
EXTENDS Integers, Sequences, Functions

CONSTANTS Start,       \* where the heap begins
          Top,         \* the last unit of memory
          SlLog2,      \* SL_LOG2: 2^SlLog2 lists per power of two
          FlCount,     \* FL_COUNT
          MaxRequest,  \* MAX_REQUEST
          SizeMax,     \* the largest size_t
          Sizes,       \* what the program asks for
          Alignments,  \* and the alignments it asks for
          Stacks       \* where the stack pointer may be

VARIABLES heap,        \* the headers, the lists and the heap's edges
          limit,       \* heap_limit: the stack pointer less the reserve
          live         \* payload address -> the size asked for

ASSUME HeapAssumption ==
    /\ Start \in Nat \ {0} /\ Top \in Nat /\ SlLog2 \in Nat /\ FlCount \in Nat \ {0} /\ MaxRequest \in Nat /\ SizeMax \in Nat
    /\ FlCount + SlLog2 \in 1 .. 31 /\ Top - Start < 2 ^ (FlCount + SlLog2 - 1)   \* the last list takes all of RAM
    /\ MaxRequest < 2 ^ 28
    /\ Sizes \subseteq Nat /\ Alignments \subseteq Nat \ {0} /\ Stacks \subseteq 0 .. Top

heapVars == <<heap, limit, live>>

Null == 0
B_FREE == "free"
B_PREV_FREE == "below"
Header(size) == [prev |-> 0, size |-> size, flags |-> {}]
Junk == Header(-1)     \* no header: never written, or list pointers
Data == Header(-2)     \* what the program wrote

SlCount == 2 ^ SlLog2
Bins == 0 .. FlCount * SlCount - 1
NoHeap == [mem |-> [u \in Start .. Top |-> Junk], bins |-> [i \in Bins |-> <<>>],
           slMap |-> {}, flMap |-> {}, first |-> Null, epilogue |-> Null, at |-> {}]

Payload(b) == b + 1
Of(p) == p - 1
Size(h, b) == h.mem[b].size
IsFree(h, b) == B_FREE \in h.mem[b].flags
PrevIsFree(h, b) == B_PREV_FREE \in h.mem[b].flags
Next_phys(h, b) == b + 1 + Size(h, b)
Prev_phys(h, b) == b - 1 - h.mem[b].prev

-----------------------------------------------------------------------------
(* The size classes *)

TopBit(x) == CHOOSE k \in 0 .. 31 : 2 ^ k <= x /\ x < 2 ^ (k + 1)
BinOf(size) ==
    IF size < SlCount THEN size
    ELSE (TopBit(size) - SlLog2 + 1) * SlCount + ((size \div 2 ^ (TopBit(size) - SlLog2)) % SlCount)
LevelOf(i) == i \div SlCount

\* unlink_free
Dropped(s, b) ==
    LET n == CHOOSE i \in DOMAIN s : s[i] = b
    IN  [i \in 1 .. Len(s) - 1 |-> IF i < n THEN s[i] ELSE s[i + 1]]
Unlisted(h, i, rest) ==
    LET left == IF rest = <<>> THEN h.slMap \ {i} ELSE h.slMap
    IN  [h EXCEPT !.bins[i] = rest, !.slMap = left,
                  !.flMap = IF \E j \in left : LevelOf(j) = LevelOf(i) THEN @ ELSE @ \ {LevelOf(i)}]
Unlink(h, b) ==
    LET i == BinOf(Size(h, b)) IN Unlisted(h, i, Dropped(h.bins[i], b))

\* find: of the first list whose every block is large enough.
UpExact(size) == size
Up(size) == IF size < SlCount THEN size ELSE size + 2 ^ (TopBit(size) - SlLog2) - 1
Lowest(S) == CHOOSE n \in S : \A m \in S : n <= m
FirstOf(h, lists) == h.bins[Lowest(lists)][1]
FindAbove(h, levels) == IF levels = {} THEN Null ELSE FirstOf(h, {j \in h.slMap : LevelOf(j) = Lowest(levels)})
FindFrom(h, i) ==
    LET here == {j \in h.slMap : LevelOf(j) = LevelOf(i) /\ j >= i}
    IN  IF LevelOf(i) >= FlCount THEN Null
        ELSE IF here # {} THEN FirstOf(h, here)
        ELSE FindAbove(h, {f \in h.flMap : f > LevelOf(i)})
Find(h, size) == FindFrom(h, BinOf(Up(size)))

-----------------------------------------------------------------------------
(* Blocks *)

\* insert: list pointers go to the payload's first unit.
Listed(h, b, i) ==
    [h EXCEPT !.bins[i] = <<b>> \o @, !.slMap = @ \cup {i}, !.flMap = @ \cup {LevelOf(i)}]
Marked(h, b) == [h EXCEPT !.mem[b].flags = @ \cup {B_FREE}, !.mem[b + 1] = Junk]
Told(h, b, next) == [h EXCEPT !.mem[next].prev = Size(h, b), !.mem[next].flags = @ \cup {B_PREV_FREE}]
Insert(h, b) == Listed(Told(Marked(h, b), b, Next_phys(h, b)), b, BinOf(Size(h, b)))

\* release
Joined(h, b, next) == [h EXCEPT !.mem[b].size = @ + 1 + Size(h, next), !.at = @ \ {next}]
Swallow(h, b, next) == Joined(Unlink(h, next), b, next)
MergeUp(h, b) == IF IsFree(h, Next_phys(h, b)) THEN Swallow(h, b, Next_phys(h, b)) ELSE h
Taken(h, b) == [h EXCEPT !.mem[b].flags = @ \ {B_FREE}]
InsertBelow(h, b, prev) == Insert(Joined(Taken(Unlink(h, prev), prev), prev, b), prev)
MergeDown(h, b) == IF PrevIsFree(h, b) THEN InsertBelow(h, b, Prev_phys(h, b)) ELSE Insert(h, b)
Release(h, b) == MergeDown(MergeUp(h, b), b)

\* trim
MinSplit == 2
Sized(h, b, size) == [h EXCEPT !.mem[b].size = size]
Begun(h, c, size) == [h EXCEPT !.mem[c].size = size, !.mem[c].flags = {}, !.at = @ \cup {c}]
Cut(h, b, size) == Sized(Begun(h, b + 1 + size, Size(h, b) - size - 1), b, size)
Trim(h, b, size) ==
    IF Size(h, b) - size < MinSplit THEN h ELSE Release(Cut(h, b, size), b + 1 + size)

\* A free block becomes a used one.
Cleared(h, b) == [h EXCEPT !.mem[b].flags = @ \ {B_PREV_FREE}]
Used(h, b) == Cleared(Taken(Unlink(h, b), b), Next_phys(h, b))

\* start_heap and move_top
Found(h, b) == [h |-> h, b |-> b]
Started(h) == [h EXCEPT !.first = Start, !.epilogue = Start, !.mem[Start] = Header(0), !.at = {Start}]
MayMove(h, to) == to >= h.first /\ to + 1 <= limit
MoveTop(h, to) == [h EXCEPT !.epilogue = to, !.mem[to] = Header(0), !.at = (@ \ {h.epilogue}) \cup {to}]

\* grow: the free block that ends at the top is extended, or a new one begins there.
Extend(h, b, size) == Sized(Taken(MoveTop(Unlink(h, b), b + 1 + size), b), b, size)
NewLast(h, b, size) == [Sized(MoveTop(h, b + 1 + size), b, size) EXCEPT !.at = @ \cup {b}]
GrowLast(h, b, size) ==
    IF Size(h, b) >= size THEN Found(Used(h, b), b)
    ELSE IF MayMove(h, b + 1 + size) THEN Found(Extend(h, b, size), b) ELSE Found(h, Null)
Grow(h, size) ==
    IF PrevIsFree(h, h.epilogue) THEN GrowLast(h, Prev_phys(h, h.epilogue), size)
    ELSE IF MayMove(h, h.epilogue + 1 + size) THEN Found(NewLast(h, h.epilogue, size), h.epilogue) ELSE Found(h, Null)

\* take
TakeFound(h, b, size) == IF b # Null THEN Found(Used(h, b), b) ELSE Grow(h, size)
Take(h, size) ==
    IF h.first # Null THEN TakeFound(h, Find(h, size), size)
    ELSE IF Start + 1 > limit THEN Found(h, Null) ELSE Grow(Started(h), size)

\* malloc past its checks
Malloced(h, size, r) == IF r.b = Null THEN r ELSE Found(Trim(r.h, r.b, size), r.b)
MallocIn(h, size) == IF size > MaxRequest THEN Found(h, Null) ELSE Malloced(h, size, Take(h, size))

-----------------------------------------------------------------------------
(* Checks on pointers *)

InHeap(h, p) == h.first # Null /\ p >= Payload(h.first) /\ p < h.epilogue
PrevAgrees(h, b) ==
    /\ h.mem[b].prev >= 1 /\ Prev_phys(h, b) >= h.first /\ Prev_phys(h, b) < b
    /\ IsFree(h, Prev_phys(h, b)) /\ Size(h, Prev_phys(h, b)) = h.mem[b].prev
LiveBlock(h, p) ==
    /\ InHeap(h, p)
    /\ ~IsFree(h, Of(p)) /\ Size(h, Of(p)) >= 1
    /\ Next_phys(h, Of(p)) <= h.epilogue /\ ~PrevIsFree(h, Next_phys(h, Of(p)))
    /\ PrevIsFree(h, Of(p)) => PrevAgrees(h, Of(p))

-----------------------------------------------------------------------------
(* The calls *)

Holds(held, p, n) == [q \in DOMAIN held \cup {p} |-> IF q = p THEN n ELSE held[q]]
Without(held, p) == [q \in DOMAIN held \ {p} |-> held[q]]

InitHeap == heap = NoHeap /\ limit \in Stacks /\ live = [p \in {} |-> 0]

\* NULL with an errno, a misuse told to an error handler that returns, or nothing to do.
Nothing == UNCHANGED heapVars

\* A call that took a block, or did not: the heap may have begun all the same.  The program writes
\* to its block what it has not written before.
Written(h, p, from, n) == [h EXCEPT !.mem = [u \in DOMAIN @ |-> IF u \in p + from .. p + n - 1 THEN Data ELSE @[u]]]
WrittenTo(old) == IF old = Null THEN 0 ELSE live[old]
Gives(old, n, r) ==
    /\ heap' = (IF r.b = Null THEN r.h ELSE Written(r.h, Payload(r.b), WrittenTo(old), n)) /\ UNCHANGED limit
    /\ live' = IF r.b = Null THEN live ELSE Holds(Without(live, old), Payload(r.b), n)

Malloc(n) ==
    \/ n = 0 /\ Nothing
    \/ n > 0 /\ Gives(Null, n, MallocIn(heap, n))

\* calloc: the product is asked for, if it is a size_t.
Wraps(n, size) == size # 0 /\ n > SizeMax \div size
Calloc(n, size) ==
    \/ Wraps(n, size) /\ Nothing
    \/ ~Wraps(n, size) /\ Malloc((n * size) % (SizeMax + 1))

Freed(p) == heap' = Release(heap, Of(p)) /\ live' = Without(live, p) /\ UNCHANGED limit
Free_(p) ==
    \/ (p = Null \/ ~LiveBlock(heap, p)) /\ Nothing
    \/ p # Null /\ LiveBlock(heap, p) /\ Freed(p)

\* realloc: the block stays, or grows into the free block above, or past the top; or it moves.
Copied(h, b, q) ==
    [h EXCEPT !.mem = [u \in DOMAIN @ |-> IF u \in q + 1 .. q + Size(h, b) THEN h.mem[u - q + b] ELSE @[u]]]
MovesAfterFree(b, r) == IF r.b = Null THEN r ELSE Found(Copied(Release(r.h, b), b, r.b), r.b)
Moves(b, r) == IF r.b = Null THEN r ELSE Found(Release(Copied(r.h, b, r.b), b), r.b)
GrowsUp(h, b, next, size) ==
    Found(Trim(Cleared(Swallow(h, b, next), Next_phys(h, next)), b, size), b)
Above(h, next) == IF IsFree(h, next) THEN Next_phys(h, next) ELSE next
WithoutFree(h, next) == IF IsFree(h, next) THEN [Unlink(h, next) EXCEPT !.at = @ \ {next}] ELSE h
PastTop(h, b, next, size) == Found(Sized(MoveTop(WithoutFree(h, next), b + 1 + size), b, size), b)
Grows(h, b, next, size) ==
    IF IsFree(h, next) /\ Size(h, b) + 1 + Size(h, next) >= size THEN GrowsUp(h, b, next, size)
    ELSE IF Above(h, next) = h.epilogue /\ MayMove(h, b + 1 + size) THEN PastTop(h, b, next, size)
    ELSE Moves(b, MallocIn(h, size))
Realloced(h, b, size) ==
    IF size <= Size(h, b) THEN Found(Trim(h, b, size), b) ELSE Grows(h, b, Next_phys(h, b), size)
Realloc(p, n) ==
    \/ p = Null /\ Malloc(n)
    \/ p # Null /\ n = 0 /\ Free_(p)
    \/ p # Null /\ n > 0 /\ (~LiveBlock(heap, p) \/ n > MaxRequest) /\ Nothing
    \/ p # Null /\ n \in 1 .. MaxRequest /\ LiveBlock(heap, p) /\ Gives(p, n, Realloced(heap, Of(p), n))

\* aligned_alloc: a front piece is cut off and freed.
Aligned(at, a) == ((at + a - 1) \div a) * a
Wanted(at, a) == Aligned(at, a) + (IF Aligned(at, a) - at \in 1 .. MinSplit - 1 THEN a ELSE 0)
FrontCut(h, b, nb) ==
    IF nb = b THEN h
    ELSE Release(Cut(h, b, nb - b - 1), b)
AlignedAt(h, b, nb, size) == Found(Trim(FrontCut(h, b, nb), nb, size), nb)
AlignedIn(r, a, size) ==
    IF r.b = Null THEN r ELSE AlignedAt(r.h, r.b, Of(Wanted(Payload(r.b), a)), size)
AlignedAlloc(a, n) ==
    \/ a = 1 /\ Malloc(n)
    \/ a > 1 /\ (n = 0 \/ n > MaxRequest \/ a > MaxRequest) /\ Nothing
    \/ a \in 2 .. MaxRequest /\ n \in 1 .. MaxRequest /\ Gives(Null, n, AlignedIn(Take(heap, n + a + MinSplit), a, n))

\* The stack grows and shrinks above the heap, or the program sets another reserve.
StackMoves == limit' \in Stacks \ {limit} /\ UNCHANGED <<heap, live>>

\* Pointers the program may still have: a header is left behind where a block was.
Pointers == {p \in Start + 1 .. Top : heap.mem[Of(p)].size >= 0}

NextHeap ==
    \/ \E n \in Sizes : Malloc(n)
    \/ \E n, size \in Sizes : Calloc(n, size)
    \/ \E p \in Pointers \cup {Null, Top + 2} : Free_(p)
    \/ \E p \in Pointers \cup {Null}, n \in Sizes : Realloc(p, n)
    \/ \E a \in Alignments, n \in Sizes : AlignedAlloc(a, n)
    \/ StackMoves

SpecHeap == InitHeap /\ [][NextHeap]_heapVars

-----------------------------------------------------------------------------
(* What the allocator promises *)

BlocksOf(h) == h.at \ {h.epilogue}
FreeOf(h) == {b \in BlocksOf(h) : IsFree(h, b)}
UsedOf(h) == BlocksOf(h) \ FreeOf(h)

\* The blocks tile the heap: each ends at the header of the next, the last at the epilogue.
Tiled(h) ==
    /\ h.first = Start /\ {h.first, h.epilogue} \subseteq h.at /\ h.at \subseteq h.first .. h.epilogue
    /\ Size(h, h.epilogue) = 0
    /\ \A b \in BlocksOf(h) : /\ Size(h, b) >= 1 /\ Next_phys(h, b) \in h.at
                             /\ \A c \in h.at : c <= b \/ c >= Next_phys(h, b)

\* A header tells the truth about the block below, and no two free blocks touch.
TellsOf(h, b) ==
    /\ PrevIsFree(h, Next_phys(h, b)) <=> IsFree(h, b)
    /\ IsFree(h, b) => h.mem[Next_phys(h, b)].prev = Size(h, b) /\ ~IsFree(h, Next_phys(h, b))
Truthful(h) == ~IsFree(h, h.epilogue) /\ ~PrevIsFree(h, h.first) /\ \A b \in BlocksOf(h) : TellsOf(h, b)

\* The lists hold the free blocks, each once in the list of its size, and the bitmaps the lists that hold any.
FreeListed(h) ==
    /\ \A i \in Bins : /\ IsInjective(h.bins[i])
                       /\ Range(h.bins[i]) = {b \in FreeOf(h) : BinOf(Size(h, b)) = i}
    /\ h.slMap = {i \in Bins : h.bins[i] # <<>>}
    /\ h.flMap = {LevelOf(i) : i \in h.slMap}

\* heap_check finds nothing, whatever was allocated, resized and freed in whatever order.
HeapSound == heap = NoHeap \/ (Tiled(heap) /\ Truthful(heap) /\ FreeListed(heap))

\* What is used is what the program holds: each call's block is as large as asked for, aligned to
\* blocks of its own, none is lost, and none is given out twice.
HeldBlocks ==
    /\ {Payload(b) : b \in UsedOf(heap)} = DOMAIN live
    /\ \A p \in DOMAIN live : live[p] <= Size(heap, Of(p))

\* No call writes to what the program holds, and realloc takes it along: header, list pointer and
\* copy stay off the bytes of every other block.
Smaller(m, n) == IF m <= n THEN m ELSE n
Same(p, q, n) == \A i \in 0 .. n - 1 : heap'.mem[q + i] = heap.mem[p + i]
ContentsKeptStep ==
    /\ \A p \in DOMAIN live \cap DOMAIN live' : Same(p, p, Smaller(live[p], live'[p]))
    /\ \A p \in DOMAIN live \ DOMAIN live', q \in DOMAIN live' \ DOMAIN live : Same(p, q, live[p])
ContentsKept == [][ContentsKeptStep]_heapVars

\* A pointer to a block freed before is told from a live one by the headers around it, also when the
\* block has been merged away since and its old header is still there ("freed and since swallowed").
StaleFound == \A p \in Pointers : LiveBlock(heap, p) => p \in DOMAIN live

HeapHolds == HeapSound /\ HeldBlocks /\ StaleFound
=============================================================================
