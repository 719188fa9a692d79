------------------------------- MODULE Sorts --------------------------------
(***************************************************************************)
(* The two sorts: qsort (src/qsort.c), a quicksort that turns to a heap    *)
(* sort when its splits go badly and to insertion for short runs, and the  *)
(* stable merge sort (src/ceres/sort.c).  An element is [key, tag]: the    *)
(* comparator looks at the key alone.  Positions count from 0 in the code  *)
(* and from 1 here.                                                        *)
(***************************************************************************)
EXTENDS Integers, SequencesExt

CONSTANTS
    Keys,              \* what the elements are compared by
    MaxLength,         \* bound: the elements of an array
    Short,             \* 12: what insertion sorts
    Depths,            \* the depths at which intro_sort gives up splitting: 2 * log2(n) of larger arrays
    Run,               \* RUN of sort.c
    Sizes,             \* the sizes of an element, 0 too
    SizeMax            \* (size_t)-1

VARIABLES
    job,               \* the sort, its array, its depth; its element's size and whether memory lacks
    out                \* the array after it, and the answer r

vars == <<job, out>>

Compare(a, b) == a.key - b.key
Swap(s, i, j) == [s EXCEPT ![i] = s[j], ![j] = s[i]]

-----------------------------------------------------------------------------
\* insertion_sort of s[lo .. hi]
RECURSIVE Sink(_, _, _), Insertion(_, _, _, _)
Sink(s, lo, j) == IF j > lo /\ Compare(s[j - 1], s[j]) > 0 THEN Sink(Swap(s, j - 1, j), lo, j - 1) ELSE s
Insertion(s, lo, hi, i) == IF i > hi THEN s ELSE Insertion(Sink(s, lo, i), lo, hi, i + 1)

\* sift_down of the element "root" of the n from lo on, counted from 0; heap_sort of s[lo .. lo + n - 1]
RECURSIVE SiftDown(_, _, _, _), BuildHeap(_, _, _, _), TakeMax(_, _, _)
SiftDown(s, lo, root, n) ==
    LET left == 2 * root + 1
        child == IF left + 1 < n /\ Compare(s[lo + left], s[lo + left + 1]) < 0 THEN left + 1 ELSE left
    IN IF left >= n \/ Compare(s[lo + root], s[lo + child]) >= 0 THEN s
       ELSE SiftDown(Swap(s, lo + root, lo + child), lo, child, n)
BuildHeap(s, lo, n, i) == IF i = 0 THEN s ELSE BuildHeap(SiftDown(s, lo, i - 1, n), lo, n, i - 1)
TakeMax(s, lo, end) == IF end = 0 THEN s ELSE TakeMax(SiftDown(Swap(s, lo, lo + end), lo, 0, end), lo, end - 1)
HeapSort(s, lo, n) == TakeMax(BuildHeap(s, lo, n, n \div 2), lo, n - 1)

\* intro_sort of s[lo .. lo + n - 1]: the median of three parked next to the end, two scans that meet.
InOrder(s, i, j) == IF Compare(s[j], s[i]) < 0 THEN Swap(s, j, i) ELSE s
Median(s, lo, mid, hi) == Swap(InOrder(InOrder(InOrder(s, lo, mid), lo, hi), mid, hi), mid, hi - 1)
RECURSIVE Up(_, _, _), Down(_, _, _), Partition(_, _, _, _)
Up(s, i, pivot) == IF Compare(s[i + 1], s[pivot]) < 0 THEN Up(s, i + 1, pivot) ELSE i + 1
Down(s, j, pivot) == IF Compare(s[j - 1], s[pivot]) > 0 THEN Down(s, j - 1, pivot) ELSE j - 1
Partition(s, i, j, pivot) ==
    LET up == Up(s, i, pivot)
        down == Down(s, j, pivot)
    IN IF up >= down THEN [s |-> Swap(s, up, pivot), at |-> up] ELSE Partition(Swap(s, up, down), up, down, pivot)
RECURSIVE Intro(_, _, _, _)
Intro(s, lo, n, depth) ==
    IF n <= Short THEN Insertion(s, lo, lo + n - 1, lo + 1)
    ELSE IF depth = 0 THEN HeapSort(s, lo, n)
    ELSE LET hi == lo + n - 1
             p == Partition(Median(s, lo, lo + n \div 2, hi), lo, hi - 1, hi - 1)
             left == p.at - lo
             right == n - left - 1
         IN IF left < right THEN Intro(Intro(p.s, lo, left, depth - 1), p.at + 1, right, depth - 1)
            ELSE Intro(Intro(p.s, p.at + 1, right, depth - 1), lo, left, depth - 1)

\* qsort of an array by its comparator
QuickSort(s, depth) == IF Len(s) < 2 THEN s ELSE Intro(s, 1, Len(s), depth)

-----------------------------------------------------------------------------
\* insertion_run: an element held aside goes left past greater ones.
RECURSIVE PlaceFor(_, _, _, _), PlacePastEqual(_, _, _, _)
PlacePastEqual(s, lo, j, held) ==
    IF j > lo /\ Compare(s[j - 1], held) >= 0 THEN PlacePastEqual(s, lo, j - 1, held) ELSE j
PlaceFor(s, lo, j, held) == IF j > lo /\ Compare(s[j - 1], held) > 0 THEN PlaceFor(s, lo, j - 1, held) ELSE j
Moved(s, i, to) == [k \in DOMAIN s |-> IF k = to THEN s[i] ELSE IF k > to /\ k <= i THEN s[k - 1] ELSE s[k]]
RECURSIVE InsertRun(_, _, _, _)
InsertRun(s, lo, hi, i) == IF i > hi THEN s ELSE InsertRun(Moved(s, i, PlaceFor(s, lo, i, s[i])), lo, hi, i + 1)
Least(a, b) == IF a < b THEN a ELSE b
RECURSIVE Runs(_, _)
Runs(s, lo) == IF lo > Len(s) THEN s ELSE Runs(InsertRun(s, lo, Least(lo + Run - 1, Len(s)), lo + 1), lo + Run)

\* merge of two runs: the left one's element first when they are equal.
RECURSIVE Merge(_, _)
Merge(a, b) ==
    IF a = <<>> THEN b ELSE IF b = <<>> THEN a
    ELSE IF Compare(Last(a), b[1]) <= 0 THEN a \o b
    ELSE IF Compare(a[1], b[1]) <= 0 THEN <<a[1]>> \o Merge(Tail(a), b) ELSE <<b[1]>> \o Merge(a, Tail(b))
RECURSIVE Pass(_, _, _), Passes(_, _)
Pass(s, lo, width) ==
    LET mid == Least(lo + width, Len(s) + 1)
        hi == Least(lo + 2 * width, Len(s) + 1)
    IN IF lo > Len(s) THEN <<>> ELSE Merge(SubSeq(s, lo, mid - 1), SubSeq(s, mid, hi - 1)) \o Pass(s, lo + 2 * width, width)
Passes(s, width) == IF width >= Len(s) THEN s ELSE Passes(Pass(s, 1, width), 2 * width)
\* sort_stable: the answer r and the array; the buffer has room for the elements and the one held aside.
SortStable(s, size, lacks) ==
    LET tooMany == Len(s) > SizeMax \div size - 1
    IN IF Len(s) < 2 \/ size = 0 THEN [r |-> 0, s |-> s]
       ELSE IF tooMany \/ lacks THEN [r |-> -1, s |-> s]
       ELSE [r |-> 0, s |-> Passes(Runs(s, 1), Run)]

-----------------------------------------------------------------------------
Arrays == {[i \in 1 .. n |-> [key |-> k[i], tag |-> i]] : n \in 0 .. MaxLength, k \in [1 .. MaxLength -> Keys]}
Init == /\ job \in [how : {"qsort"}, s : Arrays, depth : Depths] \cup [how : {"stable"}, s : Arrays, size : Sizes, lacks : BOOLEAN]
        /\ out = [done |-> FALSE]
Next ==
    /\ ~out.done /\ UNCHANGED job
    /\ out' = IF job.how = "qsort" THEN [done |-> TRUE, r |-> 0, s |-> QuickSort(job.s, job.depth)]
              ELSE [done |-> TRUE] @@ SortStable(job.s, job.size, job.lacks)
Spec == Init /\ [][Next]_vars

\* A sort gives back the elements it was given, in order; the stable one keeps equal elements as they were.  It alone may
\* fail, when the buffer cannot be had and only then, and then leaves the array untouched.
Failed == out.r = -1
Sorted ==
    out.done =>
        /\ ~Failed /\ (job.how = "stable" => job.size > 0) =>
            /\ Len(out.s) = Len(job.s) /\ ToSet(out.s) = ToSet(job.s)
            /\ \A i \in 2 .. Len(out.s) :
                /\ out.s[i - 1].key <= out.s[i].key
                /\ job.how = "stable" /\ out.s[i - 1].key = out.s[i].key => out.s[i - 1].tag < out.s[i].tag
        /\ Failed => out.s = job.s
        /\ Failed <=> /\ job.how = "stable" /\ Len(job.s) > 1 /\ job.size > 0
                      /\ job.lacks \/ (Len(job.s) + 1) * job.size > SizeMax
=============================================================================
