---------------------------- MODULE MCStructures ----------------------------
(***************************************************************************)
(* The heap and the data structures, one of them in each behaviour: "kind" *)
(* says which.  The rings, the heap, the storage and the table have        *)
(* variables of their own, which stay as they were made when another is    *)
(* explored; the others are shared.                                        *)
(***************************************************************************)
EXTENDS Integers, Sequences, Rings, Heap, Storage, HashMap

CONSTANT Kinds         \* those explored

VARIABLES kind, impl, told, part, rest, more

rings == <<dequeVars, queueVars>>
shared == <<impl, told, part, rest, more>>
vars == <<kind, shared, rings, heapVars, storageVars, tableVars>>

Upto4 == 1 .. 4
Upto6 == 1 .. 6
Upto9 == 1 .. 9
Two == {1, 2}
Three == {1, 2, 3}

RbKey == [n \in Upto9 |-> (n * 3) \div 4]
Rb == INSTANCE RbTree WITH Nodes <- Upto9, Key <- RbKey, Values <- {}, tree <- impl, order <- told, values <- part
OmKey == [n \in Upto6 |-> n]
Om == INSTANCE RbTree WITH Nodes <- Upto6, Key <- OmKey, Values <- Two, tree <- impl, order <- rest, values <- part
MCHashes == <<6, 14, 22, 7, 30, 4>>
SkKey == [n \in 1 .. 5 |-> (n + 1) \div 2]
Li == INSTANCE Lists WITH Nodes <- Three, Entries <- DOMAIN SkKey, Key <- SkKey, MaxLevel <- 3,
                          list <- impl, loop <- part, slist <- rest, stacked <- more, skl <- impl, order <- told
Tr == INSTANCE Trie WITH Chars <- Two, MaxLength <- 3, Values <- Two, MaxNodes <- 4, WalkBuf <- 3, trie <- impl
Vc == INSTANCE Vector WITH Items <- Two, Values <- {1}, MaxCap <- 8, Ordered <- FALSE, Top <- 127, MinCap <- 16,
                           Extras <- {0, 1, 7, 40, 126, 127}, Memory <- 127, vec <- impl, sb <- impl
Fm == INSTANCE Vector WITH Items <- Upto6, Values <- Two, MaxCap <- 8, Ordered <- TRUE, Top <- 127, MinCap <- 16,
                           Extras <- {}, Memory <- 127, vec <- impl, sb <- impl
Bh == INSTANCE BinaryHeap WITH Ranks <- Three, MaxHandles <- 4, MaxWaiting <- 6, ih <- impl, pq <- part, waiting <- rest
Ke == INSTANCE Keyed WITH Keys <- Three, Values <- Two, Capacities <- {0, 1, 2}, MaxAlike <- 2,
                          lru <- impl, chains <- part, bag <- rest
HashA == [x \in Three |-> x * 5]
HashB == [x \in Three |-> x * 3]
Bs == INSTANCE Sets WITH WordBits <- 4, Lengths <- {0, 3, 4, 9}, Items <- Three, Hash1 <- HashA, Hash2 <- HashB,
                         Probes <- 2, IsBloom <- FALSE, N <- 5, words <- impl, nbits <- part, dsu <- impl
Bl == INSTANCE Sets WITH WordBits <- 4, Lengths <- {0, 3, 4, 9}, Items <- Three, Hash1 <- HashA, Hash2 <- HashB,
                         Probes <- 2, IsBloom <- TRUE, N <- 5, words <- impl, nbits <- part, dsu <- impl

QuietRings == InitDeque /\ InitQueue /\ q.mask = 0
QuietPool == InitPool /\ pool = NewPool(100, 3)
NoMore == more = None
NoRest == rest = None /\ NoMore
NoPart == part = None /\ NoRest
Init ==
    /\ kind \in Kinds
    /\ kind # "cqueue" => QuietRings
    /\ InitTable /\ (kind # "hashmap" => table = NewTable(0))
    /\ InitHeap /\ (kind # "heap" => limit = Top)
    /\ InitArenas /\ InitSlots /\ (IF kind = "pool" THEN InitPool ELSE QuietPool)
    /\ CASE kind = "rbtree" -> Rb!Init /\ NoPart
         [] kind = "omap" -> Om!InitMap /\ NoRest
         [] kind = "skiplist" -> Li!InitSkip /\ NoPart
         [] kind = "trie" -> Tr!Init /\ NoPart
         [] kind = "vector" -> Vc!Init /\ NoPart
         [] kind = "flatmap" -> Fm!Init /\ NoPart
         [] kind \in {"deque", "heap", "arena", "pool", "slotmap", "hashmap"} -> told = None /\ impl = None /\ NoPart
         [] kind = "list" -> Li!InitLists
         [] kind \in {"iheap", "pqueue"} -> Bh!Init /\ NoMore
         [] kind = "dsu" -> Bs!InitDsu /\ NoPart
         [] kind \in {"lru", "multimap"} -> Ke!Init /\ NoMore
         [] kind = "cqueue" -> InitRings /\ told = None /\ impl = None /\ NoPart
         [] kind = "bitset" -> Bs!InitBits /\ NoRest
         [] kind = "bloom" -> Bl!InitBits /\ NoRest
         [] kind = "strbuf" -> Vc!InitText /\ NoPart

NextOther ==
    /\ UNCHANGED <<kind, rings, heapVars, storageVars, tableVars>>
    /\ \/ kind = "rbtree" /\ Rb!Next /\ UNCHANGED <<part, rest, more>>
       \/ kind = "omap" /\ Om!NextMap /\ UNCHANGED <<rest, more>>
       \/ kind = "skiplist" /\ Li!NextSkip /\ UNCHANGED <<part, rest, more>>
       \/ kind = "trie" /\ Tr!Next /\ UNCHANGED <<part, rest, more>>
       \/ kind = "vector" /\ Vc!Next /\ UNCHANGED <<part, rest, more>>
       \/ kind = "flatmap" /\ Fm!Next /\ UNCHANGED <<part, rest, more>>
       \/ kind = "list" /\ Li!NextLists
       \/ kind = "iheap" /\ Bh!NextHandles /\ UNCHANGED more
       \/ kind = "pqueue" /\ Bh!NextWaiting /\ UNCHANGED more
       \/ kind = "dsu" /\ Bs!NextDsu /\ UNCHANGED <<part, rest, more>>
       \/ kind = "lru" /\ Ke!NextCache /\ UNCHANGED more
       \/ kind = "multimap" /\ Ke!NextChains /\ UNCHANGED more
       \/ kind = "bitset" /\ Bs!NextBits /\ UNCHANGED <<rest, more>>
       \/ kind = "bloom" /\ Bl!NextBits /\ UNCHANGED <<rest, more>>
       \/ kind = "strbuf" /\ Vc!NextText /\ UNCHANGED <<part, rest, more>>
NextRing ==
    /\ UNCHANGED <<kind, shared, heapVars, storageVars, tableVars>>
    /\ \/ kind = "deque" /\ NextDeque /\ UNCHANGED queueVars
       \/ kind = "cqueue" /\ NextQueue /\ UNCHANGED dequeVars
NextOfHeap == kind = "heap" /\ NextHeap /\ UNCHANGED <<kind, shared, rings, storageVars, tableVars>>
NextStored ==
    /\ UNCHANGED <<kind, shared, rings, heapVars, tableVars>>
    /\ \/ kind = "arena" /\ NextArena /\ UNCHANGED <<poolVars, slotVars>>
       \/ kind = "pool" /\ NextPool /\ UNCHANGED <<arenaVars, slotVars>>
       \/ kind = "slotmap" /\ NextSlots /\ UNCHANGED <<arenaVars, poolVars>>
NextOfTable == kind = "hashmap" /\ NextTable /\ UNCHANGED <<kind, shared, rings, heapVars, storageVars>>
Next == NextOther \/ NextRing \/ NextOfHeap \/ NextStored \/ NextOfTable
Spec == Init /\ [][Next]_vars

-----------------------------------------------------------------------------
\* The maps and dictionaries hold what their callers were told, and find it; the tree stays balanced: a search is as
\* short as promised (src/ceres/ds/rbtree.c, omap.c, skiplist.c, trie.c, flatmap.c, lru.c, multimap.c).
MapsHold ==
    CASE kind = "rbtree" -> Rb!InOrder /\ Rb!Balanced
      [] kind = "omap" -> Om!IsOrderedMap
      [] kind = "skiplist" -> Li!IsSkipList
      [] kind = "trie" -> Tr!IsDictionary
      [] kind = "flatmap" -> Fm!IsVector
      [] kind = "lru" -> Ke!IsCache
      [] kind = "multimap" -> Ke!IsMultimap
      [] OTHER -> TRUE

\* The sequences and sets hold what was put in, where it was put in, the disjoint sets what was merged, and the heaps
\* give the least first (src/ceres/ds/vector.c, bitset.c, bloom.c, strbuf.c, dsu.c, iheap.c, pqueue.c,
\* include/ceres/ds/list.h, slist.h).
SequencesHold ==
    CASE kind = "vector" -> Vc!IsVector
      [] kind = "list" -> Li!ListsHold
      [] kind = "bitset" -> Bs!IsSet
      [] kind = "bloom" -> Bl!NoFalseNegatives
      [] kind = "strbuf" -> Vc!IsString
      [] kind = "dsu" -> Bs!Partitions
      [] kind = "iheap" -> Bh!IsHeap
      [] kind = "pqueue" -> Bh!PqHolds
      [] OTHER -> TRUE

\* A loop that unlinks the nodes it is at meets them all (include/ceres/ds/list.h: list_for_each_safe).
LoopMeetsAll == [][kind = "list" => Li!LoopMet]_vars
=============================================================================
