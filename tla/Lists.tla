-------------------------------- MODULE Lists --------------------------------
(***************************************************************************)
(* Linked lists: the two of include/ceres/ds, and the skip list.           *)
(***************************************************************************)
EXTENDS Integers, Sequences, FiniteSets, SequencesExt

-----------------------------------------------------------------------------
\* The doubly linked list of include/ceres/ds/list.h, circular around a
\* sentinel, with the loop LIST_FOR_EACH_SAFE whose body may unlink the
\* node it is at; and the singly linked one of include/ceres/ds/slist.h,
\* on other nodes of the same objects.
\* "told" and "stacked" are not in the code: the objects as the callers
\* have put them on the lists; and what a loop has visited.

CONSTANT Nodes         \* the objects, numbers above zero

VARIABLES list,        \* struct list and the nodes' links
          loop,        \* the loop's two variables
          slist,       \* struct slist and its nodes' links
          told, stacked

listVars == <<list, loop, slist, told, stacked>>

Null == -1
Sentinel == 0
Links == Nodes \cup {Sentinel}

ListInit == [prev |-> [n \in Links |-> n], next |-> [n \in Links |-> n], count |-> 0]

InsertedAfter(l, at, n) ==
    [prev |-> [[l.prev EXCEPT ![n] = at] EXCEPT ![l.next[at]] = n],
     next |-> [l.next EXCEPT ![n] = l.next[at], ![at] = n], count |-> l.count + 1]
Unlinked(l, n) ==
    IF l.next[n] = n THEN l
    ELSE [prev |-> [[l.prev EXCEPT ![l.next[n]] = l.prev[n]] EXCEPT ![n] = n],
          next |-> [[l.next EXCEPT ![l.prev[n]] = l.next[n]] EXCEPT ![n] = n], count |-> l.count - 1]
ListIsEmpty(l) == l.next[Sentinel] = Sentinel
First(l) == IF ListIsEmpty(l) THEN Null ELSE l.next[Sentinel]
Final(l) == IF ListIsEmpty(l) THEN Null ELSE l.prev[Sentinel]

\* The nodes met from n on along the links next or prev.
RECURSIVE Along(_, _)
Along(link, n) == IF n = Sentinel THEN <<>> ELSE <<n>> \o Along(link, link[n])

NoLoop == [at |-> Sentinel, next |-> Sentinel, seen |-> <<>>, due |-> <<>>]
Idle == loop.at = Sentinel

InitLists == list = ListInit /\ loop = NoLoop /\ told = <<>>
             /\ slist = [head |-> Null, next |-> [n \in Nodes |-> Null], count |-> 0] /\ stacked = <<>>

PushFront(n) == /\ Idle /\ n \notin ToSet(told) /\ list' = InsertedAfter(list, Sentinel, n)
                /\ told' = <<n>> \o told /\ UNCHANGED <<loop, slist, stacked>>
PushBack(n) == /\ Idle /\ n \notin ToSet(told) /\ list' = InsertedAfter(list, list.prev[Sentinel], n)
               /\ told' = Append(told, n) /\ UNCHANGED <<loop, slist, stacked>>
InsertAfter(at, n) ==
    /\ Idle /\ at \in ToSet(told) /\ n \notin ToSet(told) /\ list' = InsertedAfter(list, at, n)
    /\ told' = InsertAt(told, CHOOSE i \in 2 .. Len(told) + 1 : told[i - 1] = at, n)
    /\ UNCHANGED <<loop, slist, stacked>>
\* Also of a node that is on no list; in a loop, of the one it is at.
RemoveNode(n) ==
    /\ Idle \/ n = loop.at
    /\ list' = Unlinked(list, n) /\ told' = SelectSeq(told, LAMBDA m : m # n) /\ UNCHANGED <<loop, slist, stacked>>
Popped(n) == n # Null /\ list' = Unlinked(list, n) /\ UNCHANGED <<loop, slist, stacked>>
PopFront == Idle /\ Popped(First(list)) /\ told' = Tail(told)
PopBack == Idle /\ Popped(Final(list)) /\ told' = Front(told)

Begin == /\ Idle /\ First(list) # Null
         /\ loop' = [at |-> First(list), next |-> list.next[First(list)], seen |-> <<First(list)>>, due |-> told]
         /\ UNCHANGED <<list, slist, told, stacked>>
AgainOneBehind == /\ ~Idle /\ loop.next # Sentinel
                  /\ loop' = [loop EXCEPT !.at = loop.next, !.next = list.next[loop.at], !.seen = Append(@, loop.next)]
                  /\ UNCHANGED <<list, slist, told, stacked>>
Again == /\ ~Idle /\ loop.next # Sentinel
         /\ loop' = [loop EXCEPT !.at = loop.next, !.next = list.next[loop.next], !.seen = Append(@, loop.next)]
         /\ UNCHANGED <<list, slist, told, stacked>>
Leave == ~Idle /\ loop.next = Sentinel /\ loop' = NoLoop /\ UNCHANGED <<list, slist, told, stacked>>

\* slist_push_front, slist_pop_front, slist_remove_after
SPush(n) == /\ n \notin ToSet(stacked) /\ stacked' = <<n>> \o stacked
            /\ slist' = [head |-> n, next |-> [slist.next EXCEPT ![n] = slist.head], count |-> slist.count + 1]
            /\ UNCHANGED <<list, loop, told>>
SPop == /\ slist.head # Null /\ stacked' = Tail(stacked)
        /\ slist' = [head |-> slist.next[slist.head], next |-> [slist.next EXCEPT ![slist.head] = Null],
                     count |-> slist.count - 1]
        /\ UNCHANGED <<list, loop, told>>
SRemoveAfter(at) ==
    /\ at \in ToSet(stacked) /\ slist.next[at] # Null /\ stacked' = SelectSeq(stacked, LAMBDA m : m # slist.next[at])
    /\ slist' = [slist EXCEPT !.next[at] = slist.next[slist.next[at]], !.next[slist.next[at]] = Null, !.count = @ - 1]
    /\ UNCHANGED <<list, loop, told>>

NextLists == \/ \E n \in Nodes : PushFront(n) \/ PushBack(n) \/ RemoveNode(n) \/ SPush(n) \/ SRemoveAfter(n)
             \/ \E at, n \in Nodes : InsertAfter(at, n)
             \/ PopFront \/ PopBack \/ Begin \/ Again \/ Leave \/ SPop

-----------------------------------------------------------------------------
(* What the lists promise *)

\* Both ways round, a list is what was put on it and not taken off, also after a node was unlinked twice;
\* and a node that is off it points at itself.
RECURSIVE Down(_)
Down(n) == IF n = Null THEN <<>> ELSE <<n>> \o Down(slist.next[n])
ListsHold ==
    /\ Along(list.next, list.next[Sentinel]) = told /\ Along(list.prev, list.prev[Sentinel]) = Reverse(told)
    /\ list.count = Len(told) /\ \A n \in Nodes \ ToSet(told) : list.next[n] = n /\ list.prev[n] = n
    /\ Down(slist.head) = stacked /\ slist.count = Len(stacked)

\* A loop whose body unlinks the nodes it is at has met, when it ends, every node once and in order.
LoopMet == Leave => loop.seen = loop.due

-----------------------------------------------------------------------------
\* The skip list of src/ceres/ds/skiplist.c.
\* The heights the coin gives are any.  A node stands for an allocation;
\* its links are NULL while it is not one.  "order" is not in the code:
\* the entries as the caller expects to walk them.

CONSTANTS Entries,     \* the entries, numbers above zero
          Key,         \* what cmp compares of each
          MaxLevel     \* SKL_MAX_LEVEL

VARIABLES skl, order

skipVars == <<skl, order>>

Nil == 0
HeadNode == -1
Levels == 1 .. MaxLevel
Empty == [level |-> 1, count |-> 0, next |-> [i \in Levels |-> [n \in Entries \cup {HeadNode} |-> Nil]]]

\* The last node on level i, from x on, whose key is less.
RECURSIVE AlongLevel(_, _, _, _)
AlongLevel(s, k, i, x) ==
    IF s.next[i][x] # Nil /\ Key[s.next[i][x]] < k THEN AlongLevel(s, k, i, s.next[i][x]) ELSE x
\* update: that node on every level in use, found from where the level above ended
RECURSIVE UpdateFrom(_, _, _, _)
UpdateFrom(s, k, i, x) ==
    IF i = 0 THEN <<>> ELSE UpdateFrom(s, k, i - 1, AlongLevel(s, k, i, x)) \o <<AlongLevel(s, k, i, x)>>
Update(s, k) == UpdateFrom(s, k, s.level, HeadNode)

Candidate(s, k) == s.next[1][Update(s, k)[1]]
Found(s, k) == Candidate(s, k) # Nil /\ Key[Candidate(s, k)] = k
Find(s, k) == IF Found(s, k) THEN Candidate(s, k) ELSE Nil

\* skl_insert: a higher level than any in use begins at the head, and stays when the allocation fails.
Raised(s, height) == [s EXCEPT !.level = IF height > @ THEN height ELSE @]
At(update, i) == IF i <= Len(update) THEN update[i] ELSE HeadNode
Linked(s, n, height, update) ==
    [s EXCEPT !.count = @ + 1,
              !.next = [i \in Levels |->
                  IF i > height THEN @[i]
                  ELSE [@[i] EXCEPT ![n] = s.next[i][At(update, i)], ![At(update, i)] = n]]]

\* skl_remove: the levels up to the first the target does not reach
Reaches(s, update, target, i) == i <= s.level /\ \A j \in 1 .. i : s.next[j][update[j]] = target
UnlinkedFrom(s, update, target) ==
    [s EXCEPT !.count = @ - 1,
              !.next = [i \in Levels |->
                  IF Reaches(s, update, target, i)
                  THEN [@[i] EXCEPT ![update[i]] = s.next[i][target], ![target] = Nil] ELSE @[i]]]
RECURSIVE Lowered(_)
Lowered(s) ==
    IF s.level > 1 /\ s.next[s.level][HeadNode] = Nil THEN Lowered([s EXCEPT !.level = @ - 1]) ELSE s

-----------------------------------------------------------------------------
(* The calls *)

IsIn(n) == \E i \in DOMAIN order : order[i] = n
InitSkip == skl = Empty /\ order = <<>>

Insert(n, height) ==
    /\ ~IsIn(n)
    /\ skl' = Linked(Raised(skl, height), n, height, Update(skl, Key[n]))
    /\ order' = SelectSeq(order, LAMBDA m : Key[m] < Key[n]) \o <<n>> \o SelectSeq(order, LAMBDA m : Key[m] >= Key[n])
InsertFails(height) == skl' = Raised(skl, height) /\ UNCHANGED order
RemoveKey(k) ==
    \/ ~Found(skl, k) /\ UNCHANGED skipVars
    \/ /\ Found(skl, k)
       /\ skl' = Lowered(UnlinkedFrom(skl, Update(skl, k), Candidate(skl, k)))
       /\ LET target == CHOOSE i \in DOMAIN order : Key[order[i]] = k /\ \A j \in 1 .. i - 1 : Key[order[j]] # k
          IN  order' = [i \in 1 .. Len(order) - 1 |-> order[IF i < target THEN i ELSE i + 1]]
\* skl_free, and a list begun anew
Free == skl' = Empty /\ order' = <<>>

NextSkip == \/ \E n \in Entries, height \in Levels : Insert(n, height)
            \/ \E height \in Levels : InsertFails(height)
            \/ \E n \in Entries : RemoveKey(Key[n])
            \/ Free

-----------------------------------------------------------------------------
(* What the list promises *)

RECURSIVE Walk(_, _)
Walk(i, n) == IF n = Nil THEN <<>> ELSE <<n>> \o Walk(i, skl.next[i][n])
OnLevel(i) == Walk(i, skl.next[i][HeadNode])

\* The bottom level walks every entry in the order of the keys, the newest of equal ones first, and the
\* search finds the first; every level is a part of the one below, and none above "level" has a node.
IsSkipList ==
    /\ OnLevel(1) = order /\ skl.count = Len(order)
    /\ \A n \in Entries : Find(skl, Key[n]) =
          LET equal == SelectSeq(order, LAMBDA m : Key[m] = Key[n]) IN IF equal = <<>> THEN Nil ELSE Head(equal)
    /\ \A i \in 2 .. MaxLevel :
          OnLevel(i) = SelectSeq(OnLevel(i - 1), LAMBDA m : \E j \in DOMAIN OnLevel(i) : OnLevel(i)[j] = m)
    /\ \A i \in skl.level + 1 .. MaxLevel : OnLevel(i) = <<>>
=============================================================================
