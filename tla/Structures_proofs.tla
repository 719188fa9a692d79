-------------------------- MODULE Structures_proofs --------------------------
(***************************************************************************)
(* Both rings hold what was put in them: the deque for every capacity, and *)
(* the queue for every capacity that divides the range of its indices,     *)
(* under every interleaving of its two ends.  What an arena, a pool and a  *)
(* slot map hand out stays its holder's, for every size of each.  And a    *)
(* hash table gives back what was put in it, whatever its keys' hashes.    *)
(***************************************************************************)
EXTENDS Rings, Storage, HashMap, SequenceTheorems, FiniteSetTheorems, WellFoundedInduction, TLAPS

-----------------------------------------------------------------------------
(* Remainders *)

\* What a division leaves.
LEMMA DivMod ==
  ASSUME NEW x \in Int, NEW c \in Nat \ {0}
  PROVE  x \div c \in Int /\ x % c \in 0 .. c - 1 /\ x = c * (x \div c) + (x % c)
  OBVIOUS

\* The remainder is the only one.
LEMMA ModUnique ==
  ASSUME NEW c \in Nat \ {0}, NEW a \in Int, NEW b \in 0 .. c - 1
  PROVE  (c * a + b) % c = b
  OBVIOUS

\* Whole turns leave the remainder.
LEMMA ModPlus ==
  ASSUME NEW c \in Nat \ {0}, NEW x \in Int, NEW k \in Int
  PROVE  (x + c * k) % c = x % c
<1>1. x + c * k = c * ((x \div c) + k) + (x % c)
  <2>1. PICK d \in Int, r \in 0 .. c - 1 : d = x \div c /\ r = x % c /\ x = c * d + r
    BY DivMod
  <2>2. c * (d + k) = c * d + c * k
     OBVIOUS
  <2> QED
    BY <2>1, <2>2
<1>2. (x \div c) + k \in Int /\ x % c \in 0 .. c - 1
  BY DivMod
<1> QED
  BY <1>1, <1>2, ModUnique

\* Numbers less than a turn apart have different remainders.
LEMMA ModNear ==
  ASSUME NEW c \in Nat \ {0}, NEW x \in Int, NEW y \in Int, x < y, y < x + c
  PROVE  x % c # y % c
<1>1. PICK d \in Int, r \in 0 .. c - 1 : r = x % c /\ x = c * d + r
    BY DivMod
<1>2. CASE r + (y - x) < c
  <2> DEFINE b == r + (y - x)
  <2>1. y = c * d + b
    BY <1>1
  <2>2. b \in 0 .. c - 1
    BY <1>2
  <2>3. b # r
    OBVIOUS
  <2> HIDE DEF b
  <2>4. y % c = b
    BY <2>1, <2>2, ModUnique
  <2> QED
    BY <2>3, <2>4, <1>1
<1>3. CASE r + (y - x) >= c
  <2> DEFINE b == r + (y - x) - c
             e == d + 1
  <2>1. y = c * e + b
    BY <1>1
  <2>2. b \in 0 .. c - 1 /\ e \in Int
    BY <1>3
  <2>3. b # r
    OBVIOUS
  <2> HIDE DEF b, e
  <2>4. y % c = b
    BY <2>1, <2>2, ModUnique
  <2> QED
    BY <2>3, <2>4, <1>1
<1> QED
  BY <1>2, <1>3

\* A number taken modulo a multiple of c on the way has the same remainder: the free-running indices.
LEMMA ModShift ==
  ASSUME NEW c \in Nat \ {0}, NEW w \in Nat \ {0}, w % c = 0, NEW x \in Int, NEW j \in Int
  PROVE  ((x % w) + j) % c = (x + j) % c
<1>1. PICK d \in Int, r \in Int : r = x % w /\ x = w * d + r
  <2>1. x \div w \in Int /\ x % w \in Int /\ x = w * (x \div w) + (x % w)
    BY DivMod
  <2> QED
    BY <2>1
<1>2. PICK m \in Int : w = c * m
  <2>1. w \div c \in Int /\ w = c * (w \div c) + (w % c)
    BY DivMod
  <2>2. w = c * (w \div c)
    BY <2>1
  <2> QED
    BY <2>1, <2>2
<1> DEFINE k == m * d
           s == r + j
<1>3. s \in Int /\ k \in Int /\ x + j = s + c * k
  <2>1. (c * m) * d = c * (m * d)
    OBVIOUS
  <2>2. x = (c * m) * d + r
    BY <1>1, <1>2
  <2>3. k \in Int
    OBVIOUS
  <2> QED
    BY <2>1, <2>2, <2>3
<1> HIDE DEF k, s
<1>4. (s + c * k) % c = s % c
  BY <1>3, ModPlus, Zenon
<1> QED
  BY <1>1, <1>3, <1>4 DEF s

-----------------------------------------------------------------------------
(* Sequences without their last elements, and without their first *)

LEMMA PrefixProperties ==
  ASSUME NEW S, NEW s \in Seq(S), NEW n \in 0 .. Len(s)
  PROVE  /\ SubSeq(s, 1, n) \in Seq(S) /\ Len(SubSeq(s, 1, n)) = n
         /\ \A i \in 1 .. n : SubSeq(s, 1, n)[i] = s[i]
<1>1. Len(s) \in Nat
  BY LenProperties
<1>2. \A i \in 1 .. n : s[i] \in S
  BY <1>1, ElementOfSeq
<1> QED
  BY <1>1, <1>2

LEMMA FrontProperties ==
  ASSUME NEW S, NEW s \in Seq(S), s # <<>>
  PROVE  /\ Front(s) \in Seq(S) /\ Len(Front(s)) = Len(s) - 1
         /\ \A i \in 1 .. Len(s) - 1 : Front(s)[i] = s[i]
<1> DEFINE n == Len(s) - 1
<1>1. n \in 0 .. Len(s)
  BY EmptySeq, LenProperties
<1> HIDE DEF n
<1>2. /\ SubSeq(s, 1, n) \in Seq(S) /\ Len(SubSeq(s, 1, n)) = n
      /\ \A i \in 1 .. n : SubSeq(s, 1, n)[i] = s[i]
  BY <1>1, PrefixProperties
<1> QED
  BY <1>2 DEF Front, n

LEMMA SuffixProperties ==
  ASSUME NEW S, NEW s \in Seq(S), NEW c \in 0 .. Len(s)
  PROVE  /\ SubSeq(s, c + 1, Len(s)) \in Seq(S) /\ Len(SubSeq(s, c + 1, Len(s))) = Len(s) - c
         /\ \A i \in 1 .. Len(s) - c : SubSeq(s, c + 1, Len(s))[i] = s[c + i]
<1>1. Len(s) \in Nat
  BY LenProperties
<1>2. \A i \in 1 .. Len(s) : s[i] \in S
  BY <1>1, ElementOfSeq
<1> QED
  BY <1>1, <1>2

-----------------------------------------------------------------------------
(* The deque *)

\* Deques of one capacity.  An empty one without memory has capacity 0.
DequeOf(n) == [ head : {h \in 0 .. n : n > 0 => h < n}, len : 0 .. n, cap : {n}, data : [0 .. n - 1 -> Items \cup {None}] ]
Deque == UNION {DequeOf(n) : n \in Nat}

LEMMA DequeFields ==
  ASSUME NEW d \in Deque
  PROVE  /\ d \in DequeOf(d.cap)
         /\ d.cap \in Nat /\ d.len \in 0 .. d.cap /\ d.head \in 0 .. d.cap /\ (d.cap > 0 => d.head < d.cap)
         /\ d.data \in [0 .. d.cap - 1 -> Items \cup {None}]
<1>1. PICK n \in Nat : d \in DequeOf(n)
  BY DEF Deque
<1> QED
  BY <1>1 DEF DequeOf

LEMMA DequeIsRecord ==
  ASSUME NEW d \in Deque
  PROVE  d = [head |-> d.head, len |-> d.len, cap |-> d.cap, data |-> d.data]
<1>1. d \in DequeOf(d.cap)
  BY DequeFields
<1> QED
  BY <1>1 DEF DequeOf

LEMMA DequeOfIsDeque ==
  ASSUME NEW n \in Nat, NEW d \in DequeOf(n)
  PROVE  d \in Deque
  BY DEF Deque

\* The places of the elements are slots of the buffer, and different ones.
LEMMA SlotsApart ==
  ASSUME NEW d \in Deque, NEW i \in 0 .. d.cap - 1, NEW j \in 0 .. d.cap - 1
  PROVE  /\ SlotOf(d, i) \in 0 .. d.cap - 1
         /\ i # j => SlotOf(d, i) # SlotOf(d, j)
  BY SMTT(30), DequeFields DEF SlotOf

\* What IsDeque says of a deque and the elements it should have.
Holds(d, s) == d.len = Len(s) /\ \A i \in 0 .. d.len - 1 : ElementAt(d, i) = s[i + 1]

\* A larger buffer has the same elements, from its first slot on.
LEMMA GrownHolds ==
  ASSUME NEW d \in Deque, NEW s, Holds(d, s), d.len = d.cap
  PROVE  Grown(d) \in Deque /\ Holds(Grown(d), s) /\ Grown(d).len < Grown(d).cap
<1> DEFINE w == Want(d)
<1>1. d = [head |-> d.head, len |-> d.len, cap |-> d.cap, data |-> d.data]
  BY DequeIsRecord
<1>. PICK g : g = Grown(d)
  OBVIOUS
<1>2. w \in Nat /\ w > d.cap
  BY DequeFields DEF Want
<1>3. g = [head |-> 0, len |-> d.len, cap |-> w, data |-> [i \in 0 .. w - 1 |-> IF i < d.len THEN ElementAt(d, i) ELSE None]]
  BY <1>1 DEF Grown
<1>4. \A i \in 0 .. d.len - 1 : ElementAt(d, i) \in Items \cup {None}
  BY SlotsApart, DequeFields DEF ElementAt
<1>5. g \in DequeOf(w)
  BY <1>2, <1>3, <1>4, DequeFields DEF DequeOf
<1>6. \A i \in 0 .. d.len - 1 : ElementAt(g, i) = ElementAt(d, i)
  <2> TAKE i \in 0 .. d.len - 1
  <2>1. SlotOf(g, i) = i /\ i \in 0 .. w - 1
    BY <1>2, <1>3, DequeFields DEF SlotOf
  <2>2. g.data[i] = ElementAt(d, i)
    BY <2>1, <1>3, DequeFields
  <2>3. ElementAt(g, i) = g.data[SlotOf(g, i)]
    BY DEF ElementAt
  <2> QED
    BY <2>1, <2>2, <2>3
<1> QED
  BY <1>2, <1>3, <1>5, <1>6, DequeOfIsDeque, DequeFields DEF Holds

LEMMA RoomHolds ==
  ASSUME NEW d \in Deque, NEW s, Holds(d, s)
  PROVE  Room(d) \in Deque /\ Holds(Room(d), s) /\ Room(d).len < Room(d).cap
<1>1. CASE d.len = d.cap
  BY <1>1, GrownHolds DEF Room
<1>2. CASE d.len # d.cap
  BY <1>2, DequeFields DEF Room
<1> QED
  BY <1>1, <1>2

\* An element added at the back of a deque with room, and one added at the front.
LEMMA AtBackHolds ==
  ASSUME NEW d \in Deque, d.len < d.cap, NEW s \in Seq(Items), Holds(d, s), NEW x \in Items
  PROVE  AtBack(d, x) \in Deque /\ Holds(AtBack(d, x), Append(s, x))
<1> DEFINE p == SlotOf(d, d.len)
<1>1. /\ d = [head |-> d.head, len |-> d.len, cap |-> d.cap, data |-> d.data]
      /\ d.cap \in Nat /\ d.len \in 0 .. d.cap /\ d.head \in 0 .. d.cap - 1
      /\ d.data \in [0 .. d.cap - 1 -> Items \cup {None}]
  BY DequeIsRecord, DequeFields
<1>. PICK b : b = AtBack(d, x)
  OBVIOUS
<1>2. p \in 0 .. d.cap - 1
  BY <1>1, SlotsApart
<1>3. b = [head |-> d.head, len |-> d.len + 1, cap |-> d.cap, data |-> [d.data EXCEPT ![p] = x]]
  BY <1>1 DEF AtBack
<1>4. b \in DequeOf(d.cap)
  BY <1>2, <1>3, <1>1 DEF DequeOf
<1>5. \A i \in 0 .. d.len : SlotOf(b, i) = SlotOf(d, i)
  BY <1>3 DEF SlotOf
<1> HIDE DEF p
<1>6. \A i \in 0 .. d.len - 1 : ElementAt(b, i) = ElementAt(d, i)
  <2> TAKE i \in 0 .. d.len - 1
  <2>1. SlotOf(d, i) \in 0 .. d.cap - 1 /\ SlotOf(d, i) # p
    BY <1>1, SlotsApart DEF p
  <2>2. b.data[SlotOf(d, i)] = d.data[SlotOf(d, i)]
    BY <1>1, <1>2, <1>3, <2>1
  <2>3. SlotOf(b, i) = SlotOf(d, i)
    BY <1>1, <1>5
  <2> QED
    BY <2>2, <2>3, Zenon DEF ElementAt
<1>7. ElementAt(b, d.len) = x
  <2>1. SlotOf(b, d.len) = p
    BY <1>1, <1>5 DEF p
  <2>2. b.data[p] = x
    BY <1>1, <1>2, <1>3
  <2> QED
    BY <2>1, <2>2, Zenon DEF ElementAt
<1>8. /\ Len(Append(s, x)) = Len(s) + 1 /\ Append(s, x)[Len(s) + 1] = x
      /\ \A i \in 1 .. Len(s) : Append(s, x)[i] = s[i]
  BY AppendProperties
<1>9. d.len \in Nat /\ d.len = Len(s) /\ b.len = d.len + 1
  BY <1>3, <1>1 DEF Holds
<1>10. \A i \in 0 .. d.len - 1 : ElementAt(b, i) = Append(s, x)[i + 1]
  BY <1>6, <1>8, <1>9 DEF Holds
<1> QED
  BY <1>4, <1>7, <1>8, <1>9, <1>10, DequeOfIsDeque, <1>1 DEF Holds

LEMMA AtFrontHolds ==
  ASSUME NEW d \in Deque, d.len < d.cap, NEW s \in Seq(Items), Holds(d, s), NEW x \in Items
  PROVE  AtFront(d, x) \in Deque /\ Holds(AtFront(d, x), <<x>> \o s)
<1> DEFINE p == Before(d)
<1>1. /\ d = [head |-> d.head, len |-> d.len, cap |-> d.cap, data |-> d.data]
      /\ d.cap \in Nat /\ d.len \in 0 .. d.cap /\ d.head \in 0 .. d.cap - 1
      /\ d.data \in [0 .. d.cap - 1 -> Items \cup {None}]
  BY DequeIsRecord, DequeFields
<1>. PICK f : f = AtFront(d, x)
  OBVIOUS
<1>2. p \in 0 .. d.cap - 1
  BY <1>1 DEF Before
<1>3. f = [head |-> p, len |-> d.len + 1, cap |-> d.cap, data |-> [d.data EXCEPT ![p] = x]]
  BY <1>1 DEF AtFront
<1>4. f \in DequeOf(d.cap)
  BY <1>2, <1>3, <1>1 DEF DequeOf
<1>5. SlotOf(f, 0) = p
  BY <1>2, <1>3, <1>1 DEF SlotOf
<1>6. \A i \in 1 .. d.len : ElementAt(f, i) = ElementAt(d, i - 1)
  <2> TAKE i \in 1 .. d.len
  <2>1. SlotOf(f, i) = SlotOf(d, i - 1)
    BY <1>3, <1>1 DEF SlotOf, Before
  <2>2. SlotOf(d, i - 1) \in 0 .. d.cap - 1 /\ SlotOf(d, i - 1) # p
    BY <1>1 DEF SlotOf, Before
  <2> HIDE DEF p
  <2>3. f.data[SlotOf(d, i - 1)] = d.data[SlotOf(d, i - 1)]
    BY <1>1, <1>2, <1>3, <2>2
  <2> QED
    BY <2>1, <2>3, Zenon DEF ElementAt
<1>7. ElementAt(f, 0) = x
  <2> HIDE DEF p
  <2>1. f.data[p] = x
    BY <1>1, <1>2, <1>3
  <2> QED
    BY <2>1, <1>5, Zenon DEF ElementAt
<1>8. /\ Len(<<x>> \o s) = Len(s) + 1 /\ (<<x>> \o s)[1] = x
      /\ \A i \in 1 .. Len(s) : (<<x>> \o s)[i + 1] = s[i]
  <2>1. <<x>> \in Seq(Items) /\ Len(<<x>>) = 1 /\ <<x>>[1] = x
    OBVIOUS
  <2>2. Len(s) \in Nat
    BY LenProperties
  <2> QED
    BY <2>1, <2>2, ConcatProperties
<1>9. d.len \in Nat /\ d.len = Len(s) /\ f.len = d.len + 1
  BY <1>3, <1>1 DEF Holds
<1>10. \A i \in 1 .. d.len : ElementAt(f, i) = (<<x>> \o s)[i + 1]
  <2> TAKE i \in 1 .. d.len
  <2> HIDE DEF p
  <2>1. i - 1 \in 0 .. d.len - 1 /\ (i - 1) + 1 = i /\ i \in 1 .. Len(s)
    BY <1>9
  <2>2. ElementAt(d, i - 1) = s[i]
    BY <2>1 DEF Holds
  <2>3. ElementAt(f, i) = ElementAt(d, i - 1)
    BY <1>6
  <2>4. (<<x>> \o s)[i + 1] = s[i]
    BY <1>8, <2>1
  <2> QED
    BY <2>2, <2>3, <2>4
<1>11. \A i \in 0 .. f.len - 1 : ElementAt(f, i) = (<<x>> \o s)[i + 1]
  <2> TAKE i \in 0 .. f.len - 1
  <2>1. i = 0 \/ i \in 1 .. d.len
    BY <1>9
  <2>2. CASE i = 0
    BY <2>2, <1>7, <1>8
  <2>3. CASE i \in 1 .. d.len
    BY <2>3, <1>10
  <2> QED
    BY <2>1, <2>2, <2>3
<1> QED
  BY <1>1, <1>4, <1>8, <1>9, <1>11, DequeOfIsDeque DEF Holds

\* The places from the second on, seen from a head one further.
LEMMA SlotAfterFirst ==
  ASSUME NEW d, NEW e, d.cap \in Nat, d.head \in 0 .. d.cap - 1, e.cap = d.cap, e.head = SlotOf(d, 1),
         NEW i \in 0 .. d.cap - 2
  PROVE  SlotOf(e, i) = SlotOf(d, i + 1)
<1>1. CASE d.head + 1 = d.cap
  <2>1. e.head = 0
    BY <1>1 DEF SlotOf
  <2> QED
    BY <1>1, <2>1 DEF SlotOf
<1>2. CASE d.head + 1 < d.cap
  <2>1. e.head = d.head + 1
    BY <1>2 DEF SlotOf
  <2> QED
    BY <1>2, <2>1 DEF SlotOf
<1> QED
  BY <1>1, <1>2

\* The last element taken, and the first.
LEMMA BackTakenHolds ==
  ASSUME NEW d \in Deque, d.len > 0, NEW s \in Seq(Items), Holds(d, s), NEW e,
         e = [d EXCEPT !.data[SlotOf(d, d.len - 1)] = None, !.len = @ - 1]
  PROVE  e \in Deque /\ Front(s) \in Seq(Items) /\ Holds(e, Front(s))
<1> DEFINE p == SlotOf(d, d.len - 1)
<1>1. /\ d = [head |-> d.head, len |-> d.len, cap |-> d.cap, data |-> d.data]
      /\ d.cap \in Nat /\ d.len \in 1 .. d.cap /\ d.head \in 0 .. d.cap - 1
      /\ d.data \in [0 .. d.cap - 1 -> Items \cup {None}]
  BY DequeIsRecord, DequeFields
<1>2. p \in 0 .. d.cap - 1
  BY <1>1, SlotsApart
<1>3. e = [head |-> d.head, len |-> d.len - 1, cap |-> d.cap, data |-> [d.data EXCEPT ![p] = None]]
  BY <1>1
<1>4. e \in DequeOf(d.cap)
  BY SMTT(30), <1>1, <1>2, <1>3 DEF DequeOf
<1>5. \A i \in 0 .. d.len - 2 : ElementAt(e, i) = ElementAt(d, i)
  <2> TAKE i \in 0 .. d.len - 2
  <2>1. SlotOf(d, i) \in 0 .. d.cap - 1 /\ SlotOf(d, i) # p
    BY <1>1, SlotsApart, SMTT(30)
  <2>2. SlotOf(e, i) = SlotOf(d, i)
    BY <1>1, <1>3 DEF SlotOf
  <2>3. e.data[SlotOf(d, i)] = d.data[SlotOf(d, i)]
    <3>1. e.data = [d.data EXCEPT ![p] = None]
      BY <1>3
    <3> HIDE DEF p
    <3> QED
      BY <1>1, <1>2, <2>1, <3>1
  <2> QED
    BY <2>2, <2>3, Zenon DEF ElementAt
<1>6. d.len = Len(s) /\ e.len = d.len - 1
  BY <1>1, <1>3 DEF Holds
<1>7. /\ Front(s) \in Seq(Items) /\ Len(Front(s)) = Len(s) - 1
      /\ \A i \in 1 .. Len(s) - 1 : Front(s)[i] = s[i]
  <2>1. s # <<>>
    BY <1>1, <1>6
  <2> QED
    BY <2>1, FrontProperties
<1>8. \A i \in 0 .. d.len - 2 : ElementAt(e, i) = Front(s)[i + 1]
  BY SMTT(30), <1>1, <1>5, <1>6, <1>7 DEF Holds
<1> QED
  BY <1>1, <1>4, <1>6, <1>7, <1>8, DequeOfIsDeque DEF Holds

LEMMA FrontTakenHolds ==
  ASSUME NEW d \in Deque, d.len > 0, NEW s \in Seq(Items), Holds(d, s), NEW e,
         e = [d EXCEPT !.data[d.head] = None, !.head = SlotOf(d, 1), !.len = @ - 1]
  PROVE  e \in Deque /\ Tail(s) \in Seq(Items) /\ Holds(e, Tail(s))
<1> DEFINE h == SlotOf(d, 1)
<1>1. /\ d = [head |-> d.head, len |-> d.len, cap |-> d.cap, data |-> d.data]
      /\ d.cap \in Nat /\ d.len \in 1 .. d.cap /\ d.head \in 0 .. d.cap - 1
      /\ d.data \in [0 .. d.cap - 1 -> Items \cup {None}]
  BY DequeIsRecord, DequeFields
<1>2. h \in 0 .. d.cap - 1
  BY <1>1 DEF SlotOf
<1>3. e = [head |-> h, len |-> d.len - 1, cap |-> d.cap, data |-> [d.data EXCEPT ![d.head] = None]]
  BY <1>1
<1>4. e \in DequeOf(d.cap)
  BY SMTT(30), <1>1, <1>2, <1>3 DEF DequeOf
<1>5. \A i \in 0 .. d.len - 2 : ElementAt(e, i) = ElementAt(d, i + 1)
  <2> TAKE i \in 0 .. d.len - 2
  <2>1. SlotOf(d, i + 1) \in 0 .. d.cap - 1 /\ SlotOf(d, i + 1) # d.head
    BY <1>1, SMTT(30) DEF SlotOf
  <2>2. SlotOf(e, i) = SlotOf(d, i + 1)
    <3>1. e.head = h /\ e.cap = d.cap /\ i \in 0 .. d.cap - 2
      BY <1>1, <1>3
    <3> QED
      BY <1>1, <3>1, SlotAfterFirst
  <2>3. e.data[SlotOf(d, i + 1)] = d.data[SlotOf(d, i + 1)]
    BY <1>1, <1>3, <2>1
  <2> QED
    BY <2>2, <2>3, Zenon DEF ElementAt
<1>6. d.len = Len(s) /\ e.len = d.len - 1 /\ s # <<>>
  BY <1>1, <1>3 DEF Holds
<1>7. /\ Tail(s) \in Seq(Items) /\ Len(Tail(s)) = Len(s) - 1
      /\ \A i \in 1 .. Len(s) - 1 : Tail(s)[i] = s[i + 1]
  BY <1>6, HeadTailProperties
<1>8. \A i \in 0 .. d.len - 2 : ElementAt(e, i) = Tail(s)[i + 1]
  BY <1>1, <1>5, <1>6, <1>7 DEF Holds
<1> QED
  BY <1>1, <1>4, <1>6, <1>7, <1>8, DequeOfIsDeque DEF Holds

DequeInv == dq \in Deque /\ elems \in Seq(Items) /\ IsDeque

LEMMA DequeInit == InitDeque => DequeInv
<1> SUFFICES ASSUME InitDeque PROVE DequeInv
  OBVIOUS
<1>1. Empty \in DequeOf(0) /\ Empty.len = 0
  BY DEF Empty, DequeOf
<1> QED
  BY <1>1, DequeOfIsDeque DEF InitDeque, DequeInv, IsDeque

\* Every call leaves the deque with the elements it should have.
LEMMA DequeStep == DequeInv /\ [NextDeque]_dequeVars => DequeInv'
<1> SUFFICES ASSUME DequeInv, [NextDeque]_dequeVars PROVE DequeInv'
  OBVIOUS
<1>1. dq \in Deque /\ elems \in Seq(Items) /\ Holds(dq, elems)
  BY DEF DequeInv, IsDeque, Holds
<1>2. SUFFICES dq' \in Deque /\ elems' \in Seq(Items) /\ Holds(dq', elems')
  BY DEF DequeInv, IsDeque, Holds
<1>3. ASSUME NEW x \in Items, PushBack(x) PROVE dq' \in Deque /\ elems' \in Seq(Items) /\ Holds(dq', elems')
  <2>1. Room(dq) \in Deque /\ Holds(Room(dq), elems) /\ Room(dq).len < Room(dq).cap
    BY <1>1, RoomHolds
  <2>2. AtBack(Room(dq), x) \in Deque /\ Holds(AtBack(Room(dq), x), Append(elems, x))
    BY <1>1, <2>1, AtBackHolds
  <2> QED
    BY <1>1, <1>3, <2>2, AppendProperties DEF PushBack
<1>4. ASSUME NEW x \in Items, PushFront(x) PROVE dq' \in Deque /\ elems' \in Seq(Items) /\ Holds(dq', elems')
  <2>1. Room(dq) \in Deque /\ Holds(Room(dq), elems) /\ Room(dq).len < Room(dq).cap
    BY <1>1, RoomHolds
  <2>2. AtFront(Room(dq), x) \in Deque /\ Holds(AtFront(Room(dq), x), <<x>> \o elems)
    BY <1>1, <2>1, AtFrontHolds
  <2>3. <<x>> \o elems \in Seq(Items)
    BY <1>1, ConcatProperties
  <2> QED
    BY <1>4, <2>2, <2>3 DEF PushFront
<1>5. CASE PopBack
  BY <1>1, <1>5, BackTakenHolds DEF PopBack
<1>6. CASE PopFront
  BY <1>1, <1>6, FrontTakenHolds DEF PopFront
<1>7. CASE Clear
  <2>1. dq = [head |-> dq.head, len |-> dq.len, cap |-> dq.cap, data |-> dq.data]
    BY <1>1, DequeIsRecord
  <2>2. DOMAIN dq.data = 0 .. dq.cap - 1 /\ dq.cap \in Nat
    BY <1>1, DequeFields
  <2>3. dq' = [head |-> 0, len |-> 0, cap |-> dq.cap, data |-> [i \in 0 .. dq.cap - 1 |-> None]]
    BY <1>7, <2>1, <2>2 DEF Clear
  <2>4. dq' \in DequeOf(dq.cap)
    BY <2>2, <2>3 DEF DequeOf
  <2> QED
    BY <1>7, <2>2, <2>3, <2>4, DequeOfIsDeque DEF Clear, Holds
<1>8. CASE Free
  <2>1. Empty \in DequeOf(0) /\ Empty.len = 0
    BY DEF Empty, DequeOf
  <2> QED
    BY <1>8, <2>1, DequeOfIsDeque DEF Free, Holds
<1>9. CASE UNCHANGED dequeVars
  BY <1>1, <1>9 DEF dequeVars
<1> QED
  BY <1>3, <1>4, <1>5, <1>6, <1>7, <1>8, <1>9 DEF NextDeque, Fails

-----------------------------------------------------------------------------
(* The queue *)

Caps == {Capacity(n) : n \in Counts}
QueueOf(c) == [ mask : {c - 1}, head : 0 .. Wrap - 1, tail : 0 .. Wrap - 1, buf : [0 .. c - 1 -> Items \cup {None, Torn}] ]

\* The indices are apart by as many as wait, and from the tail on the buffer has what waits.
QueueWaits ==
    /\ \E c \in Caps : q \in QueueOf(c)
    /\ sent \in Seq(Items) /\ Len(sent) <= q.mask + 1 /\ q.head = (q.tail + Len(sent)) % Wrap
    /\ \A i \in 1 .. Len(sent) : q.buf[Slot(q.tail + i - 1)] = sent[i]
\* A put under way has a slot for its element, at the head, and has filled it before it publishes.
ProducerHolds ==
    \/ producer = Idle
    \/ /\ producer \in [pc : {"store", "stored", "publish"}, item : Items, head : {q.head}]
       /\ Len(sent) <= q.mask /\ (producer.pc = "publish" => q.buf[Slot(q.head)] = producer.item)
\* A take or a look under way is at the tail, and what it has copied is the first; a clear goes to where the
\* head was.
ConsumerHolds ==
    \/ consumer = Idle
    \/ consumer \in [pc : {"get", "peek"}, tail : {q.tail}] /\ sent # <<>>
    \/ consumer \in [pc : {"advance", "peeked"}, tail : {q.tail}, got : {Head(sent)}] /\ sent # <<>>
    \/ /\ consumer \in [pc : {"clear"}, head : 0 .. Wrap - 1, count : 0 .. Len(sent)]
       /\ consumer.head = (q.tail + consumer.count) % Wrap
RoomHolds_ == room \in Nat /\ room <= q.mask + 1 - Len(sent)
QueueInv == QueueWaits /\ ProducerHolds /\ ConsumerHolds /\ RoomHolds_

LEMMA CapFacts ==
  ASSUME NEW c \in Caps
  PROVE  c \in Nat \ {0} /\ Wrap \in Nat \ {0} /\ c < Wrap /\ Wrap % c = 0
  BY RingsAssumption DEF Caps

\* The indices wrap, the slots do not notice.
LEMMA Wrapped ==
  ASSUME NEW c \in Caps, NEW x \in Int, NEW j \in Int
  PROVE  /\ x % Wrap \in 0 .. Wrap - 1 /\ (x % Wrap) % c = x % c
         /\ ((x % Wrap) + j) % c = (x + j) % c
         /\ ((x % Wrap) + j) % Wrap = (x + j) % Wrap
<1>1. c \in Nat \ {0} /\ Wrap \in Nat \ {0} /\ Wrap % c = 0 /\ Wrap % Wrap = 0 /\ 0 \in Int
  <2>1. Wrap \in Nat \ {0}
    BY CapFacts
  <2>2. Wrap % Wrap = 0
    BY <2>1
  <2> QED
    BY <2>2, CapFacts
<1>2. ((x % Wrap) + j) % c = (x + j) % c
  BY <1>1, ModShift
<1>3. ((x % Wrap) + j) % Wrap = (x + j) % Wrap
  BY <1>1, ModShift
<1>4. ((x % Wrap) + 0) % c = (x + 0) % c
  BY <1>1, ModShift, Zenon
<1>5. x % Wrap \in 0 .. Wrap - 1
  BY <1>1, DivMod
<1>6. (x % Wrap) + 0 = x % Wrap /\ x + 0 = x
  BY <1>1, <1>5
<1> QED
  BY <1>2, <1>3, <1>4, <1>5, <1>6

LEMMA QueueFields ==
  ASSUME NEW c \in Caps, q \in QueueOf(c)
  PROVE  /\ q = [mask |-> c - 1, head |-> q.head, tail |-> q.tail, buf |-> q.buf]
         /\ q.mask = c - 1 /\ q.mask + 1 = c
         /\ q.head \in 0 .. Wrap - 1 /\ q.tail \in 0 .. Wrap - 1
         /\ q.buf \in [0 .. c - 1 -> Items \cup {None, Torn}]
  BY CapFacts DEF QueueOf

\* The difference of the indices is how many wait.
LEMMA MinusIsCount ==
  ASSUME NEW w \in Nat \ {0}, NEW t \in 0 .. w - 1, NEW n \in 0 .. w - 1
  PROVE  (((t + n) % w) - t) % w = n
<1>1. CASE t + n < w
  <2>1. (t + n) % w = t + n
    BY <1>1
  <2> QED
    BY <2>1
<1>2. CASE t + n >= w
  <2>1. t + n - w \in 0 .. w - 1
    BY <1>2
  <2>2. (t + n) % w = t + n - w
    BY <1>2, <2>1
  <2>3. ((t + n - w) - t) % w = n
    <3>1. (t + n - w) - t = w * (-1) + n
      OBVIOUS
    <3> QED
      BY <3>1, ModUnique
  <2> QED
    BY <2>2, <2>3
<1> QED
  BY <1>1, <1>2

LEMMA WaitingCount == QueueWaits => Minus(q.head, q.tail) = Len(sent)
<1> SUFFICES ASSUME QueueWaits PROVE Minus(q.head, q.tail) = Len(sent)
  OBVIOUS
<1>1. PICK c \in Caps : q \in QueueOf(c)
  BY DEF QueueWaits
<1>2. Len(sent) \in 0 .. Wrap - 1 /\ q.tail \in 0 .. Wrap - 1 /\ Wrap \in Nat \ {0}
  BY <1>1, CapFacts, QueueFields, LenProperties DEF QueueWaits
<1> DEFINE n == Len(sent)
           t == q.tail
<1>3. q.head = (t + n) % Wrap
  BY DEF QueueWaits
<1> HIDE DEF n, t
<1>4. (((t + n) % Wrap) - t) % Wrap = n
  BY <1>2, MinusIsCount DEF n, t
<1> QED
  BY <1>3, <1>4 DEF Minus, n, t

\* What the invariant says of the queue as a whole.
LEMMA QueueInvIsFifo == QueueInv => IsFifo /\ SpaceHolds
<1> SUFFICES ASSUME QueueInv PROVE IsFifo /\ SpaceHolds
  OBVIOUS
<1>1. PICK c \in Caps : q \in QueueOf(c)
  BY DEF QueueInv, QueueWaits
<1>2. Minus(q.head, q.tail) = Len(sent) /\ Len(sent) <= q.mask + 1 /\ Len(sent) \in Nat
  BY WaitingCount, LenProperties DEF QueueInv, QueueWaits
<1>3. ASSUME NEW i \in 1 .. Len(sent) PROVE q.buf[Slot((q.tail + i - 1) % Wrap)] = sent[i]
  <2> DEFINE x == q.tail + i - 1
  <2>1. x \in Int
    BY <1>1, <1>2, CapFacts, QueueFields
  <2> HIDE DEF x
  <2>2. (x % Wrap) % c = x % c
    BY <1>1, <2>1, Wrapped
  <2>3. Slot(x % Wrap) = Slot(x)
    BY <1>1, <2>2, QueueFields DEF Slot
  <2> QED
    BY <2>3 DEF x, QueueInv, QueueWaits
<1>4. consumer.pc \in {"advance", "peeked"} => sent # <<>> /\ consumer.got = Head(sent)
  BY DEF QueueInv, ConsumerHolds, Idle
<1> QED
  BY <1>2, <1>3, <1>4 DEF IsFifo, SpaceHolds, QueueInv, RoomHolds_

LEMMA QueueInit == InitQueue => QueueInv
<1> SUFFICES ASSUME InitQueue PROVE QueueInv
  OBVIOUS
<1>1. PICK n \in Counts : q = [mask |-> Capacity(n) - 1, head |-> 0, tail |-> 0,
                               buf |-> [i \in 0 .. Capacity(n) - 1 |-> None]]
  BY DEF InitQueue
<1> DEFINE c == Capacity(n)
<1>2. c \in Caps
  BY DEF Caps
<1> HIDE DEF c
<1>3. c \in Nat \ {0} /\ Wrap \in Nat \ {0}
  BY <1>2, CapFacts
<1>4. q \in QueueOf(c) /\ q.mask + 1 = c /\ q.head = 0 /\ q.tail = 0
  BY <1>1, <1>3 DEF QueueOf, c
<1>5. sent = <<>> /\ sent \in Seq(Items) /\ Len(sent) = 0 /\ room = 0 /\ producer = Idle /\ consumer = Idle
  BY DEF InitQueue
<1>6. (0 + 0) % Wrap = 0
  BY <1>3
<1> QED
  BY <1>2, <1>3, <1>4, <1>5, <1>6 DEF QueueInv, QueueWaits, ProducerHolds, ConsumerHolds, RoomHolds_

\* With room for one more, the slot at the head is none of those that wait.
LEMMA HeadSlotFree ==
  ASSUME QueueWaits, Len(sent) <= q.mask
  PROVE  /\ Slot(q.head) \in 0 .. q.mask /\ Slot(q.head) = Slot(q.tail + Len(sent))
         /\ \A i \in 1 .. Len(sent) : Slot(q.tail + i - 1) \in 0 .. q.mask /\ Slot(q.tail + i - 1) # Slot(q.head)
<1>1. PICK c \in Caps : q \in QueueOf(c)
  BY DEF QueueWaits
<1>2. /\ c \in Nat \ {0} /\ q.mask = c - 1 /\ q.mask + 1 = c /\ q.tail \in Int
      /\ Len(sent) \in Nat /\ q.head = (q.tail + Len(sent)) % Wrap
  BY <1>1, CapFacts, QueueFields, LenProperties DEF QueueWaits
<1> DEFINE x == q.tail + Len(sent)
<1>3. x \in Int /\ 0 \in Int
  BY <1>2
<1>4. Slot(q.head) = x % c /\ Slot(x) = x % c
  <2>1. q.head = x % Wrap
    BY <1>2
  <2> HIDE DEF x
  <2>2. (x % Wrap) % c = x % c
    BY <1>1, <1>3, Wrapped
  <2> QED
    BY <1>2, <2>1, <2>2 DEF Slot
<1>5. x % c \in 0 .. c - 1
  BY <1>2, <1>3, DivMod
<1>6. ASSUME NEW i \in 1 .. Len(sent)
      PROVE  Slot(q.tail + i - 1) \in 0 .. q.mask /\ Slot(q.tail + i - 1) # Slot(q.head)
  <2> DEFINE y == q.tail + i - 1
  <2>1. y \in Int /\ y < x /\ x < y + c
    BY SMTT(30), <1>2
  <2> HIDE DEF x, y
  <2>2. y % c # x % c
    BY <1>2, <1>3, <2>1, ModNear
  <2>3. y % c \in 0 .. c - 1
    BY <1>2, <2>1, DivMod
  <2>4. Slot(y) = y % c
    BY <1>2 DEF Slot
  <2> QED
    BY <1>2, <1>4, <2>2, <2>3, <2>4 DEF y
<1> QED
  BY <1>2, <1>4, <1>5, <1>6

\* Steps that neither write the buffer nor move an index.
LEMMA QuietStep ==
  ASSUME QueueInv, UNCHANGED <<q, sent>>
  PROVE  QueueWaits'
  BY DEF QueueInv, QueueWaits, Slot

LEMMA PutBeginStep ==
  ASSUME QueueInv, NEW x \in Items, PutBegin(x)
  PROVE  QueueInv'
<1>1. Minus(q.head, q.tail) = Len(sent)
  BY WaitingCount DEF QueueInv
<1>2. QueueWaits'
  BY QuietStep DEF PutBegin
<1>3. producer' \in [pc : {"store"}, item : Items, head : {q.head}] /\ UNCHANGED <<q, sent>>
  BY DEF PutBegin
<1>4. ProducerHolds'
  BY <1>1, <1>3 DEF ProducerHolds, PutBegin
<1> QED
  BY <1>2, <1>4 DEF QueueInv, ConsumerHolds, RoomHolds_, PutBegin

LEMMA SpaceStep ==
  ASSUME QueueInv, Space
  PROVE  QueueInv'
<1>1. Minus(q.head, q.tail) = Len(sent) /\ Len(sent) \in Nat /\ q.mask \in Nat /\ Len(sent) <= q.mask + 1
  <2>1. PICK c \in Caps : q \in QueueOf(c)
    BY DEF QueueInv, QueueWaits
  <2> QED
    BY <2>1, CapFacts, QueueFields, WaitingCount, LenProperties DEF QueueInv, QueueWaits
<1>2. QueueWaits'
  BY QuietStep DEF Space
<1>3. RoomHolds_'
  BY <1>1 DEF Space, RoomHolds_
<1> QED
  BY <1>2, <1>3 DEF QueueInv, ProducerHolds, ConsumerHolds, Space

\* The element is written where nothing waits.
LEMMA StoreStep ==
  ASSUME QueueInv, StoreBegin \/ StoreEnd
  PROVE  QueueInv'
<1>1. PICK c \in Caps : q \in QueueOf(c)
  BY DEF QueueInv, QueueWaits
<1>2. /\ producer \in [pc : {"store", "stored"}, item : Items, head : {q.head}] /\ Len(sent) <= q.mask
      /\ UNCHANGED <<consumer, sent, room>>
  BY DEF QueueInv, ProducerHolds, StoreBegin, StoreEnd, Idle
<1> DEFINE p == Slot(q.head)
<1>3. PICK e \in Items \cup {None, Torn} :
        /\ q' = [q EXCEPT !.buf[p] = e]
        /\ (producer'.pc = "publish" => e = producer.item)
        /\ \E pc \in {"stored", "publish"} : producer' = [producer EXCEPT !.pc = pc]
  BY <1>2 DEF StoreBegin, StoreEnd
<1>4. /\ c \in Nat \ {0} /\ q = [mask |-> c - 1, head |-> q.head, tail |-> q.tail, buf |-> q.buf]
      /\ q.buf \in [0 .. c - 1 -> Items \cup {None, Torn}] /\ q.head \in 0 .. Wrap - 1 /\ q.tail \in 0 .. Wrap - 1
      /\ q.mask = c - 1
  BY <1>1, CapFacts, QueueFields
<1>5. p \in 0 .. c - 1 /\ \A i \in 1 .. Len(sent) : Slot(q.tail + i - 1) \in 0 .. c - 1 /\ Slot(q.tail + i - 1) # p
  BY <1>2, <1>4, HeadSlotFree DEF QueueInv
<1> HIDE DEF p
<1>6. q' = [mask |-> c - 1, head |-> q.head, tail |-> q.tail, buf |-> [q.buf EXCEPT ![p] = e]]
  BY <1>3, <1>4
<1>7. q' \in QueueOf(c) /\ q'.mask = q.mask /\ q'.head = q.head /\ q'.tail = q.tail /\ q'.buf = [q.buf EXCEPT ![p] = e]
  BY <1>4, <1>5, <1>6 DEF QueueOf
<1>8. ASSUME NEW i \in 1 .. Len(sent)
      PROVE  q'.buf[Slot(q.tail + i - 1)] = sent[i]
  <2> DEFINE k == Slot(q.tail + i - 1)
  <2>1. k \in 0 .. c - 1 /\ k # p /\ q.buf[k] = sent[i]
    BY <1>5 DEF QueueInv, QueueWaits
  <2> HIDE DEF k
  <2>2. q'.buf[k] = q.buf[k]
    BY <1>4, <1>5, <1>7, <2>1
  <2> QED
    BY <2>1, <2>2 DEF k
<1>9. QueueWaits'
  BY <1>1, <1>2, <1>7, <1>8 DEF QueueInv, QueueWaits, Slot
<1>10. q'.buf[p] = e
  BY <1>4, <1>5, <1>7
<1>11. ProducerHolds'
  BY <1>2, <1>3, <1>7, <1>10 DEF ProducerHolds, Slot, p
<1> QED
  BY <1>2, <1>7, <1>9, <1>11 DEF QueueInv, ConsumerHolds, RoomHolds_

\* The element at the head is the next that waits.
LEMMA PublishStep ==
  ASSUME QueueInv, Publish
  PROVE  QueueInv'
<1>1. PICK c \in Caps : q \in QueueOf(c)
  BY DEF QueueInv, QueueWaits
<1>2. /\ producer.item \in Items /\ producer.head = q.head /\ Len(sent) <= q.mask
      /\ q.buf[Slot(q.head)] = producer.item
  BY DEF QueueInv, ProducerHolds, Publish, Idle
<1>3. /\ c \in Nat \ {0} /\ q = [mask |-> c - 1, head |-> q.head, tail |-> q.tail, buf |-> q.buf]
      /\ q.buf \in [0 .. c - 1 -> Items \cup {None, Torn}] /\ q.head \in 0 .. Wrap - 1 /\ q.tail \in 0 .. Wrap - 1
      /\ q.mask = c - 1 /\ Wrap \in Nat \ {0} /\ Len(sent) \in Nat /\ sent \in Seq(Items)
  BY <1>1, CapFacts, QueueFields, LenProperties DEF QueueInv, QueueWaits
<1> DEFINE n == Len(sent)
           x == q.tail + n
<1>4. Plus1(q.head) = (q.tail + (n + 1)) % Wrap /\ Plus1(q.head) \in 0 .. Wrap - 1
  <2>a. q.head = x % Wrap
    BY DEF QueueInv, QueueWaits
  <2>b. q.tail \in Int /\ n \in Int /\ q.head \in Int
    BY <1>3
  <2> HIDE DEF n
  <2>c. x \in Int /\ 1 \in Int /\ x + 1 = q.tail + (n + 1) /\ q.head + 1 \in Int
    BY <2>b
  <2>1. x \in Int /\ 1 \in Int /\ q.head = x % Wrap /\ x + 1 = q.tail + (n + 1) /\ q.head + 1 \in Int
    BY <2>a, <2>c
  <2>2. (q.head + 1) % Wrap \in 0 .. Wrap - 1
    BY <1>3, <2>1, DivMod
  <2> HIDE DEF x
  <2>3. ((x % Wrap) + 1) % Wrap = (x + 1) % Wrap
    BY <1>1, <2>1, Wrapped
  <2> QED
    BY <2>1, <2>2, <2>3 DEF Plus1
<1>5. q' = [mask |-> c - 1, head |-> Plus1(q.head), tail |-> q.tail, buf |-> q.buf]
  BY <1>2, <1>3 DEF Publish
<1>6. q' \in QueueOf(c) /\ q'.mask = q.mask /\ q'.tail = q.tail /\ q'.buf = q.buf /\ q'.head = Plus1(q.head)
  BY <1>3, <1>4, <1>5 DEF QueueOf
<1>7. /\ sent' \in Seq(Items) /\ Len(sent') = n + 1 /\ sent'[n + 1] = producer.item /\ sent' # <<>>
      /\ \A i \in 1 .. n : sent'[i] = sent[i]
  BY <1>2, <1>3, AppendProperties DEF Publish
<1>8. ASSUME NEW i \in 1 .. n + 1
      PROVE  q.buf[Slot(q.tail + i - 1)] = sent'[i]
  <2>1. CASE i \in 1 .. n
    BY <2>1, <1>7 DEF QueueInv, QueueWaits
  <2>2. CASE i = n + 1
    <3>1. q.tail + i - 1 = q.tail + Len(sent)
      BY <2>2, <1>3
    <3>2. Slot(q.head) = Slot(q.tail + Len(sent))
      BY <1>2, HeadSlotFree DEF QueueInv
    <3> QED
      BY <3>1, <3>2, <1>2, <1>7, <2>2
  <2> QED
    BY <2>1, <2>2, <1>3
<1>9. QueueWaits'
  <2>1. \A i \in 1 .. Len(sent') : q'.buf[Slot(q.tail + i - 1)] = sent'[i]
    BY <1>6, <1>7, <1>8
  <2>2. \A i \in 1 .. Len(sent') : q'.buf[(q'.tail + i - 1) % (q'.mask + 1)] = sent'[i]
    BY <2>1, <1>6 DEF Slot
  <2>3. Len(sent') <= q'.mask + 1 /\ q'.head = (q'.tail + Len(sent')) % Wrap
    BY <1>2, <1>3, <1>4, <1>6, <1>7
  <2> QED
    BY <1>1, <1>6, <1>7, <2>2, <2>3 DEF QueueWaits, Slot
<1>10. ConsumerHolds'
  <2>1. sent # <<>> => Head(sent') = Head(sent)
    BY <1>2, <1>3, HeadTailAppend DEF Publish
  <2>2. consumer' = consumer
    BY DEF Publish
  <2> QED
    BY <1>3, <1>6, <1>7, <2>1, <2>2 DEF QueueInv, ConsumerHolds
<1>11. RoomHolds_'
  BY <1>2, <1>3, <1>6, <1>7, SMTT(30) DEF QueueInv, RoomHolds_, Publish
<1>12. ProducerHolds'
  BY DEF Publish, ProducerHolds
<1> QED
  BY <1>9, <1>10, <1>11, <1>12 DEF QueueInv

\* The tail goes on over the first n of those that wait: one of them for a take, all that waited when it began for
\* a clear.
LEMMA TailGoesOn ==
  ASSUME QueueInv, NEW n \in 0 .. Len(sent),
         q' = [q EXCEPT !.tail = (q.tail + n) % Wrap], UNCHANGED <<producer, room>>,
         sent' \in Seq(Items), Len(sent') = Len(sent) - n, \A i \in 1 .. Len(sent) - n : sent'[i] = sent[n + i]
  PROVE  QueueWaits' /\ ProducerHolds' /\ RoomHolds_'
<1>1. PICK c \in Caps : q \in QueueOf(c)
  BY DEF QueueInv, QueueWaits
<1>2. /\ c \in Nat \ {0} /\ q = [mask |-> c - 1, head |-> q.head, tail |-> q.tail, buf |-> q.buf]
      /\ q.buf \in [0 .. c - 1 -> Items \cup {None, Torn}] /\ q.head \in 0 .. Wrap - 1 /\ q.tail \in 0 .. Wrap - 1
      /\ q.mask = c - 1 /\ q.mask + 1 = c /\ Wrap \in Nat \ {0} /\ Len(sent) \in Nat /\ Len(sent) <= q.mask + 1
  BY <1>1, CapFacts, QueueFields, LenProperties DEF QueueInv, QueueWaits
<1> DEFINE x == q.tail + n
           m == Len(sent) - n
<1>3. x \in Int /\ x % Wrap \in 0 .. Wrap - 1 /\ m \in Nat
  <2>1. n \in Int /\ q.tail \in Int /\ Len(sent) \in Int /\ n <= Len(sent)
    BY <1>2
  <2>2. x \in Int
    BY <2>1
  <2>3. m \in Nat
    BY <1>2, <2>1
  <2> HIDE DEF x, m
  <2>4. x % Wrap \in 0 .. Wrap - 1
    BY <1>2, <2>2, DivMod
  <2> QED
    BY <2>2, <2>3, <2>4
<1>4. q' = [mask |-> c - 1, head |-> q.head, tail |-> x % Wrap, buf |-> q.buf]
  BY <1>2
<1>5. q' \in QueueOf(c) /\ q'.mask = q.mask /\ q'.tail = x % Wrap /\ q'.buf = q.buf /\ q'.head = q.head
  BY <1>2, <1>3, <1>4 DEF QueueOf
<1>6. q.head = ((x % Wrap) + m) % Wrap
  <2>a. q.head = (q.tail + Len(sent)) % Wrap
    BY DEF QueueInv, QueueWaits
  <2>b. q.tail \in Int /\ Len(sent) \in Int /\ n \in Int
    BY <1>2
  <2>c. q.tail + Len(sent) = x + m
    BY <2>b
  <2>1. q.head = (q.tail + Len(sent)) % Wrap /\ q.tail + Len(sent) = x + m
    BY <2>a, <2>c
  <2> HIDE DEF x, m
  <2>2. ((x % Wrap) + m) % Wrap = (x + m) % Wrap
    BY <1>1, <1>3, Wrapped
  <2> QED
    BY <2>1, <2>2
<1>7. ASSUME NEW i \in 1 .. m
      PROVE  q'.buf[((x % Wrap) + i - 1) % c] = sent'[i]
  <2> DEFINE j == i - 1
  <2>a. n \in 0 .. Len(sent) /\ Len(sent) \in Nat /\ q.tail \in Int /\ i \in Int /\ x % Wrap \in Int
    BY <1>2, <1>3
  <2>b. j \in Int /\ n + i \in 1 .. Len(sent)
    BY <2>a
  <2>c. x + j = q.tail + (n + i) - 1
    BY <2>a
  <2>d. (x % Wrap) + i - 1 = (x % Wrap) + j
    <3> HIDE DEF x
    <3> QED
      BY <2>a
  <2>1. j \in Int /\ n + i \in 1 .. Len(sent) /\ x + j = q.tail + (n + i) - 1 /\ (x % Wrap) + i - 1 = (x % Wrap) + j
    BY <2>b, <2>c, <2>d
  <2>2. q.buf[Slot(q.tail + (n + i) - 1)] = sent[n + i]
    BY <2>1 DEF QueueInv, QueueWaits
  <2> HIDE DEF x, j
  <2>3. ((x % Wrap) + j) % c = (x + j) % c
    BY <1>1, <1>3, <2>1, Wrapped
  <2>4. Slot(x + j) = (x + j) % c
    BY <1>2 DEF Slot
  <2> QED
    BY <1>5, <2>1, <2>2, <2>3, <2>4
<1>8. QueueWaits'
  <2>1. Len(sent') = m /\ m <= q'.mask + 1 /\ q'.mask + 1 = c
    BY <1>2, <1>3, <1>5
  <2> HIDE DEF x, m
  <2>2. \A i \in 1 .. Len(sent') : q'.buf[(q'.tail + i - 1) % (q'.mask + 1)] = sent'[i]
    BY <1>5, <1>7, <2>1
  <2>3. q'.head = (q'.tail + Len(sent')) % Wrap /\ Len(sent') <= q'.mask + 1
    BY <1>5, <1>6, <2>1
  <2> QED
    BY <1>1, <1>5, <2>2, <2>3 DEF QueueWaits, Slot
<1>9. ProducerHolds'
  BY <1>2, <1>3, <1>5, SMTT(30) DEF QueueInv, ProducerHolds, Slot
<1>10. RoomHolds_'
  BY <1>2, <1>3, <1>5, SMTT(30) DEF QueueInv, RoomHolds_
<1> QED
  BY <1>8, <1>9, <1>10

LEMMA AdvanceStep ==
  ASSUME QueueInv, Advance
  PROVE  QueueInv'
<1>1. consumer.tail = q.tail /\ sent # <<>> /\ sent \in Seq(Items)
  BY DEF QueueInv, QueueWaits, ConsumerHolds, Advance, Idle
<1>2. Len(sent) \in Nat /\ 1 \in 0 .. Len(sent)
  BY <1>1, EmptySeq, LenProperties
<1>3. q' = [q EXCEPT !.tail = (q.tail + 1) % Wrap] /\ UNCHANGED <<producer, room>>
  BY <1>1 DEF Advance, Plus1
<1>4. /\ sent' \in Seq(Items) /\ Len(sent') = Len(sent) - 1
      /\ \A i \in 1 .. Len(sent) - 1 : sent'[i] = sent[i + 1]
  BY <1>1, HeadTailProperties DEF Advance
<1>5. \A i \in 1 .. Len(sent) - 1 : sent'[i] = sent[1 + i]
  BY <1>2, <1>4
<1>6. QueueWaits' /\ ProducerHolds' /\ RoomHolds_'
  BY <1>2, <1>3, <1>4, <1>5, TailGoesOn
<1> QED
  BY <1>6 DEF Advance, QueueInv, ConsumerHolds

LEMMA ClearEndStep ==
  ASSUME QueueInv, ClearEnd
  PROVE  QueueInv'
<1> DEFINE n == consumer.count
<1>1. n \in 0 .. Len(sent) /\ consumer.head = (q.tail + n) % Wrap /\ sent \in Seq(Items)
  BY DEF QueueInv, QueueWaits, ConsumerHolds, ClearEnd, Idle
<1>2. q' = [q EXCEPT !.tail = (q.tail + n) % Wrap] /\ UNCHANGED <<producer, room>>
  BY <1>1 DEF ClearEnd
<1>3. /\ sent' \in Seq(Items) /\ Len(sent') = Len(sent) - n
      /\ \A i \in 1 .. Len(sent) - n : sent'[i] = sent[n + i]
  BY <1>1, SuffixProperties DEF ClearEnd
<1> HIDE DEF n
<1>4. QueueWaits' /\ ProducerHolds' /\ RoomHolds_'
  BY <1>1, <1>2, <1>3, TailGoesOn
<1> QED
  BY <1>4 DEF ClearEnd, QueueInv, ConsumerHolds

\* The consumer's steps that only look.
LEMMA LookStep ==
  ASSUME QueueInv, (\E how \in {"get", "peek"} : GetBegin(how)) \/ Copy \/ Peeked \/ ClearBegin
  PROVE  QueueInv'
<1>1. UNCHANGED <<q, producer, sent, room>>
  BY DEF GetBegin, Copy, Peeked, ClearBegin
<1>2. QueueWaits' /\ ProducerHolds' /\ RoomHolds_'
  BY <1>1, QuietStep DEF QueueInv, ProducerHolds, RoomHolds_, Slot
<1>3. PICK c \in Caps : q \in QueueOf(c)
  BY DEF QueueInv, QueueWaits
<1>4. /\ c \in Nat \ {0} /\ q.head \in 0 .. Wrap - 1 /\ q.tail \in 0 .. Wrap - 1 /\ Wrap \in Nat \ {0}
      /\ Len(sent) \in Nat /\ sent \in Seq(Items) /\ q.head = (q.tail + Len(sent)) % Wrap
  BY <1>3, CapFacts, QueueFields, LenProperties DEF QueueInv, QueueWaits
<1>5. ASSUME NEW how \in {"get", "peek"}, GetBegin(how) PROVE ConsumerHolds'
  <2>1. sent # <<>>
    <3>1. SUFFICES ASSUME sent = <<>> PROVE FALSE
      OBVIOUS
    <3>2. Len(sent) = 0 /\ q.tail % Wrap = q.tail /\ q.tail + 0 = q.tail
      BY <1>4, <3>1
    <3> QED
      BY <1>4, <1>5, <3>2 DEF GetBegin
  <2> QED
    BY <1>1, <1>5, <2>1 DEF GetBegin, ConsumerHolds
<1>6. ASSUME Copy PROVE ConsumerHolds'
  <2>1. consumer \in [pc : {"get", "peek"}, tail : {q.tail}] /\ sent # <<>>
    BY <1>6 DEF Copy, QueueInv, ConsumerHolds, Idle
  <2>2. q.buf[Slot(q.tail)] = Head(sent)
    <3>1. 1 \in 1 .. Len(sent) /\ q.tail + 1 - 1 = q.tail
      BY <1>4, <2>1, EmptySeq
    <3>2. q.buf[Slot(q.tail + 1 - 1)] = sent[1]
      BY <3>1 DEF QueueInv, QueueWaits
    <3> QED
      BY <1>4, <2>1, <3>1, <3>2
  <2>3. consumer.tail = q.tail /\ q' = q /\ sent' = sent
    BY <1>1, <2>1
  <2>4. CASE consumer.pc = "get"
    <3>1. consumer' = [pc |-> "advance", tail |-> q.tail, got |-> Head(sent)]
      BY <1>6, <2>2, <2>3, <2>4 DEF Copy
    <3> QED
      BY <2>1, <2>3, <3>1 DEF ConsumerHolds
  <2>5. CASE consumer.pc = "peek"
    <3>1. consumer' = [pc |-> "peeked", tail |-> q.tail, got |-> Head(sent)]
      BY <1>6, <2>2, <2>3, <2>5 DEF Copy
    <3> QED
      BY <2>1, <2>3, <3>1 DEF ConsumerHolds
  <2> QED
    BY <1>6, <2>4, <2>5 DEF Copy
<1>7. ASSUME Peeked PROVE ConsumerHolds'
  BY <1>7 DEF Peeked, ConsumerHolds, Idle
<1>8. ASSUME ClearBegin PROVE ConsumerHolds'
  <2>1. consumer' = [pc |-> "clear", head |-> q.head, count |-> Len(sent)]
    BY <1>8 DEF ClearBegin
  <2>2. q' = q /\ sent' = sent /\ Len(sent) \in 0 .. Len(sent)
    BY <1>1, <1>4
  <2> QED
    BY <1>4, <2>1, <2>2 DEF ConsumerHolds
<1> QED
  BY <1>2, <1>5, <1>6, <1>7, <1>8 DEF QueueInv

LEMMA QueueStep == QueueInv /\ [NextQueue]_queueVars => QueueInv'
<1> SUFFICES ASSUME QueueInv, [NextQueue]_queueVars PROVE QueueInv'
  OBVIOUS
<1>1. CASE UNCHANGED queueVars
  BY <1>1 DEF queueVars, QueueInv, QueueWaits, ProducerHolds, ConsumerHolds, RoomHolds_, Slot
<1>2. CASE PutFull \/ GetEmpty
  BY <1>1, <1>2 DEF PutFull, GetEmpty
<1> QED
  BY <1>1, <1>2, PutBeginStep, StoreStep, PublishStep, SpaceStep, LookStep, AdvanceStep, ClearEndStep DEF NextQueue

-----------------------------------------------------------------------------
(* Both rings *)

\* What was put into the deque and the queue is there, in its order, and the space the producer was told of stays:
\* for every capacity, every set of elements and every order of the steps (src/ceres/ds/deque.c, cqueue.c).
THEOREM RingsKeepTheirElements == SpecRings => []RingsHold
<1> DEFINE Inv == DequeInv /\ QueueInv
<1>1. InitRings => Inv
  BY DequeInit, QueueInit DEF InitRings
<1>2. Inv /\ [NextRings]_<<dequeVars, queueVars>> => Inv'
  BY DequeStep, QueueStep DEF NextRings
<1>3. Inv => RingsHold
  BY QueueInvIsFifo DEF DequeInv, RingsHold
<1> QED
  BY <1>1, <1>2, <1>3, PTL DEF SpecRings

-----------------------------------------------------------------------------
(* Sequences without repetitions *)

Distinct(s) == \A i, j \in DOMAIN s : s[i] = s[j] => i = j

LEMMA DistinctAppend == ASSUME NEW S, NEW s \in Seq(S), Distinct(s), NEW x \in S, x \notin ToSet(s)
                        PROVE  /\ Append(s, x) \in Seq(S) /\ Len(Append(s, x)) = Len(s) + 1
                               /\ Distinct(Append(s, x)) /\ ToSet(Append(s, x)) = ToSet(s) \cup {x}
<1>1. PICK n \in Nat : n = Len(s) /\ DOMAIN s = 1 .. n OBVIOUS
<1>2. PICK t : t = Append(s, x) OBVIOUS
<1>3. t \in Seq(S) /\ Len(t) = n + 1 /\ DOMAIN t = 1 .. n + 1 /\ t[n + 1] = x /\ \A i \in 1 .. n : t[i] = s[i]
   BY <1>1, <1>2
<1>4. \A i \in 1 .. n : s[i] # x BY <1>1 DEF ToSet
<1>5. Distinct(t)
  <2>1. SUFFICES ASSUME NEW i \in 1 .. n + 1, NEW j \in 1 .. n + 1, t[i] = t[j] PROVE i = j BY <1>3 DEF Distinct
  <2>2. (i \in 1 .. n \/ i = n + 1) /\ (j \in 1 .. n \/ j = n + 1) BY <1>1
  <2>. QED BY <1>1, <1>3, <1>4, <2>1, <2>2 DEF Distinct
<1>6. ToSet(t) = ToSet(s) \cup {x}
  <2>1. \A i \in 1 .. n + 1 : i \in 1 .. n \/ i = n + 1 BY <1>1
  <2>2. \A i \in 1 .. n : i \in 1 .. n + 1 BY <1>1
  <2>3. n + 1 \in 1 .. n + 1 BY <1>1
  <2>. QED BY <1>1, <1>3, <2>1, <2>2, <2>3 DEF ToSet
<1>. QED BY <1>1, <1>2, <1>3, <1>5, <1>6

LEMMA DistinctFront == ASSUME NEW S, NEW s \in Seq(S), Distinct(s), s # <<>>
                       PROVE  /\ Front(s) \in Seq(S) /\ Len(Front(s)) = Len(s) - 1 /\ Last(s) \in S
                              /\ Last(s) \in ToSet(s) /\ Distinct(Front(s)) /\ ToSet(Front(s)) = ToSet(s) \ {Last(s)}
<1>1. PICK n \in Nat : n = Len(s) /\ n >= 1 /\ DOMAIN s = 1 .. n BY EmptySeq
<1>2. PICK t : t = Front(s) OBVIOUS
<1>3. t \in Seq(S) /\ Len(t) = n - 1 /\ DOMAIN t = 1 .. n - 1 /\ \A i \in 1 .. n - 1 : t[i] = s[i]
  <2>1. t \in Seq(S) /\ Len(t) = n - 1 /\ \A i \in 1 .. n - 1 : t[i] = s[i] BY <1>1, <1>2, FrontProperties
  <2>. QED BY <2>1
<1>4. n \in 1 .. n /\ \A i \in 1 .. n - 1 : i \in 1 .. n /\ i # n BY <1>1
<1>5. Last(s) = s[n] BY <1>1 DEF Last
<1>6. Distinct(t) BY <1>1, <1>3, <1>4 DEF Distinct
<1>7. ToSet(t) = ToSet(s) \ {s[n]}
  <2>1. \A i \in 1 .. n : i \in 1 .. n - 1 \/ i = n BY <1>1
  <2>2. \A i \in 1 .. n - 1 : s[i] # s[n] BY <1>1, <1>4 DEF Distinct
  <2>. QED BY <1>1, <1>3, <1>4, <2>1, <2>2 DEF ToSet
<1>8. s[n] \in S BY <1>1, <1>4
<1>9. s[n] \in ToSet(s) BY <1>1, <1>4 DEF ToSet
<1>. QED BY <1>1, <1>2, <1>3, <1>5, <1>6, <1>7, <1>8, <1>9

LEMMA DistinctPush == ASSUME NEW S, NEW s \in Seq(S), Distinct(s), NEW x \in S, x \notin ToSet(s)
                      PROVE  /\ <<x>> \o s \in Seq(S) /\ Len(<<x>> \o s) = Len(s) + 1
                             /\ Distinct(<<x>> \o s) /\ ToSet(<<x>> \o s) = ToSet(s) \cup {x}
<1>1. PICK n \in Nat : n = Len(s) /\ DOMAIN s = 1 .. n OBVIOUS
<1>2. PICK t : t = <<x>> \o s OBVIOUS
<1>3. t \in Seq(S) /\ Len(t) = n + 1 /\ DOMAIN t = 1 .. n + 1 /\ t[1] = x /\ \A i \in 1 .. n : t[i + 1] = s[i]
  <2>1. <<x>> \in Seq(S) /\ Len(<<x>>) = 1 /\ <<x>>[1] = x OBVIOUS
  <2>2. /\ t \in Seq(S) /\ Len(t) = 1 + n
        /\ \A i \in 1 .. 1 + n : t[i] = IF i <= 1 THEN <<x>>[i] ELSE s[i - 1]
     BY <1>1, <1>2, <2>1, ConcatProperties
  <2>3. t[1] = x BY <1>1, <2>1, <2>2
  <2>4. \A i \in 1 .. n : t[i + 1] = s[i] BY <1>1, <2>2
  <2>. QED BY <1>1, <2>2, <2>3, <2>4
<1>4. \A i \in 1 .. n : s[i] # x BY <1>1 DEF ToSet
<1>5. \A i \in 1 .. n + 1 : i = 1 \/ \E k \in 1 .. n : i = k + 1
  <2>1. TAKE i \in 1 .. n + 1
  <2>2. CASE i = 1 BY <2>2
  <2>3. CASE i # 1
    <3>1. i - 1 \in 1 .. n /\ i = (i - 1) + 1 BY <1>1, <2>3
    <3>. QED BY <3>1
  <2>. QED BY <2>2, <2>3
<1>6. Distinct(t)
  <2>1. SUFFICES ASSUME NEW i \in 1 .. n + 1, NEW j \in 1 .. n + 1, t[i] = t[j] PROVE i = j BY <1>3 DEF Distinct
  <2>2. CASE i = 1 \/ j = 1 BY ZenonT(60), <1>3, <1>4, <1>5, <2>1, <2>2
  <2>3. CASE i # 1 /\ j # 1
    <3>1. PICK k \in 1 .. n, m \in 1 .. n : i = k + 1 /\ j = m + 1 BY <1>5, <2>3
    <3>2. s[k] = s[m] BY <1>3, <2>1, <3>1
    <3>. QED BY <1>1, <3>1, <3>2 DEF Distinct
  <2>. QED BY <2>2, <2>3
<1>7. ToSet(t) = ToSet(s) \cup {x}
  <2>1. ToSet(t) = {t[i] : i \in 1 .. n + 1} /\ ToSet(s) = {s[i] : i \in 1 .. n} BY <1>1, <1>3 DEF ToSet
  <2>2. ASSUME NEW i \in 1 .. n + 1 PROVE t[i] = x \/ \E k \in 1 .. n : t[i] = s[k] BY <1>3, <1>5
  <2>3. \A i \in 1 .. n : i + 1 \in 1 .. n + 1 BY <1>1
  <2>4. ASSUME NEW k \in 1 .. n PROVE \E i \in 1 .. n + 1 : t[i] = s[k] BY <1>3, <2>3
  <2>5. \E i \in 1 .. n + 1 : t[i] = x
    <3>1. 1 \in 1 .. n + 1 BY <1>1
    <3>. QED BY <1>3, <3>1
  <2>. QED BY <2>1, <2>2, <2>4, <2>5
<1>. QED BY <1>1, <1>2, <1>3, <1>6, <1>7

LEMMA DistinctTail == ASSUME NEW S, NEW s \in Seq(S), Distinct(s), s # <<>>
                      PROVE  /\ Tail(s) \in Seq(S) /\ Len(Tail(s)) = Len(s) - 1 /\ Head(s) \in ToSet(s)
                             /\ Distinct(Tail(s)) /\ ToSet(Tail(s)) = ToSet(s) \ {Head(s)}
<1>1. PICK n \in Nat : n = Len(s) /\ n >= 1 /\ DOMAIN s = 1 .. n BY EmptySeq
<1>2. PICK t : t = Tail(s) OBVIOUS
<1>3. t \in Seq(S) /\ Len(t) = n - 1 /\ DOMAIN t = 1 .. n - 1 /\ \A i \in 1 .. n - 1 : t[i] = s[i + 1]
  <2>1. t \in Seq(S) /\ Len(t) = n - 1 /\ \A i \in 1 .. n - 1 : t[i] = s[i + 1] BY <1>1, <1>2, HeadTailProperties
  <2>. QED BY <2>1
<1>4. 1 \in 1 .. n /\ \A i \in 1 .. n - 1 : i + 1 \in 1 .. n /\ i + 1 # 1 BY <1>1
<1>5. Head(s) = s[1] OBVIOUS
<1>6. Distinct(t)
  <2>1. SUFFICES ASSUME NEW i \in 1 .. n - 1, NEW j \in 1 .. n - 1, t[i] = t[j] PROVE i = j BY <1>3 DEF Distinct
  <2>2. i + 1 \in 1 .. n /\ j + 1 \in 1 .. n /\ s[i + 1] = s[j + 1] BY <1>3, <1>4, <2>1
  <2>3. i + 1 = j + 1 BY <1>1, <2>2 DEF Distinct
  <2>. QED BY <1>1, <2>3
<1>7. ToSet(t) = ToSet(s) \ {s[1]}
  <2>1. \A i \in 1 .. n : i = 1 \/ \E k \in 1 .. n - 1 : i = k + 1
    <3>1. TAKE i \in 1 .. n
    <3>2. CASE i = 1 BY <3>2
    <3>3. CASE i # 1
      <4>1. i - 1 \in 1 .. n - 1 /\ i = (i - 1) + 1 BY <1>1, <3>3
      <4>. QED BY <4>1
    <3>. QED BY <3>2, <3>3
  <2>2. \A i \in 1 .. n - 1 : s[i + 1] # s[1] BY <1>1, <1>4 DEF Distinct
  <2>3. ToSet(t) = {t[i] : i \in 1 .. n - 1} /\ ToSet(s) = {s[i] : i \in 1 .. n} BY <1>1, <1>3 DEF ToSet
  <2>4. ASSUME NEW i \in 1 .. n - 1 PROVE t[i] # s[1] /\ \E k \in 1 .. n : t[i] = s[k] BY <1>3, <1>4, <2>2
  <2>5. ASSUME NEW i \in 1 .. n, s[i] # s[1] PROVE \E k \in 1 .. n - 1 : t[k] = s[i] BY <1>3, <2>1, <2>5
  <2>6. ASSUME NEW z PROVE z \in ToSet(t) <=> z \in ToSet(s) /\ z # s[1]
    <3>1. ASSUME z \in ToSet(t) PROVE z \in ToSet(s) /\ z # s[1]
      <4>1. PICK i \in 1 .. n - 1 : z = t[i] BY <2>3, <3>1
      <4>. QED BY <2>3, <2>4, <4>1
    <3>2. ASSUME z \in ToSet(s), z # s[1] PROVE z \in ToSet(t)
      <4>1. PICK i \in 1 .. n : z = s[i] BY <2>3, <3>2
      <4>. QED BY <2>3, <2>5, <3>2, <4>1
    <3>. QED BY <3>1, <3>2
  <2>. QED BY <2>6
<1>8. s[1] \in ToSet(s) BY <1>1, <1>4 DEF ToSet
<1>. QED BY <1>1, <1>2, <1>3, <1>5, <1>6, <1>7, <1>8

LEMMA IntervalCount == ASSUME NEW n \in Nat PROVE IsFiniteSet(1 .. n) /\ Cardinality(1 .. n) = n
<1>1. 1 \in Int /\ n \in Int OBVIOUS
<1>2. IsFiniteSet(1 .. n) BY <1>1, FS_Interval, Zenon
<1>3. Cardinality(1 .. n) = IF 1 > n THEN 0 ELSE n - 1 + 1 BY <1>1, FS_Interval, Zenon
<1>4. (IF 1 > n THEN 0 ELSE n - 1 + 1) = n OBVIOUS
<1>. QED BY <1>2, <1>3, <1>4

LEMMA DistinctCount == ASSUME NEW S, NEW s \in Seq(S), Distinct(s)
                       PROVE  IsFiniteSet(ToSet(s)) /\ Cardinality(ToSet(s)) = Len(s)
<1>1. PICK n \in Nat : n = Len(s) /\ DOMAIN s = 1 .. n OBVIOUS
<1>2. s \in Bijection(1 .. n, ToSet(s)) BY <1>1 DEF Distinct, ToSet, Bijection, Injection, IsInjective, Surjection
<1>3. IsFiniteSet(1 .. n) /\ Cardinality(1 .. n) = n BY <1>1, IntervalCount
<1>4. ExistsBijection(1 .. n, ToSet(s)) BY <1>2 DEF ExistsBijection
<1>. QED BY <1>1, <1>3, <1>4, FS_Bijection

-----------------------------------------------------------------------------
(* arena.c. The pieces up to a mark end below it: what makes going back to one safe. *)

PieceTypes == [from : Nat \ {0}, size : Nat]
EndsBelow(p, n, top) == \A i \in 1 .. n : p[i].from + p[i].size <= top
ArenaInv ==
    /\ arena \in [base : Nat, size : Nat, used : Nat, owned : BOOLEAN] /\ arena.size < Addresses
    /\ pieces \in Seq(PieceTypes)
    /\ PiecesApart
    /\ \A m \in marks : m \in Nat \X Nat /\ m[2] <= Len(pieces) /\ EndsBelow(pieces, m[2], arena.base + m[1])

LEMMA ModSmall == ASSUME NEW w \in Nat, NEW x \in Nat, x < w PROVE x % w = x
OBVIOUS

\* The pad is what is missing to the next multiple of 8, whatever word it is computed in.
LEMMA PadIs == ASSUME NEW a, a.base \in Nat, a.used \in Nat
               PROVE  Pad(a) \in 0 .. 7 /\ (a.base + a.used + Pad(a)) % 8 = 0
<1>1. PICK x \in Nat : x = a.base + a.used OBVIOUS
<1>2. PICK r \in 1 .. 8 : r = 8 - (x % 8) BY <1>1
<1>3. r % Addresses = r BY StorageAssumption, <1>2, ModSmall
<1>4. Pad(a) = r % 8 BY <1>1, <1>2, <1>3 DEF Pad, W
<1>5. r % 8 \in 0 .. 7 /\ (x + (r % 8)) % 8 = 0 BY <1>2
<1>. QED BY <1>1, <1>4, <1>5

\* Where memory ends is not passed, though sizes wrap.
LEMMA FitsIs == ASSUME NEW a \in [base : Nat, size : Nat, used : Nat, owned : BOOLEAN], a.used <= a.size, a.size < Addresses,
                       NEW n \in Nat, Fits(a, n)
                PROVE  a.used + Pad(a) + n <= a.size /\ W(a.used + Pad(a) + n) = a.used + Pad(a) + n
<1>1. a.size \in Nat /\ a.used \in Nat /\ a.base \in Nat OBVIOUS
<1>2. PICK d \in Nat : d = Pad(a) BY <1>1, PadIs
<1>3. W(a.size - a.used) = a.size - a.used BY <1>1, StorageAssumption, ModSmall DEF W
<1>4. d <= a.size - a.used BY <1>2, <1>3 DEF Fits
<1>5. W(a.size - a.used - d) = a.size - a.used - d BY <1>1, <1>4, StorageAssumption, ModSmall DEF W
<1>6. n <= a.size - a.used - d BY <1>2, <1>5 DEF Fits
<1>7. a.used + d + n \in Nat /\ a.used + d + n < Addresses /\ a.used + d + n <= a.size BY <1>1, <1>6, StorageAssumption
<1>8. W(a.used + d + n) = a.used + d + n BY <1>7, StorageAssumption, ModSmall DEF W
<1>. QED BY <1>2, <1>7, <1>8

LEMMA ArenaInit == ASSUME InitArenas PROVE ArenaInv
BY StorageAssumption DEF InitArenas, ArenaInv, NoMemory, PiecesApart

LEMMA AllocKeeps == ASSUME ArenaInv, NEW n \in Requests, Alloc(n) PROVE ArenaInv'
<1>1. n \in Nat BY StorageAssumption
<1>2. arena \in [base : Nat, size : Nat, used : Nat, owned : BOOLEAN] /\ arena.size < Addresses /\ arena.used <= arena.size
   BY DEF ArenaInv, PiecesApart
<1>3. PICK d \in 0 .. 7 : d = Pad(arena) /\ (arena.base + arena.used + d) % 8 = 0 BY <1>2, PadIs
<1>4. arena.used + d + n <= arena.size /\ arena' = [arena EXCEPT !.used = arena.used + d + n]
   BY <1>1, <1>2, <1>3, FitsIs DEF Alloc
<1>5. PICK p \in PieceTypes : p = [from |-> arena.base + arena.used + d, size |-> n] /\ pieces' = Append(pieces, p)
  <2>1. Piece(arena, n) = [from |-> arena.base + arena.used + d, size |-> n] BY <1>3 DEF Piece
  <2>2. Piece(arena, n).from # 0 /\ pieces' = Append(pieces, Piece(arena, n)) BY DEF Alloc
  <2>. QED BY SMTT(30), <1>1, <1>2, <2>1, <2>2 DEF PieceTypes
<1>6. pieces' \in Seq(PieceTypes) /\ Len(pieces') = Len(pieces) + 1 /\ pieces'[Len(pieces) + 1] = p
      /\ \A i \in 1 .. Len(pieces) : pieces'[i] = pieces[i]
   BY <1>5 DEF ArenaInv
<1>7. pieces \in Seq(PieceTypes) /\ DOMAIN pieces = 1 .. Len(pieces) /\ Len(pieces) \in Nat /\ DOMAIN pieces' = 1 .. Len(pieces) + 1
   BY <1>6 DEF ArenaInv
<1>8. \A i \in 1 .. Len(pieces) : pieces[i] \in PieceTypes BY <1>7
<1>9. /\ arena'.base = arena.base /\ arena'.size = arena.size /\ arena'.used = arena.used + d + n
      /\ arena' \in [base : Nat, size : Nat, used : Nat, owned : BOOLEAN]
   BY <1>1, <1>2, <1>4
<1>10. PiecesApart'
  <2>1. \A i \in 1 .. Len(pieces) : /\ pieces[i].from % 8 = 0 /\ pieces[i].from >= arena.base
                                    /\ pieces[i].from + pieces[i].size <= arena.base + arena.used
                                    /\ \A j \in 1 .. i - 1 : pieces[j].from + pieces[j].size <= pieces[i].from
     BY <1>7 DEF ArenaInv, PiecesApart
  <2>2. \A i \in 1 .. Len(pieces) : /\ pieces'[i].from % 8 = 0 /\ pieces'[i].from >= arena'.base
                                    /\ pieces'[i].from + pieces'[i].size <= arena'.base + arena'.used
                                    /\ \A j \in 1 .. i - 1 : pieces'[j].from + pieces'[j].size <= pieces'[i].from
    <3>1. TAKE i \in 1 .. Len(pieces)
    <3>2. pieces[i].from \in Nat /\ pieces[i].size \in Nat BY <1>8 DEF PieceTypes
    <3>3. \A j \in 1 .. i - 1 : pieces'[j] = pieces[j] BY <1>6, <1>7
    <3>4. pieces'[i] = pieces[i] BY <1>6
    <3>5. PICK u \in Nat, b \in Nat : u = arena.used /\ b = arena.base BY <1>2
    <3>6. arena'.base = b /\ arena'.used = u + d + n BY <1>9, <3>5
    <3>7. pieces[i].from + pieces[i].size <= b + (u + d + n)
      <4>0. pieces[i].from + pieces[i].size \in Nat BY <3>2
      <4>1. PICK x \in Nat : x = pieces[i].from + pieces[i].size BY <4>0
      <4>2. x <= b + u BY <2>1, <3>5, <4>1
      <4>3. x <= b + (u + d + n) BY <1>1, <4>2
      <4>. QED BY <4>1, <4>3
    <3>8. \A j \in 1 .. i - 1 : pieces'[j].from + pieces'[j].size <= pieces'[i].from BY <2>1, <3>3, <3>4
    <3>. QED BY <2>1, <3>4, <3>5, <3>6, <3>7, <3>8
  <2>3. /\ p.from % 8 = 0 /\ p.from >= arena'.base /\ p.from + p.size <= arena'.base + arena'.used
        /\ \A j \in 1 .. Len(pieces) : pieces'[j].from + pieces'[j].size <= p.from
    <3>1. p.from = arena.base + arena.used + d /\ p.size = n BY <1>5
    <3>2. \A j \in 1 .. Len(pieces) : pieces[j].from \in Nat /\ pieces[j].size \in Nat BY <1>8 DEF PieceTypes
    <3>3. PICK u \in Nat, b \in Nat : u = arena.used /\ b = arena.base BY <1>2
    <3>4. arena'.base = b /\ arena'.used = u + d + n BY <1>9, <3>3
    <3>5. p.from = b + u + d /\ (b + u + d) % 8 = 0 BY <1>3, <3>1, <3>3
    <3>6. ASSUME NEW j \in 1 .. Len(pieces) PROVE pieces'[j].from + pieces'[j].size <= p.from
      <4>1. pieces[j].from + pieces[j].size <= b + u BY <2>1, <3>3
      <4>2. pieces'[j] = pieces[j] BY <1>6
      <4>3. PICK x \in Nat : x = pieces[j].from + pieces[j].size BY <3>2
      <4>4. x <= b + u + d BY <4>1, <4>3
      <4>. QED BY <3>5, <4>2, <4>3, <4>4
    <3>7. b + u + d >= b /\ (b + u + d) + n <= b + (u + d + n) BY <1>1
    <3>8. p.from % 8 = 0 /\ p.from >= arena'.base BY <3>4, <3>5, <3>7
    <3>9. p.from + p.size <= arena'.base + arena'.used BY <3>1, <3>4, <3>5, <3>7
    <3>. QED BY <3>6, <3>8, <3>9
  <2>4. ASSUME NEW i \in 1 .. Len(pieces) + 1
        PROVE  /\ pieces'[i].from % 8 = 0 /\ pieces'[i].from >= arena'.base
               /\ pieces'[i].from + pieces'[i].size <= arena'.base + arena'.used
               /\ \A j \in 1 .. i - 1 : pieces'[j].from + pieces'[j].size <= pieces'[i].from
    <3>1. i \in 1 .. Len(pieces) \/ (i = Len(pieces) + 1 /\ 1 .. i - 1 = 1 .. Len(pieces)) BY <1>7
    <3>. QED BY <1>6, <2>2, <2>3, <3>1
  <2>. QED BY <1>2, <1>4, <1>7, <1>9, <2>4 DEF PiecesApart
<1>11. ASSUME NEW m \in marks' PROVE m \in Nat \X Nat /\ m[2] <= Len(pieces') /\ EndsBelow(pieces', m[2], arena'.base + m[1])
  <2>1. m \in Nat \X Nat /\ m[2] <= Len(pieces) /\ EndsBelow(pieces, m[2], arena.base + m[1])
     BY <1>11 DEF Alloc, ArenaInv
  <2>2. m[2] \in Nat BY <2>1
  <2>3. \A i \in 1 .. m[2] : i \in 1 .. Len(pieces) BY <1>7, <2>1, <2>2
  <2>. QED BY <1>6, <1>7, <1>9, <2>1, <2>2, <2>3 DEF EndsBelow
<1>. QED BY <1>2, <1>6, <1>9, <1>10, <1>11 DEF ArenaInv

LEMMA MarkKeeps == ASSUME ArenaInv, Mark PROVE ArenaInv'
<1>1. arena' = arena /\ pieces' = pieces BY DEF Mark
<1>2. EndsBelow(pieces, Len(pieces), arena.base + arena.used) BY DEF ArenaInv, PiecesApart, EndsBelow
<1>3. <<arena.used, Len(pieces)>> \in Nat \X Nat BY DEF ArenaInv
<1>4. ASSUME NEW m \in marks' PROVE m \in Nat \X Nat /\ m[2] <= Len(pieces) /\ EndsBelow(pieces, m[2], arena.base + m[1])
  <2>1. m \in marks \/ m = <<arena.used, Len(pieces)>> BY <1>4 DEF Mark
  <2>. QED BY <1>2, <1>3, <2>1 DEF ArenaInv
<1>5. PiecesApart' BY <1>1 DEF ArenaInv, PiecesApart
<1>. QED BY <1>1, <1>4, <1>5 DEF ArenaInv

LEMMA ReleaseKeeps == ASSUME ArenaInv, NEW m \in marks, ReleaseTo(m) PROVE ArenaInv'
<1>1. /\ arena \in [base : Nat, size : Nat, used : Nat, owned : BOOLEAN] /\ arena.size < Addresses
      /\ pieces \in Seq(PieceTypes) /\ PiecesApart
      /\ m \in Nat \X Nat /\ m[2] <= Len(pieces) /\ EndsBelow(pieces, m[2], arena.base + m[1])
   BY DEF ArenaInv
<1>2. PICK u \in Nat, n \in Nat : u = m[1] /\ n = m[2] BY <1>1
<1>3. n \in 0 .. Len(pieces) /\ Len(pieces) \in Nat /\ DOMAIN pieces = 1 .. Len(pieces) BY <1>1, <1>2
<1>4. pieces' = SubSeq(pieces, 1, n) BY <1>1, <1>2 DEF ReleaseTo
<1>5. /\ pieces' \in Seq(PieceTypes) /\ Len(pieces') = n /\ DOMAIN pieces' = 1 .. n
      /\ \A i \in 1 .. n : pieces'[i] = pieces[i]
  <2>1. pieces' \in Seq(PieceTypes) /\ Len(pieces') = n /\ \A i \in 1 .. n : pieces'[i] = pieces[i]
     BY <1>1, <1>3, <1>4, PrefixProperties
  <2>. QED BY <2>1
<1>6. /\ arena' \in [base : Nat, size : Nat, used : Nat, owned : BOOLEAN] /\ arena'.base = arena.base
      /\ arena'.size = arena.size /\ arena'.used <= arena.used /\ (arena'.used = u \/ arena'.used = arena.used)
  <2>1. CASE u <= arena.used
    <3>1. arena' = [arena EXCEPT !.used = u] BY <1>2, <2>1 DEF ReleaseTo
    <3>. QED BY <1>1, <2>1, <3>1
  <2>2. CASE ~(u <= arena.used)
    <3>1. arena' = arena BY <1>2, <2>2 DEF ReleaseTo
    <3>. QED BY <1>1, <3>1
  <2>. QED BY <2>1, <2>2
<1>7. PiecesApart'
  <2>1. \A i \in 1 .. n : /\ pieces[i].from % 8 = 0 /\ pieces[i].from >= arena.base
                          /\ pieces[i].from + pieces[i].size <= arena.base + arena.used
                          /\ \A j \in 1 .. i - 1 : pieces[j].from + pieces[j].size <= pieces[i].from
    <3>1. \A i \in DOMAIN pieces : /\ pieces[i].from % 8 = 0 /\ pieces[i].from >= arena.base
                                   /\ pieces[i].from + pieces[i].size <= arena.base + arena.used
                                   /\ \A j \in 1 .. i - 1 : pieces[j].from + pieces[j].size <= pieces[i].from
       BY <1>1 DEF PiecesApart
    <3>2. \A i \in 1 .. n : i \in DOMAIN pieces BY <1>3
    <3>. QED BY <3>1, <3>2
  <2>2. \A i \in 1 .. n : pieces[i].from + pieces[i].size <= arena.base + u BY <1>1, <1>2 DEF EndsBelow
  <2>3. arena'.used <= arena'.size BY <1>1, <1>6 DEF PiecesApart
  <2>4. ASSUME NEW i \in 1 .. n
        PROVE  /\ pieces'[i].from % 8 = 0 /\ pieces'[i].from >= arena'.base
               /\ pieces'[i].from + pieces'[i].size <= arena'.base + arena'.used
               /\ \A j \in 1 .. i - 1 : pieces'[j].from + pieces'[j].size <= pieces'[i].from
    <3>1. \A j \in 1 .. i - 1 : pieces'[j] = pieces[j] BY <1>5
    <3>2. pieces[i].from + pieces[i].size <= arena.base + arena'.used BY <1>6, <2>1, <2>2
    <3>. QED BY <1>5, <1>6, <2>1, <3>1, <3>2
  <2>. QED BY <1>5, <2>3, <2>4 DEF PiecesApart
<1>8. ASSUME NEW k \in marks' PROVE k \in Nat \X Nat /\ k[2] <= Len(pieces') /\ EndsBelow(pieces', k[2], arena'.base + k[1])
  <2>1. k \in marks /\ k[2] <= n BY <1>2, <1>8 DEF ReleaseTo
  <2>2. k \in Nat \X Nat /\ EndsBelow(pieces, k[2], arena.base + k[1]) BY <2>1 DEF ArenaInv
  <2>3. \A i \in 1 .. k[2] : i \in 1 .. n BY <1>2, <2>1, <2>2
  <2>. QED BY <1>5, <1>6, <2>1, <2>2, <2>3 DEF EndsBelow
<1>. QED BY <1>1, <1>5, <1>6, <1>7, <1>8 DEF ArenaInv

\* An arena without memory has nothing handed out, as nothing lies at NULL: nor has a mark taken of it.
LEMMA InitArenaKeeps == ASSUME ArenaInv, NEW base \in Bases, NEW owned \in BOOLEAN, InitArena(base, owned) PROVE ArenaInv'
<1>1. arena = NoMemory /\ arena' = [base |-> base, size |-> Extent, used |-> 0, owned |-> owned] /\ UNCHANGED <<pieces, marks>>
   BY DEF InitArena
<1>2. pieces = <<>>
  <2>1. SUFFICES ASSUME pieces # <<>> PROVE FALSE OBVIOUS
  <2>2. pieces \in Seq(PieceTypes) /\ 1 \in DOMAIN pieces /\ pieces[1] \in PieceTypes BY <2>1 DEF ArenaInv
  <2>3. pieces[1].from + pieces[1].size <= arena.base + arena.used BY <2>2 DEF ArenaInv, PiecesApart
  <2>4. arena.base = 0 /\ arena.used = 0 BY <1>1 DEF NoMemory
  <2>. QED BY <2>2, <2>3, <2>4 DEF PieceTypes
<1>3. ASSUME NEW m \in marks' PROVE m \in Nat \X Nat /\ m[2] <= Len(pieces') /\ EndsBelow(pieces', m[2], arena'.base + m[1])
  <2>1. m \in marks /\ m \in Nat \X Nat /\ m[2] <= Len(pieces) BY <1>1, <1>3 DEF ArenaInv
  <2>2. m[2] = 0 /\ pieces' = <<>> BY <1>1, <1>2, <2>1
  <2>. QED BY <2>1, <2>2 DEF EndsBelow
<1>4. arena' \in [base : Nat, size : Nat, used : Nat, owned : BOOLEAN] /\ arena'.size < Addresses /\ arena'.used <= arena'.size
   BY <1>1, StorageAssumption
<1>. QED BY <1>1, <1>2, <1>3, <1>4 DEF ArenaInv, PiecesApart

LEMMA ArenaStep == ASSUME ArenaInv, [NextArena]_arenaVars PROVE ArenaInv'
<1>1. CASE UNCHANGED arenaVars BY <1>1 DEF arenaVars, ArenaInv, PiecesApart
<1>2. ASSUME NEW n \in Requests, AllocFails(n) PROVE ArenaInv' BY <1>1, <1>2 DEF AllocFails
<1>3. CASE Reset
  <2>1. arena' = [arena EXCEPT !.used = 0] /\ pieces' = <<>> /\ marks' = {} BY <1>3 DEF Reset
  <2>2. /\ arena' \in [base : Nat, size : Nat, used : Nat, owned : BOOLEAN] /\ arena'.size < Addresses
        /\ arena'.used <= arena'.size
    <3>1. arena \in [base : Nat, size : Nat, used : Nat, owned : BOOLEAN] /\ arena.size < Addresses BY DEF ArenaInv
    <3>. QED BY <2>1, <3>1
  <2>. QED BY <2>1, <2>2 DEF ArenaInv, PiecesApart
<1>4. CASE Destroy BY <1>4, StorageAssumption DEF Destroy, NoMemory, ArenaInv, PiecesApart
<1>. QED BY <1>1, <1>2, <1>3, <1>4, AllocKeeps, ReleaseKeeps, InitArenaKeeps, MarkKeeps DEF NextArena

-----------------------------------------------------------------------------
(* pool.c. Every block that was ever handed out is one of the first ones, held or on the list and on it once. *)

BlockOf(k) == pool.base + k * pool.item
PoolTypes == [base : Nat, item : Nat \ {0}, count : Nat, used : Nat, fresh : Nat, free : Seq(Nat)]
PoolInv ==
    /\ pool \in PoolTypes
    /\ held \subseteq Nat /\ IsFiniteSet(held) /\ pool.used = Cardinality(held)
    /\ Distinct(pool.free) /\ ToSet(pool.free) \cap held = {}
    /\ pool.used + Len(pool.free) + pool.fresh = pool.count
    /\ \A p \in held \cup ToSet(pool.free) : \E k \in 0 .. pool.count - pool.fresh - 1 : p = BlockOf(k)

LEMMA Multiples == ASSUME NEW c \in Nat \ {0}, NEW k \in Nat, NEW m \in Nat, k < m
                   PROVE  k * c \in Nat /\ k * c + c <= m * c
<1>1. PICK d \in Nat : m = k + 1 + d
  <2>1. m - k - 1 \in Nat /\ m = k + 1 + (m - k - 1) OBVIOUS
  <2>. QED BY <2>1
<1>2. m * c = k * c + c + d * c BY <1>1
<1>3. d * c \in Nat /\ k * c \in Nat OBVIOUS
<1>. QED BY <1>2, <1>3

\* A block lies in the pool to its end, and is told from what is not one.
LEMMA BlockIs == ASSUME pool \in PoolTypes, NEW k \in 0 .. pool.count - 1
                 PROVE  BlockOf(k) \in Nat /\ IsBlock(BlockOf(k)) /\ BlockOf(k) + pool.item <= PoolEnd
<1>1. PICK b \in Nat, c \in Nat \ {0}, n \in Nat : b = pool.base /\ c = pool.item /\ n = pool.count BY DEF PoolTypes
<1>2. k \in Nat /\ k < n BY <1>1
<1>3. k * c \in Nat /\ k * c + c <= n * c /\ n * c \in Nat BY <1>1, <1>2, Multiples
<1>4. PICK x \in Nat, y \in Nat : x = k * c /\ y = n * c BY <1>3
<1>5. (c * k + 0) % c = 0
  <2>1. k \in Int /\ 0 \in 0 .. c - 1 BY <1>1, <1>2
  <2>. QED BY <1>1, <2>1, ModUnique
<1>6. x % c = 0
  <2>1. c * k + 0 = x BY <1>1, <1>2, <1>4
  <2>. QED BY <1>5, <2>1
<1>7. BlockOf(k) = b + x /\ PoolEnd = b + y BY <1>1, <1>4 DEF BlockOf, PoolEnd
<1>8. b + x - b = x BY <1>1, <1>4
<1>9. b + x >= b /\ b + x < b + y /\ b + x + c <= b + y BY <1>1, <1>3, <1>4
<1>. QED BY <1>1, <1>4, <1>6, <1>7, <1>8, <1>9 DEF IsBlock

LEMMA PoolIsKept == ASSUME PoolInv PROVE BlocksKept
<1>1. Cardinality(ToSet(pool.free)) = Len(pool.free) BY DistinctCount DEF PoolInv, PoolTypes
<1>2. ASSUME NEW p \in held PROVE IsBlock(p) /\ p + pool.item <= PoolEnd
  <2>1. PICK k \in 0 .. pool.count - pool.fresh - 1 : p = BlockOf(k) BY DEF PoolInv
  <2>2. k \in 0 .. pool.count - 1 BY SMTT(30), <2>1 DEF PoolInv, PoolTypes
  <2>. QED BY <2>1, <2>2, BlockIs DEF PoolInv
<1>. QED BY <1>1, <1>2 DEF PoolInv, BlocksKept

LEMMA Moved == ASSUME NEW u \in Nat, NEW l \in Nat, NEW r \in Nat, NEW c \in Nat, u + l + r = c
               PROVE  (u + 1) + (l - 1) + r = c /\ (u - 1) + (l + 1) + r = c
OBVIOUS

LEMMA PoolInit == ASSUME InitPool PROVE PoolInv
<1>1. PICK b \in Nat, s \in Nat : pool = NewPool(b, s) /\ held = {} BY StorageAssumption DEF InitPool
<1>2. Item(s) \in Nat \ {0}
  <2>1. PICK m \in Nat : m = (IF s < 4 THEN 4 ELSE s) /\ m >= 4 OBVIOUS
  <2>2. Item(s) = ((m + 3) \div 4) * 4 BY <2>1 DEF Item
  <2>. QED BY <2>1, <2>2
<1>3. pool = [base |-> b, item |-> Item(s), count |-> Count, used |-> 0, fresh |-> Count, free |-> <<>>]
   BY <1>1 DEF NewPool
<1>4. ToSet(pool.free) = {} /\ Distinct(pool.free) BY <1>3 DEF ToSet, Distinct
<1>. QED BY <1>1, <1>2, <1>3, <1>4, StorageAssumption, FS_EmptySet DEF PoolInv, PoolTypes

LEMMA AllocBlockKeeps == ASSUME PoolInv, PoolAlloc PROVE PoolInv'
<1>1. pool \in PoolTypes BY DEF PoolInv
<1>2. ASSUME NEW p \in Nat, p \notin held, held' = held \cup {p}
      PROVE  held' \subseteq Nat /\ IsFiniteSet(held') /\ Cardinality(held') = pool.used + 1
   BY <1>2, FS_AddElement DEF PoolInv
<1>3. CASE pool.free # <<>> /\ pool' = [pool EXCEPT !.free = Tail(@), !.used = @ + 1] /\ held' = held \cup {Head(pool.free)}
  <2>1. PICK f \in Seq(Nat) : f = pool.free /\ f # <<>> /\ Distinct(f) BY <1>1, <1>3 DEF PoolInv, PoolTypes
  <2>2. /\ Tail(f) \in Seq(Nat) /\ Len(Tail(f)) = Len(f) - 1 /\ Head(f) \in ToSet(f)
        /\ Distinct(Tail(f)) /\ ToSet(Tail(f)) = ToSet(f) \ {Head(f)}
     BY <2>1, DistinctTail
  <2>3. Head(f) \in Nat /\ Head(f) \notin held BY <2>1, <2>2 DEF PoolInv
  <2>4. /\ pool'.base = pool.base /\ pool'.item = pool.item /\ pool'.count = pool.count /\ pool'.used = pool.used + 1
        /\ pool'.fresh = pool.fresh /\ pool'.free = Tail(f) /\ pool' \in PoolTypes
    <3>1. pool' = [pool EXCEPT !.free = Tail(f), !.used = pool.used + 1] BY <1>3, <2>1
    <3>2. pool.used + 1 \in Nat BY <1>1 DEF PoolTypes
    <3>. QED BY <1>1, <2>2, <3>1, <3>2 DEF PoolTypes
  <2>5. held' \subseteq Nat /\ IsFiniteSet(held') /\ Cardinality(held') = pool.used + 1 BY <1>2, <1>3, <2>1, <2>3
  <2>6. held' \cup ToSet(pool'.free) = held \cup ToSet(pool.free) /\ ToSet(pool'.free) \cap held' = {}
     BY <1>3, <2>1, <2>2, <2>3, <2>4 DEF PoolInv
  <2>7. pool'.used + Len(pool'.free) + pool'.fresh = pool'.count
    <3>1. PICK l \in Nat, u \in Nat, r \in Nat, c \in Nat : l = Len(f) /\ u = pool.used /\ r = pool.fresh /\ c = pool.count
       BY <1>1, <2>1 DEF PoolTypes
    <3>2. u + l + r = c BY <2>1, <3>1 DEF PoolInv
    <3>3. pool'.used = u + 1 /\ Len(pool'.free) = l - 1 /\ pool'.fresh = r /\ pool'.count = c BY <2>2, <2>4, <3>1
    <3>4. (u + 1) + (l - 1) + r = c BY <3>2, Moved
    <3>. QED BY <3>3, <3>4
  <2>8. ASSUME NEW p \in held' \cup ToSet(pool'.free)
        PROVE  \E k \in 0 .. pool'.count - pool'.fresh - 1 : p = pool'.base + k * pool'.item
    <3>1. PICK k \in 0 .. pool.count - pool.fresh - 1 : p = BlockOf(k) BY <2>6, <2>8 DEF PoolInv
    <3>. QED BY <2>4, <3>1 DEF BlockOf
  <2>. QED BY <2>2, <2>4, <2>5, <2>6, <2>7, <2>8 DEF PoolInv, BlockOf
<1>4. CASE /\ pool.free = <<>> /\ pool.fresh > 0 /\ pool' = [pool EXCEPT !.fresh = @ - 1, !.used = @ + 1]
           /\ held' = held \cup {pool.base + (pool.count - pool.fresh) * pool.item}
  <2>1. PICK u \in Nat, r \in Nat, c \in Nat : u = pool.used /\ r = pool.fresh /\ c = pool.count BY <1>1 DEF PoolTypes
  <2>2. u + Len(pool.free) + r = c /\ Len(pool.free) = 0 /\ r > 0 BY <1>4, <2>1 DEF PoolInv
  <2>3. PICK n \in Nat : n = c - r /\ n \in 0 .. c - 1
    <3>1. r <= c BY <2>1, <2>2
    <3>2. c - r \in Nat /\ c - r \in 0 .. c - 1 BY <2>1, <2>2, <3>1
    <3>. QED BY <3>2
  <2>4. PICK last \in Nat : last = BlockOf(n) BY <1>1, <2>1, <2>3, BlockIs
  <2>5. held' = held \cup {last} BY <1>4, <2>1, <2>3, <2>4 DEF BlockOf
  <2>6. last \notin held
    <3>1. SUFFICES ASSUME last \in held PROVE FALSE OBVIOUS
    <3>2. PICK k \in 0 .. n - 1 : last = BlockOf(k)
      <4>1. PICK k \in 0 .. pool.count - pool.fresh - 1 : last = BlockOf(k) BY <3>1 DEF PoolInv
      <4>. QED BY <2>1, <2>3, <4>1
    <3>3. PICK b \in Nat, i \in Nat \ {0} : b = pool.base /\ i = pool.item BY <1>1 DEF PoolTypes
    <3>4. k * i \in Nat /\ k * i + i <= n * i BY <2>3, <3>2, <3>3, Multiples
    <3>5. b + n * i = b + k * i BY <2>4, <3>2, <3>3 DEF BlockOf
    <3>6. PICK x \in Nat, y \in Nat : x = k * i /\ y = n * i BY <2>3, <3>3, <3>4
    <3>. QED BY <3>3, <3>4, <3>5, <3>6
  <2>7. /\ pool'.base = pool.base /\ pool'.item = pool.item /\ pool'.count = c /\ pool'.used = u + 1
        /\ pool'.fresh = r - 1 /\ pool'.free = <<>> /\ pool' \in PoolTypes
    <3>1. r - 1 \in Nat /\ u + 1 \in Nat BY <2>1, <2>2
    <3>. QED BY <1>1, <1>4, <2>1, <3>1 DEF PoolTypes
  <2>8. held' \subseteq Nat /\ IsFiniteSet(held') /\ Cardinality(held') = u + 1 BY <1>2, <2>1, <2>4, <2>5, <2>6
  <2>9. ToSet(pool'.free) = {} /\ Distinct(pool'.free) /\ Len(pool'.free) = 0 BY <2>7 DEF ToSet, Distinct
  <2>10. pool'.used + Len(pool'.free) + pool'.fresh = pool'.count
    <3>1. (u + 1) + 0 + (r - 1) = c BY <2>1, <2>2
    <3>. QED BY <2>7, <2>9, <3>1
  <2>11. ASSUME NEW p \in held' \cup ToSet(pool'.free)
         PROVE  \E k \in 0 .. pool'.count - pool'.fresh - 1 : p = pool'.base + k * pool'.item
    <3>1. \E k \in 0 .. n : p = BlockOf(k)
      <4>1. CASE p = last BY <2>3, <2>4, <4>1
      <4>2. CASE p # last
        <5>1. p \in held BY <2>5, <2>9, <2>11, <4>2
        <5>2. PICK k \in 0 .. pool.count - pool.fresh - 1 : p = BlockOf(k) BY <5>1 DEF PoolInv
        <5>3. k \in 0 .. n BY <2>1, <2>3, <5>2
        <5>. QED BY <5>2, <5>3
      <4>. QED BY <4>1, <4>2
    <3>2. c - (r - 1) - 1 = n BY <2>1, <2>3
    <3>. QED BY <2>7, <3>1, <3>2 DEF BlockOf
  <2>. QED BY <2>7, <2>8, <2>9, <2>10, <2>11 DEF PoolInv, BlockOf
<1>5. CASE UNCHANGED poolVars BY <1>5 DEF poolVars, PoolInv, BlockOf
<1>. QED BY <1>3, <1>4, <1>5 DEF PoolAlloc

LEMMA FreeBlockKeeps == ASSUME PoolInv, NEW p \in held \cup Foreign, PoolFree(p) PROVE PoolInv'
<1>1. pool \in PoolTypes BY DEF PoolInv
<1>2. CASE UNCHANGED poolVars BY <1>2 DEF poolVars, PoolInv, BlockOf
<1>3. CASE IsBlock(p) /\ pool' = [pool EXCEPT !.free = <<p>> \o @, !.used = @ - 1] /\ held' = held \ {p}
  <2>1. p \in held /\ p \in Nat BY <1>3 DEF Foreign, PoolInv
  <2>2. PICK f \in Seq(Nat) : f = pool.free /\ Distinct(f) /\ p \notin ToSet(f) BY <1>1, <2>1 DEF PoolInv, PoolTypes
  <2>3. /\ <<p>> \o f \in Seq(Nat) /\ Len(<<p>> \o f) = Len(f) + 1
        /\ Distinct(<<p>> \o f) /\ ToSet(<<p>> \o f) = ToSet(f) \cup {p}
     BY <2>1, <2>2, DistinctPush
  <2>4. held' \subseteq Nat /\ IsFiniteSet(held') /\ Cardinality(held') = pool.used - 1
     BY <1>3, <2>1, FS_RemoveElement DEF PoolInv
  <2>5. pool.used - 1 \in Nat BY <2>4, FS_CardinalityType
  <2>6. /\ pool'.base = pool.base /\ pool'.item = pool.item /\ pool'.count = pool.count /\ pool'.used = pool.used - 1
        /\ pool'.fresh = pool.fresh /\ pool'.free = <<p>> \o f /\ pool' \in PoolTypes
     BY <1>1, <1>3, <2>2, <2>3, <2>5 DEF PoolTypes
  <2>7. held' \cup ToSet(pool'.free) = held \cup ToSet(pool.free) /\ ToSet(pool'.free) \cap held' = {}
     BY <1>3, <2>1, <2>2, <2>3, <2>6 DEF PoolInv
  <2>8. pool'.used + Len(pool'.free) + pool'.fresh = pool'.count
    <3>1. PICK l \in Nat, u \in Nat, r \in Nat, c \in Nat : l = Len(f) /\ u = pool.used /\ r = pool.fresh /\ c = pool.count
       BY <1>1, <2>2 DEF PoolTypes
    <3>2. u + l + r = c BY <2>2, <3>1 DEF PoolInv
    <3>3. pool'.used = u - 1 /\ Len(pool'.free) = l + 1 /\ pool'.fresh = r /\ pool'.count = c BY <2>3, <2>6, <3>1
    <3>4. (u - 1) + (l + 1) + r = c BY <3>2, Moved
    <3>. QED BY <3>3, <3>4
  <2>9. ASSUME NEW x \in held' \cup ToSet(pool'.free)
        PROVE  \E k \in 0 .. pool'.count - pool'.fresh - 1 : x = pool'.base + k * pool'.item
    <3>1. PICK k \in 0 .. pool.count - pool.fresh - 1 : x = BlockOf(k) BY <2>7, <2>9 DEF PoolInv
    <3>. QED BY <2>6, <3>1 DEF BlockOf
  <2>. QED BY <2>3, <2>4, <2>6, <2>7, <2>8, <2>9 DEF PoolInv, BlockOf
<1>. QED BY <1>2, <1>3 DEF PoolFree

LEMMA PoolStep == ASSUME PoolInv, [NextPool]_poolVars PROVE PoolInv'
<1>1. CASE UNCHANGED poolVars BY <1>1 DEF poolVars, PoolInv, BlockOf
<1>2. CASE PoolClear
  <2>1. pool' = [pool EXCEPT !.used = 0, !.fresh = pool.count, !.free = <<>>] /\ held' = {} BY <1>2 DEF PoolClear
  <2>2. pool \in PoolTypes BY DEF PoolInv
  <2>3. pool' \in PoolTypes /\ pool'.used = 0 /\ pool'.free = <<>> /\ pool'.fresh = pool'.count /\ pool'.count \in Nat
    <3>1. PICK c \in Nat : c = pool.count BY <2>2 DEF PoolTypes
    <3>2. <<>> \in Seq(Nat) OBVIOUS
    <3>3. pool' = [pool EXCEPT !.used = 0, !.fresh = c, !.free = <<>>] BY <2>1, <3>1
    <3>. QED BY <2>2, <3>1, <3>2, <3>3 DEF PoolTypes
  <2>4. ToSet(pool'.free) = {} /\ Distinct(pool'.free) /\ Len(pool'.free) = 0 BY <2>3 DEF ToSet, Distinct
  <2>. QED BY <2>1, <2>3, <2>4, FS_EmptySet DEF PoolInv
<1>. QED BY <1>1, <1>2, AllocBlockKeeps, FreeBlockKeeps DEF NextPool

-----------------------------------------------------------------------------
(* slotmap.h. The handles over the sequences alone: items d, generations g, and the list f of slots to use again. *)

Handles == [index : Nat, gen : Nat]
HandlesAgree(d, g, f, gv, st) ==
    /\ d \in Seq(Things) /\ g \in Seq(Nat) /\ f \in Seq(Nat) /\ Len(d) = Len(g)
    /\ Distinct(f) /\ \A i \in ToSet(f) : i < Len(d)
    /\ DOMAIN gv \subseteq Handles /\ st \subseteq Handles
    /\ \A h \in DOMAIN gv : /\ h.index < Len(d) /\ h.index \notin ToSet(f)
                            /\ g[h.index + 1] = h.gen /\ d[h.index + 1] = gv[h]
    /\ \A h \in st : h.index < Len(d) /\ g[h.index + 1] # h.gen

\* The items of the handles given, with one more and with one less
WithItem(gv, h, x) == [k \in DOMAIN gv \cup {h} |-> IF k = h THEN x ELSE gv[k]]
WithoutItem(gv, h) == [k \in DOMAIN gv \ {h} |-> gv[k]]
SetAt(s, i, x) == [s EXCEPT ![i + 1] = x]

LEMMA ElementOfSet == ASSUME NEW S, NEW s \in Seq(S) PROVE ToSet(s) \subseteq S
BY DEF ToSet

\* A slot's place is one of the sequence's.
LEMMA PlaceOf == ASSUME NEW S, NEW s \in Seq(S), NEW i \in Nat, i < Len(s) PROVE i + 1 \in 1 .. Len(s) /\ s[i + 1] \in S
<1>1. PICK n \in Nat : n = Len(s) /\ DOMAIN s = 1 .. n OBVIOUS
<1>2. i + 1 \in 1 .. n BY <1>1
<1>. QED BY <1>1, <1>2

LEMMA OneHandle == ASSUME NEW h \in Handles, NEW k \in Handles, h.index = k.index, h.gen = k.gen PROVE h = k
BY DEF Handles

\* The handles given are of slots of their own, none of them to be used again.
LEMMA HandlesCount == ASSUME NEW d, NEW g, NEW f, NEW gv, NEW st, HandlesAgree(d, g, f, gv, st)
                      PROVE  Cardinality(DOMAIN gv) <= Len(d) - Len(f)
<1>1. PICK n \in Nat : n = Len(d) BY DEF HandlesAgree
<1>2. f \in Seq(Nat) /\ Distinct(f) /\ \A i \in ToSet(f) : i < n BY <1>1 DEF HandlesAgree
<1>3. IsFiniteSet(ToSet(f)) /\ Cardinality(ToSet(f)) = Len(f) BY <1>2, DistinctCount
<1>4. PICK A : A = 0 .. n - 1 OBVIOUS
<1>5. IsFiniteSet(A) /\ Cardinality(A) = n
  <2>1. 0 \in Int /\ n - 1 \in Int BY <1>1
  <2>2. IsFiniteSet(0 .. n - 1) BY <2>1, FS_Interval, Zenon
  <2>3. Cardinality(0 .. n - 1) = IF 0 > n - 1 THEN 0 ELSE n - 1 - 0 + 1 BY <2>1, FS_Interval, Zenon
  <2>4. (IF 0 > n - 1 THEN 0 ELSE n - 1 - 0 + 1) = n BY <1>1
  <2>. QED BY <1>4, <2>2, <2>3, <2>4
<1>6. A \cap ToSet(f) = ToSet(f)
  <2>1. ToSet(f) \subseteq Nat BY <1>2, ElementOfSet
  <2>2. ASSUME NEW i \in ToSet(f) PROVE i \in A BY <1>1, <1>2, <1>4, <2>1
  <2>. QED BY <2>2
<1>7. IsFiniteSet(A \ ToSet(f)) /\ Cardinality(A \ ToSet(f)) = n - Len(f)
  <2>1. IsFiniteSet(A \ ToSet(f)) BY <1>5, FS_Difference, Zenon
  <2>2. Cardinality(A \ ToSet(f)) = Cardinality(A) - Cardinality(A \cap ToSet(f)) BY <1>5, FS_Difference, Zenon
  <2>. QED BY <1>3, <1>5, <1>6, <2>1, <2>2
<1>8. PICK e : e = [h \in DOMAIN gv |-> h.index] OBVIOUS
<1>9. e \in Injection(DOMAIN gv, A \ ToSet(f))
  <2>1. ASSUME NEW h \in DOMAIN gv PROVE e[h] \in A \ ToSet(f)
    <3>1. h \in Handles /\ h.index \in Nat /\ h.index < n /\ h.index \notin ToSet(f) BY <1>1 DEF HandlesAgree, Handles
    <3>. QED BY <1>1, <1>4, <1>8, <3>1
  <2>2. ASSUME NEW h \in DOMAIN gv, NEW k \in DOMAIN gv, e[h] = e[k] PROVE h = k
    <3>1. h \in Handles /\ k \in Handles /\ h.index = k.index BY <1>8, <2>2 DEF HandlesAgree
    <3>2. h.gen = g[h.index + 1] /\ k.gen = g[k.index + 1] BY DEF HandlesAgree
    <3>. QED BY <3>1, <3>2, OneHandle
  <2>3. e \in [DOMAIN gv -> A \ ToSet(f)] BY <1>8, <2>1
  <2>. QED BY <1>8, <2>2, <2>3 DEF Injection, IsInjective
<1>10. Cardinality(DOMAIN gv) <= Cardinality(A \ ToSet(f)) BY <1>7, <1>9, FS_Injection
<1>. QED BY <1>1, <1>7, <1>10

\* A freed slot used again
LEMMA ReuseAgrees ==
  ASSUME NEW d, NEW g, NEW f, NEW gv, NEW st, HandlesAgree(d, g, f, gv, st), f # <<>>, NEW x \in Things,
         NEW h, h = Handle(Last(f), g[Last(f) + 1])
  PROVE  HandlesAgree(SetAt(d, Last(f), x), g, Front(f), WithItem(gv, h, x), st \ {h})
<1>. PICK gw : gw = WithItem(gv, h, x) OBVIOUS
<1>1. PICK i : i = Last(f) OBVIOUS
<1>2. /\ Front(f) \in Seq(Nat) /\ i \in Nat /\ i \in ToSet(f)
      /\ Distinct(Front(f)) /\ ToSet(Front(f)) = ToSet(f) \ {i}
   BY <1>1, DistinctFront DEF HandlesAgree
<1>3. i < Len(d) /\ d \in Seq(Things) /\ g \in Seq(Nat) /\ Len(d) = Len(g) BY <1>2 DEF HandlesAgree
<1>4. i + 1 \in 1 .. Len(d) /\ g[i + 1] \in Nat BY <1>2, <1>3, PlaceOf
<1>5. PICK e : e = [d EXCEPT ![i + 1] = x] OBVIOUS
<1>6. /\ e \in Seq(Things) /\ Len(e) = Len(d) /\ e[i + 1] = x
      /\ \A k \in 1 .. Len(d) : k # i + 1 => e[k] = d[k]
   BY <1>3, <1>4, <1>5
<1>7. h \in Handles /\ h.index = i /\ h.gen = g[i + 1] BY <1>1, <1>2, <1>4 DEF Handle, Handles
<1>8. gw = [k \in DOMAIN gv \cup {h} |-> IF k = h THEN x ELSE gv[k]] /\ DOMAIN gw = DOMAIN gv \cup {h} BY DEF WithItem
<1>9. ASSUME NEW k \in DOMAIN gw
      PROVE  k.index < Len(e) /\ k.index \notin ToSet(Front(f)) /\ g[k.index + 1] = k.gen /\ e[k.index + 1] = gw[k]
  <2>1. CASE k = h BY <1>2, <1>3, <1>6, <1>7, <1>8, <2>1
  <2>2. CASE k # h
    <3>1. k \in DOMAIN gv /\ gw[k] = gv[k] BY <1>8, <1>9, <2>2
    <3>2. /\ k \in Handles /\ k.index < Len(d) /\ k.index \notin ToSet(f)
          /\ g[k.index + 1] = k.gen /\ d[k.index + 1] = gv[k]
       BY <3>1 DEF HandlesAgree
    <3>3. k.index \in Nat /\ k.index # i BY <1>2, <3>2 DEF Handles
    <3>4. k.index + 1 \in 1 .. Len(d) BY <1>3, <3>2, <3>3, PlaceOf
    <3>5. k.index + 1 # i + 1 BY <1>2, <3>3
    <3>. QED BY <1>2, <1>6, <3>1, <3>2, <3>4, <3>5
  <2>. QED BY <2>1, <2>2
<1>10. ASSUME NEW k \in st \ {h} PROVE k.index < Len(e) /\ g[k.index + 1] # k.gen BY <1>6 DEF HandlesAgree
<1>11. DOMAIN gw \subseteq Handles /\ st \ {h} \subseteq Handles BY <1>7, <1>8 DEF HandlesAgree
<1>12. \A j \in ToSet(Front(f)) : j < Len(e) BY <1>2, <1>6 DEF HandlesAgree
<1>13. HandlesAgree(e, g, Front(f), gw, st \ {h})
   BY <1>2, <1>3, <1>6, <1>9, <1>10, <1>11, <1>12 DEF HandlesAgree
<1>. QED BY <1>1, <1>5, <1>13 DEF SetAt

\* A slot added
LEMMA AppendAgrees ==
  ASSUME NEW d, NEW g, NEW f, NEW gv, NEW st, HandlesAgree(d, g, f, gv, st), NEW x \in Things,
         NEW h, h = Handle(Len(d), 0)
  PROVE  HandlesAgree(Append(d, x), Append(g, 0), f, WithItem(gv, h, x), st \ {h})
<1>. PICK gw : gw = WithItem(gv, h, x) OBVIOUS
<1>1. PICK n \in Nat : n = Len(d) BY DEF HandlesAgree
<1>2. d \in Seq(Things) /\ g \in Seq(Nat) /\ Len(g) = n BY <1>1 DEF HandlesAgree
<1>3. PICK e, b : e = Append(d, x) /\ b = Append(g, 0) OBVIOUS
<1>4. /\ e \in Seq(Things) /\ Len(e) = n + 1 /\ e[n + 1] = x /\ b \in Seq(Nat) /\ Len(b) = n + 1 /\ b[n + 1] = 0
      /\ \A k \in 1 .. n : e[k] = d[k] /\ b[k] = g[k]
   BY <1>1, <1>2, <1>3
<1>5. h \in Handles /\ h.index = n /\ h.gen = 0 BY <1>1 DEF Handle, Handles
<1>6. gw = [k \in DOMAIN gv \cup {h} |-> IF k = h THEN x ELSE gv[k]] /\ DOMAIN gw = DOMAIN gv \cup {h} BY DEF WithItem
<1>7. ASSUME NEW k \in Handles, k.index < n PROVE k.index + 1 \in 1 .. n /\ k.index < n + 1 BY <1>1, <1>7 DEF Handles
<1>8. \A j \in ToSet(f) : j \in Nat /\ j < n /\ j < n + 1
  <2>1. f \in Seq(Nat) /\ \A j \in ToSet(f) : j < n BY <1>1 DEF HandlesAgree
  <2>2. ToSet(f) \subseteq Nat BY <2>1, ElementOfSet
  <2>. QED BY <1>1, <2>1, <2>2
<1>9. ASSUME NEW k \in DOMAIN gw
      PROVE  k.index < n + 1 /\ k.index \notin ToSet(f) /\ b[k.index + 1] = k.gen /\ e[k.index + 1] = gw[k]
  <2>1. CASE k = h
    <3>1. n \notin ToSet(f) /\ n < n + 1 BY <1>1, <1>8
    <3>. QED BY <1>4, <1>5, <1>6, <2>1, <3>1
  <2>2. CASE k # h
    <3>1. k \in DOMAIN gv /\ gw[k] = gv[k] BY <1>6, <1>9, <2>2
    <3>2. /\ k \in Handles /\ k.index < n /\ k.index \notin ToSet(f)
          /\ g[k.index + 1] = k.gen /\ d[k.index + 1] = gv[k]
       BY <1>1, <3>1 DEF HandlesAgree
    <3>. QED BY <1>4, <1>7, <3>1, <3>2
  <2>. QED BY <2>1, <2>2
<1>10. ASSUME NEW k \in st \ {h} PROVE k.index < n + 1 /\ b[k.index + 1] # k.gen
  <2>1. k \in Handles /\ k.index < n /\ g[k.index + 1] # k.gen BY <1>1 DEF HandlesAgree
  <2>. QED BY <1>4, <1>7, <2>1
<1>11. DOMAIN gw \subseteq Handles /\ st \ {h} \subseteq Handles BY <1>5, <1>6 DEF HandlesAgree
<1>12. f \in Seq(Nat) /\ Distinct(f) BY DEF HandlesAgree
<1>13. HandlesAgree(e, b, f, gw, st \ {h})
  <2>1. PICK m : m = n + 1 OBVIOUS
  <2>2. /\ e \in Seq(Things) /\ b \in Seq(Nat) /\ Len(e) = m /\ Len(b) = m
        /\ \A j \in ToSet(f) : j < m
        /\ \A k \in DOMAIN gw : /\ k.index < m /\ k.index \notin ToSet(f)
                                /\ b[k.index + 1] = k.gen /\ e[k.index + 1] = gw[k]
        /\ \A k \in st \ {h} : k.index < m /\ b[k.index + 1] # k.gen
     BY <1>4, <1>8, <1>9, <1>10, <2>1
  <2>. QED BY <1>11, <1>12, <2>2, ZenonT(60) DEF HandlesAgree
<1>. QED BY <1>3, <1>13

AgreeWithout(d, g, f, gv, st, h, n) ==
    \A f2 \in {f, Append(f, h.index)} :
        HandlesAgree(d, SetAt(g, h.index, n), f2, WithoutItem(gv, h), (st \cup {h}) \ {Handle(h.index, n)})

\* A handle given up: no other is of its slot, and no old one has its next generation.
LEMMA RemoveAgrees ==
  ASSUME NEW d, NEW g, NEW f, NEW gv, NEW st, HandlesAgree(d, g, f, gv, st), NEW h \in DOMAIN gv, NEW n \in Nat
  PROVE  AgreeWithout(d, g, f, gv, st, h, n)
<1>. SUFFICES ASSUME NEW f2 \in {f, Append(f, h.index)}
              PROVE  HandlesAgree(d, SetAt(g, h.index, n), f2, WithoutItem(gv, h), (st \cup {h}) \ {Handle(h.index, n)})
   BY DEF AgreeWithout
<1>. PICK gw : gw = WithoutItem(gv, h) OBVIOUS
<1>1. h \in Handles /\ h.index \in Nat /\ h.index < Len(d) /\ h.index \notin ToSet(f) /\ g[h.index + 1] = h.gen
   BY DEF HandlesAgree, Handles
<1>2. PICK i \in Nat : i = h.index BY <1>1
<1>3. d \in Seq(Things) /\ g \in Seq(Nat) /\ Len(d) = Len(g) BY DEF HandlesAgree
<1>4. i + 1 \in 1 .. Len(g) BY <1>1, <1>2, <1>3, PlaceOf
<1>5. PICK b : b = [g EXCEPT ![i + 1] = n] OBVIOUS
<1>6. /\ b \in Seq(Nat) /\ Len(b) = Len(d) /\ b[i + 1] = n
      /\ \A k \in 1 .. Len(d) : k # i + 1 => b[k] = g[k]
   BY <1>3, <1>4, <1>5
<1>7. /\ f2 \in Seq(Nat) /\ Distinct(f2) /\ ToSet(f2) \subseteq ToSet(f) \cup {i}
  <2>1. CASE f2 = f BY <2>1 DEF HandlesAgree
  <2>2. CASE f2 = Append(f, i) BY <1>1, <1>2, <2>2, DistinctAppend DEF HandlesAgree
  <2>. QED BY <1>2, <2>1, <2>2
<1>8. \A j \in ToSet(f2) : j < Len(d) BY <1>1, <1>2, <1>7 DEF HandlesAgree
<1>9. ASSUME NEW k \in Handles, k.index < Len(d), k.index # i PROVE b[k.index + 1] = g[k.index + 1]
  <2>1. k.index \in Nat BY DEF Handles
  <2>2. k.index + 1 \in 1 .. Len(d) BY <1>3, <1>9, <2>1, PlaceOf
  <2>3. k.index + 1 # i + 1 BY <1>2, <1>9, <2>1
  <2>. QED BY <1>6, <2>2, <2>3
<1>10. DOMAIN gw = DOMAIN gv \ {h} /\ \A k \in DOMAIN gw : gw[k] = gv[k] BY DEF WithoutItem
<1>11. ASSUME NEW k \in DOMAIN gw
       PROVE  k.index < Len(d) /\ k.index \notin ToSet(f2) /\ b[k.index + 1] = k.gen /\ d[k.index + 1] = gw[k]
  <2>1. /\ k \in Handles /\ k # h /\ k.index < Len(d) /\ k.index \notin ToSet(f)
        /\ g[k.index + 1] = k.gen /\ d[k.index + 1] = gw[k]
     BY <1>10 DEF HandlesAgree
  <2>2. k.index # i BY <1>1, <1>2, <2>1, OneHandle
  <2>. QED BY <1>7, <1>9, <2>1, <2>2
<1>12. ASSUME NEW k \in (st \cup {h}) \ {Handle(i, n)} PROVE k \in Handles /\ k.index < Len(d) /\ b[k.index + 1] # k.gen
  <2>1. k \in Handles /\ k.index < Len(d) BY <1>1, <1>12 DEF HandlesAgree
  <2>2. CASE k.index = i
    <3>1. SUFFICES ASSUME k.gen = n PROVE FALSE BY <1>6, <2>1, <2>2
    <3>2. Handle(i, n) \in Handles /\ Handle(i, n).index = i /\ Handle(i, n).gen = n BY <1>2 DEF Handle, Handles
    <3>. QED BY <1>12, <2>1, <2>2, <3>1, <3>2, OneHandle
  <2>3. CASE k.index # i
    <3>1. k \in st BY <1>2, <1>12, <2>3
    <3>2. g[k.index + 1] # k.gen BY <3>1 DEF HandlesAgree
    <3>. QED BY <1>9, <2>1, <2>3, <3>2
  <2>. QED BY <2>1, <2>2, <2>3
<1>13. DOMAIN gw \subseteq Handles BY <1>10 DEF HandlesAgree
<1>14. HandlesAgree(d, b, f2, gw, (st \cup {h}) \ {Handle(i, n)})
   BY <1>3, <1>6, <1>7, <1>8, <1>11, <1>12, <1>13 DEF HandlesAgree
<1>. QED BY <1>2, <1>5, <1>14 DEF SetAt

-----------------------------------------------------------------------------
(* The slot map's three vectors *)

Vectors(S) == [data : Seq(S), cap : Nat]
SlotInv ==
    /\ slots \in Vectors(Things) /\ gens \in Vectors(Nat) /\ freeList \in Vectors(Nat)
    /\ slots.cap = gens.cap /\ Len(slots.data) <= slots.cap
    /\ HandlesAgree(slots.data, gens.data, freeList.data, given, stale)

LEMMA ReservedIs == ASSUME NEW S, NEW v \in Vectors(S), NEW cap \in Nat
                    PROVE  /\ Reserved(v, cap) \in Vectors(S) /\ Reserved(v, cap).data = v.data
                           /\ Reserved(v, cap).cap = IF cap <= v.cap THEN v.cap ELSE cap
<1>1. PICK c \in Nat : c = (IF cap <= v.cap THEN v.cap ELSE cap) BY DEF Vectors
<1>2. Reserved(v, cap) = [v EXCEPT !.cap = c] BY <1>1 DEF Reserved
<1>. QED BY <1>1, <1>2 DEF Vectors

LEMMA DoubledIs == ASSUME NEW S, NEW v \in Vectors(S) PROVE Doubled(v) \in Nat /\ Doubled(v) > v.cap
BY DEF Vectors, Doubled

LEMMA PushedIs == ASSUME NEW S, NEW v \in Vectors(S), NEW x \in S
                  PROVE  /\ Pushed(v, x) \in Vectors(S) /\ Pushed(v, x).data = Append(v.data, x)
                         /\ ~IsFull(v) => Pushed(v, x).cap = v.cap
<1>1. PICK c \in Nat : c = (IF IsFull(v) THEN Doubled(v) ELSE 0) BY DoubledIs
<1>2. PICK r \in Vectors(S) : r = Reserved(v, c) /\ r.data = v.data /\ r.cap = (IF c <= v.cap THEN v.cap ELSE c)
   BY <1>1, ReservedIs
<1>3. Pushed(v, x) = [r EXCEPT !.data = Append(v.data, x)] BY <1>1, <1>2 DEF Pushed
<1>4. Append(v.data, x) \in Seq(S) BY DEF Vectors
<1>5. ~IsFull(v) => r.cap = v.cap
  <2>1. SUFFICES ASSUME ~IsFull(v) PROVE r.cap = v.cap OBVIOUS
  <2>2. c = 0 /\ v.cap \in Nat BY <1>1, <2>1 DEF Vectors
  <2>. QED BY <1>2, <2>2
<1>. QED BY <1>2, <1>3, <1>4, <1>5 DEF Vectors

LEMMA SlotsInit == ASSUME InitSlots PROVE SlotInv
<1>1. slots = NoVector /\ gens = NoVector /\ freeList = NoVector /\ given = [h \in {} |-> 0] /\ stale = {} BY DEF InitSlots
<1>2. NoVector.data = <<>> /\ NoVector.cap = 0 /\ NoVector \in Vectors(Things) /\ NoVector \in Vectors(Nat)
   BY DEF NoVector, Vectors
<1>3. ToSet(<<>>) = {} /\ Distinct(<<>>) BY DEF ToSet, Distinct
<1>4. DOMAIN given = {} BY <1>1
<1>. QED BY <1>1, <1>2, <1>3, <1>4 DEF SlotInv, HandlesAgree

LEMMA SlotsGood == ASSUME SlotInv PROVE HandlesGood /\ InStep
<1>1. HandlesAgree(slots.data, gens.data, freeList.data, given, stale) BY DEF SlotInv
<1>2. Cardinality(DOMAIN given) <= Len(slots.data) - Len(freeList.data) BY <1>1, HandlesCount
<1>. QED BY <1>1, <1>2 DEF HandlesGood, InStep, HandlesAgree, Valid, ItemAt, Length

LEMMA ReuseKeeps == ASSUME SlotInv, NEW x \in Things, Reuse(x) PROVE SlotInv'
<1>1. PICK d, g, f : d = slots.data /\ g = gens.data /\ f = freeList.data OBVIOUS
<1>2. /\ HandlesAgree(d, g, f, given, stale) /\ d \in Seq(Things) /\ f \in Seq(Nat) /\ Len(d) <= slots.cap
      /\ slots \in Vectors(Things) /\ freeList \in Vectors(Nat)
   BY <1>1 DEF SlotInv, HandlesAgree
<1>3. f # <<>> BY <1>1, <1>2 DEF Reuse, Length
<1>4. PICK h : h = Handle(Last(f), g[Last(f) + 1]) OBVIOUS
<1>5. PICK e : e = [d EXCEPT ![Last(f) + 1] = x] OBVIOUS
<1>6. /\ slots' = [slots EXCEPT !.data = e] /\ freeList' = [freeList EXCEPT !.data = Front(f)] /\ gens' = gens
      /\ HandsOut(h, x)
   BY <1>1, <1>4, <1>5 DEF Reuse
<1>7. given' = [k \in DOMAIN given \cup {h} |-> IF k = h THEN x ELSE given[k]] /\ stale' = stale \ {h}
   BY <1>6 DEF HandsOut
<1>8. HandlesAgree(e, g, Front(f), given', stale')
  <2>1. HandlesAgree(SetAt(d, Last(f), x), g, Front(f), WithItem(given, h, x), stale \ {h})
     BY <1>2, <1>3, <1>4, ReuseAgrees
  <2>2. SetAt(d, Last(f), x) = e /\ WithItem(given, h, x) = given' BY <1>5, <1>7 DEF SetAt, WithItem
  <2>. QED BY <1>7, <2>1, <2>2
<1>9. e \in Seq(Things) /\ Len(e) = Len(d) /\ Front(f) \in Seq(Nat)
  <2>1. e \in Seq(Things) /\ Front(f) \in Seq(Nat) BY <1>8 DEF HandlesAgree
  <2>2. Len(e) = Len(d) BY <1>2, <1>5
  <2>. QED BY <2>1, <2>2
<1>10. /\ slots'.data = e /\ slots'.cap = slots.cap /\ slots' \in Vectors(Things)
       /\ freeList'.data = Front(f) /\ freeList' \in Vectors(Nat)
   BY <1>2, <1>6, <1>9 DEF Vectors
<1>. QED BY <1>1, <1>2, <1>6, <1>8, <1>9, <1>10 DEF SlotInv

\* With room in both vectors of one size, both take their element.
LEMMA AppendedKeeps ==
  ASSUME SlotInv, ~Lacks("gens"), NEW x \in Things, NEW s \in Vectors(Things), NEW g \in Vectors(Nat),
         s.data = slots.data, g.data = gens.data, s.cap = g.cap, Len(s.data) < s.cap, Appended(s, g, x)
  PROVE  SlotInv'
<1>1. HandlesAgree(s.data, g.data, freeList.data, given, stale) /\ Len(g.data) = Len(s.data) /\ freeList \in Vectors(Nat)
   BY DEF SlotInv, HandlesAgree
<1>2. ~IsFull(s) /\ ~IsFull(g) BY <1>1 DEF IsFull, Length, Vectors
<1>3. slots' = Pushed(s, x) /\ gens' = Pushed(g, 0) /\ freeList' = freeList /\ HandsOut(Handle(Len(s.data), 0), x)
   BY <1>2 DEF Appended, PushOutcomes, Length
<1>4. /\ slots' \in Vectors(Things) /\ slots'.data = Append(s.data, x) /\ slots'.cap = s.cap
      /\ gens' \in Vectors(Nat) /\ gens'.data = Append(g.data, 0) /\ gens'.cap = g.cap
  <2>1. /\ Pushed(s, x) \in Vectors(Things) /\ Pushed(s, x).data = Append(s.data, x)
        /\ ~IsFull(s) => Pushed(s, x).cap = s.cap
     BY PushedIs
  <2>2. /\ Pushed(g, 0) \in Vectors(Nat) /\ Pushed(g, 0).data = Append(g.data, 0)
        /\ ~IsFull(g) => Pushed(g, 0).cap = g.cap
    <3>1. 0 \in Nat OBVIOUS
    <3>. QED BY <3>1, PushedIs
  <2>. QED BY <1>2, <1>3, <2>1, <2>2
<1>5. PICK h : h = Handle(Len(s.data), 0) OBVIOUS
<1>6. given' = [k \in DOMAIN given \cup {h} |-> IF k = h THEN x ELSE given[k]] /\ stale' = stale \ {h}
   BY <1>3, <1>5 DEF HandsOut
<1>7. HandlesAgree(Append(s.data, x), Append(g.data, 0), freeList.data, given', stale')
  <2>1. HandlesAgree(Append(s.data, x), Append(g.data, 0), freeList.data, WithItem(given, h, x), stale \ {h})
     BY <1>1, <1>5, AppendAgrees
  <2>2. WithItem(given, h, x) = given' BY <1>6 DEF WithItem
  <2>. QED BY <1>6, <2>1, <2>2
<1>8. Len(Append(s.data, x)) <= s.cap
  <2>1. PICK n \in Nat, c \in Nat : n = Len(s.data) /\ c = s.cap /\ n < c BY DEF Vectors
  <2>2. Len(Append(s.data, x)) = n + 1 BY <2>1 DEF Vectors
  <2>. QED BY <2>1, <2>2
<1>. QED BY <1>1, <1>3, <1>4, <1>7, <1>8 DEF SlotInv

LEMMA AppendSlotKeeps == ASSUME SlotInv, ~Lacks("gens"), NEW x \in Things, Append_(x) PROVE SlotInv'
<1>1. slots \in Vectors(Things) /\ gens \in Vectors(Nat) /\ slots.cap = gens.cap /\ Len(slots.data) <= slots.cap BY DEF SlotInv
<1>2. PICK n \in Nat, c \in Nat : n = Len(slots.data) /\ c = slots.cap /\ n <= c BY <1>1 DEF Vectors
<1>3. CASE ~IsFull(slots) /\ Appended(slots, gens, x)
  <2>1. n < c BY <1>2, <1>3 DEF IsFull, Length
  <2>. QED BY <1>1, <1>2, <1>3, <2>1, AppendedKeeps
<1>4. CASE IsFull(slots) /\ Appended(Reserved(slots, Doubled(slots)), Reserved(gens, Doubled(slots)), x)
  <2>1. PICK w \in Nat : w = Doubled(slots) /\ w > c BY <1>1, <1>2, DoubledIs
  <2>2. ~(w <= c) /\ n < w BY <1>2, <2>1
  <2>3. PICK s \in Vectors(Things) : s = Reserved(slots, w) /\ s.data = slots.data /\ s.cap = w
    <3>1. /\ Reserved(slots, w) \in Vectors(Things) /\ Reserved(slots, w).data = slots.data
          /\ Reserved(slots, w).cap = IF w <= slots.cap THEN slots.cap ELSE w
       BY <1>1, ReservedIs
    <3>. QED BY <1>1, <1>2, <2>2, <3>1
  <2>4. PICK g \in Vectors(Nat) : g = Reserved(gens, w) /\ g.data = gens.data /\ g.cap = w
    <3>1. /\ Reserved(gens, w) \in Vectors(Nat) /\ Reserved(gens, w).data = gens.data
          /\ Reserved(gens, w).cap = IF w <= gens.cap THEN gens.cap ELSE w
       BY <1>1, ReservedIs
    <3>. QED BY <1>1, <1>2, <2>2, <3>1
  <2>5. Appended(s, g, x) /\ Len(s.data) < s.cap BY <1>2, <1>4, <2>1, <2>2, <2>3, <2>4
  <2>. QED BY <2>3, <2>4, <2>5, AppendedKeeps
<1>. QED BY <1>3, <1>4 DEF Append_

LEMMA RemoveHandleKeeps == ASSUME SlotInv, NEW h \in DOMAIN given \cup stale, Remove_(h) PROVE SlotInv'
<1>1. CASE UNCHANGED slotVars BY <1>1 DEF slotVars, SlotInv
<1>2. CASE /\ Valid(h) /\ gens' = [gens EXCEPT !.data[h.index + 1] = NextGen(h)]
           /\ freeList' \in PushOutcomes(freeList, h.index, "free") /\ WithoutHandle(h) /\ UNCHANGED slots
  <2>1. HandlesAgree(slots.data, gens.data, freeList.data, given, stale) /\ gens \in Vectors(Nat) /\ freeList \in Vectors(Nat)
     BY DEF SlotInv
  <2>2. h \in DOMAIN given BY <1>2, <2>1 DEF HandlesAgree, Valid, Length
  <2>3. h.index \in Nat /\ h.gen \in Nat BY <2>1, <2>2 DEF HandlesAgree, Handles
  <2>4. PICK n \in Nat : n = NextGen(h) BY <2>3, StorageAssumption DEF NextGen
  <2>5. PICK b : b = [gens.data EXCEPT ![h.index + 1] = n] OBVIOUS
  <2>6. gens' = [gens EXCEPT !.data = b] BY <1>2, <2>4, <2>5
  <2>7. freeList' \in Vectors(Nat) /\ (freeList'.data = freeList.data \/ freeList'.data = Append(freeList.data, h.index))
    <3>1. freeList' = freeList \/ freeList' = Pushed(freeList, h.index) BY <1>2 DEF PushOutcomes
    <3>. QED BY <2>1, <2>3, <3>1, PushedIs
  <2>8. given' = [k \in DOMAIN given \ {h} |-> given[k]] /\ stale' = (stale \cup {h}) \ {Handle(h.index, n)}
     BY <1>2, <2>4 DEF WithoutHandle, NextGen
  <2>9. HandlesAgree(slots.data, b, freeList'.data, given', stale')
    <3>1. PICK f2 : f2 = freeList'.data /\ f2 \in {freeList.data, Append(freeList.data, h.index)} BY <2>7
    <3>2. HandlesAgree(slots.data, SetAt(gens.data, h.index, n), f2, WithoutItem(given, h),
                       (stale \cup {h}) \ {Handle(h.index, n)})
      <4>1. AgreeWithout(slots.data, gens.data, freeList.data, given, stale, h, n) BY <2>1, <2>2, RemoveAgrees
      <4>. QED BY <3>1, <4>1 DEF AgreeWithout
    <3>3. SetAt(gens.data, h.index, n) = b /\ WithoutItem(given, h) = given' BY <2>5, <2>8 DEF SetAt, WithoutItem
    <3>. QED BY <2>8, <3>1, <3>2, <3>3
  <2>10. gens' \in Vectors(Nat) /\ gens'.data = b /\ gens'.cap = gens.cap
    <3>1. b \in Seq(Nat) BY <2>9 DEF HandlesAgree
    <3>. QED BY <2>1, <2>6, <3>1 DEF Vectors
  <2>. QED BY <1>2, <2>7, <2>9, <2>10 DEF SlotInv
<1>. QED BY <1>1, <1>2 DEF Remove_

LEMMA SlotsStep == ASSUME SlotInv, ~Lacks("gens"), [NextSlots]_slotVars PROVE SlotInv'
<1>1. CASE UNCHANGED slotVars BY <1>1 DEF slotVars, SlotInv
<1>2. CASE InsertFails BY <1>1, <1>2 DEF InsertFails, slotVars
<1>. QED BY <1>1, <1>2, ReuseKeeps, AppendSlotKeeps, RemoveHandleKeeps DEF NextSlots

-----------------------------------------------------------------------------
(* The three *)

LEMMA StorageSteps == ASSUME [NextStorage]_storageVars
                      PROVE  [NextArena]_arenaVars /\ [NextPool]_poolVars /\ [NextSlots]_slotVars
BY DEF NextStorage, storageVars, arenaVars, poolVars, slotVars

\* An arena's pieces lie in its memory, aligned and apart, whatever was asked for, marked and released in whatever
\* order (src/ceres/arena.c).
THEOREM PiecesAreApart == SpecStorage => []PiecesApart
<1>1. InitStorage => ArenaInv BY ArenaInit DEF InitStorage
<1>2. ArenaInv /\ [NextStorage]_storageVars => ArenaInv' BY StorageSteps, ArenaStep
<1>3. ArenaInv => PiecesApart BY DEF ArenaInv
<1>. QED BY <1>1, <1>2, <1>3, PTL DEF SpecStorage

\* Every block of a pool is held, free or fresh, and one of the three, whatever it is asked to free
\* (src/ceres/pool.c).
THEOREM BlocksAreKept == SpecStorage => []BlocksKept
<1>1. InitStorage => PoolInv BY PoolInit DEF InitStorage
<1>2. PoolInv /\ [NextStorage]_storageVars => PoolInv' BY StorageSteps, PoolStep
<1>3. PoolInv => BlocksKept BY PoolIsKept
<1>. QED BY <1>1, <1>2, <1>3, PTL DEF SpecStorage

\* What was handed out stays its holder's: pieces, blocks, and the handles of a slot map, each of which leads to its
\* own item until it is given up and to none after. Memory for the generations must not lack where the slots had
\* theirs: slotmap.h:86 then leaves the two vectors of different capacity.
THEOREM StorageHolds == ASSUME ~Lacks("gens") PROVE SpecStorage => []HandlesHold
<1>1. InitStorage => SlotInv BY SlotsInit DEF InitStorage
<1>2. SlotInv /\ [NextStorage]_storageVars => SlotInv' BY StorageSteps, SlotsStep
<1>3. SlotInv => HandlesGood /\ InStep BY SlotsGood
<1>4. SpecStorage => [](HandlesGood /\ InStep) BY <1>1, <1>2, <1>3, PTL DEF SpecStorage
<1>. QED BY <1>4, PiecesAreApart, BlocksAreKept, PTL DEF HandlesHold

-----------------------------------------------------------------------------
(* The hash table *)

-----------------------------------------------------------------------------
(* The table: what it holds, and where. *)

LEMMA LeastOf == ASSUME NEW T \in SUBSET Nat, T # {} PROVE Soonest(T) \in T /\ \A y \in T : Soonest(T) <= y
<1>1. IsWellFoundedOn(OpToRel(<, Nat), Nat) BY NatLessThanWellFounded
<1>2. PICK x \in T : \A y \in T : ~(<<y, x>> \in OpToRel(<, Nat)) BY <1>1, WFMin
<1>3. \A y \in T : ~(y < x) BY <1>2 DEF OpToRel
<1>4. \A y \in T : x <= y BY <1>3
<1> QED BY <1>4 DEF Soonest

\* A property of 0 that each number hands to the next holds of all up to n; the property is the set of those that have it.
LEMMA UpTo == ASSUME NEW n \in Nat, NEW P, 0 \in P, \A i \in 0 .. n - 1 : i \in P => i + 1 \in P PROVE \A i \in 0 .. n : i \in P
<1> DEFINE T == {i \in 0 .. n : i \notin P}
<1>1. SUFFICES ASSUME T # {} PROVE FALSE OBVIOUS
<1>2. Soonest(T) \in T /\ \A y \in T : Soonest(T) <= y BY <1>1, LeastOf
<1> DEFINE m == Soonest(T)
<1> HIDE DEF m
<1>3. m \in 0 .. n /\ m \notin P /\ \A y \in T : m <= y BY <1>2 DEF m
<1>4. m # 0 BY <1>3
<1>5. m - 1 \in 0 .. n - 1 /\ m - 1 \in P BY <1>3, <1>4
<1>6. (m - 1) + 1 \in P BY <1>5
<1> QED BY <1>3, <1>6

Pairs == [state : {"used"}, key : TableKeys, value : TableValues]
SlotContents == {Unused, Tombstone} \cup Pairs
Tables == [cap : Nat, len : Nat, used : Nat, slot : UNION {[0 .. n - 1 -> SlotContents] : n \in Nat}]

\* The pairs are where a search for their keys gets to, each key once; and the counts count.
Reached(m) == \A i \in UsedSlots(m), n \in 0 .. m.cap - 1 :
                  Probed(m, m.slot[i].key, n) = i => \A j \in 0 .. n - 1 : m.slot[Probed(m, m.slot[i].key, j)] # Unused
KeysOnce(m) == \A i, j \in UsedSlots(m) : m.slot[i].key = m.slot[j].key => i = j
Dirty(m) == {i \in DOMAIN m.slot : m.slot[i] # Unused}
HasPair(m, p) == \E i \in UsedSlots(m) : m.slot[i] = p
GoodTable(m) ==
    /\ m \in Tables /\ m.slot \in [0 .. m.cap - 1 -> SlotContents]
    /\ Reached(m) /\ KeysOnce(m)
    /\ m.used = Cardinality(Dirty(m))
Sparse(m) == m.used * 10 <= m.cap * 7 /\ (m.cap # 0 => m.cap >= MinTable)
Agrees(m, told) == /\ DOMAIN told \subseteq TableKeys
                   /\ \A k \in DOMAIN told : HasPair(m, Pair(k, told[k]))
                   /\ \A i \in UsedSlots(m) : m.slot[i].key \in DOMAIN told /\ m.slot[i].value = told[m.slot[i].key]
TableInv == GoodTable(table) /\ table.len = Cardinality(UsedSlots(table)) /\ Sparse(table)
            /\ Agrees(table, known) /\ copies = DOMAIN known

LEMMA Contents == ASSUME NEW s \in SlotContents
  PROVE /\ s.state \in {"empty", "used", "tombstone"}
        /\ s.state = "empty" <=> s = Unused
        /\ s.state = "used" => s.key \in TableKeys /\ s.value \in TableValues /\ s = Pair(s.key, s.value)
        /\ Unused # Tombstone /\ s.state = "tombstone" => s = Tombstone
  BY DEF SlotContents, Pairs, Unused, Tombstone, Pair

LEMMA PairIs == ASSUME NEW k \in TableKeys, NEW v \in TableValues
  PROVE /\ Pair(k, v) \in SlotContents /\ Pair(k, v).state = "used" /\ Pair(k, v).key = k /\ Pair(k, v).value = v
        /\ Pair(k, v) # Unused /\ Pair(k, v) # Tombstone
<1>1. Pair(k, v).state = "used" /\ Pair(k, v).key = k /\ Pair(k, v).value = v BY DEF Pair
<1>2. Unused.state = "empty" /\ Tombstone.state = "tombstone" BY DEF Unused, Tombstone
<1> QED BY <1>1, <1>2 DEF SlotContents, Pairs, Pair

\* A search goes through every slot, and through each once.
LEMMA Round == ASSUME NEW m, m.cap \in Nat \ {0}, NEW k \in TableKeys
  PROVE /\ \A n \in 0 .. m.cap - 1 : Probed(m, k, n) \in 0 .. m.cap - 1
        /\ \A i \in 0 .. m.cap - 1 : \E n \in 0 .. m.cap - 1 : Probed(m, k, n) = i
        /\ \A n, j \in 0 .. m.cap - 1 : Probed(m, k, n) = Probed(m, k, j) => n = j
<1> DEFINE c == m.cap
           h == HashOf[k]
<1>0. c \in Nat \ {0} /\ h \in Nat BY TableAssumption
<1> HIDE DEF c, h
<1>1. ASSUME NEW n \in 0 .. c - 1 PROVE (h + n) % c \in 0 .. c - 1 BY <1>0, DivMod
<1>2. ASSUME NEW i \in 0 .. c - 1 PROVE \E n \in 0 .. c - 1 : (h + n) % c = i
  <2> DEFINE x == i - h
             d == x \div c
             n == x % c
             e == 0 - d
  <2>1. x \in Int BY <1>0
  <2>2. d \in Int /\ n \in 0 .. c - 1 /\ x = c * d + n
    <3> HIDE DEF x
    <3> QED BY <2>1, <1>0, DivMod
  <2> HIDE DEF d, n
  <2>3. h + n = i - c * d BY <2>2, <1>0
  <2>4. e \in Int /\ c * e = 0 - c * d BY <2>2, <1>0
  <2> HIDE DEF e
  <2>5. h + n = c * e + i BY <2>2, <2>3, <2>4, <1>0
  <2>6. (c * e + i) % c = i BY <2>4, <1>0, ModUnique
  <2> QED BY <2>2, <2>5, <2>6
<1>3. ASSUME NEW n \in 0 .. c - 1, NEW j \in 0 .. c - 1, n < j PROVE (h + n) % c # (h + j) % c
  <2> DEFINE x == h + n
             y == h + j
  <2>1. x \in Int /\ y \in Int /\ x < y /\ y < x + c BY <1>0, <1>3
  <2> HIDE DEF x, y
  <2>2. x % c # y % c BY <2>1, <1>0, ModNear
  <2> QED BY <2>2 DEF x, y
<1>4. \A n, j \in 0 .. c - 1 : (h + n) % c = (h + j) % c => n = j
  <2>1. SUFFICES ASSUME NEW n \in 0 .. c - 1, NEW j \in 0 .. c - 1, (h + n) % c = (h + j) % c PROVE n = j OBVIOUS
  <2>2. ~(n < j) BY <2>1, <1>3
  <2>3. ~(j < n) BY <2>1, <1>3
  <2> QED BY <2>2, <2>3, <1>0
<1>5. \A n : Probed(m, k, n) = (h + n) % c BY DEF Probed, c, h
<1>6. m.cap = c BY DEF c
<1>7. \A n \in 0 .. c - 1 : Probed(m, k, n) \in 0 .. c - 1 BY <1>1, <1>5
<1>8. \A i \in 0 .. c - 1 : \E n \in 0 .. c - 1 : Probed(m, k, n) = i BY <1>2, <1>5
<1>9. \A n, j \in 0 .. c - 1 : Probed(m, k, n) = Probed(m, k, j) => n = j BY <1>4, <1>5
<1> QED BY <1>6, <1>7, <1>8, <1>9

LEMMA Fields == ASSUME NEW m, GoodTable(m)
  PROVE /\ m.cap \in Nat /\ m.len \in Nat /\ m.used \in Nat /\ DOMAIN m.slot = 0 .. m.cap - 1
        /\ \A i \in 0 .. m.cap - 1 : m.slot[i] \in SlotContents
        /\ m = [cap |-> m.cap, len |-> m.len, used |-> m.used, slot |-> m.slot]
  BY DEF GoodTable, Tables

\* What a search for a slot in one of the states finds, if there is one.
LEMMA ProbeFinds == ASSUME NEW m, GoodTable(m), NEW k \in TableKeys, NEW states,
                           \E i \in 0 .. m.cap - 1 : m.slot[i].state \in states
  PROVE \E n \in 0 .. m.cap - 1 : /\ ProbeTo(m, k, states) = Probed(m, k, n) /\ ProbeTo(m, k, states) \in 0 .. m.cap - 1
                                  /\ m.slot[Probed(m, k, n)].state \in states
                                  /\ \A j \in 0 .. n - 1 : m.slot[Probed(m, k, j)].state \notin states
<1> DEFINE T == {n \in 0 .. m.cap - 1 : m.slot[Probed(m, k, n)].state \in states}
<1>1. m.cap \in Nat \ {0} BY Fields
<1>2. T # {} BY <1>1, Round
<1>11. T \in SUBSET Nat BY <1>1
<1>3. Soonest(T) \in T /\ \A y \in T : Soonest(T) <= y
  <2> HIDE DEF T
  <2> QED BY <1>11, <1>2, LeastOf
<1>4. ProbeTo(m, k, states) = Probed(m, k, Soonest(T)) BY DEF ProbeTo
<1> HIDE DEF T
<1>5. Soonest(T) \in 0 .. m.cap - 1 BY <1>3 DEF T
<1>6. \A j \in 0 .. Soonest(T) - 1 : j \notin T BY <1>3, <1>5
<1>7. \A j \in 0 .. Soonest(T) - 1 : j \in 0 .. m.cap - 1 BY <1>5, <1>1
<1>8. m.slot[Probed(m, k, Soonest(T))].state \in states BY <1>3 DEF T
<1>9. \A j \in 0 .. Soonest(T) - 1 : m.slot[Probed(m, k, j)].state \notin states BY <1>6, <1>7 DEF T
<1>10. Probed(m, k, Soonest(T)) \in 0 .. m.cap - 1 BY <1>1, <1>5, Round
<1> QED BY <1>4, <1>5, <1>8, <1>9, <1>10

\* find is right: it finds the pair of a key that is there, and none of a key that is not.
LEMMA FindIs == ASSUME NEW m, GoodTable(m), NEW k \in TableKeys
  PROVE /\ \A i \in UsedSlots(m) : m.slot[i].key = k => FindSlot(m, k) = i /\ i >= 0
        /\ (\A i \in UsedSlots(m) : m.slot[i].key # k) => FindSlot(m, k) = -1
        /\ FindSlot(m, k) >= 0 => FindSlot(m, k) \in UsedSlots(m) /\ m.slot[FindSlot(m, k)].key = k
<1> DEFINE T == Ends(m, k)
           n == Soonest(T)
           at == Probed(m, k, n)
<1>0. m.cap \in Nat /\ DOMAIN m.slot = 0 .. m.cap - 1 /\ \A i \in 0 .. m.cap - 1 : m.slot[i] \in SlotContents BY Fields
<1>1. T \in SUBSET Nat /\ T \subseteq 0 .. m.cap - 1 BY <1>0 DEF Ends
<1>2. T # {} => n \in T /\ \A y \in T : n <= y BY <1>1, LeastOf
<1>3. FindSlot(m, k) = IF T = {} THEN -1 ELSE IF m.slot[at].state = "empty" THEN -1 ELSE at BY DEF FindSlot
<1>4. \A y \in 0 .. m.cap - 1 : y \in T <=> (m.slot[Probed(m, k, y)].state = "empty"
                                   \/ (m.slot[Probed(m, k, y)].state = "used" /\ m.slot[Probed(m, k, y)].key = k)) BY DEF Ends
<1> HIDE DEF T, n, at
<1>5. ASSUME T # {} PROVE n \in 0 .. m.cap - 1 /\ at \in 0 .. m.cap - 1
  <2>1. n \in 0 .. m.cap - 1 BY <1>1, <1>2, <1>5
  <2>2. m.cap \in Nat \ {0} BY <1>0, <2>1
  <2> QED BY <2>1, <2>2, Round DEF at
<1>6. ASSUME NEW i \in UsedSlots(m), m.slot[i].key = k PROVE FindSlot(m, k) = i /\ i >= 0
  <2>1. i \in 0 .. m.cap - 1 /\ m.slot[i].state = "used" BY <1>0 DEF UsedSlots
  <2>2. m.cap \in Nat \ {0} BY <1>0, <2>1
  <2>3. PICK y \in 0 .. m.cap - 1 : Probed(m, k, y) = i BY <2>1, <2>2, Round
  <2>4. y \in T BY <2>3, <2>1, <1>4, <1>6
  <2>5. n \in T /\ n <= y /\ n \in 0 .. m.cap - 1 /\ at \in 0 .. m.cap - 1 BY <2>4, <1>2, <1>5
  <2>6. \A j \in 0 .. y - 1 : m.slot[Probed(m, k, j)] # Unused BY <2>3, <1>6 DEF GoodTable, Reached
  <2>7. CASE n = y BY <2>7, <2>5, <2>3, <2>1, <1>3, <1>6 DEF at
  <2>8. CASE n < y
    <3>1. m.slot[at] # Unused /\ m.slot[at] \in SlotContents BY <2>5, <2>6, <2>8, <1>0 DEF at
    <3>2. m.slot[at].state # "empty" BY <3>1, Contents
    <3>3. m.slot[at].state = "used" /\ m.slot[at].key = k BY <2>5, <1>4, <3>2 DEF at
    <3>4. at \in UsedSlots(m) BY <3>3, <2>5, <1>0 DEF UsedSlots
    <3>5. at = i BY <3>3, <3>4, <1>6 DEF GoodTable, KeysOnce
    <3> QED BY <3>5, <3>2, <2>4, <1>3, <2>1
  <2> QED BY <2>5, <2>7, <2>8, <2>1
<1>7. ASSUME FindSlot(m, k) >= 0 PROVE FindSlot(m, k) \in UsedSlots(m) /\ m.slot[FindSlot(m, k)].key = k
  <2>1. T # {} /\ m.slot[at].state # "empty" /\ FindSlot(m, k) = at BY <1>3, <1>7
  <2>2. m.slot[at].state = "used" /\ m.slot[at].key = k BY <2>1, <1>2, <1>4, <1>5 DEF at
  <2> QED BY <2>1, <2>2, <1>5, <1>0 DEF UsedSlots
<1>8. FindSlot(m, k) = -1 \/ FindSlot(m, k) >= 0 BY <1>3, <1>5
<1> QED BY <1>6, <1>7, <1>8

LEMMA OneMore == ASSUME NEW S, IsFiniteSet(S), NEW x
  PROVE Cardinality(S \cup {x}) = IF x \in S THEN Cardinality(S) ELSE Cardinality(S) + 1
  BY FS_AddElement

\* The slots in use, and those that were, are counted; while fewer were than there are, one never was.
LEMMA Counts_ == ASSUME NEW m, GoodTable(m)
  PROVE /\ IsFiniteSet(UsedSlots(m)) /\ IsFiniteSet(Dirty(m)) /\ UsedSlots(m) \subseteq Dirty(m) /\ Dirty(m) \subseteq 0 .. m.cap - 1
        /\ Cardinality(UsedSlots(m)) \in Nat /\ Cardinality(UsedSlots(m)) <= m.used
        /\ m.used < m.cap => \E i \in 0 .. m.cap - 1 : m.slot[i] = Unused
<1> DEFINE all == 0 .. m.cap - 1
<1>0. m.cap \in Nat /\ DOMAIN m.slot = all /\ \A i \in all : m.slot[i] \in SlotContents BY Fields
<1>1. IsFiniteSet(all) /\ Cardinality(all) = m.cap
  <2>1. 0 \in Int /\ m.cap - 1 \in Int BY <1>0
  <2>2. IsFiniteSet(all) /\ Cardinality(all) = IF 0 > m.cap - 1 THEN 0 ELSE (m.cap - 1) - 0 + 1 BY <2>1, FS_Interval
  <2> QED BY SMTT(30), <2>2, <1>0
<1>2. Dirty(m) \subseteq all BY <1>0 DEF Dirty
<1>3. UsedSlots(m) \subseteq Dirty(m) BY <1>0, Contents DEF UsedSlots, Dirty
<1>4. IsFiniteSet(Dirty(m)) /\ Cardinality(Dirty(m)) \in Nat BY <1>1, <1>2, FS_Subset, FS_CardinalityType
<1>5. IsFiniteSet(UsedSlots(m)) /\ Cardinality(UsedSlots(m)) <= Cardinality(Dirty(m)) BY <1>3, <1>4, FS_Subset
<1>6. Cardinality(UsedSlots(m)) \in Nat BY <1>5, FS_CardinalityType
<1>7. m.used = Cardinality(Dirty(m)) BY DEF GoodTable
<1>8. ASSUME m.used < m.cap PROVE \E i \in all : m.slot[i] = Unused
  <2>1. Dirty(m) # all BY <1>1, <1>7, <1>8, <1>0, <1>4
  <2> QED BY <2>1, <1>2, <1>0 DEF Dirty
<1> QED BY <1>2, <1>3, <1>4, <1>5, <1>6, <1>7, <1>8

MayHold(m, i, s) ==
    s.state = "used" => /\ \A n \in 0 .. m.cap - 1 : Probed(m, s.key, n) = i =>
                               \A j \in 0 .. n - 1 : m.slot[Probed(m, s.key, j)] # Unused
                        /\ \A j \in UsedSlots(m) : j # i => m.slot[j].key # s.key

DiffersAt(m, m2, i, s) == m2.cap = m.cap /\ m2.slot = [m.slot EXCEPT ![i] = s]

\* One slot is given something, which is not nothing and can be found there if it is a pair.
LEMMA SlotSet ==
  ASSUME NEW m, GoodTable(m), NEW i \in 0 .. m.cap - 1, NEW s \in SlotContents, s # Unused,
         MayHold(m, i, s), NEW m2, DiffersAt(m, m2, i, s)
  PROVE /\ m2.slot \in [0 .. m.cap - 1 -> SlotContents] /\ Reached(m2) /\ KeysOnce(m2)
        /\ UsedSlots(m2) = (UsedSlots(m) \ {i}) \cup (IF s.state = "used" THEN {i} ELSE {})
        /\ Dirty(m2) = Dirty(m) \cup {i}
        /\ m2.slot[i] = s /\ \A j \in 0 .. m.cap - 1 : j # i => m2.slot[j] = m.slot[j]
<1>0. m.cap \in Nat \ {0} /\ DOMAIN m.slot = 0 .. m.cap - 1 /\ \A j \in 0 .. m.cap - 1 : m.slot[j] \in SlotContents BY Fields
<1>1. m2.slot \in [0 .. m.cap - 1 -> SlotContents] /\ DOMAIN m2.slot = 0 .. m.cap - 1 BY <1>0 DEF GoodTable, DiffersAt
<1>2. m2.slot[i] = s /\ \A j \in 0 .. m.cap - 1 : j # i => m2.slot[j] = m.slot[j] BY <1>0 DEF DiffersAt
<1>3. UsedSlots(m2) = (UsedSlots(m) \ {i}) \cup (IF s.state = "used" THEN {i} ELSE {}) BY <1>0, <1>1, <1>2 DEF UsedSlots
<1>4. Dirty(m2) = Dirty(m) \cup {i} BY <1>0, <1>1, <1>2 DEF Dirty
<1>5. \A k, n : Probed(m2, k, n) = Probed(m, k, n) BY DEF Probed, DiffersAt
<1>6. \A j \in 0 .. m.cap - 1 : m.slot[j] # Unused => m2.slot[j] # Unused BY <1>2
<1>7. Reached(m2)
  <2>1. SUFFICES ASSUME NEW u \in UsedSlots(m2), NEW n \in 0 .. m.cap - 1, Probed(m, m2.slot[u].key, n) = u, NEW j \in 0 .. n - 1
        PROVE m2.slot[Probed(m, m2.slot[u].key, j)] # Unused
    BY <1>5 DEF Reached, DiffersAt
  <2>2. u \in 0 .. m.cap - 1 /\ m2.slot[u].state = "used" BY <1>1 DEF UsedSlots
  <2>3. m2.slot[u].key \in TableKeys BY <2>2, <1>1, Contents
  <2>4. j \in 0 .. m.cap - 1 BY <1>0
  <2>5. Probed(m, m2.slot[u].key, j) \in 0 .. m.cap - 1 BY <2>3, <2>4, <1>0, Round
  <2>6. m.slot[Probed(m, m2.slot[u].key, j)] # Unused
    <3>1. CASE u = i BY <3>1, <2>1, <2>2, <1>2 DEF MayHold
    <3>2. CASE u # i
      <4>1. u \in UsedSlots(m) /\ m2.slot[u] = m.slot[u] BY <3>2, <1>2, <1>3, <2>2
      <4> QED BY <4>1, <2>1 DEF GoodTable, Reached
    <3> QED BY <3>1, <3>2
  <2> QED BY <2>5, <2>6, <1>6
<1>8. KeysOnce(m2)
  <2>1. SUFFICES ASSUME NEW u \in UsedSlots(m2), NEW w \in UsedSlots(m2), m2.slot[u].key = m2.slot[w].key PROVE u = w BY DEF KeysOnce
  <2>2. \A x \in UsedSlots(m2) : x # i => x \in UsedSlots(m) /\ m2.slot[x] = m.slot[x] BY <1>2, <1>3, <1>0 DEF UsedSlots
  <2>3. i \in UsedSlots(m2) => s.state = "used" BY <1>3
  <2>4. CASE u = i BY <2>1, <2>2, <2>3, <2>4, <1>2 DEF MayHold
  <2>5. CASE w = i BY <2>1, <2>2, <2>3, <2>5, <1>2 DEF MayHold
  <2>6. CASE u # i /\ w # i BY <2>1, <2>2, <2>6 DEF GoodTable, KeysOnce
  <2> QED BY <2>4, <2>5, <2>6
<1> QED BY <1>1, <1>2, <1>3, <1>4, <1>7, <1>8

HasRoom(m) == m.used < m.cap
LacksKey(m, k) == \A j \in UsedSlots(m) : m.slot[j].key # k

PutInto(m, m2, i, p) ==
    /\ \E states \in {{"empty"}, {"empty", "tombstone"}} : i = ProbeTo(m, p.key, states)
    /\ m2 \in Tables /\ DiffersAt(m, m2, i, p)
    /\ m2.used = IF m.slot[i].state = "empty" THEN m.used + 1 ELSE m.used

\* A key that is not there goes where a search of slots to use stops.
LEMMA PutIs ==
  ASSUME NEW m, GoodTable(m), NEW p \in Pairs, LacksKey(m, p.key), HasRoom(m),
         NEW i, NEW m2, PutInto(m, m2, i, p)
  PROVE /\ GoodTable(m2) /\ i \in 0 .. m.cap - 1 /\ i \notin UsedSlots(m) /\ UsedSlots(m2) = UsedSlots(m) \cup {i}
        /\ Cardinality(UsedSlots(m2)) = Cardinality(UsedSlots(m)) + 1
        /\ m2.slot[i] = p /\ \A j \in UsedSlots(m) : m2.slot[j] = m.slot[j]
<1>20. PICK states \in {{"empty"}, {"empty", "tombstone"}} : i = ProbeTo(m, p.key, states) BY DEF PutInto
<1>21. m2 \in Tables /\ DiffersAt(m, m2, i, p) /\ m2.used = IF m.slot[i].state = "empty" THEN m.used + 1 ELSE m.used BY DEF PutInto
<1>0. m.cap \in Nat /\ DOMAIN m.slot = 0 .. m.cap - 1 /\ \A j \in 0 .. m.cap - 1 : m.slot[j] \in SlotContents /\ m.used \in Nat BY Fields
<1>1. PICK e \in 0 .. m.cap - 1 : m.slot[e] = Unused BY Counts_ DEF HasRoom
<1>2. m.cap \in Nat \ {0} BY <1>0, <1>1
<1>3. p \in SlotContents /\ p # Unused /\ p.state = "used" /\ p.key \in TableKeys BY Contents DEF Pairs, SlotContents, Unused
<1>4. m.slot[e].state \in states BY <1>1, <1>20 DEF Unused
<1>5. PICK n \in 0 .. m.cap - 1 : /\ i = Probed(m, p.key, n) /\ i \in 0 .. m.cap - 1 /\ m.slot[i].state \in states
                                  /\ \A j \in 0 .. n - 1 : m.slot[Probed(m, p.key, j)].state \notin states
  BY <1>3, <1>4, <1>20, ProbeFinds
<1>6. i \notin UsedSlots(m) BY <1>5, <1>20 DEF UsedSlots
<1>7. \A y \in 0 .. m.cap - 1 : Probed(m, p.key, y) = i => \A j \in 0 .. y - 1 : m.slot[Probed(m, p.key, j)] # Unused
  <2>1. SUFFICES ASSUME NEW y \in 0 .. m.cap - 1, Probed(m, p.key, y) = i, NEW j \in 0 .. y - 1 PROVE m.slot[Probed(m, p.key, j)] # Unused OBVIOUS
  <2>2. y = n BY <2>1, <1>5, <1>2, <1>3, Round
  <2>3. m.slot[Probed(m, p.key, j)].state \notin states BY <2>2, <1>5
  <2> QED BY <2>3, <1>20 DEF Unused
<1>8. /\ m2.slot \in [0 .. m.cap - 1 -> SlotContents] /\ Reached(m2) /\ KeysOnce(m2)
      /\ UsedSlots(m2) = UsedSlots(m) \cup {i}
      /\ Dirty(m2) = Dirty(m) \cup {i}
      /\ m2.slot[i] = p /\ \A j \in 0 .. m.cap - 1 : j # i => m2.slot[j] = m.slot[j]
  <2>1. MayHold(m, i, p) BY <1>7 DEF MayHold, LacksKey
  <2>2. UsedSlots(m2) = (UsedSlots(m) \ {i}) \cup (IF p.state = "used" THEN {i} ELSE {})
        /\ m2.slot \in [0 .. m.cap - 1 -> SlotContents] /\ Reached(m2) /\ KeysOnce(m2)
        /\ Dirty(m2) = Dirty(m) \cup {i}
        /\ m2.slot[i] = p /\ \A j \in 0 .. m.cap - 1 : j # i => m2.slot[j] = m.slot[j]
    BY <1>3, <1>5, <1>21, <2>1, SlotSet
  <2>3. UsedSlots(m2) = UsedSlots(m) \cup {i} BY <2>2, <1>3, <1>6
  <2> QED BY <2>2, <2>3
<1>9. m2.used = Cardinality(Dirty(m2))
  <2>1. IsFiniteSet(Dirty(m)) /\ m.used = Cardinality(Dirty(m)) BY Counts_ DEF GoodTable
  <2>2. m.slot[i].state = "empty" <=> i \notin Dirty(m) BY <1>5, <1>0, Contents DEF Dirty
  <2>3. Cardinality(Dirty(m) \cup {i}) = IF i \in Dirty(m) THEN m.used ELSE m.used + 1 BY <2>1, OneMore
  <2> QED BY <2>2, <2>3, <1>8, <1>21
<1>10. Cardinality(UsedSlots(m2)) = Cardinality(UsedSlots(m)) + 1 BY <1>6, <1>8, Counts_, OneMore
<1>11. GoodTable(m2) BY <1>8, <1>9, <1>21 DEF GoodTable, DiffersAt
<1> QED BY <1>5, <1>6, <1>8, <1>10, <1>11 DEF UsedSlots

-----------------------------------------------------------------------------
(* The table made anew. *)

LEMMA EmptyTable == ASSUME NEW cap \in Nat
  PROVE /\ GoodTable(NewTable(cap)) /\ UsedSlots(NewTable(cap)) = {} /\ NewTable(cap).cap = cap
        /\ NewTable(cap).used = 0 /\ NewTable(cap).len = 0
<1> DEFINE m == NewTable(cap)
<1>1. m.cap = cap /\ m.len = 0 /\ m.used = 0 /\ m.slot = [i \in 0 .. cap - 1 |-> Unused] BY DEF NewTable
<1>2. m \in Tables /\ m.slot \in [0 .. m.cap - 1 -> SlotContents]
  <2>1. [i \in 0 .. cap - 1 |-> Unused] \in [0 .. cap - 1 -> SlotContents] BY DEF SlotContents
  <2> QED BY <2>1, <1>1 DEF NewTable, Tables
<1>3. UsedSlots(m) = {} BY <1>1 DEF UsedSlots, Unused
<1>4. Dirty(m) = {} BY <1>1 DEF Dirty
<1> HIDE DEF m
<1>5. m.used = Cardinality(Dirty(m)) BY <1>1, <1>4, FS_EmptySet
<1>6. GoodTable(m) BY <1>2, <1>3, <1>5 DEF GoodTable, Reached, KeysOnce
<1> QED BY <1>1, <1>3, <1>6 DEF m

\* The definition by recursion has its meaning: there is a function that obeys it.
RefillOf(m, cap, n, h) == h = [i \in 0 .. n |-> IF i = 0 THEN NewTable(cap) ELSE MovedTo(h[i - 1], m.slot[i - 1])]
LEMMA RefillsIs == ASSUME NEW m, m.cap \in Nat, NEW cap
  PROVE /\ Refills(m, cap)[0] = NewTable(cap)
        /\ \A i \in 0 .. m.cap - 1 : Refills(m, cap)[i + 1] = MovedTo(Refills(m, cap)[i], m.slot[i])
<1> DEFINE P == {n \in Nat : \E h : RefillOf(m, cap, n, h)}
<1>1. 0 \in P
  <2> DEFINE h == [i \in 0 .. 0 |-> NewTable(cap)]
  <2>1. h = [i \in 0 .. 0 |-> IF i = 0 THEN NewTable(cap) ELSE MovedTo(h[i - 1], m.slot[i - 1])] OBVIOUS
  <2>2. RefillOf(m, cap, 0, h) BY <2>1 DEF RefillOf
  <2> QED BY <2>2
<1>2. ASSUME NEW n \in Nat, n \in P PROVE n + 1 \in P
  <2>1. PICK h : RefillOf(m, cap, n, h) BY <1>2
  <2> DEFINE g == [i \in 0 .. n + 1 |-> IF i = n + 1 THEN MovedTo(h[n], m.slot[n]) ELSE h[i]]
  <2>2. \A i \in 0 .. n : h[i] = IF i = 0 THEN NewTable(cap) ELSE MovedTo(h[i - 1], m.slot[i - 1]) BY <2>1 DEF RefillOf
  <2>3. \A i \in 0 .. n : g[i] = h[i] OBVIOUS
  <2>4. \A i \in 0 .. n + 1 : g[i] = IF i = 0 THEN NewTable(cap) ELSE MovedTo(g[i - 1], m.slot[i - 1])
    <3>1. ASSUME NEW i \in 0 .. n + 1 PROVE g[i] = IF i = 0 THEN NewTable(cap) ELSE MovedTo(g[i - 1], m.slot[i - 1])
      <4>1. CASE i = n + 1 BY <4>1, <2>3
      <4>2. CASE i # n + 1
        <5>1. i \in 0 .. n /\ (i # 0 => i - 1 \in 0 .. n) BY <4>2
        <5> HIDE DEF g
        <5> QED BY <5>1, <2>2, <2>3
      <4> QED BY <4>1, <4>2
    <3> QED BY <3>1
  <2>5. g = [i \in 0 .. n + 1 |-> g[i]] OBVIOUS
  <2> HIDE DEF g
  <2>6. RefillOf(m, cap, n + 1, g) BY <2>4, <2>5 DEF RefillOf
  <2> QED BY <2>6
<1>3. m.cap \in P
  <2> HIDE DEF P
  <2>1. \A i \in 0 .. m.cap : i \in P BY <1>1, <1>2, UpTo
  <2> QED BY <2>1
<1>4. PICK h : RefillOf(m, cap, m.cap, h) BY <1>3
<1> DEFINE D(f) == [i \in 0 .. m.cap |-> IF i = 0 THEN NewTable(cap) ELSE MovedTo(f[i - 1], m.slot[i - 1])]
           r == Refills(m, cap)
<1>5. h = D(h) BY <1>4 DEF RefillOf
<1>6. r = CHOOSE f : f = D(f) BY DEF Refills
<1>7. (CHOOSE f : f = D(f)) = D(CHOOSE f : f = D(f))
  <2> HIDE DEF D
  <2> QED BY <1>5, Zenon
<1>8. r = D(r) BY <1>6, <1>7
<1> HIDE DEF r
<1>9. \A i \in 0 .. m.cap : r[i] = IF i = 0 THEN NewTable(cap) ELSE MovedTo(r[i - 1], m.slot[i - 1]) BY <1>8
<1>10. r[0] = NewTable(cap) BY <1>9
<1>11. ASSUME NEW i \in 0 .. m.cap - 1 PROVE r[i + 1] = MovedTo(r[i], m.slot[i])
  <2>1. i + 1 \in 0 .. m.cap /\ i + 1 # 0 /\ (i + 1) - 1 = i OBVIOUS
  <2> QED BY <2>1, <1>9
<1> QED BY <1>10, <1>11 DEF r

\* The slots gone through have their pairs in the new table, and no other is there.
Below(m, i) == {j \in UsedSlots(m) : j < i}
MovedUpTo(m, cap, r, i) ==
    /\ GoodTable(r) /\ r.cap = cap /\ r.len = 0
    /\ r.used = Cardinality(UsedSlots(r)) /\ r.used = Cardinality(Below(m, i))
    /\ \A j \in Below(m, i) : HasPair(r, m.slot[j])
    /\ \A u \in UsedSlots(r) : \E j \in Below(m, i) : r.slot[u] = m.slot[j]

LEMMA BelowCounts == ASSUME NEW m, GoodTable(m), NEW i \in 0 .. m.cap
  PROVE /\ IsFiniteSet(Below(m, i)) /\ Cardinality(Below(m, i)) \in Nat /\ Cardinality(Below(m, i)) <= Cardinality(UsedSlots(m))
        /\ Below(m, 0) = {} /\ Below(m, m.cap) = UsedSlots(m)
        /\ i \in UsedSlots(m) => Below(m, i + 1) = Below(m, i) \cup {i} /\ i \notin Below(m, i)
        /\ i \notin UsedSlots(m) => Below(m, i + 1) = Below(m, i)
<1>0. m.cap \in Nat /\ UsedSlots(m) \subseteq 0 .. m.cap - 1 BY Fields DEF UsedSlots
<1>1. Below(m, i) \subseteq UsedSlots(m) BY DEF Below
<1>2. IsFiniteSet(UsedSlots(m)) BY Counts_
<1>3. IsFiniteSet(Below(m, i)) /\ Cardinality(Below(m, i)) <= Cardinality(UsedSlots(m)) BY <1>1, <1>2, FS_Subset
<1>4. Cardinality(Below(m, i)) \in Nat BY <1>3, FS_CardinalityType
<1>5. Below(m, 0) = {} /\ Below(m, m.cap) = UsedSlots(m) BY <1>0 DEF Below
<1>6. \A j \in UsedSlots(m) : j < i + 1 <=> j < i \/ j = i BY <1>0
<1>9. i \notin Below(m, i) BY <1>0 DEF Below
<1>10. i \in UsedSlots(m) => Below(m, i + 1) = Below(m, i) \cup {i}
  <2>1. SUFFICES ASSUME i \in UsedSlots(m) PROVE Below(m, i + 1) = Below(m, i) \cup {i} OBVIOUS
  <2>2. \A j : j \in Below(m, i + 1) <=> j \in Below(m, i) \/ j = i BY <2>1, <1>6 DEF Below
  <2> QED BY <2>2
<1>7. i \in UsedSlots(m) => Below(m, i + 1) = Below(m, i) \cup {i} /\ i \notin Below(m, i) BY <1>9, <1>10
<1>8. i \notin UsedSlots(m) => Below(m, i + 1) = Below(m, i) BY <1>6 DEF Below
<1> QED BY <1>3, <1>4, <1>5, <1>7, <1>8

LEMMA MovedStep ==
  ASSUME NEW m, GoodTable(m), NEW cap \in Nat, Cardinality(UsedSlots(m)) < cap, NEW i \in 0 .. m.cap - 1,
         NEW r, MovedUpTo(m, cap, r, i)
  PROVE MovedUpTo(m, cap, MovedTo(r, m.slot[i]), i + 1)
<1> DEFINE s == m.slot[i]
           r2 == MovedTo(r, s)
<1>0. m.cap \in Nat /\ i \in 0 .. m.cap /\ i + 1 \in 0 .. m.cap /\ s \in SlotContents /\ DOMAIN m.slot = 0 .. m.cap - 1 BY Fields
<1>1. GoodTable(r) /\ r.cap = cap /\ r.len = 0 /\ r.used = Cardinality(UsedSlots(r)) /\ r.used = Cardinality(Below(m, i)) BY DEF MovedUpTo
<1>2. i \in UsedSlots(m) <=> s.state = "used" BY <1>0 DEF UsedSlots
<1>3. CASE s.state # "used"
  <2>1. r2 = r /\ Below(m, i + 1) = Below(m, i) BY <1>3, <1>0, <1>2, BelowCounts DEF MovedTo
  <2> QED BY <2>1 DEF MovedUpTo
<1>4. CASE s.state = "used"
  <2> DEFINE at == ProbeTo(r, s.key, {"empty"})
             states == {"empty"}
  <2>1. s \in Pairs BY <1>4, <1>0, Contents DEF SlotContents, Unused, Tombstone
  <2>2. Below(m, i + 1) = Below(m, i) \cup {i} /\ i \notin Below(m, i) /\ i \in UsedSlots(m) BY <1>4, <1>0, <1>2, BelowCounts
  <2>3. r.used < r.cap BY SMTT(30), <1>0, <1>1, BelowCounts
  <2>4. r.cap \in Nat /\ r.used \in Nat /\ DOMAIN r.slot = 0 .. r.cap - 1
        /\ r = [cap |-> r.cap, len |-> r.len, used |-> r.used, slot |-> r.slot] BY <1>1, Fields
  <2>5. LacksKey(r, s.key)
    <3>1. SUFFICES ASSUME NEW u \in UsedSlots(r), r.slot[u].key = s.key PROVE FALSE BY DEF LacksKey
    <3>2. PICK j \in Below(m, i) : r.slot[u] = m.slot[j] BY DEF MovedUpTo
    <3>3. j \in UsedSlots(m) /\ j # i BY <2>2, <3>2 DEF Below
    <3> QED BY <3>1, <3>2, <3>3, <2>2 DEF GoodTable, KeysOnce
  <2>6. r2 = [r EXCEPT !.slot[at] = s, !.used = @ + 1] BY <1>4 DEF MovedTo
  <2>7. r2.cap = r.cap /\ r2.len = r.len /\ r2.slot = [r.slot EXCEPT ![at] = s] /\ r2.used = r.used + 1
        /\ r2 = [cap |-> r2.cap, len |-> r2.len, used |-> r2.used, slot |-> r2.slot]
    BY <2>6, <2>4
  <2>8. r.slot[at].state = "empty" /\ at \in 0 .. r.cap - 1
    <3>1. \E e \in 0 .. r.cap - 1 : r.slot[e].state \in states BY <1>1, <2>3, Counts_ DEF Unused
    <3>2. s.key \in TableKeys BY <2>1 DEF Pairs
    <3>3. \E n \in 0 .. r.cap - 1 : at = Probed(r, s.key, n) /\ at \in 0 .. r.cap - 1 /\ r.slot[Probed(r, s.key, n)].state \in states
      BY <3>1, <3>2, <1>1, ProbeFinds
    <3> QED BY <3>3
  <2>9. DiffersAt(r, r2, at, s) BY <2>7 DEF DiffersAt
  <2>10. r2 \in Tables
    <3>1. r2.slot \in [0 .. r.cap - 1 -> SlotContents] BY <2>7, <1>1, <1>0 DEF GoodTable
    <3>2. r2.len \in Nat /\ r2.cap \in Nat /\ r2.used \in Nat BY <2>7, <2>4, <1>1
    <3> HIDE DEF r2
    <3> QED BY <3>1, <3>2, <2>7, <2>4 DEF Tables
  <2>11. r2.used = IF r.slot[at].state = "empty" THEN r.used + 1 ELSE r.used BY <2>7, <2>8
  <2> HIDE DEF at, r2, s
  <2>12. /\ GoodTable(r2) /\ at \notin UsedSlots(r) /\ UsedSlots(r2) = UsedSlots(r) \cup {at}
         /\ Cardinality(UsedSlots(r2)) = Cardinality(UsedSlots(r)) + 1
         /\ r2.slot[at] = s /\ \A j \in UsedSlots(r) : r2.slot[j] = r.slot[j]
    <3>1. PutInto(r, r2, at, s) BY <2>9, <2>10, <2>11 DEF PutInto, at
    <3>2. HasRoom(r) BY <2>3 DEF HasRoom
    <3>3. GoodTable(r) BY <1>1
    <3>4. GoodTable(r2) BY <3>1, <3>2, <3>3, <2>1, <2>5, PutIs
    <3>5. at \notin UsedSlots(r) /\ UsedSlots(r2) = UsedSlots(r) \cup {at} BY <3>1, <3>2, <3>3, <2>1, <2>5, PutIs
    <3>6. Cardinality(UsedSlots(r2)) = Cardinality(UsedSlots(r)) + 1 BY <3>1, <3>2, <3>3, <2>1, <2>5, PutIs
    <3>7. r2.slot[at] = s BY <3>1, <3>2, <3>3, <2>1, <2>5, PutIs
    <3>8. \A j \in UsedSlots(r) : r2.slot[j] = r.slot[j] BY <3>1, <3>2, <3>3, <2>1, <2>5, PutIs
    <3> QED BY <3>4, <3>5, <3>6, <3>7, <3>8
  <2>13. r2.used = Cardinality(UsedSlots(r2)) BY <2>12, <2>7, <1>1
  <2>14. r2.used = Cardinality(Below(m, i + 1)) BY <2>2, <2>7, <1>1, <1>0, BelowCounts, OneMore
  <2>15. \A j \in Below(m, i + 1) : HasPair(r2, m.slot[j])
    <3>1. HasPair(r2, m.slot[i]) BY <2>12 DEF HasPair, s
    <3>2. \A j \in Below(m, i) : HasPair(r2, m.slot[j])
      <4>1. SUFFICES ASSUME NEW j \in Below(m, i) PROVE HasPair(r2, m.slot[j]) OBVIOUS
      <4>2. PICK u \in UsedSlots(r) : r.slot[u] = m.slot[j] BY DEF MovedUpTo, HasPair
      <4> QED BY <4>2, <2>12 DEF HasPair
    <3> QED BY <3>1, <3>2, <2>2
  <2>16. \A u \in UsedSlots(r2) : \E j \in Below(m, i + 1) : r2.slot[u] = m.slot[j]
    <3>1. SUFFICES ASSUME NEW u \in UsedSlots(r2) PROVE \E j \in Below(m, i + 1) : r2.slot[u] = m.slot[j] OBVIOUS
    <3>2. CASE u = at BY <3>2, <2>2, <2>12 DEF s
    <3>3. CASE u # at
      <4>1. u \in UsedSlots(r) /\ r2.slot[u] = r.slot[u] BY <3>3, <2>12
      <4>2. PICK j \in Below(m, i) : r.slot[u] = m.slot[j] BY <4>1 DEF MovedUpTo
      <4> QED BY <4>1, <4>2, <2>2
    <3> QED BY <3>2, <3>3
  <2>17. r2.cap = cap /\ r2.len = 0 BY <2>7, <1>1
  <2> QED BY <2>12, <2>13, <2>14, <2>15, <2>16, <2>17 DEF MovedUpTo, r2, s
<1> QED BY <1>3, <1>4

\* A new table of sufficient capacity has the pairs of the old, and no tombstone.
LEMMA RebuiltIs ==
  ASSUME NEW m, GoodTable(m), m.len = Cardinality(UsedSlots(m)), NEW cap \in Nat, m.len < cap
  PROVE /\ GoodTable(Rebuilt(m, cap)) /\ Rebuilt(m, cap).cap = cap
        /\ Rebuilt(m, cap).len = m.len /\ Rebuilt(m, cap).used = m.len
        /\ Cardinality(UsedSlots(Rebuilt(m, cap))) = m.len
        /\ \A told : Agrees(m, told) => Agrees(Rebuilt(m, cap), told)
<1> DEFINE f == Refills(m, cap)
           P == {i \in Nat : MovedUpTo(m, cap, f[i], i)}
           r == f[m.cap]
           b == Rebuilt(m, cap)
<1>0. m.cap \in Nat /\ m.len \in Nat BY Fields
<1>1. f[0] = NewTable(cap) /\ \A i \in 0 .. m.cap - 1 : f[i + 1] = MovedTo(f[i], m.slot[i]) BY <1>0, RefillsIs
<1> HIDE DEF f
<1>2. 0 \in P
  <2>1. 0 \in 0 .. m.cap BY <1>0
  <2>2. Below(m, 0) = {} BY <2>1, BelowCounts
  <2>3. Cardinality({}) = 0 BY FS_EmptySet
  <2>4. MovedUpTo(m, cap, NewTable(cap), 0) BY <2>2, <2>3, EmptyTable DEF MovedUpTo
  <2> QED BY <2>4, <1>1
<1>3. \A i \in 0 .. m.cap - 1 : i \in P => i + 1 \in P BY <1>1, <1>0, MovedStep
<1>4. m.cap \in P
  <2> HIDE DEF P
  <2>1. \A i \in 0 .. m.cap : i \in P BY <1>0, <1>2, <1>3, UpTo
  <2> QED BY <2>1, <1>0
<1>5. MovedUpTo(m, cap, r, m.cap) BY <1>4
<1> HIDE DEF P, r
<1>6. b = [r EXCEPT !.len = m.len] BY DEF Rebuilt, r, f
<1>7. GoodTable(r) /\ r.cap = cap /\ r.used = Cardinality(UsedSlots(r)) BY <1>5 DEF MovedUpTo
<1>8. Below(m, m.cap) = UsedSlots(m) BY <1>0, BelowCounts
<1>9. r.used = m.len BY <1>5, <1>8 DEF MovedUpTo
<1>10. b = [cap |-> r.cap, len |-> m.len, used |-> r.used, slot |-> r.slot] BY <1>6, <1>7, Fields
<1> HIDE DEF b
<1>11. b.cap = r.cap /\ b.len = m.len /\ b.used = r.used /\ b.slot = r.slot BY <1>10
<1>12. UsedSlots(b) = UsedSlots(r) /\ Dirty(b) = Dirty(r) /\ \A k, n : Probed(b, k, n) = Probed(r, k, n)
  BY <1>11 DEF UsedSlots, Dirty, Probed
<1>13. b \in Tables BY <1>10, <1>0, <1>7 DEF GoodTable, Tables
<1>14. GoodTable(b)
  <2>1. Reached(b) BY <1>7, <1>11, <1>12 DEF GoodTable, Reached
  <2>2. KeysOnce(b) BY <1>7, <1>11, <1>12 DEF GoodTable, KeysOnce
  <2> QED BY <2>1, <2>2, <1>7, <1>11, <1>12, <1>13 DEF GoodTable
<1>15. \A told : Agrees(m, told) => Agrees(b, told)
  <2>1. SUFFICES ASSUME NEW told, Agrees(m, told) PROVE Agrees(b, told) OBVIOUS
  <2>2. \A p : HasPair(m, p) => HasPair(b, p)
    <3>1. SUFFICES ASSUME NEW p, NEW j \in UsedSlots(m), m.slot[j] = p PROVE HasPair(b, p) BY DEF HasPair
    <3>2. HasPair(r, m.slot[j]) BY <1>5, <1>8 DEF MovedUpTo
    <3> QED BY <3>1, <3>2, <1>11, <1>12 DEF HasPair
  <2>3. \A u \in UsedSlots(b) : \E j \in UsedSlots(m) : b.slot[u] = m.slot[j] BY <1>5, <1>8, <1>11, <1>12 DEF MovedUpTo
  <2> QED BY <2>1, <2>2, <2>3 DEF Agrees
<1> QED BY <1>7, <1>9, <1>11, <1>12, <1>14, <1>15 DEF b

-----------------------------------------------------------------------------
(* What is known of the table, and each call. *)

With(told, k, v) == [j \in DOMAIN told \cup {k} |-> IF j = k THEN v ELSE told[j]]
LEMMA AgreesSet ==
  ASSUME NEW m, NEW told, Agrees(m, told), NEW k \in TableKeys, NEW v \in TableValues, NEW i,
         \A j \in UsedSlots(m) : j # i => m.slot[j].key # k,
         i \in UsedSlots(m) => m.slot[i].key = k,
         NEW m2, UsedSlots(m2) = UsedSlots(m) \cup {i}, m2.slot[i] = Pair(k, v),
         \A j \in UsedSlots(m) : j # i => m2.slot[j] = m.slot[j]
  PROVE Agrees(m2, With(told, k, v))
<1> DEFINE w == With(told, k, v)
<1>1. DOMAIN w = DOMAIN told \cup {k} /\ w[k] = v /\ \A j \in DOMAIN told : j # k => w[j] = told[j] BY DEF With
<1> HIDE DEF w
<1>2. DOMAIN told \subseteq TableKeys BY DEF Agrees
<1>3. \A x \in DOMAIN w : HasPair(m2, Pair(x, w[x]))
  <2>1. SUFFICES ASSUME NEW x \in DOMAIN w PROVE HasPair(m2, Pair(x, w[x])) OBVIOUS
  <2>2. CASE x = k BY <2>2, <1>1 DEF HasPair
  <2>3. CASE x # k
    <3>1. x \in DOMAIN told /\ w[x] = told[x] BY <2>3, <1>1
    <3>2. PICK j \in UsedSlots(m) : m.slot[j] = Pair(x, told[x]) BY <3>1 DEF Agrees, HasPair
    <3>3. m.slot[j].key = x BY <3>2 DEF Pair
    <3>4. j # i BY <3>3, <2>3
    <3> QED BY <3>1, <3>2, <3>4 DEF HasPair
  <2> QED BY <2>2, <2>3
<1>4. ASSUME NEW u \in UsedSlots(m2) PROVE m2.slot[u].key \in DOMAIN w /\ m2.slot[u].value = w[m2.slot[u].key]
  <2>1. CASE u = i
    <3>1. Pair(k, v).key = k /\ Pair(k, v).value = v BY DEF Pair
    <3> QED BY <3>1, <2>1, <1>1
  <2>2. CASE u # i
    <3>1. u \in UsedSlots(m) /\ m2.slot[u] = m.slot[u] /\ m.slot[u].key # k BY <2>2
    <3>2. m.slot[u].key \in DOMAIN told /\ m.slot[u].value = told[m.slot[u].key] BY <3>1 DEF Agrees
    <3> QED BY <3>1, <3>2, <1>1
  <2> QED BY <2>1, <2>2
<1>5. DOMAIN w \subseteq TableKeys BY <1>1, <1>2
<1> QED BY <1>3, <1>4, <1>5 DEF Agrees, w

LEMMA TableInit == ASSUME InitTable PROVE TableInv
<1>1. PICK cap \in InitialCaps : table = NewTable(cap) BY DEF InitTable
<1>2. cap \in Nat /\ (cap = 0 \/ cap >= MinTable) BY TableAssumption
<1>3. /\ GoodTable(table) /\ UsedSlots(table) = {} /\ table.cap = cap /\ table.used = 0 /\ table.len = 0 BY <1>1, <1>2, EmptyTable
<1>4. table.len = Cardinality(UsedSlots(table)) BY <1>3, FS_EmptySet
<1>5. Sparse(table) BY <1>3, <1>2 DEF Sparse, MinTable
<1>6. Agrees(table, known) /\ copies = DOMAIN known BY <1>3 DEF InitTable, Agrees
<1> QED BY <1>3, <1>4, <1>5, <1>6 DEF TableInv

\* What TableInv says is what the map promises.
LEMMA TableIsMap == ASSUME TableInv PROVE TableHolds
<1>0. GoodTable(table) /\ Agrees(table, known) /\ Sparse(table) /\ copies = DOMAIN known /\ table.len = Cardinality(UsedSlots(table)) BY DEF TableInv
<1>1. ASSUME NEW k \in TableKeys PROVE Lookup(table, k) = IF k \in DOMAIN known THEN {known[k]} ELSE {}
  <2>1. CASE k \in DOMAIN known
    <3>1. PICK i \in UsedSlots(table) : table.slot[i] = Pair(k, known[k]) BY <1>0, <2>1 DEF Agrees, HasPair
    <3>2. table.slot[i].key = k /\ table.slot[i].value = known[k] BY <3>1 DEF Pair
    <3>3. FindSlot(table, k) = i /\ i >= 0 BY <1>0, <3>2, FindIs
    <3>4. i \in 0 .. table.cap - 1 /\ table.cap \in Nat BY <1>0, Fields DEF UsedSlots
    <3>5. ~(FindSlot(table, k) < 0) BY <3>3, <3>4
    <3> QED BY <3>2, <3>3, <3>5, <2>1 DEF Lookup
  <2>2. CASE k \notin DOMAIN known
    <3>1. \A i \in UsedSlots(table) : table.slot[i].key # k BY <1>0, <2>2 DEF Agrees
    <3>2. FindSlot(table, k) = -1 BY <1>0, <3>1, FindIs
    <3>3. FindSlot(table, k) < 0 BY <3>2
    <3> QED BY <3>3, <2>2 DEF Lookup
  <2> QED BY <2>1, <2>2
<1>2. table.used = Cardinality({i \in DOMAIN table.slot : table.slot[i] # Unused}) BY <1>0 DEF GoodTable, Dirty
<1>3. ASSUME table.cap > 0 PROVE \E i \in DOMAIN table.slot : table.slot[i] = Unused
  <2>1. table.cap \in Nat /\ table.used \in Nat /\ DOMAIN table.slot = 0 .. table.cap - 1 BY <1>0, Fields
  <2>2. table.used < table.cap BY <2>1, <1>0, <1>3 DEF Sparse
  <2> QED BY <2>1, <2>2, <1>0, Counts_
<1> QED BY <1>0, <1>1, <1>2, <1>3 DEF TableHolds, IsMap, ProbesEnd

LEMMA ReplaceKeeps == ASSUME TableInv, NEW k \in TableKeys, NEW v \in TableValues, Replace(k, v) PROVE TableInv'
<1> DEFINE i == FindSlot(table, k)
           p == Pair(k, v)
           s == table.slot[i]
<1>0. GoodTable(table) /\ Agrees(table, known) /\ Sparse(table) /\ copies = DOMAIN known /\ table.len = Cardinality(UsedSlots(table)) BY DEF TableInv
<1>1. i >= 0 /\ table' = [table EXCEPT !.slot[i].value = v] /\ known' = With(known, k, v) /\ copies' = copies BY DEF Replace, Learns, With
<1>2. i \in UsedSlots(table) /\ s.key = k BY <1>0, <1>1, FindIs
<1>3. /\ table.cap \in Nat /\ table.len \in Nat /\ table.used \in Nat /\ DOMAIN table.slot = 0 .. table.cap - 1
      /\ \A j \in 0 .. table.cap - 1 : table.slot[j] \in SlotContents
      /\ table = [cap |-> table.cap, len |-> table.len, used |-> table.used, slot |-> table.slot] BY <1>0, Fields
<1>4. i \in 0 .. table.cap - 1 /\ s.state = "used" BY <1>2, <1>3 DEF UsedSlots
<1>5. s \in SlotContents /\ s = Pair(k, s.value) BY <1>2, <1>3, <1>4, Contents
<1>6. [s EXCEPT !.value = v] = p BY <1>5 DEF Pair
<1>7. p \in SlotContents /\ p.state = "used" /\ p.key = k /\ p.value = v /\ p # Unused BY PairIs
<1> HIDE DEF i, p, s
<1>8. table'.cap = table.cap /\ table'.len = table.len /\ table'.used = table.used /\ table'.slot = [table.slot EXCEPT ![i] = p]
      /\ table' = [cap |-> table.cap, len |-> table.len, used |-> table.used, slot |-> table'.slot]
  <2>1. table' = [table EXCEPT !.slot = [table.slot EXCEPT ![i] = [s EXCEPT !.value = v]]] BY <1>1 DEF s
  <2> QED BY <2>1, <1>3, <1>6
<1>9. DiffersAt(table, table', i, p) BY <1>8 DEF DiffersAt
<1>10. MayHold(table, i, p)
  <2>1. \A n \in 0 .. table.cap - 1 : Probed(table, k, n) = i => \A j \in 0 .. n - 1 : table.slot[Probed(table, k, j)] # Unused
    BY <1>0, <1>2 DEF GoodTable, Reached, s
  <2>2. \A j \in UsedSlots(table) : j # i => table.slot[j].key # k BY <1>0, <1>2 DEF GoodTable, KeysOnce, s
  <2> QED BY <2>1, <2>2, <1>7 DEF MayHold
<1>11. /\ table'.slot \in [0 .. table.cap - 1 -> SlotContents] /\ Reached(table') /\ KeysOnce(table')
       /\ UsedSlots(table') = (UsedSlots(table) \ {i}) \cup (IF p.state = "used" THEN {i} ELSE {})
       /\ Dirty(table') = Dirty(table) \cup {i}
       /\ table'.slot[i] = p /\ \A j \in 0 .. table.cap - 1 : j # i => table'.slot[j] = table.slot[j]
  BY <1>0, <1>4, <1>7, <1>9, <1>10, SlotSet
<1>12. UsedSlots(table') = UsedSlots(table) /\ Dirty(table') = Dirty(table) BY <1>11, <1>7, <1>2, <1>0, Counts_
<1>13. table' \in Tables BY <1>8, <1>11, <1>3 DEF Tables
<1>14. GoodTable(table') BY <1>0, <1>8, <1>11, <1>12, <1>13 DEF GoodTable
<1>15. Agrees(table', known')
  <2>1. \A j \in UsedSlots(table) : j # i => table'.slot[j] = table.slot[j] BY <1>11, <1>3 DEF UsedSlots
  <2>2. \A j \in UsedSlots(table) : j # i => table.slot[j].key # k BY <1>0, <1>2 DEF GoodTable, KeysOnce, s
  <2>3. UsedSlots(table') = UsedSlots(table) \cup {i} BY <1>12, <1>2
  <2>4. table'.slot[i] = Pair(k, v) BY <1>11 DEF p
  <2>5. table.slot[i].key = k BY <1>2 DEF s
  <2>6. Agrees(table', With(known, k, v)) BY <1>0, <2>1, <2>2, <2>3, <2>4, <2>5, AgreesSet
  <2> QED BY <2>6, <1>1
<1>16. copies' = DOMAIN known'
  <2>1. \E j \in UsedSlots(table) : table.slot[j].key = k BY <1>2 DEF s
  <2>2. k \in DOMAIN known BY <2>1, <1>0 DEF Agrees
  <2> QED BY <2>2, <1>0, <1>1 DEF With
<1>17. Sparse(table') /\ table'.len = Cardinality(UsedSlots(table')) BY <1>0, <1>8, <1>12 DEF Sparse
<1> QED BY <1>14, <1>15, <1>16, <1>17 DEF TableInv

LEMMA RemovePairKeeps == ASSUME TableInv, NEW k \in TableKeys, RemovePair(k) PROVE TableInv'
<1> DEFINE i == FindSlot(table, k)
           s == table.slot[i]
<1>0. GoodTable(table) /\ Agrees(table, known) /\ Sparse(table) /\ copies = DOMAIN known /\ table.len = Cardinality(UsedSlots(table)) BY DEF TableInv
<1>00. CASE UNCHANGED tableVars
  <2>1. table' = table /\ known' = known /\ copies' = copies BY <1>00 DEF tableVars
  <2> QED BY <2>1 DEF TableInv
<1>01. CASE /\ i >= 0 /\ table' = [table EXCEPT !.slot[i] = Tombstone, !.len = @ - 1]
            /\ copies' = copies \ {k} /\ known' = [j \in DOMAIN known \ {k} |-> known[j]]
  <2>2. i \in UsedSlots(table) /\ s.key = k BY <1>0, <1>01, FindIs
  <2>3. /\ table.cap \in Nat /\ table.len \in Nat /\ table.used \in Nat /\ DOMAIN table.slot = 0 .. table.cap - 1
        /\ \A j \in 0 .. table.cap - 1 : table.slot[j] \in SlotContents
        /\ table = [cap |-> table.cap, len |-> table.len, used |-> table.used, slot |-> table.slot] BY <1>0, Fields
  <2>4. i \in 0 .. table.cap - 1 /\ s.state = "used" BY <2>2, <2>3 DEF UsedSlots
  <2> HIDE DEF i, s
  <2>5. table'.cap = table.cap /\ table'.len = table.len - 1 /\ table'.used = table.used /\ table'.slot = [table.slot EXCEPT ![i] = Tombstone]
        /\ table' = [cap |-> table.cap, len |-> table.len - 1, used |-> table.used, slot |-> table'.slot]
    BY <1>01, <2>3
  <2>6. DiffersAt(table, table', i, Tombstone) BY <2>5 DEF DiffersAt
  <2>7. Tombstone \in SlotContents /\ Tombstone # Unused /\ Tombstone.state # "used" BY DEF SlotContents, Tombstone, Unused
  <2>8. MayHold(table, i, Tombstone) BY <2>7 DEF MayHold
  <2>9. /\ table'.slot \in [0 .. table.cap - 1 -> SlotContents] /\ Reached(table') /\ KeysOnce(table')
        /\ UsedSlots(table') = (UsedSlots(table) \ {i}) \cup (IF Tombstone.state = "used" THEN {i} ELSE {})
        /\ Dirty(table') = Dirty(table) \cup {i}
        /\ table'.slot[i] = Tombstone /\ \A j \in 0 .. table.cap - 1 : j # i => table'.slot[j] = table.slot[j]
    BY <1>0, <2>4, <2>6, <2>7, <2>8, SlotSet
  <2>10. UsedSlots(table') = UsedSlots(table) \ {i} /\ Dirty(table') = Dirty(table) BY <2>9, <2>7, <2>2, <1>0, Counts_
  <2>11. IsFiniteSet(UsedSlots(table)) /\ Cardinality(UsedSlots(table)) \in Nat BY <1>0, Counts_
  <2>12. Cardinality(UsedSlots(table) \ {i}) = Cardinality(UsedSlots(table)) - 1 BY <2>11, <2>2, FS_RemoveElement
  <2>13. Cardinality(UsedSlots(table) \ {i}) \in Nat BY <2>11, FS_RemoveElement, FS_CardinalityType
  <2>14. table'.len = Cardinality(UsedSlots(table')) /\ table'.len \in Nat BY <2>5, <2>10, <2>12, <2>13, <1>0
  <2>15. table' \in Tables BY <2>5, <2>9, <2>3, <2>14 DEF Tables
  <2>16. GoodTable(table') BY <1>0, <2>5, <2>9, <2>10, <2>15 DEF GoodTable
  <2>17. Sparse(table') BY <1>0, <2>5 DEF Sparse
  <2>18. DOMAIN known' = DOMAIN known \ {k} /\ \A j \in DOMAIN known' : known'[j] = known[j] BY <1>01
  <2>19. \A j \in UsedSlots(table') : j \in UsedSlots(table) /\ table'.slot[j] = table.slot[j] /\ table.slot[j].key # k
    <3>1. SUFFICES ASSUME NEW j \in UsedSlots(table') PROVE j \in UsedSlots(table) /\ table'.slot[j] = table.slot[j] /\ table.slot[j].key # k OBVIOUS
    <3>2. j \in UsedSlots(table) /\ j # i BY <2>10
    <3>3. table'.slot[j] = table.slot[j] BY <3>2, <2>9, <2>3 DEF UsedSlots
    <3>4. table.slot[j].key # k BY <3>2, <2>2, <1>0 DEF GoodTable, KeysOnce, s
    <3> QED BY <3>2, <3>3, <3>4
  <2>20. \A x \in DOMAIN known' : HasPair(table', Pair(x, known'[x]))
    <3>1. SUFFICES ASSUME NEW x \in DOMAIN known' PROVE HasPair(table', Pair(x, known'[x])) OBVIOUS
    <3>2. x \in DOMAIN known /\ x # k /\ known'[x] = known[x] BY <2>18
    <3>3. PICK j \in UsedSlots(table) : table.slot[j] = Pair(x, known[x]) BY <3>2, <1>0 DEF Agrees, HasPair
    <3>4. table.slot[j].key = x BY <3>3 DEF Pair
    <3>5. j # i BY <3>4, <3>2, <2>2 DEF s
    <3>6. j \in UsedSlots(table') /\ table'.slot[j] = table.slot[j] BY <3>5, <2>10, <2>19
    <3> QED BY <3>2, <3>3, <3>6 DEF HasPair
  <2>21. Agrees(table', known')
    <3>1. DOMAIN known' \subseteq TableKeys BY <2>18, <1>0 DEF Agrees
    <3>2. \A j \in UsedSlots(table') : table'.slot[j].key \in DOMAIN known' /\ table'.slot[j].value = known'[table'.slot[j].key]
      <4>1. SUFFICES ASSUME NEW j \in UsedSlots(table') PROVE table'.slot[j].key \in DOMAIN known' /\ table'.slot[j].value = known'[table'.slot[j].key] OBVIOUS
      <4>2. j \in UsedSlots(table) /\ table'.slot[j] = table.slot[j] /\ table.slot[j].key # k BY <2>19
      <4>3. table.slot[j].key \in DOMAIN known /\ table.slot[j].value = known[table.slot[j].key] BY <4>2, <1>0 DEF Agrees
      <4> QED BY <4>2, <4>3, <2>18
    <3> QED BY <3>1, <3>2, <2>20 DEF Agrees
  <2>22. copies' = DOMAIN known' BY <1>0, <1>01, <2>18
  <2> QED BY <2>14, <2>16, <2>17, <2>21, <2>22 DEF TableInv
<1> QED BY <1>00, <1>01 DEF RemovePair

\* When the table is crowded the new one has room: a capacity doubled only for what is live is enough.
LEMMA HasRoomAnew == ASSUME TableInv, NEW m, m = IF IsCrowded(table) THEN Rebuilt(table, NextCap(table)) ELSE table
  PROVE /\ GoodTable(m) /\ m.len = table.len /\ m.len = Cardinality(UsedSlots(m)) /\ Agrees(m, known)
        /\ HasRoom(m) /\ m.cap >= MinTable /\ (m.used + 1) * 10 <= m.cap * 7
<1>0. GoodTable(table) /\ Agrees(table, known) /\ Sparse(table) /\ table.len = Cardinality(UsedSlots(table)) BY DEF TableInv
<1>1. table.cap \in Nat /\ table.len \in Nat /\ table.used \in Nat BY <1>0, Fields
<1>2. table.len <= table.used BY <1>0, Counts_
<1>3. CASE ~IsCrowded(table)
  <2>1. m = table BY <1>3
  <2>2. table.cap # 0 /\ (table.used + 1) * 10 <= table.cap * 7 BY <1>1, <1>3 DEF IsCrowded
  <2>3. table.cap >= MinTable BY <2>2, <1>0 DEF Sparse
  <2>4. table.used < table.cap BY <2>2, <1>1
  <2> QED BY <2>1, <2>2, <2>3, <2>4, <1>0 DEF HasRoom
<1>4. CASE IsCrowded(table)
  <2> DEFINE cap == NextCap(table)
  <2>1. m = Rebuilt(table, cap) BY <1>4
  <2>2. cap \in Nat /\ cap >= MinTable /\ (table.len + 1) * 10 <= cap * 7
    <3>1. table.cap = 0 \/ table.cap >= 8 BY <1>0 DEF Sparse, MinTable
    <3>2. table.used * 10 <= table.cap * 7 BY <1>0 DEF Sparse
    <3>3. CASE table.cap = 0 BY <3>3, <3>2, <1>1, <1>2 DEF NextCap, MinTable
    <3>4. CASE table.cap >= 8 /\ (table.len + 1) * 10 > (table.cap * 35) \div 10
      <4>1. cap = table.cap * 2 BY <3>4, <1>1 DEF NextCap
      <4> HIDE DEF cap
      <4> QED BY <4>1, <3>4, <3>2, <1>1, <1>2 DEF MinTable
    <3>5. CASE table.cap >= 8 /\ ~((table.len + 1) * 10 > (table.cap * 35) \div 10)
      <4>1. cap = table.cap BY <3>5, <1>1 DEF NextCap
      <4> HIDE DEF cap
      <4>2. (table.len + 1) * 10 <= (table.cap * 35) \div 10 BY <3>5, <1>1
      <4>3. (table.cap * 35) \div 10 <= table.cap * 7 BY <1>1
      <4> QED BY <4>1, <4>2, <4>3, <3>5, <1>1 DEF MinTable
    <3> QED BY <3>1, <3>3, <3>4, <3>5
  <2> HIDE DEF cap
  <2>3. table.len < cap BY <2>2, <1>1
  <2>4. /\ GoodTable(m) /\ m.cap = cap /\ m.len = table.len /\ m.used = table.len
        /\ Cardinality(UsedSlots(m)) = table.len /\ (Agrees(table, known) => Agrees(m, known))
    BY <2>1, <2>2, <2>3, <1>0, RebuiltIs
  <2> QED BY <2>2, <2>3, <2>4, <1>0 DEF HasRoom
<1> QED BY <1>3, <1>4

LEMMA AddKeeps == ASSUME TableInv, NEW k \in TableKeys, NEW v \in TableValues, Add(k, v) PROVE TableInv'
<1> DEFINE m == IF IsCrowded(table) THEN Rebuilt(table, NextCap(table)) ELSE table
           p == Pair(k, v)
           i == ProbeTo(m, k, {"empty", "tombstone"})
<1>0. GoodTable(table) /\ Agrees(table, known) /\ copies = DOMAIN known BY DEF TableInv
<1>1. /\ GoodTable(m) /\ m.len = Cardinality(UsedSlots(m)) /\ Agrees(m, known)
      /\ HasRoom(m) /\ m.cap >= MinTable /\ (m.used + 1) * 10 <= m.cap * 7
  <2> DEFINE n == m
  <2>1. n = IF IsCrowded(table) THEN Rebuilt(table, NextCap(table)) ELSE table OBVIOUS
  <2> HIDE DEF n
  <2>2. /\ GoodTable(n) /\ n.len = Cardinality(UsedSlots(n)) /\ Agrees(n, known)
        /\ HasRoom(n) /\ n.cap >= MinTable /\ (n.used + 1) * 10 <= n.cap * 7 BY <2>1, HasRoomAnew
  <2> QED BY <2>2 DEF n
<1>2. FindSlot(table, k) < 0 /\ table' = PutAt(m, i, k, v) /\ copies' = copies \cup {k} /\ known' = With(known, k, v)
  BY DEF Add, PutPair, Learns, With
<1> HIDE DEF m
<1>3. /\ m.cap \in Nat /\ m.len \in Nat /\ m.used \in Nat /\ DOMAIN m.slot = 0 .. m.cap - 1
      /\ m = [cap |-> m.cap, len |-> m.len, used |-> m.used, slot |-> m.slot] BY <1>1, Fields
<1>4. p \in SlotContents /\ p \in Pairs /\ p.state = "used" /\ p.key = k BY PairIs DEF Pairs, Pair
<1>5. k \notin DOMAIN known
  <2>1. SUFFICES ASSUME k \in DOMAIN known PROVE FALSE OBVIOUS
  <2>2. PICK j \in UsedSlots(table) : table.slot[j] = Pair(k, known[k]) BY <1>0, <2>1 DEF Agrees, HasPair
  <2>3. table.slot[j].key = k BY <2>2 DEF Pair
  <2>4. FindSlot(table, k) = j /\ j >= 0 BY <2>3, <1>0, FindIs
  <2>5. j \in 0 .. table.cap - 1 BY <1>0, Fields DEF UsedSlots
  <2> QED BY <2>4, <2>5, <1>2
<1>6. LacksKey(m, k) BY <1>1, <1>5 DEF Agrees, LacksKey
<1>7. m.slot[i].state \in {"empty", "tombstone"} /\ i \in 0 .. m.cap - 1
  <2> DEFINE states == {"empty", "tombstone"}
  <2>1. \E e \in 0 .. m.cap - 1 : m.slot[e].state \in states BY <1>1, Counts_ DEF HasRoom, Unused
  <2>2. \E n \in 0 .. m.cap - 1 : i = Probed(m, k, n) /\ i \in 0 .. m.cap - 1 /\ m.slot[Probed(m, k, n)].state \in states
    BY <2>1, <1>1, ProbeFinds
  <2> QED BY <2>2
<1>8. /\ table'.cap = m.cap /\ table'.len = m.len + 1 /\ table'.slot = [m.slot EXCEPT ![i] = p]
      /\ table'.used = IF m.slot[i].state = "empty" THEN m.used + 1 ELSE m.used
      /\ table' = [cap |-> table'.cap, len |-> table'.len, used |-> table'.used, slot |-> table'.slot]
  BY <1>2, <1>3 DEF PutAt
<1>9. table' \in Tables
  <2>1. table'.slot \in [0 .. m.cap - 1 -> SlotContents] BY <1>8, <1>1, <1>4 DEF GoodTable
  <2>2. table'.len \in Nat /\ table'.cap \in Nat /\ table'.used \in Nat BY <1>8, <1>3
  <2> QED BY <2>1, <2>2, <1>3, <1>8 DEF Tables
<1>10. PutInto(m, table', i, p) BY <1>4, <1>8, <1>9 DEF PutInto, DiffersAt
<1> HIDE DEF i, p
<1>11. LacksKey(m, p.key) BY <1>4, <1>6
<1>12. GoodTable(table') BY <1>1, <1>4, <1>10, <1>11, PutIs
<1>13. i \notin UsedSlots(m) /\ UsedSlots(table') = UsedSlots(m) \cup {i} BY <1>1, <1>4, <1>10, <1>11, PutIs
<1>14. Cardinality(UsedSlots(table')) = Cardinality(UsedSlots(m)) + 1 BY <1>1, <1>4, <1>10, <1>11, PutIs
<1>15. table'.slot[i] = p BY <1>1, <1>4, <1>10, <1>11, PutIs
<1>16. \A j \in UsedSlots(m) : table'.slot[j] = m.slot[j] BY <1>1, <1>4, <1>10, <1>11, PutIs
<1>17. Agrees(table', known')
  <2>1. \A j \in UsedSlots(m) : j # i => m.slot[j].key # k BY <1>6 DEF LacksKey
  <2>2. table'.slot[i] = Pair(k, v) BY <1>15 DEF p
  <2>3. Agrees(table', With(known, k, v)) BY <1>1, <1>13, <1>16, <2>1, <2>2, AgreesSet
  <2> QED BY <2>3, <1>2
<1>18. copies' = DOMAIN known' BY <1>0, <1>2 DEF With
<1>19. Sparse(table') BY <1>1, <1>3, <1>8 DEF Sparse
<1>20. table'.len = Cardinality(UsedSlots(table')) BY <1>1, <1>8, <1>14
<1> QED BY <1>12, <1>17, <1>18, <1>19, <1>20 DEF TableInv

LEMMA EmptiedKeeps == ASSUME TableInv, Released, NEW cap \in Nat, table' = NewTable(cap), cap = 0 \/ cap >= MinTable PROVE TableInv'
<1>0. Agrees(table, known) /\ copies = DOMAIN known BY DEF TableInv
<1>1. copies' = {} /\ known' = [k \in {} |-> 0]
  <2>1. ASSUME NEW k \in DOMAIN known PROVE \E i \in UsedSlots(table) : table.slot[i].key = k
    <3>1. PICK i \in UsedSlots(table) : table.slot[i] = Pair(k, known[k]) BY <1>0 DEF Agrees, HasPair
    <3> QED BY <3>1 DEF Pair
  <2> QED BY <2>1, <1>0 DEF Released
<1>2. /\ GoodTable(table') /\ UsedSlots(table') = {} /\ table'.cap = cap /\ table'.used = 0 /\ table'.len = 0 BY EmptyTable
<1>3. table'.len = Cardinality(UsedSlots(table')) BY <1>2, FS_EmptySet
<1>4. Sparse(table') BY <1>2 DEF Sparse, MinTable
<1>5. Agrees(table', known') /\ copies' = DOMAIN known' BY <1>1, <1>2 DEF Agrees
<1> QED BY <1>2, <1>3, <1>4, <1>5 DEF TableInv

LEMMA TableStep == ASSUME TableInv, [NextTable]_tableVars PROVE TableInv'
<1>1. CASE UNCHANGED tableVars
  <2>1. table' = table /\ known' = known /\ copies' = copies BY <1>1 DEF tableVars
  <2> QED BY <2>1 DEF TableInv
<1>2. ASSUME NEW k \in TableKeys, NEW v \in TableValues, Replace(k, v) PROVE TableInv' BY <1>2, ReplaceKeeps
<1>3. ASSUME NEW k \in TableKeys, NEW v \in TableValues, Add(k, v) PROVE TableInv' BY <1>3, AddKeeps
<1>4. ASSUME NEW k \in TableKeys, AddFails(k) PROVE TableInv' BY <1>1, <1>4 DEF AddFails
<1>5. ASSUME NEW k \in TableKeys, RemovePair(k) PROVE TableInv' BY <1>5, RemovePairKeeps
<1>6. CASE ClearTable
  <2>1. table.cap \in Nat /\ (table.cap = 0 \/ table.cap >= MinTable) BY Fields DEF TableInv, Sparse
  <2> QED BY <1>6, <2>1, EmptiedKeeps DEF ClearTable
<1>7. CASE FreeTable
  <2>1. 0 \in Nat /\ (0 = 0 \/ 0 >= MinTable) OBVIOUS
  <2> QED BY <1>7, <2>1, EmptiedKeeps DEF FreeTable
<1> QED BY <1>1, <1>2, <1>3, <1>4, <1>5, <1>6, <1>7 DEF NextTable

\* A table of any keys, values and hashes gives back what was put in it and nothing else, through collisions, tombstones
\* and rebuilds; every search comes to a slot that ends it, and the counts that make it grow are right
\* (src/ceres/ds/gmap.c, hashmap.c).
THEOREM TableIsAMap == SpecTable => []TableHolds
<1>1. InitTable => TableInv BY TableInit
<1>2. TableInv /\ [NextTable]_tableVars => TableInv' BY TableStep
<1>3. TableInv => TableHolds BY TableIsMap
<1> QED BY <1>1, <1>2, <1>3, PTL DEF SpecTable
=============================================================================
