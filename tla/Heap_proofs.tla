---------------------------- MODULE Heap_proofs ----------------------------
(***************************************************************************)
(* Theorems on the allocator of src/malloc.c: it is sound whatever is      *)
(* allocated, resized and freed in whatever order, and no call writes to   *)
(* what the program holds.  For any memory, size classes, sizes,           *)
(* alignments and stacks that HeapAssumption allows.                       *)
(*                                                                         *)
(* The invariant is Sound: the blocks tile the heap, their headers tell    *)
(* the truth, the lists and bitmaps are exact, and what is left of a       *)
(* header inside a block deceives no check (Deceives).  Every operation is *)
(* put together from two: a block in use is cut in two, and a free block   *)
(* is made of what lies between two headers; release, grow and realloc     *)
(* are instances.  Inside a call Sound(h, X) holds, X being what the       *)
(* program has yet to write of its new block: what is stale there is not   *)
(* asked about until it is written over.                                   *)
(***************************************************************************)
EXTENDS Heap, WellFoundedInduction, TLAPS

-----------------------------------------------------------------------------
(* Numbers *)

LEMMA NatMin == ASSUME NEW T \in SUBSET Nat, T # {} PROVE \E x \in T : \A y \in T : x <= y
<1>1. IsWellFoundedOn(OpToRel(<, Nat), Nat) BY NatLessThanWellFounded
<1>2. PICK x \in T : \A y \in T : ~(<<y, x>> \in OpToRel(<, Nat)) BY <1>1, WFMin
<1>3. \A y \in T : ~(y < x) BY <1>2 DEF OpToRel
<1>. QED BY <1>3

\* The prover folds literal powers only.
LEMMA Powers == ASSUME NEW k \in 0 .. 31 PROVE 2 ^ k \in Nat /\ 2 ^ k >= 1 /\ 2 ^ (k + 1) \in Nat /\ 2 ^ (k + 1) = 2 * 2 ^ k
<1>0. CASE k = 0 BY <1>0, k + 1 = 1, 2 ^ 0 = 1 /\ 2 ^ 1 = 2
<1>1. CASE k = 1 BY <1>1, k + 1 = 2, 2 ^ 1 = 2 /\ 2 ^ 2 = 4
<1>2. CASE k = 2 BY <1>2, k + 1 = 3, 2 ^ 2 = 4 /\ 2 ^ 3 = 8
<1>3. CASE k = 3 BY <1>3, k + 1 = 4, 2 ^ 3 = 8 /\ 2 ^ 4 = 16
<1>4. CASE k = 4 BY <1>4, k + 1 = 5, 2 ^ 4 = 16 /\ 2 ^ 5 = 32
<1>5. CASE k = 5 BY <1>5, k + 1 = 6, 2 ^ 5 = 32 /\ 2 ^ 6 = 64
<1>6. CASE k = 6 BY <1>6, k + 1 = 7, 2 ^ 6 = 64 /\ 2 ^ 7 = 128
<1>7. CASE k = 7 BY <1>7, k + 1 = 8, 2 ^ 7 = 128 /\ 2 ^ 8 = 256
<1>8. CASE k = 8 BY <1>8, k + 1 = 9, 2 ^ 8 = 256 /\ 2 ^ 9 = 512
<1>9. CASE k = 9 BY <1>9, k + 1 = 10, 2 ^ 9 = 512 /\ 2 ^ 10 = 1024
<1>10. CASE k = 10 BY <1>10, k + 1 = 11, 2 ^ 10 = 1024 /\ 2 ^ 11 = 2048
<1>11. CASE k = 11 BY <1>11, k + 1 = 12, 2 ^ 11 = 2048 /\ 2 ^ 12 = 4096
<1>12. CASE k = 12 BY <1>12, k + 1 = 13, 2 ^ 12 = 4096 /\ 2 ^ 13 = 8192
<1>13. CASE k = 13 BY <1>13, k + 1 = 14, 2 ^ 13 = 8192 /\ 2 ^ 14 = 16384
<1>14. CASE k = 14 BY <1>14, k + 1 = 15, 2 ^ 14 = 16384 /\ 2 ^ 15 = 32768
<1>15. CASE k = 15 BY <1>15, k + 1 = 16, 2 ^ 15 = 32768 /\ 2 ^ 16 = 65536
<1>16. CASE k = 16 BY <1>16, k + 1 = 17, 2 ^ 16 = 65536 /\ 2 ^ 17 = 131072
<1>17. CASE k = 17 BY <1>17, k + 1 = 18, 2 ^ 17 = 131072 /\ 2 ^ 18 = 262144
<1>18. CASE k = 18 BY <1>18, k + 1 = 19, 2 ^ 18 = 262144 /\ 2 ^ 19 = 524288
<1>19. CASE k = 19 BY <1>19, k + 1 = 20, 2 ^ 19 = 524288 /\ 2 ^ 20 = 1048576
<1>20. CASE k = 20 BY <1>20, k + 1 = 21, 2 ^ 20 = 1048576 /\ 2 ^ 21 = 2097152
<1>21. CASE k = 21 BY <1>21, k + 1 = 22, 2 ^ 21 = 2097152 /\ 2 ^ 22 = 4194304
<1>22. CASE k = 22 BY <1>22, k + 1 = 23, 2 ^ 22 = 4194304 /\ 2 ^ 23 = 8388608
<1>23. CASE k = 23 BY <1>23, k + 1 = 24, 2 ^ 23 = 8388608 /\ 2 ^ 24 = 16777216
<1>24. CASE k = 24 BY <1>24, k + 1 = 25, 2 ^ 24 = 16777216 /\ 2 ^ 25 = 33554432
<1>25. CASE k = 25 BY <1>25, k + 1 = 26, 2 ^ 25 = 33554432 /\ 2 ^ 26 = 67108864
<1>26. CASE k = 26 BY <1>26, k + 1 = 27, 2 ^ 26 = 67108864 /\ 2 ^ 27 = 134217728
<1>27. CASE k = 27 BY <1>27, k + 1 = 28, 2 ^ 27 = 134217728 /\ 2 ^ 28 = 268435456
<1>28. CASE k = 28 BY <1>28, k + 1 = 29, 2 ^ 28 = 268435456 /\ 2 ^ 29 = 536870912
<1>29. CASE k = 29 BY <1>29, k + 1 = 30, 2 ^ 29 = 536870912 /\ 2 ^ 30 = 1073741824
<1>30. CASE k = 30 BY <1>30, k + 1 = 31, 2 ^ 30 = 1073741824 /\ 2 ^ 31 = 2147483648
<1>31. CASE k = 31 BY <1>31, k + 1 = 32, 2 ^ 31 = 2147483648 /\ 2 ^ 32 = 4294967296
<1>. QED BY <1>0, <1>1, <1>2, <1>3, <1>4, <1>5, <1>6, <1>7, <1>8, <1>9, <1>10, <1>11, <1>12, <1>13, <1>14, <1>15,
            <1>16, <1>17, <1>18, <1>19, <1>20, <1>21, <1>22, <1>23, <1>24, <1>25, <1>26, <1>27, <1>28, <1>29, <1>30, <1>31

\* The highest bit that TopBit looks for
Word == 31
LEMMA WordIs == Word \in 0 .. 31 /\ Word = 31 BY DEF Word

LEMMA PowersRise == ASSUME NEW a \in 0 .. 31, NEW b \in 0 .. 31, a <= b PROVE 2 ^ a <= 2 ^ b
<1>. DEFINE T == {c \in 0 .. 31 : a <= c /\ ~(2 ^ a <= 2 ^ c)}
<1>1. SUFFICES ASSUME b \in T PROVE FALSE OBVIOUS
<1>. T \in SUBSET Nat /\ T # {} BY <1>1
<1>. HIDE DEF T
<1>2. PICK c \in T : \A y \in T : c <= y BY NatMin
<1>. USE DEF T
<1>3. c # a /\ c - 1 \in 0 .. 31 /\ a <= c - 1 BY <1>2, Powers
<1>4. 2 ^ a <= 2 ^ (c - 1) BY <1>2, <1>3
<1>5. (c - 1) + 1 = c BY <1>2
<1>6. 2 ^ c = 2 * 2 ^ (c - 1) /\ 2 ^ (c - 1) \in Nat BY <1>3, <1>5, Powers
<1>7. 2 ^ a \in Nat BY Powers
<1>. QED BY <1>2, <1>4, <1>6, <1>7

LEMMA PowersAdd == ASSUME NEW a \in 0 .. 31, NEW b \in 0 .. 31, a + b <= 31 PROVE 2 ^ (a + b) = 2 ^ a * 2 ^ b
<1>. DEFINE Adds(c) == 2 ^ (a + c) = 2 ^ a * 2 ^ c
            T == {c \in 0 .. 31 - a : ~Adds(c)}
<1>1. SUFFICES ASSUME b \in T PROVE FALSE BY b \in 0 .. 31 - a
<1>. HIDE DEF Adds
<1>2. T \in SUBSET Nat /\ T # {} BY <1>1
<1>3. PICK c \in 0 .. 31 - a : ~Adds(c) /\ \A y \in T : c <= y
  <2>. HIDE DEF T
  <2>1. PICK c \in T : \A y \in T : c <= y BY <1>2, NatMin
  <2>. QED BY <2>1 DEF T
<1>4. c # 0
  <2>1. 2 ^ a \in Nat BY Powers
  <2>2. 2 ^ a * 1 = 2 ^ a BY <2>1
  <2>3. 2 ^ 0 = 1 /\ a + 0 = a OBVIOUS
  <2>4. Adds(0) BY <2>2, <2>3 DEF Adds
  <2>. QED BY <1>3, <2>4
<1>5. PICK d \in 0 .. 30 - a : c = d + 1 BY <1>3, <1>4, c - 1 \in 0 .. 30 - a
<1>6. 2 ^ (a + d) = 2 ^ a * 2 ^ d
  <2>1. d \in 0 .. 31 - a /\ ~(c <= d) BY <1>5
  <2>. QED BY <1>3, <2>1 DEF Adds
<1>7. 2 ^ (d + 1) = 2 * 2 ^ d /\ 2 ^ d \in Nat /\ 2 ^ a \in Nat BY d \in 0 .. 31, Powers
<1>8. 2 ^ (a + c) = 2 * 2 ^ (a + d) BY <1>5, (a + d) + 1 = a + c, a + d \in 0 .. 31, Powers
<1>9. \A x, y \in Nat : 2 * (x * y) = x * (2 * y) OBVIOUS
<1>10. 2 * (2 ^ a * 2 ^ d) = 2 ^ a * (2 * 2 ^ d) BY <1>7, <1>9
<1>11. Adds(c) BY <1>5, <1>6, <1>7, <1>8, <1>10 DEF Adds
<1>. QED BY <1>3, <1>11

LEMMA TopBitIs == ASSUME NEW x \in Nat, x >= 1, x < 2 ^ (Word + 1)
                  PROVE TopBit(x) \in 0 .. 31 /\ 2 ^ TopBit(x) <= x /\ x < 2 ^ (TopBit(x) + 1)
<1>. DEFINE T == {k \in 0 .. 31 : x < 2 ^ (k + 1)}
<1>1. 31 \in T BY DEF Word
<1>. T \in SUBSET Nat OBVIOUS
<1>. T # {} BY <1>1
<1>. HIDE DEF T
<1>2. PICK k \in T : \A y \in T : k <= y BY NatMin
<1>. USE DEF T
<1>3. 2 ^ k <= x
  <2>1. CASE k = 0 BY <2>1, 2 ^ 0 = 1
  <2>2. CASE k # 0
    <3>1. k - 1 \in 0 .. 31 /\ (k - 1) + 1 = k /\ ~(k <= k - 1) BY <2>2
    <3>2. ~(x < 2 ^ k) BY <1>2, <3>1
    <3>. QED BY <3>2, Powers
  <2>. QED BY <2>1, <2>2
<1>4. \E m \in 0 .. 31 : 2 ^ m <= x /\ x < 2 ^ (m + 1) BY <1>2, <1>3
<1>. QED BY <1>4 DEF TopBit

LEMMA TopBitUnique == ASSUME NEW x \in Nat, NEW k \in 0 .. 31, 2 ^ k <= x, x < 2 ^ (k + 1) PROVE TopBit(x) = k
<1>1. 2 ^ k \in Nat /\ 2 ^ (k + 1) \in Nat BY Powers
<1>2. SUFFICES ASSUME NEW j \in 0 .. 31, 2 ^ j <= x, x < 2 ^ (j + 1) PROVE j = k BY DEF TopBit
<1>3. 2 ^ j \in Nat /\ 2 ^ (j + 1) \in Nat BY Powers
<1>4. ASSUME j < k PROVE FALSE
  <2>1. 2 ^ (j + 1) <= 2 ^ k BY <1>4, j + 1 \in 0 .. 31, j + 1 <= k, PowersRise
  <2>. QED BY <1>1, <1>2, <1>3, <2>1
<1>5. ASSUME k < j PROVE FALSE
  <2>1. 2 ^ (k + 1) <= 2 ^ j BY <1>5, k + 1 \in 0 .. 31, k + 1 <= j, PowersRise
  <2>. QED BY <1>1, <1>2, <1>3, <2>1
<1>. QED BY <1>4, <1>5

LEMMA Times == ASSUME NEW x \in Nat, NEW y \in Nat, NEW z \in Nat, x <= y PROVE x * z <= y * z /\ x * z \in Nat
OBVIOUS

LEMMA DivBounds == ASSUME NEW x \in Nat, NEW w \in Nat, w >= 1
                   PROVE x \div w \in Nat /\ (x \div w) * w <= x /\ x < (x \div w + 1) * w
OBVIOUS

LEMMA DivIs == ASSUME NEW x \in Nat, NEW w \in Nat, w >= 1, NEW d \in Nat, d * w <= x, x < (d + 1) * w
               PROVE x \div w = d
<1>1. x \div w \in Nat /\ (x \div w) * w <= x /\ x < (x \div w + 1) * w BY DivBounds
<1>2. PICK q \in Nat : q = x \div w /\ q * w <= x /\ x < (q + 1) * w BY <1>1
<1>3. ASSUME q < d PROVE FALSE
  <2>1. (q + 1) * w <= d * w BY <1>3, q + 1 <= d, q + 1 \in Nat, Times
  <2>. QED BY <1>2, <2>1, (q + 1) * w \in Nat, d * w \in Nat
<1>4. ASSUME d < q PROVE FALSE
  <2>1. (d + 1) * w <= q * w BY <1>4, d + 1 <= q, d + 1 \in Nat, Times
  <2>. QED BY <1>2, <2>1, (d + 1) * w \in Nat, q * w \in Nat
<1>. QED BY <1>2, <1>3, <1>4

LEMMA DivRises == ASSUME NEW x \in Nat, NEW y \in Nat, NEW w \in Nat, w >= 1, x <= y PROVE x \div w <= y \div w
<1>1. PICK p \in Nat : p = x \div w /\ p * w <= x /\ x < (p + 1) * w BY DivBounds
<1>2. PICK q \in Nat : q = y \div w /\ q * w <= y /\ y < (q + 1) * w BY DivBounds
<1>3. ASSUME q < p PROVE FALSE
  <2>1. (q + 1) * w <= p * w BY <1>3, q + 1 <= p, q + 1 \in Nat, Times
  <2>. QED BY <1>1, <1>2, <2>1, (q + 1) * w \in Nat, p * w \in Nat
<1>. QED BY <1>1, <1>2, <1>3

-----------------------------------------------------------------------------
(* The size classes *)

LEMMA Lists == SlLog2 \in 0 .. 31 /\ SlCount \in Nat /\ SlCount >= 1 /\ FlCount \in Nat
BY HeapAssumption, SlLog2 \in 0 .. 31, Powers DEF SlCount

LEMMA BinSmall == ASSUME NEW x \in Nat, x < SlCount PROVE BinOf(x) = x
BY DEF BinOf

\* Above, a class is an exponent and the leading bits.
LEMMA BinIs == ASSUME NEW x \in Nat, NEW e \in Nat, NEW d \in SlCount .. 2 * SlCount - 1, SlLog2 + e <= 31,
                      d * 2 ^ e <= x, x < (d + 1) * 2 ^ e
               PROVE BinOf(x) = e * SlCount + d
<1>1. e \in 0 .. 31 /\ SlLog2 \in 0 .. 31 BY Lists
<1>2. PICK w \in Nat : w = 2 ^ e /\ w >= 1 BY <1>1, Powers
<1>3. PICK s \in Nat : s = SlCount /\ s >= 1 BY Lists
<1>4. SlLog2 + e \in 0 .. 31 /\ 2 ^ (SlLog2 + e) = s * w
  <2>1. 2 ^ (SlLog2 + e) = 2 ^ SlLog2 * 2 ^ e BY <1>1, PowersAdd
  <2>. QED BY <1>1, <1>2, <1>3, <2>1 DEF SlCount
<1>5. 2 ^ (SlLog2 + e + 1) = 2 * (s * w) BY <1>4, Powers
<1>6. s * w <= d * w /\ (d + 1) * w <= (2 * s) * w
  <2>. d \in Nat /\ s <= d /\ d + 1 \in Nat /\ d + 1 <= 2 * s /\ 2 * s \in Nat BY <1>3
  <2>. QED BY Times
<1>7. (2 * s) * w = 2 * (s * w) /\ s <= s * w
  <2>1. \A a, b \in Nat : (2 * a) * b = 2 * (a * b) OBVIOUS
  <2>2. \A a, b \in Nat : b >= 1 => a <= a * b OBVIOUS
  <2>. QED BY <1>2, <2>1, <2>2
<1>8. s * w \in Nat /\ d * w \in Nat /\ (d + 1) * w \in Nat /\ d * w <= x /\ x < (d + 1) * w BY <1>2, <1>3
<1>9. s * w <= x /\ x < 2 * (s * w) BY <1>6, <1>7, <1>8
<1>10. TopBit(x) = SlLog2 + e BY <1>4, <1>5, <1>9, TopBitUnique
<1>11. TopBit(x) - SlLog2 = e BY <1>1, <1>10
<1>12. x \div w = d BY <1>2, <1>3, <1>8, DivIs
<1>13. ~(x < s) BY <1>7, <1>8, <1>9
<1>14. d % s = d - s
  <2>1. PICK m \in Nat : d = s + m /\ m < s BY <1>3, d - s \in Nat, d = s + (d - s)
  <2>. QED BY <1>3, <2>1
<1>15. BinOf(x) = (e + 1) * s + (d % s) BY <1>2, <1>3, <1>11, <1>12, <1>13 DEF BinOf
<1>16. (e + 1) * s = e * s + s OBVIOUS
<1>. QED BY <1>3, <1>14, <1>15, <1>16, e * s \in Nat

LEMMA Class == ASSUME NEW x \in Nat, x < 2 ^ Word, x >= SlCount
               PROVE \E e \in 0 .. 30, d \in SlCount .. 2 * SlCount - 1 :
                       /\ SlLog2 + e <= 30 /\ TopBit(x) = SlLog2 + e /\ 2 ^ e \in Nat /\ 2 ^ e >= 1
                       /\ d * 2 ^ e <= x /\ x < (d + 1) * 2 ^ e /\ BinOf(x) = e * SlCount + d
<1>1. PICK s \in Nat : s = SlCount /\ s >= 1 /\ s = 2 ^ SlLog2 BY Lists DEF SlCount
<1>2. PICK k \in 0 .. 31 : k = TopBit(x) /\ 2 ^ k <= x /\ x < 2 ^ (k + 1)
  <2>1. 2 ^ Word \in Nat /\ 2 ^ (Word + 1) = 2 * 2 ^ Word BY WordIs, Powers
  <2>2. x < 2 ^ (Word + 1) BY <2>1, SMT
  <2>3. x >= 1 BY <1>1
  <2>4. TopBit(x) \in 0 .. 31 /\ 2 ^ TopBit(x) <= x /\ x < 2 ^ (TopBit(x) + 1) BY <2>2, <2>3, TopBitIs
  <2>. QED BY <2>4
<1>3. k <= 30
  <2>1. CASE k = 31 BY <1>2, <2>1, WordIs
  <2>. QED BY <2>1
<1>4. SlLog2 <= k
  <2>. SlLog2 \in 0 .. 31 BY Lists
  <2>1. SUFFICES ASSUME k + 1 <= SlLog2 PROVE FALSE OBVIOUS
  <2>2. 2 ^ (k + 1) <= s BY <1>1, <1>3, <2>1, k + 1 \in 0 .. 31, SlLog2 \in 0 .. 31, PowersRise
  <2>3. 2 ^ (k + 1) \in Nat BY Powers
  <2>. QED BY <1>1, <1>2, <2>2, <2>3
<1>5. PICK e \in 0 .. 30 : k = SlLog2 + e BY <1>3, <1>4, Lists, k - SlLog2 \in 0 .. 30
<1>6. PICK w \in Nat : w = 2 ^ e /\ w >= 1 BY e \in 0 .. 31, Powers
<1>7. 2 ^ k = s * w /\ 2 ^ (k + 1) = 2 * (s * w)
  <2>1. 2 ^ (SlLog2 + e) = 2 ^ SlLog2 * 2 ^ e BY <1>3, <1>5, Lists, SlLog2 \in 0 .. 31, e \in 0 .. 31, SlLog2 + e <= 31, PowersAdd
  <2>2. 2 ^ (k + 1) = 2 * 2 ^ k BY Powers
  <2>. QED BY <1>1, <1>5, <1>6, <2>1, <2>2
<1>8. PICK d \in Nat : d = x \div w /\ d * w <= x /\ x < (d + 1) * w BY <1>6, DivBounds
<1>9. s <= d
  <2>1. SUFFICES ASSUME d + 1 <= s PROVE FALSE BY <1>1
  <2>2. (d + 1) * w <= s * w BY <2>1, d + 1 \in Nat, Times
  <2>. QED BY <1>2, <1>7, <1>8, <2>2, (d + 1) * w \in Nat, s * w \in Nat
<1>10. d < 2 * s
  <2>1. SUFFICES ASSUME 2 * s <= d PROVE FALSE BY <1>1
  <2>2. (2 * s) * w <= d * w BY <2>1, 2 * s \in Nat, Times
  <2>3. \A a, b \in Nat : (2 * a) * b = 2 * (a * b) OBVIOUS
  <2>. QED BY <1>2, <1>7, <1>8, <2>2, <2>3, s * w \in Nat, d * w \in Nat
<1>11. BinOf(x) = e * SlCount + d 
  <2>1. d \in SlCount .. 2 * SlCount - 1 BY <1>1, <1>8, <1>9, <1>10
  <2>2. SlLog2 + e <= 31 /\ e \in Nat BY <1>3, <1>5, Lists
  <2>3. d * 2 ^ e <= x /\ x < (d + 1) * 2 ^ e BY <1>6, <1>8
  <2>. QED BY <2>1, <2>2, <2>3, BinIs
<1>12. d \in SlCount .. 2 * SlCount - 1 BY <1>1, <1>8, <1>9, <1>10
<1>13. SlLog2 + e <= 30 /\ TopBit(x) = SlLog2 + e BY <1>2, <1>3, <1>5
<1>. QED BY <1>6, <1>8, <1>11, <1>12, <1>13

\* Sizes in a class are in a list of the heap.
LEMMA BinInBins == ASSUME NEW x \in Nat, x <= Top - Start PROVE BinOf(x) \in Bins
<1>1. PICK s \in Nat : s = SlCount /\ s >= 1 BY Lists
<1>2. PICK m \in 0 .. 31 : m = FlCount + SlLog2 - 1 BY HeapAssumption
<1>a. 2 ^ m \in Nat /\ 2 ^ Word \in Nat BY WordIs, Powers
<1>b. x < 2 ^ m BY <1>2, <1>a, HeapAssumption
<1>c. x < 2 ^ Word
  <2>1. 2 ^ m <= 2 ^ Word BY WordIs, m <= Word, PowersRise
  <2>. QED BY <1>a, <1>b, <2>1
<1>3. CASE x < SlCount
  <2>1. 1 * s <= FlCount * s /\ FlCount * s \in Nat BY HeapAssumption, 1 <= FlCount, 1 \in Nat, FlCount \in Nat, Times
  <2>. QED BY <1>1, <1>3, <2>1, BinSmall DEF Bins
<1>4. CASE x >= SlCount
  <2>1. PICK e \in 0 .. 30, d \in SlCount .. 2 * SlCount - 1 :
             SlLog2 + e <= 30 /\ TopBit(x) = SlLog2 + e /\ BinOf(x) = e * SlCount + d
     BY <1>c, <1>4, Class
  <2>2. PICK k \in 0 .. 31 : k = SlLog2 + e /\ 2 ^ k <= x
    <3>1. 2 ^ Word \in Nat /\ 2 ^ (Word + 1) = 2 * 2 ^ Word BY WordIs, Powers
    <3>2. x >= 1 /\ x < 2 ^ (Word + 1) BY <1>1, <1>c, <1>4, <3>1
    <3>. QED BY <2>1, <3>2, TopBitIs
  <2>3. k < m
    <3>1. SUFFICES ASSUME m <= k PROVE FALSE OBVIOUS
    <3>2. 2 ^ m <= 2 ^ k /\ 2 ^ k \in Nat BY <3>1, PowersRise, Powers
    <3>. QED BY <1>a, <1>b, <2>2, <3>2
  <2>4. e + 2 <= FlCount BY <1>2, <2>2, <2>3, Lists
  <2>5. (e + 2) * s <= FlCount * s /\ FlCount * s \in Nat BY <2>4, e + 2 \in Nat, Lists, Times
  <2>6. (e + 2) * s = e * s + 2 * s /\ e * s \in Nat OBVIOUS
  <2>7. BinOf(x) = e * s + d /\ d >= s /\ d < 2 * s BY <1>1, <2>1
  <2>. QED BY <1>1, <2>5, <2>6, <2>7 DEF Bins
<1>. QED BY <1>3, <1>4, Lists

\* The first list looked in is that of the size rounded up to its class.
LEMMA UpIs == ASSUME NEW t \in Nat, 2 * t <= 2 ^ Word, t >= SlCount
              PROVE \E e \in 0 .. 30, c \in SlCount .. 2 * SlCount :
                      SlLog2 + e <= 30 /\ 2 ^ e \in Nat /\ t <= c * 2 ^ e /\ BinOf(Up(t)) = e * SlCount + c
<1>1. PICK s \in Nat : s = SlCount /\ s >= 1 BY Lists
<1>2. t < 2 ^ Word BY <1>1, WordIs, Powers
<1>3. PICK e \in 0 .. 30, d \in s .. 2 * s - 1 :
           /\ SlLog2 + e <= 30 /\ TopBit(t) = SlLog2 + e /\ 2 ^ e \in Nat /\ 2 ^ e >= 1
           /\ d * 2 ^ e <= t /\ t < (d + 1) * 2 ^ e
   BY <1>1, <1>2, Class
<1>4. PICK w \in Nat : w = 2 ^ e /\ w >= 1 BY <1>3
<1>. d \in Nat BY <1>1
<1>5. PICK c \in s .. 2 * s : t <= c * w /\ c * w <= t + w - 1
  <2>1. (d + 1) * w = d * w + w /\ d * w \in Nat /\ d * w <= t /\ t < (d + 1) * w BY <1>3, <1>4
  <2>2. CASE t = d * w
    <3>1. t <= d * w /\ d * w <= t + w - 1 BY <1>4, <2>1, <2>2
    <3>2. d \in s .. 2 * s BY <1>1
    <3>. QED BY <3>1, <3>2
  <2>3. CASE t # d * w
    <3>1. t <= (d + 1) * w /\ (d + 1) * w <= t + w - 1 BY <1>4, <2>1, <2>3
    <3>2. d + 1 \in s .. 2 * s BY <1>1
    <3>. QED BY <3>1, <3>2
  <2>. QED BY <2>2, <2>3
<1>. c \in Nat BY <1>1
<1>6. PICK u \in Nat : u = t + w - 1 /\ u = Up(t)
  <2>1. TopBit(t) - SlLog2 = e /\ ~(t < SlCount) BY <1>1, <1>3, Lists
  <2>. QED BY <1>4, <2>1 DEF Up
<1>7. c * w <= u /\ u < (c + 1) * w
  <2>1. (c + 1) * w = c * w + w /\ c * w \in Nat BY <1>4
  <2>. QED BY <1>4, <1>5, <1>6, <2>1
<1>8. CASE c < 2 * s
  <2>1. c \in SlCount .. 2 * SlCount - 1 /\ SlLog2 + e <= 31 BY <1>1, <1>3, <1>8, Lists
  <2>2. BinOf(u) = e * SlCount + c BY <1>4, <1>7, <2>1, BinIs
  <2>. QED BY <1>1, <1>3, <1>4, <1>5, <1>6, <2>2
<1>9. CASE c = 2 * s
  <2>1. s \in SlCount .. 2 * SlCount - 1 /\ SlLog2 + (e + 1) <= 31 /\ e + 1 \in Nat BY <1>1, <1>3, Lists
  <2>2. 2 ^ (e + 1) = 2 * w BY <1>4, e \in 0 .. 31, Powers
  <2>3. \A a, b \in Nat : a * (2 * b) = (2 * a) * b OBVIOUS
  <2>4. s * (2 * w) = c * w BY <1>9, <2>3
  <2>5. (s + 1) * (2 * w) = c * w + 2 * w
    <3>1. (s + 1) * (2 * w) = s * (2 * w) + 2 * w OBVIOUS
    <3>. QED BY <2>4, <3>1
  <2>6. s * (2 * w) <= u /\ u < (s + 1) * (2 * w)
    <3>1. (c + 1) * w = c * w + w /\ c * w \in Nat BY <1>4
    <3>. QED BY <1>4, <1>7, <2>4, <2>5, <3>1
  <2>7. BinOf(u) = (e + 1) * SlCount + s BY <2>1, <2>2, <2>6, BinIs
  <2>8. (e + 1) * s + s = e * s + 2 * s OBVIOUS
  <2>9. BinOf(u) = e * SlCount + c BY <1>1, <1>9, <2>7, <2>8
  <2>. QED BY <1>1, <1>3, <1>4, <1>5, <1>6, <2>9
<1>. QED BY <1>8, <1>9

\* A smaller block is in a lower list.
LEMMA Fits == ASSUME NEW x \in Nat, NEW t \in Nat, 2 * t <= 2 ^ Word, BinOf(Up(t)) <= BinOf(x)
              PROVE t <= x
<1>1. PICK s \in Nat : s = SlCount /\ s >= 1 BY Lists
<1>2. SUFFICES ASSUME x < t PROVE FALSE OBVIOUS
<1>3. CASE t < s
  <2>1. Up(t) = t BY <1>1, <1>3 DEF Up
  <2>. QED BY <1>1, <1>2, <1>3, <2>1, BinSmall
<1>4. CASE t >= s
  <2>1. PICK e \in 0 .. 30, c \in s .. 2 * s : SlLog2 + e <= 30 /\ 2 ^ e \in Nat /\ t <= c * 2 ^ e /\ BinOf(Up(t)) = e * s + c
     BY <1>1, <1>4, UpIs
  <2>. c \in Nat /\ e * s \in Nat BY <1>1
  <2>2. CASE x < s BY <1>1, <2>1, <2>2, BinSmall
  <2>3. CASE x >= s
    <3>1. x < 2 ^ Word BY <1>2, WordIs, Powers
    <3>2. PICK f \in 0 .. 30, d \in s .. 2 * s - 1 :
               /\ SlLog2 + f <= 30 /\ 2 ^ f \in Nat /\ 2 ^ f >= 1
               /\ d * 2 ^ f <= x /\ BinOf(x) = f * s + d
       BY <1>1, <2>3, <3>1, Class
    <3>. d \in Nat /\ f * s \in Nat BY <1>1
    <3>3. CASE f < e
      <4>1. (f + 1) * s <= e * s BY <3>3, f + 1 <= e, f + 1 \in Nat, Times
      <4>2. (f + 1) * s = f * s + s OBVIOUS
      <4>. QED BY <1>1, <2>1, <3>2, <4>1, <4>2
    <3>4. CASE f = e
      <4>1. SUFFICES ASSUME c <= d PROVE FALSE BY <1>1, <2>1, <3>2, <3>4
      <4>2. c * 2 ^ e <= d * 2 ^ e BY <2>1, <4>1, Times
      <4>. QED BY <1>2, <2>1, <3>2, <3>4, <4>2, c * 2 ^ e \in Nat, d * 2 ^ e \in Nat
    <3>5. CASE e < f
      <4>1. PICK w \in Nat : w = 2 ^ e BY <2>1
      <4>2. PICK v \in Nat : v = 2 ^ f BY <3>2
      <4>3. 2 * w <= v
        <5>1. 2 ^ (e + 1) <= 2 ^ f BY <3>5, e + 1 \in 0 .. 31, f \in 0 .. 31, e + 1 <= f, PowersRise
        <5>2. 2 ^ (e + 1) = 2 * 2 ^ e BY e \in 0 .. 31, Powers
        <5>. QED BY <4>1, <4>2, <5>1, <5>2
      <4>4. c * w <= (2 * s) * w BY 2 * s \in Nat, c <= 2 * s, Times
      <4>5. (2 * w) * s <= v * s BY <4>3, 2 * w \in Nat, Times
      <4>6. s * v <= d * v BY s <= d, Times
      <4>7. \A a, b \in Nat : (2 * a) * b = (2 * b) * a /\ a * b = b * a OBVIOUS
      <4>8. (2 * s) * w = (2 * w) * s /\ v * s = s * v BY <4>7
      <4>9. c * w \in Nat /\ d * v \in Nat /\ v * s \in Nat /\ (2 * s) * w \in Nat OBVIOUS
      <4>. QED BY <1>2, <2>1, <3>2, <4>1, <4>2, <4>4, <4>5, <4>6, <4>8, <4>9
    <3>. QED BY <3>3, <3>4, <3>5
  <2>. QED BY <2>2, <2>3
<1>. QED BY <1>3, <1>4

-----------------------------------------------------------------------------
(* The lists *)

Units == Start .. Top
Heads == [prev : Int, size : Int, flags : SUBSET {B_FREE, B_PREV_FREE}]
Heaps == [mem : [Units -> Heads], bins : [Bins -> Seq(Units)], slMap : SUBSET Bins, flMap : SUBSET Int,
          first : Int, epilogue : Int, at : SUBSET Units]

LEMMA LevelOfInt == ASSUME NEW i \in Bins PROVE i \in Nat /\ LevelOf(i) \in Nat
<1>1. i \in Nat BY Lists DEF Bins
<1>. QED BY <1>1, Lists, DivBounds DEF LevelOf

\* Dropping an element of an injective sequence leaves the others.
LEMMA DroppedIs == ASSUME NEW s \in Seq(Units), IsInjective(s), NEW b \in Range(s)
                   PROVE /\ Dropped(s, b) \in Seq(Units) /\ IsInjective(Dropped(s, b))
                         /\ Range(Dropped(s, b)) = Range(s) \ {b}
<1>. DEFINE n == CHOOSE i \in DOMAIN s : s[i] = b
            d == [i \in 1 .. Len(s) - 1 |-> IF i < n THEN s[i] ELSE s[i + 1]]
<1>1. n \in DOMAIN s /\ s[n] = b BY DEF Range
<1>2. PICK l \in Nat : l = Len(s) /\ DOMAIN s = 1 .. l OBVIOUS
<1>. HIDE DEF n
<1>3. n \in 1 .. l BY <1>1, <1>2
<1>4. DOMAIN d = 1 .. l - 1 /\ \A i \in 1 .. l - 1 : d[i] = IF i < n THEN s[i] ELSE s[i + 1] BY <1>2
<1>5. \A i \in 1 .. l : s[i] \in Units BY <1>2
<1>6. d \in Seq(Units)
  <2>1. l - 1 \in Nat BY <1>3
  <2>2. \A i \in 1 .. l - 1 : d[i] \in Units BY <1>3, <1>4, <1>5
  <2>. QED BY <1>2, <2>1, <2>2
<1>. HIDE DEF d
<1>7. \A i, j \in 1 .. l : s[i] = s[j] => i = j BY <1>2 DEF IsInjective
<1>8. IsInjective(d)
  <2>1. SUFFICES ASSUME NEW i \in 1 .. l - 1, NEW j \in 1 .. l - 1, d[i] = d[j] PROVE i = j BY <1>4 DEF IsInjective
  <2>. QED BY <1>3, <1>4, <1>7, <2>1
<1>9. Range(d) = Range(s) \ {b}
  <2>1. ASSUME NEW x \in Range(d) PROVE x \in Range(s) \ {b}
    <3>1. PICK i \in 1 .. l - 1 : x = d[i] BY <1>4 DEF Range
    <3>2. CASE i < n BY <1>1, <1>2, <1>3, <1>4, <1>7, <3>1, <3>2 DEF Range
    <3>3. CASE ~(i < n)
      <4>1. i + 1 \in 1 .. l /\ i + 1 # n /\ x = s[i + 1] BY <1>3, <1>4, <3>1, <3>3
      <4>. QED BY <1>1, <1>2, <1>3, <1>7, <4>1 DEF Range
    <3>. QED BY <3>2, <3>3
  <2>2. ASSUME NEW x \in Range(s), x # b PROVE x \in Range(d)
    <3>1. PICK i \in 1 .. l : x = s[i] BY <1>2 DEF Range
    <3>2. i # n BY <1>1, <2>2, <3>1
    <3>3. CASE i < n
      <4>1. i \in 1 .. l - 1 /\ d[i] = x BY <1>3, <1>4, <3>1, <3>3
      <4>. QED BY <1>4, <4>1 DEF Range
    <3>4. CASE n < i
      <4>1. i - 1 \in 1 .. l - 1 /\ d[i - 1] = s[(i - 1) + 1] BY <1>3, <1>4, <3>4
      <4>2. d[i - 1] = x BY <3>1, <4>1, (i - 1) + 1 = i
      <4>. QED BY <1>4, <4>1, <4>2 DEF Range
    <3>. QED BY <1>3, <3>2, <3>3, <3>4
  <2>. QED BY <2>1, <2>2
<1>10. Dropped(s, b) = d BY DEF Dropped, d, n
<1>. QED BY <1>6, <1>8, <1>9, <1>10

\* The lists hold the blocks F.
ListsHold(h, F) ==
    /\ \A i \in Bins : IsInjective(h.bins[i]) /\ Range(h.bins[i]) = {b \in F : BinOf(Size(h, b)) = i}
    /\ h.slMap = {i \in Bins : h.bins[i] # <<>>}
    /\ h.flMap = {LevelOf(i) : i \in h.slMap}

LEMMA ListedSame == ASSUME NEW h PROVE FreeListed(h) <=> ListsHold(h, FreeOf(h))
BY DEF FreeListed, ListsHold

\* All but the lists
SameBut(h, g) == g.mem = h.mem /\ g.first = h.first /\ g.epilogue = h.epilogue /\ g.at = h.at

LeftIn(h, i, rest) == IF rest = <<>> THEN h.slMap \ {i} ELSE h.slMap
IsUnlisted(h, g, i, rest) ==
    /\ SameBut(h, g) /\ g.bins = [h.bins EXCEPT ![i] = rest] /\ g.slMap = LeftIn(h, i, rest)
    /\ g.flMap = IF \E j \in LeftIn(h, i, rest) : LevelOf(j) = LevelOf(i) THEN h.flMap ELSE h.flMap \ {LevelOf(i)}
LEMMA UnlistedIs == ASSUME NEW h \in Heaps, NEW i \in Bins, NEW rest \in Seq(Units)
                    PROVE Unlisted(h, i, rest) \in Heaps /\ IsUnlisted(h, Unlisted(h, i, rest), i, rest)
<1>. DEFINE left == IF rest = <<>> THEN h.slMap \ {i} ELSE h.slMap
            g == Unlisted(h, i, rest)
            fl == IF \E j \in left : LevelOf(j) = LevelOf(i) THEN h.flMap ELSE h.flMap \ {LevelOf(i)}
<1>1. left \in SUBSET Bins /\ fl \in SUBSET Int BY DEF Heaps
<1>2. g = [h EXCEPT !.bins[i] = rest, !.slMap = left, !.flMap = fl] BY DEF Unlisted
<1>3. [h.bins EXCEPT ![i] = rest] \in [Bins -> Seq(Units)] BY DEF Heaps
<1>. HIDE DEF left, g, fl
<1>4. /\ g.mem = h.mem /\ g.first = h.first /\ g.epilogue = h.epilogue /\ g.at = h.at
      /\ g.bins = [h.bins EXCEPT ![i] = rest] /\ g.slMap = left /\ g.flMap = fl
   BY <1>2 DEF Heaps
<1>5. g \in Heaps BY <1>1, <1>2, <1>3 DEF Heaps
<1>6. left = LeftIn(h, i, rest) BY DEF left, LeftIn
<1>. QED BY <1>4, <1>5, <1>6 DEF g, fl, SameBut, IsUnlisted

LEMMA ListedIs == ASSUME NEW h \in Heaps, NEW i \in Bins, NEW b \in Units
                  PROVE LET g == Listed(h, b, i)
                        IN  /\ g \in Heaps /\ SameBut(h, g)
                            /\ g.bins = [h.bins EXCEPT ![i] = <<b>> \o h.bins[i]] /\ g.slMap = h.slMap \cup {i}
                            /\ g.flMap = h.flMap \cup {LevelOf(i)}
<1>. DEFINE g == Listed(h, b, i)
            new == <<b>> \o h.bins[i]
<1>1. new \in Seq(Units) BY DEF Heaps
<1>2. [h.bins EXCEPT ![i] = new] \in [Bins -> Seq(Units)] BY <1>1 DEF Heaps
<1>3. h.slMap \cup {i} \in SUBSET Bins /\ h.flMap \cup {LevelOf(i)} \in SUBSET Int BY LevelOfInt DEF Heaps
<1>4. g = [h EXCEPT !.bins[i] = new, !.slMap = h.slMap \cup {i}, !.flMap = h.flMap \cup {LevelOf(i)}] BY DEF Listed, Heaps
<1>. HIDE DEF g, new
<1>5. /\ g.mem = h.mem /\ g.first = h.first /\ g.epilogue = h.epilogue /\ g.at = h.at
      /\ g.bins = [h.bins EXCEPT ![i] = new] /\ g.slMap = h.slMap \cup {i} /\ g.flMap = h.flMap \cup {LevelOf(i)}
   BY <1>4 DEF Heaps
<1>6. g \in Heaps BY <1>2, <1>3, <1>4 DEF Heaps
<1>. QED BY <1>5, <1>6 DEF g, new, SameBut

\* unlink_free takes a block off the lists, and the bits of lists left empty.
LEMMA UnlinkIs == ASSUME NEW h \in Heaps, NEW F \in SUBSET Units, ListsHold(h, F), NEW x \in F, BinOf(Size(h, x)) \in Bins
                  PROVE Unlink(h, x) \in Heaps /\ SameBut(h, Unlink(h, x)) /\ ListsHold(Unlink(h, x), F \ {x})
<1>. DEFINE i == BinOf(Size(h, x))
            s == h.bins[i]
            rest == Dropped(s, x)
            g == Unlink(h, x)
            left == IF rest = <<>> THEN h.slMap \ {i} ELSE h.slMap
<1>1. s \in Seq(Units) /\ IsInjective(s) /\ x \in Range(s) BY DEF Heaps, ListsHold
<1>2. rest \in Seq(Units) /\ IsInjective(rest) /\ Range(rest) = Range(s) \ {x} BY <1>1, DroppedIs
<1>3. g = Unlisted(h, i, rest) BY DEF Unlink
<1>. HIDE DEF g, rest
<1>4. /\ g \in Heaps /\ SameBut(h, g)
      /\ g.bins = [h.bins EXCEPT ![i] = rest] /\ g.slMap = left
      /\ g.flMap = IF \E j \in left : LevelOf(j) = LevelOf(i) THEN h.flMap ELSE h.flMap \ {LevelOf(i)}
  <2>1. i \in Bins OBVIOUS
  <2>. HIDE DEF i
  <2>2. g \in Heaps /\ IsUnlisted(h, g, i, rest) BY <1>2, <1>3, <2>1, UnlistedIs
  <2>. QED BY <2>2 DEF IsUnlisted, LeftIn
<1>5. \A u : Size(g, u) = Size(h, u) BY <1>4 DEF SameBut, Size
<1>6. ASSUME NEW j \in Bins
      PROVE IsInjective(g.bins[j]) /\ Range(g.bins[j]) = {b \in F \ {x} : BinOf(Size(g, b)) = j}
  <2>1. Range(h.bins[j]) = {b \in F : BinOf(Size(h, b)) = j} /\ IsInjective(h.bins[j]) BY DEF ListsHold
  <2>2. CASE j = i
    <3>1. g.bins[j] = rest BY <1>4, <2>2 DEF Heaps
    <3>. QED BY <1>2, <1>5, <2>1, <2>2, <3>1
  <2>3. CASE j # i
    <3>1. g.bins[j] = h.bins[j] BY <1>4, <2>3 DEF Heaps
    <3>. QED BY <1>5, <2>1, <2>3, <3>1
  <2>. QED BY <2>2, <2>3
<1>7. g.slMap = {j \in Bins : g.bins[j] # <<>>}
  <2>1. h.slMap = {j \in Bins : h.bins[j] # <<>>} BY DEF ListsHold
  <2>2. s # <<>> BY <1>1 DEF Range
  <2>3. \A j \in Bins : g.bins[j] = IF j = i THEN rest ELSE h.bins[j] BY <1>4 DEF Heaps
  <2>. QED BY <1>4, <2>1, <2>2, <2>3
<1>8. g.flMap = {LevelOf(j) : j \in g.slMap}
  <2>1. h.flMap = {LevelOf(j) : j \in h.slMap} /\ i \in h.slMap
    <3>1. s # <<>> BY <1>1 DEF Range
    <3>. QED BY <3>1 DEF ListsHold
  <2>2. CASE \E j \in left : LevelOf(j) = LevelOf(i)
    <3>1. {LevelOf(j) : j \in left} = {LevelOf(j) : j \in h.slMap} BY <2>1, <2>2
    <3>. QED BY <1>4, <2>1, <2>2, <3>1
  <2>3. CASE ~\E j \in left : LevelOf(j) = LevelOf(i)
    <3>1. left = h.slMap \ {i} BY <2>1, <2>3
    <3>2. {LevelOf(j) : j \in left} = {LevelOf(j) : j \in h.slMap} \ {LevelOf(i)} BY <2>1, <2>3, <3>1
    <3>. QED BY <1>4, <2>1, <2>3, <3>2
  <2>. QED BY <2>2, <2>3
<1>. QED BY <1>4, <1>6, <1>7, <1>8 DEF ListsHold, g

\* insert puts one on, and sets the bits.
LEMMA ListedHolds == ASSUME NEW h \in Heaps, NEW F \in SUBSET Units, ListsHold(h, F), NEW b \in Units, b \notin F,
                            BinOf(Size(h, b)) \in Bins
                     PROVE LET g == Listed(h, b, BinOf(Size(h, b)))
                           IN  g \in Heaps /\ SameBut(h, g) /\ ListsHold(g, F \cup {b})
<1>. DEFINE i == BinOf(Size(h, b))
            g == Listed(h, b, i)
<1>. HIDE DEF g
<1>1. /\ g \in Heaps /\ SameBut(h, g)
      /\ g.bins = [h.bins EXCEPT ![i] = <<b>> \o h.bins[i]] /\ g.slMap = h.slMap \cup {i}
      /\ g.flMap = h.flMap \cup {LevelOf(i)}
   BY SMTT(30), ListedIs DEF g
<1>2. \A u : Size(g, u) = Size(h, u) BY <1>1 DEF SameBut, Size
<1>3. PICK s \in Seq(Units) : s = h.bins[i] /\ IsInjective(s) /\ Range(s) = {c \in F : BinOf(Size(h, c)) = i}
   BY DEF Heaps, ListsHold
<1>4. IsInjective(<<b>> \o s) /\ Range(<<b>> \o s) = Range(s) \cup {b} /\ <<b>> \o s # <<>>
  <2>1. b \notin Range(s) BY <1>3
  <2>2. PICK l \in Nat : l = Len(s) /\ DOMAIN s = 1 .. l OBVIOUS
  <2>3. PICK t \in Seq(Units) : t = <<b>> \o s /\ DOMAIN t = 1 .. l + 1 /\ \A k \in 1 .. l + 1 : t[k] = IF k = 1 THEN b ELSE s[k - 1]
    <3>1. <<b>> \in Seq(Units) /\ Len(<<b>>) = 1 /\ <<b>>[1] = b OBVIOUS
    <3>2. <<b>> \o s \in Seq(Units) /\ Len(<<b>> \o s) = l + 1 BY <2>2, <3>1
    <3>3. \A k \in 1 .. l + 1 : (<<b>> \o s)[k] = IF k = 1 THEN b ELSE s[k - 1] BY <2>2, <3>1
    <3>4. DOMAIN (<<b>> \o s) = 1 .. l + 1 BY <3>2
    <3>. QED BY <3>2, <3>3, <3>4
  <2>4. IsInjective(t)
    <3>1. SUFFICES ASSUME NEW k \in 1 .. l + 1, NEW m \in 1 .. l + 1, t[k] = t[m] PROVE k = m BY <2>3 DEF IsInjective
    <3>2. \A n \in 1 .. l : s[n] # b BY <2>1, <2>2 DEF Range
    <3>3. \A n, o \in 1 .. l : s[n] = s[o] => n = o BY <1>3, <2>2 DEF IsInjective
    <3>4. CASE k = 1 \/ m = 1
      <4>1. \A n \in 1 .. l + 1 : n # 1 => t[n] # b
        <5>1. \A n \in 1 .. l + 1 : n # 1 => n - 1 \in 1 .. l OBVIOUS
        <5>. QED BY <2>3, <3>2, <5>1
      <4>. QED BY <2>3, <3>1, <3>4, <4>1
    <3>5. CASE k # 1 /\ m # 1
      <4>1. k - 1 \in 1 .. l /\ m - 1 \in 1 .. l /\ s[k - 1] = s[m - 1] BY <2>3, <3>1, <3>5
      <4>. QED BY <3>3, <4>1
    <3>. QED BY <3>4, <3>5
  <2>5. Range(t) = Range(s) \cup {b}
    <3>1. b \in Range(t) BY <2>3, 1 \in 1 .. l + 1 DEF Range
    <3>2. ASSUME NEW y \in Range(s) PROVE y \in Range(t)
      <4>1. PICK k \in 1 .. l : y = s[k] BY <2>2 DEF Range
      <4>2. k + 1 \in 1 .. l + 1 /\ t[k + 1] = s[k] BY <2>3, k + 1 \in 1 .. l + 1, (k + 1) - 1 = k
      <4>. QED BY <2>3, <4>1, <4>2 DEF Range
    <3>3. ASSUME NEW y \in Range(t), y # b PROVE y \in Range(s)
      <4>1. PICK k \in 1 .. l + 1 : y = t[k] BY <2>3 DEF Range
      <4>2. k - 1 \in 1 .. l /\ y = s[k - 1] BY <2>3, <3>3, <4>1
      <4>. QED BY <2>2, <4>2 DEF Range
    <3>. QED BY <3>1, <3>2, <3>3
  <2>. QED BY <2>3, <2>4, <2>5
<1>5. \A j \in Bins : g.bins[j] = IF j = i THEN <<b>> \o s ELSE h.bins[j] BY <1>1, <1>3 DEF Heaps
<1>6. ASSUME NEW j \in Bins
      PROVE IsInjective(g.bins[j]) /\ Range(g.bins[j]) = {c \in F \cup {b} : BinOf(Size(g, c)) = j}
  <2>1. Range(h.bins[j]) = {c \in F : BinOf(Size(h, c)) = j} /\ IsInjective(h.bins[j]) BY DEF ListsHold
  <2>2. CASE j = i BY <1>2, <1>3, <1>4, <1>5, <2>2
  <2>3. CASE j # i BY <1>2, <1>5, <2>1, <2>3
  <2>. QED BY <2>2, <2>3
<1>7. g.slMap = {j \in Bins : g.bins[j] # <<>>}
  <2>1. h.slMap = {j \in Bins : h.bins[j] # <<>>} BY DEF ListsHold
  <2>. QED BY <1>1, <1>4, <1>5, <2>1
<1>8. g.flMap = {LevelOf(j) : j \in g.slMap}
  <2>1. h.flMap = {LevelOf(j) : j \in h.slMap} BY DEF ListsHold
  <2>. QED BY <1>1, <2>1
<1>. QED BY <1>1, <1>6, <1>7, <1>8 DEF ListsHold, g

\* The lists are about the sizes of their blocks and nothing else.
SameLists(h, g) == g.bins = h.bins /\ g.slMap = h.slMap /\ g.flMap = h.flMap
LEMMA ListsFrame == ASSUME NEW h, NEW g, NEW F, ListsHold(h, F), SameLists(h, g), \A b \in F : Size(g, b) = Size(h, b)
                    PROVE ListsHold(g, F)
<1>1. \A i \in Bins : {b \in F : BinOf(Size(g, b)) = i} = {b \in F : BinOf(Size(h, b)) = i} OBVIOUS
<1>. QED BY <1>1 DEF ListsHold, SameLists

LEMMA LowestIs == ASSUME NEW T \in SUBSET Nat, T # {} PROVE Lowest(T) \in T
BY NatMin DEF Lowest

LEMMA FirstOfIs == ASSUME NEW h \in Heaps, NEW F, ListsHold(h, F), NEW lists \in SUBSET h.slMap, lists # {}
                   PROVE FirstOf(h, lists) \in F /\ BinOf(Size(h, FirstOf(h, lists))) \in lists
<1>1. lists \in SUBSET Nat BY LevelOfInt DEF Heaps
<1>2. PICK j \in lists : j = Lowest(lists) BY <1>1, LowestIs
<1>3. j \in Bins /\ h.bins[j] \in Seq(Units) /\ h.bins[j] # <<>> BY <1>2 DEF ListsHold, Heaps
<1>4. h.bins[j][1] \in Range(h.bins[j]) BY <1>3 DEF Range
<1>5. h.bins[j][1] \in {b \in F : BinOf(Size(h, b)) = j} BY <1>3, <1>4 DEF ListsHold
<1>. QED BY <1>2, <1>5 DEF FirstOf

\* What find returns is free and large enough.
LEMMA FindIs == ASSUME NEW h \in Heaps, NEW F, ListsHold(h, F), \A b \in F : Size(h, b) \in Nat,
                       NEW size \in Nat, 2 * size <= 2 ^ Word, Find(h, size) # Null
                PROVE Find(h, size) \in F /\ size <= Size(h, Find(h, size))
<1>1. PICK i \in Nat : i = BinOf(Up(size))
  <2>1. CASE size < SlCount BY <2>1, BinSmall DEF Up
  <2>2. CASE size >= SlCount
    <3>1. PICK e \in 0 .. 30, c \in SlCount .. 2 * SlCount : BinOf(Up(size)) = e * SlCount + c BY <2>2, UpIs
    <3>. QED BY <3>1, Lists
  <2>. QED BY <2>1, <2>2, Lists
<1>2. SUFFICES Find(h, size) \in F /\ i <= BinOf(Size(h, Find(h, size)))
  <2>. DEFINE x == Size(h, Find(h, size))
  <2>1. x \in Nat BY <1>2
  <2>. HIDE DEF x
  <2>2. i <= BinOf(x) BY <1>2 DEF x
  <2>3. size <= x BY <1>1, <2>1, <2>2, Fits
  <2>. QED BY <1>2, <2>3 DEF x
<1>3. Find(h, size) = FindFrom(h, i) BY <1>1 DEF Find
<1>. DEFINE here == {j \in h.slMap : LevelOf(j) = LevelOf(i) /\ j >= i}
            levels == {f \in h.flMap : f > LevelOf(i)}
            above == {j \in h.slMap : LevelOf(j) = Lowest(levels)}
<1>4. CASE here # {}
  <2>1. FirstOf(h, here) \in F /\ BinOf(Size(h, FirstOf(h, here))) \in here BY <1>4, FirstOfIs
  <2>2. Find(h, size) = FirstOf(h, here) BY <1>3, <1>4 DEF FindFrom
  <2>3. \A j \in here : j \in Nat /\ i <= j BY LevelOfInt DEF Heaps
  <2>. QED BY <2>1, <2>2, <2>3
<1>5. CASE here = {}
  <2>1. Find(h, size) = FindAbove(h, levels) BY <1>3, <1>5 DEF FindFrom
  <2>2. levels # {} /\ Find(h, size) = FirstOf(h, above) BY <2>1 DEF FindAbove
  <2>3. \A j \in h.slMap : j \in Nat /\ LevelOf(j) \in Nat BY LevelOfInt DEF Heaps
  <2>4. h.flMap = {LevelOf(j) : j \in h.slMap} BY DEF ListsHold
  <2>5. levels \in SUBSET Nat BY <2>3, <2>4
  <2>6. PICK f \in levels : f = Lowest(levels) BY <2>2, <2>5, LowestIs
  <2>7. above # {} BY <2>4, <2>6
  <2>8. FirstOf(h, above) \in F /\ BinOf(Size(h, FirstOf(h, above))) \in above BY <2>7, FirstOfIs
  <2>9. ASSUME NEW j \in above PROVE i <= j
    <3>1. j \in Nat /\ LevelOf(j) = f /\ f > LevelOf(i) /\ f \in Nat BY <2>3, <2>5, <2>6
    <3>2. SUFFICES ASSUME j <= i PROVE FALSE BY <3>1
    <3>3. LevelOf(j) <= LevelOf(i) BY <3>1, <3>2, Lists, DivRises DEF LevelOf
    <3>4. LevelOf(i) \in Nat BY Lists, DivBounds DEF LevelOf
    <3>. QED BY <3>1, <3>3, <3>4
  <2>. QED BY <2>2, <2>8, <2>9
<1>. QED BY <1>4, <1>5

-----------------------------------------------------------------------------
(* What the pieces of the operations change *)

\* Headers but those of T are the same, and so are the edges of the heap.
SameOff(h, g, T) == g.first = h.first /\ g.epilogue = h.epilogue /\ \A u \in Units \ T : g.mem[u] = h.mem[u]

LEMMA UnitsAre == ASSUME NEW u PROVE u \in Units <=> u \in Nat /\ Start <= u /\ u <= Top
BY HeapAssumption DEF Units

LEMMA UnitsIn == \A u \in Int, a, b \in Units : a <= u /\ u <= b => u \in Units
BY HeapAssumption DEF Units
LEMMA UnitsBound == \A u \in Units : u \in Nat /\ u >= 1 /\ Start <= u /\ u <= Top
BY HeapAssumption DEF Units

LEMMA HeadIs == ASSUME NEW h \in Heaps, NEW u \in Units
                PROVE /\ h.mem[u] \in Heads /\ Size(h, u) \in Int /\ h.mem[u].prev \in Int
                      /\ Next_phys(h, u) \in Int /\ Prev_phys(h, u) \in Int
                      /\ Next_phys(h, u) = u + 1 + Size(h, u) /\ Prev_phys(h, u) = u - 1 - h.mem[u].prev
<1>1. u \in Int BY UnitsAre
<1>2. h.mem[u] \in Heads BY DEF Heaps
<1>. QED BY <1>1, <1>2 DEF Heads, Size, Next_phys, Prev_phys

LEMMA FlagsDiffer == B_FREE # B_PREV_FREE
BY DEF B_FREE, B_PREV_FREE

LEMMA JoinedIs == ASSUME NEW h \in Heaps, NEW b \in Units, NEW next \in Units
                  PROVE LET g == Joined(h, b, next)
                        IN  /\ g \in Heaps /\ SameLists(h, g) /\ SameOff(h, g, {b}) /\ g.at = h.at \ {next}
                            /\ Size(g, b) = Size(h, b) + 1 + Size(h, next)
                            /\ (IsFree(g, b) <=> IsFree(h, b)) /\ (PrevIsFree(g, b) <=> PrevIsFree(h, b))
                            /\ g.mem[b].prev = h.mem[b].prev
<1>1. Size(h, b) + 1 + Size(h, next) \in Int BY HeadIs
<1>. QED BY <1>1 DEF Joined, Heaps, Heads, SameLists, SameOff, Size, IsFree, PrevIsFree

LEMMA TakenIs == ASSUME NEW h \in Heaps, NEW b \in Units
                 PROVE LET g == Taken(h, b)
                       IN  /\ g \in Heaps /\ SameLists(h, g) /\ SameOff(h, g, {b}) /\ g.at = h.at
                           /\ Size(g, b) = Size(h, b) /\ ~IsFree(g, b) /\ (PrevIsFree(g, b) <=> PrevIsFree(h, b))
                           /\ g.mem[b].prev = h.mem[b].prev
BY FlagsDiffer DEF Taken, Heaps, Heads, SameLists, SameOff, Size, IsFree, PrevIsFree

LEMMA ClearedIs == ASSUME NEW h \in Heaps, NEW b \in Units
                   PROVE LET g == Cleared(h, b)
                         IN  /\ g \in Heaps /\ SameLists(h, g) /\ SameOff(h, g, {b}) /\ g.at = h.at
                             /\ Size(g, b) = Size(h, b) /\ ~PrevIsFree(g, b) /\ (IsFree(g, b) <=> IsFree(h, b))
                             /\ g.mem[b].prev = h.mem[b].prev
BY FlagsDiffer DEF Cleared, Heaps, Heads, SameLists, SameOff, Size, IsFree, PrevIsFree

LEMMA SizedIs == ASSUME NEW h \in Heaps, NEW b \in Units, NEW size \in Int
                 PROVE LET g == Sized(h, b, size)
                       IN  /\ g \in Heaps /\ SameLists(h, g) /\ SameOff(h, g, {b}) /\ g.at = h.at
                           /\ Size(g, b) = size /\ (IsFree(g, b) <=> IsFree(h, b)) /\ (PrevIsFree(g, b) <=> PrevIsFree(h, b))
                           /\ g.mem[b].prev = h.mem[b].prev
BY DEF Sized, Heaps, Heads, SameLists, SameOff, Size, IsFree, PrevIsFree

LEMMA BegunIs == ASSUME NEW h \in Heaps, NEW c \in Units, NEW size \in Int
                 PROVE LET g == Begun(h, c, size)
                       IN  /\ g \in Heaps /\ SameLists(h, g) /\ SameOff(h, g, {c}) /\ g.at = h.at \cup {c}
                           /\ Size(g, c) = size /\ ~IsFree(g, c) /\ ~PrevIsFree(g, c)
BY ZenonT(60) DEF Begun, Heaps, Heads, SameLists, SameOff, Size, IsFree, PrevIsFree

LEMMA MoveTopIs == ASSUME NEW h \in Heaps, NEW to \in Units
                   PROVE LET g == MoveTop(h, to)
                         IN  /\ g \in Heaps /\ SameLists(h, g) /\ g.first = h.first /\ g.epilogue = to
                             /\ \A u \in Units \ {to} : g.mem[u] = h.mem[u]
                             /\ g.at = (h.at \ {h.epilogue}) \cup {to}
                             /\ Size(g, to) = 0 /\ ~IsFree(g, to) /\ ~PrevIsFree(g, to)
<1>1. Header(0) \in Heads /\ to \in Int BY UnitsAre DEF Header, Heads
<1>2. Header(0).size = 0 /\ Header(0).flags = {} BY DEF Header
<1>. HIDE DEF Header
<1>. QED BY <1>1, <1>2 DEF MoveTop, Heaps, SameLists, Size, IsFree, PrevIsFree

LEMMA MarkedIs == ASSUME NEW h \in Heaps, NEW b \in Units, b + 1 \in Units
                  PROVE LET g == Marked(h, b)
                        IN  /\ g \in Heaps /\ SameLists(h, g) /\ SameOff(h, g, {b, b + 1}) /\ g.at = h.at
                            /\ Size(g, b) = Size(h, b) /\ IsFree(g, b) /\ (PrevIsFree(g, b) <=> PrevIsFree(h, b))
                            /\ g.mem[b].prev = h.mem[b].prev /\ g.mem[b + 1] = Junk
<1>1. b + 1 # b BY UnitsAre
<1>2. Junk \in Heads BY DEF Junk, Header, Heads
<1>. QED BY <1>1, <1>2, FlagsDiffer DEF Marked, Heaps, Heads, SameLists, SameOff, Size, IsFree, PrevIsFree

LEMMA ToldIs == ASSUME NEW h \in Heaps, NEW b \in Units, NEW n \in Units
                PROVE LET g == Told(h, b, n)
                      IN  /\ g \in Heaps /\ SameLists(h, g) /\ SameOff(h, g, {n}) /\ g.at = h.at
                          /\ Size(g, n) = Size(h, n) /\ (IsFree(g, n) <=> IsFree(h, n)) /\ PrevIsFree(g, n)
                          /\ g.mem[n].prev = Size(h, b)
<1>1. Size(h, b) \in Int BY HeadIs
<1>. QED BY ZenonT(60), <1>1, FlagsDiffer DEF Told, Heaps, Heads, SameLists, SameOff, Size, IsFree, PrevIsFree

-----------------------------------------------------------------------------
(* Tiles *)

LEMMA TilesAre == ASSUME NEW h \in Heaps, Tiled(h)
                  PROVE /\ h.first \in h.at /\ h.epilogue \in h.at /\ h.at \subseteq Units /\ h.at \subseteq Int
                        /\ \A c \in h.at : h.first <= c /\ c <= h.epilogue
                        /\ \A b \in BlocksOf(h) : /\ b \in Units /\ b \in h.at /\ b + 1 \in Units /\ Size(h, b) \in Nat /\ Size(h, b) >= 1
                                                 /\ Next_phys(h, b) = b + 1 + Size(h, b) /\ Next_phys(h, b) \in h.at
                                                 /\ Size(h, b) <= Top - Start
<1>1. h.at \in SUBSET Units /\ h.first \in Int /\ h.epilogue \in Int BY DEF Heaps
<1>2. h.first \in h.at /\ h.epilogue \in h.at /\ h.at \subseteq h.first .. h.epilogue BY DEF Tiled
<1>3. \A u \in Units : u \in Nat /\ Start <= u /\ u <= Top BY UnitsAre
<1>4. ASSUME NEW b \in BlocksOf(h)
      PROVE /\ b \in Units /\ b \in h.at /\ b + 1 \in Units /\ Size(h, b) \in Nat /\ Size(h, b) >= 1
            /\ Next_phys(h, b) = b + 1 + Size(h, b) /\ Next_phys(h, b) \in h.at /\ Size(h, b) <= Top - Start
  <2>1. b \in Units /\ b \in h.at /\ Next_phys(h, b) \in h.at /\ Size(h, b) >= 1 BY <1>1 DEF Tiled, BlocksOf
  <2>2. Next_phys(h, b) = b + 1 + Size(h, b) /\ Size(h, b) \in Int BY <2>1, HeadIs
  <2>3. Next_phys(h, b) \in Units BY <1>1, <2>1
  <2>4. b + 1 \in Units
    <3>1. b + 1 \in Nat /\ Start <= b + 1 /\ b + 1 <= Top BY <1>3, <2>1, <2>2, <2>3, HeapAssumption
    <3>. QED BY <3>1, UnitsAre
  <2>. QED BY <1>3, <2>1, <2>2, <2>3, <2>4, HeapAssumption
<1>. QED BY <1>1, <1>2, <1>3, <1>4

\* Nothing begins inside a block.
LEMMA Apart == ASSUME NEW h \in Heaps, Tiled(h), NEW b \in BlocksOf(h), NEW c \in h.at
               PROVE c <= b \/ c >= Next_phys(h, b)
BY DEF Tiled

LEMMA NextAfter == ASSUME NEW h \in Heaps, Tiled(h), NEW b \in BlocksOf(h)
                   PROVE b + 2 <= Next_phys(h, b) /\ Next_phys(h, b) <= h.epilogue /\ b < h.epilogue /\ b + 1 \notin h.at
<1>1. /\ b \in Int /\ Size(h, b) \in Nat /\ Size(h, b) >= 1 /\ Next_phys(h, b) = b + 1 + Size(h, b) /\ Next_phys(h, b) <= h.epilogue
      /\ h.epilogue \in Int
   BY TilesAre
<1>2. b + 1 \in h.at => b + 1 <= b \/ b + 1 >= Next_phys(h, b) BY Apart
<1>. QED BY <1>1, <1>2

\* Below every header but the first there is a block.
LEMMA Below == ASSUME NEW h \in Heaps, Tiled(h), NEW c \in h.at, c # h.first
               PROVE \E b \in BlocksOf(h) : Next_phys(h, b) = c
<1>. DEFINE T == {c - d : d \in {e \in h.at : e < c}}
<1>1. h.first \in h.at /\ h.at \subseteq Int /\ \A e \in h.at : h.first <= e /\ e <= h.epilogue BY TilesAre
<1>2. T \in SUBSET Nat /\ c - h.first \in T BY <1>1
<1>. HIDE DEF T
<1>3. PICK m \in T : \A y \in T : m <= y BY <1>2, NatMin
<1>4. PICK b \in h.at : b < c /\ m = c - b BY <1>3 DEF T
<1>5. b \in BlocksOf(h) BY <1>1, <1>4 DEF BlocksOf
<1>6. Next_phys(h, b) \in h.at /\ Next_phys(h, b) <= c /\ b < Next_phys(h, b) BY <1>1, <1>4, <1>5, TilesAre, Apart, NextAfter
<1>7. ASSUME Next_phys(h, b) < c PROVE FALSE
  <2>1. c - Next_phys(h, b) \in T BY <1>6, <1>7 DEF T
  <2>. QED BY <1>1, <1>3, <1>4, <1>6, <2>1
<1>. QED BY <1>1, <1>5, <1>6, <1>7

\* Where a header says so, the block below is free, and as large as told.
LEMMA FreeBelow == ASSUME NEW h \in Heaps, Tiled(h), Truthful(h), NEW c \in h.at, PrevIsFree(h, c)
                   PROVE /\ Prev_phys(h, c) \in FreeOf(h) /\ Next_phys(h, Prev_phys(h, c)) = c /\ h.mem[c].prev = Size(h, Prev_phys(h, c))
                         /\ ~IsFree(h, c)
<1>1. c # h.first BY DEF Truthful
<1>2. PICK b \in BlocksOf(h) : Next_phys(h, b) = c BY <1>1, Below
<1>3. IsFree(h, b) /\ h.mem[c].prev = Size(h, b) /\ ~IsFree(h, c) BY <1>2 DEF Truthful, TellsOf
<1>4. Prev_phys(h, c) = b
  <2>1. b \in Int /\ Size(h, b) \in Int /\ c = b + 1 + Size(h, b) BY <1>2, TilesAre
  <2>2. c \in Units BY TilesAre
  <2>3. Prev_phys(h, c) = c - 1 - h.mem[c].prev BY <2>2, HeadIs
  <2>. QED BY <1>3, <2>1, <2>3
<1>. QED BY <1>2, <1>3, <1>4 DEF FreeOf

LEMMA KindsAre == ASSUME NEW h \in Heaps, Tiled(h), Truthful(h), NEW b \in BlocksOf(h)
                  PROVE /\ (b \in FreeOf(h) <=> IsFree(h, b)) /\ (b \in UsedOf(h) <=> ~IsFree(h, b))
                        /\ PrevIsFree(h, Next_phys(h, b)) <=> IsFree(h, b)
                        /\ IsFree(h, b) => ~IsFree(h, Next_phys(h, b)) /\ ~PrevIsFree(h, b)
<1>1. TellsOf(h, b) BY DEF Truthful
<1>2. b \in h.at BY TilesAre
<1>3. PrevIsFree(h, b) => ~IsFree(h, b) BY <1>2, FreeBelow
<1>. QED BY <1>1, <1>3 DEF TellsOf, FreeOf, UsedOf

-----------------------------------------------------------------------------
(* The heap's invariant *)

\* What would pass for a live block by its own header and the one below.  What lies in X is about to be
\* written and not asked.
Deceives(h, X, u) ==
    /\ ~IsFree(h, u) /\ Size(h, u) >= 1
    /\ PrevIsFree(h, u) =>
         /\ h.mem[u].prev >= 1 /\ Prev_phys(h, u) >= Start /\ Prev_phys(h, u) \notin X
         /\ IsFree(h, Prev_phys(h, u)) /\ Size(h, Prev_phys(h, u)) = h.mem[u].prev
StaleOK(h, X) == \A u \in Units \ (h.at \cup X) : ~Deceives(h, X, u)

Sound(h, X) == h \in Heaps /\ Tiled(h) /\ Truthful(h) /\ FreeListed(h) /\ StaleOK(h, X)

\* What blocks hold
Interior(h, b) == b + 1 .. b + Size(h, b)
Kept(h, g, c) == c \in UsedOf(g) /\ Size(g, c) = Size(h, c) /\ \A u \in Interior(h, c) : g.mem[u] = h.mem[u]
AllKept(h, g, C) == \A c \in C : Kept(h, g, c)

\* A free block is made of what lies from x to n: the tiles, what headers tell and what is stale stay right.
Between(h, x, n) == {u \in h.at : x < u /\ u < n}
Coalesces(h, g, x, n) ==
    /\ g.at = h.at \ Between(h, x, n) /\ SameOff(h, g, {x, x + 1, n} \cup Between(h, x, n))
    /\ Size(g, x) = n - x - 1 /\ IsFree(g, x) /\ ~PrevIsFree(g, x) /\ g.mem[x + 1] = Junk
    /\ Size(g, n) = Size(h, n) /\ ~IsFree(g, n) /\ PrevIsFree(g, n) /\ g.mem[n].prev = n - x - 1
CoalesceOK(h, x, n) == x \in BlocksOf(h) /\ n \in h.at /\ x + 2 <= n /\ ~PrevIsFree(h, x) /\ ~IsFree(h, n)

LEMMA CoalescedTiles == ASSUME NEW h \in Heaps, NEW g \in Heaps, NEW x, NEW n, Tiled(h), Truthful(h),
                               CoalesceOK(h, x, n), Coalesces(h, g, x, n)
                        PROVE /\ Tiled(g) /\ Truthful(g)
                              /\ FreeOf(g) = (FreeOf(h) \ Between(h, x, n)) \cup {x}
                              /\ UsedOf(g) = UsedOf(h) \ (Between(h, x, n) \cup {x})
<1>. DEFINE D == Between(h, x, n)
<1>1. h.first \in h.at /\ h.epilogue \in h.at /\ h.at \subseteq Units /\ h.at \subseteq Int /\ \A c \in h.at : h.first <= c /\ c <= h.epilogue
   BY TilesAre
<1>2. x \in h.at /\ x \in Int /\ n \in h.at /\ n \in Int /\ x + 2 <= n /\ h.epilogue \in Int /\ h.first \in Int
   BY <1>1 DEF CoalesceOK, BlocksOf
<1>3. x + 1 \notin h.at BY NextAfter DEF CoalesceOK
<1>4. g.first = h.first /\ g.epilogue = h.epilogue /\ g.at = h.at \ D /\ x \in g.at /\ n \in g.at /\ \A u \in D : x < u /\ u < n
   BY <1>2 DEF Coalesces, SameOff, Between
<1>5. \A u \in g.at : u = x \/ u = n \/ (g.mem[u] = h.mem[u] /\ (u < x \/ n < u))
   BY <1>1, <1>2, <1>3, <1>4 DEF Coalesces, SameOff, Between
<1>6. \A u \in g.at : u # x => Size(g, u) = Size(h, u) /\ Next_phys(g, u) = Next_phys(h, u)
   BY <1>5 DEF Coalesces, Size, Next_phys
<1>7. Next_phys(g, x) = n
  <2>1. Next_phys(g, x) = x + 1 + Size(g, x) BY DEF Next_phys
  <2>. QED BY <1>2, <2>1 DEF Coalesces
<1>8. BlocksOf(g) = BlocksOf(h) \ D BY <1>4 DEF BlocksOf
<1>9. ASSUME NEW b \in BlocksOf(g), b # x
      PROVE /\ Next_phys(g, b) = Next_phys(h, b) /\ Next_phys(h, b) \in g.at /\ Next_phys(h, b) # n
            /\ b \in BlocksOf(h) /\ b \in g.at /\ (b < x \/ n <= b) /\ (Next_phys(h, b) = x => b < x)
  <2>1. b \in BlocksOf(h) /\ b \in g.at /\ b \in Int BY <1>1, <1>8 DEF BlocksOf
  <2>2. Next_phys(h, b) \in h.at /\ b + 2 <= Next_phys(h, b) /\ Next_phys(h, b) \in Int BY <1>1, <2>1, TilesAre, NextAfter
  <2>3. x <= b \/ x >= Next_phys(h, b) BY <1>2, <2>1, Apart
  <2>4. b < x \/ n <= b BY <1>2, <1>9, <2>1, <1>5
  <2>5. Next_phys(h, b) \notin D /\ Next_phys(h, b) # n BY <1>2, <1>4, <2>1, <2>2, <2>3, <2>4
  <2>. QED BY <1>4, <1>6, <1>9, <2>1, <2>2, <2>3, <2>4, <2>5
<1>10. Tiled(g)
  <2>1. g.first = Start /\ {g.first, g.epilogue} \subseteq g.at /\ g.at \subseteq g.first .. g.epilogue
    <3>1. h.first = Start /\ h.first <= x /\ n <= h.epilogue BY <1>1, <1>2 DEF Tiled
    <3>. QED BY <1>1, <1>2, <1>4, <3>1
  <2>2. Size(g, g.epilogue) = 0
    <3>1. Size(h, h.epilogue) = 0 /\ h.epilogue # x BY DEF Tiled, CoalesceOK, BlocksOf
    <3>. QED BY <1>4, <1>6, <2>1, <3>1
  <2>3. ASSUME NEW b \in BlocksOf(g)
        PROVE Size(g, b) >= 1 /\ Next_phys(g, b) \in g.at /\ \A c \in g.at : c <= b \/ c >= Next_phys(g, b)
    <3>1. CASE b = x
      <4>1. Size(g, x) >= 1 BY <1>2 DEF Coalesces
      <4>2. \A c \in g.at : c <= x \/ c >= n BY <1>1, <1>2, <1>4, <1>5
      <4>. QED BY <1>4, <1>7, <3>1, <4>1, <4>2
    <3>2. CASE b # x
      <4>1. b \in BlocksOf(h) /\ Next_phys(g, b) = Next_phys(h, b) /\ Next_phys(g, b) \in g.at BY <1>9, <3>2
      <4>2. Size(g, b) = Size(h, b) /\ Size(h, b) >= 1 BY <1>6, <1>9, <3>2, <4>1, TilesAre
      <4>3. \A c \in g.at : c <= b \/ c >= Next_phys(h, b) BY <1>4, <4>1, Apart
      <4>. QED BY <4>1, <4>2, <4>3
    <3>. QED BY <3>1, <3>2
  <2>. QED BY <2>1, <2>2, <2>3 DEF Tiled
<1>11. \A u \in g.at : u # x => (IsFree(g, u) <=> IsFree(h, u))
   BY <1>5 DEF Coalesces, CoalesceOK, IsFree
<1>12. \A u \in g.at : u # n => (PrevIsFree(g, u) <=> PrevIsFree(h, u)) /\ (u # x => g.mem[u].prev = h.mem[u].prev)
   BY <1>5 DEF Coalesces, CoalesceOK, PrevIsFree
<1>13. Truthful(g)
  <2>1. ~IsFree(g, g.epilogue)
    <3>1. ~IsFree(h, h.epilogue) /\ h.epilogue # x BY DEF Truthful, CoalesceOK, BlocksOf
    <3>. QED BY <1>4, <1>10, <1>11, <3>1 DEF Tiled
  <2>2. ~PrevIsFree(g, g.first)
    <3>1. ~PrevIsFree(h, h.first) /\ h.first # n BY <1>1, <1>2 DEF Truthful
    <3>. QED BY <1>4, <1>10, <1>12, <3>1 DEF Tiled
  <2>3. ASSUME NEW b \in BlocksOf(g) PROVE TellsOf(g, b)
    <3>1. CASE b = x
      <4>. QED BY <1>7, <3>1 DEF Coalesces, TellsOf
    <3>2. CASE b # x
      <4>1. b \in BlocksOf(h) /\ b \in g.at /\ Next_phys(g, b) = Next_phys(h, b) /\ Next_phys(h, b) \in g.at /\ Next_phys(h, b) # n
         BY <1>9, <3>2
      <4>2. TellsOf(h, b) BY <4>1 DEF Truthful
      <4>3. Size(g, b) = Size(h, b) /\ (IsFree(g, b) <=> IsFree(h, b)) BY <1>6, <1>11, <3>2, <4>1
      <4>4. PrevIsFree(g, Next_phys(h, b)) <=> PrevIsFree(h, Next_phys(h, b)) BY <1>12, <4>1
      <4>5. CASE Next_phys(h, b) = x
        <5>1. ~IsFree(h, b) BY <4>2, <4>5 DEF TellsOf, CoalesceOK
        <5>. QED BY <4>1, <4>2, <4>3, <4>4, <5>1 DEF TellsOf
      <4>6. CASE Next_phys(h, b) # x
        <5>1. /\ IsFree(g, Next_phys(h, b)) <=> IsFree(h, Next_phys(h, b))
              /\ g.mem[Next_phys(h, b)].prev = h.mem[Next_phys(h, b)].prev
           BY <1>11, <1>12, <4>1, <4>6
        <5>. QED BY <4>1, <4>2, <4>3, <4>4, <5>1 DEF TellsOf
      <4>. QED BY <4>5, <4>6
    <3>. QED BY <3>1, <3>2
  <2>. QED BY <2>1, <2>2, <2>3 DEF Truthful
<1>14. FreeOf(g) = (FreeOf(h) \ D) \cup {x}
  <2>1. x \in FreeOf(g) BY <1>8, <1>4 DEF FreeOf, Coalesces, CoalesceOK
  <2>2. \A b \in BlocksOf(g) : b # x => (b \in FreeOf(g) <=> b \in FreeOf(h)) BY <1>8, <1>9, <1>11 DEF FreeOf
  <2>. QED BY <1>8, <2>1, <2>2 DEF FreeOf
<1>15. UsedOf(g) = UsedOf(h) \ (D \cup {x}) BY <1>8, <1>14 DEF UsedOf, FreeOf
<1>. QED BY <1>10, <1>13, <1>14, <1>15

LEMMA CoalescedStale == ASSUME NEW h \in Heaps, NEW g \in Heaps, NEW x, NEW n, NEW X, Tiled(h), Truthful(h), StaleOK(h, X), Tiled(g),
                               CoalesceOK(h, x, n), Coalesces(h, g, x, n),
                               \A d \in Between(h, x, n) : \/ g.mem[d] = h.mem[d] /\ IsFree(h, d)
                                                           \/ ~IsFree(g, d) /\ ~Deceives(g, X, d)
                        PROVE StaleOK(g, X)
<1>. DEFINE D == Between(h, x, n)
<1>1. h.at \subseteq Units /\ h.at \subseteq Int /\ x \in h.at /\ n \in h.at /\ x \in Int /\ n \in Int /\ x + 2 <= n
   BY TilesAre DEF CoalesceOK, BlocksOf
<1>2. g.at = h.at \ D /\ x \in g.at /\ n \in g.at BY <1>1 DEF Coalesces, Between
<1>3. SUFFICES ASSUME NEW u \in Units \ (g.at \cup X), Deceives(g, X, u) PROVE FALSE BY DEF StaleOK
<1>4. u \notin D
  <2>1. SUFFICES ASSUME u \in D PROVE FALSE OBVIOUS
  <2>2. g.mem[u] = h.mem[u] /\ IsFree(h, u) BY <1>3, <2>1
  <2>. QED BY <1>3, <2>2 DEF Deceives, IsFree
<1>5. u \notin h.at \cup X BY <1>2, <1>3, <1>4
<1>6. u # x + 1
  <2>1. g.mem[x + 1].size = -1 BY DEF Coalesces, Junk, Header
  <2>. QED BY <1>3, <2>1 DEF Deceives, Size
<1>7. g.mem[u] = h.mem[u] BY <1>1, <1>2, <1>3, <1>4, <1>6 DEF Coalesces, SameOff
<1>8. ~Deceives(h, X, u) BY <1>5 DEF StaleOK
<1>9. Size(h, u) >= 1 /\ ~IsFree(h, u) /\ PrevIsFree(h, u) BY <1>3, <1>7, <1>8 DEF Deceives, Size, IsFree, PrevIsFree
<1>10. PICK p \in Int : p = Prev_phys(h, u) /\ p = Prev_phys(g, u) /\ p = u - 1 - h.mem[u].prev /\ u \in Int /\ h.mem[u].prev \in Int
   BY <1>7, HeadIs, UnitsAre DEF Prev_phys
<1>11. h.mem[u].prev >= 1 /\ p >= Start /\ p \notin X /\ IsFree(g, p) /\ Size(g, p) = h.mem[u].prev
   BY <1>3, <1>7, <1>9, <1>10 DEF Deceives, PrevIsFree
<1>12. p \in Units
  <2>1. p \in Nat /\ p <= Top BY SMTT(30), <1>10, <1>11, HeapAssumption, UnitsBound
  <2>. QED BY <1>11, <2>1, UnitsAre
<1>13. Next_phys(g, p) = u BY <1>10, <1>11 DEF Next_phys
<1>14. g.mem[p] # h.mem[p] BY <1>8, <1>9, <1>10, <1>11 DEF Deceives, IsFree, Size
<1>15. CASE p \in D
  <2>1. g.mem[p] = h.mem[p] /\ IsFree(h, p) BY <1>11, <1>15
  <2>. QED BY <1>14, <2>1
<1>16. CASE p = x
  <2>1. n # Next_phys(g, p) BY <1>2, <1>3, <1>13
  <2>. QED BY <1>1, <1>13, <1>16, <2>1 DEF Coalesces, Next_phys
<1>17. CASE p = x + 1
  <2>1. g.mem[x + 1].flags = {} BY DEF Coalesces, Junk, Header
  <2>. QED BY <1>11, <1>17, <2>1 DEF IsFree
<1>18. CASE p = n BY <1>11, <1>18 DEF Coalesces
<1>. QED BY <1>12, <1>14, <1>15, <1>16, <1>17, <1>18 DEF Coalesces, SameOff

\* What the used blocks hold is kept.
LEMMA CoalescedKept == ASSUME NEW h \in Heaps, NEW g \in Heaps, NEW x, NEW n, Tiled(h), Truthful(h),
                              CoalesceOK(h, x, n), Coalesces(h, g, x, n), UsedOf(g) = UsedOf(h) \ (Between(h, x, n) \cup {x})
                       PROVE AllKept(h, g, UsedOf(g))
<1>. DEFINE D == Between(h, x, n)
<1>1. h.at \subseteq Units /\ h.at \subseteq Int /\ x \in h.at /\ n \in h.at /\ x \in Int /\ n \in Int /\ x + 2 <= n /\ x \in BlocksOf(h)
   BY TilesAre DEF CoalesceOK, BlocksOf
<1>2. SUFFICES ASSUME NEW c \in UsedOf(g) PROVE Size(g, c) = Size(h, c) /\ \A u \in Interior(h, c) : g.mem[u] = h.mem[u]
   BY DEF AllKept, Kept
<1>3. c \in BlocksOf(h) /\ c # x /\ c \notin D BY <1>2 DEF UsedOf
<1>4. /\ c \in Units /\ c \in h.at /\ c \in Int /\ Size(h, c) \in Nat /\ Next_phys(h, c) = c + 1 + Size(h, c) /\ Next_phys(h, c) \in Units
      /\ Next_phys(h, c) \in Int
   BY <1>1, <1>3, TilesAre
<1>5. Size(g, c) = Size(h, c)
  <2>1. c # x + 1 BY <1>1, <1>4, NextAfter
  <2>2. c = n \/ g.mem[c] = h.mem[c] BY <1>3, <1>4, <2>1 DEF Coalesces, SameOff
  <2>. QED BY <2>2 DEF Coalesces, Size
<1>6. ASSUME NEW u \in Interior(h, c) PROVE g.mem[u] = h.mem[u]
  <2>1. u \in Int /\ c < u /\ u < Next_phys(h, c) BY <1>4, <1>6 DEF Interior
  <2>2. u \in Units BY <1>4, <2>1, c <= u, u <= Next_phys(h, c), UnitsIn
  <2>3. u \notin h.at BY <1>3, <1>4, <2>1, Apart
  <2>4. u # x + 1
    <3>1. c < x \/ n <= c BY <1>1, <1>3, <1>4 DEF Between
    <3>2. x <= c \/ x >= Next_phys(h, c) BY <1>1, <1>3, Apart
    <3>. QED BY <1>1, <1>4, <2>1, <3>1, <3>2
  <2>. QED BY <1>1, <2>2, <2>3, <2>4 DEF Coalesces, SameOff, Between
<1>. QED BY <1>5, <1>6

-----------------------------------------------------------------------------
(* release *)

LEMMA InsertIs == ASSUME NEW h \in Heaps, NEW x \in Units, x + 1 \in Units, Size(h, x) >= 1, Next_phys(h, x) \in Units,
                         NEW F \in SUBSET Units, ListsHold(h, F), x \notin F, x + 1 \notin F, BinOf(Size(h, x)) \in Bins
                  PROVE LET g == Insert(h, x)
                            n == Next_phys(h, x)
                        IN  /\ g \in Heaps /\ g.at = h.at /\ SameOff(h, g, {x, x + 1, n})
                            /\ Size(g, x) = Size(h, x) /\ IsFree(g, x) /\ (PrevIsFree(g, x) <=> PrevIsFree(h, x)) /\ g.mem[x + 1] = Junk
                            /\ Size(g, n) = Size(h, n) /\ (IsFree(g, n) <=> IsFree(h, n)) /\ PrevIsFree(g, n) /\ g.mem[n].prev = Size(h, x)
                            /\ ListsHold(g, F \cup {x})
<1>1. PICK n \in Units : n = Next_phys(h, x) /\ n # x /\ n # x + 1 /\ x # x + 1 BY HeadIs, UnitsBound
<1>2. PICK h1 \in Heaps :
           /\ h1 = Marked(h, x) /\ SameLists(h, h1) /\ SameOff(h, h1, {x, x + 1}) /\ h1.at = h.at
           /\ Size(h1, x) = Size(h, x) /\ IsFree(h1, x) /\ (PrevIsFree(h1, x) <=> PrevIsFree(h, x)) /\ h1.mem[x + 1] = Junk
   BY MarkedIs
<1>3. PICK h2 \in Heaps :
           /\ h2 = Told(h1, x, n) /\ SameLists(h1, h2) /\ SameOff(h1, h2, {n}) /\ h2.at = h1.at
           /\ Size(h2, n) = Size(h1, n) /\ (IsFree(h2, n) <=> IsFree(h1, n)) /\ PrevIsFree(h2, n) /\ h2.mem[n].prev = Size(h1, x)
  <2>. DEFINE f == Told(h1, x, n)
  <2>1. /\ f \in Heaps /\ SameLists(h1, f) /\ SameOff(h1, f, {n}) /\ f.at = h1.at
        /\ Size(f, n) = Size(h1, n) /\ (IsFree(f, n) <=> IsFree(h1, n)) /\ PrevIsFree(f, n) /\ f.mem[n].prev = Size(h1, x)
     BY ToldIs
  <2>. HIDE DEF f
  <2>. QED BY <2>1 DEF f
<1>4. h1.mem[n] = h.mem[n] /\ h2.mem[x] = h1.mem[x] /\ h2.mem[x + 1] = h1.mem[x + 1] BY <1>1, <1>2, <1>3 DEF SameOff
<1>5. /\ Size(h2, x) = Size(h, x) /\ IsFree(h2, x) /\ (PrevIsFree(h2, x) <=> PrevIsFree(h, x)) /\ h2.mem[x + 1] = Junk
      /\ Size(h2, n) = Size(h, n) /\ (IsFree(h2, n) <=> IsFree(h, n)) /\ PrevIsFree(h2, n) /\ h2.mem[n].prev = Size(h, x)
   BY <1>2, <1>3, <1>4 DEF Size, IsFree, PrevIsFree
<1>6. h2.at = h.at /\ SameOff(h, h2, {x, x + 1, n}) /\ SameLists(h, h2) BY <1>2, <1>3 DEF SameOff, SameLists
<1>7. ListsHold(h2, F)
  <2>1. \A u \in F : Size(h2, u) = Size(h, u) BY <1>5, <1>6 DEF SameOff, Size
  <2>. QED BY <1>6, <2>1, ListsFrame
<1>8. PICK g \in Heaps : g = Listed(h2, x, BinOf(Size(h2, x))) /\ SameBut(h2, g) /\ ListsHold(g, F \cup {x}) BY <1>5, <1>7, ListedHolds
<1>9. Insert(h, x) = g BY <1>1, <1>2, <1>3, <1>5, <1>8 DEF Insert
<1>10. /\ g.at = h.at /\ SameOff(h, g, {x, x + 1, n})
       /\ Size(g, x) = Size(h, x) /\ IsFree(g, x) /\ (PrevIsFree(g, x) <=> PrevIsFree(h, x)) /\ g.mem[x + 1] = Junk
       /\ Size(g, n) = Size(h, n) /\ (IsFree(g, n) <=> IsFree(h, n)) /\ PrevIsFree(g, n) /\ g.mem[n].prev = Size(h, x)
   BY <1>5, <1>6, <1>8 DEF SameBut, SameOff, Size, IsFree, PrevIsFree
<1>. QED BY <1>1, <1>8, <1>9, <1>10

\* A block with the free one above it taken in, up to the next header.
Merged(h, g, b, n) ==
    /\ n \in h.at /\ b + 2 <= n /\ ~IsFree(h, n) /\ \A d \in Between(h, b, n) : IsFree(h, d)
    /\ g \in Heaps /\ SameOff(h, g, {b}) /\ g.at = h.at \ Between(h, b, n)
    /\ Size(g, b) = n - b - 1 /\ (IsFree(g, b) <=> IsFree(h, b)) /\ (PrevIsFree(g, b) <=> PrevIsFree(h, b))
    /\ g.mem[b].prev = h.mem[b].prev /\ ListsHold(g, FreeOf(h) \ Between(h, b, n))

LEMMA SwallowIs == ASSUME NEW h \in Heaps, Tiled(h), Truthful(h), FreeListed(h), NEW b \in UsedOf(h), IsFree(h, Next_phys(h, b))
                   PROVE Merged(h, Swallow(h, b, Next_phys(h, b)), b, Next_phys(h, Next_phys(h, b)))
<1>1. h.at \subseteq Units /\ h.at \subseteq Int BY TilesAre
<1>2. b \in BlocksOf(h) BY DEF UsedOf
<1>3. PICK c \in h.at : c = Next_phys(h, b) /\ c = b + 1 + Size(h, b) /\ b \in Units /\ Size(h, b) \in Nat /\ Size(h, b) >= 1 /\ b \in h.at
   BY <1>2, TilesAre
<1>4. c \in BlocksOf(h) /\ c \in FreeOf(h) /\ ~IsFree(h, b)
  <2>1. c # h.epilogue BY <1>3 DEF Truthful
  <2>2. c \in BlocksOf(h) BY <1>3, <2>1 DEF BlocksOf
  <2>. QED BY <1>2, <1>3, <2>2, KindsAre
<1>5. PICK n \in h.at : n = Next_phys(h, c) /\ n = c + 1 + Size(h, c) /\ Size(h, c) \in Nat /\ Size(h, c) >= 1 /\ Size(h, c) <= Top - Start
   BY <1>4, TilesAre
<1>6. b \in Int /\ c \in Int /\ n \in Int /\ b < c /\ c < n BY <1>1, <1>3, <1>5
<1>7. ~IsFree(h, n) BY <1>3, <1>4, <1>5, KindsAre
<1>8. Between(h, b, n) = {c}
  <2>1. \A u \in h.at : u <= b \/ u >= c BY <1>2, <1>3, Apart
  <2>2. \A u \in h.at : u <= c \/ u >= n BY <1>4, <1>5, Apart
  <2>. QED BY <1>1, <1>3, <1>6, <2>1, <2>2 DEF Between
<1>9. PICK h1 \in Heaps : h1 = Unlink(h, c) /\ SameBut(h, h1) /\ ListsHold(h1, FreeOf(h) \ {c})
  <2>1. FreeOf(h) \in SUBSET Units BY <1>1 DEF FreeOf, BlocksOf
  <2>2. BinOf(Size(h, c)) \in Bins BY <1>5, BinInBins
  <2>. QED BY <1>4, <2>1, <2>2, UnlinkIs, ListedSame
<1>10. PICK g \in Heaps :
            /\ g = Joined(h1, b, c) /\ SameLists(h1, g) /\ SameOff(h1, g, {b}) /\ g.at = h1.at \ {c}
            /\ Size(g, b) = Size(h1, b) + 1 + Size(h1, c)
            /\ (IsFree(g, b) <=> IsFree(h1, b)) /\ (PrevIsFree(g, b) <=> PrevIsFree(h1, b)) /\ g.mem[b].prev = h1.mem[b].prev
  <2>. DEFINE f == Joined(h1, b, c)
  <2>1. b \in Units /\ c \in Units BY <1>1, <1>3
  <2>2. /\ f \in Heaps /\ SameLists(h1, f) /\ SameOff(h1, f, {b}) /\ f.at = h1.at \ {c}
        /\ Size(f, b) = Size(h1, b) + 1 + Size(h1, c)
        /\ (IsFree(f, b) <=> IsFree(h1, b)) /\ (PrevIsFree(f, b) <=> PrevIsFree(h1, b)) /\ f.mem[b].prev = h1.mem[b].prev
     BY <2>1, JoinedIs
  <2>. HIDE DEF f
  <2>. QED BY <2>2 DEF f
<1>11. g = Swallow(h, b, c) BY <1>9, <1>10 DEF Swallow
<1>12. /\ SameOff(h, g, {b}) /\ g.at = h.at \ {c} /\ Size(g, b) = n - b - 1
       /\ (IsFree(g, b) <=> IsFree(h, b)) /\ (PrevIsFree(g, b) <=> PrevIsFree(h, b)) /\ g.mem[b].prev = h.mem[b].prev
  <2>1. Size(h1, b) = Size(h, b) /\ Size(h1, c) = Size(h, c) BY <1>9 DEF SameBut, Size
  <2>2. Size(g, b) = n - b - 1 BY <1>3, <1>5, <1>6, <1>10, <2>1
  <2>. QED BY <1>9, <1>10, <2>2 DEF SameBut, SameOff, IsFree, PrevIsFree
<1>13. ListsHold(g, FreeOf(h) \ {c})
  <2>1. b \notin FreeOf(h) BY <1>4 DEF FreeOf
  <2>2. FreeOf(h) \subseteq Units BY <1>1 DEF FreeOf, BlocksOf
  <2>3. \A u \in FreeOf(h) \ {c} : Size(g, u) = Size(h1, u) BY <1>10, <2>1, <2>2 DEF SameOff, Size
  <2>. QED BY <1>9, <1>10, <2>3, ListsFrame
<1>14. Merged(h, g, b, n) BY <1>4, <1>6, <1>7, <1>8, <1>12, <1>13 DEF Merged, FreeOf
<1>. QED BY <1>3, <1>5, <1>11, <1>14

LEMMA MergeUpIs == ASSUME NEW h \in Heaps, Tiled(h), Truthful(h), FreeListed(h), NEW b \in UsedOf(h)
                   PROVE \E n : Merged(h, MergeUp(h, b), b, n)
<1>1. CASE IsFree(h, Next_phys(h, b)) BY <1>1, SwallowIs DEF MergeUp
<1>2. CASE ~IsFree(h, Next_phys(h, b))
  <2>1. b \in BlocksOf(h) BY DEF UsedOf
  <2>2. PICK n \in h.at : n = Next_phys(h, b) /\ n = b + 1 + Size(h, b) /\ b \in Units /\ Size(h, b) \in Nat /\ Size(h, b) >= 1
     BY <2>1, TilesAre
  <2>3. b \in Int /\ n \in Int /\ b + 2 <= n /\ Size(h, b) = n - b - 1 BY <2>2, UnitsBound
  <2>4. Between(h, b, n) = {}
    <3>1. \A u \in h.at : u <= b \/ u >= n BY <2>1, <2>2, Apart
    <3>2. h.at \subseteq Int BY TilesAre
    <3>. QED BY <2>3, <3>1, <3>2 DEF Between
  <2>5. MergeUp(h, b) = h BY <1>2 DEF MergeUp
  <2>6. ListsHold(h, FreeOf(h) \ {}) BY ListedSame, FreeOf(h) \ {} = FreeOf(h)
  <2>7. Merged(h, h, b, n) BY <1>2, <2>2, <2>3, <2>4, <2>6 DEF Merged, SameOff
  <2>. QED BY <2>5, <2>7
<1>. QED BY <1>1, <1>2

\* From x to n all is one free block.
LEMMA CoalescedSound == ASSUME NEW h, NEW g \in Heaps, NEW x, NEW n, NEW X, Sound(h, X),
                               CoalesceOK(h, x, n), Coalesces(h, g, x, n), ListsHold(g, (FreeOf(h) \ Between(h, x, n)) \cup {x}),
                               \A d \in Between(h, x, n) : \/ g.mem[d] = h.mem[d] /\ IsFree(h, d)
                                                           \/ ~IsFree(g, d) /\ ~Deceives(g, X, d)
                        PROVE /\ Sound(g, X) /\ UsedOf(g) = UsedOf(h) \ (Between(h, x, n) \cup {x}) /\ AllKept(h, g, UsedOf(g))
                              /\ g.epilogue = h.epilogue
<1>1. h \in Heaps /\ Tiled(h) /\ Truthful(h) /\ FreeListed(h) /\ StaleOK(h, X) BY DEF Sound
<1>2. /\ Tiled(g) /\ Truthful(g) /\ FreeOf(g) = (FreeOf(h) \ Between(h, x, n)) \cup {x}
      /\ UsedOf(g) = UsedOf(h) \ (Between(h, x, n) \cup {x})
   BY <1>1, CoalescedTiles
<1>3. StaleOK(g, X) BY <1>1, <1>2, CoalescedStale
<1>4. AllKept(h, g, UsedOf(g)) BY <1>1, <1>2, CoalescedKept
<1>5. FreeListed(g) BY <1>2, ListedSame
<1>. QED BY <1>2, <1>3, <1>4, <1>5 DEF Sound, Coalesces, SameOff

\* release: the block is free, and one with the free ones next to it.
LEMMA ReleaseIs == ASSUME NEW h, NEW X, Sound(h, X), NEW b \in UsedOf(h)
                   PROVE LET g == Release(h, b)
                         IN  Sound(g, X) /\ UsedOf(g) = UsedOf(h) \ {b} /\ AllKept(h, g, UsedOf(h) \ {b}) /\ g.epilogue = h.epilogue
<1>1. h \in Heaps /\ Tiled(h) /\ Truthful(h) /\ FreeListed(h) /\ StaleOK(h, X) BY DEF Sound
<1>2. PICK m, n : m = MergeUp(h, b) /\ Merged(h, m, b, n) BY <1>1, MergeUpIs
<1>3. b \in BlocksOf(h) /\ b \in h.at /\ b \in Units /\ b + 1 \in Units /\ b \in Int /\ ~IsFree(h, b) /\ b # h.epilogue
  <2>1. b \in BlocksOf(h) BY DEF UsedOf
  <2>. QED BY <1>1, <2>1, TilesAre, KindsAre, UnitsBound DEF BlocksOf
<1>4. /\ h.at \subseteq Units /\ h.at \subseteq Int /\ n \in h.at /\ n \in Units /\ n \in Int /\ b + 2 <= n /\ ~IsFree(h, n)
      /\ \A d \in Between(h, b, n) : IsFree(h, d) /\ d \in h.at /\ b < d /\ d < n
   BY <1>1, <1>2, TilesAre DEF Merged, Between
<1>5. /\ m \in Heaps /\ SameOff(h, m, {b}) /\ m.at = h.at \ Between(h, b, n)
      /\ Size(m, b) = n - b - 1 /\ ~IsFree(m, b) /\ (PrevIsFree(m, b) <=> PrevIsFree(h, b))
      /\ m.mem[b].prev = h.mem[b].prev /\ ListsHold(m, FreeOf(h) \ Between(h, b, n))
   BY <1>2, <1>3 DEF Merged
<1>6. FreeOf(h) \subseteq Units /\ b \notin FreeOf(h) /\ FreeOf(h) \subseteq h.at /\ \A u \in FreeOf(h) : IsFree(h, u)
   BY <1>3, <1>4 DEF FreeOf, BlocksOf
<1>7. b + 1 \notin h.at BY <1>1, <1>3, NextAfter
<1>8. m.mem[n] = h.mem[n] BY <1>3, <1>4, <1>5 DEF SameOff
<1>9. Size(h, n) = Size(m, n) /\ ~IsFree(m, n) BY <1>4, <1>8 DEF Size, IsFree
<1>10. \A u \in Between(h, b, n) : u \notin UsedOf(h) BY <1>4 DEF UsedOf, FreeOf
<1>11. CASE ~PrevIsFree(h, b)
  <2>1. Next_phys(m, b) = n BY <1>3, <1>4, <1>5 DEF Next_phys
  <2>2. BinOf(Size(m, b)) \in Bins
    <3>1. n - b - 1 \in Nat /\ n - b - 1 <= Top - Start BY <1>3, <1>4, UnitsBound, HeapAssumption
    <3>. QED BY <1>5, <3>1, BinInBins
  <2>. DEFINE F == FreeOf(h) \ Between(h, b, n)
              g == Insert(m, b)
  <2>3. F \in SUBSET Units /\ b \notin F /\ b + 1 \notin F BY <1>6, <1>7
  <2>4. Size(m, b) >= 1 BY <1>3, <1>4, <1>5
  <2>. HIDE DEF F, g
  <2>5. /\ g \in Heaps /\ g.at = m.at /\ SameOff(m, g, {b, b + 1, n})
        /\ Size(g, b) = Size(m, b) /\ IsFree(g, b) /\ (PrevIsFree(g, b) <=> PrevIsFree(m, b)) /\ g.mem[b + 1] = Junk
        /\ Size(g, n) = Size(m, n) /\ (IsFree(g, n) <=> IsFree(m, n)) /\ PrevIsFree(g, n) /\ g.mem[n].prev = Size(m, b)
        /\ ListsHold(g, F \cup {b})
    <3>1. ListsHold(m, F) BY <1>5 DEF F
    <3>. QED BY <1>3, <1>4, <1>5, <2>1, <2>2, <2>3, <2>4, <3>1, InsertIs DEF g
  <2>6. CoalesceOK(h, b, n) BY <1>3, <1>4, <1>11 DEF CoalesceOK
  <2>7. SameOff(h, g, {b, b + 1, n} \cup Between(h, b, n)) BY <1>5, <2>5 DEF SameOff
  <2>8. Coalesces(h, g, b, n) BY <1>4, <1>5, <1>9, <1>11, <2>5, <2>7 DEF Coalesces
  <2>9. \A d \in Between(h, b, n) : g.mem[d] = h.mem[d] /\ IsFree(h, d)
    <3>1. \A d \in Between(h, b, n) : d \in Units /\ d # b /\ d # b + 1 /\ d # n BY <1>3, <1>4, <1>7
    <3>. QED BY <1>4, <1>5, <2>5, <3>1 DEF SameOff
  <2>10. /\ Sound(g, X) /\ UsedOf(g) = UsedOf(h) \ (Between(h, b, n) \cup {b}) /\ AllKept(h, g, UsedOf(g))
         /\ g.epilogue = h.epilogue
     BY <2>5, <2>6, <2>8, <2>9, CoalescedSound DEF F
  <2>11. Release(h, b) = g BY <1>2, <1>5, <1>11 DEF Release, MergeDown, g
  <2>12. UsedOf(g) = UsedOf(h) \ {b} BY <1>10, <2>10
  <2>. QED BY <2>10, <2>11, <2>12
<1>12. CASE PrevIsFree(h, b)
  <2>1. PICK p \in FreeOf(h) : p = Prev_phys(h, b) /\ Next_phys(h, p) = b /\ h.mem[b].prev = Size(h, p)
     BY <1>1, <1>3, <1>12, FreeBelow
  <2>2. /\ p \in BlocksOf(h) /\ p \in Units /\ p + 1 \in Units /\ p \in Int /\ p \in h.at /\ Size(h, p) \in Nat /\ Size(h, p) >= 1
        /\ b = p + 1 + Size(h, p) /\ Size(h, p) <= Top - Start /\ IsFree(h, p) /\ ~PrevIsFree(h, p) /\ p + 1 \notin h.at
    <3>1. p \in BlocksOf(h) BY DEF FreeOf
    <3>2. IsFree(h, p) BY DEF FreeOf
    <3>. QED BY <1>1, <2>1, <3>1, <3>2, TilesAre, KindsAre, NextAfter, UnitsBound
  <2>3. Prev_phys(m, b) = p BY <1>5, <2>1 DEF Prev_phys
  <2>4. PICK h1 \in Heaps : h1 = Unlink(m, p) /\ SameBut(m, h1) /\ ListsHold(h1, (FreeOf(h) \ Between(h, b, n)) \ {p})
    <3>1. m.mem[p] = h.mem[p] BY <1>5, <2>2 DEF SameOff
    <3>2. BinOf(Size(m, p)) \in Bins BY <2>2, <3>1, BinInBins DEF Size
    <3>3. p \in FreeOf(h) \ Between(h, b, n) BY <1>3, <1>4, <2>1, <2>2
    <3>4. (FreeOf(h) \ Between(h, b, n)) \in SUBSET Units BY <1>6
    <3>. QED BY <1>5, <3>2, <3>3, <3>4, UnlinkIs
  <2>5. PICK h2 \in Heaps :
             /\ h2 = Taken(h1, p) /\ SameLists(h1, h2) /\ SameOff(h1, h2, {p}) /\ h2.at = h1.at
             /\ Size(h2, p) = Size(h1, p) /\ ~IsFree(h2, p) /\ (PrevIsFree(h2, p) <=> PrevIsFree(h1, p))
     BY <2>2, TakenIs
  <2>6. PICK h3 \in Heaps :
             /\ h3 = Joined(h2, p, b) /\ SameLists(h2, h3) /\ SameOff(h2, h3, {p}) /\ h3.at = h2.at \ {b}
             /\ Size(h3, p) = Size(h2, p) + 1 + Size(h2, b) /\ (PrevIsFree(h3, p) <=> PrevIsFree(h2, p))
    <3>. DEFINE f == Joined(h2, p, b)
    <3>1. /\ f \in Heaps /\ SameLists(h2, f) /\ SameOff(h2, f, {p}) /\ f.at = h2.at \ {b}
          /\ Size(f, p) = Size(h2, p) + 1 + Size(h2, b)
          /\ (IsFree(f, p) <=> IsFree(h2, p)) /\ (PrevIsFree(f, p) <=> PrevIsFree(h2, p)) /\ f.mem[p].prev = h2.mem[p].prev
      <4>1. p \in Units /\ b \in Units BY <1>3, <2>2
      <4>. QED BY <4>1, JoinedIs
    <3>. HIDE DEF f
    <3>. QED BY <3>1 DEF f
  <2>. DEFINE F == (FreeOf(h) \ Between(h, b, n)) \ {p}
              g == Insert(h3, p)
  <2>7. /\ SameOff(h, h3, {p, b}) /\ h3.at = (h.at \ Between(h, b, n)) \ {b} /\ Size(h3, p) = n - p - 1 /\ ~PrevIsFree(h3, p)
        /\ h3.mem[b] = m.mem[b] /\ h3.mem[n] = h.mem[n]
    <3>1. h1.mem[p] = h.mem[p] /\ h1.mem[b] = m.mem[b] /\ b # p BY <1>3, <1>5, <2>2, <2>4 DEF SameOff, SameBut
    <3>2. h2.mem[b] = m.mem[b] BY <1>3, <2>5, <3>1 DEF SameOff
    <3>3. Size(h2, b) = n - b - 1 BY <1>5, <3>2 DEF Size
    <3>4. Size(h2, p) = Size(h, p) /\ (PrevIsFree(h1, p) <=> PrevIsFree(h, p)) BY <2>5, <3>1 DEF Size, PrevIsFree
    <3>5. Size(h3, p) = n - p - 1 BY <1>3, <1>4, <2>2, <2>6, <3>3, <3>4
    <3>6. SameOff(h, h3, {p, b}) /\ h3.at = (h.at \ Between(h, b, n)) \ {b}
       BY <1>5, <2>4, <2>5, <2>6 DEF SameOff, SameBut
    <3>7. h3.mem[b] = m.mem[b] BY <1>3, <2>2, <2>6, <3>1, <3>2 DEF SameOff
    <3>8. h3.mem[n] = h.mem[n] BY <1>3, <1>4, <2>2, <3>6 DEF SameOff
    <3>. QED BY <2>2, <2>5, <2>6, <3>4, <3>5, <3>6, <3>7, <3>8
  <2>8. ListsHold(h3, F)
    <3>1. \A u \in F : u \in Units /\ u # p BY <1>6
    <3>2. \A u \in F : Size(h2, u) = Size(h1, u) /\ Size(h3, u) = Size(h2, u) BY <2>5, <2>6, <3>1 DEF SameOff, Size
    <3>. HIDE DEF F
    <3>3. ListsHold(h2, F) BY <2>4, <2>5, <3>2, ListsFrame DEF F
    <3>. QED BY <2>6, <3>2, <3>3, ListsFrame
  <2>9. F \in SUBSET Units /\ p \notin F /\ p + 1 \notin F BY <1>6, <2>2
  <2>10. BinOf(Size(h3, p)) \in Bins /\ Size(h3, p) >= 1 /\ Next_phys(h3, p) = n
    <3>1. n - p - 1 \in Nat /\ n - p - 1 <= Top - Start /\ n - p - 1 >= 1 BY <1>3, <1>4, <2>2, UnitsBound, HeapAssumption
    <3>. QED BY <1>4, <2>2, <2>7, <3>1, BinInBins DEF Next_phys
  <2>. HIDE DEF F, g
  <2>11. /\ g \in Heaps /\ g.at = h3.at /\ SameOff(h3, g, {p, p + 1, n})
         /\ Size(g, p) = Size(h3, p) /\ IsFree(g, p) /\ (PrevIsFree(g, p) <=> PrevIsFree(h3, p)) /\ g.mem[p + 1] = Junk
         /\ Size(g, n) = Size(h3, n) /\ (IsFree(g, n) <=> IsFree(h3, n)) /\ PrevIsFree(g, n) /\ g.mem[n].prev = Size(h3, p)
         /\ ListsHold(g, F \cup {p})
     BY <1>4, <2>2, <2>8, <2>9, <2>10, InsertIs DEF g
  <2>12. Between(h, p, n) = Between(h, b, n) \cup {b}
    <3>1. \A u \in h.at : u <= p \/ u >= b BY <1>1, <2>1, <2>2, Apart
    <3>. QED BY <1>3, <1>4, <2>2, <3>1 DEF Between
  <2>13. CoalesceOK(h, p, n) BY <1>3, <1>4, <2>2 DEF CoalesceOK
  <2>14. SameOff(h, g, {p, p + 1, n} \cup Between(h, p, n)) BY <2>7, <2>11, <2>12 DEF SameOff
  <2>15. Coalesces(h, g, p, n)
    <3>1. Size(h3, n) = Size(h, n) /\ ~IsFree(h3, n) BY <1>4, <2>7 DEF Size, IsFree
    <3>2. g.at = h.at \ Between(h, p, n) BY <2>7, <2>11, <2>12
    <3>. QED BY <2>7, <2>11, <2>14, <3>1, <3>2 DEF Coalesces
  <2>16. g.mem[b] = m.mem[b]
    <3>1. b # p /\ b # p + 1 /\ b # n BY <1>3, <1>4, <2>2
    <3>. QED BY <1>3, <2>7, <2>11, <3>1 DEF SameOff
  <2>17. ~IsFree(g, b) /\ ~Deceives(g, X, b)
    <3>1. ~IsFree(g, b) /\ PrevIsFree(g, b) /\ g.mem[b].prev = Size(h, p) BY <1>5, <1>12, <2>1, <2>16 DEF IsFree, PrevIsFree
    <3>2. Prev_phys(g, b) = p BY <2>1, <3>1 DEF Prev_phys
    <3>3. Size(g, p) # Size(h, p) BY <1>3, <1>4, <2>2, <2>7, <2>11
    <3>. QED BY <3>1, <3>2, <3>3 DEF Deceives
  <2>18. \A d \in Between(h, p, n) : (g.mem[d] = h.mem[d] /\ IsFree(h, d)) \/ (~IsFree(g, d) /\ ~Deceives(g, X, d))
    <3>1. \A d \in Between(h, b, n) : d \in Units /\ d # p /\ d # p + 1 /\ d # n /\ d # b BY <1>3, <1>4, <2>2
    <3>2. \A d \in Between(h, b, n) : g.mem[d] = h.mem[d] /\ IsFree(h, d) BY <1>4, <2>7, <2>11, <3>1 DEF SameOff
    <3>. QED BY <2>12, <2>17, <3>2
  <2>19. F \cup {p} = (FreeOf(h) \ Between(h, p, n)) \cup {p} BY <1>6, <2>12 DEF F
  <2>20. /\ Sound(g, X) /\ UsedOf(g) = UsedOf(h) \ (Between(h, p, n) \cup {p}) /\ AllKept(h, g, UsedOf(g))
         /\ g.epilogue = h.epilogue
     BY <2>11, <2>13, <2>15, <2>18, <2>19, CoalescedSound
  <2>21. Release(h, b) = g
    <3>1. PrevIsFree(m, b) BY <1>5, <1>12
    <3>. QED BY <1>2, <2>3, <2>4, <2>5, <2>6, <3>1 DEF Release, MergeDown, InsertBelow, g
  <2>22. UsedOf(g) = UsedOf(h) \ {b}
    <3>1. p \notin UsedOf(h) BY <2>1 DEF UsedOf
    <3>. QED BY <1>10, <2>12, <2>20, <3>1
  <2>. QED BY <2>20, <2>21, <2>22
<1>. QED BY <1>11, <1>12

-----------------------------------------------------------------------------
(* A block in use is made of what lies from x to n, which may be a new top of the heap. *)

Fills(h, g, x, n) ==
    /\ g.first = h.first /\ g.epilogue = (IF n \in h.at THEN h.epilogue ELSE n)
    /\ g.at = (h.at \ Between(h, x, n)) \cup {n} /\ \A u \in Units \ {x, n} : g.mem[u] = h.mem[u]
    /\ Size(g, x) = n - x - 1 /\ ~IsFree(g, x) /\ (PrevIsFree(g, x) <=> PrevIsFree(h, x)) /\ g.mem[x].prev = h.mem[x].prev
    /\ ~IsFree(g, n) /\ ~PrevIsFree(g, n) /\ Size(g, n) = IF n \in h.at THEN Size(h, n) ELSE 0
FillOK(h, x, n) ==
    /\ x \in h.at /\ n \in Units /\ x + 2 <= n /\ (n \in h.at \/ h.epilogue < n)
    /\ n \in h.at => ~IsFree(h, n)
    /\ \A d \in Between(h, x, n) : IsFree(h, d) \/ d = h.epilogue

LEMMA FilledTiles == ASSUME NEW h \in Heaps, NEW g \in Heaps, NEW x, NEW n, Tiled(h), Truthful(h), FillOK(h, x, n), Fills(h, g, x, n)
                     PROVE /\ Tiled(g) /\ Truthful(g)
                           /\ FreeOf(g) = FreeOf(h) \ (Between(h, x, n) \cup {x})
                           /\ UsedOf(g) = UsedOf(h) \cup {x}
<1>. DEFINE D == Between(h, x, n)
<1>1. h.first \in h.at /\ h.epilogue \in h.at /\ h.at \subseteq Units /\ h.at \subseteq Int /\ \A c \in h.at : h.first <= c /\ c <= h.epilogue
   BY TilesAre
<1>2. x \in h.at /\ x \in Int /\ n \in Units /\ n \in Int /\ x + 2 <= n /\ h.epilogue \in Int /\ h.first \in Int /\ h.first <= x /\ x <= h.epilogue
   BY <1>1, UnitsBound DEF FillOK
<1>3. h.epilogue < n \/ (n \in h.at /\ n <= h.epilogue) BY <1>1 DEF FillOK
<1>4. g.at = (h.at \ D) \cup {n} /\ x \in g.at /\ n \in g.at /\ (\A u \in D : u \in h.at /\ x < u /\ u < n) /\ g.first = h.first
   BY <1>2 DEF Fills, Between
<1>5. /\ n \in h.at => g.epilogue = h.epilogue /\ n <= h.epilogue
      /\ n \notin h.at => g.epilogue = n /\ h.epilogue < n /\ (h.epilogue = x \/ h.epilogue \in D)
   BY <1>1, <1>2, <1>3 DEF Fills, Between
<1>6. \A u \in g.at : u = x \/ u = n \/ (u \in h.at /\ g.mem[u] = h.mem[u] /\ (u < x \/ n < u))
   BY <1>1, <1>2, <1>4 DEF Fills, Between
<1>7. \A u \in h.at : u # x /\ u \in g.at => Size(g, u) = Size(h, u) /\ Next_phys(g, u) = Next_phys(h, u) /\ (IsFree(g, u) <=> IsFree(h, u))
   BY <1>6 DEF Fills, FillOK, Size, Next_phys, IsFree
<1>8. Next_phys(g, x) = n
  <2>1. Next_phys(g, x) = x + 1 + Size(g, x) BY DEF Next_phys
  <2>. QED BY <1>2, <2>1 DEF Fills
<1>9. ASSUME NEW b \in BlocksOf(g), b # x
      PROVE b \in BlocksOf(h) /\ b \in h.at /\ b \in g.at /\ b # g.epilogue /\ (b < x \/ (n <= b /\ n \in h.at))
  <2>1. b \in g.at /\ b # g.epilogue BY DEF BlocksOf
  <2>2. b = n => n \in h.at BY <1>5, <2>1
  <2>3. b \in h.at /\ (b < x \/ n <= b) BY <1>1, <1>2, <1>6, <1>9, <2>1, <2>2
  <2>4. n <= b => n \in h.at BY <1>1, <1>2, <1>3, <2>3
  <2>5. b # h.epilogue BY <1>2, <1>5, <2>1, <2>3, <2>4
  <2>. QED BY <2>1, <2>3, <2>4, <2>5 DEF BlocksOf
<1>10. ASSUME NEW b \in BlocksOf(h), b # x, b \notin D PROVE b \in BlocksOf(g)
  <2>1. b \in h.at /\ b # h.epilogue /\ b \in g.at BY <1>4, <1>10 DEF BlocksOf
  <2>2. b # g.epilogue BY <1>1, <1>3, <1>5, <2>1
  <2>. QED BY <2>1, <2>2 DEF BlocksOf
<1>11. x \in BlocksOf(g) BY <1>2, <1>4, <1>5 DEF BlocksOf
<1>12. ASSUME NEW b \in BlocksOf(g), b # x
       PROVE /\ Next_phys(g, b) = Next_phys(h, b) /\ Next_phys(h, b) \in g.at /\ Next_phys(h, b) \in h.at /\ Next_phys(h, b) # n
             /\ Size(g, b) = Size(h, b)
  <2>1. b \in BlocksOf(h) /\ b \in h.at /\ b \in g.at /\ (b < x \/ (n <= b /\ n \in h.at)) /\ b \in Int BY <1>1, <1>9, <1>12
  <2>2. Next_phys(h, b) \in h.at /\ b + 2 <= Next_phys(h, b) /\ Next_phys(h, b) \in Int BY <1>1, <2>1, TilesAre, NextAfter
  <2>3. x <= b \/ x >= Next_phys(h, b) BY <1>2, <2>1, Apart
  <2>4. Next_phys(h, b) \notin D /\ Next_phys(h, b) # n BY <1>2, <1>4, <2>1, <2>2, <2>3
  <2>. QED BY <1>4, <1>7, <1>12, <2>1, <2>2, <2>4
<1>13. Tiled(g)
  <2>1. h.first = Start /\ Size(h, h.epilogue) = 0 BY DEF Tiled
  <2>2. g.first = Start /\ {g.first, g.epilogue} \subseteq g.at /\ g.at \subseteq g.first .. g.epilogue
    <3>1. h.first \in g.at BY <1>1, <1>2, <1>4
    <3>2. g.epilogue \in g.at /\ g.epilogue \in Int BY <1>1, <1>2, <1>4, <1>5
    <3>3. \A u \in g.at : u \in Int /\ h.first <= u /\ u <= g.epilogue BY <1>1, <1>2, <1>3, <1>5, <1>6
    <3>. QED BY <1>2, <1>4, <2>1, <3>1, <3>2, <3>3
  <2>3. Size(g, g.epilogue) = 0
    <3>1. CASE n \in h.at
      <4>1. g.epilogue = h.epilogue /\ g.epilogue # x BY <1>2, <1>5, <3>1
      <4>. QED BY <1>1, <1>7, <2>1, <2>2, <4>1
    <3>2. CASE n \notin h.at BY <1>5, <3>2 DEF Fills
    <3>. QED BY <3>1, <3>2
  <2>4. ASSUME NEW b \in BlocksOf(g)
        PROVE Size(g, b) >= 1 /\ Next_phys(g, b) \in g.at /\ \A c \in g.at : c <= b \/ c >= Next_phys(g, b)
    <3>1. CASE b = x
      <4>1. Size(g, x) >= 1 BY <1>2 DEF Fills
      <4>2. \A c \in g.at : c <= x \/ c >= n BY <1>1, <1>2, <1>6
      <4>. QED BY <1>4, <1>8, <3>1, <4>1, <4>2
    <3>2. CASE b # x
      <4>1. b \in BlocksOf(h) /\ b \in Int BY <1>1, <1>9, <3>2
      <4>2. Next_phys(g, b) = Next_phys(h, b) /\ Next_phys(h, b) \in g.at /\ Size(g, b) = Size(h, b) /\ Size(h, b) >= 1
            /\ Next_phys(h, b) <= h.epilogue /\ Next_phys(h, b) \in Int
         BY <1>1, <1>12, <3>2, <4>1, TilesAre, NextAfter
      <4>3. \A c \in h.at : c <= b \/ c >= Next_phys(h, b) BY <4>1, Apart
      <4>4. n <= b \/ n >= Next_phys(h, b) BY <1>2, <1>3, <4>2, <4>3
      <4>. QED BY <1>4, <4>2, <4>3, <4>4
    <3>. QED BY <3>1, <3>2
  <2>. QED BY <2>2, <2>3, <2>4 DEF Tiled
<1>14. Truthful(g)
  <2>1. ~IsFree(g, g.epilogue)
    <3>1. CASE n \in h.at
      <4>1. g.epilogue = h.epilogue /\ h.epilogue # x /\ g.epilogue \in g.at BY <1>2, <1>5, <1>13, <3>1 DEF Tiled
      <4>2. ~IsFree(h, h.epilogue) BY DEF Truthful
      <4>. QED BY <1>1, <1>7, <4>1, <4>2
    <3>2. CASE n \notin h.at BY <1>5, <3>2 DEF Fills
    <3>. QED BY <3>1, <3>2
  <2>2. ~PrevIsFree(g, g.first)
    <3>1. ~PrevIsFree(h, h.first) /\ h.first # n /\ h.first \in Units BY <1>1, <1>2 DEF Truthful
    <3>. QED BY <1>4, <3>1 DEF Fills, PrevIsFree
  <2>3. ASSUME NEW b \in BlocksOf(g) PROVE TellsOf(g, b)
    <3>1. CASE b = x BY <1>8, <3>1 DEF Fills, TellsOf
    <3>2. CASE b # x
      <4>. DEFINE e == Next_phys(h, b)
      <4>1. b \in BlocksOf(h) /\ b \in h.at /\ b \in g.at BY <1>9, <3>2
      <4>2. Next_phys(g, b) = e /\ e \in g.at /\ e \in h.at /\ e # n /\ Size(g, b) = Size(h, b) BY <1>12, <3>2
      <4>3. TellsOf(h, b) BY <4>1 DEF Truthful
      <4>4. IsFree(g, b) <=> IsFree(h, b) BY <1>7, <3>2, <4>1
      <4>5. (PrevIsFree(g, e) <=> PrevIsFree(h, e)) /\ g.mem[e].prev = h.mem[e].prev
        <5>1. e = x \/ g.mem[e] = h.mem[e] BY <1>1, <4>2 DEF Fills
        <5>. QED BY <5>1 DEF Fills, PrevIsFree
      <4>6. ~IsFree(h, e) => ~IsFree(g, e)
        <5>1. e = x \/ (IsFree(g, e) <=> IsFree(h, e)) BY <1>7, <4>2
        <5>. QED BY <5>1 DEF Fills
      <4>. HIDE DEF e
      <4>7. (PrevIsFree(h, e) <=> IsFree(h, b)) /\ (IsFree(h, b) => h.mem[e].prev = Size(h, b) /\ ~IsFree(h, e)) BY <4>3 DEF TellsOf, e
      <4>. QED BY <4>2, <4>4, <4>5, <4>6, <4>7 DEF TellsOf
    <3>. QED BY <3>1, <3>2
  <2>. QED BY <2>1, <2>2, <2>3 DEF Truthful
<1>15. \A b \in BlocksOf(g) : b # x => (IsFree(g, b) <=> IsFree(h, b)) BY <1>7, <1>9
<1>16. FreeOf(g) = FreeOf(h) \ (D \cup {x})
  <2>1. x \notin FreeOf(g) BY DEF FreeOf, Fills
  <2>2. \A b \in FreeOf(g) : b \in FreeOf(h) /\ b # x /\ b \notin D BY <1>2, <1>4, <1>9, <1>15, <2>1 DEF FreeOf
  <2>3. \A b \in FreeOf(h) : b # x /\ b \notin D => b \in FreeOf(g) BY <1>10, <1>15 DEF FreeOf
  <2>. QED BY <2>1, <2>2, <2>3
<1>17. UsedOf(g) = UsedOf(h) \cup {x}
  <2>1. x \in UsedOf(g) BY <1>11 DEF UsedOf, FreeOf, Fills
  <2>2. \A b \in UsedOf(g) : b # x => b \in UsedOf(h) BY <1>9, <1>15 DEF UsedOf, FreeOf
  <2>3. ASSUME NEW b \in UsedOf(h), b # x PROVE b \in UsedOf(g)
    <3>1. b \in BlocksOf(h) /\ ~IsFree(h, b) /\ b # h.epilogue BY DEF UsedOf, FreeOf, BlocksOf
    <3>2. b \notin D BY <3>1 DEF FillOK
    <3>. QED BY <1>10, <1>15, <2>3, <3>1, <3>2 DEF UsedOf, FreeOf
  <2>. QED BY <2>1, <2>2, <2>3
<1>. QED BY <1>13, <1>14, <1>16, <1>17

LEMMA FilledStale == ASSUME NEW h \in Heaps, NEW g \in Heaps, NEW x, NEW n, NEW X, Tiled(h), StaleOK(h, X),
                            FillOK(h, x, n), Fills(h, g, x, n)
                     PROVE StaleOK(g, X)
<1>1. x \in Units /\ n \in Units /\ x < n /\ x \in Int /\ n \in Int BY TilesAre, UnitsBound DEF FillOK
<1>2. g.at = (h.at \ Between(h, x, n)) \cup {n} /\ x \in g.at /\ n \in g.at BY <1>1 DEF Fills, FillOK, Between
<1>3. SUFFICES ASSUME NEW u \in Units \ (g.at \cup X), Deceives(g, X, u) PROVE FALSE BY DEF StaleOK
<1>4. u # x /\ u # n /\ g.mem[u] = h.mem[u] BY <1>2, <1>3 DEF Fills
<1>5. u \notin Between(h, x, n)
  <2>1. SUFFICES ASSUME u \in Between(h, x, n) PROVE FALSE OBVIOUS
  <2>2. IsFree(h, u) \/ u = h.epilogue BY <2>1 DEF FillOK
  <2>3. Size(h, h.epilogue) = 0 BY DEF Tiled
  <2>. QED BY <1>3, <1>4, <2>2, <2>3 DEF Deceives, IsFree, Size
<1>6. ~Deceives(h, X, u) BY <1>2, <1>3, <1>5 DEF StaleOK
<1>7. ~IsFree(h, u) /\ Size(h, u) >= 1 /\ PrevIsFree(h, u) BY <1>3, <1>4, <1>6 DEF Deceives, IsFree, PrevIsFree, Size
<1>8. PICK p \in Int : p = Prev_phys(h, u) /\ p = Prev_phys(g, u) /\ p = u - 1 - h.mem[u].prev /\ u \in Int /\ h.mem[u].prev \in Int
   BY <1>4, HeadIs, UnitsAre DEF Prev_phys
<1>9. h.mem[u].prev >= 1 /\ p >= Start /\ p \notin X /\ IsFree(g, p) /\ Size(g, p) = h.mem[u].prev
   BY <1>3, <1>4, <1>7, <1>8 DEF Deceives, PrevIsFree
<1>10. p \in Units
  <2>1. p \in Nat /\ p <= Top BY <1>8, <1>9, HeapAssumption, UnitsBound
  <2>. QED BY <1>9, <2>1, UnitsAre
<1>11. p # x /\ p # n BY <1>9 DEF Fills
<1>12. g.mem[p] = h.mem[p] BY <1>10, <1>11 DEF Fills
<1>. QED BY <1>6, <1>7, <1>8, <1>9, <1>12 DEF Deceives, IsFree, Size

LEMMA FilledKept == ASSUME NEW h \in Heaps, NEW g \in Heaps, NEW x, NEW n, Tiled(h), FillOK(h, x, n), Fills(h, g, x, n),
                           UsedOf(g) = UsedOf(h) \cup {x}
                    PROVE /\ AllKept(h, g, UsedOf(h) \ {x})
                          /\ x \in UsedOf(h) => \A u \in Interior(h, x) : g.mem[u] = h.mem[u]
<1>1. h.at \subseteq Units /\ h.at \subseteq Int /\ x \in h.at /\ n \in Units /\ x \in Int /\ n \in Int /\ x + 2 <= n /\ h.epilogue \in Int
   BY TilesAre, UnitsBound DEF FillOK
<1>2. ASSUME NEW c \in UsedOf(h), NEW u \in Interior(h, c) PROVE g.mem[u] = h.mem[u]
  <2>1. c \in BlocksOf(h) /\ c \in h.at BY DEF UsedOf, BlocksOf
  <2>2. /\ c \in Int /\ Size(h, c) \in Nat /\ Next_phys(h, c) = c + 1 + Size(h, c) /\ Next_phys(h, c) \in Units /\ c \in Units
        /\ Next_phys(h, c) \in Int /\ Next_phys(h, c) <= h.epilogue
     BY <1>1, <2>1, TilesAre, NextAfter
  <2>3. u \in Int /\ c < u /\ u < Next_phys(h, c) BY <2>2 DEF Interior
  <2>4. u \in Units BY <2>2, <2>3, c <= u, u <= Next_phys(h, c), UnitsIn
  <2>5. u # x BY <1>1, <2>1, <2>2, <2>3, Apart
  <2>6. u # n
    <3>1. CASE n \in h.at BY <1>1, <2>1, <2>2, <2>3, <3>1, Apart
    <3>2. CASE n \notin h.at BY <1>1, <2>2, <2>3, <3>2 DEF FillOK
    <3>. QED BY <3>1, <3>2
  <2>. QED BY <2>4, <2>5, <2>6 DEF Fills
<1>3. ASSUME NEW c \in UsedOf(h), c # x PROVE Size(g, c) = Size(h, c)
  <2>1. c \in h.at BY DEF UsedOf, BlocksOf
  <2>2. c = n \/ g.mem[c] = h.mem[c] BY <1>1, <1>3, <2>1 DEF Fills
  <2>. QED BY <2>1, <2>2 DEF Fills, Size
<1>. QED BY <1>2, <1>3 DEF AllKept, Kept

LEMMA FilledSound == ASSUME NEW h, NEW g \in Heaps, NEW x, NEW n, NEW X, Sound(h, X), FillOK(h, x, n), Fills(h, g, x, n),
                            ListsHold(g, FreeOf(h) \ (Between(h, x, n) \cup {x}))
                     PROVE /\ Sound(g, X) /\ UsedOf(g) = UsedOf(h) \cup {x} /\ AllKept(h, g, UsedOf(h) \ {x})
                           /\ x \in UsedOf(h) => \A u \in Interior(h, x) : g.mem[u] = h.mem[u]
<1>1. h \in Heaps /\ Tiled(h) /\ Truthful(h) /\ StaleOK(h, X) BY DEF Sound
<1>2. Tiled(g) /\ Truthful(g) /\ FreeOf(g) = FreeOf(h) \ (Between(h, x, n) \cup {x}) /\ UsedOf(g) = UsedOf(h) \cup {x}
   BY <1>1, FilledTiles
<1>3. StaleOK(g, X) BY <1>1, FilledStale
<1>4. AllKept(h, g, UsedOf(h) \ {x}) /\ (x \in UsedOf(h) => \A u \in Interior(h, x) : g.mem[u] = h.mem[u]) BY <1>1, <1>2, FilledKept
<1>5. FreeListed(g) BY <1>2, ListedSame
<1>. QED BY <1>2, <1>3, <1>4, <1>5 DEF Sound

\* Where a free block lies
LEMMA FreeIs == ASSUME NEW h, NEW X, Sound(h, X), NEW b \in FreeOf(h)
                PROVE \E n \in h.at : /\ n = Next_phys(h, b) /\ n = b + 1 + Size(h, b) /\ b + 2 <= n /\ Between(h, b, n) = {}
                                      /\ b \in h.at /\ b \in Units /\ b \in Int /\ n \in Units /\ n \in Int /\ IsFree(h, b) /\ ~IsFree(h, n)
                                      /\ b \in BlocksOf(h) /\ b \notin UsedOf(h) /\ Size(h, b) \in Nat /\ BinOf(Size(h, b)) \in Bins
                                      /\ FreeOf(h) \in SUBSET Units
<1>1. h \in Heaps /\ Tiled(h) /\ Truthful(h) BY DEF Sound
<1>2. b \in BlocksOf(h) /\ IsFree(h, b) /\ b \notin UsedOf(h) BY DEF FreeOf, UsedOf
<1>3. PICK n \in h.at : n = Next_phys(h, b) /\ n = b + 1 + Size(h, b) /\ b \in Units /\ b \in h.at /\ Size(h, b) \in Nat /\ Size(h, b) <= Top - Start
   BY <1>1, <1>2, TilesAre
<1>4. h.at \subseteq Units /\ h.at \subseteq Int BY <1>1, TilesAre
<1>5. b + 2 <= n BY <1>1, <1>2, <1>3, NextAfter
<1>6. Between(h, b, n) = {}
  <2>1. \A u \in h.at : u <= b \/ u >= n BY <1>1, <1>2, <1>3, Apart
  <2>. QED BY <1>3, <1>4, <2>1 DEF Between
<1>7. ~IsFree(h, n) BY <1>1, <1>2, <1>3, KindsAre
<1>8. BinOf(Size(h, b)) \in Bins BY <1>3, BinInBins
<1>9. FreeOf(h) \in SUBSET Units BY <1>4 DEF FreeOf, BlocksOf
<1>. QED BY <1>2, <1>3, <1>4, <1>5, <1>6, <1>7, <1>8, <1>9

\* A free block is taken.
LEMMA UsedIs == ASSUME NEW h, NEW X, Sound(h, X), NEW b \in FreeOf(h)
                PROVE LET g == Used(h, b)
                      IN  /\ Sound(g, X) /\ UsedOf(g) = UsedOf(h) \cup {b} /\ AllKept(h, g, UsedOf(h)) /\ Size(g, b) = Size(h, b)
                          /\ b \notin UsedOf(h)
<1>1. h \in Heaps /\ Tiled(h) /\ Truthful(h) /\ FreeListed(h) BY DEF Sound
<1>2. PICK n \in h.at : /\ n = Next_phys(h, b) /\ n = b + 1 + Size(h, b) /\ b + 2 <= n /\ Between(h, b, n) = {}
                        /\ b \in h.at /\ b \in Units /\ b \in Int /\ n \in Units /\ n \in Int /\ IsFree(h, b) /\ ~IsFree(h, n)
                        /\ b \in BlocksOf(h) /\ b \notin UsedOf(h) /\ Size(h, b) \in Nat /\ BinOf(Size(h, b)) \in Bins
                        /\ FreeOf(h) \in SUBSET Units
   BY FreeIs
<1>3. PICK h1 \in Heaps : h1 = Unlink(h, b) /\ SameBut(h, h1) /\ ListsHold(h1, FreeOf(h) \ {b}) BY <1>1, <1>2, UnlinkIs, ListedSame
<1>4. PICK h2 \in Heaps :
           /\ h2 = Taken(h1, b) /\ SameLists(h1, h2) /\ SameOff(h1, h2, {b}) /\ h2.at = h1.at
           /\ Size(h2, b) = Size(h1, b) /\ ~IsFree(h2, b) /\ (PrevIsFree(h2, b) <=> PrevIsFree(h1, b)) /\ h2.mem[b].prev = h1.mem[b].prev
   BY <1>2, TakenIs
<1>5. PICK g \in Heaps :
           /\ g = Cleared(h2, n) /\ SameLists(h2, g) /\ SameOff(h2, g, {n}) /\ g.at = h2.at
           /\ Size(g, n) = Size(h2, n) /\ ~PrevIsFree(g, n) /\ (IsFree(g, n) <=> IsFree(h2, n)) /\ g.mem[n].prev = h2.mem[n].prev
   BY <1>2, ClearedIs
<1>6. g = Used(h, b) BY <1>2, <1>3, <1>4, <1>5 DEF Used
<1>7. g.mem[b] = h2.mem[b] /\ h2.mem[n] = h.mem[n] /\ h1.mem = h.mem BY <1>2, <1>3, <1>4, <1>5 DEF SameOff, SameBut
<1>8. Size(g, b) = n - b - 1 /\ ~IsFree(g, b) /\ (PrevIsFree(g, b) <=> PrevIsFree(h, b)) /\ g.mem[b].prev = h.mem[b].prev
   BY SMTT(30), <1>2, <1>4, <1>7 DEF Size, IsFree, PrevIsFree
<1>9. Size(g, n) = Size(h, n) /\ ~IsFree(g, n) /\ ~PrevIsFree(g, n) BY <1>2, <1>5, <1>7 DEF Size, IsFree
<1>10. Fills(h, g, b, n) BY <1>2, <1>3, <1>4, <1>5, <1>8, <1>9 DEF Fills, SameOff, SameBut
<1>11. FillOK(h, b, n) BY <1>2 DEF FillOK
<1>12. ListsHold(g, FreeOf(h) \ (Between(h, b, n) \cup {b}))
  <2>. DEFINE F == FreeOf(h) \ {b}
  <2>1. \A u \in F : Size(h2, u) = Size(h1, u) BY SMTT(30), <1>2, <1>4 DEF SameOff, Size
  <2>2. \A u \in F : Size(g, u) = Size(h2, u) BY <1>2, <1>5 DEF SameOff, Size
  <2>3. FreeOf(h) \ (Between(h, b, n) \cup {b}) = F BY <1>2
  <2>. HIDE DEF F
  <2>4. ListsHold(h1, F) BY <1>3 DEF F
  <2>5. ListsHold(h2, F) BY <1>4, <2>1, <2>4, ListsFrame
  <2>6. ListsHold(g, F) BY <1>5, <2>2, <2>5, ListsFrame
  <2>. QED BY <2>3, <2>6
<1>13. Sound(g, X) /\ UsedOf(g) = UsedOf(h) \cup {b} /\ AllKept(h, g, UsedOf(h) \ {b}) BY <1>10, <1>11, <1>12, FilledSound
<1>14. UsedOf(h) \ {b} = UsedOf(h) BY <1>2
<1>. QED BY <1>2, <1>6, <1>8, <1>13, <1>14

\* What a block holds is kept as it grows.
Grew(h, g, b) ==
    /\ UsedOf(g) = UsedOf(h) /\ AllKept(h, g, UsedOf(h) \ {b}) /\ Size(h, b) <= Size(g, b)
    /\ \A u \in Interior(h, b) : g.mem[u] = h.mem[u]

LEMMA GrownUpIs == ASSUME NEW h, NEW X, Sound(h, X), NEW b \in UsedOf(h), NEW c, c = Next_phys(h, b), IsFree(h, c)
                   PROVE LET g == Cleared(Swallow(h, b, c), Next_phys(h, c))
                         IN  Sound(g, X) /\ Grew(h, g, b) /\ Size(g, b) = Size(h, b) + 1 + Size(h, c)
<1>1. h \in Heaps /\ Tiled(h) /\ Truthful(h) /\ FreeListed(h) BY DEF Sound
<1>2. b \in BlocksOf(h) BY DEF UsedOf
<1>3. /\ b \in h.at /\ b \in Units /\ b \in Int /\ c \in h.at /\ c = b + 1 + Size(h, b) /\ Size(h, b) \in Nat /\ c \in Int /\ c < h.epilogue
      /\ h.at \subseteq Units /\ h.at \subseteq Int /\ ~IsFree(h, b)
  <2>1. c \in h.at /\ c = b + 1 + Size(h, b) BY <1>1, <1>2, TilesAre
  <2>2. c # h.epilogue BY <1>1 DEF Truthful
  <2>3. h.at \subseteq Int /\ h.epilogue \in h.at /\ c <= h.epilogue BY <1>1, <2>1, TilesAre
  <2>. QED BY <1>1, <1>2, <2>1, <2>2, <2>3, TilesAre, KindsAre
<1>4. c \in FreeOf(h) BY <1>3 DEF FreeOf, BlocksOf
<1>5. PICK n \in h.at : n = Next_phys(h, c) /\ n = c + 1 + Size(h, c) /\ n \in Units /\ n \in Int /\ ~IsFree(h, n) /\ c + 2 <= n
   BY <1>4, FreeIs
<1>6. PICK m : m = Swallow(h, b, c) /\ Merged(h, m, b, n) BY <1>1, <1>5, SwallowIs
<1>7. PICK g \in Heaps :
           /\ g = Cleared(m, n) /\ SameLists(m, g) /\ SameOff(m, g, {n}) /\ g.at = m.at
           /\ Size(g, n) = Size(m, n) /\ ~PrevIsFree(g, n) /\ (IsFree(g, n) <=> IsFree(m, n)) /\ g.mem[n].prev = m.mem[n].prev
   BY <1>5, <1>6, ClearedIs DEF Merged
<1>8. g.mem[b] = m.mem[b] /\ m.mem[n] = h.mem[n] BY SMTT(30), <1>3, <1>5, <1>6, <1>7 DEF Merged, SameOff
<1>9. Size(g, b) = n - b - 1 /\ ~IsFree(g, b) /\ (PrevIsFree(g, b) <=> PrevIsFree(h, b)) /\ g.mem[b].prev = h.mem[b].prev
   BY SMTT(30), <1>3, <1>6, <1>8 DEF Merged, Size, IsFree, PrevIsFree
<1>10. Size(g, n) = Size(h, n) /\ ~IsFree(g, n) /\ ~PrevIsFree(g, n) BY <1>5, <1>7, <1>8 DEF Size, IsFree
<1>11. Fills(h, g, b, n) BY <1>3, <1>5, <1>6, <1>7, <1>9, <1>10 DEF Fills, SameOff, Merged, Between
<1>12. FillOK(h, b, n) BY <1>3, <1>5, <1>6 DEF FillOK, Merged
<1>13. ListsHold(g, FreeOf(h) \ (Between(h, b, n) \cup {b}))
  <2>. DEFINE F == FreeOf(h) \ Between(h, b, n)
  <2>1. b \notin FreeOf(h) /\ n \notin FreeOf(h) /\ FreeOf(h) \subseteq Units BY <1>3, <1>5 DEF FreeOf, BlocksOf
  <2>2. \A u \in F : Size(g, u) = Size(m, u) BY <1>7, <2>1 DEF SameOff, Size
  <2>3. FreeOf(h) \ (Between(h, b, n) \cup {b}) = F BY <2>1
  <2>. HIDE DEF F
  <2>4. ListsHold(m, F) BY <1>6 DEF F, Merged
  <2>5. ListsHold(g, F) BY <1>7, <2>2, <2>4, ListsFrame
  <2>. QED BY <2>3, <2>5
<1>14. /\ Sound(g, X) /\ UsedOf(g) = UsedOf(h) \cup {b} /\ AllKept(h, g, UsedOf(h) \ {b}) /\ \A u \in Interior(h, b) : g.mem[u] = h.mem[u]
   BY <1>11, <1>12, <1>13, FilledSound
<1>15. Size(g, b) = Size(h, b) + 1 + Size(h, c) /\ Size(h, b) <= Size(g, b)
  <2>1. Size(h, c) \in Int BY <1>3, HeadIs, <1>1
  <2>. QED BY <1>3, <1>5, <1>9, <2>1
<1>16. UsedOf(h) \cup {b} = UsedOf(h) OBVIOUS
<1>. QED BY <1>5, <1>6, <1>7, <1>14, <1>15, <1>16 DEF Grew

\* The heap's top moves up, and the last block with it.
LEMMA MayMoveIs == ASSUME NEW h, Tiled(h), NEW to \in Int, limit \in 0 .. Top, MayMove(h, to) PROVE to \in Units
<1>1. h.first = Start BY DEF Tiled
<1>2. to <= Top /\ Start <= to /\ to \in Nat BY <1>1, HeapAssumption DEF MayMove
<1>. QED BY <1>2, UnitsAre

LEMMA TopIs == ASSUME NEW h, NEW X, Sound(h, X)
               PROVE /\ h \in Heaps /\ Tiled(h) /\ Truthful(h) /\ FreeListed(h) /\ h.at \subseteq Units /\ h.at \subseteq Int
                     /\ h.epilogue \in h.at /\ h.epilogue \in Units /\ h.epilogue \in Int /\ (\A c \in h.at : c <= h.epilogue)
                     /\ FreeOf(h) \in SUBSET Units /\ FreeOf(h) \subseteq h.at /\ h.epilogue \notin FreeOf(h) /\ ListsHold(h, FreeOf(h))
<1>1. h \in Heaps /\ Tiled(h) /\ Truthful(h) /\ FreeListed(h) BY DEF Sound
<1>2. /\ h.at \subseteq Units /\ h.at \subseteq Int /\ h.epilogue \in h.at /\ h.epilogue \in Units /\ h.epilogue \in Int
      /\ \A c \in h.at : c <= h.epilogue
   BY <1>1, TilesAre
<1>3. FreeOf(h) \in SUBSET Units /\ FreeOf(h) \subseteq h.at /\ h.epilogue \notin FreeOf(h) BY <1>2 DEF FreeOf, BlocksOf
<1>. QED BY <1>1, <1>2, <1>3, ListedSame

LEMMA ExtendIs == ASSUME NEW h, NEW X, Sound(h, X), NEW b \in FreeOf(h), Next_phys(h, b) = h.epilogue,
                         NEW size \in Int, size > Size(h, b), b + 1 + size \in Units
                  PROVE LET g == Extend(h, b, size)
                        IN  /\ Sound(g, X) /\ UsedOf(g) = UsedOf(h) \cup {b} /\ AllKept(h, g, UsedOf(h)) /\ Size(g, b) = size
                            /\ b \notin UsedOf(h)
<1>1. /\ h \in Heaps /\ Tiled(h) /\ Truthful(h) /\ FreeListed(h) /\ h.at \subseteq Units /\ h.at \subseteq Int
      /\ h.epilogue \in h.at /\ h.epilogue \in Units /\ h.epilogue \in Int /\ (\A c \in h.at : c <= h.epilogue)
      /\ FreeOf(h) \in SUBSET Units /\ ListsHold(h, FreeOf(h)) /\ h.epilogue \notin FreeOf(h)
   BY TopIs
<1>2. /\ h.epilogue = b + 1 + Size(h, b) /\ b + 2 <= h.epilogue /\ Between(h, b, h.epilogue) = {}
      /\ b \in h.at /\ b \in Units /\ b \in Int /\ b \notin UsedOf(h) /\ Size(h, b) \in Nat /\ BinOf(Size(h, b)) \in Bins
   BY FreeIs
<1>3. PICK to \in Units : to = b + 1 + size /\ to \in Int /\ h.epilogue < to BY <1>1, <1>2
<1>4. PICK h1 \in Heaps : h1 = Unlink(h, b) /\ SameBut(h, h1) /\ ListsHold(h1, FreeOf(h) \ {b}) BY <1>1, <1>2, UnlinkIs
<1>5. PICK h2 \in Heaps :
           /\ h2 = MoveTop(h1, to) /\ SameLists(h1, h2) /\ h2.first = h1.first /\ h2.epilogue = to
           /\ \A u \in Units \ {to} : h2.mem[u] = h1.mem[u]
           /\ h2.at = (h1.at \ {h1.epilogue}) \cup {to} /\ Size(h2, to) = 0 /\ ~IsFree(h2, to) /\ ~PrevIsFree(h2, to)
   BY MoveTopIs
<1>6. PICK h3 \in Heaps :
           /\ h3 = Taken(h2, b) /\ SameLists(h2, h3) /\ SameOff(h2, h3, {b}) /\ h3.at = h2.at
           /\ Size(h3, b) = Size(h2, b) /\ ~IsFree(h3, b) /\ (PrevIsFree(h3, b) <=> PrevIsFree(h2, b)) /\ h3.mem[b].prev = h2.mem[b].prev
   BY <1>2, TakenIs
<1>7. PICK g \in Heaps :
           /\ g = Sized(h3, b, size) /\ SameLists(h3, g) /\ SameOff(h3, g, {b}) /\ g.at = h3.at
           /\ Size(g, b) = size /\ (IsFree(g, b) <=> IsFree(h3, b)) /\ (PrevIsFree(g, b) <=> PrevIsFree(h3, b)) /\ g.mem[b].prev = h3.mem[b].prev
   BY SMTT(30), <1>2, SizedIs
<1>8. g = Extend(h, b, size) BY <1>3, <1>4, <1>5, <1>6, <1>7 DEF Extend
<1>9. h1.mem = h.mem /\ h2.mem[b] = h.mem[b] /\ g.mem[to] = h2.mem[to] BY <1>2, <1>3, <1>4, <1>5, <1>6, <1>7 DEF SameOff, SameBut
<1>10. Between(h, b, to) = {h.epilogue}
   BY <1>1, <1>2, <1>3 DEF Between
<1>11. Fills(h, g, b, to)
  <2>1. to \notin h.at BY <1>1, <1>3
  <2>2. g.at = (h.at \ {h.epilogue}) \cup {to} /\ g.first = h.first /\ g.epilogue = to
        /\ \A u \in Units \ {b, to} : g.mem[u] = h.mem[u]
     BY <1>4, <1>5, <1>6, <1>7 DEF SameBut, SameOff
  <2>3. Size(g, b) = to - b - 1 /\ ~IsFree(g, b) /\ (PrevIsFree(g, b) <=> PrevIsFree(h, b)) /\ g.mem[b].prev = h.mem[b].prev
     BY <1>2, <1>3, <1>6, <1>7, <1>9 DEF PrevIsFree
  <2>4. ~IsFree(g, to) /\ ~PrevIsFree(g, to) /\ Size(g, to) = 0 BY <1>5, <1>9 DEF IsFree, PrevIsFree, Size
  <2>. QED BY <1>10, <2>1, <2>2, <2>3, <2>4 DEF Fills
<1>12. FillOK(h, b, to) BY <1>1, <1>2, <1>3, <1>10 DEF FillOK
<1>13. ListsHold(g, FreeOf(h) \ (Between(h, b, to) \cup {b}))
  <2>. DEFINE F == FreeOf(h) \ {b}
  <2>1. FreeOf(h) \ (Between(h, b, to) \cup {b}) = F BY <1>1, <1>10
  <2>2. \A u \in F : u \in Units /\ u # to /\ u # b BY <1>1, <1>3 DEF FreeOf, BlocksOf
  <2>3. \A u \in F : Size(g, u) = Size(h1, u) BY <1>5, <1>6, <1>7, <2>2 DEF SameOff, Size
  <2>. HIDE DEF F
  <2>4. SameLists(h1, g) /\ ListsHold(h1, F) BY <1>4, <1>5, <1>6, <1>7 DEF SameLists, F
  <2>. QED BY <2>1, <2>3, <2>4, ListsFrame
<1>14. Sound(g, X) /\ UsedOf(g) = UsedOf(h) \cup {b} /\ AllKept(h, g, UsedOf(h) \ {b}) BY <1>11, <1>12, <1>13, FilledSound
<1>15. UsedOf(h) \ {b} = UsedOf(h) BY <1>2
<1>. QED BY <1>2, <1>7, <1>8, <1>14, <1>15

LEMMA NewLastIs == ASSUME NEW h, NEW X, Sound(h, X), NEW b, b = h.epilogue, NEW size \in Int, size >= 1, b + 1 + size \in Units
                   PROVE LET g == NewLast(h, b, size)
                         IN  /\ Sound(g, X) /\ UsedOf(g) = UsedOf(h) \cup {b} /\ AllKept(h, g, UsedOf(h)) /\ Size(g, b) = size
                             /\ b \notin UsedOf(h)
<1>1. /\ h \in Heaps /\ Tiled(h) /\ Truthful(h) /\ FreeListed(h) /\ h.at \subseteq Units /\ h.at \subseteq Int
      /\ b \in h.at /\ b \in Units /\ b \in Int /\ (\A c \in h.at : c <= b)
      /\ FreeOf(h) \in SUBSET Units /\ ListsHold(h, FreeOf(h)) /\ b \notin FreeOf(h)
   BY TopIs
<1>2. b \notin UsedOf(h) /\ ~IsFree(h, b) BY <1>1 DEF UsedOf, BlocksOf, Truthful
<1>3. PICK to \in Units : to = b + 1 + size /\ to \in Int /\ b + 2 <= to BY <1>1, UnitsBound
<1>4. PICK h1 \in Heaps :
           /\ h1 = MoveTop(h, to) /\ SameLists(h, h1) /\ h1.first = h.first /\ h1.epilogue = to
           /\ \A u \in Units \ {to} : h1.mem[u] = h.mem[u]
           /\ h1.at = (h.at \ {b}) \cup {to} /\ Size(h1, to) = 0 /\ ~IsFree(h1, to) /\ ~PrevIsFree(h1, to)
   BY <1>1, MoveTopIs
<1>5. PICK h2 \in Heaps :
           /\ h2 = Sized(h1, b, size) /\ SameLists(h1, h2) /\ SameOff(h1, h2, {b}) /\ h2.at = h1.at
           /\ Size(h2, b) = size /\ (IsFree(h2, b) <=> IsFree(h1, b)) /\ (PrevIsFree(h2, b) <=> PrevIsFree(h1, b)) /\ h2.mem[b].prev = h1.mem[b].prev
  <2>1. PICK e \in Units : e = b BY <1>1
  <2>2. PICK f \in Heaps :
             /\ f = Sized(h1, e, size) /\ SameLists(h1, f) /\ SameOff(h1, f, {e}) /\ f.at = h1.at
             /\ Size(f, e) = size /\ (IsFree(f, e) <=> IsFree(h1, e)) /\ (PrevIsFree(f, e) <=> PrevIsFree(h1, e)) /\ f.mem[e].prev = h1.mem[e].prev
     BY SizedIs
  <2>. QED BY <2>1, <2>2
<1>6. PICK g \in Heaps : g = [h2 EXCEPT !.at = @ \cup {b}] /\ g.mem = h2.mem /\ SameLists(h2, g) /\ g.first = h2.first /\ g.epilogue = h2.epilogue
                         /\ g.at = h2.at \cup {b}
  <2>1. [h2 EXCEPT !.at = @ \cup {b}] \in Heaps BY <1>1 DEF Heaps
  <2>. QED BY <2>1 DEF Heaps, SameLists
<1>7. g = NewLast(h, b, size) BY <1>3, <1>4, <1>5, <1>6 DEF NewLast
<1>8. h1.mem[b] = h.mem[b] /\ g.mem[to] = h1.mem[to] /\ g.mem[b] = h2.mem[b] BY <1>1, <1>3, <1>4, <1>5, <1>6 DEF SameOff
<1>9. Between(h, b, to) = {} BY <1>1 DEF Between
<1>10. Fills(h, g, b, to)
  <2>1. to \notin h.at BY <1>1, <1>3
  <2>2. g.at = h.at \cup {to} /\ g.first = h.first /\ g.epilogue = to /\ \A u \in Units \ {b, to} : g.mem[u] = h.mem[u]
     BY <1>1, <1>4, <1>5, <1>6 DEF SameOff
  <2>3. Size(g, b) = to - b - 1 /\ ~IsFree(g, b) /\ (PrevIsFree(g, b) <=> PrevIsFree(h, b)) /\ g.mem[b].prev = h.mem[b].prev
     BY <1>1, <1>2, <1>3, <1>5, <1>8 DEF PrevIsFree, IsFree, Size
  <2>4. ~IsFree(g, to) /\ ~PrevIsFree(g, to) /\ Size(g, to) = 0 BY <1>4, <1>8 DEF IsFree, PrevIsFree, Size
  <2>. QED BY <1>9, <2>1, <2>2, <2>3, <2>4 DEF Fills
<1>11. FillOK(h, b, to) BY <1>1, <1>3, <1>9 DEF FillOK
<1>12. ListsHold(g, FreeOf(h) \ (Between(h, b, to) \cup {b}))
  <2>. DEFINE F == FreeOf(h)
  <2>1. F \ (Between(h, b, to) \cup {b}) = F BY <1>1, <1>9
  <2>2. \A u \in F : u \in Units /\ u # to /\ u # b BY <1>1, <1>3 DEF FreeOf, BlocksOf
  <2>. HIDE DEF F
  <2>3. \A u \in F : Size(g, u) = Size(h, u) BY <1>4, <1>5, <1>6, <2>2 DEF SameOff, Size
  <2>4. SameLists(h, g) /\ ListsHold(h, F) BY <1>1, <1>4, <1>5, <1>6 DEF SameLists, F
  <2>5. ListsHold(g, F) BY <2>3, <2>4, ListsFrame
  <2>. QED BY <2>1, <2>5 DEF F
<1>13. Sound(g, X) /\ UsedOf(g) = UsedOf(h) \cup {b} /\ AllKept(h, g, UsedOf(h) \ {b}) BY ZenonT(60), <1>10, <1>11, <1>12, FilledSound
<1>14. UsedOf(h) \ {b} = UsedOf(h) BY <1>2
<1>. QED BY <1>2, <1>5, <1>7, <1>8, <1>13, <1>14 DEF Size

LEMMA PastTopIs == ASSUME NEW h, NEW X, Sound(h, X), NEW b \in UsedOf(h), NEW c, c = Next_phys(h, b), Above(h, c) = h.epilogue,
                          NEW size \in Int, size > Size(h, b), IsFree(h, c) => size > Size(h, b) + 1 + Size(h, c), b + 1 + size \in Units
                   PROVE LET g == PastTop(h, b, c, size).h
                         IN  Sound(g, X) /\ Grew(h, g, b) /\ Size(g, b) = size
<1>1. /\ h \in Heaps /\ Tiled(h) /\ Truthful(h) /\ FreeListed(h) /\ h.at \subseteq Units /\ h.at \subseteq Int
      /\ h.epilogue \in h.at /\ h.epilogue \in Units /\ h.epilogue \in Int /\ (\A u \in h.at : u <= h.epilogue)
      /\ FreeOf(h) \in SUBSET Units /\ FreeOf(h) \subseteq h.at /\ ListsHold(h, FreeOf(h)) /\ h.epilogue \notin FreeOf(h)
   BY TopIs
<1>2. b \in BlocksOf(h) BY DEF UsedOf
<1>3. /\ b \in h.at /\ b \in Units /\ b \in Int /\ c \in h.at /\ c \in Int /\ c \in Units /\ c = b + 1 + Size(h, b) /\ b + 2 <= c
      /\ Size(h, b) \in Nat /\ ~IsFree(h, b) /\ b # h.epilogue /\ b \notin FreeOf(h)
  <2>1. c \in h.at /\ c = b + 1 + Size(h, b) /\ b \in h.at /\ b \in Units /\ Size(h, b) \in Nat /\ b + 2 <= c BY <1>1, <1>2, TilesAre, NextAfter
  <2>2. ~IsFree(h, b) /\ b \notin FreeOf(h) /\ b # h.epilogue BY <1>1, <1>2, KindsAre DEF UsedOf, BlocksOf
  <2>. QED BY <1>1, <2>1, <2>2
<1>4. \A u \in h.at : u <= b \/ u >= c BY <1>1, <1>2, <1>3, Apart
<1>5. PICK h1 \in Heaps : /\ h1 = WithoutFree(h, c) /\ h1.mem = h.mem /\ h1.first = h.first /\ h1.epilogue = h.epilogue
                          /\ h1.at = h.at \ {u \in {c} : IsFree(h, c)} /\ ListsHold(h1, FreeOf(h) \ {c})
  <2>1. CASE IsFree(h, c)
    <3>1. c # h.epilogue BY <1>1, <2>1 DEF Truthful
    <3>2. c \in FreeOf(h) BY <1>3, <2>1, <3>1 DEF FreeOf, BlocksOf
    <3>3. BinOf(Size(h, c)) \in Bins BY <3>2, FreeIs
    <3>4. PICK f \in Heaps : f = Unlink(h, c) /\ SameBut(h, f) /\ ListsHold(f, FreeOf(h) \ {c}) BY <1>1, <3>2, <3>3, UnlinkIs
    <3>5. PICK e \in Heaps : /\ e = [f EXCEPT !.at = @ \ {c}] /\ e.mem = f.mem /\ SameLists(f, e) /\ e.first = f.first
                             /\ e.epilogue = f.epilogue /\ e.at = f.at \ {c}
      <4>1. [f EXCEPT !.at = @ \ {c}] \in Heaps BY DEF Heaps
      <4>. QED BY <4>1 DEF Heaps, SameLists
    <3>6. e = WithoutFree(h, c) BY <2>1, <3>4, <3>5 DEF WithoutFree
    <3>. DEFINE F == FreeOf(h) \ {c}
    <3>7. ListsHold(f, F) /\ \A u \in F : Size(e, u) = Size(f, u) BY <3>4, <3>5 DEF Size
    <3>. HIDE DEF F
    <3>8. ListsHold(e, F) BY <3>5, <3>7, ListsFrame
    <3>9. e.at = h.at \ {u \in {c} : IsFree(h, c)} BY <2>1, <3>4, <3>5 DEF SameBut
    <3>. QED BY <3>4, <3>5, <3>6, <3>8, <3>9 DEF SameBut, F
  <2>2. CASE ~IsFree(h, c)
    <3>1. WithoutFree(h, c) = h BY <2>2 DEF WithoutFree
    <3>2. c \notin FreeOf(h) BY <2>2 DEF FreeOf
    <3>3. FreeOf(h) \ {c} = FreeOf(h) BY <3>2
    <3>4. {u \in {c} : IsFree(h, c)} = {} BY <2>2
    <3>5. h.at = h.at \ {} OBVIOUS
    <3>. QED BY <1>1, <3>1, <3>3, <3>4, <3>5
  <2>. QED BY <2>1, <2>2
<1>6. PICK to \in Units : to = b + 1 + size /\ to \in Int /\ h.epilogue < to
  <2>1. CASE IsFree(h, c)
    <3>1. h.epilogue = Next_phys(h, c) /\ Next_phys(h, c) = c + 1 + Size(h, c) /\ Size(h, c) \in Int BY <1>1, <1>3, <2>1, HeadIs DEF Above
    <3>. QED BY <1>1, <1>3, <2>1, <3>1
  <2>2. CASE ~IsFree(h, c)
    <3>1. h.epilogue = c BY <2>2 DEF Above
    <3>. QED BY <1>1, <1>3, <3>1
  <2>. QED BY <2>1, <2>2
<1>7. Between(h, b, to) = {u \in {c} : IsFree(h, c)} \cup {h.epilogue}
  <2>1. \A u \in h.at : u > b => u = c \/ u = h.epilogue
    <3>1. CASE IsFree(h, c)
      <4>1. c # h.epilogue BY <1>1, <3>1 DEF Truthful
      <4>2. c \in BlocksOf(h) BY <1>3, <4>1 DEF BlocksOf
      <4>3. \A u \in h.at : u <= c \/ u >= h.epilogue BY <1>1, <3>1, <4>2, Apart DEF Above
      <4>. QED BY <1>1, <1>3, <1>4, <4>3
    <3>2. CASE ~IsFree(h, c)
      <4>1. h.epilogue = c BY <3>2 DEF Above
      <4>. QED BY <1>1, <1>3, <1>4, <4>1
    <3>. QED BY <3>1, <3>2
  <2>2. ~IsFree(h, c) => h.epilogue = c BY DEF Above
  <2>3. b < h.epilogue /\ h.epilogue < to /\ (b < c /\ c < to) BY <1>1, <1>3, <1>6
  <2>. QED BY <1>1, <1>3, <2>1, <2>2, <2>3 DEF Between
<1>8. PICK h2 \in Heaps :
           /\ h2 = MoveTop(h1, to) /\ SameLists(h1, h2) /\ h2.first = h1.first /\ h2.epilogue = to
           /\ \A u \in Units \ {to} : h2.mem[u] = h1.mem[u]
           /\ h2.at = (h1.at \ {h1.epilogue}) \cup {to} /\ Size(h2, to) = 0 /\ ~IsFree(h2, to) /\ ~PrevIsFree(h2, to)
   BY MoveTopIs
<1>9. PICK g \in Heaps :
           /\ g = Sized(h2, b, size) /\ SameLists(h2, g) /\ SameOff(h2, g, {b}) /\ g.at = h2.at
           /\ Size(g, b) = size /\ (IsFree(g, b) <=> IsFree(h2, b)) /\ (PrevIsFree(g, b) <=> PrevIsFree(h2, b)) /\ g.mem[b].prev = h2.mem[b].prev
   BY <1>3, SizedIs
<1>10. g = PastTop(h, b, c, size).h BY <1>5, <1>6, <1>8, <1>9 DEF PastTop, Found
<1>11. h2.mem[b] = h.mem[b] /\ g.mem[to] = h2.mem[to] BY <1>3, <1>5, <1>6, <1>8, <1>9 DEF SameOff
<1>12. Fills(h, g, b, to)
  <2>1. to \notin h.at BY <1>1, <1>6
  <2>2. g.at = (h.at \ Between(h, b, to)) \cup {to} /\ g.first = h.first /\ g.epilogue = to /\ \A u \in Units \ {b, to} : g.mem[u] = h.mem[u]
     BY <1>5, <1>7, <1>8, <1>9 DEF SameOff
  <2>3. Size(g, b) = to - b - 1 /\ ~IsFree(g, b) /\ (PrevIsFree(g, b) <=> PrevIsFree(h, b)) /\ g.mem[b].prev = h.mem[b].prev
     BY <1>3, <1>6, <1>9, <1>11 DEF PrevIsFree, IsFree
  <2>4. ~IsFree(g, to) /\ ~PrevIsFree(g, to) /\ Size(g, to) = 0 BY <1>8, <1>11 DEF IsFree, PrevIsFree, Size
  <2>. QED BY <2>1, <2>2, <2>3, <2>4 DEF Fills
<1>13. FillOK(h, b, to)
  <2>1. \A u \in Between(h, b, to) : IsFree(h, u) \/ u = h.epilogue BY <1>7
  <2>. QED BY <1>1, <1>3, <1>6, <2>1 DEF FillOK
<1>14. ListsHold(g, FreeOf(h) \ (Between(h, b, to) \cup {b}))
  <2>. DEFINE F == FreeOf(h) \ {c}
  <2>1. FreeOf(h) \ (Between(h, b, to) \cup {b}) = F
    <3>1. ~IsFree(h, c) => c \notin FreeOf(h) BY DEF FreeOf
    <3>. QED BY <1>1, <1>3, <1>7, <3>1
  <2>2. \A u \in F : u \in Units /\ u # to /\ u # b BY <1>1, <1>3, <1>6
  <2>3. \A u \in F : Size(g, u) = Size(h1, u) BY <1>8, <1>9, <2>2 DEF SameOff, Size
  <2>. HIDE DEF F
  <2>4. SameLists(h1, g) /\ ListsHold(h1, F) BY <1>5, <1>8, <1>9 DEF SameLists, F
  <2>. QED BY <2>1, <2>3, <2>4, ListsFrame
<1>15. /\ Sound(g, X) /\ UsedOf(g) = UsedOf(h) \cup {b} /\ AllKept(h, g, UsedOf(h) \ {b}) /\ \A u \in Interior(h, b) : g.mem[u] = h.mem[u]
   BY <1>12, <1>13, <1>14, FilledSound
<1>16. UsedOf(h) \cup {b} = UsedOf(h) /\ Size(h, b) <= Size(g, b) BY <1>3, <1>9
<1>. QED BY <1>9, <1>10, <1>15, <1>16 DEF Grew

-----------------------------------------------------------------------------
(* A block in use is cut in two. *)

\* The piece that begins at c
Cuts(h, g, b, c) ==
    /\ SameLists(h, g) /\ g.first = h.first /\ g.epilogue = h.epilogue /\ g.at = h.at \cup {c}
    /\ \A u \in Units \ {b, c} : g.mem[u] = h.mem[u]
    /\ Size(g, b) = c - b - 1 /\ (IsFree(g, b) <=> IsFree(h, b)) /\ (PrevIsFree(g, b) <=> PrevIsFree(h, b)) /\ g.mem[b].prev = h.mem[b].prev
    /\ Size(g, c) = Next_phys(h, b) - c - 1 /\ ~IsFree(g, c) /\ ~PrevIsFree(g, c)

LEMMA CutsTiles == ASSUME NEW h \in Heaps, NEW g \in Heaps, NEW b \in UsedOf(h), NEW c \in Int, Tiled(h), Truthful(h),
                          b + 2 <= c, c + 2 <= Next_phys(h, b), Cuts(h, g, b, c)
                   PROVE /\ Tiled(g) /\ Truthful(g) /\ FreeOf(g) = FreeOf(h) /\ UsedOf(g) = UsedOf(h) \cup {c}
                         /\ c \in Units /\ c \notin h.at
<1>1. /\ h.first \in h.at /\ h.epilogue \in h.at /\ h.at \subseteq Units /\ h.at \subseteq Int
      /\ \A d \in h.at : h.first <= d /\ d <= h.epilogue
   BY TilesAre
<1>2. b \in BlocksOf(h) BY DEF UsedOf
<1>3. PICK n \in h.at : /\ n = Next_phys(h, b) /\ n = b + 1 + Size(h, b) /\ b \in h.at /\ b \in Units /\ b \in Int /\ b # h.epilogue
                        /\ n \in Units /\ n \in Int /\ ~IsFree(h, b) /\ ~PrevIsFree(h, n) /\ b < n /\ n <= h.epilogue /\ Size(h, b) \in Nat
  <2>1. Next_phys(h, b) \in h.at /\ Next_phys(h, b) = b + 1 + Size(h, b) /\ b \in h.at /\ b \in Units /\ Size(h, b) \in Nat BY <1>2, TilesAre
  <2>2. ~IsFree(h, b) /\ ~PrevIsFree(h, Next_phys(h, b)) BY <1>2, KindsAre
  <2>. QED BY <1>1, <1>2, <2>1, <2>2 DEF BlocksOf
<1>4. c \in Units BY <1>3, UnitsIn
<1>5. \A u \in h.at : u <= b \/ u >= n BY <1>2, <1>3, Apart
<1>6. c \notin h.at /\ c # b /\ c # n /\ b # n BY <1>1, <1>3, <1>5
<1>7. /\ g.first = h.first /\ g.epilogue = h.epilogue /\ g.at = h.at \cup {c} /\ (\A u \in Units \ {b, c} : g.mem[u] = h.mem[u])
      /\ Size(g, b) = c - b - 1 /\ ~IsFree(g, b) /\ (PrevIsFree(g, b) <=> PrevIsFree(h, b)) /\ g.mem[b].prev = h.mem[b].prev
      /\ Size(g, c) = n - c - 1 /\ ~IsFree(g, c) /\ ~PrevIsFree(g, c)
   BY <1>3 DEF Cuts
<1>8. Next_phys(g, b) = c /\ Next_phys(g, c) = n BY <1>3, <1>4, <1>7, HeadIs
<1>9. BlocksOf(g) = BlocksOf(h) \cup {c} BY <1>1, <1>6, <1>7 DEF BlocksOf
<1>10. ASSUME NEW d \in BlocksOf(h), d # b
       PROVE /\ d \in h.at /\ d \in Units /\ d \in Int /\ g.mem[d] = h.mem[d] /\ Size(g, d) = Size(h, d) /\ Next_phys(g, d) = Next_phys(h, d)
             /\ Next_phys(h, d) \in h.at /\ (d < b \/ d >= n)
  <2>1. d \in h.at /\ d \in Units /\ Next_phys(h, d) \in h.at BY TilesAre
  <2>2. g.mem[d] = h.mem[d] BY <1>6, <1>7, <1>10, <2>1
  <2>3. d < b \/ d >= n BY <1>1, <1>3, <1>5, <1>10, <2>1
  <2>. QED BY <1>1, <2>1, <2>2, <2>3 DEF Next_phys, Size
<1>11. ASSUME NEW d \in h.at PROVE /\ (PrevIsFree(g, d) <=> PrevIsFree(h, d)) /\ (IsFree(g, d) <=> IsFree(h, d)) /\ g.mem[d].prev = h.mem[d].prev
  <2>1. CASE d = b BY <1>3, <1>7, <2>1
  <2>2. CASE d # b
    <3>1. g.mem[d] = h.mem[d] BY <1>1, <1>6, <1>7, <2>2
    <3>. QED BY <3>1 DEF PrevIsFree, IsFree
  <2>. QED BY <2>1, <2>2
<1>12. Tiled(g)
  <2>1. g.first = Start /\ {g.first, g.epilogue} \subseteq g.at BY <1>1, <1>7 DEF Tiled
  <2>2. g.at \subseteq g.first .. g.epilogue BY <1>1, <1>3, <1>7
  <2>3. Size(g, g.epilogue) = 0
    <3>1. g.mem[h.epilogue] = h.mem[h.epilogue] BY <1>1, <1>3, <1>6, <1>7
    <3>. QED BY <1>7, <3>1 DEF Tiled, Size
  <2>4. ASSUME NEW d \in BlocksOf(g)
        PROVE Size(g, d) >= 1 /\ Next_phys(g, d) \in g.at /\ \A e \in g.at : e <= d \/ e >= Next_phys(g, d)
    <3>1. CASE d = b
      <4>1. \A e \in g.at : e <= b \/ e >= c BY <1>1, <1>3, <1>5, <1>7
      <4>. QED BY <1>3, <1>7, <1>8, <3>1, <4>1
    <3>2. CASE d = c
      <4>1. \A e \in g.at : e <= c \/ e >= n BY <1>1, <1>3, <1>5, <1>7
      <4>. QED BY <1>3, <1>7, <1>8, <3>2, <4>1
    <3>3. CASE d # b /\ d # c
      <4>1. d \in BlocksOf(h) BY <1>9, <3>3
      <4>2. Size(h, d) >= 1 /\ Next_phys(h, d) \in h.at BY <4>1, TilesAre
      <4>3. \A e \in h.at : e <= d \/ e >= Next_phys(h, d) BY <4>1, Apart
      <4>4. c <= d \/ c >= Next_phys(h, d)
        <5>1. b <= d \/ b >= Next_phys(h, d) BY <1>3, <4>3
        <5>. QED BY <1>1, <1>3, <1>10, <3>3, <4>1, <4>2, <5>1
      <4>. QED BY <1>7, <1>10, <3>3, <4>1, <4>2, <4>3, <4>4
    <3>. QED BY <3>1, <3>2, <3>3
  <2>. QED BY <2>1, <2>2, <2>3, <2>4 DEF Tiled
<1>13. Truthful(g)
  <2>1. ~IsFree(g, g.epilogue) /\ ~PrevIsFree(g, g.first) BY <1>1, <1>7, <1>11 DEF Truthful
  <2>2. ASSUME NEW d \in BlocksOf(g) PROVE TellsOf(g, d)
    <3>1. CASE d = b BY <1>7, <1>8, <3>1 DEF TellsOf
    <3>2. CASE d = c BY <1>3, <1>7, <1>8, <1>11, <3>2 DEF TellsOf
    <3>3. CASE d # b /\ d # c
      <4>1. d \in BlocksOf(h) BY <1>9, <3>3
      <4>2. TellsOf(h, d) BY <4>1 DEF Truthful
      <4>3. d \in h.at /\ Size(g, d) = Size(h, d) /\ Next_phys(g, d) = Next_phys(h, d) /\ Next_phys(h, d) \in h.at BY <1>10, <3>3, <4>1
      <4>. QED BY <1>11, <4>2, <4>3 DEF TellsOf
    <3>. QED BY <3>1, <3>2, <3>3
  <2>. QED BY <2>1, <2>2 DEF Truthful
<1>14. \A d \in BlocksOf(h) : d \in h.at /\ (IsFree(g, d) <=> IsFree(h, d)) BY <1>11 DEF BlocksOf
<1>15. FreeOf(g) = FreeOf(h) BY <1>7, <1>9, <1>14 DEF FreeOf
<1>16. UsedOf(g) = UsedOf(h) \cup {c}
  <2>1. c \notin FreeOf(h) BY <1>6 DEF FreeOf, BlocksOf
  <2>. QED BY <1>9, <1>15, <2>1 DEF UsedOf
<1>. QED BY <1>4, <1>6, <1>12, <1>13, <1>15, <1>16

LEMMA CutsKept == ASSUME NEW h \in Heaps, NEW g \in Heaps, NEW b \in UsedOf(h), NEW c \in Units, Tiled(h), c \notin h.at,
                         b < c, c < Next_phys(h, b), Cuts(h, g, b, c), UsedOf(g) = UsedOf(h) \cup {c}
                  PROVE /\ AllKept(h, g, UsedOf(h) \ {b})
                        /\ \A u \in Interior(h, b) \ {c} : g.mem[u] = h.mem[u]
<1>1. h.at \subseteq Units /\ h.at \subseteq Int /\ h.epilogue \in Int /\ c \in Int BY TilesAre, UnitsBound
<1>2. b \in BlocksOf(h) /\ b \in h.at BY DEF UsedOf, BlocksOf
<1>3. ASSUME NEW d \in UsedOf(h), NEW u \in Interior(h, d) \ {c} PROVE g.mem[u] = h.mem[u]
  <2>1. d \in BlocksOf(h) /\ d \in h.at BY DEF UsedOf, BlocksOf
  <2>2. /\ d \in Int /\ Size(h, d) \in Nat /\ Next_phys(h, d) = d + 1 + Size(h, d) /\ Next_phys(h, d) \in Units /\ d \in Units
        /\ Next_phys(h, d) \in Int
     BY <1>1, <2>1, TilesAre
  <2>3. u \in Int /\ d < u /\ u < Next_phys(h, d) BY <2>2 DEF Interior
  <2>4. u \in Units BY <2>2, <2>3, d <= u, u <= Next_phys(h, d), UnitsIn
  <2>5. u # b BY <1>1, <1>2, <2>1, <2>2, <2>3, Apart
  <2>. QED BY <2>4, <2>5 DEF Cuts
<1>4. ASSUME NEW d \in UsedOf(h), d # b PROVE Size(g, d) = Size(h, d) /\ c \notin Interior(h, d)
  <2>1. d \in BlocksOf(h) /\ d \in h.at /\ d \in Units BY <1>1 DEF UsedOf, BlocksOf
  <2>2. g.mem[d] = h.mem[d] BY <1>4, <2>1 DEF Cuts
  <2>3. /\ d \in Int /\ Size(h, d) \in Nat /\ Next_phys(h, d) = d + 1 + Size(h, d) /\ Next_phys(h, d) \in Int
        /\ b \in Int /\ Next_phys(h, b) \in h.at /\ Next_phys(h, b) \in Int
     BY <1>1, <1>2, <2>1, TilesAre
  <2>4. b <= d \/ b >= Next_phys(h, d) BY <1>2, <2>1, Apart
  <2>5. d <= b \/ d >= Next_phys(h, b) BY <1>2, <2>1, Apart
  <2>. QED BY <1>1, <1>4, <2>2, <2>3, <2>4, <2>5 DEF Size, Interior
<1>5. ASSUME NEW d \in UsedOf(h), d # b PROVE Kept(h, g, d)
  <2>1. \A u \in Interior(h, d) : u # c BY <1>4, <1>5
  <2>. QED BY <1>3, <1>4, <1>5, <2>1 DEF Kept
<1>. QED BY <1>3, <1>5 DEF AllKept

LEMMA CutsStale == ASSUME NEW h \in Heaps, NEW g \in Heaps, NEW b \in h.at, NEW c \in Units, NEW X, StaleOK(h, X), Cuts(h, g, b, c), ~IsFree(g, b)
                   PROVE StaleOK(g, X)
<1>1. g.at = h.at \cup {c} BY DEF Cuts
<1>2. SUFFICES ASSUME NEW u \in Units \ (g.at \cup X), Deceives(g, X, u) PROVE FALSE BY DEF StaleOK
<1>3. g.mem[u] = h.mem[u] BY <1>1, <1>2 DEF Cuts
<1>4. ~Deceives(h, X, u) BY <1>1, <1>2 DEF StaleOK
<1>5. ~IsFree(h, u) /\ Size(h, u) >= 1 /\ PrevIsFree(h, u) BY <1>2, <1>3, <1>4 DEF Deceives, IsFree, PrevIsFree, Size
<1>6. PICK p \in Int : p = Prev_phys(h, u) /\ p = Prev_phys(g, u) /\ p = u - 1 - h.mem[u].prev /\ u \in Int /\ h.mem[u].prev \in Int
   BY <1>3, HeadIs, UnitsAre DEF Prev_phys
<1>7. h.mem[u].prev >= 1 /\ p >= Start /\ p \notin X /\ IsFree(g, p) /\ Size(g, p) = h.mem[u].prev
   BY <1>2, <1>3, <1>5, <1>6 DEF Deceives, PrevIsFree
<1>8. p \in Units
  <2>1. p \in Nat /\ p <= Top BY <1>6, <1>7, HeapAssumption, UnitsBound
  <2>. QED BY <1>7, <2>1, UnitsAre
<1>9. p # b /\ p # c BY <1>7 DEF Cuts
<1>10. g.mem[p] = h.mem[p] BY <1>8, <1>9 DEF Cuts
<1>. QED BY <1>4, <1>5, <1>6, <1>7, <1>10 DEF Deceives, IsFree, Size

CutInto(h, g, X, b, c, size) ==
    /\ c = b + 1 + size /\ c \notin h.at /\ Sound(g, X) /\ UsedOf(g) = UsedOf(h) \cup {c} /\ AllKept(h, g, UsedOf(h) \ {b})
    /\ Size(g, b) = size /\ Size(g, c) = Size(h, b) - size - 1
    /\ \A u \in Interior(h, b) \ {c} : g.mem[u] = h.mem[u]

LEMMA CutIs == ASSUME NEW h, NEW X, Sound(h, X), NEW b \in UsedOf(h), NEW size \in Int, size >= 1, size + 2 <= Size(h, b)
               PROVE \E c \in Units, g \in Heaps : g = Cut(h, b, size) /\ CutInto(h, g, X, b, c, size)
<1>1. h \in Heaps /\ Tiled(h) /\ Truthful(h) /\ FreeListed(h) /\ StaleOK(h, X) BY DEF Sound
<1>2. b \in BlocksOf(h) BY DEF UsedOf
<1>3. /\ b \in h.at /\ b \in Units /\ b \in Int /\ Size(h, b) \in Nat /\ Next_phys(h, b) = b + 1 + Size(h, b) /\ Next_phys(h, b) \in Units
      /\ ~IsFree(h, b) /\ b \notin FreeOf(h)
  <2>1. /\ b \in h.at /\ b \in Units /\ b \in Int /\ Size(h, b) \in Nat /\ Next_phys(h, b) = b + 1 + Size(h, b) /\ Next_phys(h, b) \in Units
     BY <1>1, <1>2, TilesAre
  <2>. QED BY <1>1, <1>2, <2>1, KindsAre DEF UsedOf
<1>4. PICK c \in Units : c = b + 1 + size /\ c \in Int
  <2>1. b <= b + 1 + size /\ b + 1 + size <= Next_phys(h, b) /\ b + 1 + size \in Int BY <1>3
  <2>. QED BY <1>3, <2>1, UnitsIn
<1>5. PICK rest \in Int : rest = Size(h, b) - size - 1 BY <1>3
<1>6. PICK m \in Heaps :
           /\ m = Begun(h, c, rest) /\ SameLists(h, m) /\ SameOff(h, m, {c}) /\ m.at = h.at \cup {c}
           /\ Size(m, c) = rest /\ ~IsFree(m, c) /\ ~PrevIsFree(m, c)
   BY <1>1, BegunIs
<1>7. PICK g \in Heaps :
           /\ g = Sized(m, b, size) /\ SameLists(m, g) /\ SameOff(m, g, {b}) /\ g.at = m.at
           /\ Size(g, b) = size /\ (IsFree(g, b) <=> IsFree(m, b)) /\ (PrevIsFree(g, b) <=> PrevIsFree(m, b)) /\ g.mem[b].prev = m.mem[b].prev
   BY <1>3, SizedIs
<1>8. g = Cut(h, b, size) BY <1>4, <1>5, <1>6, <1>7 DEF Cut
<1>9. b # c /\ m.mem[b] = h.mem[b] /\ g.mem[c] = m.mem[c] BY <1>3, <1>4, <1>6, <1>7 DEF SameOff
<1>10. Cuts(h, g, b, c)
  <2>1. Size(g, c) = Next_phys(h, b) - c - 1 /\ ~IsFree(g, c) /\ ~PrevIsFree(g, c)
     BY <1>3, <1>4, <1>5, <1>6, <1>9 DEF Size, IsFree, PrevIsFree
  <2>2. Size(g, b) = c - b - 1 /\ (IsFree(g, b) <=> IsFree(h, b)) /\ (PrevIsFree(g, b) <=> PrevIsFree(h, b)) /\ g.mem[b].prev = h.mem[b].prev
     BY <1>3, <1>4, <1>7, <1>9 DEF IsFree, PrevIsFree
  <2>. QED BY SMTT(30), <1>6, <1>7, <2>1, <2>2 DEF Cuts, SameOff, SameLists
<1>11. b + 2 <= c /\ c + 2 <= Next_phys(h, b) BY <1>3, <1>4
<1>12. Tiled(g) /\ Truthful(g) /\ FreeOf(g) = FreeOf(h) /\ UsedOf(g) = UsedOf(h) \cup {c} /\ c \notin h.at
   BY <1>1, <1>4, <1>10, <1>11, CutsTiles
<1>13. AllKept(h, g, UsedOf(h) \ {b}) /\ \A u \in Interior(h, b) \ {c} : g.mem[u] = h.mem[u]
  <2>1. b < c /\ c < Next_phys(h, b) BY <1>3, <1>4, <1>11
  <2>. QED BY <1>1, <1>10, <1>12, <2>1, CutsKept
<1>14. StaleOK(g, X)
  <2>1. ~IsFree(g, b) BY <1>3, <1>10 DEF Cuts
  <2>. QED BY <1>1, <1>3, <1>10, <2>1, CutsStale
<1>15. FreeListed(g)
  <2>. DEFINE F == FreeOf(h)
  <2>1. ListsHold(h, F) BY <1>1, ListedSame
  <2>2. \A u \in F : u \in Units /\ u # b /\ u # c BY <1>1, <1>3, <1>12, TilesAre DEF FreeOf, BlocksOf
  <2>3. F = FreeOf(g) BY <1>12
  <2>. HIDE DEF F
  <2>4. SameLists(h, g) /\ \A u \in F : Size(g, u) = Size(h, u) BY <1>10, <2>2 DEF Cuts, Size
  <2>5. ListsHold(g, F) BY <2>1, <2>4, ListsFrame
  <2>. QED BY <2>3, <2>5, ListedSame
<1>16. Size(g, c) = Size(h, b) - size - 1 BY <1>5, <1>6, <1>9 DEF Size
<1>17. CutInto(h, g, X, b, c, size) BY <1>4, <1>7, <1>12, <1>13, <1>14, <1>15, <1>16 DEF Sound, CutInto
<1>. QED BY <1>8, <1>17

-----------------------------------------------------------------------------
(* What the operations promise *)

\* Where a block in use lies
LEMMA UsedWhere == ASSUME NEW h, NEW X, Sound(h, X), NEW b \in UsedOf(h)
                   PROVE /\ h \in Heaps /\ b \in h.at /\ b \in Units /\ b \in Int /\ b >= 1 /\ Size(h, b) \in Nat /\ Size(h, b) >= 1
                         /\ Next_phys(h, b) = b + 1 + Size(h, b) /\ Next_phys(h, b) \in Units
                         /\ Interior(h, b) \subseteq Units /\ Interior(h, b) \cap h.at = {}
<1>1. h \in Heaps /\ Tiled(h) /\ b \in BlocksOf(h) BY DEF Sound, UsedOf
<1>2. /\ h.at \subseteq Units /\ h.at \subseteq Int /\ b \in h.at /\ b \in Units /\ Size(h, b) \in Nat /\ Size(h, b) >= 1
      /\ Next_phys(h, b) = b + 1 + Size(h, b) /\ Next_phys(h, b) \in Units
   BY <1>1, TilesAre
<1>3. b \in Int /\ b >= 1 BY <1>2, UnitsBound
<1>4. \A u \in Interior(h, b) : u \in Int /\ b <= u /\ u <= Next_phys(h, b) /\ b < u /\ u < Next_phys(h, b) BY <1>2, <1>3 DEF Interior
<1>5. Interior(h, b) \subseteq Units BY <1>2, <1>4, UnitsIn
<1>6. \A u \in h.at : u <= b \/ u >= Next_phys(h, b) BY <1>1, Apart
<1>7. Interior(h, b) \cap h.at = {} BY <1>2, <1>3, <1>4, <1>6
<1>. QED BY <1>1, <1>2, <1>3, <1>5, <1>7

\* What two blocks hold lies apart.
LEMMA InteriorsApart == ASSUME NEW h, NEW X, Sound(h, X), NEW b \in UsedOf(h), NEW c \in UsedOf(h), b # c
                        PROVE Interior(h, b) \cap Interior(h, c) = {}
<1>1. h \in Heaps /\ Tiled(h) /\ b \in BlocksOf(h) /\ c \in BlocksOf(h) BY DEF Sound, UsedOf
<1>2. /\ b \in h.at /\ b \in Int /\ Size(h, b) \in Nat /\ Next_phys(h, b) = b + 1 + Size(h, b)
      /\ c \in h.at /\ c \in Int /\ Size(h, c) \in Nat /\ Next_phys(h, c) = c + 1 + Size(h, c)
   BY UsedWhere
<1>3. (c <= b \/ c >= Next_phys(h, b)) /\ (b <= c \/ b >= Next_phys(h, c)) BY <1>1, <1>2, Apart
<1>. QED BY <1>2, <1>3 DEF Interior

LEMMA KeptTwice == ASSUME NEW h, NEW m, NEW g, NEW C, AllKept(h, m, C), AllKept(m, g, C) PROVE AllKept(h, g, C)
BY DEF AllKept, Kept, Interior

\* The block at b is still in use, with size units of what it held.
Keeps(h, g, X, b, size) ==
    /\ Sound(g, X) /\ UsedOf(g) = UsedOf(h) /\ AllKept(h, g, UsedOf(h) \ {b}) /\ size <= Size(g, b)
    /\ \A u \in Interior(h, b) : u <= b + size => g.mem[u] = h.mem[u]

\* trim
LEMMA TrimIs == ASSUME NEW h, NEW X, Sound(h, X), NEW b \in UsedOf(h), NEW size \in Int, size >= 1, size <= Size(h, b)
                PROVE LET g == Trim(h, b, size) IN Keeps(h, g, X, b, size)
<1>1. /\ b \in Int /\ Size(h, b) \in Nat BY UsedWhere
<1>2. CASE Size(h, b) - size < MinSplit
  <2>1. Trim(h, b, size) = h BY <1>2 DEF Trim
  <2>2. AllKept(h, h, UsedOf(h)) BY DEF AllKept, Kept
  <2>. QED BY <2>1, <2>2 DEF Keeps, AllKept
<1>3. CASE ~(Size(h, b) - size < MinSplit)
  <2>1. size + 2 <= Size(h, b) BY <1>1, <1>3 DEF MinSplit
  <2>2. PICK c \in Units, m \in Heaps : m = Cut(h, b, size) /\ CutInto(h, m, X, b, c, size) BY <2>1, CutIs
  <2>3. /\ c = b + 1 + size /\ c \notin h.at /\ Sound(m, X) /\ UsedOf(m) = UsedOf(h) \cup {c} /\ AllKept(h, m, UsedOf(h) \ {b})
        /\ Size(m, b) = size /\ \A u \in Interior(h, b) \ {c} : m.mem[u] = h.mem[u]
     BY <2>2 DEF CutInto
  <2>4. c \notin UsedOf(h) BY <2>3 DEF UsedOf, BlocksOf
  <2>5. PICK g : /\ g = Release(m, c) /\ Sound(g, X) /\ UsedOf(g) = UsedOf(m) \ {c} /\ AllKept(m, g, UsedOf(m) \ {c})
     BY <2>3, ReleaseIs
  <2>6. UsedOf(g) = UsedOf(h) /\ UsedOf(m) \ {c} = UsedOf(h) BY <2>3, <2>4, <2>5
  <2>7. AllKept(m, g, UsedOf(h) \ {b}) BY <2>5, <2>6 DEF AllKept
  <2>8. AllKept(h, g, UsedOf(h) \ {b}) BY <2>3, <2>7, KeptTwice
  <2>9. Kept(m, g, b) BY <2>5, <2>6 DEF AllKept
  <2>10. ASSUME NEW u \in Interior(h, b), u <= b + size PROVE g.mem[u] = h.mem[u]
    <3>1. u \in Int /\ u >= b + 1 BY <1>1 DEF Interior
    <3>2. u # c /\ u \in Interior(m, b) BY <1>1, <2>3, <2>10, <3>1 DEF Interior
    <3>. QED BY <2>3, <2>9, <3>2 DEF Kept
  <2>11. g = Trim(h, b, size) BY <1>3, <2>2, <2>3, <2>5 DEF Trim
  <2>12. size <= Size(g, b) BY <2>3, <2>9 DEF Kept
  <2>. QED BY <2>5, <2>6, <2>8, <2>10, <2>11, <2>12 DEF Keeps
<1>. QED BY <1>2, <1>3

\* Units of a block are written, with data or with what is to be written next.
Overwrites(h, g, b, W, X, Y) ==
    /\ W \subseteq Interior(h, b) /\ X \subseteq Interior(h, b) /\ Y \subseteq Interior(h, b)
    /\ SameLists(h, g) /\ SameOff(h, g, W) /\ g.at = h.at /\ \A u \in W \cup X : u \in Y \/ g.mem[u] = Data

LEMMA OverwrittenIs == ASSUME NEW h, NEW X, Sound(h, X), NEW g \in Heaps, NEW b \in UsedOf(h), NEW W, NEW Y, Overwrites(h, g, b, W, X, Y)
                       PROVE Sound(g, Y) /\ UsedOf(g) = UsedOf(h) /\ AllKept(h, g, UsedOf(h) \ {b}) /\ Size(g, b) = Size(h, b)
<1>0. /\ W \subseteq Interior(h, b) /\ X \subseteq Interior(h, b) /\ SameLists(h, g) /\ SameOff(h, g, W) /\ g.at = h.at
      /\ \A u \in W \cup X : u \in Y \/ g.mem[u] = Data
   BY DEF Overwrites
<1>1. h \in Heaps /\ Tiled(h) /\ Truthful(h) /\ FreeListed(h) /\ StaleOK(h, X) BY DEF Sound
<1>2. W \subseteq Units /\ X \subseteq Units /\ W \cap h.at = {} /\ h.at \subseteq Units /\ h.first \in h.at /\ h.epilogue \in h.at
   BY <1>0, <1>1, UsedWhere, TilesAre
<1>3. \A u \in h.at : g.mem[u] = h.mem[u] BY <1>0, <1>2 DEF SameOff
<1>4. \A u \in h.at : /\ Size(g, u) = Size(h, u) /\ Next_phys(g, u) = Next_phys(h, u) /\ (IsFree(g, u) <=> IsFree(h, u))
                      /\ (PrevIsFree(g, u) <=> PrevIsFree(h, u)) /\ g.mem[u].prev = h.mem[u].prev
   BY <1>3 DEF Size, Next_phys, IsFree, PrevIsFree
<1>5. /\ BlocksOf(g) = BlocksOf(h) /\ BlocksOf(h) \subseteq h.at /\ g.first = h.first /\ g.epilogue = h.epilogue
      /\ \A d \in BlocksOf(h) : Next_phys(h, d) \in h.at
   BY <1>0, <1>1, TilesAre DEF BlocksOf, SameOff
<1>6. FreeOf(g) = FreeOf(h) /\ UsedOf(g) = UsedOf(h) BY <1>4, <1>5 DEF FreeOf, UsedOf
<1>7. Tiled(g)
  <2>1. g.first = Start /\ {g.first, g.epilogue} \subseteq g.at /\ g.at \subseteq g.first .. g.epilogue /\ Size(g, g.epilogue) = 0
     BY <1>0, <1>1, <1>2, <1>4, <1>5 DEF Tiled
  <2>2. ASSUME NEW d \in BlocksOf(g) PROVE Size(g, d) >= 1 /\ Next_phys(g, d) \in g.at /\ \A e \in g.at : e <= d \/ e >= Next_phys(g, d)
    <3>1. Size(h, d) >= 1 /\ Next_phys(h, d) \in h.at /\ \A e \in h.at : e <= d \/ e >= Next_phys(h, d) BY <1>1, <1>5, <2>2 DEF Tiled
    <3>. QED BY <1>0, <1>4, <1>5, <3>1
  <2>. QED BY <2>1, <2>2 DEF Tiled
<1>8. Truthful(g)
  <2>1. ~IsFree(g, g.epilogue) /\ ~PrevIsFree(g, g.first) BY <1>1, <1>2, <1>4, <1>5 DEF Truthful
  <2>2. ASSUME NEW d \in BlocksOf(g) PROVE TellsOf(g, d)
    <3>1. TellsOf(h, d) BY <1>1, <1>5, <2>2 DEF Truthful
    <3>. QED BY <1>4, <1>5, <3>1 DEF TellsOf
  <2>. QED BY <2>1, <2>2 DEF Truthful
<1>9. FreeListed(g)
  <2>1. \A u \in FreeOf(h) : Size(g, u) = Size(h, u) BY <1>4, <1>5 DEF FreeOf
  <2>2. ListsHold(h, FreeOf(h)) BY <1>1, ListedSame
  <2>3. ListsHold(g, FreeOf(h)) BY <1>0, <2>1, <2>2, ListsFrame
  <2>. QED BY <1>6, <2>3, ListedSame
<1>10. StaleOK(g, Y)
  <2>1. SUFFICES ASSUME NEW u \in Units \ (g.at \cup Y), Deceives(g, Y, u) PROVE FALSE BY DEF StaleOK
  <2>2. \A w \in W \cup X : w \in Y \/ (Size(g, w) = -2 /\ ~IsFree(g, w)) BY <1>0 DEF Data, Header, Size, IsFree
  <2>3. u \notin W \cup X BY <2>1, <2>2 DEF Deceives
  <2>4. g.mem[u] = h.mem[u] /\ ~Deceives(h, X, u) BY <1>0, <1>1, <2>1, <2>3 DEF SameOff, StaleOK
  <2>5. ~IsFree(h, u) /\ Size(h, u) >= 1 /\ PrevIsFree(h, u) BY <2>1, <2>4 DEF Deceives, IsFree, PrevIsFree, Size
  <2>6. PICK p \in Int : p = Prev_phys(h, u) /\ p = Prev_phys(g, u) /\ p = u - 1 - h.mem[u].prev /\ u \in Int /\ h.mem[u].prev \in Int
     BY <1>1, <2>4, HeadIs, UnitsAre DEF Prev_phys
  <2>7. h.mem[u].prev >= 1 /\ p >= Start /\ p \notin Y /\ IsFree(g, p) /\ Size(g, p) = h.mem[u].prev
     BY <2>1, <2>4, <2>5, <2>6 DEF Deceives, PrevIsFree
  <2>8. p \in Units
    <3>1. p \in Nat /\ p <= Top BY <2>6, <2>7, HeapAssumption, UnitsBound
    <3>. QED BY <2>7, <3>1, UnitsAre
  <2>9. p \notin W \cup X BY <2>2, <2>7
  <2>10. g.mem[p] = h.mem[p] BY <1>0, <2>8, <2>9 DEF SameOff
  <2>. QED BY <2>4, <2>5, <2>6, <2>7, <2>9, <2>10 DEF Deceives, IsFree, Size
<1>11. AllKept(h, g, UsedOf(h) \ {b})
  <2>1. SUFFICES ASSUME NEW d \in UsedOf(h), d # b PROVE Kept(h, g, d) BY DEF AllKept
  <2>2. Interior(h, d) \subseteq Units /\ d \in h.at BY UsedWhere
  <2>3. Interior(h, d) \cap W = {} BY <1>0, <2>1, InteriorsApart
  <2>4. \A u \in Interior(h, d) : g.mem[u] = h.mem[u] BY <1>0, <2>2, <2>3 DEF SameOff
  <2>. QED BY <1>4, <1>6, <2>2, <2>4 DEF Kept
<1>12. Size(g, b) = Size(h, b) BY <1>4, UsedWhere
<1>. QED BY <1>6, <1>7, <1>8, <1>9, <1>10, <1>11, <1>12 DEF Sound

\* A unit about to be written asks for less.

-----------------------------------------------------------------------------
(* A block is taken: what was in use stays, and the block is large enough. *)

HeapIs(h) == h = NoHeap \/ Sound(h, {})
Takes(h, r, size) ==
    /\ HeapIs(r.h) /\ AllKept(h, r.h, UsedOf(h))
    /\ \/ r.b = Null /\ UsedOf(r.h) = UsedOf(h)
       \/ /\ r.b # Null /\ r.b \notin UsedOf(h) /\ Sound(r.h, {})
          /\ UsedOf(r.h) = UsedOf(h) \cup {r.b} /\ size <= Size(r.h, r.b)

LEMMA NoneUsed == UsedOf(NoHeap) = {} /\ NoHeap.first = Null
BY DEF UsedOf, BlocksOf, NoHeap

LEMMA TookNothing == ASSUME NEW h, HeapIs(h), NEW size PROVE Takes(h, Found(h, Null), size)
<1>1. AllKept(h, h, UsedOf(h)) BY DEF AllKept, Kept
<1>. QED BY <1>1 DEF Takes, Found

LEMMA TookOne == ASSUME NEW h, NEW g, Sound(g, {}), NEW b \in Units, b \notin UsedOf(h), UsedOf(g) = UsedOf(h) \cup {b}, AllKept(h, g, UsedOf(h)),
                        NEW size, size <= Size(g, b)
                 PROVE Takes(h, Found(g, b), size)
<1>1. b # Null BY UnitsBound DEF Null
<1>. QED BY <1>1 DEF Takes, Found, HeapIs

\* start_heap
LEMMA StartedIs == ASSUME Start \in Units
                   PROVE Sound(Started(NoHeap), {}) /\ UsedOf(Started(NoHeap)) = {}
<1>. DEFINE h == Started(NoHeap)
<1>1. Junk \in Heads /\ Header(0) \in Heads /\ Junk.size = -1 /\ Header(0).size = 0 /\ Header(0).flags = {} BY DEF Junk, Header, Heads
<1>2. NoHeap \in Heaps BY <1>1 DEF NoHeap, Heaps, Units, Null
<1>3. /\ h \in Heaps /\ h.first = Start /\ h.epilogue = Start /\ h.at = {Start} /\ h.mem[Start] = Header(0)
      /\ (\A u \in Units \ {Start} : h.mem[u] = Junk) /\ h.bins = [i \in Bins |-> <<>>] /\ h.slMap = {} /\ h.flMap = {}
  <2>1. Start \in Int BY HeapAssumption
  <2>. HIDE DEF Junk, Header
  <2>. QED BY <1>1, <1>2, <2>1 DEF Started, Heaps, NoHeap, Units
<1>. HIDE DEF h
<1>4. BlocksOf(h) = {} BY <1>3 DEF BlocksOf
<1>5. FreeOf(h) = {} /\ UsedOf(h) = {} BY <1>4 DEF FreeOf, UsedOf
<1>6. Tiled(h)
  <2>1. Start \in Start .. Start BY HeapAssumption
  <2>. QED BY <1>1, <1>3, <1>4, <2>1 DEF Tiled, Size
<1>7. Truthful(h) BY <1>1, <1>3, <1>4 DEF Truthful, IsFree, PrevIsFree
<1>8. FreeListed(h)
  <2>1. \A i \in Bins : IsInjective(h.bins[i]) /\ Range(h.bins[i]) = {} BY <1>3 DEF IsInjective, Range
  <2>2. \A i \in Bins : {b \in FreeOf(h) : BinOf(Size(h, b)) = i} = {} BY <1>5
  <2>3. {i \in Bins : h.bins[i] # <<>>} = {} BY <1>3
  <2>4. {LevelOf(i) : i \in h.slMap} = {} BY <1>3
  <2>. QED BY <1>3, <2>1, <2>2, <2>3, <2>4 DEF FreeListed
<1>9. StaleOK(h, {})
  <2>1. \A u \in Units \ {Start} : Size(h, u) = -1 BY <1>1, <1>3 DEF Size
  <2>. QED BY <1>3, <2>1 DEF StaleOK, Deceives
<1>. QED BY <1>3, <1>5, <1>6, <1>7, <1>8, <1>9 DEF Sound, h

\* grow
LEMMA GrowIs == ASSUME NEW h, Sound(h, {}), limit \in 0 .. Top, NEW size \in Int, size >= 1
                PROVE Takes(h, Grow(h, size), size)
<1>1. /\ h \in Heaps /\ Tiled(h) /\ Truthful(h) /\ h.epilogue \in h.at /\ h.epilogue \in Units /\ h.epilogue \in Int
   BY TopIs
<1>2. HeapIs(h) BY DEF HeapIs
<1>3. CASE PrevIsFree(h, h.epilogue)
  <2>1. PICK b \in FreeOf(h) : b = Prev_phys(h, h.epilogue) /\ Next_phys(h, b) = h.epilogue BY <1>1, <1>3, FreeBelow
  <2>2. b \in Units /\ b \in Int /\ Size(h, b) \in Nat BY FreeIs
  <2>3. Grow(h, size) = GrowLast(h, b, size) BY <1>3, <2>1 DEF Grow
  <2>4. CASE Size(h, b) >= size
    <3>1. PICK g : /\ g = Used(h, b) /\ Sound(g, {}) /\ UsedOf(g) = UsedOf(h) \cup {b} /\ AllKept(h, g, UsedOf(h))
                   /\ Size(g, b) = Size(h, b) /\ b \notin UsedOf(h)
       BY UsedIs
    <3>2. size <= Size(g, b) BY <2>2, <2>4, <3>1
    <3>3. Takes(h, Found(g, b), size) BY <2>2, <3>1, <3>2, TookOne
    <3>. QED BY <2>3, <2>4, <3>1, <3>3 DEF GrowLast
  <2>5. CASE ~(Size(h, b) >= size) /\ MayMove(h, b + 1 + size)
    <3>1. size > Size(h, b) /\ b + 1 + size \in Units
      <4>1. b + 1 + size \in Int /\ size > Size(h, b) BY <2>2, <2>5
      <4>. QED BY <1>1, <2>5, <4>1, MayMoveIs
    <3>2. PICK g : /\ g = Extend(h, b, size) /\ Sound(g, {}) /\ UsedOf(g) = UsedOf(h) \cup {b} /\ AllKept(h, g, UsedOf(h))
                   /\ Size(g, b) = size /\ b \notin UsedOf(h)
       BY <2>1, <3>1, ExtendIs
    <3>3. Takes(h, Found(g, b), size) BY <2>2, <3>2, TookOne
    <3>. QED BY <2>3, <2>5, <3>2, <3>3 DEF GrowLast
  <2>6. CASE ~(Size(h, b) >= size) /\ ~MayMove(h, b + 1 + size)
    <3>1. Grow(h, size) = Found(h, Null) BY <2>3, <2>6 DEF GrowLast
    <3>. QED BY <1>2, <3>1, TookNothing
  <2>. QED BY <2>4, <2>5, <2>6
<1>4. CASE ~PrevIsFree(h, h.epilogue) /\ MayMove(h, h.epilogue + 1 + size)
  <2>1. PICK b \in Units : b = h.epilogue BY <1>1
  <2>2. b + 1 + size \in Units
    <3>1. b + 1 + size \in Int BY <1>1, <2>1
    <3>. QED BY <1>1, <1>4, <2>1, <3>1, MayMoveIs
  <2>3. PICK g : /\ g = NewLast(h, b, size) /\ Sound(g, {}) /\ UsedOf(g) = UsedOf(h) \cup {b} /\ AllKept(h, g, UsedOf(h))
                 /\ Size(g, b) = size /\ b \notin UsedOf(h)
     BY <2>1, <2>2, NewLastIs
  <2>4. Takes(h, Found(g, b), size) BY <2>3, TookOne
  <2>. QED BY <1>4, <2>1, <2>3, <2>4 DEF Grow
<1>5. CASE ~PrevIsFree(h, h.epilogue) /\ ~MayMove(h, h.epilogue + 1 + size)
  <2>1. Grow(h, size) = Found(h, Null) BY <1>5 DEF Grow
  <2>. QED BY <1>2, <2>1, TookNothing
<1>. QED BY <1>3, <1>4, <1>5

\* take
LEMMA TakeIs == ASSUME NEW h, HeapIs(h), limit \in 0 .. Top, NEW size \in Nat, size >= 1, 2 * size <= 2 ^ Word
                PROVE Takes(h, Take(h, size), size)
<1>1. CASE Sound(h, {})
  <2>1. h \in Heaps /\ Tiled(h) /\ ListsHold(h, FreeOf(h)) BY <1>1, TopIs
  <2>2. h.first # Null BY <2>1, HeapAssumption DEF Tiled, Null
  <2>3. CASE Find(h, size) # Null
    <3>1. \A b \in FreeOf(h) : Size(h, b) \in Nat BY <1>1, FreeIs
    <3>2. PICK b : b = Find(h, size) OBVIOUS
    <3>3. b \in FreeOf(h) /\ size <= Size(h, b) BY <2>1, <2>3, <3>1, <3>2, FindIs
    <3>4. PICK g : /\ g = Used(h, b) /\ Sound(g, {}) /\ UsedOf(g) = UsedOf(h) \cup {b} /\ AllKept(h, g, UsedOf(h))
                   /\ Size(g, b) = Size(h, b) /\ b \notin UsedOf(h)
       BY <1>1, <3>3, UsedIs
    <3>5. b \in Units BY <1>1, <3>3, FreeIs
    <3>6. Takes(h, Found(g, b), size) BY <3>3, <3>4, <3>5, TookOne
    <3>. QED BY <2>2, <2>3, <3>2, <3>4, <3>6 DEF Take, TakeFound
  <2>4. CASE Find(h, size) = Null
    <3>1. Takes(h, Grow(h, size), size) BY <1>1, GrowIs
    <3>. QED BY <2>2, <2>4, <3>1 DEF Take, TakeFound
  <2>. QED BY <2>3, <2>4
<1>2. CASE h = NoHeap
  <2>1. h.first = Null /\ UsedOf(h) = {} BY <1>2, NoneUsed
  <2>2. CASE Start + 1 > limit
    <3>1. Take(h, size) = Found(h, Null) BY <2>1, <2>2 DEF Take
    <3>. QED BY <3>1, TookNothing
  <2>3. CASE ~(Start + 1 > limit)
    <3>1. Start \in Units
      <4>1. Start <= Start /\ Start <= Top /\ Start \in Nat BY <2>3, HeapAssumption
      <4>. QED BY <4>1, UnitsAre
    <3>2. PICK g : g = Started(h) OBVIOUS
    <3>3. Sound(g, {}) /\ UsedOf(g) = {} BY <1>2, <3>1, <3>2, StartedIs
    <3>4. PICK r : r = Grow(g, size) OBVIOUS
    <3>5. Takes(g, r, size) BY <3>3, <3>4, GrowIs
    <3>6. AllKept(h, r.h, UsedOf(h)) BY <2>1 DEF AllKept
    <3>7. Takes(h, r, size) BY <2>1, <3>3, <3>5, <3>6 DEF Takes
    <3>. QED BY <2>1, <2>3, <3>2, <3>4, <3>7 DEF Take
  <2>. QED BY <2>2, <2>3
<1>. QED BY <1>1, <1>2 DEF HeapIs

\* malloc past its checks
LEMMA MallocIs == ASSUME NEW h, HeapIs(h), limit \in 0 .. Top, NEW size \in Nat, size >= 1
                  PROVE Takes(h, MallocIn(h, size), size)
<1>1. CASE size > MaxRequest
  <2>1. MallocIn(h, size) = Found(h, Null) BY <1>1 DEF MallocIn
  <2>. QED BY <2>1, TookNothing
<1>2. CASE ~(size > MaxRequest)
  <2>1. 2 * size <= 2 ^ Word BY <1>2, HeapAssumption, 2 ^ 28 = 268435456, 2 ^ 31 = 2147483648, SMT DEF Word
  <2>2. PICK r : r = Take(h, size) OBVIOUS
  <2>3. Takes(h, r, size) BY <2>1, <2>2, TakeIs
  <2>4. MallocIn(h, size) = Malloced(h, size, r) BY <1>2, <2>2 DEF MallocIn
  <2>5. CASE r.b = Null BY <2>3, <2>4, <2>5 DEF Malloced
  <2>6. CASE r.b # Null
    <3>1. PICK m : m = r.h OBVIOUS
    <3>2. PICK b : b = r.b OBVIOUS
    <3>3. /\ b # Null /\ b \notin UsedOf(h) /\ Sound(m, {}) /\ b \in UsedOf(m) /\ UsedOf(m) = UsedOf(h) \cup {b} /\ size <= Size(m, b)
          /\ AllKept(h, m, UsedOf(h))
       BY <2>3, <2>6, <3>1, <3>2 DEF Takes
    <3>4. PICK g : g = Trim(m, b, size) OBVIOUS
    <3>5. Keeps(m, g, {}, b, size) BY <3>3, <3>4, TrimIs
    <3>6. UsedOf(m) \ {b} = UsedOf(h) BY <3>3
    <3>7. AllKept(h, g, UsedOf(h)) BY <3>3, <3>5, <3>6, KeptTwice DEF Keeps
    <3>8. b \in Units BY <3>3, UsedWhere
    <3>9. Takes(h, Found(g, b), size) BY <3>3, <3>5, <3>7, <3>8, TookOne DEF Keeps
    <3>. QED BY <2>4, <2>6, <3>1, <3>2, <3>4, <3>9 DEF Malloced
  <2>. QED BY <2>5, <2>6
<1>. QED BY <1>1, <1>2

-----------------------------------------------------------------------------
(* realloc: the block stays where it is, or its contents move to a new one. *)

Filled(q, n) == q + 1 .. q + n
Moved(h, g, b, q, size) ==
    /\ q # Null /\ q \notin UsedOf(h) /\ size > Size(h, b)
    /\ Sound(g, Filled(q, Size(h, b))) /\ UsedOf(g) = (UsedOf(h) \ {b}) \cup {q} /\ AllKept(h, g, UsedOf(h) \ {b})
    /\ size <= Size(g, q) /\ \A i \in 1 .. Size(h, b) : g.mem[q + i] = h.mem[b + i]
Resizes(h, r, b, size) ==
    \/ r.b = Null /\ HeapIs(r.h) /\ UsedOf(r.h) = UsedOf(h) /\ AllKept(h, r.h, UsedOf(h))
    \/ r.b = b /\ Keeps(h, r.h, {}, b, size)
    \/ Moved(h, r.h, b, r.b, size)

LEMMA KeepsGrown == ASSUME NEW h, NEW m, NEW g, NEW b, NEW size \in Int, Grew(h, m, b), Keeps(m, g, {}, b, size),
                           b \in Int, Size(h, b) \in Int, Size(m, b) \in Int
                    PROVE Keeps(h, g, {}, b, size)
<1>1. UsedOf(m) = UsedOf(h) /\ AllKept(h, m, UsedOf(h) \ {b}) /\ AllKept(m, g, UsedOf(h) \ {b}) BY DEF Grew, Keeps
<1>2. AllKept(h, g, UsedOf(h) \ {b}) BY <1>1, KeptTwice
<1>3. \A u \in Interior(h, b) : u \in Interior(m, b) BY DEF Grew, Interior
<1>4. \A u \in Interior(h, b) : u <= b + size => g.mem[u] = h.mem[u] BY <1>3 DEF Grew, Keeps
<1>. QED BY <1>1, <1>2, <1>4 DEF Keeps

LEMMA CopiedIs == ASSUME NEW h, Sound(h, {}), NEW b \in UsedOf(h), NEW q \in UsedOf(h), b # q, Size(h, b) <= Size(h, q)
                  PROVE \E g \in Heaps :
                          /\ g = Copied(h, b, q) /\ Sound(g, Filled(q, Size(h, b))) /\ UsedOf(g) = UsedOf(h) /\ AllKept(h, g, UsedOf(h) \ {q})
                          /\ Size(g, q) = Size(h, q) /\ \A i \in 1 .. Size(h, b) : g.mem[q + i] = h.mem[b + i]
<1>1. /\ h \in Heaps /\ b \in Int /\ Size(h, b) \in Nat /\ q \in Int /\ Size(h, q) \in Nat
      /\ Interior(h, b) \subseteq Units /\ Interior(h, q) \subseteq Units
   BY UsedWhere
<1>. DEFINE W == q + 1 .. q + Size(h, b)
<1>2. W \in SUBSET Interior(h, q) BY <1>1 DEF Interior
<1>3. \A u \in W : u - q + b \in Interior(h, b) BY <1>1 DEF Interior
<1>4. PICK mem : mem = [u \in Units |-> IF u \in W THEN h.mem[u - q + b] ELSE h.mem[u]] OBVIOUS
<1>5. mem \in [Units -> Heads]
  <2>1. h.mem \in [Units -> Heads] BY <1>1 DEF Heaps
  <2>2. \A u \in W : h.mem[u - q + b] \in Heads BY <1>1, <1>3, <2>1
  <2>. QED BY <1>4, <2>1, <2>2
<1>6. PICK g \in Heaps : g = [h EXCEPT !.mem = mem] /\ g.mem = mem /\ SameLists(h, g) /\ g.first = h.first /\ g.epilogue = h.epilogue /\ g.at = h.at
  <2>1. [h EXCEPT !.mem = mem] \in Heaps BY <1>1, <1>5 DEF Heaps
  <2>. QED BY <1>1, <2>1 DEF Heaps, SameLists
<1>7. g = Copied(h, b, q)
  <2>1. DOMAIN h.mem = Units BY <1>1 DEF Heaps
  <2>. QED BY <1>4, <1>6, <2>1 DEF Copied
<1>8. SameOff(h, g, W) BY <1>4, <1>6 DEF SameOff
<1>9. Sound(g, W) /\ UsedOf(g) = UsedOf(h) /\ AllKept(h, g, UsedOf(h) \ {q}) /\ Size(g, q) = Size(h, q)
  <2>. HIDE DEF W
  <2>1. PICK X : X = {} OBVIOUS
  <2>2. W \subseteq Interior(h, q) /\ X \subseteq Interior(h, q) /\ \A u \in W \cup X : u \in W \/ g.mem[u] = Data BY <1>2, <2>1
  <2>3. Overwrites(h, g, q, W, X, W) BY <1>6, <1>8, <2>2 DEF Overwrites
  <2>. QED BY <2>1, <2>3, OverwrittenIs
<1>10. ASSUME NEW i \in 1 .. Size(h, b) PROVE g.mem[q + i] = h.mem[b + i]
  <2>1. q + i \in W /\ (q + i) - q + b = b + i /\ q + i \in Int BY <1>1
  <2>2. q + i \in Units BY <1>1, <1>2, <2>1
  <2>. HIDE DEF W
  <2>. QED BY <1>4, <1>6, <2>1, <2>2
<1>11. Filled(q, Size(h, b)) = W BY DEF Filled
<1>. QED BY <1>6, <1>7, <1>9, <1>10, <1>11

LEMMA MovesIs == ASSUME NEW h, Sound(h, {}), NEW b \in UsedOf(h), NEW size \in Int, size > Size(h, b), NEW r, Takes(h, r, size)
                 PROVE Resizes(h, Moves(b, r), b, size)
<1>1. CASE r.b = Null BY <1>1 DEF Moves, Resizes, Takes
<1>2. CASE r.b # Null
  <2>1. PICK m : m = r.h OBVIOUS
  <2>2. PICK q : q = r.b OBVIOUS
  <2>3. /\ q # Null /\ q \notin UsedOf(h) /\ Sound(m, {}) /\ q \in UsedOf(m) /\ UsedOf(m) = UsedOf(h) \cup {q} /\ size <= Size(m, q)
        /\ AllKept(h, m, UsedOf(h)) /\ b # q /\ b \in UsedOf(m)
     BY <1>2, <2>1, <2>2 DEF Takes
  <2>4. Size(m, b) = Size(h, b) /\ Size(h, b) \in Nat /\ Size(m, q) \in Nat BY <2>3, UsedWhere DEF AllKept, Kept
  <2>5. Size(m, b) <= Size(m, q) BY <2>3, <2>4
  <2>6. PICK f \in Heaps :
             /\ f = Copied(m, b, q) /\ Sound(f, Filled(q, Size(m, b))) /\ UsedOf(f) = UsedOf(m) /\ AllKept(m, f, UsedOf(m) \ {q})
             /\ Size(f, q) = Size(m, q) /\ \A i \in 1 .. Size(m, b) : f.mem[q + i] = m.mem[b + i]
     BY <2>3, <2>5, CopiedIs
  <2>7. PICK g : /\ g = Release(f, b) /\ Sound(g, Filled(q, Size(m, b))) /\ UsedOf(g) = UsedOf(f) \ {b} /\ AllKept(f, g, UsedOf(f) \ {b})
     BY <2>3, <2>6, ReleaseIs
  <2>8. Moves(b, r) = Found(g, q) BY <1>2, <2>1, <2>2, <2>6, <2>7 DEF Moves
  <2>9. UsedOf(g) = (UsedOf(h) \ {b}) \cup {q} BY <2>3, <2>6, <2>7
  <2>10. AllKept(h, g, UsedOf(h) \ {b})
    <3>1. AllKept(m, f, UsedOf(h) \ {b}) BY <2>3, <2>6 DEF AllKept
    <3>2. AllKept(f, g, UsedOf(h) \ {b}) BY <2>3, <2>6, <2>7 DEF AllKept
    <3>3. AllKept(h, m, UsedOf(h) \ {b}) BY <2>3 DEF AllKept
    <3>. QED BY <3>1, <3>2, <3>3, KeptTwice
  <2>11. Kept(f, g, q) BY <2>3, <2>6, <2>7 DEF AllKept
  <2>12. ASSUME NEW i \in 1 .. Size(h, b) PROVE g.mem[q + i] = h.mem[b + i]
    <3>1. f.mem[q + i] = m.mem[b + i] BY <2>4, <2>6
    <3>2. q + i \in Interior(f, q)
      <4>1. q \in Int BY <2>3, UsedWhere
      <4>. QED BY <2>3, <2>4, <2>6, <4>1 DEF Interior
    <3>3. b + i \in Interior(h, b)
      <4>1. b \in Int BY UsedWhere
      <4>. QED BY <2>4, <4>1 DEF Interior
    <3>4. m.mem[b + i] = h.mem[b + i] BY <2>3, <3>3 DEF AllKept, Kept
    <3>. QED BY <2>11, <3>1, <3>2, <3>4 DEF Kept
  <2>13. Sound(g, Filled(q, Size(h, b))) BY <2>4, <2>7 DEF Filled
  <2>14. size <= Size(g, q) BY <2>3, <2>6, <2>11 DEF Kept
  <2>15. Moved(h, g, b, q, size) BY <2>3, <2>9, <2>10, <2>12, <2>13, <2>14 DEF Moved
  <2>. QED BY <2>8, <2>15 DEF Resizes, Found
<1>. QED BY <1>1, <1>2

LEMMA ReallocedIs == ASSUME NEW h, Sound(h, {}), NEW b \in UsedOf(h), limit \in 0 .. Top, NEW size \in Nat, size >= 1
                     PROVE Resizes(h, Realloced(h, b, size), b, size)
<1>1. h \in Heaps /\ Tiled(h) /\ b \in Int /\ Size(h, b) \in Nat BY UsedWhere DEF Sound
<1>2. CASE size <= Size(h, b)
  <2>1. Keeps(h, Trim(h, b, size), {}, b, size) BY <1>2, TrimIs
  <2>. QED BY <1>2, <2>1 DEF Realloced, Resizes, Found
<1>3. CASE ~(size <= Size(h, b))
  <2>1. PICK c : c = Next_phys(h, b) OBVIOUS
  <2>2. size > Size(h, b) BY <1>1, <1>3
  <2>3. Realloced(h, b, size) = Grows(h, b, c, size) BY <1>3, <2>1 DEF Realloced
  <2>4. IsFree(h, c) => c \in FreeOf(h)
    <3>1. c \in h.at /\ ~IsFree(h, h.epilogue) BY <2>1, TilesAre DEF Sound, UsedOf, Truthful
    <3>. QED BY <3>1 DEF FreeOf, BlocksOf
  <2>5. IsFree(h, c) => Size(h, c) \in Nat BY <2>4, FreeIs
  <2>6. CASE IsFree(h, c) /\ Size(h, b) + 1 + Size(h, c) >= size
    <3>1. PICK m : m = Cleared(Swallow(h, b, c), Next_phys(h, c)) OBVIOUS
    <3>2. Sound(m, {}) /\ Grew(h, m, b) /\ Size(m, b) = Size(h, b) + 1 + Size(h, c) BY <2>1, <2>6, <3>1, GrownUpIs
    <3>3. size <= Size(m, b) /\ Size(m, b) \in Int BY <1>1, <2>5, <2>6, <3>2
    <3>4. b \in UsedOf(m) BY <3>2 DEF Grew
    <3>5. PICK g : g = Trim(m, b, size) OBVIOUS
    <3>6. Keeps(m, g, {}, b, size) BY <3>2, <3>3, <3>4, <3>5, TrimIs
    <3>7. Keeps(h, g, {}, b, size) BY <1>1, <3>2, <3>3, <3>6, KeepsGrown
    <3>8. Grows(h, b, c, size) = Found(g, b) BY <2>6, <3>1, <3>5 DEF Grows, GrowsUp
    <3>. QED BY <2>3, <3>7, <3>8 DEF Resizes, Found
  <2>7. CASE ~(IsFree(h, c) /\ Size(h, b) + 1 + Size(h, c) >= size) /\ Above(h, c) = h.epilogue /\ MayMove(h, b + 1 + size)
    <3>1. b + 1 + size \in Units
      <4>1. b + 1 + size \in Int BY <1>1
      <4>. QED BY <1>1, <2>7, <4>1, MayMoveIs
    <3>2. IsFree(h, c) => size > Size(h, b) + 1 + Size(h, c) BY <1>1, <2>5, <2>7
    <3>3. PICK g : g = PastTop(h, b, c, size).h OBVIOUS
    <3>4. Sound(g, {}) /\ Grew(h, g, b) /\ Size(g, b) = size BY <2>1, <2>2, <2>7, <3>1, <3>2, <3>3, PastTopIs
    <3>5. Keeps(h, g, {}, b, size) BY <3>4 DEF Grew, Keeps
    <3>6. Grows(h, b, c, size) = Found(g, b) BY <2>7, <3>3 DEF Grows, PastTop, Found
    <3>. QED BY <2>3, <3>5, <3>6 DEF Resizes, Found
  <2>8. CASE ~(IsFree(h, c) /\ Size(h, b) + 1 + Size(h, c) >= size) /\ ~(Above(h, c) = h.epilogue /\ MayMove(h, b + 1 + size))
    <3>1. PICK r : r = MallocIn(h, size) OBVIOUS
    <3>2. Takes(h, r, size) BY <3>1, MallocIs DEF HeapIs
    <3>3. Resizes(h, Moves(b, r), b, size) BY <2>2, <3>2, MovesIs
    <3>4. Grows(h, b, c, size) = Moves(b, r) BY <2>8, <3>1 DEF Grows
    <3>. QED BY <2>3, <3>3, <3>4
  <2>. QED BY <2>6, <2>7, <2>8
<1>. QED BY <1>2, <1>3

-----------------------------------------------------------------------------
(* aligned_alloc: what is cut off in front is freed. *)

LEMMA WantedIs == ASSUME NEW at \in Nat, NEW a \in Nat, a >= 2
                  PROVE Wanted(at, a) \in Int /\ (Wanted(at, a) = at \/ (at + 2 <= Wanted(at, a) /\ Wanted(at, a) <= at + a + 1))
<1>1. PICK x \in Nat : x = at + a - 1 OBVIOUS
<1>2. PICK d \in Nat : d = x \div a BY DivBounds
<1>3. d * a <= x /\ x < (d + 1) * a BY <1>2, DivBounds
<1>4. PICK w \in Nat : w = d * a OBVIOUS
<1>5. (d + 1) * a = w + a BY <1>4
<1>6. Aligned(at, a) = w BY <1>1, <1>2, <1>4 DEF Aligned
<1>7. at <= w /\ w <= at + a - 1 BY <1>1, <1>3, <1>4, <1>5
<1>8. CASE w - at \in 1 .. MinSplit - 1
  <2>1. Wanted(at, a) = w + a /\ w = at + 1 BY <1>6, <1>8 DEF Wanted, MinSplit
  <2>. QED BY <2>1
<1>9. CASE w - at \notin 1 .. MinSplit - 1
  <2>1. Wanted(at, a) = w /\ w # at + 1 BY <1>6, <1>9 DEF Wanted, MinSplit
  <2>. QED BY <1>7, <2>1
<1>. QED BY <1>8, <1>9

LEMMA FrontCutIs == ASSUME NEW h, Sound(h, {}), NEW b \in UsedOf(h), NEW nb \in Int, nb = b \/ (b + 2 <= nb /\ nb + 1 <= b + Size(h, b))
                    PROVE \E g : /\ g = FrontCut(h, b, nb) /\ Sound(g, {}) /\ UsedOf(g) = (UsedOf(h) \ {b}) \cup {nb}
                                 /\ AllKept(h, g, UsedOf(h) \ {b}) /\ Size(g, nb) = Size(h, b) - (nb - b) /\ (nb = b \/ nb \notin UsedOf(h))
<1>1. b \in Int /\ Size(h, b) \in Nat BY UsedWhere
<1>2. CASE nb = b
  <2>1. FrontCut(h, b, nb) = h /\ UsedOf(h) = (UsedOf(h) \ {b}) \cup {nb} BY <1>2 DEF FrontCut
  <2>2. AllKept(h, h, UsedOf(h) \ {b}) BY DEF AllKept, Kept
  <2>. QED BY <1>1, <1>2, <2>1, <2>2
<1>3. CASE nb # b
  <2>1. PICK size \in Int : size = nb - b - 1 /\ size >= 1 /\ size + 2 <= Size(h, b) BY <1>1, <1>3
  <2>2. PICK c \in Units, m \in Heaps : m = Cut(h, b, size) /\ CutInto(h, m, {}, b, c, size) BY <2>1, CutIs
  <2>3. /\ c = b + 1 + size /\ c \notin h.at /\ Sound(m, {}) /\ UsedOf(m) = UsedOf(h) \cup {c} /\ AllKept(h, m, UsedOf(h) \ {b})
        /\ Size(m, c) = Size(h, b) - size - 1
     BY <2>2 DEF CutInto
  <2>4. c = nb /\ Size(m, nb) = Size(h, b) - (nb - b) BY <1>1, <2>1, <2>3
  <2>5. c \notin UsedOf(h) BY <2>3 DEF UsedOf, BlocksOf
  <2>6. PICK g : /\ g = Release(m, b) /\ Sound(g, {}) /\ UsedOf(g) = UsedOf(m) \ {b} /\ AllKept(m, g, UsedOf(m) \ {b})
     BY <2>3, ReleaseIs
  <2>7. g = FrontCut(h, b, nb) BY <1>3, <2>1, <2>2, <2>6 DEF FrontCut
  <2>8. UsedOf(g) = (UsedOf(h) \ {b}) \cup {nb} BY <1>3, <2>3, <2>4, <2>6
  <2>9. AllKept(m, g, UsedOf(h) \ {b}) BY <2>3, <2>6 DEF AllKept
  <2>10. AllKept(h, g, UsedOf(h) \ {b}) BY <2>3, <2>9, KeptTwice
  <2>11. Size(g, nb) = Size(m, nb) BY <1>3, <2>3, <2>4, <2>6 DEF AllKept, Kept
  <2>. QED BY <2>4, <2>5, <2>6, <2>7, <2>8, <2>10, <2>11
<1>. QED BY <1>2, <1>3

LEMMA AlignedIs == ASSUME NEW h, NEW a \in Nat, a >= 2, NEW n \in Nat, n >= 1, NEW r, Takes(h, r, n + a + MinSplit)
                   PROVE Takes(h, AlignedIn(r, a, n), n)
<1>1. CASE r.b = Null
  <2>1. AlignedIn(r, a, n) = r BY <1>1 DEF AlignedIn
  <2>. QED BY <1>1, <2>1 DEF Takes
<1>2. CASE r.b # Null
  <2>1. PICK m : m = r.h OBVIOUS
  <2>2. PICK b : b = r.b OBVIOUS
  <2>3. /\ b # Null /\ b \notin UsedOf(h) /\ Sound(m, {}) /\ b \in UsedOf(m) /\ UsedOf(m) = UsedOf(h) \cup {b} /\ n + a + 2 <= Size(m, b)
        /\ AllKept(h, m, UsedOf(h))
     BY <1>2, <2>1, <2>2 DEF Takes, MinSplit
  <2>4. b \in Nat /\ b \in Int /\ Size(m, b) \in Nat BY <2>3, UsedWhere, UnitsBound
  <2>5. PICK nb \in Int : nb = Of(Wanted(Payload(b), a)) /\ (nb = b \/ (b + 2 <= nb /\ nb <= b + a + 1))
    <3>1. PICK at \in Nat : at = b + 1 BY <2>4
    <3>2. Wanted(at, a) \in Int /\ (Wanted(at, a) = at \/ (at + 2 <= Wanted(at, a) /\ Wanted(at, a) <= at + a + 1)) BY WantedIs
    <3>. QED BY <2>4, <3>1, <3>2 DEF Of, Payload
  <2>6. nb = b \/ (b + 2 <= nb /\ nb + 1 <= b + Size(m, b)) BY <2>3, <2>4, <2>5
  <2>7. PICK f : /\ f = FrontCut(m, b, nb) /\ Sound(f, {}) /\ UsedOf(f) = (UsedOf(m) \ {b}) \cup {nb}
                 /\ AllKept(m, f, UsedOf(m) \ {b}) /\ Size(f, nb) = Size(m, b) - (nb - b) /\ (nb = b \/ nb \notin UsedOf(m))
     BY <2>3, <2>6, FrontCutIs
  <2>8. n <= Size(f, nb) BY <2>3, <2>4, <2>5, <2>7
  <2>9. UsedOf(f) = UsedOf(h) \cup {nb} /\ UsedOf(m) \ {b} = UsedOf(h) /\ nb \notin UsedOf(h) /\ nb \in UsedOf(f) BY <2>3, <2>7
  <2>10. PICK g : g = Trim(f, nb, n) OBVIOUS
  <2>11. Keeps(f, g, {}, nb, n) BY <2>7, <2>8, <2>9, <2>10, TrimIs
  <2>12. UsedOf(f) \ {nb} = UsedOf(h) BY <2>9
  <2>13. AllKept(h, f, UsedOf(h)) /\ AllKept(f, g, UsedOf(h)) BY <2>3, <2>7, <2>9, <2>11, <2>12, KeptTwice DEF Keeps
  <2>14. AllKept(h, g, UsedOf(h)) BY <2>13, KeptTwice
  <2>15. nb \in Units BY <2>7, <2>9, UsedWhere
  <2>16. Takes(h, Found(g, nb), n) BY <2>9, <2>11, <2>14, <2>15, TookOne DEF Keeps
  <2>17. AlignedIn(r, a, n) = Found(g, nb) BY <1>2, <2>1, <2>2, <2>5, <2>7, <2>10 DEF AlignedIn, AlignedAt
  <2>. QED BY <2>16, <2>17
<1>. QED BY <1>1, <1>2

-----------------------------------------------------------------------------
(* A pointer that passes the checks is to a block in use. *)

LEMMA LiveIs == ASSUME NEW h, HeapIs(h), NEW p \in Int, LiveBlock(h, p)
                PROVE Sound(h, {}) /\ Of(p) \in UsedOf(h) /\ p = Payload(Of(p))
<1>1. h.first # Null BY DEF LiveBlock, InHeap
<1>2. Sound(h, {}) BY <1>1, NoneUsed DEF HeapIs
<1>3. /\ h \in Heaps /\ Tiled(h) /\ StaleOK(h, {}) /\ h.first = Start /\ h.first \in h.at /\ h.epilogue \in h.at /\ h.at \subseteq Units
   BY <1>2, TilesAre DEF Sound, Tiled
<1>4. PICK u \in Int : u = Of(p) /\ p = u + 1 BY DEF Of
<1>5. Start <= u /\ u < h.epilogue /\ Start \in Units /\ h.epilogue \in Int
  <2>1. h.epilogue \in Int /\ h.first \in Int BY <1>3, UnitsBound
  <2>. QED BY <1>3, <1>4, <2>1 DEF LiveBlock, InHeap, Payload
<1>6. u \in Units BY <1>3, <1>5, u <= h.epilogue, UnitsIn
<1>7. ~IsFree(h, u) /\ Size(h, u) >= 1 /\ (PrevIsFree(h, u) => PrevAgrees(h, u)) BY <1>4 DEF LiveBlock
<1>8. Deceives(h, {}, u) BY <1>3, <1>7 DEF Deceives, PrevAgrees
<1>9. u \in h.at BY <1>3, <1>6, <1>8 DEF StaleOK
<1>10. u \in UsedOf(h) BY <1>5, <1>7, <1>9 DEF UsedOf, FreeOf, BlocksOf
<1>. QED BY <1>2, <1>4, <1>10 DEF Payload

-----------------------------------------------------------------------------
(* The invariant *)

\* What the program wrote is there.
DataHeld == \A p \in DOMAIN live : live[p] \in Nat /\ \A u \in p .. p + live[p] - 1 : heap.mem[u] = Data
HeapInv == HeapIs(heap) /\ HeldBlocks /\ DataHeld /\ limit \in Stacks

Wrote(g, f, q, n) ==
    /\ Sound(f, {}) /\ UsedOf(f) = UsedOf(g) /\ AllKept(g, f, UsedOf(g) \ {q}) /\ n <= Size(f, q)
    /\ \A u \in Filled(q, n) : f.mem[u] = Data

LEMMA WrittenIs == ASSUME NEW g, NEW X, Sound(g, X), NEW q \in UsedOf(g), NEW n \in Nat, n <= Size(g, q), X \subseteq Filled(q, n),
                          NEW k \in Nat, \A i \in 1 .. k : i <= n => g.mem[q + i] = Data
                   PROVE Wrote(g, Written(g, Payload(q), k, n), q, n)
<1>1. g \in Heaps /\ q \in Int /\ Size(g, q) \in Nat /\ Interior(g, q) \subseteq Units BY UsedWhere
<1>2. PICK W : W = q + 1 + k .. q + n OBVIOUS
<1>3. PICK Y : Y = {} OBVIOUS
<1>4. Filled(q, n) \subseteq Interior(g, q) /\ W \subseteq Interior(g, q) BY <1>1, <1>2 DEF Filled, Interior
<1>5. W = Payload(q) + k .. Payload(q) + n - 1 BY <1>1, <1>2 DEF Payload
<1>6. PICK mem : mem = [u \in Units |-> IF u \in W THEN Data ELSE g.mem[u]] OBVIOUS
<1>7. mem \in [Units -> Heads]
  <2>1. g.mem \in [Units -> Heads] /\ Data \in Heads BY <1>1 DEF Heaps, Data, Header, Heads
  <2>. QED BY <1>6, <2>1
<1>8. PICK f \in Heaps : f = [g EXCEPT !.mem = mem] /\ f.mem = mem /\ SameLists(g, f) /\ f.first = g.first /\ f.epilogue = g.epilogue /\ f.at = g.at
  <2>1. [g EXCEPT !.mem = mem] \in Heaps BY <1>1, <1>7 DEF Heaps
  <2>. QED BY <1>1, <2>1 DEF Heaps, SameLists
<1>9. f = Written(g, Payload(q), k, n)
  <2>1. DOMAIN g.mem = Units BY <1>1 DEF Heaps
  <2>. QED BY <1>5, <1>6, <1>8, <2>1 DEF Written
<1>10. SameOff(g, f, W) BY <1>6, <1>8 DEF SameOff
<1>11. ASSUME NEW u \in Filled(q, n) PROVE f.mem[u] = Data
  <2>1. PICK i \in 1 .. n : u = q + i
    <3>1. u - q \in 1 .. n /\ u = q + (u - q) BY <1>1 DEF Filled
    <3>. QED BY <3>1
  <2>2. u \in Units BY <1>1, <1>4
  <2>3. CASE u \in W BY <1>6, <1>8, <2>2, <2>3
  <2>4. CASE u \notin W
    <3>1. i \in 1 .. k BY <1>1, <1>2, <2>1, <2>4
    <3>. QED BY <1>6, <1>8, <2>1, <2>2, <2>4, <3>1
  <2>. QED BY <2>3, <2>4
<1>12. Overwrites(g, f, q, W, X, Y)
  <2>1. \A u \in W : f.mem[u] = Data BY <1>1, <1>4, <1>6, <1>8
  <2>2. \A u \in X : f.mem[u] = Data BY <1>11
  <2>. QED BY <1>3, <1>4, <1>8, <1>10, <2>1, <2>2 DEF Overwrites
<1>13. Sound(f, Y) /\ UsedOf(f) = UsedOf(g) /\ AllKept(g, f, UsedOf(g) \ {q}) /\ Size(f, q) = Size(g, q) BY <1>12, OverwrittenIs
<1>. QED BY <1>3, <1>9, <1>11, <1>13 DEF Wrote

LEMMA ContentsFrom == ASSUME DataHeld, DataHeld', \A p \in DOMAIN live \ DOMAIN live', q \in DOMAIN live' \ DOMAIN live : live[p] <= live'[q],
                             DOMAIN live \subseteq Int, DOMAIN live' \subseteq Int
                      PROVE ContentsKeptStep
<1>1. ASSUME NEW p \in DOMAIN live, NEW q \in DOMAIN live', NEW n \in Int, n <= live[p], n <= live'[q] PROVE Same(p, q, n)
  <2>1. live[p] \in Nat /\ live'[q] \in Nat /\ p \in Int /\ q \in Int BY DEF DataHeld
  <2>2. SUFFICES ASSUME NEW i \in 0 .. n - 1 PROVE heap'.mem[q + i] = heap.mem[p + i] BY DEF Same
  <2>3. p + i \in p .. p + live[p] - 1 /\ q + i \in q .. q + live'[q] - 1 BY <1>1, <2>1
  <2>. QED BY <2>3 DEF DataHeld
<1>2. ASSUME NEW p \in DOMAIN live \cap DOMAIN live' PROVE Same(p, p, Smaller(live[p], live'[p]))
  <2>1. live[p] \in Nat /\ live'[p] \in Nat BY DEF DataHeld
  <2>2. PICK n \in Int : n = Smaller(live[p], live'[p]) /\ n <= live[p] /\ n <= live'[p] BY <2>1 DEF Smaller
  <2>. QED BY <1>1, <2>2
<1>3. ASSUME NEW p \in DOMAIN live \ DOMAIN live', NEW q \in DOMAIN live' \ DOMAIN live PROVE Same(p, q, live[p])
  <2>1. live[p] \in Nat /\ live[p] \in Int /\ live'[q] \in Nat /\ live[p] <= live'[q] /\ live[p] <= live[p] BY DEF DataHeld
  <2>. QED BY <1>1, <2>1
<1>. QED BY <1>2, <1>3 DEF ContentsKeptStep

\* Where what is held lies
LEMMA HeldWhere == ASSUME HeapInv
                   PROVE /\ DOMAIN live \subseteq Int /\ Null \notin DOMAIN live /\ limit \in 0 .. Top
                         /\ \A b : b \in UsedOf(heap) => b \in Int /\ b >= 1 /\ Payload(b) \in DOMAIN live /\ Of(Payload(b)) = b
                         /\ \A p \in DOMAIN live : /\ Of(p) \in UsedOf(heap) /\ p = Payload(Of(p)) /\ live[p] \in Nat /\ live[p] <= Size(heap, Of(p))
                                                   /\ Size(heap, Of(p)) \in Nat /\ Sound(heap, {})
<1>1. HeapIs(heap) /\ {Payload(b) : b \in UsedOf(heap)} = DOMAIN live /\ \A p \in DOMAIN live : live[p] <= Size(heap, Of(p)) /\ live[p] \in Nat
   BY DEF HeapInv, HeldBlocks, DataHeld
<1>2. ASSUME NEW b, b \in UsedOf(heap)
      PROVE b \in Int /\ b >= 1 /\ Payload(b) \in DOMAIN live /\ Of(Payload(b)) = b /\ Sound(heap, {}) /\ Size(heap, b) \in Nat
  <2>1. Sound(heap, {}) BY <1>1, <1>2, NoneUsed DEF HeapIs
  <2>2. b \in Int /\ b >= 1 /\ Size(heap, b) \in Nat BY <1>2, <2>1, UsedWhere
  <2>3. Of(Payload(b)) = b BY <2>2 DEF Of, Payload
  <2>. QED BY <1>1, <1>2, <2>1, <2>2, <2>3
<1>3. ASSUME NEW p \in DOMAIN live PROVE Of(p) \in UsedOf(heap) /\ p = Payload(Of(p)) /\ p \in Int /\ p # Null
  <2>1. PICK b \in UsedOf(heap) : p = Payload(b) BY <1>1
  <2>2. b \in Int /\ b >= 1 /\ Of(p) = b BY <1>2, <2>1
  <2>. QED BY <2>1, <2>2 DEF Payload, Null
<1>4. limit \in 0 .. Top BY HeapAssumption DEF HeapInv
<1>. QED BY <1>1, <1>2, <1>3, <1>4

LEMMA HeldStill == ASSUME HeapInv, NEW g, NEW p \in DOMAIN live, Kept(heap, g, Of(p))
                   PROVE live[p] <= Size(g, Of(p)) /\ \A u \in p .. p + live[p] - 1 : g.mem[u] = Data
<1>1. /\ Of(p) \in UsedOf(heap) /\ p = Payload(Of(p)) /\ live[p] \in Nat /\ live[p] <= Size(heap, Of(p)) /\ Size(heap, Of(p)) \in Nat
   BY HeldWhere
<1>2. Of(p) \in Int BY <1>1, HeldWhere
<1>3. PICK b \in Int : b = Of(p) /\ p = b + 1 BY <1>1, <1>2 DEF Payload
<1>4. ASSUME NEW u \in p .. p + live[p] - 1 PROVE g.mem[u] = Data
  <2>1. u \in Interior(heap, b) BY <1>1, <1>3 DEF Interior
  <2>2. heap.mem[u] = Data BY DEF HeapInv, DataHeld
  <2>. QED BY <1>3, <2>1, <2>2 DEF Kept
<1>. QED BY <1>1, <1>4 DEF Kept

\* Nothing is given, though the heap may have begun.
LEMMA StayedIs == ASSUME HeapInv, HeapIs(heap'), UsedOf(heap') = UsedOf(heap), AllKept(heap, heap', UsedOf(heap)), live' = live, limit' \in Stacks
                  PROVE HeapInv' /\ ContentsKeptStep
<1>1. ASSUME NEW p \in DOMAIN live PROVE live[p] <= Size(heap', Of(p)) /\ live[p] \in Nat /\ \A u \in p .. p + live[p] - 1 : heap'.mem[u] = Data
  <2>1. Of(p) \in UsedOf(heap) /\ live[p] \in Nat BY HeldWhere
  <2>2. Kept(heap, heap', Of(p)) BY <2>1 DEF AllKept
  <2>. QED BY <2>1, <2>2, HeldStill
<1>2. {Payload(b) : b \in UsedOf(heap)} = DOMAIN live BY DEF HeapInv, HeldBlocks
<1>3. HeldBlocks' BY <1>1, <1>2 DEF HeldBlocks
<1>4. DataHeld' BY <1>1 DEF DataHeld
<1>5. ContentsKeptStep BY <1>4, HeldWhere, ContentsFrom DEF HeapInv
<1>. QED BY <1>3, <1>4, <1>5 DEF HeapInv

\* The program holds the block at q, in place of the one at old if it held one.
LEMMA GivenIs == ASSUME HeapInv, NEW old, old = Null \/ old \in DOMAIN live, NEW C, C = UsedOf(heap) \ {Of(old)},
                        NEW q, q \notin C, NEW n \in Nat, Sound(heap', {}), UsedOf(heap') = C \cup {q}, AllKept(heap, heap', C),
                        n <= Size(heap', q), \A u \in Filled(q, n) : heap'.mem[u] = Data,
                        live' = Holds(Without(live, old), Payload(q), n), limit' = limit,
                        old = Null \/ q = Of(old) \/ live[old] <= n
                 PROVE HeapInv' /\ ContentsKeptStep
<1>1. q \in Int /\ q \in UsedOf(heap') BY UsedWhere
<1>2. PICK pq \in Int : pq = Payload(q) /\ pq = q + 1 /\ Of(pq) = q BY <1>1 DEF Payload, Of
<1>3. DOMAIN live \subseteq Int /\ Null \notin DOMAIN live /\ {Payload(b) : b \in UsedOf(heap)} = DOMAIN live
   BY HeldWhere DEF HeapInv, HeldBlocks
<1>4. /\ DOMAIN live' = (DOMAIN live \ {old}) \cup {pq} /\ live'[pq] = n
      /\ \A p \in DOMAIN live \ {old} : p # pq => live'[p] = live[p]
  <2>1. DOMAIN Without(live, old) = DOMAIN live \ {old} /\ \A p \in DOMAIN live \ {old} : Without(live, old)[p] = live[p] BY DEF Without
  <2>2. PICK w : w = Without(live, old) OBVIOUS
  <2>3. live' = [p \in DOMAIN w \cup {pq} |-> IF p = pq THEN n ELSE w[p]] BY <1>2, <2>2 DEF Holds
  <2>. QED BY <2>1, <2>2, <2>3
<1>5. ASSUME NEW p \in DOMAIN live \ {old} PROVE Of(p) \in C /\ p # pq /\ p = Payload(Of(p))
  <2>1. Of(p) \in UsedOf(heap) /\ p = Payload(Of(p)) BY HeldWhere
  <2>2. Of(p) # Of(old)
    <3>1. CASE old = Null
      <4>1. Of(p) \in Int /\ Of(p) >= 1 BY <2>1, HeldWhere
      <4>. QED BY <3>1, <4>1 DEF Of, Null
    <3>2. CASE old \in DOMAIN live
      <4>1. old = Payload(Of(old)) BY <3>2, HeldWhere
      <4>. QED BY <2>1, <4>1
    <3>. QED BY <3>1, <3>2
  <2>. QED BY <1>2, <2>1, <2>2
<1>6. ASSUME NEW b \in C PROVE Payload(b) \in DOMAIN live \ {old}
  <2>1. b \in UsedOf(heap) /\ b # Of(old) BY <1>6
  <2>2. Payload(b) \in DOMAIN live /\ Of(Payload(b)) = b BY <2>1, HeldWhere
  <2>. QED BY <2>1, <2>2
<1>7. ASSUME NEW p \in DOMAIN live \ {old}
      PROVE live'[p] = live[p] /\ live[p] <= Size(heap', Of(p)) /\ live[p] \in Nat /\ \A u \in p .. p + live[p] - 1 : heap'.mem[u] = Data
  <2>1. Kept(heap, heap', Of(p)) BY <1>5 DEF AllKept
  <2>2. live[p] \in Nat BY HeldWhere
  <2>. QED BY <1>4, <1>5, <2>1, <2>2, HeldStill
<1>8. HeldBlocks'
  <2>1. {Payload(b) : b \in UsedOf(heap')} = DOMAIN live'
    <3>1. \A b \in UsedOf(heap') : Payload(b) \in DOMAIN live' BY <1>2, <1>4, <1>6
    <3>2. \A p \in DOMAIN live' : \E b \in UsedOf(heap') : p = Payload(b) BY <1>1, <1>2, <1>4, <1>5
    <3>. QED BY <3>1, <3>2
  <2>2. \A p \in DOMAIN live' : live'[p] <= Size(heap', Of(p)) BY <1>2, <1>4, <1>7
  <2>. QED BY <2>1, <2>2 DEF HeldBlocks
<1>9. DataHeld'
  <2>1. \A u \in pq .. pq + n - 1 : heap'.mem[u] = Data
    <3>1. \A u \in pq .. pq + n - 1 : u \in Filled(q, n) BY <1>1, <1>2 DEF Filled
    <3>. QED BY <3>1
  <2>. QED BY <1>4, <1>7, <2>1 DEF DataHeld
<1>10. ContentsKeptStep
  <2>1. ASSUME NEW p \in DOMAIN live \ DOMAIN live', NEW r \in DOMAIN live' \ DOMAIN live PROVE live[p] <= live'[r]
    <3>1. p = old /\ r = pq /\ old # Null BY <1>3, <1>4, <2>1
    <3>2. old = Payload(Of(old)) BY <2>1, <3>1, HeldWhere
    <3>3. q # Of(old) BY <1>2, <2>1, <3>1, <3>2
    <3>. QED BY <1>4, <3>1, <3>3
  <2>2. DOMAIN live' \subseteq Int BY <1>3, <1>4
  <2>3. DataHeld BY DEF HeapInv
  <2>. QED BY <1>3, <1>9, <2>1, <2>2, <2>3, ContentsFrom
<1>. QED BY <1>8, <1>9, <1>10 DEF HeapInv, HeapIs

\* malloc, calloc, aligned_alloc
LEMMA TakenKeeps == ASSUME HeapInv, NEW n \in Nat, n >= 1, NEW r, Takes(heap, r, n), Gives(Null, n, r)
                    PROVE HeapInv' /\ ContentsKeptStep
<1>1. limit' = limit /\ limit' \in Stacks BY DEF Gives, HeapInv
<1>2. CASE r.b = Null
  <2>1. heap' = r.h /\ live' = live BY <1>2 DEF Gives
  <2>. QED BY <1>1, <1>2, <2>1, StayedIs DEF Takes
<1>3. CASE r.b # Null
  <2>1. PICK g : g = r.h OBVIOUS
  <2>2. PICK q : q = r.b OBVIOUS
  <2>3. /\ q \notin UsedOf(heap) /\ Sound(g, {}) /\ UsedOf(g) = UsedOf(heap) \cup {q} /\ q \in UsedOf(g) /\ n <= Size(g, q)
        /\ AllKept(heap, g, UsedOf(heap))
     BY <1>3, <2>1, <2>2 DEF Takes
  <2>4. heap' = Written(g, Payload(q), 0, n) /\ live' = Holds(Without(live, Null), Payload(q), n)
     BY <1>3, <2>1, <2>2 DEF Gives, WrittenTo
  <2>5. PICK X : X = {} OBVIOUS
  <2>6. X \subseteq Filled(q, n) /\ 0 \in Nat /\ \A i \in 1 .. 0 : i <= n => g.mem[q + i] = Data BY <2>5
  <2>7. Wrote(g, heap', q, n) BY <2>3, <2>4, <2>5, <2>6, WrittenIs
  <2>8. PICK C : C = UsedOf(heap) \ {Of(Null)} OBVIOUS
  <2>9. C = UsedOf(heap)
    <3>1. \A b \in UsedOf(heap) : b \in Int /\ b >= 1 BY HeldWhere
    <3>2. Of(Null) = -1 BY DEF Of, Null
    <3>. QED BY <2>8, <3>1, <3>2
  <2>10. UsedOf(g) \ {q} = UsedOf(heap) BY <2>3
  <2>11. AllKept(heap, heap', C)
    <3>1. AllKept(g, heap', C) BY <2>7, <2>9, <2>10 DEF Wrote
    <3>. QED BY <2>3, <2>9, <3>1, KeptTwice
  <2>12. q \notin C /\ UsedOf(heap') = C \cup {q} BY <2>3, <2>7, <2>9 DEF Wrote
  <2>13. Sound(heap', {}) /\ n <= Size(heap', q) /\ \A u \in Filled(q, n) : heap'.mem[u] = Data BY <2>7 DEF Wrote
  <2>. QED BY <1>1, <2>4, <2>8, <2>11, <2>12, <2>13, GivenIs
<1>. QED BY <1>2, <1>3

\* realloc
LEMMA ResizedKeeps == ASSUME HeapInv, NEW p \in DOMAIN live, NEW n \in Nat, n >= 1, NEW r, Resizes(heap, r, Of(p), n), Gives(p, n, r)
                      PROVE HeapInv' /\ ContentsKeptStep
<1>1. limit' = limit /\ limit' \in Stacks BY DEF Gives, HeapInv
<1>2. PICK b : b = Of(p) OBVIOUS
<1>3. /\ b \in UsedOf(heap) /\ b \in Int /\ b >= 1 /\ p = b + 1 /\ p # Null /\ live[p] \in Nat /\ live[p] <= Size(heap, b) /\ Size(heap, b) \in Nat
  <2>1. /\ Of(p) \in UsedOf(heap) /\ p = Payload(Of(p)) /\ live[p] \in Nat /\ live[p] <= Size(heap, Of(p)) /\ Size(heap, Of(p)) \in Nat /\ p # Null
     BY HeldWhere
  <2>. QED BY <1>2, <2>1, HeldWhere DEF Payload
<1>4. \A i \in 1 .. live[p] : heap.mem[b + i] = Data /\ b + i \in Interior(heap, b) /\ i \in 1 .. Size(heap, b)
  <2>1. \A u \in p .. p + live[p] - 1 : heap.mem[u] = Data BY DEF HeapInv, DataHeld
  <2>2. \A i \in 1 .. live[p] : b + i \in p .. p + live[p] - 1 /\ b + i \in Interior(heap, b) /\ i \in 1 .. Size(heap, b) BY <1>3 DEF Interior
  <2>. QED BY <2>1, <2>2
<1>5. PICK g : g = r.h OBVIOUS
<1>6. PICK C : C = UsedOf(heap) \ {Of(p)} OBVIOUS
<1>7. CASE r.b = Null
  <2>1. heap' = r.h /\ live' = live BY <1>7 DEF Gives
  <2>2. HeapIs(r.h) /\ UsedOf(r.h) = UsedOf(heap) /\ AllKept(heap, r.h, UsedOf(heap)) BY <1>2, <1>3, <1>7 DEF Resizes, Moved, Null
  <2>. QED BY <1>1, <2>1, <2>2, StayedIs
<1>8. CASE r.b # Null /\ r.b = b /\ Keeps(heap, g, {}, b, n)
  <2>1. heap' = Written(g, Payload(b), live[p], n) /\ live' = Holds(Without(live, p), Payload(b), n)
     BY <1>3, <1>5, <1>8 DEF Gives, WrittenTo
  <2>2. Sound(g, {}) /\ UsedOf(g) = UsedOf(heap) /\ AllKept(heap, g, C) /\ n <= Size(g, b) /\ b \in UsedOf(g) BY <1>2, <1>3, <1>6, <1>8 DEF Keeps
  <2>3. PICK X : X = {} OBVIOUS
  <2>4. X \subseteq Filled(b, n) BY <2>3
  <2>5. \A i \in 1 .. live[p] : i <= n => g.mem[b + i] = Data
    <3>1. \A i \in 1 .. live[p] : i <= n => b + i <= b + n BY <1>3
    <3>. QED BY <1>4, <1>8, <3>1 DEF Keeps
  <2>6. Wrote(g, heap', b, n) BY <1>3, <2>1, <2>2, <2>3, <2>4, <2>5, WrittenIs
  <2>7. AllKept(heap, heap', C)
    <3>1. AllKept(g, heap', C) BY <1>2, <1>6, <2>2, <2>6 DEF Wrote
    <3>. QED BY <2>2, <3>1, KeptTwice
  <2>8. b \notin C /\ UsedOf(heap') = C \cup {b} BY <1>2, <1>3, <1>6, <2>2, <2>6 DEF Wrote
  <2>9. Sound(heap', {}) /\ n <= Size(heap', b) /\ \A u \in Filled(b, n) : heap'.mem[u] = Data BY <2>6 DEF Wrote
  <2>. QED BY <1>1, <1>2, <1>6, <2>1, <2>7, <2>8, <2>9, GivenIs
<1>9. CASE r.b # Null /\ Moved(heap, g, b, r.b, n)
  <2>1. PICK q : q = r.b OBVIOUS
  <2>2. /\ q \notin UsedOf(heap) /\ n > Size(heap, b) /\ Sound(g, Filled(q, Size(heap, b))) /\ UsedOf(g) = C \cup {q} /\ AllKept(heap, g, C)
        /\ n <= Size(g, q) /\ q \in UsedOf(g) /\ \A i \in 1 .. Size(heap, b) : g.mem[q + i] = heap.mem[b + i]
     BY <1>2, <1>6, <1>9, <2>1 DEF Moved
  <2>3. heap' = Written(g, Payload(q), live[p], n) /\ live' = Holds(Without(live, p), Payload(q), n)
     BY <1>3, <1>5, <1>9, <2>1 DEF Gives, WrittenTo
  <2>4. q \in Int BY <2>2, UsedWhere
  <2>5. Filled(q, Size(heap, b)) \subseteq Filled(q, n) BY <1>3, <2>2, <2>4 DEF Filled
  <2>6. \A i \in 1 .. live[p] : i <= n => g.mem[q + i] = Data BY <1>4, <2>2
  <2>7. Wrote(g, heap', q, n) BY <1>3, <2>2, <2>3, <2>5, <2>6, WrittenIs
  <2>8. q \notin C /\ UsedOf(g) \ {q} = C BY <1>6, <2>2
  <2>9. AllKept(heap, heap', C)
    <3>1. AllKept(g, heap', C) BY <2>7, <2>8 DEF Wrote
    <3>. QED BY <2>2, <3>1, KeptTwice
  <2>10. UsedOf(heap') = C \cup {q} /\ Sound(heap', {}) /\ n <= Size(heap', q) /\ \A u \in Filled(q, n) : heap'.mem[u] = Data
     BY <2>2, <2>7 DEF Wrote
  <2>11. live[p] <= n BY <1>3, <2>2
  <2>. QED BY <1>1, <1>6, <2>3, <2>8, <2>9, <2>10, <2>11, GivenIs
<1>. QED BY <1>2, <1>5, <1>7, <1>8, <1>9 DEF Resizes

\* free
LEMMA FreedKeeps == ASSUME HeapInv, NEW p \in Int, LiveBlock(heap, p), Freed(p) PROVE HeapInv' /\ ContentsKeptStep
<1>1. Sound(heap, {}) /\ Of(p) \in UsedOf(heap) /\ p = Payload(Of(p)) BY LiveIs DEF HeapInv
<1>2. PICK b : b = Of(p) OBVIOUS
<1>3. PICK g : /\ g = Release(heap, b) /\ Sound(g, {}) /\ UsedOf(g) = UsedOf(heap) \ {b} /\ AllKept(heap, g, UsedOf(heap) \ {b})
   BY <1>1, <1>2, ReleaseIs
<1>4. heap' = g /\ live' = Without(live, p) /\ limit' = limit BY <1>2, <1>3 DEF Freed
<1>5. DOMAIN live' = DOMAIN live \ {p} /\ \A r \in DOMAIN live \ {p} : live'[r] = live[r] BY <1>4 DEF Without
<1>6. ASSUME NEW r \in DOMAIN live \ {p} PROVE Of(r) \in UsedOf(heap) /\ Of(r) # b /\ r = Payload(Of(r)) BY <1>1, <1>2, HeldWhere
<1>7. ASSUME NEW c \in UsedOf(heap), c # b PROVE Payload(c) \in DOMAIN live \ {p} BY <1>1, <1>2, <1>7, HeldWhere
<1>8. ASSUME NEW r \in DOMAIN live \ {p}
      PROVE live[r] <= Size(g, Of(r)) /\ live[r] \in Nat /\ \A u \in r .. r + live[r] - 1 : g.mem[u] = Data
  <2>1. Kept(heap, g, Of(r)) /\ live[r] \in Nat BY <1>3, <1>6, HeldWhere DEF AllKept
  <2>. QED BY <2>1, HeldStill
<1>9. HeldBlocks'
  <2>1. {Payload(c) : c \in UsedOf(g)} = DOMAIN live'
    <3>1. \A c \in UsedOf(g) : Payload(c) \in DOMAIN live' BY <1>3, <1>5, <1>7
    <3>2. \A r \in DOMAIN live' : \E c \in UsedOf(g) : r = Payload(c) BY <1>3, <1>5, <1>6
    <3>. QED BY <3>1, <3>2
  <2>. QED BY <1>4, <1>5, <1>8, <2>1 DEF HeldBlocks
<1>10. DataHeld' BY <1>4, <1>5, <1>8 DEF DataHeld
<1>11. ContentsKeptStep
  <2>1. DataHeld /\ DOMAIN live \subseteq Int /\ DOMAIN live' \subseteq Int /\ DOMAIN live' \ DOMAIN live = {} BY <1>5, HeldWhere DEF HeapInv
  <2>. QED BY <1>10, <2>1, ContentsFrom
<1>. QED BY <1>3, <1>4, <1>9, <1>10, <1>11 DEF HeapInv, HeapIs

LEMMA NothingKeeps == ASSUME HeapInv, heap' = heap, live' = live, limit' \in Stacks PROVE HeapInv' /\ ContentsKeptStep
<1>1. AllKept(heap, heap, UsedOf(heap)) BY DEF AllKept, Kept
<1>. QED BY <1>1, StayedIs DEF HeapInv

LEMMA MallocKeeps == ASSUME HeapInv, NEW n \in Nat, Malloc(n) PROVE HeapInv' /\ ContentsKeptStep
<1>1. CASE Nothing BY <1>1, NothingKeeps DEF Nothing, heapVars, HeapInv
<1>2. CASE n > 0 /\ Gives(Null, n, MallocIn(heap, n))
  <2>1. PICK r : r = MallocIn(heap, n) OBVIOUS
  <2>2. n >= 1 /\ limit \in 0 .. Top BY <1>2, HeldWhere
  <2>3. Takes(heap, r, n) BY <2>1, <2>2, MallocIs DEF HeapInv
  <2>. QED BY <1>2, <2>1, <2>2, <2>3, TakenKeeps
<1>. QED BY <1>1, <1>2 DEF Malloc

LEMMA AlignedKeeps == ASSUME HeapInv, NEW a \in Nat, NEW n \in Nat, AlignedAlloc(a, n) PROVE HeapInv' /\ ContentsKeptStep
<1>1. CASE Malloc(n) BY <1>1, MallocKeeps
<1>2. CASE Nothing BY <1>2, NothingKeeps DEF Nothing, heapVars, HeapInv
<1>3. CASE a \in 2 .. MaxRequest /\ n \in 1 .. MaxRequest /\ Gives(Null, n, AlignedIn(Take(heap, n + a + MinSplit), a, n))
  <2>1. PICK size \in Nat : size = n + a + MinSplit /\ size = n + a + 2 /\ size >= 1 BY DEF MinSplit
  <2>2. 2 * size <= 2 ^ Word BY <1>3, <2>1, HeapAssumption, 2 ^ 28 = 268435456, 2 ^ 31 = 2147483648, SMT DEF Word
  <2>3. PICK r : r = Take(heap, size) OBVIOUS
  <2>4. Takes(heap, r, n + a + MinSplit) BY <2>1, <2>2, <2>3, TakeIs, HeldWhere DEF HeapInv
  <2>5. a >= 2 /\ n >= 1 BY <1>3
  <2>6. PICK s : s = AlignedIn(r, a, n) OBVIOUS
  <2>7. Takes(heap, s, n) BY <2>4, <2>5, <2>6, AlignedIs
  <2>8. Gives(Null, n, s) BY <1>3, <2>1, <2>3, <2>6
  <2>. QED BY <2>5, <2>7, <2>8, TakenKeeps
<1>. QED BY <1>1, <1>2, <1>3 DEF AlignedAlloc

LEMMA FreeKeeps == ASSUME HeapInv, NEW p \in Int, Free_(p) PROVE HeapInv' /\ ContentsKeptStep
<1>1. CASE Nothing BY <1>1, NothingKeeps DEF Nothing, heapVars, HeapInv
<1>2. CASE LiveBlock(heap, p) /\ Freed(p) BY <1>2, FreedKeeps
<1>. QED BY <1>1, <1>2 DEF Free_

LEMMA ReallocKeeps == ASSUME HeapInv, NEW p \in Int, NEW n \in Nat, Realloc(p, n) PROVE HeapInv' /\ ContentsKeptStep
<1>1. CASE Malloc(n) BY <1>1, MallocKeeps
<1>2. CASE Free_(p) BY <1>2, FreeKeeps
<1>3. CASE Nothing BY <1>3, NothingKeeps DEF Nothing, heapVars, HeapInv
<1>4. CASE n \in 1 .. MaxRequest /\ LiveBlock(heap, p) /\ Gives(p, n, Realloced(heap, Of(p), n))
  <2>1. Sound(heap, {}) /\ Of(p) \in UsedOf(heap) /\ p = Payload(Of(p)) BY <1>4, LiveIs DEF HeapInv
  <2>2. p \in DOMAIN live /\ n >= 1 BY <1>4, <2>1, HeldWhere
  <2>3. PICK r : r = Realloced(heap, Of(p), n) OBVIOUS
  <2>4. Resizes(heap, r, Of(p), n) BY <2>1, <2>2, <2>3, ReallocedIs, HeldWhere
  <2>. QED BY <1>4, <2>2, <2>3, <2>4, ResizedKeeps
<1>. QED BY <1>1, <1>2, <1>3, <1>4 DEF Realloc

LEMMA HeapBegins == InitHeap => HeapInv
<1>1. SUFFICES ASSUME InitHeap PROVE HeapInv OBVIOUS
<1>2. heap = NoHeap /\ limit \in Stacks /\ DOMAIN live = {} BY <1>1 DEF InitHeap
<1>3. {Payload(b) : b \in UsedOf(heap)} = {} BY <1>2, NoneUsed
<1>. QED BY <1>2, <1>3 DEF HeapInv, HeapIs, HeldBlocks, DataHeld

LEMMA HeapSteps == ASSUME HeapInv, [NextHeap]_heapVars PROVE HeapInv' /\ ContentsKeptStep
<1>1. Sizes \subseteq Nat /\ Alignments \subseteq Nat /\ SizeMax \in Nat BY HeapAssumption
<1>2. Pointers \subseteq Int /\ Null \in Int /\ Top + 2 \in Int BY HeapAssumption DEF Pointers, Null
<1>3. CASE UNCHANGED heapVars BY <1>3, NothingKeeps DEF heapVars, HeapInv
<1>4. ASSUME NEW n \in Sizes, Malloc(n) PROVE HeapInv' /\ ContentsKeptStep BY <1>1, <1>4, MallocKeeps
<1>5. ASSUME NEW n \in Sizes, NEW size \in Sizes, Calloc(n, size) PROVE HeapInv' /\ ContentsKeptStep
  <2>1. CASE Nothing BY <2>1, NothingKeeps DEF Nothing, heapVars, HeapInv
  <2>2. CASE Malloc((n * size) % (SizeMax + 1))
    <3>1. PICK x \in Nat : x = n * size BY <1>1
    <3>2. PICK w \in Nat : w = SizeMax + 1 /\ w >= 1 BY <1>1
    <3>3. x % w \in Nat BY <3>2
    <3>4. PICK y \in Nat : y = (n * size) % (SizeMax + 1) BY <3>1, <3>2, <3>3
    <3>. QED BY <2>2, <3>4, MallocKeeps
  <2>. QED BY <1>5, <2>1, <2>2 DEF Calloc
<1>6. ASSUME NEW p \in Pointers \cup {Null, Top + 2}, Free_(p) PROVE HeapInv' /\ ContentsKeptStep BY <1>2, <1>6, FreeKeeps
<1>7. ASSUME NEW p \in Pointers \cup {Null}, NEW n \in Sizes, Realloc(p, n) PROVE HeapInv' /\ ContentsKeptStep BY <1>1, <1>2, <1>7, ReallocKeeps
<1>8. ASSUME NEW a \in Alignments, NEW n \in Sizes, AlignedAlloc(a, n) PROVE HeapInv' /\ ContentsKeptStep BY <1>1, <1>8, AlignedKeeps
<1>9. CASE StackMoves BY <1>9, NothingKeeps DEF StackMoves
<1>. QED BY <1>3, <1>4, <1>5, <1>6, <1>7, <1>8, <1>9 DEF NextHeap

LEMMA InvHolds == ASSUME HeapInv PROVE HeapHolds
<1>1. HeapSound BY DEF HeapInv, HeapIs, HeapSound, Sound
<1>2. StaleFound
  <2>1. SUFFICES ASSUME NEW p \in Pointers, LiveBlock(heap, p) PROVE p \in DOMAIN live BY DEF StaleFound
  <2>2. p \in Int BY HeapAssumption DEF Pointers
  <2>3. Of(p) \in UsedOf(heap) /\ p = Payload(Of(p)) BY <2>1, <2>2, LiveIs DEF HeapInv
  <2>. QED BY <2>3, HeldWhere
<1>. QED BY <1>1, <1>2 DEF HeapInv, HeapHolds

\* The heap is not begun or sound, the program holds the blocks in use and no others, and what it
\* wrote is in them: what every call of malloc.c keeps, one that fails included.
THEOREM HeapInvariant == SpecHeap => []HeapInv
<1>1. InitHeap => HeapInv BY HeapBegins
<1>2. HeapInv /\ [NextHeap]_heapVars => HeapInv' BY HeapSteps
<1>. QED BY <1>1, <1>2, PTL DEF SpecHeap

\* heap_check finds nothing at any time: blocks tile the heap, no free neighbours, exact lists and
\* bitmaps; each block is held by one owner and as large as asked for; and a pointer freed before is
\* told from a live one, whatever was merged over it since (live_block, "freed and since swallowed").
THEOREM HeapIsSound == SpecHeap => []HeapHolds
<1>1. HeapInv => HeapHolds BY InvHolds
<1>. QED BY <1>1, HeapInvariant, PTL

\* No call writes to what the program holds: headers, list pointers and copies stay off it, and
\* realloc takes it along when the block moves.
THEOREM ContentsAreKept == SpecHeap => ContentsKept
<1>1. HeapInv /\ [NextHeap]_heapVars => [ContentsKeptStep]_heapVars BY HeapSteps
<1>. QED BY <1>1, HeapInvariant, PTL DEF SpecHeap, ContentsKept
=============================================================================
