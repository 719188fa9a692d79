-------------------------------- MODULE Sets ---------------------------------
(***************************************************************************)
(* Sets: the bit set with the Bloom filter on it, and the disjoint sets.   *)
(***************************************************************************)
EXTENDS Integers, FiniteSetsExt

-----------------------------------------------------------------------------
\* The bit set of src/ceres/ds/bitset.c, in words, and the Bloom filter of
\* src/ceres/ds/bloom.c on one.
\* "told" is not in the code: the bits, or the filter's items, put in.

CONSTANTS WordBits,    \* 32
          Lengths,     \* nbits
          Items,       \* of the filter
          Hash1, Hash2,    \* their two hashes
          Probes,      \* k
          IsBloom      \* used as a filter, or as a set

VARIABLES words, nbits, told

bitsVars == <<words, nbits, told>>

\* A word is the set of its bits.
Word == 0 .. WordBits - 1
WordCount(n) == n \div WordBits + (IF n % WordBits # 0 THEN 1 ELSE 0)
Clean(n) == [w \in 0 .. WordCount(n) - 1 |-> {}]

Has(i) == i % WordBits \in words[i \div WordBits]
Including(s, i) == [s EXCEPT ![i \div WordBits] = @ \cup {i % WordBits}]
Excluding(s, i) == [s EXCEPT ![i \div WordBits] = @ \ {i % WordBits}]

\* The bits past the end of the last word stay clear.
SetAll(n) ==
    [w \in DOMAIN Clean(n) |-> IF w = WordCount(n) - 1 /\ n % WordBits # 0 THEN 0 .. (n % WordBits) - 1 ELSE Word]

CountAll == MapThenSumSet(LAMBDA w : Cardinality(words[w]), DOMAIN words)
Below(bit) == IF bit < nbits THEN bit ELSE -1
FindFirst(full) ==
    LET found == {w \in DOMAIN words : words[w] # full}
        free(w) == IF full = {} THEN words[w] ELSE full \ words[w]
    IN  IF found = {} THEN -1 ELSE Below(Min(found) * WordBits + Min(free(Min(found))))
FindFirstSet == FindFirst({})
FindFirstClear == FindFirst(Word)

\* The bits of an item: h1 + i * h2, h2 made odd
Odd(h) == IF h % 2 = 0 THEN h + 1 ELSE h
BitsOf(x) == {(Hash1[x] + i * Odd(Hash2[x])) % nbits : i \in 0 .. Probes - 1}
MaybeHas(x) == nbits > 0 /\ \A i \in BitsOf(x) : Has(i)

-----------------------------------------------------------------------------
Set(i) == words' = Including(words, i) /\ told' = told \cup {i} /\ UNCHANGED nbits
ClearBit(i) == words' = Excluding(words, i) /\ told' = told \ {i} /\ UNCHANGED nbits
Toggle(i) == /\ words' = IF Has(i) THEN Excluding(words, i) ELSE Including(words, i)
             /\ told' = (told \ {i}) \cup ({i} \ told) /\ UNCHANGED nbits
SetEvery == words' = SetAll(nbits) /\ told' = 0 .. nbits - 1 /\ UNCHANGED nbits
ClearAll == words' = Clean(nbits) /\ told' = {} /\ UNCHANGED nbits
BloomAdd(x) ==
    /\ words' = IF nbits = 0 THEN words
                ELSE [w \in DOMAIN words |-> words[w] \cup {i % WordBits : i \in {j \in BitsOf(x) : j \div WordBits = w}}]
    /\ told' = told \cup {x} /\ UNCHANGED nbits

InitBits == nbits \in Lengths /\ words = Clean(nbits) /\ told = {}
NextBits == \/ ~IsBloom /\ \E i \in 0 .. nbits - 1 : Set(i) \/ ClearBit(i) \/ Toggle(i)
            \/ ~IsBloom /\ SetEvery
            \/ IsBloom /\ \E x \in Items : BloomAdd(x)
            \/ ClearAll

-----------------------------------------------------------------------------
(* What they promise *)

\* The set counts and finds its bits, and never one past its length, which may end inside a word.
LowestOf(s) == IF s = {} THEN -1 ELSE Min(s)
IsSet ==
    ~IsBloom => /\ \A i \in 0 .. nbits - 1 : Has(i) <=> i \in told
                /\ CountAll = Cardinality(told) /\ FindFirstSet = LowestOf(told)
                /\ FindFirstClear = LowestOf(0 .. nbits - 1 \ told)

\* The filter never denies what was added.
NoFalseNegatives == IsBloom /\ nbits > 0 => \A x \in told : MaybeHas(x)

-----------------------------------------------------------------------------
\* The union-find of include/ceres/ds/dsu.h.  "told" is not in the code:
\* the groups the caller has merged, as pairs of members.

CONSTANT N             \* the integers 0 .. N - 1

VARIABLE dsu

dsuVars == <<dsu, told>>

Members == 0 .. N - 1

\* dsu_find halves the path it walks; the root it reaches is the same before and after.
RECURSIVE Root(_, _), Halved(_, _)
Root(d, x) == IF d.parent[x] = x THEN x ELSE Root(d, d.parent[d.parent[x]])
Halved(d, x) ==
    IF d.parent[x] = x THEN d
    ELSE Halved([d EXCEPT !.parent[x] = d.parent[d.parent[x]]], d.parent[d.parent[x]])

Hung(d, ra, rb) == [d EXCEPT !.parent[rb] = ra, !.rank[ra] = IF d.rank[ra] = d.rank[rb] THEN @ + 1 ELSE @]
Merged(d, ra, rb) ==
    IF ra = rb THEN d ELSE IF d.rank[ra] < d.rank[rb] THEN Hung(d, rb, ra) ELSE Hung(d, ra, rb)
FoundBoth(d, a, b) == Halved(Halved(d, a), b)

Union(a, b) ==
    /\ dsu' = Merged(FoundBoth(dsu, a, b), Root(dsu, a), Root(dsu, b))
    /\ told' = told \cup {<<x, y>> \in Members \X Members :
                             \/ <<x, a>> \in told /\ <<b, y>> \in told
                             \/ <<x, b>> \in told /\ <<a, y>> \in told}
Connected(a, b) == dsu' = FoundBoth(dsu, a, b) /\ UNCHANGED told

InitDsu == /\ dsu = [parent |-> [x \in Members |-> x], rank |-> [x \in Members |-> 0]]
           /\ told = {<<x, x>> : x \in Members}
NextDsu == \E a, b \in Members : Union(a, b) \/ Connected(a, b)

\* Two members have the same root exactly when they were merged, directly or through others; and the groups are
\* as large as their roots' ranks say, so that no way to a root is longer than the logarithm of its group.
Group(r) == {x \in Members : <<r, x>> \in told}
Partitions ==
    /\ \A a, b \in Members : Root(dsu, a) = Root(dsu, b) <=> <<a, b>> \in told
    /\ \A x \in Members : dsu.parent[x] # x => dsu.rank[x] < dsu.rank[dsu.parent[x]]
    /\ \A x \in Members : dsu.parent[x] = x => 2 ^ dsu.rank[x] <= Cardinality(Group(x))
=============================================================================
