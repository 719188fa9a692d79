-------------------------------- MODULE Keyed --------------------------------
(***************************************************************************)
(* Structures of several parts that must stay in step: the cache and the   *)
(* multimap.                                                               *)
(***************************************************************************)
EXTENDS Integers, Sequences, FiniteSets, FiniteSetsExt, SequencesExt

-----------------------------------------------------------------------------
\* The cache of src/ceres/ds/lru.c and the multimap of
\* src/ceres/ds/multimap.c: a table of module HashMap, here the function
\* it promises to be, whose values lead to allocated entries.
\* "told" and "bag" are not in the code: the pairs of the cache by last
\* use, and those of the multimap, as its answers let the caller believe.

CONSTANTS Keys, Values,
          Capacities,  \* of the cache; 0 is none
          MaxAlike     \* of the pairs of one key that a caller adds

VARIABLES lru, told, chains, bag

cacheVars == <<lru, told, chains, bag>>

Entry(k, v) == [key |-> k, value |-> v]
Without(index, k) == [j \in DOMAIN index \ {k} |-> index[j]]
With(index, k, e) == [j \in DOMAIN index \cup {k} |-> IF j = k THEN e ELSE index[j]]

-----------------------------------------------------------------------------
(* lru.c: the index leads to the entries, the list has their keys, the latest first. *)

Touched(c, k) == [c EXCEPT !.order = <<k>> \o SelectSeq(@, LAMBDA j : j # k)]
Added(c, k, v) == [c EXCEPT !.index = With(@, k, Entry(k, v)), !.order = <<k>> \o @]
EvictedNewest(c) ==
    IF c.capacity > 0 /\ Cardinality(DOMAIN c.index) > c.capacity
    THEN [c EXCEPT !.index = Without(@, Head(c.order)), !.order = Tail(@)] ELSE c
Evicted(c) ==
    IF c.capacity > 0 /\ Cardinality(DOMAIN c.index) > c.capacity
    THEN [c EXCEPT !.index = Without(@, Last(c.order)), !.order = Front(@)] ELSE c

Latest(k, v) == <<Entry(k, v)>> \o SelectSeq(told, LAMBDA e : e.key # k)
Recent(pairs) == IF lru.capacity = 0 THEN pairs ELSE SubSeq(pairs, 1, Min({Len(pairs), lru.capacity}))
Put(k, v) ==
    /\ lru' = IF k \in DOMAIN lru.index THEN Touched([lru EXCEPT !.index[k].value = v], k)
              ELSE Evicted(Added(lru, k, v))
    /\ told' = Recent(Latest(k, v)) /\ UNCHANGED <<chains, bag>>
\* No memory for the entry, or none for the index and the entry freed again
PutFails(k) == k \notin DOMAIN lru.index /\ UNCHANGED cacheVars
Get(k) ==
    /\ k \in DOMAIN lru.index
    /\ lru' = Touched(lru, k) /\ told' = Latest(k, lru.index[k].value) /\ UNCHANGED <<chains, bag>>
RemoveKey(k) ==
    /\ k \in DOMAIN lru.index
    /\ lru' = [lru EXCEPT !.index = Without(@, k), !.order = SelectSeq(@, LAMBDA j : j # k)]
    /\ told' = SelectSeq(told, LAMBDA e : e.key # k) /\ UNCHANGED <<chains, bag>>

-----------------------------------------------------------------------------
(* multimap.c: the values of a key in a chain, the newest first; an empty chain is the same as no entry *)

Chain(k) == IF k \in DOMAIN chains THEN chains[k] ELSE <<>>
Alike(k, v) == bag[Entry(k, v)]
Add(k, v) ==
    /\ Alike(k, v) < MaxAlike
    /\ chains' = With(chains, k, <<v>> \o Chain(k))
    /\ bag' = [bag EXCEPT ![Entry(k, v)] = @ + 1] /\ UNCHANGED <<lru, told>>
FirstOf(k, v) == Min({i \in DOMAIN Chain(k) : Chain(k)[i] = v})
RemovePair(k, v) ==
    /\ v \in ToSet(Chain(k))
    /\ chains' = IF Len(Chain(k)) = 1 THEN Without(chains, k) ELSE [chains EXCEPT ![k] = RemoveAt(@, FirstOf(k, v))]
    /\ bag' = [bag EXCEPT ![Entry(k, v)] = @ - 1] /\ UNCHANGED <<lru, told>>
ClearAll == chains' = Without([k \in {0} |-> <<>>], 0) /\ bag' = [e \in DOMAIN bag |-> 0] /\ UNCHANGED <<lru, told>>

Pairs == {Entry(k, v) : k \in Keys, v \in Values}
Init == /\ \E c \in Capacities : lru = [capacity |-> c, index |-> [k \in {} |-> 0], order |-> <<>>]
        /\ told = <<>> /\ chains = [k \in {} |-> <<>>] /\ bag = [e \in Pairs |-> 0]
NextCache == \E k \in Keys : \/ PutFails(k) \/ Get(k) \/ RemoveKey(k)
                             \/ \E v \in Values : Put(k, v)
NextChains == ClearAll \/ \E k \in Keys, v \in Values : Add(k, v) \/ RemovePair(k, v)
Next == NextCache \/ NextChains

-----------------------------------------------------------------------------
(* What they promise *)

\* The cache holds the pairs used last, as many as its capacity, and its list is the order of their use.
IsCache ==
    /\ lru.order = [i \in DOMAIN told |-> told[i].key]
    /\ DOMAIN lru.index = ToSet(lru.order)
    /\ \A i \in DOMAIN told : lru.index[told[i].key] = told[i]

\* The multimap has each pair as often as it was added and not removed, and no key without a value.
IsMultimap ==
    /\ \A k \in Keys, v \in Values : Cardinality({i \in DOMAIN Chain(k) : Chain(k)[i] = v}) = Alike(k, v)
    /\ \A k \in DOMAIN chains : chains[k] # <<>>
=============================================================================
