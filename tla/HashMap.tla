------------------------------ MODULE HashMap ------------------------------
(***************************************************************************)
(* The open-addressing table of src/ceres/ds/gmap.c, with the string map   *)
(* of src/ceres/ds/hashmap.c on it: the pairs own a copy of their key.     *)
(*                                                                         *)
(* A key stands for a string, "copies" for the keys whose copy is          *)
(* allocated.  The contents of a slot that is not in use are not kept: the *)
(* code reads them nowhere.  "known" is not in the code: what its answers  *)
(* let the caller believe.                                                 *)
(***************************************************************************)
EXTENDS Integers, FiniteSets

CONSTANTS TableKeys, TableValues,
          HashOf,      \* the hash of each key, a number
          InitialCaps, \* a map begins with; 0 if there was no memory
          MaxTable     \* a larger table does not fit a size_t

MinTable == 8
ASSUME TableAssumption ==
    /\ HashOf \in [TableKeys -> Nat] /\ MaxTable \in Nat
    /\ InitialCaps \subseteq Nat /\ \A cap \in InitialCaps : cap = 0 \/ cap >= MinTable

VARIABLES table, copies, known

tableVars == <<table, copies, known>>

Unused == [state |-> "empty"]
Tombstone == [state |-> "tombstone"]
Pair(k, v) == [state |-> "used", key |-> k, value |-> v]
NewTable(cap) == [cap |-> cap, len |-> 0, used |-> 0, slot |-> [i \in 0 .. cap - 1 |-> Unused]]

UsedSlots(m) == {i \in DOMAIN m.slot : m.slot[i].state = "used"}

\* The slots that a key is looked for in, one after the other and round the table, and the first of some of them.
Probed(m, k, n) == (HashOf[k] + n) % m.cap
Soonest(S) == CHOOSE n \in S : \A j \in S : n <= j
ProbeTo(m, k, states) ==
    Probed(m, k, Soonest({n \in 0 .. m.cap - 1 : m.slot[Probed(m, k, n)].state \in states}))

\* find: the slot or -1, past at most cap slots
Ends(m, k) == {n \in 0 .. m.cap - 1 : LET s == m.slot[Probed(m, k, n)]
                                      IN  s.state = "empty" \/ (s.state = "used" /\ s.key = k)}
FindSlot(m, k) ==
    LET i == Probed(m, k, Soonest(Ends(m, k)))
    IN  IF Ends(m, k) = {} THEN -1 ELSE IF m.slot[i].state = "empty" THEN -1 ELSE i

\* rebuild: the pairs in use move to a new table, in the order of the old slots; memory may lack.
MovedTo(m, s) == IF s.state # "used" THEN m ELSE [m EXCEPT !.slot[ProbeTo(m, s.key, {"empty"})] = s, !.used = @ + 1]
Refills(m, cap) == LET after[i \in 0 .. m.cap] == IF i = 0 THEN NewTable(cap) ELSE MovedTo(after[i - 1], m.slot[i - 1]) IN after
Rebuilt(m, cap) == [Refills(m, cap)[m.cap] EXCEPT !.len = m.len]

\* gmap_set of a key that is not there: 70 % counts the tombstones, doubling only what is live.
IsCrowded(m) == m.cap = 0 \/ (m.used + 1) * 10 > m.cap * 7
NextCap(m) ==
    IF m.cap = 0 THEN MinTable ELSE IF (m.len + 1) * 10 > (m.cap * 35) \div 10 THEN m.cap * 2 ELSE m.cap
PutAt(m, i, k, v) ==
    [m EXCEPT !.used = IF m.slot[i].state = "empty" THEN @ + 1 ELSE @, !.slot[i] = Pair(k, v), !.len = @ + 1]
PutPair(m, k, v) == PutAt(m, ProbeTo(m, k, {"empty", "tombstone"}), k, v)

Lookup(m, k) == IF FindSlot(m, k) < 0 THEN {} ELSE {m.slot[FindSlot(m, k)].value}

-----------------------------------------------------------------------------
(* hashmap_set with memory for the copy and for a new table, or not; and the other calls *)

Learns(k, v) == known' = [j \in DOMAIN known \cup {k} |-> IF j = k THEN v ELSE known[j]]
Replace(k, v) ==
    /\ FindSlot(table, k) >= 0
    /\ table' = [table EXCEPT !.slot[FindSlot(table, k)].value = v] /\ Learns(k, v) /\ UNCHANGED copies
Add(k, v) ==
    /\ FindSlot(table, k) < 0
    /\ table' = PutPair(IF IsCrowded(table) THEN Rebuilt(table, NextCap(table)) ELSE table, k, v)
    /\ IsCrowded(table) => NextCap(table) <= MaxTable
    /\ copies' = copies \cup {k} /\ Learns(k, v)
\* -1, and the copy, if there was memory for it, freed again
AddFails(k) == FindSlot(table, k) < 0 /\ UNCHANGED tableVars

RemoveWithHole(k) ==
    \/ FindSlot(table, k) < 0 /\ UNCHANGED tableVars
    \/ /\ FindSlot(table, k) >= 0
       /\ table' = [table EXCEPT !.slot[FindSlot(table, k)] = Unused, !.len = @ - 1, !.used = @ - 1]
       /\ copies' = copies \ {k} /\ known' = [j \in DOMAIN known \ {k} |-> known[j]]
RemovePair(k) ==
    \/ FindSlot(table, k) < 0 /\ UNCHANGED tableVars
    \/ /\ FindSlot(table, k) >= 0
       /\ table' = [table EXCEPT !.slot[FindSlot(table, k)] = Tombstone, !.len = @ - 1]
       /\ copies' = copies \ {k} /\ known' = [j \in DOMAIN known \ {k} |-> known[j]]

\* gmap_each frees the copies of the pairs in use
Released == copies' = copies \ {table.slot[i].key : i \in UsedSlots(table)} /\ known' = [k \in {} |-> 0]
ClearTable == table' = NewTable(table.cap) /\ Released
FreeTable == table' = NewTable(0) /\ Released

InitTable == table \in {NewTable(cap) : cap \in InitialCaps} /\ copies = {} /\ known = [k \in {} |-> 0]
NextTable == \/ \E k \in TableKeys, v \in TableValues : Replace(k, v) \/ Add(k, v)
             \/ \E k \in TableKeys : AddFails(k) \/ RemovePair(k)
             \/ ClearTable
             \/ FreeTable
SpecTable == InitTable /\ [][NextTable]_tableVars

-----------------------------------------------------------------------------
(* What the map promises *)

\* Every key is found with its last value, through whatever collisions, tombstones and rebuilds, and nothing
\* else is; and the pairs own as many copies as there are keys.
IsMap ==
    /\ \A k \in TableKeys : Lookup(table, k) = IF k \in DOMAIN known THEN {known[k]} ELSE {}
    /\ copies = DOMAIN known

\* The probing of find and of gmap_set ends: a slot has never been used, or, between two calls, the counts
\* that make the table grow are those of the slots.
ProbesEnd ==
    /\ table.len = Cardinality(UsedSlots(table))
    /\ table.used = Cardinality({i \in DOMAIN table.slot : table.slot[i] # Unused})
    /\ table.cap > 0 => \E i \in DOMAIN table.slot : table.slot[i] = Unused

\* The map gives back what was put in it, and every search of it ends (src/ceres/ds/gmap.c, hashmap.c).
TableHolds == IsMap /\ ProbesEnd
=============================================================================
