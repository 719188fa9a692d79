------------------------------- MODULE Storage -------------------------------
(***************************************************************************)
(* What is handed out and taken back: an arena's pieces, a pool's blocks,  *)
(* and the handles of a slot map.                                          *)
(***************************************************************************)
EXTENDS Integers, Sequences, FiniteSets, SequencesExt

-----------------------------------------------------------------------------
\* The memory of src/ceres/arena.c, handed out from one end and taken back
\* to a mark, and that of src/ceres/pool.c, in blocks of one size.
\* "pieces" and "marks", and "held", are not in the code: what was handed
\* out and not taken back, with the marks the caller has taken; and the
\* blocks that were and were not freed.

CONSTANTS Bases,       \* where the caller's memory may begin
          Extent,      \* how much it is
          Addresses,   \* 2^32: where sizes wrap
          Requests,    \* the sizes asked for
          MaxPieces,   \* a bound on those at one time
          ItemSizes,   \* of a pool's blocks
          Count        \* and how many it has

VARIABLES arena, pieces, marks, pool, held

arenaVars == <<arena, pieces, marks>>
poolVars == <<pool, held>>

W(x) == x % Addresses

-----------------------------------------------------------------------------
(* arena.c: the address is aligned, not the offset. *)

Pad(a) == W(8 - ((a.base + a.used) % 8)) % 8
Fits(a, n) == /\ n <= a.size
              /\ Pad(a) <= W(a.size - a.used)
              /\ n <= W(a.size - a.used - Pad(a))
Piece(a, n) == [from |-> a.base + a.used + Pad(a), size |-> n]
Alloc(n) ==
    /\ Fits(arena, n) /\ Piece(arena, n).from # 0 /\ Len(pieces) < MaxPieces
    /\ arena' = [arena EXCEPT !.used = W(@ + Pad(arena) + n)]
    /\ pieces' = Append(pieces, Piece(arena, n)) /\ UNCHANGED marks
\* NULL, which is also where nothing of an arena without memory lies
AllocFails(n) == (~Fits(arena, n) \/ Piece(arena, n).from = 0) /\ UNCHANGED arenaVars

\* A mark remembers how many pieces there were.
Mark == marks' = marks \cup {<<arena.used, Len(pieces)>>} /\ UNCHANGED <<arena, pieces>>
ReleaseTo(m) ==
    /\ arena' = IF m[1] <= arena.used THEN [arena EXCEPT !.used = m[1]] ELSE arena
    /\ pieces' = SubSeq(pieces, 1, IF m[2] <= Len(pieces) THEN m[2] ELSE Len(pieces))
    /\ marks' = {k \in marks : k[2] <= m[2]}
Reset == /\ arena' = [arena EXCEPT !.used = 0] /\ pieces' = <<>>
         /\ marks' = {}

NoMemory == [base |-> 0, size |-> 0, used |-> 0, owned |-> FALSE]
Destroy == arena' = NoMemory /\ pieces' = <<>> /\ marks' = {}
InitArena(base, owned) ==
    /\ arena = NoMemory
    /\ arena' = [base |-> base, size |-> Extent, used |-> 0, owned |-> owned] /\ UNCHANGED <<pieces, marks>>

-----------------------------------------------------------------------------
(* pool.c: the free list has released blocks, the most recent first. *)

Item(size) == (((IF size < 4 THEN 4 ELSE size) + 3) \div 4) * 4
PoolEnd == pool.base + pool.count * pool.item
PoolAlloc ==
    \/ /\ pool.free # <<>>
       /\ pool' = [pool EXCEPT !.free = Tail(@), !.used = @ + 1]
       /\ held' = held \cup {Head(pool.free)}
    \/ /\ pool.free = <<>> /\ pool.fresh > 0
       /\ pool' = [pool EXCEPT !.fresh = @ - 1, !.used = @ + 1]
       /\ held' = held \cup {pool.base + (pool.count - pool.fresh) * pool.item}
    \/ pool.free = <<>> /\ pool.fresh = 0 /\ UNCHANGED poolVars
IsBlock(p) == p >= pool.base /\ p < PoolEnd /\ (p - pool.base) % pool.item = 0
PoolFree(p) ==
    \/ ~IsBlock(p) /\ UNCHANGED poolVars
    \/ /\ IsBlock(p)
       /\ pool' = [pool EXCEPT !.free = <<p>> \o @, !.used = @ - 1]
       /\ held' = held \ {p}
PoolClear == pool' = [pool EXCEPT !.used = 0, !.fresh = pool.count, !.free = <<>>] /\ held' = {}

Foreign == {p \in 0 .. PoolEnd + 4 : ~IsBlock(p)}
InitArenas == arena = NoMemory /\ pieces = <<>> /\ marks = {}
NextArena == \/ \E n \in Requests : Alloc(n) \/ AllocFails(n)
             \/ \E m \in marks : ReleaseTo(m)
             \/ \E base \in Bases, owned \in BOOLEAN : InitArena(base, owned)
             \/ Mark \/ Reset \/ Destroy
NewPool(base, size) == [base |-> base, item |-> Item(size), count |-> Count, used |-> 0, fresh |-> Count, free |-> <<>>]
InitPool == held = {} /\ pool \in {NewPool(base, size) : base \in Bases \ {0}, size \in ItemSizes}
NextPool == PoolAlloc \/ PoolClear \/ \E p \in held \cup Foreign : PoolFree(p)

-----------------------------------------------------------------------------
(* What they promise *)

\* The pieces lie in the memory, aligned, apart and in their order, whatever was released to which mark, sizes
\* that would wrap included; what is left is what they leave.
PiecesApart ==
    /\ \A i \in DOMAIN pieces : /\ pieces[i].from % 8 = 0 /\ pieces[i].from >= arena.base
                                /\ pieces[i].from + pieces[i].size <= arena.base + arena.used
                                /\ \A j \in 1 .. i - 1 : pieces[j].from + pieces[j].size <= pieces[i].from
    /\ arena.used <= arena.size

\* Every block is held, free or fresh, one of the three and once, whatever else the pool is asked to free.
BlocksKept ==
    /\ ToSet(pool.free) \cap held = {} /\ Cardinality(ToSet(pool.free)) = Len(pool.free)
    /\ pool.used = Cardinality(held) /\ pool.used + Len(pool.free) + pool.fresh = pool.count
    /\ \A p \in held : IsBlock(p) /\ p + pool.item <= PoolEnd

-----------------------------------------------------------------------------
\* The handles with generations of include/ceres/ds/slotmap.h, over three
\* vectors that may lack memory where they grow.
\* "given" is not in the code: the handles the caller was given and has not
\* given up, with their items; "stale", those it has.

CONSTANTS Things,
          MaxSlots,    \* a larger vector does not fit a size_t
          GenWrap,     \* 2^32: where a generation starts over
          MayLack      \* the vectors that memory may lack for: "slots", "gens", "free"

VARIABLES slots, gens, freeList, given, stale

slotVars == <<slots, gens, freeList, given, stale>>

NoVector == [data |-> <<>>, cap |-> 0]
Length(v) == Len(v.data)
Handle(i, g) == [index |-> i, gen |-> g]
IsFull(v) == Length(v) = v.cap
Doubled(v) == IF v.cap = 0 THEN 4 ELSE v.cap * 2

\* vector_reserve, and vector_push_copy: the vector as it is when there is no memory for more.
Reserved(v, cap) == [v EXCEPT !.cap = IF cap <= @ THEN @ ELSE cap]
Pushed(v, x) == [Reserved(v, IF IsFull(v) THEN Doubled(v) ELSE 0) EXCEPT !.data = Append(@, x)]
Lacks(vector) == vector \in MayLack
PushOutcomes(v, x, vector) ==
    (IF Doubled(v) <= MaxSlots \/ ~IsFull(v) THEN {Pushed(v, x)} ELSE {v}) \cup
    (IF IsFull(v) /\ Lacks(vector) THEN {v} ELSE {})

Valid(h) == h.index < Length(slots) /\ gens.data[h.index + 1] = h.gen
ItemAt(h) == slots.data[h.index + 1]

HandsOut(h, x) == given' = [g \in DOMAIN given \cup {h} |-> IF g = h THEN x ELSE given[g]] /\ stale' = stale \ {h}

\* sm_insert into a freed slot, or into a new one; its reservations
Reuse(x) ==
    /\ Length(freeList) > 0
    /\ slots' = [slots EXCEPT !.data[Last(freeList.data) + 1] = x]
    /\ freeList' = [freeList EXCEPT !.data = Front(@)] /\ UNCHANGED gens
    /\ HandsOut(Handle(Last(freeList.data), gens.data[Last(freeList.data) + 1]), x)
Appended(s, g, x) ==
    /\ slots' = Pushed(s, x)
    /\ gens' \in PushOutcomes(g, 0, "gens")
    /\ HandsOut(Handle(Length(s), 0), x) /\ UNCHANGED freeList
Append_(x) ==
    /\ Length(freeList) = 0
    /\ \/ ~IsFull(slots) /\ Appended(slots, gens, x)
       \/ /\ IsFull(slots) /\ Doubled(slots) <= MaxSlots
          /\ Appended(Reserved(slots, Doubled(slots)), Reserved(gens, Doubled(slots)), x)
\* An index no slot has is the caller's: no memory for the slots, or, once the slots had theirs, for the gens
InsertFails ==
    /\ Length(freeList) = 0 /\ IsFull(slots)
    /\ \/ (Lacks("slots") \/ Doubled(slots) > MaxSlots) /\ UNCHANGED slots
       \/ Doubled(slots) <= MaxSlots /\ Lacks("gens") /\ slots' = Reserved(slots, Doubled(slots))
    /\ UNCHANGED <<gens, freeList, given, stale>>

\* sm_remove: without memory for the list the slot is never used again.
NextGenKept(h) == h.gen
NextGen(h) == (h.gen + 1) % GenWrap
WithoutHandle(h) == /\ given' = [g \in DOMAIN given \ {h} |-> given[g]]
                    /\ stale' = (stale \cup {h}) \ {Handle(h.index, (h.gen + 1) % GenWrap)}
Remove_(h) ==
    \/ ~Valid(h) /\ UNCHANGED slotVars
    \/ /\ Valid(h)
       /\ gens' = [gens EXCEPT !.data[h.index + 1] = NextGen(h)]
       /\ freeList' \in PushOutcomes(freeList, h.index, "free")
       /\ WithoutHandle(h) /\ UNCHANGED slots

InitSlots == slots = NoVector /\ gens = NoVector /\ freeList = NoVector /\ given = [h \in {} |-> 0] /\ stale = {}
NextSlots == \/ \E x \in Things : Reuse(x) \/ Append_(x)
             \/ InsertFails
             \/ \E h \in DOMAIN given \cup stale : Remove_(h)

-----------------------------------------------------------------------------
(* What the handles promise *)

\* A handle is good for its own item until it is given up, whatever is inserted and removed meanwhile, and is
\* stale until its slot has been given up 2^32 times since: no later item is met through it.
HandlesGood ==
    /\ \A h \in DOMAIN given : Valid(h) /\ ItemAt(h) = given[h]
    /\ \A h \in stale : ~Valid(h)
    /\ Cardinality(DOMAIN given) <= Length(slots) - Length(freeList)

\* "so a failed push never leaves slots and gens out of step (which would make sm_valid() dereference a NULL
\* slot)" (slotmap.h:77)
InStep == Length(slots) = Length(gens)

-----------------------------------------------------------------------------
(* The three together *)

\* The caller's memory ends before addresses do.
ASSUME StorageAssumption ==
    /\ Bases \subseteq Nat /\ Extent \in Nat /\ Addresses \in Nat /\ Addresses > 8 /\ Extent < Addresses
    /\ Requests \subseteq Nat /\ ItemSizes \subseteq Nat /\ Count \in Nat
    /\ \A base \in Bases : base + Extent <= Addresses /\ \A size \in ItemSizes : base + Count * Item(size) <= Addresses
    /\ MaxSlots \in Nat /\ GenWrap \in Nat \ {0}

storageVars == <<arenaVars, poolVars, slotVars>>
InitStorage == InitArenas /\ InitPool /\ InitSlots
NextStorage == \/ NextArena /\ UNCHANGED <<poolVars, slotVars>>
               \/ NextPool /\ UNCHANGED <<arenaVars, slotVars>>
               \/ NextSlots /\ UNCHANGED <<arenaVars, poolVars>>
SpecStorage == InitStorage /\ [][NextStorage]_storageVars

\* What was handed out stays its holder's until it is taken back, and is not handed out twice: pieces and blocks lie
\* apart, and a handle leads to its own item (src/ceres/arena.c, pool.c, include/ceres/ds/slotmap.h).
HandlesHold == PiecesApart /\ BlocksKept /\ HandlesGood /\ InStep
=============================================================================
