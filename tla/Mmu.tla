-------------------------------- MODULE Mmu ---------------------------------
(***************************************************************************)
(* Address spaces: the two-level tables of src/ceres/mmu.c, the processor  *)
(* that keeps translations it has used, and the guard pages under the      *)
(* stacks of tasks.                                                        *)
(*                                                                         *)
(* Addresses and frames are counted in pages.  "maps" is what the program  *)
(* was told each space maps, as one function.                              *)
(***************************************************************************)
EXTENDS Integers

CONSTANTS Spaces,
          PerTable,    \* the entries of a table, and of the directory
          Flags,       \* sets of what a page allows
          Lengths,     \* of the ranges, in pages
          Moves,       \* how far from its address a range is mapped
          Keeps        \* the sets of pages the processor may remember when it looks up another

ASSUME MmuAssumption == PerTable \in Nat \ {0} /\ 0 \notin Spaces /\ Lengths \subseteq Nat /\ Moves \subseteq Nat

VARIABLES spaces, mmu, maps

mmuVars == <<spaces, mmu, maps>>

Top == PerTable * PerTable          \* the size of the address space, where va + bytes wraps
Pages == 0 .. Top - 1
Slots == 0 .. PerTable - 1          \* of a table, and of the directory
NoEntry == <<>>
Entry(pa, flags) == [pa |-> pa % Top, flags |-> flags]
NoTable == <<>>
NoDirectory == <<>>
NoSpace == 0

NothingMapped == [p \in Pages |-> NoEntry]
InitSpaces == /\ spaces = [s \in Spaces |-> [dir |-> NoDirectory]]
              /\ mmu = [active |-> NoSpace, guards |-> NoSpace, tlb |-> NothingMapped]
              /\ maps = [s \in Spaces |-> NothingMapped]

Live(s) == spaces[s].dir # NoDirectory

\* table_of: the entry of a page; NoEntry where there is no table.
HasTable(sp, va) == sp.dir[va \div PerTable] # NoTable
EntryOf(sp, va) == IF HasTable(sp, va) THEN sp.dir[va \div PerTable][va % PerTable] ELSE NoEntry

\* The space with the entries of E, one for each page of E's domain; a table that was not there is made, empty.
PageAt(i, j) == i * PerTable + j
OldEntry(sp, i, j) == IF sp.dir[i] = NoTable THEN NoEntry ELSE sp.dir[i][j]
WithEntries(sp, E) ==
    [dir |-> [i \in Slots |->
        IF \E p \in DOMAIN E : p \div PerTable = i
        THEN [j \in Slots |-> IF PageAt(i, j) \in DOMAIN E THEN E[PageAt(i, j)] ELSE OldEntry(sp, i, j)]
        ELSE sp.dir[i]]]

\* changed: the processor forgets the pages, if the space is the one in use.
ForgetNothing(tlb, s, S) == tlb
Forget(tlb, s, S) == IF s = mmu.active THEN [p \in Pages |-> IF p \in S THEN NoEntry ELSE tlb[p]] ELSE tlb

Written(s, E) == /\ spaces' = [spaces EXCEPT ![s] = WithEntries(@, E)]
                 /\ mmu' = [mmu EXCEPT !.tlb = Forget(@, s, DOMAIN E)]
Told(s, E) == maps' = [maps EXCEPT ![s] = [p \in Pages |-> IF p \in DOMAIN E THEN E[p] ELSE @[p]]]

\* check: aligned, and not past the end; a range that ends at the very end wraps as well and is refused.
Allowed(va, n) == va + n < Top
Range_(va, n) == va .. va + n - 1

-----------------------------------------------------------------------------
SpaceInit(s) ==
    /\ ~Live(s)
    /\ spaces' = [spaces EXCEPT ![s].dir = [i \in Slots |-> NoTable]]
    /\ maps' = [maps EXCEPT ![s] = NothingMapped] /\ UNCHANGED mmu
\* mmu_space_free: not the one in use; the stacks are not guarded from now on.
SpaceFree(s) ==
    /\ Live(s) /\ s # mmu.active
    /\ spaces' = [spaces EXCEPT ![s].dir = NoDirectory]
    /\ mmu' = [mmu EXCEPT !.guards = IF @ = s THEN NoSpace ELSE @]
    /\ maps' = [maps EXCEPT ![s] = NothingMapped]

\* mmu_map goes page by page and stops at "end": past the range, or at the first page of a table that is not there
\* and that there is no memory for.
Mapped(s, va, pa, n, flags, end) ==
    LET E == [p \in Range_(va, end - va) |-> Entry(pa + (p - va), flags)]
    IN  /\ end = va + n \/ (~HasTable(spaces[s], end) /\ (end = va \/ end % PerTable = 0))
        /\ Written(s, E) /\ Told(s, E)
Map(s, va, pa, n, flags) == Live(s) /\ Allowed(va, n) /\ \E end \in va .. va + n : Mapped(s, va, pa, n, flags, end)

\* mmu_unmap: what has no table is not mapped.
Unmapped(s, va, n) == /\ Written(s, [p \in {q \in Range_(va, n) : HasTable(spaces[s], q)} |-> NoEntry])
                      /\ Told(s, [p \in Range_(va, n) |-> NoEntry])
Unmap(s, va, n) == Live(s) /\ Allowed(va, n) /\ Unmapped(s, va, n)

\* mmu_protect stops at the first page that is not mapped; those before it are done.
Protected(s, va, n) == {p \in Range_(va, n) : \A q \in va .. p : EntryOf(spaces[s], q) # NoEntry}
Protect(s, va, n, flags) ==
    /\ Live(s) /\ Allowed(va, n)
    /\ Written(s, [p \in Protected(s, va, n) |-> [EntryOf(spaces[s], p) EXCEPT !.flags = flags]])
    /\ Told(s, [p \in Protected(s, va, n) |-> [maps[s][p] EXCEPT !.flags = flags]])

\* mmu_activate: the directory is set, which flushes what the processor keeps.
Activate(s) == Live(s) /\ mmu' = [mmu EXCEPT !.active = s, !.tlb = NothingMapped] /\ UNCHANGED <<spaces, maps>>
Deactivate == mmu' = [mmu EXCEPT !.active = NoSpace] /\ UNCHANGED <<spaces, maps>>

\* guard_stack: the page goes back to itself before the stack is freed.
GuardTaskStacks(s) == Live(s) /\ mmu' = [mmu EXCEPT !.guards = s] /\ UNCHANGED <<spaces, maps>>
GuardStack(page) == mmu.guards # NoSpace /\ Unmap(mmu.guards, page, 1)
UnguardStack(page) == mmu.guards # NoSpace /\ Map(mmu.guards, page, page, 1, {"write"})

\* The processor uses an address (external): it looks in the tables of the directory it was given, and keeps the
\* entry, in the place of some that it remembered.
Access(page, kept) ==
    /\ mmu.active # NoSpace /\ mmu.tlb[page] = NoEntry
    /\ mmu' = [mmu EXCEPT !.tlb = [p \in Pages |-> IF p = page THEN EntryOf(spaces[mmu.active], page)
                                                   ELSE IF p \in kept THEN @[p] ELSE NoEntry]]
    /\ UNCHANGED <<spaces, maps>>

NextSpaces ==
    \/ \E s \in Spaces : SpaceInit(s) \/ SpaceFree(s) \/ Activate(s) \/ GuardTaskStacks(s)
    \/ \E s \in Spaces, va \in Pages, n \in Lengths, flags \in Flags :
          Unmap(s, va, n) \/ Protect(s, va, n, flags) \/ \E off \in Moves : Map(s, va, va + off, n, flags)
    \/ \E page \in Pages : GuardStack(page) \/ UnguardStack(page) \/ \E kept \in Keeps : Access(page, kept)
    \/ Deactivate
SpecSpaces == InitSpaces /\ [][NextSpaces]_mmuVars

-----------------------------------------------------------------------------
\* A space maps what the calls on it said, page by page, a call that stopped half way included (mmu_map and
\* mmu_protect of src/ceres/mmu.c).
MapsAsTold == \A s \in Spaces : Live(s) => \A p \in Pages : EntryOf(spaces[s], p) = maps[s][p]
\* What is in use is not freed, and the processor never goes by a translation that is no longer there.
NoStaleTranslation ==
    /\ mmu.active # NoSpace =>
          Live(mmu.active) /\ \A p \in Pages : mmu.tlb[p] # NoEntry => mmu.tlb[p] = maps[mmu.active][p]
    /\ mmu.guards # NoSpace => Live(mmu.guards)
\* The processor goes by no translation that is gone, and the tables say what they were told (src/ceres/mmu.c).
SpacesHold == MapsAsTold /\ NoStaleTranslation
=============================================================================
