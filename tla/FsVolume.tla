------------------------------ MODULE FsVolume ------------------------------
(***************************************************************************)
(* A mounted volume of src/ceres/fs.c: the medium, the cached FAT, the one *)
(* cached directory sector, and what the functions below the public ones   *)
(* do with them.  A volume v goes in and comes out changed; v.passed       *)
(* collects the states the medium goes through, at any of which the        *)
(* machine may stop.                                                       *)
(*                                                                         *)
(* The FAT is one sector, as it is on a volume of up to 255 clusters, and  *)
(* a sector is written whole or not at all.                                *)
(***************************************************************************)
EXTENDS Integers, FiniteSets, Sequences, SequencesExt

CONSTANTS RootSectors,   \* the sectors of the root directory
          PerSector,     \* entries to a sector
          Clusters,      \* data clusters, of one sector each
          SectorBytes,   \* bytes to a sector
          LooksLike      \* bytes that a directory would take for entries, with the entries: a function

ASSUME VolumeAssumption ==
    RootSectors \in Nat \ {0} /\ PerSector \in Nat \ {0} /\ Clusters \in Nat \ {0} /\ SectorBytes \in Nat \ {0}

Numbers == 1 .. Clusters
FatFree == 0
FatEnd == Clusters + 1
Sectors == 1 .. RootSectors + Clusters     \* the root's, then the clusters'

Entry(name, first, size, dir) == [used |-> TRUE, name |-> name, first |-> first, size |-> size, dir |-> dir]
NoEntry == [used |-> FALSE, name |-> "", first |-> 0, size |-> 0, dir |-> FALSE]

\* What a sector holds: entries or bytes.  Entries read as bytes are zeros; bytes read as entries are
\* unused ones, but for those of LooksLike.
NoEntries == [k \in 1 .. PerSector |-> NoEntry]
Zeros == [k \in 1 .. SectorBytes |-> 0]
DirSector(entries) == [entries |-> entries, bytes |-> Zeros]
DataSector(bytes) ==
    [entries |-> IF bytes \in DOMAIN LooksLike THEN LooksLike[bytes] ELSE NoEntries, bytes |-> bytes]
Blank == DirSector(NoEntries)

\* mount_into: a volume with nothing cached.
Mounted(disk) ==
    [disk |-> disk, fat |-> disk.fat, hint |-> 0,
     dirSec |-> 0, dirBuf |-> Blank, dirDirty |-> FALSE, passed |-> {}]

\* fs_format_device
Formatted == [fat |-> [c \in Numbers |-> FatFree], sec |-> [s \in Sectors |-> Blank]]

SetDisk(v, disk) == IF disk = v.disk THEN v ELSE [v EXCEPT !.disk = disk, !.passed = @ \cup {disk}]
Wr(v, s, content) == SetDisk(v, [v.disk EXCEPT !.sec[s] = content])

-----------------------------------------------------------------------------
(* The FAT *)

FatFlush(v) == SetDisk(v, [v.disk EXCEPT !.fat = v.fat])

RECURSIVE ChainFrom(_, _, _)
ChainFrom(fat, c, n) == IF c \notin Numbers \/ n = 0 THEN <<>> ELSE <<c>> \o ChainFrom(fat, fat[c], n - 1)
Chain(v, first) == ChainFrom(v.fat, first, Clusters)

\* alloc_cluster: the first free one from the hint on; 0 when there is none.
Nth(v, k) == ((v.hint + k) % Clusters) + 1
TakeCluster(v, c) == [v |-> [v EXCEPT !.fat[c] = FatEnd, !.hint = c % Clusters], c |-> c]
AllocOf(v, free) == IF free = {} THEN [v |-> v, c |-> 0] ELSE TakeCluster(v, Nth(v, Min(free)))
Alloc(v) == AllocOf(v, {k \in 0 .. Clusters - 1 : v.fat[Nth(v, k)] = FatFree})

FreeAll(v, chain) == [v EXCEPT !.fat = [c \in Numbers |-> IF c \in chain THEN FatFree ELSE @[c]]]
FreeChain(v, first) == FreeAll(v, ToSet(Chain(v, first)))

-----------------------------------------------------------------------------
(* Directories.  0 is the root; any other is its first cluster. *)

DirFlush(v) ==
    [IF v.dirSec # 0 /\ v.dirDirty THEN Wr(v, v.dirSec, v.dirBuf) ELSE v EXCEPT !.dirDirty = FALSE]

Fetch(v, s) == [v EXCEPT !.dirSec = s, !.dirBuf = v.disk.sec[s]]
DirLoad(v, s) == IF v.dirSec = s THEN v ELSE Fetch(DirFlush(v), s)

\* A stale copy of the cluster must not be written back over it.
SectorOf(c) == RootSectors + c
ZeroCluster(v, c) ==
    Wr([v EXCEPT !.dirSec = IF @ = SectorOf(c) THEN 0 ELSE @], SectorOf(c), Blank)

ChainSectors(chain) == [s \in DOMAIN chain |-> SectorOf(chain[s])]
SectorsOf(v, dir) == IF dir = 0 THEN [s \in 1 .. RootSectors |-> s] ELSE ChainSectors(Chain(v, dir))

SectorNo(i) == (i - 1) \div PerSector + 1
Place(i) == ((i - 1) % PerSector) + 1

\* Every entry of a directory, used or not, as entry_get would return them.
Cached(v, s) == IF s = v.dirSec THEN v.dirBuf ELSE v.disk.sec[s]
EntriesOf(v, S) == [i \in 1 .. Len(S) * PerSector |-> Cached(v, S[SectorNo(i)]).entries[Place(i)]]
Entries(v, dir) == EntriesOf(v, SectorsOf(v, dir))

\* entry_get and entry_put leave the entry's sector cached.
EntryLoad(v, dir, i) == DirLoad(v, SectorsOf(v, dir)[SectorNo(i)])
PutHere(v, i, e) == [v EXCEPT !.dirBuf = DirSector([@.entries EXCEPT ![Place(i)] = e]), !.dirDirty = TRUE]
EntryPut(v, dir, i, e) == PutHere(EntryLoad(v, dir, i), i, e)

\* Goes through a directory up to the first entry that passes the test: its index, 0 when there is none.
RECURSIVE Visit(_, _)
Visit(v, S) == IF S = <<>> THEN v ELSE Visit(DirLoad(v, Head(S)), Tail(S))
Upto(v, S, es, at) ==
    IF at = 0 THEN [v |-> Visit(v, S), at |-> 0, e |-> NoEntry, length |-> Len(es)]
    ELSE [v |-> Visit(v, SubSeq(S, 1, SectorNo(at))), at |-> at, e |-> es[at], length |-> Len(es)]
ScanOf(v, S, es, hits) == Upto(v, S, es, IF hits = {} THEN 0 ELSE Min(hits))

FindOf(v, S, es, name) == ScanOf(v, S, es, {i \in DOMAIN es : es[i].used /\ es[i].name = name})
FindIn(v, dir, name) == FindOf(v, SectorsOf(v, dir), Entries(v, dir), name)

UsedOf(v, S, es) == ScanOf(v, S, es, {i \in DOMAIN es : es[i].used})
FirstUsed(v, dir) == UsedOf(v, SectorsOf(v, dir), Entries(v, dir))

\* free_slot: a directory below the root grows to make one.
Linked(v, last, c) == [ZeroCluster(v, c) EXCEPT !.fat[last] = c]
Grow(v, dir, length, new) ==
    IF new.c = 0 THEN [v |-> v, at |-> 0]
    ELSE [v |-> Linked(new.v, Last(Chain(v, dir)), new.c), at |-> length + 1]
SlotOf(scan, dir) ==
    IF scan.at # 0 \/ dir = 0 THEN [v |-> scan.v, at |-> scan.at]
    ELSE Grow(scan.v, dir, scan.length, Alloc(scan.v))
UnusedOf(v, S, es) == ScanOf(v, S, es, {i \in DOMAIN es : ~es[i].used})
FreeSlot(v, dir) == SlotOf(UnusedOf(v, SectorsOf(v, dir), Entries(v, dir)), dir)

\* resolve: the directory that holds the last part of the path, and the directories walked through.
Where(v, dir, name, through, code) == [v |-> v, dir |-> dir, name |-> name, through |-> through, code |-> code]
RECURSIVE Walk(_, _, _, _)
Into(f, dir, parts, through) ==
    IF f.at = 0 THEN Where(f.v, dir, "", through, "ENOENT")
    ELSE IF ~f.e.dir THEN Where(f.v, dir, "", through, "ENOTDIR")
    ELSE Walk(f.v, f.e.first, Tail(parts), through \cup {f.e.first})
Walk(v, dir, parts, through) ==
    IF Len(parts) = 1 THEN Where(v, dir, Head(parts), through, "ok")
    ELSE Into(FindIn(v, dir, Head(parts)), dir, parts, through)
Resolve(v, path) == Walk(v, 0, path, {})

-----------------------------------------------------------------------------
(* fs_check.  k: the volume, the clusters reached so far, and how many things were wrong. *)

Wrong(k) == [k EXCEPT !.problems = @ + 1]
SetFat(k, c, next) == IF k.repair THEN [k EXCEPT !.v.fat[c] = next] ELSE k
Chained(k, first, count) == [k |-> k, first |-> first, count |-> count]

\* Follows a chain up to a cluster that another has, or that is free, and with repair cuts it there.
RECURSIVE CheckChain(_, _, _, _, _)
CheckLinkUncut(k, first, c, prev, count) ==
    IF k.v.fat[c] = FatFree THEN Chained(Wrong(k), first, count)
    ELSE CheckChain(k, first, k.v.fat[c], c, count)
CheckLink(k, first, c, prev, count) ==
    IF k.v.fat[c] = FatFree THEN Chained(SetFat(Wrong(k), c, FatEnd), first, count)
    ELSE CheckChain(k, first, k.v.fat[c], c, count)
CheckChain(k, first, c, prev, count) ==
    IF c \in {0, FatEnd} THEN Chained(k, first, count)
    ELSE IF c \notin k.marks THEN CheckLink([k EXCEPT !.marks = @ \cup {c}], first, c, prev, count + 1)
    ELSE IF prev = 0 THEN Chained(Wrong(k), IF k.repair THEN 0 ELSE first, count)
    ELSE Chained(SetFat(Wrong(k), prev, FatEnd), first, count)

\* The clusters past those the size needs are freed.
CutAfter(v, chain, need) ==
    [FreeAll(v, ToSet(SubSeq(chain, need + 1, Len(chain)))) EXCEPT !.fat[chain[need]] = FatEnd]
CutTo(v, first, need) == IF need = 0 THEN FreeChain(v, first) ELSE CutAfter(v, Chain(v, first), need)

\* A file's size and its chain, of count clusters, are brought together.
ClustersOf(size) == (size + SectorBytes - 1) \div SectorBytes
CheckFile(ch, e, need) ==
    IF ch.count = need THEN [k |-> ch.k, e |-> e]
    ELSE IF ~ch.k.repair THEN [k |-> Wrong(ch.k), e |-> e]
    ELSE IF ch.count < need THEN [k |-> Wrong(ch.k), e |-> [e EXCEPT !.size = ch.count * SectorBytes]]
    ELSE [k |-> [Wrong(ch.k) EXCEPT !.v = CutTo(@, e.first, need)],
          e |-> [e EXCEPT !.first = IF need = 0 THEN 0 ELSE @]]

PutChanged(k, dir, i, old, e) ==
    IF k.repair /\ e # old THEN [k EXCEPT !.v = EntryPut(@, dir, i, e)] ELSE k

RECURSIVE CheckDir(_, _, _)
Reloaded(k, dir, i) == [k EXCEPT !.v = EntryLoad(@, dir, i)]
FileDone(r, dir, i, old) == PutChanged(r.k, dir, i, old, r.e)
CheckChained(ch, dir, i, e) ==
    IF ~e.dir THEN FileDone(CheckFile(ch, [e EXCEPT !.first = ch.first], ClustersOf(e.size)), dir, i, e)
    ELSE IF ch.first = 0 THEN PutChanged(Wrong(ch.k), dir, i, e, Entry(e.name, 0, 0, FALSE))
    ELSE IF ch.count = 0 THEN ch.k
    ELSE Reloaded(CheckDir(ch.k, ch.first, 1), dir, i)
CheckEntry(k, dir, i, e) ==
    IF e.used THEN CheckChained(CheckChain(k, e.first, e.first, 0, 0), dir, i, e) ELSE k
CheckHere(k, dir, i) == CheckDir(CheckEntry(k, dir, i, k.v.dirBuf.entries[Place(i)]), dir, i + 1)
CheckDir(k, dir, i) ==
    IF i > Len(SectorsOf(k.v, dir)) * PerSector THEN k ELSE CheckHere(Reloaded(k, dir, i), dir, i)

\* The walk from the root, then the clusters that nothing reaches.
CheckLost(k, lost) ==
    [v |-> IF k.repair THEN FreeAll(k.v, lost) ELSE k.v, problems |-> k.problems + Cardinality(lost)]
CheckRest(k) == CheckLost(k, {c \in Numbers \ k.marks : k.v.fat[c] # FatFree})
Checked(v, repair) == CheckRest(CheckDir([v |-> v, marks |-> {}, problems |-> 0, repair |-> repair], 0, 1))
=============================================================================
