-------------------------------- MODULE Pack --------------------------------
(***************************************************************************)
(* Resource packs (src/ceres/pack.c): the directory, the search, and the   *)
(* reading of entries from memory, from a file, or from a block device     *)
(* through one sector of cache; reads may fail, in part done, and memory   *)
(* may lack.  A word of a medium stands for the header, for a directory    *)
(* entry or for some bytes of data.                                        *)
(***************************************************************************)
EXTENDS Integers, SequencesExt

CONSTANTS
    Sector,            \* BLOCKDEV_SECTOR, in words
    Media,             \* what may be opened: sequences of words, whole sectors
    Names,             \* those asked for
    Rooms,             \* the sizes of the program's buffers
    Most,              \* 0xFFFFFFFF
    MaxBad             \* bound: the sectors that fail during a call

VARIABLES
    pack,              \* [open, medium, kind, entries, cached, sector]: struct pack
    call               \* the last call: what was asked, the sectors that failed during it, and its answer

vars == <<pack, call>>

Junk == "junk"                                 \* what a failed read leaves
SectorOf(medium, s) == [k \in 0 .. (Sector - 1) |-> medium[s * Sector + k + 1]]

\* fetch: the words from offset on, with the reads of the sectors "bad" failing: [err, bytes, cached, sector].
Least(a, b) == IF a < b THEN a ELSE b
Failure(f, e) == [f EXCEPT !.err = e]
Through(f, medium, s, bad) ==
    IF f.cached = s + 1 THEN f
    ELSE IF s \in bad THEN [f EXCEPT !.err = "EIO", !.cached = 0, !.sector = [k \in 0 .. (Sector - 1) |-> Junk]]
    ELSE [f EXCEPT !.cached = s + 1, !.sector = SectorOf(medium, s)]
Straight(f, medium, s, bad) ==
    IF s \in bad THEN Failure(f, "EIO") ELSE [f EXCEPT !.bytes = @ \o [k \in 1 .. Sector |-> SectorOf(medium, s)[k - 1]]]
RECURSIVE Fetched(_, _, _, _, _, _)
Fetched(f, medium, offset, n, aligned, bad) ==
    LET s == offset \div Sector
        within == offset % Sector
        piece == Least(Sector - within, n)
        via == Through(f, medium, s, bad)
        next == IF within = 0 /\ piece = Sector /\ aligned THEN Straight(f, medium, s, bad)
                ELSE IF via.err # "none" THEN via
                ELSE [via EXCEPT !.bytes = @ \o [k \in 1 .. piece |-> via.sector[within + k - 1]]]
    IN IF n = 0 \/ f.err # "none" THEN f ELSE Fetched(next, medium, offset + piece, n - piece, aligned, bad)
Fetch(p, offset, n, aligned, bad) ==
    LET f == [err |-> "none", bytes |-> <<>>, cached |-> p.cached, sector |-> p.sector]
        length == Len(p.medium)
    IN IF offset > length \/ n > length - offset THEN Failure(f, "EINVAL")
       ELSE IF p.kind = "device" THEN Fetched(f, p.medium, offset, n, aligned, bad)
       ELSE IF p.kind = "file" /\ bad # {} THEN Failure(f, "EIO")
       ELSE [f EXCEPT !.bytes = SubSeq(p.medium, offset + 1, offset + n)]
Kept(p, f) == [p EXCEPT !.cached = f.cached, !.sector = f.sector]

\* What a stored word stands for once decompressed, and the check that goes with the bytes of an entry.
Unpack(words) == FlattenSeq([i \in DOMAIN words |-> <<words[i], words[i]>>])
Crc(words) == words

Closed == [open |-> FALSE, medium |-> <<>>, kind |-> "memory", entries |-> <<>>, cached |-> 0,
           sector |-> [k \in 0 .. (Sector - 1) |-> Junk]]
Init == pack = Closed /\ call = [name |-> "none"]

\* load_directory: the header, memory for the entries, then the entries one by one.
RECURSIVE Directory(_, _, _, _)
Directory(p, at, n, bad) ==
    IF n = 0 THEN [err |-> "none", p |-> p]
    ELSE LET f == Fetch(p, at, 1, FALSE, bad)
         IN IF f.err # "none" THEN [err |-> IF f.err = "EIO" THEN "EIO" ELSE "EINVAL", p |-> Kept([p EXCEPT !.entries = <<>>], f)]
            ELSE Directory([Kept(p, f) EXCEPT !.entries = Append(@, f.bytes[1])], at + 1, n - 1, bad)
LoadDirectory(p, bad, lacks) ==
    LET f == Fetch(p, 0, 1, FALSE, bad)
        header == f.bytes[1]
        stopped(e) == [err |-> e, p |-> Kept(p, f)]
    IN IF f.err # "none" THEN stopped(f.err)
       ELSE IF header.magic # "CPAK" \/ header.version # 1 THEN stopped("EINVAL")
       ELSE IF header.count = 0 THEN stopped("none")
       ELSE IF header.directory + header.count > Len(p.medium) THEN stopped("EINVAL")
       ELSE IF lacks THEN stopped("ENOMEM")
       ELSE Directory(Kept(p, f), header.directory, header.count, bad)
\* pack_open_memory, pack_open_file, pack_open; what a pack that failed to open holds is not looked at.
Open(medium, kind, bad, lacks) ==
    LET d == LoadDirectory([Closed EXCEPT !.medium = medium, !.kind = kind], bad, lacks)
    IN /\ ~pack.open
       /\ pack' = IF d.err = "none" THEN [d.p EXCEPT !.open = TRUE] ELSE Closed
       /\ call' = [name |-> "open", medium |-> medium, bad |-> bad, lacks |-> lacks, err |-> d.err]
Close == pack.open /\ pack' = Closed /\ call' = [name |-> "none"]

\* pack_read of an entry into room words, aligned to four bytes or not; memory for the stored bytes may lack: the answer,
\* and the pack after it.
Broken(e) == e.stored > e.size \/ (e.size > 0 /\ e.stored = 0)
ReadEntry(p, e, room, aligned, bad, lacks) ==
    LET packed == e.stored < e.size
        f == Fetch(p, e.offset, e.stored, aligned \/ packed, bad)
        bytes == IF packed THEN Unpack(f.bytes) ELSE f.bytes
        answer(err, after) == [err |-> err, bytes |-> IF err = "none" THEN bytes ELSE <<>>, p |-> after]
    IN IF Broken(e) THEN answer("EINVAL", p)
       ELSE IF e.size > room THEN answer("ENOSPC", p)
       ELSE IF packed /\ lacks THEN answer("ENOMEM", p)
       ELSE IF f.err # "none" THEN answer(f.err, Kept(p, f))
       ELSE IF Len(bytes) # e.size THEN answer("EINVAL", Kept(p, f))
       ELSE answer(IF Crc(bytes) # e.crc THEN "EIO" ELSE "none", Kept(p, f))
Read(i, room, aligned, bad, lacks) ==
    LET e == pack.entries[i]
        r == ReadEntry(pack, e, room, aligned, bad, lacks)
    IN /\ pack.open /\ i <= Len(pack.entries)
       /\ pack' = r.p
       /\ call' = [name |-> "read", entry |-> e, room |-> room, bad |-> bad, lacks |-> lacks, err |-> r.err, bytes |-> r.bytes]

\* pack_find, pack_load: into memory for the bytes and the NUL; "lacks" is the allocation that fails, of the two.
Found(entries, name) == {i \in DOMAIN entries : entries[i].name = name}
Find(entries, name) == CHOOSE i \in Found(entries, name) : \A j \in Found(entries, name) : i <= j
Load(name, bad, lacks) ==
    LET e == pack.entries[Find(pack.entries, name)]
        r == ReadEntry(pack, e, e.size, TRUE, bad, lacks = "stored")
        answer(err, bytes) == [name |-> "load", asked |-> name, bad |-> bad, lacks |-> lacks # "none", err |-> err, bytes |-> bytes]
    IN /\ pack.open
       /\ IF Found(pack.entries, name) = {} THEN UNCHANGED pack /\ call' = answer("ENOENT", <<>>)
          ELSE IF e.size = Most \/ lacks = "data" THEN UNCHANGED pack /\ call' = answer("ENOMEM", <<>>)
          ELSE pack' = r.p /\ call' = answer(r.err, r.bytes)

Sectors(medium) == 0 .. (Len(medium) \div Sector - 1)
Faults(medium) == {S \in SUBSET Sectors(medium) : Cardinality(S) <= MaxBad}
Next ==
    \/ \E medium \in Media, kind \in {"memory", "file", "device"} : \E bad \in Faults(medium), lacks \in BOOLEAN :
        Open(medium, kind, bad, lacks)
    \/ \E bad \in Faults(pack.medium) :
        \/ \E i \in 1 .. Len(pack.entries), room \in Rooms, aligned, lacks \in BOOLEAN : Read(i, room, aligned, bad, lacks)
        \/ \E name \in Names, lacks \in {"none", "data", "stored"} : Load(name, bad, lacks)
    \/ Close
Spec == Init /\ [][Next]_vars

-----------------------------------------------------------------------------
\* What a pack is, and the directory that is on a medium that is one.
IsPack(medium) ==
    /\ medium # <<>> /\ medium[1].magic = "CPAK" /\ medium[1].version = 1
    /\ medium[1].count > 0 => medium[1].directory + medium[1].count <= Len(medium)
OnMedium(medium) == [i \in 1 .. medium[1].count |-> medium[medium[1].directory + i]]
Content(e, medium) ==
    LET stored == SubSeq(medium, e.offset + 1, e.offset + e.stored) IN IF e.stored = e.size THEN stored ELSE Unpack(stored)
Sound(e, medium) == ~Broken(e) /\ e.offset + e.stored <= Len(medium) /\ Content(e, medium) = e.crc
\* An answer that the medium's faults and the memory there is can explain.
Explained == /\ call.err = "ENOMEM" => call.lacks
             /\ call.err = "EIO" => call.bad # {}

\* A pack open is one, with the directory of its medium; what is read of an entry is the entry's bytes; the entry loaded
\* by its name is the first of that name; and a sound entry is refused only for its size, for memory, or for a failure of
\* the medium in that very call, not in one before it.
PackReadsRight ==
    /\ pack.open => IsPack(pack.medium) /\ pack.entries = OnMedium(pack.medium)
    /\ call.name = "open" =>
        /\ Explained /\ (call.err = "none" => IsPack(call.medium))
        /\ call.bad = {} => (call.err = "EINVAL" <=> ~IsPack(call.medium))
    /\ call.name = "read" =>
        /\ call.err = "none" => Sound(call.entry, pack.medium) /\ call.bytes = Content(call.entry, pack.medium)
        /\ Sound(call.entry, pack.medium) /\ call.err # "none" =>
            Explained /\ (call.err = "ENOSPC" <=> call.entry.size > call.room) /\ call.err # "EINVAL"
    /\ call.name = "load" =>
        LET named == {i \in DOMAIN OnMedium(pack.medium) : OnMedium(pack.medium)[i].name = call.asked}
            e == OnMedium(pack.medium)[Min(named)]
        IN /\ call.err = "ENOENT" <=> named = {}
           /\ call.err = "none" => Sound(e, pack.medium) /\ call.bytes = Content(e, pack.medium)
           /\ named # {} /\ Sound(e, pack.medium) /\ e.size # Most => Explained /\ call.err \in {"none", "ENOMEM", "EIO"}
=============================================================================
