------------------------------ MODULE CeresFS -------------------------------
(***************************************************************************)
(* CeresFS: src/ceres/fs.c, one version 2 volume.  Open files hold one     *)
(* cluster each and the size and chain not yet in their entries; the       *)
(* volume (module FsVolume) holds a FAT and a directory sector.  The       *)
(* machine may stop between any two sectors written.                       *)
(***************************************************************************)
EXTENDS FsVolume

CONSTANTS Paths,       \* the paths of the program: sequences of names
          MaxOpen,     \* FS_MAX_OPEN
          Flags,       \* what it opens files with
          Payloads,    \* what it writes at once
          Disks,       \* what the medium holds at the start
          Lengths,     \* how much it reads at once
          Places,      \* where it seeks to
          Moves,       \* what it renames: pairs of paths
          MaxSize,     \* bound: the size of a file
          MaxOps,      \* bound: how many operations
          MaxStops     \* bound: how often the machine stops, repairs apart

Fds == 0 .. MaxOpen - 1

ASSUME FsAssumption ==
    /\ MaxOpen \in Nat \ {0} /\ MaxSize \in Nat /\ MaxOps \in Nat /\ MaxStops \in Nat
    /\ \A d \in Disks : Checked(Mounted(d), FALSE).problems = 0
    /\ Flags \subseteq [read : BOOLEAN, write : BOOLEAN, creat : BOOLEAN, trunc : BOOLEAN, append : BOOLEAN]
    /\ \A fl \in Flags : (fl.read \/ fl.write) /\ (fl.trunc \/ fl.append => fl.write)
    /\ \A p \in Paths : \A n \in 1 .. Len(p) : SubSeq(p, 1, n) \in Paths
    /\ <<>> \notin Paths

VARIABLES vol,         \* struct volume, and the medium
          files,       \* struct ofile, by descriptor
          phase,       \* "up" (mounted), "off" (unmounted) or "stopped" (not unmounted)
          reply,
          kept,        \* what must be on the medium: path -> bytes.  Not in the code
          tree,        \* what the program sees: path -> directory or bytes.  Not in the code
          open,        \* what the descriptors are open on.  Not in the code
          ops, stops

vars == <<vol, files, phase, reply, kept, tree, open, ops, stops>>

\* An answer; turn tells it from the one before.
Answer(call, code, data, turn) == [call |-> call, code |-> code, data |-> data, turn |-> turn]
Reply(call, code, data) == Answer(call, code, data, 1 - reply.turn)
Silent == Reply("none", "none", <<>>)

NoFlags == [read |-> FALSE, write |-> FALSE, creat |-> FALSE, trunc |-> FALSE, append |-> FALSE]
\* fs_open's memset and what follows it.
OpenFile(flags, dir, index, first, size) ==
    [used |-> TRUE, flags |-> flags, dir |-> dir, index |-> index, first |-> first, size |-> size, pos |-> 0,
     curIndex |-> 0, cur |-> 0, bufAt |-> 0, bufDirty |-> FALSE, buf |-> Zeros, modified |-> FALSE]
Shut == [OpenFile(NoFlags, 0, 0, 0, 0) EXCEPT !.used = FALSE]
NoFiles == [fd \in Fds |-> Shut]

-----------------------------------------------------------------------------
(* What the volume holds, seen through everything that is cached *)

IsOpenAt(fs, fd, dir, i) == fs[fd].used /\ fs[fd].dir = dir /\ fs[fd].index = i
Changing(fs, dir, i) == {fd \in Fds : IsOpenAt(fs, fd, dir, i) /\ fs[fd].modified}

\* The entry as its open file will have it.
SizedAs(e, f) == [e EXCEPT !.first = f.first, !.size = f.size]
Current(fs, x) ==
    IF Changing(fs, x.dir, x.index) = {} THEN x.e
    ELSE SizedAs(x.e, fs[CHOOSE fd \in Changing(fs, x.dir, x.index) : TRUE])

Holding(fs, c) == {fd \in Fds : fs[fd].used /\ fs[fd].bufDirty /\ fs[fd].bufAt = c}
ClusterBytes(v, fs, c) ==
    IF Holding(fs, c) = {} THEN v.disk.sec[SectorOf(c)].bytes ELSE fs[CHOOSE fd \in Holding(fs, c) : TRUE].buf

IndexAt(pos) == pos \div SectorBytes
OffsetAt(pos) == pos % SectorBytes
ChainBytes(v, fs, chain, size) ==
    [i \in 1 .. size |-> ClusterBytes(v, fs, chain[IndexAt(i - 1) + 1])[OffsetAt(i - 1) + 1]]
Bytes(v, fs, e) == ChainBytes(v, fs, Chain(v, e.first), e.size)

\* Everything a path may reach: the path, its entry and where that is.
At(path, dir, i, e) == [path |-> path, dir |-> dir, index |-> i, e |-> e]
RECURSIVE Below(_, _, _)
Reach(v, path, x) == IF x.e.dir THEN {x} \cup Below(v, x.e.first, x.path) ELSE {x}
ReachAll(v, dir, path, es) ==
    UNION {Reach(v, path, At(Append(path, es[i].name), dir, i, es[i])) : i \in {j \in DOMAIN es : es[j].used}}
Below(v, dir, path) == ReachAll(v, dir, path, Entries(v, dir))
Reached(v) == Below(v, 0, <<>>)

Directory == [dir |-> TRUE, bytes |-> <<>>]
File(bytes) == [dir |-> FALSE, bytes |-> bytes]
Node(v, fs, x) == IF x.e.dir THEN Directory ELSE File(Bytes(v, fs, Current(fs, x)))
TreeOf(v, fs, all) == [p \in {x.path : x \in all} |-> Node(v, fs, CHOOSE x \in all : x.path = p)]
Tree(v, fs) == TreeOf(v, fs, Reached(v))

PathIn(all, dir, i) == (CHOOSE x \in all : x.dir = dir /\ x.index = i).path
PathAt(v, dir, i) == PathIn(Reached(v), dir, i)

OpenAs(all, f) ==
    [used |-> f.used, path |-> IF f.used THEN PathIn(all, f.dir, f.index) ELSE <<>>, flags |-> f.flags, pos |-> f.pos]
OpenOn(all, fs) == [fd \in Fds |-> OpenAs(all, fs[fd])]

-----------------------------------------------------------------------------
(* How an operation ends *)

\* Once the caches are out, every file without changes of its own is on the medium.
KeptOf(v, fs, there) == [p \in {x.path : x \in there} |-> Bytes(v, fs, (CHOOSE x \in there : x.path = p).e)]
Kept(v, fs) == KeptOf(v, fs, {x \in Reached(v) : ~x.e.dir /\ Changing(fs, x.dir, x.index) = {}})
Without(paths) == [p \in DOMAIN kept \ paths |-> kept[p]]
Under(path) == {p \in DOMAIN kept : IsPrefix(path, p)}

Init == /\ vol \in {Mounted(d) : d \in Disks}
        /\ files = NoFiles /\ phase = "up" /\ reply = Answer("none", "none", <<>>, 0)
        /\ kept = Kept(vol, files) /\ tree = Tree(vol, files) /\ open = OpenOn({}, files)
        /\ ops = 0 /\ stops = 0

\* What the program sees from now on.
ShowsAll(v, fs, all) == tree' = TreeOf(v, fs, all) /\ open' = OpenOn(all, fs)
Shows(v, fs) == ShowsAll(v, fs, Reached(v))

\* The machine stops: what is left is the medium.
StopAt(disk) ==
    /\ UNCHANGED ops
    /\ vol' = Mounted(disk) /\ files' = NoFiles
    /\ phase' = "stopped" /\ reply' = Silent /\ tree' = <<>> /\ open' = OpenOn({}, NoFiles)

Completes(v, fs, answer) ==
    /\ vol' = [v EXCEPT !.passed = {}] /\ files' = fs /\ reply' = answer /\ Shows(v, fs)
    /\ UNCHANGED <<phase, stops>>

Stop(disk) == stops < MaxStops /\ stops' = stops + 1 /\ StopAt(disk)

\* An operation ends, or the machine stops after any of the sectors it writes.
\* It changed the files at the paths touched, or left no cache dirty, or changed no file.
Changes(v, fs, answer, touched) ==
    \/ ops < MaxOps /\ ops' = ops + 1 /\ Completes(v, fs, answer) /\ kept' = Without(touched)
    \/ \E disk \in v.passed : Stop(disk) /\ kept' = Without(touched)

Flushes(v, fs, answer) ==
    \/ ops < MaxOps /\ ops' = ops + 1 /\ Completes(v, fs, answer) /\ kept' = Kept(v, fs)
    \/ \E disk \in v.passed : Stop(disk) /\ UNCHANGED kept

Looks(v, fs, answer) ==
    \/ ops < MaxOps /\ ops' = ops + 1 /\ Completes(v, fs, answer) /\ UNCHANGED kept
    \/ \E disk \in v.passed : Stop(disk) /\ UNCHANGED kept

Fails(v, call, code) == Looks(v, files, Reply(call, code, <<>>))

-----------------------------------------------------------------------------
(* The buffer and the chain of an open file.  x: a volume and an open file *)

BufFlush(x) ==
    [x EXCEPT !.v = IF x.f.bufDirty /\ x.f.bufAt # 0 THEN Wr(@, SectorOf(x.f.bufAt), DataSector(x.f.buf)) ELSE @,
              !.f.bufDirty = FALSE]
Filled(x, c, fresh) == [x EXCEPT !.f.buf = IF fresh THEN Zeros ELSE x.v.disk.sec[SectorOf(c)].bytes, !.f.bufAt = c]
BufLoadUnwritten(x, c, fresh) == IF x.f.bufAt = c THEN x ELSE Filled(x, c, fresh)
BufLoad(x, c, fresh) == IF x.f.bufAt = c THEN x ELSE Filled(BufFlush(x), c, fresh)

MetaPut(w, f) ==
    [v |-> PutHere(w, f.index, SizedAs(w.dirBuf.entries[Place(f.index)], f)), f |-> [f EXCEPT !.modified = FALSE]]
MetaFlush(x) == IF x.f.modified THEN MetaPut(EntryLoad(x.v, x.f.dir, x.f.index), x.f) ELSE x

\* locate: the cluster of the file's index-th sector, 0 when there is none; from the last one found
\* if that is not further on.  With grow the chain is made longer by one.
Located(v, f, i, c) == [v |-> v, f |-> [f EXCEPT !.curIndex = i, !.cur = c], c |-> c]
Lengthened(x, chain, index, new) ==
    IF new.c = 0 THEN [v |-> x.v, f |-> x.f, c |-> 0]
    ELSE IF chain = <<>> THEN Located(new.v, [x.f EXCEPT !.first = new.c], index, new.c)
    ELSE Located([new.v EXCEPT !.fat[Last(chain)] = new.c], x.f, index, new.c)
LocateIn(x, chain, from, index, grow) ==
    IF index - from < Len(chain) THEN Located(x.v, x.f, index, chain[index - from + 1])
    ELSE IF grow THEN Lengthened(x, chain, index, Alloc(x.v))
    ELSE [v |-> x.v, f |-> x.f, c |-> 0]
Ahead(f, index) == f.cur # 0 /\ index >= f.curIndex
LocateFrom(x, start, from, index, grow) == LocateIn(x, Chain(x.v, start), from, index, grow)
Locate(x, index, grow) ==
    LocateFrom(x, IF Ahead(x.f, index) THEN x.f.cur ELSE x.f.first,
                  IF Ahead(x.f, index) THEN x.f.curIndex ELSE 0, index, grow)
OfLocated(l) == [v |-> l.v, f |-> l.f]

Chunk(pos, n) == Min({n, SectorBytes - OffsetAt(pos)})

RECURSIVE ReadOn(_, _, _)
ReadChunk(x, off, chunk, n, got) ==
    ReadOn([x EXCEPT !.f.pos = @ + chunk], n - chunk, got \o SubSeq(x.f.buf, off + 1, off + chunk))
ReadAt(l, n, got) ==
    IF l.c = 0 THEN [x |-> OfLocated(l), data |-> got]
    ELSE ReadChunk(BufLoad(OfLocated(l), l.c, FALSE), OffsetAt(l.f.pos), Chunk(l.f.pos, n), n, got)
ReadOn(x, n, got) ==
    IF n = 0 THEN [x |-> x, data |-> got] ELSE ReadAt(Locate(x, IndexAt(x.f.pos), FALSE), n, got)

\* A cluster past the old end has no data worth reading.
Overwritten(buf, off, data) ==
    [i \in 1 .. SectorBytes |-> IF i - off \in DOMAIN data THEN data[i - off] ELSE buf[i]]
PutChunk(x, data) ==
    [x EXCEPT !.f.buf = Overwritten(@, OffsetAt(x.f.pos), data), !.f.bufDirty = TRUE, !.f.modified = TRUE,
              !.f.pos = @ + Len(data), !.f.size = Max({@, x.f.pos + Len(data)})]

RECURSIVE WriteOn(_, _, _)
WriteChunk(x, chunk, data, n) ==
    WriteOn(PutChunk(x, SubSeq(data, 1, chunk)), SubSeq(data, chunk + 1, Len(data)), n + chunk)
WriteAt(l, data, n) ==
    IF l.c = 0 THEN [x |-> OfLocated(l), n |-> n]
    ELSE WriteChunk(BufLoad(OfLocated(l), l.c, IndexAt(l.f.pos) * SectorBytes >= l.f.size),
                    Chunk(l.f.pos, Len(data)), data, n)
WriteOn(x, data, n) ==
    IF data = <<>> THEN [x |-> x, n |-> n] ELSE WriteAt(Locate(x, IndexAt(x.f.pos), TRUE), data, n)

-----------------------------------------------------------------------------
(* Operations on descriptors *)

FreeFds == {fd \in Fds : ~files[fd].used}
Opened(f) == [files EXCEPT ![Min(FreeFds)] = f]
Ok(call) == Reply(call, "ok", <<>>)

\* One writer, or any number of readers.
Busy(dir, i, flags) == \E fd \in Fds : IsOpenAt(files, fd, dir, i) /\ (files[fd].flags.write \/ flags.write)

Emptied(v, dir, i, e) == EntryPut(FreeChain(v, e.first), dir, i, [e EXCEPT !.first = 0, !.size = 0])

\* f: what find_in found.
OpenOld(dir, f, flags) ==
    \/ f.e.dir /\ Fails(f.v, "open", "EISDIR")
    \/ ~f.e.dir /\ Busy(dir, f.at, flags) /\ Fails(f.v, "open", "EBUSY")
    \/ ~f.e.dir /\ ~Busy(dir, f.at, flags) /\ FreeFds = {} /\ Fails(f.v, "open", "EMFILE")
    \/ /\ ~f.e.dir /\ ~Busy(dir, f.at, flags) /\ FreeFds # {}
       /\ IF flags.trunc
          THEN Changes(Emptied(f.v, dir, f.at, f.e), Opened(OpenFile(flags, dir, f.at, 0, 0)), Ok("open"),
                       {PathAt(f.v, dir, f.at)})
          ELSE Looks(f.v, Opened(OpenFile(flags, dir, f.at, f.e.first, f.e.size)), Ok("open"))

OpenIn(w, flags, slot) ==
    IF slot.at = 0 THEN Fails(slot.v, "open", "ENOSPC")
    ELSE Changes(EntryPut(slot.v, w.dir, slot.at, Entry(w.name, 0, 0, FALSE)),
                 Opened(OpenFile(flags, w.dir, slot.at, 0, 0)), Ok("open"), {})
OpenNew(w, v, flags) ==
    \/ ~flags.creat /\ Fails(v, "open", "ENOENT")
    \/ flags.creat /\ FreeFds = {} /\ Fails(v, "open", "EMFILE")
    \/ flags.creat /\ FreeFds # {} /\ OpenIn(w, flags, FreeSlot(v, w.dir))

OpenFound(w, f, flags) == (f.at # 0 /\ OpenOld(w.dir, f, flags)) \/ (f.at = 0 /\ OpenNew(w, f.v, flags))
OpenResolved(w, flags) ==
    \/ w.code # "ok" /\ Fails(w.v, "open", w.code)
    \/ w.code = "ok" /\ OpenFound(w, FindIn(w.v, w.dir, w.name), flags)
Open(path, flags) == phase = "up" /\ OpenResolved(Resolve(vol, path), flags)

With(fd, f) == [files EXCEPT ![fd] = f]
InUse(fd) == phase = "up" /\ files[fd].used
Handle(fd) == [v |-> vol, f |-> files[fd]]

CloseChainless(fd) ==
    /\ InUse(fd)
    /\ Flushes(DirFlush(MetaFlush(BufFlush(Handle(fd))).v), With(fd, Shut), Ok("close"))
Close(fd) ==
    /\ InUse(fd)
    /\ Flushes(DirFlush(FatFlush(MetaFlush(BufFlush(Handle(fd))).v)), With(fd, Shut), Ok("close"))

ReadEnds(fd, r) == Looks(r.x.v, With(fd, r.x.f), Reply("read", "ok", r.data))
Read(fd, n) ==
    /\ InUse(fd)
    /\ \/ ~files[fd].flags.read /\ Fails(vol, "read", "EBADF")
       \/ files[fd].flags.read /\ ReadEnds(fd, ReadOn(Handle(fd), Min({n, files[fd].size - files[fd].pos}), <<>>))

\* It answers how much it wrote: less than asked when the disk fills up.
WriteStart(f) == IF f.flags.append THEN [f EXCEPT !.pos = f.size] ELSE f
WriteEnds(fd, data, r) ==
    Changes(r.x.v, With(fd, r.x.f), Reply("write", IF r.n = 0 THEN "ENOSPC" ELSE "ok", SubSeq(data, 1, r.n)),
            {PathAt(vol, files[fd].dir, files[fd].index)})
Write(fd, data) ==
    /\ InUse(fd)
    /\ \/ ~files[fd].flags.write /\ Fails(vol, "write", "EBADF")
       \/ /\ files[fd].flags.write /\ WriteStart(files[fd]).pos + Len(data) <= MaxSize
          /\ WriteEnds(fd, data, WriteOn([v |-> vol, f |-> WriteStart(files[fd])], data, 0))

Seek(fd, pos) ==
    /\ InUse(fd)
    /\ \/ pos > files[fd].size /\ Fails(vol, "seek", "EINVAL")
       \/ pos <= files[fd].size /\ Looks(vol, With(fd, [files[fd] EXCEPT !.pos = pos]), Ok("seek"))

-----------------------------------------------------------------------------
(* Operations on paths.  w: what resolve answers; f: what find_in found in w.dir *)

IsOpen(dir, i) == \E fd \in Fds : IsOpenAt(files, fd, dir, i)

DeleteEmpty(v, w, f, path) ==
    Changes(EntryPut(FreeChain(v, f.e.first), w.dir, f.at, NoEntry), files, Ok("remove"), {path})
DeleteDir(inside, w, f, path) ==
    IF inside.at # 0 THEN Fails(inside.v, "remove", "ENOTEMPTY") ELSE DeleteEmpty(inside.v, w, f, path)
DeleteFound(w, f, path) ==
    \/ f.at = 0 /\ Fails(f.v, "remove", "ENOENT")
    \/ f.at # 0 /\ IsOpen(w.dir, f.at) /\ Fails(f.v, "remove", "EBUSY")
    \/ f.at # 0 /\ ~IsOpen(w.dir, f.at) /\ f.e.dir /\ DeleteDir(FirstUsed(f.v, f.e.first), w, f, path)
    \/ f.at # 0 /\ ~IsOpen(w.dir, f.at) /\ ~f.e.dir /\ DeleteEmpty(f.v, w, f, path)
DeleteResolved(w, path) ==
    \/ w.code # "ok" /\ Fails(w.v, "remove", w.code)
    \/ w.code = "ok" /\ DeleteFound(w, FindIn(w.v, w.dir, w.name), path)
Delete(path) == phase = "up" /\ DeleteResolved(Resolve(vol, path), path)

\* An open file follows its entry.
Moved(dir, i, toDir, toAt) ==
    [fd \in Fds |-> IF IsOpenAt(files, fd, dir, i) THEN [files[fd] EXCEPT !.dir = toDir, !.index = toAt]
                    ELSE files[fd]]

\* a, b: where the two paths lead; f: the entry renamed.  Between two directories the new entry is
\* put before the old one is taken away.
RenameAcross(a, b, f, slot, touched) ==
    IF slot.at = 0 THEN Fails(slot.v, "rename", "ENOSPC")
    ELSE Changes(EntryPut(EntryPut(slot.v, b.dir, slot.at, [f.e EXCEPT !.name = b.name]), a.dir, f.at, NoEntry),
                 Moved(a.dir, f.at, b.dir, slot.at), Ok("rename"), touched)
IntoItself(f, b) == f.e.dir /\ f.e.first \in b.through
RenameFree(a, b, f, v, touched) ==
    \/ IntoItself(f, b) /\ Fails(v, "rename", "EINVAL")
    \/ /\ ~IntoItself(f, b) /\ a.dir = b.dir
       /\ Changes(EntryPut(v, a.dir, f.at, [f.e EXCEPT !.name = b.name]), files, Ok("rename"), touched)
    \/ /\ ~IntoItself(f, b) /\ a.dir # b.dir
       /\ RenameAcross(a, b, f, FreeSlot(v, b.dir), touched)
RenameTo(a, b, f, target, touched) ==
    \/ target.at # 0 /\ Fails(target.v, "rename", "EEXIST")
    \/ target.at = 0 /\ RenameFree(a, b, f, target.v, touched)
RenameFound(a, b, f, touched) ==
    \/ f.at = 0 /\ Fails(f.v, "rename", "ENOENT")
    \/ f.at # 0 /\ a.dir = b.dir /\ a.name = b.name /\ Fails(f.v, "rename", "ok")
    \/ f.at # 0 /\ ~(a.dir = b.dir /\ a.name = b.name) /\ RenameTo(a, b, f, FindIn(f.v, b.dir, b.name), touched)
RenameResolved(a, b, touched) ==
    \/ a.code # "ok" /\ Fails(a.v, "rename", a.code)
    \/ a.code = "ok" /\ b.code # "ok" /\ Fails(b.v, "rename", b.code)
    \/ a.code = "ok" /\ b.code = "ok" /\ RenameFound(a, b, FindIn(b.v, a.dir, a.name), touched)
RenameFrom(a, to, touched) == RenameResolved(a, Resolve(a.v, to), touched)

\* No path of the program is longer than those of Paths.
Fits(from, to) ==
    \A x \in Reached(vol) : IsPrefix(from, x.path) => to \o SubSeq(x.path, Len(from) + 1, Len(x.path)) \in Paths
Rename(from, to) ==
    phase = "up" /\ Fits(from, to) /\ RenameFrom(Resolve(vol, from), to, Under(from) \cup Under(to))

\* The FAT goes out before the entry.
Made(v, c, w, at) == DirFlush(FatFlush(EntryPut(ZeroCluster(v, c), w.dir, at, Entry(w.name, c, 0, TRUE))))
MkdirWith(w, slot, new) ==
    IF new.c = 0 THEN Fails(slot.v, "mkdir", "ENOSPC")
    ELSE Flushes(Made(new.v, new.c, w, slot.at), files, Ok("mkdir"))
MkdirIn(w, slot) ==
    IF slot.at = 0 THEN Fails(slot.v, "mkdir", "ENOSPC") ELSE MkdirWith(w, slot, Alloc(slot.v))
MkdirFound(w, f) ==
    \/ f.at # 0 /\ Fails(f.v, "mkdir", "EEXIST")
    \/ f.at = 0 /\ MkdirIn(w, FreeSlot(f.v, w.dir))
MkdirResolved(w) ==
    \/ w.code # "ok" /\ Fails(w.v, "mkdir", w.code)
    \/ w.code = "ok" /\ MkdirFound(w, FindIn(w.v, w.dir, w.name))
Mkdir(path) == phase = "up" /\ MkdirResolved(Resolve(vol, path))

\* fs_stat tells of an open file what its entry says.
StatFound(f) ==
    \/ f.at = 0 /\ Fails(f.v, "stat", "ENOENT")
    \/ f.at # 0 /\ Looks(f.v, files, Reply("stat", IF f.e.dir THEN "dir" ELSE "file", <<f.e.size>>))
StatResolved(w) ==
    \/ w.code # "ok" /\ Fails(w.v, "stat", w.code)
    \/ w.code = "ok" /\ StatFound(FindIn(w.v, w.dir, w.name))
Stat(path) == phase = "up" /\ StatResolved(Resolve(vol, path))

\* fs_opendir, and fs_readdir up to the end with no call between.
NamesOf(used) == [i \in DOMAIN used |-> used[i].name]
ListDir(v, dir) ==
    Looks(Visit(v, SectorsOf(v, dir)), files,
          Reply("list", "ok", NamesOf(SelectSeq(Entries(v, dir), LAMBDA e : e.used))))
ListFound(f) ==
    \/ f.at = 0 /\ Fails(f.v, "list", "ENOENT")
    \/ f.at # 0 /\ ~f.e.dir /\ Fails(f.v, "list", "ENOTDIR")
    \/ f.at # 0 /\ f.e.dir /\ ListDir(f.v, f.e.first)
ListResolved(w) ==
    \/ w.code # "ok" /\ Fails(w.v, "list", w.code)
    \/ w.code = "ok" /\ ListFound(FindIn(w.v, w.dir, w.name))
List(path) == phase = "up" /\ IF path = <<>> THEN ListDir(vol, 0) ELSE ListResolved(Resolve(vol, path))

-----------------------------------------------------------------------------
(* The whole volume *)

\* sync_volume
RECURSIVE FlushFrom(_, _, _)
FlushNext(x, fs, fd) == FlushFrom(x.v, [fs EXCEPT ![fd] = x.f], fd + 1)
FlushFrom(v, fs, fd) ==
    IF fd = MaxOpen THEN [v |-> DirFlush(FatFlush(v)), files |-> fs]
    ELSE FlushNext(IF fs[fd].used THEN MetaFlush(BufFlush([v |-> v, f |-> fs[fd]])) ELSE [v |-> v, f |-> fs[fd]],
                   fs, fd)
Synced == FlushFrom(vol, files, 0)

SyncEnds(x) == Flushes(x.v, x.files, Ok("sync"))
Sync == phase = "up" /\ SyncEnds(Synced)

UnmountEnds(x) ==
    \/ /\ vol' = Mounted(x.v.disk) /\ files' = NoFiles /\ phase' = "off"
       /\ reply' = Ok("unmount") /\ kept' = Kept(x.v, x.files) /\ Shows(x.v, NoFiles)
       /\ UNCHANGED <<ops, stops>>
    \/ \E disk \in x.v.passed : Stop(disk) /\ UNCHANGED kept
Unmount == phase = "up" /\ UnmountEnds(Synced)

Mount ==
    /\ phase = "off" /\ phase' = "up"
    /\ reply' = Ok("mount")
    /\ UNCHANGED <<vol, files, kept, tree, open, ops, stops>>

Verdict(problems) == Reply("check", IF problems = 0 THEN "ok" ELSE "problems", <<>>)
CheckEnds(k, fs, repair) ==
    Flushes(IF repair THEN DirFlush(FatFlush(k.v)) ELSE k.v, fs, Verdict(k.problems))
CheckSynced(x, repair) == CheckEnds(Checked(x.v, repair), x.files, repair)
Check(repair) ==
    /\ phase = "up"
    /\ IF repair /\ files # NoFiles THEN Fails(vol, "check", "EBUSY") ELSE CheckSynced(Synced, repair)

\* The machine stops between two operations.
StopsIdle == phase = "up" /\ Stop(vol.disk) /\ UNCHANGED kept

\* After a stop the program mounts the volume and has it repaired before anything else.  A repair may
\* be stopped as often as it is begun.
RepairEnds(v, problems) ==
    \/ /\ vol' = [v EXCEPT !.passed = {}] /\ phase' = "up" /\ reply' = Verdict(problems)
       /\ Shows(v, NoFiles)
       /\ UNCHANGED <<files, kept, ops, stops>>
    \/ \E disk \in v.passed : StopAt(disk) /\ UNCHANGED <<kept, stops>>
Repaired(k) == RepairEnds(DirFlush(FatFlush(k.v)), k.problems)
Recover == phase = "stopped" /\ Repaired(Checked(vol, TRUE))

Next == \/ \E path \in Paths : \/ \E flags \in Flags : Open(path, flags)
                               \/ Delete(path) \/ Mkdir(path) \/ Stat(path)
        \/ \E m \in Moves : Rename(m[1], m[2])
        \/ \E path \in Paths \cup {<<>>} : List(path)
        \/ \E fd \in Fds : \/ Close(fd)
                           \/ \E n \in Lengths : Read(fd, n)
                           \/ \E data \in Payloads : Write(fd, data)
                           \/ \E pos \in Places : Seek(fd, pos)
        \/ Sync \/ Unmount \/ Mount \/ StopsIdle \/ Recover
        \/ \E repair \in BOOLEAN : Check(repair)

Spec == Init /\ [][Next]_vars

-----------------------------------------------------------------------------
(* Types *)

Names == UNION {ToSet(p) : p \in Paths}
ByteValues == UNION {ToSet(data) : data \in Payloads} \cup {0}
Sizes == 0 .. MaxSize
Fats == [Numbers -> 0 .. FatEnd]
EntryType == [used : BOOLEAN, name : Names \cup {""}, first : 0 .. Clusters, size : Sizes, dir : BOOLEAN]
Contents == [entries : [1 .. PerSector -> EntryType], bytes : [1 .. SectorBytes -> ByteValues]]
OpenFiles ==
    [used : BOOLEAN, flags : Flags \cup {NoFlags},
     dir : 0 .. Clusters, index : 0 .. (RootSectors + Clusters) * PerSector, first : 0 .. Clusters, size : Sizes, pos : Sizes, curIndex : 0 .. Clusters - 1, cur : 0 .. Clusters,
     bufAt : 0 .. Clusters, bufDirty : BOOLEAN, buf : [1 .. SectorBytes -> ByteValues], modified : BOOLEAN]

-----------------------------------------------------------------------------
(* What a file system promises *)

\* The fields of the volume, of its sectors and of the open files have their types.
TypeOK ==
    /\ vol.disk.fat \in Fats /\ \A s \in Sectors : vol.disk.sec[s] \in Contents
    /\ vol.fat \in Fats /\ vol.hint \in 0 .. Clusters - 1
    /\ vol.dirSec \in {0} \cup Sectors /\ vol.dirBuf \in Contents /\ vol.dirDirty \in BOOLEAN
    /\ vol.passed = {} /\ \A fd \in Fds : files[fd] \in OpenFiles
    /\ phase \in {"up", "off", "stopped"} /\ (phase # "up" => files = NoFiles)
    /\ DOMAIN kept \subseteq Paths /\ DOMAIN tree \subseteq Paths
    /\ ops \in 0 .. MaxOps /\ stops \in 0 .. MaxStops

\* What fs_check would find: nothing, at any moment but after a stop.  So after a repair, stopped or not
\* on the way, there is nothing left to repair, and no operation leaks or shares a cluster.
ChecksClean == TypeOK /\ (phase = "up" => Checked(Synced.v, FALSE).problems = 0)

F == INSTANCE Files

\* Every operation, all its sectors and caches and the open files included, is one step on a tree of
\* files with a truthful answer, and no file closed or synced and not touched since is harmed by
\* stops in the middle of other things, of the repair too.
FilesSpec == F!Spec

\* A file closed or synced and not touched since is there with its bytes: what fs_close wrote to the
\* device, and what a repair must leave of the files that the stopped call had nothing to do with.
ClosedFilesSurvive == F!Durable
=============================================================================
