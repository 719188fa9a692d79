-------------------------------- MODULE Files -------------------------------
(***************************************************************************)
(* What CeresFS promises its callers (include/ceres/fs.h, fs.c): a tree of *)
(* directories and files, descriptors with a position, operations that     *)
(* happen at once and say the truth about why they did not, and files that *)
(* survive a machine that stops.                                           *)
(***************************************************************************)
EXTENDS Integers, FiniteSets, Sequences, SequencesExt

CONSTANTS Paths,       \* the paths in use: sequences of names
          MaxOpen, Flags, Payloads, Lengths, Places, Moves

VARIABLES tree,        \* path -> directory or file, with its bytes; empty while the machine is stopped
          open,        \* by descriptor: the path, the flags and the position
          phase,       \* "up", "off" or "stopped"
          kept,        \* path -> bytes of the files that a stop must not harm
          reply        \* the last answer

Fds == 0 .. MaxOpen - 1

fvars == <<tree, open, phase, kept, reply>>

Directory == [dir |-> TRUE, bytes |-> <<>>]
File(bytes) == [dir |-> FALSE, bytes |-> bytes]
NoFlags == [read |-> FALSE, write |-> FALSE, creat |-> FALSE, trunc |-> FALSE, append |-> FALSE]
Descriptor(path, flags, pos) == [used |-> TRUE, path |-> path, flags |-> flags, pos |-> pos]
Free == [used |-> FALSE, path |-> <<>>, flags |-> NoFlags, pos |-> 0]
NoneOpen == [fd \in Fds |-> Free]

Answers(call, code, data) == reply' = [call |-> call, code |-> code, data |-> data, turn |-> 1 - reply.turn]
Done(call) == Answers(call, "ok", <<>>)

-----------------------------------------------------------------------------
(* Why an operation may fail *)

When(test, code) == IF test THEN {code} ELSE {}

Exists(path) == path \in DOMAIN tree
IsFile(path) == Exists(path) /\ ~tree[path].dir
IsDir(path) == path = <<>> \/ (Exists(path) /\ tree[path].dir)

\* What is wrong with the way to a path.
Parents(path) == {SubSeq(path, 1, n) : n \in 0 .. Len(path) - 1}
OffTheWay(path) ==
    When(\E p \in Parents(path) : IsFile(p), "ENOTDIR")
        \cup When(\E p \in Parents(path) : ~IsDir(p) /\ \A q \in Parents(p) \cup {p} : ~IsFile(q), "ENOENT")

OpenAt(path) == {fd \in Fds : open[fd].used /\ open[fd].path = path}
Written(path) == \E fd \in OpenAt(path) : open[fd].flags.write
FreeFds == {fd \in Fds : ~open[fd].used}

OpenTroubles(path, flags) ==
    OffTheWay(path)
        \cup When(~Exists(path) /\ ~flags.creat, "ENOENT")
        \cup When(IsDir(path), "EISDIR")
        \cup When(Written(path) \/ (flags.write /\ OpenAt(path) # {}), "EBUSY")
        \cup When(FreeFds = {}, "EMFILE")
DeleteTroubles(path) ==
    OffTheWay(path)
        \cup When(~Exists(path), "ENOENT")
        \cup When(OpenAt(path) # {}, "EBUSY")
        \cup When(\E p \in DOMAIN tree : IsStrictPrefix(path, p), "ENOTEMPTY")
RenameTroubles(from, to) ==
    OffTheWay(from) \cup OffTheWay(to)
        \cup When(~Exists(from), "ENOENT")
        \cup When(Exists(to) /\ from # to, "EEXIST")
        \cup When(IsDir(from) /\ IsStrictPrefix(from, to), "EINVAL")
ListTroubles(path) ==
    OffTheWay(path) \cup When(path # <<>> /\ ~Exists(path), "ENOENT") \cup When(IsFile(path), "ENOTDIR")

Fails(call, codes) ==
    /\ Answers(call, reply'.code, <<>>) /\ reply'.code \in codes
    /\ phase = "up" /\ UNCHANGED <<tree, open, phase, kept>>

-----------------------------------------------------------------------------
(* The operations *)

Without(paths) == [p \in DOMAIN kept \ paths |-> kept[p]]

\* What is on the medium once an operation flushed: nothing less than before, every file that no
\* descriptor of writers may have changed since, and each as it is.
Keeps(writers) ==
    /\ \A p \in DOMAIN kept' : p \in DOMAIN tree' /\ tree'[p] = File(kept'[p])
    /\ DOMAIN kept \subseteq DOMAIN kept'
    /\ \A p \in DOMAIN tree' : ~tree'[p].dir /\ p \notin writers => p \in DOMAIN kept'
WritersBut(fd) == {open[d].path : d \in {x \in Fds \ {fd} : open[x].used /\ open[x].flags.write}}

WithNode(path, node) == [p \in DOMAIN tree \cup {path} |-> IF p = path THEN node ELSE tree[p]]
FirstFree(fd) == fd \in FreeFds /\ \A d \in FreeFds : fd <= d

Open(path, flags) ==
    /\ Done("open") /\ phase = "up" /\ OpenTroubles(path, flags) = {}
    /\ \E fd \in Fds : FirstFree(fd) /\ open' = [open EXCEPT ![fd] = Descriptor(path, flags, 0)]
    /\ IF Exists(path) /\ ~flags.trunc THEN UNCHANGED tree ELSE tree' = WithNode(path, File(<<>>))
    /\ kept' = IF Exists(path) /\ flags.trunc THEN Without({path}) ELSE kept
    /\ UNCHANGED phase

\* What was written is on the medium from here on.
Close(fd) ==
    /\ Done("close") /\ phase = "up" /\ open[fd].used
    /\ open' = [open EXCEPT ![fd] = Free]
    /\ Keeps(WritersBut(fd)) /\ UNCHANGED <<tree, phase>>

BytesOf(fd) == tree[open[fd].path].bytes
UpTo(fd, n) == IF open[fd].pos + n > Len(BytesOf(fd)) THEN Len(BytesOf(fd)) ELSE open[fd].pos + n
Read(fd, n) ==
    /\ phase = "up" /\ open[fd].used /\ open[fd].flags.read
    /\ Answers("read", "ok", SubSeq(BytesOf(fd), open[fd].pos + 1, UpTo(fd, n)))
    /\ open' = [open EXCEPT ![fd].pos = UpTo(fd, n)]
    /\ UNCHANGED <<tree, phase, kept>>

\* data over what there is from pos on.
Over(bytes, pos, data) ==
    SubSeq(bytes, 1, pos) \o data \o SubSeq(bytes, pos + Len(data) + 1, Len(bytes))
WritePos(fd) == IF open[fd].flags.append THEN Len(BytesOf(fd)) ELSE open[fd].pos

\* It writes all or, when the disk fills up, less, and answers how much.
Write(fd, data) ==
    /\ phase = "up" /\ open[fd].used /\ open[fd].flags.write
    /\ \E n \in 0 .. Len(data) :
          /\ Answers("write", IF n = 0 THEN "ENOSPC" ELSE "ok", SubSeq(data, 1, n))
          /\ tree' = WithNode(open[fd].path, File(Over(BytesOf(fd), WritePos(fd), SubSeq(data, 1, n))))
          /\ open' = [open EXCEPT ![fd].pos = WritePos(fd) + n]
    /\ kept' = Without({open[fd].path}) /\ UNCHANGED phase

Seek(fd, pos) ==
    /\ Done("seek") /\ phase = "up" /\ open[fd].used /\ pos <= Len(BytesOf(fd))
    /\ open' = [open EXCEPT ![fd].pos = pos]
    /\ UNCHANGED <<tree, phase, kept>>

Delete(path) ==
    /\ Done("remove") /\ phase = "up" /\ DeleteTroubles(path) = {}
    /\ tree' = [p \in DOMAIN tree \ {path} |-> tree[p]]
    /\ kept' = Without({path}) /\ UNCHANGED <<open, phase>>

\* Everything below moves along, the open files too.
Rebased(path, from, to) == IF IsPrefix(from, path) THEN to \o SubSeq(path, Len(from) + 1, Len(path)) ELSE path
Touched(from, to) == {p \in DOMAIN kept : IsPrefix(from, p) \/ IsPrefix(to, p)}
Rename(from, to) ==
    /\ Done("rename") /\ phase = "up" /\ RenameTroubles(from, to) = {} /\ from # to
    /\ tree' = [p \in {Rebased(q, from, to) : q \in DOMAIN tree} |-> tree[Rebased(p, to, from)]]
    /\ open' = [fd \in Fds |-> [open[fd] EXCEPT !.path = IF open[fd].used THEN Rebased(@, from, to) ELSE @]]
    /\ kept' = Without(Touched(from, to)) /\ UNCHANGED phase
RenameNothing(path) ==
    /\ Done("rename") /\ phase = "up" /\ RenameTroubles(path, path) = {}
    /\ UNCHANGED <<tree, open, phase, kept>>

Mkdir(path) ==
    /\ Done("mkdir") /\ phase = "up" /\ OffTheWay(path) = {} /\ ~Exists(path)
    /\ tree' = WithNode(path, Directory)
    /\ Keeps(WritersBut(-1)) /\ UNCHANGED <<open, phase>>

\* The size of a file open for writing may be an old one.
Stat(path) ==
    /\ Answers("stat", IF IsDir(path) THEN "dir" ELSE "file", reply'.data)
    /\ phase = "up" /\ OffTheWay(path) = {} /\ Exists(path)
    /\ ~Written(path) => reply'.data = <<Len(tree[path].bytes)>>
    /\ UNCHANGED <<tree, open, phase, kept>>

\* Every name once, in no order.
NamesIn(path) == {Last(p) : p \in {q \in DOMAIN tree : SubSeq(q, 1, Len(q) - 1) = path}}
List(path) ==
    /\ Answers("list", "ok", reply'.data)
    /\ phase = "up" /\ ListTroubles(path) = {}
    /\ ToSet(reply'.data) = NamesIn(path) /\ Len(reply'.data) = Cardinality(NamesIn(path))
    /\ UNCHANGED <<tree, open, phase, kept>>

-----------------------------------------------------------------------------
(* The whole volume *)

Sync == /\ Done("sync") /\ phase = "up" /\ Keeps({})
        /\ UNCHANGED <<tree, open, phase>>

Unmount == /\ phase = "up" /\ phase' = "off" /\ open' = NoneOpen
           /\ Keeps({}) /\ Done("unmount") /\ UNCHANGED tree

Mount == phase = "off" /\ phase' = "up" /\ Done("mount") /\ UNCHANGED <<tree, open, kept>>

\* It finds nothing wrong.
Check(repair) ==
    /\ Done("check") /\ phase = "up" /\ (repair => open = NoneOpen)
    /\ Keeps({}) /\ UNCHANGED <<tree, open, phase>>

\* The machine stops, perhaps in the middle of an operation on some path or on two.
Stops ==
    /\ Answers("none", "none", <<>>) /\ phase # "off" /\ phase' = "stopped" /\ tree' = <<>> /\ open' = NoneOpen
    /\ \/ UNCHANGED kept
       \/ \E path \in Paths : kept' = Without({path})
       \/ \E m \in Moves : kept' = Without(Touched(m[1], m[2]))

\* Mounted again and repaired, whatever was wrong: some tree, with what must be in it.
Recover ==
    /\ phase = "stopped" /\ phase' = "up"
    /\ \A p \in DOMAIN tree' : \A q \in Parents(p) \ {<<>>} : q \in DOMAIN tree' /\ tree'[q].dir
    /\ \A p \in DOMAIN kept : p \in DOMAIN tree' /\ tree'[p] = File(kept[p])
    /\ Answers("check", reply'.code, <<>>) /\ UNCHANGED <<open, kept>>

Refuses ==
    \/ \E path \in Paths : \/ \E flags \in Flags : Fails("open", OpenTroubles(path, flags)
                                                         \cup When(flags.creat /\ ~Exists(path), "ENOSPC"))
                           \/ Fails("remove", DeleteTroubles(path))
                           \/ Fails("mkdir", OffTheWay(path) \cup {IF Exists(path) THEN "EEXIST" ELSE "ENOSPC"})
                           \/ Fails("stat", OffTheWay(path) \cup When(~Exists(path), "ENOENT"))
                           \/ Fails("list", ListTroubles(path))
    \/ \E m \in Moves : Fails("rename", RenameTroubles(m[1], m[2]) \cup {"ENOSPC"})
    \/ \E fd \in Fds : /\ open[fd].used
                       /\ \/ Fails("read", When(~open[fd].flags.read, "EBADF"))
                          \/ Fails("write", When(~open[fd].flags.write, "EBADF"))
                          \/ \E pos \in Places : Fails("seek", When(pos > Len(BytesOf(fd)), "EINVAL"))
    \/ Fails("check", When(open # NoneOpen, "EBUSY"))

Init == /\ open = NoneOpen /\ phase = "up"
        /\ \A p \in DOMAIN kept : p \in DOMAIN tree /\ tree[p] = File(kept[p])

Next == \/ \E path \in Paths : \/ \E flags \in Flags : Open(path, flags)
                               \/ Delete(path) \/ Mkdir(path) \/ Stat(path) \/ RenameNothing(path)
        \/ \E path \in Paths \cup {<<>>} : List(path)
        \/ \E m \in Moves : Rename(m[1], m[2])
        \/ \E fd \in Fds : \/ Close(fd)
                           \/ \E n \in Lengths : Read(fd, n)
                           \/ \E data \in Payloads : Write(fd, data)
                           \/ \E pos \in Places : Seek(fd, pos)
        \/ Sync \/ Unmount \/ Mount \/ Stops \/ Recover \/ Refuses
        \/ \E repair \in BOOLEAN : Check(repair)

Spec == Init /\ [][Next]_fvars

\* A file closed or synced, and not touched since, is there with its bytes, however often the machine
\* stopped: fs.h has its data written to the device when the file is closed, or by fs_sync.
Durable == phase # "stopped" => \A p \in DOMAIN kept : p \in DOMAIN tree /\ tree[p] = File(kept[p])
=============================================================================
