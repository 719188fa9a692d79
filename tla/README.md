# Ceres Standard Library: verification

TLA+ models of the Ceres Standard Library, model-checked with TLC on small instances and, where it is
feasible, proved with TLAPS for every value of the constants.  Every definition is translated from
the C source under `src/src` (the library), not from its documentation; `PROJECT.json` maps each
definition to the lines it stands for.  Doc comments and headers are used for one thing: to state
what a module promises, in the properties.

The library runs on a single-core machine without an operating system: nothing preempts the program
but interrupt handlers, tasks switch only where they call the library, and the machine can be turned
off at any instant.  So the hard behaviours are: the order in which cooperative tasks run; what
callbacks and interrupt handlers do in the middle of a call; numbers that wrap (ids, deadlines,
sequence numbers, ring indexes); and a stop, or a failure, between two steps of something that
is meant to be atomic.

## 1. The system

| component | state it keeps | operations | what is hard, what makes it correct |
|---|---|---|---|
| **tasks** `ceres/task.c` | task table (state, generation, stack, wake time, object waited on), current task, live count, stack to free, main's stack limit | spawn, yield, sleep, join, exit, count, alive | round robin, waking, deadlock detection, freeing a stack nobody runs on, id reuse. No lost wakeup, nobody starves, `EDEADLK` only when true, stacks owned by one task |
| **channels** `ceres/task.c` | ring (buffer, head, count, capacity), closed | init, send, try_send, recv, try_recv, close, free | wake-all and look again; freed while tasks are on their way back. Each is a bounded FIFO queue |
| **software timers** `ceres/timer.c` | table of (due, period, callback) | after, every, cancel, pending, poll | callbacks change the table during the scan; the 32-bit counter wraps. Due timers run, oldest first, none twice, none never |
| **waits** `ceres/irq.c`, `timer.c`, `terminal.c`, `dma.c`, `audio.c`, `periph.c` | the alarm's register, interrupt mask, flags set by handlers | wait for a flag, for input, for a device, until an instant | look-then-halt against requests that come in between; one alarm shared with the program |
| **saved games** `ceres/save.c` | two files | write, read, load, size, exists, erase | a stop at any byte; a save that fails; sequence numbers that wrap; unreadable copies. A save is atomic and the newest copy is never at risk |
| **CeresFS** `ceres/fs.c` | volume (one cached FAT sector, one cached directory sector), open files (buffered sector, pending size) | mount, open, read, write, seek, truncate, close, remove, rename, mkdir, readdir, sync, check | four caches flushed in an order; a stop between two sector writes. Files are independent byte strings, and a check repairs what a stop left |
| **heap** `malloc.c` | block headers, lists by size with two levels of bitmaps, the top | malloc, calloc, realloc, aligned_alloc, free | coalescing, splitting, growth in place and past the top. Blocks are disjoint, lists and headers agree, contents move along |
| **streams** `file.c`, `fopen.c`, `stdio.c` | buffer, position, mode and flags of each stream | fopen .. fclose, fread, fwrite, fseek, ungetc, setvbuf, fflush, freopen, printf | read and write share one buffer; read-ahead; append; failures half way. A stream is its file, seen through a delay |
| **queues** `ds/cqueue.c` | two free-running indexes | put, take, peek | an interrupt between any two steps; no lock but the order of index and element |
| **containers** `ds/*`, `arena.c`, `pool.c` | links, tables, counts, generations, copies of keys | insert, find, remove, grow | deletion: tombstones, rebalancing, stale handles, growth while wrapped, memory that fails between two parts |
| **memory management unit** `ceres/mmu.c` | tables, the space in use, guard pages | map, unmap, protect, activate, guard | a processor that remembers translations |
| **music** `ceres/music.c` | song position, effects, whose each channel is | play, stop, update, effect | song and effects share channels, and each may end or be replaced while the other plays |
| **input** `ceres/key.c`, `line.c`, `input.c` | a byte held back, the line, the frame's edges | key_get, line_read, poll, pressed, released | bytes of one key come in pieces and late |
| **exit, signals, environment, media** `exit.c`, `signal.c`, `env.c`, `ceres/periph.c` | tables of handlers, the array and its copy, registers shared by media | exit, raise, setenv, read, write | handlers that register, raise and exit again; a copy that could not be made; a medium pulled out |
| **text and formats** `json.c`, `ini.c`, `lz.c`, `pack.c`, `utf8.c`, `wchar.c` | a parser's position, a conversion's state | parse, write, find, compress, convert | truncated input, full buffers, stopping in the middle. What is written reads back |
| **numbers, time, sorting** `strtox.c`, `fconv*.c`, `format.c`, `scanf.c`, `time.c`, `qsort.c`, `sort.c` | none | strtol, strtof, printf, scanf, mktime, gmtime, sort | exact rounding, limits of words, negative days, stability |
| **strings, mathematics, hashes** | none | mem*, str*, sin, pow, crc | numerical error and statistics |
| **drawing, terminal output, shell, tools** | frame buffer, cursor | draw, print | output; clients of the library |

How they meet: `task.c` takes its stacks from the heap, whose hook tells it of a new top; `schedule()` halts
through `timer.c`; `save.c` goes through streams to CeresFS or the host; streams, JSON readers and packs
read media through block devices; most containers keep their elements in vectors from the heap.  Interrupt
handlers set flags and put into single-producer queues, nothing else.  Everything else is called, returns,
and keeps nothing.

## 2. Modules

| module | what it is | code |
|---|---|---|
| `ChanQueue` | abstract: what `task.h` promises of channels: bounded FIFO queues and their answers | (promise) |
| `Tasks` | the scheduler, all `task_` and `chan_` calls with the channels' ring buffers, the heap they take stacks from | `task.c`, `asm/task.casm` |
| `SaveSlot` | abstract: what `save.h` promises: one value, replaced atomically | (promise) |
| `Save` | the two files, every call, stops and failures | `save.c` |
| `SoftTimers` | the table, `timer_poll`, nested polls, callbacks that do anything | `timer.c` 134-240 |
| `Files` | abstract: what `fs.h` promises: a tree of files, descriptors, true answers, durability | (promise) |
| `FsVolume` | a mounted volume: FAT, directory cache, directories, paths, the checker | `fs.c` 77-522, 1459-1622 |
| `CeresFS` | open files and every call, with a stop after any sector written | `fs.c` 524-1421, `FsVolume` |
| `Heap` | the allocator: headers, lists, bitmaps, edges, every call | `malloc.c` |
| `RbTree` | the red-black tree on its owners' nodes, and the map on it with its values | `ds/rbtree.c`, `ds/omap.c` |
| `HashMap` | open addressing with tombstones and rebuilding; the copies of keys | `ds/gmap.c`, `ds/hashmap.c` |
| `Lists` | doubly and singly linked lists, the loop that unlinks; the skip list | `ds/list.h`, `ds/slist.h`, `ds/skiplist.c` |
| `Trie`, `Vector`, `BinaryHeap` | the trie; the vector, the flat map and the growing string; heaps with and without handles | `ds/trie.c`, `ds/vector.c`, `ds/flatmap.c`, `ds/strbuf.c`, `ds/iheap.c`, `ds/pqueue.c` |
| `Keyed` | structures of several parts: LRU cache, multimap | `ds/lru.c`, `ds/multimap.c` |
| `Rings` | the deque; the queue between a handler and the program, step by step | `ds/deque.c`, `ds/cqueue.c` |
| `Sets` | bit sets, Bloom filters, disjoint sets | `ds/bitset.c`, `ds/bloom.c`, `ds/dsu.h` |
| `Storage` | what is handed out and taken back: an arena's pieces, a pool's blocks, a slot map's handles | `arena.c`, `pool.c`, `ds/slotmap.h` |
| `Stream` | a FILE over a medium or the terminal; `fmemopen` | `file.c`, `fopen.c`, `stdio.c` |
| `Waits` | every loop that looks and halts, one step at a time, and the alarm it borrows | `irq.c`, `timer.c` 69-90, `terminal.c`, `dma.c`, `audio.c`, `periph.c` |
| `Mmu`, `Music`, `Input` | page tables and a processor that remembers; songs and effects; keys, lines and the frame | `mmu.c`, `music.c`, `key.c`, `line.c`, `input.c` |
| `Surroundings` | exit and signals; the environment; transfers to media | `exit.c`, `signal.c`, `env.c`, `periph.c`, `disk.c` |
| `Ini`, `Json`, `Lz`, `Pack`, `Utf8` | formats: writers, readers, searches, codecs | `ini.c`, `json.c`, `lz.c`, `pack.c`, `utf8.c`, `wchar.c` |
| `Numbers`, `Floats`, `Calendar`, `Sorts` | algorithms against a reference definition | `strtox.c`, `format.c`, `scanf.c`, `fconv*.c`, `time.c`, `qsort.c`, `sort.c` |
| `MCTasks`, `MCFS` | `Tasks` and `CeresFS` for TLC | |
| `MCStructures`, `MCDevices`, `MCText` | many modules for TLC, one of them in each behaviour: `kind` chooses at the start. The modules there are theorems about (`Rings`, `Heap`, `Storage`, `HashMap`, `Stream`, `Waits`, `Mmu`, `Music`, `Surroundings`) are extended and keep their own variables and specification; the others share variables | |
| `Tasks_proofs`, `Save_proofs`, `SoftTimers_proofs`, `Heap_proofs` | theorems on the module of that name | |
| `Files_proofs` | theorems on `Files` and on `Stream` | |
| `Structures_proofs` | theorems on `Rings`, `Storage` and `HashMap` | |
| `Devices_proofs` | theorems on `Waits`, `Mmu`, `Music` and `Surroundings`, a section each | |

### Tasks

A task runs until it calls something that switches, so what a call does up to a switch is one step.
`phase` says where control is: in a task (or at the top of the loop of the call it is in), inside
`schedule()`, or just out of `__task_switch`; `op[i]` is the call task `i` has not returned from.
One turn of `schedule()`'s loop is one step (`Switch`, `KeepRunning`, `Halt`, `GiveUp`,
`PickHopeless`), and so is one turn of the loops of `task_join`, `chan_send` and `chan_recv`.
The other variables have the names of the code.  `ret` is what the last step answered.

* The program is any program: each running task may make any call at any time, with any argument of
  the constants' sets, allocate or free memory (which may move the heap's top), return, or end
  the program.  `chan_init` is only called on a channel that was freed and that nobody waits on.
* The heap is external: `Blocks` are the addresses `malloc` may give, `Tops` where its top can be; it
  stays above every block.  `limit` is the machine's stack-limit register.
* Ids are taken modulo `IdMod` (2^31 in the code), the clock and the wake times modulo `TimeMod` (2^64).
* A halt may end at the alarm or before it, since any interrupt wakes the machine.
* Not modelled: registers and the contents of stacks; guard pages (`task_guard.c`), which change no
  variable of the scheduler; interrupt handlers, which must not call `task_` functions (`task.h:21`).

### Save

`copy` is what the medium holds of each file: missing, without a good header, with a good header and
bad bytes (torn), or good; the bytes of the n-th save are `n`.  A `save_write` is three steps, for a stop
may come between them: it looks and chooses (`WriteLook`), opens (`WriteOpen`), writes and closes
(`WriteClose`).  Reading is one step: nothing runs at the same time (`save.h`).
`Finds` is what one `newest()` may see: a file may fail to open at any time; with `ReadFaults`
reading an open one may fail as well.  A `Crash` leaves the file being written old, headless, torn or whole.
`Half` stands for 2^31.  A matching CRC is taken to mean that the bytes are those written, and names that
do not fit, the version field and decay of the medium are left out.

### SoftTimers

`polls` are the local variables of the `timer_poll` calls under way, outermost first: a callback may poll.
When `control = "program"` and `depth > 0` a callback runs, and may add, cancel and poll as it likes; what
`timer_cancel` frees is any slot, because an id is a slot's index and the program may hold an old one.
`left` and `age` are ghosts: the true number of cycles to a deadline and since a poll read the
clock, which the wrapped 32-bit numbers stand for.  `Tick` has the guard `Attended`: the
program polls before a timer is overdue by half the counter's range less the longest timer (43 s in
all), and no timer is set for as long; without this the comparison on `timer.c:210` gives wrong answers
by design, which the header does not say (see the hazards in `PROJECT.json`).

### CeresFS

A volume `v` (module `FsVolume`) is the medium (`v.disk`: FAT and sectors), the cached FAT, the cached directory
sector and `free_hint`; functions of the code are operators from volume to volume.  `v.passed` collects the media that
a function's `wr` calls go through.  Every call of the program is one action: nothing runs at the same time
(interrupt handlers and other tasks do not come between, as nothing in `fs.c` yields).  An action either ends,
or the machine stops at one of the media of `v.passed`; all that is not on the medium is then gone, and the program's first
call after it is the mount and the repair (`Recover`), which may be stopped as well.

`tree` and `open` are what the program sees, worked out after every step from the medium, the caches and the open
files; `kept` are the files that must be on the medium.  These three are not in the code.  Module `Files` is stated on them
alone, and `FilesSpec` says that each step of `CeresFS` is a step of `Files`: an operation succeeds only if nothing
stands against it, and an error it answers is true; reads give the bytes last written through any descriptor;
a rename takes a whole tree and the files open in it along; a write that finds the disk full wrote what it says.
`ENOSPC` may come at any time, and while a file is open for writing `fs_stat` may tell an old size.
After a stop `Files` allows any tree that has the files of `kept` in it, byte for byte.  A file leaves `kept` when a
call truncates, writes, removes or renames it (or a directory above it), and is back after its `fs_close`, after any call that flushes, or `fs_sync`.

What the model takes for granted:

* sectors are written whole, in order, and without errors;
* the FAT is one sector (a volume of at most 255 clusters), a cluster a sector, as in the code;
* entries read as bytes are zeros, and bytes read as entries are blank ones but for those of the constant `LooksLike`.
  In `ceresfs` there are none.  `ceresfs_bytes` has two bytes that read as an entry, and shows what comes of them: if the cluster
  of a removed directory has been given to a file and the machine stops before the removal is on the medium, a
  repair takes the file's bytes for entries and cuts another file's chain at a cluster they name;
* directories are never nested deeper than `MAX_PARTS`, which the bounded paths cannot reach;
* `meta_dirty` and `modified` are one flag: only a write sets either, and a write that stores a byte sets both or `modified`.

### Heap and data structures

Each module keeps what the code keeps (slots, links, counts, generations, lists by size) and, beside it, a
variable that is not in the code and holds what the answers so far let the caller believe: a map,
a sequence, a bag, the blocks held.  The properties relate the two.  Calls are made in any order by a caller that
keeps the headers' rules (a node is put on a list once, a priority is only changed of what is in the heap).
Where a call allocates, memory may fail at each place the code looks at the answer.

* `Heap`: units of 8 bytes, a header one unit.  `mem[u].size` says what lies at a unit: a header, bytes of the program, or neither; a
  header left behind where two blocks were merged stays, as in the memory, so that a stale pointer's diagnosis is decided by what it finds there.
  Loops are replaced by what they compute: `TopBit` is the bit it is, a free list is a sequence and unlinking drops a place of it, and `at` (not in the code) is the set of headers
  that `heap_check`'s walk from block to block would meet: `Tiled` says that it does meet just these.  So the module can be proved about.
  The stack moves the limit up and down.  The build without `CERES_HEAP_DEBUG` is modelled.
* `RbTree`: mirror images in the code are one definition with a side.  `HashMap`: a key's hash is a constant function, for TLC chosen so that
  probe sequences run into each other and round the end of the table.  `h & (cap - 1)` is the remainder, a capacity being 0 or a power of two.  A probe loop is the first of the slots it
  passes that would end it (`ProbeTo`, `Ends`), and the loop of `rebuild` is a function of the number of old slots done (`Refills`), so that the module can be proved about.
* `Rings`: `cq_put` and `cq_take` are cut at every access to the queue, an element being torn while it is copied; indexes wrap at `Wrap`.
* `Storage`: an arena or a pool is given memory that ends before addresses do.  `marks` are the marks a caller may still go back to, each with the number of pieces there were.
  A generation of the slot map starts over at `GenWrap` (2^32), after which a handle can no longer be told stale: the property lets exactly that one go.
  `MayLack` names the vectors that memory may lack for.  It leaves `gens` out: when the slots have grown and the generations cannot, the next
  insertion finds room in the one and pushes to the other without looking at the answer (`slotmap.h:86-91`); the comment at `slotmap.h:75-77` says such a push cannot fail.

### Streams, waits and devices

* `Stream`: a medium of at most `MaxSize` bytes, which may break and then fails every call; running out of memory may leave a stream without its buffer, as in
  `buffer_of`.  `told` is what the program believes of the file: after an error the code owned up to, nothing more.
  The loops of `write_bytes`, `fgets` and `ops_read` are functions of the number of turns taken (`Poured`, `Line`, `Block`): each turn moves at least a
  byte or is the last, so as many turns as there are bytes are enough, and a turn after the last changes nothing.
  `ftell` of an appending stream that holds bytes back is left out of `TellAgrees`: the code counts from where the medium stands, not from its end.
* `Waits`: the machine's interrupt logic is external: a request waits in `pend` until interrupts are open, and in `latch` until a halt; nothing comes between
  `sti` and the `halt` after it.  The waiter is a program counter through one of five loops; the devices, the clock and handlers step at any time.
* `Mmu`: the processor may look up any page at any time and remembers it until told otherwise, or until it
  forgets others for its sake (`Keeps` are the sets it may retain; TLC has none and all).  A call on a range is one step with the
  set of pages it reached: `mmu_map` may stop where it has no memory for a table, `mmu_protect` where a page is not mapped; a guard page may fail to be given back for the same want.
* `Music`: a row of a song lasts one unit of time, which goes on while `music_update` catches up row by row.  `sfx_update` and `music_step` are the program's to call as well; an effect that began before a song that then took its channel is marked `early`, for the code does not give the song's instrument back after it
  (`music.c:99` looks at what was true when the effect began), and `SoundsRight` leaves those channels out.
* `Input`: bytes arrive one at a time; a gap is a follower that did not come within its time, and `eaten` keeps where the gaps were.  The keys reported are held against a decoding of the whole at once.
* `Surroundings`: a handler is a call and may make any call itself.  `exit` and `quick_exit` run a table each, by the same steps (`Exit`, `RunHandler`); `ran` keeps who ran, from which table and
  which registrations there were then, so that the order can be stated: what runs after another of its table was registered before it, or while it ran (`Behind`).  Media come and go at any step of a transfer, and an interrupt's handler may look at another port between two sectors.
  It may not between the step that selects a port and the command after it (`LookAt`'s guard): the registers are one set, and the command would go to the port the handler chose.

### Formats and algorithms

`job` is the input and `out` the answer, worked out in one step from every input up to a small length (`Json`'s writer and `Ini`'s document are built call by call).
Scaling keeps the shape:

* `Lz` has bytes 0 .. 3, half a token 0 .. 1 and its distances as constants, so that every length that spills over its nibble occurs.  `Slack`, the 16 of `LZ4_BOUND`, is 2, the least at which a
  buffer of that size always does (with 1, `PacksBack` fails); `MinMatch` is the code's 4, and `MfLimit` is 5, so that, as with the code's 12, a match that is found ends before the last literals, of which there is one.  A stream of frames is a sequence of words, a record each, with the headers' flags as fields,
  and is cut after every one of them.  A header cut short after a frame is, to the code, what follows the last frame and not ours; any other cut is `EINVAL`.
* `Pack` has a medium of words, each the header, an entry or data, opened from memory, as a file or as a device; in every call sectors may fail and memory may lack, and `Explained` holds the answer against what did.  `Most` stands for 0xFFFFFFFF,
  the one size `pack_load` refuses for its NUL.
* `Sorts`: `sort_stable` may lack its buffer, for want of memory or because n elements and the one held aside pass `SizeMax`: then, and only then, it answers -1 and leaves the array as it was.
* `Floats` has 3 bits of mantissa, infinity at 5 and a hexadecimal digit of one bit, so that all bit patterns are enumerated, NaNs, subnormal numbers, ties and overflows among them; it is held to exact digits, ties to even,
  which is what `format.c:180-182` and the code have (and `format.c:11-13` has not, see below).
* `Calendar` has days of 4 hours of 3 minutes of 2 seconds, but the real months and leap years, from year -401 on.  Its limits (`MaxDays`, `MaxYear`) are nearer than the code's, so that walks cross them on both
  sides: what is outside is `EOVERFLOW`, with the fields left alone.  `sleep` and `nanosleep` have clocks of few bits, and their clamps as constants.
* `Numbers` has a word of 6 bits, and bases that are none (`EINVAL`) besides the usual.

## 3. Runs

| run | what it shows | bounds and why they are enough |
|---|---|---|
| `tasks_sched` | the scheduler's invariant `IInv` (types, control, count, stacks, stack limit, waiters, ids, sleeps); stacks owned by one task; live ids found; sleeps last | 3 slots: a current task, one that waits and one that finishes; 2 tasks per slot, so that a slot is reused while joined; 3 tops, so that the heap moves up and down; sleeps that meet and that do not |
| `tasks_chan` | `IInv` with channels; deadlocks are real; channels refine `ChanQueue`, for capacities 1 and 2, with free and re-init | 3 tasks (two on one side of the channel), 2 messages (told apart, symmetric), no naps |
| `tasks_live` | nobody who can run starves; a join returns even if the slot is reused | 3 slots with 2 tasks each, one nap |
| `save` | the save survives everything; the newest copy is spared; refinement of `SaveSlot` | 5 saves with sequence numbers modulo 4: past the wrap; two sizes for the buffer that is too small |
| `ceresfs` | types; `fs_check` never finds anything, a second time after a repair included; files closed and not touched since survive; refinement of `Files` | a medium with a file of two clusters in a directory; 4 clusters of 2 bytes and one entry to a sector, so that a second name makes a directory grow and one more cluster fills the disk; paths of depth 2; 2 descriptors; 4 operations and 1 stop (a repair may stop again): the shortest histories in which seeks go back over a cluster boundary, or a rename, a stop and a later operation meet |
| `timers` | order and completeness of polls, nested to depth 2; one-shots are not starved by repeating timers | 2 timers, counter modulo 8, all start values of the counter |
| `structures` | each structure is what it says, in all its reachable states | 9 nodes in the tree (rotations of both kinds at two levels); 6 keys in a table of 8 to 16 slots, four of which collide; heap of 12 units with sizes 0, 1, 4 and 5 (two sizes in one list, so that a list may hold too small a block); 4 slots with generations modulo 2; deque and vector to 8 (two doublings); indexes of the queue modulo 8 with rings of up to 4 |
| `devices` | streams, waits, input, music, tables, exits, environment, media | a file of 3 bytes with buffers of 1 to 3; instants up to 5 with two deadlines before and after the program's alarm; 4 and 5 bytes typed; 2 channels and 2 songs; 2 spaces of 4 pages in 2 tables, the processor remembering one page or all; 5 calls with 2 slots; an environment that grows twice; 2 sectors on each of 3 ports |
| `text` | what is written is read back, what is read is right, sorts, dates, numbers | every text of 3 or 4 characters from an alphabet with each special one, and longer ones with a prefix that leads deeper; arrays of 6; every number of the small formats |
| `save_read_fault` | **violation**: a read error is taken for a missing copy and the newest is overwritten | 3 saves |
| `ceresfs_bytes` | **violation**: a file closed and untouched since loses its bytes to a repair that takes another file's bytes for entries | an empty directory and a file; 2 bytes that read as an entry leading to the file's cluster; 4 operations, 1 stop |
| `general_fits` | **violation**: `%g` pads a number whose whole part ends in stripped zeros past its width | the numbers of the small format, width 9 |

Every property of a passing run has a mutant in `PROJECT.json`: a plausible bug in one definition, with which TLC finds that property violated.
The three violations are findings about the code (`findings` in `PROJECT.json`), each against a sentence of its own comments or headers.

What else disagrees, seen while modelling and left out of the runs' constants or properties:

* `task.c:98`: `slot_of` compares the whole generation with an id that wrapped at 2^31: after 2^31 / `TASK_MAX` tasks in a slot a live id is not found (`LiveIdIsFound` with `IdMod = 6`).
* `task.c:304`: a sleep whose end passes 2^64 returns at once (`SleepsAtLeast` with a nap beyond `TimeMod`).
* `slotmap.h:75-77`, as told under `Storage` above (`InStep` with `"gens"` in `MayLack`).
* `heap.h:17` says `NULL` when nothing fits; `find` rounds a size up to its list's, and passes over a block that fits in the list below.
* `ini.c:199`: a line `key=value` of 510 or 511 bytes is read by `ini_parse` and refused by a `struct ini`, which counts the blanks it would write around the `=`; `ini.h` has the one limit of 511.
* `music.c:99`, `ftell` when appending: as told above.
* `periph.c`: `periph_present` and its like select a port, so that a handler that asks in the middle of a sector's transfer sends the transfer elsewhere; `periph.h` does not say so (`TransfersRight` without `LookAt`'s guard).
* `format.c:11-13` says that digits past about the seventh are noise and that `%.0f` rounds half up; the code prints every digit exactly and ties to even, as `format.c:180-182` says (`PrintsExactly`).
* `time.h:79` has `sleep` wait the seconds it is given; `time.c:79-80` waits 4294967 seconds for any more than that, and still returns 0 (`SleepLastsAsAsked` states both parts).
* `line.h:15` takes `\r\n` for one line ending; when the `\n` has not come yet as the `\r` is read, `line_read` ends the line there, and the next call gives an empty one (`line.c:54`).
* `format.c`, `strtox.c` and `lz.c` keep scratch space in static variables: a handler that prints or parses in the middle of another's call would share it.  The models have one call at a time.

### Fairness

* `Tasks`: weak fairness of the library's own steps (the processor goes on), of the clock, and **strong** fairness
  of `Yield`: scheduling is cooperative, so nothing can be promised to the others while one task
  never comes back to the scheduler; strong, because a task can leave and re-enter its own code for ever.
  No fairness of sends, receives or closes: the program owes nobody a message.
* `SoftTimers`: weak fairness of the main loop's `timer_poll`, of the poll's own steps and of the
  clock; strong fairness of a callback's return, per depth: a callback ends, though it may poll
  on the way.  Nothing is assumed of what programs add or cancel.
* The others have no liveness properties: every call is a finite sequence of steps.  That a waiter is woken
  is stated without fairness, as an invariant of whoever sleeps (`NoLostWakeup`); that a closed channel releases its waiters
  follows from the part of `IInv` that says nobody waits for what is there (`WaitersUnserved`) and from `EveryoneRuns`.

## 4. Theorems

All are of the form `Spec => ...`, under the named assumptions on the constants of the module
(`TasksAssumption`, `ChanAssumption`, `SaveAssumption`, `TimersAssumption`, `RingsAssumption`, `StorageAssumption`, `TableAssumption`, `HeapAssumption`, `StreamAssumption`, `MemAssumption`,
`WaitsAssumption`, `MmuAssumption`, `MusicAssumption`, `EnvAssumption`, `MediaAssumption`), checked by TLC in every run.  Where a module's
properties are not inductive, what has to be added to them is the interesting part, and is told here.

**Tasks** (`Tasks_proofs`).  `Invariant` proves the conjunction `IInv` for any number of tasks and channels, any
addresses and any naps that fit the clock (`NoWrap`; with longer ones `SleepsAtLeast` is false).  The parts a user cares about are not inductive alone:
that a waiter is not lost (`WaitersUnserved`) needs that it is registered with
the object its call is about and that a joined slot keeps its task (`Waits`); that a stack limit is right after a
switch (`StackLimit`) needs that main's limit follows the heap's top (`HeapAbove`); that sleeps are long enough needs
`Sleeps`; that `EDEADLK` is true needs `Hopeless`: a task picked to learn of a deadlock is the only one that can run until
it has.  From `IInv` follow, by one lemma per action, `DeadlocksAreReal`, `SleepsLast`
and, with the ring lemmas `PutAppends` and `TakenIsTail` (what the ring does to its indexes modulo the capacity is `Append` and
`Tail` of the queue it stands for), `ChannelsImplementQueues`.  `LiveIdsAreFound` holds as long as ids are wide enough for the tasks a slot
sees (`NoIdWrap`); when they wrap, `LiveIdIsFound` is false.

**Saves** (`Save_proofs`).  Under `~ReadFaults`: `SaveInvariant` (two good copies have adjacent numbers and the one after is the later
save, `Ordered`; a save under way goes over the older copy with the number after the newer,
`Ahead`; without `Ahead` nothing relates what was decided before `fopen` to what is there at `fclose`), hence
`SaveKept`, `NewestIsSpared` and the refinement `SavesImplementSlot`.

**Software timers** (`SoftTimers_proofs`).  `TimersInvariant`: the wrapped numbers differ from the true distances by a whole number of
turns (`Tracks`).  Given that and `Attended`, lateness compared modulo the counter is lateness: hence `TimersRunInOrder` and
`PollsRunEverything`, for any size of the table, any counter and any nesting.

**CeresFS** (`Files_proofs`).  `FilesAreDurable`: in any system that implements `Files`, a file of `kept` is in the tree with its bytes
whenever the machine is up.  The invariant is inductive as it stands: a step that flushes says what is kept, a step that changes a
file gives it up first (`WithNodeKeepsRest`, `RenameKeepsRest`).  That `CeresFS` implements `Files` is checked by TLC
only: the directories, chains and repairs are recursive operators, which the prover cannot use.

**Rings** (`Structures_proofs`).  `RingsKeepTheirElements`.  The deque is its elements in order from `front` on, modulo a capacity that changes when it grows.  The queue's
two ends are cut at every access, so its invariant follows each of them: `QueueWaits` says that the slots from tail to head hold what was sent and
not taken; `ProducerHolds` that a put under way has a slot of its own at the head, filled before the head moves; `ConsumerHolds` that what a take or a look has copied is still the
first, and that a clear goes to where the head was when it began; `RoomHolds_` that the room told is never more than there is.
Indexes wrap: the capacity must divide the width of the index (`RingsAssumption`, as `cq_init` takes the largest power of two that fits),
else two elements would meet in one slot, and the lemmas on remainders (`ModShift`, `Wrapped`) rest on it.

**Storage** (`Structures_proofs`).  `PiecesAreApart`, `BlocksAreKept` and `StorageHolds`, for any memory, sizes, numbers of blocks, and width of words and generations.
*Arena* (`ArenaInv`): that pieces lie apart is not inductive, as a release moves the end of what is used back to a mark: the pieces that were there when a mark was taken must end
below it, and a mark taken of an arena that had no memory must have none.  `FitsIs` says that the three comparisons of `arena_alloc`, in words that wrap, let nothing past the end.
*Pool* (`PoolInv`): every address held or on the list is one of the first blocks, so the next fresh one is none of them (`Multiples`); the list has no address twice,
and no call to `pool_free` that passes its three checks (`IsBlock`) is of a block that nobody holds, as the caller frees what it holds or what is no block.
*Slot map* (`SlotInv`): the three vectors agree (`HandlesAgree`): items and generations in step, in equal capacities; every freed slot on the list once and no given handle's;
every stale handle behind its slot's generation.  The bound on their number is an injection into the slots off the list (`HandlesCount`).
`StorageHolds` assumes that memory does not lack for the generations (`~Lacks("gens")`), without which the capacities part and the statement is false, as told above.
The other two need no such assumption.

**Hash table** (`Structures_proofs`).  `TableIsAMap`, for any keys, values and hashes, any first capacity that is 0 or at least 8, and any largest one.  That a key is found with its last value is
not inductive: it is found only if the search gets as far as its slot.  `TableInv` adds that between a key's first slot and its own no slot has never been used (`Reached`: what a tombstone is for,
and what a removal that empties the slot destroys), that no key is in two slots (`KeysOnce`: a new key may take a tombstone before the place where the search for it ended), that the pairs
in use are those the caller put there (`Agrees`), and that at most seven slots in ten were ever used (`Sparse`).  From the last a never-used slot remains, by counting, and every
search ends there at the latest.  A rebuild is followed slot by slot (`MovedUpTo`, `MovedStep`; `UpTo` gets from one to the next by the least element of a set of numbers): after each the new table has the pairs of
the old slots done and no others.  That doubling only when what is *live* has passed 35 % is enough, though tombstones made the table crowded, is `HasRoomAnew`: a rebuild drops them.

**Heap** (`Heap_proofs`).  `HeapInvariant`, from it `HeapIsSound` and `ContentsAreKept`: for any memory, number of lists, sizes, alignments, positions of the stack and
sequence of calls.  `HeapAssumption` asks that the last list's sizes reach past the memory, that there are at most 32 bits to a size, and that `MAX_REQUEST` is below 2^28 units, so that a request and
its alignment do not overflow; the code has 26 times 8 lists, which reach to 2^31 bytes, and a `MAX_REQUEST` of 2^27 units.  Three things must be added to what `HeapHolds` says.
*What is left behind.*  `live_block` tells a stale pointer by the headers around it, so the invariant speaks of units that are no headers any more:
none that was one passes for a live block (`StaleOK`, `Deceives`): it was written over, or is marked free, or says the block below it is free where no free block of that size begins.
`release` leaves the last kind when it merges downward, and needs every earlier one to stay as it is: this is what makes the statement inductive.
*What a call has yet to write.*  A block just given out may hold such remains until the program writes it: inside a call the heap is `Sound(h, X)` with these units in `X`.
*What the program wrote* (`DataHeld`): a list pointer or header in it would be junk.
The argument is put together from two lemmas: a block is made of what lies from one header to another (`CoalescedSound` for a free one, with its fellow for one in use), and a block in use is cut in two.
`release`, `trim`, `grow`, `realloc` up, past the top and away, and the front piece of `aligned_alloc` are their instances; that a block
`find` returns is large enough (`Up`, `BinOf`) is arithmetic on powers of two by lemma (`Powers`), and that a lowest list and a nearest header exist is the least element of a set of
numbers (`NatMin`, from the library's theorem on well-founded relations, which needs no operator as a parameter).

**Streams** (`Files_proofs`).  `StreamsAreKept`, for any bytes, room on the medium, contents, sizes of buffers and of blocks moved, offsets, and any sequence of calls, freopen and setvbuf with the rest, on a
medium that may break at any time.  What the properties say of a stream is not inductive, as the meaning of its one buffer depends on its state.  The invariant `StreamInv` has two parts.
*The buffer is sound* (`Sane`), whatever else is true: it is in memory and on `exit`'s list when it holds anything; read ahead, it is the bytes of the medium just before the position (`ReadAhead`);
written, it is no larger than the room for it, and a write call leaves it smaller (`Slack`), else the next would find no room for a byte.
*The program believes what is so* (`Believed`), until bytes are known to be lost: `View`, the medium with what is held back put where it will go, is what was written; `Where` is
where the program stands; the character pushed back is the one it gave; and a stdout that `printf` bypasses is the terminal, unbuffered (`Plain`), else `printf` would overtake `fputs`.
Each operation of the code has a contract in these words: it writes `p` (`Wrote`), gives the next bytes there are (`Reads`), or changes nothing one can see (`AsGood`), and lemmas say how
contracts compose, so that `fread` over a dirty buffer with a character pushed back is a flush, that character, what was read ahead, and blocks from the medium, one contract after the other.
The loops get an invariant each (`Pouring`, `Lining`, `Blocking`), carried from turn to turn by `CountingUp`, a least element of a set of numbers.
Why a short read is not a silent one is in `Blocking`: a loop that stops before the `n` bytes has set `error`, or nothing is `Coming` and `eof` is set.
*`fmemopen`* (`MemInv`): the text is the first `len` bytes (`Holds`), also when a write past its end uncovers what the buffer held, and the byte behind it is NUL.

**Waits** (`Devices_proofs`).  `WaitsWake` and `AlarmsAreKept`, for any deadlines and times.  `NoLostWakeup` speaks only of who sleeps; the invariant says of every place in every loop what must hold
for the next halt to be safe: a request raised after the look is latched until the halt (`Watched`), interrupts are open wherever the loop leaves them so (`Opened`), the
alarm is armed for the nearer of two deadlines (`Armed`), and the program's own alarm is in its register, in `saved`, or has rung (`OwnAlarm`).

**Address spaces** (`Devices_proofs`).  `TranslationsHold`, for any tables, ranges and memory of the processor's.  With types, `SpacesHold` is inductive as it stands.  The step is in two lemmas: writing the entries of a
set of pages into the tables changes the lookup of these pages and no others (`EntriesWritten`, by the arithmetic of a page's two indexes, `PagePlace`), and a processor that
forgets that set goes by nothing old (`ChangeKeeps`).  Ranges are sets of pages, so nothing is recursive.

**Music** (`Devices_proofs`).  `ChannelsAreShared`, for any songs, effects and times.  `ChannelRight` says of each channel whose it is: an effect's (then either the song's instrument waits to be restored, or the
effect is `early`), or the song's and set as the song says, or nobody's and to be set at the song's next note.  `SoundsRight` is what one hears of it.

**Surroundings** (`Devices_proofs`).  `SurroundingsAreKept`, for any slots, names, values, room, ports and sectors; one invariant for each of the three parts.
*Exit*: registrations are numbered in their order, a table has its own in that order, and numbers to come are larger (`Registered`); what is still in a table is behind whatever of it ran (`Remaining`, in `RanInOrder`): a handler is popped before it
runs, so an `exit` within it meets a table without it.  A table ascends, so the one popped is the latest of its own, and what remains is behind it; what is registered later is behind whatever ran already, for its number is the next.  *Signals*: a handler for a fault is there only once the machine's handlers are (`SigsInv`).
*Environment*: `StandsFor` makes the list a map: names and blocks occur once, and a block's number is below the next; `RoomIn` keeps place for the `NULL` through growths that fail half way.
*Media*: a call about to move a sector has the registers at its own port (`Moving`), though others may have moved them before.

**Only model-checked**: all liveness (`EveryoneRuns`, `JoinReturns`, `OneShotsRun`), which is beyond the prover;
that `CeresFS` implements `Files` and its own invariants; `Input`; the rest of the run `structures` (trees, lists, vectors, binary heaps, the cache and the multimap); the run `text`.
Most of these modules walk links, texts and digits with recursive operators, about which the prover can say nothing.

## 5. Not modelled

* **CeresFS**: device errors and caches labelled before they are read; a FAT of several sectors and the order in which they are flushed; a
  tree deeper than `MAX_PARTS`; several volumes; version 1; directory handles kept across changes.  A second source of failure next to the stops multiplies
  the states past what TLC can do in this model, and a FAT of several sectors needs more clusters than it can hold.
* **Heap**: canaries and fills of the checked build.
* **Streams**: `tmpfile`, wide orientation, the string sinks of `printf`.  **Interrupts**: the table of handlers.  **Input**: scan-code tables and the mouse.
* **Numbers**: double and long double repeat `Floats` with wider words (`fconv64.c` is mapped where its digits differ); `scanf` beyond its integer fields.
* **Strings, mathematics, hashes, random numbers**: pure functions whose errors are numerical or statistical.
* **Drawing, images, terminal output, page-fault reports, shell, tools**: output without protocol state, or clients of the library.

What would come next: theorems on the cache of `Keyed`, whose step definitions are free of recursion; device errors in a smaller instance of `CeresFS` of their own.
