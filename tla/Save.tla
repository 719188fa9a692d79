-------------------------------- MODULE Save --------------------------------
(***************************************************************************)
(* Saved games: src/ceres/save.c.  A save is two files; a write goes over  *)
(* the one that is not the newest good copy.  The machine may stop at any  *)
(* point, a file may fail to open, and a write may fail half way.          *)
(*                                                                         *)
(* The bytes of a save are its number: the first save_write's are 1, the   *)
(* second's 2.  A CRC that matches is taken to mean the bytes are the ones *)
(* written.                                                                *)
(***************************************************************************)
EXTENDS Integers

CONSTANTS Half,        \* half the range of a sequence number: 2^31 in the code
          Sizes,       \* the sizes of what a program saves
          ReadFaults,  \* whether reading a file that is open may fail
          MaxWrites    \* bound: how many saves are begun

SeqMod == 2 * Half

ASSUME SaveAssumption ==
    /\ Half \in Nat /\ Half > 1
    /\ Sizes \subseteq Nat
    /\ ReadFaults \in BOOLEAN
    /\ MaxWrites \in Nat

VARIABLES copy,        \* copy[w]: the file "<path>.a" (0) or "<path>.b" (1), on the medium
          pc,          \* where save_write or save_erase is
          job,         \* what save_write is writing, and where
          erased,      \* save_erase's result so far
          writes,      \* how many saves were begun
          acked,       \* the last save that was answered 0, 0 when none was since an erase began
          ret

vars == <<copy, pc, job, erased, writes, acked, ret>>

Copies == 0 .. 1
Other(w) == 1 - w
None == -1

File(kind, seq, data, size) == [kind |-> kind, seq |-> seq, data |-> data, size |-> size]
Missing == File("missing", 0, 0, 0)
Headless == File("headless", 0, 0, 0)     \* there, but its header does not check out
Torn(s) == File("torn", s, 0, 0)          \* a good header, and not the bytes it speaks of
Good(s, d, n) == File("good", s, d, n)

Job(w, s, d, n) == [file |-> w, seq |-> s, data |-> d, size |-> n]
NoJob == Job(0, 0, 0, 0)
Reply(call, code, data, sure) == [call |-> call, code |-> code, data |-> data, sure |-> sure]
Silent == Reply("none", "none", 0, TRUE)

Init == /\ copy = [w \in Copies |-> Missing]
        /\ pc = "idle" /\ job = NoJob /\ erased = TRUE
        /\ writes = 0 /\ acked = 0 /\ ret = Silent

-----------------------------------------------------------------------------
(* newest() *)

\* Sequence numbers are unsigned and wrap round.
After(s) == IF s = SeqMod - 1 THEN 0 ELSE s + 1
Distance(s, t) == IF s <= t THEN t - s ELSE t - s + SeqMod
NewerPlain(s, t) == s > t
Newer(s, t) == Distance(t, s) < Half

\* What one call finds: of each copy, whether it was opened with a good header, passed for not
\* there, or could not be opened; and whether its bytes were read and matched.
Looks == [open : [Copies -> {"open", "none", "failed"}], body : [Copies -> BOOLEAN]]

FindsFailureAsNone(look) ==
    \A w \in Copies :
        /\ look.open[w] = "open" => copy[w].kind \in {"torn", "good"}
        /\ look.body[w] => copy[w].kind = "good"
        /\ ~look.body[w] => copy[w].kind # "good" \/ ReadFaults
        /\ look.open[w] # "failed"

Finds(look) ==
    \A w \in Copies :
        /\ look.open[w] = "open" => copy[w].kind \in {"torn", "good"}
        /\ look.open[w] = "none" => copy[w].kind \notin {"torn", "good"} \/ ReadFaults
        /\ look.body[w] => copy[w].kind = "good"
        /\ ~look.body[w] => copy[w].kind # "good" \/ ReadFaults

Failed(look) == \E w \in Copies : look.open[w] = "failed"

\* The copy tried first, and the copy taken.
First(look) ==
    IF look.open[0] # "open" \/ (look.open[1] = "open" /\ Newer(copy[1].seq, copy[0].seq)) THEN 1 ELSE 0

Newest(look) ==
    LET usable == {w \in Copies : look.open[w] = "open" /\ look.body[w]}
        first == First(look) IN
    IF first \in usable THEN first ELSE IF Other(first) \in usable THEN Other(first) ELSE None

-----------------------------------------------------------------------------
(* The calls *)

NoCopy(call, look) == Reply(call, IF Failed(look) THEN "error" ELSE "ENOENT", 0, ~Failed(look))

\* save_read with room for cap bytes; save_size and save_exists have no such limit.
ReadInto(call, look, cap) ==
    LET w == Newest(look) IN
    IF w = None THEN NoCopy(call, look)
    ELSE IF copy[w].size > cap THEN Reply(call, "ENOSPC", 0, TRUE)
    ELSE Reply(call, "ok", copy[w].data, ~Failed(look))

Read(cap) ==
    /\ pc = "idle"
    /\ \E look \in Looks : Finds(look) /\ ret' = ReadInto("read", look, cap)
    /\ UNCHANGED <<copy, pc, job, erased, writes, acked>>

Size ==
    /\ pc = "idle"
    /\ \E look \in Looks :
          /\ Finds(look)
          /\ LET w == Newest(look) IN
             ret' = IF w = None THEN NoCopy("size", look)
                    ELSE Reply("size", "ok", copy[w].data, ~Failed(look))
    /\ UNCHANGED <<copy, pc, job, erased, writes, acked>>

\* save_load looks twice: for the size, and for the bytes.
Load ==
    /\ pc = "idle"
    /\ \E look, again \in Looks :
          /\ Finds(look) /\ Finds(again)
          /\ LET w == Newest(look) IN
             IF w = None THEN ret' = NoCopy("load", look)
             ELSE \/ ret' = Reply("load", "error", 0, TRUE)          \* no memory
                  \/ ret' = ReadInto("load", again, copy[w].size)
    /\ UNCHANGED <<copy, pc, job, erased, writes, acked>>

\* save_write(size bytes), up to its fopen: where the save goes, and its sequence number.
TargetOfNewest(w) == IF w = None THEN 0 ELSE w
Target(w) == IF w = 0 THEN 1 ELSE 0

WriteLook(size) ==
    /\ pc = "idle" /\ writes < MaxWrites
    /\ \E look \in Looks :
          /\ Finds(look)
          /\ IF Failed(look)
             THEN /\ ret' = Reply("write", "error", 0, TRUE)
                  /\ UNCHANGED <<pc, job, writes>>
             ELSE LET w == Newest(look)
                      seq == IF w = None THEN 1 ELSE After(copy[w].seq) IN
                  /\ job' = Job(Target(w), seq, writes + 1, size)
                  /\ writes' = writes + 1
                  /\ pc' = "open" /\ ret' = Silent
    /\ UNCHANGED <<copy, erased, acked>>

\* What the file may hold when it has not been written whole.
Partly(file) == {file, Headless, Torn(job.seq)}
Written == Good(job.seq, job.data, job.size)

\* fopen(name, "wb"): from here the file is no longer what it was, unless the medium says so.
WriteOpen ==
    /\ pc = "open"
    /\ \E opened \in BOOLEAN :
          /\ pc' = IF opened THEN "write" ELSE "idle"
          /\ ret' = IF opened THEN Silent ELSE Reply("write", "error", job.data, TRUE)
          /\ \E file \in {copy[job.file], Headless} : copy' = [copy EXCEPT ![job.file] = file]
    /\ UNCHANGED <<job, erased, writes, acked>>

\* The two fwrites and the fclose.
WriteClose ==
    /\ pc = "write"
    /\ \/ /\ copy' = [copy EXCEPT ![job.file] = Written]
          /\ acked' = job.data
          /\ ret' = Reply("write", "ok", job.data, TRUE)
       \/ /\ \E file \in Partly(copy[job.file]) \cup {Written} : copy' = [copy EXCEPT ![job.file] = file]
          /\ ret' = Reply("write", "EIO", job.data, TRUE)
          /\ UNCHANGED acked
    /\ pc' = "idle"
    /\ UNCHANGED <<job, erased, writes>>

\* save_erase: remove(a), then remove(b), whatever became of the first.
Remove(w, done) ==
    \/ copy' = [copy EXCEPT ![w] = Missing] /\ erased' = done
    \/ UNCHANGED copy /\ erased' = FALSE

EraseFirst ==
    /\ pc = "idle" /\ pc' = "erase"
    /\ Remove(0, TRUE)
    /\ acked' = 0 /\ ret' = Silent
    /\ UNCHANGED <<job, writes>>

EraseSecond ==
    /\ pc = "erase" /\ pc' = "idle"
    /\ Remove(1, erased)
    /\ ret' = Reply("erase", IF erased' THEN "ok" ELSE "error", 0, TRUE)
    /\ UNCHANGED <<job, writes, acked>>

\* The machine stops, and starts again.  Of the two files only the one being written is touched,
\* and it may be left at any point of the write, the first and the last included.
Crash ==
    /\ pc' = "idle" /\ ret' = Silent
    /\ IF pc = "write"
       THEN \E file \in Partly(copy[job.file]) \cup {Written} : copy' = [copy EXCEPT ![job.file] = file]
       ELSE UNCHANGED copy
    /\ UNCHANGED <<job, erased, writes, acked>>

Next == \/ \E cap \in Sizes : Read(cap)
        \/ Size \/ Load
        \/ \E size \in Sizes : WriteLook(size)
        \/ WriteOpen \/ WriteClose
        \/ EraseFirst \/ EraseSecond
        \/ Crash

Spec == Init /\ [][Next]_vars

-----------------------------------------------------------------------------
(* What a save promises *)

Files == {Missing, Headless} \cup {Torn(s) : s \in 0 .. SeqMod - 1}
         \cup {Good(s, d, n) : s \in 0 .. SeqMod - 1, d \in 1 .. MaxWrites, n \in Sizes}

Replies == [call : {"none", "read", "size", "load", "write", "erase"},
            code : {"none", "ok", "error", "ENOENT", "ENOSPC", "EIO"},
            data : 0 .. MaxWrites, sure : BOOLEAN]

TypeOK ==
    /\ copy \in [Copies -> Files]
    /\ pc \in {"idle", "open", "write", "erase"}
    /\ job \in [file : Copies, seq : 0 .. SeqMod - 1, data : 0 .. MaxWrites, size : Sizes \cup {0}]
    /\ erased \in BOOLEAN
    /\ writes \in 0 .. MaxWrites /\ acked \in 0 .. MaxWrites
    /\ ret \in Replies

\* The save that is there: the latest one of which there is a good copy, 0 when there is none.
GoodData(files) == {files[w].data : w \in {v \in Copies : files[v].kind = "good"}}
Latest(files) == LET there == GoodData(files) IN
                 IF there = {} THEN 0 ELSE CHOOSE d \in there : \A e \in there : e <= d
Value == Latest(copy)
IsGood(w) == copy[w].kind = "good"

\* Once save_write has answered 0, that save or a later one is there, whatever else failed or was
\* cut short since ("games that survive the machine stopping half way", save.h:5).
SaveSurvives == Value >= acked

\* "each write goes to the one NOT holding the newest good copy" (save.h:7).
SparesNewest ==
    [][ \A w \in Copies : pc \in {"open", "write"} /\ IsGood(w) /\ copy[w].data = Value
          => copy'[w] = copy[w] ]_vars

\* The sequence numbers say which of two good copies is the later one, also past the wrap.
Ordered ==
    IsGood(0) /\ IsGood(1) =>
        \E w \in Copies : /\ copy[w].seq = After(copy[Other(w)].seq)
                          /\ copy[w].data > copy[Other(w)].data

\* What a save under way is about to write goes after everything that is there, and over the other copy;
\* an erase under way has taken the first file, unless it will say it did not.
Ahead ==
    /\ \A w \in Copies : IsGood(w) => copy[w].data <= writes
    /\ pc = "erase" => acked = 0 /\ (erased => copy[0] = Missing)
    /\ pc \in {"open", "write"} =>
          /\ job.data = writes /\ job.size \in Sizes
          /\ job.data > 0 /\ Value < job.data /\ acked < job.data
          /\ LET w == Other(job.file) IN
             IF IsGood(w) THEN copy[w].data = Value /\ job.seq = After(copy[w].seq) ELSE Value = 0

IInv == TypeOK /\ SaveSurvives /\ Ordered /\ Ahead

\* A save is atomic: one value, replaced at one instant.
Slot == INSTANCE SaveSlot WITH value <- Value, erasing <- pc = "erase", reply <- ret
SavesAreAtomic == Slot!Spec
=============================================================================
