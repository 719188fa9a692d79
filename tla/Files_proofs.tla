---------------------------- MODULE Files_proofs ----------------------------
(***************************************************************************)
(* Proofs about files.  The promised files (module Files) survive a stop:  *)
(* CeresFS is checked to implement Files, so the theorem is about it too.  *)
(* The streams over them (module Stream) hold what the program wrote and   *)
(* give what there is: each operation is stated as what it leaves of what  *)
(* the program can tell, and the loops by their least failing turn.        *)
(***************************************************************************)
EXTENDS Files, Stream, SequenceTheorems, WellFoundedInduction, TLAPS

\* What is on the medium is in the tree, byte for byte.
InTree(t, k) == \A p \in DOMAIN k : p \in DOMAIN t /\ t[p] = File(k[p])

\* A path left alone keeps its file when another gets a new node.
LEMMA WithNodeKeeps ==
    ASSUME InTree(tree, kept), NEW path, NEW node, path \notin DOMAIN kept
    PROVE  InTree(WithNode(path, node), kept)
BY DEF InTree, WithNode

LEMMA WithNodeKeepsRest ==
    ASSUME InTree(tree, kept), NEW path, NEW node
    PROVE  InTree(WithNode(path, node), Without({path}))
BY DEF InTree, WithNode, Without

\* The files that a rename does not touch are neither moved nor written over.
LEMMA RenameKeepsRest ==
    ASSUME InTree(tree, kept), NEW from, NEW to, Rename(from, to)
    PROVE  InTree(tree', kept')
<1> DEFINE Moved == {Rebased(q, from, to) : q \in DOMAIN tree}
<1>1. tree' = [p \in Moved |-> tree[Rebased(p, to, from)]] /\ kept' = Without(Touched(from, to))
  BY DEF Rename
<1>2. SUFFICES ASSUME NEW p \in DOMAIN kept, p \notin Touched(from, to)
               PROVE  p \in Moved /\ tree[Rebased(p, to, from)] = File(kept[p])
  BY <1>1 DEF InTree, Without
<1>3. ~IsPrefix(from, p) /\ ~IsPrefix(to, p)
  BY <1>2 DEF Touched
<1>4. Rebased(p, from, to) = p /\ Rebased(p, to, from) = p
  BY <1>3 DEF Rebased
<1> QED BY <1>4 DEF InTree

LEMMA DurableStart == Init => Durable
BY DEF Init, Durable

\* Every step: what flushes says what is kept, what changes a file gives it up first.
LEMMA DurableStep == Durable /\ [Next]_fvars => Durable'
<1> SUFFICES ASSUME Durable, [Next]_fvars, phase' # "stopped" PROVE InTree(tree', kept')
  BY DEF Durable, InTree
<1> DEFINE Goal == InTree(tree', kept')
<1> SUFFICES Goal OBVIOUS
<1>1. ASSUME phase # "stopped" PROVE InTree(tree, kept)
  BY <1>1 DEF Durable, InTree
<1>2. ASSUME UNCHANGED <<tree, kept>>, phase # "stopped" PROVE Goal
  BY <1>1, <1>2
<1>3. ASSUME NEW writers, Keeps(writers) PROVE Goal
  BY <1>3 DEF Keeps, InTree
<1>4. CASE UNCHANGED fvars
  BY <1>2, <1>4 DEF fvars
<1>5. ASSUME NEW path, NEW flags, Open(path, flags) PROVE Goal
  <2>1. InTree(tree, kept) BY <1>1, <1>5 DEF Open
  <2>2. CASE Exists(path) /\ ~flags.trunc BY <1>2, <1>5, <2>2 DEF Open
  <2>3. CASE Exists(path) /\ flags.trunc
    <3>1. tree' = WithNode(path, File(<<>>)) /\ kept' = Without({path}) BY <1>5, <2>3 DEF Open
    <3> QED BY <2>1, <3>1, WithNodeKeepsRest
  <2>4. CASE ~Exists(path)
    <3>1. tree' = WithNode(path, File(<<>>)) /\ kept' = kept BY <1>5, <2>4 DEF Open
    <3>2. path \notin DOMAIN kept BY <2>1, <2>4 DEF InTree, Exists
    <3> QED BY <2>1, <3>1, <3>2, WithNodeKeeps
  <2> QED BY <2>2, <2>3, <2>4
<1>6. ASSUME NEW fd, NEW data, Write(fd, data) PROVE Goal
  <2>1. InTree(tree, kept) BY <1>1, <1>6 DEF Write
  <2>2. PICK node : tree' = WithNode(open[fd].path, node) BY <1>6 DEF Write
  <2>3. kept' = Without({open[fd].path}) BY <1>6 DEF Write
  <2> QED BY <2>1, <2>2, <2>3, WithNodeKeepsRest
<1>7. ASSUME NEW path, Delete(path) PROVE Goal
  BY <1>1, <1>7 DEF Delete, Without, InTree
<1>8. ASSUME NEW from, NEW to, Rename(from, to) PROVE Goal
  BY <1>1, <1>8, RenameKeepsRest DEF Rename
<1>9. CASE Recover
  BY <1>9 DEF Recover, InTree
<1>10. CASE Stops
  BY <1>10 DEF Stops
<1>11. CASE Mount
  BY <1>2, <1>11 DEF Mount
<1>12. CASE Refuses
  <2>1. ASSUME NEW call, NEW codes, Fails(call, codes) PROVE Goal
    BY <1>2, <2>1 DEF Fails
  <2> QED BY <1>12, <2>1 DEF Refuses
<1>13. ASSUME NEW path, Mkdir(path) \/ Stat(path) \/ RenameNothing(path) \/ List(path) PROVE Goal
  <2>1. CASE Mkdir(path) BY <1>3, <2>1 DEF Mkdir
  <2>2. CASE Stat(path) BY <1>2, <2>2 DEF Stat
  <2>3. CASE RenameNothing(path) BY <1>2, <2>3 DEF RenameNothing
  <2>4. CASE List(path) BY <1>2, <2>4 DEF List
  <2> QED BY <1>13, <2>1, <2>2, <2>3, <2>4
<1>14. ASSUME NEW fd, NEW n, Close(fd) \/ Read(fd, n) \/ Seek(fd, n) PROVE Goal
  <2>1. CASE Close(fd) BY <1>3, <2>1 DEF Close
  <2>2. CASE Read(fd, n) BY <1>2, <2>2 DEF Read
  <2>3. CASE Seek(fd, n) BY <1>2, <2>3 DEF Seek
  <2> QED BY <1>14, <2>1, <2>2, <2>3
<1>15. ASSUME NEW repair, Sync \/ Unmount \/ Check(repair) PROVE Goal
  BY <1>3, <1>15 DEF Sync, Unmount, Check
<1> QED
  BY <1>4, <1>5, <1>6, <1>7, <1>8, <1>9, <1>10, <1>11, <1>12, <1>13, <1>14, <1>15 DEF Next

\* Whatever paths, descriptors, flags and data the program uses, a file closed or synced and not
\* touched since is there with its bytes, however often the machine stops (fs_close, fs_sync and
\* fs_check with repair).
THEOREM FilesAreDurable == Spec => []Durable
BY DurableStart, DurableStep, PTL DEF Spec

-----------------------------------------------------------------------------
(* Streams (src/file.c).  Bytes put over others: what a write does to a file. *)

LEMMA OverlayIs ==
    ASSUME NEW d \in Seq(Chars), NEW at \in 0 .. Len(d), NEW p \in Seq(Chars)
    PROVE  /\ Overlay(d, at, p) \in Seq(Chars)
           /\ Len(Overlay(d, at, p)) = IF at + Len(p) > Len(d) THEN at + Len(p) ELSE Len(d)
           /\ \A i \in 1 .. Len(Overlay(d, at, p)) :
                 Overlay(d, at, p)[i] = IF i > at /\ i <= at + Len(p) THEN p[i - at] ELSE d[i]
<1> DEFINE a == SubSeq(d, 1, at)
           z == SubSeq(d, at + Len(p) + 1, Len(d))
<1>1. a \in Seq(Chars) /\ Len(a) = at /\ \A i \in 1 .. at : a[i] = d[i] OBVIOUS
<1>2. /\ z \in Seq(Chars) /\ Len(z) = IF at + Len(p) > Len(d) THEN 0 ELSE Len(d) - (at + Len(p))
      /\ \A i \in 1 .. Len(z) : z[i] = d[at + Len(p) + i]
  OBVIOUS
<1>3. Overlay(d, at, p) = (a \o p) \o z BY DEF Overlay
<1> HIDE DEF a, z
<1> DEFINE b == a \o p
<1>4. b \in Seq(Chars) /\ Len(b) = at + Len(p) /\ \A i \in 1 .. Len(b) : b[i] = IF i <= at THEN d[i] ELSE p[i - at]
  BY <1>1
<1> HIDE DEF b
<1> DEFINE y == b \o z
<1>5. /\ y \in Seq(Chars) /\ Len(y) = Len(b) + Len(z)
      /\ \A i \in 1 .. Len(b) + Len(z) : y[i] = IF i <= Len(b) THEN b[i] ELSE z[i - Len(b)]
  BY <1>2, <1>4, ConcatProperties
<1> HIDE DEF y
<1>6. ASSUME NEW i \in 1 .. Len(y)
      PROVE y[i] = IF i > at /\ i <= at + Len(p) THEN p[i - at] ELSE d[i]
  <2>0. Len(b) \in Nat /\ Len(z) \in Nat /\ i \in 1 .. Len(b) + Len(z)
    <3>1. b \in Seq(Chars) BY <1>4
    <3>2. z \in Seq(Chars) BY <1>2
    <3>3. Len(y) = Len(b) + Len(z) BY <1>5
    <3> QED BY <3>1, <3>2, <3>3
  <2>1. CASE i <= Len(b)
    <3>1. y[i] = b[i] /\ i \in 1 .. Len(b) BY <2>0, <2>1, <1>5
    <3> QED BY <3>1, <2>1, <1>4
  <2>2. CASE i > Len(b)
    <3>1. i - Len(b) \in 1 .. Len(z) BY <2>2, <2>0
    <3>2. y[i] = z[i - Len(b)] BY <2>2, <1>5, <2>0
    <3> QED BY <3>1, <3>2, <2>2, <1>2, <1>4
  <2> QED BY <2>1, <2>2, <2>0
<1>7. Len(y) = IF at + Len(p) > Len(d) THEN at + Len(p) ELSE Len(d)
  <2>1. Len(p) \in Nat /\ Len(d) \in Nat /\ at \in Nat OBVIOUS
  <2>2. Len(y) = Len(b) + Len(z) /\ Len(b) = at + Len(p) BY <1>5, <1>4
  <2>3. CASE at + Len(p) > Len(d) BY <2>1, <2>2, <2>3, <1>2
  <2>4. CASE ~(at + Len(p) > Len(d))
    <3>1. Len(z) = Len(d) - (at + Len(p)) BY <2>4, <1>2
    <3> QED BY <2>1, <2>2, <2>4, <3>1
  <2> QED BY <2>3, <2>4
<1>8. Overlay(d, at, p) = y BY <1>3 DEF b, y
<1> QED BY <1>5, <1>6, <1>7, <1>8

LEMMA SameSeq ==
    ASSUME NEW c \in Seq(Chars), NEW d \in Seq(Chars), Len(c) = Len(d), \A i \in 1 .. Len(c) : c[i] = d[i]
    PROVE  c = d
OBVIOUS

LEMMA OverlayNone ==
    ASSUME NEW d \in Seq(Chars), NEW at \in 0 .. Len(d)
    PROVE  Overlay(d, at, <<>>) = d
<1>1. <<>> \in Seq(Chars) /\ Len(<<>>) = 0 OBVIOUS
<1> DEFINE e == Overlay(d, at, <<>>)
<1>2. /\ e \in Seq(Chars) /\ Len(e) = (IF at + Len(<<>>) > Len(d) THEN at + Len(<<>>) ELSE Len(d))
      /\ \A i \in 1 .. Len(e) : e[i] = IF i > at /\ i <= at + Len(<<>>) THEN <<>>[i - at] ELSE d[i]
  BY <1>1, OverlayIs
<1> HIDE DEF e
<1>4. Len(e) = Len(d) /\ \A i \in 1 .. Len(e) : e[i] = d[i] BY <1>1, <1>2
<1>3. e = d BY <1>2, <1>4, SameSeq
<1> QED BY <1>3 DEF e

\* Two pieces written one behind the other are one.
LEMMA OverlayTwice ==
    ASSUME NEW d \in Seq(Chars), NEW at \in 0 .. Len(d), NEW p \in Seq(Chars), NEW r \in Seq(Chars)
    PROVE  Overlay(Overlay(d, at, p), at + Len(p), r) = Overlay(d, at, p \o r)
<1> DEFINE b == Overlay(d, at, p)
           c == Overlay(b, at + Len(p), r)
           e == Overlay(d, at, p \o r)
<1>1. /\ b \in Seq(Chars) /\ Len(b) = (IF at + Len(p) > Len(d) THEN at + Len(p) ELSE Len(d))
      /\ \A i \in 1 .. Len(b) : b[i] = IF i > at /\ i <= at + Len(p) THEN p[i - at] ELSE d[i]
  BY OverlayIs
<1> HIDE DEF b
<1>2. at + Len(p) \in 0 .. Len(b) BY <1>1
<1>3. /\ c \in Seq(Chars) /\ Len(c) = (IF at + Len(p) + Len(r) > Len(b) THEN at + Len(p) + Len(r) ELSE Len(b))
      /\ \A i \in 1 .. Len(c) : c[i] = IF i > at + Len(p) /\ i <= at + Len(p) + Len(r) THEN r[i - (at + Len(p))] ELSE b[i]
  BY <1>1, <1>2, OverlayIs
<1>4. p \o r \in Seq(Chars) /\ Len(p \o r) = Len(p) + Len(r)
      /\ \A i \in 1 .. Len(p \o r) : (p \o r)[i] = IF i <= Len(p) THEN p[i] ELSE r[i - Len(p)]
  OBVIOUS
<1> DEFINE pr == p \o r
<1> HIDE DEF pr
<1>5. /\ e \in Seq(Chars) /\ Len(e) = (IF at + Len(pr) > Len(d) THEN at + Len(pr) ELSE Len(d))
      /\ \A i \in 1 .. Len(e) : e[i] = IF i > at /\ i <= at + Len(pr) THEN pr[i - at] ELSE d[i]
  BY <1>4, OverlayIs DEF pr
<1> HIDE DEF c, e
<1>6. pr \in Seq(Chars) /\ Len(pr) = Len(p) + Len(r) /\ \A i \in 1 .. Len(pr) : pr[i] = IF i <= Len(p) THEN p[i] ELSE r[i - Len(p)]
  BY <1>4 DEF pr
<1>7. Len(c) = Len(e)
  <2>1. Len(p) \in Nat /\ Len(r) \in Nat /\ Len(d) \in Nat /\ at \in Nat OBVIOUS
  <2>2. Len(c) = IF at + Len(p) + Len(r) > Len(b) THEN at + Len(p) + Len(r) ELSE Len(b) BY <1>3
  <2>3. Len(e) = IF at + (Len(p) + Len(r)) > Len(d) THEN at + (Len(p) + Len(r)) ELSE Len(d) BY <1>5, <1>6
  <2>4. Len(b) = IF at + Len(p) > Len(d) THEN at + Len(p) ELSE Len(d) BY <1>1
  <2> QED BY SMTT(30), <2>1, <2>2, <2>3, <2>4
<1>8. ASSUME NEW i \in 1 .. Len(c) PROVE c[i] = e[i]
  <2>1. i \in 1 .. Len(e) BY <1>7
  <2>2. CASE i > at + Len(p) /\ i <= at + Len(p) + Len(r)
    <3>1. i - at \in 1 .. Len(pr) /\ ~(i - at <= Len(p)) /\ (i - at) - Len(p) = i - (at + Len(p)) BY <2>2, <1>6
    <3>2. c[i] = r[i - (at + Len(p))] BY <2>2, <1>3
    <3>3. e[i] = pr[i - at] BY <2>1, <2>2, <1>5, <1>6
    <3>4. pr[i - at] = r[(i - at) - Len(p)] BY <3>1, <1>6
    <3> QED BY <3>1, <3>2, <3>3, <3>4
  <2>3. CASE i > at /\ i <= at + Len(p)
    <3>1. i - at \in 1 .. Len(pr) /\ i - at <= Len(p) BY <2>3, <1>6
    <3>2. i \in 1 .. Len(b) /\ c[i] = b[i] BY <2>3, <1>3, <1>1
    <3>3. b[i] = p[i - at] BY <3>2, <2>3, <1>1
    <3>4. e[i] = pr[i - at] BY <2>1, <2>3, <1>5, <1>6
    <3> QED BY <3>1, <3>2, <3>3, <3>4, <1>6
  <2>4. CASE i <= at \/ i > at + Len(p) + Len(r)
    <3>1. i \in 1 .. Len(b) /\ c[i] = b[i] BY SMTT(30), <2>4, <1>3, <1>1
    <3>2. b[i] = d[i] BY <3>1, <2>4, <1>1
    <3>3. e[i] = d[i] BY <2>1, <2>4, <1>5, <1>6
    <3> QED BY <3>1, <3>2, <3>3
  <2> QED BY <2>2, <2>3, <2>4, <1>1
<1>9. c = e BY <1>3, <1>5, <1>7, <1>8, SameSeq
<1> QED BY <1>9 DEF c, e, b, pr

-----------------------------------------------------------------------------
(* What the buffer of a FILE is between two of its operations, and what __file_flush, buffer_of and dropping what was
   read ahead leave *)

FileType ==
    [std : BOOLEAN, readable : BOOLEAN, writable : BOOLEAN, append : BOOLEAN, eof : BOOLEAN, error : BOOLEAN,
     unget : Chars \cup {NoChar}, buf : Seq(Chars), buf_pos : Nat, buf_size : Nat, buf_mode : {Fbf, Lbf, Nbf},
     state : {"empty", "reading", "writing"}, has : BOOLEAN, listed : BOOLEAN, hook : BOOLEAN, term : BOOLEAN,
     data : Seq(Chars), pos : Nat, bad : BOOLEAN, nomem : BOOLEAN, lost : BOOLEAN, open : BOOLEAN, wrote : Nat, got : Seq(Chars)]

\* Bytes that a reading stream has in its buffer are those of the medium before its position.
ReadAhead(f) == f.pos >= Len(f.buf) /\ \A i \in 1 .. Len(f.buf) : f.buf[i] = f.data[f.pos - Len(f.buf) + i]
Sane(f) ==
    /\ f \in FileType
    /\ f.pos <= Len(f.data) /\ f.buf_pos <= Len(f.buf)
    /\ f.state # "reading" => f.buf_pos = 0
    /\ f.state = "empty" => f.buf = <<>>
    /\ f.state # "empty" => f.has
    /\ f.has => f.listed /\ f.buf_mode # Nbf /\ f.buf_size > 0
    /\ f.state = "writing" => f.buf # <<>> /\ Len(f.buf) <= f.buf_size
    /\ f.state = "reading" => ReadAhead(f)
    /\ f.std => (f.append \/ f.term) /\ ~f.readable
    /\ f.term => f.std

\* What no operation on the buffer touches
Alike(f, g) == /\ g.std = f.std /\ g.readable = f.readable /\ g.writable = f.writable /\ g.append = f.append
               /\ g.hook = f.hook /\ g.term = f.term /\ g.bad = f.bad /\ g.nomem = f.nomem /\ g.open = f.open
               /\ g.unget = f.unget /\ g.got = f.got
SameBuffer(f, g) == g.buf_mode = f.buf_mode /\ g.buf_size = f.buf_size /\ g.has = f.has /\ g.listed = f.listed

\* Where what is held back goes, what there is with it, where the next byte goes, and where the program stands
Pending(f) == IF f.state = "writing" THEN f.buf ELSE <<>>
At(f) == IF f.append \/ f.term THEN Len(f.data) ELSE f.pos - Unread(f)
View(f) == Overlay(f.data, At(f), Pending(f))
Place(f) == At(f) + Len(Pending(f))
Where(f) == IF f.append /\ f.state = "writing" THEN Place(f) ELSE f.pos - Unread(f) + Len(Pending(f))

LEMMA UnreadIs == ASSUME NEW f, Sane(f)
  PROVE /\ Unread(f) \in Nat /\ f.pos - Unread(f) \in 0 .. Len(f.data) /\ At(f) \in 0 .. Len(f.data)
        /\ Pending(f) \in Seq(Chars) /\ Place(f) \in Nat
<1>1. f.pos \in Nat /\ f.data \in Seq(Chars) /\ f.buf \in Seq(Chars) /\ f.buf_pos \in Nat BY DEF Sane, FileType
<1>2. Len(f.buf) \in Nat /\ Len(f.data) \in Nat BY <1>1
<1>3. Unread(f) \in Nat /\ Unread(f) <= f.pos BY <1>1, <1>2 DEF Sane, Unread, ReadAhead
<1>4. f.pos - Unread(f) \in 0 .. Len(f.data) BY <1>1, <1>2, <1>3 DEF Sane
<1>5. At(f) \in 0 .. Len(f.data) BY <1>4, <1>2 DEF At
<1>6. Pending(f) \in Seq(Chars) BY <1>1 DEF Pending
<1> QED BY <1>3, <1>4, <1>5, <1>6 DEF Place

LEMMA ViewIs == ASSUME NEW f, Sane(f)
  PROVE /\ View(f) \in Seq(Chars) /\ Place(f) <= Len(View(f)) /\ (f.append \/ f.term => Place(f) = Len(View(f)))
        /\ f.state # "writing" => View(f) = f.data /\ Place(f) = At(f) /\ Where(f) = f.pos - Unread(f)
<1>1. f.data \in Seq(Chars) BY DEF Sane, FileType
<1>2. At(f) \in 0 .. Len(f.data) /\ Pending(f) \in Seq(Chars) BY UnreadIs
<1>3. View(f) \in Seq(Chars) BY <1>1, <1>2, OverlayIs DEF View
<1>4. Len(View(f)) = IF At(f) + Len(Pending(f)) > Len(f.data) THEN At(f) + Len(Pending(f)) ELSE Len(f.data)
  BY <1>1, <1>2, OverlayIs DEF View
<1>5. Len(Pending(f)) \in Nat /\ Len(f.data) \in Nat BY <1>1, <1>2
<1>6. Place(f) <= Len(View(f)) /\ (f.append \/ f.term => Place(f) = Len(View(f))) BY <1>2, <1>4, <1>5 DEF Place, At
<1>7. ASSUME f.state # "writing" PROVE View(f) = f.data /\ Place(f) = At(f) /\ Where(f) = f.pos - Unread(f)
  <2>1. Pending(f) = <<>> /\ Len(Pending(f)) = 0 BY <1>7 DEF Pending
  <2>2. View(f) = f.data BY <2>1, <1>1, <1>2, OverlayNone DEF View
  <2>3. f.pos - Unread(f) \in Int /\ At(f) \in Int BY UnreadIs
  <2> QED BY <2>1, <2>2, <2>3, <1>7 DEF Place, Where
<1> QED BY <1>3, <1>6, <1>7

LEMMA RawWriteIs ==
    ASSUME NEW f, Sane(f), f.state = "empty", NEW p \in Seq(Chars)
    PROVE  LET g == RawWrite(f, p)
           IN  /\ Sane(g) /\ Alike(f, g) /\ SameBuffer(f, g) /\ g.state = "empty"
               /\ g.wrote < Len(p) => g.lost
               /\ ~g.lost => /\ ~f.lost /\ g.error = f.error /\ g.eof = f.eof /\ g.wrote = Len(p)
                             /\ View(g) = Overlay(View(f), Place(f), p) /\ Place(g) = Place(f) + Len(p) /\ Where(g) = Place(g)
<1> DEFINE at == IF f.append \/ f.term THEN Len(f.data) ELSE f.pos
           n == IF f.term THEN Len(p) ELSE IF f.bad \/ at > MaxSize THEN 0 ELSE Fewer(Len(p), MaxSize - at)
           w == SubSeq(p, 1, n)
           g == RawWrite(f, p)
<1>0. /\ f \in FileType /\ f.data \in Seq(Chars) /\ f.pos \in Nat /\ f.pos <= Len(f.data) /\ Len(f.data) \in Nat /\ Len(p) \in Nat
      /\ f.buf = <<>> /\ f.buf_pos = 0
  BY DEF Sane, FileType
<1>1. at \in 0 .. Len(f.data) BY <1>0
<1>2. n \in 0 .. Len(p) BY <1>0, <1>1, StreamAssumption DEF Fewer
<1> HIDE DEF n
<1>3. w \in Seq(Chars) /\ Len(w) = n /\ (n = Len(p) => w = p) BY <1>2
<1> HIDE DEF w, at
<1> DEFINE er == f.error \/ n < Len(p)
           lo == f.lost \/ n < Len(p)
<1>10. er \in BOOLEAN /\ lo \in BOOLEAN OBVIOUS
<1>4. g = [f EXCEPT !.data = Overlay(f.data, at, w), !.pos = at + n, !.wrote = n, !.error = er, !.lost = lo]
  BY DEF RawWrite, at, n, w
<1> HIDE DEF er, lo
<1> DEFINE e == Overlay(f.data, at, w)
<1>5. e \in Seq(Chars) /\ Len(e) = (IF at + Len(w) > Len(f.data) THEN at + Len(w) ELSE Len(f.data)) BY ZenonT(60), <1>0, <1>1, <1>3, OverlayIs
<1>6. at + n \in Nat /\ at + n <= Len(e) BY <1>0, <1>1, <1>2, <1>3, <1>5
<1> HIDE DEF e, g
<1>12. /\ g.data = e /\ g.pos = at + n /\ g.wrote = n /\ g.error = er /\ g.lost = lo
       /\ g.state = f.state /\ g.buf = f.buf /\ g.buf_pos = f.buf_pos /\ g.eof = f.eof
  BY <1>0, <1>4 DEF FileType, e
<1>13. Alike(f, g) BY <1>0, <1>4 DEF FileType, Alike
<1>14. SameBuffer(f, g) BY <1>0, <1>4 DEF FileType, SameBuffer
<1>15. g \in FileType
  <2>1. n \in Nat /\ e \in Seq(Chars) /\ at + n \in Nat BY <1>0, <1>2, <1>5, <1>6
  <2>2. g = [f EXCEPT !.data = e, !.pos = at + n, !.wrote = n, !.error = er, !.lost = lo] BY <1>4 DEF e
  <2> QED BY ZenonT(60), <2>1, <2>2, <1>0, <1>10 DEF FileType
<1>7. /\ g \in FileType /\ g.data = e /\ g.pos = at + n /\ g.wrote = n /\ g.error = er /\ g.lost = lo
      /\ g.state = f.state /\ g.buf = f.buf /\ g.buf_pos = f.buf_pos /\ g.eof = f.eof /\ Alike(f, g) /\ SameBuffer(f, g)
  BY <1>12, <1>13, <1>14, <1>15
<1>8. Sane(g) BY <1>0, <1>6, <1>7 DEF Sane, Alike, SameBuffer
<1>9. ASSUME ~g.lost
      PROVE /\ ~f.lost /\ g.error = f.error /\ g.wrote = Len(p)
            /\ View(g) = Overlay(View(f), Place(f), p) /\ Place(g) = Place(f) + Len(p) /\ Where(g) = Place(g)
  <2>1. ~f.lost /\ ~(n < Len(p)) BY <1>9, <1>7 DEF lo
  <2>2. n = Len(p) /\ w = p BY <2>1, <1>0, <1>2, <1>3
  <2>3. Unread(f) = 0 /\ Unread(g) = 0 BY <1>7 DEF Unread
  <2>4. View(f) = f.data /\ Place(f) = At(f) /\ At(f) = at BY <1>0, <2>3, ViewIs DEF At, at
  <2>5. View(g) = e /\ Place(g) = At(g) /\ Where(g) = g.pos - 0 BY <1>7, <1>8, <2>3, ViewIs
  <2>6. g.pos = at + Len(p) BY <1>7, <2>2
  <2>7. f.append \/ f.term => Len(e) = at + Len(p)
    <3>1. f.append \/ f.term => at = Len(f.data) BY DEF at
    <3>2. Len(e) = IF at + Len(p) > Len(f.data) THEN at + Len(p) ELSE Len(f.data) BY <1>5, <2>2
    <3> QED BY <3>1, <3>2, <1>0, <1>1
  <2>8. At(g) = at + Len(p) BY <2>3, <2>6, <2>7, <1>0, <1>1, <1>7 DEF At, Alike
  <2>9. g.error = f.error
    <3>1. er = (f.error \/ n < Len(p)) BY DEF er
    <3>2. er = f.error BY <3>1, <2>1, <1>0, Zenon DEF FileType
    <3> QED BY <3>2, <1>7
  <2> QED BY <2>1, <2>2, <2>4, <2>5, <2>6, <2>8, <2>9, <1>0, <1>1, <1>7 DEF e
<1>11. g.wrote < Len(p) => g.lost BY <1>7 DEF lo
<1> QED BY <1>7, <1>8, <1>9, <1>11 DEF g

LEMMA Same == ASSUME NEW f, NEW g, Alike(f, g), g.data = f.data, g.pos = f.pos, g.buf = f.buf, g.buf_pos = f.buf_pos, g.state = f.state
  PROVE View(g) = View(f) /\ Place(g) = Place(f) /\ Where(g) = Where(f) /\ Unread(g) = Unread(f)
<1>1. Unread(g) = Unread(f) /\ Pending(g) = Pending(f) BY DEF Unread, Pending
<1>2. At(g) = At(f) BY <1>1 DEF At, Alike
<1> QED BY <1>1, <1>2 DEF View, Place, Where, Alike

\* What was known of the stream's fate and not changed
SameFate(f, g) == g.lost = f.lost /\ g.error = f.error /\ g.eof = f.eof

LEMMA EmptyFits == ASSUME NEW f \in FileType
  PROVE /\ [f EXCEPT !.state = "empty", !.buf = <<>>] \in FileType
        /\ [f EXCEPT !.state = "empty", !.buf = <<>>, !.buf_pos = 0] \in FileType
<1> DEFINE nil == <<>>
<1>1. nil \in Seq(Chars) OBVIOUS
<1> HIDE DEF nil
<1>2. [f EXCEPT !.state = "empty", !.buf = nil] \in FileType BY <1>1 DEF FileType
<1>3. [f EXCEPT !.state = "empty", !.buf = nil, !.buf_pos = 0] \in FileType BY <1>1 DEF FileType
<1> QED BY <1>2, <1>3 DEF nil

LEMMA FlushIs == ASSUME NEW f, Sane(f)
  PROVE LET g == Flush(f)
        IN  /\ Sane(g) /\ Alike(f, g) /\ SameBuffer(f, g) /\ g.state # "writing"
            /\ f.state # "writing" => g = f
            /\ FlushFailed(f, g) => g.lost
            /\ f.state = "writing" => g.state = "empty"
            /\ ~g.lost => SameFate(f, g) /\ View(g) = View(f) /\ Place(g) = Place(f) /\ (f.std \/ Where(g) = Where(f))
<1> DEFINE g == Flush(f)
<1>1. CASE f.state # "writing"
  <2>1. g = f BY <1>1 DEF Flush
  <2>2. ~FlushFailed(f, g) BY <1>1 DEF FlushFailed
  <2> HIDE DEF g
  <2> QED BY <1>1, <2>1, <2>2 DEF g, Alike, SameBuffer, SameFate
<1>2. CASE f.state = "writing"
  <2> DEFINE m == [f EXCEPT !.state = "empty", !.buf = <<>>]
  <2>0. f \in FileType /\ f.buf \in Seq(Chars) /\ f.data \in Seq(Chars) /\ f.pos \in Nat /\ f.buf_pos = 0 BY <1>2 DEF Sane, FileType
  <2>1. g = RawWrite(m, f.buf) BY <1>2 DEF Flush
  <2>2. /\ m.state = "empty" /\ m.buf = <<>> /\ m.buf_pos = f.buf_pos /\ m.data = f.data /\ m.pos = f.pos
        /\ m.lost = f.lost /\ m.error = f.error /\ m.eof = f.eof
    BY <2>0 DEF FileType
  <2>3. Alike(f, m) BY <2>0 DEF FileType, Alike
  <2>4. SameBuffer(f, m) BY SMTT(30), <2>0 DEF FileType, SameBuffer
  <2>5. m \in FileType BY <2>0, EmptyFits
  <2> HIDE DEF m
  <2>6. Sane(m) BY <2>0, <2>2, <2>3, <2>4, <2>5 DEF Sane, Alike, SameBuffer
  <2> HIDE DEF g
  <2>7. /\ Sane(g) /\ Alike(m, g) /\ SameBuffer(m, g) /\ g.state = "empty"
        /\ g.wrote < Len(f.buf) => g.lost
        /\ ~g.lost => /\ ~m.lost /\ g.error = m.error /\ g.eof = m.eof
                      /\ View(g) = Overlay(View(m), Place(m), f.buf) /\ Place(g) = Place(m) + Len(f.buf) /\ Where(g) = Place(g)
    BY <2>0, <2>1, <2>2, <2>6, RawWriteIs DEF g
  <2>8. Alike(f, g) /\ SameBuffer(f, g) BY <2>3, <2>4, <2>7 DEF Alike, SameBuffer
  <2>9. FlushFailed(f, g) => g.lost BY <2>7 DEF FlushFailed
  <2>10. ASSUME ~g.lost PROVE SameFate(f, g) /\ View(g) = View(f) /\ Place(g) = Place(f) /\ (f.std \/ Where(g) = Where(f))
    <3>1. Unread(f) = 0 /\ Unread(m) = 0 BY <1>2, <2>2 DEF Unread
    <3>2. At(m) = At(f) BY <2>2, <2>3, <3>1 DEF At, Alike
    <3>3. View(m) = f.data /\ Place(m) = At(f) BY <2>2, <2>6, <3>2, ViewIs
    <3>4. View(g) = View(f) /\ Place(g) = Place(f) BY <2>7, <2>10, <3>3, <1>2 DEF View, Place, Pending
    <3>5. ASSUME ~f.std PROVE Where(g) = Where(f)
      <4>1. ~f.term BY <3>5 DEF Sane
      <4>2. Where(f) = IF f.append THEN Place(f) ELSE f.pos - 0 + Len(f.buf) BY <1>2, <3>1 DEF Where, Pending
      <4>3. ~f.append => Place(f) = f.pos - 0 + Len(f.buf) BY <1>2, <3>1, <4>1 DEF Place, At, Pending
      <4> QED BY <4>2, <4>3, <3>4, <2>7, <2>10
    <3>6. g.lost = f.lost
      <4>1. ~f.lost BY <2>2, <2>7, <2>10
      <4>2. g \in FileType BY <2>7 DEF Sane
      <4>3. f.lost \in BOOLEAN /\ g.lost \in BOOLEAN BY <2>0, <4>2 DEF FileType
      <4> QED BY <4>1, <4>3, <2>10, Zenon
    <3>7. g.error = f.error /\ g.eof = f.eof BY <2>2, <2>7, <2>10
    <3> QED BY <3>4, <3>5, <3>6, <3>7 DEF SameFate
  <2> QED BY <1>2, <2>7, <2>8, <2>9, <2>10 DEF g
<1> QED BY <1>1, <1>2

LEMMA EmptiedIs == ASSUME NEW f, Sane(f), f.state # "writing"
  PROVE LET g == Emptied(f)
        IN  /\ Sane(g) /\ Alike(f, g) /\ SameBuffer(f, g) /\ SameFate(f, g) /\ g.state = "empty" /\ Unread(g) = 0
            /\ g.data = f.data /\ g.pos = f.pos
<1> DEFINE g == Emptied(f)
<1>0. f \in FileType BY DEF Sane
<1>1. /\ g.state = "empty" /\ g.buf = <<>> /\ g.buf_pos = 0 /\ g.data = f.data /\ g.pos = f.pos
      /\ g.lost = f.lost /\ g.error = f.error /\ g.eof = f.eof
  BY <1>0 DEF Emptied, FileType
<1>2. Alike(f, g) BY <1>0 DEF Emptied, FileType, Alike
<1>3. SameBuffer(f, g) BY SMTT(30), <1>0 DEF Emptied, FileType, SameBuffer
<1>4. g \in FileType BY <1>0, EmptyFits DEF Emptied
<1> HIDE DEF g
<1>5. Sane(g) BY <1>0, <1>1, <1>2, <1>3, <1>4 DEF Sane, Alike, SameBuffer
<1> QED BY <1>1, <1>2, <1>3, <1>5 DEF g, Unread, SameFate

LEMMA DropIs == ASSUME NEW f, Sane(f)
  PROVE LET g == DropReadAhead(f)
        IN  /\ Sane(g) /\ Alike(f, g) /\ SameBuffer(f, g) /\ SameFate(f, g) /\ g.state # "reading" /\ Unread(g) = 0
            /\ f.state # "reading" => g = f
            /\ View(g) = View(f) /\ Place(g) = Place(f) /\ Where(g) = Where(f)
<1> DEFINE g == DropReadAhead(f)
<1>1. CASE f.state # "reading"
  <2>1. g = f BY <1>1 DEF DropReadAhead
  <2> QED BY <1>1, <2>1 DEF Alike, SameBuffer, SameFate, Unread
<1>2. CASE f.state = "reading"
  <2> DEFINE m == Emptied(f)
             to == f.pos - Unread(f)
  <2>1. g = [m EXCEPT !.pos = to]
    <3>1. m.pos = f.pos BY <1>2, EmptiedIs
    <3> QED BY <3>1, <1>2 DEF DropReadAhead
  <2>2. /\ Sane(m) /\ Alike(f, m) /\ SameBuffer(f, m) /\ SameFate(f, m) /\ m.state = "empty" /\ m.data = f.data /\ m.pos = f.pos
    BY <1>2, EmptiedIs
  <2>3. to \in 0 .. Len(f.data) BY UnreadIs
  <2>4. f.data \in Seq(Chars) BY DEF Sane, FileType
  <2> HIDE DEF m, to
  <2>5. m \in FileType /\ m.buf = <<>> /\ m.buf_pos = 0 BY <2>2 DEF Sane
  <2>6. /\ g.pos = to /\ g.state = "empty" /\ g.buf = <<>> /\ g.buf_pos = 0 /\ g.data = f.data
        /\ g.lost = m.lost /\ g.error = m.error /\ g.eof = m.eof
    BY <2>1, <2>2, <2>5 DEF FileType
  <2>7. Alike(m, g) BY <2>1, <2>5 DEF FileType, Alike
  <2>8. SameBuffer(m, g) BY <2>1, <2>5 DEF FileType, SameBuffer
  <2>9. g \in FileType
    <3>1. to \in Nat BY <2>3, <2>4
    <3> QED BY ZenonT(60), <2>1, <2>5, <3>1 DEF FileType
  <2> HIDE DEF g
  <2>10. Sane(g) BY <2>2, <2>3, <2>6, <2>7, <2>8, <2>9 DEF Sane, Alike, SameBuffer
  <2>11. Alike(f, g) /\ SameBuffer(f, g) /\ SameFate(f, g) BY <2>2, <2>6, <2>7, <2>8 DEF Alike, SameBuffer, SameFate
  <2>12. Unread(g) = 0 BY <2>6 DEF Unread
  <2>13. View(g) = f.data /\ Place(g) = At(g) /\ Where(g) = to - 0 BY <2>6, <2>10, <2>12, ViewIs
  <2>14. View(f) = f.data /\ Place(f) = At(f) /\ Where(f) = to BY <1>2, ViewIs DEF to
  <2>15. At(g) = At(f) BY <2>6, <2>12, <2>11, <2>3, <2>4 DEF At, Alike, to
  <2> QED BY <1>2, <2>3, <2>4, <2>6, <2>10, <2>11, <2>12, <2>13, <2>14, <2>15 DEF g
<1> QED BY <1>1, <1>2

LEMMA BufferOfIs == ASSUME NEW f, Sane(f)
  PROVE LET b == BufferOf(f)
        IN  /\ Sane(b) /\ Alike(f, b) /\ SameFate(f, b) /\ b.state = f.state /\ b.data = f.data /\ b.pos = f.pos /\ Unread(b) = Unread(f)
            /\ b.buf = f.buf /\ (b.buf_mode # f.buf_mode => b.buf_mode = Nbf /\ ~b.has)
            /\ IF Buffered(b) THEN b.has ELSE b.state = "empty"
            /\ View(b) = View(f) /\ Place(b) = Place(f) /\ Where(b) = Where(f)
<1> DEFINE b == BufferOf(f)
<1>0. f \in FileType BY DEF Sane
<1>1. CASE f.buf_mode = Nbf \/ f.has
  <2>1. b = f BY <1>1 DEF BufferOf
  <2>2. IF Buffered(b) THEN b.has ELSE b.state = "empty" BY <2>1, <1>1, <1>0 DEF Buffered, Sane
  <2> QED BY <2>1, <2>2 DEF Alike, SameFate
<1>2. CASE ~(f.buf_mode = Nbf \/ f.has)
  <2> DEFINE size == IF f.buf_size = 0 THEN Bufsiz ELSE f.buf_size
  <2>1. size \in Nat /\ size > 0 BY <1>0, StreamAssumption DEF FileType
  <2>2. f.state = "empty" /\ f.buf = <<>> BY <1>2 DEF Sane, FileType
  <2>3. CASE f.nomem
    <3>1. b = [f EXCEPT !.buf_mode = Nbf, !.buf_size = size] BY <1>0, <1>2, <2>3 DEF BufferOf, FileType
    <3> HIDE DEF size
    <3>2. /\ b.buf_mode = Nbf /\ b.buf_size = size /\ b.has = f.has /\ b.state = f.state /\ b.data = f.data /\ b.pos = f.pos
          /\ b.buf = f.buf /\ b.buf_pos = f.buf_pos
      BY <1>0, <3>1 DEF FileType
    <3>3. Alike(f, b) BY <1>0, <3>1 DEF FileType, Alike
    <3>4. SameFate(f, b) BY <1>0, <3>1 DEF FileType, SameFate
    <3>5. b \in FileType BY ZenonT(60), <1>0, <2>1, <3>1 DEF FileType
    <3> HIDE DEF b
    <3>6. Sane(b) BY <1>2, <2>2, <3>2, <3>3, <3>5 DEF Sane, Alike
    <3>7. View(b) = View(f) /\ Place(b) = Place(f) /\ Where(b) = Where(f) /\ Unread(b) = Unread(f) BY <3>2, <3>3, Same
    <3>8. ~b.has BY <1>2, <3>2
    <3> QED BY <2>2, <3>2, <3>3, <3>4, <3>6, <3>7, <3>8 DEF b, Buffered
  <2>4. CASE ~f.nomem
    <3>1. b = [f EXCEPT !.has = TRUE, !.listed = TRUE, !.buf_size = size] BY <1>0, <1>2, <2>4 DEF BufferOf, FileType
    <3> HIDE DEF size
    <3>2. /\ b.buf_mode = f.buf_mode /\ b.buf_size = size /\ b.has = TRUE /\ b.listed = TRUE /\ b.state = f.state /\ b.data = f.data
          /\ b.pos = f.pos /\ b.buf = f.buf /\ b.buf_pos = f.buf_pos
      BY <1>0, <3>1 DEF FileType
    <3>3. Alike(f, b) BY <1>0, <3>1 DEF FileType, Alike
    <3>4. SameFate(f, b) BY <1>0, <3>1 DEF FileType, SameFate
    <3>5. b \in FileType BY ZenonT(60), <1>0, <2>1, <3>1 DEF FileType
    <3> HIDE DEF b
    <3>6. Sane(b) BY <1>2, <2>1, <2>2, <3>2, <3>3, <3>5 DEF Sane, Alike
    <3>7. View(b) = View(f) /\ Place(b) = Place(f) /\ Where(b) = Where(f) /\ Unread(b) = Unread(f) BY <3>2, <3>3, Same
    <3> QED BY <1>2, <2>2, <3>2, <3>3, <3>4, <3>6, <3>7 DEF b, Buffered
  <2> QED BY <2>3, <2>4
<1> QED BY <1>1, <1>2

LEMMA TakenInIs ==
    ASSUME NEW f, Sane(f), f.state # "reading", f.has, NEW p \in Seq(Chars), p # <<>>, Len(f.buf) + Len(p) <= f.buf_size
    PROVE  LET t == TakenIn(f, p)
           IN  /\ Sane(t) /\ Alike(f, t) /\ SameBuffer(f, t) /\ SameFate(f, t) /\ t.state = "writing" /\ t.buf = f.buf \o p
               /\ Len(t.buf) = Len(f.buf) + Len(p)
               /\ View(t) = Overlay(View(f), Place(f), p) /\ Place(t) = Place(f) + Len(p) /\ (f.std \/ Where(t) = Place(t))
<1> DEFINE t == TakenIn(f, p)
<1>0. f \in FileType /\ f.buf \in Seq(Chars) /\ f.buf_pos = 0 /\ f.data \in Seq(Chars) /\ f.pos \in Nat BY DEF Sane, FileType
<1> DEFINE c == f.buf \o p
<1>1. c \in Seq(Chars) /\ Len(c) = Len(f.buf) + Len(p) BY <1>0, ConcatProperties
<1>2. Len(p) \in Nat /\ Len(p) > 0 /\ Len(f.buf) \in Nat BY <1>0
<1>3. c # <<>>
  <2>1. Len(c) > 0 BY <1>1, <1>2
  <2> HIDE DEF c
  <2> QED BY <2>1
<1>4. t = [f EXCEPT !.buf = c, !.state = "writing", !.wrote = Len(p)] BY <1>0 DEF TakenIn, FileType
<1> HIDE DEF c
<1>5. t.buf = c /\ t.state = "writing" /\ t.wrote = Len(p) /\ t.buf_pos = 0 /\ t.data = f.data /\ t.pos = f.pos BY <1>0, <1>4 DEF FileType
<1>6. Alike(f, t) BY <1>0, <1>4 DEF FileType, Alike
<1>7. SameBuffer(f, t) BY <1>0, <1>4 DEF FileType, SameBuffer
<1>8. SameFate(f, t) BY <1>0, <1>4 DEF FileType, SameFate
<1>9. t \in FileType BY ZenonT(60), <1>0, <1>1, <1>2, <1>4 DEF FileType
<1> HIDE DEF t
<1>10. Sane(t)
  <2>1. t.buf_pos <= Len(t.buf) /\ Len(t.buf) <= t.buf_size BY <1>1, <1>2, <1>5, <1>7 DEF SameBuffer
  <2> QED BY <2>1, <1>3, <1>5, <1>6, <1>7, <1>9 DEF Sane, Alike, SameBuffer
<1>11. Pending(f) = f.buf BY DEF Pending, Sane, FileType
<1>12. Pending(t) = c BY <1>5 DEF Pending
<1>13. Unread(f) = 0 /\ Unread(t) = 0 BY <1>5 DEF Unread
<1>14. At(t) = At(f) BY <1>5, <1>6, <1>13 DEF At, Alike
<1>15. At(f) \in 0 .. Len(f.data) BY UnreadIs
<1>16. View(t) = Overlay(View(f), Place(f), p)
  <2>1. View(t) = Overlay(f.data, At(f), c) BY <1>5, <1>12, <1>14 DEF View
  <2>2. View(f) = Overlay(f.data, At(f), f.buf) /\ Place(f) = At(f) + Len(f.buf) BY <1>11 DEF View, Place
  <2>3. Overlay(Overlay(f.data, At(f), f.buf), At(f) + Len(f.buf), p) = Overlay(f.data, At(f), f.buf \o p)
    BY <1>0, <1>15, OverlayTwice
  <2> QED BY <2>1, <2>2, <2>3 DEF c
<1>17. Place(t) = Place(f) + Len(p)
  <2>1. Place(t) = At(f) + Len(c) /\ Place(f) = At(f) + Len(f.buf) BY <1>11, <1>12, <1>14 DEF Place
  <2>2. At(f) \in Nat BY <1>0, <1>15
  <2>3. Len(c) = Len(f.buf) + Len(p) BY <1>1
  <2> HIDE DEF c
  <2> QED BY <2>1, <2>2, <2>3, <1>2
<1>18. f.std \/ Where(t) = Place(t)
  <2>1. ~f.std => ~f.term BY DEF Sane
  <2>2. ~f.std /\ ~t.append => At(t) = t.pos - 0 BY <2>1, <1>6, <1>13 DEF At, Alike
  <2> QED BY <2>2, <1>5, <1>13 DEF Where, Place
<1> QED BY <1>1, <1>5, <1>6, <1>7, <1>8, <1>10, <1>16, <1>17, <1>18 DEF t, c

-----------------------------------------------------------------------------
(* Counting up, for the loops: the prover has no induction over a property, but it has it over a set. *)

Soonest(T) == CHOOSE x \in T : \A y \in T : x <= y

LEMMA LeastOf == ASSUME NEW T \in SUBSET Nat, T # {} PROVE Soonest(T) \in T /\ \A y \in T : Soonest(T) <= y
<1>1. IsWellFoundedOn(OpToRel(<, Nat), Nat) BY NatLessThanWellFounded
<1>2. PICK x \in T : \A y \in T : ~(<<y, x>> \in OpToRel(<, Nat)) BY <1>1, WFMin
<1>3. \A y \in T : ~(y < x) BY <1>2 DEF OpToRel
<1>4. \A y \in T : x <= y BY <1>3
<1> QED BY <1>4 DEF Soonest

\* A property of 0 that each number hands to the next holds of all up to n; the property is the set of those that have it.
LEMMA CountingUp == ASSUME NEW n \in Nat, NEW P, 0 \in P, \A i \in 0 .. n - 1 : i \in P => i + 1 \in P PROVE \A i \in 0 .. n : i \in P
<1> DEFINE T == {i \in 0 .. n : i \notin P}
<1>1. SUFFICES ASSUME T # {} PROVE FALSE OBVIOUS
<1>2. Soonest(T) \in T /\ \A y \in T : Soonest(T) <= y BY <1>1, LeastOf
<1> DEFINE m == Soonest(T)
<1> HIDE DEF m
<1>3. m \in 0 .. n /\ m \notin P /\ \A y \in T : m <= y BY <1>2 DEF m
<1>4. m # 0 BY <1>3
<1>5. m - 1 \in 0 .. n - 1 /\ m - 1 \in P BY <1>3, <1>4
<1>6. (m - 1) + 1 \in P BY <1>5
<1> QED BY <1>3, <1>6

-----------------------------------------------------------------------------
(* Writing: fputc, and write_bytes with its loop *)

Slack(f) == f.state = "writing" => Len(f.buf) < f.buf_size

\* g is f with p written to it where it stood, or bytes were lost and the stream knows.
Wrote(f, g, p) ==
    /\ Sane(g) /\ Alike(f, g)
    /\ ~g.lost => /\ ~f.lost /\ g.error = f.error /\ g.eof = f.eof
                  /\ View(g) = Overlay(View(f), Place(f), p) /\ Place(g) = Place(f) + Len(p) /\ (f.std \/ Where(g) = Place(g))
\* g is f as far as the program can tell.
AsGood(f, g) ==
    /\ Sane(g) /\ Alike(f, g)
    /\ ~g.lost => SameFate(f, g) /\ View(g) = View(f) /\ Place(g) = Place(f) /\ (f.std \/ Where(g) = Where(f))

LEMMA AlikeTwice == ASSUME NEW f, NEW g, NEW h, Alike(f, g), Alike(g, h) PROVE Alike(f, h)
BY DEF Alike

LEMMA SameTwice == ASSUME NEW f, NEW g, NEW h, SameBuffer(f, g), SameBuffer(g, h) PROVE SameBuffer(f, h)
BY DEF SameBuffer

LEMMA GoodTwice == ASSUME NEW f, NEW g, NEW h, AsGood(f, g), AsGood(g, h), g.lost => h.lost PROVE AsGood(f, h)
<1>1. Alike(f, h) BY AlikeTwice DEF AsGood
<1>2. g.std = f.std BY DEF AsGood, Alike
<1> QED BY <1>1, <1>2 DEF AsGood, SameFate

LEMMA WroteAfter == ASSUME NEW f, NEW g, NEW h, NEW p, AsGood(f, g), Wrote(g, h, p), f.lost => g.lost PROVE Wrote(f, h, p)
<1>1. Alike(f, h) BY AlikeTwice DEF AsGood, Wrote
<1>2. g.std = f.std BY DEF AsGood, Alike
<1> QED BY <1>1, <1>2 DEF AsGood, Wrote, SameFate

LEMMA WroteThen == ASSUME NEW f, NEW g, NEW h, NEW p, Wrote(f, g, p), AsGood(g, h), g.lost => h.lost PROVE Wrote(f, h, p)
<1>1. Alike(f, h) BY AlikeTwice DEF AsGood, Wrote
<1>2. g.std = f.std BY DEF Wrote, Alike
<1>3. ASSUME ~h.lost
      PROVE /\ ~f.lost /\ h.error = f.error /\ h.eof = f.eof
            /\ View(h) = Overlay(View(f), Place(f), p) /\ Place(h) = Place(f) + Len(p) /\ (f.std \/ Where(h) = Place(h))
  <2>1. ~g.lost BY <1>3
  <2> QED BY <2>1, <1>2, <1>3 DEF AsGood, Wrote, SameFate
<1> QED BY <1>1, <1>3 DEF AsGood, Wrote

LEMMA WroteTwice ==
    ASSUME NEW f, Sane(f), NEW g, NEW h, NEW p \in Seq(Chars), NEW r \in Seq(Chars), Wrote(f, g, p), Wrote(g, h, r)
    PROVE  Wrote(f, h, p \o r)
<1>1. Sane(g) /\ Sane(h) /\ Alike(f, h) /\ g.std = f.std
  <2>1. Alike(f, h) BY AlikeTwice DEF Wrote
  <2> QED BY <2>1 DEF Wrote, Alike
<1>2. ASSUME ~h.lost
      PROVE /\ ~f.lost /\ h.error = f.error /\ h.eof = f.eof
            /\ View(h) = Overlay(View(f), Place(f), p \o r) /\ Place(h) = Place(f) + Len(p \o r) /\ (f.std \/ Where(h) = Place(h))
  <2>1. /\ ~g.lost /\ h.error = g.error /\ h.eof = g.eof /\ View(h) = Overlay(View(g), Place(g), r)
        /\ Place(h) = Place(g) + Len(r) /\ (g.std \/ Where(h) = Place(h))
    BY <1>2 DEF Wrote
  <2>2. /\ ~f.lost /\ g.error = f.error /\ g.eof = f.eof /\ View(g) = Overlay(View(f), Place(f), p)
        /\ Place(g) = Place(f) + Len(p)
    BY <2>1 DEF Wrote
  <2>3. View(f) \in Seq(Chars) /\ Place(f) \in Nat /\ Place(f) <= Len(View(f)) BY UnreadIs, ViewIs
  <2>4. Place(f) \in 0 .. Len(View(f)) BY <2>3
  <2>5. Overlay(Overlay(View(f), Place(f), p), Place(f) + Len(p), r) = Overlay(View(f), Place(f), p \o r)
    BY <2>3, <2>4, OverlayTwice
  <2>6. Len(p \o r) = Len(p) + Len(r) /\ Len(p) \in Nat /\ Len(r) \in Nat BY ConcatProperties
  <2>7. Place(h) = Place(f) + Len(p \o r) BY <2>1, <2>2, <2>3, <2>6
  <2> QED BY <2>1, <2>2, <2>5, <2>7, <1>1
<1> QED BY <1>1, <1>2 DEF Wrote

LEMMA FlushGood == ASSUME NEW f, Sane(f)
  PROVE AsGood(f, Flush(f)) /\ Slack(Flush(f)) /\ (f.lost => Flush(f).lost) /\ SameBuffer(f, Flush(f)) /\ Flush(f).state # "writing"
<1> DEFINE g == Flush(f)
<1>1. /\ Sane(g) /\ Alike(f, g) /\ SameBuffer(f, g) /\ g.state # "writing"
      /\ ~g.lost => SameFate(f, g) /\ View(g) = View(f) /\ Place(g) = Place(f) /\ (f.std \/ Where(g) = Where(f))
  BY FlushIs
<1>2. f.lost => g.lost
  <2>1. SUFFICES ASSUME ~g.lost PROVE ~f.lost OBVIOUS
  <2> QED BY <2>1, <1>1 DEF SameFate
<1> QED BY <1>1, <1>2 DEF AsGood, Slack

\* What a write starts with
LEMMA Prepared == ASSUME NEW f, Sane(f), Slack(f)
  PROVE LET b == BufferOf(DropReadAhead(f))
        IN  /\ AsGood(f, b) /\ b.lost = f.lost /\ b.state # "reading" /\ Slack(b)
            /\ IF Buffered(b) THEN b.has ELSE b.state = "empty"
<1> DEFINE d == DropReadAhead(f)
           b == BufferOf(d)
<1>1. /\ Sane(d) /\ Alike(f, d) /\ SameBuffer(f, d) /\ SameFate(f, d) /\ d.state # "reading"
      /\ f.state # "reading" => d = f
      /\ View(d) = View(f) /\ Place(d) = Place(f) /\ Where(d) = Where(f)
  BY DropIs
<1> HIDE DEF d
<1>2. /\ Sane(b) /\ Alike(d, b) /\ SameFate(d, b) /\ b.state = d.state /\ b.buf = d.buf
      /\ IF Buffered(b) THEN b.has ELSE b.state = "empty"
      /\ View(b) = View(d) /\ Place(b) = Place(d) /\ Where(b) = Where(d)
  BY <1>1, BufferOfIs
<1>3. Alike(f, b) BY <1>1, <1>2, AlikeTwice
<1>4. SameFate(f, b) BY <1>1, <1>2 DEF SameFate
<1>5. Slack(b)
  <2>1. SUFFICES ASSUME b.state = "writing" PROVE Len(b.buf) < b.buf_size BY DEF Slack
  <2>2. d = f
    <3>1. f.state = "reading" \/ f.state # "reading" OBVIOUS
    <3>2. CASE f.state = "reading"
      <4>1. d.state = "empty" BY <3>2, EmptiedIs DEF d, DropReadAhead, Emptied, Sane, FileType
      <4> QED BY <4>1, <2>1, <1>2
    <3> QED BY <3>2, <1>1
  <2>3. d.has BY <1>1, <1>2, <2>1 DEF Sane
  <2>4. b = d BY <2>3 DEF BufferOf, b
  <2> QED BY <2>1, <2>2, <2>4 DEF Slack
<1> HIDE DEF b
<1>6. AsGood(f, b) BY <1>1, <1>2, <1>3, <1>4 DEF AsGood
<1> QED BY <1>1, <1>2, <1>4, <1>5, <1>6 DEF b, d, SameFate

LEMMA RawWrote == ASSUME NEW f, Sane(f), f.state = "empty", NEW p \in Seq(Chars)
  PROVE Wrote(f, RawWrite(f, p), p) /\ Slack(RawWrite(f, p)) /\ RawWrite(f, p).state = "empty" /\ SameBuffer(f, RawWrite(f, p))
<1> DEFINE g == RawWrite(f, p)
<1>1. /\ Sane(g) /\ Alike(f, g) /\ SameBuffer(f, g) /\ g.state = "empty"
      /\ ~g.lost => /\ ~f.lost /\ g.error = f.error /\ g.eof = f.eof
                    /\ View(g) = Overlay(View(f), Place(f), p) /\ Place(g) = Place(f) + Len(p) /\ Where(g) = Place(g)
  BY RawWriteIs
<1> QED BY <1>1 DEF Wrote, Slack

LEMMA TakenWrote ==
    ASSUME NEW f, Sane(f), f.state # "reading", f.has, NEW p \in Seq(Chars), p # <<>>, Len(f.buf) + Len(p) <= f.buf_size
    PROVE  LET t == TakenIn(f, p)
           IN  /\ Wrote(f, t, p) /\ t.state = "writing" /\ SameBuffer(f, t) /\ t.lost = f.lost
               /\ Len(t.buf) = Len(f.buf) + Len(p)
<1> DEFINE t == TakenIn(f, p)
<1>1. /\ Sane(t) /\ Alike(f, t) /\ SameBuffer(f, t) /\ SameFate(f, t) /\ t.state = "writing"
      /\ Len(t.buf) = Len(f.buf) + Len(p)
      /\ View(t) = Overlay(View(f), Place(f), p) /\ Place(t) = Place(f) + Len(p) /\ (f.std \/ Where(t) = Place(t))
  BY TakenInIs
<1> QED BY <1>1 DEF Wrote, SameFate

LEMMA One == ASSUME NEW c \in Chars PROVE <<c>> \in Seq(Chars) /\ <<c>> # <<>> /\ Len(<<c>>) = 1
OBVIOUS

LEMMA PutcIs == ASSUME NEW f, Sane(f), Slack(f), NEW c \in Chars
  PROVE Wrote(f, Putc(f, c), <<c>>) /\ Slack(Putc(f, c))
<1> DEFINE b == BufferOf(DropReadAhead(f))
           p == <<c>>
           t == TakenIn(b, p)
           g == Putc(f, c)
<1>1. /\ AsGood(f, b) /\ b.lost = f.lost /\ b.state # "reading" /\ Slack(b)
      /\ IF Buffered(b) THEN b.has ELSE b.state = "empty"
  BY Prepared
<1>2. p \in Seq(Chars) /\ p # <<>> /\ Len(p) = 1 BY One
<1>3. g = IF ~Buffered(b) THEN RawWrite(b, p)
          ELSE IF Len(t.buf) = t.buf_size \/ (t.buf_mode = Lbf /\ c = NL) THEN Flush(t) ELSE t
  BY DEF Putc
<1> HIDE DEF b, p, g
<1>4. Sane(b) BY <1>1 DEF AsGood
<1>5. CASE ~Buffered(b)
  <2>1. Wrote(b, g, p) /\ Slack(g) BY <1>1, <1>2, <1>3, <1>4, <1>5, RawWrote
  <2>2. Wrote(f, g, p) BY <2>1, <1>1, WroteAfter
  <2> QED BY <2>1, <2>2 DEF g, p
<1>6. CASE Buffered(b)
  <2>0. b.has /\ b.buf_size > 0 /\ b.buf \in Seq(Chars) /\ b.buf_size \in Nat BY <1>1, <1>4, <1>6 DEF Sane, FileType
  <2>1. Len(b.buf) < b.buf_size
    <3>1. CASE b.state = "writing" BY <3>1, <1>1 DEF Slack
    <3>2. CASE b.state = "empty"
      <4>1. Len(b.buf) = 0 BY <3>2, <1>4 DEF Sane
      <4> QED BY <4>1, <2>0
    <3> QED BY <3>1, <3>2, <1>1, <1>4 DEF Sane, FileType
  <2>2. Len(b.buf) + Len(p) <= b.buf_size BY <2>0, <2>1, <1>2
  <2>3. Wrote(b, t, p) /\ t.state = "writing" /\ SameBuffer(b, t) /\ t.lost = b.lost /\ Len(t.buf) = Len(b.buf) + Len(p)
    BY <1>1, <1>2, <1>4, <2>0, <2>2, TakenWrote
  <2> HIDE DEF t
  <2>4. Wrote(f, t, p) BY <2>3, <1>1, WroteAfter
  <2>5. Sane(t) BY <2>3 DEF Wrote
  <2>6. CASE g = Flush(t)
    <3>1. AsGood(t, g) /\ Slack(g) /\ (t.lost => g.lost) BY <2>5, <2>6, FlushGood
    <3>2. Wrote(f, g, p) BY <3>1, <2>4, WroteThen
    <3> QED BY <3>1, <3>2 DEF g, p
  <2>7. CASE g # Flush(t)
    <3>1. g = t /\ Len(t.buf) # t.buf_size BY <2>7, <1>3, <1>6 DEF t
    <3>2. t.buf_size = b.buf_size BY <2>3 DEF SameBuffer
    <3>3. Slack(g) BY <3>1, <3>2, <2>0, <2>1, <2>2, <2>3, <1>2 DEF Slack
    <3> QED BY <3>1, <3>3, <2>4 DEF g, p
  <2> QED BY <2>6, <2>7
<1> QED BY <1>5, <1>6

\* Pieces of a sequence
LEMMA Piece == ASSUME NEW p \in Seq(Chars), NEW i \in Nat \ {0}, NEW j \in 0 .. Len(p), i <= j + 1
  PROVE SubSeq(p, i, j) \in Seq(Chars) /\ Len(SubSeq(p, i, j)) = j - i + 1 /\ \A m \in 1 .. j - i + 1 : SubSeq(p, i, j)[m] = p[i + m - 1]
<1>1. \A m \in i .. j : m \in 1 .. Len(p) OBVIOUS
<1> QED BY <1>1

LEMMA Pieces ==
    ASSUME NEW p \in Seq(Chars), NEW k \in 0 .. Len(p), NEW j \in 0 .. Len(p) - k
    PROVE  LET left == SubSeq(p, k + 1, Len(p))
           IN  /\ left \in Seq(Chars) /\ Len(left) = Len(p) - k
               /\ SubSeq(left, j + 1, Len(left)) = SubSeq(p, k + j + 1, Len(p))
               /\ SubSeq(p, 1, k) \o SubSeq(left, 1, j) = SubSeq(p, 1, k + j)
<1> DEFINE left == SubSeq(p, k + 1, Len(p))
<1>0. Len(p) \in Nat OBVIOUS
<1>1. left \in Seq(Chars) /\ Len(left) = Len(p) - k /\ \A m \in 1 .. Len(left) : left[m] = p[k + m]
  <2>1. k + 1 \in Nat \ {0} /\ Len(p) \in 0 .. Len(p) /\ k + 1 <= Len(p) + 1 /\ Len(p) - (k + 1) + 1 = Len(p) - k BY SMTT(30), <1>0
  <2>2. /\ left \in Seq(Chars) /\ Len(left) = Len(p) - k
        /\ \A m \in 1 .. Len(p) - k : left[m] = p[(k + 1) + m - 1]
    BY <2>1, Piece
  <2> QED BY <2>2
<1> HIDE DEF left
<1> DEFINE a == SubSeq(left, j + 1, Len(left))
           b == SubSeq(p, k + j + 1, Len(p))
           c == SubSeq(p, 1, k)
           d == SubSeq(left, 1, j)
           e == SubSeq(p, 1, k + j)
<1>2. a \in Seq(Chars) /\ Len(a) = Len(p) - k - j /\ \A m \in 1 .. Len(a) : a[m] = left[j + m]
  <2>1. j + 1 \in Nat \ {0} /\ Len(left) \in 0 .. Len(left) /\ j + 1 <= Len(left) + 1 BY <1>0, <1>1
  <2>2. /\ a \in Seq(Chars) /\ Len(a) = Len(left) - (j + 1) + 1
        /\ \A m \in 1 .. Len(left) - (j + 1) + 1 : a[m] = left[(j + 1) + m - 1]
    BY <2>1, <1>1, Piece
  <2> HIDE DEF a
  <2> QED BY <2>2, <1>0, <1>1
<1>3. b \in Seq(Chars) /\ Len(b) = Len(p) - k - j /\ \A m \in 1 .. Len(b) : b[m] = p[k + j + m]
  <2>1. k + j + 1 \in Nat \ {0} /\ Len(p) \in 0 .. Len(p) /\ k + j + 1 <= Len(p) + 1 BY <1>0
  <2>2. /\ b \in Seq(Chars) /\ Len(b) = Len(p) - (k + j + 1) + 1
        /\ \A m \in 1 .. Len(p) - (k + j + 1) + 1 : b[m] = p[(k + j + 1) + m - 1]
    BY <2>1, Piece
  <2> HIDE DEF b
  <2> QED BY <2>2, <1>0
<1>4. c \in Seq(Chars) /\ Len(c) = k /\ \A m \in 1 .. k : c[m] = p[m]
  <2>1. 1 \in Nat \ {0} /\ k \in 0 .. Len(p) /\ 1 <= k + 1 BY <1>0
  <2>2. /\ c \in Seq(Chars) /\ Len(c) = k - 1 + 1 /\ \A m \in 1 .. k - 1 + 1 : c[m] = p[1 + m - 1]
    BY <2>1, Piece
  <2> HIDE DEF c
  <2> QED BY <2>2, <1>0
<1>5. d \in Seq(Chars) /\ Len(d) = j /\ \A m \in 1 .. j : d[m] = left[m]
  <2>1. 1 \in Nat \ {0} /\ j \in 0 .. Len(left) /\ 1 <= j + 1 BY <1>0, <1>1
  <2>2. /\ d \in Seq(Chars) /\ Len(d) = j - 1 + 1 /\ \A m \in 1 .. j - 1 + 1 : d[m] = left[1 + m - 1]
    BY <2>1, <1>1, Piece
  <2> HIDE DEF d
  <2> QED BY <2>2, <1>0
<1>6. e \in Seq(Chars) /\ Len(e) = k + j /\ \A m \in 1 .. k + j : e[m] = p[m]
  <2>1. 1 \in Nat \ {0} /\ k + j \in 0 .. Len(p) /\ 1 <= k + j + 1 BY <1>0
  <2>2. /\ e \in Seq(Chars) /\ Len(e) = k + j - 1 + 1 /\ \A m \in 1 .. k + j - 1 + 1 : e[m] = p[1 + m - 1]
    BY <2>1, Piece
  <2> HIDE DEF e
  <2> QED BY <2>2, <1>0
<1> HIDE DEF a, b, c, d, e
<1>7. a = b
  <2>1. Len(a) = Len(b) BY <1>2, <1>3
  <2>2. ASSUME NEW m \in 1 .. Len(a) PROVE a[m] = b[m]
    <3>1. j + m \in 1 .. Len(left) /\ k + (j + m) = k + j + m BY <1>0, <1>1, <1>2
    <3>2. m \in 1 .. Len(b) BY <2>1
    <3>3. a[m] = left[j + m] /\ left[j + m] = p[k + (j + m)] BY <3>1, <1>1, <1>2
    <3>4. b[m] = p[k + j + m] BY <3>2, <1>3
    <3> QED BY <3>1, <3>3, <3>4
  <2> QED BY <2>1, <2>2, <1>2, <1>3, SameSeq
<1> DEFINE y == c \o d
<1>8. /\ y \in Seq(Chars) /\ Len(y) = Len(c) + Len(d)
      /\ \A m \in 1 .. Len(c) + Len(d) : y[m] = IF m <= Len(c) THEN c[m] ELSE d[m - Len(c)]
  BY <1>4, <1>5, ConcatProperties
<1> HIDE DEF y
<1>9. y = e
  <2>1. Len(y) = Len(e) /\ Len(y) = k + j BY <1>4, <1>5, <1>6, <1>8
  <2>2. ASSUME NEW m \in 1 .. Len(y) PROVE y[m] = e[m]
    <3>0. m \in 1 .. k + j /\ Len(c) = k /\ m \in 1 .. Len(c) + Len(d) BY <2>1, <1>4, <1>8
    <3>1. e[m] = p[m] BY <3>0, <1>6
    <3>2. y[m] = IF m <= k THEN c[m] ELSE d[m - k] BY <3>0, <1>8
    <3>3. CASE m <= k
      <4>1. m \in 1 .. k BY <3>3, <3>0
      <4> QED BY <4>1, <3>3, <3>1, <3>2, <1>4
    <3>4. CASE ~(m <= k)
      <4>1. m - k \in 1 .. j /\ m - k \in 1 .. Len(left) /\ k + (m - k) = m BY <3>4, <3>0, <1>0, <1>1
      <4>2. d[m - k] = left[m - k] /\ left[m - k] = p[k + (m - k)] BY <4>1, <1>1, <1>5
      <4> QED BY <4>1, <4>2, <3>4, <3>1, <3>2
    <3> QED BY <3>3, <3>4
  <2> QED BY <2>1, <2>2, <1>6, <1>8, SameSeq
<1> QED BY <1>1, <1>7, <1>9 DEF left, a, b, c, d, e, y

LEMMA Whole == ASSUME NEW p \in Seq(Chars) PROVE SubSeq(p, 1, Len(p)) = p /\ SubSeq(p, Len(p) + 1, Len(p)) = <<>>
<1> DEFINE e == SubSeq(p, 1, Len(p))
<1>1. 1 \in Nat \ {0} /\ Len(p) \in 0 .. Len(p) /\ 1 <= Len(p) + 1 /\ Len(p) - 1 + 1 = Len(p) OBVIOUS
<1>2. e \in Seq(Chars) /\ Len(e) = Len(p) - 1 + 1 /\ \A m \in 1 .. Len(p) - 1 + 1 : e[m] = p[1 + m - 1] BY <1>1, Piece
<1> HIDE DEF e
<1>3. Len(e) = Len(p) /\ \A m \in 1 .. Len(e) : e[m] = p[m] BY <1>1, <1>2
<1>4. e = p BY <1>2, <1>3, SameSeq
<1> QED BY <1>4 DEF e

\* One turn takes a piece of what is left, and leaves the rest unless bytes were lost.
LEMMA PoursIs ==
    ASSUME NEW s, Sane(s.f), Slack(s.f), s.f.has, s.f.state # "reading", s.left \in Seq(Chars), s.left # <<>>
    PROVE  LET r == Pours(s)
           IN  /\ Slack(r.f) /\ SameBuffer(s.f, r.f) /\ r.f.state # "reading" /\ r.left \in Seq(Chars)
               /\ \E part \in 1 .. Len(s.left) : /\ Wrote(s.f, r.f, SubSeq(s.left, 1, part))
                                                 /\ ~r.f.lost => r.left = SubSeq(s.left, part + 1, Len(s.left))
<1> DEFINE f == s.f
           left == s.left
           r == Pours(s)
           part == Fewer(Len(left), f.buf_size - Len(f.buf))
           q == SubSeq(left, 1, part)
           t == TakenIn(f, q)
           full == Len(t.buf) = t.buf_size
           failed == full /\ FlushFailed(t, Flush(t))
<1>0. /\ f.buf \in Seq(Chars) /\ f.buf_size \in Nat /\ f.buf_size > 0 /\ Len(f.buf) \in Nat /\ Len(left) \in Nat /\ Len(left) > 0
  BY DEF Sane, FileType
<1>1. r = IF f.buf = <<>> /\ Len(left) >= f.buf_size THEN [f |-> RawWrite(f, left), left |-> <<>>]
          ELSE [f |-> IF full THEN Flush(t) ELSE t, left |-> IF failed THEN <<>> ELSE SubSeq(left, part + 1, Len(left))]
  BY DEF Pours
<1> HIDE DEF r
<1>2. CASE f.buf = <<>> /\ Len(left) >= f.buf_size
  <2>1. f.state = "empty" BY <1>2 DEF Sane, FileType
  <2>2. r.f = RawWrite(f, left) /\ r.left = <<>> BY <1>1, <1>2
  <2>3. Wrote(f, r.f, left) /\ Slack(r.f) /\ r.f.state = "empty" /\ SameBuffer(f, r.f) BY <2>1, <2>2, RawWrote
  <2>4. SubSeq(left, 1, Len(left)) = left /\ SubSeq(left, Len(left) + 1, Len(left)) = <<>> BY Whole
  <2>5. Len(left) \in 1 .. Len(left) BY <1>0
  <2>6. <<>> \in Seq(Chars) OBVIOUS
  <2> QED BY <2>2, <2>3, <2>4, <2>5, <2>6 DEF r
<1>3. CASE ~(f.buf = <<>> /\ Len(left) >= f.buf_size)
  <2>1. Len(f.buf) < f.buf_size
    <3>1. CASE f.state = "writing" BY <3>1 DEF Slack
    <3>2. CASE f.state = "empty" BY <3>2, <1>0 DEF Sane
    <3> QED BY <3>1, <3>2 DEF Sane, FileType
  <2>2. part \in 1 .. Len(left) /\ Len(f.buf) + part <= f.buf_size BY SMTT(30), <2>1, <1>0 DEF Fewer
  <2>3. r.f = (IF full THEN Flush(t) ELSE t) /\ r.left = IF failed THEN <<>> ELSE SubSeq(left, part + 1, Len(left)) BY <1>1, <1>3
  <2> HIDE DEF part
  <2>4. q \in Seq(Chars) /\ Len(q) = part
    <3>1. 1 \in Nat \ {0} /\ part \in 0 .. Len(left) /\ 1 <= part + 1 /\ part - 1 + 1 = part BY <2>2, <1>0
    <3> QED BY <3>1, Piece
  <2>5. q # <<>>
    <3>1. Len(q) > 0 BY <2>2, <2>4, <1>0
    <3> HIDE DEF q
    <3> QED BY <3>1
  <2> HIDE DEF q
  <2>6. Wrote(f, t, q) /\ t.state = "writing" /\ SameBuffer(f, t) /\ t.lost = f.lost /\ Len(t.buf) = Len(f.buf) + Len(q)
    BY <2>2, <2>4, <2>5, TakenWrote
  <2> HIDE DEF t
  <2>7. Sane(t) BY <2>6 DEF Wrote
  <2>8. AsGood(t, Flush(t)) /\ Slack(Flush(t)) /\ (t.lost => Flush(t).lost) /\ SameBuffer(t, Flush(t)) /\ Flush(t).state # "writing"
    BY <2>7, FlushGood
  <2>9. FlushFailed(t, Flush(t)) => Flush(t).lost /\ Flush(t).state = "empty" BY <2>6, <2>7, FlushIs
  <2>10. Flush(t).state = "empty" BY <2>6, <2>7, FlushIs
  <2>13. Slack(r.f) /\ SameBuffer(f, r.f) /\ r.f.state # "reading" /\ Wrote(f, r.f, q) /\ (failed => r.f.lost)
    <3>1. CASE full
      <4>1. r.f = Flush(t) BY <2>3, <3>1
      <4>2. Wrote(f, r.f, q) BY <4>1, <2>6, <2>8, WroteThen
      <4>3. SameBuffer(f, r.f) BY <4>1, <2>6, <2>8, SameTwice
      <4>4. failed => r.f.lost BY <4>1, <2>9
      <4> QED BY <4>1, <4>2, <4>3, <4>4, <2>8, <2>10
    <3>2. CASE ~full
      <4>1. r.f = t /\ ~failed BY <2>3, <3>2
      <4>2. Slack(t)
        <5>1. t.buf_size = f.buf_size BY <2>6 DEF SameBuffer
        <5>2. Len(t.buf) # t.buf_size BY <3>2
        <5> QED BY <5>1, <5>2, <2>2, <2>4, <2>6, <1>0 DEF Slack
      <4> QED BY <4>1, <4>2, <2>6
    <3> QED BY <3>1, <3>2
  <2>14. SubSeq(left, part + 1, Len(left)) \in Seq(Chars)
    <3>1. part + 1 \in Nat \ {0} /\ Len(left) \in 0 .. Len(left) /\ part + 1 <= Len(left) + 1 BY <2>2, <1>0
    <3> QED BY <3>1, Piece
  <2>15. r.left \in Seq(Chars)
    <3>1. <<>> \in Seq(Chars) OBVIOUS
    <3> QED BY <3>1, <2>3, <2>14
  <2>16. ~r.f.lost => r.left = SubSeq(left, part + 1, Len(left)) BY <2>3, <2>13
  <2> QED BY <2>2, <2>13, <2>15, <2>16 DEF q, r
<1> QED BY <1>2, <1>3

\* The definition by recursion has its meaning: there is a function that obeys it.
PouredBy(f, p, n, h) == h = [i \in 0 .. n |-> IF i = 0 THEN [f |-> f, left |-> p] ELSE Pours(h[i - 1])]
LEMMA PouredIs == ASSUME NEW f, NEW p, Len(p) \in Nat
  PROVE /\ Poured(f, p)[0] = [f |-> f, left |-> p]
        /\ \A i \in 0 .. Len(p) - 1 : Poured(f, p)[i + 1] = Pours(Poured(f, p)[i])
<1> DEFINE P == {n \in Nat : \E h : PouredBy(f, p, n, h)}
           first == [f |-> f, left |-> p]
<1>1. 0 \in P
  <2> DEFINE h == [i \in 0 .. 0 |-> first]
  <2>1. h = [i \in 0 .. 0 |-> IF i = 0 THEN first ELSE Pours(h[i - 1])] OBVIOUS
  <2>2. PouredBy(f, p, 0, h) BY <2>1 DEF PouredBy
  <2> QED BY <2>2
<1>2. ASSUME NEW n \in Nat, n \in P PROVE n + 1 \in P
  <2>1. PICK h : PouredBy(f, p, n, h) BY <1>2
  <2> DEFINE g == [i \in 0 .. n + 1 |-> IF i = n + 1 THEN Pours(h[n]) ELSE h[i]]
  <2>2. \A i \in 0 .. n : h[i] = IF i = 0 THEN first ELSE Pours(h[i - 1]) BY <2>1 DEF PouredBy
  <2>3. \A i \in 0 .. n : g[i] = h[i] OBVIOUS
  <2>4. \A i \in 0 .. n + 1 : g[i] = IF i = 0 THEN first ELSE Pours(g[i - 1])
    <3>1. ASSUME NEW i \in 0 .. n + 1 PROVE g[i] = IF i = 0 THEN first ELSE Pours(g[i - 1])
      <4>1. CASE i = n + 1 BY <4>1, <2>3
      <4>2. CASE i # n + 1
        <5>1. i \in 0 .. n /\ (i # 0 => i - 1 \in 0 .. n) BY <4>2
        <5> HIDE DEF g, first
        <5> QED BY <5>1, <2>2, <2>3
      <4> QED BY <4>1, <4>2
    <3> QED BY <3>1
  <2>5. g = [i \in 0 .. n + 1 |-> g[i]] OBVIOUS
  <2> HIDE DEF g
  <2>6. PouredBy(f, p, n + 1, g) BY <2>4, <2>5 DEF PouredBy
  <2> QED BY <2>6
<1>3. Len(p) \in P
  <2> HIDE DEF P
  <2>1. \A i \in 0 .. Len(p) : i \in P BY SMTT(30), <1>1, <1>2, CountingUp
  <2> QED BY <2>1
<1>4. PICK h : PouredBy(f, p, Len(p), h) BY <1>3
<1> DEFINE D(e) == [i \in 0 .. Len(p) |-> IF i = 0 THEN first ELSE Pours(e[i - 1])]
           r == Poured(f, p)
<1>5. h = D(h) BY <1>4 DEF PouredBy
<1>6. r = CHOOSE e : e = D(e) BY DEF Poured
<1>7. (CHOOSE e : e = D(e)) = D(CHOOSE e : e = D(e))
  <2> HIDE DEF D
  <2> QED BY <1>5, Zenon
<1>8. r = D(r) BY <1>6, <1>7
<1> HIDE DEF r
<1>9. \A i \in 0 .. Len(p) : r[i] = IF i = 0 THEN first ELSE Pours(r[i - 1]) BY <1>8
<1>10. r[0] = first BY <1>9
<1>11. ASSUME NEW i \in 0 .. Len(p) - 1 PROVE r[i + 1] = Pours(r[i])
  <2>1. i + 1 \in 0 .. Len(p) /\ i + 1 # 0 /\ (i + 1) - 1 = i OBVIOUS
  <2> QED BY <2>1, <1>9
<1> QED BY <1>10, <1>11 DEF r

\* After n turns at least n bytes went, in order, or some were lost.
Pouring(f, p, s, n) ==
    /\ Sane(s.f) /\ Alike(f, s.f) /\ Slack(s.f) /\ s.f.has /\ s.f.state # "reading" /\ s.left \in Seq(Chars)
    /\ s.f.lost \/ \E k \in n .. Len(p) : /\ s.left = SubSeq(p, k + 1, Len(p))
                                          /\ IF k = 0 THEN s.f = f ELSE Wrote(f, s.f, SubSeq(p, 1, k))

LEMMA PouringStep ==
    ASSUME NEW f, Sane(f), NEW p \in Seq(Chars), NEW n \in 0 .. Len(p) - 1, NEW s, Pouring(f, p, s, n)
    PROVE  Pouring(f, p, Pours(s), n + 1)
<1> DEFINE r == Pours(s)
<1>0. /\ Sane(s.f) /\ Alike(f, s.f) /\ Slack(s.f) /\ s.f.has /\ s.f.state # "reading" /\ s.left \in Seq(Chars)
      /\ s.f.lost \/ \E k \in n .. Len(p) : /\ s.left = SubSeq(p, k + 1, Len(p))
                                            /\ IF k = 0 THEN s.f = f ELSE Wrote(f, s.f, SubSeq(p, 1, k))
  BY DEF Pouring
<1>1. CASE s.left = <<>>
  <2>1. r = s BY <1>1 DEF Pours
  <2>2. ASSUME NEW k \in n .. Len(p), s.left = SubSeq(p, k + 1, Len(p)) PROVE k \in n + 1 .. Len(p)
    <3>1. Len(SubSeq(p, k + 1, Len(p))) = Len(p) - (k + 1) + 1 /\ Len(p) \in Nat
      <4>1. k + 1 \in Nat \ {0} /\ Len(p) \in 0 .. Len(p) /\ k + 1 <= Len(p) + 1 OBVIOUS
      <4> QED BY <4>1, Piece
    <3>2. Len(s.left) = 0 BY <1>1
    <3>3. 0 = Len(p) - (k + 1) + 1 BY <3>1, <3>2, <2>2
    <3> QED BY <3>1, <3>3
  <2> QED BY <2>1, <2>2, <1>0 DEF Pouring
<1>2. CASE s.left # <<>>
  <2>1. /\ Slack(r.f) /\ SameBuffer(s.f, r.f) /\ r.f.state # "reading" /\ r.left \in Seq(Chars)
        /\ \E part \in 1 .. Len(s.left) : /\ Wrote(s.f, r.f, SubSeq(s.left, 1, part))
                                          /\ ~r.f.lost => r.left = SubSeq(s.left, part + 1, Len(s.left))
    BY <1>0, <1>2, PoursIs
  <2>2. PICK part \in 1 .. Len(s.left) : /\ Wrote(s.f, r.f, SubSeq(s.left, 1, part))
                                         /\ ~r.f.lost => r.left = SubSeq(s.left, part + 1, Len(s.left))
    BY <2>1
  <2> HIDE DEF r
  <2>3. Sane(r.f) /\ r.f.has BY <2>1, <2>2, <1>0 DEF Wrote, SameBuffer
  <2>4. Alike(f, r.f) BY <2>2, <1>0, AlikeTwice DEF Wrote
  <2>5. ASSUME ~r.f.lost PROVE \E k \in n + 1 .. Len(p) : /\ r.left = SubSeq(p, k + 1, Len(p))
                                                         /\ IF k = 0 THEN r.f = f ELSE Wrote(f, r.f, SubSeq(p, 1, k))
    <3>1. ~s.f.lost BY <2>2, <2>5 DEF Wrote
    <3>2. PICK k \in n .. Len(p) : /\ s.left = SubSeq(p, k + 1, Len(p))
                                   /\ IF k = 0 THEN s.f = f ELSE Wrote(f, s.f, SubSeq(p, 1, k))
      BY <3>1, <1>0
    <3>3. k \in 0 .. Len(p) /\ Len(p) \in Nat OBVIOUS
    <3>4. Len(s.left) = Len(p) - k
      <4>1. 0 \in 0 .. Len(p) - k BY <3>3
      <4> QED BY <4>1, <3>2, <3>3, Pieces
    <3>5. part \in 0 .. Len(p) - k BY <3>3, <3>4
    <3>6. /\ SubSeq(s.left, part + 1, Len(s.left)) = SubSeq(p, k + part + 1, Len(p))
          /\ SubSeq(p, 1, k) \o SubSeq(s.left, 1, part) = SubSeq(p, 1, k + part)
      BY <3>2, <3>3, <3>5, Pieces
    <3>7. Wrote(f, r.f, SubSeq(p, 1, k + part))
      <4>1. CASE k = 0
        <5>1. s.left = p /\ s.f = f BY <4>1, <3>2, Whole
        <5> QED BY <5>1, <4>1, <2>2, <3>5, <3>4
      <4>2. CASE k # 0
        <5>1. Wrote(f, s.f, SubSeq(p, 1, k)) BY <4>2, <3>2
        <5>2. SubSeq(p, 1, k) \in Seq(Chars)
          <6>1. 1 \in Nat \ {0} /\ 1 <= k + 1 BY <3>3
          <6> QED BY <6>1, <3>3, Piece
        <5>3. SubSeq(s.left, 1, part) \in Seq(Chars)
          <6>1. 1 \in Nat \ {0} /\ 1 <= part + 1 /\ part \in 0 .. Len(s.left) BY <3>3
          <6> QED BY <6>1, <1>0, Piece
        <5> QED BY <5>1, <5>2, <5>3, <2>2, <3>6, WroteTwice
      <4> QED BY <4>1, <4>2
    <3>8. k + part \in n + 1 .. Len(p) /\ k + part # 0 /\ (k + part) + 1 = k + part + 1 BY <3>3, <3>5
    <3>9. r.left = SubSeq(p, (k + part) + 1, Len(p)) BY <2>2, <2>5, <3>6, <3>8
    <3> QED BY <3>7, <3>8, <3>9
  <2> QED BY <2>1, <2>3, <2>4, <2>5 DEF Pouring, r
<1> QED BY <1>1, <1>2

LEMMA IntoBufferIs ==
    ASSUME NEW f, Sane(f), Slack(f), f.has, f.state # "reading", NEW p \in Seq(Chars), p # <<>>
    PROVE  LET g == IntoBuffer(f, p) IN Wrote(f, g, p) /\ Slack(g)
<1> DEFINE h == Poured(f, p)
           P == {i \in Nat : Pouring(f, p, h[i], i)}
           g == IntoBuffer(f, p)
<1>0. Len(p) \in Nat /\ Len(p) # 0 OBVIOUS
<1>1. h[0] = [f |-> f, left |-> p] /\ \A i \in 0 .. Len(p) - 1 : h[i + 1] = Pours(h[i]) BY <1>0, PouredIs
<1>2. g = h[Len(p)].f BY DEF IntoBuffer
<1> HIDE DEF h
<1>3. 0 \in P
  <2>1. SubSeq(p, 0 + 1, Len(p)) = p BY Whole
  <2>2. 0 \in 0 .. Len(p) BY <1>0
  <2>3. h[0].f = f /\ h[0].left = p BY <1>1
  <2>4. Alike(f, f) BY DEF Alike
  <2>5. Pouring(f, p, h[0], 0) BY <2>1, <2>2, <2>3, <2>4 DEF Pouring
  <2> QED BY <2>5
<1>4. ASSUME NEW i \in 0 .. Len(p) - 1, i \in P PROVE i + 1 \in P
  <2>1. Pouring(f, p, h[i + 1], i + 1) BY <1>4, <1>1, PouringStep
  <2> QED BY <2>1
<1>5. Pouring(f, p, h[Len(p)], Len(p))
  <2> HIDE DEF P
  <2>1. \A i \in 0 .. Len(p) : i \in P BY <1>0, <1>3, <1>4, CountingUp
  <2>2. Len(p) \in P BY <2>1, <1>0
  <2> QED BY <2>2 DEF P
<1> HIDE DEF g, P
<1>6. /\ Sane(g) /\ Alike(f, g) /\ Slack(g)
      /\ g.lost \/ \E k \in Len(p) .. Len(p) : IF k = 0 THEN g = f ELSE Wrote(f, g, SubSeq(p, 1, k))
  BY <1>2, <1>5 DEF Pouring
<1>7. SubSeq(p, 1, Len(p)) = p BY Whole
<1>8. Wrote(f, g, p)
  <2>1. CASE g.lost BY <2>1, <1>6 DEF Wrote
  <2>2. CASE ~g.lost
    <3>1. PICK k \in Len(p) .. Len(p) : IF k = 0 THEN g = f ELSE Wrote(f, g, SubSeq(p, 1, k)) BY <2>2, <1>6
    <3>2. k = Len(p) BY <1>0
    <3> QED BY <3>1, <3>2, <1>0, <1>7
  <2> QED BY <2>1, <2>2
<1> QED BY <1>6, <1>8 DEF g

LEMMA WriteBytesIs == ASSUME NEW f, Sane(f), Slack(f), NEW p \in Seq(Chars), p # <<>>
  PROVE Wrote(f, WriteBytes(f, p), p) /\ Slack(WriteBytes(f, p))
<1> DEFINE b == BufferOf(DropReadAhead(f))
           g == WriteBytes(f, p)
           i == IntoBuffer(b, p)
<1>1. /\ AsGood(f, b) /\ b.lost = f.lost /\ b.state # "reading" /\ Slack(b)
      /\ IF Buffered(b) THEN b.has ELSE b.state = "empty"
  BY Prepared
<1>2. g = IF Buffered(b) THEN LineOut(i) ELSE RawWrite(b, p) BY DEF WriteBytes
<1> HIDE DEF b, g
<1>3. Sane(b) BY <1>1 DEF AsGood
<1>4. CASE ~Buffered(b)
  <2>1. Wrote(b, g, p) /\ Slack(g) BY <1>1, <1>2, <1>3, <1>4, RawWrote
  <2>2. Wrote(f, g, p) BY <2>1, <1>1, WroteAfter
  <2> QED BY <2>1, <2>2 DEF g
<1>5. CASE Buffered(b)
  <2>1. Wrote(b, i, p) /\ Slack(i) BY <1>1, <1>3, <1>5, IntoBufferIs
  <2> HIDE DEF i
  <2>2. Wrote(f, i, p) BY <2>1, <1>1, WroteAfter
  <2>3. Sane(i) BY <2>1 DEF Wrote
  <2>4. g = i \/ g = Flush(i) BY <1>2, <1>5 DEF LineOut
  <2>5. CASE g = i BY <2>5, <2>1, <2>2 DEF g
  <2>6. CASE g = Flush(i)
    <3>1. AsGood(i, g) /\ Slack(g) /\ (i.lost => g.lost) BY <2>3, <2>6, FlushGood
    <3>2. Wrote(f, g, p) BY <3>1, <2>2, WroteThen
    <3> QED BY <3>1, <3>2 DEF g
  <2> QED BY <2>4, <2>5, <2>6
<1> QED BY <1>4, <1>5

-----------------------------------------------------------------------------
(* Reading: ops_getc, fgets and ops_read with their loops *)

\* What no read touches, and the bytes that reads are to give, one after the other
Fixed(f, g) == /\ g.std = f.std /\ g.readable = f.readable /\ g.writable = f.writable /\ g.append = f.append
               /\ g.hook = f.hook /\ g.term = f.term /\ g.bad = f.bad /\ g.nomem = f.nomem /\ g.open = f.open
Back(f) == IF f.unget = NoChar THEN <<>> ELSE <<f.unget>>
Coming(f) == Back(f) \o SubSeq(View(f), Where(f) + 1, Len(View(f)))
NextAt(f) == f.pos - Unread(f)

\* g is f after some bytes were read, those that were coming, and nothing else changed.
GaveAll(f, g, p) ==
    /\ View(g) = View(f) /\ g.got = f.got \o p /\ Coming(f) = p \o Coming(g)
    /\ Where(g) - Len(Back(g)) = Where(f) - Len(Back(f)) + Len(p)
    /\ g.unget = IF p = <<>> THEN f.unget ELSE NoChar
Reads(f, g) ==
    /\ Sane(g) /\ Fixed(f, g) /\ (f.lost => g.lost) /\ (Slack(f) => Slack(g))
    /\ ~g.lost => \E p \in Seq(Chars) : GaveAll(f, g, p)

LEMMA ComingIs == ASSUME NEW f, Sane(f), ~f.std
  PROVE /\ View(f) \in Seq(Chars) /\ Where(f) \in 0 .. Len(View(f)) /\ Back(f) \in Seq(Chars) /\ Len(Back(f)) \in {0, 1}
        /\ SubSeq(View(f), Where(f) + 1, Len(View(f))) \in Seq(Chars) /\ Coming(f) \in Seq(Chars)
        /\ Len(Coming(f)) = Len(Back(f)) + (Len(View(f)) - Where(f))
        /\ f.state # "writing" => View(f) = f.data /\ Where(f) = NextAt(f)
<1>0. ~f.term BY DEF Sane
<1>1. View(f) \in Seq(Chars) /\ Place(f) <= Len(View(f)) BY ViewIs
<1>2. Place(f) \in Nat /\ Len(View(f)) \in Nat BY <1>1, UnreadIs
<1>3. Where(f) \in 0 .. Len(View(f))
  <2>1. CASE f.state = "writing"
    <3>1. Unread(f) = 0 BY <2>1 DEF Unread
    <3>2. Where(f) = Place(f)
      <4>1. CASE f.append BY <4>1, <2>1 DEF Where
      <4>2. CASE ~f.append
        <5>1. At(f) = f.pos - Unread(f) BY <4>2, <1>0 DEF At
        <5> QED BY <5>1, <4>2 DEF Where, Place
      <4> QED BY <4>1, <4>2
    <3> QED BY <3>2, <1>1, <1>2
  <2>2. CASE f.state # "writing"
    <3>1. View(f) = f.data /\ Where(f) = f.pos - Unread(f) BY <2>2, ViewIs
    <3>2. f.pos - Unread(f) \in 0 .. Len(f.data) BY UnreadIs
    <3> QED BY <3>1, <3>2
  <2> QED BY <2>1, <2>2
<1>4. Back(f) \in Seq(Chars) /\ Len(Back(f)) \in {0, 1}
  <2>1. f.unget \in Chars \cup {NoChar} BY DEF Sane, FileType
  <2>2. CASE f.unget = NoChar BY <2>2 DEF Back
  <2>3. CASE f.unget # NoChar BY <2>1, <2>3, One DEF Back
  <2> QED BY <2>2, <2>3
<1> DEFINE rest == SubSeq(View(f), Where(f) + 1, Len(View(f)))
<1>5. rest \in Seq(Chars) /\ Len(rest) = Len(View(f)) - Where(f)
  <2>1. Where(f) + 1 \in Nat \ {0} /\ Len(View(f)) \in 0 .. Len(View(f)) /\ Where(f) + 1 <= Len(View(f)) + 1 BY <1>2, <1>3
  <2>2. rest \in Seq(Chars) /\ Len(rest) = Len(View(f)) - (Where(f) + 1) + 1 BY <1>1, <2>1, Piece
  <2> HIDE DEF rest
  <2> QED BY <2>2, <1>2, <1>3
<1>6. Coming(f) = Back(f) \o rest BY DEF Coming
<1> HIDE DEF rest
<1>7. Coming(f) \in Seq(Chars) /\ Len(Coming(f)) = Len(Back(f)) + Len(rest) BY <1>4, <1>5, <1>6, ConcatProperties
<1>8. f.state # "writing" => View(f) = f.data /\ Where(f) = NextAt(f) BY ViewIs DEF NextAt
<1>9. Len(Coming(f)) = Len(Back(f)) + (Len(View(f)) - Where(f)) BY <1>5, <1>7
<1> QED BY <1>1, <1>3, <1>4, <1>5, <1>7, <1>8, <1>9 DEF rest

LEMMA Assoc == ASSUME NEW x \in Seq(Chars), NEW y \in Seq(Chars), NEW z \in Seq(Chars) PROVE (x \o y) \o z = x \o (y \o z)
BY ConcatAssociative

LEMMA FixedTwice == ASSUME NEW f, NEW g, NEW h, Fixed(f, g), Fixed(g, h) PROVE Fixed(f, h)
BY DEF Fixed

LEMMA ReadsTwice == ASSUME NEW f, Sane(f), ~f.std, NEW g, NEW h, Reads(f, g), Reads(g, h) PROVE Reads(f, h)
<1>1. Sane(g) /\ Sane(h) /\ Fixed(f, h) /\ (f.lost => h.lost) /\ (Slack(f) => Slack(h))
  <2>1. Fixed(f, h) BY FixedTwice DEF Reads
  <2> QED BY <2>1 DEF Reads
<1>2. ASSUME ~h.lost PROVE \E p \in Seq(Chars) : GaveAll(f, h, p)
  <2>1. ~g.lost BY <1>2 DEF Reads
  <2>2. PICK p \in Seq(Chars) : GaveAll(f, g, p) BY <2>1 DEF Reads
  <2>3. PICK q \in Seq(Chars) : GaveAll(g, h, q) BY <1>2 DEF Reads
  <2>4. ~g.std /\ ~h.std BY DEF Reads, Fixed
  <2>5. f.got \in Seq(Chars) /\ Coming(h) \in Seq(Chars) BY <1>1, <2>4, ComingIs DEF Sane, FileType
  <2> DEFINE r == p \o q
  <2>6. r \in Seq(Chars) /\ Len(r) = Len(p) + Len(q) /\ Len(p) \in Nat /\ Len(q) \in Nat BY ConcatProperties
  <2>7. h.got = f.got \o r
    <3>1. g.got = f.got \o p /\ h.got = g.got \o q BY <2>2, <2>3 DEF GaveAll
    <3> DEFINE c == f.got
    <3>2. c \in Seq(Chars) BY <2>5
    <3> HIDE DEF c
    <3>3. (c \o p) \o q = c \o (p \o q) BY <3>2, Assoc
    <3>4. h.got = (c \o p) \o q BY <3>1 DEF c
    <3>5. h.got = c \o (p \o q) BY <3>3, <3>4
    <3> QED BY <3>5 DEF c
  <2>8. Coming(f) = r \o Coming(h)
    <3>1. Coming(f) = p \o Coming(g) /\ Coming(g) = q \o Coming(h) BY <2>2, <2>3 DEF GaveAll
    <3>2. (p \o q) \o Coming(h) = p \o (q \o Coming(h)) BY <2>5, ConcatAssociative
    <3> QED BY <3>1, <3>2
  <2>9. r = <<>> <=> p = <<>> /\ q = <<>> BY ConcatEqualIffEmpty
  <2> HIDE DEF r
  <2>10. Where(h) - Len(Back(h)) = Where(f) - Len(Back(f)) + Len(r)
    <3>1. Where(h) - Len(Back(h)) = Where(g) - Len(Back(g)) + Len(q) BY <2>3 DEF GaveAll
    <3>2. Where(g) - Len(Back(g)) = Where(f) - Len(Back(f)) + Len(p) BY <2>2 DEF GaveAll
    <3>3. Where(f) \in Int /\ Len(Back(f)) \in Int BY ComingIs
    <3> QED BY <3>1, <3>2, <3>3, <2>6
  <2>11. View(h) = View(f) BY <2>2, <2>3 DEF GaveAll
  <2>12. h.unget = IF r = <<>> THEN f.unget ELSE NoChar
    <3>1. h.unget = IF q = <<>> THEN g.unget ELSE NoChar BY <2>3 DEF GaveAll
    <3>2. g.unget = IF p = <<>> THEN f.unget ELSE NoChar BY <2>2 DEF GaveAll
    <3> QED BY <3>1, <3>2, <2>9
  <2> QED BY <2>6, <2>7, <2>8, <2>10, <2>11, <2>12 DEF GaveAll
<1> QED BY <1>1, <1>2 DEF Reads

\* A change that leaves the bytes where they are gives none.
LEMMA ReadsNone ==
    ASSUME NEW f, Sane(f), ~f.std, NEW g, AsGood(f, g), f.lost => g.lost, Slack(f) => Slack(g)
    PROVE  Reads(f, g)
<1>1. Sane(g) /\ Fixed(f, g) /\ g.unget = f.unget /\ g.got = f.got BY DEF AsGood, Alike, Fixed
<1>2. ASSUME ~g.lost PROVE GaveAll(f, g, <<>>)
  <2>1. View(g) = View(f) /\ Where(g) = Where(f) BY <1>2 DEF AsGood
  <2>2. Back(g) = Back(f) BY <1>1 DEF Back
  <2>3. Coming(g) = Coming(f) BY <2>1, <2>2 DEF Coming
  <2>4. f.got \in Seq(Chars) /\ Coming(f) \in Seq(Chars) BY ComingIs DEF Sane, FileType
  <2>5. f.got = f.got \o <<>> /\ Coming(f) = <<>> \o Coming(f) BY <2>4, ConcatEmptySeq
  <2>6. Len(<<>>) = 0 /\ Where(f) \in Int /\ Len(Back(f)) \in Int BY ComingIs
  <2> QED BY <1>1, <2>1, <2>2, <2>3, <2>5, <2>6 DEF GaveAll
<1>3. <<>> \in Seq(Chars) OBVIOUS
<1> QED BY <1>1, <1>2, <1>3 DEF Reads

LEMMA Reflexive == ASSUME NEW f, Sane(f), ~f.std PROVE Reads(f, f)
<1>1. AsGood(f, f) BY DEF AsGood, Alike, SameFate
<1> QED BY <1>1, ReadsNone

\* The next k bytes of the medium, with nothing pushed back
LEMMA TookIs ==
    ASSUME NEW f, Sane(f), ~f.std, f.state # "writing", f.unget = NoChar,
           NEW g, Sane(g), Fixed(f, g), g.state # "writing", g.data = f.data, g.lost = f.lost, g.unget = NoChar,
           NEW k \in Nat, NextAt(f) + k <= Len(f.data), NextAt(g) = NextAt(f) + k,
           g.got = f.got \o SubSeq(f.data, NextAt(f) + 1, NextAt(f) + k)
    PROVE  Reads(f, g)
<1> DEFINE d == f.data
           a == NextAt(f)
           p == SubSeq(d, a + 1, a + k)
<1>0. ~g.std BY DEF Fixed
<1>1. d \in Seq(Chars) /\ Len(d) \in Nat BY DEF Sane, FileType
<1>2. a \in 0 .. Len(d) BY UnreadIs DEF NextAt
<1>3. View(f) = d /\ Where(f) = a /\ View(g) = d /\ Where(g) = a + k BY <1>0, ComingIs
<1>4. Back(f) = <<>> /\ Back(g) = <<>> /\ Len(<<>>) = 0 BY DEF Back
<1> HIDE DEF d, a
<1>5. p \in Seq(Chars) /\ Len(p) = k
  <2>1. a + 1 \in Nat \ {0} /\ a + k \in 0 .. Len(d) /\ a + 1 <= a + k + 1 /\ a + k - (a + 1) + 1 = k BY SMTT(30), <1>1, <1>2 DEF a, d
  <2> DEFINE i == a + 1
             j == a + k
  <2>4. p = SubSeq(d, i, j) OBVIOUS
  <2> HIDE DEF p
  <2>2. i \in Nat \ {0} /\ j \in 0 .. Len(d) /\ i <= j + 1 /\ j - i + 1 = k BY <2>1, <1>2
  <2> HIDE DEF i, j
  <2>3. p \in Seq(Chars) /\ Len(p) = j - i + 1 BY <2>2, <2>4, <1>1, Piece
  <2> QED BY <2>2, <2>3
<1>6. p \o SubSeq(d, a + k + 1, Len(d)) = SubSeq(d, a + 1, Len(d))
  <2>1. a + 1 \in 1 .. Len(d) + 1 /\ a + k \in (a + 1) - 1 .. Len(d) /\ Len(d) \in a + k .. Len(d) BY <1>1, <1>2 DEF a, d
  <2> QED BY <2>1, <1>1, ConcatAdjacentSubSeq
<1>7. SubSeq(d, a + 1, Len(d)) \in Seq(Chars) /\ SubSeq(d, a + k + 1, Len(d)) \in Seq(Chars)
  <2>1. f.state # "writing" => SubSeq(View(f), Where(f) + 1, Len(View(f))) \in Seq(Chars) BY ComingIs
  <2>2. SubSeq(View(g), Where(g) + 1, Len(View(g))) \in Seq(Chars) BY <1>0, ComingIs
  <2> QED BY <2>1, <2>2, <1>3
<1>8. Coming(f) = SubSeq(d, a + 1, Len(d)) /\ Coming(g) = SubSeq(d, a + k + 1, Len(d))
  BY <1>3, <1>4, <1>7, ConcatEmptySeq DEF Coming
<1>9. Coming(f) = p \o Coming(g) BY <1>6, <1>8
<1>10. g.got = f.got \o p BY DEF a, d
<1> HIDE DEF p
<1>11. Where(g) - Len(Back(g)) = Where(f) - Len(Back(f)) + Len(p) BY <1>2, <1>3, <1>4, <1>5
<1>12. GaveAll(f, g, p) BY <1>3, <1>9, <1>10, <1>11 DEF GaveAll
<1>13. Slack(g) BY DEF Slack
<1> QED BY <1>5, <1>12, <1>13 DEF Reads

LEMMA FlushReads == ASSUME NEW f, Sane(f), ~f.std
  PROVE LET g == Flush(f)
        IN Reads(f, g) /\ g.unget = f.unget /\ g.got = f.got /\ g.state # "writing"
<1> DEFINE g == Flush(f)
<1>1. AsGood(f, g) /\ Slack(g) /\ (f.lost => g.lost) /\ g.state # "writing" BY FlushGood
<1>2. g.unget = f.unget /\ g.got = f.got BY <1>1 DEF AsGood, Alike
<1> QED BY <1>1, <1>2, ReadsNone

LEMMA UngetReads == ASSUME NEW f, Sane(f), ~f.std, f.unget # NoChar
  PROVE LET g == FromUnget(f)
        IN Reads(f, g) /\ g.unget = NoChar /\ g.got = f.got \o <<f.unget>> /\ g.state = f.state /\ SameFate(f, g)
<1> DEFINE g == FromUnget(f)
           p == <<f.unget>>
           y == f.got \o p
<1>0. f \in FileType /\ f.unget \in Chars /\ f.got \in Seq(Chars) BY DEF Sane, FileType
<1>1. p \in Seq(Chars) /\ p # <<>> /\ Len(p) = 1 BY <1>0, One
<1>2. g = [f EXCEPT !.unget = NoChar, !.got = y] BY <1>0 DEF FromUnget, Gave, FileType
<1>3. y \in Seq(Chars) BY <1>0, <1>1, ConcatProperties
<1> HIDE DEF y, p
<1>4. /\ g.unget = NoChar /\ g.got = y /\ g.data = f.data /\ g.pos = f.pos /\ g.buf = f.buf /\ g.buf_pos = f.buf_pos
      /\ g.state = f.state
  BY <1>0, <1>2 DEF FileType
<1>5. Fixed(f, g) BY <1>0, <1>2 DEF Fixed, FileType
<1>6. SameBuffer(f, g) BY <1>0, <1>2 DEF SameBuffer, FileType
<1>7. SameFate(f, g) BY <1>0, <1>2 DEF SameFate, FileType
<1>8. g \in FileType BY ZenonT(60), <1>0, <1>2, <1>3 DEF FileType
<1> HIDE DEF g
<1>9. Sane(g) /\ ~g.std BY <1>4, <1>5, <1>6, <1>8 DEF Sane, Fixed, SameBuffer, ReadAhead
<1>10. Unread(g) = Unread(f) /\ Pending(g) = Pending(f) BY <1>4 DEF Unread, Pending
<1>11. At(g) = At(f) BY <1>4, <1>5, <1>10 DEF At, Fixed
<1>12. View(g) = View(f) /\ Where(g) = Where(f) BY <1>4, <1>5, <1>10, <1>11 DEF View, Where, Place, Fixed
<1>13. Back(g) = <<>> /\ Back(f) = p /\ Len(<<>>) = 0 BY <1>4 DEF Back, p
<1> DEFINE rest == SubSeq(View(f), Where(f) + 1, Len(View(f)))
<1>14. rest \in Seq(Chars) /\ Where(f) \in Int BY ComingIs
<1>15. Coming(f) = p \o rest /\ Coming(g) = <<>> \o rest BY <1>12, <1>13 DEF Coming
<1>16. Coming(f) = p \o Coming(g) BY <1>14, <1>15, ConcatEmptySeq
<1>17. Where(g) - Len(Back(g)) = Where(f) - Len(Back(f)) + Len(p)
  <2>1. Len(Back(g)) = 0 /\ Len(Back(f)) = 1 /\ Len(p) = 1 BY <1>1, <1>13
  <2>2. Where(g) = Where(f) BY <1>12
  <2> QED BY <2>1, <2>2, <1>14
<1>18. GaveAll(f, g, p) BY <1>1, <1>4, <1>12, <1>16, <1>17 DEF GaveAll, y
<1>19. Slack(f) => Slack(g) BY <1>4, <1>6 DEF Slack, SameBuffer
<1>20. f.lost => g.lost BY <1>7 DEF SameFate
<1> QED BY <1>1, <1>4, <1>5, <1>7, <1>9, <1>18, <1>19, <1>20 DEF Reads, g, y, p

LEMMA AtEnd == ASSUME NEW f, Sane(f), ~f.std, f.state # "writing", f.unget = NoChar, NextAt(f) = Len(f.data) PROVE Coming(f) = <<>>
<1>1. View(f) = f.data /\ Where(f) = NextAt(f) /\ Back(f) = <<>> BY ComingIs DEF Back
<1>2. Coming(f) \in Seq(Chars) /\ Len(Coming(f)) = Len(Back(f)) + (Len(View(f)) - Where(f)) /\ Len(View(f)) \in Nat BY ComingIs
<1>3. Len(Back(f)) = 0 /\ Len(View(f)) = Where(f) BY <1>1
<1>4. Len(Coming(f)) = 0 BY <1>2, <1>3
<1> QED BY <1>2, <1>4

LEMMA BufferReads == ASSUME NEW f, Sane(f), ~f.std, f.state # "writing"
  PROVE LET b == BufferOf(f)
        IN  /\ Reads(f, b) /\ b.unget = f.unget /\ b.got = f.got /\ b.state = f.state /\ Unread(b) = Unread(f)
            /\ IF Buffered(b) THEN b.has ELSE b.state = "empty"
<1> DEFINE b == BufferOf(f)
<1>1. /\ Sane(b) /\ Alike(f, b) /\ SameFate(f, b) /\ b.state = f.state /\ Unread(b) = Unread(f)
      /\ IF Buffered(b) THEN b.has ELSE b.state = "empty"
      /\ View(b) = View(f) /\ Place(b) = Place(f) /\ Where(b) = Where(f)
  BY BufferOfIs
<1> HIDE DEF b
<1>2. AsGood(f, b) /\ (f.lost => b.lost) BY <1>1 DEF AsGood, SameFate
<1>3. Slack(b) BY <1>1 DEF Slack
<1>4. Reads(f, b) BY <1>2, <1>3, ReadsNone
<1>5. b.unget = f.unget /\ b.got = f.got BY <1>1 DEF Alike
<1> QED BY <1>1, <1>4, <1>5 DEF b

LEMMA EmptiedReads == ASSUME NEW f, Sane(f), ~f.std, f.state # "writing", Unread(f) = 0
  PROVE LET g == Emptied(f)
        IN Reads(f, g) /\ g.unget = f.unget /\ g.got = f.got /\ g.state = "empty" /\ Unread(g) = 0
<1> DEFINE g == Emptied(f)
<1>1. /\ Sane(g) /\ Alike(f, g) /\ SameFate(f, g) /\ g.state = "empty" /\ Unread(g) = 0
      /\ g.data = f.data /\ g.pos = f.pos
  BY EmptiedIs
<1> HIDE DEF g
<1>2. View(g) = View(f) /\ Where(g) = Where(f) /\ Place(g) = Place(f)
  <2>1. View(g) = f.data /\ Place(g) = At(g) /\ Where(g) = f.pos - 0 BY <1>1, ViewIs
  <2>2. View(f) = f.data /\ Place(f) = At(f) /\ Where(f) = f.pos - 0 BY ViewIs
  <2>3. At(f) = At(g) BY <1>1 DEF At, Alike
  <2> QED BY <2>1, <2>2, <2>3
<1>3. AsGood(f, g) /\ (f.lost => g.lost) BY <1>1, <1>2 DEF AsGood, SameFate
<1>4. Slack(g) BY <1>1 DEF Slack
<1>5. Reads(f, g) BY <1>3, <1>4, ReadsNone
<1>6. g.unget = f.unget /\ g.got = f.got BY <1>1 DEF Alike
<1> QED BY <1>1, <1>5, <1>6 DEF g

LEMMA FromBufferIs == ASSUME NEW f, Sane(f), ~f.std, f.state # "writing", f.unget = NoChar, NEW n \in Nat
  PROVE LET g == FromBuffer(f, n)
        IN  /\ Reads(f, g) /\ g.unget = NoChar /\ g.state = f.state
            /\ Len(g.got) = Len(f.got) + Fewer(n, Unread(f)) /\ (Unread(f) = 0 => g = f)
<1> DEFINE part == Fewer(n, Unread(f))
           b == f.buf_pos
           q == SubSeq(f.buf, b + 1, b + part)
           y == f.got \o q
           g == FromBuffer(f, n)
<1>0. /\ f \in FileType /\ f.buf \in Seq(Chars) /\ f.data \in Seq(Chars) /\ f.got \in Seq(Chars) /\ f.pos \in Nat /\ b \in Nat
      /\ b <= Len(f.buf) /\ Len(f.buf) \in Nat /\ Len(f.data) \in Nat /\ f.pos <= Len(f.data)
  BY DEF Sane, FileType
<1>1. Unread(f) \in Nat /\ NextAt(f) \in 0 .. Len(f.data) BY UnreadIs DEF NextAt
<1>2. part \in 0 .. Unread(f) /\ part \in Nat BY <1>1 DEF Fewer
<1>3. Unread(f) = IF f.state = "reading" THEN Len(f.buf) - b ELSE 0 BY DEF Unread
<1>4. b + part <= Len(f.buf) /\ b + part \in Nat BY <1>0, <1>2, <1>3
<1>5. g = [f EXCEPT !.buf_pos = b + part, !.got = y] BY <1>0 DEF FromBuffer, Gave, FileType
<1> HIDE DEF part
<1>6. q \in Seq(Chars) /\ Len(q) = part /\ \A m \in 1 .. part : q[m] = f.buf[b + m]
  <2> DEFINE i == b + 1
             j == b + part
  <2>4. q = SubSeq(f.buf, i, j) OBVIOUS
  <2> HIDE DEF q
  <2>2. i \in Nat \ {0} /\ j \in 0 .. Len(f.buf) /\ i <= j + 1 /\ j - i + 1 = part /\ \A m \in 1 .. part : i + m - 1 = b + m
    BY SMTT(30), <1>0, <1>2, <1>4
  <2> HIDE DEF i, j, b
  <2>3. q \in Seq(Chars) /\ Len(q) = j - i + 1 /\ \A m \in 1 .. j - i + 1 : q[m] = f.buf[i + m - 1] BY <2>2, <2>4, <1>0, Piece
  <2> QED BY <2>2, <2>3
<1>7. y \in Seq(Chars) /\ Len(y) = Len(f.got) + part
  <2>1. q \in Seq(Chars) /\ Len(q) = part BY <1>6
  <2>2. f.got \in Seq(Chars) BY <1>0
  <2> HIDE DEF q
  <2> QED BY <2>1, <2>2, ConcatProperties
<1> HIDE DEF y
<1>8. /\ g.buf_pos = b + part /\ g.got = y /\ g.data = f.data /\ g.pos = f.pos /\ g.buf = f.buf /\ g.state = f.state /\ g.unget = f.unget
  BY <1>0, <1>5 DEF FileType
<1>9. Fixed(f, g) BY <1>0, <1>5 DEF Fixed, FileType
<1>10. SameBuffer(f, g) BY <1>0, <1>5 DEF SameBuffer, FileType
<1>11. SameFate(f, g) BY <1>0, <1>5 DEF SameFate, FileType
<1>12. g \in FileType BY ZenonT(60), <1>0, <1>4, <1>5, <1>7 DEF FileType
<1> HIDE DEF g
<1>13. f.state # "reading" => g.buf_pos = 0
  <2>1. f.state # "reading" => b = 0 /\ part = 0 BY <1>2, <1>3 DEF Sane
  <2> QED BY <2>1, <1>8
<1>14. Sane(g)
  <2>1. g.buf_pos <= Len(g.buf) BY <1>4, <1>8
  <2> QED BY <2>1, <1>8, <1>9, <1>10, <1>12, <1>13 DEF Sane, Fixed, SameBuffer, ReadAhead
<1>15. NextAt(g) = NextAt(f) + part
  <2>1. Unread(g) = IF f.state = "reading" THEN Len(f.buf) - (b + part) ELSE 0 BY <1>8 DEF Unread
  <2>2. NextAt(g) = f.pos - Unread(g) /\ NextAt(f) = f.pos - Unread(f) BY <1>8 DEF NextAt
  <2> QED BY <2>1, <2>2, <1>0, <1>2, <1>3
<1>16. NextAt(f) + part <= Len(f.data)
  <2>1. NextAt(f) = f.pos - Unread(f) BY DEF NextAt
  <2> QED BY <2>1, <1>0, <1>1, <1>2
<1> DEFINE a == NextAt(f)
           w == SubSeq(f.data, a + 1, a + part)
<1>17. w \in Seq(Chars) /\ Len(w) = part /\ \A m \in 1 .. part : w[m] = f.data[a + m]
  <2> DEFINE i == a + 1
             j == a + part
  <2>4. w = SubSeq(f.data, i, j) OBVIOUS
  <2>1. a \in 0 .. Len(f.data) /\ a + part <= Len(f.data) BY <1>1, <1>16
  <2> HIDE DEF w, a
  <2>2. i \in Nat \ {0} /\ j \in 0 .. Len(f.data) /\ i <= j + 1 /\ j - i + 1 = part /\ \A m \in 1 .. part : i + m - 1 = a + m
    BY <2>1, <1>0, <1>2
  <2> HIDE DEF i, j
  <2>3. w \in Seq(Chars) /\ Len(w) = j - i + 1 /\ \A m \in 1 .. j - i + 1 : w[m] = f.data[i + m - 1] BY <2>2, <2>4, <1>0, Piece
  <2> QED BY <2>2, <2>3
<1> HIDE DEF q, w
<1>18. q = w
  <2>1. ASSUME NEW m \in 1 .. Len(q) PROVE q[m] = w[m]
    <3>1. m \in 1 .. part BY <1>6
    <3>2. f.state = "reading" BY <3>1, <1>2, <1>3
    <3>3. \A i \in 1 .. Len(f.buf) : f.buf[i] = f.data[f.pos - Len(f.buf) + i] BY <3>2 DEF Sane, ReadAhead
    <3>4. b + m \in 1 .. Len(f.buf) /\ f.pos - Len(f.buf) + (b + m) = a + m
      <4>1. a = f.pos - (Len(f.buf) - b) BY <3>2 DEF NextAt, Unread
      <4> HIDE DEF a, b
      <4> QED BY SMTT(30), <4>1, <3>1, <1>0, <1>2, <1>4
    <3>5. f.buf[b + m] = f.data[a + m] BY <3>3, <3>4
    <3> QED BY <3>1, <3>5, <1>6, <1>17
  <2> QED BY <2>1, <1>6, <1>17, SameSeq
<1>19. g.got = f.got \o w BY <1>8, <1>18 DEF y
<1>20. Reads(f, g)
  <2>1. g.state # "writing" /\ g.lost = f.lost /\ g.unget = NoChar BY <1>8, <1>11 DEF SameFate
  <2> QED BY <2>1, <1>2, <1>8, <1>9, <1>14, <1>15, <1>16, <1>19, TookIs DEF w
<1>21. ASSUME Unread(f) = 0 PROVE g = f
  <2>1. part = 0 /\ Len(q) = 0 BY <1>21, <1>2, <1>6
  <2>2. q = <<>> BY <2>1, <1>6
  <2>3. y = f.got BY <2>2, <1>0, ConcatEmptySeq DEF y
  <2>4. b + part = b BY <2>1, <1>0
  <2>5. g = [f EXCEPT !.buf_pos = b, !.got = f.got] BY <1>5, <2>3, <2>4 DEF g
  <2> QED BY <2>5, <1>0 DEF FileType
<1> QED BY <1>7, <1>8, <1>20, <1>21 DEF g, part

\* What the medium has from some place on
LEMMA MediumIs == ASSUME NEW f, Sane(f), NEW n \in Nat
  PROVE LET p == MediumRead(f, n)
            k == IF f.pos + n <= Len(f.data) THEN n ELSE Len(f.data) - f.pos
        IN  /\ k \in Nat /\ k <= n /\ p = SubSeq(f.data, f.pos + 1, f.pos + k) /\ p \in Seq(Chars) /\ Len(p) = k
            /\ \A m \in 1 .. k : p[m] = f.data[f.pos + m]
            /\ f.pos + k <= Len(f.data) /\ (p = <<>> /\ n > 0 => f.pos = Len(f.data))
<1> DEFINE p == MediumRead(f, n)
           k == IF f.pos + n <= Len(f.data) THEN n ELSE Len(f.data) - f.pos
           a == f.pos
           i == a + 1
           j == a + k
<1>0. f.data \in Seq(Chars) /\ a \in Nat /\ Len(f.data) \in Nat /\ a <= Len(f.data) BY DEF Sane, FileType
<1>1. k \in Nat /\ k <= n /\ a + k <= Len(f.data) /\ (k = 0 /\ n > 0 => a = Len(f.data)) BY <1>0
<1>8. j = Fewer(a + n, Len(f.data)) BY <1>0 DEF Fewer
<1>2. p = SubSeq(f.data, i, j)
  <2> HIDE DEF j
  <2> QED BY <1>8 DEF MediumRead
<1> HIDE DEF p, k, a
<1>3. i \in Nat \ {0} /\ j \in 0 .. Len(f.data) /\ i <= j + 1 /\ j - i + 1 = k /\ \A m \in 1 .. k : i + m - 1 = a + m BY <1>0, <1>1
<1>7. p = SubSeq(f.data, a + 1, a + k) BY <1>2
<1> HIDE DEF i, j
<1>4. p \in Seq(Chars) /\ Len(p) = j - i + 1 /\ \A m \in 1 .. j - i + 1 : p[m] = f.data[i + m - 1] BY <1>0, <1>2, <1>3, Piece
<1>5. p \in Seq(Chars) /\ Len(p) = k /\ \A m \in 1 .. k : p[m] = f.data[a + m] BY <1>3, <1>4
<1>6. p = <<>> => k = 0
  <2>1. p = <<>> => Len(p) = 0 OBVIOUS
  <2> QED BY <2>1, <1>5
<1> QED BY <1>1, <1>5, <1>6, <1>7 DEF p, a, k

LEMMA DirectIs == ASSUME NEW f, Sane(f), ~f.std, f.state = "empty", f.unget = NoChar, NEW n \in Nat
  PROVE LET g == Direct(f, n)
        IN  /\ Reads(f, g) /\ g.unget = NoChar /\ g.state = "empty" /\ g.lost = f.lost
            /\ Len(g.got) \in Len(f.got) .. Len(f.got) + n
            /\ (g.got = f.got /\ n > 0 => g.error \/ Coming(g) = <<>>)
            /\ (g.got # f.got => Len(g.got) > Len(f.got))
<1> DEFINE p == MediumRead(f, n)
           k == IF f.pos + n <= Len(f.data) THEN n ELSE Len(f.data) - f.pos
           y == f.got \o p
           to == f.pos + Len(p)
           g == Direct(f, n)
<1>0. f \in FileType /\ f.data \in Seq(Chars) /\ f.got \in Seq(Chars) /\ f.pos \in Nat /\ Len(f.data) \in Nat /\ Len(f.got) \in Nat
  BY DEF Sane, FileType
<1>1. CASE ReadFails(f)
  <2>1. g = [f EXCEPT !.error = TRUE] BY <1>1 DEF Direct
  <2>2. /\ g.error = TRUE /\ g.got = f.got /\ g.data = f.data /\ g.pos = f.pos /\ g.buf = f.buf /\ g.buf_pos = f.buf_pos
        /\ g.state = f.state /\ g.unget = f.unget /\ g.lost = f.lost
    BY <1>0, <2>1 DEF FileType
  <2>3. Fixed(f, g) BY <1>0, <2>1 DEF FileType, Fixed
  <2>4. SameBuffer(f, g) BY <1>0, <2>1 DEF FileType, SameBuffer
  <2>5. g \in FileType BY ZenonT(60), <1>0, <2>1 DEF FileType
  <2> HIDE DEF g
  <2>6. Sane(g) BY <2>2, <2>3, <2>4, <2>5 DEF Sane, Fixed, SameBuffer
  <2>7. NextAt(f) = f.pos /\ NextAt(g) = f.pos + 0
    <3>1. Unread(f) = 0 /\ Unread(g) = 0 BY <2>2 DEF Unread
    <3> QED BY <3>1, <2>2, <1>0 DEF NextAt
  <2>8. g.got = f.got \o SubSeq(f.data, f.pos + 1, f.pos + 0)
    <3>1. SubSeq(f.data, f.pos + 1, f.pos + 0) = <<>> BY <1>0, SubSeqEmpty
    <3> QED BY <3>1, <2>2, <1>0, ConcatEmptySeq
  <2>9. f.pos + 0 <= Len(f.data) BY <1>0 DEF Sane
  <2>10. Reads(f, g) BY <2>2, <2>3, <2>6, <2>7, <2>8, <2>9, TookIs
  <2> QED BY <2>2, <2>10, <1>0 DEF g
<1>2. CASE ~ReadFails(f)
  <2>1. /\ k \in Nat /\ k <= n /\ p = SubSeq(f.data, f.pos + 1, f.pos + k) /\ p \in Seq(Chars) /\ Len(p) = k
        /\ f.pos + k <= Len(f.data) /\ (p = <<>> /\ n > 0 => f.pos = Len(f.data))
    BY MediumIs
  <2> HIDE DEF k, p
  <2>16. k \in Nat /\ k <= n /\ f.pos + k <= Len(f.data) /\ Len(p) = k BY <2>1
  <2>17. p \in Seq(Chars) /\ f.got \in Seq(Chars) /\ f.pos \in Nat /\ Len(f.got) \in Nat /\ Len(f.data) \in Nat BY <1>0, <2>1
  <2>2. y \in Seq(Chars) /\ Len(y) = Len(f.got) + k
    <3>1. y \in Seq(Chars) /\ Len(y) = Len(f.got) + Len(p) BY <2>17, ConcatProperties
    <3> QED BY <3>1, <2>16
  <2>3. to \in Nat /\ to = f.pos + k BY <2>16, <2>17
  <2>4. g = [f EXCEPT !.pos = to, !.got = y] BY <1>0, <1>2 DEF Direct, Gave, FileType, p
  <2> HIDE DEF y, to
  <2>5. /\ g.got = y /\ g.data = f.data /\ g.pos = to /\ g.buf = f.buf /\ g.buf_pos = f.buf_pos
        /\ g.state = f.state /\ g.unget = f.unget /\ g.lost = f.lost
    BY <1>0, <2>4 DEF FileType
  <2>6. Fixed(f, g) BY <1>0, <2>4 DEF FileType, Fixed
  <2>7. SameBuffer(f, g) BY <1>0, <2>4 DEF FileType, SameBuffer
  <2>8. g \in FileType BY ZenonT(60), <1>0, <2>2, <2>3, <2>4 DEF FileType
  <2> HIDE DEF g
  <2>9. Sane(g)
    <3>1. g.pos <= Len(g.data) BY <2>1, <2>3, <2>5
    <3> QED BY <3>1, <2>5, <2>6, <2>7, <2>8 DEF Sane, Fixed, SameBuffer
  <2>10. NextAt(f) = f.pos /\ NextAt(g) = f.pos + k
    <3>1. Unread(f) = 0 /\ Unread(g) = 0 BY <2>5 DEF Unread
    <3>2. NextAt(f) = f.pos - 0 /\ NextAt(g) = g.pos - 0 BY <3>1 DEF NextAt
    <3> QED BY <3>2, <2>3, <2>5, <2>16, <2>17
  <2>11. g.got = f.got \o SubSeq(f.data, f.pos + 1, f.pos + k) BY <2>1, <2>5 DEF y
  <2>12. Reads(f, g) BY <2>1, <2>5, <2>6, <2>9, <2>10, <2>11, TookIs
  <2>13. ASSUME g.got = f.got, n > 0 PROVE Coming(g) = <<>>
    <3>1. f.got \o p = f.got BY <2>13, <2>5 DEF y
    <3>2. p = <<>>
      <4> DEFINE c == f.got
      <4>1. c \in Seq(Chars) /\ c \o p = c BY <2>17, <3>1
      <4> HIDE DEF c
      <4> QED BY <4>1, <2>17, ConcatEqualIffEmpty
    <3>3. f.pos = Len(f.data) /\ k = 0 BY <3>2, <2>1, <2>13
    <3>4. NextAt(g) = Len(g.data) BY <3>3, <2>5, <2>10, <1>0
    <3>5. ~g.std BY <2>6 DEF Fixed
    <3> QED BY <3>4, <3>5, <2>5, <2>9, AtEnd
  <2>14. ASSUME g.got # f.got PROVE Len(g.got) > Len(f.got)
    <3>1. p # <<>> BY <2>14, <2>5, <1>0, ConcatEmptySeq DEF y
    <3>2. Len(p) > 0 BY <3>1, <2>17
    <3>3. Len(g.got) = Len(f.got) + k BY <2>2, <2>5
    <3> QED BY <3>2, <3>3, <2>16, <2>17
  <2>15. Len(g.got) \in Len(f.got) .. Len(f.got) + n
    <3>3. Len(g.got) = Len(f.got) + k BY <2>2, <2>5
    <3> QED BY <3>3, <2>16, <2>17
  <2> QED BY <2>5, <2>12, <2>13, <2>14, <2>15 DEF g
<1> QED BY <1>1, <1>2

LEMMA FillFits == ASSUME NEW f \in FileType, NEW p \in Seq(Chars), NEW to \in Nat
  PROVE [f EXCEPT !.state = "reading", !.buf = p, !.buf_pos = 0, !.pos = to] \in FileType
BY DEF FileType

LEMMA FilledIs == ASSUME NEW f, Sane(f), ~f.std, f.state # "writing", f.unget = NoChar, f.has, Unread(f) = 0
  PROVE LET g == Filled(f)
        IN  /\ Reads(f, g) /\ g.unget = NoChar /\ g.state # "writing" /\ g.got = f.got /\ g.lost = f.lost
            /\ (Unread(g) = 0 => g.error \/ Coming(g) = <<>>)
<1> DEFINE n == f.buf_size
           p == MediumRead(f, n)
           k == IF f.pos + n <= Len(f.data) THEN n ELSE Len(f.data) - f.pos
           to == f.pos + Len(p)
           g == Filled(f)
<1>0. /\ f \in FileType /\ f.data \in Seq(Chars) /\ f.got \in Seq(Chars) /\ f.pos \in Nat /\ Len(f.data) \in Nat /\ n \in Nat /\ n > 0
      /\ f.pos <= Len(f.data)
  BY DEF Sane, FileType
<1>1. /\ k \in Nat /\ k <= n /\ p = SubSeq(f.data, f.pos + 1, f.pos + k) /\ p \in Seq(Chars) /\ Len(p) = k
      /\ \A m \in 1 .. k : p[m] = f.data[f.pos + m]
      /\ f.pos + k <= Len(f.data) /\ (p = <<>> /\ n > 0 => f.pos = Len(f.data))
  BY <1>0, MediumIs
<1> HIDE DEF k
<1>2. CASE ReadFails(f) \/ p = <<>>
  <2> DEFINE m == Emptied(f)
             er == f.error \/ ReadFails(f)
  <2>1. Reads(f, m) /\ m.unget = f.unget /\ m.got = f.got /\ m.state = "empty" /\ Unread(m) = 0 BY EmptiedReads
  <2>2. Sane(m) /\ SameFate(f, m) /\ m.data = f.data /\ m.pos = f.pos BY EmptiedIs
  <2>3. g = [m EXCEPT !.error = er]
    <3>1. m.error = f.error BY <2>2 DEF SameFate
    <3> QED BY <3>1, <1>2 DEF Filled
  <2>4. er \in BOOLEAN OBVIOUS
  <2>5. m \in FileType /\ ~m.std BY <2>1, <2>2 DEF Sane, Reads, Fixed
  <2> HIDE DEF m, er
  <2>6. /\ g.error = er /\ g.got = m.got /\ g.data = m.data /\ g.pos = m.pos /\ g.buf = m.buf /\ g.buf_pos = m.buf_pos
        /\ g.state = m.state /\ g.unget = m.unget /\ g.lost = m.lost
    BY <2>3, <2>5 DEF FileType
  <2>7. Fixed(m, g) BY <2>3, <2>5 DEF FileType, Fixed
  <2>8. SameBuffer(m, g) BY <2>3, <2>5 DEF FileType, SameBuffer
  <2>9. g \in FileType BY ZenonT(60), <2>3, <2>4, <2>5 DEF FileType
  <2> HIDE DEF g
  <2>10. Sane(g) BY <2>1, <2>2, <2>6, <2>7, <2>8, <2>9 DEF Sane, Fixed, SameBuffer
  <2>11. Unread(g) = 0 BY <2>1, <2>6 DEF Unread
  <2>12. NextAt(m) = m.pos /\ NextAt(g) = m.pos + 0 BY <2>1, <2>2, <2>6, <2>11, <1>0 DEF NextAt
  <2>13. g.got = m.got \o SubSeq(m.data, m.pos + 1, m.pos + 0)
    <3>1. SubSeq(m.data, m.pos + 1, m.pos + 0) = <<>> BY <1>0, <2>2, SubSeqEmpty
    <3> QED BY <3>1, <2>1, <2>6, <1>0, ConcatEmptySeq
  <2>14. m.pos + 0 <= Len(m.data) BY <1>0, <2>2
  <2>15. Reads(m, g) BY ZenonT(60), <2>1, <2>2, <2>5, <2>6, <2>7, <2>10, <2>12, <2>13, <2>14, TookIs
  <2>16. Reads(f, g) BY <2>1, <2>15, ReadsTwice
  <2>17. g.error \/ Coming(g) = <<>>
    <3>1. CASE ReadFails(f) BY <3>1, <2>6 DEF er
    <3>2. CASE p = <<>>
      <4>1. f.pos = Len(f.data) BY <3>2, <1>0, <1>1
      <4>2. NextAt(g) = Len(g.data) BY <4>1, <2>2, <2>6, <2>12, <1>0
      <4>3. ~g.std BY <2>5, <2>7 DEF Fixed
      <4> QED BY <4>2, <4>3, <2>1, <2>6, <2>10, AtEnd
    <3> QED BY <3>1, <3>2, <1>2
  <2>18. g.lost = f.lost BY <2>2, <2>6 DEF SameFate
  <2> QED BY <2>1, <2>6, <2>16, <2>17, <2>18 DEF g
<1>3. CASE ~(ReadFails(f) \/ p = <<>>)
  <2>1. g = [f EXCEPT !.state = "reading", !.buf = p, !.buf_pos = 0, !.pos = to] BY <1>0, <1>3 DEF Filled, FileType
  <2>3. p # <<>> BY <1>3
  <2>16. k \in Nat /\ f.pos + k <= Len(f.data) /\ Len(p) = k BY <1>1
  <2>17. p \in Seq(Chars) /\ f.pos \in Nat /\ Len(f.data) \in Nat BY <1>0, <1>1
  <2> HIDE DEF p
  <2>2. to = f.pos + k /\ to \in Nat BY <2>16, <2>17
  <2> HIDE DEF to
  <2>4. k > 0 BY <2>3, <1>1
  <2>5. /\ g.got = f.got /\ g.data = f.data /\ g.pos = to /\ g.buf = p /\ g.buf_pos = 0
        /\ g.state = "reading" /\ g.unget = f.unget /\ g.lost = f.lost
    BY <1>0, <2>1 DEF FileType
  <2>6. Fixed(f, g) BY <1>0, <2>1 DEF FileType, Fixed
  <2>7. SameBuffer(f, g) BY <1>0, <2>1 DEF FileType, SameBuffer
  <2>8. g \in FileType
    <3>1. f \in FileType /\ p \in Seq(Chars) /\ to \in Nat BY <1>0, <2>2, <2>17
    <3> HIDE DEF g, n
    <3> QED BY <3>1, <2>1, FillFits
  <2> HIDE DEF g
  <2>9. ReadAhead(g)
    <3>1. g.pos >= Len(g.buf) BY <2>2, <2>5, <2>16, <2>17
    <3>2. ASSUME NEW i \in 1 .. Len(g.buf) PROVE g.buf[i] = g.data[g.pos - Len(g.buf) + i]
      <4>1. i \in 1 .. k /\ g.pos - Len(g.buf) + i = f.pos + i BY <2>2, <2>5, <2>16, <2>17
      <4> QED BY <4>1, <1>1, <2>5
    <3> QED BY <3>1, <3>2 DEF ReadAhead
  <2>10. Sane(g)
    <3>1. g.pos <= Len(g.data) /\ g.buf_pos <= Len(g.buf) BY <2>2, <2>5, <2>16, <2>17
    <3> QED BY <3>1, <2>5, <2>6, <2>7, <2>8, <2>9 DEF Sane, Fixed, SameBuffer
  <2>11. Unread(g) = k BY <1>1, <2>5 DEF Unread
  <2>12. NextAt(f) = f.pos /\ NextAt(g) = f.pos + 0
    <3>1. NextAt(f) = f.pos - 0 /\ NextAt(g) = g.pos - k BY <2>11 DEF NextAt
    <3> QED BY <3>1, <2>2, <2>5, <2>16, <2>17
  <2>13. g.got = f.got \o SubSeq(f.data, f.pos + 1, f.pos + 0)
    <3>1. SubSeq(f.data, f.pos + 1, f.pos + 0) = <<>> BY <1>0, SubSeqEmpty
    <3> QED BY <3>1, <2>5, <1>0, ConcatEmptySeq
  <2>14. f.pos + 0 <= Len(f.data) BY <1>0
  <2>15. Reads(f, g) BY <2>5, <2>6, <2>10, <2>12, <2>13, <2>14, TookIs
  <2> QED BY <2>4, <2>5, <2>11, <2>15 DEF g
<1> QED BY <1>2, <1>3

\* The marks of the stream are not its bytes.
Marked(f, e, r) == [f EXCEPT !.eof = e, !.error = r]
LEMMA MarksAre == ASSUME NEW f, Sane(f), NEW e \in BOOLEAN, NEW r \in BOOLEAN, NEW g, g = Marked(f, e, r)
  PROVE /\ Sane(g) /\ Alike(f, g) /\ Fixed(f, g) /\ g.eof = e /\ g.error = r /\ g.lost = f.lost /\ g.state = f.state /\ g.buf = f.buf /\ g.buf_size = f.buf_size
        /\ View(g) = View(f) /\ Place(g) = Place(f) /\ Where(g) = Where(f) /\ Unread(g) = Unread(f) /\ Coming(g) = Coming(f)
        /\ (~f.std => Reads(f, g))
<1>0. f \in FileType BY DEF Sane
<1>1. /\ g.eof = e /\ g.error = r /\ g.lost = f.lost /\ g.data = f.data /\ g.pos = f.pos /\ g.buf = f.buf /\ g.buf_pos = f.buf_pos
      /\ g.state = f.state
  BY <1>0 DEF FileType, Marked
<1>2. Alike(f, g) BY <1>0 DEF FileType, Alike, Marked
<1>3. SameBuffer(f, g) BY <1>0 DEF FileType, SameBuffer, Marked
<1>4. g \in FileType BY ZenonT(60), <1>0 DEF FileType, Marked
<1>5. Sane(g) BY <1>1, <1>2, <1>3, <1>4 DEF Sane, Alike, SameBuffer, ReadAhead
<1>6. View(g) = View(f) /\ Place(g) = Place(f) /\ Where(g) = Where(f) /\ Unread(g) = Unread(f) BY <1>1, <1>2, Same
<1>7. Coming(g) = Coming(f)
  <2>1. Back(g) = Back(f) BY <1>2 DEF Back, Alike
  <2> QED BY <2>1, <1>6 DEF Coming
<1>8. Fixed(f, g) BY <1>2 DEF Fixed, Alike
<1>9. ASSUME ~f.std PROVE Reads(f, g)
  <2>1. GaveAll(f, g, <<>>)
    <3>1. f.got \in Seq(Chars) /\ Coming(f) \in Seq(Chars) BY <1>0, <1>9, ComingIs DEF FileType
    <3>2. f.got = f.got \o <<>> /\ Coming(f) = <<>> \o Coming(f) BY <3>1, ConcatEmptySeq
    <3>3. g.got = f.got /\ g.unget = f.unget BY <1>2 DEF Alike
    <3>4. Back(g) = Back(f) BY <3>3 DEF Back
    <3>5. Len(<<>>) = 0 /\ Where(f) \in Int /\ Len(Back(f)) \in Int BY <1>9, ComingIs
    <3>6. Where(g) - Len(Back(g)) = Where(f) - Len(Back(f)) + Len(<<>>) BY <3>4, <3>5, <1>6
    <3> QED BY <3>2, <3>3, <3>6, <1>6, <1>7 DEF GaveAll
  <2>2. <<>> \in Seq(Chars) OBVIOUS
  <2>3. Slack(f) => Slack(g) BY <1>1, <1>3 DEF Slack, SameBuffer
  <2> QED BY <2>1, <2>2, <2>3, <1>1, <1>5, <1>8 DEF Reads
<1>10. g.buf_size = f.buf_size BY <1>3 DEF SameBuffer
<1> QED BY <1>1, <1>2, <1>5, <1>6, <1>7, <1>8, <1>9, <1>10

LEMMA OpsGetcIs == ASSUME NEW f, Sane(f), ~f.std, f.unget = NoChar
  PROVE LET g == OpsGetc(f)
        IN  /\ Reads(f, g) /\ g.unget = NoChar /\ (g.got = f.got \/ Len(g.got) = Len(f.got) + 1)
            /\ (g.got = f.got => g.error \/ Coming(g) = <<>>)
<1> DEFINE l == Flush(f)
           b == BufferOf(l)
           h == Filled(b)
           g == OpsGetc(f)
<1>1. Reads(f, l) /\ l.unget = f.unget /\ l.got = f.got /\ l.state # "writing" BY FlushReads
<1>2. Sane(l) /\ ~l.std BY <1>1 DEF Reads, Fixed
<1> HIDE DEF l
<1>3. /\ Reads(l, b) /\ b.unget = l.unget /\ b.got = l.got /\ b.state = l.state
      /\ IF Buffered(b) THEN b.has ELSE b.state = "empty"
  BY <1>1, <1>2, BufferReads
<1>4. Sane(b) /\ ~b.std BY <1>2, <1>3 DEF Reads, Fixed
<1>5. Reads(f, b) BY <1>1, <1>3, ReadsTwice
<1>6. g = IF Unread(b) > 0 THEN FromBuffer(b, 1)
          ELSE IF Buffered(b) THEN FromBuffer(h, 1) ELSE Direct(b, 1)
  BY DEF OpsGetc, l
<1>7. b.got = f.got /\ b.unget = NoChar /\ b.state # "writing" BY <1>1, <1>3
<1>8. Unread(b) \in Nat BY <1>4, UnreadIs
<1>9. b.got \in Seq(Chars) /\ Len(b.got) \in Nat BY <1>4 DEF Sane, FileType
<1> HIDE DEF b, g
<1>10. CASE Unread(b) > 0
  <2>1. /\ Reads(b, g) /\ g.unget = NoChar
        /\ Len(g.got) = Len(b.got) + Fewer(1, Unread(b))
    BY <1>4, <1>6, <1>7, <1>10, FromBufferIs
  <2>2. Fewer(1, Unread(b)) = 1 BY <1>8, <1>10 DEF Fewer
  <2>3. Reads(f, g) BY <2>1, <1>5, ReadsTwice
  <2>4. Len(g.got) = Len(f.got) + 1 BY <2>1, <2>2, <1>7
  <2>5. Len(f.got) \in Nat BY <1>7, <1>9
  <2>6. g.got # f.got BY <2>4, <2>5
  <2> QED BY <2>1, <2>3, <2>4, <2>6 DEF g
<1>11. CASE Unread(b) = 0 /\ Buffered(b)
  <2>1. /\ Reads(b, h) /\ h.unget = NoChar /\ h.state # "writing" /\ h.got = b.got
        /\ (Unread(h) = 0 => h.error \/ Coming(h) = <<>>)
    BY <1>3, <1>4, <1>7, <1>11, FilledIs
  <2>2. Sane(h) /\ ~h.std BY <2>1, <1>4 DEF Reads, Fixed
  <2>3. g = FromBuffer(h, 1) BY <1>6, <1>11
  <2>4. Unread(h) \in Nat BY <2>2, UnreadIs
  <2> HIDE DEF h
  <2>5. Reads(h, g) /\ g.unget = NoChar /\ Len(g.got) = Len(h.got) + Fewer(1, Unread(h)) /\ (Unread(h) = 0 => g = h)
    BY <2>1, <2>2, <2>3, FromBufferIs
  <2>6. Reads(b, g) BY <2>1, <2>5, <1>4, ReadsTwice
  <2>7. Reads(f, g) BY <2>6, <1>5, ReadsTwice
  <2>8. CASE Unread(h) = 0 BY <2>8, <2>1, <2>5, <2>7, <1>7 DEF g
  <2>9. CASE Unread(h) # 0
    <3>1. Fewer(1, Unread(h)) = 1 BY <2>4, <2>9 DEF Fewer
    <3>2. Len(g.got) = Len(f.got) + 1 BY <3>1, <2>1, <2>5, <1>7
    <3>3. Len(f.got) \in Nat BY <1>7, <1>9
    <3>4. g.got # f.got BY <3>2, <3>3
    <3> QED BY <3>2, <3>4, <2>5, <2>7 DEF g
  <2> QED BY <2>8, <2>9
<1>12. CASE Unread(b) = 0 /\ ~Buffered(b)
  <2>1. g = Direct(b, 1) BY <1>6, <1>12
  <2>2. /\ Reads(b, g) /\ g.unget = NoChar
        /\ Len(g.got) \in Len(b.got) .. Len(b.got) + 1
        /\ (g.got = b.got /\ 1 > 0 => g.error \/ Coming(g) = <<>>)
        /\ (g.got # b.got => Len(g.got) > Len(b.got))
    BY <2>1, <1>3, <1>4, <1>7, <1>12, DirectIs
  <2>3. Reads(f, g) BY <2>2, <1>5, ReadsTwice
  <2>4. g.got # b.got => Len(g.got) = Len(b.got) + 1 BY <2>2, <1>9
  <2> QED BY <2>2, <2>3, <2>4, <1>7 DEF g
<1> QED BY <1>8, <1>10, <1>11, <1>12

LEMMA GetcIs == ASSUME NEW f, Sane(f), ~f.std
  PROVE LET g == Getc(f)
        IN  /\ Reads(f, g) /\ (g.got = f.got \/ Len(g.got) = Len(f.got) + 1)
            /\ (g.got = f.got => g.eof /\ (g.error \/ Coming(g) = <<>>))
<1> DEFINE o == OpsGetc(f)
           g == Getc(f)
<1>0. f.got \in Seq(Chars) /\ Len(f.got) \in Nat BY DEF Sane, FileType
<1>1. CASE f.unget # NoChar
  <2>1. g = FromUnget(f) BY <1>1 DEF Getc
  <2>2. Reads(f, g) /\ g.got = f.got \o <<f.unget>> BY <2>1, <1>1, UngetReads
  <2>3. f.unget \in Chars BY <1>1 DEF Sane, FileType
  <2>4. <<f.unget>> \in Seq(Chars) /\ Len(<<f.unget>>) = 1 BY <2>3, One
  <2>5. Len(g.got) = Len(f.got) + 1 BY <2>2, <2>4, <1>0, ConcatProperties
  <2>6. g.got # f.got BY <2>5, <1>0
  <2> QED BY <2>2, <2>5, <2>6
<1>2. CASE f.unget = NoChar
  <2>1. /\ Reads(f, o) /\ o.unget = NoChar /\ (o.got = f.got \/ Len(o.got) = Len(f.got) + 1)
        /\ (o.got = f.got => o.error \/ Coming(o) = <<>>)
    BY <1>2, OpsGetcIs
  <2>2. g = IF o.got = f.got THEN [o EXCEPT !.eof = TRUE] ELSE o BY <1>2 DEF Getc
  <2> HIDE DEF o
  <2>3. CASE o.got # f.got
    <3>1. g = o BY <2>2, <2>3
    <3> QED BY <3>1, <2>1, <2>3
  <2>4. CASE o.got = f.got
    <3>1. Sane(o) /\ ~o.std /\ o \in FileType BY <2>1 DEF Reads, Fixed, Sane
    <3>2. g = Marked(o, TRUE, o.error) BY <2>2, <2>4, <3>1 DEF FileType, Marked
    <3> HIDE DEF g
    <3> DEFINE e == TRUE
               r == o.error
    <3>3. e \in BOOLEAN /\ r \in BOOLEAN /\ g = Marked(o, e, r) BY <3>1, <3>2 DEF FileType
    <3> HIDE DEF e, r
    <3>7. Reads(o, g) /\ g.eof = e /\ g.error = r /\ Coming(g) = Coming(o) /\ Alike(o, g) BY <3>1, <3>3, MarksAre
    <3>4. Reads(o, g) /\ g.eof = TRUE /\ g.error = o.error /\ Coming(g) = Coming(o) /\ Alike(o, g) BY <3>7 DEF e, r
    <3>5. g.got = o.got BY <3>4 DEF Alike
    <3>6. Reads(f, g) BY <3>4, <2>1, ReadsTwice
    <3> QED BY <3>4, <3>5, <3>6, <2>1, <2>4 DEF g
  <2> QED BY <2>3, <2>4
<1> QED BY <1>1, <1>2

\* The other loops have their meaning, too.
LineBy(f, k, n, h) == h = [i \in 0 .. n |-> IF i = 0 THEN [f |-> f, more |-> TRUE] ELSE Gets(h[i - 1])]
LEMMA LineIs == ASSUME NEW f, NEW k \in Nat
  PROVE /\ Line(f, k)[0] = [f |-> f, more |-> TRUE]
        /\ \A i \in 0 .. k - 1 : Line(f, k)[i + 1] = Gets(Line(f, k)[i])
<1> DEFINE P == {n \in Nat : \E h : LineBy(f, k, n, h)}
           first == [f |-> f, more |-> TRUE]
<1>1. 0 \in P
  <2> DEFINE h == [i \in 0 .. 0 |-> first]
  <2>1. h = [i \in 0 .. 0 |-> IF i = 0 THEN first ELSE Gets(h[i - 1])] OBVIOUS
  <2>2. LineBy(f, k, 0, h) BY <2>1 DEF LineBy
  <2> QED BY <2>2
<1>2. ASSUME NEW n \in Nat, n \in P PROVE n + 1 \in P
  <2>1. PICK h : LineBy(f, k, n, h) BY <1>2
  <2> DEFINE g == [i \in 0 .. n + 1 |-> IF i = n + 1 THEN Gets(h[n]) ELSE h[i]]
  <2>2. \A i \in 0 .. n : h[i] = IF i = 0 THEN first ELSE Gets(h[i - 1]) BY <2>1 DEF LineBy
  <2>3. \A i \in 0 .. n : g[i] = h[i] OBVIOUS
  <2>4. \A i \in 0 .. n + 1 : g[i] = IF i = 0 THEN first ELSE Gets(g[i - 1])
    <3>1. ASSUME NEW i \in 0 .. n + 1 PROVE g[i] = IF i = 0 THEN first ELSE Gets(g[i - 1])
      <4>1. CASE i = n + 1 BY <4>1, <2>3
      <4>2. CASE i # n + 1
        <5>1. i \in 0 .. n /\ (i # 0 => i - 1 \in 0 .. n) BY <4>2
        <5> HIDE DEF g, first
        <5> QED BY <5>1, <2>2, <2>3
      <4> QED BY <4>1, <4>2
    <3> QED BY <3>1
  <2>5. g = [i \in 0 .. n + 1 |-> g[i]] OBVIOUS
  <2> HIDE DEF g
  <2>6. LineBy(f, k, n + 1, g) BY <2>4, <2>5 DEF LineBy
  <2> QED BY <2>6
<1>3. k \in P
  <2> HIDE DEF P
  <2>1. \A i \in 0 .. k : i \in P BY <1>1, <1>2, CountingUp
  <2> QED BY <2>1
<1>4. PICK h : LineBy(f, k, k, h) BY <1>3
<1> DEFINE D(e) == [i \in 0 .. k |-> IF i = 0 THEN first ELSE Gets(e[i - 1])]
           r == Line(f, k)
<1>5. h = D(h) BY <1>4 DEF LineBy
<1>6. r = CHOOSE e : e = D(e) BY DEF Line
<1>7. (CHOOSE e : e = D(e)) = D(CHOOSE e : e = D(e))
  <2> HIDE DEF D
  <2> QED BY <1>5, Zenon
<1>8. r = D(r) BY <1>6, <1>7
<1> HIDE DEF r
<1>9. \A i \in 0 .. k : r[i] = IF i = 0 THEN first ELSE Gets(r[i - 1]) BY <1>8
<1>10. r[0] = first
  <2>1. 0 \in 0 .. k OBVIOUS
  <2> HIDE DEF first
  <2> QED BY <2>1, <1>9
<1>11. ASSUME NEW i \in 0 .. k - 1 PROVE r[i + 1] = Gets(r[i])
  <2>1. i + 1 \in 0 .. k /\ i + 1 # 0 /\ (i + 1) - 1 = i OBVIOUS
  <2> QED BY <2>1, <1>9
<1> QED BY <1>10, <1>11 DEF r

BlockBy(f, k, n, h) == h = [i \in 0 .. n |-> IF i = 0 THEN [f |-> f, more |-> TRUE] ELSE Takes(h[i - 1], k)]
LEMMA BlockIs == ASSUME NEW f, NEW k \in Nat
  PROVE /\ Block(f, k)[0] = [f |-> f, more |-> TRUE]
        /\ \A i \in 0 .. k - 1 : Block(f, k)[i + 1] = Takes(Block(f, k)[i], k)
<1> DEFINE P == {n \in Nat : \E h : BlockBy(f, k, n, h)}
           first == [f |-> f, more |-> TRUE]
<1>1. 0 \in P
  <2> DEFINE h == [i \in 0 .. 0 |-> first]
  <2>1. h = [i \in 0 .. 0 |-> IF i = 0 THEN first ELSE Takes(h[i - 1], k)] OBVIOUS
  <2>2. BlockBy(f, k, 0, h) BY <2>1 DEF BlockBy
  <2> QED BY <2>2
<1>2. ASSUME NEW n \in Nat, n \in P PROVE n + 1 \in P
  <2>1. PICK h : BlockBy(f, k, n, h) BY <1>2
  <2> DEFINE g == [i \in 0 .. n + 1 |-> IF i = n + 1 THEN Takes(h[n], k) ELSE h[i]]
  <2>2. \A i \in 0 .. n : h[i] = IF i = 0 THEN first ELSE Takes(h[i - 1], k) BY <2>1 DEF BlockBy
  <2>3. \A i \in 0 .. n : g[i] = h[i] OBVIOUS
  <2>4. \A i \in 0 .. n + 1 : g[i] = IF i = 0 THEN first ELSE Takes(g[i - 1], k)
    <3>1. ASSUME NEW i \in 0 .. n + 1 PROVE g[i] = IF i = 0 THEN first ELSE Takes(g[i - 1], k)
      <4>1. CASE i = n + 1 BY <4>1, <2>3
      <4>2. CASE i # n + 1
        <5>1. i \in 0 .. n /\ (i # 0 => i - 1 \in 0 .. n) BY <4>2
        <5> HIDE DEF g, first
        <5> QED BY <5>1, <2>2, <2>3
      <4> QED BY <4>1, <4>2
    <3> QED BY <3>1
  <2>5. g = [i \in 0 .. n + 1 |-> g[i]] OBVIOUS
  <2> HIDE DEF g
  <2>6. BlockBy(f, k, n + 1, g) BY <2>4, <2>5 DEF BlockBy
  <2> QED BY <2>6
<1>3. k \in P
  <2> HIDE DEF P
  <2>1. \A i \in 0 .. k : i \in P BY <1>1, <1>2, CountingUp
  <2> QED BY <2>1
<1>4. PICK h : BlockBy(f, k, k, h) BY <1>3
<1> DEFINE D(e) == [i \in 0 .. k |-> IF i = 0 THEN first ELSE Takes(e[i - 1], k)]
           r == Block(f, k)
<1>5. h = D(h) BY <1>4 DEF BlockBy
<1>6. r = CHOOSE e : e = D(e) BY DEF Block
<1>7. (CHOOSE e : e = D(e)) = D(CHOOSE e : e = D(e))
  <2> HIDE DEF D
  <2> QED BY <1>5, Zenon
<1>8. r = D(r) BY <1>6, <1>7
<1> HIDE DEF r
<1>9. \A i \in 0 .. k : r[i] = IF i = 0 THEN first ELSE Takes(r[i - 1], k) BY <1>8
<1>10. r[0] = first
  <2>1. 0 \in 0 .. k OBVIOUS
  <2> HIDE DEF first
  <2> QED BY <2>1, <1>9
<1>11. ASSUME NEW i \in 0 .. k - 1 PROVE r[i + 1] = Takes(r[i], k)
  <2>1. i + 1 \in 0 .. k /\ i + 1 # 0 /\ (i + 1) - 1 = i OBVIOUS
  <2> QED BY <2>1, <1>9
<1> QED BY <1>10, <1>11 DEF r

Ends(p) == Len(p) > 0 /\ p[Len(p)] = NL /\ \A j \in 1 .. Len(p) - 1 : p[j] # NL
Lining(f, s, i) ==
    /\ Reads(f, s.f) /\ s.more \in BOOLEAN /\ Len(s.f.got) <= i
    /\ ~s.f.lost => IF s.more THEN Len(s.f.got) = i /\ ~HasNL(s.f.got)
                    ELSE Ends(s.f.got) \/ (~HasNL(s.f.got) /\ s.f.eof /\ (s.f.error \/ Coming(s.f) = <<>>))

LEMMA LiningStep == ASSUME NEW f, Sane(f), ~f.std, NEW i \in Nat, NEW s, Lining(f, s, i) PROVE Lining(f, Gets(s), i + 1)
<1> DEFINE g == Getc(s.f)
           r == Gets(s)
           x == s.f.got
<1>0. Reads(f, s.f) /\ s.more \in BOOLEAN /\ Len(x) <= i BY DEF Lining
<1>1. Sane(s.f) /\ ~s.f.std BY <1>0 DEF Reads, Fixed
<1>2. x \in Seq(Chars) /\ Len(x) \in Nat BY SMTT(30), <1>1 DEF Sane, FileType
<1>3. CASE ~s.more
  <2>1. r = s BY <1>3 DEF Gets
  <2>2. Len(x) <= i + 1 BY <1>0, <1>2
  <2> QED BY <2>1, <2>2, <1>3 DEF Lining
<1>4. CASE s.more
  <2> DEFINE more == g.got # x /\ g.got[Len(g.got)] # NL
  <2>1. r.f = g /\ r.more = more BY <1>4 DEF Gets
  <2>2. /\ Reads(s.f, g) /\ (g.got = x \/ Len(g.got) = Len(x) + 1)
        /\ (g.got = x => g.eof /\ (g.error \/ Coming(g) = <<>>))
    BY <1>1, GetcIs
  <2>3. Reads(f, g) BY <2>2, <1>0, ReadsTwice
  <2>4. more \in BOOLEAN OBVIOUS
  <2>5. Len(g.got) <= i + 1 BY <2>2, <1>0, <1>2
  <2> HIDE DEF r, g
  <2>6. ASSUME ~g.lost
        PROVE IF more THEN Len(g.got) = i + 1 /\ ~HasNL(g.got)
              ELSE Ends(g.got) \/ (~HasNL(g.got) /\ g.eof /\ (g.error \/ Coming(g) = <<>>))
    <3>1. ~s.f.lost BY <2>2, <2>6 DEF Reads
    <3>2. Len(x) = i /\ ~HasNL(x) BY <3>1, <1>4 DEF Lining
    <3>3. CASE g.got = x BY <3>2, <3>3, <2>2
    <3>4. CASE g.got # x
      <4>1. PICK p \in Seq(Chars) : GaveAll(s.f, g, p) BY <2>2, <2>6 DEF Reads
      <4>2. g.got = x \o p BY <4>1 DEF GaveAll
      <4> DEFINE y == g.got
      <4>3. y \in Seq(Chars) /\ Len(y) = Len(x) + 1 /\ \A j \in 1 .. Len(x) : y[j] = x[j]
        <5>1. /\ y \in Seq(Chars) /\ Len(y) = Len(x) + Len(p)
              /\ \A j \in 1 .. Len(x) + Len(p) : y[j] = IF j <= Len(x) THEN x[j] ELSE p[j - Len(x)]
          BY <4>2, <1>2, ConcatProperties
        <5>2. Len(y) = Len(x) + 1 BY <2>2, <3>4
        <5>5. Len(y) = Len(x) + Len(p) /\ Len(p) \in Nat BY <5>1
        <5> HIDE DEF x, y
        <5>3. Len(p) = 1
          <6> DEFINE l == Len(x)
                     m == Len(y)
                     k == Len(p)
          <6>1. m = l + 1 /\ m = l + k /\ k \in Nat /\ l \in Nat BY <5>2, <5>5, <1>2
          <6> HIDE DEF l, m, k
          <6>2. k = 1 BY <6>1
          <6> QED BY <6>2 DEF k
        <5>4. ASSUME NEW j \in 1 .. Len(x) PROVE y[j] = x[j]
          <6>1. j \in 1 .. Len(x) + Len(p) /\ j <= Len(x) BY <5>3, <1>2
          <6> QED BY <6>1, <5>1
        <5> QED BY <5>1, <5>2, <5>4
      <4>4. \A j \in 1 .. Len(x) : x[j] # NL
        <5>1. DOMAIN x = 1 .. Len(x) BY <1>2, LenProperties
        <5> QED BY <5>1, <3>2 DEF HasNL
      <4> HIDE DEF x, y
      <4>5. \A j \in 1 .. Len(y) - 1 : y[j] # NL
        <5>1. Len(y) - 1 = Len(x) BY <4>3, <1>2
        <5> QED BY <5>1, <4>3, <4>4
      <4>6. Len(y) \in Nat /\ Len(y) > 0 /\ DOMAIN y = 1 .. Len(y) BY <4>3, <1>2, LenProperties
      <4>7. CASE y[Len(y)] # NL
        <5>1. \A j \in 1 .. Len(y) : y[j] # NL
          <6>1. ASSUME NEW j \in 1 .. Len(y) PROVE y[j] # NL
            <7>1. j = Len(y) \/ j \in 1 .. Len(y) - 1
              <8>1. Len(y) \in Nat BY <4>6
              <8> QED BY <8>1
            <7> QED BY <7>1, <4>5, <4>7
          <6> QED BY <6>1
        <5>2. ~HasNL(y) BY <5>1, <4>6 DEF HasNL
        <5>3. Len(y) = i + 1 BY <4>3, <3>2 DEF x
        <5> QED BY <5>2, <5>3, <4>7, <3>4 DEF y, x
      <4>8. CASE y[Len(y)] = NL
        <5>1. Ends(y) BY <4>5, <4>6, <4>8 DEF Ends
        <5> QED BY <5>1, <4>8, <3>4 DEF y, x
      <4> QED BY <4>7, <4>8
    <3> QED BY <3>3, <3>4
  <2> HIDE DEF more
  <2>7. Lining(f, r, i + 1) BY <2>1, <2>3, <2>4, <2>5, <2>6 DEF Lining
  <2> QED BY <2>7 DEF r
<1> QED BY <1>3, <1>4, <1>0

\* A read is of what comes: what it got, the whole of it when it stopped for that, and an error or the end's mark when it is short.
LEMMA LineReads == ASSUME NEW f, Sane(f), ~f.std, f.got = <<>>, NEW n \in Nat \ {0}
  PROVE LET g == Line(f, n)[n].f
        IN  /\ Reads(f, g) /\ Len(g.got) <= n
            /\ ~g.lost => \/ Ends(g.got) \/ (~HasNL(g.got) /\ Len(g.got) = n)
                          \/ (~HasNL(g.got) /\ g.eof /\ (g.error \/ Coming(g) = <<>>))
<1> DEFINE h == Line(f, n)
           P == {i \in Nat : Lining(f, h[i], i)}
           g == h[n].f
<1>1. h[0] = [f |-> f, more |-> TRUE] /\ \A i \in 0 .. n - 1 : h[i + 1] = Gets(h[i]) BY LineIs
<1> HIDE DEF h
<1>2. 0 \in P
  <2>1. Reads(f, f) BY Reflexive
  <2>2. Len(<<>>) = 0 /\ ~HasNL(<<>>) BY DEF HasNL
  <2>3. h[0].f = f /\ h[0].more = TRUE BY <1>1
  <2> DEFINE s == h[0]
  <2>5. s.f = f /\ s.more = TRUE /\ s.f.got = <<>> BY <2>3
  <2> HIDE DEF s
  <2>6. Len(s.f.got) = 0 /\ ~HasNL(s.f.got) BY <2>2, <2>5
  <2>8. s.more \in BOOLEAN /\ s.more BY <2>5
  <2>7. Reads(f, s.f) /\ s.more \in BOOLEAN /\ s.more /\ Len(s.f.got) <= 0 BY <2>1, <2>5, <2>6, <2>8
  <2>4. Lining(f, s, 0) BY <2>6, <2>7 DEF Lining
  <2> QED BY <2>4 DEF s
<1>3. ASSUME NEW i \in 0 .. n - 1, i \in P PROVE i + 1 \in P
  <2>1. Lining(f, h[i + 1], i + 1) BY <1>3, <1>1, LiningStep
  <2> QED BY <2>1
<1>4. Lining(f, h[n], n)
  <2> HIDE DEF P
  <2>1. \A i \in 0 .. n : i \in P BY <1>2, <1>3, CountingUp
  <2>2. n \in P BY <2>1
  <2> QED BY <2>2 DEF P
<1>5. Reads(f, g) /\ Len(g.got) <= n BY <1>4 DEF Lining
<1>6. ~g.lost => \/ Ends(g.got) \/ (~HasNL(g.got) /\ Len(g.got) = n)
                 \/ (~HasNL(g.got) /\ g.eof /\ (g.error \/ Coming(g) = <<>>))
  BY <1>4 DEF Lining
<1> HIDE DEF g
<1> QED BY <1>5, <1>6 DEF g, h

LEMMA FetchedIs == ASSUME NEW f, Sane(f), ~f.std, f.state # "writing", f.unget = NoChar, Unread(f) = 0, NEW left \in Nat \ {0}
  PROVE LET d == Fetched(f, left)
        IN  /\ Reads(f, d) /\ d.unget = NoChar /\ d.state # "writing" /\ Len(d.got) \in Len(f.got) .. Len(f.got) + left
            /\ (d.got # f.got => Len(d.got) > Len(f.got))
            /\ (d.got = f.got /\ Unread(d) = 0 => d.error \/ Coming(d) = <<>>)
<1> DEFINE m == Emptied(f)
           b == BufferOf(m)
           d == Fetched(f, left)
<1>1. Reads(f, m) /\ m.unget = f.unget /\ m.got = f.got /\ m.state = "empty" /\ Unread(m) = 0 BY EmptiedReads
<1>2. Sane(m) /\ ~m.std BY <1>1 DEF Reads, Fixed
<1>3. d = IF ~Buffered(b) \/ left >= b.buf_size THEN Direct(b, left) ELSE Filled(b) BY DEF Fetched
<1> HIDE DEF m, d
<1>4. /\ Reads(m, b) /\ b.unget = m.unget /\ b.got = m.got /\ b.state = m.state /\ Unread(b) = Unread(m)
      /\ IF Buffered(b) THEN b.has ELSE b.state = "empty"
  BY <1>1, <1>2, BufferReads
<1> HIDE DEF b
<1>5. Sane(b) /\ ~b.std BY <1>2, <1>4 DEF Reads, Fixed
<1>6. b.state = "empty" /\ b.unget = NoChar /\ b.got = f.got /\ Unread(b) = 0 BY <1>1, <1>4
<1>7. Reads(f, b) BY <1>1, <1>4, ReadsTwice
<1>8. Len(b.got) \in Nat BY <1>5 DEF Sane, FileType
<1>9. CASE d = Direct(b, left)
  <2>1. /\ Reads(b, d) /\ d.unget = NoChar /\ d.state = "empty"
        /\ Len(d.got) \in Len(b.got) .. Len(b.got) + left
        /\ (d.got = b.got /\ left > 0 => d.error \/ Coming(d) = <<>>)
        /\ (d.got # b.got => Len(d.got) > Len(b.got))
    BY <1>5, <1>6, <1>9, DirectIs
  <2>2. Reads(f, d) BY <2>1, <1>7, ReadsTwice
  <2>3. left > 0 OBVIOUS
  <2> QED BY <2>1, <2>2, <2>3, <1>6 DEF d
<1>10. CASE d # Direct(b, left)
  <2>1. d = Filled(b) /\ b.has BY <1>3, <1>4, <1>10
  <2>2. /\ Reads(b, d) /\ d.unget = NoChar /\ d.state # "writing" /\ d.got = b.got
        /\ (Unread(d) = 0 => d.error \/ Coming(d) = <<>>)
    BY <2>1, <1>5, <1>6, FilledIs
  <2>3. Reads(f, d) BY <2>2, <1>7, ReadsTwice
  <2>4. Len(d.got) \in Len(f.got) .. Len(f.got) + left BY <2>2, <1>6, <1>8
  <2> QED BY <2>2, <2>3, <2>4, <1>6 DEF d
<1> QED BY <1>9, <1>10

Blocking(f, s, i, n) ==
    /\ s \in [f : FileType, more : BOOLEAN]
    /\ Reads(f, s.f) /\ s.f.unget = NoChar /\ s.f.state # "writing" /\ Len(s.f.got) <= n
    /\ IF s.more THEN Len(s.f.got) >= Fewer(i, n)
       ELSE (s.f.error \/ Coming(s.f) = <<>>) /\ (s.f.eof \/ s.f.error)

LEMMA BlockingStep == ASSUME NEW f, Sane(f), ~f.std, NEW n \in Nat, NEW i \in Nat, NEW s, Blocking(f, s, i, n)
  PROVE Blocking(f, Takes(s, n), i + 1, n)
<1> DEFINE e == s.f
           left == n - Len(e.got)
           d == Fetched(e, left)
           r == Takes(s, n)
<1>0. Reads(f, e) /\ e.unget = NoChar /\ e.state # "writing" /\ Len(e.got) <= n BY DEF Blocking
<1>9. s \in [f : FileType, more : BOOLEAN] BY DEF Blocking
<1>1. Sane(e) /\ ~e.std BY <1>0 DEF Reads, Fixed
<1>2. e.got \in Seq(Chars) /\ Len(e.got) \in Nat BY SMTT(30), <1>1 DEF Sane, FileType
<1>3. left \in Nat BY <1>0, <1>2
<1>4. Unread(e) \in Nat BY <1>1, UnreadIs
<1>5. s.more => Len(e.got) >= Fewer(i, n) BY DEF Blocking
<1>6. CASE ~s.more
  <2>1. r = s BY <1>6 DEF Takes
  <2> QED BY <2>1, <1>6 DEF Blocking
<1>7. CASE s.more /\ left = 0
  <2>1. r = s BY <1>7 DEF Takes
  <2>2. Len(e.got) = n BY <1>2, <1>7
  <2>3. Len(e.got) >= Fewer(i + 1, n) BY <2>2 DEF Fewer
  <2> QED BY <2>1, <2>3, <1>0, <1>7 DEF Blocking
<1>8. CASE s.more /\ left # 0 /\ Unread(e) > 0
  <2> DEFINE g == FromBuffer(e, left)
  <2>1. r = [s EXCEPT !.f = g] BY <1>7, <1>8 DEF Takes
  <2>2. /\ Reads(e, g) /\ g.unget = NoChar /\ g.state = e.state
        /\ Len(g.got) = Len(e.got) + Fewer(left, Unread(e))
    BY <1>0, <1>1, <1>3, FromBufferIs
  <2>3. Reads(f, g) BY <2>2, <1>0, ReadsTwice
  <2> HIDE DEF g
  <2>4. Len(g.got) <= n /\ Len(g.got) >= Fewer(i + 1, n)
    <3> DEFINE l == Len(e.got)
               m == Len(g.got)
               u == Unread(e)
    <3>1. m = l + Fewer(n - l, u) /\ u \in Nat /\ u > 0 /\ l \in Nat /\ n - l \in Nat /\ n - l # 0 /\ l >= Fewer(i, n)
      BY <2>2, <1>2, <1>3, <1>4, <1>5, <1>8
    <3> HIDE DEF l, m, u
    <3>2. m <= n /\ m >= Fewer(i + 1, n) BY <3>1 DEF Fewer
    <3> QED BY <3>2 DEF m
  <2>5. r.f = g /\ r.more = s.more BY <2>1, <1>9
  <2>6. r \in [f : FileType, more : BOOLEAN]
    <3>1. g \in FileType BY <2>2 DEF Reads, Sane
    <3> QED BY <3>1, <2>1, <1>9
  <2> HIDE DEF r
  <2>7. Blocking(f, r, i + 1, n) BY <2>2, <2>3, <2>4, <2>5, <2>6, <1>0, <1>8 DEF Blocking
  <2> QED BY <2>7 DEF r
<1>10. CASE s.more /\ left # 0 /\ Unread(e) = 0
  <2>1. /\ Reads(e, d) /\ d.unget = NoChar /\ d.state # "writing" /\ Len(d.got) \in Len(e.got) .. Len(e.got) + left
        /\ (d.got # e.got => Len(d.got) > Len(e.got))
        /\ (d.got = e.got /\ Unread(d) = 0 => d.error \/ Coming(d) = <<>>)
    <3>1. left \in Nat \ {0} BY <1>3, <1>10
    <3> HIDE DEF left
    <3> QED BY <3>1, <1>0, <1>1, <1>10, FetchedIs
  <2>2. Reads(f, d) BY <2>1, <1>0, ReadsTwice
  <2>3. Sane(d) /\ ~d.std /\ d \in FileType BY <2>1, <1>1 DEF Reads, Fixed, Sane
  <2>4. CASE d.got = e.got /\ Unread(d) = 0
    <3> DEFINE w == Short(e, d)
               v == d.eof \/ ~d.error \/ (e.error /\ ~ReadFails(e))
               q == d.error
    <3>1. r = [f |-> w, more |-> FALSE] BY <1>4, <1>7, <1>10, <2>4 DEF Takes
    <3>2. w = Marked(d, v, q) BY <2>3 DEF Short, Marked, FileType
    <3>3. v \in BOOLEAN /\ q \in BOOLEAN BY <2>3 DEF FileType
    <3>8. v \/ q BY DEF v, q
    <3> HIDE DEF v, w, d, q
    <3>4. /\ Sane(w) /\ Alike(d, w) /\ w.eof = v /\ w.error = q /\ w.state = d.state /\ Coming(w) = Coming(d) /\ Reads(d, w)
      BY <2>3, <3>2, <3>3, MarksAre
    <3>5. w.got = d.got /\ w.unget = d.unget BY <3>4 DEF Alike
    <3>6. Reads(f, w) BY <2>2, <3>4, ReadsTwice
    <3>7. (w.error \/ Coming(w) = <<>>) /\ (w.eof \/ w.error)
      <4>1. d.error \/ Coming(d) = <<>> BY <2>1, <2>4
      <4>2. w.error = d.error BY <3>4 DEF q
      <4> QED BY <4>1, <4>2, <3>4, <3>8
    <3>9. r.f = w /\ ~r.more BY <3>1
    <3>10. r \in [f : FileType, more : BOOLEAN]
      <4>1. w \in FileType BY <3>4 DEF Sane
      <4> QED BY <4>1, <3>1
    <3>11. Len(w.got) <= n BY <3>5, <2>4, <1>0
    <3> HIDE DEF r
    <3>12. Blocking(f, r, i + 1, n) BY <3>4, <3>5, <3>6, <3>7, <3>9, <3>10, <3>11, <2>1 DEF Blocking
    <3> QED BY <3>12 DEF r
  <2>5. CASE ~(d.got = e.got /\ Unread(d) = 0)
    <3> DEFINE rest == n - Len(d.got)
               g == FromBuffer(d, rest)
    <3>1. r = [s EXCEPT !.f = g] BY <1>4, <1>7, <1>10, <2>5 DEF Takes
    <3>2. rest \in Nat BY <2>1, <1>2, <1>3
    <3>3. /\ Reads(d, g) /\ g.unget = NoChar /\ g.state = d.state
          /\ Len(g.got) = Len(d.got) + Fewer(rest, Unread(d))
      <4> HIDE DEF rest, d
      <4> QED BY <2>1, <2>3, <3>2, FromBufferIs
    <3>4. Reads(f, g) BY <2>2, <3>3, ReadsTwice
    <3>5. Unread(d) \in Nat BY <2>3, UnreadIs
    <3> HIDE DEF g, d
    <3>6. Len(g.got) <= n /\ Len(g.got) >= Fewer(i + 1, n)
      <4> DEFINE l == Len(e.got)
                 k == Len(d.got)
                 m == Len(g.got)
                 u == Unread(d)
      <4>1. l \in Nat /\ n - l \in Nat /\ n - l # 0 /\ l >= Fewer(i, n) BY <1>2, <1>3, <1>5, <1>10
      <4>2. k \in l .. l + (n - l) /\ u \in Nat /\ (k > l \/ u > 0) BY <2>1, <2>5, <3>5
      <4>3. m = k + Fewer(n - k, u) BY <3>3
      <4> HIDE DEF l, m, u, k
      <4>4. m <= n /\ m >= Fewer(i + 1, n) BY <4>1, <4>2, <4>3 DEF Fewer
      <4> QED BY <4>4 DEF m
    <3>7. r.f = g /\ r.more = s.more BY <3>1, <1>9
    <3>8. r \in [f : FileType, more : BOOLEAN]
      <4>1. g \in FileType BY <3>3 DEF Reads, Sane
      <4> QED BY <4>1, <3>1, <1>9
    <3> HIDE DEF r
    <3>9. Blocking(f, r, i + 1, n) BY <3>3, <3>4, <3>6, <3>7, <3>8, <2>1, <1>10 DEF Blocking
    <3> QED BY <3>9 DEF r
  <2> QED BY <2>4, <2>5
<1> QED BY <1>4, <1>6, <1>7, <1>8, <1>10

LEMMA OpsReadIs == ASSUME NEW f, Sane(f), ~f.std, f.got = <<>>, NEW n \in Nat \ {0}
  PROVE LET g == OpsRead(f, n)
        IN  /\ Reads(f, g) /\ Len(g.got) <= n
            /\ Len(g.got) = n \/ ((g.error \/ Coming(g) = <<>>) /\ (g.eof \/ g.error))
<1> DEFINE l == Flush(f)
           a == IF l.unget # NoChar THEN FromUnget(l) ELSE l
           h == Block(a, n)
           P == {i \in Nat : Blocking(f, h[i], i, n)}
           g == OpsRead(f, n)
<1>1. Reads(f, l) /\ l.unget = f.unget /\ l.got = f.got /\ l.state # "writing" BY FlushReads
<1>2. Sane(l) /\ ~l.std BY <1>1 DEF Reads, Fixed
<1>3. g = h[n].f BY DEF OpsRead
<1> HIDE DEF l
<1>4. Reads(f, a) /\ a.unget = NoChar /\ a.state # "writing" /\ Len(a.got) \in {0, 1}
  <2>1. CASE l.unget = NoChar BY <2>1, <1>1
  <2>2. CASE l.unget # NoChar
    <3>1. Reads(l, a) /\ a.unget = NoChar /\ a.got = l.got \o <<l.unget>> /\ a.state = l.state BY <2>2, <1>2, UngetReads
    <3>2. l.unget \in Chars BY <2>2, <1>2 DEF Sane, FileType
    <3>3. <<l.unget>> \in Seq(Chars) /\ Len(<<l.unget>>) = 1 BY <3>2, One
    <3>4. a.got = <<l.unget>> BY <3>1, <3>3, <1>1, ConcatEmptySeq
    <3>5. Reads(f, a) BY <3>1, <1>1, ReadsTwice
    <3> QED BY <3>1, <3>3, <3>4, <3>5, <1>1
  <2> QED BY <2>1, <2>2
<1> HIDE DEF a
<1>5. h[0] = [f |-> a, more |-> TRUE] /\ \A i \in 0 .. n - 1 : h[i + 1] = Takes(h[i], n) BY BlockIs
<1> HIDE DEF h, g
<1>6. 0 \in P
  <2> DEFINE s == h[0]
  <2>1. s.f = a /\ s.more = TRUE BY <1>5
  <2>2. s \in [f : FileType, more : BOOLEAN]
    <3>1. a \in FileType BY <1>4 DEF Reads, Sane
    <3> QED BY <3>1, <1>5
  <2> HIDE DEF s
  <2>3. s.more BY <2>1
  <2>4. Len(s.f.got) <= n /\ Len(s.f.got) >= Fewer(0, n)
    <3>1. Fewer(0, n) = 0 BY DEF Fewer
    <3>2. Len(s.f.got) \in {0, 1} BY <2>1, <1>4
    <3> DEFINE x == Len(s.f.got)
               o == Fewer(0, n)
    <3>3. x \in {0, 1} /\ o = 0 BY <3>1, <3>2
    <3> HIDE DEF x, o
    <3>4. x <= n /\ x >= o BY <3>3
    <3> QED BY <3>4 DEF x, o
  <2>5. Blocking(f, s, 0, n) BY <2>1, <2>2, <2>3, <2>4, <1>4 DEF Blocking
  <2> QED BY <2>5 DEF s
<1>7. ASSUME NEW i \in 0 .. n - 1, i \in P PROVE i + 1 \in P
  <2>1. Blocking(f, h[i + 1], i + 1, n) BY <1>5, <1>7, BlockingStep
  <2> QED BY <2>1
<1>8. Blocking(f, h[n], n, n)
  <2> HIDE DEF P
  <2>1. \A i \in 0 .. n : i \in P BY <1>6, <1>7, CountingUp
  <2>2. n \in P BY <2>1
  <2> QED BY <2>2 DEF P
<1>9. Reads(f, g) /\ Len(g.got) <= n BY <1>3, <1>8 DEF Blocking
<1>10. Len(g.got) >= Fewer(n, n) \/ ((g.error \/ Coming(g) = <<>>) /\ (g.eof \/ g.error)) BY <1>3, <1>8 DEF Blocking
<1>11. Len(g.got) \in Nat BY <1>9 DEF Reads, Sane, FileType
<1>12. Len(g.got) >= Fewer(n, n) => Len(g.got) = n BY <1>9, <1>11 DEF Fewer
<1> QED BY <1>9, <1>10, <1>12 DEF g

-----------------------------------------------------------------------------
(* What the program may believe: the invariant *)

Said == {<<>>} \cup [got : Seq(Chars), eof : BOOLEAN, error : BOOLEAN, asked : Nat]
ToldType == [data : Seq(Chars), at : Int, back : Chars \cup {NoChar}, said : Said, owed : Seq(Chars)]

Good(f, t) == View(f) = t.data /\ f.unget = t.back /\ (f.std \/ t.at = Where(f))
Plain(f) == f.std /\ ~f.hook => f.term /\ f.buf_mode = Nbf
SaysWhy(t) ==
    \/ t.said = <<>>
    \/ /\ t.said.got = SubSeq(t.owed, 1, Len(t.said.got))
       /\ ~t.said.error => t.said.got = t.owed
       /\ Len(t.owed) < t.said.asked /\ t.said.got = <<>> => t.said.eof \/ t.said.error

\* The invariant: the buffer is sound, and unless bytes are known to be lost, what the program believes is so.
Believed(f, t) == Slack(f) /\ t \in ToldType /\ Good(f, t) /\ SaysWhy(t) /\ Plain(f)
StreamInv ==
    /\ Sane(file) /\ (~file.open => file.state # "writing")
    /\ ~file.lost => Believed(file, told) /\ file.got = <<>>

Left(f) == [f EXCEPT !.wrote = 0, !.got = <<>>]

LEMMA LeftIs == ASSUME NEW f, Sane(f)
  PROVE LET g == Left(f)
        IN  /\ Sane(g) /\ g.got = <<>> /\ g.lost = f.lost /\ g.open = f.open /\ g.state = f.state /\ g.std = f.std /\ g.unget = f.unget
            /\ View(g) = View(f) /\ Place(g) = Place(f) /\ Where(g) = Where(f)
            /\ (Slack(f) => Slack(g)) /\ (Plain(f) => Plain(g))
<1> DEFINE g == Left(f)
           nil == <<>>
<1>0. f \in FileType BY DEF Sane
<1>1. g = [f EXCEPT !.wrote = 0, !.got = nil] BY DEF Left
<1>2. nil \in Seq(Chars) OBVIOUS
<1> HIDE DEF nil, g
<1>3. /\ g.got = nil /\ g.lost = f.lost /\ g.data = f.data /\ g.pos = f.pos /\ g.buf = f.buf /\ g.buf_pos = f.buf_pos
      /\ g.state = f.state /\ g.unget = f.unget
  BY <1>0, <1>1 DEF FileType
<1>4. Fixed(f, g) BY <1>0, <1>1 DEF FileType, Fixed
<1>5. SameBuffer(f, g) BY <1>0, <1>1 DEF FileType, SameBuffer
<1>6. g \in FileType BY <1>0, <1>1, <1>2 DEF FileType
<1>7. Sane(g) BY <1>3, <1>4, <1>5, <1>6 DEF Sane, Fixed, SameBuffer, ReadAhead
<1>8. Unread(g) = Unread(f) /\ Pending(g) = Pending(f) BY <1>3 DEF Unread, Pending
<1>9. At(g) = At(f) BY <1>3, <1>4, <1>8 DEF At, Fixed
<1>10. View(g) = View(f) /\ Place(g) = Place(f) /\ Where(g) = Where(f) BY <1>3, <1>4, <1>8, <1>9 DEF View, Place, Where, Fixed
<1>11. (Slack(f) => Slack(g)) /\ (Plain(f) => Plain(g)) BY <1>3, <1>4, <1>5 DEF Slack, Plain, Fixed, SameBuffer
<1> QED BY <1>3, <1>4, <1>7, <1>10, <1>11 DEF g, nil, Fixed

LEMMA Settles ==
    ASSUME NEW f, Sane(f), file' = Left(f), ~f.open => f.state # "writing", f.lost \/ Believed(f, told')
    PROVE  StreamInv'
<1> DEFINE g == Left(f)
<1>1. /\ Sane(g) /\ g.got = <<>> /\ g.lost = f.lost /\ g.open = f.open /\ g.state = f.state /\ g.std = f.std /\ g.unget = f.unget
      /\ View(g) = View(f) /\ Place(g) = Place(f) /\ Where(g) = Where(f)
      /\ (Slack(f) => Slack(g)) /\ (Plain(f) => Plain(g))
  BY LeftIs
<1> HIDE DEF g
<1>2. f.lost \/ Believed(g, told') BY <1>1 DEF Believed, Good
<1>3. file' = g BY DEF g
<1>4. /\ Sane(g) /\ (~g.open => g.state # "writing")
      /\ ~g.lost => Believed(g, told') /\ g.got = <<>>
  BY <1>1, <1>2
<1>5. Sane(file') /\ (~file'.open => file'.state # "writing") /\ (~file'.lost => Believed(file', told') /\ file'.got = <<>>)
  BY <1>3, <1>4
<1> QED BY <1>5 DEF StreamInv

\* What each property needs of the invariant
LEMMA InvGives == StreamInv => StreamIsFile /\ NothingLeftBehind /\ ShortReadsSayWhy /\ TellAgrees
<1> SUFFICES ASSUME StreamInv PROVE StreamIsFile /\ NothingLeftBehind /\ ShortReadsSayWhy /\ TellAgrees OBVIOUS
<1>0. Sane(file) /\ (~file.open => file.state # "writing") /\ (~file.lost => Believed(file, told)) BY DEF StreamInv
<1>1. StreamIsFile
  <2>1. SUFFICES ASSUME ~file.lost PROVE StreamIsFile BY DEF StreamIsFile
  <2> DEFINE out == Flush(file)
  <2>2. Good(file, told) BY <1>0, <2>1 DEF Believed
  <2>3. /\ Sane(out) /\ Alike(file, out) /\ out.state # "writing"
        /\ file.state # "writing" => out = file
        /\ file.state = "writing" => out.state = "empty"
        /\ ~out.lost => View(out) = View(file) /\ (file.std \/ Where(out) = Where(file))
    BY <1>0, FlushIs
  <2> HIDE DEF out
  <2>4. View(out) = out.data /\ Where(out) = out.pos - Unread(out) BY <2>3, ViewIs
  <2>5. Unread(out) = Unread(file) BY <2>3 DEF Unread
  <2>6. out.data = told.data \/ out.lost BY <2>2, <2>3, <2>4 DEF Good
  <2>7. file.std \/ out.lost \/ out.pos - Unread(file) = told.at BY <2>2, <2>3, <2>4, <2>5 DEF Good
  <2>8. file.unget = told.back BY <2>2 DEF Good
  <2> QED BY <2>6, <2>7, <2>8 DEF StreamIsFile, out
<1>2. NothingLeftBehind
  <2>1. file.state = "writing" => file.listed /\ file.has BY <1>0 DEF Sane
  <2>2. ASSUME ~file.open, ~file.lost PROVE file.data = told.data
    <3>1. View(file) = file.data BY <1>0, <2>2, ViewIs
    <3> QED BY <3>1, <1>0, <2>2 DEF Believed, Good
  <2> QED BY <2>1, <2>2 DEF NothingLeftBehind
<1>3. ShortReadsSayWhy BY <1>0 DEF ShortReadsSayWhy, Believed, SaysWhy
<1>4. TellAgrees
  <2>1. SUFFICES ASSUME ~file.lost, ~file.std, ~(file.append /\ file.state = "writing")
                 PROVE  Tell(file) = told.at - Len(Pushed)
    BY DEF TellAgrees
  <2>2. told.at = Where(file) /\ file.unget = told.back /\ told \in ToldType BY <1>0, <2>1 DEF Believed, Good
  <2>3. Where(file) = file.pos - Unread(file) + Len(Pending(file)) BY <2>1 DEF Where
  <2>4. Len(Pending(file)) = IF file.state = "writing" THEN Len(file.buf) ELSE 0 BY DEF Pending
  <2>5. Len(Pushed) = IF file.unget # NoChar THEN 1 ELSE 0
    <3>1. CASE told.back = NoChar BY <3>1, <2>2 DEF Pushed
    <3>2. CASE told.back # NoChar
      <4>1. told.back \in Chars BY <3>2, <2>2 DEF ToldType
      <4> QED BY <4>1, <3>2, <2>2, One DEF Pushed
    <3> QED BY <3>1, <3>2
  <2> DEFINE w == file.pos - Unread(file)
             h == Len(Pending(file))
             b == Len(Pushed)
  <2>6. Tell(file) = w + h - b BY <2>4, <2>5 DEF Tell
  <2>7. told.at = w + h BY <2>2, <2>3
  <2>9. w \in Int /\ h \in Nat /\ b \in Nat
    <3>1. w \in Int /\ Pending(file) \in Seq(Chars) BY <1>0, UnreadIs
    <3> QED BY <3>1, <2>5
  <2> HIDE DEF w, h, b
  <2>8. Tell(file) = told.at - b BY <2>6, <2>7, <2>9
  <2> QED BY <2>8 DEF b
<1> QED BY <1>1, <1>2, <1>3, <1>4

-----------------------------------------------------------------------------
(* The steps of a stream keep it. *)

\* Writing
LEMMA WritesWell ==
    ASSUME StreamInv, ~file.lost, NEW p \in Seq(Chars), p # <<>>, MayWrite(p), NEW f, Wrote(file, f, p), Slack(f), Plain(f),
           file' = Left(f), told' = ToldWritten(p)
    PROVE  StreamInv'
<1>0. Sane(file) /\ Believed(file, told) BY DEF StreamInv
<1>1. told \in ToldType /\ View(file) = told.data /\ file.unget = told.back /\ (file.std \/ told.at = Where(file))
  BY <1>0 DEF Believed, Good
<1>2. Sane(f) /\ Alike(file, f) BY DEF Wrote
<1>3. f.open BY <1>2 DEF Alike, MayWrite
<1> DEFINE at == IF file.append \/ file.std THEN Len(told.data) ELSE told.at
<1>4. at = Place(file)
  <2>1. CASE file.append \/ file.std
    <3>1. file.append \/ file.term BY <2>1, <1>0 DEF Sane
    <3>2. Place(file) = Len(View(file)) BY <3>1, <1>0, ViewIs
    <3> QED BY <3>2, <2>1, <1>1
  <2>2. CASE ~(file.append \/ file.std)
    <3>1. ~file.term BY <2>2, <1>0 DEF Sane
    <3>2. Where(file) = file.pos - Unread(file) + Len(Pending(file)) /\ At(file) = file.pos - Unread(file) BY <2>2, <3>1 DEF Where, At
    <3> QED BY <3>2, <2>2, <1>1 DEF Place
  <2> QED BY <2>1, <2>2
<1>5. Place(file) \in Nat /\ Place(file) \in 0 .. Len(told.data) /\ told.data \in Seq(Chars)
  <2>1. Place(file) \in Nat /\ Place(file) <= Len(View(file)) BY <1>0, UnreadIs, ViewIs
  <2>2. told.data \in Seq(Chars) BY <1>1 DEF ToldType
  <2> QED BY <2>1, <2>2, <1>1
<1> HIDE DEF at
<1> DEFINE d == Overlay(told.data, at, p)
           to == at + Len(p)
           nil == <<>>
<1>6. told' = [told EXCEPT !.data = d, !.at = to, !.said = nil, !.owed = nil] BY <1>1 DEF ToldWritten, at, ToldType
<1>7. d \in Seq(Chars) /\ to \in Int BY <1>4, <1>5, OverlayIs
<1>8. nil \in Seq(Chars) /\ nil \in Said BY DEF Said
<1>13. nil = <<>> OBVIOUS
<1> HIDE DEF d, to, nil
<1>9. told' \in ToldType BY <1>1, <1>6, <1>7, <1>8 DEF ToldType
<1>10. told'.data = d /\ told'.at = to /\ told'.back = told.back /\ told'.said = nil BY <1>1, <1>6 DEF ToldType
<1>11. SaysWhy(told') BY <1>10, <1>13 DEF SaysWhy
<1>12. ASSUME ~f.lost PROVE Good(f, told')
  <2>1. View(f) = Overlay(View(file), Place(file), p) /\ Place(f) = Place(file) + Len(p) /\ (file.std \/ Where(f) = Place(f))
    BY <1>12 DEF Wrote
  <2>2. View(f) = told'.data BY <2>1, <1>1, <1>4, <1>10 DEF d
  <2>3. f.unget = told'.back /\ f.std = file.std BY <1>1, <1>2, <1>10 DEF Alike
  <2>4. f.std \/ told'.at = Where(f) BY <2>1, <2>3, <1>4, <1>10 DEF to
  <2> QED BY <2>2, <2>3, <2>4 DEF Good
<1>14. f.lost \/ Believed(f, told') BY <1>9, <1>11, <1>12 DEF Believed
<1> QED BY <1>2, <1>3, <1>14, Settles

\* An unbuffered stream stays so.
LEMMA PlainStays == ASSUME NEW f, Sane(f), f.buf_mode = Nbf
  PROVE LET b == BufferOf(DropReadAhead(f))
        IN  /\ ~Buffered(b) /\ b.buf_mode = Nbf /\ Sane(b) /\ b.state = "empty"
            /\ \A p \in Seq(Chars) : RawWrite(b, p).buf_mode = Nbf
<1> DEFINE d == DropReadAhead(f)
           b == BufferOf(d)
<1>1. Sane(d) /\ SameBuffer(f, d) BY DropIs
<1> HIDE DEF d
<1>2. d.buf_mode = Nbf BY <1>1 DEF SameBuffer
<1>3. b = d BY <1>2 DEF BufferOf
<1>4. b.state = "empty" BY <1>1, <1>2, <1>3 DEF Sane, FileType
<1> HIDE DEF b
<1>5. ASSUME NEW p \in Seq(Chars) PROVE RawWrite(b, p).buf_mode = Nbf
  <2>1. SameBuffer(b, RawWrite(b, p)) BY <1>1, <1>3, <1>4, RawWrote
  <2> QED BY <2>1, <1>2, <1>3 DEF SameBuffer
<1> QED BY <1>1, <1>2, <1>3, <1>4, <1>5 DEF b, d, Buffered

LEMMA PutcPlain == ASSUME NEW f, Sane(f), Slack(f), Plain(f), NEW c \in Chars PROVE Plain(Putc(f, c))
<1> DEFINE g == Putc(f, c)
           p == <<c>>
<1>1. Wrote(f, g, p) BY PutcIs
<1>2. g.std = f.std /\ g.hook = f.hook /\ g.term = f.term BY <1>1 DEF Wrote, Alike
<1>3. ASSUME f.std, ~f.hook PROVE g.buf_mode = Nbf
  <2>1. f.buf_mode = Nbf BY <1>3 DEF Plain
  <2> DEFINE b == BufferOf(DropReadAhead(f))
  <2>2. ~Buffered(b) /\ \A q \in Seq(Chars) : RawWrite(b, q).buf_mode = Nbf BY <2>1, PlainStays
  <2>3. g = RawWrite(b, p) BY <2>2 DEF Putc
  <2>4. p \in Seq(Chars) BY One
  <2> HIDE DEF b, p, g
  <2> QED BY <2>2, <2>3, <2>4
<1> HIDE DEF g
<1> QED BY <1>2, <1>3 DEF Plain, g

LEMMA WriteBytesPlain == ASSUME NEW f, Sane(f), Slack(f), Plain(f), NEW p \in Seq(Chars), p # <<>> PROVE Plain(WriteBytes(f, p))
<1> DEFINE g == WriteBytes(f, p)
<1>1. Wrote(f, g, p) BY WriteBytesIs
<1>2. g.std = f.std /\ g.hook = f.hook /\ g.term = f.term BY <1>1 DEF Wrote, Alike
<1>3. ASSUME f.std, ~f.hook PROVE g.buf_mode = Nbf
  <2>1. f.buf_mode = Nbf BY <1>3 DEF Plain
  <2> DEFINE b == BufferOf(DropReadAhead(f))
  <2>2. ~Buffered(b) /\ \A q \in Seq(Chars) : RawWrite(b, q).buf_mode = Nbf BY <2>1, PlainStays
  <2>3. g = RawWrite(b, p) BY <2>2 DEF WriteBytes
  <2> HIDE DEF b, g
  <2> QED BY <2>2, <2>3
<1> HIDE DEF g
<1> QED BY <1>2, <1>3 DEF Plain, g

LEMMA FputcStep == ASSUME StreamInv, ~file.lost, NEW c \in Chars, Fputc(c) PROVE StreamInv'
<1> DEFINE f == Putc(file, c)
           p == <<c>>
<1>0. Sane(file) /\ Slack(file) /\ Plain(file) BY DEF StreamInv, Believed
<1>1. MayWrite(p) /\ file' = Left(f) /\ told' = ToldWritten(p) BY DEF Fputc, Leaves, Left
<1>2. p \in Seq(Chars) /\ p # <<>> BY One
<1>3. Wrote(file, f, p) /\ Slack(f) BY <1>0, PutcIs
<1>4. Plain(f) BY <1>0, PutcPlain
<1> HIDE DEF f, p
<1> QED BY <1>1, <1>2, <1>3, <1>4, WritesWell

LEMMA BlocksAre == ASSUME NEW p \in Blocks PROVE p \in Seq(Chars) /\ p # <<>>
<1>1. PICK n \in Sizes : p \in [1 .. n -> Chars] BY DEF Blocks
<1>2. n \in Nat /\ n > 0 BY StreamAssumption
<1>3. p \in Seq(Chars) BY <1>1, <1>2
<1>4. DOMAIN p = 1 .. n BY <1>1
<1>5. Len(p) = n BY <1>2, <1>3, <1>4, LenProperties
<1>6. Len(<<>>) = 0 OBVIOUS
<1> QED BY <1>2, <1>3, <1>5, <1>6

LEMMA FwriteStep == ASSUME StreamInv, ~file.lost, NEW p \in Blocks, Fwrite(p) PROVE StreamInv'
<1> DEFINE f == WriteBytes(file, p)
<1>0. Sane(file) /\ Slack(file) /\ Plain(file) BY DEF StreamInv, Believed
<1>1. MayWrite(p) /\ file' = Left(f) /\ told' = ToldWritten(p) BY DEF Fwrite, Leaves, Left
<1>2. p \in Seq(Chars) /\ p # <<>> BY BlocksAre
<1>3. Wrote(file, f, p) /\ Slack(f) BY <1>0, <1>2, WriteBytesIs
<1>4. Plain(f) BY <1>0, <1>2, WriteBytesPlain
<1> HIDE DEF f
<1> QED BY <1>1, <1>2, <1>3, <1>4, WritesWell

LEMMA OverlayEnd == ASSUME NEW d \in Seq(Chars), NEW p \in Seq(Chars) PROVE Overlay(d, Len(d), p) = d \o p
<1> DEFINE e == d \o p
           z == SubSeq(d, Len(d) + Len(p) + 1, Len(d))
<1>1. SubSeq(d, 1, Len(d)) = d BY Whole
<1>2. Len(d) \in Nat /\ Len(p) \in Nat OBVIOUS
<1>3. z = <<>> BY <1>2, SubSeqEmpty
<1>4. e \in Seq(Chars) BY ConcatProperties
<1>5. Overlay(d, Len(d), p) = e \o z BY <1>1 DEF Overlay
<1> HIDE DEF e, z
<1>6. e \o z = e BY <1>3, <1>4, ConcatEmptySeq
<1> QED BY <1>5, <1>6 DEF e

LEMMA PutStep == ASSUME StreamInv, ~file.lost, NEW p \in Blocks, Put(p) PROVE StreamInv'
<1>0. Sane(file) /\ Slack(file) /\ Plain(file) BY DEF StreamInv, Believed
<1>2. p \in Seq(Chars) /\ p # <<>> BY BlocksAre
<1>1. file.std /\ MayWrite(p) /\ told' = ToldWritten(p) BY DEF Put
<1>3. CASE file.hook
  <2> DEFINE f == WriteBytes(file, p)
  <2>1. file' = Left(f) BY <1>3 DEF Put, Leaves, Left
  <2>2. Wrote(file, f, p) /\ Slack(f) BY <1>0, <1>2, WriteBytesIs
  <2>3. Plain(f) BY <1>0, <1>2, WriteBytesPlain
  <2> HIDE DEF f
  <2> QED BY <1>1, <1>2, <2>1, <2>2, <2>3, WritesWell
<1>4. CASE ~file.hook
  <2> DEFINE e == file.data \o p
             f == [file EXCEPT !.data = e]
  <2>0. /\ file \in FileType /\ file.data \in Seq(Chars) /\ file.pos \in Nat /\ file.pos <= Len(file.data)
        /\ Len(file.data) \in Nat /\ Len(p) \in Nat
    BY <1>0, <1>2 DEF Sane, FileType
  <2>1. file' = Left(f) BY <1>4, <2>0 DEF Put, Leaves, Left, FileType
  <2>2. file.term /\ file.buf_mode = Nbf /\ file.state = "empty" BY <1>0, <1>1, <1>4 DEF Plain, Sane, FileType
  <2>3. e \in Seq(Chars) /\ Len(e) = Len(file.data) + Len(p) BY <2>0, <1>2, ConcatProperties
  <2>4. e = Overlay(file.data, Len(file.data), p) BY <2>0, <1>2, OverlayEnd
  <2> HIDE DEF e
  <2>5. /\ f.data = e /\ f.lost = file.lost /\ f.error = file.error /\ f.eof = file.eof /\ f.pos = file.pos /\ f.buf = file.buf
        /\ f.buf_pos = file.buf_pos /\ f.state = file.state
    BY <2>0 DEF FileType
  <2>6. Alike(file, f) BY <2>0 DEF FileType, Alike
  <2>7. SameBuffer(file, f) BY <2>0 DEF FileType, SameBuffer
  <2>8. f \in FileType BY <2>0, <2>3 DEF FileType
  <2> HIDE DEF f
  <2>9. Sane(f)
    <3>1. f.pos <= Len(f.data) BY <2>0, <2>3, <2>5
    <3> QED BY <3>1, <2>2, <2>5, <2>6, <2>7, <2>8, <1>0 DEF Sane, Alike, SameBuffer
  <2>10. View(f) = e /\ Place(f) = At(f) /\ View(file) = file.data /\ Place(file) = At(file) BY <2>2, <2>5, <2>9, <1>0, ViewIs
  <2>11. At(f) = Len(e) /\ At(file) = Len(file.data) BY <2>2, <2>5, <2>6 DEF At, Alike
  <2>12. Wrote(file, f, p) BY <2>3, <2>4, <2>5, <2>6, <2>9, <2>10, <2>11, <1>1 DEF Wrote
  <2>13. Slack(f) BY <2>2, <2>5 DEF Slack
  <2>14. Plain(f) BY <2>2, <2>6, <2>7 DEF Plain, Alike, SameBuffer
  <2> QED BY <1>1, <1>2, <2>1, <2>12, <2>13, <2>14, WritesWell
<1> QED BY <1>3, <1>4, Zenon

\* Reading
OneText(a, z, p, w, n) ==
    /\ a \in Seq(Chars) /\ z \in Seq(Chars) /\ p \in Seq(Chars) /\ w \in Seq(Chars) /\ n \in Nat
    /\ a \o z = p \o w /\ Len(p) <= n /\ (Len(a) = n \/ z = <<>>)
LEMMA PrefixIs ==
    ASSUME NEW a, NEW z, NEW p, NEW w, NEW n, OneText(a, z, p, w, n)
    PROVE  /\ Len(p) <= Len(a) /\ p = SubSeq(a, 1, Len(p)) /\ \A i \in 1 .. Len(p) : p[i] = a[i]
           /\ (Len(p) = n /\ Len(a) <= n) \/ w = <<>> => p = a
<1> USE DEF OneText
<1> DEFINE x == a \o z
           y == p \o w
<1>1. /\ Len(x) = Len(a) + Len(z) /\ \A i \in 1 .. Len(a) + Len(z) : x[i] = IF i <= Len(a) THEN a[i] ELSE z[i - Len(a)]
  BY ConcatProperties
<1>2. /\ Len(y) = Len(p) + Len(w) /\ \A i \in 1 .. Len(p) + Len(w) : y[i] = IF i <= Len(p) THEN p[i] ELSE w[i - Len(p)]
  BY ConcatProperties
<1>3. x = y OBVIOUS
<1> HIDE DEF x, y
<1> DEFINE la == Len(a)
           lp == Len(p)
           lz == Len(z)
           lw == Len(w)
<1>4. la \in Nat /\ lp \in Nat /\ lz \in Nat /\ lw \in Nat OBVIOUS
<1>5. la + lz = lp + lw BY <1>1, <1>2, <1>3
<1>6. z = <<>> => lz = 0 OBVIOUS
<1>7. w = <<>> => lw = 0 OBVIOUS
<1>8. lp <= n /\ (la = n \/ z = <<>>) OBVIOUS
<1>12. /\ \A i \in 1 .. la + lz : x[i] = IF i <= la THEN a[i] ELSE z[i - la]
       /\ \A i \in 1 .. lp + lw : y[i] = IF i <= lp THEN p[i] ELSE w[i - lp]
  BY <1>1, <1>2
<1>14. 1 \in Nat \ {0} OBVIOUS
<1>15. a \in Seq(Chars) /\ p \in Seq(Chars) OBVIOUS
<1>16. la = Len(a) /\ lp = Len(p) OBVIOUS
<1> HIDE DEF la, lp, lz, lw
<1>9. lp <= la BY <1>4, <1>5, <1>6, <1>8
<1>10. ASSUME NEW i \in 1 .. lp PROVE p[i] = a[i]
  <2>1. i \in 1 .. la + lz /\ i \in 1 .. lp + lw /\ i <= la /\ i <= lp BY <1>4, <1>9
  <2>2. x[i] = a[i] /\ y[i] = p[i] BY <2>1, <1>12
  <2> QED BY <2>2, <1>3
<1> DEFINE s == SubSeq(a, 1, lp)
<1>11. p = s
  <2>1. lp \in 0 .. Len(a) /\ 1 <= lp + 1 /\ lp - 1 + 1 = lp /\ \A m \in 1 .. lp : 1 + m - 1 = m BY <1>4, <1>9, <1>16
  <2>2. s \in Seq(Chars) /\ Len(s) = lp - 1 + 1 /\ \A m \in 1 .. lp - 1 + 1 : s[m] = a[1 + m - 1] BY <2>1, <1>14, <1>15, Piece
  <2> HIDE DEF s
  <2>3. Len(s) = Len(p) /\ \A m \in 1 .. Len(s) : s[m] = p[m] BY <2>1, <2>2, <1>10, <1>16
  <2> QED BY <2>2, <2>3, <1>15, SameSeq
<1>13. (lp = n /\ la <= n) \/ w = <<>> => lp = la BY <1>4, <1>5, <1>6, <1>7, <1>8, <1>9
<1>17. lp = la => p = a BY <1>11, <1>15, <1>16, Whole
<1> QED BY <1>9, <1>10, <1>11, <1>13, <1>17, <1>16

\* The line of a text, once it is known how much of the text was read
LEMMA LineOfIs ==
    ASSUME NEW a \in Seq(Chars), NEW p \in Seq(Chars), Len(p) <= Len(a), p = SubSeq(a, 1, Len(p)), \A i \in 1 .. Len(p) : p[i] = a[i]
    PROVE  /\ LineOf(a) \in Seq(Chars)
           /\ Ends(p) => LineOf(a) = p
           /\ ~HasNL(p) => p = SubSeq(LineOf(a), 1, Len(p)) /\ (p = a => LineOf(a) = p)
<1>0. Len(a) \in Nat /\ Len(p) \in Nat /\ DOMAIN a = 1 .. Len(a) /\ DOMAIN p = 1 .. Len(p) BY LenProperties
<1>1. CASE ~HasNL(a)
  <2>1. LineOf(a) = a BY <1>1 DEF LineOf
  <2>2. ~Ends(p)
    <3>1. SUFFICES ASSUME Ends(p) PROVE FALSE OBVIOUS
    <3>2. Len(p) \in 1 .. Len(p) /\ p[Len(p)] = NL BY <3>1, <1>0 DEF Ends
    <3>3. Len(p) \in DOMAIN a /\ a[Len(p)] = NL BY <3>2, <1>0
    <3> QED BY <3>3, <1>1 DEF HasNL
  <2> QED BY <2>1, <2>2
<1>2. CASE HasNL(a)
  <2> DEFINE T == {i \in DOMAIN a : a[i] = NL}
             First(i) == i \in DOMAIN a /\ a[i] = NL /\ \A j \in 1 .. i - 1 : a[j] # NL
             k == CHOOSE i \in DOMAIN a : a[i] = NL /\ \A j \in 1 .. i - 1 : a[j] # NL
  <2>1. T # {} /\ T \in SUBSET Nat BY <1>2, <1>0 DEF HasNL
  <2>2. Soonest(T) \in T /\ \A y \in T : Soonest(T) <= y BY <2>1, LeastOf
  <2> DEFINE s == Soonest(T)
  <2> HIDE DEF s
  <2>3. s \in DOMAIN a /\ a[s] = NL BY <2>2 DEF s
  <2>4. ASSUME NEW j \in 1 .. s - 1 PROVE a[j] # NL
    <3>1. SUFFICES ASSUME a[j] = NL PROVE FALSE OBVIOUS
    <3>2. j \in T BY <3>1, <2>3, <1>0
    <3>3. s <= j BY <3>2, <2>2 DEF s
    <3> QED BY <3>3, <2>3, <1>0
  <2>5. First(k) BY <2>3, <2>4
  <2>6. LineOf(a) = SubSeq(a, 1, k) BY <1>2 DEF LineOf
  <2> HIDE DEF k
  <2>7. k \in 1 .. Len(a) /\ a[k] = NL /\ \A j \in 1 .. k - 1 : a[j] # NL BY <2>5, <1>0
  <2>8. LineOf(a) \in Seq(Chars)
    <3>1. 1 \in Nat \ {0} /\ k \in 0 .. Len(a) /\ 1 <= k + 1 BY <2>7, <1>0
    <3> QED BY <3>1, <2>6, Piece
  <2>9. ASSUME Ends(p) PROVE LineOf(a) = p
    <3>1. Len(p) \in 1 .. Len(a) /\ a[Len(p)] = NL /\ \A j \in 1 .. Len(p) - 1 : a[j] # NL
      <4>1. Len(p) \in 1 .. Len(p) /\ p[Len(p)] = NL /\ \A j \in 1 .. Len(p) - 1 : p[j] # NL BY <2>9, <1>0 DEF Ends
      <4>2. a[Len(p)] = NL BY <4>1
      <4>3. \A j \in 1 .. Len(p) - 1 : j \in 1 .. Len(p) BY <1>0
      <4>4. \A j \in 1 .. Len(p) - 1 : a[j] # NL BY <4>1, <4>3
      <4> QED BY <4>1, <4>2, <4>4, <1>0
    <3> DEFINE l == Len(p)
    <3> HIDE DEF l
    <3>2. l \in 1 .. Len(a) /\ a[l] = NL /\ \A j \in 1 .. l - 1 : a[j] # NL BY <3>1 DEF l
    <3>3. ~(k < l) BY <3>2, <2>7, <1>0
    <3>4. ~(l < k) BY <3>2, <2>7, <1>0
    <3>5. k = l BY <3>2, <3>3, <3>4, <2>7
    <3> QED BY <3>5, <2>6 DEF l
  <2>10. ASSUME ~HasNL(p) PROVE p = SubSeq(LineOf(a), 1, Len(p)) /\ p # a
    <3>1. ~(k <= Len(p))
      <4>1. SUFFICES ASSUME k <= Len(p) PROVE FALSE OBVIOUS
      <4>2. k \in DOMAIN p BY <4>1, <2>7, <1>0
      <4>3. p[k] = a[k] BY <4>2, <1>0
      <4> QED BY <4>2, <4>3, <2>7, <2>10 DEF HasNL
    <3> DEFINE l == Len(p)
               b == SubSeq(a, 1, k)
               c == SubSeq(b, 1, l)
    <3>6. p \in Seq(Chars) /\ p = SubSeq(a, 1, l) /\ \A i \in 1 .. l : p[i] = a[i] OBVIOUS
    <3>7. l = Len(p) OBVIOUS
    <3>8. l \in Nat /\ l < k BY <3>1, <2>7, <1>0
    <3> HIDE DEF l
    <3>2. 1 \in Nat \ {0} /\ k \in 0 .. Len(a) /\ 1 <= k + 1 /\ k - 1 + 1 = k BY <2>7, <1>0
    <3>3. b \in Seq(Chars) /\ Len(b) = k - 1 + 1 /\ \A m \in 1 .. k - 1 + 1 : b[m] = a[1 + m - 1] BY <3>2, Piece
    <3> HIDE DEF b
    <3>4. l \in 0 .. Len(b) /\ 1 <= l + 1 /\ l - 1 + 1 = l BY <3>2, <3>3, <3>8, <2>7
    <3>5. c \in Seq(Chars) /\ Len(c) = l - 1 + 1 /\ \A m \in 1 .. l - 1 + 1 : c[m] = b[1 + m - 1] BY <3>2, <3>3, <3>4, Piece
    <3> HIDE DEF c
    <3>9. ASSUME NEW m \in 1 .. l PROVE c[m] = p[m]
      <4>1. 1 + m - 1 = m /\ m \in 1 .. k - 1 + 1 /\ m \in 1 .. l - 1 + 1 BY <3>8, <3>2, <3>4, <2>7
      <4>2. c[m] = b[m] /\ b[m] = a[m] BY <4>1, <3>3, <3>5
      <4> QED BY <4>2, <3>6
    <3>10. Len(c) = Len(p) /\ \A m \in 1 .. Len(c) : c[m] = p[m] BY <3>4, <3>5, <3>7, <3>9
    <3>11. c = p BY <3>5, <3>6, <3>10, SameSeq
    <3>12. p # a BY <3>8, <3>7, <2>7, <1>0
    <3> QED BY <3>11, <3>12, <2>6 DEF c, b, l
  <2> QED BY <2>8, <2>9, <2>10
<1> QED BY <1>1, <1>2

\* What the program is owed is the start of what is coming.
LEMMA AheadIs ==
    ASSUME StreamInv, ~file.lost, ~file.std, NEW n \in Nat \ {0}
    PROVE  /\ Ahead(n) \in Seq(Chars) /\ Len(Ahead(n)) <= n
           /\ \E z \in Seq(Chars) : Coming(file) = Ahead(n) \o z /\ (Len(Ahead(n)) = n \/ z = <<>>)
<1>0. Sane(file) /\ Good(file, told) BY DEF StreamInv, Believed
<1> DEFINE d == told.data
           a == told.at
           b == Pushed
           k == Len(b)
           l == Len(d)
           m == Fewer(a + n - k, l)
           x == SubSeq(d, a + 1, m)
           z == SubSeq(d, m + 1, l)
           y == SubSeq(d, a + 1, l)
<1>1. /\ View(file) = d /\ Where(file) = a /\ Back(file) = b BY <1>0 DEF Good, Back, Pushed
<1>2. /\ d \in Seq(Chars) /\ a \in 0 .. l /\ b \in Seq(Chars) /\ k \in {0, 1} /\ y \in Seq(Chars) BY <1>0, <1>1, ComingIs
<1>3. Coming(file) = b \o y BY <1>1 DEF Coming
<1>4. Ahead(n) = b \o x BY DEF Ahead
<1>5. l \in Nat /\ l = Len(d) /\ k = Len(b) BY <1>2
<1>6. m \in a .. l /\ (m = l \/ m = a + n - k) /\ m <= a + n - k
  <2>1. m = IF a + n - k <= l THEN a + n - k ELSE l BY DEF Fewer
  <2>2. a \in 0 .. l /\ k \in {0, 1} BY <1>2
  <2>3. n \in Nat \ {0} OBVIOUS
  <2> HIDE DEF a, l, k, m
  <2>4. l \in Nat BY <1>5
  <2> QED BY <2>1, <2>2, <2>3, <2>4
<1> HIDE DEF m, b, d, a, k, l
<1>7. x \o z = y
  <2>1. a + 1 \in 1 .. Len(d) + 1 /\ m \in (a + 1) - 1 .. Len(d) /\ l \in m .. Len(d) BY <1>2, <1>5, <1>6
  <2> QED BY <2>1, <1>2, ConcatAdjacentSubSeq
<1>8. x \in Seq(Chars) /\ Len(x) = m - a
  <2> DEFINE i == a + 1
  <2>1. i \in Nat \ {0} /\ m \in 0 .. Len(d) /\ i <= m + 1 /\ m - i + 1 = m - a BY <1>2, <1>5, <1>6
  <2>2. x = SubSeq(d, i, m) OBVIOUS
  <2> HIDE DEF i, x
  <2>3. x \in Seq(Chars) /\ Len(x) = m - i + 1 BY <2>1, <2>2, <1>2, Piece
  <2> QED BY <2>1, <2>3
<1>9. z \in Seq(Chars) /\ (m = l => z = <<>>)
  <2> DEFINE i == m + 1
  <2>1. i \in Nat \ {0} /\ l \in 0 .. Len(d) /\ i <= l + 1 /\ (m = l => l < i) /\ i \in Int /\ l \in Int BY <1>2, <1>5, <1>6
  <2>2. z = SubSeq(d, i, l) OBVIOUS
  <2> HIDE DEF i, z
  <2>3. z \in Seq(Chars) BY <2>1, <2>2, <1>2, Piece
  <2>4. m = l => z = <<>> BY <2>1, <2>2, SubSeqEmpty
  <2> QED BY <2>3, <2>4
<1> HIDE DEF x, y, z
<1> DEFINE q == b \o x
<1>10. q \in Seq(Chars) /\ Len(q) = k + (m - a) BY ZenonT(60), <1>2, <1>5, <1>8, ConcatProperties
<1>11. q \o z = b \o y
  <2>1. (b \o x) \o z = b \o (x \o z) BY ZenonT(60), <1>2, <1>8, <1>9, Assoc
  <2> QED BY <2>1, <1>7
<1> HIDE DEF q
<1>12. Ahead(n) = q BY <1>4 DEF q
<1>13. Len(q) <= n /\ (Len(q) = n \/ m = l) BY <1>10, <1>6, <1>2, <1>5
<1> QED BY <1>3, <1>9, <1>10, <1>11, <1>12, <1>13

\* Clear is the way each read begins.
LEMMA ClearIs == ASSUME StreamInv, ~file.lost, MayRead
  PROVE LET c == Clear(file)
        IN  /\ Sane(c) /\ ~c.std /\ ~file.std /\ c.got = <<>> /\ Coming(c) = Coming(file) /\ Slack(c) /\ c.open /\ ~c.lost
            /\ View(c) = View(file) /\ Where(c) = Where(file) /\ c.unget = file.unget
<1> DEFINE no == FALSE
           c == Marked(file, no, no)
<1>0. Sane(file) /\ file.got = <<>> /\ Slack(file) BY DEF StreamInv, Believed
<1>1. no \in BOOLEAN OBVIOUS
<1>2. Clear(file) = c BY DEF Clear, Marked
<1>3. ~file.std /\ file.open BY <1>0 DEF Sane, MayRead
<1> HIDE DEF no, c
<1>4. /\ Sane(c) /\ Alike(file, c) /\ c.lost = file.lost /\ Coming(c) = Coming(file) /\ View(c) = View(file) /\ Where(c) = Where(file)
      /\ Reads(file, c)
  BY <1>0, <1>1, <1>3, MarksAre DEF c
<1>5. ~c.std /\ c.got = <<>> /\ c.open /\ c.unget = file.unget BY <1>0, <1>3, <1>4 DEF Alike
<1>6. Slack(c) BY <1>0, <1>4 DEF Reads
<1> QED BY <1>2, <1>3, <1>4, <1>5, <1>6

\* What a read must give for the program to be told the truth
LEMMA AnswersWell ==
    ASSUME StreamInv, ~file.lost, MayRead, NEW g, Reads(Clear(file), g), NEW n \in Nat \ {0}, NEW owed \in Seq(Chars),
           Answer(g, n, owed), Len(g.got) <= n,
           ~g.lost => /\ g.got = SubSeq(owed, 1, Len(g.got)) /\ (~g.error => g.got = owed)
                      /\ (Len(owed) < n /\ g.got = <<>> => g.eof \/ g.error)
    PROVE  StreamInv'
<1> DEFINE c == Clear(file)
<1>0. Sane(file) /\ Believed(file, told) /\ told \in ToldType /\ Good(file, told) BY DEF StreamInv, Believed
<1>1. /\ Sane(c) /\ ~c.std /\ ~file.std /\ c.got = <<>> /\ Slack(c) /\ c.open
      /\ View(c) = View(file) /\ Where(c) = Where(file) /\ c.unget = file.unget
  BY ClearIs
<1> HIDE DEF c
<1>2. Reads(c, g) BY DEF c
<1>3. Sane(g) /\ Slack(g) /\ ~g.std /\ g.open BY <1>1, <1>2 DEF Reads, Fixed
<1>4. file' = Left(g) BY DEF Answer, Leaves, Left
<1> DEFINE p == g.got
           said == [got |-> p, eof |-> g.eof, error |-> g.error, asked |-> n]
           back == IF p = <<>> THEN told.back ELSE NoChar
           at == told.at + Len(p) - IF p = <<>> THEN 0 ELSE Len(Pushed)
<1>5. told' = [told EXCEPT !.said = said, !.owed = owed, !.back = back, !.at = at] BY <1>0 DEF Answer, ToldType
<1>6. p \in Seq(Chars) /\ g.eof \in BOOLEAN /\ g.error \in BOOLEAN BY <1>3 DEF Sane, FileType
<1>7. said \in Said BY <1>6 DEF Said
<1>8. back \in Chars \cup {NoChar} BY <1>0 DEF ToldType
<1>9. Len(Pushed) \in {0, 1} /\ Pushed = Back(file)
  <2>1. Pushed = Back(file) BY <1>0 DEF Good, Pushed, Back
  <2>2. Len(Back(file)) \in {0, 1} BY <1>0, <1>1, ComingIs
  <2> QED BY <2>1, <2>2
<1>10. at \in Int
  <2> DEFINE lp == Len(p)
             h == Len(Pushed)
             w == IF p = <<>> THEN 0 ELSE h
  <2>1. told.at \in Int /\ lp \in Nat BY <1>0, <1>6 DEF ToldType
  <2>2. w \in {0, 1} BY <1>9
  <2>3. at = told.at + lp - w OBVIOUS
  <2> HIDE DEF lp, h, w, at
  <2> QED BY <2>1, <2>2, <2>3
<1>11. said.got = p /\ said.eof = g.eof /\ said.error = g.error /\ said.asked = n OBVIOUS
<1>18. back = (IF p = <<>> THEN told.back ELSE NoChar) /\ at = told.at + Len(p) - (IF p = <<>> THEN 0 ELSE Len(Pushed)) OBVIOUS
<1> HIDE DEF said, back, at
<1>12. told' \in ToldType BY <1>0, <1>5, <1>7, <1>8, <1>10 DEF ToldType
<1>13. told'.data = told.data /\ told'.at = at /\ told'.back = back /\ told'.said = said /\ told'.owed = owed BY <1>0, <1>5 DEF ToldType
<1>14. ASSUME ~g.lost PROVE SaysWhy(told')
  <2> DEFINE t == told'
  <2>1. t.said = said /\ t.owed = owed BY <1>13
  <2>2. p = SubSeq(owed, 1, Len(p)) /\ (~g.error => p = owed) /\ (Len(owed) < n /\ p = <<>> => g.eof \/ g.error) BY <1>14
  <2> HIDE DEF t, p
  <2> QED BY <2>1, <2>2, <1>11 DEF SaysWhy, t
<1>15. ASSUME ~g.lost PROVE Good(g, told')
  <2>1. PICK q \in Seq(Chars) : GaveAll(c, g, q) BY <1>2, <1>15 DEF Reads
  <2>2. p = q
    <3>1. p = <<>> \o q BY <2>1, <1>1 DEF GaveAll
    <3> QED BY <3>1, ConcatEmptySeq
  <2>3. View(g) = told.data BY <2>1, <1>0, <1>1 DEF GaveAll, Good
  <2>4. g.unget = back BY <2>1, <2>2, <1>0, <1>1, <1>18 DEF GaveAll, Good
  <2>5. Where(g) = at
    <3> DEFINE v == Where(g)
               u == Where(c)
               i == Len(Back(g))
               j == Len(Back(c))
               k == Len(p)
               h == Len(Pushed)
    <3>1. v - i = u - j + k BY <2>1, <2>2 DEF GaveAll
    <3>2. Back(c) = Pushed BY <1>1, <1>9 DEF Back
    <3>3. v \in Int /\ u \in Int /\ i \in {0, 1} /\ j \in {0, 1} BY <1>1, <1>3, ComingIs
    <3>4. k \in Nat BY <1>6
    <3>5. told.at = u BY <1>0, <1>1 DEF Good
    <3>6. j = h BY <3>2
    <3>7. p = <<>> => k = 0 /\ i = j
      <4>1. ASSUME p = <<>> PROVE k = 0 /\ Back(g) = Back(c)
        <5>1. g.unget = c.unget BY <4>1, <2>1, <2>2 DEF GaveAll
        <5>2. Len(<<>>) = 0 OBVIOUS
        <5> QED BY <4>1, <5>1, <5>2 DEF Back
      <4> QED BY <4>1
    <3>8. p # <<>> => i = 0
      <4>1. ASSUME p # <<>> PROVE Back(g) = <<>>
        <5>1. g.unget = NoChar BY <4>1, <2>1, <2>2 DEF GaveAll
        <5> QED BY <5>1 DEF Back
      <4>2. Len(<<>>) = 0 OBVIOUS
      <4> QED BY <4>1, <4>2
    <3>9. at = told.at + k - (IF p = <<>> THEN 0 ELSE h) BY <1>18
    <3> HIDE DEF v, u, i, j, k, h
    <3>10. v = at
      <4>1. CASE p = <<>>
        <5>1. at = told.at + k - 0 BY <3>9, <4>1
        <5> QED BY <5>1, <4>1, <3>1, <3>3, <3>4, <3>5, <3>7
      <4>2. CASE p # <<>>
        <5>1. at = told.at + k - h BY <3>9, <4>2
        <5> QED BY <5>1, <4>2, <3>1, <3>3, <3>4, <3>5, <3>6, <3>8
      <4> QED BY <4>1, <4>2
    <3> QED BY <3>10 DEF v
  <2> QED BY <2>3, <2>4, <2>5, <1>13 DEF Good
<1>16. Plain(g) BY <1>3 DEF Plain
<1>17. g.lost \/ Believed(g, told') BY <1>3, <1>12, <1>14, <1>15, <1>16 DEF Believed
<1> QED BY <1>3, <1>4, <1>17, Settles

\* What the bytes a read gave are of those it owed
LEMMA GivenIs ==
    ASSUME StreamInv, ~file.lost, MayRead, NEW n \in Nat \ {0}, NEW g, Reads(Clear(file), g), ~g.lost, Len(g.got) <= n
    PROVE  /\ g.got \in Seq(Chars) /\ Len(g.got) <= Len(Ahead(n)) /\ g.got = SubSeq(Ahead(n), 1, Len(g.got))
           /\ \A i \in 1 .. Len(g.got) : g.got[i] = Ahead(n)[i]
           /\ Len(g.got) = n \/ Coming(g) = <<>> => g.got = Ahead(n)
<1> DEFINE c == Clear(file)
<1>1. Sane(c) /\ ~c.std /\ ~file.std /\ c.got = <<>> /\ Coming(c) = Coming(file) BY ClearIs
<1> HIDE DEF c
<1>2. Reads(c, g) BY DEF c
<1>3. PICK q \in Seq(Chars) : GaveAll(c, g, q) BY <1>2 DEF Reads
<1>4. g.got = <<>> \o q /\ Coming(file) = q \o Coming(g) BY <1>1, <1>3 DEF GaveAll
<1>5. g.got = q BY <1>4, ConcatEmptySeq
<1>6. Coming(g) \in Seq(Chars)
  <2>1. Sane(g) /\ ~g.std BY <1>1, <1>2 DEF Reads, Fixed
  <2> QED BY <2>1, ComingIs
<1>7. Ahead(n) \in Seq(Chars) /\ Len(Ahead(n)) <= n BY <1>1, AheadIs
<1>8. PICK z \in Seq(Chars) : Coming(file) = Ahead(n) \o z /\ (Len(Ahead(n)) = n \/ z = <<>>) BY <1>1, AheadIs
<1> DEFINE a == Ahead(n)
           w == Coming(g)
           p == g.got
<1>10. n \in Nat OBVIOUS
<1>9. OneText(a, z, p, w, n) /\ Len(a) <= n /\ p \in Seq(Chars)
  BY <1>4, <1>5, <1>6, <1>7, <1>8, <1>10 DEF OneText
<1> HIDE DEF a, w, p
<1>11. /\ Len(p) <= Len(a) /\ p = SubSeq(a, 1, Len(p)) /\ \A i \in 1 .. Len(p) : p[i] = a[i]
       /\ (Len(p) = n /\ Len(a) <= n) \/ w = <<>> => p = a
  BY <1>9, PrefixIs
<1> QED BY <1>9, <1>11 DEF a, w, p

LEMMA FreadStep == ASSUME StreamInv, ~file.lost, NEW n \in Sizes, Fread(n) PROVE StreamInv'
<1> DEFINE c == Clear(file)
           g == OpsRead(c, n)
           a == Ahead(n)
<1>0. n \in Nat \ {0} BY StreamAssumption
<1>1. MayRead /\ Answer(g, n, a) BY DEF Fread
<1>2. Sane(c) /\ ~c.std /\ c.got = <<>> /\ ~file.std BY <1>1, ClearIs
<1> HIDE DEF c, g
<1>3. /\ Reads(c, g) /\ Len(g.got) <= n
      /\ Len(g.got) = n \/ ((g.error \/ Coming(g) = <<>>) /\ (g.eof \/ g.error))
  BY <1>0, <1>2, OpsReadIs DEF g
<1>4. Reads(Clear(file), g) BY <1>3 DEF c
<1>5. a \in Seq(Chars) BY <1>0, <1>2, AheadIs
<1>6. ASSUME ~g.lost
      PROVE /\ g.got = SubSeq(a, 1, Len(g.got)) /\ (~g.error => g.got = a)
            /\ (Len(a) < n /\ g.got = <<>> => g.eof \/ g.error)
  <2>1. g.got = SubSeq(a, 1, Len(g.got)) /\ (Len(g.got) = n \/ Coming(g) = <<>> => g.got = a) BY <1>0, <1>1, <1>3, <1>4, <1>6, GivenIs
  <2>2. Len(<<>>) = 0 OBVIOUS
  <2>3. Len(g.got) = n => g.got # <<>> BY <2>2, <1>0
  <2> HIDE DEF a
  <2> QED BY <2>1, <2>3, <1>3
<1> HIDE DEF a
<1> QED BY <1>0, <1>1, <1>3, <1>4, <1>5, <1>6, AnswersWell

LEMMA FgetsStep == ASSUME StreamInv, ~file.lost, NEW n \in Sizes, Fgets(n) PROVE StreamInv'
<1> DEFINE c == Clear(file)
           g == Line(c, n)[n].f
           a == Ahead(n)
           l == LineOf(a)
           p == g.got
<1>0. n \in Nat \ {0} BY StreamAssumption
<1>1. MayRead /\ Answer(g, n, l) BY DEF Fgets
<1>2. Sane(c) /\ ~c.std /\ c.got = <<>> /\ ~file.std BY <1>1, ClearIs
<1> HIDE DEF c, g
<1>3. /\ Reads(c, g) /\ Len(g.got) <= n
      /\ ~g.lost => \/ Ends(g.got) \/ (~HasNL(g.got) /\ Len(g.got) = n)
                    \/ (~HasNL(g.got) /\ g.eof /\ (g.error \/ Coming(g) = <<>>))
  BY <1>0, <1>2, LineReads DEF g
<1>4. Reads(Clear(file), g) BY <1>3 DEF c
<1>5. a \in Seq(Chars) BY <1>0, <1>2, AheadIs
<1>6. ASSUME ~g.lost
      PROVE /\ l \in Seq(Chars) /\ p = SubSeq(l, 1, Len(p)) /\ (~g.error => p = l)
            /\ (Len(l) < n /\ p = <<>> => g.eof \/ g.error)
  <2>1. /\ p \in Seq(Chars) /\ Len(p) <= Len(a) /\ p = SubSeq(a, 1, Len(p)) /\ \A i \in 1 .. Len(p) : p[i] = a[i]
        /\ Len(p) = n \/ Coming(g) = <<>> => p = a
    BY <1>0, <1>1, <1>3, <1>4, <1>6, GivenIs
  <2> HIDE DEF a, p
  <2>2. l \in Seq(Chars) /\ (Ends(p) => l = p) /\ (~HasNL(p) => p = SubSeq(l, 1, Len(p)) /\ (p = a => l = p))
    BY <2>1, <1>5, LineOfIs
  <2>3. Len(<<>>) = 0 OBVIOUS
  <2>4. \/ Ends(p) \/ (~HasNL(p) /\ Len(p) = n)
        \/ (~HasNL(p) /\ g.eof /\ (g.error \/ Coming(g) = <<>>))
    BY <1>3, <1>6 DEF p
  <2>5. p = SubSeq(p, 1, Len(p)) BY <2>1, Whole
  <2>6. CASE Ends(p)
    <3>1. l = p /\ Len(p) > 0 BY <2>6, <2>2 DEF Ends
    <3>2. p # <<>> BY <3>1, <2>3
    <3>3. p = SubSeq(l, 1, Len(p)) BY <2>5, <3>1
    <3> HIDE DEF l
    <3> QED BY <2>2, <3>1, <3>2, <3>3
  <2>7. CASE ~HasNL(p) /\ Len(p) = n
    <3>1. l = p BY <2>7, <2>1, <2>2
    <3>2. p # <<>> BY <2>7, <2>3, <1>0
    <3> HIDE DEF l
    <3> QED BY <2>2, <2>7, <3>1, <3>2
  <2>8. CASE ~HasNL(p) /\ g.eof /\ (g.error \/ Coming(g) = <<>>)
    <3>1. Coming(g) = <<>> => l = p BY <2>8, <2>1, <2>2
    <3> HIDE DEF l
    <3> QED BY <2>2, <2>8, <3>1
  <2> QED BY <2>4, <2>6, <2>7, <2>8
<1>7. l \in Seq(Chars)
  <2>1. <<>> \in Seq(Chars) /\ Len(<<>>) = 0 /\ \A i \in 1 .. Len(<<>>) : <<>>[i] = a[i] OBVIOUS
  <2> DEFINE nil == <<>>
  <2>2. SubSeq(a, 1, 0) = <<>> BY SubSeqEmpty
  <2>3. nil \in Seq(Chars) /\ Len(nil) <= Len(a) /\ nil = SubSeq(a, 1, Len(nil)) /\ \A i \in 1 .. Len(nil) : nil[i] = a[i]
    BY <2>1, <2>2, <1>5
  <2> HIDE DEF nil, a
  <2> QED BY <2>3, <1>5, LineOfIs
<1> HIDE DEF a, l
<1> QED BY <1>0, <1>1, <1>3, <1>4, <1>6, <1>7, AnswersWell

\* The other steps
Retold(t, d, at, back) == [t EXCEPT !.data = d, !.at = at, !.back = back, !.said = <<>>, !.owed = <<>>]
LEMMA Retelling ==
    ASSUME told \in ToldType, NEW d \in Seq(Chars), NEW at \in Int, NEW back \in Chars \cup {NoChar}, told' = Retold(told, d, at, back)
    PROVE  told' \in ToldType /\ told'.data = d /\ told'.at = at /\ told'.back = back /\ SaysWhy(told')
<1> DEFINE nil == <<>>
<1>1. told' = [told EXCEPT !.data = d, !.at = at, !.back = back, !.said = nil, !.owed = nil] BY DEF Retold
<1>2. nil \in Seq(Chars) /\ nil \in Said /\ nil = <<>> BY DEF Said
<1> HIDE DEF nil
<1>3. told' \in ToldType BY <1>1, <1>2 DEF ToldType
<1>4. told'.data = d /\ told'.at = at /\ told'.back = back /\ told'.said = nil BY <1>1 DEF ToldType
<1> QED BY <1>2, <1>3, <1>4 DEF SaysWhy

\* What the step leaves is what the program is told.
LEMMA SettlesAs ==
    ASSUME StreamInv, ~file.lost, NEW f, Sane(f), Slack(f), file' = Left(f), ~f.open => f.state # "writing",
           NEW d \in Seq(Chars), NEW at \in Int, NEW back \in Chars \cup {NoChar}, told' = Retold(told, d, at, back),
           ~f.lost => Plain(f) /\ View(f) = d /\ f.unget = back /\ (f.std \/ Where(f) = at)
    PROVE  StreamInv'
<1>1. told \in ToldType BY DEF StreamInv, Believed
<1>2. told' \in ToldType /\ told'.data = d /\ told'.at = at /\ told'.back = back /\ SaysWhy(told') BY <1>1, Retelling
<1>3. f.lost \/ Believed(f, told') BY <1>2 DEF Believed, Good
<1> QED BY <1>3, Settles

\* What an operation of the buffer changes that no byte depends on
Retouched(f, g) ==
    /\ g \in FileType /\ SameBuffer(f, g) /\ g.std = f.std /\ g.readable = f.readable /\ g.append = f.append /\ g.term = f.term
    /\ g.data = f.data /\ g.pos = f.pos /\ g.buf = f.buf /\ g.buf_pos = f.buf_pos /\ g.state = f.state /\ g.lost = f.lost
LEMMA RetouchedIs == ASSUME NEW f, Sane(f), NEW g, Retouched(f, g)
  PROVE Sane(g) /\ View(g) = View(f) /\ Place(g) = Place(f) /\ Where(g) = Where(f) /\ (Slack(f) => Slack(g))
<1>1. Sane(g) BY DEF Retouched, Sane, SameBuffer, ReadAhead
<1>2. Unread(g) = Unread(f) /\ Pending(g) = Pending(f) BY DEF Unread, Pending, Retouched
<1>3. At(g) = At(f) BY <1>2 DEF At, Retouched
<1>4. View(g) = View(f) /\ Place(g) = Place(f) /\ Where(g) = Where(f) BY <1>2, <1>3 DEF View, Place, Where, Retouched
<1> QED BY <1>1, <1>4 DEF Slack, Retouched, SameBuffer

LEMMA NothingIs == ASSUME StreamInv, ~file.lost, Nothing
  PROVE /\ told' = Retold(told, told.data, told.at, told.back) /\ told.data \in Seq(Chars) /\ told.at \in Int /\ told.back \in Chars \cup {NoChar}
        /\ View(file) = told.data /\ file.unget = told.back /\ (file.std \/ Where(file) = told.at) /\ Sane(file) /\ Slack(file) /\ Plain(file)
<1>1. told \in ToldType /\ Good(file, told) /\ Sane(file) /\ Slack(file) /\ Plain(file) BY DEF StreamInv, Believed
<1>2. told' = Retold(told, told.data, told.at, told.back) BY <1>1 DEF Nothing, Retold, ToldType
<1> QED BY <1>1, <1>2 DEF ToldType, Good

LEMMA FlagStep ==
    ASSUME StreamInv, ~file.lost, Retouched(file, file'), file'.got = file.got, file'.open = file.open, file'.hook = file.hook,
           NEW back \in Chars \cup {NoChar}, file'.unget = back, told' = Retold(told, told.data, told.at, back)
    PROVE  StreamInv'
<1>1. told \in ToldType /\ Good(file, told) /\ Sane(file) /\ Slack(file) /\ Plain(file) /\ file.got = <<>> BY DEF StreamInv, Believed
<1>2. told.data \in Seq(Chars) /\ told.at \in Int BY <1>1 DEF ToldType
<1>3. told' \in ToldType /\ told'.data = told.data /\ told'.at = told.at /\ told'.back = back /\ SaysWhy(told') BY <1>1, <1>2, Retelling
<1> DEFINE g == file'
<1>5. Retouched(file, g) /\ g.got = file.got /\ g.open = file.open /\ g.hook = file.hook /\ g.unget = back OBVIOUS
<1> HIDE DEF g
<1>4. Sane(g) /\ View(g) = View(file) /\ Where(g) = Where(file) /\ Slack(g) BY <1>1, <1>5, RetouchedIs
<1>6. g.std = file.std /\ g.state = file.state /\ Plain(g) BY <1>1, <1>5 DEF Retouched, Plain, SameBuffer
<1>7. Good(g, told') BY <1>1, <1>3, <1>4, <1>5, <1>6 DEF Good
<1>8. Sane(g) /\ (~g.open => g.state # "writing") /\ Believed(g, told') /\ g.got = <<>>
  BY <1>1, <1>3, <1>4, <1>5, <1>6, <1>7 DEF Believed, StreamInv
<1> QED BY <1>8 DEF g, StreamInv

LEMMA UngetcStep == ASSUME StreamInv, ~file.lost, NEW c \in Chars, Ungetc(c) PROVE StreamInv'
<1>1. file \in FileType /\ told \in ToldType BY DEF StreamInv, Sane, Believed
<1> DEFINE no == FALSE
<1>2. file' = [file EXCEPT !.unget = c, !.eof = no] BY DEF Ungetc
<1>3. no \in BOOLEAN OBVIOUS
<1> HIDE DEF no
<1>4. file' \in FileType BY <1>1, <1>2, <1>3 DEF FileType
<1>5. SameBuffer(file, file') BY <1>1, <1>2 DEF FileType, SameBuffer
<1>6. /\ file'.std = file.std /\ file'.readable = file.readable /\ file'.append = file.append /\ file'.term = file.term
      /\ file'.data = file.data /\ file'.pos = file.pos /\ file'.buf = file.buf /\ file'.buf_pos = file.buf_pos
      /\ file'.state = file.state /\ file'.lost = file.lost
  BY <1>1, <1>2 DEF FileType
<1>7. Retouched(file, file') BY <1>4, <1>5, <1>6 DEF Retouched
<1>8. file'.got = file.got /\ file'.open = file.open /\ file'.hook = file.hook /\ file'.unget = c BY <1>1, <1>2 DEF FileType
<1>9. told' = Retold(told, told.data, told.at, c) BY <1>1 DEF Ungetc, Retold, ToldType
<1> QED BY <1>7, <1>8, <1>9, FlagStep

LEMMA BreakStep == ASSUME StreamInv, ~file.lost, Break PROVE StreamInv'
<1>1. file \in FileType BY DEF StreamInv, Sane
<1> DEFINE yes == TRUE
<1>2. file' = [file EXCEPT !.bad = yes] BY DEF Break
<1>3. yes \in BOOLEAN OBVIOUS
<1> HIDE DEF yes
<1>4. file' \in FileType BY SMTT(30), <1>1, <1>2, <1>3 DEF FileType
<1>5. SameBuffer(file, file') BY <1>1, <1>2 DEF FileType, SameBuffer
<1>6. /\ file'.std = file.std /\ file'.readable = file.readable /\ file'.append = file.append /\ file'.term = file.term
      /\ file'.data = file.data /\ file'.pos = file.pos /\ file'.buf = file.buf /\ file'.buf_pos = file.buf_pos
      /\ file'.state = file.state /\ file'.lost = file.lost
  BY <1>1, <1>2 DEF FileType
<1>7. Retouched(file, file') BY <1>4, <1>5, <1>6 DEF Retouched
<1>8. file'.got = file.got /\ file'.open = file.open /\ file'.hook = file.hook /\ file'.unget = file.unget BY <1>1, <1>2 DEF FileType
<1>9. told' = Retold(told, told.data, told.at, told.back) /\ told.back \in Chars \cup {NoChar} /\ file.unget = told.back BY NothingIs DEF Break
<1> QED BY <1>7, <1>8, <1>9, FlagStep

LEMMA RunOutStep == ASSUME StreamInv, ~file.lost, RunOut PROVE StreamInv'
<1>1. file \in FileType BY DEF StreamInv, Sane
<1> DEFINE yes == TRUE
<1>2. file' = [file EXCEPT !.nomem = yes] BY DEF RunOut
<1>3. yes \in BOOLEAN OBVIOUS
<1> HIDE DEF yes
<1>4. file' \in FileType BY SMTT(30), <1>1, <1>2, <1>3 DEF FileType
<1>5. SameBuffer(file, file') BY <1>1, <1>2 DEF FileType, SameBuffer
<1>6. /\ file'.std = file.std /\ file'.readable = file.readable /\ file'.append = file.append /\ file'.term = file.term
      /\ file'.data = file.data /\ file'.pos = file.pos /\ file'.buf = file.buf /\ file'.buf_pos = file.buf_pos
      /\ file'.state = file.state /\ file'.lost = file.lost
  BY <1>1, <1>2 DEF FileType
<1>7. Retouched(file, file') BY <1>4, <1>5, <1>6 DEF Retouched
<1>8. file'.got = file.got /\ file'.open = file.open /\ file'.hook = file.hook /\ file'.unget = file.unget BY <1>1, <1>2 DEF FileType
<1>9. told' = Retold(told, told.data, told.at, told.back) /\ told.back \in Chars \cup {NoChar} /\ file.unget = told.back BY NothingIs DEF RunOut
<1> QED BY <1>7, <1>8, <1>9, FlagStep

\* What flushing and dropping what was read ahead leave
LEMMA RestedIs == ASSUME NEW f, Sane(f)
  PROVE LET g == DropReadAhead(Flush(f))
        IN  /\ Sane(g) /\ Alike(f, g) /\ SameBuffer(f, g) /\ g.state = "empty"
            /\ ~g.lost => View(g) = View(f) /\ (f.std \/ Where(g) = Where(f))
<1> DEFINE l == Flush(f)
           g == DropReadAhead(l)
<1>1. /\ Sane(l) /\ Alike(f, l) /\ SameBuffer(f, l) /\ l.state # "writing"
      /\ ~l.lost => View(l) = View(f) /\ (f.std \/ Where(l) = Where(f))
  BY FlushIs
<1> HIDE DEF l
<1>2. /\ Sane(g) /\ Alike(l, g) /\ SameBuffer(l, g) /\ SameFate(l, g) /\ g.state # "reading"
      /\ l.state # "reading" => g = l
      /\ View(g) = View(l) /\ Where(g) = Where(l)
  BY <1>1, DropIs
<1>3. ASSUME l.state = "reading" PROVE g.state = "empty"
  <2>1. Emptied(l).state = "empty" BY <1>1, EmptiedIs
  <2>2. g = [Emptied(l) EXCEPT !.pos = @ - Unread(l)] BY <1>3 DEF DropReadAhead
  <2>3. Emptied(l) \in FileType BY <1>1, EmptiedIs DEF Sane
  <2> QED BY <2>1, <2>2, <2>3 DEF FileType
<1> HIDE DEF g
<1>4. g.state = "empty" BY <1>1, <1>2, <1>3 DEF Sane, FileType
<1>5. Alike(f, g) /\ SameBuffer(f, g) BY <1>1, <1>2, AlikeTwice, SameTwice
<1>6. ~g.lost => View(g) = View(f) /\ (f.std \/ Where(g) = Where(f)) BY <1>1, <1>2 DEF SameFate
<1> QED BY <1>2, <1>4, <1>5, <1>6 DEF g, l

LEMMA FflushStep == ASSUME StreamInv, ~file.lost, Fflush PROVE StreamInv'
<1> DEFINE f == DropReadAhead(Flush(file))
           d == told.data
           at == told.at
           back == told.back
<1>1. /\ told' = Retold(told, d, at, back) /\ d \in Seq(Chars) /\ at \in Int /\ back \in Chars \cup {NoChar}
      /\ View(file) = d /\ file.unget = back /\ (file.std \/ Where(file) = at) /\ Sane(file) /\ Plain(file)
  BY NothingIs DEF Fflush
<1>2. /\ Sane(f) /\ Alike(file, f) /\ SameBuffer(file, f) /\ f.state = "empty"
      /\ ~f.lost => View(f) = View(file) /\ (file.std \/ Where(f) = Where(file))
  BY <1>1, RestedIs
<1>3. file' = Left(f) BY DEF Fflush, Leaves, Left
<1> HIDE DEF f, d, at, back
<1>4. Slack(f) BY <1>2 DEF Slack
<1>5. Plain(f) BY <1>1, <1>2 DEF Plain, Alike, SameBuffer
<1>6. f.unget = back /\ f.std = file.std BY <1>1, <1>2 DEF Alike
<1> QED BY <1>1, <1>2, <1>3, <1>4, <1>5, <1>6, SettlesAs

Shut(f) == [f EXCEPT !.open = FALSE]
LEMMA ExitStep == ASSUME StreamInv, ~file.lost, ExitFlushes PROVE StreamInv'
<1> DEFINE l == FlushAll(file)
           f == Shut(l)
           d == told.data
           at == told.at
           back == told.back
<1>1. /\ told' = Retold(told, d, at, back) /\ d \in Seq(Chars) /\ at \in Int /\ back \in Chars \cup {NoChar}
      /\ View(file) = d /\ file.unget = back /\ (file.std \/ Where(file) = at) /\ Sane(file) /\ Plain(file)
  BY NothingIs DEF ExitFlushes
<1>2. /\ Sane(l) /\ Alike(file, l) /\ SameBuffer(file, l) /\ l.state # "writing"
      /\ ~l.lost => View(l) = View(file) /\ (file.std \/ Where(l) = Where(file))
  <2>1. CASE file.listed
    <3>1. l = Flush(file) BY <2>1 DEF FlushAll
    <3> QED BY <3>1, <1>1, FlushIs
  <2>2. CASE ~file.listed
    <3>1. l = file BY <2>2 DEF FlushAll
    <3>2. file.state # "writing" BY <2>2, <1>1 DEF Sane
    <3> QED BY <3>1, <3>2, <1>1 DEF Alike, SameBuffer
  <2> QED BY <2>1, <2>2
<1>3. file' = Left(f) BY DEF ExitFlushes, Leaves, Left, Shut
<1> HIDE DEF l, d, at, back
<1> DEFINE no == FALSE
<1>4. f = [l EXCEPT !.open = no] BY DEF Shut
<1>5. no \in BOOLEAN /\ l \in FileType BY <1>2 DEF Sane
<1> HIDE DEF no, f
<1>6. f \in FileType BY <1>4, <1>5 DEF FileType
<1>7. SameBuffer(l, f) BY <1>4, <1>5 DEF FileType, SameBuffer
<1>8. /\ f.std = l.std /\ f.readable = l.readable /\ f.append = l.append /\ f.term = l.term
      /\ f.data = l.data /\ f.pos = l.pos /\ f.buf = l.buf /\ f.buf_pos = l.buf_pos
      /\ f.state = l.state /\ f.lost = l.lost
  BY <1>4, <1>5 DEF FileType
<1>9. Retouched(l, f) BY <1>6, <1>7, <1>8 DEF Retouched
<1>10. f.hook = l.hook /\ f.unget = l.unget BY <1>4, <1>5 DEF FileType
<1>11. Sane(f) /\ View(f) = View(l) /\ Where(f) = Where(l) BY <1>2, <1>9, RetouchedIs
<1>12. f.state # "writing" /\ Slack(f) BY <1>2, <1>8 DEF Slack
<1>13. Plain(f) BY <1>1, <1>2, <1>7, <1>8, <1>10 DEF Plain, Alike, SameBuffer
<1>14. f.unget = back /\ f.std = file.std BY <1>1, <1>2, <1>8, <1>10 DEF Alike
<1>15. ~f.lost => View(f) = d /\ (f.std \/ Where(f) = at) BY <1>1, <1>2, <1>8, <1>11, <1>14
<1> QED BY <1>1, <1>3, <1>11, <1>12, <1>13, <1>14, <1>15, SettlesAs

\* A stream whose buffer is empty may be given another, or none.
Reshaped(f, g) ==
    /\ g \in FileType /\ g.std = f.std /\ g.readable = f.readable /\ g.append = f.append /\ g.term = f.term
    /\ g.data = f.data /\ g.pos = f.pos /\ g.buf = f.buf /\ g.buf_pos = f.buf_pos /\ g.state = f.state /\ g.lost = f.lost /\ g.unget = f.unget
    /\ (g.has => g.listed /\ g.buf_mode # Nbf /\ g.buf_size > 0)
LEMMA ReshapedIs == ASSUME NEW f, Sane(f), f.state = "empty", NEW g, Reshaped(f, g)
  PROVE Sane(g) /\ View(g) = View(f) /\ Where(g) = Where(f) /\ Slack(g) /\ g.state = "empty"
<1>1. g.state = "empty" BY DEF Reshaped
<1>2. Sane(g) BY DEF Reshaped, Sane
<1>3. Unread(g) = 0 /\ Unread(f) = 0 BY <1>1 DEF Unread
<1>4. View(g) = g.data /\ Where(g) = g.pos - 0 BY <1>1, <1>2, <1>3, ViewIs
<1>5. View(f) = f.data /\ Where(f) = f.pos - 0 BY <1>3, ViewIs
<1>6. g.data = f.data /\ g.pos = f.pos BY DEF Reshaped
<1> QED BY <1>1, <1>2, <1>4, <1>5, <1>6 DEF Slack

LEMMA RestStep ==
    ASSUME StreamInv, ~file.lost, Nothing, NEW f, Reshaped(DropReadAhead(Flush(file)), f), Plain(f), file' = Left(f)
    PROVE  StreamInv'
<1> DEFINE l == DropReadAhead(Flush(file))
           d == told.data
           at == told.at
           back == told.back
<1>1. /\ told' = Retold(told, d, at, back) /\ d \in Seq(Chars) /\ at \in Int /\ back \in Chars \cup {NoChar}
      /\ View(file) = d /\ file.unget = back /\ (file.std \/ Where(file) = at) /\ Sane(file)
  BY NothingIs
<1>2. /\ Sane(l) /\ Alike(file, l) /\ SameBuffer(file, l) /\ l.state = "empty"
      /\ ~l.lost => View(l) = View(file) /\ (file.std \/ Where(l) = Where(file))
  BY <1>1, RestedIs
<1>3. Reshaped(l, f) OBVIOUS
<1> HIDE DEF l, d, at, back
<1>4. Sane(f) /\ View(f) = View(l) /\ Where(f) = Where(l) /\ Slack(f) /\ f.state = "empty" BY <1>2, <1>3, ReshapedIs
<1>5. f.unget = back /\ f.std = file.std /\ f.lost = l.lost BY <1>1, <1>2, <1>3 DEF Reshaped, Alike
<1>6. ~f.lost => View(f) = d /\ (f.std \/ Where(f) = at) BY <1>1, <1>2, <1>4, <1>5
<1> QED BY <1>1, <1>4, <1>5, <1>6, SettlesAs

LEMMA FcloseStep == ASSUME StreamInv, ~file.lost, Fclose PROVE StreamInv'
<1> DEFINE l == DropReadAhead(Flush(file))
           no == FALSE
           f == [l EXCEPT !.has = no, !.listed = no, !.open = no]
<1>0. Sane(file) /\ Plain(file) BY DEF StreamInv, Believed
<1>1. Sane(l) /\ Alike(file, l) /\ SameBuffer(file, l) /\ l.state = "empty" BY <1>0, RestedIs
<1>2. file' = Left(f) /\ Nothing BY DEF Fclose, Leaves, Left
<1>3. no \in BOOLEAN /\ ~no OBVIOUS
<1> HIDE DEF no
<1>6. Reshaped(l, f)
  <2> HIDE DEF l
  <2>1. l \in FileType BY <1>1 DEF Sane
  <2>2. f \in FileType BY <2>1, <1>3 DEF FileType
  <2>3. /\ f.std = l.std /\ f.readable = l.readable /\ f.append = l.append /\ f.term = l.term
        /\ f.data = l.data /\ f.pos = l.pos /\ f.buf = l.buf /\ f.buf_pos = l.buf_pos /\ f.state = l.state /\ f.lost = l.lost
        /\ f.unget = l.unget /\ f.has = no
    BY <2>1 DEF FileType
  <2> QED BY <2>2, <2>3, <1>3 DEF Reshaped
<1>7. Plain(f)
  <2> HIDE DEF l
  <2>1. l \in FileType BY <1>1 DEF Sane
  <2>2. f.std = l.std /\ f.hook = l.hook /\ f.term = l.term /\ f.buf_mode = l.buf_mode BY <2>1 DEF FileType
  <2> QED BY <2>2, <1>0, <1>1 DEF Plain, Alike, SameBuffer
<1> HIDE DEF f
<1> QED BY <1>2, <1>6, <1>7, RestStep

\* What __file_stdout_changed keeps, and what it makes so
LEMMA StdoutChangedIs == ASSUME NEW f \in FileType
  PROVE LET g == StdoutChanged(f)
        IN  /\ Plain(g) /\ g \in FileType /\ SameBuffer(f, g) /\ g.open = f.open
            /\ g.std = f.std /\ g.readable = f.readable /\ g.append = f.append /\ g.term = f.term
            /\ g.data = f.data /\ g.pos = f.pos /\ g.buf = f.buf /\ g.buf_pos = f.buf_pos /\ g.state = f.state /\ g.lost = f.lost
            /\ g.unget = f.unget
<1> DEFINE g == StdoutChanged(f)
           hook == ~(f.term /\ f.buf_mode = Nbf)
<1>1. CASE f.std
  <2>1. g = [f EXCEPT !.hook = hook] BY <1>1 DEF StdoutChanged
  <2>2. hook \in BOOLEAN OBVIOUS
  <2>3. ~hook => f.term /\ f.buf_mode = Nbf OBVIOUS
  <2> HIDE DEF hook, g
  <2>4. g \in FileType BY <2>1, <2>2 DEF FileType
  <2>5. SameBuffer(f, g) BY <2>1 DEF FileType, SameBuffer
  <2>6. /\ g.open = f.open /\ g.hook = hook
        /\ g.std = f.std /\ g.readable = f.readable /\ g.append = f.append /\ g.term = f.term
        /\ g.data = f.data /\ g.pos = f.pos /\ g.buf = f.buf /\ g.buf_pos = f.buf_pos /\ g.state = f.state /\ g.lost = f.lost
        /\ g.unget = f.unget
    BY <2>1 DEF FileType
  <2>7. Plain(g) BY <2>3, <2>5, <2>6 DEF Plain, SameBuffer
  <2> QED BY <2>4, <2>5, <2>6, <2>7 DEF g
<1>2. CASE ~f.std
  <2>1. g = f BY <1>2 DEF StdoutChanged
  <2> QED BY <2>1, <1>2 DEF Plain, SameBuffer
<1> QED BY <1>1, <1>2

LEMMA ReshapedThen == ASSUME NEW l, NEW f, Reshaped(l, f) PROVE Reshaped(l, StdoutChanged(f)) /\ Plain(StdoutChanged(f))
<1> DEFINE g == StdoutChanged(f)
<1>1. f \in FileType BY DEF Reshaped
<1>2. /\ Plain(g) /\ g \in FileType /\ SameBuffer(f, g)
      /\ g.std = f.std /\ g.readable = f.readable /\ g.append = f.append /\ g.term = f.term
      /\ g.data = f.data /\ g.pos = f.pos /\ g.buf = f.buf /\ g.buf_pos = f.buf_pos /\ g.state = f.state /\ g.lost = f.lost
      /\ g.unget = f.unget
  BY <1>1, StdoutChangedIs
<1> HIDE DEF g
<1>3. Reshaped(l, g) BY <1>2 DEF Reshaped, SameBuffer
<1> QED BY <1>2, <1>3 DEF g

LEMMA SetvbufStep ==
    ASSUME StreamInv, ~file.lost, NEW mode \in {Fbf, Lbf, Nbf}, NEW own \in BOOLEAN, NEW size \in Sizes, Setvbuf(mode, own, size)
    PROVE  StreamInv'
<1> DEFINE l == DropReadAhead(Flush(file))
           no == FALSE
           none == 0
           r == [l EXCEPT !.has = no, !.buf_size = none]
           h == [r EXCEPT !.buf_mode = mode]
           listed == h.listed \/ own
           k == [h EXCEPT !.has = own, !.buf_size = size, !.listed = listed]
           f == IF mode = Nbf THEN h ELSE k
           g == StdoutChanged(f)
<1>0. Sane(file) BY DEF StreamInv
<1>1. l \in FileType BY <1>0, RestedIs DEF Sane
<1>2. size \in Nat /\ size > 0 BY StreamAssumption
<1>3. no \in BOOLEAN /\ ~no /\ none \in Nat /\ listed \in BOOLEAN /\ (own => listed) OBVIOUS
<1>4. file' = Left(g) /\ Nothing BY DEF Setvbuf, Leaves, Left, ReleaseBuffer
<1> HIDE DEF no, none, l
<1>5. r \in FileType BY <1>1, <1>3 DEF FileType
<1>6. /\ r.std = l.std /\ r.readable = l.readable /\ r.append = l.append /\ r.term = l.term
      /\ r.data = l.data /\ r.pos = l.pos /\ r.buf = l.buf /\ r.buf_pos = l.buf_pos /\ r.state = l.state /\ r.lost = l.lost
      /\ r.unget = l.unget /\ r.has = no
  BY <1>1 DEF FileType
<1> HIDE DEF r
<1>7. h \in FileType BY <1>5 DEF FileType
<1>8. /\ h.std = r.std /\ h.readable = r.readable /\ h.append = r.append /\ h.term = r.term
      /\ h.data = r.data /\ h.pos = r.pos /\ h.buf = r.buf /\ h.buf_pos = r.buf_pos /\ h.state = r.state /\ h.lost = r.lost
      /\ h.unget = r.unget /\ h.has = r.has /\ h.buf_mode = mode
  BY <1>5 DEF FileType
<1> HIDE DEF h, listed
<1>9. k \in FileType BY <1>2, <1>3, <1>7 DEF FileType
<1>10. /\ k.std = h.std /\ k.readable = h.readable /\ k.append = h.append /\ k.term = h.term
       /\ k.data = h.data /\ k.pos = h.pos /\ k.buf = h.buf /\ k.buf_pos = h.buf_pos /\ k.state = h.state /\ k.lost = h.lost
       /\ k.unget = h.unget /\ k.has = own /\ k.listed = listed /\ k.buf_size = size /\ k.buf_mode = h.buf_mode
  BY <1>7 DEF FileType
<1> HIDE DEF k
<1>11. Reshaped(l, h) BY <1>3, <1>6, <1>7, <1>8 DEF Reshaped
<1>12. mode # Nbf => Reshaped(l, k) BY <1>2, <1>3, <1>6, <1>8, <1>9, <1>10 DEF Reshaped
<1>13. Reshaped(l, f) BY <1>11, <1>12
<1> HIDE DEF f
<1>14. Reshaped(l, g) /\ Plain(g) BY <1>13, ReshapedThen
<1> HIDE DEF g
<1> QED BY <1>4, <1>14, RestStep DEF l

\* A stream as it is opened
LEMMA StartedIs ==
    ASSUME NEW g \in FileType, g.state = "empty", g.buf = <<>>, g.buf_pos = 0, g.pos = 0, ~g.has,
           g.std => (g.append \/ g.term) /\ ~g.readable, g.term => g.std
    PROVE  Sane(g) /\ View(g) = g.data /\ Where(g) = 0 /\ Slack(g)
<1>1. Len(g.buf) = 0 OBVIOUS
<1>2. Len(g.data) \in Nat BY DEF FileType
<1>3. Sane(g) BY <1>1, <1>2 DEF Sane
<1>4. Unread(g) = 0 BY DEF Unread
<1>5. View(g) = g.data /\ Where(g) = g.pos - 0 BY <1>3, <1>4, ViewIs
<1> QED BY <1>3, <1>5 DEF Slack

LEMMA ZeroedIs == ASSUME NEW f \in FileType
  PROVE LET g == Zeroed(f)
        IN  /\ g \in FileType /\ g.state = "empty" /\ g.buf = <<>> /\ g.buf_pos = 0 /\ g.pos = 0 /\ g.has = FALSE /\ g.unget = NoChar
            /\ g.data = f.data /\ g.std = f.std /\ g.lost = f.lost /\ g.open = f.open /\ g.hook = f.hook
            /\ g.buf_size = 0 /\ g.wrote = f.wrote /\ g.got = f.got
<1> DEFINE g == Zeroed(f)
           no == FALSE
           nil == <<>>
           none == NoChar
           zero == 0
<1>1. g = [f EXCEPT !.eof = no, !.error = no, !.unget = none, !.buf = nil, !.buf_pos = zero, !.buf_size = zero,
                    !.state = "empty", !.has = no, !.pos = zero]
  BY DEF Zeroed
<1>2. no \in BOOLEAN /\ nil \in Seq(Chars) /\ none \in Chars \cup {NoChar} /\ zero \in Nat OBVIOUS
<1> HIDE DEF no, nil, none, zero, g
<1>3. g \in FileType BY ZenonT(60), <1>1, <1>2 DEF FileType
<1>4. /\ g.state = "empty" /\ g.buf = nil /\ g.buf_pos = zero /\ g.pos = zero /\ g.has = no /\ g.unget = none
      /\ g.data = f.data /\ g.std = f.std /\ g.lost = f.lost /\ g.open = f.open /\ g.hook = f.hook
      /\ g.buf_size = zero /\ g.wrote = f.wrote /\ g.got = f.got
  BY <1>1 DEF FileType
<1> QED BY <1>3, <1>4 DEF no, nil, none, zero, g

LEMMA StdoutIs == ASSUME NEW f \in FileType, f.std
  PROVE LET g == Stdout(f)
        IN  /\ g \in FileType /\ Sane(g) /\ View(g) = f.data /\ Slack(g) /\ g.unget = NoChar /\ g.term /\ g.buf_mode = Nbf /\ g.std
            /\ g.lost = f.lost /\ g.open = f.open /\ g.state = "empty" /\ g.data = f.data /\ g.hook = f.hook /\ g.got = f.got
<1> DEFINE z == Zeroed(f)
           g == Stdout(f)
           no == FALSE
           yes == TRUE
<1>1. /\ z \in FileType /\ z.state = "empty" /\ z.buf = <<>> /\ z.buf_pos = 0 /\ z.pos = 0 /\ z.has = FALSE /\ z.unget = NoChar
      /\ z.data = f.data /\ z.std = f.std /\ z.lost = f.lost /\ z.open = f.open /\ z.hook = f.hook /\ z.got = f.got
  BY ZeroedIs
<1>2. g = [z EXCEPT !.readable = no, !.writable = yes, !.append = no, !.buf_mode = Nbf, !.term = yes] BY DEF Stdout
<1>3. no \in BOOLEAN /\ yes \in BOOLEAN /\ ~no /\ yes OBVIOUS
<1> HIDE DEF no, yes, z, g
<1>7. z \in FileType BY <1>1
<1>4. g \in FileType BY ZenonT(60), <1>2, <1>3, <1>7 DEF FileType
<1>5. /\ g.readable = no /\ g.append = no /\ g.buf_mode = Nbf /\ g.term = yes
      /\ g.state = z.state /\ g.buf = z.buf /\ g.buf_pos = z.buf_pos /\ g.pos = z.pos /\ g.has = z.has /\ g.unget = z.unget
      /\ g.data = z.data /\ g.std = z.std /\ g.lost = z.lost /\ g.open = z.open /\ g.hook = z.hook /\ g.got = z.got
  BY ZenonT(60), <1>1, <1>2 DEF FileType
<1>6. Sane(g) /\ View(g) = g.data /\ Where(g) = 0 /\ Slack(g) BY <1>1, <1>3, <1>4, <1>5, StartedIs
<1> QED BY <1>1, <1>3, <1>4, <1>5, <1>6 DEF g

Reopened(f, mode, kind) == [Opened(f, mode) EXCEPT !.buf_mode = kind]
LEMMA OpenedIs == ASSUME NEW f \in FileType, NEW mode \in {"r", "r+", "w+", "a", "a+"}, NEW kind \in {Fbf, Lbf, Nbf}, f.std => mode = "a",
                         NEW g, g = Reopened(f, mode, kind)
  PROVE /\ g \in FileType /\ Sane(g) /\ View(g) = g.data /\ Where(g) = 0 /\ Slack(g) /\ g.unget = NoChar /\ g.std = f.std
        /\ g.data = (IF mode = "w+" THEN <<>> ELSE f.data)
        /\ g.lost = f.lost /\ g.open = f.open /\ g.state = "empty" /\ g.hook = f.hook /\ g.got = f.got
<1> DEFINE z == Zeroed(f)
           no == FALSE
           reads == mode \in {"r", "r+", "w+", "a+"}
           writes == mode # "r"
           appends == mode \in {"a", "a+"}
           begun == IF mode = "w+" THEN <<>> ELSE z.data
<1>1. /\ z \in FileType /\ z.state = "empty" /\ z.buf = <<>> /\ z.buf_pos = 0 /\ z.pos = 0 /\ z.has = FALSE /\ z.unget = NoChar
      /\ z.data = f.data /\ z.std = f.std /\ z.lost = f.lost /\ z.open = f.open /\ z.hook = f.hook /\ z.got = f.got
  BY ZeroedIs
<1>2. Opened(f, mode) = [z EXCEPT !.readable = reads, !.writable = writes, !.append = appends, !.buf_mode = Fbf, !.term = no, !.data = begun]
  BY DEF Opened
<1>3. reads \in BOOLEAN /\ writes \in BOOLEAN /\ appends \in BOOLEAN /\ no \in BOOLEAN /\ ~no /\ (mode = "a" => appends /\ ~reads) OBVIOUS
<1>4. begun \in Seq(Chars) /\ begun = (IF mode = "w+" THEN <<>> ELSE f.data)
  <2>1. f.data \in Seq(Chars) BY DEF FileType
  <2>2. begun = (IF mode = "w+" THEN <<>> ELSE f.data) BY <1>1
  <2> QED BY <2>1, <2>2
<1> HIDE DEF z, no, reads, writes, appends, begun
<1> DEFINE y == [z EXCEPT !.readable = reads, !.writable = writes, !.append = appends, !.buf_mode = Fbf, !.term = no, !.data = begun]
<1>5. g = [y EXCEPT !.buf_mode = kind] BY <1>2 DEF Reopened
<1>9. z \in FileType /\ begun \in Seq(Chars) BY <1>1, <1>4
<1>10. y \in FileType BY ZenonT(60), <1>3, <1>9 DEF FileType
<1>11. /\ y.readable = reads /\ y.append = appends /\ y.term = no /\ y.data = begun
       /\ y.state = z.state /\ y.buf = z.buf /\ y.buf_pos = z.buf_pos /\ y.pos = z.pos /\ y.has = z.has /\ y.unget = z.unget
       /\ y.std = z.std /\ y.lost = z.lost /\ y.open = z.open /\ y.hook = z.hook /\ y.got = z.got
  BY <1>9 DEF FileType
<1> HIDE DEF y
<1>6. g \in FileType BY ZenonT(60), <1>10, <1>5 DEF FileType
<1>7. /\ g.readable = reads /\ g.append = appends /\ g.term = no /\ g.data = begun
      /\ g.state = z.state /\ g.buf = z.buf /\ g.buf_pos = z.buf_pos /\ g.pos = z.pos /\ g.has = z.has /\ g.unget = z.unget
      /\ g.std = z.std /\ g.lost = z.lost /\ g.open = z.open /\ g.hook = z.hook /\ g.got = z.got
  <2>1. /\ g.readable = y.readable /\ g.append = y.append /\ g.term = y.term /\ g.data = y.data
        /\ g.state = y.state /\ g.buf = y.buf /\ g.buf_pos = y.buf_pos /\ g.pos = y.pos /\ g.has = y.has /\ g.unget = y.unget
        /\ g.std = y.std /\ g.lost = y.lost /\ g.open = y.open /\ g.hook = y.hook /\ g.got = y.got
    BY <1>10, <1>5 DEF FileType
  <2> QED BY <2>1, <1>11
<1>8. Sane(g) /\ View(g) = g.data /\ Where(g) = 0 /\ Slack(g) BY <1>1, <1>3, <1>6, <1>7, StartedIs
<1> QED BY <1>1, <1>4, <1>6, <1>7, <1>8

\* After freopen the file is what was there, or nothing.
LEMMA FreopenStep ==
    ASSUME StreamInv, ~file.lost, NEW to \in {"term:", "log", "r", "w+", "a+"}, Freopen(to)
    PROVE  StreamInv'
<1> DEFINE l == DropReadAhead(Flush(file))
           no == FALSE
           none == 0
           nil == <<>>
           f == [l EXCEPT !.has = no, !.buf_size = none]
           mode == IF file.term /\ file.buf_mode # Nbf THEN file.buf_mode ELSE IF file.term THEN Lbf ELSE Fbf
           g == IF to = "term:" THEN Stdout(f) ELSE IF to = "log" THEN [Opened(f, "a") EXCEPT !.buf_mode = mode] ELSE Opened(f, to)
           h == StdoutChanged(g)
           d == IF to = "w+" THEN nil ELSE told.data
           zero == 0
           back == NoChar
<1>0. /\ Sane(file) /\ file \in FileType /\ told \in ToldType /\ View(file) = told.data BY DEF StreamInv, Sane, Believed, Good
<1>1. file.open /\ to \in (IF file.std THEN {"term:", "log"} ELSE {"r", "w+", "a+"}) /\ file' = Left(h)
  BY DEF Freopen, Leaves, Left, ReleaseBuffer
<1>2. told' = Retold(told, d, zero, back)
  <2>1. told' = [told EXCEPT !.data = IF to = "w+" THEN <<>> ELSE @, !.at = 0, !.back = NoChar, !.said = <<>>, !.owed = <<>>] BY DEF Freopen
  <2> QED BY <2>1, <1>0 DEF Retold, ToldType
<1>3. nil \in Seq(Chars) /\ no \in BOOLEAN /\ ~no /\ none \in Nat /\ zero \in Int /\ back \in Chars \cup {NoChar} /\ nil = <<>> /\ back = NoChar /\ zero = 0
  OBVIOUS
<1>4. mode \in {Fbf, Lbf, Nbf} BY <1>0 DEF FileType
<1>5. /\ Sane(l) /\ l \in FileType /\ Alike(file, l) /\ ~l.lost => View(l) = View(file) BY <1>0, RestedIs DEF Sane
<1>6. Sane(l) /\ l \in FileType /\ Alike(file, l) /\ l.state = "empty" /\ (~l.lost => View(l) = View(file)) BY <1>0, RestedIs DEF Sane
<1> HIDE DEF nil, no, none, mode, zero, back, l
<1>7. f \in FileType BY <1>3, <1>6 DEF FileType
<1>8. f.data = l.data /\ f.std = l.std /\ f.lost = l.lost /\ f.open = l.open BY <1>6 DEF FileType
<1>9. l.data = View(l) BY <1>6, ViewIs
<1> HIDE DEF f
<1>10. f.std = file.std /\ f.open /\ (~f.lost => f.data = told.data) BY <1>0, <1>1, <1>6, <1>8, <1>9 DEF Alike
<1>11. /\ g \in FileType /\ Sane(g) /\ View(g) = g.data /\ Slack(g) /\ g.unget = NoChar /\ g.std = f.std /\ g.lost = f.lost /\ g.open = f.open
       /\ g.state = "empty" /\ g.data = (IF to = "w+" THEN <<>> ELSE f.data) /\ (g.std \/ Where(g) = 0)
  <2>1. CASE to = "term:"
    <3>1. f.std BY <2>1, <1>1, <1>10
    <3> DEFINE s == Stdout(f)
    <3>2. /\ s \in FileType /\ Sane(s) /\ View(s) = f.data /\ Slack(s) /\ s.unget = NoChar /\ s.std
          /\ s.lost = f.lost /\ s.open = f.open /\ s.state = "empty" /\ s.data = f.data
      BY <3>1, <1>7, StdoutIs
    <3>3. g = s BY <2>1
    <3> HIDE DEF s, g
    <3> QED BY <3>1, <3>2, <3>3, <2>1
  <2>2. CASE to = "log"
    <3> DEFINE s == [Opened(f, "a") EXCEPT !.buf_mode = mode]
    <3>1. g = s BY <2>2
    <3> DEFINE m == "a"
    <3>2. m \in {"r", "r+", "w+", "a", "a+"} /\ m = "a" /\ m # "w+" OBVIOUS
    <3>3. s = Reopened(f, m, mode) BY DEF Reopened
    <3> HIDE DEF s, m, g
    <3>4. /\ s \in FileType /\ Sane(s) /\ View(s) = s.data /\ Where(s) = 0 /\ Slack(s) /\ s.unget = NoChar /\ s.std = f.std
          /\ s.data = (IF m = "w+" THEN <<>> ELSE f.data)
          /\ s.lost = f.lost /\ s.open = f.open /\ s.state = "empty"
      BY <3>2, <3>3, <1>4, <1>7, OpenedIs
    <3> QED BY <3>1, <3>2, <3>4, <2>2
  <2>3. CASE to \notin {"term:", "log"}
    <3>1. ~f.std /\ to \in {"r", "r+", "w+", "a", "a+"} BY <2>3, <1>1, <1>10
    <3> DEFINE s == Opened(f, to)
               k == Fbf
    <3>2. g = s BY <2>3
    <3>3. k \in {Fbf, Lbf, Nbf} OBVIOUS
    <3>4. s = [s EXCEPT !.buf_mode = k]
      <4> DEFINE z == Zeroed(f)
      <4>1. z \in FileType BY <1>7, ZeroedIs
      <4>2. s = [z EXCEPT !.readable = to \in {"r", "r+", "w+", "a+"}, !.writable = to # "r", !.append = to \in {"a", "a+"},
                      !.buf_mode = Fbf, !.term = FALSE, !.data = IF to = "w+" THEN <<>> ELSE @]
        BY DEF Opened
      <4> HIDE DEF z, s
      <4> QED BY <4>1, <4>2 DEF FileType
    <3>5. s = Reopened(f, to, k) BY <3>4 DEF Reopened
    <3> HIDE DEF s, k, g
    <3>6. /\ s \in FileType /\ Sane(s) /\ View(s) = s.data /\ Where(s) = 0 /\ Slack(s) /\ s.unget = NoChar /\ s.std = f.std
          /\ s.data = (IF to = "w+" THEN <<>> ELSE f.data)
          /\ s.lost = f.lost /\ s.open = f.open /\ s.state = "empty"
      BY <3>1, <3>3, <3>5, <1>7, OpenedIs
    <3> QED BY <3>2, <3>6
  <2> QED BY <2>1, <2>2, <2>3
<1> HIDE DEF g
<1>12. /\ Plain(h) /\ h \in FileType /\ SameBuffer(g, h) /\ h.open = g.open
       /\ h.std = g.std /\ h.readable = g.readable /\ h.append = g.append /\ h.term = g.term
       /\ h.data = g.data /\ h.pos = g.pos /\ h.buf = g.buf /\ h.buf_pos = g.buf_pos /\ h.state = g.state /\ h.lost = g.lost
       /\ h.unget = g.unget
  BY <1>11, StdoutChangedIs
<1> HIDE DEF h
<1>13. Retouched(g, h) BY <1>12 DEF Retouched
<1>14. Sane(h) /\ View(h) = View(g) /\ Where(h) = Where(g) /\ Slack(h) BY <1>11, <1>13, RetouchedIs
<1>15. d \in Seq(Chars)
  <2>1. told.data \in Seq(Chars) BY <1>0 DEF ToldType
  <2> QED BY <2>1, <1>3
<1>16. ~h.lost => View(h) = d BY <1>10, <1>11, <1>12, <1>14, <1>3
<1>17. h.unget = back /\ (h.std \/ Where(h) = zero) /\ h.state # "writing" BY <1>3, <1>11, <1>12, <1>14
<1> HIDE DEF d
<1> QED BY <1>1, <1>2, <1>3, <1>12, <1>14, <1>15, <1>16, <1>17, SettlesAs

\* Where fseek leaves a stream
Sought(g, to, e) == [Emptied(g) EXCEPT !.unget = NoChar, !.pos = to, !.eof = e]
Seeks(g, to, e, s) == Sane(g) /\ ~g.std /\ g.state # "writing" /\ to \in 0 .. Len(g.data) /\ e \in BOOLEAN /\ s = Sought(g, to, e)
LEMMA SoughtIs ==
    ASSUME NEW g, NEW to, NEW e, NEW s, Seeks(g, to, e, s)
    PROVE  /\ Sane(s) /\ View(s) = g.data /\ Where(s) = to /\ s.unget = NoChar /\ s.lost = g.lost /\ s.open = g.open /\ s.std = g.std
           /\ s.state = "empty"
<1> USE DEF Seeks
<1> DEFINE m == Emptied(g)
           none == NoChar
<1>1. /\ Sane(m) /\ Alike(g, m) /\ SameBuffer(g, m) /\ SameFate(g, m) /\ m.state = "empty" /\ m.data = g.data /\ m.pos = g.pos
  BY EmptiedIs
<1>2. s = [m EXCEPT !.unget = none, !.pos = to, !.eof = e] BY DEF Sought
<1>3. none \in Chars \cup {NoChar} /\ to \in Nat /\ to <= Len(g.data)
  <2>1. Len(g.data) \in Nat BY DEF Sane, FileType
  <2> QED BY <2>1
<1>4. m \in FileType BY <1>1 DEF Sane
<1>10. none = NoChar OBVIOUS
<1> HIDE DEF m, none
<1>5. s \in FileType BY ZenonT(60), <1>2, <1>3, <1>4 DEF FileType
<1>6. /\ s.unget = none /\ s.pos = to /\ s.data = m.data /\ s.buf = m.buf /\ s.buf_pos = m.buf_pos /\ s.state = m.state /\ s.lost = m.lost
      /\ s.open = m.open /\ s.std = m.std /\ s.readable = m.readable /\ s.append = m.append /\ s.term = m.term
  BY <1>2, <1>4 DEF FileType
<1>7. SameBuffer(m, s) BY <1>2, <1>4 DEF FileType, SameBuffer
<1>8. Sane(s) BY <1>1, <1>3, <1>5, <1>6, <1>7 DEF Sane, SameBuffer
<1>9. View(s) = s.data /\ Where(s) = to
  <2>1. s.state = "empty" BY <1>1, <1>6
  <2>2. Unread(s) = 0 BY <2>1 DEF Unread
  <2>3. View(s) = s.data /\ Where(s) = s.pos - 0 BY <2>1, <2>2, <1>8, ViewIs
  <2> QED BY <2>3, <1>6, <1>3
<1> QED BY <1>1, <1>6, <1>8, <1>9, <1>10 DEF Alike, SameFate

LEMMA FseekStep ==
    ASSUME StreamInv, ~file.lost, NEW offset \in Offsets, NEW whence \in {"set", "cur", "end"}, Fseek(offset, whence)
    PROVE  StreamInv'
<1> DEFINE g == Flush(file)
           to == SeekTo(g, offset, whence)
           h == [Emptied(g) EXCEPT !.unget = NoChar]
           d == told.data
           none == NoChar
<1>0. /\ Sane(file) /\ told \in ToldType /\ View(file) = d /\ file.unget = told.back /\ (file.std \/ told.at = Where(file)) /\ Plain(file)
  BY DEF StreamInv, Believed, Good
<1>1. file.open /\ ~file.std BY DEF Fseek
<1>2. /\ Sane(g) /\ Alike(file, g) /\ g.state # "writing"
      /\ FlushFailed(file, g) => g.lost
      /\ ~g.lost => View(g) = View(file) /\ Where(g) = Where(file)
  BY <1>0, <1>1, FlushIs
<1>3. offset \in Int BY StreamAssumption
<1>4. none \in Chars \cup {NoChar} /\ none = NoChar /\ d \in Seq(Chars) /\ told.at \in Int /\ told.back \in Chars \cup {NoChar} BY <1>0 DEF ToldType
<1>5. g.open /\ ~g.std /\ g \in FileType /\ g.pos \in Nat /\ g.pos <= Len(g.data) /\ g.data \in Seq(Chars) /\ g.eof \in BOOLEAN
  BY <1>1, <1>2 DEF Alike, Sane, FileType
<1>6. View(g) = g.data /\ Where(g) = g.pos - Unread(g) BY <1>2, ViewIs
<1>7. /\ IF FlushFailed(file, g) THEN file' = Left(g) /\ told' = Retold(told, d, told.at, told.back)
         ELSE IF to \notin 0 .. Len(g.data)
         THEN file' = Left(h) /\ told' = Retold(told, d, h.pos, none)
         ELSE /\ file' = Left([h EXCEPT !.pos = to, !.eof = FALSE])
              /\ told' = Retold(told, d, CASE whence = "set" -> offset
                                           [] whence = "cur" -> told.at + offset - Len(Pushed)
                                           [] whence = "end" -> Len(d) + offset, none)
  <2>1. IF FlushFailed(file, g) THEN Leaves(g) /\ told' = [told EXCEPT !.said = <<>>, !.owed = <<>>]
        ELSE IF to \notin 0 .. Len(g.data)
        THEN Leaves(h) /\ told' = [told EXCEPT !.back = NoChar, !.at = h.pos, !.said = <<>>, !.owed = <<>>]
        ELSE /\ Leaves([h EXCEPT !.pos = to, !.eof = FALSE])
             /\ told' = [told EXCEPT !.back = NoChar, !.said = <<>>, !.owed = <<>>,
                               !.at = CASE whence = "set" -> offset
                                        [] whence = "cur" -> told.at + offset - Len(Pushed)
                                        [] whence = "end" -> Len(d) + offset]
    BY DEF Fseek
  <2> DEFINE at == CASE whence = "set" -> offset
                     [] whence = "cur" -> told.at + offset - Len(Pushed)
                     [] whence = "end" -> Len(d) + offset
             k == [h EXCEPT !.pos = to, !.eof = FALSE]
             nil == <<>>
  <2>2. IF FlushFailed(file, g) THEN Leaves(g) /\ told' = [told EXCEPT !.said = nil, !.owed = nil]
        ELSE IF to \notin 0 .. Len(g.data)
        THEN Leaves(h) /\ told' = [told EXCEPT !.back = none, !.at = h.pos, !.said = nil, !.owed = nil]
        ELSE Leaves(k) /\ told' = [told EXCEPT !.back = none, !.said = nil, !.owed = nil, !.at = at]
    BY <2>1
  <2>3. told.data = d /\ told \in ToldType BY <1>0
  <2> DEFINE still == Retold(told, d, told.at, told.back)
             skips == Retold(told, d, h.pos, none)
             goes == Retold(told, d, at, none)
  <2>4. /\ still = [told EXCEPT !.data = d, !.at = told.at, !.back = told.back, !.said = nil, !.owed = nil]
        /\ skips = [told EXCEPT !.data = d, !.at = h.pos, !.back = none, !.said = nil, !.owed = nil]
        /\ goes = [told EXCEPT !.data = d, !.at = at, !.back = none, !.said = nil, !.owed = nil]
    BY DEF Retold
  <2> HIDE DEF g, to, h, d, none, at, k, nil, still, skips, goes
  <2>5. [told EXCEPT !.said = nil, !.owed = nil] = still BY <2>3, <2>4 DEF ToldType
  <2>6. [told EXCEPT !.back = none, !.at = h.pos, !.said = nil, !.owed = nil] = skips BY <2>3, <2>4 DEF ToldType
  <2>7. [told EXCEPT !.back = none, !.said = nil, !.owed = nil, !.at = at] = goes BY <2>3, <2>4 DEF ToldType
  <2>8. (Leaves(g) => file' = Left(g)) /\ (Leaves(h) => file' = Left(h)) /\ (Leaves(k) => file' = Left(k)) BY DEF Leaves, Left
  <2>9. IF FlushFailed(file, g) THEN file' = Left(g) /\ told' = still
        ELSE IF to \notin 0 .. Len(g.data) THEN file' = Left(h) /\ told' = skips
        ELSE file' = Left(k) /\ told' = goes
    BY <2>2, <2>5, <2>6, <2>7, <2>8
  <2> QED BY <2>9 DEF k, at, still, skips, goes
<1>8. CASE FlushFailed(file, g)
  <2> DEFINE at == told.at
             back == told.back
  <2>1. file' = Left(g) /\ told' = Retold(told, d, at, back) /\ g.lost BY <1>8, <1>7, <1>2
  <2>2. Slack(g) BY <1>2 DEF Slack
  <2>3. at \in Int /\ back \in Chars \cup {NoChar} BY <1>4
  <2> HIDE DEF g, d, at, back
  <2> QED BY <2>1, <2>2, <2>3, <1>2, <1>4, SettlesAs
<1>9. CASE ~FlushFailed(file, g) /\ to \notin 0 .. Len(g.data)
  <2> DEFINE at == g.pos
             eof == g.eof
             s == Sought(g, at, eof)
  <2>1. h = s
    <3>1. Emptied(g) \in FileType /\ Emptied(g).pos = g.pos /\ Emptied(g).eof = g.eof BY <1>2, EmptiedIs DEF Sane, SameFate
    <3> DEFINE m == Emptied(g)
    <3> HIDE DEF m
    <3>2. m \in FileType /\ m.pos = at /\ m.eof = eof BY <3>1 DEF m
    <3>3. h = [m EXCEPT !.unget = none] /\ s = [m EXCEPT !.unget = none, !.pos = at, !.eof = eof] BY DEF m, Sought
    <3> HIDE DEF h, s, at, eof, none
    <3> QED BY <3>2, <3>3 DEF FileType
  <2>2. h.pos = at
    <3>1. Emptied(g) \in FileType /\ Emptied(g).pos = g.pos BY <1>2, EmptiedIs DEF Sane
    <3> QED BY <3>1 DEF FileType
  <2>3. file' = Left(h) /\ told' = Retold(told, d, h.pos, none) BY <1>7, <1>9
  <2>4. at \in 0 .. Len(g.data) /\ at \in Int /\ eof \in BOOLEAN BY <1>5
  <2> HIDE DEF h, s, g, d, none, at, eof
  <2>5. file' = Left(s) /\ told' = Retold(told, d, at, none) BY <2>1, <2>2, <2>3
  <2>6. s = Sought(g, at, eof) BY DEF s
  <2>7. /\ Sane(s) /\ View(s) = g.data /\ Where(s) = at /\ s.unget = NoChar /\ s.lost = g.lost /\ s.open = g.open /\ s.std = g.std
        /\ s.state = "empty"
    <3>1. Seeks(g, at, eof, s) BY <2>4, <2>6, <1>2, <1>5 DEF Seeks
    <3> QED BY <3>1, SoughtIs
  <2>8. Slack(s) /\ Plain(s) /\ s.unget = none /\ s.state # "writing" BY <2>7, <1>4, <1>5 DEF Slack, Plain
  <2>9. ~s.lost => View(s) = d BY <2>7, <1>0, <1>2, <1>6
  <2> QED BY <2>4, <2>5, <2>7, <2>8, <2>9, <1>4, SettlesAs
<1>10. CASE ~FlushFailed(file, g) /\ to \in 0 .. Len(g.data)
  <2> DEFINE no == FALSE
             s == Sought(g, to, no)
             at == CASE whence = "set" -> offset
                     [] whence = "cur" -> told.at + offset - Len(Pushed)
                     [] whence = "end" -> Len(d) + offset
  <2>1. [h EXCEPT !.pos = to, !.eof = FALSE] = s BY DEF Sought
  <2>2. file' = Left(s) /\ told' = Retold(told, d, at, none) BY <1>7, <1>10, <2>1
  <2>3. no \in BOOLEAN /\ to \in 0 .. Len(g.data) BY <1>10
  <2>4. s = Sought(g, to, no) OBVIOUS
  <2>5. /\ Len(Pushed) \in {0, 1} /\ Len(Pushed) = IF g.unget # NoChar THEN 1 ELSE 0
    <3>1. g.unget = told.back BY <1>0, <1>2 DEF Alike
    <3>2. CASE told.back = NoChar
      <4>1. Len(<<>>) = 0 OBVIOUS
      <4> QED BY <4>1, <3>1, <3>2 DEF Pushed
    <3>3. CASE told.back # NoChar
      <4>1. told.back \in Chars BY <3>3, <1>4
      <4>2. Len(<<told.back>>) = 1 BY <4>1, One
      <4> QED BY <4>2, <3>1, <3>3 DEF Pushed
    <3> QED BY <3>2, <3>3
  <2>6. at \in Int
    <3> DEFINE k == Len(Pushed)
               l == Len(d)
               t == told.at
    <3>1. k \in Int /\ l \in Int /\ t \in Int BY <2>5, <1>4
    <3>2. at = CASE whence = "set" -> offset [] whence = "cur" -> t + offset - k [] whence = "end" -> l + offset OBVIOUS
    <3> HIDE DEF k, l, t, at
    <3> QED BY <3>1, <3>2, <1>3
  <2>7. ASSUME ~g.lost PROVE to = at
    <3> DEFINE k == Len(Pushed)
               l == Len(d)
               t == told.at
               p == g.pos
               u == Unread(g)
               j == IF g.unget # NoChar THEN 1 ELSE 0
    <3>1. to = CASE whence = "set" -> offset [] whence = "cur" -> p + offset - u - j [] whence = "end" -> Len(g.data) + offset BY DEF SeekTo
    <3>2. at = CASE whence = "set" -> offset [] whence = "cur" -> t + offset - k [] whence = "end" -> l + offset OBVIOUS
    <3>3. g.data = d /\ t = p - u BY <2>7, <1>0, <1>1, <1>2, <1>6
    <3>4. k = j BY <2>5
    <3>5. p \in Nat /\ u \in Nat /\ j \in Nat /\ l \in Nat
      <4>1. u \in Nat BY <1>2, UnreadIs
      <4> QED BY <4>1, <1>5, <1>4
    <3>6. Len(g.data) = l BY <3>3
    <3> HIDE DEF k, l, t, p, u, j, to, at
    <3>7. to = CASE whence = "set" -> offset [] whence = "cur" -> p + offset - u - j [] whence = "end" -> l + offset BY <3>1, <3>6
    <3>8. t + offset - k = p + offset - u - j BY <3>3, <3>4, <3>5, <1>3
    <3> QED BY <3>2, <3>7, <3>8
  <2> HIDE DEF no, s, at, to, g, d, none, h
  <2>8. /\ Sane(s) /\ View(s) = g.data /\ Where(s) = to /\ s.unget = NoChar /\ s.lost = g.lost /\ s.open = g.open /\ s.std = g.std
        /\ s.state = "empty"
    <3>1. Seeks(g, to, no, s) BY <2>3, <2>4, <1>2, <1>5 DEF Seeks
    <3> QED BY <3>1, SoughtIs
  <2>9. Slack(s) /\ Plain(s) /\ s.unget = none /\ s.state # "writing" BY <2>8, <1>4, <1>5 DEF Slack, Plain
  <2>10. ~s.lost => View(s) = d /\ Where(s) = at BY <2>7, <2>8, <1>0, <1>2, <1>6
  <2> QED BY <2>2, <2>6, <2>8, <2>9, <2>10, <1>4, SettlesAs
<1> QED BY <1>8, <1>9, <1>10

-----------------------------------------------------------------------------
(* Every step, and the start *)

LEMMA StreamStep == ASSUME StreamInv, NextStream PROVE StreamInv'
<1>1. ~file.lost BY DEF NextStream
<1>2. ASSUME NEW c \in Chars, Fputc(c) PROVE StreamInv' BY <1>1, <1>2, FputcStep
<1>3. ASSUME NEW c \in Chars, Ungetc(c) PROVE StreamInv' BY <1>1, <1>3, UngetcStep
<1>4. ASSUME NEW p \in Blocks, Fwrite(p) PROVE StreamInv' BY <1>1, <1>4, FwriteStep
<1>5. ASSUME NEW p \in Blocks, Put(p) PROVE StreamInv' BY <1>1, <1>5, PutStep
<1>6. ASSUME NEW n \in Sizes, Fgets(n) PROVE StreamInv' BY <1>1, <1>6, FgetsStep
<1>7. ASSUME NEW n \in Sizes, Fread(n) PROVE StreamInv' BY <1>1, <1>7, FreadStep
<1>8. ASSUME NEW offset \in Offsets, NEW whence \in {"set", "cur", "end"}, Fseek(offset, whence) PROVE StreamInv' BY <1>1, <1>8, FseekStep
<1>9. ASSUME NEW mode \in {Fbf, Lbf, Nbf}, NEW own \in BOOLEAN, NEW size \in Sizes, Setvbuf(mode, own, size) PROVE StreamInv'
  BY <1>1, <1>9, SetvbufStep
<1>10. ASSUME NEW to \in {"term:", "log", "r", "w+", "a+"}, Freopen(to) PROVE StreamInv' BY <1>1, <1>10, FreopenStep
<1>11. Fflush => StreamInv' BY <1>1, FflushStep
<1>12. ExitFlushes => StreamInv' BY <1>1, ExitStep
<1>13. Fclose => StreamInv' BY <1>1, FcloseStep
<1>14. Break => StreamInv' BY <1>1, BreakStep
<1>15. RunOut => StreamInv' BY <1>1, RunOutStep
<1> QED BY <1>2, <1>3, <1>4, <1>5, <1>6, <1>7, <1>8, <1>9, <1>10, <1>11, <1>12, <1>13, <1>14, <1>15 DEF NextStream

LEMMA StreamStays == ASSUME StreamInv, UNCHANGED streamVars PROVE StreamInv'
<1>1. file' = file /\ told' = told BY DEF streamVars
<1> QED BY <1>1 DEF StreamInv, Believed, Sane, Slack, Good, SaysWhy, Plain

LEMMA OpenedAsIs == ASSUME NEW f \in FileType, NEW mode PROVE Opened(f, mode) = Reopened(f, mode, Fbf)
<1> DEFINE z == Zeroed(f)
           s == Opened(f, mode)
<1>1. z \in FileType BY ZeroedIs
<1>2. s = [z EXCEPT !.readable = mode \in {"r", "r+", "w+", "a+"}, !.writable = mode # "r", !.append = mode \in {"a", "a+"},
                !.buf_mode = Fbf, !.term = FALSE, !.data = IF mode = "w+" THEN <<>> ELSE @]
  BY DEF Opened
<1>3. Reopened(f, mode, Fbf) = [s EXCEPT !.buf_mode = Fbf] BY DEF Reopened
<1> HIDE DEF z, s
<1>4. [s EXCEPT !.buf_mode = Fbf] = s BY <1>1, <1>2 DEF FileType
<1> QED BY <1>3, <1>4 DEF s

LEMMA FreshIs == /\ Fresh \in FileType /\ Fresh.std = FALSE /\ Fresh.lost = FALSE /\ Fresh.got = <<>>
<1> DEFINE no == FALSE
           yes == TRUE
           nil == <<>>
           zero == 0
           none == NoChar
<1>1. Fresh = [std |-> no, readable |-> no, writable |-> no, append |-> no, eof |-> no, error |-> no,
               unget |-> none, buf |-> nil, buf_pos |-> zero, buf_size |-> zero, buf_mode |-> Fbf, state |-> "empty", has |-> no,
               listed |-> no, hook |-> no, term |-> no, data |-> nil, pos |-> zero, bad |-> no, nomem |-> no,
               lost |-> no, open |-> yes, wrote |-> zero, got |-> nil]
  BY DEF Fresh
<1>2. no \in BOOLEAN /\ yes \in BOOLEAN /\ nil \in Seq(Chars) /\ zero \in Nat /\ none \in Chars \cup {NoChar} OBVIOUS
<1> HIDE DEF no, yes, nil, zero, none
<1>3. Fresh \in FileType BY <1>1, <1>2 DEF FileType
<1>4. Fresh.std = no /\ Fresh.lost = no /\ Fresh.got = nil BY <1>1
<1> QED BY <1>3, <1>4 DEF no, nil

LEMMA StreamStarts == InitStream => StreamInv
<1> SUFFICES ASSUME InitStream PROVE StreamInv OBVIOUS
<1>1. told = ToldOf(file) BY DEF InitStream
<1>2. ASSUME Sane(file), View(file) = file.data, Slack(file), file.unget = NoChar, file.std \/ Where(file) = 0, Plain(file), file.state = "empty",
             file.got = <<>>
      PROVE  StreamInv
  <2> DEFINE nil == <<>>
             d == file.data
             zero == 0
             none == NoChar
  <2>1. told = [data |-> d, at |-> zero, back |-> none, said |-> nil, owed |-> nil] BY <1>1 DEF ToldOf
  <2>2. nil \in Seq(Chars) /\ nil \in Said /\ d \in Seq(Chars) /\ zero \in Int /\ none \in Chars \cup {NoChar}
    BY <1>2 DEF Said, Sane, FileType
  <2>3. nil = <<>> /\ none = NoChar /\ zero = 0 /\ d = file.data OBVIOUS
  <2> HIDE DEF nil, d, zero, none
  <2>4. told \in ToldType BY <2>1, <2>2 DEF ToldType
  <2>5. told.data = d /\ told.at = zero /\ told.back = none /\ told.said = nil BY <2>1
  <2>6. Good(file, told) BY <1>2, <2>3, <2>5 DEF Good
  <2>7. SaysWhy(told) BY <2>3, <2>5 DEF SaysWhy
  <2> QED BY <1>2, <2>4, <2>6, <2>7 DEF StreamInv, Believed
<1>3. ASSUME NEW m \in {"r+", "a+"}, NEW d \in Contents, file = Opened([Fresh EXCEPT !.data = d], m) PROVE StreamInv
  <2> DEFINE x == [Fresh EXCEPT !.data = d]
             k == Fbf
  <2>1. d \in Seq(Chars) BY StreamAssumption
  <2>2. x \in FileType BY <2>1, FreshIs DEF FileType
  <2>3. x.std = FALSE /\ x.lost = FALSE /\ x.got = <<>>
    <3>1. Fresh \in FileType /\ Fresh.std = FALSE /\ Fresh.lost = FALSE /\ Fresh.got = <<>> BY FreshIs
    <3>2. x.std = Fresh.std /\ x.lost = Fresh.lost /\ x.got = Fresh.got BY <3>1 DEF FileType
    <3> QED BY <3>1, <3>2
  <2>4. file = Opened(x, m) BY <1>3
  <2> HIDE DEF x
  <2>5. file = Reopened(x, m, k) BY <2>2, <2>4, OpenedAsIs
  <2>6. k \in {Fbf, Lbf, Nbf} /\ m \in {"r", "r+", "w+", "a", "a+"} /\ ~x.std BY <2>3
  <2> DEFINE g == file
  <2>8. g = Reopened(x, m, k) BY <2>5
  <2> HIDE DEF k, g
  <2>7. /\ g \in FileType /\ Sane(g) /\ View(g) = g.data /\ Where(g) = 0 /\ Slack(g) /\ g.unget = NoChar /\ g.std = x.std
        /\ g.lost = x.lost /\ g.state = "empty" /\ g.got = x.got
    BY <2>2, <2>6, <2>8, OpenedIs
  <2>9. Plain(file) BY <2>7, <2>6 DEF Plain, g
  <2> QED BY <2>3, <2>7, <2>9, <1>2 DEF g
<1>4. ASSUME file = Stdout([Fresh EXCEPT !.std = TRUE]) PROVE StreamInv
  <2> DEFINE yes == TRUE
             x == [Fresh EXCEPT !.std = yes]
  <2>1. yes \in BOOLEAN /\ yes OBVIOUS
  <2>4. file = Stdout(x) BY <1>4
  <2>2. Fresh \in FileType /\ Fresh.got = <<>> BY FreshIs
  <2> HIDE DEF yes
  <2>3. x \in FileType /\ x.std = yes /\ x.got = Fresh.got BY ZenonT(60), <2>1, <2>2 DEF FileType
  <2> HIDE DEF x
  <2> DEFINE s == Stdout(x)
  <2>5. /\ Sane(s) /\ View(s) = x.data /\ Slack(s) /\ s.unget = NoChar /\ s.term /\ s.buf_mode = Nbf /\ s.std
        /\ s.state = "empty" /\ s.data = x.data /\ s.got = x.got
    BY <2>1, <2>3, StdoutIs
  <2>6. file = s BY <2>4
  <2> HIDE DEF s
  <2>7. Plain(s) BY <2>5 DEF Plain
  <2> QED BY <2>2, <2>3, <2>5, <2>6, <2>7, <1>2
<1> QED BY <1>3, <1>4 DEF InitStream

-----------------------------------------------------------------------------
(* The stream over the program's own buffer (fmemopen) *)

MemBytes == MemChars \cup {0}
MemType ==
    [bytes : [1 .. MemSize -> MemBytes], len : 0 .. MemSize, pos : 0 .. MemSize, append : BOOLEAN, unget : MemBytes \cup {NoChar},
     eof : BOOLEAN, error : BOOLEAN, got : MemBytes \cup {NoChar}]
TextType == [held : Seq(MemBytes), ends : BOOLEAN, said : MemBytes \cup {NoChar}]
\* The text is the bytes, one by one.
Holds(b, len, h) == h \in Seq(MemBytes) /\ Len(h) = len /\ \A i \in 1 .. len : h[i] = b[i]
MemInv ==
    /\ mem \in MemType /\ text \in TextType
    /\ Holds(mem.bytes, mem.len, text.held)
    /\ text.said # NoChar => mem.got = text.said
    /\ Terminated

LEMMA HoldsIs == ASSUME NEW b \in [1 .. MemSize -> MemBytes], NEW len \in 0 .. MemSize, NEW h
  PROVE Holds(b, len, h) <=> h = SubSeq(b, 1, len)
<1> DEFINE s == SubSeq(b, 1, len)
<1>0. MemSize \in Nat BY MemAssumption
<1>1. \A i \in 1 .. len : b[i] \in MemBytes BY <1>0
<1>2. 1 \in Int /\ len \in Int /\ len \in Nat BY <1>0
<1>3. s \in Seq(MemBytes) /\ Len(s) = (IF 1 <= len THEN len - 1 + 1 ELSE 0) /\ \A i \in 1 .. len - 1 + 1 : s[i] = b[1 + i - 1]
  BY <1>1, <1>2, SubSeqProperties
<1> HIDE DEF s
<1>4. Len(s) = len BY <1>2, <1>3
<1>5. \A i \in 1 .. len : s[i] = b[i]
  <2>1. TAKE i \in 1 .. len
  <2>2. i \in 1 .. len - 1 + 1 /\ 1 + i - 1 = i BY <1>2
  <2> QED BY <2>2, <1>3
<1>6. Holds(b, len, s) BY <1>3, <1>4, <1>5 DEF Holds
<1>7. ASSUME Holds(b, len, h) PROVE h = s
  <2>1. h \in Seq(MemBytes) /\ Len(h) = Len(s) /\ \A i \in 1 .. Len(h) : h[i] = s[i] BY <1>7, <1>4, <1>5 DEF Holds
  <2> QED BY <2>1, <1>3, SeqEqual
<1> QED BY <1>6, <1>7 DEF s

LEMMA MemGives == MemInv => MemoryHolds /\ Terminated
<1> SUFFICES ASSUME MemInv PROVE MemoryHolds BY DEF MemInv
<1>1. mem.bytes \in [1 .. MemSize -> MemBytes] /\ mem.len \in 0 .. MemSize /\ mem.pos \in 0 .. MemSize BY DEF MemInv, MemType
<1>2. text.held = SubSeq(mem.bytes, 1, mem.len) BY <1>1, HoldsIs DEF MemInv
<1>3. MemSize \in Nat BY MemAssumption
<1> QED BY <1>1, <1>2, <1>3 DEF MemoryHolds, MemInv

\* Text with one byte put in it
LEMMA PutInto ==
    ASSUME NEW h \in Seq(MemBytes), NEW at \in 0 .. Len(h), NEW c \in MemBytes
    PROVE  LET r == SubSeq(h, 1, at) \o <<c>> \o SubSeq(h, at + 2, Len(h))
           IN  /\ r \in Seq(MemBytes) /\ Len(r) = IF at + 1 > Len(h) THEN at + 1 ELSE Len(h)
               /\ \A i \in 1 .. Len(r) : r[i] = IF i = at + 1 THEN c ELSE h[i]
<1> DEFINE a == SubSeq(h, 1, at)
           p == <<c>>
           z == SubSeq(h, at + 2, Len(h))
           l == Len(h)
<1>0. l \in Nat /\ l = Len(h) /\ at \in 0 .. l OBVIOUS
<1>1. a \in Seq(MemBytes) /\ Len(a) = at /\ \A i \in 1 .. at : a[i] = h[i] OBVIOUS
<1>2. /\ z \in Seq(MemBytes) /\ Len(z) = IF at + 1 > Len(h) THEN 0 ELSE Len(h) - (at + 1)
      /\ \A i \in 1 .. Len(z) : z[i] = h[at + 1 + i]
  OBVIOUS
<1>3. p \in Seq(MemBytes) /\ Len(p) = 1 /\ p[1] = c OBVIOUS
<1> HIDE DEF a, p, z, l
<1> DEFINE b == a \o p
<1>4. b \in Seq(MemBytes) /\ Len(b) = at + 1 /\ \A i \in 1 .. at + 1 : b[i] = IF i <= at THEN a[i] ELSE p[i - at]
  <2>1. b \in Seq(MemBytes) /\ Len(b) = Len(a) + Len(p) /\ \A i \in 1 .. Len(a) + Len(p) : b[i] = IF i <= Len(a) THEN a[i] ELSE p[i - Len(a)]
    BY <1>1, <1>3, ConcatProperties
  <2> QED BY <2>1, <1>1, <1>3
<1>5. \A i \in 1 .. at + 1 : b[i] = IF i = at + 1 THEN c ELSE h[i]
  <2>1. TAKE i \in 1 .. at + 1
  <2>2. CASE i = at + 1
    <3>1. ~(i <= at) /\ i - at = 1 BY <2>2, <1>0
    <3> QED BY <3>1, <1>3, <1>4, <2>2
  <2>3. CASE i # at + 1
    <3>1. i \in 1 .. at BY <2>3, <1>0
    <3> QED BY <3>1, <2>3, <1>1, <1>4
  <2> QED BY <2>2, <2>3
<1> HIDE DEF b
<1> DEFINE r == b \o z
           m == Len(z)
<1>6. /\ r \in Seq(MemBytes) /\ Len(r) = at + 1 + m /\ \A i \in 1 .. at + 1 + m : r[i] = IF i <= at + 1 THEN b[i] ELSE z[i - (at + 1)]
  <2>1. r \in Seq(MemBytes) /\ Len(r) = Len(b) + Len(z) /\ \A i \in 1 .. Len(b) + Len(z) : r[i] = IF i <= Len(b) THEN b[i] ELSE z[i - Len(b)]
    BY <1>2, <1>4, ConcatProperties
  <2>2. Len(b) = at + 1 /\ Len(z) = m BY <1>4
  <2> HIDE DEF r, m
  <2> QED BY <2>1, <2>2
<1>7. m \in Nat /\ m = (IF at + 1 > l THEN 0 ELSE l - (at + 1)) /\ \A i \in 1 .. m : z[i] = h[at + 1 + i] BY <1>2, <1>0 DEF l
<1> HIDE DEF r, m
<1>10. Len(r) = at + 1 + m BY <1>6
<1>11. m \in Nat /\ m = (IF at + 1 > l THEN 0 ELSE l - (at + 1)) BY <1>7
<1>12. l \in Nat /\ at \in 0 .. l BY <1>0
<1>8. Len(r) = IF at + 1 > l THEN at + 1 ELSE l BY <1>10, <1>11, <1>12
<1>9. ASSUME NEW i \in 1 .. Len(r) PROVE r[i] = IF i = at + 1 THEN c ELSE h[i]
  <2>1. i \in 1 .. at + 1 + m BY <1>6
  <2>2. CASE i <= at + 1
    <3>1. i \in 1 .. at + 1 BY <2>1, <2>2, <1>0
    <3> QED BY <3>1, <2>1, <2>2, <1>5, <1>6
  <2>3. CASE ~(i <= at + 1)
    <3>1. i - (at + 1) \in 1 .. m /\ at + 1 + (i - (at + 1)) = i /\ i # at + 1 BY <2>1, <2>3, <1>12, <1>11
    <3>2. r[i] = z[i - (at + 1)] BY <2>1, <2>3, <1>6
    <3>3. z[i - (at + 1)] = h[at + 1 + (i - (at + 1))] BY <3>1, <1>7
    <3> QED BY <3>1, <3>2, <3>3
  <2> QED BY <2>2, <2>3
<1> QED BY <1>6, <1>8, <1>9 DEF r, b, a, p, z, l

LEMMA PutcHolds == ASSUME MemInv, NEW c \in MemChars, MemFputc(c) PROVE MemInv'
<1>0. MemSize \in Nat /\ MemChars \subseteq Nat \ {0} BY MemAssumption
<1>1. mem \in MemType /\ text \in TextType /\ Holds(mem.bytes, mem.len, text.held) /\ Terminated BY DEF MemInv
<1> DEFINE at == WriteAt(mem)
           b == mem.bytes
           len == mem.len
           none == NoChar
<1>2. at \in 0 .. MemSize /\ len \in 0 .. MemSize /\ b \in [1 .. MemSize -> MemBytes] BY <1>1 DEF WriteAt, MemType
<1>3. CASE at >= MemSize
  <2> DEFINE yes == TRUE
  <2>1. mem' = [mem EXCEPT !.pos = at, !.error = yes] BY <1>3 DEF MemFputc, MemoryPutc
  <2>2. text' = [text EXCEPT !.said = none] BY <1>3 DEF MemFputc
  <2>3. yes \in BOOLEAN /\ none \in MemBytes \cup {NoChar} /\ none = NoChar OBVIOUS
  <2> HIDE DEF yes, at, none
  <2>4. mem' \in MemType BY <1>1, <1>2, <2>1, <2>3 DEF MemType
  <2>5. text' \in TextType BY <1>1, <2>2, <2>3 DEF TextType
  <2>6. mem'.bytes = b /\ mem'.len = len BY <1>1, <2>1 DEF MemType
  <2>7. text'.held = text.held /\ text'.ends = text.ends /\ text'.said = none BY <1>1, <2>2 DEF TextType
  <2>8. Terminated' BY <1>1, <2>6, <2>7 DEF Terminated
  <2> QED BY <1>1, <2>3, <2>4, <2>5, <2>6, <2>7, <2>8 DEF MemInv
<1>4. CASE ~(at >= MemSize)
  <2>0. at + 1 \in 1 .. MemSize /\ c \in MemBytes BY <1>0, <1>2, <1>4 DEF MemBytes
  <2> DEFINE h == text.held \o Uncovered(mem)
             r == SubSeq(h, 1, at) \o <<c>> \o SubSeq(h, at + 2, Len(h))
             more == IF at > len THEN at ELSE len
  <2>1. text' = [text EXCEPT !.held = r, !.said = none] BY <1>4 DEF MemFputc
  <2>2. h \in Seq(MemBytes) /\ Len(h) = more /\ \A i \in 1 .. more : h[i] = b[i]
    <3> DEFINE u == Uncovered(mem)
               t == text.held
    <3>1. t \in Seq(MemBytes) /\ Len(t) = len /\ \A i \in 1 .. len : t[i] = b[i] BY <1>1 DEF Holds
    <3>2. CASE at > len
      <4>1. u = SubSeq(b, len + 1, at) BY <3>2 DEF Uncovered
      <4> DEFINE lo == len + 1
      <4>6. u = SubSeq(b, lo, at) BY <4>1
      <4> HIDE DEF at, b, len, u, t
      <4>2. lo \in Int /\ at \in Int /\ lo <= at /\ at - lo + 1 = at - len /\ \A i \in 1 .. at - len : lo + i - 1 = len + i BY <1>0, <1>2, <3>2
      <4>3. \A i \in lo .. at : b[i] \in MemBytes BY <1>0, <1>2
      <4> HIDE DEF lo
      <4>4. u \in Seq(MemBytes) /\ Len(u) = (IF lo <= at THEN at - lo + 1 ELSE 0) /\ \A i \in 1 .. at - lo + 1 : u[i] = b[lo + i - 1]
        BY <4>2, <4>3, <4>6, SubSeqProperties
      <4>5. Len(u) = at - len /\ \A i \in 1 .. at - len : u[i] = b[len + i] BY <4>2, <4>4
      <4> DEFINE y == t \o u
      <4>7. y \in Seq(MemBytes) /\ Len(y) = Len(t) + Len(u) /\ \A i \in 1 .. Len(t) + Len(u) : y[i] = IF i <= Len(t) THEN t[i] ELSE u[i - Len(t)]
        BY <3>1, <4>4, ConcatProperties
      <4> HIDE DEF y
      <4>8. Len(t) + Len(u) = at BY <3>1, <4>5, <1>0, <1>2
      <4>9. \A i \in 1 .. at : y[i] = IF i <= len THEN t[i] ELSE u[i - len] BY <3>1, <4>7, <4>8
      <4>10. ASSUME NEW i \in 1 .. at PROVE y[i] = b[i]
        <5>1. CASE i <= len
          <6>1. i \in 1 .. len BY <5>1, <1>0, <1>2
          <6> QED BY <6>1, <5>1, <4>9, <3>1
        <5>2. CASE ~(i <= len)
          <6>1. i - len \in 1 .. at - len /\ len + (i - len) = i BY <5>2, <1>0, <1>2
          <6>2. y[i] = u[i - len] BY <5>2, <4>9
          <6>3. u[i - len] = b[len + (i - len)] BY <6>1, <4>5
          <6> QED BY <6>1, <6>2, <6>3
        <5> QED BY <5>1, <5>2
      <4>11. y \in Seq(MemBytes) /\ Len(y) = at /\ \A i \in 1 .. at : y[i] = b[i] BY <4>7, <4>8, <4>10
      <4> QED BY <4>11, <3>2 DEF y, u, t, b, len, at
    <3>3. CASE ~(at > len)
      <4>1. u = <<>> BY <3>3 DEF Uncovered
      <4>2. h = t BY <3>1, <4>1, ConcatEmptySeq
      <4> QED BY <3>1, <3>3, <4>2
    <3> QED BY <3>2, <3>3
  <2> HIDE DEF h
  <2>3. at \in 0 .. Len(h) BY <2>2, <1>0, <1>2
  <2>4. /\ r \in Seq(MemBytes) /\ Len(r) = (IF at + 1 > Len(h) THEN at + 1 ELSE Len(h))
        /\ \A i \in 1 .. Len(r) : r[i] = IF i = at + 1 THEN c ELSE h[i]
    BY <2>0, <2>2, <2>3, PutInto
  <2> HIDE DEF r
  <2> DEFINE full == IF at + 1 > len THEN at + 1 ELSE len
  <2>5. Len(r) = full /\ \A i \in 1 .. full : r[i] = IF i = at + 1 THEN c ELSE b[i]
    <3>1. Len(r) = full /\ full \in Nat BY <2>2, <2>4, <1>0, <1>2
    <3>2. ASSUME NEW i \in 1 .. full, i # at + 1 PROVE h[i] = b[i]
      <4>1. i \in 1 .. more BY <3>2, <1>0, <1>2
      <4> QED BY <4>1, <2>2
    <3> HIDE DEF full
    <3> QED BY <3>1, <3>2, <2>4
  <2>6. text' \in TextType /\ text'.held = r /\ text'.ends = text.ends /\ text'.said = none BY <1>1, <2>1, <2>4 DEF TextType
  <2>7. CASE at + 1 > len
    <3> DEFINE to == at + 1
               w == [b EXCEPT ![to] = c]
               g == [mem EXCEPT !.bytes = w, !.pos = to, !.len = to]
               v == IF to < MemSize THEN [w EXCEPT ![to + 1] = 0] ELSE w
               k == [mem EXCEPT !.bytes = v, !.pos = to, !.len = to]
    <3>1. w \in [1 .. MemSize -> MemBytes] BY <1>2, <2>0
    <3>2. v \in [1 .. MemSize -> MemBytes] BY <3>1, <2>0 DEF MemBytes
    <3>3. mem' = k
      <4>1. mem' = Terminate([[mem EXCEPT !.bytes[at + 1] = c, !.pos = at + 1] EXCEPT !.len = at + 1]) BY <1>4, <2>7 DEF MemFputc, MemoryPutc
      <4>2. [[mem EXCEPT !.bytes[at + 1] = c, !.pos = at + 1] EXCEPT !.len = at + 1] = g BY <1>1 DEF MemType
      <4>3. mem' = Terminate(g) BY <4>1, <4>2
      <4> HIDE DEF w, to, at
      <4>4. g.len = to /\ g.bytes = w BY <1>1 DEF MemType
      <4>5. Terminate(g) = k
        <5>1. CASE to < MemSize
          <6>1. Terminate(g) = [g EXCEPT !.bytes[to + 1] = 0] BY <5>1, <4>4 DEF Terminate
          <6>2. v = [w EXCEPT ![to + 1] = 0] BY <5>1
          <6> HIDE DEF v
          <6>3. [g EXCEPT !.bytes[to + 1] = 0] = [g EXCEPT !.bytes = v] BY <6>2, <4>4
          <6>4. [g EXCEPT !.bytes = v] = k BY <1>1 DEF MemType
          <6> QED BY <6>1, <6>3, <6>4
        <5>2. CASE ~(to < MemSize)
          <6>1. Terminate(g) = g BY <5>2, <4>4 DEF Terminate
          <6>2. v = w BY <5>2
          <6> QED BY <6>1, <6>2
        <5> QED BY <5>1, <5>2
      <4> QED BY <4>3, <4>5
    <3>4. full = to /\ to \in 1 .. MemSize BY <2>7, <2>0
    <3>5. \A i \in 1 .. to : v[i] = IF i = to THEN c ELSE b[i] BY <1>0, <1>2, <2>0
    <3>6. to < MemSize => v[to + 1] = 0
      <4>1. ASSUME to < MemSize PROVE v[to + 1] = 0
        <5>1. to + 1 \in 1 .. MemSize BY <4>1, <3>4, <1>0
        <5> QED BY <4>1, <5>1, <3>1
      <4> QED BY <4>1
    <3>7. mem' \in MemType /\ mem'.bytes = v /\ mem'.len = to
      <4>1. to \in 0 .. MemSize BY <3>4, <1>0
      <4> HIDE DEF to, v
      <4> QED BY <3>2, <3>3, <4>1, <1>1 DEF MemType
    <3>8. Holds(v, to, r)
      <4> HIDE DEF v, full
      <4>1. Len(r) = to /\ \A i \in 1 .. to : r[i] = v[i] BY <2>5, <3>4, <3>5
      <4> QED BY <4>1, <2>4 DEF Holds
    <3>9. Terminated' BY <3>6, <3>7 DEF Terminated
    <3> HIDE DEF v, to
    <3> QED BY <2>6, <3>7, <3>8, <3>9 DEF MemInv
  <2>8. CASE ~(at + 1 > len)
    <3> DEFINE to == at + 1
               w == [b EXCEPT ![to] = c]
               k == [mem EXCEPT !.bytes = w, !.pos = to]
    <3>1. w \in [1 .. MemSize -> MemBytes] BY <1>2, <2>0
    <3>2. mem' = k BY <1>4, <2>8 DEF MemFputc, MemoryPutc
    <3>3. full = len BY <2>8
    <3>4. \A i \in 1 .. len : w[i] = IF i = to THEN c ELSE b[i] BY <1>0, <1>2, <2>0
    <3>5. len < MemSize => w[len + 1] = b[len + 1]
      <4>1. len < MemSize => len + 1 \in 1 .. MemSize /\ len + 1 # to BY <2>8, <2>0, <1>0, <1>2
      <4> QED BY <4>1, <1>2
    <3>6. mem' \in MemType /\ mem'.bytes = w /\ mem'.len = len
      <4>1. to \in 0 .. MemSize BY <2>0, <1>0
      <4> HIDE DEF to, w
      <4> QED BY <3>1, <3>2, <4>1, <1>1 DEF MemType
    <3>7. Holds(w, len, r)
      <4> HIDE DEF w, full
      <4>1. Len(r) = len /\ \A i \in 1 .. len : r[i] = w[i] BY <2>5, <3>3, <3>4
      <4> QED BY <4>1, <2>4 DEF Holds
    <3>8. Terminated' BY <3>5, <3>6, <2>6, <1>1 DEF Terminated
    <3> HIDE DEF w, to
    <3> QED BY <2>6, <3>6, <3>7, <3>8 DEF MemInv
  <2> QED BY <2>7, <2>8
<1> QED BY <1>3, <1>4

LEMMA GetcHolds == ASSUME MemInv, MemGetc PROVE MemInv'
<1>0. MemSize \in Nat BY MemAssumption
<1>1. /\ mem \in MemType /\ text \in TextType /\ Holds(mem.bytes, mem.len, text.held) /\ Terminated
      /\ Len(text.held) = mem.len /\ \A i \in 1 .. mem.len : text.held[i] = mem.bytes[i]
  BY DEF MemInv, Holds
<1>2. mem.bytes \in [1 .. MemSize -> MemBytes] /\ mem.len \in 0 .. MemSize /\ mem.pos \in 0 .. MemSize /\ mem.unget \in MemBytes \cup {NoChar}
  BY <1>1 DEF MemType
<1> DEFINE said == IF mem.unget # NoChar THEN mem.unget ELSE IF mem.pos < Len(text.held) THEN text.held[mem.pos + 1] ELSE NoChar
<1>3. text' = [text EXCEPT !.said = said] BY DEF MemGetc
<1>4. mem' \in MemType /\ mem'.bytes = mem.bytes /\ mem'.len = mem.len /\ mem'.got = said /\ said \in MemBytes \cup {NoChar}
  <2>1. CASE mem.unget # NoChar
    <3> DEFINE c == mem.unget
               none == NoChar
    <3>1. mem' = [mem EXCEPT !.got = c, !.unget = none] BY <2>1 DEF MemGetc
    <3>2. c \in MemBytes \cup {NoChar} /\ none \in MemBytes \cup {NoChar} BY <1>2
    <3>3. said = c BY <2>1
    <3> HIDE DEF c, none, said
    <3> QED BY <3>1, <3>2, <3>3, <1>1 DEF MemType
  <2>2. CASE mem.unget = NoChar /\ mem.pos >= mem.len
    <3> DEFINE yes == TRUE
               none == NoChar
    <3>1. mem' = [mem EXCEPT !.got = none, !.eof = yes] BY <2>2 DEF MemGetc
    <3>2. none \in MemBytes \cup {NoChar} /\ yes \in BOOLEAN OBVIOUS
    <3>4. ~(mem.pos < Len(text.held)) BY <2>2, <1>0, <1>1, <1>2
    <3>3. said = none BY <2>2, <3>4
    <3> HIDE DEF none, said, yes
    <3> QED BY <3>1, <3>2, <3>3, <1>1 DEF MemType
  <2>3. CASE mem.unget = NoChar /\ ~(mem.pos >= mem.len)
    <3> DEFINE to == mem.pos + 1
               c == mem.bytes[to]
    <3>1. mem' = [mem EXCEPT !.got = c, !.pos = to] BY <2>3, <1>1 DEF MemGetc, MemType
    <3>2. to \in 0 .. MemSize /\ to \in 1 .. MemSize /\ to \in 1 .. mem.len /\ mem.pos < Len(text.held) BY <2>3, <1>0, <1>1, <1>2
    <3>3. said = c
      <4>1. said = text.held[to] BY <2>3, <3>2
      <4>2. text.held[to] = mem.bytes[to] BY <3>2, <1>1
      <4> QED BY <4>1, <4>2
    <3> HIDE DEF to
    <3>4. c \in MemBytes BY <3>2, <1>2
    <3> HIDE DEF c, said
    <3> QED BY <3>1, <3>2, <3>3, <3>4, <1>1 DEF MemType
  <2> QED BY <2>1, <2>2, <2>3
<1> HIDE DEF said
<1>5. text' \in TextType /\ text'.held = text.held /\ text'.ends = text.ends /\ text'.said = said BY <1>1, <1>3, <1>4 DEF TextType
<1>6. Terminated' BY <1>1, <1>4, <1>5 DEF Terminated
<1> QED BY <1>1, <1>4, <1>5, <1>6 DEF MemInv

LEMMA MemKeeps ==
    ASSUME MemInv, mem' \in MemType, mem'.bytes = mem.bytes, mem'.len = mem.len, text' = [text EXCEPT !.said = NoChar]
    PROVE  MemInv'
<1> DEFINE none == NoChar
<1>1. text \in TextType /\ Holds(mem.bytes, mem.len, text.held) /\ Terminated BY DEF MemInv
<1>2. text' = [text EXCEPT !.said = none] /\ none \in MemBytes \cup {NoChar} /\ none = NoChar OBVIOUS
<1> HIDE DEF none
<1>3. text' \in TextType /\ text'.held = text.held /\ text'.ends = text.ends /\ text'.said = none BY <1>1, <1>2 DEF TextType
<1>4. Terminated' BY <1>1, <1>3 DEF Terminated
<1> QED BY <1>1, <1>2, <1>3, <1>4 DEF MemInv

LEMMA MemUngetcHolds == ASSUME MemInv, NEW c \in MemChars, MemUngetc(c) PROVE MemInv'
<1> DEFINE no == FALSE
           none == NoChar
<1>1. mem' = [mem EXCEPT !.unget = c, !.eof = no, !.got = none] /\ text' = [text EXCEPT !.said = NoChar] BY DEF MemUngetc
<1>2. mem \in MemType BY DEF MemInv
<1>3. no \in BOOLEAN /\ none \in MemBytes \cup {NoChar} /\ c \in MemBytes \cup {NoChar} BY DEF MemBytes
<1> HIDE DEF no, none
<1>4. mem' \in MemType /\ mem'.bytes = mem.bytes /\ mem'.len = mem.len BY <1>1, <1>2, <1>3 DEF MemType
<1> QED BY <1>1, <1>4, MemKeeps

LEMMA MemSeekHolds == ASSUME MemInv, NEW offset \in Offsets, NEW whence \in {"set", "cur", "end"}, MemSeek(offset, whence) PROVE MemInv'
<1> DEFINE no == FALSE
           none == NoChar
           target == offset + CASE whence = "set" -> 0 [] whence = "cur" -> mem.pos [] whence = "end" -> mem.len
<1>1. /\ text' = [text EXCEPT !.said = NoChar]
      /\ mem' = IF target \in 0 .. MemSize THEN [mem EXCEPT !.pos = target, !.unget = none, !.eof = no, !.got = none] ELSE [mem EXCEPT !.got = none]
  BY DEF MemSeek
<1>2. mem \in MemType BY DEF MemInv
<1>3. no \in BOOLEAN /\ none \in MemBytes \cup {NoChar} OBVIOUS
<1> HIDE DEF no, none, target
<1>4. mem' \in MemType /\ mem'.bytes = mem.bytes /\ mem'.len = mem.len
  <2>1. CASE target \in 0 .. MemSize BY <2>1, <1>1, <1>2, <1>3 DEF MemType
  <2>2. CASE target \notin 0 .. MemSize BY <2>2, <1>1, <1>2, <1>3 DEF MemType
  <2> QED BY <2>1, <2>2
<1> QED BY <1>1, <1>4, MemKeeps

LEMMA TextLenIs == ASSUME NEW b \in [1 .. MemSize -> MemBytes]
  PROVE TextLen(b) \in 0 .. MemSize /\ (TextLen(b) < MemSize => b[TextLen(b) + 1] = 0)
<1>0. MemSize \in Nat /\ DOMAIN b = 1 .. MemSize BY MemAssumption
<1>1. CASE ~\E i \in DOMAIN b : b[i] = 0
  <2>1. TextLen(b) = MemSize BY <1>1 DEF TextLen
  <2> QED BY <2>1, <1>0
<1>2. CASE \E i \in DOMAIN b : b[i] = 0
  <2> DEFINE T == {i \in DOMAIN b : b[i] = 0}
             First(i) == i \in DOMAIN b /\ b[i] = 0 /\ \A j \in 1 .. i - 1 : b[j] # 0
             k == CHOOSE i \in DOMAIN b : b[i] = 0 /\ \A j \in 1 .. i - 1 : b[j] # 0
             s == Soonest(T)
  <2>1. T # {} /\ T \in SUBSET Nat BY <1>2, <1>0
  <2>2. Soonest(T) \in T /\ \A y \in T : Soonest(T) <= y BY <2>1, LeastOf
  <2> HIDE DEF s
  <2>3. s \in DOMAIN b /\ b[s] = 0 BY <2>2 DEF s
  <2>4. ASSUME NEW j \in 1 .. s - 1 PROVE b[j] # 0
    <3>1. SUFFICES ASSUME b[j] = 0 PROVE FALSE OBVIOUS
    <3>2. j \in T BY <3>1, <2>3, <1>0
    <3>3. s <= j BY <3>2, <2>2 DEF s
    <3> QED BY <3>3, <2>3, <1>0
  <2>5. First(k) BY <2>3, <2>4
  <2>6. TextLen(b) = k - 1 BY <1>2 DEF TextLen
  <2> HIDE DEF k
  <2>7. k \in 1 .. MemSize /\ b[k] = 0 BY <2>5, <1>0
  <2>8. k - 1 \in 0 .. MemSize /\ (k - 1) + 1 = k BY <2>7, <1>0
  <2> QED BY <2>6, <2>7, <2>8
<1> QED BY <1>1, <1>2

LEMMA MemStarts == InitMem => MemInv
<1> SUFFICES ASSUME InitMem PROVE MemInv OBVIOUS
<1>15. PICK b \in Buffers, mode \in {"r", "w", "a"} :
         /\ mem = Fmemopen(b, mode)
         /\ text = [held |-> SubSeq(b, 1, Fmemopen(b, mode).len), ends |-> mode # "r", said |-> NoChar]
  BY DEF InitMem
<1>0. MemSize \in Nat /\ MemSize > 0 /\ b \in [1 .. MemSize -> MemBytes] BY MemAssumption DEF MemBytes
<1> DEFINE len == CASE mode = "w" -> 0 [] mode = "a" -> TextLen(b) [] mode = "r" -> MemSize
           bytes == IF mode = "w" THEN [b EXCEPT ![1] = 0] ELSE b
           pos == IF mode = "a" THEN len ELSE 0
           appends == mode = "a"
           ends == mode # "r"
           no == FALSE
           none == NoChar
           held == SubSeq(b, 1, len)
<1>1. mem = [bytes |-> bytes, len |-> len, pos |-> pos, append |-> appends, unget |-> none, eof |-> no, error |-> no, got |-> none]
  BY <1>15 DEF Fmemopen
<1>2. mem.len = len BY <1>1
<1>3. text = [held |-> held, ends |-> ends, said |-> none] BY <1>2, <1>15
<1>4. len \in 0 .. MemSize
  <2>1. TextLen(b) \in 0 .. MemSize BY <1>0, TextLenIs
  <2> QED BY <2>1, <1>0
<1>5. bytes \in [1 .. MemSize -> MemBytes] BY <1>0 DEF MemBytes
<1>6. pos \in 0 .. MemSize /\ appends \in BOOLEAN /\ no \in BOOLEAN /\ none \in MemBytes \cup {NoChar} /\ none = NoChar /\ ends \in BOOLEAN
  BY <1>0, <1>4
<1>7. Holds(bytes, len, held)
  <2>1. Holds(b, len, held)
    <3> DEFINE h == held
    <3>1. h = SubSeq(b, 1, len) OBVIOUS
    <3> HIDE DEF h, len
    <3>2. Holds(b, len, h) BY <3>1, <1>0, <1>4, HoldsIs
    <3> QED BY <3>2 DEF h
  <2>2. CASE mode = "w"
    <3>1. len = 0 BY <2>2
    <3> HIDE DEF len, held, bytes
    <3> QED BY <3>1, <2>1 DEF Holds
  <2>3. CASE mode # "w"
    <3>1. bytes = b BY <2>3
    <3> HIDE DEF len, held, bytes
    <3> QED BY <3>1, <2>1
  <2> QED BY <2>2, <2>3
<1>8. ends /\ len < MemSize => bytes[len + 1] = 0
  <2>1. CASE mode = "w"
    <3>1. len = 0 /\ bytes = [b EXCEPT ![1] = 0] /\ 1 \in 1 .. MemSize BY <2>1, <1>0
    <3> QED BY <3>1, <1>0
  <2>2. CASE mode = "a"
    <3>1. len = TextLen(b) /\ bytes = b BY <2>2
    <3> HIDE DEF len, bytes
    <3> QED BY <3>1, <1>0, TextLenIs
  <2>3. CASE mode = "r" BY <2>3
  <2> QED BY <2>1, <2>2, <2>3
<1> HIDE DEF len, bytes, pos, appends, ends, no, none, held
<1>9. mem \in MemType BY <1>1, <1>4, <1>5, <1>6 DEF MemType
<1>12. held \in Seq(MemBytes) BY <1>7 DEF Holds
<1>14. none \in MemBytes \cup {NoChar} /\ ends \in BOOLEAN BY <1>6
<1>10. text \in TextType BY <1>3, <1>12, <1>14 DEF TextType
<1>13. mem.bytes = bytes /\ mem.len = len /\ text.held = held /\ text.said = none BY <1>1, <1>3
<1>11. Terminated BY <1>1, <1>3, <1>8 DEF Terminated
<1> QED BY <1>6, <1>7, <1>9, <1>10, <1>11, <1>13 DEF MemInv

LEMMA MemStep == ASSUME MemInv, NextMem PROVE MemInv'
<1>1. ASSUME NEW c \in MemChars, MemFputc(c) PROVE MemInv' BY <1>1, PutcHolds
<1>2. ASSUME NEW c \in MemChars, MemUngetc(c) PROVE MemInv' BY <1>2, MemUngetcHolds
<1>3. MemGetc => MemInv' BY GetcHolds
<1>4. ASSUME NEW offset \in Offsets, NEW whence \in {"set", "cur", "end"}, MemSeek(offset, whence) PROVE MemInv' BY <1>4, MemSeekHolds
<1> QED BY <1>1, <1>2, <1>3, <1>4 DEF NextMem

LEMMA MemStays == ASSUME MemInv, UNCHANGED memVars PROVE MemInv'
<1>1. mem' = mem /\ text' = text BY DEF memVars
<1> QED BY <1>1 DEF MemInv, Terminated

-----------------------------------------------------------------------------
\* Whatever the program calls, in any order, with any bytes, sizes, offsets and kinds of buffer, on a medium that may fill
\* up or fail, and with or without memory for a buffer: the bytes written are in the file in their order but for those
\* held back, a short read says why, nothing is held back that exit() does not find, ftell is where the program stands,
\* and an fmemopen stream holds the program's text, terminated (src/file.c, src/fopen.c, and src/stdio.c for stdout).
THEOREM StreamsAreKept == SpecStreams => []StreamsHold
<1>1. InitStream /\ InitMem => StreamInv /\ MemInv BY StreamStarts, MemStarts
<1>2. StreamInv /\ MemInv /\ [NextStreams]_<<streamVars, memVars>> => (StreamInv /\ MemInv)'
  <2> SUFFICES ASSUME StreamInv, MemInv, [NextStreams]_<<streamVars, memVars>> PROVE StreamInv' /\ MemInv' OBVIOUS
  <2>1. CASE NextStream /\ UNCHANGED memVars BY <2>1, StreamStep, MemStays
  <2>2. CASE NextMem /\ UNCHANGED streamVars BY <2>2, MemStep, StreamStays
  <2>3. CASE UNCHANGED <<streamVars, memVars>>
    <3>1. UNCHANGED streamVars /\ UNCHANGED memVars BY <2>3 DEF streamVars, memVars
    <3> QED BY <3>1, StreamStays, MemStays
  <2> QED BY <2>1, <2>2, <2>3 DEF NextStreams
<1>3. StreamInv /\ MemInv => StreamsHold BY InvGives, MemGives DEF StreamsHold
<1> QED BY <1>1, <1>2, <1>3, PTL DEF SpecStreams
=============================================================================
