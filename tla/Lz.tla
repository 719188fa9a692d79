--------------------------------- MODULE Lz ---------------------------------
(***************************************************************************)
(* LZ4 (src/ceres/lz.c), scaled down: bytes are 0 .. Base - 1, the halves  *)
(* of a token 0 .. Nibble, and the format's distances are constants.  A    *)
(* stream of frames is a sequence of words, a record each: a magic number, *)
(* the flags, a field, a block's size, a byte of it or a checksum.         *)
(***************************************************************************)
EXTENDS Integers, SequencesExt

CONSTANTS
    Base,              \* 256
    Nibble,            \* 15
    MinMatch,          \* MIN_MATCH
    MfLimit,           \* MF_LIMIT, from where a match of MinMatch ends before the last literals
    LastLiterals,      \* LAST_LITERALS
    Window,            \* 65535, the longest distance that two bytes tell
    Buckets,           \* the size of the hash table
    Slack,             \* of LZ4_BOUND: 16 in the code
    Inputs,            \* what is compressed
    Blocks,            \* what is given to the decompressor, good or bad
    Streams,           \* what is given to the frames' decompressor: two of these, one after the other
    Pieces,            \* and two of these, cut anywhere
    Caps               \* the room there is for it

VARIABLES
    job,               \* what is to be done
    out                \* and what came of it

vars == <<job, out>>

-----------------------------------------------------------------------------
\* decode: src[ip ..] into dst, which may already hold what came before it.  The answer is [err, dst].
Error(e, dst) == [err |-> e, dst |-> dst]
Byte(src, ip) == src[ip]
Past(src, ip) == ip > Len(src)

\* The bytes that go on with a length of Nibble: [err, n, ip].
RECURSIVE More(_, _, _, _)
More(src, ip, n, most) ==
    IF Past(src, ip) THEN [err |-> TRUE, n |-> n, ip |-> ip]
    ELSE LET m == n + src[ip]
         IN IF src[ip] = Base - 1 /\ m <= most THEN More(src, ip + 1, m, most) ELSE [err |-> FALSE, n |-> m, ip |-> ip + 1]
Length(src, ip, half, most) ==
    IF half = Nibble THEN More(src, ip, half, most) ELSE [err |-> FALSE, n |-> half, ip |-> ip]

\* A match may overlap what it writes: byte by byte.
RECURSIVE CopyMatch(_, _, _)
CopyMatch(dst, offset, n) ==
    IF n = 0 THEN dst ELSE CopyMatch(Append(dst, dst[Len(dst) + 1 - offset]), offset, n - 1)

RECURSIVE Decode(_, _, _, _), Match(_, _, _, _, _)
Decode(src, ip, dst, cap) ==
    IF Past(src, ip) THEN Error("EINVAL", dst)
    ELSE LET token == src[ip]
             lits == Length(src, ip + 1, token \div (Nibble + 1), Len(src))
             after == lits.ip + lits.n
         IN IF lits.err \/ lits.n > Len(src) + 1 - lits.ip THEN Error("EINVAL", dst)
            ELSE IF lits.n > cap - Len(dst) THEN Error("ENOSPC", dst)
            ELSE LET more == dst \o SubSeq(src, lits.ip, after - 1)
                 IN IF after = Len(src) + 1 THEN Error("none", more) ELSE Match(src, after, more, cap, token % (Nibble + 1))
Match(src, ip, dst, cap, half) ==
    IF Len(src) + 1 - ip < 2 THEN Error("EINVAL", dst)
    ELSE LET offset == src[ip] + Base * src[ip + 1]
             len == Length(src, ip + 2, half, cap)
         IN IF offset = 0 \/ offset > Len(dst) \/ len.err THEN Error("EINVAL", dst)
            ELSE IF len.n + MinMatch > cap - Len(dst) THEN Error("ENOSPC", dst)
            ELSE Decode(src, len.ip, CopyMatch(dst, offset, len.n + MinMatch), cap)
Decompress(src, cap) == Decode(src, 1, <<>>, cap)

-----------------------------------------------------------------------------
\* lz4_frame_decompress.  A word of the stream is there or not: what the code finds too short for one, of one to seven
\* bytes, is no word here.
Drop(words, n) == SubSeq(words, n + 1, Len(words))
Starts(words, of) == words # <<>> /\ words[1].word = "magic" /\ words[1].of = of

\* frame_header: its length in words, or 0 where the code has -1.
FrameHeader(words) ==
    LET f == words[2]
        length == 2 + (IF f.content THEN 1 ELSE 0) + (IF f.dictionary THEN 1 ELSE 0)
    IN IF ~Starts(words, "frame") \/ Len(words) < 2 THEN 0
       ELSE IF f.version # 1 \/ f.reserved \/ f.most < 4 \/ Len(words) < length THEN 0 ELSE length

\* Blocks up to the end mark, and the checksum after it: w = [err, dst, cap, words].
Stop(w, e) == [w EXCEPT !.err = e]
BlockOut(w, f, start, stored, block) ==
    IF stored
    THEN IF Len(block) > w.cap - Len(w.dst) THEN Stop(w, "ENOSPC") ELSE [w EXCEPT !.dst = @ \o block]
    ELSE LET before == IF f.independent THEN Len(w.dst) ELSE start
             r == Decode(block, 1, SubSeq(w.dst, before + 1, Len(w.dst)), w.cap - before)
         IN [w EXCEPT !.err = r.err, !.dst = SubSeq(@, 1, before) \o r.dst]
RECURSIVE BlocksOut(_, _, _)
BlocksOut(w, f, start) ==
    LET size == w.words[1]
        left == Tail(w.words)
        sum == IF f.blocksums THEN 1 ELSE 0
        block == [k \in 1 .. size.n |-> left[k].byte]
    IN IF w.err # "none" THEN w
       ELSE IF w.words = <<>> THEN Stop(w, "EINVAL")
       ELSE IF size.n = 0 /\ ~size.stored THEN [w EXCEPT !.words = left]
       ELSE IF Len(left) < size.n + sum THEN Stop(w, "EINVAL")
       ELSE BlocksOut([BlockOut(w, f, start, size.stored, block) EXCEPT !.words = Drop(left, size.n + sum)], f, start)
FrameOut(w, header) ==
    LET f == w.words[2]
        r == BlocksOut([w EXCEPT !.words = Drop(@, header)], f, Len(w.dst))
    IN IF r.err # "none" \/ ~f.sum THEN r
       ELSE IF r.words = <<>> THEN Stop(r, "EINVAL") ELSE [r EXCEPT !.words = Tail(@)]

RECURSIVE FramesOut(_, _)
FramesOut(w, frames) ==
    LET words == w.words
        header == FrameHeader(words)
        none == IF frames > 0 THEN w ELSE Stop(w, "EINVAL")
    IN IF w.err # "none" THEN w
       ELSE IF words = <<>> THEN none
       ELSE IF Starts(words, "skip") /\ Len(words) >= 2
       THEN IF words[2].n > Len(words) - 2 THEN Stop(w, "EINVAL")
            ELSE FramesOut([w EXCEPT !.words = Drop(@, 2 + words[2].n)], frames)
       ELSE IF header = 0 THEN none
       ELSE IF words[2].dictionary THEN Stop(w, "EINVAL")
       ELSE FramesOut(FrameOut(w, header), frames + 1)
DecompressFrames(words, cap) ==
    LET r == FramesOut([err |-> "none", dst |-> <<>>, cap |-> cap, words |-> words], 0) IN Error(r.err, r.dst)
\* lz4_frame_content_size; the field comes right after the flags.
ContentSize(words) == IF FrameHeader(words) = 0 \/ ~words[2].content THEN -1 ELSE words[3].n

-----------------------------------------------------------------------------
\* put_length, put_sequence: appended to o = [dst, cap, full].
Byted(o, b) == IF o.full \/ Len(o.dst) >= o.cap THEN [o EXCEPT !.full = TRUE] ELSE [o EXCEPT !.dst = Append(@, b)]
RECURSIVE PutLength(_, _)
PutLength(o, extra) ==
    IF extra >= Base - 1 THEN PutLength(Byted(o, Base - 1), extra - (Base - 1)) ELSE Byted(o, extra)
PutExtraPast(o, n) == IF n > Nibble THEN PutLength(o, n - Nibble) ELSE o
PutExtra(o, n) == IF n >= Nibble THEN PutLength(o, n - Nibble) ELSE o
AtMost(n) == IF n >= Nibble THEN Nibble ELSE n
PutLiterals(o, lits) ==
    IF o.full \/ Len(lits) > o.cap - Len(o.dst) THEN [o EXCEPT !.full = TRUE] ELSE [o EXCEPT !.dst = @ \o lits]
PutOffset(o, offset) ==
    IF o.full \/ o.cap - Len(o.dst) < 2 THEN [o EXCEPT !.full = TRUE]
    ELSE [o EXCEPT !.dst = @ \o <<offset % Base, offset \div Base>>]
PutSequence(o, lits, offset, length) ==
    LET token == AtMost(Len(lits)) * (Nibble + 1) + (IF length > 0 THEN AtMost(length - MinMatch) ELSE 0)
        start == PutLiterals(PutExtra(Byted(o, token), Len(lits)), lits)
    IN IF length = 0 THEN start ELSE PutExtra(PutOffset(start, offset), length - MinMatch)

\* The greedy search: positions from 0, table the last place each hash was seen at plus one.
Read(src, at) == SubSeq(src, at + 1, at + MinMatch)
Hash(seq) == FoldLeft(LAMBDA x, b : x + b, 0, seq) % Buckets
RECURSIVE MatchLength(_, _, _, _)
MatchLength(src, ref, ip, n) ==
    IF ip + n < Len(src) - LastLiterals /\ src[ref + n + 1] = src[ip + n + 1] THEN MatchLength(src, ref, ip, n + 1) ELSE n
Remembered(src, table, at) == [table EXCEPT ![Hash(Read(src, at))] = at + 1]
RECURSIVE Search(_, _, _, _, _)
Search(src, ip, anchor, table, o) ==
    LET limit == Len(src) - MfLimit
        ref == table[Hash(Read(src, ip))]
        seen == Remembered(src, table, ip)
    IN IF o.full THEN o
       ELSE IF ip >= limit THEN PutSequence(o, SubSeq(src, anchor + 1, Len(src)), 0, 0)
       ELSE IF ref = 0 \/ ip - (ref - 1) > Window \/ Read(src, ref - 1) # Read(src, ip)
       THEN Search(src, ip + 1, anchor, seen, o)
       ELSE LET n == MatchLength(src, ref - 1, ip, MinMatch)
                next == ip + n
            IN Search(src, next, next, IF next - 2 < limit THEN Remembered(src, seen, next - 2) ELSE seen,
                      PutSequence(o, SubSeq(src, anchor + 1, ip), ip - (ref - 1), n))
Compress(src, cap) ==
    LET o == [dst |-> <<>>, cap |-> cap, full |-> FALSE]
    IN IF Len(src) >= MfLimit + 1 THEN Search(src, 0, 0, [h \in 0 .. (Buckets - 1) |-> 0], o)
       ELSE PutSequence(o, src, 0, 0)
Bound(n) == n + n \div (Base - 1) + Slack        \* LZ4_BOUND

-----------------------------------------------------------------------------
\* The jobs: a block compressed, a block decompressed, two frames one after the other, whole or cut.
NotYet == [err |-> "not yet"]
Init ==
    /\ out = NotYet
    /\ job \in [do : {"compress"}, src : Inputs, cap : Caps] \cup [do : {"decompress"}, src : Blocks, cap : Caps]
            \cup [do : {"frames"}, first : Streams, second : Streams, cut : {0}, cap : Caps]
            \cup {j \in [do : {"frames"}, first : Pieces, second : Pieces, cut : 1 .. 40, cap : Caps] :
                    j.cut < Len(j.first) + Len(j.second)}
Packed == Compress(job.src, job.cap)
Words == SubSeq(job.first \o job.second, 1, Len(job.first) + Len(job.second) - job.cut)
Next ==
    /\ out = NotYet /\ UNCHANGED job
    /\ out' = CASE job.do = "compress" -> [err |-> IF Packed.full THEN "ENOSPC" ELSE "none", dst |-> Packed.dst]
                [] job.do = "decompress" -> Decompress(job.src, job.cap)
                [] job.do = "frames" -> DecompressFrames(Words, job.cap)
Spec == Init /\ [][Next]_vars

Done(what) == job.do = what /\ out # NotYet

\* What is compressed is decompressed into itself, given just the room it needs; it is refused only where it would not
\* fit; and a buffer of LZ4_BOUND always holds it.
PacksBack ==
    Done("compress") =>
        LET whole == Compress(job.src, Bound(Len(job.src)))
        IN /\ ~whole.full
           /\ out.err = "none" <=> Len(whole.dst) <= job.cap
           /\ out.err = "none" => out.dst = whole.dst /\ Decompress(out.dst, Len(job.src)) = [err |-> "none", dst |-> job.src]

\* Whatever the input, nothing is written past the room given; and with too little room, an input that
\* would decompress is refused for the room.
StaysInRoom ==
    Done("decompress") =>
        /\ Len(out.dst) <= job.cap
        /\ Decompress(job.src, 100).err = "none" =>
            IF Len(Decompress(job.src, 100).dst) <= job.cap THEN out.err = "none" ELSE out.err = "ENOSPC"

\* A frame stands alone: what came out before it is no part of it, whether its blocks are linked or not.  Of a stream cut
\* short, no part of a frame is taken for the whole: the answer is an error, or that of the frames before.
Alone(words) == DecompressFrames(words, 100)
FramesStandAlone ==
    Done("frames") =>
        LET first == SubSeq(job.first, 1, Min({Len(job.first), Len(Words)}))
            second == Drop(Words, Len(job.first))
            part(piece, whole) == piece # whole /\ (FrameHeader(piece) > 0 \/ (Starts(piece, "skip") /\ Len(piece) >= 2))
            content(piece) == IF FrameHeader(piece) > 0 THEN Alone(piece).dst ELSE <<>>
        IN /\ Len(out.dst) <= job.cap
           /\ out.err = "none" =>
                /\ ~part(first, job.first) /\ ~part(second, job.second)
                /\ FrameHeader(first) > 0 \/ FrameHeader(second) > 0
                /\ out.dst = content(first) \o content(second)
           /\ Alone(first).err = "none" /\ Alone(second).err = "none" =>
                out.err = IF Len(content(first)) + Len(content(second)) <= job.cap THEN "none" ELSE "ENOSPC"
           /\ \A piece \in {first, second} : Alone(piece).err = "none" /\ ContentSize(piece) # -1 =>
                ContentSize(piece) = Len(Alone(piece).dst)
=============================================================================
