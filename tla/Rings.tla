-------------------------------- MODULE Rings --------------------------------
(***************************************************************************)
(* Ring buffers: the growable one of src/ceres/ds/deque.c, and the queue   *)
(* between an interrupt handler and the program.                           *)
(***************************************************************************)
EXTENDS Integers, Sequences, SequencesExt

-----------------------------------------------------------------------------
\* The growable circular buffer of src/ceres/ds/deque.c.
\* A slot that holds no element is None: the code reads it nowhere.
\* "elems" is not in the code: the elements as the caller put them in.

CONSTANTS Items,
          MaxCap       \* a larger buffer does not fit a size_t

VARIABLES dq, elems

dequeVars == <<dq, elems>>

None == 0
Empty == [head |-> 0, len |-> 0, cap |-> 0, data |-> [i \in {} |-> None]]
SlotOf(d, i) == IF d.head + i >= d.cap THEN d.head + i - d.cap ELSE d.head + i
ElementAt(d, i) == d.data[SlotOf(d, i)]

\* grow: the elements are copied out in their order, from slot 0 on.
Want(d) == IF d.cap = 0 THEN 4 ELSE d.cap * 2
GrownInPlace(d) ==
    [d EXCEPT !.cap = Want(d), !.data = [i \in 0 .. Want(d) - 1 |-> IF i < d.cap THEN d.data[i] ELSE None]]
Grown(d) ==
    [d EXCEPT !.cap = Want(d), !.head = 0,
              !.data = [i \in 0 .. Want(d) - 1 |-> IF i < d.len THEN ElementAt(d, i) ELSE None]]
Room(d) == IF d.len = d.cap THEN Grown(d) ELSE d
MayGrow(d) == d.len < d.cap \/ Want(d) <= MaxCap

AtBack(d, x) == [d EXCEPT !.data[SlotOf(d, d.len)] = x, !.len = @ + 1]
Before(d) == IF d.head = 0 THEN d.cap - 1 ELSE d.head - 1
AtFront(d, x) == [d EXCEPT !.head = Before(d), !.data[Before(d)] = x, !.len = @ + 1]

PushBack(x) == MayGrow(dq) /\ dq' = AtBack(Room(dq), x) /\ elems' = Append(elems, x)
PushFront(x) == MayGrow(dq) /\ dq' = AtFront(Room(dq), x) /\ elems' = <<x>> \o elems
PopBack == /\ dq.len > 0 /\ elems' = Front(elems)
           /\ dq' = [dq EXCEPT !.data[SlotOf(dq, dq.len - 1)] = None, !.len = @ - 1]
PopFront == /\ dq.len > 0 /\ elems' = Tail(elems)
            /\ dq' = [dq EXCEPT !.data[dq.head] = None, !.head = SlotOf(dq, 1), !.len = @ - 1]
Clear == dq' = [dq EXCEPT !.head = 0, !.len = 0, !.data = [i \in DOMAIN @ |-> None]] /\ elems' = <<>>
Free == dq' = Empty /\ elems' = <<>>
\* No memory, or nothing to pop
Fails == UNCHANGED dequeVars

InitDeque == dq = Empty /\ elems = <<>>
NextDeque == (\E x \in Items : PushBack(x) \/ PushFront(x)) \/ PopBack \/ PopFront \/ Clear \/ Free \/ Fails

\* From the front on, the elements are those put in, at either end and through wraps and growth.
IsDeque == dq.len = Len(elems) /\ \A i \in 0 .. dq.len - 1 : ElementAt(dq, i) = elems[i + 1]

-----------------------------------------------------------------------------
\* The queue of src/ceres/ds/cqueue.c, and the byte ring of
\* src/ceres/ds/ringbuf.c which is one, between one producer and one
\* consumer of which either may be an interrupt handler: a step of one may
\* come between any two of the other's.
\* "sent" and "room" are not in the code: what was put and not taken, and
\* for how many elements cq_space told the producer there was space.

CONSTANTS Counts,      \* cq_init's counts
          Wrap         \* 2^32: the indices run freely

VARIABLES q, producer, consumer, sent, room

queueVars == <<q, producer, consumer, sent, room>>

Torn == -1             \* an element in the middle of being written
Idle == [pc |-> "idle"]

\* bit_log2: a count below 1 is taken as 1.
Capacity(count) == IF count <= 1 THEN 1 ELSE CHOOSE c \in {2 ^ k : k \in 0 .. 29} : c <= count /\ count < 2 * c
ASSUME RingsAssumption ==
    /\ MaxCap \in Nat /\ Wrap \in Nat
    /\ \A n \in Counts : Capacity(n) \in Nat \ {0} /\ Capacity(n) < Wrap /\ Wrap % Capacity(n) = 0

Slot(i) == i % (q.mask + 1)
Minus(i, j) == (i - j) % Wrap
Plus1(i) == (i + 1) % Wrap

InitQueue == /\ \E n \in Counts : q = [mask |-> Capacity(n) - 1, head |-> 0, tail |-> 0,
                                       buf |-> [i \in 0 .. Capacity(n) - 1 |-> None]]
             /\ producer = Idle /\ consumer = Idle /\ sent = <<>> /\ room = 0

-----------------------------------------------------------------------------
(* cq_put: the index is published only after the element is in place. *)

PutBeginPastFull(x) ==
    /\ producer = Idle /\ Minus(q.head, q.tail) <= q.mask + 1
    /\ producer' = [pc |-> "store", item |-> x, head |-> q.head] /\ UNCHANGED <<q, consumer, sent, room>>
PutBegin(x) ==
    /\ producer = Idle /\ Minus(q.head, q.tail) <= q.mask
    /\ producer' = [pc |-> "store", item |-> x, head |-> q.head] /\ UNCHANGED <<q, consumer, sent, room>>
PutFull == producer = Idle /\ Minus(q.head, q.tail) > q.mask /\ UNCHANGED queueVars
StoreBegin ==
    /\ producer.pc = "store"
    /\ q' = [q EXCEPT !.buf[Slot(producer.head)] = Torn]
    /\ producer' = [producer EXCEPT !.pc = "stored"] /\ UNCHANGED <<consumer, sent, room>>
StoreEnd ==
    /\ producer.pc = "stored"
    /\ q' = [q EXCEPT !.buf[Slot(producer.head)] = producer.item]
    /\ producer' = [producer EXCEPT !.pc = "publish"] /\ UNCHANGED <<consumer, sent, room>>
Publish ==
    /\ producer.pc = "publish"
    /\ q' = [q EXCEPT !.head = Plus1(producer.head)] /\ producer' = Idle
    /\ sent' = Append(sent, producer.item) /\ room' = (IF room = 0 THEN 0 ELSE room - 1) /\ UNCHANGED consumer
\* cq_space, called by the producer
Space == /\ producer = Idle
         /\ room' = q.mask + 1 - Minus(q.head, q.tail) /\ UNCHANGED <<q, producer, consumer, sent>>

-----------------------------------------------------------------------------
(* cq_get, cq_peek and cq_clear *)

GetBegin(how) ==
    /\ consumer = Idle /\ q.head # q.tail
    /\ consumer' = [pc |-> how, tail |-> q.tail] /\ UNCHANGED <<q, producer, sent, room>>
GetEmpty == consumer = Idle /\ q.head = q.tail /\ UNCHANGED queueVars
Copy ==
    /\ consumer.pc \in {"get", "peek"}
    /\ consumer' = [pc |-> IF consumer.pc = "get" THEN "advance" ELSE "peeked", tail |-> consumer.tail,
                    got |-> q.buf[Slot(consumer.tail)]]
    /\ UNCHANGED <<q, producer, sent, room>>
Advance ==
    /\ consumer.pc = "advance"
    /\ q' = [q EXCEPT !.tail = Plus1(consumer.tail)] /\ consumer' = Idle
    /\ sent' = Tail(sent) /\ UNCHANGED <<producer, room>>
Peeked == consumer.pc = "peeked" /\ consumer' = Idle /\ UNCHANGED <<q, producer, sent, room>>
ClearBegin ==
    /\ consumer = Idle
    /\ consumer' = [pc |-> "clear", head |-> q.head, count |-> Len(sent)] /\ UNCHANGED <<q, producer, sent, room>>
ClearEnd ==
    /\ consumer.pc = "clear"
    /\ q' = [q EXCEPT !.tail = consumer.head] /\ consumer' = Idle
    /\ sent' = SubSeq(sent, consumer.count + 1, Len(sent)) /\ UNCHANGED <<producer, room>>

NextQueue == \/ \E x \in Items : PutBegin(x)
             \/ PutFull \/ StoreBegin \/ StoreEnd \/ Publish \/ Space
             \/ \E how \in {"get", "peek"} : GetBegin(how)
             \/ GetEmpty \/ Copy \/ Advance \/ Peeked \/ ClearBegin \/ ClearEnd

-----------------------------------------------------------------------------
(* What the queue promises *)

\* What the consumer copies is the oldest element put and not taken, whole, whatever the two do meanwhile; the
\* queue counts what waits, and the elements wait in the order they were put, through wraps of the indices too.
IsFifo ==
    /\ Minus(q.head, q.tail) = Len(sent) /\ Len(sent) <= q.mask + 1
    /\ \A i \in 1 .. Len(sent) : q.buf[Slot((q.tail + i - 1) % Wrap)] = sent[i]
    /\ consumer.pc \in {"advance", "peeked"} => sent # <<>> /\ consumer.got = Head(sent)

\* The space the producer was told of stays until it has used it.
SpaceHolds == room <= q.mask + 1 - Minus(q.head, q.tail)

-----------------------------------------------------------------------------
(* A program with a deque and a queue *)

InitRings == InitDeque /\ InitQueue
NextRings == (NextDeque /\ UNCHANGED queueVars) \/ (NextQueue /\ UNCHANGED dequeVars)
SpecRings == InitRings /\ [][NextRings]_<<dequeVars, queueVars>>

\* Both hold what was put in them, in its order: the deque through growth while it is wrapped, the queue through
\* every interleaving of its two ends, and its space stays (src/ceres/ds/deque.c, cqueue.c).
RingsHold == IsDeque /\ IsFifo /\ SpaceHolds
=============================================================================
