---------------------------- MODULE Tasks_proofs ----------------------------
(***************************************************************************)
(* The invariants of module Tasks, for every number of slots, channels,    *)
(* messages and stacks.  IInv is inductive when no sleep wraps the clock   *)
(* (NoWrap); each part of it is kept by every step, part by part.          *)
(***************************************************************************)
EXTENDS Tasks, FiniteSetTheorems, SequenceTheorems, TLAPS

-----------------------------------------------------------------------------
(* The ring buffer of a channel holds the queue it stands for. *)

\* No message of a ring with room is where the next one goes.
LEMMA FreeIndex ==
  ASSUME NEW n \in Nat \ {0}, NEW h \in 0 .. n - 1, NEW q \in 0 .. n - 1, NEW k \in 1 .. q
  PROVE  (h + k - 1) % n # (h + q) % n
<1>1. h + q < n => (h + q) % n = h + q
  OBVIOUS
<1>2. h + q >= n => (h + q) % n = h + q - n
  OBVIOUS
<1>3. h + k - 1 < n => (h + k - 1) % n = h + k - 1
  OBVIOUS
<1>4. h + k - 1 >= n => (h + k - 1) % n = h + k - 1 - n
  OBVIOUS
<1> QED
  BY <1>1, <1>2, <1>3, <1>4

\* From the next head, the k-th message is where the k+1-st was.
LEMMA NextIndex ==
  ASSUME NEW n \in Nat \ {0}, NEW h \in 0 .. n - 1, NEW k \in 1 .. n - 1
  PROVE  (((h + 1) % n) + k - 1) % n = (h + (k + 1) - 1) % n
<1>1. CASE h + 1 < n
  BY <1>1
<1>2. CASE h + 1 = n
  <2>1. (h + 1) % n = 0
    BY <1>2
  <2>2. h + (k + 1) - 1 = n + (k - 1)
    BY <1>2
  <2>3. (n + (k - 1)) % n = k - 1
    OBVIOUS
  <2> QED
    BY <2>1, <2>2, <2>3
<1> QED
  BY <1>1, <1>2

\* The live rings of one capacity, and the fields of one.
RingOf(n) == [ cap : {n}, buf : [0 .. n - 1 -> Msgs \cup {NoMsg}], head : 0 .. n - 1, count : 0 .. n,
               closed : BOOLEAN ]

LEMMA LiveRingFields ==
  ASSUME NEW c \in LiveRing
  PROVE  /\ c.cap \in Capacities /\ c.cap \in Nat \ {0} /\ c \in RingOf(c.cap)
         /\ c.buf \in [0 .. c.cap - 1 -> Msgs \cup {NoMsg}]
         /\ c.head \in 0 .. c.cap - 1 /\ c.count \in 0 .. c.cap /\ c.closed \in BOOLEAN
<1>1. PICK n \in Capacities : c \in RingOf(n)
  BY DEF LiveRing, RingOf
<1> QED
  BY <1>1, ChanAssumption DEF RingOf

LEMMA RingOfIsLive ==
  ASSUME NEW n \in Capacities, NEW c \in RingOf(n) PROVE c \in LiveRing
  BY DEF LiveRing, RingOf

\* A ring that takes a message, or has one, has a buffer.
LEMMA OpenRingIsLive ==
  ASSUME NEW c \in Ring, ~c.closed, c.count # c.cap PROVE c \in LiveRing
<1>1. ASSUME c \in DeadRing PROVE c.closed = TRUE
  BY <1>1 DEF DeadRing
<1>2. ASSUME c = ZeroRing PROVE c.count = c.cap
  BY <1>2 DEF ZeroRing
<1> QED
  BY <1>1, <1>2 DEF Ring

LEMMA FilledRingIsLive ==
  ASSUME NEW c \in Ring, c.count # 0 PROVE c \in LiveRing
<1>1. ASSUME c \in DeadRing PROVE c.count = 0
  BY <1>1 DEF DeadRing
<1>2. ASSUME c = ZeroRing PROVE c.count = 0
  BY <1>2 DEF ZeroRing
<1> QED
  BY <1>1, <1>2 DEF Ring

\* The k-th message of a live ring is at an index of its buffer.
LEMMA IndexInBuffer ==
  ASSUME NEW c \in LiveRing, NEW k \in Nat \ {0}
  PROVE  /\ (c.head + k - 1) % c.cap \in 0 .. c.cap - 1
         /\ c.buf[(c.head + k - 1) % c.cap] \in Msgs \cup {NoMsg}
<1>1. c.cap \in Nat \ {0} /\ c.head \in 0 .. c.cap - 1
  BY LiveRingFields
<1>2. (c.head + k - 1) % c.cap \in 0 .. c.cap - 1
  BY <1>1
<1> QED
  BY <1>2, LiveRingFields

LEMMA ContentsType ==
  ASSUME NEW c \in Ring
  PROVE  /\ c.count \in Nat
         /\ Contents(c) \in Seq(Msgs \cup {NoMsg}) /\ Len(Contents(c)) = c.count
         /\ \A k \in 1 .. c.count : Contents(c)[k] = c.buf[(c.head + k - 1) % c.cap]
<1>1. CASE c.count = 0
  BY <1>1 DEF Contents
<1>2. CASE c.count # 0
  <2>1. c \in LiveRing
    BY <1>2, FilledRingIsLive
  <2>2. c.count \in Nat
    BY <2>1, LiveRingFields
  <2>3. \A k \in 1 .. c.count : c.buf[(c.head + k - 1) % c.cap] \in Msgs \cup {NoMsg}
    BY <2>1, <2>2, IndexInBuffer
  <2> QED
    BY <2>2, <2>3 DEF Contents
<1> QED
  BY <1>1, <1>2

\* chan_try_send appends: the message goes behind those the ring holds, wherever the head is.
THEOREM PutAppends ==
  ASSUME NEW c \in Ring, NEW m \in Msgs, ~c.closed, c.count # c.cap
  PROVE  Put(c, m) \in LiveRing /\ Contents(Put(c, m)) = Append(Contents(c), m)
<1> DEFINE at == (c.head + c.count) % c.cap
           d == Put(c, m)
<1>1. c \in LiveRing
  BY OpenRingIsLive
<1>3. /\ c.cap \in Nat \ {0} /\ c.head \in 0 .. c.cap - 1 /\ c.count \in 0 .. c.cap - 1
      /\ c \in RingOf(c.cap) /\ c.cap \in Capacities
  BY <1>1, LiveRingFields
<1>2. at \in 0 .. c.cap - 1
  BY <1>3
<1>4. /\ d.cap = c.cap /\ d.head = c.head /\ d.count = c.count + 1
      /\ d.buf = [c.buf EXCEPT ![at] = m]
      /\ d \in LiveRing
  <2> DEFINE b == [c.buf EXCEPT ![at] = m]
             q == c.count + 1
  <2>1. b \in [0 .. c.cap - 1 -> Msgs \cup {NoMsg}] /\ q \in 0 .. c.cap
    BY SMTT(30), <1>1, <1>2, <1>3, LiveRingFields
  <2>2. d = [c EXCEPT !.buf = b, !.count = q]
    BY <1>3 DEF Put, RingOf
  <2>3. d \in RingOf(c.cap) /\ d.cap = c.cap /\ d.head = c.head /\ d.count = q /\ d.buf = b
    <3> HIDE DEF b, q, d
    <3> QED
      BY <1>3, <2>1, <2>2 DEF RingOf
  <2> QED
    BY <1>3, <2>3, RingOfIsLive
<1>5. \A k \in 1 .. c.count : (c.head + k - 1) % c.cap # at
  BY <1>3, FreeIndex
<1>6. ASSUME NEW k \in 1 .. c.count + 1
      PROVE  Contents(d)[k] = Append(Contents(c), m)[k]
  <2>1. d.buf[(c.head + k - 1) % c.cap] = IF k = c.count + 1 THEN m ELSE c.buf[(c.head + k - 1) % c.cap]
    <3>1. CASE k = c.count + 1
      <4>1. (c.head + k - 1) % c.cap = at
        BY <1>3, <3>1
      <4> QED
        BY <1>2, <1>3, <1>4, <3>1, <4>1, LiveRingFields
    <3>2. CASE k \in 1 .. c.count
      BY <1>1, <1>3, <1>4, <1>5, <3>2, IndexInBuffer, LiveRingFields, SMTT(30)
    <3> QED
      BY <1>3, <3>1, <3>2
  <2>2. Contents(d)[k] = d.buf[(c.head + k - 1) % c.cap]
    <3>1. d \in Ring /\ k \in 1 .. d.count /\ d.head = c.head /\ d.cap = c.cap
      BY <1>3, <1>4 DEF Ring
    <3> HIDE DEF d
    <3> QED
      BY <3>1, ContentsType
  <2>3. Append(Contents(c), m)[k] = IF k = c.count + 1 THEN m ELSE Contents(c)[k]
    BY <1>3, ContentsType, AppendProperties
  <2>4. k # c.count + 1 => Contents(c)[k] = c.buf[(c.head + k - 1) % c.cap]
    BY <1>3, ContentsType
  <2> QED
    BY <2>1, <2>2, <2>3, <2>4
<1>7. /\ Contents(d) \in Seq(Msgs \cup {NoMsg}) /\ Len(Contents(d)) = c.count + 1
      /\ Append(Contents(c), m) \in Seq(Msgs \cup {NoMsg})
      /\ Len(Append(Contents(c), m)) = c.count + 1
  BY <1>4, ContentsType, AppendProperties DEF Ring
<1> QED
  <2> DEFINE s == Contents(d)
             t == Append(Contents(c), m)
  <2>1. /\ s \in Seq(Msgs \cup {NoMsg}) /\ t \in Seq(Msgs \cup {NoMsg})
        /\ Len(s) = Len(t) /\ \A i \in 1 .. Len(s) : s[i] = t[i]
    BY <1>6, <1>7
  <2>2. s = t
    <3> HIDE DEF s, t
    <3> QED
      BY <2>1, SeqEqual
  <2> QED
    BY <1>4, <2>2

\* chan_try_recv takes the oldest message and leaves the others in order.
THEOREM TakenIsTail ==
  ASSUME NEW c \in Ring, c.count # 0
  PROVE  /\ Taken(c) \in LiveRing
         /\ Contents(c) # <<>> /\ Front(c) = Head(Contents(c))
         /\ Contents(Taken(c)) = Tail(Contents(c))
<1> DEFINE d == Taken(c)
<1>1. c \in LiveRing
  BY FilledRingIsLive
<1>2. /\ c.cap \in Nat \ {0} /\ c.head \in 0 .. c.cap - 1 /\ c.count \in 1 .. c.cap
  BY <1>1, LiveRingFields
<1>3. /\ d.cap = c.cap /\ d.head = (c.head + 1) % c.cap /\ d.count = c.count - 1
      /\ d.buf = c.buf
      /\ d \in LiveRing
  <2> DEFINE h == (c.head + 1) % c.cap
             q == c.count - 1
  <2>1. h \in 0 .. c.cap - 1 /\ q \in 0 .. c.cap
    BY <1>2
  <2>2. c \in RingOf(c.cap) /\ c.cap \in Capacities
    BY <1>1, LiveRingFields
  <2>3. d = [c EXCEPT !.head = h, !.count = q]
    BY DEF Taken
  <2>4. d \in RingOf(c.cap) /\ d.cap = c.cap /\ d.head = h /\ d.count = q /\ d.buf = c.buf
    <3> HIDE DEF h, q, d
    <3> QED
      BY <2>1, <2>2, <2>3 DEF RingOf
  <2> QED
    BY <2>2, <2>4, RingOfIsLive
<1>5. Contents(c) # <<>> /\ Front(c) = Head(Contents(c))
  <2>1. c.head % c.cap = c.head
    BY <1>2
  <2>2. Contents(c)[1] = c.buf[(c.head + 1 - 1) % c.cap] /\ Contents(c) # <<>>
    BY <1>2, ContentsType DEF Contents
  <2>3. Head(Contents(c)) = Contents(c)[1]
    BY <2>2, ContentsType
  <2> QED
    BY <1>2, <2>1, <2>2, <2>3 DEF Front
<1>6. ASSUME NEW k \in 1 .. c.count - 1
      PROVE  Contents(d)[k] = Tail(Contents(c))[k]
  <2>1. (((c.head + 1) % c.cap) + k - 1) % c.cap = (c.head + (k + 1) - 1) % c.cap
    <3>1. k \in 1 .. c.cap - 1
      BY <1>2
    <3> QED
      BY <1>2, <3>1, NextIndex
  <2>2. Contents(d)[k] = c.buf[(d.head + k - 1) % c.cap]
    BY <1>3, ContentsType DEF Ring
  <2>3. Tail(Contents(c))[k] = Contents(c)[k + 1]
    BY <1>2, <1>5, ContentsType, HeadTailProperties
  <2>4. k + 1 \in 1 .. c.count
    BY <1>2
  <2>5. Contents(c)[k + 1] = c.buf[(c.head + (k + 1) - 1) % c.cap]
    BY <2>4, ContentsType
  <2> QED
    BY <1>3, <2>1, <2>2, <2>3, <2>5
<1>7. /\ Contents(d) \in Seq(Msgs \cup {NoMsg}) /\ Len(Contents(d)) = c.count - 1
      /\ Tail(Contents(c)) \in Seq(Msgs \cup {NoMsg})
      /\ Len(Tail(Contents(c))) = c.count - 1
  BY <1>3, <1>5, ContentsType, HeadTailProperties DEF Ring
<1> QED
  <2> DEFINE s == Contents(d)
             t == Tail(Contents(c))
  <2>1. /\ s \in Seq(Msgs \cup {NoMsg}) /\ t \in Seq(Msgs \cup {NoMsg})
        /\ Len(s) = Len(t) /\ \A i \in 1 .. Len(s) : s[i] = t[i]
    BY <1>6, <1>7
  <2>2. s = t
    <3> HIDE DEF s, t
    <3> QED
      BY <2>1, SeqEqual
  <2> QED
    BY <1>3, <1>5, <2>2

LEMMA OtherRings ==
  ASSUME NEW c \in Ring
  PROVE  /\ ClosedRing(c) \in Ring /\ Contents(ClosedRing(c)) = Contents(c)
         /\ ClosedRing(c).closed /\ ClosedRing(c).cap = c.cap
         /\ FreedRing(c) \in Ring /\ Contents(FreedRing(c)) = <<>>
         /\ FreedRing(c).closed /\ FreedRing(c).cap = c.cap
<1>1. CASE c \in LiveRing
  <2>1. PICK n \in Capacities : c \in RingOf(n)
    BY <1>1, LiveRingFields
  <2>2. ClosedRing(c) \in RingOf(n)
    BY <2>1 DEF ClosedRing, RingOf
  <2>3. FreedRing(c) \in DeadRing
    BY <2>1 DEF FreedRing, DeadRing, RingOf
  <2>4. /\ ClosedRing(c).head = c.head /\ ClosedRing(c).count = c.count /\ ClosedRing(c).closed = TRUE
        /\ ClosedRing(c).buf = c.buf /\ ClosedRing(c).cap = c.cap
    BY <2>1 DEF ClosedRing, RingOf
  <2>5. FreedRing(c).count = 0 /\ FreedRing(c).closed = TRUE /\ FreedRing(c).cap = c.cap
    BY <2>1 DEF FreedRing, RingOf
  <2>6. Contents(ClosedRing(c)) = Contents(c)
    BY <2>4 DEF Contents
  <2>7. Contents(FreedRing(c)) = <<>>
    BY <2>5 DEF Contents
  <2> QED
    BY <2>2, <2>3, <2>4, <2>5, <2>6, <2>7, RingOfIsLive DEF Ring
<1>2. CASE c \in DeadRing
  <2>1. ClosedRing(c) \in DeadRing /\ FreedRing(c) \in DeadRing
    BY <1>2 DEF ClosedRing, FreedRing, DeadRing
  <2>2. /\ ClosedRing(c).count = 0 /\ ClosedRing(c).closed = TRUE /\ ClosedRing(c).cap = c.cap
        /\ FreedRing(c).count = 0 /\ FreedRing(c).closed = TRUE /\ FreedRing(c).cap = c.cap
        /\ c.count = 0
    BY <1>2 DEF ClosedRing, FreedRing, DeadRing
  <2> QED
    BY <2>1, <2>2 DEF Contents, Ring
<1>3. CASE c = ZeroRing
  <2>1. ClosedRing(c) \in DeadRing /\ FreedRing(c) \in DeadRing
    BY <1>3 DEF ClosedRing, FreedRing, DeadRing, ZeroRing
  <2>2. /\ ClosedRing(c).count = 0 /\ ClosedRing(c).closed = TRUE /\ ClosedRing(c).cap = c.cap
        /\ FreedRing(c).count = 0 /\ FreedRing(c).closed = TRUE /\ FreedRing(c).cap = c.cap
        /\ c.count = 0
    BY <1>3 DEF ClosedRing, FreedRing, ZeroRing
  <2> QED
    BY <2>1, <2>2 DEF Contents, Ring
<1> QED
  BY <1>1, <1>2, <1>3 DEF Ring

LEMMA NewRings ==
  ASSUME NEW n \in Capacities
  PROVE  /\ NewRing(n) \in LiveRing /\ Contents(NewRing(n)) = <<>>
         /\ ~NewRing(n).closed /\ NewRing(n).cap = n
  BY ChanAssumption DEF NewRing, LiveRing, Contents

-----------------------------------------------------------------------------
(* The values the code handles *)

LEMMA OpFields ==
  ASSUME NEW o \in Ops
  PROVE  /\ o.call \in {"none", "entry", "yield", "sleep", "join", "send", "recv"}
         /\ o.call = "join" => o.id \in Ids
         /\ o.call \in {"send", "recv"} => o.chan \in Chans
         /\ o.call = "send" => o.msg \in Msgs
         /\ o.call = "sleep" => o.until \in 0 .. MaxTime + TimeMod
  BY DEF Ops, Idle, Entry, Yielding, Sleeping, Joining, Sending, Receiving

LEMMA IdleIsOp == Idle \in Ops /\ Entry \in Ops /\ Yielding \in Ops /\ Idle.call = "none"
  BY DEF Ops, Idle, Entry, Yielding

LEMMA ReplyType ==
  ASSUME NEW call \in Calls, NEW code \in Codes, NEW c \in Chans \cup {Null}, NEW m \in Msgs \cup {NoMsg}
  PROVE  Reply(call, c, code, m) \in Replies
  BY DEF Reply, Replies

LEMMA SilentType == Silent \in Replies
  BY DEF Silent, Reply, Replies, Calls, Codes

LEMMA AnswerType ==
  ASSUME NEW o \in Ops, NEW code \in Codes PROVE Answer(o, code) \in Replies
<1>1. o.call \in Calls
  BY OpFields DEF Calls
<1>2. CASE o.call = "send"
  BY <1>1, <1>2, OpFields, ReplyType DEF Answer
<1>3. CASE o.call = "recv"
  BY <1>1, <1>3, OpFields, ReplyType DEF Answer
<1>4. CASE o.call \notin {"send", "recv"}
  BY <1>1, <1>4, ReplyType DEF Answer
<1> QED
  BY <1>2, <1>3, <1>4

LEMMA SlotFacts ==
  /\ Main \in Slots /\ Slots \subseteq Nat
  /\ \A id \in Ids : id % TaskMax \in Slots
  BY TasksAssumption DEF Main, Slots, Ids

\* What schedule()'s return changes.
LEMMA ReturnFacts ==
  ASSUME TypeOK, NEW ran \in BOOLEAN, NEW s \in [Slots -> States], ScheduleReturns(ran, s)
  PROVE  /\ phase' = "run"
         /\ ret' \in Replies
         /\ op' = op \/ op' = [op EXCEPT ![current] = Idle]
         /\ waitingOn' = waitingOn \/ waitingOn' = [waitingOn EXCEPT ![current] = Null]
         /\ deadlocked' = deadlocked \/ deadlocked' = [deadlocked EXCEPT ![current] = FALSE]
         /\ state' = s \/ state' = [s EXCEPT ![current] = "READY"]
<1>1. op[current] \in Ops
  BY DEF TypeOK
<1>2. Answer(op[current], "ok") \in Replies /\ Answer(op[current], "EDEADLK") \in Replies
  <2>1. "ok" \in Codes /\ "EDEADLK" \in Codes
    BY DEF Codes
  <2> QED
    BY <1>1, <2>1, AnswerType
<1> QED
  BY <1>2, SilentType DEF ScheduleReturns, Return

LEMMA ReturnTypes ==
  ASSUME TypeOK, NEW ran \in BOOLEAN, NEW s \in [Slots -> States], ScheduleReturns(ran, s)
  PROVE  /\ phase' = "run" /\ ret' \in Replies
         /\ op' \in [Slots -> Ops] /\ state' \in [Slots -> States]
         /\ waitingOn' \in [Slots -> Objects \cup {Null}] /\ deadlocked' \in [Slots -> BOOLEAN]
<1>1. phase' = "run" /\ ret' \in Replies
  BY ReturnFacts
<1>2. op' \in [Slots -> Ops]
  BY ReturnFacts, IdleIsOp DEF TypeOK
<1>3. state' \in [Slots -> States]
  BY ReturnFacts DEF States
<1>4. waitingOn' \in [Slots -> Objects \cup {Null}]
  BY ReturnFacts DEF TypeOK
<1>5. deadlocked' \in [Slots -> BOOLEAN]
  BY ReturnFacts DEF TypeOK
<1> QED
  BY <1>1, <1>2, <1>3, <1>4, <1>5

LEMMA ScannedType == ASSUME TypeOK PROVE Scanned \in [Slots -> States]
  BY DEF TypeOK, Scanned, States

LEMMA StartedStateType == ASSUME TypeOK PROVE StartedState \in [Slots -> States]
  BY SlotFacts DEF TypeOK, StartedState, States

LEMMA WakeType ==
  ASSUME NEW s \in [Slots -> States], NEW obj PROVE Wake(obj, s) \in [Slots -> States]
  BY DEF Wake, States

\* Inside the scheduler tasks have started.
LEMMA SchedulerStarted ==
  ASSUME TypeOK, CurrentCanRun, phase \in {"sched", "switched"} PROVE started
  BY DEF TypeOK, CurrentCanRun

LEMMA LiveStack ==
  ASSUME TypeOK, StacksOwned, NEW i \in Slots, i # Main, Live(i)
  PROVE  stack[i] \in Blocks
  BY DEF TypeOK, StacksOwned

\* Who is ready after a scan is live.
LEMMA ReadyIsLive ==
  ASSUME TypeOK, NEW i \in Ready
  PROVE  i \in Slots /\ Live(i) /\ state[i] \in {"READY", "SLEEPING"}
  BY DEF TypeOK, Ready, Scanned, Live

LEMMA LimitOfType ==
  ASSUME TypeOK, StacksOwned, HeapAbove, started, NEW i \in Slots, i = Main \/ Live(i)
  PROVE  LimitOf(i) \in Tops \cup Blocks /\ LimitOf(i) \in Nat
  BY LiveStack, TasksAssumption DEF TypeOK, LimitOf, HeapAbove

LEMMA HeapChangesType ==
  ASSUME TypeOK, HeapChanges
  PROVE  /\ heapTop' \in Tops /\ mainLimit' \in Tops \cup {0} /\ limit' \in Tops \cup Blocks
         /\ allocated' \in SUBSET Blocks
  BY DEF TypeOK, HeapChanges

LEMMA StartedLimitType ==
  ASSUME TypeOK, HeapAbove PROVE StartedLimit = heapTop
  BY DEF TypeOK, HeapAbove, StartedLimit

\* ---- TypeOK ----

LEMMA ScheduleKeepsTypes ==
  ASSUME IInv, Schedule PROVE TypeOK'
<1> USE DEF IInv
<1>1. ASSUME NEW n \in Slots, Switch(n) PROVE TypeOK'
  <2>1. n = Main \/ Live(n)
    BY <1>1, ReadyIsLive DEF Switch, IsFirst
  <2>2. started
    BY <1>1, SchedulerStarted DEF Switch
  <2>3. limit' \in Tops \cup Blocks
    BY <1>1, <2>1, <2>2, LimitOfType DEF Switch, Lower, TypeOK
  <2> QED
    BY <1>1, <2>3, ScannedType, SilentType DEF Switch, TypeOK
<1>2. CASE KeepRunning
  <2>1. ScheduleReturns(TRUE, Scanned) /\ Scanned \in [Slots -> States]
    BY <1>2, ScannedType DEF KeepRunning
  <2>2. /\ phase' = "run" /\ ret' \in Replies
        /\ op' \in [Slots -> Ops] /\ state' \in [Slots -> States]
        /\ waitingOn' \in [Slots -> Objects \cup {Null}] /\ deadlocked' \in [Slots -> BOOLEAN]
    BY <2>1, ReturnTypes
  <2> QED
    BY <1>2, <2>2 DEF KeepRunning, TypeOK, heapVars
<1>3. CASE Halt
  BY <1>3, SilentType DEF Halt, TypeOK, heapVars, taskVars
<1>4. CASE GiveUp
  <2>1. ScheduleReturns(FALSE, Scanned) /\ Scanned \in [Slots -> States]
    BY <1>4, ScannedType DEF GiveUp
  <2>2. /\ phase' = "run" /\ ret' \in Replies
        /\ op' \in [Slots -> Ops] /\ state' \in [Slots -> States]
        /\ waitingOn' \in [Slots -> Objects \cup {Null}] /\ deadlocked' \in [Slots -> BOOLEAN]
    BY <2>1, ReturnTypes
  <2> QED
    BY <1>4, <2>2 DEF GiveUp, TypeOK, heapVars
<1>5. CASE PickHopeless
  BY <1>5, SilentType DEF PickHopeless, TypeOK, heapVars, States
<1>6. CASE Resume
  <2>1. started
    BY <1>6, SchedulerStarted DEF Resume
  <2>2. current \in Slots /\ (current = Main \/ Live(current))
    BY <1>6, <2>1 DEF Resume, CurrentCanRun, TypeOK, Live
  <2>3. current # Main => stack[current] \in Blocks
    BY <2>2, LiveStack
  <2>4. heapTop' \in Tops /\ mainLimit' \in Tops
    BY <1>6, <2>1 DEF Resume, TypeOK, HeapAbove
  <2>5. limit' \in Tops \cup Blocks
    BY <1>6, <2>3, <2>4 DEF Resume
  <2>6. ScheduleReturns(TRUE, state) /\ state \in [Slots -> States]
    BY <1>6 DEF Resume, TypeOK
  <2>7. /\ phase' = "run" /\ ret' \in Replies
        /\ op' \in [Slots -> Ops] /\ state' \in [Slots -> States]
        /\ waitingOn' \in [Slots -> Objects \cup {Null}] /\ deadlocked' \in [Slots -> BOOLEAN]
    BY <2>6, ReturnTypes
  <2> QED
    BY <1>6, <2>4, <2>5, <2>7 DEF Resume, TypeOK
<1> QED
  BY <1>1, <1>2, <1>3, <1>4, <1>5, <1>6 DEF Schedule

LEMMA TaskCallKeepsTypes ==
  ASSUME IInv, TaskCall PROVE TypeOK'
<1> USE DEF IInv
<1>1. CASE SpawnFails
  <2>1. ret' \in Replies
    BY <1>1 DEF SpawnFails, Reply, Replies, Calls, Codes
  <2> QED
    BY <1>1, <2>1, StartedStateType, StartedLimitType DEF SpawnFails, Start, TypeOK
<1>2. CASE Yield
  BY <1>2, StartedStateType, StartedLimitType, SilentType, IdleIsOp DEF Yield, Start, TypeOK
<1>3. CASE Finish
  <2>1. [state EXCEPT ![current] = "DONE"] \in [Slots -> States]
    BY DEF TypeOK, States
  <2>2. state' \in [Slots -> States]
    BY <1>3, <2>1, WakeType DEF Finish
  <2>3. alive - 1 \in Int /\ stack[current] \in Blocks \cup {Null}
    BY DEF TypeOK
  <2> QED
    BY <1>3, <2>2, <2>3, SilentType DEF Finish, TypeOK, heapVars
<1>4. CASE Exit
  BY <1>4, SilentType DEF Exit, TypeOK, heapVars, taskVars
<1>5. CASE Malloc
  BY <1>5, HeapChangesType, SilentType DEF Malloc, TypeOK, taskVars
<1>6. ASSUME NEW i \in Slots, NEW b \in Blocks, Spawn(i, b) PROVE TypeOK'
  <2>1. ret' \in Replies
    BY <1>6 DEF Spawn, Reply, Replies, Calls, Codes
  <2>2. generation' \in [Slots -> 0 .. MaxGen]
    BY <1>6, TasksAssumption DEF Spawn, TypeOK
  <2>3. heapTop' \in Tops /\ mainLimit' \in Tops \cup {0} /\ limit' \in Tops \cup Blocks
    BY <1>6, StartedLimitType DEF Spawn, TypeOK
  <2>4. wakeAt' \in [Slots -> 0 .. Forever]
    BY <1>6, TasksAssumption DEF Spawn, TypeOK, Forever
  <2>5. state' \in [Slots -> States]
    BY <1>6, StartedStateType DEF Spawn, States
  <2> QED
    BY <1>6, <2>1, <2>2, <2>3, <2>4, <2>5, IdleIsOp DEF Spawn, TypeOK
<1>7. ASSUME NEW ns \in Naps, Sleep(ns) PROVE TypeOK'
  <2>1. /\ ns \in 0 .. TimeMod - 1 /\ now \in 0 .. MaxTime /\ TimeMod \in Nat \ {0} /\ MaxTime \in Nat
        /\ MaxTime <= TimeMod - 2
    BY TasksAssumption DEF TypeOK
  <2>2. (now + ns) % TimeMod \in 0 .. Forever /\ now + ns \in 0 .. MaxTime + TimeMod
    BY <2>1 DEF Forever
  <2>3. Sleeping(now + ns) \in Ops
    BY <2>2 DEF Ops
  <2>4. state' \in [Slots -> States]
    BY <1>7, StartedStateType DEF Sleep, States
  <2> QED
    BY <1>7, <2>2, <2>3, <2>4, StartedLimitType, SilentType DEF Sleep, Start, TypeOK
<1>8. ASSUME NEW id \in Ids, Join(id) PROVE TypeOK'
  <2>1. Joining(id) \in Ops
    BY DEF Ops
  <2>2. Answer(Joining(id), "ESRCH") \in Replies /\ Answer(Joining(id), "EDEADLK") \in Replies
    BY <2>1, AnswerType DEF Codes
  <2>3. op' \in [Slots -> Ops] /\ ret' \in Replies
    BY <1>8, <2>1, <2>2, SilentType, IdleIsOp DEF Join, Return, TypeOK
  <2> QED
    BY <1>8, <2>3, StartedStateType, StartedLimitType DEF Join, Start, TypeOK
<1> QED
  BY <1>1, <1>2, <1>3, <1>4, <1>5, <1>6, <1>7, <1>8 DEF TaskCall

\* What a channel call's operation leaves: the state of one waiting, or what a step of its loop returns.
LEMMA WaitOnTypes ==
  ASSUME TypeOK, NEW obj \in Objects, WaitOn(obj) PROVE TypeOK'
<1>1. state' \in [Slots -> States]
  BY DEF WaitOn, TypeOK, States
<1>2. waitingOn' \in [Slots -> Objects \cup {Null}] /\ deadlocked' \in [Slots -> BOOLEAN]
  BY DEF WaitOn, TypeOK
<1> QED
  BY <1>1, <1>2, SilentType DEF WaitOn, TypeOK, heapVars

LEMMA ChanFailsTypes ==
  ASSUME TypeOK, NEW o \in Ops, NEW code \in Codes, ChanFails(o, code) PROVE TypeOK'
<1>1. op' \in [Slots -> Ops] /\ ret' \in Replies
  BY AnswerType, IdleIsOp DEF ChanFails, Return, TypeOK
<1> QED
  BY <1>1 DEF ChanFails, TypeOK, taskVars, heapVars

LEMMA JoinLoopKeepsTypes ==
  ASSUME IInv, JoinLoop PROVE TypeOK'
<1> USE DEF IInv
<1> DEFINE o == op[current]
<1>1. o \in Ops /\ o.id \in Ids /\ o.id % TaskMax \in Objects
  BY OpFields, SlotFacts DEF JoinLoop, TypeOK, Objects
<1>2. CASE WaitOn(o.id % TaskMax)
  BY <1>1, <1>2, WaitOnTypes
<1>3. CASE /\ Return(o, "ok")
           /\ UNCHANGED <<taskVars, current, started, alive, toFree, phase, chan, now, heapVars>>
  <2>1. op' \in [Slots -> Ops] /\ ret' \in Replies
    BY <1>1, <1>3, AnswerType, IdleIsOp DEF Return, TypeOK, Codes
  <2> QED
    BY <1>3, <2>1 DEF TypeOK, taskVars, heapVars
<1> QED
  BY <1>2, <1>3 DEF JoinLoop

LEMMA RingStays ==
  ASSUME TypeOK, NEW c \in Chans, NEW ring \in Ring, chan' = [chan EXCEPT ![c] = ring]
  PROVE  chan' \in [Chans -> Ring]
  BY DEF TypeOK

LEMMA ChanStepTypes ==
  ASSUME TypeOK, NEW c \in Chans, NEW ring \in Ring, ChanStep(c, ring),
         op' \in [Slots -> Ops], ret' \in Replies,
         heapTop' \in Tops, mainLimit' \in Tops \cup {0}, limit' \in Tops \cup Blocks,
         allocated' \in SUBSET Blocks
  PROVE  TypeOK'
<1>1. chan' \in [Chans -> Ring]
  BY RingStays DEF ChanStep
<1>2. state' \in [Slots -> States]
  BY WakeType DEF ChanStep, TypeOK
<1> QED
  BY <1>1, <1>2 DEF ChanStep, TypeOK

LEMMA ChanOpKeepsTypes ==
  ASSUME IInv, ChanOp PROVE TypeOK'
<1> USE DEF IInv
<1> DEFINE o == op[current]
<1>1. o \in Ops
  BY DEF TypeOK
<1>2. CASE SendLoop
  <2>1. o.chan \in Chans /\ o.chan \in Objects /\ o.msg \in Msgs /\ chan[o.chan] \in Ring
    BY <1>1, <1>2, OpFields DEF SendLoop, TypeOK, Objects
  <2>2. ASSUME NEW code \in {"EPIPE", "EAGAIN"}, ChanFails(o, code) PROVE TypeOK'
    BY <1>1, <2>2, ChanFailsTypes DEF Codes
  <2>3. CASE WaitOn(o.chan)
    BY <2>1, <2>3, WaitOnTypes
  <2>4. CASE /\ ~chan[o.chan].closed /\ chan[o.chan].count # chan[o.chan].cap
             /\ ChanStep(o.chan, Put(chan[o.chan], o.msg)) /\ Return(o, "ok") /\ UNCHANGED heapVars
    <3>1. Put(chan[o.chan], o.msg) \in Ring
      BY <2>1, <2>4, PutAppends DEF Ring
    <3>2. op' \in [Slots -> Ops] /\ ret' \in Replies
      BY <1>1, <2>4, AnswerType, IdleIsOp DEF Return, TypeOK, Codes
    <3> QED
      BY <2>1, <2>4, <3>1, <3>2, ChanStepTypes DEF TypeOK, heapVars
  <2> QED
    BY <1>2, <2>2, <2>3, <2>4 DEF SendLoop
<1>3. CASE RecvLoop
  <2>1. o.chan \in Chans /\ o.chan \in Objects /\ chan[o.chan] \in Ring
    BY <1>1, <1>3, OpFields DEF RecvLoop, TypeOK, Objects
  <2>2. ASSUME NEW code \in {"EPIPE", "EAGAIN"}, ChanFails(o, code) PROVE TypeOK'
    BY <1>1, <2>2, ChanFailsTypes DEF Codes
  <2>3. CASE WaitOn(o.chan)
    BY <2>1, <2>3, WaitOnTypes
  <2>4. CASE /\ chan[o.chan].count # 0
             /\ ChanStep(o.chan, Taken(chan[o.chan])) /\ UNCHANGED heapVars
             /\ op' = [op EXCEPT ![current] = Idle]
             /\ ret' = Reply("recv", o.chan, "ok", Front(chan[o.chan]))
    <3>1. Taken(chan[o.chan]) \in Ring
      BY <2>1, <2>4, TakenIsTail DEF Ring
    <3>2. Front(chan[o.chan]) \in Msgs \cup {NoMsg}
      <4>1. chan[o.chan] \in LiveRing
        BY <2>1, <2>4, FilledRingIsLive
      <4> QED
        BY <4>1, LiveRingFields DEF Front
    <3>3. op' \in [Slots -> Ops] /\ ret' \in Replies
      BY <2>1, <2>4, <3>2, ReplyType, IdleIsOp DEF TypeOK, Calls, Codes
    <3> QED
      BY <2>1, <2>4, <3>1, <3>3, ChanStepTypes DEF TypeOK, heapVars
  <2> QED
    BY <1>3, <2>2, <2>3, <2>4 DEF RecvLoop
<1>4. ASSUME NEW c \in Chans, NEW m \in Msgs, NEW b \in BOOLEAN, ChanCall(Sending(c, m, b)) PROVE TypeOK'
  <2>1. Sending(c, m, b) \in Ops
    BY DEF Ops
  <2>2. state' \in [Slots -> States] /\ started' \in BOOLEAN /\ mainLimit' \in Tops \cup {0}
    BY <1>4, StartedStateType, StartedLimitType DEF ChanCall, Start, TypeOK
  <2>3. op' \in [Slots -> Ops]
    BY <1>4, <2>1 DEF ChanCall, TypeOK
  <2> QED
    BY <1>4, <2>2, <2>3, SilentType DEF ChanCall, TypeOK
<1>5. ASSUME NEW c \in Chans, ChanClose(c) PROVE TypeOK'
  <2>1. ClosedRing(chan[c]) \in Ring
    BY OtherRings DEF TypeOK
  <2> QED
    BY <1>5, <2>1, SilentType, ChanStepTypes DEF ChanClose, TypeOK, heapVars
<1>6. ASSUME NEW c \in Chans, ChanFree(c) PROVE TypeOK'
  <2>1. FreedRing(chan[c]) \in Ring
    BY OtherRings DEF TypeOK
  <2> QED
    BY <1>6, <2>1, SilentType, ChanStepTypes, HeapChangesType DEF ChanFree, TypeOK
<1>7. ASSUME NEW c \in Chans, NEW ring \in {ZeroRing} \cup {NewRing(n) : n \in Capacities},
             ChanInit(c, ring)
      PROVE  TypeOK'
  <2>1. ring \in Ring
    BY NewRings DEF Ring
  <2>2. chan' \in [Chans -> Ring]
    BY <1>7, <2>1, RingStays DEF ChanInit
  <2> QED
    BY <1>7, <2>2, SilentType, HeapChangesType DEF ChanInit, TypeOK, taskVars
<1>8. ASSUME NEW c \in Chans, NEW b \in BOOLEAN, ChanCall(Receiving(c, b)) PROVE TypeOK'
  <2>1. Receiving(c, b) \in Ops
    BY DEF Ops
  <2>2. state' \in [Slots -> States] /\ started' \in BOOLEAN /\ mainLimit' \in Tops \cup {0}
    BY <1>8, StartedStateType, StartedLimitType DEF ChanCall, Start, TypeOK
  <2>3. op' \in [Slots -> Ops]
    BY <1>8, <2>1 DEF ChanCall, TypeOK
  <2> QED
    BY <1>8, <2>2, <2>3, SilentType DEF ChanCall, TypeOK
<1> QED
  BY <1>2, <1>3, <1>4, <1>5, <1>6, <1>7, <1>8 DEF ChanOp

LEMMA NextKeepsTypes ==
  ASSUME IInv, [Next]_vars PROVE TypeOK'
<1>1. CASE Tick
  BY <1>1, SilentType, TasksAssumption DEF Tick, IInv, TypeOK, taskVars, heapVars
<1>2. CASE UNCHANGED vars
  BY <1>2 DEF vars, IInv, TypeOK, taskVars, heapVars
<1> QED
  BY <1>1, <1>2, ScheduleKeepsTypes, TaskCallKeepsTypes, JoinLoopKeepsTypes, ChanOpKeepsTypes
     DEF Next, Terminated

\* ---- CurrentCanRun ----

\* A task that gives up waiting was waiting: nobody is asleep for ever when no sleep wraps.
LEMMA GiveUpWaits ==
  ASSUME TypeOK, Sleeps, CurrentCanRun, GiveUp
  PROVE  state[current] = "WAITING" /\ Scanned[current] = "WAITING"
<1>1. current \in Slots /\ state[current] \in States /\ MaxTime < Forever
  BY TasksAssumption DEF TypeOK, Forever
<1>2. Scanned[current] # "READY" /\ ~(Scanned[current] = "SLEEPING" /\ wakeAt[current] # Forever)
  BY <1>1 DEF GiveUp, Ready, Sleepers
<1>3. state[current] \notin {"DONE", "FREE"}
  BY DEF GiveUp, CurrentCanRun
<1>4. state[current] # "SLEEPING"
  <2> SUFFICES ASSUME state[current] = "SLEEPING" PROVE FALSE
    OBVIOUS
  <2>1. wakeAt[current] \in 0 .. Forever /\ wakeAt[current] <= MaxTime /\ MaxTime \in Nat
    BY <1>1, TasksAssumption DEF Sleeps, TypeOK
  <2>2. wakeAt[current] # Forever
    BY <1>1, <2>1, TasksAssumption DEF Forever
  <2> QED
    BY <1>1, <1>2, <2>2 DEF Scanned
<1> QED
  BY <1>1, <1>2, <1>3, <1>4 DEF Scanned, States

\* The states after schedule() returns to a task that was picked, or that gives up.
LEMMA ReturnStates ==
  ASSUME TypeOK, NEW ran \in BOOLEAN, NEW s \in [Slots -> States], ScheduleReturns(ran, s)
  PROVE  /\ \A i \in Slots \ {current} : state'[i] = s[i]
         /\ state'[current] \in {s[current], "READY"}
         /\ op[current].call \in {"join", "send", "recv"} /\ ~ran => state'[current] = "READY"
  BY DEF TypeOK, ScheduleReturns, Return

LEMMA NextKeepsControl ==
  ASSUME IInv, [Next]_vars PROVE CurrentCanRun'
<1> USE DEF IInv
<1>1. ASSUME NEW n \in Slots, Switch(n) PROVE CurrentCanRun'
  <2>1. started /\ Scanned[n] = "READY"
    BY <1>1, SchedulerStarted DEF Switch, IsFirst, Ready
  <2> QED
    BY <1>1, <2>1, SlotFacts DEF Switch, CurrentCanRun, TypeOK, Scanned, Live
<1>2. CASE KeepRunning
  <2>1. started /\ Scanned[current] = "READY" /\ current \in Slots
    BY <1>2, SchedulerStarted DEF KeepRunning, IsFirst, Ready
  <2>2. /\ \A i \in Slots \ {current} : state'[i] = Scanned[i]
        /\ state'[current] = "READY"
    BY <1>2, <2>1, ReturnStates, ScannedType DEF KeepRunning
  <2>3. Live(Main)'
    BY <2>1, <2>2, SlotFacts DEF CurrentCanRun, Scanned, Live, TypeOK
  <2> QED
    BY <1>2, <2>1, <2>2, <2>3, ReturnFacts, ScannedType DEF KeepRunning, CurrentCanRun
<1>3. CASE Halt
  BY <1>3 DEF Halt, CurrentCanRun, taskVars, Live
<1>4. CASE GiveUp
  <2>1. started /\ Scanned[current] = "WAITING" /\ current \in Slots /\ op[current].call \in {"join", "send", "recv"}
    BY <1>4, SchedulerStarted, GiveUpWaits DEF GiveUp, Waits, Blocking, TypeOK
  <2>2. /\ \A i \in Slots \ {current} : state'[i] = Scanned[i]
        /\ state'[current] = "READY"
    BY <1>4, <2>1, ReturnStates, ScannedType DEF GiveUp
  <2>3. Live(Main)'
    BY <2>1, <2>2, SlotFacts DEF CurrentCanRun, Scanned, Live, TypeOK
  <2> QED
    BY <1>4, <2>1, <2>2, <2>3, ReturnFacts, ScannedType DEF GiveUp, CurrentCanRun
<1>5. CASE PickHopeless
  BY <1>5, SlotFacts, SchedulerStarted DEF PickHopeless, CurrentCanRun, TypeOK, Live
<1>6. CASE Resume
  <2>1. started /\ state[current] = "READY" /\ current \in Slots
    BY <1>6, SchedulerStarted DEF Resume, CurrentCanRun, TypeOK
  <2>2. /\ \A i \in Slots \ {current} : state'[i] = state[i]
        /\ state'[current] = "READY"
    BY <1>6, <2>1, ReturnStates DEF Resume, TypeOK
  <2>3. phase' = "run" /\ started' = started /\ current' = current
    BY <1>6, ReturnFacts DEF Resume, TypeOK
  <2> QED
    BY <2>1, <2>2, <2>3, SlotFacts DEF CurrentCanRun, Live
<1>7. CASE SpawnFails
  BY <1>7, SlotFacts DEF SpawnFails, Start, StartedState, CurrentCanRun, TypeOK, Live, Running
<1>8. CASE Yield
  BY <1>8, SlotFacts DEF Yield, Start, StartedState, CurrentCanRun, TypeOK, Live, Running
<1>9. CASE Finish
  <2>1. started /\ current # Main /\ current \in Slots
    BY <1>9 DEF Finish, Running, CurrentCanRun, TypeOK
  <2>2. state'[current] = "DONE" /\ \A i \in Slots \ {current} : state'[i] = state[i] \/ state'[i] = "READY"
    BY <1>9, <2>1 DEF Finish, Wake, TypeOK
  <2> QED
    BY <1>9, <2>1, <2>2, SlotFacts DEF Finish, CurrentCanRun, Live
<1>10. CASE Exit
  BY <1>10 DEF Exit, Running, CurrentCanRun, taskVars, Live
<1>11. CASE Malloc
  BY <1>11 DEF Malloc, Running, CurrentCanRun, taskVars, Live
<1>12. ASSUME NEW i \in Slots, NEW b \in Blocks, Spawn(i, b) PROVE CurrentCanRun'
  BY <1>12, SlotFacts DEF Spawn, StartedState, SlotIsFree, CurrentCanRun, TypeOK, Live, Running
<1>13. ASSUME NEW ns \in Naps, Sleep(ns) PROVE CurrentCanRun'
  BY <1>13, SlotFacts DEF Sleep, Start, StartedState, CurrentCanRun, TypeOK, Live, Running
<1>14. ASSUME NEW id \in Ids, Join(id) PROVE CurrentCanRun'
  BY <1>14, SlotFacts DEF Join, Start, StartedState, CurrentCanRun, TypeOK, Live, Running
<1>15. ASSUME NEW obj, WaitOn(obj), started PROVE CurrentCanRun'
  BY <1>15, SlotFacts DEF WaitOn, CurrentCanRun, TypeOK, Live
<1>16. ASSUME NEW o, NEW code, ChanFails(o, code) PROVE CurrentCanRun'
  BY <1>16 DEF ChanFails, CurrentCanRun, taskVars, Live
<1>17. ASSUME NEW c, NEW ring, ChanStep(c, ring), phase = "run" PROVE CurrentCanRun'
  <2>1. \A i \in Slots : state[i] # "WAITING" => state'[i] = state[i]
    BY <1>17 DEF ChanStep, Wake
  <2>2. \A i \in Slots : state'[i] \in {state[i], "READY"}
    BY <1>17 DEF ChanStep, Wake
  <2>3. current' = current /\ phase' = phase /\ started' = started /\ current \in Slots
    BY <1>17 DEF ChanStep, TypeOK
  <2> QED
    BY <1>17, <2>1, <2>2, <2>3, SlotFacts DEF CurrentCanRun, Live
<1>18. CASE JoinLoop
  <2>1. started
    <3>1. op[current].call = "join"
      BY <1>18 DEF JoinLoop
    <3>2. Blocking(op[current])
      BY <3>1 DEF Blocking
    <3>3. current \in Slots
      BY DEF TypeOK
    <3> QED
      BY <3>2, <3>3 DEF Waits
  <2>2. CASE UNCHANGED <<taskVars, current, started, alive, toFree, phase, chan, now, heapVars>>
    BY <2>2 DEF CurrentCanRun, taskVars, Live
  <2> QED
    BY <1>15, <1>18, <2>1, <2>2 DEF JoinLoop
<1>19. CASE SendLoop
  <2>1. op[current].block => started
    BY <1>19 DEF SendLoop, Waits, Blocking, TypeOK
  <2> QED
    BY <1>15, <1>16, <1>17, <1>19, <2>1 DEF SendLoop
<1>20. CASE RecvLoop
  <2>1. op[current].block => started
    BY <1>20 DEF RecvLoop, Waits, Blocking, TypeOK
  <2> QED
    BY <1>15, <1>16, <1>17, <1>20, <2>1 DEF RecvLoop
<1>21. ASSUME NEW o, ChanCall(o) PROVE CurrentCanRun'
  BY <1>21, SlotFacts DEF ChanCall, Start, StartedState, CurrentCanRun, TypeOK, Live, Running
<1>22. ASSUME NEW c, ChanClose(c) \/ ChanFree(c) PROVE CurrentCanRun'
  BY <1>17, <1>22 DEF ChanClose, ChanFree, Running
<1>23. ASSUME NEW c, NEW ring, ChanInit(c, ring) PROVE CurrentCanRun'
  BY <1>23 DEF ChanInit, CurrentCanRun, taskVars, Live
<1>24. CASE Tick
  BY <1>24 DEF Tick, CurrentCanRun, taskVars, Live
<1>25. CASE UNCHANGED vars
  BY <1>25 DEF vars, CurrentCanRun, taskVars, Live
<1>26. Schedule => CurrentCanRun'
  BY <1>1, <1>2, <1>3, <1>4, <1>5, <1>6 DEF Schedule
<1>27. TaskCall => CurrentCanRun'
  BY <1>7, <1>8, <1>9, <1>10, <1>11, <1>12, <1>13, <1>14 DEF TaskCall
<1>28. ChanOp => CurrentCanRun'
  BY <1>19, <1>20, <1>21, <1>22, <1>23 DEF ChanOp
<1> QED
  BY <1>18, <1>24, <1>25, <1>26, <1>27, <1>28 DEF Next, Terminated

\* ---- StacksOwned ----

\* Who is live changes only in task_spawn and __task_finish.
LEMMA LiveAfterScan ==
  ASSUME TypeOK, NEW i \in Slots
  PROVE  /\ Scanned[i] \notin {"FREE", "DONE"} <=> Live(i)
         /\ Scanned[i] = "DONE" <=> state[i] = "DONE"
  BY DEF TypeOK, Scanned, Live, States

LEMMA LiveAfterStart ==
  ASSUME TypeOK, NEW i \in Slots \ {Main}
  PROVE  StartedState[i] = state[i]
  BY DEF TypeOK, StartedState

LEMMA LiveAfterReturn ==
  ASSUME TypeOK, NEW ran \in BOOLEAN, NEW s \in [Slots -> States], ScheduleReturns(ran, s),
         NEW i \in Slots,
         \A j \in Slots : s[j] \notin {"FREE", "DONE"} <=> Live(j), Live(current)
  PROVE  Live(i)' <=> Live(i)
  BY ReturnStates DEF TypeOK, Live

LEMMA LiveAfterWake ==
  ASSUME TypeOK, NEW obj, state' = Wake(obj, state), NEW i \in Slots
  PROVE  (Live(i)' <=> Live(i)) /\ (state'[i] = "DONE" <=> state[i] = "DONE")
  BY DEF TypeOK, Wake, Live

LEMMA StacksFrame ==
  ASSUME TypeOK, StacksOwned, UNCHANGED <<stack, toFree, allocated>>,
         \A i \in Slots \ {Main} : Live(i)' <=> Live(i),
         toFree # Null => phase' \in {"sched", "switched"},
         (phase' = "sched" /\ state'[current'] = "DONE") <=> (phase' = "sched" /\ toFree # Null)
  PROVE  StacksOwned'
  BY DEF StacksOwned

\* A step of the running task that leaves the stacks alone: it is not done, and neither is who it calls.
LEMMA StacksRunFrame ==
  ASSUME TypeOK, StacksOwned, CurrentCanRun, phase = "run", UNCHANGED <<stack, toFree, allocated, current>>,
         \A i \in Slots \ {Main} : Live(i)' <=> Live(i),
         state'[current] # "DONE"
  PROVE  StacksOwned'
<1>1. toFree = Null
  BY DEF StacksOwned
<1> QED
  BY <1>1, StacksFrame

LEMMA ScheduleKeepsStacks ==
  ASSUME IInv, Schedule PROVE StacksOwned'
<1> USE DEF IInv
<1>1. ASSUME NEW n \in Slots, Switch(n) PROVE StacksOwned'
  <2>1. \A i \in Slots \ {Main} : Live(i)' <=> Live(i)
    BY <1>1, LiveAfterScan DEF Switch, Live
  <2> QED
    BY <1>1, <2>1, StacksFrame DEF Switch
<1>2. CASE KeepRunning
  <2>1. phase = "sched" /\ Scanned[current] = "READY" /\ current \in Slots
    BY <1>2 DEF KeepRunning, IsFirst, Ready
  <2>2. Live(current) /\ state[current] # "DONE"
    BY <2>1, LiveAfterScan DEF Live
  <2>3. \A i \in Slots \ {Main} : Live(i)' <=> Live(i)
    BY <1>2, <2>2, LiveAfterScan, LiveAfterReturn, ScannedType DEF KeepRunning
  <2>4. toFree = Null
    BY <2>1, <2>2 DEF StacksOwned
  <2>5. phase' = "run"
    BY <1>2, ReturnFacts, ScannedType DEF KeepRunning
  <2> QED
    BY <1>2, <2>3, <2>4, <2>5, StacksFrame DEF KeepRunning, heapVars
<1>3. CASE Halt
  BY <1>3, StacksFrame DEF Halt, Live, taskVars, heapVars, StacksOwned
<1>4. CASE GiveUp
  <2>1. phase = "sched" /\ state[current] = "WAITING" /\ current \in Slots
    BY <1>4, GiveUpWaits DEF GiveUp, TypeOK
  <2>2. Live(current)
    BY <2>1 DEF Live
  <2>3. \A i \in Slots \ {Main} : Live(i)' <=> Live(i)
    BY <1>4, <2>2, LiveAfterScan, LiveAfterReturn, ScannedType DEF GiveUp
  <2>4. toFree = Null
    BY <2>1 DEF StacksOwned
  <2>5. phase' = "run"
    BY <1>4, ReturnFacts, ScannedType DEF GiveUp
  <2> QED
    BY <1>4, <2>3, <2>4, <2>5, StacksFrame DEF GiveUp, heapVars
<1>5. CASE PickHopeless
  <2>1. PICK i \in Slots : state[i] = "WAITING" /\ state' = [state EXCEPT ![i] = "READY"]
    BY <1>5 DEF PickHopeless, IsFirst
  <2>2. \A j \in Slots \ {Main} : Live(j)' <=> Live(j)
    BY <2>1 DEF Live, TypeOK
  <2>3. state'[current] = "DONE" /\ state[current] = "DONE"
    BY <1>5, <2>1 DEF PickHopeless, TypeOK
  <2> QED
    BY <1>5, <2>2, <2>3, StacksFrame DEF PickHopeless, heapVars, StacksOwned
<1>6. CASE Resume
  <2>1. started /\ Live(current) /\ current \in Slots
    BY <1>6, SchedulerStarted DEF Resume, CurrentCanRun, Live, TypeOK
  <2>2. \A i \in Slots \ {Main} : Live(i)' <=> Live(i)
    BY <1>6, <2>1, LiveAfterReturn DEF Resume, TypeOK, Live
  <2>3. phase' = "run" /\ toFree' = Null /\ stack' = stack /\ allocated' = allocated \ {toFree}
    BY <1>6, ReturnFacts DEF Resume, TypeOK
  <2>4. \A i \in Slots \ {Main} : Live(i) => stack[i] # toFree
    BY DEF StacksOwned
  <2>5. allocated' = {stack[i] : i \in {j \in Slots \ {Main} : Live(j)}}
    BY <2>3, <2>4 DEF StacksOwned
  <2> QED
    BY <2>2, <2>3, <2>5 DEF StacksOwned
<1> QED
  BY <1>1, <1>2, <1>3, <1>4, <1>5, <1>6 DEF Schedule

LEMMA TaskCallKeepsStacks ==
  ASSUME IInv, TaskCall PROVE StacksOwned'
<1> USE DEF IInv
<1>0. current \in Slots /\ state[current] # "DONE" /\ phase = "run" /\ toFree = Null
  BY DEF TaskCall, SpawnFails, Yield, Finish, Exit, Malloc, Spawn, Sleep, Join, Running, TypeOK,
         CurrentCanRun, StacksOwned
<1>1. CASE SpawnFails
  BY <1>0, <1>1, LiveAfterStart, StacksRunFrame, SlotFacts DEF SpawnFails, StartedState, Live, TypeOK
<1>2. CASE Yield
  BY <1>0, <1>2, LiveAfterStart, StacksFrame, SlotFacts DEF Yield, StartedState, Live, TypeOK
<1>3. CASE Finish
  <2>1. current # Main /\ Live(current) /\ stack[current] \in Blocks
    BY <1>0, <1>3, LiveStack DEF Finish, Running, CurrentCanRun, Live
  <2>2. state'[current] = "DONE" /\ \A i \in Slots \ {current} : Live(i)' <=> Live(i)
    BY <1>0, <1>3 DEF Finish, Wake, Live, TypeOK
  <2>3. /\ toFree' = stack[current] /\ stack' = [stack EXCEPT ![current] = Null]
        /\ phase' = "sched" /\ current' = current /\ allocated' = allocated
    BY <1>3 DEF Finish, heapVars
  <2>4. stack[current] # Null
    BY <2>1, TasksAssumption
  <2>5. ~Live(current)'
    BY <2>2, <2>3 DEF Live
  <2>6. stack'[Main] = Null
    BY <2>1, <2>3, SlotFacts DEF StacksOwned, TypeOK
  <2>7. \A i \in Slots \ {Main} : Live(i)' <=> stack'[i] # Null
    BY <1>0, <2>2, <2>3, <2>5 DEF StacksOwned, TypeOK
  <2>8. \A i, j \in Slots \ {Main} : Live(i)' /\ Live(j)' /\ stack'[i] = stack'[j] => i = j
    BY <1>0, <2>2, <2>3, <2>5 DEF StacksOwned, TypeOK
  <2>9. \A i \in Slots \ {Main} : Live(i)' => stack'[i] # toFree'
    BY <1>0, <2>1, <2>2, <2>3, <2>5 DEF StacksOwned, TypeOK
  <2>10. allocated' = {stack'[i] : i \in {j \in Slots \ {Main} : Live(j)'}} \cup {toFree'}
    <3>1. {j \in Slots \ {Main} : Live(j)} = {j \in Slots \ {Main} : Live(j)'} \cup {current}
      BY <1>0, <2>1, <2>2, <2>5
    <3>2. \A j \in Slots \ {Main} : Live(j)' => stack'[j] = stack[j]
      BY <2>3, <2>5 DEF TypeOK
    <3>3. allocated = {stack[i] : i \in {j \in Slots \ {Main} : Live(j)}}
      BY <1>0 DEF StacksOwned
    <3> QED
      BY <2>3, <3>1, <3>2, <3>3
  <2> QED
    BY <2>2, <2>3, <2>4, <2>6, <2>7, <2>8, <2>9, <2>10 DEF StacksOwned
<1>4. CASE Exit
  BY <1>0, <1>4, StacksFrame DEF Exit, Live, taskVars, heapVars
<1>5. CASE Malloc
  BY <1>0, <1>5, StacksFrame DEF Malloc, HeapChanges, Live, taskVars
<1>6. ASSUME NEW i \in Slots, NEW b \in Blocks, Spawn(i, b) PROVE StacksOwned'
  <2>1. i # Main /\ ~Live(i) /\ b # Null /\ b \notin allocated
    BY <1>6, LiveAfterStart, TasksAssumption DEF Spawn, SlotIsFree, Live
  <2>2. /\ stack' = [stack EXCEPT ![i] = b] /\ toFree' = Null /\ allocated' = allocated \cup {b}
        /\ phase' = "run" /\ current' = current
    BY <1>0, <1>6 DEF Spawn
  <2>3. Live(i)' /\ \A j \in Slots \ {Main, i} : Live(j)' <=> Live(j)
    BY <1>6, StartedStateType, LiveAfterStart DEF Spawn, Live
  <2>4. \A j \in Slots \ {Main, i} : stack'[j] = stack[j]
    BY <2>2 DEF TypeOK
  <2>5. stack'[i] = b /\ stack'[Main] = Null
    BY <2>1, <2>2, SlotFacts DEF StacksOwned, TypeOK
  <2>6. allocated = {stack[j] : j \in {k \in Slots \ {Main} : Live(k)}}
    BY <1>0 DEF StacksOwned
  <2>7. {k \in Slots \ {Main} : Live(k)'} = {k \in Slots \ {Main} : Live(k)} \cup {i}
    BY <2>1, <2>3
  <2>8. allocated' = {stack'[j] : j \in {k \in Slots \ {Main} : Live(k)'}}
    BY <2>1, <2>2, <2>4, <2>5, <2>6, <2>7
  <2>9. \A j \in Slots \ {Main} : Live(j)' <=> stack'[j] # Null
    BY <2>1, <2>3, <2>4, <2>5 DEF StacksOwned
  <2>10. \A j, k \in Slots \ {Main} : Live(j)' /\ Live(k)' /\ stack'[j] = stack'[k] => j = k
    BY <2>1, <2>3, <2>4, <2>5, <2>6 DEF StacksOwned
  <2> QED
    BY <2>2, <2>5, <2>8, <2>9, <2>10 DEF StacksOwned
<1>7. ASSUME NEW ns \in Naps, Sleep(ns) PROVE StacksOwned'
  <2>1. \A j \in Slots \ {Main} : Live(j)' <=> Live(j)
    BY <1>0, <1>7, StartedStateType, LiveAfterStart DEF Sleep, Live, CurrentCanRun, Running
  <2>2. state'[current] = "SLEEPING"
    BY <1>0, <1>7, StartedStateType DEF Sleep
  <2> QED
    BY <1>0, <1>7, <2>1, <2>2, StacksFrame DEF Sleep
<1>8. ASSUME NEW id \in Ids, Join(id) PROVE StacksOwned'
  BY <1>0, <1>8, LiveAfterStart, StacksRunFrame, SlotFacts DEF Join, StartedState, Live, TypeOK
<1> QED
  BY <1>1, <1>2, <1>3, <1>4, <1>5, <1>6, <1>7, <1>8 DEF TaskCall

\* A turn of a call's loop, and the other channel calls, leave who is live and the stacks alone.
LEMMA CallFrame ==
  ASSUME IInv, JoinLoop \/ ChanOp
  PROVE  /\ phase = "run" /\ current \in Slots /\ state[current] # "DONE"
         /\ UNCHANGED <<generation, wakeAt, stack, toFree, alive, allocated, current, now>>
         /\ \A i \in Slots \ {Main} : Live(i)' <=> Live(i)
         /\ state'[current] # "DONE"
<1> USE DEF IInv
<1>0. phase = "run" /\ current \in Slots /\ state[current] # "DONE"
  BY DEF JoinLoop, ChanOp, SendLoop, RecvLoop, ChanCall, ChanClose, ChanFree, ChanInit, Running, TypeOK,
         CurrentCanRun
<1> DEFINE Goal == /\ UNCHANGED <<generation, wakeAt, stack, toFree, alive, allocated, current, now>>
                   /\ \A i \in Slots \ {Main} : Live(i)' <=> Live(i)
                   /\ state'[current] # "DONE"
<1> SUFFICES Goal
  BY <1>0
<1>1. ASSUME NEW obj, WaitOn(obj), started PROVE Goal
  <2>1. state[current] = "READY" /\ state' = [state EXCEPT ![current] = "WAITING"]
    BY <1>0, <1>1 DEF WaitOn, CurrentCanRun
  <2> QED
    BY <1>0, <1>1, <2>1 DEF WaitOn, heapVars, Live, TypeOK
<1>2. ASSUME NEW c, NEW ring, ChanStep(c, ring), UNCHANGED allocated PROVE Goal
  <2>1. \A i \in Slots : (Live(i)' <=> Live(i)) /\ (state'[i] = "DONE" <=> state[i] = "DONE")
    BY <1>2, LiveAfterWake DEF ChanStep
  <2> QED
    BY <1>0, <1>2, <2>1 DEF ChanStep
<1>3. ASSUME UNCHANGED <<taskVars, current, alive, toFree, now, allocated>> PROVE Goal
  BY <1>0, <1>3 DEF taskVars, Live
<1>4. ASSUME NEW o, ChanCall(o) PROVE Goal
  <2>1. state' = state \/ state' = StartedState
    BY <1>4 DEF ChanCall
  <2>2. \A i \in Slots \ {Main} : state'[i] = state[i]
    BY <2>1, LiveAfterStart
  <2>3. state'[current] # "DONE"
    BY <1>0, <2>1 DEF StartedState, TypeOK
  <2> QED
    BY <1>4, <2>2, <2>3 DEF ChanCall, Live
<1>5. op[current].call \in {"join", "send", "recv"} /\ Blocking(op[current]) => started
  BY <1>0 DEF Waits
<1> HIDE DEF Goal
<1>6. CASE JoinLoop
  BY <1>1, <1>3, <1>5, <1>6 DEF JoinLoop, Blocking, heapVars
<1> DEFINE o == op[current]
<1>7. CASE SendLoop
  <2>1. ASSUME NEW code, ChanFails(o, code) PROVE Goal
    BY <1>3, <2>1 DEF ChanFails, heapVars
  <2>2. CASE o.block /\ WaitOn(o.chan)
    BY <1>1, <1>5, <1>7, <2>2 DEF SendLoop, Blocking
  <2>3. CASE ChanStep(o.chan, Put(chan[o.chan], o.msg)) /\ UNCHANGED heapVars
    <3>1. UNCHANGED allocated
      BY <2>3 DEF heapVars
    <3> QED
      BY <1>2, <2>3, <3>1
  <2> QED
    BY <1>7, <2>1, <2>2, <2>3 DEF SendLoop
<1>8. CASE RecvLoop
  <2>1. ASSUME NEW code, ChanFails(o, code) PROVE Goal
    BY <1>3, <2>1 DEF ChanFails, heapVars
  <2>2. CASE o.block /\ WaitOn(o.chan)
    BY <1>1, <1>5, <1>8, <2>2 DEF RecvLoop, Blocking
  <2>3. CASE ChanStep(o.chan, Taken(chan[o.chan])) /\ UNCHANGED heapVars
    <3>1. UNCHANGED allocated
      BY <2>3 DEF heapVars
    <3> QED
      BY <1>2, <2>3, <3>1
  <2> QED
    BY <1>8, <2>1, <2>2, <2>3 DEF RecvLoop
<1>9. ASSUME NEW c, ChanClose(c) \/ ChanFree(c) PROVE Goal
  <2>1. UNCHANGED allocated
    BY <1>9 DEF ChanClose, ChanFree, heapVars, HeapChanges
  <2>2. ChanStep(c, ClosedRing(chan[c])) \/ ChanStep(c, FreedRing(chan[c]))
    BY <1>9 DEF ChanClose, ChanFree
  <2> QED
    BY <1>2, <2>1, <2>2
<1>10. ASSUME NEW c, NEW ring, ChanInit(c, ring) PROVE Goal
  BY <1>3, <1>10 DEF ChanInit, HeapChanges
<1> QED
  BY <1>4, <1>6, <1>7, <1>8, <1>9, <1>10 DEF ChanOp

LEMMA NextKeepsStacks ==
  ASSUME IInv, [Next]_vars PROVE StacksOwned'
<1> USE DEF IInv
<1>1. CASE JoinLoop \/ ChanOp
  <2>1. toFree = Null
    BY <1>1, CallFrame DEF StacksOwned
  <2> QED
    BY <1>1, <2>1, CallFrame, StacksFrame
<1>2. CASE Tick
  BY <1>2, StacksFrame DEF Tick, Live, taskVars, heapVars, StacksOwned
<1>3. CASE UNCHANGED vars
  BY <1>3, StacksFrame DEF vars, Live, taskVars, heapVars, StacksOwned
<1> QED
  BY <1>1, <1>2, <1>3, ScheduleKeepsStacks, TaskCallKeepsStacks DEF Next, Terminated

\* ---- AliveCounts ----

\* Who is live shows in the stacks, so only the two calls that touch them have to be looked at.
LEMMA NextKeepsCount ==
  ASSUME IInv, [Next]_vars PROVE AliveCounts'
<1> USE DEF IInv
<1> DEFINE Tasks == {i \in Slots : i = Main \/ stack[i] # Null}
<1>1. Main \in Slots /\ IsFiniteSet(Slots) /\ IsFiniteSet(Tasks) /\ Tasks \subseteq Slots
  <2>1. IsFiniteSet(Slots)
    BY FS_Interval, TasksAssumption DEF Slots
  <2>2. Tasks \subseteq Slots
    OBVIOUS
  <2> QED
    BY <2>1, <2>2, SlotFacts, FS_Subset
<1>2. alive = Cardinality(Tasks)
  <2>1. Tasks = {i \in Slots : Live(i) \/ i = Main}
    BY DEF StacksOwned
  <2> QED
    BY <2>1 DEF AliveCounts
<1>3. SUFFICES alive' = Cardinality(Tasks')
  <2>1. Tasks' = {i \in Slots : Live(i)' \/ i = Main}
    BY NextKeepsStacks DEF StacksOwned
  <2> QED
    BY <1>3, <2>1 DEF AliveCounts
<1>4. CASE UNCHANGED <<stack, alive>>
  BY <1>2, <1>4
<1>5. ASSUME NEW i \in Slots, NEW b \in Blocks, Spawn(i, b) PROVE alive' = Cardinality(Tasks')
  <2>1. i # Main /\ ~Live(i) /\ b # Null
    BY <1>5, LiveAfterStart, TasksAssumption DEF Spawn, SlotIsFree, Live
  <2>2. i \notin Tasks
    BY <2>1 DEF StacksOwned
  <2>3. Tasks' = Tasks \cup {i}
    BY <1>5, <2>1 DEF Spawn, TypeOK
  <2>4. Cardinality(Tasks \cup {i}) = Cardinality(Tasks) + 1
    BY <1>1, <2>2, FS_AddElement
  <2> QED
    BY <1>2, <1>5, <2>3, <2>4 DEF Spawn
<1>6. CASE Finish
  <2>1. current \in Slots /\ current # Main /\ Live(current)
    BY <1>6 DEF Finish, Running, CurrentCanRun, Live, TypeOK
  <2>2. current \in Tasks
    BY <2>1 DEF StacksOwned
  <2>3. Tasks' = Tasks \ {current}
    BY <1>6, <2>1 DEF Finish, TypeOK
  <2>4. Cardinality(Tasks \ {current}) = Cardinality(Tasks) - 1
    BY <1>1, <2>2, FS_RemoveElement
  <2> QED
    BY <1>2, <1>6, <2>3, <2>4 DEF Finish
<1>7. Schedule => UNCHANGED <<stack, alive>>
  BY DEF Schedule, Switch, KeepRunning, Halt, GiveUp, PickHopeless, Resume, taskVars
<1>8. SpawnFails \/ Yield \/ Exit \/ Malloc \/ (\E ns \in Naps : Sleep(ns)) \/ (\E id \in Ids : Join(id))
        => UNCHANGED <<stack, alive>>
  BY DEF SpawnFails, Yield, Exit, Malloc, Sleep, Join, taskVars
<1>9. Tick \/ UNCHANGED vars => UNCHANGED <<stack, alive>>
  BY DEF Tick, vars, taskVars
<1>10. JoinLoop \/ ChanOp => UNCHANGED <<stack, alive>>
  BY CallFrame
<1> HIDE DEF Tasks
<1> QED
  BY <1>4, <1>5, <1>6, <1>7, <1>8, <1>9, <1>10 DEF Next, TaskCall, Terminated

\* ---- HeapAbove and StackLimit ----

\* A step that neither moves the heap nor switches.
LEMMA LimitFrame ==
  ASSUME IInv,
         phase = "run" \/ (phase = "sched" /\ state[current] # "DONE"),
         phase' # "switched", phase' = "sched" /\ phase = "sched" => state'[current] = state[current],
         UNCHANGED <<heapTop, limit, allocated, current>>,
         UNCHANGED <<started, mainLimit>> \/ Start,
         stack'[current] = stack[current] \/ (phase' = "sched" /\ state'[current] = "DONE")
  PROVE  HeapAbove' /\ StackLimit'
<1> USE DEF IInv
<1>1. limit = IF current = Main THEN heapTop ELSE stack[current]
  BY DEF StackLimit
<1>2. HeapAbove'
  BY StartedLimitType DEF HeapAbove, Start
<1>3. StackLimit'
  BY <1>1 DEF StackLimit
<1> QED
  BY <1>2, <1>3

\* A step of the running task in which malloc or free moves the heap.
LEMMA HeapMoves ==
  ASSUME IInv, phase = "run", HeapChanges, phase' = "run", UNCHANGED <<stack, current, started>>
  PROVE  HeapAbove' /\ StackLimit'
<1> USE DEF IInv
<1>1. limit = IF current = Main THEN heapTop ELSE stack[current]
  BY DEF StackLimit
<1>2. ~started => current = Main
  BY DEF CurrentCanRun
<1>3. HeapAbove'
  BY DEF HeapAbove, HeapChanges
<1>4. StackLimit'
  BY <1>1, <1>2 DEF StackLimit, HeapChanges
<1> QED
  BY <1>3, <1>4

LEMMA ScheduleKeepsLimits ==
  ASSUME IInv, Schedule PROVE HeapAbove' /\ StackLimit'
<1> USE DEF IInv
<1>1. ASSUME NEW n \in Slots, Switch(n) PROVE HeapAbove' /\ StackLimit'
  <2>1. n = Main \/ Live(n)
    BY <1>1, ReadyIsLive DEF Switch, IsFirst
  <2>2. started
    BY <1>1, SchedulerStarted DEF Switch
  <2>3. LimitOf(n) = (IF n = Main THEN heapTop ELSE stack[n]) /\ LimitOf(n) \in Nat
    BY <2>1, <2>2, LimitOfType DEF LimitOf, HeapAbove
  <2>4. limit \in Nat
    BY TasksAssumption DEF TypeOK
  <2>5. limit' <= LimitOf(n)
    BY <1>1, <2>3, <2>4 DEF Switch, Lower
  <2>6. HeapAbove'
    BY <1>1, <2>2 DEF Switch, HeapAbove
  <2>7. phase' = "switched" /\ current' = n /\ heapTop' = heapTop /\ stack' = stack
    BY <1>1 DEF Switch
  <2>8. limit' <= IF current' = Main THEN heapTop' ELSE stack'[current']
    BY <2>3, <2>5, <2>7
  <2> QED
    BY <2>6, <2>7, <2>8 DEF StackLimit
<1>2. CASE KeepRunning
  <2>1. Scanned[current] = "READY" /\ current \in Slots
    BY <1>2 DEF KeepRunning, IsFirst, Ready
  <2>2. phase' = "run" /\ state[current] # "DONE"
    BY <1>2, <2>1, ReturnFacts, ScannedType, LiveAfterScan DEF KeepRunning
  <2> QED
    BY <1>2, <2>2, LimitFrame DEF KeepRunning, heapVars
<1>3. CASE Halt
  BY <1>3 DEF Halt, HeapAbove, StackLimit, taskVars, heapVars
<1>4. CASE GiveUp
  <2>1. phase' = "run"
    BY <1>4, ReturnFacts, ScannedType DEF GiveUp
  <2> QED
    BY <1>4, <2>1, LimitFrame DEF GiveUp, heapVars
<1>5. CASE PickHopeless
  <2>1. state'[current] = "DONE"
    <3>1. PICK i \in Slots : state[i] = "WAITING" /\ state' = [state EXCEPT ![i] = "READY"]
      BY <1>5 DEF PickHopeless, IsFirst
    <3> QED
      BY <1>5, <3>1 DEF PickHopeless, TypeOK
  <2> QED
    BY <1>5, <2>1 DEF PickHopeless, HeapAbove, StackLimit, heapVars
<1>6. CASE Resume
  <2>1. started /\ phase' = "run"
    BY <1>6, SchedulerStarted, ReturnFacts DEF Resume, TypeOK
  <2>2. mainLimit' = heapTop' /\ limit' = IF current = Main THEN heapTop' ELSE stack[current]
    BY <1>6, <2>1 DEF Resume, HeapAbove
  <2>3. \A b \in allocated' : b < heapTop'
    BY <1>6 DEF Resume, HeapAbove
  <2> QED
    BY <1>6, <2>1, <2>2, <2>3 DEF Resume, HeapAbove, StackLimit
<1> QED
  BY <1>1, <1>2, <1>3, <1>4, <1>5, <1>6 DEF Schedule

LEMMA NextKeepsLimits ==
  ASSUME IInv, [Next]_vars PROVE HeapAbove' /\ StackLimit'
<1> USE DEF IInv
<1>1. CASE SpawnFails
  BY <1>1, LimitFrame DEF SpawnFails, Running
<1>2. CASE Yield
  BY <1>2, LimitFrame DEF Yield, Running
<1>3. CASE Finish
  <2>1. state'[current] = "DONE"
    BY <1>3 DEF Finish, Wake, TypeOK
  <2> QED
    BY <1>3, <2>1, LimitFrame DEF Finish, Running, heapVars
<1>4. CASE Exit
  BY <1>4, LimitFrame DEF Exit, Running, taskVars, heapVars
<1>5. CASE Malloc
  BY <1>5, HeapMoves DEF Malloc, Running, taskVars
<1>6. ASSUME NEW i \in Slots, NEW b \in Blocks, Spawn(i, b) PROVE HeapAbove' /\ StackLimit'
  <2>1. limit = IF current = Main THEN heapTop ELSE stack[current]
    BY <1>6 DEF StackLimit, Spawn, Running
  <2>2. current # Main => i # current
    BY <1>6, LiveAfterStart DEF Spawn, SlotIsFree, Running, CurrentCanRun, TypeOK
  <2>3. stack'[current] = stack[current] \/ current = Main
    BY <1>6, <2>2 DEF Spawn, TypeOK
  <2>4. mainLimit' = heapTop'
    BY <1>6, StartedLimitType DEF Spawn
  <2>5. \A a \in allocated' : a < heapTop'
    BY <1>6, TasksAssumption DEF Spawn, HeapAbove, TypeOK
  <2>6. current = Main => limit' = heapTop'
    BY <1>6, <2>1 DEF Spawn
  <2>7. current # Main => limit' = stack'[current]
    BY <1>6, <2>1, <2>3 DEF Spawn
  <2> QED
    BY <1>6, <2>4, <2>5, <2>6, <2>7 DEF Spawn, Running, HeapAbove, StackLimit
<1>7. ASSUME NEW ns \in Naps, Sleep(ns) PROVE HeapAbove' /\ StackLimit'
  BY <1>7, LimitFrame DEF Sleep, Running
<1>8. ASSUME NEW id \in Ids, Join(id) PROVE HeapAbove' /\ StackLimit'
  BY <1>8, LimitFrame DEF Join, Running
<1>9. ASSUME NEW c, NEW ring, ChanStep(c, ring), phase = "run", UNCHANGED heapVars PROVE HeapAbove' /\ StackLimit'
  BY <1>9, LimitFrame DEF ChanStep, heapVars
<1>10. ASSUME NEW obj, WaitOn(obj), phase = "run" PROVE HeapAbove' /\ StackLimit'
  BY <1>10, LimitFrame DEF WaitOn, heapVars
<1>11. ASSUME phase = "run", UNCHANGED <<taskVars, current, started, phase, heapVars>> PROVE HeapAbove' /\ StackLimit'
  BY <1>11, LimitFrame DEF taskVars, heapVars
<1>12. CASE JoinLoop
  BY <1>10, <1>11, <1>12 DEF JoinLoop
<1>13. CASE SendLoop
  BY <1>9, <1>10, <1>11, <1>13 DEF SendLoop, ChanFails
<1>14. CASE RecvLoop
  BY <1>9, <1>10, <1>11, <1>14 DEF RecvLoop, ChanFails
<1>15. ASSUME NEW o, ChanCall(o) PROVE HeapAbove' /\ StackLimit'
  BY <1>15, LimitFrame DEF ChanCall, Running
<1>16. ASSUME NEW c, ChanClose(c) PROVE HeapAbove' /\ StackLimit'
  BY <1>9, <1>16 DEF ChanClose, Running
<1>17. ASSUME NEW c, ChanFree(c) PROVE HeapAbove' /\ StackLimit'
  BY <1>17, HeapMoves DEF ChanFree, ChanStep, Running
<1>18. ASSUME NEW c, NEW ring, ChanInit(c, ring) PROVE HeapAbove' /\ StackLimit'
  BY <1>18, HeapMoves DEF ChanInit, Running, taskVars
<1>19. CASE Tick
  BY <1>19 DEF Tick, HeapAbove, StackLimit, taskVars, heapVars
<1>20. CASE UNCHANGED vars
  BY <1>20 DEF vars, HeapAbove, StackLimit, taskVars, heapVars
<1>21. TaskCall => HeapAbove' /\ StackLimit'
  BY <1>1, <1>2, <1>3, <1>4, <1>5, <1>6, <1>7, <1>8 DEF TaskCall
<1>22. ChanOp => HeapAbove' /\ StackLimit'
  BY <1>13, <1>14, <1>15, <1>16, <1>17, <1>18 DEF ChanOp
<1> QED
  BY <1>12, <1>19, <1>20, <1>21, <1>22, ScheduleKeepsLimits DEF Next, Terminated

\* ---- Sleeps ----

\* What a turn of a call's loop, or another channel call, does to the tasks.
LEMMA CallEffect ==
  ASSUME IInv, JoinLoop \/ ChanOp
  PROVE  /\ \A i \in Slots \ {current} :
              /\ op'[i] = op[i] /\ waitingOn'[i] = waitingOn[i]
              /\ state'[i] = state[i] \/ (state[i] = "WAITING" /\ state'[i] = "READY")
         /\ \A i \in Slots : deadlocked'[i] => deadlocked[i]
         /\ op[current].call # "sleep" /\ op'[current].call # "sleep"
         /\ state'[current] \in {state[current], "WAITING", "READY"}
<1> USE DEF IInv
<1>0. /\ phase = "run" /\ current \in Slots /\ state[current] \in {"FREE", "READY"}
      /\ op[current].call # "sleep"
  <2>1. phase = "run" /\ op[current].call # "sleep"
    BY IdleIsOp DEF JoinLoop, ChanOp, SendLoop, RecvLoop, ChanCall, ChanClose, ChanFree, ChanInit, Running
  <2> QED
    BY <2>1 DEF TypeOK, CurrentCanRun
<1> DEFINE Goal == /\ \A i \in Slots \ {current} :
                        /\ op'[i] = op[i] /\ waitingOn'[i] = waitingOn[i]
                        /\ state'[i] = state[i] \/ (state[i] = "WAITING" /\ state'[i] = "READY")
                   /\ \A i \in Slots : deadlocked'[i] => deadlocked[i]
                   /\ op'[current].call # "sleep"
                   /\ state'[current] \in {state[current], "WAITING", "READY"}
           o == op[current]
<1> SUFFICES Goal
  BY <1>0
<1>1. ASSUME NEW obj, WaitOn(obj) PROVE Goal
  BY <1>0, <1>1 DEF WaitOn, TypeOK
<1>2. ASSUME NEW c, NEW ring, ChanStep(c, ring), op' = op \/ op' = [op EXCEPT ![current] = Idle] PROVE Goal
  <2>1. \A i \in Slots : state'[i] = state[i] \/ (state[i] = "WAITING" /\ state'[i] = "READY")
    BY <1>2 DEF ChanStep, Wake
  <2>2. op'[current].call # "sleep" /\ \A i \in Slots \ {current} : op'[i] = op[i]
    BY <1>0, <1>2, IdleIsOp DEF TypeOK
  <2> QED
    BY <1>0, <1>2, <2>1, <2>2 DEF ChanStep
<1>3. ASSUME UNCHANGED taskVars, op' = op \/ op' = [op EXCEPT ![current] = Idle] PROVE Goal
  BY <1>0, <1>3, IdleIsOp DEF taskVars, TypeOK
<1>4. ASSUME NEW p, ChanCall(p), p.call # "sleep" PROVE Goal
  <2>1. \A i \in Slots \ {current} : state'[i] = state[i]
    <3>1. ~started => current = Main
      BY DEF CurrentCanRun
    <3> QED
      BY <1>4, <3>1 DEF ChanCall, StartedState, TypeOK
  <2>2. state'[current] \in {state[current], "READY"}
    BY <1>0, <1>4 DEF ChanCall, StartedState, TypeOK
  <2>3. op'[current].call # "sleep" /\ \A i \in Slots \ {current} : op'[i] = op[i]
    BY <1>0, <1>4 DEF ChanCall, TypeOK
  <2> QED
    BY <1>4, <2>1, <2>2, <2>3 DEF ChanCall
<1> HIDE DEF Goal
<1>5. CASE JoinLoop
  BY <1>1, <1>3, <1>5 DEF JoinLoop, Return
<1>6. CASE SendLoop
  <2>1. ASSUME NEW code, ChanFails(o, code) PROVE Goal
    BY <1>3, <2>1 DEF ChanFails, Return
  <2>2. CASE ChanStep(o.chan, Put(chan[o.chan], o.msg)) /\ Return(o, "ok")
    BY <1>2, <2>2 DEF Return
  <2> QED
    BY <1>1, <1>6, <2>1, <2>2 DEF SendLoop
<1>7. CASE RecvLoop
  <2>1. ASSUME NEW code, ChanFails(o, code) PROVE Goal
    BY <1>3, <2>1 DEF ChanFails, Return
  <2>2. CASE ChanStep(o.chan, Taken(chan[o.chan])) /\ op' = [op EXCEPT ![current] = Idle]
    BY <1>2, <2>2
  <2> QED
    BY <1>1, <1>7, <2>1, <2>2 DEF RecvLoop
<1>8. ASSUME NEW c, ChanClose(c) \/ ChanFree(c) PROVE Goal
  <2>1. ChanStep(c, ClosedRing(chan[c])) \/ ChanStep(c, FreedRing(chan[c]))
    BY <1>8 DEF ChanClose, ChanFree
  <2> QED
    BY <1>2, <1>8, <2>1 DEF ChanClose, ChanFree
<1>9. ASSUME NEW c, NEW ring, ChanInit(c, ring) PROVE Goal
  BY <1>3, <1>9 DEF ChanInit
<1>10. ASSUME NEW c, NEW m, NEW b, ChanCall(Sending(c, m, b)) \/ ChanCall(Receiving(c, b)) PROVE Goal
  <2>1. Sending(c, m, b).call # "sleep" /\ Receiving(c, b).call # "sleep"
    BY DEF Sending, Receiving
  <2> QED
    BY <1>4, <1>10, <2>1
<1> QED
  BY <1>5, <1>6, <1>7, <1>8, <1>9, <1>10 DEF ChanOp

LEMMA SleepsFrame ==
  ASSUME TypeOK, Sleeps, now' \in Int, now <= now', UNCHANGED wakeAt,
         \A i \in Slots : state'[i] = "SLEEPING" => state[i] = "SLEEPING" /\ op'[i] = op[i],
         \A i \in Slots : op'[i].call = "sleep" =>
            op'[i] = op[i] /\ (state'[i] = state[i] \/ (state'[i] = "READY" /\ wakeAt[i] <= now))
  PROVE  Sleeps'
<1> SUFFICES ASSUME NEW i \in Slots
             PROVE  /\ state'[i] = "SLEEPING" => op'[i].call = "sleep" /\ wakeAt'[i] <= MaxTime
                    /\ op'[i].call = "sleep" => \/ state'[i] = "SLEEPING" /\ wakeAt'[i] = op'[i].until
                                                \/ state'[i] = "READY" /\ op'[i].until <= now'
  BY DEF Sleeps
<1>1. op[i].call = "sleep" => op[i].until \in Int
  BY OpFields, TasksAssumption DEF TypeOK
<1>2. now \in Int
  BY TasksAssumption DEF TypeOK
<1> QED
  BY <1>1, <1>2 DEF Sleeps

LEMMA NextKeepsSleeps ==
  ASSUME NoWrap, IInv, [Next]_vars PROVE Sleeps'
<1> USE DEF IInv
<1>0. now \in Int
  BY TasksAssumption DEF TypeOK
<1>1. ASSUME NEW n \in Slots, Switch(n) PROVE Sleeps'
  BY <1>0, <1>1, SleepsFrame DEF Switch, Scanned
<1>2. ASSUME NEW ran \in BOOLEAN, phase = "sched", ScheduleReturns(ran, Scanned), UNCHANGED <<wakeAt, now>>,
             Scanned[current] \in {"READY", "WAITING"}
      PROVE  Sleeps'
  <2>1. current \in Slots /\ Scanned \in [Slots -> States]
    BY ScannedType DEF TypeOK
  <2>2. \A i \in Slots \ {current} : state'[i] = Scanned[i] /\ op'[i] = op[i]
    BY <1>2, <2>1, ReturnStates, ReturnFacts DEF TypeOK
  <2>3. op'[current].call # "sleep"
    BY <1>2, <2>1, IdleIsOp DEF ScheduleReturns, Return, TypeOK
  <2>4. state'[current] # "SLEEPING"
    BY <1>2, <2>1, ReturnStates
  <2> QED
    BY <1>0, <1>2, <2>1, <2>2, <2>3, <2>4, SleepsFrame DEF Scanned
<1>3. CASE KeepRunning
  BY <1>2, <1>3 DEF KeepRunning, IsFirst, Ready
<1>4. CASE Halt
  BY <1>0, <1>4, SleepsFrame DEF Halt, taskVars
<1>5. CASE GiveUp
  <2>1. Scanned[current] = "WAITING"
    BY <1>5, GiveUpWaits DEF GiveUp
  <2> QED
    BY <1>2, <1>5, <2>1 DEF GiveUp
<1>6. CASE PickHopeless
  <2>1. PICK i \in Slots : state[i] = "WAITING" /\ state' = [state EXCEPT ![i] = "READY"]
    BY <1>6 DEF PickHopeless, IsFirst
  <2>2. \A j \in Slots : state'[j] = state[j] \/ (j = i /\ state'[j] = "READY" /\ op[j].call # "sleep")
    BY <2>1 DEF Sleeps, TypeOK
  <2> QED
    BY <1>0, <1>6, <2>2, SleepsFrame DEF PickHopeless
<1>7. CASE Resume
  <2>1. state[current] = "READY" /\ current \in Slots
    BY <1>7, SchedulerStarted DEF Resume, CurrentCanRun, TypeOK
  <2>2. \A i \in Slots : state'[i] = state[i]
    BY <1>7, <2>1, ReturnStates DEF Resume, TypeOK
  <2>3. op'[current].call # "sleep" /\ \A i \in Slots \ {current} : op'[i] = op[i]
    BY <1>7, <2>1, IdleIsOp DEF Resume, ScheduleReturns, Return, TypeOK
  <2> QED
    BY <1>0, <1>7, <2>1, <2>2, <2>3, SleepsFrame DEF Resume
<1>8. \A i \in Slots : StartedState[i] = state[i] \/ (~started /\ state[i] = "FREE" /\ StartedState[i] = "READY")
  BY SlotFacts DEF StartedState, TypeOK, CurrentCanRun
<1>9. CASE SpawnFails
  BY <1>0, <1>8, <1>9, SleepsFrame DEF SpawnFails, Sleeps
<1>10. CASE Yield
  <2>1. \A i \in Slots : op'[i] = op[i] \/ op'[i].call # "sleep"
    BY <1>10 DEF Yield, Yielding, TypeOK
  <2>2. op[current].call = "none" /\ state'[current] # "SLEEPING"
    BY <1>8, <1>10, IdleIsOp DEF Yield, Running, CurrentCanRun, TypeOK
  <2> QED
    BY <1>0, <1>8, <1>10, <2>1, <2>2, SleepsFrame DEF Yield, Sleeps, TypeOK
<1>11. CASE Finish
  <2>1. op[current].call = "none"
    BY <1>11, IdleIsOp DEF Finish, Running
  <2>2. \A i \in Slots : state'[i] = state[i] \/ i = current \/ (state[i] = "WAITING" /\ state'[i] = "READY")
    BY <1>11 DEF Finish, Wake, TypeOK
  <2>3. state'[current] = "DONE"
    BY <1>11 DEF Finish, Wake, TypeOK
  <2> QED
    BY <1>0, <1>11, <2>1, <2>2, <2>3, SleepsFrame DEF Finish, Sleeps
<1>12. CASE Exit
  BY <1>0, <1>12, SleepsFrame DEF Exit, taskVars
<1>13. CASE Malloc
  BY <1>0, <1>13, SleepsFrame DEF Malloc, taskVars
<1>14. ASSUME NEW i \in Slots, NEW b \in Blocks, Spawn(i, b) PROVE Sleeps'
  <2>1. op'[i].call = "entry" /\ state'[i] = "READY"
    BY <1>14, StartedStateType DEF Spawn, Entry, TypeOK
  <2>2. \A j \in Slots \ {i} : op'[j] = op[j] /\ wakeAt'[j] = wakeAt[j] /\ state'[j] = StartedState[j]
    BY <1>14, StartedStateType DEF Spawn, TypeOK
  <2>3. now' = now
    BY <1>14 DEF Spawn
  <2> QED
    BY <1>8, <2>1, <2>2, <2>3 DEF Sleeps
<1>15. ASSUME NEW ns \in Naps, Sleep(ns) PROVE Sleeps'
  <2>1. /\ ns \in Nat /\ now \in Nat /\ now <= MaxTime /\ MaxTime \in Nat /\ TimeMod \in Nat
        /\ MaxTime + ns < TimeMod - 1
    BY TasksAssumption DEF NoWrap, Forever, TypeOK
  <2>2. (now + ns) % TimeMod = now + ns
    BY <2>1
  <2>3. now + ns <= MaxTime
    BY <1>15, <2>1, <2>2 DEF Sleep, Forever
  <2>4. current \in Slots /\ now' = now
    BY <1>15 DEF TypeOK, Sleep
  <2>5. state'[current] = "SLEEPING" /\ wakeAt'[current] = now + ns
    BY <1>15, <2>2, <2>4, StartedStateType DEF Sleep, TypeOK
  <2>6. op'[current] = Sleeping(now + ns)
    BY <1>15, <2>4 DEF Sleep, TypeOK
  <2>7. \A j \in Slots \ {current} : op'[j] = op[j] /\ wakeAt'[j] = wakeAt[j] /\ state'[j] = StartedState[j]
    BY <1>15, StartedStateType DEF Sleep, TypeOK
  <2> QED
    BY <1>8, <2>3, <2>4, <2>5, <2>6, <2>7 DEF Sleeps, Sleeping
<1>16. ASSUME NEW id \in Ids, Join(id) PROVE Sleeps'
  <2>1. \A i \in Slots : op'[i] = op[i] \/ op'[i].call # "sleep"
    BY <1>16 DEF Join, Return, Joining, Idle, TypeOK
  <2>2. op[current].call = "none" /\ state'[current] # "SLEEPING"
    BY <1>8, <1>16, IdleIsOp DEF Join, Running, CurrentCanRun, TypeOK
  <2>3. \A i \in Slots \ {current} : op'[i] = op[i]
    BY <1>16 DEF Join, Return, TypeOK
  <2>4. state' = StartedState /\ now' = now /\ wakeAt' = wakeAt
    BY <1>16 DEF Join
  <2> QED
    BY <1>0, <1>8, <2>1, <2>2, <2>3, <2>4, SleepsFrame DEF Sleeps, TypeOK
<1>17. CASE JoinLoop \/ ChanOp
  <2>1. now' = now /\ wakeAt' = wakeAt /\ current \in Slots
    BY <1>17, CallFrame
  <2>2. state[current] # "SLEEPING"
    BY <1>17, CallFrame DEF CurrentCanRun
  <2> QED
    BY <1>0, <1>17, <2>1, <2>2, CallEffect, SleepsFrame DEF Sleeps
<1>18. CASE Tick
  BY <1>0, <1>18, SleepsFrame DEF Tick, taskVars
<1>19. CASE UNCHANGED vars
  BY <1>0, <1>19, SleepsFrame DEF vars, taskVars
<1>20. Schedule => Sleeps'
  BY <1>1, <1>3, <1>4, <1>5, <1>6, <1>7 DEF Schedule
<1>21. TaskCall => Sleeps'
  BY <1>9, <1>10, <1>11, <1>12, <1>13, <1>14, <1>15, <1>16 DEF TaskCall
<1> QED
  BY <1>17, <1>18, <1>19, <1>20, <1>21 DEF Next, Terminated

\* ---- Waits ----

\* A step in which nobody begins to wait, and no task waited for goes.
LEMMA WaitsFrame ==
  ASSUME TypeOK, Waits, started => started',
         \A i \in Slots : state[i] # "FREE" => state'[i] # "FREE",
         \A i \in Slots : op'[i] = op[i] \/ ~Blocking(op'[i]),
         \A i \in Slots : state'[i] = "WAITING" =>
            state[i] = "WAITING" /\ op'[i] = op[i] /\ waitingOn'[i] = waitingOn[i],
         \A i \in Slots : state'[i] = "WAITING" /\ op[i].call = "join" =>
            LET k == op[i].id % TaskMax IN generation'[k] = generation[k] /\ state'[k] # "DONE"
  PROVE  Waits'
<1>1. \A i \in Slots : state'[i] = "WAITING" => Blocking(op'[i]) /\ waitingOn'[i] = WaitObject(op'[i])
  BY DEF Waits
<1>2. \A i \in Slots : state'[i] = "WAITING" /\ op'[i].call = "join" => StillRuns(op[i].id)'
  <2> SUFFICES ASSUME NEW i \in Slots, state'[i] = "WAITING", op'[i].call = "join"
               PROVE  StillRuns(op[i].id)'
    OBVIOUS
  <2>1. op'[i] = op[i] /\ StillRuns(op[i].id)
    BY DEF Waits
  <2> QED
    BY <2>1 DEF StillRuns
<1>3. \A i \in Slots : Blocking(op'[i]) => started'
  BY DEF Waits
<1>4. \A i \in Slots : op'[i].call = "join" => state'[op'[i].id % TaskMax] # "FREE"
  <2> SUFFICES ASSUME NEW i \in Slots, op'[i].call = "join" PROVE state'[op'[i].id % TaskMax] # "FREE"
    OBVIOUS
  <2>1. op'[i] = op[i]
    BY DEF Blocking
  <2>2. op[i].id % TaskMax \in Slots
    BY <2>1, OpFields, SlotFacts DEF TypeOK
  <2> QED
    BY <2>1, <2>2 DEF Waits
<1> QED
  BY <1>1, <1>2, <1>3, <1>4 DEF Waits

\* For a step that changes no generation and finishes no task.
LEMMA WaitsFrame2 ==
  ASSUME TypeOK, Waits, started => started', generation' = generation,
         \A i \in Slots : state[i] # "FREE" => state'[i] # "FREE",
         \A i \in Slots : state'[i] = "DONE" => state[i] = "DONE",
         \A i \in Slots : op'[i] = op[i] \/ ~Blocking(op'[i]),
         \A i \in Slots : state'[i] = "WAITING" =>
            state[i] = "WAITING" /\ op'[i] = op[i] /\ waitingOn'[i] = waitingOn[i]
  PROVE  Waits'
<1>1. ASSUME NEW i \in Slots, state'[i] = "WAITING", op[i].call = "join"
      PROVE  LET k == op[i].id % TaskMax IN generation'[k] = generation[k] /\ state'[k] # "DONE"
  <2>1. StillRuns(op[i].id) /\ op[i].id % TaskMax \in Slots
    BY <1>1, OpFields, SlotFacts DEF Waits, TypeOK
  <2> QED
    BY <2>1 DEF StillRuns
<1> QED
  BY <1>1, WaitsFrame

LEMMA NotBlocking == ~Blocking(Idle) /\ ~Blocking(Entry) /\ ~Blocking(Yielding) /\ \A t : ~Blocking(Sleeping(t))
  BY DEF Blocking, Idle, Entry, Yielding, Sleeping

LEMMA ScheduleKeepsWaits ==
  ASSUME IInv, Schedule PROVE Waits'
<1> USE DEF IInv
<1>1. ASSUME NEW n \in Slots, Switch(n) PROVE Waits'
  <2>1. \A i \in Slots : state'[i] = state[i] \/ (state[i] = "SLEEPING" /\ state'[i] = "READY")
    BY <1>1 DEF Switch, Scanned
  <2>2. UNCHANGED <<started, generation, op, waitingOn>>
    BY <1>1 DEF Switch
  <2> QED
    BY <2>1, <2>2, WaitsFrame2
<1>2. ASSUME NEW ran \in BOOLEAN, NEW s \in [Slots -> States], ScheduleReturns(ran, s),
             UNCHANGED <<started, generation>>, s = Scanned \/ s = state,
             s[current] = "READY" \/ (s[current] = "WAITING" /\ ~ran /\ op[current].call \in {"join", "send", "recv"})
      PROVE  Waits'
  <2>1. current \in Slots
    BY DEF TypeOK
  <2>2. \A i \in Slots : s[i] = state[i] \/ (state[i] = "SLEEPING" /\ s[i] = "READY")
    BY <1>2 DEF Scanned
  <2>3. (\A i \in Slots \ {current} : state'[i] = s[i]) /\ state'[current] = "READY"
    BY <1>2, ReturnStates
  <2>4. \A i \in Slots : op'[i] = op[i] \/ ~Blocking(op'[i])
    BY <1>2, ReturnFacts, NotBlocking DEF TypeOK
  <2>5. \A i \in Slots \ {current} : op'[i] = op[i] /\ waitingOn'[i] = waitingOn[i]
    BY <1>2, ReturnFacts DEF TypeOK
  <2>6. s[current] # "FREE" /\ s[current] # "DONE"
    BY <1>2
  <2> QED
    BY <1>2, <2>1, <2>2, <2>3, <2>4, <2>5, <2>6, WaitsFrame2
<1>3. CASE KeepRunning
  BY <1>2, <1>3, ScannedType DEF KeepRunning, IsFirst, Ready
<1>4. CASE Halt
  BY <1>4, WaitsFrame2 DEF Halt, taskVars
<1>5. CASE GiveUp
  <2>1. Scanned[current] = "WAITING" /\ op[current].call \in {"join", "send", "recv"}
    BY <1>5, GiveUpWaits DEF GiveUp, Waits, Blocking, TypeOK
  <2> QED
    BY <1>2, <1>5, <2>1, ScannedType DEF GiveUp
<1>6. CASE PickHopeless
  <2>1. PICK i \in Slots : state[i] = "WAITING" /\ state' = [state EXCEPT ![i] = "READY"]
    BY <1>6 DEF PickHopeless, IsFirst
  <2>2. \A j \in Slots : state'[j] = state[j] \/ (j = i /\ state'[j] = "READY" /\ state[j] = "WAITING")
    BY <2>1 DEF TypeOK
  <2> QED
    BY <1>6, <2>2, WaitsFrame2 DEF PickHopeless
<1>7. CASE Resume
  <2>1. state[current] = "READY" /\ current \in Slots
    BY <1>7, SchedulerStarted DEF Resume, CurrentCanRun, TypeOK
  <2> QED
    BY <1>2, <1>7, <2>1 DEF Resume, TypeOK
<1> QED
  BY <1>1, <1>3, <1>4, <1>5, <1>6, <1>7 DEF Schedule

\* start() changes nothing but main's state.
LEMMA StartEffect ==
  ASSUME TypeOK, CurrentCanRun, NEW i \in Slots
  PROVE  StartedState[i] = state[i] \/ (~started /\ i = current /\ state[i] = "FREE" /\ StartedState[i] = "READY")
  BY SlotFacts DEF StartedState, TypeOK, CurrentCanRun

LEMMA TaskCallKeepsWaits ==
  ASSUME IInv, TaskCall PROVE Waits'
<1> USE DEF IInv
<1>0. current \in Slots /\ op \in [Slots -> Ops]
  BY DEF TypeOK
<1>1. CASE SpawnFails
  BY <1>1, StartEffect, WaitsFrame2 DEF SpawnFails, Start
<1>2. CASE Yield
  <2>1. \A i \in Slots : op'[i] = op[i] \/ ~Blocking(op'[i])
    BY <1>0, <1>2, NotBlocking DEF Yield
  <2>2. state'[current] = "READY"
    BY <1>2, StartEffect DEF Yield, Running, CurrentCanRun, StartedState, TypeOK
  <2>3. \A i \in Slots \ {current} : op'[i] = op[i]
    BY <1>0, <1>2 DEF Yield
  <2> QED
    BY <1>0, <1>2, <2>1, <2>2, <2>3, StartEffect, WaitsFrame2 DEF Yield, Start
<1>3. CASE Finish
  <2>1. /\ state'[current] = "DONE" /\ op' = op /\ waitingOn' = waitingOn
        /\ generation' = generation /\ started' = started
    BY <1>0, <1>3 DEF Finish, Wake, TypeOK
  <2>2. \A i \in Slots \ {current} : state'[i] = state[i] \/ (state[i] = "WAITING" /\ state'[i] = "READY")
    BY <1>3 DEF Finish, Wake, TypeOK
  <2>3. \A i \in Slots \ {current} : state'[i] = "WAITING" => waitingOn[i] # current
    BY <1>3 DEF Finish, Wake, TypeOK
  <2>4. ASSUME NEW i \in Slots, state'[i] = "WAITING", op[i].call = "join"
        PROVE  LET k == op[i].id % TaskMax IN generation'[k] = generation[k] /\ state'[k] # "DONE"
    <3>1. i # current /\ state[i] = "WAITING"
      BY <2>1, <2>2, <2>4
    <3>2. op[i].id % TaskMax \in Slots \ {current}
      BY <2>3, <2>4, <3>1, OpFields, SlotFacts DEF Waits, WaitObject, TypeOK
    <3>3. state[op[i].id % TaskMax] # "DONE"
      BY <2>4, <3>1 DEF Waits, StillRuns
    <3> QED
      BY <2>1, <2>2, <3>2, <3>3
  <2> QED
    BY <2>1, <2>2, <2>4, WaitsFrame
<1>4. CASE Exit
  BY <1>4, WaitsFrame2 DEF Exit, taskVars
<1>5. CASE Malloc
  BY <1>5, WaitsFrame2 DEF Malloc, taskVars
<1>6. ASSUME NEW i \in Slots, NEW b \in Blocks, Spawn(i, b) PROVE Waits'
  <2>1. i # Main /\ ~Live(i)
    BY <1>6, LiveAfterStart DEF Spawn, SlotIsFree, Live
  <2>2. state'[i] = "READY" /\ ~Blocking(op'[i]) /\ started'
    BY <1>0, <1>6, StartedStateType, NotBlocking DEF Spawn
  <2>3. \A j \in Slots \ {i} : /\ op'[j] = op[j] /\ waitingOn'[j] = waitingOn[j]
                               /\ generation'[j] = generation[j] /\ state'[j] = StartedState[j]
    BY <1>6, StartedStateType DEF Spawn, TypeOK
  <2>4. ASSUME NEW j \in Slots, state'[j] = "WAITING", op[j].call = "join"
        PROVE  LET k == op[j].id % TaskMax IN generation'[k] = generation[k] /\ state'[k] # "DONE"
    <3>1. state[j] = "WAITING"
      BY <2>2, <2>3, <2>4, StartEffect
    <3>2. op[j].id % TaskMax \in Slots
      BY <2>4, OpFields, SlotFacts DEF TypeOK
    <3>3. Live(op[j].id % TaskMax)
      BY <2>4, <3>1 DEF Waits, StillRuns, Live
    <3>4. op[j].id % TaskMax # i
      BY <2>1, <3>3
    <3> QED
      BY <2>3, <3>2, <3>3, <3>4, StartEffect DEF Live
  <2> QED
    BY <2>2, <2>3, <2>4, StartEffect, WaitsFrame
<1>7. ASSUME NEW ns \in Naps, Sleep(ns) PROVE Waits'
  <2>1. \A i \in Slots : op'[i] = op[i] \/ ~Blocking(op'[i])
    BY <1>0, <1>7, NotBlocking DEF Sleep
  <2>2. state'[current] = "SLEEPING" /\ \A i \in Slots \ {current} : state'[i] = StartedState[i]
    BY <1>0, <1>7, StartedStateType DEF Sleep
  <2>3. \A i \in Slots \ {current} : op'[i] = op[i]
    BY <1>0, <1>7 DEF Sleep
  <2> QED
    BY <1>0, <1>7, <2>1, <2>2, <2>3, StartEffect, WaitsFrame2 DEF Sleep, Start
<1>8. ASSUME NEW id \in Ids, Join(id) PROVE Waits'
  <2>1. state' = StartedState /\ started' /\ state'[current] = "READY"
    BY <1>0, <1>8, StartEffect DEF Join, Start, Running, CurrentCanRun, StartedState, TypeOK
  <2>2. UNCHANGED <<generation, waitingOn>> /\ \A i \in Slots \ {current} : op'[i] = op[i]
    BY <1>0, <1>8 DEF Join, Return
  <2>3. CASE op' = [op EXCEPT ![current] = Idle]
    <3>1. \A i \in Slots : op'[i] = op[i] \/ ~Blocking(op'[i])
      BY <1>0, <2>3, NotBlocking
    <3> QED
      BY <1>0, <2>1, <2>2, <3>1, StartEffect, WaitsFrame2
  <2>4. CASE op' = [op EXCEPT ![current] = Joining(id)] /\ \E i \in Slots \ {current} : IsSlotOf(i, id, StartedState)
    <3>1. op'[current].call = "join" /\ op'[current].id = id /\ state'[id % TaskMax] # "FREE"
      BY <1>0, <2>1, <2>4 DEF Joining, IsSlotOf
    <3>2. \A i \in Slots : state'[i] = "WAITING" => i # current /\ state[i] = "WAITING" /\ op'[i] = op[i]
      BY <2>1, <2>2, StartEffect
    <3>3. \A i \in Slots : state'[i] = "WAITING" => Blocking(op'[i]) /\ waitingOn'[i] = WaitObject(op'[i])
      BY <2>2, <3>2 DEF Waits
    <3>4. \A i \in Slots : state'[i] = "WAITING" /\ op'[i].call = "join" => StillRuns(op[i].id)'
      <4> SUFFICES ASSUME NEW i \in Slots, state'[i] = "WAITING", op'[i].call = "join"
                   PROVE  StillRuns(op[i].id)'
        OBVIOUS
      <4>1. op'[i] = op[i] /\ StillRuns(op[i].id) /\ op[i].id % TaskMax \in Slots
        BY <3>2, OpFields, SlotFacts DEF Waits, TypeOK
      <4> QED
        BY <2>1, <2>2, <4>1, StartEffect DEF StillRuns
    <3>5. \A i \in Slots : op'[i].call = "join" => state'[op'[i].id % TaskMax] # "FREE"
      <4>1. \A i \in Slots \ {current} : op[i].call = "join" =>
                op[i].id % TaskMax \in Slots /\ state[op[i].id % TaskMax] # "FREE"
        BY OpFields, SlotFacts DEF Waits, TypeOK
      <4>2. \A k \in Slots : state[k] # "FREE" => state'[k] # "FREE"
        BY <2>1, StartEffect
      <4> QED
        BY <2>2, <3>1, <4>1, <4>2
    <3> QED
      BY <2>1, <3>3, <3>4, <3>5 DEF Waits
  <2> QED
    BY <1>8, <2>3, <2>4 DEF Join, Return
<1> QED
  BY <1>1, <1>2, <1>3, <1>4, <1>5, <1>6, <1>7, <1>8 DEF TaskCall

\* A call that goes to wait is registered with what it waits for.
LEMMA WaitOnKeepsWaits ==
  ASSUME IInv, phase = "run", WaitOn(WaitObject(op[current])), Blocking(op[current]),
         op[current].call = "join" => StillRuns(op[current].id)
  PROVE  Waits'
<1> USE DEF IInv
<1>1. current \in Slots /\ started /\ state[current] = "READY"
  BY DEF Waits, CurrentCanRun, TypeOK
<1>2. /\ state' = [state EXCEPT ![current] = "WAITING"] /\ UNCHANGED <<op, generation, started>>
      /\ waitingOn' = [waitingOn EXCEPT ![current] = WaitObject(op[current])]
  BY DEF WaitOn
<1>3. \A i \in Slots : state'[i] = "WAITING" => i = current \/ (state[i] = "WAITING" /\ waitingOn'[i] = waitingOn[i])
  BY <1>1, <1>2 DEF TypeOK
<1>4. \A i \in Slots : state'[i] = "WAITING" => Blocking(op[i]) /\ waitingOn'[i] = WaitObject(op[i])
  BY <1>1, <1>2, <1>3 DEF Waits, TypeOK
<1>5. ASSUME NEW i \in Slots, state'[i] = "WAITING", op[i].call = "join" PROVE StillRuns(op[i].id)'
  <2>1. StillRuns(op[i].id) /\ op[i].id % TaskMax \in Slots
    BY <1>3, <1>5, OpFields, SlotFacts DEF Waits, TypeOK
  <2> QED
    BY <1>2, <2>1 DEF StillRuns, TypeOK
<1>6. ASSUME NEW i \in Slots, op[i].call = "join" PROVE state'[op[i].id % TaskMax] # "FREE"
  <2>1. state[op[i].id % TaskMax] # "FREE" /\ op[i].id % TaskMax \in Slots
    BY <1>6, OpFields, SlotFacts DEF Waits, TypeOK
  <2> QED
    BY <1>2, <2>1 DEF TypeOK
<1> QED
  BY <1>1, <1>2, <1>4, <1>5, <1>6 DEF Waits

LEMMA CallKeepsWaits ==
  ASSUME IInv, JoinLoop \/ ChanOp PROVE Waits'
<1> USE DEF IInv
<1> DEFINE o == op[current]
<1>0. phase = "run" /\ current \in Slots /\ state[current] # "WAITING" /\ generation' = generation
  BY CallFrame DEF CurrentCanRun
\* A call that does not go to wait.
<1>1. ASSUME op' = op \/ op' = [op EXCEPT ![current] = Idle], started' = started, state'[current] = state[current]
      PROVE  Waits'
  <2>1. \A i \in Slots : op'[i] = op[i] \/ ~Blocking(op'[i])
    BY <1>0, <1>1, NotBlocking DEF TypeOK
  <2>2. \A i \in Slots \ {current} :
              /\ op'[i] = op[i] /\ waitingOn'[i] = waitingOn[i]
              /\ state'[i] = state[i] \/ (state[i] = "WAITING" /\ state'[i] = "READY")
    BY CallEffect
  <2> QED
    BY <1>0, <1>1, <2>1, <2>2, WaitsFrame2
<1>2. ASSUME NEW c, NEW ring, ChanStep(c, ring), op' = op \/ op' = [op EXCEPT ![current] = Idle] PROVE Waits'
  <2>1. state'[current] = state[current] /\ started' = started
    BY <1>0, <1>2 DEF ChanStep, Wake
  <2> QED
    BY <1>1, <1>2, <2>1
<1>3. ASSUME NEW code, ChanFails(o, code) PROVE Waits'
  BY <1>1, <1>3 DEF ChanFails, Return, taskVars
<1>4. CASE JoinLoop
  <2>1. CASE StillRuns(o.id) /\ WaitOn(o.id % TaskMax)
    BY <1>0, <1>4, <2>1, WaitOnKeepsWaits DEF JoinLoop, Blocking, WaitObject
  <2>2. CASE Return(o, "ok") /\ UNCHANGED <<taskVars, current, started, alive, toFree, phase, chan, now, heapVars>>
    BY <1>1, <2>2 DEF Return, taskVars
  <2> QED
    BY <1>4, <2>1, <2>2 DEF JoinLoop
<1>5. CASE SendLoop
  <2>1. CASE o.block /\ WaitOn(o.chan)
    BY <1>0, <1>5, <2>1, WaitOnKeepsWaits DEF SendLoop, Blocking, WaitObject
  <2>2. CASE ChanStep(o.chan, Put(chan[o.chan], o.msg)) /\ Return(o, "ok")
    BY <1>2, <2>2 DEF Return
  <2> QED
    BY <1>3, <1>5, <2>1, <2>2 DEF SendLoop
<1>6. CASE RecvLoop
  <2>1. CASE o.block /\ WaitOn(o.chan)
    BY <1>0, <1>6, <2>1, WaitOnKeepsWaits DEF RecvLoop, Blocking, WaitObject
  <2>2. CASE ChanStep(o.chan, Taken(chan[o.chan])) /\ op' = [op EXCEPT ![current] = Idle]
    BY <1>2, <2>2
  <2> QED
    BY <1>3, <1>6, <2>1, <2>2 DEF RecvLoop
<1>7. ASSUME NEW c, ChanClose(c) \/ ChanFree(c) PROVE Waits'
  <2>1. ChanStep(c, ClosedRing(chan[c])) \/ ChanStep(c, FreedRing(chan[c]))
    BY <1>7 DEF ChanClose, ChanFree
  <2> QED
    BY <1>2, <1>7, <2>1 DEF ChanClose, ChanFree
<1>8. ASSUME NEW c, NEW ring, ChanInit(c, ring) PROVE Waits'
  BY <1>1, <1>8 DEF ChanInit, taskVars
<1>9. ASSUME NEW p, ChanCall(p), p.call \in {"send", "recv"} PROVE Waits'
  <2>1. op'[current] = p /\ (started => started') /\ (p.block => started') /\ waitingOn' = waitingOn
    BY <1>0, <1>9 DEF ChanCall, Start, TypeOK
  <2>2. \A i \in Slots : i # current => op'[i] = op[i]
    BY <1>9 DEF ChanCall, TypeOK
  <2>3. \A k \in Slots : state'[k] = state[k] \/ (state[k] = "FREE" /\ state'[k] = "READY")
    BY <1>9, StartEffect DEF ChanCall
  <2>4. \A i \in Slots : state'[i] = "WAITING" => i # current /\ state[i] = "WAITING"
    BY <1>0, <2>3
  <2>5. \A i \in Slots : state'[i] = "WAITING" => Blocking(op'[i]) /\ waitingOn'[i] = WaitObject(op'[i])
    BY <2>1, <2>2, <2>4 DEF Waits
  <2>6. ASSUME NEW i \in Slots, state'[i] = "WAITING", op'[i].call = "join" PROVE StillRuns(op[i].id)'
    <3>1. op'[i] = op[i] /\ StillRuns(op[i].id) /\ op[i].id % TaskMax \in Slots
      BY <2>2, <2>4, <2>6, OpFields, SlotFacts DEF Waits, TypeOK
    <3> QED
      BY <1>0, <2>3, <3>1 DEF StillRuns
  <2>7. \A i \in Slots : Blocking(op'[i]) => started'
    BY <1>9, <2>1, <2>2 DEF Waits, Blocking
  <2>8. ASSUME NEW i \in Slots, op'[i].call = "join" PROVE state'[op'[i].id % TaskMax] # "FREE"
    <3>1. op'[i] = op[i] /\ op[i].id % TaskMax \in Slots /\ state[op[i].id % TaskMax] # "FREE"
      BY <1>9, <2>1, <2>2, <2>8, OpFields, SlotFacts DEF Waits, TypeOK
    <3> QED
      BY <2>3, <3>1
  <2> QED
    BY <2>5, <2>6, <2>7, <2>8 DEF Waits
<1> QED
  BY <1>4, <1>5, <1>6, <1>7, <1>8, <1>9 DEF ChanOp, Sending, Receiving

LEMMA NextKeepsWaits ==
  ASSUME IInv, [Next]_vars PROVE Waits'
<1>1. Tick \/ UNCHANGED vars => Waits'
  BY WaitsFrame2 DEF Tick, vars, taskVars, IInv
<1> QED
  BY <1>1, ScheduleKeepsWaits, TaskCallKeepsWaits, CallKeepsWaits DEF Next, Terminated

\* ---- WaitersUnserved ----

\* Only a call's loop begins a wait.
LEMMA NoNewWaiters ==
  ASSUME IInv, Schedule \/ TaskCall
  PROVE  /\ \A i \in Slots : state'[i] = "WAITING" => state[i] = "WAITING" /\ op'[i] = op[i]
         /\ chan' = chan
<1> USE DEF IInv
<1>0. current \in Slots /\ op \in [Slots -> Ops]
  BY DEF TypeOK
<1> DEFINE Goal == /\ \A i \in Slots : state'[i] = "WAITING" => state[i] = "WAITING" /\ op'[i] = op[i]
                   /\ chan' = chan
<1> SUFFICES Goal
  OBVIOUS
<1>1. ASSUME NEW n \in Slots, Switch(n) PROVE Goal
  BY <1>1 DEF Switch, Scanned
<1>2. ASSUME NEW ran \in BOOLEAN, NEW s \in [Slots -> States], ScheduleReturns(ran, s), chan' = chan,
             \A i \in Slots : s[i] = "WAITING" => state[i] = "WAITING",
             s[current] = "READY" \/ (s[current] = "WAITING" /\ ~ran /\ op[current].call \in {"join", "send", "recv"})
      PROVE  Goal
  <2>1. (\A i \in Slots \ {current} : state'[i] = s[i]) /\ state'[current] = "READY"
    BY <1>2, ReturnStates
  <2>2. \A i \in Slots \ {current} : op'[i] = op[i]
    BY <1>2, ReturnFacts DEF TypeOK
  <2> QED
    BY <1>0, <1>2, <2>1, <2>2
<1>3. CASE KeepRunning
  <2>1. (\A i \in Slots : Scanned[i] = "WAITING" => state[i] = "WAITING") /\ Scanned[current] = "READY"
    BY <1>3 DEF KeepRunning, IsFirst, Ready, Scanned
  <2> QED
    BY <1>2, <1>3, <2>1, ScannedType DEF KeepRunning
<1>4. CASE Halt
  BY <1>4 DEF Halt, taskVars
<1>5. CASE GiveUp
  <2>1. Scanned[current] = "WAITING" /\ op[current].call \in {"join", "send", "recv"}
    BY <1>5, GiveUpWaits DEF GiveUp, Waits, Blocking, TypeOK
  <2>2. \A i \in Slots : Scanned[i] = "WAITING" => state[i] = "WAITING"
    BY DEF Scanned
  <2> QED
    BY <1>2, <1>5, <2>1, <2>2, ScannedType DEF GiveUp
<1>6. CASE PickHopeless
  <2>1. PICK i \in Slots : state[i] = "WAITING" /\ state' = [state EXCEPT ![i] = "READY"]
    BY <1>6 DEF PickHopeless, IsFirst
  <2> QED
    BY <1>6, <2>1 DEF PickHopeless, TypeOK
<1>7. CASE Resume
  <2>1. state[current] = "READY"
    BY <1>7, SchedulerStarted DEF Resume, CurrentCanRun, TypeOK
  <2> QED
    BY <1>2, <1>7, <2>1 DEF Resume, TypeOK
<1>8. \A i \in Slots : StartedState[i] = "WAITING" => (i # current /\ state[i] = "WAITING") \/ phase # "run"
  BY StartEffect DEF CurrentCanRun
<1>9. CASE SpawnFails
  BY <1>8, <1>9 DEF SpawnFails, Running
<1>10. CASE Yield
  BY <1>0, <1>8, <1>10 DEF Yield, Running
<1>11. CASE Finish
  BY <1>11 DEF Finish, Wake, TypeOK
<1>12. CASE Exit \/ Malloc
  BY <1>12 DEF Exit, Malloc, taskVars
<1>13. ASSUME NEW i \in Slots, NEW b \in Blocks, Spawn(i, b) PROVE Goal
  <2>1. state'[i] = "READY" /\ \A j \in Slots \ {i} : op'[j] = op[j] /\ state'[j] = StartedState[j]
    BY <1>13, StartedStateType DEF Spawn, TypeOK
  <2> QED
    BY <1>8, <1>13, <2>1 DEF Spawn, Running
<1>14. ASSUME NEW ns \in Naps, Sleep(ns) PROVE Goal
  <2>1. state'[current] = "SLEEPING" /\ \A j \in Slots \ {current} : op'[j] = op[j] /\ state'[j] = StartedState[j]
    BY <1>0, <1>14, StartedStateType DEF Sleep
  <2> QED
    BY <1>8, <1>14, <2>1 DEF Sleep, Running
<1>15. ASSUME NEW id \in Ids, Join(id) PROVE Goal
  <2>1. \A j \in Slots \ {current} : op'[j] = op[j]
    BY <1>0, <1>15 DEF Join, Return
  <2>2. state' = StartedState /\ phase = "run" /\ chan' = chan
    BY <1>15 DEF Join, Running
  <2> QED
    BY <1>8, <2>1, <2>2
<1> HIDE DEF Goal
<1> QED
  BY <1>1, <1>3, <1>4, <1>5, <1>6, <1>7, <1>9, <1>10, <1>11, <1>12, <1>13, <1>14, <1>15 DEF Schedule, TaskCall

LEMMA UnservedFrame ==
  ASSUME TypeOK', Waits',
         \A i \in Slots : state'[i] = "WAITING" /\ op'[i].call \in {"send", "recv"} => Unserved(i)'
  PROVE  WaitersUnserved'
<1>1. ASSUME NEW i \in Slots, state'[i] = "WAITING", op'[i].call = "join" PROVE Unserved(i)'
  <2>1. StillRuns(op[i].id)'
    BY <1>1 DEF Waits
  <2>2. op'[i].id \in Int
    BY <1>1, TasksAssumption DEF TypeOK, Ops, Idle, Entry, Yielding, Sleeping, Joining, Sending, Receiving, Ids
  <2>3. ~Over(op[i].id)'
    BY <2>1, <2>2 DEF StillRuns, Over
  <2> QED
    BY <1>1, <2>3 DEF Unserved
<1>2. \A i \in Slots : state'[i] = "WAITING" => op'[i].call \in {"join", "send", "recv"}
  BY DEF Waits, Blocking
<1> QED
  BY <1>1, <1>2 DEF WaitersUnserved

\* Who waits still, for a channel that has not changed.
LEMMA StillUnserved ==
  ASSUME IInv, NEW i \in Slots, state[i] = "WAITING", op'[i] = op[i], op[i].call \in {"send", "recv"},
         chan'[op[i].chan] = chan[op[i].chan]
  PROVE  Unserved(i)'
  BY DEF IInv, WaitersUnserved, Unserved

LEMMA NextKeepsUnserved ==
  ASSUME IInv, [Next]_vars PROVE WaitersUnserved'
<1> DEFINE Goal == \A i \in Slots : state'[i] = "WAITING" /\ op'[i].call \in {"send", "recv"} => Unserved(i)'
           o == op[current]
<1> SUFFICES Goal
  BY UnservedFrame, NextKeepsTypes, NextKeepsWaits
<1>1. CASE Schedule \/ TaskCall
  <2> SUFFICES ASSUME NEW i \in Slots, state'[i] = "WAITING", op'[i].call \in {"send", "recv"}
               PROVE  Unserved(i)'
    OBVIOUS
  <2>1. state[i] = "WAITING" /\ op'[i] = op[i] /\ chan' = chan
    BY <1>1, NoNewWaiters
  <2> QED
    BY <2>1, StillUnserved
<1>2. CASE Tick \/ UNCHANGED vars
  BY <1>2, StillUnserved DEF Tick, vars, taskVars
<1>3. ASSUME JoinLoop \/ ChanOp, chan' = chan,
             state'[current] # "WAITING" \/ op'[current].call = "join" \/ Unserved(current)'
      PROVE  Goal
  <2> SUFFICES ASSUME NEW i \in Slots, state'[i] = "WAITING", op'[i].call \in {"send", "recv"}
               PROVE  Unserved(i)'
    OBVIOUS
  <2>1. current' = current
    BY <1>3, CallFrame
  <2>2. CASE i # current
    BY <1>3, <2>2, CallEffect, StillUnserved
  <2>3. CASE i = current
    BY <1>3, <2>1, <2>3 DEF Unserved
  <2> QED
    BY <2>2, <2>3
<1>4. ASSUME JoinLoop \/ ChanOp, NEW c \in Chans, NEW ring, chan' = [chan EXCEPT ![c] = ring],
             \A i \in Slots : state'[i] = "WAITING" => state[i] = "WAITING" /\ waitingOn[i] # c
      PROVE  Goal
  <2> SUFFICES ASSUME NEW i \in Slots, state'[i] = "WAITING", op'[i].call \in {"send", "recv"}
               PROVE  Unserved(i)'
    OBVIOUS
  <2>1. state[i] = "WAITING" /\ waitingOn[i] # c
    BY <1>4
  <2>2. i # current
    BY <1>4, <2>1, CallFrame DEF CurrentCanRun, IInv
  <2>3. op'[i] = op[i]
    BY <1>4, <2>2, CallEffect
  <2>4. op[i].chan \in Chans /\ op[i].chan # c
    BY <2>1, <2>3, OpFields DEF IInv, TypeOK, Waits, WaitObject
  <2>5. chan'[op[i].chan] = chan[op[i].chan]
    BY <1>4, <2>4 DEF IInv, TypeOK
  <2> QED
    BY <2>1, <2>3, <2>5, StillUnserved
<1>5. ASSUME JoinLoop \/ ChanOp, NEW c \in Chans, NEW ring, ChanStep(c, ring) PROVE Goal
  <2>1. \A i \in Slots : state'[i] = "WAITING" => state[i] = "WAITING" /\ waitingOn[i] # c
    BY <1>5 DEF ChanStep, Wake
  <2> QED
    BY <1>4, <1>5, <2>1 DEF ChanStep
<1>6. ASSUME JoinLoop \/ ChanOp, ChanFails(o, "EPIPE") \/ ChanFails(o, "EAGAIN") PROVE Goal
  <2>1. chan' = chan /\ state'[current] # "WAITING"
    BY <1>6, CallFrame DEF ChanFails, taskVars, CurrentCanRun, IInv
  <2> QED
    BY <1>3, <1>6, <2>1
<1>7. current \in Slots /\ o \in Ops
  BY DEF IInv, TypeOK
<1> HIDE DEF Goal
<1>8. CASE JoinLoop
  <2>1. CASE WaitOn(o.id % TaskMax)
    BY <1>3, <1>8, <2>1 DEF JoinLoop, WaitOn
  <2>2. CASE UNCHANGED <<taskVars, current, started, alive, toFree, phase, chan, now, heapVars>>
    <3>1. chan' = chan /\ state'[current] # "WAITING"
      BY <1>8, <2>2, CallFrame DEF taskVars, CurrentCanRun, IInv
    <3> QED
      BY <1>3, <1>8, <3>1
  <2> QED
    BY <1>8, <2>1, <2>2 DEF JoinLoop
<1>9. CASE SendLoop
  <2>1. CASE ~chan[o.chan].closed /\ chan[o.chan].count = chan[o.chan].cap /\ o.block /\ WaitOn(o.chan)
    <3>1. op' = op /\ chan' = chan
      BY <2>1 DEF WaitOn
    <3>2. current' = current
      BY <2>1 DEF WaitOn
    <3>3. Unserved(current)'
      BY <1>9, <2>1, <3>1, <3>2 DEF SendLoop, Unserved
    <3> QED
      BY <1>3, <1>9, <3>1, <3>3 DEF ChanOp
  <2>2. CASE ChanStep(o.chan, Put(chan[o.chan], o.msg))
    BY <1>5, <1>7, <1>9, <2>2, OpFields DEF ChanOp, SendLoop
  <2> QED
    BY <1>6, <1>9, <2>1, <2>2 DEF ChanOp, SendLoop
<1>10. CASE RecvLoop
  <2>1. CASE chan[o.chan].count = 0 /\ ~chan[o.chan].closed /\ o.block /\ WaitOn(o.chan)
    <3>1. op' = op /\ chan' = chan
      BY <2>1 DEF WaitOn
    <3>2. current' = current
      BY <2>1 DEF WaitOn
    <3>3. Unserved(current)'
      BY <1>10, <2>1, <3>1, <3>2 DEF RecvLoop, Unserved
    <3> QED
      BY <1>3, <1>10, <3>1, <3>3 DEF ChanOp
  <2>2. CASE ChanStep(o.chan, Taken(chan[o.chan]))
    BY <1>5, <1>7, <1>10, <2>2, OpFields DEF ChanOp, RecvLoop
  <2> QED
    BY <1>6, <1>10, <2>1, <2>2 DEF ChanOp, RecvLoop
<1>11. ASSUME NEW p, ChanCall(p), ChanOp PROVE Goal
  <2>1. chan' = chan /\ state'[current] # "WAITING"
    BY <1>7, <1>11, StartEffect DEF ChanCall, Running, CurrentCanRun, IInv
  <2> QED
    BY <1>3, <1>11, <2>1
<1>12. ASSUME NEW c \in Chans, ChanClose(c) \/ ChanFree(c) PROVE Goal
  <2>1. ChanStep(c, ClosedRing(chan[c])) \/ ChanStep(c, FreedRing(chan[c]))
    BY <1>12 DEF ChanClose, ChanFree
  <2>2. ChanOp
    BY <1>12 DEF ChanOp
  <2> QED
    BY <1>5, <2>1, <2>2
<1>13. ASSUME NEW c \in Chans, NEW ring, ChanInit(c, ring), ChanOp PROVE Goal
  BY <1>4, <1>13 DEF ChanInit, taskVars
<1>14. CASE ChanOp
  BY <1>9, <1>10, <1>11, <1>12, <1>13, <1>14 DEF ChanOp
<1> QED
  BY <1>1, <1>2, <1>8, <1>14 DEF Next, Terminated

\* ---- Hopeless ----

LEMMA UnservedStays ==
  ASSUME TypeOK, UNCHANGED <<op, chan, generation>>,
         \A k \in Slots : state'[k] = "DONE" <=> state[k] = "DONE",
         NEW i \in Slots, Unserved(i)
  PROVE  Unserved(i)'
<1>1. CASE op[i].call = "join"
  <2>1. op[i].id % TaskMax \in Slots
    BY <1>1, OpFields, SlotFacts DEF TypeOK
  <2>2. ~Over(op[i].id)
    BY <1>1 DEF Unserved
  <2>3. ~Over(op[i].id)'
    BY <2>1, <2>2 DEF Over
  <2> QED
    BY <1>1, <2>3 DEF Unserved
<1>2. CASE op[i].call # "join"
  BY <1>2 DEF Unserved
<1> QED
  BY <1>1, <1>2

\* Who neither runs nor sleeps when a scan finds no one: a sleeper always has an end.
LEMMA NobodyLeft ==
  ASSUME TypeOK, Sleeps, Ready = {}, Sleepers = {}, NEW i \in Slots
  PROVE  state[i] \in {"FREE", "DONE", "WAITING"} /\ Scanned[i] = state[i]
<1>1. state[i] = "SLEEPING" => wakeAt[i] # Forever
  <2>1. MaxTime \in Int /\ Forever \in Int /\ MaxTime < Forever
    BY TasksAssumption DEF Forever
  <2> QED
    BY <2>1 DEF Sleeps
<1>2. Scanned[i] # "READY" /\ ~(Scanned[i] = "SLEEPING" /\ wakeAt[i] # Forever)
  BY DEF Ready, Sleepers
<1> QED
  BY <1>1, <1>2 DEF TypeOK, Scanned, States

LEMMA NextKeepsHopeless ==
  ASSUME IInv, [Next]_vars PROVE Hopeless'
<1> USE DEF IInv
<1>0. current \in Slots /\ deadlocked \in [Slots -> BOOLEAN]
  BY DEF TypeOK
<1>1. ASSUME \A i \in Slots : deadlocked'[i] => deadlocked[i], \A i \in Slots : ~deadlocked[i]
      PROVE  Hopeless'
  BY <1>1 DEF Hopeless
<1>2. ASSUME NEW n \in Slots, Switch(n) PROVE Hopeless'
  <2> SUFFICES ASSUME NEW i \in Slots, deadlocked'[i]
               PROVE  /\ phase' = "switched" /\ current' = i
                      /\ state'[i] = "READY" /\ Unserved(i)'
                      /\ \A j \in Slots \ {i} : state'[j] \in {"FREE", "DONE", "WAITING"}
    BY DEF Hopeless
  <2>1. deadlocked[i]
    BY <1>2 DEF Switch
  <2>2. state[i] = "READY" /\ Unserved(i) /\ \A j \in Slots \ {i} : state[j] \in {"FREE", "DONE", "WAITING"}
    BY <2>1 DEF Hopeless
  <2>3. \A j \in Slots : Scanned[j] = state[j]
    BY <2>2 DEF Scanned
  <2>4. n = i
    BY <1>2, <2>2, <2>3 DEF Switch, IsFirst, Ready
  <2>5. \A k \in Slots : state'[k] = state[k]
    BY <1>2, <2>3 DEF Switch
  <2>6. Unserved(i)'
    BY <1>2, <2>2, <2>5, UnservedStays DEF Switch
  <2> QED
    BY <1>2, <2>2, <2>4, <2>5, <2>6 DEF Switch
<1>3. CASE KeepRunning
  <2>1. state[current] # "DONE" /\ phase = "sched"
    BY <1>3, LiveAfterScan DEF KeepRunning, IsFirst, Ready
  <2>2. \A i \in Slots : deadlocked'[i] => deadlocked[i]
    BY <1>0, <1>3, ReturnFacts, ScannedType DEF KeepRunning
  <2> QED
    BY <1>1, <2>1, <2>2 DEF Hopeless
<1>4. CASE Halt
  <2>1. \A i \in Slots : Scanned[i] # "READY"
    BY <1>4 DEF Halt, Ready
  <2>2. \A i \in Slots : state[i] # "READY"
    BY <2>1 DEF Scanned
  <2> QED
    BY <1>1, <1>4, <2>2 DEF Halt, Hopeless, taskVars
<1>5. CASE GiveUp
  <2>1. \A i \in Slots : deadlocked'[i] => deadlocked[i]
    BY <1>0, <1>5, ReturnFacts, ScannedType DEF GiveUp
  <2> QED
    BY <1>1, <1>5, <2>1 DEF GiveUp, Hopeless
<1>6. CASE PickHopeless
  <2>1. PICK n \in Slots : /\ state[n] = "WAITING" /\ state' = [state EXCEPT ![n] = "READY"]
                           /\ deadlocked' = [deadlocked EXCEPT ![n] = TRUE]
    BY <1>6 DEF PickHopeless, IsFirst
  <2>2. \A j \in Slots : state[j] \in {"FREE", "DONE", "WAITING"}
    BY <1>6, NobodyLeft DEF PickHopeless
  <2>3. \A j \in Slots : ~deadlocked[j]
    BY <2>2 DEF Hopeless
  <2>4. state'[n] = "READY" /\ \A j \in Slots \ {n} : state'[j] = state[j] /\ ~deadlocked'[j]
    BY <1>0, <2>1, <2>3 DEF TypeOK
  <2>5. Unserved(n)
    BY <2>1 DEF WaitersUnserved
  <2>6. Unserved(n)'
    BY <1>6, <2>1, <2>4, <2>5, UnservedStays DEF PickHopeless
  <2>7. phase' = "sched" /\ state'[current'] = "DONE"
    BY <1>0, <1>6, <2>1, <2>4 DEF PickHopeless
  <2> QED
    BY <2>2, <2>4, <2>6, <2>7 DEF Hopeless
<1>7. CASE Resume
  <2>1. \A i \in Slots \ {current} : ~deadlocked[i]
    BY <1>7 DEF Resume, Hopeless
  <2>2. \A i \in Slots : deadlocked'[i] => deadlocked[i]
    BY <1>0, <1>7, ReturnFacts DEF Resume, TypeOK
  <2>3. deadlocked[current] => op[current].call \in {"join", "send", "recv"}
    BY <1>0 DEF Hopeless, Unserved
  <2>4. ~deadlocked'[current]
    BY <1>0, <1>7, <2>3 DEF Resume, ScheduleReturns
  <2> QED
    BY <2>1, <2>2, <2>4 DEF Hopeless
<1>8. CASE TaskCall
  <2>1. phase = "run"
    BY <1>8 DEF TaskCall, SpawnFails, Yield, Finish, Exit, Malloc, Spawn, Sleep, Join, Running
  <2>2. \A i \in Slots : deadlocked'[i] => deadlocked[i]
    BY <1>0, <1>8 DEF TaskCall, SpawnFails, Yield, Finish, Exit, Malloc, Spawn, Sleep, Join, taskVars
  <2> QED
    BY <1>1, <2>1, <2>2 DEF Hopeless
<1>9. CASE JoinLoop \/ ChanOp
  BY <1>1, <1>9, CallFrame, CallEffect DEF Hopeless
<1>10. CASE Tick \/ UNCHANGED vars
  <2>1. UNCHANGED <<taskVars, phase, op, chan, current>>
    BY <1>10 DEF Tick, vars
  <2>2. UNCHANGED <<state, generation, deadlocked>>
    BY <2>1 DEF taskVars
  <2>3. \A i \in Slots : Unserved(i) => Unserved(i)'
    BY <2>1, <2>2, UnservedStays
  <2> QED
    BY <2>1, <2>2, <2>3 DEF Hopeless
<1> QED
  BY <1>2, <1>3, <1>4, <1>5, <1>6, <1>7, <1>8, <1>9, <1>10 DEF Next, Schedule, Terminated

\* ---- The theorems ----

LEMMA InitIInv == Init => IInv
<1> SUFFICES ASSUME Init PROVE IInv
  OBVIOUS
<1>1. TypeOK
  <2>1. Idle \in Ops /\ Silent \in Replies /\ Main \in Slots
    BY IdleIsOp, SilentType, SlotFacts
  <2>2. chan \in [Chans -> Ring]
    <3>1. {NewRing(n) : n \in Capacities} \subseteq Ring
      BY NewRings DEF Ring
    <3> QED
      BY <3>1 DEF Init
  <2>3. 0 \in 0 .. MaxGen /\ 0 \in 0 .. Forever /\ 0 \in 0 .. MaxTime /\ 1 \in Int
    BY TasksAssumption DEF Forever
  <2>4. /\ generation \in [Slots -> 0 .. MaxGen] /\ wakeAt \in [Slots -> 0 .. Forever]
        /\ now \in 0 .. MaxTime /\ alive \in Int
    BY <2>3 DEF Init
  <2>5. /\ state \in [Slots -> States] /\ deadlocked \in [Slots -> BOOLEAN]
        /\ waitingOn \in [Slots -> Objects \cup {Null}] /\ stack \in [Slots -> Blocks \cup {Null}]
    BY DEF Init, States
  <2>6. op \in [Slots -> Ops] /\ ret \in Replies /\ current \in Slots
    BY <2>1 DEF Init
  <2>7. /\ started \in BOOLEAN /\ toFree \in Blocks \cup {Null} /\ mainLimit \in Tops \cup {0}
        /\ phase \in {"run", "sched", "switched", "exited"}
        /\ limit \in Tops \cup Blocks /\ heapTop \in Tops /\ allocated \in SUBSET Blocks
    BY DEF Init
  <2> QED
    BY <2>2, <2>4, <2>5, <2>6, <2>7 DEF TypeOK
<1>2. CurrentCanRun
  BY SlotFacts DEF Init, CurrentCanRun
<1>3. AliveCounts
  <2>1. {i \in Slots : Live(i) \/ i = Main} = {Main}
    BY SlotFacts DEF Init, Live
  <2>2. Cardinality({Main}) = 1
    BY FS_Singleton
  <2> QED
    BY <2>1, <2>2 DEF Init, AliveCounts
<1>4. StacksOwned
  BY SlotFacts DEF Init, StacksOwned, Live
<1>5. StackLimit /\ HeapAbove
  BY DEF Init, StackLimit, HeapAbove
<1>6. WaitersUnserved /\ Waits /\ Sleeps /\ Hopeless
  BY SlotFacts DEF Init, WaitersUnserved, Waits, Sleeps, Hopeless, Blocking, Idle
<1> QED
  BY <1>1, <1>2, <1>3, <1>4, <1>5, <1>6 DEF IInv

\* The inductive step, in one place.
LEMMA NextKeepsIInv ==
  ASSUME NoWrap, IInv, [Next]_vars PROVE IInv'
  BY NextKeepsTypes, NextKeepsControl, NextKeepsCount, NextKeepsStacks, NextKeepsLimits, NextKeepsUnserved,
     NextKeepsWaits, NextKeepsSleeps, NextKeepsHopeless DEF IInv

\* The inductive invariant holds of task.c as long as no sleep asked for wraps the 64-bit clock.
THEOREM Invariant ==
  ASSUME NoWrap PROVE Spec => []IInv
<1>1. Init => IInv
  BY InitIInv
<1>2. IInv /\ [Next]_vars => IInv'
  BY NextKeepsIInv
<1> QED
  BY <1>1, <1>2, PTL DEF Spec

\* Every variable keeps to its type: no operation leaves the arrays of slots, and the ring of a
\* channel stays a ring.
THEOREM TypesHold == ASSUME NoWrap PROVE Spec => []TypeOK
<1>1. IInv => TypeOK
  BY DEF IInv
<1> QED
  BY <1>1, Invariant, PTL

\* schedule() only ever leaves a task that can run in charge.
THEOREM ControlHolds == ASSUME NoWrap PROVE Spec => []CurrentCanRun
<1>1. IInv => CurrentCanRun
  BY DEF IInv
<1> QED
  BY <1>1, Invariant, PTL

\* task_count() is right.
THEOREM CountHolds == ASSUME NoWrap PROVE Spec => []AliveCounts
<1>1. IInv => AliveCounts
  BY DEF IInv
<1> QED
  BY <1>1, Invariant, PTL

\* No stack is freed under a task, freed twice or leaked (release_finished, task.c:103).
THEOREM StacksHold == ASSUME NoWrap PROVE Spec => []StacksOwned
<1>1. IInv => StacksOwned
  BY DEF IInv
<1> QED
  BY <1>1, Invariant, PTL

\* The machine's stack limit is the running task's, wherever the heap has moved (heap_moved, switch_to).
THEOREM LimitHolds == ASSUME NoWrap PROVE Spec => []StackLimit
<1>1. IInv => StackLimit
  BY DEF IInv
<1> QED
  BY <1>1, Invariant, PTL

\* No wakeup is lost (wake, wait_on).
THEOREM NoLostWakeup == ASSUME NoWrap PROVE Spec => []WaitersUnserved
<1>1. IInv => WaitersUnserved
  BY DEF IInv
<1> QED
  BY <1>1, Invariant, PTL

\* With ids wide enough for the tasks a slot sees, the slot of a live id is found (slot_of, task.c:92): each
\* generation of a slot has an id of its own, below the width.
THEOREM LiveIdsAreFound ==
  ASSUME NoWrap, NoIdWrap PROVE Spec => []LiveIdIsFound
<1>1. ASSUME TypeOK, NEW i \in Slots
      PROVE  i = IdOf(i) % TaskMax /\ generation[i] = IdOf(i) \div TaskMax
  <2>1. /\ TaskMax \in Nat \ {0} /\ i \in 0 .. TaskMax - 1 /\ generation[i] \in 0 .. MaxGen
        /\ IdMod \in Nat /\ MaxGen \in Nat /\ (MaxGen + 1) * TaskMax <= IdMod
    BY <1>1, TasksAssumption DEF TypeOK, Slots, NoIdWrap
  <2> DEFINE g == generation[i]
  <2>2. g \in Nat /\ g <= MaxGen
    BY <2>1
  <2> HIDE DEF g
  <2>3. g * TaskMax \in Nat /\ g * TaskMax <= MaxGen * TaskMax /\ (MaxGen + 1) * TaskMax = MaxGen * TaskMax + TaskMax
    BY <2>1, <2>2, Z3
  <2>4. g * TaskMax + i \in 0 .. IdMod - 1
    BY <2>1, <2>3
  <2>5. (g * TaskMax + i) % IdMod = g * TaskMax + i
    BY <2>1, <2>4
  <2>6. (g * TaskMax + i) % TaskMax = i /\ (g * TaskMax + i) \div TaskMax = g
    BY <2>1, <2>2, Z3
  <2> QED
    BY <2>5, <2>6 DEF IdOf, g
<1>2. TypeOK => LiveIdIsFound
  BY <1>1 DEF LiveIdIsFound, IsSlotOf, Live
<1> QED
  BY <1>2, TypesHold, PTL

\* A wait is never given up, by schedule() finding nothing or by its pick, while the call could be
\* served or anyone else could go on.
LEMMA DeadlockStep ==
  ASSUME IInv, [Next]_vars, ret'.code = "EDEADLK", phase # "run", ~UNCHANGED vars
  PROVE  /\ Unserved(current)
         /\ \A i \in Slots \ {current} : state[i] \in {"FREE", "DONE"} \/ Unserved(i)
<1> USE DEF IInv
<1>0. current \in Slots /\ Silent.code # "EDEADLK"
  BY DEF TypeOK, Silent, Reply
<1>1. \A o : Answer(o, "ok").code # "EDEADLK"
  BY DEF Answer, Reply
<1>2. CASE GiveUp
  <2>1. state[current] = "WAITING"
    BY <1>2, GiveUpWaits DEF GiveUp
  <2>2. \A i \in Slots : state[i] \in {"FREE", "DONE", "WAITING"}
    BY <1>2, NobodyLeft DEF GiveUp
  <2> QED
    BY <1>0, <2>1, <2>2 DEF WaitersUnserved
<1>3. CASE deadlocked[current] /\ phase = "switched"
  BY <1>0, <1>3 DEF Hopeless, WaitersUnserved
<1>4. CASE KeepRunning
  <2>1. state[current] # "DONE" /\ phase = "sched"
    BY <1>0, <1>4, LiveAfterScan DEF KeepRunning, IsFirst, Ready
  <2>2. ~deadlocked[current]
    BY <1>0, <2>1 DEF Hopeless
  <2>3. ret' = Silent \/ ret' = Answer(op[current], "ok")
    BY <1>4, <2>2 DEF KeepRunning, ScheduleReturns, Return
  <2> QED
    BY <1>0, <1>1, <2>3
<1>5. CASE Resume
  <2>1. CASE ~deadlocked[current]
    <3>1. ret' = Silent \/ ret' = Answer(op[current], "ok")
      BY <1>5, <2>1 DEF Resume, ScheduleReturns, Return
    <3> QED
      BY <1>0, <1>1, <3>1
  <2> QED
    BY <1>3, <1>5, <2>1 DEF Resume
<1>6. CASE (\E n \in Slots : Switch(n)) \/ Halt \/ PickHopeless \/ Tick
  BY <1>0, <1>6 DEF Switch, Halt, PickHopeless, Tick
<1>7. TaskCall => phase = "run"
  BY DEF TaskCall, SpawnFails, Yield, Finish, Exit, Malloc, Spawn, Sleep, Join, Running
<1>8. JoinLoop \/ ChanOp => phase = "run"
  BY CallFrame
<1> QED
  BY <1>2, <1>4, <1>5, <1>6, <1>7, <1>8 DEF Next, Schedule, Terminated

THEOREM DeadlocksAreReal == ASSUME NoWrap PROVE Spec => DeadlockIsReal
<1>1. IInv /\ [Next]_vars =>
        [ret'.code = "EDEADLK" /\ phase # "run" =>
            /\ Unserved(current)
            /\ \A i \in Slots \ {current} : state[i] \in {"FREE", "DONE"} \/ Unserved(i)]_vars
  BY DeadlockStep
<1> QED
  BY <1>1, Invariant, PTL DEF Spec, DeadlockIsReal

\* A sleep that does not wrap the clock is never cut short: not by an interrupt that ends the halt,
\* and not by waking another's wait.
LEMMA SleepStep ==
  ASSUME IInv, [Next]_vars, NEW i \in Slots, op[i].call = "sleep", op'[i] = Idle
  PROVE  now >= op[i].until
<1> USE DEF IInv
<1>0. op'[i] # op[i] /\ current \in Slots /\ op \in [Slots -> Ops] /\ now \in Int
  BY TasksAssumption DEF Idle, TypeOK
<1>1. op[i].until \in Int
  BY <1>0, OpFields, TasksAssumption
<1>2. CASE i = current /\ Scanned[i] = "READY"
  BY <1>1, <1>0, <1>2 DEF Sleeps, Scanned
<1>3. CASE i = current /\ state[i] = "READY"
  BY <1>1, <1>0, <1>3 DEF Sleeps
<1>4. CASE KeepRunning
  <2>1. i = current
    BY <1>0, <1>4, ReturnFacts, ScannedType DEF KeepRunning
  <2> QED
    BY <1>2, <1>4, <2>1 DEF KeepRunning, IsFirst, Ready
<1>5. CASE GiveUp
  <2>1. i = current
    BY <1>0, <1>5, ReturnFacts, ScannedType DEF GiveUp
  <2> QED
    BY <1>5, <2>1, GiveUpWaits DEF GiveUp, Sleeps
<1>6. CASE Resume
  <2>1. i = current
    BY <1>0, <1>6, ReturnFacts DEF Resume, TypeOK
  <2> QED
    BY <1>3, <1>6, <2>1, SchedulerStarted DEF Resume, CurrentCanRun
<1>7. CASE TaskCall
  <2>1. op[current] = Idle
    BY <1>7 DEF TaskCall, SpawnFails, Yield, Finish, Exit, Malloc, Spawn, Sleep, Join, Running
  <2>2. i # current
    BY <1>0, <2>1
  <2>3. op'[i] = op[i] \/ op'[i] = Entry
    BY <1>0, <1>7, <2>2
    DEF TaskCall, SpawnFails, Yield, Finish, Exit, Malloc, Spawn, Sleep, Join, Return
  <2> QED
    BY <1>0, <2>3 DEF Entry, Idle
<1>8. CASE JoinLoop \/ ChanOp
  BY <1>0, <1>8, CallEffect
<1>9. CASE (\E n \in Slots : Switch(n)) \/ Halt \/ PickHopeless \/ Tick \/ UNCHANGED vars
  BY <1>0, <1>9 DEF Switch, Halt, PickHopeless, Tick, vars
<1> QED
  BY <1>4, <1>5, <1>6, <1>7, <1>8, <1>9 DEF Next, Schedule, Terminated

THEOREM SleepsLast == ASSUME NoWrap PROVE Spec => SleepsAtLeast
<1>1. IInv /\ [Next]_vars =>
        [\A i \in Slots : op[i].call = "sleep" /\ op'[i] = Idle => now >= op[i].until]_vars
  BY SleepStep
<1> QED
  BY <1>1, Invariant, PTL DEF Spec, SleepsAtLeast

\* ---- Channels implement queues ----

\* What the rings of the channels stand for, and what their callers are told.
QueueOf == [c \in Chans |-> Contents(chan[c])]
RoomOf == [c \in Chans |-> chan[c].cap]
OpenOf == [c \in Chans |-> ~chan[c].closed]
AnswerOf == IF ret.chan = Null THEN Silent ELSE ret

LEMMA InitIsQueue == Init => Queue!Init
<1> SUFFICES ASSUME Init PROVE Queue!Init
  OBVIOUS
<1>1. \A c \in Chans : \E n \in Capacities : chan[c] = NewRing(n)
  BY DEF Init
<1>2. RoomOf \in [Chans -> Capacities]
  BY <1>1, NewRings DEF RoomOf
<1>3. QueueOf = [c \in Chans |-> <<>>]
  BY <1>1, NewRings DEF QueueOf
<1>4. OpenOf = [c \in Chans |-> TRUE]
  BY <1>1, NewRings DEF OpenOf
<1>5. AnswerOf = Silent
  BY DEF AnswerOf, Init
<1> QED
  BY <1>2, <1>3, <1>4, <1>5 DEF QueueOf, RoomOf, OpenOf, AnswerOf, Queue!Init, Queue!Silent, Queue!Reply,
     Silent, Reply

\* The fields of what a step answers.
LEMMA AnswerOfChan ==
  ASSUME NEW o \in Ops, NEW code \in Codes
  PROVE  /\ o.call = "send" => Answer(o, code) = Reply("send", o.chan, code, o.msg)
         /\ o.call = "recv" => Answer(o, code) = Reply("recv", o.chan, code, NoMsg)
         /\ o.call \notin {"send", "recv"} => Answer(o, code).chan = Null
         /\ Silent.chan = Null
         /\ \A call, c, m : Reply(call, c, code, m).chan = c
  BY DEF Answer, Silent, Reply

LEMMA ElsewhereStep ==
  ASSUME chan' = chan, ret'.chan = Null PROVE Queue!Elsewhere
<1>1. AnswerOf'.chan = Null
  BY DEF AnswerOf, Silent, Reply
<1> QED
  BY <1>1 DEF Queue!Elsewhere, AnswerOf

LEMMA FailStep ==
  ASSUME TypeOK, NEW o \in Ops, o.call \in {"send", "recv"}, NEW code \in {"EPIPE", "EAGAIN", "EDEADLK"},
         ret' = Answer(o, code), chan' = chan,
         code = "EPIPE" <=> chan[o.chan].closed,
         o.call = "send" => chan[o.chan].closed \/ chan[o.chan].count = chan[o.chan].cap,
         o.call = "recv" => chan[o.chan].count = 0
  PROVE  Queue!Next
<1>1. o.chan \in Chans /\ chan[o.chan] \in Ring /\ o.chan # Null /\ code \in Codes
  BY OpFields, TasksAssumption DEF TypeOK, Codes
<1>2. Len(Contents(chan[o.chan])) = chan[o.chan].count
  BY <1>1, ContentsType
<1>3. QueueOf[o.chan] = Contents(chan[o.chan]) /\ RoomOf[o.chan] = chan[o.chan].cap
      /\ OpenOf[o.chan] = ~chan[o.chan].closed
  BY <1>1 DEF QueueOf, RoomOf, OpenOf
<1>4. CASE o.call = "send"
  <2>1. o.msg \in Msgs /\ ret' = Reply("send", o.chan, code, o.msg)
    BY <1>1, <1>4, OpFields, AnswerOfChan
  <2>2. AnswerOf' = Reply("send", o.chan, code, o.msg)
    BY <1>1, <2>1 DEF AnswerOf, Reply
  <2>3. Queue!SendFails(o.chan, o.msg)
    BY <1>1, <1>2, <1>3, <1>4, <2>2
    DEF Queue!SendFails, QueueOf, RoomOf, OpenOf, AnswerOf, Reply, Queue!Reply
  <2> QED
    BY <1>1, <2>1, <2>3 DEF Queue!Next
<1>5. CASE o.call = "recv"
  <2>1. ret' = Reply("recv", o.chan, code, NoMsg)
    BY <1>1, <1>5, AnswerOfChan
  <2>2. AnswerOf' = Reply("recv", o.chan, code, NoMsg)
    BY <1>1, <2>1 DEF AnswerOf, Reply
  <2>3. Contents(chan[o.chan]) = <<>>
    BY <1>5 DEF Contents
  <2>4. Queue!RecvFails(o.chan)
    BY <1>1, <1>3, <1>5, <2>2, <2>3
    DEF Queue!RecvFails, QueueOf, RoomOf, OpenOf, AnswerOf, Reply, Queue!Reply
  <2> QED
    BY <1>1, <2>4 DEF Queue!Next
<1> QED
  BY <1>4, <1>5

LEMMA RingMaps ==
  ASSUME TypeOK, NEW c \in Chans, NEW ring, chan' = [chan EXCEPT ![c] = ring]
  PROVE  /\ QueueOf' = [QueueOf EXCEPT ![c] = Contents(ring)]
         /\ RoomOf' = [RoomOf EXCEPT ![c] = ring.cap]
         /\ OpenOf' = [OpenOf EXCEPT ![c] = ~ring.closed]
         /\ QueueOf[c] = Contents(chan[c]) /\ RoomOf[c] = chan[c].cap /\ OpenOf[c] = ~chan[c].closed
         /\ ring.cap = chan[c].cap => RoomOf' = RoomOf
         /\ ring.closed = chan[c].closed => OpenOf' = OpenOf
         /\ Contents(ring) = Contents(chan[c]) => QueueOf' = QueueOf
<1>1. \A d \in Chans : chan'[d] = IF d = c THEN ring ELSE chan[d]
  BY DEF TypeOK
<1>2. QueueOf' = [d \in Chans |-> IF d = c THEN Contents(ring) ELSE Contents(chan[d])]
  BY <1>1 DEF QueueOf
<1>3. RoomOf' = [d \in Chans |-> IF d = c THEN ring.cap ELSE chan[d].cap]
  BY <1>1 DEF RoomOf
<1>4. OpenOf' = [d \in Chans |-> IF d = c THEN ~ring.closed ELSE ~chan[d].closed]
  BY <1>1 DEF OpenOf
<1>5. QueueOf' = [QueueOf EXCEPT ![c] = Contents(ring)]
  BY <1>2 DEF QueueOf
<1>6. RoomOf' = [RoomOf EXCEPT ![c] = ring.cap]
  BY <1>3 DEF RoomOf
<1>7. OpenOf' = [OpenOf EXCEPT ![c] = ~ring.closed]
  BY <1>4 DEF OpenOf
<1>8. ring.cap = chan[c].cap => RoomOf' = RoomOf
  BY <1>3 DEF RoomOf
<1>9. ring.closed = chan[c].closed => OpenOf' = OpenOf
  BY <1>4 DEF OpenOf
<1>10. Contents(ring) = Contents(chan[c]) => QueueOf' = QueueOf
  BY <1>2 DEF QueueOf
<1>11. QueueOf[c] = Contents(chan[c]) /\ RoomOf[c] = chan[c].cap /\ OpenOf[c] = ~chan[c].closed
  BY DEF QueueOf, RoomOf, OpenOf
<1> QED
  BY <1>5, <1>6, <1>7, <1>8, <1>9, <1>10, <1>11

LEMMA SchedulerIsElsewhere ==
  ASSUME IInv, Schedule PROVE Queue!Next
<1> USE DEF IInv
<1> DEFINE o == op[current]
<1>0. o \in Ops
  BY DEF TypeOK
<1>1. chan' = chan
  BY DEF Schedule, Switch, KeepRunning, Halt, GiveUp, PickHopeless, Resume
<1>2. CASE ret'.chan = Null
  BY <1>1, <1>2, ElsewhereStep DEF Queue!Next
<1>3. ASSUME NEW ran \in BOOLEAN, NEW s, ScheduleReturns(ran, s), phase # "run" PROVE Queue!Next
  <2>1. \/ ret' = Silent
        \/ o.call \notin {"send", "recv"} /\ \E code \in {"ok", "EDEADLK"} : ret' = Answer(o, code)
        \/ o.call \in {"send", "recv"} /\ ret' = Answer(o, "EDEADLK")
    BY <1>3 DEF ScheduleReturns, Return
  <2>2. CASE ret' = Silent \/ (o.call \notin {"send", "recv"} /\ \E code \in {"ok", "EDEADLK"} : ret' = Answer(o, code))
    BY <1>0, <1>2, <2>2, AnswerOfChan DEF Codes
  <2>3. CASE o.call \in {"send", "recv"} /\ ret' = Answer(o, "EDEADLK")
    <3>1. ret'.code = "EDEADLK"
      BY <2>3 DEF Answer, Reply
    <3>2. phase' = "run"
      BY <1>3 DEF ScheduleReturns
    <3>3. [Next]_vars /\ ~UNCHANGED vars
      BY <1>3, <3>2 DEF Next, vars
    <3>4. Unserved(current)
      BY <1>3, <3>1, <3>3, DeadlockStep
    <3>5. /\ ~chan[o.chan].closed
          /\ o.call = "send" => chan[o.chan].count = chan[o.chan].cap
          /\ o.call = "recv" => chan[o.chan].count = 0
      BY <2>3, <3>4 DEF Unserved
    <3> QED
      BY <1>0, <1>1, <2>3, <3>5, FailStep
  <2> QED
    BY <2>1, <2>2, <2>3
<1>4. KeepRunning \/ GiveUp \/ Resume => Queue!Next
  BY <1>3 DEF KeepRunning, GiveUp, Resume
<1>5. (\E n \in Slots : Switch(n)) \/ Halt \/ PickHopeless => Queue!Next
  BY <1>0, <1>2, AnswerOfChan DEF Switch, Halt, PickHopeless, Codes
<1> QED
  BY <1>4, <1>5 DEF Schedule

LEMMA TasksAreElsewhere ==
  ASSUME IInv, TaskCall \/ JoinLoop \/ Tick PROVE Queue!Elsewhere
<1> USE DEF IInv
<1>1. chan' = chan
  BY DEF TaskCall, SpawnFails, Yield, Finish, Exit, Malloc, Spawn, Sleep, Join, JoinLoop, WaitOn, Tick
<1>2. Silent.chan = Null /\ \A call, code, m : Reply(call, Null, code, m).chan = Null
  BY DEF Silent, Reply
<1>3. ret'.chan = Null
  <2>1. CASE SpawnFails
    BY <1>2, <2>1 DEF SpawnFails
  <2>2. CASE \E i \in Slots, b \in Blocks : Spawn(i, b)
    BY <1>2, <2>2 DEF Spawn
  <2>3. CASE Yield \/ Finish \/ Exit \/ Malloc \/ Tick \/ \E ns \in Naps : Sleep(ns)
    BY <1>2, <2>3 DEF Yield, Finish, Exit, Malloc, Tick, Sleep
  <2>4. ASSUME NEW id \in Ids, Join(id) PROVE ret'.chan = Null
    BY <1>2, <2>4 DEF Join, Return, Answer, Joining
  <2>5. CASE JoinLoop
    BY <1>2, <2>5 DEF JoinLoop, WaitOn, Return, Answer
  <2> QED
    BY <2>1, <2>2, <2>3, <2>4, <2>5 DEF TaskCall
<1> QED
  BY <1>1, <1>3, ElsewhereStep

LEMMA ChanOpIsQueueStep ==
  ASSUME IInv, ChanOp PROVE Queue!Next
<1> USE DEF IInv
<1> DEFINE o == op[current]
           r == chan[o.chan]
<1>0. o \in Ops /\ \A c \in Chans : chan[c] \in Ring /\ c # Null
  BY TasksAssumption DEF TypeOK
<1>1. ASSUME chan' = chan, ret' = Silent PROVE Queue!Next
  BY <1>0, <1>1, AnswerOfChan, ElsewhereStep DEF Queue!Next, Codes
\* A step that answers nothing, or about channel c.
<1>2. /\ Silent.chan = Null /\ ret' = Silent => AnswerOf' = Silent
      /\ ret'.chan # Null => AnswerOf' = ret'
  BY DEF Silent, Reply, AnswerOf
<1>3. CASE SendLoop
  <2>1. o.call = "send" /\ o.chan \in Chans /\ r \in Ring /\ o.msg \in Msgs
    BY <1>0, <1>3, OpFields DEF SendLoop
  <2>2. CASE r.closed /\ ChanFails(o, "EPIPE")
    BY <1>0, <2>1, <2>2, FailStep DEF ChanFails, Return
  <2>3. CASE ~r.closed /\ r.count = r.cap /\ ChanFails(o, "EAGAIN")
    BY <1>0, <2>1, <2>3, FailStep DEF ChanFails, Return
  <2>4. CASE WaitOn(o.chan)
    BY <1>1, <2>4 DEF WaitOn
  <2>5. CASE ~r.closed /\ r.count # r.cap /\ ChanStep(o.chan, Put(r, o.msg)) /\ Return(o, "ok")
    <3>1. Put(r, o.msg) \in LiveRing /\ Contents(Put(r, o.msg)) = Append(Contents(r), o.msg)
      BY <2>1, <2>5, PutAppends
    <3>2. Put(r, o.msg).cap = r.cap /\ Put(r, o.msg).closed = r.closed
      <4>1. r \in LiveRing
        BY <2>1, <2>5, OpenRingIsLive
      <4> QED
        BY <4>1 DEF Put, LiveRing
    <3>3. /\ QueueOf' = [QueueOf EXCEPT ![o.chan] = Append(Contents(r), o.msg)]
          /\ RoomOf' = RoomOf /\ OpenOf' = OpenOf
          /\ QueueOf[o.chan] = Contents(r) /\ RoomOf[o.chan] = r.cap /\ OpenOf[o.chan] = ~r.closed
      <4>1. PICK ring : ring = Put(r, o.msg)
        OBVIOUS
      <4>2. chan' = [chan EXCEPT ![o.chan] = ring]
        BY <2>5, <4>1 DEF ChanStep
      <4>3. Contents(ring) = Append(Contents(r), o.msg) /\ ring.cap = r.cap /\ ring.closed = r.closed
        BY <3>1, <3>2, <4>1
      <4>4. /\ QueueOf' = [QueueOf EXCEPT ![o.chan] = Contents(ring)]
            /\ QueueOf[o.chan] = Contents(r) /\ RoomOf[o.chan] = r.cap /\ OpenOf[o.chan] = ~r.closed
        BY <2>1, <4>2, RingMaps, ZenonT(60)
      <4>5. RoomOf' = RoomOf /\ OpenOf' = OpenOf
        BY <2>1, <4>2, <4>3, RingMaps
      <4> QED
        BY <4>3, <4>4, <4>5
    <3>4. Len(Contents(r)) < r.cap
      <4>1. r \in LiveRing
        BY <2>1, <2>5, OpenRingIsLive
      <4>2. r.count \in 0 .. r.cap /\ r.cap \in Nat
        BY <4>1, LiveRingFields
      <4> QED
        BY <2>1, <2>5, <4>2, ContentsType
    <3>5. AnswerOf' = Reply("send", o.chan, "ok", o.msg)
      <4>1. ret' = Reply("send", o.chan, "ok", o.msg)
        BY <1>0, <2>1, <2>5, AnswerOfChan DEF Return, Codes
      <4>2. Reply("send", o.chan, "ok", o.msg).chan = o.chan
        BY DEF Reply
      <4> QED
        BY <1>0, <1>2, <2>1, <4>1, <4>2
    <3> HIDE DEF o, r
    <3>6. Queue!Send(o.chan, o.msg)
      BY <2>5, <3>3, <3>4, <3>5 DEF Queue!Send, QueueOf, RoomOf, OpenOf, AnswerOf, Reply, Queue!Reply
    <3> QED
      BY <2>1, <3>6 DEF Queue!Next
  <2> QED
    BY <1>3, <2>2, <2>3, <2>4, <2>5 DEF SendLoop
<1>4. CASE RecvLoop
  <2>1. o.call = "recv" /\ o.chan \in Chans /\ r \in Ring
    BY <1>0, <1>4, OpFields DEF RecvLoop
  <2>2. CASE r.count = 0 /\ r.closed /\ ChanFails(o, "EPIPE")
    BY <1>0, <2>1, <2>2, FailStep DEF ChanFails, Return
  <2>3. CASE r.count = 0 /\ ~r.closed /\ ChanFails(o, "EAGAIN")
    BY <1>0, <2>1, <2>3, FailStep DEF ChanFails, Return
  <2>4. CASE WaitOn(o.chan)
    BY <1>1, <2>4 DEF WaitOn
  <2>5. CASE r.count # 0 /\ ChanStep(o.chan, Taken(r)) /\ ret' = Reply("recv", o.chan, "ok", Front(r))
    <3>1. /\ Taken(r) \in LiveRing /\ Contents(r) # <<>> /\ Front(r) = Head(Contents(r))
          /\ Contents(Taken(r)) = Tail(Contents(r))
      BY <2>1, <2>5, TakenIsTail
    <3>2. Taken(r).cap = r.cap /\ Taken(r).closed = r.closed
      <4>1. r \in LiveRing
        BY <2>1, <2>5, FilledRingIsLive
      <4> QED
        BY <4>1 DEF Taken, LiveRing
    <3>3. /\ QueueOf' = [QueueOf EXCEPT ![o.chan] = Tail(Contents(r))]
          /\ RoomOf' = RoomOf /\ OpenOf' = OpenOf /\ QueueOf[o.chan] = Contents(r)
      <4>1. PICK ring : ring = Taken(r)
        OBVIOUS
      <4>2. chan' = [chan EXCEPT ![o.chan] = ring]
        BY <2>5, <4>1 DEF ChanStep
      <4>3. Contents(ring) = Tail(Contents(r)) /\ ring.cap = r.cap /\ ring.closed = r.closed
        BY <3>1, <3>2, <4>1
      <4>4. /\ QueueOf' = [QueueOf EXCEPT ![o.chan] = Contents(ring)]
            /\ QueueOf[o.chan] = Contents(r) /\ RoomOf[o.chan] = r.cap /\ OpenOf[o.chan] = ~r.closed
        BY <2>1, <4>2, RingMaps, ZenonT(60)
      <4>5. RoomOf' = RoomOf /\ OpenOf' = OpenOf
        BY <2>1, <4>2, <4>3, RingMaps
      <4> QED
        BY <4>3, <4>4, <4>5
    <3>4. AnswerOf' = Reply("recv", o.chan, "ok", Head(Contents(r)))
      <4>1. Reply("recv", o.chan, "ok", Front(r)).chan = o.chan
        BY DEF Reply
      <4> QED
        BY <1>0, <1>2, <2>1, <2>5, <3>1, <4>1
    <3> HIDE DEF o, r
    <3>5. Queue!Recv(o.chan)
      BY <3>1, <3>3, <3>4 DEF Queue!Recv, QueueOf, RoomOf, OpenOf, AnswerOf, Reply, Queue!Reply
    <3> QED
      BY <2>1, <3>5 DEF Queue!Next
  <2> QED
    BY <1>4, <2>2, <2>3, <2>4, <2>5 DEF RecvLoop
<1>5. ASSUME NEW p, ChanCall(p) PROVE Queue!Next
  BY <1>1, <1>5 DEF ChanCall
<1>6. ASSUME NEW c \in Chans, ChanClose(c) PROVE Queue!Next
  <2>1. OpenOf' = [OpenOf EXCEPT ![c] = FALSE] /\ QueueOf' = QueueOf /\ RoomOf' = RoomOf /\ AnswerOf' = Silent
    <3>1. PICK ring : ring = ClosedRing(chan[c])
      OBVIOUS
    <3>2. chan' = [chan EXCEPT ![c] = ring]
      BY <1>6, <3>1 DEF ChanClose, ChanStep
    <3>3. Contents(ring) = Contents(chan[c]) /\ ring.cap = chan[c].cap /\ ring.closed
      BY <1>0, <3>1, OtherRings
    <3>4. AnswerOf' = Silent
      BY <1>2, <1>6 DEF ChanClose
    <3> QED
      BY <3>2, <3>3, <3>4, RingMaps
  <2>2. Queue!Close(c)
    BY <2>1 DEF Queue!Close, QueueOf, RoomOf, OpenOf, AnswerOf, Silent, Reply, Queue!Silent, Queue!Reply
  <2> QED
    BY <2>2 DEF Queue!Next
<1>7. ASSUME NEW c \in Chans, ChanFree(c) PROVE Queue!Next
  <2>1. /\ OpenOf' = [OpenOf EXCEPT ![c] = FALSE] /\ QueueOf' = [QueueOf EXCEPT ![c] = <<>>]
        /\ RoomOf' = RoomOf /\ AnswerOf' = Silent
    <3>1. PICK ring : ring = FreedRing(chan[c])
      OBVIOUS
    <3>2. chan' = [chan EXCEPT ![c] = ring]
      BY <1>7, <3>1 DEF ChanFree, ChanStep
    <3>3. Contents(ring) = <<>> /\ ring.cap = chan[c].cap /\ ring.closed
      BY <1>0, <3>1, OtherRings
    <3>4. AnswerOf' = Silent
      BY <1>2, <1>7 DEF ChanFree
    <3>5. QueueOf' = [QueueOf EXCEPT ![c] = Contents(ring)] /\ OpenOf' = [OpenOf EXCEPT ![c] = ~ring.closed]
      BY <3>2, RingMaps, ZenonT(60)
    <3>6. RoomOf' = RoomOf
      BY <3>2, <3>3, RingMaps
    <3> QED
      BY <3>3, <3>4, <3>5, <3>6
  <2>2. Queue!Free(c)
    BY <2>1 DEF Queue!Free, QueueOf, RoomOf, OpenOf, AnswerOf, Silent, Reply, Queue!Silent, Queue!Reply
  <2> QED
    BY <2>2 DEF Queue!Next
<1>8. ASSUME NEW c \in Chans, NEW ring \in {ZeroRing} \cup {NewRing(n) : n \in Capacities}, ChanInit(c, ring)
      PROVE  Queue!Next
  <2>1. /\ Contents(ring) = <<>> /\ ~ring.closed /\ ring.cap \in Capacities \cup {0}
    BY NewRings DEF ZeroRing, Contents
  <2>2. chan[c] \in DeadRing \/ chan[c] = ZeroRing
    <3>1. chan[c].buf = NullBuf
      BY <1>8 DEF ChanInit
    <3>2. chan[c] \notin LiveRing
      <4> SUFFICES ASSUME chan[c] \in LiveRing PROVE FALSE
        OBVIOUS
      <4>1. chan[c].cap \in Nat \ {0} /\ chan[c].buf \in [0 .. chan[c].cap - 1 -> Msgs \cup {NoMsg}]
        BY LiveRingFields
      <4>2. 0 \in DOMAIN chan[c].buf
        BY <4>1
      <4> QED
        BY <3>1, <4>2 DEF NullBuf
    <3> QED
      BY <1>0, <3>2 DEF Ring
  <2>3. Contents(chan[c]) = <<>> /\ (chan[c].closed \/ chan[c].cap = 0)
    <3>1. chan[c].count = 0 /\ (chan[c].closed \/ chan[c].cap = 0)
      <4>1. chan[c] \in DeadRing => chan[c].count = 0 /\ chan[c].closed = TRUE
        BY DEF DeadRing
      <4>2. chan[c] = ZeroRing => chan[c].count = 0 /\ chan[c].cap = 0
        BY DEF ZeroRing
      <4> QED
        BY <2>2, <4>1, <4>2
    <3> QED
      BY <3>1 DEF Contents
  <2>4. /\ OpenOf' = [OpenOf EXCEPT ![c] = TRUE] /\ QueueOf' = QueueOf
        /\ RoomOf' = [RoomOf EXCEPT ![c] = ring.cap] /\ AnswerOf' = Silent
        /\ QueueOf[c] = <<>> /\ (~OpenOf[c] \/ RoomOf[c] = 0)
    BY <1>2, <1>8, <2>1, <2>3, RingMaps DEF ChanInit
  <2>5. Queue!Make(c, ring.cap)
    BY <2>4 DEF Queue!Make, QueueOf, RoomOf, OpenOf, AnswerOf, Silent, Reply, Queue!Silent, Queue!Reply
  <2> QED
    BY <2>1, <2>5 DEF Queue!Next
<1> QED
  BY <1>3, <1>4, <1>5, <1>6, <1>7, <1>8 DEF ChanOp

\* Every channel behaves as the bounded FIFO queue of task.h: what was sent is received once, in
\* order, whatever tasks send, receive, wait, close and free in between.
THEOREM ChannelsImplementQueues == ASSUME NoWrap PROVE Spec => ChannelsAreQueues
<1>1. IInv /\ [Next]_vars => [Queue!Next]_Queue!qvars
  <2>1. UNCHANGED vars => UNCHANGED Queue!qvars
    BY DEF vars, Queue!qvars
  <2>2. IInv /\ Next => Queue!Next \/ UNCHANGED vars
    BY SchedulerIsElsewhere, TasksAreElsewhere, ChanOpIsQueueStep DEF Next, Queue!Next, Terminated
  <2> QED
    BY <2>1, <2>2
<1> QED
  BY <1>1, InitIsQueue, Invariant, PTL DEF Spec, ChannelsAreQueues, Queue!Spec
=============================================================================
