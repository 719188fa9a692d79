-------------------------- MODULE SoftTimers_proofs --------------------------
(***************************************************************************)
(* Theorems about software timers, for a table, a counter and timers of    *)
(* any length: what the wrapped numbers decide is what the true ones would.*)
(***************************************************************************)
EXTENDS SoftTimers, TLAPS

\* The constants, with what is made of them.
LEMMA Ranges ==
    /\ Wrap = 2 * Half /\ Half \in Nat /\ MaxTicks \in 1 .. Half - 1
    /\ MaxDepth \in Nat /\ MaxDepth > 0 /\ MaxRuns \in Nat /\ MaxRuns > 0
  BY TimersAssumption DEF Wrap, MaxRuns

\* What the type invariant says of one timer,
LEMMA OfTimer ==
    ASSUME IInv, NEW i \in Slots
    PROVE  /\ timers[i] \in Entries /\ timers[i].used \in BOOLEAN
           /\ timers[i].due \in 0 .. Wrap - 1 /\ timers[i].period \in 0 .. MaxTicks
           /\ timers[i].left \in 1 - Half .. MaxTicks
           /\ timers[i].used => timers[i].due - clock - timers[i].left \in {0, Wrap, -Wrap}
<1>1. timers[i] \in Entries
  BY DEF IInv, TypeOK
<1> QED
  BY <1>1 DEF Entries, IInv, Tracks

\* of one poll,
LEMMA OfPoll ==
    ASSUME IInv, NEW d \in 1 .. MaxDepth
    PROVE  /\ polls[d] \in Locals
           /\ polls[d].now \in 0 .. Wrap - 1 /\ polls[d].ran \in 0 .. MaxRuns - 1
           /\ polls[d].age \in 0 .. Half - MaxTicks
           /\ d <= depth => clock - polls[d].now - polls[d].age \in {0, -Wrap}
<1>1. polls[d] \in Locals
  BY DEF IInv, TypeOK
<1>2. d <= depth => d \in 1 .. depth
  BY Ranges DEF IInv, TypeOK
<1> QED
  BY <1>1, <1>2 DEF Locals, IInv, Tracks

\* and of the rest.
LEMMA OfControl ==
    ASSUME IInv
    PROVE  /\ clock \in 0 .. Wrap - 1 /\ depth \in 0 .. MaxDepth
           /\ depth > 0 => depth \in 1 .. MaxDepth
           /\ control \in {"program", "poll"} /\ (control = "poll" => depth > 0)
<1>1. clock \in 0 .. Wrap - 1 /\ depth \in 0 .. MaxDepth
      /\ control \in {"program", "poll"} /\ (control = "poll" => depth > 0)
  BY DEF IInv, TypeOK
<1> QED
  BY <1>1, Ranges

\* A timer with parts of the right ranges is a slot's content.
LEMMA EntryType ==
    ASSUME NEW due \in 0 .. Wrap - 1, NEW period \in 0 .. MaxTicks, NEW left \in 1 - Half .. MaxTicks
    PROVE  /\ Timer(due, period, left) \in Entries /\ Timer(due, period, left).used
           /\ Timer(due, period, left).due = due /\ Timer(due, period, left).left = left
  BY DEF Timer, Entries

\* Counter arithmetic stays in the counter's range and is right up to one turn.
LEMMA PlusIs ==
    ASSUME NEW a \in 0 .. Wrap - 1, NEW b \in 0 .. Half
    PROVE  Plus(a, b) \in 0 .. Wrap - 1 /\ Plus(a, b) - a - b \in {0, -Wrap}
  BY TimersAssumption DEF Plus, Wrap

\* So does the difference.
LEMMA MinusIs ==
    ASSUME NEW a \in 0 .. Wrap - 1, NEW b \in 0 .. Wrap - 1
    PROVE  Minus(a, b) \in 0 .. Wrap - 1 /\ Minus(a, b) - a + b \in {0, Wrap}
  BY TimersAssumption DEF Minus, Wrap

\* A timer is taken for due exactly when its time had come at the poll's beginning, and the older of
\* two such timers for the later one.
LEMMA DueIsOverdue ==
    ASSUME IInv, depth > 0, NEW i \in Slots
    PROVE  /\ Due(i) <=> Overdue(i)
           /\ Due(i) => Late(i) = 0 - timers[i].left - polls[depth].age
<1>1. /\ timers[i].due \in 0 .. Wrap - 1 /\ timers[i].left \in 1 - Half .. MaxTicks
      /\ depth \in 1 .. MaxDepth /\ depth \in 1 .. depth
      /\ polls[depth].now \in 0 .. Wrap - 1 /\ polls[depth].age \in 0 .. Half - MaxTicks
      /\ clock \in 0 .. Wrap - 1
  BY TimersAssumption, SMTT(30) DEF IInv, TypeOK, Entries, Locals
<1>2. CASE timers[i].used
  <2>1. timers[i].due - clock - timers[i].left \in {0, Wrap, -Wrap}
    BY <1>2 DEF IInv, Tracks
  <2>2. clock - polls[depth].now - polls[depth].age \in {0, -Wrap}
    BY <1>1 DEF IInv, Tracks
  <2>3. Late(i) \in 0 .. Wrap - 1 /\ Late(i) - polls[depth].now + timers[i].due \in {0, Wrap}
    BY <1>1, MinusIs DEF Late
  <2>4. Wrap = 2 * Half /\ Half \in Nat /\ MaxTicks \in 1 .. Half - 1
    BY TimersAssumption DEF Wrap
  <2>5. Late(i) < Half <=> timers[i].left + polls[depth].age <= 0
    BY <1>1, <2>1, <2>2, <2>3, <2>4
  <2>6. Late(i) < Half => Late(i) = 0 - timers[i].left - polls[depth].age
    BY <1>1, <2>1, <2>2, <2>3, <2>4
  <2> QED
    BY <1>2, <2>5, <2>6 DEF Due, Overdue
<1>3. CASE ~timers[i].used
  BY <1>3 DEF Due, Overdue
<1> QED
  BY <1>2, <1>3

-----------------------------------------------------------------------------
(* The inductive invariant *)

\* An empty table is in order.
LEMMA InitHolds == Init => IInv
<1> SUFFICES ASSUME Init PROVE IInv
  OBVIOUS
<1>1. Free \in Entries /\ ~Free.used /\ NoPoll \in Locals
  BY Ranges DEF Free, Entries, NoPoll, Locals
<1>2. TypeOK
  BY <1>1, Ranges DEF Init, TypeOK
<1>3. Tracks
  BY <1>1 DEF Init, Tracks
<1> QED
  BY <1>2, <1>3 DEF IInv

\* A table changed in one slot only, the new timer in its place.
LEMMA SlotHolds ==
    ASSUME IInv, NEW i \in Slots, NEW t,
           t = Free \/ ( /\ t.used
                         /\ t \in Entries
                         /\ t.due - clock - t.left \in {0, Wrap, -Wrap}),
           timers' = [timers EXCEPT ![i] = t], UNCHANGED <<clock, depth, polls>>,
           control' \in {"program", "poll"} /\ (control' = "poll" => depth > 0)
    PROVE  IInv'
<1>1. Free \in Entries /\ ~Free.used
  BY Ranges DEF Free, Entries
<1>2. TypeOK'
  BY <1>1 DEF IInv, TypeOK, Entries, Locals
<1>3. Tracks'
  BY <1>1 DEF IInv, TypeOK, Entries, Locals, Tracks
<1> QED
  BY <1>2, <1>3 DEF IInv

\* A timer that is set is due so many cycles from now.
LEMMA AddHolds ==
    ASSUME IInv, NEW ticks \in 0 .. MaxTicks, NEW period \in 0 .. MaxTicks, AddTask(ticks, period)
    PROVE  IInv'
<1>1. PICK i \in Slots : timers' = [timers EXCEPT ![i] = Timer(Plus(clock, ticks), period, ticks)]
  BY DEF AddTask
<1>2. PICK due : due = Plus(clock, ticks)
  OBVIOUS
<1>3. due \in 0 .. Wrap - 1 /\ due - clock - ticks \in {0, -Wrap}
  BY <1>2, PlusIs, OfControl, Ranges
<1>4. PICK t : t = Timer(due, period, ticks)
  OBVIOUS
<1>5. /\ t.used /\ t.due = due /\ t.left = ticks
      /\ t \in Entries
  BY <1>3, <1>4, EntryType, Ranges
<1> QED
  BY <1>1, <1>2, <1>3, <1>4, <1>5, SlotHolds DEF AddTask, IInv, TypeOK

\* A repeating timer that was due is due again a period later.
LEMMA RunHolds ==
    ASSUME IInv, RunOldest
    PROVE  IInv'
<1>1. PICK i \in Slots : IsOldest(i) /\ timers' = [timers EXCEPT ![i] = Ran(timers[i])]
  BY DEF RunOldest
<1>2. control = "poll" /\ depth \in 1 .. MaxDepth /\ UNCHANGED <<clock, depth, polls>> /\ control' = "program"
  BY TimersAssumption DEF RunOldest, IInv, TypeOK
<1>3. Overdue(i)
  BY <1>1, <1>2, DueIsOverdue DEF IsOldest
<1>4. PICK p, s, l : p = timers[i].period /\ s = timers[i].due /\ l = timers[i].left
  OBVIOUS
<1>5. /\ timers[i].used /\ l <= 0 /\ l \in 1 - Half .. MaxTicks
      /\ p \in 0 .. MaxTicks /\ s \in 0 .. Wrap - 1
      /\ s - clock - l \in {0, Wrap, -Wrap} /\ clock \in 0 .. Wrap - 1
  <2>1. polls[depth].age \in 0 .. Half - MaxTicks
    BY <1>2, OfPoll
  <2>2. timers[i].left + polls[depth].age <= 0 /\ timers[i].used
    BY <1>3 DEF Overdue
  <2> QED
    BY <1>4, <2>1, <2>2, OfTimer, OfControl, Ranges
<1>6. CASE p = 0
  BY <1>1, <1>2, <1>4, <1>6, SlotHolds DEF Ran
<1>7. CASE p # 0
  <2>1. PICK due : due = Plus(s, p)
    OBVIOUS
  <2>2. due \in 0 .. Wrap - 1 /\ due - s - p \in {0, -Wrap}
    BY <1>5, <2>1, PlusIs, TimersAssumption
  <2>3. PICK t : t = Timer(due, p, l + p)
    OBVIOUS
  <2>4. /\ t.used /\ t.due = due /\ t.left = l + p
        /\ t \in Entries
    <3>1. l + p \in 1 - Half .. MaxTicks
      BY <1>5, Ranges
    <3> QED
      BY <1>5, <2>2, <2>3, <3>1, EntryType
  <2>5. t.due - clock - t.left \in {0, Wrap, -Wrap}
    BY <1>5, <2>2, <2>4, TimersAssumption DEF Wrap
  <2> QED
    BY <1>1, <1>2, <1>4, <1>7, <2>1, <2>3, <2>4, <2>5, SlotHolds DEF Ran
<1> QED
  BY <1>6, <1>7

\* One cycle on, a deadline is one cycle nearer, also when the counter wraps meanwhile.
LEMMA Nearer ==
    ASSUME NEW due \in 0 .. Wrap - 1, NEW c \in 0 .. Wrap - 1, NEW n \in 0 .. Wrap - 1,
           NEW left \in 1 - Half .. MaxTicks, left > 1 - Half,
           due - c - left \in {0, Wrap, -Wrap}, n - c - 1 \in {0, -Wrap}
    PROVE  due - n - (left - 1) \in {0, Wrap, -Wrap}
<1>1. n = c + 1 \/ (n = 0 /\ c = Wrap - 1)
  BY Ranges
<1> QED
  BY <1>1, Ranges

\* And a moment that has been read is one cycle further back.
LEMMA Further ==
    ASSUME NEW now \in 0 .. Wrap - 1, NEW c \in 0 .. Wrap - 1, NEW n \in 0 .. Wrap - 1,
           NEW age \in 0 .. Half, age + 1 <= Half,
           c - now - age \in {0, -Wrap}, n - c - 1 \in {0, -Wrap}
    PROVE  n - now - (age + 1) \in {0, -Wrap}
<1>1. n = c + 1 \/ (n = 0 /\ c = Wrap - 1)
  BY Ranges
<1> QED
  BY <1>1, Ranges

\* The counter goes on, and every true distance with it.
LEMMA TickHolds ==
    ASSUME IInv, Tick
    PROVE  IInv'
<1>1. clock' \in 0 .. Wrap - 1 /\ clock' - clock - 1 \in {0, -Wrap}
  BY SMTT(30), PlusIs, OfControl, Ranges DEF Tick
<1>2. \A i \in Slots : timers'[i] = IF timers[i].used THEN [timers[i] EXCEPT !.left = @ - 1] ELSE timers[i]
  BY DEF Tick
<1>3. \A i \in Slots : timers[i].used => timers[i].left > 1 - Half
  BY DEF Tick, Attended
<1>4. timers' \in [Slots -> Entries]
  <2>1. ASSUME NEW i \in Slots
        PROVE  timers'[i] \in Entries
    <3>1. timers[i].used => timers[i].left - 1 \in 1 - Half .. MaxTicks
      BY <1>3, OfTimer, Ranges
    <3> QED
      BY <1>2, <3>1, OfTimer DEF Entries
  <2> QED
    BY <2>1 DEF Tick
<1>5. \A d \in 1 .. MaxDepth : polls'[d] = IF d <= depth THEN [polls[d] EXCEPT !.age = @ + 1] ELSE polls[d]
  BY DEF Tick
<1>6. \A d \in 1 .. depth : polls[d].age + 1 <= Half - MaxTicks
  <2>1. \A d \in 1 .. depth : polls[d].age + 1 + MaxTicks <= Half /\ d \in 1 .. MaxDepth
    BY OfControl, Ranges DEF Tick, Attended
  <2> QED
    BY <2>1, OfPoll, Ranges
<1>7. polls' \in [1 .. MaxDepth -> Locals]
  <2>1. ASSUME NEW d \in 1 .. MaxDepth
        PROVE  polls'[d] \in Locals
    <3>1. polls[d] \in Locals
      BY DEF IInv, TypeOK, Entries, Locals
    <3>2. CASE d <= depth
      <4>1. polls[d].age + 1 \in 0 .. Half - MaxTicks
        <5>1. d \in 1 .. depth
          BY <3>2, OfControl, Ranges
        <5> QED
          BY <1>6, <5>1, OfPoll, Ranges
      <4> QED
        BY <1>5, <3>1, <3>2, <4>1 DEF Locals
    <3>3. CASE ~(d <= depth)
      BY <1>5, <3>1, <3>3
    <3> QED
      BY <3>2, <3>3
  <2> QED
    BY <2>1 DEF Tick
<1>8. \A i \in Slots : timers'[i].used => timers'[i].due - clock' - timers'[i].left \in {0, Wrap, -Wrap}
  <2> SUFFICES ASSUME NEW i \in Slots, timers'[i].used
               PROVE  timers'[i].due - clock' - timers'[i].left \in {0, Wrap, -Wrap}
    OBVIOUS
  <2>1. timers[i].used /\ timers'[i].due = timers[i].due /\ timers'[i].left = timers[i].left - 1
    BY <1>2 DEF IInv, TypeOK, Entries, Locals
  <2>2. timers[i].due - clock - timers[i].left \in {0, Wrap, -Wrap}
    BY <2>1 DEF IInv, Tracks
  <2>3. timers[i].due \in 0 .. Wrap - 1 /\ timers[i].left \in 1 - Half .. MaxTicks /\ clock \in 0 .. Wrap - 1
    BY DEF IInv, TypeOK, Entries, Locals
  <2> QED
    <3>1. PICK due, c, n, left : due = timers[i].due /\ c = clock /\ n = clock' /\ left = timers[i].left
      OBVIOUS
    <3>2. left > 1 - Half /\ due - c - left \in {0, Wrap, -Wrap} /\ n - c - 1 \in {0, -Wrap}
      BY <1>1, <1>3, <2>1, <2>2, <3>1
    <3>3. due \in 0 .. Wrap - 1 /\ c \in 0 .. Wrap - 1 /\ n \in 0 .. Wrap - 1 /\ left \in 1 - Half .. MaxTicks
      BY <1>1, <2>3, <3>1
    <3>4. due - n - (left - 1) \in {0, Wrap, -Wrap}
      BY <3>2, <3>3, Nearer
    <3> QED
      BY <2>1, <3>1, <3>4
<1>9. \A d \in 1 .. depth : clock' - polls'[d].now - polls'[d].age \in {0, -Wrap}
  <2> SUFFICES ASSUME NEW d \in 1 .. depth PROVE clock' - polls'[d].now - polls'[d].age \in {0, -Wrap}
    OBVIOUS
  <2>1. d \in 1 .. MaxDepth /\ d <= depth
    BY OfControl, Ranges
  <2>4. polls'[d].now = polls[d].now /\ polls'[d].age = polls[d].age + 1
    BY <1>5, <2>1, OfPoll DEF Locals
  <2>2. clock - polls[d].now - polls[d].age \in {0, -Wrap}
    BY DEF IInv, Tracks
  <2>3. polls[d].now \in 0 .. Wrap - 1 /\ polls[d].age \in 0 .. Half - MaxTicks /\ clock \in 0 .. Wrap - 1
    BY <2>1 DEF IInv, TypeOK, Entries, Locals
  <2> QED
    <3>1. PICK now, c, n, age : now = polls[d].now /\ c = clock /\ n = clock' /\ age = polls[d].age
      OBVIOUS
    <3>2. age + 1 <= Half - MaxTicks /\ c - now - age \in {0, -Wrap} /\ n - c - 1 \in {0, -Wrap}
      BY <1>1, <1>6, <2>2, <3>1
    <3>3. now \in 0 .. Wrap - 1 /\ c \in 0 .. Wrap - 1 /\ n \in 0 .. Wrap - 1 /\ age \in 0 .. Half - MaxTicks
      BY <1>1, <2>3, <3>1
    <3>4. age \in 0 .. Half /\ age + 1 <= Half
      BY <3>2, <3>3, Ranges
    <3>5. n - now - (age + 1) \in {0, -Wrap}
      BY <3>2, <3>3, <3>4, Further
    <3> QED
      BY <2>4, <3>1, <3>5
<1>10. UNCHANGED <<depth, control>>
  BY DEF Tick
<1> QED
  BY <1>1, <1>4, <1>7, <1>8, <1>9, <1>10 DEF IInv, TypeOK, Entries, Locals, Tracks

\* The innermost poll's locals come, count and go.
LEMMA PollHolds ==
    ASSUME IInv, UNCHANGED <<clock, timers>>, control' \in {"program", "poll"},
           \/ /\ depth < MaxDepth /\ depth' = depth + 1
              /\ polls' = [polls EXCEPT ![depth + 1] = Poll(clock, 0, 0)]
           \/ depth > 0 /\ PollEnds /\ control' = "program"
           \/ /\ depth > 0 /\ depth' = depth /\ polls[depth].ran + 1 < MaxRuns
              /\ polls' = [polls EXCEPT ![depth].ran = @ + 1]
    PROVE  IInv'
<1>1. depth \in 0 .. MaxDepth /\ MaxDepth \in Nat /\ MaxRuns \in Nat /\ MaxRuns > 0
  BY TimersAssumption, SMTT(30) DEF IInv, TypeOK, Entries, Locals, MaxRuns
<1>2. CASE /\ depth < MaxDepth /\ depth' = depth + 1
           /\ polls' = [polls EXCEPT ![depth + 1] = Poll(clock, 0, 0)]
  <2>1. Poll(clock, 0, 0) \in Locals
    BY <1>1, OfControl, Ranges DEF Poll, Locals
  <2>2. TypeOK'
    BY <1>1, <1>2, <2>1 DEF IInv, TypeOK, Entries, Locals
  <2>3. \A d \in 1 .. depth' : d \in 1 .. depth \/ d = depth + 1
    BY <1>1, <1>2
  <2>4. polls'[depth + 1] = Poll(clock, 0, 0) /\ \A d \in 1 .. depth : polls'[d] = polls[d]
    BY <1>1, <1>2 DEF IInv, TypeOK, Entries, Locals
  <2>5. clock - Poll(clock, 0, 0).now - Poll(clock, 0, 0).age = 0
    BY TimersAssumption DEF Poll, IInv, TypeOK, Wrap
  <2>6. Tracks'
    BY <2>3, <2>4, <2>5 DEF IInv, Tracks
  <2> QED
    BY <2>2, <2>6 DEF IInv
<1>3. CASE depth > 0 /\ PollEnds /\ control' = "program"
  <2>1. NoPoll \in Locals
    BY <1>1, Ranges DEF NoPoll, Locals
  <2>2. TypeOK'
    BY <1>1, <1>3, <2>1, SMTT(30) DEF IInv, TypeOK, Entries, Locals, PollEnds
  <2>3. \A d \in 1 .. depth' : d \in 1 .. depth /\ polls'[d] = polls[d]
    BY <1>1, <1>3 DEF IInv, TypeOK, Entries, Locals, PollEnds
  <2>4. Tracks'
    BY <2>3 DEF IInv, Tracks
  <2> QED
    BY <2>2, <2>4 DEF IInv
<1>4. CASE /\ depth > 0 /\ depth' = depth /\ polls[depth].ran + 1 < MaxRuns
           /\ polls' = [polls EXCEPT ![depth].ran = @ + 1]
  <2>1. polls[depth].ran + 1 \in 0 .. MaxRuns - 1
    BY <1>1, <1>4 DEF IInv, TypeOK, Entries, Locals
  <2>2. TypeOK'
    BY <1>1, <1>4, <2>1 DEF IInv, TypeOK, Entries, Locals
  <2>3. \A d \in 1 .. depth : polls'[d].now = polls[d].now /\ polls'[d].age = polls[d].age
    BY <1>1, <1>4 DEF IInv, TypeOK, Entries, Locals
  <2>4. Tracks'
    BY <1>4, <2>3 DEF IInv, Tracks
  <2> QED
    BY <2>2, <2>4 DEF IInv
<1> QED
  BY <1>2, <1>3, <1>4

\* Every step keeps the invariant.
LEMMA StepHolds == IInv /\ [Next]_vars => IInv'
<1> SUFFICES ASSUME IInv, [Next]_vars PROVE IInv'
  OBVIOUS
<1> DEFINE Goal == IInv'
<1> SUFFICES Goal
  OBVIOUS
<1>1. ASSUME NEW ticks \in 0 .. MaxTicks, After(ticks) \/ Every(ticks) PROVE Goal
  <2>1. PeriodOf(ticks) \in 0 .. MaxTicks /\ 0 \in 0 .. MaxTicks
    BY TimersAssumption DEF PeriodOf
  <2> QED
    BY <1>1, <2>1, AddHolds DEF After, Every
<1>2. ASSUME NEW i \in Slots, Cancel(i) PROVE Goal
  BY <1>2, SlotHolds DEF Cancel, IInv, TypeOK
<1>3. CASE Begin
  BY <1>3, PollHolds DEF Begin
<1>4. CASE RunOldest
  BY <1>4, RunHolds
<1>5. CASE CallbackReturns
  <2>1. polls[depth].ran + 1 < MaxRuns \/ polls[depth].ran + 1 >= MaxRuns
    BY <1>5, OfPoll, OfControl, Ranges DEF CallbackReturns
  <2> QED
    BY <1>5, <2>1, PollHolds DEF CallbackReturns
<1>6. CASE NoneDue
  BY <1>6, PollHolds DEF NoneDue, IInv, TypeOK
<1>7. CASE Tick
  BY <1>7, TickHolds
<1>8. CASE UNCHANGED vars
  BY <1>8 DEF vars, IInv, TypeOK, Tracks
<1> QED
  BY <1>1, <1>2, <1>3, <1>4, <1>5, <1>6, <1>7, <1>8 DEF Next

\* The wrapped deadlines and counts stand for the true ones at every instant.
THEOREM TimersInvariant == Spec => []IInv
<1>1. Init => IInv
  BY InitHolds
<1>2. IInv /\ [Next]_vars => IInv'
  BY StepHolds
<1> QED
  BY <1>1, <1>2, PTL DEF Spec

-----------------------------------------------------------------------------
(* What a poll does *)

\* The timer a step of a poll runs is overdue, and none is longer overdue.
LEMMA RunsOldest ==
    ASSUME IInv, [Next]_vars, NEW i \in Slots, control = "poll", timers'[i] # timers[i], UNCHANGED clock
    PROVE  Overdue(i) /\ \A j \in Slots : Overdue(j) => timers[i].left <= timers[j].left
<1>1. ~Tick
  <2>1. Tick => clock' # clock
    BY SMTT(30), TimersAssumption DEF Tick, Plus, Wrap, IInv, TypeOK
  <2> QED
    BY <2>1
<1>2. RunOldest
  BY <1>1 DEF Next, vars, After, Every, AddTask, Cancel, Begin, CallbackReturns, NoneDue
<1>3. PICK k \in Slots : IsOldest(k) /\ timers' = [timers EXCEPT ![k] = Ran(timers[k])]
  BY <1>2 DEF RunOldest
<1>4. i = k
  BY <1>3 DEF IInv, TypeOK, Entries, Locals
<1>5. depth \in 1 .. MaxDepth
  BY TimersAssumption DEF IInv, TypeOK, Entries, Locals
<1>6. Overdue(i) /\ Late(i) = 0 - timers[i].left - polls[depth].age
  BY <1>3, <1>4, <1>5, DueIsOverdue DEF IsOldest
<1>7. ASSUME NEW j \in Slots, Overdue(j) PROVE timers[i].left <= timers[j].left
  <2>1. Due(j) /\ Late(j) = 0 - timers[j].left - polls[depth].age
    BY <1>5, <1>7, DueIsOverdue
  <2>2. Late(j) < Late(i) \/ Late(j) = Late(i)
    BY <1>3, <1>4, <2>1 DEF IsOldest
  <2>3. /\ timers[i].left \in Int /\ timers[j].left \in Int
        /\ polls[depth].age \in Int
    BY <1>5, OfTimer, OfPoll, Ranges
  <2> QED
    BY <1>6, <2>1, <2>2, <2>3
<1> QED
  BY <1>6, <1>7

\* timer_poll runs nothing before its time and, of what is due, always what has waited longest: the
\* unsigned differences decide as the true instants would.
THEOREM TimersRunInOrder == Spec => RunsInOrder
<1>1. IInv /\ [Next]_vars =>
        [ \A i \in Slots :
            control = "poll" /\ timers'[i] # timers[i] /\ UNCHANGED clock =>
                /\ Overdue(i)
                /\ \A j \in Slots : Overdue(j) => timers[i].left <= timers[j].left ]_vars
  BY RunsOldest
<1> QED
  BY <1>1, TimersInvariant, PTL DEF Spec, RunsInOrder

\* A poll that stops on its own leaves nothing that was due when it began.
LEMMA StopsWhenDone ==
    ASSUME IInv, [Next]_vars, control = "poll", depth' < depth, NEW i \in Slots
    PROVE  ~Overdue(i)
<1>1. depth \in 1 .. MaxDepth /\ ~(depth < depth) /\ ~(depth + 1 < depth)
  BY TimersAssumption DEF IInv, TypeOK, Entries, Locals
<1>2. NoneDue
  BY <1>1 DEF Next, vars, After, Every, AddTask, Cancel, Begin, RunOldest, CallbackReturns, Tick
<1> QED
  BY <1>1, <1>2, DueIsOverdue DEF NoneDue

\* timer_poll runs every timer whose time has come, unless it reaches its limit of runs.
THEOREM PollsRunEverything == Spec => PollsAreThorough
<1>1. IInv /\ [Next]_vars =>
        [ control = "poll" /\ depth' < depth => \A i \in Slots : ~Overdue(i) ]_vars
  BY StopsWhenDone
<1> QED
  BY <1>1, TimersInvariant, PTL DEF Spec, PollsAreThorough
=============================================================================
