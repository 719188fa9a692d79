----------------------------- MODULE SoftTimers -----------------------------
(***************************************************************************)
(* Software timers: the task table of src/ceres/timer.c, which timer_poll  *)
(* looks through, and the callbacks it runs, which may add and cancel      *)
(* timers and poll in their turn.                                          *)
(*                                                                         *)
(* The cycle counter and the deadlines wrap.  "left" and "age" are not in  *)
(* the code: they are the true distances in cycles that the wrapped        *)
(* numbers stand for, kept to say what the code should do.                 *)
(***************************************************************************)
EXTENDS Integers

CONSTANTS MaxTasks,    \* TIMER_MAX_TASKS
          Half,        \* half the range of the cycle counter: 2^31 in the code
          MaxTicks,    \* the longest timer the program sets
          MaxDepth     \* bound: how deep polls are nested

Wrap == 2 * Half

ASSUME TimersAssumption ==
    /\ MaxTasks \in Nat \ {0} /\ MaxDepth \in Nat \ {0}
    /\ Half \in Nat /\ MaxTicks \in 1 .. Half - 1

VARIABLES clock,       \* the low word of the cycle counter
          timers,      \* the table
          depth,       \* how many timer_polls are under way
          polls,       \* their locals, the outermost first
          control      \* who runs: the "program" (a callback when depth > 0), or the last "poll"

vars == <<clock, timers, depth, polls, control>>

Slots == 0 .. MaxTasks - 1
MaxRuns == 4 * MaxTasks

Timer(due, period, left) == [used |-> TRUE, due |-> due, period |-> period, left |-> left]
Free == [used |-> FALSE, due |-> 0, period |-> 0, left |-> 0]
NoPoll == [now |-> 0, ran |-> 0, age |-> 0]
Poll(now, ran, age) == [now |-> now, ran |-> ran, age |-> age]

\* Unsigned arithmetic.
Plus(a, b) == IF a + b < Wrap THEN a + b ELSE a + b - Wrap
Minus(a, b) == IF a >= b THEN a - b ELSE a - b + Wrap

Init == /\ clock \in 0 .. Wrap - 1
        /\ timers = [i \in Slots |-> Free]
        /\ depth = 0 /\ polls = [d \in 1 .. MaxDepth |-> NoPoll]
        /\ control = "program"

-----------------------------------------------------------------------------
(* Adding and cancelling *)

IsLowestFree(i) == ~timers[i].used /\ \A j \in Slots : j < i => timers[j].used

\* add_task with a callback; when the table is full it answers -1 and nothing changes.
AddTask(ticks, period) ==
    /\ control = "program"
    /\ \E i \in Slots :
          /\ IsLowestFree(i)
          /\ timers' = [timers EXCEPT ![i] = Timer(Plus(clock, ticks), period, ticks)]
    /\ UNCHANGED <<clock, depth, polls, control>>

After(ticks) == AddTask(ticks, 0)

\* A zero period would be due for ever.
PeriodOf(ticks) == IF ticks = 0 THEN 1 ELSE ticks
Every(ticks) == AddTask(PeriodOf(ticks), PeriodOf(ticks))

Cancel(i) ==
    /\ control = "program"
    /\ timers' = [timers EXCEPT ![i] = Free]
    /\ UNCHANGED <<clock, depth, polls, control>>

-----------------------------------------------------------------------------
(* timer_poll *)

Late(i) == Minus(polls[depth].now, timers[i].due)
DueUnsigned(i) == timers[i].used /\ polls[depth].now >= timers[i].due
Due(i) == timers[i].used /\ Late(i) < Half
IsFirstDue(i) == Due(i) /\ \A j \in Slots : Due(j) => i <= j
IsOldest(i) == Due(i) /\ \A j \in Slots : Due(j) => Late(j) < Late(i) \/ (Late(j) = Late(i) /\ i <= j)

\* It reads the clock once, at its start.
Begin ==
    /\ control = "program" /\ depth < MaxDepth
    /\ depth' = depth + 1
    /\ polls' = [polls EXCEPT ![depth + 1] = Poll(clock, 0, 0)]
    /\ control' = "poll"
    /\ UNCHANGED <<clock, timers>>

\* A timer that has run: due again one period after it was due, or free before its callback begins.
RanFromNow(t) == IF t.period = 0 THEN Free ELSE Timer(Plus(clock, t.period), t.period, t.left + t.period)
Ran(t) == IF t.period = 0 THEN Free ELSE Timer(Plus(t.due, t.period), t.period, t.left + t.period)

RunOldest ==
    /\ control = "poll"
    /\ \E i \in Slots : IsOldest(i) /\ timers' = [timers EXCEPT ![i] = Ran(timers[i])]
    /\ control' = "program"
    /\ UNCHANGED <<clock, depth, polls>>

PollEnds == depth' = depth - 1 /\ polls' = [polls EXCEPT ![depth] = NoPoll]

\* The callback returns.  A poll runs so many, and no more.
CallbackReturns ==
    /\ control = "program" /\ depth > 0
    /\ IF polls[depth].ran + 1 >= MaxRuns
       THEN PollEnds /\ UNCHANGED control
       ELSE /\ polls' = [polls EXCEPT ![depth].ran = @ + 1]
            /\ control' = "poll" /\ UNCHANGED depth
    /\ UNCHANGED <<clock, timers>>

NoneDue ==
    /\ control = "poll"
    /\ \A i \in Slots : ~Due(i)
    /\ PollEnds /\ control' = "program"
    /\ UNCHANGED <<clock, timers>>

-----------------------------------------------------------------------------
(* Time *)

\* The program polls often enough: no timer is overdue, and no poll lasts, as long as half the
\* counter's range less the longest timer.
Attended ==
    /\ \A i \in Slots : timers[i].used => timers[i].left > 1 - Half
    /\ \A d \in 1 .. depth : polls[d].age + 1 + MaxTicks <= Half

Tick ==
    /\ Attended
    /\ clock' = Plus(clock, 1)
    /\ timers' = [i \in Slots |-> IF timers[i].used THEN [timers[i] EXCEPT !.left = @ - 1] ELSE timers[i]]
    /\ polls' = [d \in 1 .. MaxDepth |-> IF d <= depth THEN [polls[d] EXCEPT !.age = @ + 1] ELSE polls[d]]
    /\ UNCHANGED <<depth, control>>

Next == \/ \E ticks \in 0 .. MaxTicks : After(ticks) \/ Every(ticks)
        \/ \E i \in Slots : Cancel(i)
        \/ Begin \/ RunOldest \/ CallbackReturns \/ NoneDue
        \/ Tick

\* The main loop keeps calling timer_poll, the clock goes on, and a callback returns, though it may
\* poll many times before that.
Fairness == /\ WF_vars(depth = 0 /\ Begin) /\ WF_vars(RunOldest) /\ WF_vars(NoneDue)
            /\ WF_vars(Tick)
            /\ \A d \in 1 .. MaxDepth : SF_vars(depth = d /\ CallbackReturns)

Spec == Init /\ [][Next]_vars
FairSpec == Spec /\ Fairness

-----------------------------------------------------------------------------
(* What the timers promise *)

Entries == [used : BOOLEAN, due : 0 .. Wrap - 1, period : 0 .. MaxTicks, left : 1 - Half .. MaxTicks]
Locals == [now : 0 .. Wrap - 1, ran : 0 .. MaxRuns - 1, age : 0 .. Half - MaxTicks]

TypeOK ==
    /\ clock \in 0 .. Wrap - 1
    /\ timers \in [Slots -> Entries]
    /\ depth \in 0 .. MaxDepth
    /\ polls \in [1 .. MaxDepth -> Locals]
    /\ control \in {"program", "poll"} /\ (control = "poll" => depth > 0)

\* The wrapped numbers are where the true ones are, give or take a turn of the counter.
Tracks ==
    /\ \A i \in Slots : timers[i].used => timers[i].due - clock - timers[i].left \in {0, Wrap, -Wrap}
    /\ \A d \in 1 .. depth : clock - polls[d].now - polls[d].age \in {0, -Wrap}

IInv == TypeOK /\ Tracks

\* What the running poll should run: the timers whose time had come when it began.
Overdue(i) == timers[i].used /\ timers[i].left + polls[depth].age <= 0

\* "every task whose time has come runs, in the order they fell due" (timer.h:81), and no other.
RunsInOrder ==
    [][ \A i \in Slots :
          control = "poll" /\ timers'[i] # timers[i] /\ UNCHANGED clock =>
              /\ Overdue(i)
              /\ \A j \in Slots : Overdue(j) => timers[i].left <= timers[j].left ]_vars

\* A poll that comes back before its limit of runs leaves no timer behind whose time had come when it
\* began, whatever its callbacks added, cancelled and polled.
PollsAreThorough ==
    [][ control = "poll" /\ depth' < depth => \A i \in Slots : ~Overdue(i) ]_vars

\* A one-shot timer does not wait for ever, however busy the repeating ones are: it runs, or is cancelled.
OneShotsRun == \A i \in Slots : timers[i].used /\ timers[i].period = 0 ~> ~timers[i].used
=============================================================================
