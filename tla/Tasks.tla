------------------------------- MODULE Tasks --------------------------------
(***************************************************************************)
(* The cooperative tasks and channels of src/ceres/task.c.                 *)
(*                                                                         *)
(* A task runs until it calls something that switches, so a library call   *)
(* is atomic up to the switch.  The places where it is not are steps of    *)
(* their own, told apart by "phase": the running task is in its own code   *)
(* or at the top of a call's loop ("run"), inside schedule() ("sched"), or *)
(* has just come out of __task_switch ("switched").                        *)
(***************************************************************************)
EXTENDS Integers, Sequences, FiniteSets

-----------------------------------------------------------------------------
(* The ring buffer inside a channel: struct chan of include/ceres/task.h   *)
(* and what the chan_ functions do to it.  Only data: who waits on a       *)
(* channel, and who is woken, comes after it.                              *)

CONSTANTS Msgs,        \* the messages a program sends
          NoMsg,       \* what a slot of a fresh buffer holds
          Capacities   \* the capacities a program gives to chan_init

ASSUME ChanAssumption ==
    /\ Capacities \subseteq Nat \ {0}      \* chan_init refuses 0
    /\ NoMsg \notin Msgs

NullBuf == <<>>                            \* c->buf == NULL

\* A structure cleared by memset: what a chan_init that found no memory leaves.
ZeroRing == [cap |-> 0, buf |-> NullBuf, head |-> 0, count |-> 0, closed |-> FALSE]

\* The values of struct chan, elem_size apart: a message is one element.
LiveRing == UNION { [ cap    : {n},
                      buf    : [0 .. n - 1 -> Msgs \cup {NoMsg}],
                      head   : 0 .. n - 1,
                      count  : 0 .. n,
                      closed : BOOLEAN ] : n \in Capacities }
DeadRing == [cap : Capacities \cup {0}, buf : {NullBuf}, head : {0}, count : {0}, closed : {TRUE}]
Ring == LiveRing \cup DeadRing \cup {ZeroRing}

\* chan_init that succeeds: the structure cleared, a buffer of n elements.
NewRing(n) == [ cap    |-> n,
                buf    |-> [k \in 0 .. n - 1 |-> NoMsg],
                head   |-> 0,
                count  |-> 0,
                closed |-> FALSE ]

\* chan_free: no buffer, nothing left to receive, closed.
FreedRing(c) == [c EXCEPT !.buf = NullBuf, !.count = 0, !.head = 0, !.closed = TRUE]

\* chan_close
ClosedRing(c) == [c EXCEPT !.closed = TRUE]

\* The part of chan_try_send that stores the message.
PutAtCount(c, m) == [c EXCEPT !.buf[c.count] = m, !.count = @ + 1]
Put(c, m) == [c EXCEPT !.buf[(c.head + c.count) % c.cap] = m, !.count = @ + 1]

\* The part of chan_try_recv that takes the oldest one.
Front(c) == c.buf[c.head]
TakenUnwrapped(c) == [c EXCEPT !.head = @ + 1, !.count = @ - 1]
Taken(c) == [c EXCEPT !.head = (@ + 1) % c.cap, !.count = @ - 1]

\* The messages queued, oldest first: what the ring stands for.
Contents(c) == [k \in 1 .. c.count |-> c.buf[(c.head + k - 1) % c.cap]]

-----------------------------------------------------------------------------
(* Tasks *)

CONSTANTS TaskMax,     \* TASK_MAX
          IdMod,       \* ids are taken modulo this: 2^31 in the code
          TimeMod,     \* the clock's width: 2^64 in the code
          Chans,       \* the program's channels
          Naps,        \* the ns a program passes to task_sleep_ns
          Blocks,      \* the addresses malloc may give a stack
          Tops,        \* the addresses the heap's top may be at
          MaxGen,      \* bound: how many tasks one slot sees
          MaxTime,     \* bound: the last instant of the clock
          Null

Slots == 0 .. TaskMax - 1
Main == 0
Forever == TimeMod - 1           \* ~0ull, schedule's "no sleeper"
Ids == 0 .. IdMod - 1

ASSUME TasksAssumption ==
    /\ TaskMax \in Nat \ {0, 1}
    /\ IdMod \in Nat /\ IdMod >= TaskMax
    /\ TimeMod \in Nat /\ MaxTime \in 0 .. TimeMod - 2
    /\ MaxGen \in Nat
    /\ Naps \subseteq 0 .. TimeMod - 1
    /\ Blocks \subseteq Nat /\ Tops \subseteq Nat /\ Null \notin Blocks
    /\ \A b \in Blocks : \E t \in Tops : b < t
    /\ Null \notin Chans /\ Null \notin Slots
    /\ Chans \cap Slots = {}     \* a task and a channel are different objects to wait on

VARIABLES
    state, generation, deadlocked, waitingOn, wakeAt, stack,   \* struct task, by slot
    current, started, alive, toFree, mainLimit,                \* the statics
    phase,
    op,          \* the call each task is in
    ret,         \* what the last step returned to the running task
    chan,        \* struct chan, by channel
    now,         \* the machine's clock
    limit,       \* the machine's stack limit register
    heapTop, allocated    \* the heap: its top, the blocks in use

taskVars == <<state, generation, deadlocked, waitingOn, wakeAt, stack>>
heapVars == <<heapTop, allocated, mainLimit, limit>>
vars == <<taskVars, current, started, alive, toFree, phase, op, ret, chan, now, heapVars>>

States == {"FREE", "READY", "SLEEPING", "WAITING", "DONE"}
Objects == Slots \cup Chans

Idle == [call |-> "none"]
Entry == [call |-> "entry"]      \* its first switch lands in task_start
Yielding == [call |-> "yield"]
Sleeping(t) == [call |-> "sleep", until |-> t]      \* t: an instant, not taken modulo TimeMod
Joining(id) == [call |-> "join", id |-> id]
Sending(c, m, block) == [call |-> "send", chan |-> c, msg |-> m, block |-> block]
Receiving(c, block) == [call |-> "recv", chan |-> c, block |-> block]

Ops == {Idle, Entry, Yielding}
       \cup {Sleeping(t) : t \in 0 .. MaxTime + TimeMod}
       \cup {Joining(id) : id \in Ids}
       \cup {Sending(c, m, b) : c \in Chans, m \in Msgs, b \in BOOLEAN}
       \cup {Receiving(c, b) : c \in Chans, b \in BOOLEAN}

Reply(call, c, code, m) == [call |-> call, chan |-> c, code |-> code, msg |-> m]
Silent == Reply("none", Null, "none", NoMsg)
Calls == {"none", "entry", "spawn", "yield", "sleep", "join", "send", "recv"}
Codes == {"none", "ok", "EINVAL", "EAGAIN", "ENOMEM", "ESRCH", "EDEADLK", "EPIPE"}
Replies == [call : Calls, chan : Chans \cup {Null}, code : Codes, msg : Msgs \cup {NoMsg}]

\* What operation o answers with a code; a send names its message.
Answer(o, code) == IF o.call \in {"send", "recv"}
                   THEN Reply(o.call, o.chan, code, IF o.call = "send" THEN o.msg ELSE NoMsg)
                   ELSE Reply(o.call, Null, code, NoMsg)

\* Nothing but main before the first task_ call: its state is still the zero of a static.
Init ==
    /\ state = [i \in Slots |-> "FREE"]
    /\ generation = [i \in Slots |-> 0]
    /\ deadlocked = [i \in Slots |-> FALSE]
    /\ waitingOn = [i \in Slots |-> Null]
    /\ wakeAt = [i \in Slots |-> 0]
    /\ stack = [i \in Slots |-> Null]
    /\ current = Main /\ started = FALSE /\ alive = 1
    /\ toFree = Null /\ mainLimit = 0
    /\ phase = "run" /\ op = [i \in Slots |-> Idle] /\ ret = Silent
    /\ chan \in [Chans -> {NewRing(n) : n \in Capacities}]
    /\ now = 0
    /\ heapTop \in Tops /\ limit = heapTop /\ allocated = {}

-----------------------------------------------------------------------------
(* Helpers of the code *)

IdOfSlotOnly(i) == i
IdOf(i) == (generation[i] * TaskMax + i) % IdMod

\* slot_of(id) = i, over the states s; there is none when it returns -1.
IsSlotOf(i, id, s) == i = id % TaskMax /\ generation[i] = id \div TaskMax /\ s[i] # "FREE"
TaskAlive(id) == id = 0 \/ \E i \in Slots : IsSlotOf(i, id, state) /\ state[i] # "DONE"

Lower(a, b) == IF a < b THEN a ELSE b
LimitOf(i) == IF i = Main THEN mainLimit ELSE stack[i]

\* start(): the first task_ call makes main a task.
StartedState == IF started THEN state ELSE [state EXCEPT ![Main] = "READY"]
StartedLimit == IF started THEN mainLimit ELSE limit
Start == started' = TRUE /\ mainLimit' = StartedLimit

\* A slot task_spawn may take, over the states s.
SlotNotReady(i, s) == s[i] # "READY"
SlotIsFree(i, s) == s[i] \in {"FREE", "DONE"}

\* wake(object), over the states s.
WakeNobody(obj, s) == s
Wake(obj, s) == [i \in Slots |-> IF s[i] = "WAITING" /\ waitingOn[i] = obj THEN "READY" ELSE s[i]]

Running == phase = "run" /\ op[current] = Idle
Return(o, code) == op' = [op EXCEPT ![current] = Idle] /\ ret' = Answer(o, code)

\* malloc or free may move the heap's top; the hook start() set tells the limits apart.
HeapChanges ==
    /\ heapTop' \in {top \in Tops : \A b \in allocated : b < top}
    /\ IF heapTop' = heapTop
       THEN UNCHANGED <<mainLimit, limit>>
       ELSE /\ mainLimit' = IF started THEN heapTop' ELSE mainLimit
            /\ limit' = IF ~started \/ current = Main THEN heapTop' ELSE limit
    /\ UNCHANGED allocated

\* wait_on(object), up to its schedule().
WaitOn(obj) ==
    /\ state' = [state EXCEPT ![current] = "WAITING"]
    /\ waitingOn' = [waitingOn EXCEPT ![current] = obj]
    /\ deadlocked' = [deadlocked EXCEPT ![current] = FALSE]
    /\ phase' = "sched" /\ ret' = Silent
    /\ UNCHANGED <<generation, wakeAt, stack, current, started, alive, toFree, op, chan, now, heapVars>>

-----------------------------------------------------------------------------
(* schedule(): one iteration of its loop is one step *)

\* The sleepers that are due are woken by every scan.
ScannedEarly == [i \in Slots |-> IF state[i] = "SLEEPING" /\ wakeAt[i] <= now + 1 THEN "READY" ELSE state[i]]
Scanned == [i \in Slots |-> IF state[i] = "SLEEPING" /\ wakeAt[i] <= now THEN "READY" ELSE state[i]]
Ready == {i \in Slots : Scanned[i] = "READY"}
Sleepers == {i \in Slots : Scanned[i] = "SLEEPING" /\ wakeAt[i] # Forever}

\* How far round the slots i is from the current one, which comes last.
TurnLowestFirst(i) == IF i = current THEN TaskMax ELSE i
Turn(i) == (i + TaskMax - current - 1) % TaskMax
IsFirst(n, S) == n \in S /\ \A i \in S : Turn(n) <= Turn(i)

\* schedule() returns to the call the current task is in; s: the states it leaves.
\* A waiting call fails when nothing ran or it was picked as hopeless, and else looks again.
ScheduleReturns(ran, s) ==
    LET o == op[current] IN
    /\ phase' = "run"
    /\ IF o.call \in {"join", "send", "recv"}
       THEN /\ waitingOn' = [waitingOn EXCEPT ![current] = Null]
            /\ IF ran /\ ~deadlocked[current]
               THEN state' = s /\ ret' = Silent /\ UNCHANGED <<deadlocked, op>>
               ELSE /\ state' = [s EXCEPT ![current] = "READY"]
                    /\ deadlocked' = [deadlocked EXCEPT ![current] = FALSE]
                    /\ Return(o, "EDEADLK")
       ELSE state' = s /\ Return(o, "ok") /\ UNCHANGED <<waitingOn, deadlocked>>

\* switch_to(next), up to the other side of __task_switch.
Switch(n) ==
    /\ phase = "sched" /\ IsFirst(n, Ready) /\ n # current
    /\ state' = Scanned
    /\ limit' = Lower(limit, LimitOf(n))
    /\ current' = n /\ phase' = "switched" /\ ret' = Silent
    /\ UNCHANGED <<generation, deadlocked, waitingOn, wakeAt, stack, started, alive, toFree, op, chan,
                   now, heapTop, allocated, mainLimit>>

\* The current task is the only one that can run.
KeepRunning ==
    /\ phase = "sched" /\ IsFirst(current, Ready)
    /\ ScheduleReturns(TRUE, Scanned)
    /\ UNCHANGED <<generation, wakeAt, stack, current, started, alive, toFree, chan, now, heapVars>>

\* Everyone sleeps, and so does the machine: to the alarm, or to whatever interrupt comes first.
Halt ==
    /\ phase = "sched" /\ Ready = {} /\ Sleepers # {}
    /\ now' \in now .. MaxTime
    /\ ret' = Silent
    /\ UNCHANGED <<taskVars, current, started, alive, toFree, phase, op, chan, heapVars>>

\* Nothing can ever run: schedule() returns 0.
GiveUp ==
    /\ phase = "sched" /\ Ready = {} /\ Sleepers = {}
    /\ state[current] # "DONE"
    /\ ScheduleReturns(FALSE, Scanned)
    /\ UNCHANGED <<generation, wakeAt, stack, current, started, alive, toFree, chan, now, heapVars>>

\* A finished task has to leave, and everyone else waits: the next of them is told it is hopeless.
PickHopeless ==
    /\ phase = "sched" /\ Ready = {} /\ Sleepers = {}
    /\ state[current] = "DONE"
    /\ \E i \in Slots :
          /\ IsFirst(i, {j \in Slots : state[j] = "WAITING"})
          /\ state' = [state EXCEPT ![i] = "READY"]
          /\ deadlocked' = [deadlocked EXCEPT ![i] = TRUE]
    /\ ret' = Silent
    /\ UNCHANGED <<generation, waitingOn, wakeAt, stack, current, started, alive, toFree, phase, op, chan,
                   now, heapVars>>

\* The task switched to runs: its own stack limit, the finished task's stack freed (the heap may
\* shrink), and back to the call it is in, or into its function if this is its first switch.
Resume ==
    /\ phase = "switched"
    /\ \E top \in Tops :
          /\ \A b \in allocated \ {toFree} : b < top
          /\ IF toFree = Null THEN top = heapTop ELSE top <= heapTop
          /\ heapTop' = top
          /\ mainLimit' = IF top = heapTop THEN mainLimit ELSE top
          /\ limit' = IF current = Main THEN mainLimit' ELSE stack[current]
    /\ allocated' = allocated \ {toFree}
    /\ toFree' = Null
    /\ ScheduleReturns(TRUE, state)
    /\ UNCHANGED <<generation, wakeAt, stack, current, started, alive, chan, now>>

Schedule == (\E n \in Slots : Switch(n)) \/ KeepRunning \/ Halt \/ GiveUp \/ PickHopeless \/ Resume

-----------------------------------------------------------------------------
(* task_ calls *)

\* task_spawn fails: no function, no slot, or no memory for the stack.
SpawnFails ==
    LET full == \A i \in Slots \ {Main} : ~SlotIsFree(i, StartedState) IN
    /\ Running /\ Start /\ state' = StartedState
    /\ \E code \in {"EINVAL", "EAGAIN", "ENOMEM"} :
          /\ code = "EAGAIN" => full
          /\ code = "ENOMEM" => ~full
          /\ ret' = Reply("spawn", Null, code, NoMsg)
    /\ UNCHANGED <<generation, deadlocked, waitingOn, wakeAt, stack, current, alive, toFree, phase, op,
                   chan, now, heapTop, allocated, limit>>

\* task_spawn into slot i, with its stack at b; malloc may have to grow the heap, which moves
\* main's stack limit now and the machine's only if main is running.
Spawn(i, b) ==
    /\ Running
    /\ i # Main /\ SlotIsFree(i, StartedState)
    /\ \A j \in Slots \ {Main} : SlotIsFree(j, StartedState) => i <= j
    /\ generation[i] < MaxGen
    /\ b \notin allocated
    /\ \E top \in Tops :
          /\ b < top /\ heapTop <= top
          /\ heapTop' = top
          /\ mainLimit' = IF top = heapTop THEN StartedLimit ELSE top
          /\ limit' = IF top # heapTop /\ current = Main THEN top ELSE limit
    /\ allocated' = allocated \cup {b}
    /\ started' = TRUE
    /\ state' = [StartedState EXCEPT ![i] = "READY"]
    /\ generation' = [generation EXCEPT ![i] = @ + 1]
    /\ deadlocked' = [deadlocked EXCEPT ![i] = FALSE]
    /\ waitingOn' = [waitingOn EXCEPT ![i] = Null]
    /\ wakeAt' = [wakeAt EXCEPT ![i] = 0]
    /\ stack' = [stack EXCEPT ![i] = b]
    /\ op' = [op EXCEPT ![i] = Entry]
    /\ alive' = alive + 1
    /\ ret' = Reply("spawn", Null, "ok", NoMsg)
    /\ UNCHANGED <<current, toFree, phase, chan, now>>

Yield ==
    /\ Running /\ Start /\ state' = StartedState
    /\ op' = [op EXCEPT ![current] = Yielding]
    /\ phase' = "sched" /\ ret' = Silent
    /\ UNCHANGED <<generation, deadlocked, waitingOn, wakeAt, stack, current, alive, toFree, chan, now,
                   heapTop, allocated, limit>>

\* task_sleep_ns(ns): the instant to wake at is a 64-bit sum.
Sleep(ns) ==
    LET at == (now + ns) % TimeMod IN
    /\ Running /\ Start
    /\ at <= MaxTime \/ at = Forever           \* bound
    /\ state' = [StartedState EXCEPT ![current] = "SLEEPING"]
    /\ wakeAt' = [wakeAt EXCEPT ![current] = at]
    /\ op' = [op EXCEPT ![current] = Sleeping(now + ns)]
    /\ phase' = "sched" /\ ret' = Silent
    /\ UNCHANGED <<generation, deadlocked, waitingOn, stack, current, alive, toFree, chan, now,
                   heapTop, allocated, limit>>

\* task_join(id) up to its loop.
Join(id) ==
    /\ Running /\ Start /\ state' = StartedState
    /\ \/ /\ \A i \in Slots : ~IsSlotOf(i, id, StartedState)
          /\ Return(Joining(id), "ESRCH")
       \/ /\ IsSlotOf(current, id, StartedState)
          /\ Return(Joining(id), "EDEADLK")
       \/ /\ \E i \in Slots \ {current} : IsSlotOf(i, id, StartedState)
          /\ op' = [op EXCEPT ![current] = Joining(id)] /\ ret' = Silent
    /\ UNCHANGED <<generation, deadlocked, waitingOn, wakeAt, stack, current, alive, toFree, phase, chan,
                   now, heapTop, allocated, limit>>

\* The slot joined still runs the task that has the id.
StillRunsSlot(id) == state[id % TaskMax] # "DONE"
StillRuns(id) == LET i == id % TaskMax IN state[i] # "DONE" /\ generation[i] * TaskMax + i = id

JoinLoop ==
    LET o == op[current] IN
    /\ phase = "run" /\ o.call = "join"
    /\ \/ StillRuns(o.id) /\ WaitOn(o.id % TaskMax)
       \/ /\ ~StillRuns(o.id)
          /\ Return(o, "ok")
          /\ UNCHANGED <<taskVars, current, started, alive, toFree, phase, chan, now, heapVars>>

\* The task's function returns, or it calls task_exit: __task_finish, up to its schedule().
Finish ==
    /\ Running /\ current # Main
    /\ state' = Wake(current, [state EXCEPT ![current] = "DONE"])
    /\ alive' = alive - 1
    /\ toFree' = stack[current]
    /\ stack' = [stack EXCEPT ![current] = Null]
    /\ phase' = "sched" /\ ret' = Silent
    /\ UNCHANGED <<generation, deadlocked, waitingOn, wakeAt, current, started, op, chan, now, heapVars>>

\* main returning, or calling task_exit, is the program ending.
Exit ==
    /\ Running /\ current = Main
    /\ phase' = "exited" /\ ret' = Silent
    /\ UNCHANGED <<taskVars, current, started, alive, toFree, op, chan, now, heapVars>>

\* The program allocates or frees memory of its own.
Malloc ==
    /\ Running /\ HeapChanges /\ ret' = Silent
    /\ UNCHANGED <<taskVars, current, started, alive, toFree, phase, op, chan, now>>

TaskCall == \/ SpawnFails \/ Yield \/ Finish \/ Exit \/ Malloc
            \/ \E i \in Slots, b \in Blocks : Spawn(i, b)
            \/ \E ns \in Naps : Sleep(ns)
            \/ \E id \in Ids : Join(id)

-----------------------------------------------------------------------------
(* chan_ calls *)

\* chan_send, chan_try_send, chan_recv and chan_try_recv up to their loops.
\* Only the two that may wait call start().
ChanCall(o) ==
    /\ Running
    /\ op' = [op EXCEPT ![current] = o] /\ ret' = Silent
    /\ IF o.block THEN Start /\ state' = StartedState
                  ELSE UNCHANGED <<started, mainLimit, state>>
    /\ UNCHANGED <<generation, deadlocked, waitingOn, wakeAt, stack, current, alive, toFree, phase, chan,
                   now, heapTop, allocated, limit>>

\* A channel changes: everyone waiting on it is woken.
ChanStep(c, ring) ==
    /\ chan' = [chan EXCEPT ![c] = ring]
    /\ state' = Wake(c, state)
    /\ UNCHANGED <<generation, deadlocked, waitingOn, wakeAt, stack, current, started, alive, toFree, phase,
                   now>>

ChanFails(o, code) ==
    /\ Return(o, code)
    /\ UNCHANGED <<taskVars, current, started, alive, toFree, phase, chan, now, heapVars>>

\* One turn of chan_send's loop; chan_try_send is one that does not wait.
SendLoop ==
    LET o == op[current]
        c == chan[o.chan] IN
    /\ phase = "run" /\ o.call = "send"
    /\ \/ c.closed /\ ChanFails(o, "EPIPE")
       \/ ~c.closed /\ c.count = c.cap /\ ~o.block /\ ChanFails(o, "EAGAIN")
       \/ ~c.closed /\ c.count = c.cap /\ o.block /\ WaitOn(o.chan)
       \/ /\ ~c.closed /\ c.count # c.cap
          /\ ChanStep(o.chan, Put(c, o.msg)) /\ Return(o, "ok") /\ UNCHANGED heapVars

RecvLoop ==
    LET o == op[current]
        c == chan[o.chan] IN
    /\ phase = "run" /\ o.call = "recv"
    /\ \/ c.count = 0 /\ c.closed /\ ChanFails(o, "EPIPE")
       \/ c.count = 0 /\ ~c.closed /\ ~o.block /\ ChanFails(o, "EAGAIN")
       \/ c.count = 0 /\ ~c.closed /\ o.block /\ WaitOn(o.chan)
       \/ /\ c.count # 0
          /\ ChanStep(o.chan, Taken(c)) /\ UNCHANGED heapVars
          /\ op' = [op EXCEPT ![current] = Idle]
          /\ ret' = Reply("recv", o.chan, "ok", Front(c))

ChanClose(c) ==
    /\ Running /\ ChanStep(c, ClosedRing(chan[c]))
    /\ ret' = Silent /\ UNCHANGED <<op, heapVars>>

ChanFree(c) ==
    /\ Running /\ ChanStep(c, FreedRing(chan[c]))
    /\ HeapChanges /\ ret' = Silent /\ UNCHANGED op

\* chan_init, again: a program does it to a channel it freed (or could not make) and no task waits on.
ChanInit(c, ring) ==
    /\ Running /\ chan[c].buf = NullBuf
    /\ \A i \in Slots : ~(state[i] = "WAITING" /\ waitingOn[i] = c)
    /\ chan' = [chan EXCEPT ![c] = ring]
    /\ HeapChanges /\ ret' = Silent
    /\ UNCHANGED <<taskVars, current, started, alive, toFree, phase, op, now>>

ChanOp == \/ SendLoop \/ RecvLoop
          \/ \E c \in Chans : \/ \E m \in Msgs, b \in BOOLEAN : ChanCall(Sending(c, m, b))
                             \/ \E b \in BOOLEAN : ChanCall(Receiving(c, b))
                             \/ ChanClose(c) \/ ChanFree(c)
                             \/ \E ring \in {ZeroRing} \cup {NewRing(n) : n \in Capacities} : ChanInit(c, ring)

-----------------------------------------------------------------------------

Tick ==
    /\ phase # "exited" /\ now < MaxTime
    /\ now' = now + 1 /\ ret' = Silent
    /\ UNCHANGED <<taskVars, current, started, alive, toFree, phase, op, chan, heapVars>>

Terminated == phase = "exited" /\ UNCHANGED vars

Next == Schedule \/ TaskCall \/ JoinLoop \/ ChanOp \/ Tick \/ Terminated

Spec == Init /\ [][Next]_vars

\* The library's own code always goes on, and so does the clock.  Nothing preempts a task, so the
\* others run only if every task keeps coming back to the scheduler: one that runs its own code
\* again and again must some time yield.
Fairness == /\ WF_vars(Schedule \/ JoinLoop \/ SendLoop \/ RecvLoop)
            /\ WF_vars(Tick)
            /\ SF_vars(Yield)
FairSpec == Spec /\ Fairness

-----------------------------------------------------------------------------
(* What the code relies on, and promises *)

TypeOK ==
    /\ state \in [Slots -> States]
    /\ generation \in [Slots -> 0 .. MaxGen]
    /\ deadlocked \in [Slots -> BOOLEAN]
    /\ waitingOn \in [Slots -> Objects \cup {Null}]
    /\ wakeAt \in [Slots -> 0 .. Forever]
    /\ stack \in [Slots -> Blocks \cup {Null}]
    /\ current \in Slots /\ started \in BOOLEAN /\ alive \in Int
    /\ toFree \in Blocks \cup {Null} /\ mainLimit \in Tops \cup {0}
    /\ phase \in {"run", "sched", "switched", "exited"}
    /\ op \in [Slots -> Ops]
    /\ ret \in Replies
    /\ chan \in [Chans -> Ring]
    /\ now \in 0 .. MaxTime
    /\ limit \in Tops \cup Blocks /\ heapTop \in Tops /\ allocated \in SUBSET Blocks

Live(i) == state[i] \notin {"FREE", "DONE"}

\* No sleep's end is lost to the width of the clock.
NoWrap == \A ns \in Naps : MaxTime + ns < Forever

\* Where control is agrees with the states of the tasks: the running task is ready (main alone
\* before the first call), the one a switch has just reached too, and only a task that is in
\* schedule() for the last time is done while it is current.
CurrentCanRun ==
    /\ phase \in {"run", "switched", "exited"} => state[current] = IF started THEN "READY" ELSE "FREE"
    /\ phase = "sched" => state[current] # "FREE"
    /\ ~started => /\ phase \in {"run", "exited"} /\ current = Main
                   /\ \A i \in Slots : state[i] = "FREE"
    /\ started => Live(Main)

\* task_count() is the number of tasks that have not finished.
AliveCounts == alive = Cardinality({i \in Slots : Live(i) \/ i = Main})

\* A live task has a stack of its own that is allocated; the only other stack in use is that of
\* the task that has just finished, until the next one runs.  So no stack is freed under the task
\* that runs on it, none is freed twice and none is leaked.
StacksOwned ==
    LET Owners == {i \in Slots \ {Main} : Live(i)} IN
    /\ stack[Main] = Null
    /\ \A i \in Slots \ {Main} : Live(i) <=> stack[i] # Null
    /\ \A i, j \in Owners : stack[i] = stack[j] => i = j
    /\ toFree # Null => phase \in {"sched", "switched"} /\ \A i \in Owners : stack[i] # toFree
    /\ (phase = "sched" /\ state[current] = "DONE") <=> (phase = "sched" /\ toFree # Null)
    /\ allocated = {stack[i] : i \in Owners} \cup ({toFree} \ {Null})

\* "while it runs, the machine's stack limit is the bottom of its stack" (task.h:17): also when
\* the heap moved, or another task finished, while it was not running.  Across a switch the limit
\* is below both stacks.
StackLimit ==
    LET Bottom == IF current = Main THEN heapTop ELSE stack[current] IN
    /\ phase = "run" \/ (phase = "sched" /\ state[current] # "DONE") => limit = Bottom
    /\ phase = "switched" => limit <= Bottom

\* Task id has returned, whoever has its slot now.
Over(id) == LET i == id % TaskMax
                latest == generation[i] * TaskMax + i IN     \* the last task to have its slot
            latest > id \/ (latest = id /\ state[i] = "DONE")

\* What the call task i waits in cannot be given to it.
Unserved(i) ==
    LET o == op[i] IN
    \/ o.call = "join" /\ ~Over(o.id)
    \/ o.call = "send" /\ o.block /\ ~chan[o.chan].closed /\ chan[o.chan].count = chan[o.chan].cap
    \/ o.call = "recv" /\ o.block /\ ~chan[o.chan].closed /\ chan[o.chan].count = 0

\* No wakeup is lost: a task that waits, waits for something that is really not there.
WaitersUnserved == \A i \in Slots : state[i] = "WAITING" => Unserved(i)

\* What the invariants above rest on: the heap's top is above every stack and known to main's
\* limit, a waiter is registered with the object its call is about, a task waited for still has
\* its slot, a joined one was once spawned, a sleeper has an end, and a task picked as hopeless is the only one that can run.
WaitObject(o) == IF o.call = "join" THEN o.id % TaskMax ELSE o.chan

HeapAbove ==
    /\ \A b \in allocated : b < heapTop
    /\ IF started THEN mainLimit = heapTop ELSE limit = heapTop

Blocking(o) == o.call = "join" \/ (o.call \in {"send", "recv"} /\ o.block)

Waits ==
    /\ \A i \in Slots : state[i] = "WAITING" => Blocking(op[i]) /\ waitingOn[i] = WaitObject(op[i])
    /\ \A i \in Slots : state[i] = "WAITING" /\ op[i].call = "join" => StillRuns(op[i].id)
    /\ \A i \in Slots : Blocking(op[i]) => started
    /\ \A i \in Slots : op[i].call = "join" => state[op[i].id % TaskMax] # "FREE"

Sleeps ==
    \A i \in Slots :
        /\ state[i] = "SLEEPING" => op[i].call = "sleep" /\ wakeAt[i] <= MaxTime
        /\ op[i].call = "sleep" => \/ state[i] = "SLEEPING" /\ wakeAt[i] = op[i].until
                                   \/ state[i] = "READY" /\ op[i].until <= now

Hopeless ==
    \A i \in Slots : deadlocked[i] =>
        /\ \/ phase = "sched" /\ state[current] = "DONE"
           \/ phase = "switched" /\ current = i
        /\ state[i] = "READY" /\ Unserved(i)
        /\ \A j \in Slots \ {i} : state[j] \in {"FREE", "DONE", "WAITING"}

IInv == /\ TypeOK /\ CurrentCanRun /\ AliveCounts /\ StacksOwned /\ StackLimit /\ WaitersUnserved
        /\ HeapAbove /\ Waits /\ Sleeps /\ Hopeless

\* EDEADLK is the truth: when a wait fails with it, the task's call cannot be served, and no
\* other task is left that could run and serve it (task.h:18).
DeadlockIsReal ==
    [][ ret'.code = "EDEADLK" /\ phase # "run" =>
          /\ Unserved(current)
          /\ \A i \in Slots \ {current} : state[i] \in {"FREE", "DONE"} \/ Unserved(i) ]_vars

\* task_sleep_ns(ns) lasts at least ns (task.h:27).
SleepsAtLeast ==
    [][ \A i \in Slots : op[i].call = "sleep" /\ op'[i] = Idle => now >= op[i].until ]_vars

\* No id is lost to the width of ids: they are given below it.
NoIdWrap == (MaxGen + 1) * TaskMax <= IdMod

\* The id of a live task is found again by slot_of: it can be joined and is alive ("The slot of
\* a live id", task.c:92).
LiveIdIsFound == \A i \in Slots : Live(i) => IsSlotOf(i, IdOf(i), state)

\* Each channel is the FIFO queue that task.h promises.
Queue == INSTANCE ChanQueue WITH
    queue <- [c \in Chans |-> Contents(chan[c])],
    room <- [c \in Chans |-> chan[c].cap],
    open <- [c \in Chans |-> ~chan[c].closed],
    answer <- IF ret.chan = Null THEN Silent ELSE ret
ChannelsAreQueues == Queue!Spec

Runs(i) == current = i /\ phase = "run"
Ended == phase = "exited"

\* No starvation: a task that can run, or that sleeps, comes to run.
EveryoneRuns == \A i \in Slots : state[i] \in {"READY", "SLEEPING"} ~> Runs(i) \/ Ended

\* A join returns once the task has finished, even if its slot is given to another at once.
JoinReturns ==
    \A i \in Slots : op[i].call = "join" /\ Over(op[i].id) ~> op[i].call # "join" \/ Ended
=============================================================================
