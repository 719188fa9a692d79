------------------------------- MODULE Waits --------------------------------
(***************************************************************************)
(* Waiting for a device: irq_wait_flag of src/ceres/irq.c, the terminal's  *)
(* wait_for_input in its two ways, the waits for the audio device and the  *)
(* DMA, periph_wait, and the timer's halt with the alarm.  Everything the  *)
(* waiter does may be cut by a request of a device or by time passing.     *)
(*                                                                         *)
(* The machine: a request stays in "pend" until its handler runs, which    *)
(* needs interrupts open, and in "latch" until a halt, which it ends or    *)
(* keeps from sleeping.  "own" is the alarm the program keeps for itself,  *)
(* "rang" whether it has.                                                  *)
(***************************************************************************)
EXTENDS Integers

CONSTANTS MaxNow,      \* bound: the last instant of the clock
          Deadlines    \* what timer_halt_until_ns is given, and what the program sets its own alarm to

ASSUME WaitsAssumption == MaxNow \in Nat /\ Deadlines \subseteq Nat \ {0}     \* an alarm at 0 is none

VARIABLES cpu, dev, waiter

waitVars == <<cpu, dev, waiter>>

\* "flag" is set by the handler, "in" and "ended" by the device; "intr" is Ctrl+C.
Waiting(how) == [how |-> how, pc |-> "idle", deadline |-> 0, saved |-> 0, keep |-> FALSE, ready |-> FALSE, raised |-> 0]
Unasked == [open |-> TRUE, pend |-> FALSE, latch |-> FALSE]
Quiet(how, own) ==
    [flag |-> FALSE, in |-> FALSE, ended |-> FALSE, intr |-> FALSE, busy |-> how = "busy",
     now |-> 0, alarm |-> own, own |-> IF how = "alarm" THEN own ELSE 0, rang |-> FALSE]
InitWaits == /\ cpu = Unasked
             /\ \E how \in {"flag", "isr", "status", "busy", "alarm"}, own \in Deadlines \cup {0} :
                   waiter = Waiting(how) /\ dev = Quiet(how, own)

-----------------------------------------------------------------------------
(* The machine (external): requests, their handlers, and the clock with its alarm. *)

Asked == [cpu EXCEPT !.pend = TRUE, !.latch = TRUE]
Byte == ~dev.in /\ ~dev.ended /\ dev' = [dev EXCEPT !.in = TRUE] /\ cpu' = Asked /\ UNCHANGED waiter
InputEnds == ~dev.ended /\ dev' = [dev EXCEPT !.ended = TRUE] /\ cpu' = Asked /\ UNCHANGED waiter
CtrlC == ~dev.intr /\ waiter.raised = 0 /\ dev' = [dev EXCEPT !.intr = TRUE] /\ cpu' = Asked /\ UNCHANGED waiter
Done == dev.busy /\ dev' = [dev EXCEPT !.busy = FALSE] /\ cpu' = Asked /\ UNCHANGED waiter

\* Nothing comes between an sti and the halt after it.
Handler ==
    /\ cpu.open /\ cpu.pend /\ waiter.pc # "haltNow"
    /\ cpu' = [cpu EXCEPT !.pend = FALSE] /\ dev' = [dev EXCEPT !.flag = TRUE] /\ UNCHANGED waiter
Clock == dev.now < MaxNow /\ dev' = [dev EXCEPT !.now = @ + 1] /\ UNCHANGED <<cpu, waiter>>
Alarm ==
    /\ dev.alarm # 0 /\ dev.now >= dev.alarm
    /\ dev' = [dev EXCEPT !.alarm = 0, !.rang = @ \/ dev.alarm = dev.own] /\ cpu' = Asked /\ UNCHANGED waiter

\* A request that may be taken is, before the next instruction.
Steps == ~(cpu.open /\ cpu.pend)
Halted(next) == IF cpu.latch \/ cpu.pend THEN cpu' = [cpu EXCEPT !.latch = FALSE] /\ waiter' = [waiter EXCEPT !.pc = next]
                ELSE waiter' = [waiter EXCEPT !.pc = "asleep"] /\ UNCHANGED cpu
Halt == (waiter.pc = "haltNow" \/ (waiter.pc = "halt" /\ Steps)) /\ Halted("woken") /\ UNCHANGED dev
Wake == waiter.pc = "asleep" /\ (cpu.latch \/ cpu.pend) /\ Halted("woken") /\ UNCHANGED dev

-----------------------------------------------------------------------------
(* The waiter. *)

Go(pc) == waiter' = [waiter EXCEPT !.pc = pc]
Masks == waiter.how \in {"flag", "isr"}

\* irq_save, for those that look with the interrupts masked.
Start == /\ waiter.pc = "idle" /\ waiter.how # "alarm" /\ Go("look")
         /\ cpu' = [cpu EXCEPT !.open = ~Masks] /\ UNCHANGED dev

\* What is looked at: the flag, the status word in one reading, or the busy bit.
Ready == CASE waiter.how = "flag" -> dev.flag
           [] waiter.how = "busy" -> ~dev.busy
           [] OTHER -> dev.in \/ dev.ended
Interrupted == waiter.how \in {"isr", "status"} /\ dev.intr

\* sti; halt, or a halt alone.
Sleep == IF Masks THEN Go("haltNow") /\ cpu' = [cpu EXCEPT !.open = TRUE] ELSE Go("halt") /\ UNCHANGED cpu
Look ==
    /\ waiter.pc = "look" /\ UNCHANGED dev
    /\ IF Interrupted THEN Go("interrupted") /\ cpu' = [cpu EXCEPT !.open = TRUE]
       ELSE IF Ready THEN waiter' = [waiter EXCEPT !.pc = "done", !.ready = dev.in] /\ cpu' = [cpu EXCEPT !.open = TRUE]
       ELSE Sleep
LookAgain == waiter.pc = "woken" /\ waiter.how # "alarm" /\ Go("look") /\ cpu' = [cpu EXCEPT !.open = ~Masks] /\ UNCHANGED dev

\* term_check_interrupt acknowledges before it raises SIGINT, and then looks again with the interrupts as before.
Raise == /\ waiter.pc = "interrupted" /\ dev.intr /\ dev' = [dev EXCEPT !.intr = FALSE]
         /\ waiter' = [waiter EXCEPT !.pc = "look", !.raised = @ + 1] /\ cpu' = [cpu EXCEPT !.open = ~Masks]

\* timer_halt_until_ns: the program's alarm is put aside when it is later than the deadline.
CheckClock ==
    /\ waiter.how = "alarm" /\ waiter.pc = "idle" /\ UNCHANGED <<cpu, dev>>
    /\ \E at \in Deadlines : waiter' = [waiter EXCEPT !.deadline = at, !.pc = IF dev.now >= at THEN "done" ELSE "save"]
KeptAlways(saved, deadline) == saved # 0
Kept(saved, deadline) == saved # 0 /\ saved <= deadline
Save == /\ waiter.pc = "save" /\ UNCHANGED <<cpu, dev>>
        /\ waiter' = [waiter EXCEPT !.saved = dev.alarm, !.keep = Kept(dev.alarm, waiter.deadline), !.pc = "arm"]
Arm == /\ waiter.pc = "arm" /\ Go("halt") /\ UNCHANGED cpu
       /\ dev' = IF waiter.keep THEN dev ELSE [dev EXCEPT !.alarm = waiter.deadline]
PutBackNothing == 0
PutBack == waiter.saved
Restore ==
    /\ waiter.how = "alarm" /\ waiter.pc = "woken" /\ Go("check") /\ UNCHANGED cpu
    /\ dev' = IF waiter.keep THEN dev ELSE [dev EXCEPT !.alarm = PutBack]
\* timer_wait_until_ns64: again, until the time has come.
CheckAgain == /\ waiter.pc = "check" /\ UNCHANGED <<cpu, dev>>
              /\ Go(IF dev.now >= waiter.deadline THEN "done" ELSE "save")

NextWaits == \/ Byte \/ InputEnds \/ CtrlC \/ Done \/ Handler \/ Clock \/ Alarm \/ Halt \/ Wake
             \/ Steps /\ (Start \/ Look \/ LookAgain \/ Raise \/ CheckClock \/ Save \/ Arm \/ Restore \/ CheckAgain)
SpecWaits == InitWaits /\ [][NextWaits]_waitVars

-----------------------------------------------------------------------------
\* Nobody sleeps through what they wait for: whoever sleeps has nothing to see yet, or is about to be woken
\* (irq_wait_flag, wait_for_input, dma_wait, timer_halt_until_ns).
NoLostWakeup ==
    /\ waiter.pc = "asleep" /\ ~cpu.latch /\ ~cpu.pend =>
         IF waiter.how = "alarm" THEN dev.alarm # 0 /\ dev.alarm <= waiter.deadline ELSE ~Ready /\ ~Interrupted
    /\ waiter.pc = "asleep" => cpu.open
    /\ waiter.pc \in {"idle", "done", "interrupted"} => cpu.open

\* The program's own alarm is not lost to a wait: it has rung, or it is armed when no wait is under way
\* (src/ceres/timer.c).
OwnAlarmKept ==
    /\ dev.own # 0 /\ waiter.pc \in {"idle", "check", "done"} => dev.rang \/ dev.alarm = dev.own
    /\ waiter.how = "alarm" /\ waiter.pc = "done" => dev.now >= waiter.deadline
=============================================================================
