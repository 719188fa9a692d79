--------------------------- MODULE Devices_proofs ---------------------------
(***************************************************************************)
(* Theorems on the modules between the program and its devices: the waits, *)
(* the address spaces, the music, the surroundings of a program.  Each is  *)
(* about its own specification, for any values of its constants.           *)
(***************************************************************************)
EXTENDS Waits, Mmu, Music, Surroundings, SequenceTheorems, TLAPS

-----------------------------------------------------------------------------
(* Waits. No wait sleeps through what it waits for, and none loses the program's own alarm. *)

Hows == {"flag", "isr", "status", "busy", "alarm"}
Pcs == {"idle", "look", "interrupted", "halt", "haltNow", "asleep", "woken", "save", "arm", "check", "done"}
WaitTypes ==
    /\ cpu \in [open : BOOLEAN, pend : BOOLEAN, latch : BOOLEAN]
    /\ dev \in [flag : BOOLEAN, in : BOOLEAN, ended : BOOLEAN, intr : BOOLEAN, busy : BOOLEAN,
                now : Nat, alarm : Nat, own : Nat, rang : BOOLEAN]
    /\ waiter \in [how : Hows, pc : Pcs, deadline : Nat, saved : Nat,
                   keep : BOOLEAN, ready : BOOLEAN, raised : Nat]

\* Where each kind of wait can be: only the alarm's puts an alarm aside.
InPlace ==
    IF waiter.how = "alarm" THEN waiter.pc \in {"idle", "save", "arm", "halt", "asleep", "woken", "check", "done"}
    ELSE /\ waiter.pc \in {"idle", "look", "interrupted", "halt", "haltNow", "asleep", "woken", "done"}
         /\ waiter.pc # (IF Masks THEN "halt" ELSE "haltNow")

\* Interrupts are closed only where a masked wait looks.
Opened == cpu.open \/ (waiter.pc = "look" /\ Masks)

\* From the look to the end of the halt, whatever comes is latched, so the halt ends or does not begin; and whoever
\* is asleep sleeps until a request that is latched, if its handler has run or not.
Watched ==
    /\ waiter.how # "alarm" /\ waiter.pc \in {"halt", "haltNow", "asleep"} /\ ~cpu.latch => ~Ready /\ ~Interrupted
    /\ waiter.pc = "asleep" /\ cpu.pend => cpu.latch

\* The alarm that will end the halt in time is armed, or has rung and is latched.
Armed ==
    waiter.how = "alarm" =>
        /\ waiter.pc \in {"save", "arm", "halt", "asleep", "woken", "check"} => waiter.deadline # 0
        /\ waiter.pc \in {"halt", "asleep"} /\ ~cpu.latch => dev.alarm # 0 /\ dev.alarm <= waiter.deadline
        /\ waiter.pc = "arm" /\ waiter.keep /\ ~cpu.latch => dev.alarm # 0 /\ dev.alarm <= waiter.deadline
        /\ waiter.pc = "done" => dev.now >= waiter.deadline

\* While another alarm is armed, the program's own is the one put aside.
OwnAlarm ==
    dev.own # 0 =>
        /\ waiter.how = "alarm"
        /\ dev.rang \/ (IF waiter.pc \in {"idle", "save", "check", "done"} THEN dev.alarm = dev.own
                        ELSE waiter.saved = dev.own /\ (waiter.pc = "arm" \/ waiter.keep => dev.alarm = dev.own))

WaitsInv == WaitTypes /\ InPlace /\ Opened /\ Watched /\ Armed /\ OwnAlarm

LEMMA WaitsStart == InitWaits => WaitsInv
<1> SUFFICES ASSUME InitWaits PROVE WaitsInv
  OBVIOUS
<1>1. PICK how \in Hows, own \in Deadlines \cup {0} :
        cpu = Unasked /\ waiter = Waiting(how) /\ dev = Quiet(how, own)
  BY DEF InitWaits, Hows
<1>2. own \in Nat /\ 0 \in Nat
  BY WaitsAssumption
<1>3. InPlace
  BY <1>1 DEF InPlace, Waiting
<1>4. WaitTypes
  <2>1. cpu \in [open : BOOLEAN, pend : BOOLEAN, latch : BOOLEAN]
    BY <1>1 DEF Unasked
  <2>2. dev \in [flag : BOOLEAN, in : BOOLEAN, ended : BOOLEAN, intr : BOOLEAN, busy : BOOLEAN,
                 now : Nat, alarm : Nat, own : Nat, rang : BOOLEAN]
    <3>1. (how = "busy") \in BOOLEAN /\ (IF how = "alarm" THEN own ELSE 0) \in Nat
      BY <1>2
    <3> QED
      BY <1>1, <1>2, <3>1 DEF Quiet
  <2>3. waiter \in [how : Hows, pc : Pcs, deadline : Nat, saved : Nat,
                    keep : BOOLEAN, ready : BOOLEAN, raised : Nat]
    BY <1>1, <1>2 DEF Waiting, Pcs
  <2> QED
    BY <2>1, <2>2, <2>3 DEF WaitTypes, Pcs
<1> QED
  BY <1>1, <1>2, <1>3, <1>4 DEF WaitsInv, InPlace, Opened, Watched, Armed, OwnAlarm, Unasked, Waiting, Quiet

\* The machine: requests, time, the alarm and what the handler does.
LEMMA MachineStep ==
  ASSUME WaitsInv, Byte \/ InputEnds \/ CtrlC \/ Done \/ Handler \/ Clock \/ Alarm
  PROVE  WaitsInv'
<1>1. waiter' = waiter /\ WaitTypes /\ InPlace
  BY DEF Byte, InputEnds, CtrlC, Done, Handler, Clock, Alarm, WaitsInv
<1>2. ASSUME Byte \/ InputEnds \/ CtrlC \/ Done
      PROVE  WaitsInv'
  <2>1. cpu' = [open |-> cpu.open, pend |-> TRUE, latch |-> TRUE]
    BY <1>1, <1>2, ZenonT(40) DEF Byte, InputEnds, CtrlC, Done, Asked, WaitTypes, Pcs
  <2>2. /\ WaitTypes'
        /\ dev'.alarm = dev.alarm /\ dev'.own = dev.own /\ dev'.rang = dev.rang /\ dev'.now = dev.now
    BY <1>1, <1>2, <2>1, ZenonT(40) DEF Byte, InputEnds, CtrlC, Done, WaitTypes, Pcs
  <2> QED
    BY <1>1, <2>1, <2>2 DEF WaitsInv, InPlace, Opened, Watched, Armed, OwnAlarm, Masks
<1>3. ASSUME Handler PROVE WaitsInv'
  <2>1. cpu' = [open |-> cpu.open, pend |-> FALSE, latch |-> cpu.latch] /\ cpu.pend /\ waiter.pc # "haltNow"
    BY <1>1, <1>3 DEF Handler, WaitTypes, Pcs
  <2>2. /\ WaitTypes' /\ dev'.alarm = dev.alarm /\ dev'.own = dev.own /\ dev'.rang = dev.rang /\ dev'.now = dev.now
        /\ dev'.in = dev.in /\ dev'.ended = dev.ended /\ dev'.busy = dev.busy /\ dev'.intr = dev.intr
    BY <1>1, <1>3, <2>1 DEF Handler, WaitTypes, Pcs
  <2>3. Watched'
    <3>1. waiter.pc = "asleep" => cpu.latch
      BY <2>1 DEF WaitsInv, Watched
    <3>2. waiter.pc = "halt" => waiter.how \in {"status", "busy", "alarm"}
      BY <1>1 DEF InPlace, Masks, WaitTypes, Hows
    <3>3. waiter.pc = "halt" /\ waiter.how # "alarm" => (Ready' <=> Ready) /\ (Interrupted' <=> Interrupted)
      BY <1>1, <2>2, <3>2 DEF Ready, Interrupted
    <3> QED
      BY <1>1, <2>1, <3>1, <3>3 DEF WaitsInv, Watched
  <2> QED
    BY <1>1, <2>1, <2>2, <2>3 DEF WaitsInv, InPlace, Opened, Armed, OwnAlarm, Masks
<1>4. ASSUME Clock PROVE WaitsInv'
  <2>1. cpu' = cpu /\ WaitTypes' /\ dev' = [dev EXCEPT !.now = dev.now + 1]
    BY <1>1, <1>4 DEF Clock, WaitTypes, Pcs
  <2>2. /\ dev'.alarm = dev.alarm /\ dev'.own = dev.own /\ dev'.rang = dev.rang /\ dev'.now = dev.now + 1
        /\ dev'.flag = dev.flag /\ dev'.in = dev.in /\ dev'.ended = dev.ended /\ dev'.busy = dev.busy /\ dev'.intr = dev.intr
    BY <1>1, <2>1 DEF WaitTypes, Pcs
  <2>3. Armed'
    BY <1>1, <2>1, <2>2 DEF WaitsInv, Armed, WaitTypes, Pcs
  <2> QED
    BY <1>1, <2>1, <2>2, <2>3 DEF WaitsInv, InPlace, Opened, Watched, OwnAlarm, Masks, Ready, Interrupted
<1>5. ASSUME Alarm PROVE WaitsInv'
  <2>1. cpu' = [open |-> cpu.open, pend |-> TRUE, latch |-> TRUE] /\ dev.alarm # 0
    BY <1>1, <1>5 DEF Alarm, Asked, WaitTypes, Pcs
  <2>a. dev' = [dev EXCEPT !.alarm = 0, !.rang = @ \/ dev.alarm = dev.own]
    BY <1>5 DEF Alarm
  <2>b. /\ dev'.alarm = 0 /\ dev'.own = dev.own /\ (dev'.rang <=> (dev.rang \/ dev.alarm = dev.own))
        /\ dev'.now = dev.now
    BY <1>1, <2>a DEF WaitTypes, Pcs
  <2>c. WaitTypes'
    BY <1>1, <2>1, <2>a DEF WaitTypes, Pcs
  <2>2. /\ dev'.alarm = 0 /\ dev'.own = dev.own /\ (dev'.rang <=> (dev.rang \/ dev.alarm = dev.own))
        /\ dev'.now = dev.now /\ WaitTypes'
    BY <2>b, <2>c
  <2>3. OwnAlarm'
    BY <1>1, <2>1, <2>2 DEF WaitsInv, OwnAlarm
  <2> QED
    BY <1>1, <2>1, <2>2, <2>3 DEF WaitsInv, InPlace, Opened, Watched, Armed, Masks
<1> QED
  BY <1>2, <1>3, <1>4, <1>5

\* A halt begins or is left over: it ends only for a request, and sleeps only with none.
LEMMA HaltStep ==
  ASSUME WaitsInv, Halt \/ Wake
  PROVE  WaitsInv'
<1>1. /\ dev' = dev /\ WaitTypes /\ InPlace /\ waiter.pc \in {"halt", "haltNow", "asleep"} /\ Halted("woken")
      /\ waiter.pc = "haltNow" => waiter.how # "alarm"
  BY DEF Halt, Wake, WaitsInv, InPlace
<1>2. CASE cpu.latch \/ cpu.pend
  <2>1. cpu' = [open |-> cpu.open, pend |-> cpu.pend, latch |-> FALSE] /\ waiter' = [waiter EXCEPT !.pc = "woken"]
    BY <1>1, <1>2 DEF Halted, WaitTypes, Pcs
  <2>2. /\ WaitTypes' /\ waiter'.pc = "woken" /\ waiter'.how = waiter.how /\ waiter'.deadline = waiter.deadline
        /\ waiter'.saved = waiter.saved /\ waiter'.keep = waiter.keep
    BY <1>1, <2>1 DEF WaitTypes, Pcs
  <2>3. InPlace'
    BY <1>1, <2>2 DEF InPlace, WaitTypes, Pcs
  <2>4. Opened'
    BY <1>1, <2>1 DEF WaitsInv, Opened
  <2>5. Armed' /\ OwnAlarm'
    BY <1>1, <2>2 DEF WaitsInv, Armed, OwnAlarm
  <2> QED
    BY <2>2, <2>3, <2>4, <2>5 DEF WaitsInv, Watched
<1>3. CASE ~(cpu.latch \/ cpu.pend)
  <2>1. cpu' = cpu /\ waiter' = [waiter EXCEPT !.pc = "asleep"]
    BY <1>1, <1>3 DEF Halted
  <2>2. /\ WaitTypes' /\ waiter'.pc = "asleep" /\ waiter'.how = waiter.how /\ waiter'.deadline = waiter.deadline
        /\ waiter'.saved = waiter.saved /\ waiter'.keep = waiter.keep
    BY <1>1, <2>1 DEF WaitTypes, Pcs
  <2>3. Watched'
    BY <1>1, <1>3, <2>1, <2>2 DEF WaitsInv, Watched, Ready, Interrupted
  <2>4. InPlace'
    BY <1>1, <2>2 DEF InPlace, WaitTypes, Pcs
  <2>5. Opened'
    BY <1>1, <2>1 DEF WaitsInv, Opened
  <2>6. Armed' /\ OwnAlarm'
    BY <1>1, <2>1, <2>2 DEF WaitsInv, Armed, OwnAlarm
  <2> QED
    BY <2>2, <2>3, <2>4, <2>5, <2>6 DEF WaitsInv
<1> QED
  BY <1>2, <1>3

\* Those who look: at the flag, the status or the busy bit.
LEMMA LookerStep ==
  ASSUME WaitsInv, Start \/ Look \/ LookAgain \/ Raise
  PROVE  WaitsInv'
<1>1. waiter.how # "alarm" /\ WaitTypes /\ InPlace
  BY DEF Start, Look, LookAgain, Raise, WaitsInv, InPlace
<1>2. dev.own = 0
  BY <1>1 DEF WaitsInv, OwnAlarm
<1>3. ASSUME waiter'.how = waiter.how, dev'.own = 0 PROVE Armed' /\ OwnAlarm'
  BY <1>1, <1>3 DEF Armed, OwnAlarm
<1>4. ASSUME Start \/ LookAgain \/ Raise PROVE WaitsInv'
  <2>1. cpu' = [cpu EXCEPT !.open = ~Masks]
    BY <1>4 DEF Start, LookAgain, Raise
  <2>2. dev' = dev \/ dev' = [dev EXCEPT !.intr = FALSE]
    BY <1>4 DEF Start, LookAgain, Raise
  <2>3. \E n \in Nat : waiter' = [waiter EXCEPT !.pc = "look", !.raised = n]
    <3>1. waiter.raised \in Nat /\ waiter.raised + 1 \in Nat
      BY <1>1 DEF WaitTypes
    <3>2. [waiter EXCEPT !.pc = "look"] = [waiter EXCEPT !.pc = "look", !.raised = waiter.raised]
      BY <1>1 DEF WaitTypes
    <3> QED
      BY <1>4, <3>1, <3>2 DEF Start, LookAgain, Raise, Go
  <2>4. waiter' \in [how : Hows, pc : Pcs, deadline : Nat, saved : Nat, keep : BOOLEAN, ready : BOOLEAN, raised : Nat]
        /\ waiter'.pc = "look" /\ waiter'.how = waiter.how
    BY <1>1, <2>3 DEF WaitTypes, Pcs
  <2>5. dev' \in [flag : BOOLEAN, in : BOOLEAN, ended : BOOLEAN, intr : BOOLEAN, busy : BOOLEAN,
                  now : Nat, alarm : Nat, own : Nat, rang : BOOLEAN] /\ dev'.own = 0
    BY <1>1, <1>2, <2>2 DEF WaitTypes, Pcs
  <2>6. Masks \in BOOLEAN
    BY DEF Masks
  <2>7. cpu' \in [open : BOOLEAN, pend : BOOLEAN, latch : BOOLEAN] /\ cpu'.open = ~Masks
    BY <1>1, <2>1, <2>6 DEF WaitTypes, Pcs
  <2>8. Opened'
    BY <2>4, <2>7 DEF Opened, Masks
  <2>9. InPlace' /\ Watched'
    BY <1>1, <2>4 DEF InPlace, Watched
  <2> QED
    BY <1>3, <2>4, <2>5, <2>7, <2>8, <2>9 DEF WaitsInv, WaitTypes, Pcs
<1>5. ASSUME Look, Interrupted PROVE WaitsInv'
  <2>1. dev' = dev /\ waiter' = [waiter EXCEPT !.pc = "interrupted"] /\ cpu' = [cpu EXCEPT !.open = TRUE]
    BY <1>5 DEF Look, Go
  <2>2. WaitTypes' /\ waiter'.pc = "interrupted" /\ waiter'.how = waiter.how /\ cpu'.open = TRUE
    BY <1>1, <2>1 DEF WaitTypes, Pcs
  <2>3. InPlace' /\ Watched' /\ Opened'
    BY <1>1, <2>2 DEF InPlace, Watched, Opened
  <2> QED
    BY <1>2, <1>3, <2>1, <2>2, <2>3 DEF WaitsInv
<1>6. ASSUME Look, ~Interrupted, Ready PROVE WaitsInv'
  <2>1. dev' = dev /\ waiter' = [waiter EXCEPT !.pc = "done", !.ready = dev.in] /\ cpu' = [cpu EXCEPT !.open = TRUE]
    BY <1>6 DEF Look
  <2>2. WaitTypes' /\ waiter'.pc = "done" /\ waiter'.how = waiter.how /\ cpu'.open = TRUE
    BY <1>1, <2>1 DEF WaitTypes, Pcs
  <2>3. InPlace' /\ Watched' /\ Opened'
    BY <1>1, <2>2 DEF InPlace, Watched, Opened
  <2> QED
    BY <1>2, <1>3, <2>1, <2>2, <2>3 DEF WaitsInv
<1>7. ASSUME Look, ~Interrupted, ~Ready PROVE WaitsInv'
  <2>1. Sleep /\ dev' = dev
    BY <1>7 DEF Look
  <2>2. waiter' = [waiter EXCEPT !.pc = IF Masks THEN "haltNow" ELSE "halt"]
    BY <2>1 DEF Sleep, Go
  <2>3. cpu' = [cpu EXCEPT !.open = TRUE] \/ (cpu' = cpu /\ ~Masks)
    BY <2>1 DEF Sleep
  <2>4. WaitTypes' /\ waiter'.pc = (IF Masks THEN "haltNow" ELSE "halt") /\ waiter'.how = waiter.how
    BY <1>1, <2>1, <2>2, <2>3 DEF WaitTypes, Pcs
  <2>5. cpu'.open
    BY <1>1, <2>3 DEF WaitTypes, Pcs, WaitsInv, Opened
  <2>6. InPlace' /\ Opened'
    BY <1>1, <2>4, <2>5 DEF InPlace, Opened, Masks
  <2>7. ~Ready' /\ ~Interrupted'
    BY <1>7, <2>1, <2>4 DEF Ready, Interrupted
  <2>8. Watched'
    BY <2>4, <2>7 DEF Watched
  <2> QED
    BY <1>2, <1>3, <2>1, <2>4, <2>6, <2>8 DEF WaitsInv
<1> QED
  BY <1>4, <1>5, <1>6, <1>7

\* The wait with an alarm, which puts the program's own aside and back.
LEMMA AlarmWaitStep ==
  ASSUME WaitsInv, CheckClock \/ Save \/ Arm \/ Restore \/ CheckAgain
  PROVE  WaitsInv'
<1>1. waiter.how = "alarm" /\ WaitTypes /\ cpu' = cpu /\ cpu.open
  BY DEF CheckClock, Save, Arm, Restore, CheckAgain, WaitsInv, InPlace, Opened, Masks
<1>2. ASSUME waiter'.how = "alarm", waiter'.pc \in {"save", "arm", "halt", "check", "done"}, WaitTypes', Armed', OwnAlarm'
      PROVE  WaitsInv'
  <2>1. InPlace' /\ Opened' /\ Watched'
    BY <1>1, <1>2 DEF InPlace, Opened, Watched
  <2> QED
    BY <1>2, <2>1 DEF WaitsInv
<1>3. ASSUME CheckClock PROVE WaitsInv'
  <2>1. PICK at \in Deadlines :
          waiter' = [waiter EXCEPT !.deadline = at, !.pc = IF dev.now >= at THEN "done" ELSE "save"]
    BY <1>3 DEF CheckClock
  <2>2. at \in Nat \ {0} /\ dev' = dev /\ waiter.pc = "idle"
    BY <1>3, WaitsAssumption DEF CheckClock
  <2>3. /\ waiter'.how = "alarm" /\ waiter'.deadline = at /\ waiter'.pc = (IF dev.now >= at THEN "done" ELSE "save")
        /\ WaitTypes'
    BY <1>1, <2>1, <2>2 DEF WaitTypes, Pcs
  <2>4. Armed' /\ OwnAlarm'
    BY <1>1, <2>2, <2>3 DEF WaitsInv, Armed, OwnAlarm
  <2> QED
    BY <1>2, <2>3, <2>4
<1>4. ASSUME Save PROVE WaitsInv'
  <2>1. /\ waiter' = [waiter EXCEPT !.saved = dev.alarm, !.keep = Kept(dev.alarm, waiter.deadline), !.pc = "arm"]
        /\ dev' = dev /\ waiter.pc = "save"
    BY <1>4 DEF Save
  <2>2. Kept(dev.alarm, waiter.deadline) \in BOOLEAN
    BY DEF Kept
  <2>3. /\ waiter'.how = "alarm" /\ waiter'.deadline = waiter.deadline /\ waiter'.saved = dev.alarm
        /\ waiter'.keep = Kept(dev.alarm, waiter.deadline) /\ waiter'.pc = "arm" /\ WaitTypes'
    BY ZenonT(60), <1>1, <2>1, <2>2 DEF WaitTypes, Pcs
  <2>4. Armed' /\ OwnAlarm'
    BY <1>1, <2>1, <2>3 DEF WaitsInv, Armed, OwnAlarm, Kept
  <2> QED
    BY <1>2, <2>3, <2>4
<1>5. ASSUME Arm PROVE WaitsInv'
  <2>1. waiter' = [waiter EXCEPT !.pc = "halt"] /\ waiter.pc = "arm"
        /\ dev' = IF waiter.keep THEN dev ELSE [dev EXCEPT !.alarm = waiter.deadline]
    BY <1>5 DEF Arm, Go
  <2>2. /\ waiter'.how = "alarm" /\ waiter'.deadline = waiter.deadline /\ waiter'.saved = waiter.saved
        /\ waiter'.keep = waiter.keep /\ waiter'.pc = "halt"
        /\ dev'.own = dev.own /\ dev'.rang = dev.rang /\ dev'.now = dev.now
        /\ dev'.alarm = IF waiter.keep THEN dev.alarm ELSE waiter.deadline
    BY <1>1, <2>1 DEF WaitTypes, Pcs
  <2>3. WaitTypes'
    BY <1>1, <2>1 DEF WaitTypes, Pcs
  <2>4. waiter.deadline # 0 /\ waiter.deadline \in Nat
    BY <1>1, <2>1 DEF WaitsInv, Armed, WaitTypes, Pcs
  <2>5. Armed' /\ OwnAlarm'
    BY <1>1, <2>1, <2>2, <2>4 DEF WaitsInv, Armed, OwnAlarm
  <2> QED
    BY <1>2, <2>2, <2>3, <2>5
<1>6. ASSUME Restore PROVE WaitsInv'
  <2>1. waiter' = [waiter EXCEPT !.pc = "check"] /\ waiter.pc = "woken"
        /\ dev' = IF waiter.keep THEN dev ELSE [dev EXCEPT !.alarm = waiter.saved]
    BY <1>6 DEF Restore, Go, PutBack
  <2>2. /\ waiter'.how = "alarm" /\ waiter'.deadline = waiter.deadline /\ waiter'.saved = waiter.saved
        /\ waiter'.keep = waiter.keep /\ waiter'.pc = "check"
        /\ dev'.own = dev.own /\ dev'.rang = dev.rang /\ dev'.now = dev.now
        /\ dev'.alarm = IF waiter.keep THEN dev.alarm ELSE waiter.saved
    BY <1>1, <2>1 DEF WaitTypes, Pcs
  <2>3. WaitTypes'
    BY <1>1, <2>1 DEF WaitTypes, Pcs
  <2>4. Armed' /\ OwnAlarm'
    BY <1>1, <2>1, <2>2 DEF WaitsInv, Armed, OwnAlarm
  <2> QED
    BY <1>2, <2>2, <2>3, <2>4
<1>7. ASSUME CheckAgain PROVE WaitsInv'
  <2>1. /\ waiter' = [waiter EXCEPT !.pc = IF dev.now >= waiter.deadline THEN "done" ELSE "save"]
        /\ dev' = dev /\ waiter.pc = "check"
    BY <1>7 DEF CheckAgain, Go
  <2>2. /\ waiter'.how = "alarm" /\ waiter'.deadline = waiter.deadline
        /\ waiter'.pc = (IF dev.now >= waiter.deadline THEN "done" ELSE "save") /\ WaitTypes'
    BY <1>1, <2>1 DEF WaitTypes, Pcs
  <2>3. Armed' /\ OwnAlarm'
    BY <1>1, <2>1, <2>2 DEF WaitsInv, Armed, OwnAlarm
  <2> QED
    BY <1>2, <2>2, <2>3
<1> QED
  BY <1>3, <1>4, <1>5, <1>6, <1>7

LEMMA WaitsStep == WaitsInv /\ [NextWaits]_waitVars => WaitsInv'
<1> SUFFICES ASSUME WaitsInv, [NextWaits]_waitVars PROVE WaitsInv'
  OBVIOUS
<1>1. CASE UNCHANGED waitVars
  BY <1>1 DEF waitVars, WaitsInv, WaitTypes, Pcs, InPlace, Opened, Watched, Armed, OwnAlarm, Masks, Ready, Interrupted
<1> QED
  BY <1>1, MachineStep, HaltStep, LookerStep, AlarmWaitStep DEF NextWaits

LEMMA WaitsAlways == SpecWaits => []WaitsInv
  BY WaitsStart, WaitsStep, PTL DEF SpecWaits

\* Nobody sleeps through what they wait for, whenever requests, handlers and instants come (irq_wait_flag,
\* wait_for_input, dma_wait, audio_wait, periph_wait, timer_halt_until_ns).
THEOREM WaitsWake == SpecWaits => []NoLostWakeup
<1>1. WaitsInv => NoLostWakeup
  BY DEF WaitsInv, WaitTypes, Pcs, Opened, Watched, Armed, NoLostWakeup, Masks
<1> QED
  BY <1>1, WaitsAlways, PTL

\* A wait leaves the program's own alarm armed or rung, and ends no sooner than asked (timer_halt_until_ns,
\* timer_wait_until_ns64).
THEOREM AlarmsAreKept == SpecWaits => []OwnAlarmKept
<1>1. WaitsInv => OwnAlarmKept
  BY DEF WaitsInv, WaitTypes, Pcs, Armed, OwnAlarm, OwnAlarmKept
<1> QED
  BY <1>1, WaitsAlways, PTL

-----------------------------------------------------------------------------
(* Address spaces. What is mapped is what the calls said, and the processor goes by nothing else. *)

IsTable(t) == t = [j \in Slots |-> t[j]]
IsSpace(sp) ==
    /\ sp = [dir |-> sp.dir]
    /\ sp.dir # NoDirectory => IsTable(sp.dir) /\ \A i \in Slots : sp.dir[i] # NoTable => IsTable(sp.dir[i])
SpaceTypes ==
    /\ spaces = [s \in Spaces |-> spaces[s]] /\ \A s \in Spaces : IsSpace(spaces[s])
    /\ maps = [s \in Spaces |-> maps[s]]
    /\ mmu = [active |-> mmu.active, guards |-> mmu.guards, tlb |-> mmu.tlb]
    /\ mmu.active \in Spaces \cup {NoSpace} /\ mmu.guards \in Spaces \cup {NoSpace}
SpacesInv == SpaceTypes /\ MapsAsTold /\ NoStaleTranslation

\* A page is in one place of one table.
LEMMA PagePlace ==
  ASSUME NEW p \in Pages
  PROVE  p \div PerTable \in Slots /\ p % PerTable \in Slots /\ PageAt(p \div PerTable, p % PerTable) = p
<1> DEFINE i == p \div PerTable
           j == p % PerTable
<1>1. PerTable \in Nat /\ PerTable > 0 /\ p \in Int /\ 0 <= p /\ p < PerTable * PerTable
  BY MmuAssumption DEF Pages, Top
<1>2. i \in Int /\ j \in Int /\ p = i * PerTable + j /\ 0 <= j /\ j < PerTable
  BY <1>1, Z3
<1>3. 0 <= i /\ i < PerTable
  <2> HIDE DEF i, j
  <2> QED
    BY <1>1, <1>2, Z3
<1> QED
  BY <1>1, <1>2, <1>3 DEF Slots, PageAt

\* A table is never taken for none.
LEMMA TablesAreSome == ASSUME NEW t, IsTable(t) PROVE t # NoTable
<1>1. 0 \in Slots
  BY MmuAssumption DEF Slots
<1>2. DOMAIN t = Slots
  BY DEF IsTable
<1>3. DOMAIN NoTable = {}
  BY DEF NoTable
<1> QED
  BY <1>1, <1>2, <1>3

\* What WithEntries does to a space is what it says: the pages of E, and no other, have another entry.
LEMMA EntriesWritten ==
  ASSUME NEW sp, IsSpace(sp), sp.dir # NoDirectory, NEW E, DOMAIN E \subseteq Pages
  PROVE  /\ IsSpace(WithEntries(sp, E)) /\ WithEntries(sp, E).dir # NoDirectory
         /\ \A p \in Pages : EntryOf(WithEntries(sp, E), p) = IF p \in DOMAIN E THEN E[p] ELSE EntryOf(sp, p)
<1> DEFINE Touched(i) == \E p \in DOMAIN E : p \div PerTable = i
           Table(i) == [j \in Slots |-> IF PageAt(i, j) \in DOMAIN E THEN E[PageAt(i, j)] ELSE OldEntry(sp, i, j)]
           dir == [i \in Slots |-> IF Touched(i) THEN Table(i) ELSE sp.dir[i]]
<1>1. WithEntries(sp, E) = [dir |-> dir]
  BY DEF WithEntries
<1>2. WithEntries(sp, E).dir = dir
  BY <1>1
<1>3. \A i : IsTable(Table(i))
  BY DEF IsTable
<1>4. IsTable(dir)
  BY DEF IsTable
<1>5. \A i \in Slots : dir[i] = IF Touched(i) THEN Table(i) ELSE sp.dir[i]
  OBVIOUS
<1>6. \A i, j \in Slots : Table(i)[j] = IF PageAt(i, j) \in DOMAIN E THEN E[PageAt(i, j)] ELSE OldEntry(sp, i, j)
  OBVIOUS
<1>7. \A p \in DOMAIN E : Touched(p \div PerTable)
  OBVIOUS
<1> HIDE DEF Touched, Table, dir
<1>8. dir # NoDirectory
  BY <1>4, TablesAreSome DEF NoDirectory, NoTable
<1>9. IsSpace(WithEntries(sp, E))
  <2>1. \A i \in Slots : dir[i] # NoTable => IsTable(dir[i])
    BY <1>3, <1>5 DEF IsSpace
  <2> QED
    BY <1>1, <1>2, <1>4, <2>1 DEF IsSpace
<1>10. ASSUME NEW p \in Pages
       PROVE  EntryOf(WithEntries(sp, E), p) = IF p \in DOMAIN E THEN E[p] ELSE EntryOf(sp, p)
  <2> DEFINE i == p \div PerTable
             j == p % PerTable
  <2>1. i \in Slots /\ j \in Slots /\ PageAt(i, j) = p
    BY PagePlace
  <2>2. EntryOf(WithEntries(sp, E), p) = IF dir[i] # NoTable THEN dir[i][j] ELSE NoEntry
    BY <1>2 DEF EntryOf, HasTable
  <2>3. EntryOf(sp, p) = OldEntry(sp, i, j)
    BY DEF EntryOf, HasTable, OldEntry
  <2>4. p \in DOMAIN E => Touched(i)
    BY <1>7
  <2> HIDE DEF i, j
  <2>5. CASE Touched(i)
    <3>1. dir[i] = Table(i) /\ dir[i] # NoTable
      BY <1>3, <1>5, <2>1, <2>5, TablesAreSome
    <3> QED
      BY <1>6, <2>1, <2>2, <2>3, <3>1
  <2>6. CASE ~Touched(i)
    BY <1>5, <2>1, <2>2, <2>3, <2>4, <2>6 DEF OldEntry
  <2> QED
    BY <2>5, <2>6
<1> QED
  BY <1>2, <1>8, <1>9, <1>10

\* A call that writes entries and tells the program of them: what it tells of the pages it writes is what it writes,
\* and of the others what was there already.
LEMMA ChangeKeeps ==
  ASSUME SpacesInv, NEW s \in Spaces, Live(s), NEW E, DOMAIN E \subseteq Pages, NEW T,
         DOMAIN E \subseteq DOMAIN T,
         \A p \in Pages : p \in DOMAIN T => T[p] = IF p \in DOMAIN E THEN E[p] ELSE EntryOf(spaces[s], p),
         Written(s, E), Told(s, T)
  PROVE  SpacesInv'
<1>1. /\ spaces' = [spaces EXCEPT ![s] = WithEntries(spaces[s], E)]
      /\ mmu' = [mmu EXCEPT !.tlb = Forget(mmu.tlb, s, DOMAIN E)]
      /\ maps' = [maps EXCEPT ![s] = [p \in Pages |-> IF p \in DOMAIN T THEN T[p] ELSE maps[s][p]]]
  BY DEF Written, Told
<1>2. SpaceTypes /\ MapsAsTold /\ NoStaleTranslation
  BY DEF SpacesInv
<1>3. /\ IsSpace(WithEntries(spaces[s], E)) /\ WithEntries(spaces[s], E).dir # NoDirectory
      /\ \A p \in Pages : EntryOf(WithEntries(spaces[s], E), p) = IF p \in DOMAIN E THEN E[p] ELSE EntryOf(spaces[s], p)
  BY <1>2, EntriesWritten DEF SpaceTypes, Live
<1>4. /\ spaces'[s] = WithEntries(spaces[s], E) /\ \A x \in Spaces \ {s} : spaces'[x] = spaces[x]
      /\ maps'[s] = [p \in Pages |-> IF p \in DOMAIN T THEN T[p] ELSE maps[s][p]]
      /\ \A x \in Spaces \ {s} : maps'[x] = maps[x]
  BY <1>1, <1>2 DEF SpaceTypes
<1>5. /\ mmu'.active = mmu.active /\ mmu'.guards = mmu.guards /\ mmu'.tlb = Forget(mmu.tlb, s, DOMAIN E)
      /\ mmu' = [active |-> mmu'.active, guards |-> mmu'.guards, tlb |-> mmu'.tlb]
  BY <1>1, <1>2 DEF SpaceTypes
<1>6. SpaceTypes'
  <2>1. spaces' = [x \in Spaces |-> spaces'[x]] /\ maps' = [x \in Spaces |-> maps'[x]]
    BY <1>1, <1>2 DEF SpaceTypes
  <2>2. \A x \in Spaces : IsSpace(spaces'[x])
    BY <1>2, <1>3, <1>4 DEF SpaceTypes
  <2> QED
    BY <1>2, <1>5, <2>1, <2>2 DEF SpaceTypes
<1>7. \A x \in Spaces : Live(x)' <=> Live(x)
  BY <1>3, <1>4 DEF Live
<1>8. \A p \in Pages : EntryOf(spaces[s], p) = maps[s][p]
  BY <1>2 DEF MapsAsTold
<1>9. \A p \in Pages : EntryOf(spaces'[s], p) = maps'[s][p]
  BY <1>3, <1>4, <1>8
<1>10. MapsAsTold'
  BY <1>2, <1>4, <1>7, <1>9 DEF MapsAsTold
<1>11. \A p \in Pages : p \notin DOMAIN E => maps'[s][p] = maps[s][p]
  BY <1>4, <1>8
<1>12. ASSUME mmu.active # NoSpace, NEW p \in Pages, mmu'.tlb[p] # NoEntry
       PROVE  mmu'.tlb[p] = maps'[mmu.active][p]
  <2>1. mmu.active \in Spaces /\ (mmu.tlb[p] # NoEntry => mmu.tlb[p] = maps[mmu.active][p])
    BY <1>2, <1>12 DEF SpaceTypes, NoStaleTranslation
  <2>2. CASE s = mmu.active
    BY <1>5, <1>11, <1>12, <2>1, <2>2 DEF Forget
  <2>3. CASE s # mmu.active
    BY <1>4, <1>5, <1>12, <2>1, <2>3 DEF Forget
  <2> QED
    BY <2>2, <2>3
<1>13. NoStaleTranslation'
  BY <1>2, <1>5, <1>7, <1>12 DEF NoStaleTranslation, SpaceTypes
<1> QED
  BY <1>6, <1>10, <1>13 DEF SpacesInv

LEMMA RangeInPages ==
  ASSUME NEW va \in Pages, NEW n \in Nat, Allowed(va, n) PROVE Range_(va, n) \subseteq Pages
<1>1. Top \in Nat
  BY MmuAssumption DEF Top
<1> QED
  BY <1>1 DEF Allowed, Range_, Pages

LEMMA MapKeeps ==
  ASSUME SpacesInv, NEW s \in Spaces, NEW va \in Pages, NEW pa, NEW n \in Nat, NEW flags, Map(s, va, pa, n, flags)
  PROVE  SpacesInv'
<1>1. Live(s) /\ Allowed(va, n)
  BY DEF Map
<1>2. PICK end \in va .. va + n : Mapped(s, va, pa, n, flags, end)
  BY DEF Map
<1> DEFINE E == [p \in Range_(va, end - va) |-> Entry(pa + (p - va), flags)]
<1>3. Written(s, E) /\ Told(s, E)
  BY <1>2 DEF Mapped
<1>4. DOMAIN E \subseteq Pages
  <2>1. Top \in Nat
    BY MmuAssumption DEF Top
  <2> QED
    BY <1>1, <2>1 DEF Allowed, Range_, Pages
<1> HIDE DEF E
<1> QED
  BY <1>1, <1>3, <1>4, ChangeKeeps

LEMMA UnmapKeeps ==
  ASSUME SpacesInv, NEW s \in Spaces, NEW va \in Pages, NEW n \in Nat, Unmap(s, va, n)
  PROVE  SpacesInv'
<1> DEFINE E == [p \in {q \in Range_(va, n) : HasTable(spaces[s], q)} |-> NoEntry]
           T == [p \in Range_(va, n) |-> NoEntry]
<1>1. Live(s) /\ Allowed(va, n) /\ Written(s, E) /\ Told(s, T)
  BY DEF Unmap, Unmapped
<1>2. Range_(va, n) \subseteq Pages
  BY <1>1, RangeInPages
<1>3. /\ DOMAIN E \subseteq Pages /\ DOMAIN E \subseteq DOMAIN T
      /\ \A p \in Pages : p \in DOMAIN T => T[p] = IF p \in DOMAIN E THEN E[p] ELSE EntryOf(spaces[s], p)
  BY <1>2 DEF EntryOf
<1> HIDE DEF E, T
<1> QED
  BY <1>1, <1>3, ChangeKeeps

LEMMA ProtectKeeps ==
  ASSUME SpacesInv, NEW s \in Spaces, NEW va \in Pages, NEW n \in Nat, NEW flags, Protect(s, va, n, flags)
  PROVE  SpacesInv'
<1> DEFINE E == [p \in Protected(s, va, n) |-> [EntryOf(spaces[s], p) EXCEPT !.flags = flags]]
           T == [p \in Protected(s, va, n) |-> [maps[s][p] EXCEPT !.flags = flags]]
<1>1. Live(s) /\ Allowed(va, n) /\ Written(s, E) /\ Told(s, T)
  BY DEF Protect
<1>2. Protected(s, va, n) \subseteq Pages
  BY <1>1, RangeInPages DEF Protected
<1>3. \A p \in Pages : EntryOf(spaces[s], p) = maps[s][p]
  BY <1>1 DEF SpacesInv, MapsAsTold
<1>4. /\ DOMAIN E \subseteq Pages /\ DOMAIN E \subseteq DOMAIN T
      /\ \A p \in Pages : p \in DOMAIN T => T[p] = IF p \in DOMAIN E THEN E[p] ELSE EntryOf(spaces[s], p)
  BY <1>2, <1>3
<1> HIDE DEF E, T
<1> QED
  BY <1>1, <1>4, ChangeKeeps

LEMMA SpacesStart == InitSpaces => SpacesInv
<1> SUFFICES ASSUME InitSpaces PROVE SpacesInv
  OBVIOUS
<1>1. \A s \in Spaces : spaces[s].dir = NoDirectory /\ IsSpace(spaces[s])
  BY DEF InitSpaces, IsSpace
<1> QED
  BY <1>1 DEF InitSpaces, SpacesInv, SpaceTypes, MapsAsTold, NoStaleTranslation, Live

\* A directory comes, empty, to a space that has none, so to none that is in use.
LEMMA SpaceInitKeeps == ASSUME SpacesInv, NEW s \in Spaces, SpaceInit(s) PROVE SpacesInv'
<1> DEFINE dir == [i \in Slots |-> NoTable]
<1>1. SpaceTypes /\ MapsAsTold /\ NoStaleTranslation /\ ~Live(s) /\ mmu' = mmu
  BY DEF SpacesInv, SpaceInit
<1>2. /\ spaces' = [spaces EXCEPT ![s].dir = dir] /\ maps' = [maps EXCEPT ![s] = NothingMapped]
  BY DEF SpaceInit
<1>3. IsTable(dir) /\ \A i \in Slots : dir[i] = NoTable
  BY DEF IsTable
<1> HIDE DEF dir
<1>4. dir # NoDirectory
  BY <1>3, TablesAreSome DEF NoTable, NoDirectory
<1>5. /\ spaces'[s] = [dir |-> dir] /\ \A x \in Spaces \ {s} : spaces'[x] = spaces[x]
      /\ maps'[s] = NothingMapped /\ \A x \in Spaces \ {s} : maps'[x] = maps[x]
  BY <1>1, <1>2 DEF SpaceTypes, IsSpace
<1>6. SpaceTypes'
  <2>1. spaces' = [x \in Spaces |-> spaces'[x]] /\ maps' = [x \in Spaces |-> maps'[x]]
    BY <1>1, <1>2 DEF SpaceTypes
  <2>2. IsSpace(spaces'[s])
    BY <1>3, <1>5 DEF IsSpace
  <2>3. \A x \in Spaces : IsSpace(spaces'[x])
    BY <1>1, <1>5, <2>2 DEF SpaceTypes
  <2> QED
    BY <1>1, <2>1, <2>3 DEF SpaceTypes
<1>7. \A p \in Pages : EntryOf(spaces'[s], p) = maps'[s][p]
  BY <1>3, <1>5, PagePlace DEF EntryOf, HasTable, NothingMapped
<1>8. MapsAsTold'
  BY <1>1, <1>5, <1>7 DEF MapsAsTold, Live
<1>9. mmu.active # s /\ mmu.guards # s
  BY <1>1, MmuAssumption DEF NoStaleTranslation, SpaceTypes, NoSpace, Live
<1>10. NoStaleTranslation'
  BY <1>1, <1>5, <1>9 DEF NoStaleTranslation, SpaceTypes, Live
<1> QED
  BY <1>6, <1>8, <1>10 DEF SpacesInv

LEMMA SpaceFreeKeeps == ASSUME SpacesInv, NEW s \in Spaces, SpaceFree(s) PROVE SpacesInv'
<1>1. SpaceTypes /\ MapsAsTold /\ NoStaleTranslation /\ s # mmu.active
  BY DEF SpacesInv, SpaceFree
<1>2. /\ spaces' = [spaces EXCEPT ![s].dir = NoDirectory] /\ maps' = [maps EXCEPT ![s] = NothingMapped]
      /\ mmu' = [mmu EXCEPT !.guards = IF mmu.guards = s THEN NoSpace ELSE mmu.guards]
  BY DEF SpaceFree
<1>3. /\ spaces'[s] = [dir |-> NoDirectory] /\ \A x \in Spaces \ {s} : spaces'[x] = spaces[x]
      /\ \A x \in Spaces \ {s} : maps'[x] = maps[x]
  BY <1>1, <1>2 DEF SpaceTypes, IsSpace
<1>4. /\ mmu'.active = mmu.active /\ mmu'.tlb = mmu.tlb
      /\ mmu'.guards = IF mmu.guards = s THEN NoSpace ELSE mmu.guards
      /\ mmu' = [active |-> mmu'.active, guards |-> mmu'.guards, tlb |-> mmu'.tlb]
  BY <1>1, <1>2 DEF SpaceTypes
<1>5. SpaceTypes'
  <2>1. spaces' = [x \in Spaces |-> spaces'[x]] /\ maps' = [x \in Spaces |-> maps'[x]]
    BY <1>1, <1>2 DEF SpaceTypes
  <2>2. \A x \in Spaces : IsSpace(spaces'[x])
    BY <1>1, <1>3 DEF SpaceTypes, IsSpace
  <2> QED
    BY <1>1, <1>4, <2>1, <2>2 DEF SpaceTypes
<1>6. MapsAsTold'
  BY <1>1, <1>3 DEF MapsAsTold, Live
<1>7. NoStaleTranslation'
  BY <1>1, <1>3, <1>4 DEF NoStaleTranslation, SpaceTypes, Live
<1> QED
  BY <1>5, <1>6, <1>7 DEF SpacesInv

\* What the processor does and is told, the tables as they are.
LEMMA ProcessorKeeps ==
  ASSUME SpacesInv,
         \/ \E s \in Spaces : Activate(s) \/ GuardTaskStacks(s)
         \/ Deactivate
         \/ \E page \in Pages, kept \in Keeps : Access(page, kept)
  PROVE  SpacesInv'
<1>1. SpaceTypes /\ MapsAsTold /\ NoStaleTranslation
  BY DEF SpacesInv
<1>2. spaces' = spaces /\ maps' = maps
  BY DEF Activate, GuardTaskStacks, Deactivate, Access
<1>3. MapsAsTold'
  BY <1>1, <1>2 DEF MapsAsTold, Live
<1>4. SpaceTypes' /\ NoStaleTranslation'
  <2>1. ASSUME NEW s \in Spaces, Activate(s) PROVE SpaceTypes' /\ NoStaleTranslation'
    <3>1. mmu' = [mmu EXCEPT !.active = s, !.tlb = NothingMapped] /\ Live(s)
      BY <2>1 DEF Activate
    <3>2. /\ mmu'.active = s /\ mmu'.guards = mmu.guards /\ mmu'.tlb = NothingMapped
          /\ mmu' = [active |-> mmu'.active, guards |-> mmu'.guards, tlb |-> mmu'.tlb]
      BY <1>1, <3>1 DEF SpaceTypes
    <3> QED
      BY <1>1, <1>2, <3>1, <3>2 DEF SpaceTypes, NoStaleTranslation, NothingMapped, Live
  <2>2. ASSUME NEW s \in Spaces, GuardTaskStacks(s) PROVE SpaceTypes' /\ NoStaleTranslation'
    <3>1. mmu' = [mmu EXCEPT !.guards = s] /\ Live(s)
      BY <2>2 DEF GuardTaskStacks
    <3>2. /\ mmu'.active = mmu.active /\ mmu'.guards = s /\ mmu'.tlb = mmu.tlb
          /\ mmu' = [active |-> mmu'.active, guards |-> mmu'.guards, tlb |-> mmu'.tlb]
      BY <1>1, <3>1 DEF SpaceTypes
    <3> QED
      BY <1>1, <1>2, <3>1, <3>2 DEF SpaceTypes, NoStaleTranslation, Live
  <2>3. ASSUME Deactivate PROVE SpaceTypes' /\ NoStaleTranslation'
    <3>1. mmu' = [mmu EXCEPT !.active = NoSpace]
      BY <2>3 DEF Deactivate
    <3>2. /\ mmu'.active = NoSpace /\ mmu'.guards = mmu.guards /\ mmu'.tlb = mmu.tlb
          /\ mmu' = [active |-> mmu'.active, guards |-> mmu'.guards, tlb |-> mmu'.tlb]
      BY <1>1, <3>1 DEF SpaceTypes
    <3> QED
      BY <1>1, <1>2, <3>2 DEF SpaceTypes, NoStaleTranslation, Live
  <2>4. ASSUME NEW page \in Pages, NEW kept, Access(page, kept) PROVE SpaceTypes' /\ NoStaleTranslation'
    <3> DEFINE tlb == [p \in Pages |-> IF p = page THEN EntryOf(spaces[mmu.active], page)
                                       ELSE IF p \in kept THEN mmu.tlb[p] ELSE NoEntry]
    <3>1. mmu' = [mmu EXCEPT !.tlb = tlb] /\ mmu.active # NoSpace
      BY <2>4 DEF Access
    <3>2. /\ mmu'.active = mmu.active /\ mmu'.guards = mmu.guards /\ mmu'.tlb = tlb
          /\ mmu' = [active |-> mmu'.active, guards |-> mmu'.guards, tlb |-> mmu'.tlb]
      BY <1>1, <3>1 DEF SpaceTypes
    <3>3. Live(mmu.active) /\ mmu.active \in Spaces
      BY <1>1, <3>1 DEF NoStaleTranslation, SpaceTypes
    <3>4. \A p \in Pages : tlb[p] # NoEntry => tlb[p] = maps[mmu.active][p]
      BY <1>1, <3>1, <3>3 DEF NoStaleTranslation, MapsAsTold
    <3> HIDE DEF tlb
    <3> QED
      BY <1>1, <1>2, <3>2, <3>3, <3>4 DEF SpaceTypes, NoStaleTranslation, Live
  <2> QED
    BY <2>1, <2>2, <2>3, <2>4
<1> QED
  BY <1>3, <1>4 DEF SpacesInv

LEMMA SpacesStep == SpacesInv /\ [NextSpaces]_mmuVars => SpacesInv'
<1> SUFFICES ASSUME SpacesInv, [NextSpaces]_mmuVars PROVE SpacesInv'
  OBVIOUS
<1>1. CASE \E s \in Spaces : SpaceInit(s) \/ SpaceFree(s)
  BY <1>1, SpaceInitKeeps, SpaceFreeKeeps
<1>2. CASE \E s \in Spaces, va \in Pages, n \in Lengths, flags \in Flags :
             Unmap(s, va, n) \/ Protect(s, va, n, flags) \/ \E off \in Moves : Map(s, va, va + off, n, flags)
  <2>1. Lengths \subseteq Nat
    BY MmuAssumption
  <2> QED
    BY <1>2, <2>1, MapKeeps, UnmapKeeps, ProtectKeeps
<1>3. CASE \E page \in Pages : GuardStack(page) \/ UnguardStack(page)
  <2>1. PICK page \in Pages : GuardStack(page) \/ UnguardStack(page)
    BY <1>3
  <2>2. mmu.guards \in Spaces
    BY <2>1 DEF SpacesInv, SpaceTypes, GuardStack, UnguardStack
  <2>3. 1 \in Nat
    OBVIOUS
  <2> QED
    BY <2>1, <2>2, <2>3, MapKeeps, UnmapKeeps DEF GuardStack, UnguardStack
<1>4. CASE \/ \E s \in Spaces : Activate(s) \/ GuardTaskStacks(s)
           \/ Deactivate
           \/ \E page \in Pages, kept \in Keeps : Access(page, kept)
  BY <1>4, ProcessorKeeps
<1>5. CASE UNCHANGED mmuVars
  BY <1>5 DEF mmuVars, SpacesInv, SpaceTypes, MapsAsTold, NoStaleTranslation, Live
<1> QED
  BY <1>1, <1>2, <1>3, <1>4, <1>5 DEF NextSpaces

\* Whatever is mapped, stopped half way, protected, freed, guarded and activated, the tables say what the calls said,
\* and the processor goes by no translation that is gone (src/ceres/mmu.c).
THEOREM TranslationsHold == SpecSpaces => []SpacesHold
<1>1. SpacesInv => SpacesHold
  BY DEF SpacesInv, SpacesHold
<1> QED
  BY <1>1, SpacesStart, SpacesStep, PTL DEF SpecSpaces

-----------------------------------------------------------------------------
(* Music. A channel is a song's or an effect's, and sounds like it. *)

IsChans(c) == c = [effects |-> c.effects, restore |-> c.restore, early |-> c.early, now |-> c.now,
                   updating |-> c.updating, voice |-> c.voice, sound |-> c.sound]

\* A channel is an effect's from its beginning to its end, and whoever takes it from a song's voice says so.  A voice
\* that no effect has is in its song's settings, or will be at its next note, or was an effect's before its song.
ChannelRight(c, g, ch) ==
    /\ Busy(c, ch) => c.sound[ch] = "sfx" /\ c.voice[ch] = "sfx" /\ (ch \in c.restore \/ ch \in c.early)
    /\ c.sound[ch] = "sfx" => Busy(c, ch)
    /\ c.sound[ch] = "note" => Used(g, ch) /\ (c.voice[ch] = g.is.name \/ ch \in c.early)
    /\ Used(g, ch) /\ ~Busy(c, ch) => c.voice[ch] = g.is.name \/ ch \in c.early \/ ch \in c.restore
MusicRight(c, g) == IsChans(c) /\ \A ch \in Channels : ChannelRight(c, g, ch)
IsSong(g) == g = Stopped \/ g = [on |-> g.on, is |-> g.is, looping |-> g.looping, row |-> g.row, started |-> g.started]
MusicInv == MusicRight(chans, song) /\ IsSong(song)

LEMMA SetSays ==
  ASSUME NEW c, IsChans(c), NEW S, NEW who
  PROVE  /\ IsChans(Set(c, S, who))
         /\ Set(c, S, who).effects = c.effects /\ Set(c, S, who).restore = c.restore
         /\ Set(c, S, who).early = c.early /\ Set(c, S, who).sound = c.sound
         /\ \A ch \in Channels : Set(c, S, who).voice[ch] = IF ch \in S THEN who ELSE c.voice[ch]
<1> DEFINE v == [ch \in Channels |-> IF ch \in S THEN who ELSE c.voice[ch]]
<1>1. PICK d : d = [c EXCEPT !.voice = v]
  OBVIOUS
<1>2. Set(c, S, who) = d
  BY <1>1 DEF Set
<1>3. \A ch \in Channels : v[ch] = IF ch \in S THEN who ELSE c.voice[ch]
  OBVIOUS
<1> HIDE DEF v
<1>4. d = [effects |-> c.effects, restore |-> c.restore, early |-> c.early, now |-> c.now,
           updating |-> c.updating, voice |-> v, sound |-> c.sound]
  BY <1>1 DEF IsChans
<1> QED
  BY <1>2, <1>3, <1>4 DEF IsChans

LEMMA SoundsSay ==
  ASSUME NEW c, IsChans(c), NEW S, NEW what
  PROVE  /\ IsChans(Sounds(c, S, what))
         /\ Sounds(c, S, what).effects = c.effects /\ Sounds(c, S, what).restore = c.restore
         /\ Sounds(c, S, what).early = c.early /\ Sounds(c, S, what).voice = c.voice
         /\ \A ch \in Channels : Sounds(c, S, what).sound[ch] = IF ch \in S THEN what ELSE c.sound[ch]
<1> DEFINE v == [ch \in Channels |-> IF ch \in S THEN what ELSE c.sound[ch]]
<1>1. PICK d : d = [c EXCEPT !.sound = v]
  OBVIOUS
<1>2. Sounds(c, S, what) = d
  BY <1>1 DEF Sounds
<1>3. \A ch \in Channels : v[ch] = IF ch \in S THEN what ELSE c.sound[ch]
  OBVIOUS
<1> HIDE DEF v
<1>4. d = [effects |-> c.effects, restore |-> c.restore, early |-> c.early, now |-> c.now,
           updating |-> c.updating, voice |-> c.voice, sound |-> v]
  BY <1>1 DEF IsChans
<1> QED
  BY <1>2, <1>3, <1>4 DEF IsChans

\* Effects that are over leave their channel silent, with the song's settings if it is to have them back.
LEMMA SfxUpdateRight == ASSUME NEW c, NEW g, MusicRight(c, g) PROVE MusicRight(SfxUpdate(c, g), g)
<1> DEFINE over == Over(c)
           es == [ch \in Channels |-> IF ch \in over THEN NoEffect ELSE c.effects[ch]]
<1>1. PICK e : e = [c EXCEPT !.effects = es]
  OBVIOUS
<1>2. IsChans(c) /\ \A ch \in Channels : ChannelRight(c, g, ch)
  BY DEF MusicRight
<1>3. e = [effects |-> es, restore |-> c.restore, early |-> c.early, now |-> c.now,
           updating |-> c.updating, voice |-> c.voice, sound |-> c.sound]
  BY <1>1, <1>2 DEF IsChans
<1>4. /\ IsChans(e) /\ e.restore = c.restore /\ e.early = c.early /\ e.voice = c.voice /\ e.sound = c.sound
      /\ \A ch \in Channels : e.effects[ch] = IF ch \in over THEN NoEffect ELSE c.effects[ch]
  BY <1>3 DEF IsChans
<1> DEFINE d == Sounds(e, over, "off")
<1>5. SfxUpdate(c, g) = IF g.on THEN Set(d, over \cap c.restore, g.is.name) ELSE d
  BY <1>1 DEF SfxUpdate
<1>6. \A ch \in Channels : Busy(e, ch) <=> Busy(c, ch) /\ ch \notin over
  <2>1. NoEffect.ms = 0
    BY DEF NoEffect
  <2> QED
    BY <1>4, <2>1 DEF Busy
<1>7. over \subseteq Channels /\ \A ch \in over : Busy(c, ch)
  BY DEF Over
<1> HIDE DEF over
<1>8. /\ IsChans(d) /\ d.effects = e.effects /\ d.restore = c.restore /\ d.early = c.early /\ d.voice = c.voice
      /\ \A ch \in Channels : d.sound[ch] = IF ch \in over THEN "off" ELSE c.sound[ch]
  BY <1>4, SoundsSay
<1> HIDE DEF d, es
<1>9. \A ch \in Channels : Busy(d, ch) <=> Busy(c, ch) /\ ch \notin over
  BY <1>6, <1>8 DEF Busy
<1>10. CASE g.on
  <2> DEFINE f == Set(d, over \cap c.restore, g.is.name)
  <2>1. /\ IsChans(f) /\ f.effects = d.effects /\ f.restore = c.restore /\ f.early = c.early /\ f.sound = d.sound
        /\ \A ch \in Channels : f.voice[ch] = IF ch \in over \cap c.restore THEN g.is.name ELSE c.voice[ch]
    BY <1>8, SetSays
  <2> HIDE DEF f
  <2>2. \A ch \in Channels : Busy(f, ch) <=> Busy(c, ch) /\ ch \notin over
    BY <1>9, <2>1 DEF Busy
  <2>3. ASSUME NEW ch \in Channels PROVE ChannelRight(f, g, ch)
    BY <1>2, <1>7, <1>8, <2>1, <2>2 DEF ChannelRight
  <2> QED
    BY <1>5, <1>10, <2>1, <2>3 DEF f, MusicRight
<1>11. CASE ~g.on
  <2>1. ASSUME NEW ch \in Channels PROVE ChannelRight(d, g, ch)
    BY <1>2, <1>7, <1>8, <1>9, <1>11 DEF ChannelRight, Used
  <2> QED
    BY <1>5, <1>8, <1>11, <2>1 DEF MusicRight
<1> QED
  BY <1>10, <1>11

LEMMA SilentMine == ASSUME NEW c, NEW g, NEW ch \in Channels PROVE ch \in Mine(c, g) <=> Used(g, ch) /\ ~Busy(c, ch)
  BY DEF Mine

\* After its song no note stays on, and whatever song comes next finds the effects' channels as they are.
LEMMA StopSongRight ==
  ASSUME NEW c, NEW g, MusicRight(c, g), NEW s, s = StopSong([c |-> c, g |-> g])
  PROVE  /\ MusicRight(s.c, Stopped) /\ s.g = Stopped
         /\ \A ch \in Channels : s.c.sound[ch] # "note"
<1> DEFINE d == Sounds(c, Mine(c, g), "off")
<1>1. s.c = d /\ s.g = Stopped
  BY DEF StopSong
<1>2. IsChans(c) /\ \A ch \in Channels : ChannelRight(c, g, ch)
  BY DEF MusicRight
<1>3. /\ IsChans(d) /\ d.effects = c.effects /\ d.restore = c.restore /\ d.early = c.early /\ d.voice = c.voice
      /\ \A ch \in Channels : d.sound[ch] = IF ch \in Mine(c, g) THEN "off" ELSE c.sound[ch]
  BY <1>2, SoundsSay
<1> HIDE DEF d
<1>4. \A ch \in Channels : Busy(d, ch) <=> Busy(c, ch)
  BY <1>3 DEF Busy
<1>5. \A ch \in Channels : ~Used(Stopped, ch)
  BY DEF Used, Stopped
<1>6. ASSUME NEW ch \in Channels PROVE ChannelRight(d, Stopped, ch) /\ d.sound[ch] # "note"
  BY <1>2, <1>3, <1>4, <1>5, SilentMine DEF ChannelRight
<1> QED
  BY <1>1, <1>3, <1>6 DEF MusicRight

\* A row's notes go to channels without an effect, and put on the song's settings where an effect had them.
LEMMA PlayRowRight ==
  ASSUME NEW c, NEW g, MusicRight(c, g), NEW s, s = PlayRow([c |-> c, g |-> g])
  PROVE  MusicRight(s.c, g) /\ s.g = g
<1> DEFINE st == [c |-> c, g |-> g]
           notes == Playing(st, "note")
           off == Playing(st, "-") \cup Playing(st, "x")
           c1 == Set(c, notes \cap c.restore, g.is.name)
           c2 == Sounds(c1, notes, "note")
           c3 == Sounds(c2, off, "off")
<1>1. PICK d : d = [c3 EXCEPT !.restore = c3.restore \ notes]
  OBVIOUS
<1>2. s.c = d /\ s.g = g
  BY <1>1 DEF PlayRow
<1>3. notes \subseteq Mine(c, g) /\ off \subseteq Mine(c, g) /\ notes \cap off = {}
  <2>1. st.c = c /\ st.g = g
    OBVIOUS
  <2> QED
    BY <2>1 DEF Playing
<1>4. IsChans(c) /\ \A ch \in Channels : ChannelRight(c, g, ch)
  BY DEF MusicRight
<1> HIDE DEF notes, off
<1>5. /\ IsChans(c1) /\ c1.effects = c.effects /\ c1.restore = c.restore /\ c1.early = c.early /\ c1.sound = c.sound
      /\ \A ch \in Channels : c1.voice[ch] = IF ch \in notes \cap c.restore THEN g.is.name ELSE c.voice[ch]
  BY <1>4, SetSays
<1> HIDE DEF c1
<1>6. /\ IsChans(c2) /\ c2.effects = c.effects /\ c2.restore = c.restore /\ c2.early = c.early /\ c2.voice = c1.voice
      /\ \A ch \in Channels : c2.sound[ch] = IF ch \in notes THEN "note" ELSE c.sound[ch]
  BY <1>5, SoundsSay
<1> HIDE DEF c2
<1>7. /\ IsChans(c3) /\ c3.effects = c.effects /\ c3.restore = c.restore /\ c3.early = c.early /\ c3.voice = c1.voice
      /\ \A ch \in Channels : c3.sound[ch] = IF ch \in off THEN "off" ELSE c2.sound[ch]
  BY <1>6, SoundsSay
<1> HIDE DEF c3
<1>8. /\ IsChans(d) /\ d.effects = c.effects /\ d.restore = c.restore \ notes /\ d.early = c.early
      /\ d.voice = c3.voice /\ d.sound = c3.sound
  BY <1>1, <1>7 DEF IsChans
<1>9. \A ch \in Channels : Busy(d, ch) <=> Busy(c, ch)
  BY <1>8 DEF Busy
<1>10. ASSUME NEW ch \in Channels PROVE ChannelRight(d, g, ch)
  <2>1. ch \in notes \/ ch \in off => Used(g, ch) /\ ~Busy(c, ch)
    BY <1>3, SilentMine
  <2>2. ChannelRight(c, g, ch)
    BY <1>4
  <2>3. d.sound[ch] = IF ch \in off THEN "off" ELSE IF ch \in notes THEN "note" ELSE c.sound[ch]
    BY <1>6, <1>7, <1>8
  <2>4. d.voice[ch] = IF ch \in notes /\ ch \in c.restore THEN g.is.name ELSE c.voice[ch]
    BY <1>5, <1>7, <1>8
  <2>5. CASE ch \in notes
    BY <1>3, <1>8, <1>9, <2>1, <2>2, <2>3, <2>4, <2>5 DEF ChannelRight
  <2>6. CASE ch \notin notes
    BY <1>8, <1>9, <2>1, <2>2, <2>3, <2>4, <2>6 DEF ChannelRight
  <2> QED
    BY <2>5, <2>6
<1> QED
  BY <1>2, <1>8, <1>10 DEF MusicRight

\* music_step: a row, or the end, or the first row again.
LEMMA MusicStepRight ==
  ASSUME NEW c, NEW g, MusicRight(c, g), IsSong(g), NEW s, s = MusicStep([c |-> c, g |-> g])
  PROVE  MusicRight(s.c, s.g) /\ IsSong(s.g)
<1>1. CASE ~g.on
  BY <1>1 DEF MusicStep
<1>2. CASE g.on
  <2> DEFINE next == g.row + 1
  <2>1. PICK h : h = [g EXCEPT !.row = next]
    OBVIOUS
  <2>2. g = [on |-> g.on, is |-> g.is, looping |-> g.looping, row |-> g.row, started |-> g.started]
    BY <1>2 DEF IsSong, Stopped
  <2>3. h = [on |-> g.on, is |-> g.is, looping |-> g.looping, row |-> next, started |-> g.started]
    <3> HIDE DEF next
    <3> QED
      BY <2>1, <2>2
  <2>4. PICK k : k = [h EXCEPT !.row = 0, !.started = c.now]
    OBVIOUS
  <2>5. k = [on |-> g.on, is |-> g.is, looping |-> g.looping, row |-> 0, started |-> c.now]
    BY <2>3, <2>4
  <2>6. /\ h.on = g.on /\ h.is = g.is /\ k.on = g.on /\ k.is = g.is
    BY <1>2, <2>3, <2>5
  <2>9. h = [on |-> h.on, is |-> h.is, looping |-> h.looping, row |-> h.row, started |-> h.started]
    BY <2>3
  <2>10. k = [on |-> k.on, is |-> k.is, looping |-> k.looping, row |-> k.row, started |-> k.started]
    BY <2>5
  <2>11. IsSong(h) /\ IsSong(k) /\ IsSong(Stopped)
    BY <2>9, <2>10 DEF IsSong
  <2>7. MusicRight(c, h) /\ MusicRight(c, k)
    BY <2>6 DEF MusicRight, ChannelRight, Used
  <2>8. s = IF h.row < h.is.length THEN PlayRow([c |-> c, g |-> h])
            ELSE IF ~h.looping THEN StopSong([c |-> c, g |-> h])
            ELSE PlayRow([c |-> c, g |-> k])
    BY <1>2, <2>1, <2>4 DEF MusicStep
  <2> QED
    BY <2>6, <2>7, <2>8, <2>11, PlayRowRight, StopSongRight
<1> QED
  BY <1>1, <1>2

\* A new effect: whatever channel is chosen.
LEMMA SfxPlayRight ==
  ASSUME NEW ms, ms # 0, NEW priority, MusicInv, SfxPlay(ms, priority)
  PROVE  MusicInv'
<1> DEFINE c == SfxUpdate(chans, song)
           S == Chosen(c, song, priority)
           c1 == Set(c, S, "sfx")
           d == Sounds(c1, S, "sfx")
           effect == [ms |-> ms, priority |-> priority, start |-> c.now]
           es == [ch \in Channels |-> IF ch \in S THEN effect ELSE d.effects[ch]]
           re == (d.restore \ S) \cup {ch \in S : Used(song, ch)}
           ea == (d.early \ S) \cup {ch \in S : ~Used(song, ch)}
<1>1. chans' = [d EXCEPT !.effects = es, !.restore = re, !.early = ea] /\ song' = song
  BY DEF SfxPlay
<1>2. MusicRight(c, song) /\ IsSong(song)
  BY SfxUpdateRight DEF MusicInv
<1> HIDE DEF c, S
<1>3. IsChans(c) /\ \A ch \in Channels : ChannelRight(c, song, ch)
  BY <1>2 DEF MusicRight
<1>4. /\ IsChans(c1) /\ c1.effects = c.effects /\ c1.restore = c.restore /\ c1.early = c.early /\ c1.sound = c.sound
      /\ \A ch \in Channels : c1.voice[ch] = IF ch \in S THEN "sfx" ELSE c.voice[ch]
  BY <1>3, SetSays
<1> HIDE DEF c1
<1>5. /\ IsChans(d) /\ d.effects = c.effects /\ d.restore = c.restore /\ d.early = c.early /\ d.voice = c1.voice
      /\ \A ch \in Channels : d.sound[ch] = IF ch \in S THEN "sfx" ELSE c.sound[ch]
  BY <1>4, SoundsSay
<1>6. effect.ms # 0
  OBVIOUS
<1>7. \A ch \in Channels : es[ch] = IF ch \in S THEN effect ELSE d.effects[ch]
  OBVIOUS
<1> HIDE DEF d, effect, es
<1>8. /\ IsChans(chans') /\ chans'.effects = es /\ chans'.restore = re /\ chans'.early = ea
      /\ chans'.voice = d.voice /\ chans'.sound = d.sound
  <2> HIDE DEF re, ea
  <2>1. chans' = [effects |-> es, restore |-> re, early |-> ea, now |-> d.now,
                  updating |-> d.updating, voice |-> d.voice, sound |-> d.sound]
    BY <1>1, <1>5 DEF IsChans
  <2> QED
    BY <2>1 DEF IsChans
<1>9. \A ch \in Channels : Busy(chans', ch) <=> ch \in S \/ Busy(c, ch)
  BY <1>5, <1>6, <1>7, <1>8 DEF Busy
<1>10. ASSUME NEW ch \in Channels PROVE ChannelRight(chans', song, ch)
  <2>1. CASE ch \in S
    <3>1. ch \in chans'.restore \/ ch \in chans'.early
      BY <1>8, <2>1
    <3>2. chans'.sound[ch] = "sfx" /\ chans'.voice[ch] = "sfx" /\ Busy(chans', ch)
      BY <1>4, <1>5, <1>8, <1>9, <2>1
    <3> QED
      BY <3>1, <3>2 DEF ChannelRight
  <2>2. CASE ch \notin S
    <3>1. (ch \in chans'.restore <=> ch \in c.restore) /\ (ch \in chans'.early <=> ch \in c.early)
      BY <1>5, <1>8, <2>2
    <3>2. chans'.sound[ch] = c.sound[ch] /\ chans'.voice[ch] = c.voice[ch] /\ (Busy(chans', ch) <=> Busy(c, ch))
      BY <1>4, <1>5, <1>8, <1>9, <2>2
    <3> QED
      BY <1>3, <3>1, <3>2 DEF ChannelRight
  <2> QED
    BY <2>1, <2>2
<1> QED
  BY <1>1, <1>2, <1>8, <1>10 DEF MusicInv, MusicRight

\* A new song: it has its settings on the channels that no effect has, and what an effect has stays an effect's.
LEMMA MusicPlayRight ==
  ASSUME NEW is, NEW loop \in BOOLEAN, MusicInv, MusicPlay(is, loop)
  PROVE  MusicInv'
<1> DEFINE s == StopSong([c |-> chans, g |-> song])
           g == [on |-> TRUE, is |-> is, looping |-> loop, row |-> -1, started |-> s.c.now]
           ea == {ch \in s.c.early : Busy(s.c, ch) \/ s.c.voice[ch] = "sfx"}
<1>1. PICK c : c = [s.c EXCEPT !.early = ea]
  OBVIOUS
<1> DEFINE c2 == Set(c, Mine(c, g), is.name)
           t == MusicStep([c |-> c2, g |-> g])
<1>2. chans' = t.c /\ song' = t.g
  BY <1>1 DEF MusicPlay, Becomes, Now
<1>3. /\ MusicRight(s.c, Stopped)
      /\ \A ch \in Channels : s.c.sound[ch] # "note"
  BY StopSongRight DEF MusicInv
<1>4. g.on /\ g.is = is /\ IsSong(g)
  BY DEF IsSong
<1> HIDE DEF s, g
<1>5. IsChans(s.c) /\ \A ch \in Channels : ChannelRight(s.c, Stopped, ch)
  BY <1>3 DEF MusicRight
<1>6. /\ IsChans(c) /\ c.effects = s.c.effects /\ c.restore = s.c.restore /\ c.early = ea
      /\ c.voice = s.c.voice /\ c.sound = s.c.sound
  <2> HIDE DEF ea
  <2> QED
    BY <1>1, <1>5 DEF IsChans
<1>7. /\ IsChans(c2) /\ c2.effects = c.effects /\ c2.restore = c.restore /\ c2.early = c.early /\ c2.sound = c.sound
      /\ \A ch \in Channels : c2.voice[ch] = IF ch \in Mine(c, g) THEN is.name ELSE c.voice[ch]
  BY <1>6, SetSays
<1> HIDE DEF c2
<1>8. \A ch \in Channels : (Busy(c2, ch) <=> Busy(s.c, ch)) /\ (Busy(c, ch) <=> Busy(s.c, ch))
  BY <1>6, <1>7 DEF Busy
<1>9. ASSUME NEW ch \in Channels PROVE ChannelRight(c2, g, ch)
  <2>1. ch \in Mine(c, g) <=> Used(g, ch) /\ ~Busy(s.c, ch)
    BY <1>8, SilentMine
  <2>2. ChannelRight(s.c, Stopped, ch) /\ s.c.sound[ch] # "note"
    BY <1>3, <1>5
  <2> QED
    BY <1>4, <1>6, <1>7, <1>8, <2>1, <2>2 DEF ChannelRight
<1>10. MusicRight(c2, g)
  BY <1>7, <1>9 DEF MusicRight
<1>11. MusicRight(t.c, t.g) /\ IsSong(t.g)
  BY <1>4, <1>10, MusicStepRight
<1> QED
  BY <1>2, <1>11 DEF MusicInv

LEMMA MusicStart == InitMusic => MusicInv
<1> SUFFICES ASSUME InitMusic PROVE MusicInv
  OBVIOUS
<1>1. /\ IsChans(chans) /\ \A ch \in Channels : chans.effects[ch] = NoEffect /\ chans.sound[ch] = "off"
      /\ song = Stopped
  BY DEF InitMusic, IsChans
<1>2. NoEffect.ms = 0 /\ ~Stopped.on
  BY DEF NoEffect, Stopped
<1>3. ASSUME NEW ch \in Channels PROVE ChannelRight(chans, song, ch)
  <2>1. ~Busy(chans, ch) /\ ~Used(song, ch)
    BY <1>1, <1>2 DEF Busy, Used
  <2> QED
    BY <1>1, <2>1 DEF ChannelRight
<1> QED
  BY <1>1, <1>3 DEF MusicInv, MusicRight, IsSong

\* Time, and where music_update stands, touch no channel.
LEMMA SameChannels ==
  ASSUME NEW c, NEW g, MusicRight(c, g), NEW now, NEW updating, NEW d,
         d = [c EXCEPT !.now = now] \/ d = [c EXCEPT !.updating = updating]
  PROVE  MusicRight(d, g)
<1>1. IsChans(c)
  BY DEF MusicRight
<1>2. /\ IsChans(d) /\ d.effects = c.effects /\ d.restore = c.restore /\ d.early = c.early
      /\ d.voice = c.voice /\ d.sound = c.sound
  BY <1>1 DEF IsChans
<1> QED
  BY <1>2 DEF MusicRight, ChannelRight, Busy

LEMMA MusicKeeps == MusicInv /\ [NextMusic]_musicVars => MusicInv'
<1> SUFFICES ASSUME MusicInv, [NextMusic]_musicVars PROVE MusicInv'
  OBVIOUS
<1>1. MusicRight(chans, song) /\ IsSong(song)
  BY DEF MusicInv
<1>2. CASE \E ms \in Durations, p \in Priorities : SfxPlay(ms, p)
  BY <1>2, MusicAssumption, SfxPlayRight
<1>3. CASE \E is \in Songs, loop \in BOOLEAN : MusicPlay(is, loop)
  BY <1>3, MusicPlayRight
<1>4. CASE SfxUpdates
  BY <1>1, <1>4, SfxUpdateRight DEF SfxUpdates, MusicInv
<1>5. CASE MusicUpdate
  <2>1. chans' = [SfxUpdate(chans, song) EXCEPT !.updating = song.on] /\ song' = song
    BY <1>5 DEF MusicUpdate
  <2>2. MusicRight(SfxUpdate(chans, song), song)
    BY <1>1, SfxUpdateRight
  <2> QED
    BY <1>1, <2>1, <2>2, SameChannels DEF MusicInv
<1>6. CASE CatchUp
  <2> DEFINE s == MusicStep([c |-> chans, g |-> song])
  <2>1. chans' = [s.c EXCEPT !.updating = s.g.on] /\ song' = s.g
    BY <1>6 DEF CatchUp, Now
  <2>2. MusicRight(s.c, s.g) /\ IsSong(s.g)
    BY <1>1, MusicStepRight
  <2> HIDE DEF s
  <2> QED
    BY <2>1, <2>2, SameChannels DEF MusicInv
<1>7. CASE CaughtUp
  BY <1>1, <1>7, SameChannels DEF CaughtUp, MusicInv
<1>8. CASE StepByHand
  BY <1>1, <1>8, MusicStepRight DEF StepByHand, Becomes, Now, MusicInv
<1>9. CASE MusicStop
  BY <1>1, <1>9, StopSongRight DEF MusicStop, Becomes, Now, MusicInv, IsSong
<1>10. CASE Tick
  BY <1>1, <1>10, SameChannels DEF Tick, MusicInv
<1>11. CASE UNCHANGED musicVars
  BY <1>1, <1>11 DEF musicVars, MusicInv, MusicRight, ChannelRight, IsChans, Busy
<1> QED
  BY <1>2, <1>3, <1>4, <1>5, <1>6, <1>7, <1>8, <1>9, <1>10, <1>11 DEF NextMusic

\* Whatever songs and effects are begun, ended and caught up with, in any order: an effect has its channel to its end,
\* and no note stays on after its song or sounds with an instrument that is not its song's (src/ceres/music.c).
THEOREM ChannelsAreShared == SpecMusic => []SoundsRight
<1>1. MusicInv => SoundsRight
  BY DEF MusicInv, MusicRight, ChannelRight, SoundsRight
<1> QED
  BY <1>1, MusicStart, MusicKeeps, PTL DEF SpecMusic

-----------------------------------------------------------------------------
(***************************************************************************)
(* Surroundings: the end of a program, and its signals.                    *)
(***************************************************************************)

IsEnds(e) == e = [tables |-> e.tables, from |-> e.from, exiting |-> e.exiting, ended |-> e.ended, next |-> e.next]
IsSigs(g) == /\ g = [handlers |-> g.handlers, ready |-> g.ready, divfault |-> g.divfault, hook |-> g.hook, left |-> g.left]
             /\ g.handlers = [s \in Signals |-> g.handlers[s]]
Numbers == Nat \ {0}
Runs == [handler : Nat, from : Tables \cup {"abort"}, at : Numbers]
EndTypes == /\ IsEnds(ends) /\ ends.next \in Numbers /\ ends.from \in Tables
            /\ ends.tables \in [Tables -> Seq(Numbers)] /\ ran \in Seq(Runs)

\* A table has its registrations in their order, and all of them have been made.
InOrder(t, n) == /\ \A i, j \in DOMAIN t : i < j => t[i] < t[j]
                 /\ \A i \in DOMAIN t : t[i] < n
Registered == \A t \in Tables : InOrder(ends.tables[t], ends.next)
\* What is still to run, by what has run.
Remaining(s, t, f) == \A i \in DOMAIN s : s[i].from = f => \A k \in DOMAIN t : Behind(t[k], s[i])
RanRight(s, n) ==
    /\ \A i \in DOMAIN s : s[i].handler < s[i].at /\ s[i].at <= n
    /\ \A i, j \in DOMAIN s : i < j /\ s[i].from \in Tables /\ s[j].from = s[i].from => Behind(s[j].handler, s[i])
RanInOrder == RanRight(ran, ends.next) /\ \A f \in Tables : Remaining(ran, ends.tables[f], f)
NoneLeft == ends.ended \in {0, 1} => ends.tables[ends.from] = <<>>
EndsInv == EndTypes /\ Registered /\ RanInOrder /\ NoneLeft

\* Only a program with the fault handlers installed has one of its own for a fault of the machine.
SigsInv == IsSigs(sigs) /\ FaultsWanted /\ (sigs.divfault \/ sigs.handlers["FPE"] = Handled => sigs.ready)

LEMMA PoppedProperties ==
  ASSUME NEW S, NEW t \in Seq(S), t # <<>>
  PROVE  /\ Popped(t).rest \in Seq(S) /\ Len(t) \in DOMAIN t /\ DOMAIN t = 1 .. Len(t) /\ Len(t) \in Nat
         /\ DOMAIN Popped(t).rest = DOMAIN t \ {Len(t)} /\ Popped(t).handler = t[Len(t)] /\ t[Len(t)] \in S
         /\ \A k \in DOMAIN Popped(t).rest : Popped(t).rest[k] = t[k]
<1> DEFINE n == Len(t) - 1
<1>1. n \in 0 .. Len(t) /\ Len(t) \in Nat /\ Len(t) > 0
  BY EmptySeq, LenProperties
<1>2. \A i \in 1 .. Len(t) : t[i] \in S
  BY <1>1, ElementOfSeq
<1>3. /\ SubSeq(t, 1, n) \in Seq(S) /\ Len(SubSeq(t, 1, n)) = n
      /\ \A i \in 1 .. n : SubSeq(t, 1, n)[i] = t[i]
  <2> HIDE DEF n
  <2>1. \A i \in 1 .. n : t[i] \in S
    BY <1>1, <1>2
  <2> QED
    BY <1>1, <2>1
<1>4. Popped(t).rest = SubSeq(t, 1, n) /\ Popped(t).handler = t[Len(t)]
  BY DEF Popped
<1>5. DOMAIN Popped(t).rest = 1 .. n /\ DOMAIN t = 1 .. Len(t)
  BY <1>3, <1>4, LenProperties
<1> QED
  BY <1>1, <1>2, <1>3, <1>4, <1>5

LEMMA AppendedProperties ==
  ASSUME NEW S, NEW t \in Seq(S), NEW x \in S
  PROVE  /\ Append(t, x) \in Seq(S) /\ DOMAIN Append(t, x) = DOMAIN t \cup {Len(t) + 1} /\ Len(t) + 1 \notin DOMAIN t
         /\ Append(t, x)[Len(t) + 1] = x /\ \A k \in DOMAIN t : Append(t, x)[k] = t[k]
<1>1. Len(t) \in Nat /\ DOMAIN t = 1 .. Len(t)
  BY LenProperties
<1>2. /\ Append(t, x) \in Seq(S) /\ Len(Append(t, x)) = Len(t) + 1
      /\ Append(t, x)[Len(t) + 1] = x /\ \A k \in 1 .. Len(t) : Append(t, x)[k] = t[k]
  BY AppendProperties
<1>3. DOMAIN Append(t, x) = 1 .. Len(t) + 1
  BY <1>2, LenProperties
<1> QED
  BY <1>1, <1>2, <1>3

LEMMA EndsStart == InitEnds => EndsInv /\ SigsInv
<1> SUFFICES ASSUME InitEnds PROVE EndsInv /\ SigsInv
  OBVIOUS
<1>1. /\ IsEnds(ends) /\ ends.tables = [t \in Tables |-> <<>>] /\ ends.from \in Tables /\ ends.next = 1
      /\ ends.ended = Running /\ ran = <<>>
  BY DEF InitEnds, IsEnds, Tables
<1>2. /\ IsSigs(sigs) /\ sigs.handlers["FPE"] = Default /\ sigs.handlers["ABRT"] = Default
      /\ ~sigs.divfault /\ ~sigs.hook
  BY DEF InitEnds, IsSigs, Signals
<1>3. <<>> \in Seq(Numbers) /\ <<>> \in Seq(Runs) /\ DOMAIN <<>> = {}
  OBVIOUS
<1>4. EndTypes
  BY <1>1, <1>3 DEF EndTypes, Numbers
<1>5. Registered /\ RanInOrder /\ NoneLeft
  BY <1>1, <1>3 DEF Registered, InOrder, RanInOrder, RanRight, Remaining, NoneLeft
<1>6. SigsInv
  BY <1>2 DEF SigsInv, FaultsWanted, Default, Handled
<1> QED
  BY <1>4, <1>5, <1>6 DEF EndsInv

\* atexit and at_quick_exit: a number above all others, behind nothing but what runs from now on.
LEMMA RegisterKeeps == ASSUME EndsInv, NEW table \in Tables, Atexit(table) PROVE EndsInv'
<1>1. EndTypes /\ Registered /\ RanInOrder /\ ran' = ran /\ ends.ended = Running
  BY DEF EndsInv, Atexit, Alive
<1> DEFINE u == ends.tables[table]
           t == Append(u, ends.next)
           ts == [ends.tables EXCEPT ![table] = t]
           n == ends.next + 1
<1>2. ends.next \in Numbers /\ n \in Numbers /\ n = ends.next + 1 /\ u \in Seq(Numbers)
  BY <1>1 DEF EndTypes, Numbers
<1>3. ends' = [ends EXCEPT !.tables = ts, !.next = n]
  BY <1>1 DEF Atexit, EndTypes, IsEnds
<1>4. /\ t \in Seq(Numbers) /\ DOMAIN t = DOMAIN u \cup {Len(u) + 1} /\ Len(u) + 1 \notin DOMAIN u
      /\ t[Len(u) + 1] = ends.next /\ \A k \in DOMAIN u : t[k] = u[k]
  BY <1>2, AppendedProperties
<1>5. DOMAIN u = 1 .. Len(u) /\ Len(u) \in Nat /\ \A k \in DOMAIN u : u[k] \in Numbers
  BY <1>2, LenProperties, ElementOfSeq
<1>6. ts \in [Tables -> Seq(Numbers)] /\ ts[table] = t /\ \A x \in Tables \ {table} : ts[x] = ends.tables[x]
  BY <1>1, <1>4 DEF EndTypes
<1>7. \A x \in Tables : \A k \in DOMAIN ends.tables[x] : ends.tables[x][k] \in Numbers
  BY <1>1, LenProperties, ElementOfSeq DEF EndTypes
<1>8. \A i \in DOMAIN ran : ran[i].at \in Numbers /\ ran[i].handler \in Nat
  <2>1. \A i \in DOMAIN ran : ran[i] \in Runs
    BY <1>1, LenProperties, ElementOfSeq DEF EndTypes
  <2> QED
    BY <2>1 DEF Runs
<1> HIDE DEF t, ts, n, u
<1>9. /\ IsEnds(ends') /\ ends'.tables = ts /\ ends'.from = ends.from /\ ends'.next = n /\ ends'.ended = ends.ended
  BY <1>1, <1>3 DEF EndTypes, IsEnds
<1>10. EndTypes'
  BY <1>1, <1>2, <1>6, <1>9 DEF EndTypes
<1>11. Registered'
  <2>1. InOrder(u, ends.next)
    BY <1>1 DEF Registered, u
  <2>2. InOrder(t, n)
    BY <1>2, <1>4, <1>5, <2>1, SMTT(30) DEF InOrder, Numbers
  <2>3. ASSUME NEW x \in Tables \ {table} PROVE InOrder(ts[x], n)
    <3>1. InOrder(ends.tables[x], ends.next) /\ ts[x] = ends.tables[x]
      BY <1>1, <1>6 DEF Registered
    <3> QED
      BY <1>2, <1>7, <3>1, SMTT(30) DEF InOrder, Numbers
  <2> QED
    BY <1>6, <1>9, <2>2, <2>3 DEF Registered
<1>12. RanInOrder'
  <2>1. RanRight(ran, n)
    BY <1>1, <1>2, <1>8, SMTT(30) DEF RanInOrder, RanRight, Numbers
  <2>2. Remaining(ran, t, table)
    <3>1. Remaining(ran, u, table) /\ RanRight(ran, ends.next)
      BY <1>1 DEF RanInOrder, u
    <3>2. \A i \in DOMAIN ran : Behind(ends.next, ran[i])
      BY <1>2, <1>8, <3>1 DEF RanRight, Behind, Numbers
    <3> QED
      BY <1>4, <3>1, <3>2 DEF Remaining
  <2>3. ASSUME NEW f \in Tables PROVE Remaining(ran, ts[f], f)
    BY <1>1, <1>6, <2>2 DEF RanInOrder
  <2> QED
    BY <1>1, <1>9, <2>1, <2>3 DEF RanInOrder
<1>13. NoneLeft'
  BY <1>1, <1>9 DEF NoneLeft, Running
<1> QED
  BY <1>10, <1>11, <1>12, <1>13 DEF EndsInv

\* A program ends with what is in its tables, or a handler is popped and runs.
LEMMA EndedKeeps ==
  ASSUME EndsInv, NEW status, ends' = End(ends, status), status % 256 \in {0, 1} => ends.tables[ends.from] = <<>>,
         ran' = ran \/ ran' = Ran(AbortHandler, "abort")
  PROVE  EndsInv'
<1>1. EndTypes /\ Registered /\ RanInOrder
  BY DEF EndsInv
<1> DEFINE low == status % 256
<1>2. ends' = [ends EXCEPT !.ended = low]
  BY DEF End
<1>3. low \in {0, 1} => ends.tables[ends.from] = <<>>
  OBVIOUS
<1> HIDE DEF low
<1>4. /\ IsEnds(ends') /\ ends'.tables = ends.tables /\ ends'.from = ends.from /\ ends'.next = ends.next
      /\ ends'.ended = low
  BY <1>1, <1>2 DEF EndTypes, IsEnds
<1>5. NoneLeft'
  BY <1>3, <1>4 DEF NoneLeft
<1>6. CASE ran' = ran
  BY <1>1, <1>4, <1>5, <1>6 DEF EndsInv, EndTypes, Registered, RanInOrder
<1>7. CASE ran' = Ran(AbortHandler, "abort")
  <2> DEFINE r == [handler |-> AbortHandler, from |-> "abort", at |-> ends.next]
  <2>1. r \in Runs /\ r.handler = 0 /\ r.at = ends.next /\ r.from \notin Tables /\ ran' = Append(ran, r)
    BY <1>1, <1>7 DEF AbortHandler, Runs, Tables, EndTypes, Ran
  <2> HIDE DEF r
  <2>2. /\ ran' \in Seq(Runs) /\ DOMAIN ran' = DOMAIN ran \cup {Len(ran) + 1} /\ Len(ran) + 1 \notin DOMAIN ran
        /\ ran'[Len(ran) + 1] = r /\ \A k \in DOMAIN ran : ran'[k] = ran[k]
    BY SMTT(30), <1>1, <2>1, AppendedProperties DEF EndTypes
  <2>3. RanRight(ran', ends.next)
    BY <1>1, <2>1, <2>2 DEF RanInOrder, RanRight, EndTypes, Numbers
  <2>4. ASSUME NEW f \in Tables PROVE Remaining(ran', ends.tables[f], f)
    BY <1>1, <2>1, <2>2 DEF RanInOrder, Remaining
  <2> QED
    BY <1>1, <1>4, <1>5, <2>2, <2>3, <2>4 DEF EndsInv, EndTypes, Registered, RanInOrder
<1> QED
  BY <1>6, <1>7

\* The last of a table is popped: what is left in it is behind it, and it was behind all that had run.
LEMMA RunKeeps == ASSUME EndsInv, RunHandler PROVE EndsInv'
<1>1. EndTypes /\ Registered /\ RanInOrder /\ ends.ended = Running
  BY DEF EndsInv, RunHandler, Alive
<1> DEFINE f == ends.from
           u == ends.tables[f]
<1>2. f \in Tables /\ u \in Seq(Numbers) /\ ends.next \in Numbers
  BY <1>1 DEF EndTypes
<1>3. CASE u = <<>>
  <2>1. ends' = End(ends, ends.exiting) /\ ran' = ran
    BY <1>3 DEF RunHandler
  <2> QED
    BY <1>3, <2>1, EndedKeeps
<1>4. CASE u # <<>>
  <2> DEFINE t == Popped(u).rest
             x == Popped(u).handler
             r == [handler |-> x, from |-> f, at |-> ends.next]
             ts == [ends.tables EXCEPT ![f] = t]
  <2>1. /\ t \in Seq(Numbers) /\ DOMAIN u = 1 .. Len(u) /\ Len(u) \in DOMAIN u /\ DOMAIN t = DOMAIN u \ {Len(u)}
        /\ \A k \in DOMAIN t : t[k] = u[k]
        /\ x = u[Len(u)] /\ x \in Numbers /\ Len(u) \in Nat
    BY <1>2, <1>4, PoppedProperties
  <2>2. ends' = [ends EXCEPT !.tables = ts] /\ ran' = Append(ran, r)
    BY <1>1, <1>4 DEF RunHandler, Ran, EndTypes, IsEnds
  <2>3. r \in Runs /\ r.handler = x /\ r.at = ends.next /\ r.from = f
    BY <1>2, <2>1 DEF Runs, Numbers
  <2>4. ts \in [Tables -> Seq(Numbers)] /\ ts[f] = t /\ \A g \in Tables \ {f} : ts[g] = ends.tables[g]
    BY <1>1, <1>2, <2>1 DEF EndTypes
  <2>5. InOrder(u, ends.next) /\ RanRight(ran, ends.next) /\ Remaining(ran, u, f)
    BY <1>1, <1>2 DEF Registered, RanInOrder
  <2> HIDE DEF r, t, x, ts, u, f
  <2>6. /\ ran' \in Seq(Runs) /\ DOMAIN ran' = DOMAIN ran \cup {Len(ran) + 1} /\ Len(ran) + 1 \notin DOMAIN ran
        /\ ran'[Len(ran) + 1] = r /\ \A k \in DOMAIN ran : ran'[k] = ran[k]
    BY SMTT(30), <1>1, <2>2, <2>3, AppendedProperties DEF EndTypes
  <2>7. /\ IsEnds(ends') /\ ends'.tables = ts /\ ends'.from = f /\ ends'.next = ends.next
        /\ ends'.ended = ends.ended
    BY <1>1, <2>2 DEF EndTypes, IsEnds, f
  <2>8. EndTypes'
    BY <1>1, <1>2, <2>4, <2>6, <2>7 DEF EndTypes
  <2>9. InOrder(t, ends.next) /\ \A k \in DOMAIN t : t[k] < x
    BY <2>1, <2>5 DEF InOrder
  <2>10. Registered'
    BY <1>1, <2>4, <2>7, <2>9 DEF Registered
  <2>11. RanRight(ran', ends.next)
    <3>1. DOMAIN ran = 1 .. Len(ran) /\ Len(ran) \in Nat
      BY <1>1, LenProperties DEF EndTypes
    <3>2. x < ends.next /\ ends.next <= ends.next
      BY <1>2, <2>1, <2>5 DEF InOrder, Numbers
    <3>3. \A i \in DOMAIN ran : ran[i].from = f => Behind(x, ran[i])
      BY <2>1, <2>5 DEF Remaining
    <3>4. \A i, j \in DOMAIN ran' : i < j => i \in DOMAIN ran
      BY <2>6, <3>1
    <3> QED
      BY <2>3, <2>5, <2>6, <3>2, <3>3, <3>4 DEF RanRight
  <2>12. ASSUME NEW g \in Tables PROVE Remaining(ran', ts[g], g)
    <3>1. Remaining(ran, ts[g], g)
      BY <1>1, <2>1, <2>4, <2>5 DEF Remaining, RanInOrder
    <3>2. r.from = g => \A k \in DOMAIN ts[g] : Behind(ts[g][k], r)
      BY <2>3, <2>4, <2>9 DEF Behind
    <3> QED
      BY <2>6, <3>1, <3>2 DEF Remaining
  <2>13. NoneLeft'
    BY <1>1, <2>7 DEF NoneLeft, Running
  <2> QED
    BY <2>7, <2>8, <2>10, <2>11, <2>12, <2>13 DEF EndsInv, RanInOrder
<1> QED
  BY <1>3, <1>4

\* The calls that end the program, and the signals.
LEMMA EndingKeeps ==
  ASSUME EndsInv, NEW s \in Signals,
         \/ \E status \in {0, 257}, table \in Tables : Exit(status, table)
         \/ EndNow(3) \/ RaiseSignal(s) \/ Abort \/ Fault(s)
  PROVE  EndsInv'
<1>1. ends.ended = Running
  BY DEF Exit, EndNow, RaiseSignal, Abort, Fault, Alive
<1>2. ASSUME NEW status, NEW table \in Tables, Exit(status, table) PROVE EndsInv'
  <2>1. ends' = [ends EXCEPT !.exiting = status, !.from = table] /\ ran' = ran
    BY <1>2 DEF Exit
  <2>2. /\ IsEnds(ends') /\ ends'.tables = ends.tables /\ ends'.from = table /\ ends'.next = ends.next
        /\ ends'.ended = ends.ended
    BY <2>1 DEF EndsInv, EndTypes, IsEnds
  <2> QED
    BY <1>1, <2>1, <2>2 DEF EndsInv, EndTypes, Registered, RanInOrder, NoneLeft, Running
<1>3. CASE EndNow(3)
  <2>1. ends' = End(ends, 3) /\ ran' = ran /\ 3 % 256 \notin {0, 1}
    BY <1>3 DEF EndNow
  <2> QED
    BY <2>1, EndedKeeps
<1>4. CASE RaiseSignal(s)
  <2>1. (128 + Number[s]) % 256 \notin {0, 1}
    BY DEF Signals, Number
  <2>2. CASE sigs.handlers[s] = Default
    BY <1>4, <2>1, <2>2, EndedKeeps DEF RaiseSignal
  <2>3. CASE sigs.handlers[s] # Default
    BY <1>4, <2>3 DEF RaiseSignal, EndsInv, EndTypes, Registered, RanInOrder, NoneLeft
  <2> QED
    BY <2>2, <2>3
<1>5. CASE Abort
  <2>1. ends' = End(ends, 134) /\ (ran' = ran \/ ran' = Ran(AbortHandler, "abort")) /\ 134 % 256 \notin {0, 1}
    BY <1>5 DEF Abort
  <2> QED
    BY <2>1, EndedKeeps
<1>6. CASE Fault(s)
  <2>1. ran' = ran /\ 139 % 256 \notin {0, 1} /\ (ends' = ends \/ ends' = End(ends, 139))
    BY <1>6 DEF Fault
  <2>2. CASE ends' = ends
    BY <2>1, <2>2 DEF EndsInv, EndTypes, Registered, RanInOrder, NoneLeft
  <2>3. CASE ends' = End(ends, 139)
    BY <2>1, <2>3, EndedKeeps
  <2> QED
    BY <2>1, <2>2, <2>3
<1> QED
  BY <1>2, <1>3, <1>4, <1>5, <1>6

\* What signal() sets goes together, and nothing else changes it.
LEMMA SignalsKeep == ASSUME SigsInv, NextEnd PROVE SigsInv'
<1>1. IsSigs(sigs) /\ FaultsWanted /\ (sigs.divfault \/ sigs.handlers["FPE"] = Handled => sigs.ready)
  BY DEF SigsInv
<1>2. ASSUME NEW s \in Signals, NEW h \in {Default, Ignore, Handled}, Signal(s, h) PROVE SigsInv'
  <2>1. CASE s \in Hardware /\ h = Handled /\ ~sigs.ready
    BY <1>1, <1>2, <2>1 DEF Signal, SigsInv, IsSigs, FaultsWanted
  <2>2. CASE ~(s \in Hardware /\ h = Handled /\ ~sigs.ready)
    <3> DEFINE hs == [sigs.handlers EXCEPT ![s] = h]
               left == sigs.left - 1
               div == IF s = "FPE" THEN DivFault(h) ELSE sigs.divfault
               hook == IF s = "ABRT" THEN h # Default ELSE sigs.hook
    <3>1. sigs' = [sigs EXCEPT !.handlers = hs, !.left = left, !.divfault = div, !.hook = hook]
      BY <1>2, <2>2 DEF Signal
    <3>2. hs = [x \in Signals |-> hs[x]] /\ \A x \in Signals : hs[x] = IF x = s THEN h ELSE sigs.handlers[x]
      BY <1>1 DEF IsSigs
    <3>3. "FPE" \in Signals /\ "ABRT" \in Signals /\ "FPE" \in Hardware
      BY DEF Signals, Hardware
    <3>4. IsSigs(sigs') /\ sigs'.handlers = hs /\ sigs'.ready = sigs.ready /\ sigs'.divfault = div /\ sigs'.hook = hook
      <4> HIDE DEF hs, left, div, hook
      <4>1. sigs' = [handlers |-> hs, ready |-> sigs.ready, divfault |-> div, hook |-> hook, left |-> left]
        BY <1>1, <3>1 DEF IsSigs
      <4> QED
        BY <3>2, <4>1 DEF IsSigs
    <3> HIDE DEF hs
    <3>5. FaultsWanted'
      BY <1>1, <2>2, <3>2, <3>3, <3>4 DEF FaultsWanted, DivFault, Default, Ignore, Handled
    <3>6. sigs'.divfault \/ sigs'.handlers["FPE"] = Handled => sigs'.ready
      BY <1>1, <2>2, <3>2, <3>3, <3>4 DEF DivFault, Default, Ignore, Handled
    <3> QED
      BY <3>4, <3>5, <3>6 DEF SigsInv
  <2> QED
    BY <2>1, <2>2
<1>3. CASE InstallFaultHandlers
  <2>1. sigs' = [sigs EXCEPT !.ready = TRUE]
    BY <1>3 DEF InstallFaultHandlers
  <2>2. /\ IsSigs(sigs') /\ sigs'.handlers = sigs.handlers /\ sigs'.divfault = sigs.divfault /\ sigs'.hook = sigs.hook
        /\ sigs'.ready
    BY <1>1, <2>1 DEF IsSigs
  <2> QED
    BY <1>1, <2>2 DEF SigsInv, FaultsWanted
<1>4. CASE Calls
  <2> DEFINE left == sigs.left - 1
  <2>1. sigs' = [sigs EXCEPT !.left = left]
    BY <1>4 DEF Calls
  <2> HIDE DEF left
  <2>2. /\ IsSigs(sigs') /\ sigs'.handlers = sigs.handlers /\ sigs'.divfault = sigs.divfault /\ sigs'.hook = sigs.hook
        /\ sigs'.ready = sigs.ready
    BY <1>1, <2>1 DEF IsSigs
  <2> QED
    BY <1>1, <2>2 DEF SigsInv, FaultsWanted
<1>5. CASE UNCHANGED sigs
  BY <1>1, <1>5 DEF SigsInv, FaultsWanted, IsSigs
<1>6. Calls \/ UNCHANGED sigs \/ InstallFaultHandlers
      \/ \E s \in Signals, h \in {Default, Ignore, Handled} : Signal(s, h)
  BY DEF NextEnd, Atexit, RunHandler, Abort, Exit, EndNow, RaiseSignal, Fault
<1> QED
  BY <1>2, <1>3, <1>4, <1>5, <1>6

LEMMA EndsKeep == ASSUME EndsInv, SigsInv, NextEnd PROVE EndsInv' /\ SigsInv'
<1> SUFFICES EndsInv'
  BY SignalsKeep
<1>1. ASSUME NEW table \in Tables, Atexit(table) PROVE EndsInv'
  BY <1>1, RegisterKeeps
<1>2. CASE RunHandler
  BY <1>2, RunKeeps
<1>3. ASSUME NEW s \in Signals,
             \/ \E status \in {0, 257}, table \in Tables : Exit(status, table)
             \/ EndNow(3) \/ RaiseSignal(s) \/ Abort \/ Fault(s)
      PROVE  EndsInv'
  BY <1>3, EndingKeeps
<1>4. CASE InstallFaultHandlers \/ \E s \in Signals, h \in {Default, Ignore, Handled} : Signal(s, h)
  <2>1. UNCHANGED <<ends, ran>>
    BY <1>4 DEF InstallFaultHandlers, Signal
  <2> QED
    BY <2>1, SMTT(30) DEF EndsInv, EndTypes, Registered, RanInOrder, NoneLeft
<1>5. PICK s \in Signals : TRUE
  BY DEF Signals
<1> QED
  BY <1>1, <1>2, <1>3, <1>4, <1>5 DEF NextEnd


-----------------------------------------------------------------------------
(* The environment. *)

EnvValues == Values \cup {Given, Unset}
Entries == [name : Names, value : EnvValues, block : Nat]
IsEnv(e) == e = [list |-> e.list, owned |-> e.owned, cap |-> e.cap, flags |-> e.flags, next |-> e.next]

\* A list of entries that stands for what was set: a name has one entry, and each block one owner.
StandsFor(list, s, b, next) ==
    /\ list \in Seq(Entries) /\ next \in Numbers /\ s \in [Names -> EnvValues]
    /\ \A i, j \in DOMAIN list : i # j => list[i].name # list[j].name /\ (list[i].block = 0 \/ list[i].block # list[j].block)
    /\ \A i \in DOMAIN list : s[list[i].name] = list[i].value /\ list[i].block < next
    /\ \A n \in Names : (\A i \in DOMAIN list : list[i].name # n) => s[n] = Unset
    /\ b = {list[i].block : i \in DOMAIN list} \ {0}
SetTo(s, n, v) == [s EXCEPT ![n] = v]
More(b, x) == b \cup {x}
Less(b, x) == b \ {x}
Added(list, x) == Append(list, x)
RoomIn(e) == /\ IsEnv(e) /\ e.owned \in BOOLEAN /\ e.cap \in Nat /\ e.flags \in Nat
             /\ e.owned => Len(e.list) + 1 <= e.cap /\ e.cap <= e.flags
EnvInv == RoomIn(env) /\ StandsFor(env.list, set, blocks, env.next)

LEMMA EnvStart == InitEnv => EnvInv
<1> SUFFICES ASSUME InitEnv PROVE EnvInv
  OBVIOUS
<1> DEFINE first == [i \in DOMAIN Loaded |-> [name |-> Loaded[i], value |-> Given, block |-> 0]]
<1>1. /\ IsEnv(env) /\ env.list = first /\ env.owned = FALSE /\ env.cap = 0 /\ env.flags = 0 /\ env.next = 1
  BY DEF InitEnv, IsEnv
<1>2. /\ Len(Loaded) \in Nat /\ DOMAIN Loaded = 1 .. Len(Loaded) /\ \A i \in DOMAIN Loaded : Loaded[i] \in Names
  BY EnvAssumption, LenProperties, ElementOfSeq
<1>3. first \in Seq(Entries)
  <2>1. \A i \in 1 .. Len(Loaded) : [name |-> Loaded[i], value |-> Given, block |-> 0] \in Entries
    BY <1>2 DEF Entries, EnvValues
  <2>2. first \in [1 .. Len(Loaded) -> Entries]
    BY <1>2, <2>1
  <2> HIDE DEF first
  <2> QED
    BY <1>2, <2>2 DEF Seq
<1>4. /\ DOMAIN first = DOMAIN Loaded
      /\ \A i \in DOMAIN Loaded : first[i].name = Loaded[i] /\ first[i].value = Given /\ first[i].block = 0
  OBVIOUS
<1>5. /\ set \in [Names -> EnvValues] /\ blocks = {}
      /\ \A n \in Names : set[n] = IF \E i \in DOMAIN Loaded : Loaded[i] = n THEN Given ELSE Unset
  BY DEF InitEnv, EnvValues
<1> HIDE DEF first
<1>6. RoomIn(env)
  <2>1. ~env.owned /\ env.owned \in BOOLEAN
    BY <1>1
  <2>2. env.cap \in Nat /\ env.flags \in Nat
    BY <1>1
  <2> QED
    BY <1>1, <2>1, <2>2 DEF RoomIn
<1>7. StandsFor(first, set, blocks, 1)
  <2>1. \A i, j \in DOMAIN first : i # j => first[i].name # first[j].name
    BY <1>4, EnvAssumption
  <2>2. {first[i].block : i \in DOMAIN first} \ {0} = {}
    BY <1>4
  <2>3. \A i \in DOMAIN first : set[first[i].name] = first[i].value /\ first[i].block < 1
    BY <1>2, <1>4, <1>5
  <2>4. \A n \in Names : (\A i \in DOMAIN first : first[i].name # n) => set[n] = Unset
    BY <1>4, <1>5
  <2> QED
    BY <1>3, <1>4, <1>5, <2>1, <2>2, <2>3, <2>4 DEF StandsFor, Numbers
<1> QED
  BY <1>1, <1>6, <1>7 DEF EnvInv

\* IndexOf finds the one entry of a name.
LEMMA FoundAtIndex ==
  ASSUME NEW list, NEW s, NEW b, NEW next, StandsFor(list, s, b, next), NEW n, Found(list, n) # {}
  PROVE  IndexOf(list, n) \in DOMAIN list /\ list[IndexOf(list, n)].name = n
<1>1. PICK k \in DOMAIN list : list[k].name = n
  BY DEF Found
<1>2. Found(list, n) = {k}
  BY <1>1 DEF Found, StandsFor
<1>3. k \in Int
  BY <1>1, LenProperties DEF StandsFor
<1>4. \E i \in Found(list, n) : \A j \in Found(list, n) : i <= j
  BY <1>2, <1>3
<1>5. IndexOf(list, n) \in Found(list, n)
  BY <1>4 DEF IndexOf
<1> QED
  BY <1>5 DEF Found

\* Getenv tells what was set.
LEMMA GetenvTells == ASSUME EnvInv, NEW n \in Names PROVE Getenv(n) = set[n]
<1>1. StandsFor(env.list, set, blocks, env.next)
  BY DEF EnvInv
<1>2. CASE Found(env.list, n) = {}
  BY <1>1, <1>2 DEF Getenv, Found, StandsFor
<1>3. CASE Found(env.list, n) # {}
  <2>1. IndexOf(env.list, n) \in DOMAIN env.list /\ env.list[IndexOf(env.list, n)].name = n
    BY <1>1, <1>3, FoundAtIndex
  <2> QED
    BY <1>1, <1>3, <2>1 DEF Getenv, StandsFor
<1> QED
  BY <1>2, <1>3

\* take_ownership and the growing of the copy leave the entries as they are, and room for them.
LEMMA GrownRoom ==
  ASSUME NEW e, RoomIn(e), e.list \in Seq(Entries), NEW mem \in 0 .. 2, NEW g, g = Grown(Owned(e, mem), mem)
  PROVE  RoomIn(g) /\ g.list = e.list /\ g.next = e.next /\ (e.owned => g.owned)
<1>1. Len(e.list) \in Nat /\ IsEnv(e) /\ e.cap \in Nat /\ e.flags \in Nat /\ e.owned \in BOOLEAN
  BY LenProperties DEF RoomIn
<1>2. Spare \in Nat /\ Spare >= 1
  BY EnvAssumption
<1> DEFINE o == Owned(e, mem)
<1>3. RoomIn(o) /\ o.list = e.list /\ o.next = e.next /\ (e.owned => o.owned)
  <2>1. CASE e.owned \/ mem < 2
    BY <2>1 DEF Owned
  <2>2. CASE ~e.owned /\ ~(mem < 2)
    <3> DEFINE room == Len(e.list) + Spare
    <3>1. o = [e EXCEPT !.owned = TRUE, !.cap = room, !.flags = room]
      BY <2>2 DEF Owned
    <3>2. room \in Nat /\ Len(e.list) + 1 <= room
      BY <1>1, <1>2
    <3> HIDE DEF room, o
    <3>3. IsEnv(o) /\ o.list = e.list /\ o.next = e.next /\ o.owned = TRUE /\ o.cap = room /\ o.flags = room
      BY <1>1, <3>1 DEF IsEnv
    <3>4. o.owned \in BOOLEAN /\ o.owned
      BY <3>3
    <3>5. Len(o.list) + 1 <= o.cap /\ o.cap <= o.flags /\ o.cap \in Nat /\ o.flags \in Nat
      BY <3>2, <3>3
    <3>6. RoomIn(o)
      BY <3>3, <3>4, <3>5 DEF RoomIn
    <3> QED
      BY <3>3, <3>4, <3>6
  <2> QED
    BY <1>1, <2>1, <2>2
<1> HIDE DEF o
<1>4. g = Grown(o, mem)
  BY DEF o
<1>5. IsEnv(o) /\ o.cap \in Nat /\ o.flags \in Nat /\ o.owned \in BOOLEAN /\ (o.owned => Len(o.list) + 1 <= o.cap /\ o.cap <= o.flags)
  BY <1>3 DEF RoomIn
<1> DEFINE more == o.cap * 2
<1>6. more \in Nat /\ more >= o.cap
  BY <1>5
<1>7. CASE ~Full(o) \/ mem = 0
  BY <1>3, <1>4, <1>7 DEF Grown
<1>8. CASE Full(o) /\ mem = 1
  <2>1. g = [o EXCEPT !.flags = more]
    BY <1>4, <1>8 DEF Grown
  <2> HIDE DEF more
  <2>2. IsEnv(g) /\ g.list = o.list /\ g.next = o.next /\ g.owned = o.owned /\ g.cap = o.cap /\ g.flags = more
    BY <1>5, <2>1 DEF IsEnv
  <2>3. g.owned => Len(g.list) + 1 <= g.cap /\ g.cap <= g.flags
    BY <1>5, <1>6, <2>2
  <2> QED
    BY <1>3, <1>5, <1>6, <2>2, <2>3 DEF RoomIn
<1>9. CASE Full(o) /\ mem = 2
  <2>1. g = [o EXCEPT !.flags = more, !.cap = more]
    BY <1>4, <1>9 DEF Grown
  <2> HIDE DEF more
  <2>2. IsEnv(g) /\ g.list = o.list /\ g.next = o.next /\ g.owned = o.owned /\ g.cap = more /\ g.flags = more
    BY <1>5, <2>1 DEF IsEnv
  <2>3. g.owned => Len(g.list) + 1 <= g.cap /\ g.cap <= g.flags
    BY <1>1, <1>3, <1>5, <1>6, <2>2
  <2> QED
    BY <1>3, <1>5, <1>6, <2>2, <2>3 DEF RoomIn
<1> QED
  BY <1>7, <1>8, <1>9


\* Setenv of a name that has an entry, and of one that has none.
LEMMA ReplacedStands ==
  ASSUME NEW list, NEW s, NEW b, NEW next, StandsFor(list, s, b, next), NEW n \in Names, NEW v \in Values,
         NEW at \in DOMAIN list, list[at].name = n,
         NEW new, new = [list EXCEPT ![at] = [name |-> n, value |-> v, block |-> next]]
  PROVE  /\ StandsFor(new, [s EXCEPT ![n] = v], (b \ {list[at].block}) \cup {next}, next + 1) /\ Len(new) = Len(list)
<1>1. list \in Seq(Entries) /\ Len(list) \in Nat /\ DOMAIN list = 1 .. Len(list) /\ next \in Numbers
      /\ s \in [Names -> EnvValues]
  BY LenProperties DEF StandsFor
<1> DEFINE entry == [name |-> n, value |-> v, block |-> next]
<1>2. entry \in Entries /\ entry.name = n /\ entry.value = v /\ entry.block = next
  BY <1>1 DEF Entries, EnvValues, Numbers
<1>3. new = [list EXCEPT ![at] = entry]
  OBVIOUS
<1> HIDE DEF entry
<1>4. new \in Seq(Entries) /\ Len(new) = Len(list) /\ DOMAIN new = DOMAIN list
      /\ \A i \in DOMAIN list : new[i] = IF i = at THEN entry ELSE list[i]
  BY <1>1, <1>2, <1>3, ExceptSeq
<1>5. \A i \in DOMAIN list : list[i] \in Entries
  BY <1>1, ElementOfSeq
<1>6. next + 1 \in Numbers /\ \A i \in DOMAIN list : list[i].block \in Nat /\ list[i].block < next /\ list[i].name \in Names
  BY <1>1, <1>5 DEF Numbers, Entries, StandsFor
<1> DEFINE t == [s EXCEPT ![n] = v]
<1>7. t \in [Names -> EnvValues] /\ \A m \in Names : t[m] = IF m = n THEN v ELSE s[m]
  BY <1>1 DEF EnvValues
<1>8. \A i \in DOMAIN list : i # at => list[i].name # n
  BY DEF StandsFor
<1> HIDE DEF t
<1>9. \A i, j \in DOMAIN new : i # j => new[i].name # new[j].name /\ (new[i].block = 0 \/ new[i].block # new[j].block)
  <2>1. \A i, j \in DOMAIN list : i # j => list[i].name # list[j].name /\ (list[i].block = 0 \/ list[i].block # list[j].block)
    BY DEF StandsFor
  <2>2. \A i \in DOMAIN list : list[i].block # next
    BY <1>1, <1>6 DEF Numbers
  <2> QED
    BY <1>2, <1>4, <1>8, <2>1, <2>2
<1>10. \A i \in DOMAIN new : t[new[i].name] = new[i].value /\ new[i].block < next + 1
  <2>1. \A i \in DOMAIN list : s[list[i].name] = list[i].value
    BY DEF StandsFor
  <2>2. next < next + 1 /\ \A i \in DOMAIN list : list[i].block < next + 1
    BY <1>1, <1>6 DEF Numbers
  <2>3. TAKE i \in DOMAIN new
  <2>4. CASE i = at
    BY <1>2, <1>4, <1>7, <2>2, <2>4
  <2>5. CASE i # at
    BY <1>4, <1>6, <1>7, <1>8, <2>1, <2>2, <2>5
  <2> QED
    BY <2>4, <2>5
<1>11. \A m \in Names : (\A i \in DOMAIN new : new[i].name # m) => t[m] = Unset
  <2>1. \A m \in Names : (\A i \in DOMAIN list : list[i].name # m) => s[m] = Unset
    BY DEF StandsFor
  <2> SUFFICES ASSUME NEW m \in Names, \A i \in DOMAIN new : new[i].name # m PROVE t[m] = Unset
    OBVIOUS
  <2>2. new[at].name = n /\ m # n
    BY <1>2, <1>4
  <2>3. \A i \in DOMAIN list : list[i].name # m
    BY <1>4, <2>2
  <2> QED
    BY <1>7, <2>1, <2>2, <2>3
<1>12. (b \ {list[at].block}) \cup {next} = {new[i].block : i \in DOMAIN new} \ {0}
  <2>1. b = {list[i].block : i \in DOMAIN list} \ {0}
        /\ \A i, j \in DOMAIN list : i # j => list[i].block = 0 \/ list[i].block # list[j].block
    BY DEF StandsFor
  <2>2. next # 0
    BY <1>1 DEF Numbers
  <2>3. \A x : x \in {new[i].block : i \in DOMAIN new} <=> x = next \/ \E i \in DOMAIN list \ {at} : x = list[i].block
    BY <1>2, <1>4
  <2>4. \A x : x \in b \ {list[at].block} <=> x # 0 /\ \E i \in DOMAIN list \ {at} : x = list[i].block
    BY <2>1
  <2> QED
    BY <2>2, <2>3, <2>4
<1> QED
  BY <1>4, <1>6, <1>7, <1>9, <1>10, <1>11, <1>12 DEF StandsFor, t

LEMMA AddedStands ==
  ASSUME NEW list, NEW s, NEW b, NEW next, StandsFor(list, s, b, next), 
         NEW entry \in Entries, entry.block = next, Found(list, entry.name) = {},
         NEW t, t = SetTo(s, entry.name, entry.value), NEW new, new = Added(list, entry)
  PROVE  StandsFor(new, t, More(b, next), next + 1) /\ Len(new) = Len(list) + 1
<1>1. list \in Seq(Entries) /\ Len(list) \in Nat /\ DOMAIN list = 1 .. Len(list) /\ next \in Numbers
      /\ s \in [Names -> EnvValues]
  BY LenProperties DEF StandsFor
<1> DEFINE n == entry.name
           v == entry.value
           k == Len(list) + 1
<1>2. entry \in Entries /\ entry.name = n /\ entry.value = v /\ entry.block = next /\ n \in Names /\ v \in EnvValues
  BY DEF Entries
<1>3. new = Append(list, entry)
  BY DEF Added
<1>4. new \in Seq(Entries) /\ DOMAIN new = DOMAIN list \cup {k} /\ k \notin DOMAIN list
      /\ new[k] = entry /\ \A i \in DOMAIN list : new[i] = list[i]
  BY <1>1, <1>2, <1>3, AppendedProperties
<1>5. Len(new) = k
  BY <1>1, <1>2, <1>3, AppendProperties
<1>6. \A i \in DOMAIN list : list[i] \in Entries
  BY <1>1, ElementOfSeq
<1>7. next + 1 \in Numbers /\ \A i \in DOMAIN list : list[i].block \in Nat /\ list[i].block < next /\ list[i].name \in Names
  BY <1>1, <1>6 DEF Numbers, Entries, StandsFor
<1>8. t \in [Names -> EnvValues] /\ \A m \in Names : t[m] = IF m = n THEN v ELSE s[m]
  BY <1>1, <1>2 DEF SetTo
<1>9. \A i \in DOMAIN list : list[i].name # n
  BY DEF Found
<1> HIDE DEF n, v, k
<1>10. \A i, j \in DOMAIN new : i # j => new[i].name # new[j].name /\ (new[i].block = 0 \/ new[i].block # new[j].block)
  <2>1. \A i, j \in DOMAIN list : i # j => list[i].name # list[j].name /\ (list[i].block = 0 \/ list[i].block # list[j].block)
    BY DEF StandsFor
  <2>2. \A i \in DOMAIN list : list[i].block # next
    BY <1>1, <1>7 DEF Numbers
  <2> QED
    BY <1>2, <1>4, <1>9, <2>1, <2>2
<1>11. \A i \in DOMAIN new : t[new[i].name] = new[i].value /\ new[i].block < next + 1
  <2>1. \A i \in DOMAIN list : s[list[i].name] = list[i].value
    BY DEF StandsFor
  <2>2. next < next + 1 /\ \A i \in DOMAIN list : list[i].block < next + 1
    BY <1>1, <1>7 DEF Numbers
  <2> QED
    BY <1>2, <1>4, <1>7, <1>8, <1>9, <2>1, <2>2
<1>12. \A m \in Names : (\A i \in DOMAIN new : new[i].name # m) => t[m] = Unset
  BY <1>2, <1>4, <1>8 DEF StandsFor
<1>13. More(b, next) = {new[i].block : i \in DOMAIN new} \ {0}
  <2>1. b = {list[i].block : i \in DOMAIN list} \ {0} /\ next # 0
    BY <1>1 DEF StandsFor, Numbers
  <2>2. \A x : x \in {new[i].block : i \in DOMAIN new} <=> x = next \/ \E i \in DOMAIN list : x = list[i].block
    BY <1>2, <1>4
  <2>3. \A x : x \in More(b, next) <=> x \in {new[i].block : i \in DOMAIN new} \ {0}
    BY <2>1, <2>2, ZenonT(40) DEF More
  <2> QED
    BY <2>3
<1> QED
  BY <1>4, <1>5, <1>7, <1>8, <1>10, <1>11, <1>12, <1>13 DEF StandsFor, n, v, k

\* Without one entry: those before it, and those after it one place further down.
LEMMA WithoutProperties ==
  ASSUME NEW S, NEW list \in Seq(S), NEW at \in DOMAIN list
  PROVE  /\ Without(list, at) \in Seq(S) /\ Len(Without(list, at)) = Len(list) - 1
         /\ DOMAIN Without(list, at) = 1 .. Len(list) - 1
         /\ \A i \in 1 .. Len(list) - 1 : Without(list, at)[i] = list[IF i < at THEN i ELSE i + 1]
<1> DEFINE n == Len(list)
           f == SubSeq(list, 1, at - 1)
           r == SubSeq(list, at + 1, n)
<1>1. n \in Nat /\ DOMAIN list = 1 .. n /\ at \in 1 .. n
  BY LenProperties
<1>2. \A i \in 1 .. n : list[i] \in S
  BY <1>1, ElementOfSeq
<1>3. f \in Seq(S) /\ Len(f) = at - 1 /\ \A i \in 1 .. at - 1 : f[i] = list[i]
  <2>1. 1 \in 1 .. n + 1 /\ at - 1 \in 0 .. n
    BY <1>1
  <2> QED
    BY <1>1, <1>2, <2>1, SubSeqProperties
<1>4. r \in Seq(S) /\ Len(r) = n - at /\ \A i \in 1 .. n - at : r[i] = list[at + i]
  <2>1. at + 1 \in 1 .. n + 1 /\ n \in at .. n
    BY <1>1
  <2> QED
    BY <1>1, <1>2, <2>1, SubSeqProperties
<1> HIDE DEF n, f, r
<1>5. /\ f \o r \in Seq(S) /\ Len(f \o r) = (at - 1) + (n - at)
      /\ \A i \in 1 .. (at - 1) + (n - at) : (f \o r)[i] = IF i <= at - 1 THEN f[i] ELSE r[i - (at - 1)]
  <2>1. /\ f \o r \in Seq(S) /\ Len(f \o r) = Len(f) + Len(r)
        /\ \A i \in 1 .. Len(f) + Len(r) : (f \o r)[i] = IF i <= Len(f) THEN f[i] ELSE r[i - Len(f)]
    BY <1>3, <1>4, ConcatProperties, Zenon
  <2>2. Len(f) = at - 1 /\ Len(r) = n - at
    BY <1>3, <1>4
  <2> QED
    BY <2>1, <2>2, Zenon
<1>6. (at - 1) + (n - at) = n - 1
  BY <1>1
<1>7. DOMAIN (f \o r) = 1 .. n - 1
  BY <1>5, <1>6, LenProperties
<1>8. ASSUME NEW i \in 1 .. n - 1 PROVE (f \o r)[i] = list[IF i < at THEN i ELSE i + 1]
  <2>1. CASE i < at
    <3>1. i \in 1 .. at - 1
      BY <1>1, <2>1
    <3> QED
      BY <1>3, <1>5, <1>6, <2>1, <3>1
  <2>2. CASE ~(i < at)
    <3>1. i - (at - 1) \in 1 .. n - at /\ at + (i - (at - 1)) = i + 1 /\ ~(i <= at - 1)
      BY <1>1, <2>2
    <3> QED
      BY <1>4, <1>5, <1>6, <2>2, <3>1
  <2> QED
    BY <2>1, <2>2
<1> QED
  BY <1>5, <1>6, <1>7, <1>8 DEF Without, n, f, r


LEMMA RemovedStands ==
  ASSUME NEW list, NEW s, NEW b, NEW next, StandsFor(list, s, b, next), 
         NEW at \in DOMAIN list, NEW t, t = SetTo(s, list[at].name, Unset), NEW new, new = Without(list, at)
  PROVE  StandsFor(new, t, Less(b, list[at].block), next) /\ Len(new) = Len(list) - 1
<1>1. list \in Seq(Entries) /\ Len(list) \in Nat /\ DOMAIN list = 1 .. Len(list) /\ next \in Numbers
      /\ s \in [Names -> EnvValues]
  BY LenProperties DEF StandsFor
<1> DEFINE from(i) == IF i < at THEN i ELSE i + 1
           n == list[at].name
<1>2. /\ new \in Seq(Entries) /\ Len(new) = Len(list) - 1 /\ DOMAIN new = 1 .. Len(list) - 1
      /\ \A i \in DOMAIN new : new[i] = list[from(i)]
  BY <1>1, WithoutProperties
<1>3. /\ \A i \in DOMAIN new : from(i) \in DOMAIN list \ {at}
      /\ \A i, j \in DOMAIN new : i # j => from(i) # from(j)
  BY <1>1, <1>2
<1>4. \A k \in DOMAIN list \ {at} : \E i \in DOMAIN new : from(i) = k
  <2>1. TAKE k \in DOMAIN list \ {at}
  <2>2. CASE k < at
    <3>1. k \in DOMAIN new /\ from(k) = k
      BY <1>1, <1>2, <2>2
    <3> QED
      BY <3>1
  <2>3. CASE ~(k < at)
    <3>1. k - 1 \in DOMAIN new /\ from(k - 1) = k
      BY <1>1, <1>2, <2>3
    <3> QED
      BY <3>1
  <2> QED
    BY <2>2, <2>3
<1>5. t \in [Names -> EnvValues] /\ \A m \in Names : t[m] = IF m = n THEN Unset ELSE s[m]
  <2>1. n \in Names
    <3>1. list[at] \in Entries
      BY <1>1, ElementOfSeq
    <3> QED
      BY <3>1 DEF Entries
  <2> QED
    BY <1>1, <2>1 DEF EnvValues, SetTo
<1> HIDE DEF from, n
<1>6. \A i, j \in DOMAIN list : i # j => list[i].name # list[j].name /\ (list[i].block = 0 \/ list[i].block # list[j].block)
  BY DEF StandsFor
<1>7. \A i \in DOMAIN list : s[list[i].name] = list[i].value /\ list[i].block < next /\ list[i].name \in Names
  <2>1. \A i \in DOMAIN list : list[i] \in Entries
    BY <1>1, ElementOfSeq
  <2> QED
    BY <2>1 DEF StandsFor, Entries
<1>8. \A i, j \in DOMAIN new : i # j => new[i].name # new[j].name /\ (new[i].block = 0 \/ new[i].block # new[j].block)
  BY <1>2, <1>3, <1>6
<1>9. \A i \in DOMAIN new : t[new[i].name] = new[i].value /\ new[i].block < next
  <2>1. \A k \in DOMAIN list \ {at} : list[k].name # n
    BY <1>6 DEF n
  <2> QED
    BY <1>2, <1>3, <1>5, <1>7, <2>1
<1>10. \A m \in Names : (\A i \in DOMAIN new : new[i].name # m) => t[m] = Unset
  <2> SUFFICES ASSUME NEW m \in Names, m # n, \A i \in DOMAIN new : new[i].name # m PROVE t[m] = Unset
    BY <1>5
  <2>1. ASSUME NEW k \in DOMAIN list PROVE list[k].name # m
    <3>1. CASE k = at
      BY <3>1 DEF n
    <3>2. CASE k # at
      <4>1. PICK i \in DOMAIN new : from(i) = k
        BY <1>4, <3>2
      <4> QED
        BY <1>2, <4>1
    <3> QED
      BY <3>1, <3>2
  <2> QED
    BY <1>5, <2>1 DEF StandsFor
<1>11. Less(b, list[at].block) = {new[i].block : i \in DOMAIN new} \ {0}
  <2>1. b = {list[i].block : i \in DOMAIN list} \ {0}
    BY DEF StandsFor
  <2>2. \A x : x \in Less(b, list[at].block) <=> x # 0 /\ \E i \in DOMAIN list \ {at} : x = list[i].block
    BY <1>6, <2>1 DEF Less
  <2>3. \A x : x \in {new[i].block : i \in DOMAIN new} <=> \E i \in DOMAIN list \ {at} : x = list[i].block
    BY <1>2, <1>3, <1>4
  <2> QED
    BY <2>2, <2>3
<1> QED
  BY <1>1, <1>2, <1>5, <1>8, <1>9, <1>10, <1>11 DEF StandsFor, n

LEMMA SetenvKeeps ==
  ASSUME EnvInv, NEW n \in Names, NEW v \in Values, NEW overwrite, NEW mem \in 0 .. 2, NEW entry,
         Setenv(n, v, overwrite, mem, entry)
  PROVE  EnvInv'
<1>1. RoomIn(env) /\ StandsFor(env.list, set, blocks, env.next) /\ env.list \in Seq(Entries) /\ env.next \in Numbers
  BY DEF EnvInv, StandsFor
<1>2. PICK e : e = Grown(Owned(env, mem), mem)
  OBVIOUS
<1>3. RoomIn(e) /\ e.list = env.list /\ e.next = env.next
  BY <1>1, <1>2, GrownRoom
<1> DEFINE new == [name |-> n, value |-> v, block |-> e.next]
           at == IndexOf(e.list, n)
           had == Found(e.list, n) # {}
           next == e.next + 1
<1>4. CASE had /\ ~overwrite
  <2>1. env' = env /\ set' = set /\ blocks' = blocks
    BY <1>2, <1>4 DEF Setenv, envVars
  <2> QED
    BY <1>1, <2>1 DEF EnvInv
<1>5. CASE ~(had /\ ~overwrite) /\ (~Took(e) \/ ~entry)
  <2>1. env' = e /\ set' = set /\ blocks' = blocks
    BY <1>2, <1>5 DEF Setenv
  <2> QED
    BY <1>1, <1>3, <2>1 DEF EnvInv
<1>6. CASE ~(had /\ ~overwrite) /\ Took(e) /\ entry
  <2> DEFINE l == IF had THEN [e.list EXCEPT ![at] = new] ELSE Append(e.list, new)
  <2>1. /\ env' = [e EXCEPT !.list = l, !.next = next]
        /\ set' = [set EXCEPT ![n] = v]
        /\ blocks' = (blocks \ IF had THEN {e.list[at].block} ELSE {}) \cup {e.next}
    BY <1>2, <1>6 DEF Setenv
  <2>2. StandsFor(l, set', blocks', next) /\ Len(l) <= Len(e.list) + 1 /\ Len(l) \in Nat
    <3>1. Len(e.list) \in Nat
      BY <1>1, <1>3, LenProperties
    <3>2. CASE had
      <4>1. at \in DOMAIN e.list /\ e.list[at].name = n
        BY <1>1, <1>3, <3>2, FoundAtIndex
      <4>2. PICK q : q = [e.list EXCEPT ![at] = new]
        OBVIOUS
      <4> HIDE DEF at
      <4>3. StandsFor(q, [set EXCEPT ![n] = v], (blocks \ {e.list[at].block}) \cup {e.next}, e.next + 1) /\ Len(q) = Len(e.list)
        BY SMTT(30), <1>1, <1>3, <4>1, <4>2, ReplacedStands
      <4> QED
        BY <2>1, <3>1, <3>2, <4>2, <4>3
    <3>3. CASE ~had
      <4>1. PICK q : q = Append(e.list, new)
        OBVIOUS
      <4>2. StandsFor(q, [set EXCEPT ![n] = v], blocks \cup {e.next}, e.next + 1) /\ Len(q) = Len(e.list) + 1
        <5>1. StandsFor(e.list, set, blocks, e.next) /\ Found(e.list, n) = {}
          BY <1>1, <1>3, <3>3
        <5>2. PICK x : x = new
          OBVIOUS
        <5>3. x \in Entries /\ x.block = e.next /\ x.name = n /\ x.value = v
          BY <1>1, <1>3, <5>2 DEF Entries, EnvValues, Numbers
        <5>4. PICK t : t = SetTo(set, x.name, x.value)
          OBVIOUS
        <5>5. q = Added(e.list, x)
          BY <4>1, <5>2 DEF Added
        <5>6. StandsFor(q, t, More(blocks, e.next), e.next + 1) /\ Len(q) = Len(e.list) + 1
          BY <5>1, <5>3, <5>4, <5>5, AddedStands
        <5> QED
          BY <5>3, <5>4, <5>6 DEF SetTo, More
      <4>3. (blocks \ IF had THEN {e.list[at].block} ELSE {}) \cup {e.next} = blocks \cup {e.next}
        BY <3>3
      <4> QED
        BY <2>1, <3>1, <3>3, <4>1, <4>2, <4>3
    <3> QED
      BY <3>2, <3>3
  <2> HIDE DEF l, next
  <2>3. /\ IsEnv(env') /\ env'.list = l /\ env'.next = next /\ env'.cap = e.cap /\ env'.flags = e.flags
        /\ env'.owned = e.owned
    BY <1>3, <2>1 DEF RoomIn, IsEnv
  <2>4. Len(l) + 1 <= e.cap
    <3>1. e.cap \in Nat /\ ~(Len(e.list) + 1 >= e.cap) /\ Len(e.list) \in Nat
      BY <1>1, <1>3, <1>6, LenProperties DEF RoomIn, Took, Full
    <3> QED
      BY <2>2, <3>1
  <2>5. RoomIn(env')
    BY <1>3, <2>3, <2>4 DEF RoomIn
  <2> QED
    BY <2>2, <2>3, <2>5 DEF EnvInv
<1> QED
  BY <1>4, <1>5, <1>6

LEMMA UnsetenvKeeps == ASSUME EnvInv, NEW n \in Names, NEW mem \in 0 .. 2, Unsetenv(n, mem) PROVE EnvInv'
<1>1. RoomIn(env) /\ StandsFor(env.list, set, blocks, env.next) /\ env.list \in Seq(Entries)
  BY DEF EnvInv, StandsFor
<1>2. PICK e : e = IF env.owned THEN env ELSE Grown(Owned(env, mem), mem)
  OBVIOUS
<1>3. RoomIn(e) /\ e.list = env.list /\ e.next = env.next
  BY <1>1, <1>2, GrownRoom
<1> DEFINE at == IndexOf(e.list, n)
<1>4. CASE Found(env.list, n) = {}
  BY <1>1, <1>4 DEF Unsetenv, envVars, EnvInv
<1>5. CASE Found(env.list, n) # {} /\ ~e.owned
  <2>1. env' = e /\ set' = set /\ blocks' = blocks
    BY <1>2, <1>5 DEF Unsetenv
  <2> QED
    BY <1>1, <1>3, <2>1 DEF EnvInv
<1>6. CASE Found(env.list, n) # {} /\ e.owned
  <2> DEFINE l == Without(e.list, at)
  <2>1. env' = [e EXCEPT !.list = l] /\ set' = [set EXCEPT ![n] = Unset] /\ blocks' = blocks \ {e.list[at].block}
    BY <1>2, <1>6 DEF Unsetenv
  <2>2. at \in DOMAIN e.list /\ e.list[at].name = n
    BY <1>1, <1>3, <1>6, FoundAtIndex
  <2> HIDE DEF at
  <2>3. PICK q : q = l
    OBVIOUS
  <2>4. StandsFor(q, [set EXCEPT ![n] = Unset], blocks \ {e.list[at].block}, e.next) /\ Len(q) = Len(e.list) - 1
    <3>1. StandsFor(e.list, set, blocks, e.next) /\ q = Without(e.list, at)
      BY <1>1, <1>3, <2>3
    <3>2. PICK t : t = SetTo(set, e.list[at].name, Unset)
      OBVIOUS
    <3>3. StandsFor(q, t, Less(blocks, e.list[at].block), e.next) /\ Len(q) = Len(e.list) - 1
      BY <2>2, <3>1, <3>2, RemovedStands
    <3> QED
      BY <2>2, <3>2, <3>3 DEF SetTo, Less
  <2>5. /\ IsEnv(env') /\ env'.list = q /\ env'.next = e.next /\ env'.cap = e.cap /\ env'.flags = e.flags
        /\ env'.owned = e.owned
    BY <1>3, <2>1, <2>3 DEF RoomIn, IsEnv
  <2>6. Len(e.list) \in Nat /\ e.cap \in Nat /\ Len(e.list) + 1 <= e.cap
    BY <1>1, <1>3, <1>6, LenProperties DEF RoomIn
  <2>7. Len(q) + 1 <= e.cap
    BY <2>4, <2>6
  <2>8. RoomIn(env')
    BY <1>3, <2>5, <2>7 DEF RoomIn
  <2> QED
    BY <2>1, <2>4, <2>5, <2>8 DEF EnvInv
<1> QED
  BY <1>4, <1>5, <1>6

LEMMA EnvHolds == ASSUME EnvInv PROVE EnvironmentHolds
<1>1. \A n \in Names : Getenv(n) = set[n]
  BY GetenvTells
<1> QED
  BY <1>1 DEF EnvInv, RoomIn, StandsFor, EnvironmentHolds


-----------------------------------------------------------------------------
(* The media. *)

IsMedium(m) == m = [in |-> m.in, protected |-> m.protected, data |-> m.data]
IsCall(c) == c = [pc |-> c.pc, port |-> c.port, command |-> c.command, sector |-> c.sector, left |-> c.left,
                  word |-> c.word, got |-> c.got]
IsRegs(r) == r = [select |-> r.select, sector |-> r.sector, error |-> r.error, events |-> r.events]

\* What a medium holds is what was written to it, and nothing is written to the protected one.
Holding == /\ media = [p \in Ports |-> media[p]] /\ put = [p \in Ports |-> put[p]]
           /\ \A p \in Ports : IsMedium(media[p]) /\ media[p].data = put[p]
           /\ media[1].protected /\ put[1] = Blank
\* A call about to move a sector has the registers at its own port, and what it has read is there.
Moving(c, select) ==
    /\ IsCall(c) /\ c.pc \in {"select", "move", "done", "failed"} /\ c.port \in Ports /\ c.left \in Nat
    /\ c.pc = "move" => select = c.port
    /\ c.pc \in {"select", "move"} => c.left > 0
    /\ c.pc = "done" => c.left = 0
    /\ c.command = "read" => \A s \in DOMAIN c.got : c.got[s] = put[c.port][s]
MediaInv == Holding /\ IsRegs(regs) /\ (call = NoCall \/ Moving(call, regs.select))

LEMMA MediaStart == InitMedia => MediaInv
<1> SUFFICES ASSUME InitMedia PROVE MediaInv
  OBVIOUS
<1>1. 1 \in Ports
  BY MediaAssumption
<1>2. IsRegs(regs) /\ call = NoCall
  BY DEF InitMedia, IsRegs
<1>3. /\ put = [p \in Ports |-> put[p]] /\ \A p \in Ports : put[p] = Blank
  BY DEF InitMedia
<1>4. /\ media = [p \in Ports |-> media[p]]
      /\ \A p \in Ports : media[p] = [in |-> TRUE, protected |-> p = 1, data |-> Blank]
  BY DEF InitMedia
<1>5. \A p \in Ports : IsMedium(media[p]) /\ media[p].data = Blank /\ (p = 1 => media[p].protected)
  <2>1. TAKE p \in Ports
  <2>2. PICK own : own = (p = 1)
    OBVIOUS
  <2>3. media[p] = [in |-> TRUE, protected |-> own, data |-> Blank]
    BY <1>4, <2>2
  <2>4. IsMedium(media[p]) /\ media[p].data = Blank /\ media[p].protected = own
    BY <2>3 DEF IsMedium
  <2>5. p = 1 => media[p].protected
    BY <2>2, <2>4, Zenon
  <2> QED
    BY <2>4, <2>5
<1> QED
  BY <1>1, <1>2, <1>3, <1>4, <1>5 DEF MediaInv, Holding

\* A call that starts, points the registers at its port, or ends.
LEMMA CallsKeep ==
  ASSUME MediaInv,
         \/ \E p \in Ports, s \in 0 .. Sectors - 1, n \in 1 .. 2, w \in Words :
               StartCall(p, "read", s, n, w) \/ StartCall(p, "write", s, n, w)
         \/ SelectPort \/ Returned \/ NextEvent \/ \E p \in Ports : LookAt(p)
  PROVE  MediaInv'
<1>1. media' = media /\ put' = put
  BY DEF StartCall, SelectPort, Returned, NextEvent, LookAt
<1>2. Holding'
  BY <1>1 DEF MediaInv, Holding
<1>3. IsRegs(regs)
  BY DEF MediaInv
<1>4. ASSUME NEW p \in Ports, NEW s, NEW n \in 1 .. 2, NEW w, NEW command, StartCall(p, command, s, n, w) PROVE MediaInv'
  <2>1. /\ regs' = regs
        /\ call' = [pc |-> "select", port |-> p, command |-> command, sector |-> s, left |-> n, word |-> w, got |-> [x \in {} |-> Zeros]]
    BY <1>4 DEF StartCall
  <2>2. /\ IsCall(call') /\ call'.pc = "select" /\ call'.port = p /\ call'.left = n /\ DOMAIN call'.got = {}
    BY <2>1 DEF IsCall
  <2>3. n \in Nat /\ n > 0
    OBVIOUS
  <2>4. Moving(call, regs.select)'
    BY <2>2, <2>3 DEF Moving
  <2> QED
    BY <1>2, <1>3, <2>1, <2>4 DEF MediaInv
<1>5. CASE SelectPort
  <2>1. /\ call.pc = "select" /\ call # NoCall /\ Moving(call, regs.select)
    BY <1>5 DEF SelectPort, NoCall, MediaInv
  <2>2. IsRegs(regs') /\ regs'.select = call.port
    <3>1. regs' = [regs EXCEPT !.select = call.port, !.error = FALSE]
      BY <1>5 DEF SelectPort, Selected
    <3>2. PICK port : port = call.port
      OBVIOUS
    <3>3. regs' = [select |-> port, sector |-> regs.sector, error |-> FALSE, events |-> regs.events]
      BY <1>3, <3>1, <3>2 DEF IsRegs
    <3> QED
      BY <3>2, <3>3 DEF IsRegs
  <2>3. call' = [call EXCEPT !.pc = "move"]
    BY <1>5 DEF SelectPort
  <2>4. /\ IsCall(call') /\ call'.pc = "move" /\ call'.port = call.port /\ call'.left = call.left /\ call'.got = call.got
        /\ call'.command = call.command
    BY <2>1, <2>3 DEF Moving, IsCall
  <2>5. Moving(call, regs.select)'
    BY <1>1, <2>1, <2>2, <2>4 DEF Moving
  <2> QED
    BY <1>2, <2>2, <2>5 DEF MediaInv
<1>6. CASE Returned
  BY <1>2, <1>3, <1>6 DEF Returned, MediaInv
<1>7. CASE NextEvent
  <2> DEFINE left == regs.events - 1
  <2>1. regs' = [regs EXCEPT !.events = left] /\ call' = call
    BY <1>7 DEF NextEvent
  <2> HIDE DEF left
  <2>2. IsRegs(regs') /\ regs'.select = regs.select
    BY <1>3, <2>1 DEF IsRegs
  <2> QED
    BY <1>1, <1>2, <2>1, <2>2 DEF MediaInv, Moving
<1>8. ASSUME NEW p \in Ports, LookAt(p) PROVE MediaInv'
  <2>1. regs' = [regs EXCEPT !.select = p, !.error = FALSE] /\ call' = call /\ call.pc # "move"
    BY <1>8 DEF LookAt, Selected
  <2>2. IsRegs(regs')
    <3>1. regs' = [select |-> p, sector |-> regs.sector, error |-> FALSE, events |-> regs.events]
      BY <1>3, <2>1 DEF IsRegs
    <3> QED
      BY <3>1 DEF IsRegs
  <2> QED
    BY <1>1, <1>2, <2>1, <2>2 DEF MediaInv, Moving
<1> QED
  BY <1>4, <1>5, <1>6, <1>7, <1>8

\* A medium is put in or pulled out with what it holds.
LEMMA PlugKeeps == ASSUME MediaInv, NEW p \in Ports, Plug(p) PROVE MediaInv'
<1>1. Holding /\ IsRegs(regs) /\ call' = call /\ put' = put
  BY DEF MediaInv, Plug
<1> DEFINE out == ~media[p].in
           events == IF regs.events < 2 THEN regs.events + 1 ELSE regs.events
           m == [media[p] EXCEPT !.in = out]
<1>2. media' = [media EXCEPT ![p] = m] /\ regs' = [regs EXCEPT !.events = events]
  BY DEF Plug
<1> HIDE DEF out, events
<1>3. IsMedium(m) /\ m.data = media[p].data /\ m.protected = media[p].protected
  <2>1. IsMedium(media[p])
    BY <1>1 DEF Holding
  <2>2. m = [in |-> out, protected |-> media[p].protected, data |-> media[p].data]
    BY <2>1 DEF IsMedium
  <2> QED
    BY <2>2 DEF IsMedium
<1> HIDE DEF m
<1>4. IsRegs(regs') /\ regs'.select = regs.select
  BY <1>1, <1>2 DEF IsRegs
<1>5. media' = [q \in Ports |-> media'[q]] /\ \A q \in Ports : media'[q] = IF q = p THEN m ELSE media[q]
  BY <1>1, <1>2 DEF Holding
<1>6. Holding'
  <2>1. 1 \in Ports
    BY MediaAssumption
  <2> QED
    BY <1>1, <1>3, <1>5, <2>1 DEF Holding
<1> QED
  BY <1>1, <1>4, <1>6 DEF MediaInv, Moving

\* The next sector of a call goes to its own medium, or comes from it.
LEMMA MoveKeeps == ASSUME MediaInv, MoveSector PROVE MediaInv'
<1>1. /\ Holding /\ IsRegs(regs) /\ call.pc = "move" /\ Moving(call, regs.select) /\ regs.select = call.port
      /\ call.port \in Ports /\ IsCall(call) /\ call.left \in Nat /\ call.left > 0
  BY DEF MediaInv, MoveSector, NoCall, Moving
<1> DEFINE m == media[regs.select]
           write == call.command = "write"
           failed == Refused(m, write)
<1>2. IsRegs(regs') /\ regs'.select = regs.select
  <2>1. PICK sector, error : regs' = [regs EXCEPT !.sector = sector, !.error = error]
    BY DEF MoveSector
  <2> QED
    BY <1>1, <2>1 DEF IsRegs
<1>3. CASE failed
  <2>1. media' = media /\ put' = put /\ call' = [call EXCEPT !.pc = "failed"]
    BY <1>3 DEF MoveSector
  <2>2. /\ IsCall(call') /\ call'.pc = "failed" /\ call'.port = call.port /\ call'.left = call.left /\ call'.got = call.got
        /\ call'.command = call.command
    BY <1>1, <2>1 DEF IsCall
  <2>3. Moving(call, regs.select)'
    BY <1>1, <2>1, <2>2 DEF Moving
  <2> QED
    BY <1>1, <1>2, <2>1, <2>3 DEF MediaInv, Holding
<1>4. CASE ~failed
  <2> DEFINE pc == IF call.left = 1 THEN "done" ELSE "select"
             left == call.left - 1
             sector == call.sector + 1
             read == [s \in DOMAIN call.got \cup {call.sector} |-> IF s = call.sector THEN m.data[s] ELSE call.got[s]]
             got == IF write THEN call.got ELSE read
  <2>1. call' = [call EXCEPT !.pc = pc, !.left = left, !.sector = sector, !.got = got]
    BY <1>4 DEF MoveSector
  <2>2. /\ pc \in {"done", "select"} /\ left \in Nat /\ (pc = "done" => left = 0) /\ (pc = "select" => left > 0)
    BY <1>1
  <2>3. ~write => got = read /\ put' = put /\ media' = media
    BY <1>4 DEF MoveSector
  <2>4. DOMAIN read = DOMAIN call.got \cup {call.sector}
        /\ \A s \in DOMAIN read : read[s] = IF s = call.sector THEN m.data[s] ELSE call.got[s]
    OBVIOUS
  <2>5. ~write /\ call.command = "read" => \A s \in DOMAIN got : got[s] = put[call.port][s]
    <3>1. m.data = put[call.port]
      BY <1>1 DEF Holding
    <3> HIDE DEF m, read, got
    <3> QED
      BY <1>1, <2>3, <2>4, <3>1 DEF Moving
  <2> HIDE DEF pc, left, sector, got, read
  <2>6. /\ IsCall(call') /\ call'.pc = pc /\ call'.port = call.port /\ call'.left = left /\ call'.got = got
        /\ call'.command = call.command
    <3>1. PICK port, command, word : port = call.port /\ command = call.command /\ word = call.word
      OBVIOUS
    <3>2. call' = [pc |-> pc, port |-> port, command |-> command, sector |-> sector, left |-> left, word |-> word, got |-> got]
      BY <1>1, <2>1, <3>1 DEF IsCall
    <3> QED
      BY <3>1, <3>2 DEF IsCall
  <2>7. CASE write
    <3>1. call.command = "write" /\ "write" # "read"
      BY <2>7
    <3>2. Moving(call, regs.select)'
      BY <1>1, <2>2, <2>6, <3>1 DEF Moving
    <3> DEFINE new == [media[call.port].data EXCEPT ![call.sector] = call.word]
               n == [media[call.port] EXCEPT !.data = new]
               into == [put[call.port] EXCEPT ![call.sector] = call.word]
    <3>3. media' = [media EXCEPT ![call.port] = n] /\ put' = [put EXCEPT ![call.port] = into]
      <4>1. /\ media' = [media EXCEPT ![regs.select].data[call.sector] = call.word]
            /\ put' = [put EXCEPT ![call.port][call.sector] = call.word]
        BY <1>4, <2>7 DEF MoveSector
      <4> QED
        BY <1>1, <4>1
    <3>4. new = into
      BY <1>1 DEF Holding
    <3> HIDE DEF new, into
    <3>5. IsMedium(n) /\ n.data = into /\ n.protected = media[call.port].protected
      <4>1. IsMedium(media[call.port])
        BY <1>1 DEF Holding
      <4>2. n = [in |-> media[call.port].in, protected |-> media[call.port].protected, data |-> new]
        BY <4>1 DEF IsMedium
      <4> QED
        BY <3>4, <4>2 DEF IsMedium
    <3>6. call.port # 1
      BY <1>1, <1>4, <2>7 DEF Refused, Holding
    <3> HIDE DEF n
    <3>7. /\ media' = [q \in Ports |-> media'[q]] /\ \A q \in Ports : media'[q] = IF q = call.port THEN n ELSE media[q]
      BY <1>1, <3>3 DEF Holding
    <3>8. /\ put' = [q \in Ports |-> put'[q]] /\ \A q \in Ports : put'[q] = IF q = call.port THEN into ELSE put[q]
      BY <1>1, <3>3 DEF Holding
    <3>9. Holding'
      <4>1. 1 \in Ports /\ Blank' = Blank
        BY MediaAssumption DEF Blank
      <4> QED
        BY <1>1, <3>5, <3>6, <3>7, <3>8, <4>1 DEF Holding
    <3> QED
      BY <1>2, <3>2, <3>9 DEF MediaInv
  <2>8. CASE ~write
    <3>1. Moving(call, regs.select)'
      BY <1>1, <2>2, <2>3, <2>5, <2>6, <2>8 DEF Moving
    <3> QED
      BY <1>1, <1>2, <2>3, <2>8, <3>1 DEF MediaInv, Holding
  <2> QED
    BY <2>7, <2>8
<1> QED
  BY <1>3, <1>4

LEMMA MediaHold == ASSUME MediaInv PROVE TransfersRight
BY SMTT(30) DEF MediaInv, Holding, Moving, TransfersRight, NoCall

-----------------------------------------------------------------------------
(* All of them. *)

\* In every state of every run, whatever the slots, names, room and ports: each handler of exit runs once at most and
\* the last first; the environment tells what it was told and frees each string once; and a transfer moves the sectors
\* of its own medium (src/exit.c, src/signal.c, src/env.c, src/ceres/disk.c, periph.c).
THEOREM SurroundingsAreKept == SpecSurroundings => []SurroundingsHold
<1> DEFINE Inv == EndsInv /\ SigsInv /\ EnvInv /\ MediaInv
<1>1. InitSurroundings => Inv
  BY EndsStart, EnvStart, MediaStart DEF InitSurroundings
<1>2. Inv /\ [NextSurroundings]_surroundingVars => Inv'
  <2> SUFFICES ASSUME Inv, [NextSurroundings]_surroundingVars PROVE Inv'
    OBVIOUS
  <2>1. UNCHANGED endVars => EndsInv' /\ SigsInv'
    BY DEF endVars, EndsInv, EndTypes, IsEnds, Registered, RanInOrder, NoneLeft, SigsInv, IsSigs, FaultsWanted
  <2>2. UNCHANGED envVars => EnvInv'
    BY DEF envVars, EnvInv
  <2>3. UNCHANGED mediaVars => MediaInv'
    BY DEF mediaVars, MediaInv, Holding, Moving
  <2>4. NextEnd => EndsInv' /\ SigsInv'
    BY EndsKeep
  <2>5. NextEnv => EnvInv'
    BY SetenvKeeps, UnsetenvKeeps DEF NextEnv
  <2>6. NextMedia => MediaInv'
    BY CallsKeep, PlugKeeps, MoveKeeps DEF NextMedia
  <2> QED
    BY <2>1, <2>2, <2>3, <2>4, <2>5, <2>6 DEF NextSurroundings, surroundingVars
<1>3. Inv => SurroundingsHold
  <2>1. EndsInv => HandlersRunOnce
    BY DEF HandlersRunOnce, EndsInv, RanInOrder, RanRight, Remaining, NoneLeft
  <2> QED
    BY <2>1, EnvHolds, MediaHold DEF SurroundingsHold, SigsInv
<1> QED
  BY <1>1, <1>2, <1>3, PTL DEF SpecSurroundings
=============================================================================
