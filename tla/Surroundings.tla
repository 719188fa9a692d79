---------------------------- MODULE Surroundings -----------------------------
(***************************************************************************)
(* What a program runs in: its end and its signals, its environment, and   *)
(* the media of the machine.                                               *)
(***************************************************************************)
EXTENDS Integers, Sequences

-----------------------------------------------------------------------------
\* The end of a program: exit and its handlers (src/exit.c), signals
\* (src/signal.c) and faults of the machine (src/ceres/fault.c).  A
\* handler is a call: it may register more, exit again, raise, fault.
\* There are two tables, of exit and of quick_exit, each run by its own.
\* Registrations are numbered, so that a handler registered twice counts
\* as two; "ran" are those that have run, in their order, each with its
\* table and the number the next registration was to have then.

CONSTANTS AtexitSlots, \* ATEXIT_SLOTS
          MaxCalls     \* the registrations and calls made in all

VARIABLES ends, sigs, ran

endVars == <<ends, sigs, ran>>
Running == -1
Tables == {"exit", "quick"}
Signals == {"INT", "ABRT", "FPE", "SEGV"}
Hardware == {"FPE", "SEGV"}
Default == "default"
Ignore == "ignore"
Handled == "handler"
AbortHandler == 0      \* in "ran", the handler of SIGABRT

InitEnds == /\ ends = [tables |-> [t \in Tables |-> <<>>], from |-> "exit", exiting |-> Running, ended |-> Running, next |-> 1]
            /\ sigs = [handlers |-> [s \in Signals |-> Default], ready |-> FALSE, divfault |-> FALSE, hook |-> FALSE, left |-> MaxCalls]
            /\ ran = <<>>

Alive == ends.ended = Running
Calls == sigs.left > 0 /\ sigs' = [sigs EXCEPT !.left = @ - 1]
Ran(handler, from) == Append(ran, [handler |-> handler, from |-> from, at |-> ends.next])

-----------------------------------------------------------------------------
(* exit and atexit. *)

\* atexit, at_quick_exit
Atexit(table) ==
    /\ Alive /\ Len(ends.tables[table]) < AtexitSlots /\ Calls /\ UNCHANGED ran
    /\ ends' = [ends EXCEPT !.tables[table] = Append(@, ends.next), !.next = @ + 1]

\* exit, quick_exit: a call made by a handler takes over, as it never returns.
Exit(status, table) ==
    Alive /\ Calls /\ ends' = [ends EXCEPT !.exiting = status, !.from = table] /\ UNCHANGED ran
End(e, status) == [e EXCEPT !.ended = status % 256]
PoppedFirst(t) == [handler |-> Head(t), rest |-> Tail(t)]
Popped(t) == [handler |-> t[Len(t)], rest |-> SubSeq(t, 1, Len(t) - 1)]
\* The handler is popped before it runs.
RunHandler ==
    LET popped == Popped(ends.tables[ends.from])
    IN  /\ Alive /\ ends.exiting # Running /\ UNCHANGED sigs
        /\ IF ends.tables[ends.from] # <<>>
           THEN ends' = [ends EXCEPT !.tables[ends.from] = popped.rest] /\ ran' = Ran(popped.handler, ends.from)
           ELSE ends' = End(ends, ends.exiting) /\ UNCHANGED ran
EndNow(status) == Alive /\ Calls /\ ends' = End(ends, status) /\ UNCHANGED ran

-----------------------------------------------------------------------------
(* Signals and faults. *)

\* The machine raises a division by zero only when it is asked to.
DivFault(h) == IF sigs.ready THEN h # Default ELSE sigs.divfault
Signal(s, h) ==
    /\ Alive /\ sigs.left > 0 /\ UNCHANGED <<ends, ran>>
    /\ IF s \in Hardware /\ h = Handled /\ ~sigs.ready THEN UNCHANGED sigs
       ELSE sigs' = [sigs EXCEPT !.handlers[s] = h, !.left = @ - 1,
                        !.divfault = IF s = "FPE" THEN DivFault(h) ELSE @,
                        !.hook = IF s = "ABRT" THEN h # Default ELSE @]
InstallFaultHandlers == Alive /\ ~sigs.ready /\ sigs' = [sigs EXCEPT !.ready = TRUE] /\ UNCHANGED <<ends, ran>>

Number == [INT |-> 2, ABRT |-> 6, FPE |-> 8, SEGV |-> 11]
\* raise, by the program: a default ends it with 128 and the signal's number, and abort is 134 however it comes.
RaiseSignal(s) == /\ Alive /\ Calls
            /\ IF sigs.handlers[s] = Default THEN ends' = End(ends, 128 + Number[s]) /\ UNCHANGED ran
               ELSE UNCHANGED <<ends, ran>>
\* abort: the handler runs through the hook, and the program ends when it returns.
Abort == /\ Alive /\ Calls /\ ends' = End(ends, 134)
         /\ ran' = IF sigs.hook /\ sigs.handlers["ABRT"] = Handled THEN Ran(AbortHandler, "abort") ELSE ran

\* fault_report: only after a division by zero does a program with a handler go on.
Fault(s) ==
    /\ Alive /\ sigs.ready /\ s \in Hardware /\ (s = "FPE" => sigs.divfault) /\ Calls /\ UNCHANGED ran
    /\ ends' = IF s = "FPE" /\ sigs.handlers[s] # Default THEN ends ELSE End(ends, 139)

NextEnd == \/ RunHandler \/ InstallFaultHandlers \/ Abort
           \/ \E table \in Tables : Atexit(table) \/ \E status \in {0, 257} : Exit(status, table)
           \/ EndNow(3)
           \/ \E s \in Signals : RaiseSignal(s) \/ Fault(s) \/ \E h \in {Default, Ignore, Handled} : Signal(s, h)

-----------------------------------------------------------------------------
\* h was registered before the handler that ran, or once it had run.
Behind(h, r) == h < r.handler \/ h >= r.at
\* Every handler registered runs once at most, and after all those of its table that were registered later, also when
\* handlers exit again or register more: what runs after another, or is still in its table, was registered before it
\* or while it ran.  And a program that ends by itself leaves none of its handlers out.
HandlersRunOnce ==
    /\ \A i \in DOMAIN ran : ran[i].handler < ran[i].at
    /\ \A i \in DOMAIN ran : ran[i].from \in Tables =>
         /\ \A j \in DOMAIN ran : i < j /\ ran[j].from = ran[i].from => Behind(ran[j].handler, ran[i])
         /\ \A k \in DOMAIN ends.tables[ran[i].from] : Behind(ends.tables[ran[i].from][k], ran[i])
    /\ ends.ended \in {0, 1} => ends.tables[ends.from] = <<>>

\* A division by zero is a fault for programs that asked for one, and for no others: a program that never did, or no
\* longer does, goes on; and abort() finds the handler there is.
FaultsWanted ==
    /\ sigs.divfault => sigs.handlers["FPE"] # Default
    /\ sigs.handlers["FPE"] = Handled => sigs.divfault
    /\ sigs.hook <=> sigs.handlers["ABRT"] # Default

-----------------------------------------------------------------------------
\* The environment: getenv, setenv and unsetenv of src/env.c, over the
\* loader's strings and then over a copy the library owns.
\* "env" is the array in use with its two capacities; an entry has its
\* name, its value and the block it came from, 0 for the loader's.  "set"
\* is what the program was told is set, "blocks" what malloc has out.

CONSTANTS Names, Values,
          Loaded,      \* the names the loader gave
          Spare,       \* the room in the copy: 8 in the code
          MaxSets

ASSUME EnvAssumption ==
    /\ Loaded \in Seq(Names) /\ \A i, j \in DOMAIN Loaded : i # j => Loaded[i] # Loaded[j]
    /\ Spare \in Nat \ {0}

VARIABLES env, set, blocks

envVars == <<env, set, blocks>>
Unset == "unset"
Given == "given"

InitEnv == /\ env = [list |-> [i \in DOMAIN Loaded |-> [name |-> Loaded[i], value |-> Given, block |-> 0]], owned |-> FALSE,
                     cap |-> 0, flags |-> 0, next |-> 1]
           /\ set = [n \in Names |-> IF \E i \in DOMAIN Loaded : Loaded[i] = n THEN Given ELSE Unset]
           /\ blocks = {}

Found(list, n) == {i \in DOMAIN list : list[i].name = n}
IndexOf(list, n) == CHOOSE i \in Found(list, n) : \A j \in Found(list, n) : i <= j
Getenv(n) == IF Found(env.list, n) = {} THEN Unset ELSE env.list[IndexOf(env.list, n)].value

\* take_ownership: the copy, with room for one more entry and the NULL; "mem" is how many of its allocations succeed.
Full(e) == Len(e.list) + 1 >= e.cap
Owned(e, mem) == IF e.owned THEN e ELSE IF mem < 2 THEN e
                 ELSE [e EXCEPT !.owned = TRUE, !.cap = Len(e.list) + Spare, !.flags = Len(e.list) + Spare]
Grown(e, mem) ==
    LET more == e.cap * 2
    IN  IF ~Full(e) \/ mem = 0 THEN e ELSE IF mem = 1 THEN [e EXCEPT !.flags = more] ELSE [e EXCEPT !.flags = more, !.cap = more]
Took(e) == e.owned /\ ~Full(e)

Setenv(n, v, overwrite, mem, entry) ==
    LET e == Grown(Owned(env, mem), mem)
        new == [name |-> n, value |-> v, block |-> e.next]
        at == IndexOf(e.list, n)
        had == Found(e.list, n) # {}
    IN  /\ env.next <= MaxSets
        /\ IF had /\ ~overwrite THEN UNCHANGED envVars
           ELSE IF ~Took(e) \/ ~entry THEN env' = e /\ UNCHANGED <<set, blocks>>
           ELSE /\ env' = [e EXCEPT !.list = IF had THEN [@ EXCEPT ![at] = new] ELSE Append(@, new), !.next = @ + 1]
                /\ set' = [set EXCEPT ![n] = v]
                /\ blocks' = (blocks \ IF had THEN {e.list[at].block} ELSE {}) \cup {e.next}

Without(list, at) == SubSeq(list, 1, at - 1) \o SubSeq(list, at + 1, Len(list))
Unsetenv(n, mem) ==
    LET e == IF env.owned THEN env ELSE Grown(Owned(env, mem), mem)
        at == IndexOf(e.list, n)
    IN  IF Found(env.list, n) = {} THEN UNCHANGED envVars
        ELSE IF ~e.owned THEN env' = e /\ UNCHANGED <<set, blocks>>
        ELSE /\ env' = [e EXCEPT !.list = Without(@, at)]
             /\ set' = [set EXCEPT ![n] = Unset]
             /\ blocks' = blocks \ {e.list[at].block}

NextEnv == \E n \in Names, mem \in 0 .. 2 :
               \/ Unsetenv(n, mem)
               \/ \E v \in Values, overwrite, entry \in BOOLEAN : Setenv(n, v, overwrite, mem, entry)

-----------------------------------------------------------------------------
\* A name has the value it was last given, the copy has room for its entries and the NULL after them, and each string
\* setenv made is freed once it is replaced or removed, never before and never twice.
EnvironmentHolds ==
    /\ \A n \in Names : Getenv(n) = set[n]
    /\ env.owned => Len(env.list) + 1 <= env.cap /\ env.cap <= env.flags
    /\ blocks = {env.list[i].block : i \in DOMAIN env.list} \ {0}
    /\ \A i, j \in DOMAIN env.list : i # j => env.list[i].block = 0 \/ env.list[i].block # env.list[j].block

-----------------------------------------------------------------------------
\* The internal disk and the media in the peripheral ports, as block
\* devices: src/ceres/disk.c, periph.c and blockdev.c.  Port 0 is the disk.
\* All the ports share one set of registers, which a call points at its
\* own; a medium may be pulled out between any two steps of a call.
\* "call" is the transfer under way, "put" what the program has written
\* to each medium and been told of.

CONSTANTS Ports,       \* with 0, the disk, and 1, which holds a protected medium
          Sectors,     \* of each medium
          Words        \* what a sector holds

ASSUME MediaAssumption == {0, 1} \subseteq Ports /\ Sectors \in Nat

VARIABLES media, regs, call, put

mediaVars == <<media, regs, call, put>>
Zeros == 0
NoCall == [pc |-> "idle"]
Blank == [s \in 0 .. Sectors - 1 |-> Zeros]

InitMedia == /\ media = [p \in Ports |-> [in |-> TRUE, protected |-> p = 1, data |-> Blank]]
             /\ regs = [select |-> 0, sector |-> 0, error |-> FALSE, events |-> 0]
             /\ call = NoCall
             /\ put = [p \in Ports |-> Blank]

\* periph_read_n, periph_write_n, disk_read_n, disk_write_n: sector after sector, up to the first that fails.
StartCall(port, command, sector, count, word) ==
    /\ call.pc = "idle" /\ UNCHANGED <<media, regs, put>>
    /\ call' = [pc |-> "select", port |-> port, command |-> command, sector |-> sector, left |-> count, word |-> word,
                got |-> [s \in {} |-> Zeros]]

\* select_port, before each sector: another call may have pointed the registers elsewhere.
Selected(r, port) == [r EXCEPT !.select = port, !.error = FALSE]
SelectPort == /\ call.pc = "select" /\ UNCHANGED <<media, put>>
          /\ regs' = Selected(regs, call.port) /\ call' = [call EXCEPT !.pc = "move"]

\* The device (external): the sector must be there, and a write needs a medium that is not protected.
Refused(m, write) == ~m.in \/ call.sector >= Sectors \/ (write /\ m.protected)
MoveSector ==
    LET m == media[regs.select]
        write == call.command = "write"
        failed == Refused(m, write)
    IN  /\ call.pc = "move"
        /\ regs' = [regs EXCEPT !.sector = call.sector, !.error = failed]
        /\ media' = IF failed \/ ~write THEN media ELSE [media EXCEPT ![regs.select].data[call.sector] = call.word]
        /\ put' = IF failed \/ ~write THEN put ELSE [put EXCEPT ![call.port][call.sector] = call.word]
        /\ call' = IF failed THEN [call EXCEPT !.pc = "failed"]
                   ELSE [call EXCEPT !.pc = IF call.left = 1 THEN "done" ELSE "select", !.left = @ - 1, !.sector = @ + 1,
                            !.got = IF write THEN @ ELSE [s \in DOMAIN @ \cup {call.sector} |->
                                                          IF s = call.sector THEN m.data[s] ELSE @[s]]]
Returned == call.pc \in {"done", "failed"} /\ call' = NoCall /\ UNCHANGED <<media, regs, put>>

\* An interrupt's handler looks at a port between two sectors, and leaves the registers there.  Within a sector it must
\* not: the sector would go to the port it looked at.
LookAt(port) == call.pc # "move" /\ regs' = Selected(regs, port) /\ UNCHANGED <<media, call, put>>
\* periph_eject, or a hand (external); one event is told for each.
Plug(port) ==
    /\ port # 0 /\ UNCHANGED <<call, put>>
    /\ media' = [media EXCEPT ![port].in = ~@]
    /\ regs' = [regs EXCEPT !.events = IF @ < 2 THEN @ + 1 ELSE @]
NextEvent == regs.events > 0 /\ regs' = [regs EXCEPT !.events = @ - 1] /\ UNCHANGED <<media, call, put>>

NextMedia == \/ \E p \in Ports, s \in 0 .. Sectors - 1, n \in 1 .. 2, w \in Words :
                   StartCall(p, "read", s, n, w) \/ StartCall(p, "write", s, n, w)
             \/ SelectPort \/ MoveSector \/ Returned \/ NextEvent
             \/ \E p \in Ports : LookAt(p) \/ Plug(p)

-----------------------------------------------------------------------------
\* Here they are side by side: nothing of one touches another.
InitSurroundings == InitEnds /\ InitEnv /\ InitMedia
NextSurroundings == \/ NextEnd /\ UNCHANGED <<envVars, mediaVars>>
                    \/ NextEnv /\ UNCHANGED <<endVars, mediaVars>>
                    \/ NextMedia /\ UNCHANGED <<endVars, envVars>>
surroundingVars == <<endVars, envVars, mediaVars>>
SpecSurroundings == InitSurroundings /\ [][NextSurroundings]_surroundingVars

-----------------------------------------------------------------------------
\* A call moves the sectors of its own medium and no other, in order and up to the first that fails, and success means
\* all of them; what a medium holds is what was written to it.
TransfersRight ==
    /\ \A p \in Ports : media[p].data = put[p]
    /\ put[1] = Blank
    /\ call.pc \in {"done", "failed"} /\ call.command = "read" =>
         \A s \in DOMAIN call.got : call.got[s] = put[call.port][s]
    /\ call.pc = "done" => call.left = 0

\* The handlers of exit run once each, last first; faults go to who asked for them; the environment and the media hold
\* what was put in them (src/exit.c, src/signal.c, src/env.c, src/ceres/disk.c, periph.c).
SurroundingsHold == HandlersRunOnce /\ FaultsWanted /\ EnvironmentHolds /\ TransfersRight
=============================================================================
