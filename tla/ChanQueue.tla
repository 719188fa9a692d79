----------------------------- MODULE ChanQueue ------------------------------
(***************************************************************************)
(* What include/ceres/task.h promises of a channel, without tasks, rings   *)
(* or waiting: a bounded FIFO queue of messages.  A closed channel refuses *)
(* new messages, and what is left in it can still be received.  Module     *)
(* Tasks is shown to implement it.                                         *)
(***************************************************************************)
EXTENDS Integers, Sequences

CONSTANTS Chans, Msgs, NoMsg, Capacities,
          Null         \* the channel of a call that is about none

VARIABLES queue,    \* queue[c]: the messages in channel c, oldest first
          room,     \* room[c]: how many it can hold
          open,     \* open[c]: it takes messages
          answer    \* what the last step told its caller: the call, its channel, a code, a message

qvars == <<queue, room, open, answer>>

Reply(call, c, code, m) == [call |-> call, chan |-> c, code |-> code, msg |-> m]
Silent == Reply("none", Null, "none", NoMsg)

Init == /\ room \in [Chans -> Capacities]
        /\ queue = [c \in Chans |-> <<>>]
        /\ open = [c \in Chans |-> TRUE]
        /\ answer = Silent

Send(c, m) ==
    /\ open[c] /\ Len(queue[c]) < room[c]
    /\ queue' = [queue EXCEPT ![c] = Append(@, m)]
    /\ answer' = Reply("send", c, "ok", m)
    /\ UNCHANGED <<room, open>>

Recv(c) ==
    /\ queue[c] # <<>>
    /\ queue' = [queue EXCEPT ![c] = Tail(@)]
    /\ answer' = Reply("recv", c, "ok", Head(queue[c]))
    /\ UNCHANGED <<room, open>>

\* A call fails without touching the queue: a closed channel refuses every message and, once it
\* is empty, every receiver; an open one that is full or empty does so only for now, or for ever
\* when nothing can serve the caller.
SendFails(c, m) ==
    /\ \E code \in {"EPIPE", "EAGAIN", "EDEADLK"} :
          /\ answer' = Reply("send", c, code, m)
          /\ IF code = "EPIPE" THEN ~open[c] ELSE open[c] /\ Len(queue[c]) = room[c]
    /\ UNCHANGED <<queue, room, open>>

RecvFails(c) ==
    /\ queue[c] = <<>>
    /\ \E code \in {"EPIPE", "EAGAIN", "EDEADLK"} :
          /\ answer' = Reply("recv", c, code, NoMsg)
          /\ (code = "EPIPE") = ~open[c]
    /\ UNCHANGED <<queue, room, open>>

Close(c) ==
    /\ open' = [open EXCEPT ![c] = FALSE]
    /\ answer' = Silent
    /\ UNCHANGED <<queue, room>>

\* Freeing a channel drops what is in it; it can be made anew.
Free(c) ==
    /\ open' = [open EXCEPT ![c] = FALSE]
    /\ queue' = [queue EXCEPT ![c] = <<>>]
    /\ answer' = Silent
    /\ UNCHANGED room

\* A channel made with no room, for want of memory, takes nothing.
Make(c, n) ==
    /\ ~open[c] \/ room[c] = 0
    /\ queue[c] = <<>>
    /\ room' = [room EXCEPT ![c] = n]
    /\ open' = [open EXCEPT ![c] = TRUE]
    /\ answer' = Silent
    /\ UNCHANGED queue

\* Everything else a program does leaves every channel as it is.
Elsewhere ==
    /\ answer'.chan = Null
    /\ UNCHANGED <<queue, room, open>>

Next == \/ \E c \in Chans : \/ \E m \in Msgs : Send(c, m) \/ SendFails(c, m)
                            \/ Recv(c) \/ RecvFails(c)
                            \/ Close(c) \/ Free(c)
                            \/ \E n \in Capacities \cup {0} : Make(c, n)
        \/ Elsewhere

Spec == Init /\ [][Next]_qvars
=============================================================================
