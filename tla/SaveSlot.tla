------------------------------ MODULE SaveSlot ------------------------------
(***************************************************************************)
(* What include/ceres/save.h promises of a saved game, without copies,     *)
(* headers or sequence numbers: one value that a save replaces at one      *)
(* instant or not at all, however often the machine stops.  Module Save is *)
(* shown to implement it.                                                  *)
(***************************************************************************)
EXTENDS Integers

VARIABLES value,      \* the number of the save that is there, 0 when none is
          erasing,    \* a save_erase has begun and not returned
          reply       \* what the last step answered

svars == <<value, erasing, reply>>

Answered(call, code) == reply'.call = call /\ reply'.code = code

Init == value = 0 /\ ~erasing /\ reply.call = "none"

\* A save takes effect: before save_write answers 0, in a save_write that fails, or in one that the
\* machine's stopping cut short.
Save ==
    /\ value' > value
    /\ reply'.call = "write" => reply'.data = value'
    /\ reply'.call \in {"none", "write"}
    /\ ~erasing /\ UNCHANGED erasing

\* A save that had no effect.  One that answered 0 had it.
NoSave ==
    /\ reply'.call \in {"none", "write"}
    /\ Answered("write", "ok") => reply'.data = value
    /\ erasing' \in {erasing, FALSE}
    /\ UNCHANGED value

\* What is read is the save, unless one of the copies could not be opened; then it may be an
\* older one, and no news is no proof.
Read ==
    /\ reply'.call \in {"read", "size", "load"}
    /\ reply'.code = "ok" => /\ reply'.data \in 1 .. value
                             /\ reply'.sure => reply'.data = value
    /\ reply'.code = "ENOENT" => value = 0
    /\ ~erasing /\ UNCHANGED <<value, erasing>>

\* An erase may take the newer copy first, and the machine may stop before it takes the other.
Erase ==
    /\ erasing' \/ reply'.call = "erase"
    /\ value' <= value
    /\ Answered("erase", "ok") => value' = 0
    /\ reply'.call \in {"none", "erase"}

Next == Save \/ NoSave \/ Read \/ Erase

Spec == Init /\ [][Next]_svars
=============================================================================
