----------------------------- MODULE MCDevices ------------------------------
(***************************************************************************)
(* Streams, devices and the program's surroundings, one of them in each    *)
(* behaviour: "kind" says which.  Input has the variables declared here;   *)
(* the others have their own and stay as they began when another is        *)
(* explored.                                                               *)
(***************************************************************************)
EXTENDS Integers, Sequences, Stream, Waits, Mmu, Music, Surroundings

CONSTANT Kinds         \* those explored

VARIABLES kind, impl, past, part, rest

vars == <<kind, impl, past, part, rest, streamVars, memVars, waitVars, mmuVars, musicVars, surroundingVars>>
None == 0

Two == {1, 2}
FewOffsets == {-1, 0, 2}
OneFile == {<<1, 0, 1>>}
TwoBuffers == {<<1, 1, 1>>, <<1, 0, 1>>}
FirstSong == [name |-> "first", length |-> 2, voices |-> [ch \in Two |-> IF ch = 1 THEN <<"note", "-">> ELSE <<"note">>]]
SecondSong == [name |-> "second", length |-> 3, voices |-> [ch \in {2} |-> <<"x", "note", ".">>]]
TheSongs == {FirstSong, SecondSong}
KeyBytes == {"esc", "[", "O", "A", "1", "cr", "lf", "lead", "cont"}
Ke == INSTANCE Input WITH Bytes <- KeyBytes, MaxBytes <- 4, LineMax <- 3, Scancodes <- {1}, Buttons <- {1}, MaxEvents <- 3,
                          term <- impl, reader <- part, out <- rest, eaten <- past, keys <- impl, terminal <- part, pad <- rest
LineBytes == {"cr", "lf", "x"}
Li == INSTANCE Input WITH Bytes <- LineBytes, MaxBytes <- 5, LineMax <- 3, Scancodes <- {1}, Buttons <- {1}, MaxEvents <- 3,
                          term <- impl, reader <- part, out <- rest, eaten <- past, keys <- impl, terminal <- part, pad <- rest
EnvLoaded == <<"a">>

QuietStream == file = Stdout(Fresh) /\ told = ToldOf(file)
QuietMem == mem = Fmemopen(<<1, 1, 1>>, "r") /\ text = [held |-> mem.bytes, ends |-> FALSE, said |-> NoChar]
QuietWaits == cpu = Unasked /\ waiter = Waiting("flag") /\ dev = Quiet("flag", 0)
Init ==
    /\ kind \in Kinds
    /\ IF kind = "stream" THEN InitStream ELSE QuietStream
    /\ IF kind = "memory" THEN InitMem ELSE QuietMem
    /\ IF kind = "waits" THEN InitWaits ELSE QuietWaits
    /\ InitSpaces /\ InitMusic /\ InitSurroundings
    /\ CASE kind = "keys" -> Ke!InitTyping
         [] kind = "lines" -> Li!InitTyping
         [] kind = "input" -> Ke!InitFrame
         [] OTHER -> impl = None /\ past = None /\ part = None /\ rest = None

NextOther ==
    \/ kind = "keys" /\ Ke!NextKeys
    \/ kind = "lines" /\ Li!NextLines
    \/ kind = "input" /\ Ke!NextFrame
NextOwn ==
    \/ kind = "stream" /\ NextStream /\ UNCHANGED <<memVars, waitVars, mmuVars, musicVars, surroundingVars>>
    \/ kind = "memory" /\ NextMem /\ UNCHANGED <<streamVars, waitVars, mmuVars, musicVars, surroundingVars>>
    \/ kind = "waits" /\ NextWaits /\ UNCHANGED <<streamVars, memVars, mmuVars, musicVars, surroundingVars>>
    \/ kind = "mmu" /\ NextSpaces /\ UNCHANGED <<streamVars, memVars, waitVars, musicVars, surroundingVars>>
    \/ kind = "music" /\ NextMusic /\ UNCHANGED <<streamVars, memVars, waitVars, mmuVars, surroundingVars>>
    \/ kind = "ending" /\ NextEnd /\ UNCHANGED <<streamVars, memVars, waitVars, mmuVars, musicVars, envVars, mediaVars>>
    \/ kind = "environ" /\ NextEnv /\ UNCHANGED <<streamVars, memVars, waitVars, mmuVars, musicVars, endVars, mediaVars>>
    \/ kind = "media" /\ NextMedia /\ UNCHANGED <<streamVars, memVars, waitVars, mmuVars, musicVars, endVars, envVars>>
Next ==
    /\ UNCHANGED kind
    /\ \/ NextOther /\ UNCHANGED <<streamVars, memVars, waitVars, mmuVars, musicVars, surroundingVars>>
       \/ NextOwn /\ UNCHANGED <<impl, past, part, rest>>
Spec == Init /\ [][Next]_vars

-----------------------------------------------------------------------------
\* Keys and lines are those of the bytes typed, and the frame's edges those of what happened in it
\* (src/ceres/key.c, line.c, input.c).
InputTells ==
    CASE kind = "keys" -> Ke!KeysDecoded
      [] kind = "lines" -> Li!LinesRead
      [] kind = "input" -> Ke!FrameTells
      [] OTHER -> TRUE
=============================================================================
