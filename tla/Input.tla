-------------------------------- MODULE Input --------------------------------
(***************************************************************************)
(* Input: what is typed, and the state of keys and buttons frame by frame. *)
(***************************************************************************)
EXTENDS Integers, Sequences

-----------------------------------------------------------------------------
\* Bytes of the terminal made into keys (src/ceres/key.c) and into lines
\* (src/ceres/line.c), as they arrive: a byte may be there at once, within
\* the time the decoder waits for it, or later.
\* "eaten" are the bytes taken, with Gap where the reader waited for one
\* and went on without; it is not in the code.

CONSTANTS Bytes,       \* a class of bytes each
          MaxBytes,    \* of the whole input
          LineMax      \* the room of line_read

VARIABLES term, reader, out, eaten

typingVars == <<term, reader, out, eaten>>

None == "none"
Gap == "gap"
EndOf(s) == s[Len(s)]
Finals == {"A", "x", "[", "O"}          \* 40 to 7E
Printable == {"A", "x", "[", "O", "1", ";"}
NoBytes == <<>>

InitTyping == /\ term = [ready |-> NoBytes, came |-> 0, ended |-> FALSE]
              /\ reader = [pc |-> "idle", held |-> None, text |-> NoBytes]
              /\ out = <<>> /\ eaten = <<>>

\* Bytes and the end of the input come by themselves (external).
Arrives(b) == /\ ~term.ended /\ term.came < MaxBytes
              /\ term' = [term EXCEPT !.ready = Append(@, b), !.came = @ + 1] /\ UNCHANGED <<reader, out, eaten>>
Ends == ~term.ended /\ term' = [term EXCEPT !.ended = TRUE] /\ UNCHANGED <<reader, out, eaten>>

\* next_byte: the byte held back first.
There == reader.held # None \/ term.ready # <<>>
Next_ == IF reader.held # None THEN reader.held ELSE Head(term.ready)
Take == IF reader.held # None THEN UNCHANGED <<term, eaten>>
        ELSE term' = [term EXCEPT !.ready = Tail(@)] /\ eaten' = Append(eaten, Head(term.ready))
To(pc, held) == reader' = [reader EXCEPT !.pc = pc, !.held = held]
Says(key) == out' = Append(out, key)
Quiet == UNCHANGED out
Follower(pc) == reader.pc = pc /\ There /\ Take
\* following_byte: none is there, and none came while it waited.
NoFollower(pc) == reader.pc = pc /\ ~There /\ UNCHANGED term /\ eaten' = Append(eaten, Gap)

-----------------------------------------------------------------------------
(* Keys: key_get and key_wait, one step for each byte. *)

CsiKey(final) == IF final = "A" THEN <<"Up">> ELSE <<>>
SaysKeys(keys) == out' = out \o keys

KeyStart ==
    /\ Follower("idle")
    /\ CASE Next_ = "esc" -> To("esc", None) /\ Quiet
         [] Next_ = "cr" -> To("cr", None) /\ Quiet
         [] Next_ = "lf" -> To("idle", None) /\ Says("Enter")
         [] Next_ = "lead" -> To("utf", None) /\ Quiet
         [] Next_ = "cont" -> To("idle", None) /\ Quiet
         [] OTHER -> To("idle", None) /\ Says(Next_)

\* decode_escape: an Escape followed by an ordinary byte is the key, and the byte is kept.
Escape ==
    \/ /\ Follower("esc")
       /\ CASE Next_ = "O" -> To("ss3", None) /\ Quiet
            [] Next_ = "[" -> To("csi", None) /\ Quiet
            [] OTHER -> To("idle", Next_) /\ Says("Esc")
    \/ NoFollower("esc") /\ To("idle", None) /\ Says("Esc")
Ss3 == \/ Follower("ss3") /\ To("idle", None) /\ SaysKeys(CsiKey(Next_))
       \/ NoFollower("ss3") /\ To("idle", None) /\ Quiet
\* The numbers of a sequence are gone through, to its final byte.
Csi == \/ /\ Follower("csi")
          /\ IF Next_ \in {"1", ";"} THEN To("csi", None) /\ Quiet
             ELSE To("idle", None) /\ SaysKeys(IF Next_ \in Finals THEN CsiKey(Next_) ELSE <<>>)
       \/ NoFollower("csi") /\ To("idle", None) /\ Quiet
\* decode_byte: a carriage return and a line feed are one Enter.
KeepEvery(b) == b
KeepFollower(b) == IF b # "lf" THEN b ELSE None
Return == \/ Follower("cr") /\ To("idle", KeepFollower(Next_)) /\ Says("Enter")
          \/ NoFollower("cr") /\ To("idle", None) /\ Says("Enter")
\* A character cut short is forgotten, what came next is kept.
Utf8 == \/ /\ Follower("utf")
           /\ IF Next_ = "cont" THEN To("idle", None) /\ Says("point") ELSE To("idle", Next_) /\ Quiet
        \/ NoFollower("utf") /\ To("idle", None) /\ Quiet

NextKeys == (\E b \in Bytes : Arrives(b)) \/ Ends \/ KeyStart \/ Escape \/ Ss3 \/ Csi \/ Return \/ Utf8

-----------------------------------------------------------------------------
(* Lines: line_read. *)

LineEnd(line) == /\ reader' = [reader EXCEPT !.pc = "idle", !.text = <<>>] /\ out' = Append(out, line)
Kept(b) == IF Len(reader.text) < LineMax - 1 THEN Append(reader.text, b) ELSE reader.text
LineByte ==
    /\ Follower("idle")
    /\ CASE Next_ = "cr" -> To("cr", None) /\ Quiet
         [] Next_ = "lf" -> reader' = [reader EXCEPT !.held = None, !.text = <<>>] /\ out' = Append(out, reader.text)
         [] OTHER -> reader' = [reader EXCEPT !.held = None, !.text = Kept(Next_)] /\ Quiet
\* After a '\r' only a byte that is already there is looked at.
LineReturn ==
    \/ /\ Follower("cr") /\ out' = Append(out, reader.text)
       /\ reader' = [reader EXCEPT !.pc = "idle", !.held = KeepFollower(Next_), !.text = <<>>]
    \/ NoFollower("cr") /\ LineEnd(reader.text)
\* A last line with no newline is still a line.
LineLast == /\ reader.pc = "idle" /\ ~There /\ term.ended /\ reader.text # <<>>
            /\ LineEnd(reader.text) /\ UNCHANGED <<term, eaten>>
LineDiscard == /\ reader.pc = "idle" /\ reader.text = <<>> /\ There
               /\ term' = [term EXCEPT !.ready = <<>>] /\ To("idle", None) /\ eaten' = <<>> /\ out' = <<>>

NextLines == (\E b \in Bytes : Arrives(b)) \/ Ends \/ LineByte \/ LineReturn \/ LineLast \/ LineDiscard

-----------------------------------------------------------------------------
\* What a stretch of bytes stands for.
RECURSIVE Keys(_), Lines(_, _)
After(s, n) == SubSeq(s, n + 1, Len(s))
Params(s) == CHOOSE n \in 2 .. Len(s) : (n = Len(s) \/ s[n + 1] \notin {"1", ";"}) /\ \A i \in 3 .. n : s[i] \in {"1", ";"}
Keys(s) ==
    IF s = <<>> THEN <<>>
    ELSE LET more == Len(s) > 1
             final == Params(s) + 1
         IN CASE s[1] = Gap \/ s[1] = "cont" -> Keys(Tail(s))
              [] s[1] = "esc" /\ more /\ s[2] = "O" -> IF Len(s) = 2 THEN <<>> ELSE CsiKey(s[3]) \o Keys(After(s, 3))
              [] s[1] = "esc" /\ more /\ s[2] = "[" ->
                     IF final > Len(s) THEN <<>> ELSE CsiKey(s[final]) \o Keys(After(s, final))
              [] s[1] = "esc" -> <<"Esc">> \o Keys(Tail(s))
              [] s[1] \in {"cr", "lf"} ->
                     <<"Enter">> \o Keys(IF s[1] = "cr" /\ more /\ s[2] = "lf" THEN After(s, 2) ELSE Tail(s))
              [] s[1] = "lead" -> IF more /\ s[2] = "cont" THEN <<"point">> \o Keys(After(s, 2)) ELSE Keys(Tail(s))
              [] OTHER -> <<s[1]>> \o Keys(Tail(s))
Cut(s) == SubSeq(s, 1, IF Len(s) < LineMax THEN Len(s) ELSE LineMax - 1)
Lines(s, line) ==
    IF s = <<>> THEN <<>>
    ELSE CASE s[1] = "cr" /\ Len(s) > 1 /\ s[2] = "lf" -> <<Cut(line)>> \o Lines(After(s, 2), <<>>)
           [] s[1] \in {"cr", "lf"} -> <<Cut(line)>> \o Lines(Tail(s), <<>>)
           [] s[1] = Gap -> Lines(Tail(s), line)
           [] OTHER -> Lines(Tail(s), Append(line, s[1]))
Settled == SubSeq(eaten, 1, Len(eaten) - IF reader.held = None THEN 0 ELSE 1)

\* The keys given are those the bytes stand for, each byte once, whatever was held back between the calls and
\* however the bytes were spaced.
KeysDecoded == reader.pc = "idle" => out = Keys(Settled)

\* The lines given are those of the input: a carriage return with its line feed ends one line.
LinesRead == reader.pc = "idle" /\ ~term.ended => out = Lines(Settled, <<>>)

-----------------------------------------------------------------------------
\* Input by the frame: the keys of src/ceres/input.c, and the buttons of
\* the mouse and the gamepad (mouse.c, gamepad.c).
\* "terminal" tells whether typed characters count as keys; "pad" holds
\* the buttons as they are and as the frame has them.  "told" is the frame
\* as it happened: what was held before it, what came in it.

CONSTANTS Scancodes, Buttons, MaxEvents

VARIABLES keys, terminal, pad, told

frameVars == <<keys, terminal, pad, told>>

Up == {}
InitFrame == /\ keys = [k \in Scancodes |-> Up]
             /\ terminal = FALSE
             /\ pad \in [now : SUBSET Buttons, previous : {{}}, pressed : {{}}, released : {{}}, before : {{}}]
             /\ told = [before |-> [k \in Scancodes |-> FALSE], events |-> <<>>, typed |-> {}, was |-> [k \in Scancodes |-> Up]]

-----------------------------------------------------------------------------
(* The devices (external). *)
EventLists == UNION {[1 .. n -> [key : Scancodes, down : BOOLEAN]] : n \in 0 .. MaxEvents}
Push(S) == pad' = [pad EXCEPT !.now = S] /\ UNCHANGED <<keys, terminal, told>>

\* input_begin_frame: a held key stays so, and a typed one ends with its frame.
Begun(k) == IF "synth" \in k THEN (IF "down" \in k THEN {"released"} ELSE Up) ELSE k \cap {"down"}
\* input_key_event: a repeat is not a new press.
Pressed(k) == k \cup {"down"} \cup IF "down" \in k THEN {} ELSE {"pressed"}
Released(k) == IF "down" \in k THEN (k \ {"down"}) \cup {"released"} ELSE k
KeyEvent(ks, e) == [ks EXCEPT ![e.key] = IF e.down THEN Pressed(@) ELSE Released(@)]
RECURSIVE Events(_, _)
Events(ks, es) == IF es = <<>> THEN ks ELSE Events(KeyEvent(ks, Head(es)), Tail(es))
SynthPress(k) == Pressed(k) \cup {"synth"}

\* mouse_poll and gp_poll: the edges are against the poll before.
Poll(p) == [p EXCEPT !.pressed = p.now \ p.previous, !.released = p.previous \ p.now, !.previous = p.now, !.before = p.previous]

InputUpdate(events, chars) ==
    LET begun == [k \in Scancodes |-> Begun(keys[k])]
        polled == Events(begun, events)
        typed == IF terminal THEN chars ELSE {}
    IN  /\ keys' = [k \in Scancodes |-> IF k \in typed THEN SynthPress(polled[k]) ELSE polled[k]]
        /\ UNCHANGED terminal
        /\ pad' = Poll(pad)
        /\ told' = [before |-> [k \in Scancodes |-> "down" \in keys[k] /\ "synth" \notin keys[k]],
                    events |-> events, typed |-> typed, was |-> keys]
Fallback(on) == terminal' = on /\ UNCHANGED <<keys, pad, told>>
\* input_init: the first poll only tells what is down.
InputInit ==
    /\ keys' = [k \in Scancodes |-> Up]
    /\ terminal' = FALSE
    /\ pad' = [Poll(pad) EXCEPT !.pressed = {}, !.released = {}, !.before = pad.now]
    /\ told' = [before |-> [k \in Scancodes |-> FALSE], events |-> <<>>, typed |-> {}, was |-> [k \in Scancodes |-> Up]]

NextFrame == \/ \E events \in EventLists, chars \in SUBSET Scancodes : InputUpdate(events, chars)
             \/ \E S \in SUBSET Buttons : Push(S)
             \/ \E on \in BOOLEAN : Fallback(on)
             \/ InputInit

-----------------------------------------------------------------------------
Of(k) == SelectSeq(told.events, LAMBDA e : e.key = k)
HeldAfter(k) == LET es == Of(k) IN IF es = <<>> THEN told.before[k] ELSE es[Len(es)].down
HeldBefore(k, i) == IF i = 1 THEN told.before[k] ELSE Of(k)[i - 1].down
Goes(k, down) == \E i \in DOMAIN Of(k) : Of(k)[i].down = down /\ HeldBefore(k, i) # down

\* The frame tells what happened in it: a tap is seen though it is over, a repeat is not a press, a typed key is down
\* for its frame alone, and a button's edges are between the two frames.
FrameTells ==
    /\ \A k \in Scancodes :
          /\ k \notin told.typed /\ "synth" \notin told.was[k] =>
                /\ "down" \in keys[k] <=> HeldAfter(k)
                /\ "pressed" \in keys[k] <=> Goes(k, TRUE)
                /\ "released" \in keys[k] <=> Goes(k, FALSE)
          /\ k \in told.typed => {"down", "synth"} \subseteq keys[k]
          /\ "synth" \in told.was[k] /\ k \notin told.typed /\ Of(k) = <<>> => keys[k] = {"released"}
    /\ pad.pressed = pad.previous \ pad.before /\ pad.released = pad.before \ pad.previous
=============================================================================
