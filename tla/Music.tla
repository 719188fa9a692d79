------------------------------- MODULE Music --------------------------------
(***************************************************************************)
(* Songs and sound effects on the channels of the audio device:            *)
(* src/ceres/music.c.  A row lasts one unit of time, and of a channel's    *)
(* registers "voice" is whose settings it has and "sound" what it plays.   *)
(* Time goes on while music_update ("updating") catches up, row by row.    *)
(*                                                                         *)
(* "early" are the channels an effect took before the song that now has    *)
(* them as voices began: those, the code does not put back.                *)
(***************************************************************************)
EXTENDS Integers

CONSTANTS Channels,    \* 1 .. MUSIC_CHANNELS
          Songs,       \* each a record of a length and its voices: a token for each row
          Durations, Priorities,
          MaxTime      \* bound: the last unit of time

ASSUME MusicAssumption == 0 \notin Durations       \* sfx_play refuses an effect of no length

VARIABLES chans, song

musicVars == <<chans, song>>
NoEffect == [ms |-> 0, priority |-> 0, start |-> 0]
Stopped == [on |-> FALSE]
InitMusic ==
    /\ chans = [effects |-> [ch \in Channels |-> NoEffect], restore |-> {}, early |-> {}, now |-> 0, updating |-> FALSE,
                voice |-> [ch \in Channels |-> "none"], sound |-> [ch \in Channels |-> "off"]]
    /\ song = Stopped

Busy(c, ch) == c.effects[ch].ms # 0
Used(g, ch) == g.on /\ ch \in DOMAIN g.is.voices
Set(c, S, who) == [c EXCEPT !.voice = [ch \in Channels |-> IF ch \in S THEN who ELSE @[ch]]]
Sounds(c, S, what) == [c EXCEPT !.sound = [ch \in Channels |-> IF ch \in S THEN what ELSE @[ch]]]

-----------------------------------------------------------------------------
(* Effects. *)

Over(c) == {ch \in Channels : Busy(c, ch) /\ c.now - c.effects[ch].start >= c.effects[ch].ms}
\* sfx_update: the effects whose time is over let their note go, and the song's instrument goes back on.
SfxUpdate(c, g) ==
    LET over == Over(c)
        d == Sounds([c EXCEPT !.effects = [ch \in Channels |-> IF ch \in over THEN NoEffect ELSE @[ch]]], over, "off")
    IN  IF g.on THEN Set(d, over \cap c.restore, g.is.name) ELSE d

Best(S) == {CHOOSE ch \in S : \A x \in S : ch >= x}
Lower(c, priority) == {ch \in Channels : c.effects[ch].priority < priority}
Least(c, S) == {CHOOSE ch \in S : \A x \in S : c.effects[ch].priority < c.effects[x].priority
                                              \/ (c.effects[ch].priority = c.effects[x].priority /\ ch <= x)}
\* A free channel first, then one of the song's, then the effect of lowest priority below this one.
Chosen(c, g, priority) ==
    LET free == {ch \in Channels : ~Busy(c, ch)}
        unused == {ch \in free : ~Used(g, ch)}
    IN  IF unused # {} THEN Best(unused) ELSE IF free # {} THEN Best(free)
        ELSE IF Lower(c, priority) # {} THEN Least(c, Lower(c, priority)) ELSE {}
SfxPlay(ms, priority) ==
    LET c == SfxUpdate(chans, song)
        S == Chosen(c, song, priority)
        d == Sounds(Set(c, S, "sfx"), S, "sfx")
    IN  /\ ~chans.updating /\ UNCHANGED song
        /\ chans' = [d EXCEPT !.effects = [ch \in Channels |-> IF ch \in S THEN [ms |-> ms, priority |-> priority, start |-> c.now] ELSE @[ch]],
                              !.restore = (@ \ S) \cup {ch \in S : Used(song, ch)},
                              !.early = (@ \ S) \cup {ch \in S : ~Used(song, ch)}]
SfxUpdates == ~chans.updating /\ chans' = SfxUpdate(chans, song) /\ UNCHANGED song

-----------------------------------------------------------------------------
(* Songs.  A state is the pair of the channels and the song. *)

MineAll(c, g) == {ch \in Channels : Used(g, ch)}
Mine(c, g) == {ch \in Channels : Used(g, ch) /\ ~Busy(c, ch)}
StopSong(s) == [c |-> Sounds(s.c, Mine(s.c, s.g), "off"), g |-> Stopped]

Token(g, ch) == IF g.row + 1 \in DOMAIN g.is.voices[ch] THEN g.is.voices[ch][g.row + 1] ELSE "."
\* The channels whose token the song plays; those of an effect get their turn back later.
Playing(s, token) == {ch \in Mine(s.c, s.g) : Token(s.g, ch) = token}
PlayRow(s) ==
    LET notes == Playing(s, "note")
        c == Set(s.c, notes \cap s.c.restore, s.g.is.name)
    IN  [s EXCEPT !.c = [Sounds(Sounds(c, notes, "note"), Playing(s, "-") \cup Playing(s, "x"), "off")
                           EXCEPT !.restore = @ \ notes]]

\* music_step: the next row, or the end, or the first again with the clock started over.
MusicStep(s) ==
    LET g == [s.g EXCEPT !.row = @ + 1]
    IN  IF ~s.g.on THEN s
        ELSE IF g.row < g.is.length THEN PlayRow([s EXCEPT !.g = g])
        ELSE IF ~g.looping THEN StopSong([s EXCEPT !.g = g])
        ELSE PlayRow([s EXCEPT !.g = [g EXCEPT !.row = 0, !.started = s.c.now]])

Becomes(s) == chans' = s.c /\ song' = s.g
Now == [c |-> chans, g |-> song]
StepByHand == ~chans.updating /\ Becomes(MusicStep(Now))
\* music_update: the effects, and then the rows that are due, one by one.
MusicUpdate == ~chans.updating /\ chans' = [SfxUpdate(chans, song) EXCEPT !.updating = song.on] /\ UNCHANGED song
Due == song.row < chans.now - song.started
CatchUp == LET s == MusicStep(Now)
           IN  chans.updating /\ Due /\ chans' = [s.c EXCEPT !.updating = s.g.on] /\ song' = s.g
CaughtUp == chans.updating /\ ~Due /\ chans' = [chans EXCEPT !.updating = FALSE] /\ UNCHANGED song
MusicStop == ~chans.updating /\ Becomes(StopSong(Now))
MusicPlay(is, loop) ==
    LET s == StopSong(Now)
        g == [on |-> TRUE, is |-> is, looping |-> loop, row |-> -1, started |-> s.c.now]
        c == [s.c EXCEPT !.early = {ch \in @ : Busy(s.c, ch) \/ s.c.voice[ch] = "sfx"}]
    IN  ~chans.updating /\ Becomes(MusicStep([c |-> Set(c, Mine(c, g), is.name), g |-> g]))

Tick == chans.now < MaxTime /\ chans' = [chans EXCEPT !.now = @ + 1] /\ UNCHANGED song

NextMusic ==
    \/ \E ms \in Durations, p \in Priorities : SfxPlay(ms, p)
    \/ \E is \in Songs, loop \in BOOLEAN : MusicPlay(is, loop)
    \/ SfxUpdates \/ MusicUpdate \/ CatchUp \/ CaughtUp \/ StepByHand \/ MusicStop \/ Tick
SpecMusic == InitMusic /\ [][NextMusic]_musicVars

-----------------------------------------------------------------------------
\* The song leaves an effect alone until it is over, no note stays on after its song, and a note has its song's
\* instrument, but on a channel an effect had before the song (src/ceres/music.c).
SoundsRight ==
    \A ch \in Channels :
        /\ Busy(chans, ch) => chans.sound[ch] = "sfx" /\ chans.voice[ch] = "sfx"
        /\ chans.sound[ch] = "sfx" => Busy(chans, ch)
        /\ chans.sound[ch] = "note" => Used(song, ch)
        /\ chans.sound[ch] = "note" => chans.voice[ch] = song.is.name \/ ch \in chans.early
=============================================================================
