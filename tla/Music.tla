------------------------------- MODULE Music --------------------------------
(***************************************************************************)
(* A Bit that plays: DeuxAraDropBit's taps and tilts (bits/deux_ara_drop)  *)
(* through the Sequencer, the agent's queue of Room cues                   *)
(* (devicelink/agent.py, _room_cues) and the AudioBridge, up to the        *)
(* channels of the synthesizer; the lobby's bells, Stop, and the swap of   *)
(* the Room's own sound for the Bit's and back.                            *)
(*                                                                         *)
(* Time is counted in engine ticks and one tick is one step of the grid.   *)
(* A lap of the driver polls (taps, then the queue, then the bells) and    *)
(* then ticks the engine (fires, hence advance).                           *)
(***************************************************************************)
EXTENDS AudioBridge, Sequencer, TimedQueue

CONSTANTS Order,     \* ORDER, the loops a tap goes round
          OneShot,   \* ARABESQUE, what a double tap plays
          PartOf,    \* PARTS, from 1
          Player,    \* the ROOM role of the Bit that plays: for each of its
                     \* parts, whether it is the drum kit
          Roles,     \* the ROOM roles of the Bits there are, Player among them
          Hum,       \* the key of the Room's own drone
          Bell,      \* the key of the lobby's bell
          Horizon,   \* BootConfig.cue_horizon
          BellFor,   \* how long a bell rings
          Lag,       \* how long a gesture may take to arrive
          MaxNow, MaxInputs   \* bounds

ASSUME MusicAssumption ==
    /\ {Horizon, Lag, MaxNow} \subseteq Nat
    /\ OneShot \in Tracks /\ ~Score[OneShot].loop
    /\ Order \in Seq({t \in Tracks : Score[t].loop}) /\ Order # <<>>
    /\ Roles \subseteq Seq(BOOLEAN) /\ Player \in Roles

NoTime == -1

VARIABLES now,      \* the O2 clock
          phase,    \* the engine's state: "idle", "setup" or "running"
          role,     \* the loaded Bit's ROOM role, <<>> without a Bit
          tracks,   \* Sequencer._tracks
          t0,       \* Sequencer._t0, NoTime before its start()
          level,    \* the Bit's _level: "full" or "ducked"
          next,     \* the Bit's _cursor, modulo the length of ORDER
          queue,    \* the agent's _room_cues
          muted,    \* the fixture is muted
          sound,    \* the bridge
          last,     \* the time of the player's last gesture, or the earliest
                    \* its next may have
          song,     \* what each track was last told, for the properties
          inputs    \* what came from outside so far

musicVars == <<now, phase, role, tracks, t0, level, next, queue, muted, sound, last, song, inputs>>

Unheard == [plays |-> FALSE, from |-> 0, chased |-> FALSE, lost |-> 0, settled |-> 0]

Input == inputs < MaxInputs /\ inputs' = inputs + 1

\* A new Bit and its Sequencer.
Fresher == /\ tracks' = Started
           /\ t0' = NoTime
           /\ level' = "full"
           /\ next' = 1
           /\ song' = [t \in Tracks |-> Unheard]

\* _grant_room_audio with the Room's ambient declaration: one part and its drone.
Ambient(s) == StartDrone(OnGrant(OnRelease(s), <<FALSE>>), Hum)

MusicInit ==
    /\ now = 0
    /\ phase = "idle"
    /\ role = <<>>
    /\ tracks = Started
    /\ t0 = NoTime
    /\ level = "full"
    /\ next = 1
    /\ queue = <<>>
    /\ muted = FALSE
    /\ sound = Ambient(NewBridge)
    /\ last = 0
    /\ song = [t \in Tracks |-> Unheard]
    /\ inputs = 0

-----------------------------------------------------------------------------
(* The way of a cue.                                                       *)

\* _dispatch_cues and _on_music_cue: each cue goes to the queue under its own
\* time, unless the fixture is muted.
Queued(q, start, cues) ==
    LET left(c) == IF start + c.at + Horizon > now THEN start + c.at + Horizon - now ELSE 0
        to[n \in 0 .. Len(cues)] ==
            IF n = 0 THEN q ELSE Push(to[n - 1], left(cues[n]), cues[n].load)
    IN  IF muted THEN q ELSE to[Len(cues)]

\* _on_music_purge
Purged(q, t) == Purge(q, {x \in {q[i].load : i \in DOMAIN q} : x.track = t})

\* _render_room: what is due sounds.
Sounded(s, loads) ==
    LET heard[n \in 0 .. Len(loads)] ==
            IF n = 0 THEN s
            ELSE FeedMidi(heard[n - 1], PartOf[loads[n].track], loads[n].kind, loads[n].value)
    IN  heard[Len(loads)]

-----------------------------------------------------------------------------
(* The player.                                                             *)

\* The gesture's own time, as GameServer._origin takes it, and the grid it
\* starts if it is the first time the Bit sees.
Gesture(b) ==
    /\ phase = "running" /\ role = Player
    /\ b \in last .. now
    /\ last' = b
    /\ t0' = IF t0 = NoTime THEN b ELSE t0
    /\ Input

\* What _start sends when it starts the grid.
Opening(b) == IF t0 = NoTime THEN Master(0, level) ELSE <<>>

\* When a change at time b has reached the synthesizer: its cues are due, and a
\* lap that comes after it has emitted what the change made late.
Settles(b) == (IF b + Horizon > now + 1 THEN b + Horizon ELSE now + 1) + 1

\* DeuxAraDropBit._on_tap, one tap: the next loop comes in or drops out.
OnTap(b) ==
    LET t    == Order[next]
        step == b - t0'
        in   == Enable(t, tracks[t], step, level)
        out  == Disable(t, tracks[t], step)
    IN  /\ Gesture(b)
        /\ next' = (next % Len(Order)) + 1
        /\ IF tracks[t].on
           THEN /\ tracks' = [tracks EXCEPT ![t] = out.track]
                /\ queue' = Queued(Purged(Queued(queue, t0', Opening(b)), t), t0', out.cues)
                /\ song' = [song EXCEPT ![t] = [Unheard EXCEPT !.settled = Settles(b)]]
           ELSE /\ tracks' = [tracks EXCEPT ![t] = in.track]
                /\ queue' = Queued(Queued(queue, t0', Opening(b)), t0', in.cues)
                /\ song' = [song EXCEPT ![t] = [plays |-> TRUE, from |-> step,
                                chased |-> ~muted, lost |-> step, settled |-> Settles(b)]]
        /\ UNCHANGED <<now, phase, role, level, muted, sound>>

\* DeuxAraDropBit._on_tap, a double tap: the one-shot starts on the next beat,
\* or stops.
OnDoubleTap(b) ==
    LET step == b - t0'
        in   == PlayOnce(OneShot, tracks[OneShot], step, level)
        out  == Disable(OneShot, tracks[OneShot], step)
    IN  /\ Gesture(b)
        /\ IF tracks[OneShot].on
           THEN /\ tracks' = [tracks EXCEPT ![OneShot] = out.track]
                /\ queue' = Queued(Purged(Queued(queue, t0', Opening(b)), OneShot), t0', out.cues)
                /\ song' = [song EXCEPT ![OneShot] = [Unheard EXCEPT !.settled = Settles(b)]]
           ELSE /\ tracks' = [tracks EXCEPT ![OneShot] = in.track]
                /\ queue' = Queued(Queued(queue, t0', Opening(b)), t0', in.cues)
                /\ song' = [song EXCEPT ![OneShot] = [plays |-> TRUE, from |-> NextBeat(step),
                                chased |-> FALSE, lost |-> NextBeat(step), settled |-> Settles(b)]]
        /\ UNCHANGED <<now, phase, role, level, next, muted, sound>>

\* DeuxAraDropBit._on_tilt: the whole mix is ducked, or restored.
OnTilt(b) ==
    /\ t0 # NoTime
    /\ Gesture(b)
    /\ level' = IF level = "full" THEN "ducked" ELSE "full"
    /\ queue' = Queued(queue, t0, Master(b - t0, level'))
    /\ UNCHANGED <<now, phase, role, tracks, next, muted, sound, song>>

-----------------------------------------------------------------------------
(* Stop and what lifts it.                                                 *)

\* Faulty variant: the cues already queued stay queued.
MuteKeeps(q) == q

\* _on_mute_change: the fixture's queued cues go.
Mute(q) == <<>>

Stop ==
    /\ phase = "running" /\ ~muted
    /\ Input
    /\ muted' = TRUE
    /\ queue' = Mute(queue)
    /\ sound' = Silence(sound)
    /\ song' = [t \in Tracks |-> [song[t] EXCEPT !.chased = FALSE]]
    /\ UNCHANGED <<now, phase, role, tracks, t0, level, next, last>>

\* What was struck meanwhile is not heard any more.
Unmute ==
    /\ muted
    /\ muted' = FALSE
    /\ song' = [t \in Tracks |->
           [song[t] EXCEPT !.lost = tracks[t].cursor,
                           !.settled = IF @ > now + Horizon + 1 THEN @ ELSE now + Horizon + 1]]
    /\ UNCHANGED <<now, phase, role, tracks, t0, level, next, queue, sound, last, inputs>>

-----------------------------------------------------------------------------
(* The Bit comes and goes.                                                 *)

\* LOADED: _setup_room swaps the Room's own sound for the Bit's ROOM role.
Load ==
    /\ phase = "idle"
    /\ phase' = "setup"
    /\ role' \in Roles
    /\ Input
    /\ sound' = OnGrant(OnRelease(sound), role')
    /\ Fresher
    /\ UNCHANGED <<now, queue, muted, last>>

\* The lobby's join bell.
Join ==
    /\ phase = "setup"
    /\ Input
    /\ sound' = PlayNote(sound, Bell, BellFor)
    /\ UNCHANGED <<now, phase, role, tracks, t0, level, next, queue, muted, last, song>>

\* RUNNING; the Bit's role declares no drone.
Run ==
    /\ phase = "setup"
    /\ phase' = "running"
    /\ UNCHANGED <<now, role, tracks, t0, level, next, queue, muted, sound, last, song, inputs>>

\* abort and the end of a round: UNLOADING empties the queue, stops the drone
\* and lifts the mutes; IDLE gives the Room its own sound back.
Unload ==
    /\ phase # "idle"
    /\ phase' = "idle"
    /\ role' = <<>>
    /\ queue' = <<>>
    /\ muted' = FALSE
    /\ sound' = Ambient(StopDrone(sound))
    /\ Fresher
    /\ UNCHANGED <<now, last, inputs>>

-----------------------------------------------------------------------------
(* One lap of the driver, after what it received: _render_room,            *)
(* _tick_audio, then the engine's tick with the Bit's fires.  A lap with   *)
(* nothing to sound and no Bit to tick would move the clock only.          *)

\* What the engine's tick sends at a grid step: advance of every track, after the
\* opening if this tick starts the grid.
Emitted(step) ==
    LET order == SetToSeq(Tracks)
        cues[n \in 0 .. Len(order)] ==
            IF n = 0 THEN IF t0 = NoTime THEN Master(0, level) ELSE <<>>
            ELSE cues[n - 1] \o Advance(order[n], tracks[order[n]], step, level).cues
    IN  cues[Len(order)]

MusicLap ==
    LET start == IF t0 = NoTime THEN now ELSE t0
        step  == now - start
        a(t)  == Advance(t, tracks[t], step, level)
        ticks == phase = "running" /\ role = Player
    IN  /\ now < MaxNow /\ (ticks \/ sound.bells # {})
        /\ now' = now + 1
        /\ sound' = Wait(Tick(Sounded(sound, Due(queue))))
        /\ queue' = Elapse(IF ticks THEN Queued(Rest(queue), start, Emitted(step)) ELSE Rest(queue))
        /\ t0' = IF ticks THEN start ELSE t0
        /\ tracks' = IF ticks THEN [t \in Tracks |-> a(t).track] ELSE tracks
        /\ last' = IF last < now' - Lag THEN now' - Lag ELSE last
        /\ song' = [t \in Tracks |-> [song[t] EXCEPT !.settled = IF @ <= now' THEN 0 ELSE @]]
        /\ UNCHANGED <<phase, role, level, next, muted, inputs>>

MusicNext ==
    \/ \E b \in 0 .. now : OnTap(b) \/ OnDoubleTap(b) \/ OnTilt(b)
    \/ Stop \/ Unmute
    \/ Load \/ Join \/ Run \/ Unload
    \/ MusicLap

MusicSpec == MusicInit /\ [][MusicNext]_musicVars

-----------------------------------------------------------------------------
(* Properties                                                              *)

Parts == ToSet(sound.parts)
Belled == {b.channel : b \in sound.bells}
Voice(t) == sound.synth[sound.parts[PartOf[t]]]

\* What the score of track t has sounding at grid step g, of a track that was
\* told to play as song[t] says: the notes of every turn of the loop struck
\* since and heard, and those under way then that were struck again.
WrittenKeys(t, g) ==
    LET s == song[t]
        base(k) == IF Score[t].loop THEN k * Length[t] ELSE s.from
        turns == IF Score[t].loop THEN {k \in {g \div Length[t], g \div Length[t] - 1} : k >= 0}
                                  ELSE {0}
    IN  {n.key : n \in {n \in Notes[t] : \E k \in turns :
            /\ base(k) + n.on <= g /\ g < base(k) + n.off
            /\ \/ base(k) + n.on >= s.lost
               \/ /\ s.chased
                  /\ base(k) + n.on < s.from
                  /\ base(k) + n.off - s.from >= ChaseMin}}

\* A Stop is silence: nothing of the Bit's sounds until it is lifted, neither what
\* was queued nor what comes nor what a pedal held.
SilentWhileMuted == muted => \A c \in Parts : Sounding(sound.synth[c]) = {}

\* The keys down on a track's channel, once its last change has settled, are
\* those its score has down at this moment of the grid, and none once it is
\* off: no note hangs and none is played twice or out of its time, whatever
\* taps, double taps, late gestures and Stops went before.  And a Stop is silence.
HeardAsWritten ==
    /\ SilentWhileMuted
    /\ \A t \in Tracks :
          (phase = "running" /\ t0 # NoTime /\ ~muted /\ sound.parts # <<>>
                             /\ now >= song[t].settled /\ now > t0 + Horizon)
          => /\ Voice(t).down = IF song[t].plays
                                THEN WrittenKeys(t, now - 1 - Horizon - t0) ELSE {}
             /\ ~song[t].plays => Sounding(Voice(t)) = {} /\ ~Voice(t).pedal

\* Every channel is in the pool, granted or ringing a bell, and in one of these
\* only; melodies stay off the drum channel.  One in the pool is as it left it:
\* silent, pedal up, at full volume, though a Bit was swapped out in the middle
\* of a chord.
ChannelsKept ==
    /\ Channels = sound.free \cup Parts \cup Belled
    /\ sound.free \cap (Parts \cup Belled) = {}
    /\ Parts \cap Belled = {}
    /\ \A i, j \in DOMAIN sound.parts : sound.parts[i] = sound.parts[j] => i = j
    /\ \A a, b \in sound.bells : a.channel = b.channel => a = b
    /\ \A i \in DOMAIN sound.parts :
           sound.parts[i] = DrumChannel => phase # "idle" /\ role[i]
    /\ DrumChannel \notin Belled
    /\ \A c \in sound.free : sound.synth[c] = Fresh

=============================================================================
