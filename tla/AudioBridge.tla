---------------------------- MODULE AudioBridge -----------------------------
(***************************************************************************)
(* control/audio.py and the voice pool behind it, harness/arco_synth.py,   *)
(* for the one fixture of a Room that carries sound: which MIDI channel    *)
(* belongs to whom, and what each channel of the shared synthesizer holds. *)
(*                                                                         *)
(* A bridge is a record:                                                   *)
(*   free     the channels the pool has to give (ArcoSynthPool._free);     *)
(*   parts    the channels granted to the fixture, by part number from 1   *)
(*            (AudioBridge._devices), empty when it has no grant;          *)
(*   drone    the key of its drone while that sounds, else NoKey;          *)
(*   bells    the transient notes still to be ended (_pending_offs), a set *)
(*            as each has a channel of its own: [left, channel, key];      *)
(*   synth    what Flsyn holds, per channel: the keys down, the keys a     *)
(*            pedal still holds, the pedal, and the volume (CC 7).         *)
(***************************************************************************)
EXTENDS Naturals, SequencesExt, FiniteSetsExt

CONSTANTS Channels,      \* the channels of one Flsyn, numbers
          DrumChannel,   \* DRUM_CHANNEL: percussion sounds here only
          NoKey          \* no drone sounds

ASSUME ChannelAssumption == Channels \subseteq Nat /\ DrumChannel \in Channels

\* A channel as the pool hands it out; CC 7 is at its General MIDI default.
Fresh == [down |-> {}, held |-> {}, pedal |-> FALSE, volume |-> "default"]

Sounding(v) == v.down \cup v.held

-----------------------------------------------------------------------------
(* The synthesizer's answer to each call, as FluidSynth gives it: a key    *)
(* let go, or all of them, keeps sounding while the pedal is down.         *)

NoteOn(v, k) == [v EXCEPT !.down = @ \cup {k}, !.held = @ \ {k}]
NoteOff(v, k) ==
    [v EXCEPT !.down = @ \ {k},
              !.held = IF v.pedal THEN @ \cup ({k} \cap v.down) ELSE @]
Pedal(v, down) == [v EXCEPT !.pedal = down, !.held = IF down THEN @ ELSE {}]
Volume(v, x) == [v EXCEPT !.volume = x]
AllOff(v) == [v EXCEPT !.down = {},
                       !.held = IF v.pedal THEN @ \cup v.down ELSE @]

-----------------------------------------------------------------------------
(* ArcoSynthPool                                                           *)

NewBridge == [free |-> Channels, parts |-> <<>>, drone |-> NoKey, bells |-> {},
              synth |-> [c \in Channels |-> Fresh]]

\* ArcoSynthPool.acquire: drums take the drum channel, a melody never does.
Available(free, drums) ==
    IF drums THEN free \cap {DrumChannel} ELSE free \ {DrumChannel}

\* ArcoSynthPool.release
Released(free, chans) == free \cup chans

-----------------------------------------------------------------------------
(* AudioBridge                                                             *)

\* Faulty variant: the pedal is left as it was.
QuietPedal(v) == AllOff(Volume(v, "default"))

\* AudioBridge._quiet, one part: pedal up and volume back, then all off.
Quiet(v) == AllOff(Volume(Pedal(v, FALSE), "default"))

\* Op done to each of the channels `chans`.
On(s, chans, Op(_)) ==
    [s EXCEPT !.synth = [c \in Channels |->
                            IF c \in chans THEN Op(s.synth[c]) ELSE s.synth[c]]]

\* AudioBridge._apply_midi: an event reaches the channel of the part its
\* status byte names; a nibble that names no part falls back to part 1.  What is
\* neither a note nor a lane's controller is dropped.
Part(s, part) == IF part \in DOMAIN s.parts THEN s.parts[part] ELSE s.parts[1]

Effect(v, kind, value) ==
    CASE kind = "on"     -> NoteOn(v, value)
      [] kind = "off"    -> NoteOff(v, value)
      [] kind = "down"   -> Pedal(v, TRUE)
      [] kind = "up"     -> Pedal(v, FALSE)
      [] kind = "volume" -> Volume(v, value)
      [] OTHER           -> v

FeedMidi(s, part, kind, value) ==
    IF s.parts = <<>> THEN s
    ELSE On(s, {Part(s, part)}, LAMBDA v : Effect(v, kind, value))

\* AudioBridge.start_drone and stop_drone; the drone belongs to part 1.
StartDrone(s, key) ==
    IF s.parts = <<>> \/ s.drone # NoKey THEN s
    ELSE [FeedMidi(s, 1, "on", key) EXCEPT !.drone = key]
StopDrone(s) ==
    IF s.drone = NoKey THEN s
    ELSE [FeedMidi(s, 1, "off", s.drone) EXCEPT !.drone = NoKey]

\* AudioBridge.silence: Stop's half of it; the grant stays.
Silence(s) == On(StopDrone(s), ToSet(s.parts), Quiet)

\* AudioBridge.on_release
OnRelease(s) ==
    LET quiet == Silence(s)
    IN  [quiet EXCEPT !.free = Released(@, ToSet(s.parts)), !.parts = <<>>]

\* A channel for every part, lowest first, as long as the pool has one.
Fill(free, drumsOf) ==
    LET got[n \in 0 .. Len(drumsOf)] ==
            IF n = 0 THEN <<>>
            ELSE LET chans == Available(free \ ToSet(got[n - 1]), drumsOf[n])
                 IN  IF chans = {} THEN got[n - 1] ELSE Append(got[n - 1], Min(chans))
    IN  got[Len(drumsOf)]

\* Faulty variant: a grant the pool cannot fill loses what it took.
OnGrantLeaks(s, drumsOf) ==
    LET got == Fill(s.free, drumsOf)
    IN  [s EXCEPT !.free  = @ \ ToSet(got),
                  !.parts = IF Len(got) = Len(drumsOf) THEN got ELSE <<>>]

\* AudioBridge.on_grant: when the pool cannot give a channel, those already
\* taken go back and the fixture has none.
OnGrant(s, drumsOf) ==
    LET got == Fill(s.free, drumsOf)
    IN  IF Len(got) = Len(drumsOf)
        THEN [s EXCEPT !.free = @ \ ToSet(got), !.parts = got]
        ELSE s

\* AudioBridge.play_note: a note on a channel of its own; without one it raises.
PlayNote(s, key, for) ==
    LET chans == Available(s.free, FALSE)
        c     == Min(chans)
    IN  IF chans = {} THEN s
        ELSE [On(s, {c}, LAMBDA v : NoteOn(v, key)) EXCEPT
                 !.free  = @ \ {c},
                 !.bells = @ \cup {[left |-> for, channel |-> c, key |-> key]}]

\* AudioBridge.tick: the bells whose time has come end and give up theirs ...
Ended(s) == {b.channel : b \in {b \in s.bells : b.left = 0}}

Tick(s) ==
    [On(s, Ended(s), AllOff) EXCEPT
        !.free  = Released(@, Ended(s)),
        !.bells = {b \in @ : b.left # 0}]

\* ... and a unit of time passes for the others.
Wait(s) ==
    [s EXCEPT !.bells = {[b EXCEPT !.left = IF @ = 0 THEN 0 ELSE @ - 1] : b \in @}]

=============================================================================
