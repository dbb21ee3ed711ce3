------------------------------ MODULE Surfaces -------------------------------
(***************************************************************************)
(* What a surface, a player's device or a fixture of the Room, may show    *)
(* while it is muted.  A Stop latches twice: in the engine                 *)
(* (control/engine.py, GameServer.muted, which the Console shows and which *)
(* silences sound) and in the DeviceLink agent (_muted with a blackout     *)
(* that never lapses, which darkens the light).  Each keeps the latch      *)
(* under a key it works out from the bindings of the moment, while devices *)
(* come, go, bind to fixtures and rebind, scripts have steps waiting, and  *)
(* Rooms and rounds come and go.                                           *)
(*                                                                         *)
(* Who holds a role is GameServer's matter and appears here as choices.    *)
(* A fixture stands for its @fixture: token.  Time is counted in units.    *)
(***************************************************************************)
EXTENDS Naturals, SequencesExt, FiniteSetsExt, TimedQueue

CONSTANTS
    Devs, Fixtures, NoDev,
    PaintFor,   \* how long a SolidCue's colour stays, from arrival
    FlashFor,   \* the same of a PixelFlashCue
    StepLater,  \* offset of a script's second step
    MaxCues    \* bound: no cue is fired while so many wait

ASSUME SurfacesAssumption ==
    /\ {PaintFor, FlashFor, StepLater, MaxCues} \subseteq Nat \ {0}
    /\ IsFiniteSet(Devs) /\ IsFiniteSet(Fixtures)
    /\ NoDev \notin Devs /\ Devs \cap Fixtures = {}

VARIABLES
    loaded,    \* a Room is loaded
    stage,     \* "idle", "setup", "running"
    bound,     \* room.bound
    known,     \* the device pool
    bridge,    \* the agent's bridges: "none", "on", "fading"
    muted,     \* GameServer.muted
    agent,     \* the agent's [latched, over, flash, queue]
    forgotten, \* history: latches whose blackout went with a reaped device
    estranged, \* history: mutes that outlived their Room, and what they undid
    stirred    \* history: muted surfaces whose session was fed a cue

places == <<loaded, stage, bound, known>>
history == <<forgotten, estranged, stirred>>
surfaceVars == <<places, bridge, muted, agent, history>>

Keys == Fixtures \cup Devs
Unbound == [f \in Fixtures |-> NoDev]
Bound == {bound[f] : f \in Fixtures} \ {NoDev}

\* GameServer._mute_key and the agent's _fixture_key.  Of two fixtures that
\* one device is bound to, both take the one bound first.
KeyIn(b, dev) ==
    IF \E f \in Fixtures : b[f] = dev THEN CHOOSE f \in Fixtures : b[f] = dev
    ELSE dev
Key(dev) == KeyIn(bound, dev)

\* _fixture_target, _room_devs
Target(f) == IF bound[f] = NoDev THEN f ELSE bound[f]
RoomDevs == IF loaded THEN {Target(f) : f \in Fixtures} ELSE {}

\* Fixtures whose latch the agent has dropped though the engine kept it: a Room that
\* went takes the agent's with it, and the mute of a device that outlived its Room
\* lifts, when the device binds to a second fixture, that of its first.
Dropped == estranged \cap Fixtures

\* An entry of _overrides: none, a colour for so long, or the blackout.
Clear == 0
Dark == PaintFor + 1

SurfacesInit ==
    /\ loaded = FALSE /\ stage = "idle" /\ bound = Unbound /\ known = {}
    /\ bridge = [d \in Devs |-> "none"]
    /\ muted = {}
    /\ agent = [latched |-> {}, over |-> [k \in Keys |-> Clear],
                flash |-> [k \in Keys |-> 0], queue |-> <<>>]
    /\ forgotten = {} /\ estranged = {} /\ stirred = {}

-----------------------------------------------------------------------------
(* The agent's sinks, as functions of its record                           *)

\* A field of the record, by key, with one value at some keys.
Set(field, keys, value) == [k \in Keys |-> IF k \in keys THEN value ELSE field[k]]

LightCue(k) == [kind |-> "light", key |-> k]
FlashCue(k) == [kind |-> "flash", key |-> k]

\* Faulty variant: the blackout is written and what waits is left to drain.
DarkenKeepsCues(a, keys) ==
    [a EXCEPT !.latched = @ \cup keys, !.over = Set(@, keys, Dark), !.flash = Set(@, keys, 0)]

\* _on_mute_change(k, True), for each of some keys: the blackout wins over a pending
\* flash, and cues that wait for the surface are dropped.
Darken(a, keys) ==
    [a EXCEPT !.latched = @ \cup keys, !.over = Set(@, keys, Dark), !.flash = Set(@, keys, 0),
              !.queue = Purge(@, {LightCue(k) : k \in keys})]

\* The current key of each of some surfaces, and the raw spelling.
Spellings(b, surfaces) == UNION {{KeyIn(b, s), s} : s \in surfaces}

\* Faulty variant: only the latch under the current key is lifted.
LiftCurrent(a, b, surfaces) ==
    LET keys == {KeyIn(b, s) : s \in surfaces}
    IN  [a EXCEPT !.latched = @ \ keys, !.over = Set(@, keys, Clear)]

\* _on_mute_change(s, False), for each of some surfaces, when the bindings are b.
Lift(a, b, surfaces) ==
    LET keys == Spellings(b, surfaces)
    IN  [a EXCEPT !.latched = @ \ keys, !.over = Set(@, keys, Clear)]

\* Faulty variant: a colour is painted over the blackout, and lapses.
PaintMuted(a, keys) == [a EXCEPT !.over = Set(@, keys, PaintFor)]

\* _on_solid_cue
Paint(a, keys) == [a EXCEPT !.over = Set(@, keys \ a.latched, PaintFor)]

\* _on_pixel_flash
Flash(a, keys) == [a EXCEPT !.flash = Set(@, keys \ a.latched, FlashFor)]

\* _on_light_cue of a step further out than a horizon; a nearer one is fed now.
Defer(a, keys) ==
    [a EXCEPT !.queue = PushAll(@, StepLater, SetToSeq({LightCue(k) : k \in keys \ a.latched}))]

\* _flash_fixtures_now: two flashes that outlive the lobby.
AcceptFlashes(a) ==
    LET each == SetToSeq({FlashCue(f) : f \in Fixtures})
    IN  [a EXCEPT !.queue = PushAll(PushAll(@, 0, each), FlashFor, each)]

-----------------------------------------------------------------------------
(* Fires and cues                                                          *)

\* A cue of a kind for each of some surfaces, _dispatch_cues.  The engine marks the
\* mute and skips the flash of a muted surface; the agent does the rest.
Land(s, surfaces, kind) ==
    LET keys == {Key(d) : d \in surfaces} IN
    CASE kind = "mute"  -> [muted |-> s.muted \cup keys, agent |-> Darken(s.agent, keys)]
      [] kind = "paint" -> [s EXCEPT !.agent = Paint(@, keys)]
      [] kind = "flash" -> [s EXCEPT !.agent = Flash(@, keys \ s.muted)]
      [] kind = "later" -> [s EXCEPT !.agent = Defer(@, keys)]

\* _clear_mutes, of surfaces that share no key or all have a latch: each under its
\* current key and its raw spelling, and the agent is told of those that had one.
Forgive(s, surfaces) ==
    LET found == {d \in surfaces : {Key(d), d} \cap s.muted # {}}
    IN  [muted |-> s.muted \ Spellings(bound, found), agent |-> Lift(s.agent, bound, found)]

Become(s) ==
    LET moved == (muted \ s.muted) \cup (s.muted \ muted)
                    \cup (agent.latched \ s.agent.latched)
                    \cup (s.agent.latched \ agent.latched)
    IN  /\ muted' = s.muted /\ agent' = s.agent
        /\ forgotten' = forgotten \ moved
        /\ estranged' = estranged \ moved

Now == [muted |-> muted, agent |-> agent]

\* fire_function at a surface, the Room or @all: a built-in or a script.  Any
\* that does not mute lifts the mutes first.
Fire(devs, kind) ==
    /\ devs # {} /\ Len(agent.queue) < MaxCues
    /\ Become(Land(IF kind = "mute" THEN Now ELSE Forgive(Now, devs), devs, kind))
    /\ UNCHANGED <<places, bridge, stirred>>

\* _resolve_target: what an operator may aim at, and what has an instrument.
Aims ==
    {RoomDevs, RoomDevs \cup known} \cup {{d} : d \in known \cup Bound}
        \cup (IF loaded THEN {{Target(f)} : f \in Fixtures} ELSE {})

\* Who holds a role: players, and fixtures' devices.
Holders == {d \in Devs : bridge[d] = "on"} \cup Bound

\* _check_cues_land: a fire that reaches nothing is refused.  A light cue needs a
\* session, which a device that is there without a role does not have.
Lands(devs, kind) ==
    kind = "later" => \E d \in devs : d \in Fixtures \cup Holders \/ d \notin known

\* fire_function of a script the Bit declares, refused as a whole or not at all;
\* of any other name each surface's own instrument has its own script.
FireDeclared(devs, kind) == stage # "idle" /\ Lands(devs, kind) /\ Fire(devs, kind)

\* A cue of the Bit or of the lobby, which lifts nothing.
BitCue(dev, kind) ==
    /\ stage # "idle" /\ Len(agent.queue) < MaxCues
    /\ Become(Land(Now, {dev}, kind))
    /\ UNCHANGED <<places, bridge, stirred>>

\* data, _route_gesture: a role holder's gesture, whose streams' and handler's cues
\* go out unless the handler refuses or raises.
Gesture(d, dev, kind) == d \in Holders /\ BitCue(dev, kind)

\* _solo_gesture: in a solo role the gesture is bound to a name and fires it on
\* the player's own device.
SoloGesture(d, kind) == stage = "running" /\ d \in Holders \ Bound /\ Fire({d}, kind)

\* run_action: an operator's action of the Bit, whose cues are cues.
RunAction(dev, kind) == BitCue(dev, kind)

-----------------------------------------------------------------------------
(* Time                                                                    *)

\* A light cue reaches a session if its surface has one.
HasSession(k) == IF k \in Fixtures THEN loaded ELSE bridge[k] # "none"

\* _tick_overrides
Ticked(a) ==
    [a EXCEPT !.over = [k \in Keys |-> IF @[k] \in {Clear, Dark} THEN @[k] ELSE @[k] - 1],
              !.flash = [k \in Keys |-> IF @[k] = 0 THEN 0 ELSE @[k] - 1],
              !.queue = Elapse(@)]

\* _drain_light_cues: the flashes among the cues that are due paint, each under the
\* key of the moment of the key it was queued under.
Drain(a, due) ==
    LET flashes == {c \in ToSet(due) : c.kind = "flash" /\ c.key \notin a.latched}
    IN  Paint([a EXCEPT !.queue = Rest(@)], {Key(c.key) : c \in flashes})

\* poll: overrides lapse, then the cues that are due are released.  _feed_light_now
\* finds the session by the key of the moment.
AgentPoll ==
    LET a == Ticked(agent)
        due == Due(a.queue)
        fed == {cue \in ToSet(due) : /\ cue.kind = "light" /\ cue.key \notin a.latched
                                     /\ HasSession(Key(cue.key))}
    IN  /\ a # agent \/ due # <<>>
        /\ agent' = Drain(a, due)
        /\ stirred' = stirred \cup ({cue.key : cue \in {c \in fed : Key(c.key) = c.key}}
                                     \cap (muted \ Dropped))
        /\ UNCHANGED <<places, bridge, muted, forgotten, estranged>>

-----------------------------------------------------------------------------
(* Devices, rounds and Rooms                                               *)

\* hello; in RUNNING it may make an unbound device a walk-up.
SayHello(d) ==
    /\ loaded /\ d \notin known
    /\ known' = known \cup {d}
    /\ \/ UNCHANGED bridge
       \/ /\ stage = "running" /\ d \notin Bound
          /\ bridge' = [bridge EXCEPT ![d] = "on"]
    /\ UNCHANGED <<loaded, stage, bound, muted, agent, history>>

\* The pops of _forget_reaped and _finish_release: the blackout of a latched
\* device goes, its latch stays.
ForgetReaped(d) ==
    /\ agent' = [agent EXCEPT !.over[d] = Clear, !.flash[d] = 0]
    /\ forgotten' = IF d \in agent.latched THEN forgotten \cup {d} ELSE forgotten

\* reap_stale and _forget_reaped.
ReapDevice(d) ==
    /\ d \in known \ Bound
    /\ known' = known \ {d}
    /\ IF bridge[d] = "none" THEN ForgetReaped(d) /\ UNCHANGED bridge
       ELSE bridge' = [bridge EXCEPT ![d] = "fading"] /\ UNCHANGED <<agent, forgotten>>
    /\ UNCHANGED <<loaded, stage, bound, muted, estranged, stirred>>

\* _finish_release
FadeEnds(d) ==
    /\ bridge[d] = "fading"
    /\ bridge' = [bridge EXCEPT ![d] = "none"]
    /\ ForgetReaped(d)
    /\ UNCHANGED <<places, muted, estranged, stirred>>

\* Faulty variant: the agent is told of the fixture's mute first.
MoveBackwards(s, d, f) ==
    IF d \notin s.muted THEN s
    ELSE [muted |-> (s.muted \ {d}) \cup {f},
          agent |-> Lift(Darken(s.agent, {f}), [bound EXCEPT ![f] = d], {d})]

\* _migrate_mute_on_bind: the agent lifts the mute of d, which is a fixture's
\* device by now, and then latches the fixture's.
Move(s, d, f) ==
    IF d \notin s.muted THEN s
    ELSE [muted |-> (s.muted \ {d}) \cup {f},
          agent |-> Darken(Lift(s.agent, [bound EXCEPT ![f] = d], {d}), {f})]

\* A handshake on the Room's node while fixture f is armed: _bind_room, then
\* the agent's _drop_player_bridge.
BindFixture(d, f) ==
    /\ stage # "idle" /\ d \in known /\ bound[f] # d
    /\ bound' = [bound EXCEPT ![f] = d]
    /\ LET s == Move(Now, d, f)
       IN  /\ muted' = s.muted
           /\ agent' = [s.agent EXCEPT !.over[d] = Clear, !.flash[d] = 0]
           /\ forgotten' = forgotten \ (IF d \in muted THEN {d, f} ELSE {})
           /\ estranged' = IF d \notin muted THEN estranged
                           ELSE (estranged \ {d, f})
                                   \cup (IF d \in estranged THEN (muted \cap {KeyIn(bound', d)}) \ {f}
                                         ELSE {})
    /\ bridge' = [bridge EXCEPT ![d] = "none"]
    /\ UNCHANGED <<loaded, stage, known, stirred>>

LoadBit ==
    /\ loaded /\ stage = "idle" /\ stage' = "setup"
    /\ UNCHANGED <<loaded, bound, known, bridge, muted, agent, history>>

\* run: players get their bridges (_on_grant), the Room two accept flashes.
Run ==
    /\ stage = "setup" /\ stage' = "running"
    /\ \E P \in SUBSET (known \ Bound) :
          bridge' = [d \in Devs |-> IF d \in P THEN "on" ELSE bridge[d]]
    /\ Len(agent.queue) < MaxCues
    /\ agent' = AcceptFlashes(agent)
    /\ UNCHANGED <<loaded, bound, known, muted, history>>

\* _unload: cues still waiting are dropped, then every mute is lifted, then the
\* players are released into their fades.
EndRound ==
    /\ stage # "idle" /\ stage' = "idle"
    /\ Become(Forgive([Now EXCEPT !.agent.queue = <<>>], muted))
    /\ bridge' = [d \in Devs |-> IF bridge[d] = "on" THEN "fading" ELSE bridge[d]]
    /\ UNCHANGED <<loaded, bound, known, stirred>>

\* load_room: the fast path binds fixtures to simulators or devices it knows.
LoadRoom ==
    /\ ~loaded /\ loaded' = TRUE
    /\ \E b \in [Fixtures -> Devs \cup {NoDev}] :
          /\ \A f, g \in Fixtures : f # g /\ b[f] # NoDev => b[f] # b[g]
          /\ bound' = b
          /\ bridge' = [d \in Devs |-> IF \E f \in Fixtures : b[f] = d THEN "none"
                                          ELSE bridge[d]]
    /\ UNCHANGED <<stage, known, muted, agent, history>>

\* unload_room and the agent's unwire_room: overrides and latches of fixtures
\* go; the engine keeps its own.
UnloadRoom ==
    /\ loaded /\ stage = "idle"
    /\ loaded' = FALSE /\ bound' = Unbound /\ known' = {}
    /\ agent' = [latched |-> agent.latched \ Fixtures,
                 over |-> [k \in Keys |-> IF k \in Fixtures \cup Bound THEN Clear
                                          ELSE agent.over[k]],
                 flash |-> [k \in Keys |-> IF k \in Fixtures \cup Bound THEN 0
                                           ELSE agent.flash[k]],
                 queue |-> <<>>]
    /\ estranged' = estranged \cup muted
    /\ forgotten' = forgotten \cup (agent.latched \cap Bound)
    /\ UNCHANGED <<stage, bridge, muted, stirred>>

Kinds == {"mute", "paint", "flash", "later"}

SurfacesNext ==
    \/ \E devs \in Aims : \E kind \in Kinds \ {"flash"} : Fire(devs, kind)
    \/ \E devs \in Aims : \E kind \in Kinds \ {"flash"} : FireDeclared(devs, kind)
    \/ \E dev \in known \cup RoomDevs : \E kind \in Kinds :
          BitCue(dev, kind) \/ RunAction(dev, kind) \/ \E d \in Devs : Gesture(d, dev, kind)
    \/ \E d \in Devs : \E kind \in Kinds \ {"flash"} : SoloGesture(d, kind)
    \/ AgentPoll
    \/ \E d \in Devs : SayHello(d) \/ ReapDevice(d) \/ FadeEnds(d)
    \/ \E d \in Devs : \E f \in Fixtures : BindFixture(d, f)
    \/ LoadBit \/ Run \/ EndRound \/ LoadRoom \/ UnloadRoom

SurfacesSpec == SurfacesInit /\ [][SurfacesNext]_surfaceVars

-----------------------------------------------------------------------------
\* A surface is muted in the engine exactly when the agent has latched it, under
\* whichever spelling either is asked; only a Room that went can leave the engine
\* with a latch of a fixture that its agent has dropped.
OneLatch ==
    \A s \in Keys : (Key(s) \in muted) = (Key(s) \in agent.latched) \/ Key(s) \in Dropped

\* What the Console shows and what the agent does are one, across every bind; and
\* a bind is not a fire: a device that was muted as a player is muted, in the
\* engine and the agent, as the fixture it becomes.
MutesAgree ==
    [][/\ OneLatch'
       /\ \A d \in Devs :
             loaded /\ loaded' /\ Key(d) \in muted /\ d \in Bound' \ Bound
                => Key(d)' \in muted' \cap agent'.latched]_surfaceVars

Lit(k) ==
    \/ agent.flash[k] > 0
    \/ agent.over[k] \in 1 .. PaintFor
    \/ (agent.over[k] = Clear /\ HasSession(k))

\* A latched surface shows nothing, whatever is painted, flashed, bound or
\* lapses, unless its device was reaped with the mute on; no session is fed
\* under a mute, and nothing that was waiting when the mute came is still there
\* to show when it is lifted.
DarkWhileMuted ==
    /\ \A k \in agent.latched : ~Lit(k) \/ k \in forgotten
    /\ stirred = {}
    /\ \A i \in DOMAIN agent.queue :
          agent.queue[i].load.kind = "light" => agent.queue[i].load.key \notin agent.latched

=============================================================================
