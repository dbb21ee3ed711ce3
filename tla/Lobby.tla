------------------------------- MODULE Lobby --------------------------------
(***************************************************************************)
(* What a device sees and hears while the Terrarium waits for a start      *)
(* (control/lobby.py, devicelink/lobby_runtime.py and the DeviceLink       *)
(* agent's side of it): white flashes that invite it, red ones when its    *)
(* handshake is denied, the ceremony when it validates, and the slow pulse *)
(* in between.  All of it is queued ahead of time; the hazard is what is   *)
(* still queued when the device validates, binds, goes silent or gets its  *)
(* role, or when the lobby itself goes away.                               *)
(*                                                                         *)
(* The engine's registration is `where` each device stands; its rules are  *)
(* GameServer's and only their outcomes appear here.  Time is counted in   *)
(* units of one flash; a poll of the agent takes one.                      *)
(***************************************************************************)
EXTENDS Naturals, SequencesExt, FiniteSetsExt, TimedQueue

CONSTANTS
    Devices,
    Caps,         \* the numbers of scored slots that Bits have
    FlashOn,      \* DEVICE_FLASH_ON_S
    FlashStep,    \* DEVICE_FLASH_ON_S + DEVICE_FLASH_GAP_S
    BellAt,       \* BELL_OFFSET_S
    ChimeAt,      \* CHIME_OFFSET_S, the ceremony's span
    CeremonyGap,  \* LobbyConfig.ceremony_gap_s
    InviteEvery,  \* LobbyConfig.invite_interval_s
    MaxQueue,     \* bound: no validation while so many cues are queued
    MaxReds,      \* bound: no deny while so many red flashes are
    None

ASSUME LobbyAssumption ==
    /\ IsFiniteSet(Devices) /\ Caps \subseteq Nat \ {0}
    /\ {FlashOn, FlashStep, BellAt, ChimeAt, CeremonyGap, InviteEvery, MaxQueue,
        MaxReds} \subseteq Nat
    /\ None \notin {"white", "green"} \cup [rgb : {"white", "green"}, left : Nat]
    /\ FlashOn > 0 /\ FlashStep >= FlashOn /\ ChimeAt >= BellAt /\ InviteEvery > 0

VARIABLES
    cap,     \* the loaded Bit's scored slots: so many validated are FULL
    phase,   \* "idle", "setup", "running"
    where,   \* "away", "pool", "validated", "bound" to a fixture, "seated"
    lobby,   \* "none", "up" (LobbyRuntime._running), "draining"
    mode,    \* LobbyRuntime._state
    queue,   \* its TimedQueue
    invite,  \* InviteSchedule: time until the next one, None before the first
    status,  \* _status: the device's pulse and how long it stays dark
    free,    \* CeremonySlots: time until the next ceremony may begin
    paint,   \* the agent's _overrides: what is painted and for how long
    base,    \* the agent's _bases: the pulse under it
    rung     \* the devices whose bell has rung since they validated

runtime == <<lobby, mode, queue, invite, status, free>>
lights == <<paint, base>>
vars == <<cap, phase, where, runtime, lights, rung>>

Train == 2 * FlashStep      \* DEVICE_FLASH_TRAIN_S
Larger(a, b) == IF a >= b THEN a ELSE b
Sooner(a) == IF a = 0 THEN 0 ELSE a - 1
Nobody == [d \in Devices |-> None]
Validated(at) == {d \in Devices : at[d] = "validated"}

Init ==
    /\ cap = 0 /\ phase = "idle" /\ where = [d \in Devices |-> "away"]
    /\ lobby = "none" /\ mode = "WAITING" /\ queue = <<>>
    /\ invite = Nobody /\ status = Nobody /\ free = 0
    /\ paint = Nobody /\ base = Nobody /\ rung = {}

-----------------------------------------------------------------------------
(* LobbyRuntime                                                            *)

\* One flash, or one sound of a ceremony, for a device.
Cue(kind, d) == [kind |-> kind, dev |-> d]

\* The cues that paint the device; the others sound.
Color(kind) == kind \in {"white", "red", "green"}

\* Two flashes, from `left` on.
PushTrain(q, left, kind, d) ==
    Push(Push(q, left, Cue(kind, d)), left + FlashStep, Cue(kind, d))

\* Two white flashes for each of some devices, from now on.
PushInvites(q, devs) ==
    LET cues == [i \in DOMAIN devs |-> Cue("white", devs[i])]
    IN  PushAll(PushAll(q, 0, cues), FlashStep, cues)

\* Faulty variant: forgetting a device leaves its flashes queued.
InvitesKept(q, d) == q

\* _purge_invite_flashes
WithoutInvites(q, d) == Purge(q, {Cue("white", d)})

\* Faulty variant: a train replaces what the pulse was waiting for.
DarkOnly(pulse, left) == [pulse EXCEPT !.left = left]

\* A pulse stays dark until a train is over, or longer if it had to anyway.
DarkUntil(pulse, left) == [pulse EXCEPT !.left = Larger(@, left)]

\* _hold: the pulse of one color, dark until a train is over.
Hold(st, d, rgb, left) ==
    [st EXCEPT ![d] = IF @ # None /\ @.rgb = rgb THEN DarkUntil(@, left)
                      ELSE [rgb |-> rgb, left |-> left]]

\* CeremonySlots.reserve: when this ceremony begins and the next one may.
Reserve == [at |-> free, next |-> free + ChimeAt + CeremonyGap]

\* on_scored_join's schedule: two green flashes, the bell, the chime.
PushCeremony(q, at, d) ==
    Push(Push(PushTrain(q, at, "green", d), at + BellAt, Cue("bell", d)),
         at + ChimeAt, Cue("chime", d))

\* set_state, from _sync_lobby_state: at FULL nobody is invited any more.
Mode(at, slots) == IF Cardinality(Validated(at)) >= slots THEN "FULL" ELSE "WAITING"
Synced(st, new) ==
    [d \in Devices |-> IF new = "FULL" /\ mode # "FULL" /\ st[d] # None
                          /\ st[d].rgb = "white" THEN None ELSE st[d]]

-----------------------------------------------------------------------------
(* The engine's news, as the agent hands it on                             *)

\* A hello: into the pool, or straight to a jam role while a round runs.
Hello(d) ==
    /\ where[d] = "away"
    /\ where' = [where EXCEPT ![d] = IF phase = "running" THEN "seated" ELSE "pool"]
    /\ UNCHANGED <<cap, phase, runtime, lights, rung>>

\* A handshake that is granted: on_registration_change forgets the invite,
\* reserves the ceremony and lets the lobby see whether it is full.
Validate(d) ==
    /\ phase = "setup" /\ where[d] = "pool" /\ Cardinality(Validated(where)) < cap
    /\ Len(queue) < MaxQueue
    /\ where' = [where EXCEPT ![d] = "validated"]
    /\ LET slot == Reserve
           full == Mode(where', cap)
           held == Synced(Hold([status EXCEPT ![d] = None], d, "green", slot.at + Train), full)
       IN  /\ queue' = PushCeremony(WithoutInvites(queue, d), slot.at, d)
           /\ free' = slot.next
           /\ mode' = full
           /\ status' = held
           /\ base' = [e \in Devices |-> IF e = d \/ (held[e] = None /\ status[e] # None)
                                         THEN None ELSE base[e]]
    /\ invite' = [invite EXCEPT ![d] = None]
    /\ rung' = rung \ {d}
    /\ UNCHANGED <<cap, phase, lobby, paint>>

\* A handshake that is denied: red twice, and white and red never mix.
Deny(d) ==
    /\ phase = "setup" /\ where[d] \in {"pool", "validated"}
    /\ Cardinality({i \in DOMAIN queue : queue[i].load.kind = "red"}) < MaxReds
    /\ queue' = PushTrain(WithoutInvites(queue, d), 0, "red", d)
    /\ status' = [status EXCEPT ![d] = IF @ = None THEN None ELSE DarkUntil(@, Train)]
    /\ UNCHANGED <<cap, phase, where, lobby, mode, invite, free, lights, rung>>

\* LobbyRuntime.forget after the registration has changed, and what the agent
\* drops of a device that bound to a fixture or was reaped.
Forget(d) ==
    LET now == IF lobby = "up" THEN Mode(where', cap) ELSE mode
    IN  /\ mode' = now
        /\ status' = [status EXCEPT ![d] = None]
        /\ invite' = [invite EXCEPT ![d] = None]
        /\ queue' = IF lobby = "up" THEN WithoutInvites(queue, d) ELSE queue
        /\ paint' = [paint EXCEPT ![d] = None]
        /\ base' = [base EXCEPT ![d] = None]
        /\ UNCHANGED <<cap, phase, lobby, free, rung>>

\* A handshake at an armed Room node binds the device to a fixture; it gives
\* back a scored slot it held.
Bind(d) ==
    /\ phase = "setup" /\ where[d] \in {"pool", "validated"}
    /\ where' = [where EXCEPT ![d] = "bound"]
    /\ Forget(d)

\* A silent device is reaped, unless it is a fixture's.
Reap(d) ==
    /\ where[d] \in {"pool", "validated", "seated"}
    /\ where' = [where EXCEPT ![d] = "away"]
    /\ Forget(d)

-----------------------------------------------------------------------------
(* The round, on_state_change                                              *)

\* SETUP: a fresh runtime.
Enter ==
    /\ phase = "idle" /\ phase' = "setup" /\ cap' \in Caps
    /\ lobby' = "up" /\ mode' = Mode(where, cap') /\ queue' = <<>>
    /\ invite' = Nobody /\ status' = Nobody /\ free' = 0
    /\ UNCHANGED <<where, lights, rung>>

\* Faulty variant: stopping leaves the pulses as they are.
StopKeepsPulses ==
    /\ invite' = Nobody
    /\ UNCHANGED <<status, base, mode, free, paint>>

\* LobbyRuntime.stop: no more invites, no pulse, and no flash that would paint
\* over the role; the ceremonies stay queued.
Stop ==
    /\ invite' = Nobody /\ status' = Nobody /\ base' = Nobody
    /\ UNCHANGED <<mode, free, paint>>

\* Faulty variant: everything queued goes.
NothingStays(q) == <<>>

\* What is queued when a round starts: device flashes go.
Ceremonies(q) == Purge(q, {Cue(kind, d) : kind \in {"white", "red"}, d \in Devices})

\* RUNNING: the runtime stops, and is kept while ceremonies are queued.
\* Everyone in the pool is seated, with the role of the slot or a jam role.
Start ==
    /\ phase = "setup" /\ phase' = "running"
    /\ Stop
    /\ queue' = Ceremonies(queue)
    /\ lobby' = IF queue' = <<>> THEN "none" ELSE "draining"
    /\ where' = [d \in Devices |-> IF where[d] \in {"pool", "validated"}
                                   THEN "seated" ELSE where[d]]
    /\ UNCHANGED <<cap, rung>>

\* An abort or the end of the round: what still drained is dropped.
End ==
    /\ phase \in {"setup", "running"} /\ phase' = "idle" /\ cap' = 0
    /\ Stop
    /\ queue' = <<>> /\ lobby' = "none"
    /\ where' = [d \in Devices |-> IF where[d] \in {"seated", "validated"}
                                   THEN "pool" ELSE where[d]]
    /\ UNCHANGED rung

-----------------------------------------------------------------------------
(* A poll of the agent, _tick_overrides, _tick_lobby and LobbyRuntime.tick  *)

\* _handshake_candidates: who is still owed an invite.
Candidates == {d \in Devices : where[d] = "pool"}

\* Those that consider_invite finds due, in a waiting lobby.
Invited == IF lobby = "up" /\ mode = "WAITING"
           THEN {d \in Candidates : invite[d] \in {None, 0}} ELSE {}

\* _tick_lobby lets a stopped runtime go once its ceremonies have played out.
Drained(q) == IF lobby = "draining" /\ q = <<>> THEN "none" ELSE lobby

\* The last of the flashes that are due for a device is what is painted.
Painted(due, d) ==
    LET mine == {i \in DOMAIN due : due[i].dev = d /\ Color(due[i].kind)}
    IN  IF mine # {} THEN [rgb |-> due[Max(mine)].kind, left |-> FlashOn]
        ELSE IF paint[d] = None \/ paint[d].left <= 1 THEN None
        ELSE [paint[d] EXCEPT !.left = @ - 1]

\* Everything that is due happens at the poll's own time; then time passes.
Poll ==
    \E asked \in {PushInvites(queue, SetToSeq(Invited))} :
    LET due == Due(asked)
        held == [d \in Devices |-> IF d \in Invited THEN Hold(status, d, "white", Train)[d]
                                   ELSE status[d]]
    IN  /\ lobby # "none" \/ paint # Nobody
        /\ queue' = Elapse(Rest(asked))
        /\ invite' = [d \in Devices |-> IF d \in Invited THEN InviteEvery - 1
                                        ELSE IF invite[d] = None THEN None
                                        ELSE Sooner(invite[d])]
        /\ status' = [d \in Devices |-> IF held[d] = None THEN None
                                        ELSE [held[d] EXCEPT !.left = Sooner(@)]]
        /\ paint' = [d \in Devices |-> Painted(due, d)]
        /\ base' = [d \in Devices |-> IF lobby = "up" /\ held[d] # None
                                      THEN held[d].rgb ELSE base[d]]
        /\ rung' = rung \cup {x.dev : x \in {y \in ToSet(due) : y.kind = "bell"}}
        /\ free' = Sooner(free)
        /\ lobby' = Drained(queue')
        /\ UNCHANGED <<cap, phase, where, mode>>

Next ==
    \/ \E d \in Devices : Hello(d) \/ Validate(d) \/ Deny(d) \/ Bind(d) \/ Reap(d)
    \/ Enter \/ Start \/ End
    \/ Poll

\* The agent polls.  Devices and operators do as they like.
Spec == Init /\ [][Next]_vars /\ WF_vars(Poll)

-----------------------------------------------------------------------------
(* Properties                                                              *)

\* The variables have their types.
TypeOK ==
    /\ cap \in Caps \cup {0}
    /\ phase \in {"idle", "setup", "running"} /\ lobby \in {"none", "up", "draining"}
    /\ mode \in {"WAITING", "FULL"}
    /\ where \in [Devices -> {"away", "pool", "validated", "bound", "seated"}]
    /\ queue \in Seq([left : Nat, load : [kind : {"white", "red", "green", "bell", "chime"},
                                         dev : Devices]])
    /\ invite \in [Devices -> {None} \cup 0 .. InviteEvery]
    /\ status \in [Devices -> {None} \cup [rgb : {"white", "green"}, left : Nat]]
    /\ free \in Nat /\ rung \subseteq Devices
    /\ paint \in [Devices -> {None} \cup [rgb : {"white", "red", "green"}, left : 1 .. FlashOn]]
    /\ base \in [Devices -> {None, "white", "green"}]

\* Device d is painted, and not only with what is left of an earlier paint.
PaintedAnew(d) ==
    /\ paint'[d] # None /\ paint'[d] # paint[d]
    /\ paint[d] = None \/ paint'[d].left >= paint[d].left

\* A device gets a white flash only while it is owed an invite.  Flashes are
\* queued ahead of time, and one that came after /validated, after a bind or
\* over a role's welcome would read as a second invite (LobbyRuntime.forget
\* and stop, in their docs).
WhiteMeansInvited ==
    [][\A d \in Devices :
           PaintedAnew(d) /\ paint'[d].rgb = "white"
               => where[d] = "pool" /\ phase = "setup"]_vars

\* Every flash of a device that is queued comes before its pulse is back, so
\* that the gaps of a train read as black: "dark until `start`, which every
\* flash train for the device pushes past its own end".  (A ceremony that a
\* device left behind when it was reaped still flashes it green if it is back.)
DarkUnderFlashes ==
    \A i \in DOMAIN queue :
        LET cue == queue[i].load
        IN  Color(cue.kind) /\ status[cue.dev] # None
                /\ (cue.kind = "green" => where[cue.dev] = "validated")
                => queue[i].left < status[cue.dev].left

\* The slow pulse tells the truth about the device under it: white for one that
\* is invited in a lobby with room left, green for one that has validated, and
\* none once the lobby is over or the device is gone; and it shines through no
\* flash that is still to come.
PulseIsHonest ==
    /\ \A d \in Devices :
          /\ base[d] = "white" => lobby = "up" /\ where[d] = "pool" /\ mode = "WAITING"
          /\ base[d] = "green" => lobby = "up" /\ where[d] = "validated"
    /\ DarkUnderFlashes

\* Who validates is celebrated: the bell rings, also when the round starts in
\* the middle of the wait for it, unless the round is torn down.
CeremonyPlaysOut ==
    \A d \in Devices : where[d] = "validated" ~> (d \in rung \/ phase = "idle")

=============================================================================
