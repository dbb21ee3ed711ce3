----------------------------- MODULE Terrarium -----------------------------
(***************************************************************************)
(* The Room's lifecycle: Terrarium.load_room and unload_room with the       *)
(* TeardownStack they fill and unwind, the children they spawn (an Arco and *)
(* a simulator per fixture), Control's own Arco clients (the ArcoSynthPool   *)
(* and the O2LiteTransport), the wiring of the agent to the Room, and the   *)
(* harness around them: build, the wait for a Room, the serve loop, the     *)
(* operators' commands, shutdown.                                           *)
(*                                                                          *)
(* load_room and unload_room run in one thread, but a failure or a signal   *)
(* can stop them between any two steps, so each is a sequence of actions    *)
(* told apart by pc; no command is taken while pc is not "idle".            *)
(***************************************************************************)
EXTENDS Integers, Sequences

CONSTANTS
    Room,       \* names of the configured Rooms
    Fixture,    \* names of fixtures
    Needed,     \* a Room's fixtures that must be bound, in declaration order
    Driven,     \* Rooms with a further fixture that an [[artnet]] output drives
    None,       \* no Room
    Factories,  \* whether a simulator_factory may be given, or not
    Serves,     \* the Rooms this process may be booted with, or None
    MaxLoads,   \* bound on the loads of a behaviour
    Accidents   \* what else may go wrong, a subset of AllAccidents

\* "crash":     an Arco dies by itself
\* "clients":   a client fails to start after pyarco has synced with the hub
\* "signal":    SIGTERM or Ctrl-C, in a loop or in a load that has not ended
\* "settle":    the signal comes while Arco settles, inside its start()
\* "late":      the signal comes while a Room that is ready is announced
\* "record":    the run record of a child cannot be written
\* "store":     the recorded bindings cannot be saved
AllAccidents ==
    {"crash", "clients", "signal", "settle", "late", "record", "store"}

ArcoName == "arco"

\* Whatever a fixture is called, its simulator is told from an Arco.
ASSUME TerrariumAssumption ==
    /\ ArcoName \notin Fixture
    /\ Needed \in [Room -> Seq(Fixture)]
    /\ Driven \subseteq Room
    /\ None \notin Room
    /\ Factories \subseteq BOOLEAN
    /\ Serves \subseteq Room \cup {None}
    /\ MaxLoads \in Nat
    /\ Accidents \subseteq AllAccidents

VARIABLES
    state,      \* Terrarium.state
    room,       \* Terrarium.room
    gsRoom,     \* GameServer.room
    loading,    \* Terrarium.loading_room
    hub,        \* the load whose Arco Terrarium.arco is, or NoHub
    stack,      \* the steps on Terrarium.room_stack: the children they stop
    bound,      \* Room.bound's fixtures
    loads,      \* how many load_rooms spawned an Arco
    simulated,  \* whether Terrarium has a simulator_factory
    alive,      \* the children that run
    pool,       \* the hub the ArcoSynthPool is started against, or NoHub
    transport,  \* the hub the O2LiteTransport is started against, or NoHub
    synced,     \* the hub pyarco has synced with, or NoHub
    stopped,    \* clients_stopped
    wired,      \* the Room the agent's sessions are built for
    rewires,    \* how often they were built for it
    pending,    \* _RoomWiring._pending_rewire
    bit,        \* GameServer.state is not IDLE
    main,       \* where the process is
    pc,         \* where load_room or unload_room is
    caller,     \* who called it
    signalled   \* a signal has come

roomVars == <<state, room, gsRoom, loading, hub, bound>>
childVars == <<stack, alive, loads, simulated>>
clientVars == <<pool, transport, synced, stopped>>
wireVars == <<wired, rewires, pending>>
mainVars == <<main, pc, caller, bit, signalled>>
vars == <<roomVars, childVars, clientVars, wireVars, mainVars>>

NoHub == 0
Child(n, name) == [load |-> n, name |-> name]
Children == [load : 1..MaxLoads, name : Fixture \cup {ArcoName}]
ArcoAlive == hub # NoHub /\ Child(hub, ArcoName) \in alive

\* The fixtures of r that must be bound; whether f is the next of them.
Fixtures(r) == {Needed[r][i] : i \in DOMAIN Needed[r]}
NextFixture(r, f) == \E i \in DOMAIN Needed[r] :
    /\ f = Needed[r][i] /\ f \notin bound
    /\ \A j \in 1..(i - 1) : Needed[r][j] \in bound

Init ==
    /\ state = "no_room" /\ room = None /\ gsRoom = None /\ loading = None
    /\ hub = NoHub /\ stack = <<>> /\ bound = {} /\ loads = 0 /\ alive = {}
    /\ simulated \in Factories
    /\ pool = NoHub /\ transport = NoHub /\ synced = NoHub
    /\ stopped = FALSE
    /\ wired = None /\ rewires = 0 /\ pending = FALSE
    /\ bit = FALSE /\ main = "boot" /\ pc = "idle" /\ caller = "loop"
    /\ signalled = FALSE

-----------------------------------------------------------------------------
(* Control's own Arco clients.                                             *)

\* External: pyarco can sync with one hub in its life.  A first sync, and a
\* start on the hub it synced with, may succeed while that hub is up.
Reachable == ArcoAlive /\ synced \in {NoHub, hub}

\* What _restart_room_clients may come to: both up, neither up, or neither up
\* after the pool has synced.
Outcomes ==
    (IF Reachable THEN {[ok |-> TRUE, at |-> hub, synced |-> hub]} ELSE {})
    \cup {[ok |-> FALSE, at |-> NoHub, synced |-> synced]}
    \cup (IF Reachable /\ "clients" \in Accidents
          THEN {[ok |-> FALSE, at |-> NoHub, synced |-> hub]} ELSE {})

\* restart_clients: nothing unless they were stopped.
RestartClients(o) ==
    IF ~stopped THEN UNCHANGED clientVars
    ELSE /\ pool' = o.at /\ transport' = o.at /\ synced' = o.synced
         /\ stopped' = ~o.ok

\* rewire_room: the agent builds its sessions and takes the Room's audio.
Rewire ==
    /\ wired' = gsRoom
    /\ rewires' = rewires + 1
    /\ pending' = FALSE

Unwire == wired' = None /\ rewires' = 0 /\ pending' = FALSE

\* Faulty variant: a restart that succeeds late does not finish the wiring.
OnClientsRestartedIdle(o) == UNCHANGED wireVars

\* on_clients_restarted, called from inside a restart that succeeds.
OnClientsRestarted(o) ==
    IF stopped /\ o.ok /\ pending THEN Rewire ELSE UNCHANGED wireVars

\* _RoomWiring on ROOM_READY: the clients first, then the sessions, once.
WireRoom(o) ==
    /\ RestartClients(o)
    /\ IF o.ok \/ ~stopped THEN Rewire
       ELSE pending' = TRUE /\ UNCHANGED <<wired, rewires>>

-----------------------------------------------------------------------------
(* load_room.                                                              *)

\* load_room(r) from NO_ROOM; from any other state it is refused.
BeginLoad(r, who) ==
    /\ state = "no_room"
    /\ state' = "room_loading" /\ loading' = r
    /\ pc' = "check" /\ caller' = who

\* An exception inside load_room: what is on the stack will be unwound.
Fail ==
    /\ pc' = "unwind"
    /\ UNCHANGED <<roomVars, clientVars, wireVars, main, caller, bit>>

\* The Room is unknown or not valid, the sweep or the spawn itself fails.
CheckFails == pc = "check" /\ Fail /\ UNCHANGED <<childVars, signalled>>

\* Faulty variant: Arco's step is not pushed before Arco is ready.
PushArcoNever(s, c) == s

\* stack.push of the step that stops c.
PushArco(s, c) == Append(s, c)

\* arco.start() and stack.push: spawn, record, settle, push.
SpawnArco ==
    /\ pc = "check" /\ loads < MaxLoads
    /\ loads' = loads + 1 /\ UNCHANGED simulated
    /\ LET arco == Child(loads + 1, ArcoName) IN
       /\ alive' = alive \cup {arco}
       /\ \/ /\ stack' = PushArco(stack, arco) /\ pc' = "ready"
             /\ UNCHANGED <<roomVars, clientVars, wireVars, main, caller, bit,
                            signalled>>
          \/ /\ "record" \in Accidents
             /\ Fail /\ UNCHANGED <<stack, signalled>>
          \/ /\ "settle" \in Accidents /\ ~signalled
             /\ signalled' = TRUE
             /\ Fail /\ UNCHANGED stack

\* wait_ready returns: the Room is handed to GameServer.
ArcoReady ==
    /\ pc = "ready" /\ Child(loads, ArcoName) \in alive
    /\ hub' = loads /\ gsRoom' = loading /\ bound' = {}
    /\ pc' = "bind"
    /\ UNCHANGED <<state, room, loading, childVars, clientVars, wireVars,
                   main, caller, bit, signalled>>

\* wait_ready raises: Arco is gone, or not ready in time.
ArcoNotReady == pc = "ready" /\ Fail /\ UNCHANGED <<childVars, signalled>>

\* The pc once the fixtures in b are bound: on when nothing is missing.
AfterBinding(b, next) ==
    IF Fixtures(loading) \subseteq b THEN "announce" ELSE next

\* _bind_room_fast_path, a simulator for the next fixture.
SpawnSimulator(f) ==
    /\ pc = "bind" /\ simulated /\ NextFixture(loading, f)
    /\ \/ /\ alive' = alive \cup {Child(loads, f)}
          /\ stack' = Append(stack, Child(loads, f))
          /\ bound' = bound \cup {f}
          /\ UNCHANGED <<state, room, gsRoom, loading, hub, loads, simulated,
                         clientVars, wireVars, mainVars>>
       \/ Fail /\ UNCHANGED <<childVars, signalled>>
       \/ /\ "record" \in Accidents
          /\ alive' = alive \cup {Child(loads, f)}
          /\ Fail /\ UNCHANGED <<stack, loads, simulated, signalled>>

AllSimulated ==
    /\ pc = "bind" /\ simulated /\ Fixtures(loading) \subseteq bound
    /\ pc' = "announce"
    /\ UNCHANGED <<roomVars, childVars, clientVars, wireVars, main, caller, bit,
                   signalled>>

\* Without simulators: recorded devices that are there.  If any fixture is
\* still missing, wait_for_room_binding.
BindRecorded ==
    /\ pc = "bind" /\ ~simulated
    /\ bound' \in SUBSET Fixtures(loading)
    /\ pc' = AfterBinding(bound', "wait")
    /\ UNCHANGED <<state, room, gsRoom, loading, hub, childVars, clientVars,
                   wireVars, main, caller, bit, signalled>>

\* A tap binds the fixture the wait has armed: the first that is missing.
WaitTap(f) ==
    /\ pc = "wait" /\ NextFixture(loading, f)
    /\ bound' = bound \cup {f}
    /\ pc' = AfterBinding(bound', "wait")
    /\ UNCHANGED <<state, room, gsRoom, loading, hub, childVars, clientVars,
                   wireVars, main, caller, bit, signalled>>

\* Faulty variant: a Room that nobody joined is waited for again.
WaitTimeoutAgain ==
    /\ pc = "wait" /\ (bound # {} \/ loading \in Driven)
    /\ pc' = "announce"
    /\ UNCHANGED <<roomVars, childVars, clientVars, wireVars, main, caller, bit,
                   signalled>>

\* The shared deadline passes: a Room with no fixture driven is given up.
WaitTimeout ==
    /\ pc = "wait"
    /\ IF bound = {} /\ loading \notin Driven
       THEN Fail
       ELSE /\ pc' = "announce"
            /\ UNCHANGED <<roomVars, clientVars, wireVars, main, caller, bit>>
    /\ UNCHANGED <<childVars, signalled>>

\* Where the caller goes on after a load that succeeded.
Resume == [loop |-> "idle", bit |-> "restart", boot |-> "pool"][caller]

\* The Room is announced.  The agent and its observer exist once build() has
\* returned; before that build() wires the Room itself.
Announce ==
    /\ pc = "announce"
    /\ room' = loading /\ state' = "room_ready" /\ loading' = None
    /\ IF main = "boot" THEN UNCHANGED <<clientVars, wireVars>>
       ELSE \E o \in Outcomes : WireRoom(o)
    /\ pc' = Resume
    /\ UNCHANGED <<gsRoom, hub, bound, childVars, main, caller, bit, signalled>>

\* A signal while the observers run, in the start of the transport after the
\* pool's or later, is a reason for load_room to fail.
AnnounceInterrupted ==
    /\ "late" \in Accidents /\ ~signalled /\ pc = "announce" /\ main # "boot"
    /\ room' = loading /\ state' = "room_ready"
    /\ \/ \E o \in Outcomes : WireRoom(o)
       \/ /\ stopped /\ Reachable
          /\ pool' = hub /\ synced' = hub
          /\ UNCHANGED <<transport, stopped, wireVars>>
    /\ signalled' = TRUE /\ pc' = "unwind"
    /\ UNCHANGED <<gsRoom, loading, hub, bound, childVars, main, caller, bit>>

-----------------------------------------------------------------------------
(* The stack is unwound; unload_room.                                      *)

\* TeardownStack.close, one step: the last pushed, which stops its child.
Pop ==
    /\ stack # <<>>
    /\ alive' = alive \ {stack[Len(stack)]}
    /\ stack' = SubSeq(stack, 1, Len(stack) - 1)
    /\ UNCHANGED <<loads, simulated>>

\* gs.room, room, arco and room_stack are reset and NO_ROOM is announced,
\* which unwires the agent.
ClearRoom ==
    /\ room' = None /\ gsRoom' = None /\ hub' = NoHub /\ bound' = {}
    /\ loading' = None
    /\ state' = "no_room"

UnwindStep ==
    /\ pc \in {"unwind", "close"} /\ Pop
    /\ UNCHANGED <<roomVars, clientVars, wireVars, mainVars>>

\* Once all is stopped: a boot that failed ends the process, shutdown too.
UnwindEnd ==
    /\ pc \in {"unwind", "close"} /\ stack = <<>>
    /\ ClearRoom /\ Unwire
    /\ pc' = "idle"
    /\ main' = IF caller \in {"boot", "leave"} THEN "down" ELSE main
    /\ UNCHANGED <<childVars, clientVars, caller, bit, signalled>>

\* unload_room(force=True), or with no Bit loaded: the Bit is aborted.
BeginUnload(who) ==
    /\ state = "room_ready"
    /\ state' = "room_unloading" /\ bit' = FALSE
    /\ pc' = "save" /\ caller' = who
    /\ UNCHANGED <<room, gsRoom, loading, hub, bound, childVars>>

\* room_binding.save, when a store is configured; it may raise, and then so
\* does unload_room.
Save ==
    /\ pc = "save"
    /\ \/ pc' = "close" /\ UNCHANGED main
       \/ /\ "store" \in Accidents /\ pc' = "idle"
          /\ main' = IF caller \in {"boot", "leave"} THEN "down" ELSE "leave"
    /\ UNCHANGED <<roomVars, childVars, clientVars, wireVars, caller, bit, signalled>>

-----------------------------------------------------------------------------
(* The harness.                                                            *)

\* A process that serves with no Room yet, and one booted with Room r.
BootRoomless ==
    /\ main = "boot" /\ pc = "idle" /\ None \in Serves
    /\ main' = "wait" /\ stopped' = TRUE
    /\ UNCHANGED <<roomVars, childVars, pool, transport, synced, wireVars, pc,
                   caller, bit, signalled>>

BootRoom(r) ==
    /\ main = "boot" /\ pc = "idle" /\ r \in Serves
    /\ BeginLoad(r, "boot")
    /\ UNCHANGED <<room, gsRoom, hub, bound, childVars, clientVars, wireVars, main,
                   bit, signalled>>

\* build after its Room has loaded: the Bit, the pool, the agent.  Whatever
\* fails, the Room is unloaded and build raises.
BootPool ==
    /\ pc = "pool"
    /\ \/ /\ Reachable
          /\ pool' = hub /\ synced' = hub
          /\ wired' = gsRoom /\ rewires' = 1
          /\ bit' \in BOOLEAN
          /\ main' = "start" /\ pc' = "transport"
          /\ UNCHANGED <<roomVars, childVars, transport, stopped, pending, caller,
                         signalled>>
       \/ /\ BeginUnload("boot")
          /\ UNCHANGED <<clientVars, wireVars, main, signalled>>

\* main after build: the transport starts, or the process shuts down.
BootTransport ==
    /\ pc = "transport"
    /\ \/ /\ Reachable
          /\ transport' = hub /\ main' = "serve"
       \/ main' = "leave" /\ UNCHANGED transport
    /\ pc' = "idle"
    /\ UNCHANGED <<roomVars, childVars, pool, synced, stopped, wireVars, caller, bit,
                   signalled>>

\* The loops take commands between two iterations.
Polling == main \in {"wait", "serve"} /\ pc = "idle"

\* restart_clients and what follows; if it fails the Room is unloaded.
RestartOr(success) ==
    \E o \in Outcomes :
        /\ RestartClients(o) /\ OnClientsRestarted(o)
        /\ IF o.ok \/ ~stopped
           THEN success /\ UNCHANGED <<roomVars, childVars, caller>>
           ELSE BeginUnload("loop") /\ UNCHANGED main

\* _serve_roomless: a Room that is ready is served, once its clients are up.
Lap ==
    /\ main = "wait" /\ pc = "idle" /\ state = "room_ready"
    /\ RestartOr(main' = "serve" /\ UNCHANGED <<pc, bit>>)
    /\ UNCHANGED signalled

\* The serve loop finds Arco gone, and the process shuts down.
ArcoExited ==
    /\ main = "serve" /\ pc = "idle" /\ state = "room_ready" /\ ~ArcoAlive
    /\ main' = "leave"
    /\ UNCHANGED <<roomVars, childVars, clientVars, wireVars, pc, caller, bit, signalled>>

\* shutdown: Control's clients first, then the Room if one is ready.
CloseClients ==
    /\ main = "leave" /\ pc = "idle"
    /\ pool' = NoHub /\ transport' = NoHub
    /\ main' = "closing"
    /\ UNCHANGED <<roomVars, childVars, synced, stopped, wireVars, pc, caller, bit,
                   signalled>>

CloseRoom ==
    /\ main = "closing" /\ pc = "idle"
    /\ IF state = "room_ready"
       THEN BeginUnload("leave") /\ UNCHANGED main
       ELSE main' = "down" /\ UNCHANGED <<roomVars, childVars, pc, caller, bit>>
    /\ UNCHANGED <<clientVars, wireVars, signalled>>

-----------------------------------------------------------------------------
(* The operators' commands, from the Console or the uplink.                *)

LoadRoomCommand(r) ==
    /\ Polling
    /\ BeginLoad(r, "loop")
    /\ UNCHANGED <<room, gsRoom, hub, bound, childVars, clientVars, wireVars, main,
                   bit, signalled>>

\* load_bit naming a Room, with none loaded: _ensure_room_for_bit loads it...
LoadBitWithRoom(r) ==
    /\ Polling
    /\ BeginLoad(r, "bit")
    /\ UNCHANGED <<room, gsRoom, hub, bound, childVars, clientVars, wireVars, main,
                   bit, signalled>>

\* ... restarts the clients, and only then loads the Bit.
LoadBitResumes ==
    /\ pc = "restart"
    /\ RestartOr(pc' = "idle" /\ bit' \in BOOLEAN /\ UNCHANGED main)
    /\ UNCHANGED signalled

LoadBit ==
    /\ Polling /\ state = "room_ready" /\ ~bit
    /\ bit' = TRUE
    /\ UNCHANGED <<roomVars, childVars, clientVars, wireVars, main, pc, caller,
                   signalled>>

RoundEnds ==
    /\ Polling /\ bit
    /\ bit' = FALSE
    /\ UNCHANGED <<roomVars, childVars, clientVars, wireVars, main, pc, caller,
                   signalled>>

\* Faulty variant: the Room may always be unloaded.
MayUnloadAlways == TRUE

\* unload_room_refusal: not while Control's clients are live.
MayUnload == stopped

\* force or not: without it a loaded Bit refuses.
UnloadRoomCommand(force) ==
    /\ Polling /\ MayUnload /\ (force \/ ~bit)
    /\ BeginUnload("loop")
    /\ UNCHANGED <<clientVars, wireVars, main, signalled>>

\* The Console's hard abort: the Bit, and the Room if that may be unloaded.
AbortCommand ==
    /\ Polling /\ bit
    /\ IF MayUnload /\ state = "room_ready"
       THEN BeginUnload("loop")
       ELSE bit' = FALSE /\ UNCHANGED <<roomVars, childVars, pc, caller>>
    /\ UNCHANGED <<clientVars, wireVars, main, signalled>>

-----------------------------------------------------------------------------
(* Accidents.                                                              *)

ArcoCrashes ==
    /\ "crash" \in Accidents /\ Child(loads, ArcoName) \in alive
    /\ alive' = alive \ {Child(loads, ArcoName)}
    /\ UNCHANGED <<roomVars, stack, loads, simulated, clientVars, wireVars,
                   mainVars>>

\* KeyboardInterrupt in one of the loops ends them; shutdown follows.
SignalInLoop ==
    /\ "signal" \in Accidents /\ ~signalled /\ Polling
    /\ signalled' = TRUE /\ main' = "leave"
    /\ UNCHANGED <<roomVars, childVars, clientVars, wireVars, pc, caller, bit>>

\* KeyboardInterrupt in load_room is a reason for it to fail.
SignalInLoad ==
    /\ "signal" \in Accidents /\ ~signalled
    /\ pc \in {"check", "ready", "bind", "wait"}
    /\ signalled' = TRUE
    /\ Fail /\ UNCHANGED childVars

-----------------------------------------------------------------------------
LoadStep ==
    \/ CheckFails \/ SpawnArco \/ ArcoReady \/ ArcoNotReady
    \/ BindRecorded \/ AllSimulated \/ WaitTimeout \/ Announce
    \/ \E f \in Fixture : SpawnSimulator(f)
UnloadStep == UnwindStep \/ UnwindEnd \/ Save
HarnessStep ==
    \/ BootRoomless \/ BootPool \/ BootTransport \/ LoadBitResumes
    \/ Lap \/ ArcoExited \/ CloseClients \/ CloseRoom
    \/ \E r \in Room : BootRoom(r)
Command ==
    \/ \E r \in Room : LoadRoomCommand(r) \/ LoadBitWithRoom(r)
    \/ LoadBit \/ RoundEnds \/ AbortCommand
    \/ \E force \in BOOLEAN : UnloadRoomCommand(force)
Tap == \E f \in Fixture : WaitTap(f)
Accident == ArcoCrashes \/ SignalInLoop \/ SignalInLoad \/ AnnounceInterrupted

Next == LoadStep \/ UnloadStep \/ HarnessStep \/ Command \/ Tap \/ Accident

Spec == Init /\ [][Next]_vars

\* The thread goes on with what it has begun, and its loops turn.
Fairness == WF_vars(LoadStep) /\ WF_vars(UnloadStep) /\ WF_vars(HarnessStep)

-----------------------------------------------------------------------------
(* What is checked.                                                        *)

TypeOK ==
    /\ state \in {"no_room", "room_loading", "room_ready", "room_unloading"}
    /\ {room, gsRoom, loading, wired} \subseteq Room \cup {None}
    /\ bound \subseteq Fixture
    /\ loads \in 0..MaxLoads
    /\ {hub, pool, transport, synced} \subseteq 0..loads
    /\ alive \subseteq Children
    /\ stack \in Seq(Children)
    /\ rewires \in Nat
    /\ {stopped, pending, bit, signalled, simulated} \subseteq BOOLEAN
    /\ main \in {"boot", "start", "wait", "serve", "leave", "closing", "down"}
    /\ pc \in {"idle", "check", "ready", "bind", "wait", "announce", "unwind",
              "save", "close", "restart", "pool", "transport"}
    /\ caller \in {"loop", "bit", "boot", "leave"}

OnStack == {stack[i] : i \in DOMAIN stack}

\* Every child that runs is on the stack that will stop it, and none runs once
\* the process is down: whatever a load spawns, a failure of that load, an
\* unload or the shutdown stops.
NoOrphans ==
    /\ alive \subseteq OnStack
    /\ main = "down" => alive = {}

\* Between operations a Room stands as a whole or not at all: Terrarium,
\* GameServer, the Arco, the fixtures' children and the agent's wiring agree,
\* and the agent is wired to no Room whose clients are down.
AllOrNothing == pc = "idle" /\ main \notin {"boot", "down"} =>
    /\ state \in {"no_room", "room_ready"}
    /\ state = "no_room" =>
        /\ {room, gsRoom, loading, wired} = {None}
        /\ hub = NoHub /\ bound = {} /\ stack = <<>> /\ ~pending /\ ~bit
    /\ state = "room_ready" =>
        /\ room \in Room /\ gsRoom = room
        /\ wired = IF stopped THEN None ELSE room
        /\ hub = loads /\ stack # <<>> /\ stack[1] = Child(hub, ArcoName)
        /\ bound \subseteq Fixtures(room)
        /\ simulated => \A f \in Fixtures(room) : Child(hub, f) \in OnStack

\* A Room that is served has live clients of its own Arco and was wired to the
\* agent exactly once, whichever of the three callers of restart_clients
\* brought the clients up.
ServedOnce == main = "serve" /\ pc = "idle" /\ state = "room_ready" =>
    /\ ~stopped /\ pool = hub /\ transport = hub
    /\ wired = room /\ rewires = 1 /\ ~pending

\* While the process runs, the only Arco that pyarco can talk to is not taken
\* away: an operator may unload a Room only before Control's clients have
\* connected to its Arco.
NeverStranded == Polling /\ synced # NoHub => hub = synced

\* The Arco of the latest load.
Arco == Child(loads, ArcoName)

\* A load comes to an end: a tap that never comes is not waited for for ever.
LoadsEnd == state = "room_loading" ~> state # "room_loading"

=============================================================================
