----------------------------- MODULE GameServer -----------------------------
(***************************************************************************)
(* Control's single authority on who plays what: control/engine.py's       *)
(* GameServer with the DevicePool, the RegistrationState, the armed window *)
(* of the RoomBindingRegistry and the active Room's bindings.              *)
(*                                                                         *)
(* Control is one thread, so a handler is one action.  The two handlers    *)
(* that loop over devices and call out to a Bit and to the transport for   *)
(* each (run and _unload) are loops here too: `loop` names the one that is *)
(* executing, and no other handler starts until it is back to "none".      *)
(* What a handler only logs, prints or shows to an observer is left out;   *)
(* what it tells the transport through on_grant and on_release is `told`.  *)
(***************************************************************************)
EXTENDS RoleTable

CONSTANTS Dev,            \* device ids
          AdminDev,       \* admin_devices, never given a jam role
          StartAdminOnly, \* the Bit's start condition is "admin" (keyed)
          MinScored,      \* its min_scored
          Bindings,       \* bindings load_room's fast path may come up with
          MuteTargets,    \* the surfaces an operator fires functions at
          RoomHazards,    \* which Room accidents happen: "rearm", "lapse"
          MaxRounds,      \* bound: Bit loads in a behaviour
          None            \* no role, no device, no fixture

VARIABLES state,      \* State
          loop,       \* the synchronous loop in progress, or "none"
          round,      \* _round_counter; round_id while a Bit is loaded
          pool,       \* DevicePool: known devices
          silent,     \* the pooled devices reap_stale would find stale
          carried,    \* [Dev -> Instrument]: what each pooled device carries
          room,       \* a Room is loaded
          bound,      \* Room.bound: [Fixture -> device]
          armed,      \* RoomBindingRegistry.armed_fixture
          roomNode,   \* the loaded Bit's table holds the ROOM role and node
          validated,  \* RegistrationState.validated: [Dev -> role]
          assigned,   \* RegistrationState.assignments: [Dev -> role]
          counts,     \* RegistrationState._counts: [Role -> Int]
          todo,       \* devices the running loop has still to visit
          owed,       \* devices whose on_grant / on_release is still to come
          told,       \* [Dev -> role]: the role the transport believes in
          muted,      \* GameServer.muted
          startedBy   \* who started the round: "none", "admin", "player"

regVars  == <<validated, assigned, counts>>
roomVars == <<room, bound, armed>>
loopVars == <<loop, todo, owed>>
poolVars == <<pool, silent, carried>>
vars == <<state, round, regVars, roomVars, roomNode, loopVars, poolVars, told,
          muted, startedBy>>

ASSUME GameServerAssumption ==
    /\ IsFiniteSet(Dev)
    /\ AdminDev \subseteq Dev
    /\ MinScored \in Nat
    /\ StartAdminOnly \in BOOLEAN
    /\ MaxRounds \in Nat
    /\ RoomHazards \subseteq {"rearm", "lapse"}
    /\ None \notin Dev \cup Role \cup Fixture
    /\ Dev \cap Fixture = {}
    /\ MuteTargets \subseteq Dev \cup Fixture
    /\ Bindings \subseteq [Fixture -> Dev \cup {None}]

-----------------------------------------------------------------------------
(* Views of the state that several handlers read.                          *)

\* self.registration is not None: a Bit is loaded.
Registered == state \notin {"IDLE", "LOADING"}

\* No handler is executing: the next inbound message, tick or command runs.
Quiet == loop = "none"

BoundDevs == {bound[f] : f \in Fixture} \ {None}

\* A connected device nothing else claims gets a jam role (_jam_candidates).
JamCandidate(d) == d \notin BoundDevs /\ assigned[d] = None /\ d \notin AdminDev

JamCandidates == {d \in pool : JamCandidate(d)}

\* The roles _jam_for may return to a device carrying i: Bit.admits is the Bit's
\* own decision, so any unscored role with a place that fits, or a solo role.
JamChoices(i) ==
    {r \in UnscoredRole : HasPlace(r, counts[r]) /\ Fits(i, r)}
        \cup {SoloRole[i]}

\* scored_count: reservations and assignments counted on the scored roles.
ScoredCount == Cardinality(Places(counts))

ReservedDevs == {d \in Dev : validated[d] # None}

\* validate's first check: the scored slots are not all reserved.
SlotsOpen == ScoredCap = Unlimited \/ Cardinality(ReservedDevs) < ScoredCap

\* lobby_state, while a Bit with a lobby is in SETUP.
LobbyState ==
    IF /\ ScoredCap # Unlimited
       /\ ScoredCap > 0
       /\ Cardinality(ReservedDevs) >= ScoredCap
    THEN "FULL" ELSE "WAITING"

\* _mute_key: a bound device is muted as its (first declared) fixture.
MuteKey(s, b) ==
    IF \E f \in Fixture : b[f] = s
    THEN CHOOSE f \in Fixture : b[f] = s
    ELSE s

\* _resolve_devs: a fixture that has a device is addressed as that device.
Resolve(s) == IF s \in Fixture /\ bound[s] # None THEN bound[s] ELSE s

-----------------------------------------------------------------------------
(* RegistrationState's operations, as the values they leave behind.        *)

\* Whether `r` is held by `d` in the map `m`, as the number _counts loses.
Held(m, d, r) == IF m[d] = r THEN 1 ELSE 0

\* Faulty variant: a dropped reservation keeps its place.
UncountAssignmentOnly(d) ==
    [r \in Role |-> counts[r] - Held(assigned, d, r)]

\* release: drop d's reservation and its assignment, uncounting each.
Uncount(d) ==
    [r \in Role |-> counts[r] - Held(validated, d, r) - Held(assigned, d, r)]

Release(d) ==
    /\ validated' = [validated EXCEPT ![d] = None]
    /\ assigned' = [assigned EXCEPT ![d] = None]
    /\ counts' = Uncount(d)

\* assign: nothing when d holds r already, else release d and take a place.
Assign(d, r) ==
    IF assigned[d] = r
    THEN UNCHANGED regVars
    ELSE /\ validated' = [validated EXCEPT ![d] = None]
         /\ assigned' = [assigned EXCEPT ![d] = r]
         /\ counts' = [Uncount(d) EXCEPT ![r] = @ + 1]

\* validate: d is granted the first scored role of node n with a place left.
Validate(d, n) ==
    /\ validated[d] = None
    /\ SlotsOpen
    /\ \E i \in DOMAIN NodeRoles[n] :
         LET Free(j) == /\ NodeRoles[n][j] \in ScoredRole
                        /\ HasPlace(NodeRoles[n][j], counts[NodeRoles[n][j]])
             r == NodeRoles[n][i]
         IN  /\ Free(i)
             /\ \A j \in 1 .. (i - 1) : ~Free(j)
             /\ IF Fits(carried[d], r)
                THEN /\ validated' = [validated EXCEPT ![d] = r]
                     /\ counts' = [counts EXCEPT ![r] = @ + 1]
                     /\ UNCHANGED assigned
                \* The instrument check comes after the reservation, and its
                \* failure releases whatever d holds.
                ELSE /\ assigned' = [assigned EXCEPT ![d] = None]
                     /\ counts' = [q \in Role |->
                                     counts[q] - Held(assigned, d, q)]
                     /\ UNCHANGED validated

-----------------------------------------------------------------------------
Init ==
    /\ state = "IDLE" /\ loop = "none" /\ round = 0
    /\ pool = {} /\ silent = {} /\ carried \in [Dev -> Instrument]
    /\ room = FALSE /\ bound = [f \in Fixture |-> None] /\ armed = None
    /\ roomNode = FALSE
    /\ validated = [d \in Dev |-> None]
    /\ assigned = [d \in Dev |-> None]
    /\ counts = [r \in Role |-> 0]
    /\ todo = {} /\ owed = {}
    /\ told = [d \in Dev |-> None]
    /\ muted = {}
    /\ startedBy = "none"

-----------------------------------------------------------------------------
(* Devices: hello, any other traffic, silence, the reaper.                 *)

\* hello(d) declaring (or, on a heartbeat, keeping) instrument i.  A device
\* that walks up while RUNNING gets its jam role inside the same call.
Hello(d, i) ==
    /\ Quiet
    /\ pool' = pool \cup {d}
    /\ silent' = silent \ {d}
    /\ carried' = [carried EXCEPT ![d] = i]
    /\ UNCHANGED <<state, round, roomVars, roomNode, loopVars, muted, startedBy>>
    /\ IF state = "RUNNING" /\ JamCandidate(d)
       THEN \E r \in JamChoices(i) :
              /\ Assign(d, r)
              /\ told' = [told EXCEPT ![d] = r]
       ELSE UNCHANGED <<regVars, told>>

\* Traffic that changes nothing else is still proof of life (_handle: touch).
Touch(d) ==
    /\ Quiet
    /\ d \in silent
    /\ silent' = silent \ {d}
    /\ UNCHANGED <<state, round, regVars, roomVars, roomNode, loopVars, pool,
                   carried, told, muted, startedBy>>

\* d has been silent longer than the reap timeout.
GoSilent(d) ==
    /\ Quiet
    /\ d \in pool \ silent
    /\ silent' = silent \cup {d}
    /\ UNCHANGED <<state, round, regVars, roomVars, roomNode, loopVars, pool,
                   carried, told, muted, startedBy>>

\* A reaped device frees what it holds, reservation or assignment.
ReapHold(d) ==
    IF Registered /\ (validated[d] # None \/ assigned[d] # None)
    THEN Release(d)
    ELSE UNCHANGED regVars

\* DevicePool.remove.
Forget(d) ==
    /\ pool' = pool \ {d}
    /\ silent' = silent \ {d}

\* One device of reap_stale: a bound fixture's device is left alone, a player
\* is released, a device that only validated frees its slot without a release.
Reap(d) ==
    /\ Quiet
    /\ d \in silent
    /\ d \notin BoundDevs
    /\ ReapHold(d)
    /\ told' = IF Registered /\ assigned[d] # None
               THEN [told EXCEPT ![d] = None] ELSE told
    /\ Forget(d)
    /\ UNCHANGED <<state, round, roomVars, roomNode, loopVars, carried, muted,
                   startedBy>>

-----------------------------------------------------------------------------
(* The Room: loaded and unloaded by Terrarium, fixtures armed by an        *)
(* operator, the armed window closing by itself.                           *)

\* load_room: the fast path binds devices it has just started, so none of them
\* has said hello yet; the wait for a tap that follows a partial binding ends
\* disarmed.
LoadRoom ==
    /\ Quiet
    /\ ~room
    /\ room' = TRUE
    /\ \E b \in Bindings :
         /\ {b[f] : f \in Fixture} \cap pool = {}
         /\ bound' = b
         /\ armed' = IF None \in {b[f] : f \in Fixture} THEN None ELSE armed
    /\ UNCHANGED <<state, round, regVars, roomNode, loopVars, poolVars, told,
                   muted, startedBy>>

\* unload_room on an IDLE engine (forced, it aborts the Bit first): the whole
\* pool is stale.
UnloadRoom ==
    /\ Quiet
    /\ room
    /\ state = "IDLE"
    /\ room' = FALSE
    /\ bound' = [f \in Fixture |-> None]
    /\ pool' = {}
    /\ silent' = {}
    /\ UNCHANGED <<state, round, regVars, roomNode, loopVars, carried, armed,
                   told, muted, startedBy>>

\* The operator opens fixture f's window, replacing any other.
Arm(f) ==
    /\ Quiet
    /\ room
    /\ bound[f] = None \/ "rearm" \in RoomHazards
    /\ armed' = f
    /\ UNCHANGED <<state, round, regVars, room, bound, roomNode, loopVars,
                   poolVars, told, muted, startedBy>>

\* The window runs out, or the operator releases the fixture.
Disarm ==
    /\ Quiet
    /\ armed # None
    /\ armed' = None
    /\ UNCHANGED <<state, round, regVars, room, bound, roomNode, loopVars,
                   poolVars, told, muted, startedBy>>

\* _bind_room and _migrate_mute_on_bind: d becomes fixture f's device, and a
\* mute latched on d as a player moves to the fixture.
BindRoom(d, f) ==
    /\ bound' = [bound EXCEPT ![f] = d]
    /\ armed' = None
    /\ muted' = IF d \in muted THEN (muted \ {d}) \cup {f} ELSE muted

\* handshake on the Room node: a place among the fixtures, then the bind.  The
\* window is read twice, and may have closed in between ("lapse").  The agent
\* drops the player bridge of a device that became a fixture.
HandshakeRoom(d) ==
    /\ Quiet
    /\ d \in pool
    /\ Registered /\ roomNode
    /\ room /\ armed # None
    /\ assigned[d] = RoomRole \/ HasPlace(RoomRole, counts[RoomRole])
    /\ Assign(d, RoomRole)
    /\ \/ BindRoom(d, armed)
       \/ /\ "lapse" \in RoomHazards
          /\ armed' = None
          /\ UNCHANGED <<bound, muted>>
    /\ told' = [told EXCEPT ![d] = None]
    /\ silent' = silent \ {d}
    /\ UNCHANGED <<state, round, room, roomNode, loopVars, pool, carried,
                   startedBy>>

-----------------------------------------------------------------------------
(* A Bit's life: load, SETUP with its reservations, run, unload.           *)

\* load_bit; everything it may refuse is behind LoadBitFails.
LoadBit ==
    /\ Quiet
    /\ state = "IDLE"
    /\ round < MaxRounds
    /\ state' = "LOADING"
    /\ loop' = "load"
    /\ UNCHANGED <<round, regVars, roomVars, roomNode, todo, owed, poolVars,
                   told, muted, startedBy>>

LoadBitFails ==
    /\ loop = "load" /\ state = "LOADING"
    /\ state' = "IDLE"
    /\ loop' = "none"
    /\ UNCHANGED <<round, regVars, roomVars, roomNode, todo, owed, poolVars,
                   told, muted, startedBy>>

\* A fresh RegistrationState, with the Room's role merged in when there is one.
LoadBitSucceeds ==
    /\ loop = "load" /\ state = "LOADING"
    /\ state' = "LOADED"
    /\ round' = round + 1
    /\ roomNode' = room
    /\ validated' = [d \in Dev |-> None]
    /\ assigned' = [d \in Dev |-> None]
    /\ counts' = [r \in Role |-> 0]
    /\ UNCHANGED <<roomVars, loopVars, poolVars, told, muted, startedBy>>

\* _enter_setup; Bit.on_setup_enter may raise, which changes nothing here.
EnterSetup ==
    /\ loop = "load" /\ state = "LOADED"
    /\ state' = "SETUP"
    /\ loop' = "none"
    /\ UNCHANGED <<round, regVars, roomVars, roomNode, todo, owed, poolVars,
                   told, muted, startedBy>>

\* handshake(d, rid, n) on a player node, when it is granted or fails the
\* instrument check; every other answer leaves the engine as it was.
HandshakePlayer(d, rid, n) ==
    /\ Quiet
    /\ d \in pool
    /\ d \notin BoundDevs
    /\ state = "SETUP"
    /\ rid = round
    /\ Validate(d, n)
    /\ silent' = silent \ {d}
    /\ UNCHANGED <<state, round, roomVars, roomNode, loopVars, pool, carried,
                   told, muted, startedBy>>

\* request_start and the run() behind it: decide_start accepts, RUNNING comes
\* first, the jam candidates are listed, the reservations become assignments
\* without being counted again.
Run(admin, keyed) ==
    /\ Quiet
    /\ state = "SETUP"
    /\ keyed => StartAdminOnly
    /\ admin \/ ScoredCount >= MinScored
    /\ state' = "RUNNING"
    /\ startedBy' = IF admin THEN "admin" ELSE "player"
    /\ loop' = "jam"
    /\ todo' = JamCandidates
    /\ owed' = ReservedDevs
    /\ assigned' = [d \in Dev |-> IF validated[d] # None THEN validated[d]
                                  ELSE assigned[d]]
    /\ validated' = [d \in Dev |-> None]
    /\ UNCHANGED <<round, counts, roomVars, roomNode, poolVars, told, muted>>

\* Faulty variant: the jam loop does not skip the reserved devices.
JamOneNoSkip(d) ==
    /\ loop = "jam"
    /\ d \in todo
    /\ todo' = todo \ {d}
    /\ \E r \in JamChoices(carried[d]) : Assign(d, r) /\ owed' = owed \cup {d}
    /\ UNCHANGED <<state, round, roomVars, roomNode, loop, poolVars, told,
                   muted, startedBy>>

\* materialize's second loop: everyone left gets a jam role.
JamOne(d) ==
    /\ loop = "jam"
    /\ d \in todo
    /\ todo' = todo \ {d}
    /\ IF assigned[d] # None
       THEN UNCHANGED <<regVars, owed>>
       ELSE \E r \in JamChoices(carried[d]) : Assign(d, r) /\ owed' = owed \cup {d}
    /\ UNCHANGED <<state, round, roomVars, roomNode, loop, poolVars, told,
                   muted, startedBy>>

\* _grant: the transport hears the role of each new player.
GrantOne(d) ==
    /\ loop = "jam" /\ todo = {}
    /\ d \in owed
    /\ owed' = owed \ {d}
    /\ told' = [told EXCEPT ![d] = assigned[d]]
    /\ UNCHANGED <<state, round, regVars, roomVars, roomNode, loop, todo,
                   poolVars, muted, startedBy>>

RunDone ==
    /\ loop = "jam" /\ todo = {} /\ owed = {}
    /\ loop' = "none"
    /\ UNCHANGED <<state, round, regVars, roomVars, roomNode, todo, owed,
                   poolVars, told, muted, startedBy>>

\* Faulty variant: only the devices released last are told.
StartUnloadUntold ==
    /\ state' = "UNLOADING"
    /\ loop' = "unload"
    /\ muted' = {}
    /\ todo' = {d \in Dev : validated[d] # None \/ assigned[d] # None}
    /\ owed' = {}

\* The head of _unload: every mute is lifted, every hold is to be released,
\* and on_release is owed to those that hold an assignment.
StartUnload ==
    /\ state' = "UNLOADING"
    /\ loop' = "unload"
    /\ muted' = {}
    /\ todo' = {d \in Dev : validated[d] # None \/ assigned[d] # None}
    /\ owed' = {d \in Dev : assigned[d] # None}

\* tick: Bit.update says the round is over (_complete).
Complete ==
    /\ Quiet
    /\ state = "RUNNING"
    /\ state' = "COMPLETING"
    /\ loop' = "complete"
    /\ UNCHANGED <<round, regVars, roomVars, roomNode, todo, owed, poolVars,
                   told, muted, startedBy>>

CompleteUnloads ==
    /\ loop = "complete"
    /\ StartUnload
    /\ UNCHANGED <<round, regVars, roomVars, roomNode, poolVars, told, startedBy>>

\* abort, from any state but IDLE.
Abort ==
    /\ Quiet
    /\ state # "IDLE"
    /\ StartUnload
    /\ UNCHANGED <<round, regVars, roomVars, roomNode, poolVars, told, startedBy>>

\* release_all, one device of it.
UnloadRelease(d) ==
    /\ loop = "unload"
    /\ d \in todo
    /\ Release(d)
    /\ todo' = todo \ {d}
    /\ UNCHANGED <<state, round, roomVars, roomNode, loop, owed, poolVars, told,
                   muted, startedBy>>

\* on_release, one device of it.
UnloadTell(d) ==
    /\ loop = "unload" /\ todo = {}
    /\ d \in owed
    /\ owed' = owed \ {d}
    /\ told' = [told EXCEPT ![d] = None]
    /\ UNCHANGED <<state, round, regVars, roomVars, roomNode, loop, todo,
                   poolVars, muted, startedBy>>

\* The tail of _unload.  The registration is dropped whole.
UnloadDone ==
    /\ loop = "unload" /\ todo = {} /\ owed = {}
    /\ state' = "IDLE"
    /\ loop' = "none"
    /\ roomNode' = FALSE
    /\ startedBy' = "none"
    /\ validated' = [d \in Dev |-> None]
    /\ assigned' = [d \in Dev |-> None]
    /\ counts' = [r \in Role |-> 0]
    /\ UNCHANGED <<round, roomVars, todo, owed, poolVars, told, muted>>

-----------------------------------------------------------------------------
(* Fires at a surface (fire_function with a built-in): Stop latches a mute, *)
(* any other fire that lands lifts it under both of its spellings.          *)

\* A fire lands only where an instrument is found: a fixture of the active
\* Room, its device, or a pooled device (_instrument_for).
Known(s) == IF s \in Fixture THEN room ELSE s \in pool \cup BoundDevs

Stop(s) ==
    /\ Quiet
    /\ Known(s)
    /\ muted' = muted \cup {MuteKey(Resolve(s), bound)}
    /\ UNCHANGED <<state, round, regVars, roomVars, roomNode, loopVars,
                   poolVars, told, startedBy>>

Fire(s) ==
    /\ Quiet
    /\ Known(s)
    /\ muted' = muted \ {MuteKey(Resolve(s), bound), Resolve(s)}
    /\ UNCHANGED <<state, round, regVars, roomVars, roomNode, loopVars,
                   poolVars, told, startedBy>>

-----------------------------------------------------------------------------
\* The steps of a handler already running, and the handlers that may start.
LoopStep ==
    \/ LoadBitFails \/ LoadBitSucceeds \/ EnterSetup
    \/ \E d \in Dev : JamOne(d) \/ GrantOne(d)
    \/ RunDone
    \/ CompleteUnloads
    \/ \E d \in Dev : UnloadRelease(d) \/ UnloadTell(d)
    \/ UnloadDone

Handler ==
    \/ \E d \in Dev :
         \/ \E i \in Instrument : Hello(d, i)
         \/ Touch(d) \/ GoSilent(d) \/ Reap(d)
         \/ HandshakeRoom(d)
         \/ \E rid \in 1 .. round, n \in Node : HandshakePlayer(d, rid, n)
    \/ LoadRoom \/ UnloadRoom \/ Disarm
    \/ \E f \in Fixture : Arm(f)
    \/ LoadBit \/ Complete \/ Abort
    \/ \E admin, keyed \in BOOLEAN : Run(admin, keyed)
    \/ \E s \in MuteTargets : Stop(s) \/ Fire(s)

Next == LoopStep \/ Handler

Spec == Init /\ [][Next]_vars

-----------------------------------------------------------------------------
HeldBy(m, r) == {d \in Dev : m[d] = r}
Reserved(r) == HeldBy(validated, r)
Holders(r)  == HeldBy(assigned, r)
HoldCount(r) == Cardinality(Reserved(r)) + Cardinality(Holders(r))

TypeOK ==
    /\ state \in {"IDLE", "LOADING", "LOADED", "SETUP", "RUNNING", "COMPLETING",
                  "UNLOADING"}
    /\ loop \in {"none", "load", "jam", "complete", "unload"}
    /\ round \in Nat
    /\ pool \subseteq Dev
    /\ silent \subseteq pool
    /\ carried \in [Dev -> Instrument]
    /\ room \in BOOLEAN
    /\ bound \in [Fixture -> Dev \cup {None}]
    /\ armed \in Fixture \cup {None}
    /\ roomNode \in BOOLEAN
    /\ validated \in [Dev -> ScoredRole \cup {None}]
    /\ assigned \in [Dev -> Role \cup {None}]
    /\ counts \in [Role -> Int]
    /\ todo \subseteq Dev
    /\ owed \subseteq Dev
    /\ told \in [Dev -> Role \cup {None}]
    /\ muted \subseteq Dev \cup Fixture
    /\ startedBy \in {"none", "admin", "player"}

\* No role is ever held, reserved or assigned, by more devices than its
\* capacity, through every order of reservations, materialization, walk-ups,
\* Room binds, reaps and releases (the counter _counts is what the code checks).
HoldersWithinCapacity ==
    \A r \in Role : Capacity[r] # Unlimited => HoldCount(r) <= Capacity[r]

\* What the counters promise, in every state: the holders of a scored role, at
\* least those of any other, at most the capacity.  Reserved and assigned are
\* counted apart, because a displaced fixture's device may be both; `run' then
\* leaves the Room role's count too high.
CountsCover ==
    /\ \A r \in ScoredRole : HoldCount(r) = counts[r]
    /\ \A r \in Role : HoldCount(r) <= counts[r]
    /\ \A r \in Role : Capacity[r] # Unlimited => counts[r] <= Capacity[r]

\* While the lobby says WAITING, some scored role really has a place left: the
\* cap and the per-role counters never disagree on whether the round is full.
PlaceLeft ==
    state = "SETUP" /\ Quiet /\ ScoredCap # Unlimited /\ ScoredCap > 0
      /\ LobbyState = "WAITING"
        => \E r \in ScoredRole : HasPlace(r, counts[r])

\* A round started by a player begins with at least min_scored scored players
\* seated: what request_start counted is what materialize hands out.
MinimumSeated ==
    loop = "jam" /\ startedBy = "player"
        => Cardinality({d \in Dev : assigned[d] \in ScoredRole}) >= MinScored

\* No slot is held by a device Control no longer knows (reap_stale frees both
\* kinds of hold; a bound device is exempt from both).
HoldersAreConnected ==
    Quiet => \A d \in Dev :
        validated[d] # None \/ assigned[d] # None => d \in pool

\* The lobby's numbers are the players': what it counts is there, what it says
\* is open is open, and what it starts has the players it counted.
LobbyHonest == PlaceLeft /\ MinimumSeated /\ HoldersAreConnected

\* The transport holds d for exactly the player role it is assigned.
Agrees(d) == told[d] = IF assigned[d] \in PlayerRole THEN assigned[d] ELSE None

\* Between handlers the transport and the registration agree: on_grant and
\* on_release have told it exactly the player roles that are assigned.
ToldAgrees ==
    Quiet => \A d \in Dev : Agrees(d)

\* A seat: a reservation in SETUP, the scored role it became once RUNNING.
Seat(d) == IF validated[d] # None THEN validated[d]
           ELSE IF assigned[d] \in ScoredRole THEN assigned[d] ELSE None

\* A seat, once given, is lost only when the device is reaped, becomes a Room
\* fixture, or the round is unloaded; otherwise it stays the same role.
SeatKept ==
    [][\A d \in Dev : Seat(d) # None /\ Seat(d)' # Seat(d)
          => \/ d \notin pool'
             \/ assigned'[d] = RoomRole
             \/ loop = "unload"]_vars

\* Who may hold what in each state of the lifecycle.
HoldsFollowState ==
    /\ loop = "load" <=> state \in {"LOADING", "LOADED"}
    /\ loop = "jam" => state = "RUNNING"
    /\ loop = "complete" <=> state = "COMPLETING"
    /\ loop = "unload" <=> state = "UNLOADING"
    /\ state \in {"IDLE", "LOADING", "LOADED"} =>
         \A d \in Dev : validated[d] = None /\ assigned[d] = None
    /\ state = "SETUP" => \A d \in Dev : assigned[d] \in {None, RoomRole}
    /\ state = "RUNNING" => \A d \in Dev : validated[d] = None

\* What each loop still has to tell the transport, device by device.
TellingFollowsLoop ==
    /\ loop \in {"none", "load", "complete"} => \A d \in Dev : Agrees(d)
    /\ loop = "jam" =>
         \A d \in Dev : IF d \in owed
                        THEN told[d] = None /\ assigned[d] \in PlayerRole
                        ELSE Agrees(d)
    /\ loop = "unload" => \A d \in Dev \ owed : told[d] = None

\* The transport is never told a second role over a first: on_grant always
\* finds a device that holds none (a bridge is never silently replaced).
RoleNeverSwapped ==
    [][\A d \in Dev : told[d] # None => told'[d] \in {told[d], None}]_vars

\* From run to the end of _unload roles may be handed out.
RoundOpen == state \in {"RUNNING", "COMPLETING", "UNLOADING"}

\* on_grant and on_release are called in the order the transport is written
\* for: only in an open round, never a role over a role, and no round is closed
\* before everyone who had a role has heard of its end.
T == INSTANCE Telling WITH open <- RoundOpen, Role <- PlayerRole
TellsInTurn == T!Spec

=============================================================================
