-------------------------------- MODULE Panel --------------------------------
(***************************************************************************)
(* What the operators' browsers show: ConsoleAgent's snapshots, observer   *)
(* events and comparisons (console/agent.py) over ConsoleServer's client   *)
(* set (console/server.py), with the design bench behind it.               *)
(*                                                                         *)
(* Two threads meet here.  A connection's handler thread adds the client   *)
(* to the set of live ones and to the newcomers, and takes it out again,   *)
(* at any time.  Everything else happens on the tick thread: the engine    *)
(* changes, and tells the panels of some changes as they happen; a poll    *)
(* snapshots the newcomers, runs the commands that came in, and then       *)
(* broadcasts what differs from what it remembers having sent.             *)
(*                                                                         *)
(* The engine is kept as far as a panel can tell its states apart: the     *)
(* Bit's phase, the Room, a live value of the Room panel (`look`: a        *)
(* controller, a mute), a line of Bit.status() and the pool with the roles *)
(* held.  Frames are numbers, in the order they were rendered.             *)
(***************************************************************************)
EXTENDS Naturals, SequencesExt, Functions, TimedQueue

CONSTANTS
    Client, Fixture, Player, Room,
    Throttle,    \* polls in a ROOM_FRAME_INTERVAL, and in a bench's
    BenchColour, \* how long a script's colour stays on the bench
    BenchStep,   \* offset of a bench script's second lane step
    MaxEvents,   \* bound: connections, drops, changes, frames, commands
    Nothing      \* `None`

ASSUME PanelAssumption ==
    /\ Throttle \in Nat \ {0} /\ MaxEvents \in Nat
    /\ Nothing \notin Room \cup [n : 0 .. MaxEvents, room : Room]

VARIABLES
    house,      \* GameServer and Terrarium, as above
    newest,     \* the newest frame of each fixture since the Room was loaded
    live,       \* ConsoleServer._clients
    fresh,      \* ConsoleServer._new_clients
    screen,     \* what each live client was sent; see Blank
    lastRoom,   \* _last_room
    lastFuns,   \* _last_functions, _last_instrument_functions, ...
    lastStatus, \* _last_status, _last_actions
    pending,    \* _pending_room_frames
    latest,     \* _latest_room_frames
    due,        \* polls until frames may be broadcast again
    bench,      \* _bench
    benchHeld,  \* _pending_bench_frame
    benchDue,   \* polls until a bench frame may be broadcast again
    polling,    \* within a poll, after the snapshots
    uneven,     \* panels of which a snapshot said what no broadcast has said
    events      \* inputs so far

memory == <<lastRoom, lastFuns, lastStatus, uneven>>
strips == <<pending, latest, due>>
trial == <<bench, benchHeld, benchDue>>
panelVars == <<house, newest, live, fresh, screen, memory, strips, trial, polling, events>>

-----------------------------------------------------------------------------
(* control/design_bench.py: the one instrument an operator tries out on a  *)
(* surface of its own, without a Bit, a Room or a device.  A bench is a    *)
(* record; each operator is one of its methods.                            *)
(*                                                                         *)
(* What the surface shows is "black", the "colour" of a script, or what    *)
(* its lane carries: the "wave" of a generator, the "script"'s steps, what *)
(* the operator's "hand" put there, or nothing yet, "off".                 *)

\* __init__: colour is what is left of _solid, heap the cues that wait, hushed
\* how long the generators are kept off the lane, told is _last_frame.
NewBench ==
    [colour |-> 0, muted |-> FALSE, heap |-> <<>>, hushed |-> 0,
     lane |-> "off", told |-> Nothing, dirty |-> FALSE]

\* fire, of the built-in that darkens, of a script that paints, and of one with
\* lane steps, whose lane the generators leave alone until the last of them.
BenchFire(b, name) ==
    LET lit == [b EXCEPT !.muted = FALSE, !.dirty = TRUE]
    IN  CASE name = "stop"  -> [lit EXCEPT !.muted = TRUE]
          [] name = "paint" -> [lit EXCEPT !.colour = BenchColour]
          [] name = "steps" -> [lit EXCEPT !.hushed = BenchStep, !.heap =
                                   Push(Push(@, 0, "script"), BenchStep, "script")]

\* lane: the operator's own value, smoothed, straight onto the lane.
BenchLane(b) == [b EXCEPT !.lane = "hand"]

\* The cues that are due come first, the generators' after them.
LaneFed(b) ==
    IF b.hushed = 0 THEN "wave"
    ELSE IF Due(b.heap) # <<>> THEN Last(Due(b.heap)) ELSE b.lane

\* Nothing to report: the frame is the last one, and no fire came between.
BenchUnchanged(b, picture) == picture = b.told /\ ~b.dirty

\* tick: the cues, the picture over them, and what is reported of it.
BenchTick(b) ==
    LET lane == LaneFed(b)
        picture == IF b.muted THEN "black"
                   ELSE IF b.colour > 0 THEN "colour" ELSE lane
    IN  [bench |-> [b EXCEPT !.heap = Rest(@), !.lane = lane,
                             !.told = picture, !.dirty = FALSE],
         frame |-> IF BenchUnchanged(b, picture) THEN Nothing ELSE picture]

\* One unit of time passes.
BenchElapse(b) ==
    [b EXCEPT !.heap = Elapse(@), !.colour = IF @ = 0 THEN 0 ELSE @ - 1,
              !.hushed = IF @ = 0 THEN 0 ELSE @ - 1]

-----------------------------------------------------------------------------
(* What a page shows                                                       *)

NoFrames == [f \in Fixture |-> Nothing]

\* A page that has been sent nothing yet.
Blank == [met |-> FALSE, phase |-> Nothing, active |-> Nothing, roles |-> FALSE,
          devices |-> Nothing, room |-> Nothing, funs |-> Nothing,
          status |-> Nothing, strip |-> NoFrames, bench |-> Nothing]

Loaded == house.phase # "IDLE"

\* _current_room; what the Room panel shows depends on the Room, the role the
\* Bit gives it, and the live values.
RoomView(h) == IF h.room = Nothing THEN Nothing
               ELSE [room |-> h.room, role |-> h.phase # "IDLE", look |-> h.look]

\* _current_functions and its companions: the Bit's table, the instruments of
\* the Room's fixtures and of the devices that are there.
FunctionsView(h) == [bit |-> h.phase # "IDLE", room |-> h.room,
                     carried |-> {d \in Player : h.devs[d] # "out"}]

\* _current_status
StatusView(h) == IF h.phase = "IDLE" THEN <<>> ELSE <<h.status>>

\* _devices_view: a device is not there, there, or there with a role.
DevicesView(h) == h.devs

\* ConsoleServer.broadcast: everyone in the set at this moment.
Broadcast(scr, what, view) ==
    [c \in Client |-> IF c \in live THEN [scr[c] EXCEPT ![what] = view] ELSE scr[c]]

PanelInit(start) ==
    /\ house = [phase |-> "IDLE", room |-> start, look |-> 0, status |-> 0,
                devs |-> [d \in Player |-> "out"]]
    /\ newest = NoFrames
    /\ live = {} /\ fresh = {} /\ screen = [c \in Client |-> Blank]
    /\ lastRoom = Nothing /\ lastFuns = Nothing /\ lastStatus = Nothing
    /\ pending = NoFrames /\ latest = NoFrames /\ due = 0
    /\ bench = Nothing /\ benchHeld = Nothing /\ benchDue = 0
    /\ polling = FALSE /\ uneven = {} /\ events = 0

\* The inputs share one budget.
Input == events < MaxEvents /\ events' = events + 1

-----------------------------------------------------------------------------
(* The handler threads                                                     *)

\* _handle: a browser connects ...
Connect(c) ==
    /\ Input /\ c \notin live \cup fresh
    /\ live' = live \cup {c} /\ fresh' = fresh \cup {c}
    /\ UNCHANGED <<house, newest, screen, memory, strips, trial, polling>>

\* ... and is gone: its thread ends, or a send to it fails.  A newcomer that
\* leaves stays among the newcomers.
Drop(c) ==
    /\ Input /\ c \in live
    /\ live' = live \ {c}
    /\ screen' = [screen EXCEPT ![c] = Blank]
    /\ UNCHANGED <<house, newest, fresh, memory, strips, trial, polling>>

-----------------------------------------------------------------------------
(* The engine.  What an observer callback broadcasts is part of the step   *)
(* that calls it.                                                          *)

\* on_state_change, on_terrarium_state_change, on_devices_change; the roles go
\* out with LOADED and IDLE.
Announce(h) ==
    screen' = Broadcast(Broadcast(Broadcast(Broadcast(screen,
                  "phase", h.phase), "active", h.room),
                  "roles", h.phase # "IDLE"), "devices", DevicesView(h))

Engined(h) ==
    /\ house' = h
    /\ UNCHANGED <<live, fresh, memory, strips, trial, polling>>

\* load_bit; the Console refuses it without a Room.
LoadBit ==
    /\ Input /\ house.phase = "IDLE" /\ house.room # Nothing
    /\ LET h == [house EXCEPT !.phase = "SETUP", !.status = 0]
       IN  Engined(h) /\ Announce(h)
    /\ UNCHANGED newest

\* run: those who validated get their roles, and then the devices are announced.
RunBit ==
    /\ Input /\ house.phase = "SETUP"
    /\ \E who \in SUBSET {d \in Player : house.devs[d] = "known"} :
          LET h == [house EXCEPT !.phase = "RUNNING", !.devs =
                       [d \in Player |-> IF d \in who THEN "seated" ELSE @[d]]]
          IN  Engined(h) /\ Announce(h)
    /\ UNCHANGED newest

\* _unload: every role is released.
Unseated(devs) == [d \in Player |-> IF devs[d] = "out" THEN "out" ELSE "known"]

EndBit ==
    /\ Input /\ Loaded
    /\ LET h == [house EXCEPT !.phase = "IDLE", !.devs = Unseated(@)]
       IN  Engined(h) /\ Announce(h)
    /\ UNCHANGED newest

\* Terrarium.load_room
LoadRoom(r) ==
    /\ Input /\ house.room = Nothing
    /\ LET h == [house EXCEPT !.room = r]
       IN  Engined(h) /\ Announce(h)
    /\ UNCHANGED newest

\* Terrarium.unload_room aborts the Bit and clears the device pool.
UnloadRoom ==
    /\ Input /\ house.room # Nothing
    /\ LET h == [house EXCEPT !.phase = "IDLE", !.room = Nothing,
                              !.devs = [d \in Player |-> "out"]]
       IN  Engined(h) /\ Announce(h)
    /\ newest' = NoFrames

\* A controller moves or a fixture is muted; Bit.status() changes its line.
Turn(what) ==
    /\ Input /\ (what = "status" => Loaded)
    /\ Engined([house EXCEPT ![what] = 1 - @])
    /\ UNCHANGED <<newest, screen>>

\* hello: a device walks up.  In a running round it is announced first and gets
\* its role of the jam afterwards.
WalkUp(d) ==
    /\ Input /\ ~polling /\ house.devs[d] = "out"
    /\ LET known == [house EXCEPT !.devs[d] = "known"]
       IN  /\ Engined(IF house.phase = "RUNNING"
                      THEN [house EXCEPT !.devs[d] = "jam"] ELSE known)
           /\ screen' = Broadcast(screen, "devices", DevicesView(known))
    /\ UNCHANGED newest

\* Faulty variant: the devices are announced before the pool is reaped.
ReapEarly(d) ==
    /\ Input /\ ~polling /\ house.devs[d] # "out"
    /\ Engined([house EXCEPT !.devs[d] = "out"])
    /\ screen' = Broadcast(screen, "devices", DevicesView(house))
    /\ UNCHANGED newest

\* reap_stale
Reap(d) ==
    /\ Input /\ ~polling /\ house.devs[d] # "out"
    /\ LET h == [house EXCEPT !.devs[d] = "out"]
       IN  Engined(h) /\ screen' = Broadcast(screen, "devices", DevicesView(h))
    /\ UNCHANGED newest

\* Faulty variant: one slot for the frame, whichever fixture's it is.
HeldAlone(p, f, n) == [g \in Fixture |-> IF g = f THEN n ELSE Nothing]

\* One slot for each fixture's frame.
Held(p, f, n) == [p EXCEPT ![f] = n]

\* on_room_frame: the agent rendered a frame of the Room that differs.
RoomFrame(f) ==
    /\ Input /\ ~polling /\ house.room # Nothing
    /\ pending' = Held(pending, f, events')
    /\ latest' = [latest EXCEPT ![f] = [n |-> events', room |-> house.room]]
    /\ newest' = [newest EXCEPT ![f] = events']
    /\ UNCHANGED <<house, live, fresh, screen, memory, due, trial, polling>>

-----------------------------------------------------------------------------
(* poll                                                                    *)

\* Faulty variant: whatever was rendered last is replayed.
OfAnyRoom(e) == e # Nothing

\* _same_room: rendered for the Room that is loaded now.
OfThisRoom(e) == e # Nothing /\ e.room = house.room

\* Replayed to a newcomer after its snapshot.
Replay == [f \in Fixture |-> IF OfThisRoom(latest[f]) THEN latest[f].n ELSE Nothing]

\* snapshot
Snapshot(c) ==
    [screen[c] EXCEPT
        !.met = TRUE, !.phase = house.phase, !.active = house.room, !.roles = Loaded,
        !.devices = DevicesView(house), !.room = RoomView(house),
        !.funs = FunctionsView(house), !.status = StatusView(house), !.strip = Replay]

\* The panels that are no longer as they were last sent.
Changed == {v \in {"room", "funs", "status"} :
               CASE v = "room" -> RoomView(house) # lastRoom
                 [] v = "funs" -> FunctionsView(house) # lastFuns
                 [] v = "status" -> StatusView(house) # lastStatus}

\* drain_new_clients, with a snapshot for each, the ones that left included.
PollBegin ==
    /\ ~polling /\ polling' = TRUE
    /\ fresh' = {}
    /\ screen' = [c \in Client |-> IF c \in fresh \cap live THEN Snapshot(c) ELSE screen[c]]
    /\ uneven' = uneven \cup (IF fresh = {} THEN {} ELSE Changed)
    /\ IF fresh = {} THEN UNCHANGED <<lastRoom, lastFuns, latest>>
       ELSE /\ lastRoom' = RoomView(house) /\ lastFuns' = FunctionsView(house)
            /\ latest' = [f \in Fixture |->
                             IF OfThisRoom(latest[f]) THEN latest[f] ELSE Nothing]
    /\ UNCHANGED <<house, newest, live, lastStatus, pending, due, trial, events>>

\* The bench commands, which come between the snapshots and the broadcasts.
Trial == Input /\ polling
         /\ UNCHANGED <<house, newest, live, fresh, screen, memory, strips, benchDue, polling>>

\* bench_start replaces the bench there is.
BenchStart == Trial /\ bench' = NewBench /\ benchHeld' = Nothing

BenchStop == Trial /\ bench # Nothing /\ bench' = Nothing /\ benchHeld' = Nothing

BenchCommand ==
    /\ Trial /\ bench # Nothing
    /\ bench' \in {BenchFire(bench, name) : name \in {"stop", "paint", "steps"}}
                  \cup {BenchLane(bench)}
    /\ UNCHANGED benchHeld

\* The bench's frame that waits: latest wins.
Waiting(held, picture) == IF picture = Nothing THEN held ELSE picture

\* Faulty variant: an unloaded Room is not sent.
CurrentRoomLoaded(scr) ==
    IF "room" \in Changed /\ house.room # Nothing
    THEN Broadcast(scr, "room", RoomView(house)) ELSE scr

\* _broadcast_room_if_changed, against what was sent last.
CurrentRoom(scr) ==
    IF "room" \in Changed THEN Broadcast(scr, "room", RoomView(house)) ELSE scr

\* _broadcast_functions_if_changed
CurrentFunctions(scr) ==
    IF "funs" \in Changed THEN Broadcast(scr, "funs", FunctionsView(house)) ELSE scr

\* _broadcast_status_if_changed
CurrentStatus(scr) ==
    IF "status" \in Changed THEN Broadcast(scr, "status", StatusView(house)) ELSE scr

\* _broadcast_room_frame: what is pending, at most so often.
CurrentFrames(scr) ==
    IF due > 0 THEN scr
    ELSE [c \in Client |->
            IF c \notin live THEN scr[c]
            ELSE [scr[c] EXCEPT !.strip = [f \in Fixture |->
                    IF pending[f] = Nothing THEN @[f] ELSE pending[f]]]]

\* _tick_bench: without clients the bench is closed; else it ticks, and the
\* frame that waits is broadcast at most so often.
TickBench(scr) ==
    IF bench = Nothing \/ live = {}
    THEN /\ bench' = Nothing
         /\ benchHeld' = IF bench = Nothing THEN benchHeld ELSE Nothing
         /\ benchDue' = IF benchDue = 0 THEN 0 ELSE benchDue - 1
         /\ screen' = scr
    ELSE LET tick == BenchTick(bench)
             held == Waiting(benchHeld, tick.frame)
             send == held # Nothing /\ benchDue = 0
         IN  /\ bench' = BenchElapse(tick.bench)
             /\ benchHeld' = IF send THEN Nothing ELSE held
             /\ benchDue' = IF send THEN Throttle - 1
                            ELSE IF benchDue = 0 THEN 0 ELSE benchDue - 1
             /\ screen' = IF send THEN Broadcast(scr, "bench", held) ELSE scr

\* The rest of the poll.  A client that connects among its broadcasts is a
\* newcomer of the next poll, and is told everything there.
PollEnd ==
    /\ polling /\ polling' = FALSE
    /\ TickBench(CurrentFunctions(CurrentFrames(CurrentRoom(CurrentStatus(screen)))))
    /\ lastStatus' = StatusView(house) /\ lastRoom' = RoomView(house)
    /\ lastFuns' = FunctionsView(house)
    /\ uneven' = uneven \ Changed
    /\ LET send == due = 0 /\ pending # NoFrames
       IN  /\ pending' = IF send THEN NoFrames ELSE pending
           /\ due' = IF send THEN Throttle - 1 ELSE IF due = 0 THEN 0 ELSE due - 1
    /\ UNCHANGED <<house, newest, live, fresh, latest, events>>

-----------------------------------------------------------------------------
Handlers == \E c \in Client : Connect(c) \/ Drop(c)
Household == \/ LoadBit \/ RunBit \/ EndBit \/ UnloadRoom
             \/ \E r \in Room : LoadRoom(r)
             \/ \E what \in {"look", "status"} : Turn(what)
             \/ \E d \in Player : WalkUp(d) \/ Reap(d)
             \/ \E f \in Fixture : RoomFrame(f)
Poll == PollBegin \/ PollEnd
PanelNext == Handlers \/ Household \/ BenchStart \/ BenchStop \/ BenchCommand \/ Poll
PanelSpec == (\E start \in Room \cup {Nothing} : PanelInit(start)) /\ [][PanelNext]_panelVars

-----------------------------------------------------------------------------
(* Properties                                                              *)

Watching == {c \in live : screen[c].met}

\* The variables have their types.
PanelTypeOK ==
    /\ house.phase \in {"IDLE", "SETUP", "RUNNING"}
    /\ house.room \in Room \cup {Nothing} /\ {house.look, house.status} \subseteq 0 .. 1
    /\ house.devs \in [Player -> {"out", "known", "seated", "jam"}]
    /\ live \subseteq Client /\ fresh \subseteq Client /\ DOMAIN screen = Client
    /\ DOMAIN pending = Fixture /\ DOMAIN latest = Fixture
    /\ {due, benchDue} \subseteq 0 .. Throttle /\ polling \in BOOLEAN
    /\ uneven \subseteq {"room", "funs", "status"} /\ events \in 0 .. MaxEvents

\* What the panels are told as it happens is never behind, not even between two
\* polls or within one: the Bit's phase, the Room that is active, the roles and
\* who is there.  The role a device gets as it walks up to a running round is
\* the exception; the next change of the devices brings it.  A panel that has
\* watched the bench shows what the bench shows, unless its newest frame waits.
ToldAtOnce ==
    \A c \in Watching :
        /\ screen[c].phase = house.phase /\ screen[c].active = house.room
        /\ screen[c].roles = Loaded
        /\ \A d \in Player : \/ screen[c].devices[d] = house.devs[d]
                             \/ house.devs[d] = "jam" /\ screen[c].devices[d] = "known"
        /\ bench # Nothing /\ bench.told # Nothing /\ benchHeld = Nothing
              => screen[c].bench \in {bench.told, Nothing}

\* After a poll every panel shows the Room, the functions and the status as they
\* are, whatever the commands of that poll changed and whoever joined.  Only
\* where a newcomer was told what the others were not, and no broadcast came
\* since, may some be behind: the snapshot counts as sent to everyone (Room and
\* functions), or to no one (status).
ScreensFollow ==
    [][polling /\ ~polling' =>
        \A c \in Watching' :
            /\ "status" \notin uneven' => screen'[c].status = StatusView(house)
            /\ "room" \notin uneven' => screen'[c].room = RoomView(house)
            /\ "funs" \notin uneven' => screen'[c].funs = FunctionsView(house)]_panelVars

\* A newcomer sees the newest frame of each fixture of the Room that is loaded,
\* and no frame of the Room before it.
NewcomersSeeTheRoom ==
    [][\A c \in Watching' \ Watching : \A f \in Fixture :
          /\ newest[f] # Nothing => screen'[c].strip[f] = newest[f]
          /\ house.room = Nothing => screen'[c].strip[f] = Nothing
          /\ screen'[c].strip[f] # Nothing => latest[f].room = house.room]_panelVars

\* Frames are dropped in favour of newer ones, never for good: a panel that
\* stays comes to show the newest frame of every fixture, and one that comes
\* shows it at once.
FramesArrive ==
    /\ NewcomersSeeTheRoom
    /\ \A c \in Client, f \in Fixture :
           []<>(c \notin live \/ newest[f] = Nothing \/ screen[c].strip[f] = newest[f])

=============================================================================
