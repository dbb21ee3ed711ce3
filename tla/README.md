# TLA+ verification of mm-terrarium

mm-terrarium runs interactive light and sound pieces ("Bits") in a physical
installation ("Room"). *Control* is one Python process. It talks over O2 to the
devices people carry (Tuneshrooms), to the Room's fixtures (real, simulated or
Art-Net), to an Arco audio server it spawns, to an operator's browser (the
Console) and to a remote broker (the uplink).

This directory holds TLA+ modules that follow the Python code handler by
handler, TLC configurations that check them on small installations, and TLAPS
proofs of what holds for every installation. `PROJECT.json` maps every
definition to the lines it models, and lists the hazards each property is for.

## 1. Inventory

| part | state it keeps | what is hard | modules |
|---|---|---|---|
| **GameServer** `control/engine.py`, `registration.py`, `device_pool.py` | lifecycle state, loaded Bit, `validated`, `assignments`, `_counts`, known devices, `muted` | devices validate, walk up, fall silent, come back and become fixtures in any order; two limits on one pool; loops that call out and must finish | `GameServer`, `RoleTable`, `Telling` |
| **Room binding registry** `room_binding.py` | armed fixture and deadline, recorded bindings | a window read twice; a fixture armed again | `GameServer` |
| **Terrarium** `terrarium.py`, `teardown.py` | Room state, active Room, teardown stack | failure, a signal or a crash between any two steps; a hub its clients must not outlive | `Terrarium`, `HubLife` |
| **Round server** `harness/terrarium_boot.py`, `prepare.py`, `start_condition.py` | the loops that hold and serve rounds | a round replaced under the hold | `RoundServer`, `RoundLog` |
| **DeviceLink agent, O2 transport** `devicelink/agent.py`, `o2_transport.py` | bridges, closing fades, bindings | a device that rejoins while its release still fades; bridges outliving roles | `DeviceLink` |
| **Surfaces** `agent.py`, `engine.py`, `cues.py` | overrides, flashes, mutes, deferred cues | one mute kept in two places under keys that move | `Surfaces` |
| **Lobby** `lobby.py`, `lobby_runtime.py` | invitations, ceremony slots, pulses, queued flashes | timers against joins and leaves | `Lobby` |
| **Beat link** `link_monitor.py`, `harness/beat_link.py` | sequence numbers, ages, epochs | loss, reordering, a restart on either side | `BeatLink`, `Link` |
| **Art-Net output** `artnet_sink.py`, `timed_queue.py` | queue of held frames, stop flag | a thread and a condition variable | `ArtNetSink`, `TimedQueue` |
| **Console** `console/agent.py`, `console/server.py`, `design_bench.py` | what each panel was sent | clients that come and go on a thread of their own | `Panel` |
| **Uplink** `uplink/` | journal, connection, backoff | lost connections, replay, a bounded journal | `Uplink`, `Outbox` |
| **Arco on a terminal** `arco_process.py`, `process.py` | the child, its terminal, the log, pyarco's connection | a thread that must read for as long as the child lives, and a child that ends at any time | `ArcoPty` |
| **Stack, run records** `harness/run_stack.py`, `run_record.py` | processes, record files | kills between two writes, reused process ids, several sweeps | `Stack`, `RunRecord` |
| **Audio, sequencer** `audio.py`, `sequencer.py`, `arco_synth.py`, `bits/deux_ara_drop` | channels, held notes, timed cues | a note left on, a channel returned dirty | `AudioBridge`, `Sequencer`, `Music` |
| **Judging** `bits/metronome` | beats, phrases, verdicts | three clocks and laps that stall | `Metronome` |
| **Functions, catalog, configuration** `functions.py`, `generator_runner.py`, `instrument.py`, `room_profile.py`, `bit_config.py`, `bit_registry.py`, `catalog.py`, `terrarium_config.py` | files and what was read of them | checks in several places that must agree with each other | `FunctionTable`, `Instruments`, `RoomProfile`, `BitShelf`, `Catalog` |

They interact by synchronous calls in one thread: the transport's inbox is
drained by `DeviceLinkAgent.poll`, which calls the GameServer's handlers; the
GameServer calls back through `on_grant`, `on_release` and observer methods; the
Console and the uplink queue commands that the same loop applies. The threads
are the Art-Net senders, the thread that drains Arco's terminal, the Console's and
uplink's socket threads and the O2 library's callbacks, which only queue.

## 2. Plan

Each component has a module; what a run needs of the components around it is
reduced to the order of calls they make, and where that order is itself worth
stating it is an abstract module (`Telling`, `HubLife`, `RoundLog`, `Outbox`)
that the detailed one is shown to implement. Small components that meet only in
the thread that calls them share a run, each in an installation of its own
(`Threads`, `Programme`).

Modelled, in this order: registration and rounds (`GameServer`); bridges and the
wire (`DeviceLink`); Room lifecycle (`Terrarium`); the round loops
(`RoundServer`); the uplink; the outputs and panels; the lobby; the stack; the
heartbeat; mutes and cues; music and judging; configuration.

Proved so far (section 6): registration, bridges, the Room's lifecycle, the round
loops, the uplink, Control's second threads, the stack and its sweeps, the lobby, the
mutes, the heartbeat, the design catalog, the judging of cycles, the Room's channels.
Left for later, the most useful first: Bits that raise
from their callbacks, in `GameServer`; the minigame and capture Bits; the browser front
ends and the offline contract tools, which keep no state of the running system.

## 3. Modules

A table gives, where it helps, the code that a variable stands for; the comments
at the declarations give it otherwise.

### RoleTable
The constants a loaded Bit brings: scored, unscored, solo and Room roles,
capacities, nodes, and which instruments fit which role. `RoleTableAssumption`
says what `RoleTable`, `room_role` and `solo_role` guarantee: the four kinds of
role are disjoint, a capacity is a number or unlimited, a node lists the Bit's
roles.

### GameServer
State and code side by side:

| variable | code |
|---|---|
| `state`, `round` | `GameServer.state`, `round_id` |
| `validated`, `assigned`, `counts` | `RegistrationState.validated`, `assignments`, `_counts` |
| `pool`, `silent`, `carried` | `DevicePool` entries, those `stale()` would return, their instruments |
| `room`, `bound` | `GameServer.room`, `Room.bound` |
| `armed` | the registry's armed fixture while its window is open |
| `roomNode` | the ROOM role `load_bit` merged into the table |
| `muted` | `GameServer.muted` |
| `told` | what `on_grant` and `on_release` have told the transport |
| `loop`, `todo`, `owed` | the program counter inside `run`, `load_bit` and `_unload` |
| `startedBy` | a history variable: who called `request_start` |

Control is one thread, so a handler is one action. `run` and `_unload` loop over
devices and call out for each, so they are loops here too: while `loop` is not
`"none"` no handler may start. `LoopStep` is the disjunction of the loops'
steps, `Handler` of everything that may begin.

Choices left open because the code leaves them to others: the order of set
iteration, the Bit's `admits` and `update`, `load_bit`'s many refusals, when a
window lapses, when a device falls silent.

`RoomHazards` names two accidents that a run may include or exclude: `"rearm"`
(the operator arms a fixture that has a device) and `"lapse"` (the window closes
between the engine's two reads of it). The theorems assume nothing of it.

Bounds: `MaxRounds` Bit loads in a behaviour; everything else is finite.

### Telling
What GameServer promises to whoever set its `on_grant` and `on_release`: roles
are told only in an open round, never one over another, and a round closes only
when every role's end has been told. Both modules below instantiate it with
their own `told`.

### DeviceLink
The agent, the transport and the devices. GameServer is reduced to what it does
to them: it grants, releases, reaps and binds fixtures in the order `Telling`
allows, to any devices.

| variable | code |
|---|---|
| `phase`, `told`, `fixtures`, `bound`, `pool`, `silent` | GameServer's state, assignments, Room bindings and pool |
| `bridge` | `DeviceLinkAgent.bridges` |
| `closing`, `revived` | `_closing` (render attempts of a fade) and `_closing_revived` |
| `conn` | `O2LiteTransport._devs` |
| `link`, `down` | a device's TCP link, and the messages on it, in order |
| `devRole`, `devReleased` | `ShroomClient.config`, `released` |
| `greeted`, `missed` | history: who was bound since its last release; who lost a message with its link |

The agent is one thread, so one handler or one device's render is one action,
together with the `on_grant` and `on_release` calls that GameServer makes inside
it. A device's message is handled at any moment, or, over UDP, never; only
messages to a device have a queue, because the order of `/role` and `/release`
matters. A closing fade ends when the light session says so, which may be at any
render, and at `MaxClosing` at the latest.

`Accidents` names what a run may include: `unbuilt` (a light session cannot be
built), `earlyStart` (a round starts before a released device is heard again),
`batch` (a device dispatches several messages in one poll), `linkLoss`, `rebind`
(a fixture is tapped again, or its window lapses between two reads).

Left out: the unloading of a Room (refused while clients are live); a restart of
Control and the heartbeat (`Link`), lobby lights (`Lobby`), mutes and cues
(`Surfaces`), Room audio (`Music`).

### HubLife
What the room-level code promises of a hub (an Arco) and its guests (Control's
connections to it): a guest connects to a hub that is up, a hub is taken down
only when no guest is left on it, and the next comes up only after that. A hub
may die by itself.

### Terrarium
`load_room` and `unload_room` run in one thread, but a failure or a signal may
stop them between any two steps, so each is a sequence of actions told apart by
`pc`; no command is taken while `pc` is not `"idle"`, because `load_room`'s wait
for a tap ticks the engine only.

| variable | code |
|---|---|
| `state`, `room`, `loading`, `hub` | `Terrarium.state`, `room`, `loading_room`, `arco` (the load it belongs to) |
| `gsRoom`, `bound`, `bit` | `GameServer.room`, its `bound`, whether `state` is not IDLE |
| `stack` | the steps on `room_stack`, as the children they stop |
| `alive` | the processes that run, each named by its load and its role |
| `simulated` | whether a `simulator_factory` was given |
| `pool`, `transport` | the hub the `ArcoSynthPool` and the `O2LiteTransport` are started against |
| `synced` | the hub pyarco has synced with (external: it syncs once per process) |
| `stopped`, `pending` | `clients_stopped`, `_RoomWiring._pending_rewire` |
| `wired`, `rewires` | the Room the agent was rewired for, and how often |
| `main`, `pc`, `caller` | where `main()`, and where a load or unload is, and who called it |

`Accidents` names what a run may include: `crash` (an Arco dies), `clients` (the
transport fails after the pool has synced), `signal` (SIGTERM or Ctrl-C in a
loop or a load), `settle` and `late` (the same inside `arco.start()`, and while
the Room is announced), `record` and `store` (a run record, or the recorded
bindings, cannot be written).

The harness passes a factory always and no binding store; embeddings and tests
do otherwise, so both are modelled. Left out: `recycle_room`, which only tests
call; the SETUP hold, which is in `RoundServer` (the serve loop here notices a
dead Arco at any time); and `stop_clients`, with the serve loop's return to
the wait for a Room: both operator surfaces refuse to unload a Room that is
served, and TLC found no behaviour in which either is reached.

### RoundLog
What a reader of Control's log is promised: each Bit that is loaded is announced as
loaded and, once it is over, as ended, under its name, once, in order.

### RoundServer
One iteration of a loop is the steps top, pump, tick and check. The drivers act in
the pump: Console, uplink and LAN commands, a guest's keyed start, devices that
join and leave. The loop finds out in the check what became of its round.

| variable | code |
|---|---|
| `engine`, `bit` | `GameServer.state`, `bit_name`, between handlers |
| `scored` | `scored_count` |
| `closing` | the polls until `DeviceLinkAgent.closing` is 0 |
| `at`, `pc` | the loop that runs (`_wait_for_load`, `_wait_in_setup`, `_serve_until_done`), and where in it |
| `held` | the name and the start condition captured when the hold begins |
| `elapsed` | `now - start` in the hold, in iterations |
| `acted` | a driver has had its turn in this pump |
| `serve` | `effective_serve` |
| `log` | the `round loaded:` and `round ended:` lines: how many, and the last |
| `arco`, `parent` | the Arco process and the parent process run |
| `rounds`, `age` | history: the Bits loaded so far; how long the loaded one has been in SETUP |

`Accidents` names what drivers may also do: `restart` (RESTART while the round is
held) and `batch` (several commands wait in one pump). Without them a pump brings
one command at most, as an operator's clicks do.

Bounds: `MaxScored` players, `MaxTime` iterations counted, `MaxRounds` loads,
`FadePolls` polls until the last release. A RESTART whose load is refused is an
`Abort`. Left out: the Room going down (it cannot under a round that is served, see
`Terrarium`), a start that raises, the countdown lines.

### Outbox, Uplink
`Outbox` is what the uplink promises about the report of a completed round: it is
kept unless an accident hits the very write or send that was to save it, and once
kept it stays until a send of it has returned on a real socket, or `Cap` later
rounds have completed.

`Uplink` has the connection's stages (`maintain_connection`: identity, resync,
replay, clear), the backoff, and the observer of the engine's state changes, each a
step of one thread that a failure may end: a refused connect, a peer that goes away
between two frames (a send may still return, or raise), a disk that fails before or
inside a write, a process that dies anywhere. The journal file is kept line by line,
a torn last line included, because `_read` skips what does not parse and an append
behind a torn line is lost with it. Both transports are modelled: a socket, and the
logging one that is not durable and whose sends clear nothing. `Cap`, the backoffs
and `MaxRounds`, `MaxLoads`, `MaxFaults` are bounds.

### TimedQueue
Payloads in release order, each with the time it still waits. `Push` puts one behind
all that wait no longer, which is what the sequence number does in the code. `Purge`
names the payloads to drop where the code takes a predicate.

### ArtNetSink
The one thread of the render path. Each `with self._cond` block of the sender, and
each call of `send_frame` and `close`, is a step; `Condition.notify` is lost when
nobody waits. `Tick` is one unit of time; nothing bounds how many steps fit in it.
`_service_once` sets `_last` and `_last_sent_at` after the send; the model sets them
before, since the sender alone reads them. `Accidents`: a datagram is lost, a send
raises, a cue's frame is due before an earlier one (`"gesture"`).

### Panel
`Panel` is what the operators' browsers were told. A connection's thread adds and
drops clients at any time; the tick thread changes the engine and pushes some changes
as they happen, and its poll snapshots the newcomers, runs the commands and
broadcasts what differs from what it remembers. `house` is what there is to know,
`screen[c]` what client `c` was sent, and the `last...` variables the agent's
memory of its broadcasts. The design bench behind it is a record, and its methods are
operators on it.
Bounds: `MaxEvents` inputs; `PollEnd` (the comparisons and broadcasts of a poll) is
one step, since only the tick thread runs between them and a client that comes
meanwhile is a newcomer of the next poll.

### ArcoPty
`arco` is the child, `pty` what it wrote and nobody has read, `reader` the drain thread
(with `taken` between its read and its record), `tape` the log, and `boot` where the
booting thread is: `pty_popen`, the laps of `wait_ready` with the phases of a probe,
`stop_process`, `close`. Arco and pyarco are external: Arco writes, resets when it is
asked to and exits whenever it likes, and does nothing else while its terminal is full.
Time is two counters, what is left of `ready_timeout` (`budget`) and of the present wait
(`span`). `MaxSaid` bounds what Arco writes. One Arco per process: what a second one
meets is `Terrarium`'s matter. The terminal is Linux's; on macOS the last unread bytes
may go with the child (`arco_process.py:225`).

### Threads
One run for Control's second threads, in separate installations: `"wires"` runs
`ArtNetSink`, `"panels"` runs `Panel`, `"console"` runs `ArcoPty`.

### Lobby
`where` is the engine's registration, reduced to its outcomes; the rest is the
runtime's own: `status` (the pulse of each device and how long it stays dark),
`queue`, `invite`, `free` (when the next ceremony may begin), and what is painted on
the device (`paint` over `base`). One `Poll` is one flash. `MaxQueue` bounds the
cues that wait, `MaxReds` the denials.

### BeatLink, Link
`BeatLink` is the device's end, as functions from a state and an input to the next
state; Control's end (`LinkMonitor` in the code) is `OnBeat` and `Loss` of `Link`,
which runs the two over a wire: beats and replies go by UDP
(lost, doubled, late), hellos and roles by TCP (they live as long as the
connection). Control restarts with a new epoch, reaps a silent device, and the device
may be suspended. Each end runs once a second. `MaxTrouble` bounds the accidents,
`MaxEpoch` the restarts; `SeqWrap` and `LossWindow` are small so that both wrap. What a lap or a
poll makes of the messages that arrive in it is a function of how many it has handled
(`HeardAll`, `HandledAll`).

### RunRecord, Stack
`RunRecord` is one `runs/<run-id>/procs.jsonl` per run, and the sweep, process by
process and file by file; `Stack` has the runner, Control, the simulator, the devices
and Arco of `NRuns` runs in one checkout, started by a runner or by hand, with two
runs allowed to have the same directory (run ids have one-second resolution). A
process may be killed at any moment; its process id may go to a stranger (`"reuse"`),
a `kill` may be refused (`"denied"`), and the operator may press Ctrl-C again
(`"again"`); together at most `MaxKills` of them. Each child watches for its parent's
end, except Arco. `Supervisor(f)` is the place of a file's first supervisor record, as a
set of at most one: `_live_supervisor` looks at no other.

### Surfaces
The engine's `muted` and the agent's `_muted` with its blackout, each under a key
computed from the bindings of the moment; overrides, accept flashes, the second steps
of scripts that wait in `_pending_light`, binds, rebinds, reaping, rounds and Rooms.
Registration appears as choices. The sinks of the agent are functions of its record
(`Darken`, `Lift`, `Paint`, `Flash`, `Defer`, `AcceptFlashes`, `Drain`), each at a set of
keys at once: what a fire does to one surface never depends on what it did to another.
`forgotten`, `estranged` and `stirred` are history, each naming an exception that the
code really has (section 5).

### AudioBridge, Sequencer, Music
`AudioBridge` is the fixture's bridge and the channels of the shared synthesizer
behind it, down to what each channel holds: keys down, keys a pedal holds, the pedal,
the volume. `Sequencer` gives `start`, `stop`, `advance` and its cues. `Music`
composes them with `DeuxAraDropBit` (taps, double taps, tilts that arrive late), the
agent's `_room_cues`, the lobby's bell, Stop, and the swap of the Room's sound for
the Bit's and back. One tick is one step of the grid. Bounds: `MaxNow` ticks,
`MaxInputs` inputs. The bells are a set, since each has a channel of its own; a grant
(`Fill`), what becomes due (`Sounded`), what is queued (`Queued`) and what a tick sends
(`Emitted`) are recursive functions over the parts, payloads and tracks, in the code's
order. `ScoreAssumption` and `MusicAssumption` say what a score is (a loop is at least
one step long), that `ORDER` lists loops and that the double tap plays a one-shot.

### Metronome
`MetronomeBit` from `on_run_start` to the end. Beats are emitted `Ahead` of their
time, a cycle is judged `Slack` after its last beat, and a tap carries the time it was
made at but arrives up to `Late` later. Laps may stall (`MaxStalls`).
`TimingAssumption` is what the Bit takes for granted of its numbers, and the shipped
ones keep to it (beats of 600 ms, eight to a cycle, 50 ms of tolerance and of slack): a
tap travels within the slack, the windows of two beats lie apart, the first beat lies
in the future, and the stalls of a run add up to less than a cycle. A `[rhythm]` table
that breaks it is accepted (`control/bit_config.py:353` asks for numbers and no more).

### Programme
One run for the two Bits: the loaded one is `"music"` or `"metronome"`.

### FunctionTable, Instruments, RoomProfile, BitShelf, Catalog
The validators, as predicates that accept a value, refuse it with a message, or raise
something else: the three outcomes differ for whoever calls them. Each extends the one
before it, as the Python modules import each other. `Catalog` is the state machine:
files on the disk, what Control read of them at boot, the Console's save, clone and
publish, the Room that is up and the Bit that is loaded. A name, a description or a
waveform appears only as sound or not; a file that is not TOML, or that holds a value
of an unchecked type, by its shape. Python's `sorted` is said by ranks: `Spans` puts a
run at the place that as many runs come before (`ComesBefore`). What two nested loops
go through is a set of places `<<i, j>>` in their order (`Earlier`), and what the code
meets first is the first of them (`FirstOf`): the package a name is taken from, the
output that writes a lane, the owner of a lane's edge. Inputs are the files,
texts and packages listed in `MCCatalog`; `MaxEdits` bounds the commands.

## 4. Runs

| run | shows | bounds |
|---|---|---|
| `game` | the counters cover who holds a role and never pass its places; an unstarted round has no player; a seat is lost only to the reaper, a bind or the end; the transport is told in order | 3 devices (one an admin), 2 instruments, roles of one and of two places, one fixture, both Room hazards, 2 rounds |
| `devices` | a fade that ends never drops a connection that was renewed; a lit device can be reached; the last word about a role arrives | 2 devices, fades of 2 renders, 2 messages under way, links lost, fixtures re-tapped, sessions that cannot be built |
| `room_lifecycle` | no child is orphaned, a Room stands as a whole or not at all, no client outlives its hub; a load ends whatever goes wrong | 3 loads; a process that is spared the rarer accidents, and one that meets any |
| `rounds` | every round is announced as loaded and as ended, once, in order; the timer starts a Bit only as its manifest says | 3 Bits, 3 rounds, windows and timeouts of up to 3 iterations, serve and one-shot mode |
| `uplink` | a report is kept until it is handed over and is in the end; whoever listens has a current picture of the box | 3 rounds over a journal of 2, 2 loads, 2 accidents of any kind |
| `threads` | no due frame is slept through, the newest is shown, dark is last; panels show what is so; what Arco says is logged once, whole and in order, and Arco never starves on its terminal; a ready Arco has reset | 5 frames, 2 faults; 2 browsers, 2 Rooms, 2 fixtures, 4 inputs; 5 chunks over a terminal of 2, timeouts of up to 3 |
| `lobby` | a pulse is true of the device it is shown on, white means invited, a validation is celebrated | 2 devices, Bits of one and of two scored slots, 5 queued cues |
| `stack` | a sweep finds what a dead run left and touches nothing else; whatever ends a run takes the rest down | 2 runs, 1 kill, refused signals, reused process ids, a second Ctrl-C |
| `link` | no role of an earlier Control survives hearing the new one; no loss is blamed on a whole wire; a device that can be heard is linked again | 1 device, 2 Controls one after the other, 2 accidents, sequence numbers that wrap at 4 |
| `surfaces` | the engine's mute and the agent's blackout stay one; a muted surface is dark | 2 devices, 1 fixture, 2 waiting cues |
| `music` | what sounds is what the scores say and Stop is silence; channels go back clean; a cycle is judged by what was played and its player is shown its beats | 8 ticks and 5 inputs over 4 channels; 3 cycles of 4 beats, 3 taps, 1 stall |
| `catalog` | the next boot accepts what the Console let through; every pixel and lane is driven once | 2 instruments, 2 rooms, 4 configuration texts, 3 commands |

**Why these sizes.** `game`: roles of one and of two places are the smallest with
which a place is the last one, and is not; with three devices one holds a slot, one
wants it and one does something else. `devices`: two are the fewest of which one can
displace the other; two messages under way hold a `/release` and the next `/role`.
`room_lifecycle` and `rounds`: three are one that fails or ends, one that succeeds or
replaces it, and one that finds what the others left. `uplink`: three rounds overrun a
journal of two, and two accidents are the second that hits the recovery from the
first. `threads`: five frames let two wait, one be on its way and one be repeated; of
two browsers one comes late; Arco fills its terminal before it can be found, and three
units are a connection, a reset that times out and another. `stack`: the second run is the one that must be spared, or
that sweeps while the first comes down. `link`: with two epochs a device can hold
the role of a Control that is gone. `music`: a loop of the score, its repetition and a one-shot
fit in eight ticks. `lobby`: with two slots both devices celebrate, with one the lobby is full and the other
is no longer invited. `catalog`: one command breaks, the second builds on it, the third
publishes.

**Type invariants.** The `TypeOK` of every module holds on its run's instance. For
`GameServer`, `DeviceLink`, `Terrarium`, `RoundServer`, `Uplink`, `ArtNetSink`, `ArcoPty`,
`Panel`, `Stack`, `Lobby`, `Surfaces`, `Link` and `Catalog` it is proved (section 6), so no run
repeats it.

**Fairness.** `game`, `devices`, `rounds`, `surfaces`, `music` and `catalog` check
safety and assume none. Elsewhere it is what one thread's loop gives, and nothing that
depends on a person, a device or a network is fair:

* `room_lifecycle`: `LoadStep`, `UnloadStep` and `HarnessStep`: the thread goes on with
  what it has begun. A wait for a tap ends at its deadline, so `WaitTimeout` belongs to
  `LoadStep`.
* `uplink`: the loop pumps the link, time passes, and a broken socket is noticed
  (`Notice`). Accidents are bounded, so a peer that can be reached is reached in the
  end; `ReportsArrive` says what follows.
* `threads`: both threads of the sink run and time passes; the tick thread polls.
* `lobby`: the agent polls.
* `stack`: each process does its next step, and a child that was signalled exits,
  except Arco (`Slow`), which may need the SIGKILL.
* `link`: each end takes its lap, again and again.

**Deadlock** is checked in `game` and `devices`. The other instances end: their
processes go down, or the bounds on rounds, commands, time or accidents are reached.

**Mutants.** Each property comes with a faulty variant of a definition (commented
"Faulty variant" in the modules, or `MC...`), the way the code could plausibly be wrong,
under which TLC finds the property violated.

## 5. Where code and documents part

None of these is an expected violation of a run. Each was met while modelling, and
most were seen by adding an accident to a run or by stating what the document says.
Where a property has an exception for one of them, the exception is named at its
definition.

**GameServer.** `_bind_room` (`engine.py:802`) overwrites `room.bound[fixture]` and
leaves the displaced device its ROOM assignment; it may then validate a scored slot,
and `run` overwrites the assignment without returning its count. The comment at
`engine.py:677` says this cannot happen. `CountsCover` is therefore an inequality.

**DeviceLink.** `_finish_release` (`agent.py:1791`) drops the connection of a device
that was quiet during its fade and is still pooled; a round that starts before its
next hello sends its `/role` to nobody, against `docs/device-contract-guide.md:239`
(accident `"earlyStart"`). `reset_for_lobby`, run after the poll that brought
`/release`, wipes a `/role` that came in the same poll (`shroom_client.py:313`,
`"batch"`). By rule 9 of the guide (line 244) a `/handshake` ends a role that is still
held; `shroom_client.py:244` leaves it.

**Terrarium.**
* An interrupt in an observer of ROOM_READY (`terrarium.py:379`, `"late"`) makes
  `load_room` stop Arco under clients that have just started, and leaves
  `clients_stopped` FALSE, so the next Room is served by clients of the dead hub;
  `terrarium_boot.py:499`: "no client outlives the hub it is a guest on".
* `load_room` catches `BaseException`, so a SIGTERM or Ctrl-C during an operator's load
  is an unexplained load failure and the process carries on; `signals.py:60` wants
  `kill` to clean up as Ctrl-C does.
* `"settle"`: Control sleeps inside `arco.start()` (`terrarium_boot.py:301`) before the
  push of the step that stops Arco; a signal there orphans it. `"record"`:
  `SimulatorProcess.start` writes its run record between spawn and push
  (`terrarium_boot.py:145`); `terrarium.py:79` calls an orphaned simulator "impossible
  by construction". `"store"`: bindings that cannot be saved (`terrarium.py:409`) leave
  ROOM_UNLOADING for good. `"clients"`: a client restart may fail after pyarco has
  synced (`terrarium_boot.py:1405`), the case `terrarium.py:49` wants refused.

**RoundServer.** `_wait_in_setup` (`terrarium_boot.py:640`) gives every condition but
"admin" the deadline of the SETUP window, and without one it is over before the
condition is looked at: a Bit that waits for an operator (`bits/capture/bit.toml`)
starts at once, against the docstring at line 611. A RESTART in the hold announces
neither the old round's end nor the new one, and keeps the old window (`"restart"`);
an Abort and a LoadBit in one poll announce the end under the wrong name (`"batch"`,
`terrarium_boot.py:903`).

**Uplink.** `on_state_change` sends `state_changed` before it journals the completed
round (`link.py:229`); when that send raises the round is neither journaled nor
reported, against `link.py:48`, "bit_completed is appended before any send"
(`Outbox!Miss`). A replay that breaks off half-way has already reset the backoff
(`link.py:92`). The journal's rewrite at its cap is not crash-atomic (`journal.py:45`),
and a torn line swallows the next one.

**Link.** A device away during a restart of Control comes back with a hello by TCP and
a beat by UDP; in a running round the hello makes it a walk-up, and the beat's reply
with the new epoch then makes it drop the role it was just given (`beat_link.py:159`),
and no other follows while Control counts it in. A device suspended past the reaper's
time wakes LINKED, its beats are answered although it is unknown (`agent.py:1419`), and
it never says hello. A `/role` lost in a short break is not sent again. A late beat of
the old link after beat 0 keeps the old loss window.

**Art-Net.** With `"gesture"`, frames become due out of the order they were rendered
in, and `ShowsTheLatest` fails: an older frame, due later, is shown over a newer one,
against "The newest due frame wins" (`artnet_sink.py:6`). `NoFrameIsSleptThrough` and
`TheDarkFrameIsLast` hold all the same.

**Arco.** A reset that an early probe gave up on may be answered during a later one's
(`arco_process.py:98`): `wait_ready` then returns while the second reset is still on
its way, and its `/host/clear` comes after, against the comment that it "only runs
inside wait_ready" (line 95). A log write that fails ends the drain thread, which tries
only its read (line 347), and a starved Arco hangs (`torn`); the same failure in the
last sweep leaves the descriptor and the log open. `process.py:13` says that the
terminal is drained inside `poll()`; it is drained by a thread. `pty_popen` changes
directory outside the child's `try` (line 234), so a `cwd` that is missing raises in
a forked copy of Control.

**Panel.** A snapshot for a newcomer sets the memory of what was broadcast
(`agent.py:749`), so a change since the last poll never reaches the panels that were
there (`uneven`). A walk-up's devices are announced before its role is assigned
(`engine.py:326`). A frame that waits for its throttle has no Room
(`_pending_room_frames`). "stop" does not purge the bench's queue, and the bench has no
frame for a panel that connects later.

**Lobby.** White and red flashes of one device may interleave
(`lobby_runtime.py:255` says never): a denial purges the white flashes that wait but not
the invitation that follows it. The ceremony's green flashes of a reaped device go on
when it comes back.

**Stack.** Run ids have one-second resolution (`terrarium_boot.py:1802`) and only the
first supervisor record of a file is consulted (`run_record.py:169`), so of two runs
started in one second a sweep may stop the live one; `run_record.py:204` wants a live
run "skipped ENTIRELY". A kill between spawn and record leaves an Arco that no sweep
finds; a torn line in a record makes every later sweep raise. The runner gives Control
the five seconds that Control gives each child.

**Surfaces.** Reaping a muted device takes its blackout but leaves the latch
(`agent.py:933`); a cue queued for a player that then binds drains into the muted
fixture (`agent.py:1849`); unloading a Room leaves the engine's latches when the agent
drops its own (`agent.py:796`, `engine.py:1450`). Accept flashes survive the purge. With two fixtures
the latch so left also costs a mute that is not its own: a device muted before the Room
went, bound by the fast path to one fixture and then by hand to a second, has `Move`
lift the first fixture's blackout, whose mute the engine keeps, although the docstring
of `_clear_mutes` (`engine.py:1449`) takes `muted` to be empty when a Room loads. TLC
finds it with one device and two fixtures; `estranged` names both, and what remains is
proved (section 6). Both operator surfaces refuse to unload a Room that is served
(`unload_room_refusal`), so only an embedding gets there.

**Music.** A Stop while the Bit is ducked resets the volume to full (`audio.py:42`).
`play_note` on an exhausted pool raises out of the poll. The drone that starts at
RUNNING is not gated on the mute (`agent.py:1704`). `MetronomeBit` with one player: the
recovery of a failed cycle is skipped, since the next downbeat is emitted before the
cycle is judged (`CyclesAreFair` speaks of two players or more).

**Catalog.** `StaysBootable` exempts commands that Control does not check (`exposed`).
An instrument republished with another pixel count leaves Rooms that were checked
against the one loaded at boot, and the next boot refuses them (`console/agent.py:501`).
A draft of a wrong type makes `save_draft` raise after it wrote the file, which ends
the Console's poll and every later boot, against `catalog.py:3`. Publishing is not
checked against inline entries, Art-Net outputs or power supplies. `config.version`
covers `terrarium.toml` only. `BitRegistry.scan` raises on some manifests its docstring
says it skips; a disabled package hides a later one of its name. At a boundary two
functions share, `collect_stream_cues` takes the first declared where the documents say
the lower.

## 6. Proofs

**GameServer.** `tlapm` proves, from `RoleTableAssumption` and `GameServerAssumption` alone
(finitely many devices and fixtures, `None` is none of them):

* `TypeCorrect`: the type invariant.
* `CountersCoverHolders`, `CapacityNeverExceeded`: no role has more holders than places.
  The invariant on holders is not inductive, because the code compares a counter and
  not the holders. `CountsCover` says the counters are at least the holders and at most
  the capacity; equality would be false when a fixture is armed again, and the
  inequality survives because `run` can only lose a holder. The induction rests on
  `HeldAfter` (what changing one device does to the number of holders).
* `LifecycleDecidesHolds`: what may be held in each state; `SeatsAreKept`, the
  action property on seats, follows from it.
* `TransportAgrees` and `NoRoleIsSwapped`: from `TellingFollowsLoop`, which says
  for each loop which devices have still to be told what.
* `TellsInOrder`: GameServer implements `Telling`, with an open round read as
  RUNNING to UNLOADING. Every step maps to a step of `Telling` or to a stutter;
  closing needs `ToldRoles` and `ClosedMeansNone`, both from the invariants above.
* `TheLobbyIsHonest`: that there is a place left while the lobby waits compares a
  number of reservations with a sum of capacities. Both are cardinalities of sets of
  places (`Places`), and `PlacesAreReserved` gives each counted place a device of its
  own; `FullTakesAll` says that full roles leave none. That a started round seats its
  minimum follows one round's holders through the start (`NextSeats`).

**DeviceLink.** From `DeviceLinkAssumption` alone (a role is not `None`; the two
bounds are positive), for any number of devices, roles, renders and messages:

* `TypeCorrect`.
* `MarksEndWithFades`, `NoBridgeWithoutRole`: with every accident. Neither is
  inductive alone: that no bridge is left when a round closes needs that roles
  are held only in a round (`RolesOnlyInRound`), and the marks and the bridges
  lean on each other. `AgentAgrees` is the conjunction. `OnGrantAgrees` and
  `OnReleaseAgrees` say once what a grant and a release of any set of devices do.
* `ReturningDevicesStayConnected`: with every accident. The strengthening,
  `GreetedAreMarked`, says that whoever was heard while fading is marked: it is
  what `_closing_revived` is for.
* `EveryPlayerIsLit`, if sessions can be built (`"unbuilt" \notin Accidents`), and
  `PlayersStayReachable`, if no round starts early.
* `WhatIsToldIsHeard`, if no round starts early and no device dispatches two messages
  in one poll (both exceptions are the code's, section 5). `WordsArrive` reads a stream
  by its last word (`LastWord`, `Mute`): whatever is on its way, a device will come to
  believe what the server holds of it, unless it has just lost the word with its link,
  and then a hello is due. `WordAppended`, `OtherAppended` and `HeadRead` say what a
  send and a receipt do to a last word.
* `TellsInOrder`: the reduced GameServer of this module keeps to `Telling`, which
  the full one implements; so what is shown here is shown of an agent under an
  order of calls that the real one makes.

**Terrarium.** From `TerrariumAssumption` alone (no fixture is called `ArcoName`, the
model's name for Arco among the children of a load), for any Rooms, fixtures and number
of loads, with and without simulators:

* `TypeCorrect`, with every accident; `LoadKnowsItsRoom` says that a running
  `load_room` has a Room, a caller and, past its checks, an Arco of its own.
* `NothingIsOrphaned`, unless a step between a spawn and its push can raise, or
  the save of the bindings can (`CleanSpawns`). `Accounted` (what runs is on the
  stack) rests on `PushAccounts` and `PopAccounts`; that nothing runs once the
  process is down needs `StackFollowsState`, which says where the stack is empty.
* `EveryRoomIsServedOnce`, unless an announcement is interrupted (`"late"`). Three
  places restart the clients, before or after the Room is announced;
  `RoomService` says for each point of `main()` whether the clients are up and
  wired (`Live`), down with a wiring due, or down, and `RestartOutcome` and
  `WireOutcome` what a restart and an announcement make of that.
* `ArcoIsNeverStranded`, unless also a client can fail after pyarco has synced:
  `SyncFollowsClients` says which hub pyarco has synced with at each of those points.

Run `room_lifecycle` starts spared processes beside exposed ones, and states its
properties of the spared. The last three theorems are these properties, for a
process that is spared all but what each names:

* `NoChildIsLeftBehind` (`SparedOrphans`).
* `RoomStandsWhole` (`SparedWhole`), if only crashes and signals come: it takes the
  three invariants above and `RoomIsWhole`, which says how far a load has come by where
  it is (`BuiltAsFarAs`) and what stands between operations (`StandsWhole`).
* `ClientsKeepToHub` (`SparedHub`): a spared process implements `HubLife`. That no hub
  goes down under a guest needs `GuestsFollowRoom`, where clients may be up at all.

**RoundServer.** From `RoundServerAssumption` alone, for any Bits and manifests, any
number of rounds, players, polls and iterations:

* `TypeCorrect`, with every accident; `LoopKnowsItsRound` adds that a hold and a serve
  have a round, and that the next one is announced only if there is one.
* `RoundsAreTold`: when no accident is included, the lines implement `RoundLog`.
  Each loop may take something for granted (`WaitKnows`, `HoldKnows`, `ServeKnows`):
  when it waits, nothing is owed but the load it has not seen; when it holds or
  serves, its round is announced, and at most one came after it. `LogFollows` turns
  that into the count and the last line, and `RoundInv` is the conjunction.
* `TimersKeepTheirWord`, if also no Bit waits for an operator, and one that waits for
  players gives up within its window (`DeadlineComesLast`): `ClockAgrees` says that
  the hold's clock is that of the loaded Bit, and has not passed its timeout.

**Uplink.** From `UplinkAssumption` alone, for any Rooms, cap, backoff and transport, and
any number of rounds, loads and accidents of every kind:

* `TypeCorrect`.
* `PictureStaysCurrent`: `Informed` says that a peer which read everything so far knows
  the engine's state and the Room, from the replay on; `OneThread`, that nothing else
  goes on while a connection is made, is what makes it inductive.
* `UplinkIsAnOutbox`: every step is one of `Outbox` or a stutter. `JournalKept` is the
  invariant it needs: a line of the file is as many rounds old as there are lines after
  it, or older, so that a line the cap drops is outdated; what a replay has passed is
  handed over; and a completed round is accounted for before the next completes.

**Stack** (`HarnessProofs`). For any number of runs, devices and kills. The hypotheses are that no two
runs start in the same second (`OneFileEach`: with two, section 5 says what goes
wrong) and that `ps` answers.

* `StackIsTyped`: `StackIInv`, types included. A run's file begins with its Control and
  names only its own processes (`FileOK`), and a file that is gone through is a dead
  run's (`SweepOK`). A sweep reads the liveness of a run once and signals its processes
  many steps later; what closes the gap is `Careful`, which every step of every process
  keeps of every run: a dead run stays dead and starts nothing, its file is left alone
  or removed, strangers stay strangers, and no one becomes one while a sweep stops it.
* `SparesOthers`, the action property, follows from both.
* `SweepsClear`, if also nothing is killed between a spawn and its record, and nothing
  is stuck in the kernel. `ClearInv` adds that what runs is recorded (`Recording`), and
  follows what a sweep owes: a leftover is in a file yet to be opened, or among the
  records yet to come in this one (`CoversOwed`), and a file that will be removed has
  nothing running behind the sweep's place in it (`CoversFile`), which is what other
  sweeps of the same file rely on.

**Link** (`HarnessProofs`). From `BeatLinkAssumption` and `LinkAssumption` alone, for any
number of restarts and accidents, any `LossWindow`, `SeqWrap` and `Grace`:

* A lap and a poll handle all that has arrived, one by one. `CountedUp` is induction up
  to a number, by the least counterexample in a set, and gives that the function of
  the steps exists (`Steps`) and that what every step keeps, they all keep
  (`HeardStepwise`, `HandledStepwise`). `Placed` and `Picked` say which messages arrive,
  and in which order.
* `LinkIsTyped`.
* `RolesAreThisEpochs`: `RoleOfThisEpoch` is not inductive: a role goes by TCP, the reply
  that has the device drop it by UDP. `LinkInv` adds `RolesInOrder`: the roles under way
  are in the order of their Controls (`RolesFirst`), and none of an earlier one
  follows the first word of the present one.
* `NoLossIsBlamed`: `InTurn` says that, while the link is clean, the numbers
  Control keeps have no gap (`Gapless`), and the beats under way continue them
  (`Numbered`, `Comes`), wrap included, as does the device's next.

**Control's threads** (`ControlProofs`). `InstallationsKeepAll` says that what follows of
each component holds in the installations that run `threads` checks.

*ArtNetSink.* From `SinkAssumption` alone, for any horizon, latency, keepalive and
patience, any number of frames and faults, and with every accident, frames due out of
order included:

* `TypeCorrect`. That a queue stays a queue rests on `DueByIsWithin` (a count of payloads
  due is a position in the queue), and on one lemma for each of push, due and time.
* `NoFrameIsSleptThrough`: `WakesInTime` is inductive with the types. A push either
  comes before the sender's second look at the queue, which `SettleKeeps` shows to be
  enough, or notifies a sender that waits; time takes as much from a sleep as from the
  frame it is for (`TickKeeps`).
* `TheDarkFrameIsLast`: a thread that was joined is gone (`GoneWhenDark`), and only the
  sender sends.

*ArcoPty.* From `ArcoPtyAssumption` alone, for every size of the terminal and every
timeout:

* `ReadyArcoHasReset`. `ReadyIsTrue` is not inductive; `ProbesKept` adds why it
  holds: only an Arco that has reset replies, only a reply sets `zero`, and the waits of a
  probe begin within the time that is left, all but pyarco's own.
* `ConsoleIsHeard`: `HeardInv` says that the log, what the drain thread holds, and what
  is on the terminal are together what Arco said, in this order, unless the log is torn;
  and where each thread may be when the terminal is closed (`ThreadsAgree`).

*Panel.* From `PanelAssumption` alone, for any number of browsers, devices, fixtures and
Rooms:

* `PanelsAreToldAtOnce`: `PagesAgree` and `BenchAgrees` compare every screen with the
  house field by field.
* `PanelsFollow`: `MemoryAgrees` says that a panel shows what the agent remembers of its
  last broadcast, but for the fields a newcomer's snapshot set apart (`uneven`), so a
  poll that compares with its memory does not miss one.
* `NewcomersAreShown`: `FramesAgree` says that the frame kept for a newcomer is the
  newest of its fixture, and of the Room that is up.

**Catalog** (`ControlProofs`). From `CatalogAssumption` and `RoomProfileAssumption` alone (a
list is a list and a position a whole number, `None` is no file, a block and a universe hold
at least one pixel), for any names, files and texts of `terrarium.toml`, any Bits, blocks and universes of any
size, and any number of commands:

* `CatalogTypes`.
* `DiskStaysBootable`: `StaysBootable` is not inductive, for a publish is checked
  against what Control read at boot and not against the disk. `BootInv` adds
  `ConfigLasts`: an instrument Control read is still published or inline, an inline one
  is as it was. A room is accepted fixture by fixture (`RoomByFixture`), so it still is
  when each instrument it binds is as in some reading that accepted it
  (`StaysAccepted`): the published room is accepted with what Control read, and other
  rooms with the published instrument. The Art-Net outputs depend on names and blocks
  only, which no instrument changes (`SameSurface`, `WiresStay`).
* `RoomsReadAreWhole`: `SurfacesAreWhole` says of every pixel what the code asks of
  neighbours in a sorted list. `RankTaken` shows that a list can be sorted (each place is
  the rank of one), `SortedApart` and `SortedTiles` that sorted neighbours are enough, and
  `CountIsSurface` that the blocks' counts add up to the surface, by induction over the
  blocks (`CountedUp`). `LastCarries` is the arithmetic of rounding up to whole universes.
* `LanesAreWrittenOnce`: `LanesWrittenOnce`, from `GestureAssumption` (a stream's bounds and
  a gesture's args are whole numbers, `None` is none). `BitFits` carries what the loaded Bit
  was accepted for until it is unloaded: the Room it was checked against is still the one
  that is up, and its table came from a package root (`ShelfFromRoots`). That one tick
  writes no lane twice is then what the check of resolved lanes refuses (`TicksWriteOnce`).
  A gesture writes each lane it reaches: a number that no domain takes and that is in no
  gap is beyond the whole hull, whose edges each have an owner because a table is finite
  (`LowestOf`, `OwnersAre`, `SomeOneOwns`); and the first outlet that it lands on is one
  (`FirstIs`). Neither needs the streams' domains not to overlap. Two streams of one lane
  may read different numbers, which the validation allows: the hull then belongs to
  neither, a lane may stay unwritten, and the property promises only that it is written
  at most once.

**Lobby** (`LightProofs`). From `LobbyAssumption` alone, for any number of devices and
slots, every timing of flashes and ceremonies, and queues of any length:

* The queue first, which is where a device's future lies: `PushedAll`, `Purged`,
  `DueAndRest` and `Elapsed` say which items a queue has after each of its operations and
  that it stays in release order. A purge keeps the order because the n-th item kept is
  the n-th of the positions kept (`EveryPlaceTaken`, a count instead of an induction).
* `PulseStaysHonest`: `PulseIsHonest` is not inductive. `LobbyInv` adds that the lobby
  runs exactly during setup and knows whether a slot is left (`Stage`); that a pulse,
  shown or not, belongs to one who stands where its color says (`PulseOf`); and of every
  queued flash (`Fits`, `InTheDark`) whom it is for and how late it can come: white and red
  within one flash and its gap, green before the next ceremony could begin, so that a
  pulse held for a train, or for the next ceremony, outlasts what was queued before.
* `WhiteIsAnInvite`: a paint that is new is a cue that was due, and a white one is for
  whom `Fits` says.

**Surfaces** (`LightProofs`). From `SurfacesAssumption` alone (devices and fixtures are
finitely many, and different things), for any number of them, colours and flashes of any
length, and a queue of any length:

* `MutesAreOne`: `MutesAgree`. That the engine and the agent hold the same latches
  (`Alike`, but for those in `Dropped`) is what each sink and each lifting preserves:
  `Moved` says that outside the keys it touched nothing changed, and that inside them both
  ended alike, and `ForgiveMoves` and `LandMoves` carry that through a fire, which is one
  after the other. It is not inductive by itself: a bind lifts the mute of the fixture
  the device was bound to before, so `Outlived` adds that a bound device muted by its own
  name was muted before its Room went. `MoveAgrees` is the bind.
* `MutedStaysDark`: `DarkWhileMuted`. `AgentOK` is kept by every sink (`DarkenKeeps` to
  `DrainKeeps`): no light cue waits for a latched key, by the same counting of positions
  as in the lobby (`OthersWait`), and a latched key is at `Dark`, which no tick wears down.

**Metronome** (`GameServerProofs`). From `MetronomeAssumption` and `TimingAssumption` alone,
for any players and orders of joining, any tempo, any number of cycles and taps:

* `CyclesStayFair`: `CyclesAreFair`. `MetroInv` adds what it rests on. Each open cycle's
  phrase is what its player's taps that have arrived come to (`PhrasesAreTaps`), since
  the taps of one poll go to the phrases of their own cycles (`Played` of a union is the
  union of both). A cycle is judged by the first lap past its deadline
  (`JudgedInTime`), and then all its taps are in; one that a lap receives with the
  judgment was made too late to be asked for. In a cycle's midst its player is not
  failed (`TurnIsBack`): the cycle before is judged after this one's downbeat went
  out, but it was another player's, which is where `Len(rotation) > 1` is needed. What
  a lap does to several beats and cycles is stated at once, as sets of numbers
  (`Reached`, `Judging`), and needs no induction. It is a theorem of `MetroSpec`, whose
  steps are all that `Programme` takes with the judging Bit.

**Music** (`TerrariumProofs`). From `ChannelAssumption`, `ScoreAssumption` and
`MusicAssumption` alone, for any scores and roles, any synthesizer, and any number of
gestures, bells, Stops, laps and Bits:

* `ChannelsAreKept`: `ChannelsKept`. The property is not inductive: that a channel comes
  back clean depends on what it held. `BridgeOK` adds what the owners may leave behind: a
  bell's channel holds its one note (`Rings`), so that all-notes-off makes it fresh
  (`RungIsFresh`); a part's may hold anything, and `QuietIsFresh` says that letting the
  pedal go and setting the volume back *before* all-notes-off is enough, whatever it
  held. What is fed to the fixture touches its own channels and nothing else
  (`Retuned`), which the payloads of one poll carry through one after the other
  (`SoundedRetunes`); a grant takes free channels only, each once, and is whole or
  not at all (`FillIs`).
* `StopIsSilence`: `SilentWhileMuted`, the Stop half of `HeardAsWritten`. `MutedIsQuiet`
  says that nothing waits in the queue while the fixture is muted, and `QueuedInLine` that
  neither a gesture nor a tick puts anything in.

What a recursive function returns cannot be proved by the library's induction. `Steps`
builds it as a sequence of states of a set that each step stays in, and `CountedUp` (the
well-foundedness of the naturals) carries an invariant along; the sequencer's lemmas
(`WindowInLine`, `AdvanceKeeps`) say that what it emits is a finite sequence, not which.

**Model-checked only.**
* Liveness under fairness, beyond the prover: `LoadsEnd`, `ReportsArrive`, `Relinks`,
  `CeremonyPlaysOut`, `NothingPlaysOn`, and the liveness in `ShowsTheLatest` and
  `FramesArrive` (their safety conjuncts are `TheDarkFrameIsLast` and
  `NewcomersAreShown`).
* `HeardAsWritten`, apart from a Stop, compares what sounds with a score: what folds over
  scores compute for every input is an induction over data, and is checked over the listed
  ones.

## 7. What is not modelled

* **Captures**, the **contract kit** and the offline tools (recording, export, the
  design session outside the Console): sequential file work that is not part of a
  running installation.
* The **browser front ends** and the page served by `www_server`: display code.
* The **minigame, capture and test Bits**: `GameServer` takes a Bit's decisions
  (`admits`, `update`) as choices, so what it promises holds for them too. A Bit that
  raises from its callbacks is not modelled.
* Model and `.glb` layout parsing, argument parsing, run profiles and TOML syntax,
  which appear as accepted, refused or raising.
* The external libraries: pyarco (synced once per process, its restart), luxaeterna's
  colours and fades (a fade ends within `_MAX_CLOSING_FRAMES`), O2's clock sync,
  discovery and wire format.
* Of modelled parts: `recycle_room` and its hooks (only tests call it); the output tee
  and the host checks of the stack runner; the gesture ticker, log events and the join
  view of the Console; the fixtures' feedback flashes, the drone and the breath of the
  lobby; a second audio fixture; the tapper, display and gestures of the device client.

`PROJECT.json` lists every component with its status, and every hazard with the line
where it bites and the properties that would catch it.
