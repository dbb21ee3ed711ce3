------------------------------- MODULE Uplink -------------------------------
(***************************************************************************)
(* The box's connection to its broker: UplinkAgent (uplink/link.py), the    *)
(* journal of completed rounds (uplink/journal.py) and the two transports   *)
(* (uplink/transport.py).  The engine, the Terrarium and the uplink run on  *)
(* one thread, so a handler or a pump is never interleaved with another one;*)
(* the peer may go away between any two frames, the disk may fail and the   *)
(* process may die between any two steps.                                   *)
(*                                                                         *)
(* A frame on an open connection is read by the peer when it is sent.  Once *)
(* the peer is gone a send may still return, the frame being lost in some   *)
(* buffer, or raise.  What a peer reads is then a prefix of what was sent,  *)
(* as on a real connection.                                                 *)
(***************************************************************************)
EXTENDS Integers, Sequences

CONSTANTS
    RoomName,        \* names of Rooms
    None,            \* no Room
    Cap,             \* JOURNAL_CAP
    InitialBackoff,  \* INITIAL_BACKOFF_SECONDS
    MaxBackoff,      \* MAX_BACKOFF_SECONDS
    Durable,         \* the transports: TRUE a socket, FALSE the log
    Accidents,       \* a subset of AllAccidents
    MaxRounds,       \* bound on the rounds completed
    MaxLoads,        \* bound on the Room loads
    MaxFaults        \* bound on the accidents

\* "refuse": a connect fails.  "drop": the peer goes away.
\* "disk":   a write to the journal fails.  "crash": the process dies.
AllAccidents == {"refuse", "drop", "disk", "crash"}

ASSUME UplinkAssumption ==
    /\ None \notin RoomName
    /\ Cap \in Nat \ {0}
    /\ InitialBackoff \in Nat \ {0} /\ MaxBackoff \in Nat
    /\ InitialBackoff <= MaxBackoff
    /\ Durable \subseteq BOOLEAN
    /\ Accidents \subseteq AllAccidents
    /\ MaxRounds \in Nat /\ MaxLoads \in Nat /\ MaxFaults \in Nat

VARIABLES
    durable,    \* transport.durable
    stage,      \* "down": not transport.connected.  "identity", "resync" and
                \* "replay": inside maintain_connection.  "up": after it.
    alive,      \* the peer still reads
    view,       \* what it has read of the box: [engine, terrarium, room]
    wait,       \* _next_attempt_at - now, 0 when it has passed
    backoff,    \* _backoff
    position,   \* how far in the file the replay that runs has come
    journal,    \* the lines of the file: a round each, or Garbage
    torn,       \* the last line lacks its newline
    task,       \* what on_state_change(COMPLETING) does next
    engine,     \* GameServer.state
    terrarium,  \* Terrarium.state
    room,       \* Terrarium.room, while it loads loading_room
    unloading,  \* _unloading_room_name
    rounds,     \* history: rounds completed
    handed,     \* history: rounds a send of which returned on a real socket
    missed,     \* history: rounds whose report an accident kept off the journal
    loads,      \* Rooms loaded
    faults      \* accidents so far

linkVars == <<stage, alive, view, wait, backoff, position>>
fileVars == <<journal, torn>>
boxVars == <<engine, terrarium, room, unloading, loads>>
history == <<rounds, handed, missed>>
vars == <<durable, linkVars, fileVars, task, boxVars, history, faults>>

Garbage == 0
Readable(line) == line # Garbage

\* The lines that are entries, and the rounds they report.
Entries == {i \in DOMAIN journal : Readable(journal[i])}
Kept == {journal[i] : i \in Entries}

\* Frames.
Identity == [event |-> "identity"]
StateChanged(e, t) == [event |-> "state_changed", engine |-> e, terrarium |-> t]
RoomLoaded(n) == [event |-> "room_loaded", name |-> n]
RoomUnloaded(n) == [event |-> "room_unloaded", name |-> n]
BitCompleted(r) == [event |-> "bit_completed", round |-> r]
Error == [event |-> "error"]

\* The peer's picture of the box after a frame.
Seen(v, f) ==
    CASE f.event = "state_changed" ->
             [v EXCEPT !.engine = f.engine, !.terrarium = f.terrarium]
      [] f.event = "room_loaded" -> [v EXCEPT !.room = f.name]
      [] f.event = "room_unloaded" -> [v EXCEPT !.room = None]
      [] OTHER -> v

Can(accident) == accident \in Accidents /\ faults < MaxFaults

\* The picture after the first k of the frames fs, at most two.
SeenOf(v, fs, k) ==
    CASE k = 0 -> v
      [] k = 1 -> Seen(v, fs[1])
      [] k = 2 -> Seen(Seen(v, fs[1]), fs[2])

\* send() of the frames fs, in order: the first n calls return, the next one,
\* if there is one, raises.  The log takes everything.  Of what a socket takes
\* the peer reads the first k.
SendLog(fs, n) == n = Len(fs) /\ UNCHANGED <<alive, view, faults>>
SendSocket(fs, n) ==
    \E k \in 0..n :
        /\ ~alive => k = 0
        /\ view' = SeenOf(view, fs, k)
        /\ alive' = (alive /\ k = Len(fs))
        /\ IF alive /\ ~alive' THEN Can("drop") /\ faults' = faults + 1
           ELSE UNCHANGED faults
Send(fs, n) == IF durable THEN SendSocket(fs, n) ELSE SendLog(fs, n)

\* _send of the frames of one handler: nothing when there is no connection,
\* and none after the one that raises (_notify swallows the exception).
Tell(fs, n) ==
    IF stage = "down" THEN n = Len(fs) /\ UNCHANGED <<stage, alive, view, faults>>
    ELSE /\ Send(fs, n)
         /\ stage' = IF n = Len(fs) THEN stage ELSE "down"

\* Between two handlers of the thread.
Quiet ==
    /\ stage \in {"down", "up"}
    /\ task = "none"
    /\ engine # "completing"
    /\ terrarium \in {"no_room", "ready"}

----------------------------------------------------------------------------
Init ==
    /\ durable \in Durable
    /\ stage = "down" /\ alive = FALSE
    /\ view = [engine |-> "idle", terrarium |-> "no_room", room |-> None]
    /\ wait = 0 /\ backoff = InitialBackoff /\ position = 0
    /\ journal \in {<<>>, <<Garbage>>} /\ torn = FALSE
    /\ task = "none"
    /\ engine = "idle" /\ terrarium = "no_room" /\ room = None
    /\ unloading = None
    /\ rounds = 0 /\ handed = {} /\ missed = {}
    /\ loads = 0 /\ faults = 0

\* maintain_connection, one failed attempt: the next one waits twice as long.
Failed ==
    /\ wait' = backoff
    /\ backoff' = IF 2 * backoff < MaxBackoff THEN 2 * backoff ELSE MaxBackoff
    /\ position' = 0

\* Its end: only a fully established link resets the schedule, but the end is
\* also reached when the replay returns early.
Established == wait' = 0 /\ backoff' = InitialBackoff /\ position' = 0

Connect ==
    /\ Quiet /\ stage = "down" /\ wait = 0
    /\ \/ /\ stage' = "identity" /\ alive' = TRUE
          /\ UNCHANGED <<wait, backoff, position, faults>>
       \/ /\ durable /\ Can("refuse")
          /\ Failed
          /\ faults' = faults + 1
          /\ UNCHANGED <<stage, alive>>
    /\ UNCHANGED <<durable, view, fileVars, task, boxVars, history>>

Present ==
    /\ stage = "identity"
    /\ \E n \in 0..1 :
        /\ Send(<<Identity>>, n)
        /\ IF n = 1 THEN stage' = "resync" /\ UNCHANGED <<wait, backoff, position>>
           ELSE stage' = "down" /\ Failed
    /\ UNCHANGED <<durable, fileVars, task, boxVars, history>>

\* Faulty variant: the resync leaves out the Room.
SnapshotWithoutRoom == <<StateChanged(engine, terrarium)>>

\* The state, and the Room that is loaded.
Snapshot ==
    IF room # None THEN <<StateChanged(engine, terrarium), RoomLoaded(room)>>
    ELSE <<StateChanged(engine, terrarium)>>

\* Faulty variant: the connection is taken for established without the replay.
ResyncOnly ==
    /\ stage = "resync"
    /\ \E n \in 0..Len(Snapshot) :
        /\ Send(Snapshot, n)
        /\ IF n < Len(Snapshot) THEN stage' = "down" /\ Failed
           ELSE stage' = "up" /\ Established
    /\ UNCHANGED <<durable, fileVars, task, boxVars, history>>

Resync ==
    /\ stage = "resync"
    /\ \E n \in 0..Len(Snapshot) :
        /\ Send(Snapshot, n)
        /\ IF n < Len(Snapshot) THEN stage' = "down" /\ Failed
           ELSE IF durable
           THEN stage' = "replay" /\ UNCHANGED <<wait, backoff, position>>
           ELSE stage' = "up" /\ Established
    /\ UNCHANGED <<durable, fileVars, task, boxVars, history>>

\* The entries the replay has yet to send.
Unsent == {i \in Entries : i > position}

\* _replay_journal sends the entries in file order, ...
Replay ==
    /\ stage = "replay"
    /\ \E i \in Unsent, n \in 0..1 :
        /\ \A j \in Unsent : i <= j
        /\ Send(<<BitCompleted(journal[i])>>, n)
        /\ IF n = 1
           THEN /\ position' = i
                /\ handed' = handed \cup {journal[i]}
                /\ UNCHANGED <<stage, wait, backoff>>
           ELSE stage' = "down" /\ Established /\ UNCHANGED handed
    /\ UNCHANGED <<durable, fileVars, task, boxVars, rounds, missed>>

\* Faulty variant: it truncates the file as soon as it has read it.
ClearAtOnce ==
    /\ stage = "replay"
    /\ journal' = <<>> /\ torn' = FALSE
    /\ stage' = "up" /\ Established
    /\ UNCHANGED <<durable, alive, view, task, boxVars, history, faults>>

\* ... and truncates the file when all sends have returned.
Clear ==
    /\ stage = "replay" /\ Unsent = {}
    /\ journal' = <<>> /\ torn' = FALSE
    /\ stage' = "up" /\ Established
    /\ UNCHANGED <<durable, alive, view, task, boxVars, history, faults>>

\* Time passes.
Elapse ==
    /\ stage = "down" /\ wait > 0
    /\ wait' = wait - 1
    /\ UNCHANGED <<durable, stage, alive, view, backoff, position, fileVars, task,
                   boxVars, history, faults>>

\* The peer goes away, and receive() notices.
Vanish ==
    /\ durable /\ stage = "up" /\ alive /\ Can("drop")
    /\ alive' = FALSE /\ faults' = faults + 1
    /\ UNCHANGED <<durable, stage, view, wait, backoff, position, fileVars, task,
                   boxVars, history>>
Notice ==
    /\ Quiet /\ durable /\ stage = "up" /\ ~alive
    /\ stage' = "down"
    /\ UNCHANGED <<durable, alive, view, wait, backoff, position, fileVars, task,
                   boxVars, history, faults>>

\* poll drains a command that is refused; _pump_uplink swallows a send that
\* raises.  The commands that are carried out are the handlers below, which
\* other drivers call too.
Refuse ==
    /\ Quiet /\ durable /\ stage = "up" /\ alive
    /\ \E n \in 0..1 : Tell(<<Error>>, n)
    /\ UNCHANGED <<durable, wait, backoff, position, fileVars, task, boxVars, history>>

----------------------------------------------------------------------------
\* on_state_change of every state but COMPLETING.
Engine(from, to) ==
    /\ engine = from
    /\ engine' = to
    /\ \E n \in 0..1 : Tell(<<StateChanged(to, terrarium)>>, n)
    /\ UNCHANGED <<durable, wait, backoff, position, fileVars, task, terrarium, room,
                   unloading, loads, history>>

Run == Quiet /\ terrarium = "ready" /\ rounds < MaxRounds /\ Engine("idle", "running")
Abort == Quiet /\ Engine("running", "idle")
Unload == task = "none" /\ Engine("completing", "idle")

\* on_state_change(COMPLETING): the state first, and when that send raises the
\* handler is over.
Complete ==
    /\ Quiet /\ engine = "running"
    /\ engine' = "completing" /\ rounds' = rounds + 1
    /\ \E n \in 0..1 :
        /\ Tell(<<StateChanged("completing", terrarium)>>, n)
        /\ IF n = 1 THEN task' = "journal" /\ UNCHANGED missed
           ELSE UNCHANGED task /\ missed' = missed \cup {rounds + 1}
    /\ UNCHANGED <<durable, wait, backoff, position, fileVars, terrarium, room,
                   unloading, loads, handed>>

\* journal.append writes a line.  The line of a write that was cut short has no
\* newline, so the next one continues it and neither can be parsed.
Written ==
    /\ torn' = FALSE
    /\ IF torn THEN UNCHANGED journal /\ missed' = missed \cup {rounds}
       ELSE journal' = Append(journal, rounds) /\ UNCHANGED missed
    /\ task' = IF Len(journal') > Cap THEN "trim" ELSE "report"
    /\ UNCHANGED faults
NotWritten ==
    /\ Can("disk") /\ faults' = faults + 1
    /\ missed' = missed \cup {rounds}
    /\ task' = "report"
    /\ \/ UNCHANGED fileVars
       \/ torn' = TRUE /\ journal' = IF torn THEN journal ELSE Append(journal, Garbage)
JournalAppend ==
    /\ task = "journal"
    /\ Written \/ NotWritten
    /\ UNCHANGED <<durable, linkVars, boxVars, rounds, handed>>

Newest == SubSeq(journal, Len(journal) - Cap + 1, Len(journal))

\* It rewrites a file that is over its cap.
JournalTrim ==
    /\ task = "trim"
    /\ journal' = Newest
    /\ task' = "report"
    /\ UNCHANGED <<durable, linkVars, torn, boxVars, history, faults>>

\* _send(bit_completed).
Report ==
    /\ task = "report"
    /\ task' = "none"
    /\ \E n \in 0..1 :
        /\ Tell(<<BitCompleted(rounds)>>, n)
        /\ handed' = IF stage = "up" /\ durable /\ n = 1 THEN handed \cup {rounds}
                     ELSE handed
    /\ UNCHANGED <<durable, wait, backoff, position, fileVars, boxVars, rounds, missed>>

----------------------------------------------------------------------------
\* on_terrarium_state_change.
Load ==
    /\ Quiet /\ terrarium = "no_room" /\ loads < MaxLoads
    /\ terrarium' = "loading" /\ loads' = loads + 1
    /\ \E n \in 0..1 : Tell(<<StateChanged(engine, "loading")>>, n)
    /\ UNCHANGED <<durable, wait, backoff, position, fileVars, task, engine, room,
                   unloading, history>>

Loaded(name) ==
    /\ terrarium = "loading"
    /\ terrarium' = "ready" /\ room' = name
    /\ \E n \in 0..2 : Tell(<<StateChanged(engine, "ready"), RoomLoaded(name)>>, n)
    /\ UNCHANGED <<durable, wait, backoff, position, fileVars, task, engine, unloading,
                   loads, history>>

NotLoaded ==
    /\ terrarium = "loading"
    /\ terrarium' = "no_room"
    /\ \E n \in 0..1 :
        /\ Tell(<<StateChanged(engine, "no_room")>>, n)
        /\ unloading' = IF n = 1 THEN None ELSE unloading
    /\ UNCHANGED <<durable, wait, backoff, position, fileVars, task, engine, room,
                   loads, history>>

UnloadRoom ==
    /\ Quiet /\ terrarium = "ready" /\ engine = "idle"
    /\ terrarium' = "unloading"
    /\ \E n \in 0..1 :
        /\ Tell(<<StateChanged(engine, "unloading")>>, n)
        /\ unloading' = IF n = 1 THEN room ELSE unloading
    /\ UNCHANGED <<durable, wait, backoff, position, fileVars, task, engine, room,
                   loads, history>>

Gone ==
    IF unloading # None
    THEN <<StateChanged(engine, "no_room"), RoomUnloaded(unloading)>>
    ELSE <<StateChanged(engine, "no_room")>>
UnloadedRoom ==
    /\ terrarium = "unloading"
    /\ terrarium' = "no_room" /\ room' = None
    /\ \E n \in 0..Len(Gone) :
        /\ Tell(Gone, n)
        /\ unloading' = IF n = 0 THEN unloading ELSE None
    /\ UNCHANGED <<durable, wait, backoff, position, fileVars, task, engine, loads,
                   history>>

----------------------------------------------------------------------------
\* The process dies and is started again.  Only the file is left, and not
\* even that in the middle of a rewrite, which truncates it first.
Crash ==
    /\ Can("crash") /\ faults' = faults + 1
    /\ stage' = "down" /\ alive' = FALSE
    /\ wait' = 0 /\ backoff' = InitialBackoff /\ position' = 0
    /\ engine' = "idle" /\ terrarium' = "no_room" /\ room' = None /\ unloading' = None
    /\ task' = "none"
    /\ \/ task = "trim" /\ journal' = <<>> /\ torn' = FALSE /\ missed' = missed \cup Kept
       \/ /\ UNCHANGED fileVars
          /\ missed' = IF task = "journal" THEN missed \cup {rounds} ELSE missed
    /\ UNCHANGED <<durable, view, loads, rounds, handed>>

Next ==
    \/ Connect \/ Present \/ Resync \/ Replay \/ Clear \/ Elapse
    \/ Vanish \/ Notice \/ Refuse
    \/ Run \/ Abort \/ Complete \/ JournalAppend \/ JournalTrim \/ Report \/ Unload
    \/ Load \/ (\E name \in RoomName : Loaded(name)) \/ NotLoaded
    \/ UnloadRoom \/ UnloadedRoom
    \/ Crash

\* Control's loop goes on, and so does time.
Fairness ==
    /\ WF_vars(Connect) /\ WF_vars(Elapse) /\ WF_vars(Notice)
    /\ WF_vars(Present \/ Resync \/ Replay \/ Clear)
    /\ WF_vars(JournalAppend \/ JournalTrim \/ Report \/ Unload)
    /\ WF_vars((\E name \in RoomName : Loaded(name)) \/ NotLoaded \/ UnloadedRoom)

Spec == Init /\ [][Next]_vars /\ Fairness
----------------------------------------------------------------------------
Engines == {"idle", "running", "completing"}
Terraria == {"no_room", "loading", "ready", "unloading"}
View == [engine : Engines, terrarium : Terraria, room : RoomName \cup {None}]

TypeOK ==
    /\ durable \in BOOLEAN
    /\ stage \in {"down", "identity", "resync", "replay", "up"}
    /\ alive \in BOOLEAN
    /\ view \in View
    /\ wait \in 0..MaxBackoff /\ backoff \in 1..MaxBackoff /\ position \in Nat
    /\ journal \in Seq(Nat) /\ torn \in BOOLEAN
    /\ task \in {"none", "journal", "trim", "report"}
    /\ engine \in Engines /\ terrarium \in Terraria
    /\ {room, unloading} \subseteq RoomName \cup {None}
    /\ {rounds, loads, faults} \subseteq Nat
    /\ handed \cup missed \subseteq 1..rounds

\* The uplink implements the outbox it promises: the report of every round is
\* kept but for an accident the code cannot repair, and one that is kept leaves
\* the box only handed over, outdated, or in a rewrite that is cut short.
Box == INSTANCE Outbox WITH kept <- Kept
OutboxKept == Box!Spec

\* Whoever listens on an established connection knows what the box is doing and
\* which Room it has loaded, whatever it missed while it was away.
PictureIsCurrent ==
    durable /\ stage = "up" /\ alive
        => /\ view.engine = engine /\ view.terrarium = terrarium
           /\ terrarium = "ready" => view.room = room

\* Unless the peer goes away for good, every report that is kept is handed over
\* in the end, or gives way to newer ones.
ReportsArrive ==
    \A r \in 1..MaxRounds :
        durable /\ r \in Kept ~> r \in handed \/ r \notin Kept
=============================================================================
