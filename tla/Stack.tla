------------------------------- MODULE Stack --------------------------------
(***************************************************************************)
(* A stack from launch to the last process (harness/run_stack.py): the     *)
(* runner starts Control and then the simulated devices, holds them, and   *)
(* stops them in reverse; Control (harness/terrarium_boot.py) sweeps what  *)
(* earlier runs left, starts Arco and the Room simulator, records both,    *)
(* and stops them in reverse.  Control, the simulator and the devices each *)
(* watch for the process that started them to go; Arco does not.           *)
(*                                                                         *)
(* Several runs share a checkout, and any process may be killed.  Stopping *)
(* a child takes five seconds for a SIGTERM to work and then a SIGKILL,    *)
(* and the runner gives Control the same five seconds that Control gives   *)
(* each of its own children.                                               *)
(***************************************************************************)
EXTENDS RunRecord

CONSTANTS
    ByHand,      \* runs whose Control was started without a runner
    Serve,       \* a device that leaves of itself does not end the hold
    MaxKills     \* bound: processes killed, process ids used again,
                 \* second Ctrl-Cs

ASSUME StackAssumption ==
    /\ ByHand \subseteq Runs /\ Serve \in BOOLEAN /\ MaxKills \in Nat
    /\ Accidents \subseteq {"denied", "ps", "stuck", "reuse", "window", "again"}

VARIABLES
    at,     \* [run -> "off", "starting", "joining", "hold", "stopping", "over"]
    left,   \* [run -> the children its runner has yet to stop, next first]
    room,   \* [run -> where Control is with its Room]
    kills   \* processes killed, process ids used again, second Ctrl-Cs

vars == <<records, at, left, room, kills>>
runner == <<at, left, kills>>

\* Control is loading its Room, and has it.
Loading == {"boot", "sweep", "spawn", "spawned", "ready", "simulated"}
Closing == {"stop sim", "stop arco"}

Init ==
    /\ RecordInit
    /\ at = [r \in Runs |-> "off"]
    /\ left = [r \in Runs |-> <<>>]
    /\ room = [r \in Runs |-> "none"]
    /\ kills = 0

Go(r, place) == at' = [at EXCEPT ![r] = place]
Room(r, place) == room' = [room EXCEPT ![r] = place]
Gone(r, k) == ~Running(r, k) /\ proc[r][k] # "none"
RunnerGone(r) == Gone(r, "stack")

-----------------------------------------------------------------------------
(* The runner. *)

\* main, run: Control is spawned and pushed.
Launch(r) ==
    /\ at[r] = "off"
    /\ \A q \in Runs : q < r => at[q] \notin {"off", "starting", "joining"}
    /\ Room(r, "boot")
    /\ IF r \in ByHand
       THEN /\ proc' = SetProc(r, "control", "up")
            /\ Go(r, "over") /\ UNCHANGED left
       ELSE /\ proc' = [proc EXCEPT ![r]["stack"] = "up", ![r]["control"] = "up"]
            /\ Go(r, "starting") /\ left' = [left EXCEPT ![r] = <<"control">>]
    /\ UNCHANGED <<file, sweep, kills>>

\* Control's markers are there: the devices are spawned.
Spawn(r) ==
    /\ Running(r, "stack") /\ at[r] = "starting" /\ room[r] = "serve"
    /\ proc' = [proc EXCEPT ![r] = [k \in Kinds |->
                  IF k \in DevicesOf[r] THEN "up" ELSE proc[r][k]]]
    /\ left' = [left EXCEPT ![r] = SetToSeq(DevicesOf[r]) \o @]
    /\ Go(r, "joining")
    /\ UNCHANGED <<file, sweep, room, kills>>

\* The devices' markers are there.
Hold(r) ==
    /\ Running(r, "stack") /\ at[r] = "joining"
    /\ Go(r, "hold")
    /\ UNCHANGED <<records, left, room, kills>>

\* _dead_child: a child has exited, and it matters.
DeadChild(r) == Gone(r, "control") \/ (~Serve /\ \E k \in DevicesOf[r] : Gone(r, k))

\* The run ends: a marker is late, Ctrl-C, and during the hold a dead
\* child, the shell gone, or its time over.
Leave(r) ==
    /\ Running(r, "stack") /\ at[r] \in {"starting", "joining", "hold"}
    /\ Go(r, "stopping")
    /\ UNCHANGED <<records, left, room, kills>>

MustLeave(r) ==
    /\ \/ at[r] = "hold" /\ DeadChild(r)
       \/ at[r] = "starting" /\ Gone(r, "control")
    /\ Leave(r)

Pop(r) == left' = [left EXCEPT ![r] = Tail(@)]
\* Where Control goes on once a SIGTERM has reached it: it unwinds, and a
\* step of its own teardown that is interrupted is given up.
Interrupted(place) ==
    CASE place = "stop sim" -> "stop arco"
      [] place = "stop arco" -> "closed"
      [] OTHER -> place

\* _stop, first half: a SIGTERM, unless it has gone already.
Ask(r) ==
    /\ Running(r, "stack") /\ at[r] = "stopping" /\ left[r] # <<>>
    /\ LET k == Head(left[r]) IN
       IF ~Running(r, k)
       THEN Pop(r) /\ UNCHANGED <<proc, room>>
       ELSE /\ proc[r][k] = "up"
            /\ proc' = SetProc(r, k, "asked")
            /\ room' = IF k = "control" THEN [room EXCEPT ![r] = Interrupted(@)] ELSE room
            /\ UNCHANGED left
    /\ UNCHANGED <<file, sweep, at, kills>>

\* Control is waiting for a child that needs its SIGKILL.
Late(r) == room[r] \in Closing /\ \E k \in Slow : proc[r][k] = "asked"

KillProc(r, k) ==
    /\ proc' = SetProc(r, k, "gone")
    /\ room' = IF k = "control" THEN [room EXCEPT ![r] = "none"] ELSE room
    /\ sweep' = IF k = "control" THEN [sweep EXCEPT ![r] = Idle] ELSE sweep
    /\ UNCHANGED file

\* Second half: five seconds are over.
GiveUp(r) ==
    /\ Running(r, "stack") /\ at[r] = "stopping" /\ left[r] # <<>>
    /\ Head(left[r]) = "control" /\ proc[r]["control"] = "asked" /\ Late(r)
    /\ KillProc(r, "control")
    /\ UNCHANGED runner

\* A second Ctrl-C while a child is being stopped: the rest goes on.
Again(r) ==
    /\ "again" \in Accidents /\ kills < MaxKills
    /\ Running(r, "stack") /\ at[r] = "stopping" /\ left[r] # <<>>
    /\ proc[r][Head(left[r])] = "asked"
    /\ Pop(r) /\ kills' = kills + 1
    /\ UNCHANGED <<records, at, room>>

\* The teardown is complete.
Over(r) ==
    /\ Running(r, "stack") /\ at[r] = "stopping" /\ left[r] = <<>>
    /\ Go(r, "over")
    /\ proc' = SetProc(r, "stack", "gone")
    /\ UNCHANGED <<file, sweep, left, room, kills>>

-----------------------------------------------------------------------------
(* Control. *)

Alone(r) == UNCHANGED runner /\ Running(r, "control")

\* Faulty variant: it is written when there is something to own.
BootUnrecorded(r) ==
    /\ Alone(r) /\ room[r] = "boot"
    /\ Room(r, "sweep")
    /\ UNCHANGED <<proc, file, sweep>>

\* Terrarium.__init__: the supervisor's record, before anything else.
Boot(r) ==
    /\ Alone(r) /\ room[r] = "boot"
    /\ file' = Recorded(r, "control") /\ Room(r, "sweep")
    /\ UNCHANGED <<proc, sweep>>
\* load_room: the sweep; one that raises refuses the load.
Sweeping(r) ==
    /\ Alone(r) /\ room[r] = "sweep" /\ proc[r]["control"] = "up"
    /\ \/ (BeginSweep(r) \/ SweepStep(r)) /\ UNCHANGED room
       \/ /\ Swept(r) \/ Failed(r)
          /\ Room(r, IF Swept(r) THEN "spawn" ELSE "closed")
          /\ sweep' = [sweep EXCEPT ![r] = Idle]
          /\ UNCHANGED <<proc, file>>

\* ArcoProcess.start: the process, then its record, then its teardown step.
SpawnArco(r) ==
    /\ Alone(r) /\ room[r] = "spawn" /\ proc[r]["control"] = "up"
    /\ proc' = SetProc(r, "arco", "up") /\ Room(r, "spawned")
    /\ UNCHANGED <<file, sweep>>
RecordArco(r) ==
    /\ Alone(r) /\ room[r] = "spawned"
    /\ file' = Recorded(r, "arco") /\ Room(r, "ready")
    /\ UNCHANGED <<proc, sweep>>
\* _O2SimulatorFactory: likewise for the Room's fixture, if simulated.
SpawnSim(r) ==
    /\ Alone(r) /\ room[r] = "ready" /\ proc[r]["control"] = "up"
    /\ IF r \in Simulated
       THEN proc' = SetProc(r, "sim", "up") /\ Room(r, "simulated")
       ELSE Room(r, "serve") /\ UNCHANGED proc
    /\ UNCHANGED <<file, sweep>>
RecordSim(r) ==
    /\ Alone(r) /\ room[r] = "simulated"
    /\ file' = Recorded(r, "sim") /\ Room(r, "serve")
    /\ UNCHANGED <<proc, sweep>>

\* It unwinds: Arco never got ready, the round is over, Arco or the runner
\* has gone; or a SIGTERM.
Unwind(r) ==
    /\ Alone(r)
    /\ \/ room[r] \in {"ready", "serve"}
       \/ room[r] \in {"boot", "sweep", "spawn"} /\ proc[r]["control"] = "asked"
    /\ Room(r, IF room[r] \in {"boot", "sweep", "spawn"} THEN "closed" ELSE "stop sim")
    /\ sweep' = [sweep EXCEPT ![r] = Idle]
    /\ UNCHANGED <<proc, file>>
MustUnwind(r) ==
    /\ \/ proc[r]["control"] = "asked"
       \/ room[r] = "serve" /\ (RunnerGone(r) \/ Gone(r, "arco"))
    /\ Unwind(r)

Child(place) == IF place = "stop sim" THEN "sim" ELSE "arco"
\* TeardownStack.close: the simulator first, then Arco.
CloseStep(r) ==
    /\ Alone(r) /\ room[r] \in Closing
    /\ LET k == Child(room[r]) IN
       \/ /\ proc[r][k] = "up"
          /\ proc' = SetProc(r, k, "asked") /\ UNCHANGED room
       \/ /\ proc[r][k] = "asked" /\ k \in Slow
          /\ proc' = SetProc(r, k, "gone") /\ UNCHANGED room
       \/ /\ ~Running(r, k)
          /\ Room(r, Interrupted(room[r])) /\ UNCHANGED proc
    /\ UNCHANGED <<file, sweep>>

\* The process ends.
Quit(r) ==
    /\ Alone(r) /\ room[r] = "closed"
    /\ proc' = SetProc(r, "control", "gone") /\ Room(r, "none")
    /\ sweep' = [sweep EXCEPT ![r] = Idle]
    /\ UNCHANGED file

-----------------------------------------------------------------------------
(* The others. *)

\* Faulty variant: nobody watches for its parent.
NobodyWatches(r) ==
    \E k \in Devices \union {"sim"} :
        /\ k \in Devices /\ proc[r][k] = "asked"
        /\ proc' = SetProc(r, k, "gone")
        /\ UNCHANGED <<file, sweep, room, runner>>

\* A device or the simulator answers its SIGTERM, or finds its parent gone.
Parent(k) == IF k = "sim" THEN "control" ELSE "stack"
GuestExit(r) ==
    \E k \in Devices \union {"sim"} :
        /\ Running(r, k)
        /\ (k \in Devices /\ proc[r][k] = "asked") \/ Gone(r, Parent(k))
        /\ proc' = SetProc(r, k, "gone")
        /\ UNCHANGED <<file, sweep, room, runner>>
ChildExit(r) == \E k \in Owned : Exit(r, k) /\ UNCHANGED <<room, runner>>
ReuseOne(r) ==
    /\ kills < MaxKills /\ kills' = kills + 1
    /\ \E k \in Kinds : Reuse(r, k)
    /\ UNCHANGED <<room, at, left>>

\* A SIGKILL from outside, or a crash.  Between a spawn and its record
\* there is a moment ("window") nobody can close.
Crash(r) ==
    \E k \in Kinds :
        /\ kills < MaxKills /\ Running(r, k)
        /\ k = "control" /\ room[r] \in {"spawned", "simulated"} => "window" \in Accidents
        /\ KillProc(r, k)
        /\ kills' = kills + 1
        /\ IF k = "stack"
           THEN Go(r, "over") /\ left' = [left EXCEPT ![r] = <<>>]
           ELSE UNCHANGED <<at, left>>

\* harness.clean: the same sweep, once, by hand.
Clean ==
    /\ \/ BeginSweep(Cleaner) \/ SweepStep(Cleaner)
       \/ /\ Swept(Cleaner) \/ Failed(Cleaner)
          /\ sweep' = [sweep EXCEPT ![Cleaner] = Done]
          /\ UNCHANGED <<proc, file>>
    /\ UNCHANGED <<room, runner>>

Progress(r) ==
    \/ Spawn(r) \/ Hold(r) \/ MustLeave(r) \/ Ask(r) \/ GiveUp(r) \/ Over(r)
    \/ Boot(r) \/ Sweeping(r) \/ SpawnArco(r) \/ RecordArco(r) \/ SpawnSim(r)
    \/ RecordSim(r) \/ MustUnwind(r) \/ CloseStep(r) \/ Quit(r)

Next ==
    \/ \E r \in Runs :
        \/ Launch(r) \/ Progress(r) \/ Leave(r) \/ Again(r) \/ Unwind(r)
        \/ GuestExit(r) \/ ChildExit(r) \/ ReuseOne(r)
        \/ Crash(r)
    \/ Clean

\* The processes and their parents' watches keep running; so does a child
\* that answers its SIGTERM, unless it is slow.
Fairness ==
    \A r \in Runs :
        /\ WF_vars(Ask(r) \/ GiveUp(r) \/ Over(r) \/ MustLeave(r))
        /\ WF_vars(Boot(r) \/ Sweeping(r) \/ SpawnArco(r) \/ RecordArco(r) \/ SpawnSim(r)
                   \/ RecordSim(r) \/ MustUnwind(r) \/ CloseStep(r) \/ Quit(r))
        /\ WF_vars(GuestExit(r))
        /\ WF_vars(\E k \in Owned \ Slow : Exit(r, k) /\ UNCHANGED <<room, runner>>)

Spec == Init /\ [][Next]_vars /\ Fairness

-----------------------------------------------------------------------------
(* Properties. *)

TypeOK ==
    /\ proc \in [Runs -> [Kinds -> {"none", "up", "asked", "gone", "stranger"}]]
    /\ at \in [Runs -> {"off", "starting", "joining", "hold", "stopping", "over"}]
    /\ room \in [Runs -> Loading \union Closing \union {"none", "serve", "closed"}]
    /\ kills \in 0 .. MaxKills

\* No sweep, a load's or the operator's, ever signals a process of a run
\* whose Control is alive, nor one that has only inherited the process id of
\* one of ours.
SweepsSpareOthers ==
    [][\A r \in Runs : \A k \in Kinds :
         /\ \A s \in Sweepers :
               sweep[s].pc = "look" /\ sweep'[s].pc = "stop"
                 /\ Running(r, k) /\ proc'[r][k] # proc[r][k]
               => ~Running(r, "control")
         /\ proc[r][k] = "stranger" => proc'[r][k] = "stranger"]_vars

\* An Arco or a simulator that has lost its Control stands in a record
\* until it is gone, so that some later sweep can find it; and when a sweep
\* has come to its end, nothing that was left over when it began is still
\* there, unless the system would not let it be stopped.
SweepClears ==
    /\ \A x \in Leftovers :
          file[DirOf[x.run]] # NoFile /\ Contains(file[DirOf[x.run]], x)
    /\ \A s \in Sweepers : Swept(s) => sweep[s].owed \cap Leftovers = {}

\* Whatever ends a run's runner, all of the run is gone in the end, but for
\* an Arco whose Control was killed before it could stop it.
NothingPlaysOn ==
    \A r \in Runs :
        RunnerGone(r) ~> \A k \in Kinds \ {"arco"} : ~Running(r, k)
=============================================================================
