----------------------------- MODULE RunRecord ------------------------------
(***************************************************************************)
(* Who owns a process that outlived its run (control/run_record.py).       *)
(*                                                                         *)
(* Every run keeps runs/<run-id>/procs.jsonl: first its supervisor, then   *)
(* each process it spawned, with the time each one started.  Whoever loads *)
(* a Room first sweeps every such file: what a dead run left running is    *)
(* stopped, and the file is removed once all its processes are settled.    *)
(* Several sweeps may be at work in the same directory, one process and    *)
(* one file at a time, while the runs they belong to come and go.          *)
(*                                                                         *)
(* A `ps` that fails ("ps") is taken for a time that does not match.       *)
(* A process is named by the run that started it and its kind; "stranger"  *)
(* says that its process id has since gone to somebody else.  Process ids  *)
(* are not used again while a sweep is looking at one.                     *)
(***************************************************************************)
EXTENDS Naturals, SequencesExt

CONSTANTS
    NRuns,       \* runs of the stack, numbered in the order they start
    DirOf,       \* the run id of each: the second in which it started
    DevicesOf,   \* the simulated devices of each
    Simulated,   \* runs whose Room fixture is simulated (and not on Art-Net)
    Slow,        \* kinds that do not exit within five seconds of a SIGTERM
    Accidents    \* of {"denied", "ps", "stuck", "reuse"} and of module Stack

Runs == 1 .. NRuns
Cleaner == 0                        \* harness.clean, run by hand
Sweepers == Runs \union {Cleaner}
Dirs == {DirOf[r] : r \in Runs}
Owned == {"arco", "sim"}            \* what load_room spawns
Devices == UNION {DevicesOf[r] : r \in Runs}
Kinds == {"stack", "control"} \union Owned \union Devices
NoFile == <<[run |-> 0, kind |-> "none"]>>

ASSUME RunRecordAssumption ==
    /\ NRuns \in Nat \ {0} /\ DirOf \in [Runs -> Nat]
    /\ Simulated \subseteq Runs /\ Slow \subseteq Owned
    /\ Devices \intersect ({"stack", "control"} \union Owned) = {}
    /\ \A r \in Runs : IsFiniteSet(DevicesOf[r])

VARIABLES
    proc,    \* [run -> [kind -> "none", "up", "asked" (SIGTERM), "gone", "stranger"]]
    file,    \* [run id -> its records, or NoFile]
    sweep    \* [sweeper -> where its sweep is]

records == <<proc, file, sweep>>

Idle == [pc |-> "off", todo |-> {}, queue |-> <<>>, handled |-> TRUE, owed |-> {}]
Done == [Idle EXCEPT !.pc = "done"]

RecordInit ==
    /\ proc = [r \in Runs |-> [k \in Kinds |-> "none"]]
    /\ file = [d \in Dirs |-> NoFile]
    /\ sweep = [s \in Sweepers |-> Idle]

-----------------------------------------------------------------------------
(* Processes. *)

Running(r, k) == proc[r][k] \in {"up", "asked"}
Rec(r, k) == [run |-> r, kind |-> k]

\* What a run left running, as a reader of the process list would find it.
Leftovers == {x \in [run : Runs, kind : Owned] :
                Running(x.run, x.kind) /\ ~Running(x.run, "control")}

SetProc(r, k, s) == [proc EXCEPT ![r][k] = s]

\* The process answers a SIGTERM; a slow one may take too long over it.
Exit(r, k) ==
    /\ k \in Owned /\ proc[r][k] = "asked"
    /\ proc' = SetProc(r, k, "gone")
    /\ UNCHANGED <<file, sweep>>

\* Its process id goes to a stranger.
Reuse(r, k) ==
    /\ "reuse" \in Accidents
    /\ k \in Owned \union {"control"} /\ proc[r][k] = "gone"
    /\ \A s \in Sweepers : sweep[s].pc # "stop"
    /\ proc' = SetProc(r, k, "stranger")
    /\ UNCHANGED <<file, sweep>>

-----------------------------------------------------------------------------
(* Records. *)

\* RunRecorder.record: one line, appended; the file is made if need be.
Recorded(r, k) ==
    LET d == DirOf[r] IN
    [file EXCEPT ![d] = IF @ = NoFile THEN <<Rec(r, k)>> ELSE Append(@, Rec(r, k))]

IsAlive(x) == Running(x.run, x.kind) \/ proc[x.run][x.kind] = "stranger"
\* Faulty variant: any process with that id will do.
AnySpawnTime(x) == IsAlive(x)
SpawnTimeMatches(x) == Running(x.run, x.kind)

\* The place of a file's first supervisor record, if it has one.
Supervisor(f) == {i \in DOMAIN f : f[i].kind = "control"
                                   /\ \A j \in 1 .. i - 1 : f[j].kind # "control"}
\* Faulty variant: a supervisor's process id is enough.
AnySupervisor(f) == \E i \in Supervisor(f) : IsAlive(f[i])

\* _live_supervisor: the first supervisor record, alive and the same process.
LiveSupervisor(f) == \E i \in Supervisor(f) : IsAlive(f[i]) /\ SpawnTimeMatches(f[i])

-----------------------------------------------------------------------------
(* sweep_stale, by sweeper s.  `owed` is what was left over when it began,  *)
(* but for what it was not allowed to stop.                                 *)

BeginSweep(s) ==
    /\ sweep[s].pc = "off"
    /\ sweep' = [sweep EXCEPT ![s] =
         [Idle EXCEPT !.pc = "open", !.todo = {d \in Dirs : file[d] # NoFile},
                      !.owed = Leftovers]]
    /\ UNCHANGED <<proc, file>>

First(s) == CHOOSE d \in sweep[s].todo : \A e \in sweep[s].todo : d <= e
To(s, pc) == [sweep EXCEPT ![s].pc = pc]
Passed(s) == [sweep EXCEPT ![s].todo = @ \ {First(s)}, ![s].pc = "open"]

\* The next file: gone by now, of a live run, or to be gone through.
OpenFile(s) ==
    /\ sweep[s].pc = "open" /\ sweep[s].todo # {}
    /\ LET f == file[First(s)] IN
       \/ f = NoFile /\ sweep' = To(s, "failed")
       \/ f # NoFile /\ LiveSupervisor(f) /\ sweep' = Passed(s)
       \/ /\ f # NoFile
          /\ ~LiveSupervisor(f) \/ "ps" \in Accidents
          /\ sweep' = [sweep EXCEPT ![s].pc = "look", ![s].queue = f, ![s].handled = TRUE]
    /\ UNCHANGED <<proc, file>>

\* One record is dealt with; `ok` says that its process is settled.
Settled(s, ok) ==
    [sweep EXCEPT ![s].pc = "look", ![s].queue = Tail(@), ![s].handled = @ /\ ok]
\* The next record: dead, not proven to be ours, or sent a SIGTERM.
Look(s) ==
    /\ sweep[s].pc = "look" /\ sweep[s].queue # <<>>
    /\ LET x == Head(sweep[s].queue) IN
       \/ ~IsAlive(x) /\ sweep' = Settled(s, TRUE) /\ UNCHANGED proc
       \/ IsAlive(x) /\ (~SpawnTimeMatches(x) \/ "ps" \in Accidents) /\ sweep' = Settled(s, FALSE) /\ UNCHANGED proc
       \/ /\ IsAlive(x) /\ "denied" \in Accidents
          /\ sweep' = [Settled(s, FALSE) EXCEPT ![s].owed = @ \ {x}] /\ UNCHANGED proc
       \/ /\ IsAlive(x) /\ SpawnTimeMatches(x)
          /\ proc' = SetProc(x.run, x.kind, "asked")
          /\ sweep' = To(s, "stop")
    /\ UNCHANGED file

\* stop_process: it exits, or it is killed when its five seconds are over;
\* stuck in the kernel, it may survive even that.
Stopped(s) ==
    /\ sweep[s].pc = "stop"
    /\ ~IsAlive(Head(sweep[s].queue))
    /\ sweep' = Settled(s, TRUE)
    /\ UNCHANGED <<proc, file>>

KillIt(s) ==
    LET x == Head(sweep[s].queue) IN
    /\ sweep[s].pc = "stop" /\ x.kind \in Slow /\ IsAlive(x)
    /\ \/ proc' = SetProc(x.run, x.kind, "gone")
       \/ "stuck" \in Accidents /\ UNCHANGED proc
    /\ sweep' = Settled(s, TRUE)
    /\ UNCHANGED file

\* The file is done with: removed if all of it is settled, else kept.
CloseFile(s) ==
    /\ sweep[s].pc = "look" /\ sweep[s].queue = <<>>
    /\ IF sweep[s].handled
       THEN IF file[First(s)] = NoFile
            THEN sweep' = To(s, "failed") /\ UNCHANGED file
            ELSE sweep' = Passed(s) /\ file' = [file EXCEPT ![First(s)] = NoFile]
       ELSE sweep' = Passed(s) /\ UNCHANGED file
    /\ UNCHANGED proc

Swept(s) == sweep[s].pc = "open" /\ sweep[s].todo = {}
Failed(s) == sweep[s].pc = "failed"

SweepStep(s) ==
    OpenFile(s) \/ Look(s) \/ Stopped(s) \/ KillIt(s) \/ CloseFile(s)
=============================================================================
