---------------------------- MODULE HarnessProofs -----------------------------
(***************************************************************************)
(* What the parts of harness/ that outlive a crash keep.                   *)
(*                                                                         *)
(* Stack: what the stack's runs and sweeps keep for any number of runs,    *)
(* devices and kills.  No two runs start in the same second, which would   *)
(* have them share a file of records; a `ps` that fails is not taken into  *)
(* account.                                                                *)
(*                                                                         *)
(* Link: what a device and the Controls that follow each other keep for    *)
(* any number of Controls and accidents, any window and any modulus of the *)
(* beats' numbers.                                                         *)
(***************************************************************************)
EXTENDS Stack, Link, FiniteSetTheorems, WellFoundedInduction, SequenceTheorems, TLAPS

\* The run's Control has been and gone.
Dead(r) == at[r] # "off" /\ ~Running(r, "control")

Recordable == Owned \union {"control"}
Entry == [run : 0 .. NRuns, kind : Recordable \union {"none"}]

\* Every run has a file of its own.
OneFileEach == \A q \in Runs, r \in Runs : DirOf[q] = DirOf[r] => q = r

-----------------------------------------------------------------------------
(* The invariant                                                           *)

ProcType ==
    /\ proc \in [Runs -> [Kinds -> {"none", "up", "asked", "gone", "stranger"}]]
    /\ at \in [Runs -> {"off", "starting", "joining", "hold", "stopping", "over"}]
    /\ room \in [Runs -> Loading \union Closing \union {"none", "serve", "closed"}]

\* A run that has not begun has no process; Control has a place in its Room while
\* it runs; and what it has yet to spawn was never there.  Only process ids that a
\* record names go to strangers.
RunOK(r) ==
    /\ at[r] = "off" => room[r] = "none" /\ \A k \in Kinds : proc[r][k] = "none"
    /\ Running(r, "control") <=> room[r] # "none"
    /\ room[r] \in {"boot", "sweep", "spawn"} => proc[r]["arco"] = "none"
    /\ room[r] \in {"boot", "sweep", "spawn", "spawned", "ready"} => proc[r]["sim"] = "none"
    /\ \A k \in Kinds \ Recordable : proc[r][k] # "stranger"

\* What a runner has yet to stop is its own.
LeftType == left \in [Runs -> Seq(Kinds)]

\* A run's file begins with its Control and holds nothing of another run; and it
\* is there from the start of the load until Control is gone.
FileOK(r) ==
    LET f == file[DirOf[r]] IN
    /\ f # NoFile => /\ at[r] # "off" /\ f # <<>> /\ f[1] = Rec(r, "control")
                     /\ \A i \in DOMAIN f : f[i].run = r /\ f[i].kind \in Recordable
    /\ room[r] \notin {"none", "boot", "closed"} => f # NoFile

Places == {"off", "open", "look", "stop", "failed", "done"}
Owing == [run : Runs, kind : Owned]
SweepState == [pc : Places, todo : SUBSET Dirs, queue : Seq(Entry), handled : BOOLEAN,
               owed : SUBSET Owing]
SweepType(s) == sweep[s] \in SweepState

\* A file that is gone through is a dead run's, and what is stopped is no stranger.
SweepOK(s) ==
    sweep[s].pc \in {"look", "stop"} =>
        /\ sweep[s].todo # {}
        /\ \A r \in Runs : DirOf[r] = First(s) =>
              /\ Dead(r)
              /\ \A i \in DOMAIN sweep[s].queue : /\ sweep[s].queue[i].run = r
                                                  /\ sweep[s].queue[i].kind \in Recordable
        /\ sweep[s].pc = "stop" =>
              /\ sweep[s].queue # <<>>
              /\ proc[Head(sweep[s].queue).run][Head(sweep[s].queue).kind] # "stranger"

StackInv ==
    /\ ProcType
    /\ file \in [Dirs -> Seq(Entry)]
    /\ sweep = [s \in Sweepers |-> sweep[s]]
    /\ \A r \in Runs : RunOK(r) /\ FileOK(r)
    /\ \A s \in Sweepers : SweepType(s) /\ SweepOK(s)

\* Arco and the simulator are recorded as soon as they are there, but for the
\* moment between the two.
Recording(r) ==
    LET f == file[DirOf[r]] IN
    /\ Running(r, "arco") /\ room[r] # "spawned" => f # NoFile /\ Contains(f, Rec(r, "arco"))
    /\ Running(r, "sim") /\ room[r] # "simulated" => f # NoFile /\ Contains(f, Rec(r, "sim"))

\* Of a file that is gone through and will be removed, what still runs is yet to
\* come.
CoversFile(s) ==
    sweep[s].pc \in {"look", "stop"} /\ sweep[s].handled /\ file[First(s)] # NoFile =>
        \A i \in DOMAIN file[First(s)] :
            LET x == file[First(s)][i]
            IN  proc[x.run][x.kind] \in {"up", "asked"} => Contains(sweep[s].queue, x)

\* What is owed and still left over is in a file that is yet to come, or yet to
\* come in this one.
CoversOwed(s) ==
    sweep[s].pc \in {"open", "look", "stop"} =>
        \A x \in sweep[s].owed : x \in Leftovers =>
            /\ DirOf[x.run] \in sweep[s].todo
            /\ sweep[s].pc # "open" /\ DirOf[x.run] = First(s) => Contains(sweep[s].queue, x)

Covers(s) == (\A x \in sweep[s].owed : Dead(x.run)) /\ CoversFile(s) /\ CoversOwed(s)

ClearInv == (\A r \in Runs : Recording(r)) /\ (\A s \in Sweepers : Covers(s))

-----------------------------------------------------------------------------
(* A step of a run                                                         *)

\* What a step may do to a run, whoever takes it: a dead run stays dead and starts
\* nothing; its file stays or is removed; a stranger is left alone, and nobody
\* becomes one while a process is being stopped.
Careful(r) ==
    /\ Dead(r) => Dead(r)'
    /\ Dead(r) => \A k \in Recordable : ~Running(r, k) => ~Running(r, k)'
    /\ Dead(r) => file'[DirOf[r]] \in {file[DirOf[r]], NoFile}
    /\ \A k \in Kinds : proc[r][k] = "stranger" => proc'[r][k] = "stranger"
    /\ \A k \in Kinds : proc'[r][k] = "stranger" /\ proc[r][k] # "stranger" =>
                           \A s \in Sweepers : sweep[s].pc # "stop"

Same(r) ==
    /\ at'[r] = at[r] /\ proc'[r] = proc[r] /\ room'[r] = room[r]
    /\ file'[DirOf[r]] = file[DirOf[r]]

Types ==
    /\ ProcType
    /\ file \in [Dirs -> Seq(Entry)]

\* A step that concerns run r only.
RunStep(r) ==
    /\ Types'
    /\ RunOK(r)' /\ FileOK(r)' /\ Careful(r)
    /\ "window" \notin Accidents /\ Recording(r) => Recording(r)'
    /\ \A q \in Runs : q # r => Same(q)

\* A step of run r's own processes: of the sweeps it can only end its own.
OwnStep(r) ==
    /\ RunStep(r)
    /\ sweep' = [s \in Sweepers |-> sweep'[s]]
    /\ \A s \in Sweepers : sweep'[s] \in {sweep[s], Idle}

-----------------------------------------------------------------------------
(* Sweeps                                                                  *)

\* A sweep that has files left takes one of them.
LEMMA FirstIn ==
    ASSUME NEW s \in Sweepers, sweep[s].todo \subseteq Dirs, sweep[s].todo # {}
    PROVE  First(s) \in sweep[s].todo
<1>1. Dirs \subseteq Nat
  BY RunRecordAssumption DEF Dirs, Runs
<1>2. PICK d \in sweep[s].todo : \A e \in sweep[s].todo : <<e, d>> \notin OpToRel(<, Nat)
  BY <1>1, NatLessThanWellFounded, WFMin
<1>3. \A e \in sweep[s].todo : d <= e
  <2>. SUFFICES ASSUME NEW e \in sweep[s].todo PROVE d <= e
    OBVIOUS
  <2>1. ASSUME e < d PROVE FALSE
    <3>1. <<e, d>> \in OpToRel(<, Nat)
      BY <1>1, <2>1, Zenon DEF OpToRel
    <3>. QED BY <1>2, <3>1
  <2>2. e \in Nat /\ d \in Nat
    BY <1>1
  <2>. QED BY <2>1, <2>2
<1>. QED BY <1>3 DEF First

LEMMA DirIn ==
    /\ \A r \in Runs : DirOf[r] \in Dirs
    /\ \A d \in Dirs : \E r \in Runs : DirOf[r] = d
BY DEF Dirs

LEMMA KindsIn == Recordable \subseteq Kinds
BY DEF Recordable, Kinds

\* A sweep that is left alone keeps what it relies on.
LEMMA SweepOKKept ==
    ASSUME StackInv, NEW s \in Sweepers, sweep'[s] = sweep[s],
           \A r \in Runs : Careful(r)
    PROVE  SweepType(s)' /\ SweepOK(s)'
<1>1. SweepType(s) /\ SweepOK(s)
  BY DEF StackInv
<1>2. SweepType(s)'
  BY <1>1 DEF SweepType
<1>3. First(s)' = First(s)
  BY DEF First
<1>. SUFFICES ASSUME sweep[s].pc \in {"look", "stop"} PROVE SweepOK(s)'
  BY <1>2 DEF SweepOK
<1>4. First(s) \in Dirs /\ sweep[s].todo # {}
  BY <1>1, FirstIn DEF SweepType, SweepState, SweepOK
<1>5. PICK r \in Runs : DirOf[r] = First(s)
  BY <1>4, DirIn
<1>6. ASSUME NEW q \in Runs, DirOf[q] = First(s)
      PROVE  /\ Dead(q)'
             /\ \A i \in DOMAIN sweep[s].queue : /\ sweep[s].queue[i].run = q
                                                 /\ sweep[s].queue[i].kind \in Recordable
  BY <1>1, <1>6 DEF SweepOK, Careful
<1>7. ASSUME sweep[s].pc = "stop"
      PROVE  /\ sweep[s].queue # <<>>
             /\ proc'[Head(sweep[s].queue).run][Head(sweep[s].queue).kind] # "stranger"
  <2>1. sweep[s].queue \in Seq(Entry) /\ sweep[s].queue # <<>>
        /\ proc[Head(sweep[s].queue).run][Head(sweep[s].queue).kind] # "stranger"
    BY <1>1, <1>7 DEF SweepOK, SweepType, SweepState
  <2>2. 1 \in DOMAIN sweep[s].queue /\ Head(sweep[s].queue) = sweep[s].queue[1]
    BY <2>1
  <2>3. Head(sweep[s].queue).run = r /\ Head(sweep[s].queue).kind \in Kinds
    BY <1>1, <1>5, <2>2, KindsIn DEF SweepOK
  <2>. QED BY <1>7, <2>1, <2>3 DEF Careful
<1>. QED BY <1>1, <1>3, <1>6, <1>7 DEF SweepOK

LEMMA IdleOK ==
    ASSUME NEW s \in Sweepers, sweep'[s] \in {Idle, Done}
    PROVE  SweepType(s)' /\ SweepOK(s)'
<1>1. sweep'[s] \in SweepState
  <2>1. \A p \in Places : \A q \in Seq(Entry) : \A h \in BOOLEAN :
          [pc |-> p, todo |-> {}, queue |-> q, handled |-> h, owed |-> {}] \in SweepState
    BY DEF SweepState
  <2>2. \A q : \A h \in BOOLEAN :
          [[pc |-> "off", todo |-> {}, queue |-> q, handled |-> h, owed |-> {}]
            EXCEPT !.pc = "done"]
          = [pc |-> "done", todo |-> {}, queue |-> q, handled |-> h, owed |-> {}]
    OBVIOUS
  <2>3. Done = [pc |-> "done", todo |-> {}, queue |-> <<>>, handled |-> TRUE, owed |-> {}]
    BY <2>2, Zenon DEF Done, Idle
  <2>4. <<>> \in Seq(Entry) /\ TRUE \in BOOLEAN /\ "off" \in Places /\ "done" \in Places
    BY DEF Places
  <2>. QED BY <2>1, <2>3, <2>4, Zenon DEF Idle
<1>2. sweep'[s].pc \notin {"look", "stop"}
  BY DEF Idle, Done
<1>. QED BY <1>1, <1>2 DEF SweepType, SweepState, SweepOK

\* What a run keeps to itself is kept by the steps of the others.
LEMMA SameOK ==
    ASSUME NEW r \in Runs, RunOK(r), FileOK(r), Same(r)
    PROVE  RunOK(r)' /\ FileOK(r)' /\ Careful(r) /\ (Recording(r) => Recording(r)')
<1>1. RunOK(r)'
  BY DEF RunOK, Same, Running
<1>2. FileOK(r)'
  BY DEF FileOK, Same
<1>3. Careful(r)
  BY DEF Careful, Same, Dead, Running
<1>4. Recording(r) => Recording(r)'
  BY DEF Recording, Same, Running
<1>. QED BY <1>1, <1>2, <1>3, <1>4

LEMMA OwnStepOK ==
    ASSUME StackInv, NEW r \in Runs, OwnStep(r)
    PROVE  /\ StackInv' /\ \A q \in Runs : Careful(q)
           /\ \A q \in Runs : "window" \notin Accidents /\ Recording(q) => Recording(q)'
<1>1. \A q \in Runs : RunOK(q)' /\ FileOK(q)' /\ Careful(q)
  BY SameOK DEF OwnStep, RunStep, StackInv
<1>4. \A q \in Runs : "window" \notin Accidents /\ Recording(q) => Recording(q)'
  BY SameOK DEF OwnStep, RunStep, StackInv
<1>2. \A s \in Sweepers : SweepType(s)' /\ SweepOK(s)'
  <2>. SUFFICES ASSUME NEW s \in Sweepers PROVE SweepType(s)' /\ SweepOK(s)'
    OBVIOUS
  <2>1. CASE sweep'[s] = sweep[s]
    BY <1>1, <2>1, SweepOKKept
  <2>2. CASE sweep'[s] = Idle
    BY <2>2, IdleOK
  <2>. QED BY <2>1, <2>2 DEF OwnStep, RunStep
<1>3. Types' /\ sweep' = [s \in Sweepers |-> sweep'[s]]
  BY DEF OwnStep, RunStep
<1>. QED BY <1>1, <1>2, <1>3, <1>4 DEF StackInv, Types

-----------------------------------------------------------------------------
(* One action of a run at a time                                           *)

States == {"none", "up", "asked", "gone", "stranger"}

LEMMA SetProcDoes ==
    ASSUME ProcType, NEW r \in Runs, NEW k \in Kinds, NEW st \in States,
           proc' = SetProc(r, k, st)
    PROVE  /\ proc' \in [Runs -> [Kinds -> States]]
           /\ proc'[r][k] = st
           /\ \A j \in Kinds : j # k => proc'[r][j] = proc[r][j]
           /\ \A q \in Runs : q # r => proc'[q] = proc[q]
BY DEF ProcType, SetProc, States

LEMMA KindsDiffer ==
    /\ "stack" \in Kinds /\ "control" \in Kinds /\ "arco" \in Kinds /\ "sim" \in Kinds
    /\ Recordable = {"arco", "sim", "control"} /\ Owned = {"arco", "sim"}
    /\ \A r \in Runs : DevicesOf[r] \subseteq Kinds \ {"stack", "control", "arco", "sim"}
    /\ Devices \subseteq Kinds \ {"stack", "control", "arco", "sim"}
BY RunRecordAssumption DEF Kinds, Recordable, Owned, Devices

\* A step that leaves the files alone.
LEMMA FilesStay ==
    ASSUME OneFileEach, StackInv, NEW r \in Runs, file' = file,
           ProcType',
           RunOK(r)',
           at[r] # "off" => at'[r] # "off",
           \/ room'[r] = room[r]
           \/ room'[r] \in {"none", "boot", "closed"}
           \/ room[r] \notin {"none", "boot", "closed"},
           Dead(r) => ~Running(r, "control")' /\
                      \A k \in Recordable : Running(r, k)' => Running(r, k),
           \A k \in Kinds : proc[r][k] = "stranger" => proc'[r][k] = "stranger",
           \A k \in Kinds : proc'[r][k] = "stranger" /\ proc[r][k] # "stranger" =>
                            \A s \in Sweepers : sweep[s].pc # "stop",
           "window" \notin Accidents /\ Recording(r) => Recording(r)',
           \A q \in Runs : q # r => at'[q] = at[q] /\ proc'[q] = proc[q] /\ room'[q] = room[q]
    PROVE  RunStep(r)
<1>1. Types'
  BY DEF Types, StackInv
<1>2. FileOK(r)'
  BY DEF FileOK, StackInv
<1>3. Careful(r)
  BY DEF Careful, Dead, Running
<1>4. \A q \in Runs : q # r => Same(q)
  BY DEF Same
<1>. QED BY <1>1, <1>2, <1>3, <1>4 DEF RunStep

LEMMA SweepLeft ==
    ASSUME StackInv, NEW r \in Runs, RunStep(r),
           sweep' = sweep \/ sweep' = [sweep EXCEPT ![r] = Idle]
    PROVE  OwnStep(r)
BY DEF StackInv, Sweepers, OwnStep

LEMMA LaunchKeeps ==
    ASSUME OneFileEach, StackInv, NEW r \in Runs, Launch(r)
    PROVE  OwnStep(r)
<1>0. ProcType /\ RunOK(r) /\ FileOK(r)
  BY DEF StackInv
<1>1. /\ file' = file /\ sweep' = sweep
      /\ at[r] = "off" /\ at'[r] # "off" /\ room[r] = "none" /\ room'[r] = "boot"
      /\ at' \in [Runs -> {"off", "starting", "joining", "hold", "stopping", "over"}]
      /\ room' \in [Runs -> Loading \union Closing \union {"none", "serve", "closed"}]
      /\ \A q \in Runs : q # r => at'[q] = at[q] /\ room'[q] = room[q]
  BY <1>0 DEF Launch, Go, Room, ProcType, RunOK, Loading
<1>2. /\ proc' \in [Runs -> [Kinds -> States]]
      /\ proc'[r]["control"] = "up"
      /\ \A k \in Kinds : k \notin {"stack", "control"} => proc'[r][k] = "none"
      /\ proc'[r]["stack"] \in {"none", "up"}
      /\ \A q \in Runs : q # r => proc'[q] = proc[q]
  <2>1. \A k \in Kinds : proc[r][k] = "none"
    BY <1>0, <1>1 DEF RunOK
  <2>2. CASE r \in ByHand
    BY <2>1, <2>2, <1>0, SetProcDoes, KindsDiffer DEF Launch, States
  <2>3. CASE r \notin ByHand
    <3>1. proc' = [proc EXCEPT ![r]["stack"] = "up", ![r]["control"] = "up"]
      BY <2>3 DEF Launch
    <3>. QED BY <3>1, <2>1, <1>0, KindsDiffer DEF ProcType, States
  <2>. QED BY <2>2, <2>3
<1>3. ProcType'
  BY <1>1, <1>2 DEF ProcType, States
<1>4. \A k \in Kinds : proc[r][k] = "none"
  BY <1>0, <1>1 DEF RunOK
<1>5. RunOK(r)'
  BY <1>1, <1>2, KindsDiffer DEF RunOK, Running
<1>6. Recording(r)'
  BY <1>1, <1>2, KindsDiffer DEF Recording, Running
<1>7. /\ ~Dead(r)
      /\ \A k \in Kinds : proc[r][k] # "stranger" /\ proc'[r][k] # "stranger"
  BY <1>1, <1>2, <1>4 DEF Dead
<1>. QED BY <1>1, <1>2, <1>3, <1>5, <1>6, <1>7, FilesStay, SweepLeft

LEMMA SpawnKeeps ==
    ASSUME OneFileEach, StackInv, NEW r \in Runs, Spawn(r)
    PROVE  OwnStep(r)
<1>0. ProcType /\ RunOK(r)
  BY DEF StackInv
<1>1. /\ file' = file /\ sweep' = sweep /\ room' = room
      /\ at'[r] # "off"
      /\ at' \in [Runs -> {"off", "starting", "joining", "hold", "stopping", "over"}]
      /\ \A q \in Runs : q # r => at'[q] = at[q]
  BY <1>0 DEF Spawn, Go, ProcType
<1>2. /\ proc' \in [Runs -> [Kinds -> States]]
      /\ \A k \in Kinds : proc'[r][k] = IF k \in DevicesOf[r] THEN "up" ELSE proc[r][k]
      /\ \A q \in Runs : q # r => proc'[q] = proc[q]
  BY <1>0 DEF Spawn, ProcType, States
<1>3. ProcType'
  BY <1>0, <1>1, <1>2 DEF ProcType, States
<1>4. \A k \in Recordable : proc'[r][k] = proc[r][k]
  BY <1>2, KindsDiffer
<1>5. RunOK(r)'
  BY <1>0, <1>1, <1>2, <1>4, KindsDiffer DEF RunOK, Running
<1>6. Recording(r) => Recording(r)'
  BY <1>1, <1>4, KindsDiffer DEF Recording, Running
<1>7. \A k \in Kinds : proc'[r][k] = "stranger" <=> proc[r][k] = "stranger"
  BY <1>0, <1>2, KindsDiffer DEF RunOK
<1>8. Dead(r) => ~Running(r, "control")' /\
                 \A k \in Recordable : Running(r, k)' => Running(r, k)
  BY <1>4, KindsDiffer DEF Dead, Running
<1>. QED BY <1>1, <1>2, <1>3, <1>5, <1>6, <1>7, <1>8, FilesStay, SweepLeft

\* Hold, Leave and MustLeave only move the runner on.
LEMMA MoveKeeps ==
    ASSUME OneFileEach, StackInv, NEW r \in Runs, Hold(r) \/ Leave(r)
    PROVE  OwnStep(r)
<1>0. ProcType /\ RunOK(r)
  BY DEF StackInv
<1>1. /\ file' = file /\ sweep' = sweep /\ room' = room /\ proc' = proc
      /\ at'[r] # "off" /\ at[r] # "off"
      /\ at' \in [Runs -> {"off", "starting", "joining", "hold", "stopping", "over"}]
      /\ \A q \in Runs : q # r => at'[q] = at[q]
  BY <1>0 DEF Hold, Leave, Go, ProcType, records
<1>2. ProcType'
  BY <1>0, <1>1 DEF ProcType
<1>3. RunOK(r)' /\ (Recording(r) => Recording(r)')
  BY <1>0, <1>1 DEF RunOK, Recording, Running
<1>4. Dead(r) => ~Running(r, "control")' /\
                 \A k \in Recordable : Running(r, k)' => Running(r, k)
  BY <1>1 DEF Dead, Running
<1>. QED BY <1>1, <1>2, <1>3, <1>4, FilesStay, SweepLeft

LEMMA AgainKeeps ==
    ASSUME OneFileEach, StackInv, NEW r \in Runs, Again(r)
    PROVE  OwnStep(r)
<1>0. ProcType /\ RunOK(r)
  BY DEF StackInv
<1>1. file' = file /\ sweep' = sweep /\ room' = room /\ proc' = proc /\ at' = at
  BY DEF Again, records
<1>2. ProcType'
  BY <1>0, <1>1 DEF ProcType
<1>3. RunOK(r)' /\ (Recording(r) => Recording(r)')
  BY <1>0, <1>1 DEF RunOK, Recording, Running
<1>4. Dead(r) => ~Running(r, "control")' /\
                 \A k \in Recordable : Running(r, k)' => Running(r, k)
  BY <1>1 DEF Dead, Running
<1>. QED BY <1>1, <1>2, <1>3, <1>4, FilesStay, SweepLeft

\* One process of the run is signalled, or goes; the run has begun, and Control is
\* in its Room for as long as it runs.
LEMMA Signalled ==
    ASSUME OneFileEach, StackInv, NEW r \in Runs, NEW k \in Kinds, NEW st \in {"asked", "gone"},
           Running(r, k),
           proc' = SetProc(r, k, st),
           file' = file,
           at' = at \/ (at' = [at EXCEPT ![r] = "over"] /\ at[r] # "off"),
           room' = room \/ \E p \in {"none", "closed", "stop arco"} : room' = [room EXCEPT ![r] = p],
           k = "control" /\ st = "gone" => room'[r] = "none",
           k = "control" /\ st = "asked" => room'[r] # "none",
           k # "control" => room' = room,
           room'[r] = "stop arco" => room[r] \in Closing,
           room'[r] = "none" /\ room[r] # "none" /\ "window" \notin Accidents
             => room[r] \notin {"spawned", "simulated"},
           room'[r] = "closed" => room[r] \in {"closed"} \union Closing
    PROVE  RunStep(r)
<1>0. ProcType /\ RunOK(r)
  BY DEF StackInv
<1>1. /\ proc' \in [Runs -> [Kinds -> States]]
      /\ proc'[r][k] = st
      /\ \A j \in Kinds : j # k => proc'[r][j] = proc[r][j]
      /\ \A q \in Runs : q # r => proc'[q] = proc[q]
  <2>. st \in States
    BY DEF States
  <2>. QED BY <1>0, SetProcDoes
<1>2. /\ at' \in [Runs -> {"off", "starting", "joining", "hold", "stopping", "over"}]
      /\ \A q \in Runs : q # r => at'[q] = at[q]
      /\ at'[r] = at[r] \/ (at'[r] = "over" /\ at[r] # "off")
  BY <1>0 DEF ProcType
<1>3. /\ room' \in [Runs -> Loading \union Closing \union {"none", "serve", "closed"}]
      /\ \A q \in Runs : q # r => room'[q] = room[q]
      /\ room'[r] = room[r] \/ room'[r] \in {"none", "closed", "stop arco"}
  BY <1>0 DEF ProcType, Closing
<1>4. ProcType'
  BY <1>1, <1>2, <1>3 DEF ProcType, States
<1>5. at[r] # "off" /\ at'[r] # "off"
  BY <1>0, <1>2 DEF RunOK, Running
<1>6. RunOK(r)'
  <2>1. Running(r, "control")' <=> room'[r] # "none"
    BY <1>0, <1>1, <1>3, KindsDiffer DEF RunOK, Running
  <2>2. room'[r] \in {"boot", "sweep", "spawn"} => proc'[r]["arco"] = "none"
    BY <1>0, <1>1, <1>3, KindsDiffer DEF RunOK, Running
  <2>3. room'[r] \in {"boot", "sweep", "spawn", "spawned", "ready"} => proc'[r]["sim"] = "none"
    BY <1>0, <1>1, <1>3, KindsDiffer DEF RunOK, Running
  <2>4. \A j \in Kinds \ Recordable : proc'[r][j] # "stranger"
    BY <1>0, <1>1 DEF RunOK
  <2>. QED BY <1>5, <2>1, <2>2, <2>3, <2>4 DEF RunOK
<1>7. /\ \A j \in Kinds : proc[r][j] = "stranger" <=> proc'[r][j] = "stranger"
      /\ \A j \in Kinds : Running(r, j)' => Running(r, j)
  BY <1>1 DEF Running
<1>8. Dead(r) => ~Running(r, "control")' /\
                 \A j \in Recordable : Running(r, j)' => Running(r, j)
  BY <1>7, KindsDiffer DEF Dead
<1>9. "window" \notin Accidents /\ Recording(r) => Recording(r)'
  <2>. SUFFICES ASSUME "window" \notin Accidents, Recording(r) PROVE Recording(r)'
    OBVIOUS
  <2>1. room'[r] = room[r] \/ room[r] \notin {"spawned", "simulated"}
    BY <1>3 DEF Closing
  <2>. QED BY <2>1, <1>7, KindsDiffer DEF Recording
<1>10. \/ room'[r] = room[r]
       \/ room'[r] \in {"none", "boot", "closed"}
       \/ room[r] \notin {"none", "boot", "closed"}
  BY <1>3 DEF Closing
<1>. QED BY <1>1, <1>2, <1>3, <1>4, <1>5, <1>6, <1>7, <1>8, <1>9, <1>10, FilesStay

LEMMA AskKeeps ==
    ASSUME OneFileEach, StackInv, LeftType, NEW r \in Runs, Ask(r)
    PROVE  OwnStep(r)
<1>0. ProcType /\ RunOK(r)
  BY DEF StackInv
<1>. DEFINE k == Head(left[r])
<1>1. k \in Kinds
  BY DEF Ask, LeftType
<1>2. CASE ~Running(r, k)
  <2>1. file' = file /\ sweep' = sweep /\ room' = room /\ proc' = proc /\ at' = at
    BY <1>2 DEF Ask
  <2>2. ProcType' /\ RunOK(r)' /\ (Recording(r) => Recording(r)')
    BY <1>0, <2>1 DEF ProcType, RunOK, Recording, Running
  <2>3. Dead(r) => ~Running(r, "control")' /\
                   \A j \in Recordable : Running(r, j)' => Running(r, j)
    BY <2>1 DEF Dead, Running
  <2>. QED BY <2>1, <2>2, <2>3, FilesStay, SweepLeft
<1>3. CASE Running(r, k)
  <2>1. /\ proc' = SetProc(r, k, "asked") /\ file' = file /\ sweep' = sweep /\ at' = at
        /\ room' = IF k = "control" THEN [room EXCEPT ![r] = Interrupted(room[r])] ELSE room
    BY <1>3 DEF Ask
  <2>. HIDE DEF k
  <2>2. k = "control" => room[r] # "none"
    BY <1>0, <1>3 DEF RunOK
  <2>3. \/ room' = room
        \/ room[r] = "stop sim" /\ room' = [room EXCEPT ![r] = "stop arco"] /\ k = "control"
        \/ room[r] = "stop arco" /\ room' = [room EXCEPT ![r] = "closed"] /\ k = "control"
    BY <1>0, <2>1 DEF Interrupted, ProcType
  <2>4. CASE room' = room
    BY <1>1, <1>3, <2>1, <2>2, <2>4, Signalled, SweepLeft, <1>0 DEF Closing, RunOK
  <2>5. CASE room[r] = "stop sim" /\ room' = [room EXCEPT ![r] = "stop arco"] /\ k = "control"
    <3>1. room'[r] = "stop arco"
      BY <2>5, <1>0 DEF ProcType
    <3>. QED BY <1>1, <1>3, <2>1, <2>5, <3>1, Signalled, SweepLeft DEF Closing
  <2>6. CASE room[r] = "stop arco" /\ room' = [room EXCEPT ![r] = "closed"] /\ k = "control"
    <3>1. room'[r] = "closed"
      BY <2>6, <1>0 DEF ProcType
    <3>. QED BY <1>1, <1>3, <2>1, <2>6, <3>1, Signalled, SweepLeft DEF Closing
  <2>. QED BY <2>3, <2>4, <2>5, <2>6
<1>. QED BY <1>2, <1>3

\* A process is killed.
LEMMA KilledKeeps ==
    ASSUME OneFileEach, StackInv, NEW r \in Runs, NEW k \in Kinds, Running(r, k), KillProc(r, k),
           k = "control" /\ "window" \notin Accidents => room[r] \notin {"spawned", "simulated"},
           at' = at \/ at' = [at EXCEPT ![r] = "over"]
    PROVE  OwnStep(r)
<1>0. ProcType /\ RunOK(r)
  BY DEF StackInv
<1>1. at[r] # "off"
  BY <1>0 DEF RunOK, Running
<1>2. proc' = SetProc(r, k, "gone") /\ file' = file
      /\ (sweep' = sweep \/ sweep' = [sweep EXCEPT ![r] = Idle])
      /\ room' = IF k = "control" THEN [room EXCEPT ![r] = "none"] ELSE room
  BY DEF KillProc
<1>3. CASE k = "control"
  <2>1. room' = [room EXCEPT ![r] = "none"] /\ room'[r] = "none"
    BY <1>0, <1>2, <1>3 DEF ProcType
  <2>. QED BY <1>1, <1>2, <1>3, <2>1, Signalled, SweepLeft
<1>4. CASE k # "control"
  <2>1. room' = room
    BY <1>2, <1>4
  <2>. QED BY <1>1, <1>2, <1>4, <2>1, Signalled, SweepLeft DEF Closing
<1>. QED BY <1>3, <1>4

LEMMA GiveUpKeeps ==
    ASSUME OneFileEach, StackInv, NEW r \in Runs, GiveUp(r)
    PROVE  OwnStep(r)
<1>1. /\ Running(r, "control") /\ KillProc(r, "control") /\ at' = at
      /\ room[r] \notin {"spawned", "simulated"}
  BY DEF GiveUp, Running, runner, Late, Closing
<1>. QED BY <1>1, KindsDiffer, KilledKeeps

LEMMA CrashKeeps ==
    ASSUME OneFileEach, StackInv, NEW r \in Runs, Crash(r)
    PROVE  OwnStep(r)
<1>1. PICK k \in Kinds :
         /\ Running(r, k) /\ KillProc(r, k)
         /\ k = "control" /\ room[r] \in {"spawned", "simulated"} => "window" \in Accidents
         /\ at' = at \/ at' = [at EXCEPT ![r] = "over"]
  BY DEF Crash, Go
<1>. QED BY <1>1, KilledKeeps

\* Over, GuestExit and ChildExit: a process other than Control ends.
LEMMA ExitKeeps ==
    ASSUME OneFileEach, StackInv, NEW r \in Runs, Over(r) \/ GuestExit(r) \/ ChildExit(r)
    PROVE  OwnStep(r)
<1>0. ProcType /\ RunOK(r)
  BY DEF StackInv
<1>1. CASE Over(r)
  <2>1. /\ Running(r, "stack") /\ proc' = SetProc(r, "stack", "gone")
        /\ file' = file /\ sweep' = sweep /\ room' = room
        /\ at' = [at EXCEPT ![r] = "over"] /\ at[r] # "off"
    BY <1>1 DEF Over, Go
  <2>. QED BY <2>1, KindsDiffer, Signalled, SweepLeft DEF Closing
<1>2. CASE GuestExit(r) \/ ChildExit(r)
  <2>1. PICK k \in Kinds : /\ Running(r, k) /\ proc' = SetProc(r, k, "gone") /\ k # "control"
                           /\ file' = file /\ sweep' = sweep /\ room' = room /\ at' = at
    BY <1>2, KindsDiffer DEF GuestExit, ChildExit, Exit, Running, runner
  <2>. QED BY <2>1, Signalled, SweepLeft DEF Closing
<1>. QED BY <1>1, <1>2

LEMMA QuitKeeps ==
    ASSUME OneFileEach, StackInv, NEW r \in Runs, Quit(r)
    PROVE  OwnStep(r)
<1>0. ProcType /\ RunOK(r)
  BY DEF StackInv
<1>1. /\ Running(r, "control") /\ proc' = SetProc(r, "control", "gone")
      /\ room[r] = "closed" /\ room' = [room EXCEPT ![r] = "none"]
      /\ sweep' = [sweep EXCEPT ![r] = Idle] /\ file' = file /\ at' = at
  BY DEF Quit, Alone, Room, runner
<1>2. room'[r] = "none"
  BY <1>0, <1>1 DEF ProcType
<1>. QED BY <1>1, <1>2, KindsDiffer, Signalled, SweepLeft

\* Control moves on in its Room, or spawns Arco or the simulator; nothing else
\* happens to the run.
LEMMA RoomKeeps ==
    ASSUME OneFileEach, StackInv, NEW r \in Runs,
           Running(r, "control"),
           file' = file, at' = at,
           sweep' = sweep \/ sweep' = [sweep EXCEPT ![r] = Idle],
           NEW p \in Loading \union Closing \union {"serve", "closed"},
           room' = [room EXCEPT ![r] = p],
           \/ proc' = proc
           \/ room[r] = "spawn" /\ p = "spawned" /\ proc' = SetProc(r, "arco", "up")
           \/ room[r] = "ready" /\ p = "simulated" /\ proc' = SetProc(r, "sim", "up"),
           p \in {"boot", "sweep", "spawn"} => room[r] \in {"boot", "sweep", "spawn"},
           p \in {"spawned", "ready"} =>
             room[r] \in {"boot", "sweep", "spawn", "spawned", "ready"},
           p # "closed" => room[r] \notin {"none", "boot", "closed"},
           room[r] \notin {"spawned", "simulated"}
    PROVE  OwnStep(r)
<1>0. ProcType /\ RunOK(r)
  BY DEF StackInv
<1>1. /\ room'[r] = p
      /\ \A q \in Runs : q # r => room'[q] = room[q]
      /\ room' \in [Runs -> Loading \union Closing \union {"none", "serve", "closed"}]
  BY <1>0 DEF ProcType
<1>2. /\ proc' \in [Runs -> [Kinds -> States]]
      /\ \A q \in Runs : q # r => proc'[q] = proc[q]
      /\ \A k \in Kinds \ {"arco", "sim"} : proc'[r][k] = proc[r][k]
      /\ proc'[r]["arco"] = proc[r]["arco"] \/ (p = "spawned" /\ proc'[r]["arco"] = "up")
      /\ proc'[r]["sim"] = proc[r]["sim"] \/ (p = "simulated" /\ proc'[r]["sim"] = "up")
      /\ proc[r]["arco"] = "stranger" => proc'[r]["arco"] = "stranger"
      /\ proc[r]["sim"] = "stranger" => proc'[r]["sim"] = "stranger"
  <2>1. CASE proc' = proc
    BY <1>0, <2>1 DEF ProcType, States
  <2>2. CASE room[r] = "spawn" /\ p = "spawned" /\ proc' = SetProc(r, "arco", "up")
    <3>1. proc[r]["arco"] = "none" /\ "up" \in States
      BY <1>0, <2>2 DEF RunOK, States
    <3>. QED BY <1>0, <2>2, <3>1, KindsDiffer, SetProcDoes
  <2>3. CASE room[r] = "ready" /\ p = "simulated" /\ proc' = SetProc(r, "sim", "up")
    <3>1. proc[r]["sim"] = "none" /\ "up" \in States
      BY <1>0, <2>3 DEF RunOK, States
    <3>. QED BY <1>0, <2>3, <3>1, KindsDiffer, SetProcDoes
  <2>. QED BY <2>1, <2>2, <2>3
<1>3. ProcType'
  BY <1>0, <1>1, <1>2 DEF ProcType, States
<1>4. at[r] # "off"
  BY <1>0 DEF RunOK, Running
<1>5. RunOK(r)'
  <2>1. Running(r, "control")' /\ room'[r] # "none"
    BY <1>1, <1>2, KindsDiffer DEF Running, Loading, Closing
  <2>2. room'[r] \in {"boot", "sweep", "spawn"} => proc'[r]["arco"] = "none"
    BY <1>0, <1>1, <1>2 DEF RunOK
  <2>3. room'[r] \in {"boot", "sweep", "spawn", "spawned", "ready"} => proc'[r]["sim"] = "none"
    BY <1>0, <1>1, <1>2 DEF RunOK
  <2>4. \A j \in Kinds \ Recordable : proc'[r][j] # "stranger"
    BY <1>0, <1>2, KindsDiffer DEF RunOK
  <2>. QED BY <1>4, <2>1, <2>2, <2>3, <2>4 DEF RunOK
<1>6. ~Dead(r)
  BY DEF Dead
<1>7. Recording(r) => Recording(r)'
  BY <1>1, <1>2 DEF Recording, Running
<1>8. /\ \A k \in Kinds : proc[r][k] = "stranger" => proc'[r][k] = "stranger"
      /\ \A k \in Kinds : proc'[r][k] = "stranger" => proc[r][k] = "stranger"
  BY <1>2
<1>9. \/ room'[r] = room[r]
      \/ room'[r] \in {"none", "boot", "closed"}
      \/ room[r] \notin {"none", "boot", "closed"}
  BY <1>1
<1>. QED BY <1>1, <1>2, <1>3, <1>4, <1>5, <1>6, <1>7, <1>8, <1>9, FilesStay, SweepLeft

\* SpawnArco, SpawnSim, Unwind and the part of CloseStep that goes on.
LEMMA RoomStepKeeps ==
    ASSUME OneFileEach, StackInv, NEW r \in Runs,
           SpawnArco(r) \/ SpawnSim(r) \/ Unwind(r)
    PROVE  OwnStep(r)
<1>0. ProcType /\ RunOK(r)
  BY DEF StackInv
<1>1. Running(r, "control") /\ file' = file /\ at' = at
  BY DEF SpawnArco, SpawnSim, Unwind, Alone, runner
<1>2. CASE SpawnArco(r)
  <2>1. /\ room' = [room EXCEPT ![r] = "spawned"] /\ room[r] = "spawn" /\ sweep' = sweep
        /\ proc' = SetProc(r, "arco", "up") /\ "spawned" \in Loading
    BY <1>2 DEF SpawnArco, Room, Loading
  <2>. QED BY <1>1, <2>1, RoomKeeps
<1>3. CASE SpawnSim(r)
  <2>1. CASE r \in Simulated
    <3>1. /\ room' = [room EXCEPT ![r] = "simulated"] /\ room[r] = "ready" /\ sweep' = sweep
          /\ proc' = SetProc(r, "sim", "up") /\ "simulated" \in Loading
      BY <1>3, <2>1 DEF SpawnSim, Room, Loading
    <3>. QED BY <1>1, <3>1, RoomKeeps
  <2>2. CASE r \notin Simulated
    <3>1. /\ room' = [room EXCEPT ![r] = "serve"] /\ room[r] = "ready" /\ sweep' = sweep
          /\ proc' = proc
      BY <1>3, <2>2 DEF SpawnSim, Room
    <3>. QED BY <1>1, <3>1, RoomKeeps
  <2>. QED BY <2>1, <2>2
<1>4. CASE Unwind(r)
  <2>1. proc' = proc /\ sweep' = [sweep EXCEPT ![r] = Idle]
        /\ room' = [room EXCEPT ![r] = IF room[r] \in {"boot", "sweep", "spawn"}
                                       THEN "closed" ELSE "stop sim"]
        /\ room[r] \in {"boot", "sweep", "spawn", "ready", "serve"}
    BY <1>4 DEF Unwind, Room
  <2>2. CASE room[r] \in {"boot", "sweep", "spawn"}
    <3>1. room' = [room EXCEPT ![r] = "closed"]
      BY <2>1, <2>2
    <3>. QED BY <1>1, <2>1, <2>2, <3>1, RoomKeeps
  <2>3. CASE room[r] \in {"ready", "serve"}
    <3>1. room' = [room EXCEPT ![r] = "stop sim"] /\ "stop sim" \in Closing
      BY <2>1, <2>3 DEF Closing
    <3>. QED BY <1>1, <2>1, <2>3, <3>1, RoomKeeps
  <2>. QED BY <2>1, <2>2, <2>3
<1>. QED BY <1>2, <1>3, <1>4

LEMMA CloseStepKeeps ==
    ASSUME OneFileEach, StackInv, NEW r \in Runs, CloseStep(r)
    PROVE  OwnStep(r)
<1>0. ProcType /\ RunOK(r)
  BY DEF StackInv
<1>1. Running(r, "control") /\ file' = file /\ at' = at /\ sweep' = sweep /\ room[r] \in Closing
  BY DEF CloseStep, Alone, runner
<1>. DEFINE k == Child(room[r])
<1>2. k \in Kinds /\ k # "control"
  BY KindsDiffer DEF Child
<1>3. \/ /\ proc[r][k] \in {"up", "asked"} /\ room' = room
         /\ \E st \in {"asked", "gone"} : proc' = SetProc(r, k, st)
      \/ Room(r, Interrupted(room[r])) /\ proc' = proc
  BY DEF CloseStep
<1>. HIDE DEF k
<1>4. ASSUME NEW st \in {"asked", "gone"}, proc' = SetProc(r, k, st), room' = room,
             proc[r][k] \in {"up", "asked"}
      PROVE  OwnStep(r)
  <2>1. Running(r, k)
    BY <1>4 DEF Running
  <2>2. room[r] # "none"
    BY <1>1 DEF Closing
  <2>. QED BY <1>1, <1>2, <1>4, <2>1, <2>2, Signalled, SweepLeft
<1>5. CASE Room(r, Interrupted(room[r])) /\ proc' = proc
  <2>1. CASE room[r] = "stop sim"
    <3>1. room' = [room EXCEPT ![r] = "stop arco"] /\ "stop arco" \in Closing
      BY <1>5, <2>1 DEF Room, Interrupted, Closing
    <3>. QED BY <1>1, <1>5, <2>1, <3>1, RoomKeeps
  <2>2. CASE room[r] = "stop arco"
    <3>1. room' = [room EXCEPT ![r] = "closed"]
      BY <1>5, <2>2 DEF Room, Interrupted
    <3>. QED BY <1>1, <1>5, <2>2, <3>1, RoomKeeps
  <2>. QED BY <1>1, <2>1, <2>2 DEF Closing
<1>. QED BY <1>3, <1>4, <1>5

\* A process id is used again.
LEMMA ReuseKeeps ==
    ASSUME OneFileEach, StackInv, NEW r \in Runs, ReuseOne(r)
    PROVE  OwnStep(r)
<1>0. ProcType /\ RunOK(r)
  BY DEF StackInv
<1>1. PICK k \in Kinds : Reuse(r, k)
  BY DEF ReuseOne
<1>2. /\ k \in Recordable /\ proc[r][k] = "gone" /\ proc' = SetProc(r, k, "stranger")
      /\ \A s \in Sweepers : sweep[s].pc # "stop"
      /\ file' = file /\ sweep' = sweep /\ room' = room /\ at' = at
  BY <1>1 DEF ReuseOne, Reuse, Recordable
<1>3. /\ proc' \in [Runs -> [Kinds -> States]]
      /\ proc'[r][k] = "stranger"
      /\ \A j \in Kinds : j # k => proc'[r][j] = proc[r][j]
      /\ \A q \in Runs : q # r => proc'[q] = proc[q]
  <2>. "stranger" \in States
    BY DEF States
  <2>. QED BY <1>0, <1>2, SetProcDoes
<1>4. ProcType'
  BY <1>0, <1>2, <1>3 DEF ProcType, States
<1>5. \A j \in Kinds : Running(r, j)' <=> Running(r, j)
  BY <1>2, <1>3 DEF Running
<1>6. RunOK(r)'
  BY <1>0, <1>2, <1>3, <1>5, KindsDiffer DEF RunOK
<1>7. Recording(r) => Recording(r)'
  BY <1>2, <1>5, KindsDiffer DEF Recording
<1>8. Dead(r) => ~Running(r, "control")' /\
                 \A j \in Recordable : Running(r, j)' => Running(r, j)
  BY <1>5, KindsDiffer DEF Dead
<1>9. \A j \in Kinds : proc[r][j] = "stranger" => proc'[r][j] = "stranger"
  BY <1>2, <1>3
<1>. QED BY <1>2, <1>3, <1>4, <1>6, <1>7, <1>8, <1>9, FilesStay, SweepLeft

-----------------------------------------------------------------------------
(* Records                                                                 *)

LEMMA RecordedDoes ==
    ASSUME OneFileEach, Types, NEW r \in Runs, NEW k \in Recordable,
           file' = Recorded(r, k)
    PROVE  /\ file' \in [Dirs -> Seq(Entry)]
           /\ file[DirOf[r]] \in Seq(Entry)
           /\ file[DirOf[r]] = NoFile => file'[DirOf[r]] = <<Rec(r, k)>>
           /\ file[DirOf[r]] # NoFile =>
                /\ file'[DirOf[r]] = Append(file[DirOf[r]], Rec(r, k))
                /\ \A x : Contains(file[DirOf[r]], x) => Contains(file'[DirOf[r]], x)
           /\ file'[DirOf[r]] # NoFile
           /\ Contains(file'[DirOf[r]], Rec(r, k))
           /\ \A q \in Runs : q # r => file'[DirOf[q]] = file[DirOf[q]]
<1>. DEFINE f == file[DirOf[r]]
            g == file'[DirOf[r]]
<1>1. Rec(r, k) \in Entry /\ Rec(r, k).run = r /\ r # 0
  BY RunRecordAssumption DEF Rec, Entry, Runs
<1>2. f \in Seq(Entry) /\ DirOf[r] \in Dirs
  BY DirIn DEF Types
<1>3. file' = [file EXCEPT ![DirOf[r]] = IF f = NoFile THEN <<Rec(r, k)>> ELSE Append(f, Rec(r, k))]
  BY DEF Recorded
<1>4. g = IF f = NoFile THEN <<Rec(r, k)>> ELSE Append(f, Rec(r, k))
  BY <1>2, <1>3 DEF Types
<1>5. \A q \in Runs : q # r => file'[DirOf[q]] = file[DirOf[q]]
  BY <1>3, DirIn DEF Types, OneFileEach
<1>6. g \in Seq(Entry)
  BY <1>1, <1>2, <1>4
<1>7. file' \in [Dirs -> Seq(Entry)]
  BY <1>1, <1>2, <1>3 DEF Types
<1>. HIDE DEF f, g
<1>8. CASE f = NoFile
  <2>1. g = <<Rec(r, k)>>
    BY <1>4, <1>8
  <2>2. g[1] = Rec(r, k) /\ Len(g) = 1
    BY <2>1
  <2>3. g # NoFile
    BY <1>1, <2>2 DEF NoFile
  <2>4. Contains(g, Rec(r, k))
    BY <2>2 DEF Contains
  <2>. QED BY <1>2, <1>5, <1>7, <1>8, <2>1, <2>3, <2>4 DEF f, g
<1>9. CASE f # NoFile
  <2>1. g = Append(f, Rec(r, k))
    BY <1>4, <1>9
  <2>2. /\ Len(f) \in Nat /\ Len(g) = Len(f) + 1 /\ g[Len(g)] = Rec(r, k)
        /\ \A i \in 1 .. Len(f) : g[i] = f[i]
    BY <1>1, <1>2, <2>1
  <2>3. g # NoFile
    <3>1. Len(NoFile) = 1 /\ NoFile[1].run = 0
      BY DEF NoFile
    <3>. QED BY <1>1, <2>2, <3>1
  <2>4. Contains(g, Rec(r, k))
    BY <2>2 DEF Contains
  <2>5. \A x : Contains(f, x) => Contains(g, x)
    BY <2>2 DEF Contains
  <2>. QED BY <1>2, <1>5, <1>7, <1>9, <2>1, <2>3, <2>4, <2>5 DEF f, g
<1>. QED BY <1>8, <1>9

\* A line is added to the run's file.
LEMMA RecordKeeps ==
    ASSUME OneFileEach, StackInv, NEW r \in Runs, Boot(r) \/ RecordArco(r) \/ RecordSim(r)
    PROVE  OwnStep(r)
<1>0. ProcType /\ RunOK(r) /\ FileOK(r) /\ Types
  BY DEF StackInv, Types
<1>1. PICK k \in Recordable, p \in Loading \union {"serve"} :
         /\ file' = Recorded(r, k) /\ room' = [room EXCEPT ![r] = p]
         /\ \/ k = "control" /\ room[r] = "boot" /\ p = "sweep"
            \/ k = "arco" /\ room[r] = "spawned" /\ p = "ready"
            \/ k = "sim" /\ room[r] = "simulated" /\ p = "serve"
  BY KindsDiffer DEF Boot, RecordArco, RecordSim, Room, Loading
<1>2. Running(r, "control") /\ proc' = proc /\ sweep' = sweep /\ at' = at
  BY DEF Boot, RecordArco, RecordSim, Alone, runner
<1>3. /\ room'[r] = p
      /\ \A q \in Runs : q # r => room'[q] = room[q]
      /\ room' \in [Runs -> Loading \union Closing \union {"none", "serve", "closed"}]
  BY <1>0, <1>1 DEF ProcType
<1>. DEFINE f == file[DirOf[r]]
            g == file'[DirOf[r]]
<1>4. /\ file' \in [Dirs -> Seq(Entry)] /\ f \in Seq(Entry)
      /\ f = NoFile => g = <<Rec(r, k)>>
      /\ f # NoFile => g = Append(f, Rec(r, k)) /\ \A x : Contains(f, x) => Contains(g, x)
      /\ g # NoFile /\ Contains(g, Rec(r, k))
      /\ \A q \in Runs : q # r => file'[DirOf[q]] = file[DirOf[q]]
  BY <1>0, <1>1, RecordedDoes
<1>. HIDE DEF f, g
<1>5. Types'
  BY <1>0, <1>2, <1>3, <1>4 DEF Types, ProcType
<1>6. at[r] # "off"
  BY <1>0, <1>2 DEF RunOK, Running
<1>7. RunOK(r)'
  BY <1>0, <1>1, <1>2, <1>3, <1>6 DEF RunOK, Running, Loading
<1>8. FileOK(r)'
  <2>1. CASE f = NoFile
    <3>1. k = "control"
      BY <1>0, <1>1, <2>1 DEF FileOK, f
    <3>2. g = <<Rec(r, "control")>>
      BY <1>4, <2>1, <3>1
    <3>3. /\ g # <<>> /\ g[1] = Rec(r, "control")
          /\ \A i \in DOMAIN g : g[i].run = r /\ g[i].kind \in Recordable
      BY <3>2, KindsDiffer DEF Rec
    <3>. QED BY <1>2, <1>6, <3>3, <1>4 DEF FileOK, g
  <2>2. CASE f # NoFile
    <3>1. /\ f # <<>> /\ f[1] = Rec(r, "control")
          /\ \A i \in DOMAIN f : f[i].run = r /\ f[i].kind \in Recordable
      BY <1>0, <2>2 DEF FileOK, f
    <3>2. g = Append(f, Rec(r, k)) /\ Rec(r, k).run = r /\ Rec(r, k).kind \in Recordable
      BY <1>4, <2>2 DEF Rec
    <3>3. /\ g # <<>> /\ g[1] = Rec(r, "control")
          /\ \A i \in DOMAIN g : g[i].run = r /\ g[i].kind \in Recordable
      BY <1>4, <3>1, <3>2
    <3>. QED BY <1>2, <1>6, <3>3, <1>4 DEF FileOK, g
  <2>. QED BY <2>1, <2>2
<1>9. Careful(r)
  BY <1>2 DEF Careful, Dead
<1>10. Recording(r) => Recording(r)'
  <2>. SUFFICES ASSUME Recording(r) PROVE Recording(r)'
    OBVIOUS
  <2>1. Running(r, "arco") => Contains(g, Rec(r, "arco"))
    <3>1. CASE k = "arco"
      BY <1>4, <3>1
    <3>2. CASE k # "arco"
      BY <1>1, <1>4, <3>2 DEF Recording, f
    <3>. QED BY <3>1, <3>2
  <2>2. Running(r, "sim") => Contains(g, Rec(r, "sim"))
    <3>1. CASE k = "sim"
      BY <1>4, <3>1
    <3>2. CASE k # "sim"
      BY <1>1, <1>4, <3>2 DEF Recording, f
    <3>. QED BY <3>1, <3>2
  <2>. QED BY <1>2, <1>4, <2>1, <2>2 DEF Recording, Running, g
<1>11. \A q \in Runs : q # r => Same(q)
  BY <1>2, <1>3, <1>4 DEF Same
<1>12. /\ sweep' = [s \in Sweepers |-> sweep'[s]]
       /\ \A s \in Sweepers : sweep'[s] \in {sweep[s], Idle}
  BY <1>2 DEF StackInv
<1>. QED BY <1>5, <1>7, <1>8, <1>9, <1>10, <1>11, <1>12 DEF OwnStep, RunStep

-----------------------------------------------------------------------------
(* Steps of a sweep                                                        *)

\* What each kind of update does to a sweep; the others are left alone.
OnlySweep(s) ==
    /\ sweep' = [t \in Sweepers |-> sweep'[t]]
    /\ \A t \in Sweepers : t # s => sweep'[t] = sweep[t]

LEMMA SettledIs ==
    ASSUME StackInv, NEW s \in Sweepers, NEW ok \in BOOLEAN, sweep[s].queue # <<>>
    PROVE  /\ sweep[s] \in SweepState /\ sweep = [t \in Sweepers |-> sweep[t]]
           /\ Settled(s, ok) = [sweep EXCEPT ![s] =
                [pc |-> "look", todo |-> sweep[s].todo, queue |-> Tail(sweep[s].queue),
                 handled |-> sweep[s].handled /\ ok, owed |-> sweep[s].owed]]
<1>1. sweep[s] \in SweepState /\ sweep = [t \in Sweepers |-> sweep[t]]
  BY DEF StackInv, SweepType
<1>. DEFINE o == sweep[s]
            h == o.handled /\ ok
            n == [pc |-> "look", todo |-> o.todo, queue |-> Tail(o.queue),
                  handled |-> h, owed |-> o.owed]
<1>2. Settled(s, ok) = [sweep EXCEPT ![s] = n]
  <2>1. o = [pc |-> o.pc, todo |-> o.todo, queue |-> o.queue, handled |-> o.handled,
             owed |-> o.owed]
    BY <1>1 DEF SweepState
  <2>2. [o EXCEPT !.pc = "look", !.queue = Tail(o.queue), !.handled = h] = n
    <3>. DEFINE a == [o EXCEPT !.pc = "look"]
                b == [a EXCEPT !.queue = Tail(o.queue)]
                c == [b EXCEPT !.handled = h]
    <3>1. a = [pc |-> "look", todo |-> o.todo, queue |-> o.queue, handled |-> o.handled,
               owed |-> o.owed]
      BY <2>1
    <3>2. c = [o EXCEPT !.pc = "look", !.queue = Tail(o.queue), !.handled = h]
      OBVIOUS
    <3>. HIDE DEF a, h
    <3>3. b = [pc |-> "look", todo |-> o.todo, queue |-> Tail(o.queue), handled |-> o.handled,
               owed |-> o.owed]
      BY <3>1
    <3>. HIDE DEF b
    <3>. DEFINE t == o.todo
                q == Tail(o.queue)
                g == o.handled
                w == o.owed
    <3>4. /\ b = [pc |-> "look", todo |-> t, queue |-> q, handled |-> g, owed |-> w]
          /\ n = [pc |-> "look", todo |-> t, queue |-> q, handled |-> h, owed |-> w]
      BY <3>3
    <3>. HIDE DEF t, q, g, w, n
    <3>5. c = n
      BY <3>4
    <3>. QED BY <3>2, <3>5
  <2>3. Settled(s, ok) = [sweep EXCEPT ![s] = [o EXCEPT !.pc = "look", !.queue = Tail(o.queue),
                                                       !.handled = h]]
    BY <1>1 DEF Settled
  <2>. QED BY <2>2, <2>3
<1>. QED BY <1>1, <1>2

\* What is owed once a record is dealt with.
LEMMA SettledDoes ==
    ASSUME StackInv, NEW s \in Sweepers, NEW ok \in BOOLEAN, sweep[s].queue # <<>>,
           NEW w \in SUBSET sweep[s].owed,
           \/ sweep' = Settled(s, ok) /\ w = sweep[s].owed
           \/ sweep' = [Settled(s, ok) EXCEPT ![s].owed = w]
    PROVE  /\ OnlySweep(s) /\ SweepType(s)'
           /\ sweep'[s].pc = "look"
           /\ sweep'[s].todo = sweep[s].todo
           /\ sweep'[s].queue = Tail(sweep[s].queue)
           /\ sweep'[s].handled = (sweep[s].handled /\ ok)
           /\ sweep'[s].owed = w
<1>. DEFINE o == sweep[s]
            t == o.todo
            q == Tail(o.queue)
            h == o.handled /\ ok
            v == o.owed
            m == [pc |-> "look", todo |-> t, queue |-> q, handled |-> h, owed |-> v]
            n == [pc |-> "look", todo |-> t, queue |-> q, handled |-> h, owed |-> w]
<1>1. /\ o \in SweepState /\ sweep = [x \in Sweepers |-> sweep[x]]
      /\ Settled(s, ok) = [sweep EXCEPT ![s] = m]
  BY SettledIs
<1>2. /\ t \in SUBSET Dirs /\ q \in Seq(Entry) /\ h \in BOOLEAN /\ w \in SUBSET Owing
      /\ "look" \in Places
  BY <1>1 DEF SweepState, Places
<1>3. sweep' = [sweep EXCEPT ![s] = n]
  <2>1. CASE sweep' = Settled(s, ok) /\ w = sweep[s].owed
    BY <1>1, <2>1
  <2>2. CASE sweep' = [Settled(s, ok) EXCEPT ![s].owed = w]
    <3>. HIDE DEF t, q, h, v
    <3>1. [m EXCEPT !.owed = w] = n
      OBVIOUS
    <3>. HIDE DEF m, n
    <3>2. sweep' = [[sweep EXCEPT ![s] = m] EXCEPT ![s] = [m EXCEPT !.owed = w]]
      BY <1>1, <2>2
    <3>. QED BY <1>1, <3>1, <3>2
  <2>. QED BY <2>1, <2>2
<1>4. sweep'[s] = n /\ OnlySweep(s)
  BY <1>1, <1>3 DEF OnlySweep
<1>5. n \in SweepState
  <2>. HIDE DEF t, q, h
  <2>. QED BY <1>2 DEF SweepState
<1>6. SweepType(s)'
  BY <1>4, <1>5 DEF SweepType
<1>7. n.pc = "look" /\ n.todo = t /\ n.queue = q /\ n.handled = h /\ n.owed = w
  <2>. HIDE DEF t, q, h
  <2>. QED OBVIOUS
<1>. HIDE DEF n
<1>. QED BY <1>4, <1>6, <1>7

LEMMA PassedDoes ==
    ASSUME StackInv, NEW s \in Sweepers, sweep' = Passed(s)
    PROVE  /\ OnlySweep(s) /\ SweepType(s)'
           /\ sweep'[s].pc = "open"
           /\ sweep'[s].todo = sweep[s].todo \ {First(s)}
           /\ sweep'[s].owed = sweep[s].owed
<1>1. sweep[s] \in SweepState /\ sweep = [t \in Sweepers |-> sweep[t]]
  BY DEF StackInv, SweepType
<1>. DEFINE o == sweep[s]
            n == [pc |-> "open", todo |-> o.todo \ {First(s)}, queue |-> o.queue,
                  handled |-> o.handled, owed |-> o.owed]
<1>2. sweep' = [sweep EXCEPT ![s] = n]
  <2>1. o = [pc |-> o.pc, todo |-> o.todo, queue |-> o.queue, handled |-> o.handled,
             owed |-> o.owed]
    BY <1>1 DEF SweepState
  <2>2. [o EXCEPT !.todo = o.todo \ {First(s)}, !.pc = "open"] = n
    <3>. DEFINE a == [o EXCEPT !.todo = o.todo \ {First(s)}]
                b == [a EXCEPT !.pc = "open"]
    <3>1. a = [pc |-> o.pc, todo |-> o.todo \ {First(s)}, queue |-> o.queue,
               handled |-> o.handled, owed |-> o.owed]
      BY <2>1
    <3>2. b = [o EXCEPT !.todo = o.todo \ {First(s)}, !.pc = "open"]
      OBVIOUS
    <3>. HIDE DEF a
    <3>3. b = n
      BY <3>1
    <3>. QED BY <3>2, <3>3
  <2>3. sweep' = [sweep EXCEPT ![s] = [o EXCEPT !.todo = o.todo \ {First(s)}, !.pc = "open"]]
    BY <1>1 DEF Passed
  <2>. QED BY <2>2, <2>3
<1>3. sweep'[s] = n /\ OnlySweep(s)
  BY <1>1, <1>2 DEF OnlySweep
<1>4. n \in SweepState
  BY <1>1 DEF SweepState, Places
<1>. QED BY <1>3, <1>4 DEF SweepType

LEMMA ToDoes ==
    ASSUME StackInv, NEW s \in Sweepers, NEW p \in Places, sweep' = To(s, p)
    PROVE  /\ OnlySweep(s) /\ SweepType(s)'
           /\ sweep'[s].pc = p
           /\ sweep'[s].todo = sweep[s].todo
           /\ sweep'[s].queue = sweep[s].queue
           /\ sweep'[s].handled = sweep[s].handled
           /\ sweep'[s].owed = sweep[s].owed
<1>1. sweep[s] \in SweepState /\ sweep = [t \in Sweepers |-> sweep[t]]
  BY DEF StackInv, SweepType
<1>. DEFINE o == sweep[s]
            n == [pc |-> p, todo |-> o.todo, queue |-> o.queue,
                  handled |-> o.handled, owed |-> o.owed]
<1>2. sweep' = [sweep EXCEPT ![s] = n]
  <2>1. o = [pc |-> o.pc, todo |-> o.todo, queue |-> o.queue, handled |-> o.handled,
             owed |-> o.owed]
    BY <1>1 DEF SweepState
  <2>2. [o EXCEPT !.pc = p] = n
    BY <2>1
  <2>3. sweep' = [sweep EXCEPT ![s] = [o EXCEPT !.pc = p]]
    BY <1>1 DEF To
  <2>. QED BY <2>2, <2>3
<1>3. sweep'[s] = n /\ OnlySweep(s)
  BY <1>1, <1>2 DEF OnlySweep
<1>4. n \in SweepState
  BY <1>1 DEF SweepState
<1>. QED BY <1>3, <1>4 DEF SweepType

\* A new sweep, and a file that is taken up.
LEMMA BeginDoes ==
    ASSUME StackInv, NEW s \in Sweepers, BeginSweep(s)
    PROVE  /\ OnlySweep(s) /\ SweepType(s)'
           /\ sweep'[s].pc = "open"
           /\ sweep'[s].todo = {d \in Dirs : file[d] # NoFile}
           /\ sweep'[s].owed = Leftovers
<1>. DEFINE t == {d \in Dirs : file[d] # NoFile}
            q == <<>>
            h == TRUE
            w == Leftovers
            n == [pc |-> "open", todo |-> t, queue |-> q, handled |-> h, owed |-> w]
<1>1. sweep = [x \in Sweepers |-> sweep[x]]
  BY DEF StackInv
<1>2. /\ t \in SUBSET Dirs /\ q \in Seq(Entry) /\ h \in BOOLEAN /\ w \in SUBSET Owing
      /\ "open" \in Places
  BY DEF Leftovers, Owing, Places
<1>3. sweep' = [sweep EXCEPT ![s] = n]
  <2>. DEFINE i == [pc |-> "off", todo |-> {}, queue |-> q, handled |-> h, owed |-> {}]
              a == [i EXCEPT !.pc = "open"]
              b == [a EXCEPT !.todo = t]
              c == [b EXCEPT !.owed = w]
  <2>1. sweep' = [sweep EXCEPT ![s] = [Idle EXCEPT !.pc = "open", !.todo = t, !.owed = w]]
    BY DEF BeginSweep
  <2>2. Idle = i
    BY DEF Idle
  <2>. HIDE DEF t, q, h, w
  <2>3. a = [pc |-> "open", todo |-> {}, queue |-> q, handled |-> h, owed |-> {}]
    OBVIOUS
  <2>4. c = [i EXCEPT !.pc = "open", !.todo = t, !.owed = w]
    OBVIOUS
  <2>. HIDE DEF a
  <2>5. b = [pc |-> "open", todo |-> t, queue |-> q, handled |-> h, owed |-> {}]
    BY <2>3
  <2>. HIDE DEF b
  <2>6. c = n
    BY <2>5
  <2>. HIDE DEF c, n, i
  <2>. QED BY <2>1, <2>2, <2>4, <2>6
<1>. HIDE DEF t, q, h, w
<1>4. n \in SweepState /\ n.pc = "open" /\ n.todo = t /\ n.owed = w
  BY <1>2 DEF SweepState
<1>. HIDE DEF n
<1>5. sweep'[s] = n /\ OnlySweep(s)
  BY <1>1, <1>3 DEF OnlySweep
<1>. QED BY <1>4, <1>5 DEF SweepType, t, w

LEMMA OpenedDoes ==
    ASSUME StackInv, NEW s \in Sweepers, NEW f \in Seq(Entry),
           sweep' = [sweep EXCEPT ![s].pc = "look", ![s].queue = f, ![s].handled = TRUE]
    PROVE  /\ OnlySweep(s) /\ SweepType(s)'
           /\ sweep'[s].pc = "look"
           /\ sweep'[s].todo = sweep[s].todo
           /\ sweep'[s].queue = f
           /\ sweep'[s].owed = sweep[s].owed
<1>. DEFINE o == sweep[s]
            t == o.todo
            h == TRUE
            w == o.owed
            n == [pc |-> "look", todo |-> t, queue |-> f, handled |-> h, owed |-> w]
<1>1. o \in SweepState /\ sweep = [x \in Sweepers |-> sweep[x]]
  BY DEF StackInv, SweepType
<1>2. /\ t \in SUBSET Dirs /\ h \in BOOLEAN /\ w \in SUBSET Owing
      /\ "look" \in Places
  BY <1>1 DEF SweepState, Places
<1>3. sweep' = [sweep EXCEPT ![s] = n]
  <2>. DEFINE p == o.pc
              q == o.queue
              g == o.handled
              a == [o EXCEPT !.pc = "look"]
              b == [a EXCEPT !.queue = f]
              c == [b EXCEPT !.handled = h]
  <2>1. o = [pc |-> p, todo |-> t, queue |-> q, handled |-> g, owed |-> w]
    BY <1>1 DEF SweepState
  <2>2. sweep' = [sweep EXCEPT ![s] = c]
    BY <1>1
  <2>. HIDE DEF o, t, h, w, p, q, g
  <2>3. a = [pc |-> "look", todo |-> t, queue |-> q, handled |-> g, owed |-> w]
    BY <2>1
  <2>. HIDE DEF a
  <2>4. b = [pc |-> "look", todo |-> t, queue |-> f, handled |-> g, owed |-> w]
    BY <2>3
  <2>. HIDE DEF b
  <2>5. c = n
    BY <2>4
  <2>. HIDE DEF c, n
  <2>. QED BY <2>2, <2>5
<1>. HIDE DEF t, h, w
<1>4. n \in SweepState /\ n.pc = "look" /\ n.todo = t /\ n.queue = f /\ n.owed = w
  BY <1>2 DEF SweepState
<1>. HIDE DEF n
<1>5. sweep'[s] = n /\ OnlySweep(s)
  BY <1>1, <1>3 DEF OnlySweep
<1>. QED BY <1>4, <1>5 DEF SweepType, t, w

\* What a step of sweep s must keep, whatever it does to the runs.
SweepMove(s) ==
    /\ Types'
    /\ \A r \in Runs : RunOK(r)' /\ FileOK(r)' /\ Careful(r)
    /\ OnlySweep(s) /\ SweepType(s)' /\ SweepOK(s)'

LEMMA SweepMoveOK ==
    ASSUME StackInv, NEW s \in Sweepers, SweepMove(s)
    PROVE  StackInv' /\ \A r \in Runs : Careful(r)
<1>1. \A t \in Sweepers : SweepType(t)' /\ SweepOK(t)'
  <2>. SUFFICES ASSUME NEW t \in Sweepers, t # s PROVE SweepType(t)' /\ SweepOK(t)'
    BY DEF SweepMove
  <2>1. sweep'[t] = sweep[t]
    BY DEF SweepMove, OnlySweep
  <2>. QED BY <2>1, SweepOKKept DEF SweepMove
<1>. QED BY <1>1 DEF SweepMove, OnlySweep, StackInv, Types

\* A step that leaves the processes and the files alone.
LEMMA RunsKept ==
    ASSUME StackInv, proc' = proc, file' = file, at' = at, room' = room
    PROVE  /\ Types'
           /\ \A r \in Runs : RunOK(r)' /\ FileOK(r)' /\ Careful(r)
           /\ \A r \in Runs : Recording(r) => Recording(r)'
<1>1. Types'
  BY DEF StackInv, Types, ProcType
<1>2. \A r \in Runs : Same(r)
  BY DEF Same
<1>. QED BY <1>1, <1>2, SameOK DEF StackInv

\* A process is stopped; only the run it is of is concerned.
LEMMA RunStepOK ==
    ASSUME StackInv, NEW r \in Runs, RunStep(r)
    PROVE  /\ Types'
           /\ \A q \in Runs : RunOK(q)' /\ FileOK(q)' /\ Careful(q)
           /\ \A q \in Runs : "window" \notin Accidents /\ Recording(q) => Recording(q)'
BY SameOK DEF StackInv, RunStep

\* Of a run's file, only its first record is a supervisor's that counts.
LEMMA LiveIs ==
    ASSUME StackInv, NEW r \in Runs, file[DirOf[r]] # NoFile
    PROVE  LiveSupervisor(file[DirOf[r]]) <=> Running(r, "control")
<1>. DEFINE f == file[DirOf[r]]
<1>1. f \in Seq(Entry) /\ f # <<>> /\ f[1] = Rec(r, "control")
  BY DirIn DEF StackInv, FileOK
<1>. HIDE DEF f
<1>2. 1 \in DOMAIN f /\ f[1].kind = "control" /\ f[1].run = r
  BY <1>1 DEF Rec
<1>3. 1 \in Supervisor(f)
  BY <1>2 DEF Supervisor
<1>4. \A i \in Supervisor(f) : i = 1
  <2>. SUFFICES ASSUME NEW i \in Supervisor(f), i # 1 PROVE FALSE
    OBVIOUS
  <2>1. i \in 1 .. Len(f) /\ \A j \in 1 .. i - 1 : f[j].kind # "control"
    BY <1>1 DEF Supervisor
  <2>. QED BY <1>2, <2>1
<1>. QED BY <1>2, <1>3, <1>4 DEF LiveSupervisor, SpawnTimeMatches, IsAlive, f

LEMMA TailContains ==
    ASSUME NEW S, NEW q \in Seq(S), NEW x, Contains(q, x), q # <<>>, x # Head(q)
    PROVE  Contains(Tail(q), x)
<1>1. PICK i \in 1 .. Len(q) : q[i] = x
  BY DEF Contains
<1>2. i # 1
  BY <1>1
<1>3. i - 1 \in 1 .. Len(Tail(q)) /\ Tail(q)[i - 1] = x
  BY <1>1, <1>2
<1>. QED BY <1>3 DEF Contains

LEMMA OwingIs ==
    ASSUME NEW x \in Owing
    PROVE  x.run \in Runs /\ x.kind \in Owned /\ x = Rec(x.run, x.kind)
BY DEF Owing, Rec

\* A sweep that is left alone, or has just asked a process to stop.
LEMMA CoversKept ==
    ASSUME StackInv, NEW s \in Sweepers, \A r \in Runs : Careful(r), Covers(s),
           sweep'[s].pc = sweep[s].pc \/ (sweep[s].pc = "look" /\ sweep'[s].pc = "stop"),
           sweep'[s].todo = sweep[s].todo, sweep'[s].queue = sweep[s].queue,
           sweep'[s].handled = sweep[s].handled, sweep'[s].owed = sweep[s].owed
    PROVE  Covers(s)'
<1>1. First(s)' = First(s)
  BY DEF First
<1>2. SweepType(s) /\ SweepOK(s)
  BY DEF StackInv
<1>3. ASSUME NEW x \in sweep[s].owed PROVE Dead(x.run)' /\ (x \in Leftovers' => x \in Leftovers)
  <2>1. x \in Owing
    BY <1>2, <1>3 DEF SweepType, SweepState
  <2>2. x.run \in Runs /\ x.kind \in Recordable /\ Dead(x.run)
    BY <1>3, <2>1, OwingIs, KindsDiffer DEF Covers
  <2>3. Dead(x.run)' /\ (Running(x.run, x.kind)' => Running(x.run, x.kind))
    BY <2>2 DEF Careful
  <2>. QED BY <2>1, <2>2, <2>3 DEF Leftovers, Owing, Dead
<1>4. CoversFile(s)'
  <2>. SUFFICES ASSUME sweep'[s].pc \in {"look", "stop"}, sweep'[s].handled, file'[First(s)] # NoFile
                PROVE  \A i \in DOMAIN file'[First(s)] :
                          LET x == file'[First(s)][i]
                          IN  proc'[x.run][x.kind] \in {"up", "asked"} => Contains(sweep[s].queue, x)
    BY <1>1 DEF CoversFile
  <2>1. sweep[s].pc \in {"look", "stop"} /\ sweep[s].handled
    OBVIOUS
  <2>2. First(s) \in Dirs
    BY <1>2, <2>1, FirstIn DEF SweepType, SweepState, SweepOK
  <2>3. PICK r \in Runs : DirOf[r] = First(s)
    BY <2>2, DirIn
  <2>4. Dead(r)
    BY <1>2, <2>1, <2>3 DEF SweepOK
  <2>. DEFINE f == file[First(s)]
  <2>5. file'[First(s)] = f /\ f = file[DirOf[r]] /\ f # NoFile
    BY <2>3, <2>4 DEF Careful
  <2>6. \A i \in DOMAIN f : f[i].run = r /\ f[i].kind \in Recordable
    <3>1. FileOK(r)
      BY DEF StackInv
    <3>. QED BY <2>5, <3>1 DEF FileOK
  <2>7. \A i \in DOMAIN f : proc[f[i].run][f[i].kind] \in {"up", "asked"} =>
                              Contains(sweep[s].queue, f[i])
    BY <2>1, <2>5 DEF Covers, CoversFile
  <2>8. \A k \in Recordable : proc'[r][k] \in {"up", "asked"} => proc[r][k] \in {"up", "asked"}
    BY <2>4 DEF Careful, Running
  <2>. HIDE DEF f
  <2>9. ASSUME NEW i \in DOMAIN f, proc'[f[i].run][f[i].kind] \in {"up", "asked"}
        PROVE  Contains(sweep[s].queue, f[i])
    BY <2>6, <2>7, <2>8, <2>9
  <2>. QED BY <2>5, <2>9
<1>5. CoversOwed(s)'
  <2>. SUFFICES ASSUME sweep'[s].pc \in {"open", "look", "stop"}, NEW x \in sweep[s].owed,
                       x \in Leftovers'
                PROVE  /\ DirOf[x.run] \in sweep[s].todo
                       /\ sweep'[s].pc # "open" /\ DirOf[x.run] = First(s) =>
                            Contains(sweep[s].queue, x)
    BY <1>1 DEF CoversOwed
  <2>1. x \in Leftovers
    BY <1>3
  <2>2. sweep[s].pc \in {"open", "look", "stop"} /\ (sweep'[s].pc # "open" => sweep[s].pc # "open")
    OBVIOUS
  <2>3. CoversOwed(s)
    BY DEF Covers
  <2>. QED BY <2>1, <2>2, <2>3 DEF CoversOwed
<1>. QED BY <1>1, <1>3, <1>4, <1>5 DEF Covers

\* A sweep that is done with a record: its process does not run, or stays where it
\* is by the system's leave and keeps the file.
LEMMA CoversSettled ==
    ASSUME StackInv, NEW s \in Sweepers, \A r \in Runs : Careful(r), Covers(s),
           sweep[s].pc \in {"look", "stop"}, sweep'[s].pc = "look", sweep[s].queue # <<>>,
           sweep'[s].todo = sweep[s].todo, sweep'[s].queue = Tail(sweep[s].queue),
           sweep'[s].owed \subseteq sweep[s].owed,
           LET x == Head(sweep[s].queue) IN
           /\ sweep'[s].handled => sweep[s].handled /\ proc'[x.run][x.kind] \notin {"up", "asked"}
           /\ x \in sweep'[s].owed => proc'[x.run][x.kind] \notin {"up", "asked"}
    PROVE  Covers(s)'
<1>. DEFINE x == Head(sweep[s].queue)
            q == sweep[s].queue
<1>1. First(s)' = First(s)
  BY DEF First
<1>2. SweepType(s) /\ SweepOK(s)
  BY DEF StackInv
<1>3. q \in Seq(Entry) /\ q # <<>> /\ x = Head(q)
  BY <1>2 DEF SweepType, SweepState
<1>4. /\ sweep'[s].handled => sweep[s].handled /\ proc'[x.run][x.kind] \notin {"up", "asked"}
      /\ x \in sweep'[s].owed => proc'[x.run][x.kind] \notin {"up", "asked"}
  OBVIOUS
<1>5. sweep'[s].queue = Tail(q)
  OBVIOUS
<1>. HIDE DEF x, q
<1>6. ASSUME NEW y \in sweep[s].owed PROVE Dead(y.run)' /\ (y \in Leftovers' => y \in Leftovers)
  <2>1. y \in Owing
    BY <1>2, <1>6 DEF SweepType, SweepState
  <2>2. y.run \in Runs /\ y.kind \in Recordable /\ Dead(y.run)
    BY <1>6, <2>1, OwingIs, KindsDiffer DEF Covers
  <2>3. Dead(y.run)' /\ (Running(y.run, y.kind)' => Running(y.run, y.kind))
    BY <2>2 DEF Careful
  <2>. QED BY <2>1, <2>2, <2>3 DEF Leftovers, Owing, Dead
<1>7. CoversFile(s)'
  <2>. SUFFICES ASSUME sweep'[s].handled, file'[First(s)] # NoFile
                PROVE  \A i \in DOMAIN file'[First(s)] :
                          LET y == file'[First(s)][i]
                          IN  proc'[y.run][y.kind] \in {"up", "asked"} => Contains(Tail(q), y)
    BY <1>1, <1>5 DEF CoversFile
  <2>1. sweep[s].handled
    BY <1>4
  <2>2. First(s) \in Dirs
    BY <1>2, FirstIn DEF SweepType, SweepState, SweepOK
  <2>3. PICK r \in Runs : DirOf[r] = First(s)
    BY <2>2, DirIn
  <2>4. Dead(r)
    BY <1>2, <2>3 DEF SweepOK
  <2>. DEFINE f == file[First(s)]
  <2>5. file'[First(s)] = f /\ f = file[DirOf[r]] /\ f # NoFile
    BY <2>3, <2>4 DEF Careful
  <2>6. \A i \in DOMAIN f : f[i].run = r /\ f[i].kind \in Recordable
    <3>1. FileOK(r)
      BY DEF StackInv
    <3>. QED BY <2>5, <3>1 DEF FileOK
  <2>7. \A i \in DOMAIN f : proc[f[i].run][f[i].kind] \in {"up", "asked"} => Contains(q, f[i])
    BY <2>1, <2>5 DEF Covers, CoversFile, q
  <2>8. \A k \in Recordable : proc'[r][k] \in {"up", "asked"} => proc[r][k] \in {"up", "asked"}
    BY <2>4 DEF Careful, Running
  <2>. HIDE DEF f
  <2>9. ASSUME NEW i \in DOMAIN f, proc'[f[i].run][f[i].kind] \in {"up", "asked"}
        PROVE  Contains(Tail(q), f[i])
    <3>1. Contains(q, f[i])
      BY <2>6, <2>7, <2>8, <2>9
    <3>2. f[i] # x
      BY <1>4, <2>9
    <3>. QED BY <1>3, <3>1, <3>2, TailContains
  <2>. QED BY <2>5, <2>9
<1>8. CoversOwed(s)'
  <2>. SUFFICES ASSUME NEW y \in sweep'[s].owed, y \in Leftovers'
                PROVE  /\ DirOf[y.run] \in sweep[s].todo
                       /\ DirOf[y.run] = First(s) => Contains(Tail(q), y)
    BY <1>1, <1>5 DEF CoversOwed
  <2>1. y \in sweep[s].owed /\ y \in Leftovers
    BY <1>6
  <2>2. CoversOwed(s)
    BY DEF Covers
  <2>3. DirOf[y.run] \in sweep[s].todo /\ (DirOf[y.run] = First(s) => Contains(q, y))
    BY <2>1, <2>2 DEF CoversOwed, q
  <2>4. y # x
    BY <1>4 DEF Leftovers, Running
  <2>. QED BY <1>3, <2>3, <2>4, TailContains
<1>. QED BY <1>6, <1>7, <1>8 DEF Covers

\* A sweep that is done with a file: nothing of what it owes is in it.
LEMMA CoversPassed ==
    ASSUME StackInv, NEW s \in Sweepers, \A r \in Runs : Careful(r), Covers(s),
           sweep[s].pc \in {"open", "look", "stop"}, sweep'[s].pc \in {"open", "failed"},
           sweep'[s].pc = "open" => sweep'[s].todo = sweep[s].todo \ {First(s)},
           sweep'[s].owed = sweep[s].owed,
           \A x \in sweep[s].owed : x \in Leftovers => DirOf[x.run] # First(s)
    PROVE  Covers(s)'
<1>2. SweepType(s) /\ SweepOK(s)
  BY DEF StackInv
<1>6. ASSUME NEW y \in sweep[s].owed PROVE Dead(y.run)' /\ (y \in Leftovers' => y \in Leftovers)
  <2>1. y \in Owing
    BY <1>2, <1>6 DEF SweepType, SweepState
  <2>2. y.run \in Runs /\ y.kind \in Recordable /\ Dead(y.run)
    BY <1>6, <2>1, OwingIs, KindsDiffer DEF Covers
  <2>3. Dead(y.run)' /\ (Running(y.run, y.kind)' => Running(y.run, y.kind))
    BY <2>2 DEF Careful
  <2>. QED BY <2>1, <2>2, <2>3 DEF Leftovers, Owing, Dead
<1>7. CoversFile(s)'
  BY DEF CoversFile
<1>8. CoversOwed(s)'
  <2>. SUFFICES ASSUME sweep'[s].pc = "open", NEW y \in sweep'[s].owed, y \in Leftovers'
                PROVE  DirOf[y.run] \in sweep'[s].todo
    BY DEF CoversOwed
  <2>1. y \in sweep[s].owed /\ y \in Leftovers
    BY <1>6
  <2>2. CoversOwed(s)
    BY DEF Covers
  <2>3. DirOf[y.run] \in sweep[s].todo
    BY <2>1, <2>2 DEF CoversOwed
  <2>. QED BY <2>1, <2>3
<1>. QED BY <1>6, <1>7, <1>8 DEF Covers

\* What is left over is in its run's file.
LEMMA LeftoverRecorded ==
    ASSUME StackInv, NEW x \in Leftovers, Recording(x.run)
    PROVE  /\ x \in Owing /\ x.run \in Runs /\ Dead(x.run)
           /\ file[DirOf[x.run]] # NoFile /\ Contains(file[DirOf[x.run]], x)
<1>1. x \in Owing /\ Running(x.run, x.kind) /\ ~Running(x.run, "control")
  BY DEF Leftovers, Owing
<1>2. x.run \in Runs /\ x.kind \in {"arco", "sim"} /\ x = Rec(x.run, x.kind)
  BY <1>1, OwingIs, KindsDiffer
<1>3. RunOK(x.run)
  BY <1>2 DEF StackInv
<1>4. room[x.run] = "none"
  BY <1>1, <1>3 DEF RunOK
<1>5. at[x.run] # "off"
  BY <1>1, <1>2, <1>3, KindsDiffer DEF RunOK, Running
<1>6. file[DirOf[x.run]] # NoFile /\ Contains(file[DirOf[x.run]], x)
  BY <1>1, <1>2, <1>4 DEF Recording
<1>. QED BY <1>1, <1>2, <1>5, <1>6 DEF Dead

-----------------------------------------------------------------------------
(* One action of a sweep at a time                                         *)

Gentle == "window" \notin Accidents /\ "stuck" \notin Accidents

\* What a step of sweep s keeps; the second part only when no process escapes its
\* record or survives its SIGKILL.
SweepKeeps(s) ==
    /\ SweepMove(s)
    /\ Gentle /\ ClearInv => (\A r \in Runs : Recording(r)') /\ Covers(s)'

LEMMA BeginKeeps ==
    ASSUME StackInv, NEW s \in Sweepers, BeginSweep(s), at' = at, room' = room
    PROVE  SweepKeeps(s)
<1>1. proc' = proc /\ file' = file
  BY DEF BeginSweep
<1>2. /\ OnlySweep(s) /\ SweepType(s)'
      /\ sweep'[s].pc = "open"
      /\ sweep'[s].todo = {d \in Dirs : file[d] # NoFile}
      /\ sweep'[s].owed = Leftovers
  BY BeginDoes
<1>3. SweepOK(s)'
  BY <1>2 DEF SweepOK
<1>4. /\ Types'
      /\ \A r \in Runs : RunOK(r)' /\ FileOK(r)' /\ Careful(r)
      /\ \A r \in Runs : Recording(r) => Recording(r)'
  BY <1>1, RunsKept
<1>5. ASSUME ClearInv PROVE Covers(s)'
  <2>1. \A x \in Leftovers : x.run \in Runs /\ Dead(x.run) /\ file[DirOf[x.run]] # NoFile
    <3>. SUFFICES ASSUME NEW x \in Leftovers
                  PROVE  x.run \in Runs /\ Dead(x.run) /\ file[DirOf[x.run]] # NoFile
      OBVIOUS
    <3>1. x.run \in Runs
      BY DEF Leftovers
    <3>. QED BY <1>5, <3>1, LeftoverRecorded DEF ClearInv
  <2>2. Leftovers' = Leftovers /\ \A r \in Runs : Dead(r)' <=> Dead(r)
    BY <1>1 DEF Leftovers, Running, Dead
  <2>3. CoversFile(s)'
    BY <1>2 DEF CoversFile
  <2>4. CoversOwed(s)'
    BY <1>2, <2>1, <2>2, DirIn DEF CoversOwed
  <2>. QED BY <1>2, <2>1, <2>2, <2>3, <2>4 DEF Covers
<1>. QED BY <1>2, <1>3, <1>4, <1>5 DEF SweepKeeps, SweepMove, ClearInv

LEMMA OpenKeeps ==
    ASSUME StackInv, "ps" \notin Accidents, NEW s \in Sweepers, OpenFile(s),
           at' = at, room' = room
    PROVE  SweepKeeps(s)
<1>1. proc' = proc /\ file' = file /\ sweep[s].pc = "open" /\ sweep[s].todo # {}
  BY DEF OpenFile
<1>2. SweepType(s) /\ First(s) \in Dirs /\ First(s) \in sweep[s].todo
  BY <1>1, FirstIn DEF StackInv, SweepType, SweepState
<1>3. PICK r \in Runs : DirOf[r] = First(s)
  BY <1>2, DirIn
<1>4. /\ Types'
      /\ \A q \in Runs : RunOK(q)' /\ FileOK(q)' /\ Careful(q)
      /\ \A q \in Runs : Recording(q) => Recording(q)'
  BY <1>1, RunsKept
<1>. DEFINE f == file[First(s)]
<1>5. \/ f = NoFile /\ sweep' = To(s, "failed")
      \/ f # NoFile /\ LiveSupervisor(f) /\ sweep' = Passed(s)
      \/ /\ f # NoFile /\ ~LiveSupervisor(f)
         /\ sweep' = [sweep EXCEPT ![s].pc = "look", ![s].queue = f, ![s].handled = TRUE]
  BY DEF OpenFile
<1>6. CASE f = NoFile /\ sweep' = To(s, "failed")
  <2>1. OnlySweep(s) /\ SweepType(s)' /\ sweep'[s].pc = "failed" /\ sweep'[s].owed = sweep[s].owed
    BY <1>6, ToDoes DEF Places
  <2>2. ASSUME ClearInv PROVE Covers(s)'
    <3>1. \A x \in sweep[s].owed : Dead(x.run)'
      BY <2>2, <1>1 DEF ClearInv, Covers, Dead, Running
    <3>. QED BY <2>1, <3>1 DEF Covers, CoversFile, CoversOwed
  <2>. QED BY <1>4, <2>1, <2>2 DEF SweepKeeps, SweepMove, SweepOK, ClearInv
<1>7. CASE f # NoFile /\ LiveSupervisor(f) /\ sweep' = Passed(s)
  <2>1. /\ OnlySweep(s) /\ SweepType(s)' /\ sweep'[s].pc = "open"
        /\ sweep'[s].todo = sweep[s].todo \ {First(s)} /\ sweep'[s].owed = sweep[s].owed
    BY <1>7, PassedDoes
  <2>2. ASSUME ClearInv PROVE Covers(s)'
    <3>1. Covers(s)
      BY <2>2 DEF ClearInv
    <3>2. ASSUME NEW x \in sweep[s].owed, x \in Leftovers PROVE DirOf[x.run] # First(s)
      <4>1. x.run \in Runs /\ ~Running(x.run, "control")
        BY <3>2 DEF Leftovers
      <4>. QED BY <1>7, <4>1, LiveIs
    <3>. QED BY <1>1, <1>4, <2>1, <3>1, <3>2, CoversPassed
  <2>. QED BY <1>4, <2>1, <2>2 DEF SweepKeeps, SweepMove, SweepOK, ClearInv
<1>8. CASE /\ f # NoFile /\ ~LiveSupervisor(f)
           /\ sweep' = [sweep EXCEPT ![s].pc = "look", ![s].queue = f, ![s].handled = TRUE]
  <2>0. f \in Seq(Entry)
    BY <1>2 DEF StackInv
  <2>1. /\ OnlySweep(s) /\ SweepType(s)' /\ sweep'[s].pc = "look"
        /\ sweep'[s].todo = sweep[s].todo /\ sweep'[s].queue = f
        /\ sweep'[s].owed = sweep[s].owed
    BY <1>8, <2>0, OpenedDoes
  <2>2. First(s)' = First(s)
    BY <2>1 DEF First
  <2>3. ASSUME NEW q \in Runs, DirOf[q] = First(s)
        PROVE  Dead(q)' /\ \A i \in DOMAIN f : f[i].run = q /\ f[i].kind \in Recordable
    <3>1. FileOK(q) /\ f = file[DirOf[q]]
      BY <2>3 DEF StackInv
    <3>2. ~Running(q, "control")
      BY <1>8, <3>1, LiveIs
    <3>3. at[q] # "off" /\ \A i \in DOMAIN f : f[i].run = q /\ f[i].kind \in Recordable
      BY <1>8, <3>1 DEF FileOK
    <3>. QED BY <1>1, <3>2, <3>3 DEF Dead, Running
  <2>4. SweepOK(s)'
    <3>. HIDE DEF f
    <3>. QED BY <1>1, <2>1, <2>2, <2>3 DEF SweepOK
  <2>5. ASSUME ClearInv PROVE Covers(s)'
    <3>1. Covers(s)
      BY <2>5 DEF ClearInv
    <3>2. \A x \in sweep[s].owed : Dead(x.run)'
      BY <3>1, <1>1 DEF Covers, Dead, Running
    <3>3. CoversFile(s)'
      <4>1. \A i \in DOMAIN f : Contains(f, f[i])
        BY <2>0 DEF Contains
      <4>. QED BY <1>1, <2>1, <2>2, <4>1 DEF CoversFile
    <3>4. Leftovers' = Leftovers
      BY <1>1 DEF Leftovers, Running
    <3>5. ASSUME NEW x \in sweep[s].owed, x \in Leftovers
          PROVE  DirOf[x.run] \in sweep[s].todo /\ (DirOf[x.run] = First(s) => Contains(f, x))
      <4>1. x.run \in Runs
        BY <3>5 DEF Leftovers
      <4>2. Recording(x.run)
        BY <2>5, <4>1 DEF ClearInv
      <4>3. Contains(file[DirOf[x.run]], x)
        BY <3>5, <4>2, LeftoverRecorded
      <4>4. CoversOwed(s)
        BY <3>1 DEF Covers
      <4>. QED BY <1>1, <3>5, <4>3, <4>4 DEF CoversOwed
    <3>6. CoversOwed(s)'
      <4>. HIDE DEF f
      <4>. QED BY <2>1, <2>2, <3>4, <3>5 DEF CoversOwed
    <3>. QED BY <2>1, <3>2, <3>3, <3>6 DEF Covers
  <2>. QED BY <1>4, <2>1, <2>4, <2>5 DEF SweepKeeps, SweepMove, ClearInv
<1>. HIDE DEF f
<1>. QED BY <1>5, <1>6, <1>7, <1>8

\* The record a sweep is at is a dead run's.
LEMMA HeadIs ==
    ASSUME StackInv, NEW s \in Sweepers, sweep[s].pc \in {"look", "stop"}, sweep[s].queue # <<>>
    PROVE  LET x == Head(sweep[s].queue) IN
           /\ x.run \in Runs /\ x.kind \in Recordable /\ x.kind \in Kinds /\ x \in Entry
           /\ Dead(x.run) /\ (Running(x.run, x.kind) => x.kind # "control")
<1>1. SweepType(s) /\ SweepOK(s)
  BY DEF StackInv
<1>2. First(s) \in Dirs
  BY <1>1, FirstIn DEF SweepType, SweepState, SweepOK
<1>3. PICK r \in Runs : DirOf[r] = First(s)
  BY <1>2, DirIn
<1>. DEFINE q == sweep[s].queue
<1>4. Dead(r) /\ \A i \in DOMAIN q : q[i].run = r /\ q[i].kind \in Recordable
  BY <1>1, <1>3 DEF SweepOK
<1>5. q \in Seq(Entry) /\ q # <<>>
  BY <1>1 DEF SweepType, SweepState
<1>6. 1 \in DOMAIN q /\ Head(q) = q[1] /\ Head(q) \in Entry
  BY <1>5
<1>. HIDE DEF q
<1>7. Head(q).run = r /\ Head(q).kind \in Recordable
  BY <1>4, <1>6
<1>. QED BY <1>4, <1>6, <1>7, KindsIn DEF q, Dead

LEMMA SettledOK ==
    ASSUME StackInv, NEW s \in Sweepers, \A r \in Runs : Careful(r),
           sweep[s].pc \in {"look", "stop"}, sweep[s].queue # <<>>,
           sweep'[s].pc = "look", sweep'[s].todo = sweep[s].todo,
           sweep'[s].queue = Tail(sweep[s].queue)
    PROVE  SweepOK(s)'
<1>1. SweepType(s) /\ SweepOK(s)
  BY DEF StackInv
<1>2. First(s)' = First(s)
  BY DEF First
<1>. DEFINE q == sweep[s].queue
<1>3. q \in Seq(Entry) /\ q # <<>>
  BY <1>1 DEF SweepType, SweepState
<1>4. sweep'[s].queue = Tail(q)
  OBVIOUS
<1>5. ASSUME NEW r \in Runs, DirOf[r] = First(s)
      PROVE  Dead(r)' /\ \A i \in DOMAIN q : q[i].run = r /\ q[i].kind \in Recordable
  BY <1>1, <1>5 DEF SweepOK, Careful
<1>. HIDE DEF q
<1>6. ASSUME NEW r \in Runs, DirOf[r] = First(s)
      PROVE  Dead(r)' /\ \A i \in DOMAIN Tail(q) : Tail(q)[i].run = r
                                                   /\ Tail(q)[i].kind \in Recordable
  <2>1. \A i \in DOMAIN Tail(q) : i + 1 \in DOMAIN q /\ Tail(q)[i] = q[i + 1]
    BY <1>3
  <2>. QED BY <1>5, <1>6, <2>1
<1>7. sweep[s].todo # {}
  BY <1>1 DEF SweepOK
<1>. QED BY <1>2, <1>4, <1>6, <1>7 DEF SweepOK

\* A sweep asks a process to stop, or kills it.
LEMMA StopStep ==
    ASSUME OneFileEach, StackInv, NEW s \in Sweepers,
           sweep[s].pc \in {"look", "stop"}, sweep[s].queue # <<>>,
           NEW st \in {"asked", "gone"},
           file' = file, at' = at, room' = room,
           Running(Head(sweep[s].queue).run, Head(sweep[s].queue).kind),
           proc' = SetProc(Head(sweep[s].queue).run, Head(sweep[s].queue).kind, st)
    PROVE  /\ Types'
           /\ \A q \in Runs : RunOK(q)' /\ FileOK(q)' /\ Careful(q)
           /\ \A q \in Runs : "window" \notin Accidents /\ Recording(q) => Recording(q)'
           /\ proc'[Head(sweep[s].queue).run][Head(sweep[s].queue).kind] = st
<1>. DEFINE r == Head(sweep[s].queue).run
            k == Head(sweep[s].queue).kind
<1>1. r \in Runs /\ k \in Kinds /\ k # "control" /\ Running(r, k) /\ proc' = SetProc(r, k, st)
  BY HeadIs
<1>. HIDE DEF r, k
<1>2. RunStep(r)
  BY <1>1, Signalled DEF Closing
<1>3. proc'[r][k] = st
  <2>1. st \in States
    BY DEF States
  <2>. QED BY <1>1, <2>1, SetProcDoes DEF StackInv
<1>. QED BY <1>1, <1>2, <1>3, RunStepOK DEF r, k

LEMMA LookKeeps ==
    ASSUME OneFileEach, StackInv, "ps" \notin Accidents, NEW s \in Sweepers, Look(s),
           at' = at, room' = room
    PROVE  SweepKeeps(s)
<1>1. sweep[s].pc = "look" /\ sweep[s].queue # <<>> /\ file' = file
  BY DEF Look
<1>. DEFINE x == Head(sweep[s].queue)
<1>2. \/ ~Running(x.run, x.kind) /\ sweep' = Settled(s, TRUE) /\ proc' = proc
      \/ ~Running(x.run, x.kind) /\ sweep' = Settled(s, FALSE) /\ proc' = proc
      \/ sweep' = [Settled(s, FALSE) EXCEPT ![s].owed = sweep[s].owed \ {x}] /\ proc' = proc
      \/ Running(x.run, x.kind) /\ proc' = SetProc(x.run, x.kind, "asked") /\ sweep' = To(s, "stop")
  <2>1. Settled(s, FALSE)[s].owed = sweep[s].owed
    <3>1. /\ sweep[s] \in SweepState /\ sweep = [t \in Sweepers |-> sweep[t]]
          /\ Settled(s, FALSE) = [sweep EXCEPT ![s] =
               [pc |-> "look", todo |-> sweep[s].todo, queue |-> Tail(sweep[s].queue),
                handled |-> sweep[s].handled /\ FALSE, owed |-> sweep[s].owed]]
      BY <1>1, SettledIs
    <3>. DEFINE h == sweep[s].handled /\ FALSE
                n == [pc |-> "look", todo |-> sweep[s].todo, queue |-> Tail(sweep[s].queue),
                      handled |-> h, owed |-> sweep[s].owed]
    <3>. HIDE DEF h
    <3>2. n.owed = sweep[s].owed
      OBVIOUS
    <3>3. Settled(s, FALSE) = [sweep EXCEPT ![s] = n]
      BY <3>1 DEF h
    <3>. HIDE DEF n
    <3>. QED BY <3>1, <3>2, <3>3
  <2>. QED BY <2>1 DEF Look, SpawnTimeMatches, IsAlive
<1>3. ASSUME NEW ok \in BOOLEAN, NEW w \in SUBSET sweep[s].owed, proc' = proc,
             \/ sweep' = Settled(s, ok) /\ w = sweep[s].owed
             \/ sweep' = [Settled(s, ok) EXCEPT ![s].owed = w],
             ok => ~Running(x.run, x.kind),
             x \in w => ~Running(x.run, x.kind)
      PROVE  SweepKeeps(s)
  <2>1. /\ OnlySweep(s) /\ SweepType(s)'
        /\ sweep'[s].pc = "look" /\ sweep'[s].todo = sweep[s].todo
        /\ sweep'[s].queue = Tail(sweep[s].queue)
        /\ sweep'[s].handled = (sweep[s].handled /\ ok) /\ sweep'[s].owed = w
    BY <1>1, <1>3, SettledDoes
  <2>2. /\ Types'
        /\ \A q \in Runs : RunOK(q)' /\ FileOK(q)' /\ Careful(q)
        /\ \A q \in Runs : Recording(q) => Recording(q)'
    BY <1>1, <1>3, RunsKept
  <2>3. SweepOK(s)'
    BY <1>1, <2>1, <2>2, SettledOK
  <2>4. ASSUME ClearInv PROVE Covers(s)'
    <3>1. Covers(s)
      BY <2>4 DEF ClearInv
    <3>2. /\ sweep'[s].handled => sweep[s].handled /\ proc'[x.run][x.kind] \notin {"up", "asked"}
          /\ x \in sweep'[s].owed => proc'[x.run][x.kind] \notin {"up", "asked"}
      BY <1>3, <2>1 DEF Running
    <3>. QED BY <1>1, <2>1, <2>2, <3>1, <3>2, CoversSettled
  <2>. QED BY <2>1, <2>2, <2>3, <2>4 DEF SweepKeeps, SweepMove, ClearInv
<1>4. CASE ~Running(x.run, x.kind) /\ sweep' = Settled(s, TRUE) /\ proc' = proc
  BY <1>3, <1>4
<1>5. CASE ~Running(x.run, x.kind) /\ sweep' = Settled(s, FALSE) /\ proc' = proc
  BY <1>3, <1>5
<1>6. CASE sweep' = [Settled(s, FALSE) EXCEPT ![s].owed = sweep[s].owed \ {x}] /\ proc' = proc
  <2>. DEFINE w == sweep[s].owed \ {x}
  <2>1. w \in SUBSET sweep[s].owed /\ x \notin w /\ FALSE \in BOOLEAN
    OBVIOUS
  <2>. HIDE DEF w, x
  <2>. QED BY <1>3, <1>6, <2>1 DEF w
<1>7. CASE Running(x.run, x.kind) /\ proc' = SetProc(x.run, x.kind, "asked") /\ sweep' = To(s, "stop")
  <2>1. /\ Types'
        /\ \A q \in Runs : RunOK(q)' /\ FileOK(q)' /\ Careful(q)
        /\ \A q \in Runs : "window" \notin Accidents /\ Recording(q) => Recording(q)'
        /\ proc'[x.run][x.kind] = "asked"
    BY <1>1, <1>7, StopStep
  <2>2. /\ OnlySweep(s) /\ SweepType(s)' /\ sweep'[s].pc = "stop"
        /\ sweep'[s].todo = sweep[s].todo /\ sweep'[s].queue = sweep[s].queue
        /\ sweep'[s].handled = sweep[s].handled /\ sweep'[s].owed = sweep[s].owed
    BY <1>7, ToDoes DEF Places
  <2>3. SweepOK(s)'
    <3>1. First(s)' = First(s)
      BY <2>2 DEF First
    <3>2. SweepOK(s)
      BY DEF StackInv
    <3>3. ASSUME NEW q \in Runs, DirOf[q] = First(s)
          PROVE  /\ Dead(q)'
                 /\ \A i \in DOMAIN sweep[s].queue : /\ sweep[s].queue[i].run = q
                                                     /\ sweep[s].queue[i].kind \in Recordable
      BY <1>1, <2>1, <3>2, <3>3 DEF SweepOK, Careful
    <3>4. sweep[s].todo # {}
      BY <1>1, <3>2 DEF SweepOK
    <3>. QED BY <1>1, <2>1, <2>2, <3>1, <3>3, <3>4 DEF SweepOK
  <2>4. ASSUME ClearInv PROVE Covers(s)'
    <3>1. Covers(s)
      BY <2>4 DEF ClearInv
    <3>. QED BY <1>1, <2>1, <2>2, <3>1, CoversKept
  <2>. QED BY <2>1, <2>2, <2>3, <2>4 DEF SweepKeeps, SweepMove, ClearInv, Gentle
<1>. HIDE DEF x
<1>. QED BY <1>2, <1>4, <1>5, <1>6, <1>7

LEMMA StoppedKeeps ==
    ASSUME OneFileEach, StackInv, NEW s \in Sweepers, Stopped(s) \/ KillIt(s),
           at' = at, room' = room
    PROVE  SweepKeeps(s)
<1>. DEFINE x == Head(sweep[s].queue)
<1>1. /\ sweep[s].pc = "stop" /\ file' = file /\ sweep' = Settled(s, TRUE)
      /\ \/ proc' = proc /\ ("stuck" \in Accidents \/ ~Running(x.run, x.kind))
         \/ IsAlive(x) /\ proc' = SetProc(x.run, x.kind, "gone")
  BY DEF Stopped, KillIt, IsAlive
<1>2. sweep[s].queue # <<>> /\ proc[x.run][x.kind] # "stranger"
  BY <1>1 DEF StackInv, SweepOK
<1>3. /\ OnlySweep(s) /\ SweepType(s)'
      /\ sweep'[s].pc = "look" /\ sweep'[s].todo = sweep[s].todo
      /\ sweep'[s].queue = Tail(sweep[s].queue)
      /\ sweep'[s].handled = (sweep[s].handled /\ TRUE) /\ sweep'[s].owed = sweep[s].owed
  <2>. TRUE \in BOOLEAN /\ sweep[s].owed \in SUBSET sweep[s].owed
    OBVIOUS
  <2>. QED BY <1>1, <1>2, SettledDoes
<1>4. /\ Types'
      /\ \A q \in Runs : RunOK(q)' /\ FileOK(q)' /\ Careful(q)
      /\ \A q \in Runs : "window" \notin Accidents /\ Recording(q) => Recording(q)'
      /\ "stuck" \notin Accidents => proc'[x.run][x.kind] \notin {"up", "asked"}
  <2>1. CASE proc' = proc /\ ("stuck" \in Accidents \/ ~Running(x.run, x.kind))
    BY <1>1, <2>1, RunsKept DEF Running
  <2>2. CASE IsAlive(x) /\ proc' = SetProc(x.run, x.kind, "gone")
    <3>1. Running(x.run, x.kind)
      BY <1>2, <2>2 DEF IsAlive
    <3>. QED BY <1>1, <1>2, <2>2, <3>1, StopStep
  <2>. HIDE DEF x
  <2>. QED BY <1>1, <2>1, <2>2
<1>5. SweepOK(s)'
  BY <1>1, <1>2, <1>3, <1>4, SettledOK
<1>6. ASSUME Gentle, ClearInv PROVE Covers(s)'
  <2>1. Covers(s)
    BY <1>6 DEF ClearInv
  <2>2. proc'[x.run][x.kind] \notin {"up", "asked"}
    BY <1>4, <1>6 DEF Gentle
  <2>. QED BY <1>1, <1>2, <1>3, <1>4, <2>1, <2>2, CoversSettled
<1>. QED BY <1>3, <1>4, <1>5, <1>6 DEF SweepKeeps, SweepMove, ClearInv, Gentle

LEMMA CloseFileKeeps ==
    ASSUME OneFileEach, StackInv, NEW s \in Sweepers, CloseFile(s), at' = at, room' = room
    PROVE  SweepKeeps(s)
<1>1. sweep[s].pc = "look" /\ sweep[s].queue = <<>> /\ proc' = proc
  BY DEF CloseFile
<1>2. SweepType(s) /\ SweepOK(s)
  BY DEF StackInv
<1>3. First(s) \in Dirs /\ First(s) \in sweep[s].todo
  BY <1>1, <1>2, FirstIn DEF SweepType, SweepState, SweepOK
<1>4. PICK r \in Runs : DirOf[r] = First(s)
  BY <1>3, DirIn
<1>5. Dead(r) /\ \A q \in Runs : q # r => DirOf[q] # First(s)
  BY <1>1, <1>2, <1>4 DEF SweepOK, OneFileEach
<1>6. ASSUME ClearInv, NEW x \in sweep[s].owed, x \in Leftovers PROVE DirOf[x.run] # First(s)
  <2>1. CoversOwed(s)
    BY <1>6 DEF ClearInv, Covers
  <2>2. ~Contains(sweep[s].queue, x)
    BY <1>1 DEF Contains
  <2>. QED BY <1>1, <1>6, <2>1, <2>2 DEF CoversOwed
<1>7. ASSUME ClearInv, \A q \in Runs : Careful(q), sweep'[s].owed = sweep[s].owed,
             sweep'[s].pc \in {"open", "failed"},
             sweep'[s].pc = "open" => sweep'[s].todo = sweep[s].todo \ {First(s)}
      PROVE  Covers(s)'
  <2>1. Covers(s)
    BY <1>7 DEF ClearInv
  <2>. QED BY <1>1, <1>6, <1>7, <2>1, CoversPassed
<1>8. CASE file' = file
  <2>1. sweep' = Passed(s) \/ sweep' = To(s, "failed")
    BY <1>8 DEF CloseFile
  <2>2. /\ OnlySweep(s) /\ SweepType(s)' /\ sweep'[s].pc \in {"open", "failed"}
        /\ sweep'[s].owed = sweep[s].owed
        /\ sweep'[s].pc = "open" => sweep'[s].todo = sweep[s].todo \ {First(s)}
    <3>1. CASE sweep' = Passed(s)
      BY <3>1, PassedDoes
    <3>2. CASE sweep' = To(s, "failed")
      BY <3>2, ToDoes DEF Places
    <3>. QED BY <2>1, <3>1, <3>2
  <2>3. /\ Types'
        /\ \A q \in Runs : RunOK(q)' /\ FileOK(q)' /\ Careful(q)
        /\ \A q \in Runs : Recording(q) => Recording(q)'
    BY <1>1, <1>8, RunsKept
  <2>. QED BY <1>7, <2>2, <2>3 DEF SweepKeeps, SweepMove, SweepOK, ClearInv
<1>9. CASE file' # file
  <2>1. /\ sweep[s].handled /\ file[First(s)] # NoFile /\ sweep' = Passed(s)
        /\ file' = [file EXCEPT ![First(s)] = NoFile]
    BY <1>9 DEF CloseFile
  <2>2. /\ OnlySweep(s) /\ SweepType(s)' /\ sweep'[s].pc = "open"
        /\ sweep'[s].owed = sweep[s].owed
        /\ sweep'[s].todo = sweep[s].todo \ {First(s)}
    BY <2>1, PassedDoes
  <2>3. /\ file' \in [Dirs -> Seq(Entry)]
        /\ file'[DirOf[r]] = NoFile
        /\ \A q \in Runs : q # r => file'[DirOf[q]] = file[DirOf[q]]
    <3>1. NoFile \in Seq(Entry)
      <4>1. [run |-> 0, kind |-> "none"] \in Entry
        BY RunRecordAssumption DEF Entry
      <4>. QED BY <4>1 DEF NoFile
    <3>. HIDE DEF NoFile
    <3>. QED BY <1>4, <1>5, <2>1, <3>1, DirIn DEF StackInv
  <2>4. Types'
    BY <1>1, <2>3 DEF Types, StackInv, ProcType
  <2>5. RunOK(r)' /\ FileOK(r)' /\ Careful(r)
    <3>1. RunOK(r) /\ room[r] = "none"
      BY <1>5 DEF StackInv, Dead, RunOK
    <3>2. RunOK(r)'
      BY <1>1, <3>1 DEF RunOK, Running
    <3>3. FileOK(r)'
      BY <2>3, <3>1 DEF FileOK
    <3>4. Careful(r)
      BY <1>1, <2>3 DEF Careful, Dead, Running
    <3>. QED BY <3>2, <3>3, <3>4
  <2>6. \A q \in Runs : q # r => Same(q)
    BY <1>1, <2>3 DEF Same
  <2>7. \A q \in Runs : RunOK(q)' /\ FileOK(q)' /\ Careful(q)
    BY <2>5, <2>6, SameOK DEF StackInv
  <2>8. ASSUME ClearInv PROVE \A q \in Runs : Recording(q)'
    <3>1. Recording(r)'
      <4>. DEFINE f == file[DirOf[r]]
      <4>1. ASSUME NEW k \in Owned, Contains(f, Rec(r, k)), Running(r, k) PROVE FALSE
        <5>1. PICK i \in 1 .. Len(f) : f[i] = Rec(r, k)
          BY <4>1 DEF Contains
        <5>2. f \in Seq(Entry) /\ f = file[First(s)]
          BY <1>4, DirIn DEF StackInv
        <5>3. i \in DOMAIN f /\ f[i].run = r /\ f[i].kind = k
          BY <5>1, <5>2 DEF Rec
        <5>4. CoversFile(s)
          BY <2>8 DEF ClearInv, Covers
        <5>5. Contains(sweep[s].queue, f[i])
          BY <1>1, <2>1, <4>1, <5>2, <5>3, <5>4 DEF CoversFile, Running
        <5>. QED BY <1>1, <5>5 DEF Contains
      <4>2. Recording(r) /\ room[r] = "none"
        BY <1>5, <2>8 DEF ClearInv, StackInv, Dead, RunOK
      <4>3. ~Running(r, "arco") /\ ~Running(r, "sim")
        BY <4>1, <4>2, KindsDiffer DEF Recording
      <4>. QED BY <1>1, <4>3 DEF Recording, Running
    <3>. QED BY <2>6, <2>8, <3>1, SameOK DEF StackInv, ClearInv
  <2>. QED BY <1>7, <2>2, <2>4, <2>7, <2>8 DEF SweepKeeps, SweepMove, SweepOK
<1>. QED BY <1>8, <1>9

LEMMA SweepStepKeeps ==
    ASSUME OneFileEach, StackInv, "ps" \notin Accidents, NEW s \in Sweepers,
           BeginSweep(s) \/ SweepStep(s), at' = at, room' = room
    PROVE  SweepKeeps(s)
BY BeginKeeps, OpenKeeps, LookKeeps, StoppedKeeps, CloseFileKeeps DEF SweepStep

-----------------------------------------------------------------------------
(* All of them                                                             *)

LEMMA ListOfDevices ==
    ASSUME NEW r \in Runs
    PROVE  SetToSeq(DevicesOf[r]) \in Seq(Kinds)
<1>. DEFINE D == DevicesOf[r]
            n == Cardinality(D)
<1>1. IsFiniteSet(D) /\ D \subseteq Kinds
  BY RunRecordAssumption, KindsDiffer
<1>. HIDE DEF D
<1>2. n \in Nat /\ ExistsBijection(1 .. n, D)
  BY <1>1, FS_CardinalityType
<1>. HIDE DEF n
<1>3. PICK g \in [1 .. n -> D] : IsInjective(g)
  BY <1>2 DEF ExistsBijection, Bijection, Injection, IsInjective
<1>4. SetToSeq(D) \in [1 .. n -> D]
  BY <1>3, Zenon DEF SetToSeq, n
<1>. QED BY <1>1, <1>2, <1>4 DEF D

LEMMA ListReplaced ==
    ASSUME LeftType, NEW r \in Runs, NEW l \in Seq(Kinds),
           left' = left \/ left' = [left EXCEPT ![r] = l]
    PROVE  LeftType'
BY DEF LeftType

LEMMA LeftKept ==
    ASSUME ProcType, LeftType, [Next]_vars
    PROVE  LeftType'
<1>1. CASE UNCHANGED left
  BY <1>1 DEF LeftType
<1>2. CASE \E r \in Runs : Spawn(r)
  <2>1. PICK r \in Runs : Spawn(r)
    BY <1>2
  <2>2. left' = [left EXCEPT ![r] = SetToSeq(DevicesOf[r]) \o left[r]]
    BY <2>1 DEF Spawn
  <2>3. SetToSeq(DevicesOf[r]) \o left[r] \in Seq(Kinds)
    BY ListOfDevices, ConcatProperties DEF LeftType
  <2>. QED BY <2>2, <2>3, ListReplaced
<1>3. CASE \E r \in Runs : Launch(r)
  <2>1. PICK r \in Runs : Launch(r)
    BY <1>3
  <2>2. left' = left \/ left' = [left EXCEPT ![r] = <<"control">>]
    BY <2>1 DEF Launch
  <2>3. <<"control">> \in Seq(Kinds)
    BY KindsDiffer
  <2>. QED BY <2>2, <2>3, ListReplaced
<1>4. CASE \E r \in Runs : Ask(r) \/ Again(r)
  <2>1. PICK r \in Runs : Ask(r) \/ Again(r)
    BY <1>4
  <2>2. left[r] # <<>> /\ (left' = left \/ left' = [left EXCEPT ![r] = Tail(left[r])])
    BY <2>1 DEF Ask, Again, Pop
  <2>3. Tail(left[r]) \in Seq(Kinds)
    BY <2>2 DEF LeftType
  <2>. QED BY <2>2, <2>3, ListReplaced
<1>5. CASE \E r \in Runs : Crash(r)
  <2>1. PICK r \in Runs : left' = left \/ left' = [left EXCEPT ![r] = <<>>]
    BY <1>5 DEF Crash
  <2>2. <<>> \in Seq(Kinds)
    OBVIOUS
  <2>. QED BY <2>1, <2>2, ListReplaced
<1>. QED BY <1>1, <1>2, <1>3, <1>4, <1>5
     DEF Next, vars, runner, Progress, Hold, MustLeave, Leave, GiveUp, Over, Boot, Sweeping,
         SpawnArco, RecordArco, SpawnSim, RecordSim, MustUnwind, Unwind, CloseStep, Quit,
         GuestExit, ChildExit, ReuseOne, Clean, Alone

\* A step either belongs to one run or is one sweep's.
LEMMA StepKinds ==
    ASSUME OneFileEach, StackInv, LeftType, [Next]_vars
    PROVE  \/ UNCHANGED vars
           \/ \E r \in Runs : OwnStep(r)
           \/ \E s \in Sweepers : (BeginSweep(s) \/ SweepStep(s)) /\ at' = at /\ room' = room
           \/ /\ sweep' = [sweep EXCEPT ![Cleaner] = Done]
              /\ proc' = proc /\ file' = file /\ at' = at /\ room' = room
<1>1. CASE Clean
  BY <1>1 DEF Clean, Sweepers, runner
<1>2. ASSUME NEW r \in Runs, Sweeping(r)
      PROVE  \/ (BeginSweep(r) \/ SweepStep(r)) /\ at' = at /\ room' = room
             \/ OwnStep(r)
  <2>1. CASE (BeginSweep(r) \/ SweepStep(r)) /\ UNCHANGED room
    BY <1>2, <2>1 DEF Sweeping, Alone, runner
  <2>2. CASE /\ Swept(r) \/ Failed(r)
             /\ Room(r, IF Swept(r) THEN "spawn" ELSE "closed")
             /\ sweep' = [sweep EXCEPT ![r] = Idle]
             /\ UNCHANGED <<proc, file>>
    <3>1. Running(r, "control") /\ file' = file /\ at' = at /\ room[r] = "sweep" /\ proc' = proc
      BY <1>2, <2>2 DEF Sweeping, Alone, runner
    <3>2. CASE Swept(r)
      <4>1. room' = [room EXCEPT ![r] = "spawn"] /\ "spawn" \in Loading
        BY <2>2, <3>2 DEF Room, Loading
      <4>. QED BY <2>2, <3>1, <4>1, RoomKeeps
    <3>3. CASE ~Swept(r)
      <4>1. room' = [room EXCEPT ![r] = "closed"]
        BY <2>2, <3>3 DEF Room
      <4>. QED BY <2>2, <3>1, <4>1, RoomKeeps
    <3>. QED BY <3>2, <3>3
  <2>. QED BY <1>2, <2>1, <2>2 DEF Sweeping
<1>3. ASSUME NEW r \in Runs,
             Launch(r) \/ (Progress(r) /\ ~Sweeping(r)) \/ Leave(r) \/ Again(r) \/ Unwind(r)
               \/ GuestExit(r) \/ ChildExit(r) \/ ReuseOne(r) \/ Crash(r)
      PROVE  OwnStep(r)
  BY <1>3, LaunchKeeps, SpawnKeeps, MoveKeeps, AgainKeeps, AskKeeps, GiveUpKeeps, CrashKeeps,
     ExitKeeps, QuitKeeps, RoomStepKeeps, CloseStepKeeps, ReuseKeeps, RecordKeeps
     DEF Progress, MustLeave, MustUnwind
<1>. QED BY <1>1, <1>2, <1>3 DEF Next, Sweepers, Progress

-----------------------------------------------------------------------------
(* The theorems                                                            *)

StackIInv == LeftType /\ StackInv

LEMMA CoversIdle ==
    ASSUME NEW s \in Sweepers, sweep'[s] \in {Idle, Done}
    PROVE  Covers(s)'
<1>1. sweep'[s].owed = {} /\ sweep'[s].pc \in {"off", "done"}
  <2>1. \A q : \A h \in BOOLEAN :
          [[pc |-> "off", todo |-> {}, queue |-> q, handled |-> h, owed |-> {}]
            EXCEPT !.pc = "done"]
          = [pc |-> "done", todo |-> {}, queue |-> q, handled |-> h, owed |-> {}]
    OBVIOUS
  <2>2. Done = [pc |-> "done", todo |-> {}, queue |-> <<>>, handled |-> TRUE, owed |-> {}]
    BY <2>1, Zenon DEF Done, Idle
  <2>3. Done.owed = {} /\ Done.pc = "done"
    BY <2>2
  <2>. QED BY <2>3 DEF Idle
<1>. QED BY <1>1 DEF Covers, CoversFile, CoversOwed

\* What every step keeps.
LEMMA StackKept ==
    ASSUME OneFileEach, "ps" \notin Accidents, StackIInv, [Next]_vars
    PROVE  /\ StackIInv'
           /\ \A r \in Runs : Careful(r)
           /\ Gentle /\ ClearInv => ClearInv'
<1>1. LeftType'
  BY LeftKept DEF StackIInv, StackInv
<1>2. CASE UNCHANGED vars
  <2>1. proc' = proc /\ file' = file /\ sweep' = sweep /\ at' = at /\ room' = room
    BY <1>2 DEF vars, records
  <2>2. /\ Types'
        /\ \A r \in Runs : RunOK(r)' /\ FileOK(r)' /\ Careful(r)
        /\ \A r \in Runs : Recording(r) => Recording(r)'
    BY <2>1, RunsKept DEF StackIInv
  <2>3. \A s \in Sweepers : SweepType(s)' /\ SweepOK(s)'
    BY <2>1, <2>2, SweepOKKept DEF StackIInv
  <2>4. ClearInv => \A s \in Sweepers : Covers(s)'
    BY <2>1, <2>2, CoversKept DEF StackIInv, ClearInv
  <2>5. StackInv'
    BY <2>1, <2>2, <2>3 DEF StackIInv, StackInv, Types
  <2>. QED BY <1>1, <2>2, <2>4, <2>5 DEF StackIInv, ClearInv
<1>3. CASE \E r \in Runs : OwnStep(r)
  <2>1. PICK r \in Runs : OwnStep(r)
    BY <1>3
  <2>2. /\ StackInv' /\ \A q \in Runs : Careful(q)
        /\ \A q \in Runs : "window" \notin Accidents /\ Recording(q) => Recording(q)'
    BY <2>1, OwnStepOK DEF StackIInv
  <2>3. ASSUME Gentle, ClearInv PROVE ClearInv'
    <3>1. ASSUME NEW s \in Sweepers PROVE Covers(s)'
      <4>1. CASE sweep'[s] = sweep[s]
        BY <2>2, <2>3, <4>1, CoversKept DEF StackIInv, ClearInv
      <4>2. CASE sweep'[s] = Idle
        BY <4>2, CoversIdle
      <4>. QED BY <2>1, <4>1, <4>2 DEF OwnStep
    <3>. QED BY <2>2, <2>3, <3>1 DEF ClearInv, Gentle
  <2>. QED BY <1>1, <2>2, <2>3 DEF StackIInv
<1>4. CASE \E s \in Sweepers : (BeginSweep(s) \/ SweepStep(s)) /\ at' = at /\ room' = room
  <2>1. PICK s \in Sweepers : SweepKeeps(s)
    BY <1>4, SweepStepKeeps DEF StackIInv
  <2>2. StackInv' /\ \A r \in Runs : Careful(r)
    BY <2>1, SweepMoveOK DEF SweepKeeps, StackIInv
  <2>3. ASSUME Gentle, ClearInv PROVE ClearInv'
    <3>1. ASSUME NEW t \in Sweepers PROVE Covers(t)'
      <4>1. CASE t = s
        BY <2>1, <2>3, <4>1 DEF SweepKeeps
      <4>2. CASE t # s
        <5>1. sweep'[t] = sweep[t]
          BY <2>1, <4>2 DEF SweepKeeps, SweepMove, OnlySweep
        <5>. QED BY <2>2, <2>3, <5>1, CoversKept DEF StackIInv, ClearInv
      <4>. QED BY <4>1, <4>2
    <3>. QED BY <2>1, <2>3, <3>1 DEF ClearInv, SweepKeeps
  <2>. QED BY <1>1, <2>2, <2>3 DEF StackIInv
<1>5. CASE /\ sweep' = [sweep EXCEPT ![Cleaner] = Done]
           /\ proc' = proc /\ file' = file /\ at' = at /\ room' = room
  <2>1. /\ Types'
        /\ \A r \in Runs : RunOK(r)' /\ FileOK(r)' /\ Careful(r)
        /\ \A r \in Runs : Recording(r) => Recording(r)'
    BY <1>5, RunsKept DEF StackIInv
  <2>2. /\ sweep' = [s \in Sweepers |-> sweep'[s]]
        /\ \A s \in Sweepers : sweep'[s] = sweep[s] \/ sweep'[s] = Done
    BY <1>5 DEF StackIInv, StackInv
  <2>3. \A s \in Sweepers : SweepType(s)' /\ SweepOK(s)'
    BY <2>1, <2>2, SweepOKKept, IdleOK DEF StackIInv
  <2>4. ASSUME ClearInv, NEW s \in Sweepers PROVE Covers(s)'
    <3>1. CASE sweep'[s] = sweep[s]
      BY <2>1, <2>4, <3>1, CoversKept DEF StackIInv, ClearInv
    <3>2. CASE sweep'[s] = Done
      BY <3>2, CoversIdle
    <3>. QED BY <2>2, <3>1, <3>2
  <2>5. StackInv'
    BY <2>1, <2>2, <2>3 DEF StackInv, Types
  <2>. QED BY <1>1, <2>1, <2>4, <2>5 DEF StackIInv, ClearInv
<1>. QED BY <1>2, <1>3, <1>4, <1>5, StepKinds DEF StackIInv

LEMMA StackStarts ==
    ASSUME Init
    PROVE  StackIInv /\ ClearInv
<1>1. /\ \A r \in Runs : at[r] = "off" /\ room[r] = "none" /\ left[r] = <<>>
      /\ \A r \in Runs, k \in Kinds : proc[r][k] = "none"
      /\ \A d \in Dirs : file[d] = NoFile
      /\ \A s \in Sweepers : sweep[s] = Idle
      /\ sweep = [s \in Sweepers |-> sweep[s]]
  BY DEF Init, RecordInit
<1>2. ProcType
  BY DEF Init, RecordInit, ProcType, Loading, Closing
<1>3. LeftType
  <2>1. <<>> \in Seq(Kinds)
    OBVIOUS
  <2>. QED BY <2>1 DEF Init, LeftType
<1>4. file \in [Dirs -> Seq(Entry)]
  <2>1. NoFile \in Seq(Entry)
    <3>1. [run |-> 0, kind |-> "none"] \in Entry
      BY RunRecordAssumption DEF Entry
    <3>. QED BY <3>1 DEF NoFile
  <2>. HIDE DEF NoFile
  <2>. QED BY <2>1 DEF Init, RecordInit
<1>5. \A r \in Runs : RunOK(r) /\ FileOK(r) /\ Recording(r)
  BY <1>1, DirIn, KindsDiffer DEF RunOK, FileOK, Recording, Running
<1>6. \A s \in Sweepers : SweepType(s) /\ SweepOK(s) /\ Covers(s)
  <2>1. Idle \in SweepState
    <3>1. \A q \in Seq(Entry) : \A h \in BOOLEAN :
            [pc |-> "off", todo |-> {}, queue |-> q, handled |-> h, owed |-> {}] \in SweepState
      BY DEF SweepState, Places
    <3>2. <<>> \in Seq(Entry) /\ TRUE \in BOOLEAN
      OBVIOUS
    <3>. QED BY <3>1, <3>2, Zenon DEF Idle
  <2>2. Idle.pc = "off" /\ Idle.owed = {}
    BY DEF Idle
  <2>. HIDE DEF Idle
  <2>. QED BY <1>1, <2>1, <2>2 DEF SweepType, SweepOK, Covers, CoversFile, CoversOwed
<1>. QED BY <1>1, <1>2, <1>3, <1>4, <1>5, <1>6 DEF StackIInv, StackInv, ClearInv

\* Every process is where its run could have put it, and every sweep is going
\* through a dead run's file.
THEOREM StackIsTyped ==
    ASSUME OneFileEach, "ps" \notin Accidents
    PROVE  Spec => []StackIInv
<1>1. Init => StackIInv
  BY StackStarts
<1>2. StackIInv /\ [Next]_vars => StackIInv'
  BY StackKept
<1>3. Spec => Init /\ [][Next]_vars
  BY PTL DEF Spec
<1>. QED BY <1>1, <1>2, <1>3, PTL

\* A sweep stops only what it finds in a dead run's file, and only while it is still
\* that run's: no two sweeps, no restart and no reuse of a process id can get it to
\* signal anything of a live run, or a stranger's process (sweep_stale).
THEOREM SparesOthers ==
    ASSUME OneFileEach, "ps" \notin Accidents
    PROVE  Spec => SweepsSpareOthers
<1>. DEFINE Spared ==
       \A r \in Runs : \A k \in Kinds :
         /\ \A s \in Sweepers :
               sweep[s].pc = "look" /\ sweep'[s].pc = "stop"
                 /\ Running(r, k) /\ proc'[r][k] # proc[r][k]
               => ~Running(r, "control")
         /\ proc[r][k] = "stranger" => proc'[r][k] = "stranger"
<1>1. ASSUME StackIInv, [Next]_vars PROVE Spared
  <2>1. \A r \in Runs : Careful(r)
    BY <1>1, StackKept
  <2>2. ASSUME NEW s \in Sweepers, sweep[s].pc = "look", sweep'[s].pc = "stop",
               NEW r \in Runs, NEW k \in Kinds, proc'[r][k] # proc[r][k]
        PROVE  ~Running(r, "control")
    <3>1. sweep'[s] # sweep[s] /\ sweep'[s] # Idle /\ sweep'[s] # Done
      <4>1. Done.pc = "done"
        <5>1. \A q : \A h \in BOOLEAN :
                [[pc |-> "off", todo |-> {}, queue |-> q, handled |-> h, owed |-> {}]
                  EXCEPT !.pc = "done"].pc = "done"
          OBVIOUS
        <5>. QED BY <5>1, Zenon DEF Done, Idle
      <4>. QED BY <2>2, <4>1 DEF Idle
    <3>2. UNCHANGED vars => sweep' = sweep
      BY DEF vars, records
    <3>3. \A q \in Runs : ~OwnStep(q)
      BY <3>1 DEF OwnStep
    <3>4. sweep' # [sweep EXCEPT ![Cleaner] = Done]
      BY <1>1, <3>1 DEF StackIInv, StackInv
    <3>5. PICK t \in Sweepers : (BeginSweep(t) \/ SweepStep(t)) /\ at' = at /\ room' = room
      BY <1>1, <3>1, <3>2, <3>3, <3>4, StepKinds DEF StackIInv
    <3>6. SweepKeeps(t)
      BY <1>1, <3>5, SweepStepKeeps DEF StackIInv
    <3>7. t = s
      BY <3>1, <3>6 DEF SweepKeeps, SweepMove, OnlySweep
    <3>8. Look(s) \/ CloseFile(s)
      BY <2>2, <3>5, <3>7 DEF BeginSweep, SweepStep, OpenFile, Stopped, KillIt
    <3>9. Look(s)
      BY <1>1, <2>2, <3>8 DEF CloseFile
    <3>. DEFINE x == Head(sweep[s].queue)
    <3>10. sweep[s].queue # <<>> /\ proc' = SetProc(x.run, x.kind, "asked")
      BY <2>2, <3>9 DEF Look
    <3>11. x.run \in Runs /\ Dead(x.run)
      BY <1>1, <2>2, <3>10, HeadIs DEF StackIInv
    <3>12. r = x.run
      BY <1>1, <2>2, <3>10, <3>11 DEF SetProc, StackIInv, StackInv, ProcType
    <3>. QED BY <3>11, <3>12 DEF Dead
  <2>. QED BY <2>1, <2>2 DEF Careful
<1>2. Init => StackIInv
  BY StackStarts
<1>3. StackIInv /\ [Next]_vars => StackIInv'
  BY StackKept
<1>4. Spec => Init /\ [][Next]_vars
  BY PTL DEF Spec
<1>5. StackIInv /\ [Next]_vars => [Spared]_vars
  BY <1>1
<1>. QED BY <1>2, <1>3, <1>4, <1>5, PTL DEF SweepsSpareOthers

\* What a run that lost its Control has left running stays on record until it is
\* gone, and a sweep that comes to its end has stopped all it could have found when
\* it began: whoever else sweeps the same files, dies or starts in between
\* (RunRecorder, sweep_stale).
THEOREM SweepsClear ==
    ASSUME OneFileEach, {"ps", "window", "stuck"} \intersect Accidents = {}
    PROVE  Spec => []SweepClears
<1>1. Init => StackIInv /\ ClearInv
  BY StackStarts
<1>2. StackIInv /\ ClearInv /\ [Next]_vars => StackIInv' /\ ClearInv'
  BY StackKept DEF Gentle
<1>3. ASSUME StackIInv, ClearInv PROVE SweepClears
  <2>1. ASSUME NEW x \in Leftovers
        PROVE  file[DirOf[x.run]] # NoFile /\ Contains(file[DirOf[x.run]], x)
    <3>1. x.run \in Runs
      BY DEF Leftovers
    <3>. QED BY <1>3, <3>1, LeftoverRecorded DEF ClearInv, StackIInv
  <2>2. ASSUME NEW s \in Sweepers, Swept(s) PROVE sweep[s].owed \cap Leftovers = {}
    <3>1. CoversOwed(s) /\ sweep[s].pc = "open" /\ sweep[s].todo = {}
      BY <1>3, <2>2 DEF ClearInv, Covers, Swept
    <3>. QED BY <3>1 DEF CoversOwed
  <2>. QED BY <2>1, <2>2 DEF SweepClears
<1>4. Spec => Init /\ [][Next]_vars
  BY PTL DEF Spec
<1>. QED BY <1>1, <1>2, <1>3, <1>4, PTL

-----------------------------------------------------------------------------
(* The invariant of the link                                               *)

Ages == 0 .. Grace + 1
Numbers == 0 .. SeqWrap - 1
BeatLinks(e) ==
    [state : {"down", "linking", "linked", "looking", "solo"}, armed : BOOLEAN,
     epoch : {None} \cup (1 .. e), up : BOOLEAN, seq : Numbers, heard : Ages,
     lost : {None} \cup Ages, hello : {None} \cup (0 .. HelloEvery)]

Upward == {HelloMsg} \cup {BeatMsg(n) : n \in Numbers}
Downward(from, to) == [verb : {"beat", "role", "release", "leds"}, n : from .. to]

LinkTyped ==
    /\ beat \in BeatLinks(epoch) /\ role \in {None} \cup (1 .. epoch)
    /\ online \in BOOLEAN /\ seen \in BOOLEAN /\ lapped \in BOOLEAN /\ polled \in BOOLEAN
    /\ running \in BOOLEAN /\ pooled \in BOOLEAN /\ given \in BOOLEAN /\ bound \in BOOLEAN
    /\ clean \in BOOLEAN /\ met \in BOOLEAN
    /\ epoch \in 1 .. MaxEpoch /\ silent \in Ages /\ seqs \in Seq(Numbers)
    /\ up \in Seq(Upward) /\ down \in Seq(Downward(1, epoch)) /\ trouble \in Nat

\* Of the messages ms to a device whose epoch is e: none is the role of an earlier
\* Control if it has heard the one that runs now, nor comes after the first reply of it.
RolesFirst(ms, e) ==
    \A j \in DOMAIN ms : ms[j].verb = "role" /\ ms[j].n # epoch
        => e # epoch /\ \A i \in 1 .. j : ms[i] # BeatMsg(epoch)

\* A device whose role came after a reply is rid of the roles of earlier Controls.
RolesInOrder ==
    /\ met => beat.epoch # None
    /\ beat.epoch = epoch /\ met => role \in {None, epoch}
    /\ RolesFirst(down, beat.epoch)

IsBeat(m) == m.verb = "beat"
NoBeats(ms) == \A i \in DOMAIN ms : ~IsBeat(ms[i])

\* The first beat in ms after place i, or the beat to come when there is none, is x.
Comes(ms, seq, i, x) ==
    /\ \A j \in DOMAIN ms : /\ j > i /\ IsBeat(ms[j])
                            /\ \A k \in DOMAIN ms : i < k /\ k < j => ~IsBeat(ms[k])
                            => ms[j].n = x
    /\ (\A j \in DOMAIN ms : j > i => ~IsBeat(ms[j])) => seq = x

Gapless(s) == \A i \in 1 .. Len(s) : s[i] = s[1] + i - 1
After(n) == (n + 1) % SeqWrap

\* Each beat under way is followed by the next, ...
Numbered(ms, seq) == \A i \in DOMAIN ms : IsBeat(ms[i]) => Comes(ms, seq, i, After(ms[i].n))

\* ... and what Control kept is a run of beats of which the first under way is the
\* next, unless a new link's first beat is under way.
InTurn(ms, seq, kept) ==
    /\ Numbered(ms, seq)
    /\ \/ \E i \in DOMAIN ms : ms[i] = BeatMsg(0)
       \/ kept = <<>>
       \/ Gapless(kept) /\ Comes(ms, seq, 0, After(kept[Len(kept)]))

LinkInv ==
    /\ LinkTyped
    /\ RolesInOrder
    /\ clean => InTurn(up, beat.seq, seqs)
    /\ ~pooled => seqs = <<>>

-----------------------------------------------------------------------------
(* Message by message                                                      *)

\* Counting up to k reaches every number.
LEMMA CountedUp ==
    ASSUME NEW k \in Nat, NEW T, 0 \in T, \A n \in 1 .. k : n - 1 \in T => n \in T
    PROVE  \A n \in 0 .. k : n \in T
<1>. SUFFICES ASSUME NEW m \in 0 .. k, m \notin T PROVE FALSE
  OBVIOUS
<1>. DEFINE Missed == (0 .. k) \ T
<1>1. Missed \subseteq Nat /\ Missed # {}
  OBVIOUS
<1>2. PICK d \in Missed : \A c \in Missed : <<c, d>> \notin OpToRel(<, Nat)
  BY <1>1, NatLessThanWellFounded, WFMin
<1>3. d \in Nat /\ d # 0 /\ d - 1 \in 0 .. k /\ d \in 1 .. k /\ d \notin T
  OBVIOUS
<1>4. d - 1 \notin T
  BY <1>3
<1>5. d - 1 \in Missed /\ d - 1 \in Nat /\ d - 1 < d
  BY <1>3, <1>4
<1>6. <<d - 1, d>> \in OpToRel(<, Nat)
  BY <1>3, <1>5, Zenon DEF OpToRel
<1>. QED BY <1>2, <1>5, <1>6

\* The state h[n] is what step n of k makes of the one before, from x on.
Iterates(h, k, step, x) == h[0] = x /\ \A n \in 1 .. k : h[n] = step[n][h[n - 1]]

\* A state follows from each of k steps.
LEMMA Steps ==
    ASSUME NEW S, NEW k \in Nat, NEW F \in [1 .. k -> [S -> S]], NEW x \in S
    PROVE  \E h \in [0 .. k -> S] : Iterates(h, k, F, x)
<1>. DEFINE T == {j \in 0 .. k : \E h \in [0 .. j -> S] : Iterates(h, j, F, x)}
<1>1. 0 \in T
  <2>. DEFINE h == [n \in 0 .. 0 |-> x]
  <2>1. h \in [0 .. 0 -> S] /\ h[0] = x /\ 1 .. 0 = {}
    OBVIOUS
  <2>. HIDE DEF h
  <2>2. h \in [0 .. 0 -> S] /\ Iterates(h, 0, F, x)
    BY <2>1 DEF Iterates
  <2>3. 0 \in 0 .. k
    OBVIOUS
  <2>. QED BY <2>2, <2>3
<1>2. ASSUME NEW n \in 1 .. k, n - 1 \in T PROVE n \in T
  <2>1. PICK g \in [0 .. n - 1 -> S] : Iterates(g, n - 1, F, x)
    BY <1>2
  <2>. DEFINE h == [j \in 0 .. n |-> IF j = n THEN F[n][g[n - 1]] ELSE g[j]]
  <2>2. n \in Nat /\ n - 1 \in 0 .. n - 1 /\ g[n - 1] \in S /\ F[n][g[n - 1]] \in S
    OBVIOUS
  <2>3. h \in [0 .. n -> S]
    BY <2>2
  <2>4. h[0] = x
    BY <2>1, <2>2 DEF Iterates
  <2>5. ASSUME NEW j \in 1 .. n PROVE h[j] = F[j][h[j - 1]]
    <3>1. j - 1 \in 0 .. n /\ j \in 0 .. n /\ j - 1 # n /\ h[j - 1] = g[j - 1]
      OBVIOUS
    <3>2. CASE j = n
      <4>1. h[n] = F[n][g[n - 1]]
        BY <2>2
      <4>. QED BY <3>1, <3>2, <4>1
    <3>3. CASE j # n
      <4>1. j \in 1 .. n - 1
        BY <3>3
      <4>2. h[j] = g[j]
        BY <3>1, <3>3
      <4>. QED BY <2>1, <3>1, <4>1, <4>2 DEF Iterates
    <3>. QED BY <3>2, <3>3
  <2>. HIDE DEF h
  <2>6. Iterates(h, n, F, x)
    BY <2>4, <2>5 DEF Iterates
  <2>7. n \in 0 .. k
    OBVIOUS
  <2>. QED BY <2>3, <2>6, <2>7
<1>. HIDE DEF T
<1>3. \A n \in 0 .. k : n \in T
  BY <1>1, <1>2, CountedUp
<1>4. k \in T
  BY <1>3
<1>. QED BY <1>4 DEF T

-----------------------------------------------------------------------------
(* Places in a sequence                                                    *)

\* The places kept of a sequence keep their order and are all taken.
LEMMA Placed ==
    ASSUME NEW k \in Nat, NEW kept \in SUBSET (1 .. k)
    PROVE  LET place(i) == Cardinality({j \in kept : j <= i})
           IN  /\ IsFiniteSet(kept) /\ Cardinality(kept) \in Nat
               /\ \A i \in kept : place(i) \in 1 .. Cardinality(kept)
               /\ \A i, j \in kept : i < j => place(i) < place(j)
               /\ \A n \in 1 .. Cardinality(kept) : \E i \in kept : place(i) = n
<1>. DEFINE place(i) == Cardinality({j \in kept : j <= i})
            N == Cardinality(kept)
            f == [i \in kept |-> place(i)]
<1>1. IsFiniteSet(1 .. k) /\ 1 \in Int /\ k \in Int
  BY FS_Interval
<1>2. IsFiniteSet(kept) /\ N \in Nat
  BY <1>1, FS_Subset, FS_CardinalityType
<1>3. \A i \in kept : i \in 1 .. k /\ i \in Nat
  OBVIOUS
<1>4. \A i \in Nat : IsFiniteSet({j \in kept : j <= i}) /\ place(i) \in Nat /\ place(i) <= N
  <2>. TAKE i \in Nat
  <2>1. {j \in kept : j <= i} \in SUBSET kept
    OBVIOUS
  <2>. QED BY <1>2, <2>1, FS_Subset, FS_CardinalityType
<1>5. \A i, j \in kept : i < j => place(i) < place(j)
  <2>. SUFFICES ASSUME NEW i \in kept, NEW j \in kept, i < j PROVE place(i) < place(j)
    OBVIOUS
  <2>. DEFINE A == {x \in kept : x <= i}
              B == {x \in kept : x <= j}
  <2>. i \in Nat /\ j \in Nat
    BY <1>3
  <2>1. A \in SUBSET B /\ j \in B /\ j \notin A
    <3>1. \A x \in kept : x <= i => x <= j
      BY <1>3
    <3>2. j <= j /\ ~(j <= i)
      OBVIOUS
    <3>. QED BY <3>1, <3>2
  <2>2. IsFiniteSet(B) /\ Cardinality(A) \in Nat /\ Cardinality(B) \in Nat
    BY <1>3, <1>4
  <2>. HIDE DEF A, B
  <2>3. Cardinality(A) <= Cardinality(B) /\ Cardinality(A) # Cardinality(B)
    BY <2>1, <2>2, FS_Subset
  <2>4. Cardinality(A) < Cardinality(B)
    BY <2>2, <2>3
  <2>. QED BY <2>4 DEF A, B
<1>6. \A i \in kept : place(i) \in 1 .. N
  <2>. TAKE i \in kept
  <2>1. i \in {j \in kept : j <= i}
    BY <1>3
  <2>2. place(i) # 0
    BY <1>3, <1>4, <2>1, FS_EmptySet
  <2>. QED BY <1>2, <1>3, <1>4, <2>2
<1>. HIDE DEF place
<1>7. f \in Injection(kept, 1 .. N)
  <2>1. \A i, j \in kept : i # j => place(i) # place(j)
    <3>. SUFFICES ASSUME NEW i \in kept, NEW j \in kept, i # j, place(i) = place(j) PROVE FALSE
      OBVIOUS
    <3>1. i < j \/ j < i
      BY <1>3
    <3>. QED BY <1>2, <1>5, <1>6, <3>1
  <2>. QED BY <1>6, <2>1 DEF Injection, IsInjective
<1>8. IsFiniteSet(1 .. N) /\ Cardinality(1 .. N) = N
  <2>1. 1 \in Int /\ N \in Int
    BY <1>2
  <2>. QED BY <1>2, <2>1, FS_Interval
<1>9. f \in Surjection(kept, 1 .. N)
  BY <1>7, <1>8, FS_Injection
<1>10. \A n \in 1 .. N : \E i \in kept : place(i) = n
  BY <1>9 DEF Surjection
<1>. QED BY <1>2, <1>5, <1>6, <1>10 DEF place

\* A purge drops what it is asked to and keeps the rest as it is.

\* The places of p that f gives are those kept of ms, in order.
PickedBy(f, p, ms, kept) ==
    /\ \A n \in DOMAIN p : p[n] = ms[f[n]]
    /\ \A m, n \in DOMAIN p : m < n => f[m] < f[n]
    /\ \A i \in kept : \E n \in DOMAIN p : f[n] = i

\* Pick keeps what is in the places asked for, in its order.
LEMMA Picked ==
    ASSUME NEW M, NEW ms \in Seq(M), NEW kept \in SUBSET DOMAIN ms
    PROVE  LET p == Pick(ms, kept) IN
           /\ p \in Seq(M) /\ IsFiniteSet(kept) /\ Len(p) = Cardinality(kept)
           /\ \E f \in [DOMAIN p -> kept] : PickedBy(f, p, ms, kept)
<1>. DEFINE place(i) == Cardinality({j \in kept : j <= i})
            N == Cardinality(kept)
            Spot(n) == CHOOSE j \in kept : place(j) = n
            p == Pick(ms, kept)
            f == [n \in 1 .. N |-> Spot(n)]
<1>1. Len(ms) \in Nat /\ DOMAIN ms = 1 .. Len(ms) /\ kept \in SUBSET (1 .. Len(ms))
  BY LenProperties
<1>2. p = [n \in 1 .. N |-> ms[Spot(n)]]
  BY DEF Pick
<1>3. /\ IsFiniteSet(kept) /\ N \in Nat
      /\ \A i \in kept : place(i) \in 1 .. N
      /\ \A i, j \in kept : i < j => place(i) < place(j)
      /\ \A n \in 1 .. N : \E i \in kept : place(i) = n
  BY <1>1, Placed
<1>. HIDE DEF place, N
<1>4. \A n \in 1 .. N : Spot(n) \in kept /\ place(Spot(n)) = n
  BY <1>3
<1>. HIDE DEF Spot
<1>5. \A n \in 1 .. N : Spot(n) \in DOMAIN ms /\ ms[Spot(n)] \in M
  BY <1>4, ElementOfSeq, <1>1
<1>6. p \in Seq(M) /\ Len(p) = N /\ DOMAIN p = 1 .. N
  <2>. HIDE DEF p
  <2>1. p \in [1 .. N -> M]
    BY <1>2, <1>5
  <2>. QED BY <1>3, <2>1, IsASeq
<1>. HIDE DEF p
<1>7. f \in [DOMAIN p -> kept]
  BY <1>4, <1>6
<1>8. \A n \in DOMAIN p : p[n] = ms[f[n]]
  BY <1>2, <1>6
<1>9. ASSUME NEW m \in DOMAIN p, NEW n \in DOMAIN p, m < n PROVE f[m] < f[n]
  <2>1. /\ m \in 1 .. N /\ n \in 1 .. N /\ f[m] = Spot(m) /\ f[n] = Spot(n)
    BY <1>6
  <2>. HIDE DEF f
  <2>2. /\ f[m] \in kept /\ f[n] \in kept /\ place(f[m]) = m /\ place(f[n]) = n
        /\ f[m] \in 1 .. Len(ms) /\ f[n] \in 1 .. Len(ms)
    BY <1>1, <1>4, <2>1
  <2>3. f[m] # f[n]
    BY <1>9, <2>1, <2>2
  <2>4. ~(f[n] < f[m])
    <3>1. f[n] < f[m] => n < m
      BY <1>3, <2>2
    <3>. QED BY <1>9, <2>1, <3>1
  <2>. QED BY <2>2, <2>3, <2>4
<1>10. ASSUME NEW i \in kept PROVE \E n \in DOMAIN p : f[n] = i
  <2>1. place(i) \in 1 .. N
    BY <1>3
  <2>. DEFINE s == Spot(place(i))
  <2>2. s \in kept /\ place(s) = place(i)
    BY <1>4, <2>1
  <2>. HIDE DEF s
  <2>3. s \in Nat /\ i \in Nat
    BY <1>1, <2>2
  <2>4. ~(s < i) /\ ~(i < s)
    <3>1. (s < i => place(s) < place(i)) /\ (i < s => place(i) < place(s))
      BY <1>3, <2>2
    <3>. QED BY <2>1, <2>2, <3>1
  <2>5. s = i
    BY <2>3, <2>4
  <2>. QED BY <1>6, <2>1, <2>5 DEF s
<1>. HIDE DEF f
<1>11. PickedBy(f, p, ms, kept)
  BY <1>8, <1>9, <1>10 DEF PickedBy
<1>. QED BY <1>3, <1>6, <1>7, <1>11 DEF N, p

-----------------------------------------------------------------------------
(* What the device and Control make of their messages                      *)

HeardFrom(h, ms, st) ==
    h[0] = st /\ \A n \in 1 .. Len(ms) : h[n] = Heard(h[n - 1], ms[n])

\* A lap goes through its messages one by one.
LEMMA HeardStepwise ==
    ASSUME NEW S, NEW M, NEW ms \in Seq(M), NEW st \in S,
           \A s \in S, m \in M : Heard(s, m) \in S
    PROVE  \E h \in [0 .. Len(ms) -> S] :
              HeardFrom(h, ms, st) /\ HeardAll(ms, st) = h[Len(ms)]
<1>. DEFINE k == Len(ms)
            F == [n \in 1 .. k |-> [s \in S |-> Heard(s, ms[n])]]
            Fits(g) == g = [n \in 0 .. k |-> IF n = 0 THEN st ELSE Heard(g[n - 1], ms[n])]
            all == CHOOSE g : Fits(g)
<1>1. k \in Nat /\ \A n \in 1 .. k : ms[n] \in M
  BY ElementOfSeq, LenProperties
<1>2. F \in [1 .. k -> [S -> S]]
  BY <1>1
<1>3. PICK h \in [0 .. k -> S] : Iterates(h, k, F, st)
  <2>. HIDE DEF F, k
  <2>1. k \in Nat /\ F \in [1 .. k -> [S -> S]] /\ st \in S
    BY <1>1, <1>2
  <2>. QED BY <2>1, Steps, Zenon
<1>4. \A n \in 1 .. k, s \in S : F[n][s] = Heard(s, ms[n])
  OBVIOUS
<1>. HIDE DEF F, k
<1>5. \A n \in 1 .. k : n - 1 \in 0 .. k /\ h[n] = Heard(h[n - 1], ms[n])
  BY <1>1, <1>3, <1>4, SMTT(30) DEF Iterates
<1>6. Fits(h)
  <2>1. h = [n \in 0 .. k |-> h[n]]
    BY <1>3
  <2>2. \A n \in 0 .. k : h[n] = IF n = 0 THEN st ELSE Heard(h[n - 1], ms[n])
    BY <1>1, <1>3, <1>5 DEF Iterates
  <2>. QED BY <2>1, <2>2
<1>7. Fits(all)
  BY <1>6
<1>8. HeardAll(ms, st) = all[k]
  BY DEF HeardAll, k
<1>. HIDE DEF all
<1>9. PICK g : Fits(g) /\ HeardAll(ms, st) = g[k]
  BY <1>7, <1>8
<1>10. g = [n \in 0 .. k |-> g[n]]
  BY <1>9
<1>11. g[0] = st /\ \A n \in 1 .. k : g[n] = Heard(g[n - 1], ms[n])
  <2>1. 0 \in 0 .. k
    BY <1>1
  <2>2. ASSUME NEW n \in 1 .. k PROVE g[n] = Heard(g[n - 1], ms[n])
    <3>1. n \in 0 .. k /\ n # 0
      BY <1>1
    <3>. QED BY <1>9, <3>1
  <2>. QED BY <1>9, <2>1, <2>2
<1>12. g \in [0 .. k -> S]
  <2>. DEFINE T == {j \in 0 .. k : g[j] \in S}
  <2>1. 0 \in T
    BY <1>1, <1>11
  <2>2. ASSUME NEW n \in 1 .. k, n - 1 \in T PROVE n \in T
    <3>1. n \in 0 .. k /\ ms[n] \in M
      BY <1>1
    <3>2. Heard(g[n - 1], ms[n]) \in S
      BY <2>2, <3>1
    <3>. QED BY <1>11, <3>1, <3>2
  <2>. HIDE DEF T
  <2>3. \A n \in 0 .. k : n \in T
    BY <1>1, <2>1, <2>2, CountedUp
  <2>. QED BY <1>10, <2>3 DEF T
<1>13. HeardFrom(g, ms, st)
  BY <1>11 DEF HeardFrom, k
<1>. QED BY <1>9, <1>12, <1>13 DEF k

HandledFrom(h, ms, st) ==
    h[0] = st /\ \A n \in 1 .. Len(ms) : h[n] = Handled(h[n - 1], ms[n])

\* And so does a poll.
LEMMA HandledStepwise ==
    ASSUME NEW S, NEW M, NEW ms \in Seq(M), NEW st \in S,
           \A s \in S, m \in M : Handled(s, m) \in S
    PROVE  \E h \in [0 .. Len(ms) -> S] :
              HandledFrom(h, ms, st) /\ HandledAll(ms, st) = h[Len(ms)]
<1>. DEFINE k == Len(ms)
            F == [n \in 1 .. k |-> [s \in S |-> Handled(s, ms[n])]]
            Fits(g) == g = [n \in 0 .. k |-> IF n = 0 THEN st ELSE Handled(g[n - 1], ms[n])]
            all == CHOOSE g : Fits(g)
<1>1. k \in Nat /\ \A n \in 1 .. k : ms[n] \in M
  BY ElementOfSeq, LenProperties
<1>2. F \in [1 .. k -> [S -> S]]
  BY <1>1
<1>3. PICK h \in [0 .. k -> S] : Iterates(h, k, F, st)
  <2>. HIDE DEF F, k
  <2>1. k \in Nat /\ F \in [1 .. k -> [S -> S]] /\ st \in S
    BY <1>1, <1>2
  <2>. QED BY <2>1, Steps, Zenon
<1>4. \A n \in 1 .. k, s \in S : F[n][s] = Handled(s, ms[n])
  OBVIOUS
<1>. HIDE DEF F, k
<1>5. \A n \in 1 .. k : n - 1 \in 0 .. k /\ h[n] = Handled(h[n - 1], ms[n])
  BY <1>1, <1>3, <1>4, SMTT(30) DEF Iterates
<1>6. Fits(h)
  <2>1. h = [n \in 0 .. k |-> h[n]]
    BY <1>3
  <2>2. \A n \in 0 .. k : h[n] = IF n = 0 THEN st ELSE Handled(h[n - 1], ms[n])
    BY <1>1, <1>3, <1>5 DEF Iterates
  <2>. QED BY <2>1, <2>2
<1>7. Fits(all)
  BY <1>6
<1>8. HandledAll(ms, st) = all[k]
  BY DEF HandledAll, k
<1>. HIDE DEF all
<1>9. PICK g : Fits(g) /\ HandledAll(ms, st) = g[k]
  BY <1>7, <1>8
<1>10. g = [n \in 0 .. k |-> g[n]]
  BY <1>9
<1>11. g[0] = st /\ \A n \in 1 .. k : g[n] = Handled(g[n - 1], ms[n])
  <2>1. 0 \in 0 .. k
    BY <1>1
  <2>2. ASSUME NEW n \in 1 .. k PROVE g[n] = Handled(g[n - 1], ms[n])
    <3>1. n \in 0 .. k /\ n # 0
      BY <1>1
    <3>. QED BY <1>9, <3>1
  <2>. QED BY <1>9, <2>1, <2>2
<1>12. g \in [0 .. k -> S]
  <2>. DEFINE T == {j \in 0 .. k : g[j] \in S}
  <2>1. 0 \in T
    BY <1>1, <1>11
  <2>2. ASSUME NEW n \in 1 .. k, n - 1 \in T PROVE n \in T
    <3>1. n \in 0 .. k /\ ms[n] \in M
      BY <1>1
    <3>2. Handled(g[n - 1], ms[n]) \in S
      BY <2>2, <3>1
    <3>. QED BY <1>11, <3>1, <3>2
  <2>. HIDE DEF T
  <2>3. \A n \in 0 .. k : n \in T
    BY <1>1, <2>1, <2>2, CountedUp
  <2>. QED BY <1>10, <2>3 DEF T
<1>13. HandledFrom(g, ms, st)
  BY <1>11 DEF HandledFrom, k
<1>. QED BY <1>9, <1>12, <1>13 DEF k

-----------------------------------------------------------------------------
(* What the BeatLink's functions keep                                      *)

LEMMA LinkNumbers ==
    /\ LostAfter \in Nat /\ Grace \in Nat /\ HelloEvery \in Nat /\ SeqWrap \in Nat
    /\ SeqWrap > 0 /\ MaxEpoch \in Nat /\ MaxEpoch > 0 /\ None \notin Nat
    /\ 0 \in Numbers /\ \A n \in Numbers : n \in Nat /\ After(n) \in Numbers
<1>1. /\ LostAfter \in Nat /\ Grace \in Nat /\ HelloEvery \in Nat /\ SeqWrap \in Nat
      /\ SeqWrap > 0 /\ MaxEpoch \in Nat /\ MaxEpoch > 0 /\ None \notin Nat
  BY BeatLinkAssumption, LinkAssumption
<1>. QED BY <1>1 DEF Numbers, After

LEMMA AfterIs ==
    ASSUME NEW n \in Numbers
    PROVE  After(n) = n + 1 \/ After(n) = 0
<1>1. n \in Nat /\ n + 1 <= SeqWrap /\ SeqWrap \in Nat /\ SeqWrap > 0
  BY LinkNumbers DEF Numbers
<1>2. CASE n + 1 < SeqWrap
  BY <1>1, <1>2 DEF After
<1>3. CASE n + 1 = SeqWrap
  BY <1>1, <1>3 DEF After
<1>. QED BY <1>1, <1>2, <1>3

\* What an operation on a BeatLink leaves of its epoch and number.
LEMMA LinkUpKeeps ==
    ASSUME NEW e \in Nat, NEW b \in BeatLinks(e)
    PROVE  /\ LinkUp(b) \in BeatLinks(e)
           /\ LinkUp(b).epoch = b.epoch /\ LinkUp(b).seq = After(0)
<1>1. 1 % SeqWrap = After(0) /\ After(0) \in Numbers
  BY LinkNumbers DEF After, Numbers
<1>. DEFINE st == IF b.state = "down" THEN "linking" ELSE b.state
            ar == b.armed /\ b.state = "linked"
            he == IF b.state = "linked" THEN b.heard ELSE 0
            c == [b EXCEPT !.up = TRUE, !.seq = After(0), !.hello = HelloEvery,
                           !.armed = ar, !.heard = he, !.state = st]
<1>2. LinkUp(b) = c
  BY <1>1 DEF LinkUp
<1>3. /\ st \in {"down", "linking", "linked", "looking", "solo"} /\ ar \in BOOLEAN
      /\ he \in Ages /\ HelloEvery \in {None} \cup (0 .. HelloEvery)
  BY LinkNumbers DEF BeatLinks, Ages
<1>. HIDE DEF st, ar, he
<1>4. c \in BeatLinks(e) /\ c.epoch = b.epoch /\ c.seq = After(0)
  BY <1>1, <1>3 DEF BeatLinks
<1>. QED BY <1>2, <1>4

LEMMA LinkDownKeeps ==
    ASSUME NEW e \in Nat, NEW b \in BeatLinks(e)
    PROVE  /\ LinkDown(b) \in BeatLinks(e)
           /\ LinkDown(b).epoch = b.epoch /\ LinkDown(b).seq = b.seq
BY LinkNumbers DEF LinkDown, BeatLinks, Ages

LEMMA MessageKeeps ==
    ASSUME NEW e \in Nat, NEW b \in BeatLinks(e)
    PROVE  /\ OnControlMessage(b) \in BeatLinks(e)
           /\ OnControlMessage(b).epoch = b.epoch /\ OnControlMessage(b).seq = b.seq
           /\ OnControlMessage(b).up = b.up
BY LinkNumbers DEF OnControlMessage, BeatLinks, Ages

LEMMA ReplyKeeps ==
    ASSUME NEW e \in Nat, NEW b \in BeatLinks(e), NEW n \in 1 .. e
    PROVE  /\ OnBeatReply(b, n) \in BeatLinks(e) /\ OnBeatReply(b, n).seq = b.seq
           /\ OnBeatReply(b, n).epoch = IF b.up THEN n ELSE b.epoch
<1>1. /\ 0 \in Ages /\ n \in {None} \cup (1 .. e) /\ None \in {None} \cup Ages
      /\ TRUE \in BOOLEAN
  BY LinkNumbers DEF Ages
<1>. QED BY <1>1 DEF OnBeatReply, BeatLinks

LEMMA AgedKeeps ==
    ASSUME NEW e \in Nat, NEW b \in BeatLinks(e)
    PROVE  /\ Aged(b) \in BeatLinks(e)
           /\ Aged(b).epoch = b.epoch /\ Aged(b).seq = b.seq
<1>1. \A age \in {None} \cup Ages : Older(age) \in {None} \cup Ages /\ (age # None => Older(age) # None)
  BY LinkNumbers DEF Older, Ages
<1>. DEFINE w == IF b.hello \in {0, None} THEN b.hello ELSE b.hello - 1
            he == Older(b.heard)
            lo == Older(b.lost)
            c == [b EXCEPT !.heard = he, !.lost = lo, !.hello = w]
<1>2. Aged(b) = c
  BY DEF Aged
<1>3. w \in {None} \cup (0 .. HelloEvery)
  BY LinkNumbers DEF BeatLinks
<1>4. he \in Ages /\ lo \in {None} \cup Ages
  BY <1>1, LinkNumbers DEF BeatLinks, Ages
<1>. HIDE DEF w, he, lo
<1>5. c \in BeatLinks(e) /\ c.epoch = b.epoch /\ c.seq = b.seq
  BY <1>3, <1>4 DEF BeatLinks
<1>. QED BY <1>2, <1>5

LEMMA TickKeeps ==
    ASSUME NEW e \in Nat, NEW b \in BeatLinks(e), NEW beats \in BOOLEAN
    PROVE  /\ Tick(b, beats) \in BeatLinks(e)
           /\ Tick(b, beats).epoch = b.epoch
           /\ Tick(b, beats).seq = IF beats /\ ~GivesUp(b) THEN After(b.seq) ELSE b.seq
<1>. DEFINE lostOne == [b EXCEPT !.up = FALSE, !.armed = FALSE, !.hello = None,
                                 !.lost = b.heard, !.state = "looking"]
            q == IF beats THEN (b.seq + 1) % SeqWrap ELSE b.seq
            w == IF HelloDue(b) THEN HelloEvery ELSE b.hello
            other == [b EXCEPT !.seq = q, !.hello = w]
            c == IF GivesUp(b) THEN lostOne ELSE other
            d == [c EXCEPT !.state = IF @ = "looking" /\ c.lost # None /\ c.lost >= Grace
                                    THEN "solo" ELSE @]
<1>1. Tick(b, beats) = d
  BY DEF Tick
<1>2. /\ lostOne \in BeatLinks(e) /\ lostOne.epoch = b.epoch /\ lostOne.seq = b.seq
  BY DEF BeatLinks
<1>3. /\ other \in BeatLinks(e) /\ other.epoch = b.epoch
      /\ other.seq = IF beats THEN After(b.seq) ELSE b.seq
  <2>1. q \in Numbers /\ q = IF beats THEN After(b.seq) ELSE b.seq
    BY LinkNumbers DEF BeatLinks, After
  <2>2. w \in {None} \cup (0 .. HelloEvery)
    BY LinkNumbers DEF BeatLinks
  <2>. HIDE DEF q, w
  <2>. QED BY <2>1, <2>2 DEF BeatLinks
<1>. HIDE DEF lostOne, other
<1>4. /\ c \in BeatLinks(e) /\ c.epoch = b.epoch
      /\ c.seq = IF beats /\ ~GivesUp(b) THEN After(b.seq) ELSE b.seq
  BY <1>2, <1>3
<1>. HIDE DEF c
<1>5. d \in BeatLinks(e) /\ d.epoch = c.epoch /\ d.seq = c.seq
  BY <1>4 DEF BeatLinks
<1>. QED BY <1>1, <1>4, <1>5

-----------------------------------------------------------------------------
(* A message                                                               *)

HeardStates == [b : BeatLinks(epoch), role : {None} \cup (1 .. epoch),
                out : Seq({HelloMsg}), over : BOOLEAN]

\* What a message does to the device: only a reply gives it an epoch, only a role that
\* of its Control, and a new epoch takes it away.
LEMMA HeardDoes ==
    ASSUME epoch \in Nat, NEW s \in HeardStates, NEW m \in Downward(1, epoch)
    PROVE  /\ Heard(s, m) \in HeardStates /\ Heard(s, m).b.seq = s.b.seq
           /\ Heard(s, m).b.epoch = IF m.verb = "beat" /\ s.b.up THEN m.n ELSE s.b.epoch
           /\ Heard(s, m).role = IF m.verb = "role" THEN m.n
                                 ELSE IF m.verb = "beat" /\ NewEpoch(s.b, m.n) THEN None
                                 ELSE s.role
<1>1. /\ s.b \in BeatLinks(epoch) /\ s.role \in {None} \cup (1 .. epoch)
      /\ s.out \in Seq({HelloMsg}) /\ s.over \in BOOLEAN
      /\ s = [b |-> s.b, role |-> s.role, out |-> s.out, over |-> s.over]
  BY DEF HeardStates
<1>2. m.verb \in {"beat", "role", "release", "leds"} /\ m.n \in 1 .. epoch
  BY DEF Downward
<1>. DEFINE c == OnControlMessage(s.b)
            d == OnBeatReply(c, m.n)
            fresh == NewEpoch(s.b, m.n)
            o == IF fresh THEN Append(s.out, HelloMsg) ELSE s.out
            r == IF fresh THEN None ELSE s.role
<1>3. /\ c \in BeatLinks(epoch) /\ c.seq = s.b.seq /\ c.epoch = s.b.epoch /\ c.up = s.b.up
  BY <1>1, MessageKeeps
<1>4. /\ d \in BeatLinks(epoch) /\ d.seq = s.b.seq
      /\ d.epoch = IF s.b.up THEN m.n ELSE s.b.epoch
  <2>. HIDE DEF c
  <2>. QED BY <1>2, <1>3, ReplyKeeps
<1>5. o \in Seq({HelloMsg})
  <2>1. HelloMsg \in {HelloMsg}
    OBVIOUS
  <2>2. Append(s.out, HelloMsg) \in Seq({HelloMsg})
    BY <1>1, <2>1, AppendProperties
  <2>. QED BY <1>1, <2>2
<1>6. Heard(s, m) =
         CASE m.verb = "beat" -> [s EXCEPT !.b = d, !.role = r, !.out = o]
           [] m.verb = "role" -> [s EXCEPT !.b = c, !.role = m.n]
           [] m.verb = "release" -> [s EXCEPT !.b = c, !.over = TRUE]
           [] OTHER -> [s EXCEPT !.b = c]
  BY Zenon DEF Heard
<1>7. r \in {None} \cup (1 .. epoch)
  BY <1>1
<1>8. r = IF fresh THEN None ELSE s.role
  OBVIOUS
<1>. HIDE DEF c, d, r, o, fresh
<1>. DEFINE h == Heard(s, m)
            B == BeatLinks(epoch)
            O == Seq({HelloMsg})
<1>9. HeardStates = [b : B, role : {None} \cup (1 .. epoch), out : O, over : BOOLEAN]
  BY DEF HeardStates
<1>10. CASE m.verb = "beat"
  <2>1. h = [s EXCEPT !.b = d, !.role = r, !.out = o]
    BY <1>6, <1>10
  <2>2. d \in B /\ o \in O
    BY <1>4, <1>5
  <2>. HIDE DEF h, B, O
  <2>3. h \in HeardStates /\ h.b = d /\ h.role = r
    BY <1>7, <1>9, <2>1, <2>2
  <2>. QED BY <1>4, <1>8, <1>10, <2>3 DEF h, fresh
<1>11. CASE m.verb = "role"
  <2>1. h = [s EXCEPT !.b = c, !.role = m.n]
    BY <1>6, <1>11
  <2>2. c \in B
    BY <1>3
  <2>. HIDE DEF h, B, O
  <2>3. h \in HeardStates /\ h.b = c /\ h.role = m.n
    BY <1>2, <1>9, <2>1, <2>2
  <2>. QED BY <1>3, <1>11, <2>3 DEF h
<1>12. CASE m.verb = "release"
  <2>1. h = [s EXCEPT !.b = c, !.over = TRUE]
    BY <1>6, <1>12
  <2>2. c \in B
    BY <1>3
  <2>. HIDE DEF h, B, O
  <2>3. h \in HeardStates /\ h.b = c /\ h.role = s.role
    BY <1>9, <2>1, <2>2
  <2>. QED BY <1>3, <1>12, <2>3 DEF h
<1>13. CASE m.verb = "leds"
  <2>1. h = [s EXCEPT !.b = c]
    BY <1>6, <1>13
  <2>2. c \in B
    BY <1>3
  <2>. HIDE DEF h, B, O
  <2>3. h \in HeardStates /\ h.b = c /\ h.role = s.role
    BY <1>9, <2>1, <2>2
  <2>. QED BY <1>3, <1>13, <2>3 DEF h
<1>. QED BY <1>2, <1>10, <1>11, <1>12, <1>13

LEMMA LinkTypes ==
    ASSUME LinkTyped
    PROVE  /\ epoch \in Nat /\ epoch \in 1 .. MaxEpoch /\ beat \in BeatLinks(epoch)
           /\ beat.seq \in Numbers /\ beat.epoch \in {None} \cup (1 .. epoch)
           /\ Len(down) \in Nat /\ DOMAIN down = 1 .. Len(down)
           /\ \A i \in DOMAIN down : down[i] \in Downward(1, epoch)
           /\ Len(up) \in Nat /\ DOMAIN up = 1 .. Len(up)
           /\ \A i \in DOMAIN up : up[i] \in Upward
           /\ UdpIn(down) \in SUBSET DOMAIN down /\ UdpIn(up) \in SUBSET DOMAIN up
<1>1. epoch \in Nat /\ epoch \in 1 .. MaxEpoch /\ beat \in BeatLinks(epoch)
  BY LinkNumbers DEF LinkTyped
<1>2. beat.seq \in Numbers /\ beat.epoch \in {None} \cup (1 .. epoch)
  BY <1>1 DEF BeatLinks
<1>3. up \in Seq(Upward) /\ down \in Seq(Downward(1, epoch))
  BY DEF LinkTyped
<1>4. /\ Len(down) \in Nat /\ DOMAIN down = 1 .. Len(down)
      /\ \A i \in DOMAIN down : down[i] \in Downward(1, epoch)
  BY <1>3, LenProperties, ElementOfSeq
<1>5. /\ Len(up) \in Nat /\ DOMAIN up = 1 .. Len(up)
      /\ \A i \in DOMAIN up : up[i] \in Upward
  BY <1>3, LenProperties, ElementOfSeq
<1>6. UdpIn(down) \in SUBSET DOMAIN down /\ UdpIn(up) \in SUBSET DOMAIN up
  BY DEF UdpIn
<1>. QED BY <1>1, <1>2, <1>4, <1>5, <1>6

\* Losing messages brings no role before its place.
LEMMA RolesArrive ==
    ASSUME LinkTyped, RolesFirst(down, beat.epoch), NEW now \in SUBSET UdpIn(down)
    PROVE  LET ms == Arrived(down, now) IN
           ms \in Seq(Downward(1, epoch)) /\ RolesFirst(ms, beat.epoch)
<1>. DEFINE ms == Arrived(down, now)
            kept == now \cup (DOMAIN down \ UdpIn(down))
<1>1. kept \in SUBSET DOMAIN down /\ down \in Seq(Downward(1, epoch)) /\ ms = Pick(down, kept)
  BY LinkTypes DEF Arrived, LinkTyped
<1>. HIDE DEF ms, kept
<1>2. ms \in Seq(Downward(1, epoch)) /\ Len(ms) \in Nat /\ DOMAIN ms = 1 .. Len(ms)
  BY <1>1, Picked, LenProperties
<1>3. PICK f \in [DOMAIN ms -> kept] : PickedBy(f, ms, down, kept)
  BY <1>1, Picked
<1>4. /\ \A n \in DOMAIN ms : f[n] \in DOMAIN down /\ f[n] \in Nat /\ ms[n] = down[f[n]]
      /\ \A m, n \in DOMAIN ms : m < n => f[m] < f[n]
  BY <1>1, <1>3, LinkTypes DEF PickedBy
<1>5. ASSUME NEW j \in DOMAIN ms, ms[j].verb = "role", ms[j].n # epoch
      PROVE  beat.epoch # epoch /\ \A i \in 1 .. j : ms[i] # BeatMsg(epoch)
  <2>1. /\ f[j] \in DOMAIN down /\ down[f[j]].verb = "role" /\ down[f[j]].n # epoch
    BY <1>4, <1>5
  <2>2. beat.epoch # epoch /\ \A i \in 1 .. f[j] : down[i] # BeatMsg(epoch)
    BY <2>1 DEF RolesFirst
  <2>3. ASSUME NEW i \in 1 .. j PROVE ms[i] # BeatMsg(epoch)
    <3>1. i \in DOMAIN ms /\ (i = j \/ i < j)
      BY <1>2
    <3>2. f[i] = f[j] \/ f[i] < f[j]
      BY <1>4, <3>1
    <3>3. f[i] \in 1 .. f[j]
      BY <1>4, <3>1, <3>2, LinkTypes
    <3>. QED BY <1>4, <2>2, <3>1, <3>3
  <2>. QED BY <2>2, <2>3
<1>6. RolesFirst(ms, beat.epoch)
  BY <1>5 DEF RolesFirst
<1>. QED BY <1>2, <1>6 DEF ms

\* What a lap hears keeps the device's number, and leaves it no role of a Control that
\* was before the one it has heard.
LEMMA RolesHeard ==
    ASSUME LinkTyped, RolesInOrder, NEW now \in SUBSET UdpIn(down)
    PROVE  LET st == HeardAll(Arrived(down, now),
                              [b |-> beat, role |-> role, out |-> <<>>, over |-> FALSE])
           IN  /\ st \in HeardStates /\ st.b.seq = beat.seq
               /\ beat.epoch # None => st.b.epoch # None
               /\ beat.epoch # None /\ st.b.epoch = epoch =>
                     st.role \in {None, epoch} \/ (st.role = role /\ beat.epoch = epoch)
<1>. DEFINE ms == Arrived(down, now)
            first == [b |-> beat, role |-> role, out |-> <<>>, over |-> FALSE]
            k == Len(ms)
<1>1. ms \in Seq(Downward(1, epoch)) /\ RolesFirst(ms, beat.epoch)
  BY RolesArrive DEF RolesInOrder
<1>. HIDE DEF ms
<1>2. k \in Nat /\ DOMAIN ms = 1 .. k /\ \A n \in 1 .. k : ms[n] \in Downward(1, epoch)
  BY <1>1, LenProperties, ElementOfSeq
<1>3. first \in HeardStates
  <2>1. <<>> \in Seq({HelloMsg})
    BY EmptySeq
  <2>. QED BY <2>1, LinkTypes DEF HeardStates, LinkTyped
<1>4. \A s \in HeardStates, m \in Downward(1, epoch) : Heard(s, m) \in HeardStates
  BY LinkTypes, HeardDoes
<1>. HIDE DEF first
<1>5. PICK h \in [0 .. k -> HeardStates] :
                 /\ h[0] = first /\ HeardAll(ms, first) = h[k]
                 /\ \A n \in 1 .. k : h[n] = Heard(h[n - 1], ms[n])
  <2>. DEFINE S == HeardStates
              M == Downward(1, epoch)
  <2>1. ms \in Seq(M) /\ first \in S /\ \A s \in S, m \in M : Heard(s, m) \in S
    BY <1>1, <1>3, <1>4
  <2>. HIDE DEF S, M
  <2>2. \E h \in [0 .. Len(ms) -> S] :
              HeardFrom(h, ms, first) /\ HeardAll(ms, first) = h[Len(ms)]
    BY <2>1, HeardStepwise, ZenonT(60)
  <2>. QED BY <2>2 DEF S, HeardFrom
<1>. HIDE DEF k
<1>. DEFINE Later(n) == \A j \in 1 .. k : j > n /\ ms[j].verb = "role" => ms[j].n = epoch
            Free(s) == s.role \in {None, epoch} \/ (s.role = role /\ beat.epoch = epoch)
            Fine(n) == /\ h[n].b.seq = beat.seq
                       /\ beat.epoch # None => h[n].b.epoch # None
                       /\ beat.epoch # None /\ h[n].b.epoch = epoch => Free(h[n]) /\ Later(n)
            T == {n \in 0 .. k : Fine(n)}
<1>6. \A j \in 1 .. k : ms[j].verb = "role" /\ ms[j].n # epoch =>
         beat.epoch # epoch /\ \A i \in 1 .. j : ms[i] # BeatMsg(epoch)
  BY <1>1, <1>2 DEF RolesFirst
<1>7. 0 \in T
  <2>1. h[0].b = beat /\ h[0].role = role
    BY <1>5 DEF first
  <2>2. beat.epoch = epoch => Later(0)
    BY <1>6
  <2>. QED BY <1>2, <2>1, <2>2
<1>8. ASSUME NEW n \in 1 .. k, n - 1 \in T PROVE n \in T
  <2>. DEFINE s == h[n - 1]
              m == ms[n]
              t == h[n]
  <2>1. n \in 0 .. k /\ n - 1 \in 0 .. k /\ n \in Nat /\ Fine(n - 1)
    BY <1>2, <1>8
  <2>2. s \in HeardStates /\ m \in Downward(1, epoch) /\ t = Heard(s, m)
    BY <1>2, <1>5, <2>1
  <2>3. epoch \in Nat
    BY LinkTypes
  <2>4. /\ t.b.seq = s.b.seq
        /\ t.b.epoch = IF m.verb = "beat" /\ s.b.up THEN m.n ELSE s.b.epoch
        /\ t.role = IF m.verb = "role" THEN m.n
                    ELSE IF m.verb = "beat" /\ NewEpoch(s.b, m.n) THEN None ELSE s.role
    BY <2>2, <2>3, HeardDoes
  <2>5. /\ s.b.seq = beat.seq
        /\ beat.epoch # None => s.b.epoch # None
        /\ beat.epoch # None /\ s.b.epoch = epoch => Free(s) /\ Later(n - 1)
    BY <2>1
  <2>6. m.n \in 1 .. epoch /\ m.n # None /\ m.verb \in {"beat", "role", "release", "leds"}
    BY <2>2, LinkNumbers DEF Downward
  <2>7. Later(n - 1) => Later(n)
    BY <2>1
  <2>. HIDE DEF s, t
  <2>8. CASE m.verb = "beat" /\ s.b.up
    <3>1. t.b.epoch = m.n
      BY <2>4, <2>8
    <3>2. ASSUME beat.epoch # None, m.n = epoch PROVE Free(t) /\ Later(n)
      <4>1. m = BeatMsg(epoch)
        BY <2>2, <2>8, <3>2 DEF Downward, BeatMsg
      <4>2. Later(n)
        <5>. SUFFICES ASSUME NEW j \in 1 .. k, j > n, ms[j].verb = "role", ms[j].n # epoch
                      PROVE  FALSE
          OBVIOUS
        <5>1. n \in 1 .. j
          BY <1>2, <2>1
        <5>. QED BY <1>6, <4>1, <5>1
      <4>3. Free(t)
        <5>1. CASE s.b.epoch = epoch
          <6>1. t.role = s.role \/ t.role = None
            BY <2>4, <2>8
          <6>2. Free(s)
            BY <2>5, <3>2, <5>1
          <6>. QED BY <6>1, <6>2
        <5>2. CASE s.b.epoch # epoch
          <6>1. NewEpoch(s.b, m.n)
            BY <2>5, <2>8, <3>2, <5>2 DEF NewEpoch
          <6>2. t.role = None
            BY <2>4, <2>8, <6>1
          <6>. QED BY <6>2
        <5>. QED BY <5>1, <5>2
      <4>. QED BY <4>2, <4>3
    <3>3. Fine(n)
      <4>. HIDE DEF m
      <4>. QED BY <2>4, <2>5, <2>6, <3>1, <3>2 DEF t
    <3>. QED BY <2>1, <3>3
  <2>9. CASE m.verb = "role"
    <3>1. t.b.epoch = s.b.epoch /\ t.role = m.n
      BY <2>4, <2>9
    <3>2. Later(n - 1) => m.n = epoch
      BY <2>1, <2>9
    <3>3. Fine(n)
      <4>. HIDE DEF m
      <4>. QED BY <2>4, <2>5, <2>7, <3>1, <3>2 DEF t
    <3>. QED BY <2>1, <3>3
  <2>10. CASE m.verb # "role" /\ ~(m.verb = "beat" /\ s.b.up)
    <3>1. t.b.epoch = s.b.epoch /\ t.role = s.role
      BY <2>4, <2>10 DEF NewEpoch
    <3>2. Fine(n)
      <4>. HIDE DEF m
      <4>. QED BY <2>4, <2>5, <2>7, <3>1 DEF t
    <3>. QED BY <2>1, <3>2
  <2>. QED BY <2>6, <2>8, <2>9, <2>10
<1>9. \A n \in 0 .. k : n \in T
  <2>. HIDE DEF T
  <2>. QED BY <1>2, <1>7, <1>8, CountedUp
<1>10. k \in 0 .. k
  BY <1>2
<1>11. Fine(k) /\ h[k] \in HeardStates
  BY <1>5, <1>9, <1>10
<1>. QED BY <1>5, <1>11 DEF ms, first

-----------------------------------------------------------------------------
(* The beats of a poll                                                     *)

\* What Control keeps of a device's beats stays a run when the next one comes.
LEMMA OnBeatDoes ==
    ASSUME NEW q \in Seq(Numbers), NEW n \in Numbers
    PROVE  /\ OnBeat(q, n) \in Seq(Numbers)
           /\ n = 0 \/ q = <<>> \/ (Gapless(q) /\ n = After(q[Len(q)])) =>
                 LET r == OnBeat(q, n) IN r # <<>> /\ Gapless(r) /\ r[Len(r)] = n
<1>. DEFINE one == <<n>>
            long == Append(q, n)
            c == IF Len(q) = LossWindow THEN 2 ELSE 1
            tail == SubSeq(long, c, Len(q) + 1)
            Follows == Gapless(q) /\ n = After(q[Len(q)])
<1>1. /\ one \in Seq(Numbers) /\ Len(one) = 1 /\ one[1] = n /\ one # <<>>
  <2>1. one = Append(<<>>, n)
    OBVIOUS
  <2>. QED OBVIOUS
<1>2. Gapless(one)
  BY <1>1, LinkNumbers DEF Gapless
<1>3. Len(q) \in Nat /\ \A i \in 1 .. Len(q) : q[i] \in Numbers /\ q[i] \in Nat
  BY ElementOfSeq, LenProperties, LinkNumbers
<1>4. CASE n = 0 \/ q = <<>> \/ n < Head(q)
  <2>1. OnBeat(q, n) = one
    BY <1>4 DEF OnBeat
  <2>. QED BY <1>1, <1>2, <2>1
<1>5. ASSUME q # <<>> PROVE Len(q) > 0 /\ Head(q) = q[1] /\ Last(q) = q[Len(q)]
  <2>1. Len(q) # 0
    BY <1>5, EmptySeq
  <2>. QED BY <1>3, <2>1 DEF Last
<1>6. CASE n # 0 /\ q # <<>> /\ ~(n < Head(q)) /\ n > Last(q)
  <2>1. OnBeat(q, n) = tail
    BY <1>6 DEF OnBeat
  <2>2. /\ long \in Seq(Numbers) /\ Len(long) = Len(q) + 1
        /\ \A i \in 1 .. Len(q) : long[i] = q[i]
        /\ long[Len(q) + 1] = n
    BY AppendProperties
  <2>3. c \in Nat /\ 1 <= c /\ c <= Len(q) + 1
    BY <1>3, <1>5, <1>6
  <2>. HIDE DEF long, c
  <2>4. /\ tail \in Seq(Numbers) /\ Len(tail) = Len(q) + 2 - c
        /\ \A i \in 1 .. Len(tail) : tail[i] = long[c + i - 1]
    BY <1>3, <2>2, <2>3, SubSeqProperties
  <2>. HIDE DEF tail
  <2>5. Len(tail) > 0 /\ tail # <<>> /\ tail[Len(tail)] = n
    <3>1. Len(tail) \in 1 .. Len(tail) /\ c + Len(tail) - 1 = Len(q) + 1
      BY <1>3, <2>3, <2>4
    <3>2. tail # <<>>
      BY <3>1, EmptySeq
    <3>. QED BY <2>2, <2>4, <3>1, <3>2
  <2>6. ASSUME Follows PROVE Gapless(tail)
    <3>1. n = q[Len(q)] + 1
      <4>1. q[Len(q)] \in Numbers
        BY <1>3, <1>5, <1>6
      <4>. QED BY <1>6, <2>6, <4>1, AfterIs
    <3>2. \A i \in 1 .. Len(q) : q[i] = q[1] + i - 1
      BY <2>6 DEF Gapless
    <3>3. 1 \in 1 .. Len(q) /\ q[1] \in Nat /\ Len(q) \in 1 .. Len(q)
      BY <1>3, <1>5, <1>6
    <3>4. \A i \in 1 .. Len(q) + 1 : long[i] = q[1] + i - 1
      <4>. TAKE i \in 1 .. Len(q) + 1
      <4>1. CASE i \in 1 .. Len(q)
        BY <2>2, <3>2, <4>1
      <4>2. CASE i = Len(q) + 1
        <5>1. q[Len(q)] = q[1] + Len(q) - 1 /\ long[i] = n
          BY <2>2, <3>2, <3>3, <4>2
        <5>. QED BY <1>3, <3>1, <3>3, <4>2, <5>1
      <4>. QED BY <1>3, <4>1, <4>2
    <3>5. ASSUME NEW i \in 1 .. Len(tail) PROVE tail[i] = tail[1] + i - 1
      <4>1. c + i - 1 \in 1 .. Len(q) + 1 /\ c \in 1 .. Len(q) + 1 /\ 1 \in 1 .. Len(tail)
        BY <1>3, <2>3, <2>4
      <4>2. tail[i] = q[1] + (c + i - 1) - 1 /\ tail[1] = q[1] + c - 1
        <5>1. tail[1] = long[c]
          BY <2>3, <2>4, <4>1
        <5>. QED BY <2>4, <3>4, <4>1, <5>1
      <4>. QED BY <2>3, <3>3, <4>2
    <3>. QED BY <3>5 DEF Gapless
  <2>. QED BY <1>6, <2>1, <2>4, <2>5, <2>6
<1>7. CASE n # 0 /\ q # <<>> /\ ~(n < Head(q)) /\ ~(n > Last(q))
  <2>1. OnBeat(q, n) = q
    BY <1>7 DEF OnBeat
  <2>2. ASSUME Follows PROVE FALSE
    <3>1. q[Len(q)] \in Numbers
      BY <1>3, <1>5, <1>7
    <3>2. n = q[Len(q)] + 1
      BY <1>7, <2>2, <3>1, AfterIs
    <3>3. n \in Nat /\ q[Len(q)] \in Nat /\ Last(q) = q[Len(q)]
      BY <1>5, <1>7, <3>1, LinkNumbers
    <3>. QED BY <1>7, <3>2, <3>3
  <2>. QED BY <1>7, <2>1, <2>2
<1>. QED BY <1>4, <1>6, <1>7

\* What a message does to Control: only a pooled device's beat is counted.
HandledStates == [pooled : BOOLEAN, bound : BOOLEAN, silent : Ages, given : BOOLEAN,
                  seqs : Seq(Numbers), out : Seq(Downward(epoch, epoch))]

LEMMA HandledDoes ==
    ASSUME LinkTyped, NEW s \in HandledStates, NEW m \in Upward
    PROVE  /\ Handled(s, m) \in HandledStates
           /\ Handled(s, m).pooled = (s.pooled \/ m.verb = "hello")
           /\ Handled(s, m).seqs = IF IsBeat(m) /\ s.pooled THEN OnBeat(s.seqs, m.n)
                                   ELSE s.seqs
<1>. DEFINE O == Seq(Downward(epoch, epoch))
            Q == Seq(Numbers)
            A == Ages
            HS == [pooled : BOOLEAN, bound : BOOLEAN, silent : A, given : BOOLEAN,
                   seqs : Q, out : O]
<1>1. HandledStates = HS
  BY DEF HandledStates
<1>2. /\ s \in HS /\ s.pooled \in BOOLEAN /\ s.seqs \in Q /\ s.out \in O /\ s.silent \in A
      /\ s.given \in BOOLEAN /\ s.bound \in BOOLEAN
  <2>. HIDE DEF O, Q, A
  <2>. QED BY <1>1
<1>3. epoch \in Nat /\ running \in BOOLEAN /\ 0 \in A
  BY LinkTypes, LinkNumbers DEF LinkTyped, Ages
<1>4. RoleMsg \in Downward(epoch, epoch) /\ BeatMsg(epoch) \in Downward(epoch, epoch)
  BY <1>3 DEF RoleMsg, BeatMsg, Downward
<1>5. Append(s.out, RoleMsg) \in O /\ Append(s.out, BeatMsg(epoch)) \in O
  <2>. DEFINE M == Downward(epoch, epoch)
  <2>1. s.out \in Seq(M) /\ RoleMsg \in M /\ BeatMsg(epoch) \in M
    BY <1>2, <1>4
  <2>. HIDE DEF M
  <2>2. Append(s.out, RoleMsg) \in Seq(M) /\ Append(s.out, BeatMsg(epoch)) \in Seq(M)
    BY <2>1, AppendProperties
  <2>. QED BY <2>2 DEF M
<1>6. CASE m = HelloMsg
  <2>. DEFINE g == s.given \/ running
              o == IF running /\ ~s.given THEN Append(s.out, RoleMsg) ELSE s.out
              t == [s EXCEPT !.pooled = TRUE, !.bound = TRUE, !.silent = 0,
                             !.given = g, !.out = o]
  <2>1. m.verb = "hello" /\ ~IsBeat(m)
    BY <1>6 DEF HelloMsg, IsBeat
  <2>2. Handled(s, m) = t
    BY <2>1 DEF Handled
  <2>3. g \in BOOLEAN /\ o \in O
    BY <1>2, <1>3, <1>5
  <2>. HIDE DEF g, o, O, Q, A
  <2>4. t \in HS /\ t.pooled = TRUE /\ t.seqs = s.seqs
    BY <1>2, <1>3, <2>3
  <2>. QED BY <1>1, <2>1, <2>2, <2>4
<1>7. CASE \E n \in Numbers : m = BeatMsg(n)
  <2>. DEFINE si == IF s.pooled THEN 0 ELSE s.silent
              q == IF s.pooled THEN OnBeat(s.seqs, m.n) ELSE s.seqs
              o == Append(s.out, BeatMsg(epoch))
              t == [s EXCEPT !.bound = TRUE, !.silent = si, !.seqs = q, !.out = o]
  <2>1. m.verb = "beat" /\ IsBeat(m) /\ m.n \in Numbers
    BY <1>7 DEF BeatMsg, IsBeat
  <2>2. Handled(s, m) = t
    BY <2>1 DEF Handled
  <2>3. q \in Q
    BY <1>2, <2>1, OnBeatDoes
  <2>4. si \in A /\ o \in O
    BY <1>2, <1>3, <1>5
  <2>. HIDE DEF si, q, o, O, Q, A
  <2>5. t \in HS /\ t.pooled = s.pooled /\ t.seqs = q
    BY <1>2, <1>3, <2>3, <2>4
  <2>. QED BY <1>1, <2>1, <2>2, <2>5 DEF q
<1>. QED BY <1>6, <1>7 DEF Upward

\* The beat that comes after a place comes after the next place that is none, and a
\* beat that comes is what was to come.
LEMMA ComesOn ==
    ASSUME NEW M, NEW ms \in Seq(M), NEW n \in 1 .. Len(ms), NEW seq, NEW x,
           Comes(ms, seq, n - 1, x)
    PROVE  /\ ~IsBeat(ms[n]) => Comes(ms, seq, n, x)
           /\ IsBeat(ms[n]) => ms[n].n = x
<1>1. Len(ms) \in Nat /\ DOMAIN ms = 1 .. Len(ms)
  BY LenProperties
<1>2. ASSUME ~IsBeat(ms[n]) PROVE Comes(ms, seq, n, x)
  <2>1. ASSUME NEW j \in DOMAIN ms, j > n, IsBeat(ms[j]),
               \A k \in DOMAIN ms : n < k /\ k < j => ~IsBeat(ms[k])
        PROVE  ms[j].n = x
    <3>1. \A k \in DOMAIN ms : n - 1 < k /\ k < j => ~IsBeat(ms[k])
      <4>. SUFFICES ASSUME NEW k \in DOMAIN ms, n - 1 < k, k < j PROVE ~IsBeat(ms[k])
        OBVIOUS
      <4>1. k = n \/ n < k
        BY <1>1
      <4>. QED BY <1>2, <2>1, <4>1
    <3>2. j > n - 1
      BY <1>1, <2>1
    <3>. QED BY <2>1, <3>1, <3>2 DEF Comes
  <2>2. ASSUME \A j \in DOMAIN ms : j > n => ~IsBeat(ms[j]) PROVE seq = x
    <3>1. \A j \in DOMAIN ms : j > n - 1 => ~IsBeat(ms[j])
      <4>. SUFFICES ASSUME NEW j \in DOMAIN ms, j > n - 1 PROVE ~IsBeat(ms[j])
        OBVIOUS
      <4>1. j = n \/ j > n
        BY <1>1
      <4>. QED BY <1>2, <2>2, <4>1
    <3>. QED BY <3>1 DEF Comes
  <2>. QED BY <2>1, <2>2 DEF Comes
<1>3. ASSUME IsBeat(ms[n]) PROVE ms[n].n = x
  <2>1. n \in DOMAIN ms /\ n > n - 1 /\ \A k \in DOMAIN ms : ~(n - 1 < k /\ k < n)
    BY <1>1
  <2>. QED BY <1>3, <2>1 DEF Comes
<1>. QED BY <1>2, <1>3

\* When all that is under way has come, what is kept is a run that the next beat follows.
LEMMA BeatsCounted ==
    ASSUME LinkTyped, ~pooled => seqs = <<>>, NEW ms \in Seq(Upward)
    PROVE  LET st == HandledAll(ms, [pooled |-> pooled, bound |-> bound, silent |-> silent,
                                     given |-> given, seqs |-> seqs, out |-> <<>>])
           IN  /\ st \in HandledStates
               /\ ~st.pooled => st.seqs = <<>>
               /\ InTurn(ms, beat.seq, seqs) =>
                     \/ st.seqs = <<>>
                     \/ Gapless(st.seqs) /\ beat.seq = After(st.seqs[Len(st.seqs)])
<1>. DEFINE first == [pooled |-> pooled, bound |-> bound, silent |-> silent,
                      given |-> given, seqs |-> seqs, out |-> <<>>]
            k == Len(ms)
            next == beat.seq
<1>1. k \in Nat /\ DOMAIN ms = 1 .. k /\ \A n \in 1 .. k : ms[n] \in Upward
  BY LenProperties, ElementOfSeq
<1>2. first \in HandledStates
  <2>1. <<>> \in Seq(Downward(epoch, epoch))
    BY EmptySeq
  <2>. QED BY <2>1 DEF HandledStates, LinkTyped
<1>3. \A s \in HandledStates, m \in Upward : Handled(s, m) \in HandledStates
  BY HandledDoes
<1>4. first.pooled = pooled /\ first.seqs = seqs
  OBVIOUS
<1>. HIDE DEF first
<1>5. PICK h \in [0 .. k -> HandledStates] :
                 HandledFrom(h, ms, first) /\ HandledAll(ms, first) = h[k]
  <2>. DEFINE S == HandledStates
              M == Upward
  <2>1. ms \in Seq(M) /\ first \in S /\ \A s \in S, m \in M : Handled(s, m) \in S
    BY <1>2, <1>3
  <2>. HIDE DEF S, M
  <2>2. \E h \in [0 .. Len(ms) -> S] :
              HandledFrom(h, ms, first) /\ HandledAll(ms, first) = h[Len(ms)]
    BY <2>1, HandledStepwise
  <2>. QED BY <2>2 DEF S
<1>6. h[0] = first /\ \A n \in 1 .. k : h[n] = Handled(h[n - 1], ms[n])
  BY <1>5 DEF HandledFrom
<1>. HIDE DEF k, next
<1>. DEFINE NewToCome(n) == \E i \in 1 .. k : i > n /\ ms[i] = BeatMsg(0)
            InLine(s, n) == Gapless(s) /\ Comes(ms, next, n, After(s[Len(s)]))
            Right(n) == NewToCome(n) \/ h[n].seqs = <<>> \/ InLine(h[n].seqs, n)
            Fine(n) == /\ ~h[n].pooled => h[n].seqs = <<>>
                       /\ InTurn(ms, next, seqs) => Right(n)
            T == {n \in 0 .. k : Fine(n)}
<1>7. 0 \in T
  <2>1. InTurn(ms, next, seqs) => Right(0)
    BY <1>1, <1>4, <1>6 DEF InTurn
  <2>. QED BY <1>1, <1>4, <1>6, <2>1
<1>8. ASSUME NEW n \in 1 .. k, n - 1 \in T PROVE n \in T
  <2>. DEFINE s == h[n - 1]
              m == ms[n]
              t == h[n]
  <2>1. n \in 0 .. k /\ n - 1 \in 0 .. k /\ n \in Nat /\ Fine(n - 1)
    BY <1>1, <1>8
  <2>2. s \in HandledStates /\ m \in Upward /\ t = Handled(s, m)
    BY <1>1, <1>5, <1>6, <2>1
  <2>3. /\ t.pooled = (s.pooled \/ m.verb = "hello")
        /\ t.seqs = IF IsBeat(m) /\ s.pooled THEN OnBeat(s.seqs, m.n) ELSE s.seqs
    BY <2>2, HandledDoes, SMTT(30)
  <2>4. s.seqs \in Seq(Numbers) /\ s.pooled \in BOOLEAN
    BY <2>2 DEF HandledStates
  <2>5. ~s.pooled => s.seqs = <<>>
    BY <2>1
  <2>6. ~t.pooled => t.seqs = <<>>
    <3>. HIDE DEF s, t, m
    <3>. QED BY <2>3, <2>5
  <2>7. ASSUME InTurn(ms, next, seqs), ~IsBeat(m) PROVE Right(n)
    <3>1. t.seqs = s.seqs
      BY <2>3, <2>7
    <3>2. CASE NewToCome(n - 1)
      <4>1. PICK i \in 1 .. k : i > n - 1 /\ ms[i] = BeatMsg(0)
        BY <3>2
      <4>2. i # n
        BY <2>7, <4>1 DEF BeatMsg, IsBeat
      <4>3. i > n
        BY <1>1, <2>1, <4>1, <4>2
      <4>. QED BY <4>1, <4>3
    <3>3. CASE s.seqs = <<>>
      BY <3>1, <3>3
    <3>4. CASE InLine(s.seqs, n - 1)
      <4>1. Comes(ms, next, n, After(s.seqs[Len(s.seqs)]))
        <5>. DEFINE x == After(s.seqs[Len(s.seqs)])
        <5>1. Comes(ms, next, n - 1, x) /\ n \in 1 .. Len(ms) /\ ~IsBeat(ms[n])
          BY <2>7, <3>4 DEF k
        <5>. HIDE DEF x
        <5>2. Comes(ms, next, n, x)
          BY <5>1, ComesOn
        <5>. QED BY <5>2 DEF x
      <4>2. InLine(t.seqs, n)
        BY <3>1, <3>4, <4>1
      <4>. QED BY <4>2
    <3>5. Right(n - 1)
      BY <2>1, <2>7
    <3>. QED BY <3>2, <3>3, <3>4, <3>5
  <2>8. ASSUME InTurn(ms, next, seqs), IsBeat(m) PROVE Right(n)
    <3>. DEFINE v == m.n
    <3>1. v \in Numbers /\ m = BeatMsg(v)
      BY <2>2, <2>8 DEF Upward, HelloMsg, BeatMsg, IsBeat
    <3>2. Comes(ms, next, n, After(v))
      BY <1>1, <2>8 DEF InTurn, Numbered
    <3>3. CASE ~s.pooled
      BY <2>3, <2>5, <3>3
    <3>4. CASE NewToCome(n)
      BY <3>4
    <3>5. CASE s.pooled /\ ~NewToCome(n)
      <4>1. t.seqs = OnBeat(s.seqs, v)
        BY <2>3, <2>8, <3>5
      <4>2. v = 0 \/ s.seqs = <<>> \/ (Gapless(s.seqs) /\ v = After(s.seqs[Len(s.seqs)]))
        <5>1. CASE NewToCome(n - 1)
          <6>1. PICK i \in 1 .. k : i > n - 1 /\ ms[i] = BeatMsg(0)
            BY <5>1
          <6>2. i = n
            BY <1>1, <2>1, <3>5, <6>1
          <6>. QED BY <6>1, <6>2 DEF BeatMsg
        <5>2. CASE s.seqs = <<>>
          BY <5>2
        <5>3. CASE InLine(s.seqs, n - 1)
          <6>. DEFINE x == After(s.seqs[Len(s.seqs)])
          <6>1. Comes(ms, next, n - 1, x) /\ n \in 1 .. Len(ms) /\ IsBeat(ms[n])
            BY <2>8, <5>3 DEF k
          <6>. HIDE DEF x
          <6>2. v = x
            BY <6>1, ComesOn
          <6>. QED BY <5>3, <6>2 DEF x
        <5>4. Right(n - 1)
          BY <2>1, <2>8
        <5>. QED BY <5>1, <5>2, <5>3, <5>4
      <4>. HIDE DEF s, t, v
      <4>3. Gapless(t.seqs) /\ t.seqs[Len(t.seqs)] = v
        BY <2>4, <3>1, <4>1, <4>2, OnBeatDoes, ZenonT(60)
      <4>4. InLine(t.seqs, n)
        BY <3>2, <4>3
      <4>. QED BY <4>4 DEF t
    <3>. QED BY <2>4, <3>3, <3>4, <3>5
  <2>9. Fine(n)
    BY <2>6, <2>7, <2>8
  <2>. HIDE DEF Fine
  <2>. QED BY <2>1, <2>9
<1>9. \A n \in 0 .. k : n \in T
  <2>. HIDE DEF T
  <2>. QED BY <1>1, <1>7, <1>8, CountedUp
<1>10. k \in 0 .. k
  BY <1>1
<1>11. Fine(k) /\ h[k] \in HandledStates
  BY <1>5, <1>9, <1>10
<1>12. ~NewToCome(k)
  BY <1>1
<1>13. ASSUME NEW x, Comes(ms, next, k, x) PROVE next = x
  <2>1. \A j \in DOMAIN ms : ~(j > k)
    BY <1>1
  <2>. QED BY <1>13, <2>1 DEF Comes
<1>14. InTurn(ms, next, seqs) =>
           \/ h[k].seqs = <<>>
           \/ Gapless(h[k].seqs) /\ next = After(h[k].seqs[Len(h[k].seqs)])
  BY <1>11, <1>12, <1>13
<1>. QED BY <1>5, <1>11, <1>14 DEF first, next

-----------------------------------------------------------------------------
(* The beats of a lap                                                      *)

LEMMA ConcatParts ==
    ASSUME NEW M, NEW a \in Seq(M), NEW b \in Seq(M)
    PROVE  /\ a \o b \in Seq(M) /\ Len(a) \in Nat /\ Len(b) \in Nat
           /\ DOMAIN a = 1 .. Len(a) /\ DOMAIN b = 1 .. Len(b)
           /\ DOMAIN (a \o b) = 1 .. Len(a) + Len(b)
           /\ \A i \in 1 .. Len(a) : i \in DOMAIN (a \o b) /\ (a \o b)[i] = a[i]
           /\ \A i \in 1 .. Len(a) + Len(b) : i > Len(a) =>
                 i - Len(a) \in 1 .. Len(b) /\ (a \o b)[i] = b[i - Len(a)]
<1>1. /\ a \o b \in Seq(M) /\ Len(a \o b) = Len(a) + Len(b)
      /\ \A i \in 1 .. Len(a) + Len(b) :
            (a \o b)[i] = IF i <= Len(a) THEN a[i] ELSE b[i - Len(a)]
  BY ConcatProperties
<1>2. /\ Len(a) \in Nat /\ Len(b) \in Nat /\ DOMAIN a = 1 .. Len(a) /\ DOMAIN b = 1 .. Len(b)
      /\ DOMAIN (a \o b) = 1 .. Len(a) + Len(b)
  BY <1>1, LenProperties
<1>. DEFINE c == a \o b
<1>. HIDE DEF c
<1>3. \A i \in 1 .. Len(a) : i \in 1 .. Len(a) + Len(b) /\ i <= Len(a)
  BY <1>2
<1>4. \A i \in 1 .. Len(a) + Len(b) : i > Len(a) => i - Len(a) \in 1 .. Len(b) /\ ~(i <= Len(a))
  BY <1>2
<1>. QED BY <1>1, <1>2, <1>3, <1>4

\* Messages that are no beats leave the beats in turn, ...
LEMMA Quiet ==
    ASSUME NEW ms \in Seq(Upward), NEW add \in Seq(Upward), NoBeats(add), NEW seq, NEW kept,
           InTurn(ms, seq, kept)
    PROVE  InTurn(ms \o add, seq, kept)
<1>. DEFINE all == ms \o add
            k == Len(ms)
<1>1. /\ Len(add) \in Nat /\ k \in Nat /\ DOMAIN ms = 1 .. k
      /\ DOMAIN all = 1 .. k + Len(add)
      /\ \A i \in 1 .. k : i \in DOMAIN all /\ all[i] = ms[i]
      /\ \A i \in 1 .. k + Len(add) : i > k => ~IsBeat(all[i])
  BY ConcatParts DEF NoBeats
<1>. HIDE DEF all, k
<1>2. \A i \in DOMAIN all : IsBeat(all[i]) => i \in DOMAIN ms
  BY <1>1
<1>3. ASSUME NEW i, NEW x, Comes(ms, seq, i, x) PROVE Comes(all, seq, i, x)
  <2>1. ASSUME NEW j \in DOMAIN all, j > i, IsBeat(all[j]),
               \A n \in DOMAIN all : i < n /\ n < j => ~IsBeat(all[n])
        PROVE  all[j].n = x
    <3>1. j \in DOMAIN ms /\ all[j] = ms[j]
      BY <1>1, <1>2, <2>1
    <3>2. \A n \in DOMAIN ms : i < n /\ n < j => ~IsBeat(ms[n])
      BY <1>1, <2>1
    <3>. QED BY <1>3, <2>1, <3>1, <3>2 DEF Comes
  <2>2. ASSUME \A j \in DOMAIN all : j > i => ~IsBeat(all[j]) PROVE seq = x
    <3>1. \A j \in DOMAIN ms : j > i => ~IsBeat(ms[j])
      BY <1>1, <2>2
    <3>. QED BY <1>3, <3>1 DEF Comes
  <2>. QED BY <2>1, <2>2 DEF Comes
<1>4. Numbered(all, seq)
  <2>. SUFFICES ASSUME NEW i \in DOMAIN all, IsBeat(all[i])
                PROVE  Comes(all, seq, i, After(all[i].n))
    BY DEF Numbered
  <2>1. i \in DOMAIN ms /\ all[i] = ms[i]
    BY <1>1, <1>2
  <2>2. Comes(ms, seq, i, After(ms[i].n))
    BY <2>1 DEF InTurn, Numbered
  <2>. QED BY <1>3, <2>1, <2>2
<1>5. (\E i \in DOMAIN ms : ms[i] = BeatMsg(0)) => \E i \in DOMAIN all : all[i] = BeatMsg(0)
  BY <1>1
<1>6. Gapless(kept) /\ Comes(ms, seq, 0, After(kept[Len(kept)]))
         => Gapless(kept) /\ Comes(all, seq, 0, After(kept[Len(kept)]))
  BY <1>3
<1>7. InTurn(all, seq, kept)
  BY <1>4, <1>5, <1>6 DEF InTurn
<1>. QED BY <1>7 DEF all

\* ... the next beat too, ...
LEMMA Beaten ==
    ASSUME NEW ms \in Seq(Upward), NEW seq \in Numbers, NEW kept, InTurn(ms, seq, kept)
    PROVE  InTurn(ms \o <<BeatMsg(seq)>>, After(seq), kept)
<1>. DEFINE add == <<BeatMsg(seq)>>
            all == ms \o add
            k == Len(ms)
<1>1. BeatMsg(seq) \in Upward /\ IsBeat(BeatMsg(seq)) /\ BeatMsg(seq).n = seq
  BY DEF Upward, BeatMsg, IsBeat
<1>2. add \in Seq(Upward) /\ Len(add) = 1 /\ add[1] = BeatMsg(seq)
  <2>1. add = Append(<<>>, BeatMsg(seq))
    OBVIOUS
  <2>. DEFINE m == BeatMsg(seq)
  <2>. HIDE DEF m
  <2>2. m \in Upward => <<m>> \in Seq(Upward) /\ Len(<<m>>) = 1 /\ <<m>>[1] = m
    OBVIOUS
  <2>. QED BY <1>1, <2>2 DEF m
<1>. HIDE DEF add
<1>3. /\ k \in Nat /\ DOMAIN ms = 1 .. k /\ DOMAIN all = 1 .. k + 1
      /\ \A i \in 1 .. k : i \in DOMAIN all /\ all[i] = ms[i]
      /\ all[k + 1] = BeatMsg(seq) /\ k + 1 \in DOMAIN all
  <2>1. /\ k \in Nat /\ DOMAIN ms = 1 .. k /\ DOMAIN all = 1 .. k + 1
        /\ \A i \in 1 .. k : i \in DOMAIN all /\ all[i] = ms[i]
        /\ \A i \in 1 .. k + 1 : i > k => all[i] = add[i - k]
    <3>1. add \in Seq(Upward)
      BY <1>2
    <3>2. /\ k \in Nat /\ DOMAIN ms = 1 .. k /\ DOMAIN all = 1 .. k + Len(add)
          /\ \A i \in 1 .. k : i \in DOMAIN all /\ all[i] = ms[i]
          /\ \A i \in 1 .. k + Len(add) : i > k => all[i] = add[i - k]
      BY <3>1, ConcatParts
    <3>. HIDE DEF all, k
    <3>. QED BY <1>2, <3>2
  <2>. HIDE DEF all, k
  <2>2. k + 1 \in 1 .. k + 1 /\ k + 1 > k /\ (k + 1) - k = 1
    BY <2>1
  <2>3. all[k + 1] = add[1]
    BY <2>1, <2>2
  <2>. QED BY <1>2, <2>1, <2>2, <2>3
<1>. HIDE DEF all, k
<1>4. ASSUME NEW i \in 0 .. k, NEW x, Comes(ms, seq, i, x) PROVE Comes(all, After(seq), i, x)
  <2>1. ASSUME NEW j \in DOMAIN all, j > i, IsBeat(all[j]),
               \A n \in DOMAIN all : i < n /\ n < j => ~IsBeat(all[n])
        PROVE  all[j].n = x
    <3>1. \A n \in DOMAIN ms : i < n /\ n < j => ~IsBeat(ms[n])
      BY <1>3, <2>1
    <3>2. CASE j \in DOMAIN ms
      BY <1>3, <1>4, <2>1, <3>1, <3>2 DEF Comes
    <3>3. CASE j = k + 1
      <4>1. \A n \in DOMAIN ms : n > i => ~IsBeat(ms[n])
        <5>1. \A n \in 1 .. k : n > i => i < n /\ n < j
          BY <1>3, <3>3
        <5>. QED BY <1>3, <3>1, <5>1
      <4>2. seq = x
        BY <1>4, <4>1 DEF Comes
      <4>. QED BY <1>1, <1>3, <3>3, <4>2
    <3>. QED BY <1>3, <3>2, <3>3
  <2>2. ~(\A j \in DOMAIN all : j > i => ~IsBeat(all[j]))
    <3>1. k + 1 > i
      BY <1>3
    <3>. QED BY <1>1, <1>3, <3>1
  <2>. QED BY <2>1, <2>2 DEF Comes
<1>5. Numbered(all, After(seq))
  <2>. SUFFICES ASSUME NEW i \in DOMAIN all, IsBeat(all[i])
                PROVE  Comes(all, After(seq), i, After(all[i].n))
    BY DEF Numbered
  <2>1. CASE i \in DOMAIN ms
    <3>1. all[i] = ms[i] /\ i \in 0 .. k
      BY <1>3, <2>1
    <3>2. Comes(ms, seq, i, After(ms[i].n))
      BY <2>1, <3>1 DEF InTurn, Numbered
    <3>. QED BY <1>4, <3>1, <3>2
  <2>2. CASE i = k + 1
    <3>1. \A j \in DOMAIN all : ~(j > i)
      BY <1>3, <2>2
    <3>. QED BY <1>1, <1>3, <2>2, <3>1 DEF Comes
  <2>. QED BY <1>3, <2>1, <2>2
<1>6. (\E i \in DOMAIN ms : ms[i] = BeatMsg(0)) => \E i \in DOMAIN all : all[i] = BeatMsg(0)
  BY <1>3
<1>7. Gapless(kept) /\ Comes(ms, seq, 0, After(kept[Len(kept)]))
         => Gapless(kept) /\ Comes(all, After(seq), 0, After(kept[Len(kept)]))
  <2>1. 0 \in 0 .. k
    BY <1>3
  <2>. QED BY <1>4, <2>1
<1>8. InTurn(all, After(seq), kept)
  BY <1>5, <1>6, <1>7 DEF InTurn
<1>. QED BY <1>8 DEF all, add

\* ... the beats alone, ...
LEMMA OnlyBeats ==
    ASSUME NEW ms \in Seq(Upward)
    PROVE  /\ Beats(ms) \in Seq(Upward)
           /\ Beats(ms) = <<>> => NoBeats(ms)
           /\ \A seq, kept : InTurn(ms, seq, kept) => InTurn(Beats(ms), seq, kept)
<1>. DEFINE places == {i \in DOMAIN ms : ms[i].verb = "beat"}
            bs == Beats(ms)
<1>1. places \in SUBSET DOMAIN ms /\ bs = Pick(ms, places)
  BY DEF Beats
<1>2. \A i \in DOMAIN ms : i \in places <=> IsBeat(ms[i])
  BY DEF IsBeat
<1>. HIDE DEF places, bs
<1>3. bs \in Seq(Upward)
  BY <1>1, Picked
<1>4. PICK f \in [DOMAIN bs -> places] : PickedBy(f, bs, ms, places)
  BY <1>1, Picked
<1>5. /\ \A n \in DOMAIN bs : f[n] \in DOMAIN ms /\ IsBeat(ms[f[n]]) /\ bs[n] = ms[f[n]]
      /\ \A m, n \in DOMAIN bs : m < n => f[m] < f[n]
      /\ \A i \in DOMAIN ms : IsBeat(ms[i]) => \E n \in DOMAIN bs : f[n] = i
  BY <1>1, <1>2, <1>4 DEF PickedBy
<1>6. DOMAIN ms = 1 .. Len(ms) /\ Len(ms) \in Nat /\ DOMAIN bs = 1 .. Len(bs) /\ Len(bs) \in Nat
  BY <1>3, LenProperties
<1>7. \A m, n \in DOMAIN bs : f[m] < f[n] => m < n
  <2>. SUFFICES ASSUME NEW m \in DOMAIN bs, NEW n \in DOMAIN bs, f[m] < f[n] PROVE m < n
    OBVIOUS
  <2>1. f[m] \in Nat /\ f[n] \in Nat /\ ~(f[n] < f[m]) /\ f[m] # f[n]
    BY <1>5, <1>6
  <2>2. ~(n < m) /\ n # m
    BY <1>5, <2>1
  <2>. QED BY <1>6, <2>2
<1>8. bs = <<>> => NoBeats(ms)
  <2>1. bs = <<>> => DOMAIN bs = {}
    BY <1>6, EmptySeq
  <2>. QED BY <1>5, <2>1 DEF NoBeats
<1>9. ASSUME NEW seq, NEW kept, InTurn(ms, seq, kept) PROVE InTurn(bs, seq, kept)
  \* The beat of place p is the first after i in bs if that of f[p] is in ms.
  <2>1. ASSUME NEW i, NEW j, NEW x, Comes(ms, seq, i, x),
               \A n \in DOMAIN bs : n > j <=> f[n] > i
        PROVE  Comes(bs, seq, j, x)
    <3>1. ASSUME NEW p \in DOMAIN bs, p > j,
                 \A n \in DOMAIN bs : j < n /\ n < p => ~IsBeat(bs[n])
          PROVE  bs[p].n = x
      <4>1. \A n \in DOMAIN bs : ~(f[n] > i /\ f[n] < f[p])
        <5>. SUFFICES ASSUME NEW n \in DOMAIN bs, f[n] > i, f[n] < f[p] PROVE FALSE
          OBVIOUS
        <5>1. n > j /\ n < p
          BY <1>7, <2>1
        <5>2. j < n
          BY <5>1
        <5>. QED BY <1>5, <3>1, <5>1, <5>2
      <4>2. \A n \in DOMAIN ms : i < n /\ n < f[p] => ~IsBeat(ms[n])
        <5>. SUFFICES ASSUME NEW n \in DOMAIN ms, i < n, n < f[p], IsBeat(ms[n]) PROVE FALSE
          OBVIOUS
        <5>1. PICK q \in DOMAIN bs : f[q] = n
          BY <1>5
        <5>. QED BY <4>1, <5>1
      <4>3. f[p] > i /\ f[p] \in DOMAIN ms /\ IsBeat(ms[f[p]]) /\ bs[p] = ms[f[p]]
        BY <1>5, <2>1, <3>1
      <4>. QED BY <2>1, <4>2, <4>3 DEF Comes
    <3>2. ASSUME \A n \in DOMAIN bs : n > j => ~IsBeat(bs[n]) PROVE seq = x
      <4>1. \A n \in DOMAIN ms : n > i => ~IsBeat(ms[n])
        <5>. SUFFICES ASSUME NEW n \in DOMAIN ms, n > i, IsBeat(ms[n]) PROVE FALSE
          OBVIOUS
        <5>1. PICK q \in DOMAIN bs : f[q] = n
          BY <1>5
        <5>. QED BY <1>5, <2>1, <3>2, <5>1
      <4>. QED BY <2>1, <4>1 DEF Comes
    <3>. QED BY <3>1, <3>2 DEF Comes
  <2>2. Numbered(bs, seq)
    <3>. SUFFICES ASSUME NEW p \in DOMAIN bs PROVE Comes(bs, seq, p, After(bs[p].n))
      BY DEF Numbered
    <3>1. f[p] \in DOMAIN ms /\ IsBeat(ms[f[p]]) /\ bs[p] = ms[f[p]]
      BY <1>5
    <3>2. Comes(ms, seq, f[p], After(bs[p].n))
      BY <1>9, <3>1 DEF InTurn, Numbered
    <3>3. \A n \in DOMAIN bs : n > p <=> f[n] > f[p]
      <4>. TAKE n \in DOMAIN bs
      <4>1. (p < n => f[p] < f[n]) /\ (f[p] < f[n] => p < n)
        BY <1>5, <1>7
      <4>2. n \in Nat /\ p \in Nat /\ f[n] \in Nat /\ f[p] \in Nat
        BY <1>5, <1>6
      <4>. QED BY <4>1, <4>2
    <3>. QED BY <2>1, <3>2, <3>3
  <2>3. ASSUME NEW i \in DOMAIN ms, ms[i] = BeatMsg(0)
        PROVE  \E p \in DOMAIN bs : bs[p] = BeatMsg(0)
    <3>1. IsBeat(ms[i])
      BY <2>3 DEF IsBeat, BeatMsg
    <3>2. PICK p \in DOMAIN bs : f[p] = i
      BY <1>5, <3>1
    <3>. QED BY <1>5, <2>3, <3>2
  <2>4. ASSUME NEW x, Comes(ms, seq, 0, x) PROVE Comes(bs, seq, 0, x)
    <3>1. \A n \in DOMAIN bs : n > 0 <=> f[n] > 0
      BY <1>5, <1>6
    <3>. QED BY <2>1, <2>4, <3>1
  <2>. QED BY <1>9, <2>2, <2>3, <2>4 DEF InTurn
<1>. QED BY <1>3, <1>8, <1>9 DEF bs

\* ... and the first beat of a new link.
LEMMA Fresh ==
    ASSUME NEW ms \in Seq(Upward), NoBeats(ms), NEW kept
    PROVE  /\ <<HelloMsg, BeatMsg(0)>> \in Seq(Upward)
           /\ InTurn(ms \o <<HelloMsg, BeatMsg(0)>>, After(0), kept)
<1>. DEFINE h == HelloMsg
            z == BeatMsg(0)
            add == <<h, z>>
            all == ms \o add
            k == Len(ms)
<1>1. h \in Upward /\ z \in Upward /\ ~IsBeat(h) /\ IsBeat(z) /\ z.n = 0
  BY LinkNumbers DEF Upward, HelloMsg, BeatMsg, IsBeat
<1>. HIDE DEF h, z
<1>2. add \in Seq(Upward) /\ Len(add) = 2 /\ add[1] = h /\ add[2] = z
  BY <1>1
<1>. HIDE DEF add
<1>3. /\ k \in Nat /\ DOMAIN ms = 1 .. k /\ DOMAIN all = 1 .. k + 2
      /\ \A i \in 1 .. k : all[i] = ms[i]
      /\ all[k + 1] = h /\ all[k + 2] = z
  <2>1. /\ k \in Nat /\ DOMAIN ms = 1 .. k /\ DOMAIN all = 1 .. k + Len(add)
        /\ \A i \in 1 .. k : i \in DOMAIN all /\ all[i] = ms[i]
        /\ \A i \in 1 .. k + Len(add) : i > k => all[i] = add[i - k]
    <3>1. add \in Seq(Upward)
      BY <1>2
    <3>. QED BY <3>1, ConcatParts
  <2>. HIDE DEF all, k
  <2>2. /\ k + 1 \in 1 .. k + 2 /\ k + 1 > k /\ (k + 1) - k = 1
        /\ k + 2 \in 1 .. k + 2 /\ k + 2 > k /\ (k + 2) - k = 2
    BY <2>1
  <2>3. all[k + 1] = add[1] /\ all[k + 2] = add[2]
    BY <1>2, <2>1, <2>2
  <2>. QED BY <1>2, <2>1, <2>3
<1>. HIDE DEF all, k
<1>4. \A i \in DOMAIN all : IsBeat(all[i]) => i = k + 2
  <2>. SUFFICES ASSUME NEW i \in DOMAIN all, i # k + 2 PROVE ~IsBeat(all[i])
    OBVIOUS
  <2>1. i \in DOMAIN ms \/ i = k + 1
    BY <1>3
  <2>. QED BY <1>1, <1>3, <2>1 DEF NoBeats
<1>5. \A j \in DOMAIN all : ~(j > k + 2)
  BY <1>3
<1>6. Comes(all, After(0), k + 2, After(0))
  BY <1>5 DEF Comes
<1>7. Numbered(all, After(0))
  BY <1>1, <1>3, <1>4, <1>6 DEF Numbered
<1>8. \E i \in DOMAIN all : all[i] = z
  <2>1. k + 2 \in DOMAIN all
    BY <1>3
  <2>. QED BY <1>3, <2>1
<1>9. InTurn(all, After(0), kept)
  BY <1>7, <1>8 DEF InTurn, z
<1>. QED BY <1>2, <1>9 DEF all, add, h, z

-----------------------------------------------------------------------------
(* The steps                                                               *)

LEMMA LinkStarts == LinkInit => LinkInv
<1>. SUFFICES ASSUME LinkInit PROVE LinkInv
  OBVIOUS
<1>. DEFINE first == <<HelloMsg, BeatMsg(0)>>
<1>1. 0 \in 0 .. MaxEpoch /\ 1 \in 1 .. MaxEpoch /\ epoch = 1
  BY LinkNumbers DEF LinkInit
<1>2. NewLink \in BeatLinks(1) /\ NewLink.epoch = None
  BY LinkNumbers DEF NewLink, BeatLinks, Ages
<1>3. beat \in BeatLinks(1) /\ beat.epoch = None /\ beat.seq = After(0)
  BY <1>2, LinkUpKeeps DEF LinkInit
<1>4. <<>> \in Seq(Upward) /\ <<>> \in Seq(Downward(1, 1)) /\ <<>> \in Seq(Numbers)
  BY EmptySeq
<1>5. first \in Seq(Upward) /\ InTurn(<<>> \o first, After(0), <<>>)
  <2>1. NoBeats(<<>>)
    BY DEF NoBeats
  <2>. QED BY <1>4, <2>1, Fresh
<1>6. InTurn(first, After(0), <<>>)
  <2>. HIDE DEF first
  <2>1. <<>> \o first = first
    BY <1>5, ConcatEmptySeq
  <2>. QED BY <1>5, <2>1
<1>7. LinkTyped
  <2>. HIDE DEF first
  <2>1. up = first
    BY DEF LinkInit, first
  <2>2. 0 \in Ages /\ MaxTrouble \in Nat
    BY LinkNumbers, LinkAssumption DEF Ages
  <2>3. beat \in BeatLinks(epoch) /\ up \in Seq(Upward) /\ seqs \in Seq(Numbers)
        /\ down \in Seq(Downward(1, epoch)) /\ epoch \in 1 .. MaxEpoch
    BY <1>1, <1>3, <1>4, <1>5, <2>1 DEF LinkInit
  <2>. QED BY <2>2, <2>3 DEF LinkInit, LinkTyped
<1>8. RolesInOrder
  BY <1>3, <1>4 DEF LinkInit, RolesInOrder, RolesFirst
<1>9. InTurn(up, beat.seq, seqs)
  BY <1>3, <1>6 DEF LinkInit
<1>. QED BY <1>7, <1>8, <1>9 DEF LinkInv, LinkInit

\* What Control sends keeps the order of the roles.
LEMMA RolesSent ==
    ASSUME LinkTyped, RolesFirst(down, beat.epoch), NEW add \in Seq(Downward(epoch, epoch))
    PROVE  /\ down \o Sent(add) \in Seq(Downward(1, epoch))
           /\ RolesFirst(down \o Sent(add), beat.epoch)
<1>. DEFINE E == Downward(epoch, epoch)
            D == Downward(1, epoch)
            new == Sent(add)
            all == down \o new
            k == Len(down)
<1>1. epoch \in Nat /\ epoch \in 1 .. epoch /\ down \in Seq(D)
  BY LinkTypes DEF LinkTyped
<1>2. new \in Seq(E)
  <2>. HIDE DEF E
  <2>1. add \in Seq(E) /\ <<>> \in Seq(E)
    BY EmptySeq DEF E
  <2>. QED BY <2>1 DEF Sent
<1>3. E \subseteq D /\ \A m \in E : m.n = epoch
  BY <1>1 DEF Downward
<1>. HIDE DEF E, D, new
<1>4. new \in Seq(D)
  BY <1>2, <1>3, SeqMonotonic
<1>5. /\ all \in Seq(D) /\ k \in Nat /\ Len(new) \in Nat /\ DOMAIN down = 1 .. k
      /\ DOMAIN all = 1 .. k + Len(new)
      /\ \A i \in 1 .. k : all[i] = down[i]
      /\ \A i \in 1 .. k + Len(new) : i > k =>
            i - k \in 1 .. Len(new) /\ all[i] = new[i - k]
  BY <1>1, <1>4, ConcatParts
<1>. HIDE DEF all, k
<1>6. \A i \in 1 .. k + Len(new) : i > k => all[i].n = epoch
  BY <1>2, <1>3, <1>5, ElementOfSeq
<1>7. RolesFirst(all, beat.epoch)
  <2>. SUFFICES ASSUME NEW j \in DOMAIN all, all[j].verb = "role", all[j].n # epoch
                PROVE  beat.epoch # epoch /\ \A i \in 1 .. j : all[i] # BeatMsg(epoch)
    BY DEF RolesFirst
  <2>1. j \in 1 .. k /\ all[j] = down[j]
    BY <1>5, <1>6
  <2>2. \A i \in 1 .. j : i \in 1 .. k
    BY <1>5, <2>1
  <2>. QED BY <1>5, <2>1, <2>2 DEF RolesFirst
<1>. QED BY <1>5, <1>7 DEF all, new, D

LEMMA StartRoundKeeps == LinkInv /\ StartRound => LinkInv'
<1>. SUFFICES ASSUME LinkInv, StartRound PROVE LinkInv'
  OBVIOUS
<1>. DEFINE add == IF pooled /\ bound THEN <<RoleMsg>> ELSE <<>>
<1>1. LinkTyped /\ RolesInOrder
  BY DEF LinkInv
<1>2. /\ UNCHANGED <<beat, role, online, seen, lapped, epoch, pooled, silent, bound, seqs,
                     polled, up, trouble, clean, met>>
      /\ running' = TRUE /\ given' = pooled /\ down' = down \o Sent(add)
  BY DEF StartRound, device
<1>3. add \in Seq(Downward(epoch, epoch))
  <2>. DEFINE E == Downward(epoch, epoch)
              m == RoleMsg
  <2>1. m \in E
    BY <1>1, LinkTypes DEF RoleMsg, Downward
  <2>. HIDE DEF m, E
  <2>2. <<m>> \in Seq(E) /\ <<>> \in Seq(E)
    BY <2>1, EmptySeq
  <2>. QED BY <2>2 DEF m, E
<1>4. down' \in Seq(Downward(1, epoch)) /\ RolesFirst(down', beat.epoch)
  BY <1>1, <1>2, <1>3, RolesSent DEF RolesInOrder
<1>5. LinkTyped'
  BY <1>1, <1>2, <1>4 DEF LinkTyped
<1>6. RolesInOrder'
  BY <1>1, <1>2, <1>4 DEF RolesInOrder, RolesFirst
<1>. QED BY <1>2, <1>5, <1>6 DEF LinkInv

LEMMA RestartKeeps == LinkInv /\ Restart => LinkInv'
<1>. SUFFICES ASSUME LinkInv, Restart PROVE LinkInv'
  OBVIOUS
<1>1. LinkTyped /\ RolesInOrder
  BY DEF LinkInv
<1>2. /\ UNCHANGED <<beat, role, online, seen, lapped, polled, down, clean, met>>
      /\ epoch < MaxEpoch /\ epoch' = epoch + 1 /\ trouble' = trouble - 1 /\ 1 <= trouble
      /\ running' = FALSE /\ pooled' = FALSE /\ silent' = 0 /\ given' = FALSE
      /\ bound' = FALSE /\ seqs' = <<>> /\ up' = <<>>
  BY DEF Restart, device, Costs
<1>3. /\ epoch \in Nat /\ epoch' \in 1 .. MaxEpoch /\ trouble' \in Nat
      /\ \A n \in 1 .. epoch : n \in 1 .. epoch' /\ n # epoch'
  BY <1>1, <1>2, LinkTypes, LinkNumbers DEF LinkTyped
<1>4. beat' \in BeatLinks(epoch') /\ beat.epoch # epoch'
  <2>1. beat.epoch # epoch'
    BY <1>1, <1>3, LinkTypes, LinkNumbers
  <2>2. {None} \cup (1 .. epoch) \subseteq {None} \cup (1 .. epoch')
    BY <1>3
  <2>. QED BY <1>1, <1>2, <2>1, <2>2, LinkTypes DEF BeatLinks
<1>5. down' \in Seq(Downward(1, epoch'))
  <2>. DEFINE D == Downward(1, epoch)
              E == Downward(1, epoch')
  <2>1. D \subseteq E /\ down \in Seq(D)
    BY <1>1, <1>3 DEF Downward, LinkTyped
  <2>. HIDE DEF D, E
  <2>2. down \in Seq(E)
    BY <2>1, SeqMonotonic
  <2>. QED BY <1>2, <2>2 DEF E
<1>6. <<>> \in Seq(Upward) /\ <<>> \in Seq(Numbers) /\ 0 \in Ages
  BY EmptySeq, LinkNumbers DEF Ages
<1>7. LinkTyped'
  <2>1. role' \in {None} \cup (1 .. epoch')
    BY <1>1, <1>2, <1>3 DEF LinkTyped
  <2>. QED BY <1>1, <1>2, <1>3, <1>4, <1>5, <1>6, <2>1 DEF LinkTyped
<1>8. RolesInOrder'
  <2>1. \A i \in DOMAIN down : down[i] # BeatMsg(epoch')
    <3>1. \A i \in DOMAIN down : down[i].n # epoch'
      BY <1>1, <1>3, LinkTypes DEF Downward
    <3>. QED BY <3>1 DEF BeatMsg
  <2>2. \A j \in DOMAIN down : \A i \in 1 .. j : i \in DOMAIN down
    BY <1>1, LinkTypes
  <2>. QED BY <1>1, <1>2, <1>4, <2>1, <2>2 DEF RolesInOrder, RolesFirst, BeatMsg
<1>9. InTurn(<<>>, beat.seq, <<>>)
  BY DEF InTurn, Numbered
<1>. QED BY <1>2, <1>7, <1>8, <1>9 DEF LinkInv

LEMMA SecondKeeps == LinkInv /\ Second => LinkInv'
<1>. SUFFICES ASSUME LinkInv, Second PROVE LinkInv'
  OBVIOUS
<1>1. LinkTyped /\ RolesInOrder
  BY DEF LinkInv
<1>2. /\ UNCHANGED <<role, online, seen, epoch, running, pooled, given, bound, seqs,
                     up, down, clean, met>>
      /\ lapped' = FALSE /\ polled' = FALSE /\ beat' = Aged(beat)
      /\ silent' = IF pooled /\ silent <= Grace THEN silent + 1 ELSE silent
      /\ One(~lapped /\ silent < 2) <= trouble /\ trouble' = trouble - One(~lapped /\ silent < 2)
  BY DEF Second, Costs
<1>3. beat' \in BeatLinks(epoch) /\ beat'.epoch = beat.epoch /\ beat'.seq = beat.seq
  BY <1>1, <1>2, LinkTypes, AgedKeeps
<1>4. trouble' \in Nat
  BY <1>1, <1>2 DEF LinkTyped, One
<1>5. silent' \in Ages
  BY <1>1, <1>2, LinkNumbers DEF LinkTyped, Ages
<1>6. LinkTyped'
  BY <1>1, <1>2, <1>3, <1>4, <1>5 DEF LinkTyped
<1>7. RolesInOrder'
  BY <1>1, <1>2, <1>3 DEF RolesInOrder, RolesFirst
<1>. QED BY <1>2, <1>3, <1>6, <1>7 DEF LinkInv

\* An accident is paid for.
LEMMA MishapsCount ==
    ASSUME NEW M, NEW ms \in Seq(M), NEW now \in SUBSET UdpIn(ms), NEW later \in SUBSET UdpIn(ms)
    PROVE  Mishaps(ms, now, later) \in Nat
<1>. DEFINE lost == UdpIn(ms) \ (now \cup later)
<1>1. IsFiniteSet(1 .. Len(ms)) /\ DOMAIN ms = 1 .. Len(ms)
  <2>1. Len(ms) \in Nat /\ DOMAIN ms = 1 .. Len(ms) /\ 1 \in Int /\ Len(ms) \in Int
    BY LenProperties
  <2>. QED BY <2>1, FS_Interval
<1>2. later \subseteq DOMAIN ms /\ lost \subseteq DOMAIN ms
  BY DEF UdpIn
<1>3. Cardinality(later) \in Nat /\ Cardinality(lost) \in Nat
  <2>. HIDE DEF lost
  <2>. QED BY <1>1, <1>2, FS_Subset, FS_CardinalityType
<1>. QED BY <1>3 DEF Mishaps

\* When all of them come and none is lost, what comes is what was sent.
LEMMA AllArrive ==
    ASSUME NEW M, NEW ms \in Seq(M)
    PROVE  Pick(ms, DOMAIN ms) = ms /\ Pick(ms, {}) = <<>>
<1>. DEFINE k == Len(ms)
            p == Pick(ms, DOMAIN ms)
<1>1. k \in Nat /\ DOMAIN ms = 1 .. k
  BY LenProperties
<1>2. Cardinality(DOMAIN ms) = k
  <2>1. 1 \in Int /\ k \in Int
    BY <1>1
  <2>. QED BY <1>1, <2>1, FS_Interval
<1>3. p \in Seq(M) /\ Len(p) = k
  BY <1>2, Picked
<1>4. DOMAIN p = 1 .. k
  BY <1>3, LenProperties
<1>5. PICK f \in [DOMAIN p -> DOMAIN ms] : PickedBy(f, p, ms, DOMAIN ms)
  BY Picked
<1>6. /\ \A n \in 1 .. k : p[n] = ms[f[n]] /\ f[n] \in 1 .. k
      /\ \A m, n \in 1 .. k : m < n => f[m] < f[n]
      /\ \A i \in 1 .. k : \E n \in 1 .. k : f[n] = i
  BY <1>1, <1>4, <1>5 DEF PickedBy
<1>. HIDE DEF p, k
\* Place n is at least n, ...
<1>7. \A n \in 0 .. k : n \in {j \in 0 .. k : j = 0 \/ f[j] >= j}
  <2>. DEFINE T == {j \in 0 .. k : j = 0 \/ f[j] >= j}
  <2>1. 0 \in T
    BY <1>1
  <2>2. ASSUME NEW n \in 1 .. k, n - 1 \in T PROVE n \in T
    <3>1. CASE n = 1
      BY <1>1, <1>6, <3>1
    <3>2. CASE n # 1
      <4>1. n - 1 \in 1 .. k /\ f[n - 1] >= n - 1 /\ n \in Nat /\ n - 1 < n
        BY <1>1, <2>2, <3>2
      <4>2. f[n - 1] < f[n] /\ f[n] \in Nat /\ f[n - 1] \in Nat
        <5>1. f[n] \in 1 .. k /\ f[n - 1] \in 1 .. k
          BY <1>6, <4>1
        <5>2. f[n - 1] < f[n]
          BY <1>6, <4>1
        <5>. QED BY <1>1, <5>1, <5>2
      <4>3. f[n] >= n
        BY <4>1, <4>2
      <4>. QED BY <1>1, <4>1, <4>3
    <3>. QED BY <3>1, <3>2
  <2>. HIDE DEF T
  <2>. QED BY <1>1, <2>1, <2>2, CountedUp DEF T
\* ... and so is every place that is filled by n.
<1>8. \A n \in 0 .. k : n \in {j \in 0 .. k : j = 0 \/ f[j] = j}
  <2>. DEFINE T == {j \in 0 .. k : j = 0 \/ f[j] = j}
  <2>1. 0 \in T
    BY <1>1
  <2>2. ASSUME NEW n \in 1 .. k, n - 1 \in T PROVE n \in T
    <3>1. PICK i \in 1 .. k : f[i] = n
      BY <1>6
    <3>2. i <= n /\ i \in Nat /\ n \in Nat
      <4>1. i \in 0 .. k /\ i # 0 /\ i \in Nat /\ n \in Nat
        BY <1>1
      <4>. QED BY <1>7, <3>1, <4>1
    <3>3. ~(i < n)
      <4>. SUFFICES ASSUME i < n PROVE FALSE
        OBVIOUS
      <4>1. n # 1 /\ n - 1 \in 1 .. k /\ f[n - 1] = n - 1
        BY <1>1, <2>2, <3>2
      <4>2. i = n - 1 \/ i < n - 1
        BY <3>2
      <4>3. i < n - 1 => f[i] < f[n - 1]
        BY <1>6, <4>1
      <4>. QED BY <3>1, <3>2, <4>1, <4>2, <4>3
    <3>. QED BY <1>1, <3>1, <3>2, <3>3
  <2>. HIDE DEF T
  <2>. QED BY <1>1, <2>1, <2>2, CountedUp DEF T
<1>9. \A n \in 1 .. k : p[n] = ms[n]
  <2>. TAKE n \in 1 .. k
  <2>1. n \in 0 .. k /\ n # 0
    BY <1>1
  <2>2. f[n] = n
    BY <1>8, <2>1
  <2>. QED BY <1>6, <2>2
<1>10. p = ms
  BY <1>1, <1>3, <1>4, <1>9, SeqEqual DEF k
<1>11. Pick(ms, {}) = <<>>
  <2>1. Cardinality({}) = 0
    BY FS_EmptySet
  <2>. QED BY <2>1, SMT DEF Pick
<1>. QED BY <1>10, <1>11 DEF p

LEMMA PollKeeps == LinkInv /\ Poll => LinkInv'
<1>. SUFFICES ASSUME LinkInv, Poll PROVE LinkInv'
  OBVIOUS
<1>1. /\ LinkTyped /\ RolesInOrder
      /\ ~pooled => seqs = <<>>
      /\ clean => InTurn(up, beat.seq, seqs)
  BY DEF LinkInv
<1>. DEFINE first == [pooled |-> pooled, bound |-> bound, silent |-> silent,
                      given |-> given, seqs |-> seqs, out |-> <<>>]
            Handling(now) == HandledAll(Arrived(up, now), first)
            Reaped(st) == st.pooled /\ st.silent > Grace
            Sending(st, lit) == st.out \o (IF lit THEN <<LedsMsg>> ELSE <<>>)
                                \o (IF Reaped(st) /\ st.given THEN <<ReleaseMsg>> ELSE <<>>)
<1>2. PICK lit \in BOOLEAN, now \in SUBSET UdpIn(up), later \in SUBSET UdpIn(up) :
         /\ Costs(Mishaps(up, now, later))
         /\ pooled' = (Handling(now).pooled /\ ~Reaped(Handling(now)))
         /\ bound' = (Handling(now).bound /\ ~Reaped(Handling(now)))
         /\ given' = (Handling(now).given /\ ~Reaped(Handling(now)))
         /\ silent' = IF Reaped(Handling(now)) THEN 0 ELSE Handling(now).silent
         /\ seqs' = IF Reaped(Handling(now)) THEN <<>> ELSE Handling(now).seqs
         /\ down' = down \o Sent(Sending(Handling(now), lit))
         /\ up' = Pick(up, later)
         /\ clean' = (clean /\ later = {} /\ now = UdpIn(up))
  BY SMTT(30) DEF Poll
<1>3. polled' = TRUE /\ UNCHANGED <<beat, role, online, seen, lapped, epoch, running, met>>
  BY DEF Poll, device
<1>. DEFINE ms == Arrived(up, now)
            st == HandledAll(ms, first)
            reaped == Reaped(st)
            sending == Sending(st, lit)
<1>4. up \in Seq(Upward) /\ later \in SUBSET DOMAIN up
      /\ now \cup (DOMAIN up \ UdpIn(up)) \in SUBSET DOMAIN up
  BY <1>1, LinkTypes DEF LinkTyped
<1>5. ms \in Seq(Upward) /\ up' \in Seq(Upward)
  BY <1>2, <1>4, Picked DEF Arrived
<1>6. /\ st \in HandledStates
      /\ ~st.pooled => st.seqs = <<>>
      /\ InTurn(ms, beat.seq, seqs) =>
            st.seqs = <<>> \/ (Gapless(st.seqs) /\ beat.seq = After(st.seqs[Len(st.seqs)]))
  <2>. HIDE DEF ms
  <2>. QED BY <1>1, <1>5, BeatsCounted
<1>7. trouble' \in Nat
  <2>1. Mishaps(up, now, later) \in Nat
    BY <1>4, MishapsCount
  <2>. QED BY <1>1, <1>2, <2>1 DEF Costs, LinkTyped
<1>8. /\ pooled' = (st.pooled /\ ~reaped) /\ bound' = (st.bound /\ ~reaped)
      /\ given' = (st.given /\ ~reaped) /\ silent' = IF reaped THEN 0 ELSE st.silent
      /\ seqs' = IF reaped THEN <<>> ELSE st.seqs
      /\ down' = down \o Sent(sending)
      /\ up' = Pick(up, later) /\ clean' = (clean /\ later = {} /\ now = UdpIn(up))
  BY <1>2
<1>9. /\ st.pooled \in BOOLEAN /\ st.bound \in BOOLEAN /\ st.silent \in Ages
      /\ st.given \in BOOLEAN /\ st.seqs \in Seq(Numbers)
      /\ st.out \in Seq(Downward(epoch, epoch))
  <2>. HIDE DEF st
  <2>. QED BY <1>6 DEF HandledStates
<1>. HIDE DEF st
<1>10. sending \in Seq(Downward(epoch, epoch))
  <2>. DEFINE E == Downward(epoch, epoch)
              a == LedsMsg
              b == ReleaseMsg
              x == IF lit THEN <<a>> ELSE <<>>
              y == IF reaped /\ st.given THEN <<b>> ELSE <<>>
  <2>1. a \in E /\ b \in E
    BY <1>1, LinkTypes DEF LedsMsg, ReleaseMsg, Downward
  <2>2. sending = (st.out \o x) \o y /\ st.out \in Seq(E)
    BY <1>9
  <2>. HIDE DEF a, b, E, reaped, sending
  <2>3. x \in Seq(E) /\ y \in Seq(E)
    BY <2>1, EmptySeq
  <2>. HIDE DEF x, y
  <2>4. (st.out \o x) \o y \in Seq(E)
    BY <2>2, <2>3, ConcatProperties
  <2>. QED BY <2>2, <2>4 DEF E
<1>11. down' \in Seq(Downward(1, epoch)) /\ RolesFirst(down', beat.epoch)
  <2>. HIDE DEF sending
  <2>. QED BY <1>1, <1>8, <1>10, RolesSent DEF RolesInOrder
<1>. HIDE DEF sending
<1>12. reaped \in BOOLEAN /\ 0 \in Ages /\ <<>> \in Seq(Numbers)
  BY <1>9, EmptySeq, LinkNumbers DEF Ages
<1>. HIDE DEF reaped
<1>13. LinkTyped'
  <2>1. /\ pooled' \in BOOLEAN /\ bound' \in BOOLEAN /\ given' \in BOOLEAN
        /\ silent' \in Ages /\ seqs' \in Seq(Numbers) /\ clean' \in BOOLEAN
    BY <1>1, <1>8, <1>9, <1>12 DEF LinkTyped
  <2>. QED BY <1>1, <1>3, <1>5, <1>7, <1>11, <2>1 DEF LinkTyped
<1>14. RolesInOrder'
  BY <1>1, <1>3, <1>11 DEF RolesInOrder, RolesFirst
<1>15. ~pooled' => seqs' = <<>>
  BY <1>6, <1>8, <1>9
<1>16. ASSUME clean' PROVE InTurn(up', beat'.seq, seqs')
  <2>1. clean /\ later = {} /\ now = UdpIn(up) /\ beat' = beat
    BY <1>3, <1>8, <1>16
  <2>2. now \cup (DOMAIN up \ UdpIn(up)) = DOMAIN up
    BY <1>1, <2>1, LinkTypes
  <2>3. ms = up /\ up' = <<>>
    BY <1>4, <1>8, <2>1, <2>2, AllArrive DEF Arrived
  <2>4. st.seqs = <<>> \/ (Gapless(st.seqs) /\ beat.seq = After(st.seqs[Len(st.seqs)]))
    BY <1>1, <1>6, <2>1, <2>3
  <2>. DEFINE q == seqs'
  <2>5. q = <<>> \/ (Gapless(q) /\ beat.seq = After(q[Len(q)]))
    BY <1>8, <2>4
  <2>. HIDE DEF q
  <2>6. InTurn(<<>>, beat.seq, q)
    BY <2>5 DEF InTurn, Numbered, Comes
  <2>. QED BY <2>1, <2>3, <2>6 DEF q
<1>. QED BY <1>13, <1>14, <1>15, <1>16 DEF LinkInv

LEMMA LapKeeps == LinkInv /\ Lap => LinkInv'
<1>. SUFFICES ASSUME LinkInv, Lap PROVE LinkInv'
  OBVIOUS
<1>1. /\ LinkTyped /\ RolesInOrder
      /\ ~pooled => seqs = <<>>
      /\ clean => InTurn(up, beat.seq, seqs)
  BY DEF LinkInv
<1>. DEFINE first == [b |-> beat, role |-> role, out |-> <<>>, over |-> FALSE]
            St(now) == HeardAll(Arrived(down, now), first)
            Left(st, on) == Transition(st.b, on)
            New(on) == on /\ ~seen
            Beating(b, on) == b.up /\ ~New(on)
            Saying(st, b, on) == ~GivesUp(b) /\ (HelloDue(b) \/ (st.over /\ on))
            Up(st, b, on) == (IF on /\ online THEN up ELSE Beats(up))
                             \o (IF on THEN st.out ELSE <<>>)
                             \o (IF New(on) THEN <<HelloMsg, BeatMsg(0)>> ELSE <<>>)
                             \o (IF Beating(b, on) /\ ~GivesUp(b) THEN <<BeatMsg(b.seq)>> ELSE <<>>)
                             \o (IF Saying(st, b, on) THEN <<HelloMsg>> ELSE <<>>)
<1>2. PICK on \in BOOLEAN, now \in SUBSET UdpIn(down), later \in SUBSET UdpIn(down) :
         /\ Costs(Mishaps(down, now, later) + One(online /\ ~on))
         /\ beat' = Tick(Left(St(now), on), Beating(Left(St(now), on), on))
         /\ role' = IF St(now).over THEN None ELSE St(now).role
         /\ online' = (on /\ ~GivesUp(Left(St(now), on)))
         /\ seen' = SeenAfter(on, GivesUp(Left(St(now), on)))
         /\ up' = Up(St(now), Left(St(now), on), on)
         /\ down' = IF on /\ ~GivesUp(Left(St(now), on)) THEN Pick(down, later) ELSE <<>>
         /\ clean' = IF New(on) THEN Beats(up) = <<>> ELSE clean
         /\ met' = IF St(now).role # role THEN beat.epoch # None ELSE met
  BY ZenonT(60) DEF Lap
<1>3. /\ lapped' = TRUE
      /\ UNCHANGED <<epoch, running, pooled, silent, given, bound, seqs, polled>>
  BY DEF Lap, control
<1>. DEFINE st == St(now)
            b == Left(st, on)
            fresh == New(on)
            beats == Beating(b, on)
            gone == GivesUp(b)
<1>4. /\ Costs(Mishaps(down, now, later) + One(online /\ ~on))
      /\ beat' = Tick(b, beats) /\ role' = IF st.over THEN None ELSE st.role
      /\ online' = (on /\ ~gone) /\ seen' = SeenAfter(on, gone) /\ up' = Up(st, b, on)
      /\ down' = IF on /\ ~gone THEN Pick(down, later) ELSE <<>>
      /\ clean' = IF fresh THEN Beats(up) = <<>> ELSE clean
      /\ met' = IF st.role # role THEN beat.epoch # None ELSE met
  BY <1>2
<1>5. /\ st \in HeardStates /\ st.b.seq = beat.seq
      /\ beat.epoch # None => st.b.epoch # None
      /\ beat.epoch # None /\ st.b.epoch = epoch =>
            st.role \in {None, epoch} \/ (st.role = role /\ beat.epoch = epoch)
  BY <1>1, RolesHeard
<1>6. /\ epoch \in Nat /\ beat.seq \in Numbers /\ seen \in BOOLEAN /\ online \in BOOLEAN
      /\ met \in BOOLEAN /\ clean \in BOOLEAN
      /\ up \in Seq(Upward) /\ down \in Seq(Downward(1, epoch)) /\ later \in SUBSET DOMAIN down
  BY <1>1, LinkTypes DEF LinkTyped
<1>. HIDE DEF st
<1>7. /\ st.b \in BeatLinks(epoch) /\ st.role \in {None} \cup (1 .. epoch)
      /\ st.out \in Seq({HelloMsg}) /\ st.over \in BOOLEAN
  BY <1>5 DEF HeardStates
<1>8. /\ b \in BeatLinks(epoch) /\ b.epoch = st.b.epoch
      /\ b.seq = IF fresh THEN After(0) ELSE beat.seq
  BY <1>5, <1>6, <1>7, LinkUpKeeps, LinkDownKeeps DEF Transition
<1>. HIDE DEF b
<1>9. gone \in BOOLEAN /\ beats \in BOOLEAN /\ fresh \in BOOLEAN
  BY <1>6, <1>8 DEF GivesUp, BeatLinks
<1>10. /\ beat' \in BeatLinks(epoch) /\ beat'.epoch = st.b.epoch
       /\ beat'.seq = IF beats /\ ~gone THEN After(b.seq) ELSE b.seq
  <2>. HIDE DEF beats, gone
  <2>. QED BY <1>4, <1>6, <1>8, <1>9, TickKeeps DEF gone
<1>11. trouble' \in Nat
  <2>1. Mishaps(down, now, later) \in Nat
    BY <1>6, MishapsCount
  <2>2. One(online /\ ~on) \in Nat
    BY DEF One
  <2>. QED BY <1>1, <1>4, <2>1, <2>2 DEF Costs, LinkTyped
<1>12. down' \in Seq(Downward(1, epoch)) /\ \A j \in DOMAIN down' : down'[j].verb # "role"
  <2>. DEFINE D == Downward(1, epoch)
              p == Pick(down, later)
  <2>1. \A j \in later : down[j].verb # "role"
    BY DEF UdpIn, Udp
  <2>2. down \in Seq(D)
    BY <1>6
  <2>. HIDE DEF D
  <2>3. p \in Seq(D)
    BY <1>6, <2>2, Picked
  <2>4. PICK f \in [DOMAIN p -> later] : PickedBy(f, p, down, later)
    BY <1>6, <2>2, Picked
  <2>5. \A j \in DOMAIN p : p[j].verb # "role"
    BY <2>1, <2>4 DEF PickedBy
  <2>6. <<>> \in Seq(D) /\ DOMAIN <<>> = {}
    BY EmptySeq
  <2>. HIDE DEF p, gone
  <2>. QED BY <1>4, <2>3, <2>5, <2>6 DEF D, p
<1>. DEFINE u0 == IF on /\ online THEN up ELSE Beats(up)
            h1 == IF on THEN st.out ELSE <<>>
            fr == IF fresh THEN <<HelloMsg, BeatMsg(0)>> ELSE <<>>
            be == IF beats /\ ~gone THEN <<BeatMsg(b.seq)>> ELSE <<>>
            h2 == IF Saying(st, b, on) THEN <<HelloMsg>> ELSE <<>>
<1>13. up' = (((u0 \o h1) \o fr) \o be) \o h2
  BY <1>4
<1>14. \A s \in Seq({HelloMsg}) : s \in Seq(Upward) /\ NoBeats(s)
  <2>. TAKE s \in Seq({HelloMsg})
  <2>1. {HelloMsg} \subseteq Upward /\ ~IsBeat(HelloMsg)
    BY DEF Upward, IsBeat, HelloMsg
  <2>. DEFINE H == {HelloMsg}
  <2>2. \A m \in H : ~IsBeat(m)
    BY <2>1
  <2>3. s \in Seq(H)
    OBVIOUS
  <2>. HIDE DEF H
  <2>4. \A i \in DOMAIN s : s[i] \in H
    BY <2>3, LenProperties, ElementOfSeq
  <2>5. s \in Seq(Upward)
    BY <2>1, <2>3, SeqMonotonic DEF H
  <2>. QED BY <2>2, <2>4, <2>5 DEF NoBeats
<1>15. <<>> \in Seq({HelloMsg}) /\ <<HelloMsg>> \in Seq({HelloMsg})
  <2>. DEFINE m == HelloMsg
  <2>. HIDE DEF m
  <2>1. <<>> \in Seq({m}) /\ <<m>> \in Seq({m})
    BY EmptySeq
  <2>. QED BY <2>1 DEF m
<1>16. /\ <<>> \in Seq(Upward) /\ NoBeats(<<>>)
       /\ h1 \in Seq(Upward) /\ NoBeats(h1) /\ h2 \in Seq(Upward) /\ NoBeats(h2)
  <2>1. h1 \in Seq({HelloMsg}) /\ h2 \in Seq({HelloMsg})
    BY <1>7, <1>15
  <2>. HIDE DEF h1, h2
  <2>. QED BY <1>14, <1>15, <2>1
<1>17. /\ u0 \in Seq(Upward)
       /\ \A seq, kept : InTurn(up, seq, kept) => InTurn(u0, seq, kept)
       /\ Beats(up) = <<>> => NoBeats(u0)
  BY <1>6, <1>16, OnlyBeats
<1>18. fr \in Seq(Upward) /\ be \in Seq(Upward)
  <2>1. <<HelloMsg, BeatMsg(0)>> \in Seq(Upward)
    BY <1>16, Fresh
  <2>2. b.seq \in Numbers
    BY <1>6, <1>8, LinkNumbers
  <2>3. BeatMsg(b.seq) \in Upward
    BY <2>2 DEF Upward
  <2>. DEFINE m == BeatMsg(b.seq)
  <2>. HIDE DEF m
  <2>4. <<m>> \in Seq(Upward)
    BY <2>3 DEF m
  <2>. QED BY <1>16, <2>1, <2>4 DEF m
<1>. DEFINE a1 == u0 \o h1
            a2 == a1 \o fr
            a3 == a2 \o be
<1>. HIDE DEF u0, h1, h2
<1>19. a1 \in Seq(Upward)
  BY <1>16, <1>17, ConcatParts
<1>. HIDE DEF a1
<1>20. a2 \in Seq(Upward)
  <2>. HIDE DEF fr
  <2>. QED BY <1>18, <1>19, ConcatParts
<1>. HIDE DEF a2
<1>21. a3 \in Seq(Upward)
  <2>. HIDE DEF be
  <2>. QED BY <1>18, <1>20, ConcatParts
<1>. HIDE DEF a3
<1>22. up' = a3 \o h2 /\ up' \in Seq(Upward)
  <2>1. up' = a3 \o h2
    <3>. HIDE DEF fr, be
    <3>. QED BY <1>13 DEF a1, a2, a3
  <2>. QED BY <1>16, <1>21, <2>1, ConcatParts
<1>23. ASSUME clean' PROVE InTurn(up', beat'.seq, seqs)
  <2>1. CASE fresh
    <3>1. NoBeats(u0) /\ ~beats /\ fr = <<HelloMsg, BeatMsg(0)>> /\ be = <<>>
      BY <1>4, <1>17, <1>23, <2>1
    <3>2. NoBeats(a1)
      BY <1>16, <1>17, <3>1, ConcatParts DEF NoBeats, a1
    <3>3. InTurn(a2, After(0), seqs)
      BY <1>19, <3>1, <3>2, Fresh DEF a2
    <3>4. InTurn(a3, After(0), seqs)
      BY <1>16, <1>20, <3>1, <3>3, Quiet DEF a3
    <3>5. beat'.seq = After(0)
      BY <1>8, <1>10, <2>1, <3>1
    <3>. QED BY <1>16, <1>21, <1>22, <3>4, <3>5, Quiet
  <2>2. CASE ~fresh
    <3>1. clean /\ fr = <<>> /\ b.seq = beat.seq
      BY <1>4, <1>8, <1>23, <2>2
    <3>2. InTurn(u0, beat.seq, seqs)
      BY <1>1, <1>17, <3>1
    <3>3. InTurn(a1, beat.seq, seqs)
      BY <1>16, <1>17, <3>2, Quiet DEF a1
    <3>4. InTurn(a2, beat.seq, seqs)
      BY <1>16, <1>19, <3>1, <3>3, Quiet DEF a2
    <3>5. InTurn(a3, beat'.seq, seqs)
      <4>1. CASE beats /\ ~gone
        <5>1. be = <<BeatMsg(beat.seq)>> /\ beat'.seq = After(beat.seq)
          BY <1>10, <3>1, <4>1
        <5>2. InTurn(a2 \o <<BeatMsg(beat.seq)>>, After(beat.seq), seqs)
          BY <1>6, <1>20, <3>4, Beaten
        <5>. QED BY <5>1, <5>2 DEF a3
      <4>2. CASE ~(beats /\ ~gone)
        <5>1. be = <<>> /\ beat'.seq = beat.seq
          BY <1>10, <3>1, <4>2
        <5>2. InTurn(a2 \o <<>>, beat.seq, seqs)
          BY <1>16, <1>20, <3>4, Quiet
        <5>. QED BY <5>1, <5>2 DEF a3
      <4>. QED BY <4>1, <4>2
    <3>. QED BY <1>16, <1>21, <1>22, <3>5, Quiet
  <2>. QED BY <2>1, <2>2
<1>24. LinkTyped'
  <2>1. clean' \in BOOLEAN /\ met' \in BOOLEAN
    BY <1>4, <1>6, <1>9
  <2>2. role' \in {None} \cup (1 .. epoch) /\ online' \in BOOLEAN /\ seen' \in BOOLEAN
    BY <1>4, <1>7, <1>9 DEF SeenAfter
  <2>. QED BY <1>1, <1>3, <1>10, <1>11, <1>12, <1>22, <2>1, <2>2 DEF LinkTyped
<1>25. RolesInOrder'
  <2>1. RolesFirst(down, beat.epoch)' 
    BY <1>12 DEF RolesFirst
  <2>2. met => beat.epoch # None
    BY <1>1 DEF RolesInOrder
  <2>3. met' => beat.epoch # None
    BY <1>4, <2>2
  <2>4. met' => beat'.epoch # None
    BY <1>5, <1>10, <2>3
  <2>5. ASSUME beat'.epoch = epoch, met' PROVE role' \in {None, epoch}
    <3>1. st.role \in {None, epoch} \/ (st.role = role /\ beat.epoch = epoch)
      BY <1>5, <1>10, <2>3, <2>5
    <3>2. CASE st.role \in {None, epoch}
      BY <1>4, <3>2
    <3>3. CASE st.role = role /\ beat.epoch = epoch
      <4>1. met
        BY <1>4, <2>5, <3>3
      <4>2. role \in {None, epoch}
        BY <1>1, <3>3, <4>1 DEF RolesInOrder
      <4>. QED BY <1>4, <3>3, <4>2
    <3>. QED BY <3>1, <3>2, <3>3
  <2>. QED BY <1>3, <2>1, <2>4, <2>5 DEF RolesInOrder
<1>26. ~pooled' => seqs' = <<>>
  BY <1>1, <1>3
<1>27. clean' => InTurn(up', beat'.seq, seqs')
  BY <1>3, <1>23
<1>. QED BY <1>24, <1>25, <1>26, <1>27 DEF LinkInv

LEMMA LinkStutters == LinkInv /\ UNCHANGED linkVars => LinkInv'
BY DEF LinkInv, LinkTyped, RolesInOrder, RolesFirst, linkVars, device, control

\* Every step keeps the invariant.
LEMMA LinkKept == LinkSpec => []LinkInv
<1>1. LinkInv /\ [LinkNext]_linkVars => LinkInv'
  BY LapKeeps, PollKeeps, StartRoundKeeps, RestartKeeps, SecondKeeps, LinkStutters DEF LinkNext
<1>. QED BY <1>1, LinkStarts, PTL DEF LinkSpec

\* A device's BeatLink, its role and what Control keeps of it have their types, and only
\* messages that the code sends are under way (BeatLink, LinkMonitor).
THEOREM LinkIsTyped == LinkSpec => []LinkTyped
<1>1. LinkInv => LinkTyped
  BY DEF LinkInv
<1>. QED BY <1>1, LinkKept, PTL

\* However messages are lost, doubled or late and however often Control restarts, a device
\* that has heard the Control that runs now holds no role of an earlier one it had heard
\* (BeatLink.on_beat_reply's DropRole).
THEOREM RolesAreThisEpochs == LinkSpec => []RoleOfThisEpoch
<1>1. LinkInv => RoleOfThisEpoch
  BY DEF LinkInv, RolesInOrder, RoleOfThisEpoch
<1>. QED BY <1>1, LinkKept, PTL

\* A link whose beats all came once and in turn is charged with no loss, for any window
\* and any modulus of the numbers (LinkMonitor.on_beat).
THEOREM NoLossIsBlamed == LinkSpec => []NoLossNoBlame
<1>1. LinkInv => NoLossNoBlame
  <2>. SUFFICES ASSUME LinkInv, clean, \A i \in DOMAIN up : up[i] # BeatMsg(0)
                PROVE  Loss(seqs) = 0
    BY DEF NoLossNoBlame
  <2>1. seqs = <<>> \/ Gapless(seqs)
    BY DEF LinkInv, InTurn
  <2>2. seqs \in Seq(Numbers)
    BY DEF LinkInv, LinkTyped
  <2>3. Len(seqs) \in Nat /\ \A i \in 1 .. Len(seqs) : seqs[i] \in Nat
    BY <2>2, ElementOfSeq, LenProperties, LinkNumbers
  <2>4. CASE Len(seqs) < 2
    BY <2>4 DEF Loss
  <2>5. CASE ~(Len(seqs) < 2)
    <3>1. seqs # <<>>
      BY <2>5
    <3>2. /\ Len(seqs) \in 1 .. Len(seqs) /\ 1 \in 1 .. Len(seqs)
          /\ seqs[Len(seqs)] = seqs[1] + Len(seqs) - 1
      BY <2>1, <2>3, <2>5, <3>1 DEF Gapless
    <3>3. Head(seqs) = seqs[1] /\ Last(seqs) = seqs[Len(seqs)]
      BY <2>2, <3>1 DEF Last
    <3>. QED BY <2>3, <2>5, <3>2, <3>3 DEF Loss
  <2>. QED BY <2>4, <2>5
<1>. QED BY <1>1, LinkKept, PTL
=============================================================================
