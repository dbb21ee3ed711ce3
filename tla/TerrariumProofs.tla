-------------------------- MODULE TerrariumProofs --------------------------
(***************************************************************************)
(* What Terrarium.tla keeps for every set of Rooms and fixtures, every      *)
(* number of loads, and whatever the process is given; and, in the Room     *)
(* that is up, what Music.tla keeps for every score, every set of channels  *)
(* and any number of gestures: who has a channel, and that a Stop is        *)
(* silence.                                                                 *)
(***************************************************************************)
EXTENDS MCTerrarium, Music, FiniteSetTheorems, SequenceTheorems, WellFoundedInduction,
        TLAPS

LoadPcs == {"check", "ready", "bind", "wait", "announce"}

\* While load_room runs it knows its Room and who called it, and from the wait
\* for Arco on an Arco has been spawned.
LoadKnowsItsRoom ==
    /\ pc \in LoadPcs =>
        /\ state = "room_loading"
        /\ loading \in Room
        /\ caller \in {"loop", "bit", "boot"}
    /\ pc \in LoadPcs \ {"check"} => loads >= 1

Typed == TypeOK /\ LoadKnowsItsRoom

\* The fixtures that must be bound are fixtures.
LEMMA FixturesAreFixtures ==
    ASSUME NEW r \in Room
    PROVE  Fixtures(r) \subseteq Fixture
<1>1. Needed[r] \in Seq(Fixture)
  BY TerrariumAssumption DEF TerrariumAssumption
<1> QED
  BY <1>1 DEF Fixtures

\* Which outcome the restart of the clients may have.
LEMMA OutcomeTypes ==
    ASSUME NEW o \in Outcomes
    PROVE  /\ o.at \in {hub, NoHub}
           /\ o.synced \in {hub, synced}
           /\ o.ok \in BOOLEAN
           /\ o.ok => o.at = hub /\ o.synced = hub /\ Reachable
<1>1. \/ Reachable /\ o = [ok |-> TRUE, at |-> hub, synced |-> hub]
      \/ o = [ok |-> FALSE, at |-> NoHub, synced |-> synced]
      \/ o = [ok |-> FALSE, at |-> NoHub, synced |-> hub]
  BY DEF Outcomes
<1>2. CASE Reachable /\ o = [ok |-> TRUE, at |-> hub, synced |-> hub]
  BY <1>2
<1>3. CASE o = [ok |-> FALSE, at |-> NoHub, synced |-> synced]
  BY <1>3
<1>4. CASE o = [ok |-> FALSE, at |-> NoHub, synced |-> hub]
  BY <1>4
<1> QED
  BY <1>1, <1>2, <1>3, <1>4

\* A restart of the clients keeps the types of what it changes.
LEMMA RestartTypes ==
    ASSUME TypeOK, NEW o \in Outcomes, RestartClients(o)
    PROVE  /\ {pool', transport', synced'} \subseteq 0..loads
           /\ stopped' \in BOOLEAN
<1>1. /\ o.at \in {hub, NoHub} /\ o.synced \in {hub, synced}
      /\ o.ok \in BOOLEAN
  BY OutcomeTypes
<1>2. o.at \in 0..loads /\ o.synced \in 0..loads
  BY <1>1 DEF TypeOK, NoHub
<1>3. CASE stopped
  BY <1>1, <1>2, <1>3 DEF RestartClients
<1>4. CASE ~stopped
  BY <1>4 DEF RestartClients, TypeOK, clientVars
<1> QED
  BY <1>3, <1>4

\* So does the wiring that goes with it, at once or late.
LEMMA WiringTypes ==
    ASSUME TypeOK, NEW o \in Outcomes, RestartClients(o),
           \/ Rewire
           \/ pending' = TRUE /\ UNCHANGED <<wired, rewires>>
           \/ UNCHANGED wireVars
    PROVE  /\ {pool', transport', synced'} \subseteq 0..loads
           /\ {stopped', pending'} \subseteq BOOLEAN
           /\ wired' \in Room \cup {None}
           /\ rewires' \in Nat
<1>1. pending' \in BOOLEAN /\ wired' \in Room \cup {None} /\ rewires' \in Nat
  <2>1. CASE Rewire
    <3>1. gsRoom \in Room \cup {None} /\ rewires \in Nat
      BY DEF TypeOK
    <3>2. pending' \in BOOLEAN
      BY <2>1 DEF Rewire
    <3> QED
      BY <2>1, <3>1, <3>2 DEF Rewire
  <2>2. CASE pending' = TRUE /\ UNCHANGED <<wired, rewires>>
    BY <2>2 DEF TypeOK
  <2>3. CASE UNCHANGED wireVars
    BY <2>3 DEF wireVars, TypeOK
  <2> QED
    BY <2>1, <2>2, <2>3
<1> QED
  BY <1>1, RestartTypes

\* A child of a load that has begun is a child.
LEMMA ChildTypes ==
    ASSUME NEW n \in 1..MaxLoads, NEW f \in Fixture \cup {ArcoName}
    PROVE  Child(n, f) \in Children
BY DEF Child, Children

\* Every step keeps the types, and load_room its Room.
LEMMA TypedStep ==
    ASSUME Typed, [Next]_vars
    PROVE  Typed'
<1> USE TerrariumAssumption DEF TypeOK, LoadKnowsItsRoom, LoadPcs, NoHub
<1>0. TypeOK /\ LoadKnowsItsRoom
  BY DEF Typed
<1> SUFFICES TypeOK' /\ LoadKnowsItsRoom'
  BY DEF Typed
<1>1. ASSUME CheckFails PROVE TypeOK' /\ LoadKnowsItsRoom'
  BY <1>0, <1>1 DEF CheckFails, roomVars, childVars, clientVars,
     wireVars, mainVars, Fail
<1>2. ASSUME SpawnArco PROVE TypeOK' /\ LoadKnowsItsRoom'
  <2> DEFINE arco == Child(loads + 1, ArcoName)
  <2>1. loads + 1 \in 1..MaxLoads /\ loads' = loads + 1
    BY <1>0, <1>2 DEF SpawnArco
  <2>2. arco \in Children
    BY <2>1, ChildTypes
  <2>3. alive' \subseteq Children /\ simulated' = simulated /\ pc = "check"
    BY <1>0, <1>2, <2>2 DEF SpawnArco
  <2>4. CASE /\ stack' = PushArco(stack, arco) /\ pc' = "ready"
             /\ UNCHANGED <<roomVars, clientVars, wireVars, main, caller, bit,
                            signalled>>
    <3>1. stack' \in Seq(Children)
      BY <1>0, <2>2, <2>4 DEF PushArco
    <3> HIDE DEF arco
    <3> QED
      BY <1>0, <2>1, <2>3, <2>4, <3>1 DEF roomVars, clientVars, wireVars
  <2>5. CASE Fail /\ UNCHANGED <<stack, signalled>>
    BY <1>0, <2>1, <2>3, <2>5 DEF Fail, roomVars, clientVars, wireVars
  <2>6. CASE signalled' = TRUE /\ Fail /\ UNCHANGED stack
    BY <1>0, <2>1, <2>3, <2>6 DEF Fail, roomVars, clientVars, wireVars
  <2> QED
    BY <1>2, <2>4, <2>5, <2>6 DEF SpawnArco
<1>3. ASSUME ArcoReady PROVE TypeOK' /\ LoadKnowsItsRoom'
  BY <1>0, <1>3 DEF ArcoReady, roomVars, childVars, clientVars,
     wireVars, mainVars
<1>4. ASSUME ArcoNotReady PROVE TypeOK' /\ LoadKnowsItsRoom'
  BY <1>0, <1>4 DEF ArcoNotReady, roomVars, childVars, clientVars,
     wireVars, mainVars, Fail
<1>5. ASSUME BindRecorded PROVE TypeOK' /\ LoadKnowsItsRoom'
  <2>1. /\ loading \in Room /\ state = "room_loading" /\ loads >= 1
        /\ caller \in {"loop", "bit", "boot"}
    BY <1>0, <1>5 DEF BindRecorded
  <2>2. bound' \subseteq Fixture
    BY <1>5, <2>1, FixturesAreFixtures DEF BindRecorded
  <2>3. pc' \in {"announce", "wait"}
    BY <1>5 DEF BindRecorded, AfterBinding
  <2> QED
    BY <1>0, <1>5, <2>1, <2>2, <2>3
    DEF BindRecorded, childVars, clientVars, wireVars
<1>6. ASSUME AllSimulated PROVE TypeOK' /\ LoadKnowsItsRoom'
  BY <1>0, <1>6 DEF AllSimulated, roomVars, childVars, clientVars,
     wireVars, mainVars
<1>7. ASSUME WaitTimeout PROVE TypeOK' /\ LoadKnowsItsRoom'
  BY <1>0, <1>7 DEF WaitTimeout, roomVars, childVars, clientVars,
     wireVars, mainVars, Fail
<1>8. ASSUME Announce PROVE TypeOK' /\ LoadKnowsItsRoom'
  <2>1. /\ room' \in Room \cup {None} /\ state' = "room_ready"
        /\ loading' \in Room \cup {None}
        /\ pc' \in {"idle", "restart", "pool"}
    <3>1. caller \in {"loop", "bit", "boot"}
      BY <1>0, <1>8 DEF Announce
    <3> QED
      BY <1>0, <1>8, <3>1 DEF Announce, Resume
  <2>2. /\ {pool', transport', synced'} \subseteq 0..loads
        /\ {stopped', pending'} \subseteq BOOLEAN
        /\ wired' \in Room \cup {None} /\ rewires' \in Nat
    <3>1. CASE UNCHANGED <<clientVars, wireVars>>
      BY <1>0, <3>1 DEF clientVars, wireVars
    <3>2. CASE \E o \in Outcomes : WireRoom(o)
      <4>1. PICK o \in Outcomes : WireRoom(o)
        BY <3>2
      <4>2. /\ RestartClients(o)
            /\ \/ Rewire
               \/ pending' = TRUE /\ UNCHANGED <<wired, rewires>>
        BY <4>1 DEF WireRoom
      <4> QED
        BY <1>0, <4>2, WiringTypes
    <3> QED
      BY <1>8, <3>1, <3>2 DEF Announce
  <2> QED
    BY <1>0, <1>8, <2>1, <2>2 DEF Announce, childVars
<1>9. ASSUME NEW f \in Fixture, SpawnSimulator(f) PROVE TypeOK' /\ LoadKnowsItsRoom'
  <2>1. Child(loads, f) \in Children
    BY <1>0, <1>9, ChildTypes DEF SpawnSimulator
  <2>2. CASE /\ alive' = alive \cup {Child(loads, f)}
             /\ stack' = Append(stack, Child(loads, f))
             /\ bound' = bound \cup {f}
             /\ UNCHANGED <<state, room, gsRoom, loading, hub, loads, simulated,
                            clientVars, wireVars, mainVars>>
    <3>1. stack' \in Seq(Children) /\ alive' \subseteq Children
      BY <1>0, <2>1, <2>2
    <3> QED
      BY <1>0, <1>9, <2>2, <3>1 DEF clientVars, wireVars, mainVars
  <2>3. CASE Fail /\ UNCHANGED <<childVars, signalled>>
    BY <1>0, <2>3 DEF Fail, roomVars, childVars, clientVars, wireVars
  <2>4. CASE /\ alive' = alive \cup {Child(loads, f)}
             /\ Fail /\ UNCHANGED <<stack, loads, simulated, signalled>>
    BY <1>0, <2>1, <2>4 DEF Fail, roomVars, clientVars, wireVars
  <2> QED
    BY <1>9, <2>2, <2>3, <2>4 DEF SpawnSimulator
<1>10. ASSUME UnwindStep PROVE TypeOK' /\ LoadKnowsItsRoom'
  BY <1>0, <1>10 DEF UnwindStep, roomVars, childVars, clientVars,
     wireVars, mainVars, Pop
<1>11. ASSUME UnwindEnd PROVE TypeOK' /\ LoadKnowsItsRoom'
  <2>1. {room', gsRoom', loading', wired'} \subseteq Room \cup {None}
    BY <1>11 DEF UnwindEnd, ClearRoom, Unwire
  <2>2. /\ pending' \in BOOLEAN /\ rewires' = 0 /\ pc' = "idle"
        /\ bound' = {} /\ hub' = 0 /\ state' = "no_room"
        /\ main' \in {"down", main}
    BY <1>11 DEF UnwindEnd, ClearRoom, Unwire
  <2> QED
    BY <1>0, <1>11, <2>1, <2>2 DEF UnwindEnd, childVars, clientVars
<1>12. ASSUME Save PROVE TypeOK' /\ LoadKnowsItsRoom'
  BY <1>0, <1>12 DEF Save, roomVars, childVars, clientVars,
     wireVars, mainVars
<1>13. ASSUME BootRoomless PROVE TypeOK' /\ LoadKnowsItsRoom'
  BY <1>0, <1>13 DEF BootRoomless, roomVars, childVars, clientVars,
     wireVars, mainVars
<1>14. ASSUME BootPool PROVE TypeOK' /\ LoadKnowsItsRoom'
  <2>1. CASE /\ pool' = hub /\ synced' = hub
             /\ wired' = gsRoom /\ rewires' = 1
             /\ bit' \in BOOLEAN
             /\ main' = "start" /\ pc' = "transport"
             /\ UNCHANGED <<roomVars, childVars, transport, stopped, pending,
                            caller, signalled>>
    BY <1>0, <2>1 DEF roomVars, childVars
  <2>2. CASE /\ BeginUnload("boot")
             /\ UNCHANGED <<clientVars, wireVars, main, signalled>>
    BY <1>0, <2>2 DEF BeginUnload, childVars, clientVars, wireVars
  <2> QED
    BY <1>14, <2>1, <2>2 DEF BootPool
<1>15. ASSUME BootTransport PROVE TypeOK' /\ LoadKnowsItsRoom'
  BY <1>0, <1>15 DEF BootTransport, roomVars, childVars, clientVars,
     wireVars, mainVars
<1>16. ASSUME LoadBitResumes PROVE TypeOK' /\ LoadKnowsItsRoom'
  <2>1. PICK o \in Outcomes :
          /\ RestartClients(o) /\ OnClientsRestarted(o)
          /\ \/ pc' = "idle" /\ bit' \in BOOLEAN /\ UNCHANGED main
                /\ UNCHANGED <<roomVars, childVars, caller>>
             \/ BeginUnload("loop") /\ UNCHANGED main
    BY <1>16 DEF LoadBitResumes, RestartOr
  <2>2. /\ {pool', transport', synced'} \subseteq 0..loads
        /\ {stopped', pending'} \subseteq BOOLEAN
        /\ wired' \in Room \cup {None} /\ rewires' \in Nat
    BY <1>0, <2>1, WiringTypes DEF OnClientsRestarted
  <2>3. signalled' = signalled
    BY <1>16 DEF LoadBitResumes
  <2>4. CASE /\ pc' = "idle" /\ bit' \in BOOLEAN /\ UNCHANGED main
             /\ UNCHANGED <<roomVars, childVars, caller>>
    BY <1>0, <1>16, <2>2, <2>3, <2>4 DEF LoadBitResumes, roomVars, childVars
  <2>5. CASE BeginUnload("loop") /\ UNCHANGED main
    BY <1>0, <2>2, <2>3, <2>5 DEF BeginUnload, childVars
  <2> QED
    BY <2>1, <2>4, <2>5
<1>17. ASSUME Lap PROVE TypeOK' /\ LoadKnowsItsRoom'
  <2>1. PICK o \in Outcomes :
          /\ RestartClients(o) /\ OnClientsRestarted(o)
          /\ \/ main' = "serve" /\ UNCHANGED <<pc, bit>>
                /\ UNCHANGED <<roomVars, childVars, caller>>
             \/ BeginUnload("loop") /\ UNCHANGED main
    BY <1>17 DEF Lap, RestartOr
  <2>2. /\ {pool', transport', synced'} \subseteq 0..loads
        /\ {stopped', pending'} \subseteq BOOLEAN
        /\ wired' \in Room \cup {None} /\ rewires' \in Nat
    BY <1>0, <2>1, WiringTypes DEF OnClientsRestarted
  <2>3. signalled' = signalled
    BY <1>17 DEF Lap
  <2>4. CASE /\ main' = "serve" /\ UNCHANGED <<pc, bit>>
             /\ UNCHANGED <<roomVars, childVars, caller>>
    BY <1>0, <1>17, <2>2, <2>3, <2>4 DEF Lap, roomVars, childVars
  <2>5. CASE BeginUnload("loop") /\ UNCHANGED main
    BY <1>0, <2>2, <2>3, <2>5 DEF BeginUnload, childVars
  <2> QED
    BY <2>1, <2>4, <2>5
<1>18. ASSUME ArcoExited PROVE TypeOK' /\ LoadKnowsItsRoom'
  BY <1>0, <1>18 DEF ArcoExited, roomVars, childVars, clientVars,
     wireVars, mainVars
<1>19. ASSUME CloseClients PROVE TypeOK' /\ LoadKnowsItsRoom'
  BY <1>0, <1>19 DEF CloseClients, roomVars, childVars, clientVars,
     wireVars, mainVars
<1>20. ASSUME CloseRoom PROVE TypeOK' /\ LoadKnowsItsRoom'
  BY <1>0, <1>20 DEF CloseRoom, roomVars, childVars, clientVars,
     wireVars, mainVars, BeginUnload
<1>21. ASSUME NEW r \in Room, BootRoom(r) PROVE TypeOK' /\ LoadKnowsItsRoom'
  BY <1>0, <1>21 DEF BootRoom, roomVars, childVars, clientVars,
     wireVars, mainVars, BeginLoad
<1>22. ASSUME NEW r \in Room, LoadRoomCommand(r) PROVE TypeOK' /\ LoadKnowsItsRoom'
  BY <1>0, <1>22 DEF LoadRoomCommand, roomVars, childVars, clientVars,
     wireVars, mainVars, BeginLoad
<1>23. ASSUME NEW r \in Room, LoadBitWithRoom(r) PROVE TypeOK' /\ LoadKnowsItsRoom'
  BY <1>0, <1>23 DEF LoadBitWithRoom, roomVars, childVars, clientVars,
     wireVars, mainVars, BeginLoad
<1>24. ASSUME LoadBit PROVE TypeOK' /\ LoadKnowsItsRoom'
  <2>1. bit' \in BOOLEAN
    BY <1>24 DEF LoadBit
  <2>2. UNCHANGED <<roomVars, childVars, clientVars, wireVars, main, pc, caller,
                    signalled>>
    BY <1>24 DEF LoadBit
  <2> QED
    BY <1>0, <2>1, <2>2 DEF roomVars, childVars, clientVars, wireVars
<1>25. ASSUME RoundEnds PROVE TypeOK' /\ LoadKnowsItsRoom'
  <2>1. bit' \in BOOLEAN
    BY <1>25 DEF RoundEnds
  <2>2. UNCHANGED <<roomVars, childVars, clientVars, wireVars, main, pc, caller,
                    signalled>>
    BY <1>25 DEF RoundEnds
  <2> QED
    BY <1>0, <2>1, <2>2 DEF roomVars, childVars, clientVars, wireVars
<1>26. ASSUME AbortCommand PROVE TypeOK' /\ LoadKnowsItsRoom'
  BY <1>0, <1>26 DEF AbortCommand, roomVars, childVars, clientVars,
     wireVars, mainVars, BeginUnload
<1>27. ASSUME NEW force \in BOOLEAN, UnloadRoomCommand(force)
       PROVE  TypeOK' /\ LoadKnowsItsRoom'
  BY <1>0, <1>27 DEF UnloadRoomCommand, roomVars, childVars, clientVars,
     wireVars, mainVars, BeginUnload
<1>28. ASSUME NEW f \in Fixture, WaitTap(f) PROVE TypeOK' /\ LoadKnowsItsRoom'
  BY <1>0, <1>28 DEF WaitTap, roomVars, childVars, clientVars,
     wireVars, mainVars, AfterBinding
<1>29. ASSUME ArcoCrashes PROVE TypeOK' /\ LoadKnowsItsRoom'
  BY <1>0, <1>29 DEF ArcoCrashes, roomVars, childVars, clientVars,
     wireVars, mainVars
<1>30. ASSUME SignalInLoop PROVE TypeOK' /\ LoadKnowsItsRoom'
  BY <1>0, <1>30 DEF SignalInLoop, roomVars, childVars, clientVars,
     wireVars, mainVars
<1>31. ASSUME SignalInLoad PROVE TypeOK' /\ LoadKnowsItsRoom'
  BY <1>0, <1>31 DEF SignalInLoad, roomVars, childVars, clientVars,
     wireVars, mainVars, Fail
<1>32. ASSUME AnnounceInterrupted PROVE TypeOK' /\ LoadKnowsItsRoom'
  <2>1. /\ {pool', transport', synced'} \subseteq 0..loads
        /\ {stopped', pending'} \subseteq BOOLEAN
        /\ wired' \in Room \cup {None} /\ rewires' \in Nat
    <3>1. CASE /\ pool' = hub /\ synced' = hub
               /\ UNCHANGED <<transport, stopped, wireVars>>
      BY <1>0, <3>1 DEF wireVars
    <3>2. CASE \E o \in Outcomes : WireRoom(o)
      <4>1. PICK o \in Outcomes : WireRoom(o)
        BY <3>2
      <4>2. /\ RestartClients(o)
            /\ \/ Rewire
               \/ pending' = TRUE /\ UNCHANGED <<wired, rewires>>
        BY <4>1 DEF WireRoom
      <4> QED
        BY <1>0, <4>2, WiringTypes
    <3> QED
      BY <1>32, <3>1, <3>2 DEF AnnounceInterrupted
  <2>2. /\ room' \in Room \cup {None} /\ state' = "room_ready"
        /\ signalled' = TRUE /\ pc' = "unwind"
    BY <1>0, <1>32 DEF AnnounceInterrupted
  <2> QED
    BY <1>0, <1>32, <2>1, <2>2 DEF AnnounceInterrupted, childVars
<1>33. ASSUME UNCHANGED vars PROVE TypeOK' /\ LoadKnowsItsRoom'
  BY <1>0, <1>33 DEF vars, roomVars, childVars, clientVars, wireVars, mainVars
<1> QED
  BY <1>1, <1>2, <1>3, <1>4, <1>5, <1>6, <1>7, <1>8, <1>9, <1>10, <1>11,
     <1>12, <1>13, <1>14, <1>15, <1>16, <1>17, <1>18, <1>19, <1>20, <1>21,
     <1>22, <1>23, <1>24, <1>25, <1>26, <1>27, <1>28, <1>29, <1>30, <1>31,
     <1>32, <1>33
  DEF Next, LoadStep, UnloadStep, HarnessStep, Command, Tap, Accident

\* They hold at first.
LEMMA InitTyped == Init => Typed
<1> SUFFICES ASSUME Init PROVE TypeOK /\ LoadKnowsItsRoom
  BY DEF Typed
<1>1. {stopped, pending, bit, signalled, simulated} \subseteq BOOLEAN
  BY TerrariumAssumption DEF Init, TerrariumAssumption
<1>2. loads \in 0..MaxLoads
  BY TerrariumAssumption DEF Init, TerrariumAssumption
<1> QED
  BY <1>1, <1>2 DEF Init, TypeOK, LoadKnowsItsRoom, LoadPcs, NoHub

\* The type invariant, with every accident.
THEOREM TypeCorrect == Spec => []TypeOK
<1>1. Init => Typed
  BY InitTyped
<1>2. Typed /\ [Next]_vars => Typed'
  BY TypedStep
<1>3. Typed => TypeOK
  BY DEF Typed
<1> QED
  BY <1>1, <1>2, <1>3, PTL DEF Spec

-----------------------------------------------------------------------------
(* Nothing is orphaned, when no step between a spawn and its push can raise  *)
(* and no save of the recorded bindings can fail.                           *)

CleanSpawns == Accidents \cap {"settle", "record", "store"} = {}

\* Where there is no Room the stack is empty, and where the process has ended
\* there is no Room.
StackFollowsState ==
    /\ pc = "idle" => state \in {"no_room", "room_ready"}
    /\ pc \in {"pool", "transport", "restart"} => state = "room_ready"
    /\ state = "no_room" => stack = <<>>
    /\ main = "down" => state = "no_room"

Accounted == alive \subseteq OnStack

\* A child that is pushed as it is spawned is accounted for.
LEMMA PushAccounts ==
    ASSUME TypeOK, Accounted, NEW c,
           alive' = alive \cup {c}, stack' = Append(stack, c)
    PROVE  Accounted'
<1>1. stack \in Seq(Children)
  BY DEF TypeOK
<1>2. /\ Len(stack) \in Nat /\ Len(stack') = Len(stack) + 1
      /\ stack'[Len(stack) + 1] = c
      /\ \A i \in DOMAIN stack : i \in DOMAIN stack' /\ stack'[i] = stack[i]
      /\ Len(stack) + 1 \in DOMAIN stack'
  BY <1>1
<1>3. OnStack \subseteq OnStack' /\ c \in OnStack'
  BY <1>2 DEF OnStack
<1> QED
  BY <1>3 DEF Accounted

\* The child whose step is run is stopped.
LEMMA PopAccounts ==
    ASSUME TypeOK, Accounted, Pop
    PROVE  Accounted'
<1>1. stack \in Seq(Children) /\ stack # <<>>
  BY DEF TypeOK, Pop
<1>2. /\ Len(stack) \in Nat \ {0}
      /\ DOMAIN stack = 1..Len(stack)
  BY <1>1
<1>3. /\ DOMAIN stack' = 1..(Len(stack) - 1)
      /\ \A i \in 1..(Len(stack) - 1) : stack'[i] = stack[i]
  BY <1>1, <1>2 DEF Pop
<1>4. ASSUME NEW c \in alive' PROVE c \in OnStack'
  <2>1. c \in alive /\ c # stack[Len(stack)]
    BY <1>4 DEF Pop
  <2>2. PICK i \in DOMAIN stack : c = stack[i]
    BY <2>1 DEF Accounted, OnStack
  <2>3. i \in 1..(Len(stack) - 1)
    BY <1>2, <2>1, <2>2
  <2> QED
    BY <1>3, <2>2, <2>3 DEF OnStack
<1> QED
  BY <1>4 DEF Accounted

\* The stack follows the state.
LEMMA StackStep ==
    ASSUME CleanSpawns, Typed, StackFollowsState, [Next]_vars
    PROVE  StackFollowsState'
<1> USE DEF StackFollowsState
<1>0. LoadKnowsItsRoom
  BY DEF Typed
<1>1. ASSUME CheckFails PROVE StackFollowsState'
  BY <1>0, <1>1 DEF CheckFails, roomVars, childVars, mainVars, Fail
<1>2. ASSUME SpawnArco PROVE StackFollowsState'
  BY <1>0, <1>2 DEF SpawnArco, roomVars, childVars, mainVars, Fail,
     LoadKnowsItsRoom, LoadPcs, CleanSpawns
<1>3. ASSUME ArcoReady PROVE StackFollowsState'
  BY <1>0, <1>3 DEF ArcoReady, roomVars, childVars, mainVars
<1>4. ASSUME ArcoNotReady PROVE StackFollowsState'
  BY <1>0, <1>4 DEF ArcoNotReady, roomVars, childVars, mainVars, Fail
<1>5. ASSUME BindRecorded PROVE StackFollowsState'
  BY <1>0, <1>5 DEF BindRecorded, roomVars, childVars, mainVars,
     AfterBinding
<1>6. ASSUME AllSimulated PROVE StackFollowsState'
  BY <1>0, <1>6 DEF AllSimulated, roomVars, childVars, mainVars
<1>7. ASSUME WaitTimeout PROVE StackFollowsState'
  BY <1>0, <1>7 DEF WaitTimeout, roomVars, childVars, mainVars, Fail
<1>8. ASSUME Announce PROVE StackFollowsState'
  BY <1>0, <1>8 DEF Announce, roomVars, childVars, mainVars, Resume,
     LoadKnowsItsRoom, LoadPcs
<1>9. ASSUME NEW f \in Fixture, SpawnSimulator(f) PROVE StackFollowsState'
  BY <1>0, <1>9 DEF SpawnSimulator, roomVars, childVars, mainVars, Fail,
     LoadKnowsItsRoom, LoadPcs, CleanSpawns
<1>10. ASSUME UnwindStep PROVE StackFollowsState'
  BY <1>0, <1>10 DEF UnwindStep, roomVars, childVars, mainVars, Pop
<1>11. ASSUME UnwindEnd PROVE StackFollowsState'
  BY <1>0, <1>11 DEF UnwindEnd, roomVars, childVars, mainVars, ClearRoom
<1>12. ASSUME Save PROVE StackFollowsState'
  BY <1>0, <1>12 DEF Save, roomVars, childVars, mainVars, CleanSpawns
<1>13. ASSUME BootRoomless PROVE StackFollowsState'
  BY <1>0, <1>13 DEF BootRoomless, roomVars, childVars, mainVars
<1>14. ASSUME BootPool PROVE StackFollowsState'
  BY <1>0, <1>14 DEF BootPool, roomVars, childVars, mainVars, BeginUnload
<1>15. ASSUME BootTransport PROVE StackFollowsState'
  BY <1>0, <1>15 DEF BootTransport, roomVars, childVars, mainVars
<1>16. ASSUME LoadBitResumes PROVE StackFollowsState'
  BY <1>0, <1>16 DEF LoadBitResumes, roomVars, childVars, mainVars,
     RestartOr, BeginUnload
<1>17. ASSUME Lap PROVE StackFollowsState'
  BY <1>0, <1>17 DEF Lap, roomVars, childVars, mainVars,
     RestartOr, BeginUnload
<1>18. ASSUME ArcoExited PROVE StackFollowsState'
  BY <1>0, <1>18 DEF ArcoExited, roomVars, childVars, mainVars
<1>19. ASSUME CloseClients PROVE StackFollowsState'
  BY <1>0, <1>19 DEF CloseClients, roomVars, childVars, mainVars
<1>20. ASSUME CloseRoom PROVE StackFollowsState'
  BY <1>0, <1>20 DEF CloseRoom, roomVars, childVars, mainVars, BeginUnload
<1>21. ASSUME NEW r \in Room, BootRoom(r) PROVE StackFollowsState'
  BY <1>0, <1>21 DEF BootRoom, roomVars, childVars, mainVars, BeginLoad
<1>22. ASSUME NEW r \in Room, LoadRoomCommand(r) PROVE StackFollowsState'
  BY <1>0, <1>22 DEF LoadRoomCommand, roomVars, childVars, mainVars,
     BeginLoad, Polling
<1>23. ASSUME NEW r \in Room, LoadBitWithRoom(r) PROVE StackFollowsState'
  BY <1>0, <1>23 DEF LoadBitWithRoom, roomVars, childVars, mainVars,
     BeginLoad, Polling
<1>24. ASSUME LoadBit PROVE StackFollowsState'
  BY <1>0, <1>24 DEF LoadBit, roomVars, childVars, mainVars
<1>25. ASSUME RoundEnds PROVE StackFollowsState'
  BY <1>0, <1>25 DEF RoundEnds, roomVars, childVars, mainVars
<1>26. ASSUME AbortCommand PROVE StackFollowsState'
  BY <1>0, <1>26 DEF AbortCommand, roomVars, childVars, mainVars,
     BeginUnload
<1>27. ASSUME NEW force \in BOOLEAN, UnloadRoomCommand(force)
       PROVE  StackFollowsState'
  BY <1>0, <1>27 DEF UnloadRoomCommand, roomVars, childVars, mainVars,
     BeginUnload
<1>28. ASSUME NEW f \in Fixture, WaitTap(f) PROVE StackFollowsState'
  BY <1>0, <1>28 DEF WaitTap, roomVars, childVars, mainVars, AfterBinding
<1>29. ASSUME ArcoCrashes PROVE StackFollowsState'
  BY <1>0, <1>29 DEF ArcoCrashes, roomVars, childVars, mainVars
<1>30. ASSUME SignalInLoop PROVE StackFollowsState'
  BY <1>0, <1>30 DEF SignalInLoop, roomVars, childVars, mainVars
<1>31. ASSUME SignalInLoad PROVE StackFollowsState'
  BY <1>0, <1>31 DEF SignalInLoad, roomVars, childVars, mainVars, Fail
<1>32. ASSUME AnnounceInterrupted PROVE StackFollowsState'
  BY <1>0, <1>32 DEF AnnounceInterrupted, roomVars, childVars, mainVars,
     LoadKnowsItsRoom, LoadPcs
<1>33. ASSUME UNCHANGED vars PROVE StackFollowsState'
  BY <1>0, <1>33 DEF vars, roomVars, childVars, mainVars
<1> QED
  BY <1>1, <1>2, <1>3, <1>4, <1>5, <1>6, <1>7, <1>8, <1>9, <1>10, <1>11,
     <1>12, <1>13, <1>14, <1>15, <1>16, <1>17, <1>18, <1>19, <1>20, <1>21,
     <1>22, <1>23, <1>24, <1>25, <1>26, <1>27, <1>28, <1>29, <1>30, <1>31,
     <1>32, <1>33
  DEF Next, LoadStep, UnloadStep, HarnessStep, Command, Tap, Accident

\* Whatever is spawned is pushed; whatever is stopped was on the stack.
LEMMA AccountedStep ==
    ASSUME CleanSpawns, Typed, Accounted, [Next]_vars
    PROVE  Accounted'
<1>0. TypeOK /\ LoadKnowsItsRoom
  BY DEF Typed
<1>1. ASSUME SpawnArco PROVE Accounted'
  <2>1. stack' = Append(stack, Child(loads + 1, ArcoName))
        /\ alive' = alive \cup {Child(loads + 1, ArcoName)}
    BY <1>1 DEF SpawnArco, PushArco, CleanSpawns
  <2> QED
    BY <1>0, <2>1, PushAccounts
<1>2. ASSUME NEW f \in Fixture, SpawnSimulator(f) PROVE Accounted'
  <2>1. CASE /\ alive' = alive \cup {Child(loads, f)}
             /\ stack' = Append(stack, Child(loads, f))
    BY <1>0, <2>1, PushAccounts
  <2>2. CASE UNCHANGED childVars
    BY <2>2 DEF childVars, Accounted, OnStack
  <2> QED
    BY <1>2, <2>1, <2>2 DEF SpawnSimulator, CleanSpawns
<1>3. ASSUME UnwindStep PROVE Accounted'
  BY <1>0, <1>3, PopAccounts DEF UnwindStep
<1>4. ASSUME ArcoCrashes PROVE Accounted'
  BY <1>4 DEF ArcoCrashes, Accounted, OnStack
<1>5. ASSUME UNCHANGED <<stack, alive>> PROVE Accounted'
  BY <1>5 DEF Accounted, OnStack
<1>6. ASSUME CheckFails \/ ArcoReady \/ ArcoNotReady \/ BindRecorded
                 \/ AllSimulated \/ WaitTimeout \/ Announce
      PROVE  UNCHANGED <<stack, alive>>
  BY <1>6 DEF CheckFails, ArcoReady, ArcoNotReady, BindRecorded,
     AllSimulated, WaitTimeout, Announce, childVars, Fail
<1>7. ASSUME UnwindEnd \/ Save PROVE UNCHANGED <<stack, alive>>
  BY <1>7 DEF UnwindEnd, Save, childVars, ClearRoom
<1>8. ASSUME BootRoomless \/ BootPool \/ BootTransport \/ LoadBitResumes
                 \/ Lap \/ ArcoExited \/ CloseClients \/ CloseRoom
      PROVE  UNCHANGED <<stack, alive>>
  BY <1>8 DEF BootRoomless, BootPool, BootTransport, LoadBitResumes, Lap,
     ArcoExited, CloseClients, CloseRoom, childVars, BeginUnload, RestartOr
<1>9. ASSUME LoadBit \/ RoundEnds \/ AbortCommand PROVE UNCHANGED <<stack, alive>>
  BY <1>9 DEF LoadBit, RoundEnds, AbortCommand, childVars, BeginUnload
<1>10. ASSUME SignalInLoop \/ SignalInLoad \/ AnnounceInterrupted
       PROVE  UNCHANGED <<stack, alive>>
  BY <1>10 DEF SignalInLoop, SignalInLoad, AnnounceInterrupted, childVars,
     Fail
<1>11. ASSUME NEW r \in Room,
              BootRoom(r) \/ LoadRoomCommand(r) \/ LoadBitWithRoom(r)
      PROVE  UNCHANGED <<stack, alive>>
  BY <1>11 DEF BootRoom, LoadRoomCommand, LoadBitWithRoom, childVars
<1>12. ASSUME NEW force \in BOOLEAN, UnloadRoomCommand(force)
      PROVE  UNCHANGED <<stack, alive>>
  BY <1>12 DEF UnloadRoomCommand, BeginUnload, childVars
<1>13. ASSUME NEW f \in Fixture, WaitTap(f) PROVE UNCHANGED <<stack, alive>>
  BY <1>13 DEF WaitTap, childVars
<1>14. ASSUME UNCHANGED vars PROVE UNCHANGED <<stack, alive>>
  BY <1>14 DEF vars, childVars
<1> QED
  BY <1>1, <1>2, <1>3, <1>4, <1>5, <1>6, <1>7, <1>8, <1>9, <1>10, <1>11, <1>12,
     <1>13, <1>14
  DEF Next, LoadStep, UnloadStep, HarnessStep, Command, Tap, Accident

\* Every child that runs is on the stack that will stop it, and none runs once
\* the process is down.  Runs with the other accidents show that each of them
\* orphans a child.
THEOREM NothingIsOrphaned ==
    ASSUME CleanSpawns
    PROVE  Spec => []NoOrphans
<1> DEFINE Inv == Typed /\ StackFollowsState /\ Accounted
<1>1. Init => StackFollowsState /\ Accounted
  BY DEF Init, StackFollowsState, Accounted
<1>2. ASSUME Inv, [Next]_vars PROVE StackFollowsState' /\ Accounted'
  BY <1>2, StackStep, AccountedStep
<1>3. ASSUME Inv PROVE NoOrphans
  <2>1. stack = <<>> => OnStack = {}
    BY DEF OnStack
  <2> QED
    BY <1>3, <2>1 DEF NoOrphans, Accounted, StackFollowsState
<1>4. Init => Typed
  BY InitTyped
<1>5. Inv /\ [Next]_vars => Typed'
  BY TypedStep
<1> QED
  BY <1>1, <1>2, <1>3, <1>4, <1>5, PTL DEF Spec

-----------------------------------------------------------------------------
(* A Room that is served has live clients of its own Arco and was wired      *)
(* once, unless the announcement of a ready Room is interrupted.             *)

\* The clients are up on this Room's Arco and the agent is wired to the Room.
Live ==
    /\ ~stopped /\ pool = hub /\ transport = hub
    /\ wired = gsRoom /\ rewires = 1 /\ ~pending

\* They are down, and the agent has no Room.
Down == stopped /\ wired = None /\ rewires = 0

\* A boot loads one Room; until its pool is up nothing else is wired.
BootIsOneLoad ==
    /\ main = "boot" => ~stopped /\ ~pending
    /\ main = "boot" /\ pc = "idle" =>
        state = "no_room" /\ wired = None /\ rewires = 0
    /\ main = "boot" /\ pc \in {"unwind", "save", "close"} => caller = "boot"
    /\ main = "boot" \/ pc = "pool" => caller = "boot" \/ pc = "idle"
    /\ pc = "transport" =>
        /\ room = gsRoom /\ ~stopped /\ pool = hub
        /\ wired = gsRoom /\ rewires = 1 /\ ~pending

\* Where main() is when load_room, or what follows it, runs; the Room it loads
\* and the Room that is ready are GameServer's.
LoadsWhereItMay ==
    /\ pc \in LoadPcs => main = IF caller = "boot" THEN "boot" ELSE "wait"
    /\ pc = "pool" => main = "boot"
    /\ pc = "restart" => main = "wait"
    /\ main = "start" <=> pc = "transport"
    /\ pc \in {"bind", "wait", "announce"} => gsRoom = loading
    /\ pc \in {"pool", "transport", "restart"} => state = "room_ready"
    /\ pc = "pool" => room = gsRoom

\* The clients of a process that waits for a Room or serves one.
ClientsFollowRoom ==
    /\ main = "serve" =>
        pc = "idle" /\ state = "room_ready" /\ room = gsRoom /\ Live
    /\ main = "wait" =>
        /\ state = "no_room" \/ pc \in LoadPcs => Down /\ ~pending
        /\ pc \in {"unwind", "save", "close"} => stopped
        /\ state = "room_ready" /\ pc \in {"idle", "restart"} =>
            room = gsRoom /\ ((Down /\ pending) \/ Live)

RoomService == BootIsOneLoad /\ LoadsWhereItMay /\ ClientsFollowRoom

\* A late restart of the clients finishes the wiring, or leaves them down.
LEMMA RestartOutcome ==
    ASSUME NEW o \in Outcomes, RestartClients(o), OnClientsRestarted(o),
           (Down /\ pending) \/ Live, UNCHANGED <<hub, gsRoom>>
    PROVE  /\ o.ok \/ ~stopped => Live'
           /\ ~(o.ok \/ ~stopped) => stopped'
<1>1. o.ok \in BOOLEAN /\ (o.ok => o.at = hub)
  BY OutcomeTypes
<1>2. CASE Down /\ pending /\ o.ok
  <2>1. ~stopped' /\ pool' = hub /\ transport' = hub
    BY <1>1, <1>2 DEF RestartClients, Down
  <2>2. Rewire
    BY <1>2 DEF OnClientsRestarted, Down
  <2> QED
    BY <1>2, <2>1, <2>2 DEF Rewire, Down, Live
<1>3. CASE Down /\ ~o.ok
  BY <1>3 DEF RestartClients, Down
<1>4. CASE Live
  BY <1>4 DEF RestartClients, OnClientsRestarted, Live, clientVars, wireVars
<1> QED
  BY <1>2, <1>3, <1>4

\* A Room that becomes ready is wired, or its wiring is due.
LEMMA WireOutcome ==
    ASSUME NEW o \in Outcomes, WireRoom(o), Down, UNCHANGED <<hub, gsRoom>>
    PROVE  (Down' /\ pending') \/ Live'
<1>1. o.ok \in BOOLEAN /\ (o.ok => o.at = hub)
  BY OutcomeTypes
<1>2. CASE o.ok
  <2>1. ~stopped' /\ pool' = hub /\ transport' = hub
    BY <1>1, <1>2 DEF WireRoom, RestartClients, Down
  <2>2. Rewire
    BY <1>2 DEF WireRoom
  <2> QED
    BY <1>2, <2>1, <2>2 DEF Rewire, Down, Live
<1>3. CASE ~o.ok
  BY <1>3 DEF WireRoom, RestartClients, Down
<1> QED
  BY <1>2, <1>3

\* Every step keeps all of it.
LEMMA ServiceStep ==
    ASSUME "late" \notin Accidents, Typed, RoomService, [Next]_vars
    PROVE  RoomService'
<1> USE DEF RoomService, BootIsOneLoad, LoadsWhereItMay, ClientsFollowRoom
<1>0. LoadKnowsItsRoom
  BY DEF Typed
<1>1. ASSUME CheckFails PROVE RoomService'
  BY <1>0, <1>1 DEF CheckFails, roomVars, childVars, clientVars, wireVars,
     mainVars, Live, Down, LoadPcs, Fail, LoadKnowsItsRoom
<1>2. ASSUME SpawnArco PROVE RoomService'
  BY <1>0, <1>2 DEF SpawnArco, roomVars, childVars, clientVars, wireVars,
     mainVars, Live, Down, LoadPcs, Fail, LoadKnowsItsRoom
<1>3. ASSUME ArcoReady PROVE RoomService'
  BY <1>0, <1>3 DEF ArcoReady, roomVars, childVars, clientVars, wireVars,
     mainVars, Live, Down, LoadPcs, LoadKnowsItsRoom
<1>4. ASSUME ArcoNotReady PROVE RoomService'
  BY <1>0, <1>4 DEF ArcoNotReady, roomVars, childVars, clientVars,
     wireVars, mainVars, Live, Down, LoadPcs, Fail, LoadKnowsItsRoom
<1>5. ASSUME BindRecorded PROVE RoomService'
  BY <1>0, <1>5 DEF BindRecorded, roomVars, childVars, clientVars,
     wireVars, mainVars, Live, Down, LoadPcs, AfterBinding, LoadKnowsItsRoom
<1>6. ASSUME AllSimulated PROVE RoomService'
  BY <1>0, <1>6 DEF AllSimulated, roomVars, childVars, clientVars,
     wireVars, mainVars, Live, Down, LoadPcs, LoadKnowsItsRoom
<1>7. ASSUME WaitTimeout PROVE RoomService'
  BY <1>0, <1>7 DEF WaitTimeout, roomVars, childVars, clientVars, wireVars,
     mainVars, Live, Down, LoadPcs, Fail, LoadKnowsItsRoom
<1>8. ASSUME Announce PROVE RoomService'
  <2>1. CASE main = "boot"
    BY <1>0, <1>8, <2>1 DEF Announce, Resume, clientVars, wireVars,
       LoadKnowsItsRoom, LoadPcs
  <2>2. CASE main = "wait"
    <3>1. PICK o \in Outcomes : WireRoom(o)
      BY <1>8, <2>2 DEF Announce
    <3>2. (Down' /\ pending') \/ Live'
      BY <1>8, <2>2, <3>1, WireOutcome DEF Announce, LoadPcs
    <3>3. /\ state' = "room_ready" /\ room' = gsRoom' /\ main' = "wait"
          /\ pc' \in {"idle", "restart"}
      BY <1>0, <1>8, <2>2 DEF Announce, Resume, LoadKnowsItsRoom, LoadPcs
    <3> QED
      BY <3>2, <3>3 DEF LoadPcs
  <2> QED
    BY <1>8, <2>1, <2>2 DEF Announce, LoadPcs
<1>9. ASSUME NEW f \in Fixture, SpawnSimulator(f) PROVE RoomService'
  <2>1. /\ pc = "bind" /\ pc' \in {"bind", "unwind"}
        /\ UNCHANGED <<state, room, gsRoom, loading, hub>>
        /\ UNCHANGED <<clientVars, wireVars, main, caller>>
    BY <1>9 DEF SpawnSimulator, Fail, roomVars, mainVars
  <2> QED
    BY <1>0, <2>1 DEF clientVars, wireVars, Live, Down, LoadPcs,
       LoadKnowsItsRoom
<1>10. ASSUME UnwindStep PROVE RoomService'
  BY <1>0, <1>10 DEF UnwindStep, roomVars, childVars, clientVars, wireVars,
     mainVars, Live, Down, LoadPcs, LoadKnowsItsRoom
<1>11. ASSUME UnwindEnd PROVE RoomService'
  BY <1>0, <1>11 DEF UnwindEnd, roomVars, childVars, clientVars, wireVars,
     mainVars, Live, Down, LoadPcs, ClearRoom, Unwire, LoadKnowsItsRoom
<1>12. ASSUME Save PROVE RoomService'
  BY <1>0, <1>12 DEF Save, roomVars, childVars, clientVars, wireVars,
     mainVars, Live, Down, LoadPcs, LoadKnowsItsRoom
<1>13. ASSUME BootRoomless PROVE RoomService'
  BY <1>0, <1>13 DEF BootRoomless, roomVars, childVars, clientVars,
     wireVars, mainVars, Live, Down, LoadPcs, LoadKnowsItsRoom
<1>14. ASSUME BootPool PROVE RoomService'
  BY <1>0, <1>14 DEF BootPool, roomVars, childVars, clientVars, wireVars,
     mainVars, Live, Down, LoadPcs, BeginUnload, LoadKnowsItsRoom
<1>15. ASSUME BootTransport PROVE RoomService'
  BY <1>0, <1>15 DEF BootTransport, roomVars, childVars, clientVars,
     wireVars, mainVars, Live, Down, LoadPcs, LoadKnowsItsRoom
<1>16. ASSUME LoadBitResumes PROVE RoomService'
  <2>1. PICK o \in Outcomes :
          /\ RestartClients(o) /\ OnClientsRestarted(o)
          /\ IF o.ok \/ ~stopped
             THEN /\ pc' = "idle" /\ bit' \in BOOLEAN /\ UNCHANGED main
                  /\ UNCHANGED <<roomVars, childVars, caller>>
             ELSE BeginUnload("loop") /\ UNCHANGED main
    BY <1>16 DEF LoadBitResumes, RestartOr
  <2>2. main = "wait" /\ state = "room_ready" /\ room = gsRoom
        /\ ((Down /\ pending) \/ Live) /\ UNCHANGED <<room, hub, gsRoom>>
    BY <1>16, <2>1 DEF LoadBitResumes, BeginUnload, roomVars
  <2>3. /\ o.ok \/ ~stopped => Live'
        /\ ~(o.ok \/ ~stopped) => stopped'
    BY <2>1, <2>2, RestartOutcome
  <2>4. CASE o.ok \/ ~stopped
    BY <1>16, <2>1, <2>2, <2>3, <2>4 DEF LoadBitResumes, roomVars, LoadPcs
  <2>5. CASE ~(o.ok \/ ~stopped)
    BY <1>16, <2>1, <2>2, <2>3, <2>5 DEF LoadBitResumes, BeginUnload, LoadPcs
  <2> QED
    BY <2>4, <2>5
<1>17. ASSUME Lap PROVE RoomService'
  <2>1. PICK o \in Outcomes :
          /\ RestartClients(o) /\ OnClientsRestarted(o)
          /\ IF o.ok \/ ~stopped
             THEN /\ main' = "serve" /\ UNCHANGED <<pc, bit>>
                  /\ UNCHANGED <<roomVars, childVars, caller>>
             ELSE BeginUnload("loop") /\ UNCHANGED main
    BY <1>17 DEF Lap, RestartOr
  <2>2. main = "wait" /\ state = "room_ready" /\ room = gsRoom
        /\ ((Down /\ pending) \/ Live) /\ UNCHANGED <<room, hub, gsRoom>>
    BY <1>17, <2>1 DEF Lap, BeginUnload, roomVars
  <2>3. /\ o.ok \/ ~stopped => Live'
        /\ ~(o.ok \/ ~stopped) => stopped'
    BY <2>1, <2>2, RestartOutcome
  <2>4. CASE o.ok \/ ~stopped
    BY <1>17, <2>1, <2>2, <2>3, <2>4 DEF Lap, roomVars, LoadPcs
  <2>5. CASE ~(o.ok \/ ~stopped)
    BY <1>17, <2>1, <2>2, <2>3, <2>5 DEF Lap, BeginUnload, LoadPcs
  <2> QED
    BY <2>4, <2>5
<1>18. ASSUME ArcoExited PROVE RoomService'
  BY <1>0, <1>18 DEF ArcoExited, roomVars, childVars, clientVars, wireVars,
     mainVars, Live, Down, LoadPcs, LoadKnowsItsRoom
<1>19. ASSUME CloseClients PROVE RoomService'
  BY <1>0, <1>19 DEF CloseClients, roomVars, childVars, clientVars,
     wireVars, mainVars, Live, Down, LoadPcs, LoadKnowsItsRoom
<1>20. ASSUME CloseRoom PROVE RoomService'
  BY <1>0, <1>20 DEF CloseRoom, roomVars, childVars, clientVars, wireVars,
     mainVars, Live, Down, LoadPcs, BeginUnload, LoadKnowsItsRoom
<1>21. ASSUME NEW r \in Room, BootRoom(r) PROVE RoomService'
  BY <1>0, <1>21 DEF BootRoom, roomVars, childVars, clientVars, wireVars,
     mainVars, Live, Down, LoadPcs, BeginLoad, LoadKnowsItsRoom
<1>22. ASSUME NEW r \in Room, LoadRoomCommand(r) PROVE RoomService'
  BY <1>0, <1>22 DEF LoadRoomCommand, roomVars, childVars, clientVars,
     wireVars, mainVars, Live, Down, LoadPcs, BeginLoad, Polling,
     LoadKnowsItsRoom
<1>23. ASSUME NEW r \in Room, LoadBitWithRoom(r) PROVE RoomService'
  BY <1>0, <1>23 DEF LoadBitWithRoom, roomVars, childVars, clientVars,
     wireVars, mainVars, Live, Down, LoadPcs, BeginLoad, Polling,
     LoadKnowsItsRoom
<1>24. ASSUME LoadBit PROVE RoomService'
  BY <1>0, <1>24 DEF LoadBit, roomVars, childVars, clientVars, wireVars,
     mainVars, Live, Down, LoadPcs, Polling, LoadKnowsItsRoom
<1>25. ASSUME RoundEnds PROVE RoomService'
  BY <1>0, <1>25 DEF RoundEnds, roomVars, childVars, clientVars, wireVars,
     mainVars, Live, Down, LoadPcs, Polling, LoadKnowsItsRoom
<1>26. ASSUME AbortCommand PROVE RoomService'
  BY <1>0, <1>26 DEF AbortCommand, roomVars, childVars, clientVars,
     wireVars, mainVars, Live, Down, LoadPcs,
     Polling, MayUnload, BeginUnload, LoadKnowsItsRoom
<1>27. ASSUME NEW force \in BOOLEAN, UnloadRoomCommand(force) PROVE RoomService'
  BY <1>0, <1>27 DEF UnloadRoomCommand, roomVars, childVars, clientVars,
     wireVars, mainVars, Live, Down, LoadPcs,
     Polling, MayUnload, BeginUnload, LoadKnowsItsRoom
<1>28. ASSUME NEW f \in Fixture, WaitTap(f) PROVE RoomService'
  BY <1>0, <1>28 DEF WaitTap, roomVars, childVars, clientVars, wireVars,
     mainVars, Live, Down, LoadPcs, AfterBinding, LoadKnowsItsRoom
<1>29. ASSUME ArcoCrashes PROVE RoomService'
  BY <1>0, <1>29 DEF ArcoCrashes, roomVars, childVars, clientVars,
     wireVars, mainVars, Live, Down, LoadPcs, LoadKnowsItsRoom
<1>30. ASSUME SignalInLoop PROVE RoomService'
  BY <1>0, <1>30 DEF SignalInLoop, roomVars, childVars, clientVars,
     wireVars, mainVars, Live, Down, LoadPcs, Polling, LoadKnowsItsRoom
<1>31. ASSUME SignalInLoad PROVE RoomService'
  BY <1>0, <1>31 DEF SignalInLoad, roomVars, childVars, clientVars,
     wireVars, mainVars, Live, Down, LoadPcs, Fail, LoadKnowsItsRoom
<1>32. ASSUME AnnounceInterrupted PROVE RoomService'
  BY <1>32 DEF AnnounceInterrupted
<1>33. ASSUME UNCHANGED vars PROVE RoomService'
  BY <1>0, <1>33 DEF vars, roomVars, childVars, clientVars, wireVars,
     mainVars, Live, Down, LoadPcs
<1> QED
  BY <1>1, <1>2, <1>3, <1>4, <1>5, <1>6, <1>7, <1>8, <1>9, <1>10, <1>11,
     <1>12, <1>13, <1>14, <1>15, <1>16, <1>17, <1>18, <1>19, <1>20, <1>21,
     <1>22, <1>23, <1>24, <1>25, <1>26, <1>27, <1>28, <1>29, <1>30, <1>31,
     <1>32, <1>33
  DEF Next, LoadStep, UnloadStep, HarnessStep, Command, Tap, Accident

\* A Room that is served has live clients of its own Arco and was wired to the
\* agent exactly once, whichever caller of restart_clients brought them up.
\* Run late shows what an interrupted announcement makes of it.
THEOREM EveryRoomIsServedOnce ==
    ASSUME "late" \notin Accidents
    PROVE  Spec => []ServedOnce
<1>1. Init => Typed
  BY InitTyped
<1>2. Init => RoomService
  BY DEF Init, RoomService, BootIsOneLoad, LoadsWhereItMay, ClientsFollowRoom,
     LoadPcs
<1>3. Typed /\ [Next]_vars => Typed'
  BY TypedStep
<1>4. Typed /\ RoomService /\ [Next]_vars => RoomService'
  BY ServiceStep
<1>5. RoomService => ServedOnce
  BY DEF RoomService, ClientsFollowRoom, Live, ServedOnce
<1> QED
  BY <1>1, <1>2, <1>3, <1>4, <1>5, PTL DEF Spec

-----------------------------------------------------------------------------
(* pyarco's only hub is not taken away, when no client can fail to start     *)
(* after pyarco has synced.                                                  *)

\* Until its clients are up the process has synced with no hub; from then on
\* with the one it serves.
SyncFollowsClients ==
    /\ main = "boot" => synced = NoHub
    /\ main = "start" => synced = hub
    /\ main = "serve" => synced = hub
    /\ main = "wait" => synced = IF stopped THEN NoHub ELSE hub

\* A restart syncs if it succeeds and not otherwise.
LEMMA RestartSyncs ==
    ASSUME "clients" \notin Accidents, NEW o \in Outcomes, RestartClients(o),
           hub' = hub, synced = IF stopped THEN NoHub ELSE hub
    PROVE  synced' = IF stopped' THEN NoHub ELSE hub'
<1>1. \/ o = [ok |-> TRUE, at |-> hub, synced |-> hub]
      \/ o = [ok |-> FALSE, at |-> NoHub, synced |-> synced]
  BY DEF Outcomes
<1>2. CASE o = [ok |-> TRUE, at |-> hub, synced |-> hub]
  <2>1. o.ok = TRUE /\ o.synced = hub
    BY <1>2
  <2>2. CASE stopped
    <3>1. ~stopped' /\ synced' = hub
      BY <2>1, <2>2 DEF RestartClients
    <3> QED
      BY <3>1
  <2>3. CASE ~stopped
    BY <2>3 DEF RestartClients, clientVars
  <2> QED
    BY <2>2, <2>3
<1>3. CASE o = [ok |-> FALSE, at |-> NoHub, synced |-> synced]
  <2>1. o.ok = FALSE /\ o.synced = synced
    BY <1>3
  <2>2. CASE stopped
    <3>1. stopped' /\ synced' = synced
      BY <2>1, <2>2 DEF RestartClients
    <3> QED
      BY <2>2, <3>1
  <2>3. CASE ~stopped
    BY <2>3 DEF RestartClients, clientVars
  <2> QED
    BY <2>2, <2>3
<1> QED
  BY <1>1, <1>2, <1>3

\* Every step keeps it.
LEMMA SyncStep ==
    ASSUME {"late", "clients"} \cap Accidents = {}, Typed, RoomService,
           SyncFollowsClients, [Next]_vars
    PROVE  SyncFollowsClients'
<1> USE DEF SyncFollowsClients
<1>0. LoadKnowsItsRoom
  BY DEF Typed
<1>a. BootIsOneLoad /\ LoadsWhereItMay /\ ClientsFollowRoom
  BY DEF RoomService
<1>1. ASSUME CheckFails PROVE SyncFollowsClients'
  BY <1>0, <1>a, <1>1 DEF CheckFails, roomVars, clientVars, mainVars,
     LoadPcs, Live, Down, ClientsFollowRoom, LoadsWhereItMay,
     BootIsOneLoad, Fail, LoadKnowsItsRoom
<1>2. ASSUME SpawnArco PROVE SyncFollowsClients'
  BY <1>0, <1>a, <1>2 DEF SpawnArco, roomVars, clientVars, mainVars,
     LoadPcs, Live, Down, ClientsFollowRoom, LoadsWhereItMay,
     BootIsOneLoad, Fail, LoadKnowsItsRoom
<1>3. ASSUME ArcoReady PROVE SyncFollowsClients'
  BY <1>0, <1>a, <1>3 DEF ArcoReady, roomVars, clientVars, mainVars,
     LoadPcs, Live, Down, ClientsFollowRoom, LoadsWhereItMay,
     BootIsOneLoad, LoadKnowsItsRoom
<1>4. ASSUME ArcoNotReady PROVE SyncFollowsClients'
  BY <1>0, <1>a, <1>4 DEF ArcoNotReady, roomVars, clientVars, mainVars,
     LoadPcs, Live, Down, ClientsFollowRoom, LoadsWhereItMay,
     BootIsOneLoad, Fail, LoadKnowsItsRoom
<1>5. ASSUME BindRecorded PROVE SyncFollowsClients'
  BY <1>0, <1>a, <1>5 DEF BindRecorded, roomVars, clientVars, mainVars,
     LoadPcs, Live, Down, ClientsFollowRoom, LoadsWhereItMay,
     BootIsOneLoad, AfterBinding, LoadKnowsItsRoom
<1>6. ASSUME AllSimulated PROVE SyncFollowsClients'
  BY <1>0, <1>a, <1>6 DEF AllSimulated, roomVars, clientVars, mainVars,
     LoadPcs, Live, Down, ClientsFollowRoom, LoadsWhereItMay,
     BootIsOneLoad, LoadKnowsItsRoom
<1>7. ASSUME WaitTimeout PROVE SyncFollowsClients'
  BY <1>0, <1>a, <1>7 DEF WaitTimeout, roomVars, clientVars, mainVars,
     LoadPcs, Live, Down, ClientsFollowRoom, LoadsWhereItMay,
     BootIsOneLoad, Fail, LoadKnowsItsRoom
<1>8. ASSUME Announce PROVE SyncFollowsClients'
  <2>1. CASE main = "boot"
    BY <1>8, <2>1 DEF Announce, clientVars, Resume
  <2>2. CASE main = "wait"
    <3>1. PICK o \in Outcomes : RestartClients(o)
      BY <1>8, <2>2 DEF Announce, WireRoom
    <3>2. hub' = hub /\ main' = "wait"
      BY <1>8, <2>2 DEF Announce
    <3> QED
      BY <2>2, <3>1, <3>2, RestartSyncs
  <2> QED
    BY <1>8, <1>a, <2>1, <2>2 DEF Announce, LoadsWhereItMay, LoadPcs
<1>9. ASSUME NEW f \in Fixture, SpawnSimulator(f) PROVE SyncFollowsClients'
  <2>1. UNCHANGED <<hub, synced, stopped, main>>
    BY <1>9 DEF SpawnSimulator, Fail, roomVars, clientVars, mainVars
  <2> QED
    BY <2>1
<1>10. ASSUME UnwindStep PROVE SyncFollowsClients'
  BY <1>0, <1>a, <1>10 DEF UnwindStep, roomVars, clientVars, mainVars,
     LoadPcs, Live, Down, ClientsFollowRoom, LoadsWhereItMay,
     BootIsOneLoad, LoadKnowsItsRoom
<1>11. ASSUME UnwindEnd PROVE SyncFollowsClients'
  BY <1>0, <1>a, <1>11 DEF UnwindEnd, roomVars, clientVars, mainVars,
     LoadPcs, Live, Down, ClientsFollowRoom, LoadsWhereItMay,
     BootIsOneLoad, ClearRoom, Unwire, LoadKnowsItsRoom
<1>12. ASSUME Save PROVE SyncFollowsClients'
  BY <1>0, <1>a, <1>12 DEF Save, roomVars, clientVars, mainVars, LoadPcs,
     Live, Down, ClientsFollowRoom, LoadsWhereItMay, BootIsOneLoad,
     LoadKnowsItsRoom
<1>13. ASSUME BootRoomless PROVE SyncFollowsClients'
  BY <1>0, <1>a, <1>13 DEF BootRoomless, roomVars, clientVars, mainVars,
     LoadPcs, Live, Down, ClientsFollowRoom, LoadsWhereItMay,
     BootIsOneLoad, LoadKnowsItsRoom
<1>14. ASSUME BootPool PROVE SyncFollowsClients'
  BY <1>0, <1>a, <1>14 DEF BootPool, roomVars, clientVars, mainVars,
     LoadPcs, Live, Down, ClientsFollowRoom, LoadsWhereItMay,
     BootIsOneLoad, BeginUnload, LoadKnowsItsRoom
<1>15. ASSUME BootTransport PROVE SyncFollowsClients'
  BY <1>0, <1>a, <1>15 DEF BootTransport, roomVars, clientVars, mainVars,
     LoadPcs, Live, Down, ClientsFollowRoom, LoadsWhereItMay,
     BootIsOneLoad, LoadKnowsItsRoom
<1>16. ASSUME LoadBitResumes PROVE SyncFollowsClients'
  <2>1. PICK o \in Outcomes :
          /\ RestartClients(o)
          /\ IF o.ok \/ ~stopped
             THEN hub' = hub /\ UNCHANGED main
             ELSE hub' = hub /\ UNCHANGED main
    BY <1>16 DEF LoadBitResumes, RestartOr, BeginUnload, roomVars
  <2>2. main = "wait" /\ hub' = hub /\ main' \in {"wait", "serve"}
    BY <1>16, <1>a, <2>1 DEF LoadBitResumes, LoadsWhereItMay
  <2>3. synced' = IF stopped' THEN NoHub ELSE hub'
    BY <2>1, <2>2, RestartSyncs
  <2> QED
    BY <2>1, <2>2, <2>3
<1>17. ASSUME Lap PROVE SyncFollowsClients'
  <2>1. PICK o \in Outcomes :
          /\ RestartClients(o)
          /\ IF o.ok \/ ~stopped
             THEN main' = "serve" /\ hub' = hub
             ELSE hub' = hub /\ UNCHANGED main
    BY <1>17 DEF Lap, RestartOr, BeginUnload, roomVars
  <2>2. main = "wait" /\ hub' = hub /\ main' \in {"wait", "serve"}
    BY <1>17, <1>a, <2>1 DEF Lap, LoadsWhereItMay
  <2>3. synced' = IF stopped' THEN NoHub ELSE hub'
    BY <2>1, <2>2, RestartSyncs
  <2>4. main' = "serve" => ~stopped'
    <3>1. RoomService'
      BY ServiceStep
    <3> QED
      BY <3>1 DEF RoomService, ClientsFollowRoom, Live
  <2> QED
    BY <2>2, <2>3, <2>4
<1>18. ASSUME ArcoExited PROVE SyncFollowsClients'
  BY <1>0, <1>a, <1>18 DEF ArcoExited, roomVars, clientVars, mainVars,
     LoadPcs, Live, Down, ClientsFollowRoom, LoadsWhereItMay,
     BootIsOneLoad, LoadKnowsItsRoom
<1>19. ASSUME CloseClients PROVE SyncFollowsClients'
  BY <1>0, <1>a, <1>19 DEF CloseClients, roomVars, clientVars, mainVars,
     LoadPcs, Live, Down, ClientsFollowRoom, LoadsWhereItMay,
     BootIsOneLoad, LoadKnowsItsRoom
<1>20. ASSUME CloseRoom PROVE SyncFollowsClients'
  BY <1>0, <1>a, <1>20 DEF CloseRoom, roomVars, clientVars, mainVars,
     LoadPcs, Live, Down, ClientsFollowRoom, LoadsWhereItMay,
     BootIsOneLoad, BeginUnload, LoadKnowsItsRoom
<1>21. ASSUME NEW r \in Room, BootRoom(r) PROVE SyncFollowsClients'
  BY <1>0, <1>a, <1>21 DEF BootRoom, roomVars, clientVars, mainVars,
     LoadPcs, Live, Down, ClientsFollowRoom, LoadsWhereItMay,
     BootIsOneLoad, BeginLoad, LoadKnowsItsRoom
<1>22. ASSUME NEW r \in Room, LoadRoomCommand(r) PROVE SyncFollowsClients'
  BY <1>0, <1>a, <1>22 DEF LoadRoomCommand, roomVars, clientVars, mainVars,
     LoadPcs, Live, Down, ClientsFollowRoom, LoadsWhereItMay,
     BootIsOneLoad, BeginLoad, Polling, LoadKnowsItsRoom
<1>23. ASSUME NEW r \in Room, LoadBitWithRoom(r) PROVE SyncFollowsClients'
  BY <1>0, <1>a, <1>23 DEF LoadBitWithRoom, roomVars, clientVars, mainVars,
     LoadPcs, Live, Down, ClientsFollowRoom, LoadsWhereItMay,
     BootIsOneLoad, BeginLoad, Polling, LoadKnowsItsRoom
<1>24. ASSUME LoadBit PROVE SyncFollowsClients'
  BY <1>0, <1>a, <1>24 DEF LoadBit, roomVars, clientVars, mainVars,
     LoadPcs, Live, Down, ClientsFollowRoom, LoadsWhereItMay,
     BootIsOneLoad, Polling, LoadKnowsItsRoom
<1>25. ASSUME RoundEnds PROVE SyncFollowsClients'
  BY <1>0, <1>a, <1>25 DEF RoundEnds, roomVars, clientVars, mainVars,
     LoadPcs, Live, Down, ClientsFollowRoom, LoadsWhereItMay,
     BootIsOneLoad, Polling, LoadKnowsItsRoom
<1>26. ASSUME AbortCommand PROVE SyncFollowsClients'
  BY <1>0, <1>a, <1>26 DEF AbortCommand, roomVars, clientVars, mainVars,
     LoadPcs, Live, Down, ClientsFollowRoom, LoadsWhereItMay,
     BootIsOneLoad, Polling, MayUnload, BeginUnload, LoadKnowsItsRoom
<1>27. ASSUME NEW force \in BOOLEAN, UnloadRoomCommand(force)
       PROVE  SyncFollowsClients'
  BY <1>0, <1>a, <1>27 DEF UnloadRoomCommand, roomVars, clientVars,
     mainVars, LoadPcs, Live, Down, ClientsFollowRoom, LoadsWhereItMay,
     BootIsOneLoad, Polling, MayUnload, BeginUnload, LoadKnowsItsRoom
<1>28. ASSUME NEW f \in Fixture, WaitTap(f) PROVE SyncFollowsClients'
  BY <1>0, <1>a, <1>28 DEF WaitTap, roomVars, clientVars, mainVars,
     LoadPcs, Live, Down, ClientsFollowRoom, LoadsWhereItMay,
     BootIsOneLoad, AfterBinding, LoadKnowsItsRoom
<1>29. ASSUME ArcoCrashes PROVE SyncFollowsClients'
  BY <1>0, <1>a, <1>29 DEF ArcoCrashes, roomVars, clientVars, mainVars,
     LoadPcs, Live, Down, ClientsFollowRoom, LoadsWhereItMay,
     BootIsOneLoad, LoadKnowsItsRoom
<1>30. ASSUME SignalInLoop PROVE SyncFollowsClients'
  BY <1>0, <1>a, <1>30 DEF SignalInLoop, roomVars, clientVars, mainVars,
     LoadPcs, Live, Down, ClientsFollowRoom, LoadsWhereItMay,
     BootIsOneLoad, Polling, LoadKnowsItsRoom
<1>31. ASSUME SignalInLoad PROVE SyncFollowsClients'
  BY <1>0, <1>a, <1>31 DEF SignalInLoad, roomVars, clientVars, mainVars,
     LoadPcs, Live, Down, ClientsFollowRoom, LoadsWhereItMay,
     BootIsOneLoad, Fail, LoadKnowsItsRoom
<1>32. ASSUME AnnounceInterrupted PROVE SyncFollowsClients'
  BY <1>32 DEF AnnounceInterrupted
<1>33. ASSUME UNCHANGED vars PROVE SyncFollowsClients'
  BY <1>0, <1>a, <1>33 DEF vars, roomVars, clientVars, mainVars
<1> QED
  BY <1>1, <1>2, <1>3, <1>4, <1>5, <1>6, <1>7, <1>8, <1>9, <1>10, <1>11,
     <1>12, <1>13, <1>14, <1>15, <1>16, <1>17, <1>18, <1>19, <1>20, <1>21,
     <1>22, <1>23, <1>24, <1>25, <1>26, <1>27, <1>28, <1>29, <1>30, <1>31,
     <1>32, <1>33
  DEF Next, LoadStep, UnloadStep, HarnessStep, Command, Tap, Accident

\* While the process runs, the only Arco that pyarco can talk to is not taken
\* away.  A client that fails after pyarco has synced is what can strand it.
THEOREM ArcoIsNeverStranded ==
    ASSUME {"late", "clients"} \cap Accidents = {}
    PROVE  Spec => []NeverStranded
<1>1. Init => Typed
  BY InitTyped
<1>2. Init => RoomService /\ SyncFollowsClients
  BY DEF Init, RoomService, BootIsOneLoad, LoadsWhereItMay, ClientsFollowRoom,
     LoadPcs, SyncFollowsClients
<1>3. Typed /\ [Next]_vars => Typed'
  BY TypedStep
<1>4. Typed /\ RoomService /\ [Next]_vars => RoomService'
  BY ServiceStep
<1>5. Typed /\ RoomService /\ SyncFollowsClients /\ [Next]_vars
        => SyncFollowsClients'
  BY SyncStep
<1>6. SyncFollowsClients => NeverStranded
  BY DEF SyncFollowsClients, NeverStranded, Polling
<1> QED
  BY <1>1, <1>2, <1>3, <1>4, <1>5, <1>6, PTL DEF Spec

-----------------------------------------------------------------------------
(* Between operations a Room stands as a whole or not at all, when nothing   *)
(* but a crash of Arco or a signal goes wrong.                              *)

CrashOrSignal == Accidents \subseteq {"crash", "signal"}

\* What load_room has built of r: its Arco at the foot of the stack, and the
\* simulators of the fixtures bound so far above it.
Standing(r) ==
    /\ hub = loads /\ gsRoom = r /\ bound \subseteq Fixtures(r)
    /\ stack # <<>> /\ stack[1] = Child(hub, ArcoName)
    /\ simulated => \A f \in bound : Child(hub, f) \in OnStack

\* Where there is no Room nothing is left of one.
NothingStands ==
    /\ room = None /\ gsRoom = None /\ loading = None /\ wired = None
    /\ hub = NoHub /\ bound = {} /\ stack = <<>> /\ ~pending

\* How far a load has come, by where it is.
BuiltAsFarAs ==
    /\ pc = "check" => stack = <<>>
    /\ pc = "ready" => stack # <<>> /\ stack[1] = Child(loads, ArcoName)
    /\ pc \in {"bind", "wait", "announce"} => Standing(loading)
    /\ pc = "wait" => ~simulated
    /\ pc = "announce" /\ simulated => Fixtures(loading) \subseteq bound
    /\ pc \in {"unwind", "save", "close"} =>
        state \in {"room_loading", "room_unloading"}

\* The Room that is ready, and whose sessions the agent holds.
StandsWhole ==
    /\ state = "no_room" => NothingStands
    /\ state = "room_ready" =>
        /\ room \in Room /\ Standing(room)
        /\ simulated => Fixtures(room) \subseteq bound
    /\ bit => state = "room_ready"
    /\ main \in {"leave", "closing"} /\ pc = "idle" /\ state = "room_ready" =>
        wired = IF stopped THEN None ELSE room

RoomIsWhole == BuiltAsFarAs /\ StandsWhole

\* Clients are up only while a Room is ready, and not where they were stopped.
GuestsFollowRoom ==
    stopped \/ state # "room_ready" \/ main \in {"boot", "closing"}
        => pool = NoHub /\ transport = NoHub

\* The next fixture is one of the Room's.
LEMMA NextIsOfRoom ==
    ASSUME NEW r, NEW f, NextFixture(r, f)
    PROVE  f \in Fixtures(r)
BY DEF NextFixture, Fixtures

\* A push leaves what is below it where it is.
LEMMA PushKeeps ==
    ASSUME TypeOK, NEW c, stack' = Append(stack, c)
    PROVE  /\ OnStack' = OnStack \cup {c}
           /\ stack' # <<>>
           /\ stack # <<>> => stack'[1] = stack[1]
<1>1. stack \in Seq(Children)
  BY DEF TypeOK
<1>2. /\ Len(stack) \in Nat /\ DOMAIN stack = 1..Len(stack)
      /\ DOMAIN stack' = 1..(Len(stack) + 1)
      /\ stack'[Len(stack) + 1] = c
      /\ \A i \in DOMAIN stack : stack'[i] = stack[i]
  BY <1>1
<1>3. DOMAIN stack' = DOMAIN stack \cup {Len(stack) + 1}
  BY <1>2
<1>4. OnStack' = OnStack \cup {c}
  <2>1. ASSUME NEW x \in OnStack' PROVE x \in OnStack \cup {c}
    <3>1. PICK i \in DOMAIN stack' : x = stack'[i]
      BY <2>1 DEF OnStack
    <3> QED
      BY <3>1, <1>2, <1>3 DEF OnStack
  <2>2. OnStack \subseteq OnStack' /\ c \in OnStack'
    BY <1>2, <1>3 DEF OnStack
  <2> QED
    BY <2>1, <2>2
<1>5. stack # <<>> => 1 \in DOMAIN stack
  BY <1>1, <1>2
<1>6. stack' # <<>>
  BY <1>1
<1> QED
  BY <1>2, <1>4, <1>5, <1>6

\* Every step keeps it.
LEMMA WholeStep ==
    ASSUME CrashOrSignal, Typed, StackFollowsState, RoomService, RoomIsWhole,
           [Next]_vars
    PROVE  RoomIsWhole'
<1> USE DEF RoomIsWhole, BuiltAsFarAs, StandsWhole
<1>0. LoadKnowsItsRoom /\ TypeOK
  BY DEF Typed
<1>a. BootIsOneLoad /\ LoadsWhereItMay /\ ClientsFollowRoom
  BY DEF RoomService
<1>b. {"late", "record", "settle", "store", "clients"} \cap Accidents = {}
  BY DEF CrashOrSignal
<1>1. ASSUME CheckFails PROVE RoomIsWhole'
  BY <1>0, <1>a, <1>b, <1>1 DEF CheckFails, Fail, NothingStands, Standing,
     OnStack, roomVars, childVars, clientVars, wireVars, mainVars, LoadPcs,
     LoadKnowsItsRoom, StackFollowsState, LoadsWhereItMay
<1>2. ASSUME SpawnArco PROVE RoomIsWhole'
  BY <1>0, <1>a, <1>b, <1>2 DEF SpawnArco, Fail, PushArco, NothingStands,
     Standing, OnStack, roomVars, childVars, clientVars, wireVars, mainVars,
     LoadPcs, LoadKnowsItsRoom, StackFollowsState, LoadsWhereItMay
<1>3. ASSUME ArcoReady PROVE RoomIsWhole'
  BY <1>0, <1>a, <1>b, <1>3 DEF ArcoReady, NothingStands, Standing, OnStack,
     roomVars, childVars, clientVars, wireVars, mainVars, LoadPcs,
     LoadKnowsItsRoom, StackFollowsState, LoadsWhereItMay
<1>4. ASSUME ArcoNotReady PROVE RoomIsWhole'
  BY <1>0, <1>a, <1>b, <1>4 DEF ArcoNotReady, Fail, NothingStands, Standing,
     OnStack, roomVars, childVars, clientVars, wireVars, mainVars, LoadPcs,
     LoadKnowsItsRoom, StackFollowsState, LoadsWhereItMay
<1>5. ASSUME BindRecorded PROVE RoomIsWhole'
  BY <1>0, <1>a, <1>b, <1>5 DEF BindRecorded, AfterBinding, NothingStands,
     Standing, OnStack, roomVars, childVars, clientVars, wireVars, mainVars,
     LoadPcs, LoadKnowsItsRoom, StackFollowsState, LoadsWhereItMay
<1>6. ASSUME AllSimulated PROVE RoomIsWhole'
  BY <1>0, <1>a, <1>b, <1>6 DEF AllSimulated, NothingStands, Standing,
     OnStack, roomVars, childVars, clientVars, wireVars, mainVars, LoadPcs,
     LoadKnowsItsRoom, StackFollowsState, LoadsWhereItMay
<1>7. ASSUME WaitTimeout PROVE RoomIsWhole'
  BY <1>0, <1>a, <1>b, <1>7 DEF WaitTimeout, Fail, NothingStands, Standing,
     OnStack, roomVars, childVars, clientVars, wireVars, mainVars, LoadPcs,
     LoadKnowsItsRoom, StackFollowsState, LoadsWhereItMay
<1>8. ASSUME Announce PROVE RoomIsWhole'
  BY <1>0, <1>a, <1>b, <1>8 DEF Announce, Resume, NothingStands, Standing,
     OnStack, roomVars, childVars, clientVars, wireVars, mainVars, LoadPcs,
     LoadKnowsItsRoom, StackFollowsState, LoadsWhereItMay
<1>9. ASSUME NEW f \in Fixture, SpawnSimulator(f) PROVE RoomIsWhole'
  <2>1. /\ pc = "bind" /\ state = "room_loading" /\ Standing(loading)
        /\ f \in Fixtures(loading) /\ simulated /\ ~bit
    BY <1>0, <1>9, NextIsOfRoom DEF SpawnSimulator, LoadKnowsItsRoom, LoadPcs
  <2>2. CASE Fail /\ UNCHANGED <<childVars, signalled>>
    BY <2>1, <2>2 DEF Fail, roomVars
  <2>3. CASE /\ alive' = alive \cup {Child(loads, f)}
             /\ Fail /\ UNCHANGED <<stack, loads, simulated, signalled>>
    BY <2>1, <2>3 DEF Fail, roomVars
  <2>4. CASE /\ alive' = alive \cup {Child(loads, f)}
             /\ stack' = Append(stack, Child(loads, f))
             /\ bound' = bound \cup {f}
             /\ UNCHANGED <<state, room, gsRoom, loading, hub, loads, simulated,
                            clientVars, wireVars, mainVars>>
    <3>1. /\ OnStack' = OnStack \cup {Child(loads, f)}
          /\ stack' # <<>> /\ stack'[1] = stack[1]
      BY <1>0, <2>1, <2>4, PushKeeps DEF Standing
    <3>2. /\ hub' = loads' /\ gsRoom' = loading' /\ bound' \subseteq Fixtures(loading')
          /\ stack'[1] = Child(hub', ArcoName)
      BY <2>1, <2>4 , <3>1 DEF Standing, Fixtures
    <3>3. \A g \in bound' : Child(hub', g) \in OnStack'
      BY <2>1, <2>4, <3>1 DEF Standing
    <3> QED
      BY <2>1, <2>4, <3>1, <3>2, <3>3 DEF Standing, mainVars
  <2> QED
    BY <1>9, <2>2, <2>3, <2>4 DEF SpawnSimulator
<1>10. ASSUME UnwindStep PROVE RoomIsWhole'
  BY <1>0, <1>a, <1>b, <1>10 DEF UnwindStep, Pop, NothingStands, Standing,
     OnStack, roomVars, childVars, clientVars, wireVars, mainVars, LoadPcs,
     LoadKnowsItsRoom, StackFollowsState, LoadsWhereItMay
<1>11. ASSUME UnwindEnd PROVE RoomIsWhole'
  BY <1>0, <1>a, <1>b, <1>11 DEF UnwindEnd, ClearRoom, Unwire, NothingStands,
     Standing, OnStack, roomVars, childVars, clientVars, wireVars, mainVars,
     LoadPcs, LoadKnowsItsRoom, StackFollowsState, LoadsWhereItMay
<1>12. ASSUME Save PROVE RoomIsWhole'
  BY <1>0, <1>a, <1>b, <1>12 DEF Save, NothingStands, Standing, OnStack,
     roomVars, childVars, clientVars, wireVars, mainVars, LoadPcs,
     LoadKnowsItsRoom, StackFollowsState, LoadsWhereItMay
<1>13. ASSUME BootRoomless PROVE RoomIsWhole'
  BY <1>0, <1>a, <1>b, <1>13 DEF BootRoomless, NothingStands, Standing,
     OnStack, roomVars, childVars, clientVars, wireVars, mainVars, LoadPcs,
     LoadKnowsItsRoom, StackFollowsState, LoadsWhereItMay
<1>14. ASSUME BootPool PROVE RoomIsWhole'
  BY <1>0, <1>a, <1>b, <1>14 DEF BootPool, BeginUnload, NothingStands,
     Standing, OnStack, roomVars, childVars, clientVars, wireVars, mainVars,
     LoadPcs, LoadKnowsItsRoom, StackFollowsState, LoadsWhereItMay
<1>15. ASSUME BootTransport PROVE RoomIsWhole'
  BY <1>0, <1>a, <1>15 DEF BootTransport, NothingStands, Standing, OnStack,
     roomVars, childVars, wireVars, BootIsOneLoad, LoadsWhereItMay
<1>16. ASSUME LoadBitResumes PROVE RoomIsWhole'
  BY <1>0, <1>a, <1>b, <1>16 DEF LoadBitResumes, RestartOr, BeginUnload,
     NothingStands, Standing, OnStack, roomVars, childVars, clientVars,
     wireVars, mainVars, LoadPcs, LoadKnowsItsRoom, StackFollowsState,
     LoadsWhereItMay
<1>17. ASSUME Lap PROVE RoomIsWhole'
  BY <1>0, <1>a, <1>b, <1>17 DEF Lap, RestartOr, BeginUnload, NothingStands,
     Standing, OnStack, roomVars, childVars, clientVars, wireVars, mainVars,
     LoadPcs, LoadKnowsItsRoom, StackFollowsState, LoadsWhereItMay
<1>18. ASSUME ArcoExited PROVE RoomIsWhole'
  BY <1>0, <1>a, <1>18 DEF ArcoExited, NothingStands, Standing, OnStack,
     roomVars, childVars, clientVars, wireVars, ClientsFollowRoom, Live
<1>19. ASSUME CloseClients PROVE RoomIsWhole'
  BY <1>0, <1>a, <1>b, <1>19 DEF CloseClients, NothingStands, Standing,
     OnStack, roomVars, childVars, clientVars, wireVars, mainVars, LoadPcs,
     LoadKnowsItsRoom, StackFollowsState, LoadsWhereItMay
<1>20. ASSUME CloseRoom PROVE RoomIsWhole'
  BY <1>0, <1>a, <1>b, <1>20 DEF CloseRoom, BeginUnload, NothingStands,
     Standing, OnStack, roomVars, childVars, clientVars, wireVars, mainVars,
     LoadPcs, LoadKnowsItsRoom, StackFollowsState, LoadsWhereItMay
<1>21. ASSUME NEW r \in Room, BootRoom(r) PROVE RoomIsWhole'
  BY <1>0, <1>a, <1>b, <1>21 DEF BootRoom, BeginLoad, NothingStands, Standing,
     OnStack, roomVars, childVars, clientVars, wireVars, mainVars, LoadPcs,
     LoadKnowsItsRoom, StackFollowsState, LoadsWhereItMay
<1>22. ASSUME NEW r \in Room, LoadRoomCommand(r) PROVE RoomIsWhole'
  BY <1>0, <1>a, <1>b, <1>22 DEF LoadRoomCommand, BeginLoad, Polling,
     NothingStands, Standing, OnStack, roomVars, childVars, clientVars,
     wireVars, mainVars, LoadPcs, LoadKnowsItsRoom, StackFollowsState,
     LoadsWhereItMay
<1>23. ASSUME NEW r \in Room, LoadBitWithRoom(r) PROVE RoomIsWhole'
  BY <1>0, <1>a, <1>b, <1>23 DEF LoadBitWithRoom, BeginLoad, Polling,
     NothingStands, Standing, OnStack, roomVars, childVars, clientVars,
     wireVars, mainVars, LoadPcs, LoadKnowsItsRoom, StackFollowsState,
     LoadsWhereItMay
<1>24. ASSUME LoadBit PROVE RoomIsWhole'
  BY <1>0, <1>a, <1>b, <1>24 DEF LoadBit, Polling, NothingStands, Standing,
     OnStack, roomVars, childVars, clientVars, wireVars, mainVars, LoadPcs,
     LoadKnowsItsRoom, StackFollowsState, LoadsWhereItMay
<1>25. ASSUME RoundEnds PROVE RoomIsWhole'
  BY <1>0, <1>a, <1>b, <1>25 DEF RoundEnds, Polling, NothingStands, Standing,
     OnStack, roomVars, childVars, clientVars, wireVars, mainVars, LoadPcs,
     LoadKnowsItsRoom, StackFollowsState, LoadsWhereItMay
<1>26. ASSUME AbortCommand PROVE RoomIsWhole'
  BY <1>0, <1>a, <1>b, <1>26 DEF AbortCommand, BeginUnload, MayUnload,
     Polling, NothingStands, Standing, OnStack, roomVars, childVars,
     clientVars, wireVars, mainVars, LoadPcs, LoadKnowsItsRoom,
     StackFollowsState, LoadsWhereItMay
<1>27. ASSUME NEW force \in BOOLEAN, UnloadRoomCommand(force) PROVE RoomIsWhole'
  BY <1>0, <1>a, <1>b, <1>27 DEF UnloadRoomCommand, BeginUnload, MayUnload,
     Polling, NothingStands, Standing, OnStack, roomVars, childVars,
     clientVars, wireVars, mainVars, LoadPcs, LoadKnowsItsRoom,
     StackFollowsState, LoadsWhereItMay
<1>28. ASSUME NEW f \in Fixture, WaitTap(f) PROVE RoomIsWhole'
  <2>1. /\ pc = "wait" /\ f \in Fixtures(loading) /\ bound' = bound \cup {f}
        /\ pc' \in {"announce", "wait"}
    BY <1>28, NextIsOfRoom DEF WaitTap, AfterBinding
  <2>2. /\ UNCHANGED <<state, room, gsRoom, loading, hub, main, bit>>
        /\ UNCHANGED <<childVars, clientVars, wireVars>>
    BY <1>28 DEF WaitTap
  <2>3. state = "room_loading" /\ Standing(loading) /\ ~simulated
    BY <1>0, <2>1 DEF LoadKnowsItsRoom, LoadPcs
  <2> QED
    BY <2>1, <2>2, <2>3 DEF childVars, clientVars, wireVars, Standing, Fixtures
<1>29. ASSUME ArcoCrashes PROVE RoomIsWhole'
  BY <1>0, <1>a, <1>b, <1>29 DEF ArcoCrashes, NothingStands, Standing,
     OnStack, roomVars, childVars, clientVars, wireVars, mainVars, LoadPcs,
     LoadKnowsItsRoom, StackFollowsState, LoadsWhereItMay
<1>30. ASSUME SignalInLoop PROVE RoomIsWhole'
  BY <1>0, <1>a, <1>30 DEF SignalInLoop, Polling, NothingStands, Standing,
     OnStack, roomVars, childVars, clientVars, wireVars, ClientsFollowRoom,
     Live, Down, LoadPcs, StackFollowsState
<1>31. ASSUME SignalInLoad PROVE RoomIsWhole'
  BY <1>0, <1>a, <1>b, <1>31 DEF SignalInLoad, Fail, NothingStands, Standing,
     OnStack, roomVars, childVars, clientVars, wireVars, mainVars, LoadPcs,
     LoadKnowsItsRoom, StackFollowsState, LoadsWhereItMay
<1>32. ASSUME AnnounceInterrupted PROVE RoomIsWhole'
  BY <1>0, <1>a, <1>b, <1>32 DEF AnnounceInterrupted, NothingStands, Standing,
     OnStack, roomVars, childVars, clientVars, wireVars, mainVars, LoadPcs,
     LoadKnowsItsRoom, StackFollowsState, LoadsWhereItMay
<1>33. ASSUME UNCHANGED vars PROVE RoomIsWhole'
  BY <1>0, <1>a, <1>b, <1>33 DEF vars, NothingStands, Standing, OnStack,
     roomVars, childVars, clientVars, wireVars, mainVars, LoadPcs,
     LoadKnowsItsRoom, StackFollowsState, LoadsWhereItMay
<1> QED
  BY <1>1, <1>2, <1>3, <1>4, <1>5, <1>6, <1>7, <1>8, <1>9, <1>10, <1>11,
     <1>12, <1>13, <1>14, <1>15, <1>16, <1>17, <1>18, <1>19, <1>20, <1>21,
     <1>22, <1>23, <1>24, <1>25, <1>26, <1>27, <1>28, <1>29, <1>30, <1>31,
     <1>32, <1>33
  DEF Next, LoadStep, UnloadStep, HarnessStep, Command, Tap, Accident

\* A restart that fails leaves no client up.
LEMMA RestartGuests ==
    ASSUME NEW o \in Outcomes, RestartClients(o),
           stopped => pool = NoHub /\ transport = NoHub
    PROVE  /\ stopped' => pool' = NoHub /\ transport' = NoHub
           /\ ~(o.ok \/ ~stopped) => pool' = NoHub /\ transport' = NoHub
<1>1. \/ o = [ok |-> TRUE, at |-> hub, synced |-> hub]
      \/ o = [ok |-> FALSE, at |-> NoHub, synced |-> synced]
      \/ o = [ok |-> FALSE, at |-> NoHub, synced |-> hub]
  BY DEF Outcomes
<1>2. o.ok \in BOOLEAN /\ (~o.ok => o.at = NoHub)
  <2>1. CASE o = [ok |-> TRUE, at |-> hub, synced |-> hub]
    BY <2>1
  <2>2. CASE o = [ok |-> FALSE, at |-> NoHub, synced |-> synced]
    BY <2>2
  <2>3. CASE o = [ok |-> FALSE, at |-> NoHub, synced |-> hub]
    BY <2>3
  <2> QED
    BY <1>1, <2>1, <2>2, <2>3
<1>3. CASE stopped
  BY <1>2, <1>3 DEF RestartClients
<1>4. CASE ~stopped
  BY <1>4 DEF RestartClients, clientVars
<1> QED
  BY <1>3, <1>4

\* Every step keeps the clients to the Rooms that are ready.
LEMMA GuestsStep ==
    ASSUME "late" \notin Accidents, Typed, RoomService, BuiltAsFarAs,
           GuestsFollowRoom, [Next]_vars
    PROVE  GuestsFollowRoom'
<1> USE DEF GuestsFollowRoom
<1>0. LoadKnowsItsRoom
  BY DEF Typed
<1>a. BootIsOneLoad /\ LoadsWhereItMay
  BY DEF RoomService
<1>1. ASSUME CheckFails PROVE GuestsFollowRoom'
  BY <1>0, <1>a, <1>1 DEF CheckFails, Fail, roomVars, clientVars, mainVars,
     LoadPcs, LoadKnowsItsRoom, LoadsWhereItMay, BootIsOneLoad
<1>2. ASSUME SpawnArco PROVE GuestsFollowRoom'
  BY <1>0, <1>a, <1>2 DEF SpawnArco, Fail, PushArco, roomVars, clientVars,
     mainVars, LoadPcs, LoadKnowsItsRoom, LoadsWhereItMay, BootIsOneLoad
<1>3. ASSUME ArcoReady PROVE GuestsFollowRoom'
  BY <1>0, <1>a, <1>3 DEF ArcoReady, roomVars, clientVars, mainVars, LoadPcs,
     LoadKnowsItsRoom, LoadsWhereItMay, BootIsOneLoad
<1>4. ASSUME ArcoNotReady PROVE GuestsFollowRoom'
  BY <1>0, <1>a, <1>4 DEF ArcoNotReady, Fail, roomVars, clientVars, mainVars,
     LoadPcs, LoadKnowsItsRoom, LoadsWhereItMay, BootIsOneLoad
<1>5. ASSUME BindRecorded PROVE GuestsFollowRoom'
  BY <1>0, <1>a, <1>5 DEF BindRecorded, AfterBinding, roomVars, clientVars,
     mainVars, LoadPcs, LoadKnowsItsRoom, LoadsWhereItMay, BootIsOneLoad
<1>6. ASSUME AllSimulated PROVE GuestsFollowRoom'
  BY <1>0, <1>a, <1>6 DEF AllSimulated, roomVars, clientVars, mainVars,
     LoadPcs, LoadKnowsItsRoom, LoadsWhereItMay, BootIsOneLoad
<1>7. ASSUME WaitTimeout PROVE GuestsFollowRoom'
  BY <1>0, <1>a, <1>7 DEF WaitTimeout, Fail, roomVars, clientVars, mainVars,
     LoadPcs, LoadKnowsItsRoom, LoadsWhereItMay, BootIsOneLoad
<1>8. ASSUME Announce PROVE GuestsFollowRoom'
  <2>1. CASE main = "boot"
    BY <1>8, <2>1 DEF Announce, clientVars
  <2>2. CASE main # "boot"
    <3>1. PICK o \in Outcomes : RestartClients(o)
      BY <1>8, <2>2 DEF Announce, WireRoom
    <3>2. main' = "wait" /\ state' = "room_ready"
      BY <1>a, <1>8, <2>2 DEF Announce, LoadsWhereItMay, LoadPcs
    <3> QED
      BY <3>1, <3>2, RestartGuests
  <2> QED
    BY <2>1, <2>2
<1>9. ASSUME NEW f \in Fixture, SpawnSimulator(f) PROVE GuestsFollowRoom'
  BY <1>0, <1>a, <1>9 DEF SpawnSimulator, Fail, roomVars, clientVars,
     mainVars, LoadPcs, LoadKnowsItsRoom, LoadsWhereItMay, BootIsOneLoad
<1>10. ASSUME UnwindStep PROVE GuestsFollowRoom'
  BY <1>0, <1>a, <1>10 DEF UnwindStep, Pop, roomVars, clientVars, mainVars,
     LoadPcs, LoadKnowsItsRoom, LoadsWhereItMay, BootIsOneLoad
<1>11. ASSUME UnwindEnd PROVE GuestsFollowRoom'
  <2>1. state # "room_ready"
    BY <1>11 DEF UnwindEnd, BuiltAsFarAs
  <2> QED
    BY <2>1, <1>11 DEF UnwindEnd, clientVars
<1>12. ASSUME Save PROVE GuestsFollowRoom'
  BY <1>0, <1>a, <1>12 DEF Save, roomVars, clientVars, mainVars, LoadPcs,
     LoadKnowsItsRoom, LoadsWhereItMay, BootIsOneLoad
<1>13. ASSUME BootRoomless PROVE GuestsFollowRoom'
  BY <1>0, <1>a, <1>13 DEF BootRoomless, roomVars, clientVars, mainVars,
     LoadPcs, LoadKnowsItsRoom, LoadsWhereItMay, BootIsOneLoad
<1>14. ASSUME BootPool PROVE GuestsFollowRoom'
  BY <1>0, <1>a, <1>14 DEF BootPool, BeginUnload, roomVars, clientVars,
     mainVars, LoadPcs, LoadKnowsItsRoom, LoadsWhereItMay, BootIsOneLoad
<1>15. ASSUME BootTransport PROVE GuestsFollowRoom'
  BY <1>0, <1>a, <1>15 DEF BootTransport, roomVars, clientVars, mainVars,
     LoadPcs, LoadKnowsItsRoom, LoadsWhereItMay, BootIsOneLoad
<1>16. ASSUME LoadBitResumes PROVE GuestsFollowRoom'
  <2>1. PICK o \in Outcomes :
          /\ RestartClients(o)
          /\ (o.ok \/ ~stopped) => state' = state /\ main' = main
          /\ ~(o.ok \/ ~stopped) => main' = main
    BY <1>16 DEF LoadBitResumes, RestartOr, BeginUnload, roomVars
  <2>2. main = "wait" /\ state = "room_ready" /\ main' = "wait"
    BY <1>16, <1>a, <2>1 DEF LoadBitResumes, LoadsWhereItMay
  <2> QED
    BY <2>1, <2>2, RestartGuests
<1>17. ASSUME Lap PROVE GuestsFollowRoom'
  <2>1. PICK o \in Outcomes :
          /\ RestartClients(o)
          /\ (o.ok \/ ~stopped) => state' = state /\ main' = "serve"
          /\ ~(o.ok \/ ~stopped) => main' = main
    BY <1>17 DEF Lap, RestartOr, BeginUnload, roomVars
  <2>2. main = "wait" /\ state = "room_ready"
    BY <1>17 DEF Lap
  <2> QED
    BY <2>1, <2>2, RestartGuests
<1>18. ASSUME ArcoExited PROVE GuestsFollowRoom'
  BY <1>0, <1>a, <1>18 DEF ArcoExited, roomVars, clientVars, mainVars,
     LoadPcs, LoadKnowsItsRoom, LoadsWhereItMay, BootIsOneLoad
<1>19. ASSUME CloseClients PROVE GuestsFollowRoom'
  BY <1>0, <1>a, <1>19 DEF CloseClients, roomVars, clientVars, mainVars,
     LoadPcs, LoadKnowsItsRoom, LoadsWhereItMay, BootIsOneLoad
<1>20. ASSUME CloseRoom PROVE GuestsFollowRoom'
  BY <1>0, <1>a, <1>20 DEF CloseRoom, BeginUnload, roomVars, clientVars,
     mainVars, LoadPcs, LoadKnowsItsRoom, LoadsWhereItMay, BootIsOneLoad
<1>21. ASSUME NEW r \in Room, BootRoom(r) PROVE GuestsFollowRoom'
  BY <1>0, <1>a, <1>21 DEF BootRoom, BeginLoad, roomVars, clientVars,
     mainVars, LoadPcs, LoadKnowsItsRoom, LoadsWhereItMay, BootIsOneLoad
<1>22. ASSUME NEW r \in Room, LoadRoomCommand(r) PROVE GuestsFollowRoom'
  BY <1>0, <1>a, <1>22 DEF LoadRoomCommand, BeginLoad, Polling, roomVars,
     clientVars, mainVars, LoadPcs, LoadKnowsItsRoom, LoadsWhereItMay,
     BootIsOneLoad
<1>23. ASSUME NEW r \in Room, LoadBitWithRoom(r) PROVE GuestsFollowRoom'
  BY <1>0, <1>a, <1>23 DEF LoadBitWithRoom, BeginLoad, Polling, roomVars,
     clientVars, mainVars, LoadPcs, LoadKnowsItsRoom, LoadsWhereItMay,
     BootIsOneLoad
<1>24. ASSUME LoadBit PROVE GuestsFollowRoom'
  BY <1>0, <1>a, <1>24 DEF LoadBit, Polling, roomVars, clientVars, mainVars,
     LoadPcs, LoadKnowsItsRoom, LoadsWhereItMay, BootIsOneLoad
<1>25. ASSUME RoundEnds PROVE GuestsFollowRoom'
  BY <1>0, <1>a, <1>25 DEF RoundEnds, Polling, roomVars, clientVars, mainVars,
     LoadPcs, LoadKnowsItsRoom, LoadsWhereItMay, BootIsOneLoad
<1>26. ASSUME AbortCommand PROVE GuestsFollowRoom'
  BY <1>0, <1>a, <1>26 DEF AbortCommand, BeginUnload, MayUnload, Polling,
     roomVars, clientVars, mainVars, LoadPcs, LoadKnowsItsRoom,
     LoadsWhereItMay, BootIsOneLoad
<1>27. ASSUME NEW force \in BOOLEAN, UnloadRoomCommand(force) PROVE GuestsFollowRoom'
  BY <1>0, <1>a, <1>27 DEF UnloadRoomCommand, BeginUnload, MayUnload, Polling,
     roomVars, clientVars, mainVars, LoadPcs, LoadKnowsItsRoom,
     LoadsWhereItMay, BootIsOneLoad
<1>28. ASSUME NEW f \in Fixture, WaitTap(f) PROVE GuestsFollowRoom'
  BY <1>0, <1>a, <1>28 DEF WaitTap, AfterBinding, NextFixture, roomVars,
     clientVars, mainVars, LoadPcs, LoadKnowsItsRoom, LoadsWhereItMay,
     BootIsOneLoad
<1>29. ASSUME ArcoCrashes PROVE GuestsFollowRoom'
  BY <1>0, <1>a, <1>29 DEF ArcoCrashes, roomVars, clientVars, mainVars,
     LoadPcs, LoadKnowsItsRoom, LoadsWhereItMay, BootIsOneLoad
<1>30. ASSUME SignalInLoop PROVE GuestsFollowRoom'
  BY <1>0, <1>a, <1>30 DEF SignalInLoop, Polling, roomVars, clientVars,
     mainVars, LoadPcs, LoadKnowsItsRoom, LoadsWhereItMay, BootIsOneLoad
<1>31. ASSUME SignalInLoad PROVE GuestsFollowRoom'
  BY <1>0, <1>a, <1>31 DEF SignalInLoad, Fail, roomVars, clientVars, mainVars,
     LoadPcs, LoadKnowsItsRoom, LoadsWhereItMay, BootIsOneLoad
<1>32. ASSUME AnnounceInterrupted PROVE GuestsFollowRoom'
  BY <1>32 DEF AnnounceInterrupted
<1>33. ASSUME UNCHANGED vars PROVE GuestsFollowRoom'
  BY <1>0, <1>a, <1>33 DEF vars, roomVars, clientVars, mainVars, LoadPcs,
     LoadKnowsItsRoom, LoadsWhereItMay, BootIsOneLoad
<1> QED
  BY <1>1, <1>2, <1>3, <1>4, <1>5, <1>6, <1>7, <1>8, <1>9, <1>10, <1>11,
     <1>12, <1>13, <1>14, <1>15, <1>16, <1>17, <1>18, <1>19, <1>20, <1>21,
     <1>22, <1>23, <1>24, <1>25, <1>26, <1>27, <1>28, <1>29, <1>30, <1>31,
     <1>32, <1>33
  DEF Next, LoadStep, UnloadStep, HarnessStep, Command, Tap, Accident

-----------------------------------------------------------------------------
(* What MCTerrarium states of a spared process, for every set of Rooms and   *)
(* fixtures.  Whether the process is spared never changes, so that the steps *)
(* of a spared one are those of Terrarium, and there is nothing to show of   *)
(* the others.                                                              *)

\* Every child that runs is on the stack that will stop it, and a process that
\* went down left none, in whichever step a load failed, was interrupted or
\* Arco died.
THEOREM NoChildIsLeftBehind ==
    ASSUME CleanSpawns
    PROVE  MCSpec => []SparedOrphans
<1> DEFINE Inv == spared => Typed /\ StackFollowsState /\ Accounted
<1>1. MCInit => Inv
  <2>1. Init => StackFollowsState /\ Accounted
    BY DEF Init, StackFollowsState, Accounted
  <2> QED
    BY <2>1, InitTyped DEF MCInit
<1>2. ASSUME Inv, SparedStep \/ UNCHANGED <<vars, spared>> PROVE Inv'
  <2>1. spared' = spared /\ (spared => [Next]_vars)
    BY <1>2 DEF SparedStep
  <2> QED
    BY <1>2, <2>1, TypedStep, StackStep, AccountedStep
<1>3. ASSUME ExposedStep PROVE Inv'
  BY <1>3 DEF ExposedStep
<1>4. Inv => SparedOrphans
  <2>1. stack = <<>> => OnStack = {}
    BY DEF OnStack
  <2> QED
    BY <2>1 DEF SparedOrphans, NoOrphans, Accounted, StackFollowsState
<1> QED
  BY <1>1, <1>2, <1>3, <1>4, PTL DEF MCSpec

\* What a spared process keeps.
Spared ==
    spared =>
        /\ Typed /\ StackFollowsState /\ Accounted
        /\ RoomService /\ SyncFollowsClients
        /\ RoomIsWhole /\ GuestsFollowRoom

\* It holds at first.
LEMMA InitSpared == MCInit => Spared
<1>1. Init => RoomService /\ SyncFollowsClients
  BY DEF Init, RoomService, BootIsOneLoad, LoadsWhereItMay, ClientsFollowRoom,
     LoadPcs, SyncFollowsClients
<1>2. Init => StackFollowsState /\ Accounted
  BY DEF Init, StackFollowsState, Accounted
<1>3. Init => RoomIsWhole
  BY DEF Init, RoomIsWhole, BuiltAsFarAs, StandsWhole, NothingStands
<1>4. Init => GuestsFollowRoom
  BY DEF Init, GuestsFollowRoom
<1> QED
  BY <1>1, <1>2, <1>3, <1>4, InitTyped DEF MCInit, Spared

\* Every step keeps it.
LEMMA SparedIsKept ==
    ASSUME CrashOrSignal, Spared,
           [SparedStep \/ ExposedStep]_<<vars, spared>>
    PROVE  Spared'
<1>1. CASE ExposedStep
  BY <1>1 DEF ExposedStep, Spared
<1>2. CASE SparedStep \/ UNCHANGED <<vars, spared>>
  <2>1. spared' = spared /\ (spared => [Next]_vars)
    BY <1>2 DEF SparedStep
  <2>2. /\ CleanSpawns /\ "late" \notin Accidents
        /\ {"late", "clients"} \cap Accidents = {}
    BY DEF CrashOrSignal, CleanSpawns
  <2>3. spared => StackFollowsState' /\ Accounted'
    BY <2>1, <2>2, StackStep, AccountedStep DEF Spared
  <2>4. spared => Typed' /\ RoomService' /\ SyncFollowsClients'
    BY <2>1, <2>2, TypedStep, ServiceStep, SyncStep DEF Spared
  <2>5. spared => RoomIsWhole' /\ GuestsFollowRoom'
    BY <2>1, <2>2, WholeStep, GuestsStep DEF Spared, RoomIsWhole
  <2> QED
    BY <2>1, <2>3, <2>4, <2>5 DEF Spared
<1> QED
  BY <1>1, <1>2

\* Between operations Terrarium, GameServer, the Arco, the simulators and the
\* agent's wiring agree on the Room, whole or none; a Room that is served has
\* its clients and was wired once; pyarco's hub is not taken away.
THEOREM RoomStandsWhole ==
    ASSUME CrashOrSignal
    PROVE  MCSpec => []SparedWhole
<1>1. ASSUME Spared, spared PROVE AllOrNothing
  <2> SUFFICES ASSUME pc = "idle", main \notin {"boot", "down"}
               PROVE  /\ state \in {"no_room", "room_ready"}
                      /\ state = "no_room" => NothingStands /\ ~bit
                      /\ state = "room_ready" =>
                          /\ room \in Room /\ Standing(room)
                          /\ wired = IF stopped THEN None ELSE room
                          /\ simulated => Fixtures(room) \subseteq bound
    BY DEF AllOrNothing, NothingStands, Standing
  <2>1. state \in {"no_room", "room_ready"}
    BY <1>1 DEF Spared, StackFollowsState
  <2>2. state = "no_room" => NothingStands /\ ~bit
    BY <1>1 DEF Spared, RoomIsWhole, StandsWhole
  <2>3. ASSUME state = "room_ready"
        PROVE  /\ room \in Room /\ Standing(room)
               /\ simulated => Fixtures(room) \subseteq bound
    BY <1>1, <2>3 DEF Spared, RoomIsWhole, StandsWhole
  <2>4. ASSUME state = "room_ready" PROVE wired = IF stopped THEN None ELSE room
    <3>1. main \in {"wait", "serve", "leave", "closing"}
      BY <1>1 DEF Spared, Typed, TypeOK, RoomService, LoadsWhereItMay
    <3>2. main \in {"leave", "closing"} => wired = IF stopped THEN None ELSE room
      BY <1>1, <2>4 DEF Spared, RoomIsWhole, StandsWhole
    <3>3. main \in {"wait", "serve"} => room = gsRoom /\ (Down \/ Live)
      BY <1>1, <2>4 DEF Spared, RoomService, ClientsFollowRoom
    <3> QED
      BY <3>1, <3>2, <3>3 DEF Down, Live
  <2> QED
    BY <2>1, <2>2, <2>3, <2>4
<1>2. Spared => SparedWhole
  <2>1. Spared /\ spared => ServedOnce
    BY DEF Spared, RoomService, ClientsFollowRoom, Live, ServedOnce
  <2>2. Spared /\ spared => NeverStranded
    BY DEF Spared, SyncFollowsClients, NeverStranded, Polling
  <2> QED
    BY <1>1, <2>1, <2>2 DEF SparedWhole
<1>3. Spared /\ [SparedStep \/ ExposedStep]_<<vars, spared>> => Spared'
  BY SparedIsKept
<1> QED
  BY <1>2, <1>3, InitSpared, PTL DEF MCSpec

-----------------------------------------------------------------------------
(* A spared process implements HubLife.                                     *)

HubStep == [SparedLife!Next]_SparedLife!vars

\* The hub a client can reach is up, and any Arco that runs has its step.
LEMMA HubIsUp ==
    ASSUME Spared, spared
    PROVE  /\ Arco \in alive => loads \in 1..MaxLoads /\ Arco \in OnStack
           /\ Reachable /\ hub = loads => HubNow \in 1..MaxLoads
<1>1. Arco \in alive => loads \in 1..MaxLoads
  <2>1. alive \subseteq Children
    BY DEF Spared, Typed, TypeOK
  <2> QED
    BY <2>1 DEF Children, Arco, Child
<1>2. Arco \in alive => Arco \in OnStack
  BY DEF Spared, Accounted
<1>3. Reachable /\ hub = loads => Arco \in alive
  BY DEF Reachable, ArcoAlive, Arco
<1> QED
  BY <1>1, <1>2, <1>3 DEF HubNow

\* Where no client is up there is no guest.
LEMMA NobodyIsGuest ==
    pool = NoHub /\ transport = NoHub => GuestsNow = {}
BY DEF GuestsNow

\* While the children stay as they are the clients may come, to a hub that can
\* be reached, or go.
LEMMA ClientsMove ==
    ASSUME Spared, spared, UNCHANGED <<alive, stack, loads, spared>>,
           \/ UNCHANGED <<pool, transport>>
           \/ pool' = NoHub /\ transport' = NoHub
           \/ Reachable /\ hub = loads
    PROVE  HubStep
<1>1. HubNow' = HubNow
  BY DEF HubNow, Arco, OnStack
<1>2. CASE UNCHANGED <<pool, transport>>
  <2>1. GuestsNow' = GuestsNow
    BY <1>2 DEF GuestsNow
  <2> QED
    BY <1>1, <2>1 DEF HubStep, SparedLife!vars
<1>3. CASE pool' = NoHub /\ transport' = NoHub
  <2>1. GuestsNow' = {}
    BY <1>3 DEF GuestsNow, NoHub
  <2> QED
    BY <1>1, <2>1 DEF HubStep, SparedLife!Next, SparedLife!Disconnect
<1>4. CASE Reachable /\ hub = loads
  <2>1. GuestsNow' \in SUBSET {"pool", "transport"}
    BY DEF GuestsNow
  <2>2. HubNow \in 1..MaxLoads
    BY <1>4, HubIsUp
  <2> QED
    BY <1>1, <2>1, <2>2 DEF HubStep, SparedLife!Next, SparedLife!Connect
<1> QED
  BY <1>2, <1>3, <1>4

\* A restart of the clients is such a move.
LEMMA RestartMoves ==
    ASSUME NEW o \in Outcomes, RestartClients(o), hub = loads
    PROVE  \/ UNCHANGED <<pool, transport>>
           \/ pool' = NoHub /\ transport' = NoHub
           \/ Reachable /\ hub = loads
<1>1. Reachable \/ o.at = NoHub
  <2>1. \/ Reachable
        \/ o = [ok |-> FALSE, at |-> NoHub, synced |-> synced]
    BY DEF Outcomes
  <2> QED
    BY <2>1
<1>2. CASE stopped
  BY <1>1, <1>2 DEF RestartClients
<1>3. CASE ~stopped
  BY <1>3 DEF RestartClients, clientVars
<1> QED
  BY <1>2, <1>3

\* An Arco is spawned where none is left, and no client.
LEMMA SpawnStartsHub ==
    ASSUME CrashOrSignal, Spared, spared, spared' = spared, SpawnArco
    PROVE  HubStep
<1>1. /\ pc = "check" /\ loads' = loads + 1 /\ loads < MaxLoads
      /\ alive' = alive \cup {Child(loads + 1, ArcoName)}
      /\ UNCHANGED <<pool, transport>>
  BY DEF SpawnArco, Fail, clientVars
<1>2. pool = NoHub /\ transport = NoHub
  <2>1. state = "room_loading"
    BY <1>1 DEF Spared, Typed, LoadKnowsItsRoom, LoadPcs
  <2> QED
    BY <2>1 DEF Spared, GuestsFollowRoom
<1>3. Arco \notin alive /\ Arco \notin OnStack
  <2>1. stack = <<>>
    BY <1>1 DEF Spared, RoomIsWhole, BuiltAsFarAs
  <2>2. OnStack = {}
    BY <2>1 DEF OnStack
  <2> QED
    BY <2>2 DEF Spared, Accounted
<1>4. HubNow = NoHub /\ GuestsNow = {} /\ GuestsNow' = {}
  BY <1>1, <1>2, <1>3 DEF HubNow, GuestsNow
<1>5. loads + 1 \in 1..MaxLoads
  BY <1>1, TerrariumAssumption DEF Spared, Typed, TypeOK, TerrariumAssumption
<1>6. HubNow' = loads + 1
  BY <1>1 DEF HubNow, Arco
<1> QED
  BY <1>4, <1>5, <1>6 DEF HubStep, SparedLife!Next, SparedLife!Start

\* A simulator is no hub.
LEMMA SimulatorIsNoHub ==
    ASSUME CrashOrSignal, Spared, spared, spared' = spared,
           NEW f \in Fixture, SpawnSimulator(f)
    PROVE  HubStep
<1>1. loads' = loads /\ UNCHANGED <<pool, transport>>
  BY DEF SpawnSimulator, Fail, clientVars, childVars
<1>2. Child(loads, f) # Arco
  BY TerrariumAssumption DEF TerrariumAssumption, Child, Arco
<1>3. CASE UNCHANGED childVars
  BY <1>1, <1>3, ClientsMove DEF childVars
<1>4. CASE /\ alive' = alive \cup {Child(loads, f)}
           /\ stack' = Append(stack, Child(loads, f))
  <2>1. OnStack' = OnStack \cup {Child(loads, f)}
    BY <1>4, PushKeeps DEF Spared, Typed
  <2>2. HubNow' = HubNow
    BY <1>1, <1>2, <1>4, <2>1 DEF HubNow, Arco
  <2>3. GuestsNow' = GuestsNow
    BY <1>1 DEF GuestsNow
  <2> QED
    BY <2>2, <2>3 DEF HubStep, SparedLife!vars
<1> QED
  BY <1>3, <1>4 DEF SpawnSimulator, CrashOrSignal

\* What is unwound has no guest left.
LEMMA UnwindStopsHub ==
    ASSUME CrashOrSignal, Spared, Spared', spared, spared' = spared, UnwindStep
    PROVE  HubStep
<1>1. pc \in {"unwind", "close"} /\ Pop /\ UNCHANGED <<pool, transport>>
  BY DEF UnwindStep, clientVars
<1>2. pool = NoHub /\ transport = NoHub
  <2>1. state \in {"room_loading", "room_unloading"}
    BY <1>1 DEF Spared, RoomIsWhole, BuiltAsFarAs
  <2> QED
    BY <2>1 DEF Spared, GuestsFollowRoom
<1>3. GuestsNow = {} /\ GuestsNow' = {}
  BY <1>1, <1>2 DEF GuestsNow
<1>4. /\ alive' \subseteq alive /\ alive' \subseteq OnStack'
      /\ OnStack' \subseteq OnStack /\ Arco' = Arco /\ loads' = loads
  <2>1. alive' \subseteq alive /\ loads' = loads
    BY <1>1 DEF Pop
  <2>2. OnStack' \subseteq OnStack
    <3>1. stack \in Seq(Children)
      BY DEF Spared, Typed, TypeOK
    <3>2. /\ DOMAIN stack' \subseteq DOMAIN stack
          /\ \A i \in DOMAIN stack' : stack'[i] = stack[i]
      BY <1>1, <3>1 DEF Pop
    <3> QED
      BY <3>2 DEF OnStack
  <2> QED
    BY <2>1, <2>2 DEF Spared, Accounted, Arco
<1>5. CASE Arco \in alive'
  <2>1. HubNow' = HubNow
    BY <1>4, <1>5 DEF HubNow
  <2> QED
    BY <1>3, <2>1 DEF HubStep, SparedLife!vars
<1>6. CASE Arco \notin alive' /\ Arco \in OnStack'
  <2>1. HubNow' = -1
    BY <1>4, <1>6 DEF HubNow
  <2>2. HubNow = -1 \/ HubNow \in 1..MaxLoads
    BY <1>4, <1>6, HubIsUp DEF HubNow
  <2> QED
    BY <1>3, <2>1, <2>2
    DEF HubStep, SparedLife!vars, SparedLife!Next, SparedLife!Die
<1>7. CASE Arco \notin alive' /\ Arco \notin OnStack'
  <2>1. HubNow' = NoHub
    BY <1>4, <1>7 DEF HubNow
  <2> QED
    BY <1>3, <2>1
    DEF HubStep, SparedLife!vars, SparedLife!Next, SparedLife!Stop
<1> QED
  BY <1>5, <1>6, <1>7

\* An Arco that dies by itself is still to be cleared away.
LEMMA CrashKillsHub ==
    ASSUME Spared, spared, spared' = spared, ArcoCrashes
    PROVE  HubStep
<1>1. /\ Arco \in alive /\ alive' = alive \ {Arco}
      /\ UNCHANGED <<stack, loads, pool, transport>>
  BY DEF ArcoCrashes, Arco, clientVars
<1>2. HubNow \in 1..MaxLoads /\ Arco \in OnStack
  BY <1>1, HubIsUp DEF HubNow
<1>3. HubNow' = -1
  BY <1>1, <1>2 DEF HubNow, Arco, OnStack
<1>4. GuestsNow' = GuestsNow
  BY <1>1 DEF GuestsNow
<1> QED
  BY <1>2, <1>3, <1>4 DEF HubStep, SparedLife!Next, SparedLife!Die

\* Every step of a spared process is one of HubLife's.
LEMMA SparedStepIsHubStep ==
    ASSUME CrashOrSignal, Spared, Spared', spared, spared' = spared, [Next]_vars
    PROVE  HubStep
<1>0. /\ StandsWhole /\ BuiltAsFarAs /\ GuestsFollowRoom
      /\ LoadKnowsItsRoom /\ LoadsWhereItMay
  BY DEF Spared, RoomIsWhole, Typed, RoomService
<1>a. state = "room_ready" \/ pc = "announce" => hub = loads
  BY <1>0 DEF StandsWhole, BuiltAsFarAs, Standing
<1>1. ASSUME UNCHANGED <<alive, stack, loads, pool, transport>> PROVE HubStep
  BY <1>1, ClientsMove
<1>2. ASSUME SpawnArco PROVE HubStep
  BY <1>2, SpawnStartsHub
<1>3. ASSUME NEW f \in Fixture, SpawnSimulator(f) PROVE HubStep
  BY <1>3, SimulatorIsNoHub
<1>4. ASSUME UnwindStep PROVE HubStep
  BY <1>4, UnwindStopsHub
<1>5. ASSUME ArcoCrashes PROVE HubStep
  BY <1>5, CrashKillsHub
<1>6. ASSUME Announce PROVE HubStep
  <2>1. CASE UNCHANGED clientVars
    BY <1>1, <1>6, <2>1 DEF Announce, childVars, clientVars
  <2>2. CASE \E o \in Outcomes : WireRoom(o)
    <3>1. PICK o \in Outcomes : RestartClients(o)
      BY <2>2 DEF WireRoom
    <3>2. hub = loads /\ UNCHANGED <<alive, stack, loads>>
      BY <1>a, <1>6 DEF Announce, childVars
    <3> QED
      BY <3>1, <3>2, RestartMoves, ClientsMove
  <2> QED
    BY <1>6, <2>1, <2>2 DEF Announce
<1>7. ASSUME BootPool \/ BootTransport PROVE HubStep
  <2>1. hub = loads /\ UNCHANGED <<alive, stack, loads>>
    <3>1. state = "room_ready"
      BY <1>0, <1>7 DEF BootPool, BootTransport, LoadsWhereItMay
    <3> QED
      BY <1>a, <1>7, <3>1 DEF BootPool, BootTransport, BeginUnload, childVars
  <2>2. Reachable \/ UNCHANGED <<pool, transport>>
    BY <1>7 DEF BootPool, BootTransport, clientVars
  <2> QED
    BY <2>1, <2>2, ClientsMove
<1>8. ASSUME LoadBitResumes \/ Lap PROVE HubStep
  <2>1. PICK o \in Outcomes : RestartClients(o)
    BY <1>8 DEF LoadBitResumes, Lap, RestartOr
  <2>2. hub = loads
    BY <1>a, <1>0, <1>8 DEF LoadBitResumes, Lap, LoadsWhereItMay
  <2>3. UNCHANGED <<alive, stack, loads>>
    BY <1>8 DEF LoadBitResumes, Lap, RestartOr, BeginUnload, childVars
  <2> QED
    BY <2>1, <2>2, <2>3, RestartMoves, ClientsMove
<1>9. ASSUME CloseClients PROVE HubStep
  BY <1>9, ClientsMove DEF CloseClients, childVars
<1>10. ASSUME CheckFails \/ ArcoReady \/ ArcoNotReady \/ BindRecorded
                 \/ AllSimulated \/ WaitTimeout \/ UnwindEnd \/ Save
       PROVE  UNCHANGED <<alive, stack, loads, pool, transport>>
  BY <1>10 DEF CheckFails, ArcoReady, ArcoNotReady, BindRecorded, AllSimulated,
     WaitTimeout, UnwindEnd, Save, ClearRoom, Fail, childVars, clientVars
<1>11. ASSUME BootRoomless \/ ArcoExited \/ CloseRoom \/ LoadBit \/ RoundEnds
                 \/ AbortCommand \/ SignalInLoop \/ SignalInLoad
       PROVE  UNCHANGED <<alive, stack, loads, pool, transport>>
  BY <1>11 DEF BootRoomless, ArcoExited, CloseRoom, LoadBit, RoundEnds,
     AbortCommand, SignalInLoop, SignalInLoad, BeginUnload, Fail, childVars,
     clientVars
<1>12. ASSUME NEW r \in Room,
              BootRoom(r) \/ LoadRoomCommand(r) \/ LoadBitWithRoom(r)
       PROVE  UNCHANGED <<alive, stack, loads, pool, transport>>
  BY <1>12 DEF BootRoom, LoadRoomCommand, LoadBitWithRoom, childVars, clientVars
<1>13. ASSUME NEW force \in BOOLEAN, UnloadRoomCommand(force)
       PROVE  UNCHANGED <<alive, stack, loads, pool, transport>>
  BY <1>13 DEF UnloadRoomCommand, BeginUnload, childVars, clientVars
<1>14. ASSUME NEW f \in Fixture, WaitTap(f)
       PROVE  UNCHANGED <<alive, stack, loads, pool, transport>>
  BY <1>14 DEF WaitTap, childVars, clientVars
<1>15. ASSUME UNCHANGED vars
       PROVE  UNCHANGED <<alive, stack, loads, pool, transport>>
  BY <1>15 DEF vars, childVars, clientVars
<1>16. ~AnnounceInterrupted
  BY DEF AnnounceInterrupted, CrashOrSignal
<1> QED
  BY <1>1, <1>2, <1>3, <1>4, <1>5, <1>6, <1>7, <1>8, <1>9, <1>10, <1>11, <1>12,
     <1>13, <1>14, <1>15, <1>16
  DEF Next, LoadStep, UnloadStep, HarnessStep, Command, Tap, Accident

\* The refinement: no client of Control connects to a hub that is not up, and
\* no hub is taken down under a client.
THEOREM ClientsKeepToHub ==
    ASSUME CrashOrSignal
    PROVE  MCSpec => SparedHub
<1>1. MCInit => SparedLife!Init
  <2> SUFFICES ASSUME MCInit PROVE HubNow = NoHub /\ GuestsNow = {}
    BY DEF SparedLife!Init
  <2>1. alive = {} /\ OnStack = {} /\ pool = NoHub /\ transport = NoHub
    BY DEF MCInit, Init, OnStack
  <2> QED
    BY <2>1 DEF HubNow, GuestsNow
<1>2. ASSUME Spared, Spared', [SparedStep \/ ExposedStep]_<<vars, spared>>
      PROVE  [SparedLife!Next]_SparedLife!vars
  <2>1. spared' = spared
    BY <1>2 DEF SparedStep, ExposedStep
  <2>2. CASE spared
    <3>1. [Next]_vars
      BY <1>2, <2>2 DEF SparedStep, ExposedStep
    <3> QED
      BY <1>2, <2>1, <2>2, <3>1, SparedStepIsHubStep DEF HubStep
  <2>3. CASE ~spared
    BY <2>1, <2>3 DEF SparedLife!vars, HubNow, GuestsNow
  <2> QED
    BY <2>2, <2>3
<1>3. Spared /\ [SparedStep \/ ExposedStep]_<<vars, spared>> => Spared'
  BY SparedIsKept
<1> QED
  BY <1>1, <1>2, <1>3, InitSpared, PTL DEF MCSpec, SparedHub, SparedLife!Spec

-----------------------------------------------------------------------------
(***************************************************************************)
(* The sound of the Room that is up (Music): which channel is whose, and   *)
(* that a Stop is silence.                                                 *)
(***************************************************************************)

\* A channel and what it holds, a track, and the items of a queue in their order.
VoiceOK(v) == v = [down |-> v.down, held |-> v.held, pedal |-> v.pedal, volume |-> v.volume]
TrackOK(tr) ==
    /\ tr = [on |-> tr.on, origin |-> tr.origin, cursor |-> tr.cursor, struck |-> tr.struck]
    /\ IsFiniteSet(tr.struck)
InLine(q) == q \in Seq(ToSet(q))

\* Every channel has one owner, and what an owner gives back is fresh: a bell's
\* after its one note is let go, a part's after it is quieted.
Rings(v, key) == v = NoteOn(Fresh, key)
Granted(s) == ToSet(s.parts)
Ringing(s) == {b.channel : b \in s.bells}
BridgeOK(s) ==
    /\ s = [free |-> s.free, parts |-> s.parts, drone |-> s.drone, bells |-> s.bells,
            synth |-> s.synth]
    /\ s.synth = [c \in Channels |-> s.synth[c]] /\ \A c \in Channels : VoiceOK(s.synth[c])
    /\ s.parts \in Seq(Channels)
    /\ Channels = s.free \cup Granted(s) \cup Ringing(s)
    /\ s.free \cap (Granted(s) \cup Ringing(s)) = {}
    /\ Granted(s) \cap Ringing(s) = {}
    /\ \A i, j \in DOMAIN s.parts : s.parts[i] = s.parts[j] => i = j
    /\ \A a, b \in s.bells : a.channel = b.channel => a = b
    /\ \A b \in s.bells :
          /\ b = [left |-> b.left, channel |-> b.channel, key |-> b.key]
          /\ Rings(s.synth[b.channel], b.key)
    /\ DrumChannel \notin Ringing(s)
    /\ \A c \in s.free : s.synth[c] = Fresh

\* The drum channel is granted to a drum kit.
KitsDrum(parts, drumsOf) == \A i \in DOMAIN parts : parts[i] = DrumChannel => drumsOf[i]

MusicTypes ==
    /\ now \in Nat /\ t0 \in Nat \cup {NoTime} /\ next \in DOMAIN Order
    /\ DOMAIN tracks = Tracks /\ \A t \in Tracks : TrackOK(tracks[t])
    /\ InLine(queue)

\* Nothing waits to sound while the fixture is muted.
MutedIsQuiet == muted => phase = "running" /\ queue = <<>>

MusicInv ==
    /\ MusicTypes /\ BridgeOK(sound)
    /\ KitsDrum(sound.parts, role) /\ (phase = "idle" => DrumChannel \notin Granted(sound))
    /\ MutedIsQuiet /\ SilentWhileMuted

-----------------------------------------------------------------------------
(* Steps and sequences                                                     *)

\* Counting up to k reaches every number.
LEMMA CountedUp ==
    ASSUME NEW k \in Nat, NEW T, 0 \in T, \A n \in 1 .. k : n - 1 \in T => n \in T
    PROVE  \A n \in 0 .. k : n \in T
<1>. SUFFICES ASSUME NEW m \in 0 .. k, m \notin T PROVE FALSE
  OBVIOUS
<1>. DEFINE Missed == (0 .. k) \ T
<1>1. Missed \subseteq Nat /\ Missed # {}
  OBVIOUS
<1>2. PICK d \in Missed : \A c \in Missed : <<c, d>> \notin OpToRel(<, Nat)
  BY <1>1, NatLessThanWellFounded, WFMin
<1>3. d \in Nat /\ d # 0 /\ d - 1 \in 0 .. k /\ d \in 1 .. k /\ d \notin T
  OBVIOUS
<1>4. d - 1 \notin T
  BY <1>3
<1>5. d - 1 \in Missed /\ d - 1 \in Nat /\ d - 1 < d
  BY <1>3, <1>4
<1>6. <<d - 1, d>> \in OpToRel(<, Nat)
  BY <1>3, <1>5, Zenon DEF OpToRel
<1>. QED BY <1>2, <1>5, <1>6

\* The state h[n] is what step n of k makes of the one before, from x on.
Iterates(h, k, step, x) == h[0] = x /\ \A n \in 1 .. k : h[n] = step[n][h[n - 1]]

\* A state follows from each of k steps.
LEMMA Steps ==
    ASSUME NEW S, NEW k \in Nat, NEW F \in [1 .. k -> [S -> S]], NEW x \in S
    PROVE  \E h \in [0 .. k -> S] : Iterates(h, k, F, x)
<1>. DEFINE T == {j \in 0 .. k : \E h \in [0 .. j -> S] : Iterates(h, j, F, x)}
<1>1. 0 \in T
  <2>. DEFINE h == [n \in 0 .. 0 |-> x]
  <2>1. h \in [0 .. 0 -> S] /\ h[0] = x /\ 1 .. 0 = {}
    OBVIOUS
  <2>. HIDE DEF h
  <2>2. h \in [0 .. 0 -> S] /\ Iterates(h, 0, F, x)
    BY <2>1 DEF Iterates
  <2>3. 0 \in 0 .. k
    OBVIOUS
  <2>. QED BY <2>2, <2>3
<1>2. ASSUME NEW n \in 1 .. k, n - 1 \in T PROVE n \in T
  <2>1. PICK g \in [0 .. n - 1 -> S] : Iterates(g, n - 1, F, x)
    BY <1>2
  <2>. DEFINE h == [j \in 0 .. n |-> IF j = n THEN F[n][g[n - 1]] ELSE g[j]]
  <2>2. n \in Nat /\ n - 1 \in 0 .. n - 1 /\ g[n - 1] \in S /\ F[n][g[n - 1]] \in S
    OBVIOUS
  <2>3. h \in [0 .. n -> S]
    BY <2>2
  <2>4. h[0] = x
    BY <2>1, <2>2 DEF Iterates
  <2>5. ASSUME NEW j \in 1 .. n PROVE h[j] = F[j][h[j - 1]]
    <3>1. j - 1 \in 0 .. n /\ j \in 0 .. n /\ j - 1 # n /\ h[j - 1] = g[j - 1]
      OBVIOUS
    <3>2. CASE j = n
      <4>1. h[n] = F[n][g[n - 1]]
        BY <2>2
      <4>. QED BY <3>1, <3>2, <4>1
    <3>3. CASE j # n
      <4>1. j \in 1 .. n - 1
        BY <3>3
      <4>2. h[j] = g[j]
        BY <3>1, <3>3
      <4>. QED BY <2>1, <3>1, <4>1, <4>2 DEF Iterates
    <3>. QED BY <3>2, <3>3
  <2>. HIDE DEF h
  <2>6. Iterates(h, n, F, x)
    BY <2>4, <2>5 DEF Iterates
  <2>7. n \in 0 .. k
    OBVIOUS
  <2>. QED BY <2>3, <2>6, <2>7
<1>. HIDE DEF T
<1>3. \A n \in 0 .. k : n \in T
  BY <1>1, <1>2, CountedUp
<1>4. k \in T
  BY <1>3
<1>. QED BY <1>4 DEF T

\* The members of a set, in some order.
LEMMA SetInSequence ==
    ASSUME NEW S, IsFiniteSet(S)
    PROVE  SetToSeq(S) \in Seq(S)
<1>. DEFINE n == Cardinality(S)
<1>1. n \in Nat /\ ExistsBijection(1 .. n, S)
  BY FS_CardinalityType
<1>2. \E f \in [1 .. n -> S] : IsInjective(f)
  BY <1>1 DEF ExistsBijection, Bijection, Injection
<1>3. SetToSeq(S) = CHOOSE f \in [1 .. n -> S] : IsInjective(f)
  BY DEF SetToSeq
<1>4. SetToSeq(S) \in [1 .. n -> S]
  BY <1>2, <1>3
<1>. QED BY <1>1, <1>4

-----------------------------------------------------------------------------
(* Sequences                                                               *)

\* A finite run of anything is a sequence.
LEMMA RunIsInLine ==
    ASSUME NEW q, NEW n \in Nat, q = [i \in 1 .. n |-> q[i]]
    PROVE  InLine(q) /\ Len(q) = n /\ DOMAIN q = 1 .. n
<1>1. DOMAIN q = 1 .. n
  OBVIOUS
<1>2. \A i \in 1 .. n : q[i] \in ToSet(q)
  BY <1>1 DEF ToSet
<1>3. [i \in 1 .. n |-> q[i]] \in Seq(ToSet(q))
  BY <1>2
<1>4. q \in Seq(ToSet(q))
  BY <1>3
<1>. QED BY <1>1, <1>4, LenProperties DEF InLine

LEMMA SeqIsInLine ==
    ASSUME NEW S, NEW q \in Seq(S)
    PROVE  /\ InLine(q) /\ ToSet(q) \subseteq S /\ Len(q) \in Nat /\ DOMAIN q = 1 .. Len(q)
           /\ q = [i \in 1 .. Len(q) |-> q[i]]
<1>1. Len(q) \in Nat /\ DOMAIN q = 1 .. Len(q) /\ q = [i \in 1 .. Len(q) |-> q[i]]
  BY LenProperties
<1>2. \A i \in 1 .. Len(q) : q[i] \in S
  BY ElementOfSeq
<1>. QED BY <1>1, <1>2, RunIsInLine DEF ToSet

LEMMA InLineParts ==
    ASSUME NEW q, InLine(q)
    PROVE  /\ Len(q) \in Nat /\ DOMAIN q = 1 .. Len(q)
           /\ q = [i \in 1 .. Len(q) |-> q[i]]
BY SeqIsInLine DEF InLine

LEMMA UpTo ==
    ASSUME NEW n \in Nat
    PROVE  IsFiniteSet(1 .. n) /\ Cardinality(1 .. n) = n
<1>1. 1 \in Int /\ n \in Int
  OBVIOUS
<1>. QED BY <1>1, FS_Interval

LEMMA ImageIsFinite ==
    ASSUME NEW S, IsFiniteSet(S), NEW f, f = [x \in S |-> f[x]]
    PROVE  IsFiniteSet({f[x] : x \in S})
<1>. DEFINE T == {f[x] : x \in S}
<1>1. f \in [S -> T] /\ \A y \in T : \E x \in S : f[x] = y
  OBVIOUS
<1>2. f \in Surjection(S, T)
  BY <1>1 DEF Surjection
<1>. QED BY <1>2, FS_Surjection

LEMMA InLineIsFinite ==
    ASSUME NEW q, InLine(q)
    PROVE  IsFiniteSet(DOMAIN q) /\ IsFiniteSet(ToSet(q))
<1>1. IsFiniteSet(DOMAIN q) /\ q = [i \in DOMAIN q |-> q[i]]
  BY InLineParts, UpTo
<1>2. ToSet(q) = {q[i] : i \in DOMAIN q}
  BY DEF ToSet
<1>. QED BY <1>1, <1>2, ImageIsFinite

\* Some of a finite set in their order, whatever it is.
LEMMA InOrderIsInLine ==
    ASSUME NEW S, IsFiniteSet(S), NEW q, DOMAIN q = 1 .. Cardinality(S),
           q = [n \in DOMAIN q |-> q[n]]
    PROVE  InLine(q)
BY FS_CardinalityType, RunIsInLine

\* The lengths of two sequences put together.
LEMMA BothInLine ==
    ASSUME NEW S, NEW a \in Seq(S), NEW b \in Seq(S)
    PROVE  a \o b \in Seq(S)
OBVIOUS

\* The first of some numbers is one of them.
LEMMA MinIsOne ==
    ASSUME NEW S \in SUBSET Nat, S # {}
    PROVE  Min(S) \in S
<1>1. PICK m \in S : \A n \in S : <<n, m>> \notin OpToRel(<, Nat)
  BY NatLessThanWellFounded, WFMin
<1>2. ASSUME NEW n \in S PROVE m =< n
  <2>1. n \in Nat /\ m \in Nat
    OBVIOUS
  <2>2. ~(n < m)
    BY <1>1, <2>1, Zenon DEF OpToRel
  <2>. QED BY <2>1, <2>2
<1>3. m \in S /\ \A n \in S : m =< n
  BY <1>2
<1>. QED BY <1>3 DEF Min

-----------------------------------------------------------------------------
(* Channels and bridges                                                    *)

LEMMA ChannelsAre == Channels \subseteq Nat /\ DrumChannel \in Channels
BY ChannelAssumption

\* What a channel may hold, of some keys, pedals and volumes.
Voices(K, P, W) == [down : SUBSET K, held : SUBSET K, pedal : P, volume : W]

LEMMA FreshIsVoice == VoiceOK(Fresh)
BY DEF Fresh, VoiceOK

LEMMA EffectIsVoice ==
    ASSUME NEW v, VoiceOK(v), NEW kind, NEW value
    PROVE  VoiceOK(Effect(v, kind, value))
<1>. DEFINE d == v.down
            h == v.held
            p == v.pedal
            x == v.volume
<1>1. v = [down |-> d, held |-> h, pedal |-> p, volume |-> x]
  BY DEF VoiceOK
<1>. HIDE DEF d, h, p, x
<1>2. CASE kind = "on"
  BY <1>1, <1>2 DEF Effect, NoteOn, VoiceOK
<1>3. CASE kind = "off"
  BY <1>1, <1>3 DEF Effect, NoteOff, VoiceOK
<1>4. CASE kind = "down"
  BY <1>1, <1>4 DEF Effect, Pedal, VoiceOK
<1>5. CASE kind = "up"
  BY <1>1, <1>5 DEF Effect, Pedal, VoiceOK
<1>6. CASE kind = "volume"
  BY <1>1, <1>6 DEF Effect, Volume, VoiceOK
<1>7. CASE kind \notin {"on", "off", "down", "up", "volume"}
  <2>1. Effect(v, kind, value) = v
    BY <1>7 DEF Effect
  <2>. QED BY <2>1
<1>. QED BY <1>2, <1>3, <1>4, <1>5, <1>6, <1>7

LEMMA EffectIsTyped ==
    ASSUME NEW K, NEW P, NEW W, {TRUE, FALSE} \subseteq P, NEW v \in Voices(K, P, W),
           NEW kind, NEW value \in K \cap W
    PROVE  Effect(v, kind, value) \in Voices(K, P, W)
<1>1. CASE kind = "on"
  BY <1>1 DEF Effect, NoteOn, Voices
<1>2. CASE kind = "off"
  BY <1>2 DEF Effect, NoteOff, Voices
<1>3. CASE kind = "down"
  BY <1>3 DEF Effect, Pedal, Voices
<1>4. CASE kind = "up"
  BY <1>4 DEF Effect, Pedal, Voices
<1>5. CASE kind = "volume"
  BY <1>5 DEF Effect, Volume, Voices
<1>6. CASE kind \notin {"on", "off", "down", "up", "volume"}
  <2>1. Effect(v, kind, value) = v
    BY <1>6 DEF Effect
  <2>. QED BY <2>1
<1>. QED BY <1>1, <1>2, <1>3, <1>4, <1>5, <1>6

LEMMA AllOffIsVoice ==
    ASSUME NEW v, VoiceOK(v)
    PROVE  VoiceOK(AllOff(v))
<1>. DEFINE u == [v EXCEPT !.down = {}]
            rest == IF v.pedal THEN v.held \cup v.down ELSE v.held
            w == [u EXCEPT !.held = rest]
<1>1. VoiceOK(u)
  BY DEF VoiceOK
<1>. HIDE DEF rest, u
<1>2. VoiceOK(w)
  BY <1>1 DEF VoiceOK
<1>3. AllOff(v) = w
  BY Zenon DEF AllOff, u, rest
<1>. QED BY <1>2, <1>3

\* All off, with the pedal up and the volume back, is fresh.
LEMMA OffIsFresh ==
    ASSUME NEW v, VoiceOK(v), v.held = {}, v.pedal = FALSE, v.volume = "default"
    PROVE  AllOff(v) = Fresh
<1>1. VoiceOK(AllOff(v))
  BY AllOffIsVoice
<1>2. AllOff(v).down = {}
  BY DEF AllOff, VoiceOK
<1>3. AllOff(v).held = {}
  BY DEF AllOff, VoiceOK
<1>4. AllOff(v).pedal = FALSE
  BY DEF AllOff, VoiceOK
<1>5. AllOff(v).volume = "default"
  BY DEF AllOff, VoiceOK
<1>. QED BY <1>1, <1>2, <1>3, <1>4, <1>5, Zenon DEF VoiceOK, Fresh

\* Whatever a channel held, quieted it is fresh; so is a bell's whose note is over.
LEMMA QuietIsFresh ==
    ASSUME NEW v, VoiceOK(v)
    PROVE  Quiet(v) = Fresh
<1>. DEFINE w == Pedal(v, FALSE)
            u == Volume(w, "default")
<1>1. VoiceOK(w) /\ w = Effect(v, "up", 0)
  <2>1. Effect(v, "up", 0) = Pedal(v, FALSE)
    BY DEF Effect
  <2>. QED BY <2>1, EffectIsVoice
<1>2. w.held = {}
  BY DEF Pedal, VoiceOK
<1>3. w.pedal = FALSE
  BY DEF Pedal, VoiceOK
<1>. HIDE DEF w
<1>4. VoiceOK(u)
  <2>1. Effect(w, "volume", "default") = u
    BY DEF Effect
  <2>. QED BY <1>1, <2>1, EffectIsVoice
<1>5. u.held = {}
  BY <1>1, <1>2 DEF Volume, VoiceOK
<1>6. u.pedal = FALSE
  BY <1>1, <1>3 DEF Volume, VoiceOK
<1>7. u.volume = "default"
  BY <1>1 DEF Volume, VoiceOK
<1>8. Quiet(v) = AllOff(u)
  BY DEF Quiet, u, w
<1>. HIDE DEF u
<1>. QED BY <1>4, <1>5, <1>6, <1>7, <1>8, OffIsFresh

LEMMA RungIsFresh ==
    ASSUME NEW v, NEW key, Rings(v, key)
    PROVE  AllOff(v) = Fresh /\ VoiceOK(v)
<1>1. v = [down |-> {key}, held |-> {}, pedal |-> FALSE, volume |-> "default"]
  BY DEF Rings, NoteOn, Fresh
<1>2. v.held = {} /\ v.volume = "default"
  BY <1>1
<1>3. v.pedal = FALSE
  BY <1>1
<1>4. VoiceOK(v)
  BY <1>1 DEF VoiceOK
<1>. QED BY <1>2, <1>3, <1>4, OffIsFresh

\* A bridge of which some fields are others.
Bridge(f, p, d, b, y) == [free |-> f, parts |-> p, drone |-> d, bells |-> b, synth |-> y]

LEMMA BridgeChanged ==
    ASSUME NEW s, s = Bridge(s.free, s.parts, s.drone, s.bells, s.synth),
           NEW f, NEW p, NEW b
    PROVE  /\ [s EXCEPT !.free = f, !.parts = p] = Bridge(f, p, s.drone, s.bells, s.synth)
           /\ [s EXCEPT !.bells = b] = Bridge(s.free, s.parts, s.drone, b, s.synth)
<1>. DEFINE u == [s EXCEPT !.free = f]
            v == [u EXCEPT !.parts = p]
<1>1. u = Bridge(f, s.parts, s.drone, s.bells, s.synth)
  BY DEF Bridge
<1>2. [s EXCEPT !.free = f, !.parts = p] = v
  BY Zenon
<1>. HIDE DEF u
<1>3. v = Bridge(f, p, s.drone, s.bells, s.synth)
  BY <1>1 DEF Bridge
<1>4. [s EXCEPT !.bells = b] = Bridge(s.free, s.parts, s.drone, b, s.synth)
  BY DEF Bridge
<1>. QED BY <1>2, <1>3, <1>4

LEMMA BridgeFields ==
    ASSUME NEW s, BridgeOK(s)
    PROVE  s = Bridge(s.free, s.parts, s.drone, s.bells, s.synth)
BY DEF BridgeOK, Bridge

\* x is s but for what its own parts' channels sound.
Retuned(s, x) ==
    /\ x = [free |-> s.free, parts |-> s.parts, drone |-> x.drone, bells |-> s.bells,
            synth |-> x.synth]
    /\ x.synth = [c \in Channels |-> x.synth[c]] /\ \A c \in Channels : VoiceOK(x.synth[c])
    /\ \A c \in Channels \ Granted(s) : x.synth[c] = s.synth[c]

LEMMA RetunedKeeps ==
    ASSUME NEW s, BridgeOK(s), NEW x, Retuned(s, x)
    PROVE  /\ BridgeOK(x) /\ x.parts = s.parts /\ x.free = s.free /\ x.bells = s.bells
<1>1. x.parts = s.parts /\ x.free = s.free /\ x.bells = s.bells
  BY DEF Retuned
<1>2. Granted(x) = Granted(s) /\ Ringing(x) = Ringing(s)
  BY <1>1 DEF Granted, Ringing
<1>3. /\ s.free \subseteq Channels \ Granted(s)
      /\ \A b \in s.bells : b.channel \in Channels \ Granted(s)
  BY DEF BridgeOK, Ringing
<1>4. /\ \A c \in s.free : x.synth[c] = s.synth[c]
      /\ \A b \in s.bells : x.synth[b.channel] = s.synth[b.channel]
  BY <1>3 DEF Retuned
<1>5. /\ x = [free |-> x.free, parts |-> x.parts, drone |-> x.drone, bells |-> x.bells,
              synth |-> x.synth]
      /\ x.synth = [c \in Channels |-> x.synth[c]] /\ \A c \in Channels : VoiceOK(x.synth[c])
  BY <1>1 DEF Retuned
<1>6. /\ x.parts \in Seq(Channels)
      /\ Channels = x.free \cup Granted(x) \cup Ringing(x)
      /\ x.free \cap (Granted(x) \cup Ringing(x)) = {}
      /\ Granted(x) \cap Ringing(x) = {}
      /\ \A i, j \in DOMAIN x.parts : x.parts[i] = x.parts[j] => i = j
      /\ \A a, b \in x.bells : a.channel = b.channel => a = b
      /\ DrumChannel \notin Ringing(x)
  BY <1>1, <1>2 DEF BridgeOK
<1>7. /\ \A b \in x.bells :
          /\ b = [left |-> b.left, channel |-> b.channel, key |-> b.key]
          /\ Rings(x.synth[b.channel], b.key)
      /\ \A c \in x.free : x.synth[c] = Fresh
  BY <1>1, <1>4 DEF BridgeOK
<1>. QED BY <1>1, <1>5, <1>6, <1>7 DEF BridgeOK

LEMMA RetunedTwice ==
    ASSUME NEW s, NEW x, NEW y, Retuned(s, x), Retuned(x, y)
    PROVE  Retuned(s, y)
<1>1. x.parts = s.parts /\ x.free = s.free /\ x.bells = s.bells
  BY DEF Retuned
<1>. QED BY <1>1 DEF Retuned, Granted

LEMMA RetunedNot ==
    ASSUME NEW s, BridgeOK(s)
    PROVE  Retuned(s, s)
BY DEF BridgeOK, Retuned

\* The part an event is for has its channel among those granted.
LEMMA PartIsGranted ==
    ASSUME NEW s, BridgeOK(s), s.parts # <<>>, NEW part
    PROVE  Part(s, part) \in Granted(s)
<1>1. s.parts \in Seq(Channels)
  BY DEF BridgeOK
<1>2. DOMAIN s.parts = 1 .. Len(s.parts) /\ Len(s.parts) \in Nat
  BY <1>1, SeqIsInLine
<1>3. Len(s.parts) # 0
  BY <1>1
<1>4. 1 \in DOMAIN s.parts
  BY <1>2, <1>3
<1>. QED BY <1>4 DEF Part, Granted, ToSet

LEMMA FeedMidiRetunes ==
    ASSUME NEW s, BridgeOK(s), NEW part, NEW kind, NEW value
    PROVE  Retuned(s, FeedMidi(s, part, kind, value)) /\ FeedMidi(s, part, kind, value).drone = s.drone
<1>1. CASE s.parts = <<>>
  BY <1>1, RetunedNot DEF FeedMidi
<1>2. CASE s.parts # <<>>
  <2>. DEFINE y == [c \in Channels |-> IF c \in {Part(s, part)}
                                       THEN Effect(s.synth[c], kind, value) ELSE s.synth[c]]
              x == FeedMidi(s, part, kind, value)
  <2>1. x = [s EXCEPT !.synth = y]
    BY <1>2 DEF FeedMidi, On
  <2>2. \A c \in Channels : VoiceOK(y[c])
    BY EffectIsVoice DEF BridgeOK
  <2>3. \A c \in Channels \ Granted(s) : y[c] = s.synth[c]
    BY <1>2, PartIsGranted
  <2>4. y = [c \in Channels |-> y[c]]
    OBVIOUS
  <2>. HIDE DEF y
  <2>5. x = [free |-> s.free, parts |-> s.parts, drone |-> s.drone, bells |-> s.bells,
             synth |-> y]
    BY <2>1 DEF BridgeOK
  <2>. HIDE DEF x
  <2>6. Retuned(s, x) /\ x.drone = s.drone
    BY <2>2, <2>3, <2>4, <2>5 DEF Retuned
  <2>. QED BY <2>6 DEF x
<1>. QED BY <1>1, <1>2

LEMMA StartDroneRetunes ==
    ASSUME NEW s, BridgeOK(s), NEW key
    PROVE  Retuned(s, StartDrone(s, key))
<1>1. CASE s.parts = <<>> \/ s.drone # NoKey
  BY <1>1, RetunedNot DEF StartDrone
<1>2. CASE ~(s.parts = <<>> \/ s.drone # NoKey)
  <2>. DEFINE f == FeedMidi(s, 1, "on", key)
              x == [f EXCEPT !.drone = key]
  <2>1. Retuned(s, f)
    BY FeedMidiRetunes
  <2>2. StartDrone(s, key) = x
    BY <1>2 DEF StartDrone
  <2>. HIDE DEF f
  <2>3. Retuned(s, x)
    BY <2>1 DEF Retuned
  <2>. QED BY <2>2, <2>3
<1>. QED BY <1>1, <1>2

LEMMA StopDroneRetunes ==
    ASSUME NEW s, BridgeOK(s)
    PROVE  Retuned(s, StopDrone(s))
<1>1. CASE s.drone = NoKey
  BY <1>1, RetunedNot DEF StopDrone
<1>2. CASE s.drone # NoKey
  <2>. DEFINE f == FeedMidi(s, 1, "off", s.drone)
              x == [f EXCEPT !.drone = NoKey]
  <2>1. Retuned(s, f)
    BY FeedMidiRetunes
  <2>2. StopDrone(s) = x
    BY <1>2 DEF StopDrone
  <2>. HIDE DEF f
  <2>3. Retuned(s, x)
    BY <2>1 DEF Retuned
  <2>. QED BY <2>2, <2>3
<1>. QED BY <1>1, <1>2

\* Silenced, all that is granted is fresh.
LEMMA SilenceRetunes ==
    ASSUME NEW s, BridgeOK(s)
    PROVE  Retuned(s, Silence(s)) /\ \A c \in Granted(s) : Silence(s).synth[c] = Fresh
<1>. DEFINE o == StopDrone(s)
            y == [c \in Channels |-> IF c \in ToSet(s.parts) THEN Quiet(o.synth[c])
                                     ELSE o.synth[c]]
            x == Silence(s)
<1>1. Retuned(s, o) /\ BridgeOK(o) /\ o.parts = s.parts
  BY StopDroneRetunes, RetunedKeeps
<1>2. x = [o EXCEPT !.synth = y]
  BY DEF Silence, On
<1>. HIDE DEF o
<1>3. Granted(s) = ToSet(s.parts) /\ Granted(o) = Granted(s) /\ Granted(s) \subseteq Channels
  BY <1>1 DEF Granted, BridgeOK
<1>4. \A c \in Channels : VoiceOK(o.synth[c])
  BY <1>1 DEF BridgeOK
<1>5. \A c \in Granted(s) : y[c] = Fresh
  BY <1>3, <1>4, QuietIsFresh
<1>6. \A c \in Channels \ Granted(s) : y[c] = o.synth[c]
  BY <1>3
<1>7. y = [c \in Channels |-> y[c]] /\ \A c \in Channels : VoiceOK(y[c])
  BY <1>3, <1>4, <1>5, <1>6, FreshIsVoice
<1>. HIDE DEF y
<1>8. o = [free |-> o.free, parts |-> o.parts, drone |-> o.drone, bells |-> o.bells,
           synth |-> o.synth]
  BY <1>1 DEF BridgeOK
<1>9. x = [free |-> o.free, parts |-> o.parts, drone |-> o.drone, bells |-> o.bells,
           synth |-> y]
  BY <1>2, <1>8
<1>. HIDE DEF x
<1>10. Retuned(o, x)
  BY <1>3, <1>6, <1>7, <1>9 DEF Retuned
<1>11. Retuned(s, x)
  BY <1>1, <1>10, RetunedTwice
<1>12. \A c \in Granted(s) : x.synth[c] = Fresh
  BY <1>5, <1>9
<1>. QED BY <1>11, <1>12 DEF x

\* The fixture's channels go back to the pool as they left it.
LEMMA OnReleaseKeeps ==
    ASSUME NEW s, BridgeOK(s)
    PROVE  BridgeOK(OnRelease(s)) /\ OnRelease(s).parts = <<>>
<1>. DEFINE q == Silence(s)
            f == q.free \cup ToSet(s.parts)
            x == OnRelease(s)
<1>1. /\ Retuned(s, q) /\ \A c \in Granted(s) : q.synth[c] = Fresh
      /\ BridgeOK(q) /\ q.parts = s.parts /\ q.free = s.free /\ q.bells = s.bells
  BY SilenceRetunes, RetunedKeeps
<1>2. x = [q EXCEPT !.free = f, !.parts = <<>>]
  BY DEF OnRelease, Released
<1>. HIDE DEF q
<1>3. x = [free |-> f, parts |-> <<>>, drone |-> q.drone, bells |-> q.bells,
           synth |-> q.synth]
  BY <1>1, <1>2 DEF BridgeOK
<1>4. /\ Granted(s) = ToSet(s.parts) /\ Granted(q) = Granted(s)
      /\ f = q.free \cup Granted(q)
  BY <1>1 DEF Granted
<1>. HIDE DEF f, x
<1>5. /\ x.free = f /\ x.parts = <<>> /\ x.bells = q.bells /\ x.synth = q.synth
      /\ x = [free |-> x.free, parts |-> x.parts, drone |-> x.drone, bells |-> x.bells,
              synth |-> x.synth]
  BY <1>3
<1>6. Granted(x) = {} /\ Ringing(x) = Ringing(q)
  BY <1>5 DEF Granted, Ringing, ToSet
<1>7. /\ Channels = x.free \cup Granted(x) \cup Ringing(x)
      /\ x.free \cap (Granted(x) \cup Ringing(x)) = {}
      /\ Granted(x) \cap Ringing(x) = {} /\ DrumChannel \notin Ringing(x)
  BY <1>1, <1>4, <1>5, <1>6 DEF BridgeOK
<1>8. \A c \in x.free : x.synth[c] = Fresh
  BY <1>1, <1>4, <1>5 DEF BridgeOK
<1>9. /\ x.synth = [c \in Channels |-> x.synth[c]] /\ \A c \in Channels : VoiceOK(x.synth[c])
      /\ \A a, b \in x.bells : a.channel = b.channel => a = b
      /\ \A b \in x.bells :
            /\ b = [left |-> b.left, channel |-> b.channel, key |-> b.key]
            /\ Rings(x.synth[b.channel], b.key)
  BY <1>1, <1>5 DEF BridgeOK
<1>10. x.parts \in Seq(Channels) /\ \A i, j \in DOMAIN x.parts : x.parts[i] = x.parts[j] => i = j
  BY <1>5
<1>11. BridgeOK(x)
  BY <1>5, <1>7, <1>8, <1>9, <1>10 DEF BridgeOK
<1>. QED BY <1>5, <1>11 DEF x

-----------------------------------------------------------------------------
(* Grants and bells                                                        *)

\* One part more gets a channel, or none is left for it.
MoreOf(free, g, drums) ==
    LET chans == Available(free \ ToSet(g), drums)
    IN  IF chans = {} THEN g ELSE Append(g, Min(chans))

\* Channels that are free, and no two the same.
Distinct(free) == {g \in Seq(free) : \A i, j \in DOMAIN g : g[i] = g[j] => i = j}

LEMMA MoreOfIs ==
    ASSUME NEW free \in SUBSET Channels, NEW g \in Distinct(free), NEW drums \in BOOLEAN
    PROVE  LET x == MoreOf(free, g, drums)
           IN  /\ x \in Distinct(free)
               /\ \/ x = g
                  \/ /\ Len(x) = Len(g) + 1 /\ \A i \in 1 .. Len(g) : x[i] = g[i]
                     /\ x[Len(g) + 1] = DrumChannel => drums
<1>. DEFINE chans == Available(free \ ToSet(g), drums)
            c == Min(chans)
            x == Append(g, c)
<1>1. CASE chans = {}
  <2>1. MoreOf(free, g, drums) = g
    BY <1>1 DEF MoreOf
  <2>. QED BY <2>1
<1>2. CASE chans # {}
  <2>1. chans \subseteq free \ ToSet(g) /\ chans \subseteq Nat /\ (DrumChannel \in chans => drums)
    BY ChannelsAre DEF Available
  <2>. HIDE DEF chans
  <2>2. c \in chans
    BY <1>2, <2>1, MinIsOne
  <2>3. c \in free /\ c \notin ToSet(g) /\ (c = DrumChannel => drums)
    BY <2>1, <2>2
  <2>. HIDE DEF c
  <2>4. /\ g \in Seq(free) /\ Len(g) \in Nat /\ DOMAIN g = 1 .. Len(g)
        /\ \A i, j \in DOMAIN g : g[i] = g[j] => i = j
    BY SeqIsInLine DEF Distinct
  <2>5. \A i \in 1 .. Len(g) : g[i] # c
    BY <2>3, <2>4 DEF ToSet
  <2>6. /\ x \in Seq(free) /\ Len(x) = Len(g) + 1 /\ DOMAIN x = 1 .. Len(g) + 1
        /\ (\A i \in 1 .. Len(g) : x[i] = g[i]) /\ x[Len(g) + 1] = c
    BY <2>3, <2>4
  <2>. HIDE DEF x
  <2>7. ASSUME NEW i \in DOMAIN x, NEW j \in DOMAIN x, x[i] = x[j] PROVE i = j
    <3>1. CASE i \in 1 .. Len(g) /\ j \in 1 .. Len(g)
      BY <2>4, <2>6, <2>7, <3>1
    <3>2. CASE i = Len(g) + 1 /\ j \in 1 .. Len(g)
      BY <2>5, <2>6, <2>7, <3>2
    <3>3. CASE j = Len(g) + 1 /\ i \in 1 .. Len(g)
      BY <2>5, <2>6, <2>7, <3>3
    <3>4. i \in 1 .. Len(g) + 1 /\ j \in 1 .. Len(g) + 1
      BY <2>6
    <3>. QED BY <2>4, <3>1, <3>2, <3>3, <3>4
  <2>8. x \in Distinct(free)
    BY <2>6, <2>7 DEF Distinct
  <2>9. MoreOf(free, g, drums) = x
    BY <1>2 DEF MoreOf, chans, x, c
  <2>. QED BY <2>3, <2>6, <2>8, <2>9
<1>. QED BY <1>1, <1>2

\* The channels of a grant are free ones, each for one part, and if there is one
\* for each part, the drum channel is a drum kit's.
LEMMA FillIs ==
    ASSUME NEW free \in SUBSET Channels, NEW drumsOf \in Seq(BOOLEAN)
    PROVE  LET got == Fill(free, drumsOf)
           IN  /\ got \in Distinct(free)
               /\ Len(got) = Len(drumsOf) => KitsDrum(got, drumsOf)
<1>. DEFINE k == Len(drumsOf)
            S == Distinct(free)
            F == [n \in 1 .. k |-> [g \in S |-> MoreOf(free, g, drumsOf[n])]]
            Fits(h) == h = [n \in 0 .. k |-> IF n = 0 THEN <<>>
                                             ELSE MoreOf(free, h[n - 1], drumsOf[n])]
            all == CHOOSE h : Fits(h)
<1>1. k \in Nat /\ \A n \in 1 .. k : drumsOf[n] \in BOOLEAN
  BY ElementOfSeq, LenProperties
<1>2. <<>> \in S
  BY DEF Distinct
<1>3. \A n \in 1 .. k, g \in S : MoreOf(free, g, drumsOf[n]) \in S
  BY <1>1, MoreOfIs
<1>4. F \in [1 .. k -> [S -> S]] /\ \A n \in 1 .. k, g \in S : F[n][g] = MoreOf(free, g, drumsOf[n])
  BY <1>3
<1>5. PICK h \in [0 .. k -> S] : Iterates(h, k, F, <<>>)
  <2>. HIDE DEF F, k, S
  <2>. QED BY <1>1, <1>2, <1>4, Steps, Zenon
<1>. HIDE DEF F, k, S
<1>6. Fits(h)
  <2>1. \A n \in 1 .. k : n - 1 \in 0 .. k /\ h[n] = MoreOf(free, h[n - 1], drumsOf[n])
    BY <1>1, <1>4, <1>5 DEF Iterates
  <2>2. h = [n \in 0 .. k |-> h[n]]
    BY <1>5
  <2>3. \A n \in 0 .. k : h[n] = IF n = 0 THEN <<>> ELSE MoreOf(free, h[n - 1], drumsOf[n])
    BY <1>1, <1>5, <2>1 DEF Iterates
  <2>. QED BY <2>2, <2>3
<1>7. Fits(all)
  BY <1>6
<1>8. Fill(free, drumsOf) = all[k]
  BY DEF Fill, k, MoreOf
<1>. HIDE DEF all
<1>9. all[0] = <<>> /\ \A n \in 1 .. k : all[n] = MoreOf(free, all[n - 1], drumsOf[n])
  <2>1. 0 \in 0 .. k /\ \A n \in 1 .. k : n \in 0 .. k /\ n # 0
    BY <1>1
  <2>. QED BY <1>7, <2>1
<1>10. \A n \in 0 .. k : n \in {m \in 0 .. k : /\ all[m] \in S /\ Len(all[m]) <= m
                                   /\ Len(all[m]) = m => KitsDrum(all[m], drumsOf)}
  <2>. DEFINE T == {m \in 0 .. k : /\ all[m] \in S /\ Len(all[m]) <= m
                                   /\ Len(all[m]) = m => KitsDrum(all[m], drumsOf)}
  <2>1. 0 \in T
    BY <1>1, <1>2, <1>9 DEF KitsDrum
  <2>2. ASSUME NEW n \in 1 .. k, n - 1 \in T PROVE n \in T
    <3>. DEFINE g == all[n - 1]
                x == MoreOf(free, g, drumsOf[n])
    <3>1. all[n] = x /\ n \in 0 .. k /\ n \in Nat /\ drumsOf[n] \in BOOLEAN
      BY <1>1, <1>9
    <3>2. g \in S /\ Len(g) <= n - 1 /\ (Len(g) = n - 1 => KitsDrum(g, drumsOf))
      BY <2>2
    <3>. HIDE DEF g
    <3>3. /\ x \in S
          /\ \/ x = g
             \/ /\ Len(x) = Len(g) + 1 /\ \A i \in 1 .. Len(g) : x[i] = g[i]
                /\ x[Len(g) + 1] = DrumChannel => drumsOf[n]
      BY <3>1, <3>2, MoreOfIs DEF S
    <3>. HIDE DEF x
    <3>4. /\ Len(g) \in Nat /\ DOMAIN g = 1 .. Len(g)
          /\ Len(x) \in Nat /\ DOMAIN x = 1 .. Len(x)
      BY <3>2, <3>3, SeqIsInLine DEF S, Distinct
    <3>5. n \in Nat /\ Len(x) <= n /\ (Len(x) = n => x # g /\ Len(g) = n - 1)
      <4>1. Len(x) = Len(g) \/ Len(x) = Len(g) + 1
        BY <3>3
      <4>2. Len(g) <= n - 1 /\ (x = g => Len(x) = Len(g)) /\ (x # g => Len(x) = Len(g) + 1)
        BY <3>2, <3>3
      <4>3. Len(x) <= n /\ (Len(x) = n => Len(x) # Len(g) /\ Len(g) = n - 1)
        <5>. DEFINE lx == Len(x)
                    lg == Len(g)
        <5>1. n \in Nat /\ lx \in Nat /\ lg \in Nat /\ lg <= n - 1 /\ (lx = lg \/ lx = lg + 1)
          BY <3>1, <3>4, <4>1, <4>2
        <5>. HIDE DEF lx, lg
        <5>2. lx <= n /\ (lx = n => lx # lg /\ lg = n - 1)
          BY <5>1
        <5>. QED BY <5>2 DEF lx, lg
      <4>. QED BY <3>1, <4>2, <4>3
    <3>6. ASSUME Len(x) = n PROVE KitsDrum(x, drumsOf)
      <4>1. x # g /\ Len(g) = n - 1
        BY <3>5, <3>6
      <4>2. /\ x[n] = DrumChannel => drumsOf[n]
            /\ \A i \in 1 .. n - 1 : x[i] = g[i]
        BY <3>3, <3>5, <4>1
      <4>3. \A i \in 1 .. n - 1 : g[i] = DrumChannel => drumsOf[i]
        BY <3>2, <3>4, <4>1 DEF KitsDrum
      <4>4. \A i \in 1 .. n : i = n \/ i \in 1 .. n - 1
        BY <3>5
      <4>5. \A i \in 1 .. n : x[i] = DrumChannel => drumsOf[i]
        BY <4>2, <4>3, <4>4
      <4>. QED BY <3>4, <3>6, <4>5 DEF KitsDrum
    <3>. QED BY <3>1, <3>3, <3>5, <3>6
  <2>. HIDE DEF T
  <2>3. \A n \in 0 .. k : n \in T
    BY <1>1, <2>1, <2>2, CountedUp
  <2>. QED BY <2>3 DEF T
<1>11. k \in 0 .. k
  BY <1>1
<1>. QED BY <1>8, <1>10, <1>11 DEF S, k

\* A grant is whole or not at all.
LEMMA OnGrantKeeps ==
    ASSUME NEW s, BridgeOK(s), s.parts = <<>>, NEW drumsOf \in Seq(BOOLEAN)
    PROVE  /\ BridgeOK(OnGrant(s, drumsOf)) /\ KitsDrum(OnGrant(s, drumsOf).parts, drumsOf)
           /\ \/ OnGrant(s, drumsOf).parts = <<>>
              \/ Len(OnGrant(s, drumsOf).parts) = Len(drumsOf)
<1>. DEFINE got == Fill(s.free, drumsOf)
            f == s.free \ ToSet(got)
            x == [s EXCEPT !.free = f, !.parts = got]
<1>1. s.free \in SUBSET Channels
  BY DEF BridgeOK
<1>2. got \in Distinct(s.free) /\ (Len(got) = Len(drumsOf) => KitsDrum(got, drumsOf))
  BY <1>1, FillIs
<1>3. CASE Len(got) # Len(drumsOf)
  <2>1. OnGrant(s, drumsOf) = s
    BY <1>3 DEF OnGrant
  <2>2. KitsDrum(<<>>, drumsOf)
    BY DEF KitsDrum
  <2>. QED BY <2>1, <2>2
<1>4. CASE Len(got) = Len(drumsOf)
  <2>1. OnGrant(s, drumsOf) = x
    BY <1>4 DEF OnGrant
  <2>. HIDE DEF got
  <2>2. x = Bridge(f, got, s.drone, s.bells, s.synth)
    BY BridgeFields, BridgeChanged
  <2>. HIDE DEF x
  <2>3. /\ x.free = f /\ x.parts = got /\ x.bells = s.bells /\ x.synth = s.synth
        /\ x = [free |-> x.free, parts |-> x.parts, drone |-> x.drone, bells |-> x.bells,
                synth |-> x.synth]
    BY <2>2 DEF Bridge
  <2>4. /\ got \in Seq(s.free) /\ ToSet(got) \subseteq s.free
        /\ \A i, j \in DOMAIN got : got[i] = got[j] => i = j
    BY <1>2, SeqIsInLine DEF Distinct
  <2>5. Granted(s) = {} /\ Granted(x) = ToSet(got) /\ Ringing(x) = Ringing(s)
    BY <2>3 DEF Granted, Ringing, ToSet
  <2>6. /\ Channels = x.free \cup Granted(x) \cup Ringing(x)
        /\ x.free \cap (Granted(x) \cup Ringing(x)) = {}
        /\ Granted(x) \cap Ringing(x) = {} /\ DrumChannel \notin Ringing(x)
    BY <2>3, <2>4, <2>5 DEF BridgeOK
  <2>7. \A c \in x.free : x.synth[c] = Fresh
    BY <2>3 DEF BridgeOK
  <2>8. /\ x.synth = [c \in Channels |-> x.synth[c]] /\ \A c \in Channels : VoiceOK(x.synth[c])
        /\ \A a, b \in x.bells : a.channel = b.channel => a = b
        /\ \A b \in x.bells :
              /\ b = [left |-> b.left, channel |-> b.channel, key |-> b.key]
              /\ Rings(x.synth[b.channel], b.key)
    BY <2>3 DEF BridgeOK
  <2>9. x.parts \in Seq(Channels)
    <3>1. got \in Seq(Channels)
      BY <1>1, <2>4
    <3>. QED BY <2>3, <3>1
  <2>10. BridgeOK(x)
    BY <2>3, <2>4, <2>6, <2>7, <2>8, <2>9 DEF BridgeOK
  <2>. QED BY <1>2, <1>4, <2>1, <2>3, <2>10 DEF x
<1>. QED BY <1>3, <1>4

\* What changes hands leaves the others' channels as they were: x has the parts of s,
\* other bells, and the free channels that go with them.
LEMMA BellsKeep ==
    ASSUME NEW s, BridgeOK(s), NEW x,
           x = [free |-> x.free, parts |-> s.parts, drone |-> s.drone, bells |-> x.bells,
                synth |-> x.synth],
           x.synth = [c \in Channels |-> x.synth[c]], \A c \in Channels : VoiceOK(x.synth[c]),
           x.free = (s.free \cup Ringing(s)) \ Ringing(x),
           Ringing(x) \subseteq s.free \cup Ringing(s),
           \A a, b \in x.bells : a.channel = b.channel => a = b,
           \A b \in x.bells :
              /\ b = [left |-> b.left, channel |-> b.channel, key |-> b.key]
              /\ Rings(x.synth[b.channel], b.key),
           DrumChannel \notin Ringing(x),
           \A c \in x.free : x.synth[c] = Fresh
    PROVE  BridgeOK(x) /\ x.parts = s.parts
<1>1. x.parts = s.parts /\ x.drone = s.drone
  OBVIOUS
<1>2. Granted(x) = Granted(s)
  BY <1>1 DEF Granted
<1>3. /\ Channels = x.free \cup Granted(x) \cup Ringing(x)
      /\ x.free \cap (Granted(x) \cup Ringing(x)) = {}
      /\ Granted(x) \cap Ringing(x) = {}
  BY <1>2 DEF BridgeOK
<1>4. /\ x.parts \in Seq(Channels)
      /\ \A i, j \in DOMAIN x.parts : x.parts[i] = x.parts[j] => i = j
  BY <1>1 DEF BridgeOK
<1>. QED BY <1>1, <1>3, <1>4 DEF BridgeOK

LEMMA PlayNoteKeeps ==
    ASSUME NEW s, BridgeOK(s), NEW key, NEW for
    PROVE  /\ BridgeOK(PlayNote(s, key, for)) /\ PlayNote(s, key, for).parts = s.parts
<1>. DEFINE chans == Available(s.free, FALSE)
            c == Min(chans)
            y == [d \in Channels |-> IF d \in {c} THEN NoteOn(s.synth[d], key) ELSE s.synth[d]]
            bell == [left |-> for, channel |-> c, key |-> key]
            x == [[s EXCEPT !.synth = y] EXCEPT !.free = s.free \ {c}, !.bells = s.bells \cup {bell}]
<1>1. CASE chans = {}
  BY <1>1 DEF PlayNote
<1>2. CASE chans # {}
  <2>1. chans \subseteq s.free /\ chans \subseteq Nat /\ DrumChannel \notin chans
    BY ChannelsAre DEF Available, BridgeOK
  <2>2. PlayNote(s, key, for) = x
    BY <1>2 DEF PlayNote, On
  <2>. HIDE DEF chans
  <2>3. c \in chans
    BY <1>2, <2>1, MinIsOne
  <2>. HIDE DEF c
  <2>4. c \in s.free /\ c # DrumChannel /\ c \in Channels /\ c \notin Ringing(s) /\ s.synth[c] = Fresh
    BY <2>1, <2>3 DEF BridgeOK
  <2>5. y = [d \in Channels |-> y[d]] /\ y[c] = NoteOn(Fresh, key)
        /\ \A d \in Channels : d # c => y[d] = s.synth[d]
    BY <2>4
  <2>. HIDE DEF y
  <2>6. x = Bridge(s.free \ {c}, s.parts, s.drone, s.bells \cup {bell}, y)
    <3>. DEFINE w == [s EXCEPT !.synth = y]
                u == [w EXCEPT !.free = s.free \ {c}]
                v == [u EXCEPT !.bells = s.bells \cup {bell}]
    <3>1. w = Bridge(s.free, s.parts, s.drone, s.bells, y)
      BY BridgeFields DEF Bridge
    <3>2. x = v
      BY Zenon
    <3>. HIDE DEF w
    <3>3. u = Bridge(s.free \ {c}, s.parts, s.drone, s.bells, y)
      BY <3>1 DEF Bridge
    <3>. HIDE DEF u
    <3>4. v = Bridge(s.free \ {c}, s.parts, s.drone, s.bells \cup {bell}, y)
      BY <3>3 DEF Bridge
    <3>. QED BY <3>2, <3>4
  <2>. HIDE DEF x
  <2>7. /\ x.free = s.free \ {c} /\ x.bells = s.bells \cup {bell} /\ x.synth = y
        /\ x = [free |-> x.free, parts |-> s.parts, drone |-> s.drone, bells |-> x.bells,
                synth |-> x.synth]
    BY <2>6 DEF Bridge
  <2>8. bell.channel = c /\ bell.key = key /\ bell = [left |-> bell.left, channel |-> bell.channel, key |-> bell.key]
    OBVIOUS
  <2>. HIDE DEF bell
  <2>9. Ringing(x) = Ringing(s) \cup {c}
    BY <2>7, <2>8 DEF Ringing
  <2>10. Rings(x.synth[c], key)
    BY <2>5, <2>7 DEF Rings
  <2>11. \A d \in Channels : VoiceOK(x.synth[d])
    BY <2>5, <2>7, <2>10, RungIsFresh DEF BridgeOK
  <2>12. \A a \in s.bells : a.channel \in Ringing(s) /\ a.channel \in Channels /\ a.channel # c
    BY <2>4 DEF Ringing, BridgeOK
  <2>13. \A a, b \in x.bells : a.channel = b.channel => a = b
    BY <2>7, <2>8, <2>12 DEF BridgeOK
  <2>14. \A b \in x.bells :
              /\ b = [left |-> b.left, channel |-> b.channel, key |-> b.key]
              /\ Rings(x.synth[b.channel], b.key)
    <3>. TAKE b \in x.bells
    <3>1. CASE b = bell
      BY <2>8, <2>10, <3>1
    <3>2. CASE b \in s.bells
      <4>1. x.synth[b.channel] = s.synth[b.channel]
        BY <2>5, <2>7, <2>12, <3>2
      <4>. QED BY <3>2, <4>1 DEF BridgeOK
    <3>. QED BY <2>7, <3>1, <3>2
  <2>15. x.free = (s.free \cup Ringing(s)) \ Ringing(x) /\ DrumChannel \notin Ringing(x)
    BY <2>4, <2>7, <2>9 DEF BridgeOK
  <2>16. \A d \in x.free : x.synth[d] = Fresh
    BY <2>5, <2>7 DEF BridgeOK
  <2>17. BridgeOK(x) /\ x.parts = s.parts
    BY <2>4, <2>5, <2>7, <2>9, <2>11, <2>13, <2>14, <2>15, <2>16, BellsKeep
  <2>. QED BY <2>2, <2>17 DEF x
<1>. QED BY <1>1, <1>2

LEMMA TickKeeps ==
    ASSUME NEW s, BridgeOK(s)
    PROVE  /\ BridgeOK(Tick(s)) /\ Tick(s).parts = s.parts
           /\ \A c \in Granted(s) : Tick(s).synth[c] = s.synth[c]
<1>. DEFINE ended == Ended(s)
            y == [c \in Channels |-> IF c \in ended THEN AllOff(s.synth[c]) ELSE s.synth[c]]
            f == s.free \cup ended
            others == {b \in s.bells : b.left # 0}
            x == [[s EXCEPT !.synth = y] EXCEPT !.free = f, !.bells = others]
<1>1. Tick(s) = x
  BY DEF Tick, On, Released
<1>2. x = Bridge(f, s.parts, s.drone, others, y)
  <2>. DEFINE w == [s EXCEPT !.synth = y]
              u == [w EXCEPT !.free = f]
              v == [u EXCEPT !.bells = others]
  <2>. HIDE DEF y, f, others
  <2>1. w = Bridge(s.free, s.parts, s.drone, s.bells, y)
    BY BridgeFields DEF Bridge
  <2>2. x = v
    BY Zenon
  <2>. HIDE DEF w
  <2>3. u = Bridge(f, s.parts, s.drone, s.bells, y)
    BY <2>1 DEF Bridge
  <2>. HIDE DEF u
  <2>4. v = Bridge(f, s.parts, s.drone, others, y)
    BY <2>3 DEF Bridge
  <2>. QED BY <2>2, <2>4
<1>3. ended \subseteq Ringing(s) /\ \A c \in ended : \E b \in s.bells : b.left = 0 /\ b.channel = c
  BY DEF Ended, Ringing
<1>4. \A b \in s.bells : b.channel \in Ringing(s) /\ b.channel \in Channels
  BY DEF Ringing, BridgeOK
<1>5. \A b \in others : b.channel \notin ended
  BY <1>3 DEF BridgeOK
<1>6. \A b \in s.bells : b \notin others => b.channel \in ended
  BY DEF Ended
<1>. HIDE DEF ended
<1>7. y = [c \in Channels |-> y[c]] /\ \A c \in Channels \ ended : y[c] = s.synth[c]
  OBVIOUS
<1>8. \A c \in ended : c \in Channels /\ y[c] = Fresh
  <2>. TAKE c \in ended
  <2>1. PICK b \in s.bells : b.channel = c
    BY <1>3
  <2>2. c \in Channels /\ Rings(s.synth[c], b.key)
    BY <1>4, <2>1 DEF BridgeOK
  <2>. QED BY <2>2, RungIsFresh
<1>. HIDE DEF x, y, f
<1>9. /\ x.free = f /\ x.bells = others /\ x.synth = y
      /\ x = [free |-> x.free, parts |-> s.parts, drone |-> s.drone, bells |-> x.bells,
              synth |-> x.synth]
  BY <1>2 DEF Bridge
<1>10. Ringing(x) = Ringing(s) \ ended
  <2>1. Ringing(x) = {b.channel : b \in others}
    BY <1>9 DEF Ringing
  <2>. QED BY <1>5, <1>6, <2>1 DEF Ringing
<1>11. \A c \in Channels : VoiceOK(x.synth[c])
  BY <1>7, <1>8, <1>9, FreshIsVoice DEF BridgeOK
<1>12. \A b \in x.bells :
            /\ b = [left |-> b.left, channel |-> b.channel, key |-> b.key]
            /\ Rings(x.synth[b.channel], b.key)
  <2>. TAKE b \in x.bells
  <2>1. b \in s.bells /\ b.channel \in Channels \ ended
    BY <1>4, <1>5, <1>9
  <2>2. x.synth[b.channel] = s.synth[b.channel]
    BY <1>7, <1>9, <2>1
  <2>. QED BY <2>1, <2>2 DEF BridgeOK
<1>13. \A a, b \in x.bells : a.channel = b.channel => a = b
  BY <1>9 DEF BridgeOK
<1>14. x.free = (s.free \cup Ringing(s)) \ Ringing(x) /\ DrumChannel \notin Ringing(x)
       /\ Ringing(x) \subseteq s.free \cup Ringing(s)
  BY <1>3, <1>9, <1>10 DEF BridgeOK, f
<1>15. \A c \in x.free : x.synth[c] = Fresh
  <2>. TAKE c \in x.free
  <2>1. CASE c \in ended
    BY <1>8, <1>9, <2>1
  <2>2. CASE c \notin ended
    <3>1. c \in s.free /\ c \in Channels /\ s.synth[c] = Fresh
      BY <1>9, <2>2 DEF BridgeOK, f
    <3>. QED BY <1>7, <1>9, <2>2, <3>1
  <2>. QED BY <2>1, <2>2
<1>16. BridgeOK(x) /\ x.parts = s.parts
  BY <1>7, <1>9, <1>11, <1>12, <1>13, <1>14, <1>15, BellsKeep
<1>17. \A c \in Granted(s) : x.synth[c] = s.synth[c]
  <2>1. \A c \in Granted(s) : c \in Channels \ ended
    BY <1>3 DEF BridgeOK
  <2>. QED BY <1>7, <1>9, <2>1
<1>. QED BY <1>1, <1>16, <1>17 DEF x

LEMMA WaitKeeps ==
    ASSUME NEW s, BridgeOK(s)
    PROVE  /\ BridgeOK(Wait(s)) /\ Wait(s).parts = s.parts /\ Wait(s).synth = s.synth
<1>. DEFINE later(b) == [b EXCEPT !.left = IF b.left = 0 THEN 0 ELSE b.left - 1]
            bells == {later(b) : b \in s.bells}
            x == [s EXCEPT !.bells = bells]
<1>1. Wait(s) = x
  BY DEF Wait
<1>2. ASSUME NEW b \in s.bells
      PROVE  /\ later(b).channel = b.channel /\ later(b).key = b.key
             /\ later(b) = [left |-> later(b).left, channel |-> b.channel, key |-> b.key]
  <2>. DEFINE n == IF b.left = 0 THEN 0 ELSE b.left - 1
  <2>1. b = [left |-> b.left, channel |-> b.channel, key |-> b.key]
    BY DEF BridgeOK
  <2>. HIDE DEF n
  <2>2. later(b) = [b EXCEPT !.left = n]
    BY DEF n
  <2>3. later(b) = [left |-> n, channel |-> b.channel, key |-> b.key]
    BY <2>1, <2>2
  <2>. QED BY <2>3
<1>. HIDE DEF later
<1>3. x = Bridge(s.free, s.parts, s.drone, bells, s.synth)
  <2>. HIDE DEF bells
  <2>. QED BY BridgeFields, BridgeChanged
<1>. HIDE DEF x
<1>4. /\ x.free = s.free /\ x.bells = bells /\ x.synth = s.synth
      /\ x = [free |-> x.free, parts |-> s.parts, drone |-> s.drone, bells |-> x.bells,
              synth |-> x.synth]
  BY <1>3 DEF Bridge
<1>5. \A b \in x.bells : \E a \in s.bells : b = later(a)
  BY <1>4
<1>6. Ringing(x) = Ringing(s)
  <2>1. Ringing(x) = {b.channel : b \in bells}
    BY <1>4 DEF Ringing
  <2>. QED BY <1>2, <2>1 DEF Ringing
<1>7. \A a, b \in x.bells : a.channel = b.channel => a = b
  BY <1>2, <1>5 DEF BridgeOK
<1>8. \A b \in x.bells :
            /\ b = [left |-> b.left, channel |-> b.channel, key |-> b.key]
            /\ Rings(x.synth[b.channel], b.key)
  <2>. TAKE b \in x.bells
  <2>1. PICK a \in s.bells : b = later(a)
    BY <1>5
  <2>2. b = [left |-> b.left, channel |-> b.channel, key |-> b.key]
    BY <1>2, <2>1
  <2>3. x.synth[b.channel] = s.synth[a.channel] /\ b.key = a.key
    BY <1>2, <1>4, <2>1
  <2>. QED BY <2>2, <2>3 DEF BridgeOK
<1>9. /\ x.free = (s.free \cup Ringing(s)) \ Ringing(x) /\ DrumChannel \notin Ringing(x)
      /\ Ringing(x) \subseteq s.free \cup Ringing(s)
      /\ \A c \in x.free : x.synth[c] = Fresh
      /\ x.synth = [c \in Channels |-> x.synth[c]] /\ \A c \in Channels : VoiceOK(x.synth[c])
  BY <1>4, <1>6 DEF BridgeOK
<1>10. BridgeOK(x) /\ x.parts = s.parts
  BY <1>4, <1>7, <1>8, <1>9, BellsKeep
<1>. QED BY <1>1, <1>4, <1>10 DEF x

-----------------------------------------------------------------------------
(* What sounds                                                             *)

\* The bridges that differ from s in what the channels of the fixture sound, of some
\* keys, pedals and volumes.
Tunings(s, K, P, W) ==
    {Bridge(s.free, s.parts, s.drone, s.bells, y) :
        y \in {z \in [Channels -> Voices(K, P, W)] :
                  \A c \in Channels \ Granted(s) : z[c] = s.synth[c]}}

LEMMA TuningIs ==
    ASSUME NEW s, NEW K, NEW P, NEW W, NEW x \in Tunings(s, K, P, W)
    PROVE  /\ Retuned(s, x) /\ x.synth \in [Channels -> Voices(K, P, W)]
           /\ x = Bridge(s.free, s.parts, s.drone, s.bells, x.synth)
<1>1. PICK y \in [Channels -> Voices(K, P, W)] :
          /\ \A c \in Channels \ Granted(s) : y[c] = s.synth[c]
          /\ x = Bridge(s.free, s.parts, s.drone, s.bells, y)
  BY DEF Tunings
<1>2. x.synth = y /\ x.drone = s.drone
  BY <1>1 DEF Bridge
<1>3. \A c \in Channels : VoiceOK(y[c])
  <2>1. \A v \in Voices(K, P, W) : VoiceOK(v)
    BY DEF Voices, VoiceOK
  <2>. QED BY <2>1
<1>. QED BY <1>1, <1>2, <1>3 DEF Retuned, Bridge

LEMMA FeedMidiTunes ==
    ASSUME NEW s, BridgeOK(s), NEW K, NEW P, NEW W, {TRUE, FALSE} \subseteq P,
           NEW x \in Tunings(s, K, P, W), NEW part, NEW kind, NEW value \in K \cap W
    PROVE  FeedMidi(x, part, kind, value) \in Tunings(s, K, P, W)
<1>1. /\ Retuned(s, x) /\ x.synth \in [Channels -> Voices(K, P, W)]
      /\ x = Bridge(s.free, s.parts, s.drone, s.bells, x.synth)
  BY TuningIs
<1>2. BridgeOK(x) /\ x.parts = s.parts
  BY <1>1, RetunedKeeps
<1>3. CASE s.parts = <<>>
  BY <1>2, <1>3 DEF FeedMidi
<1>4. CASE s.parts # <<>>
  <2>. DEFINE d == Part(x, part)
              y == [c \in Channels |-> IF c \in {d} THEN Effect(x.synth[c], kind, value)
                                       ELSE x.synth[c]]
  <2>1. d \in Granted(s)
    BY <1>2, <1>4, PartIsGranted DEF Granted
  <2>2. FeedMidi(x, part, kind, value) = [x EXCEPT !.synth = y]
    BY <1>2, <1>4 DEF FeedMidi, On
  <2>. HIDE DEF d
  <2>3. y \in [Channels -> Voices(K, P, W)]
    BY <1>1, EffectIsTyped
  <2>4. \A c \in Channels \ Granted(s) : y[c] = s.synth[c]
    BY <1>1, <2>1 DEF Retuned
  <2>. HIDE DEF y
  <2>5. [x EXCEPT !.synth = y] = Bridge(s.free, s.parts, s.drone, s.bells, y)
    BY <1>1 DEF Bridge
  <2>. QED BY <2>2, <2>3, <2>4, <2>5 DEF Tunings
<1>. QED BY <1>3, <1>4

\* What becomes due sounds on the fixture's channels, each payload after the other.
LEMMA SoundedRetunes ==
    ASSUME NEW s, BridgeOK(s), NEW due, InLine(due)
    PROVE  Retuned(s, Sounded(s, due)) /\ (due = <<>> => Sounded(s, due) = s)
<1>. DEFINE k == Len(due)
            next1(n, x) == FeedMidi(x, PartOf[due[n].track], due[n].kind, due[n].value)
            V == {due[n].value : n \in 1 .. k}
            K == V \cup UNION {s.synth[c].down \cup s.synth[c].held : c \in Channels}
            P == {TRUE, FALSE} \cup {s.synth[c].pedal : c \in Channels}
            W == V \cup {s.synth[c].volume : c \in Channels}
            S == Tunings(s, K, P, W)
            F == [n \in 1 .. k |-> [x \in S |-> next1(n, x)]]
            Fits(h) == h = [n \in 0 .. k |-> IF n = 0 THEN s ELSE next1(n, h[n - 1])]
            all == CHOOSE h : Fits(h)
<1>1. k \in Nat
  BY InLineParts
<1>2. s \in S
  <2>1. s.synth \in [Channels -> Voices(K, P, W)]
    <3>1. \A c \in Channels : s.synth[c] \in Voices(K, P, W)
      <4>. TAKE c \in Channels
      <4>1. s.synth[c].down \in SUBSET K /\ s.synth[c].held \in SUBSET K
        OBVIOUS
      <4>3. s.synth[c].pedal \in P
        BY Zenon
      <4>4. s.synth[c].volume \in W
        OBVIOUS
      <4>2. VoiceOK(s.synth[c])
        BY DEF BridgeOK
      <4>. HIDE DEF K, P, W
      <4>. QED BY <4>1, <4>2, <4>3, <4>4 DEF VoiceOK, Voices
    <3>. HIDE DEF K, P, W
    <3>. QED BY <3>1 DEF BridgeOK
  <2>. HIDE DEF K, P, W
  <2>2. s = Bridge(s.free, s.parts, s.drone, s.bells, s.synth)
    BY BridgeFields
  <2>. QED BY <2>1, <2>2 DEF Tunings
<1>3. \A n \in 1 .. k, x \in S : next1(n, x) \in S
  <2>. TAKE n \in 1 .. k, x \in S
  <2>1. due[n].value \in K \cap W /\ {TRUE, FALSE} \subseteq P
    OBVIOUS
  <2>. HIDE DEF K, P, W
  <2>. QED BY <2>1, FeedMidiTunes
<1>. HIDE DEF K, P, W, V
<1>4. F \in [1 .. k -> [S -> S]] /\ \A n \in 1 .. k, x \in S : F[n][x] = next1(n, x)
  BY <1>3
<1>5. PICK h \in [0 .. k -> S] : Iterates(h, k, F, s)
  <2>. HIDE DEF F, k, S
  <2>. QED BY <1>1, <1>2, <1>4, Steps, Zenon
<1>6. \A x \in S : Retuned(s, x)
  BY TuningIs
<1>. HIDE DEF F, k, S, next1
<1>7. Fits(h)
  <2>1. \A n \in 1 .. k : n - 1 \in 0 .. k /\ h[n] = next1(n, h[n - 1])
    BY <1>1, <1>4, <1>5 DEF Iterates
  <2>2. h = [n \in 0 .. k |-> h[n]]
    BY <1>5
  <2>3. \A n \in 0 .. k : h[n] = IF n = 0 THEN s ELSE next1(n, h[n - 1])
    BY <1>1, <1>5, <2>1 DEF Iterates
  <2>. QED BY <2>2, <2>3
<1>8. Fits(all)
  BY <1>7
<1>9. Sounded(s, due) = all[k]
  BY DEF Sounded, k, next1
<1>. HIDE DEF all
<1>10. all[0] = s /\ \A n \in 1 .. k : all[n] = next1(n, all[n - 1])
  <2>1. 0 \in 0 .. k /\ \A n \in 1 .. k : n \in 0 .. k /\ n # 0
    BY <1>1
  <2>. QED BY <1>8, <2>1
<1>11. \A n \in 0 .. k : n \in {m \in 0 .. k : all[m] \in S}
  <2>. DEFINE T == {m \in 0 .. k : all[m] \in S}
  <2>1. 0 \in T
    BY <1>1, <1>2, <1>10
  <2>2. ASSUME NEW n \in 1 .. k, n - 1 \in T PROVE n \in T
    BY <1>1, <1>3, <1>10, <2>2
  <2>. HIDE DEF T
  <2>3. \A n \in 0 .. k : n \in T
    BY <1>1, <2>1, <2>2, CountedUp
  <2>. QED BY <2>3 DEF T
<1>12. k \in 0 .. k
  BY <1>1
<1>13. Retuned(s, all[k])
  BY <1>6, <1>11, <1>12
<1>14. due = <<>> => k = 0
  BY DEF k
<1>. QED BY <1>9, <1>10, <1>13, <1>14

-----------------------------------------------------------------------------
(* The queue of cues                                                       *)

LEMMA DueAreSome ==
    ASSUME NEW I, NEW q \in Seq(I), NEW t
    PROVE  DueBy(q, t) \in 0 .. Len(q)
<1>. DEFINE early == {i \in DOMAIN q : q[i].left <= t}
<1>1. Len(q) \in Nat /\ DOMAIN q = 1 .. Len(q)
  BY LenProperties
<1>2. IsFiniteSet(1 .. Len(q)) /\ Cardinality(1 .. Len(q)) = Len(q)
  BY <1>1, UpTo
<1>3. early \subseteq 1 .. Len(q)
  BY <1>1
<1>4. IsFiniteSet(early) /\ Cardinality(early) <= Len(q)
  BY <1>2, <1>3, FS_Subset
<1>5. Cardinality(early) \in Nat
  BY <1>4, FS_CardinalityType
<1>. QED BY <1>1, <1>4, <1>5 DEF DueBy

LEMMA PushedInLine ==
    ASSUME NEW I, NEW q \in Seq(I), NEW left, NEW load, [left |-> left, load |-> load] \in I
    PROVE  Push(q, left, load) \in Seq(I)
<1>. DEFINE n == DueBy(q, left)
            one == <<load>>
            new == [i \in DOMAIN one |-> [left |-> left, load |-> one[i]]]
<1>1. n \in 0 .. Len(q) /\ Len(q) \in Nat
  BY DueAreSome, LenProperties
<1>2. SubSeq(q, 1, n) \in Seq(I) /\ SubSeq(q, n + 1, Len(q)) \in Seq(I)
  <2>. HIDE DEF n
  <2>. QED BY <1>1, ElementOfSeq, SubSeqProperties
<1>3. new \in Seq(I)
  <2>1. new = <<[left |-> left, load |-> load]>>
    OBVIOUS
  <2>. QED BY <2>1
<1>. HIDE DEF n, new
<1>4. SubSeq(q, 1, n) \o new \o SubSeq(q, n + 1, Len(q)) \in Seq(I)
  BY <1>2, <1>3, BothInLine
<1>5. PushAll(q, left, one) \in Seq(I)
  BY <1>4 DEF PushAll, n, new
<1>. HIDE DEF one
<1>6. Push(q, left, load) = PushAll(q, left, one)
  BY DEF Push, one
<1>. QED BY <1>5, <1>6

LEMMA DueAndRestInLine ==
    ASSUME NEW q, InLine(q)
    PROVE  /\ InLine(Due(q)) /\ InLine(Rest(q))
           /\ q = <<>> => Due(q) = <<>> /\ Rest(q) = <<>>
<1>. DEFINE n == DueBy(q, 0)
<1>1. q \in Seq(ToSet(q)) /\ Len(q) \in Nat
  BY InLineParts DEF InLine
<1>2. n \in 0 .. Len(q)
  BY <1>1, DueAreSome
<1>. HIDE DEF n
<1>3. SubSeq(q, n + 1, Len(q)) \in Seq(ToSet(q))
  BY <1>1, <1>2, ElementOfSeq, SubSeqProperties
<1>4. InLine(Rest(q))
  BY <1>3, SeqIsInLine DEF Rest, n
<1>5. Due(q) = [i \in 1 .. n |-> q[i].load]
  BY DEF Due, n
<1>6. InLine(Due(q))
  <2>1. Due(q) = [i \in 1 .. n |-> Due(q)[i]] /\ n \in Nat
    BY <1>1, <1>2, <1>5
  <2>. QED BY <2>1, RunIsInLine
<1>7. ASSUME q = <<>> PROVE Due(q) = <<>> /\ Rest(q) = <<>>
  <2>1. Len(q) = 0 /\ n = 0
    BY <1>2, <1>7
  <2>2. Due(q) = <<>>
    BY <1>5, <2>1
  <2>3. Rest(q) = <<>>
    BY <1>1, <2>1, SubSeqEmpty DEF Rest, n
  <2>. QED BY <2>2, <2>3
<1>. QED BY <1>4, <1>6, <1>7

LEMMA ElapseInLine ==
    ASSUME NEW q, InLine(q)
    PROVE  InLine(Elapse(q)) /\ (q = <<>> => Elapse(q) = <<>>)
<1>1. Len(q) \in Nat /\ DOMAIN q = 1 .. Len(q)
  BY InLineParts
<1>2. Elapse(q) = [i \in 1 .. Len(q) |-> Elapse(q)[i]]
  BY <1>1 DEF Elapse
<1>3. InLine(Elapse(q))
  BY <1>1, <1>2, RunIsInLine
<1>4. q = <<>> => Elapse(q) = <<>>
  BY DEF Elapse
<1>. QED BY <1>3, <1>4

LEMMA PurgeInLine ==
    ASSUME NEW q, InLine(q), NEW dropped
    PROVE  InLine(Purge(q, dropped)) /\ (q = <<>> => Purge(q, dropped) = <<>>)
<1>. DEFINE kept == {i \in DOMAIN q : q[i].load \notin dropped}
            place(i) == Cardinality({j \in kept : j <= i})
            N == Cardinality(kept)
            p == Purge(q, dropped)
<1>1. IsFiniteSet(kept)
  BY InLineIsFinite, FS_Subset
<1>2. N \in Nat
  BY <1>1, FS_CardinalityType
<1>3. p = [n \in 1 .. N |-> q[CHOOSE i \in kept : place(i) = n]]
  BY DEF Purge
<1>4. p = [n \in 1 .. N |-> p[n]]
  <2>. HIDE DEF N, kept, p, place
  <2>. QED BY <1>3
<1>5. InLine(p)
  <2>. HIDE DEF N, p
  <2>. QED BY <1>2, <1>4, RunIsInLine
<1>6. ASSUME q = <<>> PROVE p = <<>>
  <2>1. kept = {}
    BY <1>6
  <2>. HIDE DEF kept, p
  <2>2. N = 0
    BY <2>1, FS_EmptySet
  <2>3. 1 .. N = {}
    BY <2>2
  <2>. HIDE DEF N, place
  <2>. QED BY <1>3, <2>3
<1>. QED BY <1>5, <1>6

\* The cues of a step, put in the queue one after the other.
LEMMA QueuedInLine ==
    ASSUME NEW q, InLine(q), NEW start, NEW cues, InLine(cues)
    PROVE  InLine(Queued(q, start, cues)) /\ (muted => Queued(q, start, cues) = q)
<1>1. CASE muted
  BY <1>1 DEF Queued
<1>2. CASE ~muted
  <2>. DEFINE k == Len(cues)
              left(c) == IF start + c.at + Horizon > now THEN start + c.at + Horizon - now ELSE 0
              item(n) == [left |-> left(cues[n]), load |-> cues[n].load]
              I == ToSet(q) \cup {item(n) : n \in 1 .. k}
              S == Seq(I)
              step(n, x) == Push(x, left(cues[n]), cues[n].load)
              F == [n \in 1 .. k |-> [x \in S |-> step(n, x)]]
              Fits(h) == h = [n \in 0 .. k |-> IF n = 0 THEN q ELSE step(n, h[n - 1])]
              all == CHOOSE h : Fits(h)
  <2>1. k \in Nat
    BY InLineParts
  <2>2. q \in S
    <3>1. q \in Seq(ToSet(q)) /\ Len(q) \in Nat
      BY InLineParts DEF InLine
    <3>. HIDE DEF item
    <3>. QED BY <3>1
  <2>3. \A n \in 1 .. k, x \in S : step(n, x) \in S
    <3>. TAKE n \in 1 .. k, x \in S
    <3>1. [left |-> left(cues[n]), load |-> cues[n].load] \in I
      <4>. HIDE DEF left
      <4>. QED OBVIOUS
    <3>. HIDE DEF I, left
    <3>. QED BY <3>1, PushedInLine
  <2>. HIDE DEF I
  <2>4. F \in [1 .. k -> [S -> S]] /\ \A n \in 1 .. k, x \in S : F[n][x] = step(n, x)
    <3>. HIDE DEF step
    <3>. QED BY <2>3
  <2>5. PICK h \in [0 .. k -> S] : Iterates(h, k, F, q)
    <3>. HIDE DEF F, k, S
    <3>. QED BY <2>1, <2>2, <2>4, Steps, Zenon
  <2>6. Queued(q, start, cues) = all[k]
    BY <1>2 DEF Queued
  <2>7. \A x \in S : InLine(x)
    BY SeqIsInLine
  <2>. HIDE DEF F, k, S, step
  <2>8. Fits(h)
    <3>1. \A n \in 1 .. k : n - 1 \in 0 .. k /\ h[n] = step(n, h[n - 1])
      BY <2>1, <2>4, <2>5 DEF Iterates
    <3>2. h = [n \in 0 .. k |-> h[n]]
      BY <2>5
    <3>3. \A n \in 0 .. k : h[n] = IF n = 0 THEN q ELSE step(n, h[n - 1])
      BY <2>1, <2>5, <3>1 DEF Iterates
    <3>. QED BY <3>2, <3>3
  <2>9. Fits(all)
    BY <2>8
  <2>. HIDE DEF all
  <2>10. all[0] = q /\ \A n \in 1 .. k : all[n] = step(n, all[n - 1])
    <3>1. 0 \in 0 .. k /\ \A n \in 1 .. k : n \in 0 .. k /\ n # 0
      BY <2>1
    <3>. QED BY <2>9, <3>1
  <2>11. all[k] \in S
    <3>. DEFINE T == {m \in 0 .. k : all[m] \in S}
    <3>1. 0 \in T
      BY <2>1, <2>2, <2>10
    <3>2. ASSUME NEW n \in 1 .. k, n - 1 \in T PROVE n \in T
      BY <2>1, <2>3, <2>10, <3>2
    <3>. HIDE DEF T
    <3>3. \A n \in 0 .. k : n \in T
      BY <2>1, <3>1, <3>2, CountedUp
    <3>4. k \in 0 .. k
      BY <2>1
    <3>. QED BY <3>3, <3>4 DEF T
  <2>. QED BY <1>2, <2>6, <2>7, <2>11
<1>. QED BY <1>1, <1>2

LEMMA PurgedInLine ==
    ASSUME NEW q, InLine(q), NEW t
    PROVE  InLine(Purged(q, t)) /\ (q = <<>> => Purged(q, t) = <<>>)
BY PurgeInLine DEF Purged

-----------------------------------------------------------------------------
(* The sequencer                                                           *)

LEMMA EventsInLine ==
    ASSUME NEW t \in Tracks
    PROVE  InLine(Events[t])
<1>. DEFINE f == Score[t].file
            kept == {i \in DOMAIN f : f[i].beat >= Score[t].skip}
            rest == Taken(f, kept)
<1>1. InLine(f)
  BY ScoreAssumption DEF InLine
<1>2. ASSUME NEW S \in SUBSET DOMAIN f PROVE InLine(Taken(f, S))
  <2>. DEFINE places == InOrder(S, <)
              x == Taken(f, S)
  <2>1. IsFiniteSet(S)
    BY <1>1, InLineIsFinite, FS_Subset
  <2>2. DOMAIN places = 1 .. Cardinality(S)
    BY DEF InOrder
  <2>. HIDE DEF places
  <2>3. x = [n \in DOMAIN places |-> f[places[n]]]
    BY DEF Taken, places
  <2>4. DOMAIN x = 1 .. Cardinality(S) /\ x = [n \in DOMAIN x |-> x[n]]
    BY <2>2, <2>3
  <2>. HIDE DEF x
  <2>5. InLine(x)
    BY <2>1, <2>4, InOrderIsInLine
  <2>. QED BY <2>5 DEF x
<1>3. CASE Score[t].loop
  <2>1. Events[t] = Taken(f, DOMAIN f \ AtEnd(t))
    BY <1>3, Zenon DEF Events
  <2>. QED BY <1>2, <2>1
<1>4. CASE ~Score[t].loop
  <2>. DEFINE x == Events[t]
  <2>1. x = [n \in DOMAIN rest |-> [rest[n] EXCEPT !.beat = @ - Score[t].skip]]
    BY <1>4, Zenon DEF Events
  <2>2. kept \in SUBSET DOMAIN f
    OBVIOUS
  <2>3. InLine(rest)
    BY <1>2, <2>2
  <2>. HIDE DEF rest, x
  <2>4. x = [n \in 1 .. Len(rest) |-> x[n]] /\ Len(rest) \in Nat
    <3>1. DOMAIN rest = 1 .. Len(rest) /\ Len(rest) \in Nat
      BY <2>3, InLineParts
    <3>. QED BY <2>1, <3>1
  <2>5. InLine(x)
    BY <2>4, RunIsInLine
  <2>. QED BY <2>5 DEF x
<1>. QED BY <1>3, <1>4

LEMMA ChasedIsFinite ==
    ASSUME NEW t \in Tracks, NEW b
    PROVE  IsFiniteSet(Chased(t, b))
<1>. DEFINE f == Events[t]
            ons == {i \in DOMAIN f : f[i].kind = "on" /\ Partner(f, i) # 0}
            note(i) == [on |-> f[i].beat, off |-> f[Partner(f, i)].beat, key |-> f[i].value]
            notes == [i \in ons |-> note(i)]
            under == {n \in Notes[t] :
                        \E k \in {b \div Length[t], b \div Length[t] - 1} :
                            k >= 0 /\ k * Length[t] + n.on < b
                            /\ k * Length[t] + n.off - b >= ChaseMin}
            keys == [n \in under |-> n.key]
<1>1. IsFiniteSet(ons)
  BY EventsInLine, InLineIsFinite, FS_Subset
<1>2. Notes[t] = {note(i) : i \in ons}
  BY Zenon DEF Notes
<1>. HIDE DEF note, ons
<1>3. IsFiniteSet({notes[i] : i \in ons})
  <2>1. notes = [i \in ons |-> notes[i]]
    OBVIOUS
  <2>. QED BY <1>1, <2>1, ImageIsFinite
<1>4. Notes[t] = {notes[i] : i \in ons}
  BY <1>2
<1>5. IsFiniteSet(under)
  BY <1>3, <1>4, FS_Subset
<1>6. Chased(t, b) = {n.key : n \in under}
  BY DEF Chased
<1>. HIDE DEF under
<1>7. keys = [n \in under |-> keys[n]] /\ Chased(t, b) = {keys[n] : n \in under}
  BY <1>6
<1>. HIDE DEF keys
<1>. QED BY <1>5, <1>7, ImageIsFinite

\* A set of cues, in some order.
LEMMA CuesOf ==
    ASSUME NEW S, IsFiniteSet(S), NEW t, NEW b, NEW kind
    PROVE  SetToSeq({Cue(t, b, kind, x) : x \in S}) \in Seq({Cue(t, b, kind, x) : x \in S})
<1>. DEFINE cue == [x \in S |-> Cue(t, b, kind, x)]
            cues == {Cue(t, b, kind, x) : x \in S}
<1>1. cue = [x \in S |-> cue[x]] /\ cues = {cue[x] : x \in S}
  OBVIOUS
<1>. HIDE DEF cue, cues
<1>2. IsFiniteSet(cues)
  BY <1>1, ImageIsFinite
<1>3. SetToSeq(cues) \in Seq(cues)
  BY <1>2, SetInSequence
<1>. QED BY <1>3 DEF cues

LEMMA MasterInLine ==
    ASSUME NEW b, NEW v
    PROVE  InLine(Master(b, v))
<1>. DEFINE cue == [t \in Tracks |-> Cue(t, b, "volume", v)]
            cues == {Cue(t, b, "volume", v) : t \in Tracks}
<1>1. cue = [x \in Tracks |-> cue[x]] /\ cues = {cue[x] : x \in Tracks}
  OBVIOUS
<1>. HIDE DEF cue, cues
<1>2. IsFiniteSet(cues)
  BY <1>1, ImageIsFinite, ScoreAssumption
<1>3. SetToSeq(cues) \in Seq(cues)
  BY <1>2, SetInSequence
<1>4. Master(b, v) = SetToSeq(cues)
  BY DEF Master, cues
<1>. QED BY <1>3, <1>4, SeqIsInLine

\* A track of which one field is another.
LEMMA TrackOn ==
    ASSUME NEW tr, TrackOK(tr), NEW o
    PROVE  TrackOK([tr EXCEPT !.on = o])
<1>. DEFINE x == [tr EXCEPT !.on = o]
<1>1. x = [on |-> o, origin |-> tr.origin, cursor |-> tr.cursor, struck |-> tr.struck]
  BY DEF TrackOK
<1>. HIDE DEF x
<1>2. TrackOK(x)
  BY <1>1 DEF TrackOK
<1>. QED BY <1>2 DEF x

LEMMA TrackOrigin ==
    ASSUME NEW tr, TrackOK(tr), NEW g
    PROVE  TrackOK([tr EXCEPT !.origin = g])
<1>. DEFINE x == [tr EXCEPT !.origin = g]
<1>1. x = [on |-> tr.on, origin |-> g, cursor |-> tr.cursor, struck |-> tr.struck]
  BY DEF TrackOK
<1>. HIDE DEF x
<1>2. TrackOK(x)
  BY <1>1 DEF TrackOK
<1>. QED BY <1>2 DEF x

LEMMA TrackCursor ==
    ASSUME NEW tr, TrackOK(tr), NEW c
    PROVE  TrackOK([tr EXCEPT !.cursor = c])
<1>. DEFINE x == [tr EXCEPT !.cursor = c]
<1>1. x = [on |-> tr.on, origin |-> tr.origin, cursor |-> c, struck |-> tr.struck]
  BY DEF TrackOK
<1>. HIDE DEF x
<1>2. TrackOK(x)
  BY <1>1 DEF TrackOK
<1>. QED BY <1>2 DEF x

LEMMA TrackStruck ==
    ASSUME NEW tr, TrackOK(tr), NEW z, IsFiniteSet(z)
    PROVE  TrackOK([tr EXCEPT !.struck = z])
<1>. DEFINE x == [tr EXCEPT !.struck = z]
<1>1. x = [on |-> tr.on, origin |-> tr.origin, cursor |-> tr.cursor, struck |-> z]
  BY DEF TrackOK
<1>. HIDE DEF x
<1>2. TrackOK(x)
  BY <1>1 DEF TrackOK
<1>. QED BY <1>2 DEF x

LEMMA EnableKeeps ==
    ASSUME NEW t \in Tracks, NEW tr, TrackOK(tr), NEW b, NEW v
    PROVE  LET e == Enable(t, tr, b, v) IN TrackOK(e.track) /\ InLine(e.cues)
<1>. DEFINE keys == Chased(t, b)
            struck == tr.struck \cup keys
            first == Cue(t, b, "volume", v)
            cues == {Cue(t, b, "on", key) : key \in keys}
            track == [tr EXCEPT !.on = TRUE, !.cursor = b, !.struck = struck]
            e == Enable(t, tr, b, v)
<1>1. IsFiniteSet(keys) /\ IsFiniteSet(struck)
  <2>1. IsFiniteSet(keys)
    BY ChasedIsFinite
  <2>. HIDE DEF keys
  <2>. QED BY <2>1, FS_Union DEF TrackOK
<1>2. SetToSeq(cues) \in Seq(cues)
  BY <1>1, CuesOf
<1>3. e.track = track /\ e.cues = <<first>> \o SetToSeq(cues)
  BY DEF Enable
<1>. HIDE DEF cues, first, struck, e
<1>4. InLine(e.cues)
  <2>. DEFINE S == {first} \cup cues
  <2>1. <<first>> \in Seq(S) /\ SetToSeq(cues) \in Seq(S)
    BY <1>2
  <2>2. <<first>> \o SetToSeq(cues) \in Seq(S)
    BY <2>1, BothInLine
  <2>. QED BY <1>3, <2>2, SeqIsInLine
<1>5. TrackOK(track)
  <2>. DEFINE w == [tr EXCEPT !.on = TRUE]
              x == [w EXCEPT !.cursor = b]
              y == [x EXCEPT !.struck = struck]
  <2>1. track = y
    BY Zenon
  <2>. HIDE DEF track
  <2>2. TrackOK(w)
    BY TrackOn
  <2>. HIDE DEF w
  <2>3. TrackOK(x)
    BY <2>2, TrackCursor
  <2>. HIDE DEF x
  <2>4. TrackOK(y)
    BY <2>3, <1>1, TrackStruck
  <2>. QED BY <2>1, <2>4
<1>. QED BY <1>3, <1>4, <1>5 DEF e

LEMMA DisableKeeps ==
    ASSUME NEW t, NEW tr, TrackOK(tr), NEW b
    PROVE  LET e == Disable(t, tr, b) IN TrackOK(e.track) /\ InLine(e.cues)
<1>. DEFINE cues == {Cue(t, b, "off", key) : key \in tr.struck}
            final == Cue(t, b, "up", 0)
            track == [tr EXCEPT !.on = FALSE]
            e == Disable(t, tr, b)
<1>1. SetToSeq(cues) \in Seq(cues)
  BY CuesOf DEF TrackOK
<1>2. e.track = track /\ e.cues = Append(SetToSeq(cues), final)
  BY DEF Disable
<1>. HIDE DEF cues, final, e
<1>3. InLine(e.cues)
  <2>. DEFINE S == {final} \cup cues
  <2>1. SetToSeq(cues) \in Seq(S)
    BY <1>1
  <2>2. Append(SetToSeq(cues), final) \in Seq(S)
    BY <2>1
  <2>. QED BY <1>2, <2>2, SeqIsInLine
<1>4. TrackOK(track)
  BY TrackOn
<1>. QED BY <1>2, <1>3, <1>4 DEF e

LEMMA PlayOnceKeeps ==
    ASSUME NEW t, NEW tr, TrackOK(tr), NEW b, NEW v
    PROVE  LET e == PlayOnce(t, tr, b, v) IN TrackOK(e.track) /\ InLine(e.cues)
<1>. DEFINE c == NextBeat(b)
            first == Cue(t, c, "volume", v)
            track == [tr EXCEPT !.on = TRUE, !.origin = c, !.cursor = c]
            e == PlayOnce(t, tr, b, v)
<1>1. e.track = track /\ e.cues = <<first>>
  BY DEF PlayOnce
<1>. HIDE DEF c, first, e
<1>2. InLine(e.cues)
  <2>1. <<first>> \in Seq({first})
    OBVIOUS
  <2>. QED BY <1>1, <2>1, SeqIsInLine
<1>3. TrackOK(track)
  <2>. DEFINE w == [tr EXCEPT !.on = TRUE]
              x == [w EXCEPT !.origin = c]
              y == [x EXCEPT !.cursor = c]
  <2>1. track = y
    BY Zenon
  <2>. HIDE DEF track
  <2>2. TrackOK(w)
    BY TrackOn
  <2>. HIDE DEF w
  <2>3. TrackOK(x)
    BY <2>2, TrackOrigin
  <2>. HIDE DEF x
  <2>4. TrackOK(y)
    BY <2>3, TrackCursor
  <2>. QED BY <2>1, <2>4
<1>. QED BY <1>1, <1>2, <1>3 DEF e

LEMMA StartedIs ==
    /\ DOMAIN Started = Tracks /\ \A t \in Tracks : TrackOK(Started[t])
<1>. SUFFICES ASSUME NEW t \in Tracks PROVE TrackOK(Started[t])
  BY DEF Started
<1>. DEFINE x == [on |-> FALSE, origin |-> 0, cursor |-> 0, struck |-> {}]
<1>1. Started[t] = x
  BY DEF Started
<1>2. x.on = FALSE
  OBVIOUS
<1>3. x.origin = 0 /\ x.cursor = 0 /\ x.struck = {} /\ IsFiniteSet({})
  BY FS_EmptySet
<1>4. x = [on |-> x.on, origin |-> x.origin, cursor |-> x.cursor, struck |-> x.struck]
  BY <1>2, <1>3, Zenon
<1>. HIDE DEF x
<1>5. TrackOK(x)
  BY <1>3, <1>4 DEF TrackOK
<1>. QED BY <1>1, <1>5

LEMMA WindowInLine ==
    ASSUME NEW t \in Tracks, NEW tr, NEW lo, NEW hi \in Int
    PROVE  InLine(Window(t, tr, lo, hi))
<1>. DEFINE ev == Events[t]
            turns == IF Score[t].loop THEN 0 .. (hi \div Length[t]) ELSE {0}
            base(k) == IF Score[t].loop THEN k * Length[t] ELSE tr.origin
            strike(p) == <<base(p[1]) + ev[p[2]].beat, p[1], p[2]>>
            struck == [p \in turns \X DOMAIN ev |-> strike(p)]
            found == {<<base(k) + ev[i].beat, k, i>> : k \in turns, i \in DOMAIN ev}
            within == {w \in found : w[1] >= lo /\ w[1] < hi}
            x == Window(t, tr, lo, hi)
<1>1. IsFiniteSet(turns)
  <2>1. ASSUME Score[t].loop PROVE hi \div Length[t] \in Int
    <3>1. Length[t] \in Nat \ {0}
      BY <2>1, ScoreAssumption DEF Length
    <3>. QED BY <3>1
  <2>. DEFINE n == hi \div Length[t]
  <2>. HIDE DEF n
  <2>2. n \in Int => IsFiniteSet(0 .. n)
    BY FS_Interval
  <2>3. IsFiniteSet({0})
    BY FS_Singleton
  <2>. QED BY <2>1, <2>2, <2>3 DEF n
<1>2. IsFiniteSet(DOMAIN ev)
  BY EventsInLine, InLineIsFinite
<1>. HIDE DEF base, turns, ev
<1>3. IsFiniteSet(turns \X DOMAIN ev)
  BY <1>1, <1>2, FS_Product
<1>4. IsFiniteSet({struck[p] : p \in turns \X DOMAIN ev})
  <2>1. struck = [p \in turns \X DOMAIN ev |-> struck[p]]
    OBVIOUS
  <2>. HIDE DEF struck
  <2>. QED BY <1>3, <2>1, ImageIsFinite
<1>5. found \subseteq {struck[p] : p \in turns \X DOMAIN ev}
  <2>1. ASSUME NEW w \in found PROVE \E p \in turns \X DOMAIN ev : struck[p] = w
    <3>1. PICK k \in turns, i \in DOMAIN ev : w = <<base(k) + ev[i].beat, k, i>>
      OBVIOUS
    <3>2. <<k, i>> \in turns \X DOMAIN ev
      OBVIOUS
    <3>3. struck[<<k, i>>] = w
      BY <3>1, <3>2
    <3>. QED BY <3>2, <3>3
  <2>. HIDE DEF found, struck
  <2>. QED BY <2>1
<1>6. IsFiniteSet(within)
  <2>. HIDE DEF struck, found
  <2>. QED BY <1>4, <1>5, FS_Subset
<1>7. DOMAIN x = 1 .. Cardinality(within) /\ x = [n \in DOMAIN x |-> x[n]]
  <2>. DEFINE earlier(v, w) == \/ v[1] < w[1]
                               \/ v[1] = w[1] /\ v[2] < w[2]
                               \/ v[1] = w[1] /\ v[2] = w[2] /\ v[3] < w[3]
              place(n) == CHOOSE u \in within : Cardinality({y \in within : earlier(y, u)}) = n - 1
  <2>1. x = [n \in 1 .. Cardinality(within) |-> place(n)]
    BY DEF Window, InOrder, ev, turns, base
  <2>. HIDE DEF within, x, place
  <2>. QED BY <2>1
<1>. HIDE DEF x, within
<1>8. InLine(x)
  BY <1>6, <1>7, InOrderIsInLine
<1>. QED BY <1>8 DEF x

LEMMA AdvanceKeeps ==
    ASSUME NEW t \in Tracks, NEW tr, TrackOK(tr), NEW b \in Int, NEW v
    PROVE  LET a == Advance(t, tr, b, v) IN TrackOK(a.track) /\ InLine(a.cues)
<1>. DEFINE hi   == b + Lookahead
            ev   == Events[t]
            w    == Window(t, tr, tr.cursor, hi)
            sent == {ev[w[i][3]] : i \in DOMAIN w}
            cursor == IF tr.cursor < hi THEN hi ELSE tr.cursor
            over   == tr.origin + Length[t]
            keys == {e.value : e \in {e \in sent : e.kind = "on"}}
            struck == tr.struck \cup keys
            on == Score[t].loop \/ ~(cursor > over /\ b > over)
            track == [tr EXCEPT !.cursor = cursor, !.struck = struck, !.on = on]
            cues == [i \in DOMAIN w |->
                        LET e == ev[w[i][3]]
                        IN  Cue(t, w[i][1], e.kind, IF e.kind = "volume" THEN v ELSE e.value)]
            a == Advance(t, tr, b, v)
<1>1. CASE ~tr.on
  <2>1. a.track = tr /\ a.cues = <<>>
    BY <1>1 DEF Advance
  <2>2. <<>> \in Seq({})
    OBVIOUS
  <2>3. InLine(<<>>)
    BY <2>2, SeqIsInLine
  <2>. QED BY <2>1, <2>3
<1>2. CASE tr.on
  <2>1. a = [track |-> track, cues |-> cues]
    BY <1>2, Zenon DEF Advance
  <2>2. InLine(w)
    <3>1. hi \in Int
      BY ScoreAssumption
    <3>. HIDE DEF hi
    <3>. QED BY <3>1, WindowInLine
  <2>. HIDE DEF w
  <2>3. Len(w) \in Nat /\ DOMAIN w = 1 .. Len(w) /\ IsFiniteSet(DOMAIN w)
    BY <2>2, InLineParts, InLineIsFinite
  <2>4. InLine(cues)
    <3>1. cues = [i \in 1 .. Len(w) |-> cues[i]]
      BY <2>3
    <3>. HIDE DEF cues
    <3>. QED BY <2>3, <3>1, RunIsInLine
  <2>. HIDE DEF cues
  <2>5. IsFiniteSet(keys)
    <3>. DEFINE event == [i \in DOMAIN w |-> ev[w[i][3]]]
                ons == {e \in sent : e.kind = "on"}
                key == [e \in ons |-> e.value]
    <3>1. event = [i \in DOMAIN w |-> event[i]] /\ sent = {event[i] : i \in DOMAIN w}
      OBVIOUS
    <3>. HIDE DEF event, sent
    <3>2. IsFiniteSet(sent)
      BY <2>3, <3>1, ImageIsFinite
    <3>3. IsFiniteSet(ons)
      BY <3>2, FS_Subset
    <3>. HIDE DEF ons
    <3>4. key = [e \in ons |-> key[e]] /\ {e.value : e \in ons} = {key[e] : e \in ons}
      OBVIOUS
    <3>. HIDE DEF key
    <3>5. IsFiniteSet({e.value : e \in ons})
      BY <3>3, <3>4, ImageIsFinite
    <3>. QED BY <3>5 DEF ons
  <2>. HIDE DEF keys
  <2>6. IsFiniteSet(struck)
    BY <2>5, FS_Union DEF TrackOK
  <2>. HIDE DEF struck, cursor, on
  <2>7. TrackOK(track)
    <3>. DEFINE x == [tr EXCEPT !.cursor = cursor]
                y == [x EXCEPT !.struck = struck]
                z == [y EXCEPT !.on = on]
    <3>1. track = z
      BY Zenon
    <3>. HIDE DEF track
    <3>2. TrackOK(x)
      BY TrackCursor
    <3>. HIDE DEF x
    <3>3. TrackOK(y)
      BY <2>6, <3>2, TrackStruck
    <3>. HIDE DEF y
    <3>4. TrackOK(z)
      BY <3>3, TrackOn
    <3>. QED BY <3>1, <3>4
  <2>. HIDE DEF track, a
  <2>8. a.track = track /\ a.cues = cues
    BY <2>1
  <2>. QED BY <2>4, <2>7, <2>8 DEF a
<1>. QED BY <1>1, <1>2

LEMMA NothingInLine == InLine(<<>>)
<1>1. <<>> \in Seq({})
  OBVIOUS
<1>. QED BY <1>1, SeqIsInLine

\* What the tracks emit, one after the other.
LEMMA EmittedInLine ==
    ASSUME \A t \in Tracks : TrackOK(tracks[t]), NEW b \in Int
    PROVE  InLine(Emitted(b))
<1>. DEFINE first == IF t0 = NoTime THEN Master(0, level) ELSE <<>>
            order == SetToSeq(Tracks)
            k == Len(order)
            sent(t) == Advance(t, tracks[t], b, level).cues
            C == ToSet(first) \cup UNION {ToSet(sent(t)) : t \in Tracks}
            S == Seq(C)
            step(n, x) == x \o sent(order[n])
            F == [n \in 1 .. k |-> [x \in S |-> step(n, x)]]
            Fits(h) == h = [n \in 0 .. k |-> IF n = 0 THEN first ELSE step(n, h[n - 1])]
            all == CHOOSE h : Fits(h)
<1>1. k \in Nat /\ \A n \in 1 .. k : order[n] \in Tracks
  <2>1. order \in Seq(Tracks)
    BY ScoreAssumption, SetInSequence
  <2>. HIDE DEF order
  <2>. QED BY <2>1, LenProperties, ElementOfSeq
<1>2. \A t \in Tracks : InLine(sent(t))
  BY AdvanceKeeps
<1>. HIDE DEF order, sent
<1>3. first \in S
  <2>1. first \in Seq(ToSet(first)) /\ ToSet(first) \subseteq C
    BY MasterInLine, NothingInLine DEF InLine
  <2>. HIDE DEF C, first
  <2>. QED BY <2>1
<1>4. \A t \in Tracks : sent(t) \in S
  <2>. TAKE t \in Tracks
  <2>1. sent(t) \in Seq(ToSet(sent(t))) /\ ToSet(sent(t)) \subseteq C
    BY <1>2 DEF InLine
  <2>. HIDE DEF C
  <2>. QED BY <2>1
<1>. HIDE DEF C
<1>5. \A n \in 1 .. k, x \in S : step(n, x) \in S
  BY <1>1, <1>4, BothInLine
<1>6. F \in [1 .. k -> [S -> S]] /\ \A n \in 1 .. k, x \in S : F[n][x] = step(n, x)
  <2>. HIDE DEF step
  <2>. QED BY <1>5
<1>7. PICK h \in [0 .. k -> S] : Iterates(h, k, F, first)
  <2>. HIDE DEF F, k, S
  <2>. QED BY <1>1, <1>3, <1>6, Steps, Zenon
<1>8. \A x \in S : InLine(x)
  BY SeqIsInLine
<1>9. Emitted(b) = all[k]
  BY DEF Emitted, k, order, sent, step
<1>. HIDE DEF first
<1>. HIDE DEF F, k, S, step
<1>10. Fits(h)
  <2>1. \A n \in 1 .. k : n - 1 \in 0 .. k /\ h[n] = step(n, h[n - 1])
    BY <1>1, <1>6, <1>7 DEF Iterates
  <2>2. h = [n \in 0 .. k |-> h[n]]
    BY <1>7
  <2>3. \A n \in 0 .. k : h[n] = IF n = 0 THEN first ELSE step(n, h[n - 1])
    BY <1>1, <1>7, <2>1 DEF Iterates
  <2>. QED BY <2>2, <2>3
<1>11. Fits(all)
  BY <1>10
<1>. HIDE DEF all
<1>12. all[0] = first /\ \A n \in 1 .. k : all[n] = step(n, all[n - 1])
  <2>1. 0 \in 0 .. k /\ \A n \in 1 .. k : n \in 0 .. k /\ n # 0
    BY <1>1
  <2>. QED BY <1>11, <2>1
<1>13. all[k] \in S
  <2>. DEFINE T == {m \in 0 .. k : all[m] \in S}
  <2>1. 0 \in T
    BY <1>1, <1>3, <1>12
  <2>2. ASSUME NEW n \in 1 .. k, n - 1 \in T PROVE n \in T
    BY <1>1, <1>5, <1>12, <2>2
  <2>. HIDE DEF T
  <2>3. \A n \in 0 .. k : n \in T
    BY <1>1, <2>1, <2>2, CountedUp
  <2>4. k \in 0 .. k
    BY <1>1
  <2>. QED BY <2>3, <2>4 DEF T
<1>. QED BY <1>8, <1>9, <1>13

LEMMA NewBridgeOK == BridgeOK(NewBridge) /\ NewBridge.parts = <<>>
<1>. DEFINE y == [c \in Channels |-> Fresh]
            x == NewBridge
<1>1. x = Bridge(Channels, <<>>, NoKey, {}, y)
  BY DEF NewBridge, Bridge
<1>2. y = [c \in Channels |-> y[c]] /\ \A c \in Channels : VoiceOK(y[c]) /\ y[c] = Fresh
  BY FreshIsVoice
<1>. HIDE DEF x, y
<1>3. /\ x.free = Channels /\ x.parts = <<>> /\ x.bells = {} /\ x.synth = y
      /\ x = [free |-> x.free, parts |-> x.parts, drone |-> x.drone, bells |-> x.bells,
              synth |-> x.synth]
  BY <1>1 DEF Bridge
<1>4. Granted(x) = {} /\ Ringing(x) = {}
  BY <1>3 DEF Granted, Ringing, ToSet
<1>5. x.parts \in Seq(Channels) /\ \A i, j \in DOMAIN x.parts : x.parts[i] = x.parts[j] => i = j
  BY <1>3
<1>6. BridgeOK(x)
  BY <1>2, <1>3, <1>4, <1>5 DEF BridgeOK
<1>. QED BY <1>3, <1>6 DEF x

\* The Room's own sound takes a channel that is no drum kit's.
LEMMA AmbientKeeps ==
    ASSUME NEW s, BridgeOK(s)
    PROVE  BridgeOK(Ambient(s)) /\ DrumChannel \notin Granted(Ambient(s))
<1>. DEFINE r == OnRelease(s)
            g == OnGrant(r, <<FALSE>>)
            x == StartDrone(g, Hum)
            parts == <<FALSE>>
<1>1. BridgeOK(r) /\ r.parts = <<>>
  BY OnReleaseKeeps
<1>. HIDE DEF r
<1>2. parts \in Seq(BOOLEAN) /\ Len(parts) = 1 /\ ~parts[1]
  OBVIOUS
<1>3. /\ BridgeOK(OnGrant(r, parts)) /\ KitsDrum(OnGrant(r, parts).parts, parts)
      /\ \/ OnGrant(r, parts).parts = <<>>
         \/ Len(OnGrant(r, parts).parts) = Len(parts)
  <2>. HIDE DEF parts
  <2>. QED BY <1>1, <1>2, OnGrantKeeps
<1>4. BridgeOK(g) /\ KitsDrum(g.parts, parts) /\ (g.parts = <<>> \/ Len(g.parts) = 1)
  BY <1>2, <1>3
<1>. HIDE DEF g, parts
<1>5. DrumChannel \notin Granted(g)
  <2>1. g.parts \in Seq(Channels)
    BY <1>4 DEF BridgeOK
  <2>2. \A i \in DOMAIN g.parts : i = 1
    BY <1>4, <2>1, SeqIsInLine
  <2>. QED BY <1>2, <1>4, <2>2 DEF KitsDrum, Granted, ToSet
<1>6. Retuned(g, x)
  BY <1>4, StartDroneRetunes
<1>. HIDE DEF x
<1>7. BridgeOK(x) /\ x.parts = g.parts
  BY <1>4, <1>6, RetunedKeeps
<1>8. Granted(x) = Granted(g)
  BY <1>7 DEF Granted
<1>. QED BY <1>5, <1>7, <1>8 DEF Ambient, x, g, r

-----------------------------------------------------------------------------
(* The steps                                                               *)

LEMMA OrderIs ==
    /\ Len(Order) \in Nat \ {0} /\ DOMAIN Order = 1 .. Len(Order)
    /\ \A n \in DOMAIN Order : Order[n] \in Tracks
<1>1. Order \in Seq({t \in Tracks : Score[t].loop}) /\ Order # <<>>
  BY MusicAssumption
<1>2. Len(Order) \in Nat /\ DOMAIN Order = 1 .. Len(Order) /\ Len(Order) # 0
  BY <1>1, LenProperties
<1>3. \A n \in 1 .. Len(Order) : Order[n] \in {t \in Tracks : Score[t].loop}
  BY <1>1, ElementOfSeq
<1>. QED BY <1>2, <1>3

LEMMA MusicStarts == MusicInit => MusicInv
<1>. SUFFICES ASSUME MusicInit PROVE MusicInv
  OBVIOUS
<1>1. BridgeOK(sound) /\ DrumChannel \notin Granted(sound)
  BY NewBridgeOK, AmbientKeeps DEF MusicInit
<1>2. MusicTypes
  BY NothingInLine, OrderIs, StartedIs DEF MusicInit, MusicTypes
<1>3. KitsDrum(sound.parts, role)
  BY <1>1 DEF KitsDrum, Granted, ToSet
<1>. QED BY <1>1, <1>2, <1>3 DEF MusicInv, MutedIsQuiet, SilentWhileMuted, MusicInit

\* The master volume goes first where a gesture starts the grid.
LEMMA OpeningInLine ==
    ASSUME NEW b
    PROVE  InLine(Opening(b))
BY NothingInLine, MasterInLine DEF Opening

\* A gesture leaves the fixture as it is and puts nothing in its queue while that is
\* muted.
LEMMA GestureKeeps ==
    ASSUME MusicInv, NEW b \in 0 .. now, Gesture(b),
           UNCHANGED <<now, phase, role, muted, sound>>,
           next' \in DOMAIN Order, DOMAIN tracks' = Tracks,
           \A t \in Tracks : TrackOK(tracks'[t]), InLine(queue'), muted => queue' = queue
    PROVE  MusicInv'
<1>1. t0' \in Nat \cup {NoTime} /\ now' \in Nat
  BY DEF MusicInv, MusicTypes, Gesture
<1>2. MusicTypes'
  BY <1>1 DEF MusicTypes
<1>3. /\ BridgeOK(sound') /\ KitsDrum(sound'.parts, role')
      /\ phase' = "idle" => DrumChannel \notin Granted(sound')
  BY DEF MusicInv
<1>4. SilentWhileMuted'
  BY DEF MusicInv, SilentWhileMuted, Parts
<1>5. MutedIsQuiet'
  BY DEF MusicInv, MutedIsQuiet
<1>. QED BY <1>2, <1>3, <1>4, <1>5 DEF MusicInv

LEMMA TapKeeps ==
    ASSUME MusicInv, NEW b \in 0 .. now, OnTap(b)
    PROVE  MusicInv'
<1>. DEFINE t    == Order[next]
            step == b - t0'
            in   == Enable(t, tracks[t], step, level)
            out  == Disable(t, tracks[t], step)
            q    == Queued(queue, t0', Opening(b))
            p    == Purged(q, t)
<1>1. next \in DOMAIN Order /\ t \in Tracks
  BY OrderIs DEF MusicInv, MusicTypes
<1>2. DOMAIN tracks = Tracks /\ (\A u \in Tracks : TrackOK(tracks[u])) /\ InLine(queue)
  BY DEF MusicInv, MusicTypes
<1>3. next' \in DOMAIN Order
  BY <1>1, OrderIs DEF OnTap
<1>4. Gesture(b) /\ UNCHANGED <<now, phase, role, muted, sound>>
  BY DEF OnTap
<1>5. InLine(q) /\ (muted => q = queue)
  BY <1>2, OpeningInLine, QueuedInLine
<1>6. InLine(p) /\ (muted => p = queue)
  <2>1. muted => queue = <<>>
    BY DEF MusicInv, MutedIsQuiet
  <2>. HIDE DEF q, t
  <2>. QED BY <1>5, <2>1, PurgedInLine
<1>7. CASE tracks[t].on
  <2>1. tracks' = [tracks EXCEPT ![t] = out.track] /\ queue' = Queued(p, t0', out.cues)
    BY <1>7 DEF OnTap
  <2>2. TrackOK(out.track) /\ InLine(out.cues)
    BY <1>1, <1>2, DisableKeeps
  <2>. HIDE DEF out, p, t
  <2>3. InLine(queue') /\ (muted => queue' = queue)
    BY <1>6, <2>1, <2>2, QueuedInLine
  <2>4. DOMAIN tracks' = Tracks /\ \A u \in Tracks : TrackOK(tracks'[u])
    BY <1>1, <1>2, <2>1, <2>2
  <2>. QED BY <1>3, <1>4, <2>3, <2>4, GestureKeeps
<1>8. CASE ~tracks[t].on
  <2>1. tracks' = [tracks EXCEPT ![t] = in.track] /\ queue' = Queued(q, t0', in.cues)
    BY <1>8 DEF OnTap
  <2>2. TrackOK(in.track) /\ InLine(in.cues)
    BY <1>1, <1>2, EnableKeeps
  <2>. HIDE DEF in, q, t
  <2>3. InLine(queue') /\ (muted => queue' = queue)
    BY <1>5, <2>1, <2>2, QueuedInLine
  <2>4. DOMAIN tracks' = Tracks /\ \A u \in Tracks : TrackOK(tracks'[u])
    BY <1>1, <1>2, <2>1, <2>2
  <2>. QED BY <1>3, <1>4, <2>3, <2>4, GestureKeeps
<1>. QED BY <1>7, <1>8

LEMMA DoubleTapKeeps ==
    ASSUME MusicInv, NEW b \in 0 .. now, OnDoubleTap(b)
    PROVE  MusicInv'
<1>. DEFINE t    == OneShot
            step == b - t0'
            in   == PlayOnce(t, tracks[t], step, level)
            out  == Disable(t, tracks[t], step)
            q    == Queued(queue, t0', Opening(b))
            p    == Purged(q, t)
<1>1. t \in Tracks
  BY MusicAssumption
<1>2. DOMAIN tracks = Tracks /\ (\A u \in Tracks : TrackOK(tracks[u])) /\ InLine(queue)
  BY DEF MusicInv, MusicTypes
<1>3. next' \in DOMAIN Order
  BY DEF OnDoubleTap, MusicInv, MusicTypes
<1>4. Gesture(b) /\ UNCHANGED <<now, phase, role, muted, sound>>
  BY DEF OnDoubleTap
<1>5. InLine(q) /\ (muted => q = queue)
  BY <1>2, OpeningInLine, QueuedInLine
<1>6. InLine(p) /\ (muted => p = queue)
  <2>1. muted => queue = <<>>
    BY DEF MusicInv, MutedIsQuiet
  <2>. HIDE DEF q, t
  <2>. QED BY <1>5, <2>1, PurgedInLine
<1>7. CASE tracks[t].on
  <2>1. tracks' = [tracks EXCEPT ![t] = out.track] /\ queue' = Queued(p, t0', out.cues)
    BY <1>7 DEF OnDoubleTap
  <2>2. TrackOK(out.track) /\ InLine(out.cues)
    BY <1>1, <1>2, DisableKeeps
  <2>. HIDE DEF out, p, t
  <2>3. InLine(queue') /\ (muted => queue' = queue)
    BY <1>6, <2>1, <2>2, QueuedInLine
  <2>4. DOMAIN tracks' = Tracks /\ \A u \in Tracks : TrackOK(tracks'[u])
    BY <1>1, <1>2, <2>1, <2>2
  <2>. QED BY <1>3, <1>4, <2>3, <2>4, GestureKeeps
<1>8. CASE ~tracks[t].on
  <2>1. tracks' = [tracks EXCEPT ![t] = in.track] /\ queue' = Queued(q, t0', in.cues)
    BY <1>8 DEF OnDoubleTap
  <2>2. TrackOK(in.track) /\ InLine(in.cues)
    BY <1>1, <1>2, PlayOnceKeeps
  <2>. HIDE DEF in, q, t
  <2>3. InLine(queue') /\ (muted => queue' = queue)
    BY <1>5, <2>1, <2>2, QueuedInLine
  <2>4. DOMAIN tracks' = Tracks /\ \A u \in Tracks : TrackOK(tracks'[u])
    BY <1>1, <1>2, <2>1, <2>2
  <2>. QED BY <1>3, <1>4, <2>3, <2>4, GestureKeeps
<1>. QED BY <1>7, <1>8

LEMMA TiltKeeps ==
    ASSUME MusicInv, NEW b \in 0 .. now, OnTilt(b)
    PROVE  MusicInv'
<1>1. DOMAIN tracks = Tracks /\ (\A u \in Tracks : TrackOK(tracks[u])) /\ InLine(queue)
  BY DEF MusicInv, MusicTypes
<1>2. /\ queue' = Queued(queue, t0, Master(b - t0, level')) /\ Gesture(b)
      /\ UNCHANGED <<now, phase, role, tracks, next, muted, sound>>
  BY DEF OnTilt
<1>3. InLine(queue') /\ (muted => queue' = queue)
  BY <1>1, <1>2, MasterInLine, QueuedInLine
<1>4. next' \in DOMAIN Order
  BY <1>2 DEF MusicInv, MusicTypes
<1>. QED BY <1>1, <1>2, <1>3, <1>4, GestureKeeps

LEMMA StopMusicKeeps ==
    ASSUME MusicInv, Stop
    PROVE  MusicInv'
<1>1. Retuned(sound, sound') /\ \A c \in Granted(sound) : sound'.synth[c] = Fresh
  BY SilenceRetunes DEF MusicInv, Stop
<1>2. BridgeOK(sound') /\ sound'.parts = sound.parts /\ Granted(sound') = Granted(sound)
  BY <1>1, RetunedKeeps DEF MusicInv, Granted
<1>3. MusicTypes'
  BY NothingInLine DEF MusicInv, MusicTypes, Stop, Mute
<1>4. MutedIsQuiet'
  BY DEF Stop, Mute, MutedIsQuiet
<1>5. SilentWhileMuted'
  <2>1. Sounding(Fresh) = {}
    BY DEF Sounding, Fresh
  <2>. QED BY <1>1, <1>2, <2>1 DEF SilentWhileMuted, Parts, Granted
<1>6. KitsDrum(sound'.parts, role') /\ (phase' = "idle" => DrumChannel \notin Granted(sound'))
  BY <1>2 DEF MusicInv, Stop
<1>. QED BY <1>2, <1>3, <1>4, <1>5, <1>6 DEF MusicInv

\* A step that leaves the fixture unmuted and its sound in order.
LEMMA UnmutedKeeps ==
    ASSUME MusicTypes', ~muted', BridgeOK(sound'), KitsDrum(sound'.parts, role'),
           phase' = "idle" => DrumChannel \notin Granted(sound')
    PROVE  MusicInv'
BY DEF MusicInv, MutedIsQuiet, SilentWhileMuted

LEMMA UnmuteKeeps ==
    ASSUME MusicInv, Unmute
    PROVE  MusicInv'
<1>1. MusicTypes' /\ ~muted'
  BY DEF MusicInv, MusicTypes, Unmute
<1>2. /\ BridgeOK(sound') /\ KitsDrum(sound'.parts, role')
      /\ phase' = "idle" => DrumChannel \notin Granted(sound')
  BY DEF MusicInv, Unmute
<1>. QED BY <1>1, <1>2, UnmutedKeeps

LEMMA FresherIs ==
    ASSUME Fresher
    PROVE  /\ t0' = NoTime /\ next' \in DOMAIN Order
           /\ DOMAIN tracks' = Tracks /\ \A t \in Tracks : TrackOK(tracks'[t])
BY OrderIs, StartedIs DEF Fresher

LEMMA LoadMusicKeeps ==
    ASSUME MusicInv, Load
    PROVE  MusicInv'
<1>. DEFINE r == OnRelease(sound)
<1>1. BridgeOK(r) /\ r.parts = <<>>
  BY OnReleaseKeeps DEF MusicInv
<1>2. role' \in Seq(BOOLEAN) /\ sound' = OnGrant(r, role') /\ phase' = "setup"
  BY MusicAssumption DEF Load
<1>. HIDE DEF r
<1>3. BridgeOK(sound') /\ KitsDrum(sound'.parts, role')
  BY <1>1, <1>2, OnGrantKeeps
<1>4. ~muted'
  BY DEF MusicInv, MutedIsQuiet, Load
<1>5. MusicTypes'
  BY FresherIs DEF MusicInv, MusicTypes, Load
<1>. QED BY <1>2, <1>3, <1>4, <1>5, UnmutedKeeps

LEMMA JoinMusicKeeps ==
    ASSUME MusicInv, Join
    PROVE  MusicInv'
<1>1. BridgeOK(sound') /\ sound'.parts = sound.parts
  BY PlayNoteKeeps DEF MusicInv, Join
<1>2. KitsDrum(sound'.parts, role') /\ phase' # "idle" /\ ~muted'
  BY <1>1 DEF MusicInv, MutedIsQuiet, Join
<1>3. MusicTypes'
  BY DEF MusicInv, MusicTypes, Join
<1>. QED BY <1>1, <1>2, <1>3, UnmutedKeeps

LEMMA RunMusicKeeps ==
    ASSUME MusicInv, Run
    PROVE  MusicInv'
<1>1. MusicTypes' /\ ~muted' /\ BridgeOK(sound') /\ KitsDrum(sound'.parts, role')
  BY DEF MusicInv, MusicTypes, MutedIsQuiet, Run
<1>2. phase' # "idle"
  BY DEF Run
<1>. QED BY <1>1, <1>2, UnmutedKeeps

LEMMA UnloadMusicKeeps ==
    ASSUME MusicInv, Unload
    PROVE  MusicInv'
<1>1. BridgeOK(StopDrone(sound))
  BY StopDroneRetunes, RetunedKeeps DEF MusicInv
<1>2. BridgeOK(sound') /\ DrumChannel \notin Granted(sound')
  BY <1>1, AmbientKeeps DEF Unload
<1>3. KitsDrum(sound'.parts, role')
  BY <1>2 DEF KitsDrum, Granted, ToSet
<1>4. MusicTypes' /\ ~muted'
  BY FresherIs, NothingInLine DEF MusicInv, MusicTypes, Unload
<1>. QED BY <1>2, <1>3, <1>4, UnmutedKeeps

\* A lap ends bells, and sounds nothing while the fixture is muted.
LEMMA LapKeeps ==
    ASSUME MusicInv, MusicLap
    PROVE  MusicInv'
<1>. DEFINE start == IF t0 = NoTime THEN now ELSE t0
            step  == now - start
            ticks == phase = "running" /\ role = Player
            heard == Sounded(sound, Due(queue))
            ended == Tick(heard)
            rest == Rest(queue)
<1>1. /\ DOMAIN tracks = Tracks /\ (\A t \in Tracks : TrackOK(tracks[t])) /\ InLine(queue)
      /\ now \in Nat /\ t0 \in Nat \cup {NoTime} /\ next \in DOMAIN Order
      /\ BridgeOK(sound) /\ MutedIsQuiet /\ SilentWhileMuted
  BY DEF MusicInv, MusicTypes
<1>2. start \in Nat /\ step \in Int
  BY <1>1 DEF NoTime
<1>3. InLine(Emitted(step))
  <2>. HIDE DEF step
  <2>. QED BY <1>1, <1>2, EmittedInLine
<1>4. /\ InLine(Due(queue)) /\ InLine(rest)
      /\ muted => Due(queue) = <<>> /\ rest = <<>>
  BY <1>1, DueAndRestInLine DEF MutedIsQuiet
<1>5. /\ BridgeOK(heard) /\ heard.parts = sound.parts /\ (muted => heard = sound)
  BY <1>1, <1>4, SoundedRetunes, RetunedKeeps
<1>6. /\ BridgeOK(ended) /\ ended.parts = heard.parts
      /\ \A c \in Granted(heard) : ended.synth[c] = heard.synth[c]
  <2>. HIDE DEF heard
  <2>. QED BY <1>5, TickKeeps
<1>7. /\ BridgeOK(sound') /\ sound'.parts = sound.parts /\ sound'.synth = ended.synth
  <2>1. sound' = Wait(ended)
    BY DEF MusicLap
  <2>. HIDE DEF ended, heard
  <2>. QED BY <1>5, <1>6, <2>1, WaitKeeps
<1>8. SilentWhileMuted' /\ Granted(sound') = Granted(sound)
  <2>1. muted' = muted
    BY DEF MusicLap
  <2>2. Granted(sound') = Granted(sound) /\ Granted(heard) = Granted(sound)
    BY <1>5, <1>7 DEF Granted
  <2>. HIDE DEF heard, ended
  <2>. QED BY <1>1, <1>5, <1>6, <1>7, <2>1, <2>2 DEF SilentWhileMuted, Parts, Granted
<1>9. /\ now' = now + 1 /\ t0' = (IF ticks THEN start ELSE t0)
      /\ tracks' = (IF ticks THEN [t \in Tracks |-> Advance(t, tracks[t], step, level).track]
                    ELSE tracks)
      /\ UNCHANGED <<phase, role, next, muted>>
  BY DEF MusicLap
<1>10. DOMAIN tracks' = Tracks /\ \A t \in Tracks : TrackOK(tracks'[t])
  <2>1. \A t \in Tracks : TrackOK(Advance(t, tracks[t], step, level).track)
    BY <1>1, <1>2, AdvanceKeeps
  <2>. HIDE DEF step, ticks
  <2>. QED BY <1>1, <1>9, <2>1
<1>11. now' \in Nat /\ t0' \in Nat \cup {NoTime} /\ next' \in DOMAIN Order
  BY <1>1, <1>2, <1>9
<1>12. InLine(queue') /\ (muted => queue' = <<>>)
  <2>1. queue' = Elapse(IF ticks THEN Queued(rest, start, Emitted(step)) ELSE rest)
    BY DEF MusicLap
  <2>. HIDE DEF start, ticks, rest, step
  <2>2. /\ InLine(Queued(rest, start, Emitted(step)))
        /\ muted => Queued(rest, start, Emitted(step)) = rest
    BY <1>3, <1>4, QueuedInLine
  <2>. QED BY <1>4, <2>1, <2>2, ElapseInLine
<1>13. MusicTypes' /\ MutedIsQuiet'
  BY <1>1, <1>9, <1>10, <1>11, <1>12 DEF MusicTypes, MutedIsQuiet
<1>14. KitsDrum(sound'.parts, role') /\ (phase' = "idle" => DrumChannel \notin Granted(sound'))
  BY <1>7, <1>8, <1>9 DEF MusicInv
<1>. QED BY <1>7, <1>8, <1>13, <1>14 DEF MusicInv

-----------------------------------------------------------------------------

THEOREM MusicInvariant == MusicSpec => []MusicInv
<1>1. MusicInv /\ [MusicNext]_musicVars => MusicInv'
  <2>. SUFFICES ASSUME MusicInv, [MusicNext]_musicVars PROVE MusicInv'
    OBVIOUS
  <2>1. CASE \E b \in 0 .. now : OnTap(b) \/ OnDoubleTap(b) \/ OnTilt(b)
    BY <2>1, TapKeeps, DoubleTapKeeps, TiltKeeps
  <2>2. CASE Stop \/ Unmute
    BY <2>2, StopMusicKeeps, UnmuteKeeps
  <2>3. CASE Load \/ Join \/ Run \/ Unload
    BY <2>3, LoadMusicKeeps, JoinMusicKeeps, RunMusicKeeps, UnloadMusicKeeps
  <2>4. CASE MusicLap
    BY <2>4, LapKeeps
  <2>5. CASE UNCHANGED musicVars
    BY <2>5 DEF musicVars, MusicInv, MusicTypes, MutedIsQuiet, SilentWhileMuted, Parts
  <2>. QED BY <2>1, <2>2, <2>3, <2>4, <2>5 DEF MusicNext
<1>. QED BY <1>1, MusicStarts, PTL DEF MusicSpec

\* Every channel of the synthesizer is in the pool, granted or ringing a bell, and
\* in one of these only; melodies stay off the drum channel; and what the pool has to
\* give is silent, with its pedal up and its volume back, whenever a Bit was swapped
\* out or a bell ended.
THEOREM ChannelsAreKept == MusicSpec => []ChannelsKept
<1>1. ASSUME MusicInv PROVE ChannelsKept
  <2>1. /\ BridgeOK(sound) /\ KitsDrum(sound.parts, role)
        /\ phase = "idle" => DrumChannel \notin Granted(sound)
    BY <1>1 DEF MusicInv
  <2>2. /\ Channels = sound.free \cup Parts \cup Belled
        /\ sound.free \cap (Parts \cup Belled) = {} /\ Parts \cap Belled = {}
        /\ DrumChannel \notin Belled
    BY <2>1 DEF BridgeOK, Granted, Ringing, Parts, Belled
  <2>3. /\ \A i, j \in DOMAIN sound.parts : sound.parts[i] = sound.parts[j] => i = j
        /\ \A a, b \in sound.bells : a.channel = b.channel => a = b
        /\ \A c \in sound.free : sound.synth[c] = Fresh
    BY <2>1 DEF BridgeOK
  <2>4. \A i \in DOMAIN sound.parts :
            sound.parts[i] = DrumChannel => phase # "idle" /\ role[i]
    BY <2>1 DEF KitsDrum, Granted, ToSet
  <2>. QED BY <2>2, <2>3, <2>4 DEF ChannelsKept
<1>. QED BY <1>1, MusicInvariant, PTL

\* While the fixture is muted no channel of the Bit's sounds: Stop let every key and
\* pedal go and emptied the queue, and nothing is queued until it is lifted.
THEOREM StopIsSilence == MusicSpec => []SilentWhileMuted
<1>1. MusicInv => SilentWhileMuted
  BY DEF MusicInv
<1>. QED BY <1>1, MusicInvariant, PTL

=============================================================================
