-------------------------- MODULE GameServerProofs --------------------------
(***************************************************************************)
(* What GameServer.tla keeps for every number of devices, fixtures and     *)
(* roles, and with every Room hazard; and, at the end, what a Bit that     *)
(* judges keeps (Metronome.tla), for any players and any tempo.            *)
(***************************************************************************)
EXTENDS GameServer, Metronome, FiniteSetTheorems, SequenceTheorems, WellFoundedInduction,
        TLAPS

\* The roles are pairwise apart, and a solo role has room for everyone.
LEMMA RoleFacts ==
    /\ ScoredRole \subseteq PlayerRole
    /\ UnscoredRole \subseteq PlayerRole
    /\ PlayerRole \subseteq Role
    /\ RoomRole \in Role
    /\ RoomRole \notin PlayerRole
    /\ None \notin Role
    /\ Capacity \in [Role -> Nat \cup {Unlimited}]
    /\ \A i \in Instrument :
         /\ SoloRole[i] \in PlayerRole
         /\ SoloRole[i] \notin ScoredRole
         /\ Capacity[SoloRole[i]] = Unlimited
<1>1. Cardinality(Fixture) \in Nat
  BY RoleTableAssumption, FS_CardinalityType DEF RoleTableAssumption
<1>2. PlayerRole \subseteq Role /\ RoomRole \in Role /\ RoomRole \notin PlayerRole
  BY RoleTableAssumption DEF RoleTableAssumption, Role
<1>3. ScoredRole \subseteq PlayerRole /\ UnscoredRole \subseteq PlayerRole
  BY DEF PlayerRole, BitRole
<1>4. \A i \in Instrument : SoloRole[i] \in PlayerRole /\ SoloRole[i] \notin BitRole
  BY RoleTableAssumption DEF RoleTableAssumption, PlayerRole
<1>5. Capacity \in [Role -> Nat \cup {Unlimited}]
  BY <1>1, RoleTableAssumption DEF RoleTableAssumption, Capacity, Role
<1>6. \A i \in Instrument : Capacity[SoloRole[i]] = Unlimited
  BY <1>2, <1>4 DEF Capacity, Role
<1>7. QED
  BY <1>2, <1>3, <1>4, <1>5, <1>6, GameServerAssumption
     DEF GameServerAssumption, BitRole

\* A jam role offered to a device is a player's role with a place left.
LEMMA JamChoicesFit ==
    ASSUME NEW i \in Instrument, NEW r \in JamChoices(i)
    PROVE  /\ r \in PlayerRole
           /\ r \notin ScoredRole
           /\ HasPlace(r, counts[r])
BY RoleFacts, RoleTableAssumption DEF JamChoices, HasPlace, RoleTableAssumption

-----------------------------------------------------------------------------
(* Type correctness.                                                       *)

\* release and assign keep the registration's types.
LEMMA ReleaseTypes ==
    ASSUME TypeOK, NEW d \in Dev, Release(d)
    PROVE  /\ validated' \in [Dev -> ScoredRole \cup {None}]
           /\ assigned' \in [Dev -> Role \cup {None}]
           /\ counts' \in [Role -> Int]
BY DEF TypeOK, Release, Uncount, Held

LEMMA AssignTypes ==
    ASSUME TypeOK, NEW d \in Dev, NEW r \in Role, Assign(d, r)
    PROVE  /\ validated' \in [Dev -> ScoredRole \cup {None}]
           /\ assigned' \in [Dev -> Role \cup {None}]
           /\ counts' \in [Role -> Int]
<1>1. CASE assigned[d] = r
  BY <1>1 DEF TypeOK, Assign, regVars
<1>2. CASE assigned[d] # r
  <2>1. Uncount(d) \in [Role -> Int]
    BY DEF TypeOK, Uncount, Held
  <2>2. /\ validated' = [validated EXCEPT ![d] = None]
        /\ assigned' = [assigned EXCEPT ![d] = r]
        /\ counts' = [Uncount(d) EXCEPT ![r] = @ + 1]
    BY <1>2 DEF Assign
  <2>3. counts' \in [Role -> Int]
    BY <2>1, <2>2
  <2> QED
    BY <2>2, <2>3 DEF TypeOK
<1> QED
  BY <1>1, <1>2

\* validate reserves a scored role that has a place, or frees d's assignment.
LEMMA ValidateCases ==
    ASSUME NEW d \in Dev, NEW n \in Node, Validate(d, n)
    PROVE  \E r \in ScoredRole :
             /\ validated[d] = None
             /\ HasPlace(r, counts[r])
             /\ \/ /\ validated' = [validated EXCEPT ![d] = r]
                   /\ counts' = [counts EXCEPT ![r] = @ + 1]
                   /\ UNCHANGED assigned
                \/ /\ assigned' = [assigned EXCEPT ![d] = None]
                   /\ counts' = [q \in Role |-> counts[q] - Held(assigned, d, q)]
                   /\ UNCHANGED validated
BY DEF Validate

LEMMA ValidateTypes ==
    ASSUME TypeOK, NEW d \in Dev, NEW n \in Node, Validate(d, n)
    PROVE  /\ validated' \in [Dev -> ScoredRole \cup {None}]
           /\ assigned' \in [Dev -> Role \cup {None}]
           /\ counts' \in [Role -> Int]
<1>1. CASE /\ assigned' = [assigned EXCEPT ![d] = None]
           /\ counts' = [q \in Role |-> counts[q] - Held(assigned, d, q)]
           /\ UNCHANGED validated
  BY <1>1 DEF TypeOK, Held
<1>2. ASSUME NEW r \in ScoredRole,
             validated' = [validated EXCEPT ![d] = r],
             counts' = [counts EXCEPT ![r] = @ + 1],
             UNCHANGED assigned
      PROVE  /\ validated' \in [Dev -> ScoredRole \cup {None}]
             /\ assigned' \in [Dev -> Role \cup {None}]
             /\ counts' \in [Role -> Int]
  <2>1. r \in Role
    BY RoleFacts
  <2> QED
    BY <1>2, <2>1 DEF TypeOK
<1>3. \E r \in ScoredRole :
        \/ /\ validated' = [validated EXCEPT ![d] = r]
           /\ counts' = [counts EXCEPT ![r] = @ + 1]
           /\ UNCHANGED assigned
        \/ /\ assigned' = [assigned EXCEPT ![d] = None]
           /\ counts' = [q \in Role |-> counts[q] - Held(assigned, d, q)]
           /\ UNCHANGED validated
  BY ValidateCases
<1> QED
  BY <1>1, <1>2, <1>3

LEMMA InitTypes == Init => TypeOK
<1> SUFFICES ASSUME Init PROVE TypeOK
  OBVIOUS
<1>1. counts \in [Role -> Int]
  BY DEF Init
<1> QED
  BY <1>1 DEF Init, TypeOK

LEMMA LoopStepTypes == TypeOK /\ LoopStep => TypeOK'
<1> SUFFICES ASSUME TypeOK, LoopStep PROVE TypeOK'
  OBVIOUS
<1>1. CASE LoadBitFails
  BY <1>1 DEF TypeOK, LoadBitFails, regVars, roomVars, poolVars
<1>2. CASE LoadBitSucceeds
  BY <1>2 DEF TypeOK, LoadBitSucceeds, roomVars, loopVars, poolVars
<1>3. CASE EnterSetup
  BY <1>3 DEF TypeOK, EnterSetup, regVars, roomVars, poolVars
<1>4. CASE \E d \in Dev : JamOne(d)
  <2>1. PICK d \in Dev : JamOne(d)
    BY <1>4
  <2>2. CASE assigned[d] # None
    BY <2>1, <2>2 DEF TypeOK, JamOne, regVars, roomVars, poolVars
  <2>3. CASE assigned[d] = None
    <3>1. carried[d] \in Instrument
      BY DEF TypeOK
    <3>2. PICK r \in JamChoices(carried[d]) : Assign(d, r) /\ owed' = owed \cup {d}
      BY <2>1, <2>3 DEF JamOne
    <3>3. r \in Role
      BY <3>1, JamChoicesFit, RoleFacts
    <3>4. /\ validated' \in [Dev -> ScoredRole \cup {None}]
          /\ assigned' \in [Dev -> Role \cup {None}]
          /\ counts' \in [Role -> Int]
      BY <3>2, <3>3, AssignTypes
    <3> QED
      BY <2>1, <3>2, <3>4 DEF TypeOK, JamOne, roomVars, poolVars
  <2> QED
    BY <2>2, <2>3
<1>5. CASE \E d \in Dev : GrantOne(d)
  BY <1>5 DEF TypeOK, GrantOne, regVars, roomVars, poolVars
<1>6. CASE RunDone
  BY <1>6 DEF TypeOK, RunDone, regVars, roomVars, poolVars
<1>7. CASE CompleteUnloads
  BY <1>7 DEF TypeOK, CompleteUnloads, StartUnload, regVars, roomVars, poolVars
<1>8. CASE \E d \in Dev : UnloadRelease(d)
  BY <1>8, ReleaseTypes DEF TypeOK, UnloadRelease, roomVars, poolVars
<1>9. CASE \E d \in Dev : UnloadTell(d)
  BY <1>9 DEF TypeOK, UnloadTell, regVars, roomVars, poolVars
<1>10. CASE UnloadDone
  <2>1. counts' \in [Role -> Int]
    BY <1>10 DEF UnloadDone
  <2> QED
    BY <1>10, <2>1 DEF TypeOK, UnloadDone, roomVars, poolVars
<1> QED
  BY <1>1, <1>2, <1>3, <1>4, <1>5, <1>6, <1>7, <1>8, <1>9, <1>10 DEF LoopStep

LEMMA HandlerTypes == TypeOK /\ Handler => TypeOK'
<1> SUFFICES ASSUME TypeOK, Handler PROVE TypeOK'
  OBVIOUS
<1>1. CASE \E d \in Dev, i \in Instrument : Hello(d, i)
  <2>1. PICK d \in Dev, i \in Instrument : Hello(d, i)
    BY <1>1
  <2>2. /\ pool' \subseteq Dev
        /\ silent' \subseteq pool'
        /\ carried' \in [Dev -> Instrument]
        /\ UNCHANGED <<state, round, roomVars, roomNode, loopVars, muted,
                       startedBy>>
    BY <2>1 DEF Hello, TypeOK
  <2>3. /\ validated' \in [Dev -> ScoredRole \cup {None}]
        /\ assigned' \in [Dev -> Role \cup {None}]
        /\ counts' \in [Role -> Int]
        /\ told' \in [Dev -> Role \cup {None}]
    <3>1. CASE state = "RUNNING" /\ JamCandidate(d)
      <4>1. PICK r \in JamChoices(i) :
              Assign(d, r) /\ told' = [told EXCEPT ![d] = r]
        BY <2>1, <3>1 DEF Hello
      <4>2. r \in Role
        BY JamChoicesFit, RoleFacts
      <4>3. told' \in [Dev -> Role \cup {None}]
        BY <4>1, <4>2 DEF TypeOK
      <4> QED
        BY <4>1, <4>2, <4>3, AssignTypes
    <3>2. CASE ~(state = "RUNNING" /\ JamCandidate(d))
      BY <2>1, <3>2 DEF Hello, TypeOK, regVars
    <3> QED
      BY <3>1, <3>2
  <2> QED
    BY <2>2, <2>3 DEF TypeOK, roomVars, loopVars
<1>2. CASE \E d \in Dev : Touch(d)
  BY <1>2 DEF TypeOK, Touch, regVars, roomVars, loopVars
<1>3. CASE \E d \in Dev : GoSilent(d)
  BY <1>3 DEF TypeOK, GoSilent, regVars, roomVars, loopVars
<1>4. CASE \E d \in Dev : Reap(d)
  <2>1. PICK d \in Dev : Reap(d)
    BY <1>4
  <2>2. /\ validated' \in [Dev -> ScoredRole \cup {None}]
        /\ assigned' \in [Dev -> Role \cup {None}]
        /\ counts' \in [Role -> Int]
    BY <2>1, ReleaseTypes DEF Reap, ReapHold, TypeOK, regVars
  <2>3. told' \in [Dev -> Role \cup {None}]
    BY <2>1 DEF Reap, TypeOK
  <2> QED
    BY <2>1, <2>2, <2>3 DEF TypeOK, Reap, Forget, roomVars, loopVars
<1>5. CASE \E d \in Dev : HandshakeRoom(d)
  <2>1. PICK d \in Dev : HandshakeRoom(d)
    BY <1>5
  <2>2. /\ validated' \in [Dev -> ScoredRole \cup {None}]
        /\ assigned' \in [Dev -> Role \cup {None}]
        /\ counts' \in [Role -> Int]
    BY <2>1, RoleFacts, AssignTypes DEF HandshakeRoom
  <2>3. /\ bound' \in [Fixture -> Dev \cup {None}]
        /\ armed' \in Fixture \cup {None}
        /\ muted' \subseteq Dev \cup Fixture
    BY <2>1 DEF HandshakeRoom, BindRoom, TypeOK
  <2>4. told' \in [Dev -> Role \cup {None}]
    BY <2>1 DEF HandshakeRoom, TypeOK
  <2> QED
    BY <2>1, <2>2, <2>3, <2>4 DEF TypeOK, HandshakeRoom, loopVars
<1>6. CASE \E d \in Dev, rid \in 1 .. round, n \in Node : HandshakePlayer(d, rid, n)
  <2>1. PICK d \in Dev, rid \in 1 .. round, n \in Node : HandshakePlayer(d, rid, n)
    BY <1>6
  <2>2. /\ validated' \in [Dev -> ScoredRole \cup {None}]
        /\ assigned' \in [Dev -> Role \cup {None}]
        /\ counts' \in [Role -> Int]
    BY <2>1, ValidateTypes DEF HandshakePlayer
  <2> QED
    BY <2>1, <2>2 DEF TypeOK, HandshakePlayer, roomVars, loopVars
<1>7. CASE LoadRoom
  BY <1>7, GameServerAssumption
     DEF TypeOK, LoadRoom, GameServerAssumption, regVars, loopVars, poolVars
<1>8. CASE UnloadRoom
  BY <1>8 DEF TypeOK, UnloadRoom, regVars, loopVars
<1>9. CASE Disarm
  BY <1>9 DEF TypeOK, Disarm, regVars, loopVars, poolVars
<1>10. CASE \E f \in Fixture : Arm(f)
  BY <1>10 DEF TypeOK, Arm, regVars, loopVars, poolVars
<1>11. CASE LoadBit
  BY <1>11 DEF TypeOK, LoadBit, regVars, roomVars, poolVars
<1>12. CASE Complete
  BY <1>12 DEF TypeOK, Complete, regVars, roomVars, poolVars
<1>13. CASE Abort
  BY <1>13 DEF TypeOK, Abort, StartUnload, regVars, roomVars, poolVars
<1>14. CASE \E admin, keyed \in BOOLEAN : Run(admin, keyed)
  <2>1. PICK admin \in BOOLEAN, keyed \in BOOLEAN : Run(admin, keyed)
    BY <1>14
  <2>2. /\ validated' \in [Dev -> ScoredRole \cup {None}]
        /\ assigned' \in [Dev -> Role \cup {None}]
        /\ todo' \subseteq Dev
        /\ owed' \subseteq Dev
    BY <2>1, RoleFacts DEF TypeOK, Run, JamCandidates, ReservedDevs
  <2> QED
    BY <2>1, <2>2 DEF TypeOK, Run, roomVars, poolVars
<1>15. CASE \E s \in MuteTargets : Stop(s) \/ Fire(s)
  <2>1. PICK s \in MuteTargets : Stop(s) \/ Fire(s)
    BY <1>15
  <2>2. Resolve(s) \in Dev \cup Fixture
    BY GameServerAssumption DEF GameServerAssumption, Resolve, TypeOK
  <2>3. MuteKey(Resolve(s), bound) \in Dev \cup Fixture
    BY <2>2 DEF MuteKey
  <2> QED
    BY <2>1, <2>3 DEF TypeOK, Stop, Fire, regVars, roomVars, loopVars, poolVars
<1> QED
  BY <1>1, <1>2, <1>3, <1>4, <1>5, <1>6, <1>7, <1>8, <1>9, <1>10, <1>11, <1>12,
     <1>13, <1>14, <1>15 DEF Handler

LEMMA StutterTypes == TypeOK /\ UNCHANGED vars => TypeOK'
BY DEF TypeOK, vars, regVars, roomVars, loopVars, poolVars

LEMMA NextTypes == TypeOK /\ [Next]_vars => TypeOK'
BY LoopStepTypes, HandlerTypes, StutterTypes DEF Next

\* Every variable keeps its type, whatever the Bit, the Room and the devices do.
THEOREM TypeCorrect == Spec => []TypeOK
BY InitTypes, NextTypes, PTL DEF Spec

-----------------------------------------------------------------------------
(* The lifecycle: who holds what in which state.                           *)

LEMMA InitFollows == Init => HoldsFollowState
BY DEF Init, HoldsFollowState

\* assign leaves only d changed, with no reservation and the new role.
LEMMA AssignEffect ==
    ASSUME TypeOK, NEW d \in Dev, NEW r \in Role, Assign(d, r)
    PROVE  /\ assigned'[d] = r
           /\ validated'[d] \in {None, validated[d]}
           /\ \A x \in Dev \ {d} : validated'[x] = validated[x]
           /\ \A x \in Dev \ {d} : assigned'[x] = assigned[x]
<1>1. CASE assigned[d] = r
  BY <1>1 DEF Assign, regVars
<1>2. CASE assigned[d] # r
  BY <1>2 DEF Assign, TypeOK
<1> QED
  BY <1>1, <1>2

LEMMA ReleaseEffect ==
    ASSUME TypeOK, NEW d \in Dev, Release(d)
    PROVE  /\ assigned'[d] = None
           /\ validated'[d] = None
           /\ \A x \in Dev \ {d} : validated'[x] = validated[x]
           /\ \A x \in Dev \ {d} : assigned'[x] = assigned[x]
BY DEF Release, TypeOK

LEMMA LoopFollows == TypeOK /\ HoldsFollowState /\ LoopStep => HoldsFollowState'
<1> SUFFICES ASSUME TypeOK, HoldsFollowState, LoopStep PROVE HoldsFollowState'
  OBVIOUS
<1>1. CASE LoadBitFails
  BY <1>1 DEF LoadBitFails, HoldsFollowState, regVars
<1>2. CASE LoadBitSucceeds
  BY <1>2 DEF LoadBitSucceeds, HoldsFollowState, loopVars
<1>3. CASE EnterSetup
  BY <1>3 DEF EnterSetup, HoldsFollowState, regVars
<1>4. ASSUME NEW d \in Dev, JamOne(d) PROVE HoldsFollowState'
  <2>1. loop' = loop /\ state' = state /\ loop = "jam" /\ state = "RUNNING"
    BY <1>4 DEF JamOne, HoldsFollowState
  <2>2. \A x \in Dev : validated'[x] = None
    <3>1. CASE assigned[d] # None
      BY <1>4, <2>1, <3>1 DEF JamOne, regVars, HoldsFollowState
    <3>2. CASE assigned[d] = None
      <4>1. PICK r \in JamChoices(carried[d]) : Assign(d, r)
        BY <1>4, <3>2 DEF JamOne
      <4>2. r \in Role
        BY JamChoicesFit, RoleFacts DEF TypeOK
      <4> QED
        BY <2>1, <4>1, <4>2, AssignEffect DEF HoldsFollowState
    <3> QED
      BY <3>1, <3>2
  <2> QED
    BY <2>1, <2>2 DEF HoldsFollowState
<1>5. ASSUME NEW d \in Dev, GrantOne(d) PROVE HoldsFollowState'
  BY <1>5 DEF GrantOne, HoldsFollowState, regVars
<1>6. CASE RunDone
  BY <1>6 DEF RunDone, HoldsFollowState, regVars
<1>7. CASE CompleteUnloads
  BY <1>7 DEF CompleteUnloads, StartUnload, HoldsFollowState, regVars
<1>8. ASSUME NEW d \in Dev, UnloadRelease(d) PROVE HoldsFollowState'
  <2>1. loop' = loop /\ state' = state /\ loop = "unload" /\ state = "UNLOADING"
    BY <1>8 DEF UnloadRelease, HoldsFollowState
  <2> QED
    BY <2>1 DEF HoldsFollowState
<1>9. ASSUME NEW d \in Dev, UnloadTell(d) PROVE HoldsFollowState'
  BY <1>9 DEF UnloadTell, HoldsFollowState, regVars
<1>10. CASE UnloadDone
  BY <1>10 DEF UnloadDone, HoldsFollowState
<1> QED
  BY <1>1, <1>2, <1>3, <1>4, <1>5, <1>6, <1>7, <1>8, <1>9, <1>10 DEF LoopStep

\* Every handler starts with no loop running, so the state decides what is held.
LEMMA HandlerFollows == TypeOK /\ HoldsFollowState /\ Handler => HoldsFollowState'
<1> SUFFICES ASSUME TypeOK, HoldsFollowState, Handler PROVE HoldsFollowState'
  OBVIOUS
<1> USE DEF Quiet
<1>1. ASSUME NEW d \in Dev, NEW i \in Instrument, Hello(d, i)
      PROVE  HoldsFollowState'
  <2>1. loop' = loop /\ state' = state
    BY <1>1 DEF Hello, loopVars
  <2>2. CASE state = "RUNNING" /\ JamCandidate(d)
    <3>1. PICK r \in JamChoices(i) : Assign(d, r)
      BY <1>1, <2>2 DEF Hello
    <3>2. r \in Role
      BY JamChoicesFit, RoleFacts
    <3>3. \A x \in Dev : validated'[x] = None
      BY <2>2, <3>1, <3>2, AssignEffect DEF HoldsFollowState
    <3> QED
      BY <2>1, <2>2, <3>3 DEF HoldsFollowState
  <2>3. CASE ~(state = "RUNNING" /\ JamCandidate(d))
    BY <1>1, <2>1, <2>3 DEF Hello, regVars, HoldsFollowState
  <2> QED
    BY <2>2, <2>3
<1>2. ASSUME NEW d \in Dev, Touch(d) \/ GoSilent(d) PROVE HoldsFollowState'
  BY <1>2 DEF Touch, GoSilent, HoldsFollowState, regVars, loopVars
<1>3. ASSUME NEW d \in Dev, Reap(d) PROVE HoldsFollowState'
  <2>1. loop' = loop /\ state' = state
    BY <1>3 DEF Reap, loopVars
  <2>2. \A x \in Dev : /\ assigned'[x] \in {None, assigned[x]}
                       /\ validated'[x] \in {None, validated[x]}
    BY <1>3, ReleaseEffect DEF Reap, ReapHold, regVars
  <2> QED
    BY <2>1, <2>2 DEF HoldsFollowState
<1>4. ASSUME NEW d \in Dev, HandshakeRoom(d) PROVE HoldsFollowState'
  <2>1. loop' = loop /\ state' = state /\ loop = "none" /\ Registered
    BY <1>4 DEF HandshakeRoom, loopVars
  <2>2. /\ assigned'[d] = RoomRole
        /\ \A x \in Dev \ {d} : assigned'[x] = assigned[x]
        /\ \A x \in Dev : validated'[x] \in {None, validated[x]}
    BY <1>4, RoleFacts, AssignEffect DEF HandshakeRoom
  <2> QED
    BY <2>1, <2>2 DEF HoldsFollowState, Registered
<1>5. ASSUME NEW d \in Dev, NEW rid, NEW n \in Node, HandshakePlayer(d, rid, n)
      PROVE  HoldsFollowState'
  <2>1. loop' = loop /\ state' = state /\ loop = "none" /\ state = "SETUP"
    BY <1>5 DEF HandshakePlayer, loopVars
  <2>2. \A x \in Dev : assigned'[x] \in {None, assigned[x]}
    BY <1>5, ValidateCases DEF HandshakePlayer, TypeOK
  <2> QED
    BY <2>1, <2>2 DEF HoldsFollowState
<1>6. CASE LoadRoom \/ UnloadRoom \/ Disarm
  BY <1>6 DEF LoadRoom, UnloadRoom, Disarm, HoldsFollowState, regVars, loopVars
<1>7. ASSUME NEW f \in Fixture, Arm(f) PROVE HoldsFollowState'
  BY <1>7 DEF Arm, HoldsFollowState, regVars, loopVars
<1>8. CASE LoadBit
  BY <1>8 DEF LoadBit, HoldsFollowState, regVars
<1>9. CASE Complete
  BY <1>9 DEF Complete, HoldsFollowState, regVars
<1>10. CASE Abort
  BY <1>10 DEF Abort, StartUnload, HoldsFollowState, regVars
<1>11. ASSUME NEW admin, NEW keyed, Run(admin, keyed) PROVE HoldsFollowState'
  BY <1>11 DEF Run, HoldsFollowState
<1>12. ASSUME NEW s \in MuteTargets, Stop(s) \/ Fire(s) PROVE HoldsFollowState'
  BY <1>12 DEF Stop, Fire, HoldsFollowState, regVars, loopVars
<1> QED
  BY <1>1, <1>2, <1>3, <1>4, <1>5, <1>6, <1>7, <1>8, <1>9, <1>10, <1>11, <1>12
     DEF Handler

LEMMA NextFollows == TypeOK /\ HoldsFollowState /\ [Next]_vars => HoldsFollowState'
<1>1. HoldsFollowState /\ UNCHANGED vars => HoldsFollowState'
  BY DEF HoldsFollowState, vars, regVars, loopVars
<1> QED
  BY <1>1, LoopFollows, HandlerFollows DEF Next

\* What may be held follows the state of the lifecycle.
THEOREM LifecycleDecidesHolds == Spec => []HoldsFollowState
BY TypeCorrect, InitFollows, NextFollows, PTL DEF Spec

-----------------------------------------------------------------------------
(* Capacity: the counters cover the holders and stay within the capacity.  *)

\* A map that differs from m at d only: d moves between the sets of holders.
LEMMA HeldAfter ==
    ASSUME NEW m, NEW new, NEW d \in Dev, NEW r,
           \A x \in Dev \ {d} : new[x] = m[x]
    PROVE  Cardinality(HeldBy(new, r)) =
             Cardinality(HeldBy(m, r)) - Held(m, d, r) + Held(new, d, r)
<1>1. IsFiniteSet(HeldBy(m, r)) /\ Cardinality(HeldBy(m, r)) \in Nat
  BY GameServerAssumption, FS_Subset, FS_CardinalityType
     DEF GameServerAssumption, HeldBy
<1>2. Held(m, d, r) = IF d \in HeldBy(m, r) THEN 1 ELSE 0
  BY DEF Held, HeldBy
<1>3. CASE new[d] = r
  <2>1. HeldBy(new, r) = HeldBy(m, r) \cup {d}
    BY <1>3 DEF HeldBy
  <2>2. Cardinality(HeldBy(m, r) \cup {d}) =
          IF d \in HeldBy(m, r) THEN Cardinality(HeldBy(m, r))
          ELSE Cardinality(HeldBy(m, r)) + 1
    BY <1>1, FS_AddElement
  <2>3. Held(new, d, r) = 1
    BY <1>3 DEF Held
  <2> QED
    BY <1>1, <1>2, <2>1, <2>2, <2>3
<1>4. CASE new[d] # r
  <2>1. HeldBy(new, r) = HeldBy(m, r) \ {d}
    BY <1>4 DEF HeldBy
  <2>2. Cardinality(HeldBy(m, r) \ {d}) =
          IF d \in HeldBy(m, r) THEN Cardinality(HeldBy(m, r)) - 1
          ELSE Cardinality(HeldBy(m, r))
    BY <1>1, FS_RemoveElement
  <2>3. Held(new, d, r) = 0
    BY <1>4 DEF Held
  <2> QED
    BY <1>1, <1>2, <2>1, <2>2, <2>3
<1> QED
  BY <1>3, <1>4

LEMMA HoldCountTypes ==
    ASSUME NEW r
    PROVE  Cardinality(Reserved(r)) \in Nat /\ Cardinality(Holders(r)) \in Nat
<1>1. IsFiniteSet(Reserved(r)) /\ IsFiniteSet(Holders(r))
  BY GameServerAssumption, FS_Subset DEF GameServerAssumption, Reserved, Holders, HeldBy
<1> QED
  BY <1>1, FS_CardinalityType

\* The same, for the reservations and for the assignments of a step.
LEMMA ReservedAfter ==
    ASSUME NEW d \in Dev, NEW r, \A x \in Dev \ {d} : validated'[x] = validated[x]
    PROVE  Cardinality(Reserved(r)') =
             Cardinality(Reserved(r)) - Held(validated, d, r)
               + Held(validated', d, r)
<1>1. Cardinality(HeldBy(validated', r)) =
        Cardinality(HeldBy(validated, r)) - Held(validated, d, r)
          + Held(validated', d, r)
  BY HeldAfter
<1>2. Reserved(r)' = HeldBy(validated', r)
  BY DEF Reserved, HeldBy
<1> QED
  BY <1>1, <1>2 DEF Reserved

LEMMA HoldersAfter ==
    ASSUME NEW d \in Dev, NEW r, \A x \in Dev \ {d} : assigned'[x] = assigned[x]
    PROVE  Cardinality(Holders(r)') =
             Cardinality(Holders(r)) - Held(assigned, d, r)
               + Held(assigned', d, r)
<1>1. Cardinality(HeldBy(assigned', r)) =
        Cardinality(HeldBy(assigned, r)) - Held(assigned, d, r)
          + Held(assigned', d, r)
  BY HeldAfter
<1>2. Holders(r)' = HeldBy(assigned', r)
  BY DEF Holders, HeldBy
<1> QED
  BY <1>1, <1>2 DEF Holders

\* What CountsCover says of one role.
RoleCovered(r) ==
    /\ r \in ScoredRole => HoldCount(r) = counts[r]
    /\ HoldCount(r) <= counts[r]
    /\ Capacity[r] # Unlimited => counts[r] <= Capacity[r]

LEMMA CoverByRole == CountsCover <=> \A r \in Role : RoleCovered(r)
BY RoleFacts DEF CountsCover, RoleCovered

LEMMA CoverHolds == (\A r \in Role : RoleCovered(r)') => CountsCover'
BY RoleFacts DEF CountsCover, RoleCovered

LEMMA CountTypes ==
    ASSUME TypeOK, NEW r \in Role
    PROVE  /\ counts[r] \in Int
           /\ Capacity[r] \in Nat \cup {Unlimited}
           /\ Unlimited \notin Int
           /\ Cardinality(Reserved(r)) \in Nat
           /\ Cardinality(Holders(r)) \in Nat
           /\ \A m, d : Held(m, d, r) \in {0, 1}
           /\ r # None
BY RoleFacts, HoldCountTypes, RoleTableAssumption
   DEF TypeOK, Held, RoleTableAssumption

\* A step that changes what d holds, and each counter by as much, covers on:
\* the counters only grow where a place is left.
LEMMA MoveCovers ==
    ASSUME TypeOK, CountsCover, NEW d \in Dev,
           \A x \in Dev \ {d} : validated'[x] = validated[x],
           \A x \in Dev \ {d} : assigned'[x] = assigned[x],
           NEW r \in Role,
           counts'[r] = counts[r] - Held(validated, d, r) - Held(assigned, d, r)
                          + Held(validated', d, r) + Held(assigned', d, r),
           \/ counts'[r] <= counts[r]
           \/ HasPlace(r, counts[r]) /\ counts'[r] <= counts[r] + 1
    PROVE  RoleCovered(r)'
<1>1. Cardinality(Reserved(r)') =
        Cardinality(Reserved(r)) - Held(validated, d, r) + Held(validated', d, r)
  BY ReservedAfter
<1>2. Cardinality(Holders(r)') =
        Cardinality(Holders(r)) - Held(assigned, d, r) + Held(assigned', d, r)
  BY HoldersAfter
<1>3. RoleCovered(r)
  BY CoverByRole
<1>4. /\ Held(validated, d, r) \in {0, 1} /\ Held(assigned, d, r) \in {0, 1}
      /\ Held(validated', d, r) \in {0, 1} /\ Held(assigned', d, r) \in {0, 1}
  BY DEF Held
<1> QED
  BY <1>1, <1>2, <1>3, <1>4, CountTypes DEF RoleCovered, HoldCount, HasPlace

\* release takes d out of both counts, and Uncount takes as much off the counter.
LEMMA ReleaseCovers ==
    ASSUME TypeOK, CountsCover, NEW d \in Dev, Release(d)
    PROVE  CountsCover'
<1>1. /\ \A x \in Dev \ {d} : validated'[x] = validated[x]
      /\ \A x \in Dev \ {d} : assigned'[x] = assigned[x]
      /\ validated'[d] = None /\ assigned'[d] = None
  BY DEF Release, TypeOK
<1>2. ASSUME NEW r \in Role PROVE RoleCovered(r)'
  <2>1. counts'[r] = counts[r] - Held(validated, d, r) - Held(assigned, d, r)
    BY DEF Release, Uncount
  <2>2. Held(validated', d, r) = 0 /\ Held(assigned', d, r) = 0
    BY <1>1, CountTypes DEF Held
  <2>3. counts[r] \in Int /\ Held(validated, d, r) \in {0, 1} /\ Held(assigned, d, r) \in {0, 1}
    BY CountTypes
  <2> QED
    BY <1>1, <2>1, <2>2, <2>3, MoveCovers
<1> QED
  BY <1>2, CoverHolds

\* assign does as release, then counts d once for its new role, which has a place
\* unless d held it already.
LEMMA AssignCovers ==
    ASSUME TypeOK, CountsCover, NEW d \in Dev, NEW q \in Role, Assign(d, q),
           assigned[d] = q \/ HasPlace(q, counts[q])
    PROVE  CountsCover'
<1>1. CASE assigned[d] = q
  BY <1>1 DEF Assign, regVars, CountsCover, HoldCount, Reserved, Holders, HeldBy
<1>2. CASE assigned[d] # q
  <2>1. /\ \A x \in Dev \ {d} : validated'[x] = validated[x]
        /\ \A x \in Dev \ {d} : assigned'[x] = assigned[x]
        /\ validated'[d] = None /\ assigned'[d] = q
    BY <1>2 DEF Assign, TypeOK
  <2>2. ASSUME NEW r \in Role PROVE RoleCovered(r)'
    <3>1. counts' = [Uncount(d) EXCEPT ![q] = @ + 1]
      BY <1>2 DEF Assign
    <3>2. counts'[r] = counts[r] - Held(validated, d, r) - Held(assigned, d, r)
                         + Held(assigned', d, r)
      BY <2>1, <3>1, CountTypes DEF Uncount, Held
    <3>3. Held(validated', d, r) = 0
      BY <2>1, CountTypes DEF Held
    <3>4. /\ counts[r] \in Int
          /\ Held(validated, d, r) \in {0, 1}
          /\ Held(assigned, d, r) \in {0, 1}
          /\ Held(assigned', d, r) = IF q = r THEN 1 ELSE 0
      BY <2>1, CountTypes DEF Held
    <3>5. q = r => HasPlace(r, counts[r])
      BY <1>2
    <3> QED
      BY <2>1, <3>2, <3>3, <3>4, <3>5, MoveCovers
  <2> QED
    BY <2>2, CoverHolds
<1> QED
  BY <1>1, <1>2

\* validate counts a reservation it grants, and uncounts what it takes away.
LEMMA ValidateCovers ==
    ASSUME TypeOK, CountsCover, NEW d \in Dev, NEW n \in Node, Validate(d, n)
    PROVE  CountsCover'
<1>1. ASSUME NEW q \in ScoredRole,
             validated[d] = None,
             HasPlace(q, counts[q]),
             validated' = [validated EXCEPT ![d] = q],
             counts' = [counts EXCEPT ![q] = @ + 1],
             UNCHANGED assigned
      PROVE  CountsCover'
  <2>1. /\ \A x \in Dev \ {d} : validated'[x] = validated[x]
        /\ \A x \in Dev \ {d} : assigned'[x] = assigned[x]
        /\ validated'[d] = q /\ assigned'[d] = assigned[d]
    BY <1>1 DEF TypeOK
  <2>2. ASSUME NEW r \in Role PROVE RoleCovered(r)'
    <3>1. counts'[r] = counts[r] + (IF q = r THEN 1 ELSE 0)
      BY <1>1, CountTypes DEF TypeOK
    <3>2. /\ Held(validated, d, r) = 0
          /\ Held(validated', d, r) = IF q = r THEN 1 ELSE 0
          /\ Held(assigned', d, r) = Held(assigned, d, r)
          /\ Held(assigned, d, r) \in {0, 1}
          /\ counts[r] \in Int
      BY <1>1, <2>1, CountTypes DEF Held
    <3>3. q = r => HasPlace(r, counts[r])
      BY <1>1
    <3> QED
      BY <2>1, <3>1, <3>2, <3>3, MoveCovers
  <2> QED
    BY <2>2, CoverHolds
<1>2. ASSUME assigned' = [assigned EXCEPT ![d] = None],
             counts' = [p \in Role |-> counts[p] - Held(assigned, d, p)],
             UNCHANGED validated
      PROVE  CountsCover'
  <2>1. /\ \A x \in Dev \ {d} : validated'[x] = validated[x]
        /\ \A x \in Dev \ {d} : assigned'[x] = assigned[x]
        /\ validated'[d] = validated[d] /\ assigned'[d] = None
    BY <1>2 DEF TypeOK
  <2>2. ASSUME NEW r \in Role PROVE RoleCovered(r)'
    <3>1. counts'[r] = counts[r] - Held(assigned, d, r)
      BY <1>2
    <3>2. /\ Held(validated', d, r) = Held(validated, d, r)
          /\ Held(assigned', d, r) = 0
          /\ Held(assigned, d, r) \in {0, 1}
          /\ Held(validated, d, r) \in {0, 1}
          /\ counts[r] \in Int
      BY <2>1, CountTypes DEF Held
    <3> QED
      BY <2>1, <3>1, <3>2, MoveCovers
  <2> QED
    BY <2>2, CoverHolds
<1> QED
  BY <1>1, <1>2, ValidateCases

\* run moves reservations among the assignments: no role gains a holder, and a
\* scored role, which nobody holds in SETUP, loses none.
LEMMA RunCovers ==
    ASSUME TypeOK, HoldsFollowState, CountsCover,
           NEW admin, NEW keyed, Run(admin, keyed)
    PROVE  CountsCover'
<1>1. ASSUME NEW r \in Role PROVE RoleCovered(r)'
  <2>1. /\ Reserved(r)' = {}
        /\ Holders(r)' \subseteq Reserved(r) \cup Holders(r)
    BY CountTypes DEF Run, Reserved, Holders, HeldBy
  <2>2. IsFiniteSet(Reserved(r)) /\ IsFiniteSet(Holders(r))
    BY GameServerAssumption, FS_Subset
       DEF GameServerAssumption, Reserved, Holders, HeldBy
  <2>3. /\ IsFiniteSet(Reserved(r) \cup Holders(r))
        /\ Cardinality(Reserved(r) \cup Holders(r)) <=
             Cardinality(Reserved(r)) + Cardinality(Holders(r))
    <3> DEFINE common == Reserved(r) \cap Holders(r)
    <3>1. /\ IsFiniteSet(Reserved(r) \cup Holders(r))
          /\ Cardinality(Reserved(r) \cup Holders(r)) =
               Cardinality(Reserved(r)) + Cardinality(Holders(r))
                 - Cardinality(common)
      BY <2>2, FS_Union
    <3>2. common \in SUBSET Holders(r)
      OBVIOUS
    <3>3. Cardinality(common) \in Nat
      BY <2>2, <3>2, FS_Subset, FS_CardinalityType
    <3> HIDE DEF common
    <3> QED
      BY <3>1, <3>3, CountTypes
  <2>4. Cardinality(Holders(r)') <= Cardinality(Reserved(r) \cup Holders(r))
    BY <2>1, <2>3, FS_Subset
  <2>5. Cardinality(Holders(r)') \in Nat /\ Cardinality(Reserved(r) \cup Holders(r)) \in Nat
    BY <2>1, <2>3, FS_Subset, FS_CardinalityType
  <2>6. Cardinality(Reserved(r)') = 0
    BY <2>1, FS_EmptySet
  <2>7. counts' = counts /\ RoleCovered(r)
    BY CoverByRole DEF Run
  <2>8. r \in ScoredRole => HoldCount(r)' = counts'[r]
    <3> SUFFICES ASSUME r \in ScoredRole PROVE HoldCount(r)' = counts'[r]
      OBVIOUS
    <3>1. \A d \in Dev : assigned[d] # r
      BY RoleFacts DEF Run, HoldsFollowState
    <3>2. Holders(r) = {} /\ Holders(r)' = Reserved(r)
      BY <3>1, CountTypes DEF Run, Reserved, Holders, HeldBy
    <3>3. Cardinality(Holders(r)) = 0
      BY <3>2, FS_EmptySet
    <3> QED
      BY <2>6, <2>7, <3>2, <3>3, CountTypes DEF RoleCovered, HoldCount
  <2>9. HoldCount(r)' <= counts'[r]
    BY <2>3, <2>4, <2>5, <2>6, <2>7, CountTypes DEF RoleCovered, HoldCount
  <2> QED
    BY <2>7, <2>8, <2>9 DEF RoleCovered
<1> QED
  BY <1>1, CoverHolds

\* A fresh registration counts nobody.
LEMMA FreshCovers ==
    ASSUME validated' = [d \in Dev |-> None], assigned' = [d \in Dev |-> None],
           counts' = [r \in Role |-> 0]
    PROVE  CountsCover'
<1>1. ASSUME NEW r \in Role PROVE RoleCovered(r)'
  <2>1. Reserved(r)' = {} /\ Holders(r)' = {}
    BY RoleFacts DEF Reserved, Holders, HeldBy
  <2>2. Cardinality(Reserved(r)') = 0 /\ Cardinality(Holders(r)') = 0
    BY <2>1, FS_EmptySet
  <2>3. counts'[r] = 0
    OBVIOUS
  <2>4. Capacity[r] # Unlimited => Capacity[r] \in Nat
    BY RoleFacts
  <2> QED
    BY <2>2, <2>3, <2>4 DEF RoleCovered, HoldCount
<1> QED
  BY <1>1, CoverHolds

LEMMA SameCovers == CountsCover /\ UNCHANGED regVars => CountsCover'
BY DEF CountsCover, regVars, HoldCount, Reserved, Holders, HeldBy

LEMMA InitCovers == Init => CountsCover
<1> SUFFICES ASSUME Init PROVE CountsCover
  OBVIOUS
<1>1. ASSUME NEW r \in Role PROVE RoleCovered(r)
  <2>1. Reserved(r) = {} /\ Holders(r) = {}
    BY RoleFacts DEF Init, Reserved, Holders, HeldBy
  <2>2. Cardinality(Reserved(r)) = 0 /\ Cardinality(Holders(r)) = 0
    BY <2>1, FS_EmptySet
  <2>3. counts[r] = 0
    BY DEF Init
  <2>4. Capacity[r] # Unlimited => Capacity[r] \in Nat
    BY RoleFacts
  <2> QED
    BY <2>2, <2>3, <2>4 DEF RoleCovered, HoldCount
<1> QED
  BY <1>1, CoverByRole

\* One step per action that touches the registration; the others are SameCovers.
LEMMA NextCovers ==
    TypeOK /\ HoldsFollowState /\ CountsCover /\ [Next]_vars => CountsCover'
<1> SUFFICES ASSUME TypeOK, HoldsFollowState, CountsCover, [Next]_vars
             PROVE  CountsCover'
  OBVIOUS
<1>1. CASE UNCHANGED regVars
  BY <1>1, SameCovers
<1>2. ASSUME NEW d \in Dev, NEW i \in Instrument, Hello(d, i) PROVE CountsCover'
  <2>1. CASE state = "RUNNING" /\ JamCandidate(d)
    <3>1. PICK r \in JamChoices(i) : Assign(d, r)
      BY <1>2, <2>1 DEF Hello
    <3> QED
      BY <3>1, JamChoicesFit, RoleFacts, AssignCovers
  <2>2. CASE ~(state = "RUNNING" /\ JamCandidate(d))
    BY <1>2, <2>2, SameCovers DEF Hello
  <2> QED
    BY <2>1, <2>2
<1>3. ASSUME NEW d \in Dev, Reap(d) PROVE CountsCover'
  BY <1>3, ReleaseCovers, SameCovers DEF Reap, ReapHold
<1>4. ASSUME NEW d \in Dev, HandshakeRoom(d) PROVE CountsCover'
  BY <1>4, RoleFacts, AssignCovers DEF HandshakeRoom
<1>5. ASSUME NEW d \in Dev, NEW rid, NEW n \in Node, HandshakePlayer(d, rid, n)
      PROVE  CountsCover'
  BY <1>5, ValidateCovers DEF HandshakePlayer
<1>6. ASSUME NEW admin, NEW keyed, Run(admin, keyed) PROVE CountsCover'
  BY <1>6, RunCovers
<1>7. ASSUME NEW d \in Dev, JamOne(d) PROVE CountsCover'
  <2>1. CASE assigned[d] # None
    BY <1>7, <2>1, SameCovers DEF JamOne
  <2>2. CASE assigned[d] = None
    <3>1. PICK r \in JamChoices(carried[d]) : Assign(d, r)
      BY <1>7, <2>2 DEF JamOne
    <3>2. carried[d] \in Instrument
      BY DEF TypeOK
    <3> QED
      BY <3>1, <3>2, JamChoicesFit, RoleFacts, AssignCovers
  <2> QED
    BY <2>1, <2>2
<1>8. ASSUME NEW d \in Dev, UnloadRelease(d) PROVE CountsCover'
  BY <1>8, ReleaseCovers DEF UnloadRelease
<1>9. CASE LoadBitSucceeds
  BY <1>9, FreshCovers DEF LoadBitSucceeds
<1>10. CASE UnloadDone
  BY <1>10, FreshCovers DEF UnloadDone
<1>11. ASSUME NEW d \in Dev, Touch(d) \/ GoSilent(d) \/ GrantOne(d) \/ UnloadTell(d)
       PROVE  UNCHANGED regVars
  BY <1>11 DEF Touch, GoSilent, GrantOne, UnloadTell
<1>12. ASSUME \/ LoadRoom \/ UnloadRoom \/ Disarm \/ LoadBit \/ Complete \/ Abort
              \/ LoadBitFails \/ EnterSetup \/ RunDone \/ CompleteUnloads
       PROVE  UNCHANGED regVars
  BY <1>12 DEF LoadRoom, UnloadRoom, Disarm, LoadBit, Complete, Abort,
               LoadBitFails, EnterSetup, RunDone, CompleteUnloads
<1>13. ASSUME NEW f \in Fixture, Arm(f) PROVE UNCHANGED regVars
  BY <1>13 DEF Arm
<1>14. ASSUME NEW s \in MuteTargets, Stop(s) \/ Fire(s) PROVE UNCHANGED regVars
  BY <1>14 DEF Stop, Fire
<1>15. CASE UNCHANGED vars
  BY <1>1, <1>15 DEF vars
<1>16. CASE LoopStep
  BY <1>16, <1>1, <1>7, <1>8, <1>9, <1>10, <1>11, <1>12 DEF LoopStep
<1>17. CASE Handler
  BY <1>17, <1>1, <1>2, <1>3, <1>4, <1>5, <1>6, <1>11, <1>12, <1>13, <1>14 DEF Handler
<1> QED
  BY <1>15, <1>16, <1>17 DEF Next

LEMMA CoverIsCapacity == TypeOK /\ CountsCover => HoldersWithinCapacity
<1> SUFFICES ASSUME TypeOK, CountsCover, NEW r \in Role, Capacity[r] # Unlimited
             PROVE  HoldCount(r) <= Capacity[r]
  BY DEF HoldersWithinCapacity
<1> QED
  BY CoverByRole, CountTypes DEF RoleCovered, HoldCount

\* The counters cover the holders, exactly so on the scored roles, and never
\* pass a capacity.
THEOREM CountersCoverHolders == Spec => []CountsCover
<1>1. TypeOK /\ HoldsFollowState /\ CountsCover /\ [Next]_vars => CountsCover'
  BY NextCovers
<1> QED
  BY <1>1, InitCovers, TypeCorrect, LifecycleDecidesHolds, PTL DEF Spec

\* No role is held by more devices than it has places, whatever is re-armed,
\* reaped or released, and in whatever order.
THEOREM CapacityNeverExceeded == Spec => []HoldersWithinCapacity
BY TypeCorrect, CountersCoverHolders, CoverIsCapacity, PTL

-----------------------------------------------------------------------------
(* What the transport is told, and when.                                   *)

LEMMA InitTells == Init => TellingFollowsLoop
BY RoleFacts DEF Init, TellingFollowsLoop, Agrees

LEMMA LoopTells ==
    TypeOK /\ HoldsFollowState /\ TellingFollowsLoop /\ LoopStep
      => TellingFollowsLoop'
<1> SUFFICES ASSUME TypeOK, HoldsFollowState, TellingFollowsLoop, LoopStep
             PROVE  TellingFollowsLoop'
  OBVIOUS
<1> USE DEF TellingFollowsLoop, Agrees
<1>1. CASE LoadBitFails
  BY <1>1 DEF LoadBitFails, regVars
<1>2. CASE LoadBitSucceeds
  BY <1>2, RoleFacts DEF LoadBitSucceeds, loopVars, HoldsFollowState
<1>3. CASE EnterSetup
  BY <1>3 DEF EnterSetup, regVars
<1>4. ASSUME NEW d \in Dev, JamOne(d) PROVE TellingFollowsLoop'
  <2>1. CASE assigned[d] # None
    BY <1>4, <2>1 DEF JamOne, regVars
  <2>2. CASE assigned[d] = None
    <3>1. PICK r \in JamChoices(carried[d]) : Assign(d, r) /\ owed' = owed \cup {d}
      BY <1>4, <2>2 DEF JamOne
    <3>2. r \in PlayerRole /\ r \in Role
      BY JamChoicesFit, RoleFacts DEF TypeOK
    <3>3. assigned'[d] = r /\ \A x \in Dev \ {d} : assigned'[x] = assigned[x]
      BY <3>1, <3>2, AssignEffect
    <3>4. told[d] = None
      BY <1>4, <2>2, RoleFacts DEF JamOne
    <3> QED
      BY <1>4, <3>1, <3>2, <3>3, <3>4 DEF JamOne
  <2> QED
    BY <2>1, <2>2
<1>5. ASSUME NEW d \in Dev, GrantOne(d) PROVE TellingFollowsLoop'
  BY <1>5 DEF GrantOne, regVars, TypeOK
<1>6. CASE RunDone
  BY <1>6 DEF RunDone, regVars
<1>7. CASE CompleteUnloads
  BY <1>7, RoleFacts DEF CompleteUnloads, StartUnload, regVars
<1>8. ASSUME NEW d \in Dev, UnloadRelease(d) PROVE TellingFollowsLoop'
  BY <1>8 DEF UnloadRelease
<1>9. ASSUME NEW d \in Dev, UnloadTell(d) PROVE TellingFollowsLoop'
  BY <1>9 DEF UnloadTell, regVars, TypeOK
<1>10. CASE UnloadDone
  BY <1>10, RoleFacts DEF UnloadDone
<1> QED
  BY <1>1, <1>2, <1>3, <1>4, <1>5, <1>6, <1>7, <1>8, <1>9, <1>10 DEF LoopStep

LEMMA HandlerTells ==
    TypeOK /\ HoldsFollowState /\ TellingFollowsLoop /\ Handler
      => TellingFollowsLoop'
<1> SUFFICES ASSUME TypeOK, HoldsFollowState, TellingFollowsLoop, Handler
             PROVE  TellingFollowsLoop'
  OBVIOUS
<1> USE DEF TellingFollowsLoop, Agrees, Quiet
<1>1. ASSUME NEW d \in Dev, NEW i \in Instrument, Hello(d, i)
      PROVE  TellingFollowsLoop'
  <2>1. loop' = loop /\ loop = "none"
    BY <1>1 DEF Hello, loopVars
  <2>2. CASE state = "RUNNING" /\ JamCandidate(d)
    <3>1. PICK r \in JamChoices(i) : Assign(d, r) /\ told' = [told EXCEPT ![d] = r]
      BY <1>1, <2>2 DEF Hello
    <3>2. r \in PlayerRole /\ r \in Role
      BY JamChoicesFit, RoleFacts
    <3>3. assigned'[d] = r /\ \A x \in Dev \ {d} : assigned'[x] = assigned[x]
      BY <3>1, <3>2, AssignEffect
    <3> QED
      BY <2>1, <3>1, <3>2, <3>3 DEF TypeOK
  <2>3. CASE ~(state = "RUNNING" /\ JamCandidate(d))
    BY <1>1, <2>1, <2>3 DEF Hello, regVars
  <2> QED
    BY <2>2, <2>3
<1>2. ASSUME NEW d \in Dev, Touch(d) \/ GoSilent(d) PROVE TellingFollowsLoop'
  BY <1>2 DEF Touch, GoSilent, regVars, loopVars
<1>3. ASSUME NEW d \in Dev, Reap(d) PROVE TellingFollowsLoop'
  <2>1. loop' = loop /\ loop = "none"
    BY <1>3 DEF Reap, loopVars
  <2>2. CASE Registered /\ assigned[d] # None
    <3>1. Release(d) /\ told' = [told EXCEPT ![d] = None]
      BY <1>3, <2>2 DEF Reap, ReapHold
    <3> QED
      BY <2>1, <3>1, ReleaseEffect, RoleFacts DEF TypeOK
  <2>3. CASE ~(Registered /\ assigned[d] # None)
    <3>1. told' = told
      BY <1>3, <2>3 DEF Reap
    <3>2. \A x \in Dev : assigned'[x] = assigned[x]
      BY <1>3, <2>3, ReleaseEffect DEF Reap, ReapHold, regVars
    <3> QED
      BY <2>1, <3>1, <3>2
  <2> QED
    BY <2>2, <2>3
<1>4. ASSUME NEW d \in Dev, HandshakeRoom(d) PROVE TellingFollowsLoop'
  <2>1. /\ loop' = loop /\ loop = "none"
        /\ told' = [told EXCEPT ![d] = None]
    BY <1>4 DEF HandshakeRoom, loopVars
  <2>2. /\ assigned'[d] = RoomRole
        /\ \A x \in Dev \ {d} : assigned'[x] = assigned[x]
    BY <1>4, RoleFacts, AssignEffect DEF HandshakeRoom
  <2> QED
    BY <2>1, <2>2, RoleFacts DEF TypeOK
<1>5. ASSUME NEW d \in Dev, NEW rid, NEW n \in Node, HandshakePlayer(d, rid, n)
      PROVE  TellingFollowsLoop'
  <2>1. /\ loop' = loop /\ loop = "none" /\ state = "SETUP" /\ told' = told
    BY <1>5 DEF HandshakePlayer, loopVars
  <2>2. \A x \in Dev : assigned'[x] \in {None, assigned[x]}
    BY <1>5, ValidateCases DEF HandshakePlayer, TypeOK
  <2>3. \A x \in Dev : assigned[x] \in {None, RoomRole}
    BY <2>1 DEF HoldsFollowState
  <2> QED
    BY <2>1, <2>2, <2>3, RoleFacts
<1>6. CASE LoadRoom \/ UnloadRoom \/ Disarm
  BY <1>6 DEF LoadRoom, UnloadRoom, Disarm, regVars, loopVars
<1>7. ASSUME NEW f \in Fixture, Arm(f) PROVE TellingFollowsLoop'
  BY <1>7 DEF Arm, regVars, loopVars
<1>8. CASE LoadBit \/ Complete
  BY <1>8 DEF LoadBit, Complete, regVars
<1>9. CASE Abort
  BY <1>9, RoleFacts DEF Abort, StartUnload, regVars
<1>10. ASSUME NEW admin, NEW keyed, Run(admin, keyed) PROVE TellingFollowsLoop'
  <2>1. /\ state = "SETUP" /\ loop = "none" /\ loop' = "jam" /\ told' = told
        /\ owed' = ReservedDevs
        /\ assigned' = [d \in Dev |-> IF validated[d] # None THEN validated[d]
                                      ELSE assigned[d]]
    BY <1>10 DEF Run
  <2>2. ASSUME NEW x \in Dev PROVE assigned[x] \in {None, RoomRole} /\ told[x] = None
    BY <2>1, RoleFacts DEF HoldsFollowState
  <2>3. ASSUME NEW x \in Dev, validated[x] # None PROVE validated[x] \in PlayerRole
    BY <2>3, RoleFacts DEF TypeOK
  <2> QED
    BY <2>1, <2>2, <2>3, RoleFacts DEF ReservedDevs
<1>11. ASSUME NEW s \in MuteTargets, Stop(s) \/ Fire(s) PROVE TellingFollowsLoop'
  BY <1>11 DEF Stop, Fire, regVars, loopVars
<1> QED
  BY <1>1, <1>2, <1>3, <1>4, <1>5, <1>6, <1>7, <1>8, <1>9, <1>10, <1>11 DEF Handler

LEMMA NextTells ==
    TypeOK /\ HoldsFollowState /\ TellingFollowsLoop /\ [Next]_vars
      => TellingFollowsLoop'
<1>1. TellingFollowsLoop /\ UNCHANGED vars => TellingFollowsLoop'
  BY DEF TellingFollowsLoop, Agrees, vars, regVars, loopVars
<1> QED
  BY <1>1, LoopTells, HandlerTells DEF Next

\* What on_grant and on_release have told the transport follows the loops.
THEOREM TellingIsComplete == Spec => []TellingFollowsLoop
BY TypeCorrect, LifecycleDecidesHolds, InitTells, NextTells, PTL DEF Spec

\* Between handlers the transport believes in exactly the assigned player roles,
\* after any walk-up, bind, reap, materialization or unload.
THEOREM TransportAgrees == Spec => []ToldAgrees
<1>1. TellingFollowsLoop => ToldAgrees
  BY DEF TellingFollowsLoop, ToldAgrees, Quiet
<1> QED
  BY <1>1, TellingIsComplete, PTL

\* on_grant only ever finds a device the transport holds no role for.
LEMMA NoSwapStep ==
    ASSUME TypeOK, TellingFollowsLoop, [Next]_vars, NEW d \in Dev, told[d] # None
    PROVE  told'[d] \in {told[d], None}
<1>1. CASE told' = told
  BY <1>1
<1>2. ASSUME NEW e \in Dev, NEW i \in Instrument, Hello(e, i)
      PROVE  told'[d] \in {told[d], None}
  <2>1. CASE state = "RUNNING" /\ JamCandidate(e)
    <3>1. PICK r : told' = [told EXCEPT ![e] = r]
      BY <1>2, <2>1 DEF Hello
    <3>2. told[e] = None
      BY <1>2, <2>1, RoleFacts
         DEF Hello, Quiet, JamCandidate, TellingFollowsLoop, Agrees
    <3> QED
      BY <3>1, <3>2 DEF TypeOK
  <2>2. CASE ~(state = "RUNNING" /\ JamCandidate(e))
    BY <1>2, <2>2 DEF Hello
  <2> QED
    BY <2>1, <2>2
<1>3. ASSUME NEW e \in Dev, Reap(e) \/ HandshakeRoom(e) \/ UnloadTell(e)
      PROVE  told'[d] \in {told[d], None}
  BY <1>3 DEF Reap, HandshakeRoom, UnloadTell, TypeOK
<1>4. ASSUME NEW e \in Dev, GrantOne(e) PROVE told'[d] \in {told[d], None}
  BY <1>4 DEF GrantOne, TellingFollowsLoop, TypeOK
<1>5. ASSUME NEW e \in Dev, Touch(e) \/ GoSilent(e) \/ JamOne(e) \/ UnloadRelease(e)
      PROVE  told' = told
  BY <1>5 DEF Touch, GoSilent, JamOne, UnloadRelease
<1>6. ASSUME NEW e \in Dev, NEW rid, NEW n, HandshakePlayer(e, rid, n)
      PROVE  told' = told
  BY <1>6 DEF HandshakePlayer
<1>7. ASSUME \/ LoadRoom \/ UnloadRoom \/ Disarm \/ LoadBit \/ Complete \/ Abort
             \/ LoadBitFails \/ LoadBitSucceeds \/ EnterSetup \/ RunDone
             \/ CompleteUnloads \/ UnloadDone
      PROVE  told' = told
  BY <1>7 DEF LoadRoom, UnloadRoom, Disarm, LoadBit, Complete, Abort, LoadBitFails,
              LoadBitSucceeds, EnterSetup, RunDone, CompleteUnloads, UnloadDone
<1>8. ASSUME NEW admin, NEW keyed, Run(admin, keyed) PROVE told' = told
  BY <1>8 DEF Run
<1>9. ASSUME NEW f, Arm(f) PROVE told' = told
  BY <1>9 DEF Arm
<1>10. ASSUME NEW s, Stop(s) \/ Fire(s) PROVE told' = told
  BY <1>10 DEF Stop, Fire
<1>11. CASE UNCHANGED vars
  BY <1>1, <1>11 DEF vars
<1>12. CASE LoopStep
  BY <1>12, <1>1, <1>3, <1>4, <1>5, <1>7 DEF LoopStep
<1>13. CASE Handler
  BY <1>13, <1>1, <1>2, <1>3, <1>5, <1>6, <1>7, <1>8, <1>9, <1>10 DEF Handler
<1> QED
  BY <1>11, <1>12, <1>13 DEF Next

\* The transport is never given a second role over a first.
THEOREM NoRoleIsSwapped == Spec => RoleNeverSwapped
<1>1. TypeOK /\ TellingFollowsLoop /\ [Next]_vars
        => [\A d \in Dev : told[d] # None => told'[d] \in {told[d], None}]_vars
  BY NoSwapStep
<1> QED
  BY <1>1, TypeCorrect, TellingIsComplete, PTL DEF Spec, RoleNeverSwapped

-----------------------------------------------------------------------------
(* The order of grants and releases, as a specification of its own.        *)

\* The transport is only ever told of player roles.
ToldRoles == told \in [Dev -> PlayerRole \cup {None}]

LEMMA ToldRolesStep ==
    ASSUME TypeOK, TellingFollowsLoop, ToldRoles, [Next]_vars
    PROVE  ToldRoles'
<1> USE DEF ToldRoles
<1>1. CASE told' = told
  BY <1>1
<1>2. ASSUME NEW e \in Dev, NEW i \in Instrument, Hello(e, i) PROVE ToldRoles'
  <2>1. CASE state = "RUNNING" /\ JamCandidate(e)
    <3>1. PICK r \in JamChoices(i) : Assign(e, r) /\ told' = [told EXCEPT ![e] = r]
      BY <1>2, <2>1 DEF Hello
    <3>2. r \in PlayerRole
      BY <3>1, JamChoicesFit
    <3> QED
      BY <3>1, <3>2
  <2>2. CASE ~(state = "RUNNING" /\ JamCandidate(e))
    BY <1>2, <2>2 DEF Hello
  <2> QED
    BY <2>1, <2>2
<1>3. ASSUME NEW e \in Dev, Reap(e) \/ HandshakeRoom(e) \/ UnloadTell(e)
      PROVE  ToldRoles'
  BY <1>3 DEF Reap, HandshakeRoom, UnloadTell
<1>4. ASSUME NEW e \in Dev, GrantOne(e) PROVE ToldRoles'
  BY <1>4 DEF GrantOne, TellingFollowsLoop
<1>5. ASSUME NEW e \in Dev, Touch(e) \/ GoSilent(e) \/ JamOne(e) \/ UnloadRelease(e)
      PROVE  told' = told
  BY <1>5 DEF Touch, GoSilent, JamOne, UnloadRelease
<1>6. ASSUME NEW e \in Dev, NEW rid, NEW n, HandshakePlayer(e, rid, n)
      PROVE  told' = told
  BY <1>6 DEF HandshakePlayer
<1>7. ASSUME \/ LoadRoom \/ UnloadRoom \/ Disarm \/ LoadBit \/ Complete \/ Abort
             \/ LoadBitFails \/ LoadBitSucceeds \/ EnterSetup \/ RunDone
             \/ CompleteUnloads \/ UnloadDone
      PROVE  told' = told
  BY <1>7 DEF LoadRoom, UnloadRoom, Disarm, LoadBit, Complete, Abort, LoadBitFails,
              LoadBitSucceeds, EnterSetup, RunDone, CompleteUnloads, UnloadDone
<1>8. ASSUME NEW admin, NEW keyed, Run(admin, keyed) PROVE told' = told
  BY <1>8 DEF Run
<1>9. ASSUME NEW f, Arm(f) PROVE told' = told
  BY <1>9 DEF Arm
<1>10. ASSUME NEW s, Stop(s) \/ Fire(s) PROVE told' = told
  BY <1>10 DEF Stop, Fire
<1>11. CASE UNCHANGED vars
  BY <1>1, <1>11 DEF vars
<1>12. CASE LoopStep
  BY <1>12, <1>1, <1>3, <1>4, <1>5, <1>7 DEF LoopStep
<1>13. CASE Handler
  BY <1>13, <1>1, <1>2, <1>3, <1>5, <1>6, <1>7, <1>8, <1>9, <1>10 DEF Handler
<1> QED
  BY <1>11, <1>12, <1>13 DEF Next

\* Nobody has a role while no round is open.
LEMMA ClosedMeansNone ==
    ASSUME TypeOK, HoldsFollowState, TellingFollowsLoop, ~RoundOpen, NEW d \in Dev
    PROVE  told[d] = None
<1>1. loop \in {"none", "load", "complete"}
  BY DEF TypeOK, HoldsFollowState, RoundOpen
<1>2. assigned[d] \in {None, RoomRole}
  BY DEF TypeOK, HoldsFollowState, RoundOpen
<1> QED
  BY <1>1, <1>2, RoleFacts DEF TellingFollowsLoop, Agrees

LEMMA TellingStep ==
    ASSUME TypeOK, HoldsFollowState, TellingFollowsLoop, ToldRoles, [Next]_vars
    PROVE  [T!Next]_<<RoundOpen, told>>
<1>1. TypeOK' /\ HoldsFollowState' /\ TellingFollowsLoop'
  BY NextTypes, NextFollows, NextTells
<1>2. ToldRoles'
  BY ToldRolesStep
<1>3. T!InTurn
  BY <1>2, NoSwapStep DEF T!InTurn, ToldRoles
<1>4. ~RoundOpen => told = [d \in Dev |-> None]
  BY ClosedMeansNone DEF ToldRoles
<1>5. ~RoundOpen' => \A d \in Dev : told'[d] = None
  <2>1. SUFFICES ASSUME ~RoundOpen', NEW d \in Dev PROVE told'[d] = None
    OBVIOUS
  <2>2. loop' \in {"none", "load", "complete"}
    BY <1>1, <2>1 DEF TypeOK, HoldsFollowState, RoundOpen
  <2>3. assigned'[d] \in {None, RoomRole}
    BY <1>1, <2>1 DEF TypeOK, HoldsFollowState, RoundOpen
  <2> QED
    BY <1>1, <2>2, <2>3, RoleFacts DEF TellingFollowsLoop, Agrees
<1>6. ~RoundOpen' => told' = [d \in Dev |-> None]
  BY <1>2, <1>5 DEF ToldRoles
<1>7. RoundOpen \in BOOLEAN /\ RoundOpen' \in BOOLEAN
  BY DEF RoundOpen
<1>8. CASE RoundOpen /\ RoundOpen'
  BY <1>3, <1>7, <1>8 DEF T!Next, T!Turn
<1>9. CASE ~RoundOpen /\ RoundOpen'
  BY <1>3, <1>7, <1>9 DEF T!Next, T!Start
<1>10. CASE RoundOpen /\ ~RoundOpen'
  BY <1>6, <1>7, <1>10 DEF T!Next, T!Close
<1>11. CASE ~RoundOpen /\ ~RoundOpen'
  BY <1>4, <1>6, <1>7, <1>11
<1> QED
  BY <1>8, <1>9, <1>10, <1>11

\* GameServer implements Telling: roles are handed out only in an open round,
\* never over another, and every round closes with nobody left in one.
THEOREM TellsInOrder == Spec => TellsInTurn
<1>1. Init => T!Init /\ ToldRoles
  BY DEF Init, T!Init, RoundOpen, ToldRoles
<1>2. TypeOK /\ TellingFollowsLoop /\ ToldRoles /\ [Next]_vars => ToldRoles'
  BY ToldRolesStep
<1>3. TypeOK /\ HoldsFollowState /\ TellingFollowsLoop /\ ToldRoles /\ [Next]_vars
        => [T!Next]_T!vars
  BY TellingStep DEF T!vars
<1> QED
  BY <1>1, <1>2, <1>3, TypeCorrect, LifecycleDecidesHolds, TellingIsComplete, PTL
     DEF Spec, TellsInTurn, T!Spec

-----------------------------------------------------------------------------
(* Seats.                                                                  *)

SeatStep(d) ==
    Seat(d) # None /\ Seat(d)' # Seat(d)
      => \/ d \notin pool'
         \/ assigned'[d] = RoomRole
         \/ loop = "unload"

\* A step that leaves what e holds alone leaves its seat alone.
LEMMA SameSeat ==
    ASSUME NEW e, validated'[e] = validated[e], assigned'[e] = assigned[e]
    PROVE  Seat(e)' = Seat(e)
BY DEF Seat

LEMMA SeatStepHolds ==
    ASSUME TypeOK, HoldsFollowState, [Next]_vars, NEW e \in Dev
    PROVE  SeatStep(e)
<1>1. CASE UNCHANGED regVars
  BY <1>1, SameSeat DEF SeatStep, regVars
<1>2. ASSUME NEW d \in Dev, NEW i \in Instrument, Hello(d, i) PROVE SeatStep(e)
  <2>1. CASE state = "RUNNING" /\ JamCandidate(d)
    <3>1. PICK r \in JamChoices(i) : Assign(d, r)
      BY <1>2, <2>1 DEF Hello
    <3>2. r \in Role
      BY JamChoicesFit, RoleFacts
    <3>3. e # d => validated'[e] = validated[e] /\ assigned'[e] = assigned[e]
      BY <3>1, <3>2, AssignEffect
    <3>4. Seat(d) = None
      BY <2>1, RoleFacts DEF Seat, JamCandidate, HoldsFollowState
    <3> QED
      BY <3>3, <3>4, SameSeat DEF SeatStep
  <2>2. CASE ~(state = "RUNNING" /\ JamCandidate(d))
    BY <1>2, <2>2, <1>1 DEF Hello
  <2> QED
    BY <2>1, <2>2
<1>3. ASSUME NEW d \in Dev, Reap(d) PROVE SeatStep(e)
  <2>1. d \notin pool'
    BY <1>3 DEF Reap, Forget
  <2>2. e # d => validated'[e] = validated[e] /\ assigned'[e] = assigned[e]
    BY <1>3, ReleaseEffect DEF Reap, ReapHold, regVars
  <2> QED
    BY <2>1, <2>2, SameSeat DEF SeatStep
<1>4. ASSUME NEW d \in Dev, HandshakeRoom(d) PROVE SeatStep(e)
  <2>1. /\ assigned'[d] = RoomRole
        /\ e # d => validated'[e] = validated[e] /\ assigned'[e] = assigned[e]
    BY <1>4, RoleFacts, AssignEffect DEF HandshakeRoom
  <2> QED
    BY <2>1, SameSeat DEF SeatStep
<1>5. ASSUME NEW d \in Dev, NEW rid, NEW n \in Node, HandshakePlayer(d, rid, n)
      PROVE  SeatStep(e)
  <2>1. e # d => validated'[e] = validated[e] /\ assigned'[e] = assigned[e]
    BY <1>5, ValidateCases DEF HandshakePlayer, TypeOK
  <2>2. validated[d] = None /\ assigned[d] \in {None, RoomRole}
    BY <1>5, ValidateCases DEF HandshakePlayer, HoldsFollowState
  <2>3. Seat(d) = None
    BY <2>2, RoleFacts DEF Seat
  <2> QED
    BY <2>1, <2>3, SameSeat DEF SeatStep
<1>6. ASSUME NEW admin, NEW keyed, Run(admin, keyed) PROVE SeatStep(e)
  <2>1. /\ validated'[e] = None
        /\ assigned'[e] = IF validated[e] # None THEN validated[e] ELSE assigned[e]
    BY <1>6 DEF Run
  <2>2. validated[e] \in ScoredRole \cup {None}
    BY DEF TypeOK
  <2> QED
    BY <2>1, <2>2 DEF SeatStep, Seat
<1>7. ASSUME NEW d \in Dev, JamOne(d) PROVE SeatStep(e)
  <2>1. CASE assigned[d] # None
    BY <1>7, <2>1, <1>1 DEF JamOne
  <2>2. CASE assigned[d] = None
    <3>1. PICK r \in JamChoices(carried[d]) : Assign(d, r)
      BY <1>7, <2>2 DEF JamOne
    <3>2. r \in Role
      BY JamChoicesFit, RoleFacts DEF TypeOK
    <3>3. e # d => validated'[e] = validated[e] /\ assigned'[e] = assigned[e]
      BY <3>1, <3>2, AssignEffect
    <3>4. Seat(d) = None
      BY <1>7, <2>2, RoleFacts DEF JamOne, Seat, HoldsFollowState
    <3> QED
      BY <3>3, <3>4, SameSeat DEF SeatStep
  <2> QED
    BY <2>1, <2>2
<1>8. ASSUME NEW d \in Dev, UnloadRelease(d) PROVE SeatStep(e)
  BY <1>8 DEF UnloadRelease, SeatStep
<1>9. CASE LoadBitSucceeds
  <2>1. Seat(e) = None
    BY <1>9, RoleFacts DEF LoadBitSucceeds, HoldsFollowState, Seat
  <2> QED
    BY <2>1 DEF SeatStep
<1>10. CASE UnloadDone
  BY <1>10 DEF UnloadDone, SeatStep
<1>11. ASSUME NEW d \in Dev, Touch(d) \/ GoSilent(d) \/ GrantOne(d) \/ UnloadTell(d)
       PROVE  UNCHANGED regVars
  BY <1>11 DEF Touch, GoSilent, GrantOne, UnloadTell
<1>12. ASSUME \/ LoadRoom \/ UnloadRoom \/ Disarm \/ LoadBit \/ Complete \/ Abort
              \/ LoadBitFails \/ EnterSetup \/ RunDone \/ CompleteUnloads
       PROVE  UNCHANGED regVars
  BY <1>12 DEF LoadRoom, UnloadRoom, Disarm, LoadBit, Complete, Abort,
               LoadBitFails, EnterSetup, RunDone, CompleteUnloads
<1>13. ASSUME NEW f \in Fixture, Arm(f) PROVE UNCHANGED regVars
  BY <1>13 DEF Arm
<1>14. ASSUME NEW s \in MuteTargets, Stop(s) \/ Fire(s) PROVE UNCHANGED regVars
  BY <1>14 DEF Stop, Fire
<1>15. CASE UNCHANGED vars
  BY <1>1, <1>15 DEF vars
<1>16. CASE LoopStep
  BY <1>16, <1>1, <1>7, <1>8, <1>9, <1>10, <1>11, <1>12 DEF LoopStep
<1>17. CASE Handler
  BY <1>17, <1>1, <1>2, <1>3, <1>4, <1>5, <1>6, <1>11, <1>12, <1>13, <1>14 DEF Handler
<1> QED
  BY <1>15, <1>16, <1>17 DEF Next

\* A seat is lost only to the reaper, to a Room bind of the same device or to the
\* unload, and never becomes another seat.
THEOREM SeatsAreKept == Spec => SeatKept
<1>1. TypeOK /\ HoldsFollowState /\ [Next]_vars
        => [\A d \in Dev : Seat(d) # None /\ Seat(d)' # Seat(d)
              => \/ d \notin pool'
                 \/ assigned'[d] = RoomRole
                 \/ loop = "unload"]_vars
  BY SeatStepHolds DEF SeatStep
<1> QED
  BY <1>1, TypeCorrect, LifecycleDecidesHolds, PTL DEF Spec, SeatKept
-----------------------------------------------------------------------------
(* The lobby's numbers are the players'.                                   *)

\* In SETUP the places taken are no more than the devices holding one: the
\* i-th place of a role goes to the i-th of the devices that reserve it.
LEMMA PlacesAreReserved ==
    ASSUME TypeOK, HoldsFollowState, CountsCover, state = "SETUP"
    PROVE  /\ IsFiniteSet(Places(counts)) /\ IsFiniteSet(ReservedDevs)
           /\ Cardinality(Places(counts)) \in Nat
           /\ Cardinality(ReservedDevs) \in Nat
           /\ Cardinality(Places(counts)) <= Cardinality(ReservedDevs)
<1> DEFINE seating == [r \in ScoredRole |->
                         CHOOSE g : g \in Injection(1 .. counts[r], Reserved(r))]
           seat == [p \in Places(counts) |-> seating[p[1]][p[2]]]
<1>1. ASSUME NEW r \in ScoredRole
      PROVE  seating[r] \in Injection(1 .. counts[r], Reserved(r))
  <2>1. \A d \in Dev : assigned[d] # r
    BY RoleFacts DEF HoldsFollowState
  <2>2. Holders(r) = {}
    BY <2>1 DEF Holders, HeldBy
  <2>3. Cardinality(Holders(r)) = 0
    BY <2>2, FS_EmptySet
  <2>4. IsFiniteSet(Reserved(r))
    BY GameServerAssumption, FS_Subset DEF GameServerAssumption, Reserved, HeldBy
  <2>5. counts[r] = Cardinality(Reserved(r))
    BY <2>3, HoldCountTypes DEF CountsCover, HoldCount
  <2>6. ExistsBijection(1 .. counts[r], Reserved(r))
    BY <2>4, <2>5, FS_CardinalityType
  <2>7. \E g : g \in Injection(1 .. counts[r], Reserved(r))
    BY <2>6 DEF ExistsBijection, Bijection
  <2> QED
    BY <2>7
<1> HIDE DEF seating
<1>2. ASSUME NEW p \in Places(counts)
      PROVE  /\ p[1] \in ScoredRole
             /\ p[2] \in 1 .. counts[p[1]]
             /\ p = <<p[1], p[2]>>
  BY DEF Places
<1>3. ASSUME NEW r \in ScoredRole, NEW i \in 1 .. counts[r]
      PROVE  seating[r][i] \in Reserved(r)
  BY <1>1 DEF Injection
<1>4. ASSUME NEW p \in Places(counts)
      PROVE  seat[p] \in ReservedDevs /\ validated[seat[p]] = p[1]
  <2>1. seat[p] \in Reserved(p[1])
    BY <1>2, <1>3
  <2>2. p[1] # None
    BY <1>2, RoleFacts
  <2> QED
    BY <2>1, <2>2 DEF Reserved, HeldBy, ReservedDevs
<1>5. ASSUME NEW p \in Places(counts), NEW q \in Places(counts), seat[p] = seat[q]
      PROVE  p = q
  <2>1. p[1] = q[1]
    BY <1>4, <1>5
  <2>2. seating[p[1]][p[2]] = seating[p[1]][q[2]]
    BY <1>5, <2>1
  <2>3. p[2] = q[2]
    BY <1>1, <1>2, <2>1, <2>2 DEF Injection, IsInjective
  <2> QED
    BY <1>2, <2>1, <2>3
<1> DEFINE S == Places(counts)
<1>6. /\ seat \in [S -> ReservedDevs]
      /\ DOMAIN seat = S
  BY <1>4
<1> HIDE DEF seat
<1>7. seat \in Injection(S, ReservedDevs)
  BY <1>5, <1>6 DEF Injection, IsInjective
<1>8. IsFiniteSet(ReservedDevs)
  BY GameServerAssumption, FS_Subset DEF GameServerAssumption, ReservedDevs
<1>9. IsFiniteSet(S) /\ Cardinality(S) <= Cardinality(ReservedDevs)
  BY <1>7, <1>8, FS_Injection
<1> QED
  BY <1>8, <1>9, FS_CardinalityType

\* When every scored role is full, all the places there are have been taken.
LEMMA FullTakesAll ==
    ASSUME TypeOK, \A r \in ScoredRole : ~HasPlace(r, counts[r])
    PROVE  /\ \A r \in ScoredRole : Capacity[r] # Unlimited
           /\ Places(Capacity) \subseteq Places(counts)
<1>1. ASSUME NEW r \in ScoredRole
      PROVE  /\ Capacity[r] # Unlimited
             /\ Capacity[r] \in Nat
             /\ counts[r] \in Int
             /\ counts[r] >= Capacity[r]
  <2>1. r \in Role
    BY RoleFacts
  <2>2. counts[r] \in Int /\ Capacity[r] \in Nat \cup {Unlimited}
    BY <2>1, RoleFacts DEF TypeOK
  <2>3. Capacity[r] # Unlimited /\ ~(counts[r] < Capacity[r])
    BY DEF HasPlace
  <2> QED
    BY <2>2, <2>3
<1>2. ASSUME NEW r \in ScoredRole, NEW i \in 1 .. Capacity[r]
      PROVE  i \in 1 .. counts[r]
  BY <1>1
<1> QED
  BY <1>1, <1>2 DEF Places

LEMMA WaitingHasRoom == TypeOK /\ HoldsFollowState /\ CountsCover => PlaceLeft
<1> SUFFICES ASSUME TypeOK, HoldsFollowState, CountsCover, state = "SETUP",
                    ScoredCap # Unlimited, ScoredCap > 0, LobbyState = "WAITING",
                    \A r \in ScoredRole : ~HasPlace(r, counts[r])
             PROVE  FALSE
  BY DEF PlaceLeft
<1> DEFINE total == Cardinality(Places(Capacity))
<1>1. /\ IsFiniteSet(Places(counts))
      /\ Cardinality(Places(counts)) \in Nat
      /\ Cardinality(ReservedDevs) \in Nat
      /\ Cardinality(Places(counts)) <= Cardinality(ReservedDevs)
  BY PlacesAreReserved
<1>2. total \in Nat /\ total <= Cardinality(Places(counts))
  BY <1>1, FullTakesAll, FS_Subset, FS_CardinalityType
<1>3. ScoredCap = IF MaxScored = Unlimited \/ total < MaxScored
                  THEN total ELSE MaxScored
  BY FullTakesAll DEF ScoredCap
<1>4. ~(Cardinality(ReservedDevs) >= ScoredCap)
  BY DEF LobbyState
<1>5. MaxScored \in Nat \cup {Unlimited}
  BY RoleTableAssumption DEF RoleTableAssumption
<1> HIDE DEF total
<1>6. ScoredCap \in Nat /\ ScoredCap <= total
  BY <1>2, <1>3, <1>5
<1> QED
  BY <1>1, <1>2, <1>4, <1>6

\* The devices seated in a scored role.
Seated == {d \in Dev : assigned[d] \in ScoredRole}

\* What request_start counted is seated, and the jam loop unseats nobody.
LEMMA NextSeats ==
    ASSUME TypeOK, HoldsFollowState, CountsCover, MinimumSeated, [Next]_vars
    PROVE  MinimumSeated'
<1> SUFFICES ASSUME loop' = "jam", startedBy' = "player"
             PROVE  Cardinality(Seated') >= MinScored
  BY DEF MinimumSeated, Seated
<1>1. IsFiniteSet(Seated')
  BY GameServerAssumption, FS_Subset DEF GameServerAssumption, Seated
<1>2. MinScored \in Nat
  BY GameServerAssumption DEF GameServerAssumption
<1>3. ASSUME NEW S, S \subseteq Seated', Cardinality(S) >= MinScored
      PROVE  Cardinality(Seated') >= MinScored
  <2>1. /\ Cardinality(S) \in Nat /\ Cardinality(Seated') \in Nat
        /\ Cardinality(S) <= Cardinality(Seated')
    BY <1>1, <1>3, FS_Subset, FS_CardinalityType
  <2> QED
    BY <1>2, <1>3, <2>1
<1>4. ASSUME NEW admin \in BOOLEAN, NEW keyed, Run(admin, keyed)
      PROVE  Cardinality(Seated') >= MinScored
  <2>1. state = "SETUP" /\ ~admin
    BY <1>4 DEF Run
  <2>2. Cardinality(Places(counts)) >= MinScored
    BY <1>4, <2>1 DEF Run, ScoredCount
  <2>3. Cardinality(ReservedDevs) >= MinScored
    BY <1>2, <2>1, <2>2, PlacesAreReserved
  <2>4. ReservedDevs \subseteq Seated'
    BY <1>4, RoleFacts DEF Run, TypeOK, ReservedDevs, Seated
  <2> QED
    BY <1>3, <2>3, <2>4
<1>5. ASSUME loop = "jam", startedBy = "player",
             \A d \in Dev : assigned[d] \in ScoredRole => assigned'[d] = assigned[d]
      PROVE  Cardinality(Seated') >= MinScored
  <2>1. Seated \subseteq Seated'
    BY <1>5 DEF Seated
  <2>2. Cardinality(Seated) >= MinScored
    BY <1>5 DEF MinimumSeated, Seated
  <2> QED
    BY <1>3, <2>1, <2>2
<1>6. ASSUME NEW d \in Dev, JamOne(d) PROVE Cardinality(Seated') >= MinScored
  <2>1. loop = "jam" /\ startedBy = "player"
    BY <1>6 DEF JamOne
  <2>2. CASE assigned[d] # None
    BY <1>5, <1>6, <2>1, <2>2 DEF JamOne, regVars
  <2>3. CASE assigned[d] = None
    <3>1. PICK r \in JamChoices(carried[d]) : Assign(d, r)
      BY <1>6, <2>3 DEF JamOne
    <3>2. r \in Role
      BY JamChoicesFit, RoleFacts DEF TypeOK
    <3> QED
      BY <1>5, <2>1, <2>3, <3>1, <3>2, AssignEffect, RoleFacts
  <2> QED
    BY <2>2, <2>3
<1>7. ASSUME NEW d \in Dev, GrantOne(d) PROVE Cardinality(Seated') >= MinScored
  BY <1>5, <1>7 DEF GrantOne, regVars
<1>8. CASE UNCHANGED vars
  BY <1>5, <1>8 DEF vars, regVars, loopVars
<1>9. CASE LoopStep
  BY <1>9, <1>6, <1>7
     DEF LoopStep, LoadBitFails, LoadBitSucceeds, EnterSetup, RunDone,
         CompleteUnloads, StartUnload, UnloadRelease, UnloadTell, UnloadDone, loopVars
<1>10. CASE Handler
  <2>1. Quiet /\ (\/ loop' = loop \/ loop' = "load" \/ loop' = "complete"
                  \/ loop' = "unload"
                  \/ \E admin, keyed \in BOOLEAN : Run(admin, keyed))
    BY <1>10
       DEF Handler, Hello, Touch, GoSilent, Reap, HandshakeRoom, HandshakePlayer,
           LoadRoom, UnloadRoom, Disarm, Arm, LoadBit, Complete, Abort, StartUnload,
           Stop, Fire, Run, loopVars
  <2> QED
    BY <1>4, <2>1 DEF Quiet
<1> QED
  BY <1>8, <1>9, <1>10 DEF Next

\* Inside every loop too: only pooled devices hold, or are about to.
Connected ==
    /\ \A d \in Dev : validated[d] # None \/ assigned[d] # None => d \in pool
    /\ loop = "jam" => todo \subseteq pool

LEMMA InitConnected == Init => Connected
BY DEF Init, Connected

\* A step in which at most d gains a hold, and d is in the pool.
LEMMA StaysConnected ==
    ASSUME Connected, NEW d \in Dev, d \in pool', pool \subseteq pool',
           \A x \in Dev \ {d} : validated'[x] \in {None, validated[x]},
           \A x \in Dev \ {d} : assigned'[x] \in {None, assigned[x]},
           loop' = loop, todo' \subseteq todo
    PROVE  Connected'
BY DEF Connected

LEMMA NextConnected ==
    ASSUME TypeOK, HoldsFollowState, Connected, [Next]_vars
    PROVE  Connected'
<1>1. ASSUME UNCHANGED regVars, pool' = pool, loop' # "jam"
      PROVE  Connected'
  BY <1>1 DEF Connected, regVars
<1>2. ASSUME NEW d \in Dev, NEW i \in Instrument, Hello(d, i) PROVE Connected'
  <2>1. d \in pool' /\ pool \subseteq pool' /\ loop' = loop /\ todo' = todo
    BY <1>2 DEF Hello, loopVars
  <2>2. CASE state = "RUNNING" /\ JamCandidate(d)
    <3>1. PICK r \in JamChoices(i) : Assign(d, r)
      BY <1>2, <2>2 DEF Hello
    <3>2. r \in Role
      BY JamChoicesFit, RoleFacts
    <3> QED
      BY <2>1, <3>1, <3>2, AssignEffect, StaysConnected
  <2>3. CASE ~(state = "RUNNING" /\ JamCandidate(d))
    BY <1>2, <2>1, <2>3, StaysConnected DEF Hello, regVars
  <2> QED
    BY <2>2, <2>3
<1>3. ASSUME NEW d \in Dev, Reap(d) PROVE Connected'
  <2>1. /\ \A x \in Dev \ {d} : validated'[x] = validated[x]
        /\ \A x \in Dev \ {d} : assigned'[x] = assigned[x]
    BY <1>3, ReleaseEffect DEF Reap, ReapHold, regVars
  <2>2. validated'[d] = None /\ assigned'[d] = None
    BY <1>3, ReleaseEffect DEF Reap, ReapHold, regVars, HoldsFollowState, Registered
  <2>3. pool' = pool \ {d} /\ loop' = loop /\ loop = "none"
    BY <1>3 DEF Reap, Forget, Quiet, loopVars
  <2> QED
    BY <2>1, <2>2, <2>3 DEF Connected
<1>4. ASSUME NEW d \in Dev, HandshakeRoom(d) PROVE Connected'
  <2>1. d \in pool /\ pool' = pool /\ loop' = loop /\ todo' = todo
    BY <1>4 DEF HandshakeRoom, loopVars
  <2> QED
    BY <1>4, <2>1, RoleFacts, AssignEffect, StaysConnected DEF HandshakeRoom
<1>5. ASSUME NEW d \in Dev, NEW rid, NEW n \in Node, HandshakePlayer(d, rid, n)
      PROVE  Connected'
  <2>1. d \in pool /\ pool' = pool /\ loop' = loop /\ todo' = todo
    BY <1>5 DEF HandshakePlayer, loopVars
  <2>2. /\ \A x \in Dev \ {d} : validated'[x] = validated[x]
        /\ \A x \in Dev \ {d} : assigned'[x] = assigned[x]
    BY <1>5, ValidateCases DEF HandshakePlayer, TypeOK
  <2> QED
    BY <2>1, <2>2, StaysConnected
<1>6. ASSUME NEW admin, NEW keyed, Run(admin, keyed) PROVE Connected'
  <2>1. pool' = pool /\ todo' \subseteq pool
    BY <1>6 DEF Run, JamCandidates, poolVars
  <2>2. ASSUME NEW x \in Dev PROVE validated'[x] = None
    BY <1>6 DEF Run
  <2>3. ASSUME NEW x \in Dev, assigned'[x] # None
        PROVE  validated[x] # None \/ assigned[x] # None
    BY <1>6, <2>3 DEF Run
  <2> QED
    BY <2>1, <2>2, <2>3 DEF Connected
<1>7. ASSUME NEW d \in Dev, JamOne(d) PROVE Connected'
  <2>1. /\ d \in pool /\ pool' = pool /\ loop' = loop /\ todo' \subseteq todo
    BY <1>7 DEF JamOne, Connected, poolVars
  <2>2. CASE assigned[d] # None
    BY <1>7, <2>1, <2>2, StaysConnected DEF JamOne, regVars
  <2>3. CASE assigned[d] = None
    <3>1. PICK r \in JamChoices(carried[d]) : Assign(d, r)
      BY <1>7, <2>3 DEF JamOne
    <3>2. r \in Role
      BY JamChoicesFit, RoleFacts DEF TypeOK
    <3> QED
      BY <2>1, <3>1, <3>2, AssignEffect, StaysConnected
  <2> QED
    BY <2>2, <2>3
<1>8. ASSUME NEW d \in Dev, UnloadRelease(d) PROVE Connected'
  BY <1>8, ReleaseEffect DEF UnloadRelease, Connected, poolVars
<1>9. CASE LoadBitSucceeds \/ UnloadDone
  BY <1>9 DEF LoadBitSucceeds, UnloadDone, Connected, loopVars
<1>10. ASSUME NEW d \in Dev, Touch(d) \/ GoSilent(d) PROVE Connected'
  BY <1>10 DEF Touch, GoSilent, Connected, regVars, loopVars
<1>11. ASSUME NEW d \in Dev, GrantOne(d) \/ UnloadTell(d) PROVE Connected'
  BY <1>11 DEF GrantOne, UnloadTell, Connected, regVars, poolVars
<1>12. CASE LoadRoom \/ Disarm
  BY <1>12 DEF LoadRoom, Disarm, Connected, regVars, loopVars, poolVars
<1>13. CASE UnloadRoom
  BY <1>13 DEF UnloadRoom, Quiet, Connected, HoldsFollowState, regVars, loopVars
<1>14. CASE LoadBit \/ Complete \/ LoadBitFails \/ EnterSetup \/ RunDone
  BY <1>1, <1>14
     DEF LoadBit, Complete, LoadBitFails, EnterSetup, RunDone, poolVars
<1>15. CASE Abort \/ CompleteUnloads
  BY <1>1, <1>15 DEF Abort, CompleteUnloads, StartUnload, poolVars
<1>16. ASSUME NEW f \in Fixture, Arm(f) PROVE Connected'
  BY <1>16 DEF Arm, Connected, regVars, loopVars, poolVars
<1>17. ASSUME NEW s \in MuteTargets, Stop(s) \/ Fire(s) PROVE Connected'
  BY <1>17 DEF Stop, Fire, Connected, regVars, loopVars, poolVars
<1>18. CASE UNCHANGED vars
  BY <1>18 DEF vars, Connected, regVars, loopVars, poolVars
<1>19. CASE LoopStep
  BY <1>19, <1>7, <1>8, <1>9, <1>11, <1>14, <1>15 DEF LoopStep
<1>20. CASE Handler
  BY <1>20, <1>2, <1>3, <1>4, <1>5, <1>6, <1>10, <1>12, <1>13, <1>14, <1>15, <1>16,
     <1>17 DEF Handler
<1> QED
  BY <1>18, <1>19, <1>20 DEF Next

\* While the lobby says WAITING a scored role has a place, a round a player starts
\* has its minimum seated, and every hold is a connected device's.
THEOREM TheLobbyIsHonest == Spec => []LobbyHonest
<1>1. Init => MinimumSeated /\ Connected
  BY InitConnected DEF Init, MinimumSeated
<1>2. TypeOK /\ HoldsFollowState /\ CountsCover /\ MinimumSeated /\ Connected
        /\ [Next]_vars => MinimumSeated' /\ Connected'
  BY NextSeats, NextConnected
<1>3. TypeOK /\ HoldsFollowState /\ CountsCover /\ MinimumSeated /\ Connected
        => LobbyHonest
  BY WaitingHasRoom DEF LobbyHonest, Connected, HoldersAreConnected
<1> QED
  BY <1>1, <1>2, <1>3, TypeCorrect, LifecycleDecidesHolds, CountersCoverHolders, PTL
     DEF Spec

-----------------------------------------------------------------------------
(***************************************************************************)
(* A Bit that judges (Metronome).  Its invariant says what the phrases     *)
(* hold (the taps that have arrived, of all that were made), when a cycle  *)
(* is judged (by the first lap past its deadline) and where the beats are  *)
(* then.                                                                   *)
(***************************************************************************)

Tap == [dev : Drummer, at : Nat]

MetroTypes ==
    /\ rotation \in Rotations
    /\ clock \in Nat /\ stalls \in 0 .. MaxStalls
    /\ anchor \in Nat \cup {Unset} /\ beat \in 0 .. Total /\ judged \in 0 .. Cycles
    /\ air \subseteq Tap /\ made \subseteq Tap
    /\ \A tap \in air \cup made : tap.at <= clock
    /\ verdicts \in Seq(BOOLEAN) /\ Len(verdicts) <= judged
    /\ closing # Unset \/ done => judged = Cycles

\* Before the first lap nothing has happened but taps.
BeforeTheGrid ==
    anchor = Unset =>
        /\ judged = 0 /\ beat = 0 /\ verdicts = <<>> /\ air \subseteq made
        /\ phrases = [c \in 0 .. Cycles - 1 |-> Silent]

\* A cycle's phrase is what its player's taps that have arrived come to, and a
\* tap still on its way to a cycle is one of those made.
PhrasesAreTaps ==
    anchor # Unset =>
        /\ \A c \in judged .. Cycles - 1 : phrases[c] = Played(Ours(made \ air, c), c)
        /\ \A tap \in air : Pending(tap) => tap \in made

\* A cycle is judged by the first lap after its deadline, and no earlier.
JudgedInTime ==
    /\ anchor # Unset => \A c \in judged .. Cycles - 1 :
                             clock - 1 - stalls < LastMoment(c) + Slack
    /\ \A i \in DOMAIN verdicts : LastMoment(judged - Len(verdicts) + i - 1) < clock

\* A beat goes out no earlier than the lead and a beat ahead.
BeatsInTime == anchor # Unset /\ beat > 0 => Grid(beat - 1) <= clock + Ahead + Pulse

\* In the middle of a cycle its player is not failed.
TurnIsBack ==
    Len(rotation) > 1 /\ beat % PerCycle # 0 => Turn(beat \div PerCycle) \notin failed

MetroInv ==
    /\ MetroTypes /\ BeforeTheGrid /\ PhrasesAreTaps
    /\ JudgedInTime /\ BeatsInTime /\ TurnIsBack /\ CyclesAreFair


-----------------------------------------------------------------------------
(* Numbers                                                                 *)

LEMMA Numbers ==
    /\ Pulse \in Nat /\ Pulse > 0 /\ PerCycle \in Nat /\ PerCycle > 1
    /\ Cycles \in Nat /\ Cycles > 0 /\ Total \in Nat
    /\ LeadIn \in Nat /\ Tolerance \in Nat /\ Slack \in Nat /\ Finale \in Nat
    /\ Ahead \in Nat /\ Late \in Nat /\ MaxTaps \in Nat /\ MaxStalls \in Nat
<1>1. /\ Pulse \in Nat /\ Pulse > 0 /\ PerCycle \in Nat /\ PerCycle > 1
      /\ Cycles \in Nat /\ Cycles > 0
      /\ LeadIn \in Nat /\ Tolerance \in Nat /\ Slack \in Nat /\ Finale \in Nat
      /\ Ahead \in Nat /\ Late \in Nat /\ MaxTaps \in Nat /\ MaxStalls \in Nat
  BY MetronomeAssumption
<1>. QED BY <1>1 DEF Total

LEMMA AnswersAre ==
    /\ \A p \in Answers : p \in Nat /\ p < PerCycle
    /\ PerCycle - 1 \in Answers /\ PerCycle - 1 \in Int
BY Numbers DEF Answers, CallBeats

\* The first of some numbers is one of them, and no larger than any.
LEMMA LeastIs ==
    ASSUME NEW S \in SUBSET Nat, S # {}
    PROVE  Min(S) \in S /\ \A n \in S : Min(S) <= n
<1>1. PICK d \in S : \A c \in S : <<c, d>> \notin OpToRel(<, Nat)
  BY NatLessThanWellFounded, WFMin
<1>2. ASSUME NEW c \in S PROVE d <= c
  <2>1. c \in Nat /\ d \in Nat
    OBVIOUS
  <2>2. ~(c < d)
    BY <1>1, <2>1, Zenon DEF OpToRel
  <2>. QED BY <2>1, <2>2
<1>3. d \in S /\ \A y \in S : d <= y
  BY <1>2
<1>. QED BY <1>3 DEF Min

LEMMA Between ==
    ASSUME NEW a \in Int, NEW b \in Int, NEW x \in Int, a <= x, x < b
    PROVE  x \in a .. b - 1
OBVIOUS

LEMMA TimesGrows ==
    ASSUME NEW i \in Int, NEW j \in Int, NEW n \in Nat, i <= j
    PROVE  i * n <= j * n /\ i * n \in Int /\ j * n \in Int
<1>1. j * n = i * n + (j - i) * n
  OBVIOUS
<1>2. j - i \in Nat
  OBVIOUS
<1>3. (j - i) * n \in Nat
  BY <1>2
<1>. QED BY <1>1, <1>3

\* Places of a cycle, and of the cycles after it, follow one another a beat apart.
LEMMA GridGrows ==
    ASSUME anchor \in Int, NEW i \in Int, NEW j \in Int, i < j
    PROVE  Grid(i) + Pulse <= Grid(j) /\ Grid(i) \in Int /\ Grid(j) \in Int
<1>1. (i + 1) * Pulse <= j * Pulse /\ j * Pulse \in Int
  BY TimesGrows, Numbers
<1>2. (i + 1) * Pulse = i * Pulse + Pulse /\ i * Pulse \in Int
  BY Numbers
<1>. QED BY <1>1, <1>2, Numbers DEF Grid

LEMMA AtGrows ==
    ASSUME anchor \in Int, NEW c \in Int, NEW p \in Int, NEW q \in Int, p < q
    PROVE  At(c, p) + Pulse <= At(c, q) /\ At(c, p) \in Int /\ At(c, q) \in Int
<1>1. c * PerCycle \in Int
  BY Numbers
<1>. QED BY <1>1, GridGrows DEF At

LEMMA AtIs ==
    ASSUME anchor \in Int, NEW c \in Int
    PROVE  LastMoment(c) \in Int /\ \A p \in Int : At(c, p) \in Int
<1>1. \A p \in Int : p + 1 \in Int /\ p < p + 1
  OBVIOUS
<1>2. \A p \in Int : At(c, p) \in Int
  BY <1>1, AtGrows
<1>. QED BY <1>2, Numbers DEF LastMoment

-----------------------------------------------------------------------------
(* A tap and the beats of its cycle                                        *)

LEMMA NearestIs ==
    ASSUME anchor \in Int, NEW c \in Int, NEW t \in Int
    PROVE  /\ Nearest(t, c) \in Answers
           /\ \A q \in Answers : Off(t, c, Nearest(t, c)) <= Off(t, c, q)
           /\ \A q \in Answers : Off(t, c, q) \in Nat
<1>1. \A q \in Answers : Off(t, c, q) \in Nat
  <2>. SUFFICES ASSUME NEW q \in Answers PROVE Off(t, c, q) \in Nat
    OBVIOUS
  <2>1. At(c, q) \in Int
    BY AtGrows, AnswersAre, Numbers
  <2>. QED BY <2>1 DEF Off
<1>. DEFINE Offs == {Off(t, c, q) : q \in Answers}
            First == {q \in Answers : Off(t, c, q) = Min(Offs)}
<1>2. Min(Offs) \in Offs /\ \A n \in Offs : Min(Offs) <= n
  <2>1. Offs \in SUBSET Nat /\ Offs # {}
    BY <1>1, AnswersAre
  <2>. HIDE DEF Offs
  <2>. QED BY <2>1, LeastIs
<1>3. First # {} /\ First \subseteq Nat
  BY <1>2, AnswersAre
<1>4. Min(First) \in First /\ \A n \in First : Min(First) <= n
  <2>. HIDE DEF First
  <2>. QED BY <1>3, LeastIs
<1>5. ASSUME NEW q \in Answers
      PROVE  \/ Off(t, c, Min(First)) < Off(t, c, q)
             \/ (Off(t, c, Min(First)) = Off(t, c, q) /\ Min(First) <= q)
  <2>1. Min(First) \in Answers /\ Off(t, c, Min(First)) = Min(Offs)
    BY <1>4
  <2>2. Min(Offs) <= Off(t, c, q)
    BY <1>2
  <2>3. CASE Off(t, c, q) = Min(Offs)
    BY <1>4, <2>1, <2>3
  <2>. QED BY <1>1, <2>1, <2>2, <2>3
<1>6. Min(First) \in Answers
  BY <1>4
<1>. HIDE DEF Offs, First
<1>7. /\ Nearest(t, c) \in Answers
      /\ \A q \in Answers : \/ Off(t, c, Nearest(t, c)) < Off(t, c, q)
                            \/ (Off(t, c, Nearest(t, c)) = Off(t, c, q) /\ Nearest(t, c) <= q)
  BY <1>5, <1>6, Zenon DEF Nearest
<1>. QED BY <1>1, <1>7

\* Within the tolerance of a beat is near no other, and before the last moment.
LEMMA OnBeatIs ==
    ASSUME anchor \in Int, NEW c \in Int, NEW t \in Int, NEW p \in Answers,
           Off(t, c, p) <= Tolerance
    PROVE  Nearest(t, c) = p /\ t <= LastMoment(c)
<1>1. /\ Nearest(t, c) \in Answers /\ Off(t, c, Nearest(t, c)) <= Off(t, c, p)
      /\ Off(t, c, Nearest(t, c)) \in Nat /\ Off(t, c, p) \in Nat
  BY NearestIs
<1>. DEFINE n == Nearest(t, c)
<1>2. At(c, p) \in Int /\ At(c, n) \in Int /\ At(c, PerCycle - 1) \in Int
  BY <1>1, AtIs, AnswersAre
<1>3. Off(t, c, n) <= Tolerance
  BY <1>1, Numbers
<1>4. n = p
  <2>1. CASE n < p
    <3>1. At(c, n) + Pulse <= At(c, p)
      BY <1>1, <2>1, AtGrows, AnswersAre
    <3>. QED BY <1>2, <1>3, <3>1, Numbers, TimingAssumption DEF Off
  <2>2. CASE p < n
    <3>1. At(c, p) + Pulse <= At(c, n)
      BY <1>1, <2>2, AtGrows, AnswersAre
    <3>. QED BY <1>2, <1>3, <3>1, Numbers, TimingAssumption DEF Off
  <2>. QED BY <1>1, <2>1, <2>2, AnswersAre, Numbers
<1>5. At(c, p) <= At(c, PerCycle - 1)
  <2>1. CASE p < PerCycle - 1
    <3>1. At(c, p) + Pulse <= At(c, PerCycle - 1)
      BY <2>1, AtGrows, AnswersAre
    <3>. QED BY <1>2, <3>1, Numbers
  <2>. QED BY <1>2, <2>1, AnswersAre, Numbers
<1>. QED BY <1>2, <1>4, <1>5, Numbers DEF Off, LastMoment

\* What is judged is what was played: of the player's taps of a cycle, those that
\* have not arrived were made too late to be an answer.
LEMMA PhraseIsFair ==
    ASSUME anchor \in Int, NEW c \in Int, NEW mine, NEW heard \in SUBSET mine,
           \A tap \in mine : tap.at \in Int,
           \A tap \in mine \ heard : tap.at > LastMoment(c)
    PROVE  LET played == Played(heard, c)
               times == {tap.at : tap \in mine}
               answered == \A p \in Answers : \E t \in times : Off(t, c, p) <= Tolerance
           IN  /\ Success(played) => answered /\ \A t \in times : OnBeat(t, c) \/ t > LastMoment(c)
               /\ answered /\ (\A t \in times : OnBeat(t, c)) => Success(played)
<1>. DEFINE times == {tap.at : tap \in mine}
            answered == \A p \in Answers : \E t \in times : Off(t, c, p) <= Tolerance
<1>1. Played(heard, c).hits = {Nearest(tap.at, c) : tap \in {tap \in heard : Close(tap.at, c)}}
      /\ Played(heard, c).spoiled = \E tap \in heard : ~Close(tap.at, c)
  BY DEF Played
<1>2. LastMoment(c) \in Int
  BY AtIs
<1>3. ASSUME NEW tap \in mine PROVE Close(tap.at, c) <=> OnBeat(tap.at, c)
  BY NearestIs, OnBeatIs DEF Close, OnBeat
<1>4. ASSUME Success(Played(heard, c)) PROVE answered
  <2>. SUFFICES ASSUME NEW p \in Answers PROVE \E t \in times : Off(t, c, p) <= Tolerance
    OBVIOUS
  <2>1. PICK tap \in heard : Close(tap.at, c) /\ p = Nearest(tap.at, c)
    BY <1>1, <1>4 DEF Success
  <2>. QED BY <2>1 DEF Close
<1>5. ASSUME Success(Played(heard, c)), NEW t \in times PROVE OnBeat(t, c) \/ t > LastMoment(c)
  BY <1>1, <1>3, <1>5 DEF Success
<1>6. ASSUME answered, \A t \in times : OnBeat(t, c) PROVE Success(Played(heard, c))
  <2>1. ~Played(heard, c).spoiled
    BY <1>1, <1>3, <1>6
  <2>2. Played(heard, c).hits \subseteq Answers
    BY <1>1, NearestIs
  <2>3. ASSUME NEW p \in Answers PROVE p \in Played(heard, c).hits
    <3>1. PICK tap \in mine : Off(tap.at, c, p) <= Tolerance
      BY <1>6
    <3>2. Nearest(tap.at, c) = p /\ tap.at <= LastMoment(c)
      BY <3>1, OnBeatIs
    <3>3. tap \in heard
      BY <1>2, <3>2
    <3>. QED BY <1>1, <3>1, <3>2, <3>3 DEF Close
  <2>. QED BY <2>1, <2>2, <2>3 DEF Success
<1>. QED BY <1>4, <1>5, <1>6

-----------------------------------------------------------------------------
(* A grid that stays                                                       *)

SameGrid == anchor' = anchor /\ rotation' = rotation

LEMMA GridStays ==
    ASSUME SameGrid
    PROVE  /\ \A k : Grid(k)' = Grid(k)
           /\ \A t, c, p : Off(t, c, p)' = Off(t, c, p)
           /\ \A c : Turn(c)' = Turn(c) /\ LastMoment(c)' = LastMoment(c)
           /\ \A t : CycleOf(t)' = CycleOf(t)
           /\ \A t, c : OnBeat(t, c)' = OnBeat(t, c)
           /\ \A all, c : Ours(all, c)' = Ours(all, c) /\ Played(all, c)' = Played(all, c)
<1>1. \A k : Grid(k)' = Grid(k)
  BY DEF SameGrid, Grid
<1>2. \A t, c, p : Off(t, c, p)' = Off(t, c, p)
  BY <1>1 DEF Off, At
<1>3. \A c : Turn(c)' = Turn(c)
  BY DEF SameGrid, Turn
<1>4. \A c : LastMoment(c)' = LastMoment(c)
  BY <1>1 DEF LastMoment, At
<1>5. \A t : CycleOf(t)' = CycleOf(t)
  BY <1>1 DEF SameGrid, CycleOf
<1>6. \A t, c : OnBeat(t, c)' = OnBeat(t, c)
  BY <1>2, Zenon DEF OnBeat
<1>7. \A t, c : Nearest(t, c)' = Nearest(t, c)
  BY DEF SameGrid, Nearest, Off, At, Grid
<1>8. \A t, c : Close(t, c)' = Close(t, c)
  BY <1>2, <1>7, Zenon DEF Close
<1>9. \A all, c : Ours(all, c)' = Ours(all, c)
  BY <1>3, <1>5 DEF Ours
<1>10. \A all, c : Played(all, c)' = Played(all, c)
  BY <1>7, <1>8 DEF Played
<1>. QED BY <1>1, <1>2, <1>3, <1>4, <1>5, <1>6, <1>9, <1>10

\* A verdict on cycle c that is fair.
FairTo(c, verdict) ==
    /\ verdict => Answered(c) /\ \A t \in Mine(c) : OnBeat(t, c) \/ t > LastMoment(c)
    /\ Answered(c) /\ (\A t \in Mine(c) : OnBeat(t, c)) => verdict

LEMMA FairSays ==
    JudgedFairly <=>
        \A i \in DOMAIN verdicts : FairTo(judged - Len(verdicts) + i - 1, verdicts[i])
BY Zenon DEF JudgedFairly, FairTo

\* A verdict stays fair when the cycle's taps stay, or one is added after its last
\* moment.
LEMMA FairStays ==
    ASSUME SameGrid, anchor \in Int, NEW c \in Int, NEW verdict, FairTo(c, verdict),
           \A t \in Mine(c) : t \in Int,
           Mine(c) \subseteq Mine(c)',
           \A t \in Mine(c)' \ Mine(c) : t \in Int /\ t > LastMoment(c)
    PROVE  FairTo(c, verdict)'
<1>1. \A t \in Mine(c)' \ Mine(c) : ~OnBeat(t, c)
  BY OnBeatIs, AtIs DEF OnBeat
<1>2. Answered(c)' <=> Answered(c)
  BY <1>1, GridStays DEF Answered, OnBeat
<1>3. \A t \in Mine(c)' : OnBeat(t, c)' = OnBeat(t, c) /\ LastMoment(c)' = LastMoment(c)
  BY GridStays
<1>. QED BY <1>1, <1>2, <1>3 DEF FairTo

-----------------------------------------------------------------------------
(* The first state, a tap, a lap missed                                    *)

LEMMA MetroStarts == MetroStart => MetroInv
<1>. SUFFICES ASSUME NEW players \in Rotations, MetroInit(players) PROVE MetroInv
  BY DEF MetroStart
<1>1. MetroTypes
  BY Numbers DEF MetroInit, MetroTypes, Unset
<1>2. BeforeTheGrid
  BY DEF MetroInit, BeforeTheGrid
<1>3. PhrasesAreTaps /\ JudgedInTime /\ BeatsInTime /\ CyclesAreFair
  BY DEF MetroInit, PhrasesAreTaps, JudgedInTime, BeatsInTime, CyclesAreFair, JudgedFairly,
         TurnIsLit
<1>4. TurnIsBack
  BY DEF MetroInit, TurnIsBack
<1>. QED BY <1>1, <1>2, <1>3, <1>4 DEF MetroInv

\* The verdicts of the last lap stay fair: whoever taps now taps too late for them.
LEMMA FairnessStays ==
    ASSUME MetroInv, SameGrid, judged' = judged, verdicts' = verdicts, dark' = dark,
           made \subseteq made', \A tap \in made' \ made : tap.at = clock
    PROVE  CyclesAreFair'
<1>1. TurnIsLit'
  BY DEF MetroInv, CyclesAreFair, TurnIsLit, SameGrid
<1>2. ASSUME NEW c \in Int, NEW verdict, FairTo(c, verdict), LastMoment(c) < clock
      PROVE  FairTo(c, verdict)'
  <2>1. anchor \in Int /\ clock \in Nat /\ \A tap \in made : tap.at \in Int
    BY DEF MetroInv, MetroTypes, Unset, Tap
  <2>2. Ours(made, c) \subseteq Ours(made', c) /\ Ours(made, c)' = Ours(made', c)
    BY GridStays DEF Ours
  <2>3. Mine(c) \subseteq Mine(c)' /\ \A t \in Mine(c) : t \in Int
    BY <2>1, <2>2 DEF Mine, Ours
  <2>4. ASSUME NEW t \in Mine(c)' \ Mine(c) PROVE t \in Int /\ t > LastMoment(c)
    <3>1. PICK tap \in Ours(made', c) : t = tap.at
      BY <2>2, <2>4 DEF Mine
    <3>2. tap \in made' \ made
      BY <2>4, <3>1 DEF Mine, Ours
    <3>3. t = clock
      BY <3>1, <3>2
    <3>. QED BY <1>2, <2>1, <3>3, AtIs
  <2>. QED BY <1>2, <2>1, <2>3, <2>4, FairStays
<1>3. ASSUME NEW i \in DOMAIN verdicts'
      PROVE  FairTo(judged - Len(verdicts) + i - 1, verdicts[i])'
  <2>1. judged - Len(verdicts) + i - 1 \in Int /\ i \in DOMAIN verdicts
    BY DEF MetroInv, MetroTypes
  <2>2. /\ FairTo(judged - Len(verdicts) + i - 1, verdicts[i])
        /\ LastMoment(judged - Len(verdicts) + i - 1) < clock
    BY <2>1, FairSays DEF MetroInv, CyclesAreFair, JudgedInTime
  <2>. QED BY <1>2, <2>1, <2>2
<1>4. JudgedFairly'
  BY <1>3, Zenon DEF JudgedFairly, FairTo
<1>. QED BY <1>1, <1>4 DEF CyclesAreFair

LEMMA StallKeeps ==
    ASSUME MetroInv, Stall
    PROVE  MetroInv'
<1>1. SameGrid
  BY DEF Stall, SameGrid
<1>2. MetroTypes'
  <2>1. clock \in Nat /\ stalls \in Nat /\ clock' = clock + 1 /\ stalls' = stalls + 1
        /\ stalls < MaxStalls /\ MaxStalls \in Nat
    BY Numbers DEF MetroInv, MetroTypes, Stall
  <2>2. \A tap \in air \cup made : tap.at \in Nat /\ tap.at <= clock
    BY DEF MetroInv, MetroTypes, Tap
  <2>3. \A tap \in air \cup made : tap.at <= clock + 1
    BY <2>1, <2>2
  <2>. QED BY <2>1, <2>3 DEF MetroInv, MetroTypes, Stall
<1>3. BeforeTheGrid' /\ TurnIsBack'
  BY DEF MetroInv, BeforeTheGrid, TurnIsBack, Stall, Turn
<1>4. PhrasesAreTaps'
  BY <1>1, GridStays DEF MetroInv, PhrasesAreTaps, Stall, Pending
<1>5. JudgedInTime'
  <2>1. /\ anchor \in Int /\ clock \in Nat /\ stalls \in Nat /\ judged \in Nat
        /\ clock' - 1 - stalls' = clock - 1 - stalls /\ clock' = clock + 1
        /\ DOMAIN verdicts \subseteq Int /\ Len(verdicts) \in Int
        /\ judged' = judged /\ verdicts' = verdicts
    BY Numbers DEF MetroInv, MetroTypes, Stall, Unset
  <2>2. \A c \in Int : LastMoment(c)' = LastMoment(c) /\ LastMoment(c) \in Int
    BY <1>1, <2>1, GridStays, AtIs
  <2>3. ASSUME NEW i \in DOMAIN verdicts PROVE LastMoment(judged - Len(verdicts) + i - 1)' < clock'
    <3>1. judged - Len(verdicts) + i - 1 \in Int
      BY <2>1
    <3>2. LastMoment(judged - Len(verdicts) + i - 1) < clock
      BY DEF MetroInv, JudgedInTime
    <3>. QED BY <2>1, <2>2, <3>1, <3>2
  <2>. QED BY <2>1, <2>2, <2>3 DEF MetroInv, JudgedInTime, Stall
<1>6. BeatsInTime'
  <2>1. anchor # Unset /\ beat > 0 => Grid(beat - 1) <= clock + Ahead + Pulse
    BY DEF MetroInv, BeatsInTime
  <2>2. beat > 0 /\ anchor \in Int => Grid(beat - 1) \in Int
    BY Numbers DEF MetroInv, MetroTypes, Grid
  <2>3. Grid(beat - 1)' = Grid(beat - 1) /\ clock \in Nat /\ clock' = clock + 1 /\ anchor \in Int
    BY DEF Grid, Stall, MetroInv, MetroTypes, Unset
  <2>. QED BY <2>1, <2>2, <2>3, Numbers DEF BeatsInTime, Stall
<1>7. CyclesAreFair'
  BY <1>1, FairnessStays DEF Stall
<1>. QED BY <1>2, <1>3, <1>4, <1>5, <1>6, <1>7 DEF MetroInv

LEMMA TapKeeps ==
    ASSUME MetroInv, NEW d \in Drummer, PlayerTaps(d)
    PROVE  MetroInv'
<1>. DEFINE tap == [dev |-> d, at |-> clock]
<1>1. SameGrid
  BY DEF PlayerTaps, SameGrid
<1>2. tap \notin made /\ air' = air \cup {tap} /\ made' = made \cup {tap}
  BY DEF PlayerTaps
<1>3. MetroTypes'
  <2>1. clock \in Nat /\ clock' = clock
    BY DEF MetroInv, MetroTypes, PlayerTaps
  <2>2. tap \in Tap /\ tap.at <= clock
    BY <2>1 DEF Tap
  <2>. HIDE DEF tap
  <2>. QED BY <1>2, <2>1, <2>2 DEF MetroInv, MetroTypes, PlayerTaps
<1>4. BeforeTheGrid' /\ TurnIsBack' /\ BeatsInTime'
  BY <1>2 DEF MetroInv, BeforeTheGrid, TurnIsBack, BeatsInTime, PlayerTaps, Turn, Grid
<1>5. PhrasesAreTaps'
  <2>1. made' \ air' = made \ air
    BY <1>2
  <2>2. ASSUME NEW c \in judged .. Cycles - 1, phrases[c] = Played(Ours(made \ air, c), c)
        PROVE  phrases'[c] = Played(Ours(made \ air, c), c)'
    <3>1. Ours(made \ air, c)' = Ours(made \ air, c)
      BY <1>1, <2>1, GridStays DEF Ours
    <3>2. Played(Ours(made \ air, c), c)' = Played(Ours(made \ air, c), c)
      BY <1>1, <3>1, GridStays
    <3>. QED BY <2>2, <3>2 DEF PlayerTaps
  <2>3. \A t : Pending(t)' = Pending(t)
    BY <1>1, GridStays DEF Pending, PlayerTaps
  <2>4. anchor' = anchor /\ judged' = judged
    BY DEF PlayerTaps
  <2>. QED BY <1>2, <2>2, <2>3, <2>4 DEF MetroInv, PhrasesAreTaps
<1>6. JudgedInTime'
  BY <1>1, GridStays DEF MetroInv, JudgedInTime, PlayerTaps
<1>7. CyclesAreFair'
  BY <1>1, <1>2, FairnessStays DEF PlayerTaps
<1>. QED BY <1>3, <1>4, <1>5, <1>6, <1>7 DEF MetroInv

-----------------------------------------------------------------------------
(* Whole cycles                                                            *)

\* The beats of cycle c are those from c * PerCycle on, PerCycle of them.
LEMMA CycleIs ==
    ASSUME NEW k \in Nat
    PROVE  LET c == k \div PerCycle
           IN  /\ c \in Nat /\ c * PerCycle \in Nat
               /\ c * PerCycle <= k /\ k < c * PerCycle + PerCycle
               /\ k % PerCycle = k - c * PerCycle
<1>. DEFINE c == k \div PerCycle
<1>1. c \in Int /\ c >= 0
  BY Numbers
<1>2. k = PerCycle * c + (k % PerCycle) /\ k % PerCycle \in 0 .. PerCycle - 1
  BY Numbers
<1>3. PerCycle * c = c * PerCycle /\ c * PerCycle \in Nat
  BY <1>1, Numbers
<1>. QED BY <1>1, <1>2, <1>3, Numbers

LEMMA CycleOfBeat ==
    ASSUME NEW k \in Nat, NEW c \in Nat, c * PerCycle <= k, k < c * PerCycle + PerCycle
    PROVE  k \div PerCycle = c /\ k % PerCycle = k - c * PerCycle
<1>. DEFINE d == k \div PerCycle
<1>1. d \in Nat /\ d * PerCycle <= k /\ k < d * PerCycle + PerCycle
      /\ k % PerCycle = k - d * PerCycle /\ d * PerCycle \in Nat
  BY CycleIs
<1>2. ASSUME NEW a \in Nat, NEW b \in Nat, a < b PROVE a * PerCycle + PerCycle <= b * PerCycle
  <2>1. (a + 1) * PerCycle <= b * PerCycle
    BY <1>2, TimesGrows, Numbers
  <2>. QED BY <2>1, Numbers
<1>3. c * PerCycle \in Nat
  BY Numbers
<1>4. ~(d < c) /\ ~(c < d)
  BY <1>1, <1>2, <1>3, Numbers
<1>. QED BY <1>1, <1>4

LEMMA WholeCycle == Total \in Nat /\ \A k \in 0 .. Total : k % PerCycle # 0 => k < Total
<1>1. Total = Cycles * PerCycle /\ Total \in Nat
  BY Numbers DEF Total
<1>2. Total % PerCycle = 0
  BY <1>1, CycleOfBeat, Numbers
<1>. QED BY <1>1, <1>2

\* Whose turn it is repeats after two cycles at the earliest.
LEMMA TurnsApart ==
    ASSUME rotation \in Rotations, Len(rotation) > 1,
           NEW j \in Nat, NEW c \in Nat, j < c, Turn(j) = Turn(c)
    PROVE  c >= j + 2
<1>. DEFINE n == Len(rotation)
<1>1. n \in Nat /\ n > 1 /\ DOMAIN rotation = 1 .. n
      /\ \A a, b \in DOMAIN rotation : rotation[a] = rotation[b] => a = b
  <2>1. /\ rotation \in Seq(Drummer)
        /\ \A a, b \in DOMAIN rotation : rotation[a] = rotation[b] => a = b
    BY MetronomeAssumption
  <2>. QED BY <2>1
<1>. HIDE DEF n
<1>2. j % n \in 0 .. n - 1 /\ c % n \in 0 .. n - 1
  BY <1>1
<1>3. rotation[(j % n) + 1] = rotation[(c % n) + 1]
  BY DEF Turn, n
<1>4. j % n = c % n
  <2>1. (j % n) + 1 \in DOMAIN rotation /\ (c % n) + 1 \in DOMAIN rotation
    BY <1>1, <1>2
  <2>2. (j % n) + 1 = (c % n) + 1
    BY <1>1, <1>3, <2>1
  <2>. QED BY <1>2, <2>2
<1>5. SUFFICES ASSUME c = j + 1 PROVE FALSE
  OBVIOUS
<1>6. j = n * (j \div n) + (j % n) /\ c = n * (c \div n) + (c % n)
      /\ j \div n \in Int /\ c \div n \in Int
  BY <1>1
<1>7. n * (c \div n) - n * (j \div n) = 1
  BY <1>1, <1>2, <1>4, <1>5, <1>6
<1>8. ASSUME NEW a \in Int, NEW b \in Int PROVE n * a - n * b # 1
  <2>1. n * a - n * b = (a - b) * n
    BY <1>1
  <2>2. CASE a - b >= 1
    <3>1. 1 * n <= (a - b) * n
      BY <1>1, <2>2, TimesGrows
    <3>. QED BY <1>1, <2>1, <3>1
  <2>3. CASE a - b <= 0
    <3>1. (a - b) * n <= 0 * n
      BY <1>1, <2>3, TimesGrows
    <3>. QED BY <1>1, <2>1, <3>1
  <2>. QED BY <2>2, <2>3
<1>. QED BY <1>6, <1>7, <1>8

-----------------------------------------------------------------------------
(* A lap                                                                   *)

LEMMA ReachedIs ==
    ASSUME MetroTypes, NEW t0 \in Int
    PROVE  /\ Reached(t0) \in beat .. Total
           /\ \A k \in beat .. Reached(t0) - 1 : t0 + k * Pulse <= clock + Ahead + Pulse
           /\ Reached(t0) < Total => t0 + Reached(t0) * Pulse > clock + Ahead + Pulse
<1>. DEFINE S == {k \in beat .. Total : k = Total \/ t0 + k * Pulse > clock + Ahead + Pulse}
<1>1. beat \in Nat /\ beat <= Total /\ Total \in Nat /\ clock \in Nat
  BY Numbers DEF MetroTypes
<1>2. Reached(t0) \in S /\ \A k \in S : Reached(t0) <= k
  <2>1. S \in SUBSET Nat /\ S # {}
    BY <1>1
  <2>2. Min(S) \in S /\ \A k \in S : Min(S) <= k
    <3>. HIDE DEF S
    <3>. QED BY <2>1, LeastIs
  <2>. QED BY <2>2 DEF Reached
<1>3. ASSUME NEW k \in beat .. Reached(t0) - 1 PROVE t0 + k * Pulse <= clock + Ahead + Pulse
  <2>1. k \in beat .. Total /\ k \notin S
    BY <1>1, <1>2
  <2>2. ~(t0 + k * Pulse > clock + Ahead + Pulse)
    BY <2>1
  <2>3. t0 + k * Pulse \in Int /\ clock + Ahead + Pulse \in Int
    BY <1>1, Numbers
  <2>. QED BY <2>2, <2>3
<1>. QED BY <1>1, <1>2, <1>3

\* Judgeable, as the moment after which a cycle may not be answered any more.
LEMMA JudgeableIs ==
    ASSUME NEW c \in Int, anchor \in Int
    PROVE  Judgeable(c, anchor) <=> clock >= LastMoment(c) + Slack
<1>1. (c + 1) * PerCycle - 1 = c * PerCycle + (PerCycle - 1)
  BY Numbers
<1>. QED BY <1>1 DEF Judgeable, LastMoment, At, Grid

LEMMA JudgingIs ==
    ASSUME MetroTypes, NEW t0 \in Int
    PROVE  /\ Judging(t0) \in judged .. Cycles
           /\ \A c \in judged .. Judging(t0) - 1 : Judgeable(c, t0)
           /\ \A c \in Judging(t0) .. Cycles - 1 : ~Judgeable(c, t0)
<1>. DEFINE S == {c \in judged .. Cycles : c = Cycles \/ ~Judgeable(c, t0)}
<1>1. judged \in Nat /\ judged <= Cycles /\ Cycles \in Nat /\ clock \in Nat
  BY Numbers DEF MetroTypes
<1>2. Judging(t0) \in S /\ \A c \in S : Judging(t0) <= c
  <2>1. S \in SUBSET Nat /\ S # {}
    BY <1>1
  <2>2. Min(S) \in S /\ \A c \in S : Min(S) <= c
    <3>. HIDE DEF S
    <3>. QED BY <2>1, LeastIs
  <2>. QED BY <2>2 DEF Judging
<1>3. ASSUME NEW c \in judged .. Judging(t0) - 1 PROVE Judgeable(c, t0)
  BY <1>1, <1>2
<1>4. ASSUME NEW c \in Judging(t0) .. Cycles - 1 PROVE ~Judgeable(c, t0)
  <2>. DEFINE a == (Judging(t0) + 1) * PerCycle - 1
              b == (c + 1) * PerCycle - 1
  <2>1. Judging(t0) \in Int /\ c \in Int /\ Judging(t0) <= c
    BY <1>1, <1>2
  <2>2. (Judging(t0) + 1) * PerCycle <= (c + 1) * PerCycle
        /\ (Judging(t0) + 1) * PerCycle \in Int /\ (c + 1) * PerCycle \in Int
    BY <2>1, TimesGrows, Numbers
  <2>3. a * Pulse <= b * Pulse /\ a * Pulse \in Int /\ b * Pulse \in Int
    BY <2>2, TimesGrows, Numbers
  <2>4. ~(clock >= t0 + a * Pulse + Tolerance + Slack)
    BY <1>1, <1>2 DEF Judgeable
  <2>. HIDE DEF a, b
  <2>5. ~(clock >= t0 + b * Pulse + Tolerance + Slack)
    BY <1>1, <2>3, <2>4, Numbers
  <2>. QED BY <2>5 DEF Judgeable, b
<1>. QED BY <1>1, <1>2, <1>3, <1>4

\* A lap of a Bit that is not done, and the grid it keeps or sets.
LapGrid == IF anchor = Unset THEN clock + Ahead + LeadIn ELSE anchor

FiringLap(received) ==
    /\ ~done /\ clock' = clock + 1
    /\ {tap \in air : tap.at + Late <= clock} \subseteq received
    /\ air' = air \ received
    /\ Fires(Tapped(received), LapGrid)
    /\ made' = IF anchor = Unset THEN made ELSE {tap \in made : Pending(tap)}
    /\ UNCHANGED <<rotation, taps, stalls>>

LEMMA LapFacts ==
    ASSUME MetroInv, NEW received \in SUBSET air, FiringLap(received)
    PROVE  /\ anchor' = LapGrid /\ anchor' \in Nat /\ anchor' # Unset
           /\ anchor # Unset => SameGrid /\ anchor' = anchor
           /\ clock \in Nat /\ clock' = clock + 1 /\ stalls' = stalls
           /\ beat' = Reached(LapGrid) /\ beat' \in beat .. Total /\ beat \in Nat
           /\ judged' = Judging(LapGrid) /\ judged' \in judged .. Cycles /\ judged \in Nat
           /\ anchor = Unset => judged' = 0 /\ judged = 0
<1>1. MetroTypes
  BY DEF MetroInv
<1>2. LapGrid \in Nat /\ LapGrid # Unset /\ clock \in Nat
  BY <1>1, Numbers DEF MetroTypes, LapGrid, Unset
<1>3. anchor' = LapGrid /\ beat' = Reached(LapGrid) /\ judged' = Judging(LapGrid)
  BY DEF FiringLap, Fires
<1>4. anchor # Unset => SameGrid /\ anchor' = anchor
  BY <1>3 DEF FiringLap, LapGrid, SameGrid
<1>5. beat' \in beat .. Total /\ judged' \in judged .. Cycles
  BY <1>1, <1>2, <1>3, ReachedIs, JudgingIs
<1>6. beat \in Nat /\ judged \in Nat
  BY <1>1, Numbers DEF MetroTypes
<1>7. ASSUME anchor = Unset PROVE judged' = 0 /\ judged = 0
  <2>1. judged = 0
    BY <1>7 DEF MetroInv, BeforeTheGrid
  <2>2. ASSUME judged' # 0 PROVE FALSE
    <3>1. 0 \in judged .. Judging(LapGrid) - 1
      BY <1>3, <1>5, <2>1, <2>2, Numbers
    <3>2. Judgeable(0, LapGrid)
      BY <1>1, <1>2, <3>1, JudgingIs
    <3>3. (0 + 1) * PerCycle - 1 \in Nat
      BY Numbers
    <3>4. ((0 + 1) * PerCycle - 1) * Pulse \in Nat
      BY <3>3, Numbers
    <3>5. clock >= LapGrid + ((0 + 1) * PerCycle - 1) * Pulse + Tolerance + Slack
      BY <3>2 DEF Judgeable
    <3>6. LapGrid = clock + Ahead + LeadIn
      BY <1>7 DEF LapGrid
    <3>. HIDE DEF LapGrid
    <3>. QED BY <1>2, <3>4, <3>5, <3>6, Numbers, TimingAssumption
  <2>. QED BY <2>1, <2>2
<1>. QED BY <1>2, <1>3, <1>4, <1>5, <1>6, <1>7 DEF FiringLap

LEMMA LapTypes ==
    ASSUME MetroInv, NEW received \in SUBSET air, FiringLap(received)
    PROVE  MetroTypes' /\ BeforeTheGrid'
<1>1. /\ anchor' \in Nat /\ anchor' # Unset /\ clock' \in Nat
      /\ beat' \in 0 .. Total /\ judged' \in 0 .. Cycles
  BY LapFacts
<1>2. air' \subseteq Tap /\ made' \subseteq Tap
  BY DEF MetroInv, MetroTypes, FiringLap
<1>3. \A tap \in air' \cup made' : tap.at <= clock'
  <2>1. \A tap \in air \cup made : tap.at \in Nat /\ tap.at <= clock
    BY DEF MetroInv, MetroTypes, Tap
  <2>2. clock \in Nat /\ clock' = clock + 1
    BY LapFacts
  <2>3. air' \subseteq air /\ made' \subseteq made
    BY DEF FiringLap
  <2>4. \A tap \in air \cup made : tap.at <= clock + 1
    BY <2>1, <2>2
  <2>. QED BY <2>2, <2>3, <2>4
<1>4. verdicts' \in Seq(BOOLEAN) /\ Len(verdicts') <= judged'
  <2>. DEFINE won == {c \in judged .. Judging(LapGrid) - 1 : Success(Tapped(received)[c])}
  <2>1. verdicts' = [i \in 1 .. Judging(LapGrid) - judged |-> judged + i - 1 \in won]
    BY DEF FiringLap, Fires
  <2>2. Judging(LapGrid) - judged \in Nat /\ Judging(LapGrid) - judged <= judged'
    BY LapFacts
  <2>. DEFINE m == Judging(LapGrid) - judged
  <2>3. \A c : (c \in won) \in BOOLEAN
    OBVIOUS
  <2>. HIDE DEF won, m
  <2>4. verdicts' \in [1 .. m -> BOOLEAN]
    BY <2>1, <2>3 DEF m
  <2>5. m \in Nat /\ m <= judged'
    BY <2>2 DEF m
  <2>6. verdicts' \in Seq(BOOLEAN)
    BY <2>4, <2>5
  <2>7. Len(verdicts') = m
    BY <2>4, <2>5, <2>6, LenProperties
  <2>. QED BY <2>5, <2>6, <2>7
<1>5. closing' # Unset \/ done' => judged' = Cycles
  <2>1. judged = Cycles => judged' = Cycles
    BY LapFacts
  <2>2. closing # Unset => judged = Cycles
    BY DEF MetroInv, MetroTypes
  <2>3. closing' = closing \/ judged' = Cycles
    BY DEF FiringLap, Fires
  <2>4. done' => judged' = Cycles \/ closing' # Unset
    BY DEF FiringLap, Fires
  <2>. QED BY <2>1, <2>2, <2>3, <2>4
<1>6. rotation' \in Rotations /\ stalls' \in 0 .. MaxStalls
  BY DEF MetroInv, MetroTypes, FiringLap
<1>. QED BY <1>1, <1>2, <1>3, <1>4, <1>5, <1>6 DEF MetroTypes, BeforeTheGrid

\* With the taps that arrive, the phrases of the cycles still to be judged are what
\* the taps that have arrived come to.
LEMMA PhrasesHeard ==
    ASSUME MetroInv, NEW received \in SUBSET air, FiringLap(received), anchor # Unset,
           NEW c \in judged .. Cycles - 1
    PROVE  /\ Ours(made', c) = Ours(made, c)
           /\ Tapped(received)[c] = Played(Ours(made \ air', c), c)
<1>1. judged \in Nat /\ c >= judged /\ c \in 0 .. Cycles - 1
  BY LapFacts
<1>2. \A tap : tap.dev = Turn(c) /\ CycleOf(tap.at) = c => Pending(tap)
  BY <1>1 DEF Pending
<1>3. Ours(made', c) = Ours(made, c)
  BY <1>2 DEF Ours, FiringLap
<1>4. Ours(made \ air', c) = Ours(made \ air, c) \cup Ours(received, c)
  BY <1>2 DEF Ours, FiringLap, MetroInv, PhrasesAreTaps
<1>5. phrases[c] = Played(Ours(made \ air, c), c)
  BY DEF MetroInv, PhrasesAreTaps
<1>6. Tapped(received)[c] = [hits |-> phrases[c].hits \cup Played(Ours(received, c), c).hits,
                             spoiled |-> phrases[c].spoiled \/ Played(Ours(received, c), c).spoiled]
  BY <1>1 DEF Tapped, FiringLap
<1>7. Played(Ours(made \ air', c), c) =
          [hits |-> Played(Ours(made \ air, c), c).hits \cup Played(Ours(received, c), c).hits,
           spoiled |-> \/ Played(Ours(made \ air, c), c).spoiled
                       \/ Played(Ours(received, c), c).spoiled]
  BY <1>4 DEF Played
<1>. QED BY <1>3, <1>5, <1>6, <1>7

LEMMA LapPhrases ==
    ASSUME MetroInv, NEW received \in SUBSET air, FiringLap(received)
    PROVE  PhrasesAreTaps'
<1>1. /\ anchor' \in Nat /\ clock \in Nat /\ judged \in Nat /\ judged' >= judged
      /\ judged' \in Nat
  BY LapFacts
<1>2. phrases' = [c \in 0 .. Cycles - 1 |-> Open(c, Tapped(received))]
  BY DEF FiringLap, Fires
<1>3. CASE anchor = Unset
  <2>1. air \subseteq made /\ made' = made /\ air' \subseteq air
    BY <1>3 DEF MetroInv, BeforeTheGrid, FiringLap
  <2>2. judged' = 0 /\ anchor' = clock + Ahead + LeadIn
    BY <1>3, LapFacts DEF LapGrid
  <2>3. ASSUME NEW c \in judged' .. Cycles - 1
        PROVE  phrases'[c] = Played(Ours(made \ air, c), c)'
    <3>1. \A tap \in made : tap.at \in Nat /\ tap.at <= clock
      BY DEF MetroInv, MetroTypes, Tap
    <3>2. \A t \in Nat : t <= clock => CycleOf(t)' = NoCycle
      BY <1>1, <2>2, Numbers, TimingAssumption DEF CycleOf
    <3>3. Ours(made \ air, c)' = {}
      BY <2>1, <2>2, <3>1, <3>2 DEF Ours, NoCycle
    <3>4. Played(Ours(made \ air, c), c)' = Silent
      BY <3>3 DEF Played, Silent
    <3>5. c \in 0 .. Cycles - 1 /\ ~(c < judged')
      BY <2>2
    <3>6. phrases'[c] = Tapped(received)[c]
      BY <1>2, <3>5 DEF Open
    <3>7. Tapped(received)[c] = Silent
      BY <1>3, <3>5 DEF Tapped, MetroInv, BeforeTheGrid
    <3>. QED BY <3>4, <3>6, <3>7
  <2>. QED BY <2>1, <2>3 DEF PhrasesAreTaps
<1>4. CASE anchor # Unset
  <2>1. SameGrid
    BY <1>4, LapFacts
  <2>2. ASSUME NEW c \in judged' .. Cycles - 1
        PROVE  phrases'[c] = Played(Ours(made \ air, c), c)'
    <3>1. c \in judged .. Cycles - 1 /\ c \in 0 .. Cycles - 1 /\ ~(c < judged')
      BY <1>1
    <3>2. phrases'[c] = Tapped(received)[c]
      BY <1>2, <3>1 DEF Open
    <3>3. Ours(made', c) = Ours(made, c) /\ Tapped(received)[c] = Played(Ours(made \ air', c), c)
      BY <1>4, <3>1, PhrasesHeard
    <3>4. Ours(made \ air, c)' = Ours(made' \ air', c)
      BY <2>1, GridStays DEF Ours
    <3>5. Ours(made' \ air', c) = Ours(made \ air', c)
      BY <3>3 DEF Ours
    <3>6. Played(Ours(made \ air, c), c)' = Played(Ours(made \ air', c), c)
      BY <2>1, <3>4, <3>5, GridStays
    <3>. QED BY <3>2, <3>3, <3>6
  <2>3. ASSUME NEW tap \in air', Pending(tap)' PROVE tap \in made'
    <3>1. CycleOf(tap.at) >= judged' /\ tap.dev = Turn(CycleOf(tap.at))
      BY <2>1, <2>3, GridStays DEF Pending
    <3>2. CycleOf(tap.at) \in Int
      <4>1. tap \in Tap
        BY DEF FiringLap, MetroInv, MetroTypes
      <4>. QED BY <1>4, <4>1, Numbers DEF CycleOf, NoCycle, Tap, MetroInv, MetroTypes, Unset
    <3>3. Pending(tap)
      BY <1>1, <3>1, <3>2 DEF Pending
    <3>. QED BY <1>4, <3>3 DEF FiringLap, MetroInv, PhrasesAreTaps
  <2>. QED BY <2>2, <2>3 DEF PhrasesAreTaps
<1>. QED BY <1>3, <1>4

\* The verdicts of a lap are those on the cycles from judged up to judged'.
LEMMA LapVerdicts ==
    ASSUME MetroInv, NEW received \in SUBSET air, FiringLap(received)
    PROVE  /\ Len(verdicts') = judged' - judged /\ DOMAIN verdicts' = 1 .. judged' - judged
           /\ \A c \in judged .. judged' - 1 :
                  verdicts'[c - judged + 1] = Success(Tapped(received)[c])
<1>1. judged \in Nat /\ judged' \in judged .. Cycles /\ judged' = Judging(LapGrid)
  BY LapFacts
<1>. DEFINE won == {c \in judged .. judged' - 1 : Success(Tapped(received)[c])}
<1>2. verdicts' = [i \in 1 .. judged' - judged |-> judged + i - 1 \in won]
  BY <1>1 DEF FiringLap, Fires
<1>3. judged' - judged \in Nat
  BY <1>1, Numbers
<1>4. DOMAIN verdicts' = 1 .. judged' - judged /\ Len(verdicts') = judged' - judged
  BY <1>2, <1>3
<1>5. ASSUME NEW c \in judged .. judged' - 1
      PROVE  verdicts'[c - judged + 1] = Success(Tapped(received)[c])
  <2>1. c - judged + 1 \in 1 .. judged' - judged /\ judged + (c - judged + 1) - 1 = c
    BY <1>1
  <2>2. verdicts'[c - judged + 1] = (c \in won)
    BY <1>2, <2>1
  <2>3. (c \in won) <=> Success(Tapped(received)[c])
    OBVIOUS
  <2>4. Success(Tapped(received)[c]) \in BOOLEAN
    BY Zenon DEF Success
  <2>5. (c \in won) = Success(Tapped(received)[c])
    <3>. HIDE DEF won
    <3>. QED BY <2>3, <2>4
  <2>. QED BY <2>2, <2>5
<1>. QED BY <1>4, <1>5

LEMMA LapInTime ==
    ASSUME MetroInv, NEW received \in SUBSET air, FiringLap(received)
    PROVE  JudgedInTime' /\ BeatsInTime'
<1>1. /\ anchor' = LapGrid /\ anchor' \in Nat
      /\ clock \in Nat /\ clock' = clock + 1 /\ stalls' = stalls
      /\ judged \in Nat /\ judged' = Judging(LapGrid) /\ judged' \in judged .. Cycles
      /\ beat \in Nat /\ beat' = Reached(LapGrid) /\ beat' \in beat .. Total
  BY LapFacts
<1>2. stalls \in Nat /\ MetroTypes
  BY DEF MetroInv, MetroTypes
<1>3. \A c \in Int : Judgeable(c, LapGrid) <=> clock >= LastMoment(c)' + Slack
  <2>. SUFFICES ASSUME NEW c \in Int
                PROVE  Judgeable(c, LapGrid) <=> clock >= LastMoment(c)' + Slack
    OBVIOUS
  <2>1. (c + 1) * PerCycle - 1 = c * PerCycle + (PerCycle - 1)
    BY Numbers
  <2>. QED BY <1>1, <2>1 DEF Judgeable, LastMoment, At, Grid
<1>4. \A c \in Int : LastMoment(c)' \in Int
  <2>. SUFFICES ASSUME NEW c \in Int PROVE LastMoment(c)' \in Int
    OBVIOUS
  <2>1. (c * PerCycle + (PerCycle - 1)) * Pulse \in Int
    BY Numbers
  <2>. QED BY <1>1, <2>1, Numbers DEF LastMoment, At, Grid
<1>5. ASSUME NEW c \in judged' .. Cycles - 1
      PROVE  clock' - 1 - stalls' < LastMoment(c)' + Slack
  <2>1. ~Judgeable(c, LapGrid)
    BY <1>1, <1>2, JudgingIs
  <2>. QED BY <1>1, <1>2, <1>3, <1>4, <2>1, Numbers
<1>6. ASSUME NEW c \in judged .. judged' - 1 PROVE LastMoment(c)' < clock'
  <2>1. Judgeable(c, LapGrid)
    BY <1>1, <1>2, JudgingIs
  <2>2. clock >= LastMoment(c)' + Slack /\ LastMoment(c)' \in Int
    BY <1>3, <1>4, <2>1
  <2>. QED BY <1>1, <2>2, Numbers
<1>9. ASSUME NEW i \in DOMAIN verdicts'
      PROVE  LastMoment(judged - Len(verdicts) + i - 1)' < clock'
  <2>1. i \in 1 .. judged' - judged /\ Len(verdicts') = judged' - judged
    BY <1>9, LapVerdicts
  <2>2. judged' - Len(verdicts') + i - 1 \in judged .. judged' - 1
    BY <1>1, <2>1
  <2>. QED BY <1>6, <2>2
<1>7. JudgedInTime'
  BY <1>5, <1>9 DEF JudgedInTime
<1>8. BeatsInTime'
  <2>. SUFFICES ASSUME beat' > 0 PROVE Grid(beat - 1)' <= clock' + Ahead + Pulse
    BY DEF BeatsInTime
  <2>1. CASE beat' > beat
    <3>1. beat' - 1 \in beat .. Reached(LapGrid) - 1
      BY <1>1, <2>1
    <3>2. LapGrid + (beat' - 1) * Pulse <= clock + Ahead + Pulse
      BY <1>1, <1>2, <3>1, ReachedIs
    <3>3. (beat' - 1) * Pulse \in Int
      BY <1>1, Numbers
    <3>. QED BY <1>1, <3>2, <3>3, Numbers DEF Grid
  <2>2. CASE beat' = beat
    <3>1. anchor # Unset
      BY <2>2 DEF MetroInv, BeforeTheGrid
    <3>2. anchor' = anchor /\ Grid(beat - 1) <= clock + Ahead + Pulse
      BY <2>2, <3>1, LapFacts DEF MetroInv, BeatsInTime
    <3>3. (beat - 1) * Pulse \in Int
      BY <1>1, Numbers
    <3>. QED BY <1>1, <2>2, <3>2, <3>3, Numbers DEF Grid
  <2>. QED BY <1>1, <2>1, <2>2
<1>. QED BY <1>7, <1>8

LEMMA LapIsFair ==
    ASSUME MetroInv, NEW received \in SUBSET air, FiringLap(received)
    PROVE  JudgedFairly'
<1>1. /\ judged \in Nat /\ judged' \in judged .. Cycles /\ clock \in Nat
      /\ judged' = Judging(LapGrid) /\ MetroTypes /\ Cycles \in Nat
  BY LapFacts, Numbers DEF MetroInv
<1>2. ASSUME NEW c \in judged .. judged' - 1, NEW verdict, verdict = verdicts'[c - judged + 1]
      PROVE  FairTo(c, verdict)'
  <2>1. c \in Int /\ c \in judged .. Cycles - 1
    BY <1>1
  <2>2. anchor # Unset
    BY <1>1, <1>2, LapFacts
  <2>3. SameGrid /\ anchor \in Int /\ LapGrid = anchor
    BY <2>2, LapFacts DEF LapGrid, MetroInv, MetroTypes
  <2>4. verdict = Success(Played(Ours(made \ air', c), c)) /\ Ours(made', c) = Ours(made, c)
    BY <1>2, <2>1, <2>2, LapVerdicts, PhrasesHeard
  <2>5. Ours(made \ air', c) \in SUBSET Ours(made, c)
    BY DEF Ours
  <2>6. \A tap \in Ours(made, c) : tap.at \in Int
    BY <1>1 DEF Ours, MetroTypes, Tap
  <2>7. ASSUME NEW tap \in Ours(made, c) \ Ours(made \ air', c) PROVE tap.at > LastMoment(c)
    <3>1. tap \in air' /\ tap.at \in Int
      BY <2>6 DEF Ours
    <3>2. ~(tap.at + Late <= clock)
      BY <3>1 DEF FiringLap
    <3>3. clock >= LastMoment(c) + Slack
      BY <1>1, <2>1, <2>3, JudgingIs, JudgeableIs
    <3>4. LastMoment(c) \in Int
      BY <2>1, <2>3, AtIs
    <3>. QED BY <1>1, <3>1, <3>2, <3>3, <3>4, Numbers, TimingAssumption
  <2>8. Mine(c)' = Mine(c)
    BY <2>3, <2>4, GridStays DEF Mine, Ours
  <2>9. FairTo(c, verdict)
    <3>1. LET played == Played(Ours(made \ air', c), c)
              times == {tap.at : tap \in Ours(made, c)}
              answered == \A p \in Answers : \E t \in times : Off(t, c, p) <= Tolerance
          IN  /\ Success(played) => answered /\ \A t \in times : OnBeat(t, c) \/ t > LastMoment(c)
              /\ answered /\ (\A t \in times : OnBeat(t, c)) => Success(played)
      BY <2>1, <2>3, <2>5, <2>6, <2>7, PhraseIsFair
    <3>. QED BY <2>4, <3>1, Zenon DEF FairTo, Answered, Mine
  <2>. QED BY <2>8, <2>9, <2>3, GridStays DEF FairTo, Answered
<1>3. ASSUME NEW i \in DOMAIN verdicts'
      PROVE  FairTo(judged - Len(verdicts) + i - 1, verdicts[i])'
  <2>1. i \in 1 .. judged' - judged /\ Len(verdicts') = judged' - judged
    BY <1>3, LapVerdicts
  <2>2. /\ judged' - Len(verdicts') + i - 1 \in judged .. judged' - 1
        /\ (judged' - Len(verdicts') + i - 1) - judged + 1 = i
    <3>1. i \in Int /\ judged' \in Int /\ 1 <= i /\ i <= judged' - judged
      BY <1>1, <2>1
    <3>2. judged' - Len(verdicts') + i - 1 = judged + i - 1
      BY <1>1, <2>1, <3>1
    <3>3. judged + i - 1 \in judged .. judged' - 1 /\ (judged + i - 1) - judged + 1 = i
      BY <1>1, <3>1
    <3>. QED BY <3>2, <3>3
  <2>. QED BY <1>2, <2>2
<1>. QED BY <1>3, Zenon DEF JudgedFairly, FairTo

\* When beat k goes out the player of its cycle is back: with the cycle's first
\* beat, in this lap or before it.
LEMMA PlayerIsBack ==
    ASSUME MetroInv, Len(rotation) > 1, NEW k \in Nat, NEW c \in Nat, k >= beat \/ k = beat - 1,
           c * PerCycle <= k, k < c * PerCycle + PerCycle,
           k = beat - 1 => k + 1 < c * PerCycle + PerCycle
    PROVE  Turn(c) \notin failed \ Brought(k)
<1>1. beat \in Nat /\ c * PerCycle \in Nat
  BY Numbers DEF MetroInv, MetroTypes
<1>2. CASE c * PerCycle >= beat
  <2>1. (c * PerCycle) % PerCycle = 0 /\ (c * PerCycle) \div PerCycle = c
    BY <1>1, CycleOfBeat, Numbers
  <2>2. Back(c * PerCycle) = {Turn(c)}
    BY <2>1 DEF Back
  <2>3. c * PerCycle \in beat .. k
    BY <1>1, <1>2
  <2>. QED BY <2>2, <2>3 DEF Brought
<1>3. CASE c * PerCycle < beat
  <2>1. beat \div PerCycle = c /\ beat % PerCycle # 0
    BY <1>1, <1>3, CycleOfBeat, Numbers
  <2>. QED BY <2>1 DEF MetroInv, TurnIsBack
<1>. QED BY <1>1, <1>2, <1>3

\* A cycle is judged before its player's next one begins.
LEMMA JudgedBeforeItsNext ==
    ASSUME MetroInv, NEW received \in SUBSET air, FiringLap(received), Len(rotation) > 1,
           NEW j \in judged .. judged' - 1, NEW c \in Nat,
           c * PerCycle < beat', beat' < c * PerCycle + PerCycle
    PROVE  Turn(j) # Turn(c)
<1>1. /\ clock \in Nat /\ judged \in Nat /\ judged' \in judged .. Cycles /\ judged' = Judging(LapGrid)
      /\ beat \in Nat /\ beat' = Reached(LapGrid) /\ beat' \in beat .. Total
      /\ Cycles \in Nat /\ Total \in Nat /\ beat' \in Nat
  BY LapFacts, Numbers
<1>2. j \in Nat /\ j \in judged .. Cycles - 1
  BY <1>1
<1>3. anchor # Unset
  BY <1>1, <1>2, LapFacts
<1>4. anchor \in Int /\ LapGrid = anchor /\ MetroTypes /\ stalls \in Nat /\ stalls <= MaxStalls
  BY <1>3, Numbers DEF LapGrid, MetroInv, MetroTypes
<1>5. clock >= LastMoment(j) + Slack /\ clock - 1 - stalls < LastMoment(j) + Slack
  <2>1. Judgeable(j, anchor)
    BY <1>1, <1>4, JudgingIs
  <2>2. clock >= LastMoment(j) + Slack
    BY <1>2, <1>4, <2>1, JudgeableIs
  <2>. QED BY <1>2, <1>3, <2>2 DEF MetroInv, JudgedInTime
<1>. DEFINE last == At(j, PerCycle - 1)
<1>6. last \in Int /\ LastMoment(j) = last + Tolerance
  BY <1>2, <1>4, AtIs, Numbers DEF LastMoment
<1>7. c * PerCycle \in Nat /\ (j + 1) * PerCycle \in Nat /\ (j + 2) * PerCycle \in Nat
  BY <1>2, Numbers
<1>8. beat' < Total
  <2>1. beat' \in Nat /\ c * PerCycle \in Nat
    BY <1>1, <1>7
  <2>2. c * PerCycle <= beat'
    BY <2>1
  <2>3. beat' % PerCycle = beat' - c * PerCycle
    BY <2>1, <2>2, CycleOfBeat
  <2>4. beat' % PerCycle # 0
    BY <2>1, <2>3
  <2>. QED BY <1>1, <2>4, WholeCycle
<1>9. Grid((j + 1) * PerCycle) = last + Pulse
  <2>1. (j + 1) * PerCycle = j * PerCycle + (PerCycle - 1) + 1
    BY <1>2, Numbers
  <2>2. (j * PerCycle + (PerCycle - 1) + 1) * Pulse = (j * PerCycle + (PerCycle - 1)) * Pulse + Pulse
        /\ (j * PerCycle + (PerCycle - 1)) * Pulse \in Int
    BY <1>2, Numbers
  <2>. QED BY <1>4, <2>1, <2>2, Numbers DEF Grid, At
<1>10. Grid((j + 2) * PerCycle) = last + Pulse + PerCycle * Pulse /\ PerCycle * Pulse \in Nat
  <2>1. (j + 2) * PerCycle = (j + 1) * PerCycle + PerCycle
    BY <1>2, Numbers
  <2>2. ((j + 1) * PerCycle + PerCycle) * Pulse = ((j + 1) * PerCycle) * Pulse + PerCycle * Pulse
        /\ ((j + 1) * PerCycle) * Pulse \in Int /\ PerCycle * Pulse \in Nat
    BY <1>7, Numbers
  <2>. QED BY <1>4, <1>6, <1>9, <2>1, <2>2, Numbers DEF Grid
<1>11. c > j
  <2>1. Grid(beat') > clock + Ahead + Pulse
    BY <1>1, <1>4, <1>8, ReachedIs DEF Grid
  <2>2. Grid(beat') > Grid((j + 1) * PerCycle) /\ Grid(beat') \in Int
    <3>1. Grid(beat') \in Int
      BY <1>1, <1>4, Numbers DEF Grid
    <3>2. clock >= last
      <4>1. clock \in Int /\ last \in Int /\ clock >= last + Tolerance + Slack
        BY <1>1, <1>5, <1>6
      <4>. HIDE DEF last
      <4>. QED BY <4>1, Numbers
    <3>3. Grid(beat') > last + Pulse
      <4>1. clock \in Int /\ last \in Int /\ Ahead \in Nat /\ Pulse \in Int
        BY <1>1, <1>6, Numbers
      <4>. HIDE DEF last
      <4>. QED BY <2>1, <3>1, <3>2, <4>1
    <3>. QED BY <1>9, <3>1, <3>3
  <2>3. ~(beat' <= (j + 1) * PerCycle)
    <3>1. ASSUME beat' <= (j + 1) * PerCycle PROVE Grid(beat') <= Grid((j + 1) * PerCycle)
      <4>1. /\ beat' * Pulse <= ((j + 1) * PerCycle) * Pulse
            /\ beat' * Pulse \in Int /\ ((j + 1) * PerCycle) * Pulse \in Int
        BY <1>1, <1>7, <3>1, TimesGrows, Numbers
      <4>. QED BY <1>4, <4>1 DEF Grid
    <3>2. Grid((j + 1) * PerCycle) \in Int
      BY <1>6, <1>9, Numbers
    <3>. QED BY <2>2, <3>1, <3>2
  <2>4. ~(c <= j)
    <3>1. ASSUME c <= j PROVE (c + 1) * PerCycle <= (j + 1) * PerCycle
      BY <1>2, <3>1, TimesGrows, Numbers
    <3>2. (c + 1) * PerCycle = c * PerCycle + PerCycle
      BY Numbers
    <3>. QED BY <1>1, <1>7, <2>3, <3>1, <3>2, Numbers
  <2>. QED BY <1>2, <2>4
<1>12. SUFFICES ASSUME Turn(j) = Turn(c) PROVE FALSE
  OBVIOUS
<1>13. c >= j + 2
  BY <1>2, <1>4, <1>11, <1>12, TurnsApart DEF MetroTypes
<1>14. Grid(c * PerCycle) >= Grid((j + 2) * PerCycle) /\ Grid(c * PerCycle) \in Int
  <2>1. (j + 2) * PerCycle <= c * PerCycle
    BY <1>2, <1>13, TimesGrows, Numbers
  <2>2. /\ ((j + 2) * PerCycle) * Pulse <= (c * PerCycle) * Pulse
        /\ ((j + 2) * PerCycle) * Pulse \in Int /\ (c * PerCycle) * Pulse \in Int
    BY <1>7, <2>1, TimesGrows, Numbers
  <2>. QED BY <1>4, <2>2 DEF Grid
<1>15. Grid(c * PerCycle) <= clock + Ahead + Pulse
  <2>. DEFINE first == c * PerCycle
  <2>1. first \in Nat /\ first \in Int /\ first < beat' /\ beat' \in Int /\ beat \in Int
    BY <1>1, <1>7
  <2>. HIDE DEF first
  <2>2. CASE beat <= first
    <3>1. first \in beat .. beat' - 1
      BY <2>1, <2>2, Between, Zenon
    <3>. QED BY <1>1, <1>4, <3>1, ReachedIs DEF Grid, first
  <2>3. CASE first < beat
    <3>1. first * Pulse <= (beat - 1) * Pulse
          /\ first * Pulse \in Int /\ (beat - 1) * Pulse \in Int
      BY <2>1, <2>3, TimesGrows, Numbers
    <3>2. beat > 0
      BY <2>1, <2>3
    <3>3. Grid(beat - 1) <= clock + Ahead + Pulse
      BY <1>3, <3>2 DEF MetroInv, BeatsInTime
    <3>4. Grid(first) <= Grid(beat - 1) /\ Grid(first) \in Int /\ Grid(beat - 1) \in Int
      BY <1>4, <3>1 DEF Grid
    <3>5. Grid(first) <= clock + Ahead + Pulse
      BY <1>1, <3>3, <3>4, Numbers
    <3>. QED BY <3>5 DEF first
  <2>. QED BY <2>1, <2>2, <2>3
<1>. DEFINE cycle == PerCycle * Pulse
<1>16. cycle \in Nat /\ MaxStalls + 1 + Tolerance + Slack + Ahead <= cycle
  BY <1>10, TimingAssumption
<1>17. last + Pulse + cycle <= Grid(c * PerCycle)
  BY <1>10, <1>14
<1>18. /\ last \in Int /\ clock \in Int /\ stalls \in Int /\ stalls <= MaxStalls
       /\ Grid(c * PerCycle) \in Int /\ clock - 1 - stalls < last + Tolerance + Slack
  BY <1>1, <1>4, <1>5, <1>6, <1>14
<1>. HIDE DEF last, cycle
<1>19. last + cycle <= clock + Ahead
  BY <1>15, <1>16, <1>17, <1>18, Numbers
<1>20. clock < last + Tolerance + Slack + 1 + MaxStalls
  BY <1>18, Numbers
<1>. QED BY <1>16, <1>18, <1>19, <1>20, Numbers

LEMMA LapIsLit ==
    ASSUME MetroInv, NEW received \in SUBSET air, FiringLap(received)
    PROVE  TurnIsBack' /\ TurnIsLit'
<1>1. /\ judged \in Nat /\ judged' \in judged .. Cycles /\ judged' = Judging(LapGrid)
      /\ beat \in Nat /\ beat' = Reached(LapGrid) /\ beat' \in beat .. Total /\ Total \in Nat
      /\ rotation' = rotation
  BY LapFacts, Numbers DEF FiringLap
<1>2. ASSUME Len(rotation) > 1 PROVE dark' = {}
  <2>1. dark = {}
    BY <1>2 DEF MetroInv, CyclesAreFair, TurnIsLit
  <2>2. ASSUME NEW k \in beat .. beat' - 1 PROVE Turn(k \div PerCycle) \notin failed \ Brought(k)
    <3>1. k \in Nat /\ k >= beat
      BY <1>1
    <3>2. /\ k \div PerCycle \in Nat /\ (k \div PerCycle) * PerCycle <= k
          /\ k < (k \div PerCycle) * PerCycle + PerCycle /\ k # beat - 1
      BY <1>1, <3>1, CycleIs
    <3>. QED BY <1>2, <3>1, <3>2, PlayerIsBack
  <2>3. dark' = dark \cup {k \div PerCycle :
                    k \in {k \in beat .. beat' - 1 : Turn(k \div PerCycle) \in failed \ Brought(k)}}
    BY <1>1 DEF FiringLap, Fires
  <2>. QED BY <2>1, <2>2, <2>3
<1>3. ASSUME Len(rotation) > 1, beat' % PerCycle # 0
      PROVE  Turn(beat' \div PerCycle) \notin failed'
  <2>. DEFINE c == beat' \div PerCycle
  <2>1. /\ c \in Nat /\ c * PerCycle \in Nat
        /\ c * PerCycle < beat' /\ beat' < c * PerCycle + PerCycle
    <3>1. beat' \in Nat
      BY <1>1
    <3>2. /\ c \in Nat /\ c * PerCycle \in Nat /\ c * PerCycle <= beat'
          /\ beat' < c * PerCycle + PerCycle /\ beat' % PerCycle = beat' - c * PerCycle
      BY <3>1, CycleIs
    <3>. QED BY <1>3, <3>1, <3>2
  <2>. HIDE DEF c
  <2>2. Turn(c) \notin failed \ Brought(beat' - 1)
    <3>1. beat' - 1 \in Nat /\ (beat' - 1 >= beat \/ beat' - 1 = beat - 1)
      BY <1>1, <2>1
    <3>2. c * PerCycle <= beat' - 1 /\ beat' - 1 < c * PerCycle + PerCycle
          /\ (beat' - 1) + 1 < c * PerCycle + PerCycle
      BY <1>1, <2>1, Numbers
    <3>. QED BY <1>3, <2>1, <3>1, <3>2, PlayerIsBack
  <2>3. \A j \in judged .. judged' - 1 : Turn(j) # Turn(c)
    BY <1>3, <2>1, JudgedBeforeItsNext
  <2>4. failed' \subseteq (failed \ Brought(beat' - 1)) \cup {Turn(j) : j \in judged .. judged' - 1}
    BY <1>1 DEF FiringLap, Fires
  <2>5. Turn(c) \notin failed'
    BY <2>2, <2>3, <2>4
  <2>. QED BY <2>5 DEF c
<1>4. \A c : Turn(c)' = Turn(c)
  BY <1>1 DEF Turn
<1>. QED BY <1>1, <1>2, <1>3, <1>4 DEF TurnIsBack, TurnIsLit

LEMMA FiringLapKeeps ==
    ASSUME MetroInv, NEW received \in SUBSET air, FiringLap(received)
    PROVE  MetroInv'
<1>1. MetroTypes' /\ BeforeTheGrid'
  BY LapTypes
<1>2. PhrasesAreTaps'
  BY LapPhrases
<1>3. JudgedInTime' /\ BeatsInTime'
  BY LapInTime
<1>4. TurnIsBack' /\ CyclesAreFair'
  BY LapIsFair, LapIsLit DEF CyclesAreFair
<1>. QED BY <1>1, <1>2, <1>3, <1>4 DEF MetroInv

\* Once it is done there is nothing to judge and nothing more to send.
LEMMA LastLapKeeps ==
    ASSUME MetroInv, MetroLap, done
    PROVE  MetroInv'
<1>1. /\ judged = Cycles /\ judged' = judged /\ verdicts' = <<>> /\ SameGrid
      /\ clock \in Nat /\ clock' = clock + 1 /\ stalls' = stalls /\ anchor # Unset /\ anchor \in Int
      /\ beat' = beat /\ failed' = failed /\ dark' = dark /\ beat \in Nat /\ Cycles \in Nat
      /\ made' = {tap \in made : Pending(tap)} /\ air' \subseteq air
      /\ UNCHANGED <<rotation, anchor, closing, done>>
  BY Numbers DEF MetroInv, MetroTypes, BeforeTheGrid, MetroLap, SameGrid, Unset
<1>2. MetroTypes'
  <2>1. \A tap \in air \cup made : tap.at \in Nat /\ tap.at <= clock
    BY DEF MetroInv, MetroTypes, Tap
  <2>2. \A tap \in air \cup made : tap.at <= clock + 1
    BY <1>1, <2>1
  <2>3. verdicts' \in Seq(BOOLEAN) /\ Len(verdicts') = 0
    BY <1>1
  <2>. QED BY <1>1, <2>2, <2>3 DEF MetroInv, MetroTypes
<1>3. PhrasesAreTaps'
  <2>1. ASSUME NEW tap \in air', Pending(tap)' PROVE tap \in made'
    <3>1. Pending(tap)
      BY <1>1, <2>1, GridStays DEF Pending
    <3>. QED BY <1>1, <3>1 DEF MetroInv, PhrasesAreTaps
  <2>2. judged' .. Cycles - 1 = {}
    BY <1>1
  <2>. QED BY <2>1, <2>2 DEF PhrasesAreTaps
<1>4. JudgedInTime'
  BY <1>1 DEF JudgedInTime
<1>5. BeatsInTime'
  <2>1. beat > 0 => Grid(beat - 1) <= clock + Ahead + Pulse
    BY <1>1 DEF MetroInv, BeatsInTime
  <2>2. Grid(beat - 1) \in Int
    BY <1>1, Numbers DEF Grid
  <2>3. Grid(beat - 1)' = Grid(beat - 1)
    BY <1>1 DEF Grid
  <2>. QED BY <1>1, <2>1, <2>2, <2>3, Numbers DEF BeatsInTime
<1>6. BeforeTheGrid' /\ TurnIsBack' /\ CyclesAreFair'
  BY <1>1 DEF MetroInv, BeforeTheGrid, TurnIsBack, Turn, CyclesAreFair, JudgedFairly, TurnIsLit
<1>. QED BY <1>2, <1>3, <1>4, <1>5, <1>6 DEF MetroInv

LEMMA MetroKeeps == MetroInv /\ [MetroNext]_metroVars => MetroInv'
<1>. SUFFICES ASSUME MetroInv, [MetroNext]_metroVars PROVE MetroInv'
  OBVIOUS
<1>1. CASE MetroLap
  <2>1. CASE done
    BY <1>1, <2>1, LastLapKeeps
  <2>2. CASE ~done
    <3>1. PICK received \in SUBSET air : FiringLap(received)
      BY <1>1, <2>2 DEF MetroLap, FiringLap, LapGrid
    <3>. QED BY <3>1, FiringLapKeeps
  <2>. QED BY <2>1, <2>2
<1>2. CASE Stall
  BY <1>2, StallKeeps
<1>3. ASSUME NEW d \in Drummer, PlayerTaps(d) PROVE MetroInv'
  BY <1>3, TapKeeps
<1>4. CASE UNCHANGED metroVars
  <2>1. SameGrid
    BY <1>4 DEF metroVars, SameGrid
  <2>2. PhrasesAreTaps'
    BY <1>4, <2>1, GridStays DEF metroVars, MetroInv, PhrasesAreTaps, Pending
  <2>3. JudgedInTime' /\ BeatsInTime'
    BY <1>4, <2>1, GridStays DEF metroVars, MetroInv, JudgedInTime, BeatsInTime
  <2>4. MetroTypes' /\ BeforeTheGrid' /\ TurnIsBack'
    BY <1>4 DEF metroVars, MetroInv, MetroTypes, BeforeTheGrid, TurnIsBack, Turn
  <2>5. CyclesAreFair'
    BY <1>4, <2>1, FairnessStays DEF metroVars
  <2>. QED BY <2>2, <2>3, <2>4, <2>5 DEF MetroInv
<1>. QED BY <1>1, <1>2, <1>3, <1>4 DEF MetroNext

\* Every cycle is judged by what its player played, whatever the taps' delays and
\* the driver's stalls, and shown to the player in whole
\* (bits/metronome/metronome_bit.py: fires, _on_tap, _beat_fires), at any tempo that
\* keeps to TimingAssumption.
THEOREM CyclesStayFair == MetroSpec => []CyclesAreFair
<1>1. MetroInv => CyclesAreFair
  BY DEF MetroInv
<1>. QED BY <1>1, MetroStarts, MetroKeeps, PTL DEF MetroSpec

=============================================================================
