-------------------------- MODULE DeviceLinkProofs --------------------------
(***************************************************************************)
(* What DeviceLink.tla keeps for every number of devices and roles, every   *)
(* length of a fade and of a stream, and with every accident.              *)
(***************************************************************************)
EXTENDS DeviceLink, TLAPS

\* The streams and the record of what was lost on them are well formed.
StreamsOK ==
    /\ down \in [Dev -> Seq(Msg)]
    /\ \A d \in Dev : Len(down[d]) <= MaxDown
    /\ missed \subseteq Dev

\* send keeps the streams well formed: it appends at most one message to each
\* while none is full.
LEMMA SendTypes ==
    ASSUME StreamsOK, Slack, NEW D \in SUBSET Dev, NEW m, NEW c,
           \A d \in D : m[d] \in Msg,
           Send(D, m, c)
    PROVE  StreamsOK'
<1>1. ASSUME NEW d \in Dev
      PROVE  /\ down'[d] \in Seq(Msg)
             /\ Len(down'[d]) <= MaxDown
  <2>1. /\ down[d] \in Seq(Msg)
        /\ Len(down[d]) < MaxDown /\ Len(down[d]) \in Nat
        /\ MaxDown \in Nat
    BY DeviceLinkAssumption DEF StreamsOK, Slack, DeviceLinkAssumption
  <2>2. CASE d \in D \cap c \cap link
    <3>1. down'[d] = Append(down[d], m[d]) /\ m[d] \in Msg
      BY <2>2 DEF Send
    <3>2. /\ Append(down[d], m[d]) \in Seq(Msg)
          /\ Len(Append(down[d], m[d])) = Len(down[d]) + 1
      BY <2>1, <3>1
    <3> QED
      BY <2>1, <3>1, <3>2
  <2>3. CASE d \notin D \cap c \cap link
    BY <2>1, <2>3 DEF Send
  <2> QED
    BY <2>2, <2>3
<1>2. missed' \subseteq Dev
  BY DEF Send, StreamsOK
<1>3. down' = [d \in Dev |-> down'[d]]
  BY DEF Send
<1> QED
  BY <1>1, <1>2, <1>3 DEF StreamsOK

\* The messages are messages.
LEMMA MsgTypes ==
    /\ ReleaseMsg \in Msg
    /\ HandshakeMsg \in Msg
    /\ \A r \in Role : RoleMsg(r) \in Msg
<1>1. \A r \in Role : RoleMsg(r) \in [verb : {"role"}, role : Role]
  BY DEF RoleMsg
<1> QED
  BY <1>1 DEF Msg

\* A grant keeps the agent's types.
LEMMA OnGrantTypes ==
    ASSUME TypeOK, Slack, NEW D \in SUBSET Dev, NEW r \in [D -> Role],
           NEW built \in Buildable(D), NEW marks \in SUBSET Dev, NEW c,
           OnGrant(D, r, built, marks, c)
    PROVE  /\ told' \in [Dev -> Role \cup {None}]
           /\ bridge' \subseteq Dev /\ revived' \subseteq Dev
           /\ closing' \in [Dev -> {NotClosing} \cup 0 .. (MaxClosing - 1)]
           /\ StreamsOK'
<1>1. built \subseteq D
  BY DEF Buildable
<1>2. told' \in [Dev -> Role \cup {None}]
  BY DEF OnGrant, TypeOK
<1>3. bridge' \subseteq Dev /\ revived' \subseteq Dev
  BY <1>1 DEF OnGrant, TypeOK
<1>4. closing' \in [Dev -> {NotClosing} \cup 0 .. (MaxClosing - 1)]
  BY DEF OnGrant, TypeOK
<1>5. Send(built, [d \in built |-> RoleMsg(r[d])], c)
  BY DEF OnGrant
<1>6. \A d \in built : [e \in built |-> RoleMsg(r[e])][d] \in Msg
  BY <1>1, MsgTypes
<1>7. StreamsOK
  BY DEF TypeOK, StreamsOK
<1>8. built \in SUBSET Dev
  BY <1>1
<1>9. StreamsOK'
  BY <1>5, <1>6, <1>7, <1>8, SendTypes
<1> QED
  BY <1>2, <1>3, <1>4, <1>9

\* So does a release.
LEMMA OnReleaseTypes ==
    ASSUME TypeOK, Slack, NEW D \in SUBSET Dev, OnRelease(D)
    PROVE  /\ revived' \subseteq Dev
           /\ closing' \in [Dev -> {NotClosing} \cup 0 .. (MaxClosing - 1)]
           /\ StreamsOK'
<1>1. 0 \in 0 .. (MaxClosing - 1)
  BY DeviceLinkAssumption DEF DeviceLinkAssumption
<1>2. closing' \in [Dev -> {NotClosing} \cup 0 .. (MaxClosing - 1)]
  BY <1>1 DEF OnRelease, TypeOK
<1>3. revived' \subseteq Dev
  BY DEF OnRelease, TypeOK
<1>4. Send(D \ bridge, [d \in D \ bridge |-> ReleaseMsg], conn)
  BY DEF OnRelease
<1>5. \A d \in D \ bridge : [e \in D \ bridge |-> ReleaseMsg][d] \in Msg
  BY MsgTypes
<1>6. StreamsOK
  BY DEF TypeOK, StreamsOK
<1>7. D \ bridge \in SUBSET Dev
  OBVIOUS
<1>8. StreamsOK'
  BY <1>4, <1>5, <1>6, <1>7, SendTypes
<1> QED
  BY <1>2, <1>3, <1>8

\* And the end of a fade, or one more render of it.
LEMMA RenderTypes ==
    ASSUME TypeOK, Slack, NEW d \in Fading, StillClosing(d) \/ FinishRelease(d)
    PROVE  /\ bridge' \subseteq Dev /\ revived' \subseteq Dev /\ conn' \subseteq Dev
           /\ closing' \in [Dev -> {NotClosing} \cup 0 .. (MaxClosing - 1)]
           /\ StreamsOK'
<1>1. d \in Dev /\ closing[d] \in 0 .. (MaxClosing - 1) /\ MaxClosing \in Nat
  BY DeviceLinkAssumption DEF Fading, TypeOK, DeviceLinkAssumption
<1>2. CASE StillClosing(d)
  <2>1. closing[d] + 1 \in 0 .. (MaxClosing - 1)
    BY <1>1, <1>2 DEF StillClosing
  <2>2. closing' \in [Dev -> {NotClosing} \cup 0 .. (MaxClosing - 1)]
    BY <1>1, <1>2, <2>1 DEF StillClosing, TypeOK
  <2> QED
    BY <1>2, <2>2 DEF StillClosing, TypeOK, StreamsOK
<1>3. CASE FinishRelease(d)
  <2>1. /\ bridge' \subseteq Dev /\ revived' \subseteq Dev /\ conn' \subseteq Dev
        /\ closing' \in [Dev -> {NotClosing} \cup 0 .. (MaxClosing - 1)]
    BY <1>1, <1>3 DEF FinishRelease, TypeOK
  <2>2. Send({d}, [e \in {d} |-> ReleaseMsg], conn)
    BY <1>3 DEF FinishRelease
  <2>3. \A e \in {d} : [x \in {d} |-> ReleaseMsg][e] \in Msg
    BY MsgTypes
  <2>4. StreamsOK
    BY DEF TypeOK, StreamsOK
  <2>5. StreamsOK'
    BY <1>1, <2>2, <2>3, <2>4, SendTypes
  <2> QED
    BY <2>1, <2>5
<1> QED
  BY <1>2, <1>3

\* What a device receives is a message, and shortens its stream.
LEMMA ReceiveTypes ==
    ASSUME TypeOK, NEW d \in Dev, Receive(d)
    PROVE  /\ devRole' \in [Dev -> Role \cup {None}]
           /\ devReleased' \subseteq Dev
           /\ StreamsOK'
<1>1. /\ down[d] \in Seq(Msg) /\ down[d] # <<>>
      /\ Len(down[d]) \in Nat /\ Len(down[d]) <= MaxDown /\ MaxDown \in Nat
  BY DeviceLinkAssumption DEF TypeOK, Receive, DeviceLinkAssumption
<1>2. /\ Head(down[d]) \in Msg
      /\ Tail(down[d]) \in Seq(Msg)
      /\ Len(Tail(down[d])) = Len(down[d]) - 1
  BY <1>1
<1>3. Head(down[d]).verb = "role" => Head(down[d]).role \in Role
  BY <1>2 DEF Msg, ReleaseMsg, HandshakeMsg
<1>4. devRole' \in [Dev -> Role \cup {None}]
  <2>1. CASE Head(down[d]).verb = "role"
    BY <1>3, <2>1 DEF Receive, OnRole, TypeOK
  <2>2. CASE Head(down[d]).verb # "role"
    BY <2>2 DEF Receive, TypeOK
  <2> QED
    BY <2>1, <2>2
<1>5. devReleased' \subseteq Dev /\ missed' \subseteq Dev
  BY DEF Receive, TypeOK
<1>6. down' = [down EXCEPT ![d] = Tail(@)] /\ down \in [Dev -> Seq(Msg)]
  BY DEF Receive, TypeOK
<1>7. down' \in [Dev -> Seq(Msg)]
  BY <1>2, <1>6
<1>8. \A e \in Dev : Len(down'[e]) <= MaxDown
  <2>1. Len(down'[d]) <= MaxDown
    BY <1>1, <1>2, <1>6
  <2>2. \A e \in Dev \ {d} : down'[e] = down[e]
    BY <1>6
  <2> QED
    BY <2>1, <2>2 DEF TypeOK
<1> QED
  BY <1>4, <1>5, <1>7, <1>8 DEF StreamsOK

\* Every step keeps the types.
LEMMA TypeStep ==
    ASSUME TypeOK, [Next]_vars
    PROVE  TypeOK'
<1> USE DEF engineVars, agentVars, deviceVars
<1>1. ASSUME NEW d \in Dev, Hello(d) PROVE TypeOK'
  <2>1. /\ pool' = pool \cup {d} /\ silent' = silent \ {d} /\ Slack
        /\ conn' = conn \cup {d} /\ greeted' = greeted \cup {d}
        /\ UNCHANGED <<phase, fixtures, bound, link, devRole, devReleased>>
    BY <1>1 DEF Hello, BindDev
  <2>2. Revived(d) \in SUBSET Dev
    BY DEF Revived, TypeOK
  <2>3. /\ told' \in [Dev -> Role \cup {None}]
        /\ bridge' \subseteq Dev /\ revived' \subseteq Dev
        /\ closing' \in [Dev -> {NotClosing} \cup 0 .. (MaxClosing - 1)]
        /\ StreamsOK'
    <3>1. CASE \E r \in [{d} -> Role], built \in Buildable({d}) :
                 OnGrant({d}, r, built, Revived(d), conn')
      <4>1. {d} \in SUBSET Dev
        OBVIOUS
      <4> QED
        BY <2>1, <2>2, <3>1, <4>1, OnGrantTypes
    <3>2. CASE /\ revived' = Revived(d)
               /\ UNCHANGED <<told, bridge, closing, down, missed>>
      BY <2>2, <3>2 DEF TypeOK, StreamsOK
    <3> QED
      BY <1>1, <3>1, <3>2 DEF Hello
  <2> QED
    BY <2>1, <2>3 DEF TypeOK, StreamsOK
<1>2. ASSUME NEW d \in Dev, Bind(d) PROVE TypeOK'
  BY <1>2 DEF Bind, BindDev, Revived, TypeOK
<1>3. ASSUME NEW d \in Dev, Gesture(d) PROVE TypeOK'
  BY <1>3 DEF Gesture, Revived, TypeOK
<1>4. ASSUME NEW d \in Dev, RoomHandshake(d) PROVE TypeOK'
  <2>1. bound' \subseteq Dev
    BY <1>4 DEF RoomHandshake, TypeOK
  <2>2. closing' \in [Dev -> {NotClosing} \cup 0 .. (MaxClosing - 1)]
    BY <1>4 DEF RoomHandshake, DropPlayerBridge, TypeOK
  <2>3. told' \in [Dev -> Role \cup {None}]
    BY <1>4 DEF RoomHandshake, TypeOK
  <2> QED
    BY <1>4, <2>1, <2>2, <2>3 DEF RoomHandshake, DropPlayerBridge, BindDev, TypeOK
<1>5. ASSUME NEW d \in Dev, GoSilent(d) PROVE TypeOK'
  BY <1>5 DEF GoSilent, TypeOK
<1>6. ASSUME NEW d \in Dev, Reap(d) PROVE TypeOK'
  <2>1. PICK D \in {{d}, {}} : OnRelease(D) /\ Slack
    BY <1>6 DEF Reap
  <2>2. D \in SUBSET Dev
    OBVIOUS
  <2>3. /\ revived' \subseteq Dev
        /\ closing' \in [Dev -> {NotClosing} \cup 0 .. (MaxClosing - 1)]
        /\ StreamsOK'
    BY <2>1, <2>2, OnReleaseTypes
  <2>4. told' \in [Dev -> Role \cup {None}]
    BY <1>6 DEF Reap, TypeOK
  <2> QED
    BY <1>6, <2>3, <2>4 DEF Reap, TypeOK, StreamsOK
<1>7. CASE Load
  BY <1>7 DEF Load, TypeOK
<1>8. ASSUME NEW d \in Dev, Invite(d) PROVE TypeOK'
  <2>1. /\ Send({d}, [e \in {d} |-> HandshakeMsg], conn \cap link) /\ Slack
        /\ UNCHANGED <<engineVars, agentVars, link, devRole, devReleased, greeted>>
    BY <1>8 DEF Invite
  <2>2. \A e \in {d} : [x \in {d} |-> HandshakeMsg][e] \in Msg
    BY MsgTypes
  <2>3. StreamsOK
    BY DEF TypeOK, StreamsOK
  <2>4. StreamsOK'
    BY <2>1, <2>2, <2>3, SendTypes
  <2> QED
    BY <2>1, <2>4 DEF TypeOK, StreamsOK
<1>9. CASE Run
  <2>1. PICK D \in SUBSET (pool \ bound) :
          /\ \E r \in [D -> Role], built \in Buildable(D) :
               OnGrant(D, r, built, revived, conn)
          /\ fixtures' = fixtures \ D
    BY <1>9 DEF Run
  <2>2. D \in SUBSET Dev /\ revived \in SUBSET Dev /\ Slack
    BY <1>9 DEF TypeOK, Run
  <2>3. /\ told' \in [Dev -> Role \cup {None}]
        /\ bridge' \subseteq Dev /\ revived' \subseteq Dev
        /\ closing' \in [Dev -> {NotClosing} \cup 0 .. (MaxClosing - 1)]
        /\ StreamsOK'
    BY <2>1, <2>2, OnGrantTypes
  <2> QED
    BY <1>9, <2>1, <2>3 DEF Run, TypeOK, StreamsOK
<1>10. CASE Unload
  <2>1. PICK D \in SUBSET Dev : /\ OnRelease(D) /\ Slack
                                /\ conn' = conn \ (D \ bridge)
                                /\ greeted' = greeted \ D
    BY <1>10 DEF Unload, TypeOK
  <2>2. /\ revived' \subseteq Dev
        /\ closing' \in [Dev -> {NotClosing} \cup 0 .. (MaxClosing - 1)]
        /\ StreamsOK'
    BY <2>1, OnReleaseTypes
  <2> QED
    BY <1>10, <2>1, <2>2 DEF Unload, TypeOK, StreamsOK
<1>11. ASSUME NEW d \in Dev, RenderFade(d) PROVE TypeOK'
  <2>1. /\ d \in Fading /\ Slack /\ (StillClosing(d) \/ FinishRelease(d))
        /\ UNCHANGED <<engineVars, link, devRole, devReleased, greeted>>
    BY <1>11 DEF RenderFade
  <2> QED
    BY <2>1, RenderTypes DEF TypeOK, StreamsOK
<1>12. ASSUME NEW d \in Dev, DeviceStep(d) PROVE TypeOK'
  <2>1. CASE Receive(d)
    BY <2>1, ReceiveTypes DEF Receive, TypeOK, StreamsOK
  <2>2. CASE Lobby(d)
    BY <2>2 DEF Lobby, TypeOK
  <2> QED
    BY <1>12, <2>1, <2>2 DEF DeviceStep
<1>13. ASSUME NEW d \in Dev, LinkDown(d) PROVE TypeOK'
  <2>1. /\ <<>> \in Seq(Msg) /\ Len(<<>>) <= MaxDown
        /\ down' = [down EXCEPT ![d] = <<>>]
    BY <1>13, DeviceLinkAssumption DEF LinkDown, DeviceLinkAssumption
  <2>2. down' \in [Dev -> Seq(Msg)] /\ \A e \in Dev : Len(down'[e]) <= MaxDown
    BY <2>1 DEF TypeOK
  <2> QED
    BY <1>13, <2>2 DEF LinkDown, TypeOK
<1>14. ASSUME NEW d \in Dev, LinkUp(d) PROVE TypeOK'
  BY <1>14 DEF LinkUp, TypeOK
<1>15. CASE UNCHANGED vars
  BY <1>15 DEF vars, TypeOK
<1> QED
  BY <1>1, <1>2, <1>3, <1>4, <1>5, <1>6, <1>7, <1>8, <1>9, <1>10, <1>11, <1>12,
     <1>13, <1>14, <1>15 DEF Next

\* Type correctness of the agent, the transport and the devices.
THEOREM TypeCorrect == Spec => []TypeOK
<1>1. Init => TypeOK
  BY DeviceLinkAssumption DEF Init, TypeOK, DeviceLinkAssumption
<1> QED
  BY <1>1, TypeStep, PTL DEF Spec

-----------------------------------------------------------------------------
(* Bridges, fades and roles.                                               *)

\* Nobody holds a role outside a round.
RolesOnlyInRound == phase # "running" => \A d \in Dev : told[d] = None

\* The agent agrees with GameServer on who plays, and with itself on who fades.
AgentAgrees == MarksFollowFades /\ BridgesHaveRoles /\ RolesOnlyInRound

\* A grant to devices that are neither fixtures nor, from now on, anything but
\* players.
LEMMA OnGrantAgrees ==
    ASSUME TypeOK, AgentAgrees, NEW D \in SUBSET Dev, NEW r \in [D -> Role],
           NEW built \in Buildable(D), NEW marks \in SUBSET Fading, NEW c,
           OnGrant(D, r, built, marks, c),
           fixtures' = fixtures \ D
    PROVE  MarksFollowFades' /\ BridgesHaveRoles'
<1>1. built \subseteq D
  BY DEF Buildable
<1>2. \A d \in Dev : told'[d] = IF d \in D THEN r[d] ELSE told[d]
  BY DEF OnGrant
<1>3. \A d \in D : told'[d] # None
  BY <1>2, DeviceLinkAssumption DEF DeviceLinkAssumption
<1>4. /\ Fading' = Fading \ built
      /\ bridge' = bridge \cup built
      /\ revived' = marks \ built
  BY DEF OnGrant, Fading, TypeOK
<1>5. MarksFollowFades'
  BY <1>4 DEF AgentAgrees, MarksFollowFades
<1>6. ASSUME NEW d \in bridge' \ Fading' PROVE told'[d] # None /\ d \notin fixtures'
  <2>1. CASE d \in D
    BY <2>1, <1>3
  <2>2. CASE d \notin D
    BY <2>2, <1>1, <1>2, <1>4, <1>6 DEF AgentAgrees, BridgesHaveRoles, TypeOK
  <2> QED
    BY <2>1, <2>2
<1>7. QED
  BY <1>5, <1>6 DEF BridgesHaveRoles

\* A release of devices after which none of them holds anything.
LEMMA OnReleaseAgrees ==
    ASSUME TypeOK, AgentAgrees, NEW D \in SUBSET Dev, OnRelease(D),
           bridge' = bridge,
           \A d \in Dev \ D : d \in bridge \ Fading =>
              told'[d] = told[d] /\ (d \in fixtures' => d \in fixtures)
    PROVE  MarksFollowFades' /\ BridgesHaveRoles'
<1>1. /\ Fading' = Fading \cup (D \cap bridge)
      /\ revived' = revived \ (D \cap bridge)
  BY DEF OnRelease, Fading, TypeOK, NotClosing
<1> QED
  BY <1>1 DEF AgentAgrees, MarksFollowFades, BridgesHaveRoles, TypeOK

\* The step of an agent that neither grants nor releases.
LEMMA FadingUnchanged ==
    ASSUME closing' = closing PROVE Fading' = Fading
BY DEF Fading

\* Every step keeps the agreement.
LEMMA AgreesStep ==
    ASSUME TypeOK, AgentAgrees, [Next]_vars
    PROVE  AgentAgrees'
<1> USE DEF engineVars, agentVars, deviceVars
<1>1. ASSUME NEW d \in Dev, Hello(d) PROVE AgentAgrees'
  <2>1. CASE /\ MayWalkUp(d)
             /\ \E r \in [{d} -> Role], built \in Buildable({d}) :
                  OnGrant({d}, r, built, Revived(d), conn')
    <3>1. /\ phase' = "running" /\ fixtures' = fixtures \ {d}
      BY <1>1, <2>1 DEF Hello, MayWalkUp
    <3>2. Revived(d) \in SUBSET Fading
      BY DEF Revived, AgentAgrees, MarksFollowFades
    <3>3. {d} \in SUBSET Dev
      OBVIOUS
    <3>4. MarksFollowFades' /\ BridgesHaveRoles'
      BY <2>1, <3>1, <3>2, <3>3, OnGrantAgrees
    <3> QED
      BY <3>1, <3>4 DEF AgentAgrees, RolesOnlyInRound
  <2>2. CASE /\ revived' = Revived(d)
             /\ UNCHANGED <<told, bridge, closing, down, missed>>
    <3>1. UNCHANGED <<phase, fixtures>>
      BY <1>1 DEF Hello
    <3> QED
      BY <2>2, <3>1, FadingUnchanged
         DEF AgentAgrees, MarksFollowFades, BridgesHaveRoles, RolesOnlyInRound, Revived
  <2> QED
    BY <1>1, <2>1, <2>2 DEF Hello
<1>2. ASSUME NEW d \in Dev, Bind(d) \/ Gesture(d) PROVE AgentAgrees'
  BY <1>2, FadingUnchanged
     DEF Bind, Gesture, AgentAgrees, MarksFollowFades, BridgesHaveRoles,
         RolesOnlyInRound, Revived
<1>3. ASSUME NEW d \in Dev, RoomHandshake(d) PROVE AgentAgrees'
  <2>1. /\ told' = [told EXCEPT ![d] = None] /\ told \in [Dev -> Role \cup {None}]
        /\ fixtures' = fixtures \cup {d}
        /\ bridge' = bridge \ {d} /\ revived' = revived \ {d}
        /\ closing' = [closing EXCEPT ![d] = NotClosing]
        /\ phase' = phase
    BY <1>3 DEF RoomHandshake, DropPlayerBridge, TypeOK
  <2>2. Fading' = Fading \ {d}
    BY <2>1 DEF Fading, TypeOK
  <2>3. \A e \in Dev \ {d} : told'[e] = told[e]
    BY <2>1
  <2>4. told'[d] = None
    BY <2>1
  <2> QED
    BY <2>1, <2>2, <2>3, <2>4
       DEF AgentAgrees, MarksFollowFades, BridgesHaveRoles, RolesOnlyInRound, TypeOK
<1>4. ASSUME NEW d \in Dev, Reap(d) PROVE AgentAgrees'
  <2>1. /\ OnRelease(IF told[d] # None \/ d \in fixtures THEN {d} ELSE {})
        /\ bridge' = bridge /\ phase' = phase
        /\ told' = [told EXCEPT ![d] = None] /\ told \in [Dev -> Role \cup {None}]
        /\ fixtures' = fixtures \ {d}
    BY <1>4 DEF Reap, TypeOK
  <2>2. told'[d] = None /\ \A e \in Dev \ {d} : told'[e] = told[e]
    BY <2>1
  <2>3. MarksFollowFades' /\ BridgesHaveRoles'
    <3>1. CASE told[d] # None \/ d \in fixtures
      <4>1. OnRelease({d}) /\ {d} \in SUBSET Dev
        BY <2>1, <3>1
      <4> QED
        BY <2>1, <2>2, <4>1, OnReleaseAgrees
    <3>2. CASE ~(told[d] # None \/ d \in fixtures)
      <4>1. OnRelease({}) /\ {} \in SUBSET Dev
        BY <2>1, <3>2
      <4>2. told' = told
        BY <2>1, <3>2
      <4> QED
        BY <2>1, <4>1, <4>2, OnReleaseAgrees
    <3> QED
      BY <3>1, <3>2
  <2> QED
    BY <2>1, <2>2, <2>3 DEF AgentAgrees, RolesOnlyInRound
<1>5. CASE Run
  <2>1. PICK D \in SUBSET (pool \ bound) :
          /\ \E r \in [D -> Role], built \in Buildable(D) :
               OnGrant(D, r, built, revived, conn)
          /\ fixtures' = fixtures \ D
    BY <1>5 DEF Run
  <2>2. D \in SUBSET Dev /\ revived \in SUBSET Fading /\ phase' = "running"
    BY <1>5 DEF TypeOK, Run, AgentAgrees, MarksFollowFades
  <2>3. MarksFollowFades' /\ BridgesHaveRoles'
    BY <2>1, <2>2, OnGrantAgrees
  <2> QED
    BY <2>2, <2>3 DEF AgentAgrees, RolesOnlyInRound
<1>6. CASE Unload
  <2> DEFINE held == {d \in Dev : told[d] # None} \cup fixtures
  <2>1. /\ OnRelease(held) /\ held \in SUBSET Dev /\ bridge' = bridge
        /\ told' = [d \in Dev |-> None]
    BY <1>6 DEF Unload, TypeOK
  <2>2. \A d \in Dev \ held : d \notin bridge \ Fading
    BY DEF AgentAgrees, BridgesHaveRoles
  <2>3. MarksFollowFades' /\ BridgesHaveRoles'
    <3> HIDE DEF held
    <3> QED
      BY <2>1, <2>2, OnReleaseAgrees
  <2> QED
    BY <2>1, <2>3 DEF AgentAgrees, RolesOnlyInRound
<1>7. ASSUME NEW d \in Dev, RenderFade(d) PROVE AgentAgrees'
  <2>1. /\ d \in Fading /\ UNCHANGED <<phase, told, fixtures>>
    BY <1>7 DEF RenderFade
  <2>2. CASE StillClosing(d)
    <3>1. Fading' = Fading
      <4>1. closing[d] \in 0 .. (MaxClosing - 1)
        BY <2>1 DEF Fading, TypeOK
      <4>2. closing' = [closing EXCEPT ![d] = @ + 1]
        BY <2>2 DEF StillClosing
      <4>3. closing[d] + 1 # NotClosing
        BY <4>1, DeviceLinkAssumption DEF NotClosing, DeviceLinkAssumption
      <4> QED
        BY <2>1, <4>2, <4>3 DEF Fading, TypeOK
    <3>2. UNCHANGED <<bridge, revived>>
      BY <2>2 DEF StillClosing
    <3> QED
      BY <2>1, <3>1, <3>2 DEF AgentAgrees, MarksFollowFades, BridgesHaveRoles, RolesOnlyInRound
  <2>3. CASE FinishRelease(d)
    <3>1. Fading' = Fading \ {d} /\ bridge' = bridge \ {d} /\ revived' = revived \ {d}
      BY <2>3 DEF FinishRelease, Fading, TypeOK
    <3> QED
      BY <2>1, <3>1 DEF AgentAgrees, MarksFollowFades, BridgesHaveRoles, RolesOnlyInRound
  <2> QED
    BY <1>7, <2>2, <2>3 DEF RenderFade
<1>8. ASSUME NEW d \in Dev, GoSilent(d) \/ Invite(d) \/ DeviceStep(d) \/ LinkDown(d) \/ LinkUp(d)
      PROVE  UNCHANGED <<phase, told, fixtures, bridge, closing, revived>>
  BY <1>8 DEF GoSilent, Invite, DeviceStep, Receive, Lobby, LinkDown, LinkUp
<1>9. ASSUME UNCHANGED <<phase, told, fixtures, bridge, closing, revived>>
      PROVE  AgentAgrees'
  BY <1>9, FadingUnchanged
     DEF AgentAgrees, MarksFollowFades, BridgesHaveRoles, RolesOnlyInRound
<1>10. CASE Load
  BY <1>10, FadingUnchanged
     DEF Load, AgentAgrees, MarksFollowFades, BridgesHaveRoles, RolesOnlyInRound
<1>11. CASE UNCHANGED vars
  BY <1>9, <1>11 DEF vars
<1> QED
  BY <1>1, <1>2, <1>3, <1>4, <1>5, <1>6, <1>7, <1>8, <1>9, <1>10, <1>11 DEF Next

LEMMA Agreement == Spec => [](TypeOK /\ AgentAgrees)
<1>1. Init => TypeOK /\ AgentAgrees
  BY DeviceLinkAssumption
     DEF Init, TypeOK, DeviceLinkAssumption, AgentAgrees, MarksFollowFades,
         BridgesHaveRoles, RolesOnlyInRound, Fading
<1>2. TypeOK /\ AgentAgrees /\ [Next]_vars => TypeOK' /\ AgentAgrees'
  BY TypeStep, AgreesStep
<1> QED
  BY <1>1, <1>2, PTL DEF Spec

\* The mark of a message heard during a fade never outlives the fade, and a
\* fade always has a bridge to render: whatever is granted, released, bound or
\* reaped meanwhile, and whether or not light sessions can be built.
THEOREM MarksEndWithFades == Spec => []MarksFollowFades
BY Agreement, PTL DEF AgentAgrees

\* No bridge outlives its role and no fixture has a player's bridge: no device
\* ever gets two streams of frames.
THEOREM NoBridgeWithoutRole == Spec => []BridgesHaveRoles
BY Agreement, PTL DEF AgentAgrees

-----------------------------------------------------------------------------
(* Connections.                                                            *)

\* Who said who it is while its fade runs is marked as revived; this is what
\* makes FreshConnectionKept inductive.
GreetedAreMarked ==
    /\ FreshConnectionKept
    /\ Fading \cap greeted \subseteq revived

LEMMA GreetedStep ==
    ASSUME TypeOK, AgentAgrees, GreetedAreMarked, [Next]_vars
    PROVE  GreetedAreMarked'
<1> USE DEF engineVars, agentVars, deviceVars
<1>1. ASSUME NEW D \in SUBSET Dev, OnRelease(D)
      PROVE  /\ Fading' = Fading \cup (D \cap bridge)
             /\ revived' = revived \ (D \cap bridge)
  BY <1>1 DEF OnRelease, Fading, TypeOK, NotClosing
<1>2. ASSUME NEW D \in SUBSET Dev, NEW r \in [D -> Role],
             NEW built \in Buildable(D), NEW marks, NEW c,
             OnGrant(D, r, built, marks, c)
      PROVE  Fading' = Fading \ built /\ revived' = marks \ built
  BY <1>2 DEF OnGrant, Fading, TypeOK, Buildable
<1>3. ASSUME NEW d \in Dev, Hello(d) PROVE GreetedAreMarked'
  <2>1. conn' = conn \cup {d} /\ greeted' = greeted \cup {d}
    BY <1>3 DEF Hello, BindDev
  <2>2. PICK built \in SUBSET Dev :
          Fading' = Fading \ built /\ revived' = Revived(d) \ built
    <3>1. CASE \E r \in [{d} -> Role], built \in Buildable({d}) :
                 OnGrant({d}, r, built, Revived(d), conn')
      <4>1. PICK r \in [{d} -> Role], built \in Buildable({d}) :
              OnGrant({d}, r, built, Revived(d), conn')
        BY <3>1
      <4>2. {d} \in SUBSET Dev /\ built \in SUBSET Dev
        BY DEF Buildable
      <4> QED
        BY <4>1, <4>2, <1>2
    <3>2. CASE revived' = Revived(d) /\ closing' = closing
      BY <3>2, FadingUnchanged
    <3> QED
      BY <1>3, <3>1, <3>2 DEF Hello
  <2> QED
    BY <2>1, <2>2 DEF GreetedAreMarked, FreshConnectionKept, Revived
<1>4. ASSUME NEW d \in Dev, Bind(d) PROVE GreetedAreMarked'
  BY <1>4, FadingUnchanged
     DEF Bind, BindDev, GreetedAreMarked, FreshConnectionKept, Revived
<1>5. ASSUME NEW d \in Dev, Gesture(d) PROVE GreetedAreMarked'
  BY <1>5, FadingUnchanged
     DEF Gesture, GreetedAreMarked, FreshConnectionKept, Revived
<1>6. ASSUME NEW d \in Dev, RoomHandshake(d) PROVE GreetedAreMarked'
  <2>1. /\ conn' = conn \cup {d} /\ greeted' = greeted \cup {d}
        /\ revived' = revived \ {d}
        /\ closing' = [closing EXCEPT ![d] = NotClosing]
    BY <1>6 DEF RoomHandshake, DropPlayerBridge, BindDev
  <2>2. Fading' = Fading \ {d}
    BY <2>1 DEF Fading, TypeOK
  <2> QED
    BY <2>1, <2>2 DEF GreetedAreMarked, FreshConnectionKept
<1>7. ASSUME NEW d \in Dev, Reap(d) PROVE GreetedAreMarked'
  <2>1. PICK D \in SUBSET {d} : OnRelease(D)
    BY <1>7 DEF Reap
  <2>2. /\ Fading' = Fading \cup (D \cap bridge)
        /\ revived' = revived \ (D \cap bridge)
    BY <2>1, <1>1
  <2>3. greeted' = greeted \ {d} /\ conn \ {d} \subseteq conn'
    BY <1>7 DEF Reap
  <2> QED
    BY <2>2, <2>3 DEF GreetedAreMarked, FreshConnectionKept
<1>8. CASE Run
  <2>1. conn' = conn /\ greeted' = greeted
    BY <1>8 DEF Run
  <2>2. PICK built \in SUBSET Dev :
          Fading' = Fading \ built /\ revived' = revived \ built
    <3>1. PICK D \in SUBSET (pool \ bound) :
            \E r \in [D -> Role], built \in Buildable(D) :
              OnGrant(D, r, built, revived, conn)
      BY <1>8 DEF Run
    <3>2. PICK r \in [D -> Role], built \in Buildable(D) :
            OnGrant(D, r, built, revived, conn)
      BY <3>1
    <3>3. D \in SUBSET Dev /\ built \in SUBSET Dev
      BY DEF Buildable, TypeOK
    <3> QED
      BY <3>2, <3>3, <1>2
  <2> QED
    BY <2>1, <2>2 DEF GreetedAreMarked, FreshConnectionKept
<1>9. CASE Unload
  <2>1. PICK D \in SUBSET Dev : /\ OnRelease(D)
                                /\ conn' = conn \ (D \ bridge)
                                /\ greeted' = greeted \ D
    BY <1>9 DEF Unload, TypeOK
  <2>2. /\ Fading' = Fading \cup (D \cap bridge)
        /\ revived' = revived \ (D \cap bridge)
    BY <2>1, <1>1
  <2> QED
    BY <2>1, <2>2 DEF GreetedAreMarked, FreshConnectionKept
<1>10. ASSUME NEW d \in Dev, RenderFade(d) PROVE GreetedAreMarked'
  <2>1. d \in Fading /\ greeted' = greeted
    BY <1>10 DEF RenderFade
  <2>2. CASE StillClosing(d)
    BY <2>1, <2>2 DEF StillClosing, GreetedAreMarked, FreshConnectionKept, Fading, TypeOK
  <2>3. CASE FinishRelease(d)
    <3>1. Fading' = Fading \ {d} /\ revived' = revived \ {d}
      BY <2>3 DEF FinishRelease, Fading, TypeOK
    <3>2. conn' = IF d \in revived THEN conn ELSE conn \ {d}
      BY <2>3 DEF FinishRelease
    <3> QED
      BY <2>1, <3>1, <3>2 DEF GreetedAreMarked, FreshConnectionKept
  <2> QED
    BY <1>10, <2>2, <2>3 DEF RenderFade
<1>11. ASSUME \/ Load
              \/ \E d \in Dev : \/ GoSilent(d) \/ Invite(d) \/ DeviceStep(d)
                                \/ LinkDown(d) \/ LinkUp(d)
              \/ UNCHANGED vars
       PROVE  UNCHANGED <<closing, revived, conn, greeted>>
  BY <1>11 DEF Load, GoSilent, Invite, DeviceStep, Receive, Lobby, LinkDown, LinkUp, vars
<1>12. ASSUME UNCHANGED <<closing, revived, conn, greeted>> PROVE GreetedAreMarked'
  BY <1>12, FadingUnchanged DEF GreetedAreMarked, FreshConnectionKept
<1> QED
  BY <1>3, <1>4, <1>5, <1>6, <1>7, <1>8, <1>9, <1>10, <1>11, <1>12 DEF Next

\* The end of a fade never drops the connection of a device that said who it
\* is while the fade ran, however many fades and greetings overlap.
THEOREM ReturningDevicesStayConnected == Spec => []FreshConnectionKept
<1>1. Init => GreetedAreMarked
  BY DEF Init, GreetedAreMarked, FreshConnectionKept
<1>2. /\ TypeOK /\ AgentAgrees /\ GreetedAreMarked /\ [Next]_vars
      => GreetedAreMarked'
  BY GreetedStep
<1> QED
  BY <1>1, <1>2, Agreement, PTL DEF Spec, GreetedAreMarked

-----------------------------------------------------------------------------
(* Players.                                                                *)

\* When every session can be built, a step keeps every player lit.
LEMMA LitStep ==
    ASSUME "unbuilt" \notin Accidents,
           TypeOK, AgentAgrees, PlayersAreLit, [Next]_vars
    PROVE  PlayersAreLit'
<1> USE DEF engineVars, agentVars, deviceVars
<1>1. ASSUME NEW D \in SUBSET Dev, NEW r \in [D -> Role],
             NEW built \in Buildable(D), NEW marks, NEW c,
             OnGrant(D, r, built, marks, c)
      PROVE  PlayersAreLit'
  <2>1. built = D
    BY DEF Buildable
  <2>2. /\ Fading' = Fading \ D /\ bridge' = bridge \cup D
        /\ \A d \in Dev \ D : told'[d] = told[d]
    BY <1>1, <2>1 DEF OnGrant, Fading, TypeOK
  <2> QED
    BY <2>2 DEF PlayersAreLit
<1>2. ASSUME NEW d \in Dev, Hello(d) PROVE PlayersAreLit'
  <2>1. {d} \in SUBSET Dev
    OBVIOUS
  <2>2. CASE UNCHANGED <<told, bridge, closing>>
    BY <2>2, FadingUnchanged DEF PlayersAreLit
  <2> QED
    BY <1>2, <2>1, <2>2, <1>1 DEF Hello
<1>3. ASSUME NEW d \in Dev, RoomHandshake(d) PROVE PlayersAreLit'
  <2>1. /\ bridge' = bridge \ {d}
        /\ closing' = [closing EXCEPT ![d] = NotClosing]
        /\ told' = [told EXCEPT ![d] = None] /\ told \in [Dev -> Role \cup {None}]
    BY <1>3 DEF RoomHandshake, DropPlayerBridge, TypeOK
  <2>2. Fading' = Fading \ {d}
    BY <2>1 DEF Fading, TypeOK
  <2>3. told'[d] = None /\ \A e \in Dev \ {d} : told'[e] = told[e]
    BY <2>1
  <2> QED
    BY <2>1, <2>2, <2>3 DEF PlayersAreLit
<1>4. ASSUME NEW d \in Dev, Reap(d) PROVE PlayersAreLit'
  <2>1. PICK D \in SUBSET {d} : OnRelease(D)
    BY <1>4 DEF Reap
  <2>2. Fading' = Fading \cup (D \cap bridge)
    BY <2>1 DEF OnRelease, Fading, TypeOK, NotClosing
  <2>3. /\ told' = [told EXCEPT ![d] = None] /\ told \in [Dev -> Role \cup {None}]
        /\ bridge' = bridge
    BY <1>4 DEF Reap, TypeOK
  <2>4. told'[d] = None /\ \A e \in Dev \ {d} : told'[e] = told[e]
    BY <2>3
  <2> QED
    BY <2>2, <2>3, <2>4 DEF PlayersAreLit
<1>5. CASE Run
  <2>1. PICK D \in SUBSET (pool \ bound) :
          \E r \in [D -> Role], built \in Buildable(D) :
            OnGrant(D, r, built, revived, conn)
    BY <1>5 DEF Run
  <2>2. D \in SUBSET Dev
    BY DEF TypeOK
  <2> QED
    BY <2>1, <2>2, <1>1
<1>6. CASE Unload
  BY <1>6 DEF Unload, PlayersAreLit
<1>7. ASSUME NEW d \in Dev, RenderFade(d) PROVE PlayersAreLit'
  <2>1. d \in Fading /\ told' = told
    BY <1>7 DEF RenderFade
  <2>2. told[d] = None
    BY <2>1 DEF PlayersAreLit, Fading
  <2>3. bridge \ {d} \subseteq bridge' /\ Fading' \subseteq Fading \cup {d}
    BY <1>7 DEF RenderFade, StillClosing, FinishRelease, Fading, TypeOK
  <2> QED
    BY <2>1, <2>2, <2>3 DEF PlayersAreLit
<1>8. ASSUME \/ Load
             \/ \E d \in Dev : \/ Bind(d) \/ Gesture(d) \/ GoSilent(d) \/ Invite(d)
                               \/ DeviceStep(d) \/ LinkDown(d) \/ LinkUp(d)
             \/ UNCHANGED vars
      PROVE  UNCHANGED <<told, bridge, closing>>
  BY <1>8 DEF Load, Bind, Gesture, GoSilent, Invite, DeviceStep, Receive, Lobby,
              LinkDown, LinkUp, vars
<1>9. ASSUME UNCHANGED <<told, bridge, closing>> PROVE PlayersAreLit'
  BY <1>9, FadingUnchanged DEF PlayersAreLit
<1> QED
  BY <1>2, <1>3, <1>4, <1>5, <1>6, <1>7, <1>8, <1>9 DEF Next

\* Where every granted role's light session can be built, every player has a
\* bridge and no earlier fade runs in it.
THEOREM EveryPlayerIsLit ==
    ASSUME "unbuilt" \notin Accidents
    PROVE  Spec => []PlayersAreLit
<1>1. Init => PlayersAreLit
  BY DEF Init, PlayersAreLit
<1>2. TypeOK /\ AgentAgrees /\ PlayersAreLit /\ [Next]_vars => PlayersAreLit'
  BY LitStep
<1> QED
  BY <1>1, <1>2, Agreement, PTL DEF Spec

\* While no round starts early, a step leaves no lit bridge without connection.
LEMMA ReachableStep ==
    ASSUME "earlyStart" \notin Accidents,
           TypeOK, AgentAgrees, LitDevicesReachable, [Next]_vars
    PROVE  LitDevicesReachable'
<1> USE DEF engineVars, agentVars, deviceVars
<1>1. ASSUME NEW D \in SUBSET Dev, NEW r \in [D -> Role],
             NEW built \in Buildable(D), NEW marks, NEW c,
             OnGrant(D, r, built, marks, c),
             conn \subseteq conn', D \subseteq conn'
      PROVE  LitDevicesReachable'
  <2>1. /\ Fading' = Fading \ built /\ bridge' = bridge \cup built /\ built \subseteq D
    BY <1>1 DEF OnGrant, Fading, TypeOK, Buildable
  <2> QED
    BY <2>1, <1>1 DEF LitDevicesReachable
<1>2. ASSUME NEW d \in Dev, Hello(d) PROVE LitDevicesReachable'
  <2>1. {d} \in SUBSET Dev /\ conn' = conn \cup {d}
    BY <1>2 DEF Hello, BindDev
  <2>2. CASE UNCHANGED <<bridge, closing>>
    BY <2>1, <2>2, FadingUnchanged DEF LitDevicesReachable
  <2> QED
    BY <1>2, <2>1, <2>2, <1>1 DEF Hello
<1>3. ASSUME NEW d \in Dev, RoomHandshake(d) PROVE LitDevicesReachable'
  <2>1. /\ bridge' = bridge \ {d} /\ conn' = conn \cup {d}
        /\ closing' = [closing EXCEPT ![d] = NotClosing]
    BY <1>3 DEF RoomHandshake, DropPlayerBridge, BindDev
  <2>2. Fading' = Fading \ {d}
    BY <2>1 DEF Fading, TypeOK
  <2> QED
    BY <2>1, <2>2 DEF LitDevicesReachable
<1>4. ASSUME NEW d \in Dev, Reap(d) PROVE LitDevicesReachable'
  <2>1. PICK D \in SUBSET {d} : OnRelease(D)
    BY <1>4 DEF Reap
  <2>2. Fading \subseteq Fading'
    BY <2>1 DEF OnRelease, Fading, TypeOK, NotClosing
  <2>3. bridge' = bridge /\ (conn \ {d} \subseteq conn') /\ (d \in bridge => conn' = conn)
    BY <1>4 DEF Reap
  <2> QED
    BY <2>2, <2>3 DEF LitDevicesReachable
<1>5. CASE Run
  <2>1. PICK D \in SUBSET (pool \ bound) :
          /\ D \subseteq conn
          /\ \E r \in [D -> Role], built \in Buildable(D) :
               OnGrant(D, r, built, revived, conn)
    BY <1>5 DEF Run
  <2>2. D \in SUBSET Dev /\ conn' = conn
    BY <1>5 DEF Run, TypeOK
  <2> QED
    BY <2>1, <2>2, <1>1
<1>6. CASE Unload
  <2>1. PICK D \in SUBSET Dev : /\ OnRelease(D)
                                /\ conn' = conn \ (D \ bridge)
                                /\ bridge' = bridge
    BY <1>6 DEF Unload, TypeOK
  <2>2. Fading \subseteq Fading'
    BY <2>1 DEF OnRelease, Fading, TypeOK, NotClosing
  <2> QED
    BY <2>1, <2>2 DEF LitDevicesReachable
<1>7. ASSUME NEW d \in Dev, RenderFade(d) PROVE LitDevicesReachable'
  <2>1. d \in Fading
    BY <1>7 DEF RenderFade
  <2>2. CASE StillClosing(d)
    <3>1. closing' = [closing EXCEPT ![d] = @ + 1] /\ UNCHANGED <<bridge, conn>>
      BY <2>2 DEF StillClosing
    <3>2. closing[d] \in 0 .. (MaxClosing - 1)
      BY <2>1 DEF Fading, TypeOK
    <3>3. closing[d] + 1 # NotClosing
      BY <3>2, DeviceLinkAssumption DEF NotClosing, DeviceLinkAssumption
    <3>4. Fading' = Fading
      BY <2>1, <3>1, <3>3 DEF Fading, TypeOK
    <3> QED
      BY <3>1, <3>4 DEF LitDevicesReachable
  <2>3. CASE FinishRelease(d)
    <3>1. Fading' = Fading \ {d} /\ bridge' = bridge \ {d} /\ conn \ {d} \subseteq conn'
      BY <2>3 DEF FinishRelease, Fading, TypeOK
    <3> QED
      BY <3>1 DEF LitDevicesReachable
  <2> QED
    BY <1>7, <2>2, <2>3 DEF RenderFade
<1>8. ASSUME \/ Load
             \/ \E d \in Dev : \/ Bind(d) \/ Gesture(d) \/ GoSilent(d) \/ Invite(d)
                               \/ DeviceStep(d) \/ LinkDown(d) \/ LinkUp(d)
             \/ UNCHANGED vars
      PROVE  UNCHANGED <<bridge, closing>> /\ conn \subseteq conn'
  BY <1>8 DEF Load, Bind, BindDev, Gesture, GoSilent, Invite, DeviceStep, Receive,
              Lobby, LinkDown, LinkUp, vars
<1>9. ASSUME UNCHANGED <<bridge, closing>>, conn \subseteq conn'
      PROVE  LitDevicesReachable'
  BY <1>9, FadingUnchanged DEF LitDevicesReachable
<1> QED
  BY <1>2, <1>3, <1>4, <1>5, <1>6, <1>7, <1>8, <1>9 DEF Next

\* Where SETUP is long enough for every device to be heard again, whoever has
\* a lit bridge can be sent its frames: the end of an earlier fade, a reap and a
\* release never take the connection of a device that plays.
THEOREM PlayersStayReachable ==
    ASSUME "earlyStart" \notin Accidents
    PROVE  Spec => []LitDevicesReachable
<1>1. Init => LitDevicesReachable
  BY DEF Init, LitDevicesReachable
<1>2. TypeOK /\ AgentAgrees /\ LitDevicesReachable /\ [Next]_vars => LitDevicesReachable'
  BY ReachableStep
<1> QED
  BY <1>1, <1>2, Agreement, PTL DEF Spec

-----------------------------------------------------------------------------
(* What a device comes to believe.                                         *)

\* A message that changes what a device believes of its role.
Says(m) == m.verb \in {"role", "release"}

\* Nothing in the stream s changes it, or the last thing that does says r.
Mute(s) == \A i \in 1 .. Len(s) : ~Says(s[i])
LastWord(s, r) ==
    \E i \in 1 .. Len(s) :
        /\ Says(s[i]) /\ s[i].role = r
        /\ \A j \in 1 .. Len(s) : j > i => ~Says(s[j])

\* What d believes now (a client that was released forgets its role), and what
\* it will believe once its stream is read.
Belief(d) == IF d \in devReleased THEN None ELSE devRole[d]
WillBelieve(d, r) == LastWord(down[d], r) \/ (Mute(down[d]) /\ r = Belief(d))

\* d has not lost its latest word, or a later one is under way.
Reached(d) == d \notin missed \/ ~Mute(down[d])

\* Once its stream is read, a lit device will believe what it was told; one with
\* neither bridge nor fixture, that it has no role, unless it was told of one
\* whose session could not be built: then it can be sent the release to come.
Heard(d) ==
    Reached(d) =>
        /\ d \in bridge \ Fading => WillBelieve(d, told[d])
        /\ d \notin bridge \cup fixtures =>
             WillBelieve(d, None) \/ (told[d] # None /\ d \in conn)

\* This is inductive: words are sent only to devices that are connected, and a
\* stream goes down with its link.
WordsArrive ==
    /\ bridge \subseteq conn
    /\ fixtures \subseteq conn
    /\ fixtures \cap bridge = {}
    /\ \A d \in Dev \ link : down[d] = <<>>
    /\ \A d \in Dev : Heard(d)

\* One more message: a word is the last one, anything else changes nothing.
LEMMA WordAppended ==
    ASSUME NEW s \in Seq(Msg), NEW m \in Msg, Says(m)
    PROVE  LastWord(Append(s, m), m.role) /\ ~Mute(Append(s, m))
<1> DEFINE t == Append(s, m)
           n == Len(s) + 1
<1>1. Len(s) \in Nat /\ Len(t) = n /\ t[n] = m /\ n \in 1 .. Len(t)
  OBVIOUS
<1>2. \A j \in 1 .. Len(t) : ~(j > n)
  BY <1>1
<1> HIDE DEF t, n
<1> QED
  BY <1>1, <1>2 DEF LastWord, Mute, t

LEMMA OtherAppended ==
    ASSUME NEW s \in Seq(Msg), NEW m \in Msg, ~Says(m)
    PROVE  /\ Mute(Append(s, m)) <=> Mute(s)
           /\ \A r : LastWord(s, r) => LastWord(Append(s, m), r)
<1> DEFINE t == Append(s, m)
           n == Len(s) + 1
<1>1. /\ Len(s) \in Nat /\ Len(t) = n /\ t[n] = m
      /\ \A i \in 1 .. Len(s) : t[i] = s[i] /\ i \in 1 .. Len(t)
      /\ \A i \in 1 .. Len(t) : i \in 1 .. Len(s) \/ i = n
  OBVIOUS
<1> HIDE DEF t, n
<1>2. Mute(t) <=> Mute(s)
  BY <1>1 DEF Mute
<1>3. ASSUME NEW r, LastWord(s, r) PROVE LastWord(t, r)
  <2>1. PICK i \in 1 .. Len(s) : /\ Says(s[i]) /\ s[i].role = r
                                 /\ \A j \in 1 .. Len(s) : j > i => ~Says(s[j])
    BY <1>3 DEF LastWord
  <2>2. i \in 1 .. Len(t) /\ t[i] = s[i]
    BY <1>1
  <2>3. ASSUME NEW j \in 1 .. Len(t), j > i PROVE ~Says(t[j])
    BY <1>1, <2>1, <2>3
  <2> QED
    BY <2>1, <2>2, <2>3 DEF LastWord
<1> QED
  BY <1>2, <1>3 DEF t

\* One message read: a word other than the last was not the last, and the last
\* leaves the stream mute.
LEMMA HeadRead ==
    ASSUME NEW s \in Seq(Msg), s # <<>>
    PROVE  /\ ~Says(Head(s)) => (Mute(Tail(s)) <=> Mute(s))
           /\ Mute(s) => ~Says(Head(s)) /\ Mute(Tail(s))
           /\ \A r : LastWord(s, r) =>
                \/ LastWord(Tail(s), r)
                \/ Mute(Tail(s)) /\ Says(Head(s)) /\ Head(s).role = r
<1> DEFINE t == Tail(s)
<1>1. /\ Len(s) \in Nat /\ Len(s) >= 1 /\ Len(t) = Len(s) - 1
      /\ Head(s) = s[1]
      /\ 1 \in 1 .. Len(s)
  OBVIOUS
<1>2. \A i \in 1 .. Len(t) : t[i] = s[i + 1] /\ i + 1 \in 1 .. Len(s)
  OBVIOUS
<1> HIDE DEF t
<1>3. \A i \in 1 .. Len(s) : i = 1 \/ (i - 1 \in 1 .. Len(t) /\ s[i] = t[i - 1])
  <2> SUFFICES ASSUME NEW i \in 1 .. Len(s), i # 1
               PROVE  i - 1 \in 1 .. Len(t) /\ s[i] = t[i - 1]
    OBVIOUS
  <2>1. i - 1 \in 1 .. Len(t) /\ (i - 1) + 1 = i
    BY <1>1
  <2> QED
    BY <2>1, <1>2
<1>4. Mute(s) <=> ~Says(s[1]) /\ Mute(t)
  BY <1>1, <1>2, <1>3 DEF Mute
<1>5. ASSUME NEW r, LastWord(s, r)
      PROVE  LastWord(t, r) \/ (Mute(t) /\ Says(s[1]) /\ s[1].role = r)
  <2>1. PICK i \in 1 .. Len(s) : /\ Says(s[i]) /\ s[i].role = r
                                 /\ \A j \in 1 .. Len(s) : j > i => ~Says(s[j])
    BY <1>5 DEF LastWord
  <2>2. CASE i = 1
    <3>1. ASSUME NEW j \in 1 .. Len(t) PROVE ~Says(t[j])
      <4>1. j + 1 \in 1 .. Len(s) /\ j + 1 > 1 /\ t[j] = s[j + 1]
        BY <1>2
      <4> QED
        BY <2>1, <2>2, <4>1
    <3> QED
      BY <2>1, <2>2, <3>1 DEF Mute
  <2>3. CASE i # 1
    <3>1. i - 1 \in 1 .. Len(t) /\ s[i] = t[i - 1]
      BY <1>3, <2>3
    <3>2. ASSUME NEW j \in 1 .. Len(t), j > i - 1 PROVE ~Says(t[j])
      <4>1. j + 1 \in 1 .. Len(s) /\ j + 1 > i /\ t[j] = s[j + 1]
        BY <1>2, <3>2
      <4> QED
        BY <2>1, <4>1
    <3> QED
      BY <2>1, <3>1, <3>2 DEF LastWord
  <2> QED
    BY <2>2, <2>3
<1> QED
  BY <1>1, <1>4, <1>5 DEF t

LEMMA Words ==
    /\ Says(ReleaseMsg) /\ ReleaseMsg.role = None
    /\ ~Says(HandshakeMsg)
    /\ \A r : Says(RoleMsg(r)) /\ RoleMsg(r).role = r
    /\ ReleaseMsg \in Msg /\ HandshakeMsg \in Msg
    /\ \A r \in Role : RoleMsg(r) \in Msg
BY MsgTypes DEF Says, ReleaseMsg, HandshakeMsg, RoleMsg

\* The end of a word's way: d will believe r, or has lost the word.
Gets(d, r) == Reached(d)' => WillBelieve(d, r)'

\* Nothing about d's words changes for the worse.
Keeps(d) ==
    Reached(d)' => Reached(d) /\ \A r : WillBelieve(d, r) => WillBelieve(d, r)'

\* send of words to D: whoever of it is connected gets its own, the others'
\* words stay what they were.
LEMMA SendWords ==
    ASSUME TypeOK, WordsArrive, NEW D \in SUBSET Dev, NEW m, NEW c, Send(D, m, c),
           \A d \in D : m[d] \in Msg /\ Says(m[d]),
           UNCHANGED <<devRole, devReleased>>, NEW d \in Dev
    PROVE  /\ d \in D \cap c => Gets(d, m[d].role)
           /\ d \notin D \cap c => Keeps(d)
<1>1. CASE d \in D \cap c
  <2>1. CASE d \in link
    <3>1. down'[d] = Append(down[d], m[d])
      BY <1>1, <2>1 DEF Send
    <3>2. LastWord(down'[d], m[d].role)
      BY <1>1, <3>1, WordAppended DEF TypeOK
    <3> QED
      BY <1>1, <3>2 DEF Gets, WillBelieve
  <2>2. CASE d \notin link
    <3>1. down'[d] = <<>> /\ d \in missed'
      BY <1>1, <2>2 DEF Send, WordsArrive
    <3>2. ~Reached(d)'
      BY <3>1 DEF Reached, Mute
    <3> QED
      BY <1>1, <3>2 DEF Gets
  <2> QED
    BY <2>1, <2>2
<1>2. CASE d \notin D \cap c
  <2>1. down'[d] = down[d] /\ (d \in missed' <=> d \in missed)
    BY <1>2 DEF Send
  <2>2. Belief(d)' = Belief(d)
    BY DEF Belief
  <2> QED
    BY <1>2, <2>1, <2>2 DEF Keeps, Reached, WillBelieve
<1> QED
  BY <1>1, <1>2

\* A step that says nothing.
LEMMA SilentKeeps ==
    ASSUME UNCHANGED <<down, missed, devRole, devReleased>>, NEW d \in Dev
    PROVE  Keeps(d)
BY DEF Keeps, Reached, WillBelieve, Belief

\* An invitation is no word.
LEMMA InviteKeeps ==
    ASSUME TypeOK, NEW e \in Dev, Invite(e), NEW d \in Dev
    PROVE  Keeps(d)
<1>1. Send({e}, [x \in {e} |-> HandshakeMsg], conn \cap link)
  BY DEF Invite
<1>2. missed' = missed /\ UNCHANGED <<devRole, devReleased>>
  BY <1>1 DEF Send, Invite
<1>3. Belief(d)' = Belief(d)
  BY <1>2 DEF Belief
<1>4. down'[d] = down[d] \/ down'[d] = Append(down[d], HandshakeMsg)
  BY <1>1 DEF Send
<1>5. /\ Mute(down'[d]) <=> Mute(down[d])
      /\ \A r : LastWord(down[d], r) => LastWord(down'[d], r)
  <2>1. down[d] \in Seq(Msg) /\ HandshakeMsg \in Msg /\ ~Says(HandshakeMsg)
    BY Words DEF TypeOK
  <2>2. CASE down'[d] = down[d]
    BY <2>2
  <2>3. CASE down'[d] = Append(down[d], HandshakeMsg)
    BY <2>1, <2>3, OtherAppended
  <2> QED
    BY <1>4, <2>2, <2>3
<1> QED
  BY <1>2, <1>3, <1>5 DEF Keeps, Reached, WillBelieve

\* Reading a message: what it says is what the device had still to believe.
LEMMA ReceiveKeeps ==
    ASSUME "batch" \notin Accidents, TypeOK, NEW e \in Dev, Receive(e), NEW d \in Dev
    PROVE  Keeps(d)
<1> DEFINE m == Head(down[e])
<1>1. /\ e \notin devReleased
      /\ down[e] \in Seq(Msg) /\ down[e] # <<>> /\ m \in Msg
      /\ down' = [down EXCEPT ![e] = Tail(@)]
      /\ down \in [Dev -> Seq(Msg)]
      /\ devRole \in [Dev -> Role \cup {None}]
  BY DEF Receive, TypeOK
<1>2. /\ devRole' = IF m.verb = "role" THEN OnRole(e, m.role) ELSE devRole
      /\ devReleased' = IF m.verb = "release" THEN devReleased \cup {e}
                        ELSE devReleased
      /\ missed' = IF m.verb = "handshake" THEN missed ELSE missed \ {e}
  BY DEF Receive
<1> HIDE DEF m
<1>3. CASE d # e
  <2>1. /\ down'[d] = down[d] /\ (d \in missed' <=> d \in missed)
        /\ devRole'[d] = devRole[d] /\ (d \in devReleased' <=> d \in devReleased)
    BY <1>1, <1>2, <1>3 DEF OnRole
  <2>2. Belief(d)' = Belief(d)
    BY <2>1 DEF Belief
  <2> QED
    BY <2>1, <2>2 DEF Keeps, Reached, WillBelieve
<1>4. CASE d = e
  <2>1. /\ ~Says(m) => (Mute(down'[d]) <=> Mute(down[d]))
        /\ Mute(down[d]) => ~Says(m) /\ Mute(down'[d])
        /\ \A r : LastWord(down[d], r) =>
             \/ LastWord(down'[d], r)
             \/ Mute(down'[d]) /\ Says(m) /\ m.role = r
    BY <1>1, <1>4, HeadRead DEF m
  <2>2. m.verb \in {"role", "release", "handshake"} /\ (m.verb = "release" => m.role = None)
    BY <1>1 DEF Msg, ReleaseMsg, HandshakeMsg
  <2>3. ~Says(m) => Belief(d)' = Belief(d) /\ missed' = missed
    BY <1>2, <2>2 DEF Says, Belief
  <2>4. Says(m) => Belief(d)' = m.role
    <3>1. CASE m.verb = "role"
      BY <1>1, <1>2, <1>4, <3>1 DEF Belief, OnRole
    <3>2. CASE m.verb = "release"
      BY <1>2, <1>4, <2>2, <3>2 DEF Belief
    <3> QED
      BY <3>1, <3>2 DEF Says
  <2>5. Reached(d)' => Reached(d)
    BY <2>1, <2>3 DEF Reached
  <2>6. ASSUME NEW r, WillBelieve(d, r) PROVE WillBelieve(d, r)'
    BY <2>1, <2>3, <2>4, <2>6 DEF WillBelieve
  <2> QED
    BY <2>5, <2>6 DEF Keeps
<1> QED
  BY <1>3, <1>4

\* A released client forgets a role it no longer believed in.
LEMMA LobbyKeeps ==
    ASSUME TypeOK, NEW e \in Dev, Lobby(e), NEW d \in Dev
    PROVE  Keeps(d)
<1>1. down' = down /\ missed' = missed
  BY DEF Lobby
<1>2. Belief(d)' = Belief(d)
  BY DEF Lobby, Belief, TypeOK
<1> QED
  BY <1>1, <1>2 DEF Keeps, Reached, WillBelieve

\* A link takes the words on it with it, and they are known to be missed.
LEMMA LinkDownKeeps ==
    ASSUME TypeOK, NEW e \in Dev, LinkDown(e), NEW d \in Dev
    PROVE  Keeps(d)
<1>1. /\ down' = [down EXCEPT ![e] = <<>>] /\ down \in [Dev -> Seq(Msg)]
      /\ missed' = IF Underway(e, {"role", "release"}) THEN missed \cup {e} ELSE missed
      /\ UNCHANGED <<devRole, devReleased>>
  BY DEF LinkDown, TypeOK
<1>2. Belief(d)' = Belief(d)
  BY <1>1 DEF Belief
<1>3. CASE d # e
  <2>1. down'[d] = down[d] /\ (d \in missed' <=> d \in missed)
    BY <1>1, <1>3
  <2> QED
    BY <1>2, <2>1 DEF Keeps, Reached, WillBelieve
<1>4. CASE d = e
  <2>1. down'[d] = <<>>
    BY <1>1, <1>4
  <2>2. Mute(down'[d]) /\ \A r : ~LastWord(down'[d], r)
    BY <2>1 DEF Mute, LastWord
  <2>3. Underway(e, {"role", "release"}) <=> ~Mute(down[e])
    <3>1. DOMAIN down[e] = 1 .. Len(down[e])
      BY <1>1
    <3> QED
      BY <3>1 DEF Underway, Mute, Says
  <2>4. CASE Mute(down[e])
    <3>1. \A r : ~LastWord(down[d], r)
      BY <1>4, <2>4 DEF LastWord, Mute
    <3>2. missed' = missed
      BY <1>1, <2>3, <2>4
    <3> QED
      BY <1>2, <1>4, <2>2, <2>4, <3>1, <3>2 DEF Keeps, Reached, WillBelieve
  <2>5. CASE ~Mute(down[e])
    <3>1. d \in missed'
      BY <1>1, <1>4, <2>3, <2>5
    <3> QED
      BY <2>2, <3>1 DEF Keeps, Reached
  <2> QED
    BY <2>4, <2>5
<1> QED
  BY <1>3, <1>4

\* A device whose words are kept, in a step that leaves it where it was.
LEMMA StaysHeard ==
    ASSUME WordsArrive, NEW d \in Dev, Keeps(d),
           d \in bridge' \ Fading' => d \in bridge \ Fading /\ told'[d] = told[d],
           d \notin bridge' \cup fixtures' =>
              /\ d \notin bridge \cup fixtures
              /\ told[d] # None /\ d \in conn
                   => \/ told'[d] # None /\ d \in conn'
                      \/ WillBelieve(d, None)
    PROVE  Heard(d)'
<1> SUFFICES ASSUME Reached(d)'
             PROVE  /\ d \in bridge' \ Fading' => WillBelieve(d, told[d])'
                    /\ d \notin bridge' \cup fixtures' =>
                         WillBelieve(d, None)' \/ (told'[d] # None /\ d \in conn')
  BY DEF Heard
<1>1. Reached(d) /\ \A r : WillBelieve(d, r) => WillBelieve(d, r)'
  BY DEF Keeps
<1>2. Heard(d)
  BY DEF WordsArrive
<1>3. ASSUME d \in bridge' \ Fading' PROVE WillBelieve(d, told[d])'
  <2>1. WillBelieve(d, told[d]) /\ told'[d] = told[d]
    BY <1>1, <1>2, <1>3 DEF Heard
  <2>2. ASSUME NEW r, r = told[d], WillBelieve(d, r) PROVE WillBelieve(d, told[d])'
    <3>1. WillBelieve(d, r)' /\ told'[d] = r
      BY <1>1, <2>1, <2>2
    <3> QED
      BY <3>1 DEF WillBelieve
  <2> QED
    BY <2>1, <2>2
<1>4. ASSUME d \notin bridge' \cup fixtures'
      PROVE  WillBelieve(d, None)' \/ (told'[d] # None /\ d \in conn')
  BY <1>1, <1>2, <1>4 DEF Heard
<1> QED
  BY <1>3, <1>4

\* A device that gets the word r it was to get.
LEMMA WordHeard ==
    ASSUME NEW d \in Dev, NEW r, Gets(d, r),
           d \in bridge' \ Fading' => r = told'[d],
           d \notin bridge' \cup fixtures' => r = None
    PROVE  Heard(d)'
BY DEF Heard, Gets, WillBelieve

\* Grants: the devices whose sessions are built are connected and get their
\* role; nobody else that was lit is told of another.
LEMMA OnGrantHeard ==
    ASSUME TypeOK, AgentAgrees, WordsArrive,
           NEW D \in SUBSET Dev, NEW r \in [D -> Role], NEW built \in Buildable(D),
           NEW marks, OnGrant(D, r, built, marks, conn'),
           D \subseteq conn', conn \subseteq conn',
           \A d \in D : told[d] = None,
           fixtures' = fixtures \ D,
           UNCHANGED <<link, devRole, devReleased>>
    PROVE  WordsArrive'
<1>1. built \subseteq D
  BY DEF Buildable
<1>2. /\ \A d \in Dev : told'[d] = IF d \in D THEN r[d] ELSE told[d]
      /\ bridge' = bridge \cup built
      /\ Fading' = Fading \ built
      /\ Send(built, [d \in built |-> RoleMsg(r[d])], conn')
  BY DEF OnGrant, Fading, TypeOK
<1>3. \A d \in D : r[d] \in Role /\ r[d] # None
  BY DeviceLinkAssumption DEF DeviceLinkAssumption
<1>4. \A d \in built : RoleMsg(r[d]) \in Msg /\ Says(RoleMsg(r[d])) /\ RoleMsg(r[d]).role = r[d]
  BY <1>1, <1>3, Words
<1>5. ASSUME NEW d \in Dev
      PROVE  /\ d \in built => Gets(d, r[d])
             /\ d \notin built => Keeps(d)
  <2> DEFINE m == [x \in built |-> RoleMsg(r[x])]
  <2>1. \A x \in built : m[x] = RoleMsg(r[x])
    OBVIOUS
  <2>2. built \in SUBSET Dev /\ built \subseteq conn' /\ Send(built, m, conn')
    BY <1>1, <1>2
  <2> HIDE DEF m
  <2>3. \A x \in built : m[x] \in Msg /\ Says(m[x]) /\ m[x].role = r[x]
    BY <1>4, <2>1
  <2>4. /\ d \in built \cap conn' => Gets(d, m[d].role)
        /\ d \notin built \cap conn' => Keeps(d)
    BY <2>2, <2>3, SendWords
  <2> QED
    BY <2>2, <2>3, <2>4
<1>6. ASSUME NEW d \in Dev PROVE Heard(d)'
  <2>1. CASE d \in built
    <3>1. told'[d] = r[d] /\ d \in bridge'
      BY <1>1, <1>2, <2>1
    <3> QED
      BY <1>5, <2>1, <3>1, WordHeard
  <2>2. CASE d \notin built
    <3>1. d \in bridge' \ Fading' => d \in bridge \ Fading /\ told'[d] = told[d]
      <4>1. d \in bridge \ Fading => told[d] # None
        BY DEF AgentAgrees, BridgesHaveRoles
      <4> QED
        BY <1>2, <2>2, <4>1
    <3>2. ASSUME d \notin bridge' \cup fixtures', d \in fixtures
          PROVE  Heard(d)'
      <4>1. d \in D /\ told'[d] # None /\ d \in conn' /\ d \notin bridge'
        BY <1>2, <1>3, <3>2
      <4> QED
        BY <4>1 DEF Heard
    <3>3. ASSUME ~(d \notin bridge' \cup fixtures' /\ d \in fixtures)
          PROVE  Heard(d)'
      <4>1. d \notin bridge' \cup fixtures' =>
              /\ d \notin bridge \cup fixtures
              /\ told[d] # None /\ d \in conn => told'[d] # None /\ d \in conn'
        BY <1>2, <1>3, <3>3
      <4> QED
        BY <1>5, <2>2, <3>1, <4>1, StaysHeard
    <3> QED
      BY <3>2, <3>3
  <2> QED
    BY <2>1, <2>2
<1>7. bridge' \subseteq conn' /\ fixtures' \subseteq conn' /\ fixtures' \cap bridge' = {}
  BY <1>1, <1>2 DEF WordsArrive
<1>8. \A d \in Dev \ link' : down'[d] = <<>>
  BY <1>2 DEF Send, WordsArrive
<1> QED
  BY <1>6, <1>7, <1>8 DEF WordsArrive

\* Releases: whoever has no bridge is connected, if it was told of anything, and
\* gets its release; a bridge fades first.
LEMMA OnReleaseHeard ==
    ASSUME TypeOK, WordsArrive,
           NEW D \in SUBSET Dev, OnRelease(D),
           bridge' = bridge, fixtures' = fixtures \ D,
           \A d \in Dev : told'[d] = IF d \in D THEN None ELSE told[d],
           \A d \in Dev \ D : d \in conn => d \in conn' \/ told[d] = None,
           \A d \in D : told[d] # None \/ d \in fixtures,
           bridge \subseteq conn', fixtures' \subseteq conn',
           UNCHANGED <<link, devRole, devReleased>>
    PROVE  WordsArrive'
<1>1. /\ Fading' = Fading \cup (D \cap bridge)
      /\ Send(D \ bridge, [d \in D \ bridge |-> ReleaseMsg], conn)
  BY DEF OnRelease, Fading, TypeOK, NotClosing
<1> DEFINE R == D \ bridge
           m == [d \in R |-> ReleaseMsg]
<1>2. /\ R \in SUBSET Dev /\ Send(R, m, conn)
      /\ \A x \in R : m[x] \in Msg /\ Says(m[x]) /\ m[x].role = None
  BY <1>1, Words
<1> HIDE DEF m
<1>3. ASSUME NEW d \in Dev
      PROVE  /\ d \in R \cap conn => Gets(d, None)
             /\ d \notin R \cap conn => Keeps(d)
  BY <1>2, SendWords
<1>4. ASSUME NEW d \in Dev PROVE Heard(d)'
  <2>1. CASE d \in R \cap conn
    BY <1>3, <2>1, WordHeard
  <2>2. CASE d \in R \ conn
    <3>1. d \notin bridge \cup fixtures
      BY <2>2 DEF WordsArrive
    <3>2. Keeps(d)
      BY <1>3, <2>2
    <3> QED
      BY <2>2, <3>1, <3>2, StaysHeard
  <2>3. CASE d \in D \cap bridge
    <3>1. d \in bridge' /\ d \in Fading'
      BY <1>1, <2>3
    <3> QED
      BY <3>1 DEF Heard
  <2>4. CASE d \notin D
    <3>1. Keeps(d) /\ told'[d] = told[d]
      BY <1>3, <2>4
    <3>2. d \in bridge' \ Fading' => d \in bridge \ Fading /\ told'[d] = told[d]
      BY <1>1, <3>1
    <3>3. d \notin bridge' \cup fixtures' =>
            /\ d \notin bridge \cup fixtures
            /\ told[d] # None /\ d \in conn => told'[d] # None /\ d \in conn'
      BY <2>4, <3>1
    <3> QED
      BY <3>1, <3>2, <3>3, StaysHeard
  <2> QED
    BY <2>1, <2>2, <2>3, <2>4
<1>5. bridge' \subseteq conn' /\ fixtures' \subseteq conn' /\ fixtures' \cap bridge' = {}
  BY DEF WordsArrive
<1>6. \A d \in Dev \ link' : down'[d] = <<>>
  BY <1>1 DEF Send, WordsArrive
<1> QED
  BY <1>4, <1>5, <1>6 DEF WordsArrive

\* A step that grants and releases nothing.
LEMMA SameHeard ==
    ASSUME WordsArrive, \A d \in Dev : Keeps(d),
           UNCHANGED <<bridge, closing, told, fixtures>>, conn \subseteq conn',
           \A d \in Dev \ link' : down'[d] = <<>>
    PROVE  WordsArrive'
<1>1. Fading' = Fading
  BY FadingUnchanged
<1>2. ASSUME NEW d \in Dev PROVE Heard(d)'
  BY <1>1, StaysHeard
<1> QED
  BY <1>2 DEF WordsArrive

\* Where no round starts early and a device reads one message at a time, every
\* step keeps the words on their way.
LEMMA WordsStep ==
    ASSUME "earlyStart" \notin Accidents, "batch" \notin Accidents,
           TypeOK, AgentAgrees, WordsArrive, [Next]_vars
    PROVE  WordsArrive'
<1> USE DEF engineVars, agentVars, deviceVars
<1>1. ASSUME UNCHANGED <<down, missed, devRole, devReleased, link>>,
             UNCHANGED <<bridge, closing, told, fixtures>>, conn \subseteq conn'
      PROVE  WordsArrive'
  <2>1. \A d \in Dev : Keeps(d)
    BY <1>1, SilentKeeps
  <2>2. \A d \in Dev \ link' : down'[d] = <<>>
    BY <1>1 DEF WordsArrive
  <2> QED
    BY <1>1, <2>1, <2>2, SameHeard
<1>2. ASSUME NEW d \in Dev, Hello(d) PROVE WordsArrive'
  <2>1. CASE /\ MayWalkUp(d)
             /\ \E r \in [{d} -> Role], built \in Buildable({d}) :
                  OnGrant({d}, r, built, Revived(d), conn')
    <3>1. /\ d \in conn' /\ conn \subseteq conn'
          /\ told[d] = None /\ d \notin fixtures
          /\ fixtures' = fixtures
          /\ UNCHANGED <<link, devRole, devReleased>>
      BY <1>2, <2>1 DEF Hello, BindDev, MayWalkUp
    <3>2. fixtures' = fixtures \ {d} /\ {d} \in SUBSET Dev /\ {d} \subseteq conn'
      BY <3>1
    <3> QED
      BY <2>1, <3>1, <3>2, OnGrantHeard
  <2>2. CASE /\ revived' = Revived(d)
             /\ UNCHANGED <<told, bridge, closing, down, missed>>
    BY <1>1, <1>2, <2>2 DEF Hello, BindDev
  <2> QED
    BY <1>2, <2>1, <2>2 DEF Hello
<1>3. ASSUME NEW d \in Dev, Bind(d) \/ Gesture(d) \/ GoSilent(d) PROVE WordsArrive'
  BY <1>1, <1>3 DEF Bind, BindDev, Gesture, GoSilent
<1>4. ASSUME NEW d \in Dev, RoomHandshake(d) PROVE WordsArrive'
  <2>1. /\ told' = [told EXCEPT ![d] = None]
        /\ fixtures' = fixtures \cup {d}
        /\ bridge' = bridge \ {d} /\ conn' = conn \cup {d}
        /\ closing' = [closing EXCEPT ![d] = NotClosing]
        /\ UNCHANGED <<down, missed, devRole, devReleased, link>>
    BY <1>4 DEF RoomHandshake, DropPlayerBridge, BindDev
  <2>2. Fading' = Fading \ {d}
    BY <2>1 DEF Fading, TypeOK
  <2>3. ASSUME NEW e \in Dev PROVE Heard(e)'
    <3>1. CASE e = d
      <4>1. e \notin bridge' /\ e \in fixtures'
        BY <2>1, <3>1
      <4> QED
        BY <4>1 DEF Heard
    <3>2. CASE e # d
      <4>1. Keeps(e) /\ told'[e] = told[e]
        BY <2>1, <3>2, SilentKeeps
      <4> QED
        BY <2>1, <2>2, <3>2, <4>1, StaysHeard
    <3> QED
      BY <3>1, <3>2
  <2>4. /\ bridge' \subseteq conn' /\ fixtures' \subseteq conn' /\ fixtures' \cap bridge' = {}
        /\ \A e \in Dev \ link' : down'[e] = <<>>
    BY <2>1 DEF WordsArrive
  <2> QED
    BY <2>3, <2>4 DEF WordsArrive
<1>5. ASSUME NEW d \in Dev, Reap(d) PROVE WordsArrive'
  <2> DEFINE D == IF told[d] # None \/ d \in fixtures THEN {d} ELSE {}
  <2>1. /\ OnRelease(D) /\ D \in SUBSET Dev
        /\ bridge' = bridge
        /\ conn' = IF d \in bridge THEN conn ELSE conn \ {d}
        /\ told' = [told EXCEPT ![d] = None] /\ told \in [Dev -> Role \cup {None}]
        /\ fixtures' = fixtures \ {d}
        /\ UNCHANGED <<link, devRole, devReleased>>
    BY <1>5 DEF Reap, TypeOK
  <2>2. \A e \in Dev : told'[e] = IF e \in D THEN None ELSE told[e]
    BY <2>1
  <2>3. fixtures' = fixtures \ D
    BY <2>1
  <2>4. \A e \in D : told[e] # None \/ e \in fixtures
    OBVIOUS
  <2>5. bridge \subseteq conn' /\ fixtures' \subseteq conn'
    BY <2>1 DEF WordsArrive
  <2>6. \A e \in Dev \ D : e \in conn => e \in conn' \/ told[e] = None
    BY <2>1
  <2> HIDE DEF D
  <2> QED
    BY <2>1, <2>2, <2>3, <2>4, <2>5, <2>6, OnReleaseHeard
<1>6. CASE Run
  <2>1. PICK D \in SUBSET (pool \ bound) :
          /\ D \subseteq conn
          /\ \E r \in [D -> Role], built \in Buildable(D) :
               OnGrant(D, r, built, revived, conn)
          /\ fixtures' = fixtures \ D
    BY <1>6 DEF Run
  <2>2. /\ D \in SUBSET Dev /\ conn' = conn /\ phase = "setup"
        /\ UNCHANGED <<link, devRole, devReleased>>
    BY <1>6 DEF Run, TypeOK
  <2>3. \A d \in D : told[d] = None
    BY <2>2 DEF AgentAgrees, RolesOnlyInRound
  <2> QED
    BY <2>1, <2>2, <2>3, OnGrantHeard
<1>7. CASE Unload
  <2> DEFINE held == {d \in Dev : told[d] # None} \cup fixtures
  <2>1. /\ OnRelease(held) /\ held \in SUBSET Dev
        /\ bridge' = bridge
        /\ conn' = conn \ (held \ bridge)
        /\ told' = [d \in Dev |-> None]
        /\ fixtures' = {}
        /\ UNCHANGED <<link, devRole, devReleased>>
    BY <1>7 DEF Unload, TypeOK
  <2>2. \A d \in Dev : told'[d] = IF d \in held THEN None ELSE told[d]
    BY <2>1
  <2>3. fixtures' = fixtures \ held /\ \A d \in held : told[d] # None \/ d \in fixtures
    BY <2>1
  <2>4. bridge \subseteq conn' /\ fixtures' \subseteq conn'
    BY <2>1 DEF WordsArrive
  <2>5. \A e \in Dev \ held : told[e] = None
    OBVIOUS
  <2> HIDE DEF held
  <2> QED
    BY <2>1, <2>2, <2>3, <2>4, <2>5, OnReleaseHeard
<1>8. ASSUME NEW d \in Dev, RenderFade(d) PROVE WordsArrive'
  <2>1. /\ d \in Fading /\ UNCHANGED <<told, fixtures, link, devRole, devReleased>>
    BY <1>8 DEF RenderFade
  <2>2. CASE StillClosing(d)
    <3>1. closing' = [closing EXCEPT ![d] = @ + 1] /\ UNCHANGED <<bridge, conn, down, missed>>
      BY <2>2 DEF StillClosing
    <3>2. closing[d] \in 0 .. (MaxClosing - 1)
      BY <2>1 DEF Fading, TypeOK
    <3>3. closing[d] + 1 # NotClosing
      BY <3>2, DeviceLinkAssumption DEF NotClosing, DeviceLinkAssumption
    <3>4. Fading' = Fading
      BY <2>1, <3>1, <3>3 DEF Fading, TypeOK
    <3>5. ASSUME NEW e \in Dev PROVE Heard(e)'
      <4>1. Keeps(e)
        BY <2>1, <3>1, SilentKeeps
      <4> QED
        BY <2>1, <3>1, <3>4, <4>1, StaysHeard
    <3> QED
      BY <2>1, <3>1, <3>5 DEF WordsArrive
  <2>3. CASE FinishRelease(d)
    <3> DEFINE m == [e \in {d} |-> ReleaseMsg]
    <3>1. /\ Fading' = Fading \ {d} /\ bridge' = bridge \ {d}
          /\ conn \ {d} \subseteq conn' /\ conn' \subseteq conn
          /\ Send({d}, m, conn)
      BY <2>3 DEF FinishRelease, Fading, TypeOK
    <3>2. \A x \in {d} : m[x] \in Msg /\ Says(m[x]) /\ m[x].role = None
      BY Words
    <3>3. d \in bridge /\ d \in conn /\ d \notin fixtures
      BY <2>1 DEF AgentAgrees, MarksFollowFades, WordsArrive
    <3>4. {d} \in SUBSET Dev
      OBVIOUS
    <3> HIDE DEF m
    <3>5. ASSUME NEW e \in Dev
          PROVE  (e = d => Gets(e, None)) /\ (e # d => Keeps(e))
      BY <2>1, <3>1, <3>2, <3>3, <3>4, SendWords
    <3>6. ASSUME NEW e \in Dev PROVE Heard(e)'
      <4>1. CASE e = d
        <5>1. e \notin bridge' \ Fading'
          BY <3>1, <4>1
        <5> QED
          BY <3>5, <4>1, <5>1, WordHeard
      <4>2. CASE e # d
        <5>1. /\ e \in bridge' \ Fading' => e \in bridge \ Fading /\ told'[e] = told[e]
              /\ e \notin bridge' \cup fixtures' =>
                   /\ e \notin bridge \cup fixtures
                   /\ told[e] # None /\ e \in conn => told'[e] # None /\ e \in conn'
          BY <2>1, <3>1, <4>2
        <5> QED
          BY <3>5, <4>2, <5>1, StaysHeard
      <4> QED
        BY <4>1, <4>2
    <3>7. /\ bridge' \subseteq conn' /\ fixtures' \subseteq conn' /\ fixtures' \cap bridge' = {}
      BY <2>1, <3>1, <3>3 DEF WordsArrive
    <3>8. \A e \in Dev \ link' : down'[e] = <<>>
      BY <2>1, <3>1 DEF Send, WordsArrive
    <3> QED
      BY <3>6, <3>7, <3>8 DEF WordsArrive
  <2> QED
    BY <1>8, <2>2, <2>3 DEF RenderFade
<1>9. ASSUME NEW e \in Dev, Invite(e) PROVE WordsArrive'
  <2>1. \A d \in Dev : Keeps(d)
    BY <1>9, InviteKeeps
  <2>2. UNCHANGED <<bridge, closing, told, fixtures, conn, link>>
    BY <1>9 DEF Invite
  <2>3. \A d \in Dev \ link' : down'[d] = <<>>
    BY <1>9, <2>2 DEF Invite, Send, WordsArrive
  <2> QED
    BY <2>1, <2>2, <2>3, SameHeard
<1>10. ASSUME NEW e \in Dev, DeviceStep(e) PROVE WordsArrive'
  <2>1. \A d \in Dev : Keeps(d)
    BY <1>10, ReceiveKeeps, LobbyKeeps DEF DeviceStep
  <2>2. UNCHANGED <<bridge, closing, told, fixtures, conn, link>>
    BY <1>10 DEF DeviceStep, Receive, Lobby
  <2>3. \A d \in Dev \ link' : down'[d] = <<>>
    BY <1>10, <2>2 DEF DeviceStep, Receive, Lobby, WordsArrive, TypeOK
  <2> QED
    BY <2>1, <2>2, <2>3, SameHeard
<1>11. ASSUME NEW e \in Dev, LinkDown(e) PROVE WordsArrive'
  <2>1. \A d \in Dev : Keeps(d)
    BY <1>11, LinkDownKeeps
  <2>2. UNCHANGED <<bridge, closing, told, fixtures, conn>>
    BY <1>11 DEF LinkDown
  <2>3. \A d \in Dev \ link' : down'[d] = <<>>
    BY <1>11 DEF LinkDown, WordsArrive, TypeOK
  <2> QED
    BY <2>1, <2>2, <2>3, SameHeard
<1>12. ASSUME NEW e \in Dev, LinkUp(e) PROVE WordsArrive'
  <2>1. \A d \in Dev : Keeps(d)
    BY <1>12, SilentKeeps DEF LinkUp
  <2>2. UNCHANGED <<bridge, closing, told, fixtures, conn>>
    BY <1>12 DEF LinkUp
  <2>3. \A d \in Dev \ link' : down'[d] = <<>>
    BY <1>12 DEF LinkUp, WordsArrive
  <2> QED
    BY <2>1, <2>2, <2>3, SameHeard
<1>13. CASE Load
  BY <1>1, <1>13 DEF Load
<1>14. CASE UNCHANGED vars
  BY <1>1, <1>14 DEF vars
<1> QED
  BY <1>2, <1>3, <1>4, <1>5, <1>6, <1>7, <1>8, <1>9, <1>10, <1>11, <1>12, <1>13,
     <1>14 DEF Next

LEMMA InitWords == Init => WordsArrive
<1> SUFFICES ASSUME Init PROVE WordsArrive
  OBVIOUS
<1>1. ASSUME NEW d \in Dev PROVE Heard(d)
  <2>1. down[d] = <<>> /\ devRole[d] = None /\ bridge = {}
    BY DEF Init
  <2>2. Mute(down[d]) /\ Belief(d) = None
    BY <2>1 DEF Mute, Belief
  <2> QED
    BY <2>1, <2>2 DEF Heard, WillBelieve
<1> QED
  BY <1>1 DEF Init, WordsArrive

\* Where rounds do not start early and messages are read one at a time, every
\* player comes to know its latest role and everyone else that it has none,
\* whatever is reaped, displaced, re-bound or lost with a link meanwhile.
THEOREM WhatIsToldIsHeard ==
    ASSUME "earlyStart" \notin Accidents, "batch" \notin Accidents
    PROVE  Spec => []ToldIsHeard
<1>1. TypeOK /\ AgentAgrees /\ WordsArrive /\ [Next]_vars => WordsArrive'
  BY WordsStep
<1>2. TypeOK /\ WordsArrive => ToldIsHeard
  <2> SUFFICES ASSUME TypeOK, WordsArrive, NEW d \in Dev, Settled(d)
               PROVE  /\ d \in bridge \ Fading => devRole[d] = told[d]
                      /\ d \notin bridge \cup fixtures /\ told[d] = None
                           => devRole[d] = None
    BY DEF ToldIsHeard, RoleReaches, ReleaseReaches, TypeOK
  <2>1. DOMAIN down[d] = 1 .. Len(down[d])
    BY DEF TypeOK
  <2>2. Mute(down[d]) /\ d \notin devReleased /\ d \notin missed
    BY <2>1 DEF Settled, Underway, Mute, Says
  <2>3. \A r : WillBelieve(d, r) => devRole[d] = r
    BY <2>2 DEF WillBelieve, LastWord, Mute, Belief
  <2>4. Heard(d) /\ Reached(d)
    BY <2>2 DEF WordsArrive, Reached
  <2> QED
    BY <2>3, <2>4 DEF Heard
<1> QED
  BY <1>1, <1>2, InitWords, Agreement, PTL DEF Spec

-----------------------------------------------------------------------------
(* The order of grants and releases.                                       *)

\* The devices' roles change as Telling lets them.
LEMMA ToldInTurn ==
    ASSUME TypeOK, RolesOnlyInRound, Next
    PROVE  \/ T!Next
           \/ UNCHANGED <<phase = "running", told>>
<1> USE DEF engineVars, agentVars, deviceVars
<1>1. ASSUME NEW d \in Dev, Hello(d) PROVE T!Turn \/ UNCHANGED <<phase, told>>
  <2>1. CASE /\ MayWalkUp(d)
             /\ \E r \in [{d} -> Role], built \in Buildable({d}) :
                  OnGrant({d}, r, built, Revived(d), conn')
    <3>1. PICK r \in [{d} -> Role] :
            told' = [e \in Dev |-> IF e \in {d} THEN r[e] ELSE told[e]]
      BY <2>1 DEF OnGrant
    <3>2. phase = "running" /\ phase' = "running" /\ told[d] = None
      BY <1>1, <2>1 DEF Hello, MayWalkUp
    <3> QED
      BY <3>1, <3>2 DEF T!Turn, T!InTurn, TypeOK
  <2> QED
    BY <1>1, <2>1 DEF Hello
<1>2. ASSUME NEW d \in Dev, RoomHandshake(d) \/ Reap(d)
      PROVE  T!Turn \/ UNCHANGED <<phase, told>>
  <2>1. /\ told' = [told EXCEPT ![d] = None] /\ phase' = phase
        /\ told \in [Dev -> Role \cup {None}]
    BY <1>2 DEF RoomHandshake, Reap, TypeOK
  <2>2. CASE phase = "running"
    BY <2>1, <2>2 DEF T!Turn, T!InTurn
  <2>3. CASE phase # "running"
    BY <2>1, <2>3 DEF RolesOnlyInRound
  <2> QED
    BY <2>2, <2>3
<1>3. CASE Run
  <2>1. PICK D \in SUBSET (pool \ bound) :
          \E r \in [D -> Role] :
            told' = [e \in Dev |-> IF e \in D THEN r[e] ELSE told[e]]
    BY <1>3 DEF Run, OnGrant
  <2>2. /\ phase = "setup" /\ phase' = "running"
        /\ \A e \in Dev : told[e] = None
    BY <1>3 DEF Run, RolesOnlyInRound
  <2> QED
    BY <2>1, <2>2 DEF T!Next, T!Start, T!InTurn, TypeOK
<1>4. CASE Unload
  <2>1. phase' = "idle" /\ told' = [d \in Dev |-> None]
    BY <1>4 DEF Unload
  <2>2. CASE phase = "running"
    BY <2>1, <2>2 DEF T!Next, T!Close
  <2>3. CASE phase # "running"
    BY <2>1, <2>3 DEF RolesOnlyInRound, TypeOK
  <2> QED
    BY <2>2, <2>3
<1>5. CASE Load
  BY <1>5 DEF Load
<1>6. ASSUME NEW d \in Dev,
             \/ Bind(d) \/ Gesture(d) \/ GoSilent(d) \/ Invite(d) \/ RenderFade(d)
             \/ DeviceStep(d) \/ LinkDown(d) \/ LinkUp(d)
      PROVE  UNCHANGED <<phase, told>>
  BY <1>6 DEF Bind, Gesture, GoSilent, Invite, RenderFade, DeviceStep, Receive, Lobby,
              LinkDown, LinkUp
<1> QED
  BY <1>1, <1>2, <1>3, <1>4, <1>5, <1>6 DEF Next, T!Next

\* Whatever DeviceLink does to its agent is an order of grants and releases
\* that GameServer, too, is proved to keep to (GameServerProofs!TellsInOrder).
THEOREM TellsInOrder == Spec => TellsInTurn
<1>1. Init => T!Init
  BY DEF Init, T!Init
<1>2. TypeOK /\ AgentAgrees /\ [Next]_vars => [T!Next]_T!vars
  <2>1. ASSUME TypeOK, AgentAgrees, [Next]_vars PROVE [T!Next]_T!vars
    <3>1. CASE Next
      BY <2>1, <3>1, ToldInTurn DEF AgentAgrees, T!vars
    <3>2. CASE UNCHANGED vars
      BY <3>2 DEF vars, engineVars, T!vars
    <3> QED
      BY <2>1, <3>1, <3>2
  <2> QED
    BY <2>1
<1> QED
  BY <1>1, <1>2, Agreement, PTL DEF Spec, TellsInTurn, T!Spec
=============================================================================
