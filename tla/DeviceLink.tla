----------------------------- MODULE DeviceLink -----------------------------
(***************************************************************************)
(* DeviceLinkAgent and the two ends of its wire: the bridge and the closing *)
(* fade it keeps per device, the transport's bindings, the TCP stream to a  *)
(* device, and the device (o2_shroom --persist around a ShroomClient).      *)
(*                                                                          *)
(* GameServer appears as what it does to the agent: it grants, releases,    *)
(* reaps and binds fixtures.  Which device gets which role is GameServer's  *)
(* own module; here any pooled device may.                                  *)
(*                                                                          *)
(* What a device says is handled at any moment: of a message on its way up  *)
(* nothing matters but that it will be handled, or, over UDP, never.        *)
(***************************************************************************)
EXTENDS Integers, Sequences

CONSTANTS
    Dev,        \* devices
    Role,       \* roles that come with a light session
    None,       \* no role
    MaxClosing, \* _MAX_CLOSING_FRAMES
    MaxDown,    \* bound on the messages under way to one device
    Accidents   \* what else may happen, a subset of AllAccidents

\* "unbuilt":    building a granted role's light session raises
\* "earlyStart": a round starts before a device that was released and dropped
\*               has been heard again
\* "batch":      a device dispatches several messages in one o2lite.poll
\* "linkLoss":   a device's TCP link goes down and comes back
\* "rebind":     a fixture is tapped again and its first device displaced, or
\*               its window closes between the two reads of it
AllAccidents == {"unbuilt", "earlyStart", "batch", "linkLoss", "rebind"}

ASSUME DeviceLinkAssumption ==
    /\ None \notin Role
    /\ MaxClosing \in Nat \ {0}
    /\ MaxDown \in Nat \ {0}
    /\ Accidents \subseteq AllAccidents

VARIABLES
    phase,      \* "idle", "setup", "running": GameServer.state
    told,       \* the non-ROOM role GameServer holds for a device
    fixtures,   \* devices that hold the ROOM role
    bound,      \* Room.bound's devices
    pool,       \* DevicePool
    silent,     \* pooled devices that stale() would return
    bridge,     \* devices with a DeviceBridge
    closing,    \* render attempts of a device's closing fade, or NotClosing
    revived,    \* _closing_revived
    conn,       \* O2LiteTransport._devs
    link,       \* devices whose TCP link is up
    down,       \* messages under way to each device, in order
    devRole,    \* ShroomClient.config
    devReleased,\* ShroomClient.released
    greeted,    \* history: devices that said who they are since their release
    missed      \* history: devices that lost a /role or /release with their link

engineVars == <<phase, told, fixtures, bound, pool, silent>>
agentVars == <<bridge, closing, revived, conn>>
deviceVars == <<link, down, devRole, devReleased>>
vars == <<engineVars, agentVars, deviceVars, greeted, missed>>

NotClosing == -1
Fading == {d \in Dev : closing[d] # NotClosing}

RoleMsg(r) == [verb |-> "role", role |-> r]
ReleaseMsg == [verb |-> "release", role |-> None]
HandshakeMsg == [verb |-> "handshake", role |-> None]
Msg == [verb : {"role"}, role : Role] \cup {ReleaseMsg, HandshakeMsg}

\* A message of one of these verbs is on its way to d.
Underway(d, verbs) == \E i \in DOMAIN down[d] : down[d][i].verb \in verbs

\* Nothing is sent while a stream is full: the bound of the model.
Slack == \A d \in Dev : Len(down[d]) < MaxDown

\* send: m[d] to every d of D the transport knows (c).  A device it does not
\* know gets nothing; a device whose link is down loses it.
Send(D, m, c) ==
    /\ down' = [d \in Dev |-> IF d \in D \cap c \cap link
                              THEN Append(down[d], m[d]) ELSE down[d]]
    /\ missed' = missed \cup ((D \cap c) \ link)

\* The Room may come up with devices it has bound itself.
Init ==
    /\ phase = "idle"
    /\ told = [d \in Dev |-> None]
    /\ fixtures = {} /\ bound \in SUBSET Dev /\ pool = {} /\ silent = {}
    /\ bridge = {} /\ revived = {} /\ conn = {}
    /\ closing = [d \in Dev |-> NotClosing]
    /\ link = Dev
    /\ down = [d \in Dev |-> <<>>]
    /\ devRole = [d \in Dev |-> None]
    /\ devReleased = {}
    /\ greeted = {} /\ missed = {}

-----------------------------------------------------------------------------
(* The sinks GameServer calls.                                             *)

\* Anything heard from d while its release still fades shows d is alive.
Revived(d) == IF d \in Fading THEN revived \cup {d} ELSE revived

\* on_grant of r[d] for each d of D; only for those in built does the light
\* session build, and only they hear of it.  A fade in progress ends there.
OnGrant(D, r, built, marks, c) ==
    /\ told' = [d \in Dev |-> IF d \in D THEN r[d] ELSE told[d]]
    /\ bridge' = bridge \cup built
    /\ closing' = [d \in Dev |-> IF d \in built THEN NotClosing ELSE closing[d]]
    /\ revived' = marks \ built
    /\ Send(built, [d \in built |-> RoleMsg(r[d])], c)

\* The subsets of D whose sessions may come to be built.
Buildable(D) == IF "unbuilt" \in Accidents THEN SUBSET D ELSE {D}

\* on_release for each d of D, but for drop_dev: with a bridge its fade
\* begins, without one /release goes out at once.
OnRelease(D) ==
    /\ closing' = [d \in Dev |-> IF d \in D \cap bridge THEN 0 ELSE closing[d]]
    /\ revived' = revived \ (D \cap bridge)
    /\ Send(D \ bridge, [d \in D \ bridge |-> ReleaseMsg], conn)

-----------------------------------------------------------------------------
(* What a device says.                                                     *)

\* Faulty variant: only a sender the pool does not know is bound.
BindDevOnce(d) ==
    /\ conn' = IF d \in pool THEN conn ELSE conn \cup {d}
    /\ greeted' = greeted \cup {d}

\* bind_dev.
BindDev(d) ==
    /\ conn' = conn \cup {d}
    /\ greeted' = greeted \cup {d}

\* A device that says hello now may be given a jam role (_jam_candidates).
MayWalkUp(d) ==
    /\ phase = "running"
    /\ told[d] = None
    /\ d \notin fixtures \cup bound

\* hello(d).  A walk-up gets its jam role in the same call, unless d is an
\* admin's.
Hello(d) ==
    /\ Slack
    /\ pool' = pool \cup {d}
    /\ silent' = silent \ {d}
    /\ BindDev(d)
    /\ \/ /\ MayWalkUp(d)
          /\ \E r \in [{d} -> Role], built \in Buildable({d}) :
               OnGrant({d}, r, built, Revived(d), conn')
       \/ /\ revived' = Revived(d)
          /\ UNCHANGED <<told, bridge, closing, down, missed>>
    /\ UNCHANGED <<phase, fixtures, bound, link, devRole, devReleased>>

\* A beat, a player's handshake, a retired join: the sender is bound again,
\* whether it is pooled or not.
Bind(d) ==
    /\ silent' = silent \ {d}
    /\ BindDev(d)
    /\ revived' = Revived(d)
    /\ UNCHANGED <<phase, told, fixtures, bound, pool, bridge, closing,
                   deviceVars, missed>>

\* A gesture: no binding, only proof of life.
Gesture(d) ==
    /\ silent' = silent \ {d}
    /\ revived' = Revived(d)
    /\ UNCHANGED <<phase, told, fixtures, bound, pool, bridge, closing, conn,
                   deviceVars, greeted, missed>>

\* _drop_player_bridge: no fade, no /release, the connection stays.
DropPlayerBridge(d) ==
    /\ bridge' = bridge \ {d}
    /\ closing' = [closing EXCEPT ![d] = NotClosing]
    /\ revived' = revived \ {d}

\* A granted handshake on the Room node.
RoomHandshake(d) ==
    /\ phase # "idle"
    /\ d \in pool
    /\ silent' = silent \ {d}
    /\ BindDev(d)
    /\ told' = [told EXCEPT ![d] = None]
    /\ fixtures' = fixtures \cup {d}
    /\ \/ bound' = bound \cup {d}
       \/ /\ "rebind" \in Accidents
          /\ bound' \in {bound} \cup {(bound \ {e}) \cup {d} : e \in bound}
    /\ DropPlayerBridge(d)
    /\ UNCHANGED <<phase, pool, deviceVars, missed>>

-----------------------------------------------------------------------------
(* Control's own steps.                                                    *)

\* d has said nothing for the reap timeout.
GoSilent(d) ==
    /\ d \in pool \ silent
    /\ silent' = silent \cup {d}
    /\ UNCHANGED <<phase, told, fixtures, bound, pool, agentVars, deviceVars,
                   greeted, missed>>

\* reap_stale for one device, then _forget_reaped: a device with a bridge is
\* left to its fade, any other is dropped at once.
Reap(d) ==
    /\ Slack
    /\ d \in silent \ bound
    /\ OnRelease(IF told[d] # None \/ d \in fixtures THEN {d} ELSE {})
    /\ conn' = IF d \in bridge THEN conn ELSE conn \ {d}
    /\ told' = [told EXCEPT ![d] = None]
    /\ fixtures' = fixtures \ {d}
    /\ pool' = pool \ {d}
    /\ silent' = silent \ {d}
    /\ greeted' = greeted \ {d}
    /\ UNCHANGED <<phase, bound, bridge, link, devRole, devReleased>>

\* load_bit, up to SETUP.
Load ==
    /\ phase = "idle"
    /\ phase' = "setup"
    /\ UNCHANGED <<told, fixtures, bound, pool, silent, agentVars, deviceVars,
                   greeted, missed>>

\* _tick_handshakes: an invitation to a device that has nothing yet, the last
\* one having had a whole invite interval to arrive.
Invite(d) ==
    /\ Slack
    /\ phase = "setup"
    /\ d \in pool \ (fixtures \cup bound \cup Fading)
    /\ ~Underway(d, {"handshake"})
    /\ Send({d}, [e \in {d} |-> HandshakeMsg], conn \cap link)
    /\ UNCHANGED <<engineVars, agentVars, link, devRole, devReleased, greeted>>

\* run: grants for a set of pooled devices.  Without "earlyStart" SETUP lasts
\* long enough for each to be heard again after its last release.
Run ==
    /\ Slack
    /\ phase = "setup"
    /\ phase' = "running"
    /\ \E D \in SUBSET (pool \ bound) :
         /\ "earlyStart" \in Accidents \/ D \subseteq conn
         /\ \E r \in [D -> Role], built \in Buildable(D) :
              OnGrant(D, r, built, revived, conn)
         /\ fixtures' = fixtures \ D
    /\ UNCHANGED <<bound, pool, silent, conn, link, devRole, devReleased, greeted>>

\* _unload, whether the round ended or was aborted: on_release for every
\* device that holds a role, a fixture's included.
Unload ==
    /\ Slack
    /\ phase # "idle"
    /\ phase' = "idle"
    /\ LET held == {d \in Dev : told[d] # None} \cup fixtures
       IN  /\ OnRelease(held)
           /\ conn' = conn \ (held \ bridge)
           /\ greeted' = greeted \ held
    /\ told' = [d \in Dev |-> None]
    /\ fixtures' = {}
    /\ UNCHANGED <<bound, pool, silent, bridge, link, devRole, devReleased>>

\* Faulty variant: the connection goes with the fade, whoever spoke meanwhile.
FinishReleaseDrops(d) ==
    /\ bridge' = bridge \ {d}
    /\ closing' = [closing EXCEPT ![d] = NotClosing]
    /\ revived' = revived \ {d}
    /\ Send({d}, [e \in {d} |-> ReleaseMsg], conn)
    /\ conn' = conn \ {d}

\* Faulty variant: the connection is dropped before /release is sent.
FinishReleaseDropsFirst(d) ==
    /\ bridge' = bridge \ {d}
    /\ closing' = [closing EXCEPT ![d] = NotClosing]
    /\ revived' = revived \ {d}
    /\ conn' = IF d \in revived THEN conn ELSE conn \ {d}
    /\ Send({d}, [e \in {d} |-> ReleaseMsg], conn')

\* _finish_release.
FinishRelease(d) ==
    /\ bridge' = bridge \ {d}
    /\ closing' = [closing EXCEPT ![d] = NotClosing]
    /\ revived' = revived \ {d}
    /\ Send({d}, [e \in {d} |-> ReleaseMsg], conn)
    /\ conn' = IF d \in revived THEN conn ELSE conn \ {d}

\* One more render attempt, raised or not, leaves d fading: _check_closing_bound.
StillClosing(d) ==
    /\ closing[d] + 1 < MaxClosing
    /\ closing' = [closing EXCEPT ![d] = @ + 1]
    /\ UNCHANGED <<bridge, revived, conn, down, missed>>

\* _render_frames for a fading device: its session may be done at any attempt.
RenderFade(d) ==
    /\ Slack
    /\ d \in Fading
    /\ StillClosing(d) \/ FinishRelease(d)
    /\ UNCHANGED <<engineVars, link, devRole, devReleased, greeted>>

-----------------------------------------------------------------------------
(* The device.                                                             *)

\* ShroomClient._on_role: a new role replaces the old one.
OnRole(d, r) == [devRole EXCEPT ![d] = r]

\* ShroomClient.handle.  The client's loop looks at `released` after every
\* poll; with "batch" one poll may dispatch more than one message.
Receive(d) ==
    /\ d \in link
    /\ down[d] # <<>>
    /\ d \notin devReleased \/ "batch" \in Accidents
    /\ LET m == Head(down[d])
       IN  /\ devRole' = IF m.verb = "role" THEN OnRole(d, m.role) ELSE devRole
           /\ devReleased' = IF m.verb = "release" THEN devReleased \cup {d}
                             ELSE devReleased
           /\ missed' = IF m.verb = "handshake" THEN missed ELSE missed \ {d}
    /\ down' = [down EXCEPT ![d] = Tail(@)]
    /\ UNCHANGED <<engineVars, agentVars, link, greeted>>

\* A released client goes back to the lobby: reset_for_lobby.
Lobby(d) ==
    /\ d \in devReleased
    /\ devReleased' = devReleased \ {d}
    /\ devRole' = [devRole EXCEPT ![d] = None]
    /\ UNCHANGED <<engineVars, agentVars, link, down, greeted, missed>>

\* The link goes down with all that was on it; the device keeps its role.
LinkDown(d) ==
    /\ "linkLoss" \in Accidents
    /\ d \in link
    /\ link' = link \ {d}
    /\ down' = [down EXCEPT ![d] = <<>>]
    /\ missed' = IF Underway(d, {"role", "release"})
                 THEN missed \cup {d} ELSE missed
    /\ UNCHANGED <<engineVars, agentVars, devRole, devReleased, greeted>>

LinkUp(d) ==
    /\ d \notin link
    /\ link' = link \cup {d}
    /\ UNCHANGED <<engineVars, agentVars, down, devRole, devReleased, greeted,
                   missed>>

-----------------------------------------------------------------------------
DeviceStep(d) == Receive(d) \/ Lobby(d)

Next ==
    \/ \E d \in Dev :
         \/ Hello(d) \/ Bind(d) \/ Gesture(d) \/ RoomHandshake(d)
         \/ GoSilent(d) \/ Reap(d)
         \/ Invite(d) \/ RenderFade(d)
         \/ DeviceStep(d) \/ LinkDown(d) \/ LinkUp(d)
    \/ Load \/ Run \/ Unload

Spec == Init /\ [][Next]_vars

-----------------------------------------------------------------------------
\* Type invariant: the bookkeeping of agent, transport and device is well
\* formed, a fade is counted to at most its bound, and silence and reaping
\* speak of pooled devices only.
TypeOK ==
    /\ phase \in {"idle", "setup", "running"}
    /\ told \in [Dev -> Role \cup {None}]
    /\ fixtures \subseteq Dev /\ bound \subseteq Dev
    /\ silent \subseteq pool /\ pool \subseteq Dev
    /\ bridge \subseteq Dev /\ revived \subseteq Dev /\ conn \subseteq Dev
    /\ closing \in [Dev -> {NotClosing} \cup 0 .. (MaxClosing - 1)]
    /\ link \subseteq Dev
    /\ down \in [Dev -> Seq(Msg)]
    /\ \A d \in Dev : Len(down[d]) <= MaxDown
    /\ devRole \in [Dev -> Role \cup {None}]
    /\ devReleased \subseteq Dev
    /\ greeted \subseteq Dev /\ missed \subseteq Dev

\* The mark that a device spoke during its fade lives no longer than the fade,
\* and a fade has a bridge to render (the comment on _closing_revived,
\* devicelink/agent.py:192: "it can never outlive the fade it was recorded for").
MarksFollowFades == revived \subseteq Fading /\ Fading \subseteq bridge

\* No bridge outlives its role: one that is not fading belongs to a device
\* GameServer has told of a role, and that is no fixture.
BridgesHaveRoles ==
    \A d \in bridge \ Fading : told[d] # None /\ d \notin fixtures

\* Every player is lit: whoever was told of a role has a bridge, and the fade
\* of an earlier role does not run in it.
PlayersAreLit == \A d \in Dev : told[d] # None => d \in bridge \ Fading

\* The end of a fade never drops the connection of a device that came back
\* while it ran (_finish_release): who said who it is, is bound.
FreshConnectionKept == greeted \subseteq conn

\* Every device whose bridge is lit can be sent its frames.
LitDevicesReachable == bridge \ Fading \subseteq conn

\* Nothing is under way that would change what d believes.
Settled(d) ==
    ~Underway(d, {"role", "release"}) /\ d \notin devReleased \cup missed

\* A device that plays has had its /role, the latest one, unless the message
\* was lost with the link.
RoleReaches ==
    \A d \in bridge \ Fading : Settled(d) => devRole[d] = told[d]

\* A device whose role has ended has heard of it once its fade is over.  (A
\* device that became a fixture hears of it at the end of the round.)
ReleaseReaches ==
    \A d \in Dev \ (bridge \cup fixtures) :
        Settled(d) /\ told[d] = None => devRole[d] = None

\* What the agent sends about roles arrives, over fades that overlap, devices
\* that fall silent and come back, fixtures that change hands and lost links:
\* who plays knows its role, and who does not, knows that.
ToldIsHeard == RoleReaches /\ ReleaseReaches

\* The order of grants and releases the agent is written for.
T == INSTANCE Telling WITH open <- phase = "running"
TellsInTurn == T!Spec
=============================================================================
