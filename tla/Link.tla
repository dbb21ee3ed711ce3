-------------------------------- MODULE Link --------------------------------
(***************************************************************************)
(* One beat-capable device (harness/o2_shroom.py around a BeatLink), the   *)
(* wire, and what Control keeps of it: its place in the pool, its role and *)
(* its link monitor.  Each end runs once a second: a lap of the device's   *)
(* loop, a poll of the agent's.  The hazards are the wire (beats and their *)
(* replies go by UDP and are lost, doubled and late; hellos and roles go   *)
(* by TCP and live as long as their connection), a Control that restarts,  *)
(* a slot reaped while the device is away, and a device that sleeps.       *)
(*                                                                         *)
(* Which device gets which role is GameServer's; here a running round      *)
(* gives one to whoever is pooled.  A role is known by the epoch of the    *)
(* Control that gave it.                                                   *)
(***************************************************************************)
EXTENDS BeatLink, SequencesExt, FiniteSets

CONSTANTS
    LossWindow,  \* LOSS_WINDOW
    MaxEpoch,    \* bound: Controls that follow each other
    MaxTrouble   \* bound: accidents in one behaviour

ASSUME LinkAssumption == MaxEpoch \in Nat \ {0} /\ MaxTrouble \in Nat

-----------------------------------------------------------------------------
(* link_monitor.py: the sequence numbers Control keeps of a device's last   *)
(* beats, and the loss it reads from their gaps.                            *)

\* Faulty variant: a beat 0 is one more old number.
OnBeatNoReset(seqs, s) ==
    IF seqs = <<>> \/ s < Head(seqs) THEN <<s>>
    ELSE IF s > Last(seqs)
    THEN SubSeq(Append(seqs, s), IF Len(seqs) = LossWindow THEN 2 ELSE 1, Len(seqs) + 1)
    ELSE seqs

\* on_beat for a known device: seqs after a beat with number s.
OnBeat(seqs, s) ==
    IF s = 0 \/ seqs = <<>> \/ s < Head(seqs) THEN <<s>>
    ELSE IF s > Last(seqs)
    THEN SubSeq(Append(seqs, s), IF Len(seqs) = LossWindow THEN 2 ELSE 1, Len(seqs) + 1)
    ELSE seqs

\* How many beats _loss finds missing.
Loss(seqs) == IF Len(seqs) < 2 THEN 0 ELSE Last(seqs) - Head(seqs) + 1 - Len(seqs)

-----------------------------------------------------------------------------
VARIABLES
    beat,      \* the BeatLink
    role,      \* ShroomClient.config: the epoch of its Control, or None
    online,    \* o2lite has a connection to the hub
    seen,      \* was_linked: the loop's own view of it
    lapped,    \* the device had its lap this second
    polled,    \* and the agent its poll
    epoch,     \* DeviceLinkAgent.epoch
    running,   \* GameServer: a round is running
    pooled,    \* DevicePool knows the device
    silent,    \* for how long it has heard nothing of it
    given,     \* the role GameServer holds for it was sent
    bound,     \* O2LiteTransport._devs
    seqs,      \* LinkMonitor._links[dev].seqs
    up, down,  \* messages under way
    trouble,   \* accidents that may still happen
    clean,     \* history: every beat of this link came once and in turn
    met        \* history: a reply was heard before the role came

device == <<beat, role, online, seen, lapped>>
control == <<epoch, running, pooled, silent, given, bound, seqs, polled>>
linkVars == <<device, control, up, down, trouble, clean, met>>

\* So many accidents more.
Costs(n) == n <= trouble /\ trouble' = trouble - n
One(accident) == IF accident THEN 1 ELSE 0

HelloMsg == [verb |-> "hello", n |-> 0]
BeatMsg(n) == [verb |-> "beat", n |-> n]
RoleMsg == [verb |-> "role", n |-> epoch]
ReleaseMsg == [verb |-> "release", n |-> epoch]
LedsMsg == [verb |-> "leds", n |-> epoch]
Udp == {"beat", "leds"}

LinkInit ==
    /\ beat = LinkUp(NewLink) /\ role = None /\ online = TRUE /\ seen = TRUE
    /\ lapped = TRUE /\ polled = FALSE
    /\ epoch = 1 /\ running = FALSE /\ pooled = FALSE /\ silent = 0 /\ given = FALSE
    /\ bound = FALSE /\ seqs = <<>>
    /\ up = <<HelloMsg, BeatMsg(0)>> /\ down = <<>>
    /\ trouble = MaxTrouble /\ clean = TRUE /\ met = FALSE

\* Of the UDP messages under way, which arrive now and which are still to come:
\* one that does neither is lost, one that does both comes twice.
UdpIn(ms) == {i \in DOMAIN ms : ms[i].verb \in Udp}
Mishaps(ms, now, later) == Cardinality(later) + Cardinality(UdpIn(ms) \ (now \cup later))

\* TCP's arrive all and in order.
Pick(ms, at) == [i \in 1 .. Cardinality(at) |->
                   ms[CHOOSE j \in at : Cardinality({k \in at : k <= j}) = i]]
Arrived(ms, now) == Pick(ms, now \cup (DOMAIN ms \ UdpIn(ms)))
Beats(ms) == Pick(ms, {i \in DOMAIN ms : ms[i].verb = "beat"})

-----------------------------------------------------------------------------
(* The device's lap.                                                       *)

\* on_down: one message, on what the lap has made of the device so far.
Heard(st, m) ==
    LET b == OnControlMessage(st.b) IN
    CASE m.verb = "beat" ->
           LET fresh == NewEpoch(st.b, m.n) IN
           [st EXCEPT !.b = OnBeatReply(b, m.n), !.role = IF fresh THEN None ELSE @,
                      !.out = IF fresh THEN Append(@, HelloMsg) ELSE @]
      [] m.verb = "role" -> [st EXCEPT !.b = b, !.role = m.n]
      [] m.verb = "release" -> [st EXCEPT !.b = b, !.over = TRUE]
      [] OTHER -> [st EXCEPT !.b = b]

\* on_down, message by message.
HeardAll(ms, st) ==
    LET after[n \in 0 .. Len(ms)] == IF n = 0 THEN st ELSE Heard(after[n - 1], ms[n])
    IN  after[Len(ms)]

\* link_transition, from the loop's own view and not from the socket.
Transition(b, on) ==
    IF on /\ ~seen THEN LinkUp(b) ELSE IF seen /\ ~on THEN LinkDown(b) ELSE b

\* Faulty variant: only the socket is asked.
SeenAfterSocket(on, gaveUp) == on

\* The view the lap leaves: a transport it closed itself is one it must see
\* come back.
SeenAfter(on, gaveUp) == on /\ ~gaveUp

Lap ==
    /\ ~lapped /\ lapped' = TRUE
    /\ \E on \in BOOLEAN : \E now \in SUBSET UdpIn(down) : \E later \in SUBSET UdpIn(down) :
        /\ Costs(Mishaps(down, now, later) + One(online /\ ~on))
        /\ ~online /\ beat.heard > Grace => on    \* bound: an outage ends
        /\ LET st == HeardAll(Arrived(down, now),
                              [b |-> beat, role |-> role, out |-> <<>>, over |-> FALSE])
               b == Transition(st.b, on)
               fresh == on /\ ~seen
               beats == b.up /\ ~fresh
               gone == GivesUp(b)
           IN
           /\ beat' = Tick(b, beats)
           /\ role' = IF st.over THEN None ELSE st.role
           /\ online' = (on /\ ~gone)
           /\ seen' = SeenAfter(on, gone)
           /\ up' = (IF on /\ online THEN up ELSE Beats(up))
                    \o (IF on THEN st.out ELSE <<>>)
                    \o (IF fresh THEN <<HelloMsg, BeatMsg(0)>> ELSE <<>>)
                    \o (IF beats /\ ~gone THEN <<BeatMsg(b.seq)>> ELSE <<>>)
                    \o (IF ~gone /\ (HelloDue(b) \/ (st.over /\ on)) THEN <<HelloMsg>> ELSE <<>>)
           /\ down' = IF on /\ ~gone THEN Pick(down, later) ELSE <<>>
           /\ clean' = IF fresh THEN Beats(up) = <<>> ELSE clean
           /\ met' = IF st.role # role THEN beat.epoch # None ELSE met
    /\ UNCHANGED control

-----------------------------------------------------------------------------
(* Control's poll.                                                         *)

\* The connection is the hub's to use while the device has it.
Sent(ms) == IF online THEN ms ELSE <<>>

\* _handle: hello makes the pool entry, and a running round's walk-up gets its
\* role at once; any message of a pooled device is proof of life; a beat is
\* answered whether the device is pooled or not.
Handled(st, m) ==
    IF m.verb = "hello"
    THEN [st EXCEPT !.pooled = TRUE, !.bound = TRUE, !.silent = 0,
                    !.given = @ \/ running,
                    !.out = IF running /\ ~st.given THEN Append(@, RoleMsg) ELSE @]
    ELSE [st EXCEPT !.bound = TRUE, !.silent = IF st.pooled THEN 0 ELSE @,
                    !.seqs = IF st.pooled THEN OnBeat(@, m.n) ELSE @,
                    !.out = Append(@, BeatMsg(epoch))]

HandledAll(ms, st) ==
    LET after[n \in 0 .. Len(ms)] == IF n = 0 THEN st ELSE Handled(after[n - 1], ms[n])
    IN  after[Len(ms)]

Poll ==
    /\ ~polled /\ polled' = TRUE
    /\ \E lit \in BOOLEAN : \E now \in SUBSET UdpIn(up) : \E later \in SUBSET UdpIn(up) :
        /\ Costs(Mishaps(up, now, later))
        /\ LET st == HandledAll(Arrived(up, now),
                       [pooled |-> pooled, bound |-> bound, silent |-> silent,
                        given |-> given, seqs |-> seqs, out |-> <<>>])
               reaped == st.pooled /\ st.silent > Grace
           IN
           /\ pooled' = (st.pooled /\ ~reaped)
           /\ bound' = (st.bound /\ ~reaped)
           /\ given' = (st.given /\ ~reaped)
           /\ silent' = IF reaped THEN 0 ELSE st.silent
           /\ seqs' = IF reaped THEN <<>> ELSE st.seqs
           /\ lit => st.bound /\ st.pooled /\ Len(down) < 2
           /\ down' = down \o Sent(st.out \o (IF lit THEN <<LedsMsg>> ELSE <<>>)
                               \o (IF reaped /\ st.given THEN <<ReleaseMsg>> ELSE <<>>))
           /\ up' = Pick(up, later)
           /\ clean' = (clean /\ later = {} /\ now = UdpIn(up))
    /\ UNCHANGED <<device, epoch, running, met>>

\* run: every pooled device gets a role.
StartRound ==
    /\ ~running /\ running' = TRUE
    /\ given' = pooled
    /\ down' = down \o Sent(IF pooled /\ bound THEN <<RoleMsg>> ELSE <<>>)
    /\ UNCHANGED <<device, epoch, pooled, silent, bound, seqs, polled, up, trouble, clean, met>>

\* Control's process is replaced; the hub keeps the device's connection, and
\* what was under way to the old one is gone.
Restart ==
    /\ epoch < MaxEpoch /\ epoch' = epoch + 1 /\ Costs(1)
    /\ running' = FALSE /\ pooled' = FALSE /\ silent' = 0 /\ given' = FALSE
    /\ bound' = FALSE /\ seqs' = <<>> /\ up' = <<>>
    /\ UNCHANGED <<device, polled, down, clean, met>>

\* A second passes.  A device that sleeps has no lap in it (bound: until Control
\* has given it up).
Second ==
    /\ polled /\ (lapped \/ (pooled /\ silent <= Grace))
    /\ Costs(One(~lapped /\ silent < 2))
    /\ lapped' = FALSE /\ polled' = FALSE
    /\ beat' = Aged(beat)
    /\ silent' = IF pooled /\ silent <= Grace THEN silent + 1 ELSE silent
    /\ UNCHANGED <<role, online, seen, epoch, running, pooled, given, bound, seqs,
                   up, down, clean, met>>

LinkNext == Lap \/ Poll \/ StartRound \/ Restart \/ Second

\* Seconds pass, and each end runs in them.
LinkSpec == LinkInit /\ [][LinkNext]_linkVars /\ []<>polled /\ []<>~polled

-----------------------------------------------------------------------------
(* What must hold.                                                         *)

\* Once a device has heard the Control that runs now, it holds no role that it
\* got from an earlier one it had heard (BeatLink.on_beat_reply's DropRole).
RoleOfThisEpoch ==
    beat.state = "linked" /\ beat.epoch = epoch /\ met => role \in {None, epoch}

\* From its first beat on, a link whose beats all came once and in turn is
\* charged with no loss, whatever the links before it lost (LinkMonitor.on_beat).
NoLossNoBlame == clean /\ (\A i \in DOMAIN up : up[i] # BeatMsg(0)) => Loss(seqs) = 0

\* When the accidents end, the device is linked and stays so, whatever state
\* they left the two views of the link in (main's transport_dropped).
Relinks == <>[](beat.state = "linked")
=============================================================================
