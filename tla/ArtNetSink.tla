----------------------------- MODULE ArtNetSink -----------------------------
(***************************************************************************)
(* One Room fixture's frames on their way to an Art-Net controller         *)
(* (devicelink/artnet_sink.py), with the two places of the DeviceLink      *)
(* agent that drive it: _render_room, which hands a changed frame to the   *)
(* sink from the engine's tick, and _close_outputs, which stops it.        *)
(*                                                                         *)
(* Two threads meet here.  The engine pushes a frame with the time it is   *)
(* due, the sender thread sleeps until the next one is due and sends the   *)
(* newest of those that are; each `with self._cond` block is one step, and *)
(* everything between two of them interleaves.  A controller shows the     *)
(* datagram it got last, and a datagram may be lost.                       *)
(*                                                                         *)
(* Frames are numbers, in the order they were rendered; 0 is black.  Time  *)
(* is counted in units; a thread's step takes no time or any amount of it. *)
(***************************************************************************)
EXTENDS Naturals, SequencesExt, TimedQueue

CONSTANTS
    Horizon,     \* how far ahead of the clock a frame is due (cue_horizon)
    Lead,        \* the controller's latency, taken off that
    KeepAlive,   \* resend after so long without a frame
    Patience,    \* close() waits so long for the sender (_CLOSE_JOIN_S)
    MaxFrames,   \* bound: frames rendered
    MaxFaults,   \* bound: datagrams lost, sends that raise
    Accidents    \* of {"lost", "error", "gesture"}

ASSUME SinkAssumption ==
    /\ Horizon \in Nat /\ Lead \in Nat
    /\ KeepAlive \in Nat \ {0} /\ Patience \in Nat \ {0}
    /\ MaxFrames \in Nat /\ MaxFaults \in Nat
    /\ Accidents \subseteq {"lost", "error", "gesture"}

NoFrame == MaxFrames + 1      \* `None`

VARIABLES
    queue,     \* self._queue
    stop,      \* self._stop
    pc,        \* where the sender thread is
    wake,      \* time until it means to wake up again
    signalled, \* it was notified while it waited
    chosen,    \* the frame it is about to send
    last,      \* self._last
    rest,      \* time since self._last_sent_at, up to KeepAlive
    engine,    \* the tick thread: "running", then close()'s steps, "closed"
    grace,     \* what is left of close()'s join timeout
    stuck,     \* thread_stuck
    frame,     \* the newest frame rendered
    shown,     \* what the controller shows
    faults     \* datagrams lost and sends that raised, so far

sender == <<pc, wake, chosen, last>>
closing == <<stop, engine, grace, stuck>>
light == <<shown, faults>>
vars == <<queue, signalled, rest, frame, sender, closing, light>>

\* ArtNetFixtureSink.__init__ and start: the thread is about to look at _stop.
Init ==
    /\ queue = <<>> /\ stop = FALSE
    /\ pc = "check" /\ wake = 0 /\ signalled = FALSE
    /\ chosen = NoFrame /\ last = NoFrame /\ rest = 0
    /\ engine = "running" /\ grace = 0 /\ stuck = FALSE
    /\ frame = 0 /\ shown = 0 /\ faults = 0

Sooner(a, b) == IF a <= b THEN a ELSE b
Less(a, b) == IF a <= b THEN 0 ELSE a - b

\* Condition.notify: wakes the sender if it is waiting, and is lost if not.
Notify == signalled' = (pc = "wait")

-----------------------------------------------------------------------------
(* The engine's tick                                                       *)

\* A frame is due a horizon after it was rendered.  One that a cue produced
\* carries the cue's own time, which counts from the gesture behind it and may
\* so be earlier than that (_FixtureState.pending_at).
Waits == {Less(Horizon, Lead)} \cup
          (IF "gesture" \in Accidents THEN 0 .. Less(Horizon, Lead) ELSE {})

\* _render_room hands a changed frame over; send_frame.
Render ==
    /\ engine = "running" /\ frame < MaxFrames
    /\ frame' = frame + 1
    /\ \E left \in Waits : queue' = Push(queue, left, frame')
    /\ Notify
    /\ UNCHANGED <<rest, sender, closing, light>>

\* close(): raise the flag, wake the sender ...
Close ==
    /\ engine = "running"
    /\ engine' = "join" /\ stop' = TRUE /\ grace' = Patience
    /\ Notify
    /\ UNCHANGED <<queue, stuck, rest, frame, sender, light>>

\* ... wait for it to leave, for so long; a thread that is still inside a
\* backend call keeps the socket and the black frame is skipped ...
Joined ==
    /\ engine = "join" /\ (pc = "gone" \/ grace = 0)
    /\ stuck' = (pc # "gone")
    /\ engine' = IF pc = "gone" THEN "dark" ELSE "closed"
    /\ UNCHANGED <<queue, signalled, rest, frame, stop, grace, sender, light>>

\* What _send does to the controller: the datagram arrives, is lost, or the
\* backend raises and the failure is counted and swallowed.
Send(f) ==
    \/ shown' = f /\ UNCHANGED faults
    \/ /\ Accidents \cap {"lost", "error"} # {} /\ faults < MaxFaults
       /\ faults' = faults + 1 /\ UNCHANGED shown

\* ... and leave the array dark.
Darken ==
    /\ engine = "dark" /\ engine' = "closed"
    /\ Send(0)
    /\ UNCHANGED <<queue, signalled, rest, frame, stop, grace, stuck, sender>>

-----------------------------------------------------------------------------
(* The sender thread, _run                                                 *)

\* The flag is read under the lock, and again before the wait.
Check ==
    /\ pc = "check"
    /\ pc' = IF stop THEN "gone" ELSE "service"
    /\ UNCHANGED <<queue, signalled, rest, frame, wake, chosen, last, closing, light>>

\* Faulty variant: the frames that are due are sent from the oldest on.
OldestFirst == IF Due(queue) # <<>> THEN Head(Due(queue))
               ELSE IF last # NoFrame /\ rest = KeepAlive THEN last
               ELSE NoFrame

\* The newest of the frames that are due, else the last one if it is time to
\* repeat it (_service_once's choice).
Choice == IF Due(queue) # <<>> THEN Last(Due(queue))
          ELSE IF last # NoFrame /\ rest = KeepAlive THEN last
          ELSE NoFrame

\* _service_once under the lock: what is due leaves the queue, and the next
\* wake is the next frame's time or the next keepalive.  `last` and the time it
\* was sent at are this thread's alone; they are set here, with the clock value
\* the code takes here, and not after the send.
Service ==
    /\ pc = "service"
    /\ queue' = Rest(queue)
    /\ chosen' = Choice
    /\ last' = IF chosen' = NoFrame THEN last ELSE chosen'
    /\ rest' = IF chosen' = NoFrame THEN rest ELSE 0
    /\ LET repeat == IF last' = NoFrame THEN KeepAlive ELSE KeepAlive - rest'
       IN  wake' = IF queue' = <<>> THEN repeat
                   ELSE Sooner(NextDue(queue'), repeat)
    /\ pc' = IF chosen' = NoFrame THEN "settle" ELSE "send"
    /\ UNCHANGED <<signalled, frame, closing, light>>

\* The backend call, with no lock held.
Emit ==
    /\ pc = "send" /\ pc' = "settle"
    /\ Send(chosen)
    /\ chosen' = NoFrame
    /\ UNCHANGED <<queue, signalled, rest, frame, wake, last, closing>>

\* Faulty variant: the time computed before the send is slept out.
PauseAsComputed == wake

\* How long to sleep: a frame that was pushed since the lock was released
\* shortens the wait.
Pause == IF queue = <<>> THEN wake ELSE Sooner(wake, NextDue(queue))

\* The lock again: leave, go round at once, or wait.
Settle ==
    /\ pc = "settle"
    /\ pc' = IF stop THEN "gone" ELSE IF Pause = 0 THEN "check" ELSE "wait"
    /\ wake' = Pause
    /\ signalled' = FALSE
    /\ UNCHANGED <<queue, rest, frame, chosen, last, closing, light>>

\* Condition.wait returns: notified, or its time is up.
Wake ==
    /\ pc = "wait" /\ (signalled \/ wake = 0)
    /\ pc' = "check" /\ signalled' = FALSE
    /\ UNCHANGED <<queue, rest, frame, wake, chosen, last, closing, light>>

-----------------------------------------------------------------------------
\* One unit of time passes for everyone.  A clock that nobody reads any more
\* stands still.
Tick ==
    /\ engine # "closed" \/ pc # "gone"
    /\ queue' = Elapse(queue)
    /\ wake' = Less(wake, 1)
    /\ rest' = Sooner(rest + 1, KeepAlive)
    /\ grace' = Less(grace, 1)
    /\ UNCHANGED <<signalled, frame, pc, chosen, last, stop, engine, stuck, light>>

Engine == Joined \/ Darken
Sender == Check \/ Service \/ Emit \/ Settle \/ Wake
Next == Render \/ Close \/ Engine \/ Sender \/ Tick

\* Both threads run and time passes.  Nothing has to be rendered, and nobody
\* has to close the output.
Fairness == WF_vars(Engine) /\ WF_vars(Sender) /\ WF_vars(Tick)

Spec == Init /\ [][Next]_vars /\ Fairness

-----------------------------------------------------------------------------
(* Properties                                                              *)

\* The variables have their types.
TypeOK ==
    /\ queue \in Seq([left : 0 .. Horizon, load : 0 .. MaxFrames])
    /\ pc \in {"check", "service", "send", "settle", "wait", "gone"}
    /\ engine \in {"running", "join", "dark", "closed"}
    /\ stop \in BOOLEAN /\ signalled \in BOOLEAN /\ stuck \in BOOLEAN
    /\ wake \in Nat /\ rest \in 0 .. KeepAlive /\ grace \in 0 .. Patience
    /\ chosen \in 0 .. NoFrame /\ last \in 0 .. NoFrame
    /\ frame \in 0 .. MaxFrames /\ shown \in 0 .. MaxFrames
    /\ faults \in 0 .. MaxFaults

\* A sender that sleeps wakes up by the time the next frame is due, whatever
\* was pushed while it was sending (artnet_sink.py's comment at the second
\* lock: it "would sit until the keepalive").
WakesInTime ==
    pc = "wait" /\ ~signalled /\ queue # <<>> => wake <= NextDue(queue)

\* Once the black frame is next no frame of the sender thread reaches the
\* controller any more; only a thread that outlived the wait may still bring one
\* (close()'s thread_stuck).
DarkIsLast ==
    [][~stuck /\ engine \in {"dark", "closed"} => shown' \in {0, shown}]_vars

\* Unless it closes first, the controller comes to show a frame unless a newer
\* one takes its place, over datagrams that are lost and sends that raise: the
\* newest due frame is sent, and repeated.  What is dark stays dark.
ShowsTheLatest ==
    /\ \A f \in 1 .. MaxFrames :
          frame = f ~> (shown = f \/ frame # f \/ engine # "running")
    /\ DarkIsLast

=============================================================================
