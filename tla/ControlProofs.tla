---------------------------- MODULE ControlProofs ----------------------------
(***************************************************************************)
(* What Control's second threads keep: the Art-Net output's sender, for    *)
(* every horizon, latency, keepalive and patience and any number of frames *)
(* and faults; Arco and its drain thread, for every size of the terminal   *)
(* and every timeout; the panels, for any number of browsers, devices,     *)
(* fixtures and Rooms; and the installations made of them.  Then what the  *)
(* Console's sessions leave on the disk, what a boot reads from it and     *)
(* which lanes a Bit then writes, for any files, names, texts of           *)
(* terrarium.toml, Bits, gestures and number of commands.                  *)
(***************************************************************************)
EXTENDS Threads, Catalog, FiniteSetTheorems, SequenceTheorems, WellFoundedInduction, TLAPS

-----------------------------------------------------------------------------
(* The Art-Net output                                                      *)

Item == [left : 0 .. Horizon, load : 0 .. MaxFrames]

\* A thread that was joined is gone.
GoneWhenDark == engine \in {"dark", "closed"} /\ ~stuck => pc = "gone"

\* A sender that is about to send has chosen a frame.
SendsAFrame == pc = "send" => chosen # NoFrame

SinkInv == TypeOK /\ WakesInTime /\ GoneWhenDark /\ SendsAFrame

\* The type invariant without the queue's part.
ScalarsOK ==
    /\ pc \in {"check", "service", "send", "settle", "wait", "gone"}
    /\ engine \in {"running", "join", "dark", "closed"}
    /\ stop \in BOOLEAN /\ signalled \in BOOLEAN /\ stuck \in BOOLEAN
    /\ wake \in Nat /\ rest \in 0 .. KeepAlive /\ grace \in 0 .. Patience
    /\ chosen \in 0 .. NoFrame /\ last \in 0 .. NoFrame
    /\ frame \in 0 .. MaxFrames /\ shown \in 0 .. MaxFrames
    /\ faults \in 0 .. MaxFaults

LEMMA TypeParts == TypeOK <=> (queue \in Seq(Item) /\ ScalarsOK)
BY DEF TypeOK, ScalarsOK, Item

-----------------------------------------------------------------------------
(* The queue                                                               *)

\* The payloads due by a time are some of the queue's.
LEMMA DueByIsWithin ==
    ASSUME NEW q \in Seq(Item), NEW t \in Nat
    PROVE  DueBy(q, t) \in 0 .. Len(q)
<1> DEFINE early == {i \in DOMAIN q : q[i].left <= t}
<1>1. /\ Len(q) \in Nat
      /\ DOMAIN q = 1 .. Len(q)
  BY LenProperties
<1>2. /\ IsFiniteSet(1 .. Len(q))
      /\ Cardinality(1 .. Len(q)) = Len(q)
  <2>1. 1 \in Int /\ Len(q) \in Int
    BY <1>1
  <2>2. /\ IsFiniteSet(1 .. Len(q))
        /\ Cardinality(1 .. Len(q)) = IF 1 > Len(q) THEN 0 ELSE Len(q) - 1 + 1
    BY <2>1, FS_Interval
  <2> QED
    BY <1>1, <2>2
<1>3. early \subseteq 1 .. Len(q)
  BY <1>1
<1>4. /\ IsFiniteSet(early)
      /\ Cardinality(early) <= Len(q)
  BY <1>2, <1>3, FS_Subset
<1>5. Cardinality(early) \in Nat
  BY <1>4, FS_CardinalityType
<1> QED
  BY <1>1, <1>4, <1>5 DEF DueBy

\* A prefix and a suffix of a queue are queues.
LEMMA PartsAreQueues ==
    ASSUME NEW q \in Seq(Item), NEW n \in 0 .. Len(q)
    PROVE  /\ SubSeq(q, 1, n) \in Seq(Item)
           /\ SubSeq(q, n + 1, Len(q)) \in Seq(Item)
<1>1. Len(q) \in Nat
  BY LenProperties
<1>2. \A i \in 1 .. Len(q) : q[i] \in Item
  BY ElementOfSeq
<1> QED
  BY <1>1, <1>2, SubSeqProperties

\* push, due and the passing of time keep a queue a queue.
LEMMA PushKeepsQueue ==
    ASSUME NEW q \in Seq(Item), NEW left \in 0 .. Horizon, NEW load \in 0 .. MaxFrames
    PROVE  Push(q, left, load) \in Seq(Item)
<1>1. DueBy(q, left) \in 0 .. Len(q)
  BY DueByIsWithin
<1>2. /\ SubSeq(q, 1, DueBy(q, left)) \in Seq(Item)
      /\ SubSeq(q, DueBy(q, left) + 1, Len(q)) \in Seq(Item)
  BY <1>1, PartsAreQueues
<1>. DEFINE loads == <<load>>
            new == [i \in DOMAIN loads |-> [left |-> left, load |-> loads[i]]]
<1>3. new \in Seq(Item)
  <2>1. [left |-> left, load |-> load] \in Item
    BY DEF Item
  <2>2. new = <<[left |-> left, load |-> load]>>
    OBVIOUS
  <2>. QED BY <2>1, <2>2
<1>. HIDE DEF new
<1>4. PushAll(q, left, loads) \in Seq(Item)
  BY <1>2, <1>3, ConcatProperties DEF PushAll, new
<1>5. Push(q, left, load) = PushAll(q, left, loads)
  BY DEF Push
<1> QED
  BY <1>4, <1>5

LEMMA RestKeepsQueue ==
    ASSUME NEW q \in Seq(Item)
    PROVE  Rest(q) \in Seq(Item)
<1>1. DueBy(q, 0) \in 0 .. Len(q)
  BY DueByIsWithin
<1> QED
  BY <1>1, PartsAreQueues DEF Rest

LEMMA ElapseKeepsQueue ==
    ASSUME NEW q \in Seq(Item), Horizon \in Nat
    PROVE  /\ Elapse(q) \in Seq(Item)
           /\ Elapse(q) # <<>> => q # <<>>
           /\ q # <<>> => NextDue(Elapse(q)) = Less(NextDue(q), 1)
<1>1. /\ Len(q) \in Nat
      /\ DOMAIN q = 1 .. Len(q)
      /\ \A i \in 1 .. Len(q) : q[i] \in Item
  BY LenProperties, ElementOfSeq
<1>2. ASSUME NEW i \in 1 .. Len(q)
      PROVE  /\ Elapse(q)[i] \in Item
             /\ Elapse(q)[i].left = Less(q[i].left, 1)
  <2>1. q[i] \in Item /\ q[i].left \in 0 .. Horizon
    BY <1>1 DEF Item
  <2>2. Elapse(q)[i] = [q[i] EXCEPT !.left = IF q[i].left = 0 THEN 0 ELSE q[i].left - 1]
    BY <1>1 DEF Elapse
  <2>3. (IF q[i].left = 0 THEN 0 ELSE q[i].left - 1) \in 0 .. Horizon
    BY <2>1
  <2>4. (IF q[i].left = 0 THEN 0 ELSE q[i].left - 1) = Less(q[i].left, 1)
    BY <2>1 DEF Less
  <2> QED
    BY <2>1, <2>2, <2>3, <2>4 DEF Item
<1>3. Elapse(q) \in Seq(Item)
  <2>1. Elapse(q) = [i \in 1 .. Len(q) |-> Elapse(q)[i]]
    BY <1>1 DEF Elapse
  <2> QED
    BY <1>1, <1>2, <2>1
<1>4. Elapse(q) # <<>> => q # <<>>
  <2>1. DOMAIN Elapse(q) = DOMAIN q
    BY DEF Elapse
  <2>2. q = <<>> => DOMAIN Elapse(q) = {}
    BY <2>1
  <2> QED
    BY <1>3, <2>2, <1>1, <2>1, EmptySeq, LenProperties
<1>5. q # <<>> => NextDue(Elapse(q)) = Less(NextDue(q), 1)
  <2>1. q # <<>> => 1 \in 1 .. Len(q)
    BY <1>1, EmptySeq
  <2>2. Head(q) = q[1] /\ Head(Elapse(q)) = Elapse(q)[1]
    BY <1>3
  <2> QED
    BY <1>2, <2>1, <2>2 DEF NextDue
<1> QED
  BY <1>3, <1>4, <1>5

\* The next due time, and any frame that is due, of a queue.
LEMMA NextDueType ==
    ASSUME NEW q \in Seq(Item), q # <<>>
    PROVE  NextDue(q) \in 0 .. Horizon
<1>1. Head(q) \in Item
  BY HeadTailProperties
<1> QED
  BY <1>1 DEF NextDue, Item

LEMMA DueType ==
    ASSUME NEW q \in Seq(Item), Due(q) # <<>>
    PROVE  Last(Due(q)) \in 0 .. MaxFrames
<1>1. /\ Len(q) \in Nat
      /\ \A i \in 1 .. Len(q) : q[i] \in Item
  BY LenProperties, ElementOfSeq
<1>2. DueBy(q, 0) \in 0 .. Len(q)
  BY DueByIsWithin
<1>3. \A i \in 1 .. DueBy(q, 0) : q[i].load \in 0 .. MaxFrames
  BY <1>1, <1>2 DEF Item
<1>4. Due(q) \in Seq(0 .. MaxFrames)
  <2> DEFINE n == DueBy(q, 0)
  <2>1. n \in Nat
    BY <1>1, <1>2
  <2>2. Due(q) = [i \in 1 .. n |-> q[i].load]
    BY DEF Due
  <2>3. \A i \in 1 .. n : q[i].load \in 0 .. MaxFrames
    BY <1>3
  <2> HIDE DEF n
  <2> QED
    BY <2>1, <2>2, <2>3
<1>5. Len(Due(q)) \in 1 .. Len(Due(q))
  BY <1>4, EmptySeq, LenProperties
<1> QED
  BY <1>4, <1>5, ElementOfSeq DEF Last

-----------------------------------------------------------------------------
(* The output's steps                                                      *)

LEMMA InitKeeps == Init => SinkInv
<1> SUFFICES ASSUME Init PROVE SinkInv
  OBVIOUS
<1>1. queue \in Seq(Item)
  BY EmptySeq DEF Init
<1>2. ScalarsOK
  <2>1. /\ NoFrame \in 0 .. NoFrame
        /\ 0 \in 0 .. KeepAlive /\ 0 \in 0 .. Patience
        /\ 0 \in 0 .. MaxFrames /\ 0 \in 0 .. MaxFaults
    BY SinkAssumption DEF SinkAssumption, NoFrame
  <2> QED
    BY <2>1 DEF Init, ScalarsOK
<1> QED
  BY <1>1, <1>2, TypeParts DEF Init, SinkInv, WakesInTime, GoneWhenDark, SendsAFrame

\* A frame that is rendered goes into the queue, and wakes a waiting sender.
LEMMA RenderKeeps ==
    ASSUME SinkInv, Render
    PROVE  SinkInv'
<1>1. PICK left \in Waits : queue' = Push(queue, left, frame')
  BY DEF Render
<1>2. left \in 0 .. Horizon
  BY SinkAssumption DEF Waits, Less, SinkAssumption
<1>3. frame' \in 0 .. MaxFrames
  BY SinkAssumption DEF Render, SinkInv, TypeOK, SinkAssumption
<1>4. queue' \in Seq(Item)
  BY <1>1, <1>2, <1>3, PushKeepsQueue
  DEF SinkInv, TypeOK, SinkAssumption, Item
<1>5. TypeOK'
  BY <1>3, <1>4 DEF Render, Notify, SinkInv, TypeOK, Item, sender, closing, light, NoFrame
<1>6. WakesInTime'
  BY DEF Render, Notify, WakesInTime, sender
<1>7. GoneWhenDark'
  BY DEF Render, SinkInv, GoneWhenDark, sender, closing
<1>8. SendsAFrame'
  BY DEF SinkInv, SendsAFrame, Render, sender
<1> QED
  BY <1>5, <1>6, <1>7, <1>8 DEF SinkInv

\* What the tick thread does to close, and a datagram's fate.
LEMMA ClosingKeeps ==
    ASSUME SinkInv, Close \/ Joined \/ Darken
    PROVE  SinkInv'
<1>1. TypeOK'
  <2>1. queue' \in Seq(Item)
    BY TypeParts DEF SinkInv, Close, Joined, Darken
  <2>2. ScalarsOK
    BY TypeParts DEF SinkInv
  <2>3. ASSUME Close PROVE ScalarsOK'
    BY <2>2, <2>3, SinkAssumption
    DEF ScalarsOK, Close, Notify, sender, light, SinkAssumption, NoFrame
  <2>4. ASSUME Joined PROVE ScalarsOK'
    BY <2>2, <2>4 DEF ScalarsOK, Joined, sender, light
  <2>5. ASSUME Darken PROVE ScalarsOK'
    BY <2>2, <2>5, SinkAssumption DEF ScalarsOK, Darken, Send, sender, SinkAssumption
  <2> QED
    BY <2>1, <2>3, <2>4, <2>5 DEF TypeOK, ScalarsOK, Item
<1>2. WakesInTime'
  BY DEF SinkInv, WakesInTime, Close, Joined, Darken, Notify, sender
<1>3. GoneWhenDark'
  BY DEF SinkInv, GoneWhenDark, Close, Joined, Darken, sender
<1>4. SendsAFrame'
  BY DEF SinkInv, SendsAFrame, Close, Joined, Darken, sender
<1> QED
  BY <1>1, <1>2, <1>3, <1>4 DEF SinkInv

\* What is left of a span lies within it.
LEMMA LeftOver ==
    ASSUME NEW k \in Nat, NEW r \in 0 .. k
    PROVE  k - r \in Nat
OBVIOUS

\* The sender takes what is due and sets its next wake.
LEMMA ServiceKeeps ==
    ASSUME SinkInv, Service
    PROVE  SinkInv'
<1>1. queue' \in Seq(Item)
  BY RestKeepsQueue, TypeParts DEF SinkInv, Service
<1>2. chosen' \in 0 .. NoFrame
  <2>1. queue \in Seq(Item) /\ last \in 0 .. NoFrame
    BY TypeParts DEF SinkInv, ScalarsOK
  <2>2. Due(queue) # <<>> => Last(Due(queue)) \in 0 .. NoFrame
    BY <2>1, DueType, SinkAssumption DEF NoFrame, SinkAssumption
  <2>3. NoFrame \in 0 .. NoFrame
    BY SinkAssumption DEF NoFrame, SinkAssumption
  <2> QED
    BY <2>1, <2>2, <2>3 DEF Service, Choice
<1>3. last' \in 0 .. NoFrame
  BY <1>2 DEF SinkInv, TypeOK, Service
<1>4. rest' \in 0 .. KeepAlive
  BY SinkAssumption DEF SinkInv, TypeOK, Service, SinkAssumption
<1>5. wake' \in Nat
  <2> DEFINE repeat == IF last' = NoFrame THEN KeepAlive ELSE KeepAlive - rest'
  <2>1. repeat \in Nat
    <3>1. KeepAlive \in Nat
      BY SinkAssumption DEF SinkAssumption
    <3>2. KeepAlive - rest' \in Nat
      BY <3>1, <1>4, LeftOver
    <3> QED
      BY <3>1, <3>2
  <2>2. queue' # <<>> => NextDue(queue') \in Nat
    BY <1>1, NextDueType
  <2>3. wake' = IF queue' = <<>> THEN repeat ELSE Sooner(NextDue(queue'), repeat)
    BY DEF Service
  <2> QED
    BY <2>1, <2>2, <2>3 DEF Sooner
<1>6. TypeOK'
  BY <1>1, <1>2, <1>3, <1>4, <1>5
  DEF SinkInv, TypeOK, Service, Item, closing, light
<1>7. WakesInTime'
  BY DEF Service, WakesInTime
<1>8. GoneWhenDark'
  BY DEF SinkInv, GoneWhenDark, Service, closing
<1>9. SendsAFrame'
  BY DEF SinkInv, SendsAFrame, Service
<1> QED
  BY <1>6, <1>7, <1>8, <1>9 DEF SinkInv

\* What the sender does besides.  When it goes to sleep, it takes another look
\* at the queue.
LEMMA SettleKeeps ==
    ASSUME SinkInv, Settle
    PROVE  SinkInv'
<1>1. queue # <<>> => NextDue(queue) \in Nat
  BY NextDueType, TypeParts DEF SinkInv
<1>2. /\ wake' \in Nat
      /\ queue # <<>> => wake' <= NextDue(queue)
  BY <1>1 DEF SinkInv, TypeOK, Settle, Pause, Sooner
<1>3. TypeOK'
  BY <1>2 DEF SinkInv, TypeOK, Settle, closing, light
<1>4. WakesInTime'
  BY <1>2 DEF Settle, WakesInTime, NextDue
<1>5. GoneWhenDark'
  BY DEF SinkInv, GoneWhenDark, Settle, closing
<1>6. SendsAFrame'
  BY DEF SinkInv, SendsAFrame, Settle
<1> QED
  BY <1>3, <1>4, <1>5, <1>6 DEF SinkInv

LEMMA SenderKeeps ==
    ASSUME SinkInv, Check \/ Emit \/ Wake
    PROVE  SinkInv'
<1>1. TypeOK'
  <2>1. queue' \in Seq(Item)
    BY TypeParts DEF SinkInv, Check, Emit, Wake
  <2>2. ScalarsOK
    BY TypeParts DEF SinkInv
  <2>3. ASSUME Check PROVE ScalarsOK'
    BY <2>2, <2>3 DEF ScalarsOK, Check, closing, light
  <2>4. ASSUME Emit PROVE ScalarsOK'
    BY <2>2, <2>4, SinkAssumption
    DEF SinkInv, SendsAFrame, ScalarsOK, Emit, Send, closing, SinkAssumption, NoFrame
  <2>5. ASSUME Wake PROVE ScalarsOK'
    BY <2>2, <2>5 DEF ScalarsOK, Wake, closing, light
  <2> QED
    BY <2>1, <2>3, <2>4, <2>5 DEF TypeOK, ScalarsOK, Item
<1>2. WakesInTime'
  BY DEF SinkInv, WakesInTime, Check, Emit, Wake
<1>3. GoneWhenDark'
  BY DEF SinkInv, GoneWhenDark, Check, Emit, Wake, closing
<1>4. SendsAFrame'
  BY DEF SinkInv, SendsAFrame, Check, Emit, Wake
<1> QED
  BY <1>1, <1>2, <1>3, <1>4 DEF SinkInv

\* Time passes for the queue and for the sender's sleep alike.
LEMMA TickKeeps ==
    ASSUME SinkInv, Tick
    PROVE  SinkInv'
<1>1. /\ queue \in Seq(Item)
      /\ Horizon \in Nat
  BY SinkAssumption DEF SinkInv, TypeOK, Item, SinkAssumption
<1>2. /\ queue' \in Seq(Item)
      /\ queue' # <<>> => queue # <<>>
      /\ queue # <<>> => NextDue(queue') = Less(NextDue(queue), 1)
  BY <1>1, ElapseKeepsQueue DEF Tick
<1>3. queue # <<>> => NextDue(queue) \in Nat
  BY <1>1, NextDueType
<1>4. /\ wake' \in Nat
      /\ rest' \in 0 .. KeepAlive
      /\ grace' \in 0 .. Patience
  BY SinkAssumption DEF SinkInv, TypeOK, SinkAssumption, Tick, Less, Sooner
<1>5. TypeOK'
  BY <1>2, <1>4 DEF SinkInv, TypeOK, Tick, Item, light
<1>6. WakesInTime'
  <2> SUFFICES ASSUME pc = "wait", ~signalled, queue' # <<>>
               PROVE  wake' <= NextDue(queue')
    BY DEF Tick, WakesInTime, NextDue
  <2>1. wake \in Nat /\ wake <= NextDue(queue)
    BY <1>2 DEF SinkInv, TypeOK, WakesInTime
  <2>2. Less(wake, 1) <= Less(NextDue(queue), 1)
    BY <1>2, <1>3, <2>1 DEF Less
  <2> QED
    BY <1>2, <2>2 DEF Tick
<1>7. GoneWhenDark'
  BY DEF SinkInv, GoneWhenDark, Tick
<1>8. SendsAFrame'
  BY DEF SinkInv, SendsAFrame, Tick
<1> QED
  BY <1>5, <1>6, <1>7, <1>8 DEF SinkInv

LEMMA StutterKeeps ==
    ASSUME SinkInv, UNCHANGED vars
    PROVE  SinkInv'
BY DEF SinkInv, TypeOK, WakesInTime, NextDue, GoneWhenDark, SendsAFrame, vars, sender, closing, light

LEMMA NextKeeps == SinkInv /\ [Next]_vars => SinkInv'
<1> SUFFICES ASSUME SinkInv, [Next]_vars PROVE SinkInv'
  OBVIOUS
<1>1. CASE Render
  BY <1>1, RenderKeeps
<1>2. CASE Close \/ Engine
  BY <1>2, ClosingKeeps DEF Engine
<1>3. CASE Service
  BY <1>3, ServiceKeeps
<1>4. CASE Settle
  BY <1>4, SettleKeeps
<1>5. CASE Check \/ Emit \/ Wake
  BY <1>5, SenderKeeps
<1>6. CASE Tick
  BY <1>6, TickKeeps
<1>7. CASE UNCHANGED vars
  BY <1>7, StutterKeeps
<1> QED
  BY <1>1, <1>2, <1>3, <1>4, <1>5, <1>6, <1>7 DEF Next, Sender

-----------------------------------------------------------------------------
(* The output's theorems                                                   *)

\* The invariant holds always.
LEMMA SinkIsSound == Spec => []SinkInv
<1>1. Init => SinkInv
  BY InitKeeps
<1>2. SinkInv /\ [Next]_vars => SinkInv'
  BY NextKeeps
<1> QED
  BY <1>1, <1>2, PTL DEF Spec

\* Every variable of the sink keeps its type.
THEOREM TypeCorrect == Spec => []TypeOK
<1>1. SinkInv => TypeOK
  BY DEF SinkInv
<1> QED
  BY <1>1, SinkIsSound, PTL

\* A sender that sleeps wakes up by the time the next frame is due: a frame
\* pushed while it was sending is seen by its second look at the queue, and one
\* pushed while it sleeps wakes it (artnet_sink.py, _run and send_frame).
THEOREM NoFrameIsSleptThrough == Spec => []WakesInTime
<1>1. SinkInv => WakesInTime
  BY DEF SinkInv
<1> QED
  BY <1>1, SinkIsSound, PTL

\* Once close() has joined the thread, nothing but black reaches the controller:
\* only a thread that outlived the wait could still bring a frame.
THEOREM TheDarkFrameIsLast == Spec => DarkIsLast
<1>1. SinkInv /\ [Next]_vars =>
          [~stuck /\ engine \in {"dark", "closed"} => shown' \in {0, shown}]_vars
  <2> SUFFICES ASSUME SinkInv, Next, ~stuck, engine \in {"dark", "closed"}
               PROVE  shown' \in {0, shown}
    OBVIOUS
  <2>1. pc = "gone"
    BY DEF SinkInv, GoneWhenDark
  <2>2. CASE Render \/ Close \/ Joined
    BY <2>2 DEF Render, Close, Joined, light
  <2>3. CASE Darken
    BY <2>3 DEF Darken, Send
  <2>4. CASE Sender
    BY <2>1, <2>4 DEF Sender, Check, Service, Emit, Settle, Wake
  <2>5. CASE Tick
    BY <2>5 DEF Tick, light
  <2> QED
    BY <2>2, <2>3, <2>4, <2>5 DEF Next, Engine
<1> QED
  BY <1>1, SinkIsSound, PTL DEF Spec, DarkIsLast

-----------------------------------------------------------------------------
(* Arco's probes                                                           *)

\* Why a ready Arco has reset: a reply is sent by an Arco that did, and only a
\* reply sets zero.  Why the timeout is kept: a probe's waits for a connection or
\* a reply begin within the time that is left, and only pyarco's own wait runs on.
ProbesKept ==
    /\ budget \in Int /\ span \in Nat /\ asked \in Nat /\ replies \in Nat
    /\ wiped \in BOOLEAN /\ zero \in BOOLEAN
    /\ zero => wiped
    /\ replies > 0 => wiped
    /\ boot = "ready" => zero
    /\ boot \in {"connect", "recover"} => budget = span
    /\ boot = "reset" => budget >= span - ResetWait
    /\ budget >= -ResetWait

\* Initially no probe has begun.
LEMMA ProbesKeptInit == ASSUME PtyInit PROVE ProbesKept
<1>1. budget \in Int /\ span \in Nat /\ asked \in Nat /\ replies \in Nat /\ ~(replies > 0)
  BY DEF PtyInit
<1>2. budget >= -ResetWait
  BY ArcoPtyAssumption DEF PtyInit
<1>3. boot = "start" /\ zero = FALSE /\ wiped = FALSE
  BY DEF PtyInit
<1> QED BY <1>1, <1>2, <1>3, Zenon DEF ProbesKept

\* Arco and the drain thread leave the booting thread's waits alone; only a reset
\* adds a reply.
LEMMA OthersKeepProbes ==
    ASSUME ProbesKept, ArcoWrites \/ ArcoExits \/ ArcoResets \/ Draining
    PROVE  ProbesKept'
<1>1. CASE ArcoWrites \/ ArcoExits \/ Draining
  BY <1>1 DEF ProbesKept, ArcoWrites, ArcoExits, Draining, ReaderReads, ReaderEnds,
              ReaderRecords, ReaderTears, pyarco
<1>2. CASE ArcoResets
  BY <1>2 DEF ProbesKept, ArcoResets
<1> QED BY <1>1, <1>2

\* A probe begins with the time that is left and ends with a reply, with its wait
\* over, or with an Arco that is gone.
LEMMA BootingKeepsProbes ==
    ASSUME ProbesKept, Booting
    PROVE  ProbesKept'
<1> USE ArcoPtyAssumption
<1>1. CASE Start
  BY <1>1 DEF ProbesKept, Start, pyarco
<1>2. CASE ExecFails
  BY <1>2 DEF ProbesKept, ExecFails, pyarco
<1>3. CASE Look
  BY <1>3 DEF ProbesKept, Look, Probe
<1>4. CASE Connects
  BY <1>4 DEF ProbesKept, Connects
<1>5. CASE Zero
  BY <1>5 DEF ProbesKept, Zero
<1>6. CASE ProbeFails
  BY <1>6 DEF ProbesKept, ProbeFails, pyarco
<1> QED BY <1>1, <1>2, <1>3, <1>4, <1>5, <1>6 DEF Booting

\* Stopping touches neither the engine nor the budget.
LEMMA StoppingKeepsProbes ==
    ASSUME ProbesKept, Stopping
    PROVE  ProbesKept'
<1> USE ArcoPtyAssumption
<1>1. CASE Shutdown \/ StopLap
  BY <1>1 DEF ProbesKept, Shutdown, StopLap, Reaped, pyarco
<1>2. CASE ClosePty \/ Sweep \/ SweepTears \/ Leak \/ CloseLog
  BY <1>2 DEF ProbesKept, ClosePty, Sweep, SweepTears, Leak, CloseLog, pyarco
<1> QED BY <1>1, <1>2 DEF Stopping

\* Time takes as much from the budget as from a probe's wait.
LEMMA TimeKeepsProbes ==
    ASSUME ProbesKept, PtyTick
    PROVE  ProbesKept'
<1> USE ArcoPtyAssumption
<1>1. CASE InWait
  BY <1>1 DEF ProbesKept, PtyTick, InWait, pyarco
<1>2. CASE ~InWait
  BY <1>2 DEF ProbesKept, PtyTick, InWait, pyarco
<1> QED BY <1>1, <1>2

\* Every step keeps the probes' promise.
LEMMA ProbesStay == ProbesKept /\ [PtyNext]_ptyVars => ProbesKept'
<1> SUFFICES ASSUME ProbesKept, [PtyNext]_ptyVars PROVE ProbesKept'
  OBVIOUS
<1>1. CASE UNCHANGED ptyVars
  BY <1>1 DEF ProbesKept, ptyVars, pyarco
<1> QED BY <1>1, OthersKeepProbes, BootingKeepsProbes, StoppingKeepsProbes,
           TimeKeepsProbes DEF PtyNext

\* What ReadyIsTrue says, of what is kept.
LEMMA ProbesTell == ProbesKept => ReadyIsTrue
BY DEF ProbesKept, ReadyIsTrue

\* An Arco that is reported ready has done a reset, and the timeout is overrun by
\* pyarco's wait for a reset at most, for every size of the terminal and every
\* timeout.
THEOREM ReadyArcoHasReset == PtySpec => []ReadyIsTrue
BY ProbesKeptInit, ProbesStay, ProbesTell, PTL DEF PtySpec

-----------------------------------------------------------------------------
(* The console's log                                                       *)

\* The first n chunks.
FirstSaid(n) == [i \in 1 .. n |-> i]

\* What Arco said is in the log, in the hands of the drain thread, and in the
\* terminal, in this order; until the log is torn, or closed over a thread that
\* still reads.
NothingBetween ==
    torn \/ (boot = "closed" /\ master # "closed")
        \/ tape \o (taken \o pty) = FirstSaid(said)

\* Who has what, on both threads: a thread that is not recording has nothing in
\* hand; the thread is over only when the terminal is, or when it was told so, or
\* the log is torn; the log is open until the end; and the descriptor of an Arco
\* that was reaped is closed over an empty terminal.
ThreadsAgree ==
    /\ quit \in BOOLEAN /\ torn \in BOOLEAN /\ recording \in BOOLEAN
    /\ reader # "records" => taken = <<>>
    /\ reader = "done" => torn \/ quit \/ arco # "up"
    /\ quit => boot \in {"join", "shut", "closed"}
    /\ boot \notin {"start", "closed"} => recording
    /\ boot = "closed" /\ ~torn => ~recording
    /\ boot = "start" => /\ arco = "none" /\ reader = "none" /\ said = 0
                         /\ tape = <<>> /\ pty = <<>> /\ ~torn
    /\ master = "closed" => boot \in {"shut", "closed"} /\ reader = "done"
    /\ master = "closed" /\ arco = "reaped" => pty = <<>>

HeardInv ==
    /\ said \in Nat /\ tape \in Seq(Nat) /\ taken \in Seq(Nat) /\ pty \in Seq(Nat)
    /\ ThreadsAgree
    /\ torn \/ tape = FirstSaid(Len(tape))
    /\ NothingBetween

\* What is heard of the first n chunks is the first of them.
LEMMA PartOfSaid ==
    ASSUME NEW s \in Seq(Nat), NEW t \in Seq(Nat), NEW n \in Nat, s \o t = FirstSaid(n)
    PROVE  s = FirstSaid(Len(s)) /\ Len(s) + Len(t) = n
<1>1. /\ FirstSaid(n) \in Seq(Nat) /\ Len(FirstSaid(n)) = n
      /\ \A i \in 1 .. n : FirstSaid(n)[i] = i
  BY DEF FirstSaid
<1>2. Len(s) \in Nat /\ Len(t) \in Nat
  BY LenProperties
<1>3. /\ Len(s \o t) = Len(s) + Len(t)
      /\ \A i \in 1 .. Len(s) + Len(t) : (s \o t)[i] = IF i <= Len(s) THEN s[i] ELSE t[i - Len(s)]
  BY ConcatProperties
<1>4. \A i \in 1 .. Len(s) : s[i] = i
  BY <1>1, <1>2, <1>3
<1>5. /\ FirstSaid(Len(s)) \in Seq(Nat) /\ Len(FirstSaid(Len(s))) = Len(s)
      /\ \A i \in 1 .. Len(s) : FirstSaid(Len(s))[i] = i
  BY <1>2 DEF FirstSaid
<1>6. s = FirstSaid(Len(s))
  BY <1>4, <1>5, SeqEqual
<1> QED BY <1>1, <1>3, <1>6

\* The next chunk comes last.
LEMMA NextSaid ==
    ASSUME NEW s \in Seq(Nat), NEW n \in Nat, s = FirstSaid(n)
    PROVE  Append(s, n + 1) = FirstSaid(n + 1)
<1>1. Len(s) = n /\ \A i \in 1 .. n : s[i] = i
  BY DEF FirstSaid
<1>2. /\ Append(s, n + 1) \in Seq(Nat) /\ Len(Append(s, n + 1)) = n + 1
      /\ \A i \in 1 .. n + 1 : Append(s, n + 1)[i] = i
  BY <1>1
<1>3. /\ FirstSaid(n + 1) \in Seq(Nat) /\ Len(FirstSaid(n + 1)) = n + 1
      /\ \A i \in 1 .. n + 1 : FirstSaid(n + 1)[i] = i
  BY DEF FirstSaid
<1> QED BY <1>2, <1>3, SeqEqual

\* What is appended to the last of several pieces is appended to the whole.
LEMMA AppendLast ==
    ASSUME NEW s \in Seq(Nat), NEW t \in Seq(Nat), NEW x \in Nat
    PROVE  s \o Append(t, x) = Append(s \o t, x)
<1>1. Append(t, x) = t \o <<x>> /\ <<x>> \in Seq(Nat)
  BY AppendIsConcat
<1>2. s \o t \in Seq(Nat)
  BY ConcatProperties
<1>3. Append(s \o t, x) = (s \o t) \o <<x>>
  BY <1>2, AppendIsConcat
<1> QED BY <1>1, <1>3, ConcatAssociative

\* Initially nothing was said.
LEMMA HeardInit == ASSUME PtyInit PROVE HeardInv
<1>1. said \in Nat /\ tape \in Seq(Nat) /\ taken \in Seq(Nat) /\ pty \in Seq(Nat)
  BY DEF PtyInit
<1>2. ThreadsAgree
  BY DEF PtyInit, ThreadsAgree
<1>3. tape = FirstSaid(Len(tape)) /\ tape \o (taken \o pty) = FirstSaid(said)
  <2>1. <<>> \in Seq(Nat) /\ <<>> = FirstSaid(0) /\ Len(<<>>) = 0
    BY DEF FirstSaid
  <2>2. <<>> \o <<>> = <<>>
    BY <2>1, ConcatEmptySeq
  <2> QED BY <2>1, <2>2 DEF PtyInit
<1> QED BY <1>1, <1>2, <1>3 DEF HeardInv, NothingBetween

\* Every step keeps the threads in agreement.
LEMMA AgreeKept ==
    ASSUME HeardInv, PtyNext
    PROVE  ThreadsAgree'
<1> USE DEF HeardInv, ThreadsAgree, log, drain, console
<1>1. CASE ArcoWrites \/ ArcoExits \/ ArcoResets
  BY <1>1 DEF ArcoWrites, ArcoExits, ArcoResets
<1>2. CASE Start
  BY <1>2 DEF Start, Spawned
<1>3. CASE ExecFails
  BY <1>3 DEF ExecFails, Spawned
<1>4. CASE Look
  BY <1>4 DEF Look, Probe, Stays
<1>5. CASE Connects \/ Zero \/ ProbeFails
  BY <1>5 DEF Connects, Zero, ProbeFails
<1>6. CASE Shutdown \/ StopLap
  BY <1>6 DEF Shutdown, StopLap, Stays, Reaped
<1>7. CASE ClosePty \/ Leak \/ CloseLog
  BY <1>7 DEF ClosePty, Leak, CloseLog
<1>8. CASE Sweep \/ SweepTears
  <2>1. CASE Sweep
    BY <2>1 DEF Sweep, ReaderJoined
  <2>2. CASE SweepTears
    BY <2>2 DEF SweepTears, ReaderJoined
  <2> QED BY <1>8, <2>1, <2>2
<1>9. CASE Draining
  <2>1. CASE ReaderReads \/ ReaderEnds
    BY <2>1 DEF ReaderReads, ReaderEnds, ReaderOver, Stays
  <2>2. CASE ReaderRecords
    BY <2>2 DEF ReaderRecords
  <2>3. CASE ReaderTears
    BY <2>3 DEF ReaderTears
  <2> QED BY <1>9, <2>1, <2>2, <2>3 DEF Draining
<1>10. CASE PtyTick
  BY <1>10 DEF PtyTick
<1> QED BY <1>1, <1>2, <1>3, <1>4, <1>5, <1>6, <1>7, <1>8, <1>9, <1>10 DEF PtyNext, Booting, Stopping

\* The types of what was said and read, and the log itself.
LEMMA Written ==
    ASSUME HeardInv, ArcoWrites
    PROVE  HeardInv'
<1>1. ThreadsAgree'
  BY AgreeKept DEF PtyNext
<1>2. said' \in Nat /\ pty' \in Seq(Nat) /\ UNCHANGED <<tape, taken, torn, boot, master>>
  BY DEF HeardInv, ArcoWrites, log, drain
<1>3. ASSUME tape \o (taken \o pty) = FirstSaid(said)
      PROVE  tape' \o (taken' \o pty') = FirstSaid(said')
  <2>1. tape \in Seq(Nat) /\ taken \in Seq(Nat) /\ pty \in Seq(Nat) /\ said \in Nat /\ said + 1 \in Nat
    BY DEF HeardInv
  <2>2. taken \o pty \in Seq(Nat) /\ tape \o (taken \o pty) \in Seq(Nat)
    BY <2>1, ConcatProperties
  <2>3. said' = said + 1 /\ pty' = Append(pty, said + 1)
    BY DEF ArcoWrites
  <2>4. tape \o (taken \o Append(pty, said + 1)) = Append(tape \o (taken \o pty), said + 1)
    <3>1. taken \o Append(pty, said + 1) = Append(taken \o pty, said + 1)
      BY <2>1, AppendLast
    <3>2. tape \o Append(taken \o pty, said + 1) = Append(tape \o (taken \o pty), said + 1)
      BY <2>1, <2>2, AppendLast
    <3> QED BY <3>1, <3>2
  <2>5. Append(tape \o (taken \o pty), said + 1) = FirstSaid(said + 1)
    BY <1>3, <2>1, <2>2, NextSaid
  <2> QED BY <1>2, <2>3, <2>4, <2>5
<1> QED BY <1>1, <1>2, <1>3 DEF HeardInv, NothingBetween

\* The drain thread takes the first of what is there.
LEMMA TakenUp ==
    ASSUME HeardInv, ReaderReads
    PROVE  HeardInv'
<1>1. ThreadsAgree'
  BY AgreeKept DEF PtyNext, Draining
<1>2. PICK n \in 1 .. Len(pty) : taken' = SubSeq(pty, 1, n) /\ pty' = SubSeq(pty, n + 1, Len(pty))
  BY DEF ReaderReads
<1>3. taken = <<>> /\ pty \in Seq(Nat) /\ Len(pty) \in Nat
  BY DEF HeardInv, ThreadsAgree, ReaderReads
<1>4. taken' \o pty' = taken \o pty
  <2>1. SubSeq(pty, 1, n) \o SubSeq(pty, n + 1, Len(pty)) = SubSeq(pty, 1, Len(pty))
    <3>1. /\ 1 \in 1 .. Len(pty) + 1 /\ n \in 1 - 1 .. Len(pty)
          /\ Len(pty) \in n .. Len(pty)
      BY <1>3
    <3> QED BY <1>3, <3>1, ConcatAdjacentSubSeq
  <2>2. SubSeq(pty, 1, Len(pty)) = pty /\ <<>> \o pty = pty
    BY <1>3, SubSeqFull, ConcatEmptySeq
  <2> QED BY <1>2, <1>3, <2>1, <2>2
<1>5. taken' \in Seq(Nat) /\ pty' \in Seq(Nat)
  BY <1>2, <1>3
<1>6. UNCHANGED <<said, tape, torn, boot, master>>
  BY DEF ReaderReads, log
<1> QED BY <1>1, <1>4, <1>5, <1>6 DEF HeardInv, NothingBetween

\* A piece that is recorded moves into the log, if the log is open; a log that is
\* closed over a thread that still reads stays as it is.
LEMMA Recorded ==
    ASSUME HeardInv, ReaderRecords
    PROVE  HeardInv'
<1>1. ThreadsAgree'
  BY AgreeKept DEF PtyNext, Draining
<1>2. /\ tape \in Seq(Nat) /\ taken \in Seq(Nat) /\ pty \in Seq(Nat) /\ said \in Nat
      /\ UNCHANGED <<said, pty, torn, boot, master>> /\ taken' = <<>>
  BY DEF HeardInv, ReaderRecords, console
<1>3. <<>> \o pty = pty /\ <<>> \in Seq(Nat)
  BY <1>2, ConcatEmptySeq
<1>4. CASE recording
  <2>1. tape' = tape \o taken
    BY <1>4 DEF ReaderRecords, Record
  <2>2. tape' \in Seq(Nat) /\ tape' \o pty = tape \o (taken \o pty)
    BY <1>2, <2>1, ConcatProperties, ConcatAssociative
  <2>3. NothingBetween'
    BY <1>2, <1>3, <2>2 DEF HeardInv, NothingBetween
  <2>4. torn' \/ tape' = FirstSaid(Len(tape'))
    <3>1. ~torn => tape' \o pty = FirstSaid(said)
      BY <1>4, <2>2 DEF HeardInv, NothingBetween, ThreadsAgree
    <3> QED BY <1>2, <2>2, <3>1, PartOfSaid
  <2> QED BY <1>1, <1>2, <1>3, <2>2, <2>3, <2>4 DEF HeardInv
<1>5. CASE ~recording
  <2>1. tape' = tape
    BY <1>5 DEF ReaderRecords, Record
  <2>2. reader = "records" /\ (boot = "closed" /\ master # "closed")
    BY <1>5 DEF HeardInv, ThreadsAgree, ReaderRecords
  <2> QED BY <1>1, <1>2, <1>3, <2>1, <2>2 DEF HeardInv, NothingBetween
<1> QED BY <1>4, <1>5 DEF HeardInv, ThreadsAgree

\* The last read takes all that is left, and nobody has anything in hand.
LEMMA Swept ==
    ASSUME HeardInv, Sweep
    PROVE  HeardInv'
<1>1. ThreadsAgree'
  BY AgreeKept DEF PtyNext, Stopping
<1>2. /\ tape \in Seq(Nat) /\ taken = <<>> /\ pty \in Seq(Nat) /\ said \in Nat
      /\ recording /\ boot = "join"
      /\ UNCHANGED <<said, taken, torn>> /\ pty' = <<>>
  BY DEF HeardInv, ThreadsAgree, Sweep, ReaderJoined, drain
<1>3. tape' = tape \o pty /\ tape' \in Seq(Nat)
  BY <1>2, ConcatProperties DEF Sweep, Record
<1>4. torn \/ tape' = FirstSaid(said)
  <2>1. <<>> \o pty = pty
    BY <1>2, ConcatEmptySeq
  <2> QED BY <1>2, <1>3, <2>1 DEF HeardInv, NothingBetween
<1>5. tape' \o (taken' \o pty') = tape'
  BY <1>2, <1>3, ConcatEmptySeq
<1>6. torn' \/ tape' = FirstSaid(Len(tape'))
  <2>1. ~torn => Len(tape') = said
    BY <1>2, <1>4 DEF FirstSaid
  <2> QED BY <1>2, <1>4, <2>1
<1> QED BY <1>1, <1>2, <1>3, <1>4, <1>5, <1>6 DEF HeardInv, NothingBetween

\* A child that could not exec said one thing, and it is in the log already.
LEMMA ExecNoted ==
    ASSUME HeardInv, ExecFails
    PROVE  HeardInv'
<1>1. ThreadsAgree'
  BY AgreeKept DEF PtyNext, Booting
<1>2. /\ said' = 1 /\ tape' = <<1>> /\ pty' = <<>> /\ taken' = <<>>
  BY DEF HeardInv, ThreadsAgree, ExecFails
<1>3. <<1>> \in Seq(Nat) /\ <<>> \in Seq(Nat) /\ <<1>> = FirstSaid(1) /\ Len(<<1>>) = 1
  BY DEF FirstSaid
<1>4. <<1>> \o (<<>> \o <<>>) = <<1>>
  BY <1>3, ConcatEmptySeq
<1> QED BY <1>1, <1>2, <1>3, <1>4 DEF HeardInv, NothingBetween

\* Every other step leaves what was said where it is, unless it tears the log or
\* closes it over a thread that still reads.
LEMMA HeardKept ==
    ASSUME HeardInv, [PtyNext]_ptyVars
    PROVE  HeardInv'
<1> USE DEF console, drain, log
<1>1. CASE UNCHANGED ptyVars
  BY <1>1 DEF HeardInv, ThreadsAgree, NothingBetween, ptyVars
<1>2. CASE UNCHANGED <<said, tape, taken, pty, torn, master, boot>> /\ PtyNext
  <2>1. ThreadsAgree'
    BY <1>2, AgreeKept
  <2> QED BY <1>2, <2>1 DEF HeardInv, NothingBetween
<1>3. ASSUME PtyNext, UNCHANGED <<said, tape, taken, pty, torn>>,
             boot # "closed", boot' = "closed" => master' = master
      PROVE  HeardInv'
  <2>1. ThreadsAgree'
    BY <1>3, AgreeKept
  <2> QED BY <1>3, <2>1 DEF HeardInv, NothingBetween
<1>4. CASE Start \/ Look \/ Connects \/ Zero \/ ProbeFails
  <2>1. PtyNext
    BY <1>4 DEF PtyNext, Booting
  <2> QED BY <1>3, <1>4, <2>1 DEF Start, Look, Connects, Zero, ProbeFails
<1>5. CASE Shutdown \/ StopLap \/ ClosePty \/ Leak \/ CloseLog
  <2>1. PtyNext
    BY <1>5 DEF PtyNext, Stopping
  <2> QED BY <1>3, <1>5, <2>1 DEF Shutdown, StopLap, Reaped, ClosePty, Leak, CloseLog
<1>6. CASE ReaderTears \/ SweepTears
  <2>1. PtyNext
    BY <1>6 DEF PtyNext, Stopping, Draining
  <2>2. ThreadsAgree'
    BY <2>1, AgreeKept
  <2>3. torn' /\ said' = said /\ tape' = tape
    BY <1>6 DEF ReaderTears, SweepTears
  <2>4. taken' \in Seq(Nat) /\ pty' \in Seq(Nat)
    <3>1. ReaderTears => taken' = <<>> /\ pty' = pty
      BY DEF ReaderTears
    <3>2. SweepTears => taken' = taken /\ pty' = <<>>
      BY DEF SweepTears
    <3> QED BY <1>6, <3>1, <3>2, EmptySeq DEF HeardInv
  <2> QED BY <2>2, <2>3, <2>4 DEF HeardInv, NothingBetween
<1>7. CASE ArcoExits \/ ArcoResets \/ ReaderEnds \/ PtyTick
  BY <1>2, <1>7 DEF ArcoExits, ArcoResets, ReaderEnds, PtyTick, PtyNext, Draining
<1> QED BY <1>1, <1>4, <1>5, <1>6, <1>7, Written, TakenUp, Recorded, Swept, ExecNoted
        DEF PtyNext, Booting, Stopping, Draining

\* What HeardInFull says, of what is kept.
LEMMA HeardTells == HeardInv => HeardInFull
<1> SUFFICES ASSUME HeardInv PROVE HeardInFull
  OBVIOUS
<1>1. NeverStuck
  BY DEF HeardInv, ThreadsAgree, NeverStuck
<1>2. master = "closed" => reader = "done"
  BY DEF HeardInv, ThreadsAgree
<1>3. torn \/ tape = [i \in 1 .. Len(tape) |-> i]
  BY DEF HeardInv, FirstSaid
<1>4. ASSUME boot = "closed", master = "closed", arco = "reaped", ~torn
      PROVE  Len(tape) = said
  <2>1. taken = <<>> /\ pty = <<>> /\ tape \in Seq(Nat) /\ said \in Nat
    BY <1>4 DEF HeardInv, ThreadsAgree
  <2>2. tape \o (<<>> \o <<>>) = tape
    BY <2>1, ConcatEmptySeq, EmptySeq
  <2>3. tape = FirstSaid(said)
    BY <1>4, <2>1, <2>2 DEF HeardInv, NothingBetween
  <2> QED BY <2>1, <2>3 DEF FirstSaid
<1> QED BY <1>1, <1>2, <1>3, <1>4 DEF HeardInFull

\* The console's log holds what Arco said, once and in order, and of an Arco that
\* was reaped and closed all of it; and an Arco that is not being closed is never
\* stuck on a full terminal.  For every size of the terminal, any number of
\* chunks, and a drain thread that is as slow as it likes.
THEOREM ConsoleIsHeard == PtySpec => []HeardInFull
BY HeardInit, HeardKept, HeardTells, PTL DEF PtySpec

-----------------------------------------------------------------------------
(* The panels                                                              *)

\* The fields of a page.
Field == DOMAIN Blank

\* What each client was sent is a page.
ArePages(scr) ==
    /\ DOMAIN scr = Client /\ scr = [c \in Client |-> scr[c]]
    /\ \A c \in Client : DOMAIN scr[c] = Field /\ scr[c] = [x \in Field |-> scr[c][x]]

\* A device a page is told of, or one that walked up to a running round.
SeenAs(seen, is) == seen = is \/ (is = "jam" /\ seen = "known")

\* The page agrees with the house.
InStep(page, h) ==
    /\ page["phase"] = h.phase /\ page["active"] = h.room
    /\ page["roles"] = (h.phase # "IDLE")
    /\ \A d \in Player : SeenAs(page["devices"][d], h.devs[d])

\* The house's type.
HouseOK ==
    house \in [phase : {"IDLE", "SETUP", "RUNNING"}, room : Room \cup {Nothing},
               look : 0 .. 1, status : 0 .. 1,
               devs : [Player -> {"out", "known", "seated", "jam"}]]

\* Who has not met the Console has been sent nothing, and who has is in step.
PagesAgree ==
    /\ ArePages(screen)
    /\ \A c \in Client \ live : screen[c] = Blank
    /\ \A c \in live : screen[c]["met"] => InStep(screen[c], house)

\* A bench is a bench; a frame that waits is its newest, and without one the
\* pages show the newest.
BenchAgrees ==
    bench # Nothing =>
        /\ bench = [x \in DOMAIN NewBench |-> bench[x]]
        /\ bench.told # Nothing /\ benchHeld # Nothing => benchHeld = bench.told
        /\ bench.told # Nothing /\ benchHeld = Nothing
              => \A c \in live : screen[c]["bench"] \in {bench.told, Nothing}

PanelInv == HouseOK /\ live \subseteq Client /\ PagesAgree /\ BenchAgrees

\* What a broadcast changes, and nothing else.
LEMMA BroadcastReaches ==
    ASSUME NEW scr, ArePages(scr), NEW what \in Field, NEW view
    PROVE  /\ ArePages(Broadcast(scr, what, view))
           /\ \A c \in Client \ live : Broadcast(scr, what, view)[c] = scr[c]
           /\ \A c \in Client, x \in Field :
                 Broadcast(scr, what, view)[c][x] =
                     IF c \in live /\ x = what THEN view ELSE scr[c][x]
BY DEF ArePages, Broadcast

\* They are these.
LEMMA Fields ==
    Field = {"met", "phase", "active", "roles", "devices", "room", "funs", "status", "strip", "bench"}
BY DEF Field, Blank

\* Everyone live is told of the house as it is.
LEMMA AnnounceTells ==
    ASSUME NEW h, PanelInv, Announce(h)
    PROVE  /\ ArePages(screen')
           /\ \A c \in Client \ live : screen'[c] = screen[c]
           /\ \A c \in live : InStep(screen'[c], h)
           /\ \A c \in Client, x \in Field \ {"phase", "active", "roles", "devices"} :
                 screen'[c][x] = screen[c][x]
<1> DEFINE s1 == Broadcast(screen, "phase", h.phase)
           s2 == Broadcast(s1, "active", h.room)
           s3 == Broadcast(s2, "roles", h.phase # "IDLE")
           s4 == Broadcast(s3, "devices", DevicesView(h))
<1>0. ArePages(screen) /\ live \subseteq Client /\ {"phase", "active", "roles", "devices", "met", "bench"} \subseteq Field
  BY Fields DEF PanelInv, PagesAgree
<1>1. /\ ArePages(s1) /\ \A c \in Client \ live : s1[c] = screen[c]
      /\ \A c \in Client, x \in Field :
            s1[c][x] = IF c \in live /\ x = "phase" THEN h.phase ELSE screen[c][x]
  BY <1>0, BroadcastReaches
<1> HIDE DEF s1
<1>2. /\ ArePages(s2) /\ \A c \in Client \ live : s2[c] = s1[c]
      /\ \A c \in Client, x \in Field :
            s2[c][x] = IF c \in live /\ x = "active" THEN h.room ELSE s1[c][x]
  BY <1>0, <1>1, BroadcastReaches
<1> HIDE DEF s2
<1>3. /\ ArePages(s3) /\ \A c \in Client \ live : s3[c] = s2[c]
      /\ \A c \in Client, x \in Field :
            s3[c][x] = IF c \in live /\ x = "roles" THEN (h.phase # "IDLE") ELSE s2[c][x]
  BY <1>0, <1>2, BroadcastReaches
<1> HIDE DEF s3
<1>4. /\ ArePages(s4) /\ \A c \in Client \ live : s4[c] = s3[c]
      /\ \A c \in Client, x \in Field :
            s4[c][x] = IF c \in live /\ x = "devices" THEN DevicesView(h) ELSE s3[c][x]
  BY <1>0, <1>3, BroadcastReaches
<1>5. screen' = s4
  BY DEF Announce, s1, s2, s3
<1> HIDE DEF s4
<1>6. ASSUME NEW c \in live PROVE InStep(s4[c], h)
  <2>1. /\ s4[c]["phase"] = h.phase /\ s4[c]["active"] = h.room
        /\ s4[c]["devices"] = h.devs
    BY <1>0, <1>1, <1>2, <1>3, <1>4 DEF DevicesView
  <2>2. s4[c]["roles"] = (h.phase # "IDLE")
    <3>1. c \in Client /\ "roles" \in Field
      BY <1>0
    <3>2. s4[c]["roles"] = s3[c]["roles"]
      BY <1>4, <3>1
    <3>3. s3[c]["roles"] = (h.phase # "IDLE")
      BY <1>3, <3>1, Zenon
    <3> QED BY <3>2, <3>3
  <2> QED BY <2>1, <2>2 DEF InStep, SeenAs
<1>7. \A c \in Client, x \in Field \ {"phase", "active", "roles", "devices"} :
         s4[c][x] = screen[c][x]
  BY <1>0, <1>1, <1>2, <1>3, <1>4
<1>8. \A c \in Client \ live : s4[c] = screen[c]
  BY <1>1, <1>2, <1>3, <1>4
<1> QED BY <1>4, <1>5, <1>6, <1>7, <1>8

\* Initially nobody has been sent anything.
LEMMA PanelInitKeeps ==
    ASSUME NEW start \in Room \cup {Nothing}, PanelInit(start)
    PROVE  PanelInv
<1>1. HouseOK
  BY DEF PanelInit, HouseOK
<1>2. live = {} /\ bench = Nothing /\ screen = [c \in Client |-> Blank]
  BY DEF PanelInit
<1>3. Blank = [x \in Field |-> Blank[x]]
  BY DEF Blank, Field
<1>4. ArePages(screen)
  BY <1>2, <1>3 DEF ArePages, Field
<1> QED BY <1>1, <1>2, <1>4 DEF PanelInv, PagesAgree, BenchAgrees

\* A browser that connects has been sent nothing, and one that leaves is
\* forgotten.
LEMMA HandlersKeep ==
    ASSUME PanelInv, NEW c \in Client, Connect(c) \/ Drop(c)
    PROVE  PanelInv'
<1>0. Blank["met"] = FALSE /\ Blank["bench"] = Nothing /\ Blank = [x \in Field |-> Blank[x]]
  BY DEF Blank, Field
<1>1. HouseOK' /\ house' = house /\ bench' = bench /\ benchHeld' = benchHeld
  BY DEF PanelInv, HouseOK, Connect, Drop, trial
<1>2. CASE Connect(c)
  <2>1. live' = live \cup {c} /\ screen' = screen /\ c \notin live
    BY <1>2 DEF Connect
  <2>2. screen[c] = Blank
    BY <2>1 DEF PanelInv, PagesAgree
  <2>3. PagesAgree'
    BY <1>0, <1>1, <2>1, <2>2 DEF PanelInv, PagesAgree
  <2>4. BenchAgrees'
    BY <1>0, <1>1, <2>1, <2>2 DEF PanelInv, BenchAgrees
  <2> QED BY <1>1, <2>1, <2>3, <2>4 DEF PanelInv
<1>3. CASE Drop(c)
  <2>1. live' = live \ {c} /\ screen' = [screen EXCEPT ![c] = Blank]
    BY <1>3 DEF Drop
  <2>2. ArePages(screen')
    BY <1>0, <2>1 DEF PanelInv, PagesAgree, ArePages, Field
  <2>3. \A k \in Client : screen'[k] = IF k = c THEN Blank ELSE screen[k]
    BY <2>1 DEF PanelInv, PagesAgree, ArePages
  <2>4. PagesAgree'
    BY <1>1, <2>1, <2>2, <2>3 DEF PanelInv, PagesAgree
  <2>5. BenchAgrees'
    BY <1>1, <2>1, <2>3 DEF PanelInv, BenchAgrees
  <2> QED BY <1>1, <2>1, <2>4, <2>5 DEF PanelInv
<1> QED BY <1>2, <1>3

\* A change of the house that everyone is told of.
LEMMA AnnouncedKeeps ==
    ASSUME PanelInv, Announce(house'), HouseOK', UNCHANGED <<live, bench, benchHeld>>
    PROVE  PanelInv'
<1>1. /\ ArePages(screen')
      /\ \A c \in Client \ live : screen'[c] = screen[c]
      /\ \A c \in live : InStep(screen'[c], house')
      /\ \A c \in Client : screen'[c]["bench"] = screen[c]["bench"]
  BY AnnounceTells, Fields
<1>2. PagesAgree'
  BY <1>1 DEF PanelInv, PagesAgree
<1>3. BenchAgrees'
  BY <1>1 DEF PanelInv, BenchAgrees
<1> QED BY <1>2, <1>3 DEF PanelInv

\* The Bit and the Room come and go: everyone live is told in the same step.
LEMMA LifeKeeps ==
    ASSUME PanelInv, LoadBit \/ RunBit \/ EndBit \/ UnloadRoom \/ \E r \in Room : LoadRoom(r)
    PROVE  PanelInv'
<1>0. HouseOK
  BY DEF PanelInv
<1> USE DEF Engined, trial
<1>1. CASE LoadBit
  <2>1. house' = [house EXCEPT !.phase = "SETUP", !.status = 0] /\ Announce(house')
    BY <1>1 DEF LoadBit
  <2>2. UNCHANGED <<live, bench, benchHeld>>
    BY <1>1 DEF LoadBit
  <2>3. house' = [phase |-> "SETUP", room |-> house.room, look |-> house.look,
                  status |-> 0, devs |-> house.devs]
    BY <1>0, <2>1 DEF HouseOK
  <2>4. HouseOK'
    BY <1>0, <2>3 DEF HouseOK
  <2> QED BY <2>1, <2>2, <2>4, AnnouncedKeeps
<1>2. CASE RunBit
  <2>1. PICK who \in SUBSET {d \in Player : house.devs[d] = "known"} :
           /\ house' = [house EXCEPT !.phase = "RUNNING", !.devs =
                           [d \in Player |-> IF d \in who THEN "seated" ELSE @[d]]]
           /\ Announce(house') /\ UNCHANGED <<live, bench, benchHeld>>
    BY <1>2 DEF RunBit
  <2>2. HouseOK'
    BY <1>0, <2>1 DEF HouseOK
  <2> QED BY <2>1, <2>2, AnnouncedKeeps
<1>3. CASE EndBit
  <2>1. house' = [house EXCEPT !.phase = "IDLE", !.devs = Unseated(@)] /\ Announce(house')
    BY <1>3 DEF EndBit
  <2>2. UNCHANGED <<live, bench, benchHeld>>
    BY <1>3 DEF EndBit
  <2>3. house' = [phase |-> "IDLE", room |-> house.room, look |-> house.look,
                  status |-> house.status, devs |-> Unseated(house.devs)]
    BY <1>0, <2>1 DEF HouseOK
  <2>4. HouseOK'
    BY <1>0, <2>3 DEF HouseOK, Unseated
  <2> QED BY <2>1, <2>2, <2>4, AnnouncedKeeps
<1>4. CASE UnloadRoom
  <2>1. /\ house' = [house EXCEPT !.phase = "IDLE", !.room = Nothing,
                                  !.devs = [d \in Player |-> "out"]]
        /\ Announce(house')
    BY <1>4 DEF UnloadRoom
  <2>2. UNCHANGED <<live, bench, benchHeld>>
    BY <1>4 DEF UnloadRoom
  <2>3. house' = [phase |-> "IDLE", room |-> Nothing, look |-> house.look,
                  status |-> house.status, devs |-> [d \in Player |-> "out"]]
    BY <1>0, <2>1 DEF HouseOK
  <2>4. HouseOK'
    BY <1>0, <2>3 DEF HouseOK
  <2> QED BY <2>1, <2>2, <2>4, AnnouncedKeeps
<1>5. ASSUME NEW r \in Room, LoadRoom(r) PROVE PanelInv'
  <2>1. house' = [house EXCEPT !.room = r] /\ Announce(house')
    BY <1>5 DEF LoadRoom
  <2>2. HouseOK' /\ UNCHANGED <<live, bench, benchHeld>>
    BY <1>0, <1>5, <2>1 DEF LoadRoom, HouseOK
  <2> QED BY <2>1, <2>2, AnnouncedKeeps
<1> QED BY <1>1, <1>2, <1>3, <1>4, <1>5

\* What is not announced is no page's concern.
LEMMA QuietKeeps ==
    ASSUME PanelInv, (\E what \in {"look", "status"} : Turn(what)) \/ \E f \in Fixture : RoomFrame(f)
    PROVE  PanelInv'
<1>1. CASE \E what \in {"look", "status"} : Turn(what)
  <2>1. PICK what \in {"look", "status"} : Turn(what)
    BY <1>1
  <2>2. /\ house' = [house EXCEPT ![what] = 1 - @]
        /\ UNCHANGED <<live, screen, bench, benchHeld>>
    BY <2>1 DEF Turn, Engined, trial
  <2>3. HouseOK' /\ house'.phase = house.phase /\ house'.room = house.room /\ house'.devs = house.devs
    BY <2>2 DEF PanelInv, HouseOK
  <2> QED BY <2>2, <2>3 DEF PanelInv, PagesAgree, InStep, BenchAgrees
<1>2. CASE \E f \in Fixture : RoomFrame(f)
  BY <1>2 DEF RoomFrame, trial, PanelInv, HouseOK, PagesAgree, BenchAgrees
<1> QED BY <1>1, <1>2

\* Who comes and who goes is announced, with everyone else as they are.
LEMMA DevicesKeep ==
    ASSUME PanelInv, NEW d \in Player, WalkUp(d) \/ Reap(d)
    PROVE  PanelInv'
<1>0. HouseOK /\ ArePages(screen) /\ live \subseteq Client
      /\ {"phase", "active", "roles", "devices", "met", "bench"} \subseteq Field
  BY Fields DEF PanelInv, PagesAgree
<1>1. PICK told : /\ screen' = Broadcast(screen, "devices", told)
                  /\ \A p \in Player : SeenAs(told[p], house'.devs[p])
                  /\ HouseOK' /\ house'.phase = house.phase /\ house'.room = house.room
                  /\ UNCHANGED <<live, bench, benchHeld>>
  <2>1. CASE WalkUp(d)
    <3>1. screen' = Broadcast(screen, "devices", DevicesView([house EXCEPT !.devs[d] = "known"]))
          /\ UNCHANGED <<live, bench, benchHeld>>
      BY <2>1 DEF WalkUp, Engined, trial
    <3>2. \/ house' = [house EXCEPT !.devs[d] = "jam"]
          \/ house' = [house EXCEPT !.devs[d] = "known"]
      BY <2>1 DEF WalkUp, Engined
    <3>3. HouseOK' /\ house'.phase = house.phase /\ house'.room = house.room
      BY <1>0, <3>2 DEF HouseOK
    <3>4. \A p \in Player : SeenAs(DevicesView([house EXCEPT !.devs[d] = "known"])[p], house'.devs[p])
      BY <1>0, <3>2 DEF HouseOK, SeenAs, DevicesView
    <3> QED BY <3>1, <3>3, <3>4
  <2>2. CASE Reap(d)
    <3>1. /\ house' = [house EXCEPT !.devs[d] = "out"]
          /\ screen' = Broadcast(screen, "devices", DevicesView(house'))
          /\ UNCHANGED <<live, bench, benchHeld>>
      BY <2>2 DEF Reap, Engined, trial
    <3>2. HouseOK' /\ house'.phase = house.phase /\ house'.room = house.room
      BY <1>0, <3>1 DEF HouseOK
    <3>3. \A p \in Player : SeenAs(DevicesView(house')[p], house'.devs[p])
      BY DEF SeenAs, DevicesView
    <3> QED BY <3>1, <3>2, <3>3
  <2> QED BY <2>1, <2>2
<1>2. /\ ArePages(screen')
      /\ \A c \in Client \ live : screen'[c] = screen[c]
      /\ \A c \in Client, x \in Field :
            screen'[c][x] = IF c \in live /\ x = "devices" THEN told ELSE screen[c][x]
  BY <1>0, <1>1, BroadcastReaches
<1>3. PagesAgree'
  <2>1. ASSUME NEW c \in live, screen[c]["met"] PROVE InStep(screen'[c], house')
    <3>1. InStep(screen[c], house)
      BY <2>1 DEF PanelInv, PagesAgree
    <3>2. c \in Client
      BY <1>0
    <3>3. screen'[c]["phase"] = house'.phase /\ screen'[c]["active"] = house'.room
          /\ screen'[c]["devices"] = told
      BY <1>0, <1>1, <1>2, <3>1, <3>2 DEF InStep
    <3>4. screen'[c]["roles"] = screen[c]["roles"]
      BY <1>0, <1>2, <3>2
    <3>5. screen'[c]["roles"] = (house'.phase # "IDLE")
      BY <1>1, <3>1, <3>4 DEF InStep
    <3> QED BY <1>1, <3>3, <3>5 DEF InStep
  <2>2. \A c \in live : screen'[c]["met"] = screen[c]["met"]
    BY <1>0, <1>2
  <2> QED BY <1>1, <1>2, <2>1, <2>2 DEF PanelInv, PagesAgree
<1>4. BenchAgrees'
  <2>1. \A c \in live : screen'[c]["bench"] = screen[c]["bench"]
    BY <1>0, <1>2
  <2> QED BY <1>1, <2>1 DEF PanelInv, BenchAgrees
<1> QED BY <1>0, <1>1, <1>3, <1>4 DEF PanelInv

\* Of a page, what a poll's broadcasts leave as it is.
Apart == {"met", "phase", "active", "roles", "devices", "bench"}

SameApart(scr, old) ==
    /\ ArePages(scr)
    /\ \A c \in Client \ live : scr[c] = old[c]
    /\ \A c \in Client, x \in Apart : scr[c][x] = old[c][x]

\* A newcomer's snapshot is the house as it is.
LEMMA PollBeginKeeps ==
    ASSUME PanelInv, PollBegin
    PROVE  PanelInv'
<1>0. HouseOK /\ ArePages(screen) /\ live \subseteq Client /\ Apart \subseteq Field
  BY Fields DEF PanelInv, PagesAgree, Apart
<1>1. /\ UNCHANGED <<house, live, bench, benchHeld>>
      /\ screen' = [c \in Client |-> IF c \in fresh \cap live THEN Snapshot(c) ELSE screen[c]]
  BY DEF PollBegin, trial
<1>2. ASSUME NEW c \in Client
      PROVE  /\ DOMAIN Snapshot(c) = Field
             /\ Snapshot(c) = [x \in Field |-> Snapshot(c)[x]]
             /\ InStep(Snapshot(c), house)
             /\ Snapshot(c)["bench"] = screen[c]["bench"]
  <2>1. DOMAIN screen[c] = Field /\ screen[c] = [x \in Field |-> screen[c][x]]
    BY <1>0 DEF ArePages
  <2>2. DOMAIN Snapshot(c) = Field /\ Snapshot(c) = [x \in Field |-> Snapshot(c)[x]]
    BY <2>1 DEF Snapshot
  <2>3. /\ Snapshot(c)["phase"] = house.phase /\ Snapshot(c)["active"] = house.room
        /\ Snapshot(c)["devices"] = house.devs /\ Snapshot(c)["bench"] = screen[c]["bench"]
    BY <2>1, Fields DEF Snapshot, DevicesView
  <2>4. Snapshot(c)["roles"] = (house.phase # "IDLE")
    BY <2>1, Fields DEF Snapshot, Loaded
  <2> QED BY <2>2, <2>3, <2>4 DEF InStep, SeenAs
<1>3. ArePages(screen')
  BY <1>0, <1>1, <1>2 DEF ArePages
<1>4. \A c \in Client : screen'[c] = IF c \in fresh \cap live THEN Snapshot(c) ELSE screen[c]
  BY <1>1
<1>5. PagesAgree'
  BY <1>0, <1>1, <1>2, <1>3, <1>4 DEF PanelInv, PagesAgree
<1>6. BenchAgrees'
  <2>1. \A c \in live : screen'[c]["bench"] = screen[c]["bench"]
    BY <1>0, <1>2, <1>4
  <2> QED BY <1>1, <2>1 DEF PanelInv, BenchAgrees
<1>7. HouseOK'
  BY <1>0, <1>1 DEF HouseOK
<1> QED BY <1>0, <1>1, <1>5, <1>6, <1>7 DEF PanelInv

\* A bench that starts has shown nothing, and no command changes what it showed.
LEMMA BenchKeeps ==
    ASSUME PanelInv, BenchStart \/ BenchStop \/ BenchCommand
    PROVE  PanelInv'
<1>1. UNCHANGED <<house, live, screen>>
  BY DEF BenchStart, BenchStop, BenchCommand, Trial
<1>2. BenchAgrees'
  <2>1. CASE BenchStart
    <3>1. bench' = NewBench /\ NewBench.told = Nothing /\ NewBench = [x \in DOMAIN NewBench |-> NewBench[x]]
      BY <2>1 DEF BenchStart, NewBench
    <3> QED BY <3>1 DEF BenchAgrees
  <2>2. CASE BenchStop
    BY <2>2 DEF BenchStop, BenchAgrees
  <2>3. CASE BenchCommand
    <3>1. /\ bench # Nothing /\ benchHeld' = benchHeld
          /\ \/ bench' = BenchFire(bench, "stop") \/ bench' = BenchFire(bench, "paint")
             \/ bench' = BenchFire(bench, "steps") \/ bench' = BenchLane(bench)
      BY <2>3 DEF BenchCommand
    <3>2. bench = [x \in DOMAIN NewBench |-> bench[x]]
      BY <3>1 DEF PanelInv, BenchAgrees
    <3>3. {"muted", "dirty", "colour", "hushed", "heap", "lane", "told"} \subseteq DOMAIN NewBench
      BY DEF NewBench
    <3>4. DOMAIN bench = DOMAIN NewBench
      BY <3>2
    <3>5. bench' = [x \in DOMAIN NewBench |-> bench'[x]] /\ bench'.told = bench.told
      <4>1. CASE bench' = BenchFire(bench, "stop")
        BY <4>1, <3>2, <3>3, <3>4 DEF BenchFire
      <4>2. CASE bench' = BenchFire(bench, "paint")
        BY <4>2, <3>2, <3>3, <3>4 DEF BenchFire
      <4>3. CASE bench' = BenchFire(bench, "steps")
        BY <4>3, <3>2, <3>3, <3>4 DEF BenchFire
      <4>4. CASE bench' = BenchLane(bench)
        BY <4>4, <3>2, <3>3, <3>4 DEF BenchLane
      <4> QED BY <3>1, <4>1, <4>2, <4>3, <4>4
    <3> QED BY <1>1, <3>1, <3>5 DEF PanelInv, BenchAgrees
  <2> QED BY <2>1, <2>2, <2>3
<1> QED BY <1>1, <1>2 DEF PanelInv, HouseOK, PagesAgree

\* The broadcasts of a poll before the bench's.
LEMMA PollBroadcasts ==
    ASSUME NEW scr, NEW old, SameApart(scr, old)
    PROVE  /\ SameApart(CurrentStatus(scr), old)
           /\ SameApart(CurrentRoom(scr), old)
           /\ SameApart(CurrentFrames(scr), old)
           /\ SameApart(CurrentFunctions(scr), old)
<1>0. /\ {"status", "room", "funs", "strip"} \subseteq Field /\ Apart \subseteq Field
      /\ {"status", "room", "funs", "strip"} \cap Apart = {}
  BY Fields DEF Apart
<1>1. ASSUME NEW what \in {"status", "room", "funs"}, NEW view
      PROVE  SameApart(Broadcast(scr, what, view), old)
  BY <1>0, BroadcastReaches DEF SameApart
<1>2. SameApart(CurrentFrames(scr), old)
  <2>1. CASE due > 0
    BY <2>1 DEF CurrentFrames
  <2>2. CASE ~(due > 0)
    <3>1. \A c \in Client : DOMAIN scr[c] = Field /\ scr[c] = [x \in Field |-> scr[c][x]]
      BY DEF SameApart, ArePages
    <3>2. ASSUME NEW c \in Client
          PROVE  /\ DOMAIN CurrentFrames(scr)[c] = Field
                 /\ CurrentFrames(scr)[c] = [x \in Field |-> CurrentFrames(scr)[c][x]]
                 /\ \A x \in Field \ {"strip"} : CurrentFrames(scr)[c][x] = scr[c][x]
                 /\ c \notin live => CurrentFrames(scr)[c] = scr[c]
      BY <2>2, <3>1 DEF CurrentFrames
    <3>3. ArePages(CurrentFrames(scr))
      <4>1. DOMAIN CurrentFrames(scr) = Client
            /\ CurrentFrames(scr) = [c \in Client |-> CurrentFrames(scr)[c]]
        BY <2>2 DEF CurrentFrames
      <4> QED BY <3>2, <4>1 DEF ArePages
    <3>4. \A c \in Client \ live : CurrentFrames(scr)[c] = old[c]
      BY <3>2 DEF SameApart
    <3>5. \A c \in Client, x \in Apart : CurrentFrames(scr)[c][x] = old[c][x]
      <4> SUFFICES ASSUME NEW c \in Client, NEW x \in Apart
                   PROVE  CurrentFrames(scr)[c][x] = old[c][x]
        OBVIOUS
      <4>1. x \in Field \ {"strip"}
        BY <1>0
      <4>2. scr[c][x] = old[c][x]
        BY DEF SameApart
      <4>3. CurrentFrames(scr)[c][x] = scr[c][x]
        BY <3>2, <4>1
      <4> QED BY <4>2, <4>3
    <3> QED BY <3>3, <3>4, <3>5 DEF SameApart
  <2> QED BY <2>1, <2>2
<1> QED BY <1>1, <1>2 DEF CurrentStatus, CurrentRoom, CurrentFunctions

\* The bench's frame: the one that waited or the newest, which are the same.
LEMMA PollEndKeeps ==
    ASSUME PanelInv, PollEnd
    PROVE  PanelInv'
<1> DEFINE scr == CurrentFunctions(CurrentFrames(CurrentRoom(CurrentStatus(screen))))
<1>0. HouseOK /\ ArePages(screen) /\ live \subseteq Client /\ Apart \subseteq Field
      /\ "bench" \in Field /\ "bench" \in Apart
  BY Fields DEF PanelInv, PagesAgree, Apart
<1>1. SameApart(scr, screen)
  <2>1. SameApart(screen, screen)
    BY <1>0 DEF SameApart
  <2> QED BY <2>1, PollBroadcasts
<1>2. TickBench(scr) /\ UNCHANGED <<house, live>>
  BY DEF PollEnd
<1> HIDE DEF scr
<1>3. ASSUME ArePages(screen'), \A c \in Client \ live : screen'[c] = scr[c],
             \A c \in Client, x \in Field \ {"bench"} : screen'[c][x] = scr[c][x]
      PROVE  PagesAgree'
  <2>1. \A c \in Client, x \in Apart \ {"bench"} : screen'[c][x] = screen[c][x]
    BY <1>0, <1>1, <1>3 DEF SameApart
  <2>2. \A c \in Client : screen'[c]["met"] = screen[c]["met"]
    BY <2>1 DEF Apart
  <2>3. ASSUME NEW c \in live, InStep(screen[c], house) PROVE InStep(screen'[c], house)
    <3>1. c \in Client
      BY <1>0
    <3>2. /\ screen'[c]["phase"] = screen[c]["phase"] /\ screen'[c]["active"] = screen[c]["active"]
          /\ screen'[c]["roles"] = screen[c]["roles"] /\ screen'[c]["devices"] = screen[c]["devices"]
      BY <2>1, <3>1 DEF Apart
    <3> QED BY <2>3, <3>2 DEF InStep
  <2>4. \A c \in Client \ live : screen'[c] = screen[c]
    BY <1>1, <1>3 DEF SameApart
  <2> QED BY <1>0, <1>2, <1>3, <2>2, <2>3, <2>4 DEF PanelInv, PagesAgree
<1>4. CASE bench = Nothing \/ live = {}
  <2>1. bench' = Nothing /\ screen' = scr
    BY <1>2, <1>4 DEF TickBench
  <2> QED BY <1>0, <1>1, <1>2, <1>3, <2>1 DEF PanelInv, HouseOK, BenchAgrees, SameApart
<1>5. CASE bench # Nothing /\ live # {}
  <2> DEFINE tick == BenchTick(bench)
             held == Waiting(benchHeld, tick.frame)
             send == held # Nothing /\ benchDue = 0
  <2>1. /\ bench' = BenchElapse(tick.bench)
        /\ benchHeld' = IF send THEN Nothing ELSE held
        /\ screen' = IF send THEN Broadcast(scr, "bench", held) ELSE scr
    BY <1>2, <1>5 DEF TickBench
  <2>2. PICK picture :
           /\ tick.frame = (IF BenchUnchanged(bench, picture) THEN Nothing ELSE picture)
           /\ bench'.told = picture /\ bench' = [x \in DOMAIN NewBench |-> bench'[x]]
    <3>1. bench = [x \in DOMAIN NewBench |-> bench[x]]
      BY <1>5 DEF PanelInv, BenchAgrees
    <3>2. {"heap", "lane", "told", "dirty", "colour", "hushed"} \subseteq DOMAIN NewBench
      BY DEF NewBench
    <3> DEFINE picture == IF bench.muted THEN "black"
                          ELSE IF bench.colour > 0 THEN "colour" ELSE LaneFed(bench)
    <3>3. /\ tick.frame = (IF BenchUnchanged(bench, picture) THEN Nothing ELSE picture)
          /\ tick.bench = [bench EXCEPT !.heap = Rest(@), !.lane = LaneFed(bench),
                                        !.told = picture, !.dirty = FALSE]
      BY DEF BenchTick
    <3> HIDE DEF picture, tick
    <3>4. DOMAIN tick.bench = DOMAIN NewBench /\ tick.bench.told = picture
          /\ tick.bench = [x \in DOMAIN NewBench |-> tick.bench[x]]
      BY <3>1, <3>2, <3>3
    <3>5. bench'.told = picture /\ bench' = [x \in DOMAIN NewBench |-> bench'[x]]
      BY <2>1, <3>2, <3>4 DEF BenchElapse
    <3> QED BY <3>3, <3>5
  <2>3. picture # Nothing /\ held # Nothing => held = picture
    BY <1>5, <2>2 DEF Waiting, BenchUnchanged, PanelInv, BenchAgrees
  <2>4. picture # Nothing /\ held = Nothing
           => /\ bench.told = picture /\ benchHeld = Nothing
              /\ \A c \in live : screen[c]["bench"] \in {picture, Nothing}
    BY <1>5, <2>2 DEF Waiting, BenchUnchanged, PanelInv, BenchAgrees
  <2> HIDE DEF tick, held
  <2>5. CASE send
    <3>1. /\ ArePages(screen') /\ \A c \in Client \ live : screen'[c] = scr[c]
          /\ \A c \in Client, x \in Field :
                screen'[c][x] = IF c \in live /\ x = "bench" THEN held ELSE scr[c][x]
      BY <1>0, <1>1, <2>1, <2>5, BroadcastReaches DEF SameApart
    <3>2. PagesAgree'
      BY <1>3, <3>1
    <3>3. \A c \in live : screen'[c]["bench"] = held
      BY <1>0, <3>1
    <3>4. BenchAgrees'
      BY <1>2, <2>1, <2>2, <2>3, <2>5, <3>3 DEF BenchAgrees
    <3> QED BY <1>0, <1>2, <3>2, <3>4 DEF PanelInv, HouseOK
  <2>6. CASE ~send
    <3>1. screen' = scr /\ benchHeld' = held
      BY <2>1, <2>6
    <3>2. PagesAgree'
      BY <1>1, <1>3, <3>1 DEF SameApart
    <3>3. \A c \in live : screen'[c]["bench"] = screen[c]["bench"]
      BY <1>0, <1>1, <3>1 DEF SameApart
    <3>4. BenchAgrees'
      BY <1>2, <2>2, <2>3, <2>4, <3>1, <3>3 DEF BenchAgrees
    <3> QED BY <1>0, <1>2, <3>2, <3>4 DEF PanelInv, HouseOK
  <2> QED BY <2>5, <2>6
<1> QED BY <1>4, <1>5

\* Every step keeps the panels told.
LEMMA PanelKeeps == PanelInv /\ [PanelNext]_panelVars => PanelInv'
<1> SUFFICES ASSUME PanelInv, [PanelNext]_panelVars PROVE PanelInv'
  OBVIOUS
<1>1. CASE Handlers
  BY <1>1, HandlersKeep DEF Handlers
<1>2. CASE Household
  BY <1>2, LifeKeeps, QuietKeeps, DevicesKeep DEF Household
<1>3. CASE BenchStart \/ BenchStop \/ BenchCommand
  BY <1>3, BenchKeeps
<1>4. CASE Poll
  BY <1>4, PollBeginKeeps, PollEndKeeps DEF Poll
<1>5. CASE UNCHANGED panelVars
  BY <1>5 DEF panelVars, trial, PanelInv, HouseOK, PagesAgree, BenchAgrees
<1> QED BY <1>1, <1>2, <1>3, <1>4, <1>5 DEF PanelNext

\* What ToldAtOnce says, of what is kept.
LEMMA PanelTells == PanelInv => ToldAtOnce
<1> SUFFICES ASSUME PanelInv, NEW c \in live, screen[c].met
             PROVE  /\ screen[c].phase = house.phase /\ screen[c].active = house.room
                    /\ screen[c].roles = Loaded
                    /\ \A d \in Player : \/ screen[c].devices[d] = house.devs[d]
                                         \/ house.devs[d] = "jam" /\ screen[c].devices[d] = "known"
                    /\ bench # Nothing /\ bench.told # Nothing /\ benchHeld = Nothing
                          => screen[c].bench \in {bench.told, Nothing}
  BY DEF ToldAtOnce, Watching
<1>1. InStep(screen[c], house)
  BY DEF PanelInv, PagesAgree
<1>2. bench # Nothing /\ bench.told # Nothing /\ benchHeld = Nothing
          => screen[c].bench \in {bench.told, Nothing}
  BY DEF PanelInv, BenchAgrees
<1>3. screen[c].roles = Loaded
  BY <1>1 DEF InStep, Loaded
<1> QED BY <1>1, <1>2, <1>3 DEF InStep, SeenAs

-----------------------------------------------------------------------------
(* What a panel is told by and by                                          *)

\* A panel that nothing told apart from the others shows what was sent last.
MemoryAgrees ==
    \A c \in live : screen[c]["met"] =>
        /\ "room" \notin uneven => screen[c]["room"] = lastRoom
        /\ "funs" \notin uneven => screen[c]["funs"] = lastFuns
        /\ "status" \notin uneven => screen[c]["status"] = lastStatus

\* The newest frame of a fixture is the one that would be replayed; without a
\* Room there is none, and a frame was rendered for a Room.
FramesAgree ==
    /\ newest = [f \in Fixture |-> newest[f]] /\ latest = [f \in Fixture |-> latest[f]]
    /\ events \in Nat
    /\ house.room = Nothing => newest = NoFrames
    /\ \A f \in Fixture :
          /\ latest[f] # Nothing => latest[f].room \in Room
          /\ newest[f] # Nothing
                => latest[f] # Nothing /\ latest[f].n = newest[f] /\ latest[f].room = house.room

\* What a poll looks at, it alone sends.
ByAndBy == {"met", "room", "funs", "status", "strip"}

\* The house's steps leave those fields, who is there and the memory alone.
LEMMA HouseholdSpares ==
    ASSUME PanelInv, Household
    PROVE  /\ UNCHANGED <<live, memory, polling>>
           /\ \A c \in Client, x \in ByAndBy : screen'[c][x] = screen[c][x]
<1>0. /\ ByAndBy \subseteq Field \ {"phase", "active", "roles", "devices"}
      /\ "devices" \in Field /\ ArePages(screen)
  BY Fields DEF ByAndBy, PanelInv, PagesAgree
<1>1. ASSUME NEW h, Announce(h)
      PROVE  \A c \in Client, x \in ByAndBy : screen'[c][x] = screen[c][x]
  BY <1>0, <1>1, AnnounceTells
<1>2. ASSUME NEW view, screen' = Broadcast(screen, "devices", view)
      PROVE  \A c \in Client, x \in ByAndBy : screen'[c][x] = screen[c][x]
  BY <1>0, <1>2, BroadcastReaches DEF ByAndBy
<1>3. CASE LoadBit \/ RunBit \/ EndBit \/ UnloadRoom
  <2>1. PICK h : Announce(h) /\ Engined(h)
    BY <1>3 DEF LoadBit, RunBit, EndBit, UnloadRoom
  <2> QED BY <1>1, <2>1 DEF Engined, memory
<1>4. ASSUME NEW r \in Room, LoadRoom(r)
      PROVE  /\ UNCHANGED <<live, memory, polling>>
             /\ \A c \in Client, x \in ByAndBy : screen'[c][x] = screen[c][x]
  <2>1. PICK h : Announce(h) /\ Engined(h)
    BY <1>4 DEF LoadRoom
  <2> QED BY <1>1, <2>1 DEF Engined, memory
<1>5. ASSUME NEW what, Turn(what)
      PROVE  UNCHANGED <<live, memory, polling, screen>>
  BY <1>5 DEF Turn, Engined, memory
<1>6. ASSUME NEW d \in Player, WalkUp(d) \/ Reap(d)
      PROVE  /\ UNCHANGED <<live, memory, polling>>
             /\ \A c \in Client, x \in ByAndBy : screen'[c][x] = screen[c][x]
  <2>1. PICK view : screen' = Broadcast(screen, "devices", view)
    BY <1>6 DEF WalkUp, Reap
  <2> QED BY <1>2, <1>6, <2>1 DEF WalkUp, Reap, Engined, memory
<1>7. ASSUME NEW f \in Fixture, RoomFrame(f)
      PROVE  UNCHANGED <<live, memory, polling, screen>>
  BY <1>7 DEF RoomFrame, memory
<1> QED BY <1>3, <1>4, <1>5, <1>6, <1>7 DEF Household

\* The panels that a poll finds changed.
LEMMA WhatChanged ==
    /\ "room" \in Changed <=> RoomView(house) # lastRoom
    /\ "funs" \in Changed <=> FunctionsView(house) # lastFuns
    /\ "status" \in Changed <=> StatusView(house) # lastStatus
BY DEF Changed

\* One broadcast of a poll.
LEMMA PollBroadcast ==
    ASSUME NEW scr, ArePages(scr), NEW what \in {"room", "funs", "status"}, NEW view, NEW sent,
           \/ what \in Changed /\ sent = Broadcast(scr, what, view)
           \/ what \notin Changed /\ sent = scr
    PROVE  /\ ArePages(sent)
           /\ \A c \in live \cap Client : what \in Changed => sent[c][what] = view
           /\ \A c \in Client, x \in Field : x # what \/ what \notin Changed => sent[c][x] = scr[c][x]
<1>1. CASE what \in Changed
  BY <1>1, Fields, BroadcastReaches
<1>2. CASE what \notin Changed
  BY <1>2
<1> QED BY <1>1, <1>2

\* After the broadcasts of a poll every panel that was not as it should be is.
LEMMA PollEndSends ==
    ASSUME PanelInv, PollEnd
    PROVE  \A c \in live :
              /\ screen'[c]["met"] = screen[c]["met"]
              /\ screen'[c]["room"] = IF "room" \in Changed THEN RoomView(house) ELSE screen[c]["room"]
              /\ screen'[c]["funs"] = IF "funs" \in Changed THEN FunctionsView(house) ELSE screen[c]["funs"]
              /\ screen'[c]["status"] = IF "status" \in Changed THEN StatusView(house)
                                        ELSE screen[c]["status"]
<1> DEFINE s1 == CurrentStatus(screen)
           s2 == CurrentRoom(s1)
           s3 == CurrentFrames(s2)
           s4 == CurrentFunctions(s3)
<1>0. ArePages(screen) /\ live \subseteq Client
      /\ {"met", "room", "funs", "status", "strip", "bench"} \subseteq Field
  BY Fields DEF PanelInv, PagesAgree
<1>1. /\ ArePages(s1)
      /\ \A c \in live \cap Client : "status" \in Changed => s1[c]["status"] = StatusView(house)
      /\ \A c \in Client, x \in Field : x # "status" \/ "status" \notin Changed => s1[c][x] = screen[c][x]
  <2>1. \/ "status" \in Changed /\ s1 = Broadcast(screen, "status", StatusView(house))
        \/ "status" \notin Changed /\ s1 = screen
    BY DEF CurrentStatus
  <2> HIDE DEF s1
  <2> QED BY <1>0, <2>1, PollBroadcast
<1> HIDE DEF s1
<1>2. /\ ArePages(s2)
      /\ \A c \in live \cap Client : "room" \in Changed => s2[c]["room"] = RoomView(house)
      /\ \A c \in Client, x \in Field : x # "room" \/ "room" \notin Changed => s2[c][x] = s1[c][x]
  <2>1. \/ "room" \in Changed /\ s2 = Broadcast(s1, "room", RoomView(house))
        \/ "room" \notin Changed /\ s2 = s1
    BY DEF CurrentRoom
  <2> HIDE DEF s2
  <2> QED BY <1>1, <2>1, PollBroadcast
<1> HIDE DEF s2
<1>3. /\ ArePages(s3)
      /\ \A c \in Client, x \in Field \ {"strip"} : s3[c][x] = s2[c][x]
  BY <1>0, <1>2 DEF CurrentFrames, ArePages
<1> HIDE DEF s3
<1>4. /\ ArePages(s4)
      /\ \A c \in live \cap Client : "funs" \in Changed => s4[c]["funs"] = FunctionsView(house)
      /\ \A c \in Client, x \in Field : x # "funs" \/ "funs" \notin Changed => s4[c][x] = s3[c][x]
  <2>1. \/ "funs" \in Changed /\ s4 = Broadcast(s3, "funs", FunctionsView(house))
        \/ "funs" \notin Changed /\ s4 = s3
    BY DEF CurrentFunctions
  <2> HIDE DEF s4
  <2> QED BY <1>3, <2>1, PollBroadcast
<1>5. TickBench(s4)
  BY DEF PollEnd, s1, s2, s3
<1> HIDE DEF s4
<1>6. \A c \in Client, x \in Field \ {"bench"} : screen'[c][x] = s4[c][x]
  <2>1. \/ screen' = s4
        \/ \E held : screen' = Broadcast(s4, "bench", held)
    BY <1>5 DEF TickBench
  <2> QED BY <1>0, <1>4, <2>1, BroadcastReaches
<1> SUFFICES ASSUME NEW c \in live
             PROVE  /\ screen'[c]["met"] = screen[c]["met"]
                    /\ screen'[c]["room"] = IF "room" \in Changed THEN RoomView(house) ELSE screen[c]["room"]
                    /\ screen'[c]["funs"] = IF "funs" \in Changed THEN FunctionsView(house)
                                            ELSE screen[c]["funs"]
                    /\ screen'[c]["status"] = IF "status" \in Changed THEN StatusView(house)
                                              ELSE screen[c]["status"]
  OBVIOUS
<1>7. c \in Client /\ c \in live \cap Client
  BY <1>0
<1>8. screen'[c]["met"] = screen[c]["met"]
  BY <1>0, <1>1, <1>2, <1>3, <1>4, <1>6, <1>7
<1>9. screen'[c]["room"] = IF "room" \in Changed THEN RoomView(house) ELSE screen[c]["room"]
  BY <1>0, <1>1, <1>2, <1>3, <1>4, <1>6, <1>7
<1>10. screen'[c]["funs"] = IF "funs" \in Changed THEN FunctionsView(house) ELSE screen[c]["funs"]
  BY <1>0, <1>1, <1>2, <1>3, <1>4, <1>6, <1>7
<1>11. screen'[c]["status"] = IF "status" \in Changed THEN StatusView(house) ELSE screen[c]["status"]
  BY <1>0, <1>1, <1>2, <1>3, <1>4, <1>6, <1>7
<1> QED BY <1>8, <1>9, <1>10, <1>11

\* What a snapshot says of the panels.
LEMMA SnapshotSays ==
    ASSUME PanelInv, NEW c \in Client
    PROVE  /\ Snapshot(c)["room"] = RoomView(house) /\ Snapshot(c)["funs"] = FunctionsView(house)
           /\ Snapshot(c)["status"] = StatusView(house) /\ Snapshot(c)["strip"] = Replay
<1>1. DOMAIN screen[c] = Field /\ screen[c] = [x \in Field |-> screen[c][x]]
  BY DEF PanelInv, PagesAgree, ArePages
<1> QED BY <1>1, Fields DEF Snapshot

\* A snapshot that counts as sent to everyone marks the panels it told apart, and
\* only a broadcast to everyone clears the mark.
LEMMA MemoryKept ==
    ASSUME PanelInv, MemoryAgrees, [PanelNext]_panelVars
    PROVE  MemoryAgrees'
<1>0. live \subseteq Client /\ \A c \in Client \ live : screen[c] = Blank
  BY DEF PanelInv, PagesAgree
<1>1. CASE Household
  <2>1. /\ UNCHANGED <<live, memory>>
        /\ \A c \in Client, x \in ByAndBy : screen'[c][x] = screen[c][x]
    BY <1>1, HouseholdSpares
  <2> QED BY <1>0, <2>1 DEF MemoryAgrees, memory, ByAndBy
<1>2. ASSUME NEW c \in Client, Connect(c) PROVE MemoryAgrees'
  <2>1. live' = live \cup {c} /\ screen' = screen /\ c \notin live /\ UNCHANGED memory
    BY <1>2 DEF Connect
  <2>2. ~screen[c]["met"]
    BY <1>0, <2>1 DEF Blank
  <2> QED BY <2>1, <2>2 DEF MemoryAgrees, memory
<1>3. ASSUME NEW c \in Client, Drop(c) PROVE MemoryAgrees'
  <2>1. live' = live \ {c} /\ screen' = [screen EXCEPT ![c] = Blank] /\ UNCHANGED memory
    BY <1>3 DEF Drop
  <2>2. \A k \in live' : screen'[k] = screen[k]
    BY <1>0, <2>1 DEF PanelInv, PagesAgree, ArePages
  <2> QED BY <2>1, <2>2 DEF MemoryAgrees, memory
<1>4. CASE PollBegin
  <2>1. /\ live' = live /\ lastStatus' = lastStatus
        /\ \A c \in Client : screen'[c] = IF c \in fresh \cap live THEN Snapshot(c) ELSE screen[c]
    BY <1>4 DEF PollBegin
  <2>2. CASE fresh = {}
    BY <1>0, <1>4, <2>1, <2>2 DEF PollBegin, MemoryAgrees
  <2>3. CASE fresh # {}
    <3>1. lastRoom' = RoomView(house) /\ lastFuns' = FunctionsView(house) /\ uneven' = uneven \cup Changed
      BY <1>4, <2>3 DEF PollBegin
    <3> QED BY <1>0, <2>1, <3>1, SnapshotSays, WhatChanged DEF MemoryAgrees
  <2> QED BY <2>2, <2>3
<1>5. CASE PollEnd
  <2>1. /\ live' = live /\ lastStatus' = StatusView(house) /\ lastRoom' = RoomView(house)
        /\ lastFuns' = FunctionsView(house) /\ uneven' = uneven \ Changed
    BY <1>5 DEF PollEnd
  <2> QED BY <1>5, <2>1, PollEndSends, WhatChanged DEF MemoryAgrees
<1>6. CASE BenchStart \/ BenchStop \/ BenchCommand \/ UNCHANGED panelVars
  BY <1>6 DEF BenchStart, BenchStop, BenchCommand, Trial, panelVars, memory, MemoryAgrees
<1> QED BY <1>1, <1>2, <1>3, <1>4, <1>5, <1>6 DEF PanelNext, Handlers, Poll

\* Only the end of a poll ends it, and it leaves nobody behind whom no snapshot
\* told apart.
LEMMA ScreensCatchUp ==
    ASSUME PanelInv, MemoryAgrees, PanelNext, polling, ~polling'
    PROVE  \A c \in Watching' :
              /\ "status" \notin uneven' => screen'[c].status = StatusView(house)
              /\ "room" \notin uneven' => screen'[c].room = RoomView(house)
              /\ "funs" \notin uneven' => screen'[c].funs = FunctionsView(house)
<1>1. PollEnd
  <2>1. ~Household
    BY HouseholdSpares
  <2> QED BY <2>1 DEF PanelNext, Handlers, Connect, Drop, BenchStart, BenchStop, BenchCommand, Trial,
                      Poll, PollBegin
<1>2. live' = live /\ uneven' = uneven \ Changed
  BY <1>1 DEF PollEnd
<1> SUFFICES ASSUME NEW c \in live, screen'[c]["met"]
             PROVE  /\ "status" \notin uneven' => screen'[c]["status"] = StatusView(house)
                    /\ "room" \notin uneven' => screen'[c]["room"] = RoomView(house)
                    /\ "funs" \notin uneven' => screen'[c]["funs"] = FunctionsView(house)
  BY <1>2 DEF Watching
<1> QED BY <1>1, <1>2, PollEndSends, WhatChanged DEF MemoryAgrees

\* The frames that would be replayed are the newest of the Room that is loaded.
LEMMA FramesKept ==
    ASSUME PanelInv, FramesAgree, [PanelNext]_panelVars
    PROVE  FramesAgree'
<1>1. CASE UNCHANGED <<house, newest, latest>> /\ events' \in Nat
  BY <1>1 DEF FramesAgree, NoFrames
<1>2. Input => events' \in Nat
  BY DEF FramesAgree, Input
<1>3. CASE Handlers
  BY <1>1, <1>2, <1>3 DEF Handlers, Connect, Drop, strips
<1>4. CASE BenchStart \/ BenchStop \/ BenchCommand
  BY <1>1, <1>2, <1>4 DEF BenchStart, BenchStop, BenchCommand, Trial, strips
<1>5. CASE LoadBit \/ RunBit \/ EndBit
  <2>1. events' \in Nat /\ UNCHANGED <<newest, latest>>
    BY <1>2, <1>5 DEF LoadBit, RunBit, EndBit, Engined, strips
  <2>2. house'.room = house.room
    BY <1>5 DEF LoadBit, RunBit, EndBit, Engined, PanelInv, HouseOK
  <2> QED BY <2>1, <2>2 DEF FramesAgree, NoFrames
<1>6. CASE UnloadRoom
  <2>1. events' \in Nat /\ newest' = NoFrames /\ latest' = latest
    BY <1>2, <1>6 DEF UnloadRoom, Engined, strips
  <2> QED BY <2>1 DEF FramesAgree, NoFrames
<1>7. ASSUME NEW r \in Room, LoadRoom(r) PROVE FramesAgree'
  <2>1. events' \in Nat /\ UNCHANGED <<newest, latest>> /\ house.room = Nothing
    BY <1>2, <1>7 DEF LoadRoom, Engined, strips
  <2>2. house'.room = r /\ r # Nothing
    BY <1>7, PanelAssumption DEF LoadRoom, Engined, PanelInv, HouseOK
  <2> QED BY <2>1, <2>2 DEF FramesAgree, NoFrames
<1>8. ASSUME NEW what \in {"look", "status"}, Turn(what) PROVE FramesAgree'
  <2>1. events' \in Nat /\ UNCHANGED <<newest, latest>>
    BY <1>2, <1>8 DEF Turn, Engined, strips
  <2>2. house'.room = house.room
    BY <1>8 DEF Turn, Engined, PanelInv, HouseOK
  <2> QED BY <2>1, <2>2 DEF FramesAgree, NoFrames
<1>9. ASSUME NEW d \in Player, WalkUp(d) \/ Reap(d) PROVE FramesAgree'
  <2>1. events' \in Nat /\ UNCHANGED <<newest, latest>>
    BY <1>2, <1>9 DEF WalkUp, Reap, Engined, strips
  <2>2. house'.room = house.room
    BY <1>9 DEF WalkUp, Reap, Engined, PanelInv, HouseOK
  <2> QED BY <2>1, <2>2 DEF FramesAgree, NoFrames
<1>10. ASSUME NEW f \in Fixture, RoomFrame(f) PROVE FramesAgree'
  <2>1. /\ house' = house /\ house.room # Nothing /\ events' \in 0 .. MaxEvents
        /\ latest' = [latest EXCEPT ![f] = [n |-> events', room |-> house.room]]
        /\ newest' = [newest EXCEPT ![f] = events']
    BY <1>10, PanelAssumption DEF RoomFrame, Input, FramesAgree
  <2>2. house.room \in Room
    BY <2>1 DEF PanelInv, HouseOK
  <2>3. [n |-> events', room |-> house.room] # Nothing
    BY <2>1, <2>2, PanelAssumption
  <2>4. \A g \in Fixture :
           /\ latest'[g] = IF g = f THEN [n |-> events', room |-> house.room] ELSE latest[g]
           /\ newest'[g] = IF g = f THEN events' ELSE newest[g]
    BY <2>1 DEF FramesAgree
  <2>5. /\ newest' = [g \in Fixture |-> newest'[g]] /\ latest' = [g \in Fixture |-> latest'[g]]
    BY <2>1 DEF FramesAgree
  <2>6. events' \in Nat
    BY <2>1
  <2> QED BY <2>1, <2>2, <2>3, <2>4, <2>5, <2>6 DEF FramesAgree
<1>11. CASE PollBegin
  <2>1. UNCHANGED <<house, newest, events>>
    BY <1>11 DEF PollBegin
  <2>2. CASE fresh = {}
    BY <1>1, <1>11, <2>1, <2>2 DEF PollBegin, FramesAgree
  <2>3. CASE fresh # {}
    <3>1. latest' = [f \in Fixture |-> IF OfThisRoom(latest[f]) THEN latest[f] ELSE Nothing]
      BY <1>11, <2>3 DEF PollBegin
    <3> QED BY <2>1, <3>1 DEF FramesAgree, OfThisRoom, NoFrames
  <2> QED BY <2>2, <2>3
<1>12. CASE PollEnd
  BY <1>1, <1>12 DEF PollEnd, FramesAgree
<1>13. CASE UNCHANGED panelVars
  BY <1>1, <1>13 DEF panelVars, strips, FramesAgree
<1> QED BY <1>3, <1>4, <1>5, <1>6, <1>7, <1>8, <1>9, <1>10, <1>11, <1>12, <1>13
        DEF PanelNext, Household, Poll

\* Only a snapshot makes a panel that watches, and it brings the frames.
LEMMA NewcomersSee ==
    ASSUME PanelInv, FramesAgree, PanelNext, NEW c \in Watching' \ Watching, NEW f \in Fixture
    PROVE  /\ newest[f] # Nothing => screen'[c].strip[f] = newest[f]
           /\ house.room = Nothing => screen'[c].strip[f] = Nothing
           /\ screen'[c].strip[f] # Nothing => latest[f].room = house.room
<1>0. live \subseteq Client /\ \A k \in Client \ live : screen[k] = Blank
  BY DEF PanelInv, PagesAgree
<1>1. c \in live' /\ screen'[c]["met"] /\ ~(c \in live /\ screen[c]["met"])
  BY DEF Watching
<1>2. ASSUME live' = live, \A k \in Client : screen'[k]["met"] = screen[k]["met"]
      PROVE  FALSE
  BY <1>0, <1>1, <1>2
<1>3. ~Household
  BY <1>2, HouseholdSpares DEF ByAndBy
<1>4. ~(BenchStart \/ BenchStop \/ BenchCommand)
  BY <1>1 DEF BenchStart, BenchStop, BenchCommand, Trial
<1>5. ~PollEnd
  <2> SUFFICES ASSUME PollEnd PROVE FALSE
    OBVIOUS
  <2>1. live' = live
    BY DEF PollEnd
  <2> QED BY <1>1, <2>1, PollEndSends
<1>6. ASSUME NEW k \in Client, Connect(k) PROVE FALSE
  <2>1. live' = live \cup {k} /\ screen' = screen
    BY <1>6 DEF Connect
  <2> QED BY <1>0, <1>1, <2>1 DEF Blank
<1>7. ASSUME NEW k \in Client, Drop(k) PROVE FALSE
  <2>1. live' = live \ {k} /\ screen' = [screen EXCEPT ![k] = Blank]
    BY <1>7 DEF Drop
  <2> QED BY <1>0, <1>1, <2>1 DEF PanelInv, PagesAgree, ArePages
<1>8. PollBegin
  BY <1>3, <1>4, <1>5, <1>6, <1>7 DEF PanelNext, Handlers, Poll
<1>9. screen'[c]["strip"] = Replay
  <2>1. live' = live /\ \A k \in Client : screen'[k] = IF k \in fresh \cap live THEN Snapshot(k) ELSE screen[k]
    BY <1>8 DEF PollBegin
  <2>2. c \in Client /\ c \in fresh \cap live
    BY <1>0, <1>1, <2>1
  <2> QED BY <2>1, <2>2, SnapshotSays
<1>10. screen'[c]["strip"][f] = IF OfThisRoom(latest[f]) THEN latest[f].n ELSE Nothing
  BY <1>9 DEF Replay
<1>11. house.room = Nothing => ~OfThisRoom(latest[f])
  BY PanelAssumption DEF FramesAgree, OfThisRoom
<1> QED BY <1>10, <1>11 DEF FramesAgree, OfThisRoom

-----------------------------------------------------------------------------
(* The panels' theorems                                                    *)

\* What is kept of the panels.
PanelsAgree == PanelInv /\ MemoryAgrees /\ FramesAgree

\* Initially nobody is there.
LEMMA PanelsAgreeInit ==
    ASSUME NEW start \in Room \cup {Nothing}, PanelInit(start)
    PROVE  PanelsAgree
<1>1. PanelInv
  BY PanelInitKeeps
<1>2. MemoryAgrees /\ FramesAgree
  BY DEF PanelInit, MemoryAgrees, FramesAgree, NoFrames
<1> QED BY <1>1, <1>2 DEF PanelsAgree

\* Every step keeps the three.
LEMMA PanelsStayAgreed == PanelsAgree /\ [PanelNext]_panelVars => PanelsAgree'
BY PanelKeeps, MemoryKept, FramesKept DEF PanelsAgree

\* They hold always.
LEMMA PanelsAlwaysAgree == PanelSpec => []PanelsAgree
<1>1. (\E start \in Room \cup {Nothing} : PanelInit(start)) => PanelsAgree
  BY PanelsAgreeInit
<1> QED BY <1>1, PanelsStayAgreed, PTL DEF PanelSpec

\* Every panel shows the phase, the Room, the roles and the devices as they are at
\* every moment, for any number of browsers that come and go between any two
\* steps, and what the bench shows unless its newest frame waits.
THEOREM PanelsAreToldAtOnce == PanelSpec => []ToldAtOnce
<1>1. PanelsAgree => ToldAtOnce
  BY PanelTells DEF PanelsAgree
<1> QED BY <1>1, PanelsAlwaysAgree, PTL

\* A poll brings every panel up to date that no snapshot told apart.
THEOREM PanelsFollow == PanelSpec => ScreensFollow
<1>1. PanelsAgree /\ [PanelNext]_panelVars =>
        [polling /\ ~polling' =>
            \A c \in Watching' :
                /\ "status" \notin uneven' => screen'[c].status = StatusView(house)
                /\ "room" \notin uneven' => screen'[c].room = RoomView(house)
                /\ "funs" \notin uneven' => screen'[c].funs = FunctionsView(house)]_panelVars
  BY ScreensCatchUp DEF PanelsAgree
<1> QED BY <1>1, PanelsAlwaysAgree, PTL DEF PanelSpec, ScreensFollow

\* A browser that joins sees the newest frame of every fixture of the Room that is
\* loaded and none of a Room before it.
THEOREM NewcomersAreShown == PanelSpec => NewcomersSeeTheRoom
<1>1. PanelsAgree /\ [PanelNext]_panelVars =>
        [\A c \in Watching' \ Watching : \A f \in Fixture :
            /\ newest[f] # Nothing => screen'[c].strip[f] = newest[f]
            /\ house.room = Nothing => screen'[c].strip[f] = Nothing
            /\ screen'[c].strip[f] # Nothing => latest[f].room = house.room]_panelVars
  BY NewcomersSee DEF PanelsAgree
<1> QED BY <1>1, PanelsAlwaysAgree, PTL DEF PanelSpec, NewcomersSeeTheRoom

-----------------------------------------------------------------------------
(* The installations                                                       *)

InstallationsAgree == SinkInv /\ PanelsAgree /\ HeardInv /\ ProbesKept

\* What each thread's own proofs show holds in every installation: a step of one
\* of them is no step of the others.
THEOREM InstallationsKeepAll ==
    ThreadsSpec => [](WakesInTime /\ ToldAtOnce /\ HeardInFull /\ ReadyIsTrue)
<1>1. ThreadsInit => InstallationsAgree
  <2> SUFFICES ASSUME ThreadsInit PROVE InstallationsAgree
    OBVIOUS
  <2>1. Init /\ PtyInit /\ \E start \in Room \cup {Nothing} : PanelInit(start)
    BY DEF ThreadsInit
  <2> QED BY <2>1, InitKeeps, PanelsAgreeInit, HeardInit, ProbesKeptInit DEF InstallationsAgree
<1>2. InstallationsAgree /\ [ThreadsNext]_threadVars => InstallationsAgree'
  <2> SUFFICES ASSUME InstallationsAgree, [ThreadsNext]_threadVars PROVE InstallationsAgree'
    OBVIOUS
  <2>1. [Next]_vars /\ [PanelNext]_panelVars /\ [PtyNext]_ptyVars
    BY DEF ThreadsNext, WiresStep, PanelsStep, ConsoleStep, threadVars
  <2> QED BY <2>1, NextKeeps, PanelsStayAgreed, HeardKept, ProbesStay DEF InstallationsAgree
<1>3. InstallationsAgree => WakesInTime /\ ToldAtOnce /\ HeardInFull /\ ReadyIsTrue
  BY PanelTells, HeardTells, ProbesTell DEF InstallationsAgree, SinkInv, PanelsAgree
<1>4. ThreadsSpec => ThreadsInit /\ [][ThreadsNext]_threadVars
  BY PTL DEF ThreadsSpec
<1> QED BY <1>1, <1>2, <1>3, <1>4, PTL

-----------------------------------------------------------------------------
(* A room, fixture by fixture                                              *)

\* What a room file must be, whatever its instruments are.
SoundFile(file) ==
    /\ file.shape \notin {"raw", "located"} /\ file.backends \subseteq {"devicelink", "array"}
    /\ DOMAIN file.fixtures # {} /\ ~NamesTwice(file.fixtures)

\* A fixture as it is with an instrument, and what it must be then.
With(f, inst) == [name |-> f.name, blocks |-> f.blocks, zones |-> f.zones, inst |-> inst]
SoundFixture(fx) ==
    /\ fx.blocks # <<>> /\ ~NamesTwice(fx.blocks)
    /\ \A j \in DOMAIN fx.blocks : fx.blocks[j].count \in 1 .. MaxBlock
    /\ ~Overlapping(fx.blocks) /\ ~Gap(fx.blocks)
    /\ \A j \in DOMAIN fx.zones :
           ~(fx.zones[j].start < 0) /\ ~(End(fx.zones[j]) > PixelCount(fx))
    /\ ~Overlapping(fx.zones) /\ ~InstrumentRefused(fx.inst) /\ ~Mismatch(fx)

LEMMA WithIs ==
    ASSUME NEW f, NEW inst
    PROVE  /\ With(f, inst).name = f.name /\ With(f, inst).blocks = f.blocks
           /\ With(f, inst).zones = f.zones /\ With(f, inst).inst = inst
BY DEF With

LEMMA FittedEach ==
    ASSUME NEW file, NEW insts
    PROVE  /\ DOMAIN Fitted(file, insts) = DOMAIN file.fixtures
           /\ \A i \in DOMAIN file.fixtures :
                  Fitted(file, insts)[i]
                      = With(file.fixtures[i], insts[file.fixtures[i].instrument])
BY DEF Fitted, With

LEMMA ProfileEach ==
    ASSUME NEW fixtures, IsList(fixtures)
    PROVE  (~ProfileRefused(fixtures) /\ \A i \in DOMAIN fixtures : ~Mismatch(fixtures[i]))
             <=> /\ fixtures # <<>> /\ ~NamesTwice(fixtures)
                 /\ \A i \in DOMAIN fixtures : SoundFixture(fixtures[i])
BY DEF ProfileRefused, SoundFixture

\* A room is accepted when the file is sound and each fixture is with its instrument.
LEMMA RoomByFixture ==
    ASSUME NEW file, RoomFileOK(file), NEW insts
    PROVE  RoomVerdict(file, insts) = "ok"
             <=> /\ SoundFile(file)
                 /\ \A i \in DOMAIN file.fixtures :
                        /\ file.fixtures[i].instrument \in DOMAIN insts
                        /\ SoundFixture(With(file.fixtures[i],
                                             insts[file.fixtures[i].instrument]))
<1>. DEFINE F == Fitted(file, insts)
<1>1. /\ DOMAIN F = DOMAIN file.fixtures
      /\ \A i \in DOMAIN F : F[i] = With(file.fixtures[i], insts[file.fixtures[i].instrument])
  BY FittedEach
<1>2. IsList(F)
  <2>1. file.fixtures \in Seq({file.fixtures[i] : i \in DOMAIN file.fixtures})
    BY DEF RoomFileOK, IsList
  <2>2. F = [i \in 1 .. Len(file.fixtures) |-> F[i]] /\ Len(file.fixtures) \in Nat
    BY <2>1 DEF Fitted
  <2>. HIDE DEF F
  <2>3. F \in [1 .. Len(file.fixtures) -> {F[i] : i \in DOMAIN F}]
    BY <2>2
  <2>. QED BY <2>2, <2>3, SeqDef DEF IsList
<1>. HIDE DEF F
<1>3. F # <<>> <=> DOMAIN file.fixtures # {}
  <2>1. Len(F) \in Nat /\ DOMAIN F = 1 .. Len(F)
    BY <1>2 DEF IsList
  <2>2. F \in Seq({F[i] : i \in DOMAIN F})
    BY <1>2 DEF IsList
  <2>3. F = <<>> <=> Len(F) = 0
    BY <2>2, EmptySeq
  <2>. QED BY <1>1, <2>1, <2>3
<1>4. NamesTwice(F) <=> NamesTwice(file.fixtures)
  <2>1. \A i \in DOMAIN F : F[i].name = file.fixtures[i].name
    BY <1>1, WithIs
  <2>. QED BY <1>1, <2>1, Zenon DEF NamesTwice
<1>5. RoomVerdict(file, insts) = "ok"
        <=> /\ file.shape \notin {"raw", "located"}
            /\ file.backends \subseteq {"devicelink", "array"}
            /\ \A i \in DOMAIN file.fixtures : file.fixtures[i].instrument \in DOMAIN insts
            /\ ~ProfileRefused(F) /\ \A i \in DOMAIN F : ~Mismatch(F[i])
  BY Zenon DEF RoomVerdict, F
<1>6. (~ProfileRefused(F) /\ \A i \in DOMAIN F : ~Mismatch(F[i]))
        <=> /\ DOMAIN file.fixtures # {} /\ ~NamesTwice(file.fixtures)
            /\ \A i \in DOMAIN F : SoundFixture(F[i])
  BY <1>2, <1>3, <1>4, ProfileEach
<1>7. (\A i \in DOMAIN F : SoundFixture(F[i]))
        <=> \A i \in DOMAIN file.fixtures :
               SoundFixture(With(file.fixtures[i], insts[file.fixtures[i].instrument]))
  BY <1>1
<1>. DEFINE Known == \A i \in DOMAIN file.fixtures : file.fixtures[i].instrument \in DOMAIN insts
            Sound == \A i \in DOMAIN file.fixtures :
                        SoundFixture(With(file.fixtures[i], insts[file.fixtures[i].instrument]))
<1>8. RoomVerdict(file, insts) = "ok" <=> SoundFile(file) /\ Known /\ Sound
  <2>. HIDE DEF Sound
  <2>1. (~ProfileRefused(F) /\ \A i \in DOMAIN F : ~Mismatch(F[i]))
        <=> /\ DOMAIN file.fixtures # {} /\ ~NamesTwice(file.fixtures) /\ Sound
    BY <1>6, <1>7 DEF Sound
  <2>. QED BY <1>5, <2>1 DEF SoundFile
<1>. QED BY <1>8

\* A room stays accepted as long as each fixture's instrument is as in some
\* reading that accepted it.
LEMMA StaysAccepted ==
    ASSUME NEW file, RoomFileOK(file), NEW known, RoomVerdict(file, known) = "ok", NEW insts,
           \A i \in DOMAIN file.fixtures :
               LET n == file.fixtures[i].instrument
               IN  /\ n \in DOMAIN insts
                   /\ \E other : RoomVerdict(file, other) = "ok" /\ other[n] = insts[n]
    PROVE  RoomVerdict(file, insts) = "ok"
<1>1. SoundFile(file)
  BY RoomByFixture
<1>2. ASSUME NEW i \in DOMAIN file.fixtures
      PROVE  SoundFixture(With(file.fixtures[i], insts[file.fixtures[i].instrument]))
  <2>1. PICK other : /\ RoomVerdict(file, other) = "ok"
                     /\ other[file.fixtures[i].instrument] = insts[file.fixtures[i].instrument]
    OBVIOUS
  <2>. QED BY <2>1, RoomByFixture
<1>. QED BY <1>1, <1>2, RoomByFixture

-----------------------------------------------------------------------------
(* What a boot asks of the disk, entry by entry                            *)

LEMMA Verdicts ==
    ASSUME NEW kind \in Kind, NEW file, NEW insts
    PROVE  /\ Verdict(kind, file, insts) \in {"ok", "refused", "raises"}
           /\ Verdict(kind, file, insts) = "raises" <=> file.shape = "raw"
           /\ Verdict("instrument", file, insts) = InstrumentVerdict(file)
           /\ Verdict("room", file, insts) = RoomVerdict(file, insts)
<1>1. /\ InstrumentVerdict(file) \in {"ok", "refused", "raises"}
      /\ InstrumentVerdict(file) = "raises" <=> file.shape = "raw"
  BY Zenon DEF InstrumentVerdict
<1>2. /\ RoomVerdict(file, insts) \in {"ok", "refused", "raises"}
      /\ RoomVerdict(file, insts) = "raises" <=> file.shape = "raw"
  BY Zenon DEF RoomVerdict
<1>. QED BY <1>1, <1>2 DEF Verdict

LEMMA CatalogByEntry ==
    ASSUME NEW d, NEW kind \in Kind, NEW insts
    PROVE  /\ CatalogVerdict(d, kind, insts) = "ok"
                 <=> /\ \A n \in Present(d.published[kind]) :
                            Verdict(kind, d.published[kind][n], insts) = "ok"
                     /\ \A n \in Present(d.drafts[kind]) : d.drafts[kind][n].shape # "raw"
<1>. DEFINE of(files) == {Verdict(kind, files[kind][n], insts) : n \in Present(files[kind])}
<1>1. CatalogVerdict(d, kind, insts) = "ok"
        <=> /\ "raises" \notin of(d.published) /\ "refused" \notin of(d.published)
            /\ "raises" \notin of(d.drafts)
  BY DEF CatalogVerdict
<1>2. ("raises" \notin of(d.published) /\ "refused" \notin of(d.published))
        <=> \A n \in Present(d.published[kind]) : Verdict(kind, d.published[kind][n], insts) = "ok"
  BY Verdicts
<1>3. "raises" \notin of(d.drafts)
        <=> \A n \in Present(d.drafts[kind]) : d.drafts[kind][n].shape # "raw"
  BY Verdicts
<1>. HIDE DEF of
<1>. QED BY <1>1, <1>2, <1>3

\* What is read on each side of a disk.
Insts(d) == d.published["instrument"]
Halls(d) == d.published["room"]

LEMMA BootByEntry ==
    ASSUME NEW d, NEW t, NEW rs
    PROVE  Bootable(d, t, rs)
             <=> /\ \A n \in Present(Insts(d)) : InstrumentVerdict(Insts(d)[n]) = "ok"
                 /\ \A n \in Present(Halls(d)) : RoomVerdict(Halls(d)[n], AllInstruments(d, t)) = "ok"
                 /\ \A k \in Kind : \A n \in Present(d.drafts[k]) : d.drafts[k][n].shape # "raw"
                 /\ TomlAccepted(d, t)
                 /\ DOMAIN t.rooms \cap Present(Halls(d)) = {}
                 /\ DOMAIN t.rooms \cup Present(Halls(d)) # {}
                 /\ ~OutputsRefused(t.outputs, AllRooms(d, t))
                 /\ ~ScanRaises(rs)
<1>. DEFINE All == AllInstruments(d, t)
<1>1. CatalogVerdict(d, "instrument", <<>>) = "ok"
        <=> /\ \A n \in Present(Insts(d)) : InstrumentVerdict(Insts(d)[n]) = "ok"
            /\ \A n \in Present(d.drafts["instrument"]) : d.drafts["instrument"][n].shape # "raw"
  BY CatalogByEntry, Verdicts DEF Insts, Kind
<1>2. CatalogVerdict(d, "room", All) = "ok"
        <=> /\ \A n \in Present(Halls(d)) : RoomVerdict(Halls(d)[n], All) = "ok"
            /\ \A n \in Present(d.drafts["room"]) : d.drafts["room"][n].shape # "raw"
  BY CatalogByEntry, Verdicts DEF Halls, Kind
<1>. HIDE DEF All
<1>. QED BY <1>1, <1>2 DEF Bootable, Kind, Halls, All

LEMMA AllAre ==
    ASSUME NEW d, NEW t
    PROVE  /\ DOMAIN AllInstruments(d, t) = Present(Insts(d)) \cup DOMAIN t.instruments
           /\ \A n \in Present(Insts(d)) : AllInstruments(d, t)[n] = Insts(d)[n].inst
           /\ \A n \in DOMAIN t.instruments \ Present(Insts(d)) :
                  AllInstruments(d, t)[n] = t.instruments[n]
BY DEF AllInstruments, PublishedInstruments, Insts

-----------------------------------------------------------------------------
(* The wires                                                               *)

LEMMA LeastIsIn ==
    ASSUME NEW S \in SUBSET Nat, S # {}
    PROVE  Min(S) \in S
<1>1. PICK d \in S : \A c \in S : <<c, d>> \notin OpToRel(<, Nat)
  BY NatLessThanWellFounded, WFMin
<1>2. ASSUME NEW c \in S PROVE d <= c
  <2>1. c \in Nat /\ d \in Nat
    OBVIOUS
  <2>2. ~(c < d)
    BY <1>1, <2>1, Zenon DEF OpToRel
  <2>. QED BY <2>1, <2>2
<1>3. d \in S /\ \A y \in S : d <= y
  BY <1>2
<1>. QED BY <1>3 DEF Min

\* Two readings of a fixture list that agree on names and blocks.
SameSurface(a, b) ==
    /\ DOMAIN a = DOMAIN b /\ DOMAIN a \subseteq Nat
    /\ \A k \in DOMAIN a : a[k].name = b[k].name /\ a[k].blocks = b[k].blocks

LEMMA SurfaceNamed ==
    ASSUME NEW a, NEW b, SameSurface(a, b), NEW name, NamedAt(a, name) # {}
    PROVE  /\ NamedAt(b, name) # {}
           /\ PixelCount(FixtureNamed(a, name)) = PixelCount(FixtureNamed(b, name))
<1>1. NamedAt(a, name) = NamedAt(b, name) /\ NamedAt(a, name) \subseteq Nat
  BY DEF NamedAt, SameSurface
<1>2. Min(NamedAt(a, name)) \in DOMAIN a
  BY <1>1, LeastIsIn DEF NamedAt
<1>3. FixtureNamed(a, name).blocks = FixtureNamed(b, name).blocks
  BY <1>1, <1>2 DEF FixtureNamed, SameSurface
<1>. QED BY <1>1, <1>3 DEF PixelCount

\* Whether outputs are refused depends on the rooms they name, and on no instrument.
LEMMA SameWires ==
    ASSUME NEW outputs, NEW old, NEW new, ~OutputsRefused(outputs, old),
           \A i \in DOMAIN outputs : outputs[i].room \in DOMAIN new,
           \A i \in DOMAIN outputs : SameSurface(old[outputs[i].room].fixtures,
                                                new[outputs[i].room].fixtures),
           \A i \in DOMAIN outputs : 1 .. i - 1 \subseteq DOMAIN outputs
    PROVE  ~OutputsRefused(outputs, new)
<1>1. ASSUME NEW i \in DOMAIN outputs
      PROVE  /\ NamedAt(old[outputs[i].room].fixtures, outputs[i].fixture) # {}
             /\ NamedAt(new[outputs[i].room].fixtures, outputs[i].fixture) # {}
             /\ LastUniverse(outputs[i], old) = LastUniverse(outputs[i], new)
  <2>1. NamedAt(old[outputs[i].room].fixtures, outputs[i].fixture) # {}
    BY Zenon DEF OutputsRefused
  <2>2. /\ NamedAt(new[outputs[i].room].fixtures, outputs[i].fixture) # {}
        /\ PixelCount(FixtureNamed(old[outputs[i].room].fixtures, outputs[i].fixture))
             = PixelCount(FixtureNamed(new[outputs[i].room].fixtures, outputs[i].fixture))
    BY <2>1, SurfaceNamed
  <2>. QED BY <2>1, <2>2 DEF LastUniverse
<1>2. ASSUME NEW i \in DOMAIN outputs, NEW j \in 1 .. i - 1
      PROVE  /\ ~(outputs[j].room = outputs[i].room /\ outputs[j].fixture = outputs[i].fixture)
             /\ ~(/\ outputs[j].host = outputs[i].host
                  /\ outputs[i].start <= LastUniverse(outputs[j], new)
                  /\ outputs[j].start <= LastUniverse(outputs[i], new))
  <2>1. j \in DOMAIN outputs
    OBVIOUS
  <2>2. LastUniverse(outputs[i], old) = LastUniverse(outputs[i], new)
    BY <1>1
  <2>3. LastUniverse(outputs[j], old) = LastUniverse(outputs[j], new)
    BY <1>1, <2>1
  <2>4. /\ ~(outputs[j].room = outputs[i].room /\ outputs[j].fixture = outputs[i].fixture)
        /\ ~(/\ outputs[j].host = outputs[i].host
             /\ outputs[i].start <= LastUniverse(outputs[j], old)
             /\ outputs[j].start <= LastUniverse(outputs[i], old))
    BY Zenon DEF OutputsRefused
  <2>. QED BY <2>2, <2>3, <2>4
<1>3. ASSUME NEW i \in DOMAIN outputs PROVE ~(LastUniverse(outputs[i], new) > MaxUniverse)
  <2>1. ~(LastUniverse(outputs[i], old) > MaxUniverse)
    BY Zenon DEF OutputsRefused
  <2>. QED BY <1>1, <2>1
<1>. QED BY <1>1, <1>2, <1>3, Zenon DEF OutputsRefused

-----------------------------------------------------------------------------
(* A publish                                                               *)

\* The disk after it.
Published(d, kind, name) ==
    [d EXCEPT !.published[kind][name] = d.drafts[kind][name], !.drafts[kind][name] = None]

LEMMA DiskIs ==
    ASSUME NEW d \in Disk
    PROVE  /\ Insts(d) \in [InstrumentName -> InstrumentFile \cup {None}]
           /\ Halls(d) \in [RoomName -> RoomFile \cup {None}]
           /\ d.drafts["instrument"] \in [InstrumentName -> InstrumentFile \cup {None}]
           /\ d.drafts["room"] \in [RoomName -> RoomFile \cup {None}]
BY DEF Disk, Store, Insts, Halls

LEMMA PublishDoes ==
    ASSUME NEW d \in Disk, NEW kind \in Kind, NEW name \in NamesOf(kind),
           d.drafts[kind][name] # None
    PROVE  /\ Published(d, kind, name) \in Disk
           /\ \A n \in NamesOf(kind) : Published(d, kind, name).published[kind][n]
                  = IF n = name THEN d.drafts[kind][name] ELSE d.published[kind][n]
           /\ \A k \in Kind \ {kind} : Published(d, kind, name).published[k] = d.published[k]
           /\ \A k \in Kind : \A n \in Present(Published(d, kind, name).drafts[k]) :
                  /\ n \in Present(d.drafts[k])
                  /\ Published(d, kind, name).drafts[k][n] = d.drafts[k][n]
<1>. DEFINE e == Published(d, kind, name)
<1>1. CASE kind = "instrument"
  <2>1. e \in Disk
    BY <1>1 DEF Published, Disk, Store, NamesOf
  <2>2. /\ e.published["instrument"] = [d.published["instrument"] EXCEPT ![name] = d.drafts[kind][name]]
        /\ e.published["room"] = d.published["room"]
        /\ e.drafts["instrument"] = [d.drafts["instrument"] EXCEPT ![name] = None]
        /\ e.drafts["room"] = d.drafts["room"]
    BY <1>1 DEF Published, Disk, Store, NamesOf
  <2>. QED BY <1>1, <2>1, <2>2 DEF Kind, Present, NamesOf, Disk, Store
<1>2. CASE kind = "room"
  <2>1. e \in Disk
    BY <1>2 DEF Published, Disk, Store, NamesOf
  <2>2. /\ e.published["room"] = [d.published["room"] EXCEPT ![name] = d.drafts[kind][name]]
        /\ e.published["instrument"] = d.published["instrument"]
        /\ e.drafts["room"] = [d.drafts["room"] EXCEPT ![name] = None]
        /\ e.drafts["instrument"] = d.drafts["instrument"]
    BY <1>2 DEF Published, Disk, Store, NamesOf
  <2>. QED BY <1>2, <2>1, <2>2 DEF Kind, Present, NamesOf, Disk, Store
<1>. QED BY <1>1, <1>2 DEF Kind

\* The rooms of a disk, file by file.
HomeOf(d, t, r) == IF r \in DOMAIN t.rooms THEN t.rooms[r] ELSE Halls(d)[r]

LEMMA RoomsAre ==
    ASSUME NEW d, NEW t
    PROVE  /\ DOMAIN AllRooms(d, t) = DOMAIN t.rooms \cup Present(Halls(d))
           /\ \A r \in DOMAIN AllRooms(d, t) :
                  AllRooms(d, t)[r].fixtures = Fitted(HomeOf(d, t, r), AllInstruments(d, t))
BY DEF AllRooms, RoomOf, HomeOf, Halls

LEMMA FilesOK ==
    ASSUME NEW d \in Disk, NEW t \in Terrariums, NEW r \in DOMAIN AllRooms(d, t)
    PROVE  RoomFileOK(HomeOf(d, t, r))
<1>1. CASE r \in DOMAIN t.rooms
  BY <1>1, CatalogAssumption DEF HomeOf
<1>2. CASE r \notin DOMAIN t.rooms
  <2>1. r \in Present(Halls(d))
    BY <1>2, RoomsAre
  <2>2. Halls(d)[r] \in RoomFile
    BY <2>1, DiskIs DEF Present
  <2>. QED BY <1>2, <2>2, CatalogAssumption DEF HomeOf
<1>. QED BY <1>1, <1>2

LEMMA SurfaceOfFile ==
    ASSUME NEW file, RoomFileOK(file), NEW a, NEW b
    PROVE  SameSurface(Fitted(file, a), Fitted(file, b))
<1>1. DOMAIN file.fixtures \subseteq Nat
  BY DEF RoomFileOK, IsList
<1>. QED BY <1>1, FittedEach, WithIs DEF SameSurface

\* As long as the rooms the outputs name are the same files, the wires are accepted.
LEMMA WiresStay ==
    ASSUME NEW d \in Disk, NEW e \in Disk, NEW t \in Terrariums,
           ~OutputsRefused(t.outputs, AllRooms(d, t)),
           DOMAIN AllRooms(d, t) \subseteq DOMAIN AllRooms(e, t),
           \A i \in DOMAIN t.outputs : HomeOf(e, t, t.outputs[i].room) = HomeOf(d, t, t.outputs[i].room)
    PROVE  ~OutputsRefused(t.outputs, AllRooms(e, t))
<1>1. ASSUME NEW i \in DOMAIN t.outputs
      PROVE  /\ t.outputs[i].room \in DOMAIN AllRooms(d, t)
             /\ t.outputs[i].room \in DOMAIN AllRooms(e, t)
  BY Zenon DEF OutputsRefused
<1>2. ASSUME NEW i \in DOMAIN t.outputs
      PROVE  SameSurface(AllRooms(d, t)[t.outputs[i].room].fixtures,
                         AllRooms(e, t)[t.outputs[i].room].fixtures)
  <2>. DEFINE file == HomeOf(d, t, t.outputs[i].room)
  <2>1. RoomFileOK(file)
    BY <1>1, FilesOK
  <2>2. /\ AllRooms(d, t)[t.outputs[i].room].fixtures = Fitted(file, AllInstruments(d, t))
        /\ AllRooms(e, t)[t.outputs[i].room].fixtures = Fitted(file, AllInstruments(e, t))
    BY <1>1, RoomsAre
  <2>. QED BY <2>1, <2>2, SurfaceOfFile
<1>3. IsList(t.outputs)
  BY CatalogAssumption
<1>4. \A i \in DOMAIN t.outputs : 1 .. i - 1 \subseteq DOMAIN t.outputs
  BY <1>3 DEF IsList
<1>. QED BY <1>1, <1>2, <1>4, SameWires

LEMMA InstrumentKeepsBoot ==
    ASSUME NEW d \in Disk, NEW t \in Terrariums, NEW rs, NEW known, NEW name \in InstrumentName,
           Bootable(d, t, rs), d.drafts["instrument"][name] # None,
           InstrumentVerdict(d.drafts["instrument"][name]) = "ok",
           ~RoomsRefuse(d, name, d.drafts["instrument"][name].inst, known),
           name \notin DOMAIN t.instruments,
           \A r \in DOMAIN t.rooms : \A i \in DOMAIN t.rooms[r].fixtures :
               t.rooms[r].fixtures[i].instrument # name
    PROVE  Bootable(Published(d, "instrument", name), t, rs)
<1>. DEFINE e == Published(d, "instrument", name)
            file == d.drafts["instrument"][name]
            old == AllInstruments(d, t)
            new == AllInstruments(e, t)
            with == [n \in {name} \cup DOMAIN known |-> IF n = name THEN file.inst ELSE known[n]]
<1>1. /\ e \in Disk /\ Halls(e) = Halls(d)
      /\ \A n \in InstrumentName : Insts(e)[n] = IF n = name THEN file ELSE Insts(d)[n]
      /\ \A k \in Kind : \A n \in Present(e.drafts[k]) :
             n \in Present(d.drafts[k]) /\ e.drafts[k][n] = d.drafts[k][n]
  <2>1. "instrument" \in Kind /\ "room" \in Kind \ {"instrument"} /\ name \in NamesOf("instrument")
    BY DEF Kind, NamesOf
  <2>2. /\ e \in Disk
        /\ \A n \in NamesOf("instrument") : e.published["instrument"][n]
               = IF n = name THEN d.drafts["instrument"][name] ELSE d.published["instrument"][n]
        /\ \A k \in Kind \ {"instrument"} : e.published[k] = d.published[k]
        /\ \A k \in Kind : \A n \in Present(e.drafts[k]) :
               n \in Present(d.drafts[k]) /\ e.drafts[k][n] = d.drafts[k][n]
    BY <2>1, PublishDoes
  <2>. QED BY <2>1, <2>2 DEF Insts, Halls, NamesOf
<1>. HIDE DEF e
<1>2. /\ Present(Insts(e)) = Present(Insts(d)) \cup {name} /\ Insts(e)[name] = file
      /\ \A n \in Present(Insts(d)) \ {name} : Insts(e)[n] = Insts(d)[n]
  BY <1>1, DiskIs DEF Present
<1>3. /\ DOMAIN new = DOMAIN old \cup {name} /\ new[name] = file.inst
      /\ \A n \in DOMAIN old \ {name} : new[n] = old[n]
  <2>1. /\ DOMAIN new = Present(Insts(e)) \cup DOMAIN t.instruments
        /\ \A n \in Present(Insts(e)) : new[n] = Insts(e)[n].inst
        /\ \A n \in DOMAIN t.instruments \ Present(Insts(e)) : new[n] = t.instruments[n]
    BY AllAre
  <2>2. /\ DOMAIN old = Present(Insts(d)) \cup DOMAIN t.instruments
        /\ \A n \in Present(Insts(d)) : old[n] = Insts(d)[n].inst
        /\ \A n \in DOMAIN t.instruments \ Present(Insts(d)) : old[n] = t.instruments[n]
    BY AllAre
  <2>. HIDE DEF old, new, file
  <2>. QED BY <1>2, <2>1, <2>2
<1>. HIDE DEF file, old, new
<1>4. ASSUME NEW f, RoomFileOK(f), RoomVerdict(f, old) = "ok",
             (\E i \in DOMAIN f.fixtures : f.fixtures[i].instrument = name)
                 => RoomVerdict(f, with) = "ok"
      PROVE  RoomVerdict(f, new) = "ok"
  <2>1. ASSUME NEW i \in DOMAIN f.fixtures
        PROVE  /\ f.fixtures[i].instrument \in DOMAIN new
               /\ \E other : /\ RoomVerdict(f, other) = "ok"
                            /\ other[f.fixtures[i].instrument] = new[f.fixtures[i].instrument]
    <3>1. f.fixtures[i].instrument \in DOMAIN old
      BY <1>4, RoomByFixture
    <3>2. CASE f.fixtures[i].instrument = name
      <4>1. with[name] = file.inst
        OBVIOUS
      <4>. QED BY <1>3, <1>4, <3>1, <3>2, <4>1
    <3>3. CASE f.fixtures[i].instrument # name
      BY <1>3, <1>4, <3>1, <3>3
    <3>. QED BY <3>2, <3>3
  <2>. QED BY <1>4, <2>1, StaysAccepted
<1>5. /\ \A n \in Present(Insts(d)) : InstrumentVerdict(Insts(d)[n]) = "ok"
      /\ \A n \in Present(Halls(d)) : RoomVerdict(Halls(d)[n], old) = "ok"
      /\ \A k \in Kind : \A n \in Present(d.drafts[k]) : d.drafts[k][n].shape # "raw"
      /\ TomlAccepted(d, t)
      /\ DOMAIN t.rooms \cap Present(Halls(d)) = {}
      /\ DOMAIN t.rooms \cup Present(Halls(d)) # {}
      /\ ~OutputsRefused(t.outputs, AllRooms(d, t)) /\ ~ScanRaises(rs)
  BY BootByEntry DEF old
<1>6. \A n \in Present(Insts(e)) : InstrumentVerdict(Insts(e)[n]) = "ok"
  BY <1>2, <1>5 DEF file
<1>7. ASSUME NEW n \in Present(Halls(e)) PROVE RoomVerdict(Halls(e)[n], new) = "ok"
  <2>. DEFINE f == Halls(d)[n]
  <2>1. f \in RoomFile /\ RoomVerdict(f, old) = "ok" /\ n \in Present(Halls(d))
    BY <1>1, <1>5, DiskIs DEF Present
  <2>2. RoomFileOK(f)
    BY <2>1, CatalogAssumption
  <2>3. ASSUME NEW i \in DOMAIN f.fixtures, f.fixtures[i].instrument = name
        PROVE  RoomVerdict(f, with) = "ok"
    <3>1. RoomVerdict(f, with) # "refused"
      BY <2>1, <2>3 DEF RoomsRefuse, Halls, file
    <3>2. f.shape # "raw"
      BY <2>1, Verdicts DEF Kind
    <3>. QED BY <3>1, <3>2, Verdicts DEF Kind
  <2>. HIDE DEF f
  <2>4. RoomVerdict(f, new) = "ok"
    BY <1>4, <2>1, <2>2, <2>3
  <2>. QED BY <1>1, <2>4 DEF f
<1>8. TomlAccepted(e, t)
  <2>2. ASSUME NEW r \in DOMAIN t.rooms PROVE RoomVerdict(t.rooms[r], new) = "ok"
    <3>1. RoomVerdict(t.rooms[r], old) = "ok" /\ RoomFileOK(t.rooms[r])
      BY <1>5, CatalogAssumption DEF TomlAccepted, old
    <3>. QED BY <1>4, <3>1
  <2>3. DOMAIN t.instruments \cap Present(Insts(e)) = {}
    BY <1>2, <1>5 DEF TomlAccepted, Insts
  <2>. QED BY <1>5, <2>2, <2>3 DEF TomlAccepted, Insts, new
<1>9. ~OutputsRefused(t.outputs, AllRooms(e, t))
  BY <1>1, <1>5, WiresStay, RoomsAre DEF HomeOf
<1>10. \A k \in Kind : \A n \in Present(e.drafts[k]) : e.drafts[k][n].shape # "raw"
  BY <1>1, <1>5
<1>11. Bootable(e, t, rs)
  BY <1>1, <1>5, <1>6, <1>7, <1>8, <1>9, <1>10, BootByEntry DEF new
<1>. QED BY <1>11 DEF e

LEMMA RoomKeepsBoot ==
    ASSUME NEW d \in Disk, NEW t \in Terrariums, NEW rs, NEW known, NEW name \in RoomName,
           Bootable(d, t, rs), d.drafts["room"][name] # None,
           RoomVerdict(d.drafts["room"][name], known) = "ok",
           name \notin DOMAIN t.rooms, \A i \in DOMAIN t.outputs : t.outputs[i].room # name,
           \A i \in DOMAIN d.drafts["room"][name].fixtures :
               LET n == d.drafts["room"][name].fixtures[i].instrument
               IN  n \in DOMAIN AllInstruments(d, t) /\ AllInstruments(d, t)[n] = known[n]
    PROVE  Bootable(Published(d, "room", name), t, rs)
<1>. DEFINE e == Published(d, "room", name)
            file == d.drafts["room"][name]
            all == AllInstruments(d, t)
<1>1. /\ e \in Disk /\ Insts(e) = Insts(d)
      /\ \A n \in RoomName : Halls(e)[n] = IF n = name THEN file ELSE Halls(d)[n]
      /\ \A k \in Kind : \A n \in Present(e.drafts[k]) :
             n \in Present(d.drafts[k]) /\ e.drafts[k][n] = d.drafts[k][n]
  <2>1. "room" \in Kind /\ "instrument" \in Kind \ {"room"} /\ name \in NamesOf("room")
    BY DEF Kind, NamesOf
  <2>2. /\ e \in Disk
        /\ \A n \in NamesOf("room") : e.published["room"][n]
               = IF n = name THEN d.drafts["room"][name] ELSE d.published["room"][n]
        /\ \A k \in Kind \ {"room"} : e.published[k] = d.published[k]
        /\ \A k \in Kind : \A n \in Present(e.drafts[k]) :
               n \in Present(d.drafts[k]) /\ e.drafts[k][n] = d.drafts[k][n]
    BY <2>1, PublishDoes
  <2>. QED BY <2>1, <2>2 DEF Insts, Halls, NamesOf
<1>. HIDE DEF e
<1>2. /\ Present(Halls(e)) = Present(Halls(d)) \cup {name} /\ Halls(e)[name] = file
      /\ \A n \in Present(Halls(d)) \ {name} : Halls(e)[n] = Halls(d)[n]
  BY <1>1, DiskIs DEF Present
<1>3. AllInstruments(e, t) = all
  BY <1>1, Zenon DEF AllInstruments, PublishedInstruments, Insts
<1>4. RoomVerdict(file, all) = "ok"
  <2>1. file \in RoomFile
    BY DiskIs
  <2>2. RoomFileOK(file)
    BY <2>1, CatalogAssumption
  <2>. QED BY <2>2, StaysAccepted
<1>. HIDE DEF file
<1>5. /\ \A n \in Present(Insts(d)) : InstrumentVerdict(Insts(d)[n]) = "ok"
      /\ \A n \in Present(Halls(d)) : RoomVerdict(Halls(d)[n], all) = "ok"
      /\ \A k \in Kind : \A n \in Present(d.drafts[k]) : d.drafts[k][n].shape # "raw"
      /\ TomlAccepted(d, t)
      /\ DOMAIN t.rooms \cap Present(Halls(d)) = {}
      /\ DOMAIN t.rooms \cup Present(Halls(d)) # {}
      /\ ~OutputsRefused(t.outputs, AllRooms(d, t)) /\ ~ScanRaises(rs)
  BY BootByEntry
<1>. HIDE DEF all
<1>6. \A n \in Present(Halls(e)) : RoomVerdict(Halls(e)[n], all) = "ok"
  BY <1>2, <1>4, <1>5
<1>7. TomlAccepted(e, t)
  BY <1>1, <1>3, <1>5 DEF TomlAccepted, Insts, all
<1>8. ~OutputsRefused(t.outputs, AllRooms(e, t))
  <2>1. ASSUME NEW i \in DOMAIN t.outputs
        PROVE  HomeOf(e, t, t.outputs[i].room) = HomeOf(d, t, t.outputs[i].room)
    <3>. DEFINE r == t.outputs[i].room
    <3>1. r \in DOMAIN AllRooms(d, t) /\ r # name
      BY <1>5, Zenon DEF OutputsRefused
    <3>2. r \in DOMAIN t.rooms \/ r \in Present(Halls(d))
      BY <3>1, RoomsAre
    <3>. QED BY <1>2, <3>1, <3>2 DEF HomeOf
  <2>2. DOMAIN AllRooms(d, t) \subseteq DOMAIN AllRooms(e, t)
    <3>1. DOMAIN AllRooms(d, t) = DOMAIN t.rooms \cup Present(Halls(d))
      BY RoomsAre
    <3>2. DOMAIN AllRooms(e, t) = DOMAIN t.rooms \cup Present(Halls(e))
      BY RoomsAre
    <3>. QED BY <1>2, <3>1, <3>2
  <2>. QED BY <1>1, <1>5, <2>1, <2>2, WiresStay
<1>9. \A k \in Kind : \A n \in Present(e.drafts[k]) : e.drafts[k][n].shape # "raw"
  BY <1>1, <1>5
<1>10. Bootable(e, t, rs)
  <2>1. \A n \in Present(Halls(e)) : RoomVerdict(Halls(e)[n], AllInstruments(e, t)) = "ok"
    BY <1>3, <1>6
  <2>. QED BY <1>1, <1>2, <1>5, <1>7, <1>8, <1>9, <2>1, BootByEntry
<1>. QED BY <1>10 DEF e

-----------------------------------------------------------------------------
(* The next boot                                                           *)

\* What Control read is still there, though perhaps another version of it.
ConfigLasts ==
    config # None =>
        /\ DOMAIN config.instruments \subseteq Present(Insts(disk)) \cup DOMAIN toml.instruments
        /\ \A n \in DOMAIN toml.instruments :
               n \notin Present(Insts(disk)) => config.instruments[n] = toml.instruments[n]

BootInv == disk \in Disk /\ toml \in Terrariums /\ ConfigLasts /\ StaysBootable

LEMMA BootInvStarts == CatalogInit => BootInv
BY CatalogAssumption DEF CatalogInit, BootInv, ConfigLasts, StaysBootable

\* A file among the drafts does not come between the disk and its boot, unless it
\* makes the parser raise.
LEMMA DraftKeepsBoot ==
    ASSUME NEW d \in Disk, NEW t, NEW rs, NEW kind \in Kind, NEW name \in NamesOf(kind),
           NEW file \in FilesOf(kind)
    PROVE  LET e == [d EXCEPT !.drafts[kind][name] = file]
           IN  /\ e \in Disk /\ Insts(e) = Insts(d)
               /\ file.shape # "raw" /\ Bootable(d, t, rs) => Bootable(e, t, rs)
<1>. DEFINE e == [d EXCEPT !.drafts[kind][name] = file]
<1>1. /\ e \in Disk /\ e.published = d.published
      /\ \A k \in Kind : \A n \in Present(e.drafts[k]) :
             \/ e.drafts[k][n] = file
             \/ n \in Present(d.drafts[k]) /\ e.drafts[k][n] = d.drafts[k][n]
  <2>1. CASE kind = "instrument"
    <3>1. /\ e \in Disk /\ e.published = d.published
          /\ e.drafts["instrument"] = [d.drafts["instrument"] EXCEPT ![name] = file]
          /\ e.drafts["room"] = d.drafts["room"]
      BY <2>1 DEF Disk, Store, NamesOf, FilesOf
    <3>. HIDE DEF e
    <3>. QED BY <2>1, <3>1 DEF Kind, Present, NamesOf, Disk, Store
  <2>2. CASE kind = "room"
    <3>1. /\ e \in Disk /\ e.published = d.published
          /\ e.drafts["room"] = [d.drafts["room"] EXCEPT ![name] = file]
          /\ e.drafts["instrument"] = d.drafts["instrument"]
      BY <2>2 DEF Disk, Store, NamesOf, FilesOf
    <3>. HIDE DEF e
    <3>. QED BY <2>2, <3>1 DEF Kind, Present, NamesOf, Disk, Store
  <2>. QED BY <2>1, <2>2 DEF Kind
<1>. HIDE DEF e
<1>2. Insts(e) = Insts(d) /\ Halls(e) = Halls(d)
  BY <1>1 DEF Insts, Halls
<1>3. ASSUME file.shape # "raw", Bootable(d, t, rs) PROVE Bootable(e, t, rs)
  <2>1. AllInstruments(e, t) = AllInstruments(d, t) /\ AllRooms(e, t) = AllRooms(d, t)
    BY <1>2, Zenon DEF AllInstruments, PublishedInstruments, AllRooms, Insts, Halls
  <2>2. TomlAccepted(d, t) <=> TomlAccepted(e, t)
    BY <1>2, <2>1 DEF TomlAccepted, Insts
  <2>3. /\ \A n \in Present(Insts(d)) : InstrumentVerdict(Insts(d)[n]) = "ok"
        /\ \A n \in Present(Halls(d)) : RoomVerdict(Halls(d)[n], AllInstruments(d, t)) = "ok"
        /\ \A k \in Kind : \A n \in Present(d.drafts[k]) : d.drafts[k][n].shape # "raw"
        /\ TomlAccepted(d, t)
        /\ DOMAIN t.rooms \cap Present(Halls(d)) = {}
        /\ DOMAIN t.rooms \cup Present(Halls(d)) # {}
        /\ ~OutputsRefused(t.outputs, AllRooms(d, t)) /\ ~ScanRaises(rs)
    BY <1>3, BootByEntry
  <2>4. \A k \in Kind : \A n \in Present(e.drafts[k]) : e.drafts[k][n].shape # "raw"
    BY <1>1, <1>3, <2>3
  <2>. QED BY <1>2, <2>1, <2>2, <2>3, <2>4, BootByEntry
<1>. QED BY <1>1, <1>2, <1>3 DEF e

LEMMA SaveKeepsBoot ==
    ASSUME BootInv, NEW kind \in Kind, NEW name \in NamesOf(kind), NEW file \in FilesOf(kind),
           Save(kind, name, file)
    PROVE  BootInv'
<1>1. /\ disk' = [disk EXCEPT !.drafts[kind][name] = file]
      /\ toml' = toml /\ roots' = roots /\ (config' = None \/ config' = config)
      /\ exposed' = (exposed \/ Verdict(kind, file, InstrumentsForRooms) = "raises")
  BY DEF Save, Answered, Gone
<1>2. disk' \in Disk /\ Insts(disk') = Insts(disk)
  BY <1>1, DraftKeepsBoot DEF BootInv
<1>3. ConfigLasts'
  BY <1>1, <1>2 DEF BootInv, ConfigLasts
<1>4. StaysBootable'
  <2>. SUFFICES ASSUME ~exposed' PROVE Bootable(disk', toml, roots)
    BY <1>1 DEF StaysBootable
  <2>1. file.shape # "raw" /\ Bootable(disk, toml, roots)
    BY <1>1, Verdicts DEF BootInv, StaysBootable
  <2>. QED BY <1>1, <2>1, DraftKeepsBoot DEF BootInv
<1>. QED BY <1>1, <1>2, <1>3, <1>4 DEF BootInv

LEMMA CloneKeepsBoot ==
    ASSUME BootInv, NEW kind \in Kind, NEW state \in {"published", "drafts"},
           NEW source \in NamesOf(kind), NEW name \in NamesOf(kind),
           Clone(kind, state, source, name)
    PROVE  BootInv'
<1>. DEFINE file == disk[state][kind][source]
<1>1. /\ disk' = [disk EXCEPT !.drafts[kind][name] = file] /\ file # None
      /\ toml' = toml /\ roots' = roots /\ (config' = None \/ config' = config)
      /\ exposed' = exposed
  BY DEF Clone, Answered, Gone
<1>2. file \in FilesOf(kind)
  <2>1. /\ Insts(disk) \in [InstrumentName -> InstrumentFile \cup {None}]
        /\ Halls(disk) \in [RoomName -> RoomFile \cup {None}]
        /\ disk.drafts["instrument"] \in [InstrumentName -> InstrumentFile \cup {None}]
        /\ disk.drafts["room"] \in [RoomName -> RoomFile \cup {None}]
    BY DiskIs DEF BootInv
  <2>2. disk["published"] = disk.published /\ disk["drafts"] = disk.drafts
    OBVIOUS
  <2>3. CASE kind = "instrument"
    BY <1>1, <2>1, <2>2, <2>3 DEF NamesOf, FilesOf, Insts
  <2>4. CASE kind = "room"
    BY <1>1, <2>1, <2>2, <2>4 DEF NamesOf, FilesOf, Halls
  <2>. QED BY <2>3, <2>4 DEF Kind
<1>3. Bootable(disk, toml, roots) => file.shape # "raw"
  <2>. SUFFICES ASSUME Bootable(disk, toml, roots) PROVE file.shape # "raw"
    OBVIOUS
  <2>1. CASE state = "drafts"
    <3>1. source \in Present(disk.drafts[kind])
      BY <1>1, <2>1, DiskIs DEF Present, BootInv, Kind, NamesOf
    <3>. QED BY <2>1, <3>1, BootByEntry
  <2>2. CASE state = "published" /\ kind = "instrument"
    <3>1. source \in Present(Insts(disk)) /\ file = Insts(disk)[source]
      BY <1>1, <2>2, DiskIs DEF Present, BootInv, NamesOf, Insts
    <3>2. InstrumentVerdict(file) = "ok"
      BY <3>1, BootByEntry
    <3>. QED BY <3>2, Verdicts DEF Kind
  <2>3. CASE state = "published" /\ kind = "room"
    <3>1. source \in Present(Halls(disk)) /\ file = Halls(disk)[source]
      BY <1>1, <2>3, DiskIs DEF Present, BootInv, NamesOf, Halls
    <3>2. RoomVerdict(file, AllInstruments(disk, toml)) = "ok"
      BY <3>1, BootByEntry
    <3>. QED BY <3>2, Verdicts DEF Kind
  <2>. QED BY <2>1, <2>2, <2>3 DEF Kind
<1>. HIDE DEF file
<1>4. disk' \in Disk /\ Insts(disk') = Insts(disk)
  BY <1>1, <1>2, DraftKeepsBoot DEF BootInv
<1>5. ConfigLasts'
  BY <1>1, <1>4 DEF BootInv, ConfigLasts
<1>6. StaysBootable'
  <2>. SUFFICES ASSUME ~exposed' PROVE Bootable(disk', toml, roots)
    BY <1>1 DEF StaysBootable
  <2>1. Bootable(disk, toml, roots)
    BY <1>1 DEF BootInv, StaysBootable
  <2>. QED BY <1>1, <1>2, <1>3, <2>1, DraftKeepsBoot DEF BootInv
<1>. QED BY <1>1, <1>4, <1>5, <1>6 DEF BootInv

LEMMA PublishKeepsBoot ==
    ASSUME BootInv, NEW kind \in Kind, NEW name \in NamesOf(kind), Publish(kind, name)
    PROVE  BootInv'
<1>. DEFINE file == disk.drafts[kind][name]
<1>1. /\ disk' = Published(disk, kind, name) /\ config # None
      /\ file # None /\ PublishVerdict(disk, kind, name) = "ok"
      /\ toml' = toml /\ roots' = roots /\ (config' = None \/ config' = config)
      /\ exposed' = (exposed \/ Unchecked(disk, kind, name))
  BY DEF Publish, Answered, Gone, Published, Commands
<1>2. /\ disk' \in Disk
      /\ \A n \in NamesOf(kind) : disk'.published[kind][n] = IF n = name THEN file ELSE disk.published[kind][n]
      /\ \A k \in Kind \ {kind} : disk'.published[k] = disk.published[k]
  <2>1. disk \in Disk
    BY DEF BootInv
  <2>. QED BY <1>1, <2>1, PublishDoes
<1>3. Present(Insts(disk)) \subseteq Present(Insts(disk'))
  <2>1. CASE kind = "instrument"
    <3>1. /\ Insts(disk) \in [InstrumentName -> InstrumentFile \cup {None}]
          /\ Insts(disk') \in [InstrumentName -> InstrumentFile \cup {None}]
      BY <1>2, DiskIs DEF BootInv
    <3>2. \A n \in InstrumentName : Insts(disk')[n] = IF n = name THEN file ELSE Insts(disk)[n]
      BY <1>2, <2>1 DEF Insts, NamesOf
    <3>. QED BY <1>1, <3>1, <3>2 DEF Present
  <2>2. CASE kind = "room"
    BY <1>2, <2>2 DEF Insts, Kind
  <2>. QED BY <2>1, <2>2 DEF Kind
<1>4. ConfigLasts'
  BY <1>1, <1>3 DEF BootInv, ConfigLasts
<1>5. StaysBootable'
  <2>. SUFFICES ASSUME ~exposed' PROVE Bootable(disk', toml, roots)
    BY <1>1 DEF StaysBootable
  <2>1. Bootable(disk, toml, roots) /\ ~Unchecked(disk, kind, name)
    BY <1>1 DEF BootInv, StaysBootable
  <2>2. CASE kind = "instrument"
    <3>1. /\ InstrumentVerdict(file) = "ok" /\ ~RoomsRefuse(disk, name, file.inst, config.instruments)
      BY <1>1, <2>2, Verdicts DEF PublishVerdict, InstrumentsForRooms, Kind
    <3>2. /\ name \notin DOMAIN toml.instruments
          /\ \A r \in DOMAIN toml.rooms : \A i \in DOMAIN toml.rooms[r].fixtures :
                 toml.rooms[r].fixtures[i].instrument # name
      BY <2>1, <2>2 DEF Unchecked
    <3>3. name \in InstrumentName
      BY <2>2 DEF NamesOf
    <3>. QED BY <1>1, <2>1, <2>2, <3>1, <3>2, <3>3, InstrumentKeepsBoot DEF BootInv
  <2>3. CASE kind = "room"
    <3>1. RoomVerdict(file, config.instruments) = "ok"
      BY <1>1, <2>3, Verdicts DEF PublishVerdict, InstrumentsForRooms, Kind
    <3>2. /\ name \notin DOMAIN toml.rooms /\ \A i \in DOMAIN toml.outputs : toml.outputs[i].room # name
          /\ \A i \in DOMAIN file.fixtures :
                 LET n == file.fixtures[i].instrument
                 IN  n \in Present(Insts(disk)) /\ n \in DOMAIN config.instruments
                         => config.instruments[n] = Insts(disk)[n].inst
      BY <2>1, <2>3 DEF Unchecked, Insts
    <3>3. name \in RoomName
      BY <2>3 DEF NamesOf
    <3>4. file \in RoomFile
      BY <1>1, <2>3, <3>3, DiskIs DEF BootInv
    <3>5. ASSUME NEW i \in DOMAIN file.fixtures
          PROVE  /\ file.fixtures[i].instrument \in DOMAIN AllInstruments(disk, toml)
                 /\ AllInstruments(disk, toml)[file.fixtures[i].instrument]
                      = config.instruments[file.fixtures[i].instrument]
      <4>. DEFINE n == file.fixtures[i].instrument
                  all == AllInstruments(disk, toml)
      <4>1. n \in DOMAIN config.instruments
        BY <3>1, <3>4, RoomByFixture, CatalogAssumption
      <4>2. n \in Present(Insts(disk)) \/ n \in DOMAIN toml.instruments
        BY <1>1, <4>1 DEF BootInv, ConfigLasts
      <4>3. /\ DOMAIN all = Present(Insts(disk)) \cup DOMAIN toml.instruments
            /\ \A m \in Present(Insts(disk)) : all[m] = Insts(disk)[m].inst
            /\ \A m \in DOMAIN toml.instruments \ Present(Insts(disk)) : all[m] = toml.instruments[m]
        BY DEF AllInstruments, PublishedInstruments, Insts
      <4>. HIDE DEF all, n
      <4>4. n \in Present(Insts(disk)) => config.instruments[n] = Insts(disk)[n].inst
        BY <3>2, <4>1 DEF n
      <4>5. n \notin Present(Insts(disk)) => config.instruments[n] = toml.instruments[n]
        BY <1>1, <4>2 DEF BootInv, ConfigLasts
      <4>6. n \in DOMAIN all /\ all[n] = config.instruments[n]
        BY <4>2, <4>3, <4>4, <4>5
      <4>. QED BY <4>6 DEF all, n
    <3>. QED BY <1>1, <2>1, <2>3, <3>1, <3>2, <3>3, <3>5, RoomKeepsBoot DEF BootInv
  <2>. QED BY <2>2, <2>3 DEF Kind
<1>. QED BY <1>1, <1>2, <1>4, <1>5 DEF BootInv

LEMMA BootKeepsBoot ==
    ASSUME BootInv, Boot
    PROVE  BootInv'
<1>1. /\ config'.instruments = AllInstruments(disk, toml)
      /\ UNCHANGED <<disk, toml, roots, exposed>>
  BY DEF Boot
<1>2. ConfigLasts'
  <2>1. /\ DOMAIN config'.instruments = Present(Insts(disk)) \cup DOMAIN toml.instruments
        /\ \A n \in DOMAIN toml.instruments \ Present(Insts(disk)) :
               config'.instruments[n] = toml.instruments[n]
    <3>. DEFINE all == AllInstruments(disk, toml)
    <3>1. /\ DOMAIN all = Present(Insts(disk)) \cup DOMAIN toml.instruments
          /\ \A n \in DOMAIN toml.instruments \ Present(Insts(disk)) : all[n] = toml.instruments[n]
      BY DEF AllInstruments, PublishedInstruments, Insts
    <3>. QED BY <1>1, <3>1
  <2>2. Insts(disk') = Insts(disk) /\ toml' = toml
    BY <1>1
  <2>. QED BY <2>1, <2>2 DEF ConfigLasts
<1>. QED BY <1>1, <1>2 DEF BootInv, StaysBootable

LEMMA BootInvKept ==
    ASSUME BootInv, [CatalogNext]_catalogVars
    PROVE  BootInv'
<1>1. CASE Boot
  BY <1>1, BootKeepsBoot
<1>2. ASSUME UNCHANGED <<disk, toml, roots, exposed>>, config' = None \/ config' = config
      PROVE  BootInv'
  BY <1>2 DEF BootInv, ConfigLasts, StaysBootable
<1>3. CASE Stop
  BY <1>2, <1>3 DEF Stop, Gone
<1>4. ASSUME NEW k \in Kind, NEW n \in NamesOf(k), Publish(k, n) PROVE BootInv'
  BY <1>4, PublishKeepsBoot
<1>5. ASSUME NEW k \in Kind, NEW n \in NamesOf(k), NEW file \in FilesOf(k), Save(k, n, file)
      PROVE  BootInv'
  BY <1>5, SaveKeepsBoot
<1>6. ASSUME NEW k \in Kind, NEW n \in NamesOf(k), NEW state \in {"published", "drafts"},
             NEW s \in NamesOf(k), Clone(k, state, s, n)
      PROVE  BootInv'
  BY <1>6, CloneKeepsBoot
<1>7. ASSUME NEW r \in RoomName, TakeUpRoom(r) PROVE BootInv'
  BY <1>2, <1>7 DEF TakeUpRoom
<1>8. ASSUME NEW b, NEW o, TakeUpBit(b, o) PROVE BootInv'
  BY <1>2, <1>8 DEF TakeUpBit
<1>9. CASE UNCHANGED catalogVars
  BY <1>2, <1>9 DEF catalogVars
<1>. QED BY <1>1, <1>3, <1>4, <1>5, <1>6, <1>7, <1>8, <1>9 DEF CatalogNext

\* Whatever a Console session saves, clones and publishes, the next boot accepts the
\* disk, unless one of the commands Control does not check was among them
\* (control/catalog.py: publish_entry; console/agent.py: _instruments_for_rooms).
THEOREM DiskStaysBootable == CatalogSpec => []StaysBootable
<1>1. BootInv => StaysBootable
  BY DEF BootInv
<1>. QED BY <1>1, BootInvStarts, BootInvKept, PTL DEF CatalogSpec

-----------------------------------------------------------------------------
(* A fixture's pixels                                                      *)

\* Counting up to k reaches every number.
LEMMA CountedUp ==
    ASSUME NEW k \in Nat, NEW T, 0 \in T, \A n \in 1 .. k : n - 1 \in T => n \in T
    PROVE  \A n \in 0 .. k : n \in T
<1>. SUFFICES ASSUME NEW m \in 0 .. k, m \notin T PROVE FALSE
  OBVIOUS
<1>. DEFINE Missed == (0 .. k) \ T
<1>1. Missed \subseteq Nat /\ Missed # {}
  OBVIOUS
<1>2. PICK d \in Missed : \A c \in Missed : <<c, d>> \notin OpToRel(<, Nat)
  BY <1>1, NatLessThanWellFounded, WFMin
<1>3. d \in Nat /\ d # 0 /\ d - 1 \in 0 .. k /\ d \in 1 .. k /\ d \notin T
  OBVIOUS
<1>4. d - 1 \notin T
  BY <1>3
<1>5. d - 1 \in Missed /\ d - 1 \in Nat /\ d - 1 < d
  BY <1>3, <1>4
<1>6. <<d - 1, d>> \in OpToRel(<, Nat)
  BY <1>3, <1>5, Zenon DEF OpToRel
<1>. QED BY <1>2, <1>5, <1>6

\* In a total order of 1 .. k, each of 1 .. k is the rank of one.
LEMMA RankTaken ==
    ASSUME NEW k \in Nat, NEW R,
           \A a, b \in 1 .. k : <<a, b>> \in R \/ <<b, a>> \in R,
           \A a, b \in 1 .. k : <<a, b>> \in R /\ <<b, a>> \in R => a = b,
           \A a, b, c \in 1 .. k : <<a, b>> \in R /\ <<b, c>> \in R => <<a, c>> \in R
    PROVE  LET rank == [i \in 1 .. k |-> Cardinality({j \in 1 .. k : <<j, i>> \in R})]
           IN  /\ \A n \in 1 .. k : \E i \in 1 .. k : rank[i] = n
               /\ \A i, j \in 1 .. k : rank[i] < rank[j] => <<i, j>> \in R
               /\ \A i, j \in 1 .. k : rank[i] = rank[j] => i = j
               /\ \A i \in 1 .. k : rank[i] \in 1 .. k
<1>. DEFINE Below(i) == {j \in 1 .. k : <<j, i>> \in R}
            rank == [i \in 1 .. k |-> Cardinality(Below(i))]
<1>1. IsFiniteSet(1 .. k) /\ Cardinality(1 .. k) = k
  BY FS_Interval
<1>2. \A i \in 1 .. k : /\ Below(i) \in SUBSET (1 .. k) /\ i \in Below(i)
                        /\ IsFiniteSet(Below(i)) /\ rank[i] = Cardinality(Below(i))
                        /\ rank[i] \in Nat /\ rank[i] <= k
  <2>. TAKE i \in 1 .. k
  <2>1. /\ Below(i) \in SUBSET (1 .. k) /\ i \in Below(i)
        /\ rank[i] = Cardinality(Below(i))
    OBVIOUS
  <2>. HIDE DEF Below, rank
  <2>2. IsFiniteSet(Below(i)) /\ Cardinality(Below(i)) <= k
    BY <1>1, <2>1, FS_Subset
  <2>3. Cardinality(Below(i)) \in Nat
    BY <2>2, FS_CardinalityType
  <2>. QED BY <2>1, <2>2, <2>3
<1>3. ASSUME NEW i \in 1 .. k, NEW j \in 1 .. k, i # j, <<i, j>> \in R
      PROVE  rank[i] < rank[j]
  <2>1. Below(i) \in SUBSET Below(j) /\ j \in Below(j) /\ j \notin Below(i)
    BY <1>3
  <2>2. IsFiniteSet(Below(j)) /\ rank[i] \in Nat /\ rank[j] \in Nat
        /\ rank[i] = Cardinality(Below(i)) /\ rank[j] = Cardinality(Below(j))
    BY <1>2
  <2>. HIDE DEF Below, rank
  <2>3. Cardinality(Below(i)) <= Cardinality(Below(j))
        /\ Cardinality(Below(i)) # Cardinality(Below(j))
    BY <2>1, <2>2, FS_Subset
  <2>. QED BY <2>2, <2>3
<1>. HIDE DEF rank, Below
<1>4. \A i \in 1 .. k : rank[i] # 0
  BY <1>2, FS_EmptySet
<1>5. \A i \in 1 .. k : rank[i] \in 1 .. k
  BY <1>2, <1>4
<1>6. \A i, j \in 1 .. k : rank[i] < rank[j] => <<i, j>> \in R
  <2>. SUFFICES ASSUME NEW i \in 1 .. k, NEW j \in 1 .. k, rank[i] < rank[j], <<i, j>> \notin R
                PROVE  FALSE
    OBVIOUS
  <2>1. i # j /\ <<j, i>> \in R
    BY <1>2
  <2>. QED BY <1>2, <1>3, <2>1
<1>7. \A i, j \in 1 .. k : rank[i] = rank[j] => i = j
  <2>. SUFFICES ASSUME NEW i \in 1 .. k, NEW j \in 1 .. k, rank[i] = rank[j], i # j
                PROVE  FALSE
    OBVIOUS
  <2>1. rank[i] < rank[j] \/ rank[j] < rank[i]
    BY <1>3
  <2>. QED BY <1>2, <2>1
<1>8. rank \in Injection(1 .. k, 1 .. k)
  BY <1>5, <1>7 DEF rank, Injection, IsInjective
<1>9. rank \in Surjection(1 .. k, 1 .. k)
  BY <1>1, <1>8, FS_Injection
<1>10. \A n \in 1 .. k : \E i \in 1 .. k : rank[i] = n
  BY <1>9 DEF Surjection
<1>. QED BY <1>5, <1>6, <1>7, <1>10 DEF rank, Below

LEMMA RunsAre ==
    ASSUME NEW runs, RunsOK(runs)
    PROVE  /\ Len(runs) \in Nat /\ DOMAIN runs = 1 .. Len(runs)
           /\ \A i \in 1 .. Len(runs) : /\ runs[i].start \in Int /\ runs[i].count \in Int
                                        /\ End(runs[i]) = runs[i].start + runs[i].count
                                        /\ End(runs[i]) \in Int
BY DEF RunsOK, IsList, End

\* The spans are the runs in another order, by their starts.
LEMMA SpansSorted ==
    ASSUME NEW runs, RunsOK(runs)
    PROVE  \E p \in [1 .. Len(runs) -> 1 .. Len(runs)] :
               /\ Spans(runs) = [n \in 1 .. Len(runs) |-> runs[p[n]]]
               /\ \A i \in 1 .. Len(runs) : \E n \in 1 .. Len(runs) : p[n] = i
               /\ \A m, n \in 1 .. Len(runs) : m < n => runs[p[m]].start <= runs[p[n]].start
<1>. DEFINE k == Len(runs)
            R == {ij \in (1 .. k) \X (1 .. k) : ComesBefore(runs, ij[1], ij[2])}
            rank == [i \in 1 .. k |-> Cardinality({j \in 1 .. k : <<j, i>> \in R})]
            p == [n \in 1 .. k |-> CHOOSE i \in 1 .. k : rank[i] = n]
<1>1. /\ k \in Nat /\ DOMAIN runs = 1 .. k
      /\ \A i \in 1 .. k : runs[i].start \in Int /\ End(runs[i]) \in Int
  BY RunsAre
<1>2. \A i, j \in 1 .. k : <<i, j>> \in R <=> ComesBefore(runs, i, j)
  OBVIOUS
<1>3. Spans(runs) = [n \in 1 .. k |-> runs[p[n]]]
  <2>1. \A i \in 1 .. k : {j \in 1 .. k : <<j, i>> \in R} = {j \in 1 .. k : ComesBefore(runs, j, i)}
    BY <1>2
  <2>2. rank = [i \in 1 .. k |-> Cardinality({j \in 1 .. k : ComesBefore(runs, j, i)})]
    BY <2>1
  <2>. DEFINE among == [i \in DOMAIN runs |->
                           Cardinality({j \in DOMAIN runs : ComesBefore(runs, j, i)})]
  <2>3. Spans(runs) = [n \in DOMAIN runs |-> runs[CHOOSE i \in DOMAIN runs : among[i] = n]]
    BY DEF Spans
  <2>4. among = rank
    BY <1>1, <2>2
  <2>. HIDE DEF among, rank
  <2>5. Spans(runs) = [n \in 1 .. k |-> runs[CHOOSE i \in 1 .. k : rank[i] = n]]
    <3>1. DOMAIN runs = 1 .. k
      BY <1>1
    <3>. HIDE DEF k
    <3>. QED BY <2>3, <2>4, <3>1
  <2>. QED BY <2>5
<1>. HIDE DEF k, R
<1>4. /\ \A a, b \in 1 .. k : <<a, b>> \in R \/ <<b, a>> \in R
      /\ \A a, b \in 1 .. k : <<a, b>> \in R /\ <<b, a>> \in R => a = b
      /\ \A a, b \in 1 .. k : <<a, b>> \in R => runs[a].start <= runs[b].start
      /\ \A a, b, c \in 1 .. k : <<a, b>> \in R /\ <<b, c>> \in R => <<a, c>> \in R
  <2>1. ASSUME NEW a \in 1 .. k, NEW b \in 1 .. k PROVE <<a, b>> \in R \/ <<b, a>> \in R
    <3>1. a \in Nat /\ b \in Nat /\ (a <= b \/ b <= a)
      BY <1>1
    <3>2. ComesBefore(runs, a, b) \/ ComesBefore(runs, b, a)
      BY <3>1 DEF ComesBefore
    <3>. QED BY <1>2, <3>2
  <2>2. ASSUME NEW a \in 1 .. k, NEW b \in 1 .. k, <<a, b>> \in R, <<b, a>> \in R PROVE a = b
    <3>1. a \in Nat /\ b \in Nat /\ ComesBefore(runs, a, b) /\ ComesBefore(runs, b, a)
      BY <1>1, <1>2, <2>2
    <3>2. a <= b /\ b <= a
      BY <1>1, <3>1 DEF ComesBefore, SpanLess
    <3>. QED BY <3>1, <3>2
  <2>3. \A a, b \in 1 .. k : <<a, b>> \in R => runs[a].start <= runs[b].start
    BY <1>1, <1>2 DEF ComesBefore, SpanLess
  <2>4. ASSUME NEW a \in 1 .. k, NEW b \in 1 .. k, NEW c \in 1 .. k,
               <<a, b>> \in R, <<b, c>> \in R
        PROVE  <<a, c>> \in R
    <3>1. ComesBefore(runs, a, b) /\ ComesBefore(runs, b, c) /\ a \in Nat /\ b \in Nat /\ c \in Nat
      BY <1>1, <1>2, <2>4
    <3>2. /\ runs[a].start \in Int /\ runs[b].start \in Int /\ runs[c].start \in Int
          /\ End(runs[a]) \in Int /\ End(runs[b]) \in Int /\ End(runs[c]) \in Int
      BY <1>1
    <3>3. ComesBefore(runs, a, c)
      BY <3>1, <3>2 DEF ComesBefore, SpanLess
    <3>. QED BY <1>2, <3>3
  <2>. QED BY <2>1, <2>2, <2>3, <2>4
<1>5. /\ \A n \in 1 .. k : \E i \in 1 .. k : rank[i] = n
      /\ \A i, j \in 1 .. k : rank[i] < rank[j] => <<i, j>> \in R
      /\ \A i, j \in 1 .. k : rank[i] = rank[j] => i = j
      /\ \A i \in 1 .. k : rank[i] \in 1 .. k
  BY <1>1, <1>4, RankTaken
<1>. HIDE DEF rank
<1>6. \A n \in 1 .. k : p[n] \in 1 .. k /\ rank[p[n]] = n
  BY <1>5
<1>. HIDE DEF p
<1>7. p \in [1 .. k -> 1 .. k]
  BY <1>6 DEF p
<1>8. \A i \in 1 .. k : \E n \in 1 .. k : p[n] = i
  <2>. TAKE i \in 1 .. k
  <2>1. rank[i] \in 1 .. k /\ rank[p[rank[i]]] = rank[i] /\ p[rank[i]] \in 1 .. k
    BY <1>5, <1>6
  <2>. QED BY <1>5, <2>1
<1>9. \A m, n \in 1 .. k : m < n => runs[p[m]].start <= runs[p[n]].start
  <2>. SUFFICES ASSUME NEW m \in 1 .. k, NEW n \in 1 .. k, m < n
                PROVE  runs[p[m]].start <= runs[p[n]].start
    OBVIOUS
  <2>1. /\ p[m] \in 1 .. k /\ p[n] \in 1 .. k /\ rank[p[m]] = m /\ rank[p[n]] = n
    BY <1>6
  <2>2. <<p[m], p[n]>> \in R
    BY <1>5, <2>1
  <2>. QED BY <1>4, <2>1, <2>2
<1>. QED BY <1>3, <1>7, <1>8, <1>9 DEF k

\* Runs of which no two neighbours overlap, once sorted, are apart.
LEMMA SortedApart ==
    ASSUME NEW runs, RunsOK(runs), ~Overlapping(runs)
    PROVE  Disjoint(runs)
<1>. DEFINE k == Len(runs)
<1>1. /\ k \in Nat /\ DOMAIN runs = 1 .. k
      /\ \A i \in 1 .. k : runs[i].start \in Int /\ End(runs[i]) \in Int
  BY RunsAre
<1>2. PICK p \in [1 .. k -> 1 .. k] :
          /\ Spans(runs) = [n \in 1 .. k |-> runs[p[n]]]
          /\ \A i \in 1 .. k : \E n \in 1 .. k : p[n] = i
          /\ \A m, n \in 1 .. k : m < n => runs[p[m]].start <= runs[p[n]].start
  BY SpansSorted
<1>3. \A n \in 2 .. k : End(runs[p[n - 1]]) <= runs[p[n]].start
  <2>1. Len(Spans(runs)) = k
    BY <1>1, <1>2
  <2>2. \A n \in 2 .. k : ~(Spans(runs)[n].start < End(Spans(runs)[n - 1]))
    BY <2>1 DEF Overlapping
  <2>. TAKE n \in 2 .. k
  <2>3. n \in 1 .. k /\ n - 1 \in 1 .. k
    BY <1>1
  <2>4. Spans(runs)[n] = runs[p[n]] /\ Spans(runs)[n - 1] = runs[p[n - 1]]
    BY <1>2, <2>3
  <2>5. ~(runs[p[n]].start < End(runs[p[n - 1]]))
    BY <2>2, <2>4
  <2>6. runs[p[n]].start \in Int /\ End(runs[p[n - 1]]) \in Int
    BY <1>1, <2>3
  <2>. QED BY <2>5, <2>6
<1>. HIDE DEF k
<1>4. ASSUME NEW m \in 1 .. k, NEW n \in 1 .. k, m < n
      PROVE  Pixels(runs[p[m]]) \cap Pixels(runs[p[n]]) = {}
  <2>1. m \in Nat /\ n \in Nat /\ m + 1 \in 2 .. k /\ m + 1 <= n /\ (m + 1) - 1 = m
    BY <1>1, <1>4
  <2>2. End(runs[p[m]]) <= runs[p[m + 1]].start
    BY <1>3, <2>1
  <2>3. m + 1 \in 1 .. k
    BY <1>1, <2>1
  <2>4. runs[p[m + 1]].start <= runs[p[n]].start
    <3>1. CASE m + 1 < n
      BY <1>2, <2>3, <3>1
    <3>2. CASE m + 1 = n
      <4>1. runs[p[n]].start \in Int
        BY <1>1
      <4>. QED BY <3>2, <4>1
    <3>. QED BY <2>1, <3>1, <3>2
  <2>5. /\ runs[p[m]].start \in Int /\ End(runs[p[m]]) \in Int
        /\ runs[p[m + 1]].start \in Int /\ runs[p[n]].start \in Int /\ End(runs[p[n]]) \in Int
    BY <1>1, <2>3
  <2>. QED BY <2>2, <2>4, <2>5 DEF Pixels
<1>. SUFFICES ASSUME NEW i \in 1 .. k, NEW j \in 1 .. k, i # j
              PROVE  Pixels(runs[i]) \cap Pixels(runs[j]) = {}
  BY <1>1 DEF Disjoint
<1>5. PICK m \in 1 .. k : p[m] = i
  BY <1>2
<1>6. PICK n \in 1 .. k : p[n] = j
  BY <1>2
<1>7. m < n \/ n < m
  BY <1>1, <1>5, <1>6
<1>. QED BY <1>4, <1>5, <1>6, <1>7

Surface(blocks) == UNION {Pixels(blocks[i]) : i \in DOMAIN blocks}

\* Blocks that follow one another from 0 on, once sorted, make one run of pixels.
LEMMA SortedTiles ==
    ASSUME NEW blocks, RunsOK(blocks), blocks # <<>>, ~Gap(blocks),
           \A i \in DOMAIN blocks : blocks[i].count >= 1
    PROVE  /\ IsFiniteSet(Surface(blocks)) /\ Cardinality(Surface(blocks)) \in Nat
           /\ Surface(blocks) = 0 .. Cardinality(Surface(blocks)) - 1
<1>. DEFINE k == Len(blocks)
<1>1. /\ k \in Nat /\ DOMAIN blocks = 1 .. k /\ k # 0
      /\ \A i \in 1 .. k : /\ blocks[i].start \in Int /\ End(blocks[i]) \in Int
                           /\ blocks[i].start < End(blocks[i])
  <2>1. blocks \in Seq({blocks[i] : i \in DOMAIN blocks})
    BY DEF RunsOK, IsList
  <2>. QED BY <2>1, RunsAre, EmptySeq
<1>2. PICK p \in [1 .. k -> 1 .. k] :
          /\ Spans(blocks) = [n \in 1 .. k |-> blocks[p[n]]]
          /\ \A i \in 1 .. k : \E n \in 1 .. k : p[n] = i
          /\ \A m, n \in 1 .. k : m < n => blocks[p[m]].start <= blocks[p[n]].start
  BY SpansSorted
<1>3. \A n \in 1 .. k : blocks[p[n]].start = IF n = 1 THEN 0 ELSE End(blocks[p[n - 1]])
  <2>1. DOMAIN Spans(blocks) = 1 .. k
    BY <1>2
  <2>2. \A n \in 1 .. k : Spans(blocks)[n].start = IF n = 1 THEN 0 ELSE End(Spans(blocks)[n - 1])
    BY <2>1 DEF Gap
  <2>. TAKE n \in 1 .. k
  <2>3. n \in DOMAIN Spans(blocks) /\ Spans(blocks)[n] = blocks[p[n]]
    BY <1>2, <2>1
  <2>4. n # 1 => n - 1 \in 1 .. k /\ Spans(blocks)[n - 1] = blocks[p[n - 1]]
    BY <1>1, <1>2
  <2>. QED BY <2>2, <2>3, <2>4
<1>. DEFINE e == End(blocks[p[k]])
            T == {0} \cup {n \in 1 .. k : 0 .. End(blocks[p[n]]) - 1 \subseteq Surface(blocks)}
<1>. HIDE DEF k
<1>4. k \in 1 .. k /\ e \in Int /\ 0 < e
  <2>1. 1 \in 1 .. k /\ k \in 1 .. k
    BY <1>1
  <2>2. blocks[p[1]].start = 0
    BY <1>3, <2>1
  <2>3. 0 <= blocks[p[k]].start
    <3>1. CASE k = 1
      BY <2>2, <3>1
    <3>2. CASE k # 1
      <4>1. 1 < k
        BY <1>1, <3>2
      <4>. QED BY <1>2, <2>1, <2>2, <4>1
    <3>. QED BY <3>1, <3>2
  <2>4. p[k] \in 1 .. k
    BY <1>2, <2>1
  <2>5. e \in Int /\ blocks[p[k]].start \in Int /\ blocks[p[k]].start < e
    BY <1>1, <2>4
  <2>. HIDE DEF e
  <2>. QED BY <2>1, <2>3, <2>5
<1>5. \A n \in 1 .. k : 0 <= blocks[p[n]].start /\ End(blocks[p[n]]) <= e
  <2>. TAKE n \in 1 .. k
  <2>1. n \in Nat /\ 1 \in 1 .. k
    BY <1>1
  <2>2. blocks[p[1]].start = 0
    BY <1>3, <2>1
  <2>3. 0 <= blocks[p[n]].start
    <3>1. CASE n = 1
      BY <2>2, <3>1
    <3>2. CASE n # 1
      <4>1. 1 < n
        BY <2>1, <3>2
      <4>. QED BY <1>2, <2>1, <2>2, <4>1
    <3>. QED BY <3>1, <3>2
  <2>4. CASE n = k
    BY <1>1, <1>2, <1>4, <2>3, <2>4
  <2>5. CASE n # k
    <3>1. n + 1 \in 1 .. k /\ n + 1 # 1 /\ (n + 1) - 1 = n
      BY <1>1, <2>1, <2>5
    <3>2. blocks[p[n + 1]].start = End(blocks[p[n]])
      BY <1>3, <3>1
    <3>3. blocks[p[n + 1]].start <= blocks[p[k]].start
      <4>1. CASE n + 1 = k
        <5>1. blocks[p[k]].start \in Int
          BY <1>1, <1>2, <1>4
        <5>. QED BY <4>1, <5>1
      <4>2. CASE n + 1 # k
        <5>1. n + 1 < k
          BY <1>1, <3>1, <4>2
        <5>. QED BY <1>2, <1>4, <3>1, <5>1
      <4>. QED BY <4>1, <4>2
    <3>4. blocks[p[k]].start < e /\ blocks[p[k]].start \in Int /\ blocks[p[n + 1]].start \in Int
      BY <1>1, <1>2, <1>4, <3>1
    <3>. QED BY <1>4, <2>3, <3>2, <3>3, <3>4
  <2>. QED BY <2>4, <2>5
<1>6. \A n \in 0 .. k : n \in T
  <2>0. \A n \in 1 .. k : /\ n \in Nat /\ p[n] \in 1 .. k /\ p[n] \in DOMAIN blocks
                           /\ blocks[p[n]].start \in Int /\ End(blocks[p[n]]) \in Int
    <3>. TAKE n \in 1 .. k
    <3>1. p[n] \in 1 .. k
      BY <1>2
    <3>2. n \in Nat
      BY <1>1
    <3>3. p[n] \in DOMAIN blocks
      BY <1>1, <3>1
    <3>4. blocks[p[n]].start \in Int /\ End(blocks[p[n]]) \in Int
      BY <1>1, <3>1
    <3>. QED BY <3>1, <3>2, <3>3, <3>4
  <2>1. ASSUME NEW n \in 1 .. k, n - 1 \in T PROVE n \in T
    <3>1. /\ n \in Nat /\ p[n] \in 1 .. k /\ p[n] \in DOMAIN blocks
          /\ blocks[p[n]].start \in Int /\ End(blocks[p[n]]) \in Int
      BY <2>0
    <3>2. Pixels(blocks[p[n]]) \subseteq Surface(blocks)
      BY <3>1 DEF Surface
    <3>3. 0 .. blocks[p[n]].start - 1 \subseteq Surface(blocks)
      <4>1. CASE n = 1
        BY <1>3, <4>1
      <4>2. CASE n # 1
        BY <1>3, <2>1, <3>1, <4>2
      <4>. QED BY <4>1, <4>2
    <3>4. 0 .. End(blocks[p[n]]) - 1 \subseteq Surface(blocks)
      <4>. SUFFICES ASSUME NEW x \in 0 .. End(blocks[p[n]]) - 1 PROVE x \in Surface(blocks)
        OBVIOUS
      <4>1. x < blocks[p[n]].start \/ x \in Pixels(blocks[p[n]])
        BY <3>1 DEF Pixels
      <4>2. x < blocks[p[n]].start => x \in 0 .. blocks[p[n]].start - 1
        BY <3>1
      <4>. QED BY <3>2, <3>3, <4>1, <4>2
    <3>. QED BY <3>4
  <2>. HIDE DEF T
  <2>2. 0 \in T
    BY DEF T
  <2>. QED BY <1>1, <2>1, <2>2, CountedUp
<1>7. 0 .. e - 1 \subseteq Surface(blocks)
  BY <1>1, <1>4, <1>6
<1>8. Surface(blocks) \subseteq 0 .. e - 1
  <2>. SUFFICES ASSUME NEW i \in 1 .. k, NEW x \in Pixels(blocks[i]) PROVE x \in 0 .. e - 1
    BY <1>1 DEF Surface
  <2>1. PICK n \in 1 .. k : p[n] = i
    BY <1>2
  <2>2. 0 <= blocks[i].start /\ End(blocks[i]) <= e
    BY <1>5, <2>1
  <2>3. blocks[i].start \in Int /\ End(blocks[i]) \in Int
    BY <1>1
  <2>. HIDE DEF e
  <2>. QED BY <1>4, <2>2, <2>3 DEF Pixels
<1>. HIDE DEF e
<1>9. IsFiniteSet(0 .. e - 1) /\ Cardinality(0 .. e - 1) = e
  <2>1. 0 \in Int /\ e - 1 \in Int
    BY <1>4
  <2>2. /\ IsFiniteSet(0 .. e - 1)
        /\ Cardinality(0 .. e - 1) = IF 0 > e - 1 THEN 0 ELSE (e - 1) - 0 + 1
    BY <2>1, FS_Interval, Zenon
  <2>. QED BY <1>4, <2>2
<1>10. Surface(blocks) = 0 .. e - 1
  BY <1>7, <1>8
<1>. QED BY <1>4, <1>9, <1>10

\* Counting the pixels of blocks that are apart counts the surface.
LEMMA CountIsSurface ==
    ASSUME NEW fx, RunsOK(fx.blocks), Disjoint(fx.blocks),
           \A i \in DOMAIN fx.blocks : fx.blocks[i].count >= 1
    PROVE  PixelCount(fx) = Cardinality(Surface(fx.blocks))
<1>. DEFINE blocks == fx.blocks
            k == Len(blocks)
            Upto(n) == UNION {Pixels(blocks[i]) : i \in 1 .. n}
            h == [n \in 0 .. k |-> Cardinality(Upto(n))]
            Fits(g) == g = [n \in 0 .. k |-> IF n = 0 THEN 0 ELSE g[n - 1] + blocks[n].count]
            all == CHOOSE g : Fits(g)
<1>1. /\ k \in Nat /\ DOMAIN blocks = 1 .. k
      /\ \A i \in 1 .. k : /\ blocks[i].start \in Int /\ blocks[i].count \in Nat
                           /\ End(blocks[i]) = blocks[i].start + blocks[i].count
                           /\ End(blocks[i]) \in Int
  BY RunsAre
<1>2. PixelCount(fx) = all[k]
  BY DEF PixelCount
<1>3. Surface(blocks) = Upto(k)
  BY <1>1 DEF Surface
<1>4. \A i \in 1 .. k : IsFiniteSet(Pixels(blocks[i])) /\ Cardinality(Pixels(blocks[i])) = blocks[i].count
  <2>. TAKE i \in 1 .. k
  <2>. DEFINE lo == blocks[i].start
              hi == End(blocks[i]) - 1
  <2>1. lo \in Int /\ hi \in Int /\ lo <= hi /\ hi - lo + 1 = blocks[i].count
    <3>1. /\ blocks[i].start \in Int /\ blocks[i].count \in Nat /\ blocks[i].count >= 1
          /\ End(blocks[i]) = blocks[i].start + blocks[i].count
      BY <1>1
    <3>. QED BY <3>1
  <2>2. Pixels(blocks[i]) = lo .. hi
    BY DEF Pixels
  <2>. HIDE DEF lo, hi
  <2>3. /\ IsFiniteSet(lo .. hi)
        /\ Cardinality(lo .. hi) = IF lo > hi THEN 0 ELSE hi - lo + 1
    BY <2>1, FS_Interval, Zenon
  <2>. QED BY <2>1, <2>2, <2>3
<1>5. \A i, j \in 1 .. k : i # j => Pixels(blocks[i]) \cap Pixels(blocks[j]) = {}
  BY <1>1 DEF Disjoint
<1>. HIDE DEF blocks, k
<1>6. 0 \in 0 .. k /\ IsFiniteSet(Upto(0)) /\ Cardinality(Upto(0)) = 0 /\ Cardinality({}) = 0
  <2>1. Upto(0) = {}
    <3>1. 1 .. 0 = {}
      OBVIOUS
    <3>. QED BY <3>1
  <2>2. 0 \in 0 .. k
    BY <1>1
  <2>. HIDE DEF Upto
  <2>. QED BY <2>1, <2>2, FS_EmptySet, Zenon
<1>7. ASSUME NEW n \in 1 .. k
      PROVE  /\ Upto(n) = Upto(n - 1) \cup Pixels(blocks[n])
             /\ Upto(n - 1) \cap Pixels(blocks[n]) = {}
  <2>1. n \in Nat /\ 1 .. n = (1 .. n - 1) \cup {n} /\ 1 .. n - 1 \subseteq 1 .. k /\ n \notin 1 .. n - 1
    BY <1>1
  <2>2. Upto(n) = Upto(n - 1) \cup Pixels(blocks[n])
    BY <2>1
  <2>3. \A i \in 1 .. n - 1 : Pixels(blocks[i]) \cap Pixels(blocks[n]) = {}
    BY <1>5, <2>1
  <2>. QED BY <2>2, <2>3
<1>. HIDE DEF Upto
<1>8. \A n \in 0 .. k : IsFiniteSet(Upto(n)) /\ Cardinality(Upto(n)) \in Nat
  <2>. DEFINE T == {n \in 0 .. k : IsFiniteSet(Upto(n))}
  <2>1. 0 \in T
    BY <1>6, Zenon
  <2>2. ASSUME NEW n \in 1 .. k, n - 1 \in T PROVE n \in T
    <3>1. IsFiniteSet(Upto(n - 1)) /\ IsFiniteSet(Pixels(blocks[n])) /\ n \in 0 .. k
      BY <1>1, <1>4, <2>2
    <3>2. IsFiniteSet(Upto(n - 1) \cup Pixels(blocks[n]))
      BY <3>1, FS_Union
    <3>. QED BY <1>7, <3>1, <3>2
  <2>. HIDE DEF T
  <2>3. \A n \in 0 .. k : n \in T
    BY <1>1, <2>1, <2>2, CountedUp
  <2>. QED BY <2>3, FS_CardinalityType DEF T
<1>9. ASSUME NEW n \in 1 .. k
      PROVE  n - 1 \in 0 .. k /\ n \in 0 .. k /\ n # 0 /\ h[n] = h[n - 1] + blocks[n].count
  <2>1. n - 1 \in 0 .. k /\ n \in 0 .. k /\ n # 0
    BY <1>1
  <2>2. /\ IsFiniteSet(Upto(n - 1)) /\ IsFiniteSet(Pixels(blocks[n]))
        /\ Cardinality(Upto(n - 1)) \in Nat /\ Cardinality(Pixels(blocks[n])) = blocks[n].count
    BY <1>4, <1>8, <2>1
  <2>3. Cardinality(Upto(n - 1) \cup Pixels(blocks[n]))
          = Cardinality(Upto(n - 1)) + Cardinality(Pixels(blocks[n]))
              - Cardinality(Upto(n - 1) \cap Pixels(blocks[n]))
    BY <2>2, FS_Union
  <2>4. Cardinality(Upto(n - 1) \cap Pixels(blocks[n])) = 0
    BY <1>6, <1>7
  <2>5. Cardinality(Upto(n)) = Cardinality(Upto(n - 1)) + blocks[n].count
    <3>1. Cardinality(Upto(n)) = Cardinality(Upto(n - 1) \cup Pixels(blocks[n]))
      BY <1>7
    <3>2. blocks[n].count \in Nat
      BY <1>1
    <3>. QED BY <2>2, <2>3, <2>4, <3>1, <3>2
  <2>. QED BY <2>1, <2>5
<1>10. 0 \in 0 .. k /\ h[0] = 0 /\ h = [n \in 0 .. k |-> h[n]]
  BY <1>6
<1>. HIDE DEF h
<1>11. Fits(h)
  <2>1. ASSUME NEW n \in 0 .. k PROVE h[n] = IF n = 0 THEN 0 ELSE h[n - 1] + blocks[n].count
    <3>1. n # 0 => n \in 1 .. k
      BY <1>1
    <3>. QED BY <1>9, <1>10, <3>1
  <2>. QED BY <1>10, <2>1
<1>12. Fits(all)
  BY <1>11
<1>. HIDE DEF all
<1>13. PICK g : Fits(g) /\ PixelCount(fx) = g[k]
  BY <1>2, <1>12
<1>14. \A n \in 0 .. k : g[n] = h[n]
  <2>. DEFINE T == {n \in 0 .. k : g[n] = h[n]}
  <2>1. 0 \in T
    BY <1>10, <1>13
  <2>2. ASSUME NEW n \in 1 .. k, n - 1 \in T PROVE n \in T
    <3>1. n \in 0 .. k /\ n # 0 /\ h[n] = h[n - 1] + blocks[n].count
      BY <1>9
    <3>2. g[n] = g[n - 1] + blocks[n].count
      BY <1>13, <3>1
    <3>. QED BY <2>2, <3>1, <3>2
  <2>. HIDE DEF T
  <2>3. \A n \in 0 .. k : n \in T
    BY <1>1, <2>1, <2>2, CountedUp
  <2>. QED BY <2>3 DEF T
<1>15. PixelCount(fx) = Cardinality(Upto(k))
  <2>1. k \in 0 .. k
    BY <1>1
  <2>2. h[k] = Cardinality(Upto(k))
    BY <2>1 DEF h
  <2>. QED BY <1>13, <1>14, <2>1, <2>2
<1>. QED BY <1>3, <1>15 DEF blocks

\* A fixture that is accepted is whole.
LEMMA SoundIsWhole ==
    ASSUME NEW fx, RunsOK(fx.blocks), RunsOK(fx.zones), SoundFixture(fx)
    PROVE  FixtureWhole(fx) /\ PixelCount(fx) \in Nat
<1>. DEFINE surface == Surface(fx.blocks)
            zones == fx.zones
<1>1. /\ fx.blocks # <<>> /\ ~Gap(fx.blocks) /\ ~Overlapping(fx.blocks) /\ ~Overlapping(zones)
      /\ \A j \in DOMAIN fx.blocks : fx.blocks[j].count \in 1 .. MaxBlock
      /\ \A j \in DOMAIN zones : ~(zones[j].start < 0) /\ ~(End(zones[j]) > PixelCount(fx))
      /\ ~Mismatch(fx)
  BY DEF SoundFixture
<1>2. \A j \in DOMAIN fx.blocks : fx.blocks[j].count >= 1
  BY <1>1, RoomProfileAssumption
<1>3. Disjoint(fx.blocks) /\ Disjoint(zones)
  BY <1>1, SortedApart
<1>4. /\ Cardinality(surface) \in Nat /\ surface = 0 .. Cardinality(surface) - 1
      /\ PixelCount(fx) = Cardinality(surface)
  BY <1>1, <1>2, <1>3, SortedTiles, CountIsSurface
<1>. HIDE DEF surface
<1>5. \A i \in DOMAIN zones : Pixels(zones[i]) \subseteq surface
  <2>. TAKE i \in DOMAIN zones
  <2>1. zones[i].start \in Int /\ End(zones[i]) \in Int
    BY RunsAre
  <2>2. Pixels(zones[i]) \subseteq 0 .. Cardinality(surface) - 1
    BY <1>1, <1>4, <2>1 DEF Pixels
  <2>. QED BY <1>4, <2>2
<1>6. fx.inst.pixels \in {0, Cardinality(surface)}
  BY <1>1, <1>4 DEF Mismatch
<1>. QED BY <1>3, <1>4, <1>5, <1>6 DEF FixtureWhole, Surface, surface

-----------------------------------------------------------------------------
(* The universes                                                           *)

LEMMA DivIs ==
    ASSUME NEW a \in Nat, NEW P \in Nat \ {0}
    PROVE  a \div P \in Nat /\ P * (a \div P) <= a /\ a < P * (a \div P) + P
<1>1. a \div P \in Int /\ a \div P >= 0
  OBVIOUS
<1>2. a = P * (a \div P) + (a % P) /\ a % P \in 0 .. P - 1
  OBVIOUS
<1>. QED BY <1>1, <1>2

\* The pixels of n are in the universes up to the one that rounding up gives.
LEMMA LastCarries ==
    ASSUME NEW n \in Nat, NEW P \in Nat \ {0}, NEW p \in 0 .. n - 1
    PROVE  /\ p \div P \in Nat /\ (n + P - 1) \div P \in Nat
           /\ p \div P <= ((n + P - 1) \div P) - 1
<1>. DEFINE q == p \div P
            r == (n + P - 1) \div P
<1>1. q \in Nat /\ P * q <= p
  BY DivIs
<1>2. n + P - 1 \in Nat
  OBVIOUS
<1>3. r \in Nat /\ n + P - 1 < P * r + P
  BY <1>2, DivIs
<1>. HIDE DEF q, r
<1>4. q < r
  <2>. SUFFICES ASSUME r <= q PROVE FALSE
    BY <1>1, <1>3
  <2>1. P * r <= P * q /\ P * r \in Nat /\ P * q \in Nat
    BY <1>1, <1>3
  <2>. QED BY <1>1, <1>3, <2>1
<1>. QED BY <1>1, <1>3, <1>4 DEF q, r

\* Outputs that are accepted, of rooms whose fixtures have a number of pixels,
\* share no universe of a host.
LEMMA AcceptedWires ==
    ASSUME NEW outputs, NEW rooms, IsList(outputs), ~OutputsRefused(outputs, rooms),
           \A i \in DOMAIN outputs : outputs[i].start \in Nat,
           \A r \in DOMAIN rooms : /\ DOMAIN rooms[r].fixtures \subseteq Nat
                                   /\ \A i \in DOMAIN rooms[r].fixtures :
                                          PixelCount(rooms[r].fixtures[i]) \in Nat
    PROVE  WiresWhole(outputs, rooms)
<1>1. ASSUME NEW i \in DOMAIN outputs
      PROVE  /\ LastUniverse(outputs[i], rooms) \in Int
             /\ Carried(outputs[i], rooms) \subseteq outputs[i].start .. LastUniverse(outputs[i], rooms)
             /\ ~(LastUniverse(outputs[i], rooms) > MaxUniverse)
  <2>. DEFINE o == outputs[i]
              fixtures == rooms[o.room].fixtures
              fx == FixtureNamed(fixtures, o.fixture)
              n == PixelCount(fx)
              P == PixelsPerUniverse
  <2>1. /\ o.room \in DOMAIN rooms /\ NamedAt(fixtures, o.fixture) # {}
        /\ ~(LastUniverse(o, rooms) > MaxUniverse)
    BY Zenon DEF OutputsRefused
  <2>2. Min(NamedAt(fixtures, o.fixture)) \in DOMAIN fixtures
    <3>1. NamedAt(fixtures, o.fixture) \in SUBSET Nat
      BY <2>1 DEF NamedAt
    <3>. QED BY <2>1, <3>1, LeastIsIn DEF NamedAt
  <2>3. n \in Nat
    BY <2>1, <2>2 DEF FixtureNamed
  <2>4. o.start \in Nat /\ P \in Nat \ {0}
    BY RoomProfileAssumption
  <2>5. /\ LastUniverse(o, rooms) = o.start + ((n + P - 1) \div P) - 1
        /\ Carried(o, rooms) = {o.start + (p \div P) : p \in 0 .. n - 1}
    BY DEF LastUniverse, Carried
  <2>. HIDE DEF o, n, P
  <2>6. (n + P - 1) \div P \in Nat
    <3>1. n + P - 1 \in Nat
      BY <2>3, <2>4
    <3>. QED BY <2>4, <3>1, DivIs
  <2>7. ASSUME NEW p \in 0 .. n - 1
        PROVE  o.start + (p \div P) \in o.start .. LastUniverse(o, rooms)
    <3>1. p \div P \in Nat /\ p \div P <= ((n + P - 1) \div P) - 1
      BY <2>3, <2>4, LastCarries
    <3>. QED BY <2>4, <2>5, <2>6, <3>1
  <2>8. LastUniverse(o, rooms) \in Int
    BY <2>4, <2>5, <2>6
  <2>. QED BY <2>1, <2>5, <2>7, <2>8 DEF o
<1>2. ASSUME NEW i \in DOMAIN outputs, NEW j \in DOMAIN outputs, i < j,
             outputs[i].host = outputs[j].host
      PROVE  Carried(outputs[i], rooms) \cap Carried(outputs[j], rooms) = {}
  <2>1. i \in 1 .. j - 1
    BY <1>2 DEF IsList
  <2>2. ~(/\ outputs[j].start <= LastUniverse(outputs[i], rooms)
          /\ outputs[i].start <= LastUniverse(outputs[j], rooms))
    BY <1>2, <2>1, Zenon DEF OutputsRefused
  <2>3. outputs[i].start \in Nat /\ outputs[j].start \in Nat
    OBVIOUS
  <2>. QED BY <1>1, <2>2, <2>3
<1>3. \A i \in DOMAIN outputs : Carried(outputs[i], rooms) \subseteq 0 .. MaxUniverse
  BY <1>1, RoomProfileAssumption
<1>. QED BY <1>2, <1>3 DEF WiresWhole

-----------------------------------------------------------------------------
(* What a boot reads                                                       *)

LEMMA BootReadsWhole ==
    ASSUME NEW d \in Disk, NEW t \in Terrariums, NEW rs, Bootable(d, t, rs)
    PROVE  /\ \A r \in DOMAIN AllRooms(d, t) : \A i \in DOMAIN AllRooms(d, t)[r].fixtures :
                  FixtureWhole(AllRooms(d, t)[r].fixtures[i])
           /\ WiresWhole(t.outputs, AllRooms(d, t))
<1>. DEFINE insts == AllInstruments(d, t)
            rooms == AllRooms(d, t)
<1>1. /\ \A n \in Present(Halls(d)) : RoomVerdict(Halls(d)[n], insts) = "ok"
      /\ \A n \in DOMAIN t.rooms : RoomVerdict(t.rooms[n], insts) = "ok"
      /\ ~OutputsRefused(t.outputs, rooms)
  BY BootByEntry DEF TomlAccepted
<1>2. ASSUME NEW r \in DOMAIN rooms
      PROVE  /\ DOMAIN rooms[r].fixtures \subseteq Nat
             /\ \A i \in DOMAIN rooms[r].fixtures :
                    FixtureWhole(rooms[r].fixtures[i]) /\ PixelCount(rooms[r].fixtures[i]) \in Nat
  <2>. DEFINE file == HomeOf(d, t, r)
  <2>1. rooms[r].fixtures = Fitted(file, insts) /\ RoomFileOK(file)
    BY RoomsAre, FilesOK
  <2>2. RoomVerdict(file, insts) = "ok"
    BY <1>1, RoomsAre DEF HomeOf
  <2>. HIDE DEF file, insts, rooms
  <2>3. DOMAIN rooms[r].fixtures = DOMAIN file.fixtures /\ DOMAIN file.fixtures \subseteq Nat
    BY <2>1, FittedEach DEF RoomFileOK, IsList
  <2>4. ASSUME NEW i \in DOMAIN file.fixtures
        PROVE  FixtureWhole(rooms[r].fixtures[i]) /\ PixelCount(rooms[r].fixtures[i]) \in Nat
    <3>. DEFINE fx == With(file.fixtures[i], insts[file.fixtures[i].instrument])
    <3>1. rooms[r].fixtures[i] = fx /\ SoundFixture(fx)
      BY <2>1, <2>2, FittedEach, RoomByFixture
    <3>2. RunsOK(fx.blocks) /\ RunsOK(fx.zones)
      BY <2>1, WithIs DEF RoomFileOK
    <3>. HIDE DEF fx
    <3>. QED BY <3>1, <3>2, SoundIsWhole
  <2>. QED BY <2>3, <2>4
<1>3. IsList(t.outputs) /\ \A i \in DOMAIN t.outputs : t.outputs[i].start \in Nat
  BY CatalogAssumption
<1>. HIDE DEF rooms, insts
<1>4. WiresWhole(t.outputs, rooms)
  BY <1>1, <1>2, <1>3, AcceptedWires
<1>. QED BY <1>2, <1>4 DEF rooms

LEMMA WholeKept ==
    ASSUME BootInv, SurfacesAreWhole, [CatalogNext]_catalogVars
    PROVE  SurfacesAreWhole'
<1>1. CASE Boot
  <2>1. /\ disk \in Disk /\ toml \in Terrariums /\ Bootable(disk, toml, roots)
        /\ config'.rooms = AllRooms(disk, toml) /\ config'.outputs = toml.outputs
    BY <1>1 DEF Boot, BootInv
  <2>2. /\ \A r \in DOMAIN AllRooms(disk, toml) : \A i \in DOMAIN AllRooms(disk, toml)[r].fixtures :
               FixtureWhole(AllRooms(disk, toml)[r].fixtures[i])
        /\ WiresWhole(toml.outputs, AllRooms(disk, toml))
    BY <2>1, BootReadsWhole
  <2>. QED BY <2>1, <2>2 DEF SurfacesAreWhole
<1>2. ASSUME config' = None \/ config' = config PROVE SurfacesAreWhole'
  BY <1>2 DEF SurfacesAreWhole
<1>3. CASE Stop
  BY <1>2, <1>3 DEF Stop, Gone
<1>4. ASSUME NEW k \in Kind, NEW n \in NamesOf(k), Publish(k, n) PROVE SurfacesAreWhole'
  BY <1>2, <1>4 DEF Publish, Answered, Gone
<1>5. ASSUME NEW k \in Kind, NEW n \in NamesOf(k), NEW file \in FilesOf(k), Save(k, n, file)
      PROVE  SurfacesAreWhole'
  BY <1>2, <1>5 DEF Save, Answered, Gone
<1>6. ASSUME NEW k \in Kind, NEW n \in NamesOf(k), NEW state \in {"published", "drafts"},
             NEW s \in NamesOf(k), Clone(k, state, s, n)
      PROVE  SurfacesAreWhole'
  BY <1>2, <1>6 DEF Clone, Answered, Gone
<1>7. ASSUME NEW r \in RoomName, TakeUpRoom(r) PROVE SurfacesAreWhole'
  BY <1>2, <1>7 DEF TakeUpRoom
<1>8. ASSUME NEW b, NEW o, TakeUpBit(b, o) PROVE SurfacesAreWhole'
  BY <1>2, <1>8 DEF TakeUpBit
<1>9. CASE UNCHANGED catalogVars
  BY <1>2, <1>9 DEF catalogVars
<1>. QED BY <1>1, <1>3, <1>4, <1>5, <1>6, <1>7, <1>8, <1>9 DEF CatalogNext

\* Of every Room Control has read, each pixel of a fixture is driven by one block, its
\* zones lie on them and apart, and no two Art-Net outputs of a host share a universe
\* (control/room_profile.py: __post_init__; control/terrarium_config.py:
\* validate_artnet_outputs).
THEOREM RoomsReadAreWhole == CatalogSpec => []SurfacesAreWhole
<1>1. CatalogInit => SurfacesAreWhole
  BY DEF CatalogInit, SurfacesAreWhole
<1>. QED BY <1>1, BootInvStarts, BootInvKept, WholeKept, PTL DEF CatalogSpec

\* Every variable of the configuration keeps its type, a Room is up only of those
\* that were read, and a Bit only in a Room.
THEOREM CatalogTypes == CatalogSpec => []CatalogTyped
<1>. DEFINE InPlace == /\ roots \in Shelves
                       /\ room \in RoomName \cup {None}
                       /\ room # None => config # None /\ room \in DOMAIN config.rooms
                       /\ game # None => room # None
                       /\ edits \in 0 .. MaxEdits /\ exposed \in BOOLEAN
<1>1. CatalogInit => InPlace
  <2>. SUFFICES ASSUME CatalogInit PROVE InPlace
    OBVIOUS
  <2>1. exposed \in BOOLEAN
    BY Zenon DEF CatalogInit
  <2>. QED BY <2>1, CatalogAssumption DEF CatalogInit
<1>2. ASSUME InPlace, [CatalogNext]_catalogVars PROVE InPlace'
  <2>1. ASSUME roots' = roots, edits' = edits + 1, edits < MaxEdits, exposed' \in BOOLEAN,
               \/ config' = None /\ room' = None /\ game' = None
               \/ config' = config /\ room' = room /\ game' = game
        PROVE  InPlace'
    BY <1>2, <2>1, CatalogAssumption
  <2>2. CASE Boot
    BY <1>2, <2>2 DEF Boot
  <2>3. CASE Stop
    BY <1>2, <2>3 DEF Stop, Gone
  <2>4. ASSUME NEW k \in Kind, NEW n \in NamesOf(k), Publish(k, n) PROVE InPlace'
    <3>1. exposed' \in BOOLEAN
      BY <2>4, Zenon DEF Publish
    <3>. QED BY <2>1, <2>4, <3>1 DEF Publish, Commands, Answered, Gone
  <2>5. ASSUME NEW k \in Kind, NEW n \in NamesOf(k), NEW file \in FilesOf(k), Save(k, n, file)
        PROVE  InPlace'
    <3>1. exposed' \in BOOLEAN
      BY <2>5, Zenon DEF Save
    <3>. QED BY <2>1, <2>5, <3>1 DEF Save, Commands, Answered, Gone
  <2>6. ASSUME NEW k \in Kind, NEW n \in NamesOf(k), NEW state \in {"published", "drafts"},
               NEW s \in NamesOf(k), Clone(k, state, s, n)
        PROVE  InPlace'
    <3>1. exposed' \in BOOLEAN
      BY <1>2, <2>6, Zenon DEF Clone
    <3>. QED BY <2>1, <2>6, <3>1 DEF Clone, Commands, Answered, Gone
  <2>7. ASSUME NEW r \in RoomName, TakeUpRoom(r) PROVE InPlace'
    BY <1>2, <2>7 DEF TakeUpRoom, Loadable
  <2>8. ASSUME NEW b, NEW o, TakeUpBit(b, o) PROVE InPlace'
    BY <1>2, <2>8 DEF TakeUpBit
  <2>9. CASE UNCHANGED catalogVars
    BY <1>2, <2>9 DEF catalogVars
  <2>. QED BY <1>2, <2>2, <2>3, <2>4, <2>5, <2>6, <2>7, <2>8, <2>9 DEF CatalogNext
<1>3. InPlace /\ BootInv => CatalogTyped
  BY DEF BootInv, CatalogTyped
<1>. HIDE DEF InPlace
<1>. QED BY <1>1, <1>2, <1>3, BootInvStarts, BootInvKept, PTL DEF CatalogSpec

-----------------------------------------------------------------------------
(* Who writes a lane                                                       *)

\* Where something stands in two nested lists.
Place == Nat \X Nat

LEMMA SmallestOf ==
    ASSUME NEW S, S \subseteq Nat, S # {}
    PROVE  \E n \in S : \A m \in S : n <= m
<1>1. PICK n \in S : \A m \in S : <<m, n>> \notin OpToRel(<, Nat)
  BY NatLessThanWellFounded, WFMin
<1>2. ASSUME NEW m \in S, m < n PROVE FALSE
  <2>1. m \in Nat /\ n \in Nat
    OBVIOUS
  <2>2. <<m, n>> \in OpToRel(<, Nat)
    BY <1>2, <2>1, Zenon DEF OpToRel
  <2>. QED BY <1>1, <2>2
<1>3. \A m \in S : m \in Nat /\ n \in Nat
  OBVIOUS
<1>. QED BY <1>2, <1>3

LEMMA EarlierOrders ==
    ASSUME NEW p \in Place, NEW q \in Place
    PROVE  /\ p = q \/ Earlier(p, q) \/ Earlier(q, p)
           /\ ~(Earlier(p, q) /\ Earlier(q, p)) /\ ~Earlier(p, p)
BY DEF Place, Earlier

LEMMA FirstIs ==
    ASSUME NEW places, places \subseteq Place, places # {}
    PROVE  /\ FirstOf(places) \in places
           /\ \A q \in places : q = FirstOf(places) \/ Earlier(FirstOf(places), q)
<1>. DEFINE outer == {p[1] : p \in places}
<1>1. outer \subseteq Nat /\ outer # {}
  BY DEF Place
<1>2. PICK i \in outer : \A m \in outer : i <= m
  BY <1>1, SmallestOf
<1>. DEFINE inner == {p[2] : p \in {r \in places : r[1] = i}}
<1>3. inner \subseteq Nat /\ inner # {}
  BY DEF Place
<1>4. PICK j \in inner : \A m \in inner : j <= m
  BY <1>3, SmallestOf
<1>5. PICK p \in places : p[1] = i /\ p[2] = j
  BY <1>4
<1>6. ASSUME NEW q \in places PROVE p = q \/ Earlier(p, q)
  <2>1. q[1] \in outer /\ p \in Place /\ q \in Place /\ i <= q[1]
    BY <1>2
  <2>2. q[1] = i => j <= q[2]
    BY <1>4
  <2>. QED BY <1>5, <2>1, <2>2 DEF Place, Earlier
<1>. QED BY <1>6, Zenon DEF FirstOf

\* One of finitely many is the lowest, and one the highest.
LEMMA LowestOf ==
    ASSUME NEW S, IsFiniteSet(S), S # {}, NEW f \in [S -> Int]
    PROVE  \E p \in S : \A q \in S : f[p] <= f[q]
<1>. DEFINE Below(p) == {q \in S : f[q] < f[p]}
            ranks == {Cardinality(Below(p)) : p \in S}
<1>1. \A p \in S : Below(p) \subseteq S /\ IsFiniteSet(Below(p)) /\ Cardinality(Below(p)) \in Nat
  <2>. TAKE p \in S
  <2>1. Below(p) \in SUBSET S
    OBVIOUS
  <2>. HIDE DEF Below
  <2>. QED BY <2>1, FS_Subset, FS_CardinalityType
<1>2. ranks \subseteq Nat /\ ranks # {}
  BY <1>1
<1>3. PICK n \in ranks : \A m \in ranks : n <= m
  BY <1>2, SmallestOf
<1>4. PICK p \in S : n = Cardinality(Below(p))
  OBVIOUS
<1>5. ASSUME NEW q \in S, f[q] < f[p] PROVE FALSE
  <2>1. Below(q) \in SUBSET Below(p) /\ q \in Below(p) /\ q \notin Below(q)
    BY <1>5
  <2>2. Cardinality(Below(q)) \in ranks /\ Cardinality(Below(p)) <= Cardinality(Below(q))
    BY <1>3, <1>4
  <2>3. IsFiniteSet(Below(p)) /\ Cardinality(Below(q)) \in Nat /\ Cardinality(Below(p)) \in Nat
    BY <1>1
  <2>. HIDE DEF Below
  <2>4. Cardinality(Below(q)) <= Cardinality(Below(p))
    BY <2>1, <2>3, FS_Subset
  <2>5. Cardinality(Below(q)) = Cardinality(Below(p))
    BY <2>2, <2>3, <2>4
  <2>. QED BY <2>1, <2>3, <2>5, FS_Subset
<1>. QED BY <1>5

LEMMA HighestOf ==
    ASSUME NEW S, IsFiniteSet(S), S # {}, NEW f \in [S -> Int]
    PROVE  \E p \in S : \A q \in S : f[q] <= f[p]
<1>. DEFINE g == [p \in S |-> -f[p]]
<1>1. g \in [S -> Int]
  OBVIOUS
<1>2. PICK p \in S : \A q \in S : g[p] <= g[q]
  BY <1>1, LowestOf
<1>. QED BY <1>2

\* A table whose streams are fit to run.
StreamsRun(table) ==
    /\ IsList(table)
    /\ \A i \in OfKind(table, "stream") :
           LET s == table[i].stream
           IN  /\ s # None /\ s.arg \in Nat /\ {s.lo, s.hi} \subseteq Int /\ s.lo < s.hi
               /\ IsList(s.outs)
               /\ \A j \in DOMAIN s.outs : {s.outs[j].lo, s.outs[j].hi} \subseteq Int

LEMMA AcceptedRun ==
    ASSUME NEW table, TableOK(table), NEW verbs, ~TableRefused(table, verbs, "bit")
    PROVE  StreamsRun(table)
<1>1. ASSUME NEW i \in OfKind(table, "stream")
      PROVE  table[i].stream # None /\ ~(table[i].stream.lo >= table[i].stream.hi)
  <2>1. ~StreamRefused(table[i], "bit")
    BY <1>1, Zenon DEF TableRefused, OfKind
  <2>. QED BY <2>1, Zenon DEF StreamRefused
<1>2. ASSUME NEW i \in OfKind(table, "stream")
      PROVE  table[i].stream.lo < table[i].stream.hi
  BY <1>1, <1>2 DEF TableOK
<1>. QED BY <1>1, <1>2 DEF TableOK, StreamsRun

LEMMA PlacesOf ==
    ASSUME NEW table, StreamsRun(table), NEW verb, NEW p \in Outlets(table, verb)
    PROVE  /\ p \in Place /\ p[1] \in OfKind(table, "stream") /\ p[1] \in DOMAIN table
           /\ SpecAt(table, p).lo \in Int /\ SpecAt(table, p).hi \in Int
           /\ SpecAt(table, p).lo < SpecAt(table, p).hi /\ SpecAt(table, p).arg \in Nat
           /\ OutAt(table, p).lo \in Int /\ OutAt(table, p).hi \in Int
<1>1. PICK i \in StreamsOn(table, verb) : p \in {i} \X DOMAIN table[i].stream.outs
  BY DEF Outlets
<1>2. i \in OfKind(table, "stream") /\ i \in DOMAIN table
  BY DEF StreamsOn, OfKind
<1>3. p[1] = i /\ p[2] \in DOMAIN table[i].stream.outs /\ p = <<p[1], p[2]>>
  BY <1>1
<1>4. DOMAIN table = 1 .. Len(table) /\ Len(table) \in Nat
  BY DEF StreamsRun, IsList
<1>5. DOMAIN table[i].stream.outs = 1 .. Len(table[i].stream.outs)
      /\ Len(table[i].stream.outs) \in Nat
  BY <1>2 DEF StreamsRun, IsList
<1>6. p \in Place
  BY <1>2, <1>3, <1>4, <1>5 DEF Place
<1>. QED BY <1>2, <1>3, <1>6 DEF StreamsRun, SpecAt, OutAt

\* The owners of a lane's edges.
LEMMA OwnersAre ==
    ASSUME NEW table, StreamsRun(table), NEW verb, NEW lane,
           OnLane(table, verb, lane) # {}
    PROVE  LET on == OnLane(table, verb, lane)
               low == LowOwner(table, on)
               high == HighOwner(table, on)
           IN  /\ low \in on /\ \A q \in on : SpecAt(table, low).lo <= SpecAt(table, q).lo
               /\ high \in on /\ \A q \in on : SpecAt(table, q).hi <= SpecAt(table, high).hi
<1>. DEFINE on == OnLane(table, verb, lane)
            who == {p[1] : p \in on}
            los == {p \in on : \A q \in on : SpecAt(table, p).lo <= SpecAt(table, q).lo}
            his == {p \in on : \A q \in on : SpecAt(table, q).hi <= SpecAt(table, p).hi}
<1>1. \A p \in on : /\ p \in Place /\ p[1] \in DOMAIN table
                    /\ SpecAt(table, p).lo \in Int /\ SpecAt(table, p).hi \in Int
  BY PlacesOf DEF OnLane
<1>2. IsFiniteSet(who) /\ who # {}
  <2>1. DOMAIN table = 1 .. Len(table) /\ Len(table) \in Nat
    BY DEF StreamsRun, IsList
  <2>2. who \in SUBSET (1 .. Len(table))
    BY <1>1, <2>1
  <2>3. IsFiniteSet(1 .. Len(table))
    BY <2>1, FS_Interval
  <2>4. who # {}
    BY DEF on
  <2>. HIDE DEF who
  <2>. QED BY <2>2, <2>3, <2>4, FS_Subset
<1>3. los # {}
  <2>. DEFINE f == [i \in who |-> table[i].stream.lo]
  <2>1. \A p \in on : f[p[1]] = SpecAt(table, p).lo
    BY DEF SpecAt
  <2>2. f \in [who -> Int]
    BY <1>1, <2>1
  <2>3. PICK i \in who : \A k \in who : f[i] <= f[k]
    BY <1>2, <2>2, LowestOf
  <2>4. PICK p \in on : p[1] = i
    OBVIOUS
  <2>5. \A q \in on : f[p[1]] <= f[q[1]]
    BY <2>3, <2>4
  <2>. QED BY <2>1, <2>5
<1>4. his # {}
  <2>. DEFINE f == [i \in who |-> table[i].stream.hi]
  <2>1. \A p \in on : f[p[1]] = SpecAt(table, p).hi
    BY DEF SpecAt
  <2>2. f \in [who -> Int]
    BY <1>1, <2>1
  <2>3. PICK i \in who : \A k \in who : f[k] <= f[i]
    BY <1>2, <2>2, HighestOf
  <2>4. PICK p \in on : p[1] = i
    OBVIOUS
  <2>5. \A q \in on : f[q[1]] <= f[p[1]]
    BY <2>3, <2>4
  <2>. QED BY <2>1, <2>5
<1>5. LowOwner(table, on) = FirstOf(los) /\ HighOwner(table, on) = FirstOf(his)
  BY DEF LowOwner, HighOwner
<1>6. FirstOf(los) \in los
  BY <1>1, <1>3, FirstIs
<1>7. FirstOf(his) \in his
  BY <1>1, <1>4, FirstIs
<1>. QED BY <1>5, <1>6, <1>7

\* A number lands on a lane unless it is between two of its domains.
LEMMA SomeOneOwns ==
    ASSUME NEW table, StreamsRun(table), NEW verb, NEW lane,
           OnLane(table, verb, lane) # {}, NEW x \in Int
    PROVE  (\E p \in OnLane(table, verb, lane) :
                Owns(table, p, OnLane(table, verb, lane), x))
             <=> ~InGap(table, OnLane(table, verb, lane), x)
<1>. DEFINE on == OnLane(table, verb, lane)
            lo(p) == SpecAt(table, p).lo
            hi(p) == SpecAt(table, p).hi
            low == LowOwner(table, on)
            high == HighOwner(table, on)
            takes(p) == lo(p) <= x /\ x <= hi(p)
<1>1. \A p \in on : lo(p) \in Int /\ hi(p) \in Int /\ lo(p) < hi(p)
  BY PlacesOf DEF OnLane
<1>2. /\ low \in on /\ \A q \in on : lo(low) <= lo(q)
      /\ high \in on /\ \A q \in on : hi(q) <= hi(high)
  BY OwnersAre
<1>3. \A p \in on : Owns(table, p, on, x)
                      <=> \/ takes(p)
                          \/ p[1] = low[1] /\ x < lo(low)
                          \/ p[1] = high[1] /\ x > hi(high)
  BY Zenon DEF Owns
<1>4. InGap(table, on, x) <=> /\ \E p \in on : lo(p) < x
                              /\ \E p \in on : x < hi(p)
                              /\ ~\E p \in on : takes(p)
  BY DEF InGap
<1>. DEFINE Goal == (\E p \in on : Owns(table, p, on, x)) <=> ~InGap(table, on, x)
<1>. SUFFICES Goal
  OBVIOUS
<1>. HIDE DEF on, lo, hi, low, high
<1>5. CASE \E p \in on : takes(p)
  BY <1>3, <1>4, <1>5
<1>6. CASE x < lo(low)
  <2>1. ~\E p \in on : lo(p) < x
    BY <1>1, <1>2, <1>6
  <2>2. Owns(table, low, on, x)
    BY <1>2, <1>3, <1>6
  <2>. QED BY <1>2, <1>4, <2>1, <2>2
<1>7. CASE x > hi(high)
  <2>1. ~\E p \in on : x < hi(p)
    BY <1>1, <1>2, <1>7
  <2>. QED BY <1>2, <1>3, <1>4, <1>7, <2>1
<1>8. CASE ~(\E p \in on : takes(p)) /\ ~(x < lo(low)) /\ ~(x > hi(high))
  <2>1. lo(low) <= x /\ x <= hi(high)
    BY <1>1, <1>2, <1>8
  <2>2. lo(high) > x /\ x > hi(low)
    BY <1>1, <1>2, <1>8, <2>1
  <2>3. lo(low) < x /\ x < hi(high)
    BY <1>1, <1>2, <2>2
  <2>. QED BY <1>2, <1>3, <1>4, <1>8, <2>3
<1>. QED BY <1>5, <1>6, <1>7, <1>8

\* The byte a number is mapped to.
LEMMA ValueInRange ==
    ASSUME NEW spec, NEW o, NEW x \in Int, {spec.lo, spec.hi, o.lo, o.hi} \subseteq Int,
           spec.lo < spec.hi
    PROVE  StreamValue(spec, o, x) \in 0 .. CueTop
<1>. DEFINE val == IF o.mode = "abs" THEN Magnitude(x) ELSE x
            clamped == Least(Most(val, spec.lo), spec.hi)
            mapped == o.lo * (spec.hi - spec.lo) + (clamped - spec.lo) * (o.hi - o.lo)
            across == spec.hi - spec.lo
<1>1. val \in Int /\ clamped \in Int /\ across \in Nat \ {0}
  BY DEF Magnitude, Least, Most
<1>2. mapped \in Int
  <2>. HIDE DEF clamped
  <2>. QED BY <1>1
<1>3. \A n \in Int, d \in Nat \ {0} : Rounded(n, d) \in Int
  BY DEF Rounded
<1>4. \A n \in Int : Most(0, Least(CueTop, n)) \in 0 .. CueTop
  BY GestureAssumption DEF Most, Least
<1>5. StreamValue(spec, o, x) = Most(0, Least(CueTop, Rounded(mapped, across)))
  BY DEF StreamValue
<1>. HIDE DEF mapped, across
<1>. QED BY <1>1, <1>2, <1>3, <1>4, <1>5

LEMMA InputIs ==
    ASSUME NEW spec, spec.arg \in Nat, NEW args \in Seq(Int)
    PROVE  StreamInput(spec, args) \in Int \cup {None}
<1>1. \A k \in DOMAIN args : args[k] \in Int
  OBVIOUS
<1>. QED BY <1>1 DEF StreamInput

\* Of the outlets of a lane that are for what they read, one writes.
LEMMA StreamsLandOnce ==
    ASSUME NEW table, StreamsRun(table), NEW verb, NEW args \in Seq(Int)
    PROVE  LandOnce(table, verb, args)
<1>. DEFINE all == CollectStreamCues(table, verb, args)
            landing == Landing(table, verb, args)
            at(p) == LaneAt(table, p)
            input(p) == StreamInput(SpecAt(table, p), args)
            cue(p) == [at |-> p, lane |-> at(p),
                       value |-> StreamValue(SpecAt(table, p), OutAt(table, p), input(p))]
            writers == {q \in landing : ~\E r \in landing : Earlier(r, q) /\ at(r) = at(q)}
<1>1. all = {cue(p) : p \in writers}
  BY Zenon DEF CollectStreamCues
<1>2. /\ landing \subseteq Outlets(table, verb) /\ landing \subseteq Place
      /\ \A p \in Outlets(table, verb) :
             p \in landing <=> /\ input(p) # None
                               /\ Owns(table, p, OnLane(table, verb, at(p)), input(p))
  <2>1. landing = {p \in Outlets(table, verb) :
                      input(p) # None /\ Owns(table, p, OnLane(table, verb, at(p)), input(p))}
    BY Zenon DEF Landing
  <2>. QED BY <2>1, PlacesOf, Zenon
<1>3. \A p \in Outlets(table, verb) : input(p) \in Int \cup {None}
  BY PlacesOf, InputIs
<1>. HIDE DEF all, landing, at, input
<1>4. ASSUME NEW c \in all PROVE /\ c.value \in 0 .. CueTop
                                 /\ \E p \in writers : c = cue(p) /\ c.lane = at(p)
  <2>1. PICK p \in writers : c = cue(p)
    BY <1>1
  <2>2. p \in Outlets(table, verb) /\ input(p) \in Int
    BY <1>2, <1>3
  <2>3. StreamValue(SpecAt(table, p), OutAt(table, p), input(p)) \in 0 .. CueTop
    BY <2>2, PlacesOf, ValueInRange
  <2>. QED BY <2>1, <2>3
<1>5. ASSUME NEW p \in writers, NEW q \in writers, at(p) = at(q) PROVE p = q
  BY <1>2, <1>5, EarlierOrders
<1>6. ASSUME NEW lane \in StreamLanes(table, verb),
             NEW x \in Int,
             \A p \in OnLane(table, verb, lane) : input(p) = x
      PROVE  {c \in all : c.lane = lane} = {} <=> InGap(table, OnLane(table, verb, lane), x)
  <2>. DEFINE on == OnLane(table, verb, lane)
              here == {p \in landing : at(p) = lane}
  <2>1. on # {} /\ \A p : p \in on <=> p \in Outlets(table, verb) /\ at(p) = lane
    BY DEF StreamLanes, OnLane, at
  <2>2. x # None
    BY GestureAssumption
  <2>3. \A p : p \in here <=> p \in on /\ Owns(table, p, on, x)
    BY <1>2, <1>6, <2>1, <2>2
  <2>4. here = {} <=> InGap(table, on, x)
    BY <2>1, <2>3, SomeOneOwns
  <2>5. ASSUME here # {} PROVE {c \in all : c.lane = lane} # {}
    <3>. DEFINE p == FirstOf(here)
    <3>1. p \in here /\ \A q \in here : q = p \/ Earlier(p, q)
      BY <1>2, <2>5, FirstIs
    <3>2. p \in writers
      BY <1>2, <3>1, EarlierOrders
    <3>. HIDE DEF p
    <3>3. cue(p) \in all /\ cue(p).lane = at(p)
      BY <1>1, <3>2
    <3>. QED BY <3>1, <3>3
  <2>6. ASSUME here = {} PROVE {c \in all : c.lane = lane} = {}
    BY <1>4, <2>6
  <2>. QED BY <2>4, <2>5, <2>6
<1>7. ASSUME NEW lane \in StreamLanes(table, verb)
      PROVE  LET cues == {c \in all : c.lane = lane}
                 on == OnLane(table, verb, lane)
                 reads == {input(p) : p \in on}
             IN  /\ \A c, d \in cues : c = d
                 /\ \A c \in cues : c.value \in 0 .. CueTop
                 /\ \A x \in reads \ {None} : reads = {x} => (cues = {} <=> InGap(table, on, x))
  <2>. DEFINE cues == {c \in all : c.lane = lane}
              on == OnLane(table, verb, lane)
              reads == {input(p) : p \in on}
  <2>1. \A c, d \in cues : c = d
    BY <1>4, <1>5
  <2>2. \A c \in cues : c.value \in 0 .. CueTop
    BY <1>4
  <2>3. ASSUME NEW x \in reads \ {None}, reads = {x}
        PROVE  cues = {} <=> InGap(table, on, x)
    <3>1. \A p \in on : input(p) = x
      BY <2>3
    <3>2. x \in Int
      BY <1>3 DEF OnLane
    <3>. QED BY <1>6, <3>1, <3>2
  <2>. QED BY <2>1, <2>2, <2>3
<1>. QED BY <1>7, Zenon DEF LandOnce, all, input

LEMMA TicksWriteOnce ==
    ASSUME NEW table, IsList(table), NEW fixtures, ~LanesCollide(table, fixtures)
    PROVE  WriteOnce(TickCues(table, fixtures))
<1>. DEFINE gens == OfKind(table, "generator")
            devs(i) == ResolveDevs(table[i].generator.dev, fixtures)
            cue(i, dev) == [fn |-> i, lane |-> <<dev, table[i].generator.lane>>]
<1>1. gens \subseteq Nat
  <2>1. DOMAIN table = 1 .. Len(table) /\ Len(table) \in Nat
    BY DEF IsList
  <2>. QED BY <2>1 DEF OfKind
<1>2. \A i, j \in gens : i < j /\ table[i].generator.lane = table[j].generator.lane
                           => devs(i) \cap devs(j) = {}
  BY Zenon DEF LanesCollide
<1>3. \A c \in TickCues(table, fixtures) : \E i \in gens : \E dev \in devs(i) : c = cue(i, dev)
  BY Zenon DEF TickCues
<1>. HIDE DEF gens, devs
<1>4. ASSUME NEW c \in TickCues(table, fixtures), NEW d \in TickCues(table, fixtures),
             c.lane = d.lane
      PROVE  c = d
  <2>1. PICK i \in gens : \E a \in devs(i) : c = cue(i, a)
    BY <1>3
  <2>2. PICK j \in gens : \E b \in devs(j) : d = cue(j, b)
    BY <1>3
  <2>11. PICK a \in devs(i) : c = cue(i, a)
    BY <2>1
  <2>22. PICK b \in devs(j) : d = cue(j, b)
    BY <2>2
  <2>3. a = b /\ table[i].generator.lane = table[j].generator.lane
    BY <1>4, <2>11, <2>22
  <2>4. i \in Nat /\ j \in Nat /\ (i < j \/ j < i \/ i = j)
    BY <1>1
  <2>5. i = j
    BY <1>2, <2>3, <2>4
  <2>. QED BY <2>11, <2>22, <2>3, <2>5
<1>. QED BY <1>4 DEF WriteOnce

\* What is on the shelf was found in a package root.
LEMMA ShelfFromRoots ==
    ASSUME NEW rs \in Shelves, NEW n \in DOMAIN Scan(rs)
    PROVE  TableOK(Scan(rs)[n].bit.table)
<1>. DEFINE package(p) == rs[p[1]].packages[p[2]]
            found == UNION {{i} \X DOMAIN rs[i].packages : i \in {k \in DOMAIN rs : rs[k].there}}
            sound == {p \in found : ~PackageRefused(package(p))}
            named == {p \in sound : package(p).manifest.name = n}
<1>1. ShelfOK(rs)
  BY GestureAssumption
<1>2. \A p \in found : /\ p \in Place /\ "bit" \in DOMAIN package(p)
                       /\ TableOK(package(p).bit.table)
  <2>. SUFFICES ASSUME NEW i \in DOMAIN rs, NEW p \in {i} \X DOMAIN rs[i].packages
                PROVE  /\ p \in Place /\ "bit" \in DOMAIN package(p)
                       /\ TableOK(package(p).bit.table)
    BY Zenon
  <2>1. p[1] = i /\ p[2] \in DOMAIN rs[i].packages /\ p = <<p[1], p[2]>>
    OBVIOUS
  <2>2. /\ DOMAIN rs = 1 .. Len(rs) /\ Len(rs) \in Nat
        /\ DOMAIN rs[i].packages = 1 .. Len(rs[i].packages) /\ Len(rs[i].packages) \in Nat
    BY <1>1 DEF ShelfOK, IsList
  <2>3. p \in Place
    BY <2>1, <2>2 DEF Place
  <2>. QED BY <1>1, <2>1, <2>3 DEF ShelfOK
<1>3. /\ DOMAIN Scan(rs) = {package(p).manifest.name : p \in sound}
      /\ Scan(rs)[n] = [package(FirstOf(named)) EXCEPT !.manifest = Parsed(@)]
  BY Zenon DEF Scan
<1>4. named # {} /\ named \subseteq found
  BY <1>3
<1>. DEFINE first == package(FirstOf(named))
<1>5. FirstOf(named) \in found
  BY <1>2, <1>4, FirstIs
<1>6. "bit" \in DOMAIN first /\ TableOK(first.bit.table)
  BY <1>2, <1>5
<1>. HIDE DEF first
<1>7. [first EXCEPT !.manifest = Parsed(@)].bit = first.bit
  BY <1>6
<1>. QED BY <1>3, <1>6, <1>7 DEF first

\* What the loaded Bit was accepted for is still so.
BitFits ==
    /\ roots \in Shelves
    /\ shelf # None => \A b \in DOMAIN shelf : TableOK(shelf[b].bit.table)
    /\ game # None => /\ config # None /\ room # None
                      /\ StreamsRun(game.table) /\ ~LanesCollide(game.table, FixturesUp)

LEMMA BitFitsKept ==
    ASSUME BitFits, [CatalogNext]_catalogVars
    PROVE  BitFits'
<1>1. CASE Boot
  <2>1. /\ shelf' = Scan(roots) /\ roots' = roots /\ config = None /\ game' = game
    BY <1>1 DEF Boot
  <2>2. \A b \in DOMAIN Scan(roots) : TableOK(Scan(roots)[b].bit.table)
    BY ShelfFromRoots DEF BitFits
  <2>. QED BY <2>1, <2>2 DEF BitFits
<1>2. ASSUME roots' = roots,
             \/ shelf' = None /\ game' = None
             \/ UNCHANGED <<shelf, config, room, game>>
      PROVE  BitFits'
  BY <1>2 DEF BitFits, FixturesUp
<1>3. CASE Stop
  BY <1>2, <1>3 DEF Stop, Gone
<1>4. ASSUME NEW k \in Kind, NEW n \in NamesOf(k), Publish(k, n) PROVE BitFits'
  BY <1>2, <1>4 DEF Publish, Answered, Gone
<1>5. ASSUME NEW k \in Kind, NEW n \in NamesOf(k), NEW file \in FilesOf(k), Save(k, n, file)
      PROVE  BitFits'
  BY <1>2, <1>5 DEF Save, Answered, Gone
<1>6. ASSUME NEW k \in Kind, NEW n \in NamesOf(k), NEW state \in {"published", "drafts"},
             NEW s \in NamesOf(k), Clone(k, state, s, n)
      PROVE  BitFits'
  BY <1>2, <1>6 DEF Clone, Answered, Gone
<1>7. ASSUME NEW r \in RoomName, TakeUpRoom(r) PROVE BitFits'
  BY <1>7 DEF TakeUpRoom, BitFits
<1>8. ASSUME shelf # None, NEW b, NEW o, TakeUpBit(b, o) PROVE BitFits'
  <2>. DEFINE table == shelf[b].bit.table
  <2>1. PICK m : /\ config # None /\ room # None /\ m = ResolveConfig(shelf, b, o) /\ m # None
                 /\ ~LoadRefused(shelf[b], m.maxScored, config.rooms[room].fixtures)
                 /\ game' = [table |-> table, manifest |-> m]
                 /\ UNCHANGED <<roots, config, shelf, room>>
    BY <1>8 DEF TakeUpBit
  <2>2. b \in DOMAIN shelf
    BY <2>1 DEF ResolveConfig
  <2>3. /\ ~TableRefused(table, shelf[b].bit.verbs, "bit")
        /\ ~RoomRefusesBit(shelf[b].bit, config.rooms[room].fixtures)
    BY <2>1, Zenon DEF LoadRefused
  <2>4. ~LanesCollide(table, FixturesUp)
    BY <2>3, Zenon DEF RoomRefusesBit, FixturesUp
  <2>5. StreamsRun(table)
    BY <1>8, <2>2, <2>3, AcceptedRun DEF BitFits
  <2>6. FixturesUp' = FixturesUp /\ game'.table = table
    BY <2>1 DEF FixturesUp
  <2>. QED BY <2>1, <2>4, <2>5, <2>6 DEF BitFits
<1>9. CASE UNCHANGED catalogVars
  BY <1>2, <1>9 DEF catalogVars
<1>. QED BY <1>1, <1>3, <1>4, <1>5, <1>6, <1>7, <1>8, <1>9 DEF CatalogNext

\* Of a loaded Bit, the generators write no lane of a fixture twice in a tick, and a
\* gesture writes each lane its verb streams to once, unless it falls in a gap or the
\* streams read different numbers of it (control/engine.py:
\* _check_generator_lane_collisions; control/functions.py: collect_stream_cues).
THEOREM LanesAreWrittenOnce == CatalogSpec => []LanesWrittenOnce
<1>1. CatalogInit => BitFits
  BY DEF CatalogInit, BitFits
<1>2. BitFits => LanesWrittenOnce
  <2>. SUFFICES ASSUME BitFits, game # None
                PROVE  /\ WriteOnce(TickCues(game.table, FixturesUp))
                       /\ \A verb \in StreamVerbs(game.table), args \in Gestures :
                                 LandOnce(game.table, verb, args)
    BY DEF LanesWrittenOnce
  <2>1. StreamsRun(game.table) /\ ~LanesCollide(game.table, FixturesUp)
    BY DEF BitFits
  <2>2. WriteOnce(TickCues(game.table, FixturesUp))
    BY <2>1, TicksWriteOnce DEF StreamsRun
  <2>. QED BY <2>1, <2>2, StreamsLandOnce, GestureAssumption
<1>. QED BY <1>1, <1>2, BitFitsKept, PTL DEF CatalogSpec
=============================================================================
