---------------------------- MODULE UplinkProofs ----------------------------
(***************************************************************************)
(* What Uplink.tla keeps for every set of Rooms, every cap and backoff, and *)
(* any number of rounds, loads and accidents of every kind.                 *)
(***************************************************************************)
EXTENDS Uplink, TLAPS

\* What may be sent.
Frame ==
    {Identity, Error}
        \cup [event : {"state_changed"}, engine : Engines, terrarium : Terraria]
        \cup [event : {"room_loaded", "room_unloaded"}, name : RoomName]
        \cup [event : {"bit_completed"}, round : Nat]

\* A handler's frames.
Frames == {fs \in Seq(Frame) : Len(fs) \in 1..2}

\* While the connection is being made the thread does nothing else, and only a
\* socket has a replay.
OneThread ==
    /\ stage \notin {"down", "up"} =>
        /\ task = "none" /\ engine # "completing"
        /\ terrarium \in {"no_room", "ready"}
    /\ stage = "replay" => durable
    /\ stage # "replay" => position = 0
    /\ terrarium \in {"ready", "unloading"} => room \in RoomName

\* What a peer that has read everything so far makes of the box.
Current ==
    /\ view.engine = engine /\ view.terrarium = terrarium
    /\ terrarium = "ready" => view.room = room

Informed == durable /\ alive /\ stage \in {"replay", "up"} => Current

\* The reports in the file.  Each line stands for a round, but for the garbage a
\* process may find at its start: a line's round is as many rounds ago as there
\* are lines after it, or more.  A round that completes is accounted for before
\* the next one does, and a replay has handed over all that it has passed.
LinesBehind == IF task = "journal" THEN 1 ELSE 0
Accounted == rounds > 0 => rounds \in Kept \cup handed \cup missed
JournalKept ==
    /\ \A i \in Entries : journal[i] + (Len(journal) - i) + LinesBehind <= rounds
    /\ Len(journal) + LinesBehind <= rounds + 1
    /\ task # "none" => rounds > 0
    /\ task = "trim" => Len(journal) > Cap
    /\ task # "journal" => Accounted
    /\ \A i \in Entries : i <= position => journal[i] \in handed

-----------------------------------------------------------------------------
(* Frames, and what is sent of them.                                       *)

\* The frames are frames.
LEMMA FrameTypes ==
    /\ Identity \in Frame /\ Error \in Frame
    /\ \A e \in Engines, t \in Terraria : StateChanged(e, t) \in Frame
    /\ \A n \in RoomName : RoomLoaded(n) \in Frame /\ RoomUnloaded(n) \in Frame
    /\ \A r \in Nat : BitCompleted(r) \in Frame
BY DEF Frame, StateChanged, RoomLoaded, RoomUnloaded, BitCompleted

\* A frame makes a picture of a picture.
LEMMA SeenTyped ==
    ASSUME NEW v \in View, NEW f \in Frame
    PROVE  Seen(v, f) \in View
<1>1. CASE f \in {Identity, Error}
  BY <1>1 DEF Seen, Identity, Error
<1>2. CASE f \in [event : {"state_changed"}, engine : Engines, terrarium : Terraria]
  BY <1>2 DEF Seen, View
<1>3. CASE f \in [event : {"room_loaded", "room_unloaded"}, name : RoomName]
  BY <1>3 DEF Seen, View
<1>4. CASE f \in [event : {"bit_completed"}, round : Nat]
  BY <1>4 DEF Seen
<1> QED
  BY <1>1, <1>2, <1>3, <1>4 DEF Frame

\* So do two.
LEMMA SeenOfTyped ==
    ASSUME NEW v \in View, NEW fs \in Frames, NEW k \in 0..Len(fs)
    PROVE  SeenOf(v, fs, k) \in View
<1>1. Len(fs) \in 1..2 /\ fs[1] \in Frame /\ (Len(fs) = 2 => fs[2] \in Frame)
  BY DEF Frames
<1>2. Seen(v, fs[1]) \in View
  BY <1>1, SeenTyped
<1>3. Len(fs) = 2 => Seen(Seen(v, fs[1]), fs[2]) \in View
  BY <1>1, <1>2, SeenTyped
<1>4. CASE k = 0
  BY <1>4 DEF SeenOf
<1>5. CASE k = 1
  BY <1>2, <1>5 DEF SeenOf
<1>6. CASE k = 2
  BY <1>1, <1>3, <1>6 DEF SeenOf
<1> QED
  BY <1>1, <1>4, <1>5, <1>6

\* A peer that is still there has read all, and everything has its type.
LEMMA SendOutcome ==
    ASSUME TypeOK, NEW fs \in Frames, NEW n \in 0..Len(fs), Send(fs, n)
    PROVE  /\ view' \in View /\ alive' \in BOOLEAN /\ faults' \in Nat
           /\ durable /\ alive' =>
                n = Len(fs) /\ alive /\ view' = SeenOf(view, fs, Len(fs))
<1>1. Len(fs) \in 1..2
  BY DEF Frames
<1>2. CASE durable
  <2>1. PICK k \in 0..n :
          /\ ~alive => k = 0
          /\ view' = SeenOf(view, fs, k)
          /\ alive' = (alive /\ k = Len(fs))
          /\ IF alive /\ ~alive' THEN Can("drop") /\ faults' = faults + 1
             ELSE UNCHANGED faults
    BY <1>2 DEF Send, SendSocket
  <2>2. k \in 0..Len(fs)
    BY <1>1
  <2>3. view' \in View
    BY <2>1, <2>2, SeenOfTyped DEF TypeOK
  <2>4. faults' \in Nat
    BY <2>1 DEF TypeOK
  <2>5. alive' \in BOOLEAN
    BY <2>1
  <2>6. alive' => k = Len(fs) /\ alive
    BY <2>1
  <2> QED
    BY <1>1, <2>1, <2>3, <2>4, <2>5, <2>6
<1>3. CASE ~durable
  BY <1>3 DEF Send, SendLog, TypeOK
<1> QED
  BY <1>2, <1>3

\* A handler tells the peer all it has to, or the peer is gone, or the connection.
LEMMA TellOutcome ==
    ASSUME TypeOK, NEW fs \in Frames, NEW n \in 0..Len(fs), Tell(fs, n)
    PROVE  /\ view' \in View /\ alive' \in BOOLEAN /\ faults' \in Nat
           /\ stage' \in {stage, "down"}
           /\ durable /\ alive' /\ stage' # "down" =>
                alive /\ view' = SeenOf(view, fs, Len(fs))
<1>1. CASE stage = "down"
  BY <1>1 DEF Tell, TypeOK
<1>2. CASE stage # "down"
  <2>1. Send(fs, n) /\ stage' \in {stage, "down"}
    BY <1>2 DEF Tell
  <2> QED
    BY <2>1, SendOutcome
<1> QED
  BY <1>1, <1>2

\* What a frame tells.
LEMMA StateIsSeen ==
    ASSUME NEW v \in View, NEW e \in Engines, NEW t \in Terraria
    PROVE  /\ Seen(v, StateChanged(e, t)).engine = e
           /\ Seen(v, StateChanged(e, t)).terrarium = t
           /\ Seen(v, StateChanged(e, t)).room = v.room
           /\ Seen(v, StateChanged(e, t)) \in View
BY DEF Seen, StateChanged, View

LEMMA RoomIsSeen ==
    ASSUME NEW v \in View, NEW n \in RoomName
    PROVE  /\ Seen(v, RoomLoaded(n)).engine = v.engine
           /\ Seen(v, RoomLoaded(n)).terrarium = v.terrarium
           /\ Seen(v, RoomLoaded(n)).room = n
           /\ Seen(v, RoomUnloaded(n)).engine = v.engine
           /\ Seen(v, RoomUnloaded(n)).terrarium = v.terrarium
BY DEF Seen, RoomLoaded, RoomUnloaded, View

\* The frames of a handler, one or two.
LEMMA OneFrame ==
    ASSUME NEW f \in Frame
    PROVE  /\ <<f>> \in Frames /\ Len(<<f>>) = 1
           /\ \A v : SeenOf(v, <<f>>, 1) = Seen(v, f)
BY DEF Frames, SeenOf

LEMMA TwoFrames ==
    ASSUME NEW f \in Frame, NEW g \in Frame
    PROVE  /\ <<f, g>> \in Frames /\ Len(<<f, g>>) = 2
           /\ \A v : SeenOf(v, <<f, g>>, 2) = Seen(Seen(v, f), g)
BY DEF Frames, SeenOf

\* What a new connection is told first is the state, and the Room if one is
\* loaded.
LEMMA SnapshotTells ==
    ASSUME TypeOK, OneThread
    PROVE  /\ Snapshot \in Frames
           /\ LET seen == SeenOf(view, Snapshot, Len(Snapshot))
              IN  /\ seen.engine = engine /\ seen.terrarium = terrarium
                  /\ terrarium = "ready" => seen.room = room
<1> DEFINE f == StateChanged(engine, terrarium)
<1>1. f \in Frame /\ view \in View /\ engine \in Engines /\ terrarium \in Terraria
  BY FrameTypes DEF TypeOK
<1>2. CASE room = None
  <2>1. Snapshot = <<f>>
    BY <1>2 DEF Snapshot
  <2>2. terrarium # "ready"
    BY <1>2, UplinkAssumption DEF OneThread, UplinkAssumption
  <2>3. SeenOf(view, Snapshot, Len(Snapshot)) = Seen(view, f)
    BY <1>1, <2>1, OneFrame
  <2> HIDE DEF f
  <2>4. Snapshot \in Frames
    BY <1>1, <2>1, OneFrame
  <2> USE DEF f
  <2> QED
    BY <1>1, <2>2, <2>3, <2>4, StateIsSeen
<1>3. CASE room # None
  <2>1. room \in RoomName /\ RoomLoaded(room) \in Frame
    BY <1>3, FrameTypes DEF TypeOK
  <2>2. Snapshot = <<f, RoomLoaded(room)>>
    BY <1>3 DEF Snapshot
  <2>3. /\ Snapshot \in Frames
        /\ SeenOf(view, Snapshot, Len(Snapshot))
             = Seen(Seen(view, f), RoomLoaded(room))
    <3> DEFINE g == RoomLoaded(room)
    <3>1. f \in Frame /\ g \in Frame /\ Snapshot = <<f, g>>
      BY <1>1, <2>1, <2>2
    <3> HIDE DEF f, g
    <3>2. /\ Snapshot \in Frames /\ Len(Snapshot) = 2
          /\ SeenOf(view, Snapshot, 2) = Seen(Seen(view, f), g)
      BY <3>1, TwoFrames
    <3> QED
      BY <3>2 DEF g
  <2>4. /\ Seen(view, f) \in View
        /\ Seen(view, f).engine = engine /\ Seen(view, f).terrarium = terrarium
    BY <1>1, StateIsSeen
  <2> QED
    BY <2>1, <2>3, <2>4, RoomIsSeen
<1> QED
  BY <1>2, <1>3

\* What is told of a Room that is gone.
LEMMA GoneTells ==
    ASSUME TypeOK
    PROVE  /\ Gone \in Frames
           /\ LET seen == SeenOf(view, Gone, Len(Gone))
              IN  seen.engine = engine /\ seen.terrarium = "no_room"
<1> DEFINE f == StateChanged(engine, "no_room")
<1>1. f \in Frame /\ view \in View /\ engine \in Engines /\ "no_room" \in Terraria
  BY FrameTypes DEF TypeOK, Terraria
<1>2. Seen(view, f) \in View /\ Seen(view, f).engine = engine
      /\ Seen(view, f).terrarium = "no_room"
  BY <1>1, StateIsSeen
<1>3. CASE unloading = None
  <2>1. Gone = <<f>>
    BY <1>3 DEF Gone
  <2> QED
    BY <1>1, <1>2, <2>1, OneFrame
<1>4. CASE unloading # None
  <2>1. unloading \in RoomName /\ RoomUnloaded(unloading) \in Frame
    BY <1>4, FrameTypes DEF TypeOK
  <2>2. Gone = <<f, RoomUnloaded(unloading)>>
    BY <1>4 DEF Gone
  <2>3. /\ Gone \in Frames
        /\ SeenOf(view, Gone, Len(Gone)) = Seen(Seen(view, f), RoomUnloaded(unloading))
    <3> DEFINE g == RoomUnloaded(unloading)
    <3>1. f \in Frame /\ g \in Frame /\ Gone = <<f, g>>
      BY <1>1, <2>1, <2>2
    <3> HIDE DEF f, g
    <3>2. /\ Gone \in Frames /\ Len(Gone) = 2
          /\ SeenOf(view, Gone, 2) = Seen(Seen(view, f), g)
      BY <3>1, TwoFrames
    <3> QED
      BY <3>2 DEF g
  <2> QED
    BY <1>2, <2>1, <2>3, RoomIsSeen
<1> QED
  BY <1>3, <1>4

\* The telling of a single frame.
LEMMA TellOne ==
    ASSUME TypeOK, NEW f \in Frame, NEW n \in 0..1, Tell(<<f>>, n)
    PROVE  /\ view' \in View /\ alive' \in BOOLEAN /\ faults' \in Nat
           /\ stage' \in {stage, "down"}
           /\ durable /\ alive' /\ stage' # "down" => alive /\ view' = Seen(view, f)
<1>1. <<f>> \in Frames /\ Len(<<f>>) = 1 /\ SeenOf(view, <<f>>, 1) = Seen(view, f)
  BY OneFrame
<1>2. n \in 0..Len(<<f>>)
  BY <1>1
<1> HIDE DEF Frames
<1> QED
  BY <1>1, <1>2, TellOutcome

LEMMA SendOne ==
    ASSUME TypeOK, NEW f \in Frame, NEW n \in 0..1, Send(<<f>>, n)
    PROVE  /\ view' \in View /\ alive' \in BOOLEAN /\ faults' \in Nat
           /\ durable /\ alive' => n = 1 /\ alive /\ view' = Seen(view, f)
<1>1. <<f>> \in Frames /\ Len(<<f>>) = 1 /\ SeenOf(view, <<f>>, 1) = Seen(view, f)
  BY OneFrame
<1>2. n \in 0..Len(<<f>>)
  BY <1>1
<1> QED
  BY <1>1, <1>2, SendOutcome

-----------------------------------------------------------------------------
(* Types, the one thread, and the picture, from the first state on.        *)

\* All that is shown of the first state and of every step.
Sound == TypeOK /\ OneThread /\ Informed

\* A step that leaves the box as it is and tells nothing.
LEMMA PlumbingStep ==
    ASSUME Sound, Connect \/ Elapse \/ Vanish \/ Notice \/ Clear
    PROVE  Sound'
<1> USE UplinkAssumption DEF UplinkAssumption, linkVars, fileVars, boxVars, history
<1>1. CASE Connect
  <2>1. /\ wait' \in 0..MaxBackoff /\ backoff' \in 1..MaxBackoff
        /\ position' \in Nat /\ faults' \in Nat
    BY <1>1 DEF Sound, TypeOK, Connect, Failed, Can
  <2>2. stage' \in {"identity", "down"} /\ alive' \in BOOLEAN
    BY <1>1 DEF Sound, TypeOK, Connect
  <2>3. TypeOK'
    BY <1>1, <2>1, <2>2 DEF Sound, TypeOK, Connect
  <2>4. OneThread'
    BY <1>1 DEF Sound, TypeOK, OneThread, Connect, Quiet, Failed
  <2>5. Informed'
    BY <1>1 DEF Sound, Informed, Current, Connect
  <2> QED
    BY <2>3, <2>4, <2>5 DEF Sound
<1>2. CASE Elapse
  BY <1>2 DEF Elapse, Sound, TypeOK, OneThread, Informed, Current
<1>3. CASE Vanish
  <2>1. faults' \in Nat
    BY <1>3 DEF Vanish, Sound, TypeOK
  <2>2. TypeOK'
    BY <1>3, <2>1 DEF Vanish, Sound, TypeOK
  <2>3. OneThread' /\ Informed'
    BY <1>3 DEF Vanish, Sound, OneThread, Informed
  <2> QED
    BY <2>2, <2>3 DEF Sound
<1>4. CASE Notice
  BY <1>4 DEF Notice, Quiet, Sound, TypeOK, OneThread, Informed, Current
<1>5. CASE Clear
  <2>1. /\ wait' \in 0..MaxBackoff /\ backoff' \in 1..MaxBackoff
        /\ position' \in Nat /\ journal' \in Seq(Nat)
    BY <1>5 DEF Sound, TypeOK, Clear, Established
  <2>2. TypeOK'
    BY <1>5, <2>1 DEF Sound, TypeOK, Clear
  <2>3. OneThread'
    BY <1>5 DEF Sound, TypeOK, OneThread, Clear, Established
  <2>4. Informed'
    BY <1>5 DEF Sound, Informed, Current, Clear
  <2> QED
    BY <2>2, <2>3, <2>4 DEF Sound
<1> QED
  BY <1>1, <1>2, <1>3, <1>4, <1>5

\* A new connection introduces the box, and tells its state before the peer is
\* taken to know it.
LEMMA PresentStep ==
    ASSUME Sound, Present
    PROVE  Sound'
<1> USE UplinkAssumption DEF UplinkAssumption, fileVars, boxVars, history
<1>1. PICK n \in 0..1 :
        /\ Send(<<Identity>>, n)
        /\ IF n = 1 THEN stage' = "resync" /\ UNCHANGED <<wait, backoff, position>>
           ELSE stage' = "down" /\ Failed
  BY DEF Present
<1>2. view' \in View /\ alive' \in BOOLEAN /\ faults' \in Nat
  BY <1>1, SendOne, FrameTypes DEF Sound
<1>3. UNCHANGED <<durable, fileVars, task, boxVars, history>> /\ stage = "identity"
  BY DEF Present
<1>4. stage' \in {"resync", "down"}
  BY <1>1
<1>5. TypeOK'
  BY <1>1, <1>2, <1>3, <1>4 DEF Sound, TypeOK, Failed
<1>6. OneThread'
  BY <1>1, <1>3, <1>4 DEF Sound, OneThread, Failed
<1>7. Informed'
  BY <1>4 DEF Informed
<1> QED
  BY <1>5, <1>6, <1>7 DEF Sound

LEMMA ResyncStep ==
    ASSUME Sound, Resync
    PROVE  Sound'
<1> USE UplinkAssumption DEF UplinkAssumption, fileVars, boxVars, history
<1>1. PICK n \in 0..Len(Snapshot) :
        /\ Send(Snapshot, n)
        /\ IF n < Len(Snapshot) THEN stage' = "down" /\ Failed
           ELSE IF durable
           THEN stage' = "replay" /\ UNCHANGED <<wait, backoff, position>>
           ELSE stage' = "up" /\ Established
  BY DEF Resync
<1>2. UNCHANGED <<durable, fileVars, task, boxVars, history>> /\ stage = "resync"
  BY DEF Resync
<1>3. Snapshot \in Frames
      /\ LET seen == SeenOf(view, Snapshot, Len(Snapshot))
         IN  /\ seen.engine = engine /\ seen.terrarium = terrarium
             /\ terrarium = "ready" => seen.room = room
  BY SnapshotTells DEF Sound
<1>4. /\ view' \in View /\ alive' \in BOOLEAN /\ faults' \in Nat
      /\ durable /\ alive' => view' = SeenOf(view, Snapshot, Len(Snapshot))
  BY <1>1, <1>3, SendOutcome DEF Sound
<1>5. TypeOK'
  BY <1>1, <1>2, <1>4 DEF Sound, TypeOK, Failed, Established
<1>6. OneThread'
  BY <1>1, <1>2 DEF Sound, OneThread, Failed, Established
<1>7. Informed'
  BY <1>2, <1>3, <1>4 DEF Informed, Current
<1> QED
  BY <1>5, <1>6, <1>7 DEF Sound

\* A line that can be read is a line, and reports a round.
LEMMA LinesAreRounds ==
    ASSUME TypeOK, JournalKept
    PROVE  /\ rounds \in Nat /\ Len(journal) \in Nat /\ position \in Nat
           /\ \A i \in Entries :
                i \in 1..Len(journal) /\ journal[i] \in Nat /\ journal[i] \in 1..rounds
<1>1. rounds \in Nat /\ Len(journal) \in Nat /\ position \in Nat /\ journal \in Seq(Nat)
  BY DEF TypeOK
<1>2. ASSUME NEW i \in Entries
      PROVE  i \in 1..Len(journal) /\ journal[i] \in Nat /\ journal[i] \in 1..rounds
  <2>1. i \in 1..Len(journal) /\ journal[i] \in Nat /\ journal[i] # 0
    BY <1>1 DEF Entries, Readable, Garbage
  <2>2. LinesBehind \in {0, 1}
    BY DEF LinesBehind
  <2>3. journal[i] + (Len(journal) - i) + LinesBehind <= rounds
    BY DEF JournalKept
  <2> QED
    BY <1>1, <2>1, <2>2, <2>3
<1> QED
  BY <1>1, <1>2

\* A replay tells rounds.
LEMMA ReplayStep ==
    ASSUME Sound, JournalKept, Replay
    PROVE  Sound'
<1> USE UplinkAssumption DEF UplinkAssumption, fileVars, boxVars
<1>1. PICK i \in Unsent, n \in 0..1 :
        /\ Send(<<BitCompleted(journal[i])>>, n)
        /\ IF n = 1
           THEN /\ position' = i
                /\ handed' = handed \cup {journal[i]}
                /\ UNCHANGED <<stage, wait, backoff>>
           ELSE stage' = "down" /\ Established /\ UNCHANGED handed
  BY DEF Replay
<1>2. UNCHANGED <<durable, fileVars, task, boxVars, rounds, missed>> /\ stage = "replay"
  BY DEF Replay
<1>3. /\ i \in 1..Len(journal) /\ journal[i] \in Nat
      /\ journal[i] \in 1..rounds
  BY LinesAreRounds DEF Sound, Unsent
<1>4. BitCompleted(journal[i]) \in Frame
  BY <1>3, FrameTypes
<1>5. /\ view' \in View /\ alive' \in BOOLEAN /\ faults' \in Nat
      /\ durable /\ alive' =>
           n = 1 /\ alive /\ view' = Seen(view, BitCompleted(journal[i]))
  BY <1>1, <1>4, SendOne DEF Sound
<1>6. Seen(view, BitCompleted(journal[i])) = view
  BY DEF Seen, BitCompleted
<1>7. TypeOK'
  <2>1. handed' \cup missed' \subseteq 1..rounds
    BY <1>1, <1>2, <1>3 DEF Sound, TypeOK
  <2>2. /\ wait' \in 0..MaxBackoff /\ backoff' \in 1..MaxBackoff
        /\ position' \in Nat
    <3>1. /\ wait' \in {wait, 0} /\ backoff' \in {backoff, InitialBackoff}
          /\ position' \in {i, 0}
      BY <1>1 DEF Established
    <3>2. wait \in 0..MaxBackoff /\ backoff \in 1..MaxBackoff
      BY DEF Sound, TypeOK
    <3> QED
      BY <1>3, <3>1, <3>2
  <2>3. stage' \in {"replay", "down"}
    BY <1>1, <1>2
  <2> QED
    BY <1>2, <1>5, <2>1, <2>2, <2>3 DEF Sound, TypeOK
<1>8. OneThread'
  BY <1>1, <1>2 DEF Sound, OneThread, Established
<1>9. Informed'
  BY <1>1, <1>2, <1>5, <1>6 DEF Sound, Informed, Current
<1> QED
  BY <1>7, <1>8, <1>9 DEF Sound

\* A refusal tells nothing of the box.
LEMMA RefuseStep ==
    ASSUME Sound, Refuse
    PROVE  Sound'
<1> USE DEF fileVars, boxVars, history
<1>1. PICK n \in 0..1 : Tell(<<Error>>, n)
  BY DEF Refuse
<1>2. UNCHANGED <<durable, wait, backoff, position, fileVars, task, boxVars, history>>
  BY DEF Refuse
<1>3. /\ view' \in View /\ alive' \in BOOLEAN /\ faults' \in Nat
      /\ stage' \in {stage, "down"}
      /\ durable /\ alive' /\ stage' # "down" => alive /\ view' = Seen(view, Error)
  BY <1>1, TellOne, FrameTypes DEF Sound
<1>4. Seen(view, Error) = view
  BY DEF Seen, Error
<1>5. stage = "up" /\ Quiet
  BY DEF Refuse
<1>6. TypeOK'
  BY <1>2, <1>3 DEF Sound, TypeOK
<1>7. OneThread'
  BY <1>2, <1>3, <1>5 DEF Sound, OneThread
<1>8. Informed'
  BY <1>2, <1>3, <1>4 DEF Sound, Informed, Current
<1> QED
  BY <1>6, <1>7, <1>8 DEF Sound

\* A handler of the box tells the state it has come to.
LEMMA StateTold ==
    ASSUME Sound, NEW e \in Engines, NEW t \in Terraria, NEW n \in 0..1,
           Tell(<<StateChanged(e, t)>>, n)
    PROVE  /\ view' \in View /\ alive' \in BOOLEAN /\ faults' \in Nat
           /\ stage' \in {stage, "down"}
           /\ durable /\ alive' /\ stage' # "down" =>
                alive /\ view'.engine = e /\ view'.terrarium = t /\ view'.room = view.room
<1>1. StateChanged(e, t) \in Frame /\ view \in View
  BY FrameTypes DEF Sound, TypeOK
<1> QED
  BY <1>1, TellOne, StateIsSeen DEF Sound

LEMMA EngineStep ==
    ASSUME Sound, NEW from \in Engines, NEW to \in Engines, Engine(from, to),
           stage \in {"down", "up"}
    PROVE  Sound'
<1> USE DEF fileVars, history
<1>1. PICK n \in 0..1 : Tell(<<StateChanged(to, terrarium)>>, n)
  BY DEF Engine
<1>2. /\ engine' = to
      /\ UNCHANGED <<durable, wait, backoff, position, fileVars, task, terrarium, room,
                     unloading, loads, history>>
  BY DEF Engine
<1>3. /\ view' \in View /\ alive' \in BOOLEAN /\ faults' \in Nat
      /\ stage' \in {stage, "down"}
      /\ durable /\ alive' /\ stage' # "down" =>
           /\ alive /\ view'.engine = to /\ view'.terrarium = terrarium
           /\ view'.room = view.room
  BY <1>1, StateTold DEF Sound, TypeOK
<1>4. TypeOK'
  BY <1>2, <1>3 DEF Sound, TypeOK
<1>5. OneThread'
  BY <1>2, <1>3 DEF Sound, OneThread
<1>6. Informed'
  BY <1>2, <1>3 DEF Sound, Informed, Current
<1> QED
  BY <1>4, <1>5, <1>6 DEF Sound

LEMMA RunsStep ==
    ASSUME Sound, Run \/ Abort \/ Unload
    PROVE  Sound'
<1>1. stage \in {"down", "up"}
  BY DEF Run, Abort, Unload, Quiet, Engine, Sound, OneThread
<1>2. PICK from \in Engines, to \in Engines : Engine(from, to)
  BY DEF Run, Abort, Unload, Engines
<1> QED
  BY <1>1, <1>2, EngineStep

\* A round completes.
LEMMA CompleteStep ==
    ASSUME Sound, Complete
    PROVE  Sound'
<1> USE DEF fileVars
<1>1. PICK n \in 0..1 :
        /\ Tell(<<StateChanged("completing", terrarium)>>, n)
        /\ IF n = 1 THEN task' = "journal" /\ UNCHANGED missed
           ELSE UNCHANGED task /\ missed' = missed \cup {rounds + 1}
  BY DEF Complete
<1>2. /\ Quiet /\ engine' = "completing" /\ rounds' = rounds + 1
      /\ UNCHANGED <<durable, wait, backoff, position, fileVars, terrarium, room,
                     unloading, loads, handed>>
  BY DEF Complete
<1>3. "completing" \in Engines /\ terrarium \in Terraria
  BY DEF Engines, Sound, TypeOK
<1>4. /\ view' \in View /\ alive' \in BOOLEAN /\ faults' \in Nat
      /\ stage' \in {stage, "down"}
      /\ durable /\ alive' /\ stage' # "down" =>
           /\ alive /\ view'.engine = "completing" /\ view'.terrarium = terrarium
           /\ view'.room = view.room
  BY <1>1, <1>3, StateTold
<1>5. rounds' \in Nat /\ handed' \cup missed' \subseteq 1..rounds'
  <2>1. rounds \in Nat /\ handed \cup missed \subseteq 1..rounds
    BY DEF Sound, TypeOK
  <2>2. missed' \subseteq missed \cup {rounds + 1}
    BY <1>1
  <2> QED
    BY <1>2, <2>1, <2>2
<1>6. task' \in {"none", "journal", "trim", "report"}
  BY <1>1 DEF Sound, TypeOK
<1>7. TypeOK'
  BY <1>2, <1>3, <1>4, <1>5, <1>6 DEF Sound, TypeOK
<1>8. OneThread'
  BY <1>2, <1>4 DEF Sound, OneThread, Quiet
<1>9. Informed'
  BY <1>2, <1>4 DEF Sound, Informed, Current
<1> QED
  BY <1>7, <1>8, <1>9 DEF Sound

\* The journal is written to while a handler runs.
LEMMA AppendStep ==
    ASSUME Sound, JournalKept, JournalAppend
    PROVE  Sound'
<1> USE DEF fileVars, linkVars, boxVars, Garbage
<1>1. /\ task = "journal" /\ (Written \/ NotWritten)
      /\ UNCHANGED <<durable, linkVars, boxVars, rounds, handed>>
  BY DEF JournalAppend
<1>2. /\ rounds \in Nat /\ rounds > 0
      /\ \A r \in missed : r \in 1..rounds
  BY <1>1 DEF Sound, TypeOK, JournalKept
<1>3. journal' \in Seq(Nat)
  <2>1. journal' \in {journal, Append(journal, rounds), Append(journal, Garbage)}
    BY <1>1 DEF Written, NotWritten
  <2>2. journal \in Seq(Nat)
    BY DEF Sound, TypeOK
  <2>3. Append(journal, rounds) \in Seq(Nat) /\ Append(journal, Garbage) \in Seq(Nat)
    BY <1>2, <2>2
  <2> QED
    BY <2>1, <2>2, <2>3
<1>4. missed' \subseteq 1..rounds
  <2>1. \A r \in missed' : r \in missed \/ r = rounds
    BY <1>1 DEF Written, NotWritten
  <2> QED
    BY <1>2, <2>1
<1>5. faults' \in Nat
  <2>1. faults \in Nat
    BY DEF Sound, TypeOK
  <2>2. CASE Written
    BY <2>1, <2>2 DEF Written
  <2>3. CASE NotWritten
    <3>1. faults' = faults + 1
      BY <2>3 DEF NotWritten
    <3> QED
      BY <2>1, <3>1
  <2> QED
    BY <1>1, <2>2, <2>3
<1>6. torn' \in BOOLEAN
  BY <1>1 DEF Written, NotWritten, Sound, TypeOK
<1>7. task' \in {"none", "journal", "trim", "report"}
  BY <1>1 DEF Written, NotWritten
<1>8. TypeOK'
  BY <1>1, <1>3, <1>4, <1>5, <1>6, <1>7 DEF Sound, TypeOK
<1>9. OneThread'
  BY <1>1, <1>7 DEF Sound, OneThread
<1>10. Informed'
  BY <1>1 DEF Sound, Informed, Current
<1> QED
  BY <1>8, <1>9, <1>10 DEF Sound

LEMMA TrimStep ==
    ASSUME Sound, JournalKept, JournalTrim
    PROVE  Sound'
<1> USE DEF linkVars, boxVars, history
<1>1. /\ task = "trim" /\ journal' = Newest /\ task' = "report"
      /\ UNCHANGED <<durable, linkVars, torn, boxVars, history, faults>>
  BY DEF JournalTrim
<1>2. journal' \in Seq(Nat)
  <2>1. journal \in Seq(Nat) /\ Cap \in Nat \ {0} /\ Len(journal) > Cap
    BY <1>1, UplinkAssumption DEF UplinkAssumption, Sound, TypeOK, JournalKept
  <2> QED
    BY <1>1, <2>1 DEF Newest
<1>3. TypeOK'
  BY <1>1, <1>2 DEF Sound, TypeOK
<1>4. OneThread' /\ Informed'
  BY <1>1 DEF Sound, OneThread, Informed, Current
<1> QED
  BY <1>3, <1>4 DEF Sound

LEMMA ReportStep ==
    ASSUME Sound, JournalKept, Report
    PROVE  Sound'
<1> USE DEF fileVars, boxVars
<1>1. PICK n \in 0..1 :
        /\ Tell(<<BitCompleted(rounds)>>, n)
        /\ handed' = IF stage = "up" /\ durable /\ n = 1 THEN handed \cup {rounds}
                     ELSE handed
  BY DEF Report
<1>2. /\ task = "report" /\ task' = "none"
      /\ UNCHANGED <<durable, wait, backoff, position, fileVars, boxVars, rounds,
                     missed>>
  BY DEF Report
<1>3. rounds \in Nat /\ rounds > 0 /\ BitCompleted(rounds) \in Frame
  BY <1>2, FrameTypes DEF Sound, TypeOK, JournalKept
<1>4. /\ view' \in View /\ alive' \in BOOLEAN /\ faults' \in Nat
      /\ stage' \in {stage, "down"}
      /\ durable /\ alive' /\ stage' # "down" =>
           alive /\ view' = Seen(view, BitCompleted(rounds))
  BY <1>1, <1>3, TellOne DEF Sound
<1>5. Seen(view, BitCompleted(rounds)) = view
  BY DEF Seen, BitCompleted
<1>6. handed' \cup missed' \subseteq 1..rounds
  BY <1>1, <1>2, <1>3 DEF Sound, TypeOK
<1>7. TypeOK'
  BY <1>2, <1>4, <1>6 DEF Sound, TypeOK
<1>8. OneThread'
  BY <1>2, <1>4 DEF Sound, OneThread
<1>9. Informed'
  BY <1>2, <1>4, <1>5 DEF Sound, Informed, Current
<1> QED
  BY <1>7, <1>8, <1>9 DEF Sound

\* The Terrarium's handlers.
LEMMA LoadStep ==
    ASSUME Sound, Load \/ NotLoaded \/ UnloadRoom
    PROVE  Sound'
<1> USE DEF fileVars, history
<1>1. PICK t \in Terraria \ {"ready"}, n \in 0..1 :
        terrarium' = t /\ Tell(<<StateChanged(engine, t)>>, n)
  BY DEF Load, NotLoaded, UnloadRoom, Terraria
<1>2. UNCHANGED <<durable, wait, backoff, position, fileVars, task, engine, room,
                  history>>
  BY DEF Load, NotLoaded, UnloadRoom
<1>3. loads' \in Nat
  BY DEF Load, NotLoaded, UnloadRoom, Sound, TypeOK
<1>4. unloading' \in RoomName \cup {None}
  BY DEF Load, NotLoaded, UnloadRoom, Sound, TypeOK
<1>5. stage \in {"down", "up"}
  BY DEF Load, NotLoaded, UnloadRoom, Quiet, Sound, OneThread
<1>6. t = "unloading" => room \in RoomName
  BY <1>1 DEF Load, NotLoaded, UnloadRoom, Sound, OneThread
<1>7. /\ view' \in View /\ alive' \in BOOLEAN /\ faults' \in Nat
      /\ stage' \in {stage, "down"}
      /\ durable /\ alive' /\ stage' # "down" =>
           /\ alive /\ view'.engine = engine /\ view'.terrarium = t
           /\ view'.room = view.room
  BY <1>1, StateTold DEF Sound, TypeOK
<1>8. TypeOK'
  BY <1>1, <1>2, <1>3, <1>4, <1>7 DEF Sound, TypeOK
<1>9. OneThread'
  BY <1>1, <1>2, <1>5, <1>6, <1>7 DEF Sound, OneThread
<1>10. Informed'
  BY <1>1, <1>2, <1>7 DEF Informed, Current
<1> QED
  BY <1>8, <1>9, <1>10 DEF Sound

LEMMA LoadedStep ==
    ASSUME Sound, NEW name \in RoomName, Loaded(name)
    PROVE  Sound'
<1> USE DEF fileVars, history
<1> DEFINE f == StateChanged(engine, "ready")
           g == RoomLoaded(name)
<1>1. PICK n \in 0..2 : Tell(<<f, g>>, n)
  BY DEF Loaded
<1>2. /\ terrarium = "loading" /\ terrarium' = "ready" /\ room' = name
      /\ UNCHANGED <<durable, wait, backoff, position, fileVars, task, engine,
                     unloading, loads, history>>
  BY DEF Loaded
<1>3. view \in View /\ engine \in Engines /\ "ready" \in Terraria
  BY DEF Sound, TypeOK, Terraria
<1>4. f \in Frame /\ g \in Frame
  BY <1>3, FrameTypes
<1>5. LET seen == Seen(Seen(view, f), g)
      IN  seen.engine = engine /\ seen.terrarium = "ready" /\ seen.room = name
  BY <1>3, StateIsSeen, RoomIsSeen
<1> HIDE DEF f, g
<1>6. /\ <<f, g>> \in Frames /\ Len(<<f, g>>) = 2
      /\ SeenOf(view, <<f, g>>, 2) = Seen(Seen(view, f), g)
  BY <1>4, TwoFrames
<1>7. /\ view' \in View /\ alive' \in BOOLEAN /\ faults' \in Nat
      /\ stage' \in {stage, "down"}
      /\ durable /\ alive' /\ stage' # "down" => view' = Seen(Seen(view, f), g)
  BY <1>1, <1>6, TellOutcome DEF Sound
<1>8. TypeOK'
  BY <1>2, <1>3, <1>7 DEF Sound, TypeOK
<1>9. OneThread'
  BY <1>2, <1>7 DEF Sound, OneThread
<1>10. Informed'
  BY <1>2, <1>5, <1>7 DEF Informed, Current
<1> QED
  BY <1>8, <1>9, <1>10 DEF Sound

LEMMA UnloadedStep ==
    ASSUME Sound, UnloadedRoom
    PROVE  Sound'
<1> USE DEF fileVars, history
<1>1. PICK n \in 0..Len(Gone) :
        Tell(Gone, n) /\ unloading' = IF n = 0 THEN unloading ELSE None
  BY DEF UnloadedRoom
<1>2. /\ terrarium = "unloading" /\ terrarium' = "no_room" /\ room' = None
      /\ UNCHANGED <<durable, wait, backoff, position, fileVars, task, engine, loads,
                     history>>
  BY DEF UnloadedRoom
<1>3. Gone \in Frames
      /\ LET seen == SeenOf(view, Gone, Len(Gone))
         IN  seen.engine = engine /\ seen.terrarium = "no_room"
  BY GoneTells DEF Sound
<1>4. /\ view' \in View /\ alive' \in BOOLEAN /\ faults' \in Nat
      /\ stage' \in {stage, "down"}
      /\ durable /\ alive' /\ stage' # "down" => view' = SeenOf(view, Gone, Len(Gone))
  BY <1>1, <1>3, TellOutcome DEF Sound
<1>5. unloading' \in RoomName \cup {None}
  BY <1>1 DEF Sound, TypeOK
<1>6. TypeOK'
  BY <1>2, <1>4, <1>5 DEF Sound, TypeOK, Terraria
<1>7. OneThread'
  BY <1>2, <1>4 DEF Sound, OneThread
<1>8. Informed'
  BY <1>2, <1>3, <1>4 DEF Informed, Current
<1> QED
  BY <1>6, <1>7, <1>8 DEF Sound

\* The process dies.
LEMMA CrashStep ==
    ASSUME Sound, JournalKept, Crash
    PROVE  Sound'
<1>1. /\ stage' = "down" /\ alive' = FALSE
      /\ wait' = 0 /\ backoff' = InitialBackoff /\ position' = 0
      /\ engine' = "idle" /\ terrarium' = "no_room" /\ room' = None
      /\ unloading' = None /\ task' = "none"
      /\ UNCHANGED <<durable, view, loads, rounds, handed>>
  BY DEF Crash
<1>2. rounds \in Nat /\ \A r \in Kept : r \in 1..rounds
  BY LinesAreRounds DEF Sound, Kept
<1>3. missed' \subseteq 1..rounds
  <2>1. \A r \in missed' :
          \/ r \in missed \/ r \in Kept
          \/ task = "journal" /\ r = rounds
    <3>1. \/ missed' = missed \cup Kept
          \/ missed' = IF task = "journal" THEN missed \cup {rounds} ELSE missed
      BY Zenon DEF Crash
    <3> QED
      BY <3>1
  <2>2. \A r \in missed : r \in 1..rounds
    BY DEF Sound, TypeOK
  <2>3. task = "journal" => rounds \in 1..rounds
    BY <1>2 DEF JournalKept
  <2> QED
    BY <1>2, <2>1, <2>2, <2>3
<1>4. faults' \in Nat
  <2>1. faults' = faults + 1 /\ faults \in Nat
    BY DEF Crash, Sound, TypeOK
  <2> QED
    BY <2>1
<1>5. journal' \in Seq(Nat) /\ torn' \in BOOLEAN
  <2>1. \/ journal' = <<>> /\ torn' = FALSE
        \/ UNCHANGED <<journal, torn>>
    BY Zenon DEF Crash, fileVars
  <2>2. journal \in Seq(Nat) /\ torn \in BOOLEAN
    BY DEF Sound, TypeOK
  <2>3. journal' \in Seq(Nat)
    <3>1. CASE journal' = <<>>
      BY <3>1
    <3>2. CASE journal' = journal
      BY <2>2, <3>2
    <3> QED
      BY <2>1, <3>1, <3>2
  <2>4. torn' \in BOOLEAN
    <3>1. torn' = FALSE \/ torn' = torn
      BY <2>1
    <3> QED
      BY <2>2, <3>1
  <2> QED
    BY <2>3, <2>4
<1>6. wait' \in 0..MaxBackoff /\ backoff' \in 1..MaxBackoff /\ position' \in Nat
  BY <1>1, UplinkAssumption DEF UplinkAssumption
<1>7. TypeOK'
  BY <1>1, <1>3, <1>4, <1>5, <1>6 DEF Sound, TypeOK, Engines, Terraria
<1>8. OneThread' /\ Informed'
  BY <1>1 DEF OneThread, Informed
<1> QED
  BY <1>7, <1>8 DEF Sound

LEMMA SoundStep ==
    ASSUME Sound, JournalKept, [Next]_vars
    PROVE  Sound'
<1>1. CASE Next
  BY <1>1, PlumbingStep, PresentStep, ResyncStep, ReplayStep, RefuseStep, RunsStep,
     CompleteStep, AppendStep, TrimStep, ReportStep, LoadStep, LoadedStep, UnloadedStep,
     CrashStep DEF Next
<1>2. CASE UNCHANGED vars
  BY <1>2 DEF vars, linkVars, fileVars, boxVars, history, Sound, TypeOK, OneThread,
              Informed, Current
<1> QED
  BY <1>1, <1>2

LEMMA SoundInit ==
    ASSUME Init
    PROVE  Sound
<1> USE UplinkAssumption DEF UplinkAssumption, Init, Garbage
<1>1. journal \in Seq(Nat)
  <2>1. CASE journal = <<>>
    BY <2>1
  <2>2. CASE journal = <<Garbage>>
    BY <2>2
  <2> QED
    BY <2>1, <2>2
<1>2. view \in View
  BY DEF View, Engines, Terraria
<1>3. wait \in 0..MaxBackoff /\ backoff \in 1..MaxBackoff /\ position \in Nat
  OBVIOUS
<1>4. {rounds, loads, faults} \subseteq Nat /\ handed \cup missed \subseteq 1..rounds
  OBVIOUS
<1>5. durable \in BOOLEAN /\ alive \in BOOLEAN /\ torn \in BOOLEAN
  OBVIOUS
<1>6. TypeOK
  BY <1>1, <1>2, <1>3, <1>4, <1>5 DEF TypeOK, Engines, Terraria
<1> QED
  BY <1>6 DEF Sound, OneThread, Informed

-----------------------------------------------------------------------------
(* The journal.                                                            *)

\* A step that leaves the file, the round and what is to be done with it alone.
LEMMA JournalStays ==
    ASSUME Sound, JournalKept, UNCHANGED <<journal, task, rounds, missed>>,
           handed \subseteq handed', position' \in {position, 0}
    PROVE  JournalKept'
<1>1. /\ Entries' = Entries /\ Kept' = Kept /\ LinesBehind' = LinesBehind
      /\ Len(journal') = Len(journal)
  BY DEF Entries, Kept, LinesBehind
<1>2. \A i \in Entries : i \in 1..Len(journal)
  BY LinesAreRounds DEF Sound
<1>3. Accounted => Accounted'
  BY <1>1 DEF Accounted
<1>4. \A i \in Entries' : i <= position' => journal'[i] \in handed'
  BY <1>1, <1>2 DEF JournalKept, Sound, TypeOK
<1> QED
  BY <1>1, <1>3, <1>4 DEF JournalKept

LEMMA ReplayKeeps ==
    ASSUME Sound, JournalKept, Replay
    PROVE  JournalKept'
<1>1. PICK i \in Unsent, n \in 0..1 :
        /\ \A j \in Unsent : i <= j
        /\ IF n = 1
           THEN position' = i /\ handed' = handed \cup {journal[i]}
           ELSE Established /\ UNCHANGED handed
  BY DEF Replay
<1>2. UNCHANGED <<journal, task, rounds, missed>>
  BY DEF Replay, fileVars
<1>3. CASE n = 0
  BY <1>1, <1>2, <1>3, JournalStays DEF Established
<1>4. CASE n = 1
  <2>1. /\ Entries' = Entries /\ Kept' = Kept /\ LinesBehind' = LinesBehind
        /\ Len(journal') = Len(journal)
    BY <1>2 DEF Entries, Kept, LinesBehind
  <2>2. Accounted => Accounted'
    BY <1>1, <1>2, <1>4, <2>1 DEF Accounted
  <2>3. ASSUME NEW j \in Entries, j <= position'
        PROVE  journal[j] \in handed'
    <3>1. j \in Nat /\ i \in Nat /\ position \in Nat
      BY LinesAreRounds DEF Sound, Unsent
    <3>2. CASE j <= position
      BY <1>1, <1>4, <3>2 DEF JournalKept
    <3>3. CASE ~(j <= position)
      <4>1. j \in Unsent
        BY <3>1, <3>3 DEF Unsent
      <4>2. j = i
        BY <1>1, <1>4, <2>3, <3>1, <4>1
      <4> QED
        BY <1>1, <1>4, <4>2
    <3> QED
      BY <3>2, <3>3
  <2> QED
    BY <1>2, <2>1, <2>2, <2>3 DEF JournalKept
<1> QED
  BY <1>3, <1>4

\* Nothing is left to send: all that the file reports was handed over.
LEMMA AllHanded ==
    ASSUME Sound, JournalKept, Unsent = {}
    PROVE  Kept \subseteq handed
<1>1. ASSUME NEW i \in Entries
      PROVE  journal[i] \in handed
  <2>1. i \in Nat /\ position \in Nat
    BY LinesAreRounds DEF Sound
  <2>2. i <= position
    BY <2>1 DEF Unsent
  <2> QED
    BY <2>2 DEF JournalKept
<1> QED
  BY <1>1 DEF Kept

\* An empty file is in order if the last round is accounted for elsewhere.
LEMMA EmptyIsKept ==
    ASSUME TypeOK, journal' = <<>>, task' = "none", UNCHANGED rounds,
           rounds > 0 => rounds \in handed' \cup missed'
    PROVE  JournalKept'
<1>1. Entries' = {} /\ Len(journal') = 0 /\ LinesBehind' = 0
  BY DEF Entries, LinesBehind
<1>2. Accounted'
  BY DEF Accounted
<1> QED
  BY <1>1, <1>2 DEF JournalKept, TypeOK

LEMMA ClearKeeps ==
    ASSUME Sound, JournalKept, Clear
    PROVE  JournalKept'
<1>1. /\ stage = "replay" /\ Unsent = {} /\ journal' = <<>>
      /\ UNCHANGED <<task, rounds, handed, missed>>
  BY DEF Clear, history
<1>2. task = "none"
  BY <1>1 DEF Sound, OneThread
<1>3. rounds > 0 => rounds \in handed \cup missed
  BY <1>1, <1>2, AllHanded DEF JournalKept, Accounted
<1> QED
  BY <1>1, <1>2, <1>3, EmptyIsKept DEF Sound

LEMMA CompleteKeeps ==
    ASSUME Sound, JournalKept, Complete
    PROVE  JournalKept'
<1>1. /\ task = "none" /\ rounds' = rounds + 1
      /\ UNCHANGED <<journal, position, handed>>
      /\ task' = "journal" \/ (task' = "none" /\ rounds' \in missed')
  BY DEF Complete, Quiet, fileVars
<1>2. rounds \in Nat /\ Len(journal) \in Nat
      /\ \A i \in Entries : i \in Nat /\ journal[i] \in Nat
  BY LinesAreRounds DEF Sound
<1>3. /\ Entries' = Entries /\ Kept' = Kept /\ LinesBehind = 0 /\ LinesBehind' \in {0, 1}
      /\ Len(journal') = Len(journal)
  BY <1>1 DEF Entries, Kept, LinesBehind
<1>4. \A i \in Entries' : journal'[i] + (Len(journal') - i) + LinesBehind' <= rounds'
  BY <1>1, <1>2, <1>3 DEF JournalKept
<1>5. Len(journal') + LinesBehind' <= rounds' + 1 /\ rounds' > 0
  BY <1>1, <1>2, <1>3 DEF JournalKept
<1>6. task' # "journal" => Accounted'
  BY <1>1 DEF Accounted
<1>7. \A i \in Entries' : i <= position' => journal'[i] \in handed'
  BY <1>1, <1>3 DEF JournalKept
<1> QED
  BY <1>1, <1>4, <1>5, <1>6, <1>7 DEF JournalKept

\* What a line adds to the reports.
LEMMA LineIsKept ==
    ASSUME TypeOK, NEW line \in Nat, journal' = Append(journal, line)
    PROVE  Kept' = (Kept \cup {line}) \ {Garbage}
<1> DEFINE last == Len(journal) + 1
<1>1. /\ Len(journal) \in Nat /\ DOMAIN journal = 1..Len(journal)
      /\ DOMAIN journal' = 1..last /\ journal'[last] = line
      /\ \A i \in 1..Len(journal) : journal'[i] = journal[i]
  BY DEF TypeOK
<1>2. ASSUME NEW r \in Kept' PROVE r \in (Kept \cup {line}) \ {Garbage}
  <2>1. PICK i \in 1..last : r = journal'[i] /\ r # Garbage
    BY <1>1 DEF Kept, Entries, Readable
  <2>2. CASE i = last
    BY <1>1, <2>1, <2>2
  <2>3. CASE i # last
    <3>1. i \in 1..Len(journal)
      BY <1>1, <2>3
    <3> QED
      BY <1>1, <2>1, <3>1 DEF Kept, Entries, Readable
  <2> QED
    BY <2>2, <2>3
<1>3. ASSUME NEW r \in Kept PROVE r \in Kept' /\ r # Garbage
  <2>1. PICK i \in 1..Len(journal) : r = journal[i] /\ r # Garbage
    BY <1>1 DEF Kept, Entries, Readable
  <2>2. i \in 1..last /\ journal'[i] = r
    BY <1>1, <2>1
  <2> QED
    BY <1>1, <2>1, <2>2 DEF Kept, Entries, Readable
<1>4. ASSUME line # Garbage PROVE line \in Kept'
  <2>1. last \in 1..last
    BY <1>1
  <2> QED
    BY <1>1, <1>4, <2>1 DEF Kept, Entries, Readable
<1> QED
  BY <1>2, <1>3, <1>4

\* A line is added: every other one is one line further from the end, and the
\* round is no longer behind the file.
LEMMA LineIsAdded ==
    ASSUME Sound, JournalKept, task = "journal", NEW line \in {Garbage, rounds},
           journal' = Append(journal, line), UNCHANGED <<rounds, position>>,
           task' \in {"trim", "report"}
    PROVE  /\ \A i \in Entries' :
                /\ i \in Nat /\ journal'[i] \in Nat
                /\ journal'[i] + (Len(journal') - i) <= rounds
           /\ Len(journal') \in Nat /\ Len(journal') <= rounds + 1
           /\ \A i \in Entries' : i <= position' => journal'[i] \in handed'
<1>1. /\ rounds \in Nat /\ rounds > 0 /\ Len(journal) \in Nat /\ journal \in Seq(Nat)
      /\ \A i \in Entries :
           i \in 1..Len(journal) /\ journal[i] \in Nat /\ journal[i] \in 1..rounds
  BY LinesAreRounds DEF Sound, TypeOK, JournalKept
<1>2. LinesBehind = 1
  BY DEF LinesBehind
<1>3. /\ line \in Nat
      /\ Len(journal') = Len(journal) + 1
      /\ journal'[Len(journal) + 1] = line
      /\ \A i \in 1..Len(journal) : journal'[i] = journal[i]
      /\ DOMAIN journal' = 1..Len(journal) + 1
  BY <1>1 DEF Garbage
<1>4. ASSUME NEW i \in Entries'
      PROVE  \/ i \in Entries /\ journal'[i] = journal[i]
             \/ i = Len(journal) + 1 /\ line = rounds /\ journal'[i] = rounds
  <2>1. i \in 1..Len(journal) + 1 /\ journal'[i] # Garbage
    BY <1>3 DEF Entries, Readable
  <2>2. CASE i = Len(journal) + 1
    BY <1>3, <2>1, <2>2
  <2>3. CASE i # Len(journal) + 1
    <3>1. i \in 1..Len(journal)
      BY <1>1, <2>1, <2>3
    <3> QED
      BY <1>1, <1>3, <2>1, <3>1 DEF Entries, Readable
  <2> QED
    BY <2>2, <2>3
<1>5. ASSUME NEW i \in Entries'
      PROVE  journal'[i] + (Len(journal') - i) <= rounds
  <2>1. CASE i \in Entries /\ journal'[i] = journal[i]
    <3>1. journal[i] + (Len(journal) - i) + 1 <= rounds
      BY <1>2, <2>1 DEF JournalKept
    <3>2. i \in Nat /\ journal[i] \in Nat /\ Len(journal) \in Nat /\ rounds \in Nat
      BY <1>1, <2>1
    <3>3. Len(journal') = Len(journal) + 1
      BY <1>3
    <3> QED
      BY <2>1, <3>1, <3>2, <3>3
  <2>2. CASE i = Len(journal) + 1 /\ journal'[i] = rounds
    BY <1>1, <1>3, <2>2
  <2> QED
    BY <1>4, <2>1, <2>2
<1>6. Len(journal') <= rounds + 1
  BY <1>1, <1>2, <1>3 DEF JournalKept
<1>7. position = 0
  BY DEF Sound, OneThread
<1>8. \A i \in Entries' : ~(i <= position')
  BY <1>1, <1>4, <1>7
<1> QED
  <2>1. ASSUME NEW i \in Entries'
        PROVE  /\ i \in Nat /\ journal'[i] \in Nat
               /\ journal'[i] + (Len(journal') - i) <= rounds
    BY <1>1, <1>3, <1>4, <1>5
  <2>2. Len(journal') \in Nat
    BY <1>1, <1>3
  <2>3. \A i \in Entries' : i <= position' => journal'[i] \in handed'
    BY <1>8
  <2> QED
    BY <1>6, <2>1, <2>2, <2>3, Zenon

LEMMA AppendKeeps ==
    ASSUME Sound, JournalKept, JournalAppend
    PROVE  JournalKept'
<1>1. /\ task = "journal" /\ UNCHANGED <<position, rounds, handed>>
      /\ rounds \in Nat /\ rounds > 0
  BY DEF JournalAppend, linkVars, Sound, TypeOK, JournalKept
<1>2. /\ task' \in {"trim", "report"}
      /\ task' = "trim" => Len(journal') > Cap
  BY DEF JournalAppend, Written, NotWritten
<1>3. \/ UNCHANGED journal /\ rounds \in missed'
      \/ journal' = Append(journal, Garbage) /\ rounds \in missed'
      \/ journal' = Append(journal, rounds)
  BY DEF JournalAppend, Written, NotWritten, fileVars
<1>4. ASSUME rounds \in Kept' \/ rounds \in missed'
      PROVE  Accounted'
  BY <1>1, <1>4 DEF Accounted
<1>5. CASE UNCHANGED journal /\ rounds \in missed'
  <2>1. /\ Entries' = Entries /\ Kept' = Kept /\ Len(journal') = Len(journal)
        /\ LinesBehind = 1 /\ LinesBehind' = 0
    BY <1>1, <1>2, <1>5 DEF Entries, Kept, LinesBehind
  <2>2. Len(journal) \in Nat
        /\ \A i \in Entries : i \in Nat /\ journal[i] \in Nat
    BY LinesAreRounds DEF Sound
  <2>3. \A i \in Entries' : journal'[i] + (Len(journal') - i) + LinesBehind' <= rounds'
    BY <1>1, <1>5, <2>1, <2>2 DEF JournalKept
  <2>4. Len(journal') + LinesBehind' <= rounds' + 1
    BY <1>1, <2>1, <2>2 DEF JournalKept
  <2>5. \A i \in Entries' : i <= position' => journal'[i] \in handed'
    BY <1>1, <1>5, <2>1 DEF JournalKept
  <2> QED
    BY <1>1, <1>2, <1>4, <1>5, <2>3, <2>4, <2>5 DEF JournalKept
<1>6. CASE \/ journal' = Append(journal, Garbage) /\ rounds \in missed'
           \/ journal' = Append(journal, rounds)
  <2>1. /\ \A i \in Entries' :
             /\ i \in Nat /\ journal'[i] \in Nat
             /\ journal'[i] + (Len(journal') - i) <= rounds
        /\ Len(journal') \in Nat /\ Len(journal') <= rounds + 1
        /\ \A i \in Entries' : i <= position' => journal'[i] \in handed'
    BY <1>1, <1>2, <1>6, LineIsAdded
  <2>2. LinesBehind' = 0
    BY <1>2 DEF LinesBehind
  <2>3. \A i \in Entries' : journal'[i] + (Len(journal') - i) + LinesBehind' <= rounds'
    BY <1>1, <2>1, <2>2
  <2>4. Len(journal') + LinesBehind' <= rounds' + 1
    BY <1>1, <2>1, <2>2
  <2>5. rounds \in Kept' \/ rounds \in missed'
    BY <1>1, <1>6, LineIsKept DEF Sound, Garbage
  <2> QED
    BY <1>1, <1>2, <1>4, <2>1, <2>3, <2>4, <2>5 DEF JournalKept
<1> QED
  BY <1>3, <1>5, <1>6

\* The newest lines, each where it was but for those that are dropped.
LEMMA NewestLines ==
    ASSUME Sound, JournalKept, task = "trim"
    PROVE  /\ Len(Newest) = Cap /\ DOMAIN Newest = 1..Cap
           /\ \A i \in 1..Cap : Newest[i] = journal[i + (Len(journal) - Cap)]
<1>1. Cap \in Nat \ {0} /\ journal \in Seq(Nat) /\ Len(journal) \in Nat
      /\ Len(journal) > Cap
  BY UplinkAssumption DEF UplinkAssumption, Sound, TypeOK, JournalKept
<1> QED
  BY <1>1 DEF Newest

\* A report that the rewrite drops has Cap newer lines behind it.
LEMMA TrimKeeps ==
    ASSUME Sound, JournalKept, JournalTrim
    PROVE  JournalKept' /\ Kept' \subseteq Kept
           /\ \A r \in Kept \ Kept' : r + Cap <= rounds
<1> DEFINE d == Len(journal) - Cap
<1>1. /\ task = "trim" /\ task' = "report" /\ journal' = Newest
      /\ UNCHANGED <<position, rounds, handed, missed>>
  BY DEF JournalTrim, linkVars, history
<1>2. /\ Cap \in Nat /\ Cap > 0
      /\ Len(journal) \in Nat /\ Len(journal) > Cap
      /\ rounds \in Nat /\ rounds > 0
  BY <1>1, UplinkAssumption DEF UplinkAssumption, Sound, TypeOK, JournalKept
<1>3. DOMAIN journal = 1..Len(journal) /\ LinesBehind = 0 /\ LinesBehind' = 0
  BY <1>1 DEF Sound, TypeOK, LinesBehind
<1>4. /\ Len(journal') = Cap /\ DOMAIN journal' = 1..Cap
      /\ \A i \in 1..Cap : journal'[i] = journal[i + d]
  BY <1>1, NewestLines
<1>5. \A i \in Entries : i \in 1..Len(journal) /\ journal[i] \in 1..rounds
  BY LinesAreRounds DEF Sound
<1>6. ASSUME NEW i \in Entries'
      PROVE  i \in 1..Cap /\ i + d \in Entries /\ journal'[i] = journal[i + d]
  <2>1. i \in 1..Cap /\ journal'[i] = journal[i + d] /\ journal'[i] # Garbage
    BY <1>4 DEF Entries, Readable
  <2>2. i + d \in 1..Len(journal)
    BY <1>2, <2>1
  <2> QED
    BY <1>3, <2>1, <2>2 DEF Entries, Readable
<1>7. ASSUME NEW i \in Entries, i > d
      PROVE  i - d \in Entries' /\ journal'[i - d] = journal[i]
  <2>1. i - d \in 1..Cap /\ (i - d) + d = i /\ journal[i] # Garbage
    BY <1>2, <1>5, <1>7 DEF Entries, Readable
  <2> QED
    BY <1>4, <2>1 DEF Entries, Readable
<1> HIDE DEF d
<1>8. Kept' \subseteq Kept
  BY <1>6 DEF Kept
<1>9. ASSUME NEW r \in Kept \ Kept'
      PROVE  r + Cap <= rounds
  <2>1. PICK i \in Entries : r = journal[i]
    BY DEF Kept
  <2>2. ~(i > d)
    BY <1>7, <2>1 DEF Kept
  <2>3. r + (Len(journal) - i) + LinesBehind <= rounds
    BY <2>1 DEF JournalKept
  <2> QED
    BY <1>2, <1>5, <1>3, <2>1, <2>2, <2>3 DEF d
<1>10. JournalKept'
  <2>1. ASSUME NEW i \in Entries'
        PROVE  journal'[i] + (Len(journal') - i) + LinesBehind' <= rounds'
    <3>1. journal[i + d] + (Len(journal) - (i + d)) + LinesBehind <= rounds
      BY <1>6 DEF JournalKept
    <3>2. journal[i + d] \in Nat
      BY <1>2, <1>5, <1>6
    <3> QED
      BY <1>1, <1>2, <1>4, <1>6, <1>3, <3>1, <3>2 DEF d
  <2>2. Cap <= rounds + 1
    BY <1>2, <1>3 DEF JournalKept
  <2>3. Accounted'
    <3>1. rounds \in Kept \cup handed \cup missed
      BY <1>1, <1>2 DEF JournalKept, Accounted
    <3>2. rounds \in Kept => rounds \in Kept'
      BY <1>2, <1>9
    <3> QED
      BY <1>1, <3>1, <3>2 DEF Accounted
  <2>4. position = 0
    BY <1>1 DEF Sound, OneThread
  <2>5. \A i \in Entries' : ~(i <= position')
    BY <1>1, <1>2, <1>6, <2>4
  <2> QED
    BY <1>1, <1>2, <1>4, <1>3, <2>1, <2>2, <2>3, <2>5 DEF JournalKept
<1> QED
  BY <1>8, <1>9, <1>10

LEMMA CrashKeeps ==
    ASSUME Sound, JournalKept, Crash
    PROVE  JournalKept'
<1>1. /\ task' = "none" /\ position' = 0 /\ UNCHANGED <<rounds, handed>>
      /\ \/ task = "trim" /\ journal' = <<>> /\ missed' = missed \cup Kept
         \/ /\ UNCHANGED journal
            /\ missed' = IF task = "journal" THEN missed \cup {rounds} ELSE missed
  BY DEF Crash, fileVars
<1>2. CASE task = "trim" /\ journal' = <<>> /\ missed' = missed \cup Kept
  <2>1. rounds > 0 => rounds \in handed' \cup missed'
    BY <1>1, <1>2 DEF JournalKept, Accounted
  <2> QED
    BY <1>1, <1>2, <2>1, EmptyIsKept DEF Sound
<1>3. CASE /\ UNCHANGED journal
           /\ missed' = IF task = "journal" THEN missed \cup {rounds} ELSE missed
  <2>1. /\ Entries' = Entries /\ Kept' = Kept /\ Len(journal') = Len(journal)
        /\ LinesBehind' = 0 /\ LinesBehind \in {0, 1}
    BY <1>1, <1>3 DEF Entries, Kept, LinesBehind
  <2>2. /\ rounds \in Nat /\ Len(journal) \in Nat
        /\ \A i \in Entries : i \in 1..Len(journal) /\ journal[i] \in Nat
    BY LinesAreRounds DEF Sound
  <2>3. \A i \in Entries' : journal'[i] + (Len(journal') - i) + LinesBehind' <= rounds'
    BY <1>1, <1>3, <2>1, <2>2 DEF JournalKept
  <2>4. Len(journal') + LinesBehind' <= rounds' + 1
    BY <1>1, <2>1, <2>2 DEF JournalKept
  <2>5. Accounted'
    BY <1>1, <1>3, <2>1 DEF JournalKept, Accounted
  <2>6. \A i \in Entries' : ~(i <= position')
    BY <1>1, <2>1, <2>2
  <2> QED
    BY <1>1, <2>3, <2>4, <2>5, <2>6 DEF JournalKept
<1> QED
  BY <1>1, <1>2, <1>3

LEMMA ReportKeeps ==
    ASSUME Sound, JournalKept, Report
    PROVE  JournalKept'
<1>1. /\ task = "report" /\ task' = "none" /\ handed \subseteq handed'
      /\ UNCHANGED <<journal, position, rounds, missed>>
  BY DEF Report, fileVars
<1>2. /\ Entries' = Entries /\ Kept' = Kept /\ LinesBehind' = LinesBehind
      /\ Len(journal') = Len(journal)
  BY <1>1 DEF Entries, Kept, LinesBehind
<1>3. Accounted'
  BY <1>1, <1>2 DEF JournalKept, Accounted
<1> QED
  BY <1>1, <1>2, <1>3 DEF JournalKept

\* The handlers that leave the journal to others.
LEMMA OthersKeep ==
    ASSUME Sound, JournalKept,
           \/ Connect \/ Present \/ Resync \/ Elapse \/ Vanish \/ Notice \/ Refuse
           \/ Run \/ Abort \/ Unload
           \/ Load \/ (\E name \in RoomName : Loaded(name)) \/ NotLoaded
           \/ UnloadRoom \/ UnloadedRoom
    PROVE  JournalKept' /\ UNCHANGED <<rounds, handed, missed, journal>>
<1>1. UNCHANGED <<journal, task, rounds, handed, missed>>
  BY DEF Connect, Present, Resync, Elapse, Vanish, Notice, Refuse, Run, Abort, Unload,
         Engine, Load, Loaded, NotLoaded, UnloadRoom, UnloadedRoom, fileVars, history
<1>2. position' \in {position, 0}
  BY DEF Connect, Present, Resync, Elapse, Vanish, Notice, Refuse, Run, Abort, Unload,
         Engine, Load, Loaded, NotLoaded, UnloadRoom, UnloadedRoom, Failed, Established
<1> QED
  BY <1>1, <1>2, JournalStays

LEMMA JournalStep ==
    ASSUME Sound, JournalKept, [Next]_vars
    PROVE  JournalKept'
<1>1. CASE Next
  BY <1>1, OthersKeep, ReplayKeeps, ClearKeeps, CompleteKeeps, AppendKeeps, TrimKeeps,
     ReportKeeps, CrashKeeps DEF Next
<1>2. CASE UNCHANGED vars
  <2>1. UNCHANGED <<journal, task, rounds, handed, missed, position>>
    BY <1>2 DEF vars, linkVars, fileVars, history
  <2> QED
    BY <2>1, JournalStays
<1> QED
  BY <1>1, <1>2

LEMMA JournalInit ==
    ASSUME Init
    PROVE  JournalKept
<1>1. task = "none" /\ rounds = 0 /\ LinesBehind = 0
  BY DEF Init, LinesBehind
<1>2. Entries = {}
  BY DEF Init, Entries, Readable, Garbage
<1>3. Len(journal) + LinesBehind <= rounds + 1
  <2>1. CASE journal = <<>>
    BY <1>1, <2>1
  <2>2. CASE journal = <<Garbage>>
    BY <1>1, <2>2
  <2> QED
    BY <2>1, <2>2 DEF Init
<1> QED
  BY <1>1, <1>2, <1>3 DEF JournalKept, Accounted

-----------------------------------------------------------------------------
(* The theorems.                                                           *)

LEMMA UplinkIsSound == Spec => [](Sound /\ JournalKept)
<1>1. Init => Sound /\ JournalKept
  BY SoundInit, JournalInit
<1>2. Sound /\ JournalKept /\ [Next]_vars => (Sound /\ JournalKept)'
  BY SoundStep, JournalStep
<1> QED
  BY <1>1, <1>2, PTL DEF Spec

\* Every variable of the uplink keeps its type, and no round is handed over or
\* missed that has not completed.
THEOREM TypeCorrect == Spec => []TypeOK
<1>1. Sound /\ JournalKept => TypeOK
  BY DEF Sound
<1> QED
  BY <1>1, UplinkIsSound, PTL

\* Whoever listens on an established connection knows what the box is doing and
\* which Room it has loaded: connecting resends both, and every handler that
\* changes them tells both or gives the connection up.
THEOREM PictureStaysCurrent == Spec => []PictureIsCurrent
<1>1. Sound /\ JournalKept => PictureIsCurrent
  BY DEF Sound, Informed, Current, PictureIsCurrent
<1> QED
  BY <1>1, UplinkIsSound, PTL

-----------------------------------------------------------------------------
(* The outbox.                                                             *)

\* A step of the uplink is a step of the outbox, or none.
LEMMA BoxStays ==
    ASSUME UNCHANGED <<rounds, journal, handed, missed>>
    PROVE  UNCHANGED Box!boxVars
BY DEF Box!boxVars, Kept, Entries

LEMMA CompleteIsBox ==
    ASSUME Sound, JournalKept, Complete
    PROVE  Box!Complete
<1>1. /\ task = "none" /\ rounds' = rounds + 1
      /\ UNCHANGED <<journal, handed>>
      /\ missed' \in {missed, missed \cup {rounds + 1}}
  BY DEF Complete, Quiet, fileVars
<1>2. Kept' = Kept
  BY <1>1 DEF Kept, Entries
<1> QED
  BY <1>1, <1>2 DEF Box!Complete, JournalKept, Accounted

\* While a round's handler writes, no line stands for that round.
LEMMA UnwrittenRound ==
    ASSUME Sound, JournalKept, task = "journal"
    PROVE  rounds \notin Kept
<1>1. ASSUME NEW i \in Entries PROVE journal[i] # rounds
  <2>1. journal[i] + (Len(journal) - i) + 1 <= rounds
    BY DEF JournalKept, LinesBehind
  <2>2. i \in 1..Len(journal) /\ Len(journal) \in Nat /\ journal[i] \in Nat
        /\ rounds \in Nat
    BY LinesAreRounds DEF Sound
  <2> QED
    BY <2>1, <2>2
<1> QED
  BY <1>1 DEF Kept

LEMMA AppendIsBox ==
    ASSUME Sound, JournalKept, JournalAppend
    PROVE  Box!Miss \/ Box!Keep
<1>1. /\ task = "journal" /\ UNCHANGED <<rounds, handed>>
      /\ rounds \in Nat /\ rounds > 0
  BY DEF JournalAppend, Sound, TypeOK, JournalKept
<1>2. rounds \notin Kept
  BY <1>1, UnwrittenRound
<1>3. Garbage \notin Kept
  BY DEF Kept, Entries, Readable
<1>4. \/ UNCHANGED journal /\ missed' = missed \cup {rounds}
      \/ journal' = Append(journal, Garbage) /\ missed' = missed \cup {rounds}
      \/ journal' = Append(journal, rounds) /\ UNCHANGED missed
  BY DEF JournalAppend, Written, NotWritten, fileVars
<1>5. CASE UNCHANGED journal /\ missed' = missed \cup {rounds}
  <2>1. Kept' = Kept
    BY <1>5 DEF Kept, Entries
  <2> QED
    BY <1>1, <1>2, <1>5, <2>1 DEF Box!Miss
<1>6. CASE journal' = Append(journal, Garbage) /\ missed' = missed \cup {rounds}
  <2>1. Kept' = (Kept \cup {Garbage}) \ {Garbage}
    BY <1>6, LineIsKept DEF Sound, Garbage
  <2>2. Kept' = Kept
    BY <1>3, <2>1
  <2> QED
    BY <1>1, <1>2, <1>6, <2>2 DEF Box!Miss
<1>7. CASE journal' = Append(journal, rounds) /\ UNCHANGED missed
  <2>1. Kept' = (Kept \cup {rounds}) \ {Garbage}
    BY <1>1, <1>7, LineIsKept DEF Sound
  <2>2. Kept' = (Kept \ {}) \cup {rounds}
    BY <1>1, <1>3, <2>1 DEF Garbage
  <2> QED
    BY <1>1, <1>7, <2>2 DEF Box!Keep
<1> QED
  BY <1>4, <1>5, <1>6, <1>7

LEMMA TrimIsBox ==
    ASSUME Sound, JournalKept, JournalTrim
    PROVE  Box!Trim
<1>1. Kept' \subseteq Kept /\ \A r \in Kept \ Kept' : r + Cap <= rounds
  BY TrimKeeps
<1>2. Kept \ Kept' \in SUBSET Box!Outdated /\ Kept' = Kept \ (Kept \ Kept')
  BY <1>1 DEF Box!Outdated
<1>3. UNCHANGED <<rounds, handed, missed>>
  BY DEF JournalTrim, history
<1> QED
  BY <1>2, <1>3 DEF Box!Trim

\* What a replay hands over is a report that is kept.
LEMMA ReplayIsBox ==
    ASSUME Sound, JournalKept, Replay
    PROVE  Box!Next \/ UNCHANGED Box!boxVars
<1>1. PICK i \in Unsent, n \in 0..1 :
        IF n = 1 THEN handed' = handed \cup {journal[i]} ELSE UNCHANGED handed
  BY DEF Replay
<1>2. UNCHANGED <<journal, rounds, missed>>
  BY DEF Replay, fileVars
<1>3. Kept' = Kept
  BY <1>2 DEF Kept, Entries
<1>4. i \in Entries /\ journal[i] \in 1..rounds /\ journal[i] > 0 /\ journal[i] \in Kept
  BY LinesAreRounds DEF Sound, Unsent, Kept
<1>5. CASE n = 1
  BY <1>1, <1>2, <1>3, <1>4, <1>5 DEF Box!Next, Box!Hand
<1>6. CASE n = 0
  BY <1>1, <1>2, <1>6, BoxStays
<1> QED
  BY <1>5, <1>6

LEMMA ReportIsBox ==
    ASSUME Sound, JournalKept, Report
    PROVE  Box!Next \/ UNCHANGED Box!boxVars
<1>1. handed' = handed \cup {rounds} \/ UNCHANGED handed
  BY DEF Report
<1>2. UNCHANGED <<journal, rounds, missed>>
  BY DEF Report, fileVars
<1>3. Kept' = Kept
  BY <1>2 DEF Kept, Entries
<1>4. rounds \in 1..rounds /\ rounds > 0
  BY DEF Report, Sound, TypeOK, JournalKept
<1>5. CASE handed' = handed \cup {rounds}
  BY <1>2, <1>3, <1>4, <1>5 DEF Box!Next, Box!Hand
<1>6. CASE UNCHANGED handed
  BY <1>2, <1>6, BoxStays
<1> QED
  BY <1>1, <1>5, <1>6

LEMMA ClearIsBox ==
    ASSUME Sound, JournalKept, Clear
    PROVE  Box!Settle
<1>1. Unsent = {} /\ journal' = <<>> /\ UNCHANGED <<rounds, handed, missed>>
  BY DEF Clear, history
<1>2. Kept' = {}
  BY <1>1 DEF Kept, Entries
<1> QED
  BY <1>1, <1>2, AllHanded DEF Box!Settle

\* A process that dies in the middle of a rewrite takes the file with it.
LEMMA CrashIsBox ==
    ASSUME Sound, JournalKept, Crash
    PROVE  Box!Next \/ UNCHANGED Box!boxVars
<1>1. UNCHANGED <<rounds, handed>>
      /\ \/ task = "trim" /\ journal' = <<>> /\ missed' = missed \cup Kept
         \/ /\ UNCHANGED journal
            /\ missed' = IF task = "journal" THEN missed \cup {rounds} ELSE missed
  BY DEF Crash, fileVars
<1>2. CASE task = "trim" /\ journal' = <<>> /\ missed' = missed \cup Kept
  <2>1. rounds >= Cap
    <3>1. /\ Len(journal) > Cap /\ Len(journal) + LinesBehind <= rounds + 1
          /\ LinesBehind = 0
      BY <1>2 DEF JournalKept, LinesBehind
    <3>2. Len(journal) \in Nat /\ Cap \in Nat /\ rounds \in Nat
      BY UplinkAssumption, LinesAreRounds DEF UplinkAssumption, Sound
    <3> QED
      BY <3>1, <3>2
  <2>2. Kept' = {}
    BY <1>2 DEF Kept, Entries
  <2> QED
    BY <1>1, <1>2, <2>1, <2>2 DEF Box!Next, Box!Burst
<1>3. CASE UNCHANGED <<journal, missed>>
  BY <1>1, <1>3, BoxStays
<1>4. CASE task = "journal" /\ UNCHANGED journal /\ missed' = missed \cup {rounds}
  <2>1. Kept' = Kept
    BY <1>4 DEF Kept, Entries
  <2>2. rounds \notin Kept
    BY <1>4, UnwrittenRound
  <2> QED
    BY <1>1, <1>4, <2>1, <2>2 DEF Box!Next, Box!Miss
<1> QED
  BY <1>1, <1>2, <1>3, <1>4

\* The uplink is an outbox.  A report leaves the file unsent only when it is
\* outdated, and a report that never got there is one that an accident took; the
\* positions of the lines are why: what is dropped, or cut short, is the oldest.
THEOREM UplinkIsAnOutbox == Spec => OutboxKept
<1>1. Init => Box!Init
  BY DEF Init, Box!Init, Kept, Entries, Readable, Garbage
<1>2. Sound /\ JournalKept /\ [Next]_vars => [Box!Next]_(Box!boxVars)
  <2> SUFFICES ASSUME Sound, JournalKept, [Next]_vars
               PROVE  Box!Next \/ UNCHANGED Box!boxVars
    OBVIOUS
  <2>1. CASE Next
    <3>1. CASE \/ Connect \/ Present \/ Resync \/ Elapse \/ Vanish \/ Notice \/ Refuse
               \/ Run \/ Abort \/ Unload
               \/ Load \/ (\E name \in RoomName : Loaded(name)) \/ NotLoaded
               \/ UnloadRoom \/ UnloadedRoom
      BY <3>1, OthersKeep, BoxStays
    <3>2. CASE Complete \/ JournalAppend \/ JournalTrim \/ Clear
      BY <3>2, CompleteIsBox, AppendIsBox, TrimIsBox, ClearIsBox DEF Box!Next
    <3> QED
      BY <2>1, <3>1, <3>2, ReplayIsBox, ReportIsBox, CrashIsBox DEF Next
  <2>2. CASE UNCHANGED vars
    BY <2>2, BoxStays DEF vars, fileVars, history
  <2> QED
    BY <2>1, <2>2
<1> QED
  BY <1>1, <1>2, UplinkIsSound, PTL DEF Spec, OutboxKept, Box!Spec

=============================================================================
