------------------------- MODULE RoundServerProofs -------------------------
(***************************************************************************)
(* What RoundServer.tla keeps for every set of Bits, every manifest and any *)
(* number of rounds, players and polls.                                     *)
(***************************************************************************)
EXTENDS RoundServer, TLAPS

\* A loop that holds or serves knows the round it is about, and the next round
\* is announced only if there is one.
LoopKnowsItsRound ==
    /\ at \in {"hold", "serve"} => held \in Bit
    /\ at = "wait" /\ pc = "next" => engine = "SETUP"

Typed == TypeOK /\ LoopKnowsItsRound

\* The announcements keep the type of the log.
LogType == [loaded : Nat, ended : Nat,
            last : [kind : {"loaded", "ended"}, bit : Bit] \cup {None}]

LEMMA Bounds ==
    /\ MaxScored \in Nat /\ MaxTime \in Nat /\ FadePolls \in Nat
    /\ MaxRounds \in Nat /\ MaxRounds >= 1
    /\ Modes \subseteq BOOLEAN /\ None \notin Bit
BY RoundServerAssumption DEF RoundServerAssumption

LEMMA LineType ==
    ASSUME NEW b \in Bit, NEW k \in {"loaded", "ended"}
    PROVE  Line(k, b) \in [kind : {"loaded", "ended"}, bit : Bit]
BY DEF Line

LEMMA SayLoadedType ==
    ASSUME log \in LogType, NEW b \in Bit, SayLoaded(b)
    PROVE  log' \in LogType
BY LineType DEF LogType, SayLoaded

LEMMA SayEndedType ==
    ASSUME log \in LogType, NEW b \in Bit, SayEnded(b)
    PROVE  log' \in LogType
BY LineType DEF LogType, SayEnded

LEMMA InitTyped == Init => Typed
<1> SUFFICES ASSUME Init PROVE Typed
  OBVIOUS
<1> USE Bounds
<1>0. scored = 0 /\ age = 0 /\ closing = 0 /\ elapsed = 0 /\ pc = "top"
  BY DEF Init
<1>b. /\ serve \in BOOLEAN /\ acted \in BOOLEAN
      /\ arco \in BOOLEAN /\ parent \in BOOLEAN
  BY DEF Init
<1>1. CASE engine = "IDLE" /\ bit = None /\ rounds = <<>>
           /\ at = "wait" /\ held = None /\ log = NoLines
  <2>1. log \in LogType
    BY <1>1 DEF NoLines, LogType
  <2>2. rounds \in Seq(Bit) /\ Len(rounds) = 0
    BY <1>1
  <2> QED
    BY <1>0, <1>b, <1>1, <2>1, <2>2 DEF Typed, TypeOK, LoopKnowsItsRound, LogType
<1>2. ASSUME NEW b \in Bit, engine = "SETUP", bit = b, rounds = <<b>>,
             at = "hold", held = b,
             log = IF serve THEN [loaded |-> 1, ended |-> 0,
                                  last |-> Line("loaded", b)]
                   ELSE NoLines
      PROVE  Typed
  <2>1. rounds \in Seq(Bit) /\ Len(rounds) = 1
    BY <1>2
  <2>2. log \in LogType
    BY <1>2, LineType DEF NoLines, LogType
  <2> QED
    BY <1>0, <1>b, <1>2, <2>1, <2>2 DEF TypeOK, Typed, LoopKnowsItsRound, LogType
<1> QED
  BY <1>1, <1>2 DEF Init

\* What the moves of the engine do to its variables.
EngineType ==
    /\ engine \in {"IDLE", "SETUP", "RUNNING"}
    /\ bit \in Bit \cup {None} /\ (bit = None <=> engine = "IDLE")
    /\ rounds \in Seq(Bit) /\ Len(rounds) <= MaxRounds
    /\ scored \in 0..MaxScored /\ age \in 0..MaxTime

LEMMA LoadType ==
    ASSUME EngineType, NEW b \in Bit, Load(b)
    PROVE  EngineType'
<1>1. rounds' \in Seq(Bit) /\ Len(rounds') = Len(rounds) + 1
  BY DEF EngineType, Load
<1> QED
  BY <1>1, RoundServerAssumption DEF EngineType, Load, RoundServerAssumption

LEMMA StartType ==
    ASSUME EngineType, engine # "IDLE", Start
    PROVE  EngineType'
BY DEF EngineType, Start

LEMMA UnloadType ==
    ASSUME EngineType, Unload
    PROVE  EngineType'
BY RoundServerAssumption DEF EngineType, Unload, RoundServerAssumption

LEMMA FadeType ==
    ASSUME closing \in 0..FadePolls, Fade
    PROVE  closing' \in 0..FadePolls
BY RoundServerAssumption DEF Fade, RoundServerAssumption

LEMMA LaterType ==
    ASSUME NEW n \in 0..MaxTime
    PROVE  Later(n) \in 0..MaxTime
BY RoundServerAssumption DEF Later, RoundServerAssumption

\* The variables of the loops.
LoopType ==
    /\ at \in {"wait", "hold", "serve", "done"}
    /\ pc \in {"top", "pump", "tick", "check", "next", "aborted"}
    /\ held \in Bit \cup {None} /\ elapsed \in 0..MaxTime
    /\ LoopKnowsItsRound

Flags == acted \in BOOLEAN /\ serve \in BOOLEAN

World == closing \in 0..FadePolls /\ arco \in BOOLEAN /\ parent \in BOOLEAN

LEMMA TypedSplits ==
    Typed <=> EngineType /\ LoopType /\ Flags /\ World /\ log \in LogType
BY DEF Typed, TypeOK, EngineType, LoopType, Flags, World, LogType

LEMMA TypedSplitsNext ==
    Typed' <=> EngineType' /\ LoopType' /\ Flags' /\ World' /\ log' \in LogType
BY DEF Typed, TypeOK, EngineType, LoopType, Flags, World, LogType,
       LoopKnowsItsRound

\* What a driver does keeps the types.
LEMMA DriverTyped ==
    ASSUME Typed, Driver
    PROVE  Typed'
<1>1. EngineType /\ LoopType /\ Flags /\ World /\ log \in LogType
  BY TypedSplits
<1>2. EngineType' /\ closing' \in 0..FadePolls
  <2>1. ASSUME NEW b \in Bit, LoadBit(b) \/ Prepare(b)
        PROVE  EngineType' /\ closing' \in 0..FadePolls
    BY <1>1, <2>1, LoadType DEF LoadBit, Prepare, World
  <2>2. ASSUME Run \/ GuestStart
        PROVE  EngineType' /\ closing' \in 0..FadePolls
    BY <1>1, <2>2, StartType DEF Run, GuestStart, World
  <2>3. ASSUME Abort
        PROVE  EngineType' /\ closing' \in 0..FadePolls
    BY <1>1, <2>3, UnloadType, FadeType DEF Abort, World
  <2>4. ASSUME Restart
        PROVE  EngineType' /\ closing' \in 0..FadePolls
    <3>1. bit \in Bit
      BY <1>1, <2>4 DEF Restart, EngineType
    <3> QED
      BY <1>1, <2>4, <3>1, LoadType, FadeType DEF Restart, World
  <2>5. ASSUME Join
        PROVE  EngineType' /\ closing' \in 0..FadePolls
    BY <1>1, <2>5 DEF Join, EngineType, World
  <2> QED
    BY <2>1, <2>2, <2>3, <2>4, <2>5 DEF Driver
<1>3. /\ pc = "pump"
      /\ acted' \in BOOLEAN
      /\ UNCHANGED <<at, pc, held, elapsed, serve, log, arco, parent>>
  BY <1>1 DEF Driver, LoadBit, Prepare, Run, GuestStart, Abort, Restart, Join,
              Turn, Flags, holdVars, worldVars
<1>4. LoopType'
  BY <1>1, <1>3 DEF LoopType, LoopKnowsItsRound
<1>5. Flags' /\ World' /\ log' \in LogType
  BY <1>1, <1>2, <1>3 DEF Flags, World
<1> QED
  BY <1>2, <1>4, <1>5, TypedSplitsNext

\* The moves from loop to loop.
LEMMA AgainTyped == ASSUME Typed, Again PROVE Typed'
<1>1. LoopType'
  BY TypedSplits DEF Again, LoopType, LoopKnowsItsRound, holdVars
<1>2. EngineType' /\ Flags' /\ World' /\ log' \in LogType
  BY TypedSplits DEF Again, EngineType, Flags, World, engineVars, worldVars
<1> QED
  BY <1>1, <1>2, TypedSplitsNext

LEMMA LeaveTyped == ASSUME Typed, Leave PROVE Typed'
<1>1. LoopType'
  BY TypedSplits DEF Leave, LoopType, LoopKnowsItsRound, holdVars
<1>2. EngineType' /\ Flags' /\ World' /\ log' \in LogType
  BY TypedSplits DEF Leave, EngineType, Flags, World, engineVars, worldVars
<1> QED
  BY <1>1, <1>2, TypedSplitsNext

LEMMA BeginPumpTyped ==
    ASSUME Typed, BeginPump
    PROVE  Typed'
<1>1. LoopType'
  BY TypedSplits DEF BeginPump, LoopType, LoopKnowsItsRound, holdVars
<1>2. closing' \in 0..FadePolls
  BY TypedSplits, Bounds DEF BeginPump, World
<1>3. acted' \in BOOLEAN /\ serve' \in BOOLEAN
  BY TypedSplits DEF BeginPump, Flags
<1>4. EngineType' /\ Flags' /\ World' /\ log' \in LogType
  BY TypedSplits, <1>2, <1>3
     DEF BeginPump, EngineType, Flags, World, engineVars, worldVars
<1> QED
  BY <1>1, <1>4, TypedSplitsNext

LEMMA HoldTyped ==
    ASSUME Typed, engine # "IDLE", Hold, SayLoaded(bit)
    PROVE  Typed'
<1>1. bit \in Bit
  BY TypedSplits DEF EngineType
<1>2. log' \in LogType
  BY <1>1, TypedSplits, SayLoadedType DEF Flags
<1>3. LoopType'
  BY <1>1, TypedSplits, Bounds DEF Hold, LoopType, LoopKnowsItsRound
<1>4. EngineType' /\ Flags' /\ World'
  BY TypedSplits DEF Hold, EngineType, Flags, World, engineVars, worldVars
<1> QED
  BY <1>2, <1>3, <1>4, TypedSplitsNext

LEMMA EndRoundTyped ==
    ASSUME Typed, at \in {"hold", "serve"}, NEW next \in {"top", "next"},
           next = "next" => engine = "SETUP", EndRound(next)
    PROVE  Typed'
<1>1. held \in Bit
  BY TypedSplits DEF LoopType, LoopKnowsItsRound
<1>2. log' \in LogType
  BY <1>1, TypedSplits, SayEndedType DEF EndRound, Flags
<1>3. at' \in {"wait", "done"}
  BY DEF EndRound
<1>4. LoopType'
  BY <1>3, TypedSplits
     DEF EndRound, LoopType, LoopKnowsItsRound, holdVars, engineVars
<1>5. EngineType' /\ Flags' /\ World'
  BY TypedSplits DEF EndRound, EngineType, Flags, World, engineVars, worldVars
<1> QED
  BY <1>2, <1>4, <1>5, TypedSplitsNext

LEMMA TimerStartTyped ==
    ASSUME Typed, at = "hold", TimerStart, log' \in LogType
    PROVE  Typed'
<1>1. EngineType'
  <2>1. CASE engine = "SETUP"
    BY <2>1, TypedSplits, StartType DEF TimerStart
  <2>2. CASE engine # "SETUP"
    BY <2>2, TypedSplits DEF TimerStart, EngineType, engineVars
  <2> QED
    BY <2>1, <2>2
<1>2. LoopType'
  BY TypedSplits DEF TimerStart, LoopType, LoopKnowsItsRound, holdVars
<1>3. Flags' /\ World'
  BY TypedSplits DEF TimerStart, Flags, World, worldVars
<1> QED
  BY <1>1, <1>2, <1>3, TypedSplitsNext

\* One case for each step of the loops.
LEMMA LoopTyped ==
    ASSUME Typed, Loop
    PROVE  Typed'
<1>0. EngineType /\ LoopType /\ Flags /\ World /\ log \in LogType
  BY TypedSplits
<1>1. ASSUME TickTop PROVE Typed'
  BY <1>1, BeginPumpTyped, LeaveTyped DEF TickTop
<1>2. ASSUME Pumped PROVE Typed'
  <2>1. LoopType'
    BY <1>0, <1>2 DEF Pumped, LoopType, LoopKnowsItsRound, holdVars
  <2>2. EngineType' /\ Flags' /\ World' /\ log' \in LogType
    BY <1>0, <1>2 DEF Pumped, EngineType, Flags, World, engineVars, worldVars
  <2> QED
    BY <2>1, <2>2, TypedSplitsNext
<1>3. ASSUME Tick PROVE Typed'
  <2>1. EngineType' /\ closing' \in 0..FadePolls
    <3>1. CASE UNCHANGED <<engineVars, closing>>
      BY <1>0, <3>1 DEF EngineType, World, engineVars
    <3>2. CASE Unload /\ Fade
      BY <1>0, <3>2, UnloadType, FadeType DEF World
    <3> QED
      BY <1>3, <3>1, <3>2 DEF Tick
  <2>2. LoopType'
    BY <1>0, <1>3 DEF Tick, LoopType, LoopKnowsItsRound, holdVars
  <2>3. Flags' /\ World' /\ log' \in LogType
    BY <1>0, <1>3, <2>1 DEF Tick, Flags, World, worldVars
  <2> QED
    BY <2>1, <2>2, <2>3, TypedSplitsNext
<1>4. ASSUME WaitCheck PROVE Typed'
  BY <1>4, AgainTyped, HoldTyped DEF WaitCheck
<1>5. ASSUME ServeCheck PROVE Typed'
  <2>1. CASE engine = "SETUP"
    <3>1. EndRound("next")
      BY <1>5, <2>1 DEF ServeCheck
    <3> QED
      BY <1>5, <2>1, <3>1, EndRoundTyped DEF ServeCheck
  <2>2. CASE engine = "IDLE" /\ closing = 0
    <3>1. EndRound("top")
      BY <1>5, <2>2 DEF ServeCheck
    <3> QED
      BY <1>5, <3>1, EndRoundTyped DEF ServeCheck
  <2>3. CASE engine # "SETUP" /\ ~(engine = "IDLE" /\ closing = 0)
    <3>1. Again
      BY <1>5, <2>3 DEF ServeCheck
    <3> QED
      BY <3>1, AgainTyped
  <2> QED
    BY <2>1, <2>2, <2>3
<1>6. ASSUME NextRound PROVE Typed'
  BY <1>0, <1>6, HoldTyped DEF NextRound, LoopType, LoopKnowsItsRound
<1>7. ASSUME HoldTop PROVE Typed'
  <2>1. CASE DeadlinePassed
    <3>1. TimerStart /\ UNCHANGED log
      BY <1>7, <2>1 DEF HoldTop
    <3> QED
      BY <1>0, <1>7, <3>1, TimerStartTyped DEF HoldTop
  <2>2. CASE ~DeadlinePassed /\ ~parent
    <3>1. Leave
      BY <1>7, <2>2 DEF HoldTop
    <3> QED
      BY <3>1, LeaveTyped
  <2>3. CASE ~DeadlinePassed /\ parent
    <3>1. BeginPump
      BY <1>7, <2>3 DEF HoldTop
    <3> QED
      BY <3>1, BeginPumpTyped
  <2> QED
    BY <2>1, <2>2, <2>3
<1>8. ASSUME HoldCheck PROVE Typed'
  <2>1. CASE engine # "SETUP"
    <3>1. TimerStart /\ UNCHANGED log
      BY <1>8, <2>1 DEF HoldCheck
    <3> QED
      BY <1>0, <1>8, <3>1, TimerStartTyped DEF HoldCheck
  <2>2. CASE engine = "SETUP" /\ bit # held
    <3>1. TimerStart /\ SayLoaded(bit)
      BY <1>8, <2>2 DEF HoldCheck
    <3>2. log' \in LogType
      BY <1>0, <2>2, <3>1, SayLoadedType DEF EngineType, Flags
    <3> QED
      BY <1>8, <3>1, <3>2, TimerStartTyped DEF HoldCheck
  <2>3. CASE engine = "SETUP" /\ bit = held /\ Decision = "start"
    <3>1. TimerStart /\ UNCHANGED log
      BY <1>8, <2>3 DEF HoldCheck
    <3> QED
      BY <1>0, <1>8, <3>1, TimerStartTyped DEF HoldCheck
  <2>4. CASE engine = "SETUP" /\ bit = held /\ Decision = "abort"
    <3>1. TimerAbort
      BY <1>8, <2>4 DEF HoldCheck
    <3>2. EngineType'
      BY <1>0, <3>1, UnloadType DEF TimerAbort
    <3>3. LoopType'
      BY <1>0, <1>8, <3>1
         DEF HoldCheck, TimerAbort, LoopType, LoopKnowsItsRound, holdVars
    <3>4. Flags' /\ World' /\ log' \in LogType
      BY <1>0, <3>1 DEF TimerAbort, Flags, World, worldVars
    <3> QED
      BY <3>2, <3>3, <3>4, TypedSplitsNext
  <2>5. CASE /\ engine = "SETUP" /\ bit = held
             /\ Decision # "start" /\ Decision # "abort"
    <3>1. /\ pc' = "top" /\ elapsed' = Later(elapsed) /\ age' = Later(age)
          /\ UNCHANGED <<engine, bit, rounds, scored, closing, at, held, acted,
                         serve, log, worldVars>>
      BY <1>8, <2>5 DEF HoldCheck
    <3>2. elapsed' \in 0..MaxTime /\ age' \in 0..MaxTime
      BY <1>0, <3>1, LaterType DEF LoopType, EngineType
    <3>3. EngineType'
      BY <1>0, <3>1, <3>2 DEF EngineType
    <3>4. LoopType'
      BY <1>0, <1>8, <3>1, <3>2 DEF HoldCheck, LoopType, LoopKnowsItsRound
    <3>5. Flags' /\ World' /\ log' \in LogType
      BY <1>0, <3>1 DEF Flags, World, worldVars
    <3> QED
      BY <3>3, <3>4, <3>5, TypedSplitsNext
  <2> QED
    BY <2>1, <2>2, <2>3, <2>4, <2>5
<1>9. ASSUME SayAborted PROVE Typed'
  BY <1>9, EndRoundTyped DEF SayAborted
<1> QED
  BY <1>1, <1>2, <1>3, <1>4, <1>5, <1>6, <1>7, <1>8, <1>9 DEF Loop

LEMMA TypedStep == Typed /\ [Next]_vars => Typed'
<1> SUFFICES ASSUME Typed, [Next]_vars PROVE Typed'
  OBVIOUS
<1>1. CASE Loop
  BY <1>1, LoopTyped
<1>2. CASE Driver
  BY <1>2, DriverTyped
<1>3. CASE ArcoDies \/ ParentDies \/ UNCHANGED vars
  <2>1. /\ UNCHANGED <<engineVars, closing, at, pc, holdVars, acted, serve, log>>
        /\ arco' \in BOOLEAN /\ parent' \in BOOLEAN
    BY <1>3, TypedSplits DEF ArcoDies, ParentDies, vars, worldVars, World
  <2>2. LoopType'
    BY <2>1, TypedSplits DEF LoopType, LoopKnowsItsRound, holdVars, engineVars
  <2>3. EngineType' /\ Flags' /\ World' /\ log' \in LogType
    BY <2>1, TypedSplits DEF EngineType, Flags, World, engineVars
  <2> QED
    BY <2>2, <2>3, TypedSplitsNext
<1> QED
  BY <1>1, <1>2, <1>3 DEF Next

\* The types hold in every reachable state, whatever the manifests and the
\* drivers: TypeOK of RoundServer.tla, for every value of the constants.
THEOREM TypeCorrect == Spec => []TypeOK
<1>1. Typed => TypeOK
  BY DEF Typed
<1> QED
  BY <1>1, InitTyped, TypedStep, PTL DEF Spec

-----------------------------------------------------------------------------
(* What each loop knows of the rounds, when a pump takes one command and no *)
(* command restarts a Bit that is still held.                               *)

\* The Bit that is loaded is the last round.
LastRound == engine # "IDLE" => Len(rounds) >= 1 /\ bit = rounds[Len(rounds)]

\* While it waits, the last round is over and told, or a Bit has just come.
WaitKnows ==
    at = "wait" =>
        /\ serve
        /\ engine \in {"IDLE", "SETUP"}
        /\ pc = "top" => engine = "IDLE"
        /\ pc = "pump" /\ engine = "SETUP" => acted

\* The hold is about the last round, and sees at once that it has moved on.
HoldKnows ==
    at = "hold" =>
        /\ Len(rounds) >= 1 /\ rounds[Len(rounds)] = held
        /\ pc \in {"top", "pump", "check", "aborted"}
        /\ pc = "top" => engine = "SETUP"
        /\ pc = "pump" /\ ~acted => engine = "SETUP"
        /\ pc = "aborted" => engine = "IDLE"

\* The round that is served is the last one, or the one before the Bit that
\* has just replaced it.
Replaced == IF engine = "SETUP" THEN 1 ELSE 0
ServeKnows ==
    at = "serve" =>
        /\ Len(rounds) - Replaced >= 1 /\ rounds[Len(rounds) - Replaced] = held
        /\ pc = "top" => engine # "SETUP"
        /\ pc = "pump" /\ engine = "SETUP" => acted

\* The log says what the loop knows.
LogFollows ==
    /\ ~serve => log = NoLines
    /\ serve /\ at = "wait" => log.ended = log.loaded /\ log.loaded = Over
    /\ serve /\ at = "hold" => /\ log.loaded = Len(rounds)
                               /\ log.ended = log.loaded - 1
    /\ serve /\ at = "serve" => /\ log.loaded = Len(rounds) - Replaced
                                /\ log.ended = log.loaded - 1

RoundInv == LastRound /\ WaitKnows /\ HoldKnows /\ ServeKnows /\ LogFollows

LEMMA AppendIs ==
    ASSUME NEW s \in Seq(Bit), NEW b \in Bit
    PROVE  /\ Append(s, b) \in Seq(Bit) /\ Len(Append(s, b)) = Len(s) + 1
           /\ \A i \in 1..Len(s) : Append(s, b)[i] = s[i]
           /\ Append(s, b)[Len(s) + 1] = b
OBVIOUS

LEMMA InitRounds == Init => RoundInv
<1> SUFFICES ASSUME Init PROVE RoundInv
  OBVIOUS
<1>1. CASE serve /\ engine = "IDLE" /\ bit = None /\ rounds = <<>>
           /\ at = "wait" /\ held = None /\ log = NoLines
  BY <1>1 DEF Init, RoundInv, LastRound, WaitKnows, HoldKnows, ServeKnows,
              LogFollows, Over, NoLines
<1>2. ASSUME NEW b \in Bit, engine = "SETUP", bit = b, rounds = <<b>>,
             at = "hold", held = b,
             log = IF serve THEN [loaded |-> 1, ended |-> 0,
                                  last |-> Line("loaded", b)]
                   ELSE NoLines
      PROVE  RoundInv
  <2>1. Len(rounds) = 1 /\ rounds[1] = b
    BY <1>2
  <2>2. LogFollows
    BY <1>2, <2>1 DEF LogFollows
  <2> QED
    BY <1>2, <2>1, <2>2 DEF Init, RoundInv, LastRound, WaitKnows, HoldKnows,
                            ServeKnows
<1> QED
  BY <1>1, <1>2 DEF Init

\* A Bit is loaded where the loop expects one: in the wait, or after the round
\* that is served.
LEMMA LoadRounds ==
    ASSUME Typed, RoundInv, pc = "pump", NEW b \in Bit, Load(b),
           \/ at = "wait" /\ engine = "IDLE"
           \/ at = "serve" /\ engine # "SETUP",
           acted' = TRUE,
           UNCHANGED <<at, pc, holdVars, serve, log, worldVars>>
    PROVE  RoundInv'
<1>1. /\ rounds \in Seq(Bit) /\ rounds' = Append(rounds, b)
      /\ engine' = "SETUP" /\ bit' = b
  BY TypedSplits DEF Load, EngineType
<1>2. /\ Len(rounds') = Len(rounds) + 1 /\ rounds'[Len(rounds')] = b
      /\ \A i \in 1..Len(rounds) : rounds'[i] = rounds[i]
      /\ Len(rounds) \in Nat
  BY <1>1, AppendIs
<1>3. Over' = Len(rounds) /\ Replaced' = 1
  BY <1>1, <1>2 DEF Over, Replaced
<1>4. LastRound' /\ WaitKnows' /\ HoldKnows'
  BY <1>1, <1>2 DEF RoundInv, LastRound, WaitKnows, HoldKnows
<1>5. ServeKnows'
  BY <1>1, <1>2, <1>3 DEF RoundInv, ServeKnows, Replaced, holdVars
<1>6. LogFollows'
  BY <1>1, <1>2, <1>3 DEF RoundInv, LogFollows, Over, Replaced
<1> QED
  BY <1>4, <1>5, <1>6 DEF RoundInv

LEMMA DriverRounds ==
    ASSUME Accidents = {}, Typed, RoundInv, at # "done", Driver
    PROVE  RoundInv'
<1>0. /\ engine \in {"IDLE", "SETUP", "RUNNING"} /\ Len(rounds) \in Nat
      /\ at \in {"wait", "hold", "serve", "done"} /\ acted \in BOOLEAN
      /\ (bit = None <=> engine = "IDLE")
      /\ bit \in Bit \cup {None}
  BY TypedSplits DEF EngineType, LoopType, Flags
<1>1. ASSUME NEW b \in Bit, LoadBit(b) \/ Prepare(b)
      PROVE  RoundInv'
  <2>1. /\ pc = "pump" /\ ~acted /\ engine = "IDLE" /\ Load(b) /\ acted' = TRUE
        /\ UNCHANGED <<at, pc, holdVars, serve, log, worldVars>>
    BY <1>1 DEF LoadBit, Prepare, Turn
  <2>2. at # "hold"
    BY <2>1 DEF RoundInv, HoldKnows
  <2> QED
    BY <1>0, <2>1, <2>2, LoadRounds
<1>2. ASSUME Restart
      PROVE  RoundInv'
  <2>1. /\ pc = "pump" /\ ~acted /\ engine # "IDLE" /\ Load(bit) /\ acted' = TRUE
        /\ at # "hold"
        /\ UNCHANGED <<at, pc, holdVars, serve, log, worldVars>>
    BY <1>2 DEF Restart, Turn
  <2>2. at = "serve" /\ engine # "SETUP"
    BY <1>0, <2>1 DEF RoundInv, WaitKnows, ServeKnows
  <2>3. bit \in Bit
    BY <1>0, <2>1
  <2> QED
    BY <2>1, <2>2, <2>3, LoadRounds
<1>3. ASSUME Run \/ GuestStart
      PROVE  RoundInv'
  <2>1. /\ pc = "pump" /\ ~acted /\ engine = "SETUP" /\ acted' = TRUE
        /\ engine' = "RUNNING"
        /\ UNCHANGED <<bit, rounds, at, pc, holdVars, serve, log>>
    BY <1>3 DEF Run, GuestStart, Start, Turn
  <2>2. at = "hold"
    BY <1>0, <2>1 DEF RoundInv, WaitKnows, ServeKnows
  <2> QED
    BY <2>1, <2>2
       DEF RoundInv, LastRound, WaitKnows, HoldKnows, ServeKnows, LogFollows,
           holdVars
<1>4. ASSUME Abort
      PROVE  RoundInv'
  <2>1. /\ pc = "pump" /\ ~acted /\ engine # "IDLE" /\ acted' = TRUE
        /\ engine' = "IDLE"
        /\ UNCHANGED <<rounds, at, pc, holdVars, serve, log>>
    BY <1>4 DEF Abort, Unload, Turn
  <2>2. at = "hold" \/ (at = "serve" /\ engine = "RUNNING")
    BY <1>0, <2>1 DEF RoundInv, WaitKnows, ServeKnows
  <2>3. CASE at = "hold"
    BY <2>1, <2>3
       DEF RoundInv, LastRound, WaitKnows, HoldKnows, ServeKnows, LogFollows,
           holdVars
  <2>4. CASE at = "serve" /\ engine = "RUNNING"
    <3>1. Replaced = 0 /\ Replaced' = 0
      BY <2>1, <2>4 DEF Replaced
    <3> QED
      BY <2>1, <2>4, <3>1
         DEF RoundInv, LastRound, WaitKnows, HoldKnows, ServeKnows, LogFollows,
             holdVars
  <2> QED
    BY <2>2, <2>3, <2>4
<1>5. ASSUME Join
      PROVE  RoundInv'
  BY <1>5 DEF Join, RoundInv, LastRound, WaitKnows, HoldKnows, ServeKnows,
              LogFollows, Over, Replaced, holdVars
<1> QED
  BY <1>1, <1>2, <1>3, <1>4, <1>5 DEF Driver

\* Steps that touch neither the engine nor the rounds nor the log.
LEMMA QuietRounds ==
    ASSUME Typed, RoundInv,
           UNCHANGED <<engine, bit, rounds, at, held, serve, log>>,
           WaitKnows', HoldKnows', ServeKnows'
    PROVE  RoundInv'
BY DEF RoundInv, LastRound, LogFollows, Over, Replaced

\* A loop that holds what it knows when it goes on.
LEMMA HoldRounds ==
    ASSUME Typed, RoundInv, at = "wait", engine # "IDLE", Hold, SayLoaded(bit)
    PROVE  RoundInv'
<1>1. /\ serve /\ engine = "SETUP" /\ Len(rounds) \in Nat
      /\ Len(rounds) >= 1 /\ bit = rounds[Len(rounds)]
      /\ log.ended = log.loaded /\ log.loaded = Len(rounds) - 1
  BY TypedSplits DEF RoundInv, LastRound, WaitKnows, LogFollows, Over, EngineType
<1>2. /\ at' = "hold" /\ pc' = "top" /\ held' = bit
      /\ UNCHANGED <<engine, bit, rounds, serve>>
  BY DEF Hold, engineVars
<1>3. log'.loaded = log.loaded + 1 /\ log'.ended = log.ended
  BY <1>1 DEF SayLoaded
<1> QED
  BY <1>1, <1>2, <1>3
     DEF RoundInv, LastRound, WaitKnows, HoldKnows, ServeKnows, LogFollows

LEMMA EndRounds ==
    ASSUME Typed, RoundInv, NEW next, EndRound(next),
           \/ at = "hold" /\ engine = "IDLE"
           \/ at = "serve" /\ engine \in {"IDLE", "SETUP"},
           next # "pump", next = "top" => engine = "IDLE"
    PROVE  RoundInv'
<1>1. CASE serve
  <2>1. log.loaded = Over /\ log.ended = log.loaded - 1 /\ log.loaded \in Nat
    BY <1>1, TypedSplits DEF RoundInv, LogFollows, Over, Replaced, LogType
  <2>2. /\ log'.loaded = log.loaded /\ log'.ended = log.ended + 1
        /\ at' = "wait" /\ pc' = next
        /\ UNCHANGED <<engine, bit, rounds, serve>>
    BY <1>1 DEF EndRound, SayEnded, engineVars
  <2>3. Over' = Over
    BY <2>2 DEF Over
  <2>4. log'.ended = log'.loaded /\ log'.loaded = Over'
    BY <2>1, <2>2, <2>3
  <2> QED
    BY <1>1, <2>2, <2>4
       DEF RoundInv, LastRound, WaitKnows, HoldKnows, ServeKnows, LogFollows
<1>2. CASE ~serve
  BY <1>2 DEF EndRound, SayEnded, engineVars, RoundInv, LastRound, WaitKnows,
              HoldKnows, ServeKnows, LogFollows
<1> QED
  BY <1>1, <1>2

\* The hold ends: what was held is served, started or not.
LEMMA TimerStartRounds ==
    ASSUME Typed, RoundInv, at = "hold", TimerStart, UNCHANGED log
    PROVE  RoundInv'
<1>1. /\ at' = "serve" /\ pc' = "top" /\ engine' # "SETUP"
      /\ engine = "IDLE" <=> engine' = "IDLE"
      /\ UNCHANGED <<bit, rounds, held, serve, log>>
  BY DEF TimerStart, Start, engineVars, holdVars
<1>2. Replaced' = 0 /\ Len(rounds) \in Nat
  BY <1>1, TypedSplits DEF Replaced, EngineType
<1> QED
  BY <1>1, <1>2
     DEF RoundInv, LastRound, WaitKnows, HoldKnows, ServeKnows, LogFollows

LEMMA LoopRounds ==
    ASSUME Typed, RoundInv, Loop
    PROVE  RoundInv'
<1>0. /\ engine \in {"IDLE", "SETUP", "RUNNING"} /\ Len(rounds) \in Nat
      /\ (bit = None <=> engine = "IDLE")
      /\ at = "wait" /\ pc = "next" => engine = "SETUP"
  BY TypedSplits DEF EngineType, LoopType, LoopKnowsItsRound
<1>1. ASSUME TickTop PROVE RoundInv'
  <2>1. CASE parent /\ arco
    <3>1. /\ pc' = "pump" /\ UNCHANGED <<engine, bit, rounds, at, held, serve, log>>
      BY <1>1, <2>1 DEF TickTop, BeginPump, engineVars, holdVars
    <3>2. WaitKnows' /\ HoldKnows' /\ ServeKnows'
      BY <1>1, <3>1 DEF TickTop, RoundInv, WaitKnows, HoldKnows, ServeKnows, Replaced
    <3> QED
      BY <3>1, <3>2, QuietRounds
  <2>2. CASE ~(parent /\ arco)
    BY <1>1, <2>2
       DEF TickTop, Leave, RoundInv, LastRound, WaitKnows, HoldKnows,
           ServeKnows, LogFollows, engineVars
  <2> QED
    BY <2>1, <2>2
<1>2. ASSUME Pumped PROVE RoundInv'
  <2>1. /\ UNCHANGED <<engine, bit, rounds, at, held, serve, log>>
        /\ IF at = "hold" THEN pc' = "check" ELSE pc' = "tick"
    BY <1>2 DEF Pumped, engineVars, holdVars
  <2>2. WaitKnows' /\ HoldKnows' /\ ServeKnows'
    BY <2>1 DEF RoundInv, WaitKnows, HoldKnows, ServeKnows, Replaced
  <2> QED
    BY <2>1, <2>2, QuietRounds
<1>3. ASSUME Tick PROVE RoundInv'
  <2>1. /\ pc = "tick" /\ pc' = "check"
        /\ UNCHANGED <<at, held, rounds, serve, log>>
    BY <1>3 DEF Tick, Unload, engineVars, holdVars
  <2>2. CASE UNCHANGED <<engineVars, closing>>
    <3>1. UNCHANGED <<engine, bit>>
      BY <2>2 DEF engineVars
    <3>2. WaitKnows' /\ HoldKnows' /\ ServeKnows'
      BY <2>1, <3>1 DEF RoundInv, WaitKnows, HoldKnows, ServeKnows, Replaced
    <3> QED
      BY <2>1, <3>1, <3>2, QuietRounds
  <2>3. CASE engine = "RUNNING" /\ Unload
    <3>1. engine' = "IDLE" /\ Replaced = 0 /\ Replaced' = 0
      BY <2>3 DEF Unload, Replaced
    <3>2. at # "wait" /\ at # "hold"
      BY <2>1, <2>3 DEF RoundInv, WaitKnows, HoldKnows
    <3> QED
      BY <2>1, <3>1, <3>2
         DEF RoundInv, LastRound, WaitKnows, HoldKnows, ServeKnows, LogFollows
  <2> QED
    BY <1>3, <2>2, <2>3 DEF Tick
<1>4. ASSUME WaitCheck PROVE RoundInv'
  <2>1. CASE engine = "IDLE"
    <3>1. Again
      BY <1>4, <2>1 DEF WaitCheck
    <3>2. UNCHANGED <<engine, bit, rounds, at, held, serve, log>> /\ pc' = "top"
      BY <3>1 DEF Again, engineVars, holdVars
    <3>3. WaitKnows' /\ HoldKnows' /\ ServeKnows'
      BY <1>4, <2>1, <3>2 DEF WaitCheck, RoundInv, WaitKnows, HoldKnows, ServeKnows
    <3> QED
      BY <3>2, <3>3, QuietRounds
  <2>2. CASE engine # "IDLE"
    BY <1>4, <2>2, HoldRounds DEF WaitCheck
  <2> QED
    BY <2>1, <2>2
<1>5. ASSUME ServeCheck PROVE RoundInv'
  <2>1. CASE engine = "SETUP"
    <3>1. EndRound("next")
      BY <1>5, <2>1 DEF ServeCheck
    <3> QED
      BY <1>5, <2>1, <3>1, EndRounds DEF ServeCheck
  <2>2. CASE engine = "IDLE" /\ closing = 0
    <3>1. EndRound("top")
      BY <1>5, <2>2 DEF ServeCheck
    <3> QED
      BY <1>5, <2>2, <3>1, EndRounds DEF ServeCheck
  <2>3. CASE engine # "SETUP" /\ ~(engine = "IDLE" /\ closing = 0)
    <3>1. Again
      BY <1>5, <2>3 DEF ServeCheck
    <3>2. UNCHANGED <<engine, bit, rounds, at, held, serve, log>> /\ pc' = "top"
      BY <3>1 DEF Again, engineVars, holdVars
    <3>3. WaitKnows' /\ HoldKnows' /\ ServeKnows'
      BY <1>5, <2>3, <3>2
         DEF ServeCheck, RoundInv, WaitKnows, HoldKnows, ServeKnows, Replaced
    <3> QED
      BY <3>2, <3>3, QuietRounds
  <2> QED
    BY <2>1, <2>2, <2>3
<1>6. ASSUME NextRound PROVE RoundInv'
  BY <1>0, <1>6, HoldRounds DEF NextRound
<1>7. ASSUME HoldTop PROVE RoundInv'
  <2>1. CASE DeadlinePassed
    <3>1. TimerStart /\ UNCHANGED log
      BY <1>7, <2>1 DEF HoldTop
    <3> QED
      BY <1>7, <3>1, TimerStartRounds DEF HoldTop
  <2>2. CASE ~DeadlinePassed /\ ~parent
    <3>1. Leave
      BY <1>7, <2>2 DEF HoldTop
    <3> QED
      BY <3>1
         DEF Leave, RoundInv, LastRound, WaitKnows, HoldKnows, ServeKnows,
             LogFollows, engineVars
  <2>3. CASE ~DeadlinePassed /\ parent
    <3>1. BeginPump
      BY <1>7, <2>3 DEF HoldTop
    <3>2. /\ pc' = "pump" /\ UNCHANGED <<engine, bit, rounds, at, held, serve, log>>
      BY <3>1 DEF BeginPump, engineVars, holdVars
    <3>3. WaitKnows' /\ HoldKnows' /\ ServeKnows'
      BY <1>7, <3>2 DEF HoldTop, RoundInv, WaitKnows, HoldKnows, ServeKnows
    <3> QED
      BY <3>2, <3>3, QuietRounds
  <2> QED
    BY <2>1, <2>2, <2>3
<1>8. ASSUME HoldCheck PROVE RoundInv'
  <2>1. engine = "SETUP" => bit = held
    BY <1>8 DEF HoldCheck, RoundInv, LastRound, HoldKnows
  <2>2. CASE engine # "SETUP" \/ Decision = "start"
    <3>1. TimerStart /\ UNCHANGED log
      BY <1>8, <2>1, <2>2 DEF HoldCheck
    <3> QED
      BY <1>8, <3>1, TimerStartRounds DEF HoldCheck
  <2>3. CASE engine = "SETUP" /\ Decision = "abort"
    <3>1. TimerAbort
      BY <1>8, <2>1, <2>3 DEF HoldCheck
    <3>2. /\ pc' = "aborted" /\ engine' = "IDLE"
          /\ UNCHANGED <<rounds, at, held, serve, log>>
      BY <3>1 DEF TimerAbort, Unload, holdVars
    <3> QED
      BY <1>8, <3>2
         DEF HoldCheck, RoundInv, LastRound, WaitKnows, HoldKnows, ServeKnows,
             LogFollows
  <2>4. CASE engine = "SETUP" /\ Decision # "start" /\ Decision # "abort"
    <3>1. pc' = "top" /\ UNCHANGED <<engine, bit, rounds, at, held, serve, log>>
      BY <1>8, <2>1, <2>4 DEF HoldCheck
    <3>2. WaitKnows' /\ HoldKnows' /\ ServeKnows'
      BY <1>8, <2>4, <3>1 DEF HoldCheck, RoundInv, WaitKnows, HoldKnows, ServeKnows
    <3> QED
      BY <3>1, <3>2, QuietRounds
  <2> QED
    BY <2>2, <2>3, <2>4
<1>9. ASSUME SayAborted PROVE RoundInv'
  <2>1. engine = "IDLE" /\ at = "hold" /\ EndRound("top")
    BY <1>9 DEF SayAborted, RoundInv, HoldKnows
  <2> QED
    BY <2>1, EndRounds
<1> QED
  BY <1>1, <1>2, <1>3, <1>4, <1>5, <1>6, <1>7, <1>8, <1>9 DEF Loop

LEMMA RoundStep ==
    ASSUME Accidents = {}, Typed, RoundInv, [Next]_vars
    PROVE  RoundInv'
<1>1. CASE Next /\ Loop
  BY <1>1, LoopRounds
<1>2. CASE Next /\ Driver
  BY <1>2, DriverRounds DEF Next
<1>3. CASE ArcoDies \/ ParentDies \/ UNCHANGED vars
  BY <1>3 DEF ArcoDies, ParentDies, vars, RoundInv, LastRound, WaitKnows,
              HoldKnows, ServeKnows, LogFollows, Over, Replaced, engineVars,
              holdVars
<1> QED
  BY <1>1, <1>2, <1>3 DEF Next

-----------------------------------------------------------------------------
(* The lines implement RoundLog.                                            *)

LEMMA InitLog == Init => Rounds!Init
<1> SUFFICES ASSUME Init PROVE Rounds!Init
  OBVIOUS
<1>1. CASE engine = "IDLE" /\ rounds = <<>> /\ log = NoLines
  BY <1>1 DEF Rounds!Init, Over, NoLines
<1>2. ASSUME NEW b \in Bit, engine = "SETUP", rounds = <<b>>,
             log = IF serve THEN [loaded |-> 1, ended |-> 0,
                                  last |-> Line("loaded", b)]
                   ELSE NoLines
      PROVE  Rounds!Init
  <2>1. Over = 0
    BY <1>2 DEF Over
  <2>2. /\ log.ended = 0
        /\ \/ log.loaded = 0 /\ log.last = None
           \/ log.loaded = 1 /\ log.last = Rounds!Line("loaded", b)
    BY <1>2 DEF NoLines, Line, Rounds!Line
  <2> QED
    BY <1>2, <2>1, <2>2 DEF Rounds!Init
<1> QED
  BY <1>1, <1>2 DEF Init

\* The engine's moves, seen from the log.
LEMMA LoadIsLoad ==
    ASSUME Typed, NEW b \in Bit, Load(b), UNCHANGED log
    PROVE  Rounds!Next
<1>1. rounds' = Append(rounds, b) /\ Len(rounds') = Len(rounds) + 1 /\ engine' = "SETUP"
  BY TypedSplits, AppendIs DEF Load, EngineType
<1>2. Over' = Len(rounds)
  BY <1>1, TypedSplits DEF Over, EngineType
<1> QED
  BY <1>1, <1>2 DEF Rounds!Next, Rounds!Load

LEMMA UnloadIsEnd ==
    ASSUME Typed, LastRound, engine # "IDLE", Unload, UNCHANGED log
    PROVE  Rounds!Next
<1>1. Over < Len(rounds) /\ Over' = Len(rounds) /\ rounds' = rounds
  BY TypedSplits DEF Unload, Over, LastRound, EngineType
<1> QED
  BY <1>1 DEF Rounds!Next, Rounds!End

LEMMA StutterIs ==
    ASSUME UNCHANGED <<rounds, log>>, engine' = "IDLE" <=> engine = "IDLE"
    PROVE  UNCHANGED Rounds!logVars
<1>1. Over' = Over
  BY DEF Over
<1> QED
  BY <1>1 DEF Rounds!logVars

LEMMA HoldIsSayLoaded ==
    ASSUME Typed, RoundInv, at = "wait", engine # "IDLE", Hold, SayLoaded(bit)
    PROVE  Rounds!Next
<1>1. /\ serve /\ Len(rounds) \in Nat
      /\ Len(rounds) >= 1 /\ bit = rounds[Len(rounds)]
      /\ log.ended = log.loaded /\ log.loaded = Len(rounds) - 1
  BY TypedSplits DEF RoundInv, LastRound, WaitKnows, LogFollows, Over, EngineType
<1>2. UNCHANGED <<engine, rounds>> /\ Over' = Over
  BY DEF Hold, engineVars, Over
<1>3. /\ log'.loaded = log.loaded + 1 /\ log'.ended = log.ended
      /\ log'.last = Rounds!Line("loaded", bit)
  BY <1>1 DEF SayLoaded, Line, Rounds!Line
<1>4. log.loaded < Len(rounds) /\ log.loaded + 1 = Len(rounds)
  BY <1>1
<1> QED
  BY <1>1, <1>2, <1>3, <1>4 DEF Rounds!Next, Rounds!SayLoaded

LEMMA EndRoundIsSayEnded ==
    ASSUME Typed, RoundInv, NEW next, EndRound(next),
           \/ at = "hold" /\ engine = "IDLE"
           \/ at = "serve" /\ engine \in {"IDLE", "SETUP"}
    PROVE  [Rounds!Next]_Rounds!logVars
<1>1. UNCHANGED <<engine, rounds>> /\ Over' = Over
  BY DEF EndRound, engineVars, Over
<1>2. CASE serve
  <2>1. /\ log.loaded = Over /\ log.ended = log.loaded - 1 /\ log.loaded \in Nat
        /\ rounds[log.loaded] = held
    BY <1>2, TypedSplits
       DEF RoundInv, LogFollows, Over, Replaced, LogType, HoldKnows, ServeKnows
  <2>2. /\ log'.loaded = log.loaded /\ log'.ended = log.ended + 1
        /\ log'.last = Rounds!Line("ended", held)
    BY <1>2 DEF EndRound, SayEnded, Line, Rounds!Line
  <2>3. log.ended < log.loaded /\ log.loaded <= Over
    BY <2>1
  <2> QED
    BY <1>1, <2>1, <2>2, <2>3 DEF Rounds!Next, Rounds!SayEnded
<1>3. CASE ~serve
  BY <1>1, <1>3, StutterIs DEF EndRound, SayEnded
<1> QED
  BY <1>2, <1>3

LEMMA DriverTells ==
    ASSUME Typed, RoundInv, Driver
    PROVE  [Rounds!Next]_Rounds!logVars
<1>1. UNCHANGED log
  BY DEF Driver, LoadBit, Prepare, Run, GuestStart, Abort, Restart, Join, Turn
<1>2. ASSUME NEW b \in Bit, LoadBit(b) \/ Prepare(b)
      PROVE  Rounds!Next
  BY <1>1, <1>2, LoadIsLoad DEF LoadBit, Prepare
<1>3. ASSUME Restart PROVE Rounds!Next
  <2>1. bit \in Bit /\ Load(bit)
    BY <1>3, TypedSplits DEF Restart, EngineType
  <2> QED
    BY <1>1, <2>1, LoadIsLoad
<1>4. ASSUME Abort PROVE Rounds!Next
  BY <1>1, <1>4, UnloadIsEnd DEF Abort, RoundInv
<1>5. ASSUME Run \/ GuestStart \/ Join PROVE UNCHANGED Rounds!logVars
  BY <1>1, <1>5, StutterIs DEF Run, GuestStart, Start, Join
<1> QED
  BY <1>2, <1>3, <1>4, <1>5 DEF Driver

LEMMA LoopTells ==
    ASSUME Typed, RoundInv, Loop
    PROVE  [Rounds!Next]_Rounds!logVars
<1>1. ASSUME TickTop \/ Pumped PROVE UNCHANGED Rounds!logVars
  BY <1>1, StutterIs DEF TickTop, BeginPump, Leave, Pumped, engineVars
<1>2. ASSUME Tick PROVE [Rounds!Next]_Rounds!logVars
  <2>1. UNCHANGED log
    BY <1>2 DEF Tick
  <2>2. CASE UNCHANGED <<engineVars, closing>>
    BY <2>1, <2>2, StutterIs DEF engineVars
  <2>3. CASE engine = "RUNNING" /\ Unload
    BY <2>1, <2>3, UnloadIsEnd DEF RoundInv
  <2> QED
    BY <1>2, <2>2, <2>3 DEF Tick
<1>3. ASSUME WaitCheck PROVE [Rounds!Next]_Rounds!logVars
  <2>1. CASE engine = "IDLE"
    BY <1>3, <2>1, StutterIs DEF WaitCheck, Again, engineVars
  <2>2. CASE engine # "IDLE"
    BY <1>3, <2>2, HoldIsSayLoaded DEF WaitCheck
  <2> QED
    BY <2>1, <2>2
<1>4. ASSUME ServeCheck PROVE [Rounds!Next]_Rounds!logVars
  <2>1. CASE engine = "SETUP"
    <3>1. EndRound("next") /\ at = "serve"
      BY <1>4, <2>1 DEF ServeCheck
    <3> QED
      BY <2>1, <3>1, EndRoundIsSayEnded
  <2>2. CASE engine = "IDLE" /\ closing = 0
    <3>1. EndRound("top") /\ at = "serve"
      BY <1>4, <2>2 DEF ServeCheck
    <3> QED
      BY <2>2, <3>1, EndRoundIsSayEnded
  <2>3. CASE engine # "SETUP" /\ ~(engine = "IDLE" /\ closing = 0)
    <3>1. Again
      BY <1>4, <2>3 DEF ServeCheck
    <3> QED
      BY <3>1, StutterIs DEF Again, engineVars
  <2> QED
    BY <2>1, <2>2, <2>3
<1>5. ASSUME NextRound PROVE Rounds!Next
  <2>1. engine = "SETUP"
    BY <1>5, TypedSplits DEF NextRound, LoopType, LoopKnowsItsRound
  <2> QED
    BY <1>5, <2>1, HoldIsSayLoaded DEF NextRound
<1>6. ASSUME TimerStart, UNCHANGED log PROVE UNCHANGED Rounds!logVars
  BY <1>6, StutterIs DEF TimerStart, Start, engineVars
<1>7. ASSUME HoldTop PROVE UNCHANGED Rounds!logVars
  <2>1. \/ TimerStart /\ UNCHANGED log
        \/ Leave
        \/ BeginPump
    BY <1>7 DEF HoldTop
  <2> QED
    BY <1>6, <2>1, StutterIs DEF Leave, BeginPump, engineVars
<1>8. ASSUME HoldCheck PROVE [Rounds!Next]_Rounds!logVars
  <2>1. engine = "SETUP" => bit = held
    BY <1>8 DEF HoldCheck, RoundInv, LastRound, HoldKnows
  <2>2. CASE engine # "SETUP" \/ Decision = "start"
    BY <1>6, <1>8, <2>1, <2>2 DEF HoldCheck
  <2>3. CASE engine = "SETUP" /\ Decision = "abort"
    <3>1. TimerAbort
      BY <1>8, <2>1, <2>3 DEF HoldCheck
    <3> QED
      BY <2>3, <3>1, UnloadIsEnd DEF TimerAbort, RoundInv
  <2>4. CASE engine = "SETUP" /\ Decision # "start" /\ Decision # "abort"
    BY <1>8, <2>1, <2>4, StutterIs DEF HoldCheck
  <2> QED
    BY <2>2, <2>3, <2>4
<1>9. ASSUME SayAborted PROVE [Rounds!Next]_Rounds!logVars
  <2>1. engine = "IDLE" /\ at = "hold" /\ EndRound("top")
    BY <1>9 DEF SayAborted, RoundInv, HoldKnows
  <2> QED
    BY <2>1, EndRoundIsSayEnded
<1> QED
  BY <1>1, <1>2, <1>3, <1>4, <1>5, <1>7, <1>8, <1>9 DEF Loop

LEMMA StepTells ==
    ASSUME Typed, RoundInv, [Next]_vars
    PROVE  [Rounds!Next]_Rounds!logVars
<1>1. CASE Loop
  BY <1>1, LoopTells
<1>2. CASE Driver
  BY <1>2, DriverTells
<1>3. CASE ArcoDies \/ ParentDies \/ UNCHANGED vars
  BY <1>3, StutterIs DEF ArcoDies, ParentDies, vars, engineVars
<1> QED
  BY <1>1, <1>2, <1>3 DEF Next

\* Every round is announced once as loaded and once as ended, under its own
\* name and in order: _serve_rounds, its hold and main's copy of it implement
\* RoundLog, for every set of Bits and every manifest, as long as a pump takes
\* one command and no RESTART reaches a Bit that is still held.
THEOREM RoundsAreTold ==
    ASSUME Accidents = {}
    PROVE  Spec => EveryRoundIsTold
<1>1. Init => Typed /\ RoundInv /\ Rounds!Init
  BY InitTyped, InitRounds, InitLog
<1>2. Typed /\ [Next]_vars => Typed'
  BY TypedStep
<1>3. Typed /\ RoundInv /\ [Next]_vars => RoundInv'
  BY RoundStep
<1>4. Typed /\ RoundInv /\ [Next]_vars => [Rounds!Next]_Rounds!logVars
  BY StepTells
<1> QED
  BY <1>1, <1>2, <1>3, <1>4, PTL DEF Spec, EveryRoundIsTold, Rounds!Spec

-----------------------------------------------------------------------------
(* The timer and the manifests.                                             *)

\* The manifests under which the deadline cannot overtake the condition: no
\* Bit waits for an operator, and one that waits for players gives up before
\* its SETUP window is over.
DeadlineComesLast ==
    \A b \in Bit :
        /\ When[b] # "operator"
        /\ When[b] = "players" => Timeout[b] # None /\ Timeout[b] < Setup[b]

\* A Bit that is not held yet has not aged, and one that is held is as old as
\* the hold; no hold for players outlives its timeout.
ClockAgrees ==
    /\ at \in {"wait", "serve"} /\ engine = "SETUP" => age = 0
    /\ at = "hold" /\ engine = "SETUP" => age = elapsed
    /\ at = "hold" /\ When[held] = "players" => elapsed <= Timeout[held]

LEMMA ManifestTypes ==
    ASSUME NEW b \in Bit
    PROVE  /\ When[b] \in {"immediate", "players", "operator", "admin"}
           /\ Setup[b] \in 0..MaxTime /\ Timeout[b] \in (0..MaxTime) \cup {None}
           /\ OnTimeout[b] \in {"start", "abort"} /\ MinScored[b] \in Nat
           /\ MaxTime \in Nat
BY RoundServerAssumption DEF RoundServerAssumption

\* A hold begins with the clock at zero.
LEMMA FreshClock ==
    ASSUME DeadlineComesLast, held' \in Bit, at' = "hold", elapsed' = 0, age' = 0
    PROVE  ClockAgrees'
<1>1. When[held'] = "players" => Timeout[held'] >= 0
  BY ManifestTypes DEF DeadlineComesLast
<1> QED
  BY <1>1 DEF ClockAgrees

LEMMA InitClock ==
    ASSUME DeadlineComesLast, Init
    PROVE  ClockAgrees
<1>1. at = "hold" => held \in Bit
  BY DEF Init
<1>2. at = "hold" /\ When[held] = "players" => Timeout[held] >= 0
  BY <1>1, ManifestTypes DEF DeadlineComesLast
<1> QED
  BY <1>2 DEF Init, ClockAgrees

LEMMA DriverClock ==
    ASSUME Accidents = {}, Typed, RoundInv, ClockAgrees, Driver
    PROVE  ClockAgrees'
<1>1. UNCHANGED <<at, held, elapsed>>
  BY DEF Driver, LoadBit, Prepare, Run, GuestStart, Abort, Restart, Join, Turn,
         holdVars
<1>2. ASSUME NEW b \in Bit, LoadBit(b) \/ Prepare(b) PROVE ClockAgrees'
  <2>1. pc = "pump" /\ ~acted /\ engine = "IDLE" /\ age' = 0
    BY <1>2 DEF LoadBit, Prepare, Turn, Load
  <2>2. at # "hold"
    BY <2>1 DEF RoundInv, HoldKnows
  <2> QED
    BY <1>1, <2>1, <2>2 DEF ClockAgrees
<1>3. ASSUME Restart PROVE ClockAgrees'
  <2>1. at # "hold" /\ age' = 0
    BY <1>3 DEF Restart, Load
  <2> QED
    BY <1>1, <2>1 DEF ClockAgrees
<1>4. ASSUME Run \/ GuestStart \/ Abort PROVE ClockAgrees'
  <2>1. engine' # "SETUP"
    BY <1>4 DEF Run, GuestStart, Abort, Start, Unload
  <2> QED
    BY <1>1, <2>1 DEF ClockAgrees
<1>5. ASSUME Join PROVE ClockAgrees'
  BY <1>1, <1>5 DEF Join, ClockAgrees
<1> QED
  BY <1>2, <1>3, <1>4, <1>5 DEF Driver

LEMMA LoopClock ==
    ASSUME DeadlineComesLast, Typed, RoundInv, ClockAgrees, Loop
    PROVE  ClockAgrees'
<1>0. /\ bit \in Bit \cup {None} /\ (bit = None <=> engine = "IDLE")
      /\ at \in {"hold", "serve"} => held \in Bit
      /\ at = "wait" /\ pc = "next" => engine = "SETUP"
      /\ elapsed \in 0..MaxTime
  BY TypedSplits DEF EngineType, LoopType, LoopKnowsItsRound
<1>1. ASSUME UNCHANGED <<engine, at, held, elapsed, age>> PROVE ClockAgrees'
  BY <1>1 DEF ClockAgrees
<1>2. ASSUME engine' # "SETUP", at' # "hold" PROVE ClockAgrees'
  BY <1>2 DEF ClockAgrees
<1>3. ASSUME at = "wait", engine # "IDLE", Hold PROVE ClockAgrees'
  <2>1. at' = "hold" /\ held' \in Bit /\ elapsed' = 0 /\ UNCHANGED age
    BY <1>0, <1>3 DEF Hold, engineVars
  <2>2. age = 0
    BY <1>3 DEF RoundInv, WaitKnows, ClockAgrees
  <2> QED
    BY <2>1, <2>2, FreshClock
<1>4. ASSUME NEW next, EndRound(next),
             \/ at = "hold" /\ engine = "IDLE"
             \/ at = "serve"
      PROVE  ClockAgrees'
  BY <1>4 DEF EndRound, engineVars, ClockAgrees
<1>5. ASSUME TimerStart PROVE ClockAgrees'
  <2>1. engine' # "SETUP" /\ at' # "hold"
    BY <1>5 DEF TimerStart, Start, engineVars
  <2> QED
    BY <1>2, <2>1
<1>6. ASSUME TickTop PROVE ClockAgrees'
  <2>1. BeginPump \/ Leave
    BY <1>6 DEF TickTop
  <2>2. CASE BeginPump
    BY <1>1, <2>2 DEF BeginPump, engineVars, holdVars
  <2>3. CASE Leave
    BY <2>3 DEF Leave, ClockAgrees
  <2> QED
    BY <2>1, <2>2, <2>3
<1>7. ASSUME Pumped PROVE ClockAgrees'
  BY <1>1, <1>7 DEF Pumped, engineVars, holdVars
<1>8. ASSUME Tick PROVE ClockAgrees'
  <2>1. UNCHANGED <<at, held, elapsed>>
    BY <1>8 DEF Tick, holdVars
  <2>2. UNCHANGED <<engine, age>> \/ engine' = "IDLE"
    BY <1>8 DEF Tick, Unload, engineVars
  <2> QED
    BY <2>1, <2>2 DEF ClockAgrees
<1>9. ASSUME WaitCheck PROVE ClockAgrees'
  <2>1. CASE engine = "IDLE"
    BY <1>1, <1>9, <2>1 DEF WaitCheck, Again, engineVars, holdVars
  <2>2. CASE engine # "IDLE"
    BY <1>3, <1>9, <2>2 DEF WaitCheck
  <2> QED
    BY <2>1, <2>2
<1>10. ASSUME ServeCheck PROVE ClockAgrees'
  <2>1. at = "serve" /\ (Again \/ EndRound("top") \/ EndRound("next"))
    BY <1>10 DEF ServeCheck
  <2>2. CASE Again
    BY <1>1, <2>2 DEF Again, engineVars, holdVars
  <2> QED
    BY <1>4, <2>1, <2>2
<1>11. ASSUME NextRound PROVE ClockAgrees'
  BY <1>0, <1>3, <1>11 DEF NextRound
<1>12. ASSUME HoldTop PROVE ClockAgrees'
  <2>1. TimerStart \/ Leave \/ BeginPump
    BY <1>12 DEF HoldTop
  <2>2. CASE BeginPump
    BY <1>1, <2>2 DEF BeginPump, engineVars, holdVars
  <2>3. CASE Leave
    BY <2>3 DEF Leave, ClockAgrees
  <2> QED
    BY <1>5, <2>1, <2>2, <2>3
<1>13. ASSUME HoldCheck PROVE ClockAgrees'
  <2>1. TimerStart \/ TimerAbort
          \/ /\ engine = "SETUP" /\ bit = held
             /\ Decision # "start" /\ Decision # "abort"
    BY <1>13 DEF HoldCheck
  <2>2. CASE TimerAbort
    BY <2>2 DEF TimerAbort, Unload, holdVars, ClockAgrees
  <2>3. CASE /\ engine = "SETUP" /\ bit = held
             /\ Decision # "start" /\ Decision # "abort"
    <3>1. /\ elapsed' = Later(elapsed) /\ age' = Later(age)
          /\ UNCHANGED <<engine, at, held>> /\ at = "hold"
      BY <1>13, <2>3 DEF HoldCheck
    <3>2. age = elapsed /\ age' = elapsed'
      BY <2>3, <3>1 DEF ClockAgrees
    <3>3. ASSUME When[held] = "players" PROVE elapsed' <= Timeout[held]
      <4>1. ~TimedOut
        BY <1>0, <2>3, <3>1, <3>3, ManifestTypes DEF Decision
      <4>2. Timeout[held] \in 0..MaxTime /\ elapsed < Timeout[held]
        BY <1>0, <3>1, <3>3, <4>1, ManifestTypes DEF TimedOut, DeadlineComesLast
      <4> QED
        BY <1>0, <3>1, <4>2, Bounds DEF Later
    <3> QED
      BY <3>1, <3>2, <3>3 DEF ClockAgrees
  <2> QED
    BY <1>5, <2>1, <2>2, <2>3
<1>14. ASSUME SayAborted PROVE ClockAgrees'
  BY <1>4, <1>14 DEF SayAborted, RoundInv, HoldKnows
<1> QED
  BY <1>6, <1>7, <1>8, <1>9, <1>10, <1>11, <1>12, <1>13, <1>14 DEF Loop

LEMMA ClockStep ==
    ASSUME Accidents = {}, DeadlineComesLast,
           Typed, RoundInv, ClockAgrees, [Next]_vars
    PROVE  ClockAgrees'
<1>1. CASE Loop
  BY <1>1, LoopClock
<1>2. CASE Driver
  BY <1>2, DriverClock
<1>3. CASE ArcoDies \/ ParentDies \/ UNCHANGED vars
  BY <1>3 DEF ArcoDies, ParentDies, vars, engineVars, holdVars, ClockAgrees
<1> QED
  BY <1>1, <1>2, <1>3 DEF Next

\* When the timer starts the Bit that is held, the Bit's condition allows it.
LEMMA StartDeclared ==
    ASSUME DeadlineComesLast, Typed, RoundInv, ClockAgrees, [Next]_vars,
           at = "hold", at' = "serve", engine = "SETUP"
    PROVE  TimerMay(bit)
<1>1. HoldTop \/ HoldCheck
  BY DEF Next, vars, Loop, Driver, TickTop, Pumped, Tick, WaitCheck, ServeCheck,
         NextRound, SayAborted, EndRound, BeginPump, Leave, Again, Hold, LoadBit,
         Prepare, Run, GuestStart, Abort, Restart, Join, Turn, ArcoDies, ParentDies
<1>2. bit = held /\ held \in Bit /\ age = elapsed /\ elapsed \in 0..MaxTime
  BY TypedSplits DEF RoundInv, LastRound, HoldKnows, ClockAgrees, LoopType,
                     LoopKnowsItsRound
<1>3. DeadlinePassed \/ Decision = "start"
  <2>1. CASE HoldTop
    BY <2>1 DEF HoldTop, Leave, BeginPump
  <2>2. CASE HoldCheck
    BY <1>2, <2>2 DEF HoldCheck, TimerAbort
  <2> QED
    BY <1>1, <2>1, <2>2
<1>4. CASE DeadlinePassed
  <2>1. When[held] = "immediate"
    BY <1>2, <1>4, ManifestTypes DEF DeadlinePassed, DeadlineComesLast, ClockAgrees
  <2> QED
    BY <1>2, <1>4, <2>1 DEF DeadlinePassed, TimerMay
<1>5. CASE Decision = "start"
  <2>1. \/ PlayersMet
        \/ When[held] \in {"players", "admin"} /\ TimedOut /\ OnTimeout[held] = "start"
    BY <1>5 DEF Decision
  <2> QED
    BY <1>2, <2>1 DEF PlayersMet, TimedOut, TimerMay
<1> QED
  BY <1>3, <1>4, <1>5

\* The timer starts a Bit only as its own start condition allows, whatever the
\* drivers do, if the manifests keep the deadline behind the condition.  (With
\* a Bit that waits for an operator they cannot: run operator_start.)
THEOREM TimersKeepTheirWord ==
    ASSUME Accidents = {}, DeadlineComesLast
    PROVE  Spec => TimerStartsAsDeclared
<1>1. Init => Typed /\ RoundInv /\ ClockAgrees
  BY InitTyped, InitRounds, InitClock
<1>2. Typed /\ [Next]_vars => Typed'
  BY TypedStep
<1>3. Typed /\ RoundInv /\ [Next]_vars => RoundInv'
  BY RoundStep
<1>4. Typed /\ RoundInv /\ ClockAgrees /\ [Next]_vars => ClockAgrees'
  BY ClockStep
<1>5. Typed /\ RoundInv /\ ClockAgrees /\ [Next]_vars
        => [(at = "hold" /\ at' = "serve" /\ engine = "SETUP" /\ engine' = "RUNNING")
              => TimerMay(bit)]_vars
  BY StartDeclared
<1> QED
  BY <1>1, <1>2, <1>3, <1>4, <1>5, PTL DEF Spec, TimerStartsAsDeclared
=============================================================================
