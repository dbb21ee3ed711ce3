---------------------------- MODULE RoundServer ----------------------------
(***************************************************************************)
(* The loop that serves one round after another: _serve_rounds with the     *)
(* three loops it runs (_wait_for_load, _wait_in_setup, _serve_until_done), *)
(* main's copy of it for the Bit it was booted with, the timer of the SETUP *)
(* hold, and the drivers it shares the engine with: the Console, the uplink,*)
(* the LAN prepare, a guest's start and the Bit itself.                     *)
(*                                                                         *)
(* One iteration of a loop is the steps top, pump (where the drivers act,   *)
(* in any order), tick and check.  The engine is here its state and the Bit *)
(* that is loaded; LOADING, LOADED, COMPLETING and UNLOADING are over before*)
(* the handler that passes them returns.  The Room stays up: Terrarium.tla  *)
(* shows that no command takes down a Room that is served.                  *)
(***************************************************************************)
EXTENDS Integers, Sequences

CONSTANTS
    Bit,        \* names of Bits
    None,       \* no Bit, no timeout
    When,       \* [Bit -> the "when" of its start condition]
    Setup,      \* [Bit -> setup_seconds]
    Timeout,    \* [Bit -> timeout_seconds, or None]
    OnTimeout,  \* [Bit -> {"start", "abort"}]
    MinScored,  \* [Bit -> min_scored]
    Modes,      \* whether effective_serve may be on, or not
    Accidents,  \* what else drivers may do, a subset of AllAccidents
    MaxScored,  \* bound on the scored players
    MaxTime,    \* bound on the time counted
    MaxRounds,  \* bound on the Bits loaded
    FadePolls   \* the polls a closing fade takes

\* "restart": RESTART while the hold still runs
\* "batch":   several commands wait when the Console is polled
AllAccidents == {"restart", "batch"}

ASSUME RoundServerAssumption ==
    /\ None \notin Bit
    /\ When \in [Bit -> {"immediate", "players", "operator", "admin"}]
    /\ Setup \in [Bit -> 0..MaxTime]
    /\ Timeout \in [Bit -> (0..MaxTime) \cup {None}]
    /\ OnTimeout \in [Bit -> {"start", "abort"}]
    /\ MinScored \in [Bit -> Nat]
    /\ Modes \subseteq BOOLEAN
    /\ Accidents \subseteq AllAccidents
    /\ MaxScored \in Nat /\ MaxTime \in Nat /\ MaxRounds \in Nat \ {0}
    /\ FadePolls \in Nat

VARIABLES
    engine,   \* GameServer.state between handlers
    bit,      \* GameServer.bit_name
    rounds,   \* history: the Bits loaded so far, in order
    scored,   \* scored_count
    age,      \* history: how long the loaded Bit has been in SETUP
    closing,  \* polls until agent.closing is 0
    at,       \* the loop that runs: "wait", "hold", "serve", or "done"
    pc,       \* where in it
    held,     \* bit_name, captured when the hold began; its config too
    elapsed,  \* now - start, in the hold
    acted,    \* a driver has changed the engine in this pump
    serve,    \* effective_serve
    log,      \* the announcements: how many of each, and the last line
    arco,     \* Arco runs
    parent    \* the parent process runs

engineVars == <<engine, bit, rounds, scored, age>>
holdVars == <<held, elapsed>>
worldVars == <<arco, parent>>
vars == <<engineVars, closing, at, pc, holdVars, acted, serve, log, worldVars>>

Line(kind, b) == [kind |-> kind, bit |-> b]
NoLines == [loaded |-> 0, ended |-> 0, last |-> None]

\* print, in serve mode.
SayLoaded(b) ==
    log' = IF serve THEN [loaded |-> log.loaded + 1, ended |-> log.ended,
                          last |-> Line("loaded", b)]
           ELSE log
SayEnded(b) ==
    log' = IF serve THEN [loaded |-> log.loaded, ended |-> log.ended + 1,
                          last |-> Line("ended", b)]
           ELSE log

Later(n) == IF n < MaxTime THEN n + 1 ELSE n

\* With a Bit to begin with, which is announced, or with none.
Init ==
    /\ serve \in Modes
    /\ scored = 0 /\ age = 0 /\ closing = 0 /\ elapsed = 0 /\ acted = FALSE
    /\ arco = TRUE /\ parent = TRUE /\ pc = "top"
    /\ \/ /\ serve
          /\ engine = "IDLE" /\ bit = None /\ rounds = <<>>
          /\ at = "wait" /\ held = None /\ log = NoLines
       \/ \E b \in Bit :
            /\ engine = "SETUP" /\ bit = b /\ rounds = <<b>>
            /\ at = "hold" /\ held = b
            /\ log = IF serve THEN [loaded |-> 1, ended |-> 0,
                                    last |-> Line("loaded", b)]
                     ELSE NoLines

-----------------------------------------------------------------------------
(* The engine, as the drivers and the loops move it.                       *)

\* load_bit, through to SETUP.
Load(b) ==
    /\ Len(rounds) < MaxRounds
    /\ engine' = "SETUP" /\ bit' = b /\ rounds' = Append(rounds, b)
    /\ scored' = 0 /\ age' = 0

\* request_start that is accepted: run.
Start == engine' = "RUNNING" /\ UNCHANGED <<bit, rounds, scored, age>>

\* _unload, after a Bit that is complete or aborted.
Unload ==
    /\ engine' = "IDLE" /\ bit' = None /\ scored' = 0
    /\ UNCHANGED <<rounds, age>>

\* Devices that held roles in a round fade.
Fade ==
    closing' \in IF engine = "RUNNING" THEN closing..FadePolls ELSE {closing}

-----------------------------------------------------------------------------
(* The drivers, within one pump.                                           *)

\* A driver's turn: one change of the engine in a pump, unless they queue up.
Turn ==
    /\ pc = "pump" /\ (acted => "batch" \in Accidents)
    /\ acted' = TRUE
    /\ UNCHANGED <<at, pc, holdVars, serve, log, worldVars>>

\* LoadBit from the Console or the uplink.
LoadBit(b) == Turn /\ engine = "IDLE" /\ Load(b) /\ UNCHANGED closing

\* PrepareAuthority.request that loads: a Bit with a keyed start only.
Prepare(b) ==
    /\ Turn /\ engine = "IDLE" /\ When[b] = "admin"
    /\ Load(b) /\ UNCHANGED closing

\* Run from the Console or the uplink: an admin, whatever the condition.
Run == Turn /\ engine = "SETUP" /\ Start /\ UNCHANGED closing

\* /game/start with the key: the Bit must take one, and enough must have joined.
GuestStart ==
    /\ Turn /\ engine = "SETUP" /\ When[bit] = "admin"
    /\ scored >= MinScored[bit]
    /\ Start /\ UNCHANGED closing

Abort == Turn /\ engine # "IDLE" /\ Unload /\ Fade

\* RESTART: abort, and the same Bit again.  (When it does not load: Abort.)
Restart ==
    /\ Turn /\ engine # "IDLE" /\ (at = "hold" => "restart" \in Accidents)
    /\ Load(bit) /\ Fade

\* A scored slot is validated, or freed.
Join ==
    /\ pc = "pump" /\ engine = "SETUP"
    /\ scored' \in {scored - 1, scored + 1} \cap (0..MaxScored)
    /\ UNCHANGED <<engine, bit, rounds, age, closing, at, pc, holdVars, acted,
                   serve, log, worldVars>>

\* The pump is over; the hold does not tick the engine.
Pumped ==
    /\ pc = "pump"
    /\ pc' = IF at = "hold" THEN "check" ELSE "tick"
    /\ UNCHANGED <<engineVars, closing, at, holdVars, acted, serve, log, worldVars>>

\* The poll of the agent begins the pump: a fade goes on.
BeginPump ==
    /\ pc' = "pump" /\ acted' = FALSE
    /\ closing' = IF closing > 0 THEN closing - 1 ELSE 0
    /\ UNCHANGED <<engineVars, at, holdVars, serve, log, worldVars>>

\* The process leaves the loops and shuts down.
Leave ==
    /\ at' = "done" /\ pc' = "top"
    /\ UNCHANGED <<engineVars, closing, holdVars, acted, serve, log, worldVars>>

-----------------------------------------------------------------------------
(* _run_tick_loop, for the wait and the serve loop.                        *)

TickTop ==
    /\ at \in {"wait", "serve"} /\ pc = "top"
    /\ IF parent /\ arco THEN BeginPump ELSE Leave

\* gs.tick: a Bit that runs may say that it is done.
Tick ==
    /\ pc = "tick"
    /\ pc' = "check"
    /\ \/ UNCHANGED <<engineVars, closing>>
       \/ engine = "RUNNING" /\ Unload /\ Fade
    /\ UNCHANGED <<at, holdVars, acted, serve, log, worldVars>>

\* The next iteration.
Again ==
    /\ pc' = "top"
    /\ UNCHANGED <<engineVars, closing, at, holdVars, acted, serve, log, worldVars>>

\* The hold begins for the Bit that is loaded.
Hold ==
    /\ at' = "hold" /\ pc' = "top" /\ held' = bit /\ elapsed' = 0
    /\ UNCHANGED <<engineVars, closing, acted, serve, worldVars>>

\* _wait_for_load: a Bit has been loaded while it watched, and is announced.
WaitCheck ==
    /\ at = "wait" /\ pc = "check"
    /\ IF engine = "IDLE" THEN Again ELSE Hold /\ SayLoaded(bit)

\* A round's end is announced; in one-shot mode the process is done.
EndRound(next) ==
    /\ SayEnded(held)
    /\ at' = IF serve THEN "wait" ELSE "done"
    /\ pc' = next
    /\ UNCHANGED <<engineVars, closing, holdVars, acted, serve, worldVars>>

\* Faulty variant: the end is announced under the name of the Bit loaded now.
ServeCheckByName ==
    /\ at = "serve" /\ pc = "check"
    /\ CASE engine = "SETUP" ->
                /\ SayEnded(bit)
                /\ at' = (IF serve THEN "wait" ELSE "done") /\ pc' = "next"
                /\ UNCHANGED <<engineVars, closing, holdVars, acted, serve,
                               worldVars>>
         [] engine = "IDLE" /\ closing = 0 -> EndRound("top")
         [] OTHER -> Again

\* _serve_until_done: restarted, completed, or on.
ServeCheck ==
    /\ at = "serve" /\ pc = "check"
    /\ CASE engine = "SETUP" -> EndRound("next")
         [] engine = "IDLE" /\ closing = 0 -> EndRound("top")
         [] OTHER -> Again

\* After "restarted": the Bit that is there already is announced and held.
NextRound ==
    /\ at = "wait" /\ pc = "next"
    /\ Hold /\ SayLoaded(bit)

-----------------------------------------------------------------------------
(* _wait_in_setup, and what its caller does with the reason it returns.    *)

\* The timer starts the Bit if it still is in SETUP; then it is served.
TimerStart ==
    /\ at' = "serve" /\ pc' = "top"
    /\ IF engine = "SETUP" THEN Start ELSE UNCHANGED engineVars
    /\ UNCHANGED <<closing, holdVars, acted, serve, worldVars>>

\* timeout-abort; the announcement follows.
TimerAbort ==
    /\ pc' = "aborted"
    /\ Unload
    /\ UNCHANGED <<closing, at, holdVars, acted, serve, log, worldVars>>

\* Faulty variant: an admin start has a deadline too.
DeadlinePassedAll == elapsed >= Setup[held]

\* The deadline; a Bit that waits for an admin has none.
DeadlinePassed == When[held] # "admin" /\ elapsed >= Setup[held]

HoldTop ==
    /\ at = "hold" /\ pc = "top"
    /\ CASE DeadlinePassed -> TimerStart /\ UNCHANGED log
         [] ~DeadlinePassed /\ ~parent -> Leave
         [] OTHER -> BeginPump

\* timer_decision, for the condition of the Bit the hold began with.
TimedOut == Timeout[held] # None /\ elapsed >= Timeout[held]
PlayersMet == When[held] = "players" /\ scored >= MinScored[held]
Decision ==
    CASE PlayersMet -> "start"
      [] ~PlayersMet /\ When[held] \in {"players", "admin"} /\ TimedOut ->
            OnTimeout[held]
      [] OTHER -> "hold"

\* The driver's change is seen before the timer's own decision.
HoldCheck ==
    /\ at = "hold" /\ pc = "check"
    /\ CASE engine # "SETUP" -> TimerStart /\ UNCHANGED log
         [] engine = "SETUP" /\ bit # held -> TimerStart /\ SayLoaded(bit)
         [] engine = "SETUP" /\ bit = held /\ Decision = "start" ->
                TimerStart /\ UNCHANGED log
         [] engine = "SETUP" /\ bit = held /\ Decision = "abort" -> TimerAbort
         [] OTHER ->
                /\ pc' = "top"
                /\ elapsed' = Later(elapsed) /\ age' = Later(age)
                /\ UNCHANGED <<engine, bit, rounds, scored, closing, at, held,
                               acted, serve, log, worldVars>>

SayAborted ==
    /\ at = "hold" /\ pc = "aborted"
    /\ EndRound("top")

-----------------------------------------------------------------------------
ArcoDies ==
    /\ arco /\ arco' = FALSE
    /\ UNCHANGED <<engineVars, closing, at, pc, holdVars, acted, serve, log, parent>>

ParentDies ==
    /\ parent /\ parent' = FALSE
    /\ UNCHANGED <<engineVars, closing, at, pc, holdVars, acted, serve, log, arco>>

Loop ==
    \/ TickTop \/ Pumped \/ Tick \/ WaitCheck \/ ServeCheck \/ NextRound
    \/ HoldTop \/ HoldCheck \/ SayAborted
Driver ==
    \/ \E b \in Bit : LoadBit(b) \/ Prepare(b)
    \/ Run \/ GuestStart \/ Abort \/ Restart \/ Join

Next == at # "done" /\ (Loop \/ Driver \/ ArcoDies \/ ParentDies)

Spec == Init /\ [][Next]_vars

-----------------------------------------------------------------------------
(* The properties.                                                         *)

\* The type invariant, with what each loop knows of the engine.
TypeOK ==
    /\ engine \in {"IDLE", "SETUP", "RUNNING"}
    /\ bit \in Bit \cup {None} /\ (bit = None <=> engine = "IDLE")
    /\ rounds \in Seq(Bit) /\ Len(rounds) <= MaxRounds
    /\ scored \in 0..MaxScored /\ age \in 0..MaxTime
    /\ closing \in 0..FadePolls
    /\ at \in {"wait", "hold", "serve", "done"}
    /\ pc \in {"top", "pump", "tick", "check", "next", "aborted"}
    /\ held \in Bit \cup {None} /\ elapsed \in 0..MaxTime
    /\ acted \in BOOLEAN /\ serve \in BOOLEAN
    /\ log \in [loaded : Nat, ended : Nat,
                last : [kind : {"loaded", "ended"}, bit : Bit] \cup {None}]
    /\ arco \in BOOLEAN /\ parent \in BOOLEAN

\* The rounds that are over: all but the one that is loaded.
Over == IF engine = "IDLE" THEN Len(rounds) ELSE Len(rounds) - 1

\* Every round is announced once as loaded and once as ended, under its own
\* name, whoever loads, starts, aborts or restarts it, and in whatever loop:
\* the lines of _serve_rounds, _wait_in_setup and main implement RoundLog.
Rounds == INSTANCE RoundLog WITH
    over <- Over, loaded <- log.loaded, ended <- log.ended, line <- log.last
EveryRoundIsTold == Rounds!Spec

\* What the start condition of the loaded Bit lets a timer do, as timer_decision
\* and the docstring of _wait_in_setup say it: "players" and "operator" have
\* no deadline of their own.
TimerMay(b) ==
    LET TimeIsUp == Timeout[b] # None /\ age >= Timeout[b] /\ OnTimeout[b] = "start"
    IN CASE When[b] = "immediate" -> age >= Setup[b]
         [] When[b] = "players" -> scored >= MinScored[b] \/ TimeIsUp
         [] When[b] = "operator" -> FALSE
         [] When[b] = "admin" -> TimeIsUp

\* The timer starts a Bit only as its own start condition allows: not on the
\* condition, the deadline or the clock of another round.
TimerStartsAsDeclared ==
    [][(at = "hold" /\ at' = "serve" /\ engine = "SETUP" /\ engine' = "RUNNING")
            => TimerMay(bit)]_vars
=============================================================================
