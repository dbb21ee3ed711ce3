------------------------------ MODULE Metronome ------------------------------
(***************************************************************************)
(* A Bit that judges: MetronomeBit (bits/metronome/metronome_bit.py), from *)
(* on_run_start to the end of its run.  Each cycle opens with call beats,  *)
(* and the player whose turn it is taps the answer beats.                  *)
(*                                                                         *)
(* Three clocks meet: beats are emitted one beat ahead of the time they    *)
(* are presented at, a cycle is judged some slack after its last beat, and *)
(* a tap carries the time it was made at and is received later, up to Lag. *)
(* A lap of the driver polls the taps and then ticks the engine; laps may  *)
(* stall.                                                                  *)
(***************************************************************************)
EXTENDS Integers, Sequences, FiniteSets, FiniteSetsExt, SequencesExt

CONSTANTS
    Drummer,                   \* the devices that may hold the player role
    Rotations,                 \* the orders in which they may have joined
    Pulse, PerCycle, Cycles,   \* BEAT_S, BEATS_PER_CYCLE, CYCLES
    LeadIn, Tolerance, Slack,  \* LEAD_IN_S, TOLERANCE_S, JUDGE_SLACK_S
    Finale,                    \* FINALE_S
    Ahead,                     \* cue_horizon
    Late,                      \* how long a tap may take to arrive
    MaxTaps, MaxStalls         \* bounds

ASSUME MetronomeAssumption ==
    /\ {Pulse, PerCycle, Cycles} \subseteq Nat \ {0} /\ PerCycle > 1
    /\ {LeadIn, Tolerance, Slack, Finale, Ahead, Late, MaxTaps, MaxStalls} \subseteq Nat
    /\ \A players \in Rotations :
          /\ players \in Seq(Drummer) /\ players # <<>>
          /\ \A i, j \in DOMAIN players : players[i] = players[j] => i = j

\* What the Bit's own numbers keep to: a beat of 600 ms, eight to a cycle, 50 ms of
\* tolerance and as much of slack.  A tap travels within the slack, the windows of
\* two beats lie apart, the grid starts in the future, and the driver is held up
\* for less than a cycle.
ASSUME TimingAssumption ==
    /\ Late <= Slack
    /\ 2 * Tolerance < Pulse
    /\ Tolerance < Ahead + LeadIn
    /\ MaxStalls + 1 + Tolerance + Slack + Ahead <= PerCycle * Pulse

VARIABLES
    clock,     \* the O2 clock
    rotation,  \* _rotation
    anchor,    \* _t0, Unset before the first lap
    beat,      \* _next_beat
    phrases,   \* _phrases, by cycle
    judged,    \* _judged_cycles
    wins,      \* how many successes there are
    failed,    \* _failed_devs
    closing,   \* _finale_end, or Unset
    done,      \* _done
    over,      \* the engine has completed the Bit
    air,       \* taps made and not received
    taps,      \* how many were made
    made,      \* history: the taps made in cycles that are not judged yet
    verdicts,  \* history: how the cycles of the last lap were judged
    dark,      \* history: cycles whose player was not shown one of its beats
    stalls     \* laps missed

metroVars == <<clock, rotation, anchor, beat, phrases, judged, wins, failed,
               closing, done, over, air, taps, made, verdicts, dark, stalls>>

Unset == -1
Total == Cycles * PerCycle
CallBeats == PerCycle \div 2
Answers == CallBeats .. PerCycle - 1

\* _grid; also for a cycle's place p.
Grid(k) == anchor + k * Pulse
At(c, p) == Grid(c * PerCycle + p)
Off(t, c, p) == IF t >= At(c, p) THEN t - At(c, p) ELSE At(c, p) - t

\* _turn_dev
Turn(c) == rotation[(c % Len(rotation)) + 1]

\* _phrase_for, of a cycle without a tap.
Silent == [hits |-> {}, spoiled |-> FALSE]

\* on_run_start, after the players joined.
MetroInit(players) ==
    /\ clock = 0 /\ rotation = players /\ anchor = Unset /\ beat = 0
    /\ phrases = [c \in 0 .. Cycles - 1 |-> Silent]
    /\ judged = 0 /\ wins = 0 /\ failed = {} /\ closing = Unset
    /\ done = FALSE /\ over = FALSE
    /\ air = {} /\ taps = 0 /\ made = {} /\ verdicts = <<>> /\ dark = {} /\ stalls = 0

-----------------------------------------------------------------------------
(* Taps                                                                    *)

\* _current_cycle
NoCycle == -1
CycleOf(t) ==
    IF t < anchor - Tolerance \/ t > Grid(Total - 1) + Tolerance THEN NoCycle
    ELSE LET c == (t - anchor) \div (Pulse * PerCycle)
         IN  IF c < 0 THEN 0 ELSE IF c >= Cycles THEN Cycles - 1 ELSE c

\* The answer beat a tap is nearest to, the earlier of two.
Nearest(t, c) ==
    CHOOSE p \in Answers : \A q \in Answers :
        Off(t, c, p) < Off(t, c, q) \/ (Off(t, c, p) = Off(t, c, q) /\ p <= q)
Close(t, c) == Off(t, c, Nearest(t, c)) <= Tolerance

\* Of the taps, those the turn's player made in cycle c, and what they come to.
Ours(all, c) == {tap \in all : tap.dev = Turn(c) /\ CycleOf(tap.at) = c}
Played(mine, c) ==
    [hits |-> {Nearest(tap.at, c) : tap \in {tap \in mine : Close(tap.at, c)}},
     spoiled |-> \E tap \in mine : ~Close(tap.at, c)]

\* _on_tap, of each of the taps received.
Tapped(received) ==
    IF anchor = Unset \/ done THEN phrases
    ELSE [c \in 0 .. Cycles - 1 |->
             LET played == Played(Ours(received, c), c)
             IN  [hits |-> phrases[c].hits \cup played.hits,
                  spoiled |-> phrases[c].spoiled \/ played.spoiled]]

\* A player taps; at any moment, and at most once in it.
PlayerTaps(d) ==
    /\ ~over /\ taps < MaxTaps /\ taps' = taps + 1
    /\ d \in ToSet(rotation)
    /\ LET tap == [dev |-> d, at |-> clock]
       IN  /\ tap \notin made
           /\ air' = air \cup {tap} /\ made' = made \cup {tap}
    /\ UNCHANGED <<clock, rotation, anchor, beat, phrases, judged, wins, failed,
                   closing, done, over, verdicts, dark, stalls>>

-----------------------------------------------------------------------------
(* The beat grid                                                           *)

\* Faulty variant: the player whose turn is over is brought back.
BackLater(k) == IF k > 0 /\ k % PerCycle = 0 THEN {Turn(k \div PerCycle - 1)} ELSE {}

\* A cycle's first beat brings its player back ...
Back(k) == IF k % PerCycle = 0 THEN {Turn(k \div PerCycle)} ELSE {}

\* ... before its pulse goes to all who are not failed: those who are back when
\* beat k goes out.
Brought(k) == UNION {Back(j) : j \in beat .. k}

\* fires: beats go out up to the first whose time is beyond the presentation's
\* lead and a beat.
Reached(t0) == Min({k \in beat .. Total : k = Total \/ t0 + k * Pulse > clock + Ahead + Pulse})

-----------------------------------------------------------------------------
(* The judgment                                                            *)

\* Faulty variant: the deadline is held against the presentation time.
JudgeableEarly(c, t0) ==
    clock + Ahead >= t0 + ((c + 1) * PerCycle - 1) * Pulse + Tolerance + Slack

\* A cycle is judged once its last answer has had time to travel.
Judgeable(c, t0) == clock >= t0 + ((c + 1) * PerCycle - 1) * Pulse + Tolerance + Slack

\* Every answer beat was hit and nothing else was.
Success(phrase) == phrase.hits = Answers /\ ~phrase.spoiled

\* The cycles whose time is over are judged, one after the other, up to this one.
Judging(t0) == Min({c \in judged .. Cycles : c = Cycles \/ ~Judgeable(c, t0)})

\* What is forgotten with the cycles that have been judged.
Open(c, ph) == IF c < judged' THEN Silent ELSE ph[c]
Pending(tap) == CycleOf(tap.at) >= judged /\ tap.dev = Turn(CycleOf(tap.at))

\* fires, after the taps that have arrived were polled; the first one sets the
\* grid.
Fires(ph, t0) ==
    LET sent == beat .. Reached(t0) - 1
        ended == judged .. Judging(t0) - 1
        won == {c \in ended : Success(ph[c])}
        final == ended # {} /\ judged' = Cycles
    IN  /\ anchor' = t0
        /\ beat' = Reached(t0) /\ judged' = Judging(t0)
        /\ dark' = dark \cup {k \div PerCycle :
                       k \in {k \in sent : Turn(k \div PerCycle) \in failed \ Brought(k)}}
        /\ failed' = (failed \ Brought(Reached(t0) - 1)) \cup {Turn(c) : c \in ended \ won}
        /\ phrases' = [c \in 0 .. Cycles - 1 |-> Open(c, ph)]
        /\ wins' = wins + Cardinality(won)
        /\ verdicts' = [i \in 1 .. Judging(t0) - judged |-> judged + i - 1 \in won]
        /\ closing' = IF final /\ wins' > 0 THEN clock + Ahead + Finale ELSE closing
        /\ done' = \/ final /\ wins' = 0
                   \/ closing' # Unset /\ clock + Ahead >= closing'

\* A lap: the taps that have arrived, then the engine's tick, which completes the
\* Bit when it is done.
MetroLap ==
    /\ ~over /\ clock' = clock + 1
    /\ \E received \in SUBSET air :
          /\ {tap \in air : tap.at + Late <= clock} \subseteq received
          /\ air' = air \ received
          /\ IF done
             THEN /\ UNCHANGED <<anchor, beat, phrases, judged, wins, failed, closing, done, dark>>
                  /\ verdicts' = <<>>
             ELSE Fires(Tapped(received),
                        IF anchor = Unset THEN clock + Ahead + LeadIn ELSE anchor)
    /\ over' = done
    /\ made' = IF anchor = Unset THEN made ELSE {tap \in made : Pending(tap)}
    /\ UNCHANGED <<rotation, taps, stalls>>

\* The driver is held up.
Stall ==
    /\ ~over /\ stalls < MaxStalls /\ stalls' = stalls + 1
    /\ clock' = clock + 1
    /\ UNCHANGED <<rotation, anchor, beat, phrases, judged, wins, failed, closing,
                   done, over, air, taps, made, verdicts, dark>>

MetroStart == \E players \in Rotations : MetroInit(players)

MetroNext == MetroLap \/ Stall \/ \E d \in Drummer : PlayerTaps(d)

MetroSpec == MetroStart /\ [][MetroNext]_metroVars

-----------------------------------------------------------------------------
(* Properties                                                              *)

Mine(c) == {tap.at : tap \in Ours(made, c)}
OnBeat(t, c) == \E p \in Answers : Off(t, c, p) <= Tolerance
Answered(c) == \A p \in Answers : \E t \in Mine(c) : Off(t, c, p) <= Tolerance
LastMoment(c) == At(c, PerCycle - 1) + Tolerance

\* A cycle is judged by what its player played and not by how the taps arrived:
\* who taps every answer beat within the tolerance, and nothing else in the
\* cycle, succeeds, over delays up to the slack, stalls and the presentation
\* lead; who misses a beat or taps beside one until the last may still be
\* answered, does not.
JudgedFairly ==
    \A i \in DOMAIN verdicts :
        LET c == judged - Len(verdicts) + i - 1 IN
        /\ verdicts[i] => Answered(c) /\ \A t \in Mine(c) : OnBeat(t, c) \/ t > LastMoment(c)
        /\ Answered(c) /\ (\A t \in Mine(c) : OnBeat(t, c)) => verdicts[i]

\* A player who failed is shown the beats again when the turn comes round: no
\* beat of a cycle goes out without a pulse for the player whose cycle it is,
\* as long as there is another player in between.
TurnIsLit == Len(rotation) > 1 => dark = {}

\* A cycle is fair to its player in both: shown whole, and judged as played.
CyclesAreFair == JudgedFairly /\ TurnIsLit

=============================================================================
