----------------------------- MODULE Sequencer ------------------------------
(***************************************************************************)
(* control/sequencer.py: scores on one beat grid, turned into timed cues a *)
(* little ahead of their time.  A score is                                 *)
(*   [loop, length, skip, file], file a sequence of [beat, kind, value]    *)
(* where kind is "on", "off" (of a key), "down", "up" (the pedal) or       *)
(* "volume"; beats are whole steps of the grid, Beat of them to a beat.    *)
(* A track is a record of what _Track holds besides the score:             *)
(*   on, origin (one-shots), cursor (the next grid step not yet emitted),  *)
(*   struck (the keys struck since start()).                               *)
(* A cue is [at, load]: the grid step it sounds at and what is queued for  *)
(* it, [track, kind, value], the track being its tag too.                  *)
(***************************************************************************)
EXTENDS Integers, Sequences, FiniteSets, SequencesExt, FiniteSetsExt

CONSTANTS Tracks,
          Score,       \* each track's score
          Beat,        \* steps to a beat
          ChaseMin,    \* _CHASE_MIN_BEATS, in steps
          Lookahead    \* Sequencer.lookahead, in steps

ASSUME ScoreAssumption ==
    /\ Beat \in Nat \ {0} /\ ChaseMin \in Nat /\ Lookahead \in Nat
    /\ IsFiniteSet(Tracks)
    /\ \A t \in Tracks :
          /\ Score[t].file \in Seq(ToSet(Score[t].file))
          /\ Score[t].loop => Score[t].length \in Nat \ {0}

\* The members of S in the order Before gives them, each by the number of those
\* before it.
InOrder(S, Before(_, _)) ==
    [n \in 1 .. Cardinality(S) |->
        CHOOSE x \in S : Cardinality({y \in S : Before(y, x)}) = n - 1]

-----------------------------------------------------------------------------
(* add_track                                                               *)

\* Those of the events at the places kept, in the order they had.
Taken(f, kept) ==
    LET places == InOrder(kept, <)
    IN  [n \in DOMAIN places |-> f[places[n]]]

\* The note-off that pairs with the note-on at i of file f, 0 if none.
Partner(f, i) ==
    LET offs == {j \in DOMAIN f : j > i /\ f[j].kind = "off" /\ f[j].value = f[i].value}
    IN  IF offs = {} THEN 0 ELSE Min(offs)

\* _drop_struck_at_end: a loop's notes struck at or past its length go, and
\* their note-offs with them.
AtEnd(t) ==
    LET f    == Score[t].file
        late == {i \in DOMAIN f : f[i].kind = "on" /\ f[i].beat >= Score[t].length}
    IN  late \cup {Partner(f, i) : i \in late}

\* A one-shot loses its lead-in and starts where that ended.
Events == [t \in Tracks |->
    LET f == Score[t].file
    IN  IF Score[t].loop
        THEN Taken(f, DOMAIN f \ AtEnd(t))
        ELSE LET kept == Taken(f, {i \in DOMAIN f : f[i].beat >= Score[t].skip})
             IN  [n \in DOMAIN kept |-> [kept[n] EXCEPT !.beat = @ - Score[t].skip]]]

\* _pair_notes: the spans of the notes, for the chase.
Notes == [t \in Tracks |->
    LET f   == Events[t]
        ons == {i \in DOMAIN f : f[i].kind = "on" /\ Partner(f, i) # 0}
    IN  {[on |-> f[i].beat, off |-> f[Partner(f, i)].beat, key |-> f[i].value] : i \in ons}]

Length == [t \in Tracks |-> IF Score[t].loop THEN Score[t].length ELSE Last(Events[t]).beat]

\* start: every track is off.
Started == [t \in Tracks |-> [on |-> FALSE, origin |-> 0, cursor |-> 0, struck |-> {}]]

-----------------------------------------------------------------------------
(* enable, disable, play_once: each is the track it leaves and its cues.   *)

Cue(t, at, kind, value) == [at |-> at, load |-> [track |-> t, kind |-> kind, value |-> value]]

\* The keys of the notes under way at step b with enough of them still to come,
\* of this turn of the loop or of the one before.
Chased(t, b) ==
    {n.key : n \in {n \in Notes[t] :
        \E k \in {b \div Length[t], b \div Length[t] - 1} :
            k >= 0 /\ k * Length[t] + n.on < b /\ k * Length[t] + n.off - b >= ChaseMin}}

Enable(t, tr, b, level) ==
    [track |-> [tr EXCEPT !.on = TRUE, !.cursor = b, !.struck = @ \cup Chased(t, b)],
     cues  |-> <<Cue(t, b, "volume", level)>>
                  \o SetToSeq({Cue(t, b, "on", key) : key \in Chased(t, b)})]

\* Faulty variant: the struck set starts over with every release.
DisableForgets(t, tr, b) ==
    [track |-> [tr EXCEPT !.on = FALSE, !.struck = {}],
     cues  |-> Append(SetToSeq({Cue(t, b, "off", key) : key \in tr.struck}),
                      Cue(t, b, "up", 0))]

\* The purge of the track's queued cues that goes ahead of these is the
\* caller's: what it drops may be the release of a key this releases again.
Disable(t, tr, b) ==
    [track |-> [tr EXCEPT !.on = FALSE],
     cues  |-> Append(SetToSeq({Cue(t, b, "off", key) : key \in tr.struck}),
                      Cue(t, b, "up", 0))]

\* The next whole beat.
NextBeat(b) == Beat * ((b + Beat - 1) \div Beat)

PlayOnce(t, tr, b, level) ==
    [track |-> [tr EXCEPT !.on = TRUE, !.origin = NextBeat(b), !.cursor = NextBeat(b)],
     cues  |-> <<Cue(t, NextBeat(b), "volume", level)>>]

\* set_master: the volume of every track's part.
Master(b, level) == SetToSeq({Cue(t, b, "volume", level) : t \in Tracks})

-----------------------------------------------------------------------------
(* advance                                                                 *)

\* _window: the events of [lo, hi) as <<grid step, turn of the loop, place in
\* the file>>, which is the order they come in.
Window(t, tr, lo, hi) ==
    LET ev    == Events[t]
        turns == IF Score[t].loop THEN 0 .. (hi \div Length[t]) ELSE {0}
        base(k) == IF Score[t].loop THEN k * Length[t] ELSE tr.origin
        found == {<<base(k) + ev[i].beat, k, i>> : k \in turns, i \in DOMAIN ev}
    IN  InOrder({w \in found : w[1] >= lo /\ w[1] < hi},
                LAMBDA v, w : \/ v[1] < w[1]
                              \/ v[1] = w[1] /\ v[2] < w[2]
                              \/ v[1] = w[1] /\ v[2] = w[2] /\ v[3] < w[3])

\* One track of advance at step b: what falls before b + Lookahead and was not
\* emitted yet; a one-shot that is over switches itself off.  A volume of the
\* file's own is scaled by the master.
Advance(t, tr, b, level) ==
    LET hi   == b + Lookahead
        ev   == Events[t]
        w    == Window(t, tr, tr.cursor, hi)
        sent == {ev[w[i][3]] : i \in DOMAIN w}
        cursor == IF tr.cursor < hi THEN hi ELSE tr.cursor
        over   == tr.origin + Length[t]
    IN  IF ~tr.on THEN [track |-> tr, cues |-> <<>>]
        ELSE [track |-> [tr EXCEPT
                  !.cursor = cursor,
                  !.struck = @ \cup {e.value : e \in {e \in sent : e.kind = "on"}},
                  !.on     = Score[t].loop \/ ~(cursor > over /\ b > over)],
              cues  |-> [i \in DOMAIN w |->
                  LET e == ev[w[i][3]]
                  IN  Cue(t, w[i][1], e.kind, IF e.kind = "volume" THEN level ELSE e.value)]]

=============================================================================
