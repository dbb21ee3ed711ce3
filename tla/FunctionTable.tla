---------------------------- MODULE FunctionTable ----------------------------
(***************************************************************************)
(* The functions a Bit or an instrument declares (control/functions.py)    *)
(* and the cues the running ones write: what validate_function_table and   *)
(* load_bit (control/engine.py) refuse, which lanes the generators of a    *)
(* loaded Bit reach (control/generator_runner.py) and the cues a gesture's *)
(* numbers become (collect_stream_cues).                                   *)
(*                                                                         *)
(* A function is a record                                                  *)
(*   [name, kind, sound, target, condition, script, generator, stream]     *)
(* in which an undeclared part is None (a script: <<>>).  `sound` says     *)
(* that every value of a part whose content decides nothing else here has  *)
(* the type and the range asked of it: a name, a description, a waveform,  *)
(* a MIDI byte.  A table is the sequence of its functions, in declaration  *)
(* order.  A lane of a dev stands for its (status, data1) pair.            *)
(***************************************************************************)
EXTENDS Integers, SequencesExt, FiniteSetsExt

CONSTANTS
    None,
    ROOM, TARGET,   \* the two sentinels a declaration may address
    FixtureNames,   \* names N that can stand in a @fixture:N sentinel
    Reserved,       \* control.builtins.RESERVED_NAMES
    CueTop          \* the highest value of a cue byte: 255

Least(n, m) == IF n < m THEN n ELSE m
Most(n, m) == IF n < m THEN m ELSE n

(***************************************************************************)
(* Validation.  `owner` is "bit" or "instrument".                          *)
(***************************************************************************)

\* _check_dev.  fixture_name(dev) is dev itself for a fixture sentinel.
DevRefused(dev, owner) ==
    ~ \/ dev \in {TARGET, ROOM}
      \/ dev \in FixtureNames /\ owner = "bit"

\* _validate_step_cue.  A step's cue is [kind, dev, sound].
StepCueRefused(step, owner) ==
    \/ step.kind \notin {"midi", "play", "solid", "mute"}
    \/ step.kind \in {"play", "mute"} /\ step.offset # 0
    \/ DevRefused(step.dev, owner) \/ ~step.sound

\* _validate_script with _validate_offset: steps in non-decreasing order.
ScriptRefused(fn, owner) ==
    \E i \in DOMAIN fn.script :
        \/ fn.script[i].offset < 0
        \/ i > 1 /\ fn.script[i].offset < fn.script[i - 1].offset
        \/ StepCueRefused(fn.script[i], owner)

\* _validate_condition.  A condition is [source, verb, sound].
ConditionRefused(c, verbs) ==
    \/ c = None \/ ~c.sound
    \/ c.source = "gesture" /\ c.verb \notin verbs
    \/ c.source # "gesture" /\ c.verb # None

\* _validate_scripted, and the "instrument" branch of validate_function_table.
ScriptedRefused(fn, verbs, owner) ==
    \/ fn.generator # None \/ fn.stream # None
    \/ ScriptRefused(fn, owner)
    \/ owner = "bit" /\ (fn.target = None \/ ConditionRefused(fn.condition, verbs))
    \/ /\ owner = "instrument"
       /\ \/ fn.script = <<>> \/ fn.target # None \/ fn.condition # None
          \/ \E i \in DOMAIN fn.script : fn.script[i].dev # TARGET

\* _validate_generator.  A generator is [dev, lane, lo, hi, sound].
GeneratorRefused(fn, owner) ==
    \/ fn.generator = None
    \/ owner = "instrument" /\ fn.generator.dev # TARGET
    \/ fn.target # None \/ fn.condition # None \/ fn.script # <<>>
    \/ ~fn.generator.sound \/ fn.generator.lo > fn.generator.hi
    \/ DevRefused(fn.generator.dev, owner)

\* _validate_stream with _validate_stream_output.  A stream is
\* [verb, arg, lo, hi, outs, sound], an output [dev, lane, lo, hi, mode, sound].
StreamRefused(fn, owner) ==
    \/ fn.stream = None \/ fn.target # None \/ fn.condition # None
    \/ fn.script # <<>>
    \/ ~fn.stream.sound \/ fn.stream.lo >= fn.stream.hi \/ fn.stream.outs = <<>>
    \/ \E i \in DOMAIN fn.stream.outs :
           LET o == fn.stream.outs[i]
           IN  DevRefused(o.dev, owner) \/ ~o.sound \/ o.mode \notin {"linear", "abs"}

OfKind(table, kind) == {i \in DOMAIN table : table[i].kind = kind}
StreamsOn(table, verb) == {i \in OfKind(table, "stream") : table[i].stream.verb = verb}
StreamVerbs(table) ==
    {table[i].stream.verb : i \in {j \in OfKind(table, "stream") : table[j].stream # None}}

\* Places <<i, j>>, the j-th part of the i-th, in the order of two nested loops.
Earlier(p, q) == p[1] < q[1] \/ (p[1] = q[1] /\ p[2] < q[2])
FirstOf(places) == CHOOSE p \in places : \A q \in places : p = q \/ Earlier(p, q)

\* The outputs of the streams of one verb, and what stands at the place of one.
Outlets(table, verb) == UNION {{i} \X DOMAIN table[i].stream.outs : i \in StreamsOn(table, verb)}
SpecAt(table, p) == table[p[1]].stream
OutAt(table, p) == SpecAt(table, p).outs[p[2]]
LaneAt(table, p) == <<OutAt(table, p).dev, OutAt(table, p).lane>>

\* Those that write one lane, and all the lanes.
OnLane(table, verb, lane) == {p \in Outlets(table, verb) : LaneAt(table, p) = lane}
StreamLanes(table, verb) == {LaneAt(table, p) : p \in Outlets(table, verb)}

\* _validate_stream_lane_overlap: of the domains on a lane sorted by their low
\* ends, as they come where those are equal, neighbours may touch and no more.
StreamsOverlap(table) ==
    LET lo(p) == SpecAt(table, p).lo
        sorted(p, q) == lo(p) < lo(q) \/ (lo(p) = lo(q) /\ Earlier(p, q))
    IN  \E verb \in StreamVerbs(table) : \E lane \in StreamLanes(table, verb) :
            LET on == OnLane(table, verb, lane)
            IN  \E p, q \in on :
                    /\ sorted(p, q) /\ ~\E r \in on : sorted(p, r) /\ sorted(r, q)
                    /\ SpecAt(table, p).hi > lo(q)

\* Two declarations of one name cannot live in a FunctionTable, a dict.
Names(table) == {table[i].name : i \in DOMAIN table}

\* generator_lane
GeneratorLane(fn) == <<fn.generator.dev, fn.generator.lane>>

\* validate_function_table
TableRefused(table, verbHandlers, owner) ==
    LET verbs == verbHandlers \cup StreamVerbs(table)
        gens == OfKind(table, "generator")
    IN  \/ \E i \in DOMAIN table :
               LET fn == table[i]
               IN  \/ ~fn.sound \/ fn.name \in Reserved
                   \/ fn.kind = "scripted" /\ ScriptedRefused(fn, verbs, owner)
                   \/ fn.kind = "generator" /\ GeneratorRefused(fn, owner)
                   \/ fn.kind = "stream" /\ (owner = "instrument" \/ StreamRefused(fn, owner))
        \/ \E i, j \in gens : i < j /\ GeneratorLane(table[i]) = GeneratorLane(table[j])
        \/ StreamsOverlap(table)

(***************************************************************************)
(* Against a loaded Room, whose fixtures have the names `fixtures`.        *)
(***************************************************************************)

\* _resolve_devs, a fixture standing for its target.
ResolveDevs(dev, fixtures) == IF dev = ROOM THEN fixtures ELSE {dev}

\* _bit_fixture_names, of the function table.
NamedFixtures(table) ==
    LET devs(fn) == {fn.script[i].dev : i \in DOMAIN fn.script}
                    \cup (IF fn.generator = None THEN {} ELSE {fn.generator.dev})
                    \cup (IF fn.stream = None THEN {}
                          ELSE {fn.stream.outs[i].dev : i \in DOMAIN fn.stream.outs})
    IN  UNION {devs(table[i]) : i \in DOMAIN table} \cap FixtureNames

\* Faulty variant: the lanes are compared as they are declared.
LanesCollideDeclared(table, fixtures) ==
    \E i, j \in OfKind(table, "generator") :
        i < j /\ GeneratorLane(table[i]) = GeneratorLane(table[j])

\* _check_generator_lane_collisions
LanesCollide(table, fixtures) ==
    \E i, j \in OfKind(table, "generator") :
        /\ i < j /\ table[i].generator.lane = table[j].generator.lane
        /\ ResolveDevs(table[i].generator.dev, fixtures)
           \cap ResolveDevs(table[j].generator.dev, fixtures) # {}

\* GeneratorRunner.cues: what one tick writes, each cue the function's that
\* makes it, on its resolved dev and lane.  Nothing is suppressed: a
\* suppression only takes cues away.
TickCues(table, fixtures) ==
    UNION {{[fn |-> i, lane |-> <<dev, table[i].generator.lane>>] :
            dev \in ResolveDevs(table[i].generator.dev, fixtures)} :
           i \in OfKind(table, "generator")}

\* A fixture of a Room as a requirement sees it: [caps, pixels]; the Room has
\* `pixels` in all.  _resolve_room_requirements with satisfies.
RequirementsUnmet(reqs, fixtures, pixels) ==
    \E r \in reqs :
        /\ ~r.optional
        /\ \/ ~(r.caps \subseteq UNION {fixtures[i].caps : i \in DOMAIN fixtures})
           \/ r.minPixels > pixels

(***************************************************************************)
(* A gesture's number on its lanes.                                        *)
(***************************************************************************)

\* Python's round of n / d: to the nearest, a half to the even one.
Rounded(n, d) ==
    LET q == n \div d
        r == n % d
    IN  IF 2 * r < d \/ (2 * r = d /\ q % 2 = 0) THEN q ELSE q + 1
Magnitude(n) == IF n < 0 THEN -n ELSE n

\* stream_input: the number a stream reads, None when the gesture has none.
StreamInput(spec, args) ==
    IF spec.arg + 1 \in DOMAIN args THEN args[spec.arg + 1] ELSE None

\* stream_cues: the byte one output makes of the number x.
StreamValue(spec, o, x) ==
    LET val == IF o.mode = "abs" THEN Magnitude(x) ELSE x
        clamped == Least(Most(val, spec.lo), spec.hi)
        mapped == o.lo * (spec.hi - spec.lo) + (clamped - spec.lo) * (o.hi - o.lo)
    IN  Most(0, Least(CueTop, Rounded(mapped, spec.hi - spec.lo)))

\* The outlet of a lane whose domain is the lowest, or the highest: of equal
\* ones Python's min and max return the first.
LowOwner(table, on) ==
    LET lo(p) == SpecAt(table, p).lo
    IN  FirstOf({p \in on : \A q \in on : lo(p) <= lo(q)})
HighOwner(table, on) ==
    LET hi(p) == SpecAt(table, p).hi
    IN  FirstOf({p \in on : \A q \in on : hi(q) <= hi(p)})

\* Faulty variant: a number beyond the lane's domains is dropped.
OwnsUnclamped(table, p, on, x) == SpecAt(table, p).lo <= x /\ x <= SpecAt(table, p).hi

\* Whether the outlet p, of those on its lane, is for x: its function's domain
\* takes x, or x is beyond the lane's whole hull at the edge the function owns.
Owns(table, p, on, x) ==
    LET low == LowOwner(table, on)
        high == HighOwner(table, on)
    IN  \/ SpecAt(table, p).lo <= x /\ x <= SpecAt(table, p).hi
        \/ p[1] = low[1] /\ x < SpecAt(table, low).lo
        \/ p[1] = high[1] /\ x > SpecAt(table, high).hi

\* The outlets of a verb that are for what their function reads of the args.
Landing(table, verb, args) ==
    {p \in Outlets(table, verb) :
        LET x == StreamInput(SpecAt(table, p), args)
        IN  x # None /\ Owns(table, p, OnLane(table, verb, LaneAt(table, p)), x)}

\* collect_stream_cues, of the streams of one verb: the first of those outlets
\* that is on a lane writes it.  A cue's place is that of the outlet, which is the
\* order of the list.
CollectStreamCues(table, verb, args) ==
    LET landing == Landing(table, verb, args)
        lane(p) == LaneAt(table, p)
    IN  {[at |-> p, lane |-> lane(p),
          value |-> StreamValue(SpecAt(table, p), OutAt(table, p),
                                StreamInput(SpecAt(table, p), args))] :
         p \in {q \in landing : ~\E r \in landing : Earlier(r, q) /\ lane(r) = lane(q)}}
=============================================================================
