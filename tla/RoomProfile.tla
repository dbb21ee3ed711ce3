----------------------------- MODULE RoomProfile -----------------------------
(***************************************************************************)
(* The light surface of a Room and the wires that feed it: what            *)
(* RoomProfile.__post_init__, fixture_instrument_mismatch                  *)
(* (control/room_profile.py), validate_artnet_outputs and                  *)
(* validate_psu_budgets (control/terrarium_config.py) refuse.              *)
(*                                                                         *)
(* A fixture is [name, blocks, zones, inst], a block or zone               *)
(* [name, start, count].  An Art-Net output is [room, fixture, host,       *)
(* start, amps, psu], host being the host and port; `psus` gives the       *)
(* rating of each declared supply.                                         *)
(***************************************************************************)
EXTENDS Instruments

CONSTANTS
    MaxBlock,          \* _MAX_PROFILE_PIXELS: 170
    PixelsPerUniverse, \* _PIXELS_PER_RGBW_UNIVERSE: 128
    MaxUniverse        \* _ARTNET_MAX_UNIVERSE: 32767

ASSUME RoomProfileAssumption ==
    MaxBlock \in Nat \ {0} /\ PixelsPerUniverse \in Nat \ {0} /\ MaxUniverse \in Nat

End(run) == run.start + run.count
Pixels(run) == run.start .. End(run) - 1

\* RoomFixture.pixel_count
PixelCount(fx) ==
    LET upTo[n \in 0 .. Len(fx.blocks)] == IF n = 0 THEN 0 ELSE upTo[n - 1] + fx.blocks[n].count
    IN  upTo[Len(fx.blocks)]

\* The spans of a fixture's blocks or zones, sorted as Python sorts pairs: by start,
\* then by end, and equal ones as they come.
SpanLess(a, b) == a.start < b.start \/ (a.start = b.start /\ End(a) < End(b))
ComesBefore(runs, i, j) ==
    SpanLess(runs[i], runs[j]) \/ (~SpanLess(runs[j], runs[i]) /\ i <= j)
Spans(runs) ==
    LET rank == [i \in DOMAIN runs |-> Cardinality({j \in DOMAIN runs : ComesBefore(runs, j, i)})]
    IN  [n \in DOMAIN runs |-> runs[CHOOSE i \in DOMAIN runs : rank[i] = n]]

NamesTwice(runs) == \E i, j \in DOMAIN runs : i < j /\ runs[i].name = runs[j].name

Overlapping(runs) ==
    LET s == Spans(runs) IN \E i \in 2 .. Len(s) : s[i].start < End(s[i - 1])

\* The blocks do not tile the fixture from its first pixel on.
Gap(runs) ==
    LET s == Spans(runs)
    IN  \E i \in DOMAIN s : s[i].start # (IF i = 1 THEN 0 ELSE End(s[i - 1]))

\* RoomProfile.__post_init__
ProfileRefused(fixtures) ==
    \/ fixtures = <<>> \/ NamesTwice(fixtures)
    \/ \E i \in DOMAIN fixtures :
           LET fx == fixtures[i]
           IN  \/ fx.blocks = <<>> \/ NamesTwice(fx.blocks)
               \/ \E j \in DOMAIN fx.blocks : fx.blocks[j].count \notin 1 .. MaxBlock
               \/ Overlapping(fx.blocks) \/ Gap(fx.blocks)
               \/ \E j \in DOMAIN fx.zones :
                      fx.zones[j].start < 0 \/ End(fx.zones[j]) > PixelCount(fx)
               \/ Overlapping(fx.zones) \/ InstrumentRefused(fx.inst)

\* fixture_instrument_mismatch: a pixel the model puts in zone z is in the
\* Room's zone z, or only in zones that lie within what the model calls z.
Mismatch(fx) ==
    LET inst == fx.inst
        ofModel(z) == {p \in 0 .. Len(inst.layout) - 1 : inst.layout[p + 1] = z}
        honoured(p, z) ==
            LET over == {i \in DOMAIN fx.zones : p \in Pixels(fx.zones[i])}
            IN  \/ \E i \in over : fx.zones[i].name = z
                \/ over # {} /\ \A i \in over : Pixels(fx.zones[i]) \subseteq ofModel(z)
    IN  \/ inst.pixels \notin {0, PixelCount(fx)}
        \/ /\ inst.layout # <<>>
           /\ \/ Len(inst.layout) # PixelCount(fx)
              \/ \E i \in DOMAIN inst.layout :
                     inst.layout[i] # None /\ ~honoured(i - 1, inst.layout[i])

(***************************************************************************)
(* Art-Net outputs and power supplies.  `rooms` maps names to Rooms with   *)
(* their `fixtures`.                                                       *)
(***************************************************************************)

\* Where the fixtures of a name are, and the first of them.
NamedAt(fixtures, name) == {i \in DOMAIN fixtures : fixtures[i].name = name}
FixtureNamed(fixtures, name) == fixtures[Min(NamedAt(fixtures, name))]

\* Faulty variant: the pixels of a last, partial universe are not counted.
LastUniverseFloor(out, rooms) ==
    LET n == PixelCount(FixtureNamed(rooms[out.room].fixtures, out.fixture))
    IN  out.start + (n \div PixelsPerUniverse) - 1

\* The highest universe an output spans.
LastUniverse(out, rooms) ==
    LET n == PixelCount(FixtureNamed(rooms[out.room].fixtures, out.fixture))
    IN  out.start + ((n + PixelsPerUniverse - 1) \div PixelsPerUniverse) - 1

\* validate_artnet_outputs
OutputsRefused(outputs, rooms) ==
    \E i \in DOMAIN outputs :
        LET o == outputs[i]
        IN  \/ o.room \notin DOMAIN rooms
            \/ NamedAt(rooms[o.room].fixtures, o.fixture) = {}
            \/ \E j \in 1 .. i - 1 : outputs[j].room = o.room /\ outputs[j].fixture = o.fixture
            \/ LastUniverse(o, rooms) > MaxUniverse
            \/ \E j \in 1 .. i - 1 :
                   /\ outputs[j].host = o.host
                   /\ o.start <= LastUniverse(outputs[j], rooms)
                   /\ outputs[j].start <= LastUniverse(o, rooms)

\* validate_psu_budgets: no supply above 80 % of its rating, over all rooms.
PsusRefused(outputs, psus) ==
    LET load(p) == FoldLeft(LAMBDA n, o : IF o.psu = p THEN n + o.amps ELSE n, 0, outputs)
        named == {outputs[i].psu : i \in DOMAIN outputs} \ {None}
    IN  \E p \in named : p \notin DOMAIN psus \/ 10 * load(p) > 8 * psus[p]

\* artnet_fixtures
ArtNetFixtures(outputs, room) ==
    {outputs[i].fixture : i \in {j \in DOMAIN outputs : outputs[j].room = room}}

\* validate_rooms: the Rooms that can be loaded.
Loadable(rooms, outputs, simulator) ==
    {r \in DOMAIN rooms :
        \/ "array" \notin rooms[r].backends \/ simulator
        \/ \A i \in DOMAIN rooms[r].fixtures :
               rooms[r].fixtures[i].name \in ArtNetFixtures(outputs, r)}

(***************************************************************************)
(* What these checks are for, said of pixels and universes one by one.     *)
(***************************************************************************)

Disjoint(runs) ==
    \A i, j \in DOMAIN runs : i # j => Pixels(runs[i]) \cap Pixels(runs[j]) = {}

FixtureWhole(fx) ==
    LET surface == UNION {Pixels(fx.blocks[i]) : i \in DOMAIN fx.blocks}
    IN  /\ Disjoint(fx.blocks) /\ Disjoint(fx.zones)
        /\ surface = 0 .. Cardinality(surface) - 1
        /\ \A i \in DOMAIN fx.zones : Pixels(fx.zones[i]) \subseteq surface
        /\ fx.inst.pixels \in {0, Cardinality(surface)}

\* The universes that carry a pixel of an output's fixture.
Carried(o, rooms) ==
    LET fx == FixtureNamed(rooms[o.room].fixtures, o.fixture)
    IN  {o.start + (p \div PixelsPerUniverse) : p \in 0 .. PixelCount(fx) - 1}

WiresWhole(outputs, rooms) ==
    /\ \A i, j \in DOMAIN outputs : i < j /\ outputs[i].host = outputs[j].host =>
           Carried(outputs[i], rooms) \cap Carried(outputs[j], rooms) = {}
    /\ \A i \in DOMAIN outputs : Carried(outputs[i], rooms) \subseteq 0 .. MaxUniverse
=============================================================================
