------------------------------ MODULE MCCatalog ------------------------------
(***************************************************************************)
(* A small installation for Catalog: two instruments, two rooms, and the   *)
(* files, Bits and terrarium.toml texts in which every refusal occurs.     *)
(* Blocks end at 3 pixels instead of 170, a universe holds 2 instead of    *)
(* 128, the last universe is 2 instead of 32767.                           *)
(***************************************************************************)
EXTENDS Catalog

\* Functions.
Fn(name, kind) == [name |-> name, kind |-> kind, sound |-> TRUE, target |-> None,
                   condition |-> None, script |-> <<>>, generator |-> None, stream |-> None]
Gen(name, dev, lane) == [Fn(name, "generator") EXCEPT
    !.generator = [dev |-> dev, lane |-> lane, lo |-> 0, hi |-> 3, sound |-> TRUE]]
Out(dev, lane, lo, hi, mode) ==
    [dev |-> dev, lane |-> lane, lo |-> lo, hi |-> hi, mode |-> mode, sound |-> TRUE]
Stream(name, lo, hi, outs) == [Fn(name, "stream") EXCEPT
    !.stream = [verb |-> "tilt", arg |-> 0, lo |-> lo, hi |-> hi, outs |-> outs, sound |-> TRUE]]
Step(kind, dev, offset) == [kind |-> kind, dev |-> dev, offset |-> offset, sound |-> TRUE]
Script(name, steps) == [Fn(name, "scripted") EXCEPT !.script = steps]
BitScript(name, source, verb, steps) == [Script(name, steps) EXCEPT !.target = "room",
    !.condition = [source |-> source, verb |-> verb, sound |-> TRUE]]

\* Instrument files.
Plain == [name |-> "plain", pixels |-> 0, caps |-> {"light.surface"}, cues |-> {"midi"},
          table |-> <<Gen("sway", TARGET, 1), Script("blink", <<Step("midi", TARGET, 0),
                                                                Step("midi", TARGET, 1)>>)>>,
          solo |-> {<<"tap", "blink">>}, triggers |-> {}, light |-> <<>>, ugen |-> <<>>,
          layout |-> <<>>]
File(inst) == [shape |-> "fine", inst |-> inst]
MCInstrumentFile ==
    {File(Plain), File([Plain EXCEPT !.pixels = 4]),
     File([Plain EXCEPT !.pixels = 2, !.layout = <<"low", "low">>]),
     File([Plain EXCEPT !.cues = {}]),
     [shape |-> "raw", inst |-> Plain]}

\* Room files.
Run(name, start, count) == [name |-> name, start |-> start, count |-> count]
Fixture(name, inst, blocks, zones) ==
    [name |-> name, instrument |-> inst, blocks |-> blocks, zones |-> zones]
RoomText(fixtures) == [shape |-> "fine", backends |-> {"array"}, fixtures |-> fixtures]
Two == <<Run("a", 0, 2), Run("b", 2, 2)>>
MCRoomFile ==
    {RoomText(<<Fixture("wall", "lamp", Two, <<Run("low", 0, 2), Run("high", 2, 2)>>)>>),
     RoomText(<<Fixture("wall", "lamp", <<Run("a", 0, 2)>>, <<Run("low", 0, 2)>>),
                Fixture("post", "ring", <<Run("a", 0, 3)>>, <<>>)>>),
     RoomText(<<Fixture("wall", "lamp", <<Run("a", 0, 2), Run("b", 3, 1)>>, <<>>)>>),
     RoomText(<<Fixture("wall", "lamp", <<Run("a", 0, 2), Run("b", 1, 2)>>, <<>>)>>),
     RoomText(<<Fixture("wall", "lamp", Two, <<Run("low", 0, 2), Run("low", 1, 2)>>)>>)}

\* Bits.
Manifest == [shape |-> "fine", name |-> "jam", kind |-> "game", entry |-> "module:class",
             enabled |-> TRUE, api |-> TerrariumApi, rooms |-> {"hall", "loft"},
             defaultRoom |-> "hall", when |-> "admin", minScored |-> 0, key |-> "k",
             onTimeout |-> "start", maxScored |-> None]
Role(name, class, capacity) ==
    [name |-> name, class |-> class, capacity |-> capacity, scored |-> class # "jam",
     requires |-> None, light |-> <<>>, ugen |-> <<>>, zones |-> <<>>, sound |-> TRUE]
Bit(table, reqs, light) ==
    [raises |-> FALSE, roles |-> {Role("lead", "exclusive", 1), Role("jam", "jam", None)},
     reqs |-> reqs, table |-> table, verbs |-> {}, light |-> light, ugen |-> <<>>]
Package(manifest, bit) == [manifest |-> manifest, assets |-> "inside", loads |-> TRUE, bit |-> bit]
Named(name) == [Manifest EXCEPT !.name = name]
LightOn(fixture) == <<[target |-> [fixture |-> fixture, zone |-> None], sound |-> TRUE]>>

Tilts == <<Stream("up", 0, 2, <<Out(TARGET, 1, 0, 4, "linear"), Out(ROOM, 2, 4, 0, "abs")>>),
           Stream("down", -2, 0, <<Out(TARGET, 1, 4, 0, "linear")>>),
           Stream("far", 4, 5, <<Out(TARGET, 1, 2, 3, "linear")>>)>>
\* Two streams of one lane that read different numbers.
Crossed == <<Stream("x", 0, 2, <<Out(TARGET, 3, 0, 4, "linear")>>),
             [Stream("y", 2, 5, <<Out(TARGET, 3, 0, 4, "linear")>>) EXCEPT !.stream.arg = 1]>>
OverlappingTilts == <<Stream("up", 0, 3, <<Out(TARGET, 1, 0, 4, "linear")>>),
                      Stream("on", 2, 5, <<Out(TARGET, 1, 0, 4, "linear")>>)>>
Bits ==
    <<Package(Named("streams"), Bit(Crossed, {}, <<>>)),
      Package(Named("overlap"), Bit(OverlappingTilts, {}, <<>>)),
      Package(Named("sway"), Bit(<<Gen("a", ROOM, 1), Gen("b", "wall", 2)>>, {}, LightOn(None))),
      Package(Named("clash"), Bit(<<Gen("a", ROOM, 1), Gen("b", "wall", 1)>>, {}, <<>>)),
      Package(Named("post"), Bit(<<Gen("a", "post", 1), Gen("b", "wall", 1)>>, {}, LightOn("post"))),
      Package([Named("capped") EXCEPT !.maxScored = 2], Bit(<<>>, {}, <<>>)),
      Package(Named("wide"), Bit(<<BitScript("cue", "gesture", "tilt", <<Step("midi", ROOM, 0)>>)>>
                                 \o Tilts,
                                 {[slot |-> "x", caps |-> {"light.surface"}, minPixels |-> 5,
                                   optional |-> FALSE]}, <<>>))>>
MCShelves ==
    {<<[there |-> FALSE, packages |-> <<>>], [there |-> TRUE, packages |-> Bits]>>,
     <<[there |-> TRUE, packages |-> <<Package([Named("sway") EXCEPT !.enabled = FALSE],
                                               Bit(<<>>, {}, <<>>))>>],
       [there |-> TRUE, packages |-> Bits]>>}
MCGestures == {<<>>} \cup {<<x>> : x \in {-3, -2, -1, 0, 1, 2, 3, 5, 6}} \cup {<<x, 4 - x>> : x \in {-1, 3}}
MCOverrides == {<<>>, [when |-> "operator"], [when |-> "operator", minScored |-> 1]}

\* terrarium.toml and the disk at first.
Output(r, fixture, start, psu) == [room |-> r, fixture |-> fixture, host |-> "wled", start |-> start,
                                   amps |-> 4, psu |-> psu]
Toml(instruments, rooms, outputs, psus) ==
    [instruments |-> instruments, rooms |-> rooms, outputs |-> outputs, psus |-> psus]
MCTerrariums ==
    {Toml(<<>>, <<>>, <<Output("hall", "wall", 0, "box")>>, [box |-> 5]),
     Toml(<<>>, <<>>, <<Output("loft", "wall", 0, None), Output("loft", "post", 1, None)>>, <<>>),
     Toml(<<>>, <<>>, <<Output("loft", "post", 0, None), Output("loft", "wall", 1, None)>>, <<>>),
     Toml([ring |-> Plain], <<>>, <<>>, <<>>)}

Empty(names) == [n \in names |-> None]
NoFiles == [instrument |-> Empty(InstrumentName), room |-> Empty(RoomName)]
MCDisks ==
    {[published |-> [instrument |-> [lamp |-> File(Plain), ring |-> ring],
                     room |-> [hall |-> CHOOSE f \in MCRoomFile : /\ Len(f.fixtures) = 1
                                                                  /\ RoomVerdict(f, [lamp |-> Plain]) = "ok",
                               loft |-> loft]],
      drafts |-> NoFiles] :
        ring \in {None, File(Plain)},
        loft \in {None} \cup {f \in MCRoomFile : Len(f.fixtures) = 2}}
=============================================================================
