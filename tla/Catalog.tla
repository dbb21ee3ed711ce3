------------------------------- MODULE Catalog -------------------------------
(***************************************************************************)
(* The configuration of a Terrarium and the Console that edits it.         *)
(* Instruments and rooms are files, published or drafts                    *)
(* (control/catalog.py); terrarium.toml holds inline ones, the Art-Net     *)
(* outputs and the power supplies (control/terrarium_config.py); the Bits  *)
(* are packages (BitShelf).  Booting reads them all (terrarium_boot.main); *)
(* from then on the Console saves, clones and publishes files              *)
(* (console/agent.py) while Control keeps what it read.  A file is checked *)
(* when it is published; what counts is whether the next boot accepts the  *)
(* disk.                                                                   *)
(*                                                                         *)
(* An instrument file is [shape, inst], a room file [shape, backends,      *)
(* fixtures], each fixture naming its instrument.  The shape is "fine",    *)
(* "located" (not TOML, or a defect the parser names) or "raw" (a value of *)
(* a type the parser does not check, text that is not UTF-8: it raises     *)
(* something else than a TerrariumConfigError).                            *)
(***************************************************************************)
EXTENDS BitShelf

CONSTANTS
    InstrumentName, RoomName,   \* names of files
    InstrumentFile,       \* instrument files an operator may write
    RoomFile,             \* room files
    Terrariums,           \* contents of terrarium.toml
    Shelves,              \* contents of the Bit roots
    Disks,                \* files on the disk at first
    Gestures,             \* the args a gesture may carry
    Overrides,            \* overrides a load_bit may carry
    MaxEdits              \* bound on Console commands per behaviour

Kind == {"instrument", "room"}
NamesOf(kind) == IF kind = "instrument" THEN InstrumentName ELSE RoomName
FilesOf(kind) == IF kind = "instrument" THEN InstrumentFile ELSE RoomFile

\* The files of one state, by kind and name, and both states.
Store == [instrument : [InstrumentName -> InstrumentFile \cup {None}],
          room : [RoomName -> RoomFile \cup {None}]]
Disk == [published : Store, drafts : Store]

\* A room file's fixtures are a list, their blocks and zones lists of runs of
\* whole numbers.
IsList(list) == list \in Seq({list[i] : i \in DOMAIN list})
RunsOK(runs) == IsList(runs) /\ \A i \in DOMAIN runs : {runs[i].start, runs[i].count} \subseteq Int
RoomFileOK(file) ==
    /\ IsList(file.fixtures)
    /\ \A i \in DOMAIN file.fixtures :
           RunsOK(file.fixtures[i].blocks) /\ RunsOK(file.fixtures[i].zones)

\* A Bit's table is a list; a stream reads a number at a place of the args and maps
\* whole numbers to whole numbers.
TableOK(table) ==
    /\ IsList(table)
    /\ \A i \in OfKind(table, "stream") :
           LET s == table[i].stream
           IN  s # None => /\ s.arg \in Nat /\ {s.lo, s.hi} \subseteq Int /\ IsList(s.outs)
                           /\ \A j \in DOMAIN s.outs : {s.outs[j].lo, s.outs[j].hi} \subseteq Int
ShelfOK(rs) ==
    /\ IsList(rs)
    /\ \A i \in DOMAIN rs :
           /\ IsList(rs[i].packages)
           /\ \A j \in DOMAIN rs[i].packages :
                  /\ "bit" \in DOMAIN rs[i].packages[j]
                  /\ TableOK(rs[i].packages[j].bit.table)

ASSUME GestureAssumption ==
    /\ None \notin Int /\ CueTop \in Nat /\ Gestures \subseteq Seq(Int)
    /\ \A rs \in Shelves : ShelfOK(rs)

ASSUME CatalogAssumption ==
    /\ None \notin InstrumentFile \cup RoomFile /\ Disks \subseteq Disk /\ MaxEdits \in Nat
    /\ \A file \in RoomFile : RoomFileOK(file)
    /\ \A t \in Terrariums :
           /\ \A r \in DOMAIN t.rooms : RoomFileOK(t.rooms[r])
           /\ IsList(t.outputs) /\ \A i \in DOMAIN t.outputs : t.outputs[i].start \in Nat

VARIABLES
    disk,     \* [published, drafts]: by kind and name a file, or None
    toml,     \* terrarium.toml
    roots,    \* the Bit roots
    config,   \* what Control read: [instruments, rooms, outputs], None when down
    shelf,    \* the registry's packages
    room,     \* the Room that is up, None
    game,     \* the loaded Bit: [table, manifest], None
    edits,    \* Console commands so far
    exposed   \* history: no boot was possible at first, or a command was let
              \* through that Control does not check

catalogVars == <<disk, toml, roots, config, shelf, room, game, edits, exposed>>

Present(files) == {n \in DOMAIN files : files[n] # None}

(***************************************************************************)
(* Parsing one file.                                                       *)
(***************************************************************************)

\* _parse_instrument
InstrumentVerdict(file) ==
    IF file.shape = "raw" THEN "raises"
    ELSE IF file.shape = "located" \/ InstrumentRefused(file.inst) THEN "refused"
    ELSE "ok"

\* The fixtures of a room file with the instruments they name.
Fitted(file, instruments) ==
    [i \in DOMAIN file.fixtures |->
        [name |-> file.fixtures[i].name, blocks |-> file.fixtures[i].blocks,
         zones |-> file.fixtures[i].zones,
         inst |-> instruments[file.fixtures[i].instrument]]]

RoomOf(file, instruments) ==
    [backends |-> file.backends, fixtures |-> Fitted(file, instruments)]

\* _parse_room
RoomVerdict(file, instruments) ==
    IF file.shape = "raw" THEN "raises"
    ELSE IF \/ file.shape = "located"
            \/ ~(file.backends \subseteq {"devicelink", "array"})
            \/ \E i \in DOMAIN file.fixtures :
                   file.fixtures[i].instrument \notin DOMAIN instruments
         THEN "refused"
    ELSE LET fixtures == Fitted(file, instruments)
         IN  IF \/ ProfileRefused(fixtures)
                \/ \E i \in DOMAIN fixtures : Mismatch(fixtures[i])
             THEN "refused" ELSE "ok"

\* _parse_text
Verdict(kind, file, instruments) ==
    IF kind = "instrument" THEN InstrumentVerdict(file) ELSE RoomVerdict(file, instruments)

(***************************************************************************)
(* Whole catalogs and the boot.                                            *)
(***************************************************************************)

\* load_catalog with _parse_entry: a published file's defect is the
\* catalog's, a draft's is recorded with it; what is not a
\* TerrariumConfigError goes through either way.
CatalogVerdict(d, kind, instruments) ==
    LET of(files) == {Verdict(kind, files[kind][n], instruments) : n \in Present(files[kind])}
    IN  IF "raises" \in of(d.published) THEN "raises"
        ELSE IF "refused" \in of(d.published) THEN "refused"
        ELSE IF "raises" \in of(d.drafts) THEN "raises"
        ELSE "ok"

\* Catalog.published of the instruments, and with the inline ones.
PublishedInstruments(d) ==
    [n \in Present(d.published["instrument"]) |-> d.published["instrument"][n].inst]
AllInstruments(d, t) ==
    LET published == PublishedInstruments(d)
    IN  [n \in DOMAIN published \cup DOMAIN t.instruments |->
            IF n \in DOMAIN published THEN published[n] ELSE t.instruments[n]]

\* The rooms of both homes, resolved.
AllRooms(d, t) ==
    LET instruments == AllInstruments(d, t)
    IN  [r \in DOMAIN t.rooms \cup Present(d.published["room"]) |->
            RoomOf(IF r \in DOMAIN t.rooms THEN t.rooms[r] ELSE d.published["room"][r],
                   instruments)]

\* parse_terrarium_config, given the published instruments.
TomlAccepted(d, t) ==
    /\ \A n \in DOMAIN t.instruments : ~InstrumentRefused(t.instruments[n])
    /\ DOMAIN t.instruments \cap Present(d.published["instrument"]) = {}
    /\ ~PsusRefused(t.outputs, t.psus)
    /\ \A r \in DOMAIN t.rooms : RoomVerdict(t.rooms[r], AllInstruments(d, t)) = "ok"

\* load_terrarium_config, and the scan of the Bit roots that follows it in
\* main(): whether a boot gets past its configuration.
Bootable(d, t, rs) ==
    /\ CatalogVerdict(d, "instrument", <<>>) = "ok"
    /\ TomlAccepted(d, t)
    /\ CatalogVerdict(d, "room", AllInstruments(d, t)) = "ok"
    /\ DOMAIN t.rooms \cap Present(d.published["room"]) = {}
    /\ DOMAIN t.rooms \cup Present(d.published["room"]) # {}
    /\ ~OutputsRefused(t.outputs, AllRooms(d, t))
    /\ ~ScanRaises(rs)

(***************************************************************************)
(* The Console's commands.  Any that raises takes Control down: the boot   *)
(* loop calls the Console's poll() unguarded.                              *)
(***************************************************************************)

\* _instruments_for_rooms: what Control read when it booted.
InstrumentsForRooms == config.instruments

\* Faulty variant: the first room to bind the instrument is taken for all.
RoomsRefuseNone(d, name, inst, instruments) == FALSE

\* _room_refusal_for_instrument: a published room that binds the instrument
\* would no longer parse with the candidate in its place.
RoomsRefuse(d, name, inst, instruments) ==
    LET with == [n \in {name} \cup DOMAIN instruments |->
                    IF n = name THEN inst ELSE instruments[n]]
        rooms == d.published["room"]
    IN  \E r \in Present(rooms) :
            /\ \E i \in DOMAIN rooms[r].fixtures : rooms[r].fixtures[i].instrument = name
            /\ RoomVerdict(rooms[r], with) = "refused"

\* publish_entry's refusals, past the draft's being there.
PublishVerdict(d, kind, name) ==
    LET file == d.drafts[kind][name]
        v == Verdict(kind, file, InstrumentsForRooms)
    IN  IF v # "ok" THEN v
        ELSE IF kind = "instrument" /\ RoomsRefuse(d, name, file.inst, InstrumentsForRooms)
             THEN "refused" ELSE "ok"

\* _design_rows, after a command that did not refuse, raises for what no
\* catalog load catches.
RowsRaise(d) ==
    \/ CatalogVerdict(d, "instrument", <<>>) = "raises"
    \/ CatalogVerdict(d, "room", InstrumentsForRooms) = "raises"

\* Control is gone, and with it what it had read; the disk stays.
Gone ==
    /\ config' = None /\ shelf' = None /\ room' = None /\ game' = None

\* A command that left the disk as d.
Answered(d, raised) ==
    /\ disk' = d /\ edits' = edits + 1
    /\ IF raised \/ RowsRaise(d) THEN Gone ELSE UNCHANGED <<config, shelf, room, game>>
    /\ UNCHANGED <<toml, roots>>

Commands == config # None /\ edits < MaxEdits

\* save_draft: the file is written, then parsed for its errors.
Save(kind, name, file) ==
    /\ Commands
    /\ LET d == [disk EXCEPT !.drafts[kind][name] = file]
           raised == Verdict(kind, file, InstrumentsForRooms) = "raises"
       IN  /\ d # disk /\ Answered(d, raised)
           /\ exposed' = (exposed \/ raised)

\* clone_entry, of a published file or of a draft
Clone(kind, state, source, name) ==
    /\ Commands
    /\ disk[state][kind][source] # None /\ disk.drafts[kind][name] = None
    /\ Answered([disk EXCEPT !.drafts[kind][name] = disk[state][kind][source]], FALSE)
    /\ UNCHANGED exposed

\* What publishing (kind, name) is not checked against: an inline entry of
\* the same name, inline rooms that bind the instrument, the outputs that
\* name the room, and instruments published since Control booted.
Unchecked(d, kind, name) ==
    \/ name \in DOMAIN toml.instruments \/ name \in DOMAIN toml.rooms
    \/ /\ kind = "instrument"
       /\ \E r \in DOMAIN toml.rooms : \E i \in DOMAIN toml.rooms[r].fixtures :
              toml.rooms[r].fixtures[i].instrument = name
    \/ \E i \in DOMAIN toml.outputs :
           kind = "room" /\ toml.outputs[i].room = name
    \/ /\ kind = "room"
       /\ \E i \in DOMAIN d.drafts["room"][name].fixtures :
              LET n == d.drafts["room"][name].fixtures[i].instrument
              IN  /\ n \in Present(d.published["instrument"])
                  /\ n \in DOMAIN config.instruments =>
                         config.instruments[n] # d.published["instrument"][n].inst

\* publish_entry: a sound draft replaces the published file.
Publish(kind, name) ==
    /\ Commands /\ disk.drafts[kind][name] # None
    /\ PublishVerdict(disk, kind, name) = "ok"
    /\ Answered([disk EXCEPT !.published[kind][name] = disk.drafts[kind][name],
                             !.drafts[kind][name] = None], FALSE)
    /\ exposed' = (exposed \/ Unchecked(disk, kind, name))

(***************************************************************************)
(* Control's life.                                                         *)
(***************************************************************************)

\* main(): the configuration is read, the Bits are scanned.
Boot ==
    /\ config = None /\ Bootable(disk, toml, roots)
    /\ config' = [instruments |-> AllInstruments(disk, toml),
                  rooms |-> AllRooms(disk, toml), outputs |-> toml.outputs]
    /\ shelf' = Scan(roots)
    /\ UNCHANGED <<disk, toml, roots, room, game, edits, exposed>>

Stop == config # None /\ Gone /\ UNCHANGED <<disk, toml, roots, edits, exposed>>

\* Terrarium.load_room past its gate, validate_rooms.  One process takes up
\* one Room; here without a simulator for an "array" Room.
TakeUpRoom(r) ==
    /\ config # None /\ room = None
    /\ r \in Loadable(config.rooms, config.outputs, FALSE)
    /\ room' = r
    /\ UNCHANGED <<disk, toml, roots, config, shelf, game, edits, exposed>>

\* load_bit from the Console: the overrides resolved, the Room one the Bit
\* supports, and GameServer.load_bit's own refusals.
TakeUpBit(b, overrides) ==
    /\ config # None /\ room # None /\ game = None
    /\ LET m == ResolveConfig(shelf, b, overrides)
       IN  /\ m # None /\ room \in m.rooms
           /\ ~LoadRefused(shelf[b], m.maxScored, config.rooms[room].fixtures)
           /\ game' = [table |-> shelf[b].bit.table, manifest |-> m]
    /\ UNCHANGED <<disk, toml, roots, config, shelf, room, edits, exposed>>

CatalogInit ==
    /\ toml \in Terrariums /\ roots \in Shelves
    /\ disk \in Disks
    /\ config = None /\ shelf = None /\ room = None /\ game = None
    /\ edits = 0 /\ exposed = ~Bootable(disk, toml, roots)

CatalogNext ==
    \/ Boot \/ Stop
    \/ \E k \in Kind : \E n \in NamesOf(k) :
           \/ Publish(k, n)
           \/ \E file \in FilesOf(k) : Save(k, n, file)
           \/ \E state \in {"published", "drafts"}, s \in NamesOf(k) : Clone(k, state, s, n)
    \/ \E r \in RoomName : TakeUpRoom(r)
    \/ shelf # None /\ \E b \in DOMAIN shelf, o \in Overrides : TakeUpBit(b, o)

CatalogSpec == CatalogInit /\ [][CatalogNext]_catalogVars

-----------------------------------------------------------------------------
(***************************************************************************)
(* Properties.                                                             *)
(***************************************************************************)

\* Type invariant.
CatalogTyped ==
    /\ disk \in Disk /\ toml \in Terrariums /\ roots \in Shelves
    /\ room \in RoomName \cup {None}
    /\ room # None => config # None /\ room \in DOMAIN config.rooms
    /\ game # None => room # None
    /\ edits \in 0 .. MaxEdits /\ exposed \in BOOLEAN

\* Whatever a Console session saves, clones and publishes, the next boot
\* accepts the disk if the first one did ("A publish must not break a
\* published room that binds it", console/agent.py:588; "drafts collect their
\* error", control/catalog.py:4), unless one of the commands Control does not
\* check was among them (Unchecked, and a draft the parser raises on).
StaysBootable == ~exposed => Bootable(disk, toml, roots)

\* Of every Room Control has read, each fixture's pixels are driven by exactly
\* one block each, its zones lie on them and apart, its instrument agrees on
\* their number, and no two Art-Net outputs of a host share a universe
\* (control/room_profile.py:140-194, control/terrarium_config.py:755-792).
SurfacesAreWhole ==
    config # None =>
        /\ \A r \in DOMAIN config.rooms : \A i \in DOMAIN config.rooms[r].fixtures :
               FixtureWhole(config.rooms[r].fixtures[i])
        /\ WiresWhole(config.outputs, config.rooms)

FixturesUp == {config.rooms[room].fixtures[i].name : i \in DOMAIN config.rooms[room].fixtures}

\* The generators' cues of one tick.
WriteOnce(cues) == \A c, d \in cues : c # d => c.lane # d.lane

\* The number x lies between two domains of the lane the outlets `on` write.
InGap(table, on, x) ==
    /\ \E p \in on : SpecAt(table, p).lo < x
    /\ \E p \in on : x < SpecAt(table, p).hi
    /\ ~\E p \in on : SpecAt(table, p).lo <= x /\ x <= SpecAt(table, p).hi

\* A gesture writes a lane at most once, with a value of the cue's range; if all
\* the streams of the lane read one number of it, not at all only in a gap.
LandOnce(table, verb, args) ==
    \A lane \in StreamLanes(table, verb) :
        LET cues == {c \in CollectStreamCues(table, verb, args) : c.lane = lane}
            on == OnLane(table, verb, lane)
            reads == {StreamInput(SpecAt(table, p), args) : p \in on}
        IN  /\ \A c, d \in cues : c = d
            /\ \A c \in cues : c.value \in 0 .. CueTop
            /\ \A x \in reads \ {None} : reads = {x} => (cues = {} <=> InGap(table, on, x))

\* Of a loaded Bit, the generators never write one lane of one fixture twice in a
\* tick, whichever of them address the whole Room and which a fixture
\* (control/engine.py:1117-1141); and a gesture writes no lane its verb streams to
\* twice, and none not at all but one whose streams' domains it falls between, or
\* read different numbers of it (control/functions.py:299-347).
LanesWrittenOnce ==
    game # None =>
        /\ WriteOnce(TickCues(game.table, FixturesUp))
        /\ \A verb \in StreamVerbs(game.table), args \in Gestures :
               LandOnce(game.table, verb, args)

=============================================================================
