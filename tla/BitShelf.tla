------------------------------ MODULE BitShelf -------------------------------
(***************************************************************************)
(* The Bits Control can load: a package's manifest (control/bit_config.py),*)
(* the scan of the package roots (control/bit_registry.py), overrides, and *)
(* what GameServer.load_bit (control/engine.py) refuses of a Bit in the    *)
(* Room that is up.                                                        *)
(*                                                                         *)
(* A manifest is [shape, name, kind, entry, enabled, api, rooms,          *)
(* defaultRoom, when, minScored, key, onTimeout, maxScored], of shape "fine", *)
(* "typed" (not TOML, or a value of a type the parser checks) or "raw" (a  *)
(* value it does not check, or text that is not UTF-8).  A package is      *)
(* [manifest, assets, loads, bit]; a Bit is [raises, roles, reqs, table,   *)
(* verbs, light, ugen].                                                    *)
(***************************************************************************)
EXTENDS RoomProfile

CONSTANTS
    TerrariumApi  \* TERRARIUM_API, what this engine provides

\* _parse_start: what an admin start asks for differs.
StartRefused(m) ==
    \/ m.when \notin {"immediate", "players", "operator", "admin"}
    \/ m.when = "admin" /\ m.key = None
    \/ m.minScored < (IF m.when = "admin" THEN 0 ELSE 1)
    \/ m.onTimeout \notin {"start", "abort"}

\* _parse_identity, _parse_launch and _parse_lobby.
TablesRefused(m) ==
    \/ m.name = None \/ m.entry # "module:class"
    \/ m.kind \notin {"music", "r_game", "game", "tool", "ambient"}
    \/ m.rooms = {} \/ m.defaultRoom \notin m.rooms
    \/ m.maxScored # None /\ m.maxScored < 1

\* parse_manifest: "raises" is anything but a ManifestError.
ManifestVerdict(m) ==
    CASE m.shape = "raw" -> "raises"
      [] m.shape = "typed" \/ TablesRefused(m) \/ StartRefused(m) -> "refused"
      [] OTHER -> "ok"

\* What parsing makes of it: only an admin start keeps its key.
Parsed(m) == [m EXCEPT !.key = IF m.when = "admin" THEN @ ELSE None]

\* merge_overrides: the named values over the parsed manifest, through the
\* same parsers.  "refused" or the new manifest.
Merged(m, overrides) ==
    LET n == [k \in DOMAIN m |-> IF k \in DOMAIN overrides THEN overrides[k] ELSE m[k]]
    IN  IF ~(DOMAIN overrides \subseteq DOMAIN m) \/ TablesRefused(n) \/ StartRefused(n)
        THEN None
        ELSE Parsed(n)

(***************************************************************************)
(* BitRegistry.scan, over roots [there, packages] in order.                *)
(***************************************************************************)

\* What keeps a parsed package off the shelf and in the list of errors.
PackageRefused(p) ==
    \/ ManifestVerdict(p.manifest) # "ok"
    \/ p.manifest.api # TerrariumApi
    \/ p.assets # "inside"

\* The first sound package of a name wins, enabled or not.
Scan(roots) ==
    LET package(p) == roots[p[1]].packages[p[2]]
        found == UNION {{i} \X DOMAIN roots[i].packages : i \in {k \in DOMAIN roots : roots[k].there}}
        sound == {p \in found : ~PackageRefused(package(p))}
        named(n) == {p \in sound : package(p).manifest.name = n}
    IN  [n \in {package(p).manifest.name : p \in sound} |->
            [package(FirstOf(named(n))) EXCEPT !.manifest = Parsed(@)]]

\* A manifest that makes the parser itself raise ends the scan, and the boot.
ScanRaises(roots) ==
    \E i \in DOMAIN roots : roots[i].there /\ \E j \in DOMAIN roots[i].packages :
        ManifestVerdict(roots[i].packages[j].manifest) = "raises"

\* resolve_config
ResolveConfig(shelf, name, overrides) ==
    IF name \notin DOMAIN shelf \/ ~shelf[name].manifest.enabled THEN None
    ELSE Merged(shelf[name].manifest, overrides)

(***************************************************************************)
(* GameServer.load_bit.  A role is [name, class, capacity, scored,         *)
(* requires, light, ugen, zones, sound].                                   *)
(***************************************************************************)

\* validate_role_declarations, of one role.
RoleRefused(r) ==
    \/ ~r.sound \/ LightRefused(r.light) \/ UgenRefused(r.ugen)
    \/ NamesTwice(r.zones)
    \/ \E i \in DOMAIN r.zones : \/ r.zones[i].name = "primary"
                                 \/ r.zones[i].start < 0 \/ r.zones[i].count < 1

\* RegistrationState.scored_cap of the roles, None when a role has no bound.
ScoredCap(roles) ==
    LET scored == {r \in roles : r.scored /\ r.class # "room"}
    IN  IF \E r \in scored : r.capacity = None THEN None
        ELSE FoldSet(LAMBDA r, n : n + r.capacity, 0, scored)

\* _split_target: a light target is [fixture, zone], None for "primary".
TargetRefused(t, fixtures) ==
    /\ t.fixture # None
    /\ \/ NamedAt(fixtures, t.fixture) = {}
       \/ LET zones == FixtureNamed(fixtures, t.fixture).zones
          IN  t.zone # None /\ ~\E i \in DOMAIN zones : zones[i].name = t.zone

\* The ROOM role load_bit adds for a Bit that lights or plays the Room.
RoomRole(bit, fixtures) ==
    [name |-> "room", class |-> "room", capacity |-> Len(fixtures), scored |-> FALSE,
     requires |-> None, light |-> bit.light, ugen |-> bit.ugen, zones |-> <<>>,
     sound |-> TRUE]
PlaysRoom(bit) == bit.light # <<>> \/ bit.ugen # <<>>

\* The requirements the Room itself has to meet.
RoomRequirements(bit) ==
    LET roleSlots == {r.requires : r \in bit.roles} \ {None, "room"}
        declared == {q \in bit.reqs : q.slot \notin roleSlots}
        implied == [slot |-> "room", minPixels |-> 0, optional |-> FALSE,
                    caps |-> (IF bit.light # <<>> THEN {"light.surface"} ELSE {})
                             \cup (IF bit.ugen # <<>> THEN {"audio.flsyn"} ELSE {})]
    IN  IF PlaysRoom(bit) /\ ~\E q \in bit.reqs : q.slot = "room"
        THEN declared \cup {implied} ELSE declared

\* What load_bit refuses because of the Room that is up.
RoomRefusesBit(bit, fixtures) ==
    LET names == {fixtures[i].name : i \in DOMAIN fixtures}
        offers == [i \in DOMAIN fixtures |-> [caps |-> fixtures[i].inst.caps]]
        pixels == FoldLeft(LAMBDA n, fx : n + PixelCount(fx), 0, fixtures)
    IN  \/ RequirementsUnmet(RoomRequirements(bit), offers, pixels)
        \/ ~(NamedFixtures(bit.table) \subseteq names)
        \/ \E i \in DOMAIN bit.light : TargetRefused(bit.light[i].target, fixtures)
        \/ LanesCollide(bit.table, names)

\* GameServer.load_bit of a package p, in a Room of these fixtures.
LoadRefused(p, maxScored, fixtures) ==
    LET bit == p.bit
        roles == bit.roles \cup (IF PlaysRoom(bit) THEN {RoomRole(bit, fixtures)} ELSE {})
        slots == {q.slot : q \in bit.reqs} \cup {"room", None}
    IN  \/ ~p.loads \/ bit.raises
        \/ TableRefused(bit.table, bit.verbs, "bit")
        \/ RoomRefusesBit(bit, fixtures)
        \/ \E r \in roles : r.requires \notin slots \/ RoleRefused(r)
        \/ /\ maxScored # None /\ ScoredCap(roles) # None
           /\ maxScored > ScoredCap(roles)
=============================================================================
