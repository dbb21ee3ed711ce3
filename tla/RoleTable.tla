----------------------------- MODULE RoleTable -----------------------------
(***************************************************************************)
(* The declarations a loaded Bit brings to Control: its roles, how many    *)
(* devices each may hold, which node grants which role, and the slots that *)
(* check a device's carried instrument.  The Room's own role is the one    *)
(* GameServer.load_bit merges in for the active Room, with one place per   *)
(* declared fixture.  Everything here is constant for the life of a Bit;   *)
(* the solo roles, which the code inserts on demand, are declared up front *)
(* because they are unlimited and no property can see the insertion.       *)
(***************************************************************************)
EXTENDS Integers, FiniteSets, Sequences

CONSTANTS Instrument,     \* what a device may carry (control/instrument.py)
          ScoredRole,     \* the Bit's scored roles
          UnscoredRole,   \* the Bit's unscored, non-ROOM roles (jam roles)
          SoloRole,       \* [Instrument -> role]: the synthesized fallback
          RoomRole,       \* the ROOM-class role of the active Room
          Fixture,        \* the Room profile's fixtures
          Node,           \* the node ids a handshake may name
          NodeRoles,      \* [Node -> Seq(roles)]: RoleTable.node_map
          Limit,          \* [ScoredRole \cup UnscoredRole -> capacity]
          MaxScored,      \* [lobby] max_scored
          Unlimited,      \* capacity None, max_scored None
          Refused         \* {<<instrument, role>>}: Role.requires unmet

BitRole    == ScoredRole \cup UnscoredRole
PlayerRole == BitRole \cup {SoloRole[i] : i \in Instrument}
Role       == PlayerRole \cup {RoomRole}

\* Role.capacity: the Room role holds one device per fixture, a solo role any.
Capacity == [r \in Role |->
    IF r = RoomRole THEN Cardinality(Fixture)
    ELSE IF r \in BitRole THEN Limit[r]
    ELSE Unlimited]

ASSUME RoleTableAssumption ==
    /\ IsFiniteSet(Fixture)
    /\ Unlimited \notin Int
    /\ SoloRole \in [Instrument -> {SoloRole[i] : i \in Instrument}]
    /\ ScoredRole \cap UnscoredRole = {}
    /\ BitRole \cap {SoloRole[i] : i \in Instrument} = {}
    /\ RoomRole \notin PlayerRole
    /\ Limit \in [BitRole -> Nat \cup {Unlimited}]
    /\ MaxScored \in Nat \cup {Unlimited}
    /\ NodeRoles \in [Node -> Seq(BitRole)]
    /\ Refused \subseteq Instrument \X BitRole

\* Faulty variant: off by one at the capacity.
HasPlaceOffByOne(r, n) == Capacity[r] = Unlimited \/ n <= Capacity[r]

\* A role `r` of which `n` places are taken has one left.
HasPlace(r, n) == Capacity[r] = Unlimited \/ n < Capacity[r]

\* What `i` carries does not stop it taking role `r` (instrument.satisfies).
Fits(i, r) == <<i, r>> \notin Refused

\* n[r] places for each scored role r.  The size of this set is the sum of n.
Places(n) == UNION {{r} \X (1 .. n[r]) : r \in ScoredRole}

\* RegistrationState.scored_cap: how many devices may hold a reservation.
ScoredCap ==
    IF \E r \in ScoredRole : Capacity[r] = Unlimited
    THEN MaxScored
    ELSE LET total == Cardinality(Places(Capacity))
         IN  IF MaxScored = Unlimited \/ total < MaxScored
             THEN total ELSE MaxScored
=============================================================================
