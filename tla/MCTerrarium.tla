---------------------------- MODULE MCTerrarium ----------------------------
(***************************************************************************)
(* Terrarium for TLC: a Room of two fixtures, and one whose only fixture is *)
(* driven over Art-Net.  A process is spared all accidents but those of    *)
(* Accidents, or meets any of AllAccidents; what Terrarium promises of the *)
(* first is stated of the first here.                                      *)
(***************************************************************************)
EXTENDS Terrarium

CONSTANTS studio, gallery, lamp, strip

MCRoom == {studio, gallery}
MCFixture == {lamp, strip}
MCNeeded == [r \in MCRoom |-> IF r = studio THEN <<lamp, strip>> ELSE <<>>]
MCDriven == {gallery}

\* The ways to start the process.
RoomOrNot == {studio, None}

VARIABLE spared

Worst == INSTANCE Terrarium WITH Accidents <- AllAccidents

MCInit == Init /\ spared \in BOOLEAN

SparedStep == spared /\ Next /\ UNCHANGED spared
ExposedStep == ~spared /\ Worst!Next /\ UNCHANGED spared

MCSpec ==
    /\ MCInit
    /\ [][SparedStep \/ ExposedStep]_<<vars, spared>>
    /\ Worst!Fairness

-----------------------------------------------------------------------------
\* A process spared the rarer accidents leaves no child behind, neither in a
\* load that fails or is interrupted nor when it goes down.
SparedOrphans == spared => NoOrphans

\* Its Room stands as a whole or not at all, is served once, and is not taken
\* away under Control's clients.
SparedWhole == spared => AllOrNothing /\ ServedOnce /\ NeverStranded

\* No client outlives the hub it is a guest on: a spared process implements
\* HubLife.  Its hub is the Arco of the latest load, dead while only the step
\* that stops it is left.
HubNow ==
    IF ~spared THEN NoHub
    ELSE IF Arco \in alive THEN loads
    ELSE IF Arco \in OnStack THEN -1 ELSE NoHub
GuestsNow ==
    {g \in {"pool", "transport"} :
       spared /\ (IF g = "pool" THEN pool ELSE transport) # NoHub}
SparedLife == INSTANCE HubLife WITH
    Hub <- 1 .. MaxLoads, Guest <- {"pool", "transport"}, NoHub <- NoHub, Dead <- -1,
    hub <- HubNow, guests <- GuestsNow
SparedHub == SparedLife!Spec
=============================================================================
