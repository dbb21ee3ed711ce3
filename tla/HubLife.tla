------------------------------ MODULE HubLife ------------------------------
(***************************************************************************)
(* What the room-level code promises about a hub (an Arco server) and its   *)
(* guests (Control's own connections to it): a guest connects to a hub that *)
(* is up, and a hub is taken down only when no guest is left on it.  A hub  *)
(* may die by itself; its guests then go before what is left of it does.    *)
(***************************************************************************)
CONSTANTS
    Hub,    \* hubs, one per Arco that is spawned
    Guest,  \* Control's connections
    NoHub,  \* no hub is up
    Dead    \* the hub that was up died by itself

VARIABLES
    hub,    \* the hub that is up, Dead or NoHub
    guests  \* the connections that are open

vars == <<hub, guests>>

Init == hub = NoHub /\ guests = {}

\* A hub comes up when there is none, and no guest of an earlier one is left.
Start(h) ==
    /\ hub = NoHub /\ guests = {}
    /\ hub' = h /\ UNCHANGED guests

Connect == hub \in Hub /\ guests' \in SUBSET Guest /\ UNCHANGED hub

Disconnect == guests' = {} /\ UNCHANGED hub

Die == hub \in Hub /\ hub' = Dead /\ UNCHANGED guests

\* No client outlives the hub it is a guest on.
Stop == hub # NoHub /\ guests = {} /\ hub' = NoHub /\ UNCHANGED guests

Next == (\E h \in Hub : Start(h)) \/ Connect \/ Disconnect \/ Die \/ Stop

Spec == Init /\ [][Next]_vars
=============================================================================
