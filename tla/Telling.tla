------------------------------- MODULE Telling -------------------------------
(***************************************************************************)
(* What GameServer promises to whoever set its on_grant and on_release, and *)
(* what DeviceLinkAgent relies on: roles are handed out only while a round  *)
(* is open, a device that has one loses it before it gets another, and a    *)
(* round is closed only when nobody is left with a role.                    *)
(***************************************************************************)
CONSTANTS
    Dev,        \* devices
    Role,       \* roles that are told to a device
    None        \* no role

VARIABLES
    open,       \* a round may hand out roles
    told        \* the role each device was last told of, or None

vars == <<open, told>>

\* Any devices hear at once: a role where there was none, or a role's end.
InTurn ==
    /\ told' \in [Dev -> Role \cup {None}]
    /\ \A d \in Dev : told[d] = None \/ told'[d] \in {told[d], None}

Init ==
    /\ open = FALSE
    /\ told = [d \in Dev |-> None]

Start == /\ ~open
         /\ open' = TRUE
         /\ InTurn

Turn == /\ open
        /\ open' = TRUE
        /\ InTurn

Close == /\ open
         /\ open' = FALSE
         /\ told' = [d \in Dev |-> None]

Next == Start \/ Turn \/ Close

Spec == Init /\ [][Next]_vars
=============================================================================
