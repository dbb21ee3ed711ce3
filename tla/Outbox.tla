------------------------------- MODULE Outbox -------------------------------
(***************************************************************************)
(* What the uplink promises about the report of a completed round: it is    *)
(* kept on the box unless an accident hits the very write or send that was  *)
(* to save it, and once it is kept it stays until a send of it has returned *)
(* on a real socket, or until Cap later rounds have completed.              *)
(***************************************************************************)
EXTENDS Naturals

CONSTANT Cap

VARIABLES rounds,  \* how many rounds have completed; they are numbered from 1
          kept,    \* the rounds whose report is on the box
          handed,  \* the rounds whose report was handed to a real socket
          missed   \* the rounds whose report an accident took

boxVars == <<rounds, kept, handed, missed>>

Init == rounds = 0 /\ kept = {} /\ handed = {} /\ missed = {}

\* The next round completes when the one before is accounted for.
Complete ==
    /\ rounds > 0 => rounds \in kept \cup handed \cup missed
    /\ rounds' = rounds + 1
    /\ missed' \in {missed, missed \cup {rounds'}}
    /\ UNCHANGED <<kept, handed>>

\* An accident takes the report of the last round before it is kept.
Miss ==
    /\ rounds \notin kept
    /\ missed' = missed \cup {rounds}
    /\ UNCHANGED <<rounds, kept, handed>>

Outdated == {r \in kept : r + Cap <= rounds}

\* The report of the last round is kept; outdated ones may go with it, or
\* on their own.
Keep ==
    /\ \E old \in SUBSET Outdated : kept' = (kept \ old) \cup {rounds}
    /\ rounds > 0
    /\ UNCHANGED <<rounds, handed, missed>>
Trim ==
    /\ \E old \in SUBSET Outdated : kept' = kept \ old
    /\ UNCHANGED <<rounds, handed, missed>>

\* A report leaves the box at least once, kept or not.
Hand(r) ==
    /\ r \in kept \cup {rounds} /\ r > 0
    /\ handed' = handed \cup {r}
    /\ UNCHANGED <<rounds, kept, missed>>

Settle ==
    /\ kept \subseteq handed
    /\ kept' = {}
    /\ UNCHANGED <<rounds, handed, missed>>

\* The file is rewritten when it is over its cap; a process that dies there
\* leaves it empty.
Burst ==
    /\ rounds >= Cap
    /\ kept' = {} /\ missed' = missed \cup kept
    /\ UNCHANGED <<rounds, handed>>

Next == Complete \/ Miss \/ Keep \/ Trim \/ (\E r \in 1..rounds : Hand(r)) \/ Settle \/ Burst

Spec == Init /\ [][Next]_boxVars
=============================================================================
