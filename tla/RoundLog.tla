------------------------------ MODULE RoundLog ------------------------------
(***************************************************************************)
(* What a reader of Control's log is promised about rounds: every Bit that  *)
(* is loaded is announced as loaded and, once it is over, as ended; once    *)
(* each, under its own name, and one round after the other.                 *)
(***************************************************************************)
EXTENDS Naturals, Sequences

CONSTANTS Bit,  \* names of Bits
          None  \* no line yet

VARIABLES rounds,  \* the Bits that were loaded, in order
          over,    \* how many of them are over
          loaded,  \* how many lines announced a round as loaded
          ended,   \* how many announced one as ended
          line     \* the last line, or None

logVars == <<rounds, over, loaded, ended, line>>

Line(kind, b) == [kind |-> kind, bit |-> b]

\* The process may boot with a Bit loaded, and announced.
Init ==
    /\ over = 0 /\ ended = 0
    /\ \/ rounds = <<>> /\ loaded = 0 /\ line = None
       \/ \E b \in Bit :
            /\ rounds = <<b>>
            /\ \/ loaded = 0 /\ line = None
               \/ loaded = 1 /\ line = Line("loaded", b)

\* A Bit is loaded: at once after the one before it, if that is not over yet.
Load(b) ==
    /\ rounds' = Append(rounds, b)
    /\ over' = Len(rounds)
    /\ UNCHANGED <<loaded, ended, line>>

End ==
    /\ over < Len(rounds)
    /\ over' = Len(rounds)
    /\ UNCHANGED <<rounds, loaded, ended, line>>

SayLoaded ==
    /\ loaded = ended /\ loaded < Len(rounds)
    /\ loaded' = loaded + 1
    /\ line' = Line("loaded", rounds[loaded + 1])
    /\ UNCHANGED <<rounds, over, ended>>

SayEnded ==
    /\ ended < loaded /\ loaded <= over
    /\ ended' = ended + 1
    /\ line' = Line("ended", rounds[loaded])
    /\ UNCHANGED <<rounds, over, loaded>>

Next == (\E b \in Bit : Load(b)) \/ End \/ SayLoaded \/ SayEnded

Spec == Init /\ [][Next]_logVars
=============================================================================
