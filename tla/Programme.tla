----------------------------- MODULE Programme -----------------------------
(***************************************************************************)
(* The two Bits of the repository that judge or play by a beat grid, one   *)
(* of which is the one the engine runs: DeuxAraDropBit with the music it   *)
(* plays (Music), or MetronomeBit with the players of its rotation         *)
(* (Metronome).                                                            *)
(***************************************************************************)
EXTENDS Music, Metronome

VARIABLE bit   \* the Bit that is run

programme == <<musicVars, metroVars, bit>>

Plays == bit = "deux_ara_drop" /\ MusicNext /\ UNCHANGED metroVars
Judges == bit = "metronome" /\ MetroNext /\ UNCHANGED musicVars

ProgrammeInit ==
    /\ bit \in {"deux_ara_drop", "metronome"}
    /\ MusicInit
    /\ MetroStart

ProgrammeSpec == ProgrammeInit /\ [][(Plays \/ Judges) /\ UNCHANGED bit]_programme

=============================================================================
