--------------------------- MODULE MCRoundServer ---------------------------
(***************************************************************************)
(* Small instances of RoundServer: one Bit for each start condition.        *)
(***************************************************************************)
EXTENDS RoundServer, TLC

CONSTANTS now,    \* starts at once when its window is over
          keyed,  \* waits for an admin
          met     \* waits for players

\* The window and the timeouts of the Bits, in iterations of the hold.
WhenOf == (now :> "immediate") @@ (keyed :> "admin") @@ (met :> "players")
SetupOf == (now :> 1) @@ (keyed :> 0) @@ (met :> 3)
TimeoutOf == (now :> None) @@ (keyed :> 2) @@ (met :> 2)
OnTimeoutOf == (now :> "start") @@ (keyed :> "start") @@ (met :> "abort")
MinScoredOf == (now :> 0) @@ (keyed :> 1) @@ (met :> 2)
=============================================================================
