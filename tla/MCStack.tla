------------------------------ MODULE MCStack -------------------------------
(* Stack on a small instance: run 1 is launched with a runner, a device and *)
(* a simulated Room fixture, run 2 is a Control started by hand.            *)
EXTENDS Stack

MCDirOf == [r \in 1 .. NRuns |-> r]
MCDevicesOf == [r \in 1 .. NRuns |-> IF r = 1 THEN {"ie1"} ELSE {}]
=============================================================================
