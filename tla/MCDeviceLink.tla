---------------------------- MODULE MCDeviceLink ----------------------------
(***************************************************************************)
(* DeviceLink for TLC.                                                     *)
(***************************************************************************)
EXTENDS DeviceLink, TLC

\* Devices differ in nothing.
Alike == Permutations(Dev)
=============================================================================
