----------------------------- MODULE MCUDPClient -----------------------------
(***************************************************************************)
(* Three devices: one more than the configuration of the repository has.   *)
(***************************************************************************)
EXTENDS UDPClient, TLC

CONSTANTS d1, d2, d3

ThreeDevices == {d1, d2, d3}
TwoDevices == {d1, d2}
==============================================================================
