-------------------------- MODULE MCBlackfinServer --------------------------
(***************************************************************************)
(* Instances of BlackfinServer for TLC: a few units and descriptors, all   *)
(* or none of the units breakable, with and without DISCONNECT_MODE.       *)
(***************************************************************************)
EXTENDS BlackfinServerProperties, TLC

CONSTANTS u1, u2, f1, f2

TwoUnits == {u1, u2}
TwoFds == {f1, f2}
OneUnit == {u1}
Nobody == {}

(* Units and descriptors are interchangeable; nothing orders them.         *)
Interchangeable == Permutations({u1, u2}) \cup Permutations({f1, f2})
=============================================================================
