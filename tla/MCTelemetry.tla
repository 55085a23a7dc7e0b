----------------------------- MODULE MCTelemetry -----------------------------
(***************************************************************************)
(* Two units: configured as in conf/servicioConteoPersonas.conf, the first *)
(* with the identifier RetrieveCounterData writes, the second with its own,*)
(* or both with the first one, when identifiers do not matter.             *)
(***************************************************************************)
EXTENDS Telemetry

CONSTANTS u1, u2, id280, id281

TwoUnits == {u1, u2}
TwoIds == {id280, id281}
OneId == {id280}
SameImei == [u \in TwoUnits |-> id280]
ConfiguredImei == [u \in TwoUnits |-> IF u = u1 THEN id280 ELSE id281]
Nobody == {}
OneUnit == {u2}
==============================================================================
