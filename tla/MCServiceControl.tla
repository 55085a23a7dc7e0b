-------------------------- MODULE MCServiceControl --------------------------
(***************************************************************************)
(* Process identifiers for a daemon that serves, one that shuts down and   *)
(* two that are being launched, one of each caller. The first's digits are *)
(* part of some line of ps.                                                *)
(***************************************************************************)
EXTENDS ServiceControl

CONSTANTS p1, p2, p3, p4

FourPids == {p1, p2, p3, p4}
OneLookalike == {p1}
==============================================================================
