------------------------- MODULE ConnectionRegistry -------------------------
(***************************************************************************)
(* What BlackfinServer promises about its unit list, threads and locks     *)
(* abstracted away: a unit is listed, its counts are taken, something      *)
(* condemns it, and only a condemned unit is dropped. A condemnation is    *)
(* never taken back, and a OneShot registry (DISCONNECT_MODE) takes the    *)
(* counts of a connection once and condemns it by doing so.                *)
(***************************************************************************)

CONSTANTS Units, OneShot

VARIABLES
    listed,      \* units in the service list
    condemned,   \* listed units marked for removal
    served       \* listed units whose counts were taken

registryVars == <<listed, condemned, served>>

RegistryInit == listed = {} /\ condemned = {} /\ served = {}

List(u) ==
    /\ u \in Units \ listed
    /\ listed' = listed \cup {u}
    /\ UNCHANGED <<condemned, served>>

Serve(u) ==
    /\ u \in listed /\ (OneShot => u \notin served)
    /\ served' = served \cup {u}
    /\ condemned' = IF OneShot THEN condemned \cup {u} ELSE condemned
    /\ UNCHANGED listed

Condemn(u) ==
    /\ u \in listed \ condemned
    /\ condemned' = condemned \cup {u}
    /\ UNCHANGED <<listed, served>>

Drop(u) ==
    /\ u \in condemned
    /\ listed' = listed \ {u}
    /\ condemned' = condemned \ {u} /\ served' = served \ {u}

RegistryNext == \E u \in Units : List(u) \/ Serve(u) \/ Condemn(u) \/ Drop(u)

RegistrySpec == RegistryInit /\ [][RegistryNext]_registryVars
=============================================================================
