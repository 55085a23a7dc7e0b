------------------------------ MODULE UDPClient ------------------------------
(***************************************************************************)
(* One run of client/client.pl: for each configured device, in the order   *)
(* of a Perl hash, fetch its document from memcached, send a datagram to   *)
(* the collector and wait for the answer, sleep, close the socket. The     *)
(* server saves and memcached expires documents meanwhile (see Telemetry); *)
(* what a message says of a document is the subject of SensorLine.         *)
(***************************************************************************)
EXTENDS Naturals, FiniteSets

CONSTANTS
    Devices,    \* addresses in the configuration
    None,       \* no document, no device
    Lossy       \* may datagrams get lost, and the collector not listen?

ASSUME ClientAssumption ==
    IsFiniteSet(Devices) /\ None \notin Devices /\ Lossy \in BOOLEAN

(* A document under the key of the device: valid JSON filed under the      *)
(* identifier the configuration gives the device or under another one      *)
(* (then the message has no identifier and no counts), or no valid JSON.   *)
Docs == {"own", "foreign", "invalid"}

VARIABLES
    cache,      \* memcached: the document of each device, or None
    pc,         \* where the client is
    todo,       \* devices the loop has yet to visit
    device,     \* device in hand
    doc,        \* document in hand
    socket,     \* "new" until the first send, then "used", then "closed"
    net,        \* datagram under way: none, request, reply, or an ICMP error
    about,      \* device the datagram under way is about
    lost,       \* history: has a datagram got lost?
    valid,      \* history: devices whose document could be read
    reported    \* history: devices the collector has got a message about

loopVars == <<pc, todo, device, doc>>
netVars  == <<net, about, lost>>
vars == <<cache, loopVars, socket, netVars, valid, reported>>

TypeOK ==
    /\ cache \in [Devices -> Docs \cup {None}]
    /\ pc \in {"loop", "send", "recv", "sleep", "ended", "died"}
    /\ todo \subseteq Devices /\ device \in Devices \cup {None}
    /\ doc \in Docs \cup {None}
    /\ socket \in {"new", "used", "closed"}
    /\ net \in {"none", "request", "reply", "refused"} /\ about \in Devices \cup {None}
    /\ lost \in BOOLEAN
    /\ valid \subseteq Devices /\ reported \subseteq Devices

Init ==
    /\ cache \in [Devices -> Docs \cup {None}]
    /\ pc = "loop" /\ todo = Devices /\ device = None /\ doc = None
    /\ socket = "new" /\ net = "none" /\ about = None /\ lost = FALSE
    /\ valid = {} /\ reported = {}

-----------------------------------------------------------------------------
(* The next device: a document that is no valid JSON is skipped.           *)
Fetch(d) ==
    /\ pc = "loop" /\ d \in todo
    /\ todo' = todo \ {d} /\ device' = d /\ doc' = cache[d]
    /\ IF cache[d] \in {"own", "foreign"}
         THEN pc' = "send" /\ valid' = valid \cup {d}
         ELSE pc' = "sleep" /\ UNCHANGED valid
    /\ UNCHANGED <<cache, socket, netVars, reported>>

(* Mutant: the socket is connected to nobody.                              *)
SendNowhere ==
    /\ pc = "send" /\ socket # "closed"
    /\ socket' = "used" /\ pc' = "recv"
    /\ UNCHANGED <<cache, todo, device, doc, netVars, valid, reported>>

Send ==
    /\ pc = "send" /\ socket # "closed"
    /\ net' = "request" /\ about' = device
    /\ socket' = "used" /\ pc' = "recv"
    /\ UNCHANGED <<cache, todo, device, doc, lost, valid, reported>>

(* send on a closed socket returns undef where IO::Socket remembers the    *)
(* peer, and dies where it does not: always before the first send, since   *)
(* then up to the version of IO::Socket.                                   *)
SendOnClosed ==
    /\ pc = "send" /\ socket = "closed"
    /\ pc' \in (IF about = None THEN {"died"} ELSE {"recv", "died"})
    /\ UNCHANGED <<cache, todo, device, doc, socket, netVars, valid, reported>>

(* recv waits as long as it takes, and returns at once on a closed socket. *)
Recv ==
    /\ pc = "recv" /\ (net \in {"reply", "refused"} \/ socket = "closed")
    /\ net' = "none" /\ pc' = "sleep"
    /\ UNCHANGED <<cache, todo, device, doc, socket, about, lost, valid, reported>>

(* The end of the loop's body, which closes the socket of all devices.     *)
Close ==
    /\ pc = "sleep" /\ pc' = "loop" /\ socket' = "closed"
    /\ UNCHANGED <<cache, todo, device, doc, netVars, valid, reported>>

End ==
    /\ pc = "loop" /\ todo = {} /\ pc' = "ended"
    /\ UNCHANGED <<cache, todo, device, doc, socket, netVars, valid, reported>>

Client ==
    \/ \E d \in Devices : Fetch(d)
    \/ Send \/ SendOnClosed \/ Recv \/ Close \/ End

-----------------------------------------------------------------------------
(* The server saves the document of d, or memcached drops it.              *)
Publish(d) ==
    /\ pc \notin {"ended", "died"}
    /\ \E new \in Docs \cup {None} : cache' = [cache EXCEPT ![d] = new]
    /\ UNCHANGED <<loopVars, socket, netVars, valid, reported>>

(* The collector answers each datagram it gets.                            *)
Collect ==
    /\ net = "request" /\ net' = "reply"
    /\ reported' = reported \cup {about}
    /\ UNCHANGED <<cache, loopVars, socket, about, lost, valid>>

(* Nobody listens at the collector's port.                                 *)
Refuse ==
    /\ Lossy /\ net = "request" /\ net' = "refused"
    /\ UNCHANGED <<cache, loopVars, socket, about, lost, valid, reported>>

Lose ==
    /\ Lossy /\ net \in {"request", "reply"} /\ net' = "none" /\ lost' = TRUE
    /\ UNCHANGED <<cache, loopVars, socket, about, valid, reported>>

Next ==
    \/ Client \/ Collect \/ Refuse \/ Lose
    \/ \E d \in Devices : Publish(d)

Spec == Init /\ [][Next]_vars

FairSpec == Spec /\ WF_vars(Client) /\ WF_vars(Collect)

-----------------------------------------------------------------------------
(* A run comes to an end unless a datagram gets lost, for then recv waits  *)
(* for ever: whatever documents it finds, closed socket and deaf collector *)
(* included (client.pl:44-126).                                            *)
RunEnds == <>(pc \in {"ended", "died"} \/ lost)

(* conf/servicioConteoPersonas.conf:11-14 configures two devices. A run    *)
(* that is over has reported every device whose document it read.          *)
EveryDeviceReported == pc \in {"ended", "died"} => valid \subseteq reported
==============================================================================
