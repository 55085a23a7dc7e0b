--------------------------- MODULE UDPClientProofs ---------------------------
(***************************************************************************)
(* It is the second device that goes unreported, never the only one.       *)
(***************************************************************************)
EXTENDS UDPClient, TLAPS

(* A datagram is under way only while the client waits for it, and it is   *)
(* about a device: the one in hand, if the socket is open.                 *)
DatagramInv ==
    /\ pc # "recv" => net = "none"
    /\ (pc = "recv" /\ socket # "closed") => about = device
    /\ pc = "send" => device \in Devices
    /\ net # "none" => about \in Devices

IInv == TypeOK /\ DatagramInv

LEMMA InitIInv == Init => IInv
  BY ClientAssumption DEF Init, IInv, TypeOK, DatagramInv, Docs

LEMMA TypeStep == IInv /\ [Next]_vars => TypeOK'
<1> SUFFICES ASSUME IInv, [Next]_vars PROVE TypeOK'
  OBVIOUS
<1> USE DEF IInv, TypeOK, DatagramInv, loopVars, netVars
<1>1. CASE \E d \in Devices : Fetch(d)
  BY <1>1 DEF Fetch, Docs
<1>2. CASE Send
  BY <1>2 DEF Send
<1>3. CASE SendOnClosed
  BY <1>3 DEF SendOnClosed
<1>4. CASE Recv
  BY <1>4 DEF Recv
<1>5. CASE Close
  BY <1>5 DEF Close
<1>6. CASE End
  BY <1>6 DEF End
<1>7. CASE Collect
  BY <1>7 DEF Collect
<1>8. CASE Refuse \/ Lose
  BY <1>8 DEF Refuse, Lose
<1>9. CASE \E d \in Devices : Publish(d)
  BY <1>9 DEF Publish
<1>10. CASE UNCHANGED vars
  BY <1>10 DEF vars
<1> QED
  BY <1>1, <1>2, <1>3, <1>4, <1>5, <1>6, <1>7, <1>8, <1>9, <1>10 DEF Next, Client

LEMMA DatagramStep == IInv /\ [Next]_vars => DatagramInv'
<1> SUFFICES ASSUME IInv, [Next]_vars PROVE DatagramInv'
  OBVIOUS
<1> USE DEF IInv, TypeOK, DatagramInv, loopVars, netVars
<1>1. CASE \E d \in Devices : Fetch(d)
  BY <1>1 DEF Fetch
<1>2. CASE Send
  BY <1>2 DEF Send
<1>3. CASE SendOnClosed
  BY <1>3 DEF SendOnClosed
<1>4. CASE Recv \/ Close \/ End
  BY <1>4 DEF Recv, Close, End
<1>5. CASE Collect \/ Refuse \/ Lose
  BY <1>5 DEF Collect, Refuse, Lose
<1>6. CASE \E d \in Devices : Publish(d)
  BY <1>6 DEF Publish
<1>7. CASE UNCHANGED vars
  BY <1>7 DEF vars
<1> QED
  BY <1>1, <1>2, <1>3, <1>4, <1>5, <1>6, <1>7 DEF Next, Client

THEOREM ClientInvariance == Spec => []IInv
<1>1. IInv /\ [Next]_vars => IInv'
  BY TypeStep, DatagramStep DEF IInv
<1> QED
  BY InitIInv, <1>1, PTL DEF Spec

(* Every variable of the client keeps its type, whatever the cache holds   *)
(* and the net does (client.pl:44-126).                                    *)
THEOREM ClientTypes == Spec => []TypeOK
<1>1. IInv => TypeOK
  BY DEF IInv
<1> QED
  BY ClientInvariance, <1>1, PTL

-----------------------------------------------------------------------------
(* With one device and no losses: the socket is open when it is needed.    *)
OnlyInv(d) ==
    /\ pc \in {"send", "recv", "sleep", "ended"} => todo = {}
    /\ pc \in {"loop", "send"} /\ todo # {} => valid = {}
    /\ pc = "loop" /\ todo # {} => socket = "new"
    /\ pc = "send" => socket = "new"
    /\ pc = "recv" => /\ socket # "closed"
                      /\ net \in {"request", "reply"} /\ about = d
                      /\ net = "reply" => valid \subseteq reported
    /\ pc \in {"sleep", "ended"} \/ (pc = "loop" /\ todo = {}) => valid \subseteq reported
    /\ pc # "died"

(* The message of a site with one device is not lost: the socket that the  *)
(* loop closes is the one that the next device would need                  *)
(* (client.pl:44-49, 109-124).                                             *)
THEOREM OnlyDeviceReported ==
  ASSUME NEW d, Devices = {d}, ~Lossy PROVE Spec => []EveryDeviceReported
<1> DEFINE Inv == IInv /\ OnlyInv(d)
<1> USE DEF OnlyInv
<1>1. Init => Inv
  BY InitIInv DEF Init
<1>2. ASSUME Inv, [Next]_vars PROVE OnlyInv(d)'
  <2> USE <1>2 DEF IInv, TypeOK, DatagramInv, loopVars, netVars
  <2>1. CASE \E e \in Devices : Fetch(e)
    BY <2>1 DEF Fetch
  <2>2. CASE Send
    BY <2>2 DEF Send
  <2>3. CASE SendOnClosed \/ Recv \/ Close \/ End
    BY <2>3 DEF SendOnClosed, Recv, Close, End
  <2>4. CASE Collect \/ Refuse \/ Lose
    BY <2>4 DEF Collect, Refuse, Lose
  <2>5. CASE \E e \in Devices : Publish(e)
    BY <2>5 DEF Publish
  <2>6. CASE UNCHANGED vars
    BY <2>6 DEF vars
  <2> QED
    BY <1>2, <2>1, <2>2, <2>3, <2>4, <2>5, <2>6 DEF Next, Client
<1>3. Inv /\ [Next]_vars => IInv'
  BY TypeStep, DatagramStep DEF IInv
<1>4. Inv => EveryDeviceReported
  BY DEF EveryDeviceReported
<1> QED
  BY <1>1, <1>2, <1>3, <1>4, PTL DEF Spec
==============================================================================
