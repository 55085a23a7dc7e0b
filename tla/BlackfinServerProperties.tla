---------------------- MODULE BlackfinServerProperties ----------------------
(***************************************************************************)
(* What makes BlackfinServer correct. First what the code keeps; then what *)
(* its comments, log lines and the engine's header say and it does not.    *)
(***************************************************************************)
EXTENDS BlackfinServer

(* A unit in the service list is a live object with a registered endpoint  *)
(* for as long as the engine runs, whatever fails and whatever main is     *)
(* adding. Both passes and the status line, which holds no lock at all,    *)
(* use it through m_blackfinList (BlackfinServer.cpp:219-275).             *)
ListedUnitsAlive ==
    engine = "running" =>
        /\ m_blackfinList \subseteq allocated
        /\ m_blackfinList \ {cur} \subseteq endPoints

(* No callback from the grave: while a unit's reader thread can still call *)
(* BlackfinError, its object exists (BlackfinServer.cpp:522-523, 609-619). *)
ReadersHaveObjects ==
    \A u \in Units : reader[u] \in {"idle", "reading", "reporting"} => u \in allocated

(* The m_threadRunning/m_threadDone handshake: once ShutdownServer takes   *)
(* the engine down, the polling thread never executes its loop body, even  *)
(* when the signal hits between its first two assignments (:185-190, 208). *)
EngineDownAlone ==
    engine \in {"stopping", "shutdown"} => serverPc \notin LoopBodyPcs

(* While the engine runs, every object is listed or still in main's hands, *)
(* and every open descriptor belongs to an object: no path through a       *)
(* failed discovery or a removal leaks either (:520-525, 608-621).         *)
NothingLeaked ==
    engine = "running" =>
        /\ allocated \subseteq m_blackfinList \cup {mainUnit}
        /\ \A f \in Fds : owner[f] \in allocated \cup {NoUnit}

(* The process ends only after the polling thread is gone (or was never    *)
(* started), with no endpoint and no listed unit (:82-88, 183-197).        *)
CleanExit ==
    mainPc = "terminated" =>
        serverPc \in {"unborn", "dead"} /\ endPoints = {} /\ m_blackfinList = {}

(* In DISCONNECT_MODE a connection serves its counts once: no unit polled  *)
(* before is ever left to poll (BlackfinServer.h:27-29, :269-271). Proved,  *)
(* and not run: the repository does not ship that build.                   *)
OneReadingPerConnection == DisconnectMode => todo \cap polled = {}

(* Iterators stay valid: while the polling thread is inside one of its two *)
(* passes, the list changes by its own erase only (:219-230, 247-275).     *)
PassesUndisturbed ==
    [][(m_blackfinList' # m_blackfinList /\ serverPc \in CleaningPcs \cup {"poll"})
        => serverPc = "discarding" /\ serverPc' = "clean"]_vars

(* BlackfinServer implements the registry of ConnectionRegistry: only a    *)
(* marked unit leaves the list, and a mark is never lost before that, even *)
(* one set while the unit is being polled (:249-275, 534-553).             *)
Registry == INSTANCE ConnectionRegistry WITH
    OneShot <- DisconnectMode,
    listed <- m_blackfinList, condemned <- needsRemoving, served <- polled

ImplementsRegistry == Registry!RegistrySpec

(* Has a signal taken main out of its loop, or has a connection broken? A  *)
(* broken one may stop both threads: see MarkedGetsRemoved.                *)
Disturbed == mainPc \in HandlerPcs \cup EndPcs \cup {"exiting"} \/ broken # {}

(* A unit whose discovery succeeded gets into the list, although main and  *)
(* the polling thread contend for m_lock, unless a signal comes or a       *)
(* connection breaks, as the second close of a number can make it          *)
(* (BlackfinServer.cpp:519-526, 609-615).                                  *)
AttachedGetsListed ==
    \A u \in Units :
        (mainPc = "attached" /\ mainUnit = u) ~> u \in m_blackfinList \/ Disturbed

(* A listed unit whose thirty seconds are over is polled while it is still *)
(* listed, and so on every time they are over again, under the same        *)
(* conditions: to be removed is not to be polled, and without              *)
(* DISCONNECT_MODE only a broken unit is (BlackfinServer.cpp:247-275).     *)
DueGetsPolled ==
    \A u \in Units :
        u \in m_blackfinList \cap due ~> u \in m_blackfinList \ due \/ Disturbed

(* Shutting down a server with an empty list, by a signal that found main  *)
(* outside its critical section, ends the process, even if a connection    *)
(* was being added or the polling thread was anywhere in its loop.         *)
EmptyShutdownEnds ==
    (mainPc = "awaitDone" /\ m_lock # "main" /\ m_blackfinList = {})
        ~> mainPc = "terminated"

-----------------------------------------------------------------------------
(* BlackfinServer.cpp:539, of a unit that reported an error: "remove from  *)
(* all the lists and clean up". The polling thread waits for the unit's    *)
(* reader with m_lock held, and that reader may be waiting for m_lock.     *)
MarkedGetsRemoved ==
    \A u \in Units : u \in m_blackfinList \cap needsRemoving ~> u \notin m_blackfinList

(* BlackfinEngine.h:55-57: ShutdownEngine "should not be called until all  *)
(* Blackfin objects have been destroyed".                                  *)
EngineShutdownProtocol == engine \in {"stopping", "shutdown"} => allocated = {}
=============================================================================
