------------------------ MODULE BlackfinServerProofs ------------------------
(***************************************************************************)
(* BlackfinServer for every set of units and descriptors: its type         *)
(* invariant, its safety properties and its refinement of the registry,    *)
(* from one inductive invariant, IInv.                                     *)
(***************************************************************************)
EXTENDS BlackfinServerProperties, TLAPS

(* Who holds m_lock. A signal may find main holding it, and keeps it.      *)
LockInv ==
    /\ m_lock = "server" <=> serverPc \in CleaningPcs \cup {"poll"}
    /\ m_lock = "main" => mainPc \in {"locked", "exiting", "undefined"} \cup HandlerPcs
    /\ mainPc \in {"locked", "drain"} => m_lock = "main"

(* How far the two threads can be from each other.                         *)
PhaseInv ==
    /\ m_threadHandle <=> serverPc \notin {"unborn", "dead"}
    /\ serverPc = "unborn" <=> engine = "off"
    /\ m_threadRunning => serverPc \notin {"unborn", "created"}
    /\ serverPc \in LoopBodyPcs \cup {"loop"} => ~m_threadDone
    /\ mainPc = "start" => engine = "off"
    /\ mainPc \in (InterruptiblePcs \ {"start"}) \cup {"awaitDone"} => engine = "running"
    /\ mainPc = "engineDown" => engine = "stopping"
    /\ mainPc \in {"drainLock", "drain", "undefined"} => engine = "shutdown"
    /\ engine = "stopping" => mainPc = "engineDown"
    /\ mainPc \in InterruptiblePcs \cup {"exiting"} /\ engine = "running"
         => /\ serverPc \notin {"returned", "dead"}
            /\ m_threadRunning <=> serverPc # "created"
    /\ mainPc \in HandlerPcs \/ engine = "shutdown"
         => ~m_threadRunning /\ serverPc \notin {"unborn", "created"}
    /\ engine \in {"stopping", "shutdown"} => serverPc \notin LoopBodyPcs

(* Where a unit is: in main's hands, in the list, or being removed.        *)
ListInv ==
    /\ mainUnit \notin m_blackfinList
    /\ mainPc \in {"adding", "undoing", "rejected", "attached", "locked"} => mainUnit \in Units
    /\ mainPc \in {"start", "loop"} => mainUnit = NoUnit
    /\ needsRemoving \subseteq m_blackfinList
    /\ due \subseteq m_blackfinList /\ polled \subseteq m_blackfinList
    /\ todo \subseteq m_blackfinList /\ (serverPc # "poll" => todo = {})
    /\ IF serverPc \in {"joining", "discarding"} THEN cur \in needsRemoving ELSE cur = NoUnit

(* Objects, endpoints and descriptors.                                     *)
ObjectInv ==
    /\ endPoints \subseteq allocated /\ cur \notin endPoints
    /\ \A u \in Units \ allocated : reader[u] = "none"
    /\ engine = "running" =>
         /\ m_blackfinList \subseteq allocated
         /\ m_blackfinList \ {cur} \subseteq endPoints
         /\ allocated \subseteq m_blackfinList \cup {mainUnit}
         /\ \A f \in Fds : owner[f] \in allocated \cup {NoUnit}
    /\ mainPc \in {"adding", "attached", "locked"} => mainUnit \in endPoints
    /\ mainPc \in {"undoing", "rejected"} => mainUnit \in allocated \ endPoints
    /\ \A f \in Fds : owner[f] # NoUnit => sockd[owner[f]] = f

(* How it ends.                                                            *)
EndInv ==
    /\ engine = "off" =>
         m_blackfinList = {} /\ allocated = {} /\ \A f \in Fds : owner[f] = NoUnit
    /\ engine = "shutdown" => endPoints = {}
    /\ mainPc \in {"exiting", "terminated"} /\ engine = "shutdown" => m_blackfinList = {}
    /\ mainPc = "terminated" => engine # "running" /\ serverPc \in {"unborn", "dead"}

(* DISCONNECT_MODE: what was polled is marked, and gone before the next    *)
(* poll pass begins.                                                       *)
PolledInv ==
    DisconnectMode =>
        /\ polled \subseteq needsRemoving /\ todo \cap polled = {}
        /\ serverPc \in {"status", "wantPoll"} => polled = {}

IInv ==
    TypeOK /\ LockInv /\ PhaseInv /\ ListInv /\ ObjectInv /\ EndInv /\ PolledInv

-----------------------------------------------------------------------------
(* The tuples and the bookkeeping every action is written with.            *)
USE DEF listVars, flagVars, engineVars, objectVars, dataVars, restVars, vars,
        Alive, Acquire, Release, Close, LibraryCloses, Delete,
        MainGoes, ServerGoes, ReaderGoes,
        InterruptiblePcs, HandlerPcs, EndPcs, MainPcs, CleaningPcs, LoopBodyPcs,
        ServerPcs, ReaderStates

(* Every variable keeps its type.                                          *)
LEMMA TypeOKStep == IInv /\ [Next]_vars => TypeOK'
<1> SUFFICES ASSUME IInv, [Next]_vars PROVE TypeOK'
    OBVIOUS
<1> USE ConstantsAssumption DEF IInv, TypeOK, LockInv, PhaseInv, ListInv
<1>1. CASE MainStep
  <2>1. CASE StartServer
    BY <2>1 DEF StartServer
  <2>2. CASE StartServerFails
    BY <2>2 DEF StartServerFails
  <2>3. CASE \E u \in Units, f \in Fds : Accept(u, f)
    BY <2>3 DEF Accept
  <2>4. CASE AddSucceeds
    BY <2>4 DEF AddSucceeds
  <2>5. CASE AddFails
    BY <2>5 DEF AddFails
  <2>6. CASE AddUndone
    BY <2>6 DEF AddUndone
  <2>7. CASE RejectUnit
    BY <2>7 DEF RejectUnit
  <2>8. CASE LockToAdd
    BY <2>8 DEF LockToAdd
  <2>9. CASE PushBack
    BY <2>9 DEF PushBack
  <2> QED
    BY <1>1, <2>1, <2>2, <2>3, <2>4, <2>5, <2>6, <2>7, <2>8, <2>9
    DEF MainStep
<1>2. CASE Signal
    BY <1>2, ZenonT(30) DEF Signal
<1>3. CASE HandlerStep
    BY <1>3 DEF HandlerStep, ServerIsDone, EngineIsDown, LockToDrain, DrainNothing,
    DrainUnit, Exit, StopEndPoint, DeleteEndPoint
<1>4. CASE PollingStep
  <2>1. CASE SetRunning
    BY <2>1 DEF SetRunning
  <2>2. CASE ClearDone
    BY <2>2 DEF ClearDone
  <2>3. CASE EnterLoop
    BY <2>3 DEF EnterLoop
  <2>4. CASE LeaveLoop
    BY <2>4 DEF LeaveLoop
  <2>5. CASE Detach
    BY <2>5 DEF Detach
  <2>6. CASE LockToClean
    BY <2>6 DEF LockToClean
  <2>7. CASE JoinReader
    BY <2>7 DEF JoinReader
  <2>8. CASE DiscardUnit
    BY <2>8 DEF DiscardUnit
  <2>9. CASE UnlockClean
    BY <2>9 DEF UnlockClean
  <2>10. CASE StatusLine
    BY <2>10 DEF StatusLine
  <2>11. CASE LockToPoll
    BY <2>11 DEF LockToPoll
  <2>12. CASE UnlockPoll
    BY <2>12 DEF UnlockPoll
  <2>13. CASE \E u \in Units : RemoveEndPoint(u)
    BY <2>13 DEF RemoveEndPoint
  <2>14. CASE \E u \in Units : PollUnit(u)
    BY <2>14 DEF PollUnit
  <2> QED
    BY <1>4, <2>1, <2>2, <2>3, <2>4, <2>5, <2>6, <2>7, <2>8, <2>9, <2>10, <2>11, <2>12,
    <2>13, <2>14
    DEF PollingStep
<1>5. CASE \E u \in Units : ReadStep(u)
    BY <1>5 DEF ReadStep, StopReader, BeginRead, ReadSucceeds, PeerCloses, ReadFails,
    BlackfinError
<1>6. CASE (\E u \in Units : Elapse(u)) \/ UNCHANGED vars
    BY <1>6 DEF Elapse
<1> QED
    BY <1>1, <1>2, <1>3, <1>4, <1>5, <1>6 DEF Next

(* The mutex: only its holder gives it up.                                 *)
LEMMA LockInvStep == IInv /\ [Next]_vars => LockInv'
<1> SUFFICES ASSUME IInv, [Next]_vars PROVE LockInv'
    OBVIOUS
<1> USE ConstantsAssumption DEF IInv, TypeOK, LockInv, PhaseInv
<1>1. CASE MainStep
    BY <1>1 DEF MainStep, StartServer, StartServerFails, Accept, AddSucceeds, AddFails,
    AddUndone, RejectUnit, LockToAdd, PushBack
<1>2. CASE Signal
    BY <1>2 DEF Signal
<1>3. CASE HandlerStep
    BY <1>3 DEF HandlerStep, ServerIsDone, EngineIsDown, LockToDrain, DrainNothing,
    DrainUnit, Exit, StopEndPoint, DeleteEndPoint
<1>4. CASE PollingStep
    BY <1>4 DEF PollingStep, SetRunning, ClearDone, EnterLoop, LeaveLoop, Detach,
    LockToClean, JoinReader, DiscardUnit, UnlockClean, StatusLine, LockToPoll,
    UnlockPoll, RemoveEndPoint, PollUnit
<1>5. CASE \E u \in Units : ReadStep(u)
    BY <1>5 DEF ReadStep, StopReader, BeginRead, ReadSucceeds, PeerCloses, ReadFails,
    BlackfinError
<1>6. CASE (\E u \in Units : Elapse(u)) \/ UNCHANGED vars
    BY <1>6 DEF Elapse
<1> QED
    BY <1>1, <1>2, <1>3, <1>4, <1>5, <1>6 DEF Next

(* The start-up and shutdown handshake between main and the polling thread.*)
LEMMA PhaseInvStep == IInv /\ [Next]_vars => PhaseInv'
<1> SUFFICES ASSUME IInv, [Next]_vars PROVE PhaseInv'
    OBVIOUS
<1> USE ConstantsAssumption DEF IInv, TypeOK, LockInv, PhaseInv
<1>1. CASE MainStep
    BY <1>1 DEF MainStep, StartServer, StartServerFails, Accept, AddSucceeds, AddFails,
    AddUndone, RejectUnit, LockToAdd, PushBack
<1>2. CASE Signal
    BY <1>2 DEF Signal
<1>3. CASE HandlerStep
    BY <1>3 DEF HandlerStep, ServerIsDone, EngineIsDown, LockToDrain, DrainNothing,
    DrainUnit, Exit, StopEndPoint, DeleteEndPoint
<1>4. CASE PollingStep
    BY <1>4 DEF PollingStep, SetRunning, ClearDone, EnterLoop, LeaveLoop, Detach,
    LockToClean, JoinReader, DiscardUnit, UnlockClean, StatusLine, LockToPoll,
    UnlockPoll, RemoveEndPoint, PollUnit
<1>5. CASE \E u \in Units : ReadStep(u)
    BY <1>5 DEF ReadStep, StopReader, BeginRead, ReadSucceeds, PeerCloses, ReadFails,
    BlackfinError
<1>6. CASE (\E u \in Units : Elapse(u)) \/ UNCHANGED vars
    BY <1>6 DEF Elapse
<1> QED
    BY <1>1, <1>2, <1>3, <1>4, <1>5, <1>6 DEF Next

(* The list and the sets of listed units.                                  *)
LEMMA ListInvStep == IInv /\ [Next]_vars => ListInv'
<1> SUFFICES ASSUME IInv, [Next]_vars PROVE ListInv'
    OBVIOUS
<1> USE ConstantsAssumption DEF IInv, TypeOK, LockInv, PhaseInv, ListInv, ObjectInv, EndInv
<1>1. CASE MainStep
    BY <1>1 DEF MainStep, StartServer, StartServerFails, Accept, AddSucceeds, AddFails,
    AddUndone, RejectUnit, LockToAdd, PushBack
<1>2. CASE Signal
    BY <1>2 DEF Signal
<1>3. CASE HandlerStep
    BY <1>3 DEF HandlerStep, ServerIsDone, EngineIsDown, LockToDrain, DrainNothing,
    DrainUnit, Exit, StopEndPoint, DeleteEndPoint
<1>4. CASE PollingStep
    BY <1>4 DEF PollingStep, SetRunning, ClearDone, EnterLoop, LeaveLoop, Detach,
    LockToClean, JoinReader, DiscardUnit, UnlockClean, StatusLine, LockToPoll,
    UnlockPoll, RemoveEndPoint, PollUnit
<1>5. CASE \E u \in Units : ReadStep(u)
    BY <1>5 DEF ReadStep, StopReader, BeginRead, ReadSucceeds, PeerCloses, ReadFails,
    BlackfinError
<1>6. CASE (\E u \in Units : Elapse(u)) \/ UNCHANGED vars
    BY <1>6 DEF Elapse
<1> QED
    BY <1>1, <1>2, <1>3, <1>4, <1>5, <1>6 DEF Next

(* Objects, endpoints and descriptors.                                     *)
LEMMA ObjectInvStep == IInv /\ [Next]_vars => ObjectInv'
<1> SUFFICES ASSUME IInv, [Next]_vars PROVE ObjectInv'
    OBVIOUS
<1> USE ConstantsAssumption DEF IInv, TypeOK, LockInv, PhaseInv, ListInv, ObjectInv, EndInv
<1>1. CASE MainStep
  <2>1. CASE StartServer
    BY <2>1 DEF StartServer
  <2>2. CASE StartServerFails
    BY <2>2 DEF StartServerFails
  <2>3. CASE \E u \in Units, f \in Fds : Accept(u, f)
    BY <2>3 DEF Accept
  <2>4. CASE AddSucceeds
    BY <2>4 DEF AddSucceeds
  <2>5. CASE AddFails
    BY <2>5 DEF AddFails
  <2>6. CASE AddUndone
    BY <2>6 DEF AddUndone
  <2>7. CASE RejectUnit
    <3>1. \A f \in Fds : owner[f] = mainUnit => f = sockd[mainUnit]
      BY <2>7 DEF RejectUnit
    <3>2. \A f \in Fds : owner'[f] # NoUnit => owner'[f] = owner[f] /\ owner[f] # mainUnit
      BY <2>7, <3>1 DEF RejectUnit
    <3>3. \A f \in Fds : owner'[f] # NoUnit => sockd'[owner'[f]] = f
      BY <2>7, <3>2 DEF RejectUnit
    <3>4. engine = "running" => \A f \in Fds : owner'[f] \in allocated' \cup {NoUnit}
      BY <2>7, <3>2 DEF RejectUnit
    <3>5. \A v \in Units \ allocated' : reader'[v] = "none"
      BY <2>7 DEF RejectUnit
    <3>6. engine' = "running" =>
            /\ m_blackfinList' \subseteq allocated'
            /\ m_blackfinList' \ {cur'} \subseteq endPoints'
            /\ allocated' \subseteq m_blackfinList' \cup {mainUnit'}
      BY <2>7 DEF RejectUnit
    <3>7. endPoints' \subseteq allocated' /\ cur' \notin endPoints'
      BY <2>7 DEF RejectUnit
    <3>8. /\ mainPc' \in {"adding", "attached", "locked"} => mainUnit' \in endPoints'
          /\ mainPc' \in {"undoing", "rejected"} => mainUnit' \in allocated' \ endPoints'
      BY <2>7 DEF RejectUnit
    <3> QED
      BY <2>7, <3>3, <3>4, <3>5, <3>6, <3>7, <3>8 DEF RejectUnit
  <2>8. CASE LockToAdd
    BY <2>8 DEF LockToAdd
  <2>9. CASE PushBack
    BY <2>9 DEF PushBack
  <2> QED
    BY <1>1, <2>1, <2>2, <2>3, <2>4, <2>5, <2>6, <2>7, <2>8, <2>9
    DEF MainStep
<1>2. CASE Signal
    BY <1>2 DEF Signal
<1>3. CASE HandlerStep
    BY <1>3 DEF HandlerStep, ServerIsDone, EngineIsDown, LockToDrain, DrainNothing,
    DrainUnit, Exit, StopEndPoint, DeleteEndPoint
<1>4. CASE PollingStep
  <2>1. CASE SetRunning
    BY <2>1 DEF SetRunning
  <2>2. CASE ClearDone
    BY <2>2 DEF ClearDone
  <2>3. CASE EnterLoop
    BY <2>3 DEF EnterLoop
  <2>4. CASE LeaveLoop
    BY <2>4 DEF LeaveLoop
  <2>5. CASE Detach
    BY <2>5 DEF Detach
  <2>6. CASE LockToClean
    BY <2>6 DEF LockToClean
  <2>7. CASE JoinReader
    BY <2>7 DEF JoinReader
  <2>8. CASE DiscardUnit
    <3>1. \A f \in Fds : owner[f] = cur => f = sockd[cur]
      BY <2>8 DEF DiscardUnit
    <3>2. \A f \in Fds : owner'[f] # NoUnit => owner'[f] = owner[f] /\ owner[f] # cur
      BY <2>8, <3>1 DEF DiscardUnit
    <3>3. \A f \in Fds : owner'[f] # NoUnit => sockd'[owner'[f]] = f
      BY <2>8, <3>2 DEF DiscardUnit
    <3>4. engine = "running" => \A f \in Fds : owner'[f] \in allocated' \cup {NoUnit}
      BY <2>8, <3>2 DEF DiscardUnit
    <3>5. \A v \in Units \ allocated' : reader'[v] = "none"
      BY <2>8 DEF DiscardUnit
    <3>6. engine' = "running" =>
            /\ m_blackfinList' \subseteq allocated'
            /\ m_blackfinList' \ {cur'} \subseteq endPoints'
            /\ allocated' \subseteq m_blackfinList' \cup {mainUnit'}
      BY <2>8 DEF DiscardUnit
    <3>7. endPoints' \subseteq allocated' /\ cur' \notin endPoints'
      BY <2>8 DEF DiscardUnit
    <3>8. /\ mainPc' \in {"adding", "attached", "locked"} => mainUnit' \in endPoints'
          /\ mainPc' \in {"undoing", "rejected"} => mainUnit' \in allocated' \ endPoints'
      BY <2>8 DEF DiscardUnit
    <3> QED
      BY <2>8, <3>3, <3>4, <3>5, <3>6, <3>7, <3>8 DEF DiscardUnit
  <2>9. CASE UnlockClean
    BY <2>9 DEF UnlockClean
  <2>10. CASE StatusLine
    BY <2>10 DEF StatusLine
  <2>11. CASE LockToPoll
    BY <2>11 DEF LockToPoll
  <2>12. CASE UnlockPoll
    BY <2>12 DEF UnlockPoll
  <2>13. CASE \E u \in Units : RemoveEndPoint(u)
    BY <2>13 DEF RemoveEndPoint
  <2>14. CASE \E u \in Units : PollUnit(u)
    BY <2>14 DEF PollUnit
  <2> QED
    BY <1>4, <2>1, <2>2, <2>3, <2>4, <2>5, <2>6, <2>7, <2>8, <2>9, <2>10, <2>11, <2>12,
    <2>13, <2>14
    DEF PollingStep
<1>5. CASE \E u \in Units : ReadStep(u)
    BY <1>5 DEF ReadStep, StopReader, BeginRead, ReadSucceeds, PeerCloses, ReadFails,
    BlackfinError
<1>6. CASE (\E u \in Units : Elapse(u)) \/ UNCHANGED vars
    BY <1>6 DEF Elapse
<1> QED
    BY <1>1, <1>2, <1>3, <1>4, <1>5, <1>6 DEF Next

(* The way to the end of the process.                                      *)
LEMMA EndInvStep == IInv /\ [Next]_vars => EndInv'
<1> SUFFICES ASSUME IInv, [Next]_vars PROVE EndInv'
    OBVIOUS
<1> USE ConstantsAssumption DEF IInv, TypeOK, LockInv, PhaseInv, ListInv, ObjectInv, EndInv
<1>1. CASE MainStep
    BY <1>1 DEF MainStep, StartServer, StartServerFails, Accept, AddSucceeds, AddFails,
    AddUndone, RejectUnit, LockToAdd, PushBack
<1>2. CASE Signal
    BY <1>2 DEF Signal
<1>3. CASE HandlerStep
    BY <1>3 DEF HandlerStep, ServerIsDone, EngineIsDown, LockToDrain, DrainNothing,
    DrainUnit, Exit, StopEndPoint, DeleteEndPoint
<1>4. CASE PollingStep
    BY <1>4 DEF PollingStep, SetRunning, ClearDone, EnterLoop, LeaveLoop, Detach,
    LockToClean, JoinReader, DiscardUnit, UnlockClean, StatusLine, LockToPoll,
    UnlockPoll, RemoveEndPoint, PollUnit
<1>5. CASE \E u \in Units : ReadStep(u)
    BY <1>5 DEF ReadStep, StopReader, BeginRead, ReadSucceeds, PeerCloses, ReadFails,
    BlackfinError
<1>6. CASE (\E u \in Units : Elapse(u)) \/ UNCHANGED vars
    BY <1>6 DEF Elapse
<1> QED
    BY <1>1, <1>2, <1>3, <1>4, <1>5, <1>6 DEF Next

(* DISCONNECT_MODE: a polled unit stays marked until it is removed.        *)
LEMMA PolledInvStep == IInv /\ [Next]_vars => PolledInv'
<1> SUFFICES ASSUME IInv, [Next]_vars PROVE PolledInv'
    OBVIOUS
<1> USE ConstantsAssumption DEF IInv, TypeOK, LockInv, PhaseInv, ListInv, PolledInv
<1>1. CASE MainStep
    BY <1>1 DEF MainStep, StartServer, StartServerFails, Accept, AddSucceeds, AddFails,
    AddUndone, RejectUnit, LockToAdd, PushBack
<1>2. CASE Signal
    BY <1>2 DEF Signal
<1>3. CASE HandlerStep
    BY <1>3 DEF HandlerStep, ServerIsDone, EngineIsDown, LockToDrain, DrainNothing,
    DrainUnit, Exit, StopEndPoint, DeleteEndPoint
<1>4. CASE PollingStep
    BY <1>4 DEF PollingStep, SetRunning, ClearDone, EnterLoop, LeaveLoop, Detach,
    LockToClean, JoinReader, DiscardUnit, UnlockClean, StatusLine, LockToPoll,
    UnlockPoll, RemoveEndPoint, PollUnit
<1>5. CASE \E u \in Units : ReadStep(u)
    BY <1>5 DEF ReadStep, StopReader, BeginRead, ReadSucceeds, PeerCloses, ReadFails,
    BlackfinError
<1>6. CASE (\E u \in Units : Elapse(u)) \/ UNCHANGED vars
    BY <1>6 DEF Elapse
<1> QED
    BY <1>1, <1>2, <1>3, <1>4, <1>5, <1>6 DEF Next

-----------------------------------------------------------------------------
LEMMA InitIInv == Init => IInv
  BY ConstantsAssumption DEF Init, IInv, TypeOK, LockInv, PhaseInv, ListInv, ObjectInv,
     EndInv, PolledInv

(* The inductive invariant holds in every reachable state.                 *)
THEOREM Invariance == Spec => []IInv
<1>1. IInv /\ [Next]_vars => IInv'
    BY TypeOKStep, LockInvStep, PhaseInvStep, ListInvStep, ObjectInvStep, EndInvStep,
       PolledInvStep DEF IInv
<1> QED
    BY InitIInv, <1>1, PTL DEF Spec

(* Every variable of the daemon's model has its type, always.              *)
THEOREM TypeCorrectness == Spec => []TypeOK
<1>1. IInv => TypeOK
    BY DEF IInv
<1> QED
    BY <1>1, Invariance, PTL

(* Every unit in m_blackfinList is a live object with an endpoint while    *)
(* the engine runs (BlackfinServer.cpp:219-275, 519-526, 608-621).         *)
THEOREM ListedUnitsStayAlive == Spec => []ListedUnitsAlive
<1>1. IInv => ListedUnitsAlive
    BY DEF IInv, ObjectInv, ListedUnitsAlive
<1> QED
    BY <1>1, Invariance, PTL

(* No reader thread outlives the object it calls back with.                *)
THEOREM NoCallbackAfterDelete == Spec => []ReadersHaveObjects
<1>1. IInv => ReadersHaveObjects
    BY DEF IInv, ObjectInv, ReadersHaveObjects
<1> QED
    BY <1>1, Invariance, PTL

(* The m_threadRunning/m_threadDone handshake keeps the polling thread out *)
(* of its loop from the moment ShutdownServer takes the engine down.       *)
THEOREM HandshakeIsSound == Spec => []EngineDownAlone
<1>1. IInv => EngineDownAlone
    BY DEF IInv, PhaseInv, EngineDownAlone
<1> QED
    BY <1>1, Invariance, PTL

(* Neither objects nor descriptors leak while the engine runs.             *)
THEOREM NoLeaks == Spec => []NothingLeaked
<1>1. IInv => NothingLeaked
    BY DEF IInv, ObjectInv, NothingLeaked
<1> QED
    BY <1>1, Invariance, PTL

(* The process ends with its polling thread gone and nothing registered.   *)
THEOREM ExitIsClean == Spec => []CleanExit
<1>1. IInv => CleanExit
  <2> SUFFICES ASSUME IInv, mainPc = "terminated"
               PROVE  serverPc \in {"unborn", "dead"} /\ endPoints = {} /\ m_blackfinList = {}
    BY DEF CleanExit
  <2>1. engine = "off" \/ engine = "shutdown"
    BY DEF IInv, TypeOK, PhaseInv, EndInv
  <2> QED
    BY <2>1 DEF IInv, EndInv, ObjectInv
<1> QED
    BY <1>1, Invariance, PTL

(* DISCONNECT_MODE takes the counts of a connection once.                  *)
THEOREM PolledOnce == Spec => []OneReadingPerConnection
<1>1. IInv => OneReadingPerConnection
    BY DEF IInv, PolledInv, OneReadingPerConnection
<1> QED
    BY <1>1, Invariance, PTL

(* No other thread changes the list under a pass of the polling thread.    *)
THEOREM IteratorsStayValid == Spec => PassesUndisturbed
<1> DEFINE Undisturbed ==
      (m_blackfinList' # m_blackfinList /\ serverPc \in CleaningPcs \cup {"poll"})
        => serverPc = "discarding" /\ serverPc' = "clean"
<1>1. IInv /\ [Next]_vars => Undisturbed
  <2> SUFFICES ASSUME IInv, [Next]_vars, m_blackfinList' # m_blackfinList,
                      serverPc \in CleaningPcs \cup {"poll"}
               PROVE  serverPc = "discarding" /\ serverPc' = "clean"
    OBVIOUS
  <2>1. ~PushBack
    BY DEF PushBack, IInv, LockInv
  <2>2. ~MainStep
    BY <2>1 DEF MainStep, StartServer, StartServerFails, Accept, AddSucceeds, AddFails,
       AddUndone, RejectUnit, LockToAdd
  <2>3. ~HandlerStep /\ ~Signal
    BY DEF HandlerStep, Signal, ServerIsDone, EngineIsDown, LockToDrain, DrainNothing,
       DrainUnit, Exit, StopEndPoint, DeleteEndPoint
  <2>4. ~\E u \in Units : ReadStep(u) \/ Elapse(u)
    BY DEF ReadStep, StopReader, BeginRead, ReadSucceeds, PeerCloses, ReadFails,
       BlackfinError, Elapse
  <2>5. PollingStep
    BY <2>2, <2>3, <2>4 DEF Next
  <2> QED
    BY <2>5 DEF PollingStep, SetRunning, ClearDone, EnterLoop, LeaveLoop, Detach,
       LockToClean, JoinReader, DiscardUnit, UnlockClean, StatusLine, LockToPoll,
       UnlockPoll, RemoveEndPoint, PollUnit
<1>2. [][Undisturbed]_vars => PassesUndisturbed
    BY PTL DEF PassesUndisturbed
<1>3. Spec => [][Undisturbed]_vars
    BY <1>1, Invariance, PTL DEF Spec
<1> QED
    BY <1>2, <1>3, PTL

(* Every step of the daemon is a step of the registry, or none at all.     *)
LEMMA RegistryStep ==
    IInv /\ [Next]_vars => [Registry!RegistryNext]_(Registry!registryVars)
<1> SUFFICES ASSUME IInv, [Next]_vars
             PROVE  [Registry!RegistryNext]_(Registry!registryVars)
    OBVIOUS
<1> USE DEF Registry!RegistryNext, Registry!registryVars
<1>1. CASE PushBack
  <2>1. Registry!List(mainUnit) /\ mainUnit \in Units
    BY <1>1 DEF PushBack, Registry!List, IInv, ListInv
  <2> QED
    BY <2>1
<1>2. CASE DiscardUnit
  <2>1. Registry!Drop(cur) /\ cur \in Units
    BY <1>2 DEF DiscardUnit, Registry!Drop, IInv, TypeOK, ListInv
  <2> QED
    BY <2>1
<1>3. ASSUME NEW u \in Units, PollUnit(u)
      PROVE  [Registry!RegistryNext]_(Registry!registryVars)
  <2>1. CASE u \in due
    <3>1. Registry!Serve(u)
      BY <1>3, <2>1, ConstantsAssumption
         DEF PollUnit, Registry!Serve, IInv, ListInv, PolledInv
    <3> QED
      BY <3>1
  <2>2. CASE u \notin due
    BY <1>3, <2>2 DEF PollUnit
  <2> QED
    BY <2>1, <2>2
<1>4. ASSUME NEW u \in Units, BlackfinError(u)
      PROVE  [Registry!RegistryNext]_(Registry!registryVars)
  <2>1. CASE u \in m_blackfinList \ needsRemoving
    <3>1. Registry!Condemn(u)
      BY <1>4, <2>1 DEF BlackfinError, Registry!Condemn
    <3> QED
      BY <3>1
  <2>2. CASE u \notin m_blackfinList \ needsRemoving
    BY <1>4, <2>2 DEF BlackfinError
  <2> QED
    BY <2>1, <2>2
<1>5. CASE MainStep /\ ~PushBack
    BY <1>5 DEF MainStep, StartServer, StartServerFails, Accept, AddSucceeds, AddFails,
       AddUndone, RejectUnit, LockToAdd
<1>6. CASE HandlerStep \/ Signal \/ UNCHANGED vars \/ \E u \in Units : Elapse(u)
    BY <1>6 DEF HandlerStep, Signal, ServerIsDone, EngineIsDown, LockToDrain, DrainNothing,
       DrainUnit, Exit, StopEndPoint, DeleteEndPoint, Elapse
<1>7. CASE PollingStep /\ ~DiscardUnit /\ ~\E u \in Units : PollUnit(u)
    BY <1>7 DEF PollingStep, SetRunning, ClearDone, EnterLoop, LeaveLoop, Detach, LockToClean,
       JoinReader, UnlockClean, StatusLine, LockToPoll, UnlockPoll, RemoveEndPoint
<1>8. CASE \E u \in Units : ReadStep(u) /\ ~BlackfinError(u)
    BY <1>8 DEF ReadStep, StopReader, BeginRead, ReadSucceeds, PeerCloses, ReadFails
<1> QED
    BY <1>1, <1>2, <1>3, <1>4, <1>5, <1>6, <1>7, <1>8 DEF Next, PollingStep

(* The daemon implements the registry: only condemned units are dropped,   *)
(* no condemnation is lost, and DISCONNECT_MODE serves a connection once.  *)
THEOREM RegistryRefinement == Spec => ImplementsRegistry
<1>1. Init => Registry!RegistryInit
    BY DEF Init, Registry!RegistryInit
<1> QED
    BY <1>1, Invariance, RegistryStep, PTL DEF Spec, ImplementsRegistry, Registry!RegistrySpec
=============================================================================
