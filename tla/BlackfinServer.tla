--------------------------- MODULE BlackfinServer ---------------------------
(***************************************************************************)
(* The people-counter daemon as a concurrent program: the main thread      *)
(* (accept loop and signal handler, server/src/MovilgateServerApp.cpp),    *)
(* the polling thread BlackfinServer::run and one reader thread of the     *)
(* Irisys engine for every connected unit, which calls BlackfinError.      *)
(*                                                                         *)
(* The threads share the unit list, protected by m_lock, the flags         *)
(* m_threadRunning, m_threadDone and m_threadHandle, which nothing         *)
(* protects, the heap of Blackfin objects and the descriptor table.        *)
(* The engine is a closed library: its operations are modelled as src/ and *)
(* the library's headers use and describe them (README, "The engine").     *)
(***************************************************************************)
EXTENDS Naturals

CONSTANTS
    Units,           \* addresses a Blackfin object can be allocated at
    Fds,             \* descriptors accept() can return
    NoUnit, NoFd,    \* "no object" and the library's handle value -1
    Breakable,       \* units whose connection may be lost
    DisconnectMode,  \* is DISCONNECT_MODE defined in this build?
    Terminable       \* may the process receive SIGTERM or SIGINT?

ASSUME ConstantsAssumption ==
    /\ NoUnit \notin Units
    /\ NoFd \notin Fds
    /\ Breakable \subseteq Units
    /\ DisconnectMode \in BOOLEAN
    /\ Terminable \in BOOLEAN

VARIABLES
    m_lock,           \* holder of the mutex: "free", "main" or "server"
    m_blackfinList,   \* units in the service list (visiting order abstracted)
    needsRemoving,    \* units whose BlackfinData::needsRemoving is set
    due,              \* listed units whose startTime is over 30 s old
    polled,           \* history: listed units polled since they were listed
    m_threadRunning, m_threadDone, m_threadHandle,
    mainPc, mainUnit, \* main thread, and the unit it is adding
    serverPc, todo, cur, \* polling thread, units left in the pass, unit removed
    engine,           \* "off", "running", "stopping" or "shutdown"
    endPoints,        \* units registered in the engine
    stopping,         \* units whose reader was told to stop
    reader,           \* reader thread of each unit
    broken,           \* units whose connection is lost
    allocated,        \* live Blackfin objects
    sockd,            \* descriptor stored in BlackfinData (a local before that)
    handle,           \* descriptor the library holds for the unit
    owner             \* unit a descriptor was last accepted for, or NoUnit: closed

listVars   == <<m_blackfinList, needsRemoving, due, polled>>
flagVars   == <<m_threadRunning, m_threadDone, m_threadHandle>>
engineVars == <<engine, endPoints, stopping, reader, broken>>
objectVars == <<allocated, sockd, handle, owner>>
dataVars   == <<listVars, mainUnit, todo, cur, engineVars, objectVars>>
vars == <<m_lock, flagVars, mainPc, serverPc, dataVars>>

InterruptiblePcs == {"start", "loop", "adding", "undoing", "rejected", "attached", "locked"}
HandlerPcs == {"awaitDone", "engineDown", "drainLock", "drain"}
EndPcs     == {"undefined", "terminated"}
MainPcs    == InterruptiblePcs \cup HandlerPcs \cup {"exiting"} \cup EndPcs

CleaningPcs == {"clean", "joining", "discarding"}
LoopBodyPcs == {"wantClean", "status", "wantPoll", "poll"} \cup CleaningPcs
ServerPcs   == {"unborn", "created", "started", "loop", "returned", "dead"} \cup LoopBodyPcs

ReaderStates == {"none", "idle", "reading", "reporting", "stopped"}

TypeOK ==
    /\ m_lock \in {"free", "main", "server"}
    /\ m_blackfinList \subseteq Units /\ needsRemoving \subseteq Units
    /\ due \subseteq Units /\ polled \subseteq Units
    /\ m_threadRunning \in BOOLEAN /\ m_threadDone \in BOOLEAN
    /\ m_threadHandle \in BOOLEAN
    /\ mainPc \in MainPcs /\ mainUnit \in Units \cup {NoUnit}
    /\ serverPc \in ServerPcs /\ todo \subseteq Units /\ cur \in Units \cup {NoUnit}
    /\ engine \in {"off", "running", "stopping", "shutdown"}
    /\ endPoints \subseteq Units /\ stopping \subseteq Units
    /\ reader \in [Units -> ReaderStates] /\ broken \subseteq Units
    /\ allocated \subseteq Units
    /\ sockd \in [Units -> Fds \cup {NoFd}] /\ handle \in [Units -> Fds \cup {NoFd}]
    /\ owner \in [Fds -> Units \cup {NoUnit}]

(* BlackfinServer's constructor, and the process before StartServer. *)
Init ==
    /\ m_lock = "free" /\ m_blackfinList = {} /\ needsRemoving = {}
    /\ due = {} /\ polled = {}
    /\ m_threadRunning = FALSE /\ m_threadDone = TRUE /\ m_threadHandle = FALSE
    /\ mainPc = "start" /\ mainUnit = NoUnit
    /\ serverPc = "unborn" /\ todo = {} /\ cur = NoUnit
    /\ engine = "off" /\ endPoints = {} /\ stopping = {}
    /\ reader = [u \in Units |-> "none"] /\ broken = {}
    /\ allocated = {}
    /\ sockd = [u \in Units |-> NoFd] /\ handle = [u \in Units |-> NoFd]
    /\ owner = [f \in Fds |-> NoUnit]

(* After undefined behaviour, or the end of the process, no thread moves.  *)
Alive == mainPc \notin EndPcs

(* Mutants: a lock taken without waiting for it, an unlock forgotten.      *)
AcquireHeld(thread) == m_lock' = thread
ReleaseForgotten == UNCHANGED m_lock

Acquire(thread) == m_lock = "free" /\ m_lock' = thread
Release == m_lock' = "free"

(* close() of the numbers fs: whatever they now stand for is closed.       *)
Close(fs) == owner' = [f \in Fds |-> IF f \in fs THEN NoUnit ELSE owner[f]]

(* The library closes the descriptor it still holds for u, if any.         *)
LibraryCloses(u) == Close({handle[u]}) /\ handle' = [handle EXCEPT ![u] = NoFd]

(* delete of the Blackfin object u, whose reader thread is gone.           *)
Delete(u) ==
    /\ allocated' = allocated \ {u}
    /\ reader' = [reader EXCEPT ![u] = "none"] /\ stopping' = stopping \ {u}

-----------------------------------------------------------------------------
(* The main thread: StartServer, then HandleIncomingConnections for ever.  *)

MainGoes(from, to) ==
    /\ mainPc = from /\ mainPc' = to
    /\ UNCHANGED <<flagVars, serverPc, todo, cur>>

StartServer ==
    /\ mainPc = "start" /\ mainPc' = "loop"
    /\ engine' = "running"
    /\ m_threadHandle' = TRUE /\ serverPc' = "created"
    /\ UNCHANGED <<m_lock, m_threadRunning, m_threadDone, mainUnit, todo, cur, listVars,
                   endPoints, stopping, reader, broken, objectVars>>

(* No address, socket, bind or listen: main logs it and exits.             *)
StartServerFails == MainGoes("start", "exiting") /\ UNCHANGED <<m_lock, dataVars>>

(* accept, new Blackfin, and AddBlackfinEndPoint up to the started reader. *)
Accept(u, f) ==
    /\ MainGoes("loop", "adding")
    /\ u \notin allocated /\ owner[f] = NoUnit
    /\ mainUnit' = u /\ allocated' = allocated \cup {u}
    /\ owner' = [owner EXCEPT ![f] = u]
    /\ sockd' = [sockd EXCEPT ![u] = f] /\ handle' = [handle EXCEPT ![u] = f]
    /\ endPoints' = endPoints \cup {u} /\ broken' = broken \ {u}
    /\ reader' = [reader EXCEPT ![u] = "idle"]
    /\ UNCHANGED <<m_lock, listVars, engine, stopping>>

AddSucceeds == MainGoes("adding", "attached") /\ UNCHANGED <<m_lock, dataVars>>

(* Discovery fails: the engine withdraws the endpoint, stops its reader ... *)
AddFails ==
    /\ MainGoes("adding", "undoing")
    /\ endPoints' = endPoints \ {mainUnit} /\ stopping' = stopping \cup {mainUnit}
    /\ UNCHANGED <<m_lock, listVars, mainUnit, engine, reader, broken, objectVars>>

(* ... and closes the socket once the reader has left its loop.            *)
AddUndone ==
    /\ MainGoes("undoing", "rejected")
    /\ reader[mainUnit] = "stopped" /\ LibraryCloses(mainUnit)
    /\ UNCHANGED <<m_lock, listVars, mainUnit, engineVars, allocated, sockd>>

(* Mutant: "delete pBf" forgotten on the path of a failed discovery.       *)
RejectWithoutDelete ==
    /\ MainGoes("rejected", "loop")
    /\ Close({sockd[mainUnit]}) /\ mainUnit' = NoUnit
    /\ UNCHANGED <<m_lock, listVars, engineVars, allocated, sockd, handle>>

(* delete pBf; close(sockd): the second close of the same number.          *)
RejectUnit ==
    /\ MainGoes("rejected", "loop")
    /\ Delete(mainUnit) /\ Close({sockd[mainUnit]}) /\ mainUnit' = NoUnit
    /\ UNCHANGED <<m_lock, listVars, engine, endPoints, broken, sockd, handle>>

LockToAdd == MainGoes("attached", "locked") /\ Acquire("main") /\ UNCHANGED dataVars

(* Mutant: the pointer is cleared before it is pushed.                     *)
PushNull ==
    /\ MainGoes("locked", "loop") /\ Release
    /\ mainUnit' = NoUnit /\ m_blackfinList' = m_blackfinList \cup {NoUnit}
    /\ UNCHANGED <<needsRemoving, due, polled, engineVars, objectVars>>

(* push_back of a new BlackfinData, and the unlock.                        *)
PushBack ==
    /\ MainGoes("locked", "loop") /\ Release
    /\ m_blackfinList' = m_blackfinList \cup {mainUnit}
    /\ needsRemoving' = needsRemoving \ {mainUnit}
    /\ due' = due \ {mainUnit} /\ polled' = polled \ {mainUnit}
    /\ mainUnit' = NoUnit
    /\ UNCHANGED <<engineVars, objectVars>>

-----------------------------------------------------------------------------
(* SIGTERM or SIGINT: the handler runs on top of the interrupted main      *)
(* thread, whose locks it inherits, and never returns to it.               *)

Signal ==
    /\ Terminable /\ mainPc \in InterruptiblePcs
    /\ mainPc' = IF m_threadRunning THEN "awaitDone" ELSE "exiting"
    /\ m_threadRunning' = FALSE
    /\ UNCHANGED <<m_lock, m_threadDone, m_threadHandle, serverPc, dataVars>>

(* Mutant: ShutdownServer does not wait for m_threadDone.                  *)
ShutdownWithoutWait ==
    /\ MainGoes("awaitDone", "engineDown") /\ engine' = "stopping"
    /\ UNCHANGED <<m_lock, listVars, mainUnit, endPoints, stopping, reader, broken, objectVars>>

ServerIsDone ==
    /\ MainGoes("awaitDone", "engineDown")
    /\ m_threadDone /\ engine' = "stopping"
    /\ UNCHANGED <<m_lock, listVars, mainUnit, endPoints, stopping, reader, broken, objectVars>>

(* ShutdownEngine stops one endpoint after the other ...                   *)
StopEndPoint(u) ==
    /\ MainGoes("engineDown", "engineDown")
    /\ u \in endPoints /\ stopping \cap endPoints = {}
    /\ stopping' = stopping \cup {u}
    /\ UNCHANGED <<m_lock, listVars, mainUnit, engine, endPoints, reader, broken, objectVars>>

(* ... closes its socket and deletes the Blackfin object itself.           *)
DeleteEndPoint(u) ==
    /\ MainGoes("engineDown", "engineDown")
    /\ u \in endPoints \cap stopping /\ reader[u] = "stopped"
    /\ LibraryCloses(u) /\ Delete(u) /\ endPoints' = endPoints \ {u}
    /\ UNCHANGED <<m_lock, listVars, mainUnit, engine, broken, sockd>>

EngineIsDown ==
    /\ MainGoes("engineDown", "drainLock")
    /\ endPoints = {} /\ engine' = "shutdown"
    /\ UNCHANGED <<m_lock, listVars, mainUnit, endPoints, stopping, reader, broken, objectVars>>

LockToDrain == MainGoes("drainLock", "drain") /\ Acquire("main") /\ UNCHANGED dataVars

DrainNothing ==
    MainGoes("drain", "exiting") /\ m_blackfinList = {} /\ Release /\ UNCHANGED dataVars

(* RemoveConnection of a listed unit: the object is gone already, and the  *)
(* loop never advances its iterator. What follows is undefined.            *)
DrainUnit ==
    MainGoes("drain", "undefined") /\ m_blackfinList # {} /\ UNCHANGED <<m_lock, dataVars>>

(* Mutant: the destructor does not wait for the thread.                    *)
ExitWithoutWait == MainGoes("exiting", "terminated") /\ Release /\ UNCHANGED dataVars

(* exit() runs ~BlackfinServer, which waits for the polling thread to go.  *)
Exit == MainGoes("exiting", "terminated") /\ ~m_threadHandle /\ Release /\ UNCHANGED dataVars

-----------------------------------------------------------------------------
(* The polling thread: threadStart and BlackfinServer::run.                *)

ServerGoes(from, to) ==
    /\ Alive /\ serverPc = from /\ serverPc' = to
    /\ UNCHANGED <<mainPc, mainUnit, sockd, engine, broken>>

restVars == <<listVars, todo, cur, endPoints, stopping, reader, allocated, handle, owner>>

SetRunning ==
    /\ ServerGoes("created", "started") /\ m_threadRunning' = TRUE
    /\ UNCHANGED <<m_lock, m_threadDone, m_threadHandle, restVars>>

ClearDone ==
    /\ ServerGoes("started", "loop") /\ m_threadDone' = FALSE
    /\ UNCHANGED <<m_lock, m_threadRunning, m_threadHandle, restVars>>

EnterLoop ==
    ServerGoes("loop", "wantClean") /\ m_threadRunning /\ UNCHANGED <<m_lock, flagVars, restVars>>

(* Mutant: run() returns without setting m_threadDone.                     *)
LeaveNotDone ==
    ServerGoes("loop", "returned") /\ ~m_threadRunning /\ UNCHANGED <<m_lock, flagVars, restVars>>

LeaveLoop ==
    /\ ServerGoes("loop", "returned") /\ ~m_threadRunning /\ m_threadDone' = TRUE
    /\ UNCHANGED <<m_lock, m_threadRunning, m_threadHandle, restVars>>

(* threadStart, after run() has returned.                                  *)
Detach ==
    /\ ServerGoes("returned", "dead") /\ m_threadHandle' = FALSE
    /\ UNCHANGED <<m_lock, m_threadRunning, m_threadDone, restVars>>

LockToClean ==
    ServerGoes("wantClean", "clean") /\ Acquire("server") /\ UNCHANGED <<flagVars, restVars>>

(* Mutant: the pass removes a unit without looking at needsRemoving.       *)
RemoveAnyEndPoint(u) ==
    /\ ServerGoes("clean", "joining") /\ u \in m_blackfinList
    /\ cur' = u /\ endPoints' = endPoints \ {u} /\ stopping' = stopping \cup {u}
    /\ UNCHANGED <<m_lock, flagVars, listVars, todo, reader, allocated, handle, owner>>

(* Mutant: "delete pData->unit" before the endpoint is removed.            *)
DeleteBeforeRemove(u) ==
    /\ ServerGoes("clean", "joining") /\ u \in m_blackfinList \cap needsRemoving
    /\ cur' = u /\ endPoints' = endPoints \ {u} /\ stopping' = stopping \cup {u}
    /\ allocated' = allocated \ {u}
    /\ UNCHANGED <<m_lock, flagVars, listVars, todo, reader, handle, owner>>

(* RemoveConnection: RemoveBlackfinEndPoint tells the reader to stop, ...  *)
RemoveEndPoint(u) ==
    /\ ServerGoes("clean", "joining")
    /\ u \in m_blackfinList \cap needsRemoving
    /\ cur' = u /\ endPoints' = endPoints \ {u} /\ stopping' = stopping \cup {u}
    /\ UNCHANGED <<m_lock, flagVars, listVars, todo, reader, allocated, handle, owner>>

(* ... waits, with m_lock held, until it has, and closes the socket; ...   *)
JoinReader ==
    /\ ServerGoes("joining", "discarding")
    /\ reader[cur] = "stopped" /\ LibraryCloses(cur)
    /\ UNCHANGED <<m_lock, flagVars, listVars, todo, cur, endPoints, stopping, reader, allocated>>

(* Mutant: the removed unit is not erased from the list.                   *)
DiscardWithoutErase ==
    /\ ServerGoes("discarding", "clean")
    /\ Delete(cur) /\ Close({sockd[cur]}) /\ cur' = NoUnit
    /\ UNCHANGED <<m_lock, flagVars, listVars, todo, endPoints, handle>>

(* ... then delete unit, close(sockd), delete pData, and the erase.        *)
DiscardUnit ==
    /\ ServerGoes("discarding", "clean")
    /\ Delete(cur) /\ Close({sockd[cur]}) /\ cur' = NoUnit
    /\ m_blackfinList' = m_blackfinList \ {cur}
    /\ needsRemoving' = needsRemoving \ {cur}
    /\ due' = due \ {cur} /\ polled' = polled \ {cur}
    /\ UNCHANGED <<m_lock, flagVars, todo, endPoints, handle>>

UnlockClean ==
    /\ ServerGoes("clean", "status") /\ Release
    /\ m_blackfinList \cap needsRemoving = {}
    /\ UNCHANGED <<flagVars, restVars>>

(* The status line: reads the list and every listed unit, without m_lock.  *)
StatusLine == ServerGoes("status", "wantPoll") /\ UNCHANGED <<m_lock, flagVars, restVars>>

LockToPoll ==
    /\ ServerGoes("wantPoll", "poll") /\ Acquire("server")
    /\ todo' = m_blackfinList
    /\ UNCHANGED <<flagVars, listVars, cur, endPoints, stopping, reader, allocated, handle, owner>>

(* Mutant: the pass ends with its first unit.                              *)
PollFirstOnly(u) ==
    /\ ServerGoes("poll", "poll") /\ u \in todo /\ todo' = {}
    /\ due' = due \ {u} /\ polled' = polled \cup ({u} \cap due)
    /\ needsRemoving' = needsRemoving \cup (IF DisconnectMode THEN {u} \cap due ELSE {})
    /\ UNCHANGED <<m_lock, flagVars, m_blackfinList, cur, endPoints, stopping, reader,
                   allocated, handle, owner>>

(* One unit of the pass, retrieved, saved, reset and marked when it is due. *)
PollUnit(u) ==
    /\ ServerGoes("poll", "poll")
    /\ u \in todo /\ todo' = todo \ {u}
    /\ due' = due \ {u}
    /\ polled' = polled \cup ({u} \cap due)
    /\ needsRemoving' = needsRemoving \cup (IF DisconnectMode THEN {u} \cap due ELSE {})
    /\ UNCHANGED <<m_lock, flagVars, m_blackfinList, cur, endPoints, stopping, reader,
                   allocated, handle, owner>>

UnlockPoll ==
    ServerGoes("poll", "loop") /\ todo = {} /\ Release /\ UNCHANGED <<flagVars, restVars>>

-----------------------------------------------------------------------------
(* The reader thread the engine runs for unit u.                           *)

ReaderGoes(u, from, to) ==
    /\ Alive /\ reader[u] = from /\ reader' = [reader EXCEPT ![u] = to]
    /\ UNCHANGED <<m_lock, flagVars, mainPc, mainUnit, serverPc, todo, cur, engine, endPoints,
                   stopping, allocated, sockd, m_blackfinList, due, polled>>

(* Can a read by the library fail? Its peer may be lost, or its descriptor *)
(* may have been closed, or handed to another unit, by the server.         *)
CanFail(u) == u \in Breakable \cup broken \/ (handle[u] \in Fds /\ owner[handle[u]] # u)

StopReader(u) ==
    /\ ReaderGoes(u, "idle", "stopped")
    /\ u \in stopping /\ UNCHANGED <<needsRemoving, broken, handle, owner>>

BeginRead(u) ==
    /\ ReaderGoes(u, "idle", "reading")
    /\ u \notin stopping /\ CanFail(u) /\ UNCHANGED <<needsRemoving, broken, handle, owner>>

ReadSucceeds(u) ==
    /\ ReaderGoes(u, "reading", "idle")
    /\ u \notin broken /\ UNCHANGED <<needsRemoving, broken, handle, owner>>

(* An orderly close by the peer: the library closes its handle itself.     *)
PeerCloses(u) ==
    /\ ReaderGoes(u, "reading", "idle")
    /\ u \in Breakable \ broken
    /\ broken' = broken \cup {u} /\ LibraryCloses(u) /\ UNCHANGED needsRemoving

ReadFails(u) ==
    /\ ReaderGoes(u, "reading", "reporting")
    /\ CanFail(u) /\ broken' = broken \cup {u}
    /\ UNCHANGED <<needsRemoving, handle, owner>>

(* BlackfinError: lock, mark the unit if it is listed, unlock.             *)
BlackfinError(u) ==
    /\ ReaderGoes(u, "reporting", "idle") /\ m_lock = "free"
    /\ needsRemoving' = needsRemoving \cup ({u} \cap m_blackfinList)
    /\ UNCHANGED <<broken, handle, owner>>

-----------------------------------------------------------------------------
(* Thirty seconds have passed since the startTime of u.                    *)
Elapse(u) ==
    /\ Alive /\ u \in m_blackfinList \ due /\ due' = due \cup {u}
    /\ UNCHANGED <<m_lock, flagVars, mainPc, mainUnit, serverPc, todo, cur, engineVars,
                   objectVars, m_blackfinList, needsRemoving, polled>>

MainStep ==
    \/ StartServer \/ StartServerFails
    \/ \E u \in Units, f \in Fds : Accept(u, f)
    \/ AddSucceeds \/ AddFails \/ AddUndone \/ RejectUnit \/ LockToAdd \/ PushBack

HandlerStep ==
    \/ ServerIsDone \/ EngineIsDown \/ LockToDrain \/ DrainNothing \/ DrainUnit \/ Exit
    \/ \E u \in Units : StopEndPoint(u) \/ DeleteEndPoint(u)

PollingStep ==
    \/ SetRunning \/ ClearDone \/ EnterLoop \/ LeaveLoop \/ Detach
    \/ LockToClean \/ JoinReader \/ DiscardUnit \/ UnlockClean
    \/ StatusLine \/ LockToPoll \/ UnlockPoll
    \/ \E u \in Units : RemoveEndPoint(u) \/ PollUnit(u)

ReadStep(u) ==
    \/ StopReader(u) \/ BeginRead(u) \/ ReadSucceeds(u)
    \/ PeerCloses(u) \/ ReadFails(u) \/ BlackfinError(u)

Next ==
    \/ MainStep \/ Signal \/ HandlerStep \/ PollingStep
    \/ \E u \in Units : ReadStep(u) \/ Elapse(u)

Spec == Init /\ [][Next]_vars

(* Every thread that can move eventually does. A thread that waits for     *)
(* m_lock gets it if it is free again and again: the polling thread gives  *)
(* it up and sleeps 10 ms in every pass. Nobody must connect, signal, or   *)
(* break; discovery must come to an end, either way.                       *)
Fairness ==
    /\ WF_vars(StartServer \/ StartServerFails)
    /\ WF_vars(AddSucceeds \/ AddFails) /\ WF_vars(AddUndone) /\ WF_vars(RejectUnit)
    /\ SF_vars(LockToAdd) /\ WF_vars(PushBack)
    /\ WF_vars(HandlerStep) /\ SF_vars(LockToDrain)
    /\ WF_vars(PollingStep) /\ SF_vars(LockToClean) /\ SF_vars(LockToPoll)
    /\ \A u \in Units : WF_vars(ReadStep(u)) /\ SF_vars(BlackfinError(u))

FairSpec == Spec /\ Fairness
=============================================================================
