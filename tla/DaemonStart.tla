---------------------------- MODULE DaemonStart ----------------------------
(***************************************************************************)
(* How the server becomes a daemon and opens its port: main and initLogger *)
(* of MovilgateServerApp.cpp, StartServer of BlackfinServer.cpp with every *)
(* step that may fail, and then what happens to descriptors as units come  *)
(* and go (HandleIncomingConnections, Save, RemoveConnection).             *)
(*                                                                         *)
(* main closes descriptors 0, 1 and 2 and the server goes on to use their  *)
(* numbers, while it still writes to std::cout and to the log.             *)
(***************************************************************************)
EXTENDS Logger

CONSTANTS
    None,
    MaxFd    \* bound: descriptors 0 .. MaxFd

Fd == 0 .. MaxFd

(* What a descriptor is.                                                   *)
Kinds == {"free", "terminal", "default log", "log", "pidfile", "conf", "listen",
          "unit", "memcached"}

ASSUME DaemonAssumption == MaxFd \in Nat /\ None \notin Fd /\ MaxFd > 4

VARIABLES
    pc,           \* main: where it stands
    fds,          \* the open file table: what each descriptor is, or "free"
    good,         \* is std::cout without error?
    handler,      \* is the signal handler registered?
    pidfile,      \* "none", "empty" or "pid"
    parent,       \* the process between the two forks: "running" or "gone"
    server,       \* m_serverSocket, or None
    unit,         \* descriptor of the unit connected last, or None
    closing,      \* the descriptor that RemoveConnection is to close, or None
    memc,         \* descriptor of the polling thread's memcached_st, or None
    reached       \* history: what text of the daemon was written to

Places ==
    {"args", "fork", "logger", "sigaction", "chdir", "close",
     "conf", "version", "address", "socket", "bind", "engine", "started", "failed",
     "terminate", "loop", "accept", "attach", "rejected", "exit", "exited", "aborted", "killed"}

world == <<pidfile, parent>>
conns == <<server, unit, closing, memc>>
vars  == <<logVars, pc, fds, good, handler, world, conns, reached>>

TypeOK ==
    /\ LoggerTypeOK /\ pc \in Places
    /\ fds \in [Fd -> Kinds]
    /\ good \in BOOLEAN /\ handler \in BOOLEAN
    /\ pidfile \in {"none", "empty", "pid"} /\ parent \in {"none", "running", "gone"}
    /\ server \in Fd \cup {None} /\ unit \in Fd \cup {None}
    /\ closing \in Fd \cup {None} /\ memc \in Fd \cup {None}

Init ==
    /\ LoggerInit /\ pc = "args"
    /\ fds = [d \in Fd |-> IF d < 3 THEN "terminal"
                           ELSE IF d = 3 /\ toFile THEN "default log" ELSE "free"]
    /\ good = TRUE /\ handler = FALSE /\ pidfile = "none" /\ parent = "none"
    /\ server = None /\ unit = None /\ closing = None /\ memc = None
    /\ reached = {}

-----------------------------------------------------------------------------
(* The kernel gives out the lowest number that is free.                    *)
Free == {d \in Fd : fds[d] = "free"}
Opened(what) == [fds EXCEPT ![Min(Free)] = what]
Closed(D)    == [d \in Fd |-> IF d \in D THEN "free" ELSE fds[d]]

(* A line to std::cout. When descriptor 1 is closed the write fails and    *)
(* the stream takes nothing any more; the write to a listening socket      *)
(* raises SIGPIPE, which ends the process.                                 *)
Say(says) ==
    IF ~(says /\ good) THEN UNCHANGED <<good, reached>>
    ELSE /\ good' = (fds[1] # "free")
         /\ reached' = IF fds[1] = "free" THEN reached ELSE reached \cup {fds[1]}

Alive(says, next) == IF says /\ good /\ fds[1] = "listen" THEN "killed" ELSE next

(* A step of main that logs, the file first, and goes on at next.          *)
Log(l, next) ==
    /\ WriteFile(l) /\ Say(Prints(l)) /\ pc' = Alive(Prints(l), next)
    /\ UNCHANGED <<config, loggingLevel, toFile>>

Silent(next) == pc' = next /\ UNCHANGED <<logVars, good, reached>>

Ended == {"exit", "exited", "aborted", "killed"}
Rest  == <<handler, world, conns>>   \* what most steps leave alone

-----------------------------------------------------------------------------
(* main, up to the second fork. Each of these may end the process.         *)
OpenPidfile ==
    /\ pc = "args"
    /\ \/ fds' = fds /\ pidfile' = pidfile /\ pc' \in {"fork", "exit"}
       \/ fds' = Opened("pidfile") /\ pidfile' = "empty" /\ pc' = "fork"
    /\ UNCHANGED <<good, handler, parent, conns, logVars, reached>>

Daemonize ==
    /\ pc = "fork"
    /\ \/ pc' = "logger" /\ parent' = "running"
       \/ pc' = "exit" /\ UNCHANGED parent
    /\ UNCHANGED <<fds, good, handler, pidfile, conns, logVars, reached>>

(* Mutant: the parent leaves without a word.                               *)
ParentLeaves ==
    /\ parent = "running" /\ parent' = "gone"
    /\ UNCHANGED <<logVars, pc, fds, good, handler, pidfile, conns, reached>>

(* The parent writes the number of its child, and goes.                    *)
WritePid ==
    /\ parent = "running" /\ parent' = "gone"
    /\ pidfile' = IF pidfile = "empty" THEN "pid" ELSE pidfile
    /\ UNCHANGED <<logVars, pc, fds, good, handler, conns, reached>>

(* initLogger: the configuration, and the log file it names.               *)
InitLogger ==
    /\ pc = "logger" /\ phase # "built" /\ Configure
    /\ UNCHANGED <<pc, fds, good, handler, world, conns, reached,
                   loggingLevel, toFile, lines>>

OpenLog ==
    /\ pc = "logger" /\ pc' = "sigaction"
    /\ \/ Reconfigure(TRUE) /\ fds' = Opened("log")
       \/ Reconfigure(FALSE) /\ fds' = fds
    /\ UNCHANGED <<Rest, good, reached>>

SetHandler ==
    /\ pc = "sigaction" /\ handler' = TRUE /\ Silent("chdir")
    /\ UNCHANGED <<fds, world, conns>>

ChangeDirectory ==
    /\ pc = "chdir" /\ UNCHANGED <<fds, Rest>>
    /\ Silent("close") \/ Log(Error, "exit")

CloseStandard ==
    /\ pc = "close" /\ Silent("conf")
    /\ fds' = Closed({0, 1, 2}) /\ UNCHANGED Rest

-----------------------------------------------------------------------------
(* StartServer. The ifstream stays open until it returns. A configuration  *)
(* that is missing or is not JSON makes json::parse throw, and one without *)
(* the two strings makes their conversion throw: nobody catches it.        *)
OpenConf ==
    /\ pc = "conf" /\ UNCHANGED Rest
    /\ \/ fds' = Opened("conf") /\ \E next \in {"version", "aborted"} : Silent(next)
       \/ fds' = fds /\ Silent("aborted")

(* Mutant: nothing is logged before the socket is there.                   *)
LogVersionLate == pc = "version" /\ Silent("address") /\ UNCHANGED <<fds, Rest>>

LogVersion == pc = "version" /\ Log(Info, "address") /\ UNCHANGED <<fds, Rest>>

(* The two strings of the configuration, and getaddrinfo.                  *)
Address ==
    /\ pc = "address" /\ UNCHANGED <<fds, Rest>>
    /\ Silent("aborted") \/ Silent("socket") \/ Log(Error, "failed")

Socket ==
    /\ pc = "socket"
    /\ \/ /\ Silent("bind") /\ fds' = Opened("listen") /\ server' = Min(Free)
       \/ /\ Log(Error, "failed") /\ UNCHANGED <<fds, server>>
    /\ UNCHANGED <<handler, world, unit, closing, memc>>

Bind ==
    /\ pc = "bind" /\ UNCHANGED <<fds, Rest>>
    /\ Log(Info, "engine") \/ Log(Error, "failed")

(* The polling thread, if it starts, logs as main does.                    *)
StartThread ==
    /\ pc = "engine" /\ UNCHANGED <<fds, Rest>>
    /\ \/ /\ Race /\ pc' = "started"
          /\ UNCHANGED <<config, loggingLevel, toFile, good, reached>>
       \/ Log(Error, "exit")

(* StartServer returns, and main logs how it went.                         *)
Return(result, l, next) ==
    /\ pc = result /\ Log(l, next)
    /\ fds' = Closed({d \in Fd : fds[d] = "conf"}) /\ UNCHANGED Rest

Terminate == pc = "terminate" /\ Log(Info, "exit") /\ UNCHANGED <<fds, Rest>>

(* exit(): the last thing the logger does is to flush its file.            *)
Exit ==
    /\ pc = "exit" /\ pc' = "exited" /\ FlushAll
    /\ UNCHANGED <<fds, Rest, good, reached>>

-----------------------------------------------------------------------------
(* The main loop. A connection is logged, then accepted.                   *)
SelectFails == pc = "loop" /\ Log(Error, "loop") /\ UNCHANGED <<fds, Rest>>

Detect == pc = "loop" /\ Free # {} /\ Log(Debug, "accept") /\ UNCHANGED <<fds, Rest>>

Accept ==
    /\ pc = "accept" /\ Free # {} /\ unit = None
    /\ fds' = Opened("unit") /\ unit' = Min(Free) /\ Silent("attach")
    /\ UNCHANGED <<handler, world, server, closing, memc>>

AcceptFails == pc = "accept" /\ Silent("loop") /\ UNCHANGED <<fds, Rest>>

(* AddBlackfinEndPoint takes the unit, ...                                 *)
Attach == pc = "attach" /\ Log(Debug, "loop") /\ UNCHANGED <<fds, Rest>>

(* ... or it does not, and closes its socket before it returns.            *)
AddFails ==
    /\ pc = "attach" /\ Silent("rejected") /\ fds' = Closed({unit}) /\ UNCHANGED Rest

(* Mutant: the server is closed in place of the unit.                      *)
RejectServer ==
    /\ pc = "rejected" /\ Log(Debug, "loop") /\ unit' = None
    /\ fds' = Closed({server})
    /\ UNCHANGED <<handler, world, server, closing, memc>>

(* main closes the same number again, whatever it is by then.              *)
Reject ==
    /\ pc = "rejected" /\ Log(Debug, "loop") /\ unit' = None
    /\ fds' = Closed({unit})
    /\ UNCHANGED <<handler, world, server, closing, memc>>

(* The polling thread: a pass writes to std::cout, opens a connection to   *)
(* memcached, closes it and logs the document; ...                         *)
Serving == pc \in {"loop", "accept", "attach", "rejected"}
Idle == Serving /\ memc = None /\ closing = None

Connect ==
    /\ Idle /\ Free # {} /\ Say(TRUE) /\ pc' = Alive(TRUE, pc)
    /\ fds' = Opened("memcached") /\ memc' = Min(Free)
    /\ UNCHANGED <<handler, world, server, unit, closing, logVars>>

(* Mutant: memcached_free is forgotten.                                    *)
DisconnectForget ==
    /\ Serving /\ memc # None /\ memc' = None /\ Log(Debug, pc)
    /\ UNCHANGED <<fds, handler, world, server, unit, closing>>

Disconnect ==
    /\ Serving /\ memc # None /\ memc' = None /\ fds' = Closed({memc}) /\ Log(Debug, pc)
    /\ UNCHANGED <<handler, world, server, unit, closing>>

(* ... or a unit is removed: the library closes its socket first, ...      *)
RemoveUnit ==
    /\ Idle /\ pc \notin {"attach", "rejected"} /\ unit # None /\ Say(TRUE) /\ pc' = Alive(TRUE, pc)
    /\ fds' = Closed({unit}) /\ closing' = unit /\ unit' = None
    /\ UNCHANGED <<handler, world, server, memc, logVars>>

(* ... and RemoveConnection closes the same number again.                  *)
CloseAgain ==
    /\ Serving /\ closing # None /\ closing' = None /\ fds' = Closed({closing})
    /\ UNCHANGED <<pc, good, handler, world, server, unit, memc, logVars, reached>>

-----------------------------------------------------------------------------
(* Signals: before sigaction they end the process. The handler logs, and   *)
(* leaves on SIGINT and SIGTERM; that it first shuts a running server down *)
(* is in BlackfinServer.                                                   *)
Hangup ==
    /\ pc \notin Ended
    /\ IF handler THEN Log(Debug, pc) ELSE Silent("killed")
    /\ UNCHANGED <<fds, Rest>>

Terminated ==
    /\ pc \notin Ended
    /\ IF handler THEN Silent("exit") \/ Log(Debug, "exit") ELSE Silent("killed")
    /\ UNCHANGED <<fds, Rest>>

Main ==
    \/ OpenPidfile \/ Daemonize \/ InitLogger \/ OpenLog \/ SetHandler
    \/ ChangeDirectory \/ CloseStandard \/ OpenConf \/ LogVersion \/ Address
    \/ Socket \/ Bind \/ StartThread
    \/ Return("started", Info, "loop") \/ Return("failed", Error, "terminate")
    \/ Terminate \/ Exit

Loop == SelectFails \/ Detect \/ Accept \/ AcceptFails \/ Attach \/ AddFails \/ Reject

Poll == Connect \/ Disconnect \/ RemoveUnit \/ CloseAgain

Next == Main \/ Loop \/ Poll \/ WritePid \/ Hangup \/ Terminated

Spec == Init /\ [][Next]_vars

FairSpec == Spec /\ WF_vars(Main) /\ WF_vars(WritePid)

-----------------------------------------------------------------------------
(* Nothing that the daemon prints gets into a socket, although descriptor  *)
(* 1 becomes the listening one: the first line that it logs at INFO, as it *)
(* comes before the socket, fails and silences std::cout. It takes the log *)
(* configuration as shipped, which sends INFO to the standard output, and  *)
(* a logging level that lets INFO through (MovilgateServerApp.cpp:184-190, *)
(* BlackfinServer.cpp:105, 129, 521-547, 659-705).                         *)
NoTextIntoSockets ==
    (phase = "configured" /\ Prints(Info)) => reached \subseteq {"terminal"}

(* As long as the server serves, its port and its log stay what they are,  *)
(* whichever numbers units, memcached and the two closes of a removed unit *)
(* have in the meantime (BlackfinServer.cpp:519-526, 603-621).             *)
PortStaysOpen ==
    Serving => /\ fds[server] = "listen"
               /\ toFile => \E d \in Fd : fds[d] = "log"

(* A server without units and without a connection to memcached has given  *)
(* back every descriptor, also those of units it rejected and of the       *)
(* configuration (BlackfinServer.cpp:94, 519-526, 603-621, 668).           *)
NothingLeaks ==
    (Serving /\ unit = None /\ memc = None)
        => \A d \in Fd : fds[d] \in {"free", "listen", "default log", "log", "pidfile"}

(* A start that fails leaves its reason in the log: as long as main is the *)
(* only thread and the stream has taken every line, a process that exits   *)
(* has lost none of them, and one that dies of an exception or is killed   *)
(* fewer than LOG_FLUSH_THRESHOLD of a level, whichever levels the lines   *)
(* before had (easylogging++.h:3424-3504, 4177-4191, 3663-3671).           *)
LinesSurvive ==
    ~failed /\ ~racing =>
        /\ Threshold > 0 => pending <= Cardinality(Used) * (Threshold - 1)
        /\ pc = "exited" => pending = 0

(* A server that serves gets its number into the pidfile, if it was given  *)
(* one, although the parent that writes it does not wait for the child     *)
(* (MovilgateServerApp.cpp:148-153).                                       *)
ServerGetsNamed == (pc = "loop" /\ pidfile = "empty") ~> pidfile = "pid"
==============================================================================
