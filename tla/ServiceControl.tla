---------------------------- MODULE ServiceControl ----------------------------
(***************************************************************************)
(* How the daemon is started, stopped and kept running: the init script    *)
(* INSTALL/templates/admin-server.sh, monitor.sh (run by cron every minute *)
(* as root), and main's daemonization, pidfile and port, with several      *)
(* daemon processes alive at a time. What a daemon does between its bind   *)
(* and its end is the subject of BlackfinServer.                           *)
(*                                                                         *)
(* The tests of the scripts that only set EXIT_CODE, overwritten before it *)
(* is used (admin-server.sh:40-47, 58-61), leave no trace here.            *)
(***************************************************************************)
EXTENDS Naturals

CONSTANTS
    Pids,         \* process identifiers of daemons
    Admin, Cron,  \* the two that run scripts
    None, Empty,  \* no pidfile; a pidfile without a pid; nobody
    Lookalikes,   \* pids whose digits appear in the ps line of another process
    MaxCommands, MaxCrashes   \* bounds

ASSUME ServiceAssumption ==
    /\ Admin # Cron /\ None # Empty /\ {None, Empty} \cap Pids = {}
    /\ Lookalikes \subseteq Pids
    /\ MaxCommands \in Nat /\ MaxCrashes \in Nat

Callers == {Admin, Cron}

VARIABLES
    proc,      \* each daemon: not there, on its way to bind, serving, shutting down
    port,      \* the process that listens on the port of the configuration
    pidfile,   \* what the path of the pidfile leads to: None, Empty or a pid
    writing,   \* launches that have yet to write their pid: into the file at
               \* the path, or into one that has been removed since
    script,    \* next step of the script each caller runs
    restarts,  \* callers whose script goes on with start after stop
    careful,   \* history: did every script begin with nothing else going on,
               \* and start only while no daemon served?
    commands, crashes   \* counters for the bounds

procVars   == <<proc, port>>
fileVars   == <<pidfile, writing>>
scriptVars == <<script, restarts, careful>>
counters   == <<commands, crashes>>
vars == <<procVars, fileVars, scriptVars, counters>>

TypeOK ==
    /\ proc \in [Pids -> {"none", "starting", "serving", "quitting"}]
    /\ port \in Pids \cup {None}
    /\ pidfile \in Pids \cup {None, Empty}
    /\ writing \in [Pids -> {"no", "path", "lost"}]
    /\ script \in [Callers -> {"idle", "kill", "remove", "run", "touch"}]
    /\ restarts \subseteq Callers /\ careful \in BOOLEAN
    /\ commands \in 0 .. MaxCommands /\ crashes \in 0 .. MaxCrashes

Init ==
    /\ proc = [p \in Pids |-> "none"] /\ port = None
    /\ pidfile = None /\ writing = [p \in Pids |-> "no"]
    /\ script = [c \in Callers |-> "idle"] /\ restarts = {}
    /\ careful = TRUE
    /\ commands = 0 /\ crashes = 0

Alive(p) == p \in Pids /\ proc[p] # "none"

(* Every launch has written its pid and found the port free or taken.      *)
Settled == \A p \in Pids : writing[p] = "no" /\ proc[p] # "starting"

Quiet == Settled /\ \A c \in Callers : script[c] = "idle"

Serving == \E p \in Pids : proc[p] = "serving"

Goto(c, step) == script' = [script EXCEPT ![c] = step]

-----------------------------------------------------------------------------
(* The administrator runs start, stop or restart, at any moment.           *)
Command ==
    /\ script[Admin] = "idle" /\ commands < MaxCommands
    /\ commands' = commands + 1
    /\ \/ Goto(Admin, "run") /\ UNCHANGED restarts /\ careful' = (careful /\ Quiet /\ ~Serving)
       \/ Goto(Admin, "kill") /\ UNCHANGED restarts /\ careful' = (careful /\ Quiet)
       \/ /\ Goto(Admin, "kill") /\ restarts' = restarts \cup {Admin}
          /\ careful' = (careful /\ Quiet)
    /\ UNCHANGED <<procVars, fileVars, crashes>>

(* Mutant: a missing pidfile (exit status 3) passes for running.           *)
MonitorOverlooks ==
    /\ script[Cron] = "idle" /\ Settled
    /\ pidfile # None /\ ~Alive(pidfile)
    /\ Goto(Cron, "kill") /\ restarts' = restarts \cup {Cron} /\ careful' = (careful /\ Quiet)
    /\ UNCHANGED <<procVars, fileVars, counters>>

(* Mutant: the exit status of status is taken the wrong way round.         *)
MonitorReversed ==
    /\ script[Cron] = "idle" /\ Settled
    /\ Alive(pidfile)
    /\ Goto(Cron, "kill") /\ restarts' = restarts \cup {Cron} /\ careful' = (careful /\ Quiet)
    /\ UNCHANGED <<procVars, fileVars, counters>>

(* monitor.sh: status, then restart unless it said Running. status looks   *)
(* for the pid, as text, in the lines of ps: a dead pid that is part of    *)
(* some line is Running. A launch is over long before cron's next minute.  *)
Monitor ==
    /\ script[Cron] = "idle" /\ Settled
    /\ ~Alive(pidfile) /\ pidfile \notin Lookalikes
    /\ Goto(Cron, "kill") /\ restarts' = restarts \cup {Cron} /\ careful' = (careful /\ Quiet)
    /\ UNCHANGED <<procVars, fileVars, counters>>

(* stop: kill -15 of what the pidfile says.                                *)
Kill(c) ==
    /\ script[c] = "kill" /\ Alive(pidfile)
    /\ proc' = [proc EXCEPT ![pidfile] = "quitting"]
    /\ Goto(c, "remove")
    /\ UNCHANGED <<port, fileVars, restarts, careful, counters>>

AfterStop(c) ==
    IF c \in restarts THEN Goto(c, "run") /\ restarts' = restarts \ {c}
                      ELSE Goto(c, "idle") /\ UNCHANGED restarts

(* ... which fails, and the pidfile stays.                                 *)
KillFails(c) ==
    /\ script[c] = "kill" /\ ~Alive(pidfile)
    /\ AfterStop(c)
    /\ UNCHANGED <<procVars, fileVars, careful, counters>>

(* stop: rm -f. A launch that has the file open goes on writing into it.   *)
Remove(c) ==
    /\ script[c] = "remove"
    /\ pidfile' = None
    /\ writing' = [p \in Pids |-> IF writing[p] = "path" THEN "lost" ELSE writing[p]]
    /\ AfterStop(c)
    /\ UNCHANGED <<procVars, careful, counters>>

(* start runs the binary, whatever it found running: main truncates the    *)
(* pidfile, forks, and its first parent returns to the script. The pid of  *)
(* a dead process is not given out again while the pidfile names it.       *)
Run(c) ==
    /\ script[c] = "run"
    /\ \E p \in Pids :
        /\ ~Alive(p) /\ writing[p] = "no" /\ pidfile # p
        /\ proc' = [proc EXCEPT ![p] = "starting"]
        /\ writing' = [writing EXCEPT ![p] = "path"]
    /\ pidfile' = Empty
    /\ Goto(c, "touch")
    /\ UNCHANGED <<port, restarts, careful, counters>>

Touch(c) ==
    /\ script[c] = "touch"
    /\ pidfile' = IF pidfile = None THEN Empty ELSE pidfile
    /\ Goto(c, "idle")
    /\ UNCHANGED <<procVars, writing, restarts, careful, counters>>

Script(c) == Kill(c) \/ KillFails(c) \/ Remove(c) \/ Run(c) \/ Touch(c)

-----------------------------------------------------------------------------
(* Mutant: the second parent writes its own pid, and exits.                *)
WriteParent(p) ==
    /\ writing[p] # "no" /\ writing' = [writing EXCEPT ![p] = "no"]
    /\ pidfile' = IF writing[p] = "path" THEN "parent" ELSE pidfile
    /\ UNCHANGED <<procVars, scriptVars, counters>>

(* The second parent writes the pid of its child, and exits.               *)
WritePid(p) ==
    /\ writing[p] # "no" /\ writing' = [writing EXCEPT ![p] = "no"]
    /\ pidfile' = IF writing[p] = "path" THEN p ELSE pidfile
    /\ UNCHANGED <<procVars, scriptVars, counters>>

(* StartServer: bind and listen, or "Server failed on start".              *)
Bind(p) ==
    /\ proc[p] = "starting" /\ port = None
    /\ proc' = [proc EXCEPT ![p] = "serving"] /\ port' = p
    /\ UNCHANGED <<fileVars, scriptVars, counters>>

BindFails(p) ==
    /\ proc[p] = "starting" /\ port # None
    /\ proc' = [proc EXCEPT ![p] = "none"]
    /\ UNCHANGED <<port, fileVars, scriptVars, counters>>

Die(p) ==
    /\ proc' = [proc EXCEPT ![p] = "none"]
    /\ port' = IF port = p THEN None ELSE port

(* The signal handler is through with its shutdown.                        *)
Quit(p) ==
    /\ proc[p] = "quitting" /\ Die(p)
    /\ UNCHANGED <<fileVars, scriptVars, counters>>

Crash(p) ==
    /\ Alive(p) /\ crashes < MaxCrashes /\ Die(p)
    /\ crashes' = crashes + 1
    /\ UNCHANGED <<fileVars, scriptVars, commands>>

Launch(p) == WritePid(p) \/ Bind(p) \/ BindFails(p)

Daemon(p) == Launch(p) \/ Quit(p)

Next ==
    \/ Command \/ Monitor
    \/ \E c \in Callers : Script(c)
    \/ \E p \in Pids : Daemon(p) \/ Crash(p)

Spec == Init /\ [][Next]_vars

(* cron keeps running the monitor, scripts go on, launches write and bind. *)
(* A daemon that is told to quit before it has bound ends, for there is no *)
(* thread that its destructor waits for (BlackfinServer.cpp:82-88); one    *)
(* that serves may hang on its way out: nothing makes it end.              *)
Fairness ==
    /\ SF_vars(Monitor)
    /\ \A c \in Callers : WF_vars(Script(c))
    /\ \A p \in Pids : WF_vars(Launch(p)) /\ WF_vars(port # p /\ Quit(p))

FairSpec == Spec /\ Fairness

-----------------------------------------------------------------------------
(* An administrator who waits for one script to be over before the next,   *)
(* and starts the daemon only when none serves, never loses it: when       *)
(* nothing is going on, the pidfile names the daemon that serves. Else     *)
(* stop, status and the monitor could only kill or find somebody else      *)
(* (MovilgateServerApp.cpp:148-153, admin-server.sh:39-69).                *)
PidfileNamesServer ==
    careful /\ Quiet => \A p \in Pids : proc[p] = "serving" => pidfile = p

(* Under the same condition a daemon that serves is told to quit only by   *)
(* the administrator's stop, never by the monitor's restart, whatever      *)
(* crashes (monitor.sh:18-22).                                             *)
MonitorSparesServer ==
    [][\A p \in Pids :
         (careful /\ proc[p] = "serving" /\ proc'[p] = "quitting")
            => script[Admin] = "kill" /\ script'[Admin] = "remove"]_vars

(* A daemon that was told to quit still has the port.                      *)
PortIsHeld == port # None /\ proc[port] = "quitting"

(* The pidfile names a dead process whose digits are part of a line of ps. *)
PidIsMistaken == pidfile \in Lookalikes /\ ~Alive(pidfile)

(* monitor.sh:6: when the service does not run, it gets restarted, also    *)
(* when scripts overlap, when start finds the daemon running, and when a   *)
(* launch fails because its predecessor still holds the port. Only two     *)
(* things keep it down for good: a daemon that was told to quit and hangs  *)
(* with the port (BlackfinServer.cpp:175-200), and a stale pid that status *)
(* takes for a running one (admin-server.sh:75).                           *)
ServiceHeals == []<>Serving \/ <>[]PortIsHeld \/ <>[]PidIsMistaken
==============================================================================
