------------------------- MODULE ServiceControlProofs -------------------------
(***************************************************************************)
(* As long as scripts run one at a time, and start only while no daemon    *)
(* serves, nobody loses the daemon: proved for any number of processes,    *)
(* commands and crashes.                                                   *)
(***************************************************************************)
EXTENDS ServiceControl, TLAPS

(* A process that is launched and not yet stopped.                         *)
Current(p) == writing[p] # "no" \/ proc[p] \in {"starting", "serving"}

(* At most one script runs, on behalf of at most one current process.      *)
OneScript ==
    \A c, d \in Callers : (script[c] # "idle" /\ script[d] # "idle") => c = d

OneCurrent == \A p, q \in Pids : (Current(p) /\ Current(q)) => p = q

(* The pidfile is the one of the current process, named in it or still to be. *)
Named ==
    \A p \in Pids : Current(p) =>
        \/ writing[p] = "no" /\ pidfile = p
        \/ writing[p] = "path" /\ pidfile = Empty

(* What a script can rely on from step to step.                            *)
ScriptInv ==
    \A c \in Callers :
        /\ script[c] \in {"kill", "remove", "run"} => Settled
        /\ script[c] \in {"remove", "run"} => ~Serving
        /\ (c = Cron /\ script[c] \in {"kill", "remove"}) => ~Alive(pidfile)

CarefulInv == TypeOK /\ OneScript /\ OneCurrent /\ Named /\ ScriptInv

(* Once somebody was careless only the types are left.                     *)
IInv == TypeOK /\ (careful => CarefulInv)

-----------------------------------------------------------------------------
(* Nothing runs initially.                                                 *)
LEMMA InitIInv == Init => IInv
<1> SUFFICES ASSUME Init PROVE CarefulInv
  BY DEF IInv, CarefulInv
<1>1. TypeOK
  BY ServiceAssumption DEF Init, TypeOK
<1>2. OneScript /\ OneCurrent /\ Named /\ ScriptInv
  BY DEF Init, OneScript, OneCurrent, Current, Named, ScriptInv
<1> QED
  BY <1>1, <1>2 DEF CarefulInv

(* Killing what the pidfile names, or finding it dead, leaves no server.   *)
LEMMA NoneServes ==
  ASSUME TypeOK, Named, Settled,
         ~Alive(pidfile) \/ (pidfile \in Pids /\ proc[pidfile] # "serving")
  PROVE  ~Serving
  BY DEF TypeOK, Named, Current, Settled, Alive, Serving

(* Scripts begin when all is quiet.                                        *)
LEMMA BeginStep ==
  ASSUME CarefulInv, TypeOK', Command \/ Monitor, careful' PROVE CarefulInv'
<1> USE ServiceAssumption DEF CarefulInv, procVars, fileVars, scriptVars
<1>1. Quiet
  BY DEF Command, Monitor
<1>2. PICK c \in Callers, step \in {"kill", "run"} :
        /\ script' = [script EXCEPT ![c] = step]
        /\ c = Cron => step = "kill" /\ ~Alive(pidfile)
        /\ step = "run" => ~Serving
  BY DEF Command, Monitor, Goto, Callers
<1>3. UNCHANGED <<proc, port, pidfile, writing>>
  BY DEF Command, Monitor
<1>4. OneScript'
  BY <1>1, <1>2 DEF TypeOK, Quiet, OneScript
<1>5. OneCurrent' /\ Named'
  BY <1>3 DEF OneCurrent, Named, Current
<1>6. ScriptInv'
  BY <1>1, <1>2, <1>3 DEF TypeOK, Quiet, ScriptInv, Settled, Alive, Serving
<1> QED
  BY <1>4, <1>5, <1>6

(* The end of stop, in restart or alone.                                   *)
LEMMA AfterStopKeeps ==
  ASSUME CarefulInv, NEW c \in Callers, AfterStop(c), script[c] # "idle"
  PROVE  /\ script' \in [Callers -> {"idle", "kill", "remove", "run", "touch"}]
         /\ script'[c] \in {"idle", "run"}
         /\ \A d \in Callers \ {c} : script'[d] = script[d] /\ script[d] = "idle"
         /\ OneScript'
  BY DEF CarefulInv, TypeOK, AfterStop, Goto, OneScript

(* The steps of the scripts.                                               *)
LEMMA ScriptStep ==
  ASSUME CarefulInv, TypeOK', NEW c \in Callers, Script(c) PROVE CarefulInv'
<1> USE ServiceAssumption DEF procVars, fileVars, scriptVars
<1>1. CASE Kill(c)
  <2>1. pidfile \in Pids /\ Settled /\ c # Cron
    BY <1>1 DEF Kill, CarefulInv, ScriptInv, Alive
  <2>2. /\ proc' = [proc EXCEPT ![pidfile] = "quitting"]
        /\ script' = [script EXCEPT ![c] = "remove"]
        /\ UNCHANGED <<port, pidfile, writing>>
    BY <1>1 DEF Kill, Goto
  <2>3. OneScript'
    BY <1>1, <2>1, <2>2 DEF Kill, CarefulInv, TypeOK, OneScript
  <2>4. OneCurrent' /\ Named'
    BY <2>1, <2>2 DEF CarefulInv, TypeOK, OneCurrent, Named, Current
  <2>5. Settled' /\ ~Serving'
    BY <2>1, <2>2 DEF CarefulInv, TypeOK, Settled, Serving, Named, Current
  <2>6. ScriptInv'
    BY <1>1, <2>1, <2>2, <2>5 DEF Kill, CarefulInv, TypeOK, OneScript, ScriptInv
  <2> QED
    BY <2>3, <2>4, <2>6 DEF CarefulInv
<1>2. CASE KillFails(c)
  <2>1. script[c] = "kill" /\ ~Alive(pidfile) /\ AfterStop(c)
        /\ UNCHANGED <<proc, port, pidfile, writing>>
    BY <1>2 DEF KillFails
  <2>2. Settled /\ ~Serving
    BY <2>1, NoneServes DEF CarefulInv, ScriptInv
  <2>3. OneScript'
    BY <2>1, AfterStopKeeps DEF CarefulInv, TypeOK
  <2>4. OneCurrent' /\ Named'
    BY <2>1 DEF CarefulInv, OneCurrent, Named, Current
  <2>5. Settled' /\ ~Serving'
    BY <2>1, <2>2 DEF Settled, Serving
  <2>6. ScriptInv'
    BY <2>1, <2>5, AfterStopKeeps DEF ScriptInv
  <2> QED
    BY <2>3, <2>4, <2>6 DEF CarefulInv
<1>3. CASE Remove(c)
  <2>1. script[c] = "remove" /\ pidfile' = None /\ AfterStop(c)
        /\ UNCHANGED <<proc, port>>
    BY <1>3 DEF Remove
  <2>2. Settled /\ ~Serving
    BY <2>1 DEF CarefulInv, ScriptInv
  <2>3. UNCHANGED writing
    BY <1>3, <2>2 DEF Remove, CarefulInv, TypeOK, Settled
  <2>4. OneScript'
    BY <2>1, <2>3, AfterStopKeeps DEF CarefulInv, TypeOK
  <2>5. OneCurrent' /\ Named'
    BY <2>1, <2>2, <2>3 DEF CarefulInv, TypeOK, OneCurrent, Named, Current, Settled, Serving
  <2>6. Settled' /\ ~Serving'
    BY <2>1, <2>2, <2>3 DEF Settled, Serving
  <2>7. ScriptInv'
    BY <2>1, <2>6, AfterStopKeeps DEF ScriptInv
  <2> QED
    BY <2>4, <2>5, <2>7 DEF CarefulInv
<1>4. CASE Run(c)
  <2>1. PICK p \in Pids :
          /\ proc' = [proc EXCEPT ![p] = "starting"]
          /\ writing' = [writing EXCEPT ![p] = "path"]
    BY <1>4 DEF Run
  <2>2. script[c] = "run" /\ script' = [script EXCEPT ![c] = "touch"]
        /\ pidfile' = Empty /\ UNCHANGED port
    BY <1>4 DEF Run, Goto
  <2>3. Settled /\ ~Serving
    BY <2>2 DEF CarefulInv, ScriptInv
  <2>4. \A q \in Pids : ~Current(q)
    BY <2>3 DEF CarefulInv, TypeOK, Settled, Serving, Current
  <2>5. OneScript'
    BY <2>1, <2>2 DEF CarefulInv, TypeOK, OneScript
  <2>6. \A q \in Pids : Current(q)' => q = p
    BY <2>1, <2>4 DEF CarefulInv, TypeOK, Current
  <2>7. OneCurrent'
    BY <2>6 DEF OneCurrent
  <2>8. Named'
    BY <2>1, <2>2, <2>6 DEF CarefulInv, TypeOK, Named
  <2>9. ScriptInv'
    BY <2>2 DEF CarefulInv, TypeOK, OneScript, ScriptInv
  <2> QED
    BY <2>5, <2>7, <2>8, <2>9 DEF CarefulInv
<1>5. CASE Touch(c)
  <2>1. script[c] = "touch" /\ script' = [script EXCEPT ![c] = "idle"]
        /\ pidfile' = (IF pidfile = None THEN Empty ELSE pidfile)
        /\ UNCHANGED <<proc, port, writing>>
    BY <1>5 DEF Touch, Goto
  <2>2. OneScript'
    BY <2>1 DEF CarefulInv, TypeOK, OneScript
  <2>3. OneCurrent' /\ Named'
    BY <2>1 DEF CarefulInv, TypeOK, OneCurrent, Named, Current
  <2>4. ScriptInv'
    BY <2>1 DEF CarefulInv, TypeOK, OneScript, ScriptInv
  <2> QED
    BY <2>2, <2>3, <2>4 DEF CarefulInv
<1> QED
  BY <1>1, <1>2, <1>3, <1>4, <1>5 DEF Script

(* The steps of the daemons.                                               *)
LEMMA DaemonStep ==
  ASSUME CarefulInv, TypeOK', NEW p \in Pids, Daemon(p) \/ Crash(p) PROVE CarefulInv'
<1> USE ServiceAssumption DEF procVars, fileVars, scriptVars
<1>1. CASE WritePid(p)
  <2>1. /\ writing[p] = "path" /\ pidfile' = p
        /\ writing' = [writing EXCEPT ![p] = "no"]
        /\ UNCHANGED <<proc, port, script>>
    BY <1>1 DEF WritePid, CarefulInv, Named, Current
  <2>2. OneScript'
    BY <2>1 DEF CarefulInv, TypeOK, OneScript
  <2>3. \A q \in Pids : Current(q)' => Current(q) /\ q = p
    BY <2>1 DEF CarefulInv, TypeOK, OneCurrent, Current
  <2>4. OneCurrent' /\ Named'
    BY <2>1, <2>3 DEF CarefulInv, TypeOK, OneCurrent, Named
  <2>5. ScriptInv'
    BY <2>1 DEF CarefulInv, ScriptInv, Settled
  <2> QED
    BY <2>2, <2>4, <2>5 DEF CarefulInv
<1>2. CASE Bind(p)
  <2>1. /\ proc[p] = "starting" /\ proc' = [proc EXCEPT ![p] = "serving"] /\ port' = p
        /\ UNCHANGED <<pidfile, writing, script>>
    BY <1>2 DEF Bind
  <2>2. OneScript'
    BY <2>1 DEF CarefulInv, TypeOK, OneScript
  <2>3. OneCurrent' /\ Named'
    BY <2>1 DEF CarefulInv, TypeOK, OneCurrent, Named, Current
  <2>4. ScriptInv'
    BY <2>1 DEF CarefulInv, ScriptInv, Settled
  <2> QED
    BY <2>2, <2>3, <2>4 DEF CarefulInv
<1>3. ASSUME BindFails(p) \/ Quit(p) \/ Crash(p) PROVE CarefulInv'
  <2>1. /\ proc' = [proc EXCEPT ![p] = "none"]
        /\ UNCHANGED <<pidfile, writing, script>>
    BY <1>3 DEF BindFails, Quit, Crash, Die, CarefulInv, TypeOK
  <2>2. OneScript'
    BY <2>1 DEF CarefulInv, TypeOK, OneScript
  <2>3. \A q \in Pids : Current(q)' => Current(q)
    BY <2>1 DEF CarefulInv, TypeOK, Current
  <2>4. OneCurrent' /\ Named'
    BY <2>1, <2>3 DEF CarefulInv, OneCurrent, Named
  <2>5. ScriptInv'
    BY <2>1 DEF CarefulInv, TypeOK, ScriptInv, Settled, Serving, Alive
  <2> QED
    BY <2>2, <2>4, <2>5 DEF CarefulInv
<1> QED
  BY <1>1, <1>2, <1>3 DEF Daemon, Launch

(* The types hold however careless the administrator is.                   *)
LEMMA TypeStep == TypeOK /\ [Next]_vars => TypeOK'
<1> SUFFICES ASSUME TypeOK, [Next]_vars PROVE TypeOK'
  OBVIOUS
<1> USE ServiceAssumption DEF TypeOK, procVars, fileVars, scriptVars, counters
<1>1. CASE UNCHANGED vars
  BY <1>1 DEF vars
<1>2. CASE Command \/ Monitor
  <2>1. commands' \in 0 .. MaxCommands /\ crashes' \in 0 .. MaxCrashes
    <3>1. /\ (commands' = commands + 1 /\ commands < MaxCommands) \/ commands' = commands
          /\ crashes' = crashes
      BY <1>2, Zenon DEF Command, Monitor
    <3> QED
      BY <3>1
  <2>2. careful' \in BOOLEAN
    BY <1>2, Zenon DEF Command, Monitor
  <2>3. /\ script' \in [Callers -> {"idle", "kill", "remove", "run", "touch"}]
        /\ restarts' \subseteq Callers
    BY <1>2 DEF Command, Monitor, Goto, Callers
  <2>4. UNCHANGED <<proc, port, pidfile, writing>>
    BY <1>2 DEF Command, Monitor
  <2> QED
    BY <2>1, <2>2, <2>3, <2>4
<1>3. ASSUME NEW c \in Callers, Script(c) PROVE TypeOK'
  <2>1. CASE Kill(c)
    BY <2>1 DEF Kill, Goto
  <2>2. CASE KillFails(c)
    BY <2>2 DEF KillFails, AfterStop, Goto
  <2>3. CASE Remove(c)
    BY <2>3 DEF Remove, AfterStop, Goto
  <2>4. CASE Run(c)
    BY <2>4 DEF Run, Goto
  <2>5. CASE Touch(c)
    BY <2>5 DEF Touch, Goto
  <2> QED
    BY <1>3, <2>1, <2>2, <2>3, <2>4, <2>5 DEF Script
<1>4. ASSUME NEW p \in Pids, Daemon(p) \/ Crash(p) PROVE TypeOK'
  BY <1>4 DEF Daemon, Launch, WritePid, Bind, BindFails, Quit, Crash, Die
<1> QED
  BY <1>1, <1>2, <1>3, <1>4 DEF Next

(* Nobody becomes careful again.                                           *)
LEMMA CarelessStep == [Next]_vars /\ careful' /\ TypeOK => careful
  BY DEF Next, Command, Monitor, Script, Kill, KillFails, Remove, Run, Touch, Daemon, Launch,
         WritePid, Bind, BindFails, Quit, Crash, vars, scriptVars, TypeOK

(* Every step keeps the invariant.                                         *)
THEOREM ServiceInvariance == Spec => []IInv
<1>1. IInv /\ [Next]_vars => IInv'
  <2> SUFFICES ASSUME IInv, [Next]_vars PROVE IInv'
    OBVIOUS
  <2>1. TypeOK'
    BY TypeStep DEF IInv
  <2>2. ASSUME careful' PROVE CarefulInv'
    <3>1. CarefulInv
      BY <2>2, CarelessStep DEF IInv
    <3>2. CASE UNCHANGED vars
      BY <3>1, <3>2 DEF vars, procVars, fileVars, scriptVars, counters, CarefulInv, TypeOK,
                  OneScript, OneCurrent, Current, Named, ScriptInv, Settled, Serving, Alive
    <3> QED
      BY <2>1, <2>2, <3>1, <3>2, BeginStep, ScriptStep, DaemonStep DEF Next
  <2> QED
    BY <2>1, <2>2 DEF IInv
<1> QED
  BY <1>1, InitIInv, PTL DEF Spec

(* Every variable of the processes, the files and the scripts keeps its    *)
(* type, however careless the callers are (admin-server.sh:15-67,          *)
(* monitor.sh:3-9).                                                        *)
THEOREM ServiceTypes == Spec => []TypeOK
<1>1. IInv => TypeOK
  BY DEF IInv
<1> QED
  BY ServiceInvariance, <1>1, PTL

(* Whenever all is quiet, the pidfile names the daemon that serves, so     *)
(* that stop, status and the monitor see it (admin-server.sh:57-87).       *)
THEOREM ServerIsNamed == Spec => []PidfileNamesServer
<1>1. IInv => PidfileNamesServer
  BY DEF IInv, CarefulInv, Named, Current, PidfileNamesServer, Quiet, Settled
<1> QED
  BY <1>1, ServiceInvariance, PTL

(* The monitor never makes a daemon quit that serves (monitor.sh:18-22).   *)
THEOREM MonitorIsHarmless == Spec => MonitorSparesServer
<1>1. ASSUME CarefulInv, [Next]_vars, NEW p \in Pids, proc[p] = "serving", proc'[p] = "quitting"
      PROVE  script[Admin] = "kill" /\ script'[Admin] = "remove"
  <2>1. PICK c \in Callers : Kill(c)
    <3>1. CASE Command \/ Monitor \/ UNCHANGED vars
      BY <1>1, <3>1 DEF Command, Monitor, vars, procVars
    <3>2. ASSUME NEW c \in Callers, Script(c) PROVE Kill(c)
      BY <1>1, <3>2 DEF Script, KillFails, Remove, Run, Touch, procVars, CarefulInv, TypeOK
    <3>3. ASSUME NEW q \in Pids, Daemon(q) \/ Crash(q) PROVE FALSE
      BY <1>1, <3>3 DEF Daemon, Launch, WritePid, Bind, BindFails, Quit, Crash, Die, procVars,
                        CarefulInv, TypeOK
    <3> QED
      BY <1>1, <3>1, <3>2, <3>3 DEF Next
  <2>2. c = Admin
    BY <1>1, <2>1 DEF Kill, CarefulInv, ScriptInv, Callers
  <2> QED
    BY <1>1, <2>1, <2>2 DEF Kill, Goto, CarefulInv, TypeOK
<1>2. IInv /\ [Next]_vars =>
        [\A p \in Pids :
           (careful /\ proc[p] = "serving" /\ proc'[p] = "quitting")
              => script[Admin] = "kill" /\ script'[Admin] = "remove"]_vars
  BY <1>1 DEF IInv
<1> QED
  BY <1>2, ServiceInvariance, PTL DEF Spec, MonitorSparesServer
==============================================================================
