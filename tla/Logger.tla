------------------------------- MODULE Logger -------------------------------
(***************************************************************************)
(* The default logger of Easylogging++ as the server has it: made by the   *)
(* Storage that is there before main, with a default configuration and a   *)
(* default log file, and configured anew by initLogger. A log statement    *)
(* appends a line to the buffer of the log file's stream, which is flushed *)
(* now and then, and prints it on the standard output. A stream that could *)
(* not write, to a full disk say, takes nothing any more.                  *)
(*                                                                         *)
(* The library's locks are empty here (MovilgateServerApp.cpp:46-48). As   *)
(* long as main is the only thread a statement is one step; what two       *)
(* threads do to the counts and to the stream is not described.            *)
(*                                                                         *)
(* TO_STANDARD_OUTPUT is the configuration type that LogConfiguration      *)
(* works out; FILENAME and TO_FILE are the same for every level, as in     *)
(* server/conf/easylogging++.conf.                                         *)
(***************************************************************************)
EXTENDS LogConfiguration, Integers, FiniteSetsExt

CONSTANTS
    Debug, Error, Info,   \* the levels that the server logs at
    LoggingLevels,        \* values that Storage::m_loggingLevel may have
    Threshold             \* LOG_FLUSH_THRESHOLD

Used == {Debug, Error, Info}

ASSUME LoggerAssumption ==
    /\ Debug # Error /\ Error # Info /\ Info # Debug
    /\ Used \subseteq Levels \ {Global}
    /\ LoggingLevels \subseteq Nat /\ Threshold \in Nat /\ Values = BOOLEAN

VARIABLES
    loggingLevel, \* Storage::m_loggingLevel, which no constructor sets
    toFile,       \* TO_FILE: FALSE when the file cannot be opened
    unflushed,    \* m_unflushedCount, of each level
    pending,      \* lines that may still be in the buffer of the stream
    failed,       \* is the stream in error?
    racing        \* may several threads log?

lines   == <<unflushed, pending, failed, racing>>
logVars == <<config, loggingLevel, toFile, lines>>

LoggerTypeOK ==
    /\ phase \in {"parse", "rest", "merge", "build", "built", "configured"}
    /\ loggingLevel \in Nat /\ toFile \in BOOLEAN
    /\ unflushed \in [Used -> Nat] /\ pending \in Nat
    /\ failed \in BOOLEAN /\ racing \in BOOLEAN

Uncounted == [l \in Used |-> 0]   \* initUnflushedCount

LoggerInit ==
    /\ ConfigInit /\ loggingLevel \in LoggingLevels /\ toFile \in BOOLEAN
    /\ unflushed = Uncounted /\ pending = 0 /\ failed = FALSE /\ racing = FALSE

-----------------------------------------------------------------------------
(* insertFile of every level: the file, which is one, is opened and shared, *)
(* or TO_FILE is set to false.                                             *)
InsertFile(opened) == toFile' = opened

(* Logger::configure, once the map is built: nothing has been logged, and  *)
(* the new file has a new stream. What was read of the configuration file  *)
(* is gone as initLogger returns.                                          *)
Reconfigure(opened) ==
    /\ phase = "built" /\ phase' = "configured"
    /\ InsertFile(opened) /\ unflushed' = Uncounted /\ pending' = 0 /\ failed' = FALSE
    /\ file' = <<>> /\ line' = 1 /\ level' = Unknown /\ since' = [l \in {} |-> 0]
    /\ value' = [l \in {} |-> Default] /\ done' = {}
    /\ UNCHANGED <<own, typed, loggingLevel, racing>>

(* With HierarchicalLogging a level is compared with m_loggingLevel, and   *)
(* ENABLED does not count.                                                 *)
Proceeds(l) == Rank[l] >= loggingLevel
Prints(l) == Proceeds(l) /\ Lookup(l)

IsFlushNeeded(l) == unflushed[l] + 1 >= Threshold

(* flush: the count starts over, whether or not the stream could write.    *)
Flush == \/ pending' = 0 /\ failed' = failed
         \/ pending' = pending + 1 /\ failed' = TRUE

(* Mutant: a line that needs no flush is not counted.                      *)
WriteUncounted(l) ==
    /\ UNCHANGED racing
    /\ IF ~(Proceeds(l) /\ toFile) \/ failed \/ racing
       THEN UNCHANGED <<unflushed, pending, failed>>
       ELSE \/ failed' = TRUE /\ UNCHANGED <<unflushed, pending>>
            \/ IF IsFlushNeeded(l)
                 THEN unflushed' = [unflushed EXCEPT ![l] = 0] /\ Flush
                 ELSE UNCHANGED <<unflushed, failed>> /\ pending' = pending + 1

(* A line into the file. It is lost, and not counted, if the stream fails  *)
(* or has failed. A flush takes the lines of all levels with it, but       *)
(* starts the count of one level over.                                     *)
WriteFile(l) ==
    /\ UNCHANGED racing
    /\ IF ~(Proceeds(l) /\ toFile) \/ failed \/ racing
       THEN UNCHANGED <<unflushed, pending, failed>>
       ELSE \/ failed' = TRUE /\ UNCHANGED <<unflushed, pending>>
            \/ IF IsFlushNeeded(l)
                 THEN unflushed' = [unflushed EXCEPT ![l] = 0] /\ Flush
                 ELSE /\ unflushed' = [unflushed EXCEPT ![l] = @ + 1]
                      /\ pending' = pending + 1 /\ failed' = failed

(* A second thread that logs: the counts are no longer described.          *)
Race == racing' = TRUE /\ unflushed' = Uncounted /\ pending' = 0 /\ failed' = failed

(* The destructor of Storage, as the process exits.                        *)
FlushAll ==
    /\ Flush /\ UNCHANGED <<config, loggingLevel, toFile, unflushed, racing>>
=============================================================================
