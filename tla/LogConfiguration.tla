-------------------------- MODULE LogConfiguration --------------------------
(***************************************************************************)
(* How Easylogging++ gets the value of one configuration type for a level  *)
(* from a configuration file such as server/conf/easylogging++.conf:       *)
(* Configurations parses the file into a list with one value per level and *)
(* completes it with defaults; Logger::configure sets its values, one      *)
(* after the other, in the list that the logger has of its own; and        *)
(* TypedConfigurations builds from that one the map that a log statement   *)
(* looks a level up in, where a missing level has the value of Global.     *)
(*                                                                         *)
(* The types do not depend on one another, so one stands for each of those *)
(* that have one default for all levels: ENABLED, TO_FILE,                 *)
(* TO_STANDARD_OUTPUT and MAX_LOG_FILE_SIZE. Of a file there are its level *)
(* lines and its lines for that type.                                      *)
(***************************************************************************)
EXTENDS Naturals, Sequences

CONSTANTS
    Levels, Global,    \* the levels, and the one that stands for all
    Rank,              \* their numbers
    Unknown,           \* what an unrecognized level is converted to
    Values, Default,   \* values of the type, and its default one
    Files              \* configuration files: sequences of lines

LevelLine(l)  == [kind |-> "level", level |-> l]
ConfigLine(v) == [kind |-> "config", value |-> v]
Lines == {LevelLine(l) : l \in Levels \cup {Unknown}} \cup {ConfigLine(v) : v \in Values}

ASSUME LogAssumption ==
    /\ Global \in Levels /\ Unknown \notin Levels /\ Default \in Values
    /\ Rank \in [Levels -> Nat] /\ \A l \in Levels \ {Global} : Rank[Global] < Rank[l]
    /\ Files \subseteq Seq(Lines)

VARIABLES
    file, line,   \* the file, and the line to be read next
    level,        \* *currLevel of parseLine
    since, value, \* Configurations: the line at which a level was registered, its value
    phase,        \* "parse", "rest", "merge", "build" or "built"
    own,          \* m_configurations of the logger: the value of each level
    done, typed   \* levels done by the loop over a list, and the typed map

config == <<file, line, level, since, value, phase, own, done, typed>>

ConfigInit ==
    /\ file \in Files /\ line = 1 /\ level = Unknown
    /\ since = [l \in {} |-> 0] /\ value = [l \in {} |-> Default]
    /\ phase = "parse" /\ done = {} /\ typed = [l \in {} |-> Default]
    /\ own = [l \in Levels |-> Default]   \* setToDefault

-----------------------------------------------------------------------------
Put(f, L, v) == [m \in DOMAIN f \cup L |-> IF m \in L THEN v ELSE f[m]]

(* The levels of L are put at the end of the list, but for those in it.    *)
Register(L) == Put(since, L \ DOMAIN since, line)

(* Configurations::set: a value for Global is one for every level, also    *)
(* for those that have one of their own already.                           *)
Set(l, v) ==
    LET L == IF l = Global THEN Levels ELSE {l}
    IN  since' = Register(L) /\ value' = Put(value, L, v)

(* parseLine of a level line, ...                                          *)
ReadLevel ==
    /\ phase = "parse" /\ line <= Len(file) /\ file[line].kind = "level"
    /\ level' = file[line].level /\ line' = line + 1
    /\ UNCHANGED <<file, since, value, phase, own, done, typed>>

(* ... and of a value, which is skipped below an unrecognized level.       *)
ReadConfig ==
    /\ phase = "parse" /\ line <= Len(file) /\ file[line].kind = "config"
    /\ IF level = Unknown THEN UNCHANGED <<since, value>> ELSE Set(level, file[line].value)
    /\ line' = line + 1
    /\ UNCHANGED <<file, level, phase, own, done, typed>>

EndOfFile ==
    /\ phase = "parse" /\ line > Len(file) /\ phase' = "rest"
    /\ UNCHANGED <<file, line, level, since, value, own, done, typed>>

(* setRemainingToDefault: a file without a value for Global gets one, and  *)
(* with it every level, also those the file has a value for.               *)
SetRemaining ==
    /\ phase = "rest" /\ phase' = "merge"
    /\ IF Global \in DOMAIN value THEN UNCHANGED <<since, value>> ELSE Set(Global, Default)
    /\ UNCHANGED <<file, line, level, own, done, typed>>

(* The list is in the order of registration; the levels that one value for *)
(* Global registered are in the order of their numbers.                    *)
Before(l, m) == since[l] < since[m] \/ (since[l] = since[m] /\ Rank[l] <= Rank[m])

(* Mutant: a value for Global is set for Global alone.                     *)
MergeAlone ==
    /\ phase = "merge"
    /\ \E l \in DOMAIN since \ done :
         /\ \A m \in DOMAIN since \ done : Before(l, m)
         /\ own' = Put(own, {l}, value[l]) /\ done' = done \cup {l}
    /\ UNCHANGED <<file, line, level, since, value, phase, typed>>

(* setFromBase: what the list has is set in the logger's own, in which all *)
(* levels are registered.                                                  *)
Merge ==
    /\ phase = "merge"
    /\ \E l \in DOMAIN since \ done :
         /\ \A m \in DOMAIN since \ done : Before(l, m)
         /\ own' = Put(own, IF l = Global THEN Levels ELSE {l}, value[l])
         /\ done' = done \cup {l}
    /\ UNCHANGED <<file, line, level, since, value, phase, typed>>

Merged ==
    /\ phase = "merge" /\ done = DOMAIN since /\ phase' = "build" /\ done' = {}
    /\ UNCHANGED <<file, line, level, since, value, own, typed>>

(* TypedConfigurations::setValue: the first value is Global's, whatever    *)
(* its level, and one that is the same as Global's is left out.            *)
SetValue(l, v) ==
    IF DOMAIN typed = {} THEN Put(typed, {Global}, v)
    ELSE IF typed[Global] = v THEN typed
    ELSE Put(typed, {l}, v)

(* TypedConfigurations::build, over the logger's own list: setToDefault    *)
(* has registered Global first and the others by their numbers.            *)
Build ==
    /\ phase = "build"
    /\ \E l \in Levels \ done :
         /\ \A m \in Levels \ done : Rank[l] <= Rank[m]
         /\ typed' = SetValue(l, own[l]) /\ done' = done \cup {l}
    /\ UNCHANGED <<file, line, level, since, value, phase, own>>

EndOfList ==
    /\ phase = "build" /\ done = Levels /\ phase' = "built"
    /\ UNCHANGED <<file, line, level, since, value, own, done, typed>>

Configure ==
    \/ ReadLevel \/ ReadConfig \/ EndOfFile \/ SetRemaining
    \/ Merge \/ Merged \/ Build \/ EndOfList

(* getConfigByVal.                                                         *)
Lookup(l) == IF l \in DOMAIN typed THEN typed[l] ELSE typed[Global]

-----------------------------------------------------------------------------
(* What a file says: the level that a line is below, the lines of a level, *)
(* and the last one that is about it, which those below Global are, too.   *)
LevelAt(i) ==
    LET above == {j \in 1 .. i - 1 : file[j].kind = "level"}
    IN  IF above = {} THEN Unknown
        ELSE file[CHOOSE j \in above : \A k \in above : k <= j].level

LinesOf(l) == {i \in 1 .. Len(file) : file[i].kind = "config" /\ LevelAt(i) = l}
About(l) == LinesOf(l) \cup LinesOf(Global)

AsWritten(l) ==
    IF About(l) = {} THEN Default
    ELSE file[CHOOSE i \in About(l) : \A j \in About(l) : j <= i].value

(* Has the file a value for l before the first one for Global?             *)
Overruled(l) == \E i \in LinesOf(l) : \A j \in LinesOf(Global) : i < j

(* Each level gets what the last line about it says, in spite of the       *)
(* values that the map leaves out or files under Global; but one that the  *)
(* file names before Global, as server/conf/easylogging++.conf does not,   *)
(* loses whatever the file says of it, also below Global: its place in the *)
(* list is before Global's, whose value setFromBase puts over it           *)
(* (easylogging++.h:2501-2509, 2627-2646, 2811-2848, 2989-3063).           *)
ConfiguredAsWritten ==
    phase = "built" =>
        \A l \in Levels : Lookup(l) = AsWritten(IF Overruled(l) THEN Global ELSE l)
==============================================================================
