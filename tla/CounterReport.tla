---------------------------- MODULE CounterReport ----------------------------
(***************************************************************************)
(* The way of a count from a register of a unit to a sensor of a message:  *)
(* RetrieveCounterData asks the unit call by call and writes a document,   *)
(* Save files it under the address of the unit, and client.pl takes it     *)
(* from there to its sensors, which is SensorLine. Any call may fail, and  *)
(* somebody may change the registers of the unit between two of them.      *)
(***************************************************************************)
EXTENDS SensorLine, JsonValue, FiniteSetsExt

CONSTANTS
    Registers,   \* what a unit may have: [labels, counts, zone, failures, changes]
    Ids,         \* device identifiers
    Imei,        \* the one under which the client looks the unit up
    DefaultId,   \* the one that RetrieveCounterData writes into every unit
    NoId,        \* "", the identifier when GetDeviceID fails
    TimeZones,   \* entries of IRISYS_TIMEZONES
    MaxPolls     \* bound: polls of the unit

ASSUME ReportAssumption ==
    /\ {Imei, DefaultId} \subseteq Ids /\ NoId \notin Ids
    /\ TimeZones \in Nat /\ MaxPolls \in Nat
    /\ Registers \subseteq [labels : Seq(Labels), counts : Seq(Nat), zone : Nat,
                            failures : Nat, changes : Nat]
    /\ \A r \in Registers : Len(r.labels) = Len(r.counts)

(* The calls of RetrieveCounterData in their order, and the members of the *)
(* document that the answer of each goes to.                               *)
Calls ==
    <<[call |-> "GetDeviceID",       members |-> {"deviceID"}],
      [call |-> "GetDeviceName",     members |-> {"deviceName"}],
      [call |-> "GetUserString",     members |-> {"userString"}],
      [call |-> "GetMACAddress",     members |-> {"macAddress"}],
      [call |-> "GetIPAddress",      members |-> {"IPADdress"}],
      [call |-> "GetUnitTimeZone",   members |-> {"timeZone", "DST"}],
      [call |-> "GetUpTime",         members |-> {"upTime"}],
      [call |-> "GetSiteName",       members |-> {"siteName"}],
      [call |-> "GetCountLogPeriod", members |-> {"countLogPeriod"}],
      [call |-> "GetCurrentCount",   members |-> {"Timestamp"}],
      [call |-> "GetRegisterLabels", members |-> {"count"}],
      [call |-> "GetLastNCounts",    members |-> {}],
      [call |-> "GetDeviceStatus",   members |-> {"NumErrors", "errorList"}],
      [call |-> "SetDeviceID",       members |-> {}],
      [call |-> "GetUnitTime",       members |-> {"unitTime"}],
      [call |-> "GetCounts",         members |-> {}]>>

VARIABLES
    unit,        \* the unit: registers, and how many calls may fail and changes come
    stored,      \* the identifier in the unit
    call,        \* index of the next call
    id, fetched, \* deviceID; the count lines of GetCurrentCount
    j,           \* the document
    cached,      \* the document in memcached, or null
    overrun,     \* has a label beyond the last one been read?
    stray,       \* has a time zone beyond the table's end been read?
    taken,       \* has the client taken the document?
    polls, poll, filed  \* history: polls; what the unit had as this poll began
                        \* and which calls failed; the poll of the cached document

pollVars   == <<unit, stored, call, id, fetched, j, cached, overrun, stray, polls, poll, filed>>
reportVars == <<pollVars, taken, vars>>

Nothing == [type |-> "nothing"]   \* no document

Begun(u) == [labels |-> u.labels, counts |-> u.counts, id |-> NoId,
             failed |-> {}, changed |-> FALSE]

ReportInit ==
    /\ unit \in Registers /\ stored \in Ids /\ poll = Begun(unit) /\ filed = poll
    /\ call = 1 /\ id = NoId /\ fetched = <<>> /\ j = Null /\ cached = Nothing
    /\ overrun = FALSE /\ stray = FALSE /\ taken = FALSE /\ polls = 0
    /\ doc = [l \in {} |-> 0] /\ count = doc /\ left = {} /\ lines = <<>>
    /\ sensors = <<>> /\ additions = 0 /\ subtractions = 0 /\ done = FALSE

-----------------------------------------------------------------------------
Polling == ~taken /\ ~overrun /\ ~stray /\ polls < MaxPolls
Asks(c) == Polling /\ call \in DOMAIN Calls /\ Calls[call].call = c

(* Calls whose answer is not put on the document as it is.                 *)
Special == {"GetDeviceID", "GetUnitTimeZone", "GetCurrentCount", "GetRegisterLabels",
            "SetDeviceID"}

(* j[i][m] = v for each member m of the answer: null becomes an object, at *)
(* either level.                                                           *)
Extend(i, answer) ==
    LET old == IF At(j, i) = Null THEN EmptyObject.members ELSE At(j, i).members
    IN  IF DOMAIN answer = {} THEN j
        ELSE Insert(j, i, [type |-> "object",
                 members |-> [m \in DOMAIN answer \cup DOMAIN old |->
                                IF m \in DOMAIN answer THEN answer[m] ELSE old[m]]])
Member(i, m, v) == Extend(i, [n \in {m} |-> v])

Answer(c) == [m \in Calls[c].members |-> IF m = "errorList" THEN Null ELSE String(m)]

GoOn == call' = call + 1 /\ UNCHANGED <<cached, taken, polls, filed, vars>>
Kept == UNCHANGED <<unit, overrun, stray, stored>>

GetDeviceID ==
    /\ Asks("GetDeviceID") /\ GoOn /\ Kept
    /\ id' = stored /\ poll' = [poll EXCEPT !.id = stored]
    /\ j' = Member(stored, "deviceID", String(stored))
    /\ UNCHANGED fetched

Get ==
    /\ Polling /\ call \in DOMAIN Calls /\ Calls[call].call \notin Special /\ GoOn /\ Kept
    /\ j' = Extend(id, Answer(call)) /\ UNCHANGED <<id, fetched, poll>>

(* The zone is the one of IRISYS_TIMEZONES at the unit's index, unchecked: *)
(* what is read beyond the table is undefined, and the model stops.        *)
GetUnitTimeZone ==
    /\ Asks("GetUnitTimeZone") /\ GoOn
    /\ stray' = (unit.zone >= TimeZones)
    /\ j' = IF stray' THEN j ELSE Extend(id, Answer(call))
    /\ UNCHANGED <<unit, overrun, stored, id, fetched, poll>>

GetCurrentCount ==
    /\ Asks("GetCurrentCount") /\ GoOn /\ Kept
    /\ fetched' = unit.counts /\ j' = Member(id, "Timestamp", String("Timestamp"))
    /\ UNCHANGED <<id, poll>>

SetDeviceID ==
    /\ Asks("SetDeviceID") /\ GoOn /\ stored' = DefaultId
    /\ UNCHANGED <<unit, id, fetched, j, overrun, stray, poll>>

(* Mutant: labels are counted from one.                                    *)
IndexFromOne(i) == i + 1

(* The label of a line is the one at the line's index.                     *)
Index(i) == i

(* j[deviceID]["count"], one member for each count line: a later line      *)
(* replaces an earlier one of the same label.                              *)
Labelled(labels) ==
    LET lastOf(l) == CHOOSE i \in DOMAIN fetched :
                       /\ labels[Index(i)] = l
                       /\ \A k \in DOMAIN fetched : k > i => labels[Index(k)] # l
    IN  [type |-> "object",
         members |-> [l \in {labels[Index(i)] : i \in DOMAIN fetched} |->
                        NumberOf(fetched[lastOf(l)])]]

(* No count lines, no member. The labels are those of now, and nobody      *)
(* looks how many there are: beyond the last one the behaviour of the      *)
(* server is undefined, and the model stops.                               *)
GetRegisterLabels ==
    /\ Asks("GetRegisterLabels") /\ GoOn
    /\ UNCHANGED <<unit, stored, id, fetched, stray, poll>>
    /\ overrun' = (fetched # <<>> /\ Index(Len(fetched)) > Len(unit.labels))
    /\ j' = IF fetched = <<>> \/ overrun' THEN j ELSE Member(id, "count", Labelled(unit.labels))

(* Mutant: a call that fails takes the next one with it.                   *)
FailsNext ==
    /\ Polling /\ call \in DOMAIN Calls /\ unit.failures > 0
    /\ unit' = [unit EXCEPT !.failures = @ - 1]
    /\ poll' = [poll EXCEPT !.failed = @ \cup {Calls[call].call}]
    /\ call' = Min({call + 2, Len(Calls) + 1})
    /\ UNCHANGED <<stored, id, fetched, j, cached, overrun, stray, taken, polls, filed, vars>>

(* A call fails: its members stay out, and so does the call that depends   *)
(* on it, which is the next one.                                           *)
Fails ==
    /\ Polling /\ call \in DOMAIN Calls /\ unit.failures > 0
    /\ unit' = [unit EXCEPT !.failures = @ - 1]
    /\ poll' = [poll EXCEPT !.failed = @ \cup {Calls[call].call}]
    /\ call' = call + (IF Calls[call].call \in {"GetCurrentCount", "GetUnitTime"} THEN 2 ELSE 1)
    /\ UNCHANGED <<stored, id, fetched, j, cached, overrun, stray, taken, polls, filed, vars>>

(* Save, under the address that GetIPAddress gives once more: when it, or  *)
(* memcached, fails the unit's document stays as it is. The next poll has  *)
(* variables of its own.                                                   *)
Save ==
    /\ Polling /\ call > Len(Calls)
    /\ \/ cached' = j /\ filed' = poll /\ UNCHANGED unit
       \/ /\ unit.failures > 0 /\ unit' = [unit EXCEPT !.failures = @ - 1]
          /\ UNCHANGED <<cached, filed>>
    /\ call' = 1 /\ id' = NoId /\ fetched' = <<>> /\ j' = Null
    /\ polls' = polls + 1 /\ poll' = Begun(unit)
    /\ UNCHANGED <<stored, overrun, stray, taken, vars>>

(* Somebody gives the unit other lines or labels, or somebody passes it.   *)
Change ==
    /\ ~taken /\ ~overrun /\ ~stray /\ unit.changes > 0
    /\ \E r \in {r \in Registers : r.changes > 0} :
         unit' = [unit EXCEPT !.labels = r.labels, !.counts = r.counts, !.changes = @ - 1]
    /\ poll' = IF call = 1 THEN Begun(unit') ELSE [poll EXCEPT !.changed = TRUE]
    /\ UNCHANGED <<stored, call, id, fetched, j, cached, overrun, stray, taken, polls, filed, vars>>

-----------------------------------------------------------------------------
(* client.pl: the counts that stand below its own identifier, if any do.   *)
CountsOf(d) ==
    IF d.type = "object" /\ Imei \in DOMAIN d.members
         /\ "count" \in DOMAIN d.members[Imei].members
      THEN LET c == d.members[Imei].members["count"].members
           IN  [l \in DOMAIN c |-> c[l].number]
      ELSE [l \in {} |-> 0]

Take ==
    /\ ~taken /\ cached # Nothing
    /\ taken' = TRUE /\ doc' = CountsOf(cached)
    /\ count' = doc' /\ left' = DOMAIN doc'
    /\ UNCHANGED <<pollVars, lines, sensors, additions, subtractions, done>>

Poll ==
    \/ GetDeviceID \/ Get \/ GetUnitTimeZone \/ GetCurrentCount \/ GetRegisterLabels
    \/ SetDeviceID \/ Fails \/ Save

Report == taken /\ Next /\ UNCHANGED <<pollVars, taken>>

ReportNext == Poll \/ Change \/ Take \/ Report

ReportSpec == ReportInit /\ [][ReportNext]_reportVars

-----------------------------------------------------------------------------
(* What the lines of a poll count: the last line of a label.               *)
Counted(p) ==
    [l \in Range(p.labels) |->
        p.counts[Max({i \in DOMAIN p.labels : p.labels[i] = l})]]

(* No label is read that is not there, as long as the lines of the unit do *)
(* not change between the two calls that count lines and labels come from, *)
(* whatever fails (BlackfinServer.cpp:358-377).                            *)
LabelsSuffice == overrun => poll.changed

(* What the client takes for the counts of a unit is what its lines have   *)
(* counted, label by label, though counts and labels come by two calls and *)
(* through two identifiers, and whichever other calls of the poll have     *)
(* failed, or of a later poll that has got nothing to the cache            *)
(* (BlackfinServer.cpp:289-510, client.pl:45-49).                          *)
CountsArriveLabelled ==
    (/\ taken /\ ~filed.changed /\ filed.id = Imei
     /\ filed.failed \cap {"GetCurrentCount", "GetRegisterLabels"} = {})
        => doc = Counted(filed)
=============================================================================
