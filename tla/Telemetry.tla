------------------------------ MODULE Telemetry ------------------------------
(***************************************************************************)
(* How counts get from the units to memcached, and reset requests from     *)
(* memcached to the units: the body of the poll pass of BlackfinServer.cpp *)
(* (:249-266), RetrieveCounterData, Save and HasResetCurrentCount, with    *)
(* the people who pass the units, the script that asks for a reset and the *)
(* cache itself running beside it.                                         *)
(*                                                                         *)
(* BlackfinServer decides when a unit is polled; here any unit may be the  *)
(* next. A unit's address is its key in the cache, and stands for the unit.*)
(***************************************************************************)
EXTENDS Naturals

CONSTANTS
    Units,        \* units, each at an address of its own
    Ids,          \* device identifiers
    Imei,         \* the identifier conf/servicioConteoPersonas.conf gives a unit
    DefaultId,    \* the identifier RetrieveCounterData writes into a unit
    NoId,         \* GetDeviceID failed: the document is filed under ""
    None,         \* no document in the cache, no count in a document
    Unreliable,   \* units whose calls may fail
    CacheFails,   \* may memcached be unreachable, or restart?
    MaxPeople,    \* bounds: people per unit between resets,
    MaxRequests,  \* reset requests and deletes of one that fail, together,
    MaxRestarts   \* restarts of memcached

ASSUME TelemetryAssumption ==
    /\ Imei \in [Units -> Ids] /\ DefaultId \in Ids /\ NoId \notin Ids
    /\ Unreliable \subseteq Units
    /\ CacheFails \in BOOLEAN
    /\ MaxPeople \in Nat /\ MaxRequests \in Nat /\ MaxRestarts \in Nat
    /\ None \notin Nat

VARIABLES
    deviceId,     \* identifier stored in each unit
    count,        \* current count of each unit
    cache,        \* memcached: the document of each unit, or None
    resetFlag,    \* memcached: does the key "ResetCurrentCount" exist?
    pc, unit, doc,   \* the polling thread: step, unit polled, serialized data
    asked,        \* history: requests made, and deletes that left one there
    calls, resets,   \* history: ResetCurrentCount calls, and those that did it
    restarts,     \* history: restarts of memcached
    fresh         \* history: units not reset since their document was saved

cacheVars == <<cache, resetFlag>>
unitVars  == <<deviceId, count>>
pollVars  == <<pc, unit, doc>>
history   == <<asked, calls, resets, restarts, fresh>>
vars == <<cacheVars, unitVars, pollVars, history>>

Documents == [id : Ids \cup {NoId}, count : 0 .. MaxPeople \cup {None}]

TypeOK ==
    /\ deviceId \in [Units -> Ids] /\ count \in [Units -> 0 .. MaxPeople]
    /\ cache \in [Units -> Documents \cup {None}] /\ resetFlag \in BOOLEAN
    /\ pc \in {"next", "retrieved", "saved", "deleting", "resetting"}
    /\ unit \in Units \cup {None} /\ doc \in Documents \cup {None}
    /\ asked \in 0 .. MaxRequests /\ restarts \in 0 .. MaxRestarts
    /\ calls \in Nat /\ resets \in 0 .. calls
    /\ fresh \subseteq Units

Init ==
    /\ deviceId = Imei /\ count = [u \in Units |-> 0]
    /\ cache = [u \in Units |-> None] /\ resetFlag = FALSE
    /\ pc = "next" /\ unit = None /\ doc = None
    /\ asked = 0 /\ calls = 0 /\ resets = 0 /\ restarts = 0 /\ fresh = {}

-----------------------------------------------------------------------------
(* May a call on u return ok?                                              *)
Outcome(u, ok) == ok \/ u \in Unreliable

(* Mutant: a document without identifier is no document.                   *)
DocumentUnfiled(u, gotId, gotCount) ==
    [id    |-> IF gotId THEN deviceId[u] ELSE None,
     count |-> IF gotCount THEN count[u] ELSE None]

(* RetrieveCounterData: what the document of u says, given which of the    *)
(* calls GetDeviceID and GetCurrentCount succeeded.                        *)
Document(u, gotId, gotCount) ==
    [id    |-> IF gotId THEN deviceId[u] ELSE NoId,
     count |-> IF gotCount THEN count[u] ELSE None]

(* RetrieveCounterData of the next unit, SetDeviceID included, which may   *)
(* or may not reach an unreliable unit.                                    *)
Retrieve(u) ==
    /\ pc = "next" /\ pc' = "retrieved" /\ unit' = u
    /\ \E gotId, gotCount, setId \in BOOLEAN :
        /\ Outcome(u, gotId /\ gotCount /\ setId)
        /\ doc' = Document(u, gotId, gotCount)
        /\ deviceId' = [deviceId EXCEPT ![u] = IF setId THEN DefaultId ELSE @]
    /\ UNCHANGED <<count, cacheVars, history>>

(* Mutant: what is saved is another unit's count.                          *)
SaveOther ==
    /\ pc = "retrieved" /\ pc' = "saved"
    /\ \E u \in Units :
         cache' = [cache EXCEPT ![unit] = [doc EXCEPT !.count = count[u]]]
    /\ fresh' = fresh \cup {unit}
    /\ UNCHANGED <<resetFlag, unitVars, unit, doc, asked, calls, resets, restarts>>

(* Save, under the address that the unit gave.                             *)
Save ==
    /\ pc = "retrieved" /\ pc' = "saved"
    /\ cache' = [cache EXCEPT ![unit] = doc] /\ fresh' = fresh \cup {unit}
    /\ UNCHANGED <<resetFlag, unitVars, unit, doc, asked, calls, resets, restarts>>

(* Nobody looks at the results of GetIPAddress and memcached_set, and Save *)
(* returns true: without an address, which is then "", or when memcached   *)
(* cannot be reached, the document is lost.                                *)
SaveLost ==
    /\ pc = "retrieved" /\ pc' = "saved"
    /\ CacheFails \/ unit \in Unreliable
    /\ UNCHANGED <<cacheVars, unitVars, unit, doc, history>>

(* HasResetCurrentCount: memcached_get, which finds nothing or fails, ...  *)
NoResetAsked ==
    /\ pc = "saved" /\ (~resetFlag \/ CacheFails)
    /\ pc' = "next" /\ unit' = None /\ doc' = None
    /\ UNCHANGED <<cacheVars, unitVars, history>>

ResetAsked ==
    /\ pc = "saved" /\ resetFlag
    /\ pc' = "deleting"
    /\ UNCHANGED <<cacheVars, unitVars, unit, doc, history>>

(* Mutant: deleting the request is taken for the whole of it.              *)
DeleteOnly ==
    /\ pc = "deleting" /\ pc' = "next" /\ unit' = None /\ doc' = None
    /\ resetFlag' = FALSE
    /\ UNCHANGED <<cache, unitVars, history>>

(* Mutant: the request is not deleted.                                     *)
KeepFlag ==
    /\ pc = "deleting" /\ pc' = "resetting"
    /\ UNCHANGED <<cacheVars, unitVars, unit, doc, history>>

(* ... and memcached_delete, with an expiration nobody has set, whose      *)
(* result is only logged: the request may stay.                            *)
DeleteFlag ==
    /\ pc = "deleting" /\ pc' = "resetting"
    /\ \/ resetFlag' = FALSE /\ asked' = asked
       \/ /\ resetFlag /\ resetFlag' = TRUE
          /\ asked < MaxRequests /\ asked' = asked + 1
    /\ UNCHANGED <<cache, unitVars, unit, doc, calls, resets, restarts, fresh>>

(* ResetCurrentCount on the unit in hand: the unit is reset, or the call   *)
(* fails, which is only logged. (A call whose answer is lost has reset it.) *)
ResetUnit ==
    /\ pc = "resetting" /\ pc' = "next" /\ unit' = None /\ doc' = None
    /\ calls' = calls + 1
    /\ \/ /\ count' = [count EXCEPT ![unit] = 0]
          /\ resets' = resets + 1 /\ fresh' = fresh \ {unit}
       \/ unit \in Unreliable /\ UNCHANGED <<count, resets, fresh>>
    /\ UNCHANGED <<deviceId, cacheVars, asked, restarts>>

-----------------------------------------------------------------------------
(* The world around the polling thread.                                    *)
PersonPasses(u) ==
    /\ count[u] < MaxPeople
    /\ count' = [count EXCEPT ![u] = @ + 1]
    /\ UNCHANGED <<deviceId, cacheVars, pollVars, history>>

(* client/resetCurrentCount.pl: the key is set, with no expiration.        *)
RequestReset ==
    /\ asked < MaxRequests /\ asked' = asked + 1
    /\ resetFlag' = TRUE
    /\ UNCHANGED <<cache, unitVars, pollVars, calls, resets, restarts, fresh>>

(* A document expires 800 seconds after it was saved.                      *)
Expire(u) ==
    /\ cache[u] # None
    /\ cache' = [cache EXCEPT ![u] = None]
    /\ UNCHANGED <<resetFlag, unitVars, pollVars, history>>

(* memcached keeps nothing over a restart.                                 *)
CacheRestarts ==
    /\ CacheFails /\ restarts < MaxRestarts /\ restarts' = restarts + 1
    /\ cache' = [u \in Units |-> None] /\ resetFlag' = FALSE
    /\ UNCHANGED <<unitVars, pollVars, asked, calls, resets, fresh>>

Poll ==
    \/ \E u \in Units : Retrieve(u)
    \/ Save \/ SaveLost \/ NoResetAsked \/ ResetAsked \/ DeleteFlag \/ ResetUnit

Next ==
    \/ Poll \/ RequestReset \/ CacheRestarts
    \/ \E u \in Units : PersonPasses(u) \/ Expire(u)

Spec == Init /\ [][Next]_vars

(* The polling thread never stops, and comes round to every unit; and of   *)
(* the calls that memcached gets again and again it answers some.          *)
Fairness ==
    /\ WF_vars(Poll)
    /\ \A u \in Units : SF_vars(Retrieve(u)) /\ SF_vars(unit = u /\ Save)
    /\ SF_vars(ResetAsked)

FairSpec == Spec /\ Fairness

-----------------------------------------------------------------------------
(* Each ResetCurrentCount is paid for by a request of its own or by a      *)
(* delete that failed: a request is used up by one unit, also when it      *)
(* comes between the get and the delete of HasResetCurrentCount, which     *)
(* swallows it, or between the delete and the reset; and one that a failed *)
(* delete leaves resets one unit more for each such delete, not two        *)
(* (BlackfinServer.cpp:258-266, 678-717).                                  *)
OneResetPerRequest == calls <= asked

(* What the client can read of a unit is what the unit had counted at some *)
(* time since its last reset: never more than it has counted by now,       *)
(* although the document is serialized, saved and read at different times  *)
(* (BlackfinServer.cpp:252-256, 633-672).                                  *)
CachedNotAhead ==
    \A u \in fresh :
        (cache[u] # None /\ cache[u].count # None) => cache[u].count <= count[u]

(* The counts that the client can read of a unit only grow, until the unit *)
(* is reset or the document is gone: no older document overwrites a newer  *)
(* one (BlackfinServer.cpp:252-256).                                       *)
CountsOnlyGrow ==
    [][\A u \in fresh :
         (/\ cache[u] # None /\ cache'[u] # None
          /\ cache[u].count # None /\ cache'[u].count # None)
            => cache[u].count <= cache'[u].count]_vars

(* What has become of requests: a unit was reset, the call that was to do  *)
(* it failed, or memcached restarted.                                      *)
Failed == calls - resets
Outcomes == resets + Failed + restarts

(* A reset request leads to the reset of a unit, whichever is polled next  *)
(* and however often memcached does not answer, unless the call that it is *)
(* used up on fails, which is only logged (:260-262), or memcached         *)
(* restarts and forgets it (BlackfinServer.cpp:258-266, 678-717).          *)
RequestGetsReset ==
    \A n \in 0 .. MaxRequests + MaxRestarts :
        (resetFlag /\ Outcomes = n) ~> Outcomes > n

(* What a reliable unit has counted gets to the cache, in this document or *)
(* a later one, unless the unit is reset first: neither the other units,   *)
(* nor expirations, nor the documents that memcached misses keep it from   *)
(* there for ever (BlackfinServer.cpp:246-278).                            *)
CountsArrive ==
    \A u \in Units \ Unreliable, n \in 1 .. MaxPeople :
        count[u] >= n ~> \/ cache[u] # None /\ cache[u].count >= n
                         \/ count[u] < n

(* conf/servicioConteoPersonas.conf:11-14 gives each device an identifier, *)
(* under which client.pl:48-49 looks up its counts. RetrieveCounterData    *)
(* writes the same one, 549638130622280, into every unit (:453-462).       *)
FiledUnderItsImei ==
    \A u \in Units \ Unreliable : cache[u] # None => cache[u].id = Imei[u]
==============================================================================
