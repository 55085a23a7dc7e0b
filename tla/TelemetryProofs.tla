---------------------------- MODULE TelemetryProofs ----------------------------
(***************************************************************************)
(* Telemetry.tla proved for any units, counts and requests: the documents  *)
(* in the cache trail the units in order, and a request is used up once.   *)
(***************************************************************************)
EXTENDS Telemetry, TLAPS

(* The polling thread has a unit and a document while it polls.            *)
InHand == pc # "next" => unit \in Units /\ doc \in Documents

(* The document about to be saved lies between the cached one and the unit. *)
InOrder ==
    (pc = "retrieved" /\ doc.count # None) =>
        /\ doc.count <= count[unit]
        /\ (unit \in fresh /\ cache[unit] # None /\ cache[unit].count # None)
               => cache[unit].count <= doc.count

(* Requests not yet used up: the one in the cache and the one in hand,     *)
(* which are the same between the get and the delete.                      *)
Owed ==
    (IF resetFlag /\ pc # "deleting" THEN 1 ELSE 0)
        + (IF pc \in {"deleting", "resetting"} THEN 1 ELSE 0)

RequestsCover == calls + Owed <= asked

TrailInv == TypeOK /\ InHand /\ InOrder /\ CachedNotAhead

-----------------------------------------------------------------------------
(* Initially nothing is cached.                                            *)
LEMMA InitTrail == Init => TrailInv
<1> SUFFICES ASSUME Init PROVE TrailInv
  OBVIOUS
<1>1. TypeOK
  <2>1. deviceId \in [Units -> Ids] /\ count \in [Units -> 0 .. MaxPeople]
    BY TelemetryAssumption DEF Init
  <2>2. cache \in [Units -> Documents \cup {None}]
    BY DEF Init
  <2>3. /\ asked \in 0 .. MaxRequests /\ calls \in Nat /\ resets \in 0 .. calls
        /\ restarts \in 0 .. MaxRestarts
    BY TelemetryAssumption DEF Init
  <2>4. /\ resetFlag \in BOOLEAN /\ fresh \subseteq Units
        /\ pc \in {"next", "retrieved", "saved", "deleting", "resetting"}
        /\ unit \in Units \cup {None} /\ doc \in Documents \cup {None}
    BY DEF Init
  <2> QED
    BY <2>1, <2>2, <2>3, <2>4 DEF TypeOK
<1>2. InHand /\ InOrder /\ CachedNotAhead
  BY DEF Init, InHand, InOrder, CachedNotAhead
<1> QED
  BY <1>1, <1>2 DEF TrailInv

(* Every step keeps the order cached, in hand, counted.                    *)
LEMMA StepTrail == TrailInv /\ [Next]_vars => TrailInv'
<1> SUFFICES ASSUME TrailInv, [Next]_vars PROVE TrailInv'
  OBVIOUS
<1> USE TelemetryAssumption DEF cacheVars, unitVars, pollVars, history, Documents
<1>1. ASSUME NEW u \in Units, Retrieve(u) PROVE TrailInv'
  <2>1. PICK gotId \in BOOLEAN, gotCount \in BOOLEAN, setId \in BOOLEAN :
          /\ doc' = Document(u, gotId, gotCount)
          /\ deviceId' = [deviceId EXCEPT ![u] = IF setId THEN DefaultId ELSE @]
    BY <1>1 DEF Retrieve
  <2>2. doc' \in Documents
    BY <2>1 DEF Document, TrailInv, TypeOK
  <2>3. deviceId' \in [Units -> Ids]
    BY <2>1 DEF TrailInv, TypeOK
  <2>4. TypeOK'
    BY <1>1, <2>2, <2>3 DEF Retrieve, TrailInv, TypeOK
  <2>5. InOrder'
    <3>1. doc'.count = IF gotCount THEN count[u] ELSE None
      BY <2>1 DEF Document
    <3> QED
      BY <1>1, <3>1 DEF Retrieve, TrailInv, TypeOK, CachedNotAhead, InOrder
  <2> QED
    BY <1>1, <2>2, <2>4, <2>5 DEF Retrieve, TrailInv, InHand, CachedNotAhead
<1>2. CASE Save
  <2>1. TypeOK'
    BY <1>2 DEF Save, TrailInv, TypeOK, InHand
  <2>2. CachedNotAhead'
    BY <1>2 DEF Save, TrailInv, TypeOK, InHand, InOrder, CachedNotAhead
  <2> QED
    BY <1>2, <2>1, <2>2 DEF Save, TrailInv, InHand, InOrder
<1>3. CASE NoResetAsked
  BY <1>3 DEF NoResetAsked, TrailInv, TypeOK, InHand, InOrder, CachedNotAhead
<1>4. CASE ResetAsked
  BY <1>4 DEF ResetAsked, TrailInv, TypeOK, InHand, InOrder, CachedNotAhead
<1>5. CASE DeleteFlag
  <2>1. asked' \in 0 .. MaxRequests
    <3>1. asked' = asked \/ (asked < MaxRequests /\ asked' = asked + 1)
      BY <1>5, Zenon DEF DeleteFlag
    <3> QED
      BY <3>1 DEF TrailInv, TypeOK
  <2>2. resetFlag' \in BOOLEAN
    BY <1>5, Zenon DEF DeleteFlag
  <2> QED
    BY <1>5, <2>1, <2>2 DEF DeleteFlag, TrailInv, TypeOK, InHand, InOrder, CachedNotAhead
<1>6. CASE ResetUnit
  BY <1>6 DEF ResetUnit, TrailInv, TypeOK, InHand, InOrder, CachedNotAhead
<1>7. CASE RequestReset
  BY <1>7 DEF RequestReset, TrailInv, TypeOK, InHand, InOrder, CachedNotAhead
<1>8. CASE CacheRestarts
  <2>1. restarts' \in 0 .. MaxRestarts
    BY <1>8 DEF CacheRestarts, TrailInv, TypeOK
  <2>2. cache' = [u \in Units |-> None] /\ resetFlag' = FALSE
    BY <1>8 DEF CacheRestarts
  <2>3. TypeOK'
    BY <1>8, <2>1, <2>2 DEF CacheRestarts, TrailInv, TypeOK
  <2>4. InOrder' /\ CachedNotAhead'
    BY <1>8, <2>2 DEF CacheRestarts, TrailInv, TypeOK, InHand, InOrder, CachedNotAhead
  <2> QED
    BY <1>8, <2>3, <2>4 DEF CacheRestarts, TrailInv, InHand
<1>9. ASSUME NEW u \in Units, PersonPasses(u) PROVE TrailInv'
  <2>1. count' \in [Units -> 0 .. MaxPeople]
    BY <1>9 DEF PersonPasses, TrailInv, TypeOK
  <2>2. \A v \in Units : count[v] <= count'[v]
    BY <1>9 DEF PersonPasses, TrailInv, TypeOK
  <2>3. TypeOK'
    BY <1>9, <2>1 DEF PersonPasses, TrailInv, TypeOK
  <2>4. InOrder'
    BY <1>9, <2>1, <2>2 DEF PersonPasses, TrailInv, TypeOK, InHand, InOrder
  <2>5. CachedNotAhead'
    BY <1>9, <2>1, <2>2 DEF PersonPasses, TrailInv, TypeOK, CachedNotAhead
  <2> QED
    BY <1>9, <2>3, <2>4, <2>5 DEF PersonPasses, TrailInv, InHand
<1>10. ASSUME NEW u \in Units, Expire(u) PROVE TrailInv'
  BY <1>10 DEF Expire, TrailInv, TypeOK, InHand, InOrder, CachedNotAhead
<1>11. CASE SaveLost
  BY <1>11 DEF SaveLost, TrailInv, TypeOK, InHand, InOrder, CachedNotAhead
<1>12. CASE UNCHANGED vars
  BY <1>12 DEF vars, TrailInv, TypeOK, InHand, InOrder, CachedNotAhead
<1> QED
  BY <1>1, <1>2, <1>3, <1>4, <1>5, <1>6, <1>7, <1>8, <1>9, <1>10, <1>11, <1>12
     DEF Next, Poll

(* The order is kept for ever.                                             *)
THEOREM Trail == Spec => []TrailInv
<1>1. Init => TrailInv
  BY InitTrail
<1>2. TrailInv /\ [Next]_vars => TrailInv'
  BY StepTrail
<1> QED
  BY <1>1, <1>2, PTL DEF Spec

(* Every variable keeps its type: documents, counts and keys are only ever *)
(* what the code writes (BlackfinServer.cpp:249-266).                      *)
THEOREM TelemetryTypes == Spec => []TypeOK
<1>1. TrailInv => TypeOK
  BY DEF TrailInv
<1> QED
  BY <1>1, Trail, PTL

(* No client ever reads more of a unit than it has counted since its reset, *)
(* whatever fails (BlackfinServer.cpp:252-256).                            *)
THEOREM CacheTrailsTheUnits == Spec => []CachedNotAhead
<1>1. TrailInv => CachedNotAhead
  BY DEF TrailInv
<1> QED
  BY <1>1, Trail, PTL

(* A count in the cache is only ever replaced by one at least as large, as *)
(* long as the unit is not reset (BlackfinServer.cpp:252-256).             *)
THEOREM CachedCountsGrow == Spec => CountsOnlyGrow
<1>1. ASSUME TrailInv, [Next]_vars, NEW u \in fresh,
             cache[u] # None, cache'[u] # None,
             cache[u].count # None, cache'[u].count # None
      PROVE cache[u].count <= cache'[u].count
  <2> USE TelemetryAssumption
  <2>1. u \in Units /\ cache[u].count \in Nat
    BY <1>1 DEF TrailInv, TypeOK, Documents
  <2>2. CASE Save
    BY <1>1, <2>1, <2>2 DEF Save, TrailInv, TypeOK, InHand, InOrder
  <2>3. CASE CacheRestarts
    BY <1>1, <2>1, <2>3 DEF CacheRestarts
  <2>4. ASSUME NEW v \in Units, Expire(v)
        PROVE cache[u].count <= cache'[u].count
    BY <1>1, <2>1, <2>4 DEF Expire, TrailInv, TypeOK
  <2>5. CASE UNCHANGED cache
    BY <2>1, <2>5
  <2> QED
    BY <1>1, <2>2, <2>3, <2>4, <2>5
       DEF Next, Poll, Retrieve, SaveLost, NoResetAsked, ResetAsked, DeleteFlag, ResetUnit,
           RequestReset, PersonPasses, vars, cacheVars
<1>2. TrailInv /\ [Next]_vars =>
        [\A u \in fresh :
           (/\ cache[u] # None /\ cache'[u] # None
            /\ cache[u].count # None /\ cache'[u].count # None)
              => cache[u].count <= cache'[u].count]_vars
  BY <1>1
<1> QED
  BY <1>2, Trail, PTL DEF Spec, CountsOnlyGrow

-----------------------------------------------------------------------------
(* ResetCurrentCount is called at most once per request made or left by a  *)
(* failed delete, whatever else fails and wherever between the get, the    *)
(* delete and the reset the next request comes (BlackfinServer.cpp:258-266, *)
(* 678-717).                                                               *)
THEOREM RequestsAreUsedOnce == Spec => []OneResetPerRequest
<1> USE TelemetryAssumption DEF cacheVars, unitVars, pollVars, history
<1>1. Init => RequestsCover
  BY DEF Init, RequestsCover, Owed
<1>2. TypeOK /\ RequestsCover /\ [Next]_vars => RequestsCover'
  <2> SUFFICES ASSUME TypeOK, RequestsCover, [Next]_vars PROVE RequestsCover'
    OBVIOUS
  <2>0. calls \in Nat /\ asked \in Nat
    BY DEF TypeOK
  <2> USE DEF RequestsCover, Owed
  <2>1. ASSUME NEW u \in Units, Retrieve(u) PROVE RequestsCover'
    BY <2>0, <2>1 DEF Retrieve
  <2>2. CASE Save
    BY <2>0, <2>2 DEF Save
  <2>3. CASE NoResetAsked
    BY <2>0, <2>3 DEF NoResetAsked
  <2>4. CASE ResetAsked
    BY <2>0, <2>4 DEF ResetAsked
  <2>5. CASE DeleteFlag
    BY <2>0, <2>5 DEF DeleteFlag
  <2>6. CASE ResetUnit
    BY <2>0, <2>6 DEF ResetUnit
  <2>7. CASE RequestReset
    BY <2>0, <2>7 DEF RequestReset
  <2>8. CASE CacheRestarts
    BY <2>0, <2>8 DEF CacheRestarts
  <2>9. ASSUME NEW u \in Units, PersonPasses(u) \/ Expire(u) PROVE RequestsCover'
    BY <2>0, <2>9 DEF PersonPasses, Expire
  <2>10. CASE SaveLost
    BY <2>0, <2>10 DEF SaveLost
  <2>11. CASE UNCHANGED vars
    BY <2>0, <2>11 DEF vars
  <2> QED
    BY <2>1, <2>2, <2>3, <2>4, <2>5, <2>6, <2>7, <2>8, <2>9, <2>10, <2>11 DEF Next, Poll
<1>3. TypeOK /\ RequestsCover => OneResetPerRequest
  BY DEF TypeOK, RequestsCover, Owed, OneResetPerRequest
<1> QED
  BY <1>1, <1>2, <1>3, TelemetryTypes, PTL DEF Spec
==============================================================================
