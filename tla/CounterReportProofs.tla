-------------------------- MODULE CounterReportProofs --------------------------
(***************************************************************************)
(* The way of a count from a register to a sensor proved for any unit, any *)
(* labels and counts, any failures and changes, and any number of polls.   *)
(* First the loop of the client, which starts from any document: both      *)
(* sides of SensorsAreValues fold the same function from the same start,   *)
(* so it does not matter what the fold adds up to. Then the polls, whose   *)
(* invariant says what the document of the poll under way says so far.     *)
(***************************************************************************)
EXTENDS CounterReport, FiniteSetTheorems, WellFoundedInduction, TLAPS

(* The values that sensors of this document can have.                      *)
Values == {Value(l) : l \in DOMAIN doc} \cup {0}

DocInv ==
    /\ DOMAIN doc \subseteq Labels /\ DOMAIN count = DOMAIN doc
    /\ doc \in [DOMAIN doc -> Nat]
    /\ \E C : count \in [DOMAIN doc -> C]
    /\ left \subseteq DOMAIN doc /\ done \in BOOLEAN

(* Only totals already visited have been rewritten, and no subtotal is     *)
(* carried over.                                                           *)
CountInv ==
    /\ additions = 0 /\ subtractions = 0
    /\ \A l \in DOMAIN doc : (l \in left \/ l \notin Totals) => count[l] = doc[l]

LineInv ==
    /\ lines \in Seq(DOMAIN doc) /\ sensors \in Seq(Values)
    /\ Len(sensors) <= MaxSensors
    /\ ~done => Len(sensors) = Len(lines)
    /\ Cardinality(left) + Len(lines) = Cardinality(DOMAIN doc)

IInv == DocInv /\ CountInv /\ LineInv /\ SensorsAreValues /\ AllSensorsSent

-----------------------------------------------------------------------------
(* The labels of a document are finite in number.                          *)
LEMMA FiniteLabels ==
  ASSUME DocInv
  PROVE  /\ IsFiniteSet(DOMAIN doc) /\ IsFiniteSet(left)
         /\ Cardinality(DOMAIN doc) \in Nat /\ Cardinality(left) \in Nat
         /\ \A l \in left : Cardinality(left \ {l}) = Cardinality(left) - 1
         /\ left = {} => Cardinality(left) = 0
<1>1. IsFiniteSet(DOMAIN doc)
  BY SensorAssumption, FS_Subset DEF DocInv
<1>2. IsFiniteSet(left)
  BY <1>1, FS_Subset DEF DocInv
<1> QED
  BY <1>1, <1>2, FS_CardinalityType, FS_RemoveElement, FS_EmptySet

(* The loop adds up the document's own counts: none of the labels of a     *)
(* total is a total.                                                       *)
LEMMA SameSubtotal ==
  ASSUME DocInv, CountInv, NEW l \in Totals
  PROVE  /\ Subtotal(additions, count, A[l]) = Subtotal(0, doc, A[l])
         /\ Subtotal(subtractions, count, S[l]) = Subtotal(0, doc, S[l])
<1>1. ASSUME NEW L \in SUBSET (Labels \ Totals)
      PROVE  Restrict(count, L \cap DOMAIN count) = Restrict(doc, L \cap DOMAIN doc)
  BY DEF Restrict, DocInv, CountInv
<1>2. A[l] \in SUBSET (Labels \ Totals) /\ S[l] \in SUBSET (Labels \ Totals)
  BY SensorAssumption
<1> QED
  BY <1>1, <1>2 DEF Subtotal, CountInv

(* The loop as it begins, with any document.                               *)
Fresh ==
    /\ DOMAIN doc \subseteq Labels /\ doc \in [DOMAIN doc -> Nat]
    /\ count = doc /\ left = DOMAIN doc /\ lines = <<>> /\ sensors = <<>>
    /\ additions = 0 /\ subtractions = 0 /\ done = FALSE

(* Nothing is visited then.                                                *)
LEMMA LoopBegins == Fresh => IInv
<1> SUFFICES ASSUME Fresh PROVE IInv
  OBVIOUS
<1> USE DEF Fresh
<1>1. DocInv
  BY DEF DocInv
<1>2. CountInv
  BY DEF CountInv
<1>3. LineInv
  BY <1>1, FiniteLabels, SensorAssumption DEF LineInv
<1>4. SensorsAreValues /\ AllSensorsSent
  BY DEF SensorsAreValues, AllSensorsSent
<1> QED
  BY <1>1, <1>2, <1>3, <1>4 DEF IInv

LEMMA InitFresh == Init => Fresh
<1> SUFFICES ASSUME Init PROVE Fresh
  OBVIOUS
<1>1. PICK D \in SUBSET Labels : doc \in [D -> 0 .. MaxCount]
  BY DEF Init, Counts
<1>2. DOMAIN doc = D /\ doc \in [D -> Nat]
  BY <1>1, SensorAssumption
<1> QED
  BY <1>2 DEF Init, Fresh

(* One more line, which pushes the value of its label.                     *)
LEMMA VisitStep ==
  ASSUME IInv, NEW l \in left, Visit(l), ~done, Len(sensors) < MaxSensors,
         sensors' = Append(sensors, Value(l))
  PROVE  LineInv' /\ SensorsAreValues' /\ AllSensorsSent'
<1> USE DEF IInv
<1>1. l \in DOMAIN doc /\ doc' = doc /\ done' = done
      /\ left' = left \ {l} /\ lines' = Append(lines, l)
  BY DEF DocInv, Visit
<1>2. Values' = Values /\ \A m : Value(m)' = Value(m)
  BY <1>1 DEF Values, Value
<1>3. Value(l) \in Values
  BY <1>1 DEF Values
<1>4. LineInv'
  <2>1. lines' \in Seq(DOMAIN doc') /\ sensors' \in Seq(Values')
    BY <1>1, <1>2, <1>3 DEF LineInv
  <2>2. Len(lines') = Len(lines) + 1 /\ Len(sensors') = Len(sensors) + 1
    BY <1>1, <1>3 DEF LineInv
  <2>3. Cardinality(left') = Cardinality(left) - 1
    BY <1>1, FiniteLabels
  <2> QED
    BY <1>1, <2>1, <2>2, <2>3, FiniteLabels, SensorAssumption DEF LineInv
<1>5. SensorsAreValues'
  <2> SUFFICES ASSUME NEW i \in 1 .. Len(lines')
               PROVE  i <= Len(sensors') /\ sensors'[i] = Value(lines'[i])
    BY <1>2 DEF SensorsAreValues
  <2>1. CASE i \in 1 .. Len(lines)
    BY <1>1, <1>3, <2>1 DEF LineInv, SensorsAreValues
  <2>2. CASE i = Len(lines) + 1
    BY <1>1, <1>3, <2>2 DEF LineInv
  <2> QED
    BY <1>1, <2>1, <2>2 DEF LineInv
<1>6. AllSensorsSent'
  BY <1>1 DEF AllSensorsSent
<1> QED
  BY <1>4, <1>5, <1>6

(* A label that is no total.                                               *)
LEMMA PlainStep == ASSUME IInv, NEW l \in Labels, Plain(l) PROVE IInv'
<1>1. l \in left /\ ~done /\ Len(sensors) < MaxSensors /\ Visit(l) /\ l \in DOMAIN doc
  BY DEF Plain, IsNext, IInv, DocInv
<1>2. sensors' = Append(sensors, Value(l))
  BY <1>1 DEF Plain, IInv, CountInv, Value
<1>3. DocInv' /\ CountInv'
  BY <1>1 DEF Plain, Visit, IInv, DocInv, CountInv
<1> QED
  BY <1>1, <1>2, <1>3, VisitStep DEF IInv

(* A total.                                                                *)
LEMMA TotalStep == ASSUME IInv, NEW l \in Labels, Total(l) PROVE IInv'
<1>1. /\ l \in left /\ ~done /\ Len(sensors) < MaxSensors /\ Visit(l)
      /\ l \in Totals /\ l \in DOMAIN doc
  BY DEF Total, IsNext, IInv, DocInv
<1>2. count' = [count EXCEPT ![l] = Value(l)]
  BY <1>1, SameSubtotal DEF Total, IInv, Value
<1>3. sensors' = Append(sensors, Value(l))
  BY <1>1, <1>2 DEF Total, IInv, DocInv
<1>4. DocInv'
  <2>1. PICK C : count \in [DOMAIN doc -> C]
    BY DEF IInv, DocInv
  <2>2. count' \in [DOMAIN doc -> C \cup {Value(l)}]
    BY <1>1, <1>2, <2>1
  <2> QED
    BY <1>1, <1>2, <2>2 DEF Visit, IInv, DocInv
<1>5. CountInv'
  BY <1>1, <1>2 DEF Total, Visit, IInv, DocInv, CountInv
<1> QED
  BY <1>1, <1>3, <1>4, <1>5, VisitStep DEF IInv

(* The padding: a document with fewer labels than sensors leaves zeros, one *)
(* with more has filled them.                                              *)
LEMMA PadStep == IInv /\ Pad => IInv'
<1> SUFFICES ASSUME IInv, Pad PROVE IInv'
  OBVIOUS
<1> DEFINE zeros == [i \in 1 .. MaxSensors - Len(sensors) |-> 0]
<1>1. /\ UNCHANGED <<doc, count, left, lines, additions, subtractions>>
      /\ ~done /\ done' = TRUE /\ (left = {} \/ Len(sensors) = MaxSensors)
  BY DEF Pad
<1>2. DocInv' /\ CountInv'
  BY <1>1 DEF IInv, DocInv, CountInv
<1>3. Values' = Values /\ \A m : Value(m)' = Value(m)
  BY <1>1 DEF Values, Value
<1>4. Len(sensors) \in Nat /\ Len(sensors) <= MaxSensors /\ MaxSensors \in Nat
      /\ Len(sensors) = Len(lines)
  BY <1>1, SensorAssumption DEF IInv, LineInv
<1>5. zeros \in Seq(Values) /\ Len(zeros) = MaxSensors - Len(sensors)
  BY <1>4 DEF Values
<1>6. /\ sensors' \in Seq(Values) /\ Len(sensors') = MaxSensors
      /\ \A i \in 1 .. Len(sensors) : sensors'[i] = sensors[i]
  <2>1. CASE Cardinality(DOMAIN doc) < MaxSensors
    <3>1. sensors' = sensors \o zeros
      BY <2>1 DEF Pad
    <3>2. sensors \in Seq(Values)
      BY DEF IInv, LineInv
    <3> HIDE DEF zeros
    <3>3. sensors \o zeros \in Seq(Values) /\ Len(sensors \o zeros) = Len(sensors) + Len(zeros)
      BY <1>5, <3>2
    <3>4. \A i \in 1 .. Len(sensors) : (sensors \o zeros)[i] = sensors[i]
      BY <1>5, <3>2
    <3> QED
      BY <1>4, <1>5, <3>1, <3>3, <3>4
  <2>2. CASE ~(Cardinality(DOMAIN doc) < MaxSensors)
    <3>1. sensors' = sensors
      BY <2>2 DEF Pad
    <3>2. Len(sensors) = MaxSensors
      BY <1>1, <1>4, <2>2, FiniteLabels DEF IInv, LineInv
    <3> QED
      BY <3>1, <3>2 DEF IInv, LineInv
  <2> QED
    BY <2>1, <2>2
<1>7. LineInv'
  BY <1>1, <1>3, <1>4, <1>6 DEF IInv, LineInv
<1>8. SensorsAreValues' /\ AllSensorsSent'
  BY <1>1, <1>3, <1>4, <1>6 DEF IInv, LineInv, SensorsAreValues, AllSensorsSent
<1> QED
  BY <1>2, <1>7, <1>8 DEF IInv

(* Every step of the loop.                                                 *)
LEMMA LoopStep == ASSUME IInv, [Next]_vars PROVE IInv'
<1>1. CASE UNCHANGED vars
  <2>1. UNCHANGED <<doc, count, left, lines, sensors, additions, subtractions, done>>
    BY <1>1 DEF vars
  <2>2. Values' = Values /\ \A m : Value(m)' = Value(m)
    BY <2>1 DEF Values, Value
  <2> QED
    BY <2>1, <2>2 DEF IInv, DocInv, CountInv, LineInv, SensorsAreValues, AllSensorsSent
<1> QED
  BY <1>1, PlainStep, TotalStep, PadStep DEF Next

(* The invariant holds for ever.                                           *)
THEOREM SensorInvariance == Spec => []IInv
<1>1. IInv /\ [Next]_vars => IInv'
  BY LoopStep
<1> QED
  BY <1>1, InitFresh, LoopBegins, PTL DEF Spec

(* Every sensor of a message says what its own label counts, however many  *)
(* labels and totals a unit has (client.pl:75-101).                        *)
THEOREM SensorsAreRight == Spec => []SensorsAreValues
<1>1. IInv => SensorsAreValues
  BY DEF IInv
<1> QED
  BY <1>1, SensorInvariance, PTL

(* Every message has all its sensors (client.pl:68-71, 104-106).           *)
THEOREM MessagesAreComplete == Spec => []AllSensorsSent
<1>1. IInv => AllSensorsSent
  BY DEF IInv
<1> QED
  BY <1>1, SensorInvariance, PTL

(* The variables of the loop keep their types.                             *)
THEOREM SensorTypes == Spec => []TypeOK
<1>1. Init => doc \in Counts
  BY DEF Init
<1>2. ASSUME doc \in Counts, [Next]_vars PROVE (doc \in Counts)'
  BY <1>2 DEF Next, Plain, Total, Pad, Visit, vars
<1>3. IInv /\ doc \in Counts => TypeOK
  BY DEF IInv, DocInv, LineInv, TypeOK
<1> QED
  BY <1>1, <1>2, <1>3, SensorInvariance, PTL DEF Spec

-----------------------------------------------------------------------------
(* Where the calls stand that the document depends on.                     *)
LEMMA CallPlaces ==
  /\ DOMAIN Calls = 1 .. 16 /\ Len(Calls) = 16
  /\ \A c \in 1 .. 16 :
       /\ Calls[c].call = "GetDeviceID" => c = 1
       /\ c = 1 => Calls[c].call = "GetDeviceID"
       /\ Calls[c].call = "GetUnitTimeZone" => c = 6
       /\ Calls[c].call = "GetCurrentCount" => c = 10
       /\ c = 10 => Calls[c].call = "GetCurrentCount"
       /\ Calls[c].call = "GetRegisterLabels" => c = 11
       /\ c = 11 => Calls[c].call = "GetRegisterLabels"
       /\ Calls[c].call = "SetDeviceID" => c = 14
       /\ Calls[c].call = "GetUnitTime" => c = 15
       /\ "count" \in Calls[c].members => c = 11
<1>1. DOMAIN Calls = 1 .. 16 /\ Len(Calls) = 16
  BY DEF Calls
<1>2. ASSUME NEW c \in 1 .. 16
      PROVE  \/ c = 1 \/ c = 2 \/ c = 3 \/ c = 4 \/ c = 5 \/ c = 6 \/ c = 7 \/ c = 8
             \/ c = 9 \/ c = 10 \/ c = 11 \/ c = 12 \/ c = 13 \/ c = 14 \/ c = 15 \/ c = 16
  OBVIOUS
<1> QED
  BY <1>1, <1>2 DEF Calls

(* A set of places has a last one, which is its Max.                       *)
LEMMA LastPlace ==
  ASSUME NEW n \in Nat, NEW D \in SUBSET (1 .. n), D # {}
  PROVE  Max(D) \in D /\ \A d \in D : d <= Max(D)
<1> DEFINE less == OpToRel(<, Nat)
           above == {n - d : d \in D}
<1>1. above \in SUBSET Nat /\ above # {}
  <2>1. \A d \in D : d \in Int /\ d <= n /\ n - d \in Nat
    OBVIOUS
  <2> QED
    BY <2>1
<1>2. \E d \in above : \A e \in above : ~(<<e, d>> \in less)
  BY <1>1, WFMin, NatLessThanWellFounded
<1>3. ASSUME NEW d \in Nat, NEW e \in Nat, e < d PROVE <<e, d>> \in less
  <2> DEFINE p == <<e, d>>
  <2>1. p \in Nat \X Nat /\ p[1] < p[2]
    BY <1>3
  <2> HIDE DEF p
  <2>2. p \in less
    BY <2>1, Zenon DEF OpToRel
  <2> QED
    BY <2>2 DEF p
<1> HIDE DEF less
<1>4. PICK d \in above : \A e \in above : ~(<<e, d>> \in less)
  BY <1>2
<1>5. PICK last \in D : d = n - last
  OBVIOUS
<1>6. ASSUME NEW e \in D PROVE last >= e
  <2>1. n - e \in above /\ n - e \in Nat /\ d \in Nat
    OBVIOUS
  <2>2. ~(n - e < d)
    BY <1>3, <1>4, <2>1
  <2> QED
    BY <1>5, <2>1, <2>2
<1>7. \E m \in D : \A e \in D : m >= e
  BY <1>6
<1>8. Max(D) \in D /\ \A e \in D : Max(D) >= e
  BY <1>7 DEF Max
<1> QED
  BY <1>8

-----------------------------------------------------------------------------
(* What a document says under one identifier.                              *)
Wrapped(i, body) ==
    [type |-> "object", members |-> [k \in {i} |-> [type |-> "object", members |-> body]]]

NoCounts == [l \in {} |-> 0]
LabelCounts(c) == DOMAIN c \subseteq Labels /\ c \in [DOMAIN c -> Nat]

(* The document of a poll so far: nothing, or an object under one name.    *)
Shaped(d, i) == d = Null \/ d = Wrapped(i, d.members[i].members)

LEMMA ShapedBody ==
  ASSUME NEW i
  PROVE  /\ \A d : Shaped(d, i) => d = Null \/ \E body : d = Wrapped(i, body)
         /\ \A body : Shaped(Wrapped(i, body), i)
<1>1. \A body : Wrapped(i, body).members[i].members = body
  BY DEF Wrapped
<1> QED
  BY <1>1 DEF Shaped

(* What the client makes of such a document.                               *)
LEMMA CountsOfWrapped ==
  ASSUME NEW i, NEW body
  PROVE  CountsOf(Wrapped(i, body)) =
           IF i = Imei /\ "count" \in DOMAIN body
             THEN [l \in DOMAIN body["count"].members |-> body["count"].members[l].number]
             ELSE NoCounts
  BY DEF CountsOf, Wrapped, NoCounts

LEMMA NoCountsType == LabelCounts(NoCounts)
  BY DEF NoCounts, LabelCounts

LEMMA CountsOfNull == CountsOf(Null) = NoCounts
  BY DEF CountsOf, Null, NoCounts

(* The body of the document with the members of an answer in it.           *)
Extended(i, answer, body) ==
    /\ Extend(i, answer) = Wrapped(i, body)
    /\ \A m \in DOMAIN answer : m \in DOMAIN body /\ body[m] = answer[m]
    /\ j = Null => DOMAIN body = DOMAIN answer
    /\ \A old : j = Wrapped(i, old) =>
         /\ DOMAIN body = DOMAIN answer \cup DOMAIN old
         /\ \A m \in DOMAIN old \ DOMAIN answer : body[m] = old[m]

(* An answer goes where the others are, and in place of the like of it.    *)
LEMMA ExtendShape ==
  ASSUME NEW i, NEW answer, Shaped(j, i), DOMAIN answer # {}
  PROVE  \E body : Extended(i, answer, body)
<1> DEFINE Both(old) == [m \in DOMAIN answer \cup DOMAIN old |->
                           IF m \in DOMAIN answer THEN answer[m] ELSE old[m]]
<1>1. CASE j = Null
  <2> DEFINE body == Both(EmptyObject.members)
  <2>1. At(j, i) = Null
    BY <1>1 DEF At, Null
  <2>2. Extend(i, answer) = Insert(j, i, [type |-> "object", members |-> body])
    BY <2>1 DEF Extend
  <2>3. DOMAIN EmptyObject.members = {}
    BY DEF EmptyObject
  <2>4. DOMAIN body = DOMAIN answer /\ \A m \in DOMAIN answer : body[m] = answer[m]
    BY <2>3
  <2> HIDE DEF body
  <2>5. Extend(i, answer) = Wrapped(i, body)
    BY <1>1, <2>2, <2>3 DEF Insert, Null, Wrapped
  <2>6. \A old : j # Wrapped(i, old)
    BY <1>1 DEF Null, Wrapped
  <2> QED
    BY <1>1, <2>4, <2>5, <2>6 DEF Extended
<1>2. ASSUME NEW old, j = Wrapped(i, old)
      PROVE  \E body :
               /\ Extend(i, answer) = Wrapped(i, body)
               /\ \A m \in DOMAIN answer : m \in DOMAIN body /\ body[m] = answer[m]
               /\ DOMAIN body = DOMAIN answer \cup DOMAIN old
               /\ \A m \in DOMAIN old \ DOMAIN answer : body[m] = old[m]
  <2> DEFINE body == Both(old)
  <2>1. At(j, i) = [type |-> "object", members |-> old]
    BY <1>2 DEF At, Wrapped
  <2>2. At(j, i) # Null
    BY <2>1 DEF Null
  <2>3. Extend(i, answer) = Insert(j, i, [type |-> "object", members |-> body])
    BY <2>1, <2>2 DEF Extend
  <2>4. /\ DOMAIN body = DOMAIN answer \cup DOMAIN old
        /\ \A m \in DOMAIN answer : body[m] = answer[m]
        /\ \A m \in DOMAIN old \ DOMAIN answer : body[m] = old[m]
    OBVIOUS
  <2> HIDE DEF body
  <2>5. Extend(i, answer) = Wrapped(i, body)
    BY <1>2, <2>3 DEF Insert, Wrapped
  <2> QED
    BY <2>4, <2>5
<1>3. ASSUME NEW old, NEW other, j = Wrapped(i, old), j = Wrapped(i, other) PROVE old = other
  <2>1. j.members[i].members = old /\ j.members[i].members = other
    BY <1>3 DEF Wrapped
  <2> QED
    BY <2>1
<1>4. \A body : Null # Wrapped(i, body)
  BY DEF Null, Wrapped
<1>5. CASE \E body : j = Wrapped(i, body)
  <2>1. PICK old : j = Wrapped(i, old)
    BY <1>5
  <2>2. \A other : j = Wrapped(i, other) => other = old
    BY <2>1, <1>3
  <2>3. j # Null
    BY <2>1, <1>4
  <2>4. PICK body :
           /\ Extend(i, answer) = Wrapped(i, body)
           /\ \A m \in DOMAIN answer : m \in DOMAIN body /\ body[m] = answer[m]
           /\ DOMAIN body = DOMAIN answer \cup DOMAIN old
           /\ \A m \in DOMAIN old \ DOMAIN answer : body[m] = old[m]
    BY <1>2, <2>1
  <2> QED
    BY <2>2, <2>3, <2>4 DEF Extended
<1> QED
  BY <1>1, <1>5, ShapedBody

(* An answer that has no counts leaves the counts alone.                   *)
LEMMA OtherAnswer ==
  ASSUME NEW i, NEW answer, Shaped(j, i), "count" \notin DOMAIN answer
  PROVE  /\ CountsOf(Extend(i, answer)) = CountsOf(j)
         /\ Shaped(Extend(i, answer), i)
<1>1. CASE DOMAIN answer = {}
  BY <1>1 DEF Extend, Shaped
<1>2. CASE DOMAIN answer # {}
  <2>1. PICK body : Extended(i, answer, body)
    BY <1>2, ExtendShape
  <2>2. Shaped(Extend(i, answer), i)
    BY <2>1, ShapedBody DEF Extended
  <2>3. j = Null \/ \E old : j = Wrapped(i, old)
    BY ShapedBody
  <2>4. CASE j = Null
    BY <2>1, <2>2, <2>4, CountsOfNull, CountsOfWrapped DEF Extended
  <2>5. ASSUME NEW old, j = Wrapped(i, old) PROVE CountsOf(Extend(i, answer)) = CountsOf(j)
    <3>1. /\ "count" \in DOMAIN body => "count" \in DOMAIN old
          /\ "count" \in DOMAIN old => "count" \in DOMAIN body /\ body["count"] = old["count"]
      BY <2>1, <2>5 DEF Extended
    <3>2. CountsOf(Wrapped(i, body)) = CountsOf(Wrapped(i, old))
      <4>1. CASE "count" \in DOMAIN old
        BY <3>1, <4>1, CountsOfWrapped
      <4>2. CASE "count" \notin DOMAIN old
        BY <3>1, <4>2, CountsOfWrapped
      <4> QED
        BY <4>1, <4>2
    <3> QED
      BY <2>1, <2>5, <3>2 DEF Extended
  <2> QED
    BY <2>2, <2>3, <2>4, <2>5
<1> QED
  BY <1>1, <1>2

-----------------------------------------------------------------------------
(* The last of some lines with a label, as Labelled finds it.              *)
LastOf(numbers, labels, l) ==
    CHOOSE i \in DOMAIN numbers :
        /\ labels[i] = l
        /\ \A k \in DOMAIN numbers : k > i => labels[k] # l

LEMMA LastOfLabel ==
  ASSUME NEW numbers, NEW n \in Nat, DOMAIN numbers = 1 .. n, NEW labels,
         NEW l \in {labels[i] : i \in 1 .. n}
  PROVE  /\ LastOf(numbers, labels, l) \in 1 .. n
         /\ LastOf(numbers, labels, l) = Max({i \in 1 .. n : labels[i] = l})
<1> DEFINE places == {i \in 1 .. n : labels[i] = l}
           last == LastOf(numbers, labels, l)
<1>1. places \in SUBSET (1 .. n) /\ places # {}
  OBVIOUS
<1>2. Max(places) \in places /\ \A d \in places : d <= Max(places)
  BY <1>1, LastPlace
<1>3. \E i \in 1 .. n : labels[i] = l /\ \A k \in 1 .. n : k > i => labels[k] # l
  <2>1. ASSUME NEW k \in 1 .. n, labels[k] = l PROVE ~(k > Max(places))
    <3>1. k \in places
      BY <2>1
    <3>2. Max(places) \in 1 .. n
      BY <1>1, <1>2
    <3> HIDE DEF places
    <3> QED
      BY <1>2, <3>1, <3>2
  <2> QED
    BY <1>2, <2>1
<1>4. last \in 1 .. n /\ labels[last] = l /\ \A k \in 1 .. n : k > last => labels[k] # l
  BY <1>3 DEF LastOf
<1>5. last <= Max(places) /\ ~(Max(places) > last)
  BY <1>2, <1>4
<1> QED
  BY <1>2, <1>4, <1>5

(* The document with the counts, if there is a label for each.             *)
LEMMA LabelledCounts ==
  ASSUME NEW i, Shaped(j, i), fetched \in Seq(Nat), NEW labels \in Seq(Labels),
         fetched # <<>>, Len(fetched) <= Len(labels)
  PROVE  LET new == Member(i, "count", Labelled(labels))
         IN  /\ Shaped(new, i)
             /\ CountsOf(new) =
                  IF i = Imei THEN [l \in {labels[k] : k \in DOMAIN fetched} |->
                                      fetched[LastOf(fetched, labels, l)]]
                  ELSE NoCounts
             /\ LabelCounts(CountsOf(new))
<1> DEFINE answer == [n \in {"count"} |-> Labelled(labels)]
           found == {labels[k] : k \in DOMAIN fetched}
           numbers == [l \in found |-> fetched[LastOf(fetched, labels, l)]]
           new == Member(i, "count", Labelled(labels))
<1>1. PICK body : /\ Extend(i, answer) = Wrapped(i, body)
                  /\ "count" \in DOMAIN body /\ body["count"] = Labelled(labels)
  <2>1. DOMAIN answer = {"count"} /\ answer["count"] = Labelled(labels)
    OBVIOUS
  <2> HIDE DEF answer
  <2> QED
    BY <2>1, ExtendShape DEF Extended
<1>2. Labelled(labels).members = [l \in found |-> NumberOf(numbers[l])]
  BY DEF Labelled, Index, LastOf
<1>3. [l \in DOMAIN Labelled(labels).members |-> Labelled(labels).members[l].number] = numbers
  <2> HIDE DEF numbers, found
  <2>1. DOMAIN Labelled(labels).members = found
    BY <1>2
  <2>2. \A l \in found : Labelled(labels).members[l].number = numbers[l]
    BY <1>2 DEF NumberOf
  <2> QED
    BY <2>1, <2>2 DEF numbers
<1>4. CountsOf(new) = IF i = Imei THEN numbers ELSE NoCounts
  BY <1>1, <1>3, CountsOfWrapped DEF Member
<1>5. numbers \in [found -> Nat] /\ found \in SUBSET Labels
  <2>1. DOMAIN fetched = 1 .. Len(fetched) /\ Len(fetched) \in Nat
    OBVIOUS
  <2>2. ASSUME NEW l \in found PROVE LastOf(fetched, labels, l) \in DOMAIN fetched
    BY <2>1, LastOfLabel
  <2>3. ASSUME NEW k \in DOMAIN fetched PROVE labels[k] \in Labels
    OBVIOUS
  <2> QED
    BY <2>1, <2>2, <2>3
<1>6. LabelCounts(NoCounts)
  BY NoCountsType
<1> QED
  BY <1>1, <1>4, <1>5, <1>6, ShapedBody DEF Member, LabelCounts

(* With as many numbers as labels these are the counts of the lines.       *)
LEMMA LabelledIsCounted ==
  ASSUME NEW p, p.counts \in Seq(Nat), p.labels \in Seq(Labels), Len(p.counts) = Len(p.labels)
  PROVE  [l \in {p.labels[k] : k \in DOMAIN p.counts} |->
             p.counts[LastOf(p.counts, p.labels, l)]] = Counted(p)
<1>1. /\ DOMAIN p.counts = 1 .. Len(p.counts) /\ DOMAIN p.labels = 1 .. Len(p.counts)
      /\ Len(p.counts) \in Nat
  OBVIOUS
<1>2. Range(p.labels) = {p.labels[k] : k \in 1 .. Len(p.counts)}
  BY <1>1 DEF Range
<1>3. \A l \in Range(p.labels) : LastOf(p.counts, p.labels, l)
                                  = Max({i \in DOMAIN p.labels : p.labels[i] = l})
  BY <1>1, <1>2, LastOfLabel
<1> QED
  BY <1>1, <1>2, <1>3 DEF Counted

-----------------------------------------------------------------------------
(* The types of what a poll works on.                                      *)
CallNames == {Calls[c].call : c \in DOMAIN Calls}

PollRecords ==
    {p \in [labels : Seq(Labels), counts : Seq(Nat), id : Ids \cup {NoId},
            failed : SUBSET CallNames, changed : BOOLEAN] : Len(p.labels) = Len(p.counts)}

PollTypes ==
    /\ unit \in [labels : Seq(Labels), counts : Seq(Nat), zone : Nat, failures : Nat, changes : Nat]
    /\ Len(unit.labels) = Len(unit.counts)
    /\ poll \in PollRecords /\ stored \in Ids /\ call \in 1 .. Len(Calls) + 1
    /\ fetched \in Seq(Nat) /\ overrun \in BOOLEAN /\ taken \in BOOLEAN

(* What the poll knows of a unit that nobody has changed: nothing before   *)
(* the first call, and all its counts when it asks for its labels.         *)
ReadInv ==
    /\ id = poll.id /\ Shaped(j, id)
    /\ call = 1 => id = NoId /\ j = Null
    /\ ~poll.changed => unit.labels = poll.labels /\ unit.counts = poll.counts
    /\ call <= 10 => fetched = <<>>
    /\ call = 11 /\ ~poll.changed => fetched = poll.counts

(* A poll that has read the lines of a unit nobody has changed.            *)
Whole(p) ==
    /\ ~p.changed /\ p.id = Imei
    /\ p.failed \cap {"GetCurrentCount", "GetRegisterLabels"} = {}

(* What the document says so far: no counts before the labels are there,   *)
(* and then the ones of the unit.                                          *)
DocumentInv ==
    /\ LabelCounts(CountsOf(j))
    /\ call <= 11 => CountsOf(j) = NoCounts
    /\ call > 11 /\ Whole(poll) => CountsOf(j) = Counted(poll)

(* The document filed says what its own poll has read, and the client has  *)
(* it from the cache.                                                      *)
FiledInv ==
    /\ cached # Nothing => LabelCounts(CountsOf(cached))
    /\ cached # Nothing /\ Whole(filed) => CountsOf(cached) = Counted(filed)
    /\ taken => cached # Nothing /\ doc = CountsOf(cached)

(* The loop of the client has not begun.                                   *)
Waiting ==
    ~taken => /\ doc = NoCounts /\ count = doc /\ left = {} /\ lines = <<>> /\ sensors = <<>>
              /\ additions = 0 /\ subtractions = 0 /\ done = FALSE

ReportInv == PollTypes /\ ReadInv /\ LabelsSuffice /\ DocumentInv /\ FiledInv /\ Waiting

(* A unit as a poll begins.                                                *)
LEMMA BegunType ==
  ASSUME NEW u, u.labels \in Seq(Labels), u.counts \in Seq(Nat), Len(u.labels) = Len(u.counts)
  PROVE  /\ Begun(u) \in PollRecords /\ Begun(u).id = NoId /\ ~Begun(u).changed
         /\ Begun(u).labels = u.labels /\ Begun(u).counts = u.counts
  BY DEF Begun, PollRecords

LEMMA InitReportInv == ReportInit => ReportInv
<1> SUFFICES ASSUME ReportInit PROVE ReportInv
  OBVIOUS
<1>1. /\ unit \in [labels : Seq(Labels), counts : Seq(Nat), zone : Nat, failures : Nat, changes : Nat]
      /\ Len(unit.labels) = Len(unit.counts)
  BY ReportAssumption DEF ReportInit
<1>2. /\ poll = Begun(unit) /\ stored \in Ids /\ call = 1 /\ id = NoId /\ fetched = <<>> /\ j = Null
      /\ cached = Nothing /\ overrun = FALSE /\ stray = FALSE /\ taken = FALSE
      /\ doc = NoCounts /\ count = doc /\ left = {} /\ lines = <<>> /\ sensors = <<>>
      /\ additions = 0 /\ subtractions = 0 /\ done = FALSE
  BY DEF ReportInit, NoCounts
<1>3. PollTypes
  <2>1. poll \in PollRecords
    BY <1>1, <1>2, BegunType
  <2>2. call \in 1 .. Len(Calls) + 1 /\ fetched \in Seq(Nat)
    BY <1>2, CallPlaces
  <2> QED
    BY <1>1, <1>2, <2>1, <2>2 DEF PollTypes
<1>4. ReadInv
  BY <1>1, <1>2, BegunType DEF ReadInv, Shaped
<1>5. DocumentInv
  BY <1>2, CountsOfNull, NoCountsType DEF DocumentInv
<1> QED
  BY <1>2, <1>3, <1>4, <1>5 DEF ReportInv, LabelsSuffice, FiledInv, Waiting

-----------------------------------------------------------------------------
(* What does not touch the cache, the client or its loop.                  *)
LEMMA ClientWaits ==
  ASSUME ReportInv, UNCHANGED <<cached, taken, filed, vars>>
  PROVE  FiledInv' /\ Waiting'
<1>1. UNCHANGED <<doc, count, left, lines, sensors, additions, subtractions, done>>
  BY DEF vars
<1>2. CountsOf(cached)' = CountsOf(cached) /\ Counted(filed)' = Counted(filed)
      /\ Whole(filed)' = Whole(filed)
  BY DEF CountsOf, Counted, Whole
<1>3. FiledInv'
  BY <1>1, <1>2 DEF ReportInv, FiledInv, LabelCounts
<1>4. Waiting'
  BY <1>1 DEF ReportInv, Waiting, NoCounts
<1> QED
  BY <1>3, <1>4

(* A new document, and what becomes of its counts.                         *)
LEMMA DocumentStep ==
  ASSUME NEW d, j' = d, LabelCounts(CountsOf(d)),
         call' <= 11 => CountsOf(d) = NoCounts,
         call' > 11 /\ Whole(poll') => CountsOf(d) = Counted(poll')
  PROVE  DocumentInv'
<1>1. CountsOf(j)' = CountsOf(d) /\ Whole(poll)' = Whole(poll') /\ Counted(poll)' = Counted(poll')
  BY DEF CountsOf, Whole, Counted
<1> QED
  BY <1>1 DEF DocumentInv, LabelCounts, NoCounts

(* GetDeviceID is the first call: the document begins with its answer.     *)
LEMMA GetDeviceIDStep == ASSUME ReportInv, GetDeviceID PROVE ReportInv'
<1>1. /\ call = 1 /\ call' = 2 /\ id' = stored /\ poll' = [poll EXCEPT !.id = stored]
      /\ fetched' = fetched /\ unit' = unit /\ overrun' = overrun /\ stored' = stored
      /\ UNCHANGED <<cached, taken, filed, vars>>
      /\ j' = Extend(stored, [n \in {"deviceID"} |-> String(stored)])
  BY CallPlaces DEF GetDeviceID, Asks, GoOn, Kept, Member
<1>2. j = Null /\ fetched = <<>>
  BY <1>1 DEF ReportInv, ReadInv
<1>3. poll' \in PollRecords /\ poll'.id = stored /\ poll'.changed = poll.changed
      /\ poll'.labels = poll.labels /\ poll'.counts = poll.counts
  BY <1>1 DEF ReportInv, PollTypes, PollRecords
<1>4. /\ CountsOf(j') = NoCounts /\ Shaped(j', stored)
  <2>1. Shaped(j, stored)
    BY <1>2 DEF Shaped
  <2>2. "count" \notin DOMAIN [n \in {"deviceID"} |-> String(stored)]
    OBVIOUS
  <2> QED
    BY <1>1, <1>2, <2>1, <2>2, OtherAnswer, CountsOfNull
<1>5. PollTypes'
  BY <1>1, <1>3, CallPlaces DEF ReportInv, PollTypes
<1>6. ReadInv'
  <2>1. Shaped(j, id)'
    BY <1>1, <1>4 DEF Shaped, Wrapped, Null
  <2> QED
    BY <1>1, <1>2, <1>3, <2>1 DEF ReportInv, ReadInv
<1>7. DocumentInv'
  BY <1>1, <1>4, NoCountsType, DocumentStep
<1>8. LabelsSuffice'
  BY <1>1, <1>3 DEF ReportInv, LabelsSuffice
<1> QED
  BY <1>1, <1>5, <1>6, <1>7, <1>8, ClientWaits DEF ReportInv

(* An answer for the document that has no counts in it.                    *)
LEMMA AnswerStep ==
  ASSUME ReportInv, NEW answer, j' = Extend(id, answer), "count" \notin DOMAIN answer,
         call \in 2 .. 16, call \notin {10, 11}, call' = call + 1,
         UNCHANGED <<id, fetched, poll, unit, overrun, cached, taken, filed, vars>>, stored' \in Ids
  PROVE  ReportInv'
<1>1. CountsOf(j') = CountsOf(j) /\ Shaped(j', id)
  BY OtherAnswer DEF ReportInv, ReadInv
<1>2. PollTypes'
  BY CallPlaces DEF ReportInv, PollTypes
<1>3. ReadInv'
  <2>1. Shaped(j, id)'
    BY <1>1 DEF Shaped, Wrapped, Null
  <2> QED
    BY <2>1 DEF ReportInv, ReadInv
<1>4. DocumentInv'
  BY <1>1, DocumentStep DEF ReportInv, DocumentInv
<1>5. LabelsSuffice'
  BY DEF ReportInv, LabelsSuffice
<1> QED
  BY <1>2, <1>3, <1>4, <1>5, ClientWaits DEF ReportInv

LEMMA GetStep == ASSUME ReportInv, Get PROVE ReportInv'
<1>1. /\ call \in 2 .. 16 /\ call \notin {10, 11} /\ call' = call + 1
      /\ j' = Extend(id, Answer(call))
      /\ UNCHANGED <<id, fetched, poll, unit, overrun, stored, cached, taken, filed, vars>>
  BY CallPlaces DEF Get, GoOn, Kept, Special
<1>2. "count" \notin DOMAIN Answer(call)
  BY <1>1, CallPlaces DEF Answer
<1>3. stored' \in Ids
  BY <1>1 DEF ReportInv, PollTypes
<1> QED
  BY <1>1, <1>2, <1>3, AnswerStep

(* GetUnitTimeZone puts a zone of the table on the document, or nothing.   *)
LEMMA GetUnitTimeZoneStep == ASSUME ReportInv, GetUnitTimeZone PROVE ReportInv'
<1>1. /\ call = 6 /\ call' = call + 1
      /\ j' = IF stray' THEN j ELSE Extend(id, Answer(call))
      /\ UNCHANGED <<id, fetched, poll, unit, overrun, stored, cached, taken, filed, vars>>
  BY CallPlaces DEF GetUnitTimeZone, Asks, GoOn
<1>2. stored' \in Ids
  BY <1>1 DEF ReportInv, PollTypes
<1>3. CASE stray'
  <2> DEFINE answer == [m \in {} |-> 0]
  <2>1. j' = Extend(id, answer)
    BY <1>1, <1>3 DEF Extend
  <2> QED
    BY <1>1, <1>2, <2>1, AnswerStep
<1>4. CASE ~stray'
  <2>1. "count" \notin DOMAIN Answer(call)
    BY <1>1, CallPlaces DEF Answer
  <2> QED
    BY <1>1, <1>2, <1>4, <2>1, AnswerStep
<1> QED
  BY <1>3, <1>4

(* SetDeviceID says nothing to the document.                               *)
LEMMA SetDeviceIDStep == ASSUME ReportInv, SetDeviceID PROVE ReportInv'
<1> DEFINE answer == [m \in {} |-> 0]
<1>1. /\ call = 14 /\ call' = call + 1 /\ j' = j
      /\ UNCHANGED <<id, fetched, poll, unit, overrun, cached, taken, filed, vars>>
      /\ stored' = DefaultId
  BY CallPlaces DEF SetDeviceID, Asks, GoOn
<1>2. stored' \in Ids
  BY <1>1, ReportAssumption
<1>3. j' = Extend(id, answer)
  BY <1>1 DEF Extend
<1> QED
  BY <1>1, <1>2, <1>3, AnswerStep

(* GetCurrentCount: the count lines of now.                                *)
LEMMA GetCurrentCountStep == ASSUME ReportInv, GetCurrentCount PROVE ReportInv'
<1> DEFINE answer == [n \in {"Timestamp"} |-> String("Timestamp")]
<1>1. /\ call = 10 /\ call' = 11 /\ fetched' = unit.counts /\ j' = Extend(id, answer)
      /\ UNCHANGED <<id, poll, unit, overrun, stored, cached, taken, filed, vars>>
  BY CallPlaces DEF GetCurrentCount, Asks, GoOn, Kept, Member
<1>2. CountsOf(j') = CountsOf(j) /\ Shaped(j', id)
  <2>1. "count" \notin DOMAIN answer
    OBVIOUS
  <2> QED
    BY <1>1, <2>1, OtherAnswer DEF ReportInv, ReadInv
<1>3. PollTypes'
  BY <1>1, CallPlaces DEF ReportInv, PollTypes
<1>4. ReadInv'
  <2>1. Shaped(j, id)'
    BY <1>1, <1>2 DEF Shaped, Wrapped, Null
  <2> QED
    BY <1>1, <2>1 DEF ReportInv, ReadInv
<1>5. DocumentInv'
  BY <1>1, <1>2, DocumentStep DEF ReportInv, DocumentInv
<1>6. LabelsSuffice'
  BY <1>1 DEF ReportInv, LabelsSuffice
<1> QED
  BY <1>1, <1>3, <1>4, <1>5, <1>6, ClientWaits DEF ReportInv

(* GetRegisterLabels, whose labels go with the count lines by index. That  *)
(* nobody has changed the unit means one label for each line.              *)
LEMMA GetRegisterLabelsStep == ASSUME ReportInv, GetRegisterLabels PROVE ReportInv'
<1>1. /\ call = 11 /\ call' = 12 /\ overrun' \in BOOLEAN
      /\ overrun' <=> (fetched # <<>> /\ Len(fetched) > Len(unit.labels))
      /\ j' = IF fetched = <<>> \/ overrun' THEN j ELSE Member(id, "count", Labelled(unit.labels))
      /\ UNCHANGED <<unit, stored, id, fetched, poll, cached, taken, filed, vars>>
  <2>1. /\ call = 11 /\ call' = 12
        /\ UNCHANGED <<unit, stored, id, fetched, poll, cached, taken, filed, vars>>
    BY CallPlaces DEF GetRegisterLabels, Asks, GoOn
  <2>2. overrun' = (fetched # <<>> /\ Len(fetched) > Len(unit.labels))
    BY DEF GetRegisterLabels, Index
  <2>3. j' = IF fetched = <<>> \/ overrun' THEN j ELSE Member(id, "count", Labelled(unit.labels))
    BY DEF GetRegisterLabels
  <2>4. overrun' \in BOOLEAN /\ (overrun' <=> (fetched # <<>> /\ Len(fetched) > Len(unit.labels)))
    BY <2>2
  <2> QED
    BY <2>1, <2>3, <2>4
<1>2. ~poll.changed => /\ fetched = poll.counts /\ unit.labels = poll.labels
                       /\ Len(fetched) = Len(poll.labels) /\ ~overrun'
  BY <1>1 DEF ReportInv, PollTypes, PollRecords, ReadInv
<1>3. PollTypes'
  BY <1>1, CallPlaces DEF ReportInv, PollTypes
<1>4. CountsOf(j) = NoCounts
  BY <1>1 DEF ReportInv, DocumentInv
<1>5. CASE fetched = <<>> \/ overrun'
  <2>1. j' = j
    BY <1>1, <1>5
  <2>2. ReadInv'
    BY <1>1, <2>1 DEF ReportInv, ReadInv, Shaped, Wrapped, Null
  <2>3. Whole(poll) => Counted(poll) = NoCounts
    <3>1. Whole(poll) => poll.labels = <<>>
      BY <1>2, <1>5 DEF Whole, ReportInv, PollTypes, PollRecords
    <3> QED
      BY <3>1 DEF Counted, Range, NoCounts
  <2> QED
    BY <1>1, <1>2, <1>3, <1>4, <2>1, <2>2, <2>3, NoCountsType, DocumentStep, ClientWaits
    DEF ReportInv, LabelsSuffice
<1>6. CASE fetched # <<>> /\ ~overrun'
  <2>1. /\ fetched \in Seq(Nat) /\ unit.labels \in Seq(Labels) /\ Len(fetched) <= Len(unit.labels)
        /\ Shaped(j, id)
    BY <1>1, <1>6 DEF ReportInv, PollTypes, ReadInv
  <2>2. j' = Member(id, "count", Labelled(unit.labels))
    BY <1>1, <1>6
  <2>3. /\ Shaped(j', id) /\ LabelCounts(CountsOf(j'))
        /\ id = Imei => CountsOf(j') = [l \in {unit.labels[k] : k \in DOMAIN fetched} |->
                                          fetched[LastOf(fetched, unit.labels, l)]]
    BY <1>6, <2>1, <2>2, LabelledCounts
  <2>4. Whole(poll) => CountsOf(j') = Counted(poll)
    <3> SUFFICES ASSUME Whole(poll) PROVE CountsOf(j') = Counted(poll)
      OBVIOUS
    <3>1. id = Imei /\ fetched = poll.counts /\ unit.labels = poll.labels
      BY <1>2 DEF Whole, ReportInv, ReadInv
    <3>2. poll.counts \in Seq(Nat) /\ poll.labels \in Seq(Labels) /\ Len(poll.counts) = Len(poll.labels)
      BY DEF ReportInv, PollTypes, PollRecords
    <3>3. [l \in {poll.labels[k] : k \in DOMAIN poll.counts} |->
              poll.counts[LastOf(poll.counts, poll.labels, l)]] = Counted(poll)
      BY <3>2, LabelledIsCounted
    <3> QED
      BY <2>3, <3>1, <3>3
  <2>5. ReadInv'
    <3>1. Shaped(j, id)'
      BY <1>1, <2>3 DEF Shaped, Wrapped, Null
    <3> QED
      BY <1>1, <3>1 DEF ReportInv, ReadInv
  <2>6. DocumentInv'
    BY <1>1, <2>3, <2>4, DocumentStep
  <2> QED
    BY <1>1, <1>3, <1>6, <2>5, <2>6, ClientWaits DEF ReportInv, LabelsSuffice
<1> QED
  BY <1>5, <1>6

(* A failure less to come.                                                 *)
LEMMA SpentFailure ==
  ASSUME NEW u \in [labels : Seq(Labels), counts : Seq(Nat), zone : Nat, failures : Nat, changes : Nat],
         u.failures > 0
  PROVE  LET v == [u EXCEPT !.failures = @ - 1]
         IN  /\ v \in [labels : Seq(Labels), counts : Seq(Nat), zone : Nat, failures : Nat, changes : Nat]
             /\ v.labels = u.labels /\ v.counts = u.counts
<1>1. u.failures - 1 \in Nat
  OBVIOUS
<1> QED
  BY <1>1

(* A call that fails leaves its mark on the poll.                          *)
LEMMA FailsStep == ASSUME ReportInv, Fails PROVE ReportInv'
<1>1. /\ call \in 1 .. 16 /\ unit.failures > 0 /\ ~overrun
      /\ unit' = [unit EXCEPT !.failures = @ - 1]
      /\ poll' = [poll EXCEPT !.failed = @ \cup {Calls[call].call}]
      /\ call' = call + (IF Calls[call].call \in {"GetCurrentCount", "GetUnitTime"} THEN 2 ELSE 1)
      /\ UNCHANGED <<stored, id, fetched, j, cached, overrun, stray, taken, filed, vars>>
  BY CallPlaces DEF Fails, Polling
<1>2. /\ unit' \in [labels : Seq(Labels), counts : Seq(Nat), zone : Nat, failures : Nat, changes : Nat]
      /\ unit'.labels = unit.labels /\ unit'.counts = unit.counts
  BY <1>1, SpentFailure DEF ReportInv, PollTypes
<1>3. /\ poll' \in PollRecords /\ poll'.id = poll.id /\ poll'.changed = poll.changed
      /\ poll'.labels = poll.labels /\ poll'.counts = poll.counts
      /\ poll'.failed = poll.failed \cup {Calls[call].call}
  <2>1. Calls[call].call \in CallNames
    BY <1>1, CallPlaces DEF CallNames
  <2> QED
    BY <1>1, <2>1 DEF ReportInv, PollTypes, PollRecords
<1>4. /\ call' \in 2 .. 17 /\ call' # 11 /\ (call' <= 11 => call <= 9)
      /\ (call' <= 10 => call <= 10)
      /\ (call = 10 => Calls[call].call = "GetCurrentCount")
      /\ (call = 11 => Calls[call].call = "GetRegisterLabels")
  BY <1>1, CallPlaces
<1>5. PollTypes'
  <2>1. call' \in 1 .. Len(Calls) + 1
    BY <1>4, CallPlaces
  <2>2. Len(unit'.labels) = Len(unit'.counts)
    BY <1>2 DEF ReportInv, PollTypes
  <2> QED
    BY <1>1, <1>2, <1>3, <2>1, <2>2 DEF ReportInv, PollTypes
<1>6. ReadInv'
  <2>1. Shaped(j, id)'
    BY <1>1 DEF ReportInv, ReadInv, Shaped, Wrapped, Null
  <2>2. call' # 1 /\ call' # 11 /\ (call' <= 10 => fetched' = <<>>)
    BY <1>1, <1>4 DEF ReportInv, ReadInv
  <2> QED
    BY <1>1, <1>2, <1>3, <2>1, <2>2 DEF ReportInv, ReadInv
<1>7. DocumentInv'
  <2>1. Whole(poll') => Whole(poll) /\ call \notin {10, 11}
    BY <1>3, <1>4 DEF Whole
  <2>2. call' > 11 /\ call \notin {10, 11} => call > 11
    BY <1>1, CallPlaces
  <2>3. Counted(poll') = Counted(poll)
    BY <1>3 DEF Counted
  <2> QED
    BY <1>1, <1>4, <2>1, <2>2, <2>3, DocumentStep DEF ReportInv, DocumentInv
<1>8. LabelsSuffice'
  BY <1>1, <1>3 DEF ReportInv, LabelsSuffice
<1> QED
  BY <1>1, <1>5, <1>6, <1>7, <1>8, ClientWaits DEF ReportInv

(* The document is filed, or not, and the next poll begins.                *)
LEMMA SaveStep == ASSUME ReportInv, Save PROVE ReportInv'
<1>1. /\ call > 16 /\ call' = 1 /\ id' = NoId /\ fetched' = <<>> /\ j' = Null /\ ~overrun
      /\ ~taken /\ poll' = Begun(unit) /\ UNCHANGED <<stored, overrun, stray, taken, vars>>
  BY CallPlaces DEF Save, Polling
<1>2. \/ cached' = j /\ filed' = poll /\ UNCHANGED unit
      \/ /\ unit.failures > 0 /\ unit' = [unit EXCEPT !.failures = @ - 1]
         /\ UNCHANGED <<cached, filed>>
  BY DEF Save
<1>3. /\ unit' \in [labels : Seq(Labels), counts : Seq(Nat), zone : Nat, failures : Nat, changes : Nat]
      /\ unit'.labels = unit.labels /\ unit'.counts = unit.counts
  BY <1>2, SpentFailure DEF ReportInv, PollTypes
<1>4. /\ poll' \in PollRecords /\ poll'.id = NoId /\ ~poll'.changed
      /\ poll'.labels = unit.labels /\ poll'.counts = unit.counts
  BY <1>1, BegunType DEF ReportInv, PollTypes
<1>5. PollTypes'
  BY <1>1, <1>3, <1>4, CallPlaces DEF ReportInv, PollTypes
<1>6. ReadInv'
  BY <1>1, <1>3, <1>4 DEF ReadInv, Shaped, Null
<1>7. DocumentInv'
  BY <1>1, CountsOfNull, NoCountsType, DocumentStep
<1>8. LabelsSuffice'
  BY <1>1 DEF LabelsSuffice
<1>9. Waiting'
  BY <1>1 DEF ReportInv, Waiting, NoCounts, vars
<1>10. FiledInv'
  <2>1. CASE cached' = j /\ filed' = poll
    <3>1. /\ CountsOf(cached)' = CountsOf(j) /\ Counted(filed)' = Counted(poll)
          /\ Whole(filed)' = Whole(poll)
      BY <2>1 DEF CountsOf, Counted, Whole
    <3>2. LabelCounts(CountsOf(j)) /\ (call > 11 /\ Whole(poll) => CountsOf(j) = Counted(poll))
      BY DEF ReportInv, DocumentInv
    <3>3. call > 11
      <4>1. call \in 1 .. Len(Calls) + 1
        BY DEF ReportInv, PollTypes
      <4>2. Len(Calls) = 16
        BY CallPlaces
      <4> QED
        BY <1>1, <4>1, <4>2
    <3> QED
      BY <1>1, <3>1, <3>2, <3>3 DEF FiledInv, LabelCounts
  <2>2. CASE UNCHANGED <<cached, filed>>
    BY <1>1, <2>2, ClientWaits
  <2> QED
    BY <1>2, <2>1, <2>2
<1> QED
  BY <1>5, <1>6, <1>7, <1>8, <1>9, <1>10 DEF ReportInv

(* A unit with other registers: the poll under way is not Whole any more,  *)
(* and one that has not begun begins with the new ones.                    *)
LEMMA ChangeStep == ASSUME ReportInv, Change PROVE ReportInv'
<1>1. /\ ~overrun /\ unit.changes > 0
      /\ poll' = IF call = 1 THEN Begun(unit') ELSE [poll EXCEPT !.changed = TRUE]
      /\ UNCHANGED <<stored, call, id, fetched, j, cached, overrun, stray, taken, filed, vars>>
  BY DEF Change
<1>2. PICK r \in Registers :
        unit' = [unit EXCEPT !.labels = r.labels, !.counts = r.counts, !.changes = @ - 1]
  BY DEF Change
<1>3. /\ unit' \in [labels : Seq(Labels), counts : Seq(Nat), zone : Nat, failures : Nat, changes : Nat]
      /\ Len(unit'.labels) = Len(unit'.counts)
  <2>1. /\ r.labels \in Seq(Labels) /\ r.counts \in Seq(Nat) /\ Len(r.labels) = Len(r.counts)
        /\ unit.changes - 1 \in Nat
    BY <1>1, ReportAssumption DEF ReportInv, PollTypes
  <2> QED
    BY <1>2, <2>1 DEF ReportInv, PollTypes
<1>4. poll' \in PollRecords
  <2>1. [poll EXCEPT !.changed = TRUE] \in PollRecords
    BY DEF ReportInv, PollTypes, PollRecords
  <2> QED
    BY <1>1, <1>3, <2>1, BegunType
<1>5. PollTypes'
  BY <1>1, <1>3, <1>4 DEF ReportInv, PollTypes
<1>6. CASE call = 1
  <2>1. /\ poll'.id = NoId /\ poll'.labels = unit'.labels /\ poll'.counts = unit'.counts
    BY <1>1, <1>3, <1>6, BegunType
  <2>2. ReadInv'
    BY <1>1, <1>6, <2>1 DEF ReportInv, ReadInv, Shaped, Wrapped, Null
  <2>3. DocumentInv'
    BY <1>1, <1>6, DocumentStep DEF ReportInv, DocumentInv
  <2> QED
    BY <1>1, <1>5, <2>2, <2>3, ClientWaits DEF ReportInv, LabelsSuffice
<1>7. CASE call # 1
  <2>1. poll'.changed /\ poll'.id = poll.id
    BY <1>1, <1>7 DEF ReportInv, PollTypes, PollRecords
  <2>2. ReadInv'
    BY <1>1, <1>7, <2>1 DEF ReportInv, ReadInv, Shaped, Wrapped, Null
  <2>3. DocumentInv'
    BY <1>1, <2>1, DocumentStep DEF ReportInv, DocumentInv, Whole
  <2> QED
    BY <1>1, <1>5, <2>2, <2>3, ClientWaits DEF ReportInv, LabelsSuffice
<1> QED
  BY <1>6, <1>7

(* The client takes the document, and nothing of the poll moves after.     *)
LEMMA PollStays ==
  ASSUME ReportInv, UNCHANGED pollVars, taken' \in BOOLEAN
  PROVE  PollTypes' /\ ReadInv' /\ LabelsSuffice' /\ DocumentInv'
<1>1. UNCHANGED <<unit, stored, call, id, fetched, j, cached, overrun, stray, polls, poll, filed>>
  BY DEF pollVars
<1>2. PollTypes' /\ LabelsSuffice'
  BY <1>1 DEF ReportInv, PollTypes, LabelsSuffice
<1>3. ReadInv'
  BY <1>1 DEF ReportInv, ReadInv, Shaped, Wrapped, Null
<1>4. DocumentInv'
  BY <1>1, DocumentStep DEF ReportInv, DocumentInv
<1> QED
  BY <1>2, <1>3, <1>4

LEMMA TakeStep == ASSUME ReportInv, Take PROVE ReportInv'
<1>1. /\ ~taken /\ cached # Nothing /\ taken' = TRUE /\ doc' = CountsOf(cached)
      /\ UNCHANGED pollVars /\ cached' = cached /\ filed' = filed
  BY DEF Take, pollVars
<1>2. FiledInv' /\ Waiting'
  <2>1. CountsOf(cached)' = CountsOf(cached) /\ Counted(filed)' = Counted(filed)
        /\ Whole(filed)' = Whole(filed)
    BY <1>1 DEF CountsOf, Counted, Whole
  <2> QED
    BY <1>1, <2>1 DEF ReportInv, FiledInv, LabelCounts, Waiting
<1> QED
  BY <1>1, <1>2, PollStays DEF ReportInv

(* The loop leaves the document and everything before it alone.            *)
LEMMA LoopLeaves == ASSUME ReportInv, Report PROVE ReportInv'
<1>1. /\ taken /\ taken' = taken /\ UNCHANGED pollVars /\ cached' = cached /\ filed' = filed
      /\ doc' = doc
  BY DEF Report, pollVars, Next, Plain, Total, Pad, Visit
<1>2. FiledInv' /\ Waiting'
  <2>1. CountsOf(cached)' = CountsOf(cached) /\ Counted(filed)' = Counted(filed)
        /\ Whole(filed)' = Whole(filed)
    BY <1>1 DEF CountsOf, Counted, Whole
  <2> QED
    BY <1>1, <2>1 DEF ReportInv, FiledInv, LabelCounts, Waiting
<1> QED
  BY <1>1, <1>2, PollStays DEF ReportInv, PollTypes

-----------------------------------------------------------------------------
(* Every step of the polls, of the unit and of the client.                 *)
LEMMA ReportInvStep == ASSUME ReportInv, [ReportNext]_reportVars PROVE ReportInv'
<1>1. CASE UNCHANGED reportVars
  <2>1. /\ UNCHANGED pollVars /\ UNCHANGED <<cached, taken, filed, vars>>
    BY <1>1 DEF reportVars, pollVars
  <2> QED
    BY <2>1, PollStays, ClientWaits DEF ReportInv, PollTypes
<1>2. CASE Poll
  BY <1>2, GetDeviceIDStep, GetStep, GetUnitTimeZoneStep, GetCurrentCountStep,
     GetRegisterLabelsStep,
     SetDeviceIDStep, FailsStep, SaveStep DEF Poll
<1> QED
  BY <1>1, <1>2, ChangeStep, TakeStep, LoopLeaves DEF ReportNext

(* Polls and changes are no steps of the loop; it begins as the document   *)
(* is taken.                                                               *)
LEMMA WaitingStep == ASSUME ReportInv, IInv, [ReportNext]_reportVars PROVE IInv'
<1>1. ASSUME [Next]_vars PROVE IInv'
  BY <1>1, LoopStep
<1>2. CASE UNCHANGED vars
  BY <1>1, <1>2
<1>3. CASE Poll \/ Change \/ UNCHANGED reportVars
  <2>1. UNCHANGED vars
    BY <1>3 DEF Poll, Change, GetDeviceID, Get, GetUnitTimeZone, GetCurrentCount,
                GetRegisterLabels,
                SetDeviceID, Fails, Save, GoOn, reportVars
  <2> QED
    BY <1>2, <2>1
<1>4. CASE Take
  <2>1. /\ doc' = CountsOf(cached) /\ count' = doc' /\ left' = DOMAIN doc'
        /\ UNCHANGED <<lines, sensors, additions, subtractions, done>>
    BY <1>4 DEF Take
  <2>2. LabelCounts(doc')
    BY <1>4, <2>1 DEF Take, ReportInv, FiledInv
  <2>3. /\ lines' = <<>> /\ sensors' = <<>> /\ additions' = 0 /\ subtractions' = 0 /\ done' = FALSE
    BY <1>4, <2>1 DEF Take, ReportInv, Waiting
  <2>4. Fresh'
    BY <2>1, <2>2, <2>3 DEF Fresh, LabelCounts
  <2>5. IInv'
    BY <2>4, LoopBegins, PTL
  <2> QED
    BY <2>5
<1>5. CASE Report
  BY <1>1, <1>5 DEF Report
<1> QED
  BY <1>3, <1>4, <1>5 DEF ReportNext

(* The invariant of the polls holds for ever, and that of the loop.        *)
THEOREM ReportInvariance == ReportSpec => [](ReportInv /\ IInv)
<1>1. ReportInit => ReportInv /\ IInv
  <2> SUFFICES ASSUME ReportInit PROVE ReportInv /\ IInv
    OBVIOUS
  <2>1. /\ doc = NoCounts /\ count = doc /\ left = {} /\ lines = <<>> /\ sensors = <<>>
        /\ additions = 0 /\ subtractions = 0 /\ done = FALSE
    BY DEF ReportInit, NoCounts
  <2>2. DOMAIN doc = {}
    BY <2>1 DEF NoCounts
  <2> QED
    BY <2>1, <2>2, InitReportInv, NoCountsType, LoopBegins DEF Fresh, LabelCounts
<1>2. ReportInv /\ IInv /\ [ReportNext]_reportVars => (ReportInv /\ IInv)'
  BY ReportInvStep, WaitingStep
<1> QED
  BY <1>1, <1>2, PTL DEF ReportSpec

(* A poll never reads a label that is not there, whatever calls fail, as   *)
(* long as nobody changes the lines of the unit between two of its calls   *)
(* (BlackfinServer.cpp:358-377).                                           *)
THEOREM LabelsAlwaysSuffice == ReportSpec => []LabelsSuffice
<1>1. ReportInv => LabelsSuffice
  BY DEF ReportInv
<1> QED
  BY <1>1, ReportInvariance, PTL

(* The client takes for the counts of a unit what its lines have counted,  *)
(* label by label, for any lines, any calls that fail and any number of    *)
(* polls (BlackfinServer.cpp:289-510, client.pl:45-49).                    *)
THEOREM CountsAreTheUnits == ReportSpec => []CountsArriveLabelled
<1>1. ReportInv => CountsArriveLabelled
  BY DEF ReportInv, FiledInv, Whole, CountsArriveLabelled
<1> QED
  BY <1>1, ReportInvariance, PTL

(* The sensors of a message that is made of a polled document are right,   *)
(* and complete (client.pl:68-106).                                        *)
THEOREM ReportedSensors ==
    ReportSpec => [](SensorsAreValues /\ AllSensorsSent)
<1>1. IInv => SensorsAreValues /\ AllSensorsSent
  BY DEF IInv
<1> QED
  BY <1>1, ReportInvariance, PTL
==============================================================================
