------------------------------ MODULE SensorLine ------------------------------
(***************************************************************************)
(* The loop of client/client.pl (:49-106) that turns the counts of a unit, *)
(* one per register label, into the ten sensors of a message: the first    *)
(* ten labels in alphabetical order, where the count of <prefix>-total is  *)
(* replaced by what the labels <prefix>-A0 .. -A9 count less what          *)
(* <prefix>-S0 .. -S9 do.                                                  *)
(***************************************************************************)
EXTENDS Integers, Sequences, FiniteSets, Functions

CONSTANTS
    Labels,       \* register labels
    Rank,         \* their order in lower case: labels that only differ in case tie
    Totals,       \* labels that contain "-total"
    A, S,         \* for each of them, its labels <prefix>-A<i> and <prefix>-S<i>
    MaxSensors,   \* sensors in a message, and lines looked at: 10
    MaxCount      \* bound: counts of a label

ASSUME SensorAssumption ==
    /\ IsFiniteSet(Labels) /\ Rank \in [Labels -> Nat] /\ Totals \subseteq Labels
    /\ A \in [Totals -> SUBSET (Labels \ Totals)]
    /\ S \in [Totals -> SUBSET (Labels \ Totals)]
    /\ MaxSensors \in Nat /\ MaxCount \in Nat

VARIABLES
    doc,            \* the counts in the document, as fetched
    count,          \* the same as the loop updates them
    left,           \* labels the loop has yet to visit
    lines,          \* labels visited, in order
    sensors,        \* counts pushed so far
    additions, subtractions,   \* the temporary subtotals
    done

vars == <<doc, count, left, lines, sensors, additions, subtractions, done>>

Counts == UNION {[L -> 0 .. MaxCount] : L \in SUBSET Labels}

TypeOK ==
    /\ doc \in Counts
    /\ DOMAIN count = DOMAIN doc
    /\ left \subseteq DOMAIN doc
    /\ lines \in Seq(DOMAIN doc) /\ Len(sensors) <= MaxSensors
    /\ done \in BOOLEAN

Init ==
    /\ doc \in Counts /\ count = doc
    /\ left = DOMAIN doc /\ lines = <<>> /\ sensors = <<>>
    /\ additions = 0 /\ subtractions = 0 /\ done = FALSE

Abs(n) == IF n < 0 THEN -n ELSE n

(* start, and what the labels of L that the document has count in all.     *)
Subtotal(start, counts, L) ==
    FoldFunction(+, start, Restrict(counts, L \cap DOMAIN counts))

(* l comes next: no label before it is left, and the counter is below ten. *)
IsNext(l) ==
    /\ ~done /\ Len(sensors) < MaxSensors
    /\ l \in left /\ \A m \in left : Rank[l] <= Rank[m]

Visit(l) ==
    /\ left' = left \ {l} /\ lines' = Append(lines, l)
    /\ UNCHANGED <<doc, done>>

Plain(l) ==
    /\ IsNext(l) /\ l \notin Totals /\ Visit(l)
    /\ sensors' = Append(sensors, count[l])
    /\ UNCHANGED <<count, additions, subtractions>>

(* Mutant: the subtotals are not cleared for the next total.               *)
TotalUncleared(l) ==
    /\ IsNext(l) /\ l \in Totals /\ Visit(l)
    /\ additions' = Subtotal(additions, count, A[l])
    /\ subtractions' = Subtotal(subtractions, count, S[l])
    /\ count' = [count EXCEPT ![l] = Abs(additions' - subtractions')]
    /\ sensors' = Append(sensors, count'[l])

Total(l) ==
    /\ IsNext(l) /\ l \in Totals /\ Visit(l)
    /\ LET added == Subtotal(additions, count, A[l])
           taken == Subtotal(subtractions, count, S[l])
       IN  count' = [count EXCEPT ![l] = Abs(added - taken)]
    /\ sensors' = Append(sensors, count'[l])
    /\ additions' = 0 /\ subtractions' = 0

(* Mutant: the padding leaves room for one label.                          *)
PadShort ==
    /\ ~done /\ (left = {} \/ Len(sensors) = MaxSensors)
    /\ sensors' = IF Cardinality(DOMAIN doc) < MaxSensors
                    THEN sensors \o [i \in 1 .. MaxSensors - Len(sensors) - 1 |-> 0]
                    ELSE sensors
    /\ done' = TRUE
    /\ UNCHANGED <<doc, count, left, lines, additions, subtractions>>

(* After the loop a short line is padded with zeros.                       *)
Pad ==
    /\ ~done /\ (left = {} \/ Len(sensors) = MaxSensors)
    /\ sensors' = IF Cardinality(DOMAIN doc) < MaxSensors
                    THEN sensors \o [i \in 1 .. MaxSensors - Len(sensors) |-> 0]
                    ELSE sensors
    /\ done' = TRUE
    /\ UNCHANGED <<doc, count, left, lines, additions, subtractions>>

Next == (\E l \in Labels : Plain(l) \/ Total(l)) \/ Pad

Spec == Init /\ [][Next]_vars

-----------------------------------------------------------------------------
(* What the sensor of a label should say, given the document alone.        *)
Value(l) ==
    IF l \in Totals THEN Abs(Subtotal(0, doc, A[l]) - Subtotal(0, doc, S[l]))
                    ELSE doc[l]

(* Each sensor says what its own label counts, whatever lines and totals   *)
(* came before it: no subtotal leaks from one total into the next and no   *)
(* rewritten count is added up (client.pl:75-101).                         *)
SensorsAreValues ==
    \A i \in 1 .. Len(lines) : i <= Len(sensors) /\ sensors[i] = Value(lines[i])

(* A message has as many sensors as its format has room for, however many  *)
(* labels the unit has (client.pl:68-71, 104-106).                         *)
AllSensorsSent == done => Len(sensors) = MaxSensors
==============================================================================
