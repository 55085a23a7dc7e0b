---------------------------- MODULE JsonContainer ----------------------------
(***************************************************************************)
(* A value of json.hpp as a container: null has no members, a scalar has   *)
(* itself as the only one, and the members of an object come in the order  *)
(* of their keys. An iterator is the number of members before it; that of  *)
(* a scalar or of null is generic_iterator. An integer and a number with a *)
(* fraction are one type here, as they are to every operation below.       *)
(***************************************************************************)
EXTENDS JsonValue, Integers, Sequences, FiniteSets

CONSTANT Place   \* the place of each character among all characters

ASSUME PlaceAssumption ==
    /\ "thrown" \notin DOMAIN Place
    /\ \A c, d \in DOMAIN Place : Place[c] \in Nat /\ (Place[c] = Place[d] => c = d)

Strings == Seq(DOMAIN Place)

(* A value whose members are among these.                                  *)
ContainerOf(v, V) ==
    \/ v = Null
    \/ \E b \in BOOLEAN : v = Boolean(b)
    \/ v.type = "number" /\ v = NumberOf(v.number)
    \/ v.type = "string" /\ v = String(v.string) /\ v.string \in Strings
    \/ v.type = "array" /\ v = [type |-> "array", elements |-> v.elements] /\ v.elements \in Seq(V)
    \/ /\ v.type = "object" /\ v = [type |-> "object", members |-> v.members]
       /\ IsFiniteSet(DOMAIN v.members) /\ DOMAIN v.members \subseteq Strings
       /\ v.members \in [DOMAIN v.members -> V]

(* Are the members of each of these values among them?                     *)
Closed(V) == \A v \in V : ContainerOf(v, V)

Compound == {"object", "array"}

(* The first place where one is less decides; there is none if one of the  *)
(* two goes on where the other ends.                                       *)
Lexicographic(a, b, Lt(_, _)) ==
    LET Same(i) == ~Lt(a[i], b[i]) /\ ~Lt(b[i], a[i])
    IN  \/ \E i \in DOMAIN a \cap DOMAIN b : Lt(a[i], b[i]) /\ \A j \in 1 .. i - 1 : Same(j)
        \/ Len(a) < Len(b) /\ \A i \in DOMAIN a : Same(i)

StringLess(s, t) == Lexicographic(s, t, LAMBDA c, d : Place[c] < Place[d])

(* The keys of an object in their order: before the i-th there are i - 1.  *)
KeysBefore(o, k) == {l \in DOMAIN o.members : StringLess(l, k)}

Keys(o) ==
    [i \in 1 .. Cardinality(DOMAIN o.members) |->
        CHOOSE k \in DOMAIN o.members : Cardinality(KeysBefore(o, k)) = i - 1]

Members(v) ==
    CASE v.type = "object" -> LET keys == Keys(v) IN [i \in DOMAIN keys |-> v.members[keys[i]]]
      [] v.type = "array"  -> v.elements
      [] v.type = "null"   -> <<>>
      [] OTHER             -> <<v>>

-----------------------------------------------------------------------------
(* Constructors and conversions.                                           *)

(* An initializer list: an object, if it is a list of pairs with a string  *)
(* first, unless an array is asked for. A key that comes again is dropped. *)
FromList(list, deduction, manual) ==
    LET pairs == \A i \in DOMAIN list : /\ list[i].type = "array" /\ Len(list[i].elements) = 2
                                        /\ list[i].elements[1].type = "string"
        First(k) == CHOOSE i \in DOMAIN list :
                       /\ list[i].elements[1].string = k
                       /\ \A j \in 1 .. i - 1 : list[j].elements[1].string # k
    IN  IF ~deduction /\ manual = "object" /\ ~pairs THEN Thrown
        ELSE IF pairs /\ (deduction \/ manual = "object")
          THEN [type |-> "object",
                members |-> [k \in {list[i].elements[1].string : i \in DOMAIN list} |->
                               list[First(k)].elements[2]]]
          ELSE [type |-> "array", elements |-> list]

Copies(count, v) == [type |-> "array", elements |-> [i \in 1 .. count |-> v]]

(* The members from iterator first to iterator last.                       *)
FromRange(v, first, last) ==
    CASE v.type = "object" ->
           [v EXCEPT !.members = [k \in {Keys(v)[i] : i \in first + 1 .. last} |-> @[k]]]
      [] v.type = "array"  -> [v EXCEPT !.elements = SubSeq(@, first + 1, last)]
      [] v.type = "null"   -> Thrown
      [] OTHER             -> IF first = 0 /\ last = 1 THEN v ELSE Thrown

(* get<object_t>(), get<array_t>() and those of the scalars.               *)
Get(type, v) == IF v.type = type THEN v ELSE Thrown

(* get of a vector of a C++ type: every element must convert.              *)
GetEach(type, v) ==
    IF v.type # "array" \/ \E i \in DOMAIN v.elements : v.elements[i].type # type
      THEN Thrown ELSE v

-----------------------------------------------------------------------------
(* Access and modifiers.                                                   *)

AtIndex(v, idx) ==
    IF v.type # "array" \/ idx >= Len(v.elements) THEN Thrown ELSE v.elements[idx + 1]

AtKey(v, k) ==
    IF v.type # "object" \/ k \notin DOMAIN v.members THEN Thrown ELSE v.members[k]

Empty(v) == v.type \in Compound \cup {"null"} /\ Members(v) = <<>>

(* v[idx] = x: null becomes an array, and the gap is filled with nulls.    *)
PutIndex(v, idx, x) ==
    LET old == IF v.type = "null" THEN <<>> ELSE v.elements
    IN  IF v.type \notin {"null", "array"} THEN Thrown
        ELSE [type |-> "array",
              elements |-> [i \in 1 .. (IF idx < Len(old) THEN Len(old) ELSE idx + 1) |->
                              IF i = idx + 1 THEN x ELSE IF i <= Len(old) THEN old[i] ELSE Null]]

Count(o, k) == IF o.type = "object" /\ k \in DOMAIN o.members THEN 1 ELSE 0

(* push_back of a pair: a member with this key stays as it is.             *)
PushPair(o, k, v) ==
    IF Count(o, k) = 1 THEN o ELSE Insert(o, k, v)

EraseKey(o, k) ==
    IF o.type # "object" THEN Thrown
    ELSE [o EXCEPT !.members = [l \in DOMAIN @ \ {k} |-> @[l]]]

(* What is left of a sequence without a range of it.                       *)
Without(s, first, last) == SubSeq(s, 1, first) \o SubSeq(s, last + 1, Len(s))

EraseIndex(v, idx) ==
    IF v.type # "array" \/ idx >= Len(v.elements) THEN Thrown
    ELSE [v EXCEPT !.elements = Without(@, idx, idx + 1)]

(* erase of a range: a scalar goes as a whole and leaves null.             *)
EraseRange(v, first, last) ==
    CASE v.type = "object" ->
           [v EXCEPT !.members =
              [k \in DOMAIN @ \ {Keys(v)[i] : i \in first + 1 .. last} |-> @[k]]]
      [] v.type = "array"  ->
           [v EXCEPT !.elements = Without(@, first, last)]
      [] v.type = "null"   -> Thrown
      [] OTHER             -> IF first = 0 /\ last = 1 THEN Null ELSE Thrown

Clear(v) ==
    CASE v.type = "object" -> EmptyObject         [] v.type = "array"   -> EmptyArray
      [] v.type = "string" -> String(<<>>)        [] v.type = "boolean" -> Boolean(FALSE)
      [] v.type = "number" -> NumberOf(<<"0">>)   [] OTHER              -> v

-----------------------------------------------------------------------------
(* Iterators.                                                              *)

(* null begins at its end.                                                 *)
BeginOf(v) == IF v.type = "null" THEN 1 ELSE 0

EndOf(v) == IF v.type \in Compound THEN Len(Members(v)) ELSE 1

Deref(v, it) ==
    IF it \in 0 .. Len(Members(v)) - 1 THEN Members(v)[it + 1] ELSE Thrown

(* it[n] and it - other, which objects do not have: they throw. The only   *)
(* member of a scalar is where n leads back to 0.                          *)
ItemAt(v, it, n) ==
    CASE v.type = "array"              -> v.elements[it + n + 1]
      [] v.type \in {"object", "null"} -> Thrown
      [] OTHER                         -> IF it = -n THEN v ELSE Thrown

Apart(it, other) == it - other

SameIterator(it, last) == it = last
Advanced(it) == it + 1
StepBack(it) == it - 1

FrontOf(v) == Deref(v, BeginOf(v))
BackOf(v)  == Deref(v, StepBack(EndOf(v)))

(* The member with a key, or the end.                                      *)
Find(v, k) ==
    IF Count(v, k) = 0 THEN EndOf(v) ELSE (CHOOSE i \in DOMAIN Keys(v) : Keys(v)[i] = k) - 1

(* Mutant: erase goes on behind the member that comes next.                *)
EraseAtSkip(v, pos) ==
    [value |-> EraseRange(v, pos, pos + 1), next |-> pos + 1]

(* erase(pos): the value, and the iterator that is returned. For a scalar  *)
(* it is the end, as it was while there was a value.                       *)
EraseAt(v, pos) ==
    [value |-> EraseRange(v, pos, pos + 1),
     next  |-> IF v.type \in Compound THEN pos ELSE EndOf(v)]

==============================================================================
