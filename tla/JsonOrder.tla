------------------------------ MODULE JsonOrder ------------------------------
(***************************************************************************)
(* How json.hpp compares two values: by what is in them if their types are *)
(* the same, and by the types if not. The members of an array or object    *)
(* are compared in the same way, here by operators that are given.         *)
(***************************************************************************)
EXTENDS JsonProgram

CONSTANTS
    Amount(_),     \* the place among all numbers of the one that digits say
    Less(_, _),    \* operator< and operator== of two values and what is in them
    Equal(_, _)

(* Mutant: an object and an array have the same rank.                      *)
TypeRankTied == [null |-> 0, boolean |-> 1, number |-> 2, object |-> 3, array |-> 3, string |-> 4]

(* operator< of two types: null < boolean < number < object < array < string. *)
TypeRank == [null |-> 0, boolean |-> 1, number |-> 2, object |-> 3, array |-> 4, string |-> 5]

(* The pairs of an object, in the order of their keys.                     *)
Pairs(o) == LET keys == Keys(o) IN [i \in DOMAIN keys |-> <<keys[i], o.members[keys[i]]>>]

LessBy(v, w, Lt(_, _)) ==
    IF v.type # w.type THEN TypeRank[v.type] < TypeRank[w.type]
    ELSE CASE v.type = "array"   -> Lexicographic(v.elements, w.elements, Lt)
           [] v.type = "object"  ->
                Lexicographic(Pairs(v), Pairs(w),
                              LAMBDA p, q : StringLess(p[1], q[1]) \/ (p[1] = q[1] /\ Lt(p[2], q[2])))
           [] v.type = "string"  -> StringLess(v.string, w.string)
           [] v.type = "number"  -> Amount(v.number) < Amount(w.number)
           [] v.type = "boolean" -> ~v.boolean /\ w.boolean
           [] OTHER -> FALSE

EqualBy(v, w, Eq(_, _)) ==
    /\ v.type = w.type
    /\ CASE v.type = "number" -> Amount(v.number) = Amount(w.number)
         [] v.type = "object" ->
              /\ DOMAIN v.members = DOMAIN w.members
              /\ \A k \in DOMAIN v.members : Eq(v.members[k], w.members[k])
         [] v.type = "array"  ->
              /\ Len(v.elements) = Len(w.elements)
              /\ \A i \in DOMAIN v.elements : Eq(v.elements[i], w.elements[i])
         [] OTHER -> v = w

(* Are these values compared by what is in them, and numbers by amounts?   *)
Compared(V) ==
    \A v, w \in V :
      /\ Less(v, w) <=> LessBy(v, w, Less)
      /\ Equal(v, w) <=> EqualBy(v, w, Equal)
      /\ v.type = "number" => Amount(v.number) \in Int

ASSUME OrderAssumption == Compared(Values)

-----------------------------------------------------------------------------
(* operator== and operator< agree on the values of the program: of two     *)
(* that are not equal one is less, and less is transitive                  *)
(* (json.hpp:1849-1958).                                                   *)
Ordered ==
    phase = "editing" =>
      LET values == {result, doc, other}
      IN  /\ \A v, w \in values : Less(v, w) <=> ~Less(w, v) /\ ~Equal(v, w)
          /\ \A v, w, x \in values : Less(v, w) /\ Less(w, x) => Less(v, x)
==============================================================================
