------------------------------- MODULE JsonTree -------------------------------
(***************************************************************************)
(* What json.hpp finds out about a value together with all the values in   *)
(* it: which of two is less, whether they are equal, the memory it has and *)
(* what is written of it.                                                  *)
(***************************************************************************)
EXTENDS JsonOrder, JsonDump

RECURSIVE IsLess(_, _), IsEqual(_, _), OwnedBlocks(_), Dump(_)

(* operator<, and operator== of two values.                                *)
IsLess(v, w)  == LessBy(v, w, LAMBDA a, b : IsLess(a, b))
IsEqual(v, w) == EqualBy(v, w, LAMBDA a, b : IsEqual(a, b))

(* The strings, arrays and objects allocated for a value and in it.        *)
OwnedBlocks(v) ==
    CASE v.type = "string"   -> 1
      [] v.type \in Compound ->
           LET members == Members(v)
           IN  1 + FoldFunction(+, 0, [i \in DOMAIN members |-> OwnedBlocks(members[i])])
      [] OTHER -> 0

(* dump of a value and of all the values in it.                            *)
Dump(v) == DumpBy(v, [w \in IF v.type \in Compound THEN Range(Members(v)) ELSE {} |-> Dump(w)])
===============================================================================
