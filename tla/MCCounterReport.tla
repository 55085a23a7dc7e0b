--------------------------- MODULE MCCounterReport ---------------------------
(***************************************************************************)
(* Two counting lines, p and q, with additions, a subtraction and totals,  *)
(* a label that only differs from another in case, and messages of four    *)
(* sensors: units have fewer lines, as many and more. Every unit with up   *)
(* to seven lines is polled without trouble; a few have a call that fails, *)
(* get other lines during the poll, have two lines of one label, or a time *)
(* zone that the table of the header does not have.                        *)
(***************************************************************************)
EXTENDS CounterReport, SequencesExt

InOrder == <<"q-total", "p-A0", "p-total", "P-A0", "p-S0", "p-A1", "q-A0">>
SevenLabels == Range(InOrder)
BothTotals == {"p-total", "q-total"}
Alphabetical ==
    [l \in SevenLabels |->
        CASE l \in {"p-A0", "P-A0"} -> 1 [] l = "p-A1" -> 2 [] l = "p-S0" -> 3
          [] l = "p-total" -> 4 [] l = "q-A0" -> 5 [] OTHER -> 6]
Added == [t \in BothTotals |-> IF t = "p-total" THEN {"p-A0", "p-A1"} ELSE {"q-A0"}]
Taken == [t \in BothTotals |-> IF t = "p-total" THEN {"p-S0"} ELSE {}]

Unit(ls, cs, z, f, c) ==
    [labels |-> ls, counts |-> cs, zone |-> z, failures |-> f, changes |-> c]

Trouble ==
    {Unit(<<"p-A0", "p-S0", "p-total">>, <<1, 3, 9>>, 0, 1, 1),
     Unit(<<"q-A0", "p-A0", "q-A0">>, <<1, 2, 3>>, 0, 1, 1),
     Unit(<<"p-total">>, <<4>>, 2, 1, 1), Unit(<<>>, <<>>, 1, 1, 1)}

(* The lines of every set of labels, with any counts of two.               *)
Units(L) ==
    LET ls == SelectSeq(InOrder, LAMBDA l : l \in L)
    IN  {Unit(ls, cs, 0, 0, 0) : cs \in [1 .. Len(ls) -> {1, 3}]}

SomeRegisters == Trouble \cup UNION {Units(L) : L \in SUBSET SevenLabels}
=============================================================================
