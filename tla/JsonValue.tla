------------------------------ MODULE JsonValue ------------------------------
(***************************************************************************)
(* The values of json.hpp as the server uses them: what the constructors,  *)
(* operator[] and push_back make of a value, and the characters of a       *)
(* string as they stand between the quotes.                                *)
(***************************************************************************)
LOCAL INSTANCE Naturals
LOCAL INSTANCE Sequences

Null        == [type |-> "null"]
Boolean(b)  == [type |-> "boolean", boolean |-> b]
String(s)   == [type |-> "string", string |-> s]
NumberOf(t) == [type |-> "number", number |-> t]   \* t: the digits it is written with
EmptyObject == [type |-> "object", members |-> [k \in {} |-> Null]]
EmptyArray  == [type |-> "array", elements |-> <<>>]
Thrown      == [type |-> "thrown"]   \* not a value: the operation throws

(* o[k] = v, where null becomes an object first and a member is replaced.  *)
Insert(o, k, v) ==
    LET members == IF o.type = "null" THEN EmptyObject.members ELSE o.members
    IN  IF o.type \notin {"null", "object"} THEN Thrown
        ELSE [type |-> "object",
              members |-> [l \in DOMAIN members \cup {k} |-> IF l = k THEN v ELSE members[l]]]

(* o[k], read from a value that is not constant: a member that is missing  *)
(* is inserted, and is null.                                               *)
At(o, k) ==
    IF o.type \notin {"null", "object"} THEN Thrown
    ELSE IF o.type = "object" /\ k \in DOMAIN o.members THEN o.members[k] ELSE Null

PushBack(a, v) ==
    IF a.type \notin {"null", "array"} THEN Thrown
    ELSE [type |-> "array",
          elements |-> IF a.type = "null" THEN <<v>> ELSE Append(a.elements, v)]

-----------------------------------------------------------------------------
(* A character that has an escape, and the letter that stands for it.      *)
EscapeOf ==
    [c \in {"quote", "backslash", "newline", "return", "tab", "formfeed", "backspace"} |->
        CASE c = "newline"  -> "n" [] c = "return"    -> "r" [] c = "tab" -> "t"
          [] c = "formfeed" -> "f" [] c = "backspace" -> "b" [] OTHER -> c]

(* The character that a letter after a backslash stands for.               *)
Unescaped(c) ==
    IF c = "/" THEN c ELSE CHOOSE d \in DOMAIN EscapeOf : EscapeOf[d] = c

(* Of the four digits that follow a \u in s, at i: is the code one of the  *)
(* first or of the second half of a pair, and what is the character. The   *)
(* only one of ASCII that is written so is U+0001; one stands for all that *)
(* are beyond ASCII, with a code or with two.                              *)
High(s, i) == s[i] = "d" /\ s[i + 1] \in {"8", "9", "a", "b"}
Low(s, i)  == s[i] = "d" /\ s[i + 1] \in {"c", "d", "e", "f"}
Character(s, i) ==
    IF s[i] = "0" /\ s[i + 1] = "0" /\ s[i + 2] = "0" /\ s[i + 3] = "1"
      THEN "control" ELSE "other"

(* lexer::get_string: what a string token says. It throws at the first     *)
(* half of a pair without the second.                                      *)
GetString(lexeme) ==
    LET s == SubSeq(lexeme, 2, Len(lexeme) - 1)
        Paired(i) == i < Len(s) /\ s[i] = "backslash" /\ s[i + 1] = "u" /\ Low(s, i + 2)
        said[i \in 1 .. Len(s) + 12] ==
          IF i > Len(s) THEN <<>>
          ELSE IF s[i] # "backslash" THEN <<s[i]>> \o said[i + 1]
          ELSE IF s[i + 1] # "u" THEN <<Unescaped(s[i + 1])>> \o said[i + 2]
          ELSE IF ~High(s, i + 2) THEN <<Character(s, i + 2)>> \o said[i + 6]
          ELSE IF Paired(i + 6) THEN <<"other">> \o said[i + 12]
          ELSE <<"thrown">>
    IN  said[1]

Unpaired(lexeme) == \E i \in DOMAIN GetString(lexeme) : GetString(lexeme)[i] = "thrown"
==============================================================================
