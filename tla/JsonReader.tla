----------------------------- MODULE JsonReader -----------------------------
(***************************************************************************)
(* json::parse of json.hpp: the recursive descent of parser::parse_internal *)
(* with its call stack as a variable, over the tokens of JsonLexer. The    *)
(* callback of every event is the default one, which keeps all values.     *)
(***************************************************************************)
EXTENDS JsonLexer, JsonValue

CONSTANT Printed(_)   \* the digits that dump writes of the number that digits say

VARIABLES
    pc,       \* what the parser looks for next
    stack,    \* objects and arrays begun: [type, value, key]
    result    \* the value, once the outermost one is complete

vars == <<lexVars, pc, stack, result>>

TypeOK ==
    /\ buffer \in Seq(Chars) /\ unread \in Seq(Seq(Chars))
    /\ start \in Nat /\ marker \in Nat /\ cursor \in Nat
    /\ state \in State /\ token \in TokenType
    /\ pc \in {"value", "first", "key", "colon", "more", "end", "accepted", "thrown"}

(* The constructor of the parser asks for the first token.                 *)
Init == LexInit /\ pc = "value" /\ stack = <<>> /\ result = Null

-----------------------------------------------------------------------------
ValueTokens == {"begin_object", "begin_array", "literal_null", "literal_true",
                "literal_false", "value_string", "value_number"}
Running == pc \notin {"accepted", "thrown"}
Has(t) == state = "token" /\ token = t
GetToken == state' = "begin" /\ UNCHANGED <<given, source, start, marker, cursor, token, scanned>>
Lexeme == SubSeq(buffer, start, cursor - 1)
Top == Head(stack)
InObject == stack # <<>> /\ Top.type = "object"
InArray  == stack # <<>> /\ Top.type = "array"

(* Is a value due here? A list may begin with one.                         *)
ValueDue == pc = "value" \/ (pc = "first" /\ InArray)

(* A value is complete: it goes into the object or array it is part of.    *)
Complete(v, below) ==
    IF below = <<>>
      THEN result' = v /\ pc' = "end" /\ stack' = <<>>
      ELSE /\ pc' = "more" /\ UNCHANGED result
           /\ stack' = <<[Head(below) EXCEPT
                            !.value = IF Head(below).type = "object"
                                        THEN Insert(@, Head(below).key, v)
                                        ELSE PushBack(@, v)]>> \o Tail(below)

Open(type, empty, begin) ==
    /\ ValueDue /\ Has(begin) /\ GetToken
    /\ stack' = <<[type |-> type, value |-> empty, key |-> <<>>]>> \o stack
    /\ pc' = "first" /\ UNCHANGED result

Close(type, end) ==
    /\ pc \in {"first", "more"} /\ Top.type = type /\ Has(end) /\ GetToken
    /\ Complete(Top.value, Tail(stack))

(* Mutant: a comma may come before the closing bracket.                    *)
SeparatorLoose ==
    /\ pc \in {"first", "more"} /\ Has("value_separator") /\ GetToken
    /\ pc' = "first" /\ UNCHANGED <<stack, result>>

(* The loops skip a separator at their head, also before the first member. *)
Separator ==
    /\ pc \in {"first", "more"} /\ Has("value_separator") /\ GetToken
    /\ pc' = IF InObject THEN "key" ELSE "value"
    /\ UNCHANGED <<stack, result>>

Key ==
    /\ pc = "key" \/ (pc = "first" /\ InObject)
    /\ Has("value_string") /\ ~Unpaired(Lexeme) /\ GetToken
    /\ stack' = <<[Top EXCEPT !.key = GetString(Lexeme)]>> \o Tail(stack)
    /\ pc' = "colon" /\ UNCHANGED result

Colon ==
    /\ pc = "colon" /\ Has("name_separator") /\ GetToken
    /\ pc' = "value" /\ UNCHANGED <<stack, result>>

Scalar(type, v) == ValueDue /\ Has(type) /\ GetToken /\ Complete(v, stack)

(* get_number: strtod reads a number from m_start, which may not end where *)
(* the token does: a zero before other digits, a point without digits.     *)
Converts ==
    /\ Current # "." \/ \E i \in start .. cursor - 1 : buffer[i] \in {".", "e"}
    /\ Current \in Digit => Lexeme \notin {<<"0">>, <<"-", "0">>}

Accept ==
    /\ pc = "end" /\ Has("end_of_input") /\ pc' = "accepted"
    /\ UNCHANGED <<lexVars, stack, result>>

(* What each place of the parser takes.                                    *)
Expected ==
    CASE pc = "end"   -> {"end_of_input"}
      [] pc = "colon" -> {"name_separator"}
      [] pc = "key"   -> {"value_string"}
      [] pc = "more"  -> {"value_separator", IF InObject THEN "end_object" ELSE "end_array"}
      [] pc = "first" /\ InObject -> {"value_string", "value_separator", "end_object"}
      [] pc = "first" /\ InArray  -> ValueTokens \cup {"value_separator", "end_array"}
      [] OTHER -> ValueTokens

(* expect(), the default of the switch, a number that does not convert and *)
(* get_string throw: the whole text is given up.                           *)
Throw ==
    /\ Running /\ state = "token"
    /\ \/ token \notin Expected
       \/ ValueDue /\ token = "value_number" /\ ~Converts
       \/ token = "value_string" /\ Unpaired(Lexeme)
    /\ pc' = "thrown" /\ UNCHANGED <<lexVars, stack, result>>

Parse ==
    \/ Open("object", EmptyObject, "begin_object") \/ Open("array", EmptyArray, "begin_array")
    \/ Close("object", "end_object") \/ Close("array", "end_array")
    \/ Separator \/ Key \/ Colon
    \/ Scalar("literal_null", Null)
    \/ Scalar("literal_true", Boolean(TRUE)) \/ Scalar("literal_false", Boolean(FALSE))
    \/ Scalar("value_string", String(GetString(Lexeme))) /\ ~Unpaired(Lexeme)
    \/ Scalar("value_number", NumberOf(Printed(Lexeme))) /\ Converts
    \/ Accept \/ Throw

Next == (Scan /\ UNCHANGED <<pc, stack, result>>) \/ Parse

Spec == Init /\ [][Next]_vars

FairSpec == Spec /\ WF_vars(Next)

-----------------------------------------------------------------------------
(* Is every line of a stream worth a read? The scanner asks for one line   *)
(* when it runs short of characters, and takes what it gets.               *)
NoEmptyLine == whole \/ \A i \in 1 .. Len(input.lines) : input.lines[i] # <<>>

(* The scanner does not read past the terminator of its buffer, whatever   *)
(* the text and the lines it comes in: where it looks at two or more       *)
(* characters in a row there are as many (json.hpp:3596-4366).             *)
ReadsWithinBuffer == state \notin {"begin", "token"} => cursor <= Len(buffer) + 1

(* What a text without empty lines says does not depend on how it is cut   *)
(* into lines between its tokens: it is read as the value that was         *)
(* written, be it a document of the server or its configuration, and a     *)
(* text that is cut short is refused (BlackfinServer.cpp:93-99, 494-510).  *)
ReadsWhatWasWritten ==
    NoEmptyLine => /\ pc = "accepted" => result = input.value
                   /\ pc = "thrown" => input.value = Thrown
==============================================================================
