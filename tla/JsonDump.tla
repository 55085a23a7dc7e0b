------------------------------ MODULE JsonDump ------------------------------
(***************************************************************************)
(* basic_json::dump without indentation, which RetrieveCounterData uses to *)
(* write a document: what it writes of a value, given what it writes of    *)
(* the values in it. A dump is a sequence of tokens, each of them a        *)
(* sequence of characters.                                                 *)
(***************************************************************************)
EXTENDS JsonContainer, SequencesExt

(* The other control characters, of which the model has one, U+0001.       *)
Code(c) == <<"0", "0", "0", "1">>

(* escape_string.                                                          *)
EscapeChar(c) ==
    IF c \in DOMAIN EscapeOf THEN <<"backslash", EscapeOf[c]>>
    ELSE IF c = "control" THEN <<"backslash", "u">> \o Code(c) ELSE <<c>>

Escape(s) == FlattenSeq([i \in DOMAIN s |-> EscapeChar(s[i])])
Quoted(s) == <<"quote">> \o Escape(s) \o <<"quote">>

(* The parts one after the other, with a comma between them.               *)
Listed(parts) ==
    FlattenSeq([i \in DOMAIN parts |-> IF i = 1 THEN parts[1] ELSE <<<<",">>>> \o parts[i]])

(* What is written of a value if of is what is written of its members.     *)
DumpBy(v, of) ==
    CASE v.type = "object" ->
           LET keys == Keys(v)
           IN  <<<<"{">>>>
               \o Listed([i \in DOMAIN keys |-> <<Quoted(keys[i]), <<":">>>> \o of[v.members[keys[i]]]])
               \o <<<<"}">>>>
      [] v.type = "array" ->
           <<<<"[">>>> \o Listed([i \in DOMAIN v.elements |-> of[v.elements[i]]]) \o <<<<"]">>>>
      [] v.type = "string"  -> <<Quoted(v.string)>>
      [] v.type = "boolean" -> <<IF v.boolean THEN <<"t", "r", "u", "e">>
                                            ELSE <<"f", "a", "l", "s", "e">>>>
      [] v.type = "number"  -> <<v.number>>
      [] OTHER -> <<<<"n", "u", "l", "l">>>>
=============================================================================
