------------------------------ MODULE JsonLexer ------------------------------
(***************************************************************************)
(* The scanner of json.hpp, with which StartServer reads its configuration *)
(* (BlackfinServer.cpp:93-99): the automaton that re2c generated, state by *)
(* state, and the buffer it works on. A string, as StartServer passes one, *)
(* is in the buffer as a whole. A stream, which the library reads too, is  *)
(* read line by line as the scanner gets near the end of what it has:      *)
(* lines are appended to the buffer without their line breaks.             *)
(*                                                                         *)
(* A letter stands for both its cases, where both mean the same.           *)
(*                                                                         *)
(* Indices stand for the pointers m_start, m_marker, m_cursor and m_limit, *)
(* from 1 at the first character. What yyfill erases before m_start stays  *)
(* in the buffer here: nothing looks at it any more.                       *)
(***************************************************************************)
EXTENDS Integers, Sequences

CONSTANTS
    Chars,    \* characters
    Inputs    \* what is read: [text, lines, ...], as a whole and line by line

ASSUME LexerAssumption ==
    /\ "nul" \notin Chars
    /\ \A i \in Inputs : /\ i.text \in Seq(Chars) /\ i.lines \in Seq(Seq(Chars))
                        /\ i.lines # <<>>

VARIABLES
    input, whole,    \* what is read, and is it a string, not a stream?
    buffer, unread,  \* m_buffer; lines of the stream yyfill has yet to get
    failed,          \* no stream, or getline has failed
    start, marker, cursor, limit,
    state,           \* label of the automaton, "begin" or "token"
    token,           \* token_type, as returned by scan
    scanned          \* history: the tokens returned

given    == <<input, whole>>
source   == <<buffer, unread, failed, limit>>
lexVars  == <<given, source, start, marker, cursor, state, token, scanned>>

NUL == "nul"   \* the terminator of the buffer
Digit == {"0", "1", "2", "3", "4", "5", "6", "7", "8", "9"}
Hex   == Digit \cup {"a", "b", "c", "d", "e", "f"}

(* Mutant: the terminator of the buffer is taken for white space.          *)
BlankWide == {"space", "tab", "return", "newline", NUL}

Blank == {"space", "tab", "return", "newline"}

Escapable == {"quote", "backslash", "/", "b", "f", "n", "r", "t"}

Punctuation ==
    [c \in {"[", "]", "{", "}", ":", ","} |->
        CASE c = "[" -> "begin_array"    [] c = "]" -> "end_array"
          [] c = "{" -> "begin_object"   [] c = "}" -> "end_object"
          [] c = ":" -> "name_separator" [] c = "," -> "value_separator"]
Literal ==
    [c \in {"n", "t", "f"} |->
        CASE c = "n" -> [word |-> <<"n", "u", "l", "l">>, type |-> "literal_null"]
          [] c = "t" -> [word |-> <<"t", "r", "u", "e">>, type |-> "literal_true"]
          [] c = "f" -> [word |-> <<"f", "a", "l", "s", "e">>, type |-> "literal_false"]]

TokenType ==
    {"literal_null", "literal_true", "literal_false", "value_string",
     "value_number", "begin_array", "end_array", "begin_object", "end_object",
     "name_separator", "value_separator", "parse_error", "end_of_input"}
Space == {"space", "white"}
Accepting == {"digit", "zero", "int", "frac", "exp"}   \* a number may end here
HalfNumber == {"point", "e", "sign"}   \* beyond the last place where it could
State ==
    {"begin", "scan", "literal", "minus", "string", "escape",
     "hex1", "hex2", "hex3", "hex4", "token", "first"}
        \cup Space \cup Accepting \cup HalfNumber

(* Characters that a state wants in the buffer when it is entered.         *)
Need(s) == CASE s = "scan" -> 5 [] s \in {"int", "frac"} -> 3
             [] s \in {"white", "string", "escape", "hex1", "hex2", "hex3", "hex4", "exp"} -> 1
             [] OTHER -> 0

Char(i) == IF i \in 1 .. Len(buffer) THEN buffer[i] ELSE NUL
Current == Char(cursor)

NextHex == [s \in {"hex1", "hex2", "hex3", "hex4"} |->
               CASE s = "hex1" -> "hex2" [] s = "hex2" -> "hex3"
                 [] s = "hex3" -> "hex4" [] s = "hex4" -> "string"]

(* Does the current character go on with the number read so far?           *)
Continues ==
    \/ Current \in Digit /\ state # "zero"
    \/ Current = "." /\ state \in {"digit", "int", "zero"}
    \/ Current = "e" /\ state # "exp"

(* yyfill, when fewer than need characters are left from at: one line of   *)
(* the stream, whatever its length, and a limit on its last character.     *)
Refill(need, at) ==
    IF failed \/ limit - at >= need THEN UNCHANGED source
    ELSE /\ IF unread = <<>>
              THEN failed' = TRUE /\ UNCHANGED <<buffer, unread>>
              ELSE /\ buffer' = buffer \o Head(unread) /\ unread' = Tail(unread)
                   /\ UNCHANGED failed
         /\ limit' = Len(buffer')

(* The two constructors of the scanner: the lines of a stream come one by  *)
(* one, a string is in the buffer with its line breaks.                     *)
LexInit ==
    /\ input \in Inputs /\ whole \in BOOLEAN
    /\ IF whole
         THEN buffer = input.text /\ unread = <<>>
         ELSE buffer = Head(input.lines) /\ unread = Tail(input.lines)
    /\ failed = whole /\ limit = Len(buffer) + 1
    /\ start = 1 /\ marker = 0 /\ cursor = 1
    /\ state = "begin" /\ token = "end_of_input" /\ scanned = <<>>

-----------------------------------------------------------------------------
(* scan(), called by the parser, or again after white space.               *)
Begin ==
    /\ state = "begin" \/ (state \in Space /\ Current \notin Blank)
    /\ start' = cursor /\ marker' = 0 /\ state' = "scan"
    /\ Refill(Need("scan"), cursor)
    /\ UNCHANGED <<given, cursor, token, scanned>>

(* ++m_cursor and on to another state, with more characters if it needs.   *)
Advance(s) ==
    /\ cursor' = cursor + 1 /\ state' = s
    /\ Refill(Need(s), cursor + 1)
    /\ UNCHANGED <<given, start, token, scanned>>

To(s)   == Advance(s) /\ UNCHANGED marker
Mark(s) == Advance(s) /\ marker' = cursor + 1

(* A token ends before at.                                                 *)
Return(type, at) ==
    /\ cursor' = at /\ state' = "token" /\ token' = type
    /\ scanned' = Append(scanned, type)
    /\ UNCHANGED <<given, source, start, marker>>

(* The first character of a token.                                         *)
First ==
    /\ state = "scan"
    /\ \/ Current \in Blank \ {"newline"} /\ To("space")
       \/ Current = "newline" /\ To("white")
       \/ Current = NUL /\ Return("end_of_input", cursor + 1)
       \/ Current \in DOMAIN Punctuation /\ Return(Punctuation[Current], cursor + 1)
       \/ Current \in DOMAIN Literal /\ Mark("literal")
       \/ Current = "-" /\ To("minus")
       \/ Current = "0" /\ Mark("zero")
       \/ Current \in Digit \ {"0"} /\ Mark("digit")
       \/ Current = "quote" /\ Mark("first")
       \/ /\ Current \notin Blank \cup DOMAIN Punctuation \cup DOMAIN Literal
                              \cup Digit \cup {NUL, "-", "quote"}
          /\ Return("parse_error", cursor + 1)

(* Mutant: white space is not skipped.                                     *)
WhiteStay == state \in Space /\ Current \in Blank /\ UNCHANGED lexVars

White == state \in Space /\ Current \in Blank /\ To("white")

(* The rest of null, true and false. They need no more characters: five    *)
(* have been asked for.                                                    *)
Word ==
    /\ state = "literal"
    /\ LET l == Literal[Char(start)]
           n == cursor - start + 1
       IN  IF Current # l.word[n] THEN Return("parse_error", marker)
           ELSE IF n = Len(l.word) THEN Return(l.type, cursor + 1) ELSE To("literal")

(* The end of the buffer inside a string goes back to its first quote.     *)
InString ==
    /\ state \in {"first", "string"}
    /\ \/ Current = "quote" /\ Return("value_string", cursor + 1)
       \/ Current = "backslash" /\ To("escape")
       \/ Current = NUL /\ Return("parse_error", marker)
       \/ Current \notin {"quote", "backslash", NUL} /\ To("string")

InEscape ==
    /\ state = "escape"
    /\ \/ Current \in Escapable /\ To("string")
       \/ Current = "u" /\ To("hex1")
       \/ Current \notin Escapable \cup {"u"} /\ Return("parse_error", marker)

InHex ==
    /\ state \in DOMAIN NextHex
    /\ \/ Current \in Hex /\ To(NextHex[state])
       \/ Current \notin Hex /\ Return("parse_error", marker)

Minus ==
    /\ state = "minus"
    /\ \/ Current = "0" /\ Mark("zero")
       \/ Current \in Digit \ {"0"} /\ Mark("int")
       \/ Current \notin Digit /\ Return("parse_error", cursor)

(* A number ends before the first character that does not go on with it.   *)
InNumber ==
    /\ state \in Accepting
    /\ \/ Current \in Digit /\ state \in {"digit", "int"} /\ Mark("int")
       \/ Current \in Digit /\ state = "frac" /\ Mark("frac")
       \/ Current \in Digit /\ state = "exp" /\ To("exp")
       \/ Current = "." /\ state \in {"digit", "int", "zero"} /\ To("point")
       \/ Current = "e" /\ state # "exp" /\ To("e")
       \/ ~Continues /\ Return("value_number", cursor)

(* A point or an exponent without digits goes back to where it could end.  *)
InHalfNumber ==
    /\ state \in HalfNumber
    /\ \/ Current \in Digit /\ state = "point" /\ Mark("frac")
       \/ Current \in Digit /\ state # "point" /\ To("exp")
       \/ Current \in {"+", "-"} /\ state = "e" /\ To("sign")
       \/ /\ Current \notin Digit /\ ~(Current \in {"+", "-"} /\ state = "e")
          /\ Return("value_number", marker)

Text   == InString \/ InEscape \/ InHex
Number == Minus \/ InNumber \/ InHalfNumber
Scan == Begin \/ First \/ White \/ Word \/ Text \/ Number
==============================================================================
