------------------------------ MODULE JsonProofs ------------------------------
(***************************************************************************)
(* The scanner stays in its buffer, for any texts, any lines they come in  *)
(* and any parser states: it moves on only from a character that is there, *)
(* and the parser asks for nothing after the end of the input. A walk over *)
(* a value meets all of it, for any values: the keys of an object have an  *)
(* order, in which one that is erased leaves the rest where it was. The    *)
(* blocks of a value are counted by one level at a time, and so are two    *)
(* values compared, which orders them all by induction over their blocks.  *)
(***************************************************************************)
EXTENDS JsonOrder, FiniteSetTheorems, WellFoundedInduction, TLAPS

WithLimits ==
    /\ buffer \in Seq(Chars) /\ unread \in Seq(Seq(Chars))
    /\ start \in Nat /\ marker \in Nat /\ cursor \in Nat

(* Behind the end of the input the cursor is one further, and stays there. *)
CursorInv ==
    /\ (state = "token" /\ token = "end_of_input") \/ cursor <= Len(buffer) + 1
    /\ marker <= Len(buffer) + 1
    /\ state = "scan" => start = cursor

(* As far as it has been read, a literal is what its first letter says.    *)
LiteralInv ==
    state = "literal" =>
      /\ start \in 1 .. Len(buffer) /\ buffer[start] \in DOMAIN Literal
      /\ cursor - start + 1 \in 2 .. Len(Literal[buffer[start]].word)

LexInv == WithLimits /\ CursorInv /\ LiteralInv

-----------------------------------------------------------------------------
(* The terminator is none of the characters the automaton moves on from.   *)
LEMMA CharHere ==
  ASSUME NEW i \in Nat, Char(i) # NUL PROVE i \in 1 .. Len(buffer) /\ Char(i) = buffer[i]
  BY DEF Char

LEMMA Words ==
  ASSUME NEW c \in DOMAIN Literal
  PROVE  /\ Literal[c].word \in Seq({"n", "u", "l", "t", "r", "e", "f", "a", "s"})
         /\ Len(Literal[c].word) \in {4, 5}
<1>1. c \in {"n", "t", "f"}
  BY DEF Literal
<1>2. CASE c = "n"
  <2>1. Literal[c].word = <<"n", "u", "l", "l">>
    BY <1>2 DEF Literal
  <2> QED
    BY <2>1
<1>3. CASE c = "t"
  <2>1. Literal[c].word = <<"t", "r", "u", "e">>
    BY <1>3 DEF Literal
  <2> QED
    BY <2>1
<1>4. CASE c = "f"
  <2>1. Literal[c].word = <<"f", "a", "l", "s", "e">>
    BY <1>4 DEF Literal
  <2> QED
    BY <2>1
<1> QED
  BY <1>1, <1>2, <1>3, <1>4

(* yyfill only adds to the buffer.                                         *)
LEMMA RefillAdds ==
  ASSUME WithLimits, NEW need, NEW p \in Nat, Refill(need, p)
  PROVE  /\ buffer' \in Seq(Chars) /\ unread' \in Seq(Seq(Chars))
         /\ Len(buffer') >= Len(buffer)
         /\ \A i \in 1 .. Len(buffer) : buffer'[i] = buffer[i]
<1>1. CASE UNCHANGED source
  BY <1>1 DEF WithLimits, source
<1>2. CASE UNCHANGED <<buffer, unread>>
  BY <1>2 DEF WithLimits
<1>3. CASE unread # <<>> /\ buffer' = buffer \o Head(unread) /\ unread' = Tail(unread)
  <2>1. Head(unread) \in Seq(Chars) /\ Tail(unread) \in Seq(Seq(Chars))
    BY <1>3 DEF WithLimits
  <2> QED
    BY <1>3, <2>1 DEF WithLimits
<1> QED
  BY <1>1, <1>2, <1>3 DEF Refill

(* One character on, from a character that is there.                       *)
LEMMA AdvanceStep ==
  ASSUME LexInv, NEW s, Advance(s), Current # NUL, s \notin {"literal", "token", "scan"},
         marker' \in {marker, cursor + 1}
  PROVE  LexInv'
<1>1. cursor \in 1 .. Len(buffer)
  BY CharHere DEF LexInv, WithLimits, Current
<1>2. WithLimits' /\ Len(buffer') >= Len(buffer)
  BY RefillAdds DEF LexInv, WithLimits, Advance
<1> QED
  BY <1>1, <1>2 DEF LexInv, WithLimits, CursorInv, LiteralInv, Advance

(* The end of a token.                                                     *)
LEMMA ReturnStep ==
  ASSUME LexInv, NEW type, NEW n \in Nat, Return(type, n),
         type = "end_of_input" \/ n <= Len(buffer) + 1
  PROVE  LexInv'
  BY DEF LexInv, WithLimits, CursorInv, LiteralInv, Return, source

LEMMA BeginStep == ASSUME LexInv, Begin PROVE LexInv'
<1>1. cursor <= Len(buffer) + 1
  BY DEF LexInv, CursorInv, Begin, Space
<1>2. /\ WithLimits' /\ Len(buffer') >= Len(buffer)
      /\ cursor' = cursor /\ start' = cursor /\ marker' = 0 /\ state' = "scan"
  BY RefillAdds DEF LexInv, WithLimits, Begin
<1> QED
  BY <1>1, <1>2 DEF LexInv, WithLimits, CursorInv, LiteralInv

LEMMA FirstStep == ASSUME LexInv, First PROVE LexInv'
<1> DEFINE Moves == \/ Current \in Blank \ {"newline"} /\ To("space")
                    \/ Current = "newline" /\ To("white")
                    \/ Current = "-" /\ To("minus")
                    \/ Current = "0" /\ Mark("zero")
                    \/ Current \in Digit \ {"0"} /\ Mark("digit")
                    \/ Current = "quote" /\ Mark("first")
           Ends   == Current = NUL /\ Return("end_of_input", cursor + 1)
           Brief  == Current \in DOMAIN Punctuation /\ Return(Punctuation[Current], cursor + 1)
           Spells == Current \in DOMAIN Literal /\ Mark("literal")
           Wrong  == Current # NUL /\ Return("parse_error", cursor + 1)
<1>1. Moves \/ Ends \/ Brief \/ Spells \/ Wrong
  BY DEF First
<1>2. cursor \in Nat /\ cursor + 1 \in Nat /\ state = "scan"
  BY DEF LexInv, WithLimits, First
<1>3. ASSUME Current # NUL PROVE cursor \in 1 .. Len(buffer) /\ Current = buffer[cursor]
  BY <1>3, CharHere DEF LexInv, WithLimits, Current
<1>4. CASE Moves
  BY <1>4, AdvanceStep DEF To, Mark, Blank, Digit, NUL
<1>5. CASE Ends
  BY <1>2, <1>5, ReturnStep
<1>6. CASE Brief
  <2>1. Current \in {"[", "]", "{", "}", ":", ","}
    BY <1>6 DEF Punctuation
  <2>2. Current # NUL
    BY <2>1 DEF NUL
  <2> QED
    BY <1>2, <1>3, <1>6, <2>2, ReturnStep
<1>7. CASE Spells
  <2>1. Current # NUL
    BY <1>7 DEF Literal, NUL
  <2>2. cursor \in 1 .. Len(buffer) /\ Current = buffer[cursor]
    BY <1>3, <2>1
  <2>3. /\ WithLimits' /\ Len(buffer') >= Len(buffer)
        /\ \A i \in 1 .. Len(buffer) : buffer'[i] = buffer[i]
        /\ cursor' = cursor + 1 /\ marker' = cursor + 1 /\ state' = "literal" /\ start' = start
    BY <1>7, RefillAdds DEF LexInv, WithLimits, Mark, Advance
  <2>4. start = cursor
    BY <1>2 DEF LexInv, CursorInv
  <2>5. start' \in 1 .. Len(buffer') /\ buffer'[start'] = Current /\ cursor' - start' + 1 = 2
    BY <2>2, <2>3, <2>4 DEF WithLimits
  <2>6. Len(Literal[Current].word) \in {4, 5}
    BY <1>7, Words
  <2>7. LiteralInv'
    <3>1. 2 \in 2 .. Len(Literal[Current].word)
      BY <2>6
    <3>2. buffer'[start'] \in DOMAIN Literal
      BY <1>7, <2>5
    <3> QED
      BY <2>5, <3>1, <3>2 DEF LiteralInv
  <2> QED
    BY <2>2, <2>3, <2>7 DEF LexInv, WithLimits, CursorInv
<1>8. CASE Wrong
  BY <1>2, <1>3, <1>8, ReturnStep
<1> HIDE DEF Moves, Ends, Brief, Spells, Wrong
<1> QED
  BY <1>1, <1>4, <1>5, <1>6, <1>7, <1>8

(* A literal goes on while the characters are those of its word.           *)
LEMMA WordStep == ASSUME LexInv, Word PROVE LexInv'
<1> DEFINE word == Literal[Char(start)].word
           n == cursor - start + 1
<1>1. /\ state = "literal" /\ start \in 1 .. Len(buffer) /\ Char(start) = buffer[start]
      /\ buffer[start] \in DOMAIN Literal /\ n \in 2 .. Len(word)
      /\ cursor \in Nat /\ marker \in Nat
  BY DEF LexInv, LiteralInv, WithLimits, Word, Char
<1>2. word \in Seq({"n", "u", "l", "t", "r", "e", "f", "a", "s"}) /\ Len(word) \in {4, 5}
  BY <1>1, Words
<1>3. word[n] # NUL
  BY <1>1, <1>2 DEF NUL
<1> HIDE DEF word, n
<1>4. \/ Return("parse_error", marker)
      \/ Current = word[n] /\ n = Len(word) /\ Return(Literal[Char(start)].type, cursor + 1)
      \/ Current = word[n] /\ n # Len(word) /\ To("literal")
  BY DEF Word, word, n
<1>5. CASE Return("parse_error", marker)
  BY <1>1, <1>5, ReturnStep DEF LexInv, CursorInv
<1>6. ASSUME Current = word[n] PROVE cursor \in 1 .. Len(buffer)
  BY <1>1, <1>3, <1>6, CharHere DEF Current
<1>7. CASE Current = word[n] /\ Return(Literal[Char(start)].type, cursor + 1)
  BY <1>1, <1>6, <1>7, ReturnStep
<1>8. CASE Current = word[n] /\ n # Len(word) /\ To("literal")
  <2>1. /\ WithLimits' /\ Len(buffer') >= Len(buffer)
        /\ \A i \in 1 .. Len(buffer) : buffer'[i] = buffer[i]
        /\ cursor' = cursor + 1 /\ marker' = marker /\ state' = "literal" /\ start' = start
    BY <1>1, <1>8, RefillAdds DEF LexInv, WithLimits, To, Advance
  <2>2. start' \in 1 .. Len(buffer') /\ buffer'[start'] = buffer[start]
    BY <1>1, <2>1 DEF WithLimits
  <2>3. cursor' - start' + 1 \in 2 .. Len(word)
    <3>1. n + 1 \in 2 .. Len(word)
      BY <1>1, <1>2, <1>8
    <3>2. cursor' - start' + 1 = n + 1
      BY <1>1, <2>1 DEF n
    <3> QED
      BY <3>1, <3>2
  <2>4. LiteralInv'
    BY <1>1, <2>2, <2>3 DEF LiteralInv, word
  <2> QED
    BY <1>6, <1>8, <2>1, <2>4 DEF LexInv, WithLimits, CursorInv
<1> QED
  BY <1>4, <1>5, <1>7, <1>8

(* Strings and numbers go on, or go back to the marker.                    *)
LEMMA TextStep == ASSUME LexInv, Text PROVE LexInv'
<1>1. cursor \in Nat /\ marker \in Nat /\ marker <= Len(buffer) + 1
  BY DEF LexInv, WithLimits, CursorInv
<1>2. ASSUME Current # NUL PROVE cursor + 1 \in Nat /\ cursor + 1 <= Len(buffer) + 1
  BY <1>1, <1>2, CharHere DEF LexInv, WithLimits, Current
<1>3. CASE InString
  <2>1. CASE Current = "quote" /\ Return("value_string", cursor + 1)
    BY <1>2, <2>1, ReturnStep DEF NUL
  <2>2. CASE Return("parse_error", marker)
    BY <1>1, <2>2, ReturnStep
  <2>3. CASE Current # NUL /\ (To("escape") \/ To("string"))
    BY <2>3, AdvanceStep DEF To
  <2> QED
    BY <1>3, <2>1, <2>2, <2>3 DEF InString, NUL
<1>4. CASE InEscape
  <2>1. CASE Return("parse_error", marker)
    BY <1>1, <2>1, ReturnStep
  <2>2. CASE Current # NUL /\ (To("string") \/ To("hex1"))
    BY <2>2, AdvanceStep DEF To
  <2> QED
    BY <1>4, <2>1, <2>2 DEF InEscape, Escapable, NUL
<1>5. CASE InHex
  <2>1. CASE Return("parse_error", marker)
    BY <1>1, <2>1, ReturnStep
  <2>2. CASE Current \in Hex /\ To(NextHex[state])
    <3>1. NextHex[state] \notin {"literal", "token", "scan"}
      BY <1>5 DEF InHex, NextHex
    <3>2. Current # NUL
      BY <2>2 DEF Hex, Digit, NUL
    <3> QED
      BY <2>2, <3>1, <3>2, AdvanceStep DEF To
  <2> QED
    BY <1>5, <2>1, <2>2 DEF InHex
<1> QED
  BY <1>3, <1>4, <1>5 DEF Text
LEMMA NumberStep == ASSUME LexInv, Number PROVE LexInv'
<1>1. /\ cursor \in Nat /\ marker \in Nat /\ marker <= Len(buffer) + 1
      /\ state # "token" => cursor <= Len(buffer) + 1
  BY DEF LexInv, WithLimits, CursorInv
<1>2. ASSUME Current \in Digit PROVE Current # NUL
  BY <1>2 DEF Digit, NUL
<1>3. state # "token"
  BY DEF Number, Minus, InNumber, InHalfNumber, Accepting, HalfNumber
<1>4. ASSUME NEW n \in {cursor, marker}, NEW type, Return(type, n) PROVE LexInv'
  BY <1>1, <1>3, <1>4, ReturnStep
<1>5. ASSUME Current # NUL,
             NEW s \in {"zero", "int", "frac", "exp", "point", "e", "sign"}, To(s) \/ Mark(s)
      PROVE  LexInv'
  BY <1>5, AdvanceStep DEF To, Mark
<1>6. CASE Minus
  <2>1. \/ Current # NUL /\ (Mark("zero") \/ Mark("int"))
        \/ Return("parse_error", cursor)
    BY <1>2, <1>6 DEF Minus, NUL
  <2> QED
    BY <1>4, <1>5, <2>1
<1>7. CASE InNumber
  <2>1. \/ Current # NUL /\ (Mark("int") \/ Mark("frac") \/ To("exp") \/ To("point") \/ To("e"))
        \/ Return("value_number", cursor)
    BY <1>2, <1>7 DEF InNumber, NUL
  <2> QED
    BY <1>4, <1>5, <2>1
<1>8. CASE InHalfNumber
  <2>1. \/ Current # NUL /\ (Mark("frac") \/ To("exp") \/ To("sign"))
        \/ Return("value_number", marker)
    BY <1>2, <1>8 DEF InHalfNumber, NUL
  <2> QED
    BY <1>4, <1>5, <2>1
<1> QED
  BY <1>6, <1>7, <1>8 DEF Number

LEMMA WhiteStep == ASSUME LexInv, White PROVE LexInv'
  BY AdvanceStep DEF White, To, Blank, NUL

(* The parser asks for a token after one that is not the last.             *)
LEMMA ParseStep == ASSUME LexInv, Parse PROVE LexInv'
<1>1. CASE UNCHANGED lexVars
  BY <1>1 DEF lexVars, given, source, LexInv, WithLimits, CursorInv, LiteralInv
<1>2. CASE state = "token" /\ token # "end_of_input" /\ GetToken
  BY <1>2 DEF GetToken, given, source, LexInv, WithLimits, CursorInv, LiteralInv
<1> QED
  BY <1>1, <1>2 DEF Parse, Open, Close, Separator, Key, Colon, Scalar, Accept, Throw, Has

LEMMA LexStep == LexInv /\ [Next]_vars => LexInv'
<1> SUFFICES ASSUME LexInv, [Next]_vars PROVE LexInv'
  OBVIOUS
<1>1. CASE UNCHANGED vars
  BY <1>1 DEF vars, lexVars, given, source, LexInv, WithLimits, CursorInv, LiteralInv
<1> QED
  BY <1>1, BeginStep, FirstStep, WhiteStep, WordStep, TextStep, NumberStep, ParseStep
     DEF Next, Scan

LEMMA LexInitial == Init => LexInv
<1> SUFFICES ASSUME Init PROVE LexInv
  OBVIOUS
<1>1. input.text \in Seq(Chars) /\ input.lines \in Seq(Seq(Chars)) /\ input.lines # <<>>
  BY LexerAssumption DEF Init, LexInit
<1>2. buffer \in Seq(Chars) /\ unread \in Seq(Seq(Chars))
  <2>1. CASE whole
    BY <1>1, <2>1 DEF Init, LexInit
  <2>2. CASE ~whole
    <3>1. Head(input.lines) \in Seq(Chars) /\ Tail(input.lines) \in Seq(Seq(Chars))
      BY <1>1
    <3>2. buffer = Head(input.lines) /\ unread = Tail(input.lines)
      BY <2>2 DEF Init, LexInit
    <3> QED
      BY <3>1, <3>2
  <2> QED
    BY <2>1, <2>2
<1>3. start = 1 /\ marker = 0 /\ cursor = 1 /\ state = "begin"
  BY DEF Init, LexInit
<1> QED
  BY <1>2, <1>3 DEF LexInv, WithLimits, CursorInv, LiteralInv

-----------------------------------------------------------------------------
(* The scanner is in a state of its automaton, and the parser in one of    *)
(* its places.                                                             *)
Places == {"value", "first", "key", "colon", "more", "end", "accepted", "thrown"}
ReaderTypes == state \in State /\ token \in TokenType /\ pc \in Places

LEMMA TokenTypes ==
  /\ \A c \in DOMAIN Punctuation : Punctuation[c] \in TokenType
  /\ \A c \in DOMAIN Literal : Literal[c].type \in TokenType
<1>1. \A c \in DOMAIN Punctuation : Punctuation[c] \in TokenType
  BY DEF Punctuation, TokenType
<1>2. \A c \in DOMAIN Literal : Literal[c].type \in TokenType
  BY DEF Literal, TokenType
<1> QED
  BY <1>1, <1>2

(* A step of the scanner goes to a state that the automaton has.           *)
LEMMA ScanTypes == ASSUME LexInv, ReaderTypes, Scan PROVE state' \in State /\ token' \in TokenType
<1>1. CASE Begin
  BY <1>1 DEF Begin, ReaderTypes, State
<1>2. CASE First
  BY <1>2, TokenTypes DEF First, To, Mark, Advance, Return, ReaderTypes, State, TokenType, Accepting, Space
<1>3. CASE White
  BY <1>3 DEF White, To, Advance, ReaderTypes, State, Space
<1>4. CASE Word
  <2>1. Char(start) \in DOMAIN Literal
    BY <1>4 DEF LexInv, LiteralInv, Char, Word
  <2>2. \/ \E n : Return("parse_error", n)
        \/ \E n : Return(Literal[Char(start)].type, n)
        \/ To("literal")
    BY <1>4 DEF Word
  <2> QED
    BY <2>1, <2>2, TokenTypes DEF To, Advance, Return, ReaderTypes, State, TokenType
<1>5. CASE Text
  BY <1>5 DEF Text, InString, InEscape, InHex, NextHex, To, Advance, Return, ReaderTypes, State, TokenType
<1>6. CASE Number
  BY <1>6 DEF Number, Minus, InNumber, InHalfNumber, To, Mark, Advance, Return, ReaderTypes,
              State, TokenType, Accepting, HalfNumber
<1> QED
  BY <1>1, <1>2, <1>3, <1>4, <1>5, <1>6 DEF Scan

LEMMA ParseTypes == ASSUME ReaderTypes, Parse PROVE ReaderTypes'
<1>1. (UNCHANGED lexVars \/ GetToken) /\ pc' \in Places
  BY DEF Parse, Open, Close, Separator, Key, Colon, Scalar, Accept, Throw, Complete, Places
<1> QED
  BY <1>1 DEF GetToken, lexVars, ReaderTypes, State

(* The reader keeps its types: whatever it reads, the scanner is in a      *)
(* state of its automaton and returns one of its tokens, and the parser is *)
(* in one of its places (json.hpp:3449-3465, 3781-4366, 4605-4801).        *)
THEOREM ReaderTypeCorrectness == Spec => []TypeOK
<1>1. Init => LexInv /\ ReaderTypes
  BY LexInitial DEF Init, LexInit, ReaderTypes, Places, State, TokenType
<1>2. LexInv /\ ReaderTypes /\ [Next]_vars => (LexInv /\ ReaderTypes)'
  <2> SUFFICES ASSUME LexInv, ReaderTypes, [Next]_vars PROVE ReaderTypes'
    BY LexStep
  <2>1. CASE Scan /\ UNCHANGED <<pc, stack, result>>
    BY <2>1, ScanTypes DEF ReaderTypes
  <2>2. CASE UNCHANGED vars
    BY <2>2 DEF vars, lexVars, ReaderTypes
  <2> QED
    BY <2>1, <2>2, ParseTypes DEF Next
<1>3. LexInv /\ ReaderTypes => TypeOK
  BY DEF LexInv, WithLimits, ReaderTypes, Places, TypeOK
<1> QED
  BY <1>1, <1>2, <1>3, PTL DEF Spec

(* Whatever it is given to read, the scanner never looks beyond the        *)
(* terminator of its buffer: no state of the generated automaton goes on   *)
(* from the terminator, and none needs yyfill to have found more           *)
(* characters (json.hpp:3596-4366).                                        *)
THEOREM ScannerStaysInBuffer == Spec => []ReadsWithinBuffer
<1>1. LexInv => ReadsWithinBuffer
  BY DEF LexInv, CursorInv, ReadsWithinBuffer
<1> QED
  BY LexInitial, LexStep, <1>1, PTL DEF Spec

-----------------------------------------------------------------------------
(* The order of the keys of an object.                                     *)
DiffersAt(s, t, i) ==
    /\ i \in 1 .. Len(s) /\ i \in 1 .. Len(t) /\ Place[s[i]] < Place[t[i]]
    /\ \A j \in 1 .. i - 1 : s[j] = t[j]
Begins(s, t) == Len(s) < Len(t) /\ \A i \in 1 .. Len(s) : s[i] = t[i]

(* Strings that are neither less are the same as far as both go.           *)
LEMMA StringLessMeans ==
  ASSUME NEW s \in Strings, NEW t \in Strings
  PROVE  StringLess(s, t) <=> Begins(s, t) \/ \E i \in 1 .. Len(s) : DiffersAt(s, t, i)
<1> DEFINE Lt(c, d) == Place[c] < Place[d]
           Same(i) == ~Lt(s[i], t[i]) /\ ~Lt(t[i], s[i])
<1>1. /\ DOMAIN s = 1 .. Len(s) /\ DOMAIN t = 1 .. Len(t) /\ Len(s) \in Nat /\ Len(t) \in Nat
      /\ \A i \in 1 .. Len(s) : s[i] \in DOMAIN Place
      /\ \A i \in 1 .. Len(t) : t[i] \in DOMAIN Place
  BY DEF Strings
<1>2. ASSUME NEW i \in 1 .. Len(s), i \in 1 .. Len(t)
      PROVE  Same(i) <=> s[i] = t[i]
  BY <1>1, <1>2, PlaceAssumption
<1>3. StringLess(s, t) <=>
         \/ \E i \in DOMAIN s \cap DOMAIN t : Lt(s[i], t[i]) /\ \A j \in 1 .. i - 1 : Same(j)
         \/ Len(s) < Len(t) /\ \A i \in DOMAIN s : Same(i)
  BY DEF StringLess, Lexicographic
<1> HIDE DEF Same
<1>4. (Len(s) < Len(t) /\ \A i \in DOMAIN s : Same(i)) <=> Begins(s, t)
  BY <1>1, <1>2 DEF Begins
<1>5. ASSUME NEW i \in 1 .. Len(s), i \in 1 .. Len(t)
      PROVE  (Lt(s[i], t[i]) /\ \A j \in 1 .. i - 1 : Same(j)) <=> DiffersAt(s, t, i)
  <2>1. \A j \in 1 .. i - 1 : j \in 1 .. Len(s) /\ j \in 1 .. Len(t)
    BY <1>1, <1>5
  <2> QED
    BY <1>2, <1>5, <2>1 DEF DiffersAt
<1>6. (\E i \in DOMAIN s \cap DOMAIN t : Lt(s[i], t[i]) /\ \A j \in 1 .. i - 1 : Same(j))
        <=> \E i \in 1 .. Len(s) : DiffersAt(s, t, i)
  <2>1. \A i : DiffersAt(s, t, i) => i \in 1 .. Len(s) /\ i \in 1 .. Len(t)
    BY DEF DiffersAt
  <2> HIDE DEF Lt
  <2> QED
    BY <1>1, <1>5, <2>1
<1> QED
  BY <1>3, <1>4, <1>6

(* A set of numbers has a least one.                                       *)
LEMMA LeastNumber ==
  ASSUME NEW D \in SUBSET Nat, D # {}
  PROVE  \E d \in D : \A e \in D : d <= e
<1> DEFINE less == OpToRel(<, Nat)
<1>1. \E d \in D : \A e \in D : ~(<<e, d>> \in less)
  BY WFMin, NatLessThanWellFounded
<1>2. ASSUME NEW d \in Nat, NEW e \in Nat, e < d PROVE <<e, d>> \in less
  <2> DEFINE p == <<e, d>>
  <2>1. p \in Nat \X Nat /\ p[1] < p[2]
    BY <1>2
  <2> HIDE DEF p
  <2>2. p \in less
    BY <2>1, Zenon DEF OpToRel
  <2> QED
    BY <2>2 DEF p
<1> HIDE DEF less
<1>3. PICK d \in D : \A e \in D : ~(<<e, d>> \in less)
  BY <1>1
<1>4. ASSUME NEW e \in D PROVE d <= e
  <2>1. d \in Nat /\ e \in Nat
    OBVIOUS
  <2>2. ~(e < d)
    BY <1>2, <1>3, <2>1
  <2> QED
    BY <2>1, <2>2
<1> QED
  BY <1>4

(* No string is less than itself.                                          *)
LEMMA StringLessIrreflexive == ASSUME NEW s \in Strings PROVE ~StringLess(s, s)
<1>1. ~Begins(s, s)
  BY DEF Begins, Strings
<1>2. ASSUME NEW i \in 1 .. Len(s) PROVE ~DiffersAt(s, s, i)
  <2>1. s[i] \in DOMAIN Place
    BY DEF Strings
  <2> QED
    BY <2>1, PlaceAssumption DEF DiffersAt
<1> QED
  BY <1>1, <1>2, StringLessMeans

(* Of two different strings one is less.                                   *)
LEMMA StringLessTotal ==
  ASSUME NEW s \in Strings, NEW t \in Strings, s # t
  PROVE  StringLess(s, t) \/ StringLess(t, s)
<1> DEFINE apart == {i \in Nat : i \in 1 .. Len(s) /\ i \in 1 .. Len(t) /\ s[i] # t[i]}
<1>1. Len(s) \in Nat /\ Len(t) \in Nat /\ DOMAIN s = 1 .. Len(s) /\ DOMAIN t = 1 .. Len(t)
  BY DEF Strings
<1>4. \A i : /\ i \in 1 .. Len(s) /\ DiffersAt(s, t, i) => StringLess(s, t)
             /\ i \in 1 .. Len(t) /\ DiffersAt(t, s, i) => StringLess(t, s)
  BY StringLessMeans
<1>2. CASE apart # {}
  <2>1. PICK i \in apart : \A k \in apart : i <= k
    <3>1. apart \in SUBSET Nat
      OBVIOUS
    <3> HIDE DEF apart
    <3> QED
      BY <1>2, <3>1, LeastNumber
  <2>2. i \in 1 .. Len(s) /\ i \in 1 .. Len(t) /\ s[i] # t[i] /\ i \in Nat
    OBVIOUS
  <2>3. ASSUME NEW j \in 1 .. i - 1 PROVE s[j] = t[j]
    <3>1. j \in Nat /\ j \in 1 .. Len(s) /\ j \in 1 .. Len(t) /\ ~(i <= j)
      BY <1>1, <2>2
    <3>2. j \notin apart
      BY <2>1, <3>1
    <3> QED
      BY <3>1, <3>2
  <2>4. s[i] \in DOMAIN Place /\ t[i] \in DOMAIN Place
    BY <2>2 DEF Strings
  <2>5. Place[s[i]] < Place[t[i]] \/ Place[t[i]] < Place[s[i]]
    BY <2>2, <2>4, PlaceAssumption
  <2>6. DiffersAt(s, t, i) \/ DiffersAt(t, s, i)
    BY <2>2, <2>3, <2>5 DEF DiffersAt
  <2> QED
    BY <1>4, <2>2, <2>6
<1>3. CASE apart = {}
  <2>1. \A i \in Nat : i \in 1 .. Len(s) /\ i \in 1 .. Len(t) => s[i] = t[i]
    BY <1>3
  <2> HIDE DEF apart
  <2>2. CASE Len(s) < Len(t)
    <3>1. Begins(s, t)
      BY <1>1, <2>1, <2>2 DEF Begins
    <3> QED
      BY <3>1, StringLessMeans
  <2>3. CASE Len(t) < Len(s)
    <3>1. Begins(t, s)
      BY <1>1, <2>1, <2>3 DEF Begins
    <3> QED
      BY <3>1, StringLessMeans
  <2>4. CASE Len(s) = Len(t)
    <3>1. \A i \in 1 .. Len(s) : s[i] = t[i]
      BY <1>1, <2>1, <2>4
    <3>2. s = t
      BY <1>1, <2>4, <3>1 DEF Strings
    <3> QED
      BY <3>2
  <2>5. Len(s) < Len(t) \/ Len(t) < Len(s) \/ Len(s) = Len(t)
    <3>1. \A m, n \in Nat : m < n \/ n < m \/ m = n
      OBVIOUS
    <3> QED
      BY <1>1, <3>1
  <2> QED
    BY <2>2, <2>3, <2>4, <2>5
<1> QED
  BY <1>2, <1>3

(* What is less than a string that is less than a third is less than that. *)
LEMMA StringLessTransitive ==
  ASSUME NEW s \in Strings, NEW t \in Strings, NEW u \in Strings,
         StringLess(s, t), StringLess(t, u)
  PROVE  StringLess(s, u)
<1>1. /\ Len(s) \in Nat /\ Len(t) \in Nat /\ Len(u) \in Nat
      /\ \A i \in 1 .. Len(s) : Place[s[i]] \in Nat
      /\ \A i \in 1 .. Len(t) : Place[t[i]] \in Nat
      /\ \A i \in 1 .. Len(u) : Place[u[i]] \in Nat
  BY PlaceAssumption DEF Strings
<1>2. CASE Begins(s, t) /\ Begins(t, u)
  <2>1. Begins(s, u)
    BY <1>1, <1>2 DEF Begins
  <2> QED
    BY <2>1, StringLessMeans
<1>3. ASSUME NEW i \in 1 .. Len(t), Begins(s, t), DiffersAt(t, u, i) PROVE StringLess(s, u)
  <2>1. CASE i <= Len(s)
    <3>1. DiffersAt(s, u, i)
      BY <1>1, <1>3, <2>1 DEF Begins, DiffersAt
    <3> QED
      BY <2>1, <3>1, StringLessMeans
  <2>2. CASE ~(i <= Len(s))
    <3>1. Begins(s, u)
      BY <1>1, <1>3, <2>2 DEF Begins, DiffersAt
    <3> QED
      BY <3>1, StringLessMeans
  <2> QED
    BY <2>1, <2>2
<1>4. ASSUME NEW i \in 1 .. Len(s), DiffersAt(s, t, i), Begins(t, u) PROVE StringLess(s, u)
  <2>1. DiffersAt(s, u, i)
    BY <1>1, <1>4 DEF Begins, DiffersAt
  <2> QED
    BY <2>1, StringLessMeans
<1>5. ASSUME NEW i \in 1 .. Len(s), NEW k \in 1 .. Len(t), DiffersAt(s, t, i), DiffersAt(t, u, k)
      PROVE  StringLess(s, u)
  <2>1. CASE i <= k
    <3>1. DiffersAt(s, u, i)
      BY <1>1, <1>5, <2>1, SMTT(30) DEF DiffersAt
    <3> QED
      BY <3>1, StringLessMeans
  <2>2. CASE ~(i <= k)
    <3>1. k \in 1 .. Len(s) /\ DiffersAt(s, u, k)
      BY <1>1, <1>5, <2>2 DEF DiffersAt
    <3> QED
      BY <3>1, StringLessMeans
  <2> QED
    BY <2>1, <2>2
<1>6. (Begins(s, t) \/ \E i \in 1 .. Len(s) : DiffersAt(s, t, i))
      /\ (Begins(t, u) \/ \E i \in 1 .. Len(t) : DiffersAt(t, u, i))
  BY StringLessMeans
<1> QED
  BY <1>2, <1>3, <1>4, <1>5, <1>6

-----------------------------------------------------------------------------
(* A key that is less has fewer before it.                                 *)
KeyedBy(o, D) == DOMAIN o.members = D /\ IsFiniteSet(D) /\ D \subseteq Strings
Rank(o, k) == Cardinality(KeysBefore(o, k))

LEMMA RankType ==
  ASSUME NEW o, NEW D, KeyedBy(o, D), NEW k \in D
  PROVE  /\ IsFiniteSet(KeysBefore(o, k)) /\ KeysBefore(o, k) \subseteq D
         /\ Cardinality(D) \in Nat /\ Rank(o, k) \in 0 .. Cardinality(D) - 1
<1>1. /\ IsFiniteSet(D) /\ Cardinality(D) \in Nat
      /\ IsFiniteSet(D \ {k}) /\ Cardinality(D \ {k}) = Cardinality(D) - 1
  BY FS_CardinalityType, FS_RemoveElement DEF KeyedBy
<1>2. KeysBefore(o, k) \in SUBSET (D \ {k})
  BY StringLessIrreflexive DEF KeysBefore, KeyedBy
<1>3. IsFiniteSet(KeysBefore(o, k)) /\ Rank(o, k) \in Nat /\ Rank(o, k) <= Cardinality(D) - 1
  BY <1>1, <1>2, FS_Subset, FS_CardinalityType DEF Rank
<1> QED
  BY <1>1, <1>2, <1>3

LEMMA RankGrows ==
  ASSUME NEW o, NEW D, KeyedBy(o, D), NEW k \in D, NEW l \in D
  PROVE  /\ StringLess(k, l) <=> Rank(o, k) < Rank(o, l)
         /\ Rank(o, k) = Rank(o, l) => k = l
<1>1. D \subseteq Strings
  BY DEF KeyedBy
<1>2. ASSUME NEW i \in D, NEW j \in D, StringLess(i, j) PROVE Rank(o, i) < Rank(o, j)
  <2>1. KeysBefore(o, i) \in SUBSET KeysBefore(o, j)
    BY <1>1, <1>2, StringLessTransitive DEF KeysBefore, KeyedBy
  <2>2. i \in KeysBefore(o, j) /\ i \notin KeysBefore(o, i)
    BY <1>1, <1>2, StringLessIrreflexive DEF KeysBefore, KeyedBy
  <2>3. /\ Cardinality(KeysBefore(o, i)) <= Cardinality(KeysBefore(o, j))
        /\ Cardinality(KeysBefore(o, j)) # Cardinality(KeysBefore(o, i))
    BY <2>1, <2>2, RankType, FS_Subset
  <2>4. Rank(o, i) \in Nat /\ Rank(o, j) \in Nat
    BY RankType
  <2> QED
    BY <2>3, <2>4 DEF Rank
<1>3. StringLess(k, l) \/ StringLess(l, k) \/ k = l
  BY <1>1, StringLessTotal
<1>4. Rank(o, k) \in Nat /\ Rank(o, l) \in Nat
  BY RankType
<1>5. CASE StringLess(k, l)
  BY <1>2, <1>4, <1>5
<1>6. CASE StringLess(l, k)
  BY <1>2, <1>4, <1>6
<1>7. CASE k = l
  BY <1>1, <1>4, <1>7, StringLessIrreflexive
<1> QED
  BY <1>3, <1>5, <1>6, <1>7

(* Every number of keys is before one of them, so that Keys finds one.     *)
LEMMA KeysInOrder ==
  ASSUME NEW o, NEW D, KeyedBy(o, D)
  PROVE  /\ Cardinality(D) \in Nat
         /\ Keys(o) \in Seq(D) /\ Len(Keys(o)) = Cardinality(D)
         /\ \A i \in 1 .. Cardinality(D) : Keys(o)[i] \in D /\ Rank(o, Keys(o)[i]) = i - 1
         /\ \A k \in D : Rank(o, k) + 1 \in 1 .. Cardinality(D) /\ Keys(o)[Rank(o, k) + 1] = k
<1> DEFINE n == Cardinality(D)
           f == [k \in D |-> Rank(o, k)]
<1>1. n \in Nat /\ IsFiniteSet(D)
  BY FS_CardinalityType DEF KeyedBy
<1>2. \A k \in D : Rank(o, k) \in 0 .. n - 1
  BY RankType
<1>3. f \in Injection(D, 0 .. n - 1)
  <2>1. f \in [D -> 0 .. n - 1]
    BY <1>2
  <2>2. \A k, l \in D : f[k] = f[l] => k = l
    BY RankGrows
  <2> QED
    BY <2>1, <2>2 DEF Injection, IsInjective
<1>4. IsFiniteSet(0 .. n - 1) /\ Cardinality(0 .. n - 1) = n
  BY <1>1, FS_Interval
<1>5. f \in Surjection(D, 0 .. n - 1)
  BY <1>3, <1>4, FS_Injection
<1>6. ASSUME NEW i \in 1 .. n PROVE Keys(o)[i] \in D /\ Rank(o, Keys(o)[i]) = i - 1
  <2>1. i - 1 \in 0 .. n - 1
    BY <1>1
  <2>2. \E k \in D : Rank(o, k) = i - 1
    BY <1>5, <2>1 DEF Surjection
  <2>3. Keys(o)[i] = CHOOSE k \in D : Rank(o, k) = i - 1
    BY DEF Keys, KeyedBy, Rank
  <2> QED
    BY <2>2, <2>3
<1>7. Keys(o) \in Seq(D) /\ Len(Keys(o)) = n
  <2>1. Keys(o) \in [1 .. n -> D]
    <3>1. DOMAIN Keys(o) = 1 .. n /\ Keys(o) = [i \in 1 .. n |-> Keys(o)[i]]
      BY DEF Keys, KeyedBy
    <3> QED
      BY <1>6, <3>1
  <2> QED
    BY <1>1, <2>1
<1>8. ASSUME NEW k \in D PROVE Rank(o, k) + 1 \in 1 .. n /\ Keys(o)[Rank(o, k) + 1] = k
  <2>1. Rank(o, k) \in Nat /\ Rank(o, k) + 1 \in 1 .. n
    BY <1>1, <1>2
  <2>2. Keys(o)[Rank(o, k) + 1] \in D /\ Rank(o, Keys(o)[Rank(o, k) + 1]) = Rank(o, k)
    BY <1>6, <2>1
  <2> QED
    BY <2>1, <2>2, RankGrows
<1> HIDE DEF n
<1> QED
  BY <1>1, <1>6, <1>7, <1>8 DEF n
(* What is left of a sequence without one of its places.                   *)
LEMMA WithoutOne ==
  ASSUME NEW V, NEW s \in Seq(V), NEW p \in 0 .. Len(s) - 1
  PROVE  /\ Without(s, p, p + 1) \in Seq(V) /\ Len(Without(s, p, p + 1)) = Len(s) - 1
         /\ \A i \in 1 .. Len(s) - 1 :
              Without(s, p, p + 1)[i] = IF i <= p THEN s[i] ELSE s[i + 1]
<1> DEFINE a == SubSeq(s, 1, p)
           b == SubSeq(s, p + 1 + 1, Len(s))
<1>1. /\ SubSeq(s, 1, p) \in Seq(V) /\ Len(SubSeq(s, 1, p)) = p
      /\ \A i \in 1 .. p : SubSeq(s, 1, p)[i] = s[i]
  OBVIOUS
<1>2. /\ SubSeq(s, p + 1 + 1, Len(s)) \in Seq(V)
      /\ Len(SubSeq(s, p + 1 + 1, Len(s))) = Len(s) - p - 1
      /\ \A i \in 1 .. Len(s) - p - 1 : SubSeq(s, p + 1 + 1, Len(s))[i] = s[i + p + 1]
  <2>1. /\ p + 1 + 1 \in Nat /\ Len(s) \in Nat /\ p \in Nat
        /\ \A i \in p + 1 + 1 .. Len(s) : i \in 1 .. Len(s)
    OBVIOUS
  <2> QED
    BY <2>1
<1>3. Without(s, p, p + 1) = SubSeq(s, 1, p) \o SubSeq(s, p + 1 + 1, Len(s))
  BY DEF Without
<1>4. /\ a \in Seq(V) /\ Len(a) = p /\ (\A i \in 1 .. p : a[i] = s[i])
      /\ b \in Seq(V) /\ Len(b) = Len(s) - p - 1
      /\ (\A i \in 1 .. Len(s) - p - 1 : b[i] = s[i + p + 1])
      /\ p \in Nat /\ Len(s) \in Nat /\ p < Len(s)
  BY <1>1, <1>2
<1> HIDE DEF a, b
<1>5. a \o b \in Seq(V) /\ Len(a \o b) = Len(s) - 1
  <2>1. a \in Seq(V) /\ b \in Seq(V)
    BY <1>4
  <2>2. a \o b \in Seq(V) /\ Len(a \o b) = Len(a) + Len(b)
    BY <2>1
  <2> QED
    BY <1>4, <2>2
<1>6. ASSUME NEW i \in 1 .. Len(s) - 1 PROVE (a \o b)[i] = IF i <= p THEN s[i] ELSE s[i + 1]
  <2>1. CASE i <= p
    BY <1>4, <2>1
  <2>2. CASE ~(i <= p)
    <3>1. i - p \in 1 .. Len(s) - p - 1 /\ i - p + p + 1 = i + 1
      BY <1>4, <2>2
    <3>2. (a \o b)[i] = b[i - p]
      BY <1>4, <2>2
    <3> QED
      BY <1>4, <2>2, <3>1, <3>2
  <2> QED
    BY <2>1, <2>2
<1> QED
  BY <1>3, <1>5, <1>6 DEF a, b

(* A key that is erased leaves the other keys in their order.              *)
LEMMA KeysWithoutOne ==
  ASSUME NEW o, NEW D, KeyedBy(o, D), NEW p \in 0 .. Cardinality(D) - 1,
         NEW w, DOMAIN w.members = D \ {Keys(o)[p + 1]}
  PROVE  /\ KeyedBy(w, D \ {Keys(o)[p + 1]})
         /\ Keys(w) = Without(Keys(o), p, p + 1)
<1> DEFINE n == Cardinality(D)
           x == Keys(o)[p + 1]
           E == D \ {x}
<1>1. n \in Nat /\ p + 1 \in 1 .. n /\ x \in D /\ Rank(o, x) = p /\ D \subseteq Strings
  BY KeysInOrder DEF KeyedBy
<1>2. KeyedBy(w, E) /\ Cardinality(E) = n - 1
  BY <1>1, FS_RemoveElement DEF KeyedBy
<1>3. ASSUME NEW k \in E
      PROVE  Rank(w, k) = IF Rank(o, k) < p THEN Rank(o, k) ELSE Rank(o, k) - 1
  <2>1. KeysBefore(w, k) = KeysBefore(o, k) \ {x}
    BY <1>2 DEF KeysBefore, KeyedBy
  <2>2. IsFiniteSet(KeysBefore(o, k)) /\ Rank(o, k) \in Nat
    BY RankType
  <2>3. Rank(w, k) = IF x \in KeysBefore(o, k) THEN Rank(o, k) - 1 ELSE Rank(o, k)
    BY <2>1, <2>2, FS_RemoveElement DEF Rank
  <2>4. x \in KeysBefore(o, k) <=> p < Rank(o, k)
    BY <1>1, RankGrows DEF KeysBefore, KeyedBy
  <2>5. Rank(o, k) # p
    BY <1>1, RankGrows
  <2> QED
    BY <1>1, <2>2, <2>3, <2>4, <2>5
<1>4. /\ Keys(o) \in Seq(D) /\ Len(Keys(o)) = n
      /\ Keys(w) \in Seq(E) /\ Len(Keys(w)) = n - 1
  BY <1>2, KeysInOrder
<1>5. ASSUME NEW i \in 1 .. n - 1
      PROVE  Keys(w)[i] = IF i <= p THEN Keys(o)[i] ELSE Keys(o)[i + 1]
  <2>1. \A j \in 1 .. n : Keys(o)[j] \in D /\ Rank(o, Keys(o)[j]) = j - 1
    BY KeysInOrder
  <2>2. \A k \in E : Keys(w)[Rank(w, k) + 1] = k
    BY <1>2, KeysInOrder, ZenonT(40)
  <2>3. CASE i <= p
    <3>1. i \in 1 .. n /\ i - 1 < p /\ i # p + 1
      BY <1>1, <2>3
    <3>2. Keys(o)[i] \in E /\ Rank(o, Keys(o)[i]) = i - 1
      BY <1>1, <2>1, <3>1
    <3> QED
      BY <1>3, <2>2, <2>3, <3>1, <3>2
  <2>4. CASE ~(i <= p)
    <3>1. i + 1 \in 1 .. n /\ ~(i < p) /\ i + 1 # p + 1
      BY <1>1, <2>4
    <3>2. Keys(o)[i + 1] \in E /\ Rank(o, Keys(o)[i + 1]) = i
      BY <1>1, <2>1, <3>1
    <3>3. Rank(w, Keys(o)[i + 1]) + 1 = i
      BY <1>3, <3>1, <3>2
    <3> QED
      BY <2>2, <2>4, <3>2, <3>3
  <2> QED
    BY <2>3, <2>4
<1>6. /\ Without(Keys(o), p, p + 1) \in Seq(D) /\ Len(Without(Keys(o), p, p + 1)) = n - 1
      /\ \A i \in 1 .. n - 1 :
           Without(Keys(o), p, p + 1)[i] = IF i <= p THEN Keys(o)[i] ELSE Keys(o)[i + 1]
  BY <1>4, WithoutOne
<1>7. Keys(w) \in Seq(D)
  BY <1>4
<1>8. \A i \in 1 .. n - 1 : Keys(w)[i] = Without(Keys(o), p, p + 1)[i]
  BY <1>5, <1>6
<1> HIDE DEF n, E
<1> QED
  BY <1>2, <1>4, <1>6, <1>7, <1>8 DEF E

-----------------------------------------------------------------------------
(* Values that are made of values, and the members of one.                 *)
Types == {"null", "boolean", "number", "string", "array", "object"}

LEMMA ContainerTypes ==
  ASSUME NEW V, NEW v, ContainerOf(v, V)
  PROVE  /\ v.type \in Types /\ v # Thrown
         /\ v.type = "null" => v = Null
         /\ v.type = "string" => v.string \in Strings
         /\ v.type = "array" =>
              v = [type |-> "array", elements |-> v.elements] /\ v.elements \in Seq(V)
         /\ v.type = "object" =>
              /\ v = [type |-> "object", members |-> v.members]
              /\ v.members \in [DOMAIN v.members -> V] /\ KeyedBy(v, DOMAIN v.members)
<1>1. CASE v = Null
  BY <1>1 DEF Null, Types, Thrown
<1>2. CASE \E b \in BOOLEAN : v = Boolean(b)
  BY <1>2 DEF Boolean, Types, Thrown
<1>3. CASE v.type = "number" /\ v = NumberOf(v.number)
  BY <1>3 DEF Types, Thrown
<1>4. CASE v.type = "string" /\ v = String(v.string) /\ v.string \in Strings
  BY <1>4 DEF Types, Thrown
<1>5. CASE /\ v.type = "array" /\ v = [type |-> "array", elements |-> v.elements]
           /\ v.elements \in Seq(V)
  BY <1>5 DEF Types, Thrown
<1>6. CASE /\ v.type = "object" /\ v = [type |-> "object", members |-> v.members]
           /\ IsFiniteSet(DOMAIN v.members) /\ DOMAIN v.members \subseteq Strings
           /\ v.members \in [DOMAIN v.members -> V]
  BY <1>6 DEF Types, Thrown, KeyedBy
<1> QED
  BY <1>1, <1>2, <1>3, <1>4, <1>5, <1>6 DEF ContainerOf

LEMMA ContainerGrows ==
  ASSUME NEW V, NEW W, V \subseteq W, NEW v, ContainerOf(v, V)
  PROVE  ContainerOf(v, W)
<1>1. Seq(V) \subseteq Seq(W)
  OBVIOUS
<1>2. \A D : [D -> V] \subseteq [D -> W]
  OBVIOUS
<1> QED
  BY <1>1, <1>2 DEF ContainerOf

LEMMA ClosedGrows ==
  ASSUME NEW V, Closed(V), NEW v, ContainerOf(v, V)
  PROVE  Closed(V \cup {v})
<1>1. V \subseteq V \cup {v}
  OBVIOUS
<1>2. ASSUME NEW w \in V \cup {v} PROVE ContainerOf(w, V)
  BY DEF Closed
<1> QED
  BY <1>1, <1>2, ContainerGrows DEF Closed

(* The constructors.                                                       *)
LEMMA ArrayOf ==
  ASSUME NEW V, NEW s \in Seq(V)
  PROVE  ContainerOf([type |-> "array", elements |-> s], V)
  BY DEF ContainerOf

LEMMA ObjectOf ==
  ASSUME NEW V, NEW D, IsFiniteSet(D), D \subseteq Strings, NEW f \in [D -> V]
  PROVE  ContainerOf([type |-> "object", members |-> f], V)
<1> DEFINE v == [type |-> "object", members |-> f]
<1>1. v.type = "object" /\ v.members = f /\ DOMAIN f = D
  OBVIOUS
<1> HIDE DEF v
<1>2. v = [type |-> "object", members |-> v.members]
  BY <1>1 DEF v
<1>3. ContainerOf(v, V)
  BY <1>1, <1>2 DEF ContainerOf
<1> QED
  BY <1>3 DEF v

(* The members of a value, in a sequence.                                  *)
LEMMA MembersOf ==
  ASSUME NEW V, NEW v \in V, ContainerOf(v, V)
  PROVE  /\ Members(v) \in Seq(V)
         /\ v.type = "null" => Members(v) = <<>>
         /\ v.type \in Types \ {"null", "array", "object"} => Members(v) = <<v>>
         /\ v.type = "array" => Members(v) = v.elements
         /\ v.type = "object" =>
              /\ Len(Members(v)) = Cardinality(DOMAIN v.members)
              /\ Len(Keys(v)) = Cardinality(DOMAIN v.members)
              /\ \A i \in 1 .. Len(Members(v)) : Members(v)[i] = v.members[Keys(v)[i]]
<1>1. v.type \in Types
  BY ContainerTypes
<1>2. CASE v.type = "object"
  <2> DEFINE D == DOMAIN v.members
  <2>1. KeyedBy(v, D) /\ v.members \in [D -> V]
    BY <1>2, ContainerTypes
  <2>2. Keys(v) \in Seq(D) /\ Len(Keys(v)) = Cardinality(D) /\ Cardinality(D) \in Nat
    BY <2>1, KeysInOrder
  <2>3. Members(v) = [i \in DOMAIN Keys(v) |-> v.members[Keys(v)[i]]]
    BY <1>2 DEF Members
  <2>4. DOMAIN Keys(v) = 1 .. Cardinality(D) /\ \A i \in DOMAIN Keys(v) : Keys(v)[i] \in D
    BY <2>2
  <2>5. Members(v) \in [1 .. Cardinality(D) -> V]
    BY <2>1, <2>3, <2>4
  <2>6. Members(v) \in Seq(V) /\ Len(Members(v)) = Cardinality(D)
    BY <2>2, <2>5
  <2> QED
    BY <1>2, <2>2, <2>3, <2>4, <2>6
<1>3. CASE v.type = "array"
  BY <1>3, ContainerTypes DEF Members
<1>4. CASE v.type = "null"
  BY <1>4 DEF Members
<1>5. CASE v.type \in Types \ {"null", "array", "object"}
  <2>1. Members(v) = <<v>>
    BY <1>5 DEF Members, Types
  <2> QED
    BY <1>5, <2>1 DEF Types
<1> QED
  BY <1>1, <1>2, <1>3, <1>4, <1>5 DEF Types

LEMMA EndsOf ==
  ASSUME NEW V, NEW v \in V, ContainerOf(v, V)
  PROVE  /\ BeginOf(v) \in {0, 1} /\ Len(Members(v)) \in Nat
         /\ EndOf(v) = BeginOf(v) + Len(Members(v))
         /\ BeginOf(v) = 1 => Members(v) = <<>>
<1>1. v.type \in Types /\ Members(v) \in Seq(V)
  BY ContainerTypes, MembersOf
<1>2. CASE v.type \in Compound
  BY <1>1, <1>2 DEF Compound, BeginOf, EndOf
<1>3. CASE v.type = "null"
  BY <1>3, MembersOf DEF Compound, BeginOf, EndOf
<1>4. CASE v.type \in Types \ {"null", "array", "object"}
  <2>1. Members(v) = <<v>> /\ Len(<<v>>) = 1
    BY <1>4, MembersOf
  <2> QED
    BY <1>4, <2>1 DEF Types, Compound, BeginOf, EndOf
<1> QED
  BY <1>1, <1>2, <1>3, <1>4 DEF Types, Compound

-----------------------------------------------------------------------------
(* Sequences that are read, and cut, at one place.                         *)
LEMMA SameSequence ==
  ASSUME NEW V, NEW s \in Seq(V), NEW t \in Seq(V), Len(s) = Len(t),
         \A i \in 1 .. Len(s) : s[i] = t[i]
  PROVE  s = t
  OBVIOUS

LEMMA Joined ==
  ASSUME NEW V, NEW s \in Seq(V), NEW r \in Seq(V)
  PROVE  /\ s \o r \in Seq(V) /\ Len(s \o r) = Len(s) + Len(r)
         /\ Len(s) \in Nat /\ Len(r) \in Nat
         /\ \A i \in 1 .. Len(s) : (s \o r)[i] = s[i]
         /\ \A i \in 1 .. Len(r) : (s \o r)[Len(s) + i] = r[i]
         /\ \A i \in Len(s) + 1 .. Len(s) + Len(r) : (s \o r)[i] = r[i - Len(s)]
  OBVIOUS

LEMMA EmptyJoined ==
  ASSUME NEW V, NEW s \in Seq(V)
  PROVE  <<>> \in Seq(V) /\ <<>> \o s = s /\ s \o <<>> = s
  OBVIOUS

LEMMA HeadOf ==
  ASSUME NEW V, NEW r \in Seq(V), r # <<>>
  PROVE  /\ Head(r) \in V /\ Head(r) = r[1] /\ Tail(r) \in Seq(V)
         /\ Len(Tail(r)) = Len(r) - 1 /\ Len(r) \in Nat \ {0}
         /\ \A i \in 1 .. Len(r) - 1 : Tail(r)[i] = r[i + 1]
<1>1. Len(r) \in Nat \ {0} /\ 1 \in 1 .. Len(r)
  OBVIOUS
<1> QED
  BY <1>1

LEMMA Rejoin ==
  ASSUME NEW V, NEW s \in Seq(V), NEW r \in Seq(V), r # <<>>
  PROVE  Append(s, Head(r)) \o Tail(r) = s \o r
<1> DEFINE a == Append(s, Head(r))
<1>1. /\ Head(r) \in V /\ Head(r) = r[1] /\ Tail(r) \in Seq(V)
      /\ Len(Tail(r)) = Len(r) - 1 /\ Len(r) \in Nat \ {0}
      /\ \A i \in 1 .. Len(r) - 1 : Tail(r)[i] = r[i + 1]
  BY HeadOf
<1>2. /\ a \in Seq(V) /\ Len(a) = Len(s) + 1 /\ Len(s) \in Nat
      /\ a[Len(s) + 1] = Head(r) /\ \A i \in 1 .. Len(s) : a[i] = s[i]
  BY <1>1
<1> HIDE DEF a
<1>3. /\ a \o Tail(r) \in Seq(V) /\ Len(a \o Tail(r)) = Len(a) + Len(Tail(r))
      /\ s \o r \in Seq(V) /\ Len(s \o r) = Len(s) + Len(r)
  BY <1>1, <1>2, Joined, ZenonT(40)
<1>4. ASSUME NEW i \in 1 .. Len(s) + Len(r) PROVE (a \o Tail(r))[i] = (s \o r)[i]
  <2>1. CASE i \in 1 .. Len(s)
    <3>1. (s \o r)[i] = s[i]
      BY <2>1, Joined
    <3>2. (a \o Tail(r))[i] = a[i]
      BY <1>1, <1>2, <2>1, Joined
    <3> QED
      BY <1>2, <2>1, <3>1, <3>2
  <2>2. CASE i = Len(s) + 1
    <3>1. (s \o r)[i] = r[1]
      BY <1>1, <1>2, <2>2, Joined
    <3>2. (a \o Tail(r))[i] = a[i]
      BY <1>1, <1>2, <2>2, Joined
    <3> QED
      BY <1>1, <1>2, <2>2, <3>1, <3>2
  <2>3. CASE i \in Len(s) + 2 .. Len(s) + Len(r)
    <3>1. (s \o r)[i] = r[i - Len(s)]
      BY <1>1, <1>2, <2>3, Joined
    <3>2. (a \o Tail(r))[i] = Tail(r)[i - Len(a)]
      <4>1. i \in Len(a) + 1 .. Len(a) + Len(Tail(r))
        BY <1>1, <1>2, <2>3
      <4> QED
        BY <1>1, <1>2, <4>1, Joined
    <3>3. i - Len(a) \in 1 .. Len(r) - 1 /\ i - Len(a) + 1 = i - Len(s)
      BY <1>1, <1>2, <2>3
    <3> QED
      BY <1>1, <3>1, <3>2, <3>3
  <2> QED
    BY <1>1, <1>2, <2>1, <2>2, <2>3
<1>5. Len(a \o Tail(r)) = Len(s \o r) /\ Len(s \o r) = Len(s) + Len(r)
  BY <1>1, <1>2, <1>3
<1> QED
  BY <1>3, <1>4, <1>5, SameSequence DEF a

LEMMA CutOut ==
  ASSUME NEW V, NEW s \in Seq(V), NEW r \in Seq(V), r # <<>>
  PROVE  Without(s \o r, Len(s), Len(s) + 1) = s \o Tail(r)
<1> DEFINE m == s \o r
           w == Without(m, Len(s), Len(s) + 1)
<1>1. /\ Tail(r) \in Seq(V) /\ Len(Tail(r)) = Len(r) - 1 /\ Len(r) \in Nat \ {0}
      /\ \A i \in 1 .. Len(r) - 1 : Tail(r)[i] = r[i + 1]
  BY HeadOf
<1>2. /\ m \in Seq(V) /\ Len(m) = Len(s) + Len(r) /\ Len(s) \in Nat
      /\ \A i \in 1 .. Len(s) : m[i] = s[i]
      /\ \A i \in Len(s) + 1 .. Len(s) + Len(r) : m[i] = r[i - Len(s)]
  BY Joined
<1>3. /\ s \o Tail(r) \in Seq(V) /\ Len(s \o Tail(r)) = Len(s) + Len(Tail(r))
      /\ \A i \in 1 .. Len(s) : (s \o Tail(r))[i] = s[i]
      /\ \A i \in Len(s) + 1 .. Len(s) + Len(Tail(r)) : (s \o Tail(r))[i] = Tail(r)[i - Len(s)]
  BY <1>1, Joined
<1> HIDE DEF m
<1>4. /\ w \in Seq(V) /\ Len(w) = Len(m) - 1
      /\ \A i \in 1 .. Len(m) - 1 : w[i] = IF i <= Len(s) THEN m[i] ELSE m[i + 1]
  <2>1. Len(s) \in 0 .. Len(m) - 1
    BY <1>1, <1>2
  <2> QED
    BY <1>2, <2>1, WithoutOne
<1> HIDE DEF w
<1>5. ASSUME NEW i \in 1 .. Len(w) PROVE w[i] = (s \o Tail(r))[i]
  <2>1. CASE i <= Len(s)
    BY <1>1, <1>2, <1>3, <1>4, <2>1
  <2>2. CASE ~(i <= Len(s))
    <3>1. /\ i + 1 \in Len(s) + 1 .. Len(s) + Len(r) /\ i \in 1 .. Len(m) - 1
          /\ i \in Len(s) + 1 .. Len(s) + Len(Tail(r)) /\ i - Len(s) \in 1 .. Len(r) - 1
          /\ i - Len(s) + 1 = i + 1 - Len(s)
      BY <1>1, <1>2, <1>4, <2>2
    <3>2. w[i] = r[i + 1 - Len(s)]
      BY <1>2, <1>4, <2>2, <3>1
    <3>3. (s \o Tail(r))[i] = r[i - Len(s) + 1]
      BY <1>1, <1>3, <3>1
    <3> QED
      BY <3>1, <3>2, <3>3
  <2> QED
    BY <2>1, <2>2
<1>6. Len(w) = Len(s \o Tail(r))
  BY <1>1, <1>2, <1>3, <1>4
<1>7. w = s \o Tail(r)
  BY <1>3, <1>4, <1>5, <1>6, SameSequence
<1> QED
  BY <1>7 DEF w, m

(* The part of a sequence up to a place, and the rest.                     *)
LEMMA Parted ==
  ASSUME NEW V, NEW m \in Seq(V), NEW n \in 0 .. Len(m)
  PROVE  LET s == [i \in DOMAIN m \cap 1 .. n |-> m[i]]
             r == SubSeq(m, n + 1, Len(m))
         IN  s \in Seq(V) /\ r \in Seq(V) /\ Len(s) = n /\ m = s \o r
<1> DEFINE s == [i \in DOMAIN m \cap 1 .. n |-> m[i]]
           r == SubSeq(m, n + 1, Len(m))
<1>1. n \in Nat /\ Len(m) \in Nat /\ DOMAIN m \cap 1 .. n = 1 .. n /\ \A i \in 1 .. n : m[i] \in V
  OBVIOUS
<1>2. s \in [1 .. n -> V]
  BY <1>1
<1>3. s \in Seq(V) /\ Len(s) = n /\ \A i \in 1 .. n : s[i] = m[i]
  BY <1>1, <1>2
<1>4. /\ r \in Seq(V) /\ Len(r) = Len(m) - n
      /\ \A i \in 1 .. Len(m) - n : r[i] = m[i + n]
  <2>1. n + 1 \in Nat /\ \A i \in n + 1 .. Len(m) : i \in 1 .. Len(m)
    BY <1>1
  <2> QED
    BY <1>1, <2>1
<1> HIDE DEF s, r
<1>5. /\ s \o r \in Seq(V) /\ Len(s \o r) = Len(s) + Len(r)
      /\ \A i \in 1 .. Len(s) : (s \o r)[i] = s[i]
      /\ \A i \in Len(s) + 1 .. Len(s) + Len(r) : (s \o r)[i] = r[i - Len(s)]
  BY <1>3, <1>4, Joined
<1>6. ASSUME NEW i \in 1 .. Len(m) PROVE m[i] = (s \o r)[i]
  <2>1. CASE i <= n
    BY <1>1, <1>3, <1>5, <2>1
  <2>2. CASE ~(i <= n)
    <3>1. i \in Len(s) + 1 .. Len(s) + Len(r) /\ i - n \in 1 .. Len(m) - n /\ i - n + n = i
      BY <1>1, <1>3, <1>4, <2>2
    <3> QED
      BY <1>3, <1>4, <1>5, <3>1
  <2> QED
    BY <2>1, <2>2
<1>7. m = s \o r
  <2>1. Len(m) = Len(s \o r)
    BY <1>1, <1>3, <1>4, <1>5
  <2> QED
    BY <1>5, <1>6, <2>1, SameSequence
<1> QED
  BY <1>3, <1>4, <1>7 DEF s, r

(* Erase takes a member out, and the iterator it returns is as far from    *)
(* the beginning of what is left as it was.                                *)
LEMMA EraseOne ==
  ASSUME NEW V, NEW v \in V, ContainerOf(v, V), NEW n \in Nat, n < Len(Members(v))
  PROVE  LET e == EraseAt(v, BeginOf(v) + n)
         IN  /\ ContainerOf(e.value, V) /\ e.next = BeginOf(e.value) + n
             /\ Members(e.value) = Without(Members(v), n, n + 1)
<1> DEFINE e == EraseAt(v, BeginOf(v) + n)
           m == Members(v)
           w == e.value
<1>1. /\ m \in Seq(V) /\ Len(m) \in Nat /\ v.type \in Types /\ v.type # "null"
      /\ BeginOf(v) = 0 /\ BeginOf(v) + n = n /\ n \in 0 .. Len(m) - 1
  <2>1. m \in Seq(V) /\ Len(m) \in Nat /\ v.type \in Types /\ m # <<>>
    BY MembersOf, ContainerTypes
  <2> QED
    BY <2>1, MembersOf DEF BeginOf
<1>2. w = EraseRange(v, n, n + 1) /\ e.next = IF v.type \in Compound THEN n ELSE EndOf(v)
  BY <1>1 DEF EraseAt
<1>3. Without(m, n, n + 1) \in Seq(V)
  BY <1>1, WithoutOne
<1> HIDE DEF e, m, w
<1>4. CASE v.type = "array"
  <2>1. v = [type |-> "array", elements |-> v.elements] /\ m = v.elements
    BY <1>4, ContainerTypes, MembersOf DEF m
  <2>2. w = [v EXCEPT !.elements = Without(v.elements, n, n + 1)]
    BY <1>2, <1>4 DEF EraseRange
  <2>3. w = [type |-> "array", elements |-> Without(m, n, n + 1)]
    BY <2>1, <2>2
  <2>4. ContainerOf(w, V)
    BY <1>3, <2>3, ArrayOf
  <2>5. w.type = "array" /\ Members(w) = Without(m, n, n + 1) /\ BeginOf(w) = 0
    BY <2>3 DEF Members, BeginOf
  <2> QED
    BY <1>2, <1>4, <2>4, <2>5 DEF Compound, e, m, w
<1>5. CASE v.type = "object"
  <2> DEFINE D == DOMAIN v.members
             x == Keys(v)[n + 1]
             f == [k \in D \ {x} |-> v.members[k]]
  <2>1. /\ v = [type |-> "object", members |-> v.members] /\ v.members \in [D -> V]
        /\ KeyedBy(v, D) /\ Len(m) = Cardinality(D)
    BY <1>5, ContainerTypes, MembersOf DEF m
  <2>2. EraseRange(v, n, n + 1) =
          [v EXCEPT !.members = [k \in DOMAIN v.members \ {Keys(v)[i] : i \in n + 1 .. n + 1}
                                   |-> v.members[k]]]
    BY <1>5 DEF EraseRange
  <2>3. {Keys(v)[i] : i \in n + 1 .. n + 1} = {x}
    OBVIOUS
  <2>4. w = [type |-> "object", members |-> f]
    BY <1>2, <2>1, <2>2, <2>3
  <2>5. w.type = "object" /\ w.members = f /\ DOMAIN w.members = D \ {x} /\ BeginOf(w) = 0
    BY <2>4 DEF BeginOf
  <2>6. KeyedBy(w, D \ {x}) /\ Keys(w) = Without(Keys(v), n, n + 1)
    <3>1. n \in 0 .. Cardinality(D) - 1 /\ DOMAIN w.members = D \ {Keys(v)[n + 1]}
      BY <1>1, <2>1, <2>5
    <3> HIDE DEF D
    <3> QED
      BY <2>1, <3>1, KeysWithoutOne
  <2>7. ContainerOf(w, V)
    <3>1. f \in [D \ {x} -> V] /\ IsFiniteSet(D \ {x}) /\ D \ {x} \subseteq Strings
      BY <2>1, <2>5, <2>6 DEF KeyedBy
    <3> HIDE DEF f, D
    <3> QED
      BY <2>4, <3>1, ObjectOf
  <2>8. /\ Keys(v) \in Seq(D) /\ Len(Keys(v)) = Len(m)
        /\ Keys(w) \in Seq(D \ {x}) /\ Len(Keys(w)) = Len(m) - 1
    <3>1. Keys(v) \in Seq(D) /\ Len(Keys(v)) = Len(m)
      BY <2>1, KeysInOrder
    <3>2. Keys(w) \in Seq(D \ {x})
      BY <2>6, KeysInOrder
    <3>3. Len(Without(Keys(v), n, n + 1)) = Len(Keys(v)) - 1
      BY <1>1, <3>1, WithoutOne
    <3> QED
      BY <2>6, <3>1, <3>2, <3>3
  <2>9. Members(w) = [i \in DOMAIN Keys(w) |-> w.members[Keys(w)[i]]]
    BY <2>5 DEF Members
  <2>10. \A i \in 1 .. Len(m) : m[i] = v.members[Keys(v)[i]]
    BY <1>5, MembersOf DEF m
  <2>11. \A i \in 1 .. Len(m) - 1 : Keys(w)[i] = IF i <= n THEN Keys(v)[i] ELSE Keys(v)[i + 1]
    <3>1. n \in 0 .. Len(Keys(v)) - 1
      BY <1>1, <2>8
    <3> QED
      BY <2>6, <2>8, <3>1, WithoutOne
  <2>12. /\ Without(m, n, n + 1) \in Seq(V) /\ Len(Without(m, n, n + 1)) = Len(m) - 1
         /\ \A i \in 1 .. Len(m) - 1 : Without(m, n, n + 1)[i] = IF i <= n THEN m[i] ELSE m[i + 1]
    BY <1>1, WithoutOne
  <2>13. ASSUME NEW i \in 1 .. Len(m) - 1 PROVE Members(w)[i] = Without(m, n, n + 1)[i]
    <3>1. i \in DOMAIN Keys(w) /\ Keys(w)[i] \in D \ {x}
      BY <1>1, <2>8
    <3>2. Members(w)[i] = v.members[Keys(w)[i]]
      BY <2>5, <2>9, <3>1
    <3>3. i \in 1 .. Len(m) /\ i + 1 \in 1 .. Len(m)
      BY <1>1
    <3> HIDE DEF D, x, f
    <3> QED
      BY <2>10, <2>11, <2>12, <3>2, <3>3
  <2>14. Members(w) \in Seq(V) /\ Len(Members(w)) = Len(m) - 1
    <3>1. DOMAIN Keys(w) = 1 .. Len(m) - 1 /\ Len(m) - 1 \in Nat
      BY <1>1, <2>8
    <3>2. \A i \in 1 .. Len(m) - 1 : Without(m, n, n + 1)[i] \in V
      BY <1>1, <2>12
    <3>3. Members(w) \in [1 .. Len(m) - 1 -> V]
      BY <2>9, <2>13, <3>1, <3>2
    <3> QED
      BY <3>1, <3>3
  <2>15. Members(w) = Without(m, n, n + 1)
    BY <2>12, <2>13, <2>14, SameSequence
  <2> QED
    BY <1>2, <1>5, <2>5, <2>7, <2>15 DEF Compound, e, m, w
<1>6. CASE v.type \in Types \ {"null", "array", "object"}
  <2>1. m = <<v>> /\ n = 0
    <3>1. m = <<v>> /\ Len(<<v>>) = 1
      BY <1>6, MembersOf DEF m
    <3> QED
      BY <1>1, <3>1
  <2>2. w = Null
    BY <1>2, <1>6, <2>1 DEF EraseRange, Types
  <2>3. e.next = 1 /\ BeginOf(w) = 1 /\ ContainerOf(w, V)
    BY <1>2, <1>6, <2>2 DEF Types, Compound, EndOf, BeginOf, Null, ContainerOf
  <2>4. Members(w) = <<>>
    BY <2>2 DEF Members, Null
  <2>5. Without(m, 0, 1) = <<>>
    <3>1. Without(m, 0, 1) \in Seq(V) /\ Len(Without(m, 0, 1)) = 0
      <4>1. Len(m) = 1
        BY <2>1
      <4>2. m \in Seq(V) /\ 0 \in 0 .. Len(m) - 1 /\ 0 + 1 = 1
        BY <1>1, <2>1
      <4>3. Without(m, 0, 0 + 1) \in Seq(V) /\ Len(Without(m, 0, 0 + 1)) = Len(m) - 1
        BY <4>2, WithoutOne
      <4> QED
        BY <4>1, <4>2, <4>3
    <3> QED
      BY <3>1
  <2> QED
    BY <2>1, <2>3, <2>4, <2>5 DEF e, m, w
<1> QED
  BY <1>1, <1>4, <1>5, <1>6 DEF Types

-----------------------------------------------------------------------------
(* What an operation makes of values that are made of values is one, too,  *)
(* or it throws.                                                           *)
Made(v, V) == v = Thrown \/ ContainerOf(v, V)

LEMMA InsertMakes ==
  ASSUME NEW V, Closed(V), NEW o \in V, NEW v \in V, NEW k \in Strings
  PROVE  Made(Insert(o, k, v), V) /\ Made(PushPair(o, k, v), V)
<1>1. ContainerOf(o, V)
  BY DEF Closed
<1>2. CASE o.type \in {"null", "object"}
  <2> DEFINE members == IF o.type = "null" THEN EmptyObject.members ELSE o.members
             D == DOMAIN members
             f == [l \in D \cup {k} |-> IF l = k THEN v ELSE members[l]]
  <2>1. Insert(o, k, v) = [type |-> "object", members |-> f]
    BY <1>2 DEF Insert
  <2>2. IsFiniteSet(D) /\ D \subseteq Strings /\ members \in [D -> V]
    <3>1. CASE o.type = "null"
      <4>1. members = [l \in {} |-> Null]
        BY <3>1 DEF EmptyObject
      <4> QED
        BY <4>1, FS_EmptySet
    <3>2. CASE o.type = "object"
      BY <1>1, <3>2, ContainerTypes DEF KeyedBy
    <3> QED
      BY <1>2, <3>1, <3>2
  <2> HIDE DEF members
  <2>3. IsFiniteSet(D \cup {k}) /\ D \cup {k} \subseteq Strings /\ f \in [D \cup {k} -> V]
    BY <2>2, FS_AddElement
  <2> HIDE DEF D, f
  <2>4. ContainerOf(Insert(o, k, v), V)
    BY <2>1, <2>3, ObjectOf
  <2> QED
    BY <1>1, <2>4 DEF Made, PushPair
<1>3. CASE o.type \notin {"null", "object"}
  <2>1. Insert(o, k, v) = Thrown
    BY <1>3 DEF Insert
  <2>2. Count(o, k) = 0
    BY <1>3 DEF Count
  <2> QED
    BY <2>1, <2>2 DEF Made, PushPair
<1> QED
  BY <1>2, <1>3

LEMMA PushBackMakes ==
  ASSUME NEW V, Closed(V), NEW a \in V, NEW v \in V
  PROVE  Made(PushBack(a, v), V)
<1>1. ContainerOf(a, V)
  BY DEF Closed
<1>2. CASE a.type = "null"
  <2>1. PushBack(a, v) = [type |-> "array", elements |-> <<v>>]
    BY <1>2 DEF PushBack
  <2>2. <<v>> \in Seq(V)
    OBVIOUS
  <2> QED
    BY <2>1, <2>2, ArrayOf DEF Made
<1>3. CASE a.type = "array"
  <2>1. PushBack(a, v) = [type |-> "array", elements |-> Append(a.elements, v)]
    BY <1>3 DEF PushBack
  <2>2. Append(a.elements, v) \in Seq(V)
    <3>1. a.elements \in Seq(V)
      BY <1>1, <1>3, ContainerTypes
    <3> QED
      BY <3>1
  <2> QED
    BY <2>1, <2>2, ArrayOf DEF Made
<1>4. CASE a.type \notin {"null", "array"}
  BY <1>4 DEF PushBack, Made
<1> QED
  BY <1>2, <1>3, <1>4

LEMMA PutIndexMakes ==
  ASSUME NEW V, Closed(V), NEW v \in V, NEW x \in V, NEW idx \in Nat
  PROVE  Made(PutIndex(v, idx, x), V \cup {Null})
<1> DEFINE old == IF v.type = "null" THEN <<>> ELSE v.elements
           n == IF idx < Len(old) THEN Len(old) ELSE idx + 1
           s == [i \in 1 .. n |->
                   IF i = idx + 1 THEN x ELSE IF i <= Len(old) THEN old[i] ELSE Null]
<1>1. ContainerOf(v, V)
  BY DEF Closed
<1>2. CASE v.type \in {"null", "array"}
  <2>1. old \in Seq(V)
    BY <1>1, <1>2, ContainerTypes
  <2>2. PutIndex(v, idx, x) = [type |-> "array", elements |-> s]
    BY <1>2 DEF PutIndex
  <2> HIDE DEF old
  <2>3. n \in Nat /\ Len(old) \in Nat /\ \A i \in 1 .. Len(old) : old[i] \in V
    BY <2>1
  <2> HIDE DEF n
  <2>4. s \in [1 .. n -> V \cup {Null}]
    BY <2>3
  <2>5. s \in Seq(V \cup {Null})
    BY <2>3, <2>4
  <2> HIDE DEF s
  <2> QED
    BY <2>2, <2>5, ArrayOf DEF Made
<1>3. CASE v.type \notin {"null", "array"}
  BY <1>3 DEF PutIndex, Made
<1> QED
  BY <1>2, <1>3

(* The elements of an array, or some members of an object, are left.       *)
LEMMA FewerMembers ==
  ASSUME NEW V, NEW v, ContainerOf(v, V), v.type = "object", NEW D, D \subseteq DOMAIN v.members
  PROVE  ContainerOf([v EXCEPT !.members = [k \in D |-> v.members[k]]], V)
<1> DEFINE f == [k \in D |-> v.members[k]]
<1>1. /\ v = [type |-> "object", members |-> v.members]
      /\ v.members \in [DOMAIN v.members -> V] /\ KeyedBy(v, DOMAIN v.members)
  BY ContainerTypes
<1>2. f \in [D -> V] /\ IsFiniteSet(D) /\ D \subseteq Strings
  BY <1>1, FS_Subset DEF KeyedBy
<1>3. [v EXCEPT !.members = f] = [type |-> "object", members |-> f]
  BY <1>1
<1> HIDE DEF f
<1>4. ContainerOf([v EXCEPT !.members = f], V)
  BY <1>2, <1>3, ObjectOf
<1> QED
  BY <1>4 DEF f

LEMMA OtherElements ==
  ASSUME NEW V, NEW v, ContainerOf(v, V), v.type = "array", NEW s \in Seq(V)
  PROVE  ContainerOf([v EXCEPT !.elements = s], V)
<1>1. v = [type |-> "array", elements |-> v.elements]
  BY ContainerTypes
<1>2. [v EXCEPT !.elements = s] = [type |-> "array", elements |-> s]
  BY <1>1
<1> QED
  BY <1>2, ArrayOf

LEMMA SubSequence ==
  ASSUME NEW V, NEW s \in Seq(V), NEW i \in Nat, NEW j \in Nat, i >= 1, j <= Len(s)
  PROVE  SubSeq(s, i, j) \in Seq(V)
<1>1. \A k \in i .. j : k \in 1 .. Len(s)
  OBVIOUS
<1> QED
  BY <1>1

LEMMA SubSequenceMeans ==
  ASSUME NEW V, NEW s \in Seq(V), NEW i \in Nat, NEW j \in Nat, i <= j, j <= Len(s)
  PROVE  /\ SubSeq(s, i + 1, j) \in Seq(V) /\ Len(SubSeq(s, i + 1, j)) = j - i
         /\ \A k \in 1 .. j - i : SubSeq(s, i + 1, j)[k] = s[k + i]
<1>1. i + 1 \in Nat /\ i + 1 >= 1 /\ j - (i + 1) + 1 = j - i
  OBVIOUS
<1> QED
  BY <1>1, SubSequence

LEMMA WithoutSome ==
  ASSUME NEW V, NEW s \in Seq(V), NEW first \in Nat, NEW last \in Nat,
         first <= last, last <= Len(s)
  PROVE  Without(s, first, last) \in Seq(V)
<1>1. Len(s) \in Nat /\ 1 \in Nat /\ last + 1 \in Nat /\ first <= Len(s) /\ last + 1 >= 1
  OBVIOUS
<1>2. SubSeq(s, 1, first) \in Seq(V) /\ SubSeq(s, last + 1, Len(s)) \in Seq(V)
  BY <1>1, SubSequence
<1> QED
  BY <1>2 DEF Without

LEMMA EraseMakes ==
  ASSUME NEW V, Closed(V), NEW v \in V
  PROVE  /\ \A k : Made(EraseKey(v, k), V)
         /\ \A idx \in Nat : Made(EraseIndex(v, idx), V)
         /\ \A first \in BeginOf(v) .. EndOf(v) : \A last \in first .. EndOf(v) :
              Made(EraseRange(v, first, last), V)
<1>1. ContainerOf(v, V) /\ v.type \in Types
  BY ContainerTypes DEF Closed
<1>2. ASSUME NEW k PROVE Made(EraseKey(v, k), V)
  <2>1. CASE v.type = "object"
    <3>1. EraseKey(v, k) = [v EXCEPT !.members = [l \in DOMAIN v.members \ {k} |-> v.members[l]]]
      BY <2>1 DEF EraseKey
    <3>2. DOMAIN v.members \ {k} \subseteq DOMAIN v.members
      OBVIOUS
    <3> QED
      BY <1>1, <2>1, <3>1, <3>2, FewerMembers DEF Made
  <2> QED
    BY <2>1 DEF EraseKey, Made
<1>3. ASSUME NEW idx \in Nat PROVE Made(EraseIndex(v, idx), V)
  <2>1. CASE v.type = "array" /\ ~(idx >= Len(v.elements))
    <3>1. EraseIndex(v, idx) = [v EXCEPT !.elements = Without(v.elements, idx, idx + 1)]
      BY <2>1 DEF EraseIndex
    <3>2. Without(v.elements, idx, idx + 1) \in Seq(V)
      <4>1. v.elements \in Seq(V) /\ Len(v.elements) \in Nat
        BY <1>1, <2>1, ContainerTypes
      <4>2. idx + 1 \in Nat /\ idx <= idx + 1 /\ idx + 1 <= Len(v.elements)
        BY <2>1, <4>1
      <4> QED
        BY <4>1, <4>2, WithoutSome
    <3> QED
      BY <1>1, <2>1, <3>1, <3>2, OtherElements DEF Made
  <2> QED
    BY <2>1 DEF EraseIndex, Made
<1>4. ASSUME NEW first \in BeginOf(v) .. EndOf(v), NEW last \in first .. EndOf(v)
      PROVE  Made(EraseRange(v, first, last), V)
  <2>1. /\ BeginOf(v) \in {0, 1} /\ Len(Members(v)) \in Nat
        /\ EndOf(v) = BeginOf(v) + Len(Members(v))
    BY <1>1, EndsOf
  <2>2. first \in Nat /\ last \in Nat /\ first <= last /\ last <= EndOf(v)
    BY <2>1
  <2>3. CASE v.type = "object"
    <3> DEFINE D == DOMAIN v.members \ {Keys(v)[i] : i \in first + 1 .. last}
    <3>1. EraseRange(v, first, last) = [v EXCEPT !.members = [k \in D |-> v.members[k]]]
      BY <2>3 DEF EraseRange
    <3>2. D \subseteq DOMAIN v.members
      OBVIOUS
    <3> QED
      BY <1>1, <2>3, <3>1, <3>2, FewerMembers DEF Made
  <2>4. CASE v.type = "array"
    <3>1. EraseRange(v, first, last) = [v EXCEPT !.elements = Without(v.elements, first, last)]
      BY <2>4 DEF EraseRange
    <3>2. v.elements \in Seq(V) /\ Members(v) = v.elements /\ BeginOf(v) = 0
      BY <1>1, <2>4, ContainerTypes, MembersOf DEF BeginOf
    <3>3. Without(v.elements, first, last) \in Seq(V)
      BY <2>1, <2>2, <3>2, WithoutSome
    <3> QED
      BY <1>1, <2>4, <3>1, <3>3, OtherElements DEF Made
  <2>5. CASE v.type \notin {"object", "array"}
    <3>1. EraseRange(v, first, last) \in {Thrown, Null}
      BY <2>5 DEF EraseRange
    <3> QED
      BY <3>1 DEF Made, ContainerOf
  <2> QED
    BY <2>3, <2>4, <2>5
<1> QED
  BY <1>2, <1>3, <1>4

LEMMA ClearMakes == ASSUME NEW V, Closed(V), NEW v \in V PROVE Made(Clear(v), V)
<1>1. ContainerOf(v, V) /\ v.type \in Types
  BY ContainerTypes DEF Closed
<1>2. ContainerOf(EmptyArray, V)
  <2>1. <<>> \in Seq(V)
    OBVIOUS
  <2> QED
    BY <2>1, ArrayOf DEF EmptyArray
<1>3. ContainerOf(EmptyObject, V)
  <2>1. [k \in {} |-> Null] \in [{} -> V] /\ IsFiniteSet({}) /\ {} \subseteq Strings
    BY FS_EmptySet
  <2> QED
    BY <2>1, ObjectOf DEF EmptyObject
<1>4. ContainerOf(String(<<>>), V)
  <2>1. <<>> \in Strings
    BY DEF Strings
  <2> QED
    BY <2>1 DEF ContainerOf, String
<1>5. ContainerOf(Boolean(FALSE), V) /\ ContainerOf(NumberOf(<<"0">>), V)
  BY DEF ContainerOf, NumberOf
<1> QED
  BY <1>1, <1>2, <1>3, <1>4, <1>5 DEF Clear, Made

LEMMA DerefMakes ==
  ASSUME NEW V, NEW v \in V, ContainerOf(v, V), NEW it
  PROVE  /\ Deref(v, it) = Thrown \/ Deref(v, it) \in V
         /\ it \in 0 .. Len(Members(v)) - 1 => Deref(v, it) = Members(v)[it + 1] /\ Deref(v, it) \in V
<1>1. Members(v) \in Seq(V)
  BY MembersOf
<1>2. CASE it \in 0 .. Len(Members(v)) - 1
  <2>1. Deref(v, it) = Members(v)[it + 1]
    BY <1>2 DEF Deref
  <2>2. it + 1 \in 1 .. Len(Members(v))
    BY <1>1, <1>2
  <2> QED
    BY <1>1, <2>1, <2>2
<1>3. CASE it \notin 0 .. Len(Members(v)) - 1
  BY <1>3 DEF Deref
<1> QED
  BY <1>2, <1>3

LEMMA ReadsMake ==
  ASSUME NEW V, Closed(V), NEW v \in V
  PROVE  /\ \A k : Made(AtKey(v, k), V)
         /\ \A idx \in Nat : Made(AtIndex(v, idx), V)
         /\ Made(FrontOf(v), V) /\ Made(BackOf(v), V)
         /\ \A t : Made(Get(t, v), V) /\ Made(GetEach(t, v), V)
<1>1. ContainerOf(v, V) /\ \A w \in V : ContainerOf(w, V)
  BY DEF Closed
<1>2. ASSUME NEW k PROVE Made(AtKey(v, k), V)
  <2>1. CASE v.type = "object" /\ k \in DOMAIN v.members
    <3>1. v.members[k] \in V
      BY <1>1, <2>1, ContainerTypes
    <3> QED
      BY <1>1, <2>1, <3>1 DEF AtKey, Made
  <2> QED
    BY <2>1 DEF AtKey, Made
<1>3. ASSUME NEW idx \in Nat PROVE Made(AtIndex(v, idx), V)
  <2>1. CASE v.type = "array" /\ ~(idx >= Len(v.elements))
    <3>1. v.elements \in Seq(V)
      BY <1>1, <2>1, ContainerTypes
    <3>2. v.elements[idx + 1] \in V
      BY <2>1, <3>1
    <3> QED
      BY <1>1, <2>1, <3>2 DEF AtIndex, Made
  <2> QED
    BY <2>1 DEF AtIndex, Made
<1>4. Made(FrontOf(v), V) /\ Made(BackOf(v), V)
  BY <1>1, DerefMakes DEF FrontOf, BackOf, Made
<1>5. ASSUME NEW t PROVE Made(Get(t, v), V) /\ Made(GetEach(t, v), V)
  BY <1>1 DEF Get, GetEach, Made
<1> QED
  BY <1>2, <1>3, <1>4, <1>5

LEMMA CopiesMake ==
  ASSUME NEW V, Closed(V), NEW v \in V, NEW n \in Nat
  PROVE  Made(Copies(n, v), V)
<1>1. [i \in 1 .. n |-> v] \in Seq(V)
  OBVIOUS
<1> QED
  BY <1>1, ArrayOf DEF Copies, Made

LEMMA RangeMakes ==
  ASSUME NEW V, Closed(V), NEW v \in V,
         NEW first \in BeginOf(v) .. EndOf(v), NEW last \in first .. EndOf(v)
  PROVE  Made(FromRange(v, first, last), V)
<1>1. ContainerOf(v, V)
  BY DEF Closed
<1>2. /\ BeginOf(v) \in {0, 1} /\ Len(Members(v)) \in Nat
      /\ EndOf(v) = BeginOf(v) + Len(Members(v))
  BY <1>1, EndsOf
<1>3. first \in Nat /\ last \in Nat /\ first <= last /\ last <= EndOf(v)
  BY <1>2
<1>4. CASE v.type = "object"
  <2> DEFINE D == {Keys(v)[i] : i \in first + 1 .. last}
  <2>1. FromRange(v, first, last) = [v EXCEPT !.members = [k \in D |-> v.members[k]]]
    BY <1>4 DEF FromRange
  <2>2. D \subseteq DOMAIN v.members
    <3>1. KeyedBy(v, DOMAIN v.members)
      BY <1>1, <1>4, ContainerTypes
    <3>2. \A i \in 1 .. Cardinality(DOMAIN v.members) : Keys(v)[i] \in DOMAIN v.members
      BY <3>1, KeysInOrder
    <3>3. EndOf(v) = Cardinality(DOMAIN v.members)
      BY <1>1, <1>2, <1>4, MembersOf DEF BeginOf
    <3>4. first + 1 .. last \subseteq 1 .. EndOf(v)
      BY <1>2, <1>3
    <3> QED
      BY <3>2, <3>3, <3>4
  <2> HIDE DEF D
  <2> QED
    BY <1>1, <1>4, <2>1, <2>2, FewerMembers DEF Made
<1>5. CASE v.type = "array"
  <2>1. FromRange(v, first, last) = [v EXCEPT !.elements = SubSeq(v.elements, first + 1, last)]
    BY <1>5 DEF FromRange
  <2>2. v.elements \in Seq(V) /\ Members(v) = v.elements /\ BeginOf(v) = 0
    BY <1>1, <1>5, ContainerTypes, MembersOf DEF BeginOf
  <2>3. SubSeq(v.elements, first + 1, last) \in Seq(V)
    <3>1. first + 1 \in Nat /\ first + 1 >= 1 /\ last <= Len(v.elements)
      BY <1>2, <1>3, <2>2
    <3> QED
      BY <1>3, <2>2, <3>1, SubSequence
  <2> QED
    BY <1>1, <1>5, <2>1, <2>3, OtherElements, ZenonT(40) DEF Made
<1>6. CASE v.type \notin {"object", "array"}
  <2>1. FromRange(v, first, last) \in {Thrown, v}
    BY <1>6 DEF FromRange
  <2> QED
    BY <1>1, <2>1 DEF Made
<1> QED
  BY <1>4, <1>5, <1>6

LEMMA ListMakes ==
  ASSUME NEW V, Closed(V), NEW a \in V, NEW b \in V, NEW deduction, NEW manual
  PROVE  Made(FromList(<<a, b>>, deduction, manual), V)
<1> DEFINE list == <<a, b>>
           pairs == \A i \in DOMAIN list : /\ list[i].type = "array" /\ Len(list[i].elements) = 2
                                           /\ list[i].elements[1].type = "string"
           Leading(k) == CHOOSE i \in DOMAIN list :
                          /\ list[i].elements[1].string = k
                          /\ \A j \in 1 .. i - 1 : list[j].elements[1].string # k
           D == {list[i].elements[1].string : i \in DOMAIN list}
           f == [k \in D |-> list[Leading(k)].elements[2]]
<1>1. list \in Seq(V) /\ DOMAIN list = {1, 2}
  OBVIOUS
<1>2. \A i \in DOMAIN list : ContainerOf(list[i], V)
  BY <1>1 DEF Closed
<1>3. FromList(list, deduction, manual) \in
        {Thrown, [type |-> "array", elements |-> list]}
          \cup (IF pairs THEN {[type |-> "object", members |-> f]} ELSE {})
  BY DEF FromList
<1>4. ContainerOf([type |-> "array", elements |-> list], V)
  BY <1>1, ArrayOf
<1>5. ASSUME pairs PROVE ContainerOf([type |-> "object", members |-> f], V)
  <2>1. ASSUME NEW i \in DOMAIN list
        PROVE  list[i].elements[1].string \in Strings /\ list[i].elements[2] \in V
    <3>1. list[i].type = "array" /\ Len(list[i].elements) = 2 /\ list[i].elements[1].type = "string"
      BY <1>5
    <3>2. list[i].elements \in Seq(V)
      BY <1>2, <3>1, ContainerTypes
    <3>3. list[i].elements[1] \in V /\ list[i].elements[2] \in V
      BY <3>1, <3>2
    <3>4. ContainerOf(list[i].elements[1], V)
      BY <3>3 DEF Closed
    <3> QED
      BY <3>1, <3>3, <3>4, ContainerTypes
  <2>2. ASSUME NEW k \in D PROVE Leading(k) \in DOMAIN list
    <3>1. \E i \in DOMAIN list : /\ list[i].elements[1].string = k
                                 /\ \A j \in 1 .. i - 1 : list[j].elements[1].string # k
      <4>1. CASE list[1].elements[1].string = k
        BY <1>1, <4>1
      <4>2. CASE list[1].elements[1].string # k
        <5>1. list[2].elements[1].string = k
          BY <1>1, <4>2
        <5>2. \A j \in 1 .. 2 - 1 : j = 1
          OBVIOUS
        <5> QED
          BY <1>1, <4>2, <5>1, <5>2
      <4> QED
        BY <4>1, <4>2
    <3> QED
      BY <3>1
  <2>3. D = {list[1].elements[1].string, list[2].elements[1].string}
    BY <1>1
  <2> HIDE DEF list, Leading
  <2>4. D \subseteq Strings /\ IsFiniteSet(D)
    <3>1. IsFiniteSet({list[1].elements[1].string})
      BY FS_Singleton
    <3>2. D = {list[1].elements[1].string} \cup {list[2].elements[1].string}
      BY <2>3
    <3>3. \A k \in D : k \in Strings
      BY <2>1
    <3> HIDE DEF D
    <3> QED
      BY <3>1, <3>2, <3>3, FS_AddElement
  <2>5. f \in [D -> V]
    BY <2>1, <2>2
  <2> HIDE DEF D, f
  <2> QED
    BY <2>4, <2>5, ObjectOf
<1> HIDE DEF pairs, list, f
<1> QED
  BY <1>3, <1>4, <1>5 DEF Made, list

-----------------------------------------------------------------------------
(* The value of the program is made of values, and the walk has a rest to  *)
(* go: the members left in place and the rest are the members now, those   *)
(* met and the rest the ones there were. On the way back there are as many *)
(* in front as there are to come.                                          *)
Good(V) == Closed(V) /\ {Null, doc, other} \cup Operands \cup Used \subseteq V

Still == walked = <<>> /\ visited = <<>> /\ kept = <<>> /\ seen = <<>>

Forward(V) ==
    /\ kept \in Seq(V) /\ visited \in Seq(V) /\ seen = <<>>
    /\ \E rest \in Seq(V) : /\ Members(doc) = kept \o rest /\ walked = visited \o rest
                            /\ at = BeginOf(doc) + Len(kept)

Backward(V) ==
    /\ visited = walked /\ Members(doc) = kept /\ seen \in Seq(V)
    /\ \E front \in Seq(V) : Members(doc) = front \o seen /\ at = BeginOf(doc) + Len(front)

Back == visited = walked /\ Members(doc) = kept /\ seen = Members(doc)

WalkIn(V) ==
    \/ phase \in {"parsing", "editing"} /\ Still
    \/ phase = "forward" /\ Forward(V)
    \/ phase = "backward" /\ Backward(V)
    \/ phase = "done" /\ Back

ProgramInv == \E V : Good(V) /\ WalkIn(V)

LEMMA InitiallyGood == ProgramInit => ProgramInv
<1> SUFFICES ASSUME ProgramInit PROVE ProgramInv
  OBVIOUS
<1> DEFINE V == Values \cup {Null}
<1>1. Closed(V)
  <2>1. ASSUME NEW v \in Values PROVE ContainerOf(v, V)
    BY ContainerGrows, ProgramAssumption
  <2>2. ContainerOf(Null, V)
    BY DEF ContainerOf
  <2> QED
    BY <2>1, <2>2 DEF Closed
<1>2. Good(V)
  BY <1>1, ProgramAssumption DEF Good, ProgramInit
<1>3. WalkIn(V)
  BY DEF WalkIn, Still, ProgramInit
<1> QED
  BY <1>2, <1>3 DEF ProgramInv

LEMMA ChangeStep ==
  ASSUME NEW V, Good(V), phase = "editing", WalkIn(V),
         NEW v, NEW w, NEW gained, Change(v, w, gained), Made(v, V), Made(w, V)
  PROVE  ProgramInv'
<1> DEFINE W == (V \cup {v}) \cup {w}
<1>1. ContainerOf(v, V) /\ ContainerOf(w, V) /\ Closed(V)
  BY DEF Change, Made, Good
<1>2. Closed(V \cup {v})
  BY <1>1, ClosedGrows
<1>3. ContainerOf(w, V \cup {v})
  BY <1>1, ContainerGrows
<1>4. Closed(W)
  BY <1>2, <1>3, ClosedGrows
<1>5. Good(W)'
  BY <1>4 DEF Good, Change
<1>6. WalkIn(W)'
  BY DEF WalkIn, Still, Change, walk
<1> HIDE DEF W
<1> QED
  BY <1>5, <1>6 DEF ProgramInv

LEMMA PutStep == ASSUME NEW V, Good(V), WalkIn(V), Put PROVE ProgramInv'
<1>1. PICK x \in Operands :
        \/ \E k \in Names :
             \/ Change(Insert(doc, k, x), other, NewBlock + Blocks(x) - Blocks(At(doc, k)))
             \/ Change(PushPair(doc, k, x), other,
                       NewBlock + IF Count(doc, k) = 0 THEN Blocks(x) ELSE 0)
        \/ \E i \in 0 .. Cardinality(Names) :
             LET old == IF AtIndex(doc, i) = Thrown THEN Null ELSE AtIndex(doc, i)
             IN  Change(PutIndex(doc, i, x), other, NewBlock + Blocks(x) - Blocks(old))
        \/ Change(PushBack(doc, x), other, NewBlock + Blocks(x))
  BY DEF Put
<1>2. /\ phase = "editing" /\ Closed(V) /\ doc \in V /\ other \in V /\ x \in V
      /\ V \cup {Null} = V /\ Made(other, V)
  BY DEF Put, Editing, Good, Closed, Made
<1>3. ASSUME NEW k \in Names,
             \/ Change(Insert(doc, k, x), other, NewBlock + Blocks(x) - Blocks(At(doc, k)))
             \/ Change(PushPair(doc, k, x), other,
                       NewBlock + IF Count(doc, k) = 0 THEN Blocks(x) ELSE 0)
      PROVE  ProgramInv'
  <2>1. Made(Insert(doc, k, x), V) /\ Made(PushPair(doc, k, x), V)
    BY <1>2, InsertMakes, ProgramAssumption
  <2> QED
    BY <1>2, <1>3, <2>1, ChangeStep
<1>4. ASSUME NEW i \in 0 .. Cardinality(Names), NEW gained, Change(PutIndex(doc, i, x), other, gained)
      PROVE  ProgramInv'
  <2>1. Made(PutIndex(doc, i, x), V)
    BY <1>2, PutIndexMakes
  <2> QED
    BY <1>2, <1>4, <2>1, ChangeStep
<1>5. ASSUME Change(PushBack(doc, x), other, NewBlock + Blocks(x)) PROVE ProgramInv'
  <2>1. Made(PushBack(doc, x), V)
    BY <1>2, PushBackMakes
  <2> QED
    BY <1>2, <1>5, <2>1, ChangeStep
<1> QED
  BY <1>1, <1>3, <1>4, <1>5

LEMMA EraseStep == ASSUME NEW V, Good(V), WalkIn(V), EraseSome PROVE ProgramInv'
<1>1. /\ phase = "editing" /\ Closed(V) /\ doc \in V /\ Made(other, V) /\ ContainerOf(doc, V)
  BY DEF EraseSome, Editing, Good, Closed, Made
<1>2. \E gained :
        \/ \E k \in Names : Change(EraseKey(doc, k), other, gained)
        \/ \E i \in 0 .. Len(Members(doc)) : Change(EraseIndex(doc, i), other, gained)
        \/ \E first \in BeginOf(doc) .. EndOf(doc) : \E last \in first .. EndOf(doc) :
             Change(EraseRange(doc, first, last), other, gained)
        \/ Change(Clear(doc), other, gained)
  BY DEF EraseSome
<1>3. /\ \A k : Made(EraseKey(doc, k), V)
      /\ \A i \in 0 .. Len(Members(doc)) : Made(EraseIndex(doc, i), V)
      /\ \A first \in BeginOf(doc) .. EndOf(doc) : \A last \in first .. EndOf(doc) :
           Made(EraseRange(doc, first, last), V)
      /\ Made(Clear(doc), V)
  BY <1>1, EraseMakes, ClearMakes
<1> QED
  BY <1>1, <1>2, <1>3, ChangeStep

LEMMA BuildStep == ASSUME NEW V, Good(V), WalkIn(V), Build PROVE ProgramInv'
<1>1. /\ phase = "editing" /\ Closed(V) /\ doc \in V /\ other \in V
      /\ Made(doc, V) /\ ContainerOf(doc, V)
  BY DEF Build, Editing, Good, Closed, Made
<1>2. ASSUME NEW v, Assign(v), Made(v, V) PROVE ProgramInv'
  BY <1>1, <1>2, ChangeStep DEF Assign
<1>3. \/ Assign(doc)
      \/ \E first \in BeginOf(doc) .. EndOf(doc) : \E last \in first .. EndOf(doc) :
           Assign(FromRange(doc, first, last))
      \/ \E k \in Names : Assign(AtKey(doc, k))
      \/ \E i \in 0 .. Len(Members(doc)) : Assign(AtIndex(doc, i))
      \/ Assign(FrontOf(doc)) \/ Assign(BackOf(doc))
      \/ \E t : Assign(Get(t, doc)) \/ Assign(GetEach(t, doc))
      \/ \E t, deduction : Assign(FromList(<<doc, other>>, deduction, t))
      \/ \E n \in 0 .. 2 : Assign(Copies(n, other))
  BY DEF Build
<1>4. /\ \A k : Made(AtKey(doc, k), V)
      /\ \A i \in 0 .. Len(Members(doc)) : Made(AtIndex(doc, i), V)
      /\ Made(FrontOf(doc), V) /\ Made(BackOf(doc), V)
      /\ \A t : Made(Get(t, doc), V) /\ Made(GetEach(t, doc), V)
  BY <1>1, ReadsMake
<1>5. \A first \in BeginOf(doc) .. EndOf(doc) : \A last \in first .. EndOf(doc) :
        Made(FromRange(doc, first, last), V)
  BY <1>1, RangeMakes
<1>6. \A t, deduction : Made(FromList(<<doc, other>>, deduction, t), V)
  BY <1>1, ListMakes
<1>7. \A n \in 0 .. 2 : Made(Copies(n, other), V)
  BY <1>1, CopiesMake
<1> HIDE DEF Assign
<1> QED
  BY <1>1, <1>2, <1>3, <1>4, <1>5, <1>6, <1>7

LEMMA TransferStep == ASSUME NEW V, Good(V), WalkIn(V), Transfer PROVE ProgramInv'
<1>1. /\ phase = "editing" /\ Closed(V) /\ doc \in V /\ other \in V /\ Null \in V
      /\ Made(doc, V) /\ Made(other, V) /\ Made(Null, V)
  BY DEF Transfer, Editing, Good, Closed, Made
<1>2. Made(PushBack(doc, other), V)
  BY <1>1, PushBackMakes
<1> QED
  BY <1>1, <1>2, ChangeStep DEF Transfer

(* The parser returns a value that the program goes on with.               *)
LEMMA ReturnedStep == ASSUME NEW V, Good(V), WalkIn(V), Returned PROVE ProgramInv'
<1>1. Good(V)' /\ WalkIn(V)'
  BY DEF Returned, Good, WalkIn, Still, walk
<1> QED
  BY <1>1 DEF ProgramInv

LEMMA BeginWalkStep == ASSUME NEW V, Good(V), WalkIn(V), BeginWalk PROVE ProgramInv'
<1> DEFINE m == Members(doc)
<1>1. doc \in V /\ ContainerOf(doc, V) /\ Still
  BY DEF Good, Closed, WalkIn, BeginWalk
<1>2. /\ m \in Seq(V) /\ Len(m) \in Nat /\ BeginOf(doc) \in {0, 1}
      /\ EndOf(doc) = BeginOf(doc) + Len(m) /\ (BeginOf(doc) = 1 => m = <<>>)
  BY <1>1, MembersOf, EndsOf
<1>3. at' \in Nat /\ at' >= BeginOf(doc) /\ at' <= EndOf(doc)
  <2>1. ASSUME NEW k \in Names PROVE Find(doc, k) \in Nat /\ Find(doc, k) >= BeginOf(doc) /\ Find(doc, k) <= EndOf(doc)
    <3>1. CASE Count(doc, k) = 0
      BY <1>2, <3>1 DEF Find
    <3>2. CASE Count(doc, k) # 0
      <4> DEFINE D == DOMAIN doc.members
                 i == CHOOSE i \in DOMAIN Keys(doc) : Keys(doc)[i] = k
      <4>1. doc.type = "object" /\ k \in D
        BY <3>2 DEF Count
      <4>2. KeyedBy(doc, D) /\ Len(m) = Cardinality(D) /\ BeginOf(doc) = 0
        BY <1>1, <4>1, ContainerTypes, MembersOf DEF BeginOf
      <4>3. DOMAIN Keys(doc) = 1 .. Len(m)
        BY <4>2, KeysInOrder
      <4>4. \E j \in DOMAIN Keys(doc) : Keys(doc)[j] = k
        BY <4>1, <4>2, <4>3, KeysInOrder
      <4>5. i \in 1 .. Len(m)
        BY <4>3, <4>4
      <4>6. Find(doc, k) = i - 1
        BY <3>2 DEF Find
      <4> HIDE DEF i, m
      <4> QED
        BY <1>2, <4>2, <4>5, <4>6
    <3> QED
      BY <3>1, <3>2
  <2> QED
    BY <1>2, <2>1 DEF BeginWalk
<1>4. /\ walked' = SubSeq(m, at' + 1, Len(m))
      /\ kept' = [i \in DOMAIN m \cap 1 .. at' |-> m[i]]
      /\ phase' = "forward" /\ visited' = <<>> /\ seen' = <<>> /\ UNCHANGED <<doc, other>>
  BY <1>1 DEF BeginWalk, Still
<1>5. PICK n \in 0 .. Len(m) : /\ walked' = SubSeq(m, n + 1, Len(m)) /\ at' = BeginOf(doc) + n
                               /\ kept' = [i \in DOMAIN m \cap 1 .. n |-> m[i]]
  <2> HIDE DEF m
  <2>1. CASE BeginOf(doc) = 0
    <3>1. at' \in 0 .. Len(m) /\ at' = BeginOf(doc) + at'
      <4>1. EndOf(doc) = Len(m) /\ Len(m) \in Nat
        BY <1>2, <2>1
      <4>2. at' \in Nat /\ at' <= Len(m)
        BY <1>3, <4>1
      <4>3. \A i, j \in Nat : i <= j => i \in 0 .. j /\ i = 0 + i
        OBVIOUS
      <4> QED
        BY <2>1, <4>1, <4>2, <4>3
    <3> QED
      BY <1>4, <3>1
  <2>2. CASE BeginOf(doc) = 1
    <3>1. m = <<>> /\ Len(m) = 0 /\ at' = 1
      BY <1>2, <1>3, <2>2
    <3>2. DOMAIN m \cap 1 .. at' = {} /\ DOMAIN m \cap 1 .. 0 = {}
      BY <3>1
    <3>3. SubSeq(m, at' + 1, Len(m)) = <<>> /\ SubSeq(m, 0 + 1, Len(m)) = <<>>
      BY <3>1
    <3> QED
      BY <1>4, <2>2, <3>1, <3>2, <3>3
  <2> QED
    BY <1>2, <2>1, <2>2
<1>6. kept' \in Seq(V) /\ walked' \in Seq(V) /\ Len(kept') = n /\ m = kept' \o walked'
  <2>1. n \in 0 .. Len(m) /\ m \in Seq(V)
    BY <1>2, <1>5
  <2> HIDE DEF m
  <2> QED
    BY <1>5, <2>1, Parted, Zenon
<1>7. Members(doc)' = m /\ BeginOf(doc)' = BeginOf(doc)
  BY <1>4 DEF Members, BeginOf, Keys, KeysBefore
<1>8. walked' = visited' \o walked' /\ visited' \in Seq(V)
  BY <1>4, <1>6, EmptyJoined
<1> HIDE DEF m
<1>9. Forward(V)'
  BY <1>4, <1>5, <1>6, <1>7, <1>8 DEF Forward, m
<1>10. Good(V)'
  BY <1>4 DEF Good
<1> QED
  BY <1>4, <1>9, <1>10 DEF ProgramInv, WalkIn

LEMMA VisitStep == ASSUME NEW V, Good(V), WalkIn(V), Visit PROVE ProgramInv'
<1> DEFINE m == Members(doc)
<1>1. phase = "forward" /\ Forward(V) /\ doc \in V /\ ContainerOf(doc, V) /\ Closed(V)
  BY DEF Good, Closed, WalkIn, Visit
<1>2. PICK rest \in Seq(V) : /\ m = kept \o rest /\ walked = visited \o rest
                             /\ at = BeginOf(doc) + Len(kept)
  BY <1>1 DEF Forward
<1>3. kept \in Seq(V) /\ visited \in Seq(V) /\ seen = <<>>
  BY <1>1 DEF Forward
<1>4. /\ Len(m) = Len(kept) + Len(rest) /\ Len(kept) \in Nat /\ Len(rest) \in Nat
      /\ \A i \in 1 .. Len(rest) : m[Len(kept) + i] = rest[i]
  BY <1>2, <1>3, Joined
<1>5. /\ BeginOf(doc) \in {0, 1} /\ EndOf(doc) = BeginOf(doc) + Len(m)
      /\ (BeginOf(doc) = 1 => m = <<>>)
  BY <1>1, EndsOf
<1> HIDE DEF m
<1>6. rest # <<>> /\ BeginOf(doc) = 0 /\ at = Len(kept) /\ Len(kept) < Len(m)
  <2>1. at # EndOf(doc)
    BY DEF Visit, SameIterator
  <2>2. Len(rest) # 0
    BY <1>2, <1>4, <1>5, <2>1
  <2>3. Len(m) # 0
    BY <1>4, <2>2
  <2> QED
    BY <1>2, <1>4, <1>5, <2>2, <2>3
<1>7. /\ Head(rest) \in V /\ Head(rest) = rest[1] /\ Tail(rest) \in Seq(V) /\ Len(rest) \in Nat \ {0}
  BY <1>6, HeadOf
<1>8. Deref(doc, at) = Head(rest)
  <2>1. at \in 0 .. Len(m) - 1
    BY <1>4, <1>6
  <2>2. Deref(doc, at) = m[at + 1]
    BY <1>1, <2>1, DerefMakes DEF m
  <2>3. m[Len(kept) + 1] = rest[1]
    BY <1>4, <1>7
  <2> QED
    BY <1>6, <1>7, <2>2, <2>3
<1>9. visited' = Append(visited, Head(rest)) /\ visited' \in Seq(V)
  BY <1>3, <1>7, <1>8 DEF Visit
<1>10. walked' = visited' \o Tail(rest) /\ seen' = <<>>
  <2>1. Append(visited, Head(rest)) \o Tail(rest) = visited \o rest
    BY <1>3, <1>6, Rejoin
  <2> QED
    BY <1>2, <1>3, <1>9, <2>1 DEF Visit
<1>11. Thrown # Head(rest)
  BY <1>1, <1>7, ContainerTypes DEF Closed
<1>12. CASE at' = Advanced(at) /\ kept' = Append(kept, Deref(doc, at)) /\ UNCHANGED <<doc, live>>
  <2>1. kept' = Append(kept, Head(rest)) /\ kept' \in Seq(V) /\ Len(kept') = Len(kept) + 1
    BY <1>3, <1>7, <1>8, <1>12
  <2>2. m = kept' \o Tail(rest)
    BY <1>2, <1>3, <1>6, <2>1, Rejoin
  <2>3. doc' = doc /\ at' = at + 1 /\ other' = other
    BY <1>12 DEF Advanced, Visit
  <2>4. Members(doc)' = m /\ BeginOf(doc)' = 0
    BY <1>6, <2>3 DEF Members, BeginOf, Keys, KeysBefore, m
  <2>5. at' = 0 + Len(kept')
    BY <1>4, <1>6, <2>1, <2>3
  <2>6. phase' = "forward"
    <3>1. doc # Thrown
      BY <1>1, ContainerTypes
    <3> QED
      BY <1>8, <1>11, <2>3, <3>1 DEF Visit
  <2>7. Forward(V)'
    BY <1>7, <1>9, <1>10, <2>1, <2>2, <2>4, <2>5 DEF Forward
  <2>8. Good(V)'
    BY <2>3 DEF Good
  <2> QED
    BY <2>6, <2>7, <2>8 DEF ProgramInv, WalkIn
<1>13. CASE /\ doc' = EraseAt(doc, at).value /\ at' = EraseAt(doc, at).next /\ UNCHANGED kept
  <2>1. at = BeginOf(doc) + Len(kept)
    BY <1>2
  <2>2. PICK e : e = EraseAt(doc, at)
    OBVIOUS
  <2>3. /\ ContainerOf(e.value, V) /\ e.next = BeginOf(e.value) + Len(kept)
        /\ Members(e.value) = Without(m, Len(kept), Len(kept) + 1)
    BY <1>1, <1>4, <1>6, <2>1, <2>2, EraseOne DEF m
  <2>4. Members(e.value) = kept \o Tail(rest)
    BY <1>2, <1>3, <1>6, <2>3, CutOut
  <2>5. PICK w : w = e.value
    OBVIOUS
  <2>6. doc' = w /\ at' = BeginOf(w) + Len(kept) /\ kept' = kept /\ Members(w) = kept \o Tail(rest)
    BY <1>13, <2>2, <2>3, <2>4, <2>5
  <2>7. Closed(V \cup {w}) /\ ContainerOf(w, V)
    BY <1>1, <2>3, <2>5, ClosedGrows
  <2>8. Good(V \cup {w})'
    BY <2>6, <2>7 DEF Good, Visit
  <2>9. Members(doc)' = kept' \o Tail(rest) /\ at' = BeginOf(doc)' + Len(kept')
    <3>1. doc' = w
      BY <2>6
    <3>2. Members(doc)' = Members(w) /\ BeginOf(doc)' = BeginOf(w)
      BY <3>1 DEF Members, BeginOf, Keys, KeysBefore
    <3> QED
      BY <2>6, <3>2
  <2>10. phase' = "forward"
    <3>1. w # Thrown
      BY <2>7, ContainerTypes
    <3> QED
      BY <1>8, <1>11, <2>6, <3>1 DEF Visit
  <2>11. Forward(V \cup {w})'
    <3>1. Seq(V) \subseteq Seq(V \cup {w})
      OBVIOUS
    <3>2. kept' \in Seq(V) /\ visited' \in Seq(V) /\ Tail(rest) \in Seq(V)
      BY <1>3, <1>7, <1>9, <2>6
    <3> QED
      BY <1>10, <2>9, <3>1, <3>2 DEF Forward
  <2> QED
    BY <2>8, <2>10, <2>11 DEF ProgramInv, WalkIn
<1> QED
  BY <1>12, <1>13 DEF Visit

LEMMA Prepended ==
  ASSUME NEW V, NEW x \in V, NEW s \in Seq(V)
  PROVE  /\ <<x>> \o s \in Seq(V) /\ Len(<<x>> \o s) = Len(s) + 1 /\ (<<x>> \o s)[1] = x
         /\ \A i \in 1 .. Len(s) : (<<x>> \o s)[i + 1] = s[i]
  OBVIOUS

(* The last of one sequence becomes the first of another.                  *)
Moved(f, s, g, t) ==
    /\ Len(f) = Len(g) + 1 /\ Len(t) = Len(s) + 1 /\ t[1] = f[Len(f)]
    /\ \A i \in 1 .. Len(g) : g[i] = f[i]
    /\ \A i \in 1 .. Len(s) : t[i + 1] = s[i]

LEMMA LastOf ==
  ASSUME NEW V, NEW f \in Seq(V), NEW s \in Seq(V), NEW g \in Seq(V), NEW t \in Seq(V),
         Moved(f, s, g, t)
  PROVE  g \o t = f \o s
<1>1. Len(s) \in Nat /\ Len(g) \in Nat
  OBVIOUS
<1>2. PICK n \in Nat : n = Len(g)
  BY <1>1
<1>3. PICK x : x = t[1]
  OBVIOUS
<1>4. g \in Seq(V) /\ Len(g) = n /\ Len(f) = n + 1 /\ x = f[n + 1] /\ \A i \in 1 .. n : g[i] = f[i]
  BY <1>2, <1>3 DEF Moved
<1>6. t \in Seq(V) /\ Len(t) = Len(s) + 1 /\ t[1] = x /\ \A i \in 1 .. Len(s) : t[i + 1] = s[i]
  BY <1>3 DEF Moved
<1>7. /\ g \o t \in Seq(V) /\ Len(g \o t) = Len(g) + Len(t)
      /\ \A i \in 1 .. Len(g) : (g \o t)[i] = g[i]
      /\ \A i \in Len(g) + 1 .. Len(g) + Len(t) : (g \o t)[i] = t[i - Len(g)]
  <2>1. g \in Seq(V) /\ t \in Seq(V)
    BY <1>4, <1>6
  <2> QED
    BY <2>1, Joined
<1>8. /\ f \o s \in Seq(V) /\ Len(f \o s) = Len(f) + Len(s)
      /\ \A i \in 1 .. Len(f) : (f \o s)[i] = f[i]
      /\ \A i \in Len(f) + 1 .. Len(f) + Len(s) : (f \o s)[i] = s[i - Len(f)]
  BY Joined
<1>9. Len(g \o t) = n + 1 + Len(s) /\ Len(f \o s) = n + 1 + Len(s)
  <2>1. Len(g \o t) = n + (Len(s) + 1) /\ Len(f \o s) = n + 1 + Len(s)
    BY <1>4, <1>6, <1>7, <1>8
  <2> QED
    BY <1>1, <2>1
<1>10. ASSUME NEW i \in 1 .. n + 1 + Len(s) PROVE (g \o t)[i] = (f \o s)[i]
  <2>1. CASE i \in 1 .. n
    BY <1>4, <1>7, <1>8, <2>1
  <2>2. CASE i = n + 1
    <3>1. i \in Len(g) + 1 .. Len(g) + Len(t) /\ i - Len(g) = 1 /\ i \in 1 .. Len(f)
      BY <1>1, <1>4, <1>6, <2>2
    <3>2. (g \o t)[i] = x
      BY <1>6, <1>7, <3>1
    <3> QED
      BY <1>4, <1>8, <2>2, <3>1, <3>2
  <2>3. CASE i > n + 1
    <3>1. PICK j \in 1 .. Len(s) : i = n + 1 + j
      <4>1. i - (n + 1) \in 1 .. Len(s) /\ i = n + 1 + (i - (n + 1))
        BY <1>1, <2>3
      <4> QED
        BY <4>1
    <3>2. /\ i \in Len(g) + 1 .. Len(g) + Len(t) /\ i - Len(g) = j + 1
          /\ i \in Len(f) + 1 .. Len(f) + Len(s) /\ i - Len(f) = j
      BY <1>1, <1>4, <1>6, <3>1
    <3>3. (g \o t)[i] = t[j + 1] /\ (f \o s)[i] = s[j]
      BY <1>7, <1>8, <3>2
    <3> QED
      BY <1>6, <3>1, <3>3
  <2>4. i \in 1 .. n \/ i = n + 1 \/ i > n + 1
    BY <1>1
  <2> QED
    BY <2>1, <2>2, <2>3, <2>4
<1>11. g \o t = f \o s
  BY <1>7, <1>8, <1>9, <1>10, SameSequence
<1> QED
  BY <1>11

LEMMA TurnStep == ASSUME NEW V, Good(V), WalkIn(V), Turn PROVE ProgramInv'
<1> DEFINE m == Members(doc)
<1>1. phase = "forward" /\ Forward(V) /\ doc \in V /\ ContainerOf(doc, V) /\ at = EndOf(doc)
  BY DEF Good, Closed, WalkIn, Turn, SameIterator
<1>2. PICK rest \in Seq(V) : /\ m = kept \o rest /\ walked = visited \o rest
                             /\ at = BeginOf(doc) + Len(kept)
  BY <1>1 DEF Forward
<1>3. kept \in Seq(V) /\ visited \in Seq(V) /\ seen = <<>>
  BY <1>1 DEF Forward
<1>4. Len(m) = Len(kept) + Len(rest) /\ Len(kept) \in Nat /\ Len(rest) \in Nat /\ m \in Seq(V)
  BY <1>2, <1>3, Joined
<1>5. BeginOf(doc) \in {0, 1} /\ EndOf(doc) = BeginOf(doc) + Len(m)
  BY <1>1, EndsOf
<1> HIDE DEF m
<1>6. rest = <<>>
  <2>1. Len(rest) = 0
    <3>1. \A b, k, r \in Nat : b + k = b + (k + r) => r = 0
      OBVIOUS
    <3>2. BeginOf(doc) + Len(kept) = BeginOf(doc) + (Len(kept) + Len(rest)) /\ BeginOf(doc) \in Nat
      <4>1. BeginOf(doc) + Len(m) = BeginOf(doc) + Len(kept)
        BY <1>1, <1>2, <1>5
      <4>2. BeginOf(doc) + Len(m) = BeginOf(doc) + (Len(kept) + Len(rest))
        BY <1>4
      <4> QED
        BY <1>5, <4>1, <4>2
    <3> QED
      BY <1>4, <3>1, <3>2
  <2> QED
    BY <2>1
<1>7. m = kept /\ walked = visited /\ m = m \o <<>> /\ at = BeginOf(doc) + Len(m)
  <2>1. m = kept /\ walked = visited
    BY <1>2, <1>3, <1>6
  <2>2. m = m \o <<>>
    BY <1>4
  <2> QED
    BY <1>2, <2>1, <2>2
<1>8. UNCHANGED <<doc, other, walked, visited, kept, seen>> /\ at' = at /\ phase' = "backward"
  BY <1>1 DEF Turn
<1>9. Members(doc)' = m /\ BeginOf(doc)' = BeginOf(doc)
  BY <1>8 DEF Members, BeginOf, Keys, KeysBefore, m
<1>10. Backward(V)'
  <2>1. visited' = walked' /\ Members(doc)' = kept' /\ seen' = <<>> /\ <<>> \in Seq(V)
    BY <1>3, <1>7, <1>8, <1>9
  <2>2. Members(doc)' = m \o seen' /\ at' = BeginOf(doc)' + Len(m)
    BY <1>7, <1>8, <1>9, <2>1
  <2> QED
    BY <1>4, <2>1, <2>2 DEF Backward
<1>11. Good(V)'
  BY <1>8 DEF Good
<1> QED
  BY <1>8, <1>10, <1>11 DEF ProgramInv, WalkIn

LEMMA GoBackStep == ASSUME NEW V, Good(V), WalkIn(V), GoBack PROVE ProgramInv'
<1> DEFINE m == Members(doc)
<1>1. phase = "backward" /\ Backward(V) /\ doc \in V /\ ContainerOf(doc, V) /\ at # BeginOf(doc)
  BY DEF Good, Closed, WalkIn, GoBack, SameIterator
<1>2. PICK front \in Seq(V) : m = front \o seen /\ at = BeginOf(doc) + Len(front)
  BY <1>1 DEF Backward
<1>3. visited = walked /\ m = kept /\ seen \in Seq(V)
  BY <1>1 DEF Backward
<1>4. /\ Len(m) = Len(front) + Len(seen) /\ Len(front) \in Nat /\ Len(seen) \in Nat /\ m \in Seq(V)
      /\ \A i \in 1 .. Len(front) : m[i] = front[i]
  <2> HIDE DEF m
  <2>1. /\ front \o seen \in Seq(V) /\ Len(front \o seen) = Len(front) + Len(seen)
        /\ Len(front) \in Nat /\ Len(seen) \in Nat
        /\ \A i \in 1 .. Len(front) : (front \o seen)[i] = front[i]
    BY <1>3, Joined
  <2> QED
    BY <1>2, <2>1
<1>5. /\ BeginOf(doc) \in {0, 1} /\ EndOf(doc) = BeginOf(doc) + Len(m)
      /\ (BeginOf(doc) = 1 => m = <<>>) /\ doc.type \in Types
  BY <1>1, EndsOf, ContainerTypes
<1>6. PICK n \in Nat : n = Len(front) - 1
  <2>1. Len(front) # 0
    BY <1>1, <1>2, <1>4, <1>5
  <2> QED
    BY <1>4, <2>1
<1> HIDE DEF m
<1>7. /\ front # <<>> /\ m # <<>> /\ BeginOf(doc) = 0 /\ EndOf(doc) = Len(m)
      /\ n \in 0 .. Len(m) - 1 /\ at' = n /\ n + 1 \in 1 .. Len(front)
  <2>1. Len(front) # 0 /\ Len(m) # 0
    BY <1>4, <1>6
  <2>2. front # <<>> /\ m # <<>> /\ BeginOf(doc) = 0
    BY <1>5, <2>1
  <2>3. at' = at - 1
    BY DEF GoBack, StepBack
  <2>4. n \in 0 .. Len(m) - 1 /\ n + 1 \in 1 .. Len(front) /\ at' = n
    BY <1>2, <1>4, <1>6, <2>2, <2>3
  <2> QED
    BY <1>4, <1>5, <2>2, <2>4
<1>8. PICK x : x = front[n + 1]
  OBVIOUS
<1>9. m[n + 1] = x
  BY <1>4, <1>7, <1>8
<1>10. Deref(doc, at') = x
  BY <1>1, <1>7, <1>9, DerefMakes DEF m
<1>11. ASSUME doc.type # "object" PROVE ItemAt(doc, EndOf(doc), Apart(at', EndOf(doc))) = x
  <2>1. doc.type # "null"
    BY <1>5, <1>7 DEF BeginOf
  <2>2. Apart(at', EndOf(doc)) = n - Len(m) /\ Len(m) + (n - Len(m)) + 1 = n + 1
    BY <1>4, <1>7 DEF Apart
  <2>3. CASE doc.type = "array"
    <3>1. m = doc.elements
      BY <1>1, <2>3, MembersOf DEF m
    <3>2. ItemAt(doc, EndOf(doc), Apart(at', EndOf(doc))) = m[Len(m) + (n - Len(m)) + 1]
      BY <1>7, <2>2, <2>3, <3>1 DEF ItemAt
    <3> QED
      BY <1>9, <2>2, <3>2
  <2>4. CASE doc.type # "array"
    <3>1. m = <<doc>> /\ Len(<<doc>>) = 1
      BY <1>1, <1>5, <1>11, <2>1, <2>4, MembersOf DEF m, Types
    <3>2. n = 0 /\ Len(m) = 1 /\ x = doc
      BY <1>7, <1>9, <3>1
    <3>3. EndOf(doc) = 1 /\ Apart(at', EndOf(doc)) = -1
      BY <1>7, <2>2, <3>2
    <3> QED
      BY <1>11, <2>1, <2>4, <3>2, <3>3 DEF ItemAt
  <2> QED
    BY <2>3, <2>4
<1>12. /\ seen' = <<x>> \o seen /\ phase' = "backward"
       /\ UNCHANGED <<doc, other, walked, visited, kept>>
  BY <1>1, <1>10, <1>11 DEF GoBack
<1>13. PICK g : g = SubSeq(front, 1, n)
  OBVIOUS
<1>14. PICK t : t = <<x>> \o seen
  OBVIOUS
<1>15. g \in Seq(V) /\ Len(g) = n /\ t \in Seq(V) /\ g \o t = front \o seen
  <2>1. Len(front) = n + 1 /\ n \in 0 .. Len(front) - 1 /\ front[n + 1] \in V
    BY <1>4, <1>6, <1>7
  <2>2. g \in Seq(V) /\ Len(g) = n /\ \A i \in 1 .. n : g[i] = front[i]
    BY <1>13, <2>1
  <2>3. /\ t \in Seq(V) /\ Len(t) = Len(seen) + 1 /\ t[1] = x
        /\ \A i \in 1 .. Len(seen) : t[i + 1] = seen[i]
    <3>1. x \in V /\ seen \in Seq(V)
      BY <1>3, <1>8, <2>1
    <3> QED
      BY <1>14, <3>1, Prepended
  <2>4. Moved(front, seen, g, t)
    BY <1>8, <2>1, <2>2, <2>3 DEF Moved
  <2> QED
    BY <1>3, <2>2, <2>3, <2>4, LastOf, SMTT(30)
<1>16. Members(doc)' = m /\ BeginOf(doc)' = 0
  BY <1>7, <1>12 DEF Members, BeginOf, Keys, KeysBefore, m
<1>17. Backward(V)'
  <2>1. seen' = t
    BY <1>12, <1>14
  <2>2. visited' = walked' /\ Members(doc)' = kept'
    BY <1>3, <1>12, <1>16
  <2>3. Members(doc)' = g \o seen'
    BY <1>2, <1>15, <1>16, <2>1
  <2>4. at' = BeginOf(doc)' + Len(g)
    <3>1. at' = n /\ 0 + n = n
      BY <1>7
    <3> QED
      BY <1>15, <1>16, <3>1
  <2> QED
    BY <1>15, <2>1, <2>2, <2>3, <2>4 DEF Backward
<1>18. Good(V)'
  BY <1>12 DEF Good
<1> QED
  BY <1>12, <1>17, <1>18 DEF ProgramInv, WalkIn

LEMMA EndWalkStep == ASSUME NEW V, Good(V), WalkIn(V), EndWalk PROVE ProgramInv'
<1> DEFINE m == Members(doc)
<1>1. phase = "backward" /\ Backward(V) /\ doc \in V /\ ContainerOf(doc, V) /\ at = BeginOf(doc)
  BY DEF Good, Closed, WalkIn, EndWalk, SameIterator
<1>2. PICK front \in Seq(V) : m = front \o seen /\ at = BeginOf(doc) + Len(front)
  BY <1>1 DEF Backward
<1>3. visited = walked /\ m = kept /\ seen \in Seq(V)
  BY <1>1 DEF Backward
<1>4. m = seen
  <2>1. BeginOf(doc) \in {0, 1} /\ Len(front) \in Nat
    BY <1>1, EndsOf
  <2>2. Len(front) = 0
    BY <1>1, <1>2, <2>1
  <2>3. front = <<>>
    BY <2>2
  <2> HIDE DEF m
  <2>4. <<>> \o seen = seen
    BY <1>3, EmptyJoined
  <2> QED
    BY <1>2, <2>3, <2>4
<1>5. UNCHANGED <<doc, other, walked, visited, kept, seen>> /\ phase' = "done"
  BY DEF EndWalk, walk
<1>6. Members(doc)' = m
  BY <1>5 DEF Members, Keys, KeysBefore
<1> HIDE DEF m
<1>7. Good(V)' /\ Back'
  BY <1>3, <1>4, <1>5, <1>6 DEF Good, Back
<1> QED
  BY <1>5, <1>7 DEF ProgramInv, WalkIn

LEMMA ProgramStep == ProgramInv /\ [ProgramNext]_<<vars, progVars>> => ProgramInv'
<1> SUFFICES ASSUME ProgramInv, [ProgramNext]_<<vars, progVars>> PROVE ProgramInv'
  OBVIOUS
<1>1. PICK V : Good(V) /\ WalkIn(V)
  BY DEF ProgramInv
<1>2. CASE UNCHANGED progVars
  <2>1. UNCHANGED <<phase, doc, other, at, walked, visited, kept, seen>>
    BY <1>2 DEF progVars, walk
  <2>2. Members(doc)' = Members(doc) /\ BeginOf(doc)' = BeginOf(doc)
    BY <2>1 DEF Members, BeginOf, Keys, KeysBefore
  <2>3. Good(V)'
    BY <1>1, <2>1 DEF Good
  <2>4. WalkIn(V)'
    BY <1>1, <2>1, <2>2 DEF WalkIn, Still, Forward, Backward, Back
  <2> QED
    BY <2>3, <2>4 DEF ProgramInv
<1>3. CASE Returned
  BY <1>1, <1>3, ReturnedStep
<1>4. CASE Use
  BY <1>1, <1>4, PutStep, EraseStep, BuildStep, TransferStep, BeginWalkStep, VisitStep,
     TurnStep, GoBackStep, EndWalkStep DEF Use
<1> QED
  BY <1>2, <1>3, <1>4 DEF ProgramNext

(* For any values that a program goes on with, puts in and changes, any    *)
(* keys and any number of changes, a walk meets every member once whatever *)
(* it erases on the way, and reads back what is left (json.hpp:1246-1297,  *)
(* 2402-2637).                                                             *)
THEOREM WalksMeetAllMembers == ProgramSpec => []WalksMeetAll
<1>1. ProgramInv => WalksMeetAll
  BY DEF ProgramInv, WalkIn, Backward, Back, WalksMeetAll
<1> QED
  BY InitiallyGood, ProgramStep, <1>1, PTL DEF ProgramSpec

-----------------------------------------------------------------------------
(* The sums of the blocks of a sequence up to each place.                  *)
Weighed(V) == \A v \in V : Blocks(v) \in Int
Sums(s, g) ==
    /\ g \in [0 .. Len(s) -> Int] /\ g[0] = 0
    /\ \A i \in 1 .. Len(s) : g[i] = g[i - 1] + Blocks(s[i])

LEMMA SumsExist ==
  ASSUME NEW V, Weighed(V), NEW s \in Seq(V)
  PROVE  \E g : Sums(s, g)
<1> DEFINE Upto(n, g) == /\ g \in [0 .. n -> Int] /\ g[0] = 0
                         /\ \A i \in 1 .. n : g[i] = g[i - 1] + Blocks(s[i])
           D == {n \in 0 .. Len(s) : ~\E g : Upto(n, g)}
<1>1. Len(s) \in Nat /\ \A i \in 1 .. Len(s) : Blocks(s[i]) \in Int
  BY DEF Weighed
<1>2. D = {}
  <2> SUFFICES ASSUME D # {} PROVE FALSE
    OBVIOUS
  <2>1. D \in SUBSET Nat
    BY <1>1
  <2> HIDE DEF D
  <2>2. PICK d \in D : \A e \in D : d <= e
    BY <2>1, LeastNumber
  <2>3. d \in 0 .. Len(s) /\ ~\E g : Upto(d, g)
    BY DEF D
  <2>4. d # 0
    <3> DEFINE g == [i \in {0} |-> 0]
    <3>1. Upto(0, g)
      OBVIOUS
    <3> HIDE DEF g, Upto
    <3> QED
      BY <2>3, <3>1
  <2>5. d - 1 \in 0 .. Len(s) /\ ~(d <= d - 1) /\ d \in 1 .. Len(s)
    BY <1>1, <2>3, <2>4
  <2>6. PICK g : Upto(d - 1, g)
    BY <2>2, <2>5 DEF D
  <2> DEFINE h == [i \in 0 .. d |-> IF i = d THEN g[d - 1] + Blocks(s[d]) ELSE g[i]]
  <2>7. Upto(d, h)
    <3>1. \A i \in 0 .. d : i # d => i \in 0 .. d - 1
      BY <2>5
    <3>2. g[d - 1] \in Int /\ Blocks(s[d]) \in Int
      BY <1>1, <2>5, <2>6
    <3>3. h \in [0 .. d -> Int]
      BY <2>6, <3>1, <3>2
    <3>4. h[0] = 0
      BY <2>3, <2>4, <2>6
    <3>5. ASSUME NEW i \in 1 .. d PROVE h[i] = h[i - 1] + Blocks(s[i])
      <4>1. i \in 0 .. d /\ i - 1 \in 0 .. d /\ i - 1 # d /\ (i # d => i \in 1 .. d - 1)
        BY <2>5
      <4> QED
        BY <2>6, <4>1
    <3> QED
      BY <3>3, <3>4, <3>5
  <2> QED
    BY <2>3, <2>7
<1>3. PICK g : Upto(Len(s), g)
  <2>1. Len(s) \in 0 .. Len(s)
    BY <1>1
  <2> HIDE DEF Upto
  <2> QED
    BY <1>2, <2>1
<1> QED
  BY <1>3 DEF Sums

LEMMA TotalIs ==
  ASSUME NEW V, Weighed(V), NEW s \in Seq(V), NEW g, Sums(s, g)
  PROVE  Total(s) = g[Len(s)] /\ Total(s) \in Int
<1> DEFINE Fits(f) == f = [i \in 0 .. Len(s) |-> IF i = 0 THEN 0 ELSE f[i - 1] + Blocks(s[i])]
           f == CHOOSE f : Fits(f)
<1>1. Total(s) = f[Len(s)]
  BY DEF Total
<1>2. Len(s) \in Nat
  OBVIOUS
<1>3. Fits(g)
  <2>1. \A i \in 0 .. Len(s) : i # 0 => i \in 1 .. Len(s)
    BY <1>2
  <2> QED
    BY <2>1 DEF Sums
<1>4. Fits(f)
  <2> HIDE DEF Fits
  <2> QED
    BY <1>3
<1> HIDE DEF f
<1>5. /\ f[0] = 0
      /\ \A i \in 1 .. Len(s) : f[i] = f[i - 1] + Blocks(s[i])
  <2>1. \A i \in 1 .. Len(s) : i # 0 /\ i \in 0 .. Len(s)
    BY <1>2
  <2>2. 0 \in 0 .. Len(s)
    BY <1>2
  <2> QED
    BY <1>4, <2>1, <2>2
<1> DEFINE D == {i \in 0 .. Len(s) : f[i] # g[i]}
<1>6. D = {}
  <2> SUFFICES ASSUME D # {} PROVE FALSE
    OBVIOUS
  <2>1. D \in SUBSET Nat
    BY <1>2
  <2> HIDE DEF D
  <2>2. PICK d \in D : \A e \in D : d <= e
    BY <2>1, LeastNumber
  <2>3. d \in 0 .. Len(s) /\ f[d] # g[d] /\ d # 0
    BY <1>5 DEF D, Sums
  <2>4. d \in 1 .. Len(s) /\ d - 1 \in 0 .. Len(s) /\ ~(d <= d - 1)
    BY <1>2, <2>3
  <2>5. f[d - 1] = g[d - 1]
    BY <2>2, <2>4 DEF D
  <2> QED
    BY <1>5, <2>3, <2>4, <2>5 DEF Sums
<1>7. Len(s) \in 0 .. Len(s)
  BY <1>2
<1> QED
  BY <1>1, <1>6, <1>7 DEF Sums

(* The total of two sequences is that of the one they are joined to.       *)
LEMMA TotalAdds ==
  ASSUME NEW V, Weighed(V), NEW s \in Seq(V), NEW r \in Seq(V)
  PROVE  Total(s \o r) = Total(s) + Total(r) /\ Total(s) \in Int /\ Total(r) \in Int
<1> DEFINE m == s \o r
<1>1. /\ m \in Seq(V) /\ Len(m) = Len(s) + Len(r) /\ Len(s) \in Nat /\ Len(r) \in Nat
      /\ \A i \in 1 .. Len(s) : m[i] = s[i]
      /\ \A i \in 1 .. Len(r) : m[Len(s) + i] = r[i]
  BY Joined
<1> HIDE DEF m
<1>2. PICK h : Sums(m, h)
  BY <1>1, SumsExist
<1> DEFINE f == [i \in 0 .. Len(s) |-> h[i]]
           g == [i \in 0 .. Len(r) |-> h[Len(s) + i] - h[Len(s)]]
<1>3. \A i \in 0 .. Len(m) : h[i] \in Int
  BY <1>2 DEF Sums
<1>4. Sums(s, f)
  <2>1. \A i \in 0 .. Len(s) : i \in 0 .. Len(m)
    BY <1>1
  <2>2. f \in [0 .. Len(s) -> Int] /\ f[0] = 0
    BY <1>1, <1>2, <1>3, <2>1 DEF Sums
  <2>3. ASSUME NEW i \in 1 .. Len(s) PROVE f[i] = f[i - 1] + Blocks(s[i])
    <3>1. i \in 0 .. Len(s) /\ i - 1 \in 0 .. Len(s) /\ i \in 1 .. Len(m)
      BY <1>1
    <3>2. h[i] = h[i - 1] + Blocks(m[i])
      BY <1>2, <3>1 DEF Sums
    <3> QED
      BY <1>1, <3>1, <3>2
  <2> QED
    BY <2>2, <2>3 DEF Sums
<1>5. Sums(r, g)
  <2>1. \A i \in 0 .. Len(r) : Len(s) + i \in 0 .. Len(m)
    BY <1>1
  <2>2. Len(s) + 0 = Len(s) /\ 0 \in 0 .. Len(r)
    BY <1>1
  <2>3. g \in [0 .. Len(r) -> Int] /\ g[0] = 0
    <3>1. \A i \in 0 .. Len(r) : h[Len(s) + i] - h[Len(s)] \in Int
      BY <1>3, <2>1, <2>2
    <3>2. h[Len(s)] - h[Len(s)] = 0
      BY <1>3, <2>1, <2>2
    <3> QED
      BY <2>2, <3>1, <3>2
  <2>4. ASSUME NEW i \in 1 .. Len(r) PROVE g[i] = g[i - 1] + Blocks(r[i])
    <3>1. /\ i \in 0 .. Len(r) /\ i - 1 \in 0 .. Len(r) /\ Len(s) + i \in 1 .. Len(m)
          /\ Len(s) + i - 1 = Len(s) + (i - 1) /\ Len(s) + (i - 1) \in 0 .. Len(m)
          /\ Len(s) \in 0 .. Len(m)
      BY <1>1
    <3>2. h[Len(s) + i] = h[Len(s) + (i - 1)] + Blocks(r[i])
      <4> DEFINE k == Len(s) + i
      <4>1. k \in 1 .. Len(m) /\ k - 1 = Len(s) + (i - 1) /\ m[k] = r[i]
        BY <1>1, <3>1
      <4> HIDE DEF k
      <4>2. h[k] = h[k - 1] + Blocks(m[k])
        BY <1>2, <4>1 DEF Sums
      <4> QED
        BY <4>1, <4>2 DEF k
    <3>3. Blocks(r[i]) \in Int
      BY DEF Weighed
    <3>4. g[i] = h[Len(s) + i] - h[Len(s)] /\ g[i - 1] = h[Len(s) + (i - 1)] - h[Len(s)]
      BY <3>1
    <3>5. h[Len(s) + (i - 1)] \in Int /\ h[Len(s)] \in Int
      BY <1>3, <3>1
    <3>6. \A a, b, c \in Int : (a + c) - b = (a - b) + c
      OBVIOUS
    <3> QED
      BY <3>2, <3>3, <3>4, <3>5, <3>6
  <2> QED
    BY <2>3, <2>4 DEF Sums
<1> HIDE DEF f, g
<1>6. /\ Total(m) = h[Len(m)] /\ Total(s) = f[Len(s)] /\ Total(s) \in Int
      /\ Total(r) = g[Len(r)] /\ Total(r) \in Int
  BY <1>1, <1>2, <1>4, <1>5, TotalIs
<1>7. f[Len(s)] = h[Len(s)] /\ g[Len(r)] = h[Len(m)] - h[Len(s)]
  BY <1>1 DEF f, g
<1>8. h[Len(m)] \in Int /\ h[Len(s)] \in Int
  BY <1>1, <1>3
<1>9. \A a, b \in Int : b + (a - b) = a
  OBVIOUS
<1> QED
  BY <1>6, <1>7, <1>8, <1>9 DEF m

(* No value, one, and several that take nothing.                           *)
LEMMA TotalOfFew ==
  ASSUME NEW V, Weighed(V)
  PROVE  /\ Total(<<>>) = 0
         /\ \A x \in V : Total(<<x>>) = Blocks(x)
         /\ \A s \in Seq(V) : (\A i \in 1 .. Len(s) : Blocks(s[i]) = 0) => Total(s) = 0
<1>1. ASSUME NEW s \in Seq(V), \A i \in 1 .. Len(s) : Blocks(s[i]) = 0 PROVE Total(s) = 0
  <2> DEFINE g == [i \in 0 .. Len(s) |-> 0]
  <2>1. Len(s) \in Nat /\ \A i \in 1 .. Len(s) : i \in 0 .. Len(s) /\ i - 1 \in 0 .. Len(s)
    OBVIOUS
  <2>2. Sums(s, g)
    BY <1>1, <2>1 DEF Sums
  <2>3. g[Len(s)] = 0
    BY <2>1
  <2> HIDE DEF g
  <2> QED
    BY <2>2, <2>3, TotalIs
<1>2. Total(<<>>) = 0
  <2>1. <<>> \in Seq(V) /\ \A i \in 1 .. Len(<<>>) : FALSE
    OBVIOUS
  <2> QED
    BY <1>1, <2>1
<1>3. ASSUME NEW x \in V PROVE Total(<<x>>) = Blocks(x)
  <2> DEFINE s == <<x>>
             g == [i \in 0 .. 1 |-> IF i = 0 THEN 0 ELSE Blocks(x)]
  <2>1. s \in Seq(V) /\ Len(s) = 1 /\ s[1] = x /\ Blocks(x) \in Int
    BY DEF Weighed
  <2>2. g \in [0 .. 1 -> Int] /\ g[0] = 0 /\ g[1] = Blocks(x)
    BY <2>1
  <2> HIDE DEF s, g
  <2>3. \A i \in 1 .. 1 : i = 1 /\ i - 1 = 0
    OBVIOUS
  <2>4. g[1] = g[0] + Blocks(s[1])
    BY <2>1, <2>2
  <2>5. Sums(s, g)
    BY <2>1, <2>2, <2>3, <2>4 DEF Sums
  <2>6. Total(s) = g[1]
    BY <2>1, <2>5, TotalIs
  <2> QED
    BY <2>2, <2>6 DEF s
<1> QED
  BY <1>1, <1>2, <1>3

(* What a cut takes out, and what is left.                                 *)
LEMMA TotalCut ==
  ASSUME NEW V, Weighed(V), NEW s \in Seq(V), NEW i \in Nat, NEW j \in Nat, i <= j, j <= Len(s)
  PROVE  /\ Total(s) = Total(Without(s, i, j)) + Total(SubSeq(s, i + 1, j))
         /\ Total(Without(s, i, j)) \in Int /\ Total(SubSeq(s, i + 1, j)) \in Int
<1> DEFINE a == SubSeq(s, 1, i)
           b == SubSeq(s, i + 1, j)
           c == SubSeq(s, j + 1, Len(s))
<1>1. Len(s) \in Nat /\ i + 1 \in Nat /\ j + 1 \in Nat /\ i + 1 >= 1 /\ j + 1 >= 1 /\ i <= Len(s)
  OBVIOUS
<1>2. a \in Seq(V) /\ b \in Seq(V) /\ c \in Seq(V)
  BY <1>1, SubSequence
<1>3. /\ Len(a) = i /\ \A k \in 1 .. i : a[k] = s[k]
      /\ Len(b) = j - i /\ \A k \in 1 .. j - i : b[k] = s[k + i]
      /\ Len(c) = Len(s) - j /\ \A k \in 1 .. Len(s) - j : c[k] = s[k + j]
  <2>1. \A k, l \in Nat : k - (l + 1) + 1 = k - l
    OBVIOUS
  <2>2. /\ \A k \in i + 1 .. j : k \in 1 .. Len(s)
        /\ \A k \in j + 1 .. Len(s) : k \in 1 .. Len(s)
    BY <1>1
  <2>3. Len(a) = i /\ \A k \in 1 .. i : a[k] = s[k]
    BY <1>1
  <2>4. Len(b) = j - i /\ \A k \in 1 .. j - i : b[k] = s[k + i]
    BY <1>1, <2>1, <2>2
  <2>5. Len(c) = Len(s) - j /\ \A k \in 1 .. Len(s) - j : c[k] = s[k + j]
    BY <1>1, <2>1, <2>2
  <2> QED
    BY <2>3, <2>4, <2>5
<1>4. Without(s, i, j) = a \o c
  BY DEF Without
<1> HIDE DEF a, b, c
<1>5. PICK d \in Seq(V) :
        /\ d = b \o c /\ Len(d) = Len(b) + Len(c)
        /\ \A k \in 1 .. Len(b) : d[k] = b[k]
        /\ \A k \in Len(b) + 1 .. Len(b) + Len(c) : d[k] = c[k - Len(b)]
  <2>1. /\ b \o c \in Seq(V) /\ Len(b \o c) = Len(b) + Len(c)
        /\ \A k \in 1 .. Len(b) : (b \o c)[k] = b[k]
        /\ \A k \in Len(b) + 1 .. Len(b) + Len(c) : (b \o c)[k] = c[k - Len(b)]
    BY <1>2, Joined, ZenonT(40)
  <2> QED
    BY <2>1, Zenon
<1>6. PICK e \in Seq(V) :
        /\ e = a \o d /\ Len(e) = Len(a) + Len(d)
        /\ \A k \in 1 .. Len(a) : e[k] = a[k]
        /\ \A k \in Len(a) + 1 .. Len(a) + Len(d) : e[k] = d[k - Len(a)]
  <2>1. /\ a \o d \in Seq(V) /\ Len(a \o d) = Len(a) + Len(d)
        /\ \A k \in 1 .. Len(a) : (a \o d)[k] = a[k]
        /\ \A k \in Len(a) + 1 .. Len(a) + Len(d) : (a \o d)[k] = d[k - Len(a)]
    BY <1>2, Joined, ZenonT(40)
  <2> QED
    BY <2>1, Zenon
<1>7. s = e
  <2>1. Len(d) = Len(s) - i /\ Len(e) = Len(s)
    <3>1. (j - i) + (Len(s) - j) = Len(s) - i /\ i + (Len(s) - i) = Len(s)
      BY <1>1
    <3> QED
      BY <1>3, <1>5, <1>6, <3>1
  <2>2. ASSUME NEW k \in 1 .. Len(s) PROVE s[k] = e[k]
    <3>1. CASE k <= i
      <4>1. k \in 1 .. i
        BY <1>1, <3>1
      <4> QED
        BY <1>3, <1>6, <4>1
    <3>2. CASE ~(k <= i) /\ k <= j
      <4>1. k - i \in 1 .. j - i /\ k - i + i = k /\ k \in Len(a) + 1 .. Len(a) + Len(d)
        BY <1>1, <1>3, <2>1, <3>2
      <4>2. e[k] = d[k - i] /\ d[k - i] = b[k - i] /\ b[k - i] = s[k]
        BY <1>3, <1>5, <1>6, <4>1
      <4> QED
        BY <4>2
    <3>3. CASE ~(k <= j)
      <4>1. /\ k - i \in Len(b) + 1 .. Len(b) + Len(c) /\ k \in Len(a) + 1 .. Len(a) + Len(d)
            /\ (k - i) - Len(b) = k - j /\ k - j \in 1 .. Len(s) - j /\ k - j + j = k
        BY <1>1, <1>3, <2>1, <3>3, SMTT(30)
      <4>2. e[k] = d[k - i] /\ d[k - i] = c[k - j] /\ c[k - j] = s[k]
        BY <1>3, <1>5, <1>6, <4>1
      <4> QED
        BY <4>2
    <3> QED
      BY <1>1, <3>1, <3>2, <3>3
  <2> QED
    BY <1>6, <2>1, <2>2, SameSequence
<1>8. /\ Total(s) = Total(a) + Total(d) /\ Total(d) = Total(b) + Total(c)
      /\ Total(a \o c) = Total(a) + Total(c)
      /\ Total(a) \in Int /\ Total(b) \in Int /\ Total(c) \in Int
  BY <1>2, <1>5, <1>6, <1>7, TotalAdds
<1>9. \A x, y, z \in Int : x + (y + z) = (x + z) + y
  OBVIOUS
<1>10. Total(a) + Total(c) \in Int
  BY <1>8
<1> QED
  BY <1>4, <1>8, <1>9, <1>10 DEF b

(* One place of a sequence, without it, and with another value there.      *)
LEMMA TotalOfOne ==
  ASSUME NEW V, Weighed(V), NEW s \in Seq(V), NEW p \in 0 .. Len(s) - 1
  PROVE  /\ Total(SubSeq(s, p + 1, p + 1)) = Blocks(s[p + 1])
         /\ Total(s) = Total(Without(s, p, p + 1)) + Blocks(s[p + 1])
         /\ Total(Without(s, p, p + 1)) \in Int /\ Blocks(s[p + 1]) \in Int
<1>1. /\ Len(s) \in Nat /\ p \in Nat /\ p + 1 \in Nat /\ p <= p + 1 /\ p + 1 <= Len(s)
      /\ p + 1 >= 1 /\ s[p + 1] \in V
  OBVIOUS
<1>2. SubSeq(s, p + 1, p + 1) = <<s[p + 1]>>
  <2>1. SubSeq(s, p + 1, p + 1) \in Seq(V)
    BY <1>1, SubSequence
  <2>2. <<s[p + 1]>> \in Seq(V) /\ Len(<<s[p + 1]>>) = 1 /\ <<s[p + 1]>>[1] = s[p + 1]
    BY <1>1
  <2>3. Len(SubSeq(s, p + 1, p + 1)) = 1 /\ SubSeq(s, p + 1, p + 1)[1] = s[p + 1]
    BY <1>1
  <2>4. \A i \in 1 .. 1 : i = 1
    OBVIOUS
  <2> QED
    BY <2>1, <2>2, <2>3, <2>4, SameSequence
<1>3. Total(SubSeq(s, p + 1, p + 1)) = Blocks(s[p + 1]) /\ Blocks(s[p + 1]) \in Int
  BY <1>1, <1>2, TotalOfFew DEF Weighed
<1> QED
  BY <1>1, <1>3, TotalCut, SMTT(30)

LEMMA TotalLonger ==
  ASSUME NEW V, Weighed(V), NEW s \in Seq(V), NEW i \in Nat, NEW j \in Nat, i < j, j <= Len(s)
  PROVE  /\ Total(SubSeq(s, i + 1, j)) = Total(SubSeq(s, i + 1, j - 1)) + Blocks(s[j])
         /\ Total(SubSeq(s, i + 1, j - 1)) \in Int
<1> DEFINE a == SubSeq(s, i + 1, j - 1)
           b == SubSeq(s, j, j)
           c == SubSeq(s, i + 1, j)
<1>1. /\ Len(s) \in Nat /\ i + 1 \in Nat /\ j - 1 \in Nat /\ i + 1 >= 1 /\ j >= 1
      /\ j - 1 <= Len(s) /\ j \in 1 .. Len(s) /\ \A k \in i + 1 .. j : k \in 1 .. Len(s)
  OBVIOUS
<1>2. a \in Seq(V) /\ b \in Seq(V) /\ c \in Seq(V)
  BY <1>1, SubSequence
<1>3. /\ Len(a) = j - 1 - i /\ Len(b) = 1 /\ Len(c) = j - i
      /\ \A k \in 1 .. j - 1 - i : a[k] = s[k + i]
      /\ b[1] = s[j]
      /\ \A k \in 1 .. j - i : c[k] = s[k + i]
  <2>1. i <= j - 1 /\ i <= j /\ j <= Len(s)
    BY <1>1
  <2>2. Len(a) = j - 1 - i /\ \A k \in 1 .. j - 1 - i : a[k] = s[k + i]
    <3>1. PICK l \in Nat : l = j - 1
      BY <1>1
    <3>2. i <= l /\ l <= Len(s)
      BY <1>1, <2>1, <3>1
    <3>3. /\ Len(SubSeq(s, i + 1, l)) = l - i
          /\ \A k \in 1 .. l - i : SubSeq(s, i + 1, l)[k] = s[k + i]
      BY <3>2, SubSequenceMeans
    <3> QED
      BY <3>1, <3>3, Zenon
  <2>3. Len(b) = 1 /\ b[1] = s[j]
    BY <1>1
  <2>4. Len(c) = j - i /\ \A k \in 1 .. j - i : c[k] = s[k + i]
    BY <1>1, <2>1, SubSequenceMeans
  <2> QED
    BY <2>2, <2>3, <2>4
<1>4. Total(b) = Blocks(s[j])
  <2>1. j - 1 \in 0 .. Len(s) - 1 /\ j - 1 + 1 = j
    BY <1>1
  <2>2. Total(SubSeq(s, j - 1 + 1, j - 1 + 1)) = Blocks(s[j - 1 + 1])
    BY <2>1, TotalOfOne
  <2> QED
    BY <2>1, <2>2
<1> HIDE DEF a, b, c
<1>5. PICK e \in Seq(V) :
        /\ e = a \o b /\ Len(e) = Len(a) + Len(b)
        /\ \A k \in 1 .. Len(a) : e[k] = a[k]
        /\ \A k \in Len(a) + 1 .. Len(a) + Len(b) : e[k] = b[k - Len(a)]
  <2>1. /\ a \o b \in Seq(V) /\ Len(a \o b) = Len(a) + Len(b)
        /\ \A k \in 1 .. Len(a) : (a \o b)[k] = a[k]
        /\ \A k \in Len(a) + 1 .. Len(a) + Len(b) : (a \o b)[k] = b[k - Len(a)]
    BY <1>2, Joined, ZenonT(40)
  <2> QED
    BY <2>1, Zenon
<1>6. c = e
  <2>1. Len(e) = j - i
    BY <1>1, <1>3, <1>5
  <2>2. ASSUME NEW k \in 1 .. j - i PROVE c[k] = e[k]
    <3>1. CASE k = j - i
      <4>1. k \in Len(a) + 1 .. Len(a) + Len(b) /\ k - Len(a) = 1 /\ k + i = j
        BY <1>1, <1>3, <3>1
      <4> QED
        BY <1>3, <1>5, <4>1
    <3>2. CASE k # j - i
      <4>1. k \in 1 .. j - 1 - i
        BY <3>2
      <4> QED
        BY <1>3, <1>5, <4>1
    <3> QED
      BY <3>1, <3>2
  <2> QED
    BY <1>2, <1>3, <1>5, <2>1, <2>2, SameSequence
<1>7. Total(c) = Total(a) + Total(b) /\ Total(a) \in Int
  BY <1>2, <1>5, <1>6, TotalAdds
<1> QED
  BY <1>4, <1>7 DEF a, c

LEMMA TotalChanged ==
  ASSUME NEW V, Weighed(V), NEW s \in Seq(V), NEW t \in Seq(V), Len(s) = Len(t),
         NEW p \in 0 .. Len(s) - 1, \A i \in 1 .. Len(s) : i # p + 1 => t[i] = s[i]
  PROVE  Total(t) = Total(s) - Blocks(s[p + 1]) + Blocks(t[p + 1])
<1>1. /\ Without(s, p, p + 1) \in Seq(V) /\ Len(Without(s, p, p + 1)) = Len(s) - 1
      /\ \A i \in 1 .. Len(s) - 1 :
           Without(s, p, p + 1)[i] = IF i <= p THEN s[i] ELSE s[i + 1]
      /\ Without(t, p, p + 1) \in Seq(V) /\ Len(Without(t, p, p + 1)) = Len(s) - 1
      /\ \A i \in 1 .. Len(s) - 1 :
           Without(t, p, p + 1)[i] = IF i <= p THEN t[i] ELSE t[i + 1]
  BY WithoutOne, SMTT(30)
<1>2. ASSUME NEW i \in 1 .. Len(s) - 1 PROVE Without(s, p, p + 1)[i] = Without(t, p, p + 1)[i]
  <2>1. /\ i <= p => i \in 1 .. Len(s) /\ i # p + 1
        /\ ~(i <= p) => i + 1 \in 1 .. Len(s) /\ i + 1 # p + 1
    OBVIOUS
  <2> QED
    BY <1>1, <2>1
<1>3. Without(s, p, p + 1) = Without(t, p, p + 1)
  BY <1>1, <1>2, SameSequence
<1>4. /\ Total(s) = Total(Without(s, p, p + 1)) + Blocks(s[p + 1])
      /\ Total(t) = Total(Without(t, p, p + 1)) + Blocks(t[p + 1])
      /\ Total(Without(s, p, p + 1)) \in Int /\ Blocks(s[p + 1]) \in Int /\ Blocks(t[p + 1]) \in Int
  BY TotalOfOne
<1>5. \A a, b, c \in Int : a + c = ((a + b) - b) + c
  OBVIOUS
<1> QED
  BY <1>3, <1>4, <1>5

-----------------------------------------------------------------------------
(* Blocks adds up: what a value takes is its own block and what its        *)
(* members take. OwnedBlocks is defined so; the values a program begins    *)
(* with have it by ProgramAssumption, and the ones it makes need it too.   *)
BlocksAdd == \A V : Closed(V) => \A v \in V : Blocks(v) \in Nat /\ Blocks(v) = OwnBlocks(v)

LEMMA BlocksOf ==
  ASSUME BlocksAdd, NEW V, Closed(V), NEW v, ContainerOf(v, V)
  PROVE  /\ Weighed(V \cup {v}) /\ Closed(V \cup {v}) /\ Blocks(v) \in Nat
         /\ v.type \in Compound =>
              /\ Blocks(v) = 1 + Total(Members(v)) /\ Total(Members(v)) \in Int
              /\ Members(v) \in Seq(V)
         /\ v.type = "string" => Blocks(v) = 1
         /\ v.type \notin Compound \cup {"string"} => Blocks(v) = 0
<1> DEFINE W == V \cup {v}
<1>1. Closed(W) /\ v \in W
  BY ClosedGrows
<1> HIDE DEF W
<1>2. Weighed(W) /\ Blocks(v) \in Nat /\ Blocks(v) = OwnBlocks(v)
  BY <1>1 DEF BlocksAdd, Weighed
<1>3. ASSUME v.type \in Compound
      PROVE  Blocks(v) = 1 + Total(Members(v)) /\ Total(Members(v)) \in Int /\ Members(v) \in Seq(V)
  <2>1. ContainerOf(v, W)
    BY <1>1 DEF Closed
  <2>2. Members(v) \in Seq(W)
    BY <1>1, <2>1, MembersOf
  <2>3. Total(Members(v)) \in Int
    <3>1. PICK s \in Seq(W) : s = Members(v)
      BY <2>2
    <3>2. \E g : Sums(s, g)
      BY <1>2, SumsExist
    <3> QED
      BY <1>2, <3>1, <3>2, TotalIs
  <2>4. Blocks(v) = 1 + Total(Members(v))
    BY <1>2, <1>3 DEF OwnBlocks, Compound
  <2>5. Members(v) \in Seq(V)
    <3>1. CASE v.type = "array"
      BY <3>1, ContainerTypes DEF Members
    <3>2. CASE v.type = "object"
      <4> DEFINE D == DOMAIN v.members
      <4>1. KeyedBy(v, D) /\ v.members \in [D -> V]
        BY <3>2, ContainerTypes
      <4>2. Keys(v) \in Seq(D)
        BY <4>1, KeysInOrder
      <4>3. Members(v) = [i \in DOMAIN Keys(v) |-> v.members[Keys(v)[i]]]
        BY <3>2 DEF Members
      <4>4. DOMAIN Keys(v) = 1 .. Len(Keys(v)) /\ \A i \in DOMAIN Keys(v) : Keys(v)[i] \in D
        BY <4>2
      <4>5. Members(v) \in [1 .. Len(Keys(v)) -> V] /\ Len(Keys(v)) \in Nat
        BY <4>1, <4>2, <4>3, <4>4
      <4> QED
        BY <4>5
    <3> QED
      BY <1>3, <3>1, <3>2 DEF Compound
  <2> QED
    BY <2>3, <2>4, <2>5
<1>4. /\ v.type = "string" => Blocks(v) = 1
      /\ v.type \notin Compound \cup {"string"} => Blocks(v) = 0
  BY <1>2 DEF OwnBlocks, Compound
<1> QED
  BY <1>1, <1>2, <1>3, <1>4 DEF W

LEMMA NullTakesNothing ==
  ASSUME BlocksAdd
  PROVE  Blocks(Null) = 0
<1>1. Closed({}) /\ ContainerOf(Null, {}) /\ Null.type \notin Compound \cup {"string"}
  BY DEF Closed, ContainerOf, Null, Compound
<1> QED
  BY <1>1, BlocksOf

(* A member is taken out of an object.                                     *)
LEMMA KeyTaken ==
  ASSUME BlocksAdd, NEW V, Closed(V), NEW o, ContainerOf(o, V), o.type = "object",
         NEW k \in DOMAIN o.members
  PROVE  /\ ContainerOf(EraseKey(o, k), V) /\ o.members[k] \in V
         /\ Total(Members(o)) = Total(Members(EraseKey(o, k))) + Blocks(o.members[k])
         /\ Total(Members(EraseKey(o, k))) \in Int /\ Blocks(o.members[k]) \in Int
<1> DEFINE W == V \cup {o}
           D == DOMAIN o.members
           n == Rank(o, k)
           m == Members(o)
<1>1. Closed(W) /\ Weighed(W) /\ o \in W /\ ContainerOf(o, W)
  <2>1. Closed(W) /\ Weighed(W)
    BY BlocksOf
  <2> QED
    BY <2>1 DEF Closed
<1>2. KeyedBy(o, D) /\ o.members \in [D -> V]
  BY ContainerTypes
<1>3. n + 1 \in 1 .. Cardinality(D) /\ Keys(o)[n + 1] = k /\ Cardinality(D) \in Nat /\ n \in Nat
  <2>1. n \in 0 .. Cardinality(D) - 1
    BY <1>2, RankType
  <2> QED
    BY <1>2, <2>1, KeysInOrder
<1>4. m \in Seq(W) /\ Len(m) = Cardinality(D) /\ m[n + 1] = o.members[k]
  <2>1. /\ m \in Seq(W) /\ Len(m) = Cardinality(D)
        /\ \A i \in 1 .. Len(m) : m[i] = o.members[Keys(o)[i]]
    BY <1>1, MembersOf
  <2> HIDE DEF n, m
  <2> QED
    BY <1>3, <2>1
<1>5. EraseRange(o, n, n + 1) = EraseKey(o, k)
  <2>1. {Keys(o)[i] : i \in n + 1 .. n + 1} = {k}
    BY <1>3
  <2>2. EraseRange(o, n, n + 1) =
          [o EXCEPT !.members = [l \in D \ {Keys(o)[i] : i \in n + 1 .. n + 1} |-> o.members[l]]]
    BY DEF EraseRange
  <2>3. EraseKey(o, k) = [o EXCEPT !.members = [l \in D \ {k} |-> o.members[l]]]
    BY DEF EraseKey
  <2> QED
    BY <2>1, <2>2, <2>3
<1>6. n < Len(m) /\ BeginOf(o) = 0 /\ BeginOf(o) + n = n
  BY <1>3, <1>4 DEF BeginOf
<1>7. Members(EraseKey(o, k)) = Without(m, n, n + 1)
  <2> DEFINE e == EraseAt(o, BeginOf(o) + n)
  <2>1. e.value = EraseRange(o, n, n + 1)
    BY <1>6 DEF EraseAt
  <2>2. Members(e.value) = Without(m, n, n + 1)
    <3> HIDE DEF n
    <3> QED
      BY <1>1, <1>3, <1>6, EraseOne
  <2> QED
    BY <1>5, <2>1, <2>2
<1>8. ContainerOf(EraseKey(o, k), V)
  <2>1. EraseKey(o, k) = [o EXCEPT !.members = [l \in D \ {k} |-> o.members[l]]]
    BY DEF EraseKey
  <2>2. D \ {k} \subseteq DOMAIN o.members
    OBVIOUS
  <2> QED
    BY <2>1, <2>2, FewerMembers
<1>9. o.members[k] \in V
  BY <1>2
<1> HIDE DEF n, m, W
<1>10. n \in 0 .. Len(m) - 1
  BY <1>3, <1>6, <1>4
<1>11. /\ Total(m) = Total(Without(m, n, n + 1)) + Blocks(m[n + 1])
       /\ Total(Without(m, n, n + 1)) \in Int /\ Blocks(m[n + 1]) \in Int
  BY <1>1, <1>4, <1>10, TotalOfOne
<1> QED
  BY <1>4, <1>7, <1>8, <1>9, <1>11 DEF m

(* What a value gains or loses by each operation.                          *)
LEMMA EmptyContainers ==
  ASSUME NEW V
  PROVE  /\ ContainerOf(EmptyObject, V) /\ Members(EmptyObject) = <<>>
         /\ ContainerOf(EmptyArray, V) /\ Members(EmptyArray) = <<>>
         /\ EmptyObject.type = "object" /\ EmptyArray.type = "array"
<1>1. <<>> \in Seq(V)
  OBVIOUS
<1>2. ContainerOf(EmptyArray, V) /\ Members(EmptyArray) = <<>> /\ EmptyArray.type = "array"
  BY <1>1, ArrayOf DEF EmptyArray, Members
<1>3. ContainerOf(EmptyObject, V) /\ EmptyObject.type = "object" /\ DOMAIN EmptyObject.members = {}
  <2>1. [k \in {} |-> Null] \in [{} -> V] /\ IsFiniteSet({}) /\ {} \subseteq Strings
    BY FS_EmptySet
  <2>2. ContainerOf(EmptyObject, V)
    BY <2>1, ObjectOf DEF EmptyObject
  <2> QED
    BY <2>2 DEF EmptyObject
<1>4. Members(EmptyObject) = <<>>
  <2> DEFINE W == V \cup {EmptyObject}
  <2>1. ContainerOf(EmptyObject, W) /\ EmptyObject \in W
    <3>1. V \subseteq W
      OBVIOUS
    <3> QED
      BY <1>3, <3>1, ContainerGrows
  <2> HIDE DEF W
  <2>2. Members(EmptyObject) \in Seq(W) /\ Len(Members(EmptyObject)) = Cardinality({})
    BY <1>3, <2>1, MembersOf
  <2>3. Cardinality({}) = 0
    BY FS_EmptySet
  <2> QED
    BY <2>2, <2>3
<1> QED
  BY <1>2, <1>3, <1>4

FromNull(v) == IF v.type = "null" THEN 1 ELSE 0

LEMMA InsertBlocks ==
  ASSUME BlocksAdd, NEW V, Closed(V), NEW o \in V, NEW x \in V, NEW k \in Strings,
         Insert(o, k, x) # Thrown
  PROVE  /\ Blocks(Insert(o, k, x)) = Blocks(o) + (FromNull(o) + Blocks(x) - Blocks(At(o, k)))
         /\ Blocks(At(o, k)) \in Int
<1> DEFINE w == Insert(o, k, x)
           members == IF o.type = "null" THEN EmptyObject.members ELSE o.members
<1>1. o.type \in {"null", "object"} /\ ContainerOf(o, V)
  BY DEF Insert, Closed
<1>2. w = [type |-> "object",
           members |-> [l \in DOMAIN members \cup {k} |-> IF l = k THEN x ELSE members[l]]]
  BY <1>1 DEF Insert
<1> HIDE DEF members
<1>3. /\ w.type = "object" /\ DOMAIN w.members = DOMAIN members \cup {k} /\ w.members[k] = x
      /\ \A l \in DOMAIN members \ {k} : w.members[l] = members[l]
  BY <1>2
<1>4. ContainerOf(w, V)
  BY InsertMakes DEF Made
<1>5. EraseKey(w, k) = [type |-> "object", members |-> [l \in DOMAIN members \ {k} |-> members[l]]]
  <2>1. EraseKey(w, k) = [w EXCEPT !.members = [l \in DOMAIN w.members \ {k} |-> w.members[l]]]
    BY <1>3 DEF EraseKey
  <2>2. [l \in DOMAIN w.members \ {k} |-> w.members[l]] = [l \in DOMAIN members \ {k} |-> members[l]]
    BY <1>3
  <2> QED
    BY <1>2, <2>1, <2>2
<1> HIDE DEF w
<1>6. /\ Total(Members(w)) = Total(Members(EraseKey(w, k))) + Blocks(x)
      /\ Total(Members(EraseKey(w, k))) \in Int
  BY <1>3, <1>4, KeyTaken
<1>7. Blocks(w) = 1 + Total(Members(w)) /\ Blocks(x) \in Int /\ Blocks(o) \in Int
  <2>1. ContainerOf(x, V) /\ ContainerOf(o, V)
    BY DEF Closed
  <2>2. Blocks(x) \in Nat /\ Blocks(o) \in Nat
    BY <2>1, BlocksOf
  <2>3. w.type \in Compound
    BY <1>3 DEF Compound
  <2>4. Blocks(w) = 1 + Total(Members(w))
    BY <1>4, <2>3, BlocksOf
  <2> QED
    BY <2>2, <2>4
<1>8. CASE o.type = "null"
  <2>1. EraseKey(w, k) = EmptyObject
    <3>1. members = [l \in {} |-> Null]
      BY <1>8 DEF members, EmptyObject
    <3>2. [l \in DOMAIN members \ {k} |-> members[l]] = [l \in {} |-> Null]
      BY <3>1
    <3> QED
      BY <1>5, <3>2 DEF EmptyObject
  <2>2. Total(Members(EraseKey(w, k))) = 0
    <3>1. Weighed({})
      BY DEF Weighed
    <3>2. Total(<<>>) = 0
      BY <3>1, TotalOfFew
    <3> QED
      BY <2>1, <3>2, EmptyContainers
  <2>3. o = Null /\ At(o, k) = Null
    BY <1>1, <1>8, ContainerTypes DEF At
  <2>4. Blocks(o) = 0 /\ Blocks(At(o, k)) = 0
    BY <2>3, NullTakesNothing
  <2> QED
    BY <1>6, <1>7, <1>8, <2>2, <2>4 DEF FromNull, w
<1>9. CASE o.type = "object" /\ k \in DOMAIN o.members
  <2>1. members = o.members /\ At(o, k) = o.members[k]
    BY <1>9 DEF members, At
  <2>2. EraseKey(w, k) = EraseKey(o, k)
    <3>1. o = [type |-> "object", members |-> o.members]
      BY <1>1, <1>9, ContainerTypes
    <3>2. EraseKey(o, k) = [o EXCEPT !.members = [l \in DOMAIN o.members \ {k} |-> o.members[l]]]
      BY <1>9 DEF EraseKey
    <3> QED
      BY <1>5, <2>1, <3>1, <3>2
  <2>3. /\ Total(Members(o)) = Total(Members(EraseKey(o, k))) + Blocks(At(o, k))
        /\ Blocks(At(o, k)) \in Int
    BY <1>1, <1>9, <2>1, KeyTaken
  <2>4. Blocks(o) = 1 + Total(Members(o))
    BY <1>1, <1>9, BlocksOf DEF Compound
  <2> QED
    BY <1>6, <1>7, <1>9, <2>2, <2>3, <2>4 DEF FromNull, w
<1>10. CASE o.type = "object" /\ k \notin DOMAIN o.members
  <2>1. members = o.members /\ At(o, k) = Null
    BY <1>10 DEF members, At
  <2>2. EraseKey(w, k) = o
    <3>1. o = [type |-> "object", members |-> o.members] /\ o.members \in [DOMAIN o.members -> V]
      BY <1>1, <1>10, ContainerTypes
    <3>2. [l \in DOMAIN o.members \ {k} |-> o.members[l]] = o.members
      BY <1>10, <3>1
    <3> QED
      BY <1>5, <2>1, <3>1, <3>2
  <2>3. Blocks(At(o, k)) = 0
    BY <2>1, NullTakesNothing
  <2>4. Blocks(o) = 1 + Total(Members(o))
    BY <1>1, <1>10, BlocksOf DEF Compound
  <2> QED
    BY <1>6, <1>7, <1>10, <2>2, <2>3, <2>4 DEF FromNull, w
<1> QED
  BY <1>1, <1>8, <1>9, <1>10

LEMMA PushPairBlocks ==
  ASSUME BlocksAdd, NEW V, Closed(V), NEW o \in V, NEW x \in V, NEW k \in Strings,
         PushPair(o, k, x) # Thrown
  PROVE  Blocks(PushPair(o, k, x)) =
           Blocks(o) + (FromNull(o) + IF Count(o, k) = 0 THEN Blocks(x) ELSE 0)
<1>1. Blocks(o) \in Int /\ Blocks(x) \in Int
  <2>1. ContainerOf(o, V) /\ ContainerOf(x, V)
    BY DEF Closed
  <2> QED
    BY <2>1, BlocksOf
<1>2. CASE Count(o, k) = 1
  <2>1. o.type = "object"
    BY <1>2 DEF Count
  <2> QED
    BY <1>1, <1>2, <2>1 DEF PushPair, FromNull
<1>3. CASE Count(o, k) = 0
  <2>1. PushPair(o, k, x) = Insert(o, k, x)
    BY <1>3 DEF PushPair
  <2>2. At(o, k) = Null
    BY <1>3, <2>1 DEF Insert, At, Count
  <2>3. Blocks(Insert(o, k, x)) = Blocks(o) + (FromNull(o) + Blocks(x) - Blocks(At(o, k)))
    BY <2>1, InsertBlocks
  <2>4. Blocks(At(o, k)) = 0 /\ FromNull(o) \in Int
    BY <2>2, NullTakesNothing DEF FromNull
  <2> QED
    BY <1>1, <1>3, <2>1, <2>3, <2>4
<1> QED
  BY <1>2, <1>3 DEF Count

LEMMA EraseKeyBlocks ==
  ASSUME BlocksAdd, NEW V, Closed(V), NEW o \in V, NEW k, EraseKey(o, k) # Thrown
  PROVE  /\ o.type = "object" /\ Blocks(EraseKey(o, k)) = Blocks(o) - Blocks(At(o, k))
         /\ Blocks(At(o, k)) \in Int
<1>1. o.type = "object" /\ ContainerOf(o, V)
  BY DEF EraseKey, Closed
<1>2. Blocks(o) = 1 + Total(Members(o)) /\ Blocks(o) \in Int
  BY <1>1, BlocksOf DEF Compound
<1>3. CASE k \in DOMAIN o.members
  <2>1. /\ ContainerOf(EraseKey(o, k), V)
        /\ Total(Members(o)) = Total(Members(EraseKey(o, k))) + Blocks(o.members[k])
        /\ Total(Members(EraseKey(o, k))) \in Int /\ Blocks(o.members[k]) \in Int
    BY <1>1, <1>3, KeyTaken
  <2>2. EraseKey(o, k).type = "object"
    <3>1. o = [type |-> "object", members |-> o.members]
      BY <1>1, ContainerTypes
    <3>2. EraseKey(o, k) = [o EXCEPT !.members = [l \in DOMAIN o.members \ {k} |-> o.members[l]]]
      BY <1>1 DEF EraseKey
    <3> QED
      BY <3>1, <3>2
  <2>3. Blocks(EraseKey(o, k)) = 1 + Total(Members(EraseKey(o, k)))
    BY <2>1, <2>2, BlocksOf DEF Compound
  <2>4. At(o, k) = o.members[k]
    BY <1>1, <1>3 DEF At
  <2> QED
    BY <1>1, <1>2, <2>1, <2>3, <2>4
<1>4. CASE k \notin DOMAIN o.members
  <2>1. EraseKey(o, k) = o
    <3>1. o = [type |-> "object", members |-> o.members] /\ o.members \in [DOMAIN o.members -> V]
      BY <1>1, ContainerTypes
    <3>2. [l \in DOMAIN o.members \ {k} |-> o.members[l]] = o.members
      BY <1>4, <3>1
    <3>3. EraseKey(o, k) = [o EXCEPT !.members = [l \in DOMAIN o.members \ {k} |-> o.members[l]]]
      BY <1>1 DEF EraseKey
    <3> QED
      BY <3>1, <3>2, <3>3
  <2>2. Blocks(At(o, k)) = 0
    BY <1>1, <1>4, NullTakesNothing DEF At
  <2> QED
    BY <1>1, <1>2, <2>1, <2>2
<1> QED
  BY <1>3, <1>4

LEMMA ArrayBlocks ==
  ASSUME BlocksAdd, NEW V, Closed(V), NEW s \in Seq(V)
  PROVE  /\ Blocks([type |-> "array", elements |-> s]) = 1 + Total(s) /\ Total(s) \in Int
         /\ Weighed(V)
<1> DEFINE a == [type |-> "array", elements |-> s]
<1>1. a.type = "array" /\ Members(a) = s
  BY DEF Members
<1>2. ContainerOf(a, V)
  BY ArrayOf
<1> HIDE DEF a
<1>3. Blocks(a) = 1 + Total(Members(a)) /\ Total(Members(a)) \in Int
  BY <1>1, <1>2, BlocksOf DEF Compound
<1>4. Weighed(V)
  BY <1>2, BlocksOf DEF Weighed
<1> QED
  BY <1>1, <1>3, <1>4 DEF a

(* An array, or null, is what its elements are.                            *)
LEMMA ElementsOf ==
  ASSUME BlocksAdd, NEW V, Closed(V), NEW v \in V, v.type \in {"null", "array"}
  PROVE  LET old == IF v.type = "null" THEN <<>> ELSE v.elements
         IN  /\ old \in Seq(V) /\ Total(old) \in Int
             /\ 1 + Total(old) = Blocks(v) + FromNull(v) /\ Blocks(v) \in Int
<1>1. ContainerOf(v, V)
  BY DEF Closed
<1>2. Blocks(v) \in Int /\ Weighed(V)
  BY <1>1, BlocksOf DEF Weighed
<1>3. CASE v.type = "null"
  <2>1. Blocks(v) = 0
    BY <1>1, <1>3, ContainerTypes, NullTakesNothing
  <2>2. Total(<<>>) = 0 /\ <<>> \in Seq(V)
    BY <1>2, TotalOfFew, EmptyJoined
  <2> QED
    BY <1>2, <1>3, <2>1, <2>2 DEF FromNull
<1>4. CASE v.type = "array"
  <2>1. v = [type |-> "array", elements |-> v.elements] /\ v.elements \in Seq(V)
    BY <1>1, <1>4, ContainerTypes
  <2>2. Blocks(v) = 1 + Total(v.elements) /\ Total(v.elements) \in Int
    BY <2>1, ArrayBlocks
  <2> QED
    BY <1>2, <1>4, <2>1, <2>2 DEF FromNull
<1> QED
  BY <1>3, <1>4

LEMMA PushBackBlocks ==
  ASSUME BlocksAdd, NEW V, Closed(V), NEW a \in V, NEW x \in V, PushBack(a, x) # Thrown
  PROVE  Blocks(PushBack(a, x)) = Blocks(a) + (FromNull(a) + Blocks(x))
<1> DEFINE old == IF a.type = "null" THEN <<>> ELSE a.elements
           s == old \o <<x>>
<1>1. a.type \in {"null", "array"}
  BY DEF PushBack
<1>2. /\ old \in Seq(V) /\ Total(old) \in Int
      /\ 1 + Total(old) = Blocks(a) + FromNull(a) /\ Blocks(a) \in Int
  BY <1>1, ElementsOf
<1>3. PushBack(a, x) = [type |-> "array", elements |-> s]
  <2>1. CASE a.type = "null"
    <3>1. <<x>> \in Seq(V)
      OBVIOUS
    <3>2. s = <<x>>
      BY <2>1, <3>1, EmptyJoined
    <3> QED
      BY <2>1, <3>2 DEF PushBack
  <2>2. CASE a.type = "array"
    <3>1. a.elements \in Seq(V) /\ s = a.elements \o <<x>>
      BY <1>2, <2>2
    <3>2. Append(a.elements, x) = a.elements \o <<x>>
      BY <3>1
    <3> QED
      BY <2>2, <3>1, <3>2 DEF PushBack
  <2> QED
    BY <1>1, <2>1, <2>2
<1> HIDE DEF old
<1>4. PICK r \in Seq(V) : r = <<x>>
  <2>1. <<x>> \in Seq(V)
    OBVIOUS
  <2> QED
    BY <2>1, Zenon
<1>5. Weighed(V) /\ Blocks(x) \in Int
  BY <1>2, ArrayBlocks DEF Weighed
<1>6. Total(r) = Blocks(x)
  BY <1>4, <1>5, TotalOfFew
<1>7. Total(old \o r) = Total(old) + Total(r) /\ old \o r \in Seq(V)
  <2>1. old \o r \in Seq(V)
    BY <1>2, <1>4, Joined, Zenon
  <2> QED
    BY <1>2, <1>4, <1>5, <2>1, TotalAdds, Zenon
<1>8. Blocks(PushBack(a, x)) = 1 + Total(s)
  <2>1. s \in Seq(V)
    BY <1>4, <1>7
  <2> HIDE DEF s
  <2> QED
    BY <1>3, <2>1, ArrayBlocks
<1>9. Total(s) = Total(old) + Blocks(x)
  BY <1>4, <1>6, <1>7
<1>10. FromNull(a) \in Int
  BY DEF FromNull
<1>11. \A t, b, f, y \in Int : 1 + t = b + f => 1 + (t + y) = b + (f + y)
  OBVIOUS
<1> HIDE DEF s
<1> QED
  BY <1>2, <1>5, <1>8, <1>9, <1>10, <1>11

LEMMA PutIndexBlocks ==
  ASSUME BlocksAdd, NEW V, Closed(V), Null \in V, NEW v \in V, NEW x \in V, NEW idx \in Nat,
         PutIndex(v, idx, x) # Thrown
  PROVE  LET before == IF AtIndex(v, idx) = Thrown THEN Null ELSE AtIndex(v, idx)
         IN  /\ Blocks(PutIndex(v, idx, x)) = Blocks(v) + (FromNull(v) + Blocks(x) - Blocks(before))
             /\ Blocks(before) \in Int
<1> DEFINE old == IF v.type = "null" THEN <<>> ELSE v.elements
           n == IF idx < Len(old) THEN Len(old) ELSE idx + 1
           nulls == [i \in 1 .. n - Len(old) |-> Null]
           s == [i \in 1 .. n |->
                   IF i = idx + 1 THEN x ELSE IF i <= Len(old) THEN old[i] ELSE Null]
           before == IF AtIndex(v, idx) = Thrown THEN Null ELSE AtIndex(v, idx)
<1>1. v.type \in {"null", "array"} /\ PutIndex(v, idx, x) = [type |-> "array", elements |-> s]
  BY DEF PutIndex
<1>2. /\ old \in Seq(V) /\ Total(old) \in Int
      /\ 1 + Total(old) = Blocks(v) + FromNull(v) /\ Blocks(v) \in Int
  BY <1>1, ElementsOf
<1>3. before = IF idx < Len(old) THEN old[idx + 1] ELSE Null
  <2>1. CASE v.type = "null"
    <3>1. AtIndex(v, idx) = Thrown /\ ~(idx < Len(old))
      <4>1. old = <<>> /\ Len(<<>>) = 0
        BY <2>1
      <4> QED
        BY <2>1, <4>1 DEF AtIndex
    <3> QED
      BY <3>1
  <2>2. CASE v.type = "array" /\ ~(idx < Len(old))
    <3>1. idx >= Len(v.elements) /\ old = v.elements
      BY <1>2, <2>2
    <3> QED
      BY <2>2, <3>1 DEF AtIndex
  <2>3. CASE v.type = "array" /\ idx < Len(old)
    <3>1. old = v.elements /\ ~(idx >= Len(v.elements)) /\ old[idx + 1] \in V
      BY <1>2, <2>3
    <3>2. AtIndex(v, idx) = old[idx + 1]
      BY <2>3, <3>1 DEF AtIndex
    <3>3. ContainerOf(old[idx + 1], V)
      BY <3>1 DEF Closed
    <3>4. old[idx + 1] # Thrown
      BY <3>3, ContainerTypes
    <3> QED
      BY <2>3, <3>2, <3>4
  <2> QED
    BY <1>1, <2>1, <2>2, <2>3
<1> HIDE DEF old, before
<1>4. /\ n \in Nat /\ Len(old) \in Nat /\ Len(old) <= n /\ n - Len(old) \in Nat
      /\ idx \in 0 .. n - 1 /\ \A i \in 1 .. Len(old) : old[i] \in V
  BY <1>2
<1> HIDE DEF n
<1>5. Weighed(V) /\ nulls \in Seq(V) /\ Len(nulls) = n - Len(old)
  <2>1. nulls \in [1 .. n - Len(old) -> V]
    OBVIOUS
  <2> HIDE DEF nulls
  <2>2. nulls \in Seq(V) /\ Len(nulls) = n - Len(old)
    BY <1>4, <2>1
  <2>3. Weighed(V)
    BY <1>2, ArrayBlocks
  <2> QED
    BY <2>2, <2>3
<1>6. Total(nulls) = 0
  <2>1. \A i \in 1 .. Len(nulls) : Blocks(nulls[i]) = 0
    BY <1>5, NullTakesNothing
  <2> HIDE DEF nulls
  <2> QED
    BY <1>5, <2>1, TotalOfFew
<1>7. \A i \in 1 .. n - Len(old) : nulls[i] = Null
  OBVIOUS
<1> HIDE DEF nulls
<1>8. PICK t \in Seq(V) :
        /\ t = old \o nulls /\ Len(t) = Len(old) + Len(nulls)
        /\ \A i \in 1 .. Len(old) : t[i] = old[i]
        /\ \A i \in Len(old) + 1 .. Len(old) + Len(nulls) : t[i] = nulls[i - Len(old)]
  <2>1. /\ old \o nulls \in Seq(V) /\ Len(old \o nulls) = Len(old) + Len(nulls)
        /\ \A i \in 1 .. Len(old) : (old \o nulls)[i] = old[i]
        /\ \A i \in Len(old) + 1 .. Len(old) + Len(nulls) : (old \o nulls)[i] = nulls[i - Len(old)]
    BY <1>2, <1>5, Joined, ZenonT(40)
  <2> QED
    BY <2>1, Zenon
<1>9. Total(t) = Total(old)
  <2>1. Total(t) = Total(old) + Total(nulls)
    BY <1>2, <1>5, <1>8, TotalAdds, Zenon
  <2> QED
    BY <1>2, <1>6, <2>1
<1>10. Len(t) = n
  BY <1>4, <1>5, <1>8
<1>11. \A i \in 1 .. n : t[i] = IF i <= Len(old) THEN old[i] ELSE Null
  <2> SUFFICES ASSUME NEW i \in 1 .. n PROVE t[i] = IF i <= Len(old) THEN old[i] ELSE Null
    OBVIOUS
  <2>1. CASE i <= Len(old)
    BY <1>4, <1>8, <2>1
  <2>2. CASE ~(i <= Len(old))
    <3>1. i \in Len(old) + 1 .. Len(old) + Len(nulls) /\ i - Len(old) \in 1 .. n - Len(old)
      BY <1>4, <1>5, <2>2
    <3> QED
      BY <1>7, <1>8, <2>2, <3>1
  <2> QED
    BY <2>1, <2>2
<1>12. /\ s \in Seq(V) /\ Len(s) = n /\ s[idx + 1] = x
       /\ \A i \in 1 .. n : i # idx + 1 => s[i] = t[i]
  <2>1. s \in [1 .. n -> V] /\ idx + 1 \in 1 .. n
    BY <1>4
  <2>2. \A i \in 1 .. n : i # idx + 1 => s[i] = t[i]
    BY <1>11
  <2> QED
    BY <1>4, <2>1, <2>2
<1> HIDE DEF s
<1>13. Total(s) = Total(t) - Blocks(t[idx + 1]) + Blocks(x)
  <2>1. /\ Len(t) = Len(s) /\ idx \in 0 .. Len(t) - 1
        /\ \A i \in 1 .. Len(t) : i # idx + 1 => s[i] = t[i]
    BY <1>4, <1>10, <1>12
  <2>2. Total(s) = Total(t) - Blocks(t[idx + 1]) + Blocks(s[idx + 1])
    BY <1>5, <1>12, <2>1, TotalChanged
  <2> QED
    BY <1>12, <2>2
<1>14. t[idx + 1] = before
  <2>1. idx + 1 \in 1 .. n /\ (idx + 1 <= Len(old) <=> idx < Len(old))
    BY <1>4
  <2> QED
    BY <1>3, <1>11, <2>1
<1>15. Blocks(PutIndex(v, idx, x)) = 1 + Total(s)
  BY <1>1, <1>12, ArrayBlocks
<1>16. Blocks(x) \in Int /\ Blocks(before) \in Int /\ FromNull(v) \in Int
  <2>1. before \in V
    <3>1. idx < Len(old) => idx + 1 \in 1 .. Len(old)
      BY <1>4
    <3> QED
      BY <1>3, <1>4, <3>1
  <2> QED
    BY <1>5, <2>1 DEF Weighed, FromNull
<1>17. \A t0, b, f, y, z \in Int : 1 + t0 = b + f => 1 + (t0 - z + y) = b + (f + y - z)
  OBVIOUS
<1>18. 1 + (Total(old) - Blocks(before) + Blocks(x)) =
         Blocks(v) + (FromNull(v) + Blocks(x) - Blocks(before))
  <2>1. Total(old) \in Int /\ Blocks(v) \in Int /\ 1 + Total(old) = Blocks(v) + FromNull(v)
    BY <1>2
  <2> QED
    BY <1>16, <1>17, <2>1, SMTT(30)
<1>19. Total(s) = Total(old) - Blocks(before) + Blocks(x)
  BY <1>9, <1>13, <1>14
<1> QED
  BY <1>15, <1>16, <1>18, <1>19 DEF before

LEMMA EraseIndexBlocks ==
  ASSUME BlocksAdd, NEW V, Closed(V), NEW v \in V, NEW idx \in Nat, EraseIndex(v, idx) # Thrown
  PROVE  /\ Blocks(EraseIndex(v, idx)) = Blocks(v) - Freed(v, idx, idx + 1)
         /\ Freed(v, idx, idx + 1) \in Int
<1> DEFINE s == v.elements
<1>1. v.type = "array" /\ ~(idx >= Len(s)) /\ ContainerOf(v, V)
  BY DEF EraseIndex, Closed
<1>2. v = [type |-> "array", elements |-> s] /\ s \in Seq(V) /\ Members(v) = s
  BY <1>1, ContainerTypes DEF Members
<1>3. Len(s) \in Nat /\ idx + 1 \in Nat /\ idx <= idx + 1 /\ idx + 1 <= Len(s)
  BY <1>1, <1>2
<1> DEFINE w == Without(s, idx, idx + 1)
<1>4. EraseIndex(v, idx) = [type |-> "array", elements |-> w]
  <2>1. EraseIndex(v, idx) = [v EXCEPT !.elements = w]
    BY <1>1 DEF EraseIndex
  <2> QED
    BY <1>2, <2>1
<1>5. w \in Seq(V)
  BY <1>2, <1>3, WithoutSome
<1> HIDE DEF s, w
<1>6. Blocks(v) = 1 + Total(s) /\ Weighed(V)
  BY <1>2, ArrayBlocks
<1>7. Blocks(EraseIndex(v, idx)) = 1 + Total(w)
  BY <1>4, <1>5, ArrayBlocks
<1>8. /\ Total(s) = Total(w) + Total(SubSeq(s, idx + 1, idx + 1))
      /\ Total(w) \in Int /\ Total(SubSeq(s, idx + 1, idx + 1)) \in Int
  BY <1>2, <1>3, <1>6, TotalCut DEF w
<1>9. Freed(v, idx, idx + 1) = Total(SubSeq(s, idx + 1, idx + 1))
  BY <1>1, <1>2 DEF Freed, Compound
<1>10. \A a, b \in Int : 1 + a = 1 + (a + b) - b
  OBVIOUS
<1> QED
  BY <1>6, <1>7, <1>8, <1>9, <1>10

(* The keys of a range go one after the other.                             *)
LEMMA KeysTaken ==
  ASSUME BlocksAdd, NEW V, Closed(V), NEW o \in V, o.type = "object",
         NEW first \in Nat, NEW last \in Nat, first <= last, last <= Len(Members(o))
  PROVE  LET w == EraseRange(o, first, last)
             cut == SubSeq(Members(o), first + 1, last)
         IN  /\ ContainerOf(w, V) /\ w.type = "object"
             /\ Total(Members(o)) = Total(Members(w)) + Total(cut)
             /\ Total(Members(w)) \in Int /\ Total(cut) \in Int
<1> DEFINE D == DOMAIN o.members
           m == Members(o)
           E(l) == EraseRange(o, first, l)
           Gone(l) == {Keys(o)[i] : i \in first + 1 .. l}
           Right(l) == /\ Total(m) = Total(Members(E(l))) + Total(SubSeq(m, first + 1, l))
                       /\ Total(Members(E(l))) \in Int
<1>1. ContainerOf(o, V) /\ KeyedBy(o, D) /\ o.members \in [D -> V]
      /\ o = [type |-> "object", members |-> o.members]
  BY ContainerTypes DEF Closed
<1>2. /\ m \in Seq(V) /\ Len(m) = Cardinality(D) /\ Len(m) \in Nat
      /\ \A i \in 1 .. Len(m) : m[i] = o.members[Keys(o)[i]]
  BY <1>1, MembersOf
<1>3. \A i \in 1 .. Len(m) : Keys(o)[i] \in D /\ Rank(o, Keys(o)[i]) = i - 1
  BY <1>1, <1>2, KeysInOrder
<1>11. \A f : [o EXCEPT !.members = f] = [type |-> "object", members |-> f]
  BY <1>1
<1>4. ASSUME NEW l \in first .. last
      PROVE  /\ E(l) = [type |-> "object", members |-> [k \in D \ Gone(l) |-> o.members[k]]]
             /\ ContainerOf(E(l), V) /\ E(l).type = "object"
  <2>1. E(l) = [o EXCEPT !.members = [k \in D \ Gone(l) |-> o.members[k]]]
    BY DEF EraseRange
  <2>2. D \ Gone(l) \subseteq DOMAIN o.members
    OBVIOUS
  <2> HIDE DEF Gone, E
  <2>3. ContainerOf(E(l), V)
    <3> DEFINE G == D \ Gone(l)
    <3>1. E(l) = [o EXCEPT !.members = [k \in G |-> o.members[k]]] /\ G \subseteq DOMAIN o.members
      BY <2>1, <2>2
    <3> HIDE DEF G, D
    <3>2. ContainerOf([o EXCEPT !.members = [k \in G |-> o.members[k]]], V)
      BY <1>1, <3>1, FewerMembers
    <3> QED
      BY <3>1, <3>2
  <2> QED
    BY <1>11, <2>1, <2>3
<1>5. Weighed(V)
  BY <1>1, BlocksOf DEF Weighed
<1> HIDE DEF m, E
<1>6. Right(first)
  <2>1. Gone(first) = {}
    OBVIOUS
  <2>2. E(first) = o
    <3>1. [k \in D \ Gone(first) |-> o.members[k]] = o.members
      BY <1>1, <2>1
    <3>2. first \in first .. last
      OBVIOUS
    <3> HIDE DEF Gone
    <3>3. E(first) = [type |-> "object", members |-> [k \in D \ Gone(first) |-> o.members[k]]]
      BY <1>4, <3>2
    <3> QED
      BY <1>1, <3>1, <3>3
  <2>3. SubSeq(m, first + 1, first) = <<>>
    BY <1>2
  <2>4. Total(<<>>) = 0 /\ Total(m) \in Int
    <3>1. \E g : Sums(m, g)
      BY <1>2, <1>5, SumsExist
    <3> QED
      BY <1>2, <1>5, <3>1, TotalOfFew, TotalIs
  <2>5. Members(E(first)) = m
    BY <2>2 DEF m
  <2>6. Total(SubSeq(m, first + 1, first)) = 0
    BY <2>3, <2>4, Zenon
  <2>7. Total(Members(E(first))) = Total(m)
    BY <2>5
  <2> QED
    BY <2>4, <2>6, <2>7
<1>7. ASSUME NEW l \in first + 1 .. last, Right(l - 1) PROVE Right(l)
  <2> DEFINE k == Keys(o)[l]
             w == E(l - 1)
             cut == SubSeq(m, first + 1, l - 1)
  <2>1. /\ l \in Nat /\ l - 1 \in first .. last /\ l \in first .. last /\ l \in 1 .. Len(m)
        /\ l - 1 \in Nat /\ first <= l - 1 /\ l <= Len(m) /\ first + 1 \in Nat /\ first <= l
    BY <1>2 DEF m
  <2>2. k \in D /\ k \notin Gone(l - 1) /\ Gone(l) = Gone(l - 1) \cup {k}
    <3>1. \A i \in first + 1 .. l - 1 : i \in 1 .. Len(m) /\ i # l
      BY <2>1
    <3>2. k \notin Gone(l - 1)
      <4> SUFFICES ASSUME NEW i \in first + 1 .. l - 1, Keys(o)[i] = Keys(o)[l] PROVE FALSE
        OBVIOUS
      <4>1. Rank(o, Keys(o)[i]) = i - 1 /\ Rank(o, Keys(o)[l]) = l - 1
        BY <1>3, <2>1, <3>1
      <4>2. i - 1 = l - 1
        BY <4>1
      <4>3. i = l
        BY <2>1, <4>2
      <4> QED
        BY <3>1, <4>3
    <3>3. first + 1 .. l = (first + 1 .. l - 1) \cup {l}
      BY <2>1
    <3> QED
      BY <1>3, <2>1, <3>2, <3>3
  <2>3. /\ w = [type |-> "object", members |-> [j \in D \ Gone(l - 1) |-> o.members[j]]]
        /\ ContainerOf(w, V)
        /\ E(l) = [type |-> "object", members |-> [j \in D \ Gone(l) |-> o.members[j]]]
    BY <1>4, <2>1
  <2> HIDE DEF Gone, w, k
  <2>4. w.type = "object" /\ DOMAIN w.members = D \ Gone(l - 1) /\ w.members[k] = o.members[k]
    BY <2>2, <2>3
  <2>5. E(l) = EraseKey(w, k)
    <3>1. EraseKey(w, k) = [w EXCEPT !.members = [j \in DOMAIN w.members \ {k} |-> w.members[j]]]
      BY <2>4 DEF EraseKey
    <3>2. [j \in DOMAIN w.members \ {k} |-> w.members[j]] = [j \in D \ Gone(l) |-> o.members[j]]
      <4>1. DOMAIN w.members \ {k} = D \ Gone(l)
        BY <2>2, <2>4
      <4>2. \A j \in D \ Gone(l) : w.members[j] = o.members[j]
        BY <2>2, <2>3
      <4> QED
        BY <4>1, <4>2
    <3> QED
      BY <2>3, <3>1, <3>2
  <2>6. /\ Total(Members(w)) = Total(Members(E(l))) + Blocks(o.members[k])
        /\ Total(Members(E(l))) \in Int /\ Blocks(o.members[k]) \in Int
    <3>1. k \in DOMAIN w.members
      BY <2>2, <2>4
    <3>2. /\ Total(Members(w)) = Total(Members(EraseKey(w, k))) + Blocks(w.members[k])
          /\ Total(Members(EraseKey(w, k))) \in Int /\ Blocks(w.members[k]) \in Int
      <4>1. ContainerOf(w, V) /\ w.type = "object"
        BY <2>3, <2>4
      <4> QED
        BY <3>1, <4>1, KeyTaken
    <3> QED
      BY <2>4, <2>5, <3>2
  <2>7. Total(SubSeq(m, first + 1, l)) = Total(cut) + Blocks(o.members[k]) /\ Total(cut) \in Int
    <3>1. m[l] = o.members[k]
      BY <1>2, <2>1 DEF k
    <3>2. first < l
      BY <2>1
    <3> QED
      BY <1>2, <1>5, <2>1, <3>1, <3>2, TotalLonger
  <2>8. Total(m) = Total(Members(w)) + Total(cut) /\ Total(Members(w)) \in Int
    BY <1>7 DEF w
  <2>9. \A a, b, c \in Int : (a + b) + c = a + (c + b)
    OBVIOUS
  <2> HIDE DEF cut
  <2> QED
    BY <2>6, <2>7, <2>8, <2>9 DEF cut
<1> HIDE DEF Right
<1>8. Right(last)
  <2> DEFINE B == {l \in first .. last : ~Right(l)}
  <2>1. B = {}
    <3> SUFFICES ASSUME B # {} PROVE FALSE
      OBVIOUS
    <3>1. B \in SUBSET Nat
      OBVIOUS
    <3> HIDE DEF B
    <3>2. PICK b \in B : \A e \in B : b <= e
      BY <3>1, LeastNumber
    <3>3. b \in first .. last /\ ~Right(b)
      BY DEF B
    <3>4. b # first
      BY <1>6, <3>3
    <3>5. b \in first + 1 .. last /\ b - 1 \in first .. last /\ ~(b <= b - 1)
      BY <3>3, <3>4
    <3>6. Right(b - 1)
      BY <3>2, <3>5 DEF B
    <3> QED
      BY <1>7, <3>3, <3>5, <3>6
  <2>2. last \in first .. last
    OBVIOUS
  <2> QED
    BY <2>1, <2>2
<1> HIDE DEF Gone
<1>9. ContainerOf(E(last), V) /\ E(last).type = "object"
  <2>1. last \in first .. last
    OBVIOUS
  <2> QED
    BY <1>4, <2>1, Zenon
<1>10. Total(SubSeq(m, first + 1, last)) \in Int
  BY <1>2, <1>5, TotalCut DEF m
<1> QED
  BY <1>8, <1>9, <1>10 DEF Right, E, m

LEMMA EraseRangeBlocks ==
  ASSUME BlocksAdd, NEW V, Closed(V), NEW v \in V,
         NEW first \in BeginOf(v) .. EndOf(v), NEW last \in first .. EndOf(v),
         EraseRange(v, first, last) # Thrown
  PROVE  /\ Blocks(EraseRange(v, first, last)) = Blocks(v) - Freed(v, first, last)
         /\ Freed(v, first, last) \in Int
<1> DEFINE w == EraseRange(v, first, last)
           m == Members(v)
           cut == SubSeq(m, first + 1, last)
<1>1. ContainerOf(v, V) /\ v.type \in Types
  BY ContainerTypes DEF Closed
<1>2. /\ BeginOf(v) \in {0, 1} /\ Len(m) \in Nat /\ EndOf(v) = BeginOf(v) + Len(m)
      /\ m \in Seq(V)
  BY <1>1, EndsOf, MembersOf
<1>3. CASE v.type \in {"array", "object"}
  <2>1. first \in Nat /\ last \in Nat /\ first <= last /\ last <= Len(m)
    BY <1>2, <1>3 DEF BeginOf
  <2>2. /\ ContainerOf(w, V) /\ w.type \in Compound
        /\ Total(m) = Total(Members(w)) + Total(cut)
        /\ Total(Members(w)) \in Int /\ Total(cut) \in Int
    <3>1. CASE v.type = "object"
      BY <2>1, <3>1, KeysTaken DEF Compound
    <3>2. CASE v.type = "array"
      <4> DEFINE s == Without(m, first, last)
      <4>1. v = [type |-> "array", elements |-> m]
        BY <1>1, <3>2, ContainerTypes DEF Members
      <4>2. w = [type |-> "array", elements |-> s]
        <5>1. w = [v EXCEPT !.elements = Without(v.elements, first, last)]
          BY <3>2 DEF EraseRange
        <5> HIDE DEF w, m
        <5>2. v.elements = m
          BY <4>1
        <5> QED
          BY <4>1, <5>1, <5>2
      <4>3. s \in Seq(V)
        BY <1>2, <2>1, WithoutSome
      <4>4. Weighed(V)
        BY <1>1, BlocksOf DEF Weighed
      <4>5. Total(m) = Total(s) + Total(cut) /\ Total(s) \in Int /\ Total(cut) \in Int
        BY <1>2, <2>1, <4>4, TotalCut
      <4> HIDE DEF s, w, m, cut
      <4>6. ContainerOf(w, V) /\ w.type = "array" /\ Members(w) = s
        BY <4>2, <4>3, ArrayOf DEF Members
      <4> QED
        BY <4>5, <4>6 DEF Compound
    <3> QED
      BY <1>3, <3>1, <3>2
  <2>3. Blocks(w) = 1 + Total(Members(w))
    <3> HIDE DEF w
    <3> QED
      BY <2>2, BlocksOf
  <2>4. Blocks(v) = 1 + Total(m)
    BY <1>1, <1>3, BlocksOf DEF Compound
  <2>5. Freed(v, first, last) = Total(cut)
    BY <1>3 DEF Freed, Compound
  <2>6. \A a, b \in Int : 1 + a = 1 + (a + b) - b
    OBVIOUS
  <2> HIDE DEF w, m, cut
  <2> QED
    BY <2>2, <2>3, <2>4, <2>5, <2>6 DEF w
<1>4. CASE v.type \notin {"array", "object"}
  <2>1. w = Null /\ v.type # "null"
    BY <1>1, <1>4 DEF EraseRange, Types
  <2>2. Blocks(w) = 0
    BY <2>1, NullTakesNothing
  <2>3. CASE v.type = "string"
    <3>1. Blocks(v) = 1 /\ Freed(v, first, last) = 1
      BY <1>1, <2>3, BlocksOf DEF Freed, Compound
    <3> QED
      BY <2>2, <3>1
  <2>4. CASE v.type # "string"
    <3>1. Blocks(v) = 0 /\ Freed(v, first, last) = 0
      BY <1>1, <1>4, <2>4, BlocksOf DEF Freed, Compound
    <3> QED
      BY <2>2, <3>1
  <2> QED
    BY <2>3, <2>4
<1> QED
  BY <1>3, <1>4

LEMMA ClearBlocks ==
  ASSUME BlocksAdd, NEW V, Closed(V), NEW v \in V
  PROVE  /\ v.type \in Compound =>
              /\ Blocks(Clear(v)) = Blocks(v) - Freed(v, 0, EndOf(v))
              /\ Freed(v, 0, EndOf(v)) \in Int
         /\ v.type \notin Compound => Blocks(Clear(v)) = Blocks(v)
<1>1. ContainerOf(v, V) /\ v.type \in Types
  BY ContainerTypes DEF Closed
<1>2. ASSUME v.type \in Compound
      PROVE  /\ Blocks(Clear(v)) = Blocks(v) - Freed(v, 0, EndOf(v))
             /\ Freed(v, 0, EndOf(v)) \in Int
  <2> DEFINE m == Members(v)
  <2>1. m \in Seq(V) /\ Blocks(v) = 1 + Total(m) /\ Total(m) \in Int
    BY <1>1, <1>2, BlocksOf
  <2>2. Clear(v) \in {EmptyObject, EmptyArray}
    BY <1>2 DEF Clear, Compound
  <2>3. Blocks(Clear(v)) = 1
    <3>1. /\ ContainerOf(Clear(v), {}) /\ Clear(v).type \in Compound /\ Members(Clear(v)) = <<>>
      BY <2>2, EmptyContainers DEF Compound
    <3>2. Closed({}) /\ Weighed({})
      BY DEF Closed, Weighed
    <3>3. Blocks(Clear(v)) = 1 + Total(Members(Clear(v)))
      BY <3>1, <3>2, BlocksOf
    <3>4. Total(<<>>) = 0
      BY <3>2, TotalOfFew
    <3>5. Total(Members(Clear(v))) = 0
      BY <3>1, <3>4, Zenon
    <3> QED
      BY <3>3, <3>5
  <2>4. Freed(v, 0, EndOf(v)) = Total(m)
    <3>1. Freed(v, 0, EndOf(v)) = Total(SubSeq(m, 0 + 1, Len(m)))
      <4>1. EndOf(v) = Len(m)
        BY <1>2 DEF EndOf
      <4>2. Freed(v, 0, EndOf(v)) = Total(SubSeq(m, 0 + 1, EndOf(v)))
        BY <1>2 DEF Freed, Compound
      <4> QED
        BY <4>1, <4>2, Zenon
    <3>2. 0 + 1 = 1 /\ SubSeq(m, 1, Len(m)) = m
      BY <2>1
    <3> QED
      BY <3>1, <3>2
  <2>5. \A a \in Int : 1 = 1 + a - a
    OBVIOUS
  <2> QED
    BY <2>1, <2>3, <2>4, <2>5
<1>3. ASSUME v.type \notin Compound PROVE Blocks(Clear(v)) = Blocks(v)
  <2>1. Closed({})
    BY DEF Closed
  <2>2. CASE v.type = "string"
    <3>1. ContainerOf(String(<<>>), {}) /\ String(<<>>).type = "string"
      <4>1. <<>> \in Strings
        BY DEF Strings
      <4> QED
        BY <4>1 DEF ContainerOf, String
    <3>2. Blocks(String(<<>>)) = 1
      BY <2>1, <3>1, BlocksOf
    <3>3. Clear(v) = String(<<>>) /\ Blocks(v) = 1
      BY <1>1, <2>2, BlocksOf DEF Clear
    <3> QED
      BY <3>2, <3>3
  <2>3. CASE v.type # "string"
    <3>1. ContainerOf(Clear(v), V) /\ Clear(v).type \notin Compound \cup {"string"}
      <4>1. Clear(v) \in {Boolean(FALSE), NumberOf(<<"0">>), v}
        BY <1>1, <1>3, <2>3 DEF Clear, Compound, Types
      <4>2. CASE Clear(v) = v
        BY <1>1, <1>3, <2>3, <4>2
      <4>3. /\ ContainerOf(Boolean(FALSE), V) /\ Boolean(FALSE).type = "boolean"
            /\ ContainerOf(NumberOf(<<"0">>), V) /\ NumberOf(<<"0">>).type = "number"
        BY DEF ContainerOf, NumberOf, Boolean
      <4>4. CASE Clear(v) # v
        BY <4>1, <4>3, <4>4 DEF Compound
      <4> QED
        BY <4>2, <4>4
    <3>2. Blocks(Clear(v)) = 0 /\ Blocks(v) = 0
      BY <1>1, <1>3, <2>3, <3>1, BlocksOf
    <3> QED
      BY <3>2
  <2> QED
    BY <2>2, <2>3
<1> QED
  BY <1>2, <1>3

-----------------------------------------------------------------------------
(* What is allocated is what the two values hold.                          *)
Balance == live = Blocks(doc) + Blocks(other)

LEMMA ChangeBalance ==
  ASSUME BlocksAdd, NEW V, Good(V), Balance, NEW v, NEW w, NEW gained \in Int,
         Change(v, w, gained), Blocks(v) \in Int, Blocks(w) \in Int,
         Blocks(v) + Blocks(w) = (Blocks(doc) + Blocks(other)) + gained
  PROVE  Balance'
  BY DEF Balance, Change

LEMMA PutBalance ==
  ASSUME BlocksAdd, NEW V, Good(V), Balance, Put PROVE Balance'
<1>1. PICK x \in Operands :
        \/ \E k \in Names :
             \/ Change(Insert(doc, k, x), other, NewBlock + Blocks(x) - Blocks(At(doc, k)))
             \/ Change(PushPair(doc, k, x), other,
                       NewBlock + IF Count(doc, k) = 0 THEN Blocks(x) ELSE 0)
        \/ \E i \in 0 .. Cardinality(Names) :
             LET old == IF AtIndex(doc, i) = Thrown THEN Null ELSE AtIndex(doc, i)
             IN  Change(PutIndex(doc, i, x), other, NewBlock + Blocks(x) - Blocks(old))
        \/ Change(PushBack(doc, x), other, NewBlock + Blocks(x))
  BY DEF Put
<1>2. Closed(V) /\ doc \in V /\ other \in V /\ x \in V /\ Null \in V /\ Names \subseteq Strings
  BY ProgramAssumption DEF Good
<1>3. Blocks(doc) \in Int /\ Blocks(other) \in Int /\ Blocks(x) \in Int /\ NewBlock = FromNull(doc)
  <2>1. Weighed(V)
    <3>1. ContainerOf(doc, V)
      BY <1>2 DEF Closed
    <3> QED
      BY <1>2, <3>1, BlocksOf DEF Weighed
  <2> QED
    BY <1>2, <2>1 DEF Weighed, NewBlock, FromNull
<1>4. FromNull(doc) \in Int
  BY DEF FromNull
<1>5. ASSUME NEW v, NEW gained \in Int, Change(v, other, gained), Blocks(v) = Blocks(doc) + gained
      PROVE  Balance'
  <2>1. /\ Blocks(v) \in Int
        /\ Blocks(v) + Blocks(other) = (Blocks(doc) + Blocks(other)) + gained
    BY <1>3, <1>5
  <2> QED
    BY <1>3, <1>5, <2>1, ChangeBalance
<1>6. ASSUME NEW k \in Names,
             Change(Insert(doc, k, x), other, NewBlock + Blocks(x) - Blocks(At(doc, k)))
      PROVE  Balance'
  <2>1. Insert(doc, k, x) # Thrown /\ k \in Strings
    BY <1>2, <1>6 DEF Change
  <2>2. /\ Blocks(Insert(doc, k, x)) = Blocks(doc) + (FromNull(doc) + Blocks(x) - Blocks(At(doc, k)))
        /\ Blocks(At(doc, k)) \in Int
    BY <1>2, <2>1, InsertBlocks
  <2>3. FromNull(doc) + Blocks(x) - Blocks(At(doc, k)) \in Int
    BY <1>3, <1>4, <2>2
  <2> QED
    BY <1>3, <1>5, <1>6, <2>2, <2>3
<1>7. ASSUME NEW k \in Names,
             Change(PushPair(doc, k, x), other, NewBlock + IF Count(doc, k) = 0 THEN Blocks(x) ELSE 0)
      PROVE  Balance'
  <2>1. PushPair(doc, k, x) # Thrown /\ k \in Strings
    BY <1>2, <1>7 DEF Change
  <2>2. Blocks(PushPair(doc, k, x)) =
          Blocks(doc) + (FromNull(doc) + IF Count(doc, k) = 0 THEN Blocks(x) ELSE 0)
    BY <1>2, <2>1, PushPairBlocks
  <2>3. (FromNull(doc) + IF Count(doc, k) = 0 THEN Blocks(x) ELSE 0) \in Int
    BY <1>3, <1>4
  <2> QED
    BY <1>3, <1>5, <1>7, <2>2, <2>3
<1>8. ASSUME NEW i \in 0 .. Cardinality(Names),
             LET old == IF AtIndex(doc, i) = Thrown THEN Null ELSE AtIndex(doc, i)
             IN  Change(PutIndex(doc, i, x), other, NewBlock + Blocks(x) - Blocks(old))
      PROVE  Balance'
  <2> DEFINE old == IF AtIndex(doc, i) = Thrown THEN Null ELSE AtIndex(doc, i)
  <2>1. PutIndex(doc, i, x) # Thrown /\ i \in Nat
    BY <1>8 DEF Change
  <2>2. /\ Blocks(PutIndex(doc, i, x)) = Blocks(doc) + (FromNull(doc) + Blocks(x) - Blocks(old))
        /\ Blocks(old) \in Int
    BY <1>2, <2>1, PutIndexBlocks
  <2>3. Change(PutIndex(doc, i, x), other, NewBlock + Blocks(x) - Blocks(old))
    BY <1>8
  <2> HIDE DEF old
  <2>4. FromNull(doc) + Blocks(x) - Blocks(old) \in Int
    BY <1>3, <1>4, <2>2
  <2> QED
    BY <1>3, <1>5, <2>2, <2>3, <2>4
<1>9. ASSUME Change(PushBack(doc, x), other, NewBlock + Blocks(x)) PROVE Balance'
  <2>1. PushBack(doc, x) # Thrown
    BY <1>9 DEF Change
  <2>2. Blocks(PushBack(doc, x)) = Blocks(doc) + (FromNull(doc) + Blocks(x))
    BY <1>2, <2>1, PushBackBlocks
  <2>3. FromNull(doc) + Blocks(x) \in Int
    BY <1>3, <1>4
  <2> QED
    BY <1>3, <1>5, <1>9, <2>2, <2>3
<1> QED
  BY <1>1, <1>6, <1>7, <1>8, <1>9

LEMMA BlocksCounted ==
  ASSUME BlocksAdd, NEW V, Closed(V), NEW v, ContainerOf(v, V) PROVE Blocks(v) \in Int
<1>1. Blocks(v) \in Nat
  BY BlocksOf, Zenon
<1> QED
  BY <1>1

LEMMA EraseBalance ==
  ASSUME BlocksAdd, NEW V, Good(V), Balance, EraseSome PROVE Balance'
<1>1. Closed(V) /\ doc \in V /\ other \in V /\ ContainerOf(doc, V) /\ ContainerOf(other, V)
  BY DEF Good, Closed
<1>2. Blocks(doc) \in Int /\ Blocks(other) \in Int
  BY <1>1, BlocksOf
<1>3. /\ BeginOf(doc) \in {0, 1} /\ Len(Members(doc)) \in Nat
      /\ EndOf(doc) = BeginOf(doc) + Len(Members(doc))
  BY <1>1, EndsOf
<1>4. ASSUME NEW v, NEW lost \in Int, Change(v, other, -lost), Blocks(v) = Blocks(doc) - lost
      PROVE  Balance'
  <2>1. /\ Blocks(v) \in Int /\ -lost \in Int
        /\ Blocks(v) + Blocks(other) = (Blocks(doc) + Blocks(other)) + -lost
    BY <1>2, <1>4
  <2> QED
    BY <1>2, <1>4, <2>1, ChangeBalance
<1>5. ASSUME NEW v, Change(v, other, 0), Blocks(v) = Blocks(doc) PROVE Balance'
  BY <1>2, <1>5, ChangeBalance
<1>6. ASSUME NEW k \in Names,
             Change(EraseKey(doc, k), other, IF doc.type = "object" THEN -Blocks(At(doc, k)) ELSE 0)
      PROVE  Balance'
  <2>1. EraseKey(doc, k) # Thrown
    BY <1>6 DEF Change
  <2>2. /\ doc.type = "object" /\ Blocks(EraseKey(doc, k)) = Blocks(doc) - Blocks(At(doc, k))
        /\ Blocks(At(doc, k)) \in Int
    BY <1>1, <2>1, EraseKeyBlocks
  <2> QED
    BY <1>4, <1>6, <2>2
<1>7. ASSUME NEW i \in 0 .. Len(Members(doc)),
             Change(EraseIndex(doc, i), other, -Freed(doc, i, i + 1))
      PROVE  Balance'
  <2>1. EraseIndex(doc, i) # Thrown /\ i \in Nat
    BY <1>3, <1>7 DEF Change
  <2>2. /\ Blocks(EraseIndex(doc, i)) = Blocks(doc) - Freed(doc, i, i + 1)
        /\ Freed(doc, i, i + 1) \in Int
    BY <1>1, <2>1, EraseIndexBlocks
  <2> QED
    BY <1>4, <1>7, <2>2
<1>8. ASSUME NEW first \in BeginOf(doc) .. EndOf(doc), NEW last \in first .. EndOf(doc),
             Change(EraseRange(doc, first, last), other, -Freed(doc, first, last))
      PROVE  Balance'
  <2>1. EraseRange(doc, first, last) # Thrown
    BY <1>8 DEF Change
  <2>2. /\ Blocks(EraseRange(doc, first, last)) = Blocks(doc) - Freed(doc, first, last)
        /\ Freed(doc, first, last) \in Int
    BY <1>1, <2>1, EraseRangeBlocks
  <2> QED
    BY <1>4, <1>8, <2>2
<1>9. ASSUME Change(Clear(doc), other,
                    IF doc.type \in Compound THEN -Freed(doc, 0, EndOf(doc)) ELSE 0)
      PROVE  Balance'
  <2>1. CASE doc.type \in Compound
    <3>1. /\ Blocks(Clear(doc)) = Blocks(doc) - Freed(doc, 0, EndOf(doc))
          /\ Freed(doc, 0, EndOf(doc)) \in Int
      BY <1>1, <2>1, ClearBlocks
    <3>2. Change(Clear(doc), other, -Freed(doc, 0, EndOf(doc)))
      BY <1>9, <2>1
    <3> QED
      BY <1>4, <3>1, <3>2
  <2>2. CASE doc.type \notin Compound
    <3>1. Blocks(Clear(doc)) = Blocks(doc) /\ Change(Clear(doc), other, 0)
      BY <1>1, <1>9, <2>2, ClearBlocks
    <3> QED
      BY <1>5, <3>1
  <2> QED
    BY <2>1, <2>2
<1> QED
  BY <1>6, <1>7, <1>8, <1>9 DEF EraseSome

(* A copy takes what the value takes, and the old one gives it back.       *)
LEMMA BuildBalance ==
  ASSUME BlocksAdd, NEW V, Good(V), Balance, NEW W, Good(W)', Build PROVE Balance'
<1>1. Blocks(doc) \in Int /\ Blocks(other) \in Int /\ Blocks(other') \in Int
  <2>1. ContainerOf(doc, V) /\ ContainerOf(other, V) /\ Closed(V)
    BY DEF Good, Closed
  <2>2. PICK later : later = other'
    OBVIOUS
  <2>3. ContainerOf(later, W) /\ Closed(W)
    BY <2>2 DEF Good, Closed
  <2>4. Blocks(doc) \in Int /\ Blocks(other) \in Int
    BY <2>1, BlocksCounted
  <2>5. Blocks(later) \in Int
    BY <2>3, BlocksCounted
  <2> QED
    BY <2>2, <2>4, <2>5
<1>2. PICK v : Assign(v)
  BY DEF Build
<1>3. /\ doc' = doc /\ other' = v /\ v # Thrown
      /\ live' = live + (IF v = Thrown THEN 0 ELSE Blocks(v) - Blocks(other))
  BY <1>2 DEF Assign, Change
<1>4. live' = live + (Blocks(v) - Blocks(other)) /\ Blocks(v) \in Int
  BY <1>1, <1>3
<1>5. \A a, b, c \in Int : (a + b) + (c - b) = a + c
  OBVIOUS
<1> QED
  BY <1>1, <1>3, <1>4, <1>5 DEF Balance

LEMMA TransferBalance ==
  ASSUME BlocksAdd, NEW V, Good(V), Balance, Transfer PROVE Balance'
<1>1. Closed(V) /\ doc \in V /\ other \in V /\ ContainerOf(doc, V) /\ ContainerOf(other, V)
  BY DEF Good, Closed
<1>2. Blocks(doc) \in Int /\ Blocks(other) \in Int /\ Blocks(Null) = 0
  BY <1>1, BlocksOf, NullTakesNothing
<1>3. CASE Change(other, doc, 0)
  BY <1>2, <1>3, ChangeBalance
<1>4. CASE Change(Null, doc, -Blocks(other))
  <2>1. -Blocks(other) \in Int /\ Blocks(Null) + Blocks(doc) = (Blocks(doc) + Blocks(other)) + -Blocks(other)
    BY <1>2
  <2> QED
    BY <1>2, <1>4, <2>1, ChangeBalance
<1>5. CASE Change(PushBack(doc, other), Null, NewBlock)
  <2>1. PushBack(doc, other) # Thrown
    BY <1>5 DEF Change
  <2>2. Blocks(PushBack(doc, other)) = Blocks(doc) + (FromNull(doc) + Blocks(other))
    BY <1>1, <2>1, PushBackBlocks
  <2>3. NewBlock = FromNull(doc) /\ NewBlock \in Int
    BY DEF NewBlock, FromNull
  <2>4. /\ Blocks(PushBack(doc, other)) \in Int
        /\ Blocks(PushBack(doc, other)) + Blocks(Null) = (Blocks(doc) + Blocks(other)) + NewBlock
    BY <1>2, <2>2, <2>3
  <2> QED
    BY <1>2, <1>5, <2>3, <2>4, ChangeBalance
<1> QED
  BY <1>3, <1>4, <1>5 DEF Transfer

(* What the walk erases is in range, and was there.                        *)
LEMMA VisitBalance ==
  ASSUME BlocksAdd, NEW V, Good(V), WalkIn(V), Balance, NEW W, Good(W)', Visit PROVE Balance'
<1>1. Closed(V) /\ doc \in V /\ other \in V /\ ContainerOf(doc, V) /\ ContainerOf(other, V)
  BY DEF Good, Closed
<1>2. Blocks(doc) \in Int /\ Blocks(other) \in Int
  BY <1>1, BlocksOf
<1>3. other' = other
  BY DEF Visit
<1>4. CASE UNCHANGED <<doc, live>>
  BY <1>3, <1>4 DEF Balance
<1>5. CASE doc' = EraseAt(doc, at).value /\ live' = live - Freed(doc, at, at + 1)
  <2>1. doc' = EraseRange(doc, at, at + 1) /\ doc' # Thrown
    <3>1. ContainerOf(doc', W)
      BY DEF Good, Closed
    <3> QED
      BY <1>5, <3>1, ContainerTypes DEF EraseAt
  <2>2. at \in BeginOf(doc) .. EndOf(doc) /\ at + 1 \in at .. EndOf(doc)
    <3>1. Forward(V) /\ at # EndOf(doc)
      BY DEF WalkIn, Visit, SameIterator
    <3>2. /\ BeginOf(doc) \in {0, 1} /\ Len(Members(doc)) \in Nat
          /\ EndOf(doc) = BeginOf(doc) + Len(Members(doc))
      BY <1>1, EndsOf
    <3>3. PICK rest \in Seq(V) : Members(doc) = kept \o rest /\ at = BeginOf(doc) + Len(kept)
      BY <3>1 DEF Forward
    <3>4. kept \in Seq(V)
      BY <3>1 DEF Forward
    <3>5. Len(kept \o rest) = Len(kept) + Len(rest) /\ Len(kept) \in Nat /\ Len(rest) \in Nat
      BY <3>4, Joined, Zenon
    <3>6. Len(Members(doc)) = Len(kept) + Len(rest)
      BY <3>3, <3>5, Zenon
    <3> QED
      BY <3>1, <3>2, <3>3, <3>5, <3>6
  <2>3. /\ Blocks(EraseRange(doc, at, at + 1)) = Blocks(doc) - Freed(doc, at, at + 1)
        /\ Freed(doc, at, at + 1) \in Int
    BY <1>1, <2>1, <2>2, EraseRangeBlocks
  <2>4. \A a, b, c \in Int : (a + b) - c = (a - c) + b
    OBVIOUS
  <2>5. live' = (Blocks(doc) + Blocks(other)) - Freed(doc, at, at + 1)
    BY <1>5 DEF Balance
  <2>6. Blocks(doc') = Blocks(doc) - Freed(doc, at, at + 1)
    BY <2>1, <2>3
  <2>7. live' = Blocks(doc') + Blocks(other')
    BY <1>2, <1>3, <2>3, <2>4, <2>5, <2>6
  <2> QED
    BY <2>7 DEF Balance
<1> QED
  BY <1>4, <1>5 DEF Visit

LedgerInv == (phase = "parsing" => other = Null) /\ NothingLeaks

LEMMA LedgerStep ==
  BlocksAdd /\ ProgramInv /\ LedgerInv /\ [ProgramNext]_<<vars, progVars>> => LedgerInv'
<1> SUFFICES ASSUME BlocksAdd, ProgramInv, LedgerInv, [ProgramNext]_<<vars, progVars>>
             PROVE  LedgerInv'
  OBVIOUS
<1>1. ProgramInv'
  BY ProgramStep
<1>2. PICK V : Good(V) /\ WalkIn(V)
  BY DEF ProgramInv
<1>3. PICK W : Good(W)'
  BY <1>1 DEF ProgramInv
<1>4. CASE UNCHANGED progVars
  BY <1>4 DEF LedgerInv, NothingLeaks, progVars
<1>5. CASE Returned
  <2>1. other = Null /\ other' = other /\ phase' = "editing" /\ doc' = result /\ live' = Blocks(result)
    BY <1>5 DEF LedgerInv, Returned
  <2>2. Blocks(result) \in Int
    <3>1. ContainerOf(doc', W) /\ Closed(W)
      BY <1>3 DEF Good, Closed
    <3> QED
      <4>1. ContainerOf(result, W)
        BY <2>1, <3>1
      <4> QED
        BY <3>1, <4>1, BlocksCounted
  <2>3. Blocks(other') = 0
    BY <2>1, NullTakesNothing
  <2>4. \A a \in Int : a = a + 0
    OBVIOUS
  <2>5. live' = Blocks(doc') + Blocks(other')
    BY <2>1, <2>2, <2>3, <2>4
  <2> QED
    BY <2>1, <2>5 DEF LedgerInv, NothingLeaks
<1>6. CASE Use
  <2>1. phase # "parsing" /\ phase' # "parsing"
    <3>1. CASE Put \/ EraseSome \/ Build \/ Transfer
      <4>1. phase = "editing" /\ UNCHANGED phase
        BY <3>1 DEF Put, EraseSome, Build, Transfer, Editing, Assign, Change
      <4> QED
        BY <4>1
    <3>2. CASE BeginWalk \/ Visit \/ Turn \/ GoBack \/ EndWalk
      BY <3>2 DEF BeginWalk, Visit, Turn, GoBack, EndWalk
    <3> QED
      BY <1>6, <3>1, <3>2 DEF Use
  <2>2. Balance
    BY <2>1 DEF Balance, LedgerInv, NothingLeaks
  <2>3. ASSUME Put PROVE Balance'
    BY <1>2, <2>2, <2>3, PutBalance
  <2>4. ASSUME EraseSome PROVE Balance'
    BY <1>2, <2>2, <2>4, EraseBalance
  <2>5. ASSUME Build PROVE Balance'
    BY <1>2, <1>3, <2>2, <2>5, BuildBalance
  <2>6. ASSUME Transfer PROVE Balance'
    BY <1>2, <2>2, <2>6, TransferBalance
  <2>7. ASSUME Visit PROVE Balance'
    BY <1>2, <1>3, <2>2, <2>7, VisitBalance
  <2>8. ASSUME BeginWalk \/ Turn \/ GoBack \/ EndWalk PROVE Balance'
    <3>1. UNCHANGED <<doc, other, live>>
      BY <2>8 DEF BeginWalk, Turn, GoBack, EndWalk
    <3> QED
      BY <2>2, <3>1 DEF Balance
  <2>9. Balance'
    BY <1>6, <2>3, <2>4, <2>5, <2>6, <2>7, <2>8 DEF Use
  <2> QED
    BY <2>1, <2>9 DEF Balance, LedgerInv, NothingLeaks
<1> QED
  BY <1>4, <1>5, <1>6 DEF ProgramNext, progVars

(* If the blocks of any value add up, then for any values, keys and number *)
(* of changes no string, array or object is lost or given back twice: what *)
(* is allocated is what the two values hold (json.hpp:612-752, 1246-1360,  *)
(* 1698-1797).                                                             *)
THEOREM WhatIsAllocatedIsHeld == BlocksAdd => (ProgramSpec => []NothingLeaks)
<1> SUFFICES ASSUME BlocksAdd PROVE ProgramSpec => []NothingLeaks
  OBVIOUS
<1>1. ProgramInit => LedgerInv
  BY DEF ProgramInit, LedgerInv, NothingLeaks
<1>2. ProgramInv /\ LedgerInv /\ [ProgramNext]_<<vars, progVars>> => LedgerInv'
  BY LedgerStep
<1>3. LedgerInv => NothingLeaks
  BY DEF LedgerInv
<1> QED
  BY InitiallyGood, ProgramStep, <1>1, <1>2, <1>3, PTL DEF ProgramSpec

-----------------------------------------------------------------------------
(* Lists of things of which After[x] are those that x is less than: a list *)
(* is less if its first thing that is not tied is less, or if it ends.     *)
StrictWeak(E, After) ==
    /\ After \in [E -> SUBSET E]
    /\ \A x, y \in E : y \in After[x] => x \notin After[y]
    /\ \A x, y, z \in E : z \in After[x] => y \in After[x] \/ z \in After[y]
Tied(After, x, y) == y \notin After[x] /\ x \notin After[y]
LessAt(After, s, t, n) ==
    /\ n \in 1 .. Len(t) /\ n <= Len(s) + 1
    /\ n <= Len(s) => t[n] \in After[s[n]]
    /\ \A j \in 1 .. n - 1 : Tied(After, s[j], t[j])
ListLess(After, s, t) == \E n \in Nat : LessAt(After, s, t, n)
ListTied(After, s, t) == Len(s) = Len(t) /\ \A i \in 1 .. Len(s) : Tied(After, s[i], t[i])

LEMMA TiedThings ==
  ASSUME NEW E, NEW After, StrictWeak(E, After), NEW x \in E, NEW y \in E, NEW z \in E
  PROVE  /\ y \in After[x] /\ z \in After[y] => z \in After[x]
         /\ Tied(After, x, y) /\ z \in After[y] => z \in After[x]
         /\ y \in After[x] /\ Tied(After, y, z) => z \in After[x]
         /\ Tied(After, x, y) /\ Tied(After, y, z) => Tied(After, x, z)
         /\ Tied(After, x, y) => Tied(After, y, x)
  BY DEF StrictWeak, Tied

LEMMA ListLessAsymmetric ==
  ASSUME NEW E, NEW After, StrictWeak(E, After), NEW s \in Seq(E), NEW t \in Seq(E),
         ListLess(After, s, t)
  PROVE  ~ListLess(After, t, s)
<1> SUFFICES ASSUME ListLess(After, t, s) PROVE FALSE
  OBVIOUS
<1>1. PICK m \in Nat : LessAt(After, s, t, m)
  BY DEF ListLess
<1>2. PICK n \in Nat : LessAt(After, t, s, n)
  BY DEF ListLess
<1>3. /\ Len(s) \in Nat /\ Len(t) \in Nat
      /\ \A i \in 1 .. Len(s) : s[i] \in E
      /\ \A i \in 1 .. Len(t) : t[i] \in E
  OBVIOUS
<1>4. CASE m < n
  <2>1. m \in 1 .. n - 1 /\ m <= Len(s)
    BY <1>1, <1>2, <1>3, <1>4 DEF LessAt
  <2>2. t[m] \in After[s[m]] /\ Tied(After, t[m], s[m])
    BY <1>1, <1>2, <2>1 DEF LessAt
  <2> QED
    BY <2>2 DEF Tied
<1>5. CASE n < m
  <2>1. n \in 1 .. m - 1 /\ n <= Len(t)
    BY <1>1, <1>2, <1>3, <1>5 DEF LessAt
  <2>2. s[n] \in After[t[n]] /\ Tied(After, s[n], t[n])
    BY <1>1, <1>2, <2>1 DEF LessAt
  <2> QED
    BY <2>2 DEF Tied
<1>6. CASE m = n
  <2>1. n \in 1 .. Len(s) /\ n \in 1 .. Len(t)
    BY <1>1, <1>2, <1>6 DEF LessAt
  <2>2. t[n] \in After[s[n]] /\ s[n] \in After[t[n]] /\ s[n] \in E /\ t[n] \in E
    BY <1>1, <1>2, <1>3, <1>6, <2>1 DEF LessAt
  <2> QED
    BY <2>2 DEF StrictWeak
<1> QED
  BY <1>4, <1>5, <1>6

(* The first place where they are not tied, or the end of one, decides.    *)
LEMMA ListsCompare ==
  ASSUME NEW E, NEW After, StrictWeak(E, After), NEW s \in Seq(E), NEW t \in Seq(E)
  PROVE  ListLess(After, s, t) \/ ListLess(After, t, s) \/ ListTied(After, s, t)
<1> DEFINE Ends == {n \in Nat \ {0} : \/ n > Len(s) \/ n > Len(t) \/ ~Tied(After, s[n], t[n])}
<1>1. Len(s) \in Nat /\ Len(t) \in Nat
  OBVIOUS
<1>2. Ends \in SUBSET Nat /\ Len(s) + 1 \in Ends
  BY <1>1
<1> HIDE DEF Ends
<1>3. PICK n \in Ends : \A e \in Ends : n <= e
  BY <1>2, LeastNumber
<1>4. n \in Nat \ {0} /\ (n > Len(s) \/ n > Len(t) \/ ~Tied(After, s[n], t[n]))
  BY DEF Ends
<1>5. ASSUME NEW j \in 1 .. n - 1
      PROVE  j <= Len(s) /\ j <= Len(t) /\ Tied(After, s[j], t[j])
  <2>1. j \in Nat \ {0} /\ ~(n <= j)
    BY <1>4
  <2>2. j \notin Ends
    BY <1>3, <2>1
  <2> QED
    BY <1>1, <2>1, <2>2 DEF Ends
<1>6. n <= Len(s) + 1 /\ n <= Len(t) + 1
  <2>1. n - 1 \in 1 .. n - 1 \/ n = 1
    BY <1>4
  <2> QED
    BY <1>1, <1>4, <1>5, <2>1
<1>7. \A j \in 1 .. n - 1 : Tied(After, t[j], s[j])
  BY <1>5 DEF Tied
<1>8. CASE n <= Len(s) /\ n <= Len(t)
  <2>1. t[n] \in After[s[n]] \/ s[n] \in After[t[n]]
    BY <1>1, <1>4, <1>8 DEF Tied
  <2>2. LessAt(After, s, t, n) \/ LessAt(After, t, s, n)
    BY <1>1, <1>4, <1>5, <1>6, <1>7, <1>8, <2>1 DEF LessAt
  <2> QED
    BY <1>4, <2>2 DEF ListLess
<1>9. CASE n <= Len(s) /\ n > Len(t)
  <2>1. LessAt(After, t, s, n)
    BY <1>1, <1>4, <1>6, <1>7, <1>9 DEF LessAt
  <2> QED
    BY <1>4, <2>1 DEF ListLess
<1>10. CASE n > Len(s) /\ n <= Len(t)
  <2>1. LessAt(After, s, t, n)
    BY <1>1, <1>4, <1>5, <1>6, <1>10 DEF LessAt
  <2> QED
    BY <1>4, <2>1 DEF ListLess
<1>11. CASE n > Len(s) /\ n > Len(t)
  <2>1. Len(s) = n - 1 /\ Len(t) = n - 1
    BY <1>1, <1>4, <1>6, <1>11
  <2> QED
    BY <1>5, <2>1 DEF ListTied
<1> QED
  BY <1>1, <1>4, <1>8, <1>9, <1>10, <1>11

LEMMA TiedListsNotLess ==
  ASSUME NEW E, NEW After, StrictWeak(E, After), NEW s \in Seq(E), NEW t \in Seq(E),
         ListTied(After, s, t)
  PROVE  ~ListLess(After, s, t) /\ ~ListLess(After, t, s)
<1>1. Len(s) \in Nat /\ Len(t) = Len(s) /\ \A i \in 1 .. Len(s) : Tied(After, s[i], t[i])
  BY DEF ListTied
<1>2. ASSUME NEW n \in Nat, LessAt(After, s, t, n) PROVE FALSE
  BY <1>1, <1>2 DEF LessAt, Tied
<1>3. ASSUME NEW n \in Nat, LessAt(After, t, s, n) PROVE FALSE
  BY <1>1, <1>3 DEF LessAt, Tied
<1> QED
  BY <1>2, <1>3 DEF ListLess

LEMMA ListLessTransitive ==
  ASSUME NEW E, NEW After, StrictWeak(E, After),
         NEW s \in Seq(E), NEW t \in Seq(E), NEW u \in Seq(E),
         ListLess(After, s, t), ListLess(After, t, u)
  PROVE  ListLess(After, s, u)
<1>1. PICK m \in Nat : LessAt(After, s, t, m)
  BY DEF ListLess
<1>2. PICK n \in Nat : LessAt(After, t, u, n)
  BY DEF ListLess
<1>3. /\ Len(s) \in Nat /\ Len(t) \in Nat /\ Len(u) \in Nat
      /\ \A i \in 1 .. Len(s) : s[i] \in E
      /\ \A i \in 1 .. Len(t) : t[i] \in E
      /\ \A i \in 1 .. Len(u) : u[i] \in E
  OBVIOUS
<1>4. /\ m \in 1 .. Len(t) /\ m <= Len(s) + 1 /\ n \in 1 .. Len(u) /\ n <= Len(t) + 1
      /\ \A j \in 1 .. m - 1 : Tied(After, s[j], t[j])
      /\ \A j \in 1 .. n - 1 : Tied(After, t[j], u[j])
  BY <1>1, <1>2 DEF LessAt
<1>5. ASSUME NEW j \in Nat, 1 <= j, j < m, j < n PROVE Tied(After, s[j], u[j])
  <2>1. s[j] \in E /\ t[j] \in E /\ u[j] \in E
    BY <1>3, <1>4, <1>5
  <2>2. Tied(After, s[j], t[j]) /\ Tied(After, t[j], u[j])
    BY <1>4, <1>5
  <2> QED
    BY <2>1, <2>2, TiedThings
<1>6. CASE m < n
  <2>1. ASSUME m <= Len(s) PROVE u[m] \in After[s[m]]
    <3>1. s[m] \in E /\ t[m] \in E /\ u[m] \in E
      BY <1>3, <1>4, <1>6, <2>1
    <3>2. t[m] \in After[s[m]] /\ Tied(After, t[m], u[m])
      BY <1>1, <1>4, <1>6, <2>1 DEF LessAt
    <3> QED
      BY <3>1, <3>2, TiedThings
  <2>2. LessAt(After, s, u, m)
    BY <1>3, <1>4, <1>5, <1>6, <2>1 DEF LessAt
  <2> QED
    BY <2>2 DEF ListLess
<1>7. CASE n < m
  <2>1. n <= Len(s) /\ u[n] \in After[s[n]]
    <3>1. n <= Len(s) /\ n <= Len(t) /\ s[n] \in E /\ t[n] \in E /\ u[n] \in E
      BY <1>3, <1>4, <1>7
    <3>2. u[n] \in After[t[n]] /\ Tied(After, s[n], t[n])
      BY <1>2, <1>4, <1>7, <3>1 DEF LessAt
    <3> QED
      BY <3>1, <3>2, TiedThings
  <2>2. LessAt(After, s, u, n)
    BY <1>3, <1>4, <1>5, <1>7, <2>1 DEF LessAt
  <2> QED
    BY <2>2 DEF ListLess
<1>8. CASE m = n
  <2>1. ASSUME m <= Len(s) PROVE u[m] \in After[s[m]]
    <3>1. s[m] \in E /\ t[m] \in E /\ u[m] \in E
      BY <1>3, <1>4, <1>8, <2>1
    <3>2. t[m] \in After[s[m]] /\ u[m] \in After[t[m]]
      BY <1>1, <1>2, <1>4, <1>8, <2>1 DEF LessAt
    <3> QED
      BY <3>1, <3>2, TiedThings
  <2>2. LessAt(After, s, u, m)
    BY <1>3, <1>4, <1>5, <1>8, <2>1 DEF LessAt
  <2> QED
    BY <2>2 DEF ListLess
<1> QED
  BY <1>6, <1>7, <1>8

(* A list tied with one that is less than a third is less than that.       *)
LEMMA TiedListLess ==
  ASSUME NEW E, NEW After, StrictWeak(E, After),
         NEW s \in Seq(E), NEW t \in Seq(E), NEW u \in Seq(E),
         ListTied(After, s, t), ListLess(After, s, u)
  PROVE  ListLess(After, t, u)
<1>1. PICK n \in Nat : LessAt(After, s, u, n)
  BY DEF ListLess
<1>2. /\ Len(s) \in Nat /\ Len(t) = Len(s) /\ Len(u) \in Nat
      /\ \A i \in 1 .. Len(s) : Tied(After, t[i], s[i]) /\ s[i] \in E /\ t[i] \in E
      /\ \A i \in 1 .. Len(u) : u[i] \in E
  BY DEF ListTied, Tied
<1>3. /\ n \in 1 .. Len(u) /\ n <= Len(s) + 1
      /\ \A j \in 1 .. n - 1 : Tied(After, s[j], u[j])
      /\ n <= Len(s) => u[n] \in After[s[n]]
  BY <1>1 DEF LessAt
<1>4. ASSUME NEW j \in 1 .. n - 1 PROVE Tied(After, t[j], u[j])
  <2>1. /\ j \in 1 .. Len(s) /\ s[j] \in E /\ t[j] \in E /\ u[j] \in E
        /\ Tied(After, t[j], s[j]) /\ Tied(After, s[j], u[j])
    BY <1>2, <1>3
  <2> QED
    BY <2>1, TiedThings
<1>5. ASSUME n <= Len(s) PROVE u[n] \in After[t[n]]
  <2>1. /\ s[n] \in E /\ t[n] \in E /\ u[n] \in E
        /\ Tied(After, t[n], s[n]) /\ u[n] \in After[s[n]]
    BY <1>2, <1>3, <1>5
  <2> QED
    BY <2>1, TiedThings
<1>6. LessAt(After, t, u, n)
  BY <1>2, <1>3, <1>4, <1>5 DEF LessAt
<1> QED
  BY <1>6 DEF ListLess

(* So the lists are ordered as the things in them are.                     *)
LEMMA ListsOrdered ==
  ASSUME NEW E, NEW After, StrictWeak(E, After),
         NEW s \in Seq(E), NEW t \in Seq(E), NEW u \in Seq(E)
  PROVE  /\ ListLess(After, s, t) => ~ListLess(After, t, s)
         /\ ListLess(After, s, u) => ListLess(After, s, t) \/ ListLess(After, t, u)
         /\ ListTied(After, s, t) <=> ~ListLess(After, s, t) /\ ~ListLess(After, t, s)
<1>1. ListLess(After, s, t) => ~ListLess(After, t, s)
  BY ListLessAsymmetric
<1>2. ListTied(After, s, t) <=> ~ListLess(After, s, t) /\ ~ListLess(After, t, s)
  BY ListsCompare, TiedListsNotLess
<1>3. ASSUME ListLess(After, s, u), ~ListLess(After, s, t) PROVE ListLess(After, t, u)
  <2>1. CASE ListLess(After, t, s)
    BY <1>3, <2>1, ListLessTransitive
  <2>2. CASE ListTied(After, s, t)
    BY <1>3, <2>2, TiedListLess
  <2> QED
    BY <1>2, <1>3, <2>1, <2>2
<1> QED
  BY <1>1, <1>2, <1>3

(* What a member takes is less than what the value takes.                  *)
LEMMA TotalCovers ==
  ASSUME NEW V, Weighed(V), \A v \in V : Blocks(v) >= 0, NEW s \in Seq(V), NEW p \in 1 .. Len(s)
  PROVE  Blocks(s[p]) <= Total(s) /\ Total(s) \in Int /\ Blocks(s[p]) \in Int
<1>1. ASSUME NEW t \in Seq(V) PROVE Total(t) \in Int /\ Total(t) >= 0
  <2>1. PICK g : Sums(t, g)
    BY SumsExist
  <2>2. Total(t) = g[Len(t)] /\ Total(t) \in Int
    BY <2>1, TotalIs
  <2>3. Len(t) \in Nat /\ \A i \in 1 .. Len(t) : Blocks(t[i]) \in Int /\ Blocks(t[i]) >= 0
    BY DEF Weighed
  <2> DEFINE D == {i \in 0 .. Len(t) : ~(g[i] >= 0)}
  <2>4. D = {}
    <3> SUFFICES ASSUME D # {} PROVE FALSE
      OBVIOUS
    <3>1. D \in SUBSET Nat
      BY <2>3
    <3> HIDE DEF D
    <3>2. PICK d \in D : \A e \in D : d <= e
      BY <3>1, LeastNumber
    <3>3. d \in 0 .. Len(t) /\ ~(g[d] >= 0) /\ d # 0
      BY <2>1 DEF D, Sums
    <3>4. d \in 1 .. Len(t) /\ d - 1 \in 0 .. Len(t) /\ ~(d <= d - 1)
      BY <2>3, <3>3
    <3>5. g[d - 1] >= 0 /\ g[d - 1] \in Int
      BY <2>1, <3>2, <3>4 DEF D, Sums
    <3>6. g[d] = g[d - 1] + Blocks(t[d])
      BY <2>1, <3>4 DEF Sums
    <3> QED
      BY <2>3, <3>3, <3>4, <3>5, <3>6
  <2>5. Len(t) \in 0 .. Len(t)
    BY <2>3
  <2> QED
    BY <2>2, <2>4, <2>5
<1> DEFINE q == p - 1
           rest == Without(s, q, q + 1)
<1>2. q \in 0 .. Len(s) - 1 /\ q + 1 = p /\ q \in Nat /\ q <= q + 1 /\ q + 1 <= Len(s)
  OBVIOUS
<1> HIDE DEF q
<1>3. Total(s) = Total(rest) + Blocks(s[p]) /\ Blocks(s[p]) \in Int
  BY <1>2, TotalOfOne
<1>4. rest \in Seq(V)
  BY <1>2, WithoutSome
<1> HIDE DEF rest
<1>5. Total(rest) \in Int /\ Total(rest) >= 0
  BY <1>1, <1>4
<1>6. \A a, b \in Int : a >= 0 => b <= a + b /\ a + b \in Int
  OBVIOUS
<1> QED
  BY <1>3, <1>5, <1>6

(* The values that take less than n, which are fewer than all.             *)
Below(V, n) == {v \in V : Blocks(v) < n}

LEMMA MembersBelow ==
  ASSUME BlocksAdd, NEW V, Closed(V), NEW n \in Nat, NEW v \in Below(V, n + 1), v.type \in Compound
  PROVE  Members(v) \in Seq(Below(V, n))
<1>1. v \in V /\ Blocks(v) < n + 1 /\ ContainerOf(v, V)
  BY DEF Below, Closed
<1>2. /\ Weighed(V) /\ \A x \in V : Blocks(x) \in Nat
      /\ Blocks(v) = 1 + Total(Members(v)) /\ Members(v) \in Seq(V)
  <2>1. Blocks(v) = 1 + Total(Members(v)) /\ Members(v) \in Seq(V)
    BY <1>1, BlocksOf
  <2>2. \A x \in V : Blocks(x) \in Nat
    BY DEF BlocksAdd
  <2> QED
    BY <2>1, <2>2 DEF Weighed
<1> DEFINE m == Members(v)
<1>3. \A x \in V : Blocks(x) >= 0
  BY <1>2
<1> HIDE DEF m
<1>4. ASSUME NEW i \in 1 .. Len(m) PROVE m[i] \in Below(V, n)
  <2>1. m \in Seq(V)
    BY <1>2 DEF m
  <2>2. Blocks(m[i]) <= Total(m) /\ Total(m) \in Int /\ Blocks(m[i]) \in Int
    BY <1>2, <1>3, <2>1, TotalCovers
  <2>3. 1 + Total(m) < n + 1
    BY <1>1, <1>2 DEF m
  <2>4. Blocks(m[i]) < n
    BY <2>2, <2>3
  <2> QED
    BY <2>1, <2>4 DEF Below
<1>5. m \in Seq(V)
  BY <1>2 DEF m
<1>6. m \in Seq(Below(V, n))
  <2>1. m \in [1 .. Len(m) -> V] /\ Len(m) \in Nat
    BY <1>5
  <2>2. m \in [1 .. Len(m) -> Below(V, n)]
    BY <1>4, <2>1
  <2> QED
    BY <2>1, <2>2
<1> QED
  BY <1>6 DEF m

-----------------------------------------------------------------------------
(* Sorted values: of two one is less or they are equal, and what is less   *)
(* than a third is less than the second, or that is less than the third.   *)
Sorted(S) ==
    /\ \A v, w \in S : /\ Less(v, w) => ~Less(w, v)
                       /\ Equal(v, w) <=> ~Less(v, w) /\ ~Less(w, v)
    /\ \A v, w, x \in S : Less(v, x) => Less(v, w) \/ Less(w, x)

ValuesAfter(S) == [v \in S |-> {w \in S : Less(v, w)}]

LEMMA ValuesWeak ==
  ASSUME NEW S, Sorted(S)
  PROVE  /\ StrictWeak(S, ValuesAfter(S))
         /\ \A v, w \in S : /\ w \in ValuesAfter(S)[v] <=> Less(v, w)
                            /\ Tied(ValuesAfter(S), v, w) <=> Equal(v, w)
<1>1. ValuesAfter(S) \in [S -> SUBSET S]
  BY DEF ValuesAfter
<1>2. \A v, w \in S : w \in ValuesAfter(S)[v] <=> Less(v, w)
  BY DEF ValuesAfter
<1> QED
  BY <1>1, <1>2 DEF StrictWeak, Tied, Sorted

(* The members of objects, with their keys.                                *)
PairLess(p, q) == StringLess(p[1], q[1]) \/ (p[1] = q[1] /\ Less(p[2], q[2]))
PairsAfter(S) == [p \in Strings \X S |-> {q \in Strings \X S : PairLess(p, q)}]

LEMMA KeysCompare ==
  ASSUME NEW k \in Strings, NEW l \in Strings, NEW j \in Strings
  PROVE  /\ ~StringLess(k, k)
         /\ StringLess(k, l) => ~StringLess(l, k)
         /\ StringLess(k, l) \/ StringLess(l, k) \/ k = l
         /\ StringLess(k, l) /\ StringLess(l, j) => StringLess(k, j)
<1>1. ~StringLess(k, k)
  BY StringLessIrreflexive
<1>2. StringLess(k, l) => ~StringLess(l, k)
  BY <1>1, StringLessTransitive
<1>3. StringLess(k, l) \/ StringLess(l, k) \/ k = l
  BY StringLessTotal
<1>4. StringLess(k, l) /\ StringLess(l, j) => StringLess(k, j)
  BY StringLessTransitive
<1> QED
  BY <1>1, <1>2, <1>3, <1>4

LEMMA PairsWeak ==
  ASSUME NEW S, Sorted(S)
  PROVE  /\ StrictWeak(Strings \X S, PairsAfter(S))
         /\ \A p, q \in Strings \X S :
              /\ q \in PairsAfter(S)[p] <=> PairLess(p, q)
              /\ Tied(PairsAfter(S), p, q) <=> p[1] = q[1] /\ Equal(p[2], q[2])
<1> DEFINE E == Strings \X S
<1>1. PairsAfter(S) \in [E -> SUBSET E]
  BY DEF PairsAfter
<1>2. \A p, q \in E : q \in PairsAfter(S)[p] <=> PairLess(p, q)
  BY DEF PairsAfter
<1>3. \A p \in E : p[1] \in Strings /\ p[2] \in S
  OBVIOUS
<1> HIDE DEF E
<1>4. ASSUME NEW p \in E, NEW q \in E
      PROVE  /\ PairLess(p, q) => ~PairLess(q, p)
             /\ ~PairLess(p, q) /\ ~PairLess(q, p) <=> p[1] = q[1] /\ Equal(p[2], q[2])
  <2>1. p[1] \in Strings /\ q[1] \in Strings /\ p[2] \in S /\ q[2] \in S
    BY <1>3
  <2>2. /\ ~StringLess(p[1], p[1]) /\ ~StringLess(q[1], q[1])
        /\ StringLess(p[1], q[1]) => ~StringLess(q[1], p[1])
        /\ StringLess(p[1], q[1]) \/ StringLess(q[1], p[1]) \/ p[1] = q[1]
    BY <2>1, KeysCompare
  <2>3. /\ Less(p[2], q[2]) => ~Less(q[2], p[2])
        /\ Equal(p[2], q[2]) <=> ~Less(p[2], q[2]) /\ ~Less(q[2], p[2])
    BY <2>1 DEF Sorted
  <2> QED
    BY <2>2, <2>3 DEF PairLess
<1>5. ASSUME NEW p \in E, NEW q \in E, NEW r \in E, PairLess(p, r)
      PROVE  PairLess(p, q) \/ PairLess(q, r)
  <2>1. /\ p[1] \in Strings /\ q[1] \in Strings /\ r[1] \in Strings
        /\ p[2] \in S /\ q[2] \in S /\ r[2] \in S
    BY <1>3
  <2>2. /\ StringLess(p[1], q[1]) \/ StringLess(q[1], p[1]) \/ p[1] = q[1]
        /\ StringLess(q[1], p[1]) /\ StringLess(p[1], r[1]) => StringLess(q[1], r[1])
    BY <2>1, KeysCompare
  <2>3. Less(p[2], r[2]) => Less(p[2], q[2]) \/ Less(q[2], r[2])
    BY <2>1 DEF Sorted
  <2> QED
    BY <1>5, <2>2, <2>3 DEF PairLess
<1>6. StrictWeak(E, PairsAfter(S))
  BY <1>1, <1>2, <1>4, <1>5 DEF StrictWeak
<1>7. \A p, q \in E : Tied(PairsAfter(S), p, q) <=> p[1] = q[1] /\ Equal(p[2], q[2])
  BY <1>2, <1>4 DEF Tied
<1> QED
  BY <1>2, <1>6, <1>7 DEF E

(* What json.hpp compares is the lists.                                    *)
LEMMA ListLessMeans ==
  ASSUME NEW E, NEW After, NEW s \in Seq(E), NEW t \in Seq(E)
  PROVE  ListLess(After, s, t) <=>
           \/ \E i \in DOMAIN s \cap DOMAIN t :
                t[i] \in After[s[i]] /\ \A j \in 1 .. i - 1 : Tied(After, s[j], t[j])
           \/ Len(s) < Len(t) /\ \A i \in DOMAIN s : Tied(After, s[i], t[i])
<1>1. /\ Len(s) \in Nat /\ Len(t) \in Nat /\ DOMAIN s = 1 .. Len(s) /\ DOMAIN t = 1 .. Len(t)
  OBVIOUS
<1>2. ASSUME NEW n \in Nat, LessAt(After, s, t, n), n <= Len(s)
      PROVE  \E i \in DOMAIN s \cap DOMAIN t :
                t[i] \in After[s[i]] /\ \A j \in 1 .. i - 1 : Tied(After, s[j], t[j])
  BY <1>1, <1>2 DEF LessAt
<1>3. ASSUME NEW n \in Nat, LessAt(After, s, t, n), ~(n <= Len(s))
      PROVE  Len(s) < Len(t) /\ \A i \in DOMAIN s : Tied(After, s[i], t[i])
  BY <1>1, <1>3 DEF LessAt
<1>4. ASSUME NEW i \in DOMAIN s \cap DOMAIN t,
             t[i] \in After[s[i]] /\ \A j \in 1 .. i - 1 : Tied(After, s[j], t[j])
      PROVE  ListLess(After, s, t)
  <2>1. i \in Nat /\ LessAt(After, s, t, i)
    BY <1>1, <1>4 DEF LessAt
  <2> QED
    BY <2>1 DEF ListLess
<1>5. ASSUME Len(s) < Len(t), \A i \in DOMAIN s : Tied(After, s[i], t[i])
      PROVE  ListLess(After, s, t)
  <2>1. Len(s) + 1 \in Nat /\ LessAt(After, s, t, Len(s) + 1)
    BY <1>1, <1>5 DEF LessAt
  <2> QED
    BY <2>1 DEF ListLess
<1> QED
  BY <1>2, <1>3, <1>4, <1>5 DEF ListLess

LEMMA ArraysCompare ==
  ASSUME NEW V, Compared(V), NEW S, Sorted(S), NEW v \in V, NEW w \in V,
         v.type = "array", w.type = "array", v.elements \in Seq(S), w.elements \in Seq(S)
  PROVE  /\ Less(v, w) <=> ListLess(ValuesAfter(S), v.elements, w.elements)
         /\ Equal(v, w) <=> ListTied(ValuesAfter(S), v.elements, w.elements)
<1> DEFINE A == ValuesAfter(S)
<1>1. PICK s \in Seq(S) : s = v.elements
  OBVIOUS
<1>2. PICK t \in Seq(S) : t = w.elements
  OBVIOUS
<1>3. /\ DOMAIN s = 1 .. Len(s) /\ DOMAIN t = 1 .. Len(t) /\ Len(s) \in Nat /\ Len(t) \in Nat
      /\ \A i \in 1 .. Len(s) : s[i] \in S
      /\ \A i \in 1 .. Len(t) : t[i] \in S
  OBVIOUS
<1>4. \A x, y \in S : /\ y \in A[x] <=> Less(x, y)
                      /\ Tied(A, x, y) <=> Equal(x, y)
                      /\ Tied(A, x, y) <=> ~Less(x, y) /\ ~Less(y, x)
  BY ValuesWeak DEF Tied
<1> HIDE DEF A
<1>5. Less(v, w) <=>
         \/ \E i \in DOMAIN s \cap DOMAIN t :
              /\ Less(s[i], t[i])
              /\ \A j \in 1 .. i - 1 : ~Less(s[j], t[j]) /\ ~Less(t[j], s[j])
         \/ Len(s) < Len(t) /\ \A i \in DOMAIN s : ~Less(s[i], t[i]) /\ ~Less(t[i], s[i])
  <2>1. Less(v, w) <=> LessBy(v, w, Less)
    BY DEF Compared
  <2> QED
    BY <1>1, <1>2, <2>1 DEF LessBy, Lexicographic
<1>6. ASSUME NEW i \in 1 .. Len(s), i \in 1 .. Len(t)
      PROVE  /\ t[i] \in A[s[i]] <=> Less(s[i], t[i])
             /\ Tied(A, s[i], t[i]) <=> ~Less(s[i], t[i]) /\ ~Less(t[i], s[i])
  BY <1>3, <1>4, <1>6
<1>7. ASSUME NEW i \in DOMAIN s \cap DOMAIN t
      PROVE  (t[i] \in A[s[i]] /\ \A j \in 1 .. i - 1 : Tied(A, s[j], t[j])) <=>
               /\ Less(s[i], t[i])
               /\ \A j \in 1 .. i - 1 : ~Less(s[j], t[j]) /\ ~Less(t[j], s[j])
  <2>1. \A j \in 1 .. i - 1 : j \in 1 .. Len(s) /\ j \in 1 .. Len(t)
    BY <1>3
  <2> QED
    BY <1>3, <1>6, <2>1
<1>8. Len(s) < Len(t) => \A i \in DOMAIN s :
        Tied(A, s[i], t[i]) <=> ~Less(s[i], t[i]) /\ ~Less(t[i], s[i])
  BY <1>3, <1>6
<1>9. Less(v, w) <=> ListLess(A, s, t)
  BY <1>5, <1>7, <1>8, ListLessMeans
<1>10. Equal(v, w) <=> Len(s) = Len(t) /\ \A i \in DOMAIN s : Equal(s[i], t[i])
  <2>1. Equal(v, w) <=> EqualBy(v, w, Equal)
    BY DEF Compared
  <2> QED
    BY <1>1, <1>2, <2>1 DEF EqualBy
<1>11. Equal(v, w) <=> ListTied(A, s, t)
  BY <1>3, <1>4, <1>10 DEF ListTied
<1> QED
  BY <1>1, <1>2, <1>9, <1>11 DEF A

LEMMA PairsOf ==
  ASSUME NEW V, Closed(V), NEW v \in V, v.type = "object", NEW S, Members(v) \in Seq(S)
  PROVE  /\ Pairs(v) \in Seq(Strings \X S) /\ Len(Pairs(v)) = Cardinality(DOMAIN v.members)
         /\ Len(Keys(v)) = Len(Pairs(v)) /\ Keys(v) \in Seq(DOMAIN v.members)
         /\ \A i \in 1 .. Len(Pairs(v)) :
              Pairs(v)[i][1] = Keys(v)[i] /\ Pairs(v)[i][2] = v.members[Keys(v)[i]]
         /\ \A k \in DOMAIN v.members : \E i \in 1 .. Len(Pairs(v)) : Keys(v)[i] = k
<1> DEFINE D == DOMAIN v.members
           n == Cardinality(D)
<1>1. ContainerOf(v, V) /\ KeyedBy(v, D) /\ D \subseteq Strings
  BY ContainerTypes DEF Closed, KeyedBy
<1>2. /\ n \in Nat /\ Keys(v) \in Seq(D) /\ Len(Keys(v)) = n
      /\ \A k \in D : \E i \in 1 .. n : Keys(v)[i] = k
  BY <1>1, KeysInOrder
<1>3. Len(Members(v)) = n /\ \A i \in 1 .. n : Members(v)[i] = v.members[Keys(v)[i]]
  BY <1>1, MembersOf
<1>4. DOMAIN Keys(v) = 1 .. n /\ \A i \in 1 .. n : Keys(v)[i] \in D
  BY <1>2
<1>5. Pairs(v) = [i \in 1 .. n |-> <<Keys(v)[i], v.members[Keys(v)[i]]>>]
  BY <1>4 DEF Pairs
<1> HIDE DEF D, n
<1>6. \A i \in 1 .. n : Members(v)[i] \in S
  BY <1>3
<1>7. \A i \in 1 .. n : <<Keys(v)[i], v.members[Keys(v)[i]]>> \in Strings \X S
  BY <1>1, <1>3, <1>4, <1>6
<1>8. Pairs(v) \in [1 .. n -> Strings \X S]
  BY <1>5, <1>7
<1>9. Pairs(v) \in Seq(Strings \X S) /\ Len(Pairs(v)) = n
  BY <1>2, <1>8
<1>10. \A i \in 1 .. n : /\ Pairs(v)[i][1] = Keys(v)[i]
                         /\ Pairs(v)[i][2] = v.members[Keys(v)[i]]
  BY <1>5
<1> QED
  BY <1>2, <1>9, <1>10 DEF D, n

LEMMA ObjectsCompare ==
  ASSUME NEW V, Closed(V), Compared(V), NEW S, Sorted(S), NEW v \in V, NEW w \in V,
         v.type = "object", w.type = "object", Members(v) \in Seq(S), Members(w) \in Seq(S)
  PROVE  /\ Pairs(v) \in Seq(Strings \X S) /\ Pairs(w) \in Seq(Strings \X S)
         /\ Less(v, w) <=> ListLess(PairsAfter(S), Pairs(v), Pairs(w))
         /\ Equal(v, w) <=> ListTied(PairsAfter(S), Pairs(v), Pairs(w))
<1> DEFINE A == PairsAfter(S)
           E == Strings \X S
<1>1. PICK s \in Seq(E) : s = Pairs(v)
  BY PairsOf
<1>2. PICK t \in Seq(E) : t = Pairs(w)
  BY PairsOf
<1>4. \A x, y \in E : /\ y \in A[x] <=> PairLess(x, y)
                      /\ Tied(A, x, y) <=> x[1] = y[1] /\ Equal(x[2], y[2])
                      /\ Tied(A, x, y) <=> ~PairLess(x, y) /\ ~PairLess(y, x)
  BY PairsWeak DEF Tied
<1> HIDE DEF A, E
<1>3. /\ DOMAIN s = 1 .. Len(s) /\ DOMAIN t = 1 .. Len(t) /\ Len(s) \in Nat /\ Len(t) \in Nat
      /\ \A i \in 1 .. Len(s) : s[i] \in E
      /\ \A i \in 1 .. Len(t) : t[i] \in E
  OBVIOUS
<1>5. Less(v, w) <=>
         \/ \E i \in DOMAIN s \cap DOMAIN t :
              /\ PairLess(s[i], t[i])
              /\ \A j \in 1 .. i - 1 : ~PairLess(s[j], t[j]) /\ ~PairLess(t[j], s[j])
         \/ Len(s) < Len(t) /\ \A i \in DOMAIN s : ~PairLess(s[i], t[i]) /\ ~PairLess(t[i], s[i])
  <2>1. Less(v, w) <=> LessBy(v, w, Less)
    BY DEF Compared
  <2> QED
    BY <1>1, <1>2, <2>1 DEF LessBy, Lexicographic, PairLess
<1>6. ASSUME NEW i \in 1 .. Len(s), i \in 1 .. Len(t)
      PROVE  /\ t[i] \in A[s[i]] <=> PairLess(s[i], t[i])
             /\ Tied(A, s[i], t[i]) <=> ~PairLess(s[i], t[i]) /\ ~PairLess(t[i], s[i])
  BY <1>3, <1>4, <1>6
<1>7. ASSUME NEW i \in DOMAIN s \cap DOMAIN t
      PROVE  (t[i] \in A[s[i]] /\ \A j \in 1 .. i - 1 : Tied(A, s[j], t[j])) <=>
               /\ PairLess(s[i], t[i])
               /\ \A j \in 1 .. i - 1 : ~PairLess(s[j], t[j]) /\ ~PairLess(t[j], s[j])
  <2>1. \A j \in 1 .. i - 1 : j \in 1 .. Len(s) /\ j \in 1 .. Len(t)
    BY <1>3
  <2> QED
    BY <1>3, <1>6, <2>1
<1>8. Len(s) < Len(t) => \A i \in DOMAIN s :
        Tied(A, s[i], t[i]) <=> ~PairLess(s[i], t[i]) /\ ~PairLess(t[i], s[i])
  BY <1>3, <1>6
<1>9. Less(v, w) <=> ListLess(A, s, t)
  BY <1>5, <1>7, <1>8, ListLessMeans
<1>10. Equal(v, w) <=> /\ DOMAIN v.members = DOMAIN w.members
                       /\ \A k \in DOMAIN v.members : Equal(v.members[k], w.members[k])
  <2>1. Equal(v, w) <=> EqualBy(v, w, Equal)
    BY DEF Compared
  <2> QED
    BY <2>1 DEF EqualBy
<1>11. /\ Len(Keys(v)) = Len(s) /\ Keys(v) \in Seq(DOMAIN v.members)
       /\ \A i \in 1 .. Len(s) : s[i][1] = Keys(v)[i] /\ s[i][2] = v.members[Keys(v)[i]]
       /\ \A x \in DOMAIN v.members : \E i \in 1 .. Len(s) : Keys(v)[i] = x
  BY <1>1, PairsOf, ZenonT(40)
<1>12. /\ Len(Keys(w)) = Len(t) /\ Keys(w) \in Seq(DOMAIN w.members)
       /\ \A i \in 1 .. Len(t) : t[i][1] = Keys(w)[i] /\ t[i][2] = w.members[Keys(w)[i]]
       /\ \A x \in DOMAIN w.members : \E i \in 1 .. Len(t) : Keys(w)[i] = x
  BY <1>2, PairsOf, ZenonT(40)
<1>13. DOMAIN v.members = DOMAIN w.members => Keys(v) = Keys(w)
  BY DEF Keys, KeysBefore
<1> DEFINE k == Keys(v)
           l == Keys(w)
<1>14. (Len(k) = Len(l) /\ \A i \in 1 .. Len(k) : k[i] = l[i] /\ Equal(v.members[k[i]], w.members[l[i]]))
         <=> /\ DOMAIN v.members = DOMAIN w.members
             /\ \A x \in DOMAIN v.members : Equal(v.members[x], w.members[x])
  <2> DEFINE D == DOMAIN v.members
             F == DOMAIN w.members
             f == v.members
             g == w.members
  <2> HIDE DEF k, l
  <2>1. /\ \A x \in D : \E i \in 1 .. Len(k) : k[i] = x
        /\ \A x \in F : \E i \in 1 .. Len(l) : l[i] = x
        /\ k \in Seq(D) /\ l \in Seq(F)
    BY <1>11, <1>12 DEF k, l
  <2>2. D = F => k = l
    BY <1>13 DEF k, l
  <2> HIDE DEF D, F, f, g
  <2>3. /\ \A i \in 1 .. Len(k) : k[i] \in D
        /\ \A i \in 1 .. Len(l) : l[i] \in F
    <3>1. k \in Seq(D) /\ l \in Seq(F)
      BY <2>1
    <3>2. \A i \in 1 .. Len(k) : k[i] \in D
      BY ONLY <3>1
    <3>3. \A i \in 1 .. Len(l) : l[i] \in F
      BY ONLY <3>1
    <3> QED
      BY <3>2, <3>3
  <2>4. ASSUME D = F, \A x \in D : Equal(f[x], g[x])
        PROVE  Len(k) = Len(l) /\ \A i \in 1 .. Len(k) : k[i] = l[i] /\ Equal(f[k[i]], g[l[i]])
    BY <2>2, <2>3, <2>4, Zenon
  <2>5. ASSUME Len(k) = Len(l), \A i \in 1 .. Len(k) : k[i] = l[i] /\ Equal(f[k[i]], g[l[i]])
        PROVE  D = F /\ \A x \in D : Equal(f[x], g[x])
    <3>1. \A x \in D : x \in F /\ Equal(f[x], g[x])
      BY <2>1, <2>3, <2>5, ZenonT(40)
    <3>2. \A x \in F : x \in D
      BY <2>1, <2>3, <2>5, ZenonT(40)
    <3> QED
      BY <3>1, <3>2
  <2> QED
    BY <2>4, <2>5 DEF D, F, f, g
<1> HIDE DEF k, l
<1>15. ASSUME NEW i \in 1 .. Len(s), Len(s) = Len(t)
       PROVE  Tied(A, s[i], t[i]) <=> k[i] = l[i] /\ Equal(v.members[k[i]], w.members[l[i]])
  <2>1. s[i] \in E /\ t[i] \in E
    BY <1>3, <1>15
  <2>2. Tied(A, s[i], t[i]) <=> s[i][1] = t[i][1] /\ Equal(s[i][2], t[i][2])
    BY <1>4, <2>1
  <2>3. s[i][1] = k[i] /\ s[i][2] = v.members[k[i]]
    BY <1>11 DEF k
  <2>4. t[i][1] = l[i] /\ t[i][2] = w.members[l[i]]
    BY <1>12, <1>15 DEF l
  <2> QED
    BY <2>2, <2>3, <2>4
<1>16. Len(k) = Len(s) /\ Len(l) = Len(t)
  BY <1>11, <1>12 DEF k, l
<1>17. Equal(v, w) <=> ListTied(A, s, t)
  BY <1>10, <1>14, <1>15, <1>16 DEF ListTied
<1> QED
  BY <1>1, <1>2, <1>9, <1>17 DEF A, E

(* Values of one type are sorted if what is in them is.                    *)
SortedThree(v, w, x) ==
    /\ Less(v, w) => ~Less(w, v)
    /\ Equal(v, w) <=> ~Less(v, w) /\ ~Less(w, v)
    /\ Less(v, x) => Less(v, w) \/ Less(w, x)

LEMMA SameTypeSorted ==
  ASSUME NEW V, Closed(V), Compared(V), NEW S, Sorted(S),
         NEW v \in V, NEW w \in V, NEW x \in V, v.type = w.type, w.type = x.type,
         \A y \in {v, w, x} : y.type \in Compound => Members(y) \in Seq(S)
  PROVE  SortedThree(v, w, x)
<1>1. v.type \in Types /\ ContainerOf(v, V) /\ ContainerOf(w, V) /\ ContainerOf(x, V)
  BY ContainerTypes DEF Closed
<1>2. \A y, z \in V : /\ Less(y, z) <=> LessBy(y, z, Less)
                      /\ Equal(y, z) <=> EqualBy(y, z, Equal)
                      /\ y.type = "number" => Amount(y.number) \in Int
  BY DEF Compared
<1>3. CASE v.type = "array"
  <2>1. \A y \in {v, w, x} : y.type = "array" /\ y.elements \in Seq(S)
    BY <1>3 DEF Compound, Members
  <2>2. \A y, z \in {v, w, x} :
          /\ Less(y, z) <=> ListLess(ValuesAfter(S), y.elements, z.elements)
          /\ Equal(y, z) <=> ListTied(ValuesAfter(S), y.elements, z.elements)
    BY <2>1, ArraysCompare
  <2>3. StrictWeak(S, ValuesAfter(S))
    BY ValuesWeak
  <2>4. /\ ListLess(ValuesAfter(S), v.elements, w.elements)
             => ~ListLess(ValuesAfter(S), w.elements, v.elements)
        /\ ListLess(ValuesAfter(S), v.elements, x.elements)
             => \/ ListLess(ValuesAfter(S), v.elements, w.elements)
                \/ ListLess(ValuesAfter(S), w.elements, x.elements)
        /\ ListTied(ValuesAfter(S), v.elements, w.elements)
             <=> /\ ~ListLess(ValuesAfter(S), v.elements, w.elements)
                 /\ ~ListLess(ValuesAfter(S), w.elements, v.elements)
    BY <2>1, <2>3, ListsOrdered
  <2> QED
    BY <2>2, <2>4 DEF SortedThree
<1>4. CASE v.type = "object"
  <2> DEFINE A == PairsAfter(S)
             E == Strings \X S
  <2>1. \A y \in {v, w, x} : y.type = "object" /\ Members(y) \in Seq(S) /\ y \in V
    BY <1>4 DEF Compound
  <2>2. \A y, z \in {v, w, x} :
          /\ Pairs(y) \in Seq(E)
          /\ Less(y, z) <=> ListLess(A, Pairs(y), Pairs(z))
          /\ Equal(y, z) <=> ListTied(A, Pairs(y), Pairs(z))
    BY <2>1, ObjectsCompare
  <2>3. StrictWeak(E, A)
    BY PairsWeak
  <2> HIDE DEF A, E
  <2>4. /\ ListLess(A, Pairs(v), Pairs(w)) => ~ListLess(A, Pairs(w), Pairs(v))
        /\ ListLess(A, Pairs(v), Pairs(x))
             => ListLess(A, Pairs(v), Pairs(w)) \/ ListLess(A, Pairs(w), Pairs(x))
        /\ ListTied(A, Pairs(v), Pairs(w))
             <=> ~ListLess(A, Pairs(v), Pairs(w)) /\ ~ListLess(A, Pairs(w), Pairs(v))
    BY <2>2, <2>3, ListsOrdered
  <2> QED
    BY <2>2, <2>4 DEF SortedThree
<1>5. CASE v.type = "string"
  <2>1. \A y \in {v, w, x} : y.type = "string" /\ y.string \in Strings /\ y \in V
    BY <1>1, <1>5, ContainerTypes
  <2>2. \A y, z \in {v, w, x} : /\ Less(y, z) <=> StringLess(y.string, z.string)
                                /\ Equal(y, z) <=> y = z
    BY <1>2, <2>1 DEF LessBy, EqualBy, Lexicographic
  <2>3. v = w <=> v.string = w.string
    BY <1>1, <1>5 DEF ContainerOf, Null, Boolean, NumberOf, String
  <2>4. /\ StringLess(v.string, w.string) => ~StringLess(w.string, v.string)
        /\ ~StringLess(v.string, v.string)
        /\ \/ StringLess(v.string, w.string) \/ StringLess(w.string, v.string)
           \/ v.string = w.string
        /\ StringLess(w.string, v.string) /\ StringLess(v.string, x.string)
             => StringLess(w.string, x.string)
    BY <2>1, KeysCompare
  <2> QED
    BY <2>2, <2>3, <2>4 DEF SortedThree
<1>6. CASE v.type = "number"
  <2>1. \A y \in {v, w, x} : y.type = "number" /\ y \in V
    BY <1>6
  <2>2. \A y, z \in {v, w, x} : /\ Less(y, z) <=> Amount(y.number) < Amount(z.number)
                                /\ Equal(y, z) <=> Amount(y.number) = Amount(z.number)
    BY <1>2, <2>1 DEF LessBy, EqualBy, Lexicographic
  <2>3. \A y \in {v, w, x} : Amount(y.number) \in Int
    BY <1>2, <2>1
  <2>4. \A a, b, c \in Int : /\ a < b => ~(b < a)
                             /\ a = b <=> ~(a < b) /\ ~(b < a)
                             /\ a < c => a < b \/ b < c
    OBVIOUS
  <2> QED
    BY <2>2, <2>3, <2>4 DEF SortedThree
<1>7. CASE v.type = "boolean"
  <2>1. \A y \in {v, w, x} : y \in V /\ y.type = "boolean" /\ \E b \in BOOLEAN : y = Boolean(b)
    BY <1>1, <1>7 DEF ContainerOf, Null, NumberOf, String
  <2>2. \A y, z \in {v, w, x} : /\ Less(y, z) <=> ~y.boolean /\ z.boolean
                                /\ Equal(y, z) <=> y = z
    BY <1>2, <2>1 DEF LessBy, EqualBy, Lexicographic
  <2>3. PICK b \in BOOLEAN, c \in BOOLEAN, d \in BOOLEAN :
          v = Boolean(b) /\ w = Boolean(c) /\ x = Boolean(d)
    BY <2>1
  <2>4. /\ v.boolean = b /\ w.boolean = c /\ x.boolean = d
        /\ v = w <=> b = c
    BY <2>3 DEF Boolean
  <2> QED
    BY <2>2, <2>4 DEF SortedThree
<1>8. CASE v.type = "null"
  <2>1. v = Null /\ w = Null /\ x = Null
    BY <1>1, <1>8, ContainerTypes
  <2>2. ~Less(v, v) /\ Equal(v, v)
    BY <1>2, <1>8 DEF LessBy, EqualBy
  <2> QED
    BY <2>1, <2>2 DEF SortedThree
<1> QED
  BY <1>1, <1>3, <1>4, <1>5, <1>6, <1>7, <1>8 DEF Types

(* The rank of a type decides between values of different types.           *)
LEMMA RanksCompare ==
  ASSUME NEW V, Closed(V), Compared(V), NEW v \in V, NEW w \in V
  PROVE  /\ TypeRank[v.type] \in 0 .. 5 /\ TypeRank[w.type] \in 0 .. 5
         /\ v.type # w.type =>
              /\ TypeRank[v.type] # TypeRank[w.type]
              /\ Less(v, w) <=> TypeRank[v.type] < TypeRank[w.type]
              /\ ~Equal(v, w)
<1>1. v.type \in Types /\ w.type \in Types
  BY ContainerTypes DEF Closed
<1>2. /\ Less(v, w) <=> LessBy(v, w, Less)
      /\ Equal(v, w) <=> EqualBy(v, w, Equal)
  BY DEF Compared
<1>3. v.type # w.type =>
        /\ Less(v, w) <=> TypeRank[v.type] < TypeRank[w.type]
        /\ ~Equal(v, w)
  BY <1>2 DEF LessBy, EqualBy
<1>4. /\ TypeRank["null"] = 0 /\ TypeRank["boolean"] = 1 /\ TypeRank["number"] = 2
      /\ TypeRank["object"] = 3 /\ TypeRank["array"] = 4 /\ TypeRank["string"] = 5
  BY DEF TypeRank
<1>5. /\ TypeRank[v.type] \in 0 .. 5 /\ TypeRank[w.type] \in 0 .. 5
      /\ v.type # w.type => TypeRank[v.type] # TypeRank[w.type]
  BY <1>1, <1>4 DEF Types
<1> QED
  BY <1>3, <1>5

LEMMA ThreeSorted ==
  ASSUME NEW V, Closed(V), Compared(V), NEW S, Sorted(S),
         NEW v \in V, NEW w \in V, NEW x \in V,
         \A y \in {v, w, x} : y.type \in Compound => Members(y) \in Seq(S)
  PROVE  SortedThree(v, w, x)
<1> DEFINE r(y) == TypeRank[y.type]
<1>1. /\ r(v) \in Int /\ r(w) \in Int /\ r(x) \in Int
      /\ \A y, z \in {v, w, x} : y.type # z.type =>
           r(y) # r(z) /\ (Less(y, z) <=> r(y) < r(z)) /\ ~Equal(y, z)
  BY RanksCompare
<1>2. \A y, z \in {v, w, x} : y.type = z.type => r(y) = r(z)
  OBVIOUS
<1>3. v.type = w.type => SortedThree(v, w, w)
  BY SameTypeSorted
<1>4. v.type = w.type /\ w.type = x.type => SortedThree(v, w, x)
  BY SameTypeSorted
<1> HIDE DEF r
<1>5. \A a, b, c \in Int : /\ a < b => ~(b < a)
                           /\ a # b => a < b \/ b < a
                           /\ a < c => a < b \/ b < c
  OBVIOUS
<1>6. /\ Less(v, w) => ~Less(w, v)
      /\ Equal(v, w) <=> ~Less(v, w) /\ ~Less(w, v)
  <2>1. CASE v.type = w.type
    BY <1>3, <2>1 DEF SortedThree
  <2>2. CASE v.type # w.type
    <3>1. /\ Less(v, w) <=> r(v) < r(w)
          /\ Less(w, v) <=> r(w) < r(v)
          /\ ~Equal(v, w) /\ r(v) # r(w)
      BY <1>1, <2>2
    <3> QED
      BY <1>1, <1>5, <3>1
  <2> QED
    BY <2>1, <2>2
<1>7. ASSUME Less(v, x) PROVE Less(v, w) \/ Less(w, x)
  <2>1. CASE v.type = x.type
    <3>1. CASE v.type = w.type
      BY <1>4, <1>7, <2>1, <3>1 DEF SortedThree
    <3>2. CASE v.type # w.type
      <4>1. /\ Less(v, w) <=> r(v) < r(w)
            /\ Less(w, x) <=> r(w) < r(x)
            /\ r(v) # r(w) /\ r(v) = r(x)
        BY <1>1, <1>2, <2>1, <3>2
      <4> QED
        BY <1>1, <1>5, <4>1
    <3> QED
      BY <3>1, <3>2
  <2>2. CASE v.type # x.type
    <3>1. r(v) < r(x)
      BY <1>1, <1>7, <2>2
    <3>2. r(v) < r(w) \/ r(w) < r(x)
      BY <1>1, <1>5, <3>1
    <3>3. CASE r(v) < r(w)
      <4>1. r(v) # r(w)
        BY <1>1, <3>3
      <4>2. v.type # w.type
        BY <1>2, <4>1
      <4> QED
        BY <1>1, <3>3, <4>2
    <3>4. CASE r(w) < r(x)
      <4>1. r(w) # r(x)
        BY <1>1, <3>4
      <4>2. w.type # x.type
        BY <1>2, <4>1
      <4> QED
        BY <1>1, <3>4, <4>2
    <3> QED
      BY <3>2, <3>3, <3>4
  <2> QED
    BY <2>1, <2>2
<1> QED
  BY <1>6, <1>7 DEF SortedThree

(* So all values are sorted, those that take more after those in them.     *)
LEMMA AllSorted == ASSUME BlocksAdd, NEW V, Closed(V), Compared(V) PROVE Sorted(V)
<1>1. \A v \in V : Blocks(v) \in Nat
  BY DEF BlocksAdd
<1> DEFINE D == {n \in Nat : ~Sorted(Below(V, n))}
<1>2. D = {}
  <2> SUFFICES ASSUME D # {} PROVE FALSE
    OBVIOUS
  <2>1. D \in SUBSET Nat
    OBVIOUS
  <2> HIDE DEF D
  <2>2. PICK d \in D : \A e \in D : d <= e
    BY <2>1, LeastNumber
  <2>3. d \in Nat /\ ~Sorted(Below(V, d))
    BY DEF D
  <2>4. d # 0
    <3>1. Below(V, 0) = {}
      BY <1>1 DEF Below
    <3>2. Sorted({})
      BY DEF Sorted
    <3> QED
      BY <2>3, <3>1, <3>2
  <2>5. PICK n \in Nat : d = n + 1
    <3>1. d - 1 \in Nat /\ d = (d - 1) + 1
      BY <2>3, <2>4
    <3> QED
      BY <3>1
  <2>6. Sorted(Below(V, n))
    <3>1. ~(d <= n)
      BY <2>5
    <3>2. n \notin D
      BY <2>2, <3>1
    <3> QED
      BY <3>2 DEF D
  <2>7. ASSUME NEW v \in Below(V, d), NEW w \in Below(V, d), NEW x \in Below(V, d)
        PROVE  SortedThree(v, w, x)
    <3>1. v \in V /\ w \in V /\ x \in V
      BY DEF Below
    <3>2. \A y \in {v, w, x} : y.type \in Compound => Members(y) \in Seq(Below(V, n))
      BY <2>5, MembersBelow
    <3> QED
      BY <2>6, <3>1, <3>2, ThreeSorted
  <2>8. Sorted(Below(V, d))
    BY <2>7 DEF Sorted, SortedThree
  <2> QED
    BY <2>3, <2>8
<1>3. \A n \in Nat : Sorted(Below(V, n))
  BY <1>2
<1>4. ASSUME NEW v \in V, NEW w \in V, NEW x \in V PROVE SortedThree(v, w, x)
  <2> DEFINE n == Blocks(v) + Blocks(w) + Blocks(x) + 1
  <2>1. n \in Nat /\ Blocks(v) < n /\ Blocks(w) < n /\ Blocks(x) < n
    <3>1. Blocks(v) \in Nat /\ Blocks(w) \in Nat /\ Blocks(x) \in Nat
      BY <1>1
    <3> QED
      BY <3>1
  <2> HIDE DEF n
  <2>2. v \in Below(V, n) /\ w \in Below(V, n) /\ x \in Below(V, n)
    BY <2>1 DEF Below
  <2> QED
    BY <1>3, <2>1, <2>2 DEF Sorted, SortedThree
<1> QED
  BY <1>4 DEF Sorted, SortedThree

-----------------------------------------------------------------------------
(* Less and Equal compare any values by what is in them. IsLess and        *)
(* IsEqual are defined so; for the values a program begins with they do it *)
(* by OrderAssumption, and the ones it makes need it too.                  *)
ComparesByContents == \A V : Closed(V) => Compared(V)

(* A program goes on with a value of its own, which the parser leaves.     *)
ResultInv == phase # "parsing" => pc = "accepted" /\ result \in Used

LEMMA ResultStep == ResultInv /\ [ProgramNext]_<<vars, progVars>> => ResultInv'
<1> SUFFICES ASSUME ResultInv, [ProgramNext]_<<vars, progVars>> PROVE ResultInv'
  OBVIOUS
<1>1. CASE UNCHANGED <<vars, progVars>>
  BY <1>1 DEF ResultInv, vars, progVars
<1>2. CASE Next /\ UNCHANGED progVars
  <2>1. phase' = phase
    BY <1>2 DEF progVars
  <2>2. CASE phase = "parsing"
    BY <2>1, <2>2 DEF ResultInv
  <2>3. CASE phase # "parsing"
    <3>1. pc = "accepted"
      BY <2>3 DEF ResultInv
    <3>2. ~Parse
      <4>1. /\ ~ValueDue /\ pc \notin {"first", "more", "key", "colon", "end"} /\ ~Running
        BY <3>1 DEF ValueDue, Running
      <4> QED
        BY <4>1 DEF Parse, Open, Close, Separator, Key, Colon, Scalar, Accept, Throw
    <3>3. UNCHANGED <<pc, result>>
      BY <1>2, <3>2 DEF Next
    <3> QED
      BY <2>1, <3>3 DEF ResultInv
  <2> QED
    BY <2>2, <2>3
<1>3. CASE Returned
  BY <1>3 DEF ResultInv, Returned
<1>4. CASE Use /\ UNCHANGED <<lexVars, pc, stack, result>>
  <2>1. phase # "parsing"
    BY <1>4 DEF Use, Put, EraseSome, Build, Transfer, Editing, BeginWalk, Visit, Turn, GoBack, EndWalk
  <2> QED
    BY <1>4, <2>1 DEF ResultInv
<1> QED
  BY <1>1, <1>2, <1>3, <1>4 DEF ProgramNext

(* If any values are compared by what is in them and their blocks add up,  *)
(* then operator< and operator== agree on the values that a program has,   *)
(* whatever it does with them: of two that are not equal one is less, and  *)
(* less is transitive (json.hpp:1849-1958).                                *)
THEOREM ValuesAreOrdered == BlocksAdd /\ ComparesByContents => (ProgramSpec => []Ordered)
<1> SUFFICES ASSUME BlocksAdd, ComparesByContents PROVE ProgramSpec => []Ordered
  OBVIOUS
<1>1. ProgramInit => ResultInv
  BY DEF ProgramInit, ResultInv
<1>2. ProgramInv /\ ResultInv => Ordered
  <2> SUFFICES ASSUME ProgramInv, ResultInv, phase = "editing" PROVE Ordered
    BY DEF Ordered
  <2>1. PICK V : Good(V)
    BY DEF ProgramInv
  <2>2. Closed(V) /\ {result, doc, other} \subseteq V
    BY <2>1 DEF Good, ResultInv
  <2>3. Sorted(V)
    BY <2>2, AllSorted DEF ComparesByContents
  <2> DEFINE values == {result, doc, other}
  <2>4. values \subseteq V
    BY <2>2
  <2> HIDE DEF values
  <2>5. \A v, w \in values : Less(v, w) <=> ~Less(w, v) /\ ~Equal(v, w)
    BY <2>3, <2>4 DEF Sorted
  <2>6. \A v, w, x \in values : Less(v, w) /\ Less(w, x) => Less(v, x)
    BY <2>3, <2>4 DEF Sorted
  <2> QED
    BY <2>5, <2>6 DEF Ordered, values
<1> QED
  BY InitiallyGood, ProgramStep, ResultStep, <1>1, <1>2, PTL DEF ProgramSpec
==============================================================================
