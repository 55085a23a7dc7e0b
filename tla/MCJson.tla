------------------------------- MODULE MCJson -------------------------------
(***************************************************************************)
(* Documents of few members, the first of them in the shape of the         *)
(* configuration and of what RetrieveCounterData dumps, with every way to  *)
(* put a space or a line break between their tokens, others with none or   *)
(* a tab and a space, also last, and what is left of them cut short. Some  *)
(* of them a program goes on with.                                         *)
(***************************************************************************)
EXTENDS JsonTree, JsonText

CONSTANT Breaks   \* what may stand between two tokens: "none", "space", ...

Letters == {"quote", "backslash", "newline", "control", "space", "s", "u", "n"}
AllChars ==
    Letters \cup DOMAIN Punctuation \cup Digit \cup Hex
      \cup {"-", "+", ".", "t", "r", "l", "x", "/", "return", "tab", "formfeed", "backspace", "other"}

OneOf(k, v) == Insert(EmptyObject, k, v)
Object(v)   == OneOf(<<"s">>, v)

Laid == {Object(EmptyObject), Object(String(<<"5", "0">>)),
         PushBack(PushBack(EmptyArray, NumberOf(<<"1", "2">>)), Boolean(TRUE)),
         PushBack(PushBack(EmptyArray, EmptyObject), Boolean(FALSE)),
         PushBack(PushBack(EmptyArray, NumberOf(<<"-", "0", ".", "5">>)), Null)}
Roomy == {Insert(Insert(Object(Null), <<"u">>, String(<<"n">>)), <<"n">>, NumberOf(<<"1", "2">>)),
          PushBack(PushBack(EmptyArray, String(<<"s">>)), Object(EmptyArray)),
          String(<<"u">>), Boolean(TRUE), Null}
Flat == Roomy \cup {Object(String(<<a, b>>)) : a, b \in Letters \cup {"other"}}
          \cup {OneOf(<<a>>, EmptyArray) : a \in Letters}
          \cup {Object(NumberOf(n)) : n \in {<<"0">>, <<"-", "1", "0">>, <<"1", ".", "2", "3">>,
                                             <<"4", "e", "-", "5", "6">>, <<"1", "e", "+", "2", "0">>}}

(* Each token with a break before it: the text as it gets longer, as a     *)
(* whole and line by line.                                                 *)
Texts(tokens, breaks) ==
    LET Gap(b) == CASE b = "none" -> <<>> [] b = "space" -> <<"space">>
                    [] b = "wide" -> <<"tab", "space">> [] b = "line" -> <<"newline">>
        text[i \in 0 .. Len(tokens)] ==
          IF i = 0 THEN <<>> ELSE text[i - 1] \o Gap(breaks[i]) \o tokens[i]
    IN  text

Lines(tokens, breaks) ==
    LET Add(ls, t) == [ls EXCEPT ![Len(ls)] = @ \o t]
        Broken(ls, b) == CASE b = "none" -> ls [] b = "space" -> Add(ls, <<"space">>)
                           [] b = "wide" -> Add(ls, <<"tab", "space">>)
                           [] b = "line" -> Append(ls, <<>>)
        lines[i \in 0 .. Len(tokens)] ==
          IF i = 0 THEN <<<<>>>> ELSE Add(Broken(lines[i - 1], breaks[i]), tokens[i])
    IN  lines

Written(tokens, breaks, value) ==
    [text  |-> Texts(tokens, breaks)[Len(tokens)],
     lines |-> Lines(tokens, breaks)[Len(tokens)], value |-> value]

Dumped == [v \in Laid \cup Flat |-> Dump(v)]
Layouts(v) == {Written(Dumped[v], b, v) : b \in [DOMAIN Dumped[v] -> Breaks]}
Cut(v) == {Written(SubSeq(Dumped[v], 1, n), [i \in 1 .. n |-> "line"], Thrown) :
              n \in 1 .. Len(Dumped[v]) - 1}

(* Characters by their codes, and numbers, as dump does not write them.    *)
FirstHalf  == <<"backslash", "u", "d", "8", "3", "d">>
SecondHalf == <<"backslash", "u", "d", "e", "0", "0">>
Coded(code) == <<<<"quote">> \o code \o <<"quote">>>>
Foreign ==
    {Written(f[1], [i \in DOMAIN f[1] |-> b], f[2]) : b \in {"none", "wide"}, f \in
        {<<Coded(FirstHalf \o SecondHalf \o <<"s">>), String(<<"other", "s">>)>>,
         <<Coded(SecondHalf), String(<<"other">>)>>,
         <<Coded(<<"backslash", "u", "0", "0", "e", "9", "backslash", "/">>), String(<<"other", "/">>)>>,
         <<<<<<"[">>, <<"-", "0", ".", "5", "e", "1">>, <<",">>, <<"0", "e", "+", "7">>, <<"]">>>>,
           PushBack(PushBack(EmptyArray, NumberOf(<<"-", "5">>)), NumberOf(<<"0">>))>>,
         <<<<<<"1", ".", "0">>>>, NumberOf(<<"1">>)>>}}

Wrong == {Written(t, [i \in DOMAIN t |-> "none"], Thrown) :
             t \in {<<<<"[">>, <<"0", "1">>, <<"]">>>>, <<<<"[">>, <<"1", ".">>, <<"]">>>>,
                    <<<<"[">>, <<"-", "x">>, <<"]">>>>, <<<<"n", "u", "x", "l">>>>,
                    <<<<"1", "e">>, <<"x">>>>, <<<<"1", "e", "+">>, <<"}">>>>,
                    <<<<"quote", "backslash", "x", "quote">>>>,
                    <<<<"quote", "backslash", "u", "0", "x", "quote">>>>,
                    Coded(FirstHalf), Coded(FirstHalf \o <<"n">>), Coded(FirstHalf \o FirstHalf),
                    Coded(FirstHalf \o <<"backslash", "n">>),
                    <<<<"{">>>> \o Coded(<<"s">> \o FirstHalf) \o <<<<":">>, <<"1">>, <<"}">>>>,
                    <<<<"quote", "s">>>>, <<<<"quote">>>>, <<<<"[">>, <<"1">>, <<",">>, <<"]">>>>,
                    <<<<"{">>, <<"1">>, <<"}">>>>, <<<<"1">>, <<",">>>>, <<<<"-">>>>, <<<<"x">>>>}}

AllInputs ==
    UNION {Layouts(v) : v \in Laid} \cup UNION {Cut(v) : v \in Laid \cup Flat} \cup Wrong \cup Foreign
      \cup {Written(Dumped[v], [i \in DOMAIN Dumped[v] |-> "none"], v) : v \in Flat}
      \cup {Written(Append(Dumped[v], <<>>), [i \in 1 .. Len(Dumped[v]) + 1 |-> "wide"], v) :
               v \in Flat}
(* What the program goes on with, and what it puts into it.                *)
Kept  == {v \in Laid : v.type = "array"} \cup Roomy
Added == {Null, String(<<"u">>), NumberOf(<<"4">>)}
Keyed == {<<"s">>, <<"s", "u">>}
Inside(S) == UNION {CASE v.type = "array" -> Range(v.elements) [] v.type = "object" -> Range(v.members)
                      [] OTHER -> {} : v \in S}
Composed  == LET outer == Kept \cup Added IN outer \cup Inside(outer) \cup Inside(Inside(outer))

(* The characters in the order of their codes.                             *)
Ordering ==
    <<"control", "backspace", "tab", "newline", "formfeed", "return", "space", "quote", "+", ",",
      "-", ".", "/", "0", "1", "2", "3", "4", "5", "6", "7", "8", "9", ":", "[", "backslash", "]",
      "a", "b", "c", "d", "e", "f", "l", "n", "r", "s", "t", "u", "x", "{", "}", "other">>
PlaceOf     == [c \in AllChars |-> CHOOSE i \in DOMAIN Ordering : Ordering[i] = c]
AmountOf(n) == CASE n = <<"0">> -> 0 [] n = <<"4">> -> 4 [] n = <<"1", "2">> -> 12 [] OTHER -> -5
PrintedOf(t) ==
    CASE t = <<"-", "0", ".", "5", "e", "1">> -> <<"-", "5">> [] t = <<"0", "e", "+", "7">> -> <<"0">>
      [] t = <<"1", ".", "0">> -> <<"1">> [] OTHER -> t

-----------------------------------------------------------------------------
(* These texts spell out the first n of the tokens, and what is written of *)
(* the values is what dump writes.                                         *)
Spelled(tokens, breaks, n) ==
    LET said   == SubSeq(tokens, 1, n)
        texts  == Texts(tokens, breaks)
        lines  == Lines(tokens, breaks)
        chars  == [j \in DOMAIN texts |-> FlattenSeq(lines[j])]
        last   == lines[Len(tokens)]
        PlacesIn(all) == [j \in 1 .. n + 1 |-> IF j > n THEN Len(all[Len(tokens)]) + 1
                                         ELSE Len(all[j]) - Len(tokens[j]) + 1]
    IN  /\ SpelledAt(<<texts[Len(tokens)]>>, said, texts[Len(tokens)], PlacesIn(texts),
                     [k \in {0, 1} |-> k * Len(texts[Len(tokens)])])
        /\ SpelledAt(last, said, chars[Len(tokens)], PlacesIn(chars),
                     [k \in 0 .. Len(last) |-> Len(FlattenSeq(SubSeq(last, 1, k)))])

ASSUME TextAssumption ==
    /\ LET all == Laid \cup Flat
           within == all \cup Inside(all) \cup Inside(Inside(all))
       IN  Writes([v \in within |-> Dump(v)])
    /\ \A v \in Laid : \A b \in [DOMAIN Dumped[v] -> Breaks] : Spelled(Dumped[v], b, Len(Dumped[v]))
    /\ \A v \in Laid \cup Flat : LET n == Len(Dumped[v]) IN
         /\ Spelled(Dumped[v], [i \in 1 .. n |-> "none"], n)
         /\ Spelled(Append(Dumped[v], <<>>), [i \in 1 .. n + 1 |-> "wide"], n)
         /\ \A m \in 1 .. n - 1 : Spelled(SubSeq(Dumped[v], 1, m), [i \in 1 .. m |-> "line"], m)
=============================================================================
