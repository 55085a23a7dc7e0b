------------------------------ MODULE JsonText ------------------------------
(***************************************************************************)
(* What a text says: the tokens that dump writes of a value, with white    *)
(* space between them, and cut into lines wherever no token is.            *)
(***************************************************************************)
EXTENDS JsonReader, JsonDump

(* A number as dump writes it: i is where its integer ends, f its fraction. *)
Numeral(t) ==
    \E s \in {0, 1}, i, f \in 1 .. Len(t) :
       /\ s = 1 => t[1] = "-"
       /\ s < i /\ (\A k \in s + 1 .. i : t[k] \in Digit) /\ (t[s + 1] = "0" => i = s + 1)
       /\ \/ f = i
          \/ i + 1 < f /\ t[i + 1] = "." /\ \A k \in i + 2 .. f : t[k] \in Digit
       /\ \/ f = Len(t)
          \/ /\ f + 1 < Len(t) /\ t[f + 1] = "e"
             /\ t[f + 2] \in Digit \/ (t[f + 2] \in {"+", "-"} /\ f + 2 < Len(t))
             /\ \A k \in f + 3 .. Len(t) : t[k] \in Digit

(* Is of what is written of each of these values, and do the digits of a   *)
(* number say that number?                                                 *)
Writes(of) ==
    /\ Closed(DOMAIN of)
    /\ \A v \in DOMAIN of : /\ of[v] \in Seq(Seq(Chars)) /\ of[v] = DumpBy(v, of)
                            /\ v.type = "number" => /\ Numeral(v.number)
                                                    /\ Printed(v.number) = v.number

-----------------------------------------------------------------------------
(* The place after the j-th token, if the tokens begin at the places p.    *)
Behind(tokens, p, j) == IF j = 0 THEN 1 ELSE p[j] + Len(tokens[j])

(* These characters are the tokens, and blanks between them.               *)
Placed(tokens, chars, p) ==
    /\ p[Len(tokens) + 1] = Len(chars) + 1
    /\ \A j \in 0 .. Len(tokens) :
         /\ Behind(tokens, p, j) <= p[j + 1]
         /\ \A x \in Behind(tokens, p, j) .. p[j + 1] - 1 : chars[x] \in Blank
    /\ \A j \in 1 .. Len(tokens) :
         p[j] >= 1 /\ \A x \in 1 .. Len(tokens[j]) : chars[p[j] + x - 1] = tokens[j][x]

(* They come in these lines, of which the k-th ends at the place e[k].     *)
Divided(lines, chars, e) ==
    /\ e[0] = 0 /\ e[Len(lines)] = Len(chars)
    /\ \A k \in 1 .. Len(lines) : /\ e[k - 1] <= e[k]
                                  /\ lines[k] = SubSeq(chars, e[k - 1] + 1, e[k])

(* No token goes on in another line.                                       *)
Unbroken(tokens, p, e) ==
    \A j \in 1 .. Len(tokens), k \in DOMAIN e :
       p[j] <= e[k] => Behind(tokens, p, j) <= e[k] + 1

SpelledAt(lines, tokens, chars, p, e) ==
    Placed(tokens, chars, p) /\ Divided(lines, chars, e) /\ Unbroken(tokens, p, e)

Spell(lines, tokens) ==
    \E chars \in Seq(Chars), p \in [1 .. Len(tokens) + 1 -> Nat], e \in [0 .. Len(lines) -> Nat] :
       SpelledAt(lines, tokens, chars, p, e)

(* A text says a value, or is the beginning of one and not to be read.     *)
Says(i, of) ==
    \E v \in DOMAIN of, n \in Nat :
       LET tokens == SubSeq(of[v], 1, n)
       IN  /\ n <= Len(of[v]) /\ Spell(<<i.text>>, tokens) /\ Spell(i.lines, tokens)
           /\ i.value = IF n = Len(of[v]) THEN v ELSE Thrown
=============================================================================
