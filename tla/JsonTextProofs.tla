---------------------------- MODULE JsonTextProofs ----------------------------
(***************************************************************************)
(* A text that dump writes is read as the value it was written of, for any *)
(* values, any blanks and any lines the text comes in: each token has its  *)
(* place in the text, where the scanner finds it whatever the buffer has   *)
(* been filled with, and its place in the value, where the parser puts it. *)
(***************************************************************************)
EXTENDS JsonText, JsonProofs

(* Sequences one after the other: where each of them begins, and that all  *)
(* of it is there.                                                         *)
Grows(s, n, f) == f = [i \in 1 .. n |-> IF i = 1 THEN s[i] ELSE f[i - 1] \o s[i]]

LEMMA GrowsOn ==
  ASSUME NEW s, NEW n \in Nat \ {0}
  PROVE  \E f : Grows(s, n, f)
<1> DEFINE D == {m \in Nat \ {0} : ~\E f : Grows(s, m, f)}
<1> SUFFICES ASSUME D # {} PROVE FALSE
  OBVIOUS
<1>1. D \in SUBSET Nat
  OBVIOUS
<1> HIDE DEF D
<1>2. PICK d \in D : \A e \in D : d <= e
  BY <1>1, LeastNumber
<1>3. d \in Nat \ {0} /\ ~\E f : Grows(s, d, f)
  BY DEF D
<1>4. d # 1
  <2> DEFINE f == [i \in 1 .. 1 |-> s[1]]
  <2>1. \A i \in 1 .. 1 : i = 1
    OBVIOUS
  <2>2. Grows(s, 1, f)
    BY <2>1 DEF Grows
  <2> QED
    BY <1>3, <2>2
<1>5. d - 1 \in Nat \ {0} /\ ~(d <= d - 1)
  BY <1>3, <1>4
<1>6. PICK f : Grows(s, d - 1, f)
  BY <1>2, <1>5 DEF D
<1> DEFINE h == [i \in 1 .. d |-> IF i = d THEN f[d - 1] \o s[d] ELSE f[i]]
           k == [i \in 1 .. d |-> IF i = 1 THEN s[i] ELSE h[i - 1] \o s[i]]
<1>7. ASSUME NEW i \in 1 .. d PROVE h[i] = k[i]
  <2>1. CASE i = d
    <3>1. i # 1 /\ i - 1 \in 1 .. d /\ i - 1 # d
      BY <1>3, <1>4, <2>1
    <3> QED
      BY <2>1, <3>1
  <2>2. CASE i # d
    <3>1. i \in 1 .. d - 1 /\ (i # 1 => i - 1 \in 1 .. d /\ i - 1 # d)
      BY <1>3, <2>2
    <3>2. f[i] = IF i = 1 THEN s[i] ELSE f[i - 1] \o s[i]
      BY <1>6, <3>1 DEF Grows
    <3> QED
      BY <2>2, <3>1, <3>2
  <2> QED
    BY <2>1, <2>2
<1>8. DOMAIN h = 1 .. d /\ DOMAIN k = 1 .. d
  OBVIOUS
<1>9. h = [i \in 1 .. d |-> h[i]] /\ k = [i \in 1 .. d |-> k[i]]
  OBVIOUS
<1>10. h = k
  <2> HIDE DEF h, k
  <2> QED
    BY <1>7, <1>9
<1>11. Grows(s, d, h)
  <2> HIDE DEF h
  <2> QED
    BY <1>10 DEF Grows, k
<1> QED
  BY <1>3, <1>11

(* The i-th of the sequences begins in r behind the place o[i].            *)
Spread(s, n, r, o) ==
    /\ o[1] = 0 /\ o[n + 1] = Len(r)
    /\ \A i \in 1 .. n : o[i + 1] = o[i] + Len(s[i]) /\ o[i + 1] <= Len(r)
    /\ \A i \in 1 .. n : \A x \in 1 .. Len(s[i]) : r[o[i] + x] = s[i][x]

LEMMA GrowsSpread ==
  ASSUME NEW S, NEW s \in Seq(Seq(S)), NEW f, Grows(s, Len(s), f)
  PROVE  \A n \in 1 .. Len(s) : f[n] \in Seq(S) /\ \E o \in [1 .. n + 1 -> Nat] : Spread(s, n, f[n], o)
<1> DEFINE P(n) == f[n] \in Seq(S) /\ \E o \in [1 .. n + 1 -> Nat] : Spread(s, n, f[n], o)
           D == {n \in 1 .. Len(s) : ~P(n)}
<1> SUFFICES ASSUME D # {} PROVE FALSE
  OBVIOUS
<1>1. D \in SUBSET Nat /\ Len(s) \in Nat
  OBVIOUS
<1> HIDE DEF D
<1>2. PICK d \in D : \A e \in D : d <= e
  BY <1>1, LeastNumber
<1>3. d \in 1 .. Len(s) /\ ~P(d)
  BY DEF D
<1> HIDE DEF P
<1>4. \A i \in 1 .. Len(s) : s[i] \in Seq(S) /\ Len(s[i]) \in Nat
  OBVIOUS
<1>5. CASE d = 1
  <2>1. f[1] = s[1]
    BY <1>3, <1>5 DEF Grows
  <2> DEFINE o == [i \in 1 .. 2 |-> IF i = 1 THEN 0 ELSE Len(s[1])]
  <2>2. o \in [1 .. 1 + 1 -> Nat] /\ o[1] = 0 /\ o[2] = Len(s[1])
    BY <1>3, <1>4, <1>5
  <2>3. \A i \in 1 .. 1 : i = 1
    OBVIOUS
  <2> HIDE DEF o
  <2>4. \A x \in 1 .. Len(s[1]) : 0 + x = x
    BY <1>3, <1>4, <1>5
  <2>5. Spread(s, 1, s[1], o)
    BY <1>3, <1>4, <1>5, <2>2, <2>3, <2>4 DEF Spread
  <2>6. P(1)
    BY <1>3, <1>4, <1>5, <2>1, <2>2, <2>5 DEF P
  <2> QED
    BY <1>3, <1>5, <2>6
<1>6. CASE d # 1
  <2>1. d - 1 \in 1 .. Len(s) /\ ~(d <= d - 1) /\ d - 1 + 1 = d /\ d \in Nat /\ d - 1 \in Nat
    BY <1>1, <1>3, <1>6
  <2>2. P(d - 1)
    BY <1>2, <2>1 DEF D
  <2>3. PICK r : r = f[d - 1]
    OBVIOUS
  <2>4. r \in Seq(S) /\ \E o \in [1 .. d -> Nat] : Spread(s, d - 1, r, o)
    BY <2>1, <2>2, <2>3 DEF P
  <2>5. PICK o \in [1 .. d -> Nat] : Spread(s, d - 1, r, o)
    BY <2>4
  <2>6. PICK t \in Seq(S) : t = s[d]
    BY <1>3, <1>4
  <2>7. f[d] = r \o t
    BY <1>3, <1>6, <2>3, <2>6 DEF Grows
  <2>8. PICK q \in Seq(S) : /\ q = r \o t /\ Len(q) = Len(r) + Len(t) /\ Len(r) \in Nat /\ Len(t) \in Nat
                            /\ \A i \in 1 .. Len(r) : q[i] = r[i]
                            /\ \A i \in 1 .. Len(t) : q[Len(r) + i] = t[i]
    <3>1. /\ r \o t \in Seq(S) /\ Len(r \o t) = Len(r) + Len(t) /\ Len(r) \in Nat /\ Len(t) \in Nat
          /\ \A i \in 1 .. Len(r) : (r \o t)[i] = r[i]
          /\ \A i \in 1 .. Len(t) : (r \o t)[Len(r) + i] = t[i]
      BY <2>4, Joined
    <3> QED
      BY <3>1, Zenon
  <2> DEFINE u == [i \in 1 .. d + 1 |-> IF i = d + 1 THEN Len(q) ELSE o[i]]
  <2>9. u \in [1 .. d + 1 -> Nat] /\ u[d + 1] = Len(q) /\ \A i \in 1 .. d : u[i] = o[i]
    BY <2>1, <2>8
  <2> HIDE DEF u
  <2>10. o[d] = Len(r) /\ o[1] = 0
    BY <2>1, <2>5 DEF Spread
  <2>11. ASSUME NEW i \in 1 .. d
         PROVE  /\ u[i + 1] = u[i] + Len(s[i]) /\ u[i + 1] <= Len(q)
                /\ \A x \in 1 .. Len(s[i]) : q[u[i] + x] = s[i][x]
    <3>1. CASE i = d
      <4>1. u[i] = Len(r) /\ u[i + 1] = Len(q) /\ s[i] = t
        BY <2>1, <2>6, <2>9, <2>10, <3>1
      <4>2. Len(q) <= Len(q)
        BY <2>8
      <4> QED
        BY <2>8, <4>1, <4>2
    <3>2. CASE i # d
      <4>1. i \in 1 .. d - 1 /\ i + 1 \in 1 .. d /\ i \in 1 .. Len(s)
        BY <1>3, <2>1, <3>2
      <4>2. /\ o[i + 1] = o[i] + Len(s[i]) /\ o[i + 1] <= Len(r)
            /\ \A x \in 1 .. Len(s[i]) : r[o[i] + x] = s[i][x]
        BY <2>5, <4>1 DEF Spread
      <4>3. Len(s[i]) \in Nat /\ o[i] \in Nat /\ o[i + 1] \in Nat
        BY <1>4, <2>5, <4>1
      <4>4. \A x \in 1 .. Len(s[i]) : o[i] + x \in 1 .. Len(r)
        BY SMTT(60), <2>8, <4>2, <4>3
      <4>5. u[i] = o[i] /\ u[i + 1] = o[i + 1]
        BY <2>9, <4>1
      <4>6. u[i + 1] <= Len(q)
        BY <2>8, <4>2, <4>3, <4>5
      <4> QED
        BY <2>8, <4>2, <4>4, <4>5, <4>6
    <3> QED
      BY <3>1, <3>2
  <2>12. Spread(s, d, q, u)
    <3>1. 1 \in 1 .. d
      BY <2>1
    <3>2. u[1] = 0
      BY <2>9, <2>10, <3>1
    <3> QED
      BY <2>9, <2>11, <3>2, Zenon DEF Spread
  <2>13. P(d)
    BY <2>7, <2>8, <2>9, <2>12 DEF P
  <2> QED
    BY <1>3, <2>13
<1> QED
  BY <1>5, <1>6

LEMMA FlattenMeans ==
  ASSUME NEW S, NEW s \in Seq(Seq(S))
  PROVE  /\ FlattenSeq(s) \in Seq(S)
         /\ \E o \in [1 .. Len(s) + 1 -> Nat] : Spread(s, Len(s), FlattenSeq(s), o)
<1>1. CASE Len(s) = 0
  <2>1. FlattenSeq(s) = <<>>
    BY <1>1 DEF FlattenSeq
  <2> DEFINE o == [i \in 1 .. 1 |-> 0]
  <2>2. o \in [1 .. Len(s) + 1 -> Nat] /\ o[1] = 0 /\ o[Len(s) + 1] = 0 /\ Len(<<>>) = 0
    BY <1>1
  <2> HIDE DEF o
  <2>3. 1 .. Len(s) = {}
    BY <1>1
  <2>4. Spread(s, Len(s), <<>>, o)
    BY <2>2, <2>3 DEF Spread
  <2> QED
    BY <2>1, <2>2, <2>4
<1>2. CASE Len(s) # 0
  <2>1. Len(s) \in Nat \ {0} /\ Len(s) \in 1 .. Len(s)
    BY <1>2
  <2> DEFINE f == CHOOSE g : Grows(s, Len(s), g)
  <2>2. Grows(s, Len(s), f)
    BY <2>1, GrowsOn
  <2>3. FlattenSeq(s) = f[Len(s)]
    BY <1>2 DEF FlattenSeq, Grows
  <2> HIDE DEF f
  <2> QED
    BY <2>1, <2>2, <2>3, GrowsSpread
<1> QED
  BY <1>1, <1>2

-----------------------------------------------------------------------------
(* What escape_string makes of a string, get_string takes back.            *)

(* The i-th character stands behind the place o[i] of its escaped form.    *)
EscapedAs(s, r, o) ==
    /\ o[1] = 0 /\ o[Len(s) + 1] = Len(r)
    /\ \A i \in 1 .. Len(s) :
         /\ o[i + 1] <= Len(r)
         /\ \/ /\ s[i] \in DOMAIN EscapeOf /\ o[i + 1] = o[i] + 2
               /\ r[o[i] + 1] = "backslash" /\ r[o[i] + 2] = EscapeOf[s[i]]
            \/ /\ s[i] = "control" /\ o[i + 1] = o[i] + 6
               /\ r[o[i] + 1] = "backslash" /\ r[o[i] + 2] = "u"
               /\ r[o[i] + 3] = "0" /\ r[o[i] + 4] = "0" /\ r[o[i] + 5] = "0" /\ r[o[i] + 6] = "1"
               /\ \A x \in 3 .. 6 : r[o[i] + x] \in Hex
            \/ /\ s[i] \notin DOMAIN EscapeOf \cup {"control"} /\ o[i + 1] = o[i] + 1
               /\ r[o[i] + 1] = s[i]

EscapeLetters == {"backslash", "quote", "n", "r", "t", "f", "b", "u", "0", "1"}

LEMMA EscapeLetter ==
  ASSUME NEW c \in DOMAIN EscapeOf
  PROVE  EscapeOf[c] \in Escapable \ {"u", "/"} /\ EscapeOf[c] \in EscapeLetters /\ Unescaped(EscapeOf[c]) = c
<1>1. c \in {"quote", "backslash", "newline", "return", "tab", "formfeed", "backspace"}
  BY DEF EscapeOf
<1>2. EscapeOf[c] \in Escapable \ {"u", "/"} /\ EscapeOf[c] \in EscapeLetters
  BY <1>1 DEF EscapeOf, Escapable, EscapeLetters
<1>3. \A d \in DOMAIN EscapeOf : EscapeOf[d] = EscapeOf[c] => d = c
  BY <1>1 DEF EscapeOf
<1> QED
  BY <1>2, <1>3 DEF Unescaped

LEMMA EscapeCharIs ==
  ASSUME NEW S, NEW c \in S
  PROVE  /\ EscapeChar(c) \in Seq(S \cup EscapeLetters)
         /\ c \in DOMAIN EscapeOf => EscapeChar(c) = <<"backslash", EscapeOf[c]>>
         /\ c = "control" => EscapeChar(c) = <<"backslash", "u", "0", "0", "0", "1">>
         /\ c \notin DOMAIN EscapeOf \cup {"control"} => EscapeChar(c) = <<c>>
<1> DEFINE X == S \cup EscapeLetters
<1>1. "control" \notin DOMAIN EscapeOf
  BY DEF EscapeOf
<1>2. {"backslash", "u", "0", "1", c} \subseteq X
  BY DEF EscapeLetters
<1>3. CASE c \in DOMAIN EscapeOf
  <2>1. EscapeChar(c) = <<"backslash", EscapeOf[c]>>
    BY <1>3 DEF EscapeChar
  <2>2. EscapeOf[c] \in X
    BY <1>3, EscapeLetter
  <2> HIDE DEF X
  <2>3. <<"backslash", EscapeOf[c]>> \in Seq(X)
    BY <1>2, <2>2
  <2> QED
    BY <1>1, <1>3, <2>1, <2>3 DEF X
<1>4. CASE c = "control"
  <2> DEFINE s == <<"backslash", "u">>
             r == <<"0", "0", "0", "1">>
             t == <<"backslash", "u", "0", "0", "0", "1">>
  <2>1. EscapeChar(c) = s \o r
    BY <1>1, <1>4 DEF EscapeChar, Code
  <2> HIDE DEF X
  <2>2. s \in Seq(X) /\ r \in Seq(X) /\ t \in Seq(X)
    BY <1>2
  <2>3. Len(s) = 2 /\ Len(r) = 4 /\ Len(t) = 6
    OBVIOUS
  <2>4. \A i \in 1 .. 6 : t[i] = IF i \in 1 .. 2 THEN s[i] ELSE r[i - 2]
    OBVIOUS
  <2> HIDE DEF s, r, t
  <2>5. /\ s \o r \in Seq(X) /\ Len(s \o r) = Len(s) + Len(r)
        /\ \A i \in 1 .. Len(s) : (s \o r)[i] = s[i]
        /\ \A i \in Len(s) + 1 .. Len(s) + Len(r) : (s \o r)[i] = r[i - Len(s)]
    BY <2>2, Joined, Zenon
  <2>6. \A i \in 1 .. 6 : i \notin 1 .. 2 => i \in Len(s) + 1 .. Len(s) + Len(r)
    BY <2>3
  <2>7. \A i \in 1 .. Len(t) : (s \o r)[i] = t[i]
    BY SMTT(60), <2>3, <2>4, <2>5, <2>6
  <2>8. Len(s \o r) = Len(t)
    BY <2>3, <2>5
  <2>9. s \o r = t
    BY <2>2, <2>5, <2>7, <2>8, SameSequence
  <2>10. c \notin DOMAIN EscapeOf
    BY <1>1, <1>4
  <2> QED
    BY <1>4, <2>1, <2>2, <2>9, <2>10 DEF X, t
<1>5. CASE c \notin DOMAIN EscapeOf \cup {"control"}
  <2>1. EscapeChar(c) = <<c>>
    BY <1>5 DEF EscapeChar
  <2> HIDE DEF X
  <2>2. <<c>> \in Seq(X)
    BY <1>2
  <2> QED
    BY <1>5, <2>1, <2>2 DEF X
<1> QED
  BY <1>3, <1>4, <1>5

LEMMA EscapeMeans ==
  ASSUME NEW S, NEW s \in Seq(S)
  PROVE  /\ Escape(s) \in Seq(S \cup EscapeLetters)
         /\ \E o \in [1 .. Len(s) + 1 -> Nat] : EscapedAs(s, Escape(s), o)
<1> DEFINE X == S \cup EscapeLetters
           e == [i \in 1 .. Len(s) |-> EscapeChar(s[i])]
<1>1. DOMAIN s = 1 .. Len(s) /\ Len(s) \in Nat /\ \A i \in 1 .. Len(s) : s[i] \in S
  OBVIOUS
<1>2. \A i \in 1 .. Len(s) : EscapeChar(s[i]) \in Seq(X)
  BY <1>1, EscapeCharIs
<1> HIDE DEF X
<1>3. e \in Seq(Seq(X)) /\ Len(e) = Len(s)
  BY <1>1, <1>2
<1>4. Escape(s) = FlattenSeq(e)
  BY <1>1 DEF Escape
<1>5. \A i \in 1 .. Len(s) : e[i] = EscapeChar(s[i])
  OBVIOUS
<1> HIDE DEF e
<1>6. PICK r \in Seq(X) : r = Escape(s)
  BY <1>3, <1>4, FlattenMeans
<1>7. PICK o \in [1 .. Len(s) + 1 -> Nat] : Spread(e, Len(s), r, o)
  BY <1>3, <1>4, <1>6, FlattenMeans
<1>8. ASSUME NEW i \in 1 .. Len(s)
      PROVE  /\ o[i + 1] <= Len(r)
             /\ \/ /\ s[i] \in DOMAIN EscapeOf /\ o[i + 1] = o[i] + 2
                   /\ r[o[i] + 1] = "backslash" /\ r[o[i] + 2] = EscapeOf[s[i]]
                \/ /\ s[i] = "control" /\ o[i + 1] = o[i] + 6
                   /\ r[o[i] + 1] = "backslash" /\ r[o[i] + 2] = "u"
                   /\ r[o[i] + 3] = "0" /\ r[o[i] + 4] = "0" /\ r[o[i] + 5] = "0" /\ r[o[i] + 6] = "1"
                   /\ \A x \in 3 .. 6 : r[o[i] + x] \in Hex
                \/ /\ s[i] \notin DOMAIN EscapeOf \cup {"control"} /\ o[i + 1] = o[i] + 1
                   /\ r[o[i] + 1] = s[i]
  <2>1. PICK t : t = EscapeChar(s[i])
    OBVIOUS
  <2>2. /\ o[i + 1] = o[i] + Len(t) /\ o[i + 1] <= Len(r)
        /\ \A x \in 1 .. Len(t) : r[o[i] + x] = t[x]
    BY <1>5, <1>7, <2>1 DEF Spread
  <2>3. s[i] \in S
    BY <1>1
  <2>4. CASE s[i] \in DOMAIN EscapeOf
    <3>1. t = <<"backslash", EscapeOf[s[i]]>>
      BY <2>1, <2>3, <2>4, EscapeCharIs
    <3>2. Len(t) = 2 /\ t[1] = "backslash" /\ t[2] = EscapeOf[s[i]] /\ 1 \in 1 .. 2 /\ 2 \in 1 .. 2
      BY <3>1
    <3> QED
      BY <2>2, <2>4, <3>2
  <2>5. CASE s[i] = "control"
    <3>1. t = <<"backslash", "u", "0", "0", "0", "1">>
      BY <2>1, <2>3, <2>5, EscapeCharIs
    <3>2. /\ Len(t) = 6 /\ t[1] = "backslash" /\ t[2] = "u"
          /\ t[3] = "0" /\ t[4] = "0" /\ t[5] = "0" /\ t[6] = "1"
          /\ \A x \in 3 .. 6 : x \in 1 .. 6 /\ t[x] \in {"0", "1"}
      BY <3>1
    <3>3. (\A x \in {1, 2, 3, 4, 5, 6} : x \in 1 .. 6) /\ {"0", "1"} \subseteq Hex
      BY DEF Hex, Digit
    <3> QED
      BY <2>2, <2>5, <3>2, <3>3
  <2>6. CASE s[i] \notin DOMAIN EscapeOf \cup {"control"}
    <3>1. t = <<s[i]>>
      BY <2>1, <2>3, <2>6, EscapeCharIs
    <3>2. Len(t) = 1 /\ t[1] = s[i] /\ 1 \in 1 .. 1
      BY <3>1
    <3> QED
      BY <2>2, <2>6, <3>2
  <2> QED
    BY <2>2, <2>4, <2>5, <2>6
<1>9. EscapedAs(s, r, o)
  BY <1>7, <1>8 DEF EscapedAs, Spread
<1> QED
  BY <1>6, <1>9 DEF X

(* get_string reads to the end from any place.                             *)
Half(r, i) == i < Len(r) /\ r[i] = "backslash" /\ r[i + 1] = "u" /\ Low(r, i + 2)

ReadFrom(r, m, f) ==
    f = [i \in m .. Len(r) + 12 |->
           IF i > Len(r) THEN <<>>
           ELSE IF r[i] # "backslash" THEN <<r[i]>> \o f[i + 1]
           ELSE IF r[i + 1] # "u" THEN <<Unescaped(r[i + 1])>> \o f[i + 2]
           ELSE IF ~High(r, i + 2) THEN <<Character(r, i + 2)>> \o f[i + 6]
           ELSE IF Half(r, i + 6) THEN <<"other">> \o f[i + 12]
           ELSE <<"thrown">>]

Reading(r) == CHOOSE f : ReadFrom(r, 1, f)

LEMMA ReadingOn ==
  ASSUME NEW r, Len(r) \in Nat
  PROVE  \E f : ReadFrom(r, 1, f)
<1> DEFINE D == {m \in Nat : m <= Len(r) /\ ~\E f : ReadFrom(r, Len(r) + 1 - m, f)}
<1>1. D = {}
  <2> SUFFICES ASSUME D # {} PROVE FALSE
    OBVIOUS
  <2>1. D \in SUBSET Nat
    OBVIOUS
  <2> HIDE DEF D
  <2>2. PICK d \in D : \A e \in D : d <= e
    BY <2>1, LeastNumber
  <2>3. d \in Nat /\ d <= Len(r) /\ ~\E f : ReadFrom(r, Len(r) + 1 - d, f)
    BY DEF D
  <2>4. d # 0
    <3> DEFINE f == [i \in Len(r) + 1 .. Len(r) + 12 |-> <<>>]
    <3>1. \A i \in Len(r) + 1 .. Len(r) + 12 : i > Len(r)
      OBVIOUS
    <3>2. ReadFrom(r, Len(r) + 1, f)
      BY <3>1 DEF ReadFrom
    <3>3. Len(r) + 1 - 0 = Len(r) + 1
      OBVIOUS
    <3> QED
      BY <2>3, <3>2, <3>3
  <2>5. PICK m \in 1 .. Len(r) : m = Len(r) + 1 - d
    BY <2>3, <2>4
  <2>6. d - 1 \in Nat /\ d - 1 <= Len(r) /\ ~(d <= d - 1) /\ Len(r) + 1 - (d - 1) = m + 1
    BY <2>3, <2>4, <2>5
  <2>7. PICK f : ReadFrom(r, m + 1, f)
    BY <2>2, <2>6 DEF D
  <2> DEFINE Step(g, i) ==
               IF i > Len(r) THEN <<>>
               ELSE IF r[i] # "backslash" THEN <<r[i]>> \o g[i + 1]
               ELSE IF r[i + 1] # "u" THEN <<Unescaped(r[i + 1])>> \o g[i + 2]
               ELSE IF ~High(r, i + 2) THEN <<Character(r, i + 2)>> \o g[i + 6]
               ELSE IF Half(r, i + 6) THEN <<"other">> \o g[i + 12]
               ELSE <<"thrown">>
             h == [i \in m .. Len(r) + 12 |-> IF i = m THEN Step(f, m) ELSE f[i]]
             k == [i \in m .. Len(r) + 12 |-> Step(h, i)]
  <2>8. ASSUME NEW i \in m .. Len(r) + 12 PROVE h[i] = k[i]
    <3>1. i \in Nat /\ m \in Nat /\ Len(r) \in Nat
      BY <2>5
    <3>2. \A j \in {i + 1, i + 2, i + 6, i + 12} :
             i <= Len(r) => j \in m .. Len(r) + 12 /\ j # m /\ h[j] = f[j]
      BY <3>1
    <3>3. Step(h, i) = Step(f, i)
      <4>1. CASE i > Len(r)
        BY <4>1
      <4>2. CASE ~(i > Len(r))
        <5>1. h[i + 1] = f[i + 1] /\ h[i + 2] = f[i + 2] /\ h[i + 6] = f[i + 6] /\ h[i + 12] = f[i + 12]
          BY <3>1, <3>2, <4>2
        <5> HIDE DEF h
        <5> QED
          BY <5>1
      <4> QED
        BY <4>1, <4>2
    <3>4. CASE i = m
      <4>1. h[i] = Step(f, m)
        BY <3>4
      <4>2. k[i] = Step(h, i)
        OBVIOUS
      <4> HIDE DEF h, k, Step
      <4> QED
        BY <3>3, <3>4, <4>1, <4>2
    <3>5. CASE i # m
      <4>1. i \in m + 1 .. Len(r) + 12
        BY <3>1, <3>5
      <4>2. f[i] = Step(f, i)
        BY <2>7, <4>1 DEF ReadFrom
      <4>3. h[i] = f[i]
        BY <3>5
      <4>4. k[i] = Step(h, i)
        OBVIOUS
      <4> HIDE DEF h, k, Step
      <4> QED
        BY <3>3, <4>2, <4>3, <4>4
    <3> QED
      BY <3>4, <3>5
  <2>9. h = [i \in m .. Len(r) + 12 |-> h[i]] /\ k = [i \in m .. Len(r) + 12 |-> k[i]]
    OBVIOUS
  <2>10. h = k
    <3> HIDE DEF h, k
    <3> QED
      BY <2>8, <2>9
  <2>11. ReadFrom(r, m, h)
    <3> HIDE DEF h
    <3> QED
      BY <2>10 DEF ReadFrom, k
  <2> HIDE DEF h
  <2> QED
    BY <2>3, <2>5, <2>11
<1>2. CASE Len(r) = 0
  <2> DEFINE f == [i \in 1 .. 12 |-> <<>>]
  <2>1. ReadFrom(r, 1, f)
    BY <1>2 DEF ReadFrom
  <2> QED
    BY <2>1
<1>3. CASE Len(r) # 0
  <2>1. Len(r) \in Nat /\ Len(r) <= Len(r) /\ Len(r) + 1 - Len(r) = 1 /\ Len(r) \notin D
    BY <1>1
  <2> QED
    BY <2>1
<1> QED
  BY <1>2, <1>3

(* A sequence from one place on, and behind it.                            *)
LEMMA RestOf ==
  ASSUME NEW S, NEW s \in Seq(S), NEW i \in 1 .. Len(s)
  PROVE  <<s[i]>> \o SubSeq(s, i + 1, Len(s)) = SubSeq(s, i, Len(s))
<1> DEFINE r == SubSeq(s, i + 1, Len(s))
           t == SubSeq(s, i, Len(s))
           h == <<s[i]>>
<1>1. i \in Nat /\ Len(s) \in Nat /\ i <= Len(s) /\ i - 1 \in Nat /\ i - 1 <= Len(s) /\ i - 1 + 1 = i
  OBVIOUS
<1>2. r \in Seq(S) /\ Len(r) = Len(s) - i /\ \A k \in 1 .. Len(s) - i : r[k] = s[k + i]
  BY <1>1, SubSequenceMeans
<1>3. t \in Seq(S) /\ Len(t) = Len(s) - (i - 1) /\ \A k \in 1 .. Len(s) - (i - 1) : t[k] = s[k + (i - 1)]
  BY <1>1, SubSequenceMeans
<1>4. s[i] \in S
  OBVIOUS
<1> HIDE DEF r, t
<1>5. h \in Seq(S) /\ Len(h) = 1 /\ h[1] = s[i]
  BY <1>4
<1> HIDE DEF h
<1>21. r \in Seq(S)
  BY <1>2
<1>51. h \in Seq(S)
  BY <1>5
<1>6. /\ h \o r \in Seq(S) /\ Len(h \o r) = Len(h) + Len(r)
      /\ \A k \in 1 .. Len(h) : (h \o r)[k] = h[k]
      /\ \A k \in Len(h) + 1 .. Len(h) + Len(r) : (h \o r)[k] = r[k - Len(h)]
  BY <1>21, <1>51, Joined
<1>7. PICK q \in Seq(S) : /\ q = h \o r /\ Len(q) = Len(h) + Len(r)
                          /\ \A k \in 1 .. Len(h) : q[k] = h[k]
                          /\ \A k \in Len(h) + 1 .. Len(h) + Len(r) : q[k] = r[k - Len(h)]
  BY <1>6, Zenon
<1>8. Len(q) = Len(t)
  BY <1>1, <1>2, <1>3, <1>5, <1>7
<1>9. ASSUME NEW k \in 1 .. Len(q) PROVE q[k] = t[k]
  <2>1. CASE k = 1
    BY <1>1, <1>3, <1>5, <1>7, <2>1
  <2>2. CASE k # 1
    <3>1. k \in Len(h) + 1 .. Len(h) + Len(r) /\ k - 1 \in 1 .. Len(s) - i /\ k \in 1 .. Len(s) - (i - 1)
      BY <1>1, <1>2, <1>5, <1>7, <2>2
    <3>2. q[k] = r[k - 1] /\ r[k - 1] = s[k - 1 + i] /\ t[k] = s[k + (i - 1)]
      BY <1>2, <1>3, <1>5, <1>7, <3>1
    <3>3. k - 1 + i = k + (i - 1)
      BY <1>1, <3>1
    <3> QED
      BY <3>2, <3>3
  <2> QED
    BY <2>1, <2>2
<1>10. q = t
  BY <1>3, <1>7, <1>8, <1>9, SameSequence
<1> QED
  BY <1>7, <1>10 DEF r, t, h

(* A string between quotes.                                                *)
LEMMA QuotedMeans ==
  ASSUME NEW S, NEW s \in Seq(S)
  PROVE  \E X : \E r \in Seq(X) :
           /\ r = Escape(s) /\ Quoted(s) \in Seq(X) /\ Len(Quoted(s)) = Len(r) + 2
           /\ Quoted(s)[1] = "quote" /\ Quoted(s)[Len(r) + 2] = "quote"
           /\ \A x \in 1 .. Len(r) : Quoted(s)[x + 1] = r[x]
<1> DEFINE X == S \cup EscapeLetters
           h == <<"quote">>
<1>1. PICK r \in Seq(X) : r = Escape(s)
  BY EscapeMeans
<1>2. "quote" \in X
  BY DEF EscapeLetters
<1> HIDE DEF X
<1>3. h \in Seq(X) /\ Len(h) = 1 /\ h[1] = "quote"
  BY <1>2
<1>4. Quoted(s) = (h \o r) \o h
  BY <1>1 DEF Quoted
<1> HIDE DEF h
<1>31. h \in Seq(X)
  BY <1>3
<1>5. /\ h \o r \in Seq(X) /\ Len(h \o r) = Len(h) + Len(r)
      /\ \A i \in 1 .. Len(h) : (h \o r)[i] = h[i]
      /\ \A i \in 1 .. Len(r) : (h \o r)[Len(h) + i] = r[i]
  BY <1>31, Joined
<1>6. PICK q \in Seq(X) : /\ q = h \o r /\ Len(q) = Len(h) + Len(r)
                          /\ \A i \in 1 .. Len(h) : q[i] = h[i]
                          /\ \A i \in 1 .. Len(r) : q[Len(h) + i] = r[i]
  BY <1>5, Zenon
<1>7. /\ q \o h \in Seq(X) /\ Len(q \o h) = Len(q) + Len(h)
      /\ \A i \in 1 .. Len(q) : (q \o h)[i] = q[i]
      /\ \A i \in 1 .. Len(h) : (q \o h)[Len(q) + i] = h[i]
  BY <1>31, Joined
<1>8. PICK t \in Seq(X) : /\ t = q \o h /\ Len(t) = Len(q) + Len(h)
                          /\ \A i \in 1 .. Len(q) : t[i] = q[i]
                          /\ \A i \in 1 .. Len(h) : t[Len(q) + i] = h[i]
  BY <1>7, Zenon
<1>9. Len(r) \in Nat /\ Len(q) = Len(r) + 1 /\ Len(t) = Len(r) + 2
  BY <1>3, <1>6, <1>8
<1>10. t[1] = "quote" /\ t[Len(r) + 2] = "quote"
  <2>1. 1 \in 1 .. Len(q) /\ 1 \in 1 .. Len(h) /\ Len(q) + 1 = Len(r) + 2
    BY <1>3, <1>9
  <2> QED
    BY <1>3, <1>6, <1>8, <2>1
<1>11. ASSUME NEW x \in 1 .. Len(r) PROVE t[x + 1] = r[x]
  <2>1. x + 1 \in 1 .. Len(q) /\ Len(h) + x = x + 1
    BY <1>3, <1>9
  <2> QED
    BY <1>6, <1>8, <2>1
<1>12. t = Quoted(s)
  BY <1>4, <1>6, <1>8
<1> QED
  BY <1>1, <1>8, <1>9, <1>10, <1>11, <1>12

(* A string that was written is read as it was: get_string undoes          *)
(* escape_string (json.hpp:2075-2155, 4424-4524).                          *)
THEOREM QuotedReadsBack ==
  ASSUME NEW S, NEW s \in Seq(S)
  PROVE  GetString(Quoted(s)) = s
<1>0. PICK X : \E r \in Seq(X) :
           /\ r = Escape(s) /\ Quoted(s) \in Seq(X) /\ Len(Quoted(s)) = Len(r) + 2
           /\ \A x \in 1 .. Len(r) : Quoted(s)[x + 1] = r[x]
  BY QuotedMeans
<1>1. PICK r \in Seq(X) :
           /\ r = Escape(s) /\ Quoted(s) \in Seq(X) /\ Len(Quoted(s)) = Len(r) + 2
           /\ \A x \in 1 .. Len(r) : Quoted(s)[x + 1] = r[x]
  BY <1>0
<1>2. PICK o \in [1 .. Len(s) + 1 -> Nat] : EscapedAs(s, r, o)
  BY <1>1, EscapeMeans
<1>3. SubSeq(Quoted(s), 2, Len(Quoted(s)) - 1) = r
  <2> DEFINE q == Quoted(s)
             t == SubSeq(q, 1 + 1, Len(r) + 1)
  <2>1. q \in Seq(X) /\ Len(q) = Len(r) + 2 /\ Len(r) \in Nat /\ \A x \in 1 .. Len(r) : q[x + 1] = r[x]
    BY <1>1
  <2> HIDE DEF q
  <2>2. 1 \in Nat /\ Len(r) + 1 \in Nat /\ 1 <= Len(r) + 1 /\ Len(r) + 1 <= Len(q) /\ Len(r) + 1 - 1 = Len(r)
    BY <2>1
  <2>3. t \in Seq(X) /\ Len(t) = Len(r) /\ \A k \in 1 .. Len(r) : t[k] = q[k + 1]
    BY <2>1, <2>2, SubSequenceMeans
  <2> HIDE DEF t
  <2>4. t = r
    BY <2>1, <2>3, SameSequence
  <2> QED
    BY <2>1, <2>4 DEF t, q
<1> DEFINE f == Reading(r)
<1>4. Len(r) \in Nat /\ ReadFrom(r, 1, f)
  BY ReadingOn DEF Reading
<1>5. GetString(Quoted(s)) = f[1]
  <2>1. GetString(Quoted(s)) = Reading(SubSeq(Quoted(s), 2, Len(Quoted(s)) - 1))[1]
    BY DEF GetString, Reading, ReadFrom, Half
  <2> QED
    BY <1>3, <2>1
<1> HIDE DEF f
<1> DEFINE D == {m \in Nat : m <= Len(s) /\ f[o[Len(s) + 1 - m] + 1] # SubSeq(s, Len(s) + 1 - m, Len(s))}
<1>6. D = {}
  <2> SUFFICES ASSUME D # {} PROVE FALSE
    OBVIOUS
  <2>1. D \in SUBSET Nat
    OBVIOUS
  <2> HIDE DEF D
  <2>2. PICK d \in D : \A e \in D : d <= e
    BY <2>1, LeastNumber
  <2>3. d \in Nat /\ d <= Len(s) /\ f[o[Len(s) + 1 - d] + 1] # SubSeq(s, Len(s) + 1 - d, Len(s))
    BY DEF D
  <2>4. d # 0
    <3>1. o[Len(s) + 1] = Len(r) /\ Len(s) + 1 - 0 = Len(s) + 1
      BY <1>2 DEF EscapedAs
    <3>2. f[Len(r) + 1] = <<>>
      BY <1>4 DEF ReadFrom
    <3>3. SubSeq(s, Len(s) + 1, Len(s)) = <<>>
      OBVIOUS
    <3> QED
      BY <2>3, <3>1, <3>2, <3>3
  <2>5. PICK i \in 1 .. Len(s) : i = Len(s) + 1 - d
    BY <2>3, <2>4
  <2>6. d - 1 \in Nat /\ d - 1 <= Len(s) /\ ~(d <= d - 1) /\ Len(s) + 1 - (d - 1) = i + 1
    BY <2>3, <2>4, <2>5
  <2>7. f[o[i + 1] + 1] = SubSeq(s, i + 1, Len(s))
    BY <2>2, <2>6 DEF D
  <2>8. o[i] \in Nat /\ o[i + 1] \in Nat /\ o[i + 1] <= Len(r)
    <3>1. i \in 1 .. Len(s) + 1 /\ i + 1 \in 1 .. Len(s) + 1
      BY <2>5
    <3> QED
      BY <1>2, <2>5, <3>1 DEF EscapedAs
  <2>9. PICK y \in Nat : y = o[i] + 1
    BY <2>8
  <2>10. f[y] = <<s[i]>> \o f[o[i + 1] + 1]
    <3>1. o[i + 1] = o[i] + 1 \/ o[i + 1] = o[i] + 2 \/ o[i + 1] = o[i] + 6
      BY <1>2 DEF EscapedAs
    <3>2. y \in 1 .. Len(r) + 12 /\ ~(y > Len(r))
      BY <1>4, <2>8, <2>9, <3>1
    <3>3. f[y] = IF r[y] # "backslash" THEN <<r[y]>> \o f[y + 1]
                 ELSE IF r[y + 1] # "u" THEN <<Unescaped(r[y + 1])>> \o f[y + 2]
                 ELSE IF ~High(r, y + 2) THEN <<Character(r, y + 2)>> \o f[y + 6]
                 ELSE IF Half(r, y + 6) THEN <<"other">> \o f[y + 12]
                 ELSE <<"thrown">>
      BY <1>4, <3>2 DEF ReadFrom
    <3>4. y = o[i] + 1 /\ y + 1 = o[i] + 2 /\ y + 2 = o[i] + 2 + 1 /\ y + 6 = o[i] + 6 + 1 /\ y + 1 = o[i] + 1 + 1
      BY <2>8, <2>9
    <3>5. CASE /\ s[i] \in DOMAIN EscapeOf /\ o[i + 1] = o[i] + 2
               /\ r[o[i] + 1] = "backslash" /\ r[o[i] + 2] = EscapeOf[s[i]]
      <4>1. EscapeOf[s[i]] # "u" /\ Unescaped(EscapeOf[s[i]]) = s[i]
        BY <3>5, EscapeLetter
      <4> QED
        BY <3>3, <3>4, <3>5, <4>1
    <3>6. CASE /\ s[i] = "control" /\ o[i + 1] = o[i] + 6
               /\ r[o[i] + 1] = "backslash" /\ r[o[i] + 2] = "u"
               /\ r[o[i] + 3] = "0" /\ r[o[i] + 4] = "0" /\ r[o[i] + 5] = "0" /\ r[o[i] + 6] = "1"
      <4>1. /\ r[y] = "backslash" /\ r[y + 1] = "u" /\ r[y + 2] = "0" /\ r[y + 2 + 1] = "0"
            /\ r[y + 2 + 2] = "0" /\ r[y + 2 + 3] = "1"
        <5>1. PICK a \in Nat : a = o[i]
          BY <2>8
        <5>2. /\ y = a + 1 /\ y + 1 = a + 2 /\ y + 2 = a + 3 /\ y + 2 + 1 = a + 4
              /\ y + 2 + 2 = a + 5 /\ y + 2 + 3 = a + 6
          BY <2>9, <5>1
        <5>3. /\ r[a + 1] = "backslash" /\ r[a + 2] = "u" /\ r[a + 3] = "0" /\ r[a + 4] = "0"
              /\ r[a + 5] = "0" /\ r[a + 6] = "1"
          BY <3>6, <5>1
        <5> QED
          BY <5>2, <5>3, Zenon
      <4>2. ~High(r, y + 2) /\ Character(r, y + 2) = "control"
        BY <4>1 DEF High, Character
      <4> QED
        BY <3>3, <3>4, <3>6, <4>1, <4>2
    <3>7. CASE s[i] \notin DOMAIN EscapeOf \cup {"control"} /\ o[i + 1] = o[i] + 1 /\ r[o[i] + 1] = s[i]
      <4>1. s[i] # "backslash"
        BY <3>7 DEF EscapeOf
      <4> QED
        BY <3>3, <3>4, <3>7, <4>1
    <3> QED
      BY <1>2, <3>5, <3>6, <3>7 DEF EscapedAs
  <2> QED
    <3>1. f[y] = SubSeq(s, i, Len(s))
      BY <2>7, <2>10, RestOf
    <3> QED
      BY <2>3, <2>5, <2>9, <3>1
<1>7. Len(s) \in Nat /\ Len(s) <= Len(s) /\ Len(s) + 1 - Len(s) = 1
  OBVIOUS
<1>8. f[o[1] + 1] = SubSeq(s, 1, Len(s))
  BY <1>6, <1>7
<1>9. o[1] = 0 /\ SubSeq(s, 1, Len(s)) = s
  BY <1>2 DEF EscapedAs
<1> QED
  BY <1>5, <1>8, <1>9

(* Of what was written get_string does not throw.                          *)
LEMMA QuotedPaired ==
  ASSUME NEW s \in Strings
  PROVE  ~Unpaired(Quoted(s))
<1>1. GetString(Quoted(s)) = s
  BY QuotedReadsBack DEF Strings
<1>2. \A i \in DOMAIN s : s[i] \in DOMAIN Place
  BY DEF Strings
<1> QED
  BY <1>1, <1>2, PlaceAssumption DEF Unpaired

-----------------------------------------------------------------------------
(* Where the members of a value are in what is written of it.              *)
LEMMA SpreadCovers ==
  ASSUME NEW s, NEW n \in Nat, NEW r, Len(r) \in Nat, NEW o \in [1 .. n + 1 -> Nat], Spread(s, n, r, o),
         NEW y \in 1 .. Len(r)
  PROVE  \E i \in 1 .. n : o[i] < y /\ y <= o[i + 1]
<1> DEFINE D == {i \in 1 .. n + 1 : y <= o[i]}
<1>1. D \in SUBSET Nat /\ n + 1 \in D
  BY DEF Spread
<1> HIDE DEF D
<1>2. PICK d \in D : \A e \in D : d <= e
  BY <1>1, LeastNumber
<1>3. d \in 1 .. n + 1 /\ y <= o[d]
  BY DEF D
<1>4. d # 1
  BY <1>3 DEF Spread
<1>5. d - 1 \in 1 .. n /\ d - 1 \in 1 .. n + 1 /\ ~(d <= d - 1) /\ d - 1 + 1 = d
  BY <1>3, <1>4
<1>6. ~(y <= o[d - 1])
  BY <1>2, <1>5 DEF D
<1>7. o[d - 1] \in Nat
  BY <1>5
<1> QED
  BY <1>3, <1>5, <1>6, <1>7

Comma == <<",">>

(* The i-th of the parts is listed behind the place b[i].                  *)
ListedAt(parts, r, b) ==
    LET End(i) == b[i] + Len(parts[i])
    IN  /\ Len(parts) = 0 => Len(r) = 0
        /\ Len(parts) > 0 => b[1] = 0 /\ Len(r) = End(Len(parts))
        /\ \A i \in 1 .. Len(parts) - 1 : b[i + 1] = End(i) + 1 /\ r[End(i) + 1] = Comma
        /\ \A i \in 1 .. Len(parts) : /\ End(i) <= Len(r)
                                      /\ \A x \in 1 .. Len(parts[i]) : r[b[i] + x] = parts[i][x]
        /\ \A y \in 1 .. Len(r) : \E i \in 1 .. Len(parts) :
              y \in b[i] + 1 .. End(i) \/ (i < Len(parts) /\ y = End(i) + 1)

LEMMA ListedMeans ==
  ASSUME NEW X, Comma \in X, NEW parts \in Seq(Seq(X))
  PROVE  Listed(parts) \in Seq(X) /\ \E b \in [1 .. Len(parts) -> Nat] : ListedAt(parts, Listed(parts), b)
<1>0. PICK n \in Nat : n = Len(parts)
  OBVIOUS
<1> DEFINE s == [i \in 1 .. n |-> IF i = 1 THEN parts[1] ELSE <<Comma>> \o parts[i]]
<1>1. DOMAIN parts = 1 .. n /\ \A i \in 1 .. n : parts[i] \in Seq(X) /\ Len(parts[i]) \in Nat
  <2>1. DOMAIN parts = 1 .. n /\ \A i \in 1 .. n : parts[i] \in Seq(X)
    BY <1>0
  <2> QED
    BY <2>1
<1>2. PICK comma : comma = Comma
  OBVIOUS
<1>3. ASSUME NEW i \in 1 .. n, i # 1
      PROVE  /\ s[i] \in Seq(X) /\ Len(s[i]) = Len(parts[i]) + 1 /\ s[i][1] = comma
             /\ \A x \in 1 .. Len(parts[i]) : s[i][x + 1] = parts[i][x]
  <2>1. PICK p \in Seq(X) : p = parts[i]
    BY <1>1
  <2>2. comma \in X
    BY <1>2
  <2>3. /\ <<comma>> \o p \in Seq(X) /\ Len(<<comma>> \o p) = Len(p) + 1 /\ (<<comma>> \o p)[1] = comma
        /\ \A x \in 1 .. Len(p) : (<<comma>> \o p)[x + 1] = p[x]
    BY <2>2, Prepended
  <2>4. s[i] = <<comma>> \o p
    BY <1>2, <1>3, <2>1
  <2> HIDE DEF s
  <2> QED
    BY <2>1, <2>3, <2>4, Zenon
<1>4. n >= 1 => s[1] = parts[1]
  OBVIOUS
<1>5. Listed(parts) = FlattenSeq(s)
  BY <1>0, <1>1 DEF Listed, Comma
<1> DEFINE gap(i) == IF i = 1 THEN 0 ELSE 1
<1>55. \A i : gap(i) \in {0, 1} /\ (i = 1 => gap(i) = 0) /\ (i # 1 => gap(i) = 1)
  OBVIOUS
<1> HIDE DEF gap
<1>6. \A i \in 1 .. n : /\ s[i] \in Seq(X) /\ Len(s[i]) = Len(parts[i]) + gap(i)
                        /\ i # 1 => s[i][1] = Comma
                        /\ \A x \in 1 .. Len(parts[i]) : s[i][x + gap(i)] = parts[i][x]
  <2> TAKE i \in 1 .. n
  <2> HIDE DEF s
  <2>1. CASE i = 1
    <3>1. s[i] = parts[i] /\ gap(i) = 0 /\ parts[i] \in Seq(X) /\ Len(parts[i]) \in Nat
      BY <1>1, <1>4, <1>55, <2>1
    <3> QED
      BY <2>1, <3>1
  <2>2. CASE i # 1
    BY <1>2, <1>3, <1>55, <2>2
  <2> QED
    BY <2>1, <2>2
<1>7. s \in Seq(Seq(X)) /\ Len(s) = n
  <2>1. s \in [1 .. n -> Seq(X)] /\ Len(s) = n
    BY <1>1, <1>6
  <2> QED
    BY <1>1, <2>1
<1> HIDE DEF s
<1>8. PICK r \in Seq(X) : r = Listed(parts)
  BY <1>5, <1>7, FlattenMeans
<1>9. PICK o \in [1 .. n + 1 -> Nat] : Spread(s, n, r, o)
  BY <1>5, <1>7, <1>8, FlattenMeans
<1>10. Len(r) \in Nat /\ o[1] = 0 /\ o[n + 1] = Len(r)
  BY <1>9 DEF Spread
<1>11. PICK b \in [1 .. n -> Nat] : \A i \in 1 .. n : b[i] = o[i] + gap(i)
  <2> DEFINE c == [i \in 1 .. n |-> o[i] + gap(i)]
  <2>1. c \in [1 .. n -> Nat]
    BY SMTT(60), <1>55
  <2> QED
    BY <2>1
<1>12. ASSUME NEW i \in 1 .. n
       PROVE  /\ o[i] \in Nat /\ o[i + 1] \in Nat /\ b[i] \in Nat
              /\ b[i] + Len(parts[i]) = o[i + 1] /\ o[i + 1] <= Len(r)
              /\ i # 1 => b[i] = o[i] + 1 /\ r[o[i] + 1] = Comma
              /\ \A x \in 1 .. Len(parts[i]) : r[b[i] + x] = parts[i][x]
  <2>1. i \in 1 .. n + 1 /\ i + 1 \in 1 .. n + 1
    BY <1>1
  <2>2. o[i] \in Nat /\ o[i + 1] \in Nat /\ b[i] \in Nat /\ Len(parts[i]) \in Nat
    BY <1>1, <2>1
  <2>3. /\ o[i + 1] = o[i] + Len(s[i]) /\ o[i + 1] <= Len(r)
        /\ \A x \in 1 .. Len(s[i]) : r[o[i] + x] = s[i][x]
    BY <1>9 DEF Spread
  <2>4. PICK g, l \in Nat : g = gap(i) /\ l = Len(parts[i]) /\ (i # 1 => g = 1)
    BY <1>55, <2>2
  <2>41. Len(s[i]) = l + g /\ b[i] = o[i] + g
    BY <1>6, <1>11, <2>4
  <2>5. i # 1 => b[i] = o[i] + 1 /\ r[o[i] + 1] = Comma
    <3> SUFFICES ASSUME i # 1 PROVE b[i] = o[i] + 1 /\ r[o[i] + 1] = Comma
      OBVIOUS
    <3>1. g = 1 /\ 1 \in 1 .. l + g
      BY <2>4
    <3>2. s[i][1] = Comma
      BY <1>6
    <3> QED
      BY <2>3, <2>41, <3>1, <3>2
  <2>6. ASSUME NEW x \in 1 .. l PROVE r[b[i] + x] = parts[i][x]
    <3>1. x + g \in 1 .. l + g
      OBVIOUS
    <3>3. o[i] + g + x = o[i] + (x + g)
      BY SMTT(60), <2>2
    <3>2. s[i][x + g] = parts[i][x]
      BY <1>6, <2>4
    <3> QED
      BY <2>3, <2>41, <3>1, <3>2, <3>3
  <2> QED
    BY SMTT(60), <2>2, <2>3, <2>4, <2>41, <2>5, <2>6
<1>13. ASSUME NEW i \in 1 .. n - 1 PROVE b[i + 1] = o[i + 1] + 1 /\ r[o[i + 1] + 1] = Comma
  <2>1. i + 1 \in 1 .. n /\ i + 1 # 1
    BY <1>1
  <2> QED
    BY <1>12, <2>1
<1>14. ASSUME NEW y \in 1 .. Len(r)
       PROVE  \E i \in 1 .. n : \/ y \in b[i] + 1 .. b[i] + Len(parts[i])
                                \/ i < n /\ y = b[i] + Len(parts[i]) + 1
  <2>1. PICK i \in 1 .. n : o[i] < y /\ y <= o[i + 1]
    BY <1>1, <1>9, <1>10, SpreadCovers
  <2>2. CASE i = 1 \/ y # o[i] + 1
    <3>1. /\ o[i] \in Nat /\ o[i + 1] \in Nat /\ b[i] \in Nat /\ b[i] + Len(parts[i]) = o[i + 1]
          /\ b[i] = o[i] + gap(i) /\ (i # 1 => b[i] = o[i] + 1)
      BY <1>11, <1>12
    <3>2. b[i] < y
      BY SMTT(60), <1>10, <1>55, <2>1, <2>2, <3>1
    <3>3. y \in b[i] + 1 .. o[i + 1]
      BY <2>1, <3>1, <3>2
    <3> QED
      BY <3>1, <3>3
  <2>3. CASE i # 1 /\ y = o[i] + 1
    <3>1. i - 1 \in 1 .. n /\ i - 1 < n /\ i - 1 + 1 = i
      BY <1>1, <2>3
    <3>2. b[i - 1] + Len(parts[i - 1]) = o[i]
      BY <1>12, <3>1
    <3> QED
      BY <2>3, <3>1, <3>2
  <2> QED
    BY <2>2, <2>3
<1>15. n = 0 => Len(r) = 0
  BY <1>10
<1>16. n > 0 => b[1] = 0 /\ Len(r) = b[n] + Len(parts[n])
  <2> HAVE n > 0
  <2>1. 1 \in 1 .. n /\ n \in 1 .. n
    BY <1>1
  <2>2. b[1] = o[1] + gap(1) /\ gap(1) = 0 /\ b[n] + Len(parts[n]) = o[n + 1]
    BY <1>11, <1>12, <1>55, <2>1
  <2> QED
    BY <1>10, <2>2
<1>17. ASSUME NEW i \in 1 .. n - 1
       PROVE  b[i + 1] = b[i] + Len(parts[i]) + 1 /\ r[b[i] + Len(parts[i]) + 1] = Comma
  <2>1. i \in 1 .. n
    BY <1>1
  <2>2. b[i] + Len(parts[i]) = o[i + 1]
    BY <1>12, <2>1
  <2> QED
    BY <1>13, <2>2
<1>18. ListedAt(parts, r, b)
  BY <1>0, <1>12, <1>14, <1>15, <1>16, <1>17 DEF ListedAt
<1> QED
  BY <1>0, <1>8, <1>18

(* Something between two brackets.                                         *)
LEMMA Bracketed ==
  ASSUME NEW X, NEW r \in Seq(X), NEW x \in X, NEW z \in X
  PROVE  LET t == <<x>> \o r \o <<z>>
         IN  /\ t \in Seq(X) /\ Len(t) = Len(r) + 2 /\ t[1] = x /\ t[Len(r) + 2] = z
             /\ \A i \in 1 .. Len(r) : t[i + 1] = r[i]
<1> DEFINE h == <<x>>
           e == <<z>>
           t == h \o r \o e
<1>1. h \in Seq(X)
  OBVIOUS
<1>2. e \in Seq(X)
  OBVIOUS
<1>3. Len(h) = 1 /\ h[1] = x /\ Len(e) = 1 /\ e[1] = z
  OBVIOUS
<1> HIDE DEF h, e
<1>4. /\ h \o r \in Seq(X) /\ Len(h \o r) = Len(h) + Len(r)
      /\ \A i \in 1 .. Len(h) : (h \o r)[i] = h[i]
      /\ \A i \in 1 .. Len(r) : (h \o r)[Len(h) + i] = r[i]
  BY <1>1, Joined
<1>5. PICK q \in Seq(X) : /\ q = h \o r /\ Len(q) = Len(h) + Len(r)
                          /\ \A i \in 1 .. Len(h) : q[i] = h[i]
                          /\ \A i \in 1 .. Len(r) : q[Len(h) + i] = r[i]
  BY <1>4, Zenon
<1>6. /\ q \o e \in Seq(X) /\ Len(q \o e) = Len(q) + Len(e)
      /\ \A i \in 1 .. Len(q) : (q \o e)[i] = q[i]
      /\ \A i \in 1 .. Len(e) : (q \o e)[Len(q) + i] = e[i]
  BY <1>2, Joined
<1>7. t = q \o e
  BY <1>5
<1> HIDE DEF t
<1>8. /\ t \in Seq(X) /\ Len(t) = Len(q) + Len(e)
      /\ \A i \in 1 .. Len(q) : t[i] = q[i]
      /\ \A i \in 1 .. Len(e) : t[Len(q) + i] = e[i]
  BY <1>6, <1>7, Zenon
<1>9. Len(r) \in Nat /\ Len(q) = Len(r) + 1 /\ Len(t) = Len(r) + 2
  BY <1>3, <1>5, <1>8
<1>10. t[1] = x /\ t[Len(r) + 2] = z
  <2>1. 1 \in 1 .. Len(q) /\ 1 \in 1 .. Len(h) /\ 1 \in 1 .. Len(e) /\ Len(q) + 1 = Len(r) + 2
    BY <1>3, <1>9
  <2> QED
    BY <1>3, <1>5, <1>8, <2>1
<1>11. ASSUME NEW i \in 1 .. Len(r) PROVE t[i + 1] = r[i]
  <2>1. i + 1 \in 1 .. Len(q) /\ Len(h) + i = i + 1
    BY <1>3, <1>9
  <2> QED
    BY <1>5, <1>8, <2>1
<1>12. /\ t \in Seq(X) /\ Len(t) = Len(r) + 2 /\ t[1] = x /\ t[Len(r) + 2] = z
       /\ \A i \in 1 .. Len(r) : t[i + 1] = r[i]
  BY <1>8, <1>9, <1>10, <1>11
<1> QED
  BY <1>12, Zenon DEF t, h, e

(* Between two brackets are the things in Q, the i-th of them behind the   *)
(* place a[i], after c tokens H[i] of its own, and commas between them.    *)
Laid(t, open, close, n, Q, H, c, a) ==
    LET End(i) == a[i] + Len(Q[i])
    IN  /\ Len(t) >= 2 /\ t[1] = open /\ t[Len(t)] = close
        /\ n = 0 => Len(t) = 2
        /\ n > 0 => a[1] = 1 + c /\ Len(t) = End(n) + 1
        /\ \A i \in 1 .. n - 1 : a[i + 1] = End(i) + 1 + c /\ t[End(i) + 1] = Comma
        /\ \A i \in 1 .. n : /\ a[i] >= 1 + c /\ End(i) < Len(t)
                             /\ \A x \in 1 .. Len(Q[i]) : t[a[i] + x] = Q[i][x]
                             /\ \A x \in 1 .. c : t[a[i] - c + x] = H[i][x]
        /\ \A y \in 1 .. Len(t) :
             \/ y = 1 \/ y = Len(t)
             \/ \E i \in 1 .. n : \/ i < n /\ y = End(i) + 1
                                  \/ y \in a[i] - c + 1 .. a[i]
                                  \/ y \in a[i] + 1 .. End(i)

LEMMA LaidMeans ==
  ASSUME NEW X, Comma \in X, NEW open \in X, NEW close \in X, NEW P \in Seq(Seq(X)),
         NEW n \in Nat, n = Len(P), NEW Q, NEW H, NEW c \in Nat,
         \A i \in 1 .. n : /\ Len(Q[i]) \in Nat /\ Len(P[i]) = c + Len(Q[i])
                           /\ \A x \in 1 .. c : P[i][x] = H[i][x]
                           /\ \A x \in 1 .. Len(Q[i]) : P[i][c + x] = Q[i][x]
  PROVE  \E a \in [1 .. n -> Nat] : Laid(<<open>> \o Listed(P) \o <<close>>, open, close, n, Q, H, c, a)
<1>1. PICK r \in Seq(X) : r = Listed(P)
  BY ListedMeans
<1>2. PICK b \in [1 .. n -> Nat] : ListedAt(P, r, b)
  BY <1>1, ListedMeans
<1>3. PICK t : t = <<open>> \o r \o <<close>>
  OBVIOUS
<1>4. /\ t \in Seq(X) /\ Len(t) = Len(r) + 2 /\ t[1] = open /\ t[Len(r) + 2] = close
      /\ \A i \in 1 .. Len(r) : t[i + 1] = r[i]
  <2>1. LET u == <<open>> \o r \o <<close>>
        IN  /\ u \in Seq(X) /\ Len(u) = Len(r) + 2 /\ u[1] = open /\ u[Len(r) + 2] = close
            /\ \A i \in 1 .. Len(r) : u[i + 1] = r[i]
    BY Bracketed
  <2> QED
    BY <1>3, <2>1, Zenon
<1>5. PICK k \in Nat : k = Len(r)
  OBVIOUS
<1>55. PICK q \in [1 .. n -> Nat] : \A i \in 1 .. n : q[i] = Len(Q[i])
  <2> DEFINE f == [i \in 1 .. n |-> Len(Q[i])]
  <2>1. f \in [1 .. n -> Nat]
    OBVIOUS
  <2> QED
    BY <2>1
<1>6. /\ n = 0 => k = 0
      /\ n > 0 => b[1] = 0 /\ k = b[n] + (c + q[n])
      /\ \A i \in 1 .. n - 1 : b[i + 1] = b[i] + (c + q[i]) + 1 /\ r[b[i] + (c + q[i]) + 1] = Comma
      /\ \A i \in 1 .. n : b[i] + (c + q[i]) <= k
      /\ \A i \in 1 .. n : \A x \in 1 .. c + q[i] : r[b[i] + x] = P[i][x]
      /\ \A y \in 1 .. k : \E i \in 1 .. n : \/ y \in b[i] + 1 .. b[i] + (c + q[i])
                                             \/ i < n /\ y = b[i] + (c + q[i]) + 1
  <2>1. \A i \in 1 .. n : Len(P[i]) = c + q[i]
    BY <1>55
  <2>2. n > 0 => n \in 1 .. n
    OBVIOUS
  <2>3. \A i \in 1 .. n - 1 : i \in 1 .. n
    OBVIOUS
  <2>4. /\ n = 0 => k = 0
        /\ n > 0 => b[1] = 0 /\ k = b[n] + Len(P[n])
        /\ \A i \in 1 .. n - 1 : b[i + 1] = b[i] + Len(P[i]) + 1 /\ r[b[i] + Len(P[i]) + 1] = Comma
        /\ \A i \in 1 .. n : b[i] + Len(P[i]) <= k
        /\ \A i \in 1 .. n : \A x \in 1 .. Len(P[i]) : r[b[i] + x] = P[i][x]
        /\ \A y \in 1 .. k : \E i \in 1 .. n : \/ y \in b[i] + 1 .. b[i] + Len(P[i])
                                               \/ i < n /\ y = b[i] + Len(P[i]) + 1
    BY ZenonT(60), <1>2, <1>5 DEF ListedAt
  <2>5. n > 0 => b[1] = 0 /\ k = b[n] + (c + q[n])
    BY <2>1, <2>2, <2>4
  <2>6. \A i \in 1 .. n - 1 : b[i + 1] = b[i] + (c + q[i]) + 1 /\ r[b[i] + (c + q[i]) + 1] = Comma
    BY <2>1, <2>3, <2>4
  <2>7. \A i \in 1 .. n : b[i] + (c + q[i]) <= k
    BY <2>1, <2>4
  <2>8. \A i \in 1 .. n : \A x \in 1 .. c + q[i] : r[b[i] + x] = P[i][x]
    BY <2>1, <2>4
  <2>9. ASSUME NEW y \in 1 .. k
        PROVE  \E i \in 1 .. n : \/ y \in b[i] + 1 .. b[i] + (c + q[i])
                                 \/ i < n /\ y = b[i] + (c + q[i]) + 1
    <3>1. PICK i \in 1 .. n : \/ y \in b[i] + 1 .. b[i] + Len(P[i])
                              \/ i < n /\ y = b[i] + Len(P[i]) + 1
      BY <2>4
    <3>2. Len(P[i]) = c + q[i]
      BY <2>1
    <3> QED
      BY <3>1, <3>2
  <2>10. n = 0 => k = 0
    BY <2>4
  <2> QED
    BY <2>5, <2>6, <2>7, <2>8, <2>9, <2>10
<1>7. \A i \in 1 .. n : b[i] \in Nat /\ q[i] \in Nat
  OBVIOUS
<1>8. PICK a \in [1 .. n -> Nat] : \A i \in 1 .. n : a[i] = b[i] + (1 + c)
  <2> DEFINE f == [i \in 1 .. n |-> b[i] + (1 + c)]
  <2>1. f \in [1 .. n -> Nat]
    OBVIOUS
  <2> QED
    BY <2>1
<1>9. Len(t) = k + 2 /\ t[1] = open /\ t[k + 2] = close /\ \A i \in 1 .. k : t[i + 1] = r[i]
  BY <1>4, <1>5
<1>10. ASSUME NEW i \in 1 .. n
       PROVE  /\ a[i] >= 1 + c /\ a[i] + q[i] < k + 2
              /\ \A x \in 1 .. q[i] : t[a[i] + x] = Q[i][x]
              /\ \A x \in 1 .. c : t[a[i] - c + x] = H[i][x]
  <2>1. PICK l \in Nat : l = q[i]
    BY <1>7
  <2>2. PICK d \in Nat : d = b[i]
    BY <1>7
  <2>3. a[i] = d + (1 + c) /\ d + (c + l) <= k
    BY <1>6, <1>8, <2>1, <2>2
  <2>31. d + (c + l) <= k
    BY <2>3
  <2>4. a[i] >= 1 + c /\ a[i] + q[i] < k + 2
    BY SMTT(60), <2>1, <2>3
  <2>5. ASSUME NEW x \in 1 .. q[i] PROVE t[a[i] + x] = Q[i][x]
    <3>0. x \in 1 .. l
      BY <2>1
    <3>1. d + (c + x) \in 1 .. k /\ c + x \in 1 .. c + l
      BY <2>31, <3>0
    <3>2. d + (1 + c) + x = d + (c + x) + 1
      BY <3>0
    <3>3. t[d + (c + x) + 1] = r[d + (c + x)]
      BY <1>9, <3>1
    <3>4. r[d + (c + x)] = P[i][c + x]
      BY <1>6, <2>1, <2>2, <3>1
    <3>5. P[i][c + x] = Q[i][x]
      BY <1>55, <2>1, <3>0
    <3> QED
      BY <2>3, <3>2, <3>3, <3>4, <3>5
  <2>6. ASSUME NEW x \in 1 .. c PROVE t[a[i] - c + x] = H[i][x]
    <3>1. d + x \in 1 .. k /\ x \in 1 .. c + l /\ d + (1 + c) - c + x = d + x + 1
      BY SMTT(60), <2>31
    <3>2. t[d + x + 1] = r[d + x]
      BY <1>9, <3>1
    <3>3. r[d + x] = P[i][x]
      BY <1>6, <2>1, <2>2, <3>1
    <3>4. P[i][x] = H[i][x]
      OBVIOUS
    <3>5. a[i] - c + x = d + x + 1
      BY <2>3, <3>1
    <3> QED
      BY <3>2, <3>3, <3>4, <3>5
  <2> QED
    BY <2>4, <2>5, <2>6
<1>11. ASSUME NEW i \in 1 .. n - 1
       PROVE  a[i + 1] = a[i] + q[i] + 1 + c /\ t[a[i] + q[i] + 1] = Comma
  <2>1. i \in 1 .. n /\ i + 1 \in 1 .. n
    OBVIOUS
  <2>2. PICK l \in Nat : l = q[i]
    BY <1>7, <2>1
  <2>3. PICK d \in Nat : d = b[i]
    BY <1>7, <2>1
  <2>4. a[i] = d + (1 + c) /\ a[i + 1] = b[i + 1] + (1 + c) /\ b[i + 1] = d + (c + l) + 1
    BY <1>6, <1>8, <2>1, <2>2, <2>3
  <2>5. r[d + (c + l) + 1] = Comma
    BY <1>6, <2>2, <2>3
  <2>6. b[i + 1] + (c + q[i + 1]) <= k /\ q[i + 1] \in Nat
    BY <1>6, <1>7, <2>1
  <2>7. d + (c + l) + 1 \in 1 .. k /\ d + (1 + c) + l + 1 = d + (c + l) + 1 + 1
    BY SMTT(60), <2>4, <2>6
  <2>8. t[d + (c + l) + 1 + 1] = Comma
    BY <1>9, <2>5, <2>7
  <2>9. a[i + 1] = d + (1 + c) + l + 1 + c
    BY <2>4
  <2>10. a[i] + q[i] + 1 = d + (1 + c) + l + 1
    BY <2>2, <2>4
  <2> QED
    BY <2>7, <2>8, <2>9, <2>10
<1>12. ASSUME NEW y \in 1 .. k + 2
       PROVE  \/ y = 1 \/ y = k + 2
              \/ \E i \in 1 .. n : \/ i < n /\ y = a[i] + q[i] + 1
                                   \/ y \in a[i] - c + 1 .. a[i]
                                   \/ y \in a[i] + 1 .. a[i] + q[i]
  <2> SUFFICES ASSUME y # 1, y # k + 2
               PROVE  \E i \in 1 .. n : \/ i < n /\ y = a[i] + q[i] + 1
                                        \/ y \in a[i] - c + 1 .. a[i]
                                        \/ y \in a[i] + 1 .. a[i] + q[i]
    OBVIOUS
  <2>1. y - 1 \in 1 .. k
    OBVIOUS
  <2>2. PICK i \in 1 .. n : \/ y - 1 \in b[i] + 1 .. b[i] + (c + q[i])
                            \/ i < n /\ y - 1 = b[i] + (c + q[i]) + 1
    BY <1>6, <2>1
  <2>3. PICK l \in Nat : l = q[i]
    BY <1>7
  <2>4. PICK d \in Nat : d = b[i]
    BY <1>7
  <2>5. a[i] = d + (1 + c)
    BY <1>8, <2>4
  <2>6. \/ y - 1 \in d + 1 .. d + (c + l)
        \/ i < n /\ y - 1 = d + (c + l) + 1
    BY <2>2, <2>3, <2>4
  <2>7. \/ i < n /\ y = d + (1 + c) + l + 1
        \/ y \in d + (1 + c) - c + 1 .. d + (1 + c)
        \/ y \in d + (1 + c) + 1 .. d + (1 + c) + l
    BY <2>6
  <2>8. \/ i < n /\ y = a[i] + q[i] + 1
        \/ y \in a[i] - c + 1 .. a[i]
        \/ y \in a[i] + 1 .. a[i] + q[i]
    BY <2>3, <2>5, <2>7
  <2> QED
    BY <2>8
<1>13. n > 0 => a[1] = 1 + c /\ k + 2 = a[n] + q[n] + 1
  <2> SUFFICES ASSUME n > 0 PROVE a[1] = 1 + c /\ k + 2 = a[n] + q[n] + 1
    OBVIOUS
  <2>1. 1 \in 1 .. n /\ n \in 1 .. n
    OBVIOUS
  <2>2. a[1] = b[1] + (1 + c) /\ a[n] = b[n] + (1 + c) /\ b[1] = 0 /\ k = b[n] + (c + q[n])
    BY <1>6, <1>8, <2>1
  <2>3. b[n] \in Nat /\ q[n] \in Nat
    BY <1>7, <2>1
  <2> QED
    BY SMTT(60), <2>2, <2>3
<1>14. Laid(t, open, close, n, Q, H, c, a)
  <2>1. (n = 0 => Len(t) = 2) /\ Len(t) >= 2 /\ t[1] = open /\ t[Len(t)] = close
    BY <1>6, <1>9
  <2>2. n > 0 => a[1] = 1 + c /\ Len(t) = a[n] + Len(Q[n]) + 1
    <3>1. n > 0 => n \in 1 .. n
      OBVIOUS
    <3> QED
      BY <1>9, <1>13, <1>55, <3>1
  <2>3. \A i \in 1 .. n - 1 : /\ a[i + 1] = a[i] + Len(Q[i]) + 1 + c
                              /\ t[a[i] + Len(Q[i]) + 1] = Comma
    <3>1. \A i \in 1 .. n - 1 : i \in 1 .. n
      OBVIOUS
    <3> QED
      BY SMTT(60), <1>11, <1>55, <3>1
  <2>4. \A i \in 1 .. n : /\ a[i] >= 1 + c /\ a[i] + Len(Q[i]) < Len(t)
                          /\ \A x \in 1 .. Len(Q[i]) : t[a[i] + x] = Q[i][x]
                          /\ \A x \in 1 .. c : t[a[i] - c + x] = H[i][x]
    BY SMTT(60), <1>9, <1>10, <1>55
  <2>5. ASSUME NEW y \in 1 .. Len(t)
        PROVE  \/ y = 1 \/ y = Len(t)
               \/ \E i \in 1 .. n : \/ i < n /\ y = a[i] + Len(Q[i]) + 1
                                    \/ y \in a[i] - c + 1 .. a[i]
                                    \/ y \in a[i] + 1 .. a[i] + Len(Q[i])
    <3>1. y \in 1 .. k + 2 /\ Len(t) = k + 2
      BY <1>9
    <3>2. CASE y = 1 \/ y = k + 2
      BY <3>1, <3>2
    <3>3. CASE ~(y = 1 \/ y = k + 2)
      <4>1. PICK i \in 1 .. n : \/ i < n /\ y = a[i] + q[i] + 1
                                \/ y \in a[i] - c + 1 .. a[i]
                                \/ y \in a[i] + 1 .. a[i] + q[i]
        BY <1>12, <3>1, <3>3
      <4>2. q[i] = Len(Q[i])
        BY <1>55
      <4> QED
        BY <4>1, <4>2
    <3> QED
      BY <3>2, <3>3
  <2> QED
    BY <2>1, <2>2, <2>3, <2>4, <2>5 DEF Laid
<1> QED
  BY <1>1, <1>3, <1>14

(* What is written of an array or object.                                  *)
ColonMark  == <<":">>
Opening(w) == IF w.type = "object" THEN <<"{">> ELSE <<"[">>
Closing(w) == IF w.type = "object" THEN <<"}">> ELSE <<"]">>
Lead(w)    == IF w.type = "object" THEN 2 ELSE 0
Heads(w)   == [i \in 1 .. Len(Members(w)) |-> <<Quoted(Keys(w)[i]), ColonMark>>]
Dumps(w, of) == [i \in 1 .. Len(Members(w)) |-> of[Members(w)[i]]]

Within(w, of, a) ==
    Laid(of[w], Opening(w), Closing(w), Len(Members(w)), Dumps(w, of), Heads(w), Lead(w), a)

LEMMA TwoBefore ==
  ASSUME NEW X, NEW x \in X, NEW y \in X, NEW s \in Seq(X)
  PROVE  /\ <<x, y>> \o s \in Seq(X) /\ Len(<<x, y>> \o s) = 2 + Len(s)
         /\ (<<x, y>> \o s)[1] = x /\ (<<x, y>> \o s)[2] = y
         /\ \A i \in 1 .. Len(s) : (<<x, y>> \o s)[2 + i] = s[i]
<1> DEFINE h == <<x, y>>
<1>1. h \in Seq(X)
  OBVIOUS
<1>2. Len(h) = 2 /\ h[1] = x /\ h[2] = y
  OBVIOUS
<1> HIDE DEF h
<1>3. /\ h \o s \in Seq(X) /\ Len(h \o s) = Len(h) + Len(s)
      /\ \A i \in 1 .. Len(h) : (h \o s)[i] = h[i]
      /\ \A i \in 1 .. Len(s) : (h \o s)[Len(h) + i] = s[i]
  BY <1>1, Joined
<1>4. PICK q \in Seq(X) : /\ q = h \o s /\ Len(q) = Len(h) + Len(s)
                          /\ \A i \in 1 .. Len(h) : q[i] = h[i]
                          /\ \A i \in 1 .. Len(s) : q[Len(h) + i] = s[i]
  BY <1>3, Zenon
<1>5. Len(q) = 2 + Len(s) /\ q[1] = x /\ q[2] = y /\ \A i \in 1 .. Len(s) : q[2 + i] = s[i]
  <2>1. 1 \in 1 .. Len(h) /\ 2 \in 1 .. Len(h)
    BY <1>2
  <2> QED
    BY <1>2, <1>4, <2>1
<1> QED
  BY <1>4, <1>5, Zenon DEF h

LEMMA WrittenOf ==
  ASSUME NEW of, Writes(of), NEW w \in DOMAIN of
  PROVE  /\ ContainerOf(w, DOMAIN of) /\ of[w] \in Seq(Seq(Chars)) /\ of[w] = DumpBy(w, of)
         /\ Members(w) \in Seq(DOMAIN of) /\ Len(Members(w)) \in Nat
<1>1. ContainerOf(w, DOMAIN of) /\ of[w] \in Seq(Seq(Chars)) /\ of[w] = DumpBy(w, of)
  BY DEF Writes, Closed
<1>2. Members(w) \in Seq(DOMAIN of)
  BY <1>1, MembersOf
<1> QED
  BY <1>1, <1>2

LEMMA CompoundLaid ==
  ASSUME NEW of, Writes(of), NEW w \in DOMAIN of, w.type \in Compound
  PROVE  \E a \in [1 .. Len(Members(w)) -> Nat] : Within(w, of, a)
<1>1. /\ ContainerOf(w, DOMAIN of) /\ of[w] \in Seq(Seq(Chars)) /\ of[w] = DumpBy(w, of)
      /\ Members(w) \in Seq(DOMAIN of) /\ Len(Members(w)) \in Nat
  BY WrittenOf
<1>2. PICK M \in Seq(DOMAIN of) : M = Members(w)
  BY <1>1
<1>3. PICK n \in Nat : n = Len(M)
  BY <1>1, <1>2
<1> DEFINE X == Seq(Chars) \cup {Comma, ColonMark, Opening(w), Closing(w)} \cup {Quoted(k) : k \in Strings}
           D == Dumps(w, of)
           H == Heads(w)
<1>4. Comma \in X /\ ColonMark \in X /\ Opening(w) \in X /\ Closing(w) \in X /\ \A k \in Strings : Quoted(k) \in X
  OBVIOUS
<1>5. Seq(Chars) \subseteq X
  OBVIOUS
<1> HIDE DEF X
<1>6. \A i \in 1 .. n : M[i] \in DOMAIN of /\ D[i] = of[M[i]]
  BY <1>2, <1>3 DEF Dumps
<1>7. \A i \in 1 .. n : D[i] \in Seq(X) /\ Len(D[i]) \in Nat
  <2>1. \A i \in 1 .. n : D[i] \in Seq(Seq(Chars))
    BY <1>6, WrittenOf
  <2>2. Seq(Seq(Chars)) \subseteq Seq(X)
    BY <1>5
  <2> HIDE DEF D
  <2>3. \A i \in 1 .. n : D[i] \in Seq(X)
    BY <2>1, <2>2
  <2> QED
    BY <2>3
<1> HIDE DEF D
<1>8. CASE w.type = "array"
  <2> DEFINE P == [i \in 1 .. n |-> D[i]]
  <2>1. of[w] = <<<<"[">>>> \o Listed([i \in DOMAIN w.elements |-> of[w.elements[i]]]) \o <<<<"]">>>>
    BY <1>1, <1>8 DEF DumpBy
  <2>2. w.elements = M
    BY <1>1, <1>2, <1>8, MembersOf
  <2>3. [i \in DOMAIN w.elements |-> of[w.elements[i]]] = P
    BY <1>3, <1>6, <2>2
  <2>4. of[w] = <<Opening(w)>> \o Listed(P) \o <<Closing(w)>>
    BY <1>8, <2>1, <2>3 DEF Opening, Closing
  <2>5. P \in Seq(Seq(X)) /\ n = Len(P) /\ \A i \in 1 .. n : P[i] = D[i]
    BY <1>7
  <2> HIDE DEF P
  <2>6. 0 \in Nat /\ \A i \in 1 .. n : /\ Len(D[i]) \in Nat /\ Len(P[i]) = 0 + Len(D[i])
                                       /\ \A x \in 1 .. 0 : P[i][x] = H[i][x]
                                       /\ \A x \in 1 .. Len(D[i]) : P[i][0 + x] = D[i][x]
    BY <1>7, <2>5
  <2>7. \E a \in [1 .. n -> Nat] :
          Laid(<<Opening(w)>> \o Listed(P) \o <<Closing(w)>>, Opening(w), Closing(w), n, D, H, 0, a)
    BY <1>4, <2>5, <2>6, LaidMeans, Zenon
  <2>8. Lead(w) = 0
    BY <1>8 DEF Lead
  <2> QED
    BY <1>2, <1>3, <2>4, <2>7, <2>8, Zenon DEF Within, D, H
<1>9. CASE w.type = "object"
  <2> DEFINE P == [i \in 1 .. n |-> <<Quoted(Keys(w)[i]), ColonMark>> \o D[i]]
  <2>1. of[w] = <<<<"{">>>> \o Listed([i \in DOMAIN Keys(w) |->
                     <<Quoted(Keys(w)[i]), <<":">>>> \o of[w.members[Keys(w)[i]]]]) \o <<<<"}">>>>
    BY Zenon, <1>1, <1>9 DEF DumpBy
  <2>2. /\ Len(M) = Cardinality(DOMAIN w.members)
        /\ Len(Keys(w)) = Cardinality(DOMAIN w.members)
        /\ \A i \in 1 .. Len(M) : M[i] = w.members[Keys(w)[i]]
    BY <1>1, <1>2, <1>9, MembersOf
  <2>3. KeyedBy(w, DOMAIN w.members)
    BY <1>1, <1>9, ContainerTypes
  <2>4. Keys(w) \in Seq(DOMAIN w.members) /\ DOMAIN w.members \subseteq Strings
    BY <2>3, KeysInOrder DEF KeyedBy
  <2>5. DOMAIN Keys(w) = 1 .. n /\ \A i \in 1 .. n : Keys(w)[i] \in Strings
    <3>1. DOMAIN Keys(w) = 1 .. Len(Keys(w)) /\ \A i \in 1 .. Len(Keys(w)) : Keys(w)[i] \in DOMAIN w.members
      BY <2>4
    <3> QED
      BY <1>3, <2>2, <2>4, <3>1
  <2>6. [i \in DOMAIN Keys(w) |-> <<Quoted(Keys(w)[i]), <<":">>>> \o of[w.members[Keys(w)[i]]]] = P
    <3>1. \A i \in 1 .. n : of[w.members[Keys(w)[i]]] = D[i]
      BY <1>3, <1>6, <2>2
    <3> QED
      BY SMTT(60), <2>5, <3>1 DEF ColonMark
  <2>7. of[w] = <<Opening(w)>> \o Listed(P) \o <<Closing(w)>>
    BY <1>9, <2>1, <2>6 DEF Opening, Closing
  <2>8. ASSUME NEW i \in 1 .. n
        PROVE  /\ P[i] \in Seq(X) /\ Len(P[i]) = 2 + Len(D[i])
               /\ P[i][1] = Quoted(Keys(w)[i]) /\ P[i][2] = ColonMark
               /\ \A x \in 1 .. Len(D[i]) : P[i][2 + x] = D[i][x]
    <3>1. Quoted(Keys(w)[i]) \in X
      BY <1>4, <2>5
    <3>2. D[i] \in Seq(X)
      BY <1>7
    <3>3. PICK x \in X : x = Quoted(Keys(w)[i])
      BY <3>1
    <3>4. PICK y \in X : y = ColonMark
      BY <1>4
    <3>5. PICK s \in Seq(X) : s = D[i]
      BY <3>2
    <3>6. /\ <<x, y>> \o s \in Seq(X) /\ Len(<<x, y>> \o s) = 2 + Len(s)
          /\ (<<x, y>> \o s)[1] = x /\ (<<x, y>> \o s)[2] = y
          /\ \A j \in 1 .. Len(s) : (<<x, y>> \o s)[2 + j] = s[j]
      BY TwoBefore
    <3>7. P[i] = <<x, y>> \o s
      BY <3>3, <3>4, <3>5
    <3> HIDE DEF P
    <3> QED
      BY <3>3, <3>4, <3>5, <3>6, <3>7, Zenon
  <2>9. P \in Seq(Seq(X)) /\ n = Len(P)
    <3>1. P \in [1 .. n -> Seq(X)]
      BY <2>8
    <3> QED
      BY <3>1
  <2> HIDE DEF P
  <2>10. \A i \in 1 .. n : H[i][1] = Quoted(Keys(w)[i]) /\ H[i][2] = ColonMark
    BY <1>2, <1>3 DEF Heads
  <2> HIDE DEF H
  <2>11. ASSUME NEW i \in 1 .. n
         PROVE  /\ Len(D[i]) \in Nat /\ Len(P[i]) = 2 + Len(D[i])
                /\ \A x \in 1 .. 2 : P[i][x] = H[i][x]
                /\ \A x \in 1 .. Len(D[i]) : P[i][2 + x] = D[i][x]
    <3>1. \A x \in 1 .. 2 : x = 1 \/ x = 2
      OBVIOUS
    <3>2. Len(D[i]) \in Nat /\ Len(P[i]) = 2 + Len(D[i])
      BY <1>7, <2>8, Zenon
    <3>3. P[i][1] = H[i][1] /\ P[i][2] = H[i][2]
      <4>1. H[i][1] = Quoted(Keys(w)[i]) /\ H[i][2] = ColonMark
        BY <2>10
      <4>2. P[i][1] = Quoted(Keys(w)[i]) /\ P[i][2] = ColonMark
        BY <2>8
      <4> QED
        BY <4>1, <4>2, Zenon
    <3>4. \A x \in 1 .. 2 : P[i][x] = H[i][x]
      BY <3>1, <3>3, Zenon
    <3>5. \A x \in 1 .. Len(D[i]) : P[i][2 + x] = D[i][x]
      BY <2>8, Zenon
    <3> QED
      BY <3>2, <3>4, <3>5, Zenon
  <2>12. 2 \in Nat
    OBVIOUS
  <2>13. \E a \in [1 .. n -> Nat] :
          Laid(<<Opening(w)>> \o Listed(P) \o <<Closing(w)>>, Opening(w), Closing(w), n, D, H, 2, a)
    BY <1>4, <2>9, <2>11, <2>12, LaidMeans, Zenon
  <2>14. Lead(w) = 2
    BY <1>9 DEF Lead
  <2> QED
    BY <1>2, <1>3, <2>7, <2>13, <2>14, Zenon DEF Within, D, H
<1> QED
  BY <1>8, <1>9 DEF Compound

-----------------------------------------------------------------------------
(* The tokens that are written: what the scanner finds in each of them.    *)
PunctuationToken(t) == \E c \in DOMAIN Punctuation : t = <<c>>
WordToken(t)        == \E c \in DOMAIN Literal : t = Literal[c].word
TextToken(t)        == \E s \in Strings : t = Quoted(s)
Readable(t) ==
    t \in Seq(Chars) /\ (PunctuationToken(t) \/ WordToken(t) \/ TextToken(t) \/ Numeral(t))

KindOf(t) ==
    IF t[1] \in DOMAIN Punctuation THEN Punctuation[t[1]]
    ELSE IF t[1] \in DOMAIN Literal THEN Literal[t[1]].type
    ELSE IF t[1] = "quote" THEN "value_string" ELSE "value_number"

(* A number is followed by one of these.                                   *)
EndMarks == {Comma, <<"]">>, <<"}">>}

AllReadable(T) ==
    \A j \in 1 .. Len(T) : /\ Readable(T[j])
                           /\ KindOf(T[j]) = "value_number" /\ j < Len(T) => T[j + 1] \in EndMarks

LEMMA MarksRead ==
  ASSUME NEW t, t \in {Comma, ColonMark, <<"{">>, <<"}">>, <<"[">>, <<"]">>}
  PROVE  PunctuationToken(t) /\ KindOf(t) # "value_number"
<1>1. PICK c \in {",", ":", "{", "}", "[", "]"} : t = <<c>>
  BY DEF Comma, ColonMark
<1>2. t[1] = c /\ c \in DOMAIN Punctuation /\ Punctuation[c] # "value_number"
  BY <1>1 DEF Punctuation
<1> QED
  BY <1>1, <1>2 DEF PunctuationToken, KindOf

LEMMA MarkKinds ==
  /\ KindOf(Comma) = "value_separator" /\ KindOf(ColonMark) = "name_separator"
  /\ KindOf(<<"{">>) = "begin_object" /\ KindOf(<<"}">>) = "end_object"
  /\ KindOf(<<"[">>) = "begin_array" /\ KindOf(<<"]">>) = "end_array"
  BY DEF KindOf, Comma, ColonMark, Punctuation

LEMMA WordKinds ==
  /\ WordToken(<<"n", "u", "l", "l">>) /\ KindOf(<<"n", "u", "l", "l">>) = "literal_null"
  /\ WordToken(<<"t", "r", "u", "e">>) /\ KindOf(<<"t", "r", "u", "e">>) = "literal_true"
  /\ WordToken(<<"f", "a", "l", "s", "e">>) /\ KindOf(<<"f", "a", "l", "s", "e">>) = "literal_false"
<1>1. /\ Literal["n"].word = <<"n", "u", "l", "l">> /\ Literal["n"].type = "literal_null"
      /\ Literal["t"].word = <<"t", "r", "u", "e">> /\ Literal["t"].type = "literal_true"
      /\ Literal["f"].word = <<"f", "a", "l", "s", "e">> /\ Literal["f"].type = "literal_false"
      /\ DOMAIN Literal = {"n", "t", "f"}
  BY DEF Literal
<1>2. /\ WordToken(<<"n", "u", "l", "l">>) /\ WordToken(<<"t", "r", "u", "e">>)
      /\ WordToken(<<"f", "a", "l", "s", "e">>)
  BY <1>1 DEF WordToken
<1>3. /\ <<"n", "u", "l", "l">>[1] = "n" /\ <<"t", "r", "u", "e">>[1] = "t"
      /\ <<"f", "a", "l", "s", "e">>[1] = "f"
  OBVIOUS
<1>4. \A c \in {"n", "t", "f"} : c \notin DOMAIN Punctuation
  BY DEF Punctuation
<1> QED
  BY <1>1, <1>2, <1>3, <1>4 DEF KindOf

LEMMA TextKind ==
  ASSUME NEW s \in Strings
  PROVE  TextToken(Quoted(s)) /\ KindOf(Quoted(s)) = "value_string"
<1>1. Quoted(s)[1] = "quote"
  BY QuotedMeans DEF Strings
<1>2. "quote" \notin DOMAIN Punctuation /\ "quote" \notin DOMAIN Literal
  BY DEF Punctuation, Literal
<1> QED
  BY <1>1, <1>2 DEF TextToken, KindOf

LEMMA NumberKind ==
  ASSUME NEW t, Numeral(t), Len(t) \in Nat
  PROVE  KindOf(t) = "value_number"
<1>1. t[1] = "-" \/ t[1] \in Digit
  <2>1. PICK s \in {0, 1}, i \in 1 .. Len(t) :
           (s = 1 => t[1] = "-") /\ s < i /\ (\A k \in s + 1 .. i : t[k] \in Digit)
    BY DEF Numeral
  <2>2. CASE s = 0
    <3>1. 1 \in s + 1 .. i
      BY <2>1, <2>2
    <3> QED
      BY <2>1, <3>1
  <2> QED
    BY <2>1, <2>2
<1>2. t[1] \notin DOMAIN Punctuation /\ t[1] \notin DOMAIN Literal /\ t[1] # "quote"
  BY <1>1 DEF Punctuation, Literal, Digit
<1> QED
  BY <1>2 DEF KindOf

(* A value without members is one token.                                   *)
LEMMA ScalarWritten ==
  ASSUME NEW of, Writes(of), NEW w \in DOMAIN of, w.type \notin Compound
  PROVE  /\ Len(of[w]) = 1 /\ Readable(of[w][1])
         /\ \/ w = Null /\ KindOf(of[w][1]) = "literal_null"
            \/ w = Boolean(TRUE) /\ KindOf(of[w][1]) = "literal_true"
            \/ w = Boolean(FALSE) /\ KindOf(of[w][1]) = "literal_false"
            \/ /\ w = String(w.string) /\ w.string \in Strings /\ of[w][1] = Quoted(w.string)
               /\ KindOf(of[w][1]) = "value_string"
            \/ /\ w = NumberOf(w.number) /\ Printed(w.number) = w.number /\ of[w][1] = w.number
               /\ KindOf(of[w][1]) = "value_number"
<1>1. ContainerOf(w, DOMAIN of) /\ of[w] \in Seq(Seq(Chars)) /\ of[w] = DumpBy(w, of)
  BY WrittenOf
<1>2. w.type = "number" => Numeral(w.number) /\ Printed(w.number) = w.number
  BY DEF Writes
<1>3. ASSUME NEW t, of[w] = <<t>>, WordToken(t) \/ TextToken(t) \/ Numeral(t)
      PROVE  Len(of[w]) = 1 /\ of[w][1] = t /\ Readable(t)
  <2>1. PICK T \in Seq(Seq(Chars)) : T = of[w]
    BY <1>1
  <2>2. Len(T) = 1 /\ T[1] = t
    BY <1>3, <2>1
  <2>3. T[1] \in Seq(Chars)
    BY <2>2
  <2> QED
    BY <1>3, <2>1, <2>2, <2>3 DEF Readable
<1>4. CASE w = Null
  <2>1. w.type = "null"
    BY <1>4 DEF Null
  <2>2. of[w] = <<<<"n", "u", "l", "l">>>>
    BY <1>1, <2>1 DEF DumpBy
  <2> QED
    BY <1>3, <1>4, <2>2, WordKinds
<1>5. CASE \E b \in BOOLEAN : w = Boolean(b)
  <2>1. CASE w = Boolean(TRUE)
    <3>1. w.type = "boolean" /\ w.boolean = TRUE
      BY <2>1 DEF Boolean
    <3>2. of[w] = <<<<"t", "r", "u", "e">>>>
      BY <1>1, <3>1 DEF DumpBy
    <3> QED
      BY <1>3, <2>1, <3>2, WordKinds
  <2>2. CASE w = Boolean(FALSE)
    <3>1. w.type = "boolean" /\ w.boolean = FALSE
      BY <2>2 DEF Boolean
    <3>2. of[w] = <<<<"f", "a", "l", "s", "e">>>>
      BY <1>1, <3>1 DEF DumpBy
    <3> QED
      BY <1>3, <2>2, <3>2, WordKinds
  <2> QED
    BY <1>5, <2>1, <2>2
<1>6. CASE w.type = "number" /\ w = NumberOf(w.number)
  <2>1. of[w] = <<w.number>>
    BY <1>1, <1>6 DEF DumpBy
  <2>2. Len(of[w]) = 1 /\ of[w][1] = w.number /\ Readable(w.number)
    BY <1>2, <1>3, <1>6, <2>1
  <2>3. w.number \in Seq(Chars)
    BY <2>2 DEF Readable
  <2>4. Len(w.number) \in Nat
    BY <2>3
  <2>5. KindOf(w.number) = "value_number"
    BY <1>2, <1>6, <2>4, NumberKind
  <2> QED
    BY <1>2, <1>6, <2>2, <2>5
<1>7. CASE w.type = "string" /\ w = String(w.string) /\ w.string \in Strings
  <2>1. of[w] = <<Quoted(w.string)>>
    BY <1>1, <1>7 DEF DumpBy
  <2>2. TextToken(Quoted(w.string)) /\ KindOf(Quoted(w.string)) = "value_string"
    BY <1>7, TextKind
  <2>3. Len(of[w]) = 1 /\ of[w][1] = Quoted(w.string) /\ Readable(Quoted(w.string))
    BY <1>3, <2>1, <2>2
  <2> QED
    BY <1>7, <2>2, <2>3
<1> QED
  BY <1>1, <1>4, <1>5, <1>6, <1>7 DEF ContainerOf, Compound

LEMMA WrittenReadable ==
  ASSUME NEW of, Writes(of)
  PROVE  \A w \in DOMAIN of : AllReadable(of[w])
<1> DEFINE D == {Len(of[w]) : w \in {u \in DOMAIN of : ~AllReadable(of[u])}}
<1> SUFFICES ASSUME D # {} PROVE FALSE
  BY Zenon
<1>1. D \in SUBSET Nat
  <2>1. \A w \in DOMAIN of : of[w] \in Seq(Seq(Chars))
    BY WrittenOf
  <2> QED
    BY <2>1
<1> HIDE DEF D
<1>2. PICK d \in D : \A e \in D : d <= e
  BY <1>1, LeastNumber
<1>3. PICK w \in DOMAIN of : d = Len(of[w]) /\ ~AllReadable(of[w])
  BY DEF D
<1>4. w.type \in Compound
  <2> SUFFICES ASSUME w.type \notin Compound PROVE FALSE
    OBVIOUS
  <2>1. Len(of[w]) = 1 /\ Readable(of[w][1])
    BY ScalarWritten
  <2>2. \A j \in 1 .. Len(of[w]) : j = 1 /\ ~(j < Len(of[w]))
    BY <2>1
  <2> QED
    BY <1>3, <2>1, <2>2 DEF AllReadable
<1>5. PICK n \in Nat : n = Len(Members(w))
  BY WrittenOf
<1>6. PICK a \in [1 .. n -> Nat] : Within(w, of, a)
  BY <1>4, <1>5, CompoundLaid
<1>7. PICK t \in Seq(Seq(Chars)) : t = of[w]
  BY WrittenOf
<1>8. PICK c \in {0, 2} : c = Lead(w)
  BY DEF Lead
<1>9. PICK m : m = Members(w) /\ \A i \in 1 .. n : m[i] \in DOMAIN of
  <2>1. Members(w) \in Seq(DOMAIN of)
    BY WrittenOf
  <2> QED
    BY <1>5, <2>1
<1>10. \A i \in 1 .. n : of[m[i]] \in Seq(Seq(Chars)) /\ Len(of[m[i]]) \in Nat
  BY <1>9, WrittenOf
<1>11. PICK q \in [1 .. n -> Nat] : \A i \in 1 .. n : q[i] = Len(of[m[i]])
  <2> DEFINE f == [i \in 1 .. n |-> Len(of[m[i]])]
  <2>1. f \in [1 .. n -> Nat]
    BY <1>10
  <2> QED
    BY <2>1
<1>12. /\ Len(t) >= 2 /\ t[1] = Opening(w) /\ t[Len(t)] = Closing(w)
       /\ n > 0 => Len(t) = a[n] + q[n] + 1
       /\ \A i \in 1 .. n - 1 : t[a[i] + q[i] + 1] = Comma
       /\ \A i \in 1 .. n : /\ a[i] >= 1 + c /\ a[i] + q[i] < Len(t)
                            /\ \A x \in 1 .. q[i] : t[a[i] + x] = of[m[i]][x]
                            /\ \A x \in 1 .. c : t[a[i] - c + x] = Heads(w)[i][x]
       /\ \A y \in 1 .. Len(t) : \/ y = 1 \/ y = Len(t)
                                 \/ \E i \in 1 .. n : \/ i < n /\ y = a[i] + q[i] + 1
                                                      \/ y \in a[i] - c + 1 .. a[i]
                                                      \/ y \in a[i] + 1 .. a[i] + q[i]
  <2>1. \A i \in 1 .. n : Dumps(w, of)[i] = of[m[i]]
    BY <1>5, <1>9 DEF Dumps
  <2>2. PICK Q : Q = Dumps(w, of)
    OBVIOUS
  <2>3. PICK H : H = Heads(w)
    OBVIOUS
  <2>4. Laid(t, Opening(w), Closing(w), n, Q, H, c, a)
    BY <1>5, <1>6, <1>7, <1>8, <2>2, <2>3 DEF Within
  <2>5. \A i \in 1 .. n : Q[i] = of[m[i]] /\ Len(Q[i]) = q[i]
    BY <1>11, <2>1, <2>2
  <2>6. Len(t) >= 2 /\ t[1] = Opening(w) /\ t[Len(t)] = Closing(w)
    BY <2>4 DEF Laid
  <2>7. n > 0 => Len(t) = a[n] + q[n] + 1
    <3>1. n > 0 => n \in 1 .. n
      OBVIOUS
    <3>2. n > 0 => Len(t) = a[n] + Len(Q[n]) + 1
      BY <2>4 DEF Laid
    <3> QED
      BY <2>5, <3>1, <3>2
  <2>8. \A i \in 1 .. n - 1 : t[a[i] + q[i] + 1] = Comma
    <3>1. \A i \in 1 .. n - 1 : i \in 1 .. n
      OBVIOUS
    <3>2. \A i \in 1 .. n - 1 : t[a[i] + Len(Q[i]) + 1] = Comma
      BY <2>4 DEF Laid
    <3> QED
      BY <2>5, <3>1, <3>2
  <2>9. \A i \in 1 .. n : /\ a[i] >= 1 + c /\ a[i] + q[i] < Len(t)
                          /\ \A x \in 1 .. q[i] : t[a[i] + x] = of[m[i]][x]
                          /\ \A x \in 1 .. c : t[a[i] - c + x] = H[i][x]
    <3>1. \A i \in 1 .. n : /\ a[i] >= 1 + c /\ a[i] + Len(Q[i]) < Len(t)
                            /\ \A x \in 1 .. Len(Q[i]) : t[a[i] + x] = Q[i][x]
                            /\ \A x \in 1 .. c : t[a[i] - c + x] = H[i][x]
      BY <2>4 DEF Laid
    <3> TAKE i \in 1 .. n
    <3>2. Q[i] = of[m[i]] /\ Len(Q[i]) = q[i]
      BY <2>5
    <3>3. a[i] >= 1 + c /\ a[i] + q[i] < Len(t)
      BY <3>1, <3>2
    <3>6. \A x \in 1 .. Len(Q[i]) : t[a[i] + x] = Q[i][x]
      BY <3>1
    <3>4. \A x \in 1 .. q[i] : t[a[i] + x] = of[m[i]][x]
      BY <3>2, <3>6
    <3>5. \A x \in 1 .. c : t[a[i] - c + x] = H[i][x]
      BY <3>1
    <3> QED
      BY <3>3, <3>4, <3>5
  <2>10. ASSUME NEW y \in 1 .. Len(t), y # 1, y # Len(t)
         PROVE  \E i \in 1 .. n : \/ i < n /\ y = a[i] + q[i] + 1
                                  \/ y \in a[i] - c + 1 .. a[i]
                                  \/ y \in a[i] + 1 .. a[i] + q[i]
    <3>1. PICK i \in 1 .. n : \/ i < n /\ y = a[i] + Len(Q[i]) + 1
                              \/ y \in a[i] - c + 1 .. a[i]
                              \/ y \in a[i] + 1 .. a[i] + Len(Q[i])
      BY <2>4, <2>10 DEF Laid
    <3> QED
      BY <2>5, <3>1
  <2> QED
    BY <2>3, <2>6, <2>7, <2>8, <2>9, <2>10
<1>13. ASSUME NEW y \in 1 .. Len(t)
       PROVE  /\ Readable(t[y])
              /\ KindOf(t[y]) = "value_number" /\ y < Len(t) => t[y + 1] \in EndMarks
  <2>1. t[y] \in Seq(Chars)
    OBVIOUS
  <2>2. ASSUME t[y] \in {Comma, ColonMark, <<"{">>, <<"}">>, <<"[">>, <<"]">>}
        PROVE  Readable(t[y]) /\ KindOf(t[y]) # "value_number"
    BY <2>1, <2>2, MarksRead DEF Readable
  <2>3. CASE y = 1 \/ y = Len(t)
    BY <1>12, <2>2, <2>3 DEF Opening, Closing
  <2>4. ASSUME NEW i \in 1 .. n, i < n, y = a[i] + q[i] + 1 PROVE t[y] = Comma
    <3>1. i \in 1 .. n - 1
      BY <2>4
    <3> QED
      BY <1>12, <2>4, <3>1
  <2>5. ASSUME NEW i \in 1 .. n, y \in a[i] - c + 1 .. a[i]
        PROVE  Readable(t[y]) /\ KindOf(t[y]) # "value_number"
    <3>1. PICK x \in 1 .. c : y = a[i] - c + x
      <4>1. y - (a[i] - c) \in 1 .. c /\ y = a[i] - c + (y - (a[i] - c))
        BY SMTT(60), <2>5
      <4> QED
        BY <4>1
    <3>2. c = 2 /\ (x = 1 \/ x = 2)
      BY <3>1
    <3>3. t[y] = Heads(w)[i][x]
      BY <1>12, <3>1
    <3>4. Heads(w)[i] = <<Quoted(Keys(w)[i]), ColonMark>>
      BY <1>5 DEF Heads
    <3>5. CASE x = 1
      <4>1. t[y] = Quoted(Keys(w)[i])
        BY <3>3, <3>4, <3>5
      <4>2. w.type = "object"
        BY <1>8, <3>2 DEF Lead
      <4>3. /\ Len(Keys(w)) = n /\ Keys(w) \in Seq(DOMAIN w.members) /\ DOMAIN w.members \subseteq Strings
        <5>1. ContainerOf(w, DOMAIN of)
          BY WrittenOf
        <5>2. Len(Members(w)) = Cardinality(DOMAIN w.members) /\ Len(Keys(w)) = Cardinality(DOMAIN w.members)
          BY <4>2, <5>1, MembersOf
        <5>3. KeyedBy(w, DOMAIN w.members)
          BY <4>2, <5>1, ContainerTypes
        <5> QED
          BY <1>5, <5>2, <5>3, KeysInOrder DEF KeyedBy
      <4>4. Keys(w)[i] \in DOMAIN w.members
        BY <4>3
      <4>5. Keys(w)[i] \in Strings
        BY <4>3, <4>4
      <4>6. TextToken(t[y]) /\ KindOf(t[y]) = "value_string"
        BY <4>1, <4>5, TextKind
      <4> QED
        BY <2>1, <4>6 DEF Readable
    <3>6. CASE x = 2
      <4>1. t[y] = ColonMark
        BY <3>3, <3>4, <3>6
      <4> QED
        BY <2>2, <4>1
    <3> QED
      BY <3>2, <3>5, <3>6
  <2>6. ASSUME NEW i \in 1 .. n, y \in a[i] + 1 .. a[i] + q[i]
        PROVE  /\ Readable(t[y])
               /\ KindOf(t[y]) = "value_number" /\ y < Len(t) => t[y + 1] \in EndMarks
    <3>1. PICK x \in 1 .. q[i] : y = a[i] + x
      <4>1. y - a[i] \in 1 .. q[i] /\ y = a[i] + (y - a[i])
        BY <2>6
      <4> QED
        BY <4>1
    <3>2. t[y] = of[m[i]][x]
      BY <1>12, <3>1
    <3>3. AllReadable(of[m[i]])
      <4> SUFFICES ASSUME ~AllReadable(of[m[i]]) PROVE FALSE
        OBVIOUS
      <4>1. Len(of[m[i]]) \in D
        BY <1>9 DEF D
      <4>2. a[i] >= 1 + c /\ a[i] + q[i] < Len(t)
        BY <1>12
      <4>3. q[i] < Len(t)
        BY SMTT(60), <4>2
      <4>4. d <= q[i] /\ d = Len(t)
        BY <1>2, <1>3, <1>7, <1>11, <4>1
      <4> QED
        BY <4>3, <4>4
    <3>4. /\ Readable(of[m[i]][x])
          /\ KindOf(of[m[i]][x]) = "value_number" /\ x < q[i] => of[m[i]][x + 1] \in EndMarks
      BY <1>11, <3>1, <3>3 DEF AllReadable
    <3>5. CASE x < q[i]
      <4>1. x + 1 \in 1 .. q[i] /\ y + 1 = a[i] + (x + 1)
        BY <3>1, <3>5
      <4>2. \A z \in 1 .. q[i] : t[a[i] + z] = of[m[i]][z]
        BY <1>12
      <4>3. t[a[i] + (x + 1)] = of[m[i]][x + 1]
        BY <4>1, <4>2
      <4>4. t[y + 1] = of[m[i]][x + 1]
        BY <4>1, <4>3
      <4> QED
        BY <3>2, <3>4, <3>5, <4>4
    <3>6. CASE ~(x < q[i])
      <4>1. x = q[i] /\ y + 1 = a[i] + q[i] + 1
        BY <3>1, <3>6
      <4>2. CASE i < n
        <5>1. i \in 1 .. n - 1
          BY <4>2
        <5>2. t[y + 1] = Comma
          BY <1>12, <4>1, <5>1
        <5> QED
          BY <3>2, <3>4, <5>2 DEF EndMarks
      <4>3. CASE ~(i < n)
        <5>1. i = n /\ n > 0
          BY <4>3
        <5>2. t[y + 1] = Closing(w)
          BY <1>12, <4>1, <5>1
        <5> QED
          BY <3>2, <3>4, <5>2 DEF EndMarks, Closing
      <4> QED
        BY <4>2, <4>3
    <3> QED
      BY <3>5, <3>6
  <2>7. CASE ~(y = 1 \/ y = Len(t))
    <3>1. PICK i \in 1 .. n : \/ i < n /\ y = a[i] + q[i] + 1
                              \/ y \in a[i] - c + 1 .. a[i]
                              \/ y \in a[i] + 1 .. a[i] + q[i]
      BY <1>12, <2>7
    <3> QED
      BY <2>2, <2>4, <2>5, <2>6, <3>1
  <2> QED
    BY <2>3, <2>7
<1> QED
  BY <1>3, <1>7, <1>13 DEF AllReadable

-----------------------------------------------------------------------------
(* A text that is read: the tokens come one after the other.               *)
Legible(lines, tokens, chars, p, e) ==
    /\ lines \in Seq(Seq(Chars)) /\ lines # <<>>
    /\ Len(lines) = 1 \/ \A i \in 1 .. Len(lines) : lines[i] # <<>>
    /\ tokens \in Seq(Seq(Chars)) /\ AllReadable(tokens)
    /\ chars \in Seq(Chars) /\ p \in [1 .. Len(tokens) + 1 -> Nat] /\ e \in [0 .. Len(lines) -> Nat]
    /\ SpelledAt(lines, tokens, chars, p, e)

(* The buffer has the characters of the first k lines.                     *)
BufferAt(lines, chars, e, k) ==
    /\ Len(buffer) = e[k] /\ \A x \in 1 .. e[k] : buffer[x] = chars[x]
    /\ Len(unread) = Len(lines) - k /\ \A x \in 1 .. Len(unread) : unread[x] = lines[k + x]
    /\ failed => k = Len(lines)
    /\ limit = e[k] \/ limit = e[k] + 1

SourceAt(lines, chars, e) ==
    buffer \in Seq(Chars) /\ unread \in Seq(Seq(Chars)) /\ \E k \in 1 .. Len(lines) : BufferAt(lines, chars, e, k)

LEMMA ReadableLength ==
  ASSUME NEW t, Readable(t)
  PROVE  Len(t) \in Nat \ {0} /\ t[1] \in DOMAIN Punctuation \cup DOMAIN Literal \cup Digit \cup {"-", "quote"}
<1>1. t \in Seq(Chars)
  BY DEF Readable
<1>2. Len(t) \in Nat
  BY <1>1
<1>3. CASE PunctuationToken(t)
  BY <1>3 DEF PunctuationToken
<1>4. CASE WordToken(t)
  <2>1. PICK c \in {"n", "t", "f"} : t = Literal[c].word
    BY <1>4 DEF WordToken, Literal
  <2>2. /\ Literal["n"].word = <<"n", "u", "l", "l">> /\ Literal["t"].word = <<"t", "r", "u", "e">>
        /\ Literal["f"].word = <<"f", "a", "l", "s", "e">>
    BY DEF Literal
  <2>3. t[1] = c /\ Len(t) # 0
    BY <2>1, <2>2
  <2> QED
    BY <1>2, <2>3 DEF Literal
<1>5. CASE TextToken(t)
  <2>1. PICK s \in Strings : t = Quoted(s)
    BY <1>5 DEF TextToken
  <2>2. PICK X : \E r \in Seq(X) : Len(t) = Len(r) + 2 /\ t[1] = "quote"
    BY <2>1, QuotedMeans DEF Strings
  <2> QED
    BY <1>2, <2>2
<1>6. CASE Numeral(t)
  <2>1. PICK s \in {0, 1}, i \in 1 .. Len(t) :
           (s = 1 => t[1] = "-") /\ s < i /\ (\A k \in s + 1 .. i : t[k] \in Digit)
    BY <1>6 DEF Numeral
  <2>2. s = 0 => 1 \in s + 1 .. i
    BY <2>1
  <2>3. t[1] = "-" \/ t[1] \in Digit
    BY <2>1, <2>2
  <2> QED
    BY <1>2, <2>1, <2>3
<1> QED
  BY <1>3, <1>4, <1>5, <1>6 DEF Readable

(* Where the tokens are among the characters.                              *)
LEMMA PlacesOf ==
  ASSUME NEW lines, NEW tokens, NEW chars, NEW p, NEW e, Legible(lines, tokens, chars, p, e),
         NEW n \in Nat, n = Len(tokens)
  PROVE  /\ Len(chars) \in Nat /\ p[n + 1] = Len(chars) + 1
         /\ Behind(tokens, p, 0) = 1
         /\ \A j \in 0 .. n : /\ Behind(tokens, p, j) \in Nat \ {0} /\ p[j + 1] \in Nat
                              /\ Behind(tokens, p, j) <= p[j + 1] /\ p[j + 1] <= Len(chars) + 1
                              /\ \A x \in Behind(tokens, p, j) .. p[j + 1] - 1 : chars[x] \in Blank
         /\ \A j \in 1 .. n : /\ Len(tokens[j]) \in Nat \ {0} /\ p[j] \in Nat
                              /\ Behind(tokens, p, j) = p[j] + Len(tokens[j])
                              /\ \A x \in 1 .. Len(tokens[j]) : chars[p[j] + x - 1] = tokens[j][x]
<1>1. Len(chars) \in Nat /\ Placed(tokens, chars, p) /\ p \in [1 .. n + 1 -> Nat] /\ AllReadable(tokens)
  BY DEF Legible, SpelledAt
<1>2. p[n + 1] = Len(chars) + 1 /\ \A j \in 1 .. n + 1 : p[j] \in Nat
  BY <1>1 DEF Placed
<1>3. ASSUME NEW j \in 1 .. n
      PROVE  /\ Len(tokens[j]) \in Nat \ {0} /\ p[j] \in Nat /\ p[j] >= 1
             /\ Behind(tokens, p, j) = p[j] + Len(tokens[j])
             /\ \A x \in 1 .. Len(tokens[j]) : chars[p[j] + x - 1] = tokens[j][x]
  <2>1. Readable(tokens[j])
    BY <1>1 DEF AllReadable
  <2>2. j # 0 /\ j \in 1 .. n + 1
    OBVIOUS
  <2>3. p[j] >= 1 /\ \A x \in 1 .. Len(tokens[j]) : chars[p[j] + x - 1] = tokens[j][x]
    BY <1>1 DEF Placed
  <2> QED
    BY <1>2, <2>1, <2>2, <2>3, ReadableLength DEF Behind
<1>4. ASSUME NEW j \in 0 .. n
      PROVE  /\ Behind(tokens, p, j) \in Nat \ {0} /\ p[j + 1] \in Nat
             /\ Behind(tokens, p, j) <= p[j + 1]
             /\ \A x \in Behind(tokens, p, j) .. p[j + 1] - 1 : chars[x] \in Blank
  <2>1. p[j + 1] \in Nat
    BY <1>2
  <2>2. /\ Behind(tokens, p, j) <= p[j + 1]
        /\ \A x \in Behind(tokens, p, j) .. p[j + 1] - 1 : chars[x] \in Blank
    BY <1>1 DEF Placed
  <2>3. Behind(tokens, p, j) \in Nat \ {0}
    <3>1. CASE j = 0
      BY <3>1 DEF Behind
    <3>2. CASE j # 0
      <4>1. j \in 1 .. n
        BY <3>2
      <4>2. PICK l \in Nat \ {0} : l = Len(tokens[j])
        BY <1>3, <4>1
      <4>3. p[j] \in Nat /\ Behind(tokens, p, j) = p[j] + l
        BY <1>3, <4>1, <4>2
      <4> QED
        BY <4>3
    <3> QED
      BY <3>1, <3>2
  <2> QED
    BY <2>1, <2>2, <2>3
<1>5. \A j \in 0 .. n : p[j + 1] <= Len(chars) + 1
  <2> DEFINE D == {m \in Nat : m <= n /\ ~(p[n - m + 1] <= Len(chars) + 1)}
  <2>1. D = {}
    <3> SUFFICES ASSUME D # {} PROVE FALSE
      OBVIOUS
    <3>1. D \in SUBSET Nat
      OBVIOUS
    <3> HIDE DEF D
    <3>2. PICK d \in D : \A f \in D : d <= f
      BY <3>1, LeastNumber
    <3>3. d \in Nat /\ d <= n /\ ~(p[n - d + 1] <= Len(chars) + 1)
      BY DEF D
    <3>4. d # 0
      <4>1. n - 0 + 1 = n + 1 /\ Len(chars) + 1 <= Len(chars) + 1
        BY <1>1
      <4> QED
        BY <1>2, <3>3, <4>1
    <3>5. d - 1 \in Nat /\ d - 1 <= n /\ ~(d <= d - 1)
      BY <3>3, <3>4
    <3>6. p[n - (d - 1) + 1] <= Len(chars) + 1
      BY <3>2, <3>5 DEF D
    <3>7. PICK j \in 1 .. n : j = n - d + 1
      BY <3>3, <3>4
    <3>8. n - (d - 1) + 1 = j + 1 /\ j \in 0 .. n
      BY <3>3, <3>7
    <3>9. PICK l \in Nat \ {0} : l = Len(tokens[j])
      BY <1>3
    <3>10. p[j] \in Nat /\ p[j + 1] \in Nat /\ p[j] + l <= p[j + 1]
      BY <1>3, <1>4, <3>8, <3>9
    <3>11. p[j] <= Len(chars) + 1
      BY <1>1, <3>6, <3>8, <3>10
    <3> QED
      BY <3>3, <3>7, <3>11
  <2>2. ASSUME NEW j \in 0 .. n PROVE p[j + 1] <= Len(chars) + 1
    <3>1. n - j \in Nat /\ n - j <= n /\ n - (n - j) + 1 = j + 1
      OBVIOUS
    <3> QED
      BY <2>1, <3>1
  <2> QED
    BY <2>2
<1> QED
  BY <1>1, <1>2, <1>3, <1>4, <1>5 DEF Behind

(* No line ends behind the last character.                                 *)
LEMMA LinesWithin ==
  ASSUME NEW lines, NEW tokens, NEW chars, NEW p, NEW e, Legible(lines, tokens, chars, p, e),
         NEW k \in 0 .. Len(lines)
  PROVE  e[k] \in Nat /\ e[k] <= Len(chars)
<1>1. PICK m \in Nat : m = Len(lines) /\ e \in [0 .. m -> Nat]
  <2>1. lines \in Seq(Seq(Chars)) /\ e \in [0 .. Len(lines) -> Nat]
    BY DEF Legible
  <2>2. Len(lines) \in Nat
    BY <2>1
  <2> QED
    BY <2>1, <2>2
<1>2. Divided(lines, chars, e) /\ Len(chars) \in Nat /\ k \in 0 .. m
  BY <1>1 DEF Legible, SpelledAt
<1>3. e[k] <= Len(chars)
  <2> DEFINE D == {x \in Nat : x <= m /\ ~(e[m - x] <= Len(chars))}
  <2>1. D = {}
    <3> SUFFICES ASSUME D # {} PROVE FALSE
      OBVIOUS
    <3>1. D \in SUBSET Nat
      OBVIOUS
    <3> HIDE DEF D
    <3>2. PICK d \in D : \A f \in D : d <= f
      BY <3>1, LeastNumber
    <3>3. d \in Nat /\ d <= m /\ ~(e[m - d] <= Len(chars))
      BY DEF D
    <3>4. d # 0
      BY <1>1, <1>2, <3>3 DEF Divided
    <3>5. d - 1 \in Nat /\ d - 1 <= m /\ ~(d <= d - 1)
      BY <3>3, <3>4
    <3>6. e[m - (d - 1)] <= Len(chars)
      BY <3>2, <3>5 DEF D
    <3>7. PICK j \in 1 .. m : j = m - (d - 1)
      BY <3>3, <3>4
    <3>8. j - 1 = m - d /\ j \in 0 .. m /\ j - 1 \in 0 .. m
      BY <3>3, <3>7
    <3>9. e[j] \in Nat /\ e[j - 1] \in Nat /\ e[j - 1] <= e[j]
      BY <1>1, <1>2, <3>8 DEF Divided
    <3> QED
      BY <1>2, <3>3, <3>6, <3>7, <3>8, <3>9
  <2>2. m - k \in Nat /\ m - k <= m /\ m - (m - k) = k
    BY <1>2
  <2> QED
    BY <2>1, <2>2
<1> QED
  BY <1>1, <1>2, <1>3

(* What is in the buffer is what was written.                              *)
LEMMA BufferHas ==
  ASSUME NEW lines, NEW tokens, NEW chars, NEW p, NEW e, Legible(lines, tokens, chars, p, e),
         SourceAt(lines, chars, e)
  PROVE  /\ Len(buffer) \in Nat /\ Len(buffer) <= Len(chars)
         /\ \A x \in Nat : /\ x \in 1 .. Len(buffer) => /\ Char(x) = chars[x] /\ Char(x) # NUL
                                                        /\ Char(x) = buffer[x]
                           /\ x > Len(buffer) => Char(x) = NUL
         /\ \A j \in 1 .. Len(tokens) : p[j] <= Len(buffer) => Behind(tokens, p, j) <= Len(buffer) + 1
<1>1. PICK k \in 1 .. Len(lines) : BufferAt(lines, chars, e, k)
  BY DEF SourceAt
<1>2. buffer \in Seq(Chars) /\ Len(buffer) \in Nat /\ Len(buffer) = e[k] /\ \A x \in 1 .. Len(buffer) : buffer[x] = chars[x]
  BY <1>1 DEF SourceAt, BufferAt
<1>3. PICK m \in Nat : m = Len(lines) /\ e \in [0 .. m -> Nat]
  <2>1. lines \in Seq(Seq(Chars)) /\ e \in [0 .. Len(lines) -> Nat]
    BY DEF Legible
  <2>2. Len(lines) \in Nat
    BY <2>1
  <2> QED
    BY <2>1, <2>2
<1>4. Divided(lines, chars, e) /\ Unbroken(tokens, p, e) /\ Len(chars) \in Nat
  BY DEF Legible, SpelledAt
<1>5. e[k] <= Len(chars)
  BY <1>3, LinesWithin
<1>6. ASSUME NEW x \in Nat
      PROVE  /\ x \in 1 .. Len(buffer) => Char(x) = chars[x] /\ Char(x) # NUL /\ Char(x) = buffer[x]
             /\ x > Len(buffer) => Char(x) = NUL
  <2>1. CASE x \in 1 .. Len(buffer)
    <3>1. buffer[x] \in Chars
      BY <1>2, <2>1
    <3> QED
      BY <1>2, <2>1, <3>1, LexerAssumption DEF Char, NUL
  <2>2. CASE x > Len(buffer)
    BY <1>2, <2>2 DEF Char
  <2> QED
    BY <1>2, <2>1, <2>2
<1>7. ASSUME NEW j \in 1 .. Len(tokens), p[j] <= Len(buffer) PROVE Behind(tokens, p, j) <= Len(buffer) + 1
  <2>1. k \in DOMAIN e
    BY <1>3
  <2> QED
    BY <1>2, <1>4, <1>7, <2>1 DEF Unbroken
<1> QED
  BY <1>2, <1>5, <1>6, <1>7

(* yyfill: what is wanted comes, unless there is no more.                  *)
LEMMA RefillReads ==
  ASSUME NEW lines, NEW tokens, NEW chars, NEW p, NEW e, Legible(lines, tokens, chars, p, e),
         SourceAt(lines, chars, e), NEW need \in Nat, NEW at_ \in Nat, at_ <= Len(buffer) + 1,
         Refill(need, at_)
  PROVE  /\ SourceAt(lines, chars, e)' /\ Len(buffer') \in Nat /\ Len(buffer) <= Len(buffer')
         /\ need >= 1 => at_ <= Len(buffer') \/ Len(buffer') = Len(chars)
<1>1. PICK k \in 1 .. Len(lines) : BufferAt(lines, chars, e, k)
  BY DEF SourceAt
<1>2. buffer \in Seq(Chars) /\ unread \in Seq(Seq(Chars)) /\ Len(buffer) \in Nat /\ Len(unread) \in Nat
  BY DEF SourceAt
<1>3. PICK m \in Nat : m = Len(lines) /\ e \in [0 .. m -> Nat]
  <2>1. lines \in Seq(Seq(Chars)) /\ e \in [0 .. Len(lines) -> Nat]
    BY DEF Legible
  <2>2. Len(lines) \in Nat
    BY <2>1
  <2> QED
    BY <2>1, <2>2
<1>4. Divided(lines, chars, e) /\ Len(chars) \in Nat /\ (m = 1 \/ \A i \in 1 .. m : lines[i] # <<>>)
  BY <1>3 DEF Legible, SpelledAt
<1>5. k \in 1 .. m /\ k \in 0 .. m /\ e[k] \in Nat /\ Len(buffer) = e[k] /\ Len(unread) = m - k
  BY <1>1, <1>3 DEF BufferAt
<1>6. e[m] = Len(chars)
  BY <1>3, <1>4 DEF Divided
<1>7. CASE UNCHANGED source
  <2>1. SourceAt(lines, chars, e)'
    BY <1>7 DEF source, SourceAt, BufferAt
  <2>2. buffer' = buffer
    BY <1>7 DEF source
  <2>3. CASE failed
    <3>1. k = m
      BY <1>1, <1>3, <2>3 DEF BufferAt
    <3> QED
      BY <1>2, <1>5, <1>6, <2>1, <2>2, <3>1
  <2>4. CASE ~failed
    <3>1. limit - at_ >= need \/ limit' = Len(buffer')
      BY <2>4 DEF Refill
    <3>2. limit = e[k] \/ limit = e[k] + 1
      BY <1>1 DEF BufferAt
    <3>3. CASE limit - at_ >= need
      <4>1. need >= 1 => at_ <= Len(buffer)
        BY <1>5, <3>2, <3>3
      <4> QED
        BY <1>2, <2>1, <2>2, <4>1
    <3>4. CASE ~(limit - at_ >= need)
      <4>1. unread = <<>>
        <5> SUFFICES ASSUME unread # <<>> PROVE FALSE
          OBVIOUS
        <5>1. unread' = Tail(unread) /\ unread' = unread
          BY <1>7, <2>4, <3>4 DEF Refill, source
        <5>2. Len(Tail(unread)) = Len(unread) - 1
          BY <1>2, HeadOf
        <5> QED
          BY <1>2, <5>1, <5>2
      <4>2. failed' /\ failed' = failed
        BY <1>7, <2>4, <3>4, <4>1 DEF Refill, source
      <4> QED
        BY <2>4, <4>2
    <3> QED
      BY <3>3, <3>4
  <2> QED
    BY <2>3, <2>4
<1>8. CASE ~(UNCHANGED source)
  <2>1. ~failed /\ limit' = Len(buffer')
    BY <1>8 DEF Refill
  <2>2. CASE unread = <<>>
    <3>1. failed' /\ buffer' = buffer /\ unread' = unread
      BY <1>8, <2>2 DEF Refill
    <3>2. k = m
      BY <1>2, <1>5, <2>2
    <3>3. BufferAt(lines, chars, e, k)'
      BY <1>1, <1>3, <1>5, <2>1, <3>1, <3>2 DEF BufferAt
    <3>4. SourceAt(lines, chars, e)'
      BY <1>2, <3>1, <3>3 DEF SourceAt
    <3> QED
      BY <1>2, <1>5, <1>6, <3>1, <3>2, <3>4
  <2>3. CASE unread # <<>>
    <3>1. buffer' = buffer \o Head(unread) /\ unread' = Tail(unread) /\ failed' = failed
      BY <1>8, <2>3 DEF Refill
    <3>2. /\ Head(unread) \in Seq(Chars) /\ Head(unread) = unread[1] /\ unread' \in Seq(Seq(Chars))
          /\ Len(unread') = Len(unread) - 1 /\ Len(unread) \in Nat \ {0}
          /\ \A i \in 1 .. Len(unread) - 1 : unread'[i] = unread[i + 1]
      BY <1>2, <2>3, <3>1, HeadOf
    <3>3. k + 1 \in 1 .. m /\ k + 1 \in 0 .. m /\ m # 1
      BY <1>5, <3>2
    <3>4. PICK l \in Seq(Chars) : l = Head(unread) /\ l = lines[k + 1]
      <4>1. unread[1] = lines[k + 1]
        BY <1>1, <3>2 DEF BufferAt
      <4> QED
        BY <3>2, <4>1
    <3>5. e[k + 1] \in Nat /\ e[k] <= e[k + 1] /\ l = SubSeq(chars, e[k] + 1, e[k + 1])
      <4>1. e[k + 1 - 1] <= e[k + 1] /\ lines[k + 1] = SubSeq(chars, e[k + 1 - 1] + 1, e[k + 1])
        BY <1>3, <1>4, <3>3 DEF Divided
      <4>2. k + 1 - 1 = k
        BY <1>5
      <4> QED
        BY <1>3, <3>3, <3>4, <4>1, <4>2
    <3>6. e[k + 1] <= Len(chars)
      <4> DEFINE D == {x \in Nat : x <= m /\ ~(e[m - x] <= Len(chars))}
      <4>1. D = {}
        <5> SUFFICES ASSUME D # {} PROVE FALSE
          OBVIOUS
        <5>1. D \in SUBSET Nat
          OBVIOUS
        <5> HIDE DEF D
        <5>2. PICK d \in D : \A f \in D : d <= f
          BY <5>1, LeastNumber
        <5>3. d \in Nat /\ d <= m /\ ~(e[m - d] <= Len(chars))
          BY DEF D
        <5>4. d # 0
          BY <1>3, <1>4, <5>3 DEF Divided
        <5>5. d - 1 \in Nat /\ d - 1 <= m /\ ~(d <= d - 1)
          BY <5>3, <5>4
        <5>6. e[m - (d - 1)] <= Len(chars)
          BY <5>2, <5>5 DEF D
        <5>7. PICK j \in 1 .. m : j = m - (d - 1)
          BY <5>3, <5>4
        <5>8. j - 1 = m - d /\ j \in 0 .. m /\ j - 1 \in 0 .. m
          BY <5>3, <5>7
        <5>9. e[j] \in Nat /\ e[j - 1] \in Nat /\ e[j - 1] <= e[j]
          BY <1>3, <1>4, <5>8 DEF Divided
        <5> QED
          BY SMTT(60), <1>4, <5>3, <5>6, <5>7, <5>8, <5>9
      <4>2. m - (k + 1) \in Nat /\ m - (k + 1) <= m /\ m - (m - (k + 1)) = k + 1
        BY <1>3, <3>3
      <4> QED
        BY <4>1, <4>2
    <3>7. /\ Len(l) = e[k + 1] - e[k]
          /\ \A x \in 1 .. e[k + 1] - e[k] : l[x] = chars[x + e[k]]
      <4>1. chars \in Seq(Chars)
        BY DEF Legible
      <4>2. e[k + 1] <= Len(chars)
        BY <3>6
      <4>3. PICK i \in Nat, j \in Nat : i = e[k] /\ j = e[k + 1] /\ i <= j /\ j <= Len(chars)
        BY <1>5, <3>5, <4>2
      <4>4. PICK all \in Seq(Chars) : all = chars
        BY <4>1
      <4>5. i <= j /\ j <= Len(all)
        BY <4>3, <4>4
      <4>6. /\ Len(SubSeq(all, i + 1, j)) = j - i
            /\ \A x \in 1 .. j - i : SubSeq(all, i + 1, j)[x] = all[x + i]
        BY <4>5, SubSequenceMeans
      <4>7. l = SubSeq(all, i + 1, j)
        BY <3>5, <4>3, <4>4
      <4> QED
        BY <4>3, <4>4, <4>6, <4>7
    <3>8. /\ buffer \o l \in Seq(Chars) /\ Len(buffer \o l) = Len(buffer) + Len(l)
          /\ \A x \in 1 .. Len(buffer) : (buffer \o l)[x] = buffer[x]
          /\ \A x \in Len(buffer) + 1 .. Len(buffer) + Len(l) : (buffer \o l)[x] = l[x - Len(buffer)]
      <4>1. buffer \in Seq(Chars)
        BY <1>2
      <4> QED
        BY <4>1, Joined
    <3>9. PICK b : /\ b = buffer' /\ b \in Seq(Chars) /\ Len(b) = e[k] + Len(l)
                   /\ \A x \in 1 .. e[k] : b[x] = buffer[x]
                   /\ \A x \in e[k] + 1 .. e[k] + Len(l) : b[x] = l[x - e[k]]
      BY <1>5, <3>1, <3>4, <3>8, Zenon
    <3>10. Len(b) = e[k + 1]
      BY <1>5, <3>5, <3>7, <3>9
    <3>11. ASSUME NEW x \in 1 .. e[k + 1] PROVE b[x] = chars[x]
      <4>1. CASE x \in 1 .. e[k]
        <5>1. buffer[x] = chars[x]
          BY <1>1, <4>1 DEF BufferAt
        <5>2. b[x] = buffer[x]
          BY <3>9, <4>1
        <5> QED
          BY <5>1, <5>2
      <4>2. CASE x \notin 1 .. e[k]
        <5>0. PICK i \in Nat, j \in Nat : i = e[k] /\ j = e[k + 1] /\ x \in 1 .. j /\ x \notin 1 .. i
          BY <1>5, <3>5, <4>2
        <5>01. x \in 1 .. j /\ x \notin 1 .. i
          BY <5>0
        <5>02. x \in i + 1 .. j /\ x - i \in 1 .. j - i /\ x - i + i = x
          BY <5>01
        <5>1. x \in e[k] + 1 .. e[k + 1] /\ x - e[k] \in 1 .. e[k + 1] - e[k] /\ x - e[k] + e[k] = x
          BY <5>0, <5>02
        <5>2. x \in e[k] + 1 .. e[k] + Len(l)
          BY <3>9, <3>10, <5>1
        <5> QED
          BY <3>7, <3>9, <5>1, <5>2
      <4> QED
        BY <4>1, <4>2
    <3>12. ASSUME NEW x \in 1 .. Len(unread') PROVE unread'[x] = lines[k + 1 + x]
      <4>1. x \in 1 .. Len(unread) - 1 /\ x + 1 \in 1 .. Len(unread) /\ k + (x + 1) = k + 1 + x
        BY <1>2, <1>5, <3>2
      <4>2. unread[x + 1] = lines[k + (x + 1)]
        BY <1>1, <4>1 DEF BufferAt
      <4> QED
        BY <3>2, <4>1, <4>2
    <3>13. BufferAt(lines, chars, e, k + 1)'
      <4>1. Len(buffer') = e[k + 1] /\ \A x \in 1 .. e[k + 1] : buffer'[x] = chars[x]
        BY <3>9, <3>10, <3>11
      <4>2. Len(unread') = Len(lines) - (k + 1)
        BY <1>3, <1>5, <3>2
      <4>3. ~failed' /\ limit' = e[k + 1]
        BY <2>1, <3>1, <4>1
      <4> QED
        BY <3>12, <4>1, <4>2, <4>3 DEF BufferAt
    <3>14. SourceAt(lines, chars, e)'
      <4>1. k + 1 \in 1 .. Len(lines)
        BY <1>3, <3>3
      <4> QED
        BY <3>2, <3>9, <3>13, <4>1 DEF SourceAt
    <3>15. Len(l) # 0
      <4>1. lines[k + 1] # <<>>
        BY <1>4, <3>3
      <4> QED
        BY <3>4, <4>1
    <3>16. Len(buffer') = e[k + 1] /\ e[k] < e[k + 1]
      BY SMTT(60), <1>5, <3>5, <3>7, <3>9, <3>10, <3>15
    <3> QED
      BY SMTT(60), <1>5, <3>5, <3>14, <3>16
  <2> QED
    BY <2>2, <2>3
<1> QED
  BY <1>7, <1>8

-----------------------------------------------------------------------------
(* Where the scanner is: k tokens have been taken, and of the next one     *)
(* y characters have been read, which leaves the automaton in state s.     *)
Inside == State \ ({"begin", "scan", "token"} \cup Space)

WordReached(t, y, s) == s = "literal" /\ WordToken(t) /\ y < Len(t)

HexPlace(s) == CASE s = "hex1" -> 1 [] s = "hex2" -> 2 [] s = "hex3" -> 3 [] s = "hex4" -> 4

TextReached(t, y, s) ==
    \E str \in Strings : \E o \in [1 .. Len(str) + 1 -> Nat] :
       /\ t = Quoted(str) /\ EscapedAs(str, Escape(str), o)
       /\ \/ s \in {"first", "string"} /\ \E i \in 1 .. Len(str) + 1 : y = o[i] + 1
          \/ s = "escape" /\ \E i \in 1 .. Len(str) :
               str[i] \in DOMAIN EscapeOf \cup {"control"} /\ y = o[i] + 2
          \/ s \in DOMAIN NextHex /\ \E i \in 1 .. Len(str) :
               str[i] = "control" /\ y = o[i] + 2 + HexPlace(s)

(* A number in three parts, as in Numeral.                                 *)
NumeralOf(t, g, i, f) ==
    /\ g = 1 => t[1] = "-"
    /\ g < i /\ (\A k \in g + 1 .. i : t[k] \in Digit) /\ (t[g + 1] = "0" => i = g + 1)
    /\ \/ f = i
       \/ i + 1 < f /\ t[i + 1] = "." /\ \A k \in i + 2 .. f : t[k] \in Digit
    /\ \/ f = Len(t)
       \/ /\ f + 1 < Len(t) /\ t[f + 1] = "e"
          /\ t[f + 2] \in Digit \/ (t[f + 2] \in {"+", "-"} /\ f + 2 < Len(t))
          /\ \A k \in f + 3 .. Len(t) : t[k] \in Digit

NumberReached(t, y, s) ==
    \E g \in {0, 1}, i, f \in 1 .. Len(t) :
       /\ NumeralOf(t, g, i, f)
       /\ \/ s = "minus" /\ y = 1 /\ g = 1
          \/ s = "zero"  /\ y = g + 1 /\ y = i
          \/ s = "digit" /\ y = 1 /\ g = 0 /\ t[g + 1] # "0"
          \/ s = "int"   /\ y \in g + 1 .. i /\ t[g + 1] # "0"
          \/ s = "point" /\ y = i + 1 /\ i < f
          \/ s = "frac"  /\ y \in i + 2 .. f
          \/ s = "e"     /\ y = f + 1 /\ f < Len(t)
          \/ s = "sign"  /\ y = f + 2 /\ f < Len(t) /\ t[f + 2] \in {"+", "-"}
          \/ s = "exp"   /\ y \in f + 2 .. Len(t) /\ (t[f + 2] \in Digit \/ y > f + 2)

Reached(t, y, s) == WordReached(t, y, s) \/ TextReached(t, y, s) \/ NumberReached(t, y, s)

ScanAt(tokens, chars, p, k) ==
    /\ k \in 0 .. Len(tokens)
    /\ state = "begin" => cursor = Behind(tokens, p, k)
    /\ state \in Space => Behind(tokens, p, k) < cursor /\ cursor <= p[k + 1]
    /\ state = "scan" => /\ start = cursor
                         /\ Behind(tokens, p, k) <= cursor /\ cursor <= p[k + 1]
                         /\ cursor <= Len(buffer) \/ Len(buffer) = Len(chars)
    /\ state \in Inside => /\ k < Len(tokens) /\ start = p[k + 1] /\ start <= Len(buffer)
                           /\ \E y \in 1 .. Len(tokens[k + 1]) :
                                cursor = start + y /\ Reached(tokens[k + 1], y, state)
    /\ state = "token" =>
         \/ k = Len(tokens) /\ token = "end_of_input"
         \/ /\ k < Len(tokens) /\ token = KindOf(tokens[k + 1]) /\ start = p[k + 1] /\ start <= Len(buffer)
            /\ cursor = Behind(tokens, p, k + 1)

ScannerAt(lines, tokens, chars, p, e, k) == SourceAt(lines, chars, e) /\ ScanAt(tokens, chars, p, k)

LEMMA NeedNat == ASSUME NEW s PROVE Need(s) \in Nat /\ Need("scan") >= 1
  BY DEF Need

(* One character on inside a token.                                        *)
LEMMA InsideGoesOn ==
  ASSUME NEW lines, NEW tokens, NEW chars, NEW p, NEW e, Legible(lines, tokens, chars, p, e),
         LexInv, SourceAt(lines, chars, e), NEW k \in Nat, k < Len(tokens),
         start = p[k + 1], start <= Len(buffer), NEW y \in Nat, y < Len(tokens[k + 1]), cursor = start + y,
         NEW s \in Inside, Advance(s), Reached(tokens[k + 1], y + 1, s)
  PROVE  ScannerAt(lines, tokens, chars, p, e, k)'
<1>1. PICK n \in Nat : n = Len(tokens)
  BY DEF Legible
<1>2. k + 1 \in 1 .. n /\ k \in 0 .. n
  BY <1>1
<1>3. PICK l \in Nat \ {0} : l = Len(tokens[k + 1])
  BY <1>1, <1>2, PlacesOf
<1>4. p[k + 1] \in Nat /\ Behind(tokens, p, k + 1) = p[k + 1] + l
  BY SMTT(60), <1>1, <1>2, <1>3, PlacesOf
<1>5. Len(buffer) \in Nat /\ Behind(tokens, p, k + 1) <= Len(buffer) + 1
  BY <1>1, <1>2, BufferHas
<1>6. cursor + 1 \in Nat /\ cursor + 1 <= Len(buffer) + 1
  BY SMTT(60), <1>3, <1>4, <1>5
<1>7. /\ cursor' = cursor + 1 /\ state' = s /\ start' = start /\ Refill(Need(s), cursor + 1)
  BY DEF Advance
<1>8. SourceAt(lines, chars, e)' /\ Len(buffer') \in Nat /\ Len(buffer) <= Len(buffer')
  BY <1>6, <1>7, NeedNat, RefillReads
<1>9. start' = p[k + 1] /\ start' <= Len(buffer')
  BY SMTT(60), <1>4, <1>5, <1>7, <1>8
<1>10. y + 1 \in 1 .. Len(tokens[k + 1]) /\ cursor' = start' + (y + 1)
  <2>1. y < l
    BY <1>3
  <2>2. y + 1 \in 1 .. l
    BY <2>1
  <2>3. PICK a \in Nat : a = start /\ start' = a
    BY <1>4, <1>7
  <2>4. cursor' = a + y + 1
    BY <1>7, <2>3
  <2>5. a + y + 1 = a + (y + 1)
    OBVIOUS
  <2>6. cursor' = start' + (y + 1)
    BY <2>3, <2>4, <2>5, Zenon
  <2> QED
    BY <1>3, <2>2, <2>6
<1>11. s \notin {"begin", "scan", "token"} \cup Space
  BY DEF Inside
<1>12. ScanAt(tokens, chars, p, k)'
  <2>1. \E z \in 1 .. Len(tokens[k + 1]) : cursor' = start' + z /\ Reached(tokens[k + 1], z, state')
    BY <1>7, <1>10
  <2> QED
    BY <1>1, <1>2, <1>7, <1>9, <1>11, <2>1 DEF ScanAt
<1> QED
  BY <1>8, <1>12 DEF ScannerAt

(* The end of a token.                                                     *)
LEMMA InsideReturns ==
  ASSUME NEW lines, NEW tokens, NEW chars, NEW p, NEW e, Legible(lines, tokens, chars, p, e),
         SourceAt(lines, chars, e), NEW k \in Nat, k < Len(tokens),
         start = p[k + 1], start <= Len(buffer),
         NEW at_, at_ = start + Len(tokens[k + 1]), Return(KindOf(tokens[k + 1]), at_)
  PROVE  ScannerAt(lines, tokens, chars, p, e, k)'
<1>1. PICK n \in Nat : n = Len(tokens)
  BY DEF Legible
<1>2. k + 1 \in 1 .. n /\ k \in 0 .. n
  BY <1>1
<1>3. Behind(tokens, p, k + 1) = p[k + 1] + Len(tokens[k + 1])
  BY <1>2 DEF Behind
<1>4. /\ cursor' = at_ /\ state' = "token" /\ token' = KindOf(tokens[k + 1])
      /\ start' = start /\ UNCHANGED source
  BY DEF Return
<1>5. SourceAt(lines, chars, e)' /\ buffer' = buffer
  BY <1>4 DEF source, SourceAt, BufferAt
<1>6. state' \notin {"begin", "scan"} \cup Space \cup Inside
  BY <1>4 DEF Inside, Space
<1>7. start' = p[k + 1] /\ start' <= Len(buffer') /\ cursor' = Behind(tokens, p, k + 1)
  BY <1>3, <1>4, <1>5
<1>8. ScanAt(tokens, chars, p, k)'
  BY <1>1, <1>2, <1>4, <1>6, <1>7 DEF ScanAt
<1> QED
  BY <1>5, <1>8 DEF ScannerAt

LEMMA BeginReads ==
  ASSUME NEW lines, NEW tokens, NEW chars, NEW p, NEW e, Legible(lines, tokens, chars, p, e),
         LexInv, NEW k, ScannerAt(lines, tokens, chars, p, e, k), Begin
  PROVE  ScannerAt(lines, tokens, chars, p, e, k)'
<1>1. PICK n \in Nat : n = Len(tokens)
  BY DEF Legible
<1>2. SourceAt(lines, chars, e) /\ ScanAt(tokens, chars, p, k)
  BY DEF ScannerAt
<1>3. k \in 0 .. n /\ state # "token"
  BY <1>1, <1>2 DEF ScanAt, Begin, Space
<1>4. /\ Behind(tokens, p, k) \in Nat \ {0} /\ p[k + 1] \in Nat /\ Behind(tokens, p, k) <= p[k + 1]
  BY <1>1, <1>3, PlacesOf
<1>45. cursor \in Nat
  BY DEF LexInv, WithLimits
<1>5. Behind(tokens, p, k) <= cursor /\ cursor <= p[k + 1]
  <2>1. CASE state = "begin"
    <3>1. cursor = Behind(tokens, p, k)
      BY <1>2, <2>1 DEF ScanAt
    <3> QED
      BY <1>4, <3>1
  <2>2. CASE state \in Space
    <3>1. Behind(tokens, p, k) < cursor /\ cursor <= p[k + 1]
      BY <1>2, <2>2 DEF ScanAt
    <3> QED
      BY <1>4, <1>45, <3>1
  <2> QED
    BY <2>1, <2>2 DEF Begin
<1>6. cursor \in Nat /\ cursor <= Len(buffer) + 1
  BY <1>3 DEF LexInv, WithLimits, CursorInv
<1>7. /\ start' = cursor /\ cursor' = cursor /\ state' = "scan" /\ Refill(Need("scan"), cursor)
  BY DEF Begin
<1>8. SourceAt(lines, chars, e)' /\ (cursor <= Len(buffer') \/ Len(buffer') = Len(chars))
  BY <1>2, <1>6, <1>7, NeedNat, RefillReads
<1>9. state' \notin {"begin", "token"} \cup Space \cup Inside
  BY <1>7 DEF Inside, Space
<1>10. ScanAt(tokens, chars, p, k)'
  <2>1. k \in 0 .. Len(tokens)
    BY <1>1, <1>3
  <2>2. /\ start' = cursor' /\ Behind(tokens, p, k) <= cursor' /\ cursor' <= p[k + 1]
        /\ cursor' <= Len(buffer') \/ Len(buffer') = Len(chars)
    BY <1>5, <1>7, <1>8
  <2> QED
    BY <1>9, <2>1, <2>2 DEF ScanAt
<1> QED
  BY <1>8, <1>10 DEF ScannerAt

(* One blank on.                                                           *)
LEMMA BlankPassed ==
  ASSUME NEW lines, NEW tokens, NEW chars, NEW p, NEW e, Legible(lines, tokens, chars, p, e),
         LexInv, SourceAt(lines, chars, e), NEW k \in 0 .. Len(tokens),
         Behind(tokens, p, k) <= cursor, cursor < p[k + 1], cursor <= Len(buffer),
         NEW s \in Space, Advance(s)
  PROVE  ScannerAt(lines, tokens, chars, p, e, k)'
<1>1. PICK n \in Nat : n = Len(tokens)
  BY DEF Legible
<1>2. Behind(tokens, p, k) \in Nat \ {0} /\ p[k + 1] \in Nat
  BY <1>1, PlacesOf
<1>3. cursor \in Nat /\ Len(buffer) \in Nat
  BY BufferHas DEF LexInv, WithLimits
<1>4. cursor' = cursor + 1 /\ state' = s /\ Refill(Need(s), cursor + 1)
  BY DEF Advance
<1>5. SourceAt(lines, chars, e)'
  <2>1. cursor + 1 \in Nat /\ cursor + 1 <= Len(buffer) + 1
    BY <1>3
  <2> QED
    BY <1>4, <2>1, NeedNat, RefillReads
<1>6. state' \notin {"begin", "token", "scan"} \cup Inside /\ state' \in Space
  BY <1>4 DEF Inside, Space
<1>7. Behind(tokens, p, k) < cursor' /\ cursor' <= p[k + 1]
  BY <1>2, <1>3, <1>4
<1>8. k \in 0 .. Len(tokens)
  BY <1>1
<1>9. ScanAt(tokens, chars, p, k)'
  BY <1>6, <1>7, <1>8 DEF ScanAt
<1> QED
  BY <1>5, <1>9 DEF ScannerAt

LEMMA TokenAt ==
  ASSUME NEW lines, NEW tokens, NEW chars, NEW p, NEW e, Legible(lines, tokens, chars, p, e),
         NEW j \in 1 .. Len(tokens), NEW x \in 1 .. Len(tokens[j])
  PROVE  chars[p[j] + x - 1] = tokens[j][x]
<1>1. Placed(tokens, chars, p)
  BY DEF Legible, SpelledAt
<1>2. \A i \in 1 .. Len(tokens) : \A z \in 1 .. Len(tokens[i]) : chars[p[i] + z - 1] = tokens[i][z]
  BY <1>1, Zenon DEF Placed
<1> QED
  BY <1>2, Zenon

LEMMA LastPlace ==
  ASSUME NEW lines, NEW tokens, NEW chars, NEW p, NEW e, Legible(lines, tokens, chars, p, e)
  PROVE  p[Len(tokens) + 1] = Len(chars) + 1
  BY DEF Legible, SpelledAt, Placed

LEMMA FirstChar ==
  ASSUME NEW lines, NEW tokens, NEW chars, NEW p, NEW e, Legible(lines, tokens, chars, p, e),
         NEW j \in 1 .. Len(tokens)
  PROVE  chars[p[j]] = tokens[j][1]
<1>1. Readable(tokens[j]) /\ p[j] \in Nat
  <2>1. p \in [1 .. Len(tokens) + 1 -> Nat] /\ AllReadable(tokens)
    BY DEF Legible
  <2> QED
    BY <2>1 DEF AllReadable
<1>2. PICK l \in Nat \ {0} : l = Len(tokens[j])
  BY <1>1, ReadableLength
<1>3. 1 \in 1 .. Len(tokens[j])
  BY <1>2
<1>4. chars[p[j] + 1 - 1] = tokens[j][1]
  BY <1>3, TokenAt
<1> QED
  BY <1>1, <1>4

(* What is looked at inside a token is its next character.                 *)
LEMMA CharInToken ==
  ASSUME NEW lines, NEW tokens, NEW chars, NEW p, NEW e, Legible(lines, tokens, chars, p, e),
         SourceAt(lines, chars, e), NEW k \in Nat, k < Len(tokens),
         start = p[k + 1], start <= Len(buffer), NEW y \in Nat, y < Len(tokens[k + 1]), cursor = start + y
  PROVE  Current = tokens[k + 1][y + 1] /\ Current # NUL /\ cursor \in 1 .. Len(buffer)
<1>1. PICK n \in Nat : n = Len(tokens)
  BY DEF Legible
<1>2. k + 1 \in 1 .. n /\ k \in 0 .. n
  BY <1>1
<1>3. PICK l \in Nat \ {0} : l = Len(tokens[k + 1])
  BY <1>1, <1>2, PlacesOf
<1>4. p[k + 1] \in Nat /\ Behind(tokens, p, k + 1) = p[k + 1] + l
  BY SMTT(60), <1>1, <1>2, <1>3, PlacesOf
<1>5. p[k + 1] >= 1
  <2>1. Behind(tokens, p, k) \in Nat \ {0} /\ Behind(tokens, p, k) <= p[k + 1]
    BY <1>1, <1>2, PlacesOf
  <2> QED
    BY <1>4, <2>1
<1>6. Len(buffer) \in Nat /\ Behind(tokens, p, k + 1) <= Len(buffer) + 1
  BY <1>1, <1>2, BufferHas
<1>7. PICK a \in Nat : a = start /\ a = p[k + 1]
  BY <1>4
<1>8. y < l /\ a + l <= Len(buffer) + 1
  BY <1>3, <1>4, <1>6, <1>7
<1>9. cursor = a + y /\ a + y \in 1 .. Len(buffer) /\ a + y \in Nat /\ y + 1 \in 1 .. l /\ a + (y + 1) - 1 = a + y
  <2>1. PICK b \in Nat : b = Len(buffer)
    BY <1>6
  <2>2. a >= 1 /\ y < l /\ a + l <= b + 1
    BY <1>5, <1>7, <1>8, <2>1
  <2>3. a + y \in 1 .. b /\ a + y \in Nat /\ y + 1 \in 1 .. l /\ a + (y + 1) - 1 = a + y
    BY <2>2
  <2> QED
    BY <1>7, <2>1, <2>3
<1>10. Char(a + y) = chars[a + y] /\ Char(a + y) # NUL
  BY <1>9, BufferHas
<1>11. chars[p[k + 1] + (y + 1) - 1] = tokens[k + 1][y + 1]
  BY <1>1, <1>2, <1>3, <1>9, TokenAt
<1> QED
  BY <1>7, <1>9, <1>10, <1>11 DEF Current

LEMMA EndMarksAre == \A t \in EndMarks : t[1] \in {",", "]", "}"}
<1>1. Comma[1] = "," /\ <<"]">>[1] = "]" /\ <<"}">>[1] = "}"
  BY DEF Comma
<1> QED
  BY <1>1 DEF EndMarks

(* What comes behind a number does not go on with it.                      *)
BehindNumber == Blank \cup {",", "]", "}", NUL}

LEMMA AfterNumber ==
  ASSUME NEW lines, NEW tokens, NEW chars, NEW p, NEW e, Legible(lines, tokens, chars, p, e),
         SourceAt(lines, chars, e), NEW j \in 1 .. Len(tokens), KindOf(tokens[j]) = "value_number",
         cursor = Behind(tokens, p, j)
  PROVE  Current \in BehindNumber
<1>1. PICK n \in Nat : n = Len(tokens)
  BY DEF Legible
<1>2. j \in 0 .. n /\ j \in 1 .. n
  BY <1>1
<1>3. /\ Behind(tokens, p, j) \in Nat \ {0} /\ p[j + 1] \in Nat /\ Behind(tokens, p, j) <= p[j + 1]
      /\ \A x \in Behind(tokens, p, j) .. p[j + 1] - 1 : chars[x] \in Blank
  BY <1>1, <1>2, PlacesOf
<1>4. Len(buffer) \in Nat /\ Len(buffer) <= Len(chars) /\ Len(chars) \in Nat /\ p[n + 1] = Len(chars) + 1
  <2>1. Len(buffer) \in Nat /\ Len(buffer) <= Len(chars)
    BY BufferHas
  <2>2. Len(chars) \in Nat
    BY DEF Legible
  <2> QED
    BY <1>1, <2>1, <2>2, LastPlace
<1>5. PICK b \in Nat \ {0} : b = cursor /\ b = Behind(tokens, p, j)
  BY <1>3
<1>6. CASE b > Len(buffer)
  <2>1. Char(b) = NUL
    BY <1>6, BufferHas
  <2> QED
    BY <1>5, <2>1 DEF Current, BehindNumber
<1>7. CASE ~(b > Len(buffer))
  <2>1. b \in 1 .. Len(buffer)
    BY <1>4, <1>7
  <2>2. Current = chars[b]
    BY <1>5, <2>1, BufferHas DEF Current
  <2>3. CASE b < p[j + 1]
    <3>1. b \in Behind(tokens, p, j) .. p[j + 1] - 1
      BY <1>3, <1>5, <2>3
    <3> QED
      BY <1>3, <2>2, <3>1 DEF BehindNumber
  <2>4. CASE ~(b < p[j + 1])
    <3>1. b = p[j + 1]
      BY <1>3, <1>5, <2>4
    <3>2. j # n
      BY <1>4, <2>1, <3>1
    <3>3. j + 1 \in 1 .. n
      BY <1>2, <3>2
    <3>4. tokens[j + 1] \in EndMarks
      <4>1. AllReadable(tokens) /\ j < Len(tokens)
        BY <1>1, <1>2, <3>2 DEF Legible
      <4> QED
        BY <4>1 DEF AllReadable
    <3>5. tokens[j + 1][1] \in {",", "]", "}"}
      BY <3>4, EndMarksAre
    <3>6. chars[p[j + 1]] = tokens[j + 1][1]
      BY <1>1, <3>3, FirstChar
    <3> QED
      BY <2>2, <3>1, <3>5, <3>6 DEF BehindNumber
  <2> QED
    BY <2>3, <2>4
<1> QED
  BY <1>6, <1>7

(* Blanks between the tokens, in front of the first and behind the last.   *)
LEMMA BlankHere ==
  ASSUME NEW lines, NEW tokens, NEW chars, NEW p, NEW e, Legible(lines, tokens, chars, p, e),
         SourceAt(lines, chars, e), NEW k \in 0 .. Len(tokens), cursor \in Nat,
         Behind(tokens, p, k) <= cursor, cursor < p[k + 1], cursor <= Len(buffer)
  PROVE  Current \in Blank
<1>1. PICK n \in Nat : n = Len(tokens)
  BY DEF Legible
<1>2. /\ Behind(tokens, p, k) \in Nat \ {0} /\ p[k + 1] \in Nat
      /\ \A x \in Behind(tokens, p, k) .. p[k + 1] - 1 : chars[x] \in Blank
  BY <1>1, PlacesOf
<1>3. cursor \in Behind(tokens, p, k) .. p[k + 1] - 1 /\ cursor \in 1 .. Len(buffer)
  BY <1>2, BufferHas
<1> QED
  BY <1>2, <1>3, BufferHas DEF Current

LEMMA WhiteReads ==
  ASSUME NEW lines, NEW tokens, NEW chars, NEW p, NEW e, Legible(lines, tokens, chars, p, e),
         LexInv, NEW k, ScannerAt(lines, tokens, chars, p, e, k), White
  PROVE  ScannerAt(lines, tokens, chars, p, e, k)'
<1>1. PICK n \in Nat : n = Len(tokens)
  BY DEF Legible
<1>2. SourceAt(lines, chars, e) /\ ScanAt(tokens, chars, p, k)
  BY DEF ScannerAt
<1>3. state \in Space /\ Current \in Blank /\ Advance("white") /\ "white" \in Space
  BY DEF White, To, Space
<1>4. k \in 0 .. n /\ Behind(tokens, p, k) < cursor /\ cursor <= p[k + 1]
  BY <1>1, <1>2, <1>3 DEF ScanAt
<1>5. cursor \in Nat /\ Len(buffer) \in Nat /\ Len(buffer) <= Len(chars) /\ Len(chars) \in Nat
  BY <1>2, PlacesOf, BufferHas DEF LexInv, WithLimits
<1>6. Behind(tokens, p, k) \in Nat \ {0} /\ p[k + 1] \in Nat /\ p[k + 1] <= Len(chars) + 1
  BY <1>1, <1>4, PlacesOf
<1>7. cursor \in 1 .. Len(buffer) /\ Current = chars[cursor]
  <2>1. Current # NUL
    BY <1>3 DEF Blank, NUL
  <2>2. cursor \in 1 .. Len(buffer)
    BY <1>5, <2>1, CharHere DEF Current
  <2> QED
    BY <1>2, <1>5, <2>2, BufferHas DEF Current
<1>8. cursor # p[k + 1]
  <2> SUFFICES ASSUME cursor = p[k + 1] PROVE FALSE
    OBVIOUS
  <2>1. k # n
    <3>1. p[n + 1] = Len(chars) + 1
      BY <1>1, PlacesOf
    <3> QED
      BY <1>5, <1>7, <3>1
  <2>2. k + 1 \in 1 .. n
    BY <1>4, <2>1
  <2>3. Readable(tokens[k + 1])
    BY <1>1, <2>2 DEF Legible, AllReadable
  <2>4. tokens[k + 1][1] \notin Blank
    BY <2>3, ReadableLength DEF Punctuation, Literal, Digit, Blank
  <2>5. chars[p[k + 1]] = tokens[k + 1][1]
    BY <1>1, <2>2, FirstChar
  <2> QED
    BY <1>3, <1>7, <2>4, <2>5
<1>9. Behind(tokens, p, k) <= cursor /\ cursor < p[k + 1] /\ cursor <= Len(buffer)
  BY <1>4, <1>5, <1>6, <1>7, <1>8
<1>10. k \in 0 .. Len(tokens)
  BY <1>1, <1>4
<1> QED
  BY <1>2, <1>3, <1>9, <1>10, BlankPassed

(* A token of which y characters have been read.                           *)
InToken(lines, tokens, chars, p, e, k, t, y) ==
    /\ Legible(lines, tokens, chars, p, e) /\ LexInv /\ SourceAt(lines, chars, e)
    /\ k \in Nat /\ k < Len(tokens) /\ t = tokens[k + 1] /\ Readable(t)
    /\ start = p[k + 1] /\ start <= Len(buffer) /\ start \in Nat
    /\ y \in Nat /\ y <= Len(t) /\ cursor = start + y

LEMMA TokenBegun ==
  ASSUME NEW lines, NEW tokens, NEW chars, NEW p, NEW e, Legible(lines, tokens, chars, p, e),
         LexInv, NEW k, ScannerAt(lines, tokens, chars, p, e, k), state \in Inside
  PROVE  \E t, y : InToken(lines, tokens, chars, p, e, k, t, y) /\ Reached(t, y, state)
<1>1. SourceAt(lines, chars, e) /\ ScanAt(tokens, chars, p, k)
  BY DEF ScannerAt
<1>2. PICK y \in 1 .. Len(tokens[k + 1]) : cursor = start + y /\ Reached(tokens[k + 1], y, state)
  BY <1>1 DEF ScanAt
<1>3. k \in 0 .. Len(tokens) /\ k < Len(tokens) /\ start = p[k + 1] /\ start <= Len(buffer)
  BY <1>1 DEF ScanAt
<1>4. k \in Nat /\ k + 1 \in 1 .. Len(tokens)
  BY <1>3
<1>5. Readable(tokens[k + 1])
  BY <1>4 DEF Legible, AllReadable
<1>6. PICK l \in Nat : l = Len(tokens[k + 1])
  BY <1>5, ReadableLength
<1>7. y \in Nat /\ y <= Len(tokens[k + 1]) /\ start \in Nat
  BY <1>6 DEF LexInv, WithLimits
<1> QED
  BY <1>1, <1>2, <1>3, <1>4, <1>5, <1>7 DEF InToken

LEMMA GoOn ==
  ASSUME NEW lines, NEW tokens, NEW chars, NEW p, NEW e, NEW k, NEW t, NEW y,
         InToken(lines, tokens, chars, p, e, k, t, y), y < Len(t),
         NEW s \in Inside, Advance(s), Reached(t, y + 1, s)
  PROVE  ScannerAt(lines, tokens, chars, p, e, k)'
<1>1. /\ Legible(lines, tokens, chars, p, e) /\ LexInv /\ SourceAt(lines, chars, e)
      /\ k \in Nat /\ k < Len(tokens) /\ start = p[k + 1] /\ start <= Len(buffer)
      /\ y \in Nat /\ y < Len(tokens[k + 1]) /\ cursor = start + y /\ Reached(tokens[k + 1], y + 1, s)
  BY DEF InToken
<1> QED
  BY <1>1, InsideGoesOn

LEMMA GoOut ==
  ASSUME NEW lines, NEW tokens, NEW chars, NEW p, NEW e, NEW k, NEW t, NEW y,
         InToken(lines, tokens, chars, p, e, k, t, y), NEW at_, at_ = start + Len(t),
         Return(KindOf(t), at_)
  PROVE  ScannerAt(lines, tokens, chars, p, e, k)'
<1>1. /\ Legible(lines, tokens, chars, p, e) /\ SourceAt(lines, chars, e)
      /\ k \in Nat /\ k < Len(tokens) /\ start = p[k + 1] /\ start <= Len(buffer)
      /\ at_ = start + Len(tokens[k + 1]) /\ Return(KindOf(tokens[k + 1]), at_)
  BY DEF InToken
<1> QED
  BY <1>1, InsideReturns

LEMMA NextChar ==
  ASSUME NEW lines, NEW tokens, NEW chars, NEW p, NEW e, NEW k, NEW t, NEW y,
         InToken(lines, tokens, chars, p, e, k, t, y), y < Len(t)
  PROVE  Current = t[y + 1] /\ Current # NUL /\ Char(start) = t[1]
<1>1. /\ Legible(lines, tokens, chars, p, e) /\ SourceAt(lines, chars, e)
      /\ k \in Nat /\ k < Len(tokens) /\ start = p[k + 1] /\ start <= Len(buffer) /\ start \in Nat
      /\ y \in Nat /\ y < Len(tokens[k + 1]) /\ cursor = start + y /\ t = tokens[k + 1]
  BY DEF InToken
<1>2. Current = tokens[k + 1][y + 1] /\ Current # NUL
  BY <1>1, CharInToken
<1>3. Char(start) = t[1]
  <2>1. k + 1 \in 1 .. Len(tokens) /\ k \in 0 .. Len(tokens)
    <3>1. PICK n \in Nat : n = Len(tokens)
      BY <1>1 DEF Legible
    <3> QED
      BY <1>1, <3>1
  <2>2. start >= 1
    <3>1. PICK n \in Nat : n = Len(tokens)
      BY <1>1 DEF Legible
    <3>2. Behind(tokens, p, k) \in Nat \ {0} /\ Behind(tokens, p, k) <= p[k + 1]
      BY <1>1, <2>1, <3>1, PlacesOf
    <3> QED
      BY <1>1, <3>2
  <2>3. start \in 1 .. Len(buffer)
    <3>1. Len(buffer) \in Nat
      BY <1>1, BufferHas
    <3> QED
      BY <1>1, <2>2, <3>1
  <2>4. Char(start) = chars[start]
    BY <1>1, <2>3, BufferHas
  <2>5. chars[p[k + 1]] = tokens[k + 1][1]
    BY <1>1, <2>1, FirstChar
  <2> QED
    BY <1>1, <2>4, <2>5
<1> QED
  BY <1>1, <1>2, <1>3

LEMMA WordReads ==
  ASSUME NEW lines, NEW tokens, NEW chars, NEW p, NEW e, Legible(lines, tokens, chars, p, e),
         LexInv, NEW k, ScannerAt(lines, tokens, chars, p, e, k), Word
  PROVE  ScannerAt(lines, tokens, chars, p, e, k)'
<1>1. state = "literal" /\ state \in Inside
  BY DEF Word, Inside, State, Space, Accepting, HalfNumber
<1>2. PICK t, y : InToken(lines, tokens, chars, p, e, k, t, y) /\ Reached(t, y, state)
  BY <1>1, TokenBegun
<1>3. WordToken(t) /\ y < Len(t)
  BY <1>1, <1>2 DEF Reached, WordReached, TextReached, NumberReached, NextHex
<1>4. PICK c \in {"n", "t", "f"} : t = Literal[c].word
  BY <1>3 DEF WordToken, Literal
<1>5. t[1] = c
  BY <1>4 DEF Literal
<1>6. Current = t[y + 1] /\ Char(start) = c /\ y \in Nat /\ start \in Nat /\ cursor = start + y
  <2>1. Current = t[y + 1] /\ Char(start) = t[1]
    BY <1>2, <1>3, NextChar
  <2> QED
    BY <1>2, <1>5, <2>1 DEF InToken
<1>7. cursor - start + 1 = y + 1
  BY <1>6
<1>8. KindOf(t) = Literal[c].type
  BY <1>4, <1>5 DEF KindOf, Punctuation, Literal
<1>9. Current = Literal[Char(start)].word[cursor - start + 1]
  BY <1>4, <1>6, <1>7
<1>10. CASE y + 1 = Len(t)
  <2>1. Return(Literal[Char(start)].type, cursor + 1)
    BY <1>4, <1>6, <1>7, <1>9, <1>10 DEF Word
  <2>2. Return(KindOf(t), cursor + 1)
    BY <1>6, <1>8, <2>1
  <2>3. cursor + 1 = start + Len(t)
    BY <1>6, <1>10
  <2> QED
    BY <1>2, <2>2, <2>3, GoOut
<1>11. CASE y + 1 # Len(t)
  <2>1. Advance("literal")
    BY <1>4, <1>6, <1>7, <1>9, <1>11 DEF Word, To
  <2>2. PICK l \in Nat : l = Len(t)
    BY <1>2, ReadableLength DEF InToken
  <2>3. y + 1 < Len(t)
    BY <1>3, <1>6, <1>11, <2>2
  <2>4. Reached(t, y + 1, "literal")
    BY <1>3, <2>3 DEF Reached, WordReached
  <2> QED
    BY <1>1, <1>2, <1>3, <2>1, <2>4, GoOn
<1> QED
  BY <1>10, <1>11

(* The characters of a string token, in the places of those of the string. *)
TextPlace(t, str, o, i) ==
    /\ o[i] \in Nat /\ o[i + 1] \in Nat /\ o[i + 1] + 2 <= Len(t)
    /\ \/ /\ str[i] \in DOMAIN EscapeOf /\ o[i + 1] = o[i] + 2
          /\ t[o[i] + 2] = "backslash" /\ t[o[i] + 3] \in Escapable
       \/ /\ str[i] = "control" /\ o[i + 1] = o[i] + 6
          /\ t[o[i] + 2] = "backslash" /\ t[o[i] + 3] = "u" /\ \A h \in 1 .. 4 : t[o[i] + 3 + h] \in Hex
       \/ /\ str[i] \notin DOMAIN EscapeOf \cup {"control"} /\ o[i + 1] = o[i] + 1
          /\ t[o[i] + 2] = str[i]

LEMMA TextPlaces ==
  ASSUME NEW str \in Strings, NEW o \in [1 .. Len(str) + 1 -> Nat], EscapedAs(str, Escape(str), o),
         NEW t, t = Quoted(str)
  PROVE  /\ Len(str) \in Nat /\ Len(t) \in Nat /\ Len(t) = o[Len(str) + 1] + 2 /\ t[Len(t)] = "quote"
         /\ \A i \in 1 .. Len(str) : TextPlace(t, str, o, i)
<1>1. PICK X : \E r \in Seq(X) : /\ r = Escape(str) /\ Len(t) = Len(r) + 2 /\ t[Len(r) + 2] = "quote"
                                 /\ \A x \in 1 .. Len(r) : t[x + 1] = r[x]
  BY QuotedMeans DEF Strings
<1>2. PICK r \in Seq(X) : /\ r = Escape(str) /\ Len(t) = Len(r) + 2 /\ t[Len(r) + 2] = "quote"
                          /\ \A x \in 1 .. Len(r) : t[x + 1] = r[x]
  BY <1>1
<1>3. PICK L \in Nat : L = Len(r)
  BY <1>2
<1>4. PICK m \in Nat : m = Len(str)
  BY DEF Strings
<1>5. \A i \in 1 .. m + 1 : o[i] \in Nat
  BY <1>4
<1>6. o[m + 1] = L
  BY <1>2, <1>3, <1>4 DEF EscapedAs
<1>7. ASSUME NEW i \in 1 .. m PROVE TextPlace(t, str, o, i)
  <2>1. /\ o[i + 1] <= Len(r)
        /\ \/ /\ str[i] \in DOMAIN EscapeOf /\ o[i + 1] = o[i] + 2
              /\ r[o[i] + 1] = "backslash" /\ r[o[i] + 2] = EscapeOf[str[i]]
           \/ /\ str[i] = "control" /\ o[i + 1] = o[i] + 6
              /\ r[o[i] + 1] = "backslash" /\ r[o[i] + 2] = "u"
              /\ \A x \in 3 .. 6 : r[o[i] + x] \in Hex
           \/ /\ str[i] \notin DOMAIN EscapeOf \cup {"control"} /\ o[i + 1] = o[i] + 1
              /\ r[o[i] + 1] = str[i]
    BY <1>2, <1>4 DEF EscapedAs
  <2>2. PICK a \in Nat, b \in Nat : a = o[i] /\ b = o[i + 1] /\ b <= L
    BY <1>3, <1>5, <2>1
  <2>3. ASSUME NEW x \in Nat, x >= 1, a + x <= L PROVE t[a + x + 1] = r[a + x]
    <3>1. a + x \in 1 .. Len(r)
      BY <1>3, <2>3
    <3> QED
      BY <1>2, <3>1
  <2>4. b + 2 <= Len(t)
    BY <1>2, <1>3, <2>2
  <2>5. CASE str[i] \in DOMAIN EscapeOf /\ b = a + 2 /\ r[a + 1] = "backslash" /\ r[a + 2] = EscapeOf[str[i]]
    <3>0. 1 \in Nat /\ 2 \in Nat /\ 1 >= 1 /\ 2 >= 1 /\ a + 1 <= L /\ a + 2 <= L
      BY SMTT(60), <2>2, <2>5
    <3>1. t[a + 1 + 1] = r[a + 1] /\ t[a + 2 + 1] = r[a + 2]
      BY <2>3, <3>0, Zenon
    <3>2. a + 1 + 1 = a + 2 /\ a + 2 + 1 = a + 3
      OBVIOUS
    <3>3. t[a + 2] = "backslash" /\ t[a + 3] \in Escapable
      BY <2>5, <3>1, <3>2, EscapeLetter
    <3> QED
      BY <2>2, <2>4, <2>5, <3>3 DEF TextPlace
  <2>6. CASE /\ str[i] = "control" /\ b = a + 6 /\ r[a + 1] = "backslash" /\ r[a + 2] = "u"
             /\ \A x \in 3 .. 6 : r[a + x] \in Hex
    <3>00. b = a + 6 /\ b <= L
      BY <2>2, <2>6
    <3>0. 1 \in Nat /\ 2 \in Nat /\ 1 >= 1 /\ 2 >= 1 /\ a + 1 <= L /\ a + 2 <= L
      BY <3>00
    <3>1. t[a + 1 + 1] = r[a + 1] /\ t[a + 2 + 1] = r[a + 2]
      BY <2>3, <3>0, Zenon
    <3>2. a + 1 + 1 = a + 2 /\ a + 2 + 1 = a + 3
      OBVIOUS
    <3>3. t[a + 2] = "backslash" /\ t[a + 3] = "u"
      BY <2>6, <3>1, <3>2
    <3>4. ASSUME NEW h \in 1 .. 4 PROVE t[a + 3 + h] \in Hex
      <4>1. h + 2 \in Nat /\ h + 2 >= 1 /\ a + (h + 2) <= L /\ h + 2 \in 3 .. 6
        BY <3>00
      <4>2. t[a + (h + 2) + 1] = r[a + (h + 2)]
        BY <2>3, <4>1
      <4>3. a + (h + 2) + 1 = a + 3 + h
        OBVIOUS
      <4>4. r[a + (h + 2)] \in Hex
        BY <2>6, <4>1
      <4> QED
        BY <4>2, <4>3, <4>4
    <3> QED
      BY <2>2, <2>4, <2>6, <3>3, <3>4 DEF TextPlace
  <2>7. CASE str[i] \notin DOMAIN EscapeOf \cup {"control"} /\ b = a + 1 /\ r[a + 1] = str[i]
    <3>1. t[a + 1 + 1] = r[a + 1]
      BY <2>2, <2>3, <2>7
    <3>2. a + 1 + 1 = a + 2
      OBVIOUS
    <3>3. t[a + 2] = str[i]
      BY <2>7, <3>1, <3>2
    <3> QED
      BY <2>2, <2>4, <2>7, <3>3 DEF TextPlace
  <2> QED
    BY <2>1, <2>2, <2>5, <2>6, <2>7
<1>8. Len(t) = L + 2 /\ t[L + 2] = "quote"
  BY <1>2, <1>3
<1> QED
  BY <1>4, <1>6, <1>7, <1>8

LEMMA StringReads ==
  ASSUME NEW lines, NEW tokens, NEW chars, NEW p, NEW e, NEW k, NEW t, NEW y,
         InToken(lines, tokens, chars, p, e, k, t, y), InString,
         NEW str \in Strings, NEW o \in [1 .. Len(str) + 1 -> Nat], EscapedAs(str, Escape(str), o),
         t = Quoted(str), NEW i \in 1 .. Len(str) + 1, y = o[i] + 1
  PROVE  ScannerAt(lines, tokens, chars, p, e, k)'
<1>1. /\ Len(str) \in Nat /\ Len(t) \in Nat /\ Len(t) = o[Len(str) + 1] + 2 /\ t[Len(t)] = "quote"
      /\ \A j \in 1 .. Len(str) : TextPlace(t, str, o, j)
  BY TextPlaces
<1>2. PICK a \in Nat : a = o[i] /\ y = a + 1
  OBVIOUS
<1>3. {"string", "escape"} \subseteq Inside
  BY DEF Inside, State, Space, Accepting, HalfNumber
<1>4. CASE i = Len(str) + 1
  <2>1. y + 1 = Len(t) /\ y < Len(t)
    BY <1>1, <1>2, <1>4
  <2>2. Current = "quote"
    BY <1>1, <2>1, NextChar
  <2>3. Return("value_string", cursor + 1)
    BY <2>2 DEF InString, NUL
  <2>4. KindOf(t) = "value_string"
    BY TextKind
  <2>5. cursor + 1 = start + Len(t)
    <3>1. start \in Nat /\ cursor = start + y /\ y \in Nat
      BY DEF InToken
    <3>2. start + y + 1 = start + (y + 1)
      BY <3>1
    <3> QED
      BY <2>1, <3>1, <3>2
  <2> QED
    BY <2>3, <2>4, <2>5, GoOut
<1>5. CASE i # Len(str) + 1
  <2>1. i \in 1 .. Len(str) /\ i + 1 \in 1 .. Len(str) + 1
    BY <1>1, <1>5
  <2>2. TextPlace(t, str, o, i)
    BY <1>1, <2>1
  <2>3. PICK b \in Nat : b = o[i + 1] /\ b + 2 <= Len(t) /\ b > a
    <3>1. o[i + 1] \in Nat /\ o[i + 1] + 2 <= Len(t)
      BY <2>2 DEF TextPlace
    <3>2. o[i + 1] = o[i] + 2 \/ o[i + 1] = o[i] + 6 \/ o[i + 1] = o[i] + 1
      BY <2>2 DEF TextPlace
    <3>3. o[i + 1] > a
      BY <1>2, <3>2
    <3> QED
      BY <3>1, <3>3
  <2>4. y < Len(t) /\ y + 1 = a + 2
    BY SMTT(60), <1>1, <1>2, <2>3
  <2>5. Current = t[a + 2] /\ Current # NUL
    <3>1. Current = t[y + 1] /\ Current # NUL
      BY <2>4, NextChar
    <3> QED
      BY <2>4, <3>1
  <2>6. CASE str[i] \in DOMAIN EscapeOf \cup {"control"}
    <3>1. Current = "backslash"
      BY <1>2, <2>2, <2>5, <2>6 DEF TextPlace
    <3>2. Advance("escape")
      BY <3>1 DEF InString, To, NUL
    <3>3. Reached(t, y + 1, "escape")
      <4>1. y + 1 = o[i] + 2
        BY <1>2, <2>4
      <4> QED
        BY <2>1, <2>6, <4>1 DEF Reached, TextReached
    <3> QED
      BY <1>3, <2>4, <3>2, <3>3, GoOn
  <2>7. CASE str[i] \notin DOMAIN EscapeOf \cup {"control"}
    <3>1. Current = str[i] /\ b = a + 1
      BY <1>2, <2>2, <2>3, <2>5, <2>7 DEF TextPlace
    <3>2. Current \notin {"quote", "backslash", NUL}
      BY <2>5, <2>7, <3>1 DEF EscapeOf
    <3>3. Advance("string")
      BY <3>2 DEF InString, To
    <3>4. Reached(t, y + 1, "string")
      <4>1. y + 1 = o[i + 1] + 1
        BY <1>2, <2>3, <3>1
      <4> QED
        BY <2>1, <4>1 DEF Reached, TextReached
    <3> QED
      BY <1>3, <2>4, <3>3, <3>4, GoOn
  <2> QED
    BY <2>6, <2>7
<1> QED
  BY <1>4, <1>5

LEMMA EscapeReads ==
  ASSUME NEW lines, NEW tokens, NEW chars, NEW p, NEW e, NEW k, NEW t, NEW y,
         InToken(lines, tokens, chars, p, e, k, t, y), InEscape,
         NEW str \in Strings, NEW o \in [1 .. Len(str) + 1 -> Nat], EscapedAs(str, Escape(str), o),
         t = Quoted(str), NEW i \in 1 .. Len(str),
         str[i] \in DOMAIN EscapeOf \cup {"control"}, y = o[i] + 2
  PROVE  ScannerAt(lines, tokens, chars, p, e, k)'
<1>1. Len(str) \in Nat /\ Len(t) \in Nat /\ TextPlace(t, str, o, i)
  BY TextPlaces
<1>2. PICK a \in Nat, b \in Nat : a = o[i] /\ b = o[i + 1] /\ y = a + 2 /\ b + 2 <= Len(t)
  BY <1>1 DEF TextPlace
<1>3. {"string", "hex1"} \subseteq Inside
  BY DEF Inside, State, Space, Accepting, HalfNumber
<1>4. b >= a + 2
  BY SMTT(60), <1>1, <1>2 DEF TextPlace
<1>5. y < Len(t) /\ y + 1 = a + 3
  BY SMTT(60), <1>1, <1>2, <1>4
<1>6. Current = t[a + 3]
  <2>1. Current = t[y + 1]
    BY <1>5, NextChar
  <2> QED
    BY <1>5, <2>1
<1>7. CASE str[i] \in DOMAIN EscapeOf
  <2>1. str[i] # "control"
    BY <1>7 DEF EscapeOf
  <2>2. Current \in Escapable /\ b = a + 2
    BY <1>1, <1>2, <1>6, <1>7, <2>1 DEF TextPlace
  <2>3. Advance("string")
    BY <2>2 DEF InEscape, To, Escapable
  <2>4. Reached(t, y + 1, "string")
    <3>1. y + 1 = o[i + 1] + 1 /\ i + 1 \in 1 .. Len(str) + 1
      BY <1>1, <1>2, <2>2
    <3> QED
      BY <3>1 DEF Reached, TextReached
  <2> QED
    BY <1>3, <1>5, <2>3, <2>4, GoOn
<1>8. CASE str[i] = "control"
  <2>1. str[i] \notin DOMAIN EscapeOf
    BY <1>8 DEF EscapeOf
  <2>2. Current = "u"
    BY <1>1, <1>2, <1>6, <1>8, <2>1 DEF TextPlace
  <2>3. Advance("hex1")
    BY <2>2 DEF InEscape, To, Escapable
  <2>4. Reached(t, y + 1, "hex1")
    <3>1. y + 1 = o[i] + 2 + HexPlace("hex1") /\ "hex1" \in DOMAIN NextHex
      BY <1>2 DEF HexPlace, NextHex
    <3> QED
      BY <1>8, <3>1 DEF Reached, TextReached
  <2> QED
    BY <1>3, <1>5, <2>3, <2>4, GoOn
<1> QED
  BY <1>7, <1>8

LEMMA HexReads ==
  ASSUME NEW lines, NEW tokens, NEW chars, NEW p, NEW e, NEW k, NEW t, NEW y,
         InToken(lines, tokens, chars, p, e, k, t, y), InHex,
         NEW str \in Strings, NEW o \in [1 .. Len(str) + 1 -> Nat], EscapedAs(str, Escape(str), o),
         t = Quoted(str), NEW i \in 1 .. Len(str), str[i] = "control", y = o[i] + 2 + HexPlace(state)
  PROVE  ScannerAt(lines, tokens, chars, p, e, k)'
<1>1. Len(str) \in Nat /\ Len(t) \in Nat /\ TextPlace(t, str, o, i)
  BY TextPlaces
<1>2. PICK a \in Nat, b \in Nat : a = o[i] /\ b = o[i + 1] /\ b + 2 <= Len(t)
  BY <1>1 DEF TextPlace
<1>3. str[i] \notin DOMAIN EscapeOf
  BY DEF EscapeOf
<1>4. b = a + 6 /\ \A h \in 1 .. 4 : t[a + 3 + h] \in Hex
  BY <1>1, <1>2, <1>3 DEF TextPlace
<1>5. state \in {"hex1", "hex2", "hex3", "hex4"} /\ NextHex[state] \in Inside
  BY DEF InHex, NextHex, Inside, State, Space, Accepting, HalfNumber
<1>6. PICK h \in 1 .. 4 : h = HexPlace(state) /\ y = a + 2 + h
  BY <1>2, <1>5 DEF HexPlace
<1>7. y < Len(t) /\ y + 1 = a + 3 + h
  <2>1. PICK l \in Nat : l = Len(t)
    BY <1>1
  <2>2. b = a + 6 /\ b + 2 <= l
    BY <1>2, <1>4, <2>1
  <2>3. a + 2 + h < l /\ a + 2 + h + 1 = a + 3 + h
    BY <2>2
  <2> QED
    BY <1>6, <2>1, <2>3
<1>8. Current \in Hex
  <2>1. Current = t[y + 1]
    BY <1>7, NextChar
  <2> QED
    BY <1>4, <1>7, <2>1
<1>9. Advance(NextHex[state])
  BY <1>8 DEF InHex, To
<1>10. Reached(t, y + 1, NextHex[state])
  <2>1. CASE state = "hex4"
    <3>1. h = 4 /\ NextHex[state] = "string"
      BY <1>6, <2>1 DEF HexPlace, NextHex
    <3>2. y + 1 = o[i + 1] + 1 /\ i + 1 \in 1 .. Len(str) + 1
      BY <1>1, <1>2, <1>4, <1>6, <3>1
    <3> QED
      BY <3>1, <3>2 DEF Reached, TextReached
  <2>2. CASE state # "hex4"
    <3>1. HexPlace(NextHex[state]) = h + 1 /\ NextHex[state] \in DOMAIN NextHex
      BY <1>5, <1>6, <2>2 DEF HexPlace, NextHex
    <3>2. y + 1 = o[i] + 2 + HexPlace(NextHex[state])
      BY <1>2, <1>6, <3>1
    <3> QED
      BY <3>1, <3>2 DEF Reached, TextReached
  <2> QED
    BY <2>1, <2>2
<1> QED
  BY <1>5, <1>7, <1>9, <1>10, GoOn

LEMMA TextReads ==
  ASSUME NEW lines, NEW tokens, NEW chars, NEW p, NEW e, Legible(lines, tokens, chars, p, e),
         LexInv, NEW k, ScannerAt(lines, tokens, chars, p, e, k), Text
  PROVE  ScannerAt(lines, tokens, chars, p, e, k)'
<1>1. state \in {"first", "string", "escape", "hex1", "hex2", "hex3", "hex4"} /\ state \in Inside
  BY DEF Text, InString, InEscape, InHex, NextHex, Inside, State, Space, Accepting, HalfNumber
<1>2. PICK t, y : InToken(lines, tokens, chars, p, e, k, t, y) /\ Reached(t, y, state)
  BY <1>1, TokenBegun
<1>3. TextReached(t, y, state)
  BY <1>1, <1>2 DEF Reached, WordReached, NumberReached
<1>35. PICK str \in Strings : \E o \in [1 .. Len(str) + 1 -> Nat] :
       /\ t = Quoted(str) /\ EscapedAs(str, Escape(str), o)
       /\ \/ state \in {"first", "string"} /\ \E i \in 1 .. Len(str) + 1 : y = o[i] + 1
          \/ state = "escape" /\ \E i \in 1 .. Len(str) :
               str[i] \in DOMAIN EscapeOf \cup {"control"} /\ y = o[i] + 2
          \/ state \in DOMAIN NextHex /\ \E i \in 1 .. Len(str) :
               str[i] = "control" /\ y = o[i] + 2 + HexPlace(state)
  BY <1>3 DEF TextReached
<1>4. PICK o \in [1 .. Len(str) + 1 -> Nat] :
       /\ t = Quoted(str) /\ EscapedAs(str, Escape(str), o)
       /\ \/ state \in {"first", "string"} /\ \E i \in 1 .. Len(str) + 1 : y = o[i] + 1
          \/ state = "escape" /\ \E i \in 1 .. Len(str) :
               str[i] \in DOMAIN EscapeOf \cup {"control"} /\ y = o[i] + 2
          \/ state \in DOMAIN NextHex /\ \E i \in 1 .. Len(str) :
               str[i] = "control" /\ y = o[i] + 2 + HexPlace(state)
  BY <1>35
<1>5. CASE state \in {"first", "string"}
  <2>1. InString /\ \E i \in 1 .. Len(str) + 1 : y = o[i] + 1
    BY <1>4, <1>5 DEF Text, InEscape, InHex, NextHex
  <2> QED
    BY <1>2, <1>4, <2>1, StringReads
<1>6. CASE state = "escape"
  <2>1. InEscape /\ \E i \in 1 .. Len(str) : str[i] \in DOMAIN EscapeOf \cup {"control"} /\ y = o[i] + 2
    BY <1>4, <1>6 DEF Text, InString, InHex, NextHex
  <2> QED
    BY <1>2, <1>4, <2>1, EscapeReads
<1>7. CASE state \in {"hex1", "hex2", "hex3", "hex4"}
  <2>1. InHex /\ \E i \in 1 .. Len(str) : str[i] = "control" /\ y = o[i] + 2 + HexPlace(state)
    BY <1>4, <1>7 DEF Text, InString, InEscape, NextHex
  <2> QED
    BY <1>2, <1>4, <2>1, HexReads
<1> QED
  BY <1>1, <1>5, <1>6, <1>7

LEMMA NumberChars == /\ BehindNumber \cap Digit = {} /\ "." \notin BehindNumber /\ "e" \notin BehindNumber
                     /\ "." \notin Digit /\ "e" \notin Digit /\ "+" \notin Digit /\ "-" \notin Digit
  BY DEF BehindNumber, Blank, Digit, NUL

LEMMA NumberStates ==
  {"minus", "zero", "digit", "int", "point", "frac", "e", "sign", "exp"} \subseteq Inside
  BY DEF Inside, State, Space, Accepting, HalfNumber

LEMMA NumberEnds ==
  ASSUME NEW lines, NEW tokens, NEW chars, NEW p, NEW e, NEW k, NEW t, NEW y,
         InToken(lines, tokens, chars, p, e, k, t, y), KindOf(t) = "value_number", y = Len(t),
         state \in Accepting, InNumber
  PROVE  ScannerAt(lines, tokens, chars, p, e, k)'
<1>1. /\ Legible(lines, tokens, chars, p, e) /\ SourceAt(lines, chars, e)
      /\ k \in Nat /\ k < Len(tokens) /\ t = tokens[k + 1] /\ start = p[k + 1] /\ cursor = start + y
  BY DEF InToken
<1>2. k + 1 \in 1 .. Len(tokens)
  <2>1. PICK n \in Nat : n = Len(tokens)
    BY <1>1 DEF Legible
  <2> QED
    BY <1>1, <2>1
<1>3. cursor = Behind(tokens, p, k + 1)
  <2>1. k + 1 # 0
    BY <1>1
  <2> QED
    BY <1>1, <2>1 DEF Behind
<1>4. Current \in BehindNumber
  BY <1>1, <1>2, <1>3, AfterNumber
<1>5. Current \notin Digit /\ Current # "." /\ Current # "e"
  BY <1>4, NumberChars
<1>6. Return(KindOf(t), cursor)
  BY <1>5 DEF InNumber, Continues
<1> QED
  BY <1>1, <1>6, GoOut

(* The end of the integer or of the fraction: an exponent, or nothing.     *)
LEMMA PartEnds ==
  ASSUME NEW lines, NEW tokens, NEW chars, NEW p, NEW e, NEW k, NEW t, NEW y,
         InToken(lines, tokens, chars, p, e, k, t, y), KindOf(t) = "value_number",
         NEW g \in {0, 1}, NEW i \in 1 .. Len(t), NEW f \in 1 .. Len(t), NumeralOf(t, g, i, f),
         y = f, state \in {"zero", "digit", "int", "frac"}, InNumber
  PROVE  ScannerAt(lines, tokens, chars, p, e, k)'
<1>1. PICK l \in Nat : l = Len(t) /\ f \in 1 .. l
  BY ReadableLength DEF InToken
<1>2. state \in Accepting
  BY DEF Accepting
<1>3. CASE f = l
  BY <1>1, <1>2, <1>3, NumberEnds
<1>4. CASE f # l
  <2>1. t[f + 1] = "e" /\ f < l
    BY <1>1, <1>4 DEF NumeralOf
  <2>2. Current = "e"
    BY <1>1, <2>1, NextChar
  <2>3. Advance("e")
    BY <2>2, NumberChars DEF InNumber, Continues, Mark, To
  <2>4. Reached(t, y + 1, "e")
    <3>1. NumberReached(t, y + 1, "e")
      BY <1>1, <2>1 DEF NumberReached
    <3> QED
      BY <3>1 DEF Reached
  <2> QED
    BY <1>1, <2>1, <2>3, <2>4, GoOn, NumberStates
<1> QED
  BY <1>3, <1>4

LEMMA MinusReads ==
  ASSUME NEW lines, NEW tokens, NEW chars, NEW p, NEW e, NEW k, NEW t, NEW y,
         InToken(lines, tokens, chars, p, e, k, t, y),
         NEW i \in 1 .. Len(t), NEW f \in 1 .. Len(t), NumeralOf(t, 1, i, f), y = 1, Minus
  PROVE  ScannerAt(lines, tokens, chars, p, e, k)'
<1>1. PICK l \in Nat : l = Len(t) /\ i \in 1 .. l
  BY ReadableLength DEF InToken
<1>2. 1 < i /\ (\A m \in 1 + 1 .. i : t[m] \in Digit) /\ (t[1 + 1] = "0" => i = 1 + 1)
  BY DEF NumeralOf
<1>3. 2 \in 1 + 1 .. i /\ 1 + 1 = 2 /\ y < Len(t)
  BY <1>1, <1>2
<1>4. Current = t[2] /\ t[2] \in Digit
  BY <1>2, <1>3, NextChar
<1>5. CASE Current = "0"
  <2>1. Advance("zero")
    BY <1>4, <1>5 DEF Minus, Mark
  <2>2. i = 2 /\ y + 1 = 1 + 1
    BY <1>2, <1>3, <1>4, <1>5
  <2>3. NumberReached(t, y + 1, "zero")
    BY <2>2 DEF NumberReached
  <2> QED
    BY <1>3, <2>1, <2>3, GoOn, NumberStates DEF Reached
<1>6. CASE Current # "0"
  <2>1. Advance("int")
    BY <1>4, <1>6 DEF Minus, Mark
  <2>2. y + 1 \in 1 + 1 .. i /\ t[1 + 1] # "0"
    BY <1>3, <1>4, <1>6
  <2>3. NumberReached(t, y + 1, "int")
    BY <2>2 DEF NumberReached
  <2> QED
    BY <1>3, <2>1, <2>3, GoOn, NumberStates DEF Reached
<1> QED
  BY <1>5, <1>6

LEMMA IntReads ==
  ASSUME NEW lines, NEW tokens, NEW chars, NEW p, NEW e, NEW k, NEW t, NEW y,
         InToken(lines, tokens, chars, p, e, k, t, y), KindOf(t) = "value_number",
         NEW g \in {0, 1}, NEW i \in 1 .. Len(t), NEW f \in 1 .. Len(t), NumeralOf(t, g, i, f),
         state \in {"zero", "digit", "int"}, y \in g + 1 .. i,
         state = "zero" => y = i, state # "zero" => t[g + 1] # "0", InNumber
  PROVE  ScannerAt(lines, tokens, chars, p, e, k)'
<1>1. PICK l \in Nat : l = Len(t) /\ i \in 1 .. l /\ f \in 1 .. l
  BY ReadableLength DEF InToken
<1>2. CASE y = i /\ f = i
  BY <1>2, PartEnds
<1>3. CASE y = i /\ f # i
  <2>1. i + 1 < f /\ t[i + 1] = "."
    BY <1>3 DEF NumeralOf
  <2>2. y < Len(t) /\ i < f
    BY <1>1, <1>3, <2>1
  <2>3. Current = "."
    BY <1>3, <2>1, <2>2, NextChar
  <2>4. Advance("point")
    BY <2>3, NumberChars DEF InNumber, Continues, Mark, To
  <2>5. NumberReached(t, y + 1, "point")
    BY <1>3, <2>2 DEF NumberReached
  <2> QED
    BY <2>2, <2>4, <2>5, GoOn, NumberStates DEF Reached
<1>4. CASE y # i
  <2>1. y < i /\ y + 1 \in g + 1 .. i /\ y < Len(t)
    BY <1>1, <1>4
  <2>2. t[y + 1] \in Digit
    BY <2>1 DEF NumeralOf
  <2>3. Current \in Digit /\ state \in {"digit", "int"}
    BY <1>4, <2>1, <2>2, NextChar
  <2>4. Advance("int")
    BY <2>3, NumberChars DEF InNumber, Continues, Mark, To
  <2>5. NumberReached(t, y + 1, "int")
    BY <2>1, <2>3 DEF NumberReached
  <2> QED
    BY <2>1, <2>4, <2>5, GoOn, NumberStates DEF Reached
<1> QED
  BY <1>2, <1>3, <1>4

LEMMA FracReads ==
  ASSUME NEW lines, NEW tokens, NEW chars, NEW p, NEW e, NEW k, NEW t, NEW y,
         InToken(lines, tokens, chars, p, e, k, t, y), KindOf(t) = "value_number",
         NEW g \in {0, 1}, NEW i \in 1 .. Len(t), NEW f \in 1 .. Len(t), NumeralOf(t, g, i, f),
         \/ state = "frac" /\ y \in i + 2 .. f /\ InNumber
         \/ state = "point" /\ y = i + 1 /\ i < f /\ InHalfNumber
  PROVE  ScannerAt(lines, tokens, chars, p, e, k)'
<1>1. PICK l \in Nat : l = Len(t) /\ i \in 1 .. l /\ f \in 1 .. l
  BY ReadableLength DEF InToken
<1>2. i + 1 < f /\ \A m \in i + 2 .. f : t[m] \in Digit
  BY <1>1 DEF NumeralOf
<1>3. CASE y = f
  <2>1. state = "frac" /\ InNumber
    BY <1>1, <1>2, <1>3
  <2> QED
    BY <1>3, <2>1, PartEnds
<1>4. CASE y # f
  <2>1. y < f /\ y + 1 \in i + 2 .. f /\ y < Len(t)
    BY <1>1, <1>2, <1>4
  <2>2. Current \in Digit
    BY <1>2, <2>1, NextChar
  <2>3. Advance("frac")
    BY <2>2, NumberChars DEF InNumber, InHalfNumber, HalfNumber, Continues, Mark, To
  <2>4. NumberReached(t, y + 1, "frac")
    BY <2>1 DEF NumberReached
  <2> QED
    BY <2>1, <2>3, <2>4, GoOn, NumberStates DEF Reached
<1> QED
  BY <1>3, <1>4

LEMMA ExpReads ==
  ASSUME NEW lines, NEW tokens, NEW chars, NEW p, NEW e, NEW k, NEW t, NEW y,
         InToken(lines, tokens, chars, p, e, k, t, y), KindOf(t) = "value_number",
         NEW g \in {0, 1}, NEW i \in 1 .. Len(t), NEW f \in 1 .. Len(t), NumeralOf(t, g, i, f),
         \/ state = "e" /\ y = f + 1 /\ f < Len(t) /\ InHalfNumber
         \/ state = "sign" /\ y = f + 2 /\ f < Len(t) /\ t[f + 2] \in {"+", "-"} /\ InHalfNumber
         \/ state = "exp" /\ y \in f + 2 .. Len(t) /\ InNumber
  PROVE  ScannerAt(lines, tokens, chars, p, e, k)'
<1>1. PICK l \in Nat : l = Len(t) /\ f \in 1 .. l
  BY ReadableLength DEF InToken
<1>2. /\ f < l /\ f + 1 < l
      /\ t[f + 2] \in Digit \/ (t[f + 2] \in {"+", "-"} /\ f + 2 < l)
      /\ \A m \in f + 3 .. l : t[m] \in Digit
  BY <1>1 DEF NumeralOf
<1>3. CASE state = "exp" /\ y = l
  BY <1>1, <1>3, NumberEnds DEF Accepting
<1>4. CASE state = "exp" /\ y # l
  <2>1. y < l /\ y + 1 \in f + 3 .. l /\ y + 1 \in f + 2 .. l /\ y + 1 > f + 2
    BY <1>1, <1>4
  <2>2. Current \in Digit
    BY <1>1, <1>2, <2>1, NextChar
  <2>3. Advance("exp")
    BY <1>4, <2>2, NumberChars DEF InNumber, Continues, Mark, To
  <2>4. NumberReached(t, y + 1, "exp")
    BY <1>1, <2>1 DEF NumberReached
  <2> QED
    BY <1>1, <2>1, <2>3, <2>4, GoOn, NumberStates DEF Reached
<1>5. CASE state = "sign"
  <2>1. t[f + 2] \notin Digit
    BY <1>5, NumberChars
  <2>2. y = f + 2 /\ f + 2 < l
    BY <1>2, <1>5, <2>1
  <2>3. y < l /\ y + 1 \in f + 3 .. l /\ y + 1 \in f + 2 .. l /\ y + 1 > f + 2
    BY <1>1, <2>2
  <2>4. Current \in Digit
    BY <1>1, <1>2, <2>3, NextChar
  <2>5. Advance("exp")
    BY <1>5, <2>4, NumberChars DEF InHalfNumber, Mark, To
  <2>6. NumberReached(t, y + 1, "exp")
    BY <1>1, <2>3 DEF NumberReached
  <2> QED
    BY <1>1, <2>3, <2>5, <2>6, GoOn, NumberStates DEF Reached
<1>6. CASE state = "e"
  <2>1. y = f + 1 /\ y < l /\ y + 1 = f + 2
    BY <1>1, <1>2, <1>6
  <2>2. Current = t[f + 2]
    <3>1. Current = t[y + 1]
      BY <1>1, <2>1, NextChar
    <3> QED
      BY <2>1, <3>1
  <2>3. CASE t[f + 2] \in Digit
    <3>1. Advance("exp")
      BY <1>6, <2>2, <2>3, NumberChars DEF InHalfNumber, Mark, To
    <3>2. NumberReached(t, y + 1, "exp")
      <4>1. y + 1 \in f + 2 .. Len(t)
        BY <1>1, <2>1
      <4> QED
        BY <2>3, <4>1 DEF NumberReached
    <3> QED
      BY <1>1, <2>1, <3>1, <3>2, GoOn, NumberStates DEF Reached
  <2>4. CASE t[f + 2] \in {"+", "-"}
    <3>1. Advance("sign")
      BY <1>6, <2>2, <2>4, NumberChars DEF InHalfNumber, Mark, To
    <3>2. NumberReached(t, y + 1, "sign")
      BY <1>1, <1>2, <2>1, <2>4 DEF NumberReached
    <3> QED
      BY <1>1, <2>1, <3>1, <3>2, GoOn, NumberStates DEF Reached
  <2> QED
    BY <1>2, <2>3, <2>4
<1> QED
  BY <1>3, <1>4, <1>5, <1>6

LEMMA NumberReads ==
  ASSUME NEW lines, NEW tokens, NEW chars, NEW p, NEW e, Legible(lines, tokens, chars, p, e),
         LexInv, NEW k, ScannerAt(lines, tokens, chars, p, e, k), Number
  PROVE  ScannerAt(lines, tokens, chars, p, e, k)'
<1>1. state \in {"minus", "zero", "digit", "int", "point", "frac", "e", "sign", "exp"} /\ state \in Inside
  BY NumberStates DEF Number, Minus, InNumber, InHalfNumber, Accepting, HalfNumber
<1>2. PICK t, y : InToken(lines, tokens, chars, p, e, k, t, y) /\ Reached(t, y, state)
  BY <1>1, TokenBegun
<1>3. NumberReached(t, y, state)
  BY <1>1, <1>2 DEF Reached, WordReached, TextReached, NextHex
<1>4. PICK g \in {0, 1}, i \in 1 .. Len(t), f \in 1 .. Len(t) :
        /\ NumeralOf(t, g, i, f)
        /\ \/ state = "minus" /\ y = 1 /\ g = 1
           \/ state = "zero"  /\ y = g + 1 /\ y = i
           \/ state = "digit" /\ y = 1 /\ g = 0 /\ t[g + 1] # "0"
           \/ state = "int"   /\ y \in g + 1 .. i /\ t[g + 1] # "0"
           \/ state = "point" /\ y = i + 1 /\ i < f
           \/ state = "frac"  /\ y \in i + 2 .. f
           \/ state = "e"     /\ y = f + 1 /\ f < Len(t)
           \/ state = "sign"  /\ y = f + 2 /\ f < Len(t) /\ t[f + 2] \in {"+", "-"}
           \/ state = "exp"   /\ y \in f + 2 .. Len(t) /\ (t[f + 2] \in Digit \/ y > f + 2)
  BY <1>3 DEF NumberReached
<1>5. KindOf(t) = "value_number"
  <2>1. Numeral(t)
    BY <1>4 DEF Numeral, NumeralOf
  <2>2. Len(t) \in Nat
    BY <1>2, ReadableLength DEF InToken
  <2> QED
    BY <2>1, <2>2, NumberKind
<1>6. CASE state = "minus"
  <2>1. Minus /\ g = 1 /\ y = 1
    BY <1>4, <1>6 DEF Number, InNumber, InHalfNumber, Accepting, HalfNumber
  <2> QED
    BY <1>2, <1>4, <2>1, MinusReads
<1>7. CASE state \in {"zero", "digit", "int"}
  <2>1. InNumber
    BY <1>7 DEF Number, Minus, InHalfNumber, HalfNumber
  <2>2. g < i /\ g \in Nat /\ i \in Nat
    <3>1. PICK l \in Nat : l = Len(t)
      BY <1>2, ReadableLength DEF InToken
    <3> QED
      BY <1>4, <3>1 DEF NumeralOf
  <2>3. y \in g + 1 .. i /\ (state = "zero" => y = i) /\ (state # "zero" => t[g + 1] # "0")
    BY <1>4, <1>7, <2>2
  <2> QED
    BY <1>2, <1>4, <1>5, <1>7, <2>1, <2>3, IntReads
<1>8. CASE state \in {"frac", "point"}
  <2>1. (state = "frac" => InNumber) /\ (state = "point" => InHalfNumber)
    BY <1>8 DEF Number, Minus, InNumber, InHalfNumber, Accepting, HalfNumber
  <2>2. \/ state = "frac" /\ y \in i + 2 .. f /\ InNumber
        \/ state = "point" /\ y = i + 1 /\ i < f /\ InHalfNumber
    BY <1>4, <1>8, <2>1
  <2> QED
    BY <1>2, <1>4, <1>5, <2>2, FracReads
<1>9. CASE state \in {"e", "sign", "exp"}
  <2>1. (state = "exp" => InNumber) /\ (state # "exp" => InHalfNumber)
    BY <1>9 DEF Number, Minus, InNumber, InHalfNumber, Accepting, HalfNumber
  <2>2. \/ state = "e" /\ y = f + 1 /\ f < Len(t) /\ InHalfNumber
        \/ state = "sign" /\ y = f + 2 /\ f < Len(t) /\ t[f + 2] \in {"+", "-"} /\ InHalfNumber
        \/ state = "exp" /\ y \in f + 2 .. Len(t) /\ InNumber
    BY <1>4, <1>9, <2>1
  <2> QED
    BY <1>2, <1>4, <1>5, <2>2, ExpReads
<1> QED
  BY <1>1, <1>6, <1>7, <1>8, <1>9

LEMMA FirstReads ==
  ASSUME NEW lines, NEW tokens, NEW chars, NEW p, NEW e, Legible(lines, tokens, chars, p, e),
         LexInv, NEW k, ScannerAt(lines, tokens, chars, p, e, k), First
  PROVE  ScannerAt(lines, tokens, chars, p, e, k)'
<1>1. PICK n \in Nat : n = Len(tokens)
  BY DEF Legible
<1>2. SourceAt(lines, chars, e) /\ ScanAt(tokens, chars, p, k) /\ state = "scan"
  BY DEF ScannerAt, First
<1>3. /\ k \in 0 .. n /\ start = cursor /\ Behind(tokens, p, k) <= cursor /\ cursor <= p[k + 1]
      /\ cursor <= Len(buffer) \/ Len(buffer) = Len(chars)
  BY <1>1, <1>2 DEF ScanAt
<1>4. cursor \in Nat /\ Len(buffer) \in Nat /\ Len(buffer) <= Len(chars) /\ Len(chars) \in Nat
  BY <1>2, PlacesOf, BufferHas DEF LexInv, WithLimits
<1>5. Behind(tokens, p, k) \in Nat \ {0} /\ p[k + 1] \in Nat /\ p[k + 1] <= Len(chars) + 1
  BY <1>1, <1>3, PlacesOf
<1>6. CASE cursor < p[k + 1]
  <2>1. cursor <= Len(buffer)
    BY <1>3, <1>4, <1>5, <1>6
  <2>2. Current \in Blank
    BY <1>1, <1>2, <1>3, <1>4, <1>6, <2>1, BlankHere
  <2>3. \E s \in Space : Advance(s)
    BY <2>2 DEF First, Blank, NUL, Punctuation, Literal, Digit, Space, To
  <2> QED
    BY <1>1, <1>2, <1>3, <1>6, <2>1, <2>3, BlankPassed
<1>7. CASE cursor = p[k + 1] /\ k = n
  <2>1. cursor = Len(chars) + 1
    BY <1>1, <1>7, LastPlace
  <2>2. cursor > Len(buffer)
    BY <1>4, <2>1
  <2>3. Current = NUL
    BY <1>2, <1>4, <2>2, BufferHas DEF Current
  <2>4. Return("end_of_input", cursor + 1)
    BY <2>3 DEF First, Blank, NUL, Punctuation, Literal, Digit
  <2>5. state' = "token" /\ token' = "end_of_input" /\ UNCHANGED source
    BY <2>4 DEF Return
  <2>6. SourceAt(lines, chars, e)'
    BY <1>2, <2>5 DEF source, SourceAt, BufferAt
  <2>7. state' \notin {"begin", "scan"} \cup Space \cup Inside
    BY <2>5 DEF Inside, Space
  <2>8. ScanAt(tokens, chars, p, k)'
    BY <1>1, <1>3, <1>7, <2>5, <2>7 DEF ScanAt
  <2> QED
    BY <2>6, <2>8 DEF ScannerAt
<1>8. CASE cursor = p[k + 1] /\ k # n
  <2>1. k < n /\ k + 1 \in 1 .. n /\ k \in Nat
    BY <1>3, <1>8
  <2>2. PICK t : t = tokens[k + 1] /\ Readable(t)
    BY <1>1, <2>1 DEF Legible, AllReadable
  <2>3. PICK l \in Nat \ {0} : l = Len(t)
    BY <2>2, ReadableLength
  <2>4. cursor <= Len(buffer)
    <3>0. k + 1 # 0
      BY <2>1
    <3>1. Behind(tokens, p, k + 1) = p[k + 1] + l
      BY <2>2, <2>3, <3>0 DEF Behind
    <3>2. k + 1 \in 0 .. n
      BY <2>1
    <3>3. Behind(tokens, p, k + 1) <= p[k + 1 + 1] /\ p[k + 1 + 1] <= Len(chars) + 1 /\ p[k + 1 + 1] \in Nat
      BY <1>1, <3>2, PlacesOf
    <3>4. p[k + 1] + l <= Len(chars) + 1
      BY <1>4, <1>5, <3>1, <3>3
    <3> QED
      BY <1>3, <1>4, <1>5, <1>8, <3>4
  <2>5. InToken(lines, tokens, chars, p, e, k, t, 0)
    BY <1>1, <1>2, <1>3, <1>4, <1>8, <2>1, <2>2, <2>3, <2>4 DEF InToken
  <2>6. Current = t[1] /\ 0 < Len(t)
    <3>1. 0 < Len(t) /\ 0 + 1 = 1
      BY <2>3
    <3> QED
      BY <2>5, <3>1, NextChar
  <2>7. \A s : Reached(t, 1, s) => Reached(t, 0 + 1, s)
    OBVIOUS
  <2>8. CASE PunctuationToken(t)
    <3>1. PICK c \in DOMAIN Punctuation : t = <<c>>
      BY <2>8 DEF PunctuationToken
    <3>2. t[1] = c /\ Len(t) = 1
      BY <3>1
    <3>3. Return(KindOf(t), cursor + 1)
      <4>1. Current = c /\ KindOf(t) = Punctuation[c]
        BY <2>6, <3>2 DEF KindOf
      <4>2. c \notin Blank \cup DOMAIN Literal \cup Digit \cup {NUL, "-", "quote"}
        BY DEF Blank, NUL, Punctuation, Literal, Digit
      <4>3. Return(Punctuation[Current], cursor + 1)
        BY <4>1, <4>2 DEF First, Blank, Digit
      <4> QED
        BY <4>1, <4>3
    <3>4. cursor + 1 = start + Len(t)
      BY <1>3, <3>2
    <3> QED
      BY <2>5, <3>3, <3>4, GoOut
  <2>9. CASE WordToken(t)
    <3>1. PICK c \in DOMAIN Literal : t = Literal[c].word
      BY <2>9 DEF WordToken
    <3>2. t[1] = c /\ 1 < Len(t)
      <4>1. c \in {"n", "t", "f"}
        BY <3>1 DEF Literal
      <4>2. t[1] = c
        BY <3>1, <4>1 DEF Literal
      <4> QED
        BY <3>1, <4>2, Words
    <3>3. Advance("literal") /\ "literal" \in Inside
      <4>1. Current \in DOMAIN Literal
        BY <2>6, <3>2
      <4>2. Current \notin Blank \cup DOMAIN Punctuation \cup Digit \cup {NUL, "-", "quote"}
        BY <4>1 DEF Blank, NUL, Punctuation, Literal, Digit
      <4> QED
        BY <4>1, <4>2 DEF First, Blank, Digit, Mark, Inside, State, Space, Accepting, HalfNumber
    <3>4. Reached(t, 0 + 1, "literal")
      BY <2>9, <3>2 DEF Reached, WordReached
    <3> QED
      BY <2>5, <2>6, <3>3, <3>4, GoOn
  <2>10. CASE TextToken(t)
    <3>1. PICK str \in Strings : t = Quoted(str)
      BY <2>10 DEF TextToken
    <3>2. t[1] = "quote"
      BY <3>1, QuotedMeans DEF Strings
    <3>3. Advance("first") /\ "first" \in Inside
      <4>1. Current = "quote"
        BY <2>6, <3>2
      <4> QED
        BY <4>1 DEF First, Blank, NUL, Punctuation, Literal, Digit, Mark, Inside, State, Space, Accepting, HalfNumber
    <3>4. Reached(t, 0 + 1, "first")
      <4>1. PICK o \in [1 .. Len(str) + 1 -> Nat] : EscapedAs(str, Escape(str), o)
        BY EscapeMeans DEF Strings
      <4>2. Len(str) \in Nat
        BY DEF Strings
      <4>3. 1 \in 1 .. Len(str) + 1 /\ 0 + 1 = o[1] + 1
        BY <4>1, <4>2 DEF EscapedAs
      <4>4. TextReached(t, 0 + 1, "first")
        BY <3>1, <4>1, <4>3 DEF TextReached
      <4> QED
        BY <4>4 DEF Reached
    <3> QED
      BY <2>5, <2>6, <3>3, <3>4, GoOn
  <2>11. CASE Numeral(t)
    <3>1. PICK g \in {0, 1}, i \in 1 .. Len(t), f \in 1 .. Len(t) : NumeralOf(t, g, i, f)
      BY <2>11 DEF Numeral, NumeralOf
    <3>2. CASE g = 1
      <4>1. Current = "-"
        BY <2>6, <3>1, <3>2 DEF NumeralOf
      <4>2. Advance("minus")
        BY <4>1 DEF First, Blank, NUL, Punctuation, Literal, Digit, To
      <4>3. NumberReached(t, 0 + 1, "minus")
        BY <3>1, <3>2 DEF NumberReached
      <4> QED
        BY <2>5, <2>6, <4>2, <4>3, GoOn, NumberStates DEF Reached
    <3>3. CASE g = 0
      <4>1. /\ \A m \in 0 + 1 .. i : t[m] \in Digit
            /\ t[0 + 1] = "0" => i = 0 + 1
        BY <3>1, <3>3 DEF NumeralOf
      <4>2. 1 \in 0 + 1 .. i /\ 0 + 1 = 1
        BY <2>3
      <4>3. Current \in Digit
        BY <2>6, <4>1, <4>2
      <4>4. Current \notin Blank \cup DOMAIN Punctuation \cup DOMAIN Literal \cup {NUL, "-", "quote"}
        BY <4>3 DEF Blank, NUL, Punctuation, Literal, Digit
      <4>5. CASE Current = "0"
        <5>1. Advance("zero")
          BY <4>3, <4>4, <4>5 DEF First, Blank, Mark
        <5>2. i = 1
          BY <2>6, <4>1, <4>2, <4>5
        <5>3. NumberReached(t, 0 + 1, "zero")
          BY <3>1, <3>3, <5>2 DEF NumberReached
        <5> QED
          BY <2>5, <2>6, <5>1, <5>3, GoOn, NumberStates DEF Reached
      <4>6. CASE Current # "0"
        <5>1. Advance("digit")
          BY <4>3, <4>4, <4>6 DEF First, Blank, Mark
        <5>2. t[0 + 1] # "0"
          BY <2>6, <4>2, <4>6
        <5>3. NumberReached(t, 0 + 1, "digit")
          BY <3>1, <3>3, <5>2 DEF NumberReached
        <5> QED
          BY <2>5, <2>6, <5>1, <5>3, GoOn, NumberStates DEF Reached
      <4> QED
        BY <4>5, <4>6
    <3> QED
      BY <3>2, <3>3
  <2> QED
    BY <2>2, <2>8, <2>9, <2>10, <2>11 DEF Readable
<1> QED
  BY <1>3, <1>4, <1>5, <1>6, <1>7, <1>8

(* Every step of the scanner goes on in the tokens that were written.      *)
LEMMA ScannerReads ==
  ASSUME NEW lines, NEW tokens, NEW chars, NEW p, NEW e, Legible(lines, tokens, chars, p, e),
         LexInv, NEW k, ScannerAt(lines, tokens, chars, p, e, k), Scan
  PROVE  ScannerAt(lines, tokens, chars, p, e, k)'
  BY BeginReads, FirstReads, WhiteReads, WordReads, TextReads, NumberReads DEF Scan

(* What a token says is what was written.                                  *)
LEMMA LexemeIs ==
  ASSUME NEW lines, NEW tokens, NEW chars, NEW p, NEW e, Legible(lines, tokens, chars, p, e),
         NEW k, ScannerAt(lines, tokens, chars, p, e, k), state = "token", token # "end_of_input"
  PROVE  /\ k \in Nat /\ k < Len(tokens) /\ token = KindOf(tokens[k + 1])
         /\ Lexeme = tokens[k + 1] /\ (token = "value_number" => Converts)
<1>1. PICK n \in Nat : n = Len(tokens)
  BY DEF Legible
<1>2. SourceAt(lines, chars, e) /\ ScanAt(tokens, chars, p, k)
  BY DEF ScannerAt
<1>3. /\ k \in 0 .. n /\ k < n /\ token = KindOf(tokens[k + 1]) /\ start = p[k + 1] /\ start <= Len(buffer)
      /\ cursor = Behind(tokens, p, k + 1)
  BY <1>1, <1>2 DEF ScanAt
<1>4. k \in Nat /\ k + 1 \in 1 .. n
  BY <1>3
<1>5. PICK t \in Seq(Chars) : t = tokens[k + 1] /\ Readable(t)
  BY <1>1, <1>4 DEF Legible, AllReadable, Readable
<1>6. PICK l \in Nat \ {0} : l = Len(t)
  BY <1>5, ReadableLength
<1>7. PICK a \in Nat : a = start /\ a = p[k + 1] /\ cursor = a + l
  <2>1. p[k + 1] \in Nat
    BY <1>1, <1>3, PlacesOf
  <2>2. k + 1 # 0
    BY <1>4
  <2>3. Behind(tokens, p, k + 1) = p[k + 1] + l
    BY <1>5, <1>6, <2>2 DEF Behind
  <2> QED
    BY <1>3, <2>1, <2>3
<1>8. a >= 1
  <2>1. k \in 0 .. n
    BY <1>3
  <2>2. Behind(tokens, p, k) \in Nat \ {0} /\ Behind(tokens, p, k) <= p[k + 1]
    BY <1>1, <2>1, PlacesOf
  <2> QED
    BY <1>7, <2>2
<1>9. buffer \in Seq(Chars) /\ Len(buffer) \in Nat /\ a + l <= Len(buffer) + 1
  <2>1. Behind(tokens, p, k + 1) <= Len(buffer) + 1 /\ Len(buffer) \in Nat
    BY <1>1, <1>2, <1>3, <1>4, BufferHas
  <2> QED
    BY <1>2, <1>3, <1>7, <2>1 DEF SourceAt
<1>10. PICK w : w = Lexeme
  OBVIOUS
<1>11. w \in Seq(Chars) /\ Len(w) = l /\ \A x \in 1 .. l : w[x] = buffer[x + (a - 1)]
  <2>1. PICK i \in Nat, j \in Nat : i = a - 1 /\ j = a + l - 1
    BY <1>8
  <2>2. i <= j /\ j <= Len(buffer) /\ j - i = l /\ i + 1 = a
    BY <1>9, <2>1
  <2>3. i <= j /\ j <= Len(buffer)
    BY <2>2
  <2>4. /\ SubSeq(buffer, i + 1, j) \in Seq(Chars) /\ Len(SubSeq(buffer, i + 1, j)) = j - i
        /\ \A x \in 1 .. j - i : SubSeq(buffer, i + 1, j)[x] = buffer[x + i]
    BY <1>9, <2>3, SubSequenceMeans
  <2>5. w = SubSeq(buffer, i + 1, j)
    <3>1. start = i + 1 /\ cursor - 1 = j
      BY SMTT(60), <1>7, <2>1, <2>2
    <3> QED
      BY <1>10, <3>1 DEF Lexeme
  <2> QED
    BY <2>1, <2>2, <2>4, <2>5
<1>12. ASSUME NEW x \in 1 .. l PROVE w[x] = t[x]
  <2>1. x + (a - 1) \in Nat /\ x + (a - 1) = a + x - 1
    BY <1>8
  <2>2. a + x - 1 \in 1 .. Len(buffer)
    <3>1. PICK b \in Nat : b = Len(buffer)
      BY <1>9
    <3>2. a + l <= b + 1
      BY <1>9, <3>1
    <3>3. a + x - 1 \in 1 .. b
      BY <1>8, <3>2
    <3> QED
      BY <3>1, <3>3
  <2>3. buffer[a + x - 1] = chars[a + x - 1]
    BY <1>2, <2>1, <2>2, BufferHas
  <2>4. chars[p[k + 1] + x - 1] = tokens[k + 1][x]
    BY <1>1, <1>4, <1>5, <1>6, TokenAt
  <2> QED
    BY <1>5, <1>7, <1>11, <2>1, <2>3, <2>4
<1>13. w = t
  BY <1>5, <1>6, <1>11, <1>12, SameSequence
<1>14. ASSUME token = "value_number" PROVE Converts
  <2>1. Current \in BehindNumber
    BY <1>1, <1>2, <1>3, <1>4, <1>14, AfterNumber
  <2> QED
    BY <2>1, NumberChars DEF Converts
<1> QED
  BY <1>1, <1>3, <1>4, <1>5, <1>10, <1>13, <1>14

-----------------------------------------------------------------------------
(* The dump of an array or object, with the places of its members in it.   *)
Spot(of, w) == CHOOSE a \in [1 .. Len(Members(w)) -> Nat] : Within(w, of, a)

Shape(of, w, m, a, q) ==
    /\ m \in Nat /\ m = Len(Members(w)) /\ a = Spot(of, w)
    /\ Len(of[w]) \in Nat /\ Len(of[w]) >= 2
    /\ of[w][1] = Opening(w) /\ of[w][Len(of[w])] = Closing(w)
    /\ m = 0 => Len(of[w]) = 2
    /\ m > 0 => a[1] = 1 + Lead(w) /\ Len(of[w]) = a[m] + q[m] + 1
    /\ \A i \in 1 .. m :
         /\ Members(w)[i] \in DOMAIN of
         /\ a[i] \in Nat /\ q[i] \in Nat \ {0} /\ q[i] = Len(of[Members(w)[i]])
         /\ a[i] >= 1 + Lead(w) /\ a[i] + q[i] < Len(of[w])
         /\ \A x \in 1 .. q[i] : of[w][a[i] + x] = of[Members(w)[i]][x]
         /\ w.type = "object" => of[w][a[i] - 1] = Quoted(Keys(w)[i]) /\ of[w][a[i]] = ColonMark
         /\ i < m => a[i + 1] = a[i] + q[i] + 1 + Lead(w) /\ of[w][a[i] + q[i] + 1] = Comma

(* What a value begins with.                                               *)
LEMMA ValueBegins ==
  ASSUME NEW of, Writes(of), NEW w \in DOMAIN of
  PROVE  /\ Len(of[w]) \in Nat \ {0} /\ KindOf(of[w][1]) \in ValueTokens
         /\ w.type = "object" <=> KindOf(of[w][1]) = "begin_object"
         /\ w.type = "array" <=> KindOf(of[w][1]) = "begin_array"
<1>1. Len(of[w]) \in Nat
  <2>1. of[w] \in Seq(Seq(Chars))
    BY WrittenOf
  <2> QED
    BY <2>1
<1>2. CASE w.type \notin Compound
  <2>1. /\ Len(of[w]) = 1
        /\ KindOf(of[w][1]) \in {"literal_null", "literal_true", "literal_false", "value_string", "value_number"}
    BY <1>2, ScalarWritten
  <2> QED
    BY <1>2, <2>1 DEF ValueTokens, Compound
<1>3. CASE w.type \in Compound
  <2>1. PICK a \in [1 .. Len(Members(w)) -> Nat] : Within(w, of, a)
    BY <1>3, CompoundLaid
  <2>2. Len(of[w]) >= 2 /\ of[w][1] = Opening(w)
    BY <2>1 DEF Within, Laid
  <2>3. \/ w.type = "object" /\ KindOf(of[w][1]) = "begin_object"
        \/ w.type = "array" /\ KindOf(of[w][1]) = "begin_array"
    BY <1>3, <2>2, MarkKinds DEF Opening, Compound
  <2> QED
    BY <1>1, <2>2, <2>3 DEF ValueTokens
<1> QED
  BY <1>2, <1>3

LEMMA ShapeOf ==
  ASSUME NEW of, Writes(of), NEW w \in DOMAIN of, w.type \in Compound
  PROVE  \E m, a, q : Shape(of, w, m, a, q)
<1>1. PICK m \in Nat : m = Len(Members(w))
  BY WrittenOf
<1>2. PICK M : M = Members(w) /\ \A i \in 1 .. m : M[i] \in DOMAIN of
  <2>1. Members(w) \in Seq(DOMAIN of)
    BY WrittenOf
  <2> QED
    BY <1>1, <2>1
<1>3. PICK q \in [1 .. m -> Nat] : \A i \in 1 .. m : q[i] = Len(of[M[i]]) /\ q[i] # 0
  <2> DEFINE f == [i \in 1 .. m |-> Len(of[M[i]])]
  <2>1. \A i \in 1 .. m : Len(of[M[i]]) \in Nat \ {0}
    BY <1>2, ValueBegins
  <2>2. f \in [1 .. m -> Nat] /\ \A i \in 1 .. m : f[i] = Len(of[M[i]]) /\ f[i] # 0
    BY <2>1
  <2> QED
    BY <2>2
<1>4. PICK a : a = Spot(of, w) /\ a \in [1 .. m -> Nat] /\ Within(w, of, a)
  <2>1. \E b \in [1 .. m -> Nat] : Within(w, of, b)
    BY <1>1, CompoundLaid
  <2>2. Spot(of, w) \in [1 .. m -> Nat] /\ Within(w, of, Spot(of, w))
    BY <1>1, <2>1 DEF Spot
  <2> QED
    BY <2>2
<1>5. PICK t \in Seq(Seq(Chars)) : t = of[w]
  BY WrittenOf
<1>6. PICK L \in Nat : L = Len(t)
  BY <1>5
<1>7. PICK c \in {0, 2} : c = Lead(w)
  BY DEF Lead
<1> DEFINE Q == Dumps(w, of)
           H == Heads(w)
<1>8. \A i \in 1 .. m : Q[i] = of[M[i]] /\ Len(Q[i]) = q[i]
  BY <1>1, <1>2, <1>3 DEF Dumps
<1>9. \A i \in 1 .. m : H[i][1] = Quoted(Keys(w)[i]) /\ H[i][2] = ColonMark
  BY <1>1 DEF Heads
<1>10. Laid(t, Opening(w), Closing(w), m, Q, H, c, a)
  BY <1>1, <1>4, <1>5, <1>7 DEF Within
<1> HIDE DEF Q, H
<1>11. L >= 2 /\ t[1] = Opening(w) /\ t[L] = Closing(w) /\ (m = 0 => L = 2)
  BY <1>6, <1>10 DEF Laid
<1>12. m > 0 => a[1] = 1 + c /\ L = a[m] + q[m] + 1
  <2>1. m > 0 => m \in 1 .. m
    OBVIOUS
  <2>2. m > 0 => a[1] = 1 + c /\ L = a[m] + Len(Q[m]) + 1
    BY <1>6, <1>10 DEF Laid
  <2> QED
    BY <1>8, <2>1, <2>2
<1>13. ASSUME NEW i \in 1 .. m
       PROVE  /\ a[i] \in Nat /\ a[i] >= 1 + c /\ a[i] + q[i] < L
              /\ \A x \in 1 .. q[i] : t[a[i] + x] = of[M[i]][x]
              /\ w.type = "object" => t[a[i] - 1] = Quoted(Keys(w)[i]) /\ t[a[i]] = ColonMark
              /\ i < m => a[i + 1] = a[i] + q[i] + 1 + c /\ t[a[i] + q[i] + 1] = Comma
  <2>1. Q[i] = of[M[i]] /\ Len(Q[i]) = q[i] /\ a[i] \in Nat
    BY <1>4, <1>8
  <2>2. a[i] >= 1 + c /\ a[i] + Len(Q[i]) < L
    BY <1>6, <1>10 DEF Laid
  <2>3. \A x \in 1 .. Len(Q[i]) : t[a[i] + x] = Q[i][x]
    BY <1>10 DEF Laid
  <2>4. \A x \in 1 .. c : t[a[i] - c + x] = H[i][x]
    BY <1>10 DEF Laid
  <2>5. i < m => a[i + 1] = a[i] + q[i] + 1 + c /\ t[a[i] + q[i] + 1] = Comma
    <3>1. i < m => i \in 1 .. m - 1
      OBVIOUS
    <3>2. i < m => a[i + 1] = a[i] + Len(Q[i]) + 1 + c /\ t[a[i] + Len(Q[i]) + 1] = Comma
      BY <1>10, <3>1 DEF Laid
    <3> QED
      BY <2>1, <3>2
  <2>6. CASE w.type = "object"
    <3>1. c = 2
      BY <1>7, <2>6 DEF Lead
    <3>2. t[a[i] - 2 + 1] = H[i][1] /\ t[a[i] - 2 + 2] = H[i][2]
      <4>1. 1 \in 1 .. c /\ 2 \in 1 .. c
        BY <3>1
      <4> QED
        BY <2>4, <3>1, <4>1
    <3>3. a[i] - 2 + 1 = a[i] - 1 /\ a[i] - 2 + 2 = a[i]
      BY <2>1
    <3>4. t[a[i] - 1] = Quoted(Keys(w)[i]) /\ t[a[i]] = ColonMark
      BY <1>9, <3>2, <3>3
    <3> QED
      BY <2>1, <2>2, <2>3, <2>5, <3>4
  <2>7. CASE w.type # "object"
    BY <2>1, <2>2, <2>3, <2>5, <2>7
  <2> QED
    BY <2>6, <2>7
<1>14. Shape(of, w, m, a, q)
  <2>1. /\ m = Len(Members(w)) /\ a = Spot(of, w) /\ Len(of[w]) = L /\ Lead(w) = c /\ of[w] = t /\ Members(w) = M
    BY <1>1, <1>2, <1>4, <1>5, <1>6, <1>7
  <2>2. /\ L >= 2 /\ of[w][1] = Opening(w) /\ of[w][Len(of[w])] = Closing(w) /\ (m = 0 => L = 2)
        /\ m > 0 => a[1] = 1 + Lead(w) /\ Len(of[w]) = a[m] + q[m] + 1
    BY <1>11, <1>12, <2>1
  <2>3. ASSUME NEW i \in 1 .. m
        PROVE  /\ Members(w)[i] \in DOMAIN of
               /\ a[i] \in Nat /\ q[i] \in Nat \ {0} /\ q[i] = Len(of[Members(w)[i]])
               /\ a[i] >= 1 + Lead(w) /\ a[i] + q[i] < Len(of[w])
               /\ \A x \in 1 .. q[i] : of[w][a[i] + x] = of[Members(w)[i]][x]
               /\ w.type = "object" => of[w][a[i] - 1] = Quoted(Keys(w)[i]) /\ of[w][a[i]] = ColonMark
               /\ i < m => a[i + 1] = a[i] + q[i] + 1 + Lead(w) /\ of[w][a[i] + q[i] + 1] = Comma
    <3>1. q[i] \in Nat \ {0} /\ q[i] = Len(of[M[i]]) /\ M[i] \in DOMAIN of
      BY <1>2, <1>3
    <3>2. /\ a[i] \in Nat /\ a[i] >= 1 + c /\ a[i] + q[i] < L
          /\ \A x \in 1 .. q[i] : t[a[i] + x] = of[M[i]][x]
          /\ w.type = "object" => t[a[i] - 1] = Quoted(Keys(w)[i]) /\ t[a[i]] = ColonMark
          /\ i < m => a[i + 1] = a[i] + q[i] + 1 + c /\ t[a[i] + q[i] + 1] = Comma
      BY <1>13
    <3> QED
      BY <2>1, <3>1, <3>2, Zenon
  <2>4. m \in Nat /\ Len(of[w]) \in Nat /\ Len(of[w]) >= 2
    BY <1>11, <2>1
  <2> QED
    BY <2>1, <2>2, <2>3, <2>4, Zenon DEF Shape
<1> QED
  BY <1>14

-----------------------------------------------------------------------------
(* An array or object of which the first members have been read.           *)
Part(w, m) ==
    IF w.type = "object"
      THEN [type |-> "object", members |-> [k \in {Keys(w)[i] : i \in 1 .. m} |-> w.members[k]]]
      ELSE [type |-> "array", elements |-> SubSeq(w.elements, 1, m)]

LEMMA PartEmpty ==
  ASSUME NEW V, NEW w \in V, ContainerOf(w, V), w.type \in Compound
  PROVE  Part(w, 0) = IF w.type = "object" THEN EmptyObject ELSE EmptyArray
<1>1. CASE w.type = "object"
  <2>1. {Keys(w)[i] : i \in 1 .. 0} = {}
    OBVIOUS
  <2>2. [k \in {} |-> w.members[k]] = [k \in {} |-> Null]
    OBVIOUS
  <2> QED
    BY <1>1, <2>1, <2>2 DEF Part, EmptyObject
<1>2. CASE w.type = "array"
  <2>1. PICK s \in Seq(V) : s = w.elements
    BY <1>2, ContainerTypes
  <2>2. SubSeq(s, 0 + 1, 0) \in Seq(V) /\ Len(SubSeq(s, 0 + 1, 0)) = 0 - 0
    BY SubSequenceMeans
  <2>3. SubSeq(s, 0 + 1, 0) = <<>>
    BY <2>2
  <2>4. SubSeq(s, 1, 0) = <<>>
    BY <2>3
  <2> QED
    BY <1>2, <2>1, <2>4 DEF Part, EmptyArray
<1> QED
  BY <1>1, <1>2 DEF Compound

LEMMA PartWhole ==
  ASSUME NEW V, NEW w \in V, ContainerOf(w, V), w.type \in Compound
  PROVE  Part(w, Len(Members(w))) = w
<1>1. CASE w.type = "object"
  <2>1. /\ KeyedBy(w, DOMAIN w.members) /\ w.members \in [DOMAIN w.members -> V]
        /\ w = [type |-> "object", members |-> w.members]
    BY <1>1, ContainerTypes DEF ContainerOf, Null, Boolean
  <2>2. PICK m \in Nat : /\ m = Cardinality(DOMAIN w.members) /\ m = Len(Members(w))
                         /\ \A i \in 1 .. m : Keys(w)[i] \in DOMAIN w.members
                         /\ \A k \in DOMAIN w.members : \E i \in 1 .. m : Keys(w)[i] = k
    BY <1>1, <2>1, KeysInOrder, MembersOf
  <2>3. {Keys(w)[i] : i \in 1 .. m} = DOMAIN w.members
    BY <2>2
  <2>4. [k \in DOMAIN w.members |-> w.members[k]] = w.members
    BY <2>1
  <2> QED
    BY <1>1, <2>1, <2>2, <2>3, <2>4 DEF Part
<1>2. CASE w.type = "array"
  <2>1. PICK s \in Seq(V) : s = w.elements /\ s = Members(w) /\ w = [type |-> "array", elements |-> s]
    BY <1>2, ContainerTypes, MembersOf DEF ContainerOf, Null, Boolean
  <2>2. PICK n \in Nat : n = Len(s)
    OBVIOUS
  <2>3. /\ SubSeq(s, 0 + 1, n) \in Seq(V) /\ Len(SubSeq(s, 0 + 1, n)) = n - 0
        /\ \A k \in 1 .. n - 0 : SubSeq(s, 0 + 1, n)[k] = s[k + 0]
    BY <2>2, SubSequenceMeans
  <2>4. PICK r \in Seq(V) : r = SubSeq(s, 1, n) /\ Len(r) = n /\ \A k \in 1 .. n : r[k] = s[k]
    <3>1. 0 + 1 = 1 /\ n - 0 = n /\ \A k \in 1 .. n : k + 0 = k
      OBVIOUS
    <3> QED
      BY <2>3, <3>1
  <2>5. r = s
    BY <2>2, <2>4, SameSequence
  <2> QED
    BY <1>2, <2>1, <2>2, <2>4, <2>5 DEF Part
<1> QED
  BY <1>1, <1>2 DEF Compound

LEMMA PartGrows ==
  ASSUME NEW V, NEW w \in V, ContainerOf(w, V), w.type \in Compound,
         NEW n \in Nat, n < Len(Members(w))
  PROVE  /\ w.type = "object" => Insert(Part(w, n), Keys(w)[n + 1], Members(w)[n + 1]) = Part(w, n + 1)
         /\ w.type = "array" => PushBack(Part(w, n), Members(w)[n + 1]) = Part(w, n + 1)
<1>1. CASE w.type = "object"
  <2>1. PICK m \in Nat : m = Len(Members(w)) /\ \A i \in 1 .. m : Members(w)[i] = w.members[Keys(w)[i]]
    <3>1. Members(w) \in Seq(V)
      BY MembersOf
    <3> QED
      BY <1>1, <3>1, MembersOf
  <2>2. n + 1 \in 1 .. m
    BY <2>1
  <2>3. PICK y : y = Keys(w)[n + 1] /\ Members(w)[n + 1] = w.members[y]
    BY <2>1, <2>2
  <2> DEFINE D == {Keys(w)[i] : i \in 1 .. n}
             E == {Keys(w)[i] : i \in 1 .. n + 1}
  <2>4. D \cup {y} = E
    BY <2>3
  <2> HIDE DEF D, E
  <2>5. [l \in D \cup {y} |-> IF l = y THEN w.members[y] ELSE [k \in D |-> w.members[k]][l]]
          = [k \in E |-> w.members[k]]
    BY <2>4
  <2>6. Part(w, n) = [type |-> "object", members |-> [k \in D |-> w.members[k]]]
    BY <1>1 DEF Part, D
  <2>7. Part(w, n + 1) = [type |-> "object", members |-> [k \in E |-> w.members[k]]]
    BY <1>1 DEF Part, E
  <2>8. Insert(Part(w, n), y, w.members[y]) = Part(w, n + 1)
    BY <2>5, <2>6, <2>7 DEF Insert
  <2> QED
    BY <1>1, <2>3, <2>8
<1>2. CASE w.type = "array"
  <2>1. PICK s \in Seq(V) : s = w.elements /\ s = Members(w)
    BY <1>2, ContainerTypes, MembersOf
  <2>2. PICK m \in Nat : m = Len(s) /\ n < m /\ n + 1 \in 1 .. m
    BY <2>1
  <2>3. PICK r \in Seq(V) : r = SubSeq(s, 1, n) /\ Len(r) = n /\ \A k \in 1 .. n : r[k] = s[k]
    <3>1. n <= Len(s)
      BY <2>2
    <3>2. /\ SubSeq(s, 0 + 1, n) \in Seq(V) /\ Len(SubSeq(s, 0 + 1, n)) = n - 0
          /\ \A k \in 1 .. n - 0 : SubSeq(s, 0 + 1, n)[k] = s[k + 0]
      BY <3>1, SubSequenceMeans
    <3>3. 0 + 1 = 1 /\ n - 0 = n /\ \A k \in 1 .. n : k + 0 = k
      OBVIOUS
    <3> QED
      BY <3>2, <3>3
  <2>4. PICK t \in Seq(V) : t = SubSeq(s, 1, n + 1) /\ Len(t) = n + 1 /\ \A k \in 1 .. n + 1 : t[k] = s[k]
    <3>0. PICK j \in Nat : j = n + 1
      OBVIOUS
    <3>1. j <= Len(s)
      BY <2>2, <3>0
    <3>2. /\ SubSeq(s, 0 + 1, j) \in Seq(V) /\ Len(SubSeq(s, 0 + 1, j)) = j - 0
          /\ \A k \in 1 .. j - 0 : SubSeq(s, 0 + 1, j)[k] = s[k + 0]
      BY <3>1, SubSequenceMeans
    <3>3. 0 + 1 = 1 /\ j - 0 = j /\ \A k \in 1 .. j : k + 0 = k
      OBVIOUS
    <3> QED
      BY <3>0, <3>2, <3>3
  <2>5. s[n + 1] \in V
    BY <2>2
  <2>6. PICK x \in V : x = s[n + 1]
    BY <2>5
  <2>7. /\ Append(r, x) \in Seq(V) /\ Len(Append(r, x)) = n + 1 /\ Append(r, x)[n + 1] = x
        /\ \A k \in 1 .. n : Append(r, x)[k] = r[k]
    BY <2>3
  <2>8. \A k \in 1 .. n + 1 : Append(r, x)[k] = t[k]
    BY <2>3, <2>4, <2>6, <2>7
  <2>9. Append(r, x) = t
    BY <2>4, <2>7, <2>8, SameSequence
  <2> QED
    BY <1>2, <2>1, <2>3, <2>4, <2>6, <2>9 DEF Part, PushBack
<1> QED
  BY <1>1, <1>2 DEF Compound

-----------------------------------------------------------------------------
(* A value whose tokens are among those of v, from the one behind b.       *)
Stands(of, v, w, b) ==
    /\ w \in DOMAIN of /\ b \in Nat /\ b + Len(of[w]) <= Len(of[v])
    /\ \A x \in 1 .. Len(of[w]) : of[v][b + x] = of[w][x]

(* So are then the tokens of its members, and what is between them.        *)
Settled(of, v, w, b, m, a, q) ==
    /\ m \in Nat /\ m = Len(Members(w)) /\ a = Spot(of, w)
    /\ b + 2 <= Len(of[v]) /\ of[v][b + 1] = Opening(w)
    /\ m = 0 => of[v][b + 2] = Closing(w) /\ Len(of[w]) = 2
    /\ m > 0 => a[1] = 1 + Lead(w) /\ Len(of[w]) = a[m] + q[m] + 1 /\ of[v][b + a[m] + q[m] + 1] = Closing(w)
    /\ \A i \in 1 .. m :
         /\ a[i] \in Nat /\ q[i] \in Nat \ {0} /\ q[i] = Len(of[Members(w)[i]])
         /\ a[i] >= 1 + Lead(w) /\ b + a[i] + q[i] < Len(of[v])
         /\ Stands(of, v, Members(w)[i], b + a[i])
         /\ w.type = "object" => of[v][b + a[i] - 1] = Quoted(Keys(w)[i]) /\ of[v][b + a[i]] = ColonMark
         /\ i < m => a[i + 1] = a[i] + q[i] + 1 + Lead(w) /\ of[v][b + a[i] + q[i] + 1] = Comma

LEMMA MembersStand ==
  ASSUME NEW of, Writes(of), NEW v \in DOMAIN of, NEW w, NEW b, Stands(of, v, w, b), w.type \in Compound
  PROVE  \E m, a, q : Settled(of, v, w, b, m, a, q)
<1>0. w \in DOMAIN of /\ b \in Nat
  BY DEF Stands
<1>1. PICK m, a, q : Shape(of, w, m, a, q)
  BY <1>0, ShapeOf
<1>2. PICK l \in Nat : l = Len(of[w])
  BY <1>1 DEF Shape
<1>3. PICK n \in Nat : n = Len(of[v])
  BY ValueBegins
<1>4. b + l <= n /\ \A x \in 1 .. l : of[v][b + x] = of[w][x]
  BY <1>2, <1>3 DEF Stands
<1>5. PICK c \in {0, 2} : c = Lead(w)
  BY DEF Lead
<1>6. m \in Nat /\ m = Len(Members(w)) /\ a = Spot(of, w)
  BY <1>1 DEF Shape
<1>7. l >= 2 /\ of[w][1] = Opening(w) /\ of[w][l] = Closing(w) /\ (m = 0 => l = 2)
  BY <1>1, <1>2 DEF Shape
<1>8. m > 0 => a[1] = 1 + c /\ l = a[m] + q[m] + 1
  BY <1>1, <1>2, <1>5 DEF Shape
<1>9. ASSUME NEW i \in 1 .. m
      PROVE  /\ Members(w)[i] \in DOMAIN of
             /\ a[i] \in Nat /\ q[i] \in Nat \ {0} /\ q[i] = Len(of[Members(w)[i]])
             /\ a[i] >= 1 + c /\ a[i] + q[i] < l
             /\ \A x \in 1 .. q[i] : of[w][a[i] + x] = of[Members(w)[i]][x]
             /\ w.type = "object" => c = 2 /\ of[w][a[i] - 1] = Quoted(Keys(w)[i]) /\ of[w][a[i]] = ColonMark
             /\ i < m => a[i + 1] = a[i] + q[i] + 1 + c /\ of[w][a[i] + q[i] + 1] = Comma
  BY <1>1, <1>2, <1>5 DEF Shape, Lead
<1>10. b + 2 <= n /\ of[v][b + 1] = Opening(w)
  <2>1. b + 2 <= n /\ 1 \in 1 .. l
    BY <1>0, <1>4, <1>7
  <2> QED
    BY <1>4, <1>7, <2>1
<1>11. m = 0 => of[v][b + 2] = Closing(w) /\ l = 2
  <2>1. l \in 1 .. l
    BY <1>7
  <2> QED
    BY <1>4, <1>7, <2>1
<1>12. m > 0 => a[1] = 1 + c /\ l = a[m] + q[m] + 1 /\ of[v][b + a[m] + q[m] + 1] = Closing(w)
  <2> SUFFICES ASSUME m > 0 PROVE of[v][b + a[m] + q[m] + 1] = Closing(w)
    BY <1>8
  <2>1. m \in 1 .. m /\ l \in 1 .. l
    BY <1>6, <1>7
  <2>2. PICK x \in Nat, y \in Nat : x = a[m] /\ y = q[m]
    BY <1>9, <2>1
  <2>3. l = x + y + 1
    BY <1>8, <2>2
  <2>4. b + x + y + 1 = b + l
    BY <1>0, <2>3
  <2>5. of[v][b + l] = Closing(w)
    BY <1>4, <1>7, <2>1
  <2> QED
    BY <2>2, <2>4, <2>5, Zenon
<1>13. ASSUME NEW i \in 1 .. m
       PROVE  /\ a[i] \in Nat /\ q[i] \in Nat \ {0} /\ q[i] = Len(of[Members(w)[i]])
              /\ a[i] >= 1 + c /\ b + a[i] + q[i] < n
              /\ Stands(of, v, Members(w)[i], b + a[i])
              /\ w.type = "object" => of[v][b + a[i] - 1] = Quoted(Keys(w)[i]) /\ of[v][b + a[i]] = ColonMark
              /\ i < m => a[i + 1] = a[i] + q[i] + 1 + c /\ of[v][b + a[i] + q[i] + 1] = Comma
  <2>1. PICK x \in Nat, y \in Nat : x = a[i] /\ y = q[i]
    BY <1>9
  <2>2. y # 0 /\ y = Len(of[Members(w)[i]]) /\ x >= 1 + c /\ x + y < l
    BY <1>9, <2>1
  <2>3. b + x + y < n /\ b + x \in Nat
    BY SMTT(60), <1>0, <1>4, <2>2
  <2>4. Stands(of, v, Members(w)[i], b + x)
    <3>1. ASSUME NEW z \in 1 .. y PROVE of[v][b + x + z] = of[Members(w)[i]][z]
      <4>1. x + z \in 1 .. l /\ b + (x + z) = b + x + z
        BY <1>0, <2>2
      <4>2. of[v][b + (x + z)] = of[w][x + z]
        BY <1>4, <4>1
      <4>3. of[w][x + z] = of[Members(w)[i]][z]
        BY <1>9, <2>1
      <4> QED
        BY <4>1, <4>2, <4>3
    <3>2. b + x + y <= n
      BY <1>0, <2>3
    <3> QED
      BY <1>3, <1>9, <2>2, <2>3, <3>1, <3>2 DEF Stands
  <2>5. ASSUME w.type = "object"
        PROVE  of[v][b + x - 1] = Quoted(Keys(w)[i]) /\ of[v][b + x] = ColonMark
    <3>1. of[w][x - 1] = Quoted(Keys(w)[i]) /\ of[w][x] = ColonMark /\ c = 2
      BY <1>9, <2>1, <2>5
    <3>2. x - 1 \in 1 .. l /\ x \in 1 .. l /\ b + (x - 1) = b + x - 1
      BY <1>0, <2>2, <3>1
    <3> QED
      BY <1>4, <3>1, <3>2
  <2>6. ASSUME i < m
        PROVE  a[i + 1] = x + y + 1 + c /\ of[v][b + x + y + 1] = Comma
    <3>1. a[i + 1] = x + y + 1 + c /\ of[w][x + y + 1] = Comma
      BY <1>9, <2>1, <2>6
    <3>2. x + y < l
      BY <2>2
    <3>3. x + y + 1 \in 1 .. l
      BY <3>2
    <3>4. b + (x + y + 1) = b + x + y + 1
      BY <1>0
    <3> QED
      BY <1>4, <3>1, <3>3, <3>4
  <2> QED
    BY <2>1, <2>2, <2>3, <2>4, <2>5, <2>6
<1> QED
  <2>1. Settled(of, v, w, b, m, a, q)
    BY <1>2, <1>3, <1>5, <1>6, <1>10, <1>11, <1>12, <1>13, Zenon DEF Settled
  <2> QED
    BY <2>1

-----------------------------------------------------------------------------
(* The parser is in some arrays and objects, one in the other: L[d] is the *)
(* d-th of them from the outside, with its value w, the place b where that *)
(* stands, how many of its members n have been read, and its frame f.      *)
Due(of, v, L, d, w, b) ==
    IF d = 0 THEN w = v /\ b = 0
    ELSE /\ L[d].n < Len(Members(L[d].w)) /\ w = Members(L[d].w)[L[d].n + 1]
         /\ b = L[d].b + Spot(of, L[d].w)[L[d].n + 1]

NextKey(L, d) == L[d].w.type = "object" => L[d].f.key = Keys(L[d].w)[L[d].n + 1]

LevelAt(of, v, L, d) ==
    /\ Stands(of, v, L[d].w, L[d].b) /\ L[d].w.type \in Compound
    /\ L[d].n \in Nat /\ L[d].n <= Len(Members(L[d].w))
    /\ Due(of, v, L, d - 1, L[d].w, L[d].b)
    /\ L[d].f = [type |-> L[d].w.type, value |-> Part(L[d].w, L[d].n), key |-> L[d].f.key]

LevelsAt(of, v, L, D) ==
    D \in Nat /\ \A d \in 1 .. D : LevelAt(of, v, L, d) /\ (d < D => NextKey(L, d))

StackIs(frames, L, D) ==
    \E X : frames \in Seq(X) /\ Len(frames) = D /\ \A d \in 1 .. D : frames[D + 1 - d] = L[d].f

LEMMA TopIs ==
  ASSUME NEW frames, NEW L, NEW D \in Nat, StackIs(frames, L, D)
  PROVE  /\ frames = <<>> <=> D = 0
         /\ D > 0 => Head(frames) = L[D].f
<1>1. PICK X : frames \in Seq(X) /\ Len(frames) = D /\ \A d \in 1 .. D : frames[D + 1 - d] = L[d].f
  BY DEF StackIs
<1>2. frames = <<>> <=> D = 0
  BY <1>1
<1>3. ASSUME D > 0 PROVE Head(frames) = L[D].f
  <2>1. frames # <<>>
    BY <1>2, <1>3
  <2>2. Head(frames) = frames[1]
    BY <1>1, <2>1, HeadOf
  <2>3. D \in 1 .. D /\ D + 1 - D = 1
    BY <1>3
  <2> QED
    BY <1>1, <2>2, <2>3
<1> QED
  BY <1>2, <1>3

LEMMA PushedIs ==
  ASSUME NEW frames, NEW L, NEW D \in Nat, StackIs(frames, L, D),
         NEW M, \A d \in 1 .. D : M[d].f = L[d].f, NEW g, g = M[D + 1].f
  PROVE  StackIs(<<g>> \o frames, M, D + 1)
<1>1. PICK X : frames \in Seq(X) /\ Len(frames) = D /\ \A d \in 1 .. D : frames[D + 1 - d] = L[d].f
  BY DEF StackIs
<1>2. PICK Y : Y = X \cup {g}
  OBVIOUS
<1>3. frames \in Seq(Y) /\ g \in Y
  BY <1>1, <1>2
<1>4. /\ <<g>> \o frames \in Seq(Y) /\ Len(<<g>> \o frames) = D + 1 /\ (<<g>> \o frames)[1] = g
      /\ \A i \in 1 .. D : (<<g>> \o frames)[i + 1] = frames[i]
  BY <1>1, <1>3, Prepended
<1> DEFINE s == <<g>> \o frames
<1> HIDE DEF s
<1>5. ASSUME NEW d \in 1 .. D + 1 PROVE s[D + 1 + 1 - d] = M[d].f
  <2>1. CASE d = D + 1
    <3>1. D + 1 + 1 - d = 1
      BY <2>1
    <3> QED
      BY <1>4, <2>1, <3>1 DEF s
  <2>2. CASE d # D + 1
    <3>1. d \in 1 .. D /\ D + 1 - d \in 1 .. D /\ D + 1 - d + 1 = D + 1 + 1 - d
      BY <2>2
    <3>2. s[D + 1 - d + 1] = frames[D + 1 - d]
      BY <1>4, <3>1 DEF s
    <3>3. frames[D + 1 - d] = L[d].f /\ M[d].f = L[d].f
      BY <1>1, <3>1
    <3> QED
      BY <3>1, <3>2, <3>3
  <2> QED
    BY <2>1, <2>2
<1>6. s \in Seq(Y) /\ Len(s) = D + 1
  BY <1>4 DEF s
<1> QED
  BY <1>5, <1>6 DEF StackIs, s

LEMMA PoppedIs ==
  ASSUME NEW frames, NEW L, NEW D \in Nat, D > 0, StackIs(frames, L, D)
  PROVE  StackIs(Tail(frames), L, D - 1)
<1>1. PICK X : frames \in Seq(X) /\ Len(frames) = D /\ \A d \in 1 .. D : frames[D + 1 - d] = L[d].f
  BY DEF StackIs
<1>2. frames # <<>>
  BY <1>1
<1>3. /\ Tail(frames) \in Seq(X) /\ Len(Tail(frames)) = D - 1
      /\ \A i \in 1 .. D - 1 : Tail(frames)[i] = frames[i + 1]
  BY <1>1, <1>2, HeadOf
<1>4. ASSUME NEW d \in 1 .. D - 1 PROVE Tail(frames)[D - 1 + 1 - d] = L[d].f
  <2>1. d \in 1 .. D /\ D - d \in 1 .. D - 1 /\ D - d + 1 = D + 1 - d /\ D - 1 + 1 - d = D - d
    OBVIOUS
  <2>2. Tail(frames)[D - d] = frames[D - d + 1]
    BY <1>3, <2>1
  <2>3. frames[D + 1 - d] = L[d].f
    BY <1>1, <2>1
  <2> QED
    BY <2>1, <2>2, <2>3
<1> QED
  BY <1>3, <1>4 DEF StackIs

(* The levels are what they were as long as none of them changes.          *)
LEMMA LevelsKept ==
  ASSUME NEW of, NEW v, NEW L, NEW M, NEW D, LevelsAt(of, v, L, D), NEW E \in Nat, E <= D,
         \A d \in 1 .. E : M[d] = L[d]
  PROVE  LevelsAt(of, v, M, E)
<1>1. ASSUME NEW d \in 1 .. E PROVE LevelAt(of, v, M, d) /\ (d < E => NextKey(M, d))
  <2>1. D \in Nat /\ LevelAt(of, v, L, d) /\ (d < D => NextKey(L, d)) /\ M[d] = L[d]
    BY DEF LevelsAt
  <2>2. d - 1 = 0 \/ d - 1 \in 1 .. E
    OBVIOUS
  <2>3. d - 1 = 0 \/ M[d - 1] = L[d - 1]
    BY <2>2
  <2>4. Due(of, v, L, d - 1, L[d].w, L[d].b)
    BY <2>1 DEF LevelAt
  <2>5. Due(of, v, M, d - 1, M[d].w, M[d].b)
    BY <2>1, <2>3, <2>4 DEF Due
  <2>6. LevelAt(of, v, M, d)
    BY <2>1, <2>5 DEF LevelAt
  <2> QED
    BY <2>1, <2>6 DEF NextKey
<1> QED
  BY <1>1 DEF LevelsAt

(* A value that is due stands where it is due.                             *)
LEMMA DueStands ==
  ASSUME NEW of, Writes(of), NEW v \in DOMAIN of, NEW L, NEW D, LevelsAt(of, v, L, D),
         NEW w, NEW b, Due(of, v, L, D, w, b)
  PROVE  Stands(of, v, w, b)
<1>1. PICK n \in Nat : n = Len(of[v])
  BY ValueBegins
<1>2. CASE D = 0
  <2>1. w = v /\ b = 0
    BY <1>2 DEF Due
  <2>2. 0 + n <= n /\ \A x \in 1 .. n : 0 + x = x
    OBVIOUS
  <2> QED
    BY <1>1, <2>1, <2>2 DEF Stands
<1>3. CASE D # 0
  <2>1. D \in 1 .. D /\ D \in Nat
    BY <1>3 DEF LevelsAt
  <2>2. /\ Stands(of, v, L[D].w, L[D].b) /\ L[D].w.type \in Compound
        /\ L[D].n \in Nat
    BY <2>1 DEF LevelsAt, LevelAt
  <2>3. /\ L[D].n < Len(Members(L[D].w)) /\ w = Members(L[D].w)[L[D].n + 1]
        /\ b = L[D].b + Spot(of, L[D].w)[L[D].n + 1]
    BY <1>3 DEF Due
  <2>4. PICK m, a, q : Settled(of, v, L[D].w, L[D].b, m, a, q)
    BY <2>2, MembersStand
  <2>5. L[D].n + 1 \in 1 .. m /\ a = Spot(of, L[D].w)
    BY <2>2, <2>3, <2>4 DEF Settled
  <2>6. Stands(of, v, Members(L[D].w)[L[D].n + 1], L[D].b + a[L[D].n + 1])
    BY <2>4, <2>5 DEF Settled
  <2> QED
    BY <2>3, <2>5, <2>6
<1> QED
  BY <1>2, <1>3

-----------------------------------------------------------------------------
(* How far the parser is, of n tokens that there are: k have been taken.   *)
Member(of, L, d, i) == L[d].b + Spot(of, L[d].w)[i]

PlaceAt(of, v, n, L, D, k) ==
    /\ pc \in Places
    /\ pc = "value" => (D > 0 => NextKey(L, D)) /\ \E w : Due(of, v, L, D, w, k)
    /\ pc = "first" => D > 0 /\ L[D].n = 0 /\ k = L[D].b + 1
    /\ pc = "more"  => /\ D > 0 /\ L[D].n > 0
                       /\ k = Member(of, L, D, L[D].n) + Len(of[Members(L[D].w)[L[D].n]])
    /\ pc = "key"   => /\ D > 0 /\ L[D].w.type = "object" /\ L[D].n < Len(Members(L[D].w))
                       /\ k = Member(of, L, D, L[D].n + 1) - 2
    /\ pc = "colon" => /\ D > 0 /\ L[D].w.type = "object" /\ L[D].n < Len(Members(L[D].w))
                       /\ NextKey(L, D) /\ k = Member(of, L, D, L[D].n + 1) - 1
    /\ pc \in {"end", "accepted"} => k = Len(of[v]) /\ result = v
    /\ pc = "end" => D = 0
    /\ pc = "thrown" => n < Len(of[v])

(* What comes next, for each of the things the parser looks for.           *)
ValueAhead(of, v, L, D, k) ==
    /\ ValueDue /\ (D > 0 => NextKey(L, D))
    /\ \E w : Due(of, v, L, D, w, k) /\ of[v][k + 1] = of[w][1]

EndAhead(of, v, L, D, k) ==
    /\ pc \in {"first", "more"} /\ D > 0 /\ L[D].n = Len(Members(L[D].w))
    /\ of[v][k + 1] = Closing(L[D].w) /\ k + 1 = L[D].b + Len(of[L[D].w])

CommaAhead(of, v, L, D, k) ==
    /\ pc = "more" /\ D > 0 /\ L[D].n < Len(Members(L[D].w))
    /\ of[v][k + 1] = Comma /\ k + 1 + Lead(L[D].w) = Member(of, L, D, L[D].n + 1)

KeyAhead(of, v, L, D, k) ==
    /\ pc \in {"key", "first"} /\ D > 0 /\ L[D].w.type = "object" /\ L[D].n < Len(Members(L[D].w))
    /\ of[v][k + 1] = Quoted(Keys(L[D].w)[L[D].n + 1]) /\ k + 2 = Member(of, L, D, L[D].n + 1)

ColonAhead(of, v, L, D, k) ==
    /\ pc = "colon" /\ D > 0 /\ L[D].w.type = "object" /\ L[D].n < Len(Members(L[D].w)) /\ NextKey(L, D)
    /\ of[v][k + 1] = ColonMark /\ k + 1 = Member(of, L, D, L[D].n + 1)

Ahead(of, v, L, D, k) ==
    /\ k \in Nat /\ k < Len(of[v])
    /\ \/ ValueAhead(of, v, L, D, k) \/ EndAhead(of, v, L, D, k) \/ CommaAhead(of, v, L, D, k)
       \/ KeyAhead(of, v, L, D, k) \/ ColonAhead(of, v, L, D, k)

LEMMA AtValue ==
  ASSUME NEW of, Writes(of), NEW v \in DOMAIN of, NEW L, NEW D, LevelsAt(of, v, L, D),
         NEW k, NEW w, Due(of, v, L, D, w, k)
  PROVE  k \in Nat /\ k < Len(of[v]) /\ of[v][k + 1] = of[w][1] /\ w \in DOMAIN of
<1>1. Stands(of, v, w, k)
  BY DueStands
<1>2. w \in DOMAIN of /\ k \in Nat
  BY <1>1 DEF Stands
<1>3. PICK l \in Nat, n \in Nat : l = Len(of[w]) /\ n = Len(of[v]) /\ l # 0
  BY <1>2, ValueBegins
<1>4. k + l <= n /\ \A x \in 1 .. l : of[v][k + x] = of[w][x]
  BY <1>1, <1>3 DEF Stands
<1>5. 1 \in 1 .. l /\ k < n
  BY <1>2, <1>3, <1>4
<1> QED
  BY <1>2, <1>3, <1>4, <1>5

LEMMA AheadIs ==
  ASSUME NEW of, Writes(of), NEW v \in DOMAIN of, NEW n, NEW L, NEW D, LevelsAt(of, v, L, D),
         StackIs(stack, L, D), NEW k, PlaceAt(of, v, n, L, D, k),
         pc \notin {"end", "accepted", "thrown"}
  PROVE  Ahead(of, v, L, D, k)
<1>0. D \in Nat
  BY DEF LevelsAt
<1>1. CASE pc = "value"
  <2>1. PICK w : Due(of, v, L, D, w, k)
    BY <1>1 DEF PlaceAt
  <2>2. k \in Nat /\ k < Len(of[v]) /\ of[v][k + 1] = of[w][1]
    BY <2>1, AtValue
  <2>3. ValueAhead(of, v, L, D, k)
    BY <1>1, <2>1, <2>2 DEF PlaceAt, ValueAhead, ValueDue
  <2> QED
    BY <2>2, <2>3 DEF Ahead
<1>2. CASE pc # "value"
  <2>1. pc \in {"first", "more", "key", "colon"} /\ D \in 1 .. D /\ D > 0
    BY <1>0, <1>2 DEF PlaceAt, Places
  <2>2. PICK W : W = L[D].w
    OBVIOUS
  <2>3. PICK b \in Nat : b = L[D].b
    BY <2>1 DEF LevelsAt, LevelAt, Stands
  <2>4. PICK i \in Nat : i = L[D].n
    BY <2>1 DEF LevelsAt, LevelAt
  <2>5. LevelAt(of, v, L, D)
    BY <2>1 DEF LevelsAt
  <2>6. Stands(of, v, W, b) /\ W.type \in Compound
    BY <2>2, <2>3, <2>5 DEF LevelAt
  <2>7. PICK m, a, q : Settled(of, v, W, b, m, a, q)
    BY <2>6, MembersStand
  <2>8. m \in Nat /\ m = Len(Members(W)) /\ i <= m /\ a = Spot(of, W)
    <3>1. i <= Len(Members(W))
      BY <2>2, <2>4, <2>5 DEF LevelAt
    <3> QED
      BY <2>7, <3>1 DEF Settled
  <2>9. PICK z \in Nat : z = Len(of[v])
    BY ValueBegins
  <2>10. /\ stack # <<>> /\ Top.type = W.type
    <3>1. stack # <<>> /\ Top = L[D].f
      BY <1>0, <2>1, TopIs DEF Top
    <3>2. L[D].f.type = L[D].w.type
      BY <2>5 DEF LevelAt
    <3> QED
      BY <2>2, <3>1, <3>2
  <2>11. CASE m = 0 /\ pc = "first"
    <3>1. k = b + 1 /\ i = 0 /\ i = m
      BY <2>3, <2>4, <2>11 DEF PlaceAt
    <3>2. b + 2 <= z /\ of[v][b + 2] = Closing(W) /\ Len(of[W]) = 2
      BY <2>7, <2>9, <2>11 DEF Settled
    <3>3. k \in Nat /\ k < z /\ k + 1 = b + 2
      BY <3>1, <3>2
    <3>4. EndAhead(of, v, L, D, k)
      BY <2>1, <2>2, <2>3, <2>4, <2>8, <2>11, <3>1, <3>2, <3>3 DEF EndAhead
    <3> QED
      BY <2>9, <3>3, <3>4 DEF Ahead
  <2>12. CASE m > 0 /\ pc = "first"
    <3>1. k = b + 1 /\ i = 0 /\ 1 \in 1 .. m /\ i < m /\ i + 1 = 1
      BY <2>3, <2>4, <2>8, <2>12 DEF PlaceAt
    <3>2. PICK x \in Nat, y \in Nat : /\ x = a[1] /\ y = q[1] /\ y # 0 /\ x = 1 + Lead(W) /\ b + x + y < z
                                      /\ W.type = "object" => of[v][b + x - 1] = Quoted(Keys(W)[1])
      BY <2>7, <2>9, <2>12, <3>1 DEF Settled
    <3>3. CASE W.type = "object"
      <4>1. x = 3 /\ k \in Nat /\ k < z /\ b + x - 1 = k + 1 /\ k + 2 = b + x
        BY <3>1, <3>2, <3>3 DEF Lead
      <4>2. Member(of, L, D, L[D].n + 1) = b + x
        BY <2>2, <2>3, <2>4, <2>8, <3>1, <3>2 DEF Member
      <4>3. KeyAhead(of, v, L, D, k)
        BY <2>1, <2>2, <2>4, <2>8, <2>12, <3>1, <3>2, <3>3, <4>1, <4>2 DEF KeyAhead
      <4> QED
        BY <2>9, <4>1, <4>3 DEF Ahead
    <3>4. CASE W.type = "array"
      <4>1. x = 1 /\ k = b + x
        BY <3>1, <3>2, <3>4 DEF Lead
      <4>2. Due(of, v, L, D, Members(W)[1], k)
        <5>1. D # 0 /\ L[D].n = 0 /\ L[D].w = W /\ L[D].b = b /\ 0 + 1 = 1 /\ 0 < Len(Members(W))
          BY <2>1, <2>2, <2>3, <2>4, <2>8, <3>1
        <5>2. Spot(of, W)[1] = x
          BY <2>8, <3>2
        <5> QED
          BY <4>1, <5>1, <5>2 DEF Due
      <4>3. k \in Nat /\ k < Len(of[v]) /\ of[v][k + 1] = of[Members(W)[1]][1]
        BY <4>2, AtValue
      <4>4. ValueDue /\ NextKey(L, D)
        BY <2>2, <2>10, <2>12, <3>4 DEF ValueDue, InArray, NextKey
      <4>5. ValueAhead(of, v, L, D, k)
        BY <4>2, <4>3, <4>4 DEF ValueAhead
      <4> QED
        BY <4>3, <4>5 DEF Ahead
    <3> QED
      BY <2>6, <3>3, <3>4 DEF Compound
  <2>13. CASE pc = "more"
    <3>1. i > 0 /\ i \in 1 .. m
      BY <2>4, <2>8, <2>13 DEF PlaceAt
    <3>2. PICK x \in Nat, y \in Nat : x = a[i] /\ y = q[i]
      BY <2>7, <3>1 DEF Settled
    <3>3. y = Len(of[Members(W)[i]]) /\ b + x + y < z
      BY <2>7, <2>9, <3>1, <3>2 DEF Settled
    <3>4. k = b + x + y
      <4>1. k = Member(of, L, D, i) + Len(of[Members(W)[i]])
        BY <2>2, <2>4, <2>13 DEF PlaceAt
      <4>2. Member(of, L, D, i) = b + x
        BY <2>2, <2>3, <2>8, <3>2 DEF Member
      <4> QED
        BY <3>3, <4>1, <4>2
    <3>5. k \in Nat /\ k < z
      <4>1. b + x + y < z
        BY <3>3
      <4> QED
        BY <3>4, <4>1
    <3>6. CASE i = m
      <4>1. Len(of[W]) = x + y + 1 /\ of[v][b + x + y + 1] = Closing(W)
        BY <2>7, <3>1, <3>2, <3>6 DEF Settled
      <4>2. k + 1 = b + (x + y + 1)
        BY <3>4
      <4>3. EndAhead(of, v, L, D, k)
        BY <2>1, <2>2, <2>3, <2>4, <2>8, <2>13, <3>4, <3>6, <4>1, <4>2 DEF EndAhead
      <4> QED
        BY <2>9, <3>5, <4>3 DEF Ahead
    <3>7. CASE i # m
      <4>1. i < m /\ i + 1 \in 1 .. m
        BY <2>8, <3>7
      <4>2. a[i + 1] = x + y + 1 + Lead(W) /\ of[v][b + x + y + 1] = Comma
        BY <2>7, <3>1, <3>2, <4>1 DEF Settled
      <4>3. PICK c \in {0, 2} : c = Lead(W)
        BY DEF Lead
      <4>4. k + 1 + c = b + (x + y + 1 + c)
        BY <3>4
      <4>5. Member(of, L, D, L[D].n + 1) = b + (x + y + 1 + c)
        BY <2>2, <2>3, <2>4, <2>8, <4>2, <4>3 DEF Member
      <4>6. CommaAhead(of, v, L, D, k)
        BY <2>1, <2>2, <2>4, <2>8, <2>13, <3>4, <4>1, <4>2, <4>3, <4>4, <4>5 DEF CommaAhead
      <4> QED
        BY <2>9, <3>5, <4>6 DEF Ahead
    <3> QED
      BY <3>6, <3>7
  <2>14. CASE pc \in {"key", "colon"}
    <3>1. W.type = "object" /\ i < m /\ i + 1 \in 1 .. m
      <4>1. W.type = "object" /\ i < m
        BY <2>2, <2>4, <2>8, <2>14 DEF PlaceAt
      <4> QED
        BY <2>8, <4>1
    <3>2. PICK x \in Nat, y \in Nat : x = a[i + 1] /\ y = q[i + 1]
      BY <2>7, <3>1 DEF Settled
    <3>3. x >= 1 + Lead(W) /\ b + x + y < z
      BY <2>7, <2>9, <3>1, <3>2 DEF Settled
    <3>4. of[v][b + x - 1] = Quoted(Keys(W)[i + 1]) /\ of[v][b + x] = ColonMark
      BY <2>7, <3>1, <3>2 DEF Settled
    <3>5. x >= 3 /\ b + x < z
      BY <3>1, <3>3 DEF Lead
    <3>6. Member(of, L, D, L[D].n + 1) = b + x
      BY <2>2, <2>3, <2>4, <2>8, <3>2 DEF Member
    <3>7. CASE pc = "key"
      <4>1. k = b + x - 2
        BY <3>6, <3>7 DEF PlaceAt
      <4>2. k \in Nat /\ k < z /\ k + 1 = b + x - 1 /\ k + 2 = b + x
        BY <3>5, <4>1
      <4>3. KeyAhead(of, v, L, D, k)
        BY <2>1, <2>2, <2>4, <2>8, <3>1, <3>4, <3>6, <3>7, <4>2 DEF KeyAhead
      <4> QED
        BY <2>9, <4>2, <4>3 DEF Ahead
    <3>8. CASE pc = "colon"
      <4>1. k = b + x - 1 /\ NextKey(L, D)
        BY <3>6, <3>8 DEF PlaceAt
      <4>2. k \in Nat /\ k < z /\ k + 1 = b + x
        BY <3>5, <4>1
      <4>3. ColonAhead(of, v, L, D, k)
        BY <2>1, <2>2, <2>4, <2>8, <3>1, <3>4, <3>6, <3>8, <4>1, <4>2 DEF ColonAhead
      <4> QED
        BY <2>9, <4>2, <4>3 DEF Ahead
    <3> QED
      BY <2>14, <3>7, <3>8
  <2> QED
    BY <2>1, <2>8, <2>11, <2>12, <2>13, <2>14
<1> QED
  BY <1>1, <1>2

-----------------------------------------------------------------------------
(* A step of the parser.                                                   *)
ParserAt(of, v, n, k) ==
    \E L, D : LevelsAt(of, v, L, D) /\ StackIs(stack, L, D) /\ PlaceAt(of, v, n, L, D, k)

(* The token that has been returned is the next one of those of v.         *)
Facing(of, v, L, D, k) ==
    /\ LevelsAt(of, v, L, D) /\ StackIs(stack, L, D) /\ Ahead(of, v, L, D, k)
    /\ token = KindOf(of[v][k + 1]) /\ Lexeme = of[v][k + 1]

LEMMA LevelsRaised ==
  ASSUME NEW of, NEW v, NEW L, NEW E, LevelsAt(of, v, L, E), E > 0 => NextKey(L, E),
         NEW M, \A d \in 1 .. E : M[d] = L[d], LevelAt(of, v, M, E + 1)
  PROVE  LevelsAt(of, v, M, E + 1)
<1>1. E \in Nat
  BY DEF LevelsAt
<1>2. LevelsAt(of, v, M, E)
  <2>1. E <= E
    BY <1>1
  <2> QED
    BY <1>1, <2>1, LevelsKept
<1>3. ASSUME NEW d \in 1 .. E + 1 PROVE LevelAt(of, v, M, d) /\ (d < E + 1 => NextKey(M, d))
  <2>1. CASE d = E + 1
    BY <1>1, <2>1
  <2>2. CASE d # E + 1
    <3>1. d \in 1 .. E
      BY <1>1, <2>2
    <3>2. LevelAt(of, v, M, d) /\ (d < E => NextKey(M, d))
      BY <1>2, <3>1 DEF LevelsAt
    <3>3. d = E => NextKey(M, d)
      BY <1>1, <3>1 DEF NextKey
    <3>4. d < E \/ d = E
      BY <1>1, <3>1
    <3> QED
      BY <3>2, <3>3, <3>4
  <2> QED
    BY <2>1, <2>2
<1> QED
  BY <1>1, <1>3 DEF LevelsAt

LEMMA KeyText ==
  ASSUME NEW of, Writes(of), NEW w \in DOMAIN of, w.type = "object",
         NEW i \in Nat, i < Len(Members(w))
  PROVE  Keys(w)[i + 1] \in Strings
<1>1. ContainerOf(w, DOMAIN of)
  BY WrittenOf
<1>2. KeyedBy(w, DOMAIN w.members) /\ Len(Members(w)) = Cardinality(DOMAIN w.members)
  BY <1>1, ContainerTypes, MembersOf
<1>3. i + 1 \in 1 .. Cardinality(DOMAIN w.members)
  BY <1>2, KeysInOrder
<1>4. Keys(w)[i + 1] \in DOMAIN w.members
  BY <1>2, <1>3, KeysInOrder
<1> QED
  BY <1>2, <1>4 DEF KeyedBy

LEMMA KindsAhead ==
  ASSUME NEW of, Writes(of), NEW v \in DOMAIN of, NEW L, NEW D, NEW k, Facing(of, v, L, D, k)
  PROVE  /\ ValueAhead(of, v, L, D, k) => token \in ValueTokens
         /\ EndAhead(of, v, L, D, k) =>
              token = IF L[D].w.type = "object" THEN "end_object" ELSE "end_array"
         /\ CommaAhead(of, v, L, D, k) => token = "value_separator"
         /\ KeyAhead(of, v, L, D, k) => token = "value_string"
         /\ ColonAhead(of, v, L, D, k) => token = "name_separator"
<1>1. LevelsAt(of, v, L, D) /\ token = KindOf(of[v][k + 1])
  BY DEF Facing
<1>2. ASSUME ValueAhead(of, v, L, D, k) PROVE token \in ValueTokens
  <2>1. PICK w : Due(of, v, L, D, w, k) /\ of[v][k + 1] = of[w][1]
    BY <1>2 DEF ValueAhead
  <2>2. w \in DOMAIN of
    BY <1>1, <2>1, AtValue
  <2> QED
    BY <1>1, <2>1, <2>2, ValueBegins
<1>3. ASSUME EndAhead(of, v, L, D, k)
      PROVE  token = IF L[D].w.type = "object" THEN "end_object" ELSE "end_array"
  <2>1. of[v][k + 1] = Closing(L[D].w)
    BY <1>3 DEF EndAhead
  <2> QED
    BY <1>1, <2>1, MarkKinds DEF Closing
<1>4. ASSUME KeyAhead(of, v, L, D, k) PROVE token = "value_string"
  <2>1. D > 0 /\ L[D].w.type = "object" /\ L[D].n < Len(Members(L[D].w))
    BY <1>4 DEF KeyAhead
  <2>2. L[D].w \in DOMAIN of /\ L[D].n \in Nat
    <3>1. D \in 1 .. D
      BY <1>1, <2>1 DEF LevelsAt
    <3> QED
      BY <1>1, <3>1 DEF LevelsAt, LevelAt, Stands
  <2>3. Keys(L[D].w)[L[D].n + 1] \in Strings
    BY <2>1, <2>2, KeyText
  <2> QED
    BY <1>1, <1>4, <2>3, TextKind DEF KeyAhead
<1>5. CommaAhead(of, v, L, D, k) => token = "value_separator"
  BY <1>1, MarkKinds DEF CommaAhead
<1>6. ColonAhead(of, v, L, D, k) => token = "name_separator"
  BY <1>1, MarkKinds DEF ColonAhead
<1> QED
  BY <1>2, <1>3, <1>4, <1>5, <1>6

(* The frame on the top is replaced.                                       *)
LEMMA TopChanged ==
  ASSUME NEW of, NEW v, NEW L, NEW D, LevelsAt(of, v, L, D), D > 0, NEW frames, StackIs(frames, L, D),
         NEW i \in Nat, i <= Len(Members(L[D].w)),
         NEW g, g = [type |-> L[D].w.type, value |-> Part(L[D].w, i), key |-> g.key]
  PROVE  \E M : /\ LevelsAt(of, v, M, D) /\ StackIs(<<g>> \o Tail(frames), M, D)
                /\ M[D] = [w |-> L[D].w, b |-> L[D].b, n |-> i, f |-> g]
<1> DEFINE M == [d \in 1 .. D |-> IF d = D THEN [w |-> L[D].w, b |-> L[D].b, n |-> i, f |-> g] ELSE L[d]]
<1>0. D \in Nat /\ D \in 1 .. D
  BY DEF LevelsAt
<1>1. \A d \in 1 .. D - 1 : M[d] = L[d]
  BY <1>0
<1>2. M[D] = [w |-> L[D].w, b |-> L[D].b, n |-> i, f |-> g]
  BY <1>0
<1>3. PICK E \in Nat : E = D - 1 /\ E + 1 = D /\ E <= D
  BY <1>0
<1> HIDE DEF M
<1>4. M[D].w = L[D].w /\ M[D].b = L[D].b /\ M[D].n = i /\ M[D].f = g
  BY <1>2
<1>5. StackIs(<<g>> \o Tail(frames), M, D)
  <2>1. StackIs(Tail(frames), L, E)
    BY <1>0, <1>3, PoppedIs
  <2>2. \A d \in 1 .. E : M[d].f = L[d].f
    BY <1>1, <1>3
  <2>3. StackIs(<<g>> \o Tail(frames), M, E + 1)
    BY <1>3, <1>4, <2>1, <2>2, PushedIs
  <2> QED
    BY <1>3, <2>3
<1>6. LevelAt(of, v, M, D)
  <2>1. LevelAt(of, v, L, D)
    BY <1>0 DEF LevelsAt
  <2>2. Due(of, v, M, D - 1, M[D].w, M[D].b)
    <3>1. D - 1 = 0 \/ D - 1 \in 1 .. D - 1
      BY <1>0
    <3>2. D - 1 = 0 \/ M[D - 1] = L[D - 1]
      BY <1>1, <3>1
    <3> QED
      BY <1>4, <2>1, <3>2 DEF Due, LevelAt
  <2>3. M[D].f = [type |-> M[D].w.type, value |-> Part(M[D].w, M[D].n), key |-> M[D].f.key]
    BY <1>4
  <2> QED
    BY <1>4, <2>1, <2>2, <2>3 DEF LevelAt
<1>7. LevelsAt(of, v, M, D)
  <2>1. LevelsAt(of, v, L, E)
    BY <1>3, LevelsKept
  <2>2. E > 0 => NextKey(L, E)
    <3>1. E > 0 => E \in 1 .. D /\ E < D
      BY <1>3
    <3> QED
      BY <3>1 DEF LevelsAt
  <2>3. \A d \in 1 .. E : M[d] = L[d]
    BY <1>1, <1>3
  <2>4. LevelAt(of, v, M, E + 1)
    BY <1>3, <1>6
  <2> QED
    BY <1>3, <2>1, <2>2, <2>3, <2>4, LevelsRaised
<1> QED
  BY <1>2, <1>5, <1>7

LEMMA CompleteReads ==
  ASSUME NEW of, Writes(of), NEW v \in DOMAIN of, NEW n, NEW L, NEW D, LevelsAt(of, v, L, D),
         NEW below, StackIs(below, L, D), D > 0 => NextKey(L, D),
         NEW w, NEW b, Due(of, v, L, D, w, b), Complete(w, below), NEW k, k = b + Len(of[w])
  PROVE  ParserAt(of, v, n, k)'
<1>0. D \in Nat
  BY DEF LevelsAt
<1>1. CASE D = 0
  <2>1. below = <<>> /\ w = v /\ b = 0
    BY <1>0, <1>1, TopIs DEF Due
  <2>2. result' = v /\ pc' = "end" /\ stack' = below
    BY <2>1 DEF Complete
  <2>3. StackIs(stack', L, D)
    BY <2>2
  <2>4. k = Len(of[v])
    BY <2>1, ValueBegins
  <2>5. PlaceAt(of, v, n, L, D, k)'
    BY <1>1, <2>2, <2>4 DEF PlaceAt, Places
  <2>6. LevelsAt(of, v, L, D) /\ StackIs(stack, L, D)' /\ PlaceAt(of, v, n, L, D, k)'
    BY <2>3, <2>5 DEF StackIs
  <2> QED
    BY <2>6 DEF ParserAt
<1>2. CASE D # 0
  <2>1. D \in 1 .. D /\ D > 0
    BY <1>0, <1>2
  <2>19. PICK W, y : W = L[D].w /\ y = L[D].f.key
    OBVIOUS
  <2>20. PICK i \in Nat : i = L[D].n
    BY <2>1 DEF LevelsAt, LevelAt
  <2>2. W = L[D].w /\ i = L[D].n /\ y = L[D].f.key
    BY <2>19, <2>20
  <2>3. /\ W \in DOMAIN of /\ W.type \in Compound
        /\ L[D].f = [type |-> W.type, value |-> Part(W, i), key |-> y]
        /\ Stands(of, v, W, L[D].b) /\ Due(of, v, L, D - 1, W, L[D].b)
    BY <2>1, <2>2 DEF LevelsAt, LevelAt, Stands
  <2>4. i < Len(Members(W)) /\ w = Members(W)[i + 1] /\ b = Member(of, L, D, i + 1)
    BY <1>2, <2>2 DEF Due, Member
  <2>5. W.type = "object" => y = Keys(W)[i + 1]
    BY <2>1, <2>2 DEF NextKey
  <2>6. below # <<>> /\ Head(below) = L[D].f
    BY <1>0, <2>1, TopIs
  <2>7. ContainerOf(W, DOMAIN of)
    BY <2>3, WrittenOf
  <2>8. /\ W.type = "object" => Insert(Part(W, i), y, w) = Part(W, i + 1)
        /\ W.type = "array" => PushBack(Part(W, i), w) = Part(W, i + 1)
    BY <2>3, <2>4, <2>5, <2>7, PartGrows
  <2> DEFINE g == [type |-> W.type, value |-> Part(W, i + 1), key |-> y]
  <2>9. /\ pc' = "more" /\ result' = result
        /\ stack' = <<[Head(below) EXCEPT
                        !.value = IF Head(below).type = "object"
                                    THEN Insert(@, Head(below).key, w)
                                    ELSE PushBack(@, w)]>> \o Tail(below)
    BY <2>6 DEF Complete
  <2>10. stack' = <<g>> \o Tail(below)
    <3>1. PICK h : h = Head(below) /\ h = [type |-> W.type, value |-> Part(W, i), key |-> y]
      BY <2>3, <2>6
    <3>2. [h EXCEPT !.value = IF h.type = "object" THEN Insert(@, h.key, w) ELSE PushBack(@, w)] = g
      <4>1. h.type = W.type /\ h.key = y /\ h.value = Part(W, i)
        BY <3>1
      <4>2. (IF h.type = "object" THEN Insert(h.value, h.key, w) ELSE PushBack(h.value, w)) = Part(W, i + 1)
        BY <2>3, <2>8, <4>1 DEF Compound
      <4>3. [h EXCEPT !.value = Part(W, i + 1)] = g
        BY <3>1
      <4> QED
        BY <4>2, <4>3
    <3> QED
      BY <2>9, <3>1, <3>2
  <2>11. i + 1 \in Nat /\ i + 1 <= Len(Members(W))
    BY SMTT(60), <2>3, <2>4, WrittenOf
  <2> HIDE DEF g
  <2>12. g = [type |-> W.type, value |-> Part(W, i + 1), key |-> g.key]
    BY DEF g
  <2>13. PICK M : /\ LevelsAt(of, v, M, D) /\ StackIs(<<g>> \o Tail(below), M, D)
                  /\ M[D] = [w |-> W, b |-> L[D].b, n |-> i + 1, f |-> g]
    BY <2>1, <2>2, <2>11, <2>12, TopChanged
  <2>14. M[D].w = W /\ M[D].b = L[D].b /\ M[D].n = i + 1
    BY <2>13
  <2>15. StackIs(stack', M, D)
    BY <2>10, <2>13
  <2>16. PlaceAt(of, v, n, M, D, k)'
    <3>1. M[D].n > 0
      BY <2>14
    <3>2. k = Member(of, M, D, M[D].n) + Len(of[Members(M[D].w)[M[D].n]])
      BY <2>2, <2>4, <2>14 DEF Member
    <3> QED
      BY <2>1, <2>9, <3>1, <3>2 DEF PlaceAt, Places
  <2>17. StackIs(stack, M, D)'
    BY <2>15 DEF StackIs
  <2> QED
    BY <2>13, <2>16, <2>17 DEF ParserAt
<1> QED
  BY <1>1, <1>2

-----------------------------------------------------------------------------
(* The innermost array or object, when one has been begun.                 *)
LEMMA Innermost ==
  ASSUME NEW of, Writes(of), NEW v \in DOMAIN of, NEW L, NEW D, LevelsAt(of, v, L, D), StackIs(stack, L, D)
  PROVE  /\ D \in Nat /\ (stack = <<>> <=> D = 0)
         /\ D > 0 => /\ D \in 1 .. D /\ L[D].w \in DOMAIN of /\ L[D].w.type \in Compound
                     /\ ContainerOf(L[D].w, DOMAIN of)
                     /\ L[D].n \in Nat /\ L[D].n <= Len(Members(L[D].w)) /\ Len(Members(L[D].w)) \in Nat
                     /\ Due(of, v, L, D - 1, L[D].w, L[D].b)
                     /\ Top.type = L[D].w.type /\ Top.value = Part(L[D].w, L[D].n)
                     /\ Top = [type |-> L[D].w.type, value |-> Part(L[D].w, L[D].n), key |-> Top.key]
                     /\ Top = L[D].f
<1>1. D \in Nat /\ (stack = <<>> <=> D = 0) /\ (D > 0 => Top = L[D].f)
  BY TopIs DEF LevelsAt, Top
<1>2. ASSUME D > 0
      PROVE  /\ D \in 1 .. D /\ L[D].w \in DOMAIN of /\ L[D].w.type \in Compound
             /\ L[D].n \in Nat /\ L[D].n <= Len(Members(L[D].w))
             /\ Due(of, v, L, D - 1, L[D].w, L[D].b)
             /\ L[D].f = [type |-> L[D].w.type, value |-> Part(L[D].w, L[D].n), key |-> L[D].f.key]
  <2>1. D \in 1 .. D
    BY <1>1, <1>2
  <2>2. LevelAt(of, v, L, D)
    BY <2>1 DEF LevelsAt
  <2> QED
    BY <2>1, <2>2 DEF LevelAt, Stands
<1>3. ASSUME D > 0 PROVE ContainerOf(L[D].w, DOMAIN of) /\ Len(Members(L[D].w)) \in Nat
  BY <1>2, <1>3, WrittenOf
<1>4. ASSUME D > 0 PROVE Top.type = L[D].w.type /\ Top.value = Part(L[D].w, L[D].n)
  BY <1>1, <1>2, <1>4
<1> QED
  BY <1>1, <1>2, <1>3, <1>4

(* A value that begins is one that is due.                                 *)
LEMMA ValueComes ==
  ASSUME NEW of, Writes(of), NEW v \in DOMAIN of, NEW L, NEW D, NEW k, Facing(of, v, L, D, k),
         ValueDue, token \in ValueTokens
  PROVE  ValueAhead(of, v, L, D, k)
<1>1. LevelsAt(of, v, L, D) /\ StackIs(stack, L, D) /\ Ahead(of, v, L, D, k)
  BY DEF Facing
<1>2. token \notin {"end_object", "end_array", "value_separator", "name_separator"}
  BY DEF ValueTokens
<1>3. ~KeyAhead(of, v, L, D, k)
  <2> SUFFICES ASSUME KeyAhead(of, v, L, D, k) PROVE FALSE
    OBVIOUS
  <2>1. D > 0 /\ L[D].w.type = "object" /\ pc \in {"key", "first"}
    BY DEF KeyAhead
  <2>2. Top.type = "object"
    BY <1>1, <2>1, Innermost
  <2> QED
    BY <2>1, <2>2 DEF ValueDue, InArray
<1> QED
  BY <1>1, <1>2, <1>3, KindsAhead DEF Ahead

LEMMA OpenReads ==
  ASSUME NEW of, Writes(of), NEW v \in DOMAIN of, NEW n, NEW L, NEW D, NEW k, Facing(of, v, L, D, k),
         NEW type \in Compound,
         NEW empty, empty = IF type = "object" THEN EmptyObject ELSE EmptyArray,
         NEW begin, begin = IF type = "object" THEN "begin_object" ELSE "begin_array",
         Open(type, empty, begin)
  PROVE  ParserAt(of, v, n, k + 1)'
<1>1. LevelsAt(of, v, L, D) /\ StackIs(stack, L, D) /\ token = KindOf(of[v][k + 1]) /\ D \in Nat
  BY DEF Facing, LevelsAt
<1>2. ValueDue /\ token = begin /\ token \in ValueTokens
  BY DEF Open, Has, ValueTokens, Compound
<1>3. ValueAhead(of, v, L, D, k)
  BY <1>2, ValueComes
<1>4. PICK w : Due(of, v, L, D, w, k) /\ of[v][k + 1] = of[w][1]
  BY <1>3 DEF ValueAhead
<1>5. w \in DOMAIN of /\ k \in Nat
  BY <1>1, <1>4, AtValue
<1>6. w.type = type
  <2>1. KindOf(of[w][1]) = begin
    BY <1>1, <1>2, <1>4
  <2>2. /\ w.type = "object" <=> KindOf(of[w][1]) = "begin_object"
        /\ w.type = "array" <=> KindOf(of[w][1]) = "begin_array"
    BY <1>5, ValueBegins
  <2>3. type = "object" \/ type = "array"
    BY DEF Compound
  <2> QED
    BY <2>1, <2>2, <2>3
<1>7. Part(w, 0) = empty /\ Len(Members(w)) \in Nat
  BY <1>5, <1>6, WrittenOf, PartEmpty
<1> DEFINE g == [type |-> type, value |-> empty, key |-> <<>>]
           M == [d \in 1 .. D + 1 |-> IF d = D + 1 THEN [w |-> w, b |-> k, n |-> 0, f |-> g] ELSE L[d]]
<1>8. \A d \in 1 .. D : M[d] = L[d]
  BY <1>1
<1>9. M[D + 1].w = w /\ M[D + 1].b = k /\ M[D + 1].n = 0 /\ M[D + 1].f = g
  BY <1>1
<1>10. stack' = <<g>> \o stack /\ pc' = "first"
  BY DEF Open
<1> HIDE DEF M
<1>11. g = [type |-> w.type, value |-> Part(w, 0), key |-> g.key]
  BY <1>6, <1>7
<1> HIDE DEF g
<1>12. StackIs(stack', M, D + 1)
  <2>1. \A d \in 1 .. D : M[d].f = L[d].f
    BY <1>8
  <2> QED
    BY <1>1, <1>9, <1>10, <2>1, PushedIs
<1>13. LevelAt(of, v, M, D + 1)
  <2>1. PICK E : E = D + 1 /\ E - 1 = D
    BY <1>1
  <2>2. M[E].w = w /\ M[E].b = k /\ M[E].n = 0 /\ M[E].f = g
    BY <1>9, <2>1
  <2>3. Stands(of, v, w, k)
    BY <1>1, <1>4, DueStands
  <2>4. Due(of, v, M, E - 1, w, k)
    <3>1. D = 0 \/ M[D] = L[D]
      BY <1>1, <1>8
    <3> QED
      BY <1>4, <2>1, <3>1 DEF Due
  <2>5. 0 \in Nat /\ 0 <= Len(Members(w))
    BY <1>7
  <2>6. LevelAt(of, v, M, E)
    BY <1>6, <1>11, <2>2, <2>3, <2>4, <2>5 DEF LevelAt
  <2> QED
    BY <2>1, <2>6
<1>14. LevelsAt(of, v, M, D + 1)
  <2>1. D > 0 => NextKey(L, D)
    BY <1>3 DEF ValueAhead
  <2> QED
    BY <1>1, <1>8, <1>13, <2>1, LevelsRaised
<1>15. PlaceAt(of, v, n, M, D + 1, k + 1)'
  BY <1>1, <1>9, <1>10 DEF PlaceAt, Places
<1>16. StackIs(stack, M, D + 1)'
  BY <1>12 DEF StackIs
<1> QED
  BY <1>14, <1>15, <1>16 DEF ParserAt

LEMMA CloseReads ==
  ASSUME NEW of, Writes(of), NEW v \in DOMAIN of, NEW n, NEW L, NEW D, NEW k, Facing(of, v, L, D, k),
         NEW type, NEW end \in {"end_object", "end_array"}, Close(type, end)
  PROVE  ParserAt(of, v, n, k + 1)'
<1>1. LevelsAt(of, v, L, D) /\ StackIs(stack, L, D) /\ Ahead(of, v, L, D, k)
  BY DEF Facing
<1>2. token \notin ValueTokens \cup {"value_separator", "name_separator", "value_string"}
  BY DEF Close, Has, ValueTokens
<1>3. EndAhead(of, v, L, D, k)
  BY <1>1, <1>2, KindsAhead DEF Ahead
<1>4. PICK W : W = L[D].w
  OBVIOUS
<1>5. D > 0 /\ L[D].n = Len(Members(W)) /\ k + 1 = L[D].b + Len(of[W])
  BY <1>3, <1>4 DEF EndAhead
<1>6. D \in Nat /\ D \in 1 .. D /\ W \in DOMAIN of /\ W.type \in Compound
  BY <1>1, <1>4, <1>5, Innermost
<1>7. ContainerOf(W, DOMAIN of) /\ Due(of, v, L, D - 1, W, L[D].b) /\ Top.value = Part(W, L[D].n)
  BY <1>1, <1>4, <1>5, Innermost
<1>8. Top.value = W
  BY <1>5, <1>6, <1>7, PartWhole
<1>9. Complete(W, Tail(stack))
  BY <1>8 DEF Close
<1>10. PICK E \in Nat : E = D - 1 /\ E <= D /\ E < D
  BY <1>6
<1>11. LevelsAt(of, v, L, E)
  BY <1>1, <1>10, LevelsKept
<1>12. StackIs(Tail(stack), L, E)
  BY <1>1, <1>5, <1>6, <1>10, PoppedIs
<1>13. E > 0 => NextKey(L, E)
  <2>1. E > 0 => E \in 1 .. D /\ E < D
    BY <1>6, <1>10
  <2> QED
    BY <1>1, <2>1 DEF LevelsAt
<1>14. Due(of, v, L, E, W, L[D].b)
  BY <1>7, <1>10
<1> QED
  BY <1>5, <1>9, <1>11, <1>12, <1>13, <1>14, CompleteReads

(* A scalar, of which the token says what it is.                           *)
LEMMA ScalarReads ==
  ASSUME NEW of, Writes(of), NEW v \in DOMAIN of, NEW n, NEW L, NEW D, NEW k, Facing(of, v, L, D, k),
         NEW type \in ValueTokens \ {"begin_object", "begin_array"}, NEW u,
         type = "literal_null" => u = Null,
         type = "literal_true" => u = Boolean(TRUE),
         type = "literal_false" => u = Boolean(FALSE),
         type = "value_string" => u = String(GetString(Lexeme)),
         type = "value_number" => u = NumberOf(Printed(Lexeme)),
         Scalar(type, u)
  PROVE  ParserAt(of, v, n, k + 1)'
<1>1. LevelsAt(of, v, L, D) /\ StackIs(stack, L, D) /\ token = KindOf(of[v][k + 1]) /\ Lexeme = of[v][k + 1]
  BY DEF Facing
<1>2. ValueDue /\ token = type /\ Complete(u, stack)
  BY DEF Scalar, Has
<1>3. ValueAhead(of, v, L, D, k)
  BY <1>2, ValueComes
<1>4. PICK w : Due(of, v, L, D, w, k) /\ of[v][k + 1] = of[w][1]
  BY <1>3 DEF ValueAhead
<1>5. w \in DOMAIN of
  BY <1>1, <1>4, AtValue
<1>6. w.type \notin Compound /\ KindOf(of[w][1]) = type /\ Lexeme = of[w][1]
  <2>1. KindOf(of[w][1]) = type /\ Lexeme = of[w][1]
    BY <1>1, <1>2, <1>4, Zenon
  <2>2. type # "begin_object" /\ type # "begin_array"
    OBVIOUS
  <2>3. w.type # "object" /\ w.type # "array"
    BY <1>5, <2>1, <2>2, ValueBegins, Zenon
  <2> QED
    BY <2>1, <2>3, Zenon DEF Compound
<1>7. Len(of[w]) = 1
  BY <1>5, <1>6, ScalarWritten
<1>8. u = w
  <2>1. CASE type = "value_string"
    <3>1. w = String(w.string) /\ w.string \in Strings /\ of[w][1] = Quoted(w.string)
      BY <1>5, <1>6, <2>1, ScalarWritten
    <3>2. GetString(Quoted(w.string)) = w.string
      BY <3>1, QuotedReadsBack DEF Strings
    <3> QED
      BY <1>6, <2>1, <3>1, <3>2
  <2>2. CASE type = "value_number"
    <3>1. w = NumberOf(w.number) /\ Printed(w.number) = w.number /\ of[w][1] = w.number
      BY <1>5, <1>6, <2>2, ScalarWritten
    <3> QED
      BY <1>6, <2>2, <3>1
  <2>3. CASE type \in {"literal_null", "literal_true", "literal_false"}
    BY <1>5, <1>6, <2>3, ScalarWritten
  <2> QED
    BY <2>1, <2>2, <2>3 DEF ValueTokens
<1>9. D > 0 => NextKey(L, D)
  BY <1>3 DEF ValueAhead
<1>10. k + 1 = k + Len(of[w])
  BY <1>7
<1> QED
  BY <1>1, <1>2, <1>4, <1>8, <1>9, <1>10, CompleteReads

LEMMA SeparatorReads ==
  ASSUME NEW of, Writes(of), NEW v \in DOMAIN of, NEW n, NEW L, NEW D, NEW k, Facing(of, v, L, D, k), Separator
  PROVE  ParserAt(of, v, n, k + 1)'
<1>1. LevelsAt(of, v, L, D) /\ StackIs(stack, L, D) /\ Ahead(of, v, L, D, k) /\ k \in Nat
  BY DEF Facing, Ahead
<1>2. token \notin ValueTokens \cup {"end_object", "end_array", "name_separator", "value_string"}
  BY DEF Separator, Has, ValueTokens
<1>3. CommaAhead(of, v, L, D, k)
  BY <1>1, <1>2, KindsAhead DEF Ahead
<1>4. D > 0 /\ L[D].n < Len(Members(L[D].w)) /\ k + 1 + Lead(L[D].w) = Member(of, L, D, L[D].n + 1)
  BY <1>3 DEF CommaAhead
<1>5. /\ D \in Nat /\ L[D].w.type \in Compound /\ L[D].n \in Nat
      /\ stack # <<>> /\ Top.type = L[D].w.type
  BY <1>1, <1>4, Innermost
<1>6. pc' = (IF InObject THEN "key" ELSE "value") /\ stack' = stack
  BY DEF Separator
<1>7. PlaceAt(of, v, n, L, D, k + 1)'
  <2>1. CASE L[D].w.type = "object"
    <3>1. pc' = "key"
      BY <1>5, <1>6, <2>1 DEF InObject
    <3>2. k + 1 = Member(of, L, D, L[D].n + 1) - 2
      BY <1>1, <1>4, <2>1 DEF Lead
    <3> QED
      BY <1>4, <2>1, <3>1, <3>2 DEF PlaceAt, Places
  <2>2. CASE L[D].w.type = "array"
    <3>1. pc' = "value"
      BY <1>5, <1>6, <2>2 DEF InObject
    <3>2. k + 1 = Member(of, L, D, L[D].n + 1)
      BY <1>1, <1>4, <2>2 DEF Lead
    <3>3. NextKey(L, D)
      BY <2>2 DEF NextKey
    <3>4. D # 0
      BY <1>4, <1>5
    <3>5. Due(of, v, L, D, Members(L[D].w)[L[D].n + 1], k + 1)
      BY <1>4, <3>2, <3>4 DEF Due, Member
    <3> QED
      BY <3>1, <3>3, <3>5 DEF PlaceAt, Places
  <2> QED
    BY <1>5, <2>1, <2>2 DEF Compound
<1>8. StackIs(stack, L, D)'
  BY <1>1, <1>6 DEF StackIs
<1> QED
  BY <1>1, <1>7, <1>8 DEF ParserAt

LEMMA KeyReads ==
  ASSUME NEW of, Writes(of), NEW v \in DOMAIN of, NEW n, NEW L, NEW D, NEW k, Facing(of, v, L, D, k), Key
  PROVE  ParserAt(of, v, n, k + 1)'
<1>1. LevelsAt(of, v, L, D) /\ StackIs(stack, L, D) /\ Ahead(of, v, L, D, k) /\ k \in Nat /\ Lexeme = of[v][k + 1]
  BY DEF Facing, Ahead
<1>2. token \notin {"end_object", "end_array", "name_separator", "value_separator"}
  BY DEF Key, Has
<1>3. ~ValueAhead(of, v, L, D, k)
  BY DEF ValueAhead, ValueDue, Key, InObject, InArray
<1>4. KeyAhead(of, v, L, D, k)
  BY <1>1, <1>2, <1>3, KindsAhead DEF Ahead
<1>5. PICK W : W = L[D].w
  OBVIOUS
<1>6. /\ D > 0 /\ W.type = "object" /\ L[D].n < Len(Members(W))
      /\ of[v][k + 1] = Quoted(Keys(W)[L[D].n + 1]) /\ k + 2 = Member(of, L, D, L[D].n + 1)
  BY <1>4, <1>5 DEF KeyAhead
<1>7. /\ D \in Nat /\ W \in DOMAIN of /\ L[D].n \in Nat /\ L[D].n <= Len(Members(W))
      /\ Top = [type |-> W.type, value |-> Part(W, L[D].n), key |-> Top.key]
  BY <1>1, <1>5, <1>6, Innermost
<1>8. PICK y : y = Keys(W)[L[D].n + 1]
  OBVIOUS
<1>9. GetString(Lexeme) = y
  <2>1. y \in Strings
    BY <1>6, <1>7, <1>8, KeyText
  <2> QED
    BY <1>1, <1>6, <1>8, <2>1, QuotedReadsBack DEF Strings
<1> DEFINE g == [type |-> W.type, value |-> Part(W, L[D].n), key |-> y]
<1>10. stack' = <<g>> \o Tail(stack) /\ pc' = "colon"
  <2>1. stack' = <<[Top EXCEPT !.key = y]>> \o Tail(stack) /\ pc' = "colon"
    BY <1>9 DEF Key
  <2>2. [Top EXCEPT !.key = y] = g
    BY <1>7
  <2> QED
    BY <2>1, <2>2
<1>11. g.key = y /\ g = [type |-> W.type, value |-> Part(W, L[D].n), key |-> g.key]
  OBVIOUS
<1> HIDE DEF g
<1>12. PICK M : /\ LevelsAt(of, v, M, D) /\ StackIs(<<g>> \o Tail(stack), M, D)
                /\ M[D] = [w |-> W, b |-> L[D].b, n |-> L[D].n, f |-> g]
  BY <1>1, <1>5, <1>6, <1>7, <1>11, TopChanged
<1>13. M[D].w = W /\ M[D].b = L[D].b /\ M[D].n = L[D].n /\ M[D].f = g
  BY <1>12
<1>14. PlaceAt(of, v, n, M, D, k + 1)'
  <2>1. Member(of, M, D, M[D].n + 1) = k + 2
    BY <1>5, <1>6, <1>13 DEF Member
  <2>2. PICK z \in Nat : z = k + 2 /\ k + 1 = z - 1
    BY <1>1
  <2>3. k + 1 = Member(of, M, D, M[D].n + 1) - 1
    BY <2>1, <2>2
  <2>4. NextKey(M, D)
    BY <1>8, <1>11, <1>13 DEF NextKey
  <2> QED
    BY <1>6, <1>10, <1>13, <2>3, <2>4 DEF PlaceAt, Places
<1>15. StackIs(stack, M, D)'
  BY <1>10, <1>12 DEF StackIs
<1> QED
  BY <1>12, <1>14, <1>15 DEF ParserAt

LEMMA ColonReads ==
  ASSUME NEW of, Writes(of), NEW v \in DOMAIN of, NEW n, NEW L, NEW D, NEW k, Facing(of, v, L, D, k), Colon
  PROVE  ParserAt(of, v, n, k + 1)'
<1>1. LevelsAt(of, v, L, D) /\ StackIs(stack, L, D) /\ Ahead(of, v, L, D, k)
  BY DEF Facing
<1>2. token \notin ValueTokens \cup {"end_object", "end_array", "value_separator", "value_string"}
  BY DEF Colon, Has, ValueTokens
<1>3. ColonAhead(of, v, L, D, k)
  BY <1>1, <1>2, KindsAhead DEF Ahead
<1>4. D > 0 /\ L[D].n < Len(Members(L[D].w)) /\ NextKey(L, D) /\ k + 1 = Member(of, L, D, L[D].n + 1)
  BY <1>3 DEF ColonAhead
<1>5. pc' = "value" /\ stack' = stack
  BY DEF Colon
<1>6. PlaceAt(of, v, n, L, D, k + 1)'
  <2>1. D # 0
    BY <1>4
  <2>2. Due(of, v, L, D, Members(L[D].w)[L[D].n + 1], k + 1)
    BY <1>4, <2>1 DEF Due, Member
  <2> QED
    BY <1>4, <1>5, <2>2 DEF PlaceAt, Places
<1>7. StackIs(stack, L, D)'
  BY <1>1, <1>5 DEF StackIs
<1> QED
  BY <1>1, <1>6, <1>7 DEF ParserAt

-----------------------------------------------------------------------------
(* The tokens that are read are the first of those of v.                   *)
Prefix(of, v, tokens) ==
    Len(tokens) <= Len(of[v]) /\ \A j \in 1 .. Len(tokens) : tokens[j] = of[v][j]

ReadsAt(of, v, tokens, lines, chars, p, e) ==
    \E k : ScannerAt(lines, tokens, chars, p, e, k) /\ ParserAt(of, v, Len(tokens), k)

LEMMA KindNotEnd == ASSUME NEW t PROVE KindOf(t) # "end_of_input"
<1>1. \A c \in DOMAIN Punctuation : Punctuation[c] # "end_of_input"
  BY DEF Punctuation
<1>2. \A c \in DOMAIN Literal : Literal[c].type # "end_of_input"
  BY DEF Literal
<1> QED
  BY <1>1, <1>2 DEF KindOf

(* After a token has been taken the scanner goes on behind it.             *)
LEMMA TokenTaken ==
  ASSUME NEW lines, NEW tokens, NEW chars, NEW p, NEW e, Legible(lines, tokens, chars, p, e),
         NEW k, ScannerAt(lines, tokens, chars, p, e, k),
         state = "token", token # "end_of_input", GetToken
  PROVE  ScannerAt(lines, tokens, chars, p, e, k + 1)'
<1>1. PICK n \in Nat : n = Len(tokens)
  BY DEF Legible
<1>2. SourceAt(lines, chars, e) /\ k \in 0 .. n /\ k < n /\ cursor = Behind(tokens, p, k + 1)
  BY <1>1 DEF ScannerAt, ScanAt
<1>3. state' = "begin" /\ cursor' = cursor /\ UNCHANGED source
  BY DEF GetToken
<1>4. SourceAt(lines, chars, e)'
  BY <1>2, <1>3 DEF source, SourceAt, BufferAt
<1>5. k + 1 \in 0 .. Len(tokens)
  BY <1>1, <1>2
<1>6. state' \notin {"scan", "token"} \cup Space \cup Inside
  BY <1>3 DEF Inside, Space
<1>7. ScanAt(tokens, chars, p, k + 1)'
  BY <1>2, <1>3, <1>5, <1>6 DEF ScanAt
<1> QED
  BY <1>4, <1>7 DEF ScannerAt

(* The parser faces the next token, if there is one.                       *)
LEMMA TokenFaced ==
  ASSUME NEW of, Writes(of), NEW v \in DOMAIN of,
         NEW lines, NEW tokens, NEW chars, NEW p, NEW e, Legible(lines, tokens, chars, p, e),
         Prefix(of, v, tokens), NEW k, ScannerAt(lines, tokens, chars, p, e, k),
         NEW L, NEW D, LevelsAt(of, v, L, D), StackIs(stack, L, D), PlaceAt(of, v, Len(tokens), L, D, k),
         pc \notin {"end", "accepted", "thrown"}, state = "token", token # "end_of_input"
  PROVE  Facing(of, v, L, D, k) /\ (token = "value_number" => Converts)
<1>1. /\ k \in Nat /\ k < Len(tokens) /\ token = KindOf(tokens[k + 1])
      /\ Lexeme = tokens[k + 1] /\ (token = "value_number" => Converts)
  BY LexemeIs
<1>2. k + 1 \in 1 .. Len(tokens)
  BY <1>1 DEF Legible
<1>3. tokens[k + 1] = of[v][k + 1]
  BY <1>2 DEF Prefix
<1>4. Ahead(of, v, L, D, k)
  BY AheadIs
<1> QED
  BY <1>1, <1>3, <1>4 DEF Facing

(* What it faces is what it expects.                                       *)
LEMMA FacingExpected ==
  ASSUME NEW of, Writes(of), NEW v \in DOMAIN of, NEW L, NEW D, NEW k, Facing(of, v, L, D, k)
  PROVE  token \in Expected
<1>1. LevelsAt(of, v, L, D) /\ StackIs(stack, L, D) /\ Ahead(of, v, L, D, k)
  BY DEF Facing
<1>2. CASE ValueAhead(of, v, L, D, k)
  <2>1. token \in ValueTokens
    BY <1>2, KindsAhead
  <2>2. pc = "value" \/ (pc = "first" /\ InArray /\ ~InObject)
    BY <1>2 DEF ValueAhead, ValueDue, InArray, InObject
  <2> QED
    BY <2>1, <2>2 DEF Expected
<1>3. ASSUME D > 0 PROVE (L[D].w.type = "object" <=> InObject) /\ (L[D].w.type = "array" <=> InArray)
                         /\ (InObject \/ InArray) /\ ~(InObject /\ InArray)
  <2>1. D \in Nat /\ stack # <<>> /\ Top.type = L[D].w.type /\ L[D].w.type \in Compound
    BY <1>1, <1>3, Innermost
  <2> QED
    BY <2>1 DEF InObject, InArray, Compound
<1>4. CASE EndAhead(of, v, L, D, k)
  <2>1. token = (IF L[D].w.type = "object" THEN "end_object" ELSE "end_array")
    BY <1>4, KindsAhead
  <2>2. pc \in {"first", "more"} /\ D > 0
    BY <1>4 DEF EndAhead
  <2>3. CASE InObject
    <3>1. token = "end_object"
      BY <1>3, <2>1, <2>2, <2>3
    <3>2. CASE pc = "first"
      BY <2>3, <3>1, <3>2 DEF Expected, InObject, InArray
    <3>3. CASE pc = "more"
      BY <2>3, <3>1, <3>3 DEF Expected
    <3> QED
      BY <2>2, <3>2, <3>3
  <2>4. CASE ~InObject
    <3>1. token = "end_array" /\ InArray
      BY <1>3, <2>1, <2>2, <2>4
    <3> QED
      BY <2>2, <2>4, <3>1 DEF Expected
  <2> QED
    BY <2>3, <2>4
<1>5. CASE CommaAhead(of, v, L, D, k)
  <2>1. token = "value_separator" /\ pc = "more"
    BY <1>5, KindsAhead DEF CommaAhead
  <2> QED
    BY <2>1 DEF Expected
<1>6. CASE KeyAhead(of, v, L, D, k)
  <2>1. token = "value_string"
    BY <1>6, KindsAhead
  <2>2. pc = "key" \/ (pc = "first" /\ InObject)
    BY <1>3, <1>6 DEF KeyAhead
  <2>3. CASE pc = "key"
    BY <2>1, <2>3 DEF Expected
  <2>4. CASE pc = "first" /\ InObject
    BY <2>1, <2>4 DEF Expected, InObject, InArray
  <2> QED
    BY <2>2, <2>3, <2>4
<1>7. CASE ColonAhead(of, v, L, D, k)
  <2>1. token = "name_separator" /\ pc = "colon"
    BY <1>7, KindsAhead DEF ColonAhead
  <2> QED
    BY <2>1 DEF Expected
<1> QED
  BY <1>1, <1>2, <1>4, <1>5, <1>6, <1>7 DEF Ahead

(* A string that it faces has no half of a pair without the other.         *)
LEMMA FacingPaired ==
  ASSUME NEW of, Writes(of), NEW v \in DOMAIN of, NEW L, NEW D, NEW k, Facing(of, v, L, D, k),
         token = "value_string"
  PROVE  ~Unpaired(Lexeme)
<1>1. LevelsAt(of, v, L, D) /\ StackIs(stack, L, D) /\ Ahead(of, v, L, D, k)
      /\ token = KindOf(of[v][k + 1]) /\ Lexeme = of[v][k + 1]
  BY DEF Facing
<1>2. CASE ValueAhead(of, v, L, D, k)
  <2>1. PICK w : Due(of, v, L, D, w, k) /\ of[v][k + 1] = of[w][1]
    BY <1>2 DEF ValueAhead
  <2>2. w \in DOMAIN of
    BY <1>1, <2>1, AtValue
  <2>3. KindOf(of[w][1]) = "value_string" /\ Lexeme = of[w][1]
    BY <1>1, <2>1
  <2>4. w.type \notin Compound
    BY <2>2, <2>3, ValueBegins DEF Compound
  <2>5. w.string \in Strings /\ of[w][1] = Quoted(w.string)
    BY <2>2, <2>3, <2>4, ScalarWritten
  <2> QED
    BY <2>3, <2>5, QuotedPaired
<1>3. CASE KeyAhead(of, v, L, D, k)
  <2>1. D > 0 /\ L[D].w.type = "object" /\ L[D].n < Len(Members(L[D].w))
        /\ Lexeme = Quoted(Keys(L[D].w)[L[D].n + 1])
    BY <1>1, <1>3 DEF KeyAhead
  <2>2. L[D].w \in DOMAIN of /\ L[D].n \in Nat
    BY <1>1, <2>1, Innermost
  <2>3. Keys(L[D].w)[L[D].n + 1] \in Strings
    BY <2>1, <2>2, KeyText
  <2> QED
    BY <2>1, <2>3, QuotedPaired
<1>4. ~EndAhead(of, v, L, D, k) /\ ~CommaAhead(of, v, L, D, k) /\ ~ColonAhead(of, v, L, D, k)
  BY KindsAhead
<1> QED
  BY <1>1, <1>2, <1>3, <1>4 DEF Ahead

LEMMA ParseReads ==
  ASSUME NEW of, Writes(of), NEW v \in DOMAIN of,
         NEW lines, NEW tokens, NEW chars, NEW p, NEW e, Legible(lines, tokens, chars, p, e),
         Prefix(of, v, tokens), NEW k, ScannerAt(lines, tokens, chars, p, e, k),
         ParserAt(of, v, Len(tokens), k), Parse
  PROVE  ReadsAt(of, v, tokens, lines, chars, p, e)'
<1>0. PICK n \in Nat : n = Len(tokens)
  BY DEF Legible
<1>1. PICK L, D : LevelsAt(of, v, L, D) /\ StackIs(stack, L, D) /\ PlaceAt(of, v, n, L, D, k)
  BY <1>0 DEF ParserAt
<1>2. k \in 0 .. n /\ n <= Len(of[v])
  BY <1>0 DEF ScannerAt, ScanAt, Prefix
<1>3. ASSUME UNCHANGED lexVars PROVE ScannerAt(lines, tokens, chars, p, e, k)'
  BY <1>3 DEF lexVars, source, ScannerAt, SourceAt, BufferAt, ScanAt
<1>4. CASE Accept
  <2>1. pc = "end" /\ pc' = "accepted" /\ UNCHANGED <<lexVars, stack, result>>
    BY <1>4 DEF Accept
  <2>2. PlaceAt(of, v, n, L, D, k)' /\ StackIs(stack, L, D)'
    BY <1>1, <2>1 DEF PlaceAt, Places, StackIs
  <2>3. ParserAt(of, v, Len(tokens), k)'
    BY <1>0, <1>1, <2>2 DEF ParserAt
  <2> QED
    BY <1>3, <2>1, <2>3 DEF ReadsAt
<1>5. CASE Throw
  <2>1. /\ pc \notin {"accepted", "thrown"} /\ state = "token" /\ pc' = "thrown"
        /\ \/ token \notin Expected
           \/ ValueDue /\ token = "value_number" /\ ~Converts
           \/ token = "value_string" /\ Unpaired(Lexeme)
        /\ UNCHANGED <<lexVars, stack, result>>
    BY <1>5 DEF Throw, Running
  <2>2. n < Len(of[v])
    <3> SUFFICES ASSUME n = Len(of[v]) PROVE FALSE
      BY <1>0, <1>2, ValueBegins
    <3>1. CASE pc = "end"
      <4>1. k = n
        BY <1>1, <3>1 DEF PlaceAt
      <4>2. token = "end_of_input"
        BY <1>0, <2>1, <4>1 DEF ScannerAt, ScanAt
      <4> QED
        BY <2>1, <3>1, <4>2 DEF Expected
    <3>2. CASE pc # "end"
      <4>1. k < n
        BY <1>1, <2>1, <3>2, AheadIs DEF Ahead
      <4>2. token # "end_of_input"
        BY <1>0, <1>2, <2>1, <4>1, KindNotEnd DEF ScannerAt, ScanAt
      <4>3. Facing(of, v, L, D, k) /\ (token = "value_number" => Converts)
        BY <1>0, <1>1, <2>1, <3>2, <4>2, TokenFaced
      <4> QED
        BY <2>1, <4>3, FacingExpected, FacingPaired
    <3> QED
      BY <3>1, <3>2
  <2>3. PlaceAt(of, v, n, L, D, k)' /\ StackIs(stack, L, D)'
    BY <1>1, <2>1, <2>2 DEF PlaceAt, Places, StackIs
  <2>4. ParserAt(of, v, Len(tokens), k)'
    BY <1>0, <1>1, <2>3 DEF ParserAt
  <2> QED
    BY <1>3, <2>1, <2>4 DEF ReadsAt
<1>6. CASE ~Accept /\ ~Throw
  <2>1. state = "token" /\ token # "end_of_input" /\ GetToken /\ pc \notin {"end", "accepted", "thrown"}
    BY <1>6 DEF Parse, Open, Close, Separator, Key, Colon, Scalar, Has, ValueDue
  <2>2. Facing(of, v, L, D, k)
    BY <1>0, <1>1, <2>1, TokenFaced
  <2>3. ScannerAt(lines, tokens, chars, p, e, k + 1)'
    BY <2>1, TokenTaken
  <2>4. ASSUME Open("object", EmptyObject, "begin_object") \/ Open("array", EmptyArray, "begin_array")
        PROVE  ParserAt(of, v, n, k + 1)'
    <3>1. {"object", "array"} = Compound
      BY DEF Compound
    <3>2. ASSUME Open("object", EmptyObject, "begin_object") PROVE ParserAt(of, v, n, k + 1)'
      BY <2>2, <3>1, <3>2, OpenReads
    <3>3. ASSUME Open("array", EmptyArray, "begin_array") PROVE ParserAt(of, v, n, k + 1)'
      BY <2>2, <3>1, <3>3, OpenReads
    <3> QED
      BY <2>4, <3>2, <3>3, Zenon
  <2>5. ASSUME Close("object", "end_object") \/ Close("array", "end_array")
        PROVE  ParserAt(of, v, n, k + 1)'
    <3>1. ASSUME Close("object", "end_object") PROVE ParserAt(of, v, n, k + 1)'
      BY <2>2, <3>1, CloseReads
    <3>2. ASSUME Close("array", "end_array") PROVE ParserAt(of, v, n, k + 1)'
      BY <2>2, <3>2, CloseReads
    <3> QED
      BY <2>5, <3>1, <3>2, Zenon
  <2>6. ASSUME Separator \/ Key \/ Colon PROVE ParserAt(of, v, n, k + 1)'
    BY <2>2, <2>6, SeparatorReads, KeyReads, ColonReads
  <2>7. ASSUME \/ Scalar("literal_null", Null)
               \/ Scalar("literal_true", Boolean(TRUE)) \/ Scalar("literal_false", Boolean(FALSE))
               \/ Scalar("value_string", String(GetString(Lexeme)))
               \/ Scalar("value_number", NumberOf(Printed(Lexeme)))
        PROVE  ParserAt(of, v, n, k + 1)'
    <3>1. PICK types : types = ValueTokens \ {"begin_object", "begin_array"}
      OBVIOUS
    <3>2. /\ "literal_null" \in types /\ "literal_true" \in types /\ "literal_false" \in types
          /\ "value_string" \in types /\ "value_number" \in types
      BY <3>1 DEF ValueTokens
    <3>3. ASSUME Scalar("literal_null", Null) PROVE ParserAt(of, v, n, k + 1)'
      BY <2>2, <3>1, <3>2, <3>3, ScalarReads
    <3>4. ASSUME Scalar("literal_true", Boolean(TRUE)) PROVE ParserAt(of, v, n, k + 1)'
      BY <2>2, <3>1, <3>2, <3>4, ScalarReads
    <3>5. ASSUME Scalar("literal_false", Boolean(FALSE)) PROVE ParserAt(of, v, n, k + 1)'
      BY <2>2, <3>1, <3>2, <3>5, ScalarReads
    <3>6. ASSUME Scalar("value_string", String(GetString(Lexeme))) PROVE ParserAt(of, v, n, k + 1)'
      BY <2>2, <3>1, <3>2, <3>6, ScalarReads
    <3>7. ASSUME Scalar("value_number", NumberOf(Printed(Lexeme))) PROVE ParserAt(of, v, n, k + 1)'
      BY <2>2, <3>1, <3>2, <3>7, ScalarReads
    <3> QED
      BY <2>7, <3>3, <3>4, <3>5, <3>6, <3>7, Zenon
  <2>8. ParserAt(of, v, n, k + 1)'
    BY <1>6, <2>4, <2>5, <2>6, <2>7, Zenon DEF Parse
  <2> QED
    BY <1>0, <2>3, <2>8 DEF ReadsAt
<1> QED
  BY <1>4, <1>5, <1>6

-----------------------------------------------------------------------------
(* What is read comes to be what was written.                              *)
ReadingInv(of) ==
    \E v \in DOMAIN of : \E lines, tokens, chars, p, e :
       /\ Legible(lines, tokens, chars, p, e) /\ Prefix(of, v, tokens)
       /\ ReadsAt(of, v, tokens, lines, chars, p, e)
       /\ input.value = IF Len(tokens) = Len(of[v]) THEN v ELSE Thrown

Answered == pc = "accepted" /\ result = input.value

WrittenInv(of) == ~NoEmptyLine \/ Answered \/ ReadingInv(of)

LEMMA PrefixReadable ==
  ASSUME NEW of, Writes(of), NEW v \in DOMAIN of, NEW n \in Nat, n <= Len(of[v])
  PROVE  \E tokens \in Seq(Seq(Chars)) : /\ tokens = SubSeq(of[v], 1, n) /\ Len(tokens) = n
                                         /\ AllReadable(tokens) /\ Prefix(of, v, tokens)
<1>0. PICK tokens : tokens = SubSeq(of[v], 1, n)
  OBVIOUS
<1>1. PICK T \in Seq(Seq(Chars)) : T = of[v]
  BY WrittenOf
<1>2. PICK l \in Nat : l = Len(T) /\ n <= l
  BY <1>1
<1>3. tokens \in Seq(Seq(Chars)) /\ Len(tokens) = n /\ \A j \in 1 .. n : tokens[j] = T[j]
  <2>1. /\ SubSeq(T, 0 + 1, n) \in Seq(Seq(Chars)) /\ Len(SubSeq(T, 0 + 1, n)) = n - 0
        /\ \A j \in 1 .. n - 0 : SubSeq(T, 0 + 1, n)[j] = T[j + 0]
    BY <1>2, SubSequenceMeans
  <2>2. 0 + 1 = 1 /\ n - 0 = n /\ \A j \in 1 .. n : j + 0 = j
    OBVIOUS
  <2> QED
    BY <1>0, <1>1, <2>1, <2>2
<1>4. AllReadable(T)
  BY <1>1, WrittenReadable
<1>5. ASSUME NEW j \in 1 .. n
      PROVE  /\ Readable(tokens[j])
             /\ KindOf(tokens[j]) = "value_number" /\ j < n => tokens[j + 1] \in EndMarks
  <2>1. j \in 1 .. l /\ (j < n => j + 1 \in 1 .. n /\ j < l)
    BY <1>2
  <2>2. Readable(T[j]) /\ (KindOf(T[j]) = "value_number" /\ j < Len(T) => T[j + 1] \in EndMarks)
    BY <1>2, <1>4, <2>1 DEF AllReadable
  <2> QED
    BY <1>2, <1>3, <2>1, <2>2
<1>6. AllReadable(tokens) /\ Prefix(of, v, tokens)
  BY <1>1, <1>2, <1>3, <1>5 DEF AllReadable, Prefix
<1> QED
  BY <1>0, <1>3, <1>6

LEMMA InitiallyWritten ==
  ASSUME NEW of, Writes(of), Init, Says(input, of)
  PROVE  WrittenInv(of)
<1> SUFFICES ASSUME NoEmptyLine PROVE ReadingInv(of)
  BY DEF WrittenInv
<1>1. PICK v \in DOMAIN of : \E n \in Nat :
         LET tokens == SubSeq(of[v], 1, n)
         IN  /\ n <= Len(of[v]) /\ Spell(<<input.text>>, tokens) /\ Spell(input.lines, tokens)
             /\ input.value = IF n = Len(of[v]) THEN v ELSE Thrown
  BY DEF Says
<1>2. PICK n \in Nat :
         LET tokens == SubSeq(of[v], 1, n)
         IN  /\ n <= Len(of[v]) /\ Spell(<<input.text>>, tokens) /\ Spell(input.lines, tokens)
             /\ input.value = IF n = Len(of[v]) THEN v ELSE Thrown
  BY <1>1
<1>3. n <= Len(of[v]) /\ input.value = (IF n = Len(of[v]) THEN v ELSE Thrown)
  BY <1>2
<1>4. PICK tokens \in Seq(Seq(Chars)) :
        /\ tokens = SubSeq(of[v], 1, n) /\ Len(tokens) = n
        /\ AllReadable(tokens) /\ Prefix(of, v, tokens)
  <2>1. n <= Len(of[v])
    BY <1>3
  <2> QED
    BY <2>1, PrefixReadable
<1>5. /\ tokens \in Seq(Seq(Chars)) /\ Len(tokens) = n /\ AllReadable(tokens)
      /\ Prefix(of, v, tokens)
  BY <1>4
<1>6. input.text \in Seq(Chars) /\ input.lines \in Seq(Seq(Chars)) /\ input.lines # <<>>
  BY LexerAssumption DEF Init, LexInit
<1>7. PICK lines \in Seq(Seq(Chars)) :
        /\ Spell(lines, tokens) /\ lines # <<>>
        /\ Len(lines) = 1 \/ \A i \in 1 .. Len(lines) : lines[i] # <<>>
        /\ buffer = Head(lines) /\ unread = Tail(lines)
        /\ whole => Len(lines) = 1
  <2>1. CASE whole
    <3>1. PICK x \in Seq(Chars) : x = input.text
      BY <1>6
    <3>2. <<x>> \in Seq(Seq(Chars)) /\ Len(<<x>>) = 1 /\ <<x>> # <<>> /\ Head(<<x>>) = x /\ Tail(<<x>>) = <<>>
      OBVIOUS
    <3>3. buffer = x /\ unread = <<>> /\ Spell(<<x>>, tokens)
      BY <1>2, <1>4, <2>1, <3>1 DEF Init, LexInit
    <3> QED
      BY <2>1, <3>2, <3>3
  <2>2. CASE ~whole
    <3>1. buffer = Head(input.lines) /\ unread = Tail(input.lines) /\ Spell(input.lines, tokens)
      BY <1>2, <1>4, <2>2 DEF Init, LexInit
    <3>2. \A i \in 1 .. Len(input.lines) : input.lines[i] # <<>>
      BY <2>2 DEF NoEmptyLine
    <3> QED
      BY <1>6, <2>2, <3>1, <3>2
  <2> QED
    BY <2>1, <2>2
<1>8. PICK chars \in Seq(Chars), p \in [1 .. Len(tokens) + 1 -> Nat], e \in [0 .. Len(lines) -> Nat] :
         SpelledAt(lines, tokens, chars, p, e)
  BY <1>7 DEF Spell
<1>9. Legible(lines, tokens, chars, p, e)
  BY <1>5, <1>7, <1>8 DEF Legible
<1>10. PICK m \in Nat : m = Len(lines)
  BY <1>7
<1>11. m >= 1 /\ 1 \in 1 .. m /\ 0 \in 0 .. m /\ 1 \in 0 .. m
  BY <1>7, <1>10
<1>12. /\ buffer \in Seq(Chars) /\ buffer = lines[1] /\ unread \in Seq(Seq(Chars))
       /\ Len(unread) = m - 1 /\ \A x \in 1 .. m - 1 : unread[x] = lines[x + 1]
  BY <1>7, <1>10, HeadOf
<1>13. SourceAt(lines, chars, e)
  <2>1. e[1] \in Nat /\ e[1] <= Len(chars)
    BY <1>9, <1>10, <1>11, LinesWithin
  <2>2. Divided(lines, chars, e)
    BY <1>8 DEF SpelledAt
  <2>3. e[0] = 0 /\ lines[1] = SubSeq(chars, e[1 - 1] + 1, e[1])
    BY <1>10, <1>11, <2>2 DEF Divided
  <2>4. 1 - 1 = 0
    OBVIOUS
  <2>5. /\ Len(SubSeq(chars, 0 + 1, e[1])) = e[1] - 0
        /\ \A x \in 1 .. e[1] - 0 : SubSeq(chars, 0 + 1, e[1])[x] = chars[x + 0]
    <3>1. PICK j \in Nat : j = e[1] /\ j <= Len(chars)
      BY <2>1
    <3>2. 0 <= j
      OBVIOUS
    <3> QED
      BY <3>1, <3>2, SubSequenceMeans
  <2>6. e[1] - 0 = e[1] /\ \A x \in 1 .. e[1] : x + 0 = x
    BY <2>1
  <2>7. buffer = SubSeq(chars, 0 + 1, e[1])
    BY <1>12, <2>3, <2>4
  <2>8. Len(buffer) = e[1] /\ \A x \in 1 .. e[1] : buffer[x] = chars[x]
    BY <2>5, <2>6, <2>7
  <2>9. \A x \in 1 .. Len(unread) : unread[x] = lines[1 + x]
    <3>1. \A x \in 1 .. m - 1 : x + 1 = 1 + x
      BY <1>10
    <3> QED
      BY <1>12, <3>1
  <2>10. failed => 1 = Len(lines)
    BY <1>7 DEF Init, LexInit
  <2>11. limit = e[1] + 1
    BY <2>8 DEF Init, LexInit
  <2>12. Len(unread) = Len(lines) - 1
    BY <1>10, <1>12
  <2>13. BufferAt(lines, chars, e, 1)
    BY <2>8, <2>9, <2>10, <2>11, <2>12 DEF BufferAt
  <2> QED
    BY <1>10, <1>11, <1>12, <2>13 DEF SourceAt
<1>14. ScannerAt(lines, tokens, chars, p, e, 0)
  <2>1. state = "begin" /\ cursor = 1
    BY DEF Init, LexInit
  <2>2. state \notin {"scan", "token"} \cup Space \cup Inside
    BY <2>1 DEF Space, Inside
  <2>3. cursor = Behind(tokens, p, 0) /\ 0 \in 0 .. Len(tokens)
    BY <1>5, <2>1 DEF Behind
  <2>4. ScanAt(tokens, chars, p, 0)
    BY <2>1, <2>2, <2>3 DEF ScanAt
  <2> QED
    BY <1>13, <2>4 DEF ScannerAt
<1>15. ParserAt(of, v, Len(tokens), 0)
  <2>1. PICK L : L = <<>>
    OBVIOUS
  <2>2. LevelsAt(of, v, L, 0)
    BY DEF LevelsAt
  <2>3. StackIs(stack, L, 0)
    <3>1. stack = <<>>
      BY DEF Init
    <3>2. stack \in Seq({}) /\ Len(stack) = 0
      BY <3>1
    <3> QED
      BY <3>2 DEF StackIs
  <2>4. Due(of, v, L, 0, v, 0)
    BY DEF Due
  <2>5. PlaceAt(of, v, Len(tokens), L, 0, 0)
    BY <2>4 DEF PlaceAt, Places, Init
  <2> QED
    BY <2>2, <2>3, <2>5 DEF ParserAt
<1> QED
  BY <1>3, <1>5, <1>9, <1>14, <1>15 DEF ReadingInv, ReadsAt

(* After it has accepted the text, the parser does nothing.                *)
LEMMA AcceptedStays == ASSUME pc = "accepted", Next PROVE UNCHANGED <<given, pc, result>>
<1>1. ~Parse
  <2>1. /\ ~ValueDue /\ pc \notin {"first", "more", "key", "colon", "end"} /\ ~Running
    BY DEF ValueDue, Running
  <2> QED
    BY <2>1 DEF Parse, Open, Close, Separator, Key, Colon, Scalar, Accept, Throw
<1>2. Scan /\ UNCHANGED <<pc, result>>
  BY <1>1 DEF Next
<1>3. UNCHANGED given
  BY <1>2 DEF Scan, Begin, First, White, Word, Text, InString, InEscape, InHex, Number, Minus, InNumber,
              InHalfNumber, To, Mark, Advance, Return
<1> QED
  BY <1>2, <1>3

LEMMA GivenStays == ASSUME Next PROVE UNCHANGED given
<1>1. Scan => UNCHANGED given
  BY DEF Scan, Begin, First, White, Word, Text, InString, InEscape, InHex, Number, Minus, InNumber,
         InHalfNumber, To, Mark, Advance, Return
<1>2. Parse => UNCHANGED given
  BY DEF Parse, Open, Close, Separator, Key, Colon, Scalar, Accept, Throw, GetToken, lexVars
<1> QED
  BY <1>1, <1>2 DEF Next

LEMMA LexProgramStep == LexInv /\ [ProgramNext]_<<vars, progVars>> => LexInv'
<1> SUFFICES ASSUME LexInv, [ProgramNext]_<<vars, progVars>> PROVE LexInv'
  OBVIOUS
<1>1. CASE [Next]_vars
  BY <1>1, LexStep
<1>2. CASE Returned
  BY <1>2 DEF Returned, LexInv, WithLimits, CursorInv, LiteralInv
<1>3. CASE Use /\ UNCHANGED <<lexVars, pc, stack, result>>
  BY <1>3, LexStep DEF vars
<1> QED
  BY <1>1, <1>2, <1>3 DEF ProgramNext, vars

LEMMA WrittenStep ==
  ASSUME NEW of, Writes(of), LexInv, WrittenInv(of), [ProgramNext]_<<vars, progVars>>
  PROVE  WrittenInv(of)'
<1>1. CASE Returned
  BY <1>1 DEF Returned, WrittenInv, Answered
<1>2. CASE UNCHANGED <<lexVars, pc, stack, result>>
  <2>1. UNCHANGED <<input, whole, lexVars, pc, stack, result>>
    BY <1>2 DEF lexVars, given
  <2>2. CASE ~NoEmptyLine
    BY <2>1, <2>2 DEF WrittenInv, NoEmptyLine
  <2>3. CASE Answered
    BY <2>1, <2>3 DEF WrittenInv, Answered
  <2>4. CASE ReadingInv(of)
    <3>1. PICK v \in DOMAIN of : \E lines, tokens, chars, p, e :
             /\ Legible(lines, tokens, chars, p, e) /\ Prefix(of, v, tokens)
             /\ ReadsAt(of, v, tokens, lines, chars, p, e)
             /\ input.value = IF Len(tokens) = Len(of[v]) THEN v ELSE Thrown
      BY <2>4 DEF ReadingInv
    <3>2. PICK lines, tokens, chars, p, e :
             /\ Legible(lines, tokens, chars, p, e) /\ Prefix(of, v, tokens)
             /\ ReadsAt(of, v, tokens, lines, chars, p, e)
             /\ input.value = IF Len(tokens) = Len(of[v]) THEN v ELSE Thrown
      BY <3>1
    <3>3. PICK k : ScannerAt(lines, tokens, chars, p, e, k) /\ ParserAt(of, v, Len(tokens), k)
      BY <3>2 DEF ReadsAt
    <3>4. ScannerAt(lines, tokens, chars, p, e, k)'
      BY <2>1, <3>3 DEF lexVars, source, ScannerAt, SourceAt, BufferAt, ScanAt
    <3>5. ParserAt(of, v, Len(tokens), k)'
      BY <2>1, <3>3 DEF ParserAt, StackIs, PlaceAt
    <3> QED
      BY <2>1, <3>2, <3>4, <3>5 DEF WrittenInv, ReadingInv, ReadsAt
  <2> QED
    BY <2>2, <2>3, <2>4 DEF WrittenInv
<1>3. CASE Next
  <2>1. UNCHANGED <<input, whole>>
    BY <1>3, GivenStays DEF given
  <2>2. CASE ~NoEmptyLine
    BY <2>1, <2>2 DEF WrittenInv, NoEmptyLine
  <2>3. CASE Answered
    <3>1. UNCHANGED <<pc, result>>
      BY <1>3, <2>3, AcceptedStays DEF Answered
    <3> QED
      BY <2>1, <2>3, <3>1 DEF WrittenInv, Answered
  <2>4. CASE ReadingInv(of)
    <3>1. PICK v \in DOMAIN of : \E lines, tokens, chars, p, e :
             /\ Legible(lines, tokens, chars, p, e) /\ Prefix(of, v, tokens)
             /\ ReadsAt(of, v, tokens, lines, chars, p, e)
             /\ input.value = IF Len(tokens) = Len(of[v]) THEN v ELSE Thrown
      BY <2>4 DEF ReadingInv
    <3>2. PICK lines, tokens, chars, p, e :
             /\ Legible(lines, tokens, chars, p, e) /\ Prefix(of, v, tokens)
             /\ ReadsAt(of, v, tokens, lines, chars, p, e)
             /\ input.value = IF Len(tokens) = Len(of[v]) THEN v ELSE Thrown
      BY <3>1
    <3>3. PICK k : ScannerAt(lines, tokens, chars, p, e, k) /\ ParserAt(of, v, Len(tokens), k)
      BY <3>2 DEF ReadsAt
    <3>4. CASE Parse
      <4>1. ReadsAt(of, v, tokens, lines, chars, p, e)'
        BY <3>2, <3>3, <3>4, ParseReads
      <4> QED
        BY <2>1, <3>2, <4>1 DEF WrittenInv, ReadingInv
    <3>5. CASE Scan /\ UNCHANGED <<pc, stack, result>>
      <4>1. ScannerAt(lines, tokens, chars, p, e, k)'
        BY <3>2, <3>3, <3>5, ScannerReads
      <4>2. ParserAt(of, v, Len(tokens), k)'
        BY <3>3, <3>5 DEF ParserAt, StackIs, PlaceAt
      <4> QED
        BY <2>1, <3>2, <4>1, <4>2 DEF WrittenInv, ReadingInv, ReadsAt
    <3> QED
      BY <1>3, <3>4, <3>5 DEF Next
  <2> QED
    BY <2>2, <2>3, <2>4 DEF WrittenInv
<1> QED
  BY <1>1, <1>2, <1>3 DEF ProgramNext, vars

LEMMA WrittenRead ==
  ASSUME NEW of, Writes(of), WrittenInv(of)
  PROVE  ReadsWhatWasWritten
<1> SUFFICES ASSUME NoEmptyLine PROVE /\ pc = "accepted" => result = input.value
                                      /\ pc = "thrown" => input.value = Thrown
  BY DEF ReadsWhatWasWritten
<1>1. CASE Answered
  BY <1>1 DEF Answered
<1>2. CASE ReadingInv(of)
  <2>1. PICK v \in DOMAIN of : \E lines, tokens, chars, p, e :
           /\ Legible(lines, tokens, chars, p, e) /\ Prefix(of, v, tokens)
           /\ ReadsAt(of, v, tokens, lines, chars, p, e)
           /\ input.value = IF Len(tokens) = Len(of[v]) THEN v ELSE Thrown
    BY <1>2 DEF ReadingInv
  <2>2. PICK lines, tokens, chars, p, e :
           /\ Legible(lines, tokens, chars, p, e) /\ Prefix(of, v, tokens)
           /\ ReadsAt(of, v, tokens, lines, chars, p, e)
           /\ input.value = IF Len(tokens) = Len(of[v]) THEN v ELSE Thrown
    BY <2>1
  <2>3. PICK k : ScannerAt(lines, tokens, chars, p, e, k) /\ ParserAt(of, v, Len(tokens), k)
    BY <2>2 DEF ReadsAt
  <2>4. PICK n \in Nat, l \in Nat : n = Len(tokens) /\ l = Len(of[v])
    BY <2>2, ValueBegins DEF Legible
  <2>5. PICK L, D : PlaceAt(of, v, n, L, D, k)
    BY <2>3, <2>4 DEF ParserAt
  <2>6. n <= l /\ k \in 0 .. n
    BY <2>2, <2>3, <2>4 DEF Prefix, ScannerAt, ScanAt
  <2>7. ASSUME pc = "accepted" PROVE result = input.value
    <3>1. k = l /\ result = v
      BY <2>4, <2>5, <2>7 DEF PlaceAt
    <3>2. n = l
      BY <2>6, <3>1
    <3> QED
      BY <2>2, <2>4, <3>1, <3>2
  <2>8. ASSUME pc = "thrown" PROVE input.value = Thrown
    <3>1. n < l
      BY <2>4, <2>5, <2>8 DEF PlaceAt
    <3>2. n # l
      BY <3>1
    <3> QED
      BY <2>2, <2>4, <3>2
  <2> QED
    BY <2>7, <2>8
<1> QED
  BY <1>1, <1>2 DEF WrittenInv

(* Whatever value dump writes, and however blanks are put between its      *)
(* tokens and the text is cut into lines between them: parse reads it back *)
(* as the value that was written, and refuses it if it is cut short. of is *)
(* what dump writes of the value and of the values in it                   *)
(* (json.hpp:2175-2290, 3596-4366, 4605-4801).                             *)
THEOREM WhatIsWrittenIsRead ==
  ASSUME NEW CONSTANT of, Writes(of)
  PROVE  ProgramSpec /\ Says(input, of) => []ReadsWhatWasWritten
<1>1. ProgramInit /\ Says(input, of) => LexInv /\ WrittenInv(of)
  BY LexInitial, InitiallyWritten DEF ProgramInit
<1>2. LexInv /\ WrittenInv(of) /\ [ProgramNext]_<<vars, progVars>> => (LexInv /\ WrittenInv(of))'
  BY LexProgramStep, WrittenStep
<1>3. WrittenInv(of) => ReadsWhatWasWritten
  BY WrittenRead
<1> QED
  BY <1>1, <1>2, <1>3, PTL DEF ProgramSpec
=============================================================================
