-------------------------- MODULE DaemonStartProofs --------------------------
(***************************************************************************)
(* DaemonStart.tla proved for any log configuration, logging level,        *)
(* threshold and number of descriptors: what descriptors are, and what is  *)
(* written to them, from one inductive invariant.                          *)
(***************************************************************************)
EXTENDS DaemonStart, WellFoundedInduction, FiniteSetTheorems, TLAPS

-----------------------------------------------------------------------------
(* LogConfiguration.tla for any levels, values and files: what each level  *)
(* gets is what the file says of it, or of Global.                         *)

(* The lines about l that come before line n.                              *)
AboutBefore(l, n) ==
    {i \in 1 .. n - 1 : file[i].kind = "config" /\ LevelAt(i) \in {l, Global}}

(* v is what the last one of the lines D says, or the default one.         *)
Says(v, D) ==
    \/ \E i \in D : v = file[i].value /\ \A j \in D : j <= i
    \/ v = Default /\ D = {}

(* v is what the file means for l.                                         *)
Meant(v, l) == Says(v, About(IF Overruled(l) THEN Global ELSE l))

(* While the file is read: what the lines so far say, and that a level is  *)
(* registered by the first line about it.                                  *)
ReadInv ==
    /\ line \in 1 .. Len(file) + 1 /\ level = LevelAt(line) /\ level \in Levels \cup {Unknown}
    /\ DOMAIN since = DOMAIN value /\ DOMAIN value \subseteq Levels
    /\ \A l \in DOMAIN value : since[l] \in AboutBefore(l, line)
    /\ \A l \in DOMAIN value : \A i \in AboutBefore(l, line) : since[l] <= i
    /\ \A l \in Levels : l \in DOMAIN value <=> AboutBefore(l, line) # {}
    /\ \A l \in DOMAIN value : Says(value[l], AboutBefore(l, line))

(* While the list is set in the logger's own: a level that was registered  *)
(* before Global gets Global's value.                                      *)
MergeInv ==
    /\ DOMAIN since = Levels /\ DOMAIN value = Levels /\ done \subseteq Levels
    /\ \A l \in Levels : since[l] \in Nat
    /\ \A l \in Levels : Meant(IF since[l] < since[Global] THEN value[Global] ELSE value[l], l)
    /\ \A l \in done : \A m \in Levels \ done : Before(l, m)
    /\ \A l \in done :
           own[l] = IF since[l] < since[Global] /\ Global \in done THEN value[Global] ELSE value[l]

(* While the map is built: what it says of the levels that are done.       *)
BuildInv ==
    /\ done \subseteq Levels
    /\ \A l \in Levels : Meant(own[l], l)
    /\ done = {} => DOMAIN typed = {}
    /\ done # {} => Global \in done /\ Global \in DOMAIN typed
    /\ \A l \in DOMAIN typed : l \in done /\ typed[l] = own[l]
    /\ \A l \in done : Lookup(l) = own[l]

ConfigInv ==
    /\ phase \in {"parse", "rest", "merge", "build", "built", "configured"}
    /\ phase # "configured" => file \in Seq(Lines) /\ DOMAIN own = Levels
    /\ phase \in {"parse", "rest"} => ReadInv
    /\ phase \in {"parse", "rest", "merge"} => DOMAIN typed = {}
    /\ phase \in {"parse", "rest"} => done = {}
    /\ phase = "rest" => line = Len(file) + 1
    /\ phase = "merge" => MergeInv
    /\ phase \in {"build", "built"} => BuildInv
    /\ phase = "built" => done = Levels

-----------------------------------------------------------------------------
(* The level that a line is below changes at the lines of levels only.     *)
LEMMA LevelBelow ==
  ASSUME file \in Seq(Lines), NEW i \in 1 .. Len(file)
  PROVE  LevelAt(i + 1) = IF file[i].kind = "level" THEN file[i].level ELSE LevelAt(i)
<1> DEFINE above(n) == {j \in 1 .. n - 1 : file[j].kind = "level"}
<1> DEFINE last(n) == CHOOSE j \in above(n) : \A k \in above(n) : k <= j
<1>0. \A n : LevelAt(n) = IF above(n) = {} THEN Unknown ELSE file[last(n)].level
  BY DEF LevelAt
<1>1. CASE file[i].kind = "level"
  <2>1. i \in above(i + 1) /\ \A j \in above(i + 1) : j <= i
    BY <1>1
  <2>2. last(i + 1) = i
    <3>1. \A j \in above(i + 1) : j \in Nat
      OBVIOUS
    <3> HIDE DEF above
    <3>2. last(i + 1) \in above(i + 1) /\ \A j \in above(i + 1) : j <= last(i + 1)
      BY <2>1
    <3> QED
      BY <2>1, <3>1, <3>2
  <2>3. above(i + 1) # {}
    BY <2>1
  <2> HIDE DEF above, last
  <2> QED
    BY <1>0, <1>1, <2>2, <2>3
<1>2. CASE file[i].kind # "level"
  <2>1. above(i + 1) = above(i)
    BY <1>2
  <2>2. last(i + 1) = last(i)
    BY <2>1
  <2> HIDE DEF above, last
  <2> QED
    BY <1>0, <1>2, <2>1, <2>2
<1> QED
  BY <1>1, <1>2

(* The lines about a level, with one more line.                            *)
LEMMA AboutMore ==
  ASSUME file \in Seq(Lines), NEW i \in 1 .. Len(file), NEW l
  PROVE  /\ file[i].kind = "config" /\ LevelAt(i) \in {l, Global}
              => AboutBefore(l, i + 1) = AboutBefore(l, i) \cup {i}
         /\ file[i].kind # "config" \/ LevelAt(i) \notin {l, Global}
              => AboutBefore(l, i + 1) = AboutBefore(l, i)
  BY DEF AboutBefore

LEMMA AboutAll ==
  ASSUME file \in Seq(Lines), NEW l PROVE AboutBefore(l, Len(file) + 1) = About(l)
  BY DEF AboutBefore, About, LinesOf

(* What is said of the file alone stays as long as the file does.          *)
LEMMA SameFile ==
  ASSUME file' = file
  PROVE  /\ \A l : About(l)' = About(l)
         /\ \A v, l : Meant(v, l)' = Meant(v, l)
         /\ line' = line => LevelAt(line)' = LevelAt(line)
         /\ line' = line => \A l : AboutBefore(l, line)' = AboutBefore(l, line)
         /\ \A v, D : Says(v, D)' = Says(v, D)
<1>1. \A n : LevelAt(n)' = LevelAt(n)
  BY DEF LevelAt
<1>2. \A l : LinesOf(l)' = LinesOf(l)
  BY <1>1 DEF LinesOf
<1>3. \A l : About(l)' = About(l) /\ Overruled(l)' = Overruled(l)
  BY <1>2 DEF About, Overruled
<1>4. line' = line => \A l : AboutBefore(l, line)' = AboutBefore(l, line)
  BY <1>1 DEF AboutBefore
<1>5. line' = line => LevelAt(line)' = LevelAt(line)
  BY DEF LevelAt
<1>6. \A v, D : Says(v, D)' = Says(v, D)
  BY DEF Says
<1>7. \A v, l : Meant(v, l)' = Meant(v, l)
  BY <1>3 DEF Meant, Says
<1> QED
  BY <1>3, <1>4, <1>5, <1>6, <1>7

LEMMA ConfigInitInv == ConfigInit => ConfigInv
<1> SUFFICES ASSUME ConfigInit PROVE ConfigInv
  OBVIOUS
<1>1. /\ file \in Seq(Lines) /\ line = 1 /\ phase = "parse" /\ level = Unknown
      /\ DOMAIN since = {} /\ DOMAIN value = {} /\ DOMAIN typed = {} /\ done = {}
      /\ DOMAIN own = Levels
  BY LogAssumption DEF ConfigInit
<1>2. LevelAt(1) = Unknown
  BY DEF LevelAt
<1>3. \A l \in Levels : AboutBefore(l, 1) = {}
  BY DEF AboutBefore
<1>4. ReadInv
  BY <1>1, <1>2, <1>3 DEF ReadInv
<1> QED
  BY <1>1, <1>4 DEF ConfigInv

(* A line that sets nothing.                                               *)
LEMMA SkipStep ==
  ASSUME ConfigInv, phase = "parse", line <= Len(file),
         file[line].kind = "level" \/ (file[line].kind = "config" /\ level = Unknown),
         level' = (IF file[line].kind = "level" THEN file[line].level ELSE level),
         line' = line + 1, UNCHANGED <<file, since, value, phase, own, done, typed>>
  PROVE  ConfigInv'
<1>1. file \in Seq(Lines) /\ ReadInv /\ line \in 1 .. Len(file)
  BY DEF ConfigInv, ReadInv
<1>2. \A n : LevelAt(n)' = LevelAt(n)
  BY DEF LevelAt
<1>3. level' = LevelAt(line + 1)
  BY <1>1, LevelBelow DEF ReadInv
<1>4. ASSUME NEW l \in Levels PROVE AboutBefore(l, line)' = AboutBefore(l, line)
  <2>1. AboutBefore(l, line)' = AboutBefore(l, line + 1)
    BY <1>2 DEF AboutBefore
  <2>2. file[line].kind # "config" \/ LevelAt(line) \notin {l, Global}
    BY <1>1, LogAssumption DEF ReadInv
  <2> QED
    BY <1>1, <2>1, <2>2, AboutMore
<1>5. ReadInv'
  <2>1. /\ line' \in 1 .. Len(file') + 1 /\ level' = LevelAt(line)'
        /\ level' \in Levels \cup {Unknown}
    <3>1. line' \in 1 .. Len(file') + 1
      BY <1>1
    <3>2. level' = LevelAt(line)'
      BY <1>3 DEF LevelAt
    <3>3. file[line].kind = "level" => file[line].level \in Levels \cup {Unknown}
      <4>1. file[line] \in Lines
        BY <1>1
      <4> QED
        BY <4>1 DEF Lines, LevelLine, ConfigLine
    <3> QED
      BY <1>1, <3>1, <3>2, <3>3 DEF ReadInv
  <2>2. (\A l \in Levels : l \in DOMAIN value <=> AboutBefore(l, line) # {})'
    BY <1>1, <1>4 DEF ReadInv
  <2>3. (\A l \in DOMAIN value : Says(value[l], AboutBefore(l, line)))'
    BY <1>1, <1>4 DEF ReadInv, Says
  <2>4. (\A l \in DOMAIN value : since[l] \in AboutBefore(l, line))'
    BY <1>1, <1>4 DEF ReadInv
  <2>5. (\A l \in DOMAIN value : \A i \in AboutBefore(l, line) : since[l] <= i)'
    BY <1>1, <1>4 DEF ReadInv
  <2>6. (DOMAIN since = DOMAIN value /\ DOMAIN value \subseteq Levels)'
    BY <1>1 DEF ReadInv
  <2> QED
    BY <2>1, <2>2, <2>3, <2>4, <2>5, <2>6 DEF ReadInv
<1> QED
  BY <1>1, <1>5 DEF ConfigInv

(* A line that sets a value.                                               *)
LEMMA SetStep ==
  ASSUME ConfigInv, phase = "parse", line <= Len(file), file[line].kind = "config",
         level # Unknown, Set(level, file[line].value), line' = line + 1,
         UNCHANGED <<file, level, phase, own, done, typed>>
  PROVE  ConfigInv'
<1> DEFINE L == IF level = Global THEN Levels ELSE {level}
<1>1. /\ file \in Seq(Lines) /\ ReadInv /\ line \in 1 .. Len(file)
      /\ level \in Levels /\ level = LevelAt(line) /\ L \subseteq Levels
  BY DEF ConfigInv, ReadInv
<1>2. \A n : LevelAt(n)' = LevelAt(n)
  BY DEF LevelAt
<1>3. level' = LevelAt(line + 1)
  BY <1>1, LevelBelow
<1>4. /\ DOMAIN value' = DOMAIN value \cup L /\ DOMAIN since' = DOMAIN value \cup L
      /\ \A l \in L : value'[l] = file[line].value
      /\ \A l \in DOMAIN value \ L : value'[l] = value[l]
      /\ \A l \in L \ DOMAIN value : since'[l] = line
      /\ \A l \in DOMAIN value : since'[l] = since[l]
  BY <1>1 DEF Set, Put, Register, ReadInv
<1>5. ASSUME NEW l \in Levels
      PROVE  /\ l \in L => AboutBefore(l, line)' = AboutBefore(l, line) \cup {line}
             /\ l \notin L => AboutBefore(l, line)' = AboutBefore(l, line)
  <2>1. AboutBefore(l, line)' = AboutBefore(l, line + 1)
    BY <1>2 DEF AboutBefore
  <2>2. l \in L <=> LevelAt(line) \in {l, Global}
    BY <1>1
  <2> QED
    BY <1>1, <2>1, <2>2, AboutMore
<1>6. ASSUME NEW l \in Levels PROVE \A j \in AboutBefore(l, line) : j \in Nat /\ j <= line
  BY <1>1 DEF AboutBefore
<1> HIDE DEF L
<1>7. ReadInv'
  <2>1. /\ line' \in 1 .. Len(file') + 1 /\ level' = LevelAt(line)'
        /\ level' \in Levels \cup {Unknown}
    <3>1. level' = LevelAt(line)'
      BY <1>3 DEF LevelAt
    <3> QED
      BY <1>1, <3>1
  <2>2. (\A l \in Levels : l \in DOMAIN value <=> AboutBefore(l, line) # {})'
    BY <1>1, <1>4, <1>5 DEF ReadInv
  <2>3. (\A l \in DOMAIN value : Says(value[l], AboutBefore(l, line)))'
    <3> SUFFICES ASSUME NEW l \in DOMAIN value' PROVE Says(value[l], AboutBefore(l, line))'
      OBVIOUS
    <3>1. l \in Levels
      BY <1>1, <1>4 DEF ReadInv
    <3>2. CASE l \in L
      <4>1. line \in AboutBefore(l, line)' /\ \A j \in AboutBefore(l, line)' : j <= line
        BY <1>1, <1>5, <1>6, <3>1, <3>2
      <4>2. value'[l] = file'[line].value
        BY <1>4, <3>2
      <4> QED
        BY <4>1, <4>2 DEF Says
    <3>3. CASE l \notin L
      <4>1. Says(value[l], AboutBefore(l, line)) /\ value'[l] = value[l]
        BY <1>1, <1>4, <3>3 DEF ReadInv
      <4>2. AboutBefore(l, line)' = AboutBefore(l, line)
        BY <1>5, <3>1, <3>3
      <4> QED
        BY <4>1, <4>2 DEF Says
    <3> QED
      BY <3>2, <3>3
  <2>4. ASSUME NEW l \in DOMAIN value'
        PROVE  since'[l] \in AboutBefore(l, line)' /\ \A i \in AboutBefore(l, line)' : since'[l] <= i
    <3>1. l \in Levels
      BY <1>1, <1>4 DEF ReadInv
    <3>2. CASE l \in DOMAIN value
      <4>1. /\ since'[l] = since[l] /\ since[l] \in AboutBefore(l, line)
            /\ \A i \in AboutBefore(l, line) : since[l] <= i
        BY <1>1, <1>4, <3>2 DEF ReadInv
      <4>2. since[l] <= line
        BY <1>6, <3>1, <4>1
      <4> QED
        BY <1>5, <3>1, <4>1, <4>2
    <3>3. CASE l \notin DOMAIN value
      <4>1. l \in L /\ since'[l] = line /\ AboutBefore(l, line) = {}
        BY <1>1, <1>4, <3>1, <3>3 DEF ReadInv
      <4>2. AboutBefore(l, line)' = {line}
        BY <1>5, <3>1, <4>1
      <4> QED
        BY <1>1, <4>1, <4>2
    <3> QED
      BY <3>2, <3>3
  <2>5. (DOMAIN since = DOMAIN value /\ DOMAIN value \subseteq Levels)'
    BY <1>1, <1>4 DEF ReadInv
  <2> QED
    BY <2>1, <2>2, <2>3, <2>4, <2>5 DEF ReadInv
<1> QED
  BY <1>1, <1>7 DEF ConfigInv

(* A level is overruled if and only if it is registered before Global.     *)
LEMMA FirstLines ==
  ASSUME file \in Seq(Lines), NEW l \in Levels, NEW s \in About(l), NEW g \in About(Global),
         \A i \in About(l) : s <= i, \A i \in About(Global) : g <= i
  PROVE  Overruled(l) <=> s < g
<1>1. /\ About(l) = LinesOf(l) \cup LinesOf(Global) /\ About(Global) = LinesOf(Global)
      /\ \A i \in About(l) : i \in Nat
      /\ \A i \in About(Global) : i \in Nat
  BY DEF About, LinesOf
<1>2. ASSUME Overruled(l) PROVE s < g
  <2>1. PICK i \in LinesOf(l) : \A j \in LinesOf(Global) : i < j
    BY <1>2 DEF Overruled
  <2>2. i < g /\ s <= i /\ i \in Nat
    BY <1>1, <2>1
  <2> QED
    BY <1>1, <2>2
<1>3. ASSUME s < g PROVE Overruled(l)
  <2>1. s \notin LinesOf(Global)
    BY <1>1, <1>3
  <2>2. ASSUME NEW j \in LinesOf(Global) PROVE s < j
    BY <1>1, <1>3
  <2> QED
    BY <1>1, <2>1, <2>2 DEF Overruled
<1> QED
  BY <1>2, <1>3

(* The defaults for what the file says nothing of.                         *)
LEMMA RestStep == ASSUME ConfigInv, SetRemaining PROVE ConfigInv'
<1>1. /\ file \in Seq(Lines) /\ ReadInv /\ line = Len(file) + 1 /\ line \in Nat
      /\ phase' = "merge" /\ UNCHANGED <<file, line, level, own, done, typed>>
      /\ DOMAIN own = Levels /\ DOMAIN typed = {} /\ done = {} /\ Global \in Levels
  BY LogAssumption DEF SetRemaining, ConfigInv, ReadInv
<1>2. \A l : AboutBefore(l, line) = About(l)
  BY <1>1, AboutAll
<1>3. \A v, l : Meant(v, l)' = Meant(v, l)
  BY <1>1, SameFile
<1>4. \A l \in Levels : About(Global) \subseteq About(l) /\ About(Global) = LinesOf(Global)
                        /\ \A i \in About(l) : i \in Nat
  BY DEF About, LinesOf
<1>5. /\ DOMAIN since' = Levels /\ DOMAIN value' = Levels
      /\ \A l \in Levels : since'[l] \in Nat
      /\ \A l \in Levels : Meant(IF since'[l] < since'[Global] THEN value'[Global] ELSE value'[l], l)
  <2>1. CASE Global \in DOMAIN value
    <3>1. since' = since /\ value' = value
      BY <2>1 DEF SetRemaining
    <3>2. DOMAIN value = Levels /\ DOMAIN since = Levels
      <4>1. About(Global) # {}
        BY <1>1, <1>2, <2>1 DEF ReadInv
      <4>2. ASSUME NEW l \in Levels PROVE l \in DOMAIN value
        <5>1. AboutBefore(l, line) # {}
          BY <1>2, <1>4, <4>1
        <5> QED
          BY <1>1, <5>1 DEF ReadInv
      <4> QED
        BY <1>1, <4>2 DEF ReadInv
    <3>3. ASSUME NEW l \in Levels
          PROVE  /\ since[l] \in About(l) /\ \A i \in About(l) : since[l] <= i
                 /\ Says(value[l], About(l)) /\ since[l] \in Nat
      BY <1>1, <1>2, <1>4, <3>2 DEF ReadInv
    <3>4. ASSUME NEW l \in Levels
          PROVE  Meant(IF since[l] < since[Global] THEN value[Global] ELSE value[l], l)
      <4>1. Overruled(l) <=> since[l] < since[Global]
        BY <1>1, <3>3, FirstLines
      <4>2. Says(value[Global], About(Global)) /\ Says(value[l], About(l))
        BY <1>1, <3>3
      <4> QED
        BY <4>1, <4>2 DEF Meant
    <3> QED
      BY <3>1, <3>2, <3>3, <3>4
  <2>2. CASE Global \notin DOMAIN value
    <3>1. LinesOf(Global) = {} /\ About(Global) = {}
      BY <1>1, <1>2, <1>4, <2>2 DEF ReadInv
    <3>2. /\ DOMAIN value' = Levels /\ DOMAIN since' = Levels
          /\ \A l \in Levels : value'[l] = Default
          /\ \A l \in Levels : since'[l] \in {line} \cup {since[m] : m \in DOMAIN since \cap {l}}
      BY <1>1, <2>2 DEF SetRemaining, Set, Put, Register, ReadInv
    <3>3. ASSUME NEW l \in Levels PROVE since'[l] \in Nat
      BY <1>1, <1>2, <1>4, <3>2 DEF ReadInv
    <3>4. ASSUME NEW l \in Levels PROVE Meant(Default, l)
      <4>1. CASE Overruled(l)
        BY <3>1, <4>1 DEF Meant, Says
      <4>2. CASE ~Overruled(l)
        <5>1. About(l) = {}
          BY <3>1, <4>2 DEF Overruled, About
        <5> QED
          BY <4>2, <5>1 DEF Meant, Says
      <4> QED
        BY <4>1, <4>2
    <3> QED
      BY <1>1, <3>2, <3>3, <3>4
  <2> QED
    BY <2>1, <2>2
<1>6. MergeInv'
  <2>1. (\A l \in Levels : Meant(IF since[l] < since[Global] THEN value[Global] ELSE value[l], l))'
    BY <1>3, <1>5
  <2> QED
    BY <1>1, <1>5, <2>1 DEF MergeInv
<1> QED
  BY <1>1, <1>6 DEF ConfigInv

(* A value of the file's list is set in the logger's own.                  *)
LEMMA MergeStep == ASSUME ConfigInv, Merge PROVE ConfigInv'
<1>1. /\ phase = "merge" /\ file \in Seq(Lines) /\ MergeInv /\ DOMAIN own = Levels
      /\ UNCHANGED <<file, line, level, since, value, phase, typed>>
      /\ Global \in Levels
  BY LogAssumption DEF Merge, ConfigInv
<1>2. PICK l \in Levels \ done :
          /\ \A m \in Levels \ done : Before(l, m)
          /\ own' = Put(own, IF l = Global THEN Levels ELSE {l}, value[l])
          /\ done' = done \cup {l}
  BY <1>1 DEF Merge, MergeInv
<1>3. DOMAIN own' = Levels
  BY <1>1, <1>2 DEF Put
<1>4. MergeInv'
  <2>1. (\A m \in Levels : Meant(IF since[m] < since[Global] THEN value[Global] ELSE value[m], m))'
    BY <1>1, SameFile DEF MergeInv
  <2>2. (\A m \in done : \A n \in Levels \ done : Before(m, n))'
    BY <1>1, <1>2 DEF MergeInv, Before
  <2>3. ASSUME NEW m \in done'
        PROVE  own'[m] = IF since[m] < since[Global] /\ Global \in done' THEN value[Global] ELSE value[m]
    <3>1. m \in Levels /\ since[m] \in Nat /\ since[Global] \in Nat /\ since[l] \in Nat
      BY <1>1, <1>2 DEF MergeInv
    <3>2. m # Global => Rank[Global] \in Nat /\ Rank[m] \in Nat /\ Rank[Global] < Rank[m]
      BY <3>1, LogAssumption
    <3>3. CASE l = Global
      <4>1. own'[m] = value[Global]
        BY <1>1, <1>2, <3>1, <3>3 DEF Put
      <4>2. CASE m = Global
        BY <4>1, <4>2
      <4>3. CASE m # Global
        <5>1. Before(m, Global)
          BY <1>1, <1>2, <2>3, <3>3, <4>3 DEF MergeInv
        <5>2. since[m] < since[Global]
          BY <3>1, <3>2, <4>3, <5>1 DEF Before
        <5> QED
          BY <1>2, <3>3, <4>1, <5>2
      <4> QED
        BY <4>2, <4>3
    <3>4. CASE l # Global /\ m = l
      <4>1. own'[m] = value[m]
        BY <1>1, <1>2, <3>1, <3>4 DEF Put
      <4>2. CASE Global \in done
        <5>1. Before(Global, m)
          BY <1>1, <1>2, <3>4, <4>2 DEF MergeInv
        <5>2. ~(since[m] < since[Global])
          BY <3>1, <5>1 DEF Before
        <5> QED
          BY <4>1, <5>2
      <4>3. CASE Global \notin done
        BY <1>2, <3>4, <4>1, <4>3
      <4> QED
        BY <4>2, <4>3
    <3>5. CASE l # Global /\ m # l
      <4>1. m \in done /\ own'[m] = own[m] /\ (Global \in done' <=> Global \in done)
        BY <1>1, <1>2, <2>3, <3>1, <3>5 DEF Put
      <4> QED
        BY <1>1, <4>1 DEF MergeInv
    <3> QED
      BY <3>3, <3>4, <3>5
  <2> QED
    BY <1>1, <1>2, <2>1, <2>2, <2>3 DEF MergeInv
<1> QED
  BY <1>1, <1>3, <1>4 DEF ConfigInv

LEMMA MergedStep == ASSUME ConfigInv, Merged PROVE ConfigInv'
<1>1. /\ phase = "merge" /\ phase' = "build" /\ done = Levels /\ done' = {} /\ MergeInv
      /\ file \in Seq(Lines) /\ DOMAIN own = Levels /\ DOMAIN typed = {} /\ Global \in Levels
      /\ UNCHANGED <<file, line, level, since, value, own, typed>>
  BY LogAssumption DEF Merged, ConfigInv, MergeInv
<1>2. \A l \in Levels : Meant(own[l], l)
  BY <1>1 DEF MergeInv
<1>3. BuildInv'
  <2>1. (\A l \in Levels : Meant(own[l], l))'
    BY <1>1, <1>2, SameFile
  <2> QED
    BY <1>1, <2>1 DEF BuildInv
<1> QED
  BY <1>1, <1>3 DEF ConfigInv

(* A level gets into the map, unless it has the value of Global.           *)
LEMMA BuildStep == ASSUME ConfigInv, Build PROVE ConfigInv'
<1>1. /\ phase = "build" /\ file \in Seq(Lines) /\ DOMAIN own = Levels
      /\ UNCHANGED <<file, line, level, since, value, phase, own>>
      /\ BuildInv /\ Global \in Levels
  BY LogAssumption DEF Build, ConfigInv
<1>2. PICK l \in Levels \ done :
          /\ \A m \in Levels \ done : Rank[l] <= Rank[m]
          /\ typed' = SetValue(l, own[l]) /\ done' = done \cup {l}
  BY DEF Build
<1>3. \A m \in Levels : Meant(own[m], m)'
  BY <1>1, SameFile DEF BuildInv
<1>4. BuildInv'
  <2>1. CASE done = {}
    <3>1. l = Global
      <4>1. Rank[l] \in Nat /\ Rank[Global] \in Nat /\ (l # Global => Rank[Global] < Rank[l])
        BY <1>1, LogAssumption
      <4>2. Rank[l] <= Rank[Global]
        BY <1>1, <1>2, <2>1
      <4> QED
        BY <4>1, <4>2
    <3>2. DOMAIN typed' = {Global} /\ typed'[Global] = own[Global]
      BY <1>1, <1>2, <2>1, <3>1 DEF BuildInv, SetValue, Put
    <3> QED
      BY <1>1, <1>2, <1>3, <2>1, <3>1, <3>2 DEF BuildInv, Lookup
  <2>2. CASE done # {}
    <3>1. /\ Global \in done /\ Global \in DOMAIN typed /\ typed[Global] = own[Global]
          /\ l # Global /\ l \notin DOMAIN typed
      BY <1>1, <1>2, <2>2 DEF BuildInv
    <3>2. /\ DOMAIN typed' \subseteq DOMAIN typed \cup {l} /\ DOMAIN typed \subseteq DOMAIN typed'
          /\ \A m \in DOMAIN typed : typed'[m] = typed[m]
          /\ l \in DOMAIN typed' => typed'[l] = own[l]
          /\ l \notin DOMAIN typed' => typed'[Global] = own[l]
      BY <1>2, <3>1 DEF SetValue, Put
    <3>3. \A m \in done' : Lookup(m)' = own[m]
      BY <1>1, <1>2, <3>1, <3>2 DEF BuildInv, Lookup
    <3> QED
      BY <1>1, <1>2, <1>3, <3>1, <3>2, <3>3 DEF BuildInv
  <2> QED
    BY <2>1, <2>2
<1> QED
  BY <1>1, <1>4 DEF ConfigInv

LEMMA ConfigureStep == ConfigInv /\ Configure => ConfigInv'
<1> SUFFICES ASSUME ConfigInv, Configure PROVE ConfigInv'
  OBVIOUS
<1>1. CASE ReadLevel
  BY <1>1, SkipStep DEF ReadLevel
<1>2. CASE ReadConfig /\ level = Unknown
  BY <1>2, SkipStep DEF ReadConfig
<1>3. CASE ReadConfig /\ level # Unknown
  BY <1>3, SetStep DEF ReadConfig
<1>4. CASE EndOfFile
  <2>1. line = Len(file) + 1 /\ ReadInv
    BY <1>4 DEF EndOfFile, ConfigInv, ReadInv
  <2>2. ReadInv'
    BY <1>4, <2>1, SameFile DEF EndOfFile, ReadInv
  <2> QED
    BY <1>4, <2>1, <2>2 DEF EndOfFile, ConfigInv
<1>5. CASE SetRemaining
  BY <1>5, RestStep
<1>6. CASE Merge
  BY <1>6, MergeStep
<1>7. CASE Merged
  BY <1>7, MergedStep
<1>8. CASE Build
  BY <1>8, BuildStep
<1>9. CASE EndOfList
  <2>1. BuildInv'
    BY <1>9, SameFile DEF EndOfList, ConfigInv, BuildInv, Lookup
  <2> QED
    BY <1>9, <2>1 DEF EndOfList, ConfigInv
<1> QED
  BY <1>1, <1>2, <1>3, <1>4, <1>5, <1>6, <1>7, <1>8, <1>9 DEF Configure

(* What the map says is what the file means.                               *)
LEMMA AsTheFileSays == ConfigInv => ConfiguredAsWritten
<1> SUFFICES ASSUME ConfigInv, phase = "built", NEW l \in Levels
             PROVE  Lookup(l) = AsWritten(IF Overruled(l) THEN Global ELSE l)
  BY DEF ConfiguredAsWritten
<1> DEFINE m == IF Overruled(l) THEN Global ELSE l
<1>1. Lookup(l) = own[l] /\ Says(own[l], About(m))
  BY DEF ConfigInv, BuildInv, Meant
<1> HIDE DEF m
<1>2. CASE About(m) = {}
  BY <1>1, <1>2 DEF Says, AsWritten, m
<1>3. CASE About(m) # {}
  <2>1. PICK i \in About(m) : own[l] = file[i].value /\ \A j \in About(m) : j <= i
    BY <1>1, <1>3 DEF Says
  <2>2. \A j \in About(m) : j \in Nat
    BY DEF About, LinesOf
  <2>3. (CHOOSE k \in About(m) : \A j \in About(m) : j <= k) = i
    BY <2>1, <2>2
  <2>4. AsWritten(m) = file[i].value
    BY <1>3, <2>3 DEF AsWritten
  <2> QED
    BY <1>1, <2>1, <2>4 DEF m
<1> QED
  BY <1>2, <1>3

-----------------------------------------------------------------------------
(* The descriptors, and what is written to them.                           *)
Early    == {"args", "fork", "logger"}
Standard == Early \cup {"sigaction", "chdir", "close"}   \* 0, 1 and 2 are open
HasConf  == {"version", "address", "socket", "bind", "engine", "started", "failed"}
HasPort  == {"bind", "engine", "started", "loop", "accept", "attach", "rejected"}

(* Where the process stands.                                               *)
PhaseInv ==
    /\ pc \in Early => phase # "configured" /\ ~handler
    /\ pc \notin Early \cup Ended => phase = "configured"
    /\ phase # "configured" => reached = {}
    /\ ~Serving /\ pc \notin Ended => unit = None /\ memc = None /\ closing = None

(* There is room to open what is opened at the start.                      *)
RoomInv ==
    /\ pc = "args" => \A d \in 4 .. MaxFd : fds[d] = "free"
    /\ pc \in {"fork", "logger"} => fds[5] = "free"
    /\ pc \in Standard => \A d \in 0 .. 2 : fds[d] = "terminal"
    /\ pc = "conf" => \A d \in 0 .. 2 : fds[d] = "free"
    /\ pc \in {"version", "address", "socket"} => fds[1] = "free"

(* Whose a descriptor is. A number that is to be closed may have another   *)
(* owner by then: a unit or memcached.                                     *)
OwnerInv ==
    /\ \A d \in Fd :
         /\ fds[d] = "terminal" => d < 3 /\ pc \in Standard \cup Ended
         /\ fds[d] = "conf" => pc \in HasConf \cup Ended
         /\ fds[d] = "unit" => unit = d
         /\ fds[d] = "memcached" => memc = d
    /\ \A d \in {unit, memc, closing} \ {None} : fds[d] \in {"free", "unit", "memcached"}
    /\ pc \in HasPort => server \in Fd /\ fds[server] = "listen"
    /\ pc \notin Early \cup Ended /\ toFile => \E d \in 3 .. MaxFd : fds[d] = "log"

(* std::cout is spoilt before the socket is there.                         *)
SilenceInv ==
    phase = "configured" /\ Prints(Info) =>
        /\ reached \subseteq {"terminal"}
        /\ pc \in Standard \cup Ended \cup {"conf", "version"} \/ ~good

(* No more lines are pending than are counted, unless the stream failed.   *)
CountInv ==
    /\ Threshold > 0 => \A l \in Used : unflushed[l] <= Threshold - 1
    /\ ~failed => pending <= unflushed[Debug] + unflushed[Error] + unflushed[Info]
    /\ pc = "exited" /\ ~failed => pending = 0

IInv == TypeOK /\ PhaseInv /\ RoomInv /\ OwnerInv /\ SilenceInv /\ CountInv

-----------------------------------------------------------------------------
(* A set of numbers that is not empty has a least one.                     *)
LEMMA LeastNumber ==
  ASSUME NEW D \in SUBSET Nat, D # {}
  PROVE  Min(D) \in D /\ \A d \in D : Min(D) <= d
<1> DEFINE less == OpToRel(<, Nat)
<1>1. \E d \in D : \A e \in D : ~(<<e, d>> \in less)
  BY WFMin, NatLessThanWellFounded
<1>2. ASSUME NEW d \in Nat, NEW e \in Nat, e < d PROVE <<e, d>> \in less
  <2> DEFINE p == <<e, d>>
  <2>1. p \in Nat \X Nat /\ p[1] < p[2]
    BY <1>2
  <2> HIDE DEF p
  <2>2. p \in less
    BY <2>1, Zenon DEF OpToRel
  <2> QED
    BY <2>2 DEF p
<1> HIDE DEF less
<1>3. PICK d \in D : \A e \in D : ~(<<e, d>> \in less)
  BY <1>1
<1>4. ASSUME NEW e \in D PROVE d <= e
  <2>1. d \in Nat /\ e \in Nat
    OBVIOUS
  <2>2. ~(e < d)
    BY <1>2, <1>3, <2>1
  <2> QED
    BY <2>1, <2>2
<1> QED
  BY <1>4 DEF Min

(* open() gives out a number that is free.                                 *)
LEMMA OpenedIsFree ==
  ASSUME TypeOK, NEW d \in Fd, fds[d] = "free", NEW what
  PROVE  /\ Min(Free) \in Fd /\ fds[Min(Free)] = "free" /\ Min(Free) <= d
         /\ Opened(what) = [e \in Fd |-> IF e = Min(Free) THEN what ELSE fds[e]]
<1>1. Free \in SUBSET Nat /\ d \in Free
  BY DaemonAssumption DEF Free, Fd
<1>2. Min(Free) \in Free /\ Min(Free) <= d
  BY <1>1, LeastNumber
<1> QED
  BY <1>2 DEF Free, Opened, TypeOK
-----------------------------------------------------------------------------
(* What the proofs need of the constants of the logger.                    *)
LEMMA LoggerConstants ==
    /\ Threshold \in Nat /\ LoggingLevels \subseteq Nat
    /\ Debug # Error /\ Error # Info /\ Info # Debug
  BY LoggerAssumption

(* The lines pending are counted, unless they have just been flushed.      *)
LEMMA Counted ==
  ASSUME NEW old \in [Used -> Nat], NEW p \in Nat, NEW q \in Nat, NEW n \in Nat, NEW l \in Used,
         p <= old[Debug] + old[Error] + old[Info],
         (q = p + 1 /\ n = old[l] + 1) \/ q = 0
  PROVE  q <= [old EXCEPT ![l] = n][Debug] + [old EXCEPT ![l] = n][Error]
                + [old EXCEPT ![l] = n][Info]
<1> DEFINE new == [old EXCEPT ![l] = n]
<1>1. new \in [Used -> Nat] /\ new[l] = n /\ \A m \in Used \ {l} : new[m] = old[m]
  OBVIOUS
<1> HIDE DEF new
<1>2. /\ Debug \in Used /\ Error \in Used /\ Info \in Used
      /\ l = Debug \/ l = Error \/ l = Info
  BY DEF Used
<1>3. /\ old[Debug] \in Nat /\ old[Error] \in Nat /\ old[Info] \in Nat
      /\ new[Debug] \in Nat /\ new[Error] \in Nat /\ new[Info] \in Nat
  BY <1>1, <1>2
<1>4. q <= new[Debug] + new[Error] + new[Info]
  <2>1. CASE l = Debug
    BY <1>1, <1>2, <1>3, <2>1, LoggerConstants
  <2>2. CASE l = Error
    BY <1>1, <1>2, <1>3, <2>2, LoggerConstants
  <2>3. CASE l = Info
    BY <1>1, <1>2, <1>3, <2>3, LoggerConstants
  <2> QED
    BY <1>2, <2>1, <2>2, <2>3
<1> QED
  BY <1>4 DEF new

(* The numbers in use at the start are descriptors.                        *)
LEMMA Numbers ==
    /\ MaxFd \in Nat /\ None \notin Fd /\ Fd \subseteq Nat
    /\ 0 \in Fd /\ 1 \in Fd /\ 2 \in Fd /\ 5 \in Fd
    /\ \A d \in 0 .. 2 : d \in Fd /\ d < 3
    /\ \A d \in 3 .. MaxFd : d \in Fd /\ ~(d < 3)
    /\ \A d \in 4 .. MaxFd : d \in Fd /\ ~(d < 3) /\ d # 3
    /\ 4 \in 4 .. MaxFd /\ 5 \in 4 .. MaxFd
  BY DaemonAssumption DEF Fd

(* What a log statement does to the counts and the stream.                 *)
Counts ==
    /\ unflushed' \in [Used -> Nat] /\ pending' \in Nat
    /\ failed' \in BOOLEAN /\ racing' \in BOOLEAN
    /\ Threshold > 0 => \A m \in Used : unflushed'[m] <= Threshold - 1
    /\ ~failed' => pending' <= unflushed'[Debug] + unflushed'[Error] + unflushed'[Info]

LEMMA CountsStay ==
  ASSUME LoggerTypeOK, CountInv, UNCHANGED <<unflushed, pending, racing>>, failed' \in {failed, TRUE}
  PROVE  Counts
  BY DEF Counts, LoggerTypeOK, CountInv

(* A line that is logged is counted, or the stream has failed.             *)
LEMMA LineLogged ==
  ASSUME LoggerTypeOK, CountInv, NEW l \in Used, WriteFile(l)
  PROVE  Counts
<1> USE DEF CountInv, LoggerTypeOK
<1>1. CASE UNCHANGED <<unflushed, pending, racing>> /\ failed' \in {failed, TRUE}
  BY <1>1, CountsStay
<1>2. CASE ~(UNCHANGED <<unflushed, pending, racing>> /\ failed' \in {failed, TRUE})
  <2>1. /\ ~failed /\ racing' = racing
        /\ IF IsFlushNeeded(l)
            THEN unflushed' = [unflushed EXCEPT ![l] = 0] /\ Flush
            ELSE /\ unflushed' = [unflushed EXCEPT ![l] = @ + 1]
                 /\ pending' = pending + 1 /\ failed' = failed
    BY <1>2 DEF WriteFile
  <2>2. PICK n \in Nat :
            /\ unflushed' = [unflushed EXCEPT ![l] = n] /\ pending' \in Nat /\ failed' \in BOOLEAN
            /\ ~failed' => (pending' = pending + 1 /\ n = unflushed[l] + 1) \/ pending' = 0
            /\ Threshold > 0 => n <= Threshold - 1
    <3>1. unflushed[l] \in Nat
      OBVIOUS
    <3>2. CASE IsFlushNeeded(l)
      <4>1. unflushed' = [unflushed EXCEPT ![l] = 0] /\ Flush /\ ~failed
        BY <2>1, <3>2
      <4>2. Threshold > 0 => 0 <= Threshold - 1
        BY LoggerConstants
      <4>3. failed' \in BOOLEAN /\ (~failed' => pending' = 0)
        BY <4>1, Zenon DEF Flush
      <4>4. pending' \in Nat
        BY <4>1 DEF Flush
      <4> QED
        BY <4>1, <4>2, <4>3, <4>4
    <3>3. CASE ~IsFlushNeeded(l)
      BY <2>1, <3>1, <3>3, LoggerConstants DEF IsFlushNeeded
    <3> QED
      BY <3>2, <3>3
  <2>3. unflushed' \in [Used -> Nat] /\ \A m \in Used : unflushed'[m] \in {n, unflushed[m]}
    BY <2>2
  <2>4. ~failed' => pending' <= unflushed'[Debug] + unflushed'[Error] + unflushed'[Info]
    BY <2>1, <2>2, Counted
  <2> QED
    BY <2>1, <2>2, <2>3, <2>4 DEF Counts
<1> QED
  BY <1>1, <1>2

USE DEF world, conns, Rest, config, lines, logVars, Silent, Early, Standard, HasConf,
        HasPort, Ended, Serving, Idle

(* A step of main or of the polling thread that goes on at next: it may    *)
(* write a line, which may stop the process.                               *)
Voice(next) ==
    /\ pc' \in {next, "killed"} /\ good' \in BOOLEAN
    /\ UNCHANGED <<config, loggingLevel, toFile>>
    /\ reached' \in {reached, reached \cup {fds[1]}}
    /\ fds[1] = "free" => reached' = reached
    /\ ~good => ~good' /\ reached' = reached
    /\ Counts

LEMMA Logged ==
  ASSUME TypeOK, CountInv, NEW l \in Used, NEW next, Log(l, next)
  PROVE  Voice(next) /\ (Prints(l) /\ fds[1] = "free" => ~good')
<1>1. WriteFile(l) /\ LoggerTypeOK
  BY DEF Log, TypeOK
<1>2. pc' \in {next, "killed"} /\ UNCHANGED <<config, loggingLevel, toFile>>
  BY DEF Log, Alive
<1>3. /\ good' \in BOOLEAN /\ reached' \in {reached, reached \cup {fds[1]}}
      /\ fds[1] = "free" => reached' = reached
      /\ ~good => ~good' /\ reached' = reached
      /\ Prints(l) /\ fds[1] = "free" => ~good'
  BY DEF Log, Say, TypeOK
<1> QED
  BY <1>1, <1>2, <1>3, LineLogged DEF Voice

LEMMA Silenced == ASSUME TypeOK, CountInv, NEW next, Silent(next) PROVE Voice(next)
  BY CountsStay DEF Voice, TypeOK

LEMMA Said ==
  ASSUME TypeOK, CountInv, Say(TRUE), pc' = Alive(TRUE, pc), UNCHANGED logVars
  PROVE  Voice(pc)
  BY CountsStay DEF Say, Alive, Voice, TypeOK

LEMMA Raced ==
  ASSUME TypeOK, Race, pc' = "started",
         UNCHANGED <<config, loggingLevel, toFile, good, reached>>
  PROVE  Voice("started")
<1>1. Debug \in Used /\ Error \in Used /\ Info \in Used
  BY DEF Used
<1>2. Counts
  BY <1>1, LoggerConstants DEF Race, Counts, Uncounted, TypeOK, LoggerTypeOK
<1> QED
  BY <1>2 DEF Voice, TypeOK

(* What such a step leaves as it was.                                      *)
LEMMA VoiceKeeps ==
  ASSUME IInv, NEW next, Voice(next), pc \notin Early \cup Ended, next # "exited",
         \/ next \in Standard \cup Ended \cup {"conf", "version"}
         \/ pc \notin Standard \cup {"conf", "version"}
  PROVE  LoggerTypeOK' /\ SilenceInv' /\ CountInv' /\ phase' = "configured"
<1>1. phase = "configured" /\ phase' = phase
  BY DEF IInv, PhaseInv, Voice
<1>2. LoggerTypeOK' /\ CountInv'
  BY DEF IInv, TypeOK, LoggerTypeOK, Voice, Counts, CountInv
<1>3. Prints(Info)' = Prints(Info)
  BY DEF Voice, Prints, Proceeds, Lookup
<1>4. SilenceInv'
  <2> SUFFICES ASSUME Prints(Info)
               PROVE  /\ reached' \subseteq {"terminal"}
                      /\ pc' \in Standard \cup Ended \cup {"conf", "version"} \/ ~good'
    BY <1>3 DEF SilenceInv
  <2>1. reached \subseteq {"terminal"}
    BY <1>1 DEF IInv, SilenceInv
  <2>2. CASE pc \in Standard \cup {"conf", "version"}
    <3>1. fds[1] \in {"terminal", "free"}
      BY <2>2, Numbers DEF IInv, RoomInv
    <3> QED
      BY <2>1, <2>2, <3>1 DEF Voice
  <2>3. CASE pc \notin Standard \cup {"conf", "version"}
    <3>1. ~good
      BY <1>1, <2>3 DEF IInv, SilenceInv
    <3> QED
      BY <2>1, <3>1 DEF Voice
  <2> QED
    BY <2>2, <2>3
<1> QED
  BY <1>1, <1>2, <1>4

LEMMA InitIInv == Init => IInv
<1> SUFFICES ASSUME Init PROVE IInv
  OBVIOUS
<1>1. TypeOK
  <2>1. fds \in [Fd -> Kinds]
    BY DEF Init, Kinds
  <2> QED
    BY <2>1, LoggerConstants
    DEF Init, LoggerInit, ConfigInit, Uncounted, TypeOK, LoggerTypeOK, Places
<1>2. PhaseInv /\ RoomInv
  <2>1. /\ pc = "args" /\ phase = "parse" /\ handler = FALSE /\ reached = {}
        /\ unit = None /\ memc = None /\ closing = None
    BY DEF Init, LoggerInit, ConfigInit
  <2>2. fds = [d \in Fd |-> IF d < 3 THEN "terminal"
                           ELSE IF d = 3 /\ toFile THEN "default log" ELSE "free"]
    BY DEF Init
  <2>3. PhaseInv
    BY <2>1 DEF PhaseInv
  <2>4. RoomInv
    BY <2>1, <2>2, Numbers DEF RoomInv
  <2> QED
    BY <2>3, <2>4
<1>3. OwnerInv
  BY DaemonAssumption DEF Init, OwnerInv, Fd
<1>4. SilenceInv
  BY DEF Init, LoggerInit, ConfigInit, SilenceInv
<1>5. CountInv
  <2>1. pc = "args" /\ pending = 0 /\ \A m \in Used : unflushed[m] = 0
    BY DEF Init, LoggerInit, Uncounted
  <2>2. Debug \in Used /\ Error \in Used /\ Info \in Used
    BY DEF Used
  <2> QED
    BY <2>1, <2>2, LoggerConstants DEF CountInv
<1> QED
  BY <1>1, <1>2, <1>3, <1>4, <1>5 DEF IInv

-----------------------------------------------------------------------------
(* A step after the start of the logger that leaves descriptors alone.     *)
Leads(next) ==
    \/ next \in {pc, "exit", "aborted", "killed"}
    \/ <<pc, next>> \in {<<"chdir", "close">>, <<"address", "socket">>, <<"address", "failed">>,
                         <<"socket", "failed">>, <<"bind", "engine">>, <<"bind", "failed">>,
                         <<"engine", "started">>, <<"loop", "accept">>, <<"accept", "loop">>,
                         <<"attach", "loop">>}

LEMMA QuietStep ==
  ASSUME IInv, NEW next, Voice(next), UNCHANGED <<fds, Rest>>,
         pc \notin Early \cup Ended, Leads(next)
  PROVE  IInv'
<1>1. LoggerTypeOK' /\ SilenceInv' /\ CountInv' /\ phase' = "configured"
  BY VoiceKeeps DEF Leads
<1>2. pc' \in {next, "killed"} /\ toFile' = toFile /\ good' \in BOOLEAN
  BY DEF Voice
<1>3. TypeOK'
  <2>1. pc' \in Places
    BY <1>2 DEF IInv, TypeOK, Leads, Places
  <2> QED
    BY <1>1, <1>2, <2>1 DEF IInv, TypeOK
<1>4. PhaseInv'
  BY <1>1, <1>2 DEF IInv, PhaseInv, Leads
<1>5. RoomInv'
  BY <1>2 DEF IInv, RoomInv, Leads
<1>6. OwnerInv'
  BY <1>2 DEF IInv, OwnerInv, Leads
<1> QED
  BY <1>1, <1>3, <1>4, <1>5, <1>6 DEF IInv

(* Before the logger is there nothing is said, and a number is opened at   *)
(* most.                                                                   *)
LEMMA EarlyStep ==
  ASSUME IInv, pc \in Early,
         OpenPidfile \/ Daemonize \/ InitLogger \/ OpenLog \/ Hangup \/ Terminated
  PROVE  IInv'
<1> USE Numbers DEF IInv
<1>1. CASE OpenPidfile
  <2>1. PICK d \in 4 .. MaxFd : \A e \in 4 .. MaxFd : fds[e] = "free" /\ d = 4
    BY <1>1 DEF OpenPidfile, RoomInv
  <2>2. /\ Min(Free) \in Fd /\ fds[Min(Free)] = "free" /\ Min(Free) <= 4
        /\ Opened("pidfile") = [e \in Fd |-> IF e = Min(Free) THEN "pidfile" ELSE fds[e]]
    BY <2>1, OpenedIsFree
  <2>3. /\ pc = "args" /\ pc' \in {"fork", "exit"} /\ pidfile' \in {pidfile, "empty"}
        /\ fds' = fds \/ fds' = Opened("pidfile")
        /\ UNCHANGED <<good, handler, parent, conns, logVars, reached>>
    BY <1>1 DEF OpenPidfile
  <2>4. TypeOK'
    <3>1. fds' \in [Fd -> Kinds]
      BY <2>2, <2>3, ZenonT(30) DEF TypeOK, Kinds
    <3> QED
      BY <2>3, <3>1 DEF TypeOK, LoggerTypeOK, Places
  <2>5. PhaseInv' /\ SilenceInv' /\ CountInv'
    BY <2>3 DEF PhaseInv, SilenceInv, CountInv
  <2>6. RoomInv'
    BY <2>1, <2>2, <2>3 DEF RoomInv
  <2>7. OwnerInv'
    BY <2>2, <2>3 DEF OwnerInv, PhaseInv
  <2> QED
    BY <2>4, <2>5, <2>6, <2>7
<1>2. CASE Daemonize
  <2>1. TypeOK' /\ PhaseInv'
    BY <1>2 DEF Daemonize, TypeOK, LoggerTypeOK, PhaseInv, Places
  <2>2. RoomInv' /\ OwnerInv'
    BY <1>2 DEF Daemonize, RoomInv, OwnerInv
  <2>3. SilenceInv' /\ CountInv'
    BY <1>2 DEF Daemonize, SilenceInv, CountInv, PhaseInv
  <2> QED
    BY <2>1, <2>2, <2>3
<1>3. CASE InitLogger
  <2>1. TypeOK' /\ PhaseInv'
    BY <1>3 DEF InitLogger, Configure, ReadLevel, ReadConfig, EndOfFile, SetRemaining,
                Merge, Merged, Build, EndOfList, TypeOK, LoggerTypeOK, PhaseInv
  <2>2. RoomInv' /\ OwnerInv'
    BY <1>3 DEF InitLogger, RoomInv, OwnerInv
  <2>3. SilenceInv' /\ CountInv'
    BY <1>3, <2>1 DEF InitLogger, SilenceInv, CountInv, PhaseInv
  <2> QED
    BY <2>1, <2>2, <2>3
<1>4. CASE OpenLog
  <2>1. /\ Min(Free) \in Fd /\ fds[Min(Free)] = "free"
        /\ Opened("log") = [e \in Fd |-> IF e = Min(Free) THEN "log" ELSE fds[e]]
    BY <1>4, OpenedIsFree DEF OpenLog, RoomInv
  <2>2. /\ pc = "logger" /\ pc' = "sigaction" /\ phase' = "configured"
        /\ (toFile' = TRUE /\ fds' = Opened("log")) \/ (toFile' = FALSE /\ fds' = fds)
        /\ UNCHANGED <<Rest, good, reached, loggingLevel>>
        /\ unflushed' = Uncounted /\ pending' = 0 /\ failed' = FALSE /\ racing' = racing
    BY <1>4 DEF OpenLog, Reconfigure, InsertFile
  <2>3. TypeOK'
    <3>1. fds' \in [Fd -> Kinds]
      BY <2>1, <2>2, ZenonT(30) DEF TypeOK, Kinds
    <3>2. LoggerTypeOK' /\ pc' \in Places
      BY <2>2 DEF TypeOK, LoggerTypeOK, Places, Uncounted
    <3> QED
      BY <2>2, <3>1, <3>2 DEF TypeOK
  <2>4. PhaseInv' /\ SilenceInv'
    BY <1>4, <2>2 DEF OpenLog, PhaseInv, SilenceInv
  <2>5. CountInv'
    BY <2>2, LoggerConstants DEF CountInv, Uncounted, Used
  <2>6. RoomInv'
    BY <2>1, <2>2 DEF RoomInv
  <2>7. OwnerInv'
    <3>1. Min(Free) \in 3 .. MaxFd
      <4>1. \A d \in 0 .. 2 : fds[d] # "free"
        BY <2>2 DEF RoomInv
      <4> QED
        BY <2>1, <4>1 DEF Fd
    <3>2. /\ unit' = None /\ memc' = None /\ closing' = None
          /\ \A d \in Fd : fds'[d] = fds[d] \/ fds'[d] = "log"
          /\ toFile' => fds'[Min(Free)] = "log"
      BY <2>1, <2>2 DEF PhaseInv
    <3> QED
      BY <2>2, <3>1, <3>2 DEF OwnerInv, PhaseInv
  <2> QED
    BY <2>3, <2>4, <2>5, <2>6, <2>7
<1>5. CASE Hangup \/ Terminated
  <2>1. Silent("killed") /\ UNCHANGED <<fds, Rest>> /\ phase # "configured"
    BY <1>5 DEF Hangup, Terminated, PhaseInv
  <2>2. TypeOK' /\ PhaseInv'
    BY <2>1 DEF TypeOK, LoggerTypeOK, PhaseInv, Places
  <2>3. RoomInv' /\ OwnerInv'
    BY <2>1 DEF RoomInv, OwnerInv
  <2>4. SilenceInv' /\ CountInv'
    BY <2>1 DEF SilenceInv, CountInv
  <2> QED
    BY <2>2, <2>3, <2>4
<1> QED
  BY <1>1, <1>2, <1>3, <1>4, <1>5

(* The steps of main until the server serves that open or close something, *)
(* or have something else to say of the process.                           *)
LEMMA StartStep ==
  ASSUME IInv, pc \notin Early,
         \/ SetHandler \/ CloseStandard \/ OpenConf \/ LogVersion \/ Socket
         \/ Return("started", Info, "loop") \/ Return("failed", Error, "terminate")
  PROVE  IInv'
<1> USE Numbers DEF IInv
<1>1. CASE SetHandler
  <2>1. /\ Silent("chdir") /\ pc = "sigaction" /\ handler' = TRUE
        /\ UNCHANGED <<fds, world, conns>>
    BY <1>1 DEF SetHandler
  <2>2. TypeOK' /\ PhaseInv'
    BY <2>1 DEF TypeOK, LoggerTypeOK, PhaseInv, Places
  <2>3. RoomInv' /\ OwnerInv'
    BY <2>1 DEF RoomInv, OwnerInv
  <2>4. SilenceInv' /\ CountInv'
    BY <2>1, Silenced, VoiceKeeps
  <2> QED
    BY <2>2, <2>3, <2>4
<1>2. CASE CloseStandard
  <2>1. /\ Silent("conf") /\ pc = "close" /\ UNCHANGED Rest
        /\ fds' = [d \in Fd |-> IF d \in {0, 1, 2} THEN "free" ELSE fds[d]]
    BY <1>2 DEF CloseStandard, Closed
  <2>2. TypeOK' /\ PhaseInv'
    <3>1. fds' \in [Fd -> Kinds]
      BY <2>1 DEF TypeOK, Kinds
    <3> QED
      BY <2>1, <3>1 DEF TypeOK, LoggerTypeOK, PhaseInv, Places
  <2>3. RoomInv'
    BY <2>1 DEF RoomInv
  <2>4. OwnerInv'
    BY <2>1 DEF OwnerInv, PhaseInv
  <2>5. SilenceInv' /\ CountInv'
    BY <2>1, Silenced, VoiceKeeps
  <2> QED
    BY <2>2, <2>3, <2>4, <2>5
<1>3. CASE OpenConf
  <2>1. /\ pc = "conf" /\ UNCHANGED Rest
        /\ fds' \in {fds, Opened("conf")}
        /\ \/ Silent("aborted")
           \/ Silent("version") /\ fds' = Opened("conf")
    BY <1>3 DEF OpenConf
  <2>2. /\ Min(Free) = 0
        /\ Opened("conf") = [e \in Fd |-> IF e = 0 THEN "conf" ELSE fds[e]]
    <3>1. fds[0] = "free"
      BY <2>1 DEF RoomInv
    <3>2. /\ Min(Free) \in Fd /\ Min(Free) <= 0
          /\ Opened("conf") = [e \in Fd |-> IF e = Min(Free) THEN "conf" ELSE fds[e]]
      BY <3>1, OpenedIsFree
    <3> QED
      BY <3>2 DEF Fd
  <2>3. TypeOK' /\ PhaseInv'
    <3>1. fds' \in [Fd -> Kinds]
      <4>1. fds \in [Fd -> Kinds] /\ "conf" \in Kinds
        BY DEF TypeOK, Kinds
      <4> QED
        BY <2>1, <2>2, <4>1
    <3> QED
      BY <2>1, <3>1 DEF TypeOK, LoggerTypeOK, PhaseInv, Places
  <2>4. RoomInv'
    BY <2>1, <2>2 DEF RoomInv
  <2>5. OwnerInv'
    BY <2>1, <2>2 DEF OwnerInv, PhaseInv, RoomInv
  <2>6. SilenceInv' /\ CountInv'
    BY <2>1, Silenced, VoiceKeeps
  <2> QED
    BY <2>3, <2>4, <2>5, <2>6
<1>4. CASE LogVersion
  <2>1. /\ pc = "version" /\ UNCHANGED <<fds, Rest>> /\ fds[1] = "free"
        /\ Voice("address") /\ (Prints(Info) => ~good')
    BY <1>4, Logged DEF LogVersion, RoomInv, Used
  <2>2. pc' \in {"address", "killed"} /\ phase' = phase /\ phase = "configured"
    BY <2>1 DEF Voice, PhaseInv
  <2>3. TypeOK' /\ PhaseInv'
    BY <2>1, <2>2 DEF TypeOK, LoggerTypeOK, PhaseInv, Places, Voice, Counts
  <2>4. RoomInv' /\ OwnerInv'
    BY <2>1, <2>2 DEF RoomInv, OwnerInv, Voice
  <2>5. SilenceInv'
    BY <2>1, <2>2 DEF SilenceInv, Voice, Prints, Proceeds, Lookup
  <2>6. CountInv'
    BY <2>1, <2>2 DEF CountInv, Voice, Counts
  <2> QED
    BY <2>3, <2>4, <2>5, <2>6
<1>5. CASE Socket
  <2>1. CASE Silent("bind") /\ fds' = Opened("listen") /\ server' = Min(Free)
    <3>1. /\ pc = "socket" /\ UNCHANGED <<handler, world, unit, closing, memc>>
          /\ fds[1] = "free"
      BY <1>5 DEF Socket, RoomInv
    <3>2. /\ Min(Free) \in Fd /\ fds[Min(Free)] = "free"
          /\ Opened("listen") = [e \in Fd |-> IF e = Min(Free) THEN "listen" ELSE fds[e]]
      BY <3>1, OpenedIsFree
    <3>3. TypeOK' /\ PhaseInv'
      <4>1. fds' \in [Fd -> Kinds]
        BY <2>1, <3>2 DEF TypeOK, Kinds
      <4> QED
        BY <2>1, <3>1, <3>2, <4>1 DEF TypeOK, LoggerTypeOK, PhaseInv, Places
    <3>4. RoomInv'
      BY <2>1 DEF RoomInv
    <3>5. OwnerInv'
      <4>1. /\ pc' = "bind" /\ toFile' = toFile /\ unit = None /\ memc = None /\ closing = None
            /\ server' \in Fd /\ fds'[server'] = "listen"
            /\ \A d \in Fd : fds'[d] = fds[d] \/ (fds[d] = "free" /\ fds'[d] = "listen")
        BY <2>1, <3>1, <3>2 DEF PhaseInv
      <4> QED
        BY <3>1, <4>1 DEF OwnerInv
    <3>6. SilenceInv' /\ CountInv'
      BY <2>1, <3>1, Silenced, VoiceKeeps
    <3> QED
      BY <3>3, <3>4, <3>5, <3>6
  <2>2. CASE Log(Error, "failed") /\ UNCHANGED <<fds, server>>
    <3>1. pc = "socket" /\ UNCHANGED <<fds, Rest>>
      BY <1>5, <2>2 DEF Socket
    <3> QED
      BY <2>2, <3>1, Logged, QuietStep DEF Leads, Used
  <2> QED
    BY <1>5, <2>1, <2>2 DEF Socket
<1>6. ASSUME NEW l \in Used, NEW result, NEW next, Return(result, l, next),
             <<result, next>> \in {<<"started", "loop">>, <<"failed", "terminate">>}
      PROVE  IInv'
  <2>1. /\ Voice(next) /\ pc = result /\ pc \in {"started", "failed"} /\ UNCHANGED Rest
        /\ fds' = [d \in Fd |-> IF fds[d] = "conf" THEN "free" ELSE fds[d]]
    BY <1>6, Logged DEF Return, Closed
  <2>2. pc' \in {next, "killed"} /\ toFile' = toFile /\ phase' = "configured"
    BY <2>1 DEF Voice, PhaseInv
  <2>3. LoggerTypeOK' /\ SilenceInv' /\ CountInv'
    BY <1>6, <2>1, VoiceKeeps
  <2>4. TypeOK'
    <3>1. fds' \in [Fd -> Kinds]
      BY <2>1 DEF TypeOK, Kinds
    <3>2. pc' \in Places
      BY <1>6, <2>2 DEF Places
    <3> QED
      BY <2>1, <2>3, <3>1, <3>2 DEF TypeOK, Voice
  <2>5. PhaseInv' /\ RoomInv'
    BY <1>6, <2>1, <2>2 DEF PhaseInv, RoomInv
  <2>6. OwnerInv'
    BY <1>6, <2>1, <2>2 DEF OwnerInv, PhaseInv
  <2> QED
    BY <2>3, <2>4, <2>5, <2>6
<1> QED
  BY <1>1, <1>2, <1>3, <1>4, <1>5, <1>6 DEF Used

(* While the server serves, only numbers of units and of memcached change  *)
(* hands.                                                                  *)
Passing == {"free", "unit", "memcached"}

ChangesHands ==
    /\ fds' \in [Fd -> Kinds] /\ unit' \in Fd \cup {None}
    /\ memc' \in Fd \cup {None} /\ closing' \in Fd \cup {None}
    /\ \A d \in Fd : /\ fds'[d] = fds[d] \/ (fds[d] \in Passing /\ fds'[d] \in Passing)
                     /\ fds'[d] = "unit" => unit' = d
                     /\ fds'[d] = "memcached" => memc' = d
    /\ \A d \in {unit', memc', closing'} \ {None} : fds'[d] \in Passing

LEMMA ServingStep ==
  ASSUME IInv, Serving, NEW next \in {"loop", "accept", "attach", "rejected"}, Voice(next),
         UNCHANGED <<handler, world, server>>, ChangesHands
  PROVE  IInv'
<1> USE DEF ChangesHands
<1>1. pc' \in {next, "killed"} /\ toFile' = toFile /\ phase' = "configured"
  BY DEF Voice, IInv, PhaseInv
<1>2. LoggerTypeOK' /\ SilenceInv' /\ CountInv'
  BY VoiceKeeps
<1>3. TypeOK'
  <2>1. pc' \in Places
    BY <1>1 DEF Places
  <2> QED
    BY <1>2, <2>1 DEF IInv, TypeOK, Voice
<1>4. PhaseInv' /\ RoomInv'
  BY <1>1 DEF IInv, PhaseInv, RoomInv
<1>5. OwnerInv'
  <2>1. \A d \in Fd : /\ fds'[d] # "terminal"
                      /\ fds'[d] # "conf"
    BY DEF IInv, OwnerInv, Passing
  <2>2. server' \in Fd /\ fds'[server'] = "listen"
    BY DEF IInv, OwnerInv, Passing
  <2>3. toFile' => \E d \in 3 .. MaxFd : fds'[d] = "log"
    BY <1>1, Numbers DEF IInv, OwnerInv, Passing
  <2> QED
    BY <1>1, <2>1, <2>2, <2>3 DEF OwnerInv, Passing
<1> QED
  BY <1>2, <1>3, <1>4, <1>5 DEF IInv

LEMMA UnitStep ==
  ASSUME IInv, Accept \/ AddFails \/ Reject \/ Connect \/ Disconnect \/ RemoveUnit \/ CloseAgain
  PROVE  IInv'
<1> USE Numbers DEF IInv
<1>1. ASSUME Free # {}
      PROVE  /\ Min(Free) \in Fd /\ fds[Min(Free)] = "free"
             /\ \A what \in Kinds :
                    /\ Opened(what) \in [Fd -> Kinds] /\ Opened(what)[Min(Free)] = what
                    /\ \A d \in Fd : d = Min(Free) \/ Opened(what)[d] = fds[d]
  <2>1. PICK d \in Fd : fds[d] = "free"
    BY <1>1 DEF Free
  <2>2. Min(Free) \in Fd /\ fds[Min(Free)] = "free"
    BY <2>1, OpenedIsFree
  <2>3. ASSUME NEW what \in Kinds
        PROVE  /\ Opened(what) \in [Fd -> Kinds] /\ Opened(what)[Min(Free)] = what
               /\ \A e \in Fd : e = Min(Free) \/ Opened(what)[e] = fds[e]
    <3>1. Opened(what) = [e \in Fd |-> IF e = Min(Free) THEN what ELSE fds[e]]
      BY <2>1, OpenedIsFree
    <3>2. fds \in [Fd -> Kinds]
      BY DEF TypeOK
    <3> QED
      BY <2>2, <3>1, <3>2
  <2> QED
    BY <2>2, <2>3
<1>2. ASSUME NEW d \in {unit, memc, closing}
      PROVE  /\ Closed({d}) \in [Fd -> Kinds]
             /\ \A e \in Fd : /\ e # d => Closed({d})[e] = fds[e]
                              /\ e = d => fds[e] \in Passing /\ Closed({d})[e] = "free"
  <2>1. "free" \in Kinds /\ fds \in [Fd -> Kinds]
    BY DEF Kinds, TypeOK
  <2> QED
    BY <2>1 DEF Closed, OwnerInv, Passing
<1>3. /\ \A d \in Fd : /\ fds[d] = "unit" => unit = d
                       /\ fds[d] = "memcached" => memc = d
      /\ \A d \in {unit, memc, closing} \ {None} : fds[d] \in Passing
      /\ unit \in Fd \cup {None} /\ memc \in Fd \cup {None} /\ closing \in Fd \cup {None}
      /\ "unit" \in Kinds /\ "memcached" \in Kinds
  BY DEF OwnerInv, TypeOK, Passing, Kinds
<1>4. CASE Accept
  <2>1. /\ Serving /\ Voice("attach") /\ Free # {} /\ unit = None /\ unit' = Min(Free)
        /\ fds' = Opened("unit") /\ UNCHANGED <<handler, world, server, closing, memc>>
    BY <1>4, Silenced DEF Accept
  <2>2. /\ fds' \in [Fd -> Kinds] /\ Min(Free) \in Fd
        /\ fds[Min(Free)] = "free" /\ fds'[Min(Free)] = "unit"
        /\ \A d \in Fd : d = Min(Free) \/ fds'[d] = fds[d]
    BY <1>1, <1>3, <2>1, ZenonT(30)
  <2>3. ChangesHands
    BY <1>3, <2>1, <2>2 DEF ChangesHands, Passing
  <2> QED
    BY <2>1, <2>3, ServingStep
<1>5. CASE Reject
  <2>1. /\ Serving /\ Voice("loop") /\ unit' = None /\ fds' = Closed({unit})
        /\ UNCHANGED <<handler, world, server, closing, memc>>
    BY <1>5, Logged DEF Reject, Used
  <2>2. /\ fds' \in [Fd -> Kinds]
        /\ \A d \in Fd : /\ d # unit => fds'[d] = fds[d]
                         /\ d = unit => fds[d] \in Passing /\ fds'[d] = "free"
    BY <1>2, <2>1
  <2>3. ChangesHands
    BY <1>3, <2>1, <2>2 DEF ChangesHands, Passing
  <2> QED
    BY <2>1, <2>3, ServingStep
<1>6. CASE Connect
  <2>1. /\ Serving /\ Voice(pc) /\ Free # {} /\ memc = None /\ memc' = Min(Free)
        /\ fds' = Opened("memcached") /\ UNCHANGED <<handler, world, server, unit, closing>>
    BY <1>6, Said DEF Connect
  <2>2. /\ fds' \in [Fd -> Kinds] /\ Min(Free) \in Fd
        /\ fds[Min(Free)] = "free" /\ fds'[Min(Free)] = "memcached"
        /\ \A d \in Fd : d = Min(Free) \/ fds'[d] = fds[d]
    <3>1. "memcached" \in Kinds /\ Free # {}
      BY <1>3, <2>1
    <3>2. /\ Opened("memcached") \in [Fd -> Kinds] /\ Min(Free) \in Fd
          /\ fds[Min(Free)] = "free" /\ Opened("memcached")[Min(Free)] = "memcached"
          /\ \A d \in Fd : d = Min(Free) \/ Opened("memcached")[d] = fds[d]
      BY <1>1, <3>1
    <3> QED
      BY <2>1, <3>2
  <2>3. ChangesHands
    BY <1>3, <2>1, <2>2 DEF ChangesHands, Passing
  <2> QED
    BY <2>1, <2>3, ServingStep
<1>7. CASE Disconnect
  <2>1. /\ Serving /\ Voice(pc) /\ memc' = None /\ fds' = Closed({memc})
        /\ UNCHANGED <<handler, world, server, unit, closing>>
    BY <1>7, Logged DEF Disconnect, Used
  <2>2. /\ fds' \in [Fd -> Kinds]
        /\ \A d \in Fd : /\ d # memc => fds'[d] = fds[d]
                         /\ d = memc => fds[d] \in Passing /\ fds'[d] = "free"
    BY <1>2, <2>1
  <2>3. ChangesHands
    BY <1>3, <2>1, <2>2 DEF ChangesHands, Passing
  <2> QED
    BY <2>1, <2>3, ServingStep
<1>8. CASE RemoveUnit
  <2>1. /\ Serving /\ Voice(pc) /\ unit # None /\ closing' = unit /\ unit' = None
        /\ fds' = Closed({unit}) /\ UNCHANGED <<handler, world, server, memc>>
    BY <1>8, Said DEF RemoveUnit
  <2>2. /\ fds' \in [Fd -> Kinds]
        /\ \A d \in Fd : /\ d # unit => fds'[d] = fds[d]
                         /\ d = unit => fds[d] \in Passing /\ fds'[d] = "free"
    BY <1>2, <2>1
  <2>3. ChangesHands
    BY <1>3, <2>1, <2>2 DEF ChangesHands, Passing
  <2> QED
    BY <2>1, <2>3, ServingStep
<1>9. CASE CloseAgain
  <2>1. /\ Serving /\ Voice(pc) /\ closing' = None /\ fds' = Closed({closing})
        /\ UNCHANGED <<handler, world, server, unit, memc>>
    BY <1>9, Silenced DEF CloseAgain
  <2>2. /\ fds' \in [Fd -> Kinds]
        /\ \A d \in Fd : /\ d # closing => fds'[d] = fds[d]
                         /\ d = closing => fds[d] \in Passing /\ fds'[d] = "free"
    BY <1>2, <2>1
  <2>3. ChangesHands
    BY <1>3, <2>1, <2>2 DEF ChangesHands, Passing
  <2> QED
    BY <2>1, <2>3, ServingStep
<1>10. CASE AddFails
  <2>1. /\ Serving /\ Voice("rejected") /\ fds' = Closed({unit}) /\ UNCHANGED Rest
    BY <1>10, Silenced DEF AddFails
  <2>2. /\ fds' \in [Fd -> Kinds]
        /\ \A d \in Fd : /\ d # unit => fds'[d] = fds[d]
                         /\ d = unit => fds[d] \in Passing /\ fds'[d] = "free"
    BY <1>2, <2>1
  <2>3. ChangesHands
    BY <1>3, <2>1, <2>2 DEF ChangesHands, Passing
  <2> QED
    BY <2>1, <2>3, ServingStep
<1> QED
  BY <1>4, <1>5, <1>6, <1>7, <1>8, <1>9, <1>10

-----------------------------------------------------------------------------
(* The other steps of main say something, end the process or wait.         *)
LEMMA OtherStep ==
  ASSUME IInv, pc \notin Early,
         \/ ChangeDirectory \/ Address \/ Bind \/ StartThread \/ Terminate
         \/ SelectFails \/ Detect \/ AcceptFails \/ Attach \/ Hangup \/ Terminated
  PROVE  IInv'
<1>1. /\ UNCHANGED <<fds, Rest>> /\ pc \notin Ended
      /\ \E next : /\ Leads(next)
                   /\ \/ Silent(next) \/ \E l \in Used : Log(l, next)
                      \/ /\ next = "started" /\ pc' = "started" /\ Race
                         /\ UNCHANGED <<config, loggingLevel, toFile, good, reached>>
  BY DEF ChangeDirectory, Address, Bind, StartThread, Terminate, SelectFails, Detect,
         AcceptFails, Attach, Hangup, Terminated, Leads, Used
<1>2. PICK next : Leads(next) /\ Voice(next)
  BY <1>1, Logged, Silenced, Raced DEF IInv
<1> QED
  BY <1>1, <1>2, QuietStep

LEMMA ParentOrExitStep == ASSUME IInv, WritePid \/ Exit PROVE IInv'
<1> USE DEF IInv
<1>1. CASE WritePid
  <2>1. /\ pidfile' \in {pidfile, "pid"} /\ parent' = "gone"
        /\ UNCHANGED <<logVars, pc, fds, good, handler, conns, reached>>
    BY <1>1 DEF WritePid
  <2>2. TypeOK' /\ PhaseInv'
    BY <2>1 DEF TypeOK, LoggerTypeOK, PhaseInv
  <2>3. RoomInv' /\ OwnerInv'
    BY <2>1 DEF RoomInv, OwnerInv
  <2>4. SilenceInv' /\ CountInv'
    BY <2>1 DEF SilenceInv, CountInv, Prints, Proceeds, Lookup
  <2> QED
    BY <2>2, <2>3, <2>4
<1>2. CASE Exit
  <2>1. /\ pc = "exit" /\ pc' = "exited"
        /\ (pending' = 0 /\ failed' = failed) \/ (pending' = pending + 1 /\ failed' = TRUE)
        /\ UNCHANGED <<config, loggingLevel, toFile, unflushed, racing, fds, Rest, good, reached>>
    BY <1>2 DEF Exit, FlushAll, Flush
  <2>2. TypeOK' /\ PhaseInv'
    <3>1. pending' \in Nat
      BY <2>1 DEF TypeOK, LoggerTypeOK
    <3>2. failed' \in BOOLEAN
      BY <2>1, Zenon DEF TypeOK, LoggerTypeOK
    <3>3. LoggerTypeOK'
      BY <2>1, <3>1, <3>2 DEF TypeOK, LoggerTypeOK
    <3>4. TypeOK'
      BY <2>1, <3>3 DEF TypeOK, Places
    <3> QED
      BY <2>1, <3>4 DEF PhaseInv
  <2>3. RoomInv' /\ OwnerInv'
    BY <2>1 DEF RoomInv, OwnerInv
  <2>4. SilenceInv'
    BY <2>1 DEF SilenceInv, Prints, Proceeds, Lookup
  <2>5. CountInv'
    <3>1. Debug \in Used /\ Error \in Used /\ Info \in Used
      BY DEF Used
    <3> QED
      BY <2>1, <3>1 DEF CountInv, TypeOK, LoggerTypeOK
  <2> QED
    BY <2>2, <2>3, <2>4, <2>5
<1> QED
  BY <1>1, <1>2

THEOREM DaemonInvariance == Spec => []IInv
<1>1. IInv /\ [Next]_vars => IInv'
  <2> SUFFICES ASSUME IInv, [Next]_vars PROVE IInv'
    OBVIOUS
  <2>1. CASE pc \in Early /\ (OpenPidfile \/ Daemonize \/ InitLogger \/ OpenLog \/ Hangup
                              \/ Terminated)
    BY <2>1, EarlyStep
  <2>2. CASE pc \notin Early /\ Next
    <3>1. ~OpenPidfile /\ ~Daemonize /\ ~InitLogger /\ ~OpenLog
      BY <2>2 DEF OpenPidfile, Daemonize, InitLogger, OpenLog
    <3> QED
      BY <2>2, <3>1, StartStep, OtherStep, UnitStep, ParentOrExitStep
      DEF Next, Main, Loop, Poll
  <2>3. CASE WritePid
    BY <2>3, ParentOrExitStep
  <2>4. CASE UNCHANGED vars
    <3>1. UNCHANGED <<logVars, pc, fds, good, handler, world, conns, reached>>
      BY <2>4 DEF vars
    <3>2. TypeOK' /\ PhaseInv'
      BY <3>1 DEF IInv, TypeOK, LoggerTypeOK, PhaseInv
    <3>3. RoomInv' /\ OwnerInv' /\ CountInv'
      BY <3>1 DEF IInv, RoomInv, OwnerInv, CountInv
    <3>4. SilenceInv'
      BY <3>1 DEF IInv, SilenceInv, Prints, Proceeds, Lookup
    <3> QED
      BY <3>2, <3>3, <3>4 DEF IInv
  <2>5. CASE pc \in Early /\ Next
    <3>1. OpenPidfile \/ Daemonize \/ InitLogger \/ OpenLog \/ Hangup \/ Terminated \/ WritePid
      BY <2>5 DEF Next, Main, Loop, Poll, SetHandler, ChangeDirectory, CloseStandard, OpenConf,
                  LogVersion, Address, Socket, Bind, StartThread, Return, Terminate, Exit,
                  SelectFails, Detect, Accept, AcceptFails, Attach, AddFails, Reject, Connect,
                  Disconnect, RemoveUnit, CloseAgain
    <3> QED
      BY <2>1, <2>3, <2>5, <3>1
  <2> QED
    BY <2>2, <2>4, <2>5
<1> QED
  BY <1>1, InitIInv, PTL DEF Spec

(* Every variable of the daemon keeps its type.                            *)
THEOREM DaemonTypes == Spec => []TypeOK
<1>1. IInv => TypeOK
  BY DEF IInv
<1> QED
  BY <1>1, DaemonInvariance, PTL

(* Nothing printed gets into a socket, for any configuration and logging   *)
(* level that print INFO (MovilgateServerApp.cpp:184-190,                  *)
(* BlackfinServer.cpp:105, 129).                                           *)
THEOREM SocketsGetNoText == Spec => []NoTextIntoSockets
<1>1. IInv => NoTextIntoSockets
  BY DEF IInv, SilenceInv, NoTextIntoSockets
<1> QED
  BY <1>1, DaemonInvariance, PTL

(* The port and the log stay open while the server serves, whatever comes, *)
(* goes and is closed twice (BlackfinServer.cpp:519-526, 603-621).         *)
THEOREM PortIsSafe == Spec => []PortStaysOpen
<1>1. IInv => PortStaysOpen
  BY Numbers DEF IInv, OwnerInv, PortStaysOpen
<1> QED
  BY <1>1, DaemonInvariance, PTL

(* Every descriptor is given back (BlackfinServer.cpp:94, 519-526).        *)
THEOREM DescriptorsReturn == Spec => []NothingLeaks
<1>1. IInv => NothingLeaks
  <2> SUFFICES ASSUME IInv, Serving, unit = None, memc = None, NEW d \in Fd
               PROVE  fds[d] \in {"free", "listen", "default log", "log", "pidfile"}
    BY DEF NothingLeaks
  <2>1. /\ fds[d] \in Kinds /\ fds[d] # "terminal" /\ fds[d] # "conf"
        /\ fds[d] # "unit" /\ fds[d] # "memcached"
    BY Numbers DEF IInv, OwnerInv, TypeOK
  <2> QED
    BY <2>1 DEF Kinds
<1> QED
  BY <1>1, DaemonInvariance, PTL

(* While main is alone and the stream takes its lines, a process that      *)
(* exits has lost none, and one that dies fewer than the threshold of each *)
(* level (easylogging++.h:3424-3504, 4177-4191, 3663-3671).                *)
THEOREM LinesAreKept == Spec => []LinesSurvive
<1>1. Cardinality(Used) = 3
  <2>1. IsFiniteSet({Info}) /\ Cardinality({Info}) = 1
    BY FS_Singleton
  <2>2. IsFiniteSet({Info} \cup {Error}) /\ Cardinality({Info} \cup {Error}) = 2
    BY <2>1, LoggerConstants, FS_AddElement
  <2>3. Cardinality(({Info} \cup {Error}) \cup {Debug}) = 3
    BY <2>2, LoggerConstants, FS_AddElement
  <2>4. Used = ({Info} \cup {Error}) \cup {Debug}
    BY DEF Used
  <2> QED
    BY <2>3, <2>4
<1>2. IInv => LinesSurvive
  <2> SUFFICES ASSUME IInv PROVE LinesSurvive
    OBVIOUS
  <2>1. Debug \in Used /\ Error \in Used /\ Info \in Used
    BY DEF Used
  <2>2. /\ unflushed[Debug] \in Nat /\ unflushed[Error] \in Nat /\ unflushed[Info] \in Nat
        /\ pending \in Nat
    BY <2>1 DEF IInv, TypeOK, LoggerTypeOK
  <2> QED
    BY <1>1, <2>1, <2>2, LoggerConstants DEF IInv, CountInv, LinesSurvive
<1> QED
  BY <1>2, DaemonInvariance, PTL

(* The daemon goes by what its log configuration says, for any file,       *)
(* levels and values: a level has the value of the last line about it, or, *)
(* when the file names it before Global, that of Global's last line        *)
(* (easylogging++.h:2501-2509, 2627-2646, 2811-2848, 2989-3063).           *)
THEOREM ConfigurationIsRead == Spec => []ConfiguredAsWritten
<1>1. Init => ConfigInv
  BY ConfigInitInv DEF Init, LoggerInit
<1>2. ConfigInv /\ [Next]_vars => ConfigInv'
  <2> SUFFICES ASSUME ConfigInv, [Next]_vars PROVE ConfigInv'
    OBVIOUS
  <2>1. ASSUME UNCHANGED config PROVE ConfigInv'
    <3>1. UNCHANGED <<file, line, level, since, value, phase, own, done, typed>>
      BY <2>1
    <3>2. ReadInv => ReadInv'
      BY <3>1, SameFile DEF ReadInv
    <3>3. MergeInv => MergeInv'
      BY <3>1, SameFile DEF MergeInv, Before
    <3>4. BuildInv => BuildInv'
      BY <3>1, SameFile DEF BuildInv, Lookup
    <3> QED
      BY <3>1, <3>2, <3>3, <3>4 DEF ConfigInv
  <2>2. CASE Configure
    BY <2>2, ConfigureStep
  <2>3. CASE phase' = "configured"
    BY <2>3 DEF ConfigInv
  <2>4. UNCHANGED config \/ Configure \/ phase' = "configured"
    BY DEF vars, Next, Main, Loop, Poll, OpenPidfile, Daemonize, WritePid, InitLogger, OpenLog,
           Reconfigure, SetHandler, ChangeDirectory, CloseStandard, OpenConf, LogVersion,
           Address, Socket, Bind, StartThread, Return, Terminate, Exit, FlushAll, SelectFails,
           Detect, Accept, AcceptFails, Attach, AddFails, Reject, Connect, Disconnect, RemoveUnit,
           CloseAgain, Hangup, Terminated, Log
  <2> QED
    BY <2>1, <2>2, <2>3, <2>4
<1> QED
  BY <1>1, <1>2, AsTheFileSays, PTL DEF Spec

==============================================================================
