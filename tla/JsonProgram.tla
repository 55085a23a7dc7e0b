----------------------------- MODULE JsonProgram -----------------------------
(***************************************************************************)
(* A program that uses json.hpp: it parses a text, changes the value that  *)
(* comes of it a few times, walks it with an iterator and erases what it   *)
(* likes on the way, and reads the rest backwards. An operation that throws *)
(* leaves the program where it was. When parse returns, the parser and its *)
(* scanner are gone.                                                       *)
(***************************************************************************)
EXTENDS JsonReader, JsonContainer

CONSTANTS
    Used,       \* the values a program goes on with, of those it parses
    Operands,   \* what it puts into them
    Values,     \* what these are made of
    Names,      \* the keys it uses
    MaxEdits,   \* changes before the walk
    Blocks(_)   \* the blocks of memory that a value and what is in it take

Total(values) ==
    LET sum[i \in 0 .. Len(values)] == IF i = 0 THEN 0 ELSE sum[i - 1] + Blocks(values[i])
    IN  sum[Len(values)]

(* The string, array or object of a value, and what its members take.      *)
OwnBlocks(v) ==
    CASE v.type = "string"   -> 1
      [] v.type \in Compound -> 1 + Total(Members(v))
      [] OTHER -> 0

ASSUME ProgramAssumption ==
    /\ Used \cup Operands \subseteq Values /\ Names \subseteq Strings
    /\ \A v \in Values : ContainerOf(v, Values) /\ Blocks(v) = OwnBlocks(v)

VARIABLES
    phase, edits,
    doc, other,    \* the value, and a second one
    live,          \* blocks allocated and not given back
    at,            \* the iterator
    walked,        \* history: the members when the walk began
    visited, kept, seen   \* history: members met, left in place, met on the way back

walk     == <<at, walked, visited, kept, seen>>
progVars == <<phase, edits, doc, other, live, walk>>

ProgramInit ==
    /\ Init
    /\ phase = "parsing" /\ edits = 0 /\ doc = Null /\ other = Null /\ live = 0
    /\ at = 0 /\ walked = <<>> /\ visited = <<>> /\ kept = <<>> /\ seen = <<>>

(* parse returns: the value is moved out of it.                            *)
Returned ==
    /\ phase = "parsing" /\ pc = "accepted" /\ result \in Used
    /\ phase' = "editing" /\ doc' = result /\ live' = Blocks(result)
    /\ input' = [text |-> <<>>, lines |-> <<<<>>>>, value |-> result]
    /\ whole' = TRUE /\ failed' = TRUE /\ buffer' = <<>> /\ unread' = <<>>
    /\ start' = 1 /\ marker' = 0 /\ cursor' = 1 /\ limit' = 1
    /\ state' = "begin" /\ token' = "end_of_input" /\ scanned' = <<>>
    /\ UNCHANGED <<pc, stack, result, edits, other, walk>>

-----------------------------------------------------------------------------
(* Mutant: the string of an erased value is forgotten.                     *)
FreedMembers(v, first, last) ==
    IF v.type \in Compound THEN Total(SubSeq(Members(v), first + 1, last)) ELSE 0

(* What an erase gives back: the members, or the string of a string.       *)
Freed(v, first, last) ==
    CASE v.type \in Compound -> Total(SubSeq(Members(v), first + 1, last))
      [] v.type = "string"   -> 1
      [] OTHER -> 0

Editing == phase = "editing" /\ edits < MaxEdits

Change(v, w, gained) ==
    /\ Thrown \notin {v, w}
    /\ doc' = v /\ other' = w /\ live' = live + gained /\ edits' = edits + 1
    /\ UNCHANGED <<phase, walk>>

(* A null value that becomes an object or an array.                        *)
NewBlock == IF doc.type = "null" THEN 1 ELSE 0

Put ==
    /\ Editing
    /\ \E x \in Operands :
         \/ \E k \in Names :
              \/ Change(Insert(doc, k, x), other, NewBlock + Blocks(x) - Blocks(At(doc, k)))
              \/ Change(PushPair(doc, k, x), other,
                        NewBlock + IF Count(doc, k) = 0 THEN Blocks(x) ELSE 0)
         \/ \E i \in 0 .. Cardinality(Names) :
              LET old == IF AtIndex(doc, i) = Thrown THEN Null ELSE AtIndex(doc, i)
              IN  Change(PutIndex(doc, i, x), other, NewBlock + Blocks(x) - Blocks(old))
         \/ Change(PushBack(doc, x), other, NewBlock + Blocks(x))

EraseSome ==
    /\ Editing
    /\ \/ \E k \in Names :
            Change(EraseKey(doc, k), other, IF doc.type = "object" THEN -Blocks(At(doc, k)) ELSE 0)
       \/ \E i \in 0 .. Len(Members(doc)) :
            Change(EraseIndex(doc, i), other, -Freed(doc, i, i + 1))
       \/ \E first \in BeginOf(doc) .. EndOf(doc) : \E last \in first .. EndOf(doc) :
            Change(EraseRange(doc, first, last), other, -Freed(doc, first, last))
       \/ Change(Clear(doc), other,
                 IF doc.type \in Compound THEN -Freed(doc, 0, EndOf(doc)) ELSE 0)

(* other = v, by copy.                                                     *)
Assign(v) == Change(doc, v, IF v = Thrown THEN 0 ELSE Blocks(v) - Blocks(other))

Build ==
    /\ Editing
    /\ \/ Assign(doc)
       \/ \E first \in BeginOf(doc) .. EndOf(doc) : \E last \in first .. EndOf(doc) :
            Assign(FromRange(doc, first, last))
       \/ \E k \in Names : Assign(AtKey(doc, k))
       \/ \E i \in 0 .. Len(Members(doc)) : Assign(AtIndex(doc, i))
       \/ ~Empty(doc) /\ (Assign(FrontOf(doc)) \/ Assign(BackOf(doc)))
       \/ \E t \in {"object", "array", "string", "number", "boolean"} :
            Assign(Get(t, doc)) \/ Assign(GetEach(t, doc))
       \/ \E t \in Compound, deduction \in BOOLEAN : Assign(FromList(<<doc, other>>, deduction, t))
       \/ \E n \in 0 .. 2 : Assign(Copies(n, other))

(* swap, other = std::move(doc), doc.push_back(std::move(other)).          *)
Transfer ==
    /\ Editing
    /\ \/ Change(other, doc, 0)
       \/ Change(Null, doc, -Blocks(other))
       \/ Change(PushBack(doc, other), Null, NewBlock)

-----------------------------------------------------------------------------
(* From the first member, or from one that was looked for.                 *)
BeginWalk ==
    /\ phase = "editing" /\ phase' = "forward"
    /\ at' \in {BeginOf(doc)} \cup {Find(doc, k) : k \in Names}
    /\ walked' = SubSeq(Members(doc), at' + 1, Len(Members(doc)))
    /\ kept' = [i \in DOMAIN Members(doc) \cap 1 .. at' |-> Members(doc)[i]]
    /\ UNCHANGED <<edits, doc, other, live, visited, seen>>

Visit ==
    /\ phase = "forward" /\ ~SameIterator(at, EndOf(doc))
    /\ visited' = Append(visited, Deref(doc, at))
    /\ \/ /\ at' = Advanced(at) /\ kept' = Append(kept, Deref(doc, at))
          /\ UNCHANGED <<doc, live>>
       \/ /\ doc' = EraseAt(doc, at).value /\ at' = EraseAt(doc, at).next
          /\ live' = live - Freed(doc, at, at + 1) /\ UNCHANGED kept
    /\ phase' = IF Thrown \in {Deref(doc, at), doc'} THEN "thrown" ELSE "forward"
    /\ UNCHANGED <<edits, other, walked, seen>>

(* The way back is with a const_iterator, from cend().                     *)
Turn ==
    /\ phase = "forward" /\ SameIterator(at, EndOf(doc)) /\ phase' = "backward"
    /\ at' = EndOf(doc)
    /\ UNCHANGED <<edits, doc, other, live, walked, visited, kept, seen>>

(* A member is read where the iterator is, or by its distance from cend(). *)
GoBack ==
    /\ phase = "backward" /\ ~SameIterator(at, BeginOf(doc))
    /\ at' = StepBack(at)
    /\ \/ seen' = <<Deref(doc, at')>> \o seen
       \/ /\ doc.type # "object"
          /\ seen' = <<ItemAt(doc, EndOf(doc), Apart(at', EndOf(doc)))>> \o seen
    /\ UNCHANGED <<phase, edits, doc, other, live, walked, visited, kept>>

EndWalk ==
    /\ phase = "backward" /\ SameIterator(at, BeginOf(doc)) /\ phase' = "done"
    /\ UNCHANGED <<edits, doc, other, live, walk>>

Use == Put \/ EraseSome \/ Build \/ Transfer \/ BeginWalk \/ Visit \/ Turn \/ GoBack \/ EndWalk

ProgramNext ==
    \/ Next /\ UNCHANGED progVars
    \/ Returned
    \/ Use /\ UNCHANGED <<lexVars, pc, stack, result>>

ProgramSpec == ProgramInit /\ [][ProgramNext]_<<vars, progVars>> /\ WF_<<vars, progVars>>(ProgramNext)

-----------------------------------------------------------------------------
(* A walk from begin() or find() to end() meets every member once, what-   *)
(* ever it erases on the way by erase(it), and a walk back meets those     *)
(* that are left; null has none, a scalar is its own (json.hpp:1246-1297,  *)
(* 2402-2637).                                                             *)
WalksMeetAll ==
    /\ phase # "thrown"
    /\ phase \in {"backward", "done"} => visited = walked /\ Members(doc) = kept
    /\ phase = "done" => seen = Members(doc)

(* No string, array or object is lost or given back twice: what is         *)
(* allocated is what the two values hold (json.hpp:612-752, 1246-1360,     *)
(* 1698-1797).                                                             *)
NothingLeaks == phase # "parsing" => live = Blocks(doc) + Blocks(other)

(* The text is refused or read in the end, and a program that walks what   *)
(* it read, and erases, comes to the end of it.                            *)
ProgramEnds ==
    <>(pc = "thrown" \/ (pc = "accepted" /\ (result \in Used => phase \in {"done", "thrown"})))
==============================================================================
