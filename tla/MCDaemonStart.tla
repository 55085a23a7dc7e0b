---------------------------- MODULE MCDaemonStart ----------------------------
(***************************************************************************)
(* Log configurations of up to three lines, or with three values, each     *)
(* below a line of its own level, so that a level can be named before and  *)
(* after Global; a logging level below, at and above that of INFO. Eight   *)
(* descriptors are two more than ever are open at a time. A line is        *)
(* flushed with the next one of its level.                                 *)
(***************************************************************************)
EXTENDS DaemonStart, SequencesExt

Numbers == [l \in Levels |->
               CASE l = Global -> 1 [] l = Debug -> 4 [] l = Error -> 16 [] l = Info -> 128]
Named == {Global, Debug, Error}
ShortFiles ==
    BoundedSeq(Lines, 3)
        \cup {<<LevelLine(k), ConfigLine(u), LevelLine(l), ConfigLine(v), LevelLine(m), ConfigLine(w)>> :
                 k, l, m \in Named, u, v, w \in Values}
==============================================================================
