------------------------------ MODULE MCSkipList ------------------------------
(***************************************************************************)
(* An instance of SkipList for TLC: scores on both sides of zero, borders  *)
(* on, between and beyond them, ranks before the first and past the last.  *)
(***************************************************************************)
EXTENDS SkipList

MCScores == {-1, 1}
MCBorders == {NegInf, PosInf} \cup {At(s) : s \in -1..1} \cup {Past(s) : s \in {-1, 1}}
MCCounts == {0, 1, 2}
MCRanks == -1..(Cardinality(Members) + 1)
==============================================================================
