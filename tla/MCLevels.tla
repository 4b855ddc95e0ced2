------------------------------ MODULE MCLevels ------------------------------
(* The levels of a database in use, small ones. *)
EXTENDS Levels

ASSUME LimitsAreNumbers == LevelsAssumption

\* Level 1 is full with the second entry, level 2 with the third.
SmallLevels == [l \in 1 .. NumLevels - 2 |-> l + 1]
=============================================================================
