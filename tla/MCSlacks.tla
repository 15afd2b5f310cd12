------------------------------- MODULE MCSlacks -------------------------------
(* Instances of Slacks for TLC: register data pins d and e and an output   *)
(* port o; d and o are on the first level, e is on the second.             *)
EXTENDS Slacks

CONSTANTS d, e, o

LevelOf == [v \in {d, e, o} |-> IF v = e THEN 2 ELSE 1]
=============================================================================
