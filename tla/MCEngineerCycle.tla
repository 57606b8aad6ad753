--------------------------- MODULE MCEngineerCycle ---------------------------
(* EngineerCycle with one experiment of the backlog and one handed over that *)
(* needs it.                                                                 *)
EXTENDS EngineerCycle

CONSTANTS sweep, follow, none

NeedsSweep == [i \in Items |-> IF i = follow THEN {sweep} ELSE {}]
=============================================================================
