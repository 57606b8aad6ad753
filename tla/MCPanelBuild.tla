---------------------------- MODULE MCPanelBuild ----------------------------
(* PanelBuild with two processes, and requests that differ in the universe,   *)
(* in the options and in the last day.                                        *)
EXTENDS PanelBuild, TLC

CONSTANTS p1, p2, kosdaq, prod, market, nothing

Asked(u, d, o) == [universe |-> u, end_date |-> d, universe_opts |-> o]

\* One that leaves out what can be left out, and one that does not.
TwoRequests == {Asked(kosdaq, nothing, nothing), Asked(kosdaq, 0, market)}
MCRequests == TwoRequests \cup {Asked(prod, 0, nothing)}

ProcSymmetry == Permutations(Procs)
=============================================================================
