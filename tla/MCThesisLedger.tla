---------------------------- MODULE MCThesisLedger --------------------------
(* One or two stocks and two commands at a time. Bounds in the .cfg file.    *)
EXTENDS ThesisLedger, TLC

CONSTANTS s1, s2, p1, p2
MCStocks == {s1, s2}
MCProcs == {p1, p2}
Symmetric == Permutations(MCStocks) \cup Permutations(MCProcs)
=============================================================================
