---------------------------- MODULE MCImproveLoop ----------------------------
(* ImproveLoop with the two nightly processes and two subjects, one of them a *)
(* combination of the experiment runner.                                      *)
EXTENDS ImproveLoop, TLC

CONSTANTS tick, hand, lever, combo

EitherProcess == Permutations(Procs)
=============================================================================
