---------------------------- MODULE MCCycleLock ----------------------------
(* CycleLock with a few processes, and with a shell for the runs by hand.    *)
EXTENDS CycleLock

CONSTANTS p1, p2, p3, none, shell
=============================================================================
