----------------------------- MODULE MCNetGuard -----------------------------
(* NetGuard with a fast and a slow collector on days of four ticks.           *)
EXTENDS NetGuard

CONSTANTS cron, manual

MCDelayOf == [p \in Procs |-> IF p = cron THEN 2 ELSE 1]
=============================================================================
