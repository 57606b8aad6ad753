------------------------------ MODULE MCChampion ------------------------------
(* Champion with four trainings and four backups: promoted, rolled back,       *)
(* promoted again and rolled back again, to a backup whose last training       *)
(* result is another model's, with the older backups pruned.                   *)
EXTENDS Champion

MCLevels == {-2, -1, 1}
=============================================================================
