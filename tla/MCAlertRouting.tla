--------------------------- MODULE MCAlertRouting ---------------------------
(* AlertRouting for TLC.  The four event kinds reach every alert level that *)
(* has an effect, the suspicious one under both of its dedup keys.          *)
EXTENDS AlertRouting, TLC

MCEventKinds == {"suspicious", "prohibited"} \X BOOLEAN

WorkerSymmetry == Permutations(Workers)
=============================================================================
