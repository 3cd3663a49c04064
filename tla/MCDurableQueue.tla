--------------------------- MODULE MCDurableQueue ---------------------------
(* Instances of DurableQueue small enough for TLC.                         *)
EXTENDS DurableQueue, TLC

JobSymmetry == Permutations(Jobs)
=============================================================================
