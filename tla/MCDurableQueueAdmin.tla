------------------------- MODULE MCDurableQueueAdmin -------------------------
(* Instances of DurableQueueAdmin small enough for TLC.                    *)
EXTENDS DurableQueueAdmin, TLC

JobSymmetry == Permutations(Jobs)
=============================================================================
