---------------------------- MODULE MCWebRowStore ----------------------------
(* Instances of WebRowStore for TLC.                                       *)
EXTENDS WebRowStore, TLC

ValueSymmetry == Permutations(Values)
=============================================================================
