------------------------------- MODULE MCRouter -------------------------------
(* Instances of Router for TLC.  Two bindings are enough for one to change  *)
(* while the other is called; the patterns hold each kind of segment, in    *)
(* places where it is valid and where it is not.                           *)
EXTENDS Router, TLC

PatternsMC == {<<"a">>, <<"a", Hash>>, <<Star, "b">>, <<Hash, "b">>}
TopicsMC == {<<"a">>, <<"a", "b">>, <<"b", Star>>}
TargetSymmetry == Permutations(Targets)
=============================================================================
