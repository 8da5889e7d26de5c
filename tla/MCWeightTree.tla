---------------------------- MODULE MCWeightTree ----------------------------
(* WeightTree for TLC.  Pids are compared with each other, so there is no  *)
(* symmetry among them.                                                    *)
EXTENDS WeightTree

FourPids == 1..4
SomeWeights == {-1, 0, 1}
=============================================================================
