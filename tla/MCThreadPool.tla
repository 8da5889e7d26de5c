--------------------------- MODULE MCThreadPool ---------------------------
(* Instances of ThreadPool for TLC.                                        *)
EXTENDS ThreadPool, TLC

(* Workers differ in nothing, and neither do descriptors.                  *)
Symmetry == Permutations(Workers) \cup Permutations(FDs)
=============================================================================
