---------------------------- MODULE MCSmashJobs ----------------------------
(* Instances of SmashJobs for TLC.  Processes are interchangeable; the     *)
(* addresses of entries are not, since the list is sorted by them.         *)
EXTENDS SmashJobs

Symmetry == Permutations(Pids)
=============================================================================
