----------------------------- MODULE MCMemList -----------------------------
(* MemList for TLC: the clients are interchangeable.                       *)
EXTENDS MemList, TLC

Symmetry == Permutations(Clients)
=============================================================================
