-------------------------- MODULE MCBuddyAllocator --------------------------
(* BuddyAllocator for TLC: the clients are interchangeable.                *)
EXTENDS BuddyAllocator

MapAddresses == {-2, -3}
Symmetry == Permutations(Clients)
=============================================================================
