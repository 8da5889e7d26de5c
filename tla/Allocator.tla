----------------------------- MODULE Allocator -----------------------------
(***************************************************************************)
(* What the allocators of hw4/wet promise their clients, without blocks,   *)
(* lists or addresses: a client that holds a block finds in it the bytes   *)
(* it wrote, whatever the other clients do; srealloc keeps them, up to the *)
(* new size.                                                               *)
(***************************************************************************)
EXTENDS Naturals

CONSTANT Clients

VARIABLES
    want,  \* the bytes each client asked for, 0 when it holds no block
    kept   \* how many of them still hold what the client wrote

Init ==
    /\ want = [c \in Clients |-> 0]
    /\ kept = [c \in Clients |-> 0]

(* The number of bytes is the client's choice.                             *)
Ask(c) ==
    /\ want'[c] \in Nat \ {0}
    /\ want' = [want EXCEPT ![c] = want'[c]]

Allocate(c) ==
    /\ want[c] = 0
    /\ Ask(c)
    /\ UNCHANGED kept

Write(c) ==
    /\ kept' = [kept EXCEPT ![c] = want[c]]
    /\ UNCHANGED want

Reallocate(c) ==
    /\ want[c] # 0
    /\ Ask(c)
    /\ kept' = [kept EXCEPT ![c] = IF @ <= want'[c] THEN @ ELSE want'[c]]

Release(c) ==
    /\ want' = [want EXCEPT ![c] = 0]
    /\ kept' = [kept EXCEPT ![c] = 0]

Next == \E c \in Clients :
    Allocate(c) \/ Write(c) \/ Reallocate(c) \/ Release(c)

Spec == Init /\ [][Next]_<<want, kept>>
=============================================================================
