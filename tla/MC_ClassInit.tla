----------------------------- MODULE MC_ClassInit -----------------------------
(* Instances of ClassInit for TLC. *)
EXTENDS ClassInit, TLC

CONSTANTS A, B, C

\* B extends A, and A uses itself and C.  Nobody waits for itself.
TreeClasses == {A, B, C}
TreeSuper == [c \in TreeClasses |-> IF c = B THEN A ELSE None]
TreeUses == [c \in TreeClasses |-> IF c = A THEN <<A, C>> ELSE <<>>]

ASSUME TreeSupersFirst == SupersFirst

Symmetry == Permutations(Threads)
=============================================================================
