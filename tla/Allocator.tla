----------------------------- MODULE Allocator ------------------------------
(***************************************************************************)
(* What a caller of malloc and free relies on: memory that is handed out   *)
(* overlaps no memory that is in use.                                      *)
(***************************************************************************)
EXTENDS Integers

CONSTANT Initial    \* what is in use from the start

VARIABLE live       \* the pieces of memory in use: [ptr, size]

Disjoint(a, b) == a.ptr + a.size <= b.ptr \/ b.ptr + b.size <= a.ptr

AllocatorInit == live = Initial

Allocate(a) ==
    /\ \A b \in live : Disjoint(a, b)
    /\ live' = live \cup {a}

Free(a) == live' = live \ {a}

AllocatorNext ==
    \/ \E a \in live' \ live : Allocate(a)
    \/ \E a \in live : Free(a)

AllocatorSpec == AllocatorInit /\ [][AllocatorNext]_live
=============================================================================
