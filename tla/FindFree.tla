------------------------------ MODULE FindFree ------------------------------
(***************************************************************************)
(* What a call of find_free_blocks promises: it answers once, in one step, *)
(* with the start of the lowest run of num_blocks free blocks or with -1,  *)
(* and changes nothing.  FirstFitScan is the loop that keeps the promise.  *)
(***************************************************************************)
EXTENDS PhysMem

VARIABLES
    num_blocks,   \* the argument of the call
    ret,          \* the value returned
    returned      \* whether the call has returned

findVars == <<memory_map, used_blocks, num_blocks, ret, returned>>

NoReturn == -2    \* ret before the call has returned

FindInit ==
    /\ memory_map \in SUBSET Blocks
    /\ used_blocks \in Nat
    /\ num_blocks \in Nat
    /\ ret = NoReturn
    /\ returned = FALSE

Find ==
    /\ ~returned
    /\ find_free_blocks(memory_map, num_blocks, ret')
    /\ returned' = TRUE
    /\ UNCHANGED <<memory_map, used_blocks, num_blocks>>

FindSpec == FindInit /\ [][Find]_findVars
=============================================================================
