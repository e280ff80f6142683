------------------------------- MODULE MCHeap -------------------------------
(* Pages of 24 units with headers of two.  The rest of the page behind the *)
(* file table (16 units) is split several times, used up exactly by a      *)
(* request of 14, and too small for 25, which takes two pages of the three *)
(* left below malloc_start.                                                *)
EXTENDS Heap
=============================================================================
