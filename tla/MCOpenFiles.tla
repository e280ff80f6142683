---------------------------- MODULE MCOpenFiles -----------------------------
(* Pages of two bytes, words of four.  A is as create_file makes it, a     *)
(* block long; B fills its last block but for a byte, and grows within it; *)
(* C is an empty file of the formatter, without a block.                   *)
EXTENDS OpenFiles

CONSTANTS A, B, C

MCInitialSize == [f \in Files |-> CASE f = A -> PAGE_SIZE [] f = B -> 2 * PAGE_SIZE - 1 [] OTHER -> 0]

(* The files are used as the theorems of OpenFilesProofs ask for, unless   *)
(* the run is the one in which a file is opened twice.                     *)
ASSUME UseInRun == MayReopen \/ AsUsed
=============================================================================
