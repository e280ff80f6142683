--------------------------- MODULE MCFirstFitScan ---------------------------
(* Every bitmap of max_blocks bits and every request, for one width of     *)
(* word and for one value of the bits past the end.                        *)
EXTENDS FirstFitScan
=============================================================================
