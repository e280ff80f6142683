---------------------------- MODULE MCFramePool ----------------------------
(* Memory of 10 blocks of 3 bytes (AddressMax 32).  The pages of files are *)
(* 0 and 1, the heap's 10 and 11, the stack of one program is page 20.      *)
EXTENDS FramePool

MCDirOf(v) == CASE v < 10 -> "files" [] v < 20 -> "low" [] OTHER -> "stack"
=============================================================================
