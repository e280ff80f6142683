---------------------------- MODULE MCLineInput -----------------------------
(* A buffer of four characters and lines of up to three: the shortest and  *)
(* the longest line that fits with its NUL are both reached.               *)
EXTENDS LineInput
=============================================================================
