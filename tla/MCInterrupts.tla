---------------------------- MODULE MCInterrupts ----------------------------
(* Nothing has to be bounded: each line holds one request.                 *)
EXTENDS Interrupts
=============================================================================
