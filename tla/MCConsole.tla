----------------------------- MODULE MCConsole ------------------------------
(* A screen of three rows of two columns and lines of up to two keys:      *)
(* every row ends, the screen scrolls, a line goes over a row's end and a  *)
(* tab over three cells.  One letter keeps the run short.                  *)
EXTENDS Console
=============================================================================
