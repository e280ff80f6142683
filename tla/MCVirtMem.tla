----------------------------- MODULE MCVirtMem ------------------------------
(* Twelve frames: one table and two pages fit below the hole, the second   *)
(* table lies in it, and the faults it takes leave enough to go on.        *)
EXTENDS VirtMem

(* The programs' pages are those the theorem about FramesAreOwn speaks of.  *)
ASSUME ProgramsAssumption == UserPagesClear
=============================================================================
