------------------------------- MODULE MCVsfs -------------------------------
(* Blocks of eight inodes and of eight entries, so that the disk holds six *)
(* files and directories besides the root.  The second number that is      *)
(* given is an old file's, and so is the second block.  The root, where    *)
(* six entries are in use, is full after two files and grows with the      *)
(* third, into block 0, where two entries happen to be 0.  A path may also *)
(* lead to a missing directory.                                            *)
EXTENDS Vsfs

(* The disk is used as the theorems of VsfsProofs ask for.                 *)
ASSUME UseInRun ==
    PlacesAreDirectories /\ TwoBlocksSuffice /\ BootBlockHasRoom
=============================================================================
