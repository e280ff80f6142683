---------------------------- MODULE Descriptors -----------------------------
(***************************************************************************)
(* What the file system calls promise about descriptors: open returns one  *)
(* that names the file until it is closed, and no call on one descriptor   *)
(* changes what another one names.                                         *)
(***************************************************************************)
CONSTANTS Files, Descriptor, NoFile

VARIABLES
    table,      \* what each descriptor names
    granted     \* <<file, descriptor>> of the open that has just returned

DescriptorInit ==
    /\ table = [d \in Descriptor |-> NoFile]
    /\ granted = <<>>

Open(f, d) ==
    /\ table[d] = NoFile
    /\ table' = [table EXCEPT ![d] = f]
    /\ granted' = <<f, d>>

Close(d) ==
    /\ table' = [table EXCEPT ![d] = NoFile]
    /\ granted' = <<>>

(* A transfer, and any call that fails.                                    *)
Use ==
    /\ granted' = <<>>
    /\ UNCHANGED table

DescriptorNext ==
    \/ \E f \in Files, d \in Descriptor : Open(f, d)
    \/ \E d \in Descriptor : Close(d)
    \/ Use

DescriptorSpec == DescriptorInit /\ [][DescriptorNext]_<<table, granted>>
=============================================================================
