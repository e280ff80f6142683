------------------------------- MODULE MCBoot -------------------------------
(* Memory of 23 blocks of 8 bytes.  The low memory is blocks 0 to 2, the  *)
(* bitmap lies in block 8, past the five blocks the boot itself needs, as  *)
(* in the code; block 10 is a hole and the kernel is at block 11.  As in   *)
(* the code max_blocks is below BLOCK_SIZE squared.                        *)
(* The maps differ in where the usable regions end, on a block's edge or   *)
(* not, and in the order of their entries.                                 *)
EXTENDS Boot

E(b, l, t) == [base |-> b, length |-> l, type |-> t]

Orders == {<<1, 2, 3, 4>>, <<3, 1, 4, 2>>, <<4, 3, 2, 1>>, <<2, 3, 1, 4>>}

Entries(low, high) == <<E(0, low, 1), E(80, 8, 2), E(88, high, 1), E(176, 16, 2)>>

Permuted(s, o) == [k \in 1 .. 4 |-> s[o[k]]]

MCSmaps == {Permuted(Entries(low, high), o) :
                low \in {24, 28, 47, 72, 80}, high \in {16, 28, 40, 64, 87}, o \in Orders}

(* The maps are those of the machines the theorems about Boot speak of.   *)
ASSUME MapsAssumption == RegionsStartOnEdges /\ RegionsApart /\ KernelInRam /\ NoBlockForBitmap
=============================================================================
