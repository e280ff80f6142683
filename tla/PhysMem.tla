------------------------------ MODULE PhysMem ------------------------------
(***************************************************************************)
(* The physical memory manager of the kernel,                              *)
(* kernel/memory/physical_memory_manager.c: a bitmap with one bit per      *)
(* block of BLOCK_SIZE bytes and a counter of the blocks in use.           *)
(*                                                                         *)
(* The module holds the component's state and its operations; FindFree and *)
(* FirstFitScan study its search, Boot and FramePool are its clients.      *)
(***************************************************************************)
EXTENDS Integers, FiniteSets

CONSTANTS
    BLOCK_SIZE,   \* bytes in a block; 4096 in the code
    AddressMax    \* the largest address; 0xFFFFFFFF in the code

ASSUME BlockSizeAssumption == BLOCK_SIZE \in Nat \ {0}
ASSUME AddressMaxAssumption == AddressMax \in Nat

VARIABLES
    memory_map,   \* the set of the blocks whose bit is 1
    used_blocks   \* the counter; an integer here, see UsedBlocksInRange

(* The number of bits initialize_pmm gives the bitmap.                     *)
max_blocks == AddressMax \div BLOCK_SIZE

Blocks == 0 .. max_blocks - 1

(* n consecutive bits from bit b on.                                       *)
Run(b, n) == b .. b + n - 1

(* A run of n bits from b on that lies in the bitmap and is all 0.         *)
FreeRun(m, b, n) == Run(b, n) \subseteq Blocks \ m

(* A loop of set_block that stops one bit early.                           *)
SetRunShort(m, b, n) == m \cup (Run(b, n - 1) \cap Blocks)

(* set_block and unset_block over a run.  A bit past the end of the bitmap *)
(* lies in some other part of memory and changes no bit of the bitmap.     *)
SetRun(m, b, n) == m \cup (Run(b, n) \cap Blocks)
UnsetRun(m, b, n) == m \ Run(b, n)

(* find_free_blocks returns r: the start of the lowest free run of         *)
(* num_blocks blocks, or -1.                                               *)
find_free_blocks(m, num_blocks, r) ==
    \/ /\ num_blocks > 0
       /\ r \in Blocks
       /\ FreeRun(m, r, num_blocks)
       /\ \A b \in Blocks : FreeRun(m, b, num_blocks) => r <= b
    \/ /\ r = -1
       /\ \/ num_blocks = 0
          \/ \A b \in Blocks : ~FreeRun(m, b, num_blocks)

(* Slips in allocate_blocks: one bit set for the whole run, a failed call  *)
(* charged.                                                                *)
MapAfterFirstBit(m, num_blocks, r) == IF r = -1 THEN m ELSE SetRun(m, r, 1)
ChargedAnyway(num_blocks, r) == num_blocks

(* What allocate_blocks leaves in the bitmap and adds to the counter, and  *)
(* the block number of the address it returns, when the search gave r.     *)
MapAfter(m, num_blocks, r) == IF r = -1 THEN m ELSE SetRun(m, r, num_blocks)
Charged(num_blocks, r) == IF r = -1 THEN 0 ELSE num_blocks
Returned(r) == IF r = -1 THEN 0 ELSE r

(* The blocks the caller is given.                                         *)
Granted(r, num_blocks) == IF r = -1 THEN {} ELSE Run(r, num_blocks)

(* allocate_blocks(num_blocks) with r the result of its search.            *)
allocate_blocks(num_blocks, r) ==
    /\ find_free_blocks(memory_map, num_blocks, r)
    /\ memory_map' = MapAfter(memory_map, num_blocks, r)
    /\ used_blocks' = used_blocks + Charged(num_blocks, r)

(* free_blocks(bit, num_blocks) believes its caller: it neither looks at   *)
(* the old value of the bits nor checks that they lie in the bitmap.       *)
free_blocks(bit, num_blocks) ==
    /\ memory_map' = UnsetRun(memory_map, bit, num_blocks)
    /\ used_blocks' = used_blocks - num_blocks

(* A region whose last, partial block is freed as well.                    *)
initialize_region_rounding_up(base_address, size) ==
    LET align == base_address \div BLOCK_SIZE
        num_blocks == (size + BLOCK_SIZE - 1) \div BLOCK_SIZE
    IN  IF num_blocks = 0
        THEN UNCHANGED <<memory_map, used_blocks>>
        ELSE /\ memory_map' = SetRun(UnsetRun(memory_map, align, num_blocks), 0, 1)
             /\ used_blocks' = used_blocks - num_blocks

(* initialize_memory_region frees the whole blocks of a usable region and  *)
(* takes block 0 back, without counting it.                                *)
initialize_memory_region(base_address, size) ==
    LET align == base_address \div BLOCK_SIZE
        num_blocks == size \div BLOCK_SIZE
    IN  IF num_blocks = 0
        THEN UNCHANGED <<memory_map, used_blocks>>
        ELSE /\ memory_map' = SetRun(UnsetRun(memory_map, align, num_blocks), 0, 1)
             /\ used_blocks' = used_blocks - num_blocks

(* deinit_memory_region reserves the whole blocks of a region and counts   *)
(* every one, those already reserved too.                                  *)
deinit_memory_region(base_address, size) ==
    LET align == base_address \div BLOCK_SIZE
        num_blocks == size \div BLOCK_SIZE
    IN  /\ memory_map' = SetRun(memory_map, align, num_blocks)
        /\ used_blocks' = used_blocks + num_blocks

initialize_pmm_uncounted ==
    /\ memory_map' = Blocks
    /\ UNCHANGED used_blocks

(* initialize_pmm reserves everything.  The statically initialised         *)
(* used_blocks is 0 and the old contents of the bitmap do not matter.      *)
initialize_pmm ==
    /\ memory_map' = Blocks
    /\ used_blocks' = used_blocks + max_blocks

PhysMemTypeOK ==
    /\ memory_map \subseteq Blocks
    /\ used_blocks \in Int
=============================================================================
