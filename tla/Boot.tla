-------------------------------- MODULE Boot --------------------------------
(***************************************************************************)
(* How the physical memory manager comes up: prekernel_main                *)
(* (kernel/prekernel.c) reserves everything, frees what the BIOS map of    *)
(* INT 0x15 EAX=E820 calls usable, reserves the low memory, the bitmap and *)
(* the kernel again, allocates the first page tables, and passes the       *)
(* counter on to the kernel proper, a second binary with variables of its  *)
(* own (main of kernel/kernel.c), through a word of low memory.            *)
(***************************************************************************)
EXTENDS PhysMem, Sequences

CONSTANTS
    Smaps,        \* the E820 maps the machine may have: sequences of entries
                  \* [base, length, type] whose addresses may pass AddressMax
    LowSize,      \* bytes of low memory kept; 0x12000 in the code
    MEMMAP_AREA,  \* the address of the bitmap; 0x30000 in the code
    KernelBase,   \* where the kernel is loaded; 0x100000 in the code
    KernelSize    \* bytes kept for it; 81920 in the code

ASSUME LayoutAssumption ==
    /\ LowSize \in Nat /\ MEMMAP_AREA \in Nat
    /\ KernelBase \in Nat /\ KernelSize \in Nat
ASSUME SmapsAssumption ==
    Smaps \subseteq Seq([base : Nat, length : Nat, type : Nat])

VARIABLES
    pc,           \* the step of the boot sequence
    smap,         \* the BIOS map, read from 0xA000
    entry,        \* the next entry to look at
    directory,    \* the block of the page directory; 0 is the null pointer
    saved,        \* the word USED_BLOCKS in low memory
    taken         \* history: the blocks allocate_blocks has handed out

bootVars == <<memory_map, used_blocks, pc, smap, entry, directory, saved, taken>>
PmmVars == <<memory_map, used_blocks>>

NotSaved == -1

(* A cast to uint32_t.                                                     *)
Truncate(x) == x % (AddressMax + 1)

BootInit ==
    /\ memory_map \in {{}, Blocks}     \* whatever the memory held
    /\ used_blocks = 0
    /\ pc = "pmm"
    /\ smap \in Smaps
    /\ entry = 1
    /\ directory = 0
    /\ saved = NotSaved
    /\ taken = {}

GoTo(from, to) == pc = from /\ pc' = to

InitializePmm ==
    /\ GoTo("pmm", "smap")
    /\ initialize_pmm
    /\ UNCHANGED <<smap, entry, directory, saved, taken>>

(* One turn of the loop over the map.  Base and length are cut to 32 bits. *)
InitializeRegion ==
    /\ pc = "smap" /\ entry <= Len(smap)
    /\ IF smap[entry].type = 1
       THEN initialize_memory_region(Truncate(smap[entry].base), Truncate(smap[entry].length))
       ELSE UNCHANGED PmmVars
    /\ entry' = entry + 1
    /\ UNCHANGED <<pc, smap, directory, saved, taken>>

DeinitLow ==
    /\ GoTo("smap", "bitmap") /\ entry > Len(smap)
    /\ deinit_memory_region(0, LowSize)
    /\ UNCHANGED <<smap, entry, directory, saved, taken>>

(* The size passed is max_blocks/BLOCK_SIZE, not the size of the bitmap.   *)
DeinitBitmap ==
    /\ GoTo("bitmap", "kernel_area")
    /\ deinit_memory_region(MEMMAP_AREA, max_blocks \div BLOCK_SIZE)
    /\ UNCHANGED <<smap, entry, directory, saved, taken>>

DeinitKernelInBlocks ==
    /\ GoTo("kernel_area", "table")
    /\ deinit_memory_region(KernelBase, KernelSize \div BLOCK_SIZE)
    /\ UNCHANGED <<smap, entry, directory, saved, taken>>

DeinitKernel ==
    /\ GoTo("kernel_area", "table")
    /\ deinit_memory_region(KernelBase, KernelSize)
    /\ UNCHANGED <<smap, entry, directory, saved, taken>>

(* initialize_vmm: two page tables and a directory, which is given three   *)
(* blocks.  When one of the three calls fails it returns at once and       *)
(* prekernel_main goes on.                                                 *)
VmmAllocate(from, to, num_blocks) ==
    /\ pc = from
    /\ \E r \in Blocks \cup {-1} :
        /\ allocate_blocks(num_blocks, r)
        /\ taken' = taken \cup Granted(r, num_blocks)
        /\ IF Returned(r) = 0
           THEN pc' = "unmap" /\ UNCHANGED directory
           ELSE pc' = to /\ directory' = IF to = "unmap" THEN Returned(r) ELSE directory
    /\ UNCHANGED <<smap, entry, saved>>

VmmTable == VmmAllocate("table", "table2", 1)
VmmTable2 == VmmAllocate("table2", "directory", 1)
VmmDirectory == VmmAllocate("directory", "unmap", 3)

(* get_page goes through the directory.  Without one it takes the interrupt*)
(* vectors at address 0 for a directory, and unmap_page writes wherever    *)
(* they point to: the model stops there.                                   *)
UnmapLow ==
    /\ pc = "unmap"
    /\ pc' = IF directory = 0 THEN "wild" ELSE "save"
    /\ UNCHANGED <<memory_map, used_blocks, smap, entry, directory, saved, taken>>

SaveCounters ==
    /\ GoTo("save", "jump")
    /\ saved' = used_blocks
    /\ UNCHANGED <<memory_map, used_blocks, smap, entry, directory, taken>>

ForgetCounter ==
    /\ GoTo("jump", "kernel")
    /\ used_blocks' = 0
    /\ UNCHANGED <<memory_map, smap, entry, directory, saved, taken>>

(* The kernel's own used_blocks starts from the saved word; its memory_map *)
(* points to the same bitmap.                                              *)
KernelMain ==
    /\ GoTo("jump", "kernel")
    /\ used_blocks' = saved
    /\ UNCHANGED <<memory_map, smap, entry, directory, saved, taken>>

BootNext ==
    \/ InitializePmm \/ InitializeRegion
    \/ DeinitLow \/ DeinitBitmap \/ DeinitKernel
    \/ VmmTable \/ VmmTable2 \/ VmmDirectory
    \/ UnmapLow \/ SaveCounters \/ KernelMain

BootSpec == BootInit /\ [][BootNext]_bootVars

-----------------------------------------------------------------------------
Steps == {"pmm", "smap", "bitmap", "kernel_area", "table", "table2", "directory",
          "unmap", "save", "jump", "kernel", "wild"}

BootTypeOK ==
    /\ PhysMemTypeOK
    /\ used_blocks \in 0 .. max_blocks    \* unsigned in the code: it does not wrap
    /\ pc \in Steps
    /\ smap \in Smaps
    /\ entry \in Nat
    /\ directory \in Nat
    /\ saved \in Int
    /\ taken \subseteq Blocks

(* The blocks that deinit_memory_region takes of a region.                 *)
BlocksOf(base, size) == Run(base \div BLOCK_SIZE, size \div BLOCK_SIZE)
LowBlocks == BlocksOf(0, LowSize)
KernelBlocks == BlocksOf(KernelBase, KernelSize)

(* A block all of whose bytes are in a usable region of the BIOS map.      *)
InRam(b) ==
    \E k \in DOMAIN smap :
        /\ smap[k].type = 1
        /\ smap[k].base <= b * BLOCK_SIZE
        /\ (b + 1) * BLOCK_SIZE <= smap[k].base + smap[k].length

(* What a machine's maps may be asked for.  The whole blocks of a usable   *)
(* region are the ones initialize_memory_region frees when the region      *)
(* starts on a block's edge and its numbers fit 32 bits.                   *)
Usable(s) == {k \in DOMAIN s : s[k].type = 1}
RegionBlocks(s, k) == BlocksOf(s[k].base, s[k].length)
RegionsStartOnEdges ==
    \A s \in Smaps : \A k \in Usable(s) :
        s[k].base % BLOCK_SIZE = 0 /\ s[k].base <= AddressMax /\ s[k].length <= AddressMax

(* No region is reported twice, and the low memory, block 0 with it, and   *)
(* the kernel lie in usable memory, apart from each other.                 *)
RegionsApart ==
    \A s \in Smaps : \A k \in Usable(s) :
        /\ s[k].base <= AddressMax /\ s[k].length <= AddressMax
        /\ RegionBlocks(s, k) \subseteq Blocks
        /\ \A l \in Usable(s) \ {k} : RegionBlocks(s, k) \cap RegionBlocks(s, l) = {}
KernelInRam ==
    /\ 0 \in LowBlocks /\ LowBlocks \cap KernelBlocks = {}
    /\ \A s \in Smaps : LowBlocks \cup KernelBlocks \subseteq UNION {RegionBlocks(s, k) : k \in Usable(s)}

(* The size prekernel_main computes for the bitmap is less than a block.   *)
NoBlockForBitmap == max_blocks \div BLOCK_SIZE < BLOCK_SIZE

(* Once a step has made its reservation, it lasts: no block of the low     *)
(* memory and none of the kernel is free or handed out.                    *)
ReservedBlocksKept ==
    /\ pc \in Steps \ {"pmm", "smap"} =>
        LowBlocks \cap Blocks \subseteq memory_map /\ LowBlocks \cap taken = {}
    /\ pc \in Steps \ {"pmm", "smap", "bitmap", "kernel_area"} =>
        KernelBlocks \cap Blocks \subseteq memory_map /\ KernelBlocks \cap taken = {}

(* What is free is memory the BIOS called usable.                          *)
OnlyRamIsFree == pc # "pmm" => \A b \in Blocks \ memory_map : InRam(b)

(* The kernel starts in a state FramePool starts from: nothing below the   *)
(* low memory's end is free, and the counter agrees with the bitmap        *)
(* although initialize_memory_region uncounts block 0 when it frees it and *)
(* does not count it when it takes it back.  (A page of each kind is       *)
(* enough: FramePool's initial state says the same of all.)                *)
OneDir(v) == 0
Pool == INSTANCE FramePool WITH
            LowestFree <- LowSize \div BLOCK_SIZE, RamTop <- max_blocks,
            FilePages <- {0}, HeapPages <- {1}, StackPages <- {2}, MaxGrowth <- 1,
            Dirs <- {0}, BootDirs <- {0}, DirOf <- OneDir,
            pte <- [v \in {0, 1, 2} |-> -1], table <- [d \in {0} |-> -1],
            file_page <- 0, heap_page <- 1,
            ram <- Blocks \ memory_map, granted <- {}, released <- {}, ranDry <- FALSE
HandoffStartsFramePool == pc = "kernel" => Pool!PoolInit

=============================================================================
