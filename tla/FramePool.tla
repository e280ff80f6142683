----------------------------- MODULE FramePool -----------------------------
(***************************************************************************)
(* The physical frames while the kernel runs: who is given one, which      *)
(* virtual page maps it, and what a release really gives back.  The        *)
(* clients of the physical memory manager are sys_open and sys_write (one  *)
(* page of a file at a time), sys_close, the exec command of the shell (a  *)
(* stack page), malloc_more_pages and the page fault handler; each goes    *)
(* through map_address, which may need a frame for a page table as well.   *)
(*                                                                         *)
(* A page table entry is what it maps: the entries a new table starts with *)
(* and whether the store of an entry reaches its table are not modelled    *)
(* here.  The system calls run with interrupts disabled; the loops that    *)
(* map or release several pages are split at their iterations.             *)
(***************************************************************************)
EXTENDS PhysMem

CONSTANTS
    LowestFree,   \* the blocks below it are reserved at boot; 18 in the code
    RamTop,       \* the end of the usable memory, in blocks
    FilePages,    \* the virtual pages of files, numbered from 0x40000000 on
    StackPages,   \* the user stacks of nested programs
    HeapPages,    \* the pages of the heap's growth, numbered from heap_end on
    Dirs,         \* the page directory entries
    BootDirs,     \* those whose table initialize_vmm has set up
    DirOf(_),     \* the directory entry of a page
    MaxGrowth     \* the largest number of pages the heap grows by at once

Pages == FilePages \cup StackPages \cup HeapPages

ASSUME LowestFreeAssumption == LowestFree \in Nat \ {0}
ASSUME RamTopAssumption == RamTop \in Nat
ASSUME PagesAssumption ==
    /\ FilePages \subseteq Nat /\ HeapPages \subseteq Nat
    /\ FilePages \cap StackPages = {} /\ FilePages \cap HeapPages = {}
    /\ StackPages \cap HeapPages = {}
    /\ \A v \in Pages : DirOf(v) \in Dirs
    /\ \A v \in HeapPages : DirOf(v) \in BootDirs
    /\ BootDirs \subseteq Dirs
    /\ MaxGrowth \in Nat

VARIABLES
    pte,          \* the block a page maps, or Unmapped
    table,        \* the block of a directory entry's table made after boot
    file_page,    \* file_virtual_address: the next page of the file area
    heap_page,    \* heap_end: the next page of the heap
    ram,          \* history: the blocks that were free when the kernel began
    granted,      \* history: the blocks allocate_blocks has handed out
    released,     \* history: the blocks free_page has been asked to release
    ranDry        \* history: an allocation has failed

poolVars == <<memory_map, used_blocks, pte, table, file_page, heap_page, ram, granted, released, ranDry>>

Unmapped == -1
NoTable == -1

(* The memory Boot hands over: the same blocks are free in the bitmap and  *)
(* uncounted in used_blocks.                                               *)
PoolInit ==
    /\ ram \in SUBSET {b \in Blocks : LowestFree <= b /\ b < RamTop}
    /\ memory_map = Blocks \ ram
    /\ used_blocks = Cardinality(memory_map)
    /\ pte = [v \in Pages |-> Unmapped]
    /\ table = [d \in Dirs |-> NoTable]
    /\ file_page \in FilePages /\ \A v \in FilePages : file_page <= v
    /\ heap_page \in HeapPages /\ \A v \in HeapPages : heap_page <= v
    /\ granted = {}
    /\ released = {}
    /\ ranDry = FALSE

HasTable(d) == d \in BootDirs \/ table[d] # NoTable

(* allocate_blocks(1) and map_address(directory, address, v), whose        *)
(* results no caller looks at.  create_page_table allocates a second block *)
(* when the directory entry is 0; if it cannot, nothing is mapped and the  *)
(* first block is lost.  Address 0, the failure of the first allocation,   *)
(* is mapped like any other.                                               *)
MapNewPage(v) ==
    \E r, t \in Blocks \cup {-1} :
        LET needsTable == ~HasTable(DirOf(v))
            m == MapAfter(memory_map, 1, r)
        IN  /\ find_free_blocks(memory_map, 1, r)
            /\ find_free_blocks(m, IF needsTable THEN 1 ELSE 0, t)
            /\ memory_map' = MapAfter(m, 1, t)
            /\ used_blocks' = used_blocks + Charged(1, r) + Charged(1, t)
            /\ granted' = granted \cup Granted(r, 1) \cup Granted(t, 1)
            /\ ranDry' = (ranDry \/ r = -1 \/ (needsTable /\ t = -1))
            /\ table' = IF needsTable THEN [table EXCEPT ![DirOf(v)] = t] ELSE table
            /\ pte' = IF needsTable /\ t = -1 THEN pte
                      ELSE [pte EXCEPT ![v] = Returned(r)]

(* One turn of the loops of sys_open and sys_write that add a page.        *)
MapFilePage ==
    /\ file_page \in FilePages
    /\ MapNewPage(file_page)
    /\ file_page' = file_page + 1
    /\ UNCHANGED <<heap_page, ram, released>>

(* exec maps a new stack page over whatever an earlier program left there. *)
MapStackPage(v) ==
    /\ MapNewPage(v)
    /\ UNCHANGED <<file_page, heap_page, ram, released>>

(* page_fault_handler: any page the processor finds no mapping for.        *)
PageFault(v) ==
    /\ pte[v] = Unmapped
    /\ MapNewPage(v)
    /\ UNCHANGED <<file_page, heap_page, ram, released>>

(* create_page_table clears the new table and maps it at its own physical  *)
(* address.  From 1 MiB on nothing is mapped there: page_fault_handler     *)
(* maps a frame, and create_page_table maps the table over it, so that the *)
(* frame is lost.                                                          *)
TableFault ==
    /\ \E d \in Dirs : table[d] # NoTable
    /\ \E r \in Blocks \cup {-1} :
        /\ allocate_blocks(1, r)
        /\ granted' = granted \cup Granted(r, 1)
        /\ ranDry' = (ranDry \/ r = -1)
    /\ UNCHANGED <<pte, table, file_page, heap_page, ram, released>>

(* malloc_more_pages: n blocks in a row, mapped from heap_end on.  When    *)
(* the allocation fails the pages map the blocks from 0 on.                *)
GrowHeap(n) ==
    /\ Run(heap_page, n) \subseteq HeapPages
    /\ \E r \in Blocks \cup {-1} :
        /\ allocate_blocks(n, r)
        /\ granted' = granted \cup Granted(r, n)
        /\ ranDry' = (ranDry \/ r = -1)
        /\ pte' = [v \in Pages |-> IF v \in Run(heap_page, n)
                                    THEN Returned(r) + (v - heap_page) ELSE pte[v]]
    /\ heap_page' = heap_page + n
    /\ UNCHANGED <<table, file_page, ram, released>>

(* free_page passes the physical address of the frame where free_blocks    *)
(* expects its number.  A null frame is not passed at all.                 *)
free_page(v) ==
    IF pte[v] \in {Unmapped, 0}
    THEN UNCHANGED <<memory_map, used_blocks, released>>
    ELSE /\ free_blocks(pte[v] * BLOCK_SIZE, 1)
         /\ released' = released \cup {pte[v]}

(* One turn of the loop of sys_close: free_page and unmap_page.            *)
ClosePage(v) ==
    /\ HasTable(DirOf(v))
    /\ free_page(v)
    /\ pte' = [pte EXCEPT ![v] = Unmapped]
    /\ UNCHANGED <<table, file_page, heap_page, ram, granted, ranDry>>

PoolNext ==
    \/ MapFilePage
    \/ \E v \in StackPages : MapStackPage(v)
    \/ \E v \in Pages : PageFault(v)
    \/ TableFault
    \/ \E n \in 1 .. MaxGrowth : GrowHeap(n)
    \/ \E v \in FilePages : ClosePage(v)

PoolSpec == PoolInit /\ [][PoolNext]_poolVars
-----------------------------------------------------------------------------
PoolTypeOK ==
    /\ memory_map \in SUBSET Blocks
    /\ used_blocks \in Int
    /\ pte \in [Pages -> Nat \cup {Unmapped}]
    /\ table \in [Dirs -> Blocks \cup {NoTable}]
    /\ file_page \in Nat /\ heap_page \in Nat
    /\ ram \in SUBSET Blocks
    /\ granted \in SUBSET Blocks
    /\ released \in SUBSET Blocks
    /\ ranDry \in BOOLEAN

Mapped == {pte[v] : v \in {w \in Pages : pte[w] # Unmapped}}
Tables == {table[d] : d \in {e \in Dirs : table[e] # NoTable}}

(* As long as no allocation has failed, a frame serves one purpose: no two *)
(* pages map the same one, no two directory entries share a table, and no  *)
(* page maps a page table, through any sequence of opens, closes, faults,  *)
(* programs and heap growth.                                               *)
NoSharing ==
    ~ranDry =>
        /\ \A v, w \in Pages : v # w /\ pte[v] = pte[w] => pte[v] = Unmapped
        /\ \A d, e \in Dirs : d # e /\ table[d] = table[e] => table[d] = NoTable
        /\ Mapped \cap Tables = {}

(* A block that has been handed out keeps its bit for ever, so that it is  *)
(* never handed out again.  This is what makes a release safe, and what    *)
(* makes it useless.  It needs RamTop <= LowestFree * BLOCK_SIZE, 288 MiB: *)
(* the bit a release clears then never belongs to a frame in use.          *)
GrantedStaysTaken == granted \subseteq memory_map

(* The counter is never above the number of bits that are set, and what it *)
(* lacks is at most one for each released frame.                           *)
CounterDrift ==
    /\ used_blocks <= Cardinality(memory_map)
    /\ Cardinality(memory_map) <= used_blocks + Cardinality(released)
=============================================================================
