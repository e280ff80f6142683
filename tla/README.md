# Verification of abOS

abOS is a hobby kernel for one x86 processor in 32-bit protected mode. It boots
from a disk with a small Unix-like file system, runs a shell inside the kernel
and starts user programs from files. The modules here model its parts in TLA+;
TLC checks them on small instances and TLAPS proves all of the safety
properties for every value of the constants. `PROJECT.json` maps every definition to the
lines it models and lists the runs, the mutated definitions that show each
property can fail, the findings, the hazards and the theorems.

## 1. The system

| Part | State | Operations | Used by |
|---|---|---|---|
| Physical memory manager (`kernel/memory/physical_memory_manager.c`) | `memory_map`, `max_blocks`, `used_blocks` | `allocate_blocks`, `free_blocks`, `initialize_memory_region`, `deinit_memory_region`, `initialize_pmm` | everybody who needs a frame |
| Virtual memory manager (`virtual_memory_manager.c`) | the page directory, the tables, the TLB | `map_address`, `create_page_table`, `free_page`, `unmap_page`, `initialize_vmm` | boot, system calls, heap, page faults, exec |
| Boot (`prekernel.c`, head of `main` in `kernel.c`) | the BIOS map at 0xA000, saved words in low memory | one straight line of steps | - |
| Heap (`malloc.c`, `init_malloc`) | a list of nodes, `heap_end` | `malloc_next`, `malloc_free`, `malloc_more_pages`, `merge_free_blocks` | open file tables, programs |
| System calls (`syscalls.c`) | `open_file_table`, `open_inode_table`, `file_virtual_address` | open, close, read, write, malloc, free, exit | shell, programs |
| File system (`fs_commands.c`, `fs.h`) | superblock, bitmaps, inodes and directories on the disk, two cached inodes | `get_inode`, `create_file`, `load_file`, `save_file`, `update_inode` | system calls, shell |
| Disk formatter (`format_disk.c`, runs on the host) | the image | writes superblock, bitmaps, inodes, data | - |
| ATA driver (`rw_sectors`) | the device's registers | read and write sectors by polling | file system |
| Keyboard and readline (`exceptions.c`, `stdio.c`) | `input_buffer`, `input_pos`, `input_ready` | `keyboard_handler` (interrupt), `readline` | shell |
| Console (`stdio.c`) | screen, `g_ScreenX`, `g_ScreenY` | `putc`, `scrollback`, `clrscr` | everybody, interrupts too |
| Interrupt controller, timer, IDT (`pic.c`, `idt.c`) | masks, vectors, ticks | remap, mask, install | boot |
| Shell (`shell` in `kernel.c`) | `user_stack`, the TSS stack | the commands | user |

There is one thread of control; concurrency is interrupts against whatever they
interrupt. The shell runs with interrupts enabled, so that the keyboard handler
runs between any two of its instructions. System calls enter through interrupt
gates with interrupts disabled, but `flush_tlb_entry` inside `sys_close` and
`sys_exit` enable them again. Nothing takes a lock. Page faults nest anywhere. The
disk survives a power loss at any point; nothing on it is journaled.

What makes each part correct:

* memory manager: the search returns the lowest free run and returns; what was
  reserved stays reserved; a frame serves one purpose; the counter agrees with
  the bitmap;
* boot: only memory the BIOS calls usable becomes free, the kernel, the bitmap
  and the low memory do not, and the two binaries agree on counter and bitmap;
* input: the shell gets the lines the user enters, nothing is written past the
  buffer, the prompt comes back;
* system calls: a descriptor names the file it was opened for until it is
  closed, two descriptors do not disturb one another;
* heap: nodes tile the heap, two live allocations do not overlap, calls return;
* file system: what is reachable is allocated, nothing is shared by two files,
  also after a crash;
* console: a character is written at the cursor and the cursor is on the screen;
* interrupts: none is taken before its handler is installed, all are
  acknowledged, a key is never forgotten;
* page tables: a page leads to the frame mapped last, a fault is over at some time;
* formatter: the layout written first agrees with what is written afterwards.

## 2. Plan

Modules, in the order of their importance. Items 1 to 11 are done.

1. `PhysMem`, `FindFree`, `FirstFitScan` (+ proofs): the memory manager.
2. `Boot` (+ proofs): composes `PhysMem`; its last state is an initial state of `FramePool`.
3. `FramePool` (+ proofs): all clients of frames at run time.
4. `LineReader`, `LineInput` (+ proofs): keyboard, readline, shell input.
5. `Descriptors`, `OpenFiles` (+ proofs): the two tables, descriptors, offsets; abstract: a
   map from descriptors to files.
6. `Allocator`, `Heap` (+ proofs): nodes and addresses; abstract: disjoint live pieces.
7. `Vsfs` (+ proofs): disk and `create_file` with a crash between any two writes.
8. `VirtMem` (+ proofs): two-level tables that are edited through themselves, cached
   translations, faults inside `create_page_table`.
9. `Console` (+ proofs): `putc` in steps with the keyboard handler in between.
10. `FormatDisk` (+ proofs): the image the kernel mounts.
11. `Interrupts` (+ proofs): boot order of IDT, controllers, masks and timer.
12. Left: an atomic create as the abstract specification of `Vsfs`; `Shell`, the
    nesting of shells by `sys_exit`; `Ata`, `rw_sectors` against the device.

Theorems: section 5 lists what is proved, and what is only model-checked and why. The proofs
about the memory manager, the boot, the clients of frames and the heap are in `MemoryProofs`; every
other component has a proof module of its own, named after it.

## 3. The modules and the code

In every module the actions carry the names of the functions where there is one
action per function, and one constant stands for each number that a small
instance has to shrink. History variables, marked as such, are read by
properties only. Definitions called slips (`SetRunShort`, `SkipKeepingCount`,
`CloseKeepingInode`, ...) stand next to the definition they are a plausible bug
of; no specification uses them, and `PROJECT.json` lists for each property the
one that breaks it. A module's type invariant is a conjunct of one of its properties
unless the run checks it by itself.

**PhysMem** (`physical_memory_manager.c`). `memory_map` is the set of the blocks
whose bit is 1, `used_blocks` the counter. `SetRun`/`UnsetRun` are the loops over
`set_block`/`unset_block`; a run that passes the end of the bitmap touches no bit
of it, as the code's stores go to memory behind it. `find_free_blocks(m, n, r)`
says what the search returns; `allocate_blocks` and the two region operations
are the functions with their way of counting: `deinit_memory_region` counts
blocks that were already set, `initialize_memory_region` takes block 0 back
uncounted. `used_blocks` is an integer; `BootTypeOK` of `Boot` shows for the boot
that the unsigned counter does not wrap.

**FindFree, FirstFitScan** (lines 56-98 of the same file). `FindFree` is the search
as one step. `FirstFitScan` is its loop: `SkipFullWord`, `CountFreeBit` and
`PassUsedBit` are the three ways through the body, `RefuseZero` and `GiveUp` the
two returns of -1. `i` and `count` are the code's variables. `PadSet` covers the
bits behind `max_blocks` in the last word.

**Boot** (`prekernel.c`, head of `main`). One action per call of
`prekernel_main`, in order (`pc`), and `InitializeRegion` once per entry of the
BIOS map. `VmmTable`, `VmmTable2`, `VmmDirectory` are the allocations of
`initialize_vmm`, with its early returns; `UnmapLow` is where the prekernel uses the
directory it may not have (then `pc` is "wild" and the model stops);
`SaveCounters` and `KernelMain` pass the counter from one binary to the other.
`Truncate` is the cast of the 64-bit fields.

**FramePool** (`virtual_memory_manager.c`, and the callers in `syscalls.c`,
`kernel.c`, `malloc.c`, `exceptions.c`). `pte[v]` is the block page `v` maps,
`table[d]` the page table of a directory entry made after boot. `MapNewPage` is
the pair `allocate_blocks(1)`, `map_address` that every client makes, with the
second allocation of `create_page_table`; `MapFilePage`, `MapStackPage`, `PageFault`,
`GrowHeap` are the clients, `TableFault` the page fault that clearing a new table
takes, `ClosePage` one turn of `sys_close`. `free_page` passes the frame's
address where a bit number is expected, as the code does.

**LineReader, LineInput** (`exceptions.c`, `stdio.c`, `kernel.c`).
`keyboard_handler(k)` is one step for each kind of key, since it runs with
interrupts disabled. `ResetPos`, `ResetBuffer`, `ResetReady` are the three stores
of `readline`, `Poll` the loop's exit, `Processed` the end of the command that
reads the buffer. `LineReader` is the line editor the shell believes it has.
`hurried` says that a key came since `readline` began and not while it polled: from
such a key to the next `readline` the refinement promises nothing, afterwards it does again.

**Descriptors, OpenFiles** (`syscalls.c`, `fs_commands.c`). `files` and
`inodes` are `open_file_table` and `open_inode_table`; `sys_open`, `sys_close`,
`sys_write`, `sys_read` are one step each, since no interrupt handler touches
their state. `area` and `disk` hold the names of disk blocks in place of their
bytes, so that "the right contents" is an equation. `DiskBlocks` are the blocks a file
has: those of its first size, one for a file of `create_file`, none for an empty file of the
formatter; no call adds one, and what lies beyond them is read from and written to block 0.
`Outgrown` names the files that have got that long. `InodeIndex` and `FileIndex`
are the two searches of `sys_open`, independent of one another as in the code.
`Offsets` are the values the uninitialised `offset` of `load_file` and
`save_file` may hold. `alone` says that no two descriptors were ever open at the
same time, which is how the shell's own commands use the calls; what is claimed of
contents is claimed under it. `Descriptors` is a map from descriptors to files.

**Allocator, Heap** (`malloc.c`, `init_malloc`). `list` is the list from
`malloc_head` on, each node with its own address (`at`), size and the address it
hands out. `TakeNode`, `SplitNode` and `malloc_more_pages` are the three outcomes
of `malloc_next`, each followed by `merge_free_blocks`; `sys_free` is
`malloc_free`, with the loop that does not advance (`spinning`). `Allocator` is
the promise that what is handed out overlaps nothing in use.

**Vsfs** (`fs_commands.c`, `format_disk.c`, head of `main`). `block`, `inode`,
`disk_bits` and `boot_bits` are on the disk; `superblock`, `root_inode` and
`current_dir_inode` are the variables of these names; `call` holds the
locals of `create_file`. Its writes are actions, in order: `Begin` (lookup of the
parent, number, first bit), `TakeBlock`, `WriteNewInode`, then `ClearBlock` and
`WriteParent` if the directory grows, `WriteEntry`, `WriteSize`,
`update_superblock`. `PowerLoss` may come between any two of them: memory is
gone, and `main` reads superblock and root inode again. `get_inode_in_dir`,
`get_parent_inode`, `find_free_bit` and `update_inode` are operators.
`Init` is what the formatter writes when the inodes fill one block exactly, for two
binaries, an empty directory and a directory of other files: with fewer files it destroys its
own inodes (section 6). The first number that is given is then one behind that block: its
inode lies over the root's first entry. The second number and block are the bitmaps' first free bits,
`ReservedInodes` and `ReservedBlocks`, and an old file's. `given` is a history of the numbers.

**VirtMem** (`virtual_memory_manager.c`, `page_fault_handler`, the callers).
`pd` is the page directory, `mem[f]` the entries frame `f` would show as a table,
`tlb` what the processor has cached. The kernel writes to tables at addresses that are
translated themselves, so that `map_address` is not one step: `todo` is the stack
of what remains to be done - map, clear, store, unmap, flush - and an access
that is not mapped puts `page_fault_handler` in front of itself. `Clear` and
`ClearTail` are the `memset` of `create_page_table`, which starts seven bytes late.
`Evict` drops cached translations at any time; only the dropping of stale ones
is a step, since dropping one that agrees with the tables changes nothing until it is
stale. `OpenPage`, `ClosePage`, `Exec`, `GrowHeap` and `Program` are the clients.

**Console** (`stdio.c`). The shell's `putc` is a sequence of loads and stores (`pc`,
`reg`), with the loops of `scrollback` and `clrscr` cell by cell and the four port
writes of `setcursor`; `Echo` is the whole of `putc` as `keyboard_handler` calls it
in between. The code is compiled without optimisation, so that `g_ScreenX++` is a
load and a store, and a call `setcursor(g_ScreenX, g_ScreenY)` loads the two one after the other, the last
one first (`LoadPosition`). A tab is one character in the buffer and up to four cells on the
screen (`Spaces`); the history `tabbed` says that the line has seen one, `torn` that a key
came while a cursor position was on its way to the controller. The stores of `readline` are one step here, `LineInput` has them apart.

**Interrupts** (`pic.c`, `idt.c`, lines 61 to 84 of `main`). The controllers answer to
what is written to their ports (`Command`, `Data`): vector base, masks, requests, lines in
service and how far an initialisation has come. `pic_disable` to `set_PIT` write
byte by byte, and `Deliver` may come between any two bytes while the processor's
flag `IF_` is set. `Tick`, `Key` and `DiskReady` are the devices, `SystemCall`,
`EnableEarly` and `Return` what the shell and programs do to the flag afterwards.

**FormatDisk** (`format_disk.c`). `get_file_info` and `write_superblock` are one
step each; the second walk is a step per entry (`AddFile`, `AddDirectory`,
`LeaveDirectory`), with the recursion of `write_file_data` as `stack`. `placed` is what
has been given a number and blocks; contents are left out. The binaries are told by the last component
of a path (`d_name`), in whatever directory it is, the prekernel by its first 13 characters; `OnlyBinaries`
are the trees in which nothing else is called so.

## 4. The runs

| Run | Question | Bounds, and why they are enough |
|---|---|---|
| `first_fit` | does the word-skipping search return the lowest free run, and return? | all 128 bitmaps of 7 bits in words of 3: two whole words and a part of one; all requests up to one more than fits. The theorems remove the bounds. |
| `boot` | does the boot sequence keep its reservations and hand over a consistent bitmap and counter? | 100 BIOS maps, all of which satisfy the hypotheses of the theorems: each end of a region on a block's edge or inside a block, four orders of the entries, memory that suffices and memory that does not |
| `frame_pool` | do clients ever share a frame, is a frame ever given out twice, how wrong does the counter get? | 10 blocks, of which 4 are usable; five pages, two tables made on demand: every allocation can fail |
| `virt_mem` | do pages lead to frames of their own although tables are edited through stale and missing translations, and is every fault over? | three tables of 13 entries, frames 2 to 11: one table lies in the low memory, the next in the hole the prekernel has unmapped, and allocations fail at the end; two file pages, a stack and a user page, one page for the heap to grow into |
| `line_input` | is it a line editor for a user who waits, and does typing at any moment run over the buffer, spoil a later line or hang the shell? | a buffer of 4, lines of up to 3 characters: the longest line that fits |
| `open_files` | do descriptors name their files while no file is opened twice, and are contents, disk and mappings right with one file open? | three files - a block as `create_file` makes it, two blocks less a byte, empty without a block -, three entries per table, 5 pages, one transfer per descriptor, of a byte or of two blocks: writes within a block, beyond the last one and to a file that has none, a gap between open entries and a doubled index all occur |
| `open_reopen` | ... and when a file is opened twice? (no) | as above, two files |
| `heap` | do nodes tile their page, are headers and live pieces disjoint and mapped? | a page of 24 units, headers of 2; sizes that split, fit exactly, need one and two new pages, and 0 |
| `vsfs` | do names keep their files, and memory its agreement with the disk, with the power lost between any two writes of `create_file`? | blocks of 8 inodes or entries: a disk of six files and directories and the root, of which the second created file gets a number and a block; the root uses 6 entries, is full after two files and grows with the third; four places a path may lead to, one of them missing; three calls, one loss of power |
| `console` | does echo in the middle of the shell's output leave the cursor on the screen and the typed line readable? | three rows of two columns: rows end, the screen scrolls, a tab goes over three cells; one letter and the tab, lines of two keys; cursor positions of two digits in base 4, so that both registers matter |
| `interrupts` | does each interrupt reach its handler, is it acknowledged, and is every key read? | nothing is shrunk: 256 vectors, two controllers of eight lines, all bytes written at boot |
| `format_disk` | do numbers, blocks and superblock agree, in whatever order `readdir` lists the files? | 6480 trees: five entries in all orders, one subdirectory, empty or with a file that has a name of its own or one of a binary; files start at blocks 5 and 6, before the kernel's, in its seven and behind, with kernels of 1, 3 and 7 blocks |

Deadlock is not checked where the system really stops: a search, a boot sequence or a
format ends, memory and address space are used up, `malloc_free` hangs, the processor
halts.

Fairness is assumed in four runs. `first_fit`: weak fairness of the next-state
relation, since the loop is straight-line code that waits for nothing. `line_input`:
weak fairness of the shell's steps, since the processor runs the shell whenever it
serves no interrupt, and of the Enter key, since a prompt that nobody answers may
wait for ever. `virt_mem`: weak fairness of `Kernel`, since a processor goes on with the call or
access it has begun; clients and evictions are under no obligation. `interrupts`:
weak fairness of the handlers and of a system call's return, strong fairness
of the boot's steps and of the delivery of the timer's and the keyboard's
interrupts. An interrupt enables and disables these over and over, but ticks are ten
milliseconds apart, time for thousands of instructions, so that neither is starved.

## 5. What is proved

`MemoryProofs` begins with what its parts share about the memory manager's operators: the bitmap
is finite, the search returns free blocks of it, a successful allocation adds exactly the run it
charges, and the size of a union of sets that do not meet. Its theorems are about four modules.

`FirstFitScan`, for every `BLOCK_SIZE`, `AddressMax`, `WordBits` and `PadSet` that
satisfy the named assumptions (positive sizes):

* `FirstFitCorrect`: `ScanSpec => []ResultIsFirstFit`. The invariant is
  `IInv == ScanTypeOK /\ ScanInv /\ ResultIsFirstFit`. `ResultIsFirstFit` alone says nothing
  of the states before the return; `ScanInv` adds that `count` is the length of
  the free run that ends before `i`, that the bit before that run is set, and
  that no run that fits lies wholly below `i`. The skip keeps it because a full
  word holds no free bit of the bitmap (`WordBounds`).
* `ScanImplementsFind`: each step of the loop is a stutter of `FindFree` but the
  return, which is its step.

`FramePool`, for every memory size, any sets of pages and tables, any `MaxGrowth`,
on machines with `SmallRam == RamTop <= LowestFree * BLOCK_SIZE`, that is at most
288 MiB of memory (18 * 4096 blocks; the Makefile starts the emulator with 128 MiB):

* `FramesAreNotShared`: `SmallRam /\ PoolSpec => []NoSharing`;
* `GrantsAreForEver`: `SmallRam /\ PoolSpec => []GrantedStaysTaken`;
* `CounterFollowsBitmap`: `SmallRam /\ PoolSpec => []CounterDrift`.

The invariant is `PoolInv == PoolTypeOK /\ Ledger /\ FileFrames /\ AllFrames /\
NoSharing`. `NoSharing` is not inductive: a release clears a wrong bit, and one
has to know that this bit never belongs to a frame in use. `Ledger` says so: what was
handed out keeps its bit, and a block outside the memory the kernel got is free or
handed out only if its number is the address of a released frame. Such a number
is at least `LowestFree * BLOCK_SIZE`, which is where `SmallRam` is needed:
otherwise it could be a frame of the usable memory, and the theorem is false.
`FileFrames` and `AllFrames` tie the entries and tables to `granted` and
`released`: a page of a file maps a frame that has not been released, so that no frame is
released twice. `CounterDrift` is inductive together with `PoolInv`: a
release lowers the counter by one and clears at most one bit, and adds one frame to
`released`.

`Boot`, for every size of memory, block, low memory and kernel, and any set `Smaps` of
BIOS maps with any number of entries in any order:

* `ReservationsLast`: `BootSpec => []ReservedBlocksKept`, without a hypothesis on the map.
  `ReservedInv` adds that nothing is handed out before the last reservation: what
  is reserved later was not given away earlier.
* `FreeMemoryIsRam`: `RegionsStartOnEdges => (BootSpec => []OnlyRamIsFree)`. A region that
  starts inside a block is rounded down at its base, and the block it shares with
  the gap below becomes free: the hypothesis is needed. Usable regions that BIOSes report start on
  a page (0 and 1 MiB); their ends may lie inside a block.
* `CountersFitBitmap` (`[]BootTypeOK`) and `KernelStartsRight` (`[]HandoffStartsFramePool`),
  for `ProperMaps == RegionsApart /\ KernelInRam /\ NoBlockForBitmap`: no region
  is reported twice, low memory and kernel are in usable memory (otherwise the machine
  could not have loaded them), and `max_blocks/BLOCK_SIZE` is less than a block (255 in the
  code). `CounterInv` is the accounting: while the map is read the counter is
  `max_blocks` less the blocks freed so far, block 0 among them although its bit is set again each
  time; when the low memory is reserved block 0 is counted with it and counter and bitmap
  agree. `MCBoot` assumes these hypotheses of its maps, so that each run evaluates them.

`Heap`, for every size of the page, of a node's header and of what callers ask for, and any two
tables of which `main` puts the first into the page and the second below it (`TableAssumption`):

* `NodesAlwaysTile`: `Spec => []NodesTileThePage`;
* `PiecesAlwaysMapped`: `Spec => []PiecesAreMapped`;
* `HeapIsAllocator`: `Spec => ImplementsAllocator`, the refinement of `Allocator`.

`HeapInv` adds to these what the merging needs: no two neighbours are free (`NoFreePair`), nodes
from `malloc_more_pages` never are, and a piece in the page is the memory of one used node. Without
`NoFreePair` the pass of `merge_free_blocks`, which skips a comparison after each merge, could do
anything to the list. With it, a call needs one merge at most: the pass changes
nothing (`MergeChangesNothing`) or joins the first two nodes. Both facts go by the index of the first node where
the list and the list under construction would differ; that a recursive function has only
one value at each index is `OnePass`.

`LineInputProofs`, for every size of the buffer and `ShortLines == MaxLine < INPUT_BUFFER_SIZE`
(the code does not enforce it, see section 6; lines of up to 255 characters satisfy it):

* `HandlerStaysInBuffer`: `Spec => []TypeOK`, that is, `input_pos` is always an index of the
  buffer. `TypeOK` is not inductive, as each key advances `input_pos`: `Position` says that
  `input_pos` never exceeds the number of characters of the line the user is typing, in
  whichever of `readline`'s three stores the key comes.
* `ReadsLines`: `Spec => ImplementsLineReader`, the refinement of `LineReader`. `AtPrompt` ties the
  buffer to the position while no key hurried: emptied by the first store, terminated
  by the second, and during the poll the string ends at `input_pos`. The history
  `hurried` disappears at the next `readline`, and `AtPrompt` with it is reestablished there.

`ConsoleProofs`, for every screen of at least two rows, every output, and lines of letters and tabs up to
the cells of all but two rows, from the assumptions on the constants alone (`RegisterAssumption`: a position fits two
registers, 80 * 26 <= 256 * 256):

* `CursorStaysOnScreen`: `Spec => []CursorOnScreen`;
* `CursorIsShown`: `Spec => []CursorShown`;
* `UserSeesTheLine`: `Spec => []EchoShowsLine`.

`CursorInv` says for each load and store of `putc` where the cursor may be and what the
register holds; a whole `putc` of the handler leaves every one of these ranges
true, since it ends with the cursor on the screen whatever it started from. The line
never reaches the first row while a scroll is under way (`LineBelowFirstRow`), so that the cells copied
are the ones the properties need. `RegistersOnTheWay` follows the two loads and the four port writes: the
exception `torn` of `CursorShown` covers a key from the load of `g_ScreenY` to the last byte, no more.
`EchoShowsLine`, for lines without a tab, is inductive with `CursorInv`: echo places, wraps and scrolls
the line with the cursor. With a tab it is false (section 6).

`OpenFilesProofs`, for any files, sizes, table and page sizes, when no file is opened while it is
open (`~MayReopen`; otherwise the first two are false, see section 6):

* `TablesStayInStep`: `Spec => []TablesInStep`;
* `DescriptorsNameFiles`: `Spec => ImplementsDescriptors`, the refinement of
  `Descriptors`. `OpenInv == TablesInStep /\ Closed` is the invariant: both searches of
  `sys_open` look for the first entry that is not in use, which is the same in both tables exactly if
  each entry is closed in both or in neither, and a closed entry has flags that refuse
  a write.

and for `AsUsed` - no reopening, one transfer per descriptor, which is what the shell's commands do, and an
`offset` of 0 -, with files and transfers of any length, an empty file without a block among them:

* `FilesAreLoaded`, `FilesAreSaved`, `CloseUnmapsAll`: `Spec => []PagesHoldTheFile`,
  `[]DiskHoldsTheFiles`, `[]NothingMappedWhenClosed`. They speak of files that have not outgrown their
  blocks (`Outgrown`): the file that has is loaded from and saved to block 0 in part, and not all pages
  `sys_write` has mapped for it are unmapped again; the blocks of the other files stay right even so.
  `AloneInv`: as long as descriptors are open one at a time, each is in entry 0 and its pages
  are the ones from its address on; those within the size hold the file's blocks; sizes on the disk
  never fall below the first ones; and while no file has outgrown its blocks, no other page is
  mapped and the number of pages is the number close will unmap. `MCOpenFiles` assumes `AsUsed` of the run's constants.

`VsfsProofs`, for any size of a block in inodes and entries and disks that fill one block of inodes, with bitmaps
whose first free bits, `ReservedInodes` and `ReservedBlocks`, are any old file's (`VsfsAssumption`), for any place of the data
blocks, any contents of the boot block (`BootEntries`), any places and names - but `.`, `..` and the name
that stands for contents - and any number of calls and losses of power:

* `CachesStayTrue`: `Spec => []CachesAgreeWithDisk`, without a hypothesis. `CacheInv`: the two inodes in
  memory are copies of the root's but between the write of its pointers and its size, which
  `RootInFlight` delimits.
* `OldFilesStay`: `PlacesAreDirectories => (Spec => []OldFilesKept)`. The hypothesis is that
  no path goes through a file as if it were a directory, which the code does not check
  (section 6). All calls together change one formatted inode and one formatted block at most, those
  of the bitmaps' first free bits, the inode not before the second call. That these two are taken is
  the code's doing (section 6); the theorem says that nothing else is. `LayoutInv` says what every
  block that is read as a directory may contain, and that a directory's pointers are its own block,
  block 0 and the spare block, and `GivenInv` which numbers the calls have.
* `EntriesStayGood`: `PlacesAreDirectories => (Spec => []EntriesLeadToInodes)`. `EntryInv`: a
  number that `create_file` gives stands in an entry only if that inode has been written.
* `NamesStay`: `PlacesAreDirectories /\ TwoBlocksSuffice => (Spec => NamesAreKept)`, an action property:
  a lookup returns the first entry of its name in the order of the blocks, so that
  an entry may never be written before one that is there. `NameInv`: what a directory's size
  counts is in use in its own block, and no block has a hole before a used entry. `TwoBlocksSuffice` bounds the
  files (122 in the code); with a third block the property is false.
* `FirstFileStays`: `PlacesAreDirectories => (Spec => []FirstFileStaysApart)`. As long as the power stays,
  the first file has a number, an inode and a block of its own, although its inode lies
  among the root's entries. `ApartInv` follows the two pairs of numbers and blocks through the
  superblock and the calls. The second file has nothing of its own (section 6).
* `CreatedFilesAreFound`: `PlacesAreDirectories /\ TwoBlocksSuffice /\ BootBlockHasRoom =>
  (Spec => []CreatedFileIsFound)`. `FoundInv`: without a loss of power no entry is used that is not
  counted, and block 0 has taken no more entries than calls did not fit elsewhere, so that
  there is room, and the entry last written lies where the grown directory is read.
  `BootBlockHasRoom`: the zero words of the boot block suffice; without one the entry is lost
  (section 6).

`MCVsfs` assumes the three hypotheses of its constants; under them the run's root directory still
grows past its first block.

`FormatDiskProofs`, for every set of directory trees (`IsTree`: a finite tree whose entries have one
place each and are reached from the root, in which both binaries are files), whatever order `readdir`
has, and files of any number of blocks an inode has pointers for; the properties speak of the trees in which
only the binaries have their names (`OnlyBinaries`):

* `WalksAgree`: `Spec => []NumbersAgree`;
* `SharingOnlyInKernel`: `Spec => []BlocksApart`;
* `NewBlockIsFree`: `Spec => []FirstNewBlockIsFree`.

The first walk counts, the second gives out, and nothing compares the two. `DiskInv` does:
`EntriesInv` says that what is placed is exactly what lies before the places on the stack, so
that at the end, when the stack is empty, every name is placed (`ReachedFromRoot`). `NumbersInv`: the
numbers below the counter are given once each. `SpaceInv`: `first_block` is where it
began, plus the blocks of what was placed but the kernel, plus the kernel's seven blocks once
or not at all; with the count of the first walk it bounds the last block. These
two hold under `OnlyBinaries` only (`GivenInv`), the others whatever the names.

`VirtMemProofs`, for tables of any size, any number of them, any memory and hole with at
least two frames below the lowest free one (`LowestFree >= 2`: the identity table is one
of them), any pages of the clients and any leftovers in memory the boot has not cleared:

* `NothingIsStale`: `Spec => []NoStaleTranslation`. `CoreInv` is about the stack of what is left
  to do. `ShapeInv` bounds it, by a rank: whatever a fault puts on top ranks lower than what
  faulted, but for the mapping of a table's page, which is put before a reload. `TaskInv` says what operands each entry
  has, `PairInv` which entries come together (an unmapping with its flush), `KernelInv` that
  the pages through which tables are reached lead to the tables or to frames that are none -
  the self-mapping is never turned on another table -, and `CacheInv` that nothing is
  cached where the next store changes what a page leads to.
* `PagesKeepTheirFrames`: `Spec => []PagesLeadToTheirFrames`, with `FrameInv`, which holds until
  memory runs out: a page in use leads to its frame or its mapping is on the stack, so that the
  clearing of a table never wipes an entry that is not stored again (`MappingInv`); the frames
  pages lead to or may lead to are given out, no tables, and not those of another page (`OwnInv`).
* `PagesDoNotShare`: `UserPagesClear => (Spec => []FramesAreOwn)`. `LeftoverInv` says where
  the leftovers of memory can show up in a table: before it is cleared, and for
  good in its first two entries, which `create_page_table` misses. The hypothesis is that no page that programs
  access without its having been mapped is one of these; for such a page TLC finds a counterexample (section 6).
  `MCVirtMem` assumes it of its pages.

`InterruptsProofs`, where there are no constants; the run visits every state, and the proof says why:

* `TakenByTheRightHandler`: `Spec => []HandledByItsHandler`;
* `EveryoneAcknowledged`: `Spec => []InServiceWhileServed`.

`MasksInv` says for each stage of the boot why no interrupt can be delivered to a wrong vector: lines are
masked until `PIC_remap`, whose ICW1 loses the masks and the requests together (`RemapInv`, counted by
the bytes written), and when masks are lost the handlers are installed already (`VectorsInv`). `ServiceInv` ties what
is in service at the master to the stage of the handler that runs.

All these inductive invariants hold on the runs' constants, where TLC was given them as
invariants; the configurations leave them out, since the theorems say more.

Only model-checked:

* what needs fairness: `SearchReturns`, `ShellGoesOn`, `FaultsAreResolved` and
  `KeysAreServed`, which is out of the prover's reach;
* `DescriptorNamesFile`, which is violated.

All other properties of the runs are stated by a theorem.

## 6. Findings

`open_reopen` is the run of a property that quotes the repository and is violated:
`sys_open` fills the first free entry of the file table and returns the index of the
inode's entry. Open A, open A, open B: the descriptor of B is A's.

### Divergences without a run

What the modules reproduce, or stop at, because the code does it, and what the properties
except or leave open:

* The line the shell works with is the keyboard's buffer: keys pressed before the next
  prompt change it under the shell (`exceptions.c:104`), against the comment at
  `exceptions.c:95-96` that the message is complete. `ImplementsLineReader`
  therefore excepts what follows a hurried key.
* A tab is stored as one character (`keyboard.h:44`, `exceptions.c:104`), echoed as up to four spaces
  (`stdio.c:86-90`), and backspace takes back one character and one cell (`exceptions.c:87-91`): after a tab and a
  backspace the rest of the line does not stand before the cursor, against the comments at
  `exceptions.c:84` and `:90`, "delete what they've typed" and "display the changes".
  `EchoShowsLine` is about lines into which no tab was typed.
* `setcursor(g_ScreenX, g_ScreenY)` (`stdio.c:121`) loads the two one after the other and writes four
  bytes to the controller: a key in between leaves the blinking cursor elsewhere until the next character.
  `CursorShown` excepts it (`torn`).
* `create_file` writes the superblock last (`fs_commands.c:450`). If the power is lost
  after the directory entry was written, the next file gets the number of the one
  before and both names lead to the same inode, against `devlog.txt:2613-2614`.
* `format_disk.c:151` rounds the number of inode blocks down. For the repository's own
  `build/bin` - 9 entries, 11 inodes of 64 in a block - there is none: the first data
  block is the inodes' block, and the entry `..` of the root directory is written over
  the root's inode (a compiled `format_disk` does so), against `devlog.txt:2591-2592`,
  which keeps the inodes separate from the data blocks. `Vsfs` starts with 64 inodes, with which
  the formatter's own disk is whole; the first inode that is created then lies over the entry `.` of
  the root, where its number is the first word, so that the entry stays in use under another name.
* The bitmap is not reserved: `prekernel.c:42` passes `max_blocks/BLOCK_SIZE` (255)
  bytes, which is no whole block, where `devlog.txt:583` and `:659-660` want the
  bitmap never to be touched. It lies below the kernel and is reached only when
  the blocks from 18 on are used up to it.
* `prekernel.c:31` cuts bases and lengths of the BIOS map to 32 bits: memory above 4 GiB
  is taken for memory below.
* `exceptions.c:137` and all other clients map whatever `allocate_blocks` returns:
  its failure, 0, maps frame 0 (`physical_memory_manager.c:130-131`).
* `keyboard_handler` does not compare `input_pos` with the size of `input_buffer`
  (`exceptions.c:104-108`): a line of 256 characters is stored past its end. The
  theorems about input are for shorter lines (`ShortLines`).
* Between `stdio.c:331` and the next store the handler may move `input_pos` behind the
  end of the string that `readline` then empties: what is typed up to Enter is lost,
  against `devlog.txt:477-478`. `ShellGoesOn` holds all the same.
* `virtual_memory_manager.c:40`: `free_page` passes the frame's address where
  `free_blocks` takes a bit number. No frame is ever given back, and a bit of some
  other block, or a word behind the bitmap, is cleared. On small machines this is
  harmless but for the leak (section 5); beyond 288 MiB a frame in use can be handed
  out again.
* `malloc.c:181-187`: `malloc_free` compares the first node for ever, with interrupts
  disabled, unless that is the one to free (`spinning` in `Heap`).
* `syscalls.c:190` and `:201` index `temp` by `inode_index` once more after it was
  advanced to the entry: from the second file on, size and contents come from
  entry twice the index. A second open file is mapped with no page and not loaded, and
  closing it unmaps the pages of another.
* `fs_commands.c:87` and `:110` add to an `offset` that was never set; with -O0 it
  holds what the stack held, which is why the comment at `syscalls.c:99-101` finds a
  `kprintf` necessary.
* `syscalls.c:304` and `:355` add `lseek`, in bytes, to a pointer to words: every
  transfer but the first of a descriptor is at four times its offset. Hence
  `OneTransfer` in the runs.
* `syscalls.c:291` maps the pages of a growing file at the global
  `file_virtual_address`: with two files open they are not behind the file's own.
* `syscalls.c:282` computes the bytes to allocate as an unsigned difference that can
  be below zero; the loop then maps a million pages. The model stops there
  (`Runaway`).
* `syscalls.c:282-291` maps as many new pages as the transfer's bytes beyond the file's
  size need, without regard to the room in the last page or the page an empty file has;
  `syscalls.c:235` unmaps as many as the size needs. A page may stay mapped when a transfer
  has gone past the file's pages, which the model's writes do; `NothingMappedWhenClosed` speaks of the
  files that keep within their blocks. The shell transfers 4096 bytes, a page, once per open
  (`kernel.c:468`, `:481`).
* `syscalls.c:313` saves a file over unused block pointers, which are 0, when it has
  outgrown its blocks: the boot block is overwritten, against the comment at
  `syscalls.c:298-299`, which hopes that short files are safe. An empty file of the host has no block on
  the disk (`format_disk.c:387`), so that one byte written to it suffices; a file of `create_file` has
  the size of a block and one block (`fs_commands.c:361`). TLC finds the write to block 0 in
  `DiskHoldsTheFiles` when `NoneOutgrown` is left out.
* `unistd.h:7-11` numbers the modes 0 to 4 and the calls test them as bits: `O_RDWR`
  (3) contains `O_WRONLY` and cannot read, so that `cat` shows nothing;
  `O_RDONLY` (1) shares a bit with `O_RDWR` and can write; `O_CREAT` (0) never creates
  (`syscalls.c:112-114`).
* `malloc.c:74` returns the new node, not the memory behind its header: the
  caller's first store destroys the list. `malloc.c:169` never looks at the last node.
  `heap_end` is 0 after `init_malloc`, so that the first growth, the inode table's, maps
  the pages from address 0 on and its node, at address 0, ends the list.
* `fs_commands.c:248` and `:269` use `first_inode_bitmap` and `first_data_bitmap`, which
  nobody sets; the bits go into block 0 (`boot_bits`), the boot block, and the bitmaps
  never change. The formatter sets the first eight and 25 bits, however many the inodes and blocks are
  (`format_disk.c:191-214`). `find_free_bit` therefore gives the number 8 and the bit 25 from the
  second file on: the third and all later files share inode and block with the second, and where seven
  or more files and directories were formatted - `build/bin` has nine -, 8 is the number of one of those, whose inode
  `update_inode` overwrites, against `devlog.txt:2613-2614`, a unique number for each file.
  `Vsfs` has the second number and block on an old file; `FirstFileStaysApart` is about the first
  file only and `OldFilesKept` about all old files but these.
* `fs_commands.c:382` stores the new block of a directory one pointer behind the one
  that is read: the second block of a directory is block 0, whose words are taken
  for entries. Where one of them is 0, the new entry goes there. The third block of every
  directory is the bit that is given again and again (25 blocks behind the first data block), which is also
  the block of all files but the first and is cleared each time a directory grows: names beyond
  the 122nd file of a directory are lost (`TwoBlocksSuffice`).
* `create_file` does not look whether the parent was found, or is a directory: with a
  path through a missing directory the entry goes into block 0 and inode 0 is
  written. A directory without room loses the entry, without an error
  (`fs_commands.c:401-418`); after a loss of power between entry and size
  this happens to a directory that could have grown.
* `format_disk.c:193` names a field `fs.h` does not have. `:151` and `:164` round the
  inode blocks down: with fewer than 64 inodes the data blocks start at the
  inodes' block. `:187` says that a set bit is free and the code sets those in use.
  `:376-386` keep blocks 7 to 13 for the kernel only at the start of a file. A file
  of more than seven blocks runs over `direct_pointers` (`:387-390`). `:479` assigns
  where it means to subtract. A file whose last component is `kernel.bin` or begins with
  `prekernel.bin` gets that binary's number, in whatever directory it is (`:323-326`, `:378-382`), against the
  comment at `:324`, "we reserve inode 2 for prekernel": two files share an inode and the count of
  the first walk is one too high. The properties of `FormatDisk` except such trees. With 256 inodes and more the kernel's block 7 would lie on inodes.
* `initIDT` enables interrupts (`idt.c:56`) before the handlers are installed; only the
  masks of `pic_disable` keep them away. `PIC_remap` loses the masks from ICW1 to the
  bytes that restore them, so that it depends on handlers installed before and on ICW1 having
  dropped the disk's old requests. A key that is waiting or arrives while the master is initialised
  loses its edge (`disturbed`): the keyboard stays silent until it is reset; the
  properties except this case.
* `idt.c:50-53` take 256 entries of a table of 32 (`idt.s:56-62`): all vectors from 32 on
  lead nowhere until a handler is installed.
* The divider of the timer is 11931 (`kernel.c:84`), a tick in ten milliseconds; the
  comment above it says one.
* `kernel.c:412-415` map a frame at `user_stack`, but programs are started with the stack
  at `USER_STACK` (`global_addresses.h:11`): their stack pages come from page faults.
* `virtual_memory_manager.c:212` clears from seven bytes behind the table's start on, so that its
  first entry and three bytes of the second keep what the frame held. A program that accesses a page
  with such an entry in a table made on demand takes no fault and reaches the frame the leftover names. With
  a page of index 0 among `UserPages`, TLC finds it in `FramesAreOwn`; the run and the theorem have
  none (`UserPagesClear`).
* A page table whose frame lies in the hole that the prekernel unmaps, 1 to 4 MiB, is reached
  by a fault that maps another frame at its address: the entry goes there, `cr3` is
  reloaded, and the access faults again, until a table is found at both; the frames in between are lost
  (`FaultsAreResolved` shows that this ends). A table frame above the tables mapped so far needs
  a table for itself. A heap that grows for more than 18 pages would map pages over those through
  which the low tables are reached.

## 7. Abstractions

* `FramePool`: the processor's cached translations and the seven bytes by which
  `create_page_table` misses its table are `VirtMem`'s subject. A table's frame
  that lies outside the first 4 MiB is mapped at its own address through a directory entry that
  may need a table in turn; neither module has this.
* `VirtMem`: all memory lies behind the first directory entry, that is, below 4 MiB at the
  scale of the code; a frame is given out once, as `FramePool` shows for the frames
  of pages; programs do not touch pages of the kernel. `GrowHeap` stops before the pages through which
  tables are reached.
* `Console`: what the user types is letters and the tab, of which the run has one letter and the theorems any; what
  the shell prints is one text character and the control characters; colours are left out, and copying a cell
  in `scrollback` is one step. A line has at most the
  cells of all but two rows, so that backspace does not go beyond the top.
  `cat` may print a backspace of a file's contents; only the handler does here.
* `Interrupts`: spurious requests are left out, and the controllers' modes the code does not
  use. A tick arrives when the one before has been served. The timer's divider and counting are not
  modelled.
* `FormatDisk`: names stand for paths, with a last component that several may share; entries are files or directories, the bitmaps, which do not depend on the tree,
  are in `Vsfs`, and errors of the host end the program.
* `OpenFiles`: a system call is one step, and so are the calls the shell makes from the
  kernel, which nothing but the keyboard interrupts. New frames are zero.
  `syscall_wrappers.h` is not in the repository; the modes are those of
  `unistd.h`. The kernel's `bytes_to_blocks` is not either; its namesake in
  `format_disk.c` is used.
* `Heap`: links are positions in a sequence, and what callers write into their memory is
  left out, with it the destruction of headers described above. Sizes near 2^32, which wrap,
  are not asked for.
* `Vsfs`: the disk has as many files and directories as a block holds inodes less two, 62 in the code, each of one
  block: the formatter leaves its own inodes whole only if they fill their blocks (section 6), and a disk of
  more full blocks of inodes differs in the numbers only. The number `ReservedInodes` and the block
  `first_data_block + ReservedBlocks` are those of old files, not of a directory: if a directory has
  number 8, the second call makes a file of it. Nobody looks up the names inside the directory `old`. An inode written
  over the root's entry `.` leaves its number there, and nobody looks up ".". Files follow one another on the disk: the
  blocks 7 to 13 that the formatter keeps for the kernel are left to `FormatDisk`. Sizes of directories are
  counted in entries, pointers the runs do not reach are left out, and so are
  times and types. A path through two directories is not tried. Machines are taken to come up
  although bits of the boot block were set. Writes of a block are atomic.
* `LineInput`: one letter in two cases stands for all keys with a character.

## 8. Not modelled

The ATA driver: `rw_sectors` waits for the device's status bits and moves words between a port
and a buffer; it keeps no state and has no timeout or retry, and its promise, that
a sector is read or written, is a step of `Vsfs` and `OpenFiles`. The nesting of
shells: `sys_exit` calls `shell` on the stack of the system call, so that each program
leaves a frame there; what goes wrong is the stack's depth after thousands of programs.
The formatting of `kprintf`. The boot loaders and the assembly stubs are sequences of
BIOS calls and register moves without state of their own; the string and number
helpers are pure and called with constants; `elf.h` only declares. `build/` holds
generated files, `build/test.c` a program that prints.
