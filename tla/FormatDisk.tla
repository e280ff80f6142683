----------------------------- MODULE FormatDisk -----------------------------
(***************************************************************************)
(* format_disk.c, which makes the disk image from a directory on the host: *)
(* a first walk counts files and blocks, write_superblock lays the disk    *)
(* out by these counts, and a second walk, write_file_data, gives out      *)
(* inode numbers and blocks, keeping some blocks for the kernel on the way. *)
(* Layout and walk must agree without having looked at one another.        *)
(*                                                                         *)
(* Which inode and blocks a file gets is modelled, contents are not.  Both *)
(* binaries are in the tree, as the Makefile sees to, and files have at    *)
(* most as many blocks as an inode has pointers.  Host errors, which end   *)
(* the program, are left out.                                              *)
(***************************************************************************)
EXTENDS Integers, Sequences, FiniteSets

CONSTANTS
    INODES_PER_BLOCK,        \* 64 in the code
    DIR_ENTRIES_PER_BLOCK,   \* 64 in the code
    PrekernelNames,          \* the d_names whose first 13 characters are "prekernel.bin"
    Trees                    \* trees: [entries : directory -> names in readdir's order,
                             \*         blocks : file -> bytes_to_blocks of its size,
                             \*         d_name : name -> the last component of its path]

Pointers == 7                \* of an inode
KernelBlock == 7             \* the block the loader expects kernel.bin at
Reserved == 7                \* the blocks kept for it
Root == "build/bin"
Binaries == {"prekernel.bin", "kernel.bin"}

ASSUME BlocksAssumption ==
    INODES_PER_BLOCK \in Nat \ {0} /\ DIR_ENTRIES_PER_BLOCK \in Nat \ {0}
ASSUME NamesAssumption == "prekernel.bin" \in PrekernelNames /\ "kernel.bin" \notin PrekernelNames

(* A directory of the host.  Names stand for paths: each but the root's is *)
(* one entry of one directory, and following the entries from the root     *)
(* reaches them all.  readdir shows the last component of a path, which    *)
(* another path may have too.                                              *)
Names(t) == DOMAIN t.entries \cup DOMAIN t.blocks
OneEntryEach(t) ==
    /\ \A d, e \in DOMAIN t.entries : \A i \in DOMAIN t.entries[d], j \in DOMAIN t.entries[e] :
         t.entries[d][i] = t.entries[e][j] => d = e /\ i = j
    /\ \A n \in Names(t) \ {Root} : \E d \in DOMAIN t.entries : \E i \in DOMAIN t.entries[d] :
         n = t.entries[d][i]
ReachedFromRoot(t) ==
    \A S \in SUBSET DOMAIN t.entries :
        /\ Root \in S
        /\ \A d \in S : \A i \in DOMAIN t.entries[d] :
             t.entries[d][i] \in DOMAIN t.entries => t.entries[d][i] \in S
        => S = DOMAIN t.entries

IsTree(t) ==
    /\ IsFiniteSet(DOMAIN t.entries) /\ IsFiniteSet(DOMAIN t.blocks)
    /\ DOMAIN t.entries \cap DOMAIN t.blocks = {}
    /\ Root \in DOMAIN t.entries /\ Binaries \subseteq DOMAIN t.blocks
    /\ t.entries \in [DOMAIN t.entries -> Seq(Names(t) \ {Root})]
    /\ t.blocks \in [DOMAIN t.blocks -> 0 .. Pointers]
    /\ \A b \in Binaries : t.d_name[b] = b
    /\ OneEntryEach(t) /\ ReachedFromRoot(t)

(* Nothing else in the tree has a name that the code takes for a binary's. *)
OnlyBinaries(t) ==
    \A n \in Names(t) \ {Root} :
        /\ t.d_name[n] \in PrekernelNames => n = "prekernel.bin"
        /\ t.d_name[n] = "kernel.bin" => n = "kernel.bin"

ASSUME TreesAssumption == \A t \in Trees : IsTree(t)

VARIABLES
    tree,            \* the directory that becomes the disk
    num_files, file_blocks,
    superblock,
    first_block,     \* the next block to give out
    next_inode_id,   \* the next number
    stack,           \* the calls of write_file_data: the directory, its number, entries done
    placed,          \* what has an inode: name, number, kind and blocks
    pc

vars == <<tree, num_files, file_blocks, superblock, first_block, next_inode_id, stack, placed, pc>>

NoSuperblock == [num_inodes |-> 0, first_inode_block |-> 0, first_data_block |-> 0,
                 first_free_inode_bit |-> 0, first_free_data_bit |-> 0]

Init ==
    /\ tree \in Trees
    /\ num_files = 0 /\ file_blocks = 0
    /\ superblock = NoSuperblock
    /\ first_block = 0 /\ next_inode_id = 4
    /\ stack = <<>> /\ placed = {}
    /\ pc = "get_file_info"

Directories == DOMAIN tree.entries
bytes_to_blocks(entries) == (entries + DIR_ENTRIES_PER_BLOCK - 1) \div DIR_ENTRIES_PER_BLOCK
(* "." and ".." have entries too.                                          *)
DirBlocks(d) == bytes_to_blocks(Len(tree.entries[d]) + 2)
-----------------------------------------------------------------------------
(* What the first walk counts: the entries of all directories, the blocks  *)
(* of all files and those of all directories.                              *)
EntriesOfTree == UNION {{d} \X DOMAIN tree.entries[d] : d \in Directories}
FileBlocks == UNION {{f} \X (1 .. tree.blocks[f]) : f \in DOMAIN tree.blocks}
BlocksOfFilesOnly == FileBlocks
BlocksOfTree == FileBlocks \cup UNION {{d} \X (1 .. DirBlocks(d)) : d \in Directories}

get_file_info ==
    /\ pc = "get_file_info" /\ pc' = "write_superblock"
    /\ num_files' = Cardinality(EntriesOfTree)
    /\ file_blocks' = Cardinality(BlocksOfTree)
    /\ UNCHANGED <<tree, superblock, first_block, next_inode_id, stack, placed>>

(* Inode 0, which is invalid, and the root's are not among the files.      *)
InodesOfDisk == num_files + 2

(* The boot block, the superblock and one block of either bitmap, which    *)
(* suffices for a disk of 360 blocks, come first.                          *)
write_superblock ==
    /\ pc = "write_superblock" /\ pc' = "write_file_data"
    /\ LET first_data_block == 4 + InodesOfDisk \div INODES_PER_BLOCK
       IN  /\ superblock' = [num_inodes |-> InodesOfDisk,
                             first_inode_block |-> 4,
                             first_data_block |-> first_data_block,
                             first_free_inode_bit |-> InodesOfDisk,
                             first_free_data_bit |-> first_data_block + file_blocks]
           /\ first_block' = first_data_block
    /\ UNCHANGED <<tree, num_files, file_blocks, next_inode_id, stack, placed>>
-----------------------------------------------------------------------------
Place(name, number, kind, first, count) ==
    placed' = placed \cup
        {[name |-> name, i_number |-> number, kind |-> kind, blocks |-> first .. first + count - 1]}

(* A call of write_file_data up to its loop.                               *)
EnterDirectory(d, number) ==
    /\ stack' = Append(stack, [dir |-> d, done |-> 0])
    /\ Place(d, number, "directory", first_block, DirBlocks(d))
    /\ first_block' = first_block + DirBlocks(d)

EnterRoot ==
    /\ pc = "write_file_data" /\ stack = <<>>
    /\ EnterDirectory(Root, 1)
    /\ pc' = "entries"
    /\ UNCHANGED <<tree, num_files, file_blocks, superblock, next_inode_id>>

Top == stack[Len(stack)]
More == pc = "entries" /\ Top.done < Len(tree.entries[Top.dir])
Current == tree.entries[Top.dir][Top.done + 1]
Counted == [stack EXCEPT ![Len(stack)].done = @ + 1]

(* strncmp with a length of 13 compares a beginning, with 11 all.          *)
IsPrekernel(name) == tree.d_name[name] \in PrekernelNames
IsKernel(name) == tree.d_name[name] = "kernel.bin"

NumberFromCounter(name) == next_inode_id
Number(name) ==
    CASE IsPrekernel(name) -> 2
      [] IsKernel(name) -> 3
      [] OTHER -> next_inode_id
CountNumber ==
    next_inode_id' = IF IsPrekernel(Current) \/ IsKernel(Current) THEN next_inode_id
                     ELSE next_inode_id + 1

(* Where a file starts, and where the next one does.                       *)
Start(name) ==
    IF IsKernel(name) THEN KernelBlock
    ELSE IF first_block \in KernelBlock .. KernelBlock + Reserved - 1 THEN first_block + Reserved
    ELSE first_block
KernelNotPutBack(name) == Start(name) + tree.blocks[name]
Following(name) ==
    IF IsKernel(name) THEN first_block ELSE Start(name) + tree.blocks[name]

AddFile ==
    /\ More /\ Current \notin Directories
    /\ Place(Current, Number(Current), "file", Start(Current), tree.blocks[Current])
    /\ first_block' = Following(Current)
    /\ CountNumber
    /\ stack' = Counted
    /\ UNCHANGED <<tree, num_files, file_blocks, superblock, pc>>

AddDirectory ==
    /\ More /\ Current \in Directories
    /\ Place(Current, Number(Current), "directory", first_block, DirBlocks(Current))
    /\ first_block' = first_block + DirBlocks(Current)
    /\ CountNumber
    /\ stack' = Append(Counted, [dir |-> Current, done |-> 0])
    /\ UNCHANGED <<tree, num_files, file_blocks, superblock, pc>>

LeaveDirectory ==
    /\ pc = "entries" /\ ~More
    /\ stack' = SubSeq(stack, 1, Len(stack) - 1)
    /\ pc' = IF Len(stack) = 1 THEN "formatted" ELSE pc
    /\ UNCHANGED <<tree, num_files, file_blocks, superblock, first_block, next_inode_id, placed>>

Next ==
    get_file_info \/ write_superblock \/ EnterRoot \/ AddFile \/ AddDirectory \/ LeaveDirectory

Spec == Init /\ [][Next]_vars
-----------------------------------------------------------------------------
TypeOK ==
    /\ num_files \in Nat /\ file_blocks \in Nat
    /\ superblock \in [num_inodes : Nat, first_inode_block : Nat, first_data_block : Nat,
                       first_free_inode_bit : Nat, first_free_data_bit : Nat]
    /\ first_block \in Nat /\ next_inode_id \in Nat
    /\ stack \in Seq([dir : Directories, done : Nat])
    /\ \A p \in placed : p.i_number \in Nat /\ p.kind \in {"file", "directory"} /\ p.blocks \subseteq Nat
    /\ pc \in {"get_file_info", "write_superblock", "write_file_data", "entries", "formatted"}

(* If only the binaries have their names, the numbers the second walk      *)
(* gives out are all different, and the superblock, written before, offers *)
(* create_file the one that follows.                                       *)
NumbersAgree ==
    pc = "formatted" /\ OnlyBinaries(tree) =>
        /\ {p.i_number : p \in placed} = 1 .. superblock.first_free_inode_bit - 1
        /\ Cardinality(placed) = superblock.first_free_inode_bit - 1

(* If only the binaries have their names, two files share a block only     *)
(* where the code keeps none free for the kernel: if something starts      *)
(* below its blocks and runs into them, or a directory is put there.       *)
BlocksApart ==
    /\ TypeOK
    /\ OnlyBinaries(tree) => \A p, q \in placed :
         p # q /\ p.blocks \cap q.blocks # {} =>
             \E kernel \in {p, q} :
                 /\ kernel.name = "kernel.bin"
                 /\ \E o \in {p, q} \ {kernel} : o.kind = "directory" \/ \E b \in o.blocks : b < KernelBlock

(* The block create_file takes first, which the superblock knows from the  *)
(* count of the first walk, is not one the second walk has given out,      *)
(* although that has passed over blocks that nobody counted - unless the   *)
(* kernel is so small that most of these stay empty, or there are more     *)
(* files of its name, which are counted and all put over one another.      *)
FirstNewBlockIsFree ==
    /\ pc = "formatted" /\ OnlyBinaries(tree)
    /\ superblock.first_data_block + tree.blocks["kernel.bin"] >= KernelBlock
    => \A p \in placed : superblock.first_data_block + superblock.first_free_data_bit \notin p.blocks
=============================================================================
