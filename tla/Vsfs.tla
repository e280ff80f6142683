-------------------------------- MODULE Vsfs --------------------------------
(***************************************************************************)
(* The file system on the disk and create_file, the only call that changes *)
(* its structure (kernel/fs/fs_commands.c), one action per write, with the *)
(* power lost between any two of them.  main (kernel/kernel.c) reads the   *)
(* superblock and the root inode again when the machine comes up.          *)
(*                                                                         *)
(* A block is a sequence of directory entries.  Sizes of directories are   *)
(* counted in entries.  The disk starts as format_disk.c leaves it when    *)
(* the inodes fill one block exactly: with fewer, the formatter puts the   *)
(* root's entries over the inodes, as it rounds the blocks of inodes down. *)
(* So the files of the disk are as many as a block of inodes can hold, and *)
(* the first number that create_file gives is one beyond that block.       *)
(* Times are left out, and so are single indirect blocks, which nobody     *)
(* uses, and the file's own block, which create_file does not write.       *)
(***************************************************************************)
EXTENDS Integers, Sequences, FiniteSets, FiniteSetsExt

CONSTANTS
    DIR_ENTRIES_PER_BLOCK,   \* 64 in the code
    first_data_block,        \* from the superblock
    ReservedInodes,          \* bits set in the inode bitmap's first word: 8
    ReservedBlocks,          \* and in the data bitmap's: 25
    BootEntries,             \* the entries of block 0 whose first word is 0
    Places,                  \* where paths lead: "relative", "/", directories
    Names,                   \* what users call the files they create
    MaxCalls, MaxCrashes     \* bounds: calls of create_file, power losses

ASSUME VsfsAssumption ==
    /\ DIR_ENTRIES_PER_BLOCK \in Nat
    /\ ReservedInodes \in 6 .. DIR_ENTRIES_PER_BLOCK - 1 /\ ReservedInodes < 32
    /\ ReservedBlocks \in 5 .. DIR_ENTRIES_PER_BLOCK - 2 /\ ReservedBlocks < 32
    /\ first_data_block \in Nat \ {0}
    /\ BootEntries \subseteq 1 .. DIR_ENTRIES_PER_BLOCK
    /\ "content" \notin Places              \* see Content below
    /\ Names \cap {".", "..", "content"} = {}
    /\ MaxCalls \in Nat /\ MaxCrashes \in Nat

VARIABLES
    block,          \* the contents of each block that is read as a directory
    inode,          \* the inodes on the disk
    disk_bits,      \* first_free_inode_bit and first_free_data_bit on the disk
    boot_bits,      \* the bits that were set in block 0
    superblock,     \* the same two numbers in memory
    root_inode, current_dir_inode,    \* two inodes in memory
    call,           \* the local variables of create_file
    pc,             \* the next write
    crashes,        \* history: how often the power was lost
    given           \* history: the number each call of create_file has given

disk == <<block, inode, disk_bits, boot_bits>>
memory == <<superblock, root_inode, current_dir_inode>>
vars == <<disk, memory, call, pc, crashes, given>>

(* An inode is as long as a directory entry.                               *)
INODES_PER_BLOCK == DIR_ENTRIES_PER_BLOCK

(* What the formatter makes of prekernel.bin, kernel.bin, a directory old  *)
(* and an empty directory sub in the root, with all the other files in     *)
(* old, each of one block.  Number 0 means no inode; the next ones are the *)
(* root's and those of the two binaries, and 4 and 5 the directories'.     *)
RootFiles == {"prekernel.bin", "kernel.bin", "old", "sub"}
num_files == INODES_PER_BLOCK - 2
num_inodes_without_root == num_files + 1
num_inodes == num_files + 2
Numbered == 1 .. num_files + 1
file_blocks == num_files + 1

(* The bitmaps, which nothing changes: the formatter sets some bits of the *)
(* first word, however many the files are, and all from the second word on.*)
BitmapBits == 0 .. 31
InodeBitmap == 0 .. ReservedInodes - 1
DataBitmap == 0 .. ReservedBlocks - 1

find_free_bit(bitmap) ==
    IF BitmapBits \subseteq bitmap THEN 0 ELSE Min(BitmapBits \ bitmap)

Slots == 1 .. DIR_ENTRIES_PER_BLOCK
Entry(i, name) == [i_number |-> i, name |-> name]
Empty == Entry(0, "")
Content == Entry(-1, "content")    \* what nobody reads as an entry, and not 0

EntriesFrom(entries) == [j \in Slots |-> IF j <= Len(entries) THEN entries[j] ELSE Empty]
RootEntries ==
    EntriesFrom(<<Entry(1, "."), Entry(1, ".."), Entry(2, "prekernel.bin"),
                  Entry(3, "kernel.bin"), Entry(4, "old"), Entry(5, "sub")>>)
SubEntries == EntriesFrom(<<Entry(5, "."), Entry(1, "..")>>)

Pointer == 0 .. 2    \* direct_pointers has seven; these are used
Inode(i, size, b) == [i_number |-> i, size |-> size, direct_pointers |-> [k \in Pointer |-> IF k = 0 THEN b ELSE 0]]
NoInode == Inode(0, 0, 0)

Inodes == 0 .. num_inodes + find_free_bit(InodeBitmap)
(* The blocks in use and those that create_file may ever choose: the first *)
(* free bit, to which the formatter has added the number of the first data *)
(* block, and afterwards that of the bitmap, a block in use.               *)
FirstNewBlock == first_data_block + (first_data_block + file_blocks)
BlockNumbers ==
    {0} \cup first_data_block .. first_data_block + file_blocks - 1
        \cup {FirstNewBlock, first_data_block + find_free_bit(DataBitmap)}

Formatted ==
    [i \in Inodes |->
        IF i \notin Numbered THEN NoInode
        ELSE Inode(i, CASE i = 1 -> 6 [] i = 4 -> num_files - 2 [] i = 5 -> 2 [] OTHER -> 1,
                   first_data_block + i - 1)]

FormattedBlocks ==
    [b \in BlockNumbers |->
        CASE b = 0 -> [j \in Slots |-> IF j \in BootEntries THEN Empty ELSE Content]
          [] b = first_data_block -> RootEntries
          [] b = first_data_block + 4 -> SubEntries
          [] b = FirstNewBlock -> [j \in Slots |-> Empty]
          [] OTHER -> [j \in Slots |-> Content]]

Bits(i, d) == [first_free_inode_bit |-> i, first_free_data_bit |-> d]

NoCall == [parent |-> NoInode, new |-> NoInode, name |-> ""]

Init ==
    /\ block = FormattedBlocks
    /\ inode = Formatted
    /\ disk_bits = Bits(num_inodes, first_data_block + file_blocks)
    /\ boot_bits = {}
    /\ superblock = disk_bits
    /\ root_inode = inode[1] /\ current_dir_inode = root_inode
    /\ call = NoCall
    /\ pc = "idle"
    /\ crashes = 0
    /\ given = <<>>
-----------------------------------------------------------------------------
bytes_to_blocks(size) == (size + DIR_ENTRIES_PER_BLOCK - 1) \div DIR_ENTRIES_PER_BLOCK

PointerAt(dir, k) == IF k \in Pointer THEN dir.direct_pointers[k] ELSE 0

(* The places of a directory's entries, in the order they are looked at.   *)
Before(p, q) == p[1] < q[1] \/ (p[1] = q[1] /\ p[2] < q[2])
PlacesOf(blocks) == (0 .. blocks - 1) \X Slots
At(dir, p) == block[PointerAt(dir, p[1])][p[2]]
FirstPlace(places) == CHOOSE p \in places : \A q \in places \ {p} : Before(p, q)

Matches(dir, name) ==
    {p \in PlacesOf(bytes_to_blocks(dir.size)) : At(dir, p).i_number # 0 /\ At(dir, p).name = name}

(* The inode number that get_inode_in_dir finds, 0 if there is none.       *)
NumberIn(dir, name) ==
    IF Matches(dir, name) = {} THEN 0 ELSE At(dir, FirstPlace(Matches(dir, name))).i_number

get_inode_in_dir(dir, name) ==
    IF NumberIn(dir, name) = 0 THEN NoInode ELSE inode[NumberIn(dir, name)]

(* A directory that cannot be found makes no difference to create_file: it *)
(* goes on with an inode that is all 0.                                    *)
get_parent_inode(place) ==
    CASE place = "relative" -> current_dir_inode
      [] place = "/" -> root_inode
      [] OTHER -> get_inode_in_dir(root_inode, place)

(* The place of the inode behind.                                          *)
update_inode_behind(record) ==
    inode' = [inode EXCEPT ![record.i_number + 1] = record] /\ UNCHANGED block

(* update_inode: the place on the disk follows from the number.  The first *)
(* place behind the block of inodes is the root's first entry, ".", where  *)
(* the number stays the first word.                                        *)
update_inode(record) ==
    /\ inode' = [inode EXCEPT ![record.i_number] = record]
    /\ block' = IF record.i_number = INODES_PER_BLOCK
                THEN [block EXCEPT ![first_data_block][1] = Entry(record.i_number, "content")]
                ELSE block

BlocksNow == bytes_to_blocks(call.parent.size)
BlocksThen == bytes_to_blocks(call.parent.size + 1)

(* A directory of two blocks does not grow.                                *)
Grows == BlocksThen > BlocksNow /\ BlocksNow < 2

UnusedBeforeGrowth == {p \in PlacesOf(BlocksNow) : At(call.parent, p).i_number = 0}

(* The first entry that is not in use, of the blocks the directory needs.  *)
Unused == {p \in PlacesOf(BlocksThen) : At(call.parent, p).i_number = 0}

GoTo(from, to) == pc = from /\ pc' = to

(* set_inode_bitmap and set_data_bitmap set a bit of block 0, not of the   *)
(* bitmaps, whose first free bits therefore stay the same.                 *)
set_bitmap(bit) == boot_bits' = boot_bits \cup {bit}

BeginGivingTheBitAgain(place, name) ==
    /\ GoTo("idle", "data_bitmap")
    /\ Len(given) < MaxCalls
    /\ LET number == superblock.first_free_inode_bit
       IN  /\ call' = [parent |-> get_parent_inode(place), new |-> Inode(number, DIR_ENTRIES_PER_BLOCK, 0),
                       name |-> name]
           /\ set_bitmap(number)
           /\ given' = Append(given, number)
    /\ UNCHANGED <<block, inode, disk_bits, memory, crashes>>

(* A new file has the size of a block.                                     *)
Begin(place, name) ==
    /\ GoTo("idle", "data_bitmap")
    /\ Len(given) < MaxCalls
    /\ LET number == superblock.first_free_inode_bit
       IN  /\ call' = [parent |-> get_parent_inode(place), new |-> Inode(number, DIR_ENTRIES_PER_BLOCK, 0),
                       name |-> name]
           /\ set_bitmap(number)
           /\ given' = Append(given, number)
    /\ superblock' = [superblock EXCEPT !.first_free_inode_bit = find_free_bit(InodeBitmap)]
    /\ UNCHANGED <<block, inode, disk_bits, root_inode, current_dir_inode, crashes>>

TakeBlock ==
    /\ GoTo("data_bitmap", "new_inode")
    /\ LET b == first_data_block + superblock.first_free_data_bit
       IN  /\ call' = [call EXCEPT !.new.direct_pointers[0] = b]
           /\ set_bitmap(b)
    /\ superblock' = [superblock EXCEPT !.first_free_data_bit = find_free_bit(DataBitmap)]
    /\ UNCHANGED <<block, inode, disk_bits, root_inode, current_dir_inode, crashes, given>>

WriteNewInode ==
    /\ pc = "new_inode" /\ pc' = IF Grows THEN "clear_block" ELSE "entry"
    /\ update_inode(call.new)
    /\ UNCHANGED <<disk_bits, boot_bits, memory, call, crashes, given>>

ClearBlockForFirstPointer ==
    /\ GoTo("clear_block", "parent")
    /\ LET b == first_data_block + superblock.first_free_data_bit
       IN  /\ call' = [call EXCEPT !.parent.direct_pointers[BlocksNow - 1] = b]
           /\ block' = [block EXCEPT ![b] = [j \in Slots |-> Empty]]
    /\ superblock' = [superblock EXCEPT !.first_free_data_bit = find_free_bit(DataBitmap)]
    /\ UNCHANGED <<inode, disk_bits, boot_bits, root_inode, current_dir_inode, crashes, given>>

(* The new block goes to the pointer behind the one that will be read, and *)
(* no bit says that it is in use.                                          *)
ClearBlock ==
    /\ GoTo("clear_block", "parent")
    /\ LET b == first_data_block + superblock.first_free_data_bit
       IN  /\ call' = [call EXCEPT !.parent.direct_pointers[BlocksThen] = b]
           /\ block' = [block EXCEPT ![b] = [j \in Slots |-> Empty]]
    /\ superblock' = [superblock EXCEPT !.first_free_data_bit = find_free_bit(DataBitmap)]
    /\ UNCHANGED <<inode, disk_bits, boot_bits, root_inode, current_dir_inode, crashes, given>>

WriteParent ==
    /\ GoTo("parent", "entry")
    /\ update_inode(call.parent)
    /\ UNCHANGED <<disk_bits, boot_bits, memory, call, crashes, given>>

(* A directory without an unused entry is left as it is, without an error. *)
WriteEntry ==
    /\ GoTo("entry", "size")
    /\ IF Unused = {} THEN UNCHANGED block
       ELSE LET p == FirstPlace(Unused)
            IN  block' = [block EXCEPT ![PointerAt(call.parent, p[1])][p[2]] =
                                           Entry(call.new.i_number, call.name)]
    /\ UNCHANGED <<inode, disk_bits, boot_bits, memory, call, crashes, given>>

Larger == [call.parent EXCEPT !.size = @ + 1]

WriteSizeKeepingRoot ==
    /\ GoTo("size", "superblock")
    /\ update_inode(Larger)
    /\ current_dir_inode' = IF current_dir_inode.i_number = Larger.i_number THEN Larger ELSE current_dir_inode
    /\ UNCHANGED <<disk_bits, boot_bits, superblock, root_inode, call, crashes, given>>

WriteSize ==
    /\ GoTo("size", "superblock")
    /\ update_inode(Larger)
    /\ current_dir_inode' = IF current_dir_inode.i_number = Larger.i_number THEN Larger ELSE current_dir_inode
    /\ root_inode' = IF root_inode.i_number = Larger.i_number THEN Larger ELSE root_inode
    /\ UNCHANGED <<disk_bits, boot_bits, superblock, call, crashes, given>>

update_superblock ==
    /\ GoTo("superblock", "idle")
    /\ disk_bits' = superblock
    /\ UNCHANGED <<block, inode, boot_bits, memory, call, crashes, given>>

create_file ==
    \/ \E place \in Places, name \in Names : Begin(place, name)
    \/ TakeBlock \/ WriteNewInode \/ ClearBlock \/ WriteParent
    \/ WriteEntry \/ WriteSize \/ update_superblock

(* The power is lost and the machine comes up again.                       *)
PowerLoss ==
    /\ crashes < MaxCrashes /\ crashes' = crashes + 1
    /\ superblock' = disk_bits
    /\ root_inode' = inode[1] /\ current_dir_inode' = inode[1]
    /\ call' = NoCall
    /\ pc' = "idle"
    /\ UNCHANGED <<disk, given>>

Next == create_file \/ PowerLoss

Spec == Init /\ [][Next]_vars
-----------------------------------------------------------------------------
Writes == {"data_bitmap", "new_inode", "clear_block", "parent", "entry", "size", "superblock"}

EntryNames == {"", ".", "..", "content"} \cup RootFiles \cup Names
EntryType == [i_number : Inodes \cup {-1}, name : EntryNames]
InodeType == [i_number : Inodes, size : Nat, direct_pointers : [Pointer -> BlockNumbers]]

TypeOK ==
    /\ DOMAIN block = BlockNumbers
    /\ \A b \in BlockNumbers, j \in Slots : block[b][j] \in EntryType
    /\ inode \in [Inodes -> InodeType]
    /\ \A bits \in {disk_bits, superblock} : bits.first_free_inode_bit \in Nat /\ bits.first_free_data_bit \in Nat
    /\ boot_bits \subseteq Nat
    /\ root_inode \in InodeType /\ current_dir_inode \in InodeType
    /\ call.parent \in InodeType /\ call.new \in InodeType
    /\ pc \in Writes \cup {"idle"}
    /\ crashes \in 0 .. MaxCrashes
    /\ given \in Seq(Inodes)

(* How a disk is used, of which the theorems of VsfsProofs speak.  Nobody  *)
(* takes a file for a directory; a directory stays within two blocks, 122  *)
(* files in the code, as the third of every directory is the same; and the *)
(* entries of block 0 that are 0 are enough for those that do not fit in a *)
(* directory's own block.                                                  *)
PlacesAreDirectories == Places \cap (Names \cup (RootFiles \ {"sub"})) = {}
TwoBlocksSuffice == MaxCalls + 6 <= 2 * DIR_ENTRIES_PER_BLOCK
BootBlockHasRoom == MaxCalls <= DIR_ENTRIES_PER_BLOCK - 6 + Cardinality(BootEntries)

(* What a path of the disk leads to.                                       *)
Directories == {1, 5}
Paths == Directories \X (RootFiles \cup Names)
Lookup(path) == NumberIn(inode[path[1]], path[2])

(* Wherever the power is lost, an entry that can be found leads to an      *)
(* inode that has been written: create_file writes the inode first.        *)
EntriesLeadToInodes ==
    TypeOK /\ \A path \in Paths : Lookup(path) # 0 => inode[Lookup(path)].i_number = Lookup(path)

(* A name that leads to a file leads to it for ever, whatever is created   *)
(* afterwards, in a directory that grows too, and wherever the power goes. *)
NamesAreKept ==
    [][\A path \in Paths : Lookup(path) # 0 => Lookup(path)' = Lookup(path)]_vars

(* However many calls of create_file there are, whole or cut short, they   *)
(* take one inode and one block at most from what was on the disk: those   *)
(* of the bitmaps' first free bits, the inode not before the second call.  *)
Others == Numbered \ Directories
OldFilesKept ==
    /\ \A i \in Others : inode[i] # Formatted[i] => i = ReservedInodes /\ Len(given) > 1
    /\ \A i \in Directories : inode[i].i_number = i /\ inode[i].direct_pointers[0] = Formatted[i].direct_pointers[0]
    /\ \A i \in Others :
        LET b == Formatted[i].direct_pointers[0]
        IN  b # first_data_block + ReservedBlocks => block[b] = FormattedBlocks[b]

(* Between calls the inodes and the superblock in memory are those on the  *)
(* disk, so that the next call and get_inode start from what is there.     *)
CachesAgreeWithDisk ==
    pc = "idle" => /\ superblock = disk_bits
                   /\ root_inode = inode[1] /\ current_dir_inode = inode[1]

(* As long as the power has not been lost, a call that returns has created *)
(* its file: the path can be looked up unless its directory does not exist.*)
(* (After a loss between an entry and the size that counts it, a directory *)
(* may be full at a size that does not make it grow; the entry is lost.)   *)
CreatedFileIsFound ==
    pc = "idle" /\ crashes = 0 /\ call.parent.i_number # 0 =>
        Lookup(<<call.parent.i_number, call.name>>) # 0

(* Without a loss of power the first file that is created stays apart from *)
(* all others, whatever is created after it: nobody else has its number,   *)
(* no inode points to its block, and its inode, which lies among the       *)
(* root's entries, is not written over by an entry.                        *)
FirstFileStaysApart ==
    pc = "idle" /\ crashes = 0 /\ Len(given) > 0 =>
        LET number == given[1]
            b == inode[number].direct_pointers[0]
        IN  /\ number \notin Numbered /\ inode[number].i_number = number
            /\ \A k \in 2 .. Len(given) : given[k] # number
            /\ \A i \in Inodes \ {number}, k \in Pointer : inode[i].direct_pointers[k] # b
            /\ block[first_data_block][1].i_number = number
=============================================================================
