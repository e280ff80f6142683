----------------------------- MODULE OpenFiles ------------------------------
(***************************************************************************)
(* The open file tables and the calls open, close, write and read          *)
(* (kernel/interrupts/syscalls.c), with load_file, save_file and           *)
(* update_inode (kernel/fs/fs_commands.c).  No interrupt handler touches   *)
(* this state, so that a call is one step; its callers are the shell and   *)
(* the programs it starts, in any order the constants below allow.         *)
(*                                                                         *)
(* The contents of a page are named after the disk block they belong to:   *)
(* loading, saving and writing move these names.  Addresses above          *)
(* 0x40000000 are counted in pages, offsets into a file in bytes.  Left    *)
(* out: the frames behind the pages (FramePool), current_open_files,       *)
(* current_open_inodes and the inodes' max_count, which nobody reads, and  *)
(* max_count of a file entry, which is 1 from open to close.               *)
(***************************************************************************)
EXTENDS Integers, FiniteSets, FiniteSetsExt

CONSTANTS
    Files, Missing,      \* paths of files on the disk, and one of no file
    InitialSize,         \* size each file was created with, in bytes
    PAGE_SIZE,           \* bytes of a page and of a block: 4096 in the code
    WORD,                \* bytes of a uint32_t, the unit of open_file.address
    Flags,               \* the flags callers pass to open
    Lengths,             \* the lengths callers pass to read and write
    Offsets,             \* what the uninitialized offset of load_file and
                         \* save_file may hold, in pages
    MaxOpen,             \* bound: entries of a table in use, 256 in the code
    MaxPages,            \* bound: pages handed out at file_virtual_address
    MayReopen,           \* whether a file is opened while it is open
    OneTransfer          \* whether a descriptor makes one transfer only

NoFile == "no_file"

ASSUME SizesAssumption ==
    /\ Missing \notin Files /\ NoFile \notin Files
    /\ InitialSize \in [Files -> Nat]
    /\ PAGE_SIZE \in Nat \ {0} /\ WORD \in Nat \ {0}
ASSUME UseAssumption ==
    /\ Flags \subseteq 0 .. 7 /\ Lengths \subseteq Nat \ {0} /\ Offsets \subseteq Nat
    /\ MaxOpen \in Nat \ {0} /\ MaxPages \in Nat
    /\ MayReopen \in BOOLEAN /\ OneTransfer \in BOOLEAN

VARIABLES
    files,                  \* open_file_table
    inodes,                 \* open_inode_table
    file_virtual_address,   \* the next page that is mapped for a file
    area,                   \* the contents of each page from 0x40000000 on
    disk,                   \* the contents of each block of the disk
    disk_size,              \* the sizes in the inodes on the disk
    granted,                \* history: <<path, descriptor>> of an open that has just returned
    right,                  \* history: a read that has just returned had the right bytes
    alone                   \* history: no two descriptors were ever open together

vars == <<files, inodes, file_virtual_address, area, disk, disk_size, granted, right, alone>>

O_CREAT == 0
O_RDONLY == 1
O_WRONLY == 2
O_RDWR == 3
O_APPEND == 4

(* flags & o # 0 *)
Has(flags, o) == \E b \in {1, 2, 4} : (flags \div b) % 2 = 1 /\ (o \div b) % 2 = 1

BootBlock == <<"boot_block">>    \* block 0, where unused direct pointers point
Blank == <<"blank">>             \* what a new frame holds
Unmapped == <<"unmapped">>

bytes_to_blocks(bytes) == (bytes + PAGE_SIZE - 1) \div PAGE_SIZE
PagesRoundedDown(size) == Max({1, size \div PAGE_SIZE})
PagesOf(size) == Max({1, bytes_to_blocks(size)})

(* The blocks a file has are those its first size asks for: create_file    *)
(* makes a file of one block with one block, and the formatter gives a     *)
(* file of the host as many as it fills, an empty one none.  No call adds  *)
(* a block later.                                                          *)
DiskBlocks(f) == bytes_to_blocks(InitialSize[f])
Block(f, k) == IF f \in Files /\ k < DiskBlocks(f) THEN <<f, k>> ELSE BootBlock
Blocks == {BootBlock} \cup UNION {{<<f, k>> : k \in 0 .. DiskBlocks(f) - 1} : f \in Files}
(* The last bytes of a file may have no block of their own.                *)
Contents == Blocks \cup {Blank} \cup (Files \X (0 .. MaxPages))

Pages == 1 .. MaxPages
Slots == 0 .. MaxOpen - 1
TableIndices == 0 .. 2 * MaxOpen - 1    \* sys_open looks beyond Slots

FreeInode == [i_number |-> NoFile, size |-> 0]
FreeFile == [inode_index |-> 0, lseek |-> 0, address |-> 0, flags |-> 0, pages_allocated |-> 0]

IsOpen(d) == files[d].address # 0
InodeOf(d) == inodes[files[d].inode_index]

Init ==
    /\ files = [d \in Slots |-> FreeFile]
    /\ inodes = [x \in TableIndices |-> FreeInode]
    /\ file_virtual_address = 1
    /\ area = [p \in Pages |-> Unmapped]
    /\ disk = [b \in Blocks |-> b]
    /\ disk_size = InitialSize
    /\ granted = <<>> /\ right = TRUE
    /\ alone = TRUE

Returned == granted' = <<>> /\ right' = TRUE
-----------------------------------------------------------------------------
(* Memory and disk.                                                        *)

Filled(mem, first, n) == [p \in Pages |-> IF p \in first .. first + n - 1 THEN Blank ELSE mem[p]]

load_full_blocks(mem, inode, address, offset) ==
    LET at(k) == address + offset + k
        read == {k \in 0 .. inode.size \div PAGE_SIZE - 1 : at(k) \in Pages}
    IN  [p \in Pages |-> IF \E k \in read : p = at(k)
                         THEN disk[Block(inode.i_number, p - address - offset)]
                         ELSE mem[p]]

load_file(mem, inode, address, offset) ==
    LET at(k) == address + offset + k
        read == {k \in 0 .. bytes_to_blocks(inode.size) - 1 : at(k) \in Pages}
    IN  [p \in Pages |-> IF \E k \in read : p = at(k)
                         THEN disk[Block(inode.i_number, p - address - offset)]
                         ELSE mem[p]]

save_one_more(mem, inode, address, offset) ==
    LET saved(b) == {k \in 0 .. bytes_to_blocks(inode.size) : Block(inode.i_number, k) = b}
        held(p) == IF p \in Pages /\ mem[p] # Unmapped THEN mem[p] ELSE Blank
    IN  [b \in Blocks |-> IF saved(b) = {} THEN disk[b] ELSE held(address + offset + Max(saved(b)))]

(* Page by page in order: of two that go to one block the last one stays.  *)
save_file(mem, inode, address, offset) ==
    LET saved(b) == {k \in 0 .. bytes_to_blocks(inode.size) - 1 : Block(inode.i_number, k) = b}
        held(p) == IF p \in Pages /\ mem[p] # Unmapped THEN mem[p] ELSE Blank
    IN  [b \in Blocks |-> IF saved(b) = {} THEN disk[b] ELSE held(address + offset + Max(saved(b)))]

update_inode(inode) ==
    [f \in Files |-> IF f = inode.i_number THEN inode.size ELSE disk_size[f]]

(* The pages that hold n bytes from byte start behind page address; a page *)
(* that is not mapped is mapped by the fault.                              *)
Touched(address, start, n) ==
    {p \in Pages : n > 0 /\ p \in address + start \div PAGE_SIZE .. address + (start + n - 1) \div PAGE_SIZE}

(* memset and memcpy to a page change whose contents it holds, unless they *)
(* are the file's own: zeroes go behind the end of the file.               *)
Zeroed(mem, f, touched) ==
    [p \in Pages |-> IF p \in touched /\ mem[p] \notin {f} \X (0 .. MaxPages) THEN Blank ELSE mem[p]]

(* Byte lseek + j of f goes to byte start + j behind address.              *)
Copied(mem, f, address, start, lseek, n) ==
    LET firstByte(p) == Max({0, (p - address) * PAGE_SIZE - start})
    IN  [p \in Pages |-> IF p \in Touched(address, start, n)
                         THEN IF f = NoFile THEN Blank
                              ELSE <<f, (lseek + firstByte(p)) \div PAGE_SIZE>>
                         ELSE mem[p]]
-----------------------------------------------------------------------------
FreeInodeSlot == Min({x \in TableIndices : inodes[x].i_number = NoFile})
(* The entry of the inode, or the first free one.                          *)
InodeIndex(f) ==
    IF \E x \in Slots : inodes[x].i_number = f
    THEN CHOOSE x \in Slots : inodes[x].i_number = f
    ELSE FreeInodeSlot
BehindLastFile == IF \E d \in Slots : IsOpen(d) THEN 1 + Max({d \in Slots : IsOpen(d)}) ELSE 0
FileIndex == Min({d \in Slots : ~IsOpen(d)})

NewEntry(x, address, flags, n) ==
    [inode_index |-> x, lseek |-> 0, address |-> address, flags |-> flags, pages_allocated |-> n]

(* create_file would be called if flags & O_CREAT were ever other than 0.  *)
CreatesFile(flags) == Has(flags, O_CREAT)

OpenFails(path, flags) ==
    /\ path \notin Files /\ ~CreatesFile(flags)
    /\ Returned
    /\ UNCHANGED <<files, inodes, file_virtual_address, area, disk, disk_size, alone>>

(* temp points to the inode's entry when the code indexes it once more by  *)
(* inode_index: size and pointers come from entry 2 * index of the table.  *)
OpenFile(path, flags) ==
    /\ path \in Files
    /\ \E d \in Slots : ~IsOpen(d)
    /\ MayReopen \/ \A x \in Slots : inodes[x].i_number # path
    /\ LET index == InodeIndex(path)
           table == IF inodes[index].i_number = path THEN inodes
                    ELSE [inodes EXCEPT ![index] = [i_number |-> path, size |-> disk_size[path]]]
           inode == table[2 * index]
           n == PagesOf(inode.size)
           address == file_virtual_address
       IN  /\ index \in Slots
           /\ address + n - 1 <= MaxPages
           /\ inodes' = table
           /\ files' = [files EXCEPT ![FileIndex] = NewEntry(index, address, flags, n)]
           /\ file_virtual_address' = address + n
           /\ \E offset \in Offsets :
                area' = load_file(Filled(area, address, n), inode, address, offset)
           /\ granted' = <<path, index>> /\ right' = TRUE
           /\ alone' = (alone /\ \A d \in Slots : ~IsOpen(d))
    /\ UNCHANGED <<disk, disk_size>>

sys_open(path, flags) == OpenFails(path, flags) \/ OpenFile(path, flags)

Refused ==
    /\ Returned
    /\ UNCHANGED <<files, inodes, file_virtual_address, area, disk, disk_size, alone>>

CloseKeepingInode(d) ==
    IF InodeOf(d).i_number = NoFile \/ ~IsOpen(d) THEN Refused
    ELSE /\ area' = [p \in Pages |-> IF p \in files[d].address ..
                                              files[d].address + PagesOf(InodeOf(d).size) - 1
                                     THEN Unmapped ELSE area[p]]
         /\ files' = [files EXCEPT ![d] = FreeFile]
         /\ Returned
         /\ UNCHANGED <<inodes, file_virtual_address, disk, disk_size, alone>>

sys_close(d) ==
    IF InodeOf(d).i_number = NoFile \/ ~IsOpen(d) THEN Refused
    ELSE /\ area' = [p \in Pages |-> IF p \in files[d].address ..
                                              files[d].address + PagesOf(InodeOf(d).size) - 1
                                     THEN Unmapped ELSE area[p]]
         /\ inodes' = [inodes EXCEPT ![files[d].inode_index] = FreeInode]
         /\ files' = [files EXCEPT ![d] = FreeFile]
         /\ Returned
         /\ UNCHANGED <<file_virtual_address, disk, disk_size, alone>>
-----------------------------------------------------------------------------
MayWrite(flags) == Has(flags, O_WRONLY) \/ Has(flags, O_RDWR)
MayRead(flags) == ~Has(flags, O_WRONLY)

(* The pages sys_write adds for len bytes at lseek.  The subtraction is    *)
(* unsigned: a difference below zero asks for a million pages, which is    *)
(* beyond MaxPages and where the model stops, see Write and Read.          *)
Missed(e, lseek, len, size) ==
    IF lseek + len > e.pages_allocated * PAGE_SIZE THEN lseek + len - size ELSE 0
Runaway(e, lseek, len, size) ==
    lseek + len > e.pages_allocated * PAGE_SIZE /\ lseek + len < size
Growth(e, lseek, len, size) ==
    IF lseek + len > e.pages_allocated * PAGE_SIZE THEN PagesOf(lseek + len - size) ELSE 0

(* address is a uint32_t*: adding an offset to it adds WORD times as many  *)
(* bytes.                                                                  *)
PlaceOf(offset) == WORD * offset

Write(d, len) ==
    LET e == files[d]
        inode == InodeOf(d)
        lseek == IF Has(e.flags, O_APPEND) THEN inode.size ELSE e.lseek
        n == Growth(e, lseek, len, inode.size)
        grown == [inode EXCEPT !.size = Max({inode.size, lseek + len})]
        zeroed == Zeroed(Filled(area, file_virtual_address, n), inode.i_number,
                         Touched(e.address, PlaceOf(inode.size), Missed(e, lseek, len, inode.size)))
        mem == Copied(zeroed, inode.i_number, e.address, PlaceOf(lseek), lseek, len)
    IN  /\ MayWrite(e.flags)
        /\ ~Runaway(e, lseek, len, inode.size)
        /\ OneTransfer => lseek = 0
        /\ file_virtual_address + n - 1 <= MaxPages
        /\ area' = mem
        /\ file_virtual_address' = file_virtual_address + n
        /\ files' = [files EXCEPT ![d].lseek = lseek + len, ![d].pages_allocated = @ + n]
        /\ inodes' = [inodes EXCEPT ![e.inode_index] = grown]
        /\ disk_size' = update_inode(grown)
        /\ \E offset \in Offsets : disk' = save_file(mem, grown, e.address, offset)
        /\ Returned
        /\ UNCHANGED alone

sys_write(d, len) == Write(d, len) \/ (~MayWrite(files[d].flags) /\ Refused)

ReadCount(size, lseek, len) == IF size < lseek + len THEN size - lseek ELSE len

Read(d, len) ==
    LET e == files[d]
        f == InodeOf(d).i_number
        n == ReadCount(InodeOf(d).size, e.lseek, len)
        page(j) == e.address + (PlaceOf(e.lseek) + j) \div PAGE_SIZE
    IN  /\ IsOpen(d) /\ MayRead(e.flags)
        /\ OneTransfer => e.lseek = 0
        /\ n >= 0
        /\ files' = [files EXCEPT ![d].lseek = @ + n]
        /\ area' = [p \in Pages |-> IF p \in Touched(e.address, PlaceOf(e.lseek), n) /\ area[p] = Unmapped
                                    THEN Blank ELSE area[p]]
        /\ granted' = <<>>
        /\ right' = \A j \in 0 .. n - 1 :
                       page(j) \in Pages /\ area[page(j)] = <<f, (e.lseek + j) \div PAGE_SIZE>>
        /\ UNCHANGED <<inodes, file_virtual_address, disk, disk_size, alone>>

sys_read(d, len) ==
    Read(d, len) \/ (~(IsOpen(d) /\ MayRead(files[d].flags)) /\ Refused)

Next ==
    \/ \E path \in Files \cup {Missing}, flags \in Flags : sys_open(path, flags)
    \/ \E d \in Slots : sys_close(d)
    \/ \E d \in Slots, len \in Lengths : sys_write(d, len) \/ sys_read(d, len)

Spec == Init /\ [][Next]_vars
-----------------------------------------------------------------------------
TypeOK ==
    /\ files \in [Slots -> [inode_index : Slots, lseek : Nat, address : 0 .. MaxPages,
                           flags : 0 .. 7, pages_allocated : Nat]]
    /\ inodes \in [TableIndices -> [i_number : Files \cup {NoFile}, size : Nat]]
    /\ file_virtual_address \in 1 .. MaxPages + 1
    /\ area \in [Pages -> Contents \cup {Unmapped}]
    /\ disk \in [Blocks -> Contents]
    /\ disk_size \in [Files -> Nat]

(* The descriptor that open has just returned names the file it was opened *)
(* for: the entry at that index of open_file_table belongs to the inode.   *)
DescriptorNamesFile ==
    granted # <<>> => IsOpen(granted[2]) /\ InodeOf(granted[2]).i_number = granted[1]

(* Callers that never open a file twice see descriptors that name what     *)
(* they were opened for until they are closed: Descriptors.                *)
Table == INSTANCE Descriptors WITH
    Descriptor <- Slots,
    table <- [d \in Slots |-> IF IsOpen(d) THEN InodeOf(d).i_number ELSE NoFile]
ImplementsDescriptors == Table!DescriptorSpec

(* As long as no file is opened twice, the two tables stay in step: the    *)
(* entry of the file table that a descriptor selects is open exactly when  *)
(* the inode at that index is in use, and belongs to it.                   *)
TablesInStep ==
    /\ TypeOK
    /\ \A d \in Slots : /\ IsOpen(d) <=> inodes[d].i_number # NoFile
                        /\ IsOpen(d) => files[d].inode_index = d

(* One file at a time.  As the programs there are use the calls: nobody    *)
(* opens an open file and a descriptor makes one transfer; the             *)
(* uninitialized offset is 0, without which no file is loaded right.       *)
AsUsed == ~MayReopen /\ OneTransfer /\ Offsets = {0}

(* A write has made the file longer than the blocks it has, an empty file  *)
(* of the formatter by its first byte.  From then on its tail is saved to  *)
(* block 0 and loaded from there, and the pages sys_write has added for it *)
(* are not all unmapped by sys_close.                                      *)
Outgrown(f) == disk_size[f] > DiskBlocks(f) * PAGE_SIZE
NoneOutgrown == \A f \in Files : ~Outgrown(f)

(* The shell's commands have one file open at a time.  Then the pages from *)
(* its address on hold its blocks, as load_file read them or as they were  *)
(* written since, and what read copies are its bytes from the offset on.   *)
PagesHoldTheFile ==
    alone =>
        \A d \in Slots : IsOpen(d) /\ ~Outgrown(InodeOf(d).i_number) =>
            /\ right
            /\ \A k \in 0 .. bytes_to_blocks(InodeOf(d).size) - 1 :
                 /\ files[d].address + k \in Pages
                 /\ area[files[d].address + k] = <<InodeOf(d).i_number, k>>

(* Then, too, a file's blocks on the disk hold that file, before and after *)
(* any save, even of another file that has outgrown its own; and block 0,  *)
(* where the machine boots from, is not written before one has.            *)
DiskHoldsTheFiles ==
    alone =>
        /\ \A f \in Files : ~Outgrown(f) => \A k \in 0 .. DiskBlocks(f) - 1 : disk[<<f, k>>] = <<f, k>>
        /\ NoneOutgrown => disk[BootBlock] = BootBlock

(* And while none has, no page is mapped when the file is closed: close    *)
(* takes back what open has mapped, though it counts the pages anew, from  *)
(* the size the file has by then.                                          *)
NothingMappedWhenClosed ==
    alone /\ NoneOutgrown /\ (\A d \in Slots : ~IsOpen(d)) => \A p \in Pages : area[p] = Unmapped
=============================================================================
