-------------------------- MODULE OpenFilesProofs ---------------------------
(***************************************************************************)
(* Proofs about OpenFiles for any files, tables and calls, provided that   *)
(* no caller opens a file that is open.                                    *)
(***************************************************************************)
EXTENDS OpenFiles, WellFoundedInduction, TLAPS

LEMMA MaxOfTwo ==
    ASSUME NEW a \in Int, NEW b \in Int
    PROVE  /\ Max({a, b}) \in {a, b} /\ Max({a, b}) >= a /\ Max({a, b}) >= b
  <1>1. \E x \in {a, b} : \A y \in {a, b} : x >= y
    OBVIOUS
  <1>2. QED
    BY <1>1 DEF Max

LEMMA MaxOfOne ==
    ASSUME NEW a \in Int
    PROVE  Max({a}) = a
  <1>1. \E x \in {a} : \A y \in {a} : x >= y
    OBVIOUS
  <1>2. QED
    BY <1>1 DEF Max

LEMMA Quotient ==
    ASSUME NEW n \in Nat
    PROVE  /\ n \div PAGE_SIZE \in Nat
           /\ (n \div PAGE_SIZE) * PAGE_SIZE <= n
           /\ n < (n \div PAGE_SIZE) * PAGE_SIZE + PAGE_SIZE
  <1>1. PAGE_SIZE \in Int /\ PAGE_SIZE > 0 /\ n \in Int
    BY SizesAssumption
  <1>2. n \div PAGE_SIZE \in Nat /\ n % PAGE_SIZE \in 0 .. PAGE_SIZE - 1
    BY <1>1
  <1>3. n = PAGE_SIZE * (n \div PAGE_SIZE) + (n % PAGE_SIZE)
    BY <1>1
  <1>4. PAGE_SIZE * (n \div PAGE_SIZE) = (n \div PAGE_SIZE) * PAGE_SIZE
        /\ (n \div PAGE_SIZE) * PAGE_SIZE \in Nat
    BY <1>1, <1>2
  <1>5. QED
    BY <1>1, <1>2, <1>3, <1>4

(* A quotient is below any number whose pages hold n.                      *)
LEMMA QuotientBelow ==
    ASSUME NEW n \in Nat, NEW k \in Nat
    PROVE  /\ n <= k * PAGE_SIZE => n \div PAGE_SIZE <= k
           /\ n < k * PAGE_SIZE => n \div PAGE_SIZE < k
           /\ k * PAGE_SIZE <= n => k <= n \div PAGE_SIZE
  <1> DEFINE q == n \div PAGE_SIZE
  <1>1. q \in Nat /\ q * PAGE_SIZE <= n /\ n < q * PAGE_SIZE + PAGE_SIZE
    BY Quotient
  <1> HIDE DEF q
  <1>2. PAGE_SIZE \in Nat /\ PAGE_SIZE > 0 /\ q * PAGE_SIZE \in Nat /\ k * PAGE_SIZE \in Nat
    BY <1>1, SizesAssumption
  <1>3. ASSUME k < q PROVE k * PAGE_SIZE + PAGE_SIZE <= q * PAGE_SIZE
    <2>1. k + 1 <= q
      BY <1>1, <1>3
    <2>2. (k + 1) * PAGE_SIZE <= q * PAGE_SIZE /\ (k + 1) * PAGE_SIZE = k * PAGE_SIZE + PAGE_SIZE
      BY <1>1, <1>2, <2>1
    <2>3. QED
      BY <2>2
  <1>4. ASSUME q < k PROVE q * PAGE_SIZE + PAGE_SIZE <= k * PAGE_SIZE
    <2>1. q + 1 <= k
      BY <1>1, <1>4
    <2>2. (q + 1) * PAGE_SIZE <= k * PAGE_SIZE /\ (q + 1) * PAGE_SIZE = q * PAGE_SIZE + PAGE_SIZE
      BY <1>1, <1>2, <2>1
    <2>3. QED
      BY <2>2
  <1>5. q = k => k * PAGE_SIZE = q * PAGE_SIZE
    OBVIOUS
  <1>6. QED
    BY <1>1, <1>2, <1>3, <1>4, <1>5 DEF q

LEMMA SizesOfPages ==
    ASSUME NEW size \in Int
    PROVE  PagesOf(size) \in Nat \ {0}
  <1>1. bytes_to_blocks(size) \in Int
    BY SizesAssumption DEF bytes_to_blocks
  <1>2. QED
    BY <1>1, MaxOfTwo DEF PagesOf

-----------------------------------------------------------------------------
(* The types, with what the calls keep besides: a closed entry is all      *)
(* zeroes, so that the mode test of write refuses it.                      *)
Closed == \A d \in Slots : ~IsOpen(d) => files[d] = FreeFile

OpenInv == TablesInStep /\ Closed

LEMMA SlotNumbers ==
    /\ Slots \subseteq Nat /\ Slots \subseteq TableIndices
    /\ 0 \in Slots
    /\ \A x \in Slots : 2 * x \in TableIndices
    /\ \A x \in TableIndices \ Slots, y \in Slots : y < x
  BY UseAssumption DEF Slots, TableIndices

LEMMA InitOpenInv == Init => OpenInv
  <1> SUFFICES ASSUME Init PROVE OpenInv
    OBVIOUS
  <1> USE DEF Init
  <1>1. files \in [Slots -> [inode_index : Slots, lseek : Nat, address : 0 .. MaxPages,
                            flags : 0 .. 7, pages_allocated : Nat]]
    <2>1. FreeFile \in [inode_index : Slots, lseek : Nat, address : 0 .. MaxPages,
                            flags : 0 .. 7, pages_allocated : Nat]
      BY SlotNumbers, UseAssumption DEF FreeFile
    <2>2. QED
      BY <2>1
  <1>2. inodes \in [TableIndices -> [i_number : Files \cup {NoFile}, size : Nat]]
    BY DEF FreeInode
  <1>3. file_virtual_address \in 1 .. MaxPages + 1 /\ area \in [Pages -> Contents \cup {Unmapped}]
    BY UseAssumption
  <1>4. disk \in [Blocks -> Contents] /\ disk_size \in [Files -> Nat]
    BY SizesAssumption DEF Contents
  <1>5. \A d \in Slots : files[d].address = 0 /\ inodes[d].i_number = NoFile
    BY SlotNumbers DEF FreeFile, FreeInode
  <1>6. QED
    BY <1>1, <1>2, <1>3, <1>4, <1>5 DEF OpenInv, TablesInStep, TypeOK, Closed, IsOpen

-----------------------------------------------------------------------------
(* What the operations on memory and disk give.                            *)
Memory == [Pages -> Contents \cup {Unmapped}]
Disks == [Blocks -> Contents]
Inode == [i_number : Files \cup {NoFile}, size : Nat]
Entry == [inode_index : Slots, lseek : Nat, address : 0 .. MaxPages,
          flags : 0 .. 7, pages_allocated : Nat]

LEMMA BlockIsBlock ==
    ASSUME NEW f, NEW k \in Nat
    PROVE  Block(f, k) \in Blocks
  <1>1. ASSUME f \in Files, k < DiskBlocks(f) PROVE <<f, k>> \in Blocks
    <2>1. DiskBlocks(f) \in Int
      BY <1>1, SizesAssumption DEF DiskBlocks, bytes_to_blocks
    <2>2. k \in 0 .. DiskBlocks(f) - 1
      BY <1>1, <2>1
    <2>3. QED
      BY <1>1, <2>2 DEF Blocks
  <1>2. BootBlock \in Blocks
    BY DEF Blocks
  <1>3. QED
    BY <1>1, <1>2 DEF Block

LEMMA LoadedMemory ==
    ASSUME NEW mem \in Memory, NEW inode \in Inode, NEW address \in Nat, NEW offset \in Nat,
           disk \in Disks
    PROVE  load_file(mem, inode, address, offset) \in Memory
  <1>1. bytes_to_blocks(inode.size) \in Int
    BY SizesAssumption DEF bytes_to_blocks, Inode
  <1>2. ASSUME NEW p \in Pages, NEW k \in 0 .. bytes_to_blocks(inode.size) - 1, p = address + offset + k
        PROVE  disk[Block(inode.i_number, p - address - offset)] \in Contents
    <2>1. p - address - offset \in Nat
      BY <1>1, <1>2
    <2>2. QED
      BY <2>1, BlockIsBlock DEF Disks
  <1>3. QED
    BY <1>2 DEF load_file, Memory

LEMMA SavedDisk ==
    ASSUME NEW mem \in Memory, NEW inode \in Inode, NEW address \in Nat, NEW offset \in Nat,
           disk \in Disks
    PROVE  save_file(mem, inode, address, offset) \in Disks
  BY DEF save_file, Memory, Disks, Contents

LEMMA FilledMemory ==
    ASSUME NEW mem \in Memory, NEW first, NEW n
    PROVE  Filled(mem, first, n) \in Memory
  BY DEF Filled, Memory, Contents

LEMMA ZeroedMemory ==
    ASSUME NEW mem \in Memory, NEW f, NEW touched
    PROVE  Zeroed(mem, f, touched) \in Memory
  BY DEF Zeroed, Memory, Contents

(* Where the bytes of a transfer land: in one of the pages that there are. *)
LEMMA WordsAreWider ==
    ASSUME NEW n \in Nat
    PROVE  PlaceOf(n) \in Nat /\ n <= PlaceOf(n) /\ PlaceOf(0) = 0
  <1>1. WORD \in Nat /\ WORD >= 1
    BY SizesAssumption
  <1>2. WORD * n \in Nat /\ n <= WORD * n /\ WORD * 0 = 0
    BY <1>1
  <1>3. QED
    BY <1>2 DEF PlaceOf

LEMMA CopiedMemory ==
    ASSUME NEW mem \in Memory, NEW f \in Files, NEW address \in Nat, NEW lseek \in Nat,
           NEW n \in Nat
    PROVE  Copied(mem, f, address, PlaceOf(lseek), lseek, n) \in Memory
  <1> DEFINE start == PlaceOf(lseek)
             firstByte(p) == Max({0, (p - address) * PAGE_SIZE - start})
  <1>1. start \in Nat /\ lseek <= start
    BY WordsAreWider
  <1> HIDE DEF start
  <1>2. ASSUME NEW p \in Pages, p \in Touched(address, start, n)
        PROVE  (lseek + firstByte(p)) \div PAGE_SIZE \in 0 .. MaxPages
    <2> DEFINE k == p - address
    <2>1. start \div PAGE_SIZE \in Nat /\ start < (start \div PAGE_SIZE) * PAGE_SIZE + PAGE_SIZE
      BY <1>1, Quotient
    <2>2. address + start \div PAGE_SIZE <= p /\ p \in Nat /\ p <= MaxPages /\ MaxPages \in Nat
      BY <1>2, <2>1, UseAssumption DEF Touched, Pages
    <2>3. k \in Nat /\ start \div PAGE_SIZE <= k /\ k <= MaxPages
      BY <2>1, <2>2
    <2> HIDE DEF k
    <2>4. k * PAGE_SIZE \in Nat /\ PAGE_SIZE \in Nat
      BY <2>3, SizesAssumption
    <2>5. /\ firstByte(p) = Max({0, k * PAGE_SIZE - start})
          /\ firstByte(p) \in {0, k * PAGE_SIZE - start} /\ firstByte(p) >= 0
      BY <1>1, <2>4, MaxOfTwo DEF k
    <2> HIDE DEF firstByte
    <2>6. CASE firstByte(p) = 0
      <3>1. lseek \div PAGE_SIZE <= k /\ lseek \div PAGE_SIZE \in Nat
        <4>1. (lseek \div PAGE_SIZE) * PAGE_SIZE <= lseek /\ lseek \div PAGE_SIZE \in Nat
          BY Quotient
        <4>2. lseek \div PAGE_SIZE <= start \div PAGE_SIZE
          <5>1. (lseek \div PAGE_SIZE) * PAGE_SIZE \in Nat
            BY <4>1, SizesAssumption
          <5>2. (lseek \div PAGE_SIZE) * PAGE_SIZE <= start
            BY <1>1, <4>1, <5>1
          <5>3. QED
            BY <1>1, <4>1, <5>2, QuotientBelow
        <4>3. QED
          BY <2>1, <2>3, <4>1, <4>2
      <3>2. lseek + firstByte(p) = lseek
        BY <2>6
      <3>3. QED
        BY <2>2, <2>3, <3>1, <3>2
    <2>7. CASE firstByte(p) = k * PAGE_SIZE - start
      <3>1. lseek + firstByte(p) \in Nat /\ lseek + firstByte(p) <= k * PAGE_SIZE
        BY <1>1, <2>4, <2>5, <2>7
      <3>2. (lseek + firstByte(p)) \div PAGE_SIZE <= k
        BY <2>3, <3>1, QuotientBelow
      <3>3. (lseek + firstByte(p)) \div PAGE_SIZE \in Nat
        BY <3>1, Quotient
      <3>4. QED
        BY <2>2, <2>3, <3>2, <3>3
    <2>8. QED
      BY <2>5, <2>6, <2>7
  <1>3. f # NoFile
    BY SizesAssumption
  <1>4. \A p \in Pages : p \in Touched(address, start, n) =>
            <<f, (lseek + firstByte(p)) \div PAGE_SIZE>> \in Contents
    BY <1>2 DEF Contents
  <1>5. Copied(mem, f, address, start, lseek, n) =
            [p \in Pages |-> IF p \in Touched(address, start, n)
                             THEN <<f, (lseek + firstByte(p)) \div PAGE_SIZE>> ELSE mem[p]]
    BY <1>3 DEF Copied
  <1> HIDE DEF firstByte
  <1>6. QED
    BY <1>4, <1>5 DEF Memory, start

LEMMA LeastNumber ==
    ASSUME NEW S \in SUBSET Nat, S # {}
    PROVE  \E x \in S : \A y \in S : x <= y
  <1> DEFINE R == {ss \in Nat \X Nat : ss[1] < ss[2]}
  <1>1. IsWellFoundedOn(R, Nat)
    BY NatLessThanWellFounded, Zenon DEF OpToRel
  <1> HIDE DEF R
  <1>2. PICK x \in S : \A y \in S : <<y, x>> \notin R
    BY <1>1, WFMin
  <1>3. ASSUME NEW y \in S PROVE x <= y
    <2>1. y \in Nat /\ x \in Nat /\ <<y, x>> \in Nat \X Nat /\ <<y, x>>[1] = y /\ <<y, x>>[2] = x
      OBVIOUS
    <2>2. ~(y < x)
      BY <1>2, <2>1 DEF R
    <2>3. QED
      BY <2>1, <2>2
  <1>4. QED
    BY <1>3

-----------------------------------------------------------------------------
(* The two searches of open give the same index.                           *)
LEMMA SameIndex ==
    ASSUME OpenInv, NEW path \in Files,
           \E d \in Slots : ~IsOpen(d), \A x \in Slots : inodes[x].i_number # path
    PROVE  /\ InodeIndex(path) = FileIndex
           /\ FileIndex \in Slots /\ ~IsOpen(FileIndex)
           /\ \A d \in Slots : d < FileIndex => IsOpen(d)
           /\ inodes[FileIndex].i_number = NoFile
  <1> DEFINE S == {d \in Slots : ~IsOpen(d)}
             T == {x \in TableIndices : inodes[x].i_number = NoFile}
  <1>1. S \subseteq T /\ T \cap Slots \subseteq S
    BY SlotNumbers DEF OpenInv, TablesInStep
  <1>2. \E d \in S : \A y \in S : d <= y
    <2>1. S # {} /\ S \subseteq Nat
      BY SlotNumbers
    <2>2. QED
      BY <2>1, LeastNumber
  <1>3. FileIndex \in S /\ \A y \in S : FileIndex <= y
    BY <1>2 DEF FileIndex, Min
  <1>4. \A y \in T : FileIndex <= y
    BY <1>1, <1>3, SlotNumbers
  <1>5. \A x \in T : (\A y \in T : x <= y) => x = FileIndex
    BY <1>1, <1>3, <1>4, SlotNumbers DEF TableIndices
  <1>6. FreeInodeSlot = FileIndex
    BY <1>1, <1>3, <1>4, <1>5 DEF FreeInodeSlot, Min
  <1>7. QED
    BY <1>1, <1>3, <1>6, SlotNumbers DEF InodeIndex

LEMMA TablesAfter ==
    ASSUME TypeOK',
           \A d \in Slots : /\ files'[d].address = 0 <=> inodes'[d].i_number = NoFile
                            /\ files'[d].address # 0 => files'[d].inode_index = d
                            /\ files'[d].address = 0 => files'[d] = FreeFile
    PROVE  OpenInv'
  BY DEF OpenInv, TablesInStep, Closed, IsOpen

LEMMA OpenKeepsInv ==
    ASSUME OpenInv, ~MayReopen, NEW path, NEW flags \in Flags, OpenFile(path, flags)
    PROVE  /\ OpenInv'
           /\ path \in Files /\ FileIndex \in Slots /\ ~IsOpen(FileIndex)
           /\ granted' = <<path, FileIndex>>
           /\ files' = [files EXCEPT ![FileIndex] =
                           NewEntry(FileIndex, file_virtual_address, flags, PagesOf(inodes'[2 * FileIndex].size))]
           /\ inodes' = [inodes EXCEPT ![FileIndex] = [i_number |-> path, size |-> disk_size[path]]]
  <1> DEFINE x == FileIndex
             n == PagesOf(inodes'[2 * x].size)
             e == NewEntry(x, file_virtual_address, flags, n)
  <1>1. path \in Files /\ (\E d \in Slots : ~IsOpen(d)) /\ (\A y \in Slots : inodes[y].i_number # path)
    BY DEF OpenFile
  <1>2. /\ InodeIndex(path) = x /\ x \in Slots /\ ~IsOpen(x)
        /\ inodes[x].i_number = NoFile /\ path # NoFile
    BY <1>1, SameIndex, SizesAssumption
  <1> HIDE DEF x
  <1>3. /\ inodes' = [inodes EXCEPT ![x] = [i_number |-> path, size |-> disk_size[path]]]
        /\ file_virtual_address + n - 1 <= MaxPages
        /\ files' = [files EXCEPT ![x] = e]
        /\ file_virtual_address' = file_virtual_address + n
        /\ \E offset \in Offsets :
             area' = load_file(Filled(area, file_virtual_address, n), inodes'[2 * x], file_virtual_address, offset)
        /\ granted' = <<path, x>>
        /\ UNCHANGED <<disk, disk_size>>
    BY <1>2 DEF OpenFile, x
  <1> USE DEF OpenInv, TablesInStep
  <1>4. inodes' \in [TableIndices -> Inode]
    BY <1>1, <1>2, <1>3, SlotNumbers DEF TypeOK, Inode
  <1>5. 2 * x \in TableIndices /\ inodes'[2 * x] \in Inode /\ inodes'[2 * x].size \in Int
    BY <1>2, <1>4, SlotNumbers DEF Inode
  <1>6. n \in Nat \ {0}
    BY <1>5, SizesOfPages
  <1> HIDE DEF n
  <1>7. /\ file_virtual_address \in 1 .. MaxPages
        /\ file_virtual_address' \in 1 .. MaxPages + 1
    BY <1>3, <1>6, UseAssumption DEF TypeOK
  <1>8. e \in Entry
    BY <1>2, <1>6, <1>7, UseAssumption DEF NewEntry, Entry
  <1>9. area' \in Memory
    <2>1. area \in Memory /\ disk \in Disks /\ file_virtual_address \in Nat
      BY <1>7 DEF TypeOK, Memory, Disks
    <2>2. PICK offset \in Offsets :
             area' = load_file(Filled(area, file_virtual_address, n), inodes'[2 * x], file_virtual_address, offset)
      BY <1>3
    <2>3. QED
      BY <1>5, <2>1, <2>2, FilledMemory, LoadedMemory, UseAssumption
  <1>10. TypeOK'
    BY <1>3, <1>4, <1>7, <1>8, <1>9 DEF TypeOK, Entry, Inode, Memory
  <1>11. e.address # 0 /\ e.inode_index = x
    BY <1>7 DEF NewEntry
  <1> HIDE DEF e
  <1>12. \A d \in Slots : /\ files'[d].address = 0 <=> inodes'[d].i_number = NoFile
                          /\ files'[d].address # 0 => files'[d].inode_index = d
                          /\ files'[d].address = 0 => files'[d] = FreeFile
    BY <1>2, <1>3, <1>11, SlotNumbers DEF TypeOK, IsOpen, Closed
  <1>13. OpenInv'
    BY <1>10, <1>12, TablesAfter
  <1>14. QED
    BY <1>1, <1>2, <1>3, <1>13 DEF e, n, x

LEMMA CloseKeepsInv ==
    ASSUME OpenInv, NEW d \in Slots, sys_close(d), IsOpen(d)
    PROVE  /\ OpenInv'
           /\ inodes' = [inodes EXCEPT ![d] = FreeInode]
           /\ files' = [files EXCEPT ![d] = FreeFile]
           /\ Returned
  <1> USE DEF OpenInv, TablesInStep
  <1>1. files[d].inode_index = d /\ InodeOf(d).i_number # NoFile
    BY DEF InodeOf
  <1>2. /\ inodes' = [inodes EXCEPT ![d] = FreeInode]
        /\ files' = [files EXCEPT ![d] = FreeFile]
        /\ area' \in Memory
        /\ Returned
        /\ UNCHANGED <<file_virtual_address, disk, disk_size>>
    BY <1>1 DEF sys_close, TypeOK, Memory
  <1>3. FreeFile \in Entry /\ FreeFile.address = 0
    BY SlotNumbers, UseAssumption DEF FreeFile, Entry
  <1>4. FreeInode \in Inode /\ FreeInode.i_number = NoFile
    BY DEF FreeInode, Inode
  <1>5. TypeOK'
    BY <1>2, <1>3, <1>4, SlotNumbers DEF TypeOK, Entry, Inode, Memory
  <1>6. \A c \in Slots : /\ files'[c].address = 0 <=> inodes'[c].i_number = NoFile
                         /\ files'[c].address # 0 => files'[c].inode_index = c
                         /\ files'[c].address = 0 => files'[c] = FreeFile
    BY <1>2, <1>3, <1>4, SlotNumbers DEF TypeOK, IsOpen, Closed
  <1>7. QED
    BY <1>2, <1>5, <1>6, TablesAfter

(* A transfer changes no name: what was open stays open for its inode.     *)
LEMMA WriteKeepsInv ==
    ASSUME OpenInv, NEW d \in Slots, NEW len \in Lengths, Write(d, len)
    PROVE  /\ OpenInv' /\ IsOpen(d)
           /\ \A c \in Slots : /\ files'[c].address = files[c].address
                               /\ inodes'[c].i_number = inodes[c].i_number
           /\ Returned
  <1> DEFINE e == files[d]
             inode == InodeOf(d)
             lseek == IF Has(e.flags, O_APPEND) THEN inode.size ELSE e.lseek
             n == Growth(e, lseek, len, inode.size)
             end == Max({inode.size, lseek + len})
             grown == [inode EXCEPT !.size = end]
             filled == Filled(area, file_virtual_address, n)
             zeroed == Zeroed(filled, inode.i_number,
                              Touched(e.address, PlaceOf(inode.size), Missed(e, lseek, len, inode.size)))
             written == [files[d] EXCEPT !.lseek = lseek + len, !.pages_allocated = @ + n]
  <1> USE DEF OpenInv, TablesInStep
  <1>1. e \in Entry /\ MayWrite(e.flags)
    BY DEF Write, TypeOK, Entry
  <1>2. e.address # 0 /\ e.inode_index = d
    <2>1. ~MayWrite(0)
      BY DEF MayWrite, Has, O_WRONLY, O_RDWR
    <2>2. e # FreeFile
      BY <1>1, <2>1 DEF FreeFile
    <2>3. QED
      BY <2>2 DEF Closed, IsOpen
  <1>3. inode = inodes[d] /\ inode \in Inode /\ inode.i_number \in Files
    BY <1>2, SlotNumbers DEF TypeOK, InodeOf, IsOpen, Inode
  <1>4. /\ area' = Copied(zeroed, inode.i_number, e.address, PlaceOf(lseek), lseek, len)
        /\ file_virtual_address' = file_virtual_address + n
        /\ file_virtual_address + n - 1 <= MaxPages
        /\ files' = [files EXCEPT ![d] = written]
        /\ inodes' = [inodes EXCEPT ![d] = grown]
        /\ disk_size' = update_inode(grown)
        /\ \E offset \in Offsets : disk' = save_file(area', grown, e.address, offset)
        /\ Returned
    BY <1>2 DEF Write
  <1>5. len \in Nat /\ lseek \in Nat /\ e.address \in Nat /\ inode.size \in Nat
    BY <1>1, <1>3, UseAssumption DEF Entry, Inode
  <1> HIDE DEF inode, lseek
  <1>6. n \in Nat
    <2>1. lseek + len - inode.size \in Int
      BY <1>5
    <2>2. QED
      BY <2>1, SizesOfPages DEF Growth
  <1>7. end \in Nat
    <2>1. lseek + len \in Nat /\ inode.size \in Int /\ lseek + len \in Int
      BY <1>5
    <2>2. end \in {inode.size, lseek + len}
      BY <2>1, MaxOfTwo
    <2>3. QED
      BY <1>5, <2>1, <2>2
  <1> HIDE DEF n, end
  <1>8. grown \in Inode /\ grown.i_number = inode.i_number
    BY <1>3, <1>7 DEF Inode
  <1> HIDE DEF grown
  <1>9. written \in Entry /\ written.address = e.address /\ written.inode_index = d
    <2> DEFINE moved == [e EXCEPT !.lseek = lseek + len]
    <2>1. moved \in Entry /\ moved.address = e.address /\ moved.inode_index = d
      BY <1>1, <1>2, <1>5 DEF Entry
    <2>2. written = [moved EXCEPT !.pages_allocated = @ + n]
      OBVIOUS
    <2> HIDE DEF moved
    <2>3. moved.pages_allocated + n \in Nat
      BY <1>6, <2>1 DEF Entry
    <2>4. QED
      BY <2>1, <2>2, <2>3 DEF Entry
  <1> HIDE DEF written
  <1>10. area' \in Memory
    <2>1. filled \in Memory
      BY FilledMemory DEF TypeOK, Memory
    <2> HIDE DEF filled
    <2>2. zeroed \in Memory
      BY <2>1, ZeroedMemory
    <2> HIDE DEF zeroed
    <2>3. QED
      BY <1>3, <1>4, <1>5, <2>2, CopiedMemory
  <1>11. disk' \in Disks
    BY <1>4, <1>5, <1>8, <1>10, SavedDisk, UseAssumption DEF TypeOK, Disks
  <1>12. file_virtual_address' \in 1 .. MaxPages + 1
    BY <1>4, <1>6, UseAssumption DEF TypeOK
  <1>13. disk_size' \in [Files -> Nat]
    BY <1>4, <1>8 DEF update_inode, Inode, TypeOK
  <1>14. files' \in [Slots -> Entry] /\ inodes' \in [TableIndices -> Inode]
    BY <1>4, <1>8, <1>9 DEF TypeOK, Entry, Inode
  <1>15. TypeOK'
    BY <1>10, <1>11, <1>12, <1>13, <1>14 DEF TypeOK, Memory, Disks, Entry, Inode
  <1>16. \A c \in Slots : /\ files'[c].address = files[c].address
                          /\ files'[c].inode_index = files[c].inode_index
                          /\ inodes'[c].i_number = inodes[c].i_number
                          /\ c # d => files'[c] = files[c]
    BY <1>2, <1>3, <1>4, <1>8, <1>9, SlotNumbers DEF TypeOK
  <1>17. \A c \in Slots : /\ files'[c].address = 0 <=> inodes'[c].i_number = NoFile
                          /\ files'[c].address # 0 => files'[c].inode_index = c
                          /\ files'[c].address = 0 => files'[c] = FreeFile
    BY <1>2, <1>16 DEF IsOpen, Closed
  <1>18. OpenInv'
    BY <1>15, <1>17, TablesAfter
  <1>19. QED
    BY <1>2, <1>4, <1>16, <1>18 DEF IsOpen

LEMMA ReadKeepsInv ==
    ASSUME OpenInv, NEW d \in Slots, NEW len \in Lengths, Read(d, len)
    PROVE  /\ OpenInv'
           /\ \A c \in Slots : /\ files'[c].address = files[c].address
                               /\ inodes'[c].i_number = inodes[c].i_number
           /\ granted' = <<>>
  <1> DEFINE e == files[d]
             n == ReadCount(InodeOf(d).size, e.lseek, len)
             read == [files[d] EXCEPT !.lseek = @ + n]
  <1> USE DEF OpenInv, TablesInStep
  <1>1. /\ IsOpen(d) /\ n >= 0
        /\ files' = [files EXCEPT ![d] = read]
        /\ area' \in Memory
        /\ granted' = <<>>
        /\ UNCHANGED <<inodes, file_virtual_address, disk, disk_size>>
    BY DEF Read, Memory, TypeOK, Contents
  <1>2. n \in Nat
    <2>1. e.inode_index \in TableIndices /\ e.lseek \in Nat /\ len \in Nat
      BY SlotNumbers, UseAssumption DEF TypeOK
    <2>2. InodeOf(d).size \in Nat
      BY <2>1 DEF TypeOK, InodeOf
    <2>3. QED
      BY <1>1, <2>1, <2>2 DEF ReadCount
  <1> HIDE DEF n
  <1>3. read \in Entry /\ read.address = e.address /\ read.inode_index = e.inode_index
    BY <1>2 DEF TypeOK, Entry
  <1> HIDE DEF read
  <1>4. TypeOK'
    BY <1>1, <1>3 DEF TypeOK, Memory, Entry
  <1>5. \A c \in Slots : /\ files'[c].address = files[c].address
                         /\ files'[c].inode_index = files[c].inode_index
                         /\ inodes'[c].i_number = inodes[c].i_number
                         /\ c # d => files'[c] = files[c]
    BY <1>1, <1>3 DEF TypeOK
  <1>6. \A c \in Slots : /\ files'[c].address = 0 <=> inodes'[c].i_number = NoFile
                         /\ files'[c].address # 0 => files'[c].inode_index = c
                         /\ files'[c].address = 0 => files'[c] = FreeFile
    BY <1>1, <1>5 DEF IsOpen, Closed
  <1>7. QED
    BY <1>1, <1>4, <1>5, <1>6, TablesAfter

-----------------------------------------------------------------------------
(* What each descriptor names, and the steps of the abstract table.        *)
Named == [d \in Slots |-> IF IsOpen(d) THEN InodeOf(d).i_number ELSE NoFile]

LEMMA NamedIsInode ==
    ASSUME OpenInv
    PROVE  Named = [d \in Slots |-> inodes[d].i_number]
  BY DEF OpenInv, TablesInStep, Named, InodeOf

LEMMA NamedIsInodeNext ==
    ASSUME OpenInv'
    PROVE  Named' = [d \in Slots |-> inodes'[d].i_number]
  <1>1. \A d \in Slots : /\ files'[d].address = 0 <=> inodes'[d].i_number = NoFile
                         /\ files'[d].address # 0 => files'[d].inode_index = d
    BY DEF OpenInv, TablesInStep, IsOpen
  <1>2. Named' = [d \in Slots |-> IF files'[d].address # 0
                                  THEN inodes'[files'[d].inode_index].i_number ELSE NoFile]
    BY DEF Named, IsOpen, InodeOf
  <1>3. QED
    BY <1>1, <1>2

(* A step of the calls is a step of the descriptors it is about.           *)
LEMMA StepIsDescriptorStep ==
    ASSUME ~MayReopen, OpenInv, [Next]_vars
    PROVE  OpenInv' /\ [Table!DescriptorNext]_<<Named, granted>>
  <1>1. ASSUME OpenInv', granted' = <<>>, \A c \in Slots : inodes'[c].i_number = inodes[c].i_number
        PROVE  [Table!DescriptorNext]_<<Named, granted>>
    <2>1. Named' = Named
      BY <1>1, NamedIsInode, NamedIsInodeNext
    <2>2. Table!Use
      BY <1>1, <2>1 DEF Table!Use, Named
    <2>3. QED
      BY <2>2 DEF Table!DescriptorNext
  <1>2. ASSUME UNCHANGED <<files, inodes, file_virtual_address, area, disk, disk_size>>
        PROVE  /\ OpenInv' /\ Named' = Named
               /\ \A c \in Slots : inodes'[c].i_number = inodes[c].i_number
    BY <1>2 DEF OpenInv, TablesInStep, TypeOK, Closed, IsOpen, InodeOf, Named
  <1>3. CASE UNCHANGED vars
    BY <1>2, <1>3 DEF vars
  <1>4. ASSUME NEW path \in Files \cup {Missing}, NEW flags \in Flags, sys_open(path, flags)
        PROVE  OpenInv' /\ [Table!DescriptorNext]_<<Named, granted>>
    <2>1. CASE OpenFails(path, flags)
      BY <1>1, <1>2, <2>1 DEF OpenFails, Returned
    <2>2. CASE OpenFile(path, flags)
      <3>1. /\ OpenInv'
            /\ path \in Files /\ FileIndex \in Slots /\ ~IsOpen(FileIndex)
            /\ granted' = <<path, FileIndex>>
            /\ inodes' = [inodes EXCEPT ![FileIndex] = [i_number |-> path, size |-> disk_size[path]]]
        BY <2>2, OpenKeepsInv
      <3>2. Named = [d \in Slots |-> inodes[d].i_number]
            /\ Named' = [d \in Slots |-> inodes'[d].i_number]
        BY <3>1, NamedIsInode, NamedIsInodeNext
      <3>3. Named' = [Named EXCEPT ![FileIndex] = path]
        BY <3>1, <3>2, SlotNumbers DEF OpenInv, TablesInStep, TypeOK
      <3>4. Named[FileIndex] = NoFile
        BY <3>1 DEF Named
      <3>5. Table!Open(path, FileIndex)
        BY <3>1, <3>3, <3>4 DEF Table!Open, Named
      <3>6. QED
        BY <3>1, <3>5 DEF Table!DescriptorNext
    <2>3. QED
      BY <1>4, <2>1, <2>2 DEF sys_open
  <1>5. ASSUME NEW d \in Slots, sys_close(d)
        PROVE  OpenInv' /\ [Table!DescriptorNext]_<<Named, granted>>
    <2>1. CASE ~IsOpen(d)
      BY <1>1, <1>2, <1>5, <2>1 DEF sys_close, Refused, Returned
    <2>2. CASE IsOpen(d)
      <3>1. OpenInv' /\ inodes' = [inodes EXCEPT ![d] = FreeInode] /\ granted' = <<>>
        BY <1>5, <2>2, CloseKeepsInv DEF Returned
      <3>2. Named = [c \in Slots |-> inodes[c].i_number]
            /\ Named' = [c \in Slots |-> inodes'[c].i_number]
        BY <3>1, NamedIsInode, NamedIsInodeNext
      <3>3. Named' = [Named EXCEPT ![d] = NoFile]
        BY <3>1, <3>2, SlotNumbers DEF OpenInv, TablesInStep, TypeOK, FreeInode
      <3>4. Table!Close(d)
        BY <3>1, <3>3 DEF Table!Close, Named
      <3>5. QED
        BY <3>1, <3>4 DEF Table!DescriptorNext
    <2>3. QED
      BY <2>1, <2>2
  <1>6. ASSUME NEW d \in Slots, NEW len \in Lengths, sys_write(d, len) \/ sys_read(d, len)
        PROVE  OpenInv' /\ [Table!DescriptorNext]_<<Named, granted>>
    <2>1. CASE Write(d, len)
      BY <1>1, <2>1, WriteKeepsInv DEF Returned
    <2>2. CASE Read(d, len)
      BY <1>1, <2>2, ReadKeepsInv
    <2>3. CASE Refused
      BY <1>1, <1>2, <2>3 DEF Refused, Returned
    <2>4. QED
      BY <1>6, <2>1, <2>2, <2>3 DEF sys_write, sys_read
  <1>7. QED
    BY <1>3, <1>4, <1>5, <1>6 DEF Next

(* The tables stay in step as long as no file is opened while it is open.  *)
THEOREM TablesStayInStep ==
    ASSUME ~MayReopen
    PROVE  Spec => []TablesInStep
  <1>1. OpenInv => TablesInStep
    BY DEF OpenInv
  <1>2. QED
    BY <1>1, InitOpenInv, StepIsDescriptorStep, PTL DEF Spec

(* A descriptor names the file it was opened for until it is closed,       *)
(* whatever the calls on others do.                                        *)
THEOREM DescriptorsNameFiles ==
    ASSUME ~MayReopen
    PROVE  Spec => ImplementsDescriptors
  <1>1. Init => Table!DescriptorInit
    <2> SUFFICES ASSUME Init PROVE Table!DescriptorInit
      OBVIOUS
    <2>1. \A d \in Slots : ~IsOpen(d)
      BY DEF Init, IsOpen, FreeFile
    <2>2. QED
      BY <2>1 DEF Init, Table!DescriptorInit
  <1>2. QED
    BY <1>1, InitOpenInv, StepIsDescriptorStep, PTL
       DEF Spec, ImplementsDescriptors, Table!DescriptorSpec, Named

-----------------------------------------------------------------------------
(* What holds while there is one descriptor at most: a file that has not   *)
(* outgrown its blocks is whole on the disk and, when it is open, in the   *)
(* pages from its address on.                                              *)
FirstFile ==
    LET f == inodes[0].i_number
        size == inodes[0].size
        a == files[0].address
    IN  IF IsOpen(0)
        THEN /\ disk_size[f] = size
             /\ ~Outgrown(f) =>
                  /\ right
                  /\ files[0].pages_allocated = PagesOf(size)
                  /\ a + PagesOf(size) - 1 <= MaxPages
                  /\ \A p \in Pages : p \in a .. a + bytes_to_blocks(size) - 1 => area[p] = <<f, p - a>>
             /\ NoneOutgrown => \A p \in Pages : p \notin a .. a + PagesOf(size) - 1 => area[p] = Unmapped
        ELSE NoneOutgrown => \A p \in Pages : area[p] = Unmapped

FilesWhole ==
    /\ \A f \in Files : disk_size[f] >= InitialSize[f]
    /\ \A f \in Files : ~Outgrown(f) => \A k \in 0 .. DiskBlocks(f) - 1 : disk[<<f, k>>] = <<f, k>>
    /\ NoneOutgrown => disk[BootBlock] = BootBlock

AloneInv ==
    alone => /\ \A d \in Slots : IsOpen(d) => d = 0
             /\ FilesWhole
             /\ FirstFile

(* The blocks and the pages of a size.                                     *)
LEMMA BlocksOfSize ==
    ASSUME NEW s \in Nat
    PROVE  /\ bytes_to_blocks(s) \in Nat
           /\ \A k \in Nat : k < bytes_to_blocks(s) <=> k * PAGE_SIZE < s
           /\ PagesOf(s) \in Nat \ {0} /\ bytes_to_blocks(s) <= PagesOf(s)
           /\ PagesOf(s) * PAGE_SIZE \in Nat /\ PAGE_SIZE <= PagesOf(s) * PAGE_SIZE
           /\ s <= PAGE_SIZE => PagesOf(s) = 1
  <1> DEFINE b == bytes_to_blocks(s)
             n == s + PAGE_SIZE - 1
  <1>1. PAGE_SIZE \in Nat /\ PAGE_SIZE >= 1 /\ n \in Nat /\ b = n \div PAGE_SIZE
    BY SizesAssumption DEF bytes_to_blocks
  <1> HIDE DEF b
  <1>2. b \in Nat /\ b * PAGE_SIZE <= n /\ n < b * PAGE_SIZE + PAGE_SIZE /\ b * PAGE_SIZE \in Nat
    <2>1. b \in Nat /\ b * PAGE_SIZE <= n /\ n < b * PAGE_SIZE + PAGE_SIZE
      BY <1>1, Quotient
    <2>2. QED
      BY <1>1, <2>1
  <1>3. ASSUME NEW k \in Nat PROVE k < b <=> k * PAGE_SIZE < s
    <2>1. k * PAGE_SIZE \in Nat
      BY <1>1
    <2>2. (k + 1) * PAGE_SIZE = k * PAGE_SIZE + PAGE_SIZE
      BY <1>1
    <2>3. (k + 1) * PAGE_SIZE <= n => k + 1 <= b
      <3>1. k + 1 \in Nat
        OBVIOUS
      <3>2. QED
        BY <1>1, <3>1, QuotientBelow
    <2>4. CASE k < b
      <3>1. k + 1 <= b
        BY <1>2, <2>4
      <3>2. (k + 1) * PAGE_SIZE <= b * PAGE_SIZE
        BY <1>1, <1>2, <3>1
      <3>3. k * PAGE_SIZE < s
        BY <1>1, <1>2, <2>1, <2>2, <3>2
      <3>4. QED
        BY <2>4, <3>3
    <2>5. CASE ~(k < b)
      <3>1. ~(k * PAGE_SIZE + PAGE_SIZE <= n)
        BY <1>2, <2>2, <2>3, <2>5
      <3>2. ~(k * PAGE_SIZE < s)
        BY <1>1, <2>1, <3>1
      <3>3. QED
        BY <2>5, <3>2
    <2>6. QED
      BY <2>4, <2>5
  <1>4. PagesOf(s) \in {1, b} /\ PagesOf(s) >= 1 /\ PagesOf(s) >= b
    <2>1. PagesOf(s) = Max({1, b})
      BY DEF PagesOf, b
    <2>2. b \in Int /\ 1 \in Int
      BY <1>2
    <2>3. Max({1, b}) \in {1, b} /\ Max({1, b}) >= 1 /\ Max({1, b}) >= b
      BY <2>2, MaxOfTwo
    <2>4. QED
      BY <2>1, <2>3
  <1>5. PagesOf(s) \in Nat \ {0}
    BY <1>2, <1>4
  <1>6. PagesOf(s) * PAGE_SIZE \in Nat /\ PAGE_SIZE <= PagesOf(s) * PAGE_SIZE
    <2>1. PagesOf(s) \in Nat /\ PagesOf(s) >= 1
      BY <1>5
    <2> DEFINE q == PagesOf(s)
    <2> HIDE DEF q
    <2>2. q \in Nat /\ q >= 1 => q * PAGE_SIZE \in Nat /\ 1 * PAGE_SIZE <= q * PAGE_SIZE
      BY <1>1
    <2>3. QED
      BY <1>1, <2>1, <2>2 DEF q
  <1>7. s <= PAGE_SIZE => PagesOf(s) = 1
    <2>1. s <= PAGE_SIZE => ~(1 * PAGE_SIZE < s)
      BY <1>1
    <2>2. s <= PAGE_SIZE => ~(1 < b)
      BY <1>3, <2>1
    <2>3. QED
      BY <1>2, <1>4, <2>2
  <1>8. QED
    BY <1>2, <1>3, <1>4, <1>5, <1>6, <1>7 DEF b

(* A file that has not outgrown its blocks has as many as it was given.    *)
LEMMA BlocksStay ==
    ASSUME NEW f \in Files, NEW s \in Nat, InitialSize[f] <= s, s <= DiskBlocks(f) * PAGE_SIZE
    PROVE  bytes_to_blocks(s) = DiskBlocks(f)
  <1> DEFINE b == bytes_to_blocks(s)
             n == DiskBlocks(f)
             i == InitialSize[f]
  <1>1. i \in Nat /\ PAGE_SIZE \in Nat
    BY SizesAssumption
  <1>2. n = bytes_to_blocks(i)
    BY DEF DiskBlocks
  <1>3. /\ b \in Nat /\ \A k \in Nat : k < b <=> k * PAGE_SIZE < s
        /\ n \in Nat /\ \A k \in Nat : k < n <=> k * PAGE_SIZE < i
    BY <1>1, <1>2, BlocksOfSize
  <1>4. i <= s /\ s <= n * PAGE_SIZE
    OBVIOUS
  <1> HIDE DEF b, n, i
  <1>5. n * PAGE_SIZE \in Nat /\ b * PAGE_SIZE \in Nat
    BY <1>1, <1>3
  <1>6. ~(n < b)
    BY <1>3, <1>4, <1>5
  <1>7. ~(b < n)
    <2>1. b < n => b * PAGE_SIZE < i
      BY <1>3
    <2>2. ~(b * PAGE_SIZE < s)
      BY <1>3
    <2>3. QED
      BY <1>1, <1>4, <1>5, <2>1, <2>2
  <1>8. b = n
    BY <1>3, <1>6, <1>7
  <1>9. QED
    BY <1>8 DEF b, n

LEMMA OwnBlocks ==
    ASSUME NEW f \in Files
    PROVE  /\ DiskBlocks(f) \in Nat
           /\ \A k \in 0 .. DiskBlocks(f) - 1 : Block(f, k) = <<f, k>> /\ <<f, k>> \in Blocks
           /\ \A k \in Nat, g \in Files : \A m : Block(f, k) = <<g, m>> => g = f
  <1>1. DiskBlocks(f) \in Nat
    BY SizesAssumption, BlocksOfSize DEF DiskBlocks
  <1>2. ASSUME NEW k \in 0 .. DiskBlocks(f) - 1 PROVE Block(f, k) = <<f, k>> /\ <<f, k>> \in Blocks
    <2>1. k < DiskBlocks(f)
      BY <1>1
    <2>2. QED
      BY <2>1 DEF Block, Blocks
  <1>3. ASSUME NEW k \in Nat, NEW g \in Files, NEW m, Block(f, k) = <<g, m>> PROVE g = f
    <2>1. Block(f, k) \in {<<f, k>>, BootBlock}
      BY DEF Block
    <2>2. BootBlock # <<g, m>>
      BY DEF BootBlock
    <2>3. <<f, k>> = <<g, m>>
      BY <1>3, <2>1, <2>2
    <2>4. QED
      BY <2>3
  <1>4. QED
    BY <1>1, <1>2, <1>3

(* With nothing else open the only entry in use is entry 0.                *)
LEMMA FirstEntry ==
    ASSUME OpenInv, NEW path \in Files, \A d \in Slots : ~IsOpen(d),
           \A x \in Slots : inodes[x].i_number # path
    PROVE  FileIndex = 0
  <1>1. FileIndex \in Slots /\ \A d \in Slots : ~(d < FileIndex)
    BY SameIndex, SlotNumbers
  <1>2. 0 \in Slots /\ FileIndex \in Nat
    BY <1>1, SlotNumbers
  <1>3. QED
    BY <1>1, <1>2

LEMMA InitAloneInv == AsUsed /\ Init => AloneInv
  <1> SUFFICES ASSUME Init PROVE AloneInv
    OBVIOUS
  <1>1. \A d \in Slots : ~IsOpen(d)
    BY DEF Init, IsOpen, FreeFile
  <1>2. \A f \in Files : disk_size[f] >= InitialSize[f]
    BY SizesAssumption DEF Init
  <1>3. \A b \in Blocks : disk[b] = b
    BY DEF Init
  <1>4. BootBlock \in Blocks
    BY DEF Blocks
  <1>5. \A f \in Files : \A k \in 0 .. DiskBlocks(f) - 1 : disk[<<f, k>>] = <<f, k>>
    BY <1>3, OwnBlocks
  <1>6. FilesWhole
    BY <1>2, <1>3, <1>4, <1>5 DEF FilesWhole
  <1>7. FirstFile
    BY <1>1, SlotNumbers DEF Init, FirstFile
  <1>8. QED
    BY <1>1, <1>6, <1>7 DEF AloneInv

LEMMA OpenKeepsAlone ==
    ASSUME AsUsed, OpenInv, AloneInv, NEW path, NEW flags \in Flags, OpenFile(path, flags)
    PROVE  AloneInv'
  <1> SUFFICES ASSUME alone' PROVE AloneInv'
    BY DEF AloneInv
  <1>1. alone /\ (\A d \in Slots : ~IsOpen(d)) /\ path \in Files
        /\ (\A x \in Slots : inodes[x].i_number # path) /\ UNCHANGED <<disk, disk_size>> /\ right'
    BY DEF OpenFile, AsUsed
  <1>2. FileIndex = 0
    BY <1>1, FirstEntry
  <1>3. FilesWhole /\ FirstFile
    BY <1>1 DEF AloneInv
  <1> DEFINE s == disk_size[path]
             n == PagesOf(s)
             a == file_virtual_address
             b == bytes_to_blocks(s)
  <1>4. /\ OpenInv'
        /\ files' = [files EXCEPT ![0] = NewEntry(0, a, flags, PagesOf(inodes'[0].size))]
        /\ inodes' = [inodes EXCEPT ![0] = [i_number |-> path, size |-> s]]
    BY <1>2, OpenKeepsInv DEF AsUsed
  <1>5. inodes'[0] = [i_number |-> path, size |-> s] /\ files'[0] = NewEntry(0, a, flags, n)
    BY <1>4, SlotNumbers DEF OpenInv, TablesInStep, TypeOK
  <1>6. s \in Nat /\ n \in Nat \ {0} /\ b \in Nat /\ b <= n
    BY <1>1, BlocksOfSize DEF OpenInv, TablesInStep, TypeOK
  <1>7. a + n - 1 <= MaxPages /\ a \in Nat /\ a # 0
        /\ area' = load_file(Filled(area, a, n), inodes'[0], a, 0)
    <2>1. InodeIndex(path) = 0
      BY <1>1, <1>2, SameIndex, SlotNumbers
    <2>2. a + n - 1 <= MaxPages
          /\ area' = load_file(Filled(area, a, n), inodes'[0], a, 0)
      BY <1>4, <1>5, <2>1 DEF OpenFile, AsUsed
    <2>3. QED
      BY <2>2 DEF OpenInv, TablesInStep, TypeOK
  <1>8. ~Outgrown(path) => b = DiskBlocks(path)
    <2> SUFFICES ASSUME ~Outgrown(path) PROVE b = DiskBlocks(path)
      OBVIOUS
    <2>1. InitialSize[path] \in Nat /\ InitialSize[path] <= s
      BY <1>1, <1>3, <1>6, SizesAssumption DEF FilesWhole
    <2>2. DiskBlocks(path) * PAGE_SIZE \in Nat
      BY <1>1, OwnBlocks, SizesAssumption
    <2>3. s <= DiskBlocks(path) * PAGE_SIZE
      BY <1>6, <2>2 DEF Outgrown
    <2>4. QED
      BY <1>1, <1>6, <2>1, <2>3, BlocksStay
  <1>9. files'[0].address = a /\ files'[0].pages_allocated = n
    BY <1>5 DEF NewEntry
  <1>10. inodes'[0].i_number = path /\ inodes'[0].size = s /\ disk_size'[path] = s
    BY <1>1, <1>5
  <1>11. \A f \in Files : Outgrown(f)' <=> Outgrown(f)
    BY <1>1 DEF Outgrown
  <1>12. NoneOutgrown' <=> NoneOutgrown
    BY <1>11 DEF NoneOutgrown
  <1> HIDE DEF s, n, a, b
  <1>13. \A p \in Pages : area'[p] = IF p \in a .. a + b - 1 THEN disk[Block(path, p - a)]
                                     ELSE Filled(area, a, n)[p]
    <2> SUFFICES ASSUME NEW p \in Pages
                 PROVE  area'[p] = IF p \in a .. a + b - 1 THEN disk[Block(path, p - a)]
                                   ELSE Filled(area, a, n)[p]
      OBVIOUS
    <2>1. p \in Nat
      BY DEF Pages
    <2>2. area'[p] = IF \E k \in 0 .. b - 1 : a + 0 + k \in Pages /\ p = a + 0 + k
                     THEN disk[Block(path, p - a - 0)] ELSE Filled(area, a, n)[p]
      BY <1>5, <1>7 DEF load_file, b
    <2>3. (\E k \in 0 .. b - 1 : a + 0 + k \in Pages /\ p = a + 0 + k) <=> p \in a .. a + b - 1
      <3>1. p \in a .. a + b - 1 => p - a \in 0 .. b - 1 /\ p = a + 0 + (p - a)
        BY <1>6, <1>7, <2>1
      <3>2. QED
        BY <1>6, <1>7, <2>1, <3>1
    <2>4. p - a - 0 = p - a
      BY <1>7, <2>1
    <2>5. QED
      BY <2>2, <2>3, <2>4
  <1>14. ASSUME ~Outgrown(path), NEW p \in Pages, p \in a .. a + b - 1 PROVE area'[p] = <<path, p - a>>
    <2>1. p - a \in 0 .. DiskBlocks(path) - 1
      BY <1>6, <1>7, <1>8, <1>14 DEF Pages
    <2>2. Block(path, p - a) = <<path, p - a>> /\ disk[<<path, p - a>>] = <<path, p - a>>
      BY <1>1, <1>3, <1>14, <2>1, OwnBlocks DEF FilesWhole
    <2>3. QED
      BY <1>13, <1>14, <2>2
  <1>15. ASSUME NoneOutgrown, NEW p \in Pages, p \notin a .. a + n - 1 PROVE area'[p] = Unmapped
    <2>1. p \notin a .. a + b - 1
      BY <1>6, <1>7, <1>15 DEF Pages
    <2>2. area[p] = Unmapped
      BY <1>1, <1>3, <1>15, SlotNumbers DEF FirstFile
    <2>3. QED
      BY <1>13, <1>15, <2>1, <2>2 DEF Filled
  <1>16. FirstFile'
    <2>1. n = PagesOf(s) /\ b = bytes_to_blocks(s)
      BY DEF n, b
    <2>2. QED
      BY <1>1, <1>7, <1>9, <1>10, <1>11, <1>12, <1>14, <1>15, <2>1 DEF FirstFile, IsOpen
  <1>17. FilesWhole'
    BY <1>1, <1>3, <1>11, <1>12 DEF FilesWhole
  <1>18. \A d \in Slots : files'[d].address # 0 => d = 0
    BY <1>1, <1>4 DEF IsOpen, OpenInv, TablesInStep, TypeOK
  <1>19. QED
    BY <1>16, <1>17, <1>18 DEF AloneInv, IsOpen

LEMMA CloseKeepsAlone ==
    ASSUME OpenInv, AloneInv, NEW d \in Slots, sys_close(d), IsOpen(d)
    PROVE  AloneInv'
  <1> SUFFICES ASSUME alone' PROVE AloneInv'
    BY DEF AloneInv
  <1>1. files[d].inode_index = d /\ InodeOf(d) = inodes[d] /\ inodes[d].i_number # NoFile
    BY DEF InodeOf, OpenInv, TablesInStep
  <1>2. /\ area' = [p \in Pages |-> IF p \in files[d].address .. files[d].address + PagesOf(inodes[d].size) - 1
                                    THEN Unmapped ELSE area[p]]
        /\ alone /\ UNCHANGED <<disk, disk_size>>
    BY <1>1 DEF sys_close
  <1>3. d = 0 /\ FilesWhole /\ FirstFile
    BY <1>2 DEF AloneInv
  <1>4. NoneOutgrown => \A p \in Pages : area'[p] = Unmapped
    BY <1>2, <1>3 DEF FirstFile
  <1>5. files' = [files EXCEPT ![0] = FreeFile]
    BY <1>3, CloseKeepsInv
  <1>6. \A c \in Slots : files'[c].address = 0
    BY <1>2, <1>3, <1>5 DEF FreeFile, OpenInv, TablesInStep, TypeOK, AloneInv, IsOpen
  <1>7. /\ NoneOutgrown' <=> NoneOutgrown
        /\ FilesWhole'
    BY <1>2, <1>3 DEF NoneOutgrown, Outgrown, FilesWhole
  <1>8. FirstFile'
    BY <1>4, <1>6, <1>7, SlotNumbers DEF FirstFile, IsOpen
  <1>9. QED
    BY <1>6, <1>7, <1>8 DEF AloneInv, IsOpen

LEMMA ByteZero == 0 \div PAGE_SIZE = 0
  <1>1. 0 \div PAGE_SIZE \in Nat /\ (0 <= 0 * PAGE_SIZE => 0 \div PAGE_SIZE <= 0)
    BY Quotient, QuotientBelow
  <1>2. 0 * PAGE_SIZE = 0
    BY SizesAssumption
  <1>3. QED
    BY <1>1, <1>2

(* The pages a transfer at offset 0 may touch.                             *)
LEMMA FirstBytes ==
    ASSUME NEW a \in Nat, NEW n \in Nat, NEW s \in Nat, n <= s
    PROVE  /\ PlaceOf(0) = 0 /\ 0 \div PAGE_SIZE = 0
           /\ \A j \in 0 .. n - 1 : j \div PAGE_SIZE \in 0 .. bytes_to_blocks(s) - 1
           /\ Touched(a, 0, n) \subseteq a .. a + bytes_to_blocks(s) - 1
  <1>1. PlaceOf(0) = 0
    BY WordsAreWider
  <1>2. 0 \div PAGE_SIZE = 0
    BY ByteZero
  <1>3. ASSUME NEW j \in Nat, j < s PROVE j \div PAGE_SIZE \in Nat /\ j \div PAGE_SIZE < bytes_to_blocks(s)
    <2> DEFINE q == j \div PAGE_SIZE
    <2>1. q \in Nat /\ q * PAGE_SIZE <= j
      BY Quotient
    <2>2. q * PAGE_SIZE \in Nat
      BY <2>1, SizesAssumption
    <2> HIDE DEF q
    <2>3. q * PAGE_SIZE < s
      BY <1>3, <2>1, <2>2
    <2>4. q < bytes_to_blocks(s)
      BY <2>1, <2>3, BlocksOfSize
    <2>5. QED
      BY <2>1, <2>4 DEF q
  <1>4. \A j \in 0 .. n - 1 : j \in Nat /\ j < s
    OBVIOUS
  <1>5. bytes_to_blocks(s) \in Nat
    BY BlocksOfSize
  <1>6. \A j \in 0 .. n - 1 : j \div PAGE_SIZE \in 0 .. bytes_to_blocks(s) - 1
    BY <1>3, <1>4, <1>5
  <1>7. Touched(a, 0, n) \subseteq a .. a + bytes_to_blocks(s) - 1
    <2> SUFFICES ASSUME NEW p \in Touched(a, 0, n) PROVE p \in a .. a + bytes_to_blocks(s) - 1
      OBVIOUS
    <2>1. n > 0 /\ p \in a .. a + (n - 1) \div PAGE_SIZE
      BY <1>2 DEF Touched
    <2>2. n - 1 \in 0 .. n - 1
      BY <2>1
    <2>3. (n - 1) \div PAGE_SIZE \in 0 .. bytes_to_blocks(s) - 1
      BY <1>6, <2>2
    <2> DEFINE q == (n - 1) \div PAGE_SIZE
    <2> HIDE DEF q
    <2>4. q \in 0 .. bytes_to_blocks(s) - 1 /\ p \in a .. a + q
      BY <2>1, <2>3 DEF q
    <2>5. QED
      BY <1>5, <2>4
  <1>8. QED
    BY <1>1, <1>2, <1>6, <1>7

LEMMA ReadKeepsAlone ==
    ASSUME AsUsed, OpenInv, AloneInv, NEW d \in Slots, NEW len \in Lengths, Read(d, len)
    PROVE  AloneInv'
  <1> SUFFICES ASSUME alone' PROVE AloneInv'
    BY DEF AloneInv
  <1> DEFINE a == files[0].address
             s == inodes[0].size
             f == inodes[0].i_number
             n == ReadCount(s, 0, len)
             b == bytes_to_blocks(s)
             touched == Touched(a, 0, n)
  <1>1. alone /\ d = 0 /\ IsOpen(0) /\ UNCHANGED <<inodes, file_virtual_address, disk, disk_size>>
        /\ FilesWhole /\ FirstFile
    BY DEF Read, AloneInv
  <1>2. files[0].lseek = 0 /\ InodeOf(0) = inodes[0]
    BY <1>1 DEF Read, AsUsed, InodeOf, OpenInv, TablesInStep
  <1>3. a \in Nat /\ s \in Nat /\ len \in Nat
    BY SlotNumbers, UseAssumption DEF OpenInv, TablesInStep, TypeOK
  <1>4. n \in Nat /\ n <= s
    BY <1>3 DEF ReadCount
  <1>5. /\ PlaceOf(0) = 0
        /\ \A j \in 0 .. n - 1 : j \div PAGE_SIZE \in 0 .. b - 1
        /\ touched \subseteq a .. a + b - 1
    BY <1>3, <1>4, FirstBytes
  <1>6. disk_size[f] = s
    BY <1>1 DEF FirstFile
  <1>7. ~Outgrown(f) => /\ files[0].pages_allocated = PagesOf(s)
                        /\ a + PagesOf(s) - 1 <= MaxPages
                        /\ \A p \in Pages : p \in a .. a + b - 1 => area[p] = <<f, p - a>>
    BY <1>1 DEF FirstFile
  <1>8. NoneOutgrown => \A p \in Pages : p \notin a .. a + PagesOf(s) - 1 => area[p] = Unmapped
    BY <1>1 DEF FirstFile
  <1>9. b \in Nat /\ PagesOf(s) \in Nat /\ b <= PagesOf(s)
    BY <1>3, BlocksOfSize
  <1>10. a # 0
    BY <1>1 DEF IsOpen
  <1>11. /\ files' = [files EXCEPT ![0].lseek = @ + n]
         /\ area' = [p \in Pages |-> IF p \in touched /\ area[p] = Unmapped THEN Blank ELSE area[p]]
         /\ right' = \A j \in 0 .. n - 1 :
                        a + (0 + j) \div PAGE_SIZE \in Pages
                        /\ area[a + (0 + j) \div PAGE_SIZE] = <<f, (0 + j) \div PAGE_SIZE>>
    BY <1>1, <1>2, <1>5 DEF Read
  <1>12. \A g \in Files : Outgrown(g)' <=> Outgrown(g)
    BY <1>1 DEF Outgrown
  <1>13. NoneOutgrown' <=> NoneOutgrown
    BY <1>12 DEF NoneOutgrown
  <1>14. inodes'[0].i_number = f /\ inodes'[0].size = s /\ disk_size'[f] = disk_size[f]
         /\ (Outgrown(f)' <=> Outgrown(f))
    BY <1>1 DEF Outgrown
  <1> HIDE DEF a, s, f, n, b, touched
  <1>15. \A p \in Pages : p \notin a .. a + PagesOf(s) - 1 => area'[p] = area[p]
    <2> SUFFICES ASSUME NEW p \in Pages, p \notin a .. a + PagesOf(s) - 1 PROVE area'[p] = area[p]
      OBVIOUS
    <2>1. p \notin a .. a + b - 1
      BY <1>3, <1>9 DEF Pages
    <2>2. p \notin touched
      BY <1>5, <2>1
    <2>3. QED
      BY <1>11, <2>2
  <1>16. ASSUME NEW p \in Pages, area[p] = <<f, p - a>> PROVE area'[p] = area[p]
    <2>1. <<f, p - a>> # Unmapped
      BY DEF Unmapped
    <2>2. QED
      BY <1>11, <1>16, <2>1
  <1>17. ~Outgrown(f) => right'
    <2> SUFFICES ASSUME ~Outgrown(f), NEW j \in 0 .. n - 1
                 PROVE  /\ a + (0 + j) \div PAGE_SIZE \in Pages
                        /\ area[a + (0 + j) \div PAGE_SIZE] = <<f, (0 + j) \div PAGE_SIZE>>
      BY <1>11
    <2> DEFINE q == j \div PAGE_SIZE
    <2>1. q \in 0 .. b - 1
      BY <1>5
    <2>2. 0 + j = j
      BY <1>4
    <2> HIDE DEF q
    <2>3. a + q \in 1 .. MaxPages /\ a + q \in a .. a + b - 1 /\ (a + q) - a = q
      BY <1>3, <1>7, <1>9, <1>10, <2>1, UseAssumption
    <2>4. a + q \in Pages /\ area[a + q] = <<f, q>>
      BY <1>7, <2>3 DEF Pages
    <2>5. QED
      BY <2>2, <2>4 DEF q
  <1>18. \A c \in Slots : /\ files'[c].address = files[c].address
                          /\ files'[c].pages_allocated = files[c].pages_allocated
    BY <1>11 DEF OpenInv, TablesInStep, TypeOK
  <1>19. files'[0].address = a /\ files'[0].pages_allocated = files[0].pages_allocated
    BY <1>18, SlotNumbers DEF a
  <1>20. FirstFile'
    <2>1. b = bytes_to_blocks(s)
      BY DEF b
    <2>2. Outgrown(f)' <=> Outgrown(inodes[0].i_number)'
      BY <1>1 DEF f, Outgrown
    <2>3. ~Outgrown(f) => \A p \in Pages : p \in a .. a + b - 1 => area'[p] = <<f, p - a>>
      BY <1>7, <1>16
    <2>4. NoneOutgrown => \A p \in Pages : p \notin a .. a + PagesOf(s) - 1 => area'[p] = Unmapped
      BY <1>8, <1>15
    <2>5. QED
      BY <1>6, <1>7, <1>10, <1>13, <1>14, <1>17, <1>19, <2>1, <2>3, <2>4 DEF FirstFile, IsOpen, Outgrown
  <1>21. FilesWhole'
    BY <1>1, <1>12, <1>13 DEF FilesWhole
  <1>22. \A c \in Slots : files'[c].address # 0 => c = 0
    BY <1>1, <1>18 DEF AloneInv, IsOpen
  <1>23. QED
    BY <1>20, <1>21, <1>22 DEF AloneInv, IsOpen

(* What a save changes: blocks of the file and, if it has not enough of    *)
(* them, block 0.  A file whose pages hold its blocks is saved as it is.   *)
LEMMA OthersAreNotSaved ==
    ASSUME NEW mem, NEW f \in Files, NEW s \in Nat, NEW a \in Nat
    PROVE  \A g \in Files : g # f =>
               \A k \in 0 .. DiskBlocks(g) - 1 : save_file(mem, [i_number |-> f, size |-> s], a, 0)[<<g, k>>] = disk[<<g, k>>]
  <1> DEFINE B == bytes_to_blocks(s)
             saved(b) == {k \in 0 .. B - 1 : Block(f, k) = b}
             held(p) == IF p \in Pages /\ mem[p] # Unmapped THEN mem[p] ELSE Blank
             after == save_file(mem, [i_number |-> f, size |-> s], a, 0)
  <1>1. B \in Nat /\ DiskBlocks(f) \in Nat
    BY BlocksOfSize, OwnBlocks
  <1>2. after = [b \in Blocks |-> IF saved(b) = {} THEN disk[b] ELSE held(a + 0 + Max(saved(b)))]
    BY DEF save_file
  <1> HIDE DEF after
  <1>3. ASSUME NEW g \in Files, g # f, NEW k \in 0 .. DiskBlocks(g) - 1 PROVE after[<<g, k>>] = disk[<<g, k>>]
    <2>1. \A m \in 0 .. B - 1 : Block(f, m) # <<g, k>>
      BY <1>1, <1>3, OwnBlocks
    <2>2. <<g, k>> \in Blocks
      BY OwnBlocks
    <2>3. QED
      BY <1>2, <2>1, <2>2
  <1>4. QED
    BY <1>3 DEF after

LEMMA BootBlockIsNotSaved ==
    ASSUME NEW mem, NEW f \in Files, NEW s \in Nat, NEW a \in Nat
    PROVE  bytes_to_blocks(s) = DiskBlocks(f) => save_file(mem, [i_number |-> f, size |-> s], a, 0)[BootBlock] = disk[BootBlock]
  <1> DEFINE B == bytes_to_blocks(s)
             saved(b) == {k \in 0 .. B - 1 : Block(f, k) = b}
             held(p) == IF p \in Pages /\ mem[p] # Unmapped THEN mem[p] ELSE Blank
             after == save_file(mem, [i_number |-> f, size |-> s], a, 0)
  <1>1. B \in Nat /\ DiskBlocks(f) \in Nat
    BY BlocksOfSize, OwnBlocks
  <1>2. after = [b \in Blocks |-> IF saved(b) = {} THEN disk[b] ELSE held(a + 0 + Max(saved(b)))]
    BY DEF save_file
  <1> HIDE DEF after
  <1>3. ASSUME B = DiskBlocks(f) PROVE after[BootBlock] = disk[BootBlock]
    <2>1. \A m \in 0 .. B - 1 : Block(f, m) = <<f, m>>
      BY <1>3, OwnBlocks
    <2>2. \A m : <<f, m>> # BootBlock
      BY DEF BootBlock
    <2>3. BootBlock \in Blocks
      BY DEF Blocks
    <2>4. QED
      BY <1>2, <2>1, <2>2, <2>3
  <1>4. QED
    BY <1>3 DEF after

LEMMA SavedAsItIs ==
    ASSUME NEW mem, NEW f \in Files, NEW s \in Nat, NEW a \in Nat
    PROVE  bytes_to_blocks(s) = DiskBlocks(f)
             /\ (\A k \in 0 .. DiskBlocks(f) - 1 : a + k \in Pages /\ mem[a + k] = <<f, k>>)
             => \A k \in 0 .. DiskBlocks(f) - 1 : save_file(mem, [i_number |-> f, size |-> s], a, 0)[<<f, k>>] = <<f, k>>
  <1> DEFINE B == bytes_to_blocks(s)
             saved(b) == {k \in 0 .. B - 1 : Block(f, k) = b}
             held(p) == IF p \in Pages /\ mem[p] # Unmapped THEN mem[p] ELSE Blank
             after == save_file(mem, [i_number |-> f, size |-> s], a, 0)
  <1>1. B \in Nat /\ DiskBlocks(f) \in Nat
    BY BlocksOfSize, OwnBlocks
  <1>2. after = [b \in Blocks |-> IF saved(b) = {} THEN disk[b] ELSE held(a + 0 + Max(saved(b)))]
    BY DEF save_file
  <1> HIDE DEF after
  <1>3. ASSUME B = DiskBlocks(f), NEW k \in 0 .. DiskBlocks(f) - 1, a + k \in Pages, mem[a + k] = <<f, k>>
        PROVE  after[<<f, k>>] = <<f, k>>
    <2>1. \A m \in 0 .. B - 1 : Block(f, m) = <<f, m>>
      BY <1>3, OwnBlocks
    <2>2. \A m \in 0 .. B - 1 : <<f, m>> = <<f, k>> => m = k
      OBVIOUS
    <2>3. saved(<<f, k>>) = {k}
      BY <1>3, <2>1, <2>2
    <2>4. k \in Int /\ a + 0 + k = a + k
      BY <1>1
    <2>5. Max({k}) = k
      BY <2>4, MaxOfOne
    <2>6. <<f, k>> # Unmapped
      BY DEF Unmapped
    <2>7. held(a + k) = <<f, k>>
      BY <1>3, <2>6
    <2>8. <<f, k>> \in Blocks
      BY OwnBlocks
    <2> HIDE DEF saved, held
    <2>9. QED
      BY <1>2, <2>3, <2>4, <2>5, <2>7, <2>8
  <1>4. QED
    BY <1>3 DEF after

(* What memcpy leaves in the pages when it begins at byte 0.               *)
LEMMA CopiedFromStart ==
    ASSUME NEW mem, NEW f \in Files, NEW a \in Nat, NEW n \in Nat, NEW p \in Int, p \in Pages
    PROVE  /\ p \in Touched(a, 0, n) => Copied(mem, f, a, 0, 0, n)[p] = <<f, p - a>>
           /\ p \notin Touched(a, 0, n) => Copied(mem, f, a, 0, 0, n)[p] = mem[p]
  <1>1. f # NoFile
    BY SizesAssumption
  <1>2. Copied(mem, f, a, 0, 0, n)[p] = IF p \in Touched(a, 0, n)
                      THEN <<f, (0 + Max({0, (p - a) * PAGE_SIZE - 0})) \div PAGE_SIZE>>
                      ELSE mem[p]
    BY <1>1 DEF Copied
  <1>3. ASSUME p \in Touched(a, 0, n) PROVE (0 + Max({0, (p - a) * PAGE_SIZE - 0})) \div PAGE_SIZE = p - a
    <2> DEFINE k == p - a
               j == k * PAGE_SIZE
    <2>1. 0 \div PAGE_SIZE = 0
      BY ByteZero
    <2>2. k \in Nat
      BY <1>3, <2>1 DEF Touched, Pages
    <2>3. PAGE_SIZE \in Nat /\ j \in Nat
      BY <2>2, SizesAssumption
    <2> HIDE DEF k
    <2>4. j \div PAGE_SIZE \in Nat /\ j \div PAGE_SIZE <= k /\ k <= j \div PAGE_SIZE
      BY <2>2, <2>3, Quotient, QuotientBelow
    <2>5. j \div PAGE_SIZE = k
      BY <2>2, <2>4
    <2> HIDE DEF j
    <2>6. j - 0 = j /\ j \in Int /\ 0 \in Int
      BY <2>3
    <2>7. Max({0, j}) \in {0, j} /\ Max({0, j}) >= 0 /\ Max({0, j}) >= j
      BY <2>6, MaxOfTwo
    <2>8. Max({0, j}) = j
      BY <2>3, <2>7
    <2>9. 0 + Max({0, j - 0}) = j
      BY <2>6, <2>8
    <2>10. QED
      BY <2>5, <2>9 DEF j, k
  <1>4. QED
    BY <1>2, <1>3

(* A write that leaves the file within its blocks adds no page, and the    *)
(* pages it reaches hold what belongs there.                               *)
LEMMA WriteWithinBlocks ==
    ASSUME OpenInv, NEW len \in Lengths, Write(0, len), AsUsed,
           IsOpen(0), FirstFile, FilesWhole,
           ~Outgrown(inodes[0].i_number),
           Max({inodes[0].size, len}) <= DiskBlocks(inodes[0].i_number) * PAGE_SIZE
    PROVE  LET f == inodes[0].i_number
               a == files[0].address
               s == inodes[0].size
               b == bytes_to_blocks(s)
           IN  /\ bytes_to_blocks(Max({s, len})) = b /\ b = DiskBlocks(f)
               /\ files'[0].pages_allocated = PagesOf(s)
               /\ \A p \in Pages : p \in a .. a + b - 1 => area'[p] = <<f, p - a>>
               /\ \A p \in Pages : p \notin a .. a + b - 1 => area'[p] = area[p]
  <1> DEFINE e == files[0]
             inode == inodes[0]
             a == e.address
             s == inode.size
             f == inode.i_number
             b == bytes_to_blocks(s)
             lseek == IF Has(e.flags, O_APPEND) THEN s ELSE e.lseek
             t == Max({s, len})
  <1>1. e.inode_index = 0 /\ InodeOf(0) = inode
    BY SlotNumbers DEF OpenInv, TablesInStep, InodeOf
  <1>2. a \in Nat /\ a # 0 /\ s \in Nat /\ len \in Nat /\ len > 0 /\ f \in Files /\ PAGE_SIZE \in Nat
    BY SlotNumbers, UseAssumption, SizesAssumption DEF OpenInv, TablesInStep, TypeOK, IsOpen
  <1>3. lseek = 0
    BY <1>1 DEF Write, AsUsed
  <1>4. /\ e.pages_allocated = PagesOf(s) /\ disk_size[f] = s
        /\ a + PagesOf(s) - 1 <= MaxPages
        /\ \A p \in Pages : p \in a .. a + b - 1 => area[p] = <<f, p - a>>
    BY DEF FirstFile
  <1>5. t \in Nat /\ t >= s /\ t >= len
    <2>1. s \in Int /\ len \in Int
      BY <1>2
    <2>2. t \in {s, len} /\ t >= s /\ t >= len
      BY <2>1, MaxOfTwo
    <2>3. QED
      BY <1>2, <2>2
  <1>6. InitialSize[f] \in Nat /\ InitialSize[f] <= s /\ DiskBlocks(f) \in Nat
    BY <1>2, <1>4, SizesAssumption, OwnBlocks DEF FilesWhole
  <1>7. DiskBlocks(f) * PAGE_SIZE \in Nat /\ t <= DiskBlocks(f) * PAGE_SIZE
    BY <1>2, <1>6
  <1>8. b = DiskBlocks(f) /\ bytes_to_blocks(t) = DiskBlocks(f)
    <2> HIDE DEF t, s, f
    <2>1. InitialSize[f] <= t /\ s <= DiskBlocks(f) * PAGE_SIZE
      BY <1>2, <1>5, <1>6, <1>7
    <2>2. QED
      BY <1>2, <1>5, <1>6, <1>7, <2>1, BlocksStay
  <1>9. b \in Nat /\ PagesOf(s) \in Nat \ {0} /\ b <= PagesOf(s)
    BY <1>2, BlocksOfSize
  <1>10. ~(0 + len > e.pages_allocated * PAGE_SIZE)
    <2> DEFINE n == PagesOf(s)
               m == DiskBlocks(f)
    <2>1. m \in Nat /\ n \in Nat /\ m <= n
      BY <1>6, <1>8, <1>9
    <2>2. e.pages_allocated = n /\ len <= m * PAGE_SIZE
      BY <1>2, <1>4, <1>5, <1>7
    <2> HIDE DEF n, m
    <2>3. m * PAGE_SIZE <= n * PAGE_SIZE /\ m * PAGE_SIZE \in Nat /\ n * PAGE_SIZE \in Nat
      BY <1>2, <2>1
    <2>4. QED
      BY <1>2, <2>2, <2>3
  <1>11. Growth(e, 0, len, s) = 0 /\ Missed(e, 0, len, s) = 0 /\ PlaceOf(0) = 0
    BY <1>10, WordsAreWider DEF Growth, Missed
  <1>12. area' = Copied(Zeroed(Filled(area, file_virtual_address, 0), f, Touched(a, PlaceOf(s), 0)),
                        f, a, 0, 0, len)
    <2>1. area' = Copied(Zeroed(Filled(area, file_virtual_address, Growth(e, lseek, len, InodeOf(0).size)),
                                InodeOf(0).i_number,
                                Touched(e.address, PlaceOf(InodeOf(0).size), Missed(e, lseek, len, InodeOf(0).size))),
                         InodeOf(0).i_number, e.address, PlaceOf(lseek), lseek, len)
      BY <1>1, Zenon DEF Write
    <2> HIDE DEF e, inode, lseek
    <2>2. InodeOf(0) = inode
      BY <1>1
    <2>3. /\ Growth(e, lseek, len, InodeOf(0).size) = 0 /\ Missed(e, lseek, len, InodeOf(0).size) = 0
          /\ PlaceOf(lseek) = 0
      BY <1>3, <1>11, <2>2
    <2>4. QED
      BY <1>3, <2>1, <2>2, <2>3
  <1>13. files'[0].pages_allocated = PagesOf(s)
    <2>1. files' = [files EXCEPT ![0].lseek = lseek + len,
                                 ![0].pages_allocated = @ + Growth(e, lseek, len, InodeOf(0).size)]
      BY <1>1, Zenon DEF Write
    <2>2. Growth(e, lseek, len, InodeOf(0).size) = 0
      BY <1>1, <1>3, <1>11
    <2>3. files \in [Slots -> Entry]
      BY DEF OpenInv, TablesInStep, TypeOK, Entry
    <2> HIDE DEF e, lseek
    <2>4. files' = [files EXCEPT ![0].lseek = lseek + len, ![0].pages_allocated = @ + 0]
      BY <2>1, <2>2
    <2>5. files[0].pages_allocated + 0 = PagesOf(s)
      BY <1>4, <1>9 DEF e
    <2>6. QED
      BY <2>3, <2>4, <2>5, SlotNumbers DEF Entry
  <1> HIDE DEF e, inode, a, s, f, b, lseek, t
  <1>14. Filled(area, file_virtual_address, 0) = [p \in Pages |-> area[p]]
    <2>1. file_virtual_address \in Nat
      BY UseAssumption DEF OpenInv, TablesInStep, TypeOK
    <2>2. file_virtual_address .. file_virtual_address + 0 - 1 = {}
      BY <2>1
    <2>3. QED
      BY <2>2 DEF Filled
  <1>15. Zeroed(Filled(area, file_virtual_address, 0), f, Touched(a, PlaceOf(s), 0)) = [p \in Pages |-> area[p]]
    <2>1. Touched(a, PlaceOf(s), 0) = {}
      BY DEF Touched
    <2>2. QED
      BY <1>14, <2>1 DEF Zeroed
  <1>16. \A p \in Pages : area'[p] = IF p \in Touched(a, 0, len) THEN <<f, p - a>> ELSE area[p]
    <2> DEFINE mem == [p \in Pages |-> area[p]]
    <2>1. area' = Copied(mem, f, a, 0, 0, len)
      BY <1>12, <1>15
    <2>2. \A p \in Pages : mem[p] = area[p]
      OBVIOUS
    <2> HIDE DEF mem
    <2>3. ASSUME NEW p \in Pages
          PROVE  /\ p \in Touched(a, 0, len) => area'[p] = <<f, p - a>>
                 /\ p \notin Touched(a, 0, len) => area'[p] = mem[p]
      <3>1. p \in Int
        BY DEF Pages
      <3>2. QED
        BY <1>2, <2>1, <3>1, CopiedFromStart
    <2>4. QED
      BY <2>1, <2>2, <2>3
  <1>17. Touched(a, 0, len) \subseteq a .. a + b - 1
    <2>1. Touched(a, 0, len) \subseteq a .. a + bytes_to_blocks(t) - 1
      BY <1>2, <1>5, FirstBytes
    <2>2. QED
      BY <1>8, <2>1
  <1>18. \A p \in Pages : p \in a .. a + b - 1 => area'[p] = <<f, p - a>>
    BY <1>4, <1>16
  <1>19. \A p \in Pages : p \notin a .. a + b - 1 => area'[p] = area[p]
    BY <1>16, <1>17
  <1>20. QED
    BY <1>8, <1>13, <1>18, <1>19 DEF e, inode, a, s, f, b, t

LEMMA WriteKeepsAlone ==
    ASSUME AsUsed, OpenInv, AloneInv, NEW d \in Slots, NEW len \in Lengths, Write(d, len)
    PROVE  AloneInv'
  <1> SUFFICES ASSUME alone' PROVE AloneInv'
    BY DEF AloneInv
  <1> DEFINE e == files[0]
             inode == inodes[0]
             lseek == IF Has(e.flags, O_APPEND) THEN inode.size ELSE e.lseek
  <1> PICK a, s, f : a = e.address /\ s = inode.size /\ f = inode.i_number
    OBVIOUS
  <1> DEFINE b == bytes_to_blocks(s)
             t == Max({s, len})
             grown == [inode EXCEPT !.size = t]
  <1>1. alone /\ IsOpen(d) /\ right'
        /\ \A c \in Slots : files'[c].address = files[c].address
    BY WriteKeepsInv DEF Write, Returned
  <1>2. d = 0 /\ IsOpen(0) /\ e.inode_index = 0 /\ InodeOf(0) = inode /\ FilesWhole /\ FirstFile
    BY <1>1 DEF AloneInv, OpenInv, TablesInStep, InodeOf
  <1>3. a \in Nat /\ a # 0 /\ s \in Nat /\ len \in Nat /\ f \in Files /\ inode \in Inode /\ PAGE_SIZE \in Nat
    BY <1>2, SlotNumbers, UseAssumption, SizesAssumption
       DEF OpenInv, TablesInStep, TypeOK, IsOpen, Inode
  <1>4. lseek = 0 /\ 0 + len = len /\ disk_size[f] = s
    BY <1>2, <1>3 DEF Write, AsUsed, FirstFile
  <1>5. Write(0, len)
    BY <1>2
  <1>6. /\ inodes' = [inodes EXCEPT ![0] = grown]
        /\ disk_size' = update_inode(grown)
        /\ disk' = save_file(area', grown, a, 0)
    <2>1. inodes' = [inodes EXCEPT ![e.inode_index] = [InodeOf(0) EXCEPT !.size = Max({InodeOf(0).size, lseek + len})]]
      BY <1>2, <1>5, Zenon DEF Write
    <2>2. disk_size' = update_inode(grown)
      BY <1>2, <1>4, <1>5 DEF Write
    <2>3. disk' = save_file(area', grown, a, 0)
      <3>1. \E offset \in Offsets : disk' = save_file(area', grown, a, offset)
        BY <1>2, <1>4, <1>5, SMTT(30) DEF Write
      <3>2. QED
        BY <3>1 DEF AsUsed
    <2> HIDE DEF e, inode, lseek
    <2>4. QED
      BY <1>2, <1>4, <2>1, <2>2, <2>3
  <1>7. t \in Nat /\ t >= s /\ t >= len
    <2>1. s \in Int /\ len \in Int
      BY <1>3
    <2>2. t \in {s, len} /\ t >= s /\ t >= len
      BY <2>1, MaxOfTwo
    <2>3. QED
      BY <1>3, <2>2
  <1> HIDE DEF t
  <1>8. grown = [i_number |-> f, size |-> t]
    BY <1>3 DEF Inode
  <1> HIDE DEF grown
  <1>9. inodes'[0].i_number = f /\ inodes'[0].size = t
    BY <1>6, <1>8, SlotNumbers DEF OpenInv, TablesInStep, TypeOK
  <1>10. \A g \in Files : disk_size'[g] = IF g = f THEN t ELSE disk_size[g]
    BY <1>6, <1>8 DEF update_inode
  <1>11. files'[0].address = a
    BY <1>1, SlotNumbers
  <1>12. ~Outgrown(f)' =>
            /\ bytes_to_blocks(t) = b /\ b = DiskBlocks(f)
            /\ files'[0].pages_allocated = PagesOf(s)
            /\ \A p \in Pages : p \in a .. a + b - 1 => area'[p] = <<f, p - a>>
            /\ \A p \in Pages : p \notin a .. a + b - 1 => area'[p] = area[p]
    <2> SUFFICES ASSUME ~Outgrown(f)'
                 PROVE  /\ bytes_to_blocks(t) = b /\ b = DiskBlocks(f)
                        /\ files'[0].pages_allocated = PagesOf(s)
                        /\ \A p \in Pages : p \in a .. a + b - 1 => area'[p] = <<f, p - a>>
                        /\ \A p \in Pages : p \notin a .. a + b - 1 => area'[p] = area[p]
      OBVIOUS
    <2>1. DiskBlocks(f) * PAGE_SIZE \in Nat
      BY <1>3, OwnBlocks
    <2>2. t <= DiskBlocks(f) * PAGE_SIZE
      BY <1>3, <1>7, <1>9, <1>10, <2>1 DEF Outgrown
    <2>3. ~Outgrown(f)
      BY <1>3, <1>4, <1>7, <2>1, <2>2 DEF Outgrown
    <2>4. QED
      BY <1>2, <1>5, <2>2, <2>3, WriteWithinBlocks DEF t
  <1>13. /\ ~Outgrown(f)' => ~Outgrown(f)
         /\ \A g \in Files : g # f => (Outgrown(g)' <=> Outgrown(g))
    <2>1. DiskBlocks(f) * PAGE_SIZE \in Nat
      BY <1>3, OwnBlocks
    <2>2. ~Outgrown(f)' => ~Outgrown(f)
      BY <1>3, <1>4, <1>7, <1>9, <1>10, <2>1 DEF Outgrown
    <2>3. \A g \in Files : g # f => (Outgrown(g)' <=> Outgrown(g))
      BY <1>10 DEF Outgrown
    <2>4. QED
      BY <2>2, <2>3
  <1>14. NoneOutgrown' => NoneOutgrown /\ ~Outgrown(f)'
    BY <1>3, <1>13 DEF NoneOutgrown
  <1>15. /\ \A g \in Files : g # f => \A k \in 0 .. DiskBlocks(g) - 1 : disk'[<<g, k>>] = disk[<<g, k>>]
         /\ bytes_to_blocks(t) = DiskBlocks(f) => disk'[BootBlock] = disk[BootBlock]
         /\ bytes_to_blocks(t) = DiskBlocks(f)
              /\ (\A k \in 0 .. DiskBlocks(f) - 1 : a + k \in Pages /\ area'[a + k] = <<f, k>>)
              => \A k \in 0 .. DiskBlocks(f) - 1 : disk'[<<f, k>>] = <<f, k>>
    <2>1. disk' = save_file(area', [i_number |-> f, size |-> t], a, 0)
      BY <1>6, <1>8
    <2>2. \A g \in Files : g # f => \A k \in 0 .. DiskBlocks(g) - 1 : disk'[<<g, k>>] = disk[<<g, k>>]
      <3>1. a \in Nat /\ f \in Files /\ t \in Nat
        BY <1>3, <1>7
      <3>2. QED
        BY ONLY <2>1, <3>1, OthersAreNotSaved
    <2>3. bytes_to_blocks(t) = DiskBlocks(f) => disk'[BootBlock] = disk[BootBlock]
      <3>1. a \in Nat /\ f \in Files /\ t \in Nat
        BY <1>3, <1>7
      <3>2. QED
        BY ONLY <2>1, <3>1, BootBlockIsNotSaved
    <2>4. bytes_to_blocks(t) = DiskBlocks(f)
              /\ (\A k \in 0 .. DiskBlocks(f) - 1 : a + k \in Pages /\ area'[a + k] = <<f, k>>)
              => \A k \in 0 .. DiskBlocks(f) - 1 : disk'[<<f, k>>] = <<f, k>>
      <3>1. a \in Nat /\ f \in Files /\ t \in Nat
        BY <1>3, <1>7
      <3>2. QED
        BY ONLY <2>1, <3>1, SavedAsItIs
    <2>5. QED
      BY <2>2, <2>3, <2>4
  <1>16. ~Outgrown(f) => a + PagesOf(s) - 1 <= MaxPages
    BY <1>2 DEF FirstFile
  <1>17. NoneOutgrown => \A p \in Pages : p \notin a .. a + PagesOf(s) - 1 => area[p] = Unmapped
    BY <1>2 DEF FirstFile
  <1>18. b \in Nat /\ PagesOf(s) \in Nat \ {0} /\ b <= PagesOf(s)
    BY <1>3, BlocksOfSize
  <1>19. bytes_to_blocks(t) = b => PagesOf(t) = PagesOf(s)
    BY DEF PagesOf
  <1> HIDE DEF b
  <1>20. ~Outgrown(f)' => \A k \in 0 .. DiskBlocks(f) - 1 : disk'[<<f, k>>] = <<f, k>>
    <2> SUFFICES ASSUME ~Outgrown(f)' PROVE \A k \in 0 .. DiskBlocks(f) - 1 : disk'[<<f, k>>] = <<f, k>>
      OBVIOUS
    <2>1. ASSUME NEW k \in 0 .. DiskBlocks(f) - 1 PROVE a + k \in Pages /\ area'[a + k] = <<f, k>>
      <3>1. b = DiskBlocks(f) /\ a + PagesOf(s) - 1 <= MaxPages
        BY <1>12, <1>13, <1>16
      <3>2. a + k \in 1 .. MaxPages /\ a + k \in a .. a + b - 1 /\ (a + k) - a = k
        BY <1>3, <1>18, <2>1, <3>1, UseAssumption
      <3>3. QED
        BY <1>12, <3>2 DEF Pages
    <2>2. QED
      BY <1>12, <1>15, <2>1
  <1>21. FilesWhole'
    <2>1. ASSUME NEW g \in Files PROVE disk_size'[g] >= InitialSize[g]
      <3>1. disk_size[g] >= InitialSize[g] /\ disk_size[g] \in Nat /\ InitialSize[g] \in Nat
        BY <1>2, SizesAssumption DEF FilesWhole, OpenInv, TablesInStep, TypeOK
      <3>2. CASE g = f
        BY <1>3, <1>4, <1>7, <1>10, <3>1, <3>2
      <3>3. CASE g # f
        BY <1>10, <3>1, <3>3
      <3>4. QED
        BY <3>2, <3>3
    <2>2. ASSUME NEW g \in Files, ~Outgrown(g)' PROVE \A k \in 0 .. DiskBlocks(g) - 1 : disk'[<<g, k>>] = <<g, k>>
      <3>1. CASE g = f
        BY <1>20, <2>2, <3>1 DEF Outgrown
      <3>2. CASE g # f
        <4>1. ~Outgrown(g)
          BY <1>13, <2>2, <3>2
        <4>2. QED
          BY <1>2, <1>15, <3>2, <4>1 DEF FilesWhole
      <3>3. QED
        BY <3>1, <3>2
    <2>3. NoneOutgrown' => disk'[BootBlock] = BootBlock
      BY <1>2, <1>12, <1>14, <1>15 DEF FilesWhole
    <2>4. QED
      BY <2>1, <2>2, <2>3 DEF FilesWhole
  <1>22. FirstFile'
    <2>1. ~Outgrown(f)' =>
             /\ right'
             /\ files'[0].pages_allocated = PagesOf(t)
             /\ a + PagesOf(t) - 1 <= MaxPages
             /\ \A p \in Pages : p \in a .. a + bytes_to_blocks(t) - 1 => area'[p] = <<f, p - a>>
      BY <1>1, <1>12, <1>13, <1>16, <1>19
    <2>2. NoneOutgrown' => \A p \in Pages : p \notin a .. a + PagesOf(t) - 1 => area'[p] = Unmapped
      <3> SUFFICES ASSUME NoneOutgrown', NEW p \in Pages, p \notin a .. a + PagesOf(t) - 1
                   PROVE  area'[p] = Unmapped
        OBVIOUS
      <3>1. p \notin a .. a + PagesOf(s) - 1
        BY <1>12, <1>14, <1>19
      <3>2. p \notin a .. a + b - 1
        BY <1>3, <1>18, <3>1 DEF Pages
      <3>3. area'[p] = area[p] /\ area[p] = Unmapped
        BY <1>12, <1>14, <1>17, <3>1, <3>2
      <3>4. QED
        BY <3>3
    <2>3. disk_size'[f] = t
      BY <1>3, <1>10
    <2>4. files'[0].address # 0
      BY <1>3, <1>11
    <2>5. QED
      BY <1>9, <1>11, <2>1, <2>2, <2>3, <2>4 DEF FirstFile, IsOpen, Outgrown
  <1>23. \A c \in Slots : files'[c].address # 0 => c = 0
    BY <1>1 DEF AloneInv, IsOpen
  <1>24. QED
    BY <1>21, <1>22, <1>23 DEF AloneInv, IsOpen

LEMMA NextAloneInv ==
    ASSUME AsUsed, OpenInv, AloneInv, [Next]_vars
    PROVE  AloneInv'
  <1>1. ASSUME right' \/ right' = right,
               UNCHANGED <<files, inodes, file_virtual_address, area, disk, disk_size, alone>>
        PROVE  AloneInv'
    <2> SUFFICES ASSUME alone' PROVE AloneInv'
      BY DEF AloneInv
    <2>1. alone /\ FilesWhole /\ FirstFile /\ \A d \in Slots : IsOpen(d) => d = 0
      BY <1>1 DEF AloneInv
    <2>2. (NoneOutgrown' <=> NoneOutgrown) /\ FilesWhole'
      BY <1>1, <2>1 DEF NoneOutgrown, Outgrown, FilesWhole
    <2>3. FirstFile'
      BY <1>1, <2>1, <2>2 DEF FirstFile, IsOpen, Outgrown
    <2>4. QED
      BY <1>1, <2>1, <2>2, <2>3 DEF AloneInv, IsOpen
  <1>2. CASE UNCHANGED vars
    BY <1>1, <1>2 DEF vars
  <1>3. ASSUME NEW path, NEW flags \in Flags, sys_open(path, flags) PROVE AloneInv'
    BY <1>1, <1>3, OpenKeepsAlone DEF sys_open, OpenFails, Returned
  <1>4. ASSUME NEW d \in Slots, sys_close(d) PROVE AloneInv'
    <2>1. CASE IsOpen(d)
      BY <1>4, <2>1, CloseKeepsAlone
    <2>2. CASE ~IsOpen(d)
      BY <1>1, <1>4, <2>2 DEF sys_close, Refused, Returned
    <2>3. QED
      BY <2>1, <2>2
  <1>5. ASSUME NEW d \in Slots, NEW len \in Lengths, sys_write(d, len) \/ sys_read(d, len) PROVE AloneInv'
    <2>1. CASE Refused
      BY <1>1, <2>1 DEF Refused, Returned
    <2>2. QED
      BY <1>5, <2>1, WriteKeepsAlone, ReadKeepsAlone DEF sys_write, sys_read
  <1>6. QED
    BY <1>2, <1>3, <1>4, <1>5 DEF Next

LEMMA AloneInvariant ==
    ASSUME AsUsed
    PROVE  Spec => [](OpenInv /\ AloneInv)
  <1>1. ~MayReopen
    BY DEF AsUsed
  <1>2. QED
    BY <1>1, InitOpenInv, InitAloneInv, StepIsDescriptorStep, NextAloneInv, PTL DEF Spec

(* Used one at a time, a file that has not outgrown its blocks is in       *)
(* memory as it is on the disk, and read gives its bytes.                  *)
THEOREM FilesAreLoaded ==
    ASSUME AsUsed
    PROVE  Spec => []PagesHoldTheFile
  <1>1. OpenInv /\ AloneInv => PagesHoldTheFile
    <2> SUFFICES ASSUME OpenInv, AloneInv, alone, NEW d \in Slots, IsOpen(d),
                        ~Outgrown(InodeOf(d).i_number)
                 PROVE  /\ right
                        /\ \A k \in 0 .. bytes_to_blocks(InodeOf(d).size) - 1 :
                              /\ files[d].address + k \in Pages
                              /\ area[files[d].address + k] = <<InodeOf(d).i_number, k>>
      BY DEF PagesHoldTheFile
    <2> DEFINE a == files[0].address
               s == inodes[0].size
               f == inodes[0].i_number
    <2>1. d = 0 /\ InodeOf(d) = inodes[0]
      BY DEF AloneInv, OpenInv, TablesInStep, InodeOf
    <2>2. a \in Nat /\ a # 0 /\ s \in Nat
      BY <2>1, SlotNumbers, UseAssumption DEF OpenInv, TablesInStep, TypeOK, IsOpen
    <2>3. /\ right
          /\ a + PagesOf(s) - 1 <= MaxPages
          /\ \A p \in Pages : p \in a .. a + bytes_to_blocks(s) - 1 => area[p] = <<f, p - a>>
      BY <2>1 DEF AloneInv, FirstFile
    <2>4. bytes_to_blocks(s) \in Nat /\ PagesOf(s) \in Nat /\ bytes_to_blocks(s) <= PagesOf(s)
      BY <2>2, BlocksOfSize
    <2> HIDE DEF a, s, f
    <2>5. ASSUME NEW k \in 0 .. bytes_to_blocks(s) - 1 PROVE a + k \in Pages /\ area[a + k] = <<f, k>>
      <3>1. a + k \in 1 .. MaxPages /\ a + k \in a .. a + bytes_to_blocks(s) - 1 /\ (a + k) - a = k
        BY <2>2, <2>3, <2>4, <2>5, UseAssumption
      <3>2. QED
        BY <2>3, <3>1 DEF Pages
    <2>6. QED
      BY <2>1, <2>3, <2>5 DEF a, f, s
  <1>2. QED
    BY <1>1, AloneInvariant, PTL

(* Then no save damages a file on the disk that has not outgrown its       *)
(* blocks, and none damages the boot block before a file has.              *)
THEOREM FilesAreSaved ==
    ASSUME AsUsed
    PROVE  Spec => []DiskHoldsTheFiles
  <1>1. AloneInv => DiskHoldsTheFiles
    BY DEF AloneInv, FilesWhole, DiskHoldsTheFiles
  <1>2. QED
    BY <1>1, AloneInvariant, PTL

(* And until a file has, closing one unmaps every page that opening it has *)
(* mapped.                                                                 *)
THEOREM CloseUnmapsAll ==
    ASSUME AsUsed
    PROVE  Spec => []NothingMappedWhenClosed
  <1>1. AloneInv => NothingMappedWhenClosed
    BY SlotNumbers DEF AloneInv, FirstFile, NothingMappedWhenClosed
  <1>2. QED
    BY <1>1, AloneInvariant, PTL
=============================================================================
