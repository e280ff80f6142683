----------------------------- MODULE VsfsProofs ------------------------------
(***************************************************************************)
(* Proofs about Vsfs: the file system that create_file leaves behind,      *)
(* wherever the power is lost.                                             *)
(***************************************************************************)
EXTENDS Vsfs, FiniteSetTheorems, SequenceTheorems, WellFoundedInduction, TLAPS

(* The two numbers and the two blocks that create_file ever gives: those   *)
(* of the superblock first, those of the bitmaps ever after, which are an  *)
(* old file's.                                                             *)
NewNumbers == {num_inodes, ReservedInodes}
Spare == first_data_block + ReservedBlocks

FreeBits == [first_free_inode_bit : NewNumbers,
             first_free_data_bit : {first_data_block + file_blocks, ReservedBlocks}]
Calls == [parent : InodeType, new : InodeType, name : EntryNames \ {"content"}]
BlockType == [Slots -> EntryType]

(* The types, with what makes a number that is read from a directory that  *)
(* of an inode: -1 stands in what is no entry only.                        *)
TypeInv ==
    /\ block \in [BlockNumbers -> BlockType]
    /\ \A b \in BlockNumbers, j \in Slots : block[b][j].i_number = -1 => block[b][j].name = "content"
    /\ inode \in [Inodes -> InodeType]
    /\ disk_bits \in FreeBits /\ superblock \in FreeBits
    /\ boot_bits \subseteq Nat
    /\ root_inode \in InodeType /\ current_dir_inode \in InodeType
    /\ call \in Calls
    /\ pc \in Writes \cup {"idle"}
    /\ pc # "idle" => call.new.i_number \in NewNumbers
    /\ crashes \in 0 .. MaxCrashes
    /\ given \in Seq(Inodes)

(* The inodes in memory are those on the disk but while create_file has    *)
(* written the root's pointers and not yet its size.                       *)
RootInFlight == pc \in {"entry", "size"} /\ call.parent.i_number = 1

CacheInv ==
    /\ TypeInv
    /\ \A dir \in {inode[1], root_inode, current_dir_inode} : dir.i_number = 1
    /\ RootInFlight \/ (root_inode = inode[1] /\ current_dir_inode = inode[1])
    /\ pc = "idle" => superblock = disk_bits

(* The bitmap's number is not given before the second call.                *)
GivenInv ==
    /\ Len(given) = 0 => /\ pc = "idle" /\ superblock.first_free_inode_bit = num_inodes
                         /\ disk_bits.first_free_inode_bit = num_inodes
    /\ pc # "idle" /\ call.new.i_number = ReservedInodes => Len(given) > 1

(* What create_file takes for a directory: the root, sub, or for a path    *)
(* that leads nowhere an inode of zeroes.  The second block is block 0 and *)
(* the third the spare one, if there is one.                               *)
OwnBlock(i) == first_data_block + i - 1
IsDirectory(dir, i) ==
    /\ dir.i_number = i /\ dir.size >= 1
    /\ dir.direct_pointers[0] = OwnBlock(i) /\ dir.direct_pointers[1] = 0
    /\ dir.direct_pointers[2] \in {0, Spare}
IsMissing(dir) ==
    /\ dir.i_number = 0 /\ dir.size = 0
    /\ dir.direct_pointers[0] = 0 /\ dir.direct_pointers[2] = 0
    /\ dir.direct_pointers[1] \in {0, Spare}

IsParent(dir) == IsMissing(dir) \/ \E i \in Directories : IsDirectory(dir, i)

ReadBlocks == {0, first_data_block, first_data_block + 4, Spare}
FormattedEntries ==
    {Entry(1, "."), Entry(1, ".."), Entry(2, "prekernel.bin"), Entry(3, "kernel.bin"),
     Entry(4, "old"), Entry(5, "sub"), Entry(5, ".")}
CreatedEntries == {Entry(i, name) : i \in NewNumbers, name \in Names}
(* What the inode behind the block of inodes makes of the root's ".".      *)
RootSlot == Entry(num_inodes, "content")
KnownEntries == {Empty, Content, RootSlot} \cup FormattedEntries \cup CreatedEntries

AfterNewInode == {"clear_block", "parent", "entry", "size", "superblock"}

LayoutInv ==
    /\ CacheInv
    /\ GivenInv
    /\ pc \in AfterNewInode \cup {"new_inode"} => superblock.first_free_data_bit = ReservedBlocks
    /\ pc = "clear_block" => Grows
    /\ \A i \in Others : inode[i] # Formatted[i] => i = ReservedInodes /\ Len(given) > 1
    /\ \A i \in Others : OwnBlock(i) # Spare => block[OwnBlock(i)] = FormattedBlocks[OwnBlock(i)]
    /\ \A i \in Directories : IsDirectory(inode[i], i)
    /\ IsDirectory(root_inode, 1) /\ IsDirectory(current_dir_inode, 1)
    /\ IsParent(call.parent)
    /\ pc # "idle" => call.name \in Names
    /\ \A b \in ReadBlocks, j \in Slots : block[b][j] \in KnownEntries
    /\ block[first_data_block][1] \in {Entry(1, "."), RootSlot}

(* An entry is written after the inode it leads to.                        *)
EntryInv ==
    /\ LayoutInv
    /\ pc \in AfterNewInode => inode[call.new.i_number].i_number = call.new.i_number
    /\ \A b \in ReadBlocks, j \in Slots :
        block[b][j].i_number \in NewNumbers => inode[block[b][j].i_number].i_number = block[b][j].i_number

(* The entries of a directory that its size counts, or will when the entry *)
(* just written is counted; and the calls that have written their entries. *)
Counted(d) == IF pc = "size" /\ call.parent.i_number = d THEN inode[d].size + 1 ELSE inode[d].size
BeforeEntry == {"data_bitmap", "new_inode", "clear_block", "parent", "entry"}
Written == IF pc \in BeforeEntry THEN Len(given) - 1 ELSE Len(given)

(* What keeps the first entry of a name the first: a directory's own block *)
(* is full before the next is read, and a block is used from its beginning.*)
NameInv ==
    /\ LayoutInv
    /\ Len(given) <= MaxCalls
    /\ pc \in BeforeEntry \cup {"size"} =>
        \A d \in Directories : call.parent.i_number = d => call.parent.size = inode[d].size
    /\ \A d \in Directories :
        /\ Counted(d) <= 6 + Written
        /\ \A j \in Slots : j <= Counted(d) => block[OwnBlock(d)][j].i_number # 0
    /\ \A b \in ReadBlocks \ {Spare}, j \in Slots, k \in Slots :
        j < k /\ block[b][k].i_number \notin {0, -1} => block[b][j].i_number # 0

(* As long as the power has not been lost, no entry is used that the size  *)
(* does not count, a call for each entry that a directory or block 0 has   *)
(* got has been made, and the last entry written is where it will be read. *)
BootEntriesUsed == {j \in BootEntries : block[0][j].i_number # 0}
InOwnBlock(d) == IF Counted(d) <= DIR_ENTRIES_PER_BLOCK THEN Counted(d) ELSE DIR_ENTRIES_PER_BLOCK

EntryIsThere ==
    \E k \in {0, 1}, j \in Slots :
        /\ k = 1 => DIR_ENTRIES_PER_BLOCK < call.parent.size + 1
        /\ block[PointerAt(call.parent, k)][j] = Entry(call.new.i_number, call.name)

FoundInv ==
    /\ NameInv
    /\ crashes = 0 =>
        /\ \A d \in Directories :
            /\ \A j \in Slots : Counted(d) < j => block[OwnBlock(d)][j].i_number = 0
            /\ Cardinality(BootEntriesUsed) + InOwnBlock(d) - 6 <= Written
        /\ pc \notin BeforeEntry /\ call.parent.i_number # 0 =>
            /\ EntryIsThere /\ call.new.i_number \in NewNumbers
            /\ pc # "size" => inode[call.parent.i_number].size = call.parent.size + 1

(* The first file's number and block, and who does not have them.          *)
Elsewhere(dir) == \A k \in Pointer : dir.direct_pointers[k] # FirstNewBlock

BeforeInode == {"data_bitmap", "new_inode"}
FirstTaken == Len(given) > 1 \/ (Len(given) = 1 /\ pc # "data_bitmap")
FirstDone == Len(given) > 1 \/ (Len(given) = 1 /\ pc \notin BeforeInode)

GivenApart ==
    /\ superblock.first_free_inode_bit = IF Len(given) = 0 THEN num_inodes ELSE ReservedInodes
    /\ superblock.first_free_data_bit = IF FirstTaken THEN ReservedBlocks ELSE first_data_block + file_blocks
    /\ Len(given) > 0 => given[1] = num_inodes
    /\ \A k \in 2 .. Len(given) : given[k] = ReservedInodes

CallApart ==
    /\ pc # "idle" => call.new.i_number = IF Len(given) = 1 THEN num_inodes ELSE ReservedInodes
    /\ pc = "new_inode" =>
        call.new.direct_pointers[0] = IF Len(given) = 1 THEN FirstNewBlock ELSE Spare
    /\ pc \in BeforeInode => \A k \in Pointer : k # 0 => call.new.direct_pointers[k] = 0

FirstIsWritten ==
    /\ inode[num_inodes].i_number = num_inodes
    /\ inode[num_inodes].direct_pointers[0] = FirstNewBlock
    /\ block[first_data_block][1] = RootSlot

DiskApart ==
    /\ \A i \in Inodes : i # num_inodes => Elsewhere(inode[i])
    /\ FirstDone => FirstIsWritten

ApartInv == LayoutInv /\ (crashes = 0 => GivenApart /\ CallApart /\ DiskApart)

-----------------------------------------------------------------------------
(* The numbers the definitions of Vsfs come to.                            *)
LEMMA Sizes ==
    /\ DIR_ENTRIES_PER_BLOCK \in Nat /\ DIR_ENTRIES_PER_BLOCK >= 7
    /\ ReservedInodes \in Nat /\ ReservedInodes >= 6 /\ ReservedInodes < DIR_ENTRIES_PER_BLOCK
    /\ ReservedBlocks \in Nat /\ ReservedBlocks >= 5 /\ ReservedBlocks < DIR_ENTRIES_PER_BLOCK - 1
    /\ INODES_PER_BLOCK = DIR_ENTRIES_PER_BLOCK
    /\ num_inodes = DIR_ENTRIES_PER_BLOCK /\ file_blocks = DIR_ENTRIES_PER_BLOCK - 1
    /\ Numbered = 1 .. DIR_ENTRIES_PER_BLOCK - 1
    /\ 1 \in Slots
  <1>1. /\ DIR_ENTRIES_PER_BLOCK \in Nat
        /\ ReservedInodes \in 6 .. DIR_ENTRIES_PER_BLOCK - 1
        /\ ReservedBlocks \in 5 .. DIR_ENTRIES_PER_BLOCK - 2
    BY VsfsAssumption
  <1>2. QED
    BY <1>1 DEF INODES_PER_BLOCK, num_inodes, num_files, file_blocks, Numbered, Slots

LEMMA Numbering ==
    /\ find_free_bit(InodeBitmap) = ReservedInodes /\ find_free_bit(DataBitmap) = ReservedBlocks
    /\ Inodes = 0 .. DIR_ENTRIES_PER_BLOCK + ReservedInodes
    /\ BlockNumbers = {0} \cup first_data_block .. first_data_block + file_blocks - 1 \cup {FirstNewBlock, Spare}
  <1>1. ASSUME NEW n \in 1 .. 31
        PROVE  find_free_bit(0 .. n - 1) = n
    <2> DEFINE Free == BitmapBits \ (0 .. n - 1)
    <2>1. Free = n .. 31
      BY DEF BitmapBits
    <2>2. Min(Free) = n
      BY <2>1 DEF Min
    <2>3. ~(BitmapBits \subseteq 0 .. n - 1)
      BY DEF BitmapBits
    <2>4. QED
      BY <2>2, <2>3 DEF find_free_bit
  <1>2. find_free_bit(InodeBitmap) = ReservedInodes /\ find_free_bit(DataBitmap) = ReservedBlocks
    <2>1. ReservedInodes \in 1 .. 31 /\ ReservedBlocks \in 1 .. 31
      BY Sizes, VsfsAssumption
    <2>2. QED
      BY <1>1, <2>1 DEF InodeBitmap, DataBitmap
  <1>3. Inodes = 0 .. DIR_ENTRIES_PER_BLOCK + ReservedInodes
    BY <1>2, Sizes DEF Inodes
  <1>4. QED
    BY <1>2, <1>3 DEF BlockNumbers, Spare

(* The numbers of the directories and the files, and those that are given. *)
LEMMA NumbersDiffer ==
    /\ NewNumbers \subseteq Inodes /\ Numbered \subseteq Inodes /\ 0 .. 5 \subseteq Inodes
    /\ Directories \subseteq Numbered /\ Others \subseteq Numbered
    /\ num_inodes \in Inodes /\ num_inodes \notin Numbered /\ num_inodes # ReservedInodes
    /\ \A i \in NewNumbers : i \in Nat /\ i > 5
    /\ \A i \in 1 .. 5 : i \in Numbered /\ i \notin NewNumbers
    /\ \A i \in Inodes : i \in Nat
    /\ \A i \in Numbered : i \notin Directories => i \in Others
  BY Sizes, Numbering DEF NewNumbers, Directories, Others

(* The blocks are different ones, but that the spare one is an old file's. *)
LEMMA BlocksDiffer ==
    /\ first_data_block \in Nat /\ first_data_block >= 1
    /\ ReadBlocks \subseteq BlockNumbers /\ FirstNewBlock \in BlockNumbers
    /\ OwnBlock(1) = first_data_block /\ OwnBlock(5) = first_data_block + 4
    /\ \A i \in Numbered : OwnBlock(i) \in BlockNumbers /\ OwnBlock(i) # 0 /\ OwnBlock(i) # FirstNewBlock
    /\ \A i \in Directories : OwnBlock(i) \in BlockNumbers /\ OwnBlock(i) # 0 /\ OwnBlock(i) # Spare
    /\ Spare # 0 /\ FirstNewBlock # 0 /\ FirstNewBlock # Spare
    /\ first_data_block \in ReadBlocks \ {Spare} /\ first_data_block # 0
    /\ \A i \in Others : OwnBlock(i) \notin ReadBlocks \/ OwnBlock(i) = Spare
  <1>1. first_data_block \in Nat /\ first_data_block >= 1
    BY VsfsAssumption
  <1>2. QED
    BY <1>1, Sizes, Numbering DEF ReadBlocks, Spare, FirstNewBlock, OwnBlock, Directories, Others

(* The first of the places in a set: it is there, and it is the only one   *)
(* before all others.                                                      *)
LEMMA LeastNumber ==
    ASSUME NEW S \in SUBSET Nat, S # {}
    PROVE  \E x \in S : \A y \in S : x <= y
  <1> DEFINE R == {ss \in Nat \X Nat : ss[1] < ss[2]}
  <1>1. IsWellFoundedOn(R, Nat)
    BY NatLessThanWellFounded, Zenon DEF OpToRel
  <1> HIDE DEF R
  <1>2. PICK x \in S : \A y \in S : <<y, x>> \notin R
    BY <1>1, WFMin
  <1>3. ASSUME NEW y \in S PROVE x <= y
    <2>1. y \in Nat /\ x \in Nat /\ <<y, x>> \in Nat \X Nat /\ <<y, x>>[1] = y /\ <<y, x>>[2] = x
      OBVIOUS
    <2>2. ~(y < x)
      BY <1>2, <2>1 DEF R
    <2>3. QED
      BY <2>1, <2>2
  <1>4. QED
    BY <1>3

AllPlaces == Nat \X Slots

LEMMA FirstIsFound ==
    ASSUME NEW S \in SUBSET AllPlaces, S # {}
    PROVE  FirstPlace(S) \in S /\ \A q \in S \ {FirstPlace(S)} : Before(FirstPlace(S), q)
  <1> DEFINE Rows == {q[1] : q \in S}
  <1>1. Rows \subseteq Nat /\ Rows # {}
    BY DEF AllPlaces
  <1>2. PICK k \in Rows : \A y \in Rows : k <= y
    BY <1>1, LeastNumber
  <1> DEFINE Columns == {q[2] : q \in {p \in S : p[1] = k}}
  <1>3. Columns \subseteq Nat /\ Columns # {}
    BY <1>2, VsfsAssumption DEF AllPlaces, Slots
  <1>4. PICK s \in Columns : \A y \in Columns : s <= y
    BY <1>3, LeastNumber
  <1>5. <<k, s>> \in S
    <2>1. PICK p \in S : p[1] = k /\ p[2] = s
      BY <1>4
    <2>2. QED
      BY <2>1 DEF AllPlaces
  <1>6. ASSUME NEW q \in S \ {<<k, s>>} PROVE Before(<<k, s>>, q)
    <2>1. q = <<q[1], q[2]>> /\ q[1] \in Nat /\ q[2] \in Nat /\ k \in Nat /\ s \in Nat
      BY <1>1, <1>3, VsfsAssumption DEF AllPlaces, Slots
    <2>2. k <= q[1]
      BY <1>2
    <2>3. q[1] = k => s <= q[2]
      BY <1>4
    <2>4. <<k, s>>[1] = k /\ <<k, s>>[2] = s
      OBVIOUS
    <2>5. QED
      BY <2>1, <2>2, <2>3, <2>4 DEF Before
  <1>7. QED
    BY <1>5, <1>6 DEF FirstPlace

LEMMA FirstIsUnique ==
    ASSUME NEW S \in SUBSET AllPlaces, NEW p \in S, \A q \in S \ {p} : Before(p, q)
    PROVE  FirstPlace(S) = p
  <1> DEFINE f == FirstPlace(S)
  <1>1. f \in S /\ \A q \in S \ {f} : Before(f, q)
    BY FirstIsFound
  <1> HIDE DEF f
  <1>2. SUFFICES ASSUME f # p PROVE FALSE
    BY DEF f
  <1>3. Before(f, p) /\ Before(p, f)
    BY <1>1, <1>2
  <1>4. f[1] \in Nat /\ f[2] \in Nat /\ p[1] \in Nat /\ p[2] \in Nat
    BY <1>1, VsfsAssumption DEF AllPlaces, Slots
  <1>5. QED
    BY <1>3, <1>4 DEF Before

-----------------------------------------------------------------------------
(* How many blocks a size needs.                                           *)
LEMMA BlocksOfSize ==
    ASSUME NEW size \in Nat
    PROVE  /\ bytes_to_blocks(size) \in Nat
           /\ 0 < bytes_to_blocks(size) <=> 0 < size
           /\ 1 < bytes_to_blocks(size) <=> DIR_ENTRIES_PER_BLOCK < size
           /\ 2 < bytes_to_blocks(size) <=> 2 * DIR_ENTRIES_PER_BLOCK < size
  <1> DEFINE D == DIR_ENTRIES_PER_BLOCK
             n == size + D - 1
             b == bytes_to_blocks(size)
  <1>1. D \in Int /\ D > 0 /\ n \in Int /\ n \in Nat
    BY VsfsAssumption
  <1>2. b = n \div D
    BY DEF bytes_to_blocks
  <1>3. b \in Nat /\ n % D \in 0 .. D - 1
    BY <1>1, <1>2
  <1>4. n = D * b + (n % D)
    BY <1>1, <1>2
  <1>5. n + 1 = size + D
    BY <1>1
  <1> HIDE DEF n, b, D
  <1>6. D * b \in Nat /\ D * b <= n /\ n < D * b + D
    BY <1>1, <1>3, <1>4
  <1>7. (b <= 0 => D * b <= 0) /\ (b <= 1 => D * b <= D) /\ (b <= 2 => D * b <= 2 * D)
    BY <1>1, <1>3
  <1>8. (1 <= b => D <= D * b) /\ (2 <= b => 2 * D <= D * b) /\ (3 <= b => 3 * D <= D * b)
    BY <1>1, <1>3
  <1>9. /\ b \in Nat /\ (0 < b <=> 0 < size) /\ (1 < b <=> D < size) /\ (2 < b <=> 2 * D < size)
    BY <1>1, <1>3, <1>5, <1>6, <1>7, <1>8
  <1>10. QED
    BY <1>9 DEF b, D

LEMMA OneMoreEntry ==
    ASSUME NEW size \in Nat
    PROVE  /\ bytes_to_blocks(size) <= bytes_to_blocks(size + 1) \/ bytes_to_blocks(size + 1) > 2
           /\ bytes_to_blocks(size) < 2 => bytes_to_blocks(size + 1) <= bytes_to_blocks(size) + 1
  <1>1. size + 1 \in Nat /\ DIR_ENTRIES_PER_BLOCK \in Nat /\ DIR_ENTRIES_PER_BLOCK >= 6
    BY VsfsAssumption
  <1> DEFINE b == bytes_to_blocks(size)
             c == bytes_to_blocks(size + 1)
  <1>2. /\ b \in Nat /\ (0 < b <=> 0 < size) /\ (1 < b <=> DIR_ENTRIES_PER_BLOCK < size)
        /\ (2 < b <=> 2 * DIR_ENTRIES_PER_BLOCK < size)
    BY BlocksOfSize
  <1>3. /\ c \in Nat /\ (0 < c <=> 0 < size + 1) /\ (1 < c <=> DIR_ENTRIES_PER_BLOCK < size + 1)
        /\ (2 < c <=> 2 * DIR_ENTRIES_PER_BLOCK < size + 1)
    BY <1>1, BlocksOfSize
  <1> HIDE DEF b, c
  <1>4. (b <= c \/ c > 2) /\ (b < 2 => c <= b + 1)
    BY <1>1, <1>2, <1>3
  <1>5. QED
    BY <1>4 DEF b, c

LEMMA PlacesArePlaces ==
    ASSUME NEW size \in Nat
    PROVE  PlacesOf(bytes_to_blocks(size)) \subseteq AllPlaces
  <1>1. bytes_to_blocks(size) \in Nat
    BY BlocksOfSize
  <1>2. 0 .. bytes_to_blocks(size) - 1 \subseteq Nat
    BY <1>1
  <1>3. QED
    BY <1>2 DEF PlacesOf, AllPlaces

LEMMA InodeFields ==
    ASSUME NEW dir \in InodeType
    PROVE  /\ dir.i_number \in Inodes /\ dir.size \in Nat
           /\ dir.direct_pointers \in [Pointer -> BlockNumbers]
           /\ \A k : PointerAt(dir, k) \in BlockNumbers
           /\ PointerAt(dir, 0) = dir.direct_pointers[0]
           /\ PointerAt(dir, 1) = dir.direct_pointers[1]
           /\ PointerAt(dir, 2) = dir.direct_pointers[2]
  <1>1. 0 \in BlockNumbers /\ 0 \in Pointer /\ 1 \in Pointer /\ 2 \in Pointer
    BY DEF BlockNumbers, Pointer
  <1>2. QED
    BY <1>1 DEF InodeType, PointerAt

LEMMA EntryAtPlace ==
    ASSUME TypeInv, NEW dir \in InodeType, NEW p \in AllPlaces
    PROVE  At(dir, p) \in EntryType /\ (At(dir, p).i_number = -1 => At(dir, p).name = "content")
  <1>1. PointerAt(dir, p[1]) \in BlockNumbers /\ p[2] \in Slots
    BY InodeFields DEF AllPlaces
  <1>2. QED
    BY <1>1 DEF TypeInv, BlockType, At

LEMMA InodeThatIsFound ==
    ASSUME TypeInv, NEW dir \in InodeType, NEW name, name # "content"
    PROVE  /\ NumberIn(dir, name) \in Inodes
           /\ NumberIn(dir, name) # 0 =>
                \E p \in AllPlaces : At(dir, p).i_number = NumberIn(dir, name) /\ At(dir, p).name = name
  <1> DEFINE M == Matches(dir, name)
  <1>1. M \subseteq AllPlaces
    BY PlacesArePlaces, InodeFields DEF Matches
  <1>2. CASE M = {}
    BY <1>2, NumbersDiffer DEF NumberIn
  <1>3. CASE M # {}
    <2>1. FirstPlace(M) \in M
      BY <1>1, <1>3, FirstIsFound
    <2>2. At(dir, FirstPlace(M)).name = name /\ FirstPlace(M) \in AllPlaces
      BY <1>1, <2>1 DEF Matches
    <2>3. At(dir, FirstPlace(M)).i_number \in Inodes
      BY <2>2, EntryAtPlace DEF EntryType
    <2>4. NumberIn(dir, name) = At(dir, FirstPlace(M)).i_number
      BY <1>3 DEF NumberIn
    <2>5. QED
      BY <2>2, <2>3, <2>4
  <1>4. QED
    BY <1>2, <1>3

-----------------------------------------------------------------------------
(* The types.                                                              *)
LEMMA NoInodeType == NoInode \in InodeType /\ NoInode.i_number = 0
  <1>1. 0 \in Inodes /\ 0 \in BlockNumbers
    BY NumbersDiffer, BlocksDiffer DEF ReadBlocks
  <1>2. QED
    BY <1>1 DEF NoInode, Inode, InodeType, Pointer

LEMMA EntriesFromType ==
    ASSUME NEW n \in Nat, NEW entries \in [1 .. n -> EntryType], Len(entries) = n, Empty \in EntryType
    PROVE  EntriesFrom(entries) \in BlockType
  BY DEF EntriesFrom, BlockType, Slots

LEMMA FormattedTypes ==
    /\ FormattedBlocks \in [BlockNumbers -> BlockType]
    /\ \A b \in BlockNumbers, j \in Slots : FormattedBlocks[b][j] \in {Empty, Content} \cup FormattedEntries
    /\ Formatted \in [Inodes -> InodeType]
    /\ \A i \in Numbered : Formatted[i].i_number = i
  <1>1. {Empty, Content} \cup FormattedEntries \subseteq EntryType
    <2>1. ASSUME NEW i \in Inodes \cup {-1}, NEW name \in EntryNames PROVE Entry(i, name) \in EntryType
      BY DEF Entry, EntryType
    <2>2. 0 \in Inodes /\ 1 \in Inodes /\ 2 \in Inodes /\ 3 \in Inodes /\ 4 \in Inodes /\ 5 \in Inodes
      BY NumbersDiffer
    <2>3. QED
      BY <2>1, <2>2 DEF Empty, Content, FormattedEntries, EntryNames, RootFiles
  <1>2. ASSUME NEW j \in Slots
        PROVE  /\ RootEntries[j] \in {Empty, Content} \cup FormattedEntries
               /\ SubEntries[j] \in {Empty, Content} \cup FormattedEntries
    <2>1. j \in Nat /\ j >= 1
      BY VsfsAssumption DEF Slots
    <2>2. RootEntries[j] \in {Empty, Content} \cup FormattedEntries
      <3> DEFINE r == <<Entry(1, "."), Entry(1, ".."), Entry(2, "prekernel.bin"),
                        Entry(3, "kernel.bin"), Entry(4, "old"), Entry(5, "sub")>>
      <3>1. RootEntries[j] = IF j <= Len(r) THEN r[j] ELSE Empty
        BY DEF RootEntries, EntriesFrom
      <3>2. Len(r) = 6
        OBVIOUS
      <3>3. j <= 6 => j \in {1, 2, 3, 4, 5, 6}
        BY <2>1
      <3>4. QED
        BY <3>1, <3>2, <3>3 DEF FormattedEntries
    <2>3. SubEntries[j] \in {Empty, Content} \cup FormattedEntries
      <3> DEFINE r == <<Entry(5, "."), Entry(1, "..")>>
      <3>1. SubEntries[j] = IF j <= Len(r) THEN r[j] ELSE Empty
        BY DEF SubEntries, EntriesFrom
      <3>2. Len(r) = 2
        OBVIOUS
      <3>3. j <= 2 => j \in {1, 2}
        BY <2>1
      <3>4. QED
        BY <3>1, <3>2, <3>3 DEF FormattedEntries
    <2>4. QED
      BY <2>2, <2>3
  <1>3. DOMAIN RootEntries = Slots /\ DOMAIN SubEntries = Slots
    BY DEF RootEntries, SubEntries, EntriesFrom
  <1>4. RootEntries \in BlockType /\ SubEntries \in BlockType
    BY <1>1, <1>2, <1>3 DEF BlockType, RootEntries, SubEntries, EntriesFrom
  <1>5. \A b \in BlockNumbers, j \in Slots : FormattedBlocks[b][j] \in {Empty, Content} \cup FormattedEntries
    BY <1>2 DEF FormattedBlocks
  <1>6. Empty \in EntryType /\ Content \in EntryType
    BY <1>1
  <1>7. FormattedBlocks \in [BlockNumbers -> BlockType]
    BY <1>4, <1>6 DEF FormattedBlocks, BlockType
  <1>8. ASSUME NEW i \in Inodes, NEW size \in Nat, NEW b \in BlockNumbers PROVE Inode(i, size, b) \in InodeType
    BY <1>8, Numbering DEF Inode, InodeType, Pointer
  <1>9. \A i \in Numbered : i \in Inodes /\ first_data_block + i - 1 \in BlockNumbers
    BY BlocksDiffer, NumbersDiffer DEF OwnBlock
  <1>10. Formatted \in [Inodes -> InodeType]
    <2>1. num_files - 2 \in Nat
      BY Sizes DEF num_files
    <2>2. QED
      BY <1>8, <1>9, <2>1, NoInodeType DEF Formatted
  <1>11. \A i \in Numbered : Formatted[i].i_number = i
    BY <1>9 DEF Formatted, Inode
  <1>12. QED
    BY <1>5, <1>7, <1>10, <1>11

LEMMA FormattedPointers ==
    \A i \in Numbered : /\ Formatted[i].direct_pointers[0] = OwnBlock(i)
                        /\ \A k \in Pointer : k # 0 => Formatted[i].direct_pointers[k] = 0
  BY NumbersDiffer DEF Formatted, Inode, Pointer, OwnBlock

LEMMA InitTypeInv == Init => TypeInv
  <1> SUFFICES ASSUME Init PROVE TypeInv
    OBVIOUS
  <1>1. block \in [BlockNumbers -> BlockType] /\ inode \in [Inodes -> InodeType] /\ 1 \in Inodes
    BY FormattedTypes, NumbersDiffer DEF Init
  <1>2. \A b \in BlockNumbers, j \in Slots : block[b][j].i_number = -1 => block[b][j].name = "content"
    <2>1. Empty.i_number = 0 /\ Content.name = "content" /\ \A e \in FormattedEntries : e.i_number \in 1 .. 5
      BY DEF Empty, Content, FormattedEntries, Entry
    <2>2. QED
      BY <2>1, FormattedTypes DEF Init
  <1>3. disk_bits \in FreeBits /\ superblock \in FreeBits
    BY DEF Init, Bits, FreeBits, NewNumbers
  <1>4. call \in Calls
    <2>1. "" \in EntryNames \ {"content"}
      BY DEF EntryNames
    <2>2. QED
      BY <2>1, NoInodeType DEF Init, NoCall, Calls
  <1>5. given \in Seq(Inodes) /\ boot_bits \subseteq Nat /\ crashes \in 0 .. MaxCrashes
    BY VsfsAssumption DEF Init
  <1>6. QED
    BY <1>1, <1>2, <1>3, <1>4, <1>5 DEF Init, TypeInv

LEMMA ParentType ==
    ASSUME TypeInv, NEW place \in Places
    PROVE  get_parent_inode(place) \in InodeType
  <1>1. place # "content"
    BY VsfsAssumption
  <1>2. NumberIn(root_inode, place) \in Inodes
    BY <1>1, InodeThatIsFound DEF TypeInv
  <1>3. get_inode_in_dir(root_inode, place) \in InodeType
    BY <1>2, NoInodeType DEF get_inode_in_dir, TypeInv
  <1>4. QED
    BY <1>3 DEF get_parent_inode, TypeInv

(* What the writes make of the variables.                                  *)
LEMMA GivenBlock ==
    ASSUME TypeInv
    PROVE  /\ first_data_block + superblock.first_free_data_bit \in {FirstNewBlock, Spare}
           /\ {FirstNewBlock, Spare} \subseteq BlockNumbers
  BY Numbering DEF TypeInv, FreeBits, FirstNewBlock, Spare

LEMMA SuperblockWith ==
    ASSUME TypeInv
    PROVE  /\ [superblock EXCEPT !.first_free_inode_bit = find_free_bit(InodeBitmap)] =
                  Bits(ReservedInodes, superblock.first_free_data_bit)
           /\ [superblock EXCEPT !.first_free_data_bit = find_free_bit(DataBitmap)] =
                  Bits(superblock.first_free_inode_bit, ReservedBlocks)
           /\ Bits(ReservedInodes, superblock.first_free_data_bit) \in FreeBits
           /\ Bits(superblock.first_free_inode_bit, ReservedBlocks) \in FreeBits
  BY Numbering DEF TypeInv, FreeBits, Bits, NewNumbers

LEMMA BeginResult ==
    ASSUME TypeInv, NEW place \in Places, NEW name \in Names, Begin(place, name)
    PROVE  /\ call' \in Calls /\ call'.parent = get_parent_inode(place) /\ call'.name = name
           /\ call'.new = Inode(superblock.first_free_inode_bit, DIR_ENTRIES_PER_BLOCK, 0)
           /\ call'.new.i_number \in NewNumbers
           /\ superblock.first_free_inode_bit \in NewNumbers
           /\ superblock' = Bits(ReservedInodes, superblock.first_free_data_bit)
           /\ given' = Append(given, superblock.first_free_inode_bit)
           /\ superblock.first_free_inode_bit \in Inodes
  <1>1. superblock.first_free_inode_bit \in NewNumbers /\ NewNumbers \subseteq Inodes
    BY NumbersDiffer DEF TypeInv, FreeBits
  <1>2. Inode(superblock.first_free_inode_bit, DIR_ENTRIES_PER_BLOCK, 0) \in InodeType
    BY <1>1, VsfsAssumption, Numbering DEF Inode, InodeType, Pointer
  <1>3. name \in EntryNames \ {"content"}
    BY VsfsAssumption DEF EntryNames
  <1>4. /\ call' = [parent |-> get_parent_inode(place), name |-> name,
                    new |-> Inode(superblock.first_free_inode_bit, DIR_ENTRIES_PER_BLOCK, 0)]
        /\ given' = Append(given, superblock.first_free_inode_bit)
    BY DEF Begin
  <1>5. superblock' = Bits(ReservedInodes, superblock.first_free_data_bit)
    BY SuperblockWith DEF Begin
  <1>6. Inode(superblock.first_free_inode_bit, DIR_ENTRIES_PER_BLOCK, 0).i_number = superblock.first_free_inode_bit
    BY DEF Inode
  <1>7. QED
    BY <1>1, <1>2, <1>3, <1>4, <1>5, <1>6, ParentType DEF Calls

LEMMA TakeBlockResult ==
    ASSUME TypeInv, TakeBlock
    PROVE  /\ call' \in Calls /\ call'.parent = call.parent /\ call'.name = call.name
           /\ call'.new.i_number = call.new.i_number /\ call'.new.size = call.new.size
           /\ call'.new.direct_pointers =
                [call.new.direct_pointers EXCEPT ![0] = first_data_block + superblock.first_free_data_bit]
           /\ superblock' = Bits(superblock.first_free_inode_bit, ReservedBlocks)
           /\ boot_bits' \subseteq Nat
  <1> DEFINE b == first_data_block + superblock.first_free_data_bit
             e == [call.new EXCEPT !.direct_pointers[0] = b]
  <1>1. b \in BlockNumbers /\ call.new \in InodeType /\ call \in Calls
    BY GivenBlock DEF TypeInv, Calls
  <1>2. call' = [call EXCEPT !.new = e] /\ boot_bits' = boot_bits \cup {b}
    BY <1>1 DEF TakeBlock, set_bitmap, Calls
  <1>3. /\ e \in InodeType /\ e.i_number = call.new.i_number /\ e.size = call.new.size
        /\ e.direct_pointers = [call.new.direct_pointers EXCEPT ![0] = b]
    <2> HIDE DEF b
    <2>1. QED
      BY <1>1 DEF InodeType
  <1>4. superblock' = Bits(superblock.first_free_inode_bit, ReservedBlocks)
    BY SuperblockWith DEF TakeBlock
  <1>5. boot_bits' \subseteq Nat
    <2>1. first_data_block \in Nat /\ superblock.first_free_data_bit \in Nat
      BY VsfsAssumption, Sizes DEF TypeInv, FreeBits
    <2>2. QED
      BY <1>2, <2>1 DEF TypeInv
  <1> HIDE DEF e
  <1>6. call' \in Calls /\ call'.new = e /\ call'.parent = call.parent /\ call'.name = call.name
    BY <1>1, <1>2, <1>3 DEF Calls
  <1>7. QED
    BY <1>3, <1>4, <1>5, <1>6

LEMMA ClearBlockResult ==
    ASSUME TypeInv, ClearBlock
    PROVE  LET b == first_data_block + superblock.first_free_data_bit
           IN  /\ call' \in Calls /\ call'.new = call.new /\ call'.name = call.name
               /\ call'.parent.i_number = call.parent.i_number /\ call'.parent.size = call.parent.size
               /\ call'.parent.direct_pointers = [call.parent.direct_pointers EXCEPT ![BlocksThen] = b]
               /\ block' = [block EXCEPT ![b] = [j \in Slots |-> Empty]]
               /\ superblock' = Bits(superblock.first_free_inode_bit, ReservedBlocks)
  <1> DEFINE b == first_data_block + superblock.first_free_data_bit
             e == [call.parent EXCEPT !.direct_pointers[BlocksThen] = b]
  <1>1. b \in BlockNumbers /\ call.parent \in InodeType /\ call \in Calls
    BY GivenBlock DEF TypeInv, Calls
  <1>2. call' = [call EXCEPT !.parent = e]
    BY <1>1 DEF ClearBlock, Calls
  <1>3. /\ e \in InodeType /\ e.i_number = call.parent.i_number /\ e.size = call.parent.size
        /\ e.direct_pointers = [call.parent.direct_pointers EXCEPT ![BlocksThen] = b]
    <2> HIDE DEF b
    <2>1. QED
      BY <1>1 DEF InodeType
  <1>4. /\ superblock' = Bits(superblock.first_free_inode_bit, ReservedBlocks)
        /\ block' = [block EXCEPT ![b] = [j \in Slots |-> Empty]]
    BY SuperblockWith DEF ClearBlock
  <1> HIDE DEF e
  <1>5. call' \in Calls /\ call'.parent = e /\ call'.new = call.new /\ call'.name = call.name
    BY <1>1, <1>2, <1>3 DEF Calls
  <1>6. QED
    BY <1>3, <1>4, <1>5

LEMMA LargerInode ==
    ASSUME TypeInv
    PROVE  /\ Larger \in InodeType /\ Larger.i_number = call.parent.i_number
           /\ Larger.size = call.parent.size + 1 /\ Larger.direct_pointers = call.parent.direct_pointers
           /\ call.parent \in InodeType /\ call.new \in InodeType /\ call.parent.size \in Nat
  <1>1. call.parent \in InodeType /\ call.new \in InodeType
    BY DEF TypeInv, Calls
  <1>2. QED
    BY <1>1 DEF Larger, InodeType

(* The unused entries of the directory, and what WriteEntry writes.        *)
LEMMA UnusedPlaces ==
    ASSUME TypeInv
    PROVE  /\ Unused \subseteq AllPlaces
           /\ Unused # {} => FirstPlace(Unused) \in Unused
           /\ \A p \in Unused \ {FirstPlace(Unused)} : Before(FirstPlace(Unused), p)
  <1>1. call.parent.size + 1 \in Nat
    BY LargerInode
  <1>2. Unused \subseteq AllPlaces
    BY <1>1, PlacesArePlaces DEF Unused, BlocksThen
  <1>3. QED
    BY <1>2, FirstIsFound

LEMMA WriteEntryResult ==
    ASSUME TypeInv, WriteEntry, Unused # {}
    PROVE  LET p == FirstPlace(Unused)
               x == PointerAt(call.parent, p[1])
           IN  /\ block' \in [BlockNumbers -> BlockType]
               /\ x \in BlockNumbers /\ p[2] \in Slots
               /\ \A b \in BlockNumbers, j \in Slots :
                    block'[b][j] = IF b = x /\ j = p[2] THEN Entry(call.new.i_number, call.name) ELSE block[b][j]
               /\ block[x][p[2]].i_number = 0
               /\ p \in Unused
  <1> DEFINE p == FirstPlace(Unused)
             x == PointerAt(call.parent, p[1])
             e == Entry(call.new.i_number, call.name)
  <1>1. p \in Unused /\ p \in AllPlaces
    BY UnusedPlaces
  <1>2. x \in BlockNumbers /\ p[2] \in Slots
    BY <1>1, LargerInode, InodeFields DEF AllPlaces
  <1>3. e \in EntryType
    BY LargerInode, InodeFields DEF Entry, EntryType, TypeInv, Calls
  <1>4. block' = [block EXCEPT ![x][p[2]] = e]
    BY DEF WriteEntry
  <1>5. block[x][p[2]].i_number = 0
    BY <1>1 DEF Unused, At
  <1>6. block \in [BlockNumbers -> BlockType]
    BY DEF TypeInv
  <1> HIDE DEF p, x, e
  <1>7. /\ block' \in [BlockNumbers -> BlockType]
        /\ \A b \in BlockNumbers, j \in Slots :
             block'[b][j] = IF b = x /\ j = p[2] THEN e ELSE block[b][j]
    BY <1>2, <1>3, <1>4, <1>6 DEF BlockType
  <1>8. QED
    BY <1>1, <1>2, <1>5, <1>7 DEF p, x, e

LEMMA InodeWritten ==
    ASSUME TypeInv, NEW r \in InodeType, inode' = [inode EXCEPT ![r.i_number] = r]
    PROVE  /\ inode' \in [Inodes -> InodeType]
           /\ r.i_number \in Inodes
           /\ \A i \in Inodes : inode'[i] = IF i = r.i_number THEN r ELSE inode[i]
  BY InodeFields DEF TypeInv

(* The block of inodes is full: the next number's place is the root's.     *)
LEMMA UpdateResult ==
    ASSUME TypeInv, NEW r \in InodeType, update_inode(r)
    PROVE  /\ inode' = [inode EXCEPT ![r.i_number] = r]
           /\ r.i_number # num_inodes => block' = block
           /\ \A b \in BlockNumbers, j \in Slots :
                block'[b][j] = IF r.i_number = num_inodes /\ b = first_data_block /\ j = 1 THEN RootSlot ELSE block[b][j]
           /\ block' \in [BlockNumbers -> BlockType]
  <1>1. num_inodes = INODES_PER_BLOCK /\ 1 \in Slots /\ first_data_block \in BlockNumbers
    BY Sizes, BlocksDiffer
  <1>2. /\ inode' = [inode EXCEPT ![r.i_number] = r]
        /\ block' = IF r.i_number = num_inodes THEN [block EXCEPT ![first_data_block][1] = RootSlot] ELSE block
    BY <1>1, Zenon DEF update_inode, RootSlot
  <1>3. RootSlot \in EntryType
    BY NumbersDiffer DEF RootSlot, Entry, EntryType, EntryNames
  <1>4. block \in [BlockNumbers -> BlockType]
    BY DEF TypeInv
  <1>5. /\ block' \in [BlockNumbers -> BlockType]
        /\ \A b \in BlockNumbers, j \in Slots :
             block'[b][j] = IF r.i_number = num_inodes /\ b = first_data_block /\ j = 1 THEN RootSlot ELSE block[b][j]
    BY <1>1, <1>2, <1>3, <1>4 DEF BlockType
  <1>6. QED
    BY <1>2, <1>5

(* Writing an inode keeps the types.                                       *)
LEMMA UpdateTypes ==
    ASSUME TypeInv, NEW r \in InodeType, update_inode(r)
    PROVE  /\ inode' \in [Inodes -> InodeType] /\ block' \in [BlockNumbers -> BlockType]
           /\ \A b \in BlockNumbers, j \in Slots : block'[b][j].i_number = -1 => block'[b][j].name = "content"
  <1>1. inode' \in [Inodes -> InodeType]
    BY UpdateResult, InodeWritten
  <1>2. RootSlot.name = "content"
    BY DEF RootSlot, Entry
  <1>3. ASSUME NEW b \in BlockNumbers, NEW j \in Slots, block'[b][j].i_number = -1
        PROVE  block'[b][j].name = "content"
    <2>1. block'[b][j] = RootSlot \/ block'[b][j] = block[b][j]
      BY UpdateResult
    <2>2. QED
      BY <1>2, <1>3, <2>1 DEF TypeInv
  <1>4. QED
    BY <1>1, <1>3, UpdateResult

LEMMA StepTypeInv == TypeInv /\ [Next]_vars => TypeInv'
  <1> SUFFICES ASSUME TypeInv, [Next]_vars PROVE TypeInv'
    OBVIOUS
  <1> DEFINE Contents == \A b \in BlockNumbers, j \in Slots : block[b][j].i_number = -1 => block[b][j].name = "content"
  <1>1. CASE UNCHANGED vars
    BY <1>1 DEF vars, disk, memory, TypeInv
  <1>2. ASSUME NEW place \in Places, NEW name \in Names, Begin(place, name) PROVE TypeInv'
    <2>1. call' \in Calls /\ call'.new.i_number \in NewNumbers
      BY <1>2, BeginResult
    <2>2. superblock' \in FreeBits
      BY <1>2, BeginResult, SuperblockWith
    <2>3. given' \in Seq(Inodes)
      BY <1>2, BeginResult, AppendProperties DEF TypeInv
    <2>4. boot_bits' \subseteq Nat
      <3>1. superblock.first_free_inode_bit \in Nat
        BY <1>2, BeginResult, NumbersDiffer
      <3>2. boot_bits' = boot_bits \cup {superblock.first_free_inode_bit}
        BY <1>2 DEF Begin, set_bitmap
      <3>3. QED
        BY <3>1, <3>2 DEF TypeInv
    <2>5. UNCHANGED <<block, inode, disk_bits, root_inode, current_dir_inode, crashes>> /\ pc' \in Writes
      BY <1>2 DEF Begin, GoTo, Writes
    <2>6. QED
      BY <2>1, <2>2, <2>3, <2>4, <2>5 DEF TypeInv
  <1>3. CASE TakeBlock
    <2>1. call' \in Calls /\ call'.new.i_number \in NewNumbers
      BY <1>3, TakeBlockResult DEF TypeInv, TakeBlock, GoTo
    <2>2. superblock' \in FreeBits /\ boot_bits' \subseteq Nat
      BY <1>3, TakeBlockResult, SuperblockWith
    <2>3. UNCHANGED <<block, inode, disk_bits, root_inode, current_dir_inode, crashes, given>> /\ pc' \in Writes
      BY <1>3 DEF TakeBlock, GoTo, Writes
    <2>4. QED
      BY <2>1, <2>2, <2>3 DEF TypeInv
  <1>4. CASE WriteNewInode
    <2>1. inode' \in [Inodes -> InodeType] /\ block' \in [BlockNumbers -> BlockType] /\ Contents'
      BY <1>4, LargerInode, UpdateTypes DEF WriteNewInode
    <2>2. /\ UNCHANGED <<disk_bits, boot_bits, superblock, root_inode, current_dir_inode, call, crashes, given>>
          /\ pc' \in Writes /\ pc # "idle"
      BY <1>4 DEF WriteNewInode, memory, Writes
    <2>3. QED
      BY <2>1, <2>2 DEF TypeInv
  <1>5. CASE ClearBlock
    <2> DEFINE b == first_data_block + superblock.first_free_data_bit
    <2>1. /\ call' \in Calls /\ call'.new = call.new
          /\ block' = [block EXCEPT ![b] = [j \in Slots |-> Empty]]
          /\ superblock' = Bits(superblock.first_free_inode_bit, ReservedBlocks)
      BY <1>5, ClearBlockResult
    <2>2. superblock' \in FreeBits
      BY <2>1, SuperblockWith
    <2> HIDE DEF b
    <2>3. /\ UNCHANGED <<inode, disk_bits, boot_bits, root_inode, current_dir_inode, crashes, given>>
          /\ pc' \in Writes /\ pc # "idle"
      BY <1>5 DEF ClearBlock, GoTo, Writes
    <2>4. Empty \in EntryType /\ Empty.i_number = 0
      BY NumbersDiffer DEF Empty, Entry, EntryType, EntryNames
    <2>5. block' \in [BlockNumbers -> BlockType] /\ Contents'
      <3> DEFINE z == [j \in Slots |-> Empty]
      <3>1. z \in BlockType /\ \A j \in Slots : z[j].i_number = 0
        BY <2>4 DEF BlockType
      <3> HIDE DEF z
      <3>2. /\ block' \in [BlockNumbers -> BlockType]
            /\ \A c \in BlockNumbers : block'[c] = block[c] \/ block'[c] = z
        BY <2>1, <3>1 DEF TypeInv, z
      <3>3. Contents'
        BY <3>1, <3>2 DEF TypeInv
      <3>4. QED
        BY <3>2, <3>3
    <2>6. QED
      BY <2>1, <2>2, <2>3, <2>5 DEF TypeInv
  <1>6. CASE WriteParent
    <2>1. inode' \in [Inodes -> InodeType] /\ block' \in [BlockNumbers -> BlockType] /\ Contents'
      BY <1>6, LargerInode, UpdateTypes DEF WriteParent
    <2>2. /\ UNCHANGED <<disk_bits, boot_bits, superblock, root_inode, current_dir_inode, call, crashes, given>>
          /\ pc' \in Writes /\ pc # "idle"
      BY <1>6 DEF WriteParent, GoTo, memory, Writes
    <2>3. QED
      BY <2>1, <2>2 DEF TypeInv
  <1>7. CASE WriteEntry
    <2>1. block' \in [BlockNumbers -> BlockType] /\ Contents'
      <3>1. CASE Unused = {}
        BY <1>7, <3>1 DEF WriteEntry, TypeInv
      <3>2. CASE Unused # {}
        <4>1. call.new.i_number # -1
          BY LargerInode, InodeFields, Numbering
        <4>2. Entry(call.new.i_number, call.name).i_number # -1
          BY <4>1 DEF Entry
        <4>3. block' \in [BlockNumbers -> BlockType]
          BY <1>7, <3>2, WriteEntryResult
        <4>4. ASSUME NEW b \in BlockNumbers, NEW j \in Slots, block'[b][j].i_number = -1
              PROVE  block'[b][j].name = "content"
          <5>1. block'[b][j] = block[b][j]
            BY <1>7, <3>2, <4>2, <4>4, WriteEntryResult
          <5>2. QED
            BY <4>4, <5>1 DEF TypeInv
        <4>5. QED
          BY <4>3, <4>4
      <3>3. QED
        BY <3>1, <3>2
    <2>2. /\ UNCHANGED <<inode, disk_bits, boot_bits, superblock, root_inode, current_dir_inode, call, crashes, given>>
          /\ pc' \in Writes /\ pc # "idle"
      BY <1>7 DEF WriteEntry, GoTo, memory, Writes
    <2>3. QED
      BY <2>1, <2>2 DEF TypeInv
  <1>8. CASE WriteSize
    <2>1. inode' \in [Inodes -> InodeType] /\ block' \in [BlockNumbers -> BlockType] /\ Contents'
      BY <1>8, LargerInode, UpdateTypes DEF WriteSize
    <2>2. root_inode' \in InodeType /\ current_dir_inode' \in InodeType
      BY <1>8, LargerInode DEF WriteSize, TypeInv
    <2>3. /\ UNCHANGED <<disk_bits, boot_bits, superblock, call, crashes, given>>
          /\ pc' \in Writes /\ pc # "idle"
      BY <1>8 DEF WriteSize, GoTo, Writes
    <2>4. QED
      BY <2>1, <2>2, <2>3 DEF TypeInv
  <1>9. CASE update_superblock
    BY <1>9 DEF update_superblock, GoTo, memory, TypeInv
  <1>10. CASE PowerLoss
    <2>1. inode[1] \in InodeType /\ NoCall \in Calls
      <3>1. "" \in EntryNames \ {"content"}
        BY DEF EntryNames
      <3>2. NoCall \in Calls
        BY <3>1, NoInodeType DEF NoCall, Calls
      <3>3. inode[1] \in InodeType
        BY NumbersDiffer DEF TypeInv
      <3>4. QED
        BY <3>2, <3>3
    <2>2. crashes' \in 0 .. MaxCrashes
      BY <1>10, VsfsAssumption DEF PowerLoss, TypeInv
    <2>3. QED
      BY <1>10, <2>1, <2>2 DEF PowerLoss, disk, TypeInv
  <1>11. QED
    BY <1>1, <1>2, <1>3, <1>4, <1>5, <1>6, <1>7, <1>8, <1>9, <1>10 DEF Next, create_file

-----------------------------------------------------------------------------
(* What is in memory.                                                      *)
LEMMA InitCacheInv == Init => CacheInv
  BY InitTypeInv, FormattedTypes, NumbersDiffer DEF Init, CacheInv

LEMMA StepCacheInv == CacheInv /\ [Next]_vars => CacheInv'
  <1> SUFFICES ASSUME CacheInv, [Next]_vars PROVE CacheInv'
    OBVIOUS
  <1>1. TypeInv /\ TypeInv' /\ 1 \in Inodes
    BY StepTypeInv, NumbersDiffer DEF CacheInv
  <1>2. CASE UNCHANGED vars
    BY <1>1, <1>2 DEF vars, disk, memory, CacheInv, RootInFlight
  <1>3. ASSUME NEW place \in Places, NEW name \in Names, Begin(place, name) PROVE CacheInv'
    BY <1>1, <1>3 DEF Begin, GoTo, CacheInv, RootInFlight
  <1>4. CASE TakeBlock
    BY <1>1, <1>4 DEF TakeBlock, GoTo, CacheInv, RootInFlight
  <1>5. CASE WriteNewInode
    <2>1. call.new.i_number # 1
      BY <1>1, <1>5, NumbersDiffer DEF WriteNewInode, TypeInv
    <2>2. inode'[1] = inode[1]
      BY <1>1, <1>5, <2>1, LargerInode, UpdateResult, InodeWritten DEF WriteNewInode
    <2>3. QED
      BY <1>1, <1>5, <2>2 DEF WriteNewInode, memory, CacheInv, RootInFlight
  <1>6. CASE ClearBlock
    BY <1>1, <1>6 DEF ClearBlock, GoTo, CacheInv, RootInFlight
  <1>7. CASE WriteParent
    <2>1. inode'[1] = IF call.parent.i_number = 1 THEN call.parent ELSE inode[1]
      BY <1>1, <1>7, LargerInode, UpdateResult, InodeWritten DEF WriteParent
    <2>2. QED
      BY <1>1, <1>7, <2>1 DEF WriteParent, GoTo, memory, CacheInv, RootInFlight
  <1>8. CASE WriteEntry
    BY <1>1, <1>8 DEF WriteEntry, GoTo, memory, CacheInv, RootInFlight
  <1>9. CASE WriteSize
    <2>1. inode'[1] = IF call.parent.i_number = 1 THEN Larger ELSE inode[1]
      BY <1>1, <1>9, LargerInode, UpdateResult, InodeWritten DEF WriteSize
    <2>2. /\ root_inode' = IF call.parent.i_number = 1 THEN Larger ELSE root_inode
          /\ current_dir_inode' = IF call.parent.i_number = 1 THEN Larger ELSE current_dir_inode
      BY <1>1, <1>9, LargerInode DEF WriteSize, CacheInv
    <2>3. pc' = "superblock"
      BY <1>9 DEF WriteSize, GoTo
    <2>4. QED
      BY <1>1, <2>1, <2>2, <2>3, LargerInode DEF CacheInv, RootInFlight
  <1>10. CASE update_superblock
    BY <1>1, <1>10 DEF update_superblock, GoTo, memory, CacheInv, RootInFlight
  <1>11. CASE PowerLoss
    BY <1>1, <1>11 DEF PowerLoss, disk, CacheInv, RootInFlight
  <1>12. QED
    BY <1>2, <1>3, <1>4, <1>5, <1>6, <1>7, <1>8, <1>9, <1>10, <1>11 DEF Next, create_file

(* Whatever paths create_file is given and wherever the power is lost,     *)
(* between calls the superblock and the two inodes in memory are those on  *)
(* the disk.                                                               *)
THEOREM CachesStayTrue == Spec => []CachesAgreeWithDisk
  <1>1. CacheInv => CachesAgreeWithDisk
    BY DEF CacheInv, CachesAgreeWithDisk, RootInFlight
  <1>2. QED
    BY <1>1, InitCacheInv, StepCacheInv, PTL DEF Spec

-----------------------------------------------------------------------------
(* What directories are made of.                                           *)
LEMMA ParentReads ==
    ASSUME NEW dir \in InodeType, IsParent(dir)
    PROVE  \A k : PointerAt(dir, k) \in ReadBlocks
  <1>1. \A i \in Directories : OwnBlock(i) \in ReadBlocks
    BY BlocksDiffer DEF Directories, ReadBlocks
  <1>2. 0 \in ReadBlocks /\ Spare \in ReadBlocks
    BY DEF ReadBlocks
  <1>3. \A k \in Pointer : k = 0 \/ k = 1 \/ k = 2
    BY DEF Pointer
  <1>4. QED
    BY <1>1, <1>2, <1>3 DEF IsParent, IsMissing, IsDirectory, PointerAt

LEMMA ParentIsParent ==
    ASSUME LayoutInv, PlacesAreDirectories, NEW place \in Places
    PROVE  /\ IsParent(get_parent_inode(place))
           /\ pc = "idle" => \A d \in Directories :
                get_parent_inode(place).i_number = d => get_parent_inode(place) = inode[d]
  <1>1. IsParent(root_inode) /\ IsParent(current_dir_inode) /\ root_inode \in InodeType /\ TypeInv
    BY DEF LayoutInv, CacheInv, TypeInv, IsParent, Directories
  <1>2. IsParent(NoInode)
    BY DEF IsParent, IsMissing, NoInode, Inode, Pointer
  <1> DEFINE n == NumberIn(root_inode, place)
  <1>3. ASSUME n # 0 PROVE n \in Directories
    <2>1. place # "content"
      BY VsfsAssumption
    <2>2. PICK p \in AllPlaces : At(root_inode, p).i_number = n /\ At(root_inode, p).name = place
      BY <1>1, <1>3, <2>1, InodeThatIsFound
    <2> DEFINE e == At(root_inode, p)
    <2>3. e \in KnownEntries
      BY <1>1, ParentReads DEF LayoutInv, At, AllPlaces
    <2> HIDE DEF n
    <2>4. e.i_number = n /\ e.name = place
      BY <2>2
    <2> HIDE DEF e
    <2>5. e # Empty /\ e # Content /\ e # RootSlot /\ e \notin CreatedEntries
      <3>1. /\ Empty.i_number = 0 /\ Content.name = "content" /\ RootSlot.name = "content"
            /\ \A c \in CreatedEntries : c.name \in Names
        BY DEF Empty, Content, RootSlot, Entry, CreatedEntries
      <3>2. place \notin Names
        BY DEF PlacesAreDirectories
      <3>3. QED
        BY <1>3, <2>1, <2>4, <3>1, <3>2
    <2>6. e \in FormattedEntries
      BY <2>3, <2>5 DEF KnownEntries
    <2>7. place \notin {"prekernel.bin", "kernel.bin", "old"}
      BY DEF PlacesAreDirectories, RootFiles
    <2>8. QED
      BY <2>4, <2>6, <2>7 DEF FormattedEntries, Entry, Directories
  <1>4. n # 0 => IsParent(inode[n])
    BY <1>3 DEF LayoutInv, IsParent
  <1>5. IsParent(get_inode_in_dir(root_inode, place))
    BY <1>2, <1>4 DEF get_inode_in_dir
  <1>6. IsParent(get_parent_inode(place))
    BY <1>1, <1>5 DEF get_parent_inode
  <1>7. ASSUME pc = "idle", NEW d \in Directories, get_parent_inode(place).i_number = d
        PROVE  get_parent_inode(place) = inode[d]
    <2>1. d # 0
      BY DEF Directories
    <2>2. root_inode = inode[1] /\ current_dir_inode = inode[1] /\ inode[1].i_number = 1
      BY <1>7 DEF LayoutInv, CacheInv, RootInFlight
    <2>3. get_inode_in_dir(root_inode, place).i_number = d => get_inode_in_dir(root_inode, place) = inode[d]
      <3>1. get_inode_in_dir(root_inode, place) = IF n = 0 THEN NoInode ELSE inode[n]
        BY DEF get_inode_in_dir
      <3>2. n # 0 => inode[n].i_number = n
        BY <1>3 DEF LayoutInv, IsDirectory
      <3>3. QED
        BY <2>1, <3>1, <3>2, NoInodeType
    <2>4. QED
      BY <1>7, <2>2, <2>3 DEF get_parent_inode
  <1>8. QED
    BY <1>6, <1>7

(* Writing an inode of a directory, or one of the numbers that are given.  *)
LEMMA OldInodesAfter ==
    ASSUME LayoutInv, NEW r \in InodeType, inode' = [inode EXCEPT ![r.i_number] = r],
           IsParent(r) \/ r.i_number \in NewNumbers \cup {0}
    PROVE  /\ \A i \in Others : inode'[i] # Formatted[i] =>
                \/ inode[i] # Formatted[i]
                \/ i = ReservedInodes /\ r.i_number = ReservedInodes
           /\ \A i \in Directories : IsDirectory(inode'[i], i)
  <1>1. TypeInv
    BY DEF LayoutInv, CacheInv
  <1>2. \A i \in Inodes : inode'[i] = IF i = r.i_number THEN r ELSE inode[i]
    BY <1>1, InodeWritten
  <1>3. Others \subseteq Inodes /\ Directories \subseteq Inodes /\ Others \cap {0, 1, 5, num_inodes} = {}
    BY Sizes, NumbersDiffer DEF Directories, Others
  <1>4. r.i_number \in {0, 1, 5, num_inodes, ReservedInodes}
    BY DEF IsParent, IsMissing, IsDirectory, Directories, NewNumbers
  <1>5. ASSUME NEW i \in Directories PROVE IsDirectory(inode'[i], i)
    <2>1. CASE i = r.i_number
      <3>1. IsDirectory(r, i)
        BY <2>1, NumbersDiffer DEF IsParent, IsMissing, IsDirectory, Directories
      <3>2. QED
        BY <1>2, <1>3, <2>1, <3>1
    <2>2. CASE i # r.i_number
      BY <1>2, <1>3, <2>2 DEF LayoutInv
    <2>3. QED
      BY <2>1, <2>2
  <1>6. ASSUME NEW i \in Others, inode'[i] # Formatted[i], inode[i] = Formatted[i]
        PROVE  i = ReservedInodes /\ r.i_number = ReservedInodes
    <2>1. i \in Inodes /\ i \notin {0, 1, 5, num_inodes}
      BY <1>3
    <2>2. i = r.i_number
      BY <1>2, <1>6, <2>1
    <2>3. QED
      BY <1>4, <2>1, <2>2
  <1>7. QED
    BY <1>5, <1>6

LEMMA LargerIsParent ==
    ASSUME LayoutInv
    PROVE  /\ IsParent(Larger) \/ Larger.i_number = 0
           /\ Larger.i_number = 1 => IsDirectory(Larger, 1)
  <1>1. TypeInv /\ IsParent(call.parent)
    BY DEF LayoutInv, CacheInv
  <1>2. /\ Larger.i_number = call.parent.i_number /\ Larger.size = call.parent.size + 1
        /\ Larger.direct_pointers = call.parent.direct_pointers /\ call.parent.size \in Nat
    BY <1>1, LargerInode
  <1>3. ASSUME NEW i \in Directories, IsDirectory(call.parent, i)
        PROVE  IsDirectory(Larger, i)
    <2>1. call.parent.size + 1 >= 1
      BY <1>2
    <2>2. QED
      BY <1>2, <1>3, <2>1 DEF IsDirectory
  <1>4. CASE IsMissing(call.parent)
    BY <1>2, <1>4 DEF IsMissing
  <1>5. CASE \E i \in Directories : IsDirectory(call.parent, i)
    BY <1>2, <1>3, <1>5 DEF IsParent, IsDirectory
  <1>6. QED
    BY <1>1, <1>4, <1>5 DEF IsParent

(* The new block of a directory is the spare one, at the third pointer.    *)
LEMMA GrownParent ==
    ASSUME LayoutInv, ClearBlock
    PROVE  /\ IsParent(call'.parent)
           /\ block' = [block EXCEPT ![Spare] = [j \in Slots |-> Empty]]
           /\ \A c \in BlockNumbers : block'[c] = IF c = Spare THEN [j \in Slots |-> Empty] ELSE block[c]
           /\ superblock'.first_free_data_bit = ReservedBlocks
           /\ \A i \in Directories : IsDirectory(call.parent, i) =>
                /\ IsDirectory(call'.parent, i)
                /\ call'.parent.direct_pointers = [call.parent.direct_pointers EXCEPT ![2] = Spare]
           /\ IsMissing(call.parent) => IsMissing(call'.parent)
  <1>1. TypeInv /\ IsParent(call.parent) /\ Grows /\ superblock.first_free_data_bit = ReservedBlocks
    BY DEF LayoutInv, CacheInv, ClearBlock, GoTo, AfterNewInode
  <1>2. first_data_block + superblock.first_free_data_bit = Spare
    BY <1>1 DEF Spare
  <1>3. /\ call'.parent.i_number = call.parent.i_number /\ call'.parent.size = call.parent.size
        /\ call'.parent.direct_pointers = [call.parent.direct_pointers EXCEPT ![BlocksThen] = Spare]
        /\ block' = [block EXCEPT ![Spare] = [j \in Slots |-> Empty]]
        /\ superblock' = Bits(superblock.first_free_inode_bit, ReservedBlocks)
    BY <1>1, <1>2, ClearBlockResult
  <1>4. call.parent.size \in Nat /\ call.parent.direct_pointers \in [Pointer -> BlockNumbers]
    BY <1>1, LargerInode, InodeFields
  <1>5. /\ BlocksNow \in Nat /\ (0 < BlocksNow <=> 0 < call.parent.size)
        /\ BlocksNow < 2 => BlocksThen <= BlocksNow + 1
    BY <1>4, BlocksOfSize, OneMoreEntry DEF BlocksNow, BlocksThen
  <1>6. BlocksThen \in Nat
    BY <1>4, BlocksOfSize DEF BlocksThen
  <1>7. BlocksThen = BlocksNow + 1 /\ BlocksNow < 2
    BY <1>1, <1>5, <1>6 DEF Grows
  <1>8. \A i \in Directories : IsDirectory(call.parent, i) => BlocksThen = 2
    BY <1>4, <1>5, <1>7 DEF IsDirectory
  <1>9. IsMissing(call.parent) => BlocksThen = 1
    BY <1>4, <1>5, <1>7 DEF IsMissing
  <1>10. 0 \in Pointer /\ 1 \in Pointer /\ 2 \in Pointer
    BY DEF Pointer
  <1>11. ASSUME IsMissing(call.parent) PROVE IsMissing(call'.parent)
    BY <1>3, <1>4, <1>9, <1>10, <1>11 DEF IsMissing
  <1>12. ASSUME NEW i \in Directories, IsDirectory(call.parent, i)
         PROVE  /\ IsDirectory(call'.parent, i)
                /\ call'.parent.direct_pointers = [call.parent.direct_pointers EXCEPT ![2] = Spare]
    BY <1>3, <1>4, <1>8, <1>10, <1>12 DEF IsDirectory
  <1>13. \A c \in BlockNumbers : block'[c] = IF c = Spare THEN [j \in Slots |-> Empty] ELSE block[c]
    BY <1>1, <1>3 DEF TypeInv
  <1>14. superblock'.first_free_data_bit = ReservedBlocks
    BY <1>3 DEF Bits
  <1>15. QED
    BY <1>1, <1>3, <1>11, <1>12, <1>13, <1>14 DEF IsParent

-----------------------------------------------------------------------------
(* What create_file has given.                                             *)
LEMMA InitGivenInv == Init => GivenInv
  BY DEF Init, GivenInv, Bits

LEMMA StepGivenInv == TypeInv /\ GivenInv /\ [Next]_vars => GivenInv'
  <1> SUFFICES ASSUME TypeInv, GivenInv, [Next]_vars PROVE GivenInv'
    OBVIOUS
  <1>1. Len(given) \in Nat
    BY LenProperties DEF TypeInv
  <1>2. CASE UNCHANGED vars
    BY <1>2 DEF vars, disk, memory, GivenInv
  <1>3. ASSUME NEW place \in Places, NEW name \in Names, Begin(place, name) PROVE GivenInv'
    <2>1. Len(given') = Len(given) + 1
      BY <1>3, BeginResult, AppendProperties DEF TypeInv
    <2>2. call'.new.i_number = superblock.first_free_inode_bit
      BY <1>3, BeginResult DEF Inode
    <2>3. num_inodes # ReservedInodes
      BY NumbersDiffer
    <2>4. QED
      BY <1>1, <2>1, <2>2, <2>3 DEF GivenInv
  <1>4. ASSUME pc # "idle", UNCHANGED given, call'.new.i_number = call.new.i_number PROVE GivenInv'
    BY <1>1, <1>4 DEF GivenInv
  <1>5. CASE TakeBlock
    BY <1>4, <1>5, TakeBlockResult DEF TakeBlock, GoTo
  <1>6. CASE ClearBlock
    BY <1>4, <1>6, ClearBlockResult DEF ClearBlock, GoTo
  <1>7. CASE WriteNewInode \/ WriteParent \/ WriteEntry \/ WriteSize \/ update_superblock
    BY <1>4, <1>7 DEF WriteNewInode, WriteParent, WriteEntry, WriteSize, update_superblock, GoTo
  <1>8. CASE PowerLoss
    BY <1>8 DEF PowerLoss, disk, GivenInv
  <1>9. QED
    BY <1>2, <1>3, <1>5, <1>6, <1>7, <1>8 DEF Next, create_file

(* The inode of a directory never lies among the root's entries.           *)
LEMMA ParentKeepsBlocks ==
    ASSUME LayoutInv, NEW r \in InodeType, r.i_number = call.parent.i_number, update_inode(r)
    PROVE  block' = block /\ inode' = [inode EXCEPT ![r.i_number] = r]
  <1>1. TypeInv /\ IsParent(call.parent)
    BY DEF LayoutInv, CacheInv
  <1>2. r.i_number # num_inodes
    BY <1>1, Sizes DEF IsParent, IsMissing, IsDirectory, Directories
  <1>3. QED
    BY <1>1, <1>2, UpdateResult

-----------------------------------------------------------------------------
(* What is on the disk.                                                    *)
LEMMA InitLayoutInv == Init => LayoutInv
  <1> SUFFICES ASSUME Init PROVE LayoutInv
    OBVIOUS
  <1>1. /\ block = FormattedBlocks /\ inode = Formatted /\ root_inode = Formatted[1]
        /\ current_dir_inode = Formatted[1] /\ call.parent = NoInode /\ pc = "idle"
    BY DEF Init, NoCall
  <1>2. \A i \in Directories : IsDirectory(Formatted[i], i)
    <2>1. 1 \in Numbered /\ 5 \in Numbered /\ 1 \in Inodes /\ 5 \in Inodes
      BY NumbersDiffer
    <2>2. Formatted[1] = Inode(1, 6, OwnBlock(1)) /\ Formatted[5] = Inode(5, 2, OwnBlock(5))
      BY <2>1 DEF Formatted, OwnBlock
    <2>3. QED
      BY <2>2 DEF IsDirectory, Inode, Directories, Pointer
  <1>3. IsParent(NoInode)
    BY DEF IsParent, IsMissing, NoInode, Inode, Pointer
  <1>4. ASSUME NEW b \in ReadBlocks, NEW j \in Slots PROVE block[b][j] \in KnownEntries
    BY <1>1, FormattedTypes, BlocksDiffer DEF KnownEntries
  <1>5. block[first_data_block][1] = Entry(1, ".")
    <2>1. first_data_block \in BlockNumbers /\ first_data_block # 0 /\ 1 \in Slots
      BY BlocksDiffer, Sizes
    <2>2. FormattedBlocks[first_data_block] = RootEntries
      <3>1. first_data_block # first_data_block + 4 /\ first_data_block # FirstNewBlock
        BY BlocksDiffer, NumbersDiffer DEF Directories
      <3>2. QED
        BY <2>1, <3>1 DEF FormattedBlocks
    <2>3. RootEntries[1] = Entry(1, ".")
      BY <2>1 DEF RootEntries, EntriesFrom
    <2>4. QED
      BY <1>1, <2>2, <2>3
  <1>6. QED
    BY <1>1, <1>2, <1>3, <1>4, <1>5, InitCacheInv, InitGivenInv DEF LayoutInv, AfterNewInode, Directories

LEMMA StepLayoutInv == PlacesAreDirectories /\ LayoutInv /\ [Next]_vars => LayoutInv'
  <1> SUFFICES ASSUME PlacesAreDirectories, LayoutInv, [Next]_vars PROVE LayoutInv'
    OBVIOUS
  <1> USE DEF AfterNewInode
  <1>1. CacheInv /\ CacheInv' /\ TypeInv /\ TypeInv' /\ GivenInv /\ GivenInv' /\ Len(given) \in Nat
    BY StepCacheInv, StepGivenInv, LenProperties DEF LayoutInv, CacheInv, TypeInv
  <1>2. CASE UNCHANGED vars
    BY <1>1, <1>2 DEF vars, disk, memory, LayoutInv, Grows, BlocksNow, BlocksThen
  <1>3. ASSUME NEW place \in Places, NEW name \in Names, Begin(place, name) PROVE LayoutInv'
    <2>1. call'.parent = get_parent_inode(place) /\ call'.name \in Names
      BY <1>1, <1>3, BeginResult
    <2>2. /\ UNCHANGED <<block, inode, root_inode, current_dir_inode>>
          /\ pc' = "data_bitmap"
      BY <1>3 DEF Begin, GoTo
    <2>3. IsParent(call'.parent)
      BY <2>1, ParentIsParent
    <2>4. Len(given) > 1 => Len(given') > 1
      <3>1. Len(given') = Len(given) + 1
        BY <1>1, <1>3, BeginResult, AppendProperties DEF TypeInv
      <3>2. QED
        BY <1>1, <3>1
    <2>5. QED
      BY <1>1, <2>1, <2>2, <2>3, <2>4 DEF LayoutInv
  <1>4. CASE TakeBlock
    <2>1. call'.parent = call.parent /\ call'.name = call.name /\ superblock'.first_free_data_bit = ReservedBlocks
      BY <1>1, <1>4, TakeBlockResult DEF Bits
    <2>2. /\ UNCHANGED <<block, inode, root_inode, current_dir_inode, given>>
          /\ pc' = "new_inode" /\ pc # "idle"
      BY <1>4 DEF TakeBlock, GoTo
    <2>3. QED
      BY <1>1, <2>1, <2>2 DEF LayoutInv
  <1>5. CASE WriteNewInode
    <2>1. inode' = [inode EXCEPT ![call.new.i_number] = call.new] /\ call.new.i_number \in NewNumbers
      BY <1>1, <1>5, LargerInode, UpdateResult DEF WriteNewInode, TypeInv
    <2>2. /\ \A i \in Others : inode'[i] # Formatted[i] =>
               \/ inode[i] # Formatted[i]
               \/ i = ReservedInodes /\ call.new.i_number = ReservedInodes
          /\ \A i \in Directories : IsDirectory(inode'[i], i)
      BY <1>1, <2>1, LargerInode, OldInodesAfter
    <2>3. /\ UNCHANGED <<superblock, root_inode, current_dir_inode, call, given>>
          /\ pc = "new_inode" /\ pc' = IF Grows THEN "clear_block" ELSE "entry"
      BY <1>5 DEF WriteNewInode, memory
    <2>4. Grows' <=> Grows
      BY <2>3 DEF Grows, BlocksNow, BlocksThen
    <2>5. \A i \in Others : inode'[i] # Formatted[i] => i = ReservedInodes /\ Len(given) > 1
      BY <2>2, <2>3 DEF LayoutInv, GivenInv
    <2>6. /\ block' \in [BlockNumbers -> BlockType]
          /\ \A b \in BlockNumbers, j \in Slots : block'[b][j] = block[b][j]
                                                \/ (b = first_data_block /\ j = 1 /\ block'[b][j] = RootSlot)
      BY <1>1, <1>5, LargerInode, UpdateResult DEF WriteNewInode
    <2>7. \A b \in ReadBlocks, j \in Slots : block'[b][j] \in KnownEntries
      BY <2>6, BlocksDiffer DEF LayoutInv, KnownEntries
    <2>8. block'[first_data_block][1] \in {Entry(1, "."), RootSlot}
      BY <2>6, BlocksDiffer, Sizes DEF LayoutInv
    <2>9. ASSUME NEW i \in Others, OwnBlock(i) # Spare
          PROVE  block'[OwnBlock(i)] = block[OwnBlock(i)]
      <3>1. OwnBlock(i) \in BlockNumbers /\ OwnBlock(i) # first_data_block
        BY <2>9, NumbersDiffer, BlocksDiffer DEF ReadBlocks
      <3>2. block'[OwnBlock(i)] \in [Slots -> EntryType] /\ block[OwnBlock(i)] \in [Slots -> EntryType]
        BY <1>1, <2>6, <3>1 DEF TypeInv, BlockType
      <3>3. \A j \in Slots : block'[OwnBlock(i)][j] = block[OwnBlock(i)][j]
        BY <2>6, <3>1
      <3>4. QED
        BY <3>2, <3>3
    <2>10. QED
      BY <1>1, <2>2, <2>3, <2>4, <2>5, <2>7, <2>8, <2>9 DEF LayoutInv
  <1>6. CASE ClearBlock
    <2>1. /\ IsParent(call'.parent) /\ superblock'.first_free_data_bit = ReservedBlocks
          /\ \A c \in BlockNumbers : block'[c] = IF c = Spare THEN [j \in Slots |-> Empty] ELSE block[c]
      BY <1>6, GrownParent
    <2>2. UNCHANGED <<inode, root_inode, current_dir_inode, given>> /\ pc' = "parent" /\ pc = "clear_block"
      BY <1>6 DEF ClearBlock, GoTo
    <2>3. call'.name = call.name
      BY <1>1, <1>6, ClearBlockResult
    <2>4. \A i \in Others : OwnBlock(i) # Spare => block'[OwnBlock(i)] = block[OwnBlock(i)]
      BY <2>1, NumbersDiffer, BlocksDiffer
    <2>5. \A b \in ReadBlocks, j \in Slots : block'[b][j] \in KnownEntries
      BY <2>1, BlocksDiffer DEF LayoutInv, KnownEntries
    <2>6. block'[first_data_block] = block[first_data_block]
      BY <2>1, BlocksDiffer
    <2>7. QED
      BY <1>1, <2>1, <2>2, <2>3, <2>4, <2>5, <2>6 DEF LayoutInv
  <1>7. CASE WriteParent
    <2>1. /\ inode' = [inode EXCEPT ![call.parent.i_number] = call.parent] /\ IsParent(call.parent)
          /\ block' = block
      BY <1>1, <1>7, LargerInode, ParentKeepsBlocks DEF WriteParent, LayoutInv
    <2>2. /\ \A i \in Others : inode'[i] # Formatted[i] =>
               \/ inode[i] # Formatted[i]
               \/ i = ReservedInodes /\ call.parent.i_number = ReservedInodes
          /\ \A i \in Directories : IsDirectory(inode'[i], i)
      BY <1>1, <2>1, LargerInode, OldInodesAfter
    <2>3. /\ UNCHANGED <<superblock, root_inode, current_dir_inode, call, given>>
          /\ pc = "parent" /\ pc' = "entry"
      BY <1>7 DEF WriteParent, GoTo, memory
    <2>4. call.parent.i_number # ReservedInodes
      BY <2>1, NumbersDiffer DEF IsParent, IsMissing, IsDirectory, Directories, NewNumbers
    <2>5. QED
      BY <1>1, <2>1, <2>2, <2>3, <2>4 DEF LayoutInv
  <1>8. CASE WriteEntry
    <2>1. /\ UNCHANGED <<inode, superblock, root_inode, current_dir_inode, call, given>>
          /\ pc = "entry" /\ pc' = "size"
      BY <1>8 DEF WriteEntry, GoTo, memory
    <2>2. CASE Unused = {}
      <3>1. block' = block
        BY <1>8, <2>2 DEF WriteEntry
      <3>2. QED
        BY <1>1, <2>1, <3>1 DEF LayoutInv
    <2>3. CASE Unused # {}
      <3> DEFINE p == FirstPlace(Unused)
                 x == PointerAt(call.parent, p[1])
                 e == Entry(call.new.i_number, call.name)
      <3>1. /\ block' \in [BlockNumbers -> BlockType]
            /\ \A b \in BlockNumbers, j \in Slots : block'[b][j] = IF b = x /\ j = p[2] THEN e ELSE block[b][j]
            /\ block[x][p[2]].i_number = 0
        BY <1>1, <1>8, <2>3, WriteEntryResult
      <3>2. x \in ReadBlocks
        BY <1>1, LargerInode, ParentReads DEF LayoutInv
      <3>3. e \in CreatedEntries
        BY <1>1, <2>1 DEF LayoutInv, TypeInv, CreatedEntries
      <3> HIDE DEF p, x, e
      <3>4. \A b \in ReadBlocks, j \in Slots : block'[b][j] \in KnownEntries
        BY <3>1, <3>3, BlocksDiffer DEF LayoutInv, KnownEntries
      <3>5. ASSUME NEW i \in Others, OwnBlock(i) # Spare PROVE block'[OwnBlock(i)] = block[OwnBlock(i)]
        <4>1. OwnBlock(i) \in BlockNumbers /\ OwnBlock(i) # x
          BY <3>2, <3>5, NumbersDiffer, BlocksDiffer
        <4>2. block'[OwnBlock(i)] \in [Slots -> EntryType] /\ block[OwnBlock(i)] \in [Slots -> EntryType]
          BY <1>1, <3>1, <4>1 DEF TypeInv, BlockType
        <4>3. \A j \in Slots : block'[OwnBlock(i)][j] = block[OwnBlock(i)][j]
          BY <3>1, <4>1
        <4>4. QED
          BY <4>2, <4>3
      <3>6. block'[first_data_block][1] = block[first_data_block][1]
        <4>1. block[first_data_block][1].i_number # 0
          BY Sizes, NumbersDiffer DEF LayoutInv, Entry, RootSlot
        <4>2. QED
          BY <3>1, <4>1, BlocksDiffer, Sizes
      <3>7. QED
        BY <1>1, <2>1, <3>4, <3>5, <3>6 DEF LayoutInv
    <2>4. QED
      BY <2>2, <2>3
  <1>9. CASE WriteSize
    <2>1. inode' = [inode EXCEPT ![Larger.i_number] = Larger] /\ Larger \in InodeType /\ block' = block
      BY <1>1, <1>9, LargerInode, ParentKeepsBlocks DEF WriteSize
    <2>2. /\ \A i \in Others : inode'[i] # Formatted[i] =>
               \/ inode[i] # Formatted[i]
               \/ i = ReservedInodes /\ Larger.i_number = ReservedInodes
          /\ \A i \in Directories : IsDirectory(inode'[i], i)
      BY <2>1, LargerIsParent, OldInodesAfter
    <2>3. UNCHANGED <<superblock, call, given>> /\ pc = "size" /\ pc' = "superblock"
      BY <1>9 DEF WriteSize, GoTo
    <2>4. IsDirectory(root_inode', 1) /\ IsDirectory(current_dir_inode', 1)
      BY <1>9, LargerIsParent DEF WriteSize, LayoutInv, CacheInv
    <2>5. Larger.i_number # ReservedInodes
      BY LargerIsParent, NumbersDiffer DEF IsParent, IsMissing, IsDirectory, Directories, NewNumbers
    <2>6. QED
      BY <1>1, <2>1, <2>2, <2>3, <2>4, <2>5 DEF LayoutInv
  <1>10. CASE update_superblock
    BY <1>1, <1>10 DEF update_superblock, GoTo, memory, LayoutInv
  <1>11. CASE PowerLoss
    <2>1. /\ UNCHANGED <<block, inode, given>> /\ root_inode' = inode[1] /\ current_dir_inode' = inode[1]
          /\ pc' = "idle" /\ call'.parent = NoInode
      BY <1>11 DEF PowerLoss, disk, NoCall
    <2>2. IsParent(NoInode)
      BY DEF IsParent, IsMissing, NoInode, Inode, Pointer
    <2>3. 1 \in Directories
      BY DEF Directories
    <2>4. QED
      BY <1>1, <2>1, <2>2, <2>3 DEF LayoutInv
  <1>12. QED
    BY <1>2, <1>3, <1>4, <1>5, <1>6, <1>7, <1>8, <1>9, <1>10, <1>11 DEF Next, create_file

(* If nobody uses a file as a directory, no call of create_file, whole or  *)
(* cut short by a loss of power, changes a file that was on the disk, but  *)
(* for the inode and the block of the bitmaps' first free bits (the inode  *)
(* after the first call only), or the number and own block of a directory. *)
THEOREM OldFilesStay == ASSUME PlacesAreDirectories PROVE Spec => []OldFilesKept
  <1>1. LayoutInv => OldFilesKept
    <2> SUFFICES ASSUME LayoutInv PROVE OldFilesKept
      OBVIOUS
    <2>1. \A i \in Numbered : Formatted[i].direct_pointers[0] = OwnBlock(i)
      BY FormattedPointers
    <2>2. Directories \subseteq Numbered /\ Others \subseteq Numbered
      BY NumbersDiffer
    <2>3. \A i \in Directories : inode[i].i_number = i /\ inode[i].direct_pointers[0] = OwnBlock(i)
      BY DEF LayoutInv, IsDirectory
    <2>4. \A i \in Others : OwnBlock(i) # Spare => block[OwnBlock(i)] = FormattedBlocks[OwnBlock(i)]
      BY DEF LayoutInv
    <2>5. \A i \in Others : inode[i] # Formatted[i] => i = ReservedInodes /\ Len(given) > 1
      BY DEF LayoutInv
    <2>6. QED
      BY <2>1, <2>2, <2>3, <2>4, <2>5 DEF OldFilesKept, Spare
  <1>2. QED
    BY <1>1, InitLayoutInv, StepLayoutInv, PTL DEF Spec

-----------------------------------------------------------------------------
(* What entries lead to.                                                   *)
LEMMA EntryFacts ==
    /\ \A i, name : Entry(i, name).i_number = i /\ Entry(i, name).name = name
    /\ Empty.i_number = 0 /\ Content.i_number = -1 /\ Content.name = "content"
    /\ \A e \in FormattedEntries : e.i_number \in 1 .. 5
    /\ \A e \in CreatedEntries : e.i_number \in NewNumbers /\ e.name \in Names
  <1>1. \A i, name : Entry(i, name).i_number = i /\ Entry(i, name).name = name
    BY DEF Entry
  <1>2. Empty.i_number = 0 /\ Content.i_number = -1 /\ Content.name = "content"
    BY <1>1 DEF Empty, Content
  <1>3. \A e \in FormattedEntries : e.i_number \in 1 .. 5
    BY <1>1 DEF FormattedEntries
  <1>4. \A e \in CreatedEntries : e.i_number \in NewNumbers /\ e.name \in Names
    BY <1>1 DEF CreatedEntries
  <1>5. QED
    BY <1>1, <1>2, <1>3, <1>4

LEMMA InitEntryInv == Init => EntryInv
  <1> SUFFICES ASSUME Init PROVE EntryInv
    OBVIOUS
  <1>1. pc = "idle" /\ block = FormattedBlocks
    BY DEF Init
  <1>2. \A e \in {Empty, Content} \cup FormattedEntries : e.i_number \notin NewNumbers
    BY EntryFacts, NumbersDiffer
  <1>3. \A b \in ReadBlocks, j \in Slots : block[b][j].i_number \notin NewNumbers
    BY <1>1, <1>2, FormattedTypes, BlocksDiffer
  <1>4. QED
    BY <1>1, <1>3, InitLayoutInv DEF EntryInv, AfterNewInode

LEMMA StepEntryInv == PlacesAreDirectories /\ EntryInv /\ [Next]_vars => EntryInv'
  <1> SUFFICES ASSUME PlacesAreDirectories, EntryInv, [Next]_vars PROVE EntryInv'
    OBVIOUS
  <1> USE DEF AfterNewInode
  <1>1. LayoutInv /\ LayoutInv' /\ TypeInv /\ TypeInv'
    BY StepLayoutInv DEF EntryInv, LayoutInv, CacheInv
  <1>2. ASSUME NEW r \in InodeType, inode' = [inode EXCEPT ![r.i_number] = r], NEW i \in NewNumbers,
               inode[i].i_number = i
        PROVE  inode'[i].i_number = i
    <2>1. i \in Inodes
      BY NumbersDiffer
    <2>2. QED
      BY <1>1, <1>2, <2>1, InodeWritten
  <1>3. CASE UNCHANGED vars
    BY <1>1, <1>3 DEF vars, disk, memory, EntryInv
  <1>4. ASSUME NEW place \in Places, NEW name \in Names, Begin(place, name) PROVE EntryInv'
    BY <1>1, <1>4 DEF Begin, GoTo, EntryInv
  <1>5. CASE TakeBlock
    BY <1>1, <1>5 DEF TakeBlock, GoTo, EntryInv
  <1>6. CASE WriteNewInode
    <2>1. /\ inode' = [inode EXCEPT ![call.new.i_number] = call.new] /\ call.new \in InodeType
          /\ call.new.i_number \in NewNumbers /\ UNCHANGED call
      BY <1>1, <1>6, LargerInode, UpdateResult DEF WriteNewInode, TypeInv
    <2>2. inode'[call.new.i_number] = call.new
      BY <1>1, <2>1, InodeWritten
    <2>3. ASSUME NEW b \in ReadBlocks, NEW j \in Slots, block'[b][j].i_number \in NewNumbers
          PROVE  inode'[block'[b][j].i_number].i_number = block'[b][j].i_number
      <3>1. \/ block'[b][j] = block[b][j]
            \/ block'[b][j] = RootSlot /\ call.new.i_number = num_inodes
        BY <1>1, <1>6, LargerInode, UpdateResult, BlocksDiffer DEF WriteNewInode
      <3>2. RootSlot.i_number = num_inodes
        BY EntryFacts DEF RootSlot
      <3>3. CASE block'[b][j] = block[b][j]
        BY <1>1, <1>2, <2>1, <2>3, <3>3 DEF EntryInv
      <3>4. CASE block'[b][j] = RootSlot /\ call.new.i_number = num_inodes
        BY <2>2, <3>2, <3>4
      <3>5. QED
        BY <3>1, <3>3, <3>4
    <2>4. QED
      BY <1>1, <2>1, <2>2, <2>3 DEF EntryInv
  <1>7. CASE ClearBlock
    <2>1. \A c \in BlockNumbers : block'[c] = IF c = Spare THEN [j \in Slots |-> Empty] ELSE block[c]
      BY <1>1, <1>7, GrownParent
    <2>2. /\ UNCHANGED inode /\ pc = "clear_block" /\ call'.new = call.new
      BY <1>1, <1>7, ClearBlockResult DEF ClearBlock, GoTo
    <2>3. Empty.i_number \notin NewNumbers
      BY EntryFacts, NumbersDiffer
    <2>4. QED
      BY <1>1, <2>1, <2>2, <2>3, BlocksDiffer DEF EntryInv
  <1>8. CASE WriteParent
    <2>1. /\ inode' = [inode EXCEPT ![call.parent.i_number] = call.parent] /\ call.parent \in InodeType
          /\ pc = "parent" /\ UNCHANGED <<block, call>> /\ call.new.i_number \in NewNumbers
      BY <1>1, <1>8, LargerInode, ParentKeepsBlocks DEF WriteParent, GoTo, TypeInv
    <2>2. QED
      BY <1>1, <1>2, <2>1 DEF EntryInv
  <1>9. CASE WriteEntry
    <2>1. UNCHANGED <<inode, call>> /\ pc = "entry"
      BY <1>9 DEF WriteEntry, GoTo
    <2>2. CASE Unused = {}
      BY <1>1, <1>9, <2>1, <2>2 DEF WriteEntry, EntryInv
    <2>3. CASE Unused # {}
      <3> DEFINE p == FirstPlace(Unused)
                 x == PointerAt(call.parent, p[1])
                 e == Entry(call.new.i_number, call.name)
      <3>1. \A b \in BlockNumbers, j \in Slots : block'[b][j] = IF b = x /\ j = p[2] THEN e ELSE block[b][j]
        BY <1>1, <1>9, <2>3, WriteEntryResult
      <3>2. e.i_number = call.new.i_number
        BY DEF Entry
      <3> HIDE DEF p, x, e
      <3>3. QED
        BY <1>1, <2>1, <3>1, <3>2, BlocksDiffer DEF EntryInv
    <2>4. QED
      BY <2>2, <2>3
  <1>10. CASE WriteSize
    <2>1. /\ inode' = [inode EXCEPT ![Larger.i_number] = Larger] /\ Larger \in InodeType
          /\ pc = "size" /\ UNCHANGED <<block, call>> /\ call.new.i_number \in NewNumbers
      BY <1>1, <1>10, LargerInode, ParentKeepsBlocks DEF WriteSize, GoTo, TypeInv
    <2>2. QED
      BY <1>1, <1>2, <2>1 DEF EntryInv
  <1>11. CASE update_superblock
    BY <1>1, <1>11 DEF update_superblock, GoTo, memory, EntryInv
  <1>12. CASE PowerLoss
    BY <1>1, <1>12 DEF PowerLoss, disk, EntryInv
  <1>13. QED
    BY <1>3, <1>4, <1>5, <1>6, <1>7, <1>8, <1>9, <1>10, <1>11, <1>12 DEF Next, create_file

(* If nobody uses a file as a directory, then at every moment, and so      *)
(* wherever the power is lost, an entry that can be found leads to an      *)
(* inode that has been written, however many files are made.               *)
THEOREM EntriesStayGood == ASSUME PlacesAreDirectories PROVE Spec => []EntriesLeadToInodes
  <1>1. EntryInv => EntriesLeadToInodes
    <2> SUFFICES ASSUME EntryInv PROVE EntriesLeadToInodes
      OBVIOUS
    <2>1. LayoutInv /\ TypeInv
      BY DEF EntryInv, LayoutInv, CacheInv
    <2>2. TypeOK
      <3>1. \A bits \in {disk_bits, superblock} : bits.first_free_inode_bit \in Nat /\ bits.first_free_data_bit \in Nat
        <4>1. NewNumbers \subseteq Nat /\ first_data_block + file_blocks \in Nat /\ ReservedBlocks \in Nat
          BY NumbersDiffer, BlocksDiffer, Sizes
        <4>2. QED
          BY <2>1, <4>1 DEF TypeInv, FreeBits
      <3>2. QED
        BY <2>1, <3>1 DEF TypeInv, BlockType, Calls, TypeOK
    <2>3. ASSUME NEW path \in Paths, Lookup(path) # 0 PROVE inode[Lookup(path)].i_number = Lookup(path)
      <3> DEFINE n == Lookup(path)
                 dir == inode[path[1]]
      <3>1. path[1] \in Directories /\ path[2] \in RootFiles \cup Names
        BY DEF Paths
      <3>2. path[2] # "content"
        BY <3>1, VsfsAssumption DEF RootFiles
      <3>3. dir \in InodeType /\ IsParent(dir)
        BY <2>1, <3>1, NumbersDiffer DEF TypeInv, LayoutInv, IsParent
      <3>4. n = NumberIn(dir, path[2])
        BY DEF Lookup
      <3> HIDE DEF n
      <3>5. PICK p \in AllPlaces : At(dir, p).i_number = n /\ At(dir, p).name = path[2]
        BY <2>1, <2>3, <3>2, <3>3, <3>4, InodeThatIsFound DEF n
      <3>6. PointerAt(dir, p[1]) \in ReadBlocks /\ p[2] \in Slots
        BY <3>3, ParentReads DEF AllPlaces
      <3> DEFINE e == At(dir, p)
      <3>7. e \in KnownEntries /\ (e.i_number \in NewNumbers => inode[e.i_number].i_number = e.i_number)
        BY <2>1, <3>6 DEF EntryInv, LayoutInv, At
      <3>8. e.i_number = n /\ e.name = path[2] /\ n # 0
        BY <2>3, <3>5 DEF n
      <3> HIDE DEF e
      <3>9. e # Empty /\ e # Content /\ e # RootSlot
        BY <3>2, <3>8, EntryFacts DEF RootSlot
      <3>10. CASE e \in FormattedEntries
        <4>1. n \in 1 .. 5
          BY <3>8, <3>10 DEF FormattedEntries, Entry
        <4>2. n \in Numbered /\ n # ReservedInodes
          BY <4>1, NumbersDiffer DEF NewNumbers
        <4>3. CASE n \in Directories
          BY <2>1, <4>3 DEF LayoutInv, IsDirectory, n
        <4>4. CASE n \in Others
          <5>1. inode[n] = Formatted[n]
            BY <2>1, <4>2, <4>4 DEF LayoutInv
          <5>2. QED
            BY <4>2, <5>1, FormattedTypes DEF n
        <4>5. QED
          BY <4>2, <4>3, <4>4, NumbersDiffer
      <3>11. CASE e \in CreatedEntries
        <4>1. e.i_number \in NewNumbers
          BY <3>11 DEF CreatedEntries, Entry
        <4>2. QED
          BY <3>7, <3>8, <4>1 DEF n
      <3>12. QED
        BY <3>7, <3>9, <3>10, <3>11 DEF KnownEntries
    <2>4. QED
      BY <2>2, <2>3 DEF EntriesLeadToInodes
  <1>2. QED
    BY <1>1, InitEntryInv, StepEntryInv, PTL DEF Spec

-----------------------------------------------------------------------------
(* The names in the directories.                                           *)
LEMMA DirectoryFacts ==
    ASSUME LayoutInv
    PROVE  /\ \A d \in Directories : /\ d \in Inodes /\ inode[d] \in InodeType /\ inode[d].size \in Nat
                                     /\ inode[d].size >= 1 /\ Counted(d) \in Nat
           /\ Len(given) \in Nat /\ Written \in Int
           /\ \A d \in Directories : OwnBlock(d) \in ReadBlocks \ {Spare}
           /\ 0 \in ReadBlocks \ {Spare}
           /\ \A b \in ReadBlocks : b \in BlockNumbers
  <1>1. TypeInv
    BY DEF LayoutInv, CacheInv
  <1>2. ASSUME NEW d \in Directories
        PROVE  /\ d \in Inodes /\ inode[d] \in InodeType /\ inode[d].size \in Nat
               /\ inode[d].size >= 1 /\ Counted(d) \in Nat
    <2>1. d \in Inodes
      BY NumbersDiffer
    <2>2. inode[d] \in InodeType /\ inode[d].size \in Nat
      BY <1>1, <2>1, InodeFields DEF TypeInv
    <2>3. inode[d].size >= 1
      BY DEF LayoutInv, IsDirectory
    <2>4. QED
      BY <2>1, <2>2, <2>3 DEF Counted
  <1>3. Len(given) \in Nat
    BY <1>1, LenProperties DEF TypeInv
  <1>4. QED
    BY <1>2, <1>3, BlocksDiffer DEF Written, ReadBlocks, Directories

(* The root's "." may become what is no entry, but not an unused one.      *)
SameEntry(old, new) ==
    \/ new = old
    \/ /\ old.name \in {".", "content"} /\ old.i_number \notin {0, -1}
       /\ new.name = "content" /\ new.i_number \notin {0, -1}

Kept ==
    /\ \A d \in Directories : inode'[d].size >= inode[d].size
    /\ \A b \in ReadBlocks \ {Spare}, j \in Slots :
        SameEntry(block[b][j], block'[b][j]) \/ block[b][j].i_number = 0

LEMMA NewInodeKeepsEntries ==
    ASSUME LayoutInv, WriteNewInode, NEW b \in ReadBlocks, NEW j \in Slots
    PROVE  SameEntry(block[b][j], block'[b][j])
  <1>1. \/ block'[b][j] = block[b][j]
        \/ b = first_data_block /\ j = 1 /\ block'[b][j] = RootSlot
    BY LargerInode, UpdateResult, BlocksDiffer DEF LayoutInv, CacheInv, WriteNewInode
  <1>2. CASE b = first_data_block /\ j = 1 /\ block'[b][j] = RootSlot
    <2>1. block[b][j] \in {Entry(1, "."), RootSlot}
      BY <1>2 DEF LayoutInv
    <2>2. num_inodes \notin {0, -1}
      BY Sizes
    <2>3. QED
      BY <1>2, <2>1, <2>2, EntryFacts DEF RootSlot, SameEntry
  <1>3. QED
    BY <1>1, <1>2 DEF SameEntry

LEMMA EntriesCarryOver ==
    ASSUME NameInv, LayoutInv', Len(given') <= MaxCalls,
           pc' \in BeforeEntry \cup {"size"} =>
              \A d \in Directories : call'.parent.i_number = d => call'.parent.size = inode'[d].size,
           \A d \in Directories : Counted(d)' <= Counted(d) /\ inode'[d].size >= inode[d].size,
           Written' >= Written,
           \A b \in ReadBlocks \ {Spare}, j \in Slots : SameEntry(block[b][j], block'[b][j])
    PROVE  NameInv' /\ Kept
  <1>1. LayoutInv
    BY DEF NameInv
  <1>2. ASSUME NEW d \in Directories
        PROVE  /\ Counted(d)' <= 6 + Written'
               /\ \A j \in Slots : j <= Counted(d)' => block'[OwnBlock(d)][j].i_number # 0
    <2> DEFINE c == Counted(d)
               e == Counted(d)'
               w == Written
               v == Written'
    <2>1. c \in Nat /\ e \in Nat /\ w \in Int /\ v \in Int
      <3>1. c \in Nat /\ w \in Int /\ d \in Inodes
        BY <1>1, DirectoryFacts
      <3>2. inode'[d] \in InodeType /\ given' \in Seq(Inodes)
        BY <3>1 DEF LayoutInv, CacheInv, TypeInv
      <3>3. inode'[d].size \in Nat /\ Len(given') \in Nat
        BY <3>2, InodeFields, LenProperties
      <3>4. QED
        BY <3>1, <3>3 DEF Counted, Written
    <2>2. c <= 6 + w /\ (\A j \in Slots : j <= c => block[OwnBlock(d)][j].i_number # 0)
      BY DEF NameInv
    <2>3. e <= c /\ v >= w
      OBVIOUS
    <2>4. \A j \in Slots : block[OwnBlock(d)][j].i_number # 0 => block'[OwnBlock(d)][j].i_number # 0
      BY <1>1, DirectoryFacts DEF SameEntry
    <2>5. Slots \subseteq Nat
      BY VsfsAssumption DEF Slots
    <2> HIDE DEF c, e, w, v
    <2>6. e <= 6 + v
      BY <2>1, <2>2, <2>3
    <2>7. ASSUME NEW j \in Slots, j <= e PROVE block'[OwnBlock(d)][j].i_number # 0
      <3>1. j <= c
        BY <2>1, <2>3, <2>5, <2>7
      <3>2. QED
        BY <2>2, <2>4, <3>1
    <2>8. QED
      BY <2>6, <2>7 DEF c, e, w, v
  <1>3. ASSUME NEW b \in ReadBlocks \ {Spare}, NEW j \in Slots, NEW k \in Slots,
               j < k, block'[b][k].i_number \notin {0, -1}
        PROVE  block'[b][j].i_number # 0
    <2>1. SameEntry(block[b][j], block'[b][j]) /\ SameEntry(block[b][k], block'[b][k])
      OBVIOUS
    <2>2. block[b][j].i_number # 0
      BY <1>3, <2>1 DEF NameInv, SameEntry
    <2>3. QED
      BY <2>1, <2>2 DEF SameEntry
  <1>4. NameInv'
    BY <1>2, <1>3 DEF NameInv
  <1>5. QED
    BY <1>4 DEF Kept

LEMMA NameInvCarriesOver ==
    ASSUME NameInv, LayoutInv', Len(given') <= MaxCalls,
           pc' \in BeforeEntry \cup {"size"} =>
              \A d \in Directories : call'.parent.i_number = d => call'.parent.size = inode'[d].size,
           \A d \in Directories : Counted(d)' <= Counted(d) /\ inode'[d].size >= inode[d].size,
           Written' >= Written,
           \A b \in ReadBlocks \ {Spare} : block'[b] = block[b]
    PROVE  NameInv' /\ Kept
  <1>1. \A b \in ReadBlocks \ {Spare}, j \in Slots : SameEntry(block[b][j], block'[b][j])
    BY DEF SameEntry
  <1>2. QED
    BY <1>1, EntriesCarryOver

(* Before the first unused entry all are used.                             *)
LEMMA UsedBeforeFirst ==
    ASSUME TypeInv, Unused # {}
    PROVE  LET p == FirstPlace(Unused)
           IN  /\ p \in Unused /\ p[1] \in 0 .. BlocksThen - 1 /\ p[2] \in Slots
               /\ \A j \in Slots : j < p[2] => block[PointerAt(call.parent, p[1])][j].i_number # 0
               /\ \A k \in Nat, j \in Slots :
                    k < p[1] => block[PointerAt(call.parent, k)][j].i_number # 0
  <1> DEFINE p == FirstPlace(Unused)
  <1>1. p \in Unused /\ \A q \in Unused \ {p} : Before(p, q)
    BY UnusedPlaces
  <1>2. BlocksThen \in Nat
    BY LargerInode, BlocksOfSize DEF BlocksThen
  <1>3. Slots \subseteq Nat
    BY VsfsAssumption DEF Slots
  <1> HIDE DEF p
  <1>4. p[1] \in 0 .. BlocksThen - 1 /\ p[2] \in Slots
    BY <1>1 DEF Unused, PlacesOf
  <1>5. ASSUME NEW k \in Nat, NEW j \in Slots, k < p[1] \/ (k = p[1] /\ j < p[2]),
               block[PointerAt(call.parent, k)][j].i_number = 0
        PROVE  FALSE
    <2>1. k \in 0 .. BlocksThen - 1
      BY <1>2, <1>4, <1>5
    <2>2. <<k, j>> \in Unused
      BY <1>5, <2>1 DEF Unused, PlacesOf, At
    <2>3. <<k, j>> # p
      BY <1>3, <1>4, <1>5
    <2>4. Before(p, <<k, j>>)
      BY <1>1, <2>2, <2>3
    <2>5. p[1] < k \/ (p[1] = k /\ p[2] < j)
      BY <2>4 DEF Before
    <2>6. p[1] \in Nat
      BY <1>2, <1>4
    <2>7. p[2] \in Nat /\ j \in Nat
      BY <1>3, <1>4
    <2>8. QED
      BY <1>5, <2>5, <2>6, <2>7
  <1>6. p[1] \in Nat
    BY <1>2, <1>4
  <1>7. QED
    BY <1>1, <1>4, <1>5, <1>6 DEF p

(* What create_file writes into a directory counts as soon as it is there. *)
LEMMA EntryKeepsNames ==
    ASSUME NameInv, LayoutInv', WriteEntry
    PROVE  NameInv' /\ Kept
  <1>1. LayoutInv /\ TypeInv /\ IsParent(call.parent)
    BY DEF NameInv, LayoutInv, CacheInv
  <1>2. UNCHANGED <<inode, call, given>> /\ pc = "entry" /\ pc' = "size"
    BY DEF WriteEntry, GoTo
  <1>3. /\ \A b \in BlockNumbers, j \in Slots :
              \/ block'[b][j] = block[b][j]
              \/ /\ block[b][j].i_number = 0 /\ block'[b][j].i_number \in NewNumbers
                 /\ \A i \in Slots : i < j => block[b][i].i_number # 0
    <2>1. CASE Unused = {}
      BY <2>1 DEF WriteEntry
    <2>2. CASE Unused # {}
      <3> DEFINE p == FirstPlace(Unused)
                 x == PointerAt(call.parent, p[1])
                 e == Entry(call.new.i_number, call.name)
      <3>1. /\ \A b \in BlockNumbers, j \in Slots : block'[b][j] = IF b = x /\ j = p[2] THEN e ELSE block[b][j]
            /\ block[x][p[2]].i_number = 0
        BY <1>1, <2>2, WriteEntryResult
      <3>2. e.i_number \in NewNumbers
        BY <1>1, <1>2, EntryFacts DEF TypeInv
      <3>3. \A j \in Slots : j < p[2] => block[x][j].i_number # 0
        BY <1>1, <2>2, UsedBeforeFirst
      <3> HIDE DEF p, x, e
      <3>4. QED
        BY <3>1, <3>2, <3>3
    <2>3. QED
      BY <2>1, <2>2
  <1>4. Kept
    BY <1>1, <1>2, <1>3, DirectoryFacts DEF Kept, SameEntry
  <1>5. 0 \notin NewNumbers /\ Slots \subseteq Nat
    BY VsfsAssumption, NumbersDiffer DEF Slots
  <1>6. ASSUME NEW b \in ReadBlocks \ {Spare}, NEW j \in Slots, NEW k \in Slots,
               j < k, block'[b][k].i_number \notin {0, -1}
        PROVE  block'[b][j].i_number # 0
    <2>1. b \in BlockNumbers
      BY <1>1, DirectoryFacts
    <2>2. block[b][j].i_number # 0
      BY <1>3, <1>6, <2>1 DEF NameInv
    <2>3. QED
      BY <1>3, <1>5, <2>1, <2>2
  <1>7. ASSUME NEW d \in Directories
        PROVE  /\ Counted(d)' <= 6 + Written'
               /\ \A j \in Slots : j <= Counted(d)' => block'[OwnBlock(d)][j].i_number # 0
    <2>1. /\ Counted(d) = inode[d].size /\ Written = Len(given) - 1 /\ Written' = Len(given)
          /\ Counted(d)' = IF call.parent.i_number = d THEN inode[d].size + 1 ELSE inode[d].size
      BY <1>2 DEF Counted, Written, BeforeEntry
    <2>2. /\ inode[d].size \in Nat /\ Len(given) \in Nat /\ inode[d].size <= 6 + (Len(given) - 1)
          /\ OwnBlock(d) \in BlockNumbers
          /\ \A j \in Slots : j <= inode[d].size => block[OwnBlock(d)][j].i_number # 0
      BY <1>1, <2>1, DirectoryFacts DEF NameInv
    <2>3. \A j \in Slots : block[OwnBlock(d)][j].i_number # 0 => block'[OwnBlock(d)][j].i_number # 0
      BY <1>3, <1>5, <2>2
    <2>4. ASSUME call.parent.i_number = d, NEW j \in Slots, j = inode[d].size + 1
          PROVE  block'[OwnBlock(d)][j].i_number # 0
      <3>1. SUFFICES ASSUME block[OwnBlock(d)][j].i_number = 0 PROVE block'[OwnBlock(d)][j].i_number # 0
        BY <2>3
      <3>2. call.parent.size = inode[d].size /\ IsDirectory(call.parent, d)
        BY <1>1, <1>2, <2>4 DEF NameInv, BeforeEntry, IsParent, IsMissing, IsDirectory, Directories
      <3>3. PointerAt(call.parent, 0) = OwnBlock(d)
        BY <3>2 DEF IsDirectory, PointerAt, Pointer
      <3>4. 0 < BlocksThen /\ BlocksThen \in Nat
        <4>1. call.parent.size + 1 \in Nat /\ 0 < call.parent.size + 1
          BY <2>2, <3>2
        <4>2. QED
          BY <4>1, BlocksOfSize DEF BlocksThen
      <3>5. <<0, j>> \in Unused
        BY <3>1, <3>3, <3>4 DEF Unused, PlacesOf, At
      <3> DEFINE p == FirstPlace(Unused)
      <3>6. /\ p[1] \in 0 .. BlocksThen - 1 /\ p[2] \in Slots
            /\ \A i \in Slots : 0 < p[1] => block[PointerAt(call.parent, 0)][i].i_number # 0
            /\ block[PointerAt(call.parent, p[1])][p[2]].i_number = 0
            /\ block'[PointerAt(call.parent, p[1])][p[2]].i_number # 0
        <4>1. Unused # {}
          BY <3>5
        <4>2. /\ p[1] \in 0 .. BlocksThen - 1 /\ p[2] \in Slots
              /\ \A i \in Slots : 0 < p[1] => block[PointerAt(call.parent, 0)][i].i_number # 0
          BY <1>1, <4>1, UsedBeforeFirst
        <4>3. /\ PointerAt(call.parent, p[1]) \in BlockNumbers
              /\ block[PointerAt(call.parent, p[1])][p[2]].i_number = 0
              /\ block'[PointerAt(call.parent, p[1])][p[2]] = Entry(call.new.i_number, call.name)
          BY <1>1, <4>1, WriteEntryResult
        <4>4. Entry(call.new.i_number, call.name).i_number # 0
          BY <1>1, <1>2, <1>5, EntryFacts DEF TypeInv
        <4>5. QED
          BY <4>2, <4>3, <4>4
      <3>7. \A i \in Slots : i < p[2] /\ p[1] = 0 => block[OwnBlock(d)][i].i_number # 0
        BY <1>1, <3>3, <3>5, UsedBeforeFirst
      <3> HIDE DEF p
      <3>8. p[1] = 0
        BY <3>1, <3>3, <3>4, <3>6
      <3>9. p[2] = j
        <4>1. ~(j < p[2])
          BY <3>1, <3>7, <3>8
        <4>2. ~(p[2] <= inode[d].size)
          BY <2>2, <3>3, <3>6, <3>8
        <4>3. QED
          BY <1>5, <2>2, <2>4, <3>6, <4>1, <4>2
      <3>10. QED
        BY <3>3, <3>6, <3>8, <3>9
    <2>5. \A j \in Slots : j <= inode[d].size + 1 => j <= inode[d].size \/ j = inode[d].size + 1
      BY <1>5, <2>2
    <2>6. QED
      BY <2>1, <2>2, <2>3, <2>4, <2>5
  <1>8. Len(given') <= MaxCalls
    BY <1>2 DEF NameInv
  <1>9. \A d \in Directories : call'.parent.i_number = d => call'.parent.size = inode'[d].size
    BY <1>2 DEF NameInv, BeforeEntry
  <1>10. NameInv'
    BY <1>6, <1>7, <1>8, <1>9 DEF NameInv
  <1>11. QED
    BY <1>4, <1>10

LEMMA FormattedDirectories ==
    /\ \A j \in Slots : FormattedBlocks[OwnBlock(1)][j].i_number # 0 <=> j <= 6
    /\ \A j \in Slots : FormattedBlocks[OwnBlock(5)][j].i_number # 0 <=> j <= 2
    /\ \A j \in Slots : FormattedBlocks[0][j] = IF j \in BootEntries THEN Empty ELSE Content
    /\ Formatted[1].size = 6 /\ Formatted[5].size = 2
  <1>1. /\ FormattedBlocks[OwnBlock(1)] = RootEntries /\ FormattedBlocks[OwnBlock(5)] = SubEntries
        /\ \A j \in Slots : FormattedBlocks[0][j] = IF j \in BootEntries THEN Empty ELSE Content
    <2>1. /\ OwnBlock(1) # 0 /\ OwnBlock(5) # 0 /\ OwnBlock(5) # first_data_block
          /\ OwnBlock(1) # FirstNewBlock /\ OwnBlock(5) # FirstNewBlock
          /\ OwnBlock(1) = first_data_block /\ OwnBlock(5) = first_data_block + 4
          /\ first_data_block # first_data_block + 4
      BY BlocksDiffer, NumbersDiffer DEF Directories
    <2>2. OwnBlock(1) \in BlockNumbers /\ OwnBlock(5) \in BlockNumbers /\ 0 \in BlockNumbers
      BY BlocksDiffer DEF Directories, ReadBlocks
    <2>3. FormattedBlocks[OwnBlock(1)] = RootEntries
      BY <2>1, <2>2 DEF FormattedBlocks
    <2>4. FormattedBlocks[OwnBlock(5)] = SubEntries
      BY <2>1, <2>2 DEF FormattedBlocks
    <2>5. FormattedBlocks[0] = [j \in Slots |-> IF j \in BootEntries THEN Empty ELSE Content]
      <3>1. 0 # first_data_block /\ 0 # first_data_block + 4 /\ 0 # FirstNewBlock
        BY <2>1, BlocksDiffer
      <3>2. QED
        BY <2>2, <3>1 DEF FormattedBlocks
    <2>6. QED
      BY <2>3, <2>4, <2>5
  <1>2. Formatted[1].size = 6 /\ Formatted[5].size = 2
    <2>1. 1 \in Numbered /\ 5 \in Numbered /\ 1 \in Inodes /\ 5 \in Inodes
      BY NumbersDiffer
    <2>2. QED
      BY <2>1 DEF Formatted, Inode
  <1>3. ASSUME NEW j \in Slots
        PROVE  (RootEntries[j].i_number # 0 <=> j <= 6) /\ (SubEntries[j].i_number # 0 <=> j <= 2)
    <2>1. j \in Nat /\ j >= 1
      BY VsfsAssumption DEF Slots
    <2>2. RootEntries[j].i_number # 0 <=> j <= 6
      <3> DEFINE r == <<Entry(1, "."), Entry(1, ".."), Entry(2, "prekernel.bin"),
                        Entry(3, "kernel.bin"), Entry(4, "old"), Entry(5, "sub")>>
      <3>1. RootEntries[j] = IF j <= 6 THEN r[j] ELSE Empty
        BY DEF RootEntries, EntriesFrom
      <3>2. ASSUME j <= 6 PROVE r[j].i_number # 0
        <4>1. j \in {1, 2, 3, 4, 5, 6}
          BY <2>1, <3>2
        <4>2. QED
          BY <4>1, EntryFacts
      <3> HIDE DEF r
      <3>3. QED
        BY <3>1, <3>2, EntryFacts
    <2>3. SubEntries[j].i_number # 0 <=> j <= 2
      <3> DEFINE r == <<Entry(5, "."), Entry(1, "..")>>
      <3>1. SubEntries[j] = IF j <= 2 THEN r[j] ELSE Empty
        BY DEF SubEntries, EntriesFrom
      <3>2. ASSUME j <= 2 PROVE r[j].i_number # 0
        <4>1. j \in {1, 2}
          BY <2>1, <3>2
        <4>2. QED
          BY <4>1, EntryFacts
      <3> HIDE DEF r
      <3>3. QED
        BY <3>1, <3>2, EntryFacts
    <2>4. QED
      BY <2>2, <2>3
  <1>4. QED
    BY <1>1, <1>2, <1>3

LEMMA InitNameInv == Init => NameInv
  <1> SUFFICES ASSUME Init PROVE NameInv
    OBVIOUS
  <1>1. LayoutInv
    BY InitLayoutInv
  <1>2. block = FormattedBlocks /\ inode = Formatted /\ pc = "idle" /\ given = << >>
    BY DEF Init
  <1>3. Len(given) = 0 /\ Written = 0 /\ \A d \in Directories : Counted(d) = inode[d].size
    BY <1>2 DEF Written, Counted, BeforeEntry
  <1>4. /\ Counted(1) <= 6 + Written /\ Counted(5) <= 6 + Written
        /\ \A j \in Slots : j <= Counted(1) => block[OwnBlock(1)][j].i_number # 0
        /\ \A j \in Slots : j <= Counted(5) => block[OwnBlock(5)][j].i_number # 0
    BY <1>2, <1>3, FormattedDirectories DEF Directories
  <1>5. ASSUME NEW b \in ReadBlocks \ {Spare}, NEW j \in Slots, NEW k \in Slots,
               j < k, block[b][k].i_number \notin {0, -1}
        PROVE  block[b][j].i_number # 0
    <2>1. b \in {0, OwnBlock(1), OwnBlock(5)}
      BY BlocksDiffer DEF ReadBlocks
    <2>2. j \in Nat /\ k \in Nat
      BY VsfsAssumption DEF Slots
    <2>3. CASE b = 0
      BY <1>2, <1>5, <2>3, FormattedDirectories, EntryFacts
    <2>4. CASE b = OwnBlock(1)
      BY <1>2, <1>5, <2>2, <2>4, FormattedDirectories
    <2>5. CASE b = OwnBlock(5)
      BY <1>2, <1>5, <2>2, <2>5, FormattedDirectories
    <2>6. QED
      BY <2>1, <2>3, <2>4, <2>5
  <1>6. 0 <= MaxCalls
    BY VsfsAssumption
  <1>7. pc \notin BeforeEntry \cup {"size"}
    BY <1>2 DEF BeforeEntry
  <1>8. QED
    BY <1>1, <1>3, <1>4, <1>5, <1>6, <1>7 DEF NameInv, Directories

LEMMA StepNameInv == PlacesAreDirectories /\ NameInv /\ [Next]_vars => NameInv' /\ Kept
  <1> SUFFICES ASSUME PlacesAreDirectories, NameInv, [Next]_vars PROVE NameInv' /\ Kept
    OBVIOUS
  <1>1. LayoutInv /\ LayoutInv' /\ TypeInv /\ TypeInv'
    BY StepLayoutInv DEF NameInv, LayoutInv, CacheInv
  <1>2. Len(given) \in Nat /\ Len(given) <= MaxCalls /\ MaxCalls \in Nat
    BY <1>1, DirectoryFacts, VsfsAssumption DEF NameInv
  <1>3. \A d \in Directories : d \in Inodes /\ inode[d].size \in Nat /\ Counted(d) \in Nat
    BY <1>1, DirectoryFacts
  <1>4. \A b \in ReadBlocks \ {Spare} : b \in BlockNumbers
    BY BlocksDiffer
  <1>5. CASE UNCHANGED vars
    <2>1. UNCHANGED <<block, inode, call, pc, given>>
      BY <1>5 DEF vars, disk
    <2>2. \A d \in Directories : Counted(d)' = Counted(d)
      BY <2>1 DEF Counted
    <2>3. Written' = Written
      BY <2>1 DEF Written
    <2>4. Written \in Int
      BY <1>2 DEF Written
    <2>5. pc' \in BeforeEntry \cup {"size"} =>
            \A d \in Directories : call'.parent.i_number = d => call'.parent.size = inode'[d].size
      BY <2>1 DEF NameInv
    <2>6. QED
      BY <1>1, <1>2, <1>3, <2>1, <2>2, <2>3, <2>4, <2>5, NameInvCarriesOver
  <1>6. ASSUME NEW place \in Places, NEW name \in Names, Begin(place, name) PROVE NameInv' /\ Kept
    <2>1. /\ call'.parent = get_parent_inode(place) /\ given' = Append(given, superblock.first_free_inode_bit)
          /\ superblock.first_free_inode_bit \in Inodes
      BY <1>1, <1>6, BeginResult
    <2>2. UNCHANGED <<block, inode>> /\ pc = "idle" /\ pc' = "data_bitmap" /\ Len(given) < MaxCalls
      BY <1>6 DEF Begin, GoTo
    <2>3. Len(given') = Len(given) + 1
      BY <1>1, <2>1, AppendProperties DEF TypeInv
    <2>4. \A d \in Directories : Counted(d)' = Counted(d)
      BY <2>2 DEF Counted
    <2>5. Written' = Len(given) /\ Written = Len(given)
      BY <1>2, <2>2, <2>3 DEF Written, BeforeEntry
    <2>6. \A d \in Directories : call'.parent.i_number = d => call'.parent.size = inode'[d].size
      BY <1>1, <2>1, <2>2, ParentIsParent
    <2>7. QED
      BY <1>1, <1>2, <1>3, <2>2, <2>3, <2>4, <2>5, <2>6, NameInvCarriesOver
  <1>7. CASE TakeBlock
    <2>1. call'.parent = call.parent
      BY <1>1, <1>7, TakeBlockResult
    <2>2. UNCHANGED <<block, inode, given>> /\ pc = "data_bitmap" /\ pc' = "new_inode"
      BY <1>7 DEF TakeBlock, GoTo
    <2>3. /\ \A d \in Directories : Counted(d)' = Counted(d)
          /\ Written' = Written /\ Written \in Int
          /\ \A d \in Directories : call'.parent.i_number = d => call'.parent.size = inode'[d].size
      BY <1>2, <2>1, <2>2 DEF Counted, Written, BeforeEntry, NameInv
    <2>4. QED
      BY <1>1, <1>2, <1>3, <2>2, <2>3, NameInvCarriesOver
  <1>8. CASE WriteNewInode
    <2>1. /\ inode' = [inode EXCEPT ![call.new.i_number] = call.new] /\ call.new.i_number \in NewNumbers
          /\ UNCHANGED <<call, given>> /\ pc = "new_inode" /\ pc' \in {"clear_block", "entry"}
      BY <1>1, <1>8, LargerInode, UpdateResult DEF WriteNewInode, TypeInv
    <2>2. \A d \in Directories : inode'[d] = inode[d]
      BY <1>1, <1>3, <2>1, LargerInode, InodeWritten, NumbersDiffer DEF Directories
    <2>3. /\ \A d \in Directories : Counted(d)' = Counted(d)
          /\ Written' = Written /\ Written \in Int
          /\ \A d \in Directories : call'.parent.i_number = d => call'.parent.size = inode'[d].size
      BY <1>2, <2>1, <2>2 DEF Counted, Written, BeforeEntry, NameInv
    <2>4. \A b \in ReadBlocks \ {Spare}, j \in Slots : SameEntry(block[b][j], block'[b][j])
      BY <1>1, <1>8, NewInodeKeepsEntries
    <2>5. QED
      BY <1>1, <1>2, <1>3, <2>1, <2>2, <2>3, <2>4, EntriesCarryOver
  <1>9. CASE ClearBlock
    <2>1. \A c \in BlockNumbers : block'[c] = IF c = Spare THEN [j \in Slots |-> Empty] ELSE block[c]
      BY <1>1, <1>9, GrownParent
    <2>2. call'.parent.i_number = call.parent.i_number /\ call'.parent.size = call.parent.size
      BY <1>1, <1>9, ClearBlockResult
    <2>3. UNCHANGED <<inode, given>> /\ pc = "clear_block" /\ pc' = "parent"
      BY <1>9 DEF ClearBlock, GoTo
    <2>4. /\ \A d \in Directories : Counted(d)' = Counted(d)
          /\ Written' = Written /\ Written \in Int
          /\ \A d \in Directories : call'.parent.i_number = d => call'.parent.size = inode'[d].size
      BY <1>2, <2>2, <2>3 DEF Counted, Written, BeforeEntry, NameInv
    <2>5. \A b \in ReadBlocks \ {Spare} : block'[b] = block[b]
      BY <1>4, <2>1
    <2>6. QED
      BY <1>1, <1>2, <1>3, <2>3, <2>4, <2>5, NameInvCarriesOver
  <1>10. CASE WriteParent
    <2>1. /\ inode' = [inode EXCEPT ![call.parent.i_number] = call.parent]
          /\ UNCHANGED <<block, call, given>> /\ pc = "parent" /\ pc' = "entry"
      BY <1>1, <1>10, LargerInode, ParentKeepsBlocks DEF WriteParent, GoTo
    <2>2. \A d \in Directories : inode'[d] = IF d = call.parent.i_number THEN call.parent ELSE inode[d]
      BY <1>1, <1>3, <2>1, LargerInode, InodeWritten
    <2>3. \A d \in Directories : inode'[d].size = inode[d].size
      BY <2>1, <2>2 DEF NameInv, BeforeEntry
    <2>4. /\ \A d \in Directories : Counted(d)' = Counted(d)
          /\ Written' = Written /\ Written \in Int
          /\ \A d \in Directories : call'.parent.i_number = d => call'.parent.size = inode'[d].size
      BY <1>2, <2>1, <2>3 DEF Counted, Written, BeforeEntry, NameInv
    <2>5. QED
      BY <1>1, <1>2, <1>3, <2>1, <2>3, <2>4, NameInvCarriesOver
  <1>11. CASE WriteEntry
    BY <1>1, <1>11, EntryKeepsNames
  <1>12. CASE WriteSize
    <2>1. /\ inode' = [inode EXCEPT ![Larger.i_number] = Larger] /\ Larger \in InodeType
          /\ Larger.i_number = call.parent.i_number /\ Larger.size = call.parent.size + 1
          /\ UNCHANGED <<block, call, given>> /\ pc = "size" /\ pc' = "superblock"
      BY <1>1, <1>12, LargerInode, ParentKeepsBlocks DEF WriteSize, GoTo
    <2>2. \A d \in Directories : inode'[d] = IF d = Larger.i_number THEN Larger ELSE inode[d]
      BY <1>1, <1>3, <2>1, InodeWritten
    <2>3. \A d \in Directories : call.parent.i_number = d => call.parent.size = inode[d].size
      BY <2>1 DEF NameInv
    <2>4. \A d \in Directories : inode'[d].size = Counted(d) /\ inode'[d].size >= inode[d].size
      BY <1>3, <2>1, <2>2, <2>3 DEF Counted
    <2>5. \A d \in Directories : Counted(d)' = Counted(d)
      BY <2>1, <2>4 DEF Counted
    <2>6. Written' = Written /\ Written \in Int /\ pc' \notin BeforeEntry \cup {"size"}
      BY <1>2, <2>1 DEF Written, BeforeEntry
    <2>7. QED
      BY <1>1, <1>2, <1>3, <2>1, <2>4, <2>5, <2>6, NameInvCarriesOver
  <1>13. CASE update_superblock
    <2>1. UNCHANGED <<block, inode, call, given>> /\ pc = "superblock" /\ pc' = "idle"
      BY <1>13 DEF update_superblock, GoTo
    <2>2. /\ \A d \in Directories : Counted(d)' = Counted(d)
          /\ Written' = Written /\ Written \in Int /\ pc' \notin BeforeEntry \cup {"size"}
      BY <1>2, <2>1 DEF Counted, Written, BeforeEntry
    <2>3. QED
      BY <1>1, <1>2, <1>3, <2>1, <2>2, NameInvCarriesOver
  <1>14. CASE PowerLoss
    <2>1. UNCHANGED <<block, inode, given>> /\ pc' = "idle"
      BY <1>14 DEF PowerLoss, disk
    <2>2. \A d \in Directories : Counted(d)' <= Counted(d)
      BY <1>3, <2>1 DEF Counted
    <2>3. Written' >= Written /\ pc' \notin BeforeEntry \cup {"size"}
      BY <1>2, <2>1 DEF Written, BeforeEntry
    <2>4. QED
      BY <1>1, <1>2, <1>3, <2>1, <2>2, <2>3, NameInvCarriesOver
  <1>15. QED
    BY <1>5, <1>6, <1>7, <1>8, <1>9, <1>10, <1>11, <1>12, <1>13, <1>14 DEF Next, create_file

(* With two blocks a directory is read in its own block, then in block 0.  *)
DirectoriesFit == \A d \in Directories : inode[d].size <= 2 * DIR_ENTRIES_PER_BLOCK

LEMMA SizesFit == TwoBlocksSuffice /\ NameInv => DirectoriesFit
  <1> SUFFICES ASSUME TwoBlocksSuffice, NameInv, NEW d \in Directories
               PROVE  inode[d].size <= 2 * DIR_ENTRIES_PER_BLOCK
    BY DEF DirectoriesFit
  <1>1. /\ inode[d].size \in Nat /\ Counted(d) \in Nat /\ inode[d].size <= Counted(d)
        /\ Len(given) \in Nat /\ Written \in Int /\ Written <= Len(given)
    BY DirectoryFacts DEF NameInv, Counted, Written
  <1>2. Counted(d) <= 6 + Written /\ Len(given) <= MaxCalls
    BY DEF NameInv
  <1>3. MaxCalls \in Nat /\ DIR_ENTRIES_PER_BLOCK \in Nat /\ MaxCalls + 6 <= 2 * DIR_ENTRIES_PER_BLOCK
    BY VsfsAssumption DEF TwoBlocksSuffice
  <1>4. QED
    BY <1>1, <1>2, <1>3

LEMMA TwoBlockPlaces ==
    ASSUME NEW dir \in InodeType, NEW d \in Directories, IsDirectory(dir, d),
           dir.size <= 2 * DIR_ENTRIES_PER_BLOCK
    PROVE  /\ PlacesOf(bytes_to_blocks(dir.size)) =
                {p \in {0, 1} \X Slots : p[1] = 1 => DIR_ENTRIES_PER_BLOCK < dir.size}
           /\ PointerAt(dir, 0) = OwnBlock(d) /\ PointerAt(dir, 1) = 0
           /\ bytes_to_blocks(dir.size) \in Nat
           /\ PlacesOf(bytes_to_blocks(dir.size)) \subseteq AllPlaces
  <1> DEFINE n == bytes_to_blocks(dir.size)
  <1>1. dir.size \in Nat /\ dir.size >= 1 /\ DIR_ENTRIES_PER_BLOCK \in Nat
    BY InodeFields, VsfsAssumption DEF IsDirectory
  <1>2. /\ n \in Nat /\ 0 < n /\ (1 < n <=> DIR_ENTRIES_PER_BLOCK < dir.size)
        /\ (2 < n <=> 2 * DIR_ENTRIES_PER_BLOCK < dir.size)
    BY <1>1, BlocksOfSize
  <1>3. PlacesOf(n) \subseteq AllPlaces
    BY <1>1, PlacesArePlaces
  <1> HIDE DEF n
  <1>4. n \in {1, 2} /\ (n = 2 <=> DIR_ENTRIES_PER_BLOCK < dir.size)
    BY <1>1, <1>2
  <1>5. 0 .. 1 - 1 = {0} /\ 0 .. 2 - 1 = {0, 1}
    OBVIOUS
  <1>6. PlacesOf(n) = {p \in {0, 1} \X Slots : p[1] = 1 => n = 2}
    BY <1>4, <1>5 DEF PlacesOf
  <1>7. PointerAt(dir, 0) = OwnBlock(d) /\ PointerAt(dir, 1) = 0
    BY DEF IsDirectory, PointerAt, Pointer
  <1>8. QED
    BY <1>2, <1>3, <1>4, <1>6, <1>7 DEF n

LEMMA LookupIsKept ==
    ASSUME NameInv, LayoutInv', DirectoriesFit, DirectoriesFit', Kept,
           NEW d \in Directories, NEW name, name \notin {".", "content"}, NumberIn(inode[d], name) # 0
    PROVE  NumberIn(inode[d], name)' = NumberIn(inode[d], name)
  <1> DEFINE P == PlacesOf(bytes_to_blocks(inode[d].size))
             Q == PlacesOf(bytes_to_blocks(inode'[d].size))
             M == Matches(inode[d], name)
             N == Matches(inode[d], name)'
             p == FirstPlace(M)
  <1>1. /\ LayoutInv /\ TypeInv /\ d \in Inodes
        /\ inode[d] \in InodeType /\ inode'[d] \in InodeType
        /\ IsDirectory(inode[d], d) /\ IsDirectory(inode'[d], d)
    <2>1. LayoutInv /\ TypeInv /\ TypeInv'
      BY DEF NameInv, LayoutInv, CacheInv
    <2>2. d \in Inodes
      BY <2>1, DirectoryFacts
    <2>3. inode[d] \in InodeType /\ inode'[d] \in InodeType
      BY <2>1, <2>2 DEF TypeInv
    <2>4. IsDirectory(inode[d], d) /\ IsDirectory(inode'[d], d)
      BY <2>1 DEF LayoutInv
    <2>5. QED
      BY <2>1, <2>2, <2>3, <2>4
  <1>2. /\ inode[d].size \in Nat /\ inode'[d].size \in Nat /\ inode'[d].size >= inode[d].size
        /\ inode[d].size <= 2 * DIR_ENTRIES_PER_BLOCK /\ inode'[d].size <= 2 * DIR_ENTRIES_PER_BLOCK
        /\ DIR_ENTRIES_PER_BLOCK \in Nat
    BY <1>1, InodeFields, VsfsAssumption DEF Kept, DirectoriesFit
  <1>3. /\ P = {q \in {0, 1} \X Slots : q[1] = 1 => DIR_ENTRIES_PER_BLOCK < inode[d].size}
        /\ PointerAt(inode[d], 0) = OwnBlock(d) /\ PointerAt(inode[d], 1) = 0
        /\ P \subseteq AllPlaces
    BY <1>1, <1>2, TwoBlockPlaces
  <1>4. /\ Q = {q \in {0, 1} \X Slots : q[1] = 1 => DIR_ENTRIES_PER_BLOCK < inode'[d].size}
        /\ PointerAt(inode'[d], 0) = OwnBlock(d) /\ PointerAt(inode'[d], 1) = 0
        /\ Q \subseteq AllPlaces
    BY <1>1, <1>2, TwoBlockPlaces
  <1> DEFINE B(k) == IF k = 0 THEN OwnBlock(d) ELSE 0
  <1>5. /\ M = {q \in P : block[B(q[1])][q[2]].i_number # 0 /\ block[B(q[1])][q[2]].name = name}
        /\ N = {q \in Q : block'[B(q[1])][q[2]].i_number # 0 /\ block'[B(q[1])][q[2]].name = name}
    <2>1. \A q \in P : At(inode[d], q) = block[B(q[1])][q[2]]
      BY <1>3 DEF At
    <2>2. \A q \in Q : At(inode[d], q)' = block'[B(q[1])][q[2]]
      BY <1>4 DEF At
    <2>3. M = {q \in P : At(inode[d], q).i_number # 0 /\ At(inode[d], q).name = name}
      BY DEF Matches
    <2>4. N = {q \in Q : (At(inode[d], q)').i_number # 0 /\ (At(inode[d], q)').name = name}
      BY DEF Matches
    <2> HIDE DEF P, Q, M, N, B
    <2>5. QED
      BY <2>1, <2>2, <2>3, <2>4
  <1>6. M # {} /\ M \subseteq AllPlaces
    BY <1>3, <1>5 DEF NumberIn
  <1>7. p \in M /\ \A q \in M \ {p} : Before(p, q)
    BY <1>6, FirstIsFound
  <1>8. \A k \in {0, 1} : B(k) \in ReadBlocks \ {Spare} /\ B(k) \in BlockNumbers
    BY <1>1, DirectoryFacts
  <1>9. \A k \in {0, 1}, j \in Slots :
            \/ block'[B(k)][j] = block[B(k)][j]
            \/ block[B(k)][j].i_number = 0
            \/ block[B(k)][j].name # name /\ block'[B(k)][j].name # name
    BY <1>8 DEF Kept, SameEntry
  <1>10. \A k \in {0, 1}, i \in Slots, j \in Slots :
            i < j /\ block[B(k)][j].i_number \notin {0, -1} => block[B(k)][i].i_number # 0
    BY <1>8 DEF NameInv
  <1>11. DIR_ENTRIES_PER_BLOCK < inode[d].size => \A j \in Slots : block[B(0)][j].i_number # 0
    <2>1. Counted(d) \in Nat /\ Counted(d) >= inode[d].size
      BY <1>2 DEF Counted
    <2>2. \A j \in Slots : j \in Nat /\ j <= DIR_ENTRIES_PER_BLOCK
      BY <1>2 DEF Slots
    <2>3. QED
      BY <1>2, <2>1, <2>2 DEF NameInv
  <1>12. \A k \in {0, 1}, j \in Slots : block[B(k)][j].i_number = -1 => block[B(k)][j].name = "content"
    BY <1>1, <1>8 DEF TypeInv
  <1>13. Slots \subseteq Nat
    BY VsfsAssumption DEF Slots
  <1> HIDE DEF P, Q, M, N, B, p
  <1>14. /\ p \in {0, 1} \X Slots /\ p \in Q /\ p \in N
         /\ block[B(p[1])][p[2]].i_number \notin {0, -1}
         /\ block'[B(p[1])][p[2]] = block[B(p[1])][p[2]]
    <2>1. /\ p \in P /\ p \in {0, 1} \X Slots /\ p[1] \in {0, 1} /\ p[2] \in Slots
          /\ block[B(p[1])][p[2]].i_number # 0 /\ block[B(p[1])][p[2]].name = name
      BY <1>3, <1>5, <1>7
    <2>2. p \in Q
      BY <1>2, <1>3, <1>4, <2>1
    <2>3. block'[B(p[1])][p[2]] = block[B(p[1])][p[2]]
      BY <1>9, <2>1
    <2>4. block[B(p[1])][p[2]].i_number # -1
      BY <1>12, <2>1
    <2>5. QED
      BY <1>5, <2>1, <2>2, <2>3, <2>4
  <1>15. ASSUME NEW q \in N \ {p} PROVE Before(p, q)
    <2>1. /\ q \in Q /\ q \in {0, 1} \X Slots /\ q[1] \in {0, 1} /\ q[2] \in Slots /\ q = <<q[1], q[2]>>
          /\ block'[B(q[1])][q[2]].i_number # 0 /\ block'[B(q[1])][q[2]].name = name
      BY <1>4, <1>5
    <2>2. p[1] \in {0, 1} /\ p[2] \in Slots /\ p = <<p[1], p[2]>>
      BY <1>14
    <2>3. CASE p[1] = 0 /\ q[1] = 1
      BY <2>3 DEF Before
    <2>4. CASE p[1] = 1 /\ q[1] = 0
      <3>1. DIR_ENTRIES_PER_BLOCK < inode[d].size
        BY <1>3, <1>5, <1>7, <2>4
      <3>2. block'[B(q[1])][q[2]] = block[B(q[1])][q[2]]
        BY <1>9, <1>11, <2>1, <2>4, <3>1
      <3>3. q \in P
        BY <1>3, <2>1, <2>4
      <3>4. q \in M
        BY <1>5, <2>1, <3>2, <3>3
      <3>5. QED
        BY <1>7, <3>4
    <2>5. CASE p[1] = q[1]
      <3>1. q \in P
        <4>1. p[1] = 1 => DIR_ENTRIES_PER_BLOCK < inode[d].size
          BY <1>3, <1>5, <1>7
        <4>2. QED
          BY <1>3, <2>1, <2>5, <4>1
      <3>2. CASE q \in M
        BY <1>7, <3>2
      <3>3. CASE q \notin M
        <4>1. block[B(q[1])][q[2]].i_number = 0
          BY <1>5, <1>9, <2>1, <3>1, <3>3
        <4>2. ~(q[2] < p[2])
          BY <1>10, <1>14, <2>1, <2>2, <2>5, <4>1
        <4>3. q[2] # p[2]
          BY <2>1, <2>2, <2>5
        <4>4. q[2] \in Nat /\ p[2] \in Nat
          BY <1>13, <2>1, <2>2
        <4>5. p[2] < q[2]
          BY <4>2, <4>3, <4>4
        <4>6. QED
          BY <2>5, <4>5 DEF Before
      <3>4. QED
        BY <3>2, <3>3
    <2>6. QED
      BY <2>1, <2>2, <2>3, <2>4, <2>5
  <1>16. N \subseteq AllPlaces
    BY <1>4, <1>5
  <1>17. FirstPlace(N) = p
    BY <1>14, <1>15, <1>16, FirstIsUnique
  <1>18. /\ NumberIn(inode[d], name) = At(inode[d], p).i_number
         /\ NumberIn(inode[d], name)' = (IF N = {} THEN 0 ELSE block'[PointerAt(inode'[d], FirstPlace(N)[1])][FirstPlace(N)[2]].i_number)
    BY <1>6 DEF NumberIn, At, M, N, p
  <1>19. /\ At(inode[d], p) = block[B(p[1])][p[2]]
         /\ block'[PointerAt(inode'[d], p[1])][p[2]] = block'[B(p[1])][p[2]]
    BY <1>3, <1>4, <1>14 DEF At, B
  <1>20. QED
    BY <1>14, <1>17, <1>18, <1>19

(* As long as the directories stay within two blocks, and nobody uses a    *)
(* file as a directory, a name that leads to a file leads to it for ever,  *)
(* in a directory that grows too, and wherever the power is lost.          *)
THEOREM NamesStay == ASSUME PlacesAreDirectories, TwoBlocksSuffice PROVE Spec => NamesAreKept
  <1>1. ASSUME NameInv, DirectoriesFit, DirectoriesFit', [Next]_vars
        PROVE  [\A path \in Paths : Lookup(path) # 0 => Lookup(path)' = Lookup(path)]_vars
    <2>1. LayoutInv' /\ Kept
      BY <1>1, StepNameInv DEF NameInv
    <2>2. ASSUME NEW path \in Paths, Lookup(path) # 0 PROVE Lookup(path)' = Lookup(path)
      <3>1. path[1] \in Directories /\ path[2] \notin {".", "content"}
        BY VsfsAssumption DEF Paths, RootFiles
      <3>2. QED
        BY <1>1, <2>1, <2>2, <3>1, LookupIsKept DEF Lookup
    <2>3. QED
      BY <2>2
  <1>2. QED
    BY <1>1, InitNameInv, StepNameInv, SizesFit, PTL DEF Spec, NamesAreKept

-----------------------------------------------------------------------------
(* The first file.                                                         *)
LEMMA ParentElsewhere ==
    ASSUME NEW dir, IsParent(dir)
    PROVE  Elsewhere(dir)
  <1>1. /\ 0 # FirstNewBlock /\ Spare # FirstNewBlock
        /\ \A i \in Directories : OwnBlock(i) # FirstNewBlock
    BY BlocksDiffer, NumbersDiffer
  <1>2. \A k \in Pointer : k = 0 \/ k = 1 \/ k = 2
    BY DEF Pointer
  <1>3. QED
    BY <1>1, <1>2 DEF IsParent, IsMissing, IsDirectory, Elsewhere

LEMMA FormattedElsewhere == \A i \in Inodes : Elsewhere(Formatted[i])
  <1> SUFFICES ASSUME NEW i \in Inodes, NEW k \in Pointer
               PROVE  Formatted[i].direct_pointers[k] # FirstNewBlock
    BY DEF Elsewhere
  <1>1. CASE i \in Numbered
    <2>1. OwnBlock(i) # FirstNewBlock /\ 0 # FirstNewBlock
      BY <1>1, BlocksDiffer
    <2>2. Formatted[i].direct_pointers[k] = (IF k = 0 THEN OwnBlock(i) ELSE 0)
      BY <1>1, FormattedPointers
    <2>3. QED
      BY <2>1, <2>2
  <1>2. CASE i \notin Numbered
    <2>1. Formatted[i] = NoInode
      BY <1>2 DEF Formatted
    <2>2. NoInode.direct_pointers[k] = 0
      BY DEF NoInode, Inode
    <2>3. QED
      BY <2>1, <2>2, BlocksDiffer
  <1>3. QED
    BY <1>1, <1>2

LEMMA InitApartInv == Init => ApartInv
  <1> SUFFICES ASSUME Init PROVE ApartInv
    OBVIOUS
  <1>1. Len(given) = 0 /\ pc = "idle" /\ inode = Formatted
    BY DEF Init
  <1>2. ~FirstTaken /\ ~FirstDone
    BY <1>1 DEF FirstTaken, FirstDone
  <1>3. GivenApart
    <2>1. /\ superblock.first_free_inode_bit = num_inodes
          /\ superblock.first_free_data_bit = first_data_block + file_blocks
      BY DEF Init, Bits
    <2>2. 2 .. 0 = {}
      OBVIOUS
    <2>3. QED
      BY <1>1, <1>2, <2>1, <2>2 DEF GivenApart
  <1>4. CallApart
    BY <1>1 DEF CallApart, BeforeInode
  <1>5. DiskApart
    BY <1>1, <1>2, FormattedElsewhere DEF DiskApart
  <1>6. QED
    BY <1>3, <1>4, <1>5, InitLayoutInv DEF ApartInv

(* Writing the inode of a directory.                                       *)
LEMMA ParentKeepsApart ==
    ASSUME LayoutInv, DiskApart, FirstDone' => FirstDone,
           NEW r \in InodeType, r.i_number = call.parent.i_number, Elsewhere(r), update_inode(r)
    PROVE  DiskApart'
  <1>1. TypeInv /\ IsParent(call.parent)
    BY DEF LayoutInv, CacheInv
  <1>2. block' = block /\ inode' = [inode EXCEPT ![r.i_number] = r]
    BY ParentKeepsBlocks
  <1>3. \A i \in Inodes : inode'[i] = IF i = r.i_number THEN r ELSE inode[i]
    BY <1>1, <1>2, InodeWritten
  <1>4. r.i_number # num_inodes
    BY <1>1, Sizes DEF IsParent, IsMissing, IsDirectory, Directories
  <1>5. \A i \in Inodes : i # num_inodes => Elsewhere(inode'[i])
    BY <1>3 DEF DiskApart
  <1>6. num_inodes \in Inodes /\ num_inodes' = num_inodes
    BY NumbersDiffer DEF num_inodes, num_files, INODES_PER_BLOCK
  <1>7. FirstIsWritten => FirstIsWritten'
    BY <1>2, <1>3, <1>4, <1>6 DEF FirstIsWritten
  <1>8. QED
    BY <1>5, <1>7 DEF DiskApart, Elsewhere

LEMMA OneOrMore == \A n \in Nat : (n > 0 => n = 1 \/ n > 1) /\ ~(n = 1 /\ n > 1)
  OBVIOUS

LEMMA StepApartInv == PlacesAreDirectories /\ ApartInv /\ [Next]_vars => ApartInv'
  <1> SUFFICES ASSUME PlacesAreDirectories, ApartInv, [Next]_vars, crashes' = 0
               PROVE  GivenApart' /\ CallApart' /\ DiskApart'
    BY StepLayoutInv DEF ApartInv
  <1>1. LayoutInv /\ LayoutInv' /\ TypeInv /\ TypeInv' /\ Len(given) \in Nat
    BY StepLayoutInv, DirectoryFacts DEF ApartInv, LayoutInv, CacheInv
  <1>2. ~PowerLoss
    BY <1>1 DEF PowerLoss, TypeInv
  <1>3. crashes = 0
    BY <1>2 DEF Next, create_file, vars, Begin, TakeBlock, WriteNewInode, ClearBlock, WriteParent,
                WriteEntry, WriteSize, update_superblock
  <1>4. GivenApart /\ CallApart /\ DiskApart
    BY <1>3 DEF ApartInv
  <1>5. pc # "idle" => Len(given) > 0
    BY <1>1 DEF LayoutInv, GivenInv
  <1>6. num_inodes \in Inodes /\ ReservedInodes \in Inodes /\ num_inodes # ReservedInodes
    BY NumbersDiffer DEF NewNumbers
  <1>7. ASSUME UNCHANGED <<superblock.first_free_inode_bit, superblock.first_free_data_bit, given>>,
               FirstTaken' <=> FirstTaken
        PROVE  GivenApart'
    BY <1>4, <1>7 DEF GivenApart
  <1>8. CASE UNCHANGED vars
    <2>1. UNCHANGED <<block, inode, superblock, call, pc, given>>
      BY <1>8 DEF vars, disk, memory
    <2>2. QED
      BY <1>4, <2>1 DEF GivenApart, CallApart, DiskApart, FirstTaken, FirstDone, FirstIsWritten, Elsewhere
  <1>9. ASSUME NEW place \in Places, NEW name \in Names, Begin(place, name)
        PROVE  GivenApart' /\ CallApart' /\ DiskApart'
    <2>1. /\ superblock' = Bits(ReservedInodes, superblock.first_free_data_bit)
          /\ given' = Append(given, superblock.first_free_inode_bit)
          /\ call'.new = Inode(superblock.first_free_inode_bit, DIR_ENTRIES_PER_BLOCK, 0)
          /\ superblock.first_free_inode_bit \in Inodes
      BY <1>1, <1>9, BeginResult
    <2>2. UNCHANGED <<block, inode>> /\ pc = "idle" /\ pc' = "data_bitmap"
      BY <1>9 DEF Begin, GoTo
    <2>3. /\ Len(given') = Len(given) + 1 /\ given'[Len(given) + 1] = superblock.first_free_inode_bit
          /\ \A n \in 1 .. Len(given) : given'[n] = given[n]
      BY <1>1, <2>1, AppendProperties DEF TypeInv
    <2>4. /\ superblock'.first_free_inode_bit = ReservedInodes
          /\ superblock'.first_free_data_bit = superblock.first_free_data_bit
      BY <2>1 DEF Bits
    <2>5. /\ call'.new.i_number = superblock.first_free_inode_bit
          /\ \A k \in Pointer : call'.new.direct_pointers[k] = 0
      BY <2>1 DEF Inode
    <2> DEFINE n == Len(given)
               m == Len(given')
    <2> HIDE DEF n, m
    <2>6. (FirstTaken' <=> FirstTaken) /\ (FirstDone' => FirstDone)
      <3>1. n \in Nat /\ m \in Nat /\ m = n + 1
        BY <1>1, <2>3 DEF n, m
      <3>2. (m > 1 <=> n > 0) /\ (n > 0 => n = 1 \/ n > 1) /\ (n = 1 => n > 0) /\ (n > 1 => n > 0)
        BY <3>1
      <3>3. /\ FirstTaken' <=> m > 1 \/ (m = 1 /\ pc' # "data_bitmap")
            /\ FirstTaken <=> n > 1 \/ (n = 1 /\ pc # "data_bitmap")
            /\ FirstDone' <=> m > 1 \/ (m = 1 /\ pc' \notin BeforeInode)
            /\ FirstDone <=> n > 1 \/ (n = 1 /\ pc \notin BeforeInode)
        BY DEF FirstTaken, FirstDone, BeforeInode, n, m
      <3>4. pc # "data_bitmap" /\ pc \notin BeforeInode /\ ~(pc' # "data_bitmap") /\ pc' \in BeforeInode
        BY <2>2 DEF BeforeInode
      <3>5. QED
        BY <3>2, <3>3, <3>4
    <2>7. FirstDone' => FirstDone
      BY <2>6
    <2>8. given'[1] = num_inodes
      BY <1>1, <1>4, <2>3 DEF GivenApart
    <2>9. ASSUME NEW k \in 2 .. Len(given') PROVE given'[k] = ReservedInodes
      <3>1. CASE k = Len(given) + 1
        BY <1>1, <1>4, <2>3, <3>1 DEF GivenApart
      <3>2. CASE k \in 2 .. Len(given)
        BY <1>1, <1>4, <2>3, <3>2 DEF GivenApart
      <3>3. QED
        BY <1>1, <2>3, <3>1, <3>2
    <2>10. GivenApart'
      <3>1. Len(given') # 0
        BY <1>1, <2>3
      <3>2. superblock'.first_free_data_bit = IF FirstTaken' THEN ReservedBlocks ELSE first_data_block + file_blocks
        BY <1>4, <2>4, <2>6 DEF GivenApart
      <3>3. QED
        BY <2>4, <2>8, <2>9, <3>1, <3>2 DEF GivenApart
    <2>11. CallApart'
      BY <1>1, <1>4, <2>2, <2>3, <2>5 DEF CallApart, GivenApart, BeforeInode
    <2>12. DiskApart'
      BY <1>4, <2>2, <2>7 DEF DiskApart, FirstIsWritten, Elsewhere
    <2>13. QED
      BY <2>10, <2>11, <2>12
  <1>10. CASE TakeBlock
    <2>1. /\ call'.new.i_number = call.new.i_number
          /\ call'.new.direct_pointers =
                [call.new.direct_pointers EXCEPT ![0] = first_data_block + superblock.first_free_data_bit]
          /\ superblock' = Bits(superblock.first_free_inode_bit, ReservedBlocks)
      BY <1>1, <1>10, TakeBlockResult
    <2>2. UNCHANGED <<block, inode, given>> /\ pc = "data_bitmap" /\ pc' = "new_inode" /\ Len(given) > 0
      BY <1>5, <1>10 DEF TakeBlock, GoTo
    <2>3. /\ superblock'.first_free_inode_bit = superblock.first_free_inode_bit
          /\ superblock'.first_free_data_bit = ReservedBlocks
      BY <2>1 DEF Bits
    <2>4. FirstTaken' /\ (FirstTaken <=> Len(given) # 1)
      <3>1. /\ Len(given) = 1 \/ Len(given) > 1
            /\ Len(given) = 1 => ~(Len(given) > 1)
        BY <1>1, <2>2, OneOrMore, Zenon
      <3>2. QED
        BY <2>2, <3>1 DEF FirstTaken
    <2>5. GivenApart'
      BY <1>4, <2>2, <2>3, <2>4 DEF GivenApart
    <2>6. first_data_block + superblock.first_free_data_bit = IF Len(given) = 1 THEN FirstNewBlock ELSE Spare
      BY <1>4, <2>4 DEF GivenApart, FirstNewBlock, Spare
    <2>7. /\ call'.new.direct_pointers[0] = first_data_block + superblock.first_free_data_bit
          /\ \A k \in Pointer : k # 0 => call'.new.direct_pointers[k] = call.new.direct_pointers[k]
      <3>1. call.new.direct_pointers \in [Pointer -> BlockNumbers] /\ 0 \in Pointer
        BY <1>1, LargerInode, InodeFields DEF Pointer
      <3>2. QED
        BY <2>1, <3>1
    <2>8. CallApart'
      BY <1>4, <2>1, <2>2, <2>6, <2>7 DEF CallApart, BeforeInode
    <2>9. FirstDone' => FirstDone
      BY <2>2 DEF FirstDone, BeforeInode
    <2>10. DiskApart'
      BY <1>4, <2>2, <2>9 DEF DiskApart, FirstIsWritten, Elsewhere
    <2>11. QED
      BY <2>5, <2>8, <2>10
  <1>11. CASE WriteNewInode
    <2>1. /\ UNCHANGED <<superblock, call, given>> /\ Len(given) > 0
          /\ pc = "new_inode" /\ pc' \in {"clear_block", "entry"} /\ update_inode(call.new)
      BY <1>5, <1>11 DEF WriteNewInode, memory
    <2>2. /\ inode' = [inode EXCEPT ![call.new.i_number] = call.new]
          /\ block'[first_data_block][1] =
               IF call.new.i_number = num_inodes THEN RootSlot ELSE block[first_data_block][1]
      BY <1>1, <2>1, LargerInode, UpdateResult, BlocksDiffer, Sizes
    <2>3. \A i \in Inodes : inode'[i] = IF i = call.new.i_number THEN call.new ELSE inode[i]
      BY <1>1, <2>2, LargerInode, InodeWritten
    <2>4. FirstTaken' /\ FirstTaken
      <3>1. Len(given) = 1 \/ Len(given) > 1
        BY <1>1, <2>1, OneOrMore, Zenon
      <3>2. QED
        BY <2>1, <3>1 DEF FirstTaken
    <2>5. GivenApart'
      BY <1>7, <2>1, <2>4
    <2>6. CallApart'
      BY <1>4, <2>1 DEF CallApart, BeforeInode
    <2>7. CASE Len(given) = 1
      <3>1. call.new.i_number = num_inodes /\ call.new.direct_pointers[0] = FirstNewBlock
        BY <1>4, <2>1, <2>7 DEF CallApart
      <3>2. FirstIsWritten'
        BY <1>6, <2>2, <2>3, <3>1 DEF FirstIsWritten
      <3>3. \A i \in Inodes : i # num_inodes => Elsewhere(inode'[i])
        BY <1>4, <2>3, <3>1 DEF DiskApart
      <3>4. QED
        BY <2>5, <2>6, <3>2, <3>3 DEF DiskApart, Elsewhere
    <2>8. CASE Len(given) # 1
      <3>1. FirstDone
        <4>1. Len(given) > 1
          BY <1>1, <2>1, <2>8, OneOrMore, Zenon
        <4>2. QED
          BY <4>1 DEF FirstDone
      <3>2. /\ call.new.i_number = ReservedInodes /\ call.new.direct_pointers[0] = Spare
            /\ \A k \in Pointer : k # 0 => call.new.direct_pointers[k] = 0
        BY <1>4, <2>1, <2>8 DEF CallApart, BeforeInode
      <3>3. Elsewhere(call.new)
        BY <3>2, BlocksDiffer DEF Elsewhere
      <3>4. \A i \in Inodes : i # num_inodes => Elsewhere(inode'[i])
        BY <1>4, <2>3, <3>3 DEF DiskApart
      <3>5. FirstIsWritten'
        BY <1>4, <1>6, <2>2, <2>3, <3>1, <3>2 DEF DiskApart, FirstIsWritten
      <3>6. QED
        BY <2>5, <2>6, <3>4, <3>5 DEF DiskApart, Elsewhere
    <2>9. QED
      BY <2>7, <2>8
  <1>12. CASE ClearBlock
    <2>1. call'.new = call.new /\ superblock' = Bits(superblock.first_free_inode_bit, ReservedBlocks)
      BY <1>1, <1>12, ClearBlockResult
    <2>2. UNCHANGED <<inode, given>> /\ pc = "clear_block" /\ pc' = "parent" /\ Len(given) > 0
      BY <1>5, <1>12 DEF ClearBlock, GoTo
    <2>3. block'[first_data_block] = block[first_data_block]
      BY <1>1, <1>12, GrownParent, BlocksDiffer
    <2>4. FirstTaken' /\ FirstTaken /\ (FirstDone' => FirstDone)
      <3>1. Len(given) = 1 \/ Len(given) > 1
        BY <1>1, <2>2, OneOrMore, Zenon
      <3>2. QED
        BY <2>2, <3>1 DEF FirstTaken, FirstDone, BeforeInode
    <2>5. GivenApart'
      <3>1. /\ superblock'.first_free_inode_bit = superblock.first_free_inode_bit
            /\ superblock'.first_free_data_bit = ReservedBlocks
        BY <2>1 DEF Bits
      <3>2. superblock.first_free_data_bit = ReservedBlocks
        BY <1>4, <2>4 DEF GivenApart
      <3>3. QED
        BY <1>7, <2>2, <2>4, <3>1, <3>2
    <2>6. CallApart'
      BY <1>4, <2>1, <2>2 DEF CallApart, BeforeInode
    <2>7. DiskApart'
      BY <1>4, <2>2, <2>3, <2>4 DEF DiskApart, FirstIsWritten, Elsewhere
    <2>8. QED
      BY <2>5, <2>6, <2>7
  <1>13. CASE WriteParent
    <2>1. /\ UNCHANGED <<superblock, call, given>> /\ pc = "parent" /\ pc' = "entry"
          /\ update_inode(call.parent) /\ call.parent \in InodeType /\ Elsewhere(call.parent)
      BY <1>1, <1>13, LargerInode, ParentElsewhere DEF WriteParent, memory, GoTo, LayoutInv
    <2>2. (FirstTaken' <=> FirstTaken) /\ (FirstDone' => FirstDone)
      BY <2>1 DEF FirstTaken, FirstDone, BeforeInode
    <2>3. DiskApart'
      BY <1>1, <1>4, <2>1, <2>2, ParentKeepsApart
    <2>4. CallApart'
      BY <1>4, <2>1 DEF CallApart, BeforeInode
    <2>5. QED
      BY <1>7, <2>1, <2>2, <2>3, <2>4
  <1>14. CASE WriteEntry
    <2>1. UNCHANGED <<inode, superblock, call, given>> /\ pc = "entry" /\ pc' = "size"
      BY <1>14 DEF WriteEntry, memory, GoTo
    <2>2. (FirstTaken' <=> FirstTaken) /\ (FirstDone' => FirstDone)
      BY <2>1 DEF FirstTaken, FirstDone, BeforeInode
    <2>3. block'[first_data_block][1] = block[first_data_block][1]
      <3>1. CASE Unused = {}
        BY <1>14, <3>1 DEF WriteEntry
      <3>2. CASE Unused # {}
        <4>1. block[first_data_block][1].i_number # 0
          BY <1>1, Sizes, NumbersDiffer DEF LayoutInv, Entry, RootSlot
        <4>2. QED
          BY <1>1, <1>14, <3>2, <4>1, WriteEntryResult, BlocksDiffer, Sizes
      <3>3. QED
        BY <3>1, <3>2
    <2>4. DiskApart'
      BY <1>4, <2>1, <2>2, <2>3 DEF DiskApart, FirstIsWritten, Elsewhere
    <2>5. CallApart'
      BY <1>4, <2>1 DEF CallApart, BeforeInode
    <2>6. QED
      BY <1>7, <2>1, <2>2, <2>4, <2>5
  <1>15. CASE WriteSize
    <2>1. /\ UNCHANGED <<superblock, call, given>> /\ pc = "size" /\ pc' = "superblock" /\ update_inode(Larger)
          /\ Larger \in InodeType /\ Larger.i_number = call.parent.i_number
          /\ Larger.direct_pointers = call.parent.direct_pointers
      BY <1>1, <1>15, LargerInode DEF WriteSize, GoTo
    <2>2. Elsewhere(Larger)
      BY <1>1, <2>1, ParentElsewhere DEF LayoutInv, Elsewhere
    <2>3. (FirstTaken' <=> FirstTaken) /\ (FirstDone' => FirstDone)
      BY <2>1 DEF FirstTaken, FirstDone, BeforeInode
    <2>4. DiskApart'
      BY <1>1, <1>4, <2>1, <2>2, <2>3, ParentKeepsApart
    <2>5. CallApart'
      BY <1>4, <2>1 DEF CallApart, BeforeInode
    <2>6. QED
      BY <1>7, <2>1, <2>3, <2>4, <2>5
  <1>16. CASE update_superblock
    <2>1. UNCHANGED <<block, inode, superblock, call, given>> /\ pc = "superblock" /\ pc' = "idle"
      BY <1>16 DEF update_superblock, memory, GoTo
    <2>2. (FirstTaken' <=> FirstTaken) /\ (FirstDone' => FirstDone)
      BY <2>1 DEF FirstTaken, FirstDone, BeforeInode
    <2>3. CallApart' /\ DiskApart'
      BY <1>4, <2>1, <2>2 DEF CallApart, BeforeInode, DiskApart, FirstIsWritten, Elsewhere
    <2>4. QED
      BY <1>7, <2>1, <2>2, <2>3
  <1>17. QED
    BY <1>2, <1>8, <1>9, <1>10, <1>11, <1>12, <1>13, <1>14, <1>15, <1>16 DEF Next, create_file

(* If nobody uses a file as a directory and the power is not lost, nobody  *)
(* else is given the number of the first file that is created, no inode    *)
(* points to its block and no entry is written over its inode, however     *)
(* many files are created after it.                                        *)
THEOREM FirstFileStays == ASSUME PlacesAreDirectories PROVE Spec => []FirstFileStaysApart
  <1>1. ApartInv => FirstFileStaysApart
    <2> SUFFICES ASSUME ApartInv, pc = "idle", crashes = 0, Len(given) > 0 PROVE FirstFileStaysApart
      BY DEF FirstFileStaysApart
    <2>1. GivenApart /\ DiskApart /\ LayoutInv
      BY DEF ApartInv
    <2>2. Len(given) \in Nat
      BY <2>1, DirectoryFacts
    <2>3. FirstIsWritten
      <3>1. Len(given) = 1 \/ Len(given) > 1
        BY <2>2, OneOrMore, Zenon
      <3>2. QED
        BY <2>1, <3>1 DEF DiskApart, FirstDone, BeforeInode
    <2>4. given[1] = num_inodes /\ \A k \in 2 .. Len(given) : given[k] = ReservedInodes
      BY <2>1 DEF GivenApart
    <2>5. num_inodes \notin Numbered /\ num_inodes # ReservedInodes
      BY NumbersDiffer
    <2>6. RootSlot.i_number = num_inodes
      BY EntryFacts DEF RootSlot
    <2>7. \A i \in Inodes \ {num_inodes}, k \in Pointer : inode[i].direct_pointers[k] # FirstNewBlock
      BY <2>1 DEF DiskApart, Elsewhere
    <2>8. QED
      BY <2>3, <2>4, <2>5, <2>6, <2>7 DEF FirstFileStaysApart, FirstIsWritten
  <1>2. QED
    BY <1>1, InitApartInv, StepApartInv, PTL DEF Spec

-----------------------------------------------------------------------------
(* Files that are created are found.                                       *)
LEMMA BootEntriesFinite ==
    /\ IsFiniteSet(BootEntries) /\ Cardinality(BootEntries) \in Nat
    /\ IsFiniteSet(BootEntriesUsed) /\ Cardinality(BootEntriesUsed) \in Nat
  <1>1. IsFiniteSet(1 .. DIR_ENTRIES_PER_BLOCK)
    BY FS_Interval, VsfsAssumption
  <1>2. IsFiniteSet(BootEntries)
    BY <1>1, FS_Subset, VsfsAssumption
  <1>3. IsFiniteSet(BootEntriesUsed)
    BY <1>2, FS_Subset DEF BootEntriesUsed
  <1>4. QED
    BY <1>2, <1>3, FS_CardinalityType

LEMMA InitFoundInv == Init => FoundInv
  <1> SUFFICES ASSUME Init PROVE FoundInv
    OBVIOUS
  <1>1. LayoutInv /\ NameInv
    BY InitNameInv DEF NameInv
  <1>2. block = FormattedBlocks /\ inode = Formatted /\ pc = "idle" /\ given = << >> /\ call.parent = NoInode
    BY DEF Init, NoCall
  <1>3. Written = 0 /\ Counted(1) = 6 /\ Counted(5) = 2
    BY <1>2, FormattedDirectories DEF Written, Counted, BeforeEntry
  <1>4. /\ \A j \in Slots : Counted(1) < j => block[OwnBlock(1)][j].i_number = 0
        /\ \A j \in Slots : Counted(5) < j => block[OwnBlock(5)][j].i_number = 0
    <2>1. Slots \subseteq Nat
      BY VsfsAssumption DEF Slots
    <2>2. QED
      BY <1>2, <1>3, <2>1, FormattedDirectories
  <1>5. BootEntriesUsed = {}
    <2>1. \A j \in BootEntries : j \in Slots
      BY VsfsAssumption DEF Slots
    <2>2. QED
      BY <1>2, <2>1, FormattedDirectories, EntryFacts DEF BootEntriesUsed
  <1>6. Cardinality(BootEntriesUsed) = 0
    BY <1>5, FS_EmptySet
  <1>7. InOwnBlock(1) = 6 /\ InOwnBlock(5) = 2
    BY <1>3, VsfsAssumption DEF InOwnBlock
  <1>8. \A d \in Directories : Cardinality(BootEntriesUsed) + InOwnBlock(d) - 6 <= Written
    BY <1>3, <1>6, <1>7 DEF Directories
  <1>9. call.parent.i_number = 0
    BY <1>2, NoInodeType
  <1>10. QED
    BY <1>1, <1>4, <1>8, <1>9 DEF FoundInv, Directories

LEMMA FoundEntriesCarryOver ==
    ASSUME FoundInv, NameInv', crashes' = crashes,
           \A d \in Directories : Counted(d)' = Counted(d), Written' = Written,
           \A b \in ReadBlocks \ {Spare}, j \in Slots : SameEntry(block[b][j], block'[b][j]),
           pc' \in BeforeEntry \/
              /\ call' = call /\ pc \notin BeforeEntry
              /\ \A b \in ReadBlocks \ {Spare} : block'[b] = block[b]
              /\ pc' # "size" /\ call.parent.i_number # 0 =>
                   inode'[call.parent.i_number].size = call.parent.size + 1
    PROVE  FoundInv'
  <1>1. LayoutInv
    BY DEF FoundInv, NameInv
  <1>2. /\ \A j \in Slots : block'[0][j].i_number = 0 <=> block[0][j].i_number = 0
        /\ \A d \in Directories, j \in Slots :
             block'[OwnBlock(d)][j].i_number = 0 <=> block[OwnBlock(d)][j].i_number = 0
    BY <1>1, DirectoryFacts DEF SameEntry
  <1>3. BootEntriesUsed' = BootEntriesUsed
    <2>1. \A j \in BootEntries : j \in Slots
      BY VsfsAssumption DEF Slots
    <2>2. QED
      BY <1>2, <2>1 DEF BootEntriesUsed
  <1>4. \A d \in Directories : InOwnBlock(d)' = InOwnBlock(d)
    BY DEF InOwnBlock
  <1>5. ASSUME crashes' = 0, NEW d \in Directories
        PROVE  /\ \A j \in Slots : Counted(d)' < j => block'[OwnBlock(d)][j].i_number = 0
               /\ Cardinality(BootEntriesUsed') + InOwnBlock(d)' - 6 <= Written'
    BY <1>2, <1>3, <1>4, <1>5 DEF FoundInv
  <1>6. ASSUME crashes' = 0, pc' \notin BeforeEntry, call'.parent.i_number # 0
        PROVE  /\ EntryIsThere' /\ call'.new.i_number \in NewNumbers
               /\ pc' # "size" => inode'[call'.parent.i_number].size = call'.parent.size + 1
    <2>1. EntryIsThere /\ call.new.i_number \in NewNumbers /\ call' = call
      BY <1>6 DEF FoundInv
    <2>2. IsParent(call.parent)
      BY <1>1 DEF LayoutInv
    <2>3. PICK d \in Directories : IsDirectory(call.parent, d)
      BY <1>6, <2>1, <2>2 DEF IsParent, IsMissing
    <2>4. PointerAt(call.parent, 0) = OwnBlock(d) /\ PointerAt(call.parent, 1) = 0
      BY <2>3 DEF IsDirectory, PointerAt, Pointer
    <2>5. \A k \in {0, 1} : block'[PointerAt(call.parent, k)] = block[PointerAt(call.parent, k)]
      BY <1>1, <1>6, <2>4, DirectoryFacts
    <2>6. EntryIsThere'
      BY <2>1, <2>5 DEF EntryIsThere
    <2>7. QED
      BY <1>6, <2>1, <2>6
  <1>7. QED
    BY <1>5, <1>6 DEF FoundInv

LEMMA FoundInvCarriesOver ==
    ASSUME FoundInv, NameInv', crashes' = crashes,
           \A d \in Directories : Counted(d)' = Counted(d), Written' = Written,
           \A b \in ReadBlocks \ {Spare} : block'[b] = block[b],
           pc' \in BeforeEntry \/
              /\ call' = call /\ pc \notin BeforeEntry
              /\ pc' # "size" /\ call.parent.i_number # 0 =>
                   inode'[call.parent.i_number].size = call.parent.size + 1
    PROVE  FoundInv'
  <1>1. \A b \in ReadBlocks \ {Spare}, j \in Slots : SameEntry(block[b][j], block'[b][j])
    BY DEF SameEntry
  <1>2. QED
    BY <1>1, FoundEntriesCarryOver

(* The entries a directory of at most two blocks may be given.             *)
LEMMA UnusedOfDirectory ==
    ASSUME LayoutInv, NEW d \in Directories, IsDirectory(call.parent, d),
           call.parent.size + 1 <= 2 * DIR_ENTRIES_PER_BLOCK
    PROVE  /\ Unused = {p \in {0, 1} \X Slots :
                          /\ p[1] = 1 => DIR_ENTRIES_PER_BLOCK < call.parent.size + 1
                          /\ block[PointerAt(call.parent, p[1])][p[2]].i_number = 0}
           /\ PointerAt(call.parent, 0) = OwnBlock(d) /\ PointerAt(call.parent, 1) = 0
  <1>1. TypeInv
    BY DEF LayoutInv, CacheInv
  <1>2. /\ Larger \in InodeType /\ Larger.size = call.parent.size + 1 /\ Larger.i_number = d
        /\ Larger.direct_pointers = call.parent.direct_pointers /\ call.parent.size \in Nat
    BY <1>1, LargerInode DEF IsDirectory
  <1>3. IsDirectory(Larger, d)
    <2>1. call.parent.size + 1 >= 1
      BY <1>2
    <2>2. QED
      BY <1>2, <2>1 DEF IsDirectory
  <1>4. Larger.size <= 2 * DIR_ENTRIES_PER_BLOCK
    BY <1>2
  <1>5. PlacesOf(bytes_to_blocks(Larger.size)) =
          {p \in {0, 1} \X Slots : p[1] = 1 => DIR_ENTRIES_PER_BLOCK < Larger.size}
    BY <1>2, <1>3, <1>4, TwoBlockPlaces
  <1>6. PlacesOf(BlocksThen) =
          {p \in {0, 1} \X Slots : p[1] = 1 => DIR_ENTRIES_PER_BLOCK < call.parent.size + 1}
    BY <1>2, <1>5 DEF BlocksThen
  <1>7. PointerAt(call.parent, 0) = OwnBlock(d) /\ PointerAt(call.parent, 1) = 0
    BY DEF IsDirectory, PointerAt, Pointer
  <1>8. QED
    BY <1>6, <1>7 DEF Unused, At

(* WriteEntry uses at most one more of block 0's entries.                  *)
LEMMA BootEntriesAfter ==
    ASSUME TypeInv, WriteEntry
    PROVE  /\ Cardinality(BootEntriesUsed') \in Nat
           /\ Cardinality(BootEntriesUsed') <= Cardinality(BootEntriesUsed) + 1
  <1> DEFINE s == FirstPlace(Unused)[2]
  <1>1. 0 \in BlockNumbers /\ \A j \in BootEntries : j \in Slots
    BY BlocksDiffer, VsfsAssumption DEF Slots, ReadBlocks
  <1>2. BootEntriesUsed' \subseteq BootEntriesUsed \cup {s}
    <2>1. CASE Unused = {}
      BY <2>1 DEF WriteEntry, BootEntriesUsed
    <2>2. CASE Unused # {}
      <3>1. \A j \in Slots : j # s => block'[0][j] = block[0][j]
        BY <1>1, <2>2, WriteEntryResult
      <3> HIDE DEF s
      <3>2. QED
        BY <1>1, <3>1 DEF BootEntriesUsed
    <2>3. QED
      BY <2>1, <2>2
  <1> HIDE DEF s
  <1>3. IsFiniteSet(BootEntriesUsed) /\ Cardinality(BootEntriesUsed) \in Nat
    BY BootEntriesFinite
  <1>4. /\ IsFiniteSet(BootEntriesUsed \cup {s})
        /\ Cardinality(BootEntriesUsed \cup {s}) =
             IF s \in BootEntriesUsed THEN Cardinality(BootEntriesUsed) ELSE Cardinality(BootEntriesUsed) + 1
    BY <1>3, FS_AddElement
  <1>5. /\ IsFiniteSet(BootEntriesUsed')
        /\ Cardinality(BootEntriesUsed') <= Cardinality(BootEntriesUsed \cup {s})
    BY <1>2, <1>4, FS_Subset
  <1>6. Cardinality(BootEntriesUsed') \in Nat
    BY <1>5, FS_CardinalityType
  <1>7. QED
    BY <1>3, <1>4, <1>5, <1>6

LEMMA EntryOfMissing ==
    ASSUME FoundInv, crashes = 0, WriteEntry, IsMissing(call.parent), NEW d \in Directories
    PROVE  /\ \A j \in Slots : Counted(d)' < j => block'[OwnBlock(d)][j].i_number = 0
           /\ Cardinality(BootEntriesUsed') + InOwnBlock(d)' - 6 <= Written'
  <1>1. LayoutInv /\ TypeInv
    BY DEF FoundInv, NameInv, LayoutInv, CacheInv
  <1>2. UNCHANGED <<inode, call, given>> /\ pc = "entry" /\ pc' = "size"
    BY DEF WriteEntry, GoTo
  <1>3. Counted(d)' = Counted(d) /\ Counted(d) \in Nat /\ InOwnBlock(d)' = InOwnBlock(d)
    <2>1. call.parent.i_number # d
      BY DEF IsMissing, Directories
    <2>2. Counted(d)' = Counted(d)
      BY <1>2, <2>1 DEF Counted
    <2>3. QED
      BY <1>1, <2>2, DirectoryFacts DEF InOwnBlock
  <1>4. Written' = Written + 1 /\ Written \in Int
    BY <1>1, <1>2, DirectoryFacts DEF Written, BeforeEntry
  <1>5. block'[OwnBlock(d)] = block[OwnBlock(d)]
    <2>1. CASE Unused = {}
      BY <2>1 DEF WriteEntry
    <2>2. CASE Unused # {}
      <3> DEFINE p == FirstPlace(Unused)
      <3>1. p[1] = 0
        <4>1. BlocksThen = bytes_to_blocks(0 + 1)
          BY DEF BlocksThen, IsMissing
        <4>2. 0 \in Nat /\ bytes_to_blocks(0) \in Nat /\ ~(0 < bytes_to_blocks(0)) /\ bytes_to_blocks(0 + 1) \in Nat
          BY BlocksOfSize
        <4>3. BlocksThen \in Nat /\ BlocksThen <= 1
          BY <4>1, <4>2, OneMoreEntry
        <4>4. p[1] \in 0 .. BlocksThen - 1
          BY <1>1, <2>2, UsedBeforeFirst
        <4> HIDE DEF p
        <4>5. QED
          BY <4>3, <4>4
      <3>2. PointerAt(call.parent, p[1]) = 0
        BY <3>1 DEF IsMissing, PointerAt, Pointer
      <3>3. OwnBlock(d) \in BlockNumbers /\ OwnBlock(d) # 0
        BY BlocksDiffer DEF Directories
      <3>4. \A j \in Slots : block'[OwnBlock(d)][j] = block[OwnBlock(d)][j]
        BY <1>1, <2>2, <3>2, <3>3, WriteEntryResult
      <3>5. block'[OwnBlock(d)] \in [Slots -> EntryType] /\ block[OwnBlock(d)] \in [Slots -> EntryType]
        BY <1>1, <2>2, <3>3, WriteEntryResult DEF TypeInv, BlockType
      <3>6. QED
        BY <3>4, <3>5
    <2>3. QED
      BY <2>1, <2>2
  <1>6. \A j \in Slots : Counted(d)' < j => block'[OwnBlock(d)][j].i_number = 0
    BY <1>3, <1>5 DEF FoundInv
  <1>7. Cardinality(BootEntriesUsed) + InOwnBlock(d) - 6 <= Written
    BY DEF FoundInv
  <1>8. Cardinality(BootEntriesUsed') \in Nat /\ Cardinality(BootEntriesUsed') <= Cardinality(BootEntriesUsed) + 1
    BY <1>1, BootEntriesAfter
  <1>9. InOwnBlock(d) \in Nat /\ Cardinality(BootEntriesUsed) \in Nat
    BY <1>3, BootEntriesFinite, VsfsAssumption DEF InOwnBlock
  <1>10. Cardinality(BootEntriesUsed') + InOwnBlock(d)' - 6 <= Written'
    BY <1>3, <1>4, <1>7, <1>8, <1>9
  <1>11. QED
    BY <1>6, <1>10

(* A directory's entry is the next one of its own block or, when that is   *)
(* full, one of block 0, and there is one.                                 *)
LEMMA EntryOfDirectory ==
    ASSUME FoundInv, crashes = 0, WriteEntry, TwoBlocksSuffice, BootBlockHasRoom,
           NEW d \in Directories, IsDirectory(call.parent, d)
    PROVE  /\ Unused # {}
           /\ LET p == FirstPlace(Unused)
                  size == call.parent.size
              IN  /\ size \in Nat /\ inode[d].size = size /\ size + 1 <= 2 * DIR_ENTRIES_PER_BLOCK
                  /\ p \in Unused /\ p = <<p[1], p[2]>> /\ p[2] \in Slots
                  /\ size < DIR_ENTRIES_PER_BLOCK => p[1] = 0 /\ p[2] = size + 1
                  /\ DIR_ENTRIES_PER_BLOCK <= size => p[1] = 1
  <1> DEFINE D == DIR_ENTRIES_PER_BLOCK
             z == call.parent.size
             p == FirstPlace(Unused)
  <1>1. LayoutInv /\ TypeInv
    BY DEF FoundInv, NameInv, LayoutInv, CacheInv
  <1>2. UNCHANGED <<inode, call, given>> /\ pc = "entry"
    BY DEF WriteEntry, GoTo
  <1>3. z \in Nat /\ inode[d].size = z /\ Counted(d) = z /\ D \in Nat /\ D >= 6
    <2>1. inode[d].size \in Nat /\ Counted(d) = inode[d].size
      BY <1>1, <1>2, DirectoryFacts DEF Counted
    <2>2. z = inode[d].size
      BY <1>2 DEF FoundInv, NameInv, BeforeEntry, IsDirectory
    <2>3. QED
      BY <2>1, <2>2, VsfsAssumption
  <1>4. Written = Len(given) - 1 /\ Len(given) \in Nat /\ Len(given) <= MaxCalls /\ MaxCalls \in Nat
    BY <1>1, <1>2, DirectoryFacts, VsfsAssumption DEF FoundInv, NameInv, Written, BeforeEntry
  <1>5. z + 1 <= 2 * D
    <2>1. Counted(d) <= 6 + Written
      BY DEF FoundInv, NameInv
    <2>2. z <= 6 + (Len(given) - 1)
      BY <1>3, <1>4, <2>1
    <2>3. MaxCalls + 6 <= 2 * D
      BY DEF TwoBlocksSuffice
    <2>4. QED
      BY <1>3, <1>4, <2>2, <2>3
  <1>6. /\ Unused = {q \in {0, 1} \X Slots : /\ q[1] = 1 => D < z + 1
                                             /\ block[PointerAt(call.parent, q[1])][q[2]].i_number = 0}
        /\ PointerAt(call.parent, 0) = OwnBlock(d) /\ PointerAt(call.parent, 1) = 0
    BY <1>1, <1>5, UnusedOfDirectory
  <1>7. /\ \A j \in Slots : j <= z => block[OwnBlock(d)][j].i_number # 0
        /\ \A j \in Slots : z < j => block[OwnBlock(d)][j].i_number = 0
    BY <1>3 DEF FoundInv, NameInv
  <1>8. z < D => z + 1 \in Slots /\ <<0, z + 1>> \in Unused
    <2>1. SUFFICES ASSUME z < D PROVE z + 1 \in Slots /\ <<0, z + 1>> \in Unused
      OBVIOUS
    <2>2. z + 1 \in Slots
      BY <1>3, <2>1 DEF Slots
    <2>3. block[PointerAt(call.parent, 0)][z + 1].i_number = 0
      BY <1>3, <1>6, <1>7, <2>2
    <2>4. QED
      BY <1>6, <2>2, <2>3
  <1>9. D <= z => Unused # {}
    <2>1. SUFFICES ASSUME D <= z PROVE Unused # {}
      OBVIOUS
    <2>2. InOwnBlock(d) = D
      BY <1>3, <2>1 DEF InOwnBlock
    <2>3. Cardinality(BootEntriesUsed) + D - 6 <= Len(given) - 1
      BY <1>4, <2>2 DEF FoundInv
    <2>4. MaxCalls <= D - 6 + Cardinality(BootEntries)
      BY DEF BootBlockHasRoom
    <2>5. Cardinality(BootEntries) \in Nat /\ Cardinality(BootEntriesUsed) \in Nat
      BY BootEntriesFinite
    <2>6. Cardinality(BootEntriesUsed) # Cardinality(BootEntries)
      BY <1>3, <1>4, <2>3, <2>4, <2>5
    <2>7. BootEntriesUsed # BootEntries
      BY <2>6
    <2>8. PICK j \in BootEntries : block[0][j].i_number = 0
      BY <2>7 DEF BootEntriesUsed
    <2>9. j \in Slots /\ D < z + 1
      BY <1>3, <2>1, VsfsAssumption DEF Slots
    <2>10. <<1, j>> \in Unused
      BY <1>6, <2>8, <2>9
    <2>11. QED
      BY <2>10
  <1>10. Unused # {}
    BY <1>3, <1>8, <1>9
  <1>11. /\ p \in Unused /\ p[2] \in Slots
         /\ \A j \in Slots : j < p[2] => block[PointerAt(call.parent, p[1])][j].i_number # 0
         /\ \A j \in Slots : 0 < p[1] => block[PointerAt(call.parent, 0)][j].i_number # 0
    BY <1>1, <1>10, UsedBeforeFirst
  <1> HIDE DEF p, z, D
  <1>12. /\ p[1] \in {0, 1} /\ p = <<p[1], p[2]>>
         /\ block[PointerAt(call.parent, p[1])][p[2]].i_number = 0
    BY <1>6, <1>11
  <1>13. Slots \subseteq Nat /\ \A j \in Slots : j <= D
    BY VsfsAssumption DEF Slots, D
  <1>14. ASSUME z < D PROVE p[1] = 0 /\ p[2] = z + 1
    <2>1. z + 1 \in Slots /\ block[OwnBlock(d)][z + 1].i_number = 0
      BY <1>3, <1>7, <1>8, <1>14
    <2>2. p[1] = 0
      BY <1>6, <1>11, <1>12, <2>1
    <2>3. ~(z + 1 < p[2]) /\ ~(p[2] <= z)
      BY <1>6, <1>7, <1>11, <1>12, <2>1, <2>2
    <2>4. p[2] \in Nat
      BY <1>11, <1>13
    <2>5. QED
      BY <1>3, <2>2, <2>3, <2>4
  <1>15. ASSUME D <= z PROVE p[1] = 1
    <2>1. \A j \in Slots : block[OwnBlock(d)][j].i_number # 0
      BY <1>3, <1>7, <1>13, <1>15
    <2>2. QED
      BY <1>6, <1>11, <1>12, <2>1
  <1>16. QED
    BY <1>3, <1>5, <1>10, <1>11, <1>12, <1>14, <1>15 DEF p, z, D

LEMMA EntryKeepsFound ==
    ASSUME FoundInv, NameInv', WriteEntry, TwoBlocksSuffice, BootBlockHasRoom
    PROVE  FoundInv'
  <1>1. LayoutInv /\ TypeInv /\ IsParent(call.parent)
    BY DEF FoundInv, NameInv, LayoutInv, CacheInv
  <1>2. UNCHANGED <<inode, call, given, crashes>> /\ pc = "entry" /\ pc' = "size"
    BY DEF WriteEntry, GoTo
  <1>3. SUFFICES ASSUME crashes = 0
                 PROVE  /\ \A d \in Directories :
                            /\ \A j \in Slots : Counted(d)' < j => block'[OwnBlock(d)][j].i_number = 0
                            /\ Cardinality(BootEntriesUsed') + InOwnBlock(d)' - 6 <= Written'
                        /\ call.parent.i_number # 0 => EntryIsThere' /\ call.new.i_number \in NewNumbers
    BY <1>2 DEF FoundInv
  <1>4. CASE IsMissing(call.parent)
    BY <1>3, <1>4, EntryOfMissing DEF IsMissing
  <1>5. ASSUME NEW e \in Directories, IsDirectory(call.parent, e)
        PROVE  /\ \A d \in Directories :
                    /\ \A j \in Slots : Counted(d)' < j => block'[OwnBlock(d)][j].i_number = 0
                    /\ Cardinality(BootEntriesUsed') + InOwnBlock(d)' - 6 <= Written'
               /\ EntryIsThere' /\ call.new.i_number \in NewNumbers
    <2> DEFINE D == DIR_ENTRIES_PER_BLOCK
               z == call.parent.size
               p == FirstPlace(Unused)
               x == PointerAt(call.parent, p[1])
               n == Entry(call.new.i_number, call.name)
    <2>1. /\ Unused # {} /\ z \in Nat /\ inode[e].size = z /\ z + 1 <= 2 * D
          /\ p \in Unused /\ p[2] \in Slots
          /\ z < D => p[1] = 0 /\ p[2] = z + 1
          /\ D <= z => p[1] = 1
      BY <1>3, <1>5, EntryOfDirectory
    <2>2. /\ block' \in [BlockNumbers -> BlockType] /\ x \in BlockNumbers
          /\ \A b \in BlockNumbers, j \in Slots : block'[b][j] = IF b = x /\ j = p[2] THEN n ELSE block[b][j]
      BY <1>1, <2>1, WriteEntryResult
    <2>3. /\ PointerAt(call.parent, 0) = OwnBlock(e) /\ PointerAt(call.parent, 1) = 0
      BY <1>5 DEF IsDirectory, PointerAt, Pointer
    <2>4. D \in Nat /\ D >= 6 /\ \A j \in Slots : j \in Nat /\ j <= D
      BY VsfsAssumption DEF Slots
    <2>5. Written' = Len(given) /\ Written = Len(given) - 1 /\ Len(given) \in Nat
      BY <1>1, <1>2, DirectoryFacts DEF Written, BeforeEntry
    <2>6. \A d \in Directories :
            /\ Counted(d) = inode[d].size /\ Counted(d) \in Nat
            /\ Counted(d)' = IF d = e THEN Counted(d) + 1 ELSE Counted(d)
      BY <1>1, <1>2, <1>5, DirectoryFacts DEF Counted, IsDirectory
    <2>7. \A d \in Directories : OwnBlock(d) \in BlockNumbers /\ OwnBlock(d) # 0
                                 /\ (d # e => OwnBlock(d) # OwnBlock(e))
      BY BlocksDiffer DEF Directories
    <2> HIDE DEF p, x, n, z
    <2>8. x = IF z < D THEN OwnBlock(e) ELSE 0
      BY <2>1, <2>3, <2>4 DEF x
    <2>9. ASSUME NEW d \in Directories, NEW j \in Slots, Counted(d)' < j
          PROVE  block'[OwnBlock(d)][j].i_number = 0
      <3>1. Counted(d) < j
        BY <2>4, <2>6, <2>9
      <3>2. block[OwnBlock(d)][j].i_number = 0
        BY <1>3, <3>1 DEF FoundInv
      <3>3. OwnBlock(d) # x \/ j # p[2]
        <4>1. CASE d # e
          BY <2>7, <2>8, <4>1
        <4>2. CASE d = e
          <5>1. z + 1 < j
            BY <2>1, <2>6, <2>9, <4>2
          <5>2. QED
            BY <2>1, <2>4, <2>7, <2>8, <5>1
        <4>3. QED
          BY <4>1, <4>2
      <3>4. QED
        BY <2>2, <2>7, <3>2, <3>3
    <2>10. ASSUME NEW d \in Directories
           PROVE  Cardinality(BootEntriesUsed') + InOwnBlock(d)' - 6 <= Written'
      <3> DEFINE c == Cardinality(BootEntriesUsed)
                 f == Cardinality(BootEntriesUsed')
                 o == InOwnBlock(d)
                 q == InOwnBlock(d)'
      <3>1. c + o - 6 <= Written
        BY <1>3 DEF FoundInv
      <3>2. c \in Nat /\ f \in Nat /\ f <= c + 1
        BY <1>1, BootEntriesFinite, BootEntriesAfter
      <3>3. o \in Nat /\ q \in Nat /\ q <= o + 1 /\ (d # e => q = o) /\ (D <= z => q = o)
        BY <2>1, <2>4, <2>6 DEF InOwnBlock
      <3>4. z < D => f = c
        <4>1. SUFFICES ASSUME z < D PROVE BootEntriesUsed' = BootEntriesUsed
          OBVIOUS
        <4>2. x # 0 /\ 0 \in BlockNumbers /\ \A j \in BootEntries : j \in Slots
          BY <2>7, <2>8, <4>1, BlocksDiffer, VsfsAssumption DEF Slots, ReadBlocks
        <4>3. QED
          BY <2>2, <4>2 DEF BootEntriesUsed
      <3> HIDE DEF c, f, o, q
      <3>5. f + q - 6 <= Written'
        BY <2>1, <2>4, <2>5, <3>1, <3>2, <3>3, <3>4
      <3>6. QED
        BY <3>5 DEF f, q
    <2>11. EntryIsThere'
      <3> DEFINE k == p[1]
                 j == p[2]
      <3>1. k \in {0, 1} /\ j \in Slots /\ (k = 1 => D < z + 1)
        BY <2>1, <2>4
      <3>2. block'[PointerAt(call.parent, k)][j] = n
        BY <2>1, <2>2 DEF x
      <3> HIDE DEF k, j
      <3>3. QED
        BY <1>2, <3>1, <3>2 DEF EntryIsThere, n, z
    <2>12. call.new.i_number \in NewNumbers
      BY <1>1, <1>2 DEF TypeInv
    <2>13. QED
      BY <2>9, <2>10, <2>11, <2>12
  <1>6. QED
    BY <1>1, <1>4, <1>5 DEF IsParent

LEMMA StepFoundInv ==
    PlacesAreDirectories /\ TwoBlocksSuffice /\ BootBlockHasRoom /\ FoundInv /\ [Next]_vars => FoundInv'
  <1> SUFFICES ASSUME PlacesAreDirectories, TwoBlocksSuffice, BootBlockHasRoom, FoundInv, [Next]_vars
               PROVE  FoundInv'
    OBVIOUS
  <1>1. NameInv /\ NameInv' /\ LayoutInv /\ TypeInv
    BY StepNameInv DEF FoundInv, NameInv, LayoutInv, CacheInv
  <1>2. Len(given) \in Nat /\ \A d \in Directories : d \in Inodes /\ Counted(d) \in Nat
    BY <1>1, DirectoryFacts
  <1>3. \A b \in ReadBlocks \ {Spare} : b \in BlockNumbers
    BY BlocksDiffer
  <1>4. CASE UNCHANGED vars
    <2>1. UNCHANGED <<block, inode, call, pc, given, crashes>>
      BY <1>4 DEF vars, disk
    <2>2. Written' = Written /\ \A d \in Directories : Counted(d)' = Counted(d)
      BY <2>1 DEF Counted, Written
    <2>3. BootEntriesUsed' = BootEntriesUsed /\ \A d \in Directories : InOwnBlock(d)' = InOwnBlock(d)
      BY <2>1, <2>2 DEF BootEntriesUsed, InOwnBlock
    <2>4. EntryIsThere' <=> EntryIsThere
      BY <2>1 DEF EntryIsThere
    <2>5. QED
      BY <1>1, <2>1, <2>2, <2>3, <2>4 DEF FoundInv
  <1>5. ASSUME NEW place \in Places, NEW name \in Names, Begin(place, name) PROVE FoundInv'
    <2>1. /\ given' = Append(given, superblock.first_free_inode_bit)
          /\ superblock.first_free_inode_bit \in Inodes
      BY <1>1, <1>5, BeginResult
    <2>2. UNCHANGED <<block, inode, crashes>> /\ pc = "idle" /\ pc' = "data_bitmap"
      BY <1>5 DEF Begin, GoTo
    <2>3. Len(given') = Len(given) + 1
      BY <1>1, <2>1, AppendProperties DEF TypeInv
    <2>4. \A d \in Directories : Counted(d)' = Counted(d)
      BY <2>2 DEF Counted
    <2>5. Written' = Written /\ pc' \in BeforeEntry
      BY <1>2, <2>2, <2>3 DEF Written, BeforeEntry
    <2>6. QED
      BY <1>1, <2>2, <2>4, <2>5, FoundInvCarriesOver
  <1>6. CASE TakeBlock
    <2>1. call'.parent = call.parent
      BY <1>1, <1>6, TakeBlockResult
    <2>2. UNCHANGED <<block, inode, crashes, given>> /\ pc = "data_bitmap" /\ pc' = "new_inode"
      BY <1>6 DEF TakeBlock, GoTo
    <2>3. /\ \A d \in Directories : Counted(d)' = Counted(d)
          /\ Written' = Written /\ pc' \in BeforeEntry
      BY <2>1, <2>2 DEF Counted, Written, BeforeEntry
    <2>4. QED
      BY <1>1, <2>2, <2>3, FoundInvCarriesOver
  <1>7. CASE WriteNewInode
    <2>1. /\ inode' = [inode EXCEPT ![call.new.i_number] = call.new] /\ call.new.i_number \in NewNumbers
          /\ UNCHANGED <<call, crashes, given>> /\ pc = "new_inode" /\ pc' \in {"clear_block", "entry"}
      BY <1>1, <1>7, LargerInode, UpdateResult DEF WriteNewInode, TypeInv
    <2>2. \A d \in Directories : inode'[d] = inode[d]
      BY <1>1, <1>2, <2>1, LargerInode, InodeWritten, NumbersDiffer DEF Directories
    <2>3. /\ \A d \in Directories : Counted(d)' = Counted(d)
          /\ Written' = Written /\ pc' \in BeforeEntry
      BY <2>1, <2>2 DEF Counted, Written, BeforeEntry
    <2>4. \A b \in ReadBlocks \ {Spare}, j \in Slots : SameEntry(block[b][j], block'[b][j])
      BY <1>1, <1>7, NewInodeKeepsEntries
    <2>5. QED
      BY <1>1, <2>1, <2>3, <2>4, FoundEntriesCarryOver
  <1>8. CASE ClearBlock
    <2>1. \A c \in BlockNumbers : block'[c] = IF c = Spare THEN [j \in Slots |-> Empty] ELSE block[c]
      BY <1>1, <1>8, GrownParent
    <2>2. UNCHANGED <<inode, crashes, given>> /\ pc = "clear_block" /\ pc' = "parent"
      BY <1>8 DEF ClearBlock, GoTo
    <2>3. /\ \A d \in Directories : Counted(d)' = Counted(d)
          /\ Written' = Written /\ pc' \in BeforeEntry
      BY <2>2 DEF Counted, Written, BeforeEntry
    <2>4. \A b \in ReadBlocks \ {Spare} : block'[b] = block[b]
      BY <1>3, <2>1
    <2>5. QED
      BY <1>1, <2>2, <2>3, <2>4, FoundInvCarriesOver
  <1>9. CASE WriteParent
    <2>1. /\ inode' = [inode EXCEPT ![call.parent.i_number] = call.parent]
          /\ UNCHANGED <<block, call, crashes, given>> /\ pc = "parent" /\ pc' = "entry"
      BY <1>1, <1>9, LargerInode, ParentKeepsBlocks DEF WriteParent, GoTo
    <2>2. \A d \in Directories : inode'[d] = IF d = call.parent.i_number THEN call.parent ELSE inode[d]
      BY <1>1, <1>2, <2>1, LargerInode, InodeWritten
    <2>3. \A d \in Directories : inode'[d].size = inode[d].size
      BY <2>1, <2>2 DEF FoundInv, NameInv, BeforeEntry
    <2>4. /\ \A d \in Directories : Counted(d)' = Counted(d)
          /\ Written' = Written /\ pc' \in BeforeEntry
      BY <2>1, <2>3 DEF Counted, Written, BeforeEntry
    <2>5. QED
      BY <1>1, <2>1, <2>4, FoundInvCarriesOver
  <1>10. CASE WriteEntry
    BY <1>1, <1>10, EntryKeepsFound
  <1>11. CASE WriteSize
    <2>1. /\ inode' = [inode EXCEPT ![Larger.i_number] = Larger] /\ Larger \in InodeType
          /\ Larger.i_number = call.parent.i_number /\ Larger.size = call.parent.size + 1
          /\ UNCHANGED <<block, call, crashes, given>> /\ pc = "size" /\ pc' = "superblock"
      BY <1>1, <1>11, LargerInode, ParentKeepsBlocks DEF WriteSize, GoTo
    <2>2. \A i \in Inodes : inode'[i] = IF i = Larger.i_number THEN Larger ELSE inode[i]
      BY <1>1, <2>1, InodeWritten
    <2>3. \A d \in Directories : call.parent.i_number = d => call.parent.size = inode[d].size
      BY <2>1 DEF FoundInv, NameInv
    <2>4. \A d \in Directories : Counted(d)' = Counted(d)
      BY <1>2, <2>1, <2>2, <2>3 DEF Counted
    <2>5. Larger.i_number \in Inodes
      BY <2>1, InodeFields
    <2>6. inode'[call.parent.i_number].size = call.parent.size + 1
      BY <2>1, <2>2, <2>5
    <2>7. Written' = Written /\ pc \notin BeforeEntry
      BY <2>1 DEF Written, BeforeEntry
    <2>8. QED
      BY <1>1, <2>1, <2>4, <2>6, <2>7, FoundInvCarriesOver
  <1>12. CASE update_superblock
    <2>1. UNCHANGED <<block, inode, call, crashes, given>> /\ pc = "superblock" /\ pc' = "idle"
      BY <1>12 DEF update_superblock, GoTo
    <2>2. /\ \A d \in Directories : Counted(d)' = Counted(d)
          /\ Written' = Written /\ pc \notin BeforeEntry
      BY <2>1 DEF Counted, Written, BeforeEntry
    <2>3. CASE crashes = 0
      <3>1. call.parent.i_number # 0 => inode[call.parent.i_number].size = call.parent.size + 1
        BY <2>1, <2>2, <2>3 DEF FoundInv
      <3>2. QED
        BY <1>1, <2>1, <2>2, <3>1, FoundInvCarriesOver
    <2>4. CASE crashes # 0
      BY <1>1, <2>1, <2>4 DEF FoundInv
    <2>5. QED
      BY <2>3, <2>4
  <1>13. CASE PowerLoss
    <2>1. crashes' # 0
      BY <1>1, <1>13 DEF PowerLoss, TypeInv
    <2>2. QED
      BY <1>1, <2>1 DEF FoundInv
  <1>14. QED
    BY <1>4, <1>5, <1>6, <1>7, <1>8, <1>9, <1>10, <1>11, <1>12, <1>13 DEF Next, create_file

(* If the power has not been lost, nobody uses a file as a directory, the  *)
(* directories stay within two blocks and block 0 has the room for what    *)
(* their own blocks do not hold, then a call that returns has created its  *)
(* file: its path can be looked up.                                        *)
THEOREM CreatedFilesAreFound ==
    ASSUME PlacesAreDirectories, TwoBlocksSuffice, BootBlockHasRoom
    PROVE  Spec => []CreatedFileIsFound
  <1>1. FoundInv /\ DirectoriesFit => CreatedFileIsFound
    <2> SUFFICES ASSUME FoundInv, DirectoriesFit, pc = "idle", crashes = 0, call.parent.i_number # 0
                 PROVE  Lookup(<<call.parent.i_number, call.name>>) # 0
      BY DEF CreatedFileIsFound
    <2>1. LayoutInv /\ TypeInv
      BY DEF FoundInv, NameInv, LayoutInv, CacheInv
    <2>2. PICK d \in Directories : IsDirectory(call.parent, d)
      BY <2>1 DEF LayoutInv, IsParent, IsMissing
    <2> DEFINE dir == inode[d]
               M == Matches(dir, call.name)
    <2>3. d = call.parent.i_number
      BY <2>2 DEF IsDirectory
    <2>4. EntryIsThere /\ call.new.i_number \in NewNumbers /\ dir.size = call.parent.size + 1
      BY <2>3 DEF FoundInv, BeforeEntry
    <2>5. PICK k \in {0, 1}, j \in Slots :
            /\ k = 1 => DIR_ENTRIES_PER_BLOCK < dir.size
            /\ block[PointerAt(call.parent, k)][j] = Entry(call.new.i_number, call.name)
      BY <2>4 DEF EntryIsThere
    <2>6. dir \in InodeType /\ IsDirectory(dir, d) /\ dir.size <= 2 * DIR_ENTRIES_PER_BLOCK
      BY <2>1, DirectoryFacts DEF LayoutInv, DirectoriesFit
    <2>7. /\ PlacesOf(bytes_to_blocks(dir.size)) =
                {p \in {0, 1} \X Slots : p[1] = 1 => DIR_ENTRIES_PER_BLOCK < dir.size}
          /\ PointerAt(dir, 0) = OwnBlock(d) /\ PointerAt(dir, 1) = 0
          /\ PlacesOf(bytes_to_blocks(dir.size)) \subseteq AllPlaces
      BY <2>6, TwoBlockPlaces
    <2>8. PointerAt(call.parent, k) = PointerAt(dir, k)
      <3>1. PointerAt(call.parent, 0) = OwnBlock(d) /\ PointerAt(call.parent, 1) = 0
        BY <2>2 DEF IsDirectory, PointerAt, Pointer
      <3>2. QED
        BY <2>7, <3>1
    <2>9. /\ At(dir, <<k, j>>) = Entry(call.new.i_number, call.name)
          /\ <<k, j>> \in PlacesOf(bytes_to_blocks(dir.size))
      BY <2>5, <2>7, <2>8 DEF At
    <2>10. Entry(call.new.i_number, call.name).i_number # 0 /\ Entry(call.new.i_number, call.name).name = call.name
      BY <2>4, EntryFacts, NumbersDiffer
    <2>11. <<k, j>> \in M
      BY <2>9, <2>10 DEF Matches
    <2>12. M \subseteq AllPlaces
      BY <2>7 DEF Matches
    <2>13. FirstPlace(M) \in M
      BY <2>11, <2>12, FirstIsFound
    <2>14. At(dir, FirstPlace(M)).i_number # 0
      BY <2>13 DEF Matches
    <2>15. NumberIn(dir, call.name) # 0
      BY <2>11, <2>14 DEF NumberIn
    <2>16. QED
      BY <2>3, <2>15 DEF Lookup
  <1>2. QED
    BY <1>1, InitFoundInv, StepFoundInv, InitNameInv, StepNameInv, SizesFit, PTL DEF Spec
=============================================================================
