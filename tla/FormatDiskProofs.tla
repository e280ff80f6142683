-------------------------- MODULE FormatDiskProofs --------------------------
(***************************************************************************)
(* Proofs about FormatDisk for every set of host directories, whatever     *)
(* their shape, the order of their entries and the sizes of their files.   *)
(***************************************************************************)
EXTENDS FormatDisk, FiniteSetTheorems, TLAPS

PlacedNames == {p.name : p \in placed}
Walking == pc \in {"entries", "formatted"}

(* The blocks a name is given, numbered for each name from 1 on.           *)
SizeOf(n) == IF n \in Directories THEN DirBlocks(n) ELSE tree.blocks[n]
Pieces(N) == UNION {{n} \X (1 .. SizeOf(n)) : n \in N}

(* What each stage of the program leaves to the next.                      *)
StageInv ==
    /\ tree \in Trees
    /\ pc \in {"get_file_info", "write_superblock", "write_file_data", "entries", "formatted"}
    /\ num_files \in Nat /\ file_blocks \in Nat
    /\ first_block \in Nat /\ next_inode_id \in Nat
    /\ superblock \in [num_inodes : Nat, first_inode_block : Nat, first_data_block : Nat,
                       first_free_inode_bit : Nat, first_free_data_bit : Nat]
    /\ pc # "get_file_info" =>
         num_files = Cardinality(EntriesOfTree) /\ file_blocks = Cardinality(BlocksOfTree)
    /\ pc \notin {"get_file_info", "write_superblock"} =>
         /\ superblock.first_data_block >= 4
         /\ superblock.first_free_inode_bit = num_files + 2
         /\ superblock.first_free_data_bit = superblock.first_data_block + file_blocks
    /\ ~Walking => placed = {} /\ stack = <<>> /\ next_inode_id = 4
    /\ pc = "write_file_data" => first_block = superblock.first_data_block
    /\ pc = "formatted" => stack = <<>>
    /\ pc = "entries" => stack # <<>>

(* The stack holds the directories that are being read, each once; all     *)
(* entries before a frame's place are placed and none behind it, all of a  *)
(* directory that has been read and none of one that has not been met.     *)
StackInv ==
    /\ stack \in Seq([dir : Directories, done : Nat])
    /\ \A k \in DOMAIN stack : stack[k].dir \in PlacedNames
    /\ \A k, l \in DOMAIN stack : stack[k].dir = stack[l].dir => k = l
EntriesInv ==
    /\ PlacedNames \subseteq Names(tree)
    /\ Walking => Root \in PlacedNames
    /\ \A k \in DOMAIN stack : \A i \in DOMAIN tree.entries[stack[k].dir] :
         tree.entries[stack[k].dir][i] \in PlacedNames <=> i <= stack[k].done
    /\ \A d \in Directories : (\A k \in DOMAIN stack : stack[k].dir # d) =>
         \A i \in DOMAIN tree.entries[d] : tree.entries[d][i] \in PlacedNames <=> d \in PlacedNames

RecordsInv ==
    /\ \A p \in placed : /\ p.i_number \in Nat /\ p.blocks \subseteq Nat
                         /\ p.kind = IF p.name \in Directories THEN "directory" ELSE "file"
    /\ \A p, q \in placed : p.name = q.name => p = q

(* The numbers from the counter are those below it, each given once.       *)
NumbersInv ==
    /\ next_inode_id >= 4
    /\ \A p \in placed :
         /\ p.name = Root => p.i_number = 1
         /\ p.name = "prekernel.bin" => p.i_number = 2
         /\ p.name = "kernel.bin" => p.i_number = 3
         /\ p.name \notin Binaries \cup {Root} => p.i_number \in 4 .. next_inode_id - 1
    /\ \A p, q \in placed : p.i_number = q.i_number => p = q
    /\ \A n \in 4 .. next_inode_id - 1 : \E p \in placed : p.i_number = n

(* Whatever is not the kernel's lies below first_block, apart from the     *)
(* rest; no file begins in the kernel's blocks.                            *)
BlocksInv ==
    /\ \A p \in placed :
         IF p.name = "kernel.bin"
         THEN p.blocks \subseteq KernelBlock .. KernelBlock + tree.blocks["kernel.bin"] - 1
         ELSE /\ \A b \in p.blocks : b < first_block
              /\ p.kind = "file" =>
                   \/ \E b \in p.blocks : b < KernelBlock
                   \/ \A b \in p.blocks : b >= KernelBlock + Reserved
    /\ \A p, q \in placed : p # q /\ "kernel.bin" \notin {p.name, q.name} => p.blocks \cap q.blocks = {}

(* first_block has moved by what was placed, and once past the kernel's    *)
(* blocks at most.                                                         *)
SpaceInv ==
    Walking =>
        \E skip \in {0, Reserved} :
            /\ first_block = superblock.first_data_block + skip
                               + Cardinality(Pieces(PlacedNames \ {"kernel.bin"}))
            /\ skip = Reserved => first_block >= KernelBlock + Reserved

(* What is given out is as it should be if only the binaries have their    *)
(* names, the rest whatever the names.                                     *)
GivenInv == NumbersInv /\ BlocksInv /\ SpaceInv
DiskInv == StageInv /\ StackInv /\ EntriesInv /\ RecordsInv /\ (OnlyBinaries(tree) => GivenInv)

LEMMA TreeShape ==
    ASSUME NEW t \in Trees
    PROVE  /\ IsFiniteSet(DOMAIN t.entries) /\ IsFiniteSet(DOMAIN t.blocks) /\ IsFiniteSet(Names(t))
           /\ DOMAIN t.entries \cap DOMAIN t.blocks = {}
           /\ Root \in DOMAIN t.entries /\ Binaries \subseteq DOMAIN t.blocks
           /\ OneEntryEach(t) /\ ReachedFromRoot(t)
           /\ \A d \in DOMAIN t.entries :
                /\ Len(t.entries[d]) \in Nat /\ DOMAIN t.entries[d] = 1 .. Len(t.entries[d])
                /\ \A i \in DOMAIN t.entries[d] : t.entries[d][i] \in Names(t) \ {Root}
           /\ \A f \in DOMAIN t.blocks : t.blocks[f] \in 0 .. Pointers
           /\ \A b \in Binaries : t.d_name[b] = b
  <1>1. IsTree(t)
    BY TreesAssumption
  <1>2. IsFiniteSet(Names(t))
    BY <1>1, FS_Union DEF IsTree, Names
  <1>3. ASSUME NEW d \in DOMAIN t.entries
        PROVE  /\ Len(t.entries[d]) \in Nat /\ DOMAIN t.entries[d] = 1 .. Len(t.entries[d])
               /\ \A i \in DOMAIN t.entries[d] : t.entries[d][i] \in Names(t) \ {Root}
    <2>1. t.entries[d] \in Seq(Names(t) \ {Root})
      BY <1>1, <1>3 DEF IsTree
    <2>2. QED BY <2>1
  <1>4. QED
    BY <1>1, <1>2, <1>3 DEF IsTree

(* Rounded up, the entries of a directory fill a block at least.           *)
LEMMA RoundedUp ==
    ASSUME NEW n \in Nat
    PROVE  bytes_to_blocks(n + 2) \in Nat \ {0}
  <1> DEFINE D == DIR_ENTRIES_PER_BLOCK
             x == n + 2 + D - 1
  <1>1. D \in Nat /\ D > 0 /\ x \in Nat /\ x >= D
    BY BlocksAssumption
  <1> HIDE DEF D, x
  <1>2. x \div D \in Nat /\ x \div D > 0
    BY <1>1, Z3
  <1>3. QED
    BY <1>2 DEF bytes_to_blocks, D, x

LEMMA Sizes ==
    ASSUME tree \in Trees
    PROVE  /\ \A d \in Directories : DirBlocks(d) \in Nat \ {0}
           /\ \A n \in Names(tree) : SizeOf(n) \in Nat
  <1>1. ASSUME NEW d \in Directories PROVE DirBlocks(d) \in Nat \ {0}
    BY <1>1, TreeShape, RoundedUp DEF DirBlocks, Directories
  <1>2. ASSUME NEW n \in Names(tree) PROVE SizeOf(n) \in Nat
    <2>1. CASE n \in Directories
      BY <1>1, <2>1 DEF SizeOf
    <2>2. CASE n \notin Directories
      <3>1. n \in DOMAIN tree.blocks
        BY <1>2, <2>2 DEF Names, Directories
      <3>2. tree.blocks[n] \in 0 .. Pointers
        BY <3>1, TreeShape
      <3>3. QED BY <2>2, <3>2 DEF SizeOf, Pointers
    <2>3. QED BY <2>1, <2>2
  <1>3. QED BY <1>1, <1>2

LEMMA BinariesDiffer ==
    ASSUME NEW t \in Trees
    PROVE  /\ "prekernel.bin" # "kernel.bin" /\ Root \notin Binaries
           /\ "prekernel.bin" \in DOMAIN t.blocks /\ "kernel.bin" \in DOMAIN t.blocks
           /\ \A b \in Binaries : b \notin DOMAIN t.entries
  <1>1. "prekernel.bin" # "kernel.bin"
    OBVIOUS
  <1>2. QED
    BY <1>1, TreeShape DEF Binaries

LEMMA IntervalSize ==
    ASSUME NEW a \in Int, NEW k \in Nat
    PROVE  IsFiniteSet(a .. a + k - 1) /\ Cardinality(a .. a + k - 1) = k
  <1> DEFINE b == a + k - 1
  <1>1. b \in Int /\ (a > b => k = 0) /\ b - a + 1 = k
    OBVIOUS
  <1> HIDE DEF b
  <1>2. IsFiniteSet(a .. b) /\ Cardinality(a .. b) = IF a > b THEN 0 ELSE b - a + 1
    BY <1>1, FS_Interval
  <1>3. IsFiniteSet(a .. b) /\ Cardinality(a .. b) = k
    BY <1>1, <1>2
  <1>4. QED BY <1>3 DEF b

LEMMA OneTo ==
    ASSUME NEW k \in Nat
    PROVE  IsFiniteSet(1 .. k) /\ Cardinality(1 .. k) = k
  <1>1. 1 + k - 1 = k
    OBVIOUS
  <1>2. QED BY <1>1, IntervalSize

(* Every name but the root's is counted as an entry once.                  *)
LEMMA EntriesAreNames ==
    ASSUME tree \in Trees
    PROVE  /\ Cardinality(EntriesOfTree) \in Nat
           /\ Cardinality(Names(tree)) = Cardinality(EntriesOfTree) + 1
  <1> DEFINE T == Names(tree) \ {Root}
             f == [x \in EntriesOfTree |-> tree.entries[x[1]][x[2]]]
  <1>1. \A x \in EntriesOfTree :
          /\ x[1] \in Directories /\ x[2] \in DOMAIN tree.entries[x[1]] /\ x = <<x[1], x[2]>>
    BY DEF EntriesOfTree
  <1>2. \A d \in Directories : \A i \in DOMAIN tree.entries[d] : <<d, i>> \in EntriesOfTree
    BY DEF EntriesOfTree
  <1>3. f \in [EntriesOfTree -> T]
    BY <1>1, TreeShape DEF Directories
  <1>4. ASSUME NEW x \in EntriesOfTree, NEW y \in EntriesOfTree, f[x] = f[y] PROVE x = y
    <2>1. tree.entries[x[1]][x[2]] = tree.entries[y[1]][y[2]]
      BY <1>4
    <2>2. x[1] = y[1] /\ x[2] = y[2]
      BY <1>1, <2>1, TreeShape DEF OneEntryEach, Directories
    <2>3. QED BY <1>1, <2>2
  <1>5. ASSUME NEW n \in T PROVE \E x \in EntriesOfTree : f[x] = n
    <2>1. PICK d \in Directories : \E i \in DOMAIN tree.entries[d] : n = tree.entries[d][i]
      BY <1>5, TreeShape DEF OneEntryEach, Directories
    <2>2. PICK i \in DOMAIN tree.entries[d] : n = tree.entries[d][i]
      BY <2>1
    <2>3. f[<<d, i>>] = n
      BY <1>2, <2>1, <2>2
    <2>4. QED BY <1>2, <2>1, <2>2, <2>3
  <1> HIDE DEF f
  <1>6. f \in Injection(EntriesOfTree, T) /\ f \in Surjection(EntriesOfTree, T)
    BY <1>3, <1>4, <1>5 DEF Injection, Surjection, IsInjective
  <1>7. IsFiniteSet(Names(tree)) /\ Root \in Names(tree)
    BY TreeShape DEF Names
  <1>8. IsFiniteSet(T) /\ Cardinality(Names(tree)) = Cardinality(T) + 1
    <2>1. IsFiniteSet(T) /\ Cardinality(T) = Cardinality(Names(tree)) - 1
      BY <1>7, FS_RemoveElement
    <2>2. Cardinality(Names(tree)) \in Nat
      BY <1>7, FS_CardinalityType
    <2>3. QED BY <2>1, <2>2
  <1>9. Cardinality(EntriesOfTree) = Cardinality(T) /\ Cardinality(T) \in Nat
    BY <1>6, <1>8, FS_Injection, FS_CardinalityType
  <1>10. QED BY <1>8, <1>9

LEMMA PiecesAreFinite ==
    ASSUME tree \in Trees, NEW N \in SUBSET Names(tree)
    PROVE  IsFiniteSet(Pieces(N)) /\ Cardinality(Pieces(N)) \in Nat
  <1> DEFINE f == [n \in N |-> {n} \X (1 .. SizeOf(n))]
             T == {f[n] : n \in N}
  <1>1. IsFiniteSet(N)
    BY TreeShape, FS_Subset
  <1>2. f \in Surjection(N, T)
    BY DEF Surjection
  <1>3. IsFiniteSet(T)
    BY <1>1, <1>2, FS_Surjection
  <1>4. ASSUME NEW x \in T PROVE IsFiniteSet(x)
    <2>1. PICK n \in N : x = {n} \X (1 .. SizeOf(n))
      BY <1>4
    <2>2. SizeOf(n) \in Nat
      BY <2>1, Sizes
    <2>3. IsFiniteSet({n}) /\ IsFiniteSet(1 .. SizeOf(n))
      BY <2>2, FS_Singleton, OneTo
    <2>4. QED BY <2>1, <2>3, FS_Product
  <1>5. UNION T = Pieces(N)
    BY DEF Pieces
  <1> HIDE DEF T
  <1>6. IsFiniteSet(Pieces(N))
    BY <1>3, <1>4, <1>5, FS_UNION
  <1>7. QED BY <1>6, FS_CardinalityType

(* A name more adds its own blocks.                                        *)
LEMMA PiecesOfOneMore ==
    ASSUME tree \in Trees, NEW N \in SUBSET Names(tree), NEW n \in Names(tree) \ N
    PROVE  Cardinality(Pieces(N \cup {n})) = Cardinality(Pieces(N)) + SizeOf(n)
  <1> DEFINE P == {n} \X (1 .. SizeOf(n))
  <1>1. SizeOf(n) \in Nat
    BY Sizes
  <1>2. IsFiniteSet({n}) /\ Cardinality({n}) = 1
        /\ IsFiniteSet(1 .. SizeOf(n)) /\ Cardinality(1 .. SizeOf(n)) = SizeOf(n)
    BY <1>1, FS_Singleton, OneTo
  <1>3. IsFiniteSet(P) /\ Cardinality(P) = SizeOf(n)
    <2>1. IsFiniteSet(P) /\ Cardinality(P) = Cardinality({n}) * Cardinality(1 .. SizeOf(n))
      BY <1>2, FS_Product
    <2>2. 1 * SizeOf(n) = SizeOf(n)
      BY <1>1
    <2>3. QED BY <1>2, <2>1, <2>2
  <1> DEFINE Q == Pieces(N)
  <1>4. Pieces(N \cup {n}) = Q \cup P
    BY DEF Pieces
  <1>5. Q \cap P = {}
    BY DEF Pieces
  <1>6. IsFiniteSet(Q) /\ Cardinality(Q) \in Nat
    BY PiecesAreFinite
  <1> HIDE DEF P, Q
  <1>7. Cardinality(Q \cap P) = 0
    BY <1>5, FS_EmptySet
  <1>8. Cardinality(Q \cup P) = Cardinality(Q) + Cardinality(P) - Cardinality(Q \cap P)
    BY <1>3, <1>6, FS_Union
  <1>9. Cardinality(Q \cup P) = Cardinality(Q) + SizeOf(n)
    BY <1>1, <1>3, <1>6, <1>7, <1>8
  <1>10. QED BY <1>4, <1>9 DEF Q

LEMMA BlocksArePieces ==
    ASSUME tree \in Trees
    PROVE  BlocksOfTree = Pieces(Names(tree)) /\ Cardinality(BlocksOfTree) \in Nat
  <1>1. \A n \in DOMAIN tree.blocks : SizeOf(n) = tree.blocks[n]
    BY TreeShape DEF SizeOf, Directories
  <1>2. \A n \in Directories : SizeOf(n) = DirBlocks(n)
    BY DEF SizeOf
  <1>3. Names(tree) = DOMAIN tree.blocks \cup Directories
    BY DEF Names, Directories
  <1>4. BlocksOfTree = Pieces(Names(tree))
    BY <1>1, <1>2, <1>3 DEF BlocksOfTree, FileBlocks, Pieces
  <1>5. QED BY <1>4, PiecesAreFinite

-----------------------------------------------------------------------------
(* A step of the second walk gives one more name its record.               *)
RecordOf(n, number, first) ==
    [name |-> n, i_number |-> number, kind |-> IF n \in Directories THEN "directory" ELSE "file",
     blocks |-> first .. first + SizeOf(n) - 1]
Placing(n, number, first) ==
    /\ tree \in Trees /\ tree' = tree
    /\ n \in Names(tree) \ PlacedNames
    /\ number \in Nat /\ first \in Nat
    /\ placed' = placed \cup {RecordOf(n, number, first)}

LEMMA RecordFields ==
    ASSUME NEW n, NEW number, NEW first
    PROVE  LET r == RecordOf(n, number, first)
           IN  /\ r.name = n /\ r.i_number = number
               /\ r.kind = IF n \in Directories THEN "directory" ELSE "file"
               /\ r.blocks = first .. first + SizeOf(n) - 1
  BY DEF RecordOf

LEMMA OneMoreName ==
    ASSUME NEW n, NEW number, NEW first, Placing(n, number, first)
    PROVE  /\ PlacedNames' = PlacedNames \cup {n}
           /\ \A p \in placed : p.name # n
           /\ SizeOf(n) \in Nat
           /\ RecordOf(n, number, first) \in placed'
  <1>1. SizeOf(n) \in Nat
    BY Sizes DEF Placing
  <1>2. QED
    BY <1>1, RecordFields DEF Placing, PlacedNames

LEMMA PlacingKeepsRecords ==
    ASSUME RecordsInv, NEW n, NEW number, NEW first, Placing(n, number, first)
    PROVE  RecordsInv'
  <1> DEFINE r == RecordOf(n, number, first)
  <1>1. placed' = placed \cup {r} /\ Directories' = Directories /\ number \in Nat /\ first \in Nat
    BY DEF Placing, Directories
  <1>2. SizeOf(n) \in Nat /\ \A p \in placed : p.name # n
    BY OneMoreName
  <1>3. /\ r.name = n /\ r.i_number = number
        /\ r.kind = IF n \in Directories THEN "directory" ELSE "file"
        /\ r.blocks = first .. first + SizeOf(n) - 1
    BY RecordFields
  <1> HIDE DEF r
  <1>4. ASSUME NEW p \in placed'
        PROVE  /\ p.i_number \in Nat /\ p.blocks \subseteq Nat
               /\ p.kind = IF p.name \in Directories THEN "directory" ELSE "file"
    <2>1. CASE p \in placed
      BY <2>1 DEF RecordsInv
    <2>2. CASE p = r
      BY <1>1, <1>2, <1>3, <2>2
    <2>3. QED BY <1>1, <1>4, <2>1, <2>2
  <1>5. ASSUME NEW p \in placed', NEW q \in placed', p.name = q.name PROVE p = q
    BY <1>1, <1>2, <1>3, <1>5 DEF RecordsInv
  <1>6. QED
    BY <1>1, <1>4, <1>5 DEF RecordsInv

LEMMA PlacingKeepsNumbers ==
    ASSUME RecordsInv, NumbersInv, next_inode_id \in Nat,
           NEW n, NEW number, NEW first, Placing(n, number, first),
           n = Root => number = 1,
           n = "prekernel.bin" => number = 2,
           n = "kernel.bin" => number = 3,
           n \in Binaries \cup {Root} => next_inode_id' = next_inode_id,
           n \notin Binaries \cup {Root} => number = next_inode_id /\ next_inode_id' = next_inode_id + 1
    PROVE  NumbersInv'
  <1> DEFINE r == RecordOf(n, number, first)
  <1>1. placed' = placed \cup {r}
    BY DEF Placing
  <1>2. \A p \in placed : p.name # n
    BY OneMoreName
  <1>3. r.name = n /\ r.i_number = number
    BY RecordFields
  <1>4. "prekernel.bin" # "kernel.bin" /\ Root \notin Binaries
    BY BinariesDiffer DEF Placing
  <1> HIDE DEF r
  <1>5. next_inode_id' \in Nat /\ next_inode_id' >= 4 /\ next_inode_id' >= next_inode_id
    BY DEF NumbersInv
  <1>6. ASSUME NEW p \in placed'
        PROVE  /\ p.name = Root => p.i_number = 1
               /\ p.name = "prekernel.bin" => p.i_number = 2
               /\ p.name = "kernel.bin" => p.i_number = 3
               /\ p.name \notin Binaries \cup {Root} => p.i_number \in 4 .. next_inode_id' - 1
    <2>1. CASE p \in placed
      BY <1>5, <2>1 DEF NumbersInv, RecordsInv
    <2>2. CASE p = r
      BY <1>3, <1>5, <2>2 DEF NumbersInv
    <2>3. QED BY <1>1, <1>6, <2>1, <2>2
  <1>7. ASSUME NEW p \in placed PROVE p.i_number # number
    <2>1. p.name # n /\ p.i_number \in Nat
      BY <1>2 DEF RecordsInv
    <2>2. CASE n \in Binaries \cup {Root}
      BY <1>4, <2>1, <2>2 DEF NumbersInv, Binaries
    <2>3. CASE n \notin Binaries \cup {Root}
      BY <1>4, <2>1, <2>3 DEF NumbersInv, Binaries
    <2>4. QED BY <2>2, <2>3
  <1>8. ASSUME NEW p \in placed', NEW q \in placed', p.i_number = q.i_number PROVE p = q
    BY <1>1, <1>3, <1>7, <1>8 DEF NumbersInv
  <1>9. ASSUME NEW x \in 4 .. next_inode_id' - 1 PROVE \E p \in placed' : p.i_number = x
    <2>1. CASE x < next_inode_id
      BY <1>1, <2>1 DEF NumbersInv
    <2>2. CASE x >= next_inode_id
      <3>1. x = number /\ r \in placed'
        BY <1>1, <1>9, <2>2
      <3>2. QED BY <1>3, <3>1
    <2>3. QED BY <2>1, <2>2
  <1>10. QED
    BY <1>5, <1>6, <1>8, <1>9 DEF NumbersInv

(* Where a name's blocks may begin, and what first_block is after it.      *)
Moves(n, first) ==
    /\ first_block \in Nat
    /\ n = "kernel.bin" => first = KernelBlock /\ first_block' = first_block
    /\ n # "kernel.bin" => first >= first_block /\ first_block' = first + SizeOf(n)
    /\ n # "kernel.bin" /\ n \notin Directories => first \notin KernelBlock .. KernelBlock + Reserved - 1

LEMMA PlacingKeepsBlocks ==
    ASSUME RecordsInv, BlocksInv,
           NEW n, NEW number, NEW first, Placing(n, number, first), Moves(n, first)
    PROVE  BlocksInv'
  <1> DEFINE r == RecordOf(n, number, first)
             kernelSize == tree.blocks["kernel.bin"]
             Kernel(p) == p.blocks \subseteq KernelBlock .. KernelBlock + kernelSize - 1
             Other(p, f) == /\ \A b \in p.blocks : b < f
                            /\ p.kind = "file" => \/ \E b \in p.blocks : b < KernelBlock
                                                  \/ \A b \in p.blocks : b >= KernelBlock + Reserved
             OneBlock(p, f) == IF p.name = "kernel.bin" THEN Kernel(p) ELSE Other(p, f)
  <1>1. placed' = placed \cup {r} /\ tree' = tree /\ first \in Nat
    BY DEF Placing
  <1>2. SizeOf(n) \in Nat /\ \A p \in placed : p.name # n
    BY OneMoreName
  <1>3. /\ r.name = n /\ r.kind = IF n \in Directories THEN "directory" ELSE "file"
        /\ r.blocks = first .. first + SizeOf(n) - 1
    BY RecordFields
  <1>4. n = "kernel.bin" => SizeOf(n) = kernelSize
    BY BinariesDiffer DEF Placing, SizeOf, Directories, Binaries
  <1>5. first_block \in Nat /\ first_block' \in Nat /\ first_block' >= first_block
    BY <1>1, <1>2 DEF Moves
  <1> HIDE DEF r, kernelSize
  <1>6. ASSUME NEW p \in placed' PROVE OneBlock(p, first_block')
    <2>1. CASE p \in placed
      <3>1. OneBlock(p, first_block) /\ p.blocks \subseteq Nat
        BY <2>1 DEF BlocksInv, RecordsInv, kernelSize
      <3>2. QED BY <1>5, <3>1
    <2>2. CASE p = r /\ n = "kernel.bin"
      BY <1>3, <1>4, <2>2 DEF Moves
    <2>3. CASE p = r /\ n # "kernel.bin"
      <3>1. first_block' = first + SizeOf(n)
        BY <2>3 DEF Moves
      <3>2. \A b \in p.blocks : b < first_block'
        BY <1>1, <1>2, <1>3, <2>3, <3>1
      <3>3. ASSUME p.kind = "file"
            PROVE  \/ \E b \in p.blocks : b < KernelBlock
                   \/ \A b \in p.blocks : b >= KernelBlock + Reserved
        <4>1. n \notin Directories
          BY <1>3, <2>3, <3>3
        <4>2. first < KernelBlock \/ first >= KernelBlock + Reserved
          BY <1>1, <2>3, <4>1 DEF Moves, KernelBlock, Reserved
        <4>3. CASE SizeOf(n) = 0
          BY <1>1, <1>3, <2>3, <4>3
        <4>4. CASE SizeOf(n) # 0
          <5>1. first \in p.blocks
            BY <1>1, <1>2, <1>3, <2>3, <4>4
          <5>2. \A b \in p.blocks : b >= first /\ b \in Nat
            BY <1>1, <1>2, <1>3, <2>3
          <5>3. QED BY <1>1, <4>2, <5>1, <5>2 DEF KernelBlock, Reserved
        <4>5. QED BY <4>3, <4>4
      <3>4. QED BY <1>3, <2>3, <3>2, <3>3
    <2>4. QED BY <1>1, <1>6, <2>1, <2>2, <2>3
  <1>7. ASSUME NEW p \in placed, p.name # "kernel.bin", n # "kernel.bin"
        PROVE  p.blocks \cap r.blocks = {}
    <2>1. \A b \in p.blocks : b < first_block /\ b \in Nat
      BY <1>7 DEF BlocksInv, RecordsInv
    <2>2. \A b \in r.blocks : b >= first_block
      BY <1>1, <1>2, <1>3, <1>5, <1>7 DEF Moves
    <2>3. QED BY <1>5, <2>1, <2>2
  <1>8. ASSUME NEW p \in placed', NEW q \in placed', p # q, "kernel.bin" \notin {p.name, q.name}
        PROVE  p.blocks \cap q.blocks = {}
    <2>1. CASE p \in placed /\ q \in placed
      BY <1>8, <2>1 DEF BlocksInv
    <2>2. CASE p = r /\ q \in placed
      BY <1>3, <1>7, <1>8, <2>2
    <2>3. CASE p \in placed /\ q = r
      BY <1>3, <1>7, <1>8, <2>3
    <2>4. QED BY <1>1, <1>8, <2>1, <2>2, <2>3
  <1>9. QED
    BY <1>1, <1>6, <1>8 DEF BlocksInv, kernelSize

LEMMA PlacingKeepsSpace ==
    ASSUME StageInv, EntriesInv, SpaceInv, Walking, superblock' = superblock,
           NEW n, NEW number, NEW first, Placing(n, number, first), Moves(n, first),
           first \in {first_block, first_block + Reserved} \/ n = "kernel.bin",
           first = first_block + Reserved => first_block \in KernelBlock .. KernelBlock + Reserved - 1
    PROVE  SpaceInv'
  <1> DEFINE N == PlacedNames \ {"kernel.bin"}
             now == Cardinality(Pieces(N))
             fdb == superblock.first_data_block
  <1>1. tree' = tree /\ tree \in Trees /\ n \in Names(tree) \ PlacedNames /\ SizeOf(n) \in Nat
        /\ PlacedNames' = PlacedNames \cup {n}
    BY OneMoreName DEF Placing
  <1>2. N \in SUBSET Names(tree) /\ now \in Nat /\ fdb \in Nat /\ first_block \in Nat
    BY <1>1, PiecesAreFinite DEF EntriesInv, StageInv
  <1>3. Pieces(PlacedNames \ {"kernel.bin"})' = Pieces(PlacedNames' \ {"kernel.bin"})
    BY <1>1 DEF Pieces, SizeOf, DirBlocks, Directories
  <1>4. PICK skip \in {0, Reserved} : /\ first_block = fdb + skip + now
                                      /\ skip = Reserved => first_block >= KernelBlock + Reserved
    BY DEF SpaceInv
  <1>5. CASE n = "kernel.bin"
    <2>1. PlacedNames' \ {"kernel.bin"} = N /\ first_block' = first_block
      BY <1>1, <1>5 DEF Moves
    <2>2. QED
      BY <1>3, <1>4, <2>1 DEF SpaceInv
  <1>6. CASE n # "kernel.bin"
    <2>1. PlacedNames' \ {"kernel.bin"} = N \cup {n} /\ n \in Names(tree) \ N
      BY <1>1, <1>6
    <2>2. Cardinality(Pieces(N \cup {n})) = now + SizeOf(n)
      BY <1>1, <1>2, <2>1, PiecesOfOneMore
    <2>3. Cardinality(Pieces(PlacedNames \ {"kernel.bin"}))' = now + SizeOf(n)
      BY <1>3, <2>1, <2>2
    <2>4. first_block' = first + SizeOf(n) /\ first \in {first_block, first_block + Reserved}
      BY <1>6 DEF Moves
    <2> HIDE DEF now, fdb, N
    <2>5. CASE first = first_block
      <3>1. first_block' = fdb + skip + (now + SizeOf(n))
        BY <1>1, <1>2, <1>4, <2>4, <2>5 DEF Reserved
      <3>2. skip = Reserved => first_block' >= KernelBlock + Reserved
        BY <1>1, <1>2, <1>4, <2>4, <2>5 DEF Reserved, KernelBlock
      <3>3. QED
        BY <2>3, <3>1, <3>2 DEF SpaceInv, fdb
    <2>6. CASE first = first_block + Reserved
      <3>1. first_block \in KernelBlock .. KernelBlock + Reserved - 1
        BY <2>6
      <3>2. skip = 0
        BY <1>2, <1>4, <3>1 DEF Reserved, KernelBlock
      <3>3. first_block' = fdb + Reserved + (now + SizeOf(n))
        BY <1>1, <1>2, <1>4, <2>4, <2>6, <3>2 DEF Reserved
      <3>4. first_block' >= KernelBlock + Reserved
        BY <1>1, <1>2, <2>4, <2>6, <3>1 DEF Reserved, KernelBlock
      <3>5. QED
        BY <2>3, <3>3, <3>4 DEF SpaceInv, fdb
    <2>7. QED BY <2>4, <2>5, <2>6
  <1>7. QED BY <1>5, <1>6

-----------------------------------------------------------------------------
(* The call on top of the stack, and its next entry, which nobody has      *)
(* placed: it is an entry of no other directory.                           *)
Frame == [dir : Directories, done : Nat]

LEMMA TopOfStack ==
    ASSUME StageInv, StackInv, pc = "entries"
    PROVE  /\ Len(stack) \in Nat \ {0} /\ DOMAIN stack = 1 .. Len(stack) /\ Len(stack) \in DOMAIN stack
           /\ stack \in Seq(Frame)
           /\ \A k \in DOMAIN stack : stack[k] \in Frame /\ stack[k].dir \in Directories /\ stack[k].done \in Nat
           /\ Top.dir \in Directories /\ Top.dir \in PlacedNames /\ Top.done \in Nat
  <1>1. stack \in Seq(Frame) /\ stack # <<>>
    BY DEF StageInv, StackInv, Frame
  <1>2. Len(stack) \in Nat \ {0} /\ DOMAIN stack = 1 .. Len(stack)
    BY <1>1
  <1>3. \A k \in DOMAIN stack : stack[k] \in Frame
    BY <1>1, <1>2
  <1>4. \A k \in DOMAIN stack : stack[k].dir \in Directories /\ stack[k].done \in Nat
    BY <1>3 DEF Frame
  <1>5. Len(stack) \in DOMAIN stack
    BY <1>2
  <1>6. QED
    BY <1>1, <1>2, <1>3, <1>4, <1>5 DEF Top, StackInv

LEMMA NextEntry ==
    ASSUME StageInv, StackInv, EntriesInv, More
    PROVE  /\ Top.done + 1 \in DOMAIN tree.entries[Top.dir]
           /\ Current \in Names(tree) \ PlacedNames /\ Current # Root
           /\ \A d \in Directories : \A i \in DOMAIN tree.entries[d] :
                tree.entries[d][i] = Current <=> d = Top.dir /\ i = Top.done + 1
  <1>1. pc = "entries" /\ Top.done < Len(tree.entries[Top.dir])
    BY DEF More
  <1>2. Top.dir \in Directories /\ Top.done \in Nat /\ Len(stack) \in DOMAIN stack
    BY <1>1, TopOfStack
  <1>3. tree \in Trees
    BY DEF StageInv
  <1>4. Top.done + 1 \in DOMAIN tree.entries[Top.dir]
    BY <1>1, <1>2, <1>3, TreeShape DEF Directories
  <1>5. Current \in Names(tree) \ {Root}
    BY <1>2, <1>3, <1>4, TreeShape DEF Current, Directories
  <1>6. ~(Top.done + 1 <= Top.done)
    BY <1>2
  <1>7. Current \notin PlacedNames
    BY <1>2, <1>4, <1>6 DEF EntriesInv, Current, Top
  <1>8. \A d \in Directories : \A i \in DOMAIN tree.entries[d] :
          tree.entries[d][i] = Current <=> d = Top.dir /\ i = Top.done + 1
    BY <1>2, <1>3, <1>4, TreeShape DEF OneEntryEach, Directories, Current
  <1>9. QED BY <1>4, <1>5, <1>7, <1>8

LEMMA CountedFrames ==
    ASSUME StageInv, StackInv, pc = "entries"
    PROVE  /\ Counted \in Seq(Frame) /\ Len(Counted) = Len(stack) /\ DOMAIN Counted = DOMAIN stack
           /\ \A k \in DOMAIN stack :
                /\ Counted[k].dir = stack[k].dir
                /\ Counted[k].done = IF k = Len(stack) THEN Top.done + 1 ELSE stack[k].done
  <1> DEFINE n == Len(stack)
             fr == [Top EXCEPT !.done = Top.done + 1]
             c == [stack EXCEPT ![n] = fr]
  <1>1. c = Counted
    BY DEF Counted, Top
  <1>2. n \in DOMAIN stack /\ stack \in Seq(Frame) /\ Top \in Frame /\ Top.done \in Nat /\ n \in Nat
        /\ DOMAIN stack = 1 .. n
    BY TopOfStack DEF Top
  <1>3. fr \in Frame /\ fr.dir = Top.dir /\ fr.done = Top.done + 1
    BY <1>2 DEF Frame
  <1> HIDE DEF fr
  <1>4. c \in Seq(Frame) /\ Len(c) = n /\ DOMAIN c = DOMAIN stack
    BY <1>2, <1>3
  <1>5. \A k \in DOMAIN stack : c[k] = IF k = n THEN fr ELSE stack[k]
    BY <1>2
  <1>6. QED
    BY <1>1, <1>3, <1>4, <1>5 DEF Top

LEMMA AddFileKeepsStack ==
    ASSUME StageInv, StackInv, EntriesInv, AddFile, PlacedNames' = PlacedNames \cup {Current}
    PROVE  StackInv' /\ EntriesInv'
  <1>1. /\ More /\ Current \notin Directories /\ stack' = Counted /\ tree' = tree /\ pc' = pc
        /\ pc = "entries" /\ Directories' = Directories
    BY DEF AddFile, More, Directories
  <1>2. /\ stack' \in Seq(Frame) /\ DOMAIN stack' = DOMAIN stack
        /\ \A k \in DOMAIN stack :
             /\ stack'[k].dir = stack[k].dir
             /\ stack'[k].done = IF k = Len(stack) THEN Top.done + 1 ELSE stack[k].done
    BY <1>1, CountedFrames
  <1>3. StackInv'
    BY <1>1, <1>2 DEF StackInv, Frame
  <1>4. ASSUME NEW k \in DOMAIN stack, NEW i \in DOMAIN tree.entries[stack[k].dir]
        PROVE  tree.entries[stack[k].dir][i] \in PlacedNames \cup {Current} <=> i <= stack'[k].done
    <2>1. /\ stack[k].dir \in Directories /\ stack[k].done \in Nat /\ Top.done \in Nat
          /\ Len(stack) \in DOMAIN stack /\ stack[k].dir = Top.dir => k = Len(stack)
      BY <1>1, TopOfStack DEF StackInv, Top
    <2>2. i \in Nat
      BY <2>1, TreeShape DEF Directories, StageInv
    <2>3. tree.entries[stack[k].dir][i] \in PlacedNames <=> i <= stack[k].done
      BY DEF EntriesInv
    <2>4. tree.entries[stack[k].dir][i] = Current <=> stack[k].dir = Top.dir /\ i = Top.done + 1
      BY <1>1, <2>1, NextEntry
    <2>5. CASE k = Len(stack)
      BY <1>2, <2>1, <2>2, <2>3, <2>4, <2>5 DEF Top
    <2>6. CASE k # Len(stack)
      BY <1>2, <2>1, <2>3, <2>4, <2>6
    <2>7. QED BY <2>5, <2>6
  <1>5. ASSUME NEW d \in Directories, \A k \in DOMAIN stack : stack[k].dir # d,
               NEW i \in DOMAIN tree.entries[d]
        PROVE  tree.entries[d][i] \in PlacedNames \cup {Current} <=> d \in PlacedNames \cup {Current}
    <2>1. d # Top.dir
      BY <1>1, <1>5, TopOfStack DEF Top
    <2>2. tree.entries[d][i] # Current
      BY <1>1, <2>1, NextEntry
    <2>3. tree.entries[d][i] \in PlacedNames <=> d \in PlacedNames
      BY <1>5 DEF EntriesInv
    <2>4. QED BY <1>1, <2>2, <2>3
  <1>6. PlacedNames \cup {Current} \subseteq Names(tree) /\ Root \in PlacedNames \cup {Current}
    BY <1>1, NextEntry DEF EntriesInv, Walking
  <1>7. QED
    BY <1>1, <1>2, <1>3, <1>4, <1>5, <1>6 DEF EntriesInv

LEMMA AddDirectoryKeepsStack ==
    ASSUME StageInv, StackInv, EntriesInv, AddDirectory, PlacedNames' = PlacedNames \cup {Current}
    PROVE  StackInv' /\ EntriesInv' /\ stack' # <<>>
  <1> DEFINE c == Counted
             n == Len(stack)
             fr == [dir |-> Current, done |-> 0]
  <1>1. /\ More /\ Current \in Directories /\ stack' = Append(c, fr) /\ tree' = tree /\ pc' = pc
        /\ pc = "entries" /\ Directories' = Directories
    BY DEF AddDirectory, More, Directories
  <1>2. /\ c \in Seq(Frame) /\ Len(c) = n /\ DOMAIN c = DOMAIN stack
        /\ \A k \in DOMAIN stack :
             /\ c[k].dir = stack[k].dir
             /\ c[k].done = IF k = n THEN Top.done + 1 ELSE stack[k].done
    BY <1>1, CountedFrames
  <1>3. n \in Nat \ {0} /\ DOMAIN stack = 1 .. n /\ fr \in Frame /\ fr.dir = Current /\ fr.done = 0
    BY <1>1, TopOfStack DEF Frame
  <1>4. Current \in Names(tree) /\ Current \notin PlacedNames
    BY <1>1, NextEntry
  <1>5. \A k \in DOMAIN stack : stack[k].dir # Current
    BY <1>4 DEF StackInv
  <1> HIDE DEF c, fr
  <1>6. /\ stack' \in Seq(Frame) /\ DOMAIN stack' = 1 .. n + 1 /\ Len(stack') = n + 1
        /\ stack'[n + 1] = fr /\ \A k \in DOMAIN stack : stack'[k] = c[k]
    BY <1>1, <1>2, <1>3
  <1>7. \A k \in DOMAIN stack : stack'[k].dir = stack[k].dir
    BY <1>2, <1>6
  <1>8. stack' # <<>>
    BY <1>3, <1>6
  <1>9. StackInv'
    <2>1. \A k \in DOMAIN stack' : k \in DOMAIN stack \/ k = n + 1
      BY <1>3, <1>6
    <2>2. \A k \in DOMAIN stack' : stack'[k].dir \in PlacedNames \cup {Current}
      BY <1>3, <1>6, <1>7, <2>1 DEF StackInv
    <2>3. \A k, l \in DOMAIN stack' : stack'[k].dir = stack'[l].dir => k = l
      BY <1>3, <1>5, <1>6, <1>7, <2>1 DEF StackInv
    <2>4. QED BY <1>1, <1>6, <2>2, <2>3 DEF StackInv, Frame
  <1>10. ASSUME NEW k \in DOMAIN stack, NEW i \in DOMAIN tree.entries[stack[k].dir]
         PROVE  tree.entries[stack[k].dir][i] \in PlacedNames \cup {Current} <=> i <= c[k].done
    <2>1. /\ stack[k].dir \in Directories /\ stack[k].done \in Nat /\ Top.done \in Nat
          /\ Len(stack) \in DOMAIN stack /\ stack[k].dir = Top.dir => k = Len(stack)
      BY <1>1, TopOfStack DEF StackInv, Top
    <2>2. i \in Nat
      BY <2>1, TreeShape DEF Directories, StageInv
    <2>3. tree.entries[stack[k].dir][i] \in PlacedNames <=> i <= stack[k].done
      BY DEF EntriesInv
    <2>4. tree.entries[stack[k].dir][i] = Current <=> stack[k].dir = Top.dir /\ i = Top.done + 1
      BY <1>1, <2>1, NextEntry
    <2>5. CASE k = Len(stack)
      BY <1>2, <2>1, <2>2, <2>3, <2>4, <2>5 DEF Top
    <2>6. CASE k # Len(stack)
      <3>1. stack[k].dir # Top.dir /\ c[k].done = stack[k].done
        BY <1>2, <2>1, <2>6
      <3>2. tree.entries[stack[k].dir][i] # Current
        BY <2>4, <3>1
      <3>3. QED
        BY <2>3, <3>1, <3>2
    <2>7. QED BY <2>5, <2>6
  <1>11. ASSUME NEW i \in DOMAIN tree.entries[Current]
         PROVE  tree.entries[Current][i] \notin PlacedNames \cup {Current} /\ ~(i <= 0)
    <2>1. i \in Nat /\ i > 0
      <3>1. tree \in Trees /\ Current \in DOMAIN tree.entries
        BY <1>1 DEF Directories, StageInv
      <3>2. Len(tree.entries[Current]) \in Nat /\ DOMAIN tree.entries[Current] = 1 .. Len(tree.entries[Current])
        BY <3>1, TreeShape
      <3>3. QED
        BY <1>11, <3>2
    <2>2. tree.entries[Current][i] \notin PlacedNames
      BY <1>1, <1>4, <1>5 DEF EntriesInv
    <2>3. Current # Top.dir
      BY <1>1, <1>4, TopOfStack
    <2>4. QED BY <1>1, <2>1, <2>2, <2>3, NextEntry
  <1>12. ASSUME NEW k \in DOMAIN stack', NEW i \in DOMAIN tree.entries[stack'[k].dir]
         PROVE  tree.entries[stack'[k].dir][i] \in PlacedNames \cup {Current} <=> i <= stack'[k].done
    <2>1. CASE k \in DOMAIN stack
      BY <1>6, <1>7, <1>10, <1>12, <2>1
    <2>2. CASE k = n + 1
      BY <1>3, <1>6, <1>11, <1>12, <2>2 DEF fr
    <2>3. QED BY <1>3, <1>6, <2>1, <2>2
  <1>13. ASSUME NEW d \in Directories, \A k \in DOMAIN stack' : stack'[k].dir # d,
                NEW i \in DOMAIN tree.entries[d]
         PROVE  tree.entries[d][i] \in PlacedNames \cup {Current} <=> d \in PlacedNames \cup {Current}
    <2>1. d # Current
      BY <1>3, <1>6, <1>13
    <2>2. \A k \in DOMAIN stack : stack[k].dir # d
      BY <1>3, <1>6, <1>7, <1>13
    <2>3. d # Top.dir
      BY <1>1, <2>2, TopOfStack DEF Top
    <2>4. tree.entries[d][i] # Current
      BY <1>1, <2>3, NextEntry
    <2>5. tree.entries[d][i] \in PlacedNames <=> d \in PlacedNames
      BY <2>2 DEF EntriesInv
    <2>6. QED BY <2>1, <2>4, <2>5
  <1>14. PlacedNames \cup {Current} \subseteq Names(tree) /\ Root \in PlacedNames \cup {Current}
    BY <1>1, <1>4 DEF EntriesInv, Walking
  <1>15. QED
    BY <1>1, <1>8, <1>9, <1>12, <1>13, <1>14 DEF EntriesInv

LEMMA LeaveDirectoryKeepsStack ==
    ASSUME StageInv, StackInv, EntriesInv, LeaveDirectory
    PROVE  /\ StackInv' /\ EntriesInv'
           /\ pc' = "formatted" => stack' = <<>>
           /\ pc' = "entries" => stack' # <<>>
           /\ pc' \in {"entries", "formatted"}
  <1> DEFINE n == Len(stack)
  <1>1. /\ pc = "entries" /\ ~More /\ stack' = SubSeq(stack, 1, n - 1) /\ tree' = tree
        /\ pc' = (IF n = 1 THEN "formatted" ELSE "entries") /\ PlacedNames' = PlacedNames
        /\ Directories' = Directories
    BY DEF LeaveDirectory, PlacedNames, Directories
  <1>2. n \in Nat \ {0} /\ DOMAIN stack = 1 .. n /\ stack \in Seq(Frame)
    BY <1>1, TopOfStack
  <1>3. /\ stack' \in Seq(Frame) /\ Len(stack') = n - 1 /\ DOMAIN stack' = 1 .. n - 1
        /\ \A k \in DOMAIN stack' : k \in DOMAIN stack /\ stack'[k] = stack[k]
    BY <1>1, <1>2
  <1>4. StackInv'
    BY <1>1, <1>3 DEF StackInv, Frame
  <1>5. ASSUME NEW d \in Directories, \A k \in DOMAIN stack' : stack'[k].dir # d,
               NEW i \in DOMAIN tree.entries[d]
        PROVE  tree.entries[d][i] \in PlacedNames <=> d \in PlacedNames
    <2>1. CASE d = Top.dir
      <3>1. Top.done \in Nat /\ Len(tree.entries[d]) \in Nat /\ i \in 1 .. Len(tree.entries[d])
        BY <1>1, TopOfStack, TreeShape DEF Directories, StageInv
      <3>2. i <= Top.done
        BY <1>1, <2>1, <3>1 DEF More
      <3>3. n \in DOMAIN stack /\ Top.dir \in PlacedNames
        BY <1>1, TopOfStack
      <3>4. tree.entries[d][i] \in PlacedNames
        BY <2>1, <3>2, <3>3 DEF EntriesInv, Top
      <3>5. QED BY <2>1, <3>3, <3>4
    <2>2. CASE d # Top.dir
      <3>1. \A k \in DOMAIN stack : k = n \/ k \in DOMAIN stack'
        BY <1>2, <1>3
      <3>2. \A k \in DOMAIN stack : stack[k].dir # d
        BY <1>3, <1>5, <2>2, <3>1 DEF Top
      <3>3. QED BY <3>2 DEF EntriesInv
    <2>3. QED BY <2>1, <2>2
  <1>6. Walking
    BY <1>1 DEF Walking
  <1>7. EntriesInv'
    BY <1>1, <1>3, <1>5, <1>6 DEF EntriesInv
  <1>8. (n = 1 => stack' = <<>>) /\ (n # 1 => stack' # <<>>)
    BY <1>2, <1>3
  <1>9. QED
    BY <1>1, <1>4, <1>7, <1>8

-----------------------------------------------------------------------------
LEMMA InitDiskInv == Init => DiskInv
  <1> SUFFICES ASSUME Init PROVE DiskInv
    OBVIOUS
  <1>1. superblock \in [num_inodes : Nat, first_inode_block : Nat, first_data_block : Nat,
                        first_free_inode_bit : Nat, first_free_data_bit : Nat]
    BY DEF Init, NoSuperblock
  <1>2. StageInv
    BY <1>1 DEF Init, StageInv, Walking
  <1>3. PlacedNames = {} /\ placed = {} /\ stack = <<>> /\ tree \in Trees /\ pc = "get_file_info"
    BY DEF Init, PlacedNames
  <1>4. StackInv
    BY <1>3 DEF StackInv
  <1>5. EntriesInv
    BY <1>3 DEF EntriesInv, Walking
  <1>6. RecordsInv /\ BlocksInv /\ SpaceInv
    BY <1>3 DEF RecordsInv, BlocksInv, SpaceInv, Walking
  <1>7. NumbersInv
    BY DEF Init, NumbersInv
  <1>8. QED
    BY <1>2, <1>4, <1>5, <1>6, <1>7 DEF DiskInv, GivenInv

LEMMA GetFileInfoKeeps == DiskInv /\ get_file_info => DiskInv'
  <1> SUFFICES ASSUME DiskInv, get_file_info PROVE DiskInv'
    OBVIOUS
  <1> USE DEF DiskInv
  <1>1. /\ pc = "get_file_info" /\ pc' = "write_superblock" /\ tree' = tree /\ superblock' = superblock
        /\ first_block' = first_block /\ next_inode_id' = next_inode_id /\ stack' = stack /\ placed' = placed
        /\ num_files' = Cardinality(EntriesOfTree) /\ file_blocks' = Cardinality(BlocksOfTree)
    BY DEF get_file_info
  <1>2. num_files' \in Nat /\ file_blocks' \in Nat
    BY <1>1, EntriesAreNames, BlocksArePieces DEF StageInv
  <1>3. EntriesOfTree' = EntriesOfTree /\ BlocksOfTree' = BlocksOfTree /\ PlacedNames' = PlacedNames
        /\ Directories' = Directories
    BY <1>1 DEF EntriesOfTree, BlocksOfTree, FileBlocks, DirBlocks, Directories, PlacedNames
  <1>4. StageInv'
    BY <1>1, <1>2, <1>3 DEF StageInv, Walking
  <1>5. StackInv' /\ EntriesInv'
    BY <1>1, <1>3 DEF StackInv, EntriesInv, Walking
  <1>6. RecordsInv' /\ (GivenInv => GivenInv')
    BY <1>1, <1>3 DEF RecordsInv, GivenInv, NumbersInv, BlocksInv, SpaceInv, Walking
  <1>7. QED BY <1>1, <1>4, <1>5, <1>6

LEMMA WriteSuperblockKeeps == DiskInv /\ write_superblock => DiskInv'
  <1> SUFFICES ASSUME DiskInv, write_superblock PROVE DiskInv'
    OBVIOUS
  <1> USE DEF DiskInv
  <1> DEFINE k == InodesOfDisk \div INODES_PER_BLOCK
             fdb == 4 + k
  <1>1. /\ pc = "write_superblock" /\ pc' = "write_file_data" /\ tree' = tree
        /\ first_block' = fdb /\ next_inode_id' = next_inode_id /\ stack' = stack /\ placed' = placed
        /\ num_files' = num_files /\ file_blocks' = file_blocks
        /\ superblock' = [num_inodes |-> InodesOfDisk, first_inode_block |-> 4, first_data_block |-> fdb,
                          first_free_inode_bit |-> InodesOfDisk, first_free_data_bit |-> fdb + file_blocks]
    BY DEF write_superblock
  <1>2. num_files \in Nat /\ file_blocks \in Nat /\ InodesOfDisk \in Nat /\ InodesOfDisk = num_files + 2
    BY DEF StageInv, InodesOfDisk
  <1>3. k \in Nat
    BY <1>2, BlocksAssumption, Z3
  <1> HIDE DEF k
  <1>4. fdb \in Nat /\ fdb >= 4 /\ fdb + file_blocks \in Nat
    BY <1>2, <1>3
  <1>5. EntriesOfTree' = EntriesOfTree /\ BlocksOfTree' = BlocksOfTree /\ PlacedNames' = PlacedNames
        /\ Directories' = Directories
    BY <1>1 DEF EntriesOfTree, BlocksOfTree, FileBlocks, DirBlocks, Directories, PlacedNames
  <1> HIDE DEF fdb
  <1>6. /\ superblock' \in [num_inodes : Nat, first_inode_block : Nat, first_data_block : Nat,
                            first_free_inode_bit : Nat, first_free_data_bit : Nat]
        /\ superblock'.first_data_block = fdb /\ superblock'.first_free_inode_bit = num_files + 2
        /\ superblock'.first_free_data_bit = fdb + file_blocks
    BY <1>1, <1>2, <1>4
  <1>7. StageInv'
    BY <1>1, <1>2, <1>4, <1>5, <1>6 DEF StageInv, Walking
  <1>8. StackInv' /\ EntriesInv'
    BY <1>1, <1>5 DEF StackInv, EntriesInv, Walking
  <1>9. placed = {}
    BY <1>1 DEF StageInv, Walking
  <1>10. RecordsInv' /\ (GivenInv => GivenInv')
    BY <1>1, <1>5, <1>9 DEF RecordsInv, GivenInv, NumbersInv, BlocksInv, SpaceInv, Walking
  <1>11. QED BY <1>1, <1>7, <1>8, <1>10

LEMMA EnterRootKeeps == DiskInv /\ EnterRoot => DiskInv'
  <1> SUFFICES ASSUME DiskInv, EnterRoot PROVE DiskInv'
    OBVIOUS
  <1> USE DEF DiskInv
  <1> DEFINE fr == [dir |-> Root, done |-> 0]
  <1>1. /\ pc = "write_file_data" /\ pc' = "entries" /\ tree' = tree /\ superblock' = superblock
        /\ num_files' = num_files /\ file_blocks' = file_blocks /\ next_inode_id' = next_inode_id
        /\ stack = <<>> /\ stack' = Append(stack, fr)
        /\ first_block' = first_block + DirBlocks(Root)
        /\ Place(Root, 1, "directory", first_block, DirBlocks(Root))
    BY DEF EnterRoot, EnterDirectory
  <1>2. /\ placed = {} /\ next_inode_id = 4 /\ first_block = superblock.first_data_block
        /\ first_block \in Nat /\ PlacedNames = {} /\ tree \in Trees
        /\ NumbersInv /\ BlocksInv
    BY <1>1 DEF StageInv, Walking, PlacedNames, NumbersInv, BlocksInv
  <1>3. Root \in Directories /\ Root \in Names(tree) /\ Root \notin Binaries /\ Root # "kernel.bin"
    BY <1>2, TreeShape, BinariesDiffer DEF Directories, Names, Binaries
  <1>4. SizeOf(Root) = DirBlocks(Root) /\ SizeOf(Root) \in Nat
    BY <1>2, <1>3, Sizes DEF SizeOf
  <1>5. Placing(Root, 1, first_block)
    BY <1>1, <1>2, <1>3, <1>4 DEF Placing, Place, RecordOf
  <1>6. PlacedNames' = {Root}
    BY <1>2, <1>5, OneMoreName
  <1>7. RecordsInv'
    BY <1>5, PlacingKeepsRecords
  <1>8. NumbersInv'
    BY <1>1, <1>2, <1>3, <1>5, PlacingKeepsNumbers DEF Binaries
  <1>9. Moves(Root, first_block)
    BY <1>1, <1>2, <1>3, <1>4 DEF Moves
  <1>10. BlocksInv'
    BY <1>2, <1>5, <1>9, PlacingKeepsBlocks
  <1>11. SpaceInv'
    <2>1. Pieces({}) = {} /\ Cardinality(Pieces({})) = 0
      BY FS_EmptySet DEF Pieces
    <2>2. {} \cup {Root} = {Root} /\ {} \in SUBSET Names(tree) /\ Root \in Names(tree) \ {}
      BY <1>3
    <2>3. Cardinality(Pieces({} \cup {Root})) = 0 + SizeOf(Root)
      BY <1>2, <2>1, <2>2, PiecesOfOneMore
    <2>4. Cardinality(Pieces({Root})) = SizeOf(Root)
      BY <1>4, <2>2, <2>3
    <2>5. PlacedNames' \ {"kernel.bin"} = {Root}
      BY <1>3, <1>6
    <2>6. Pieces(PlacedNames \ {"kernel.bin"})' = Pieces({Root})
      BY <1>1, <2>5 DEF Pieces, SizeOf, DirBlocks, Directories
    <2>7. first_block' = superblock'.first_data_block + 0 + Cardinality(Pieces({Root}))
      BY <1>1, <1>2, <1>4, <2>4
    <2>8. QED BY <2>6, <2>7 DEF SpaceInv, Reserved
  <1>12. EntriesOfTree' = EntriesOfTree /\ BlocksOfTree' = BlocksOfTree /\ Directories' = Directories
    BY <1>1 DEF EntriesOfTree, BlocksOfTree, FileBlocks, DirBlocks, Directories
  <1>13. stack' \in Seq(Frame) /\ DOMAIN stack' = {1} /\ stack'[1] = fr /\ stack' # <<>>
         /\ fr.dir = Root /\ fr.done = 0
    <2>1. fr \in Frame /\ fr.dir = Root /\ fr.done = 0
      BY <1>3 DEF Frame
    <2> HIDE DEF fr
    <2>2. stack' = <<fr>>
      BY <1>1
    <2>3. <<fr>> \in Seq(Frame) /\ DOMAIN <<fr>> = {1} /\ <<fr>>[1] = fr /\ <<fr>> # <<>>
      BY <2>1
    <2>4. QED
      BY <2>1, <2>2, <2>3
  <1>14. StageInv'
    <2>1. first_block' \in Nat /\ next_inode_id' \in Nat
      <3>1. next_inode_id' = 4
        BY <1>1, <1>2
      <3>2. DirBlocks(Root) \in Nat
        BY <1>4
      <3>3. first_block' = first_block + DirBlocks(Root)
        BY <1>1
      <3>4. QED
        BY <1>2, <3>1, <3>2, <3>3
    <2>2. UNCHANGED <<tree, num_files, file_blocks, superblock>>
      BY <1>1
    <2>3. stack' # <<>> /\ pc = "write_file_data" /\ pc' = "entries"
      BY <1>1, <1>13
    <2> HIDE DEF fr
    <2>4. QED
      BY <1>12, <2>1, <2>2, <2>3 DEF StageInv, Walking
  <1>15. StackInv'
    BY <1>6, <1>12, <1>13 DEF StackInv, Frame
  <1>16. \A d \in Directories : \A i \in DOMAIN tree.entries[d] : tree.entries[d][i] # Root /\ ~(i <= 0)
    BY <1>2, TreeShape DEF Directories
  <1>17. EntriesInv'
    BY <1>1, <1>3, <1>6, <1>12, <1>13, <1>16 DEF EntriesInv
  <1>18. QED BY <1>7, <1>8, <1>10, <1>11, <1>14, <1>15, <1>17 DEF GivenInv

(* The comparisons find the binaries, and if only they have their names    *)
(* nothing else.                                                           *)
LEMMA NamesAreFound ==
    ASSUME NEW n \in Names(tree) \ {Root}, tree \in Trees
    PROVE  /\ n = "prekernel.bin" => IsPrekernel(n) /\ ~IsKernel(n)
           /\ n = "kernel.bin" => IsKernel(n) /\ ~IsPrekernel(n)
           /\ OnlyBinaries(tree) /\ n \notin Binaries => ~IsPrekernel(n) /\ ~IsKernel(n)
  <1>1. tree.d_name["prekernel.bin"] = "prekernel.bin" /\ tree.d_name["kernel.bin"] = "kernel.bin"
    BY TreeShape DEF Binaries
  <1>2. QED
    BY <1>1, BinariesDiffer, NamesAssumption DEF IsPrekernel, IsKernel, OnlyBinaries, Binaries

LEMMA NumberIsNat ==
    ASSUME StageInv, CountNumber
    PROVE  Number(Current) \in Nat /\ next_inode_id' \in Nat
  <1>1. next_inode_id \in Nat
    BY DEF StageInv
  <1>2. QED BY <1>1 DEF Number, CountNumber

(* The number a name is given, for a file and a directory alike.           *)
LEMMA NumberOfNext ==
    ASSUME StageInv, OnlyBinaries(tree), CountNumber, Current \in Names(tree) \ {Root}
    PROVE  /\ Current = "prekernel.bin" => Number(Current) = 2
           /\ Current = "kernel.bin" => Number(Current) = 3
           /\ Current \in Binaries \cup {Root} => next_inode_id' = next_inode_id
           /\ Current \notin Binaries \cup {Root} =>
                Number(Current) = next_inode_id /\ next_inode_id' = next_inode_id + 1
  <1>1. tree \in Trees
    BY DEF StageInv
  <1>2. CASE Current = "prekernel.bin"
    BY <1>1, <1>2, NamesAreFound, BinariesDiffer DEF Number, CountNumber, Binaries
  <1>3. CASE Current = "kernel.bin"
    BY <1>1, <1>3, NamesAreFound, BinariesDiffer DEF Number, CountNumber, Binaries
  <1>4. CASE Current \notin Binaries
    BY <1>1, <1>4, NamesAreFound DEF Number, CountNumber, Binaries
  <1>5. QED BY <1>2, <1>3, <1>4 DEF Binaries

LEMMA AddFileKeeps == DiskInv /\ AddFile => DiskInv'
  <1> SUFFICES ASSUME DiskInv, AddFile PROVE DiskInv'
    OBVIOUS
  <1> USE DEF DiskInv
  <1> DEFINE n == Current
             s == Start(n)
  <1>1. /\ More /\ n \notin Directories /\ CountNumber
        /\ Place(n, Number(n), "file", s, tree.blocks[n]) /\ first_block' = Following(n)
        /\ stack' = Counted /\ tree' = tree /\ superblock' = superblock /\ pc' = pc
        /\ num_files' = num_files /\ file_blocks' = file_blocks /\ pc = "entries"
    BY DEF AddFile, More
  <1>2. n \in Names(tree) \ PlacedNames /\ n # Root /\ tree \in Trees /\ first_block \in Nat
    BY <1>1, NextEntry DEF StageInv
  <1>3. SizeOf(n) = tree.blocks[n] /\ SizeOf(n) \in Nat
    BY <1>1, <1>2, Sizes DEF SizeOf
  <1>4. Number(n) \in Nat /\ next_inode_id' \in Nat
    BY <1>1, NumberIsNat
  <1>5. /\ IsKernel(n) => s = KernelBlock /\ first_block' = first_block
        /\ ~IsKernel(n) => first_block' = s + SizeOf(n)
        /\ ~IsKernel(n) => s = IF first_block \in KernelBlock .. KernelBlock + Reserved - 1
                               THEN first_block + Reserved ELSE first_block
    BY <1>1, <1>3 DEF Start, Following
  <1>6. s \in Nat
    BY <1>2, <1>5 DEF KernelBlock, Reserved
  <1> HIDE DEF s
  <1>7. Placing(n, Number(n), s)
    BY <1>1, <1>2, <1>3, <1>4, <1>6 DEF Placing, Place, RecordOf
  <1>8. PlacedNames' = PlacedNames \cup {n}
    BY <1>7, OneMoreName
  <1>9. RecordsInv'
    BY <1>7, PlacingKeepsRecords
  <1>10. ASSUME OnlyBinaries(tree) PROVE GivenInv'
    <2>1. GivenInv /\ (IsKernel(n) <=> n = "kernel.bin")
      BY <1>2, <1>10, NamesAreFound DEF Binaries
    <2>2. Moves(n, s)
      BY <1>1, <1>2, <1>3, <1>5, <1>6, <2>1 DEF Moves, KernelBlock, Reserved
    <2>3. BlocksInv'
      BY <1>7, <2>1, <2>2, PlacingKeepsBlocks DEF GivenInv
    <2>4. /\ n = "prekernel.bin" => Number(n) = 2
          /\ n = "kernel.bin" => Number(n) = 3
          /\ n \in Binaries \cup {Root} => next_inode_id' = next_inode_id
          /\ n \notin Binaries \cup {Root} => Number(n) = next_inode_id /\ next_inode_id' = next_inode_id + 1
      BY <1>1, <1>2, <1>10, NumberOfNext
    <2>5. NumbersInv'
      BY <1>2, <1>7, <2>1, <2>4, PlacingKeepsNumbers DEF StageInv, GivenInv
    <2>6. s \in {first_block, first_block + Reserved} \/ n = "kernel.bin"
      BY <1>5, <2>1
    <2>7. SpaceInv'
      <3>1. CASE n = "kernel.bin"
        <4>1. PlacedNames' \ {"kernel.bin"} = PlacedNames \ {"kernel.bin"}
          BY <1>8, <3>1
        <4>2. Pieces(PlacedNames \ {"kernel.bin"})' = Pieces(PlacedNames \ {"kernel.bin"})
          BY <1>1, <4>1 DEF Pieces, SizeOf, DirBlocks, Directories
        <4>3. QED BY <1>1, <1>5, <2>1, <3>1, <4>2 DEF GivenInv, SpaceInv, Walking
      <3>2. CASE n # "kernel.bin"
        <4>1. s = first_block + Reserved => first_block \in KernelBlock .. KernelBlock + Reserved - 1
          BY <1>2, <1>5, <2>1, <3>2 DEF KernelBlock, Reserved
        <4>2. Walking
          BY <1>1 DEF Walking
        <4>3. QED BY <1>1, <1>7, <2>1, <2>2, <2>6, <4>1, <4>2, PlacingKeepsSpace DEF GivenInv
      <3>3. QED BY <3>1, <3>2
    <2>8. QED BY <2>3, <2>5, <2>7 DEF GivenInv
  <1>13. StackInv' /\ EntriesInv'
    BY <1>8, AddFileKeepsStack
  <1>14. EntriesOfTree' = EntriesOfTree /\ BlocksOfTree' = BlocksOfTree
    BY <1>1 DEF EntriesOfTree, BlocksOfTree, FileBlocks, DirBlocks, Directories
  <1>15. stack' # <<>>
    BY <1>1, TopOfStack, CountedFrames
  <1>16. first_block' \in Nat
    BY <1>2, <1>3, <1>5, <1>6
  <1>17. StageInv'
    BY <1>1, <1>4, <1>14, <1>15, <1>16 DEF StageInv, Walking
  <1>18. QED BY <1>1, <1>9, <1>10, <1>13, <1>17

LEMMA AddDirectoryKeeps == DiskInv /\ AddDirectory => DiskInv'
  <1> SUFFICES ASSUME DiskInv, AddDirectory PROVE DiskInv'
    OBVIOUS
  <1> USE DEF DiskInv
  <1> DEFINE n == Current
  <1>1. /\ More /\ n \in Directories /\ CountNumber
        /\ Place(n, Number(n), "directory", first_block, DirBlocks(n))
        /\ first_block' = first_block + DirBlocks(n)
        /\ tree' = tree /\ superblock' = superblock /\ pc' = pc
        /\ num_files' = num_files /\ file_blocks' = file_blocks /\ pc = "entries"
    BY DEF AddDirectory, More
  <1>2. n \in Names(tree) \ PlacedNames /\ n # Root /\ tree \in Trees /\ first_block \in Nat
    BY <1>1, NextEntry DEF StageInv
  <1>3. SizeOf(n) = DirBlocks(n) /\ SizeOf(n) \in Nat
    BY <1>1, <1>2, Sizes DEF SizeOf
  <1>4. Number(n) \in Nat /\ next_inode_id' \in Nat
    BY <1>1, NumberIsNat
  <1>5. n # "kernel.bin"
    BY <1>1, <1>2, BinariesDiffer DEF Binaries, Directories
  <1>6. Placing(n, Number(n), first_block)
    BY <1>1, <1>2, <1>3, <1>4 DEF Placing, Place, RecordOf
  <1>7. Moves(n, first_block)
    BY <1>1, <1>2, <1>3, <1>5 DEF Moves
  <1>8. PlacedNames' = PlacedNames \cup {n}
    BY <1>6, OneMoreName
  <1>9. RecordsInv'
    BY <1>6, PlacingKeepsRecords
  <1>10. ASSUME OnlyBinaries(tree) PROVE GivenInv'
    <2>1. GivenInv
      BY <1>10
    <2>2. BlocksInv'
      BY <1>6, <1>7, <2>1, PlacingKeepsBlocks DEF GivenInv
    <2>3. /\ n = "prekernel.bin" => Number(n) = 2
          /\ n = "kernel.bin" => Number(n) = 3
          /\ n \in Binaries \cup {Root} => next_inode_id' = next_inode_id
          /\ n \notin Binaries \cup {Root} => Number(n) = next_inode_id /\ next_inode_id' = next_inode_id + 1
      BY <1>1, <1>2, <1>10, NumberOfNext
    <2>4. NumbersInv'
      BY <1>2, <1>6, <2>1, <2>3, PlacingKeepsNumbers DEF StageInv, GivenInv
    <2>5. first_block # first_block + Reserved
      BY <1>2 DEF Reserved
    <2>6. Walking
      BY <1>1 DEF Walking
    <2>7. SpaceInv'
      BY <1>1, <1>6, <1>7, <2>1, <2>5, <2>6, PlacingKeepsSpace DEF GivenInv
    <2>8. QED BY <2>2, <2>4, <2>7 DEF GivenInv
  <1>12. StackInv' /\ EntriesInv' /\ stack' # <<>>
    BY <1>8, AddDirectoryKeepsStack
  <1>13. EntriesOfTree' = EntriesOfTree /\ BlocksOfTree' = BlocksOfTree
    BY <1>1 DEF EntriesOfTree, BlocksOfTree, FileBlocks, DirBlocks, Directories
  <1>14. first_block' \in Nat
    BY <1>1, <1>2, <1>3
  <1>15. StageInv'
    BY <1>1, <1>4, <1>12, <1>13, <1>14 DEF StageInv, Walking
  <1>16. QED BY <1>1, <1>9, <1>10, <1>12, <1>15

LEMMA LeaveDirectoryKeeps == DiskInv /\ LeaveDirectory => DiskInv'
  <1> SUFFICES ASSUME DiskInv, LeaveDirectory PROVE DiskInv'
    OBVIOUS
  <1> USE DEF DiskInv
  <1>1. /\ pc = "entries" /\ tree' = tree /\ superblock' = superblock /\ num_files' = num_files
        /\ file_blocks' = file_blocks /\ first_block' = first_block /\ next_inode_id' = next_inode_id
        /\ placed' = placed
    BY DEF LeaveDirectory
  <1>2. pc' \in {"entries", "formatted"}
    BY LeaveDirectoryKeepsStack
  <1>3. EntriesOfTree' = EntriesOfTree /\ BlocksOfTree' = BlocksOfTree /\ PlacedNames' = PlacedNames
        /\ Directories' = Directories
    BY <1>1 DEF EntriesOfTree, BlocksOfTree, FileBlocks, DirBlocks, Directories, PlacedNames
  <1>4. StackInv' /\ EntriesInv' /\ (pc' = "formatted" => stack' = <<>>) /\ (pc' = "entries" => stack' # <<>>)
    BY LeaveDirectoryKeepsStack
  <1>5. StageInv'
    BY <1>1, <1>2, <1>3, <1>4 DEF StageInv, Walking
  <1>6. RecordsInv' /\ (NumbersInv => NumbersInv') /\ (BlocksInv => BlocksInv')
    BY <1>1, <1>3 DEF RecordsInv, NumbersInv, BlocksInv
  <1>7. Pieces(PlacedNames \ {"kernel.bin"})' = Pieces(PlacedNames \ {"kernel.bin"})
    BY <1>1, <1>3 DEF Pieces, SizeOf, DirBlocks
  <1>8. SpaceInv => SpaceInv'
    BY <1>1, <1>7 DEF SpaceInv, Walking
  <1>9. QED BY <1>1, <1>4, <1>5, <1>6, <1>8 DEF GivenInv

LEMMA NextDiskInv == DiskInv /\ [Next]_vars => DiskInv'
  <1> SUFFICES ASSUME DiskInv, [Next]_vars PROVE DiskInv'
    OBVIOUS
  <1>1. CASE Next
    BY <1>1, GetFileInfoKeeps, WriteSuperblockKeeps, EnterRootKeeps, AddFileKeeps, AddDirectoryKeeps,
       LeaveDirectoryKeeps DEF Next
  <1>2. CASE UNCHANGED vars
    <2>1. EntriesOfTree' = EntriesOfTree /\ BlocksOfTree' = BlocksOfTree /\ PlacedNames' = PlacedNames
          /\ Directories' = Directories
          /\ Pieces(PlacedNames \ {"kernel.bin"})' = Pieces(PlacedNames \ {"kernel.bin"})
      BY <1>2 DEF vars, EntriesOfTree, BlocksOfTree, FileBlocks, DirBlocks, Directories, PlacedNames, Pieces, SizeOf
    <2>2. StageInv' /\ StackInv' /\ EntriesInv'
      BY <1>2, <2>1 DEF vars, DiskInv, StageInv, StackInv, EntriesInv, Walking
    <2>3. RecordsInv' /\ (GivenInv => GivenInv')
      BY <1>2, <2>1 DEF vars, DiskInv, RecordsInv, GivenInv, NumbersInv, BlocksInv, SpaceInv, Walking
    <2>4. QED BY <1>2, <2>2, <2>3 DEF DiskInv, vars
  <1>3. QED BY <1>1, <1>2

LEMMA DiskAlways == Spec => []DiskInv
  BY InitDiskInv, NextDiskInv, PTL DEF Spec

-----------------------------------------------------------------------------
(* The walk has placed the root and with every directory all its entries,  *)
(* and there is no more than that.                                         *)
LEMMA AllIsPlaced ==
    ASSUME DiskInv, pc = "formatted"
    PROVE  PlacedNames = Names(tree)
  <1> DEFINE S == PlacedNames \cap Directories
  <1>1. tree \in Trees /\ stack = <<>>
    BY DEF DiskInv, StageInv
  <1>2. DOMAIN stack = {}
    BY <1>1
  <1>3. PlacedNames \subseteq Names(tree) /\ Root \in PlacedNames
    BY DEF DiskInv, EntriesInv, Walking
  <1>4. \A d \in S : \A i \in DOMAIN tree.entries[d] : tree.entries[d][i] \in PlacedNames
    BY <1>2 DEF DiskInv, EntriesInv
  <1>5. S = Directories
    <2>1. S \in SUBSET DOMAIN tree.entries /\ Root \in S
      BY <1>1, <1>3, TreeShape DEF Directories
    <2>2. \A d \in S : \A i \in DOMAIN tree.entries[d] :
            tree.entries[d][i] \in DOMAIN tree.entries => tree.entries[d][i] \in S
      BY <1>4 DEF Directories
    <2>3. ReachedFromRoot(tree)
      BY <1>1, TreeShape
    <2> HIDE DEF S
    <2>4. QED BY <2>1, <2>2, <2>3 DEF ReachedFromRoot, Directories
  <1>6. ASSUME NEW n \in Names(tree) \ {Root} PROVE n \in PlacedNames
    BY <1>1, <1>4, <1>5, TreeShape DEF OneEntryEach, Directories
  <1>7. QED BY <1>3, <1>6

(* There are as many records as names, and as many as numbers.             *)
LEMMA RecordsAreNames ==
    ASSUME DiskInv, pc = "formatted"
    PROVE  /\ IsFiniteSet(placed) /\ Cardinality(placed) = num_files + 1
  <1> DEFINE f == [p \in placed |-> p.name]
  <1>1. PlacedNames = Names(tree) /\ tree \in Trees
    BY AllIsPlaced DEF DiskInv, StageInv
  <1>2. f \in [placed -> Names(tree)]
    BY <1>1 DEF PlacedNames
  <1>3. \A p, q \in placed : f[p] = f[q] => p = q
    BY DEF DiskInv, RecordsInv
  <1>4. \A n \in Names(tree) : \E p \in placed : f[p] = n
    BY <1>1 DEF PlacedNames
  <1> HIDE DEF f
  <1>5. f \in Injection(placed, Names(tree)) /\ f \in Surjection(placed, Names(tree))
    BY <1>2, <1>3, <1>4 DEF Injection, Surjection, IsInjective
  <1>6. IsFiniteSet(Names(tree))
    BY <1>1, TreeShape
  <1>7. IsFiniteSet(placed) /\ Cardinality(placed) = Cardinality(Names(tree))
    BY <1>5, <1>6, FS_Injection
  <1>8. num_files = Cardinality(EntriesOfTree)
    BY DEF DiskInv, StageInv
  <1>9. QED
    BY <1>1, <1>7, <1>8, EntriesAreNames

LEMMA NumbersAreCounted ==
    ASSUME DiskInv, GivenInv, pc = "formatted"
    PROVE  /\ {p.i_number : p \in placed} = 1 .. next_inode_id - 1
           /\ Cardinality(placed) = next_inode_id - 1
  <1> DEFINE f == [p \in placed |-> p.i_number]
             T == 1 .. next_inode_id - 1
  <1>1. PlacedNames = Names(tree) /\ tree \in Trees /\ next_inode_id \in Nat /\ next_inode_id >= 4
    BY AllIsPlaced DEF DiskInv, StageInv, GivenInv, NumbersInv
  <1>2. Root \in PlacedNames /\ "prekernel.bin" \in PlacedNames /\ "kernel.bin" \in PlacedNames
    BY <1>1, TreeShape, BinariesDiffer DEF Names
  <1>3. ASSUME NEW p \in placed PROVE p.i_number \in T
    BY <1>1 DEF GivenInv, NumbersInv, Binaries
  <1>4. ASSUME NEW x \in T PROVE \E p \in placed : p.i_number = x
    <2>1. CASE x = 1
      BY <1>2, <2>1 DEF GivenInv, NumbersInv, PlacedNames
    <2>2. CASE x = 2
      BY <1>2, <2>2 DEF GivenInv, NumbersInv, PlacedNames
    <2>3. CASE x = 3
      BY <1>2, <2>3 DEF GivenInv, NumbersInv, PlacedNames
    <2>4. CASE x >= 4
      BY <1>1, <2>4 DEF GivenInv, NumbersInv
    <2>5. QED BY <1>1, <2>1, <2>2, <2>3, <2>4
  <1>5. f \in Injection(placed, T) /\ f \in Surjection(placed, T)
    <2>1. f \in [placed -> T]
      BY <1>3
    <2>2. \A p, q \in placed : f[p] = f[q] => p = q
      BY DEF GivenInv, NumbersInv
    <2>3. \A x \in T : \E p \in placed : f[p] = x
      BY <1>4
    <2> HIDE DEF f, T
    <2>4. QED BY <2>1, <2>2, <2>3 DEF Injection, Surjection, IsInjective
  <1>6. IsFiniteSet(T) /\ Cardinality(T) = next_inode_id - 1
    <2>1. next_inode_id - 1 \in Nat
      BY <1>1
    <2>2. QED BY <2>1, OneTo
  <1>7. {p.i_number : p \in placed} = T
    BY <1>3, <1>4
  <1> HIDE DEF f, T
  <1>8. Cardinality(placed) = Cardinality(T)
    BY <1>5, <1>6, FS_Injection
  <1>9. QED
    BY <1>6, <1>7, <1>8 DEF T

(* For every tree in which only the binaries have their names the second   *)
(* walk gives out the numbers from 1 to the last that the superblock,      *)
(* computed from the first walk, does not offer to create_file, each once. *)
THEOREM WalksAgree == Spec => []NumbersAgree
  <1>1. ASSUME DiskInv PROVE NumbersAgree
    <2> SUFFICES ASSUME pc = "formatted", OnlyBinaries(tree)
                 PROVE  /\ {p.i_number : p \in placed} = 1 .. superblock.first_free_inode_bit - 1
                        /\ Cardinality(placed) = superblock.first_free_inode_bit - 1
      BY DEF NumbersAgree
    <2>1. superblock.first_free_inode_bit = num_files + 2 /\ num_files \in Nat /\ next_inode_id \in Nat
      BY <1>1 DEF DiskInv, StageInv
    <2>2. Cardinality(placed) = num_files + 1
      BY <1>1, RecordsAreNames
    <2>3. /\ {p.i_number : p \in placed} = 1 .. next_inode_id - 1
          /\ Cardinality(placed) = next_inode_id - 1
      BY <1>1, NumbersAreCounted DEF DiskInv
    <2>4. next_inode_id - 1 = superblock.first_free_inode_bit - 1
      BY <2>1, <2>2, <2>3
    <2>5. QED BY <2>3, <2>4
  <1>2. QED BY DiskAlways, <1>1, PTL

(* For every such tree two files share a block only where the kernel's     *)
(* blocks are not kept free: below them a file begins, or a directory is   *)
(* put.  What is recorded has its type for every tree.                     *)
THEOREM SharingOnlyInKernel == Spec => []BlocksApart
  <1>1. ASSUME DiskInv PROVE BlocksApart
    <2>1. TypeOK
      BY <1>1 DEF DiskInv, StageInv, StackInv, RecordsInv, TypeOK
    <2> SUFFICES ASSUME OnlyBinaries(tree)
                 PROVE  \A p, q \in placed :
                          p # q /\ p.blocks \cap q.blocks # {} =>
                              \E kernel \in {p, q} :
                                  /\ kernel.name = "kernel.bin"
                                  /\ \E o \in {p, q} \ {kernel} :
                                       o.kind = "directory" \/ \E b \in o.blocks : b < KernelBlock
      BY <2>1 DEF BlocksApart
    <2> GivenInv
      BY <1>1 DEF DiskInv
    <2>2. ASSUME NEW p \in placed, NEW q \in placed, p # q, p.blocks \cap q.blocks # {},
                 p.name = "kernel.bin"
          PROVE  q.kind = "directory" \/ \E b \in q.blocks : b < KernelBlock
      <3>1. q.name # "kernel.bin"
        BY <1>1, <2>2 DEF DiskInv, RecordsInv
      <3>2. /\ q.kind = "directory" \/ q.kind = "file"
            /\ q.kind = "file" => \/ \E b \in q.blocks : b < KernelBlock
                                  \/ \A b \in q.blocks : b >= KernelBlock + Reserved
        BY <1>1, <3>1 DEF DiskInv, RecordsInv, GivenInv, BlocksInv
      <3>3. p.blocks \subseteq KernelBlock .. KernelBlock + tree.blocks["kernel.bin"] - 1
        BY <1>1, <2>2 DEF GivenInv, BlocksInv
      <3>4. tree \in Trees
        BY <1>1 DEF DiskInv, StageInv
      <3>5. tree.blocks["kernel.bin"] \in 0 .. Pointers
        BY <3>4, TreeShape, BinariesDiffer
      <3>6. \A b \in p.blocks : b \in Nat /\ b < KernelBlock + Reserved
        BY <3>3, <3>5 DEF KernelBlock, Reserved, Pointers
      <3>7. PICK b \in p.blocks : b \in q.blocks
        BY <2>2
      <3>8. ~(b >= KernelBlock + Reserved)
        BY <3>6, <3>7 DEF KernelBlock, Reserved
      <3>9. QED BY <3>2, <3>7, <3>8
    <2>3. ASSUME NEW p \in placed, NEW q \in placed, p # q, p.blocks \cap q.blocks # {}
          PROVE  \E kernel \in {p, q} :
                   /\ kernel.name = "kernel.bin"
                   /\ \E o \in {p, q} \ {kernel} : o.kind = "directory" \/ \E b \in o.blocks : b < KernelBlock
      <3>1. p.name = "kernel.bin" \/ q.name = "kernel.bin"
        BY <1>1, <2>3 DEF GivenInv, BlocksInv
      <3>2. CASE p.name = "kernel.bin"
        BY <2>2, <2>3, <3>2
      <3>3. CASE q.name = "kernel.bin"
        BY <2>2, <2>3, <3>3
      <3>4. QED BY <3>1, <3>2, <3>3
    <2>4. QED BY <2>3
  <1>2. QED BY DiskAlways, <1>1, PTL

(* For every such tree, if the kernel's blocks reach the first the loader  *)
(* expects, the block create_file takes first is nobody's.                 *)
THEOREM NewBlockIsFree == Spec => []FirstNewBlockIsFree
  <1>1. ASSUME DiskInv PROVE FirstNewBlockIsFree
    <2> DEFINE fdb == superblock.first_data_block
               k == tree.blocks["kernel.bin"]
               N == PlacedNames \ {"kernel.bin"}
               now == Cardinality(Pieces(N))
    <2> SUFFICES ASSUME pc = "formatted", OnlyBinaries(tree), fdb + k >= KernelBlock, NEW p \in placed
                 PROVE  fdb + superblock.first_free_data_bit \notin p.blocks
      BY DEF FirstNewBlockIsFree
    <2> GivenInv
      BY <1>1 DEF DiskInv
    <2>1. /\ tree \in Trees /\ fdb \in Nat /\ fdb >= 4 /\ first_block \in Nat
          /\ superblock.first_free_data_bit = fdb + file_blocks
          /\ file_blocks = Cardinality(BlocksOfTree) /\ file_blocks \in Nat
      BY <1>1 DEF DiskInv, StageInv
    <2>2. PlacedNames = Names(tree)
      BY <1>1, AllIsPlaced
    <2>3. "kernel.bin" \in Names(tree) /\ "kernel.bin" \notin Directories /\ k \in 0 .. Pointers
      BY <2>1, TreeShape, BinariesDiffer DEF Names, Directories, Binaries
    <2>4. SizeOf("kernel.bin") = k
      BY <2>3 DEF SizeOf
    <2>5. N \in SUBSET Names(tree) /\ "kernel.bin" \in Names(tree) \ N /\ N \cup {"kernel.bin"} = Names(tree)
      BY <2>2, <2>3
    <2>6. now \in Nat
      BY <2>1, <2>5, PiecesAreFinite
    <2>7. Cardinality(Pieces(N \cup {"kernel.bin"})) = now + k
      BY <2>1, <2>4, <2>5, PiecesOfOneMore
    <2>8. file_blocks = now + k
      BY <2>1, <2>5, <2>7, BlocksArePieces
    <2>9. PICK skip \in {0, Reserved} : first_block = fdb + skip + now
      BY <1>1 DEF GivenInv, SpaceInv, Walking
    <2>10. now >= 1
      <3>1. Root \in Directories /\ Root # "kernel.bin" /\ Root \in Names(tree)
        <4>1. Root \in DOMAIN tree.entries
          BY <2>1, TreeShape
        <4>2. QED BY <2>3, <4>1 DEF Directories, Names
      <3>2. SizeOf(Root) \in Nat \ {0}
        BY <2>1, <3>1, Sizes DEF SizeOf
      <3>3. <<Root, 1>> \in Pieces(N)
        BY <2>2, <3>1, <3>2 DEF Pieces
      <3>4. Pieces(N) # {} /\ IsFiniteSet(Pieces(N))
        BY <2>1, <2>5, <3>3, PiecesAreFinite
      <3>5. now # 0
        BY <3>4, FS_EmptySet
      <3>6. QED BY <2>6, <3>5
    <2>11. p.blocks \subseteq Nat
      BY <1>1 DEF DiskInv, RecordsInv
    <2> HIDE DEF fdb, k, now
    <2>12. CASE p.name = "kernel.bin"
      <3>1. p.blocks \subseteq KernelBlock .. KernelBlock + k - 1
        BY <1>1, <2>12 DEF GivenInv, BlocksInv, k
      <3>2. fdb + (fdb + file_blocks) > KernelBlock + k - 1
        BY <2>1, <2>3, <2>6, <2>8, <2>10 DEF KernelBlock
      <3>3. QED
        BY <2>1, <2>3, <3>1, <3>2 DEF KernelBlock
    <2>13. CASE p.name # "kernel.bin"
      <3>1. \A b \in p.blocks : b < first_block
        BY <1>1, <2>13 DEF GivenInv, BlocksInv
      <3>2. fdb + (fdb + file_blocks) >= first_block
        BY <2>1, <2>3, <2>6, <2>8, <2>9 DEF KernelBlock, Reserved, Pointers
      <3>3. QED
        BY <2>1, <2>11, <3>1, <3>2
    <2>14. QED BY <2>12, <2>13
  <1>2. QED BY DiskAlways, <1>1, PTL
=============================================================================
