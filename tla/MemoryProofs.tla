---------------------------- MODULE MemoryProofs ----------------------------
(***************************************************************************)
(* Proofs about who has which memory: facts about the operators of         *)
(* PhysMem, then FirstFitScan for every width of word, bitmap and request, *)
(* Boot for every BIOS map and layout, FramePool for any pages and number  *)
(* of clients, and Heap for every size of the page, of a header and of     *)
(* what callers ask for.  What a theorem asks of the maps or of the        *)
(* machine's memory it names.                                              *)
(***************************************************************************)
EXTENDS FirstFitScan, Boot, FramePool, Heap,
        SequenceTheorems, FiniteSetTheorems, WellFoundedInduction, TLAPS

LEMMA BitmapSize == max_blocks \in Nat
  BY BlockSizeAssumption, AddressMaxAssumption, Z3 DEF max_blocks

LEMMA BitmapIsFinite ==
    /\ IsFiniteSet(Blocks) /\ Cardinality(Blocks) = max_blocks
    /\ \A m \in SUBSET Blocks : /\ IsFiniteSet(m)
                                /\ Cardinality(m) \in Nat /\ Cardinality(m) <= max_blocks
  <1>1. 0 \in Int /\ max_blocks - 1 \in Int /\ (0 > max_blocks - 1 => max_blocks = 0)
        /\ (max_blocks - 1) - 0 + 1 = max_blocks
    BY BitmapSize
  <1>2. IsFiniteSet(Blocks) /\ Cardinality(Blocks) = max_blocks
    BY <1>1, FS_Interval DEF Blocks
  <1>3. QED
    BY <1>2, FS_Subset, FS_CardinalityType

(* The search gives -1 or a run of blocks that are all free.               *)
LEMMA SearchFindsFree ==
    ASSUME NEW m \in SUBSET Blocks, NEW n \in Nat \ {0}, NEW r \in Blocks \cup {-1},
           find_free_blocks(m, n, r)
    PROVE  /\ Granted(r, n) \subseteq Blocks \ m
           /\ MapAfter(m, n, r) = m \cup Granted(r, n)
           /\ r # -1 => r \in Granted(r, n)
  <1>1. CASE r = -1
    BY <1>1 DEF Granted, MapAfter
  <1>2. CASE r # -1
    <2>1. FreeRun(m, r, n)
      BY <1>2 DEF find_free_blocks
    <2>2. Run(r, n) \subseteq Blocks \ m
      BY <2>1 DEF FreeRun
    <2>3. r \in Run(r, n)
      BY <1>2, BitmapSize DEF Run, Blocks
    <2>4. QED
      BY <1>2, <2>2, <2>3 DEF Granted, MapAfter, SetRun
  <1>3. QED
    BY <1>1, <1>2

(* The counter: what a call charges is what it adds to the bitmap.         *)
LEMMA GrantIsCharged ==
    ASSUME NEW m \in SUBSET Blocks, NEW n \in Nat \ {0}, NEW r \in Blocks \cup {-1},
           r # -1 => find_free_blocks(m, n, r)
    PROVE  /\ MapAfter(m, n, r) \in SUBSET Blocks
           /\ Cardinality(MapAfter(m, n, r)) = Cardinality(m) + Charged(n, r)
  <1>1. IsFiniteSet(m) /\ Cardinality(m) \in Nat
    BY BitmapIsFinite
  <1>2. CASE r = -1
    BY <1>1, <1>2 DEF MapAfter, Charged
  <1>3. CASE r # -1
    <2> DEFINE G == Granted(r, n)
    <2>1. G \subseteq Blocks \ m /\ MapAfter(m, n, r) = m \cup G
      BY <1>3, SearchFindsFree
    <2>2. r \in Int /\ r + n - 1 \in Int /\ ~(r > r + n - 1) /\ (r + n - 1) - r + 1 = n
      BY <1>3, BitmapSize DEF Blocks
    <2>3. IsFiniteSet(G) /\ Cardinality(G) = n
      BY <1>3, <2>2, FS_Interval DEF Granted, Run
    <2> HIDE DEF G
    <2>4. m \cap G = {} /\ Cardinality({}) = 0
      BY <2>1, FS_EmptySet
    <2>5. Cardinality(m \cup G) = Cardinality(m) + n
      BY <1>1, <2>3, <2>4, FS_Union
    <2>6. QED
      BY <1>3, <2>1, <2>5 DEF Charged
  <1>4. QED
    BY <1>2, <1>3

LEMMA RunSize ==
    ASSUME NEW b \in Int, NEW n \in Nat
    PROVE  IsFiniteSet(Run(b, n)) /\ Cardinality(Run(b, n)) = n
  <1>1. b + n - 1 \in Int /\ (b > b + n - 1 => n = 0) /\ (~(b > b + n - 1) => (b + n - 1) - b + 1 = n)
    OBVIOUS
  <1>2. QED
    BY <1>1, FS_Interval DEF Run

(* Two sets of blocks with nothing in common.                              *)
LEMMA UnionOfApart ==
    ASSUME NEW S, NEW T, IsFiniteSet(S), IsFiniteSet(T), S \cap T = {}
    PROVE  /\ IsFiniteSet(S \cup T)
           /\ Cardinality(S) \in Nat /\ Cardinality(T) \in Nat
           /\ Cardinality(S \cup T) = Cardinality(S) + Cardinality(T)
  <1>1. Cardinality(S \cap T) = 0
    BY FS_EmptySet
  <1>2. Cardinality(S) \in Nat /\ Cardinality(T) \in Nat
    BY FS_CardinalityType
  <1>3. /\ IsFiniteSet(S \cup T)
        /\ Cardinality(S \cup T) = Cardinality(S) + Cardinality(T) - Cardinality(S \cap T)
    BY FS_Union
  <1>4. QED
    BY <1>1, <1>2, <1>3

-----------------------------------------------------------------------------
(* FirstFitScan: the loop of find_free_blocks.                             *)

(* A word holds the bit it is looked up by, and ends after it.             *)
LEMMA WordBounds ==
    ASSUME NEW b \in Nat
    PROVE  /\ NextWord(b) \in Nat
           /\ b < NextWord(b)
           /\ NextWord(b) - WordBits <= b
  <1> DEFINE q == b \div WordBits
  <1>1. WordBits \in Nat /\ WordBits > 0
    BY WordBitsAssumption
  <1>2. q \in Nat /\ b = WordBits * q + (b % WordBits) /\ b % WordBits \in 0 .. WordBits - 1
    BY <1>1, Z3
  <1>3. WordBits * q \in Nat /\ (q + 1) * WordBits = WordBits * q + WordBits
    BY <1>1, <1>2
  <1> HIDE DEF q
  <1>4. QED
    BY <1>1, <1>2, <1>3 DEF NextWord, q

FirstFitInv == ScanTypeOK /\ ScanInv /\ ResultIsFirstFit

LEMMA InitFirstFitInv == ScanInit => FirstFitInv
  <1> SUFFICES ASSUME ScanInit PROVE FirstFitInv
    OBVIOUS
  <1>1. ScanTypeOK
    BY BitmapSize, BitmapIsFinite DEF ScanInit, ScanTypeOK, NoReturn
  <1>2. ScanInv /\ ResultIsFirstFit
    BY DEF ScanInit, ScanInv, ResultIsFirstFit
  <1>3. QED
    BY <1>1, <1>2 DEF FirstFitInv

(* A bit before the word's end and not before b is in the word of b.       *)
LEMMA FullWordIsUsed ==
    ASSUME NEW b \in Nat, WordFull(b),
           NEW x \in b .. NextWord(b) - 1, x \in Blocks
    PROVE  x \in memory_map
  <1>1. x \in WordOf(b)
    BY WordBounds, WordBitsAssumption DEF WordOf
  <1>2. QED
    BY <1>1 DEF WordFull

LEMMA NextFirstFitInv == FirstFitInv /\ [ScanNext]_scanVars => FirstFitInv'
  <1> SUFFICES ASSUME FirstFitInv, [ScanNext]_scanVars PROVE FirstFitInv'
    OBVIOUS
  <1> USE BitmapSize, BitmapIsFinite DEF FirstFitInv
  <1>1. CASE RefuseZero
    <2>1. ScanTypeOK'
      BY <1>1 DEF RefuseZero, Return, Unmodified, ScanTypeOK
    <2>2. ScanInv' /\ ResultIsFirstFit'
      BY <1>1 DEF RefuseZero, Return, Unmodified, ScanInv, ResultIsFirstFit, find_free_blocks
    <2>3. QED BY <2>1, <2>2
  <1>2. CASE EnterLoop
    <2>1. ScanTypeOK'
      BY <1>2 DEF EnterLoop, Unmodified, ScanTypeOK
    <2>2. ScanInv' /\ ResultIsFirstFit'
      BY <1>2 DEF EnterLoop, Unmodified, ScanTypeOK, ScanInv, ResultIsFirstFit, Blocks, FreeRun, Run
    <2>3. QED BY <2>1, <2>2
  <1>3. CASE SkipFullWord
    <2>1. NextWord(i) \in Nat /\ i < NextWord(i)
      BY WordBounds DEF ScanTypeOK
    <2>2. ScanTypeOK'
      BY <1>3, <2>1 DEF SkipFullWord, Unmodified, ScanTypeOK
    <2>3. ASSUME NEW x \in i .. NextWord(i) - 1, x \in Blocks PROVE x \in memory_map
      BY <1>3, <2>3, FullWordIsUsed DEF SkipFullWord, ScanTypeOK
    <2>4. NextWord(i) - 1 \in Blocks => NextWord(i) - 1 \in memory_map
      BY <2>1, <2>3 DEF ScanTypeOK
    <2>5. ASSUME NEW b \in Blocks, b + num_blocks <= NextWord(i),
                 FreeRun(memory_map, b, num_blocks)
          PROVE  FALSE
      <3>1. b + num_blocks > i
        BY <1>3, <2>5 DEF SkipFullWord, InLoop, ScanInv, ScanTypeOK, Blocks
      <3>2. num_blocks > 0 /\ b + num_blocks - 1 \in Run(b, num_blocks)
        BY <1>3 DEF SkipFullWord, InLoop, ScanInv, ScanTypeOK, Run, Blocks
      <3>3. b + num_blocks - 1 \in Blocks \ memory_map
        BY <2>5, <3>2 DEF FreeRun
      <3>4. b + num_blocks - 1 \in i .. NextWord(i) - 1
        BY <2>1, <2>5, <3>1 DEF ScanTypeOK, Blocks
      <3>5. QED BY <2>3, <3>3, <3>4
    <2>6. ScanInv'
      BY <1>3, <2>1, <2>4, <2>5 DEF SkipFullWord, InLoop, Unmodified, ScanInv, ScanTypeOK, Blocks
    <2>7. ResultIsFirstFit'
      BY <1>3 DEF SkipFullWord, InLoop, ResultIsFirstFit
    <2>8. QED BY <2>2, <2>6, <2>7
  <1>4. CASE CountFreeBit
    <2>1. i \in Blocks /\ i \notin memory_map /\ count < num_blocks /\ count <= i
      BY <1>4 DEF CountFreeBit, InLoop, ScanInv, ScanTypeOK, Blocks
    <2>2. ASSUME NEW x \in i - count .. i PROVE x \in Blocks \ memory_map
      BY <1>4, <2>1 DEF CountFreeBit, InLoop, ScanInv, ScanTypeOK, Blocks
    <2>3. CASE count + 1 = num_blocks
      <3>1. ret' = i - num_blocks + 1 /\ stage' = "done" /\ i' = i /\ count' = count + 1
        BY <1>4, <2>3 DEF CountFreeBit, Return
      <3>2. Unmodified
        BY <1>4 DEF CountFreeBit
      <3>3. ret' \in Blocks /\ ret' = i - count
        BY <2>1, <2>2, <2>3, <3>1 DEF ScanTypeOK, Blocks
      <3>4. FreeRun(memory_map, i - count, num_blocks)
        BY <2>2, <2>3 DEF FreeRun, Run, ScanTypeOK
      <3>5. ASSUME NEW b \in Blocks, FreeRun(memory_map, b, num_blocks) PROVE i - count <= b
        BY <1>4, <2>1, <2>3, <3>5 DEF CountFreeBit, InLoop, ScanInv, ScanTypeOK, Blocks
      <3>6. ResultIsFirstFit'
        BY <2>1, <3>1, <3>2, <3>3, <3>4, <3>5 DEF ResultIsFirstFit, find_free_blocks, Unmodified, ScanTypeOK
      <3>7. ScanTypeOK'
        BY <3>1, <3>2, <3>3 DEF ScanTypeOK, Unmodified, Blocks
      <3>8. ScanInv'
        BY <3>1 DEF ScanInv
      <3>9. QED BY <3>6, <3>7, <3>8
    <2>4. CASE count + 1 # num_blocks
      <3>1. ret' = ret /\ stage' = "scan" /\ stage = "scan" /\ i' = i + 1 /\ count' = count + 1
        BY <1>4, <2>4 DEF CountFreeBit, InLoop
      <3>2. Unmodified
        BY <1>4 DEF CountFreeBit
      <3>3. ScanTypeOK'
        BY <3>1, <3>2 DEF ScanTypeOK, Unmodified
      <3>4. \A x \in i' - count' .. i' - 1 : x \notin memory_map
        BY <2>2, <3>1 DEF ScanTypeOK
      <3>5. ASSUME NEW b \in Blocks, b + num_blocks <= i + 1, FreeRun(memory_map, b, num_blocks)
            PROVE  FALSE
        <4>1. b + num_blocks = i + 1
          BY <3>1, <3>5 DEF ScanInv, ScanTypeOK, Blocks
        <4>2. i - count - 1 \in Run(b, num_blocks)
          BY <2>1, <2>4, <4>1 DEF Run, ScanTypeOK, Blocks
        <4>3. QED
          BY <3>1, <3>5, <4>2 DEF FreeRun, ScanInv
      <3>6. ScanInv'
        BY <2>1, <2>4, <3>1, <3>2, <3>4, <3>5 DEF ScanInv, Unmodified, ScanTypeOK, Blocks
      <3>7. ResultIsFirstFit'
        BY <3>1 DEF ResultIsFirstFit
      <3>8. QED BY <3>3, <3>6, <3>7
    <2>5. QED BY <2>3, <2>4
  <1>5. CASE PassUsedBit
    <2>1. ScanTypeOK'
      BY <1>5 DEF PassUsedBit, InLoop, Unmodified, ScanTypeOK
    <2>2. ASSUME NEW b \in Blocks, b + num_blocks <= i + 1, FreeRun(memory_map, b, num_blocks)
          PROVE  FALSE
      <3>1. b + num_blocks = i + 1 /\ num_blocks > 0
        BY <1>5, <2>2 DEF PassUsedBit, InLoop, ScanInv, ScanTypeOK, Blocks
      <3>2. i \in Run(b, num_blocks)
        BY <3>1 DEF Run, ScanTypeOK, Blocks
      <3>3. QED
        BY <1>5, <2>2, <3>2 DEF PassUsedBit, FreeRun
    <2>3. ScanInv'
      BY <1>5, <2>2 DEF PassUsedBit, InLoop, Unmodified, ScanInv, ScanTypeOK, Blocks
    <2>4. ResultIsFirstFit'
      BY <1>5 DEF PassUsedBit, InLoop, ResultIsFirstFit
    <2>5. QED BY <2>1, <2>3, <2>4
  <1>6. CASE GiveUp
    <2>1. ScanTypeOK'
      BY <1>6 DEF GiveUp, Return, Unmodified, ScanTypeOK
    <2>2. ASSUME NEW b \in Blocks, FreeRun(memory_map, b, num_blocks) PROVE FALSE
      <3>1. num_blocks > 0 /\ b + num_blocks - 1 \in Run(b, num_blocks)
        BY <1>6 DEF GiveUp, ScanInv, ScanTypeOK, Run, Blocks
      <3>2. b + num_blocks <= i
        BY <1>6, <2>2, <3>1 DEF GiveUp, FreeRun, Blocks, ScanTypeOK
      <3>3. QED
        BY <1>6, <2>2, <3>2 DEF GiveUp, ScanInv
    <2>3. ScanInv' /\ ResultIsFirstFit'
      BY <1>6, <2>2 DEF GiveUp, Return, Unmodified, ScanInv, ResultIsFirstFit, find_free_blocks
    <2>4. QED BY <2>1, <2>3
  <1>7. CASE UNCHANGED scanVars
    BY <1>7 DEF scanVars, ScanTypeOK, ScanInv, ResultIsFirstFit, find_free_blocks, FreeRun, Run, Blocks, max_blocks
  <1>8. QED
    BY <1>1, <1>2, <1>3, <1>4, <1>5, <1>6, <1>7 DEF ScanNext

(* find_free_blocks always answers with the lowest free run, or with -1    *)
(* when the bitmap has none.                                               *)
THEOREM FirstFitCorrect == ScanSpec => []ResultIsFirstFit
  <1>1. FirstFitInv => ResultIsFirstFit
    BY DEF FirstFitInv
  <1>2. QED
    BY InitFirstFitInv, NextFirstFitInv, <1>1, PTL DEF ScanSpec

(* Every step of the loop is a step of the one-step search or changes      *)
(* nothing that the search's caller sees.                                  *)
THEOREM ScanImplementsFind == ScanSpec => ImplementsFindFree
  <1>1. ScanInit => Abstract!FindInit
    BY BitmapSize, BitmapIsFinite DEF ScanInit, Abstract!FindInit, Abstract!NoReturn, NoReturn, Abstract!Blocks, Abstract!max_blocks,
       Blocks, max_blocks
  <1>2. ASSUME FirstFitInv, FirstFitInv', [ScanNext]_scanVars
        PROVE  [Abstract!Find]_(Abstract!findVars)
    <2>1. CASE stage # "done" /\ stage' = "done"
      <3>1. UNCHANGED <<memory_map, used_blocks, num_blocks>>
        BY <1>2, <2>1 DEF ScanNext, RefuseZero, EnterLoop, SkipFullWord, CountFreeBit, PassUsedBit, GiveUp,
           Unmodified, InLoop, scanVars
      <3>2. find_free_blocks(memory_map, num_blocks, ret')
        BY <1>2, <2>1, <3>1 DEF FirstFitInv, ResultIsFirstFit, find_free_blocks, FreeRun
      <3>3. Abstract!find_free_blocks(memory_map, num_blocks, ret')
        BY <3>2 DEF find_free_blocks, FreeRun, Run, Blocks, max_blocks,
           Abstract!find_free_blocks, Abstract!FreeRun, Abstract!Run, Abstract!Blocks, Abstract!max_blocks
      <3>4. QED
        BY <2>1, <3>1, <3>3 DEF Abstract!Find
    <2>2. CASE ~(stage # "done" /\ stage' = "done")
      <3>1. UNCHANGED <<memory_map, used_blocks, num_blocks, ret, stage = "done">>
        BY <1>2, <2>2 DEF ScanNext, RefuseZero, EnterLoop, SkipFullWord, CountFreeBit, PassUsedBit, GiveUp,
           Unmodified, InLoop, Return, scanVars
      <3>2. QED
        BY <3>1 DEF Abstract!findVars
    <2>3. QED BY <2>1, <2>2
  <1>3. QED
    BY InitFirstFitInv, NextFirstFitInv, <1>1, <1>2, PTL DEF ScanSpec, ImplementsFindFree, Abstract!FindSpec

-----------------------------------------------------------------------------
(* Boot: what prekernel_main hands to the kernel.                          *)

LEMMA MapEntries ==
    ASSUME NEW s \in Smaps
    PROVE  /\ Len(s) \in Nat /\ DOMAIN s = 1 .. Len(s)
           /\ \A k \in DOMAIN s : s[k].base \in Nat /\ s[k].length \in Nat
  <1> DEFINE R == [base : Nat, length : Nat, type : Nat]
  <1>1. s \in Seq(R)
    BY SmapsAssumption
  <1> HIDE DEF R
  <1>2. Len(s) \in Nat /\ s \in [1 .. Len(s) -> R] /\ DOMAIN s = 1 .. Len(s)
    BY <1>1, LenProperties
  <1>3. \A r \in R : r.base \in Nat /\ r.length \in Nat
    BY DEF R
  <1>4. QED
    BY <1>2, <1>3

LEMMA Quotient ==
    ASSUME NEW n \in Nat
    PROVE  /\ n \div BLOCK_SIZE \in Nat
           /\ (n \div BLOCK_SIZE) * BLOCK_SIZE <= n
           /\ n % BLOCK_SIZE = 0 => (n \div BLOCK_SIZE) * BLOCK_SIZE = n
  <1>1. BLOCK_SIZE \in Int /\ BLOCK_SIZE > 0 /\ n \in Int
    BY BlockSizeAssumption
  <1>2. n \div BLOCK_SIZE \in Nat /\ n % BLOCK_SIZE \in 0 .. BLOCK_SIZE - 1
    BY <1>1
  <1>3. n = BLOCK_SIZE * (n \div BLOCK_SIZE) + (n % BLOCK_SIZE)
    BY <1>1
  <1>4. BLOCK_SIZE * (n \div BLOCK_SIZE) = (n \div BLOCK_SIZE) * BLOCK_SIZE
        /\ (n \div BLOCK_SIZE) * BLOCK_SIZE \in Nat
    BY <1>1, <1>2
  <1>5. QED
    BY <1>1, <1>2, <1>3, <1>4

LEMMA NoTruncation ==
    ASSUME NEW a \in Nat, a <= AddressMax
    PROVE  Truncate(a) = a
  BY AddressMaxAssumption DEF Truncate

(* One call of allocate_blocks by initialize_vmm.                          *)
LEMMA VmmGrant ==
    ASSUME memory_map \in SUBSET Blocks, VmmTable \/ VmmTable2 \/ VmmDirectory
    PROVE  /\ \E G \in SUBSET (Blocks \ memory_map) :
                 memory_map' = memory_map \cup G /\ taken' = taken \cup G
           /\ used_blocks \in Int /\ used_blocks = Cardinality(memory_map)
                 => used_blocks' = Cardinality(memory_map')
           /\ directory \in Nat => directory' \in Nat
           /\ pc \in {"table", "table2", "directory"} /\ pc' \in {"table2", "directory", "unmap"}
           /\ UNCHANGED <<smap, entry, saved>>
  <1>1. ASSUME NEW n \in Nat \ {0}, NEW from, NEW to, VmmAllocate(from, to, n)
        PROVE  /\ \E G \in SUBSET (Blocks \ memory_map) :
                     memory_map' = memory_map \cup G /\ taken' = taken \cup G
               /\ used_blocks = Cardinality(memory_map) => used_blocks' = Cardinality(memory_map')
               /\ directory \in Nat => directory' \in Nat
               /\ pc = from /\ pc' \in {"unmap", to}
               /\ UNCHANGED <<smap, entry, saved>>
    <2>1. PICK r \in Blocks \cup {-1} :
             /\ allocate_blocks(n, r)
             /\ taken' = taken \cup Granted(r, n)
             /\ pc' \in {"unmap", to}
             /\ directory' \in {directory, Returned(r)}
      BY <1>1 DEF VmmAllocate
    <2>2. /\ find_free_blocks(memory_map, n, r)
          /\ memory_map' = MapAfter(memory_map, n, r)
          /\ used_blocks' = used_blocks + Charged(n, r)
      BY <2>1 DEF allocate_blocks
    <2>3. Granted(r, n) \subseteq Blocks \ memory_map /\ MapAfter(memory_map, n, r) = memory_map \cup Granted(r, n)
      BY <2>2, SearchFindsFree
    <2>4. Cardinality(MapAfter(memory_map, n, r)) = Cardinality(memory_map) + Charged(n, r)
      BY <2>2, GrantIsCharged
    <2>5. Returned(r) \in Nat
      BY BitmapSize DEF Returned, Blocks
    <2>6. QED
      BY <1>1, <2>1, <2>2, <2>3, <2>4, <2>5 DEF VmmAllocate
  <1>2. CASE VmmTable
    BY <1>1, <1>2 DEF VmmTable
  <1>3. CASE VmmTable2
    BY <1>1, <1>3 DEF VmmTable2
  <1>4. CASE VmmDirectory
    BY <1>1, <1>4 DEF VmmDirectory
  <1>5. QED
    BY <1>2, <1>3, <1>4

-----------------------------------------------------------------------------
(* The reservations.                                                       *)
NothingGranted == pc \in {"pmm", "smap", "bitmap", "kernel_area"} => taken = {}

ReservedInv ==
    /\ memory_map \in SUBSET Blocks /\ taken \in SUBSET Blocks /\ pc \in Steps
    /\ NothingGranted
    /\ ReservedBlocksKept

LEMMA NextReservedInv == ReservedInv /\ [BootNext]_bootVars => ReservedInv'
  <1> SUFFICES ASSUME ReservedInv, [BootNext]_bootVars PROVE ReservedInv'
    OBVIOUS
  <1> USE DEF ReservedInv, NothingGranted, ReservedBlocksKept, Steps, GoTo
  <1>1. CASE InitializePmm
    BY <1>1 DEF InitializePmm, initialize_pmm
  <1>2. CASE InitializeRegion
    BY <1>2 DEF InitializeRegion, initialize_memory_region, SetRun, UnsetRun, PmmVars
  <1>3. CASE DeinitLow
    BY <1>3 DEF DeinitLow, deinit_memory_region, SetRun, LowBlocks, BlocksOf
  <1>4. CASE DeinitBitmap
    BY <1>4 DEF DeinitBitmap, deinit_memory_region, SetRun
  <1>5. CASE DeinitKernel
    BY <1>5 DEF DeinitKernel, deinit_memory_region, SetRun, KernelBlocks, BlocksOf
  <1>6. CASE VmmTable \/ VmmTable2 \/ VmmDirectory
    BY <1>6, VmmGrant
  <1>7. CASE UnmapLow \/ SaveCounters \/ KernelMain
    BY <1>7 DEF UnmapLow, SaveCounters, KernelMain
  <1>8. CASE UNCHANGED bootVars
    BY <1>8 DEF bootVars
  <1>9. QED
    BY <1>1, <1>2, <1>3, <1>4, <1>5, <1>6, <1>7, <1>8 DEF BootNext

(* No block of the low memory or of the kernel is free or handed out once  *)
(* it is reserved, whatever the map says.                                  *)
THEOREM ReservationsLast == BootSpec => []ReservedBlocksKept
  <1>1. BootInit => ReservedInv
    BY DEF BootInit, ReservedInv, NothingGranted, ReservedBlocksKept, Steps
  <1>2. ReservedInv => ReservedBlocksKept
    BY DEF ReservedInv
  <1>3. QED
    BY <1>1, <1>2, NextReservedInv, PTL DEF BootSpec
-----------------------------------------------------------------------------
(* What is free.                                                           *)
FreeInv ==
    /\ memory_map \in SUBSET Blocks /\ smap \in Smaps /\ entry \in Nat \ {0}
    /\ OnlyRamIsFree

LEMMA RegionIsRam ==
    ASSUME RegionsStartOnEdges, smap \in Smaps, NEW k \in Usable(smap),
           NEW b \in RegionBlocks(smap, k)
    PROVE  InRam(b)
  <1> DEFINE base == smap[k].base
             length == smap[k].length
             first == base \div BLOCK_SIZE
             n == length \div BLOCK_SIZE
  <1>1. k \in DOMAIN smap /\ smap[k].type = 1 /\ base \in Nat /\ length \in Nat
    BY MapEntries DEF Usable
  <1>2. base % BLOCK_SIZE = 0
    BY DEF RegionsStartOnEdges
  <1>3. first \in Nat /\ n \in Nat /\ first * BLOCK_SIZE = base /\ n * BLOCK_SIZE <= length
    BY <1>1, <1>2, Quotient
  <1>4. b \in first .. first + n - 1
    BY DEF RegionBlocks, BlocksOf, Run
  <1> HIDE DEF base, length, first, n
  <1>5. b \in Nat /\ first <= b /\ b + 1 <= first + n /\ BLOCK_SIZE \in Nat
    BY <1>3, <1>4, BlockSizeAssumption
  <1>6. first * BLOCK_SIZE <= b * BLOCK_SIZE /\ b * BLOCK_SIZE \in Nat
    BY <1>3, <1>5
  <1>7. (b + 1) * BLOCK_SIZE <= (first + n) * BLOCK_SIZE /\ (b + 1) * BLOCK_SIZE \in Nat
    BY <1>3, <1>5
  <1>8. (first + n) * BLOCK_SIZE = first * BLOCK_SIZE + n * BLOCK_SIZE /\ n * BLOCK_SIZE \in Nat
    BY <1>3, <1>5
  <1>9. base <= b * BLOCK_SIZE /\ (b + 1) * BLOCK_SIZE <= base + length
    BY <1>1, <1>3, <1>6, <1>7, <1>8
  <1>10. QED
    BY <1>1, <1>9 DEF InRam, base, length

(* What one turn of the loop frees, when its numbers are not cut.          *)
LEMMA TurnFrees ==
    ASSUME InitializeRegion, smap \in Smaps, entry \in Nat \ {0},
           entry \in Usable(smap) => smap[entry].base <= AddressMax /\ smap[entry].length <= AddressMax
    PROVE  LET G == IF entry \in Usable(smap) THEN RegionBlocks(smap, entry) ELSE {}
               n == IF entry \in Usable(smap) THEN smap[entry].length \div BLOCK_SIZE ELSE 0
           IN  /\ memory_map' = IF n = 0 THEN memory_map ELSE (memory_map \ G) \cup ({0} \cap Blocks)
               /\ used_blocks \in Int => used_blocks' = used_blocks - n
               /\ n \in Nat /\ IsFiniteSet(G) /\ Cardinality(G) = n /\ (n = 0 => G = {})
  <1>1. entry \in DOMAIN smap
    BY MapEntries DEF InitializeRegion
  <1>2. CASE entry \notin Usable(smap)
    <2>1. UNCHANGED <<memory_map, used_blocks>>
      BY <1>1, <1>2 DEF InitializeRegion, Usable, PmmVars
    <2>2. QED
      BY <1>2, <2>1, FS_EmptySet
  <1>3. CASE entry \in Usable(smap)
    <2> DEFINE base == smap[entry].base
               length == smap[entry].length
               first == base \div BLOCK_SIZE
               n == length \div BLOCK_SIZE
    <2>1. base \in Nat /\ length \in Nat
      BY <1>1, MapEntries
    <2>2. Truncate(base) = base /\ Truncate(length) = length
      BY <1>3, <2>1, NoTruncation
    <2>3. initialize_memory_region(base, length)
      BY <1>3, <2>2 DEF InitializeRegion, Usable
    <2>4. first \in Nat /\ n \in Nat
      BY <2>1, Quotient
    <2>5. RegionBlocks(smap, entry) = Run(first, n)
      BY DEF RegionBlocks, BlocksOf
    <2>6. IsFiniteSet(Run(first, n)) /\ Cardinality(Run(first, n)) = n
      BY <2>4, RunSize
    <2>7. n = 0 => Run(first, n) = {}
      BY <2>4 DEF Run
    <2>8. Run(0, 1) = {0}
      BY DEF Run
    <2>9. /\ memory_map' = IF n = 0 THEN memory_map ELSE (memory_map \ Run(first, n)) \cup ({0} \cap Blocks)
          /\ used_blocks \in Int => used_blocks' = used_blocks - n
      BY <2>3, <2>8 DEF initialize_memory_region, SetRun, UnsetRun
    <2>10. QED
      BY <1>3, <2>4, <2>5, <2>6, <2>7, <2>9
  <1>4. QED
    BY <1>2, <1>3

LEMMA NextFreeInv ==
    ASSUME RegionsStartOnEdges
    PROVE  FreeInv /\ [BootNext]_bootVars => FreeInv'
  <1> SUFFICES ASSUME FreeInv, [BootNext]_bootVars PROVE FreeInv'
    OBVIOUS
  <1>1. ASSUME memory_map' \in SUBSET Blocks, memory_map \subseteq memory_map', pc # "pmm",
               UNCHANGED smap, entry' \in Nat \ {0}
        PROVE  FreeInv'
    BY <1>1 DEF FreeInv, OnlyRamIsFree, InRam
  <1>2. CASE InitializePmm
    BY <1>2 DEF InitializePmm, initialize_pmm, FreeInv, OnlyRamIsFree
  <1>3. CASE InitializeRegion
    <2> DEFINE G == IF entry \in Usable(smap) THEN RegionBlocks(smap, entry) ELSE {}
    <2>1. pc = "smap" /\ pc' = "smap" /\ smap' = smap /\ entry' \in Nat \ {0}
      BY <1>3 DEF InitializeRegion, FreeInv
    <2>2. memory_map' = memory_map \/ memory_map' = (memory_map \ G) \cup ({0} \cap Blocks)
      BY <1>3, TurnFrees DEF FreeInv, RegionsStartOnEdges
    <2>3. \A b \in G : InRam(b)
      BY RegionIsRam DEF FreeInv
    <2>4. \A b \in Blocks \ memory_map' : InRam(b)
      BY <2>1, <2>2, <2>3 DEF FreeInv, OnlyRamIsFree
    <2>5. QED
      BY <2>1, <2>2, <2>4 DEF FreeInv, OnlyRamIsFree, InRam
  <1>4. CASE DeinitLow \/ DeinitBitmap \/ DeinitKernel
    BY <1>1, <1>4 DEF DeinitLow, DeinitBitmap, DeinitKernel, GoTo, deinit_memory_region, SetRun, FreeInv
  <1>5. CASE VmmTable \/ VmmTable2 \/ VmmDirectory
    BY <1>1, <1>5, VmmGrant DEF FreeInv
  <1>6. CASE UnmapLow \/ SaveCounters \/ KernelMain
    BY <1>1, <1>6 DEF UnmapLow, SaveCounters, KernelMain, GoTo, FreeInv
  <1>7. CASE UNCHANGED bootVars
    BY <1>7 DEF bootVars, FreeInv, OnlyRamIsFree, InRam
  <1>8. QED
    BY <1>2, <1>3, <1>4, <1>5, <1>6, <1>7 DEF BootNext

(* What is free is memory the BIOS called usable.                          *)
THEOREM FreeMemoryIsRam ==
    ASSUME RegionsStartOnEdges
    PROVE  BootSpec => []OnlyRamIsFree
  <1>1. BootInit => FreeInv
    BY DEF BootInit, FreeInv, OnlyRamIsFree
  <1>2. FreeInv => OnlyRamIsFree
    BY DEF FreeInv
  <1>3. QED
    BY <1>1, <1>2, NextFreeInv, PTL DEF BootSpec
-----------------------------------------------------------------------------
(* The counter.  While the map is read it lacks the blocks freed so far,   *)
(* block 0 among them although its bit is set again; when the low memory   *)
(* is reserved, block 0 is counted with it and the two agree.              *)
ProperMaps == RegionsApart /\ KernelInRam /\ NoBlockForBitmap

FreedBefore(n) == UNION {RegionBlocks(smap, k) : k \in {j \in Usable(smap) : j < n}}

CounterInv ==
    /\ memory_map \in SUBSET Blocks /\ used_blocks \in Int /\ pc \in Steps
    /\ smap \in Smaps /\ entry \in Nat \ {0}
    /\ directory \in Nat /\ saved \in Int
    /\ pc = "pmm" => used_blocks = 0 /\ entry = 1
    /\ pc = "smap" =>
         /\ memory_map = (Blocks \ FreedBefore(entry)) \cup {0}
         /\ used_blocks = max_blocks - Cardinality(FreedBefore(entry))
    /\ pc \in {"bitmap", "kernel_area"} => KernelBlocks \cap memory_map = {}
    /\ pc \notin {"pmm", "smap"} => used_blocks = Cardinality(memory_map)
    /\ pc = "jump" => saved = used_blocks

LEMMA FreedIsInBitmap ==
    ASSUME RegionsApart, smap \in Smaps, NEW n
    PROVE  /\ FreedBefore(n) \in SUBSET Blocks
           /\ IsFiniteSet(FreedBefore(n)) /\ Cardinality(FreedBefore(n)) \in 0 .. max_blocks
  <1>1. FreedBefore(n) \in SUBSET Blocks
    BY DEF FreedBefore, RegionsApart
  <1>2. QED
    BY <1>1, BitmapIsFinite, BitmapSize

LEMMA FreedByTurn ==
    ASSUME RegionsApart, smap \in Smaps, NEW n \in Nat
    PROVE  LET G == IF n \in Usable(smap) THEN RegionBlocks(smap, n) ELSE {}
           IN  /\ FreedBefore(n + 1) = FreedBefore(n) \cup G
               /\ FreedBefore(n) \cap G = {}
  <1>1. Usable(smap) \subseteq Nat
    BY MapEntries DEF Usable
  <1>2. {j \in Usable(smap) : j < n + 1}
            = {j \in Usable(smap) : j < n} \cup (IF n \in Usable(smap) THEN {n} ELSE {})
    BY <1>1
  <1>3. \A j \in Usable(smap) : j < n => n \notin Usable(smap) \/ RegionBlocks(smap, j) \cap RegionBlocks(smap, n) = {}
    BY <1>1 DEF RegionsApart
  <1>4. QED
    BY <1>2, <1>3 DEF FreedBefore

LEMMA ReservedArea ==
    ASSUME NEW size \in Nat, NEW base \in Nat,
           BlocksOf(base, size) \subseteq Blocks \ memory_map, memory_map \in SUBSET Blocks,
           used_blocks = Cardinality(memory_map), deinit_memory_region(base, size)
    PROVE  memory_map' = memory_map \cup BlocksOf(base, size) /\ used_blocks' = Cardinality(memory_map')
  <1> DEFINE n == size \div BLOCK_SIZE
             G == BlocksOf(base, size)
  <1>1. n \in Nat /\ base \div BLOCK_SIZE \in Int
    BY Quotient
  <1>2. IsFiniteSet(G) /\ Cardinality(G) = n
    BY <1>1, RunSize DEF BlocksOf
  <1>3. memory_map' = memory_map \cup G /\ used_blocks' = used_blocks + n
    BY DEF deinit_memory_region, SetRun, BlocksOf
  <1> HIDE DEF G
  <1>4. Cardinality(memory_map \cup G) = Cardinality(memory_map) + n
    <2>1. memory_map \cap G = {} /\ IsFiniteSet(memory_map)
      BY BitmapIsFinite DEF G
    <2>2. QED
      BY <1>2, <2>1, UnionOfApart
  <1>5. QED
    BY <1>3, <1>4 DEF G

LEMMA DeinitLowCounts ==
    ASSUME ProperMaps, CounterInv, DeinitLow
    PROVE  CounterInv'
  <1> DEFINE F == FreedBefore(entry)
             L == LowBlocks
             n == LowSize \div BLOCK_SIZE
  <1>1. pc = "smap" /\ entry > Len(smap) /\ pc' = "bitmap"
        /\ UNCHANGED <<smap, entry, directory, saved, taken>>
    BY DEF DeinitLow, GoTo
  <1>2. F \in SUBSET Blocks /\ IsFiniteSet(F)
    BY FreedIsInBitmap DEF ProperMaps, CounterInv
  <1>3. L \cup KernelBlocks \subseteq F
    <2>1. smap \in Smaps /\ entry \in Nat
      BY DEF CounterInv
    <2>2. {j \in Usable(smap) : j < entry} = Usable(smap)
      BY <1>1, <2>1, MapEntries DEF Usable
    <2>3. QED
      BY <2>1, <2>2 DEF ProperMaps, KernelInRam, FreedBefore
  <1>4. memory_map' = memory_map \cup (L \cap Blocks) /\ used_blocks' = used_blocks + n
    BY DEF DeinitLow, deinit_memory_region, SetRun, LowBlocks, BlocksOf
  <1>5. memory_map' = (Blocks \ F) \cup L
    BY <1>1, <1>2, <1>3, <1>4 DEF CounterInv, ProperMaps, KernelInRam
  <1>6. IsFiniteSet(L) /\ Cardinality(L) = n
    <2>1. n \in Nat /\ 0 \div BLOCK_SIZE \in Int
      BY Quotient, LayoutAssumption
    <2>2. QED
      BY <2>1, RunSize DEF LowBlocks, BlocksOf
  <1> HIDE DEF F, L, n
  <1>7. used_blocks' = Cardinality(memory_map')
    <2>1. (Blocks \ F) \cap L = {} /\ (Blocks \ F) \cap F = {} /\ (Blocks \ F) \cup F = Blocks
      BY <1>2, <1>3
    <2>2. IsFiniteSet(Blocks \ F)
      BY BitmapIsFinite
    <2>3. /\ Cardinality((Blocks \ F) \cup L) = Cardinality(Blocks \ F) + n
          /\ Cardinality(Blocks) = Cardinality(Blocks \ F) + Cardinality(F)
          /\ Cardinality(Blocks \ F) \in Nat /\ Cardinality(F) \in Nat /\ n \in Nat
      BY <1>2, <1>6, <2>1, <2>2, UnionOfApart
    <2>4. Cardinality(Blocks) = max_blocks
      BY BitmapIsFinite
    <2>5. used_blocks = max_blocks - Cardinality(F)
      BY <1>1 DEF CounterInv, F
    <2>6. used_blocks' = (max_blocks - Cardinality(F)) + n
      BY <1>4, <2>5
    <2>7. QED
      BY <1>5, <2>3, <2>4, <2>6, BitmapSize
  <1>8. KernelBlocks \cap memory_map' = {}
    BY <1>3, <1>5 DEF ProperMaps, KernelInRam, L
  <1>9. memory_map' \in SUBSET Blocks /\ used_blocks' \in Int
    <2>1. memory_map' \in SUBSET Blocks
      BY <1>2, <1>3, <1>5
    <2>2. QED
      BY <1>7, <2>1, BitmapIsFinite
  <1>10. QED
    BY <1>1, <1>7, <1>8, <1>9 DEF CounterInv, Steps

LEMMA NextCounterInv ==
    ASSUME ProperMaps
    PROVE  CounterInv /\ [BootNext]_bootVars => CounterInv'
  <1> SUFFICES ASSUME CounterInv, [BootNext]_bootVars PROVE CounterInv'
    OBVIOUS
  <1>1. CASE InitializePmm
    <2>1. pc = "pmm" /\ pc' = "smap" /\ memory_map' = Blocks /\ used_blocks' = max_blocks
          /\ UNCHANGED <<smap, entry, directory, saved>>
      BY <1>1, BitmapSize DEF InitializePmm, GoTo, initialize_pmm, CounterInv
    <2>2. entry = 1 /\ smap \in Smaps
      BY <2>1 DEF CounterInv
    <2>3. FreedBefore(entry)' = {}
      <3>1. Usable(smap) \subseteq Nat \ {0}
        BY <2>2, MapEntries DEF Usable
      <3>2. {j \in Usable(smap) : j < 1} = {}
        BY <3>1
      <3>3. QED
        BY <2>1, <2>2, <3>2 DEF FreedBefore
    <2>4. 0 \in Blocks
      BY <2>2 DEF ProperMaps, KernelInRam, RegionsApart
    <2>5. QED
      BY <2>1, <2>3, <2>4, BitmapSize, FS_EmptySet DEF CounterInv, Steps
  <1>2. CASE InitializeRegion
    <2> DEFINE G == IF entry \in Usable(smap) THEN RegionBlocks(smap, entry) ELSE {}
               n == IF entry \in Usable(smap) THEN smap[entry].length \div BLOCK_SIZE ELSE 0
               F == FreedBefore(entry)
    <2>1. /\ memory_map' = IF n = 0 THEN memory_map ELSE (memory_map \ G) \cup ({0} \cap Blocks)
          /\ used_blocks' = used_blocks - n
          /\ n \in Nat /\ IsFiniteSet(G) /\ Cardinality(G) = n /\ (n = 0 => G = {})
      BY <1>2, TurnFrees DEF CounterInv, ProperMaps, RegionsApart
    <2>2. pc = "smap" /\ pc' = "smap" /\ entry' = entry + 1 /\ UNCHANGED <<smap, directory, saved>>
      BY <1>2 DEF InitializeRegion
    <2>3. FreedBefore(entry + 1) = F \cup G /\ F \cap G = {}
      BY FreedByTurn DEF CounterInv, ProperMaps
    <2> HIDE DEF G, n
    <2>4. IsFiniteSet(F) /\ Cardinality(F) \in Nat /\ Cardinality(F \cup G) = Cardinality(F) + n
      BY <2>1, <2>3, FreedIsInBitmap, UnionOfApart DEF CounterInv, ProperMaps
    <2>5. memory_map = (Blocks \ F) \cup {0} /\ used_blocks = max_blocks - Cardinality(F)
      BY <2>2 DEF CounterInv
    <2>6. 0 \in Blocks
      BY <2>5 DEF CounterInv
    <2>7. memory_map' = (Blocks \ (F \cup G)) \cup {0}
      BY <2>1, <2>5, <2>6
    <2>8. used_blocks' = max_blocks - Cardinality(F \cup G) /\ used_blocks' \in Int
      BY <2>1, <2>4, <2>5, BitmapSize
    <2>9. F \cup G = FreedBefore(entry)'
      BY <2>2, <2>3 DEF FreedBefore
    <2>10. memory_map' \in SUBSET Blocks /\ entry' \in Nat \ {0}
      BY <2>2, <2>6, <2>7 DEF CounterInv
    <2> HIDE DEF F
    <2>11. QED
      BY <2>2, <2>7, <2>8, <2>9, <2>10 DEF CounterInv, Steps
  <1>3. CASE DeinitLow
    BY <1>3, DeinitLowCounts
  <1>4. CASE DeinitBitmap
    <2>1. (max_blocks \div BLOCK_SIZE) \div BLOCK_SIZE = 0
      BY BitmapSize, Quotient, BlockSizeAssumption DEF ProperMaps, NoBlockForBitmap
    <2>2. Run(MEMMAP_AREA \div BLOCK_SIZE, 0) = {}
      BY Quotient, LayoutAssumption DEF Run
    <2>3. UNCHANGED <<memory_map, used_blocks>>
      BY <1>4, <2>1, <2>2 DEF DeinitBitmap, deinit_memory_region, SetRun, CounterInv
    <2>4. QED
      BY <1>4, <2>3 DEF DeinitBitmap, GoTo, CounterInv, Steps
  <1>5. CASE DeinitKernel
    <2>1. pc = "kernel_area" /\ pc' = "table" /\ UNCHANGED <<smap, entry, directory, saved>>
          /\ deinit_memory_region(KernelBase, KernelSize)
      BY <1>5 DEF DeinitKernel, GoTo
    <2>2. KernelBlocks \subseteq Blocks \ memory_map
      BY <2>1 DEF CounterInv, ProperMaps, KernelInRam, RegionsApart
    <2>3. memory_map' = memory_map \cup KernelBlocks /\ used_blocks' = Cardinality(memory_map')
      BY <2>1, <2>2, ReservedArea, LayoutAssumption DEF CounterInv, KernelBlocks
    <2>4. memory_map' \in SUBSET Blocks
      BY <2>2, <2>3 DEF CounterInv
    <2>5. QED
      BY <2>1, <2>3, <2>4, BitmapIsFinite DEF CounterInv, Steps
  <1>6. CASE VmmTable \/ VmmTable2 \/ VmmDirectory
    <2>1. /\ \E G \in SUBSET (Blocks \ memory_map) : memory_map' = memory_map \cup G
          /\ used_blocks = Cardinality(memory_map) => used_blocks' = Cardinality(memory_map')
          /\ directory' \in Nat
          /\ pc \in {"table", "table2", "directory"} /\ pc' \in {"table2", "directory", "unmap"}
          /\ UNCHANGED <<smap, entry, saved>>
      BY <1>6, VmmGrant DEF CounterInv
    <2>2. memory_map' \in SUBSET Blocks
      BY <2>1 DEF CounterInv
    <2>3. used_blocks' = Cardinality(memory_map')
      BY <2>1 DEF CounterInv
    <2>4. QED
      BY <2>1, <2>2, <2>3, BitmapIsFinite DEF CounterInv, Steps
  <1>7. CASE UnmapLow \/ SaveCounters \/ KernelMain
    BY <1>7 DEF UnmapLow, SaveCounters, KernelMain, GoTo, CounterInv, Steps
  <1>8. CASE UNCHANGED bootVars
    BY <1>8 DEF bootVars, CounterInv, FreedBefore
  <1>9. QED
    BY <1>1, <1>2, <1>3, <1>4, <1>5, <1>6, <1>7, <1>8 DEF BootNext

(* The boot sequence keeps the types of its state.                         *)
THEOREM CountersFitBitmap ==
    ASSUME ProperMaps
    PROVE  BootSpec => []BootTypeOK
  <1>1. BootInit => CounterInv /\ ReservedInv
    BY BitmapSize DEF BootInit, CounterInv, ReservedInv, NothingGranted, ReservedBlocksKept, Steps, NotSaved
  <1>2. CounterInv /\ ReservedInv => BootTypeOK
    <2> SUFFICES ASSUME CounterInv, ReservedInv PROVE BootTypeOK
      OBVIOUS
    <2>1. used_blocks \in 0 .. max_blocks
      <3>1. CASE pc = "pmm"
        BY <3>1, BitmapSize DEF CounterInv
      <3>2. CASE pc = "smap"
        <4>1. Cardinality(FreedBefore(entry)) \in 0 .. max_blocks
          BY FreedIsInBitmap DEF CounterInv, ProperMaps
        <4>2. used_blocks = max_blocks - Cardinality(FreedBefore(entry))
          BY <3>2 DEF CounterInv
        <4>3. QED
          BY <4>1, <4>2, BitmapSize
      <3>3. CASE pc \notin {"pmm", "smap"}
        BY <3>3, BitmapIsFinite, BitmapSize DEF CounterInv
      <3>4. QED
        BY <3>1, <3>2, <3>3
    <2>2. PhysMemTypeOK
      BY DEF CounterInv, PhysMemTypeOK
    <2>3. QED
      BY <2>1, <2>2 DEF CounterInv, ReservedInv, BootTypeOK
  <1>3. QED
    BY <1>1, <1>2, NextCounterInv, NextReservedInv, PTL DEF BootSpec

(* The kernel's own copy of the physical memory manager starts as the      *)
(* specification of its frames asks, whatever the machine's map.           *)
THEOREM KernelStartsRight ==
    ASSUME ProperMaps
    PROVE  BootSpec => []HandoffStartsFramePool
  <1>1. BootInit => CounterInv /\ ReservedInv
    BY BitmapSize DEF BootInit, CounterInv, ReservedInv, NothingGranted, ReservedBlocksKept, Steps, NotSaved
  <1>2. CounterInv /\ ReservedInv => HandoffStartsFramePool
    <2> SUFFICES ASSUME CounterInv, ReservedInv, pc = "kernel" PROVE Pool!PoolInit
      BY DEF HandoffStartsFramePool
    <2>1. used_blocks = Cardinality(memory_map) /\ memory_map \in SUBSET Blocks
      BY DEF CounterInv
    <2>2. LowBlocks \cap Blocks \subseteq memory_map
      BY DEF ReservedInv, ReservedBlocksKept, Steps
    <2> DEFINE ramNow == Blocks \ memory_map
    <2>3. Pool!Blocks = Blocks /\ Pool!max_blocks = max_blocks
      BY DEF Pool!Blocks, Pool!max_blocks, Blocks, max_blocks
    <2>4. ramNow \subseteq {b \in Blocks : LowSize \div BLOCK_SIZE <= b /\ b < max_blocks}
      <3>1. LowSize \div BLOCK_SIZE \in Nat /\ max_blocks \in Nat
        BY Quotient, BitmapSize, LayoutAssumption
      <3>2. \A b \in Blocks : b \in Nat /\ b < max_blocks
        BY BitmapSize DEF Blocks
      <3>3. 0 \div BLOCK_SIZE = 0
        BY BlockSizeAssumption
      <3>4. \A b \in Blocks : b < LowSize \div BLOCK_SIZE => b \in LowBlocks
        BY <3>1, <3>2, <3>3 DEF LowBlocks, BlocksOf, Run
      <3>5. QED
        BY <2>2, <3>1, <3>2, <3>4
    <2>5. memory_map = Blocks \ ramNow
      BY <2>1
    <2>6. [v \in {0, 1, 2} |-> -1] = [v \in Pool!Pages |-> Pool!Unmapped]
      <3>1. Pool!Pages = {0, 1, 2}
        BY DEF Pool!Pages
      <3>2. QED
        BY <3>1 DEF Pool!Unmapped
    <2>7. ramNow \in SUBSET {b \in Pool!Blocks : LowSize \div BLOCK_SIZE <= b /\ b < max_blocks}
      BY <2>3, <2>4
    <2>8. /\ [d \in {0} |-> -1] = [d \in {0} |-> Pool!NoTable]
          /\ 0 \in {0} /\ \A v \in {0} : 0 <= v
          /\ 1 \in {1} /\ \A v \in {1} : 1 <= v
      BY DEF Pool!NoTable
    <2>9. memory_map = Pool!Blocks \ ramNow
      BY <2>3, <2>5
    <2>10. used_blocks = Pool!Cardinality(memory_map)
      BY <2>1, Zenon DEF Pool!Cardinality, Cardinality
    <2> HIDE DEF ramNow
    <2>11. QED
      BY <2>6, <2>7, <2>8, <2>9, <2>10, Zenon DEF Pool!PoolInit, ramNow
  <1>3. QED
    BY <1>1, <1>2, NextCounterInv, NextReservedInv, PTL DEF BootSpec

-----------------------------------------------------------------------------
(* FramePool: the frames while the kernel runs.                            *)

SmallRam == RamTop <= LowestFree * BLOCK_SIZE

LEMMA ProductIsMonotone ==
    ASSUME NEW a \in Nat, NEW b \in Nat, NEW k \in Nat \ {0}
    PROVE  /\ a * k \in Nat
           /\ a <= a * k
           /\ a <= b => a * k <= b * k
           /\ a * k = b * k => a = b
  OBVIOUS

-----------------------------------------------------------------------------
(* What the bitmap says of the blocks that have been handed out.  A block  *)
(* outside ram is free or handed out only because the frame whose address  *)
(* is its number was released.                                             *)
Ledger ==
    /\ granted \subseteq memory_map
    /\ released \subseteq granted
    /\ \A b \in granted : LowestFree <= b
    /\ \A b \in ram : LowestFree <= b /\ b < RamTop
    /\ \A b \in granted \cup (Blocks \ memory_map) :
            b \in ram \/ \E f \in released : b = f * BLOCK_SIZE

(* The pages of files hold blocks that were handed out to them alone.      *)
FileFrames ==
    /\ \A v \in FilePages : pte[v] \notin {Unmapped, 0} => pte[v] \in granted \ released
    /\ \A v, w \in FilePages : v # w /\ pte[v] = pte[w] => pte[v] \in {Unmapped, 0}

(* So do all pages and tables as long as no allocation has failed.         *)
AllFrames ==
    ~ranDry =>
        /\ \A v \in Pages : pte[v] # Unmapped => pte[v] \in granted \ released
        /\ \A d \in Dirs : table[d] # NoTable => table[d] \in granted \ released

PoolInv == PoolTypeOK /\ Ledger /\ FileFrames /\ AllFrames /\ NoSharing

LEMMA GrantKeepsLedger ==
    ASSUME PoolTypeOK, Ledger, NEW G \in SUBSET (Blocks \ memory_map),
           memory_map' = memory_map \cup G, granted' = granted \cup G,
           UNCHANGED <<released, ram>>
    PROVE  Ledger' /\ \A b \in G : b \in Blocks /\ b # 0 /\ b \notin granted
  <1>1. ASSUME NEW b \in G
        PROVE  /\ LowestFree <= b /\ b \notin granted /\ b \in Blocks
               /\ b \in ram \/ \E f \in released : b = f * BLOCK_SIZE
    <2>1. b \notin granted /\ b \in Blocks
      BY <1>1 DEF Ledger
    <2>2. b \in ram \/ \E f \in released : b = f * BLOCK_SIZE
      BY <1>1 DEF Ledger
    <2>3. CASE b \in ram
      BY <2>1, <2>2, <2>3 DEF Ledger
    <2>4. ASSUME NEW f \in released, b = f * BLOCK_SIZE PROVE LowestFree <= b
      <3>1. f \in Nat /\ LowestFree <= f
        BY BitmapSize DEF Ledger, PoolTypeOK, Blocks
      <3>2. f <= f * BLOCK_SIZE /\ f * BLOCK_SIZE \in Nat
        BY <3>1, ProductIsMonotone, BlockSizeAssumption
      <3>3. QED
        BY <2>4, <3>1, <3>2, LowestFreeAssumption
    <2>5. QED
      BY <2>1, <2>2, <2>3, <2>4
  <1>2. Ledger'
    BY <1>1 DEF Ledger, PoolTypeOK, Blocks, max_blocks
  <1>3. QED
    BY <1>1, <1>2, LowestFreeAssumption, BitmapSize DEF Blocks

LEMMA ReleaseKeepsLedger ==
    ASSUME SmallRam, PoolTypeOK, Ledger, NEW p \in granted \ released,
           memory_map' = UnsetRun(memory_map, p * BLOCK_SIZE, 1),
           released' = released \cup {p},
           UNCHANGED <<granted, ram>>
    PROVE  Ledger'
  <1> DEFINE q == p * BLOCK_SIZE
  <1>1. p \in Nat /\ q \in Nat /\ LowestFree * BLOCK_SIZE <= q
    BY BitmapSize, ProductIsMonotone, BlockSizeAssumption, LowestFreeAssumption DEF PoolTypeOK, Ledger, Blocks
  <1>2. q \notin ram
    BY <1>1, RamTopAssumption, LowestFreeAssumption, BlockSizeAssumption, ProductIsMonotone, BitmapSize
       DEF SmallRam, Ledger, PoolTypeOK, Blocks
  <1>3. ASSUME NEW f \in released PROVE q # f * BLOCK_SIZE
    BY <1>1, <1>3, BitmapSize, ProductIsMonotone, BlockSizeAssumption DEF PoolTypeOK, Blocks
  <1>4. q \notin granted
    BY <1>2, <1>3 DEF Ledger
  <1>5. memory_map' = memory_map \ {q}
    BY <1>1 DEF UnsetRun, Run
  <1>6. QED
    BY <1>4, <1>5 DEF Ledger, Blocks, max_blocks

LEMMA InitPoolInv == PoolInit => PoolInv
  <1> SUFFICES ASSUME PoolInit PROVE PoolInv
    OBVIOUS
  <1> USE BitmapSize
  <1>1. PoolTypeOK
    <2>1. memory_map \in SUBSET Blocks /\ used_blocks \in Int
      BY BitmapIsFinite DEF PoolInit
    <2>2. QED
      BY <2>1, PagesAssumption DEF PoolInit, PoolTypeOK
  <1>2. Ledger
    BY DEF PoolInit, Ledger, Blocks
  <1>3. FileFrames /\ AllFrames /\ NoSharing
    BY DEF PoolInit, FileFrames, AllFrames, NoSharing, Mapped, Tables, Pages
  <1>4. QED
    BY <1>1, <1>2, <1>3 DEF PoolInv

-----------------------------------------------------------------------------
(* The steps that map a page, by what they do to the ledger and to the two *)
(* kinds of entry.                                                         *)
LEMMA MapNewPageKeeps ==
    ASSUME PoolInv, NEW v \in Pages, MapNewPage(v),
           UNCHANGED <<ram, released>>, file_page' \in Nat, heap_page' \in Nat
    PROVE  PoolInv'
  <1> USE BitmapSize DEF PoolInv
  <1> DEFINE needsTable == ~HasTable(DirOf(v))
  <1> PICK r \in Blocks \cup {-1}, t \in Blocks \cup {-1} :
        /\ find_free_blocks(memory_map, 1, r)
        /\ find_free_blocks(MapAfter(memory_map, 1, r), IF needsTable THEN 1 ELSE 0, t)
        /\ memory_map' = MapAfter(MapAfter(memory_map, 1, r), 1, t)
        /\ used_blocks' = used_blocks + Charged(1, r) + Charged(1, t)
        /\ granted' = granted \cup Granted(r, 1) \cup Granted(t, 1)
        /\ ranDry' = (ranDry \/ r = -1 \/ (needsTable /\ t = -1))
        /\ table' = IF needsTable THEN [table EXCEPT ![DirOf(v)] = t] ELSE table
        /\ pte' = IF needsTable /\ t = -1 THEN pte ELSE [pte EXCEPT ![v] = Returned(r)]
    BY DEF MapNewPage
  <1> DEFINE G == Granted(r, 1)
             H == Granted(t, 1)
  <1>1. /\ G \subseteq Blocks \ memory_map
        /\ MapAfter(memory_map, 1, r) = memory_map \cup G
        /\ r # -1 => r \in G
    BY SearchFindsFree DEF PoolTypeOK
  <1>2. /\ H \subseteq Blocks \ (memory_map \cup G)
        /\ memory_map' = memory_map \cup G \cup H
        /\ t # -1 => t \in H
        /\ ~needsTable => t = -1
    <2>1. CASE needsTable
      <3> DEFINE m == memory_map \cup G
      <3>1. m \in SUBSET Blocks
        BY <1>1 DEF PoolTypeOK
      <3>2. find_free_blocks(m, 1, t)
        BY <1>1, <2>1
      <3> HIDE DEF m
      <3>3. H \subseteq Blocks \ m /\ MapAfter(m, 1, t) = m \cup H /\ (t # -1 => t \in H)
        BY ONLY <3>1, <3>2, t \in Blocks \cup {-1}, SearchFindsFree
      <3> USE DEF m
      <3>4. QED
        BY <1>1, <2>1, <3>3
    <2>2. CASE ~needsTable
      <3>1. t = -1
        BY <2>2 DEF find_free_blocks
      <3>2. QED
        BY <1>1, <2>2, <3>1 DEF Granted, MapAfter
    <2>3. QED
      BY <2>1, <2>2
  <1>3. PoolTypeOK'
    <2>1. used_blocks' \in Int
      BY DEF PoolTypeOK, Charged
    <2>2. pte' \in [Pages -> Nat \cup {Unmapped}] /\ table' \in [Dirs -> Blocks \cup {NoTable}]
      BY PagesAssumption DEF PoolTypeOK, Returned, Blocks, NoTable
    <2>3. QED
      BY <1>1, <1>2, <2>1, <2>2 DEF PoolTypeOK, Blocks, max_blocks
  <1>4. Ledger' /\ \A b \in G \cup H : b \in Blocks /\ b # 0 /\ b \notin granted
    BY <1>1, <1>2, GrantKeepsLedger
  <1>5. r # -1 => Returned(r) \in G /\ Returned(r) \notin granted /\ Returned(r) # 0
    BY <1>1, <1>4 DEF Returned
  <1>6. r = -1 => Returned(r) = 0
    BY DEF Returned
  <1>7. t # -1 => t \notin granted /\ t \in H /\ t \notin G /\ t # 0
    BY <1>2, <1>4
  <1>8. released \subseteq granted /\ G \subseteq granted' /\ H \subseteq granted' /\ granted \subseteq granted'
        /\ released' = released
    BY DEF Ledger
  <1>9. DirOf(v) \in Dirs /\ FilePages \subseteq Pages
    BY PagesAssumption DEF Pages
  <1>10. \A w \in Pages : pte'[w] = IF w = v /\ ~(needsTable /\ t = -1) THEN Returned(r) ELSE pte[w]
    BY DEF PoolTypeOK
  <1>11. \A d \in Dirs : table'[d] = IF d = DirOf(v) /\ needsTable THEN t ELSE table[d]
    BY DEF PoolTypeOK
  <1> HIDE DEF needsTable, G, H
  <1>12. FileFrames'
    <2>1. ASSUME NEW w \in FilePages, pte'[w] \notin {Unmapped, 0} PROVE pte'[w] \in granted' \ released'
      BY <1>5, <1>6, <1>8, <1>9, <1>10, <2>1 DEF FileFrames
    <2>2. ASSUME NEW w \in FilePages, NEW u \in FilePages, w # u, pte'[w] = pte'[u]
          PROVE  pte'[w] \in {Unmapped, 0}
      <3>1. w \in Pages /\ u \in Pages
        BY <1>9
      <3>2. ASSUME NEW q \in FilePages PROVE pte[q] \in granted \/ pte[q] \in {Unmapped, 0}
        BY DEF FileFrames
      <3>3. CASE pte'[w] = pte[w] /\ pte'[u] = pte[u]
        BY <2>2, <3>3 DEF FileFrames
      <3>4. CASE w = v /\ pte'[w] = Returned(r) /\ pte'[u] = pte[u]
        BY <1>5, <1>6, <2>2, <3>2, <3>4
      <3>5. CASE u = v /\ pte'[u] = Returned(r) /\ pte'[w] = pte[w]
        BY <1>5, <1>6, <2>2, <3>2, <3>5
      <3>6. QED
        BY <1>10, <2>2, <3>1, <3>3, <3>4, <3>5
    <2>3. QED
      BY <2>1, <2>2 DEF FileFrames
  <1>13. AllFrames'
    <2> SUFFICES ASSUME ~ranDry'
                 PROVE  /\ \A w \in Pages : pte'[w] # Unmapped => pte'[w] \in granted' \ released'
                        /\ \A d \in Dirs : table'[d] # NoTable => table'[d] \in granted' \ released'
      BY DEF AllFrames
    <2>1. ~ranDry /\ r # -1 /\ (needsTable => t # -1)
      OBVIOUS
    <2>2. ASSUME NEW w \in Pages, pte'[w] # Unmapped PROVE pte'[w] \in granted' \ released'
      BY <1>5, <1>8, <1>10, <2>1, <2>2 DEF AllFrames
    <2>3. ASSUME NEW d \in Dirs, table'[d] # NoTable PROVE table'[d] \in granted' \ released'
      BY <1>7, <1>8, <1>11, <2>1, <2>3 DEF AllFrames
    <2>4. QED
      BY <2>2, <2>3
  <1>14. NoSharing'
    <2> SUFFICES ASSUME ~ranDry'
                 PROVE  /\ \A x, w \in Pages : x # w /\ pte'[x] = pte'[w] => pte'[x] = Unmapped
                        /\ \A d, e \in Dirs : d # e /\ table'[d] = table'[e] => table'[d] = NoTable
                        /\ \A x \in Pages, d \in Dirs :
                                pte'[x] = table'[d] => pte'[x] = Unmapped \/ table'[d] = NoTable
      BY DEF NoSharing, Mapped, Tables
    <2>1. ~ranDry /\ r # -1 /\ (needsTable => t # -1)
      OBVIOUS
    <2>2. /\ \A x \in Pages : pte[x] # Unmapped => pte[x] \in granted
          /\ \A d \in Dirs : table[d] # NoTable => table[d] \in granted
      BY <2>1 DEF AllFrames
    <2>3. \A x \in Pages, d \in Dirs : pte[x] = table[d] => pte[x] = Unmapped \/ table[d] = NoTable
      BY <2>1 DEF NoSharing, Mapped, Tables
    <2>4. \A x, w \in Pages : x # w /\ pte'[x] = pte'[w] => pte'[x] = Unmapped
      BY <1>5, <1>10, <2>1, <2>2 DEF NoSharing, Unmapped
    <2>5. \A d, e \in Dirs : d # e /\ table'[d] = table'[e] => table'[d] = NoTable
      BY <1>7, <1>11, <2>1, <2>2 DEF NoSharing
    <2>6. ASSUME NEW x \in Pages, NEW d \in Dirs, pte'[x] = table'[d],
                 pte'[x] # Unmapped, table'[d] # NoTable
          PROVE  FALSE
      <3>1. pte'[x] \in G \/ (pte'[x] \in granted /\ pte'[x] = pte[x])
        BY <1>5, <1>10, <2>1, <2>2, <2>6
      <3>2. (table'[d] \in H /\ table'[d] \notin G) \/ (table'[d] \in granted /\ table'[d] = table[d])
        BY <1>7, <1>11, <2>1, <2>2, <2>6
      <3>3. QED
        BY <1>4, <2>3, <2>6, <3>1, <3>2
    <2>7. QED
      BY <2>4, <2>5, <2>6
  <1>15. QED
    BY <1>3, <1>4, <1>12, <1>13, <1>14

LEMMA TableFaultKeeps ==
    ASSUME PoolInv, TableFault
    PROVE  PoolInv'
  <1> USE BitmapSize DEF PoolInv
  <1> PICK r \in Blocks \cup {-1} :
        /\ allocate_blocks(1, r)
        /\ granted' = granted \cup Granted(r, 1)
        /\ ranDry' = (ranDry \/ r = -1)
    BY DEF TableFault
  <1> DEFINE G == Granted(r, 1)
  <1>1. /\ G \subseteq Blocks \ memory_map
        /\ memory_map' = memory_map \cup G
    BY SearchFindsFree DEF allocate_blocks, PoolTypeOK
  <1>2. UNCHANGED <<pte, table, file_page, heap_page, ram, released>>
    BY DEF TableFault
  <1>3. used_blocks' \in Int
    BY DEF PoolTypeOK, Charged, allocate_blocks
  <1>4. Ledger'
    BY <1>1, <1>2, GrantKeepsLedger
  <1>5. PoolTypeOK'
    <2>1. memory_map' \subseteq Blocks /\ granted' \subseteq Blocks
      BY <1>1 DEF PoolTypeOK
    <2>2. ranDry' \in BOOLEAN
      BY DEF PoolTypeOK
    <2> HIDE DEF G
    <2>3. Blocks' = Blocks
      BY <1>2 DEF Blocks, max_blocks
    <2>4. QED
      BY <1>2, <1>3, <2>1, <2>2, <2>3 DEF PoolTypeOK
  <1>6. FileFrames' /\ AllFrames' /\ NoSharing'
    <2>1. ranDry' = FALSE => ranDry = FALSE
      BY DEF PoolTypeOK
    <2>2. granted \subseteq granted'
      OBVIOUS
    <2>3. Mapped' = Mapped /\ Tables' = Tables
      BY <1>2 DEF Mapped, Tables
    <2> HIDE DEF G
    <2>4. FileFrames'
      BY <1>2, <2>1, <2>2 DEF FileFrames, PoolTypeOK
    <2>5. AllFrames'
      BY <1>2, <2>1, <2>2, <2>3 DEF AllFrames, PoolTypeOK
    <2>6. NoSharing'
      BY <1>2, <2>1, <2>3 DEF NoSharing, PoolTypeOK
    <2>7. QED
      BY <2>4, <2>5, <2>6
  <1>7. QED
    BY <1>4, <1>5, <1>6

LEMMA GrowHeapKeeps ==
    ASSUME PoolInv, NEW n \in 1 .. MaxGrowth, GrowHeap(n)
    PROVE  PoolInv'
  <1> USE BitmapSize DEF PoolInv
  <1>1. n \in Nat \ {0}
    BY PagesAssumption
  <1> PICK r \in Blocks \cup {-1} :
        /\ allocate_blocks(n, r)
        /\ granted' = granted \cup Granted(r, n)
        /\ ranDry' = (ranDry \/ r = -1)
        /\ pte' = [v \in Pages |-> IF v \in Run(heap_page, n)
                                    THEN Returned(r) + (v - heap_page) ELSE pte[v]]
    BY DEF GrowHeap
  <1> DEFINE G == Granted(r, n)
             grown == Run(heap_page, n)
  <1>2. /\ G \subseteq Blocks \ memory_map
        /\ memory_map' = memory_map \cup G
    BY <1>1, SearchFindsFree DEF allocate_blocks, PoolTypeOK
  <1>3. UNCHANGED <<table, ram, released>> /\ grown \subseteq HeapPages
    BY DEF GrowHeap
  <1>4. \A v \in grown : v \in Pages /\ v \in HeapPages /\ v \notin FilePages /\ v - heap_page \in 0 .. n - 1
    BY <1>1, <1>3, PagesAssumption DEF Pages, Run, PoolTypeOK
  <1>5. PoolTypeOK'
    <2>1. used_blocks' \in Int /\ heap_page' \in Nat /\ file_page' \in Nat
      BY <1>1 DEF PoolTypeOK, Charged, allocate_blocks, GrowHeap
    <2>2. Returned(r) \in Nat
      BY DEF Returned, Blocks
    <2>3. pte' \in [Pages -> Nat \cup {Unmapped}]
      BY <1>1, <1>4, <2>2 DEF PoolTypeOK
    <2>4. QED
      BY <1>2, <1>3, <2>1, <2>3 DEF PoolTypeOK, Blocks, max_blocks
  <1>6. Ledger' /\ \A b \in G : b \in Blocks /\ b # 0 /\ b \notin granted
    BY <1>2, <1>3, GrantKeepsLedger
  <1>7. released \subseteq granted /\ granted \subseteq granted'
    BY DEF Ledger
  <1>8. r # -1 => \A v \in grown : pte'[v] \in G /\ pte'[v] = r + (v - heap_page)
    BY <1>1, <1>4 DEF Returned, Granted, Run, Blocks
  <1>9. \A v \in Pages \ grown : pte'[v] = pte[v]
    OBVIOUS
  <1> HIDE DEF G, grown
  <1>10. FileFrames'
    BY <1>3, <1>4, <1>7, <1>9 DEF FileFrames, Pages
  <1>11. AllFrames'
    BY <1>3, <1>6, <1>7, <1>8, <1>9 DEF AllFrames, G
  <1>12. NoSharing'
    <2> SUFFICES ASSUME ~ranDry'
                 PROVE  /\ \A x, w \in Pages : x # w /\ pte'[x] = pte'[w] => pte'[x] = Unmapped
                        /\ \A d, e \in Dirs : d # e /\ table'[d] = table'[e] => table'[d] = NoTable
                        /\ \A x \in Pages, d \in Dirs :
                                pte'[x] = table'[d] => pte'[x] = Unmapped \/ table'[d] = NoTable
      BY DEF NoSharing, Mapped, Tables
    <2>1. ~ranDry /\ r # -1
      OBVIOUS
    <2>2. /\ \A x \in Pages : pte[x] # Unmapped => pte[x] \in granted
          /\ \A d \in Dirs : table[d] # NoTable => table[d] \in granted
      BY <2>1 DEF AllFrames
    <2>3. \A x \in Pages, d \in Dirs : pte[x] = table[d] => pte[x] = Unmapped \/ table[d] = NoTable
      BY <2>1 DEF NoSharing, Mapped, Tables
    <2>4. ASSUME NEW x \in Pages, NEW w \in Pages, x # w, pte'[x] = pte'[w], pte'[x] # Unmapped
          PROVE  FALSE
      <3>1. CASE x \in grown /\ w \in grown
        <4>1. r + (x - heap_page) = r + (w - heap_page)
          BY <1>8, <2>1, <2>4, <3>1
        <4>2. x \in HeapPages /\ w \in HeapPages
          BY <1>4, <3>1
        <4>3. x \in Nat /\ w \in Nat
          BY <4>2, PagesAssumption
        <4>4. r \in Nat
          BY <2>1 DEF Blocks
        <4>5. heap_page \in Nat
          BY DEF PoolTypeOK
        <4>6. QED
          BY <2>4, <4>1, <4>3, <4>4, <4>5
      <3>2. CASE x \in grown /\ w \notin grown
        BY <1>6, <1>8, <1>9, <2>1, <2>2, <2>4, <3>2
      <3>3. CASE x \notin grown /\ w \in grown
        BY <1>6, <1>8, <1>9, <2>1, <2>2, <2>4, <3>3
      <3>4. CASE x \notin grown /\ w \notin grown
        BY <1>9, <2>1, <2>4, <3>4 DEF NoSharing
      <3>5. QED
        BY <3>1, <3>2, <3>3, <3>4
    <2>5. \A d, e \in Dirs : d # e /\ table'[d] = table'[e] => table'[d] = NoTable
      BY <1>3, <2>1 DEF NoSharing
    <2>6. \A x \in Pages, d \in Dirs : pte'[x] = table'[d] => pte'[x] = Unmapped \/ table'[d] = NoTable
      BY <1>3, <1>6, <1>8, <1>9, <2>1, <2>2, <2>3
    <2>7. QED
      BY <2>4, <2>5, <2>6
  <1>13. QED
    BY <1>5, <1>6, <1>10, <1>11, <1>12

LEMMA ClosePageKeeps ==
    ASSUME SmallRam, PoolInv, NEW v \in FilePages, ClosePage(v)
    PROVE  PoolInv'
  <1> USE BitmapSize DEF PoolInv
  <1>1. /\ pte' = [pte EXCEPT ![v] = Unmapped]
        /\ UNCHANGED <<table, file_page, heap_page, ram, granted, ranDry>>
        /\ v \in Pages
    BY DEF ClosePage, Pages
  <1>2. CASE pte[v] \in {Unmapped, 0}
    <2>1. UNCHANGED <<memory_map, used_blocks, released>>
      BY <1>2 DEF ClosePage, free_page
    <2>2. PoolTypeOK'
      BY <1>1, <2>1 DEF PoolTypeOK, Blocks, max_blocks
    <2>3. Ledger'
      BY <1>1, <2>1 DEF Ledger, Blocks, max_blocks
    <2>4. FileFrames' /\ AllFrames' /\ NoSharing'
      BY <1>1, <2>1 DEF PoolTypeOK, FileFrames, AllFrames, NoSharing, Mapped, Tables, Pages
    <2>5. QED
      BY <2>2, <2>3, <2>4
  <1>3. CASE pte[v] \notin {Unmapped, 0}
    <2>1. /\ free_blocks(pte[v] * BLOCK_SIZE, 1)
          /\ released' = released \cup {pte[v]}
      BY <1>3 DEF ClosePage, free_page
    <2>2. pte[v] \in granted \ released
      BY <1>3 DEF FileFrames
    <2>3. PoolTypeOK'
      <3>1. memory_map' \in SUBSET Blocks
        BY <2>1 DEF PoolTypeOK, free_blocks, UnsetRun
      <3>2. used_blocks' \in Int
        BY <2>1 DEF PoolTypeOK, free_blocks
      <3>3. released' \in SUBSET Blocks
        BY <2>1, <2>2 DEF PoolTypeOK
      <3>4. pte' \in [Pages -> Nat \cup {Unmapped}]
        BY <1>1 DEF PoolTypeOK
      <3>5. QED
        BY <1>1, <3>1, <3>2, <3>3, <3>4 DEF PoolTypeOK
    <2>4. Ledger'
      BY <1>1, <2>1, <2>2, ReleaseKeepsLedger DEF free_blocks
    <2>5. FileFrames'
      BY <1>1, <1>3, <2>1 DEF PoolTypeOK, FileFrames, Pages
    <2>6. AllFrames'
      <3>1. ASSUME ~ranDry, NEW w \in Pages, w # v, pte[w] # Unmapped PROVE pte[w] # pte[v]
        BY <1>1, <3>1 DEF NoSharing
      <3>2. ASSUME ~ranDry, NEW d \in Dirs, table[d] # NoTable PROVE table[d] # pte[v]
        BY <1>1, <1>3, <3>2 DEF NoSharing, Mapped, Tables
      <3>3. QED
        BY <1>1, <2>1, <3>1, <3>2 DEF PoolTypeOK, AllFrames
    <2>7. NoSharing'
      BY <1>1 DEF PoolTypeOK, NoSharing, Mapped, Tables
    <2>8. QED
      BY <2>3, <2>4, <2>5, <2>6, <2>7
  <1>4. QED
    BY <1>2, <1>3

LEMMA NextPoolInv ==
    ASSUME SmallRam
    PROVE  PoolInv /\ [PoolNext]_poolVars => PoolInv'
  <1> SUFFICES ASSUME PoolInv, [PoolNext]_poolVars PROVE PoolInv'
    OBVIOUS
  <1>1. file_page \in Nat /\ heap_page \in Nat
    BY DEF PoolInv, PoolTypeOK
  <1>2. CASE MapFilePage
    BY <1>1, <1>2, MapNewPageKeeps DEF MapFilePage, Pages
  <1>3. ASSUME NEW v \in StackPages, MapStackPage(v) PROVE PoolInv'
    BY <1>1, <1>3, MapNewPageKeeps DEF MapStackPage, Pages
  <1>4. ASSUME NEW v \in Pages, PageFault(v) PROVE PoolInv'
    BY <1>1, <1>4, MapNewPageKeeps DEF PageFault
  <1>5. ASSUME NEW n \in 1 .. MaxGrowth, GrowHeap(n) PROVE PoolInv'
    BY <1>5, GrowHeapKeeps
  <1>6. ASSUME NEW v \in FilePages, ClosePage(v) PROVE PoolInv'
    BY <1>6, ClosePageKeeps
  <1>7. CASE TableFault
    BY <1>7, TableFaultKeeps
  <1>8. CASE UNCHANGED poolVars
    BY <1>8 DEF poolVars, PoolInv, PoolTypeOK, Ledger, FileFrames, AllFrames, NoSharing, Mapped, Tables, Blocks, max_blocks
  <1>9. QED
    BY <1>2, <1>3, <1>4, <1>5, <1>6, <1>7, <1>8 DEF PoolNext

(* No two uses of memory share a frame until an allocation fails, whatever *)
(* the order of opens, closes, faults, programs and heap growth.           *)
THEOREM FramesAreNotShared ==
    ASSUME SmallRam
    PROVE  PoolSpec => []NoSharing
  <1>1. PoolInv => NoSharing
    BY DEF PoolInv
  <1>2. QED
    BY InitPoolInv, NextPoolInv, <1>1, PTL DEF PoolSpec

(* A block that was handed out is never free again.                        *)
THEOREM GrantsAreForEver ==
    ASSUME SmallRam
    PROVE  PoolSpec => []GrantedStaysTaken
  <1>1. PoolInv => GrantedStaysTaken
    BY DEF PoolInv, Ledger, GrantedStaysTaken
  <1>2. QED
    BY InitPoolInv, NextPoolInv, <1>1, PTL DEF PoolSpec

-----------------------------------------------------------------------------
LEMMA ReleaseKeepsDrift ==
    ASSUME PoolInv, CounterDrift, NEW p \in granted \ released,
           free_blocks(p * BLOCK_SIZE, 1), released' = released \cup {p}
    PROVE  CounterDrift'
  <1> DEFINE q == p * BLOCK_SIZE
  <1>1. /\ memory_map \in SUBSET Blocks /\ released \in SUBSET Blocks /\ granted \in SUBSET Blocks
        /\ used_blocks \in Int
    BY DEF PoolInv, PoolTypeOK
  <1>2. q \in Nat
    BY <1>1, BitmapSize, ProductIsMonotone, BlockSizeAssumption DEF Blocks
  <1>3. memory_map' = memory_map \ {q} /\ used_blocks' = used_blocks - 1
    BY <1>2 DEF free_blocks, UnsetRun, Run
  <1> HIDE DEF q
  <1>4. IsFiniteSet(memory_map) /\ Cardinality(memory_map) \in Nat
        /\ IsFiniteSet(released) /\ Cardinality(released) \in Nat
    BY <1>1, BitmapIsFinite
  <1>5. Cardinality(memory_map') \in {Cardinality(memory_map), Cardinality(memory_map) - 1}
    BY <1>3, <1>4, FS_RemoveElement
  <1>6. Cardinality(released') = Cardinality(released) + 1
    BY <1>4, FS_AddElement
  <1>7. QED
    BY <1>1, <1>3, <1>4, <1>5, <1>6 DEF CounterDrift

LEMMA NextCounterDrift == PoolInv /\ CounterDrift /\ [PoolNext]_poolVars => CounterDrift'
  <1> SUFFICES ASSUME PoolInv, CounterDrift, [PoolNext]_poolVars PROVE CounterDrift'
    OBVIOUS
  <1>1. memory_map \in SUBSET Blocks /\ used_blocks \in Int
    BY DEF PoolInv, PoolTypeOK
  <1>2. Cardinality(memory_map) \in Nat /\ Cardinality(released) \in Nat
    BY BitmapIsFinite DEF PoolInv, PoolTypeOK
  <1>3. ASSUME NEW c \in Int, used_blocks' = used_blocks + c, released' = released,
               Cardinality(memory_map') = Cardinality(memory_map) + c
        PROVE  CounterDrift'
    BY <1>1, <1>2, <1>3 DEF CounterDrift
  <1>4. \A n \in Nat, r \in Blocks \cup {-1} : Charged(n, r) \in Int
    BY DEF Charged
  <1>5. ASSUME NEW v \in Pages, MapNewPage(v), released' = released PROVE CounterDrift'
    <2> DEFINE needsTable == ~HasTable(DirOf(v))
    <2>1. PICK r \in Blocks \cup {-1}, t \in Blocks \cup {-1} :
             /\ find_free_blocks(memory_map, 1, r)
             /\ find_free_blocks(MapAfter(memory_map, 1, r), IF needsTable THEN 1 ELSE 0, t)
             /\ memory_map' = MapAfter(MapAfter(memory_map, 1, r), 1, t)
             /\ used_blocks' = used_blocks + Charged(1, r) + Charged(1, t)
      BY <1>5 DEF MapNewPage
    <2> DEFINE m == MapAfter(memory_map, 1, r)
    <2>2. m \in SUBSET Blocks /\ Cardinality(m) = Cardinality(memory_map) + Charged(1, r)
      BY <1>1, <2>1, GrantIsCharged
    <2>3. t # -1 => find_free_blocks(m, 1, t)
      <3>1. CASE needsTable
        BY <2>1, <3>1
      <3>2. CASE ~needsTable
        BY <2>1, <3>2 DEF find_free_blocks
      <3>3. QED
        BY <3>1, <3>2
    <2> HIDE DEF m
    <2>4. Cardinality(MapAfter(m, 1, t)) = Cardinality(m) + Charged(1, t)
      BY <2>2, <2>3, GrantIsCharged
    <2>5. memory_map' = MapAfter(m, 1, t)
      BY <2>1 DEF m
    <2>6. Charged(1, r) \in Int /\ Charged(1, t) \in Int
      BY <1>4
    <2>7. /\ used_blocks' = used_blocks + (Charged(1, r) + Charged(1, t))
          /\ Cardinality(memory_map') = Cardinality(memory_map) + (Charged(1, r) + Charged(1, t))
      BY <1>1, <1>2, <2>1, <2>2, <2>4, <2>5, <2>6
    <2>8. QED
      BY <1>3, <1>5, <2>6, <2>7
  <1>6. ASSUME NEW n \in Nat \ {0}, NEW r \in Blocks \cup {-1}, allocate_blocks(n, r), released' = released
        PROVE  CounterDrift'
    BY <1>1, <1>3, <1>4, <1>6, GrantIsCharged DEF allocate_blocks
  <1>7. CASE MapFilePage
    BY <1>5, <1>7 DEF MapFilePage, Pages
  <1>8. ASSUME NEW v \in StackPages, MapStackPage(v) PROVE CounterDrift'
    BY <1>5, <1>8 DEF MapStackPage, Pages
  <1>9. ASSUME NEW v \in Pages, PageFault(v) PROVE CounterDrift'
    BY <1>5, <1>9 DEF PageFault
  <1>10. ASSUME NEW n \in 1 .. MaxGrowth, GrowHeap(n) PROVE CounterDrift'
    <2>1. n \in Nat \ {0}
      BY PagesAssumption
    <2>2. QED
      BY <1>6, <1>10, <2>1 DEF GrowHeap
  <1>11. CASE TableFault
    BY <1>6, <1>11 DEF TableFault
  <1>12. ASSUME NEW v \in FilePages, ClosePage(v) PROVE CounterDrift'
    <2>1. CASE pte[v] \in {Unmapped, 0}
      BY <1>12, <2>1 DEF ClosePage, free_page, CounterDrift
    <2>2. CASE pte[v] \notin {Unmapped, 0}
      <3>1. pte[v] \in granted \ released
        BY <2>2 DEF PoolInv, FileFrames
      <3>2. free_blocks(pte[v] * BLOCK_SIZE, 1) /\ released' = released \cup {pte[v]}
        BY <1>12, <2>2 DEF ClosePage, free_page
      <3>3. QED
        BY <3>1, <3>2, ReleaseKeepsDrift
    <2>3. QED
      BY <2>1, <2>2
  <1>13. CASE UNCHANGED poolVars
    BY <1>13 DEF poolVars, CounterDrift
  <1>14. QED
    BY <1>7, <1>8, <1>9, <1>10, <1>11, <1>12, <1>13 DEF PoolNext

(* The counter falls behind the bitmap by at most the released frames.     *)
THEOREM CounterFollowsBitmap ==
    ASSUME SmallRam
    PROVE  PoolSpec => []CounterDrift
  <1>1. PoolInit => CounterDrift
    <2>1. PoolInit => Cardinality(memory_map) \in Nat /\ Cardinality({}) = 0
      BY BitmapIsFinite, FS_EmptySet DEF PoolInit
    <2>2. QED
      BY <2>1 DEF PoolInit, CounterDrift
  <1>2. PoolInit => PoolInv /\ CounterDrift
    BY InitPoolInv, <1>1
  <1>3. PoolInv /\ CounterDrift /\ [PoolNext]_poolVars => (PoolInv /\ CounterDrift)'
    BY NextPoolInv, NextCounterDrift
  <1>4. QED
    BY <1>2, <1>3, PTL DEF PoolSpec

-----------------------------------------------------------------------------
(* Heap.  No two neighbouring nodes are ever free, so that                 *)
(* merge_free_blocks leaves a list alone unless its first node has just    *)
(* been freed, and then joins the first two at most.                       *)

NodeType == [at : Nat, size : Nat, free : BOOLEAN, address : Nat]

(* A set of numbers has a least one.                                       *)
LEMMA LeastIndex ==
    ASSUME NEW T, T \subseteq Nat, T # {}
    PROVE  \E x \in T : \A y \in T : x <= y
  <1>1. PICK x \in T : \A y \in T : ~(<<y, x>> \in OpToRel(<, Nat))
    BY NatLessThanWellFounded, WFMin
  <1>2. \A y \in T : ~(y < x)
    BY <1>1 DEF OpToRel
  <1>3. QED
    BY <1>2
-----------------------------------------------------------------------------
(* What merge_free_blocks computes: the last value of any function that    *)
(* goes through the list as its loop does.                                 *)
Start == [nodes |-> <<>>, again |-> FALSE]
Passes(f, nodes) ==
    f = [k \in 0 .. Len(nodes) |-> IF k = 0 THEN Start ELSE Merge(f[k - 1], nodes[k])]

LEMMA OnePass ==
    ASSUME NEW nodes, Len(nodes) \in Nat, NEW f, NEW g, Passes(f, nodes), Passes(g, nodes)
    PROVE  f[Len(nodes)] = g[Len(nodes)]
  <1> DEFINE Differ == {k \in 0 .. Len(nodes) : f[k] # g[k]}
  <1>1. SUFFICES ASSUME Differ # {} PROVE FALSE
    OBVIOUS
  <1>2. PICK k \in Differ : \A y \in Differ : k <= y
    <2>1. Differ \subseteq Nat
      OBVIOUS
    <2> HIDE DEF Differ
    <2>2. QED
      BY <1>1, <2>1, LeastIndex
  <1>3. k \in 0 .. Len(nodes) /\ f[k] # g[k]
    BY <1>2
  <1>4. \A j \in 0 .. Len(nodes) : f[j] = IF j = 0 THEN Start ELSE Merge(f[j - 1], nodes[j])
    BY DEF Passes
  <1>5. \A j \in 0 .. Len(nodes) : g[j] = IF j = 0 THEN Start ELSE Merge(g[j - 1], nodes[j])
    BY DEF Passes
  <1>6. k # 0
    BY <1>3, <1>4, <1>5
  <1>7. k - 1 \in 0 .. Len(nodes) /\ ~(k <= k - 1)
    BY <1>3, <1>6
  <1>8. f[k - 1] = g[k - 1]
    BY <1>2, <1>7
  <1>9. QED
    BY <1>3, <1>4, <1>5, <1>6, <1>8

LEMMA MergeIsPass ==
    ASSUME NEW nodes, Len(nodes) \in Nat, NEW g, Passes(g, nodes)
    PROVE  merge_free_blocks(nodes) = g[Len(nodes)].nodes
  <1> DEFINE f == CHOOSE f : Passes(f, nodes)
  <1>1. Passes(f, nodes)
    OBVIOUS
  <1>2. merge_free_blocks(nodes) = f[Len(nodes)].nodes
    BY DEF merge_free_blocks, Passes, Start
  <1> HIDE DEF f
  <1>3. QED
    BY <1>1, <1>2, OnePass

-----------------------------------------------------------------------------
NoFreePair(nodes) == \A ix \in 1 .. Len(nodes) - 1 : ~(nodes[ix].free /\ nodes[ix + 1].free)

(* The front of a list, one node longer each time.                         *)
LEMMA FrontOfList ==
    ASSUME NEW nodes \in Seq(NodeType), NEW k \in 0 .. Len(nodes)
    PROVE  /\ SubSeq(nodes, 1, k) \in Seq(NodeType) /\ Len(SubSeq(nodes, 1, k)) = k
           /\ \A ix \in 1 .. k : SubSeq(nodes, 1, k)[ix] = nodes[ix]
           /\ k > 0 => Last(SubSeq(nodes, 1, k)) = nodes[k]
  <1> DEFINE s == SubSeq(nodes, 1, k)
  <1>1. Len(nodes) \in Nat /\ k \in Nat /\ \A ix \in 1 .. k : nodes[ix] \in NodeType
    BY LenProperties
  <1>2. s \in Seq(NodeType) /\ Len(s) = k /\ \A ix \in 1 .. k : s[ix] = nodes[ix]
    BY <1>1, SubSeqProperties
  <1> HIDE DEF s
  <1>3. k > 0 => s[Len(s)] = nodes[k]
    BY <1>1, <1>2
  <1>4. k > 0 => Last(s) = nodes[k]
    BY <1>3 DEF Last
  <1>5. QED
    BY <1>2, <1>4 DEF s

LEMMA LongerFront ==
    ASSUME NEW nodes \in Seq(NodeType), NEW k \in 1 .. Len(nodes)
    PROVE  Append(SubSeq(nodes, 1, k - 1), nodes[k]) = SubSeq(nodes, 1, k)
  <1> DEFINE s == SubSeq(nodes, 1, k - 1)
             t == SubSeq(nodes, 1, k)
             u == Append(s, nodes[k])
  <1>1. Len(nodes) \in Nat /\ k - 1 \in 0 .. Len(nodes) /\ k \in 0 .. Len(nodes) /\ nodes[k] \in NodeType
    BY LenProperties
  <1>2. /\ s \in Seq(NodeType) /\ Len(s) = k - 1 /\ \A ix \in 1 .. k - 1 : s[ix] = nodes[ix]
        /\ t \in Seq(NodeType) /\ Len(t) = k /\ \A ix \in 1 .. k : t[ix] = nodes[ix]
    <2>1. s \in Seq(NodeType) /\ Len(s) = k - 1 /\ \A ix \in 1 .. k - 1 : s[ix] = nodes[ix]
      BY <1>1, FrontOfList, Zenon
    <2>2. t \in Seq(NodeType) /\ Len(t) = k /\ \A ix \in 1 .. k : t[ix] = nodes[ix]
      BY <1>1, FrontOfList, Zenon
    <2>3. QED
      BY <2>1, <2>2
  <1> HIDE DEF s, t
  <1>3. /\ u \in Seq(NodeType) /\ Len(u) = k
        /\ \A ix \in 1 .. k - 1 : u[ix] = s[ix]
        /\ u[k] = nodes[k]
    BY <1>1, <1>2, AppendProperties
  <1>4. \A ix \in 1 .. k : u[ix] = t[ix]
    BY <1>1, <1>2, <1>3
  <1> HIDE DEF u
  <1>5. u = t
    BY <1>2, <1>3, <1>4, SeqEqual
  <1>6. QED
    BY <1>5 DEF u, s, t

(* Beyond a pair that is not free, one step of the pass takes over a node. *)
LEMMA PassOverNode ==
    ASSUME NEW nodes \in Seq(NodeType), NEW k \in 1 .. Len(nodes), NEW again \in BOOLEAN,
           k - 1 > 0 /\ again => ~(nodes[k - 1].free /\ nodes[k].free),
           again => k - 1 > 0
    PROVE  Merge([nodes |-> SubSeq(nodes, 1, k - 1), again |-> again], nodes[k])
             = [nodes |-> SubSeq(nodes, 1, k), again |-> TRUE]
  <1> DEFINE done == [nodes |-> SubSeq(nodes, 1, k - 1), again |-> again]
  <1>1. done.nodes = SubSeq(nodes, 1, k - 1) /\ done.again = again
    OBVIOUS
  <1>2. k - 1 \in 0 .. Len(nodes)
    BY LenProperties
  <1> HIDE DEF done
  <1>3. k - 1 > 0 => Last(done.nodes) = nodes[k - 1]
    BY <1>1, <1>2, FrontOfList, Zenon
  <1>4. ~(done.again /\ Last(done.nodes).free /\ nodes[k].free)
    BY <1>1, <1>3
  <1>5. Merge(done, nodes[k]) = [nodes |-> Append(SubSeq(nodes, 1, k - 1), nodes[k]), again |-> TRUE]
    BY <1>1, <1>4 DEF Merge
  <1>6. QED
    BY <1>5, LongerFront DEF done

(* A pass over a list without two free neighbours takes in nothing.        *)
LEMMA MergeChangesNothing ==
    ASSUME NEW nodes \in Seq(NodeType), NoFreePair(nodes)
    PROVE  merge_free_blocks(nodes) = nodes
  <1> DEFINE n == Len(nodes)
             g == [k \in 0 .. n |-> [nodes |-> SubSeq(nodes, 1, k), again |-> k > 0]]
  <1>1. n \in Nat
    BY LenProperties
  <1>2. g[0] = Start
    <2>1. SubSeq(nodes, 1, 0) = <<>> /\ 0 \in 0 .. n /\ (0 > 0) = FALSE
      BY <1>1, SubSeqEmpty
    <2>2. QED
      BY <2>1 DEF Start
  <1>3. ASSUME NEW k \in 1 .. n PROVE g[k] = Merge(g[k - 1], nodes[k])
    <2>1. k - 1 \in 0 .. n /\ k \in 0 .. n /\ (k > 0) = TRUE /\ (k - 1 > 0) \in BOOLEAN
      BY <1>1
    <2>2. g[k - 1] = [nodes |-> SubSeq(nodes, 1, k - 1), again |-> k - 1 > 0]
      BY <2>1
    <2>3. g[k] = [nodes |-> SubSeq(nodes, 1, k), again |-> TRUE]
      BY <2>1
    <2>4. k - 1 > 0 => ~(nodes[k - 1].free /\ nodes[k].free)
      <3>1. SUFFICES ASSUME k - 1 > 0 PROVE ~(nodes[k - 1].free /\ nodes[k].free)
        OBVIOUS
      <3>2. k - 1 \in 1 .. n - 1 /\ (k - 1) + 1 = k
        BY <1>1, <3>1
      <3>3. ~(nodes[k - 1].free /\ nodes[(k - 1) + 1].free)
        BY <3>2 DEF NoFreePair
      <3>4. QED
        BY <3>2, <3>3
    <2> HIDE DEF g
    <2>5. QED
      BY <2>1, <2>2, <2>3, <2>4, PassOverNode
  <1>4. Passes(g, nodes)
    <2>1. g = [k \in 0 .. n |-> g[k]]
      OBVIOUS
    <2>2. \A k \in 0 .. n : g[k] = IF k = 0 THEN Start ELSE Merge(g[k - 1], nodes[k])
      <3>1. TAKE k \in 0 .. n
      <3>2. k = 0 \/ k \in 1 .. n
        BY <1>1
      <3>3. QED
        BY <1>2, <1>3, <3>2
    <2> HIDE DEF g
    <2>3. QED
      BY <2>1, <2>2, Zenon DEF Passes
  <1>5. merge_free_blocks(nodes) = SubSeq(nodes, 1, n)
    <2>1. g[n].nodes = SubSeq(nodes, 1, n)
      BY <1>1
    <2> HIDE DEF g
    <2>2. QED
      BY <1>1, <1>4, <2>1, MergeIsPass
  <1>6. SubSeq(nodes, 1, n) = nodes
    <2>1. n \in 0 .. Len(nodes)
      BY <1>1
    <2>2. /\ SubSeq(nodes, 1, n) \in Seq(NodeType) /\ Len(SubSeq(nodes, 1, n)) = n
          /\ \A ix \in 1 .. n : SubSeq(nodes, 1, n)[ix] = nodes[ix]
      BY <2>1, FrontOfList, Zenon
    <2> DEFINE s == SubSeq(nodes, 1, n)
    <2> HIDE DEF s
    <2>3. s = nodes
      BY <2>2, SeqEqual DEF s
    <2>4. QED
      BY <2>3 DEF s
  <1>7. QED
    BY <1>5, <1>6

(* A pass over a list whose first two nodes are free, but no other         *)
(* neighbours, joins these two and takes in nothing else.                  *)
Joined(nodes) ==
    [k \in 1 .. Len(nodes) - 1 |->
        IF k = 1 THEN [nodes[1] EXCEPT !.size = @ + nodes[2].size + HEADER] ELSE nodes[k + 1]]

LEMMA JoinedIsList ==
    ASSUME NEW nodes \in Seq(NodeType), Len(nodes) >= 2
    PROVE  /\ Joined(nodes) \in Seq(NodeType) /\ Len(Joined(nodes)) = Len(nodes) - 1
           /\ Joined(nodes)[1] = [nodes[1] EXCEPT !.size = @ + nodes[2].size + HEADER]
           /\ Joined(nodes)[1] \in NodeType
           /\ \A k \in 2 .. Len(nodes) - 1 : Joined(nodes)[k] = nodes[k + 1]
  <1>1. Len(nodes) \in Nat /\ Len(nodes) - 1 \in Nat /\ \A ix \in 1 .. Len(nodes) : nodes[ix] \in NodeType
    BY LenProperties
  <1>2. HEADER \in Nat /\ nodes[1] \in NodeType /\ nodes[2] \in NodeType
    BY <1>1, PageAssumption
  <1>3. [nodes[1] EXCEPT !.size = @ + nodes[2].size + HEADER] \in NodeType
    <2> DEFINE size == nodes[1].size + nodes[2].size + HEADER
    <2>1. size \in Nat
      <3>1. nodes[1].size \in Nat /\ nodes[2].size \in Nat
        BY <1>2 DEF NodeType
      <3>2. QED
        BY <1>2, <3>1
    <2>2. [nodes[1] EXCEPT !.size = @ + nodes[2].size + HEADER] = [nodes[1] EXCEPT !.size = size]
      OBVIOUS
    <2> HIDE DEF size
    <2>3. QED
      BY <1>2, <2>1, <2>2 DEF NodeType
  <1>4. Joined(nodes) \in [1 .. Len(nodes) - 1 -> NodeType]
    <2>1. ASSUME NEW k \in 1 .. Len(nodes) - 1, k # 1 PROVE nodes[k + 1] \in NodeType
      BY <1>1, <2>1
    <2>2. QED
      BY <1>3, <2>1 DEF Joined
  <1>5. Joined(nodes) \in Seq(NodeType)
    BY <1>1, <1>4, SeqDef
  <1>6. DOMAIN Joined(nodes) = 1 .. Len(nodes) - 1 /\ 1 \in 1 .. Len(nodes) - 1
    BY <1>1 DEF Joined
  <1>7. Len(Joined(nodes)) = Len(nodes) - 1
    <2>1. Len(Joined(nodes)) \in Nat /\ DOMAIN Joined(nodes) = 1 .. Len(Joined(nodes))
      BY <1>5, LenProperties
    <2>2. QED
      BY <1>1, <1>6, <2>1
  <1>8. \A k \in 2 .. Len(nodes) - 1 : Joined(nodes)[k] = nodes[k + 1]
    BY <1>1 DEF Joined
  <1>9. QED
    BY <1>3, <1>5, <1>6, <1>7, <1>8 DEF Joined

LEMMA MergeJoinsFirstTwo ==
    ASSUME NEW nodes \in Seq(NodeType), Len(nodes) >= 2, nodes[1].free, nodes[2].free,
           \A ix \in 2 .. Len(nodes) - 1 : ~(nodes[ix].free /\ nodes[ix + 1].free)
    PROVE  merge_free_blocks(nodes) = Joined(nodes)
  <1> DEFINE n == Len(nodes)
             r == Joined(nodes)
             g == [k \in 0 .. n |->
                     IF k = 0 THEN Start
                     ELSE IF k = 1 THEN [nodes |-> <<nodes[1]>>, again |-> TRUE]
                     ELSE [nodes |-> SubSeq(r, 1, k - 1), again |-> k > 2]]
  <1>1. n \in Nat /\ n >= 2 /\ nodes[1] \in NodeType /\ nodes[2] \in NodeType
    BY LenProperties
  <1>2. /\ r \in Seq(NodeType) /\ Len(r) = n - 1
        /\ r[1] = [nodes[1] EXCEPT !.size = @ + nodes[2].size + HEADER]
        /\ \A k \in 2 .. n - 1 : r[k] = nodes[k + 1]
    BY JoinedIsList
  <1> HIDE DEF r
  <1>3. g[0] = Start /\ g[1] = [nodes |-> <<nodes[1]>>, again |-> TRUE]
    BY <1>1
  <1>4. ASSUME NEW k \in 2 .. n PROVE g[k] = [nodes |-> SubSeq(r, 1, k - 1), again |-> k > 2]
    <2>1. k \in 0 .. n /\ k # 0 /\ k # 1
      BY <1>1
    <2>2. QED
      BY <2>1
  <1> HIDE DEF g
  <1>5. g[1] = Merge(g[0], nodes[1])
    <2>1. Start.again = FALSE /\ Start.nodes = <<>>
      BY DEF Start
    <2>2. Append(<<>>, nodes[1]) = <<nodes[1]>>
      OBVIOUS
    <2>3. QED
      BY <1>3, <2>1, <2>2 DEF Merge
  <1>6. g[2] = Merge(g[1], nodes[2])
    <2> DEFINE s == <<nodes[1]>>
    <2>1. s \in Seq(NodeType) /\ Len(s) = 1 /\ s[1] = nodes[1]
      BY <1>1
    <2>2. Last(s) = nodes[1]
      BY <2>1 DEF Last
    <2>3. [s EXCEPT ![1].size = @ + nodes[2].size + HEADER] = <<r[1]>>
      BY <1>2, <2>1
    <2>4. SubSeq(r, 1, 1) = <<r[1]>>
      <3>1. 1 \in 0 .. Len(r)
        BY <1>1, <1>2
      <3>2. SubSeq(r, 1, 1) \in Seq(NodeType) /\ Len(SubSeq(r, 1, 1)) = 1 /\ \A ix \in 1 .. 1 : SubSeq(r, 1, 1)[ix] = r[ix]
        <4>1. PICK p : p = 1
          OBVIOUS
        <4>2. p \in 0 .. Len(r) /\ r \in Seq(NodeType)
          BY <1>2, <3>1, <4>1
        <4>3. /\ SubSeq(r, 1, p) \in Seq(NodeType) /\ Len(SubSeq(r, 1, p)) = p
              /\ \A ix \in 1 .. p : SubSeq(r, 1, p)[ix] = r[ix]
          BY <4>2, FrontOfList
        <4>4. QED
          BY <4>1, <4>3, Zenon
      <3>3. SubSeq(r, 1, 1)[1] = r[1] /\ r[1] \in NodeType
        BY <1>2, <3>2, JoinedIsList DEF r
      <3> DEFINE u == SubSeq(r, 1, 1)
      <3> HIDE DEF u
      <3>4. u = <<r[1]>>
        <4>1. u \in Seq(NodeType) /\ Len(u) = 1 /\ u[1] = r[1]
          BY <3>2, <3>3 DEF u
        <4>2. <<r[1]>> \in Seq(NodeType) /\ Len(<<r[1]>>) = 1 /\ <<r[1]>>[1] = r[1]
          BY <3>3
        <4>3. QED
          BY <4>1, <4>2, SeqEqual
      <3>5. QED
        BY <3>4 DEF u
    <2>5. 2 \in 2 .. n /\ (2 > 2) = FALSE /\ 2 - 1 = 1
      BY <1>1
    <2>6. g[2] = [nodes |-> <<r[1]>>, again |-> FALSE]
      BY <1>4, <2>4, <2>5
    <2> HIDE DEF s
    <2>7. g[1].again = TRUE /\ g[1].nodes = s
      BY <1>3 DEF s
    <2>8. QED
      BY <2>1, <2>2, <2>3, <2>6, <2>7 DEF Merge
  <1>7. ASSUME NEW k \in 3 .. n PROVE g[k] = Merge(g[k - 1], nodes[k])
    <2>1. /\ k \in 2 .. n /\ k - 1 \in 2 .. n /\ k - 1 \in 1 .. Len(r) /\ (k > 2) = TRUE
          /\ (k - 1 > 2) \in BOOLEAN /\ k - 1 \in 2 .. n - 1 /\ (k - 1) + 1 = k
      BY <1>1, <1>2
    <2>2. g[k] = [nodes |-> SubSeq(r, 1, k - 1), again |-> TRUE]
      BY <1>4, <2>1
    <2>3. g[k - 1] = [nodes |-> SubSeq(r, 1, (k - 1) - 1), again |-> k - 1 > 2]
      BY <1>4, <2>1
    <2>4. nodes[k] = r[k - 1]
      BY <1>2, <2>1
    <2>5. ASSUME k - 1 > 2 PROVE ~(r[(k - 1) - 1].free /\ r[k - 1].free)
      <3>1. (k - 1) - 1 \in 2 .. n - 1 /\ ((k - 1) - 1) + 1 = k - 1
        BY <1>1, <2>5
      <3>2. r[(k - 1) - 1] = nodes[k - 1]
        BY <1>2, <3>1
      <3>3. ~(nodes[k - 1].free /\ nodes[(k - 1) + 1].free)
        BY <2>1
      <3>4. QED
        BY <2>1, <2>4, <3>2, <3>3
    <2>6. k - 1 > 2 => (k - 1) - 1 > 0
      BY <2>1
    <2>7. Merge([nodes |-> SubSeq(r, 1, (k - 1) - 1), again |-> k - 1 > 2], r[k - 1])
            = [nodes |-> SubSeq(r, 1, k - 1), again |-> TRUE]
      <3>1. PICK p : p = k - 1
        OBVIOUS
      <3>2. PICK b : b = (k - 1 > 2)
        OBVIOUS
      <3>3. p \in 1 .. Len(r) /\ b \in BOOLEAN
        BY <2>1, <3>1, <3>2
      <3>4. p - 1 > 0 /\ b => ~(r[p - 1].free /\ r[p].free)
        BY <2>5, <3>1, <3>2
      <3>5. b => p - 1 > 0
        BY <2>6, <3>1, <3>2
      <3>6. r \in Seq(NodeType)
        BY <1>2
      <3>7. Merge([nodes |-> SubSeq(r, 1, p - 1), again |-> b], r[p])
              = [nodes |-> SubSeq(r, 1, p), again |-> TRUE]
        BY <3>3, <3>4, <3>5, <3>6, PassOverNode
      <3>8. QED
        BY <3>1, <3>2, <3>7, Zenon
    <2>8. QED
      BY <2>2, <2>3, <2>4, <2>7
  <1>8. Passes(g, nodes)
    <2>1. g = [k \in 0 .. n |-> g[k]]
      BY DEF g
    <2>2. \A k \in 0 .. n : g[k] = IF k = 0 THEN Start ELSE Merge(g[k - 1], nodes[k])
      <3>1. TAKE k \in 0 .. n
      <3>2. k = 0 \/ k = 1 \/ k = 2 \/ k \in 3 .. n
        BY <1>1
      <3>3. 1 - 1 = 0 /\ 2 - 1 = 1 /\ (k \in 3 .. n => k # 0)
        OBVIOUS
      <3>4. QED
        BY <1>3, <1>5, <1>6, <1>7, <3>2, <3>3
    <2>3. QED
      BY <2>1, <2>2, Zenon DEF Passes
  <1>9. merge_free_blocks(nodes) = g[n].nodes
    BY <1>1, <1>8, MergeIsPass
  <1>10. g[n].nodes = SubSeq(r, 1, n - 1)
    <2>1. n \in 2 .. n
      BY <1>1
    <2>2. g[n] = [nodes |-> SubSeq(r, 1, n - 1), again |-> n > 2]
      BY <1>4, <2>1, Zenon
    <2>3. QED
      BY <2>2
  <1>11. SubSeq(r, 1, n - 1) = r
    <2>1. n - 1 \in 0 .. Len(r)
      BY <1>1, <1>2
    <2> DEFINE s == SubSeq(r, 1, n - 1)
    <2>2. s \in Seq(NodeType) /\ Len(s) = n - 1 /\ \A ix \in 1 .. n - 1 : s[ix] = r[ix]
      BY <1>2, <2>1, FrontOfList, Zenon
    <2> HIDE DEF s
    <2>3. s = r
      BY <1>2, <2>2, SeqEqual
    <2>4. QED
      BY <2>3 DEF s
  <1>12. QED
    BY <1>9, <1>10, <1>11 DEF r

-----------------------------------------------------------------------------
(* The list between two calls: its first k nodes tile the page, those      *)
(* behind them are never free, and no two neighbours are.  The order of    *)
(* the nodes in the page, which follows from the tiling one after another, *)
(* is part of it.                                                          *)
Structure(nodes, k) ==
    /\ nodes \in Seq(NodeType) /\ k \in 1 .. Len(nodes)
    /\ Tile(nodes, k)
    /\ \A ix, j \in 1 .. k : ix < j => EndOf(nodes[ix]) <= nodes[j].at
    /\ \A ix \in k + 1 .. Len(nodes) : ~nodes[ix].free
    /\ NoFreePair(nodes)
    /\ nodes[1].address = malloc_start + HEADER

(* The memory of a piece in the page is that of one used node.             *)
LiesIn(a, n) == ~n.free /\ a.ptr = n.at + HEADER /\ a.size <= n.size
Held(a, nodes, k) == \E ix \in 1 .. k : LiesIn(a, nodes[ix])

HeapInv ==
    /\ TypeOK
    /\ \E k \in DOMAIN list :
         /\ Structure(list, k)
         /\ \A a \in live : Held(a, list, k) \/ a.ptr + a.size <= heap_end
    /\ \A a \in live : a.size > 0
    /\ \A a, b \in live : a # b => Memory!Disjoint(a, b)

LEMMA StructureTypes ==
    ASSUME NEW nodes, NEW k, Structure(nodes, k)
    PROVE  /\ Len(nodes) \in Nat /\ k \in Nat /\ DOMAIN nodes = 1 .. Len(nodes)
           /\ \A ix \in 1 .. Len(nodes) : /\ nodes[ix] \in NodeType
                                          /\ nodes[ix].at \in Nat /\ nodes[ix].size \in Nat
                                          /\ nodes[ix].free \in BOOLEAN /\ nodes[ix].address \in Nat
           /\ HEADER \in Nat /\ HEADER > 0 /\ PAGE_SIZE \in Nat /\ PAGE_SIZE > 0 /\ malloc_start \in Nat
  <1>1. nodes \in Seq(NodeType) /\ k \in 1 .. Len(nodes)
    BY DEF Structure
  <1>2. Len(nodes) \in Nat /\ DOMAIN nodes = 1 .. Len(nodes) /\ \A ix \in 1 .. Len(nodes) : nodes[ix] \in NodeType
    BY <1>1, LenProperties
  <1>3. HEADER \in Nat /\ HEADER > 0 /\ PAGE_SIZE \in Nat /\ PAGE_SIZE > 0 /\ malloc_start \in Nat
    BY PageAssumption
  <1>4. \A n \in NodeType : n.at \in Nat /\ n.size \in Nat /\ n.free \in BOOLEAN /\ n.address \in Nat
    BY DEF NodeType
  <1>5. k \in Nat
    BY <1>1, <1>2
  <1>6. QED
    BY <1>1, <1>2, <1>3, <1>4, <1>5

(* The nodes that tile the page lie in it.                                 *)
LEMMA PageNodesInPage ==
    ASSUME NEW nodes, NEW k, Structure(nodes, k), NEW ix \in 1 .. k
    PROVE  malloc_start <= nodes[ix].at /\ EndOf(nodes[ix]) <= PageEnd
  <1>1. ix \in 1 .. Len(nodes) /\ 1 \in 1 .. Len(nodes) /\ k \in 1 .. Len(nodes) /\ 1 \in 1 .. k /\ k \in 1 .. k
    BY StructureTypes DEF Structure
  <1>2. nodes[1].at = malloc_start /\ EndOf(nodes[k]) = PageEnd
    BY DEF Structure, Tile
  <1>3. malloc_start <= nodes[ix].at
    <2>1. CASE ix = 1
      BY <1>2, <2>1, StructureTypes
    <2>2. CASE ix # 1
      <3>1. EndOf(nodes[1]) <= nodes[ix].at
        BY <1>1, <2>2 DEF Structure
      <3>2. QED
        BY <1>1, <1>2, <3>1, StructureTypes DEF EndOf
    <2>3. QED
      BY <2>1, <2>2
  <1>4. EndOf(nodes[ix]) <= PageEnd
    <2>1. CASE ix = k
      BY <1>1, <1>2, <2>1, StructureTypes DEF PageEnd
    <2>2. CASE ix # k
      <3>1. EndOf(nodes[ix]) <= nodes[k].at
        BY <1>1, <2>2 DEF Structure
      <3>2. nodes[k].at \in Nat /\ nodes[k].size \in Nat /\ nodes[ix].at \in Nat /\ nodes[ix].size \in Nat
        BY <1>1, StructureTypes
      <3>3. HEADER \in Nat /\ malloc_start \in Nat /\ PAGE_SIZE \in Nat
        BY StructureTypes
      <3>4. QED
        BY <1>2, <3>1, <3>2, <3>3 DEF EndOf, PageEnd
    <2>3. QED
      BY <2>1, <2>2
  <1>5. QED
    BY <1>3, <1>4

(* The invariant says what the run checks.                                 *)
LEMMA InvariantSuffices ==
    ASSUME HeapInv
    PROVE  NodesTileThePage /\ PiecesAreMapped
  <1>1. PICK k \in DOMAIN list :
          Structure(list, k) /\ \A a \in live : Held(a, list, k) \/ a.ptr + a.size <= heap_end
    BY DEF HeapInv
  <1>2. ASSUME NEW a \in live PROVE a.ptr \in Nat /\ a.size \in Nat /\ heap_end <= malloc_start /\ heap_end \in Nat
    BY PageAssumption DEF HeapInv, TypeOK
  <1>3. ASSUME NEW ix \in 1 .. k, NEW a \in live
        PROVE  a.ptr + a.size <= list[ix].at \/ list[ix].at + HEADER <= a.ptr
    <2>1. ix \in 1 .. Len(list) /\ malloc_start <= list[ix].at
      BY <1>1, StructureTypes, PageNodesInPage DEF Structure
    <2>2. CASE a.ptr + a.size <= heap_end
      BY <1>1, <1>2, <2>1, <2>2, StructureTypes
    <2>3. CASE Held(a, list, k)
      <3>1. PICK j \in 1 .. k : LiesIn(a, list[j])
        BY <2>3 DEF Held
      <3>2. j \in 1 .. Len(list)
        BY <1>1, StructureTypes DEF Structure
      <3>3. ix < j => EndOf(list[ix]) <= list[j].at
        BY <1>1 DEF Structure
      <3>4. j < ix => EndOf(list[j]) <= list[ix].at
        BY <1>1 DEF Structure
      <3>5. ix < j \/ j < ix \/ ix = j
        BY <2>1, <3>2
      <3>6. /\ list[ix].at \in Nat /\ list[ix].size \in Nat /\ list[j].at \in Nat /\ list[j].size \in Nat
            /\ HEADER \in Nat
        BY <1>1, <2>1, <3>2, StructureTypes
      <3>7. a.ptr = list[j].at + HEADER /\ a.size <= list[j].size
        BY <3>1 DEF LiesIn
      <3>8. QED
        BY <1>2, <3>3, <3>4, <3>5, <3>6, <3>7 DEF EndOf
    <2>4. QED
      BY <1>1, <2>2, <2>3
  <1>4. NodesTileThePage
    BY <1>1, <1>3 DEF NodesTileThePage, Structure, HeapInv
  <1>5. ASSUME NEW a \in live, Held(a, list, k)
        PROVE  malloc_start <= a.ptr /\ a.ptr + a.size <= PageEnd
    <2>1. PICK j \in 1 .. k : LiesIn(a, list[j])
      BY <1>5 DEF Held
    <2>2. j \in 1 .. Len(list) /\ malloc_start <= list[j].at /\ EndOf(list[j]) <= PageEnd
      BY <1>1, StructureTypes, PageNodesInPage DEF Structure
    <2>3. list[j].at \in Nat /\ list[j].size \in Nat /\ HEADER \in Nat /\ malloc_start \in Nat /\ PAGE_SIZE \in Nat
      BY <1>1, <2>2, StructureTypes
    <2>4. a.ptr = list[j].at + HEADER /\ a.size <= list[j].size
      BY <2>1 DEF LiesIn
    <2>5. EndOf(list[j]) = list[j].at + HEADER + list[j].size
      BY <2>3 DEF EndOf
    <2>6. PageEnd \in Nat /\ a.size \in Nat /\ a.ptr \in Nat
      BY <1>2, <2>3 DEF PageEnd
    <2>7. malloc_start <= a.ptr
      BY <2>2, <2>3, <2>4
    <2>8. a.ptr + a.size <= EndOf(list[j])
      BY <2>3, <2>4, <2>5, <2>6
    <2>9. PICK end : end = EndOf(list[j])
      OBVIOUS
    <2>10. end \in Nat /\ a.ptr + a.size <= end /\ end <= PageEnd
      BY <2>2, <2>3, <2>5, <2>8, <2>9
    <2>11. a.ptr + a.size <= PageEnd
      BY <2>6, <2>10
    <2>12. QED
      BY <2>7, <2>11
  <1>6. PiecesAreMapped
    BY <1>1, <1>5 DEF PiecesAreMapped
  <1>7. QED
    BY <1>4, <1>6

-----------------------------------------------------------------------------
(* What each call does to the list keeps its structure, and the memory of  *)
(* every piece the node that held it.                                      *)
Taken(nodes, ix) == [nodes EXCEPT ![ix].free = FALSE]

LEMMA TakeKeepsStructure ==
    ASSUME NEW nodes, NEW k, Structure(nodes, k), NEW ix \in 1 .. k, nodes[ix].free,
           NEW m, m = Taken(nodes, ix)
    PROVE  /\ Structure(m, k) /\ merge_free_blocks(m) = m
           /\ m[ix].at = nodes[ix].at /\ m[ix].size = nodes[ix].size /\ ~m[ix].free
           /\ \A a : Held(a, nodes, k) => Held(a, m, k)
  <1>1. ix \in 1 .. Len(nodes) /\ nodes \in Seq(NodeType) /\ nodes[ix] \in NodeType
    BY StructureTypes DEF Structure
  <1> DEFINE e == [nodes[ix] EXCEPT !.free = FALSE]
  <1>2. e \in NodeType /\ e.at = nodes[ix].at /\ e.size = nodes[ix].size /\ e.free = FALSE /\ e.address = nodes[ix].address
    BY <1>1 DEF NodeType
  <1>3. m = [nodes EXCEPT ![ix] = e]
    BY DEF Taken
  <1> HIDE DEF e
  <1>4. m \in Seq(NodeType) /\ Len(m) = Len(nodes) /\ \A j \in 1 .. Len(nodes) : m[j] = IF j = ix THEN e ELSE nodes[j]
    <2> DEFINE u == [nodes EXCEPT ![ix] = e]
    <2>1. u \in Seq(NodeType) /\ Len(u) = Len(nodes)
      BY <1>1, <1>2, ExceptSeq
    <2>2. \A j \in 1 .. Len(nodes) : u[j] = IF j = ix THEN e ELSE nodes[j]
      BY <1>1, StructureTypes
    <2> HIDE DEF u
    <2>3. m = u
      BY <1>3 DEF u
    <2>4. QED
      BY <2>1, <2>2, <2>3
  <1>5. \A j \in 1 .. Len(nodes) : /\ m[j].at = nodes[j].at /\ m[j].size = nodes[j].size
                                   /\ m[j].address = nodes[j].address /\ EndOf(m[j]) = EndOf(nodes[j])
                                   /\ m[j].free => nodes[j].free
    BY <1>2, <1>4 DEF EndOf
  <1>6. /\ 1 \in 1 .. Len(nodes) /\ k \in 1 .. Len(nodes) /\ Len(nodes) \in Nat /\ k \in Nat
    BY StructureTypes DEF Structure
  <1>7. Tile(m, k)
    <2>1. ASSUME NEW j \in 1 .. k - 1 PROVE m[j + 1].at = EndOf(m[j])
      <3>1. j \in 1 .. Len(nodes) /\ j + 1 \in 1 .. Len(nodes) /\ nodes[j + 1].at = EndOf(nodes[j])
        BY <1>6 DEF Structure, Tile
      <3>2. QED
        BY <1>5, <3>1
    <2>2. ASSUME NEW j \in k + 1 .. Len(m) PROVE EndOf(m[j]) <= malloc_start
      <3>1. j \in 1 .. Len(nodes) /\ EndOf(nodes[j]) <= malloc_start
        BY <1>4, <1>6 DEF Structure, Tile
      <3>2. QED
        BY <1>5, <3>1
    <2>3. m[1].at = malloc_start /\ EndOf(m[k]) = PageEnd
      BY <1>5, <1>6 DEF Structure, Tile
    <2>4. QED
      BY <2>1, <2>2, <2>3 DEF Tile
  <1>8. \A x, y \in 1 .. k : x < y => EndOf(m[x]) <= m[y].at
    <2>1. TAKE x, y \in 1 .. k
    <2>2. x \in 1 .. Len(nodes) /\ y \in 1 .. Len(nodes)
      BY <1>6
    <2>3. x < y => EndOf(nodes[x]) <= nodes[y].at
      BY DEF Structure
    <2>4. QED
      BY <1>5, <2>2, <2>3
  <1>9. \A j \in k + 1 .. Len(m) : ~m[j].free
    <2>1. TAKE j \in k + 1 .. Len(m)
    <2>2. j \in 1 .. Len(nodes) /\ ~nodes[j].free
      BY <1>4, <1>6 DEF Structure
    <2>3. QED
      BY <1>5, <2>2
  <1>10. NoFreePair(m)
    <2>1. SUFFICES ASSUME NEW j \in 1 .. Len(m) - 1 PROVE ~(m[j].free /\ m[j + 1].free)
      BY DEF NoFreePair
    <2>2. j \in 1 .. Len(nodes) /\ j + 1 \in 1 .. Len(nodes) /\ ~(nodes[j].free /\ nodes[j + 1].free)
      BY <1>4, <1>6 DEF Structure, NoFreePair
    <2>3. QED
      BY <1>5, <2>2
  <1>11. Structure(m, k)
    <2>1. m[1].address = malloc_start + HEADER
      BY <1>5, <1>6 DEF Structure
    <2>2. QED
      BY <1>4, <1>6, <1>7, <1>8, <1>9, <1>10, <2>1 DEF Structure
  <1>12. ASSUME NEW a, Held(a, nodes, k) PROVE Held(a, m, k)
    <2>1. PICK j \in 1 .. k : LiesIn(a, nodes[j])
      BY <1>12 DEF Held
    <2>2. j \in 1 .. Len(nodes)
      BY <1>6
    <2>3. LiesIn(a, m[j])
      BY <1>5, <2>1, <2>2 DEF LiesIn
    <2>4. QED
      BY <2>3 DEF Held
  <1>13. merge_free_blocks(m) = m
    BY <1>4, <1>10, MergeChangesNothing
  <1>14. QED
    BY <1>1, <1>2, <1>4, <1>11, <1>12, <1>13

LEMMA AppendKeepsStructure ==
    ASSUME NEW nodes, NEW k, Structure(nodes, k), NEW n \in NodeType, ~n.free, EndOf(n) <= malloc_start,
           NEW m, m = Append(nodes, n)
    PROVE  /\ Structure(m, k) /\ merge_free_blocks(m) = m
           /\ \A a : Held(a, nodes, k) => Held(a, m, k)
  <1>1. /\ nodes \in Seq(NodeType) /\ Len(nodes) \in Nat /\ k \in Nat /\ k \in 1 .. Len(nodes)
    BY StructureTypes DEF Structure
  <1>2. /\ m \in Seq(NodeType) /\ Len(m) = Len(nodes) + 1
        /\ \A j \in 1 .. Len(nodes) : m[j] = nodes[j]
        /\ m[Len(nodes) + 1] = n
    BY <1>1, AppendProperties
  <1>3. \A j \in 1 .. Len(m) : j \in 1 .. Len(nodes) \/ j = Len(nodes) + 1
    BY <1>1, <1>2
  <1>4. Tile(m, k)
    <2>1. ASSUME NEW j \in 1 .. k - 1 PROVE m[j + 1].at = EndOf(m[j])
      <3>1. j \in 1 .. Len(nodes) /\ j + 1 \in 1 .. Len(nodes) /\ nodes[j + 1].at = EndOf(nodes[j])
        BY <1>1 DEF Structure, Tile
      <3>2. QED
        BY <1>2, <3>1
    <2>2. ASSUME NEW j \in k + 1 .. Len(m) PROVE EndOf(m[j]) <= malloc_start
      <3>1. j \in k + 1 .. Len(nodes) \/ j = Len(nodes) + 1
        BY <1>1, <1>2
      <3>2. j \in k + 1 .. Len(nodes) => j \in 1 .. Len(nodes) /\ EndOf(nodes[j]) <= malloc_start
        BY <1>1 DEF Structure, Tile
      <3>3. QED
        BY <1>2, <3>1, <3>2
    <2>3. m[1].at = malloc_start /\ EndOf(m[k]) = PageEnd
      <3>1. 1 \in 1 .. Len(nodes)
        BY <1>1
      <3>2. QED
        BY <1>1, <1>2, <3>1 DEF Structure, Tile
    <2>4. QED
      BY <2>1, <2>2, <2>3 DEF Tile
  <1>5. \A x, y \in 1 .. k : x < y => EndOf(m[x]) <= m[y].at
    <2>1. TAKE x, y \in 1 .. k
    <2>2. x \in 1 .. Len(nodes) /\ y \in 1 .. Len(nodes)
      BY <1>1
    <2>3. x < y => EndOf(nodes[x]) <= nodes[y].at
      BY DEF Structure
    <2>4. QED
      BY <1>2, <2>2, <2>3
  <1>6. \A j \in k + 1 .. Len(m) : ~m[j].free
    <2>1. TAKE j \in k + 1 .. Len(m)
    <2>2. j \in k + 1 .. Len(nodes) \/ j = Len(nodes) + 1
      BY <1>1, <1>2
    <2>3. j \in k + 1 .. Len(nodes) => j \in 1 .. Len(nodes) /\ ~nodes[j].free
      BY <1>1 DEF Structure
    <2>4. QED
      BY <1>2, <2>2, <2>3
  <1>7. NoFreePair(m)
    <2>1. SUFFICES ASSUME NEW j \in 1 .. Len(m) - 1 PROVE ~(m[j].free /\ m[j + 1].free)
      BY DEF NoFreePair
    <2>2. CASE j = Len(nodes)
      BY <1>2, <2>2
    <2>3. CASE j # Len(nodes)
      <3>1. j \in 1 .. Len(nodes) - 1 /\ j \in 1 .. Len(nodes) /\ j + 1 \in 1 .. Len(nodes)
        BY <1>1, <1>2, <2>3
      <3>2. ~(nodes[j].free /\ nodes[j + 1].free)
        BY <3>1 DEF Structure, NoFreePair
      <3>3. QED
        BY <1>2, <3>1, <3>2
    <2>4. QED
      BY <2>2, <2>3
  <1>8. Structure(m, k)
    <2>1. m[1].address = malloc_start + HEADER /\ k \in 1 .. Len(m)
      BY <1>1, <1>2 DEF Structure
    <2>2. QED
      BY <1>2, <1>4, <1>5, <1>6, <1>7, <2>1 DEF Structure
  <1>9. ASSUME NEW a, Held(a, nodes, k) PROVE Held(a, m, k)
    <2>1. PICK j \in 1 .. k : LiesIn(a, nodes[j])
      BY <1>9 DEF Held
    <2>2. j \in 1 .. Len(nodes)
      BY <1>1
    <2>3. QED
      BY <1>2, <2>1, <2>2 DEF Held
  <1>10. QED
    BY <1>2, <1>7, <1>8, <1>9, MergeChangesNothing

(* A node of the page that is split: the front keeps its place, all nodes  *)
(* behind it move up by one.                                               *)
LEMMA SplitParts ==
    ASSUME NEW n \in NodeType, n.free, NEW size \in Nat, n.size > size + HEADER
    PROVE  LET parts == split_blocks(n, size)
           IN  /\ Len(parts) = 2 /\ parts \in Seq(NodeType)
               /\ parts[1].at = n.at /\ parts[1].size = size /\ ~parts[1].free
               /\ parts[1].address = n.at + HEADER
               /\ parts[2].at = EndOf(parts[1]) /\ EndOf(parts[2]) = EndOf(n)
  <1>1. HEADER \in Nat /\ n.at \in Nat /\ n.size \in Nat
    BY PageAssumption DEF NodeType
  <1> DEFINE front == Node(n.at, size, FALSE, n.at + HEADER)
             rest == Node(n.at + HEADER + size, n.size - size - HEADER, TRUE, n.at + 2 * HEADER + size)
  <1>2. n.size - size - HEADER \in Nat /\ n.at + HEADER + size \in Nat /\ n.at + 2 * HEADER + size \in Nat /\ n.at + HEADER \in Nat
    BY <1>1
  <1>3. front \in NodeType /\ rest \in NodeType
    BY <1>1, <1>2 DEF Node, NodeType
  <1>4. /\ front.at = n.at /\ front.size = size /\ front.free = FALSE /\ front.address = n.at + HEADER
        /\ rest.at = n.at + HEADER + size /\ rest.size = n.size - size - HEADER
    BY DEF Node
  <1>5. split_blocks(n, size) = <<front, rest>>
    BY DEF split_blocks
  <1> HIDE DEF front, rest
  <1>6. rest.at = EndOf(front) /\ EndOf(rest) = EndOf(n)
    BY <1>1, <1>2, <1>4 DEF EndOf
  <1>7. <<front, rest>> \in Seq(NodeType) /\ Len(<<front, rest>>) = 2 /\ <<front, rest>>[1] = front /\ <<front, rest>>[2] = rest
    BY <1>3
  <1>8. QED
    BY <1>4, <1>5, <1>6, <1>7

Spliced(nodes, ix, parts) == SubSeq(nodes, 1, ix - 1) \o parts \o SubSeq(nodes, ix + 1, Len(nodes))

LEMMA SumIsNoLess == \A a, h, b \in Nat : a <= a + h + b
  OBVIOUS

(* m is nodes with parts in the place of the node at ix.                   *)
HasInPlace(m, nodes, ix, parts) ==
    /\ m \in Seq(NodeType) /\ Len(m) = Len(nodes) + 1
    /\ \A j \in 1 .. ix - 1 : m[j] = nodes[j]
    /\ m[ix] = parts[1] /\ m[ix + 1] = parts[2]
    /\ \A j \in ix + 2 .. Len(nodes) + 1 : m[j] = nodes[j - 1]

LEMMA SplicedNodes ==
    ASSUME NEW nodes \in Seq(NodeType), NEW ix \in 1 .. Len(nodes), NEW parts \in Seq(NodeType), Len(parts) = 2,
           NEW m, m = Spliced(nodes, ix, parts)
    PROVE  HasInPlace(m, nodes, ix, parts)
  <1> DEFINE n == Len(nodes)
             s == SubSeq(nodes, 1, ix - 1)
             t == SubSeq(nodes, ix + 1, n)
             u == s \o parts
  <1>1. n \in Nat /\ ix \in Nat /\ ix >= 1 /\ ix <= n /\ \A j \in 1 .. n : nodes[j] \in NodeType
    BY LenProperties
  <1>2. s \in Seq(NodeType) /\ Len(s) = ix - 1 /\ \A j \in 1 .. ix - 1 : s[j] = nodes[j]
    <2>1. ix - 1 \in 0 .. Len(nodes)
      BY <1>1
    <2>2. QED
      BY <2>1, FrontOfList, Zenon
  <1>3. t \in Seq(NodeType) /\ Len(t) = n - ix /\ \A j \in 1 .. n - ix : t[j] = nodes[ix + j]
    <2>1. \A j \in ix + 1 .. n : nodes[j] \in NodeType
      BY <1>1
    <2>2. ix + 1 \in Int /\ n \in Int
      BY <1>1
    <2>3. /\ t \in Seq(NodeType)
          /\ Len(t) = IF ix + 1 <= n THEN n - (ix + 1) + 1 ELSE 0
          /\ \A j \in 1 .. n - (ix + 1) + 1 : t[j] = nodes[ix + 1 + j - 1]
      BY <2>1, <2>2, SubSeqProperties
    <2> HIDE DEF t, n
    <2>4. Len(t) = n - ix /\ n - (ix + 1) + 1 = n - ix
      BY <1>1, <2>3
    <2>5. \A j \in 1 .. n - ix : ix + 1 + j - 1 = ix + j
      BY <1>1
    <2>6. QED
      BY <2>3, <2>4, <2>5
  <1> HIDE DEF s, t, n
  <1>4. /\ u \in Seq(NodeType) /\ Len(u) = ix + 1
        /\ \A j \in 1 .. ix + 1 : u[j] = IF j <= ix - 1 THEN s[j] ELSE parts[j - (ix - 1)]
    <2>1. /\ u \in Seq(NodeType) /\ Len(u) = Len(s) + Len(parts)
          /\ \A j \in 1 .. Len(s) + Len(parts) : u[j] = IF j <= Len(s) THEN s[j] ELSE parts[j - Len(s)]
      BY <1>2, ConcatProperties
    <2>2. Len(s) + Len(parts) = ix + 1
      BY <1>1, <1>2
    <2> HIDE DEF u
    <2>3. QED
      BY <1>2, <2>1, <2>2
  <1> HIDE DEF u
  <1>5. /\ m \in Seq(NodeType) /\ Len(m) = n + 1
        /\ \A j \in 1 .. n + 1 : m[j] = IF j <= ix + 1 THEN u[j] ELSE t[j - (ix + 1)]
    <2>1. m = u \o t
      BY DEF Spliced, u, s, t, n
    <2>2. /\ u \o t \in Seq(NodeType) /\ Len(u \o t) = Len(u) + Len(t)
          /\ \A j \in 1 .. Len(u) + Len(t) : (u \o t)[j] = IF j <= Len(u) THEN u[j] ELSE t[j - Len(u)]
      BY <1>3, <1>4, ConcatProperties
    <2>3. Len(u) + Len(t) = n + 1
      BY <1>1, <1>3, <1>4
    <2>4. QED
      BY <1>4, <2>1, <2>2, <2>3
  <1>6. ASSUME NEW j \in 1 .. ix - 1 PROVE m[j] = nodes[j]
    <2>1. j \in 1 .. n + 1 /\ j <= ix + 1 /\ j \in 1 .. ix + 1 /\ j <= ix - 1
      BY <1>1
    <2>2. m[j] = u[j] /\ u[j] = s[j] /\ s[j] = nodes[j]
      BY <1>2, <1>4, <1>5, <2>1
    <2>3. QED
      BY <2>2
  <1>7. m[ix] = parts[1] /\ m[ix + 1] = parts[2]
    <2>1. ix \in 1 .. n + 1 /\ ix + 1 \in 1 .. n + 1 /\ ix \in 1 .. ix + 1 /\ ix + 1 \in 1 .. ix + 1
      BY <1>1
    <2>2. m[ix] = u[ix] /\ m[ix + 1] = u[ix + 1]
      BY <1>1, <1>5, <2>1
    <2>3. u[ix] = parts[ix - (ix - 1)] /\ u[ix + 1] = parts[ix + 1 - (ix - 1)]
      <3>1. ~(ix <= ix - 1) /\ ~(ix + 1 <= ix - 1)
        BY <1>1
      <3>2. u[ix] = parts[ix - (ix - 1)]
        BY <1>4, <2>1, <3>1
      <3>3. PICK k : k = ix + 1
        OBVIOUS
      <3>4. k \in 1 .. ix + 1 /\ ~(k <= ix - 1)
        BY <2>1, <3>1, <3>3
      <3>5. u[k] = parts[k - (ix - 1)]
        BY <1>4, <3>4
      <3>6. u[ix + 1] = parts[ix + 1 - (ix - 1)]
        BY <3>3, <3>5
      <3>7. QED
        BY <3>2, <3>6
    <2>4. ix - (ix - 1) = 1 /\ ix + 1 - (ix - 1) = 2
      BY <1>1
    <2>5. QED
      BY <2>2, <2>3, <2>4
  <1>8. ASSUME NEW j \in ix + 2 .. n + 1 PROVE m[j] = nodes[j - 1]
    <2>1. j \in 1 .. n + 1 /\ ~(j <= ix + 1) /\ j - (ix + 1) \in 1 .. n - ix /\ ix + (j - (ix + 1)) = j - 1
      BY <1>1
    <2>2. m[j] = t[j - (ix + 1)] /\ t[j - (ix + 1)] = nodes[ix + (j - (ix + 1))]
      BY <1>3, <1>5, <2>1
    <2>3. QED
      BY <2>1, <2>2
  <1>9. QED
    BY <1>5, <1>6, <1>7, <1>8 DEF n, HasInPlace

LEMMA SplitKeepsStructure ==
    ASSUME NEW nodes, NEW k, Structure(nodes, k), NEW ix \in 1 .. k, nodes[ix].free,
           NEW size \in Nat, nodes[ix].size > size + HEADER,
           NEW m, m = Spliced(nodes, ix, split_blocks(nodes[ix], size))
    PROVE  /\ Structure(m, k + 1) /\ merge_free_blocks(m) = m
           /\ m[ix].at = nodes[ix].at /\ m[ix].size = size /\ ~m[ix].free
           /\ split_blocks(nodes[ix], size)[1].address = nodes[ix].at + HEADER
           /\ \A a : Held(a, nodes, k) => Held(a, m, k + 1)
  <1> DEFINE n == Len(nodes)
             parts == split_blocks(nodes[ix], size)
             From(j) == IF j <= ix THEN j ELSE j - 1
  <1>1. /\ nodes \in Seq(NodeType) /\ n \in Nat /\ k \in Nat /\ k \in 1 .. n /\ ix \in 1 .. n /\ ix \in Nat
        /\ nodes[ix] \in NodeType /\ ix >= 1 /\ ix <= k
    BY StructureTypes DEF Structure
  <1>2. /\ Len(parts) = 2 /\ parts \in Seq(NodeType)
        /\ parts[1].at = nodes[ix].at /\ parts[1].size = size /\ ~parts[1].free
        /\ parts[1].address = nodes[ix].at + HEADER
        /\ parts[2].at = EndOf(parts[1]) /\ EndOf(parts[2]) = EndOf(nodes[ix])
    BY <1>1, SplitParts
  <1> HIDE DEF parts
  <1>3. /\ m \in Seq(NodeType) /\ Len(m) = n + 1
        /\ \A j \in 1 .. ix - 1 : m[j] = nodes[j]
        /\ m[ix] = parts[1] /\ m[ix + 1] = parts[2]
        /\ \A j \in ix + 2 .. n + 1 : m[j] = nodes[j - 1]
    <2>1. m = Spliced(nodes, ix, parts)
      BY DEF parts
    <2>2. nodes \in Seq(NodeType) /\ ix \in 1 .. Len(nodes) /\ parts \in Seq(NodeType) /\ Len(parts) = 2
      BY <1>1, <1>2
    <2>3. HasInPlace(m, nodes, ix, parts)
      BY <2>1, <2>2, SplicedNodes
    <2>4. QED
      BY <2>3 DEF HasInPlace
  <1>4. /\ \A j \in 1 .. n + 1 : m[j] \in NodeType /\ m[j].at \in Nat /\ m[j].size \in Nat
        /\ \A j \in 1 .. n : nodes[j].at \in Nat /\ nodes[j].size \in Nat
        /\ HEADER \in Nat
        /\ \A j \in 1 .. n + 1 : EndOf(m[j]) \in Nat
        /\ \A j \in 1 .. n : EndOf(nodes[j]) \in Nat
    <2>1. \A j \in 1 .. n + 1 : m[j] \in NodeType
      BY <1>3, ElementOfSeq
    <2>2. \A x \in NodeType : x.at \in Nat /\ x.size \in Nat
      BY DEF NodeType
    <2>3. HEADER \in Nat
      BY PageAssumption
    <2>4. \A j \in 1 .. n : nodes[j] \in NodeType
      BY <1>1, ElementOfSeq
    <2>5. \A x \in NodeType : EndOf(x) \in Nat
      BY <2>2, <2>3 DEF EndOf
    <2>6. QED
      BY <2>1, <2>2, <2>3, <2>4, <2>5
  <1>5. ASSUME NEW j \in 1 .. n + 1
        PROVE  /\ From(j) \in 1 .. n
               /\ EndOf(m[j]) \in Nat /\ EndOf(nodes[From(j)]) \in Nat
               /\ EndOf(m[j]) <= EndOf(nodes[From(j)])
               /\ nodes[From(j)].at <= m[j].at
               /\ j # ix => EndOf(m[j]) = EndOf(nodes[From(j)])
               /\ j # ix + 1 => m[j].at = nodes[From(j)].at
    <2>1. From(j) \in 1 .. n
      BY <1>1
    <2>2. EndOf(m[j]) \in Nat /\ EndOf(nodes[From(j)]) \in Nat
      BY <1>4, <2>1
    <2>3. CASE j \in 1 .. ix - 1
      <3>1. From(j) = j /\ m[j] = nodes[j]
        BY <1>1, <1>3, <2>3
      <3>2. QED
        BY <1>1, <1>4, <2>1, <2>2, <3>1
    <2>4. CASE j \in ix + 2 .. n + 1
      <3>1. From(j) = j - 1 /\ m[j] = nodes[j - 1]
        BY <1>1, <1>3, <2>4
      <3>2. QED
        BY <1>1, <1>4, <2>1, <2>2, <3>1
    <2>5. CASE j = ix \/ j = ix + 1
      <3>1. From(j) = ix /\ ix \in 1 .. n + 1 /\ ix + 1 \in 1 .. n + 1 /\ ix # ix + 1
        BY <1>1, <2>5
      <3>2. EndOf(parts[1]) <= EndOf(parts[2]) /\ parts[1].at <= parts[2].at
        <4>1. /\ parts[1].at \in Nat /\ parts[1].size \in Nat
              /\ parts[2].at \in Nat /\ parts[2].size \in Nat
          BY <1>3, <1>4, <3>1
        <4>2. parts[2].at = parts[1].at + HEADER + parts[1].size /\ EndOf(parts[1]) = parts[2].at
          BY <1>2 DEF EndOf
        <4>3. EndOf(parts[2]) = parts[2].at + HEADER + parts[2].size
          BY DEF EndOf
        <4>4. HEADER \in Nat
          BY <1>4
        <4> HIDE DEF From
        <4>5. parts[1].at <= parts[2].at
          BY <4>1, <4>2, <4>4, SumIsNoLess
        <4>6. parts[2].at <= EndOf(parts[2])
          BY <4>1, <4>3, <4>4, SumIsNoLess
        <4>7. QED
          BY <4>2, <4>5, <4>6
      <3>3. CASE j = ix
        <4>1. m[j] = parts[1] /\ From(j) = ix /\ parts[1].at = nodes[ix].at /\ EndOf(parts[2]) = EndOf(nodes[ix])
          BY <1>2, <1>3, <3>1, <3>3
        <4> HIDE DEF From
        <4>2. QED
          BY <2>1, <2>2, <3>1, <3>2, <3>3, <4>1, <1>4
      <3>4. CASE j = ix + 1
        <4>1. m[j] = parts[2] /\ parts[1].at = nodes[From(j)].at /\ EndOf(parts[2]) = EndOf(nodes[From(j)])
          BY <1>2, <1>3, <3>1, <3>4
        <4>2. j # ix
          BY <1>1, <3>4
        <4> HIDE DEF From
        <4>3. QED
          BY <1>4, <2>1, <2>2, <3>2, <3>4, <4>1, <4>2
      <3>5. QED
        BY <2>5, <3>3, <3>4
    <2>6. QED
      BY <1>1, <2>3, <2>4, <2>5
  <1>6. /\ nodes[1].at = malloc_start /\ EndOf(nodes[k]) = PageEnd
        /\ \A j \in 1 .. k - 1 : nodes[j + 1].at = EndOf(nodes[j])
        /\ \A j \in k + 1 .. n : EndOf(nodes[j]) <= malloc_start
    BY DEF Structure, Tile
  <1>7. Tile(m, k + 1)
    <2>1. m[1].at = malloc_start
      <3>1. 1 \in 1 .. n + 1 /\ 1 # ix + 1 /\ From(1) = 1
        BY <1>1
      <3>2. QED
        BY <1>5, <1>6, <3>1
    <2>2. EndOf(m[k + 1]) = PageEnd
      <3>1. k + 1 \in 1 .. n + 1 /\ k + 1 # ix /\ From(k + 1) = k
        BY <1>1
      <3>2. QED
        BY <1>5, <1>6, <3>1
    <2>3. ASSUME NEW j \in 1 .. (k + 1) - 1 PROVE m[j + 1].at = EndOf(m[j])
      <3>1. j \in 1 .. n + 1 /\ j + 1 \in 1 .. n + 1
        BY <1>1
      <3>2. CASE j = ix
        BY <1>2, <1>3, <3>2
      <3>3. CASE j # ix
        <4>1. j + 1 # ix + 1 /\ From(j) \in 1 .. k - 1 /\ From(j + 1) = From(j) + 1
          BY <1>1, <3>3
        <4>2. m[j + 1].at = nodes[From(j + 1)].at /\ EndOf(m[j]) = EndOf(nodes[From(j)])
          BY <1>5, <3>1, <3>3, <4>1
        <4>3. QED
          BY <1>6, <4>1, <4>2
      <3>4. QED
        BY <3>2, <3>3
    <2>4. ASSUME NEW j \in (k + 1) + 1 .. Len(m) PROVE EndOf(m[j]) <= malloc_start
      <3>1. j \in 1 .. n + 1 /\ j # ix /\ From(j) \in k + 1 .. n
        BY <1>1, <1>3
      <3>2. QED
        BY <1>5, <1>6, <3>1
    <2>5. QED
      BY <2>1, <2>2, <2>3, <2>4 DEF Tile
  <1>8. ASSUME NEW x \in 1 .. k + 1, NEW y \in 1 .. k + 1, x < y PROVE EndOf(m[x]) <= m[y].at
    <2>1. x \in 1 .. n + 1 /\ y \in 1 .. n + 1 /\ From(x) \in 1 .. k /\ From(y) \in 1 .. k
      BY <1>1
    <2>2. CASE x = ix /\ y = ix + 1
      <3>1. EndOf(m[x]) = m[y].at /\ m[y].at \in Nat
        BY <1>2, <1>3, <1>4, <2>1, <2>2
      <3>2. QED
        BY <3>1
    <2>3. CASE ~(x = ix /\ y = ix + 1)
      <3>1. From(x) < From(y)
        BY <1>1, <1>8, <2>3
      <3>2. EndOf(nodes[From(x)]) <= nodes[From(y)].at
        BY <2>1, <3>1 DEF Structure
      <3>3. EndOf(m[x]) <= EndOf(nodes[From(x)]) /\ EndOf(m[x]) \in Nat /\ EndOf(nodes[From(x)]) \in Nat
        BY <1>5, <2>1
      <3>4. nodes[From(y)].at <= m[y].at /\ nodes[From(y)].at \in Nat /\ m[y].at \in Nat
        BY <1>4, <1>5, <2>1
      <3> HIDE DEF From
      <3>5. QED
        BY <3>2, <3>3, <3>4
    <2>4. QED
      BY <2>2, <2>3
  <1>9. ASSUME NEW j \in (k + 1) + 1 .. Len(m) PROVE ~m[j].free
    <2>1. j \in ix + 2 .. n + 1 /\ j - 1 \in k + 1 .. n
      BY <1>1, <1>3
    <2>2. m[j] = nodes[j - 1] /\ ~nodes[j - 1].free
      BY <1>3, <2>1 DEF Structure
    <2>3. QED
      BY <2>2
  <1>10. ASSUME NEW j \in 1 .. Len(m) - 1 PROVE ~(m[j].free /\ m[j + 1].free)
    <2>1. \A l \in 1 .. n - 1 : ~(nodes[l].free /\ nodes[l + 1].free)
      BY DEF Structure, NoFreePair
    <2>2. CASE j = ix \/ j + 1 = ix
      BY <1>1, <1>2, <1>3, <2>2
    <2>3. CASE j = ix + 1
      <3>1. j + 1 \in ix + 2 .. n + 1 /\ (j + 1) - 1 = ix + 1 /\ ix \in 1 .. n - 1
        BY <1>1, <1>3, <2>3
      <3>2. m[j + 1] = nodes[ix + 1]
        BY <1>3, <3>1
      <3>3. QED
        BY <2>1, <3>1, <3>2
    <2>4. CASE j + 1 < ix
      <3>1. j \in 1 .. ix - 1 /\ j + 1 \in 1 .. ix - 1 /\ j \in 1 .. n - 1
        BY <1>1, <2>4
      <3>2. m[j] = nodes[j] /\ m[j + 1] = nodes[j + 1]
        BY <1>3, <3>1
      <3>3. QED
        BY <2>1, <3>1, <3>2
    <2>5. CASE j > ix + 1
      <3>1. j \in ix + 2 .. n + 1 /\ j + 1 \in ix + 2 .. n + 1 /\ j - 1 \in 1 .. n - 1 /\ (j + 1) - 1 = (j - 1) + 1
        BY <1>1, <1>3, <2>5
      <3>2. m[j] = nodes[j - 1] /\ m[j + 1] = nodes[(j - 1) + 1]
        BY <1>3, <3>1
      <3>3. QED
        BY <2>1, <3>1, <3>2
    <2>6. j \in Nat
      OBVIOUS
    <2>7. QED
      BY <1>1, <2>2, <2>3, <2>4, <2>5, <2>6
  <1>11. m[1].address = malloc_start + HEADER
    <2>1. CASE ix = 1
      BY <1>2, <1>3, <1>6, <2>1
    <2>2. CASE ix # 1
      <3>1. 1 \in 1 .. ix - 1
        BY <1>1, <2>2
      <3>2. QED
        BY <1>3, <3>1 DEF Structure
    <2>3. QED
      BY <2>1, <2>2
  <1>12. k + 1 \in 1 .. Len(m)
    BY <1>1, <1>3
  <1>13. NoFreePair(m)
    BY <1>10 DEF NoFreePair
  <1>14. Structure(m, k + 1)
    BY <1>3, <1>7, <1>8, <1>9, <1>11, <1>12, <1>13 DEF Structure
  <1>15. ASSUME NEW a, Held(a, nodes, k) PROVE Held(a, m, k + 1)
    <2>1. PICK j \in 1 .. k : LiesIn(a, nodes[j])
      BY <1>15 DEF Held
    <2>2. j # ix
      BY <2>1 DEF LiesIn
    <2>3. CASE j < ix
      <3>1. j \in 1 .. ix - 1 /\ j \in 1 .. k + 1
        BY <1>1, <2>3
      <3>2. m[j] = nodes[j]
        BY <1>3, <3>1
      <3>3. QED
        BY <2>1, <3>1, <3>2 DEF Held
    <2>4. CASE j > ix
      <3>1. j + 1 \in ix + 2 .. n + 1 /\ j + 1 \in 1 .. k + 1 /\ (j + 1) - 1 = j
        BY <1>1, <2>4
      <3>2. m[j + 1] = nodes[j]
        BY <1>3, <3>1
      <3>3. QED
        BY <2>1, <3>1, <3>2 DEF Held
    <2>5. j \in Nat
      OBVIOUS
    <2>6. QED
      BY <1>1, <2>2, <2>3, <2>4, <2>5
  <1>16. merge_free_blocks(m) = m
    BY <1>3, <1>13, MergeChangesNothing
  <1>17. QED
    BY <1>2, <1>3, <1>14, <1>15, <1>16 DEF parts

(* The first node is freed.  If the second one is free they become one.    *)
SecondIsFree(nodes) == Len(nodes) >= 2 /\ nodes[2].free
Freed(nodes) == [nodes EXCEPT ![1].free = TRUE]

LEMMA FreedFirst ==
    ASSUME NEW nodes, NEW k, Structure(nodes, k), NEW m, m = Freed(nodes)
    PROVE  /\ m \in Seq(NodeType) /\ Len(m) = Len(nodes)
           /\ m[1] \in NodeType
           /\ m[1].at = nodes[1].at /\ m[1].size = nodes[1].size /\ m[1].free = TRUE
           /\ m[1].address = nodes[1].address
           /\ \A j \in 2 .. Len(nodes) : m[j] = nodes[j]
  <1>1. 1 \in 1 .. Len(nodes) /\ nodes \in Seq(NodeType) /\ nodes[1] \in NodeType /\ Len(nodes) \in Nat
    BY StructureTypes DEF Structure
  <1> DEFINE e == [nodes[1] EXCEPT !.free = TRUE]
             u == [nodes EXCEPT ![1] = e]
  <1>2. e \in NodeType /\ e.at = nodes[1].at /\ e.size = nodes[1].size /\ e.free = TRUE /\ e.address = nodes[1].address
    BY <1>1 DEF NodeType
  <1>3. m = u
    BY DEF Freed
  <1> HIDE DEF e
  <1>4. u \in Seq(NodeType) /\ Len(u) = Len(nodes)
    BY <1>1, <1>2, ExceptSeq
  <1>5. u[1] = e /\ \A j \in 2 .. Len(nodes) : u[j] = nodes[j]
    BY <1>1, StructureTypes
  <1> HIDE DEF u
  <1>6. QED
    BY <1>2, <1>3, <1>4, <1>5 DEF e

LEMMA FreeKeepsStructure ==
    ASSUME NEW nodes, NEW k, Structure(nodes, k), NEW m, m = Freed(nodes),
           ~SecondIsFree(nodes)
    PROVE  /\ Structure(m, k) /\ merge_free_blocks(m) = m
           /\ \A a : Held(a, nodes, k) /\ a.ptr # malloc_start + HEADER => Held(a, m, k)
  <1>1. /\ m \in Seq(NodeType) /\ Len(m) = Len(nodes) /\ Len(nodes) \in Nat /\ k \in Nat /\ k \in 1 .. Len(nodes)
        /\ m[1].at = nodes[1].at /\ m[1].size = nodes[1].size /\ m[1].address = nodes[1].address
        /\ \A j \in 2 .. Len(nodes) : m[j] = nodes[j]
    <2>1. Len(nodes) \in Nat /\ k \in Nat /\ k \in 1 .. Len(nodes)
      BY StructureTypes DEF Structure
    <2>2. /\ m \in Seq(NodeType) /\ Len(m) = Len(nodes)
          /\ m[1] \in NodeType
          /\ m[1].at = nodes[1].at /\ m[1].size = nodes[1].size /\ m[1].free = TRUE
          /\ m[1].address = nodes[1].address
          /\ \A j \in 2 .. Len(nodes) : m[j] = nodes[j]
      BY FreedFirst
    <2>3. QED
      BY <2>1, <2>2
  <1>2. \A j \in 1 .. Len(nodes) : m[j].at = nodes[j].at /\ EndOf(m[j]) = EndOf(nodes[j])
    <2>1. TAKE j \in 1 .. Len(nodes)
    <2>2. j = 1 \/ j \in 2 .. Len(nodes)
      OBVIOUS
    <2>3. QED
      BY <1>1, <2>2 DEF EndOf
  <1>3. Tile(m, k)
    <2>1. ASSUME NEW j \in 1 .. k - 1 PROVE m[j + 1].at = EndOf(m[j])
      <3>1. j \in 1 .. Len(nodes) /\ j + 1 \in 1 .. Len(nodes) /\ nodes[j + 1].at = EndOf(nodes[j])
        BY <1>1 DEF Structure, Tile
      <3>2. QED
        BY <1>2, <3>1
    <2>2. ASSUME NEW j \in k + 1 .. Len(m) PROVE EndOf(m[j]) <= malloc_start
      <3>1. j \in 1 .. Len(nodes) /\ EndOf(nodes[j]) <= malloc_start
        BY <1>1 DEF Structure, Tile
      <3>2. QED
        BY <1>2, <3>1
    <2>3. m[1].at = malloc_start /\ EndOf(m[k]) = PageEnd
      BY <1>1, <1>2 DEF Structure, Tile
    <2>4. QED
      BY <2>1, <2>2, <2>3 DEF Tile
  <1>4. \A x, y \in 1 .. k : x < y => EndOf(m[x]) <= m[y].at
    <2>1. TAKE x, y \in 1 .. k
    <2>2. x \in 1 .. Len(nodes) /\ y \in 1 .. Len(nodes)
      BY <1>1
    <2>3. x < y => EndOf(nodes[x]) <= nodes[y].at
      BY DEF Structure
    <2>4. QED
      BY <1>2, <2>2, <2>3
  <1>5. \A j \in k + 1 .. Len(m) : ~m[j].free
    <2>1. TAKE j \in k + 1 .. Len(m)
    <2>2. j \in 2 .. Len(nodes) /\ ~nodes[j].free
      BY <1>1 DEF Structure
    <2>3. QED
      BY <1>1, <2>2
  <1>6. NoFreePair(m)
    <2>1. SUFFICES ASSUME NEW j \in 1 .. Len(m) - 1 PROVE ~(m[j].free /\ m[j + 1].free)
      BY DEF NoFreePair
    <2>2. CASE j = 1
      <3>1. 2 \in 2 .. Len(nodes) /\ ~nodes[2].free /\ m[2] = nodes[2]
        BY <1>1, <2>2 DEF SecondIsFree
      <3>2. QED
        BY <2>2, <3>1
    <2>3. CASE j # 1
      <3>1. j \in 2 .. Len(nodes) /\ j + 1 \in 2 .. Len(nodes) /\ ~(nodes[j].free /\ nodes[j + 1].free)
        BY <1>1, <2>3 DEF Structure, NoFreePair
      <3>2. QED
        BY <1>1, <3>1
    <2>4. QED
      BY <2>2, <2>3
  <1>7. Structure(m, k)
    <2>1. m[1].address = malloc_start + HEADER
      BY <1>1 DEF Structure
    <2>2. QED
      BY <1>1, <1>3, <1>4, <1>5, <1>6, <2>1 DEF Structure
  <1>8. ASSUME NEW a, Held(a, nodes, k), a.ptr # malloc_start + HEADER PROVE Held(a, m, k)
    <2>1. PICK j \in 1 .. k : LiesIn(a, nodes[j])
      BY <1>8 DEF Held
    <2>2. j # 1
      BY <1>8, <2>1 DEF LiesIn, Structure, Tile
    <2>3. j \in 2 .. Len(nodes)
      BY <1>1, <2>2
    <2>4. QED
      BY <1>1, <2>1, <2>3 DEF Held
  <1>9. QED
    BY <1>1, <1>6, <1>7, <1>8, MergeChangesNothing

LEMMA JoinKeepsStructure ==
    ASSUME NEW nodes, NEW k, Structure(nodes, k), NEW u, u = Freed(nodes),
           SecondIsFree(nodes), NEW m, m = Joined(u)
    PROVE  /\ Structure(m, k - 1) /\ merge_free_blocks(u) = m
           /\ \A a : Held(a, nodes, k) /\ a.ptr # malloc_start + HEADER => Held(a, m, k - 1)
  <1> DEFINE n == Len(nodes)
  <1>1. /\ u \in Seq(NodeType) /\ Len(u) = n /\ n \in Nat /\ k \in Nat /\ k \in 1 .. n /\ n >= 2
        /\ u[1] \in NodeType
        /\ u[1].at = nodes[1].at /\ u[1].size = nodes[1].size /\ u[1].address = nodes[1].address
        /\ u[1].free = TRUE
        /\ \A j \in 2 .. n : u[j] = nodes[j]
    <2>1. n \in Nat /\ k \in Nat /\ k \in 1 .. n /\ n >= 2
      BY StructureTypes DEF Structure, SecondIsFree
    <2>2. /\ u \in Seq(NodeType) /\ Len(u) = Len(nodes)
          /\ u[1] \in NodeType
          /\ u[1].at = nodes[1].at /\ u[1].size = nodes[1].size /\ u[1].free = TRUE
          /\ u[1].address = nodes[1].address
          /\ \A j \in 2 .. Len(nodes) : u[j] = nodes[j]
      BY FreedFirst
    <2>3. QED
      BY <2>1, <2>2
  <1>0. n \in Nat /\ k \in Nat /\ k <= n /\ k >= 1 /\ n >= 2
    BY <1>1
  <1>01. nodes[2].free
    BY DEF SecondIsFree
  <1>2. k >= 2
    <2>1. \A j \in k + 1 .. n : ~nodes[j].free
      BY DEF Structure
    <2>2. QED
      BY <1>1, <1>01, <2>1
  <1>3. /\ \A j \in 1 .. n : nodes[j].at \in Nat /\ nodes[j].size \in Nat /\ EndOf(nodes[j]) \in Nat
        /\ HEADER \in Nat
    <2>1. \A j \in 1 .. n : nodes[j].at \in Nat /\ nodes[j].size \in Nat
      BY StructureTypes
    <2>2. HEADER \in Nat
      BY PageAssumption
    <2>3. QED
      BY <2>1, <2>2 DEF EndOf
  <1>4. 2 \in 1 .. n /\ 1 \in 1 .. n /\ 2 \in 2 .. n /\ u[2] = nodes[2]
    BY <1>1
  <1>5. /\ nodes[1].at = malloc_start /\ EndOf(nodes[k]) = PageEnd
        /\ \A j \in 1 .. k - 1 : nodes[j + 1].at = EndOf(nodes[j])
        /\ \A j \in k + 1 .. n : EndOf(nodes[j]) <= malloc_start
        /\ \A j \in 1 .. n - 1 : ~(nodes[j].free /\ nodes[j + 1].free)
    BY DEF Structure, Tile, NoFreePair
  <1>6. /\ m \in Seq(NodeType) /\ Len(m) = n - 1
        /\ m[1] = [u[1] EXCEPT !.size = @ + u[2].size + HEADER]
        /\ \A j \in 2 .. n - 1 : m[j] = nodes[j + 1]
    <2>1. /\ m \in Seq(NodeType) /\ Len(m) = n - 1
          /\ m[1] = [u[1] EXCEPT !.size = @ + u[2].size + HEADER]
          /\ \A j \in 2 .. n - 1 : m[j] = u[j + 1]
      BY <1>1, JoinedIsList
    <2>2. \A j \in 2 .. n - 1 : u[j + 1] = nodes[j + 1]
      BY <1>1
    <2>3. QED
      BY <2>1, <2>2
  <1>61. Len(m) = n - 1
    BY <1>6
  <1> HIDE DEF n
  <1>7. /\ m[1].at = nodes[1].at /\ m[1].address = nodes[1].address /\ m[1].free = TRUE
        /\ EndOf(m[1]) = EndOf(nodes[2])
    <2>1. m[1].at = nodes[1].at /\ m[1].address = nodes[1].address /\ m[1].free = TRUE
      BY <1>1, <1>6 DEF NodeType
    <2>2. m[1].size = nodes[1].size + nodes[2].size + HEADER
      <3>1. \A x \in NodeType, v \in Nat : [x EXCEPT !.size = v].size = v
        BY DEF NodeType
      <3>2. u[1].size + u[2].size + HEADER \in Nat /\ u[1].size = nodes[1].size /\ u[2].size = nodes[2].size
        BY <1>1, <1>3, <1>4
      <3>3. m[1] = [u[1] EXCEPT !.size = u[1].size + u[2].size + HEADER]
        BY <1>1, <1>6 DEF NodeType
      <3> DEFINE size == u[1].size + u[2].size + HEADER
      <3>4. size \in Nat /\ m[1] = [u[1] EXCEPT !.size = size]
        BY <3>2, <3>3
      <3> HIDE DEF size
      <3>5. m[1].size = size
        BY <1>1, <3>4 DEF NodeType
      <3>6. QED
        BY <1>3, <1>4, <3>2, <3>5 DEF size
    <2>3. nodes[2].at = EndOf(nodes[1])
      <3>1. 1 \in 1 .. k - 1 /\ 1 + 1 = 2
        BY <1>1, <1>2
      <3>2. nodes[1 + 1].at = EndOf(nodes[1])
        BY <1>5, <3>1
      <3>3. QED
        BY <3>1, <3>2
    <2>4. /\ nodes[1].at \in Nat /\ nodes[1].size \in Nat /\ nodes[2].size \in Nat /\ HEADER \in Nat
      BY <1>3, <1>4
    <2>5. EndOf(m[1]) = nodes[1].at + HEADER + (nodes[1].size + nodes[2].size + HEADER)
      BY <2>1, <2>2 DEF EndOf
    <2>6. EndOf(nodes[2]) = (nodes[1].at + HEADER + nodes[1].size) + HEADER + nodes[2].size
      BY <2>3 DEF EndOf
    <2>7. QED
      BY <2>1, <2>4, <2>5, <2>6
  <1>8. \A j \in 1 .. n - 1 : EndOf(m[j]) = EndOf(nodes[j + 1])
    <2>1. TAKE j \in 1 .. n - 1
    <2>2. j = 1 \/ j \in 2 .. n - 1
      BY <1>1
    <2>3. 1 + 1 = 2
      OBVIOUS
    <2>4. QED
      BY <1>6, <1>7, <2>2, <2>3
  <1>9. Tile(m, k - 1)
    <2>1. ASSUME NEW j \in 1 .. (k - 1) - 1 PROVE m[j + 1].at = EndOf(m[j])
      <3>1. j + 1 \in 2 .. n - 1 /\ j \in 1 .. n - 1 /\ j + 1 \in 1 .. k - 1
        BY <1>1
      <3>2. m[j + 1] = nodes[(j + 1) + 1] /\ EndOf(m[j]) = EndOf(nodes[j + 1])
        BY <1>6, <1>8, <3>1
      <3>3. QED
        BY <1>5, <3>1, <3>2
    <2>2. ASSUME NEW j \in (k - 1) + 1 .. Len(m) PROVE EndOf(m[j]) <= malloc_start
      <3>1. j \in 1 .. n - 1 /\ j + 1 \in k + 1 .. n
        BY <1>0, <1>61
      <3>2. QED
        BY <1>5, <1>8, <3>1
    <2>3. EndOf(m[k - 1]) = PageEnd
      <3>1. k - 1 \in 1 .. n - 1 /\ (k - 1) + 1 = k
        BY <1>1, <1>2
      <3>2. QED
        BY <1>5, <1>8, <3>1
    <2>4. m[1].at = malloc_start
      BY <1>5, <1>7
    <2>5. QED
      BY <2>1, <2>2, <2>3, <2>4 DEF Tile
  <1>10. ASSUME NEW x \in 1 .. k - 1, NEW y \in 1 .. k - 1, x < y PROVE EndOf(m[x]) <= m[y].at
    <2>1. /\ x \in 1 .. n - 1 /\ y \in 2 .. n - 1 /\ x + 1 < y + 1
          /\ x + 1 \in 1 .. k /\ y + 1 \in 1 .. k
      BY <1>1, <1>10
    <2>2. EndOf(nodes[x + 1]) <= nodes[y + 1].at
      BY <2>1 DEF Structure
    <2>3. QED
      BY <1>6, <1>8, <2>1, <2>2
  <1>11. ASSUME NEW j \in (k - 1) + 1 .. Len(m) PROVE ~m[j].free
    <2>1. j \in 2 .. n - 1 /\ j + 1 \in k + 1 .. n
      BY <1>0, <1>2, <1>61
    <2>2. ~nodes[j + 1].free
      BY <2>1 DEF Structure, n
    <2>3. QED
      BY <1>6, <2>1, <2>2
  <1>12. NoFreePair(m)
    <2>1. SUFFICES ASSUME NEW j \in 1 .. Len(m) - 1 PROVE ~(m[j].free /\ m[j + 1].free)
      BY DEF NoFreePair
    <2>2. CASE j = 1
      <3>1. j + 1 \in 2 .. n - 1 /\ 2 \in 1 .. n - 1 /\ (j + 1) + 1 = 2 + 1
        BY <1>0, <1>61, <2>2
      <3>2. m[j + 1] = nodes[2 + 1] /\ ~(nodes[2].free /\ nodes[2 + 1].free)
        BY <1>5, <1>6, <3>1
      <3>3. QED
        BY <1>01, <3>2
    <2>3. CASE j # 1
      <3>1. j \in 2 .. n - 1 /\ j + 1 \in 2 .. n - 1 /\ j + 1 \in 1 .. n - 1
        BY <1>0, <1>61, <2>3
      <3>2. m[j] = nodes[j + 1] /\ m[j + 1] = nodes[(j + 1) + 1]
        BY <1>6, <3>1
      <3>3. QED
        BY <1>5, <3>1, <3>2
    <2>4. QED
      BY <2>2, <2>3
  <1>13. Structure(m, k - 1)
    <2>1. m[1].address = malloc_start + HEADER
      BY <1>7 DEF Structure
    <2>2. k - 1 \in 1 .. Len(m)
      BY <1>0, <1>2, <1>61
    <2>3. QED
      BY <1>6, <1>9, <1>10, <1>11, <1>12, <2>1, <2>2 DEF Structure
  <1>14. ASSUME NEW a, Held(a, nodes, k), a.ptr # malloc_start + HEADER PROVE Held(a, m, k - 1)
    <2>1. PICK j \in 1 .. k : LiesIn(a, nodes[j])
      BY <1>14 DEF Held
    <2>2. j # 1
      BY <1>14, <2>1 DEF LiesIn, Structure, Tile
    <2>3. j # 2
      BY <1>01, <2>1 DEF LiesIn
    <2>4. j - 1 \in 2 .. n - 1 /\ (j - 1) + 1 = j /\ j - 1 \in 1 .. k - 1
      BY <1>1, <2>2, <2>3
    <2>5. m[j - 1] = nodes[(j - 1) + 1]
      BY <1>6, <2>4
    <2>6. LiesIn(a, m[j - 1])
      BY <2>1, <2>4, <2>5
    <2>7. QED
      BY <2>4, <2>6 DEF Held
  <1>15. merge_free_blocks(u) = m
    <2>1. ASSUME NEW j \in 2 .. Len(u) - 1 PROVE ~(u[j].free /\ u[j + 1].free)
      <3>1. j \in 2 .. n /\ j + 1 \in 2 .. n /\ j \in 1 .. n - 1
        BY <1>1
      <3>2. QED
        BY <1>1, <1>5, <3>1
    <2>2. Len(u) >= 2 /\ u[1].free /\ u[2].free
      BY <1>1, <1>01, <1>4
    <2>3. QED
      BY <1>1, <2>1, <2>2, MergeJoinsFirstTwo
  <1>16. QED
    BY <1>13, <1>14, <1>15

-----------------------------------------------------------------------------
LEMMA FirstFitFits ==
    ASSUME Len(list) \in Nat, NEW size, FirstFit(size) # 0
    PROVE  FirstFit(size) \in 1 .. Len(list) /\ Fits(list[FirstFit(size)], size)
  <1> DEFINE I == {ix \in 1 .. Len(list) : Fits(list[ix], size)}
  <1>1. FirstFit(size) = IF I # {} THEN Min(I) ELSE 0
    BY DEF FirstFit, SelectInSeq
  <1>2. I # {}
    BY <1>1
  <1>3. PICK ix \in I : \A j \in I : ix <= j
    <2>1. I \subseteq Nat
      OBVIOUS
    <2> HIDE DEF I
    <2>2. QED
      BY <1>2, <2>1, LeastIndex
  <1> HIDE DEF I
  <1>4. Min(I) \in I
    BY <1>3 DEF Min
  <1>5. QED
    BY <1>1, <1>2, <1>4 DEF I

(* The pages of a request hold it, and fit below the heap if it does.      *)
LEMMA PagesBounds ==
    ASSUME NEW size \in Nat, size > 0
    PROVE  /\ PagesFor(size) * PAGE_SIZE \in Nat
           /\ size <= PagesFor(size) * PAGE_SIZE
           /\ PAGE_SIZE <= PagesFor(size) * PAGE_SIZE
           /\ size <= malloc_start => PagesFor(size) * PAGE_SIZE <= malloc_start
  <1> DEFINE P == PAGE_SIZE
             n == size + P - 1
             p == PagesFor(size)
             q == malloc_start \div P
  <1>1. P \in Nat /\ P > 0 /\ n \in Nat /\ malloc_start \in Nat /\ malloc_start % P = 0
    BY PageAssumption
  <1>2. p = n \div P
    BY DEF PagesFor
  <1>3. p \in Nat /\ n % P \in 0 .. P - 1 /\ n = P * p + (n % P)
    <2> HIDE DEF P, n
    <2>1. QED
      BY <1>1, <1>2, Z3
  <1>4. q \in Nat /\ malloc_start = P * q + (malloc_start % P)
    <2> HIDE DEF P
    <2>1. QED
      BY <1>1, Z3
  <1>5. n = size + P - 1
    OBVIOUS
  <1> HIDE DEF P, n, p, q
  <1>6. P * p \in Nat /\ P * q \in Nat /\ malloc_start = P * q /\ P * p = p * P
    BY <1>1, <1>3, <1>4
  <1>7. size <= P * p /\ P * p < size + P
    BY <1>1, <1>3, <1>5, <1>6
  <1>8. p > 0
    <2>1. p = 0 => P * p = 0
      BY <1>1
    <2>2. QED
      BY <1>3, <1>7, <2>1
  <1>9. P <= P * p
    <2>1. P * p = P + P * (p - 1) /\ P * (p - 1) \in Nat
      BY <1>1, <1>3, <1>8
    <2>2. QED
      BY <1>1, <2>1
  <1>10. ASSUME size <= malloc_start PROVE P * p <= P * q
    <2>1. SUFFICES ASSUME p > q PROVE FALSE
      <3>1. p <= q => P * p <= P * q
        <4>1. SUFFICES ASSUME p <= q PROVE P * p <= P * q
          OBVIOUS
        <4>2. P * q = P * p + P * (q - p) /\ P * (q - p) \in Nat
          BY <1>1, <1>3, <1>4, <4>1
        <4>3. QED
          BY <1>6, <4>2
      <3>2. QED
        BY <1>3, <1>4, <3>1, <2>1
    <2>2. P * p = P * q + P * (p - q) /\ P * (p - q) = P + P * (p - q - 1) /\ P * (p - q - 1) \in Nat
      BY <1>1, <1>3, <1>4, <2>1
    <2>3. QED
      BY <1>1, <1>6, <1>7, <1>10, <2>2
  <1>11. QED
    BY <1>1, <1>6, <1>7, <1>9, <1>10 DEF P, p

LEMMA InitInv == Init => HeapInv
  <1> SUFFICES ASSUME Init PROVE HeapInv
    OBVIOUS
  <1> DEFINE n == Node(malloc_start, PAGE_SIZE - HEADER, TRUE, 0)
  <1>1. /\ PAGE_SIZE \in Nat /\ HEADER \in Nat /\ HEADER > 0 /\ malloc_start \in Nat /\ FileTable \in Nat
        /\ FileTable > 0 /\ FileTable + 2 * HEADER < PAGE_SIZE
        /\ InodeTable \in Nat /\ InodeTable > 0 /\ InodeTable <= malloc_start
    BY PageAssumption, TableAssumption
  <1>2. n \in NodeType /\ n.free = TRUE /\ n.size > FileTable + HEADER /\ n.at = malloc_start
    <2>1. PAGE_SIZE - HEADER \in Nat /\ PAGE_SIZE - HEADER > FileTable + HEADER
      BY <1>1
    <2> DEFINE rest == PAGE_SIZE - HEADER
    <2> HIDE DEF rest
    <2>2. n = [at |-> malloc_start, size |-> rest, free |-> TRUE, address |-> 0]
      BY DEF Node, rest
    <2> HIDE DEF n
    <2>3. rest \in Nat /\ rest > FileTable + HEADER
      BY <2>1 DEF rest
    <2>4. n.free = TRUE /\ n.size = rest /\ n.at = malloc_start
      BY <2>2
    <2>5. n \in NodeType
      BY <1>1, <2>2, <2>3 DEF NodeType
    <2>6. QED
      BY <2>3, <2>4, <2>5
  <1>3. EndOf(n) = PageEnd
    <2>1. n.at = malloc_start /\ n.size = PAGE_SIZE - HEADER
      BY DEF Node
    <2> HIDE DEF n
    <2>2. QED
      BY <1>1, <2>1 DEF EndOf, PageEnd
  <1>4. list = split_blocks(n, FileTable)
    BY DEF Init
  <1> HIDE DEF n
  <1>5. /\ Len(list) = 2 /\ list \in Seq(NodeType)
        /\ list[1].at = n.at /\ list[1].size = FileTable /\ ~list[1].free
        /\ list[1].address = n.at + HEADER
        /\ list[2].at = EndOf(list[1]) /\ EndOf(list[2]) = EndOf(n)
    BY <1>1, <1>2, <1>4, SplitParts
  <1>6. 2 \in 1 .. Len(list) /\ 2 \in DOMAIN list
    BY <1>5, LenProperties
  <1>7. Structure(list, 2)
    <2>1. Tile(list, 2)
      <3>1. \A ix \in 1 .. 2 - 1 : list[ix + 1].at = EndOf(list[ix])
        <4>1. \A ix \in 1 .. 2 - 1 : ix = 1 /\ ix + 1 = 2
          OBVIOUS
        <4>2. QED
          BY <1>5, <4>1
      <3>2. \A ix \in 2 + 1 .. Len(list) : FALSE
        BY <1>5
      <3>3. QED
        BY <1>2, <1>3, <1>5, <3>1, <3>2 DEF Tile
    <2>2. \A ix, j \in 1 .. 2 : ix < j => EndOf(list[ix]) <= list[j].at
      <3>1. \A ix, j \in 1 .. 2 : ix < j => ix = 1 /\ j = 2
        OBVIOUS
      <3>2. list[2].at \in Nat
        <4>1. list[2] \in NodeType
          BY <1>5, <1>6, ElementOfSeq
        <4>2. QED
          BY <4>1 DEF NodeType
      <3>3. QED
        BY <1>5, <3>1, <3>2
    <2>3. \A ix \in 2 + 1 .. Len(list) : ~list[ix].free
      BY <1>5
    <2>4. NoFreePair(list)
      BY <1>5 DEF NoFreePair
    <2>5. QED
      BY <1>2, <1>5, <1>6, <2>1, <2>2, <2>3, <2>4 DEF Structure
  <1> DEFINE f == Piece(malloc_start + HEADER, FileTable)
             t == Piece(0, InodeTable)
  <1>8. live = {f, t}
    BY DEF Init
  <1>9. /\ f.ptr = malloc_start + HEADER /\ f.size = FileTable /\ t.ptr = 0 /\ t.size = InodeTable
        /\ f \in [ptr : Nat, size : Nat] /\ t \in [ptr : Nat, size : Nat]
    BY <1>1 DEF Piece
  <1> HIDE DEF f, t
  <1>10. heap_end \in 0 .. malloc_start /\ InodeTable <= heap_end
    BY <1>1, PagesBounds DEF Init
  <1>11. Held(f, list, 2)
    <2>1. LiesIn(f, list[1])
      BY <1>1, <1>2, <1>5, <1>9 DEF LiesIn
    <2>2. QED
      BY <2>1 DEF Held
  <1>12. TypeOK
    BY <1>5, <1>8, <1>9, <1>10 DEF TypeOK, NodeType, Init
  <1>13. t.ptr + t.size <= heap_end
    BY <1>1, <1>9, <1>10
  <1>14. \A a \in live : a.size > 0
    BY <1>1, <1>8, <1>9
  <1>15. Memory!Disjoint(f, t) /\ Memory!Disjoint(t, f)
    BY <1>1, <1>9 DEF Memory!Disjoint
  <1>16. QED
    BY <1>6, <1>7, <1>8, <1>11, <1>12, <1>13, <1>14, <1>15 DEF HeapInv

-----------------------------------------------------------------------------
(* A piece that keeps clear of those in use and whose place the list knows *)
(* may be handed out.                                                      *)
LEMMA HandOut ==
    ASSUME HeapInv, NEW a \in [ptr : Nat, size : Nat], a.size > 0,
           \A b \in live : Memory!Disjoint(a, b),
           NEW k \in 1 .. Len(list'), Structure(list', k),
           heap_end' \in heap_end .. malloc_start,
           \A b \in live : Held(b, list', k) \/ b.ptr + b.size <= heap_end,
           Held(a, list', k) \/ a.ptr + a.size <= heap_end',
           live' = live \cup {a}, UNCHANGED spinning
    PROVE  HeapInv' /\ [Memory!AllocatorNext]_live
  <1>1. /\ heap_end \in Nat /\ heap_end <= malloc_start /\ malloc_start \in Nat
        /\ live \subseteq [ptr : Nat, size : Nat] /\ spinning \in BOOLEAN
    BY PageAssumption DEF HeapInv, TypeOK
  <1>2. list' \in Seq(NodeType) /\ k \in DOMAIN list'
    BY StructureTypes DEF Structure
  <1>3. heap_end' \in 0 .. malloc_start /\ heap_end <= heap_end' /\ heap_end' \in Nat
    BY <1>1
  <1>4. TypeOK'
    BY <1>1, <1>2, <1>3 DEF TypeOK, NodeType
  <1>5. \A b \in live : b.ptr \in Nat /\ b.size \in Nat
    BY <1>1
  <1>6. \A b \in live : b.ptr + b.size <= heap_end => b.ptr + b.size <= heap_end'
    BY <1>1, <1>3, <1>5
  <1>7. \A b \in live' : Held(b, list', k) \/ b.ptr + b.size <= heap_end'
    BY <1>6
  <1>8. \A b \in live' : b.size > 0
    BY DEF HeapInv
  <1>9. \A b, c \in live' : b # c => Memory!Disjoint(b, c)
    <2>1. \A b \in live : Memory!Disjoint(b, a)
      BY DEF Memory!Disjoint
    <2>2. \A b, c \in live : b # c => Memory!Disjoint(b, c)
      BY DEF HeapInv
    <2>3. QED
      BY <2>1, <2>2
  <1>10. HeapInv'
    BY <1>2, <1>4, <1>7, <1>8, <1>9 DEF HeapInv
  <1>11. [Memory!AllocatorNext]_live
    <2>1. CASE a \in live
      BY <2>1
    <2>2. CASE a \notin live
      <3>1. a \in live' \ live
        BY <2>2
      <3>2. Memory!Allocate(a)
        BY DEF Memory!Allocate
      <3>3. QED
        BY <3>1, <3>2 DEF Memory!AllocatorNext
    <2>3. QED
      BY <2>1, <2>2
  <1>12. QED
    BY <1>10, <1>11

(* A piece that fits a node ends before the memory of the next node begins. *)
LEMMA InOrder ==
    ASSUME NEW at \in Nat, NEW head \in Nat, NEW room \in Nat, NEW next \in Nat, NEW size \in Nat,
           at + head + room <= next, size <= room
    PROVE  at + head + size <= next + head
  OBVIOUS

(* The free node that a piece is cut from keeps it clear of all others.    *)
LEMMA CutIsClear ==
    ASSUME NEW nodes, NEW k, Structure(nodes, k), NEW ix \in 1 .. k, nodes[ix].free,
           NEW size \in Nat, size <= nodes[ix].size,
           NEW end \in 0 .. malloc_start,
           NEW b, b.ptr \in Nat, b.size \in Nat, Held(b, nodes, k) \/ b.ptr + b.size <= end
    PROVE  /\ Piece(nodes[ix].at + HEADER, size) \in [ptr : Nat, size : Nat]
           /\ Piece(nodes[ix].at + HEADER, size).size = size
           /\ Memory!Disjoint(Piece(nodes[ix].at + HEADER, size), b)
  <1> DEFINE a == Piece(nodes[ix].at + HEADER, size)
             n == nodes[ix]
  <1>1. ix \in 1 .. Len(nodes) /\ n.at \in Nat /\ n.size \in Nat /\ HEADER \in Nat /\ malloc_start \in Nat
    BY StructureTypes DEF Structure
  <1>2. malloc_start <= n.at
    BY PageNodesInPage
  <1>3. a.ptr = n.at + HEADER /\ a.size = size /\ a \in [ptr : Nat, size : Nat]
    BY <1>1 DEF Piece
  <1>a. size <= n.size
    OBVIOUS
  <1> HIDE DEF a, n
  <1>4. CASE b.ptr + b.size <= end
    <2>1. b.ptr + b.size <= a.ptr
      <3>1. end \in Nat /\ end <= malloc_start /\ b.ptr + b.size \in Nat
        BY <1>1
      <3>2. b.ptr + b.size <= n.at
        BY <1>1, <1>2, <1>4, <3>1
      <3>3. b.ptr + b.size <= n.at + HEADER
        BY <1>1, <3>1, <3>2
      <3>4. QED
        BY <1>3, <3>3
    <2>2. QED
      BY <1>3, <2>1 DEF Memory!Disjoint, a
  <1>5. CASE Held(b, nodes, k)
    <2>1. PICK j \in 1 .. k : LiesIn(b, nodes[j])
      BY <1>5 DEF Held
    <2>2. j # ix
      BY <2>1 DEF LiesIn
    <2>3. j \in 1 .. Len(nodes) /\ nodes[j].at \in Nat /\ nodes[j].size \in Nat
      <3>1. j \in 1 .. Len(nodes)
        BY StructureTypes DEF Structure
      <3>2. QED
        BY <3>1, StructureTypes
    <2>4. b.ptr = nodes[j].at + HEADER /\ b.size <= nodes[j].size
      BY <2>1 DEF LiesIn
    <2>5. CASE j < ix
      <3>1. EndOf(nodes[j]) <= n.at
        BY <2>5 DEF Structure, n
      <3>2. nodes[j].at + HEADER + nodes[j].size <= n.at
        BY <3>1 DEF EndOf
      <3>3. nodes[j].at + HEADER + b.size <= n.at + HEADER
        BY <1>1, <2>3, <2>4, <3>2, InOrder
      <3>4. b.ptr + b.size <= a.ptr
        BY <1>3, <2>4, <3>3
      <3>5. QED
        BY <1>3, <3>4 DEF Memory!Disjoint, a
    <2>6. CASE ix < j
      <3>1. EndOf(n) <= nodes[j].at
        BY <2>6 DEF Structure, n
      <3>2. n.at + HEADER + n.size <= nodes[j].at
        BY <3>1 DEF EndOf
      <3>3. n.at + HEADER + size <= nodes[j].at + HEADER
        BY <1>1, <1>a, <2>3, <3>2, InOrder
      <3>4. a.ptr + a.size <= b.ptr
        BY <1>3, <2>4, <3>3
      <3>5. QED
        BY <1>3, <3>4 DEF Memory!Disjoint, a
    <2>7. QED
      BY <1>1, <2>2, <2>3, <2>5, <2>6
  <1>6. QED
    BY <1>4, <1>5

-----------------------------------------------------------------------------
(* Each action keeps the invariant and is a step of the allocator.         *)
Step == HeapInv' /\ [Memory!AllocatorNext]_live

LEMMA TakeStep ==
    ASSUME HeapInv, NEW size \in Nat, size > 0, FirstFit(size) # 0,
           TakeNode(FirstFit(size), size), UNCHANGED spinning
    PROVE  Step
  <1> DEFINE ix == FirstFit(size)
             a == Piece(list[ix].at + HEADER, size)
             m == Taken(list, ix)
  <1>1. PICK k \in DOMAIN list :
          Structure(list, k) /\ \A b \in live : Held(b, list, k) \/ b.ptr + b.size <= heap_end
    BY DEF HeapInv
  <1>2. ix \in 1 .. Len(list) /\ list[ix].free /\ list[ix].size >= size + HEADER
    BY <1>1, StructureTypes, FirstFitFits DEF Fits
  <1> HIDE DEF ix
  <1>3. /\ ix \in 1 .. k /\ k \in 1 .. Len(list) /\ list[ix].size \in Nat /\ list[ix].at \in Nat /\ HEADER \in Nat
        /\ size <= list[ix].size
    <2>1. Len(list) \in Nat /\ k \in Nat /\ k \in 1 .. Len(list)
      BY <1>1, StructureTypes DEF Structure
    <2>2. ~(ix \in k + 1 .. Len(list))
      BY <1>1, <1>2 DEF Structure
    <2>3. list[ix].size \in Nat /\ list[ix].at \in Nat /\ HEADER \in Nat
      BY <1>1, <1>2, StructureTypes
    <2>4. ix \in 1 .. k
      BY <1>2, <2>1, <2>2
    <2>5. QED
      BY <1>2, <2>1, <2>3, <2>4
  <1> HIDE DEF m
  <1>4. /\ Structure(m, k) /\ merge_free_blocks(m) = m
        /\ m[ix].at = list[ix].at /\ m[ix].size = list[ix].size /\ ~m[ix].free
        /\ \A b : Held(b, list, k) => Held(b, m, k)
    <2>1. Structure(list, k) /\ ix \in 1 .. k /\ list[ix].free
      BY <1>1, <1>2, <1>3
    <2>2. m = Taken(list, ix)
      BY DEF m
    <2>3. QED
      BY <2>1, <2>2, TakeKeepsStructure
  <1>5. list' = m /\ live' = live \cup {a} /\ heap_end' = heap_end
    <2>1. list' = merge_free_blocks(m)
      BY DEF TakeNode, ix, m, Taken
    <2>2. live' = live \cup {a} /\ heap_end' = heap_end
      BY DEF TakeNode, ix
    <2>3. QED
      BY <1>4, <2>1, <2>2
  <1>6. heap_end \in 0 .. malloc_start /\ \A b \in live : b.ptr \in Nat /\ b.size \in Nat
    BY DEF HeapInv, TypeOK
  <1>7. a \in [ptr : Nat, size : Nat] /\ a.size = size /\ a.ptr = m[ix].at + HEADER
    BY <1>3, <1>4 DEF Piece
  <1> HIDE DEF a
  <1>8. \A b \in live : Memory!Disjoint(a, b)
    BY <1>1, <1>2, <1>3, <1>6, CutIsClear DEF a
  <1>9. Held(a, list', k)
    BY <1>2, <1>3, <1>4, <1>5, <1>7 DEF Held, LiesIn
  <1>10. heap_end' \in heap_end .. malloc_start /\ k \in 1 .. Len(list')
    BY <1>4, <1>5, <1>6, PageAssumption DEF Structure
  <1>11. \A b \in live : Held(b, list', k) \/ b.ptr + b.size <= heap_end
    BY <1>1, <1>4, <1>5
  <1>12. Structure(list', k) /\ a.size > 0
    BY <1>4, <1>5, <1>7
  <1>13. QED
    BY <1>5, <1>7, <1>8, <1>9, <1>10, <1>11, <1>12, HandOut DEF Step

LEMMA SplitStep ==
    ASSUME HeapInv, NEW size \in Nat, size > 0, FirstFit(size) # 0,
           SplitNode(FirstFit(size), size), UNCHANGED spinning
    PROVE  Step
  <1> DEFINE ix == FirstFit(size)
             parts == split_blocks(list[ix], size)
             a == Piece(list[ix].at + HEADER, size)
             m == Spliced(list, ix, parts)
  <1>1. PICK k \in DOMAIN list :
          Structure(list, k) /\ \A b \in live : Held(b, list, k) \/ b.ptr + b.size <= heap_end
    BY DEF HeapInv
  <1>2. ix \in 1 .. Len(list) /\ list[ix].free /\ list[ix].size >= size + HEADER
    BY <1>1, StructureTypes, FirstFitFits DEF Fits
  <1>3. /\ ix \in 1 .. k /\ k \in 1 .. Len(list) /\ list[ix].size \in Nat /\ list[ix].at \in Nat /\ HEADER \in Nat
        /\ k \in Nat
        /\ size <= list[ix].size /\ list[ix].size > size + HEADER
    <2>1. Len(list) \in Nat /\ k \in Nat /\ k \in 1 .. Len(list)
      BY <1>1, StructureTypes DEF Structure
    <2>2. ~(ix \in k + 1 .. Len(list))
      BY <1>1, <1>2 DEF Structure
    <2>3. list[ix].size \in Nat /\ list[ix].at \in Nat /\ HEADER \in Nat
      BY <1>1, <1>2, StructureTypes
    <2>4. list[ix].size # size + HEADER
      BY DEF SplitNode
    <2> HIDE DEF ix
    <2>5. ix \in 1 .. k
      BY <1>2, <2>1, <2>2
    <2>6. QED
      BY <1>2, <2>1, <2>3, <2>4, <2>5 DEF ix
  <1>4. /\ Structure(m, k + 1) /\ merge_free_blocks(m) = m
        /\ m[ix].at = list[ix].at /\ m[ix].size = size /\ ~m[ix].free
        /\ parts[1].address = list[ix].at + HEADER
        /\ \A b : Held(b, list, k) => Held(b, m, k + 1)
    BY <1>1, <1>2, <1>3, SplitKeepsStructure
  <1>5. list' = m /\ live' = live \cup {a} /\ heap_end' = heap_end
    BY <1>4 DEF SplitNode, Spliced
  <1> HIDE DEF ix, parts, m
  <1>6. heap_end \in 0 .. malloc_start /\ \A b \in live : b.ptr \in Nat /\ b.size \in Nat
    BY DEF HeapInv, TypeOK
  <1>7. a \in [ptr : Nat, size : Nat] /\ a.size = size /\ a.ptr = m[ix].at + HEADER
    BY <1>3, <1>4 DEF Piece
  <1> HIDE DEF a
  <1>8. \A b \in live : Memory!Disjoint(a, b)
    BY <1>1, <1>2, <1>3, <1>6, CutIsClear DEF a
  <1>9. Held(a, list', k + 1)
    <2>1. ix \in 1 .. k + 1
      BY <1>3
    <2>2. LiesIn(a, m[ix])
      BY <1>4, <1>7 DEF LiesIn
    <2>3. QED
      BY <1>5, <2>1, <2>2 DEF Held
  <1>10. heap_end' \in heap_end .. malloc_start /\ k + 1 \in 1 .. Len(list')
    BY <1>4, <1>5, <1>6, PageAssumption DEF Structure
  <1>11. \A b \in live : Held(b, list', k + 1) \/ b.ptr + b.size <= heap_end
    BY <1>1, <1>4, <1>5
  <1>12. Structure(list', k + 1) /\ a.size > 0
    BY <1>4, <1>5, <1>7
  <1>13. QED
    BY <1>5, <1>7, <1>8, <1>9, <1>10, <1>11, <1>12, HandOut DEF Step

LEMMA MorePagesStep ==
    ASSUME HeapInv, NEW size \in Nat, size > 0, malloc_more_pages(size), UNCHANGED spinning
    PROVE  Step
  <1> DEFINE bytes == PagesFor(size) * PAGE_SIZE
             a == Piece(heap_end, size)
             n == Node(heap_end, bytes - HEADER, FALSE, heap_end)
             m == Append(list, n)
  <1>1. PICK k \in DOMAIN list :
          Structure(list, k) /\ \A b \in live : Held(b, list, k) \/ b.ptr + b.size <= heap_end
    BY DEF HeapInv
  <1>2. bytes \in Nat /\ size <= bytes /\ PAGE_SIZE <= bytes
    BY PagesBounds
  <1>3. /\ heap_end + bytes <= malloc_start /\ heap_end' = heap_end + bytes
        /\ list' = merge_free_blocks(m) /\ live' = live \cup {a}
    BY DEF malloc_more_pages
  <1> HIDE DEF bytes
  <1>4. /\ HEADER \in Nat /\ HEADER < PAGE_SIZE /\ PAGE_SIZE \in Nat /\ malloc_start \in Nat
        /\ heap_end \in Nat /\ heap_end <= malloc_start
        /\ \A b \in live : b.ptr \in Nat /\ b.size \in Nat
    BY PageAssumption, TableAssumption DEF HeapInv, TypeOK
  <1>5. n \in NodeType /\ ~n.free /\ EndOf(n) <= malloc_start
    <2> DEFINE s == bytes - HEADER
    <2>1. s \in Nat /\ s = bytes - HEADER
      BY <1>2, <1>4
    <2>2. n = Node(heap_end, s, FALSE, heap_end)
      OBVIOUS
    <2> HIDE DEF s, n
    <2>3. n \in NodeType /\ n.free = FALSE /\ n.at = heap_end /\ n.size = s
      BY <1>4, <2>1, <2>2 DEF Node, NodeType
    <2>4. QED
      BY <1>2, <1>3, <1>4, <2>1, <2>3 DEF EndOf
  <1> HIDE DEF n
  <1>6. Structure(m, k) /\ merge_free_blocks(m) = m /\ \A b : Held(b, list, k) => Held(b, m, k)
    BY <1>1, <1>5, AppendKeepsStructure
  <1>7. a \in [ptr : Nat, size : Nat] /\ a.size = size /\ a.ptr = heap_end
    BY <1>4 DEF Piece
  <1> HIDE DEF a, m
  <1>8. \A b \in live : Memory!Disjoint(a, b)
    <2>1. TAKE b \in live
    <2>2. CASE b.ptr + b.size <= heap_end
      BY <1>7, <2>2 DEF Memory!Disjoint
    <2>3. CASE Held(b, list, k)
      <3>1. PICK j \in 1 .. k : LiesIn(b, list[j])
        BY <2>3 DEF Held
      <3>2. list[j].at \in Nat /\ malloc_start <= list[j].at
        BY <1>1, StructureTypes, PageNodesInPage DEF Structure
      <3>3. b.ptr = list[j].at + HEADER
        BY <3>1 DEF LiesIn
      <3>4. a.ptr + a.size <= b.ptr
        BY <1>2, <1>3, <1>4, <1>7, <3>2, <3>3
      <3>5. QED
        BY <3>4 DEF Memory!Disjoint
    <2>4. QED
      BY <1>1, <2>2, <2>3
  <1>9. a.ptr + a.size <= heap_end'
    BY <1>2, <1>3, <1>4, <1>7
  <1>10. heap_end' \in heap_end .. malloc_start /\ k \in 1 .. Len(list')
    BY <1>2, <1>3, <1>4, <1>6 DEF Structure
  <1>11. \A b \in live : Held(b, list', k) \/ b.ptr + b.size <= heap_end
    BY <1>1, <1>3, <1>6
  <1>12. Structure(list', k) /\ a.size > 0 /\ live' = live \cup {a}
    BY <1>3, <1>6, <1>7
  <1>13. QED
    BY <1>7, <1>8, <1>9, <1>10, <1>11, <1>12, HandOut DEF Step

LEMMA NothingStep ==
    ASSUME HeapInv, sys_malloc(0)
    PROVE  Step
  <1>1. list' = merge_free_blocks(list) /\ UNCHANGED <<heap_end, live, spinning>>
    BY DEF sys_malloc
  <1>2. PICK k \in DOMAIN list :
          Structure(list, k) /\ \A b \in live : Held(b, list, k) \/ b.ptr + b.size <= heap_end
    BY DEF HeapInv
  <1>3. list' = list
    BY <1>1, <1>2, MergeChangesNothing DEF Structure
  <1>4. HeapInv'
    <2>1. TypeOK'
      BY <1>1, <1>3 DEF HeapInv, TypeOK
    <2>2. QED
      BY <1>1, <1>2, <1>3, <2>1 DEF HeapInv
  <1>5. QED
    BY <1>1, <1>4 DEF Step

(* Whichever piece is freed, no other one is: pieces start at addresses of *)
(* their own.                                                              *)
LEMMA FreeStep ==
    ASSUME HeapInv, ~spinning, NEW a \in live, sys_free(a.ptr)
    PROVE  Step
  <1>1. PICK k \in DOMAIN list :
          Structure(list, k) /\ \A b \in live : Held(b, list, k) \/ b.ptr + b.size <= heap_end
    BY DEF HeapInv
  <1>2. /\ \A b \in live : b.ptr \in Nat /\ b.size \in Nat /\ b.size > 0
        /\ \A b, c \in live : b # c => Memory!Disjoint(b, c)
        /\ live \subseteq [ptr : Nat, size : Nat] /\ spinning \in BOOLEAN
        /\ heap_end \in 0 .. malloc_start
    BY DEF HeapInv, TypeOK
  <1>3. {b \in live : b.ptr # a.ptr} = live \ {a}
    <2>1. ASSUME NEW b \in live, b # a PROVE b.ptr # a.ptr
      <3>1. Memory!Disjoint(b, a)
        BY <1>2, <2>1
      <3>2. b.ptr + b.size <= a.ptr \/ a.ptr + a.size <= b.ptr
        BY <3>1 DEF Memory!Disjoint
      <3>3. a.ptr \in Nat /\ a.size \in Nat /\ a.size > 0 /\ b.ptr \in Nat /\ b.size \in Nat /\ b.size > 0
        BY <1>2
      <3>4. QED
        BY <3>2, <3>3
    <2>2. QED
      BY <2>1
  <1>4. heap_end' = heap_end /\ (live' = live \/ live' = live \ {a})
    BY <1>3 DEF sys_free
  <1>5. [Memory!AllocatorNext]_live
    BY <1>4 DEF Memory!AllocatorNext, Memory!Free
  <1>6. spinning' \in BOOLEAN
    BY <1>2 DEF sys_free
  (* What is left of the invariant once the new list is known.             *)
  <1>7. ASSUME NEW l \in 1 .. Len(list'), Structure(list', l),
               \A b \in live' : Held(b, list, k) => Held(b, list', l)
        PROVE  HeapInv'
    <2>1. list' \in Seq(NodeType) /\ l \in DOMAIN list'
      BY <1>7, StructureTypes DEF Structure
    <2>2. TypeOK'
      BY <1>2, <1>4, <1>6, <2>1 DEF TypeOK, NodeType
    <2>3. \A b \in live' : Held(b, list', l) \/ b.ptr + b.size <= heap_end'
      BY <1>1, <1>4, <1>7
    <2>4. /\ \A b \in live' : b.size > 0
          /\ \A b, c \in live' : b # c => Memory!Disjoint(b, c)
      BY <1>2, <1>4
    <2>5. QED
      BY <1>7, <2>1, <2>2, <2>3, <2>4 DEF HeapInv
  <1>8. k \in 1 .. Len(list) /\ list[1].address = malloc_start + HEADER
    BY <1>1 DEF Structure
  <1>9. CASE list' = list
    BY <1>1, <1>5, <1>7, <1>8, <1>9 DEF Step
  <1>10. CASE list' # list
    <2>1. /\ list[1].address = a.ptr /\ list' = merge_free_blocks([list EXCEPT ![1].free = TRUE])
          /\ spinning' = spinning /\ live' = IF spinning' THEN live ELSE live \ {a}
      BY <1>3, <1>10 DEF sys_free
    <2>2. \A b \in live' : b \in live /\ b.ptr # malloc_start + HEADER
      <3>1. live' = {b \in live : b.ptr # a.ptr}
        BY <1>10, <2>1 DEF sys_free
      <3>2. QED
        BY <1>8, <2>1, <3>1
    <2>3. list' = merge_free_blocks(Freed(list))
      BY <2>1 DEF Freed
    <2>4. CASE SecondIsFree(list)
      <3>1. /\ Structure(Joined(Freed(list)), k - 1)
            /\ merge_free_blocks(Freed(list)) = Joined(Freed(list))
            /\ \A b : Held(b, list, k) /\ b.ptr # malloc_start + HEADER => Held(b, Joined(Freed(list)), k - 1)
        BY <1>1, <2>4, JoinKeepsStructure
      <3>2. k - 1 \in 1 .. Len(list') /\ Structure(list', k - 1)
        BY <2>3, <3>1 DEF Structure
      <3>3. \A b \in live' : Held(b, list, k) => Held(b, list', k - 1)
        BY <2>2, <2>3, <3>1
      <3>4. QED
        BY <1>5, <1>7, <3>2, <3>3 DEF Step
    <2>5. CASE ~SecondIsFree(list)
      <3>1. /\ Structure(Freed(list), k)
            /\ merge_free_blocks(Freed(list)) = Freed(list)
            /\ \A b : Held(b, list, k) /\ b.ptr # malloc_start + HEADER => Held(b, Freed(list), k)
        BY <1>1, <2>5, FreeKeepsStructure
      <3>2. k \in 1 .. Len(list') /\ Structure(list', k)
        BY <2>3, <3>1 DEF Structure
      <3>3. \A b \in live' : Held(b, list, k) => Held(b, list', k)
        BY <2>2, <2>3, <3>1
      <3>4. QED
        BY <1>5, <1>7, <3>2, <3>3 DEF Step
    <2>6. QED
      BY <2>4, <2>5
  <1>11. QED
    BY <1>9, <1>10

LEMMA NextStep == HeapInv /\ [Next]_vars => Step
  <1> SUFFICES ASSUME HeapInv, [Next]_vars PROVE Step
    OBVIOUS
  <1>1. CASE UNCHANGED vars
    <2>1. UNCHANGED <<list, heap_end, live, spinning>>
      BY <1>1 DEF vars
    <2>2. HeapInv'
      BY <2>1 DEF HeapInv, TypeOK
    <2>3. QED
      BY <2>1, <2>2 DEF Step
  <1>2. ASSUME NEW size \in Sizes, sys_malloc(size) PROVE Step
    <2>1. size \in Nat /\ UNCHANGED spinning
      BY <1>2, RequestAssumption DEF sys_malloc
    <2>2. CASE size = 0
      BY <1>2, <2>2, NothingStep
    <2>3. CASE size # 0 /\ FirstFit(size) # 0
      <3>1. size > 0 /\ (TakeNode(FirstFit(size), size) \/ SplitNode(FirstFit(size), size))
        BY <1>2, <2>1, <2>3 DEF sys_malloc
      <3>2. QED
        BY <2>1, <2>3, <3>1, TakeStep, SplitStep
    <2>4. CASE size # 0 /\ FirstFit(size) = 0
      <3>1. size > 0 /\ malloc_more_pages(size)
        BY <1>2, <2>1, <2>4 DEF sys_malloc
      <3>2. QED
        BY <2>1, <3>1, MorePagesStep
    <2>5. QED
      BY <2>2, <2>3, <2>4
  <1>3. ASSUME ~spinning, NEW a \in live, sys_free(a.ptr) PROVE Step
    BY <1>3, FreeStep
  <1>4. QED
    BY <1>1, <1>2, <1>3 DEF Next

LEMMA AlwaysInv == Spec => []HeapInv
  <1>1. HeapInv /\ [Next]_vars => HeapInv'
    BY NextStep DEF Step
  <1>2. QED
    BY InitInv, <1>1, PTL DEF Spec

(* The nodes tile their page and no piece covers a header, whatever the    *)
(* sizes of the page, of a header and of the requests are.                 *)
THEOREM NodesAlwaysTile == Spec => []NodesTileThePage
  <1>1. HeapInv => NodesTileThePage
    BY InvariantSuffices
  <1>2. QED
    BY AlwaysInv, <1>1, PTL

(* Every byte handed out is mapped.                                        *)
THEOREM PiecesAlwaysMapped == Spec => []PiecesAreMapped
  <1>1. HeapInv => PiecesAreMapped
    BY InvariantSuffices
  <1>2. QED
    BY AlwaysInv, <1>1, PTL

(* The heap is an allocator: each call hands out memory that overlaps none *)
(* in use, takes back one piece, or changes nothing a caller can see.      *)
THEOREM HeapIsAllocator == Spec => ImplementsAllocator
  <1>1. Init => Memory!AllocatorInit
    BY DEF Init, Memory!AllocatorInit
  <1>2. HeapInv /\ [Next]_vars => [Memory!AllocatorNext]_live
    BY NextStep DEF Step
  <1>3. QED
    BY AlwaysInv, <1>1, <1>2, PTL DEF Spec, ImplementsAllocator, Memory!AllocatorSpec
=============================================================================
