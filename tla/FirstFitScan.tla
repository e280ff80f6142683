---------------------------- MODULE FirstFitScan ----------------------------
(***************************************************************************)
(* The loop of find_free_blocks, one action per branch of its body.  It    *)
(* looks at one bit at a time but skips the rest of a word whose bits are  *)
(* all 1, and counts the free bits it has just seen.                       *)
(***************************************************************************)
EXTENDS PhysMem

CONSTANTS
    WordBits,     \* bits in an element of memory_map; 32 in the code
    PadSet        \* the bits of the last word past max_blocks, which nobody
                  \* initialises: TRUE when they happen to be 1

ASSUME WordBitsAssumption == WordBits \in Nat \ {0}
ASSUME PadSetAssumption == PadSet \in BOOLEAN

VARIABLES
    num_blocks,   \* the argument
    i,            \* the bit under inspection
    count,        \* free bits in a row just before i
    ret,          \* the value returned
    stage         \* "enter", "scan" or "done"

scanVars == <<memory_map, used_blocks, num_blocks, i, count, ret, stage>>

NoReturn == -2

(* The first bit of the word after the one that holds bit b.               *)
NextWord(b) == (b \div WordBits + 1) * WordBits

WordOf(b) == NextWord(b) - WordBits .. NextWord(b) - 1

(* holder == 0xFFFFFFFF                                                    *)
WordFull(b) == \A x \in WordOf(b) : IF x \in Blocks THEN x \in memory_map ELSE PadSet

ScanInit ==
    /\ memory_map \in SUBSET Blocks
    /\ used_blocks = Cardinality(memory_map)
    /\ num_blocks \in 0 .. max_blocks + 1
    /\ i = 0
    /\ count = 0
    /\ ret = NoReturn
    /\ stage = "enter"

Unmodified == UNCHANGED <<memory_map, used_blocks, num_blocks>>

Return(r) == ret' = r /\ stage' = "done"

(* A request for no block is refused before the loop.                      *)
RefuseZero ==
    /\ stage = "enter"
    /\ num_blocks = 0
    /\ Return(-1)
    /\ UNCHANGED <<i, count>> /\ Unmodified

EnterLoop ==
    /\ stage = "enter"
    /\ num_blocks > 0
    /\ stage' = "scan"
    /\ UNCHANGED <<i, count, ret>> /\ Unmodified

InLoop == stage = "scan" /\ i < max_blocks

SkipKeepingCount ==
    /\ InLoop
    /\ WordFull(i)
    /\ i' = NextWord(i)
    /\ UNCHANGED <<count, ret, stage>> /\ Unmodified

SkipToOwnWord ==
    /\ InLoop
    /\ WordFull(i)
    /\ count' = 0
    /\ i' = (i \div WordBits) * WordBits
    /\ UNCHANGED <<ret, stage>> /\ Unmodified

SkipFullWord ==
    /\ InLoop
    /\ WordFull(i)
    /\ count' = 0
    /\ i' = NextWord(i)
    /\ UNCHANGED <<ret, stage>> /\ Unmodified

ReturnBitBefore ==
    /\ InLoop
    /\ ~WordFull(i)
    /\ i \notin memory_map
    /\ count' = count + 1
    /\ IF count' = num_blocks
       THEN Return(i - num_blocks) /\ UNCHANGED i
       ELSE i' = i + 1 /\ UNCHANGED <<ret, stage>>
    /\ Unmodified

CountFreeBit ==
    /\ InLoop
    /\ ~WordFull(i)
    /\ i \notin memory_map
    /\ count' = count + 1
    /\ IF count' = num_blocks
       THEN Return(i - num_blocks + 1) /\ UNCHANGED i
       ELSE i' = i + 1 /\ UNCHANGED <<ret, stage>>
    /\ Unmodified

PassUsedBit ==
    /\ InLoop
    /\ ~WordFull(i)
    /\ i \in memory_map
    /\ count' = 0
    /\ i' = i + 1
    /\ UNCHANGED <<ret, stage>> /\ Unmodified

GiveUp ==
    /\ stage = "scan"
    /\ i >= max_blocks
    /\ Return(-1)
    /\ UNCHANGED <<i, count>> /\ Unmodified

ScanNext == RefuseZero \/ EnterLoop \/ SkipFullWord \/ CountFreeBit \/ PassUsedBit \/ GiveUp

ScanSpec == ScanInit /\ [][ScanNext]_scanVars

(* The loop is straight-line code that nothing blocks.                     *)
FairScanSpec == ScanSpec /\ WF_scanVars(ScanNext)
-----------------------------------------------------------------------------
ScanTypeOK ==
    /\ memory_map \in SUBSET Blocks
    /\ used_blocks \in Nat
    /\ num_blocks \in Nat
    /\ i \in Nat
    /\ count \in Nat
    /\ ret \in -2 .. max_blocks
    /\ stage \in {"enter", "scan", "done"}

(* While it scans, the loop has seen no free run that is long enough, and  *)
(* count is the length of the longest free run that ends just before i.    *)
ScanInv ==
    /\ stage = "enter" => i = 0 /\ count = 0 /\ ret = NoReturn
    /\ stage = "scan" =>
        /\ ret = NoReturn
        /\ count < num_blocks
        /\ count <= i
        /\ count > 0 => i <= max_blocks
        /\ \A x \in i - count .. i - 1 : x \notin memory_map
        /\ i - count - 1 \in Blocks => i - count - 1 \in memory_map
        /\ \A b \in Blocks : b + num_blocks <= i => ~FreeRun(memory_map, b, num_blocks)

(* find_free_blocks returns the lowest run of num_blocks free blocks, and  *)
(* -1 only when there is none: skipping whole words and restarting the     *)
(* count at every used bit lose no run.                                    *)
ResultIsFirstFit == stage = "done" => find_free_blocks(memory_map, num_blocks, ret)

(* The search always returns: a skip never sends i backwards.              *)
SearchReturns == <>(stage = "done")

(* The loop implements the one-step search of FindFree.                    *)
Abstract == INSTANCE FindFree WITH returned <- stage = "done"
ImplementsFindFree == Abstract!FindSpec
=============================================================================
