-------------------------------- MODULE Heap --------------------------------
(***************************************************************************)
(* The heap behind sys_malloc and sys_free (kernel/memory/malloc.c): one   *)
(* page that init_malloc (kernel/kernel.c) maps at malloc_start, cut into  *)
(* nodes that head the memory they describe, and pages that                *)
(* malloc_more_pages maps at heap_end.  Both calls run with interrupts     *)
(* disabled.                                                               *)
(*                                                                         *)
(* The list of nodes is a sequence, so that next is the next element; prev *)
(* is never read.  Left out: frames and page tables (FramePool), malloc_   *)
(* init, which nobody reaches since malloc_head is set, and what callers   *)
(* write into their memory.                                                *)
(***************************************************************************)
EXTENDS Integers, Sequences, SequencesExt

CONSTANTS
    PAGE_SIZE, HEADER,   \* 4096 and sizeof(malloc_node_t), 20
    malloc_start,        \* 0x400000
    FileTable,           \* the sizes of the two tables that main allocates:
    InodeTable,          \* 3840 and 16384
    Sizes                \* the sizes callers ask for

ASSUME PageAssumption ==
    /\ PAGE_SIZE \in Nat \ {0} /\ HEADER \in Nat \ {0}
    /\ malloc_start \in Nat /\ malloc_start % PAGE_SIZE = 0
ASSUME TableAssumption ==
    /\ FileTable \in Nat \ {0} /\ InodeTable \in Nat \ {0}
    /\ FileTable + 2 * HEADER < PAGE_SIZE
    /\ InodeTable + FileTable + 3 * HEADER > PAGE_SIZE /\ InodeTable <= malloc_start
ASSUME RequestAssumption == Sizes \subseteq Nat    \* far below 2^32

VARIABLES
    list,        \* the nodes from malloc_head on
    heap_end,    \* where the next pages are mapped
    live,        \* history: what callers have been given and not freed
    spinning     \* whether malloc_free goes round for ever

vars == <<list, heap_end, live, spinning>>

Node(at, size, free, address) == [at |-> at, size |-> size, free |-> free, address |-> address]
Piece(ptr, size) == [ptr |-> ptr, size |-> size]

PagesWithoutRest(size) == size \div PAGE_SIZE
PagesFor(size) == (size + PAGE_SIZE - 1) \div PAGE_SIZE
-----------------------------------------------------------------------------
(* split_blocks: the front of the node is handed out, the rest is a node   *)
(* of its own behind it.                                                   *)
SplitForgettingHeader(n, size) ==
    <<Node(n.at, size, FALSE, n.at + HEADER),
      Node(n.at + HEADER + size, n.size - size, TRUE, n.at + 2 * HEADER + size)>>

split_blocks(n, size) ==
    <<Node(n.at, size, FALSE, n.at + HEADER),
      Node(n.at + HEADER + size, n.size - size - HEADER, TRUE, n.at + 2 * HEADER + size)>>

(* One pass over the list; a node that has just taken in the next one is   *)
(* not compared with the one after it.                                     *)
Merge(done, n) ==
    IF done.again /\ Last(done.nodes).free /\ n.free
    THEN [nodes |-> [done.nodes EXCEPT ![Len(done.nodes)].size = @ + n.size + HEADER], again |-> FALSE]
    ELSE [nodes |-> Append(done.nodes, n), again |-> TRUE]
merge_free_blocks(nodes) ==
    LET merged[k \in 0 .. Len(nodes)] ==
            IF k = 0 THEN [nodes |-> <<>>, again |-> FALSE] ELSE Merge(merged[k - 1], nodes[k])
    IN  merged[Len(nodes)].nodes

(* After init_malloc and the two calls of main: the file table is cut off  *)
(* the page; the inode table does not fit, and heap_end is still 0, so its *)
(* node lies at address 0, which ends the list.                            *)
Init ==
    /\ list = split_blocks(Node(malloc_start, PAGE_SIZE - HEADER, TRUE, 0), FileTable)
    /\ heap_end = PagesFor(InodeTable) * PAGE_SIZE
    /\ live = {Piece(malloc_start + HEADER, FileTable), Piece(0, InodeTable)}
    /\ spinning = FALSE

Fits(n, size) == n.free /\ n.size >= size + HEADER

(* The index of the first node that fits, 0 if there is none.              *)
FirstFit(size) == SelectInSeq(list, LAMBDA n : Fits(n, size))

TakeNode(i, size) ==
    /\ list[i].size = size + HEADER
    /\ list' = merge_free_blocks([list EXCEPT ![i].free = FALSE])
    /\ live' = live \cup {Piece(list[i].at + HEADER, size)}
    /\ UNCHANGED heap_end

SplitNode(i, size) ==
    /\ list[i].size # size + HEADER
    /\ LET parts == split_blocks(list[i], size)
       IN  /\ list' = merge_free_blocks(SubSeq(list, 1, i - 1) \o parts \o SubSeq(list, i + 1, Len(list)))
           /\ live' = live \cup {Piece(parts[1].address, size)}
    /\ UNCHANGED heap_end

more_pages_in_place(size) ==
    LET bytes == PagesFor(size) * PAGE_SIZE
    IN  /\ heap_end + bytes <= malloc_start
        /\ list' = merge_free_blocks(Append(list, Node(heap_end, bytes - HEADER, FALSE, heap_end)))
        /\ live' = live \cup {Piece(heap_end, size)}
        /\ UNCHANGED heap_end

(* The new node is returned itself, not the memory behind it.  malloc_next *)
(* looks for it in order to split it, everywhere but at the end of the     *)
(* list, where it is.                                                      *)
malloc_more_pages(size) ==
    LET bytes == PagesFor(size) * PAGE_SIZE
    IN  /\ heap_end + bytes <= malloc_start    \* bound: the space below the heap
        /\ heap_end' = heap_end + bytes
        /\ list' = merge_free_blocks(Append(list, Node(heap_end, bytes - HEADER, FALSE, heap_end)))
        /\ live' = live \cup {Piece(heap_end, size)}

sys_malloc(size) ==
    /\ IF size = 0 THEN list' = merge_free_blocks(list) /\ UNCHANGED <<heap_end, live>>
       ELSE IF FirstFit(size) # 0 THEN TakeNode(FirstFit(size), size) \/ SplitNode(FirstFit(size), size)
       ELSE malloc_more_pages(size)
    /\ UNCHANGED spinning

(* The loop of malloc_free looks at the first node again and again; it is  *)
(* not entered if there is no second one.  main never frees the tables,    *)
(* but theirs is the only free that can return.                            *)
sys_free(ptr) ==
    /\ IF Len(list) = 1 THEN UNCHANGED <<list, spinning>>
       ELSE IF list[1].address = ptr
       THEN list' = merge_free_blocks([list EXCEPT ![1].free = TRUE]) /\ UNCHANGED spinning
       ELSE spinning' = TRUE /\ UNCHANGED list
    /\ live' = IF spinning' THEN live ELSE {a \in live : a.ptr # ptr}
    /\ UNCHANGED heap_end

Next ==
    /\ ~spinning
    /\ \/ \E size \in Sizes : sys_malloc(size)
       \/ \E a \in live : sys_free(a.ptr)

Spec == Init /\ [][Next]_vars
-----------------------------------------------------------------------------
TypeOK ==
    /\ list \in Seq([at : Nat, size : Nat, free : BOOLEAN, address : Nat])
    /\ heap_end \in 0 .. malloc_start
    /\ live \subseteq [ptr : Nat, size : Nat]
    /\ spinning \in BOOLEAN

PageEnd == malloc_start + PAGE_SIZE
EndOf(n) == n.at + HEADER + n.size

(* The first k nodes follow one another without gap or overlap and fill    *)
(* the first page; those behind them lie below it.                         *)
Tile(nodes, k) ==
    /\ nodes[1].at = malloc_start
    /\ \A i \in 1 .. k - 1 : nodes[i + 1].at = EndOf(nodes[i])
    /\ EndOf(nodes[k]) = PageEnd
    /\ \A i \in k + 1 .. Len(nodes) : EndOf(nodes[i]) <= malloc_start

(* No split and no merge loses or doubles a byte of the first page.  A     *)
(* caller that fills its memory changes none of the headers there.         *)
NodesTileThePage ==
    /\ TypeOK
    /\ \E k \in DOMAIN list :
         /\ Tile(list, k)
         /\ \A i \in 1 .. k, a \in live : a.ptr + a.size <= list[i].at \/ list[i].at + HEADER <= a.ptr

(* Every byte handed out is mapped: in the first page or below heap_end.   *)
PiecesAreMapped ==
    \A a \in live : \/ malloc_start <= a.ptr /\ a.ptr + a.size <= PageEnd
                    \/ a.ptr + a.size <= heap_end

(* Memory handed out overlaps no memory in use: Allocator.                 *)
Memory == INSTANCE Allocator WITH Initial <- {Piece(malloc_start + HEADER, FileTable), Piece(0, InodeTable)}
ImplementsAllocator == Memory!AllocatorSpec
=============================================================================
