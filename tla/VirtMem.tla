------------------------------ MODULE VirtMem -------------------------------
(***************************************************************************)
(* The page directory, the page tables and the translations the processor  *)
(* has cached (kernel/memory/virtual_memory_manager.c), as the clients of  *)
(* map_address use them: sys_open and sys_close, exec, the heap's growth   *)
(* and page_fault_handler.                                                 *)
(*                                                                         *)
(* The kernel reaches a page table through the virtual address that equals *)
(* its physical one, so that the stores of map_address and the memset of   *)
(* create_page_table are themselves translated and may fault.  todo is the *)
(* machine's stack of what remains to be done, one access or call each: a  *)
(* fault puts page_fault_handler before the access, which is then retried. *)
(*                                                                         *)
(* Frames and pages are numbers; page v is entry v % ENTRIES of the table  *)
(* of directory entry v \div ENTRIES.  All memory lies behind the first    *)
(* directory entry, the one initialize_vmm maps to itself; what lies from  *)
(* HoleStart on the prekernel has unmapped again.                          *)
(***************************************************************************)
EXTENDS Integers, Sequences, FiniteSets

CONSTANTS
    ENTRIES,      \* entries of a table: 1024 in the code
    Dirs,         \* the directory entries
    LowestFree,   \* the frames below it are reserved: 0x12 in the code
    HoleStart,    \* the first page unmapped by the prekernel: 0x100
    RamTop,       \* the end of memory, in frames
    Dirty,        \* frames that hold the loader's leftovers
    FilePages,    \* the pages from 0x40000000 on
    StackPage,    \* the page exec maps at user_stack
    UserPages     \* pages a program touches without anyone having mapped them

Pages == 0 .. ENTRIES * Cardinality(Dirs) - 1
Frames == 0 .. ENTRIES - 1
Clients == FilePages \cup {StackPage} \cup UserPages

ASSUME SizeAssumption ==
    /\ ENTRIES \in Nat \ {0} /\ Dirs = 0 .. Cardinality(Dirs) - 1
    /\ IsFiniteSet(Dirs)
    /\ HoleStart \in Nat /\ RamTop \in Nat
    /\ LowestFree \in 2 .. HoleStart /\ HoleStart <= RamTop /\ RamTop < ENTRIES
    /\ Dirty \subseteq 0 .. HoleStart - 1
ASSUME ClientAssumption ==
    /\ Clients \subseteq {v \in Pages : v >= ENTRIES}
    /\ FilePages # {} /\ StackPage \notin FilePages \cup UserPages
    /\ FilePages \cap UserPages = {}

VARIABLES
    pd,          \* the frame of each table, or Absent
    mem,         \* the entries in each frame, should it be used as a table
    tlb,         \* the frame the processor has cached for a page, or Absent
    next,        \* the lowest free frame: none of them becomes free again
    file_page,   \* file_virtual_address
    heap_page,   \* heap_end, which is 0 at the first growth
    todo,        \* the stack of what is left to do
    mapped,      \* history: the frame last mapped for a client's page
    ranDry       \* history: an allocation has failed

vars == <<pd, mem, tlb, next, file_page, heap_page, todo, mapped, ranDry>>

Absent == -1
Dir(v) == v \div ENTRIES
Index(v) == v % ENTRIES

IdentityTable == LowestFree - 1    \* the frame of table2
Leftover == [x \in 0 .. ENTRIES - 1 |-> 0]
Empty == [x \in 0 .. ENTRIES - 1 |-> Absent]

(* After initialize_vmm and the prekernel's unmapping.                     *)
Init ==
    /\ pd = [d \in Dirs |-> IF d = 0 THEN IdentityTable ELSE Absent]
    /\ mem = [f \in Frames |->
                IF f = IdentityTable
                THEN [x \in 0 .. ENTRIES - 1 |-> IF x < HoleStart THEN x ELSE Absent]
                ELSE IF f \in Dirty THEN Leftover ELSE Empty]
    /\ tlb = [v \in Pages |-> Absent]
    /\ next = LowestFree
    /\ file_page \in FilePages /\ \A v \in FilePages : file_page <= v
    /\ heap_page = 0
    /\ todo = <<>>
    /\ mapped = [v \in Clients |-> Absent]
    /\ ranDry = FALSE
-----------------------------------------------------------------------------
(* The processor.                                                          *)

Walk(v) == IF pd[Dir(v)] = Absent THEN Absent ELSE mem[pd[Dir(v)]][Index(v)]
Translate(v) == IF tlb[v] # Absent THEN tlb[v] ELSE Walk(v)

(* It may drop any cached translation at any time.  Dropping one that      *)
(* agrees with the tables shows only if it would be stale later, so that   *)
(* it is enough to drop it then.                                           *)
Evict(v) ==
    /\ tlb[v] \notin {Absent, Walk(v)}
    /\ tlb' = [tlb EXCEPT ![v] = Absent]
    /\ UNCHANGED <<pd, mem, next, file_page, heap_page, todo, mapped, ranDry>>

Doing(op) == todo # <<>> /\ Head(todo).op = op
Map(f, v) == [op |-> "map", frame |-> f, page |-> v]
Store(f, v) == [op |-> "store", frame |-> f, page |-> v]
On(op, v) == [op |-> op, frame |-> Absent, page |-> v]

(* An access to page v that stores contents(g) into the frame g behind it, *)
(* or the page fault that comes first.                                     *)
Access(v, contents(_)) ==
    IF Translate(v) = Absent
    THEN /\ todo' = <<On("handle_fault", v)>> \o todo
         /\ UNCHANGED <<mem, tlb>>
    ELSE /\ tlb' = [tlb EXCEPT ![v] = Translate(v)]
         /\ mem' = [mem EXCEPT ![Translate(v)] = contents(Translate(v))]
         /\ todo' = Tail(todo)

Unaltered(g) == mem[g]

(* A load or store of the shell, of load_file or of a program.             *)
Touch ==
    /\ Doing("touch")
    /\ Access(Head(todo).page, Unaltered)
    /\ UNCHANGED <<pd, next, file_page, heap_page, mapped, ranDry>>

(* The lowest frame that is free; 0 and no frame when there is none.       *)
allocate_blocks(f, n) ==
    IF next + n <= RamTop
    THEN f = next /\ next' = next + n /\ UNCHANGED ranDry
    ELSE f = 0 /\ UNCHANGED next /\ ranDry' = TRUE
-----------------------------------------------------------------------------
(* map_address and create_page_table.                                      *)

(* The entry is in the directory before the table is cleared and before    *)
(* it can be reached at its own address.                                   *)
map_address ==
    /\ Doing("map")
    /\ LET v == Head(todo).page  f == Head(todo).frame IN
       IF pd[Dir(v)] # Absent
       THEN /\ todo' = <<Store(f, v)>> \o Tail(todo)
            /\ UNCHANGED <<pd, next, ranDry>>
       ELSE \E t \in Frames :
            /\ allocate_blocks(t, 1)
            /\ IF t = 0 THEN todo' = Tail(todo) /\ UNCHANGED pd
               ELSE /\ pd' = [pd EXCEPT ![Dir(v)] = t]
                    /\ todo' = <<On("clear", t), On("clear_tail", t + 1),
                                 Map(t, t), Store(f, v)>> \o Tail(todo)
    /\ UNCHANGED <<mem, tlb, file_page, heap_page, mapped>>

ClearNothing ==
    /\ Doing("clear")
    /\ Access(Head(todo).page, Unaltered)
    /\ UNCHANGED <<pd, next, file_page, heap_page, mapped, ranDry>>

(* memset starts at the entry of the directory, which is the table's       *)
(* address plus the flags, 7: entry 0 and the low three bytes of entry 1   *)
(* keep what they held, and as much of the page behind the table is wiped. *)
Clear ==
    /\ Doing("clear")
    /\ Access(Head(todo).page, LAMBDA g : [x \in 0 .. ENTRIES - 1 |-> IF x <= 1 THEN mem[g][x] ELSE Absent])
    /\ UNCHANGED <<pd, next, file_page, heap_page, mapped, ranDry>>

ClearTail ==
    /\ Doing("clear_tail")
    /\ Access(Head(todo).page, LAMBDA g : [mem[g] EXCEPT ![0] = Absent, ![1] = Absent])
    /\ UNCHANGED <<pd, next, file_page, heap_page, mapped, ranDry>>

StoreAtFrameIndex ==
    /\ Doing("store")
    /\ LET v == Head(todo).page  f == Head(todo).frame IN
       Access(pd[Dir(v)], LAMBDA g : [mem[g] EXCEPT ![Index(f)] = f])
    /\ UNCHANGED <<pd, next, file_page, heap_page, mapped, ranDry>>

(* The store of the entry, through the table's own address.                *)
StoreEntry ==
    /\ Doing("store")
    /\ LET v == Head(todo).page  f == Head(todo).frame IN
       Access(pd[Dir(v)], LAMBDA g : [mem[g] EXCEPT ![Index(v)] = f])
    /\ UNCHANGED <<pd, next, file_page, heap_page, mapped, ranDry>>

HandleWithoutReload ==
    /\ Doing("handle_fault")
    /\ LET v == Head(todo).page IN
       \E f \in Frames :
          /\ allocate_blocks(f, 1)
          /\ todo' = <<Map(f, v)>> \o Tail(todo)
          /\ mapped' = IF v \in Clients THEN [mapped EXCEPT ![v] = f] ELSE mapped
    /\ UNCHANGED <<pd, mem, tlb, file_page, heap_page>>

page_fault_handler ==
    /\ Doing("handle_fault")
    /\ LET v == Head(todo).page IN
       \E f \in Frames :
          /\ allocate_blocks(f, 1)
          /\ todo' = <<Map(f, v), On("reload_cr3", v)>> \o Tail(todo)
          /\ mapped' = IF v \in Clients THEN [mapped EXCEPT ![v] = f] ELSE mapped
    /\ UNCHANGED <<pd, mem, tlb, file_page, heap_page>>

ReloadCr3 ==
    /\ Doing("reload_cr3")
    /\ tlb' = [v \in Pages |-> Absent]
    /\ todo' = Tail(todo)
    /\ UNCHANGED <<pd, mem, next, file_page, heap_page, mapped, ranDry>>

(* free_page and unmap_page through get_page: the frame is not given back, *)
(* see FramePool.                                                          *)
unmap_page ==
    /\ Doing("unmap")
    /\ LET v == Head(todo).page IN
       Access(pd[Dir(v)], LAMBDA g : [mem[g] EXCEPT ![Index(v)] = Absent])
    /\ UNCHANGED <<pd, next, file_page, heap_page, mapped, ranDry>>

flush_tlb_entry ==
    /\ Doing("invlpg")
    /\ tlb' = [tlb EXCEPT ![Head(todo).page] = Absent]
    /\ todo' = Tail(todo)
    /\ UNCHANGED <<pd, mem, next, file_page, heap_page, mapped, ranDry>>

Kernel ==
    \/ Touch \/ map_address \/ Clear \/ ClearTail \/ StoreEntry
    \/ page_fault_handler \/ ReloadCr3 \/ unmap_page \/ flush_tlb_entry
-----------------------------------------------------------------------------
(* The clients, one call at a time.                                        *)

MapNew(v, f) ==
    /\ allocate_blocks(f, 1)
    /\ mapped' = [mapped EXCEPT ![v] = f]

(* A page of sys_open or sys_write; load_file and memset then write to it. *)
OpenPage ==
    /\ todo = <<>> /\ file_page \in FilePages
    /\ \E f \in Frames : MapNew(file_page, f) /\ todo' = <<Map(f, file_page), On("touch", file_page)>>
    /\ file_page' = file_page + 1
    /\ UNCHANGED <<pd, mem, tlb, heap_page>>

Program(v) ==
    /\ todo = <<>> /\ v \in UserPages \cup FilePages
    /\ v \in FilePages => mapped[v] # Absent
    /\ todo' = <<On("touch", v)>>
    /\ UNCHANGED <<pd, mem, tlb, next, file_page, heap_page, mapped, ranDry>>

CloseWithoutFlush(v) ==
    /\ todo = <<>> /\ v \in FilePages /\ mapped[v] # Absent
    /\ todo' = <<On("unmap", v)>>
    /\ mapped' = [mapped EXCEPT ![v] = Absent]
    /\ UNCHANGED <<pd, mem, tlb, next, file_page, heap_page, ranDry>>

(* One turn of the loop of sys_close.                                      *)
ClosePage(v) ==
    /\ todo = <<>> /\ v \in FilePages /\ mapped[v] # Absent
    /\ todo' = <<On("unmap", v), On("invlpg", v)>>
    /\ mapped' = [mapped EXCEPT ![v] = Absent]
    /\ UNCHANGED <<pd, mem, tlb, next, file_page, heap_page, ranDry>>

(* exec maps a frame at user_stack, over the one of the program before.    *)
Exec ==
    /\ todo = <<>>
    /\ \E f \in Frames : MapNew(StackPage, f) /\ todo' = <<Map(f, StackPage)>>
    /\ UNCHANGED <<pd, mem, tlb, file_page, heap_page>>

(* malloc_more_pages maps what it allocates from heap_end on.  The bound   *)
(* is the reserved memory: beyond it the pages would be those through      *)
(* which the tables are reached.                                           *)
GrowHeap ==
    /\ todo = <<>> /\ heap_page < IdentityTable
    /\ \E f \in Frames : allocate_blocks(f, 1) /\ todo' = <<Map(f, heap_page)>>
    /\ heap_page' = heap_page + 1
    /\ UNCHANGED <<pd, mem, tlb, file_page, mapped>>

Next ==
    \/ Kernel
    \/ OpenPage \/ Exec \/ GrowHeap
    \/ \E v \in Clients : Program(v) \/ ClosePage(v)
    \/ \E v \in Pages : Evict(v)

Spec == Init /\ [][Next]_vars

(* The processor goes on with what it has begun.                           *)
FairSpec == Spec /\ WF_vars(Kernel)
-----------------------------------------------------------------------------
Tables == {pd[d] : d \in Dirs} \ {Absent}

(* The calls and faults that are under way never nest deeper than a page   *)
(* fault in the clearing of a table that a page fault needs.               *)
TypeOK ==
    /\ pd \in [Dirs -> Frames \cup {Absent}]
    /\ mem \in [Frames -> [0 .. ENTRIES - 1 -> Frames \cup {Absent}]]
    /\ tlb \in [Pages -> Frames \cup {Absent}]
    /\ next \in LowestFree .. RamTop
    /\ Len(todo) <= 8
    /\ mapped \in [Clients -> Frames \cup {Absent}]

(* A client's page whose table lies in the part that is mapped to itself   *)
(* leads to the frame that was last mapped there, and to none once it is   *)
(* closed: no clearing, self-mapping or fault of another table spoils it.  *)
PagesLeadToTheirFrames ==
    todo = <<>> /\ ~ranDry =>
        \A v \in Clients : mapped[v] # Absent /\ pd[Dir(v)] < HoleStart => Walk(v) = mapped[v]

InUse == {v \in Clients : mapped[v] # Absent \/ (Doing("touch") /\ v = Head(todo).page)}

(* The first two entries of a table keep what its frame held before, for   *)
(* create_page_table misses them: a page that programs access without      *)
(* anyone having mapped it must not be one of these.                       *)
UserPagesClear == \A v \in UserPages : Index(v) > 1

(* Wherever its table lies, a page that is accessed never leads to a       *)
(* table, to reserved memory or to the frame of another page in use,       *)
(* neither by the tables nor by what the processor has cached of them.     *)
FramesAreOwn ==
    /\ TypeOK
    /\ (todo = <<>> \/ Doing("touch")) /\ ~ranDry => \A v \in InUse : Translate(v) # Absent =>
        /\ Translate(v) \notin Tables /\ Translate(v) >= LowestFree
        /\ \A w \in InUse \ {v} : Translate(w) # Translate(v)

(* Nothing is flushed when map_address changes an entry.  All the same no  *)
(* cached translation of a client's page is stale between two calls: a     *)
(* closed page is flushed, a mapped one was not mapped before.             *)
NoStaleTranslation ==
    todo = <<>> => \A v \in Clients : tlb[v] # Absent => tlb[v] = Walk(v)

(* Every call and every faulting access is over at some time, although the *)
(* handler may store the entry through a stale translation of the table,   *)
(* so that the same access faults again.  Only the want of a frame for a   *)
(* table makes an access fault for ever.                                   *)
WantsTable == next = RamTop /\ \E d \in Dirs : pd[d] = Absent
FaultsAreResolved == [](todo # <<>> => <>(todo = <<>> \/ WantsTable))
=============================================================================
