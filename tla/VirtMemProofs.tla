--------------------------- MODULE VirtMemProofs ----------------------------
(***************************************************************************)
(* Proofs about VirtMem for every size of tables, memory and hole, any     *)
(* pages of clients and any leftovers in memory.                           *)
(***************************************************************************)
EXTENDS VirtMem, SequenceTheorems, FiniteSetTheorems, TLAPS

(* A page of the first directory entry, through which tables are reached.  *)
KernelPage(v) == v < ENTRIES

Ops == {"touch", "map", "store", "clear", "clear_tail", "handle_fault", "reload_cr3", "unmap", "invlpg"}
Task == [op : Ops, frame : Frames \cup {Absent}, page : Pages]
Moving(e) == e.op \in {"map", "store"}
Items(s) == {s[i] : i \in DOMAIN s}

Content == [0 .. ENTRIES - 1 -> Frames \cup {Absent}]
StateInv ==
    /\ pd \in [Dirs -> Frames \cup {Absent}]
    /\ mem \in [Frames -> Content]
    /\ tlb \in [Pages -> Frames \cup {Absent}]
    /\ next \in LowestFree .. RamTop
    /\ file_page \in Nat /\ heap_page \in 0 .. IdentityTable
    /\ todo \in Seq(Task)
    /\ mapped \in [Clients -> Frames \cup {Absent}]
    /\ ranDry \in BOOLEAN

(* The tables of other entries are allocated, and none serves two.         *)
TablesInv ==
    /\ pd[0] = IdentityTable
    /\ \A d \in Dirs \ {0} : pd[d] # Absent => LowestFree <= pd[d] /\ pd[d] < next
    /\ \A d, e \in Dirs : pd[d] = pd[e] /\ pd[d] # Absent => d = e

(* How deep what is left to do is nested: each task begins below what it   *)
(* is put on.  Only the mapping that a fault of a table's page needs lies  *)
(* above the reload that follows it.                                       *)
Rank(e) ==
    CASE e.op \in {"touch", "invlpg"} -> 1
      [] e.op = "unmap" -> 2
      [] e.op \in {"reload_cr3", "handle_fault"} -> IF KernelPage(e.page) THEN 7 ELSE 2
      [] Moving(e) -> IF KernelPage(e.page) THEN 4 ELSE 3
      [] e.op = "clear_tail" -> 5
      [] e.op = "clear" -> 6
Descending(s) == \A i, j \in DOMAIN s : i < j => Rank(s[j]) < Rank(s[i])
ShapeInv ==
    \/ Descending(todo)
    \/ Len(todo) > 1 /\ Rank(todo[1]) = 4 /\ Rank(todo[2]) = 7 /\ Descending(Tail(todo))

(* What a page of the first directory entry may lead to: itself, or a      *)
(* frame that is no table.  The pages below the hole lead to themselves.   *)
MayLead(p, x) ==
    /\ x # p => x \notin Tables /\ x < next
    /\ p \in IdentityTable .. HoleStart - 1 => x = p

(* What the operands of a task are, by what it does.                       *)
Fits(e) ==
    /\ e.op = "touch" => /\ e.page \in Clients \ {StackPage}
                         /\ e.page \in FilePages => e.page < file_page /\ mapped[e.page] # Absent
    /\ e.op \in {"unmap", "invlpg"} => /\ e.page \in FilePages /\ e.page < file_page
                                       /\ mapped[e.page] = Absent
    /\ e.op \in {"unmap", "store", "invlpg"} => pd[Dir(e.page)] # Absent
    /\ e.op = "clear" => e.page \in Tables \ {IdentityTable}
    /\ e.op = "clear_tail" => e.page \in Frames \ Tables /\ e.page > IdentityTable
    /\ e.op = "handle_fault" => e.page \in Clients \/ (KernelPage(e.page) /\ e.page >= HoleStart)
    /\ Moving(e) => /\ e.frame \in Frames
                    /\ KernelPage(e.page) => e.page # IdentityTable /\ MayLead(e.page, e.frame)
                    /\ ~KernelPage(e.page) => e.page \in Clients /\ e.frame = mapped[e.page]
TaskInv == \A e \in Items(todo) : Fits(e)

Has(o, v) == \E e \in Items(todo) : e.op = o /\ e.page = v

(* A fault of a client's page comes from a touch of it, and what unmaps a  *)
(* page flushes it.                                                        *)
PairInv ==
    \A e \in Items(todo) :
        /\ e.op = "handle_fault" /\ e.page \in Clients => Has("touch", e.page)
        /\ e.op = "unmap" => Has("invlpg", e.page)

KernelInv ==
    \A p \in Frames :
        /\ mem[IdentityTable][p] # Absent => MayLead(p, mem[IdentityTable][p])
        /\ tlb[p] # Absent => MayLead(p, tlb[p])
        /\ p \in IdentityTable .. HoleStart - 1 => mem[IdentityTable][p] = p

(* No cached translation of a client's page is stale, but for the page     *)
(* that is about to be flushed; and none is cached where the next store    *)
(* or clearing changes what its page leads to.                             *)
CacheInv ==
    /\ \A v \in Clients : tlb[v] # Absent => tlb[v] = Walk(v) \/ Has("invlpg", v)
    /\ \A e \in Items(todo) : (Moving(e) \/ e.op = "handle_fault") /\ e.page \in Clients => tlb[e.page] = Absent
    /\ \A e \in Items(todo) : e.op = "clear" => \A v \in Clients : pd[Dir(v)] = e.page => tlb[v] = Absent
    /\ tlb[StackPage] = Absent
    /\ \A v \in FilePages : v >= file_page => tlb[v] = Absent /\ mapped[v] = Absent
    /\ \A v \in FilePages : mapped[v] # Absent /\ pd[Dir(v)] = Absent => Has("touch", v)

CoreInv == StateInv /\ TablesInv /\ ShapeInv /\ TaskInv /\ PairInv /\ KernelInv /\ CacheInv

(* A client's page leads to its frame, or will, as long as there are      *)
(* frames.                                                                 *)
Pending(v) == Has("map", v) \/ Has("store", v)
MappingInv ==
    \A v \in Clients : mapped[v] # Absent =>
        /\ pd[Dir(v)] < HoleStart => Walk(v) = mapped[v] \/ Pending(v)
        /\ pd[Dir(v)] # Absent /\ Has("clear", pd[Dir(v)]) => Pending(v)

(* The frames a client's page leads to, or may lead to, are its own.       *)
Holds(v) == {Walk(v), tlb[v], mapped[v]} \ {Absent, 0}
OwnInv ==
    /\ \A v \in Clients : mapped[v] # 0
    /\ \A v \in Clients : \A x \in Holds(v) : LowestFree <= x /\ x < next /\ x \notin Tables
    /\ \A v, w \in Clients : v # w => Holds(v) \cap Holds(w) = {}

(* An entry that leads to frame 0 is a leftover: in memory not given out,  *)
(* in a table about to be cleared, or among the two entries no one clears. *)
LeftoverInv ==
    /\ \A f \in Frames : f >= next => \A x \in 0 .. ENTRIES - 1 :
         mem[f][x] # Absent => mem[f][x] = 0 /\ f < HoleStart
    /\ \A d \in Dirs \ {0} : pd[d] # Absent => \A x \in 0 .. ENTRIES - 1 :
         mem[pd[d]][x] = 0 => pd[d] < HoleStart /\ (x <= 1 \/ Has("clear", pd[d]))
FrameInv == ~ranDry => MappingInv /\ OwnInv /\ LeftoverInv
NoZeroCached == ~ranDry => \A v \in Clients : tlb[v] # 0
-----------------------------------------------------------------------------
(* Entries, tables and pages: a page is its table's number and its entry.  *)

LEMMA SizeFacts ==
    /\ ENTRIES \in Nat /\ ENTRIES > 0 /\ Cardinality(Dirs) \in Nat
    /\ LowestFree \in Nat /\ HoleStart \in Nat /\ RamTop \in Nat /\ IdentityTable \in Nat
    /\ IdentityTable >= 1 /\ IdentityTable = LowestFree - 1 /\ IdentityTable < HoleStart
    /\ LowestFree <= HoleStart /\ HoleStart <= RamTop /\ RamTop < ENTRIES
    /\ Absent = 0 - 1 /\ Absent \notin Nat
<1>1. Cardinality(Dirs) \in Nat
  BY SizeAssumption, FS_CardinalityType
<1> QED
  BY <1>1, SizeAssumption DEF IdentityTable, Absent

LEMMA PageFacts ==
    /\ 0 \in Dirs
    /\ \A p \in Frames : p \in Pages /\ p \in Nat /\ KernelPage(p) /\ Dir(p) = 0 /\ Index(p) = p
    /\ \A v \in Pages : v \in Nat /\ Dir(v) \in Dirs /\ Index(v) \in 0 .. ENTRIES - 1
    /\ \A v \in Pages : KernelPage(v) <=> v \in Frames
    /\ \A v \in Pages : ~KernelPage(v) => Dir(v) # 0
    /\ \A v, w \in Pages : Dir(v) = Dir(w) /\ Index(v) = Index(w) => v = w
    /\ \A v \in Clients : v \in Pages /\ ~KernelPage(v) /\ v \notin Frames
<1> DEFINE n == Cardinality(Dirs)
<1>1. ENTRIES \in Nat /\ ENTRIES > 0 /\ n \in Nat /\ Dirs = 0 .. n - 1
  BY SizeFacts, SizeAssumption
<1>2. Pages = 0 .. ENTRIES * n - 1
  BY DEF Pages
<1>3. PICK c \in Pages : c >= ENTRIES
  BY ClientAssumption DEF Clients
<1> HIDE DEF n
<1>4. ENTRIES * n \in Nat
  BY <1>1, Z3
<1>5. n >= 1
  <2>1. CASE n = 0
    <3>1. ENTRIES * n = 0
      BY <2>1, <1>1, Z3
    <3> QED
      BY <3>1, <1>2, <1>3
  <2> QED
    BY <2>1, <1>1
<1>6. ENTRIES * n >= ENTRIES
  BY <1>1, <1>5, Z3
<1>7. 0 \in Dirs
  BY <1>1, <1>5
<1>8. ASSUME NEW v \in Pages
      PROVE  /\ v \in Nat /\ v = ENTRIES * Dir(v) + Index(v) /\ Dir(v) \in Nat
             /\ Index(v) \in 0 .. ENTRIES - 1 /\ Dir(v) \in Dirs
  <2>1. v \in Nat /\ v < ENTRIES * n
    BY <1>2, <1>4
  <2>2. v = ENTRIES * Dir(v) + Index(v) /\ Index(v) \in 0 .. ENTRIES - 1 /\ Dir(v) \in Int
    BY <2>1, <1>1, Z3 DEF Dir, Index
  <2>3. Dir(v) >= 0
    BY <2>1, <1>1, Z3 DEF Dir
  <2> DEFINE d == Dir(v)  x == Index(v)
  <2>4. d \in Nat /\ x \in Nat /\ v = ENTRIES * d + x
    BY <2>2, <2>3, <1>1
  <2> HIDE DEF d, x
  <2>5. d < n
    <3>1. CASE d >= n
      <4>1. ENTRIES * d >= ENTRIES * n
        BY <3>1, <2>4, <1>1, Z3
      <4>2. ENTRIES * d \in Nat
        BY <2>4, <1>1, Z3
      <4> QED
        BY <4>1, <4>2, <2>1, <2>4, <1>4
    <3> QED
      BY <3>1, <2>4, <1>1
  <2> QED
    BY <2>1, <2>2, <2>3, <2>4, <2>5, <1>1 DEF d
<1>9. ASSUME NEW p \in Frames
      PROVE  p \in Pages /\ p \in Nat /\ KernelPage(p) /\ Dir(p) = 0 /\ Index(p) = p
  <2>1. p \in Nat /\ p < ENTRIES
    BY <1>1 DEF Frames
  <2>2. p \in Pages
    BY <2>1, <1>2, <1>4, <1>6, <1>1
  <2>3. p \div ENTRIES = 0 /\ p % ENTRIES = p
    BY <2>1, <1>1, Z3
  <2> QED
    BY <2>1, <2>2, <2>3 DEF Dir, Index, KernelPage
<1>10. \A v \in Pages : KernelPage(v) <=> v \in Frames
  BY <1>8, <1>1 DEF KernelPage, Frames
<1>11. ASSUME NEW v \in Pages, ~KernelPage(v)
       PROVE  Dir(v) # 0
  <2>1. CASE Dir(v) = 0
    <3>1. ENTRIES * Dir(v) = 0
      BY <2>1, <1>1
    <3> QED
      BY <3>1, <1>8, <1>11, <1>1 DEF KernelPage
  <2> QED
    BY <2>1
<1>12. \A v, w \in Pages : Dir(v) = Dir(w) /\ Index(v) = Index(w) => v = w
  BY <1>8
<1>13. ASSUME NEW v \in Clients
       PROVE  v \in Pages /\ ~KernelPage(v) /\ v \notin Frames
  <2>1. v \in Pages /\ v >= ENTRIES
    BY ClientAssumption
  <2> QED
    BY <2>1, <1>8, <1>1 DEF KernelPage, Frames
<1> QED
  BY <1>7, <1>8, <1>9, <1>10, <1>11, <1>12, <1>13

LEMMA OpsAreTasks ==
    /\ \A v \in Pages, o \in Ops : On(o, v) \in Task /\ On(o, v).op = o /\ On(o, v).page = v
    /\ \A f \in Frames, v \in Pages :
         /\ Map(f, v) \in Task /\ Map(f, v).op = "map" /\ Map(f, v).frame = f /\ Map(f, v).page = v
         /\ Store(f, v) \in Task /\ Store(f, v).op = "store" /\ Store(f, v).frame = f /\ Store(f, v).page = v
  BY DEF On, Map, Store, Task, Ops

-----------------------------------------------------------------------------
(* The stack of what is left to do.                                        *)

LEMMA RankValues ==
    ASSUME NEW e \in Task
    PROVE  /\ Rank(e) \in 1 .. 7
           /\ e.op \in {"touch", "invlpg"} <=> Rank(e) = 1
           /\ e.op = "unmap" => Rank(e) = 2
           /\ e.op \in {"reload_cr3", "handle_fault"} => Rank(e) = IF KernelPage(e.page) THEN 7 ELSE 2
           /\ Moving(e) => Rank(e) = IF KernelPage(e.page) THEN 4 ELSE 3
           /\ Rank(e) = 4 => Moving(e)
           /\ e.op = "clear_tail" <=> Rank(e) = 5
           /\ e.op = "clear" <=> Rank(e) = 6
<1>1. e.op \in Ops
  BY DEF Task
<1> QED
  BY <1>1 DEF Rank, Ops, Moving

LEMMA PopItems ==
    ASSUME NEW s \in Seq(Task), s # <<>>
    PROVE  /\ Head(s) \in Task /\ Tail(s) \in Seq(Task)
           /\ Items(s) = {Head(s)} \cup Items(Tail(s))
<1>1. Len(s) \in Nat /\ Len(s) >= 1 /\ DOMAIN s = 1 .. Len(s)
  OBVIOUS
<1>2. Head(s) = s[1] /\ Tail(s) \in Seq(Task) /\ DOMAIN Tail(s) = 1 .. Len(s) - 1
  BY <1>1
<1>3. \A i \in 1 .. Len(s) - 1 : Tail(s)[i] = s[i + 1]
  BY <1>1
<1>4. ASSUME NEW e \in Items(s)
      PROVE  e \in {Head(s)} \cup Items(Tail(s))
  <2>1. PICK i \in DOMAIN s : e = s[i]
    BY DEF Items
  <2>2. CASE i = 1
    BY <2>1, <2>2, <1>2
  <2>3. CASE i # 1
    <3>1. i - 1 \in 1 .. Len(s) - 1 /\ (i - 1) + 1 = i
      BY <2>1, <2>3, <1>1
    <3>2. Tail(s)[i - 1] = e
      BY <3>1, <2>1, <1>3
    <3> QED
      BY <3>1, <3>2, <1>2 DEF Items
  <2> QED
    BY <2>2, <2>3
<1>5. ASSUME NEW e \in Items(Tail(s))
      PROVE  e \in Items(s)
  <2>1. PICK i \in 1 .. Len(s) - 1 : e = Tail(s)[i]
    BY <1>2 DEF Items
  <2>2. i + 1 \in DOMAIN s /\ e = s[i + 1]
    BY <2>1, <1>1, <1>3
  <2> QED
    BY <2>2 DEF Items
<1>6. Head(s) \in Items(s) /\ Head(s) \in Task
  BY <1>1, <1>2 DEF Items
<1> QED
  BY <1>2, <1>4, <1>5, <1>6

LEMMA PushItems ==
    ASSUME NEW s \in Seq(Task), NEW a \in Task
    PROVE  /\ <<a>> \o s \in Seq(Task) /\ <<a>> \o s # <<>>
           /\ Head(<<a>> \o s) = a /\ Tail(<<a>> \o s) = s
           /\ Items(<<a>> \o s) = {a} \cup Items(s)
<1> DEFINE t == <<a>> \o s
<1>1. t \in Seq(Task) /\ Len(t) = Len(s) + 1 /\ t # <<>> /\ Head(t) = a
  OBVIOUS
<1>2. Tail(t) = s
  <2>1. Tail(t) \in Seq(Task) /\ Len(Tail(t)) = Len(s)
    BY <1>1
  <2>2. \A i \in 1 .. Len(s) : Tail(t)[i] = s[i]
    OBVIOUS
  <2> QED
    BY <2>1, <2>2, SeqEqual
<1> QED
  BY <1>1, <1>2, PopItems

LEMMA PushTwo ==
    ASSUME NEW S, NEW s \in Seq(S), NEW a \in S, NEW b \in S
    PROVE  <<a, b>> \o s = <<a>> \o (<<b>> \o s)
<1> DEFINE t == <<a, b>> \o s  u == <<b>> \o s  w == <<a>> \o u
<1>1. u \in Seq(S) /\ Len(u) = Len(s) + 1 /\ u[1] = b
  OBVIOUS
<1>2. \A i \in 2 .. Len(s) + 1 : u[i] = s[i - 1]
  OBVIOUS
<1>3. t \in Seq(S) /\ Len(t) = Len(s) + 2 /\ t[1] = a /\ t[2] = b
  OBVIOUS
<1>4. \A i \in 3 .. Len(s) + 2 : t[i] = s[i - 2]
  OBVIOUS
<1>5. Len(s) \in Nat
  OBVIOUS
<1> HIDE DEF u, t
<1>6. w \in Seq(S) /\ Len(w) = Len(u) + 1 /\ w[1] = a
  BY <1>1
<1>7. \A i \in 2 .. Len(u) + 1 : w[i] = u[i - 1]
  BY <1>1
<1> HIDE DEF w
<1>8. ASSUME NEW i \in 1 .. Len(t)
      PROVE  t[i] = w[i]
  <2>1. CASE i = 1
    BY <2>1, <1>3, <1>6
  <2>2. CASE i = 2
    <3>1. w[2] = u[1]
      BY <1>1, <1>5, <1>7
    <3> QED
      BY <3>1, <2>2, <1>1, <1>3
  <2>3. CASE i \in 3 .. Len(s) + 2
    <3>1. w[i] = u[i - 1] /\ i - 1 \in 2 .. Len(s) + 1
      BY <2>3, <1>1, <1>5, <1>7
    <3>2. u[i - 1] = s[(i - 1) - 1] /\ (i - 1) - 1 = i - 2
      BY <3>1, <2>3, <1>2
    <3> QED
      BY <3>1, <3>2, <2>3, <1>4
  <2> QED
    BY <2>1, <2>2, <2>3, <1>3, <1>5
<1>9. t = w
  BY <1>1, <1>3, <1>5, <1>6, <1>8, SeqEqual
<1> QED
  BY <1>9 DEF t, w, u

OneMore(a, s) == <<a>> \o s
FourMore(a, b, c, d, s) == <<a, b, c, d>> \o s

LEMMA PushFour ==
    ASSUME NEW s \in Seq(Task), NEW a \in Task, NEW b \in Task, NEW c \in Task, NEW d \in Task
    PROVE  FourMore(a, b, c, d, s) = OneMore(a, OneMore(b, OneMore(c, OneMore(d, s))))
<1> DEFINE t == <<a, b, c, d>> \o s  u == <<c, d>> \o s  w == <<a, b>> \o u
<1>1. u \in Seq(Task) /\ Len(u) = Len(s) + 2 /\ u[1] = c /\ u[2] = d
  OBVIOUS
<1>2. \A i \in 3 .. Len(s) + 2 : u[i] = s[i - 2]
  OBVIOUS
<1>3. t \in Seq(Task) /\ Len(t) = Len(s) + 4 /\ t[1] = a /\ t[2] = b /\ t[3] = c /\ t[4] = d
  OBVIOUS
<1>4. \A i \in 5 .. Len(s) + 4 : t[i] = s[i - 4]
  OBVIOUS
<1>5. Len(s) \in Nat
  OBVIOUS
<1> HIDE DEF u, t
<1>6. w \in Seq(Task) /\ Len(w) = Len(u) + 2 /\ w[1] = a /\ w[2] = b
  BY <1>1
<1>7. \A i \in 3 .. Len(u) + 2 : w[i] = u[i - 2]
  BY <1>1
<1> HIDE DEF w
<1>8. ASSUME NEW i \in 1 .. Len(t)
      PROVE  t[i] = w[i]
  <2>1. CASE i \in 1 .. 2
    BY <2>1, <1>3, <1>6
  <2>2. CASE i \in 3 .. 4
    <3>1. w[3] = u[1] /\ w[4] = u[2]
      <4>1. w[3] = u[3 - 2] /\ w[4] = u[4 - 2]
        BY <1>1, <1>5, <1>7
      <4> QED
        BY <4>1
    <3> QED
      BY <3>1, <2>2, <1>1, <1>3
  <2>3. CASE i \in 5 .. Len(s) + 4
    <3>1. w[i] = u[i - 2] /\ i - 2 \in 3 .. Len(s) + 2
      BY <2>3, <1>1, <1>5, <1>7
    <3>2. u[i - 2] = s[(i - 2) - 2] /\ (i - 2) - 2 = i - 4
      BY <3>1, <2>3, <1>2
    <3> QED
      BY <3>1, <3>2, <2>3, <1>4
  <2> QED
    BY <2>1, <2>2, <2>3, <1>3, <1>5
<1>9. t = w
  BY <1>1, <1>3, <1>5, <1>6, <1>8, SeqEqual
<1>10. u = <<c>> \o (<<d>> \o s)
  BY PushTwo DEF u
<1>11. w = <<a>> \o (<<b>> \o u)
  BY PushTwo, <1>1 DEF w
<1> QED
  BY <1>9, <1>10, <1>11 DEF t, OneMore, FourMore

LEMMA NoItems == Items(<<>>) = {} /\ Descending(<<>>)
  BY DEF Items, Descending

LEMMA PopDescending ==
    ASSUME NEW s \in Seq(Task), s # <<>>, Descending(s)
    PROVE  /\ Descending(Tail(s))
           /\ \A e \in Items(Tail(s)) : Rank(e) < Rank(Head(s))
<1>1. Len(s) \in Nat /\ Len(s) >= 1 /\ DOMAIN s = 1 .. Len(s)
  OBVIOUS
<1>2. Head(s) = s[1] /\ DOMAIN Tail(s) = 1 .. Len(s) - 1
  BY <1>1
<1>3. \A i \in 1 .. Len(s) - 1 : Tail(s)[i] = s[i + 1]
  BY <1>1
<1>4. ASSUME NEW i \in DOMAIN Tail(s), NEW j \in DOMAIN Tail(s), i < j
      PROVE  Rank(Tail(s)[j]) < Rank(Tail(s)[i])
  <2>1. i + 1 \in DOMAIN s /\ j + 1 \in DOMAIN s /\ i + 1 < j + 1
    BY <1>1, <1>2, <1>4
  <2>2. Rank(s[j + 1]) < Rank(s[i + 1])
    BY <2>1 DEF Descending
  <2> QED
    BY <2>2, <1>2, <1>3
<1>5. ASSUME NEW e \in Items(Tail(s))
      PROVE  Rank(e) < Rank(Head(s))
  <2>1. PICK i \in 1 .. Len(s) - 1 : e = Tail(s)[i]
    BY <1>2 DEF Items
  <2>2. i + 1 \in DOMAIN s /\ 1 \in DOMAIN s /\ 1 < i + 1 /\ e = s[i + 1]
    BY <2>1, <1>1, <1>3
  <2> QED
    BY <2>2, <1>2 DEF Descending
<1> QED
  BY <1>4, <1>5 DEF Descending

LEMMA PushDescending ==
    ASSUME NEW s \in Seq(Task), NEW a \in Task, Descending(s),
           \A e \in Items(s) : Rank(e) < Rank(a)
    PROVE  Descending(<<a>> \o s)
<1> DEFINE t == <<a>> \o s
<1>1. Len(s) \in Nat /\ DOMAIN s = 1 .. Len(s) /\ DOMAIN t = 1 .. Len(s) + 1 /\ t[1] = a
  OBVIOUS
<1>2. \A i \in 2 .. Len(s) + 1 : t[i] = s[i - 1]
  OBVIOUS
<1>3. ASSUME NEW i \in DOMAIN t, NEW j \in DOMAIN t, i < j
      PROVE  Rank(t[j]) < Rank(t[i])
  <2> HIDE DEF t
  <2>1. j \in 2 .. Len(s) + 1 /\ j - 1 \in DOMAIN s /\ t[j] = s[j - 1]
    BY <1>1, <1>2, <1>3
  <2>2. CASE i = 1
    <3>1. t[j] \in Items(s)
      BY <2>1 DEF Items
    <3> QED
      BY <3>1, <2>2, <1>1
  <2>3. CASE i # 1
    <3>1. i \in 2 .. Len(s) + 1 /\ i - 1 \in DOMAIN s /\ t[i] = s[i - 1] /\ i - 1 < j - 1
      BY <2>3, <2>1, <1>1, <1>2, <1>3
    <3> QED
      BY <3>1, <2>1 DEF Descending
  <2> QED
    BY <2>2, <2>3
<1> QED
  BY <1>3 DEF Descending

LEMMA DescendingIsShort ==
    ASSUME NEW s \in Seq(Task), Descending(s)
    PROVE  Len(s) <= 7
<1> SUFFICES ASSUME Len(s) > 7 PROVE FALSE
  OBVIOUS
<1>1. DOMAIN s = 1 .. Len(s) /\ Len(s) \in Nat
  OBVIOUS
<1>2. \A i \in 1 .. 8 : i \in DOMAIN s /\ s[i] \in Task
  BY <1>1
<1>3. \A i \in 1 .. 8 : Rank(s[i]) \in 1 .. 7
  BY <1>2, RankValues
<1>4. \A i \in 1 .. 7 : Rank(s[i + 1]) < Rank(s[i])
  BY <1>2 DEF Descending
<1> DEFINE r(i) == Rank(s[i])
<1>5. /\ r(2) < r(1) /\ r(3) < r(2) /\ r(4) < r(3) /\ r(5) < r(4) /\ r(6) < r(5)
      /\ r(7) < r(6) /\ r(8) < r(7)
  <2>1. /\ r(1 + 1) < r(1) /\ r(2 + 1) < r(2) /\ r(3 + 1) < r(3) /\ r(4 + 1) < r(4)
        /\ r(5 + 1) < r(5) /\ r(6 + 1) < r(6) /\ r(7 + 1) < r(7)
    BY <1>4
  <2> QED
    BY <2>1
<1>6. /\ r(1) \in 1 .. 7 /\ r(2) \in 1 .. 7 /\ r(3) \in 1 .. 7 /\ r(4) \in 1 .. 7
      /\ r(5) \in 1 .. 7 /\ r(6) \in 1 .. 7 /\ r(7) \in 1 .. 7 /\ r(8) \in 1 .. 7
  BY <1>3
<1> HIDE DEF r
<1> QED
  BY <1>5, <1>6

LEMMA StackFacts ==
    ASSUME todo \in Seq(Task), ShapeInv, todo # <<>>
    PROVE  /\ Head(todo) \in Task /\ Tail(todo) \in Seq(Task) /\ Descending(Tail(todo))
           /\ Items(todo) = {Head(todo)} \cup Items(Tail(todo))
           /\ \A e \in Items(todo) : e \in Task
           /\ Rank(Head(todo)) # 4 => /\ Descending(todo)
                                      /\ \A e \in Items(Tail(todo)) : Rank(e) < Rank(Head(todo))
<1>1. todo[1] = Head(todo)
  OBVIOUS
<1>2. /\ Head(todo) \in Task /\ Tail(todo) \in Seq(Task)
      /\ Items(todo) = {Head(todo)} \cup Items(Tail(todo))
  BY PopItems
<1>3. Descending(Tail(todo))
  BY PopDescending DEF ShapeInv
<1>4. Rank(Head(todo)) # 4 => Descending(todo)
  BY <1>1 DEF ShapeInv
<1>5. Descending(todo) => \A e \in Items(Tail(todo)) : Rank(e) < Rank(Head(todo))
  BY PopDescending
<1>6. \A e \in Items(todo) : e \in Task
  BY DEF Items
<1> QED
  BY <1>2, <1>3, <1>4, <1>5, <1>6

LEMMA HeadOfRankOneIsAlone ==
    ASSUME todo \in Seq(Task), ShapeInv, todo # <<>>, Rank(Head(todo)) = 1
    PROVE  Items(Tail(todo)) = {}
<1>1. \A e \in Items(Tail(todo)) : e \in Task /\ Rank(e) < 1
  BY StackFacts
<1> QED
  BY <1>1, RankValues

LEMMA PopShape ==
    ASSUME todo \in Seq(Task), ShapeInv, todo # <<>>, todo' = Tail(todo)
    PROVE  ShapeInv' /\ todo' \in Seq(Task)
  BY StackFacts DEF ShapeInv

LEMMA PushShape ==
    ASSUME todo \in Seq(Task), ShapeInv, todo # <<>>, NEW a \in Task,
           Rank(Head(todo)) # 4, Rank(Head(todo)) < Rank(a), todo' = <<a>> \o todo
    PROVE  ShapeInv' /\ todo' \in Seq(Task) /\ Items(todo') = {a} \cup Items(todo)
<1>1. Descending(todo) /\ \A e \in Items(Tail(todo)) : e \in Task /\ Rank(e) < Rank(Head(todo))
  BY StackFacts
<1>2. Items(todo) = {Head(todo)} \cup Items(Tail(todo)) /\ Head(todo) \in Task
  BY StackFacts
<1>3. ASSUME NEW e \in Items(todo)
      PROVE  Rank(e) < Rank(a)
  <2>1. CASE e = Head(todo)
    BY <2>1
  <2>2. CASE e \in Items(Tail(todo))
    <3>1. Rank(e) < Rank(Head(todo)) /\ Rank(e) \in Int /\ Rank(a) \in Int /\ Rank(Head(todo)) \in Int
      BY <1>1, <1>2, <2>2, RankValues
    <3> QED
      BY <3>1
  <2> QED
    BY <2>1, <2>2, <1>2
<1>4. Descending(todo')
  BY <1>1, <1>3, PushDescending
<1> QED
  BY <1>4, PushItems DEF ShapeInv

LEMMA ReplaceShape ==
    ASSUME todo \in Seq(Task), ShapeInv, todo # <<>>, NEW a \in Task,
           Rank(a) = Rank(Head(todo)), todo' = <<a>> \o Tail(todo)
    PROVE  ShapeInv' /\ todo' \in Seq(Task) /\ Items(todo') = {a} \cup Items(Tail(todo))
<1> DEFINE r == Tail(todo)
<1>1. r \in Seq(Task) /\ Descending(r)
  BY StackFacts
<1>2. /\ todo' \in Seq(Task) /\ Items(todo') = {a} \cup Items(r) /\ Tail(todo') = r
  BY <1>1, PushItems
<1>3. CASE Descending(todo)
  <2>1. \A e \in Items(r) : Rank(e) < Rank(a)
    BY <1>3, PopDescending
  <2>2. Descending(todo')
    BY <1>1, <2>1, PushDescending
  <2> QED
    BY <2>2, <1>2 DEF ShapeInv
<1>4. CASE ~Descending(todo)
  <2>1. Len(todo) > 1 /\ Rank(todo[1]) = 4 /\ Rank(todo[2]) = 7
    BY <1>4 DEF ShapeInv
  <2>2. Head(todo) = todo[1] /\ Len(r) >= 1 /\ r[1] = todo[2]
    BY <2>1
  <2> HIDE DEF r
  <2>3. todo' = <<a>> \o r
    BY DEF r
  <2>4. todo'[1] = a /\ todo'[2] = r[1] /\ Len(todo') > 1
    BY <2>2, <2>3, <1>1
  <2>5. Rank(todo'[1]) = 4 /\ Rank(todo'[2]) = 7
    BY <2>1, <2>2, <2>4
  <2>6. Descending(Tail(todo'))
    BY <1>1, <1>2
  <2> QED
    BY <2>4, <2>5, <2>6, <1>2 DEF ShapeInv, r
<1> QED
  BY <1>2, <1>3, <1>4

LEMMA FreshShape ==
    ASSUME todo = <<>>, NEW a \in Task, NEW b \in Task,
           todo' = <<a>> \/ (todo' = <<a, b>> /\ Rank(b) < Rank(a))
    PROVE  /\ ShapeInv' /\ todo' \in Seq(Task) /\ todo' # <<>> /\ Head(todo') = a
           /\ (todo' = <<a>> /\ Items(todo') = {a}) \/ (todo' = <<a, b>> /\ Items(todo') = {a, b})
<1> DEFINE e == <<>>
<1>1. e \in Seq(Task) /\ Items(e) = {} /\ Descending(e)
  BY NoItems
<1>2. <<a>> \o e = <<a>> /\ <<b>> \o e = <<b>> /\ <<a, b>> \o e = <<a, b>>
  OBVIOUS
<1>3. ASSUME NEW c \in Task
      PROVE  Descending(<<c>>) /\ Items(<<c>>) = {c} /\ <<c>> \in Seq(Task) /\ <<c>> # <<>> /\ Head(<<c>>) = c
  <2>1. <<c>> = <<c>> \o e
    OBVIOUS
  <2>2. Descending(<<c>> \o e) /\ Items(<<c>> \o e) = {c} \cup Items(e)
    BY <1>1, PushDescending, PushItems
  <2> QED
    BY <2>1, <2>2, <1>1
<1>4. <<a, b>> = <<a>> \o <<b>>
  <2>1. <<a, b>> \o e = <<a>> \o (<<b>> \o e)
    BY <1>1, PushTwo
  <2> QED
    BY <2>1, <1>2
<1>5. /\ Rank(b) < Rank(a) => Descending(<<a>> \o <<b>>)
      /\ Items(<<a>> \o <<b>>) = {a} \cup Items(<<b>>)
      /\ <<a>> \o <<b>> \in Seq(Task) /\ <<a>> \o <<b>> # <<>> /\ Head(<<a>> \o <<b>>) = a
  BY <1>3, PushDescending, PushItems
<1> QED
  BY <1>3, <1>4, <1>5 DEF ShapeInv

-----------------------------------------------------------------------------
(* The accesses: a fault leaves the memory alone, what lands stores in the *)
(* frame behind the page.                                                  *)

Faults(p) ==
    /\ Translate(p) = Absent
    /\ todo' = <<On("handle_fault", p)>> \o todo
    /\ UNCHANGED <<pd, mem, tlb, next, file_page, heap_page, mapped, ranDry>>
Lands(p, c) ==
    /\ Translate(p) # Absent
    /\ todo' = Tail(todo)
    /\ tlb' = [tlb EXCEPT ![p] = Translate(p)]
    /\ mem' = [mem EXCEPT ![Translate(p)] = c]
    /\ UNCHANGED <<pd, next, file_page, heap_page, mapped, ranDry>>

Cleared(c) == [x \in 0 .. ENTRIES - 1 |-> IF x <= 1 THEN c[x] ELSE Absent]
Wiped(c) == [c EXCEPT ![0] = Absent, ![1] = Absent]
With(c, x, f) == [c EXCEPT ![x] = f]

LEMMA Effects ==
    LET h == Head(todo)
        own == pd[Dir(h.page)]
    IN  /\ Touch => /\ Doing("touch")
                    /\ Faults(h.page) \/ Lands(h.page, mem[Translate(h.page)])
        /\ Clear => /\ Doing("clear")
                    /\ Faults(h.page) \/ Lands(h.page, Cleared(mem[Translate(h.page)]))
        /\ ClearTail => /\ Doing("clear_tail")
                        /\ Faults(h.page) \/ Lands(h.page, Wiped(mem[Translate(h.page)]))
        /\ StoreEntry => /\ Doing("store")
                         /\ Faults(own) \/ Lands(own, With(mem[Translate(own)], Index(h.page), h.frame))
        /\ unmap_page => /\ Doing("unmap")
                         /\ Faults(own) \/ Lands(own, With(mem[Translate(own)], Index(h.page), Absent))
<1> DEFINE h == Head(todo)  own == pd[Dir(h.page)]
<1>1. Touch => /\ Doing("touch")
               /\ Faults(h.page) \/ Lands(h.page, mem[Translate(h.page)])
  BY DEF Touch, Access, Unaltered, Faults, Lands
<1>2. Clear => /\ Doing("clear")
               /\ Faults(h.page) \/ Lands(h.page, Cleared(mem[Translate(h.page)]))
  BY DEF Clear, Access, Cleared, Faults, Lands
<1>3. ClearTail => /\ Doing("clear_tail")
                   /\ Faults(h.page) \/ Lands(h.page, Wiped(mem[Translate(h.page)]))
  BY DEF ClearTail, Access, Wiped, Faults, Lands
<1>4. StoreEntry => /\ Doing("store")
                    /\ Faults(own) \/ Lands(own, With(mem[Translate(own)], Index(h.page), h.frame))
  BY DEF StoreEntry, Access, With, Faults, Lands
<1>5. unmap_page => /\ Doing("unmap")
                    /\ Faults(own) \/ Lands(own, With(mem[Translate(own)], Index(h.page), Absent))
  BY DEF unmap_page, Access, With, Faults, Lands
<1> QED
  BY <1>1, <1>2, <1>3, <1>4, <1>5

LEMMA WithOneEntry ==
    ASSUME NEW c \in Content, NEW x \in 0 .. ENTRIES - 1, NEW f \in Frames \cup {Absent}
    PROVE  /\ With(c, x, f) \in Content
           /\ \A y \in 0 .. ENTRIES - 1 : With(c, x, f)[y] = IF y = x THEN f ELSE c[y]
  BY DEF Content, With

LEMMA ContentKinds ==
    ASSUME NEW c \in Content, NEW x \in 0 .. ENTRIES - 1, NEW f \in Frames \cup {Absent}
    PROVE  /\ Cleared(c) \in Content /\ Wiped(c) \in Content /\ With(c, x, f) \in Content
           /\ \A y \in 0 .. ENTRIES - 1 :
                /\ Cleared(c)[y] = IF y <= 1 THEN c[y] ELSE Absent
                /\ Wiped(c)[y] \in {c[y], Absent}
                /\ With(c, x, f)[y] = IF y = x THEN f ELSE c[y]
  BY DEF Content, Cleared, Wiped, With

LEMMA WalkTypes ==
    ASSUME StateInv, NEW v \in Pages
    PROVE  /\ pd[Dir(v)] \in Frames \cup {Absent} /\ tlb[v] \in Frames \cup {Absent}
           /\ Walk(v) \in Frames \cup {Absent}
           /\ Translate(v) \in Frames \cup {Absent}
           /\ tlb[v] # Absent => Translate(v) = tlb[v]
           /\ tlb[v] = Absent => Translate(v) = Walk(v)
<1>1. Dir(v) \in Dirs /\ Index(v) \in 0 .. ENTRIES - 1
  BY PageFacts
<1>2. pd[Dir(v)] \in Frames \cup {Absent} /\ tlb[v] \in Frames \cup {Absent}
  BY <1>1 DEF StateInv
<1>3. Walk(v) \in Frames \cup {Absent}
  BY <1>1, <1>2 DEF StateInv, Walk, Content
<1> QED
  BY <1>2, <1>3 DEF Translate

(* Table 0 is the first entry's; the pages that lead to tables of other    *)
(* entries lie above it.                                                   *)
LEMMA TableFacts ==
    ASSUME StateInv, TablesInv
    PROVE  /\ IdentityTable \in Tables /\ IdentityTable \in Frames
           /\ \A t \in Tables : t \in Frames /\ t \in Nat /\ t >= IdentityTable /\ t < next
           /\ \A v \in Pages : pd[Dir(v)] # Absent => pd[Dir(v)] \in Tables
           /\ \A v \in Pages : ~KernelPage(v) => pd[Dir(v)] # IdentityTable
           /\ \A v \in Frames : pd[Dir(v)] = IdentityTable
           /\ \A v \in Frames : Walk(v) = mem[IdentityTable][v]
<1>1. IdentityTable \in Frames /\ IdentityTable # Absent
  BY SizeFacts DEF Frames
<1>2. 0 \in Dirs /\ pd[0] = IdentityTable
  BY PageFacts DEF TablesInv
<1>3. IdentityTable \in Tables
  BY <1>1, <1>2 DEF Tables
<1>4. ASSUME NEW t \in Tables
      PROVE  t \in Frames /\ t \in Nat /\ t >= IdentityTable /\ t < next
  <2>1. PICK d \in Dirs : t = pd[d] /\ t # Absent
    BY DEF Tables
  <2>2. t \in Frames /\ t \in Nat
    BY <2>1, SizeFacts DEF StateInv, Frames
  <2>3. next >= LowestFree /\ next \in Nat
    BY SizeFacts DEF StateInv
  <2> QED
    BY <2>1, <2>2, <2>3, SizeFacts DEF TablesInv
<1>5. \A v \in Pages : pd[Dir(v)] # Absent => pd[Dir(v)] \in Tables
  BY PageFacts DEF Tables
<1>6. \A v \in Pages : ~KernelPage(v) => pd[Dir(v)] # IdentityTable
  BY <1>1, <1>2, PageFacts DEF TablesInv
<1>7. \A v \in Frames : pd[Dir(v)] = IdentityTable /\ Walk(v) = mem[IdentityTable][v]
  BY <1>1, <1>2, PageFacts DEF Walk
<1> QED
  BY <1>1, <1>3, <1>4, <1>5, <1>6, <1>7

(* Where an access to a page of the first directory entry lands.           *)
LEMMA KernelLanding ==
    ASSUME StateInv, TablesInv, KernelInv, NEW p \in Frames
    PROVE  /\ Translate(p) # Absent => Translate(p) \in Frames /\ MayLead(p, Translate(p))
           /\ Translate(p) \in Tables => Translate(p) = p
           /\ p \in IdentityTable .. HoleStart - 1 => Translate(p) = p
<1>1. p \in Pages /\ Walk(p) = mem[IdentityTable][p] /\ p # Absent
  BY PageFacts, TableFacts, SizeFacts
<1>2. Translate(p) \in Frames \cup {Absent} /\ Translate(p) \in {tlb[p], Walk(p)}
  BY <1>1, WalkTypes
<1>3. Translate(p) # Absent => MayLead(p, Translate(p))
  BY <1>1, <1>2 DEF KernelInv
<1>4. Absent \notin Tables
  BY DEF Tables
<1>5. p \in IdentityTable .. HoleStart - 1 => Translate(p) # Absent
  <2>1. p \in IdentityTable .. HoleStart - 1 => Walk(p) = p
    BY <1>1 DEF KernelInv
  <2> QED
    BY <2>1, <1>1, WalkTypes
<1> QED
  BY <1>2, <1>3, <1>4, <1>5 DEF MayLead

LEMMA LandingTypes ==
    ASSUME StateInv, ShapeInv, todo # <<>>, NEW p \in Pages, NEW c \in Content, Lands(p, c)
    PROVE  /\ StateInv'
           /\ \A f \in Frames : mem'[f] = IF f = Translate(p) THEN c ELSE mem[f]
           /\ \A v \in Pages : tlb'[v] = IF v = p THEN Translate(p) ELSE tlb[v]
<1>1. Translate(p) \in Frames
  BY WalkTypes DEF Lands
<1>2. /\ mem' = [mem EXCEPT ![Translate(p)] = c] /\ tlb' = [tlb EXCEPT ![p] = Translate(p)]
      /\ mem \in [Frames -> Content] /\ tlb \in [Pages -> Frames \cup {Absent}]
  BY DEF Lands, StateInv
<1>3. mem' \in [Frames -> Content] /\ tlb' \in [Pages -> Frames \cup {Absent}]
  BY <1>1, <1>2
<1>4. todo' \in Seq(Task)
  BY PopShape DEF StateInv, Lands
<1>5. UNCHANGED <<pd, next, file_page, heap_page, mapped, ranDry>>
  BY DEF Lands
<1> QED
  BY <1>1, <1>2, <1>3, <1>4, <1>5 DEF StateInv

-----------------------------------------------------------------------------
(* What a step that leaves the tables alone keeps of the core invariant.   *)

LEMMA SameTables ==
    ASSUME UNCHANGED <<pd, next, file_page, mapped>>
    PROVE  /\ Tables' = Tables
           /\ \A p, x : MayLead(p, x) => MayLead(p, x)'
           /\ \A e : Fits(e) => Fits(e)'
           /\ TablesInv => TablesInv'
<1>1. Tables' = Tables
  BY DEF Tables
<1>2. \A p, x : MayLead(p, x) <=> MayLead(p, x)'
  BY <1>1 DEF MayLead
<1>3. ASSUME NEW e, Fits(e)
      PROVE  Fits(e)'
  <2>1. /\ pd' = pd /\ next' = next /\ file_page' = file_page /\ mapped' = mapped
        /\ Tables' = Tables /\ (MayLead(e.page, e.frame) <=> MayLead(e.page, e.frame)')
    BY <1>1, <1>2
  <2> QED
    BY <1>3, <2>1 DEF Fits
<1> QED
  BY <1>1, <1>2, <1>3 DEF TablesInv

LEMMA PopTasks ==
    ASSUME todo \in Seq(Task), ShapeInv, TaskInv, PairInv, todo # <<>>, todo' = Tail(todo),
           UNCHANGED <<pd, next, file_page, mapped>>
    PROVE  /\ todo' \in Seq(Task) /\ ShapeInv' /\ TaskInv' /\ PairInv'
           /\ Items(todo') \subseteq Items(todo)
           /\ \A o, v : Has(o, v) => Has(o, v)' \/ (Head(todo).op = o /\ Head(todo).page = v)
<1>1. Items(todo) = {Head(todo)} \cup Items(todo') /\ Head(todo) \in Task
  BY StackFacts
<1>2. \A o, v : Has(o, v) => Has(o, v)' \/ (Head(todo).op = o /\ Head(todo).page = v)
  BY <1>1 DEF Has
<1>3. TaskInv'
  BY <1>1, SameTables DEF TaskInv
<1>4. PairInv'
  <2>1. CASE Head(todo).op \in {"touch", "invlpg"}
    <3>1. Items(todo') = {}
      BY <2>1, <1>1, RankValues, HeadOfRankOneIsAlone
    <3> QED
      BY <3>1 DEF PairInv
  <2>2. CASE Head(todo).op \notin {"touch", "invlpg"}
    <3>1. \A v : (Has("touch", v) => Has("touch", v)') /\ (Has("invlpg", v) => Has("invlpg", v)')
      BY <1>2, <2>2
    <3> QED
      BY <3>1, <1>1 DEF PairInv
  <2> QED
    BY <2>1, <2>2
<1> QED
  BY <1>1, <1>2, <1>3, <1>4, PopShape

LEMMA FaultKeepsCore ==
    ASSUME CoreInv, todo # <<>>, NEW p \in Frames, p >= IdentityTable,
           Rank(Head(todo)) < 7, Rank(Head(todo)) # 4, Faults(p)
    PROVE  CoreInv'
<1> DEFINE h == On("handle_fault", p)
<1>1. p \in Pages /\ KernelPage(p) /\ p \notin Clients /\ p \in Nat
  BY PageFacts
<1>2. h \in Task /\ h.op = "handle_fault" /\ h.page = p
  BY <1>1, OpsAreTasks DEF Ops
<1>3. p >= HoleStart
  <2>1. p # Absent /\ (p \in IdentityTable .. HoleStart - 1 => Translate(p) = p)
    BY <1>1, KernelLanding, SizeFacts DEF CoreInv
  <2> QED
    BY <2>1, <1>1, SizeFacts DEF Faults
<1> HIDE DEF h
<1>4. todo \in Seq(Task) /\ ShapeInv /\ Rank(h) = 7 /\ ~Moving(h)
  BY <1>1, <1>2, RankValues DEF CoreInv, StateInv, Moving
<1>5. todo' \in Seq(Task) /\ ShapeInv' /\ Items(todo') = {h} \cup Items(todo)
  BY <1>2, <1>4, PushShape DEF Faults, h
<1>6. \A o, v : Has(o, v) => Has(o, v)'
  BY <1>5 DEF Has
<1>7. UNCHANGED <<pd, mem, tlb, next, file_page, heap_page, mapped, ranDry>>
  BY DEF Faults
<1>8. Fits(h)
  BY <1>1, <1>2, <1>3, <1>4 DEF Fits
<1>9. TablesInv' /\ TaskInv'
  BY <1>5, <1>7, <1>8, SameTables DEF TaskInv, CoreInv
<1>10. PairInv'
  BY <1>1, <1>2, <1>5, <1>6 DEF PairInv, CoreInv
<1>11. KernelInv'
  BY <1>7, SameTables DEF KernelInv, CoreInv
<1>12. CacheInv'
  <2>1. \A v : Walk(v)' = Walk(v)
    BY <1>7 DEF Walk
  <2>2. CacheInv
    BY DEF CoreInv
  <2>3. /\ \A v \in Clients : tlb'[v] # Absent => tlb'[v] = Walk(v)' \/ Has("invlpg", v)'
        /\ \A v \in FilePages : mapped'[v] # Absent /\ pd'[Dir(v)] = Absent => Has("touch", v)'
    BY <2>1, <2>2, <1>6, <1>7 DEF CacheInv
  <2>4. \A e \in Items(todo') : (Moving(e) \/ e.op = "handle_fault") /\ e.page \in Clients => tlb'[e.page] = Absent
    BY <2>2, <1>1, <1>2, <1>5, <1>7 DEF CacheInv
  <2>5. \A e \in Items(todo') : e.op = "clear" => \A v \in Clients : pd'[Dir(v)] = e.page => tlb'[v] = Absent
    BY <2>2, <1>2, <1>5, <1>7 DEF CacheInv
  <2>6. /\ tlb'[StackPage] = Absent
        /\ \A v \in FilePages : v >= file_page' => tlb'[v] = Absent /\ mapped'[v] = Absent
    BY <2>2, <1>7 DEF CacheInv
  <2> QED
    BY <2>3, <2>4, <2>5, <2>6 DEF CacheInv
<1>13. StateInv'
  BY <1>5, <1>7 DEF StateInv, CoreInv
<1> QED
  BY <1>5, <1>9, <1>10, <1>11, <1>12, <1>13 DEF CoreInv

(* What lands at a page of the first entry, and leaves what the others'    *)
(* cached translations agree with as it was.                               *)
LEMMA LandingKeepsCore ==
    ASSUME CoreInv, todo # <<>>, NEW p \in Frames, p >= IdentityTable, NEW c \in Content, Lands(p, c),
           Head(todo).op \notin {"touch", "invlpg"},
           Translate(p) = IdentityTable => \A y \in Frames :
               /\ c[y] # Absent => MayLead(y, c[y])
               /\ y \in IdentityTable .. HoleStart - 1 => c[y] = y,
           \A v \in Clients : tlb[v] # Absent => Walk(v)' = Walk(v) \/ Has("invlpg", v)
    PROVE  CoreInv'
<1>1. p \in Pages /\ p \notin Clients
  BY PageFacts
<1>2. /\ StateInv'
      /\ \A f \in Frames : mem'[f] = IF f = Translate(p) THEN c ELSE mem[f]
      /\ \A v \in Pages : tlb'[v] = IF v = p THEN Translate(p) ELSE tlb[v]
  BY <1>1, LandingTypes DEF CoreInv
<1>3. UNCHANGED <<pd, next, file_page, mapped>> /\ todo' = Tail(todo) /\ Translate(p) # Absent
  BY DEF Lands
<1>4. /\ todo' \in Seq(Task) /\ ShapeInv' /\ TaskInv' /\ PairInv'
      /\ Items(todo') \subseteq Items(todo)
      /\ \A o, v : Has(o, v) => Has(o, v)' \/ (Head(todo).op = o /\ Head(todo).page = v)
  BY <1>3, PopTasks DEF CoreInv, StateInv
<1>5. \A v : (Has("touch", v) => Has("touch", v)') /\ (Has("invlpg", v) => Has("invlpg", v)')
  BY <1>4
<1>6. TablesInv' /\ \A q, x : MayLead(q, x) => MayLead(q, x)'
  BY <1>3, SameTables DEF CoreInv
<1>7. KernelInv'
  <2>1. IdentityTable \in Frames /\ MayLead(p, Translate(p))
    BY <1>3, TableFacts, KernelLanding DEF CoreInv
  <2>2. ASSUME NEW q \in Frames
        PROVE  /\ mem'[IdentityTable][q] # Absent => MayLead(q, mem'[IdentityTable][q])
               /\ tlb'[q] # Absent => MayLead(q, tlb'[q])
               /\ q \in IdentityTable .. HoleStart - 1 => mem'[IdentityTable][q] = q
    <3>1. /\ mem[IdentityTable][q] # Absent => MayLead(q, mem[IdentityTable][q])
          /\ tlb[q] # Absent => MayLead(q, tlb[q])
          /\ q \in IdentityTable .. HoleStart - 1 => mem[IdentityTable][q] = q
      BY DEF CoreInv, KernelInv
    <3>2. tlb'[q] = IF q = p THEN Translate(p) ELSE tlb[q]
      BY <1>2, PageFacts
    <3>3. mem'[IdentityTable] = IF IdentityTable = Translate(p) THEN c ELSE mem[IdentityTable]
      BY <1>2, <2>1
    <3> QED
      BY <2>1, <3>1, <3>2, <3>3
  <2> QED
    BY <2>2, <1>6 DEF KernelInv
<1>8. CacheInv'
  <2>1. \A v \in Clients : tlb'[v] = tlb[v]
    BY <1>1, <1>2, PageFacts
  <2>2. CacheInv
    BY DEF CoreInv
  <2>3. \A v \in Clients : tlb'[v] # Absent => tlb'[v] = Walk(v)' \/ Has("invlpg", v)'
    BY <2>1, <2>2, <1>5 DEF CacheInv
  <2>4. \A v \in FilePages : mapped'[v] # Absent /\ pd'[Dir(v)] = Absent => Has("touch", v)'
    BY <2>2, <1>3, <1>5 DEF CacheInv
  <2>5. \A e \in Items(todo') : (Moving(e) \/ e.op = "handle_fault") /\ e.page \in Clients => tlb'[e.page] = Absent
    BY <2>1, <2>2, <1>4 DEF CacheInv
  <2>6. \A e \in Items(todo') : e.op = "clear" => \A v \in Clients : pd'[Dir(v)] = e.page => tlb'[v] = Absent
    BY <2>1, <2>2, <1>3, <1>4 DEF CacheInv
  <2>7. /\ tlb'[StackPage] = Absent
        /\ \A v \in FilePages : v >= file_page' => tlb'[v] = Absent /\ mapped'[v] = Absent
    BY <2>1, <2>2, <1>3 DEF CacheInv, Clients
  <2> QED
    BY <2>3, <2>4, <2>5, <2>6, <2>7 DEF CacheInv
<1> QED
  BY <1>2, <1>4, <1>6, <1>7, <1>8 DEF CoreInv

(* What the pages lead to after an access has landed.                      *)
LEMMA WalkAfterLanding ==
    ASSUME StateInv, TablesInv, KernelInv, ShapeInv, todo # <<>>,
           NEW p \in Frames, NEW c \in Content, Lands(p, c), NEW v \in Pages
    PROVE  Walk(v)' = IF pd[Dir(v)] # Absent /\ pd[Dir(v)] = Translate(p)
                      THEN c[Index(v)] ELSE Walk(v)
<1>1. \A f \in Frames : mem'[f] = IF f = Translate(p) THEN c ELSE mem[f]
  BY LandingTypes, PageFacts
<1>2. pd' = pd /\ pd[Dir(v)] \in Frames \cup {Absent}
  BY WalkTypes DEF Lands
<1> QED
  BY <1>1, <1>2 DEF Walk

-----------------------------------------------------------------------------
(* Allocation: the frame is new, or frame 0, which is no table.            *)

LEMMA AllocatedFrame ==
    ASSUME StateInv, TablesInv, NEW f \in Frames, allocate_blocks(f, 1)
    PROVE  /\ next \in Nat /\ next' \in LowestFree .. RamTop /\ next' \in Nat /\ next <= next'
           /\ f \notin Tables /\ f < next' /\ f \in Nat
           /\ ranDry' \in BOOLEAN /\ (ranDry => ranDry')
           /\ ~ranDry' => f # 0
           /\ f # 0 => f = next /\ next' = next + 1 /\ ranDry' = ranDry /\ f >= LowestFree
           /\ f = 0 => next' = next
<1>1. next \in LowestFree .. RamTop /\ next \in Nat /\ f \in Nat /\ ranDry \in BOOLEAN
  BY SizeFacts DEF StateInv, Frames
<1>2. 0 \notin Tables /\ next \notin Tables
  BY <1>1, TableFacts, SizeFacts
<1>3. \/ f = next /\ next' = next + 1 /\ next + 1 <= RamTop /\ ranDry' = ranDry
      \/ f = 0 /\ next' = next /\ ranDry' = TRUE
  BY DEF allocate_blocks
<1>4. LowestFree \in Nat /\ LowestFree >= 2 /\ RamTop \in Nat
  BY SizeFacts
<1>5. CASE f = next /\ next' = next + 1 /\ next + 1 <= RamTop /\ ranDry' = ranDry
  <2>1. next' \in LowestFree .. RamTop /\ next' \in Nat /\ next <= next' /\ f < next' /\ f >= LowestFree /\ f # 0
    BY <1>5, <1>1, <1>4
  <2> QED
    BY <2>1, <1>5, <1>1, <1>2
<1>6. CASE f = 0 /\ next' = next /\ ranDry' = TRUE
  <2>1. next' \in LowestFree .. RamTop /\ next' \in Nat /\ next <= next' /\ f < next'
    BY <1>6, <1>1, <1>4
  <2> QED
    BY <2>1, <1>6, <1>1, <1>2
<1> QED
  BY <1>3, <1>5, <1>6

LEMMA GrownTables ==
    ASSUME StateInv, TablesInv, next' \in LowestFree .. RamTop, next <= next', pd' = pd
    PROVE  /\ Tables' = Tables /\ TablesInv'
           /\ \A p, x : x \in Frames /\ MayLead(p, x) => MayLead(p, x)'
           /\ \A e : Fits(e) /\ file_page' = file_page /\ mapped' = mapped => Fits(e)'
<1>1. Tables' = Tables
  BY DEF Tables
<1>2. next \in Nat /\ next' \in Nat /\ pd \in [Dirs -> Frames \cup {Absent}]
  BY SizeFacts DEF StateInv
<1>3. \A x \in Frames : x \in Int
  BY DEF Frames
<1>4. \A p, x : x \in Frames /\ MayLead(p, x) => MayLead(p, x)'
  BY <1>1, <1>2, <1>3 DEF MayLead
<1>5. TablesInv'
  BY <1>2, <1>3, SizeFacts DEF TablesInv
<1>6. ASSUME NEW e, Fits(e), file_page' = file_page, mapped' = mapped
      PROVE  Fits(e)'
  <2>1. e.frame \in Frames /\ MayLead(e.page, e.frame) => MayLead(e.page, e.frame)'
    BY <1>4
  <2>2. pd' = pd /\ file_page' = file_page /\ mapped' = mapped /\ Tables' = Tables
    BY <1>1, <1>6
  <2> QED
    BY <1>6, <2>1, <2>2 DEF Fits
<1> QED
  BY <1>1, <1>4, <1>5, <1>6

LEMMA NewTable ==
    ASSUME StateInv, TablesInv, NEW d \in Dirs \ {0}, NEW t \in Frames, pd[d] = Absent,
           t = next, next' = next + 1, next' \in LowestFree .. RamTop, pd' = [pd EXCEPT ![d] = t]
    PROVE  /\ Tables' = Tables \cup {t} /\ t \notin Tables /\ TablesInv'
           /\ pd' \in [Dirs -> Frames \cup {Absent}]
           /\ \A x \in Frames : x \in Tables' /\ x # t => x \in Tables
           /\ \A p, x : x \in Frames /\ MayLead(p, x) => MayLead(p, x)'
           /\ MayLead(t, t)'
<1>1. pd \in [Dirs -> Frames \cup {Absent}] /\ t # Absent /\ next \in Nat /\ t \in Nat
  BY SizeFacts DEF StateInv, Frames
<1>2. \A e \in Dirs : pd'[e] = IF e = d THEN t ELSE pd[e]
  BY <1>1
<1>3. Tables' = Tables \cup {t}
  <2>1. ASSUME NEW x \in Tables'
        PROVE  x \in Tables \cup {t}
    BY <2>1, <1>2 DEF Tables
  <2>2. ASSUME NEW x \in Tables
        PROVE  x \in Tables'
    <3>1. PICK e \in Dirs : x = pd[e] /\ x # Absent
      BY DEF Tables
    <3>2. e # d
      BY <3>1
    <3> QED
      BY <3>1, <3>2, <1>2 DEF Tables
  <2>3. t \in Tables'
    BY <1>1, <1>2 DEF Tables
  <2> QED
    BY <2>1, <2>2, <2>3
<1>4. \A x \in Tables : x \in Nat /\ x < next
  BY TableFacts
<1>5. t \notin Tables
  BY <1>1, <1>4
<1>6. \A x \in Frames : x \in Int
  BY DEF Frames
<1>7. \A p, x : x \in Frames /\ MayLead(p, x) => MayLead(p, x)'
  BY <1>1, <1>3, <1>6 DEF MayLead
<1>8. MayLead(t, t)'
  BY DEF MayLead
<1>9. TablesInv'
  <2>1. pd'[0] = IdentityTable
    BY <1>2, PageFacts DEF TablesInv
  <2>2. ASSUME NEW e \in Dirs \ {0}, pd'[e] # Absent
        PROVE  LowestFree <= pd'[e] /\ pd'[e] < next'
    <3>1. CASE e = d
      <4>1. next >= LowestFree
        BY DEF StateInv
      <4> QED
        BY <3>1, <4>1, <1>1, <1>2, SizeFacts
    <3>2. CASE e # d
      <4>1. pd'[e] = pd[e] /\ LowestFree <= pd[e] /\ pd[e] < next
        BY <3>2, <2>2, <1>2 DEF TablesInv
      <4>2. pd[e] \in Int
        BY <1>1, <1>6, SizeFacts
      <4> QED
        BY <4>1, <4>2, <1>1
    <3> QED
      BY <3>1, <3>2
  <2>3. ASSUME NEW a \in Dirs, NEW b \in Dirs, pd'[a] = pd'[b], pd'[a] # Absent
        PROVE  a = b
    <3>1. CASE a # d /\ b # d
      BY <3>1, <2>3, <1>2 DEF TablesInv
    <3>2. \A e \in Dirs : e # d /\ pd'[e] # Absent => pd'[e] \in Tables
      BY <1>2 DEF Tables
    <3>3. CASE (a = d /\ b # d) \/ (a # d /\ b = d)
      BY <3>2, <3>3, <2>3, <1>2, <1>5
    <3> QED
      BY <3>1, <3>3
  <2> QED
    BY <2>1, <2>2, <2>3 DEF TablesInv
<1>10. pd' \in [Dirs -> Frames \cup {Absent}]
  BY <1>1
<1> QED
  BY <1>3, <1>5, <1>7, <1>8, <1>9, <1>10

LEMMA KernelInvKept ==
    ASSUME StateInv, KernelInv, IdentityTable \in Frames, UNCHANGED <<mem, tlb>>,
           \A p, x : x \in Frames /\ MayLead(p, x) => MayLead(p, x)'
    PROVE  KernelInv'
<1>1. \A p \in Frames : /\ mem[IdentityTable][p] \in Frames \cup {Absent}
                        /\ tlb[p] \in Frames \cup {Absent}
  <2>1. \A p \in Frames : p \in Pages /\ p \in 0 .. ENTRIES - 1
    BY PageFacts DEF Frames
  <2>2. mem[IdentityTable] \in Content /\ tlb \in [Pages -> Frames \cup {Absent}]
    BY DEF StateInv
  <2> QED
    BY <2>1, <2>2 DEF Content
<1> QED
  BY <1>1 DEF KernelInv

LEMMA PopKeepsCore ==
    ASSUME CoreInv, todo # <<>>, todo' = Tail(todo), Head(todo).op \notin {"touch", "invlpg"},
           UNCHANGED <<pd, mem, tlb, next, file_page, heap_page, mapped>>, ranDry' \in BOOLEAN
    PROVE  CoreInv'
<1>1. /\ todo' \in Seq(Task) /\ ShapeInv' /\ TaskInv' /\ PairInv'
      /\ Items(todo') \subseteq Items(todo)
      /\ \A o, v : Has(o, v) => Has(o, v)' \/ (Head(todo).op = o /\ Head(todo).page = v)
  BY PopTasks DEF CoreInv, StateInv
<1>2. TablesInv' /\ \A p, x : MayLead(p, x) => MayLead(p, x)'
  BY SameTables DEF CoreInv
<1>3. KernelInv'
  BY <1>2, KernelInvKept, TableFacts DEF CoreInv
<1>4. StateInv'
  BY <1>1 DEF CoreInv, StateInv
<1>5. CacheInv'
  <2>1. \A v : Walk(v)' = Walk(v)
    BY DEF Walk
  <2>2. \A v : (Has("touch", v) => Has("touch", v)') /\ (Has("invlpg", v) => Has("invlpg", v)')
    BY <1>1
  <2> QED
    BY <2>1, <2>2, <1>1 DEF CoreInv, CacheInv
<1> QED
  BY <1>1, <1>2, <1>3, <1>4, <1>5 DEF CoreInv

-----------------------------------------------------------------------------
(* Every step keeps the core invariant.                                    *)

LEMMA TouchKeepsCore == CoreInv /\ Touch => CoreInv'
<1> SUFFICES ASSUME CoreInv, Touch PROVE CoreInv'
  OBVIOUS
<1>a. PICK e : e = Head(todo)
  OBVIOUS
<1>b. PICK v : v = e.page
  OBVIOUS
<1>1. todo # <<>> /\ e.op = "touch" /\ (Faults(v) \/ Lands(v, mem[Translate(v)]))
  BY <1>a, <1>b, Effects DEF Doing
<1>2. /\ e \in Task /\ Items(todo) = {e} \cup Items(Tail(todo)) /\ Rank(e) = 1
      /\ todo \in Seq(Task) /\ ShapeInv
  BY <1>1, <1>a, StackFacts, RankValues DEF CoreInv, StateInv
<1>3. /\ v \in Clients /\ v # StackPage /\ v \in Pages /\ ~KernelPage(v) /\ v \notin Frames
      /\ (v \in FilePages => v < file_page /\ mapped[v] # Absent)
  BY <1>1, <1>2, <1>b, PageFacts DEF CoreInv, TaskInv, Fits
<1>4. Items(Tail(todo)) = {} /\ Items(todo) = {e}
  BY <1>1, <1>2, <1>a, HeadOfRankOneIsAlone
<1>5. StateInv /\ TablesInv /\ KernelInv /\ CacheInv
  BY DEF CoreInv
<1>6. CASE Faults(v)
  <2> DEFINE h == On("handle_fault", v)
  <2>1. h \in Task /\ h.op = "handle_fault" /\ h.page = v
    BY <1>3, OpsAreTasks DEF Ops
  <2> HIDE DEF h
  <2>2. Rank(h) = 2 /\ ~Moving(h)
    BY <1>3, <2>1, RankValues DEF Moving
  <2>3. todo' \in Seq(Task) /\ ShapeInv' /\ Items(todo') = {h} \cup Items(todo)
    BY <1>1, <1>2, <1>6, <1>a, <2>1, <2>2, PushShape DEF Faults, h
  <2>4. UNCHANGED <<pd, mem, tlb, next, file_page, heap_page, mapped, ranDry>>
    BY <1>6 DEF Faults
  <2>5. Fits(h)
    BY <1>3, <2>1, <2>2 DEF Fits
  <2>6. TablesInv' /\ TaskInv'
    BY <2>3, <2>4, <2>5, SameTables DEF TaskInv, CoreInv
  <2>7. Has("touch", v)'
    BY <1>1, <1>4, <1>b, <2>3 DEF Has
  <2>8. PairInv'
    <3>1. \A a \in Items(todo') : a = h \/ a = e
      BY <1>4, <2>3
    <3> QED
      BY <1>1, <1>b, <2>1, <2>7, <3>1 DEF PairInv
  <2>9. KernelInv'
    BY <1>5, <2>4, SameTables DEF KernelInv
  <2>10. CacheInv'
    <3>1. \A w : Walk(w)' = Walk(w) /\ (Has("invlpg", w) => FALSE) /\ (Has("touch", w) => Has("touch", w)')
      BY <1>1, <1>4, <2>3, <2>4 DEF Walk, Has
    <3>2. tlb[v] = Absent
      BY <1>3, <1>5, <1>6, WalkTypes DEF Faults
    <3>3. \A a \in Items(todo') : a.op # "clear" /\ (Moving(a) \/ a.op = "handle_fault" => a.page = v)
      BY <1>1, <1>4, <2>1, <2>3 DEF Moving
    <3> QED
      BY <1>5, <2>4, <3>1, <3>2, <3>3 DEF CacheInv
  <2>11. StateInv'
    BY <1>5, <2>3, <2>4 DEF StateInv
  <2> QED
    BY <2>3, <2>6, <2>8, <2>9, <2>10, <2>11 DEF CoreInv
<1>7. CASE Lands(v, mem[Translate(v)])
  <2>1. Translate(v) \in Frames /\ mem[Translate(v)] \in Content /\ Translate(v) # Absent
    BY <1>3, <1>5, <1>7, WalkTypes DEF Lands, StateInv
  <2>2. /\ StateInv'
        /\ \A f \in Frames : mem'[f] = IF f = Translate(v) THEN mem[Translate(v)] ELSE mem[f]
        /\ \A w \in Pages : tlb'[w] = IF w = v THEN Translate(v) ELSE tlb[w]
    BY <1>1, <1>2, <1>3, <1>5, <1>7, <2>1, LandingTypes
  <2>3. UNCHANGED <<pd, next, file_page, mapped>> /\ todo' = Tail(todo) /\ Items(todo') = {}
    BY <1>4, <1>7 DEF Lands
  <2>4. todo' \in Seq(Task) /\ ShapeInv' /\ TaskInv' /\ PairInv'
    BY <1>1, <2>3, PopTasks DEF CoreInv, StateInv
  <2>5. TablesInv' /\ \A p, x : MayLead(p, x) => MayLead(p, x)'
    BY <1>5, <2>3, SameTables
  <2>6. mem' = mem
    BY <2>1, <1>5, <1>7 DEF Lands, StateInv
  <2>7. KernelInv'
    <3>1. \A p \in Frames : tlb'[p] = tlb[p]
      BY <1>3, <2>2, PageFacts
    <3> QED
      BY <1>5, <2>5, <2>6, <3>1 DEF KernelInv
  <2>8. \A w : Walk(w)' = Walk(w)
    BY <2>3, <2>6 DEF Walk
  <2>9. \A w \in Clients : w \in Pages /\ tlb'[w] = IF w = v THEN Translate(v) ELSE tlb[w]
    BY <2>2, PageFacts
  <2>10. \A w : ~Has("invlpg", w) /\ (w # v => ~Has("touch", w))
    BY <1>1, <1>4, <1>b DEF Has
  <2>11. Translate(v) = Walk(v)
    BY <1>3, <1>5, <2>10, WalkTypes DEF CacheInv
  <2>12. pd[Dir(v)] # Absent
    BY <2>1, <2>11 DEF Walk
  <2>13. CacheInv'
    <3>1. \A w \in Clients : tlb'[w] # Absent => tlb'[w] = Walk(w)'
      BY <1>5, <2>8, <2>9, <2>10, <2>11 DEF CacheInv
    <3>2. tlb'[StackPage] = Absent
      BY <1>3, <1>5, <2>9 DEF CacheInv, Clients
    <3>3. \A w \in FilePages : w >= file_page' => tlb'[w] = Absent /\ mapped'[w] = Absent
      <4>1. v \in FilePages => ~(v >= file_page)
        BY <1>3, <1>5, PageFacts DEF StateInv
      <4> QED
        BY <1>5, <2>3, <2>9, <4>1 DEF CacheInv, Clients
    <3>4. \A w \in FilePages : mapped'[w] # Absent => pd'[Dir(w)] # Absent
      BY <1>5, <2>3, <2>10, <2>12 DEF CacheInv
    <3> QED
      BY <2>3, <3>1, <3>2, <3>3, <3>4 DEF CacheInv
  <2> QED
    BY <2>2, <2>4, <2>5, <2>7, <2>13 DEF CoreInv
<1> QED
  BY <1>1, <1>6, <1>7

(* The tasks that clear and the stores of clients' entries access the      *)
(* frame of a table, or the one behind it, through its own address.        *)
LEMMA ClearsKeepCore == CoreInv /\ (Clear \/ ClearTail) => CoreInv'
<1> SUFFICES ASSUME CoreInv, Clear \/ ClearTail PROVE CoreInv'
  OBVIOUS
<1> DEFINE e == Head(todo)  p == e.page  g == Translate(p)
<1>1. /\ todo # <<>> /\ e.op \in {"clear", "clear_tail"}
      /\ \/ Faults(p)
         \/ e.op = "clear" /\ Lands(p, Cleared(mem[g]))
         \/ e.op = "clear_tail" /\ Lands(p, Wiped(mem[g]))
  BY Effects DEF Doing
<1>2. e \in Task /\ e \in Items(todo) /\ Rank(e) \in {5, 6}
  BY <1>1, StackFacts, RankValues DEF CoreInv, StateInv
<1>3. Fits(e)
  BY <1>2 DEF CoreInv, TaskInv
<1>4. StateInv /\ TablesInv /\ KernelInv /\ ShapeInv /\ CacheInv
  BY DEF CoreInv
<1>5. /\ p \in Frames /\ p \in Nat /\ p >= IdentityTable /\ p # IdentityTable
      /\ (e.op = "clear" => p \in Tables) /\ (e.op = "clear_tail" => p \notin Tables)
  <2>1. CASE e.op = "clear"
    BY <2>1, <1>3, <1>4, TableFacts DEF Fits
  <2>2. CASE e.op = "clear_tail"
    BY <2>2, <1>3, SizeFacts DEF Fits, Frames
  <2> QED
    BY <1>1, <2>1, <2>2
<1>6. CASE Faults(p)
  BY <1>1, <1>2, <1>5, <1>6, FaultKeepsCore
<1>7. ASSUME NEW c \in Content, Lands(p, c)
      PROVE  CoreInv'
  <2>1. /\ g \in Tables => g = p
        /\ IdentityTable \in Tables
    BY <1>4, <1>5, KernelLanding, TableFacts
  <2>2. g # IdentityTable
    BY <2>1, <1>5
  <2>3. ASSUME NEW v \in Clients, tlb[v] # Absent
        PROVE  Walk(v)' = Walk(v)
    <3>1. v \in Pages /\ (pd[Dir(v)] # Absent => pd[Dir(v)] \in Tables)
      BY <1>4, PageFacts, TableFacts
    <3>2. e.op = "clear" => pd[Dir(v)] # p
      BY <1>2, <1>4, <2>3 DEF CacheInv
    <3>3. ~(pd[Dir(v)] # Absent /\ pd[Dir(v)] = g)
      BY <1>1, <1>5, <2>1, <3>1, <3>2
    <3> HIDE DEF p, g
    <3> QED
      BY <1>1, <1>4, <1>5, <1>7, <3>1, <3>3, WalkAfterLanding DEF g
  <2> HIDE DEF p, g
  <2> QED
    BY <1>1, <1>5, <1>7, <2>2, <2>3, LandingKeepsCore DEF g
<1>8. CASE Lands(p, Cleared(mem[g])) \/ Lands(p, Wiped(mem[g]))
  <2>1. g \in Frames
    BY <1>4, <1>5, <1>8, KernelLanding DEF Lands
  <2>2. mem[g] \in Content
    BY <1>4, <2>1 DEF StateInv
  <2>3. Cleared(mem[g]) \in Content /\ Wiped(mem[g]) \in Content
    BY <2>2, SizeFacts, ContentKinds DEF Frames
  <2> QED
    BY <1>7, <1>8, <2>3
<1> QED
  BY <1>1, <1>6, <1>8

(* A store of an entry, f or none, for page v: through the first table for *)
(* a page of the first entry, else through the page that equals the table. *)
LEMMA EntryStoreKeepsCore ==
    ASSUME CoreInv, todo # <<>>, NEW e, e = Head(todo), e.op \in {"store", "unmap"},
           NEW v \in Pages, v = e.page, NEW f \in Frames \cup {Absent},
           e.op = "store" => f = e.frame, e.op = "unmap" => f = Absent,
           Faults(pd[Dir(v)]) \/ Lands(pd[Dir(v)], With(mem[Translate(pd[Dir(v)])], Index(v), f))
    PROVE  CoreInv'
<1>a. PICK p : p = pd[Dir(v)]
  OBVIOUS
<1>b. PICK g : g = Translate(p)
  OBVIOUS
<1>1. e \in Task /\ e \in Items(todo) /\ Rank(e) \in {2, 3, 4} /\ (e.op = "unmap" => Rank(e) = 2)
      /\ (Rank(e) = 4 <=> e.op = "store" /\ KernelPage(v))
  BY StackFacts, RankValues DEF CoreInv, StateInv, Moving
<1>2. Fits(e)
  BY <1>1 DEF CoreInv, TaskInv
<1>3. StateInv /\ TablesInv /\ KernelInv /\ ShapeInv /\ CacheInv
  BY DEF CoreInv
<1>4. p \in Tables /\ p \in Frames /\ p \in Nat /\ p >= IdentityTable /\ p # Absent
  <2>1. p # Absent
    BY <1>2, <1>a DEF Fits
  <2> QED
    BY <2>1, <1>3, <1>a, TableFacts
<1>5. /\ e.op = "unmap" => v \in FilePages /\ v \in Clients /\ ~KernelPage(v)
      /\ ~KernelPage(v) => v \in Clients /\ p # IdentityTable
      /\ KernelPage(v) => v \in Frames /\ p = IdentityTable /\ Index(v) = v
  <2>1. e.op = "unmap" => v \in FilePages /\ v \in Clients /\ ~KernelPage(v)
    BY <1>2, PageFacts DEF Fits, Clients
  <2>2. ~KernelPage(v) => v \in Clients
    BY <1>2, <2>1 DEF Fits, Moving
  <2> QED
    BY <2>1, <2>2, <1>3, <1>a, PageFacts, TableFacts
<1>6. KernelPage(v) => g = IdentityTable /\ g # Absent
  <2>1. IdentityTable \in IdentityTable .. HoleStart - 1
    BY SizeFacts
  <2> QED
    BY <2>1, <1>3, <1>4, <1>5, <1>b, KernelLanding, SizeFacts
<1>7. CASE Faults(p)
  <2>1. ~KernelPage(v)
    BY <1>6, <1>7, <1>b DEF Faults
  <2>2. Rank(e) < 7 /\ Rank(e) # 4
    BY <1>1, <2>1
  <2> QED
    BY <2>2, <1>4, <1>7, FaultKeepsCore
<1>8. CASE Lands(p, With(mem[g], Index(v), f))
  <2>1. PICK c : c = With(mem[g], Index(v), f)
    OBVIOUS
  <2>2. Index(v) \in 0 .. ENTRIES - 1
    BY PageFacts
  <2>3. g \in Frames /\ mem[g] \in Content
    BY <1>3, <1>4, <1>8, <1>b, KernelLanding DEF Lands, StateInv
  <2>4. c \in Content /\ \A y \in 0 .. ENTRIES - 1 : c[y] = IF y = Index(v) THEN f ELSE mem[g][y]
    <3>1. PICK m \in Content : m = mem[g]
      BY <2>3
    <3>2. PICK x \in 0 .. ENTRIES - 1 : x = Index(v)
      BY <2>2
    <3>3. With(m, x, f) \in Content
      BY <3>1, <3>2, WithOneEntry
    <3>4. \A y \in 0 .. ENTRIES - 1 : With(m, x, f)[y] = IF y = x THEN f ELSE m[y]
      BY <3>1, <3>2, WithOneEntry
    <3> QED
      BY <2>1, <3>1, <3>2, <3>3, <3>4
  <2>5. Lands(p, c)
    BY <1>8, <2>1
  <2>6. g \in Tables => g = p
    BY <1>3, <1>4, <1>b, KernelLanding
  <2>7. g = IdentityTable => KernelPage(v) /\ e.op = "store"
    BY <2>6, <1>5, <1>3, <1>4, TableFacts
  <2>8. ASSUME g = IdentityTable, NEW y \in Frames
        PROVE  /\ c[y] # Absent => MayLead(y, c[y])
               /\ y \in IdentityTable .. HoleStart - 1 => c[y] = y
    <3>1. v \in Frames /\ Index(v) = v /\ KernelPage(v) /\ e.op = "store"
      BY <2>7, <2>8, <1>5
    <3>2. f = e.frame /\ v # IdentityTable /\ MayLead(v, f)
      BY <3>1, <1>2 DEF Fits, Moving
    <3>3. c[y] = IF y = v THEN f ELSE mem[IdentityTable][y]
      BY <2>4, <2>8, <3>1 DEF Frames
    <3>4. y # v => /\ mem[IdentityTable][y] # Absent => MayLead(y, mem[IdentityTable][y])
                   /\ y \in IdentityTable .. HoleStart - 1 => mem[IdentityTable][y] = y
      BY <1>3 DEF KernelInv
    <3>5. v \in IdentityTable .. HoleStart - 1 => f = v
      BY <3>2 DEF MayLead
    <3> QED
      BY <3>2, <3>3, <3>4, <3>5
  <2>9. ASSUME NEW w \in Clients, tlb[w] # Absent, ~Has("invlpg", w)
        PROVE  Walk(w)' = Walk(w)
    <3>1. w \in Pages /\ pd[Dir(w)] # IdentityTable /\ (pd[Dir(w)] # Absent => pd[Dir(w)] \in Tables)
      BY <1>3, PageFacts, TableFacts
    <3>2. Walk(w)' = IF pd[Dir(w)] # Absent /\ pd[Dir(w)] = g THEN c[Index(w)] ELSE Walk(w)
      BY <1>3, <1>4, <2>4, <2>5, <1>b, <3>1, WalkAfterLanding
    <3>3. CASE pd[Dir(w)] # Absent /\ pd[Dir(w)] = g
      <4>1. g = p /\ g # IdentityTable /\ v \in Clients
        BY <3>1, <3>3, <2>6, <1>5
      <4>2. Dir(w) = Dir(v)
        BY <3>3, <4>1, <3>1, <1>3, <1>a, PageFacts DEF TablesInv
      <4>3. w # v
        <5>1. CASE e.op = "store"
          <6>1. tlb[v] = Absent
            BY <5>1, <4>1, <1>1, <1>3 DEF CacheInv, Moving
          <6> QED
            BY <6>1, <2>9
        <5>2. CASE e.op = "unmap"
          <6>1. Has("invlpg", v)
            BY <5>2, <1>1 DEF CoreInv, PairInv
          <6> QED
            BY <6>1, <2>9
        <5> QED
          BY <5>1, <5>2
      <4>4. Index(w) # Index(v) /\ Index(w) \in 0 .. ENTRIES - 1
        BY <4>2, <4>3, <3>1, PageFacts
      <4>5. Walk(w) = mem[g][Index(w)]
        BY <3>3 DEF Walk
      <4> QED
        BY <3>2, <3>3, <4>4, <4>5, <2>4
    <3> QED
      BY <3>2, <3>3
  <2>10. \A w \in Clients : tlb[w] # Absent => Walk(w)' = Walk(w) \/ Has("invlpg", w)
    BY <2>9
  <2>11. Translate(p) = IdentityTable => \A y \in Frames :
               /\ c[y] # Absent => MayLead(y, c[y])
               /\ y \in IdentityTable .. HoleStart - 1 => c[y] = y
    BY <2>8, <1>b
  <2>12. Head(todo).op \notin {"touch", "invlpg"}
    OBVIOUS
  <2> QED
    BY <1>4, <2>4, <2>5, <2>10, <2>11, <2>12, LandingKeepsCore
<1> QED
  BY <1>7, <1>8, <1>a, <1>b

LEMMA StoresKeepCore == CoreInv /\ (StoreEntry \/ unmap_page) => CoreInv'
<1> SUFFICES ASSUME CoreInv, StoreEntry \/ unmap_page PROVE CoreInv'
  OBVIOUS
<1>1. PICK e : e = Head(todo)
  OBVIOUS
<1>2. PICK v : v = e.page
  OBVIOUS
<1>3. todo # <<>> /\ e.op \in {"store", "unmap"}
  BY <1>1, Effects DEF Doing
<1>4. e \in Task /\ e \in Items(todo)
  BY <1>1, <1>3, StackFacts DEF CoreInv, StateInv
<1>5. v \in Pages /\ (e.op = "store" => e.frame \in Frames)
  <2>1. Fits(e)
    BY <1>4 DEF CoreInv, TaskInv
  <2> QED
    BY <1>2, <1>4, <2>1 DEF Task, Fits, Moving
<1>6. CASE StoreEntry
  <2>1. e.op = "store"
    BY <1>1, <1>6, Effects DEF Doing
  <2>2. Faults(pd[Dir(v)]) \/ Lands(pd[Dir(v)], With(mem[Translate(pd[Dir(v)])], Index(v), e.frame))
    BY <1>1, <1>2, <1>6, Effects
  <2>3. e.frame \in Frames \cup {Absent}
    BY <2>1, <1>5
  <2> QED
    BY <1>1, <1>2, <1>3, <1>5, <2>1, <2>2, <2>3, EntryStoreKeepsCore
<1>7. CASE unmap_page
  <2>1. e.op = "unmap"
    BY <1>1, <1>7, Effects DEF Doing
  <2>2. Faults(pd[Dir(v)]) \/ Lands(pd[Dir(v)], With(mem[Translate(pd[Dir(v)])], Index(v), Absent))
    BY <1>1, <1>2, <1>7, Effects
  <2>3. Absent \in Frames \cup {Absent}
    OBVIOUS
  <2> QED
    BY <1>1, <1>2, <1>3, <1>5, <2>1, <2>2, <2>3, EntryStoreKeepsCore
<1> QED
  BY <1>6, <1>7

LEMMA MapKeepsCore == CoreInv /\ map_address => CoreInv'
<1> SUFFICES ASSUME CoreInv, map_address PROVE CoreInv'
  OBVIOUS
<1>a. PICK e : e = Head(todo)
  OBVIOUS
<1>b. PICK v : v = e.page
  OBVIOUS
<1>c. PICK f : f = e.frame
  OBVIOUS
<1>d. PICK r : r = Tail(todo)
  OBVIOUS
<1>1. /\ todo # <<>> /\ e.op = "map"
      /\ UNCHANGED <<mem, tlb, file_page, heap_page, mapped>>
  BY <1>a DEF map_address, Doing
<1>2. /\ e \in Task /\ e \in Items(todo) /\ Items(todo) = {e} \cup Items(r)
      /\ r \in Seq(Task) /\ Descending(r) /\ todo \in Seq(Task) /\ Moving(e)
  BY <1>1, <1>a, <1>d, StackFacts DEF CoreInv, StateInv, Moving
<1>3. StateInv /\ TablesInv /\ ShapeInv /\ TaskInv /\ PairInv /\ KernelInv /\ CacheInv
  BY DEF CoreInv
<1>4. /\ Fits(e) /\ v \in Pages /\ f \in Frames
      /\ Rank(e) = IF KernelPage(v) THEN 4 ELSE 3
  BY <1>2, <1>3, <1>b, <1>c, RankValues DEF TaskInv, Fits, Task
<1>5. IdentityTable \in Frames
  BY <1>3, TableFacts
<1>6. CASE pd[Dir(v)] # Absent
  <2>1. todo' = <<Store(f, v)>> \o r /\ UNCHANGED <<pd, next, ranDry>>
    BY <1>6, <1>a, <1>b, <1>c, <1>d DEF map_address
  <2>2. PICK s : s = Store(f, v)
    OBVIOUS
  <2>3. s \in Task /\ s.op = "store" /\ s.frame = f /\ s.page = v
    BY <2>2, <1>4, OpsAreTasks
  <2>4. Moving(s) /\ Rank(s) = Rank(e)
    BY <2>3, <1>4, RankValues DEF Moving
  <2>5. todo' \in Seq(Task) /\ ShapeInv' /\ Items(todo') = {s} \cup Items(r)
    BY <2>1, <2>2, <2>3, <2>4, <1>1, <1>2, <1>3, <1>a, <1>d, ReplaceShape
  <2>6. Fits(s)
    BY <1>2, <1>4, <1>6, <2>3, <2>4, <1>b, <1>c DEF Fits
  <2>7. TaskInv' /\ TablesInv'
    BY <1>1, <1>2, <1>3, <2>1, <2>5, <2>6, SameTables DEF TaskInv
  <2>8. \A w : (Has("touch", w) => Has("touch", w)') /\ (Has("invlpg", w) => Has("invlpg", w)')
    BY <1>1, <1>2, <2>5 DEF Has
  <2>9. PairInv'
    BY <1>2, <1>3, <2>3, <2>5, <2>8 DEF PairInv
  <2>10. KernelInv'
    BY <1>1, <1>3, <2>1, SameTables DEF KernelInv
  <2>11. CacheInv'
    <3>1. \A w : Walk(w)' = Walk(w)
      BY <1>1, <2>1 DEF Walk
    <3>2. \A a \in Items(todo') : a \in Items(todo) \/ (a.page = v /\ a.op = "store")
      BY <1>2, <2>3, <2>5
    <3>3. v \in Clients => tlb[v] = Absent
      BY <1>2, <1>3, <1>b DEF CacheInv
    <3> QED
      BY <1>1, <1>3, <2>1, <2>8, <3>1, <3>2, <3>3 DEF CacheInv
  <2>12. StateInv'
    BY <1>1, <1>3, <2>1, <2>5 DEF StateInv
  <2> QED
    BY <2>5, <2>7, <2>9, <2>10, <2>11, <2>12 DEF CoreInv
<1>7. CASE pd[Dir(v)] = Absent
  <2>1. PICK t \in Frames :
          /\ allocate_blocks(t, 1)
          /\ IF t = 0 THEN todo' = r /\ UNCHANGED pd
             ELSE /\ pd' = [pd EXCEPT ![Dir(v)] = t]
                  /\ todo' = <<On("clear", t), On("clear_tail", t + 1), Map(t, t), Store(f, v)>> \o r
    BY <1>7, <1>a, <1>b, <1>c, <1>d DEF map_address
  <2>2. /\ next \in Nat /\ next' \in LowestFree .. RamTop /\ ranDry' \in BOOLEAN /\ t \in Nat
        /\ t # 0 => t = next /\ next' = next + 1 /\ t >= LowestFree
        /\ t = 0 => next' = next
    BY <1>3, <2>1, AllocatedFrame
  <2>3. CASE t = 0
    <3>1. Head(todo).op \notin {"touch", "invlpg"} /\ todo' = Tail(todo)
      BY <1>1, <1>a, <1>d, <2>1, <2>3
    <3>2. UNCHANGED <<pd, mem, tlb, next, file_page, heap_page, mapped>>
      BY <1>1, <2>1, <2>2, <2>3
    <3> QED
      BY <1>1, <2>2, <3>1, <3>2, PopKeepsCore
  <2>4. CASE t # 0
    <3>1. /\ pd' = [pd EXCEPT ![Dir(v)] = t]
          /\ todo' = <<On("clear", t), On("clear_tail", t + 1), Map(t, t), Store(f, v)>> \o r
      BY <2>1, <2>4
    <3>2. ~KernelPage(v) /\ v \in Clients /\ Dir(v) \in Dirs \ {0} /\ f = mapped[v] /\ tlb[v] = Absent
      <4>1. ~KernelPage(v)
        BY <1>3, <1>4, <1>5, <1>7, PageFacts, TableFacts, SizeFacts
      <4>2. v \in Clients /\ f = mapped[v]
        BY <4>1, <1>2, <1>4, <1>b, <1>c DEF Fits
      <4> QED
        BY <4>1, <4>2, <1>2, <1>3, <1>4, <1>b, PageFacts DEF CacheInv
    <3>3. /\ Tables' = Tables \cup {t} /\ t \notin Tables /\ TablesInv'
          /\ pd' \in [Dirs -> Frames \cup {Absent}]
          /\ \A p, x : x \in Frames /\ MayLead(p, x) => MayLead(p, x)'
          /\ MayLead(t, t)'
      BY <1>3, <1>7, <2>1, <2>2, <2>4, <3>1, <3>2, NewTable
    <3>4. t + 1 \in Frames /\ t + 1 \notin Tables' /\ t > IdentityTable /\ t + 1 > IdentityTable
      <4>1. \A x \in Tables : x \in Nat /\ x < next
        BY <1>3, TableFacts
      <4> QED
        BY <4>1, <2>2, <2>4, <3>3, SizeFacts DEF Frames
    <3>5. /\ t \in Pages /\ t + 1 \in Pages /\ KernelPage(t) /\ t \notin Clients
      BY <2>1, <3>4, PageFacts
    <3>6. PICK a, b, c, d : /\ a = On("clear", t) /\ b = On("clear_tail", t + 1)
                            /\ c = Map(t, t) /\ d = Store(f, v)
      OBVIOUS
    <3>7. /\ a \in Task /\ a.op = "clear" /\ a.page = t
          /\ b \in Task /\ b.op = "clear_tail" /\ b.page = t + 1
          /\ c \in Task /\ c.op = "map" /\ c.frame = t /\ c.page = t
          /\ d \in Task /\ d.op = "store" /\ d.frame = f /\ d.page = v
      <4>1. On("clear", t) \in Task /\ On("clear", t).op = "clear" /\ On("clear", t).page = t
        BY <3>5, OpsAreTasks DEF Ops
      <4>2. /\ On("clear_tail", t + 1) \in Task /\ On("clear_tail", t + 1).op = "clear_tail"
            /\ On("clear_tail", t + 1).page = t + 1
        BY <3>5, OpsAreTasks DEF Ops
      <4>3. Map(t, t) \in Task /\ Map(t, t).op = "map" /\ Map(t, t).frame = t /\ Map(t, t).page = t
        BY <2>1, <3>5, OpsAreTasks
      <4>4. /\ Store(f, v) \in Task /\ Store(f, v).op = "store"
            /\ Store(f, v).frame = f /\ Store(f, v).page = v
        BY <1>4, OpsAreTasks
      <4> QED
        BY <3>6, <4>1, <4>2, <4>3, <4>4
    <3>8. Rank(a) = 6 /\ Rank(b) = 5 /\ Rank(c) = 4 /\ Rank(d) = 3 /\ Moving(c) /\ Moving(d)
      BY <3>2, <3>5, <3>7, RankValues DEF Moving
    <3>9. \A x \in Items(r) : x \in Task /\ Rank(x) \in Int /\ Rank(x) < 3
      <4>1. Rank(e) = 3
        BY <1>4, <3>2
      <4> QED
        BY <4>1, <1>1, <1>2, <1>3, <1>a, <1>d, StackFacts, RankValues
    <3>10. /\ todo' \in Seq(Task) /\ Descending(todo')
           /\ Items(todo') = {a, b, c, d} \cup Items(r)
      <4>1. PICK r1 : r1 = <<d>> \o r
        OBVIOUS
      <4>2. r1 \in Seq(Task) /\ Items(r1) = {d} \cup Items(r) /\ Descending(r1)
        BY <4>1, <1>2, <3>7, <3>8, <3>9, PushItems, PushDescending
      <4>3. PICK r2 : r2 = <<c>> \o r1
        OBVIOUS
      <4>4. \A x \in Items(r1) : Rank(x) \in Int /\ Rank(x) < 4
        BY <4>2, <3>8, <3>9
      <4>5. r2 \in Seq(Task) /\ Items(r2) = {c} \cup Items(r1) /\ Descending(r2)
        BY <4>2, <4>3, <4>4, <3>7, <3>8, PushItems, PushDescending
      <4>6. PICK r3 : r3 = <<b>> \o r2
        OBVIOUS
      <4>7. \A x \in Items(r2) : Rank(x) \in Int /\ Rank(x) < 5
        BY <4>4, <4>5, <3>8
      <4>8. r3 \in Seq(Task) /\ Items(r3) = {b} \cup Items(r2) /\ Descending(r3)
        BY <4>5, <4>6, <4>7, <3>7, <3>8, PushItems, PushDescending
      <4>9. \A x \in Items(r3) : Rank(x) \in Int /\ Rank(x) < 6
        BY <4>7, <4>8, <3>8
      <4>10. PICK r4 : r4 = <<a>> \o r3
        OBVIOUS
      <4>11. r4 \in Seq(Task) /\ Items(r4) = {a} \cup Items(r3) /\ Descending(r4)
        BY <4>8, <4>9, <4>10, <3>7, <3>8, PushItems, PushDescending
      <4>12. todo' = r4
        <5>1. r \in Seq(Task) /\ a \in Task /\ b \in Task /\ c \in Task /\ d \in Task
          BY <1>2, <3>7
        <5>2. FourMore(a, b, c, d, r) = OneMore(a, OneMore(b, OneMore(c, OneMore(d, r))))
          BY <5>1, PushFour
        <5>3. todo' = FourMore(a, b, c, d, r)
          BY <3>1, <3>6 DEF FourMore
        <5>4. r1 = OneMore(d, r) /\ r2 = OneMore(c, r1) /\ r3 = OneMore(b, r2) /\ r4 = OneMore(a, r3)
          BY <4>1, <4>3, <4>6, <4>10 DEF OneMore
        <5> QED
          BY <5>2, <5>3, <5>4
      <4> QED
        BY <4>2, <4>5, <4>8, <4>11, <4>12
    <3>11. ShapeInv'
      BY <3>10 DEF ShapeInv
    <3>12. /\ \A x \in Dirs : pd'[x] = IF x = Dir(v) THEN t ELSE pd[x]
           /\ t # Absent
      BY <1>3, <2>2, <3>1, SizeFacts DEF StateInv
    <3>13. ASSUME NEW x \in Items(r)
           PROVE  Fits(x)'
      <4>1. Fits(x) /\ x \in Task /\ x.op \notin {"clear", "clear_tail"} /\ ~Moving(x)
        BY <1>2, <1>3, <3>9, RankValues DEF TaskInv
      <4>2. Dir(x.page) \in Dirs
        BY <4>1, PageFacts DEF Task
      <4>3. pd[Dir(x.page)] # Absent => pd'[Dir(x.page)] # Absent
        BY <4>2, <3>12
      <4> QED
        BY <4>1, <4>3, <1>1 DEF Fits
    <3>14. Fits(a)' /\ Fits(b)'
      <4>1. t \in Tables' /\ t # IdentityTable /\ ~Moving(a) /\ ~Moving(b)
        BY <3>3, <3>4, <3>7, SizeFacts DEF Moving
      <4>2. Fits(a)'
        BY <3>7, <4>1 DEF Fits
      <4>3. Fits(b)'
        BY <3>4, <3>7, <4>1 DEF Fits
      <4> QED
        BY <4>2, <4>3
    <3>15. Fits(c)'
      <4>1. t # IdentityTable
        BY <3>4, SizeFacts
      <4> QED
        BY <2>1, <3>3, <3>5, <3>7, <4>1 DEF Fits
    <3>16. Fits(d)'
      <4>1. pd'[Dir(v)] # Absent
        BY <3>2, <3>12
      <4> QED
        BY <1>1, <1>4, <3>2, <3>7, <4>1 DEF Fits
    <3>17. TaskInv'
      BY <3>10, <3>13, <3>14, <3>15, <3>16 DEF TaskInv
    <3>18. \A w : (Has("touch", w) => Has("touch", w)') /\ (Has("invlpg", w) => Has("invlpg", w)')
      BY <1>1, <1>2, <3>10 DEF Has
    <3>19. PairInv'
      BY <1>2, <1>3, <3>7, <3>10, <3>18 DEF PairInv
    <3>20. KernelInv'
      BY <1>1, <1>3, <1>5, <3>3, KernelInvKept
    <3>21. CacheInv'
      <4>1. ASSUME NEW w \in Clients, Dir(w) = Dir(v)
            PROVE  tlb[w] = Absent
        <5>1. Walk(w) = Absent
          BY <1>7, <4>1 DEF Walk
        <5>2. ~Has("invlpg", w)
          BY <1>3, <1>7, <4>1 DEF Has, TaskInv, Fits
        <5> QED
          BY <1>3, <5>1, <5>2 DEF CacheInv
      <4>2. ASSUME NEW w \in Clients, tlb'[w] # Absent
            PROVE  tlb'[w] = Walk(w)' \/ Has("invlpg", w)'
        <5>1. Dir(w) # Dir(v) /\ Dir(w) \in Dirs
          BY <1>1, <4>1, <4>2, PageFacts
        <5>2. Walk(w)' = Walk(w)
          BY <1>1, <3>12, <5>1 DEF Walk
        <5> QED
          BY <1>1, <1>3, <3>18, <4>2, <5>2 DEF CacheInv
      <4>3. ASSUME NEW x \in Items(todo'), Moving(x) \/ x.op = "handle_fault", x.page \in Clients
            PROVE  tlb'[x.page] = Absent
        <5>1. x.page = v \/ x \in Items(todo)
          BY <1>2, <3>5, <3>7, <3>10, <4>3 DEF Moving
        <5> QED
          BY <1>1, <1>3, <3>2, <4>3, <5>1 DEF CacheInv
      <4>4. ASSUME NEW x \in Items(todo'), x.op = "clear", NEW w \in Clients, pd'[Dir(w)] = x.page
            PROVE  tlb'[w] = Absent
        <5>1. x.page = t
          <6>1. x \notin Items(r)
            BY <3>9, <4>4, RankValues
          <6> QED
            BY <6>1, <3>7, <3>10, <4>4
        <5>2. Dir(w) = Dir(v)
          BY <1>3, <3>3, <3>12, <4>4, <5>1, PageFacts, TableFacts
        <5> QED
          BY <1>1, <4>1, <5>2
      <4>5. ASSUME NEW w \in FilePages, mapped'[w] # Absent, pd'[Dir(w)] = Absent
            PROVE  Has("touch", w)'
        <5>1. Dir(w) \in Dirs
          BY PageFacts DEF Clients
        <5>2. pd[Dir(w)] = Absent
          BY <3>12, <4>5, <5>1
        <5> QED
          BY <1>1, <1>3, <3>18, <4>5, <5>2 DEF CacheInv
      <4>6. /\ tlb'[StackPage] = Absent
            /\ \A w \in FilePages : w >= file_page' => tlb'[w] = Absent /\ mapped'[w] = Absent
        BY <1>1, <1>3 DEF CacheInv
      <4> QED
        BY <4>2, <4>3, <4>4, <4>5, <4>6 DEF CacheInv
    <3>22. StateInv'
      BY <1>1, <1>3, <2>2, <3>3, <3>10 DEF StateInv
    <3> QED
      BY <3>3, <3>11, <3>17, <3>19, <3>20, <3>21, <3>22 DEF CoreInv
  <2> QED
    BY <2>3, <2>4
<1> QED
  BY <1>6, <1>7

TwoMore(a, b, s) == <<a, b>> \o s

LEMMA HandlerShape ==
    ASSUME NEW s \in Seq(Task), NEW a \in Task, NEW b \in Task, Descending(s),
           \A x \in Items(s) : Rank(x) < Rank(b),
           Rank(b) < Rank(a) \/ (Rank(a) = 4 /\ Rank(b) = 7),
           todo' = TwoMore(a, b, s)
    PROVE  todo' \in Seq(Task) /\ ShapeInv' /\ Items(todo') = {a, b} \cup Items(s)
<1>1. PICK u : u = <<b>> \o s
  OBVIOUS
<1>2. u \in Seq(Task) /\ Items(u) = {b} \cup Items(s) /\ Descending(u)
  BY <1>1, PushItems, PushDescending
<1>3. u # <<>> /\ Head(u) = b
  BY <1>1
<1>4. TwoMore(a, b, s) = <<a>> \o u
  BY <1>1, PushTwo DEF TwoMore
<1>5. /\ <<a>> \o u \in Seq(Task) /\ Items(<<a>> \o u) = {a} \cup Items(u)
      /\ Tail(<<a>> \o u) = u
  BY <1>2, PushItems
<1>6. CASE Rank(b) < Rank(a)
  <2>1. ASSUME NEW x \in Items(u)
        PROVE  Rank(x) < Rank(a)
    <3>1. Rank(x) \in Int /\ Rank(b) \in Int /\ Rank(a) \in Int
      BY <1>2, RankValues DEF Items
    <3> QED
      BY <1>2, <1>6, <3>1
  <2>2. Descending(<<a>> \o u)
    BY <1>2, <2>1, PushDescending
  <2> QED
    BY <1>2, <1>4, <1>5, <2>2 DEF ShapeInv
<1>7. CASE Rank(a) = 4 /\ Rank(b) = 7
  <2>1. PICK w : w = <<a>> \o u
    OBVIOUS
  <2>2. Len(w) > 1 /\ w[1] = a /\ w[2] = u[1] /\ u[1] = b
    BY <1>2, <1>3, <2>1
  <2>3. Rank(w[1]) = 4 /\ Rank(w[2]) = 7
    BY <1>7, <2>2
  <2>4. todo' = w /\ Descending(Tail(w))
    BY <1>2, <1>4, <1>5, <2>1
  <2> QED
    BY <1>2, <1>5, <2>1, <2>2, <2>3, <2>4 DEF ShapeInv
<1> QED
  BY <1>6, <1>7

LEMMA HandlerKeepsCore == CoreInv /\ page_fault_handler => CoreInv'
<1> SUFFICES ASSUME CoreInv, page_fault_handler PROVE CoreInv'
  OBVIOUS
<1>a. PICK e : e = Head(todo)
  OBVIOUS
<1>b. PICK v : v = e.page
  OBVIOUS
<1>c. PICK r : r = Tail(todo)
  OBVIOUS
<1>d. PICK f \in Frames :
        /\ allocate_blocks(f, 1)
        /\ todo' = <<Map(f, v), On("reload_cr3", v)>> \o r
        /\ mapped' = IF v \in Clients THEN [mapped EXCEPT ![v] = f] ELSE mapped
  BY <1>a, <1>b, <1>c DEF page_fault_handler
<1>1. /\ todo # <<>> /\ e.op = "handle_fault"
      /\ UNCHANGED <<pd, mem, tlb, file_page, heap_page>>
  BY <1>a DEF page_fault_handler, Doing
<1>2. /\ e \in Task /\ e \in Items(todo) /\ Items(todo) = {e} \cup Items(r)
      /\ r \in Seq(Task) /\ Descending(r) /\ todo \in Seq(Task) /\ ~Moving(e)
      /\ Rank(e) = IF KernelPage(v) THEN 7 ELSE 2
  BY <1>1, <1>a, <1>b, <1>c, StackFacts, RankValues DEF CoreInv, StateInv, Moving
<1>3. StateInv /\ TablesInv /\ ShapeInv /\ TaskInv /\ PairInv /\ KernelInv /\ CacheInv
  BY DEF CoreInv
<1>4. /\ v \in Pages /\ (v \in Clients <=> ~KernelPage(v))
      /\ KernelPage(v) => v >= HoleStart /\ v \in Frames
  <2>1. Fits(e)
    BY <1>2, <1>3 DEF TaskInv
  <2> QED
    BY <2>1, <1>1, <1>2, <1>b, PageFacts DEF Fits, Task
<1>5. \A x \in Items(r) : x \in Task /\ Rank(x) \in 1 .. 7 /\ Rank(x) < Rank(e)
  BY <1>1, <1>2, <1>3, <1>4, <1>a, <1>c, StackFacts, RankValues
<1>6. /\ next' \in LowestFree .. RamTop /\ ranDry' \in BOOLEAN /\ next <= next'
      /\ f \notin Tables /\ f < next'
  BY <1>3, <1>d, AllocatedFrame
<1>7. PICK m, l : m = Map(f, v) /\ l = On("reload_cr3", v)
  OBVIOUS
<1>8. /\ m \in Task /\ m.op = "map" /\ m.frame = f /\ m.page = v
      /\ l \in Task /\ l.op = "reload_cr3" /\ l.page = v
  <2>1. Map(f, v) \in Task /\ Map(f, v).op = "map" /\ Map(f, v).frame = f /\ Map(f, v).page = v
    BY <1>4, OpsAreTasks
  <2>2. /\ On("reload_cr3", v) \in Task /\ On("reload_cr3", v).op = "reload_cr3"
        /\ On("reload_cr3", v).page = v
    BY <1>4, OpsAreTasks DEF Ops
  <2> QED
    BY <1>7, <2>1, <2>2
<1>9. /\ Moving(m) /\ ~Moving(l)
      /\ Rank(m) = IF KernelPage(v) THEN 4 ELSE 3
      /\ Rank(l) = IF KernelPage(v) THEN 7 ELSE 2
  BY <1>8, RankValues DEF Moving
<1>10. todo' \in Seq(Task) /\ ShapeInv' /\ Items(todo') = {m, l} \cup Items(r)
  <2>1. todo' = TwoMore(m, l, r)
    BY <1>d, <1>7 DEF TwoMore
  <2>2. \A x \in Items(r) : Rank(x) < Rank(l)
    BY <1>2, <1>5, <1>9
  <2>3. Rank(l) < Rank(m) \/ (Rank(m) = 4 /\ Rank(l) = 7)
    BY <1>9
  <2> QED
    BY <2>1, <2>2, <2>3, <1>2, <1>8, HandlerShape
<1>11. \A w : (Has("touch", w) => Has("touch", w)') /\ (Has("invlpg", w) => Has("invlpg", w)')
  BY <1>1, <1>2, <1>10 DEF Has
<1>12. /\ \A w \in Clients : mapped'[w] = IF w = v THEN f ELSE mapped[w]
       /\ mapped' \in [Clients -> Frames \cup {Absent}]
       /\ f # Absent /\ f \in Nat
  BY <1>3, <1>d, SizeFacts DEF StateInv, Frames
<1>13. v \in Clients => Has("touch", v) /\ v # StackPage /\ tlb[v] = Absent
                        /\ (v \in FilePages => v < file_page /\ mapped[v] # Absent)
  <2>1. v \in Clients => Has("touch", v) /\ tlb[v] = Absent
    BY <1>1, <1>2, <1>3, <1>b DEF PairInv, CacheInv
  <2>2. ASSUME Has("touch", v)
        PROVE  v # StackPage /\ (v \in FilePages => v < file_page /\ mapped[v] # Absent)
    BY <2>2, <1>3 DEF Has, TaskInv, Fits
  <2> QED
    BY <2>1, <2>2
<1>14. /\ Tables' = Tables /\ TablesInv'
       /\ \A p, x : x \in Frames /\ MayLead(p, x) => MayLead(p, x)'
       /\ \A x : Fits(x) /\ file_page' = file_page /\ mapped' = mapped => Fits(x)'
  BY <1>1, <1>3, <1>6, GrownTables
<1>15. ASSUME NEW x \in Items(r)
       PROVE  Fits(x)'
  <2>1. Fits(x) /\ x \in Task /\ x \in Items(todo)
    BY <1>2, <1>3, <1>5 DEF TaskInv
  <2>2. CASE KernelPage(v)
    BY <2>1, <2>2, <1>1, <1>4, <1>14, <1>d
  <2>3. CASE ~KernelPage(v)
    <3>1. x.op \in {"touch", "invlpg"}
      BY <1>2, <1>5, <2>3, RankValues
    <3>2. x.op = "invlpg" => x.page \in Clients /\ x.page # v
      BY <1>4, <1>13, <2>1, <2>3 DEF Fits, Clients
    <3> QED
      BY <1>1, <1>12, <2>1, <3>1, <3>2 DEF Fits, Moving
  <2> QED
    BY <2>2, <2>3
<1>16. Fits(m)'
  <2>1. KernelPage(v) => v # IdentityTable /\ MayLead(v, f)'
    BY <1>4, <1>6, <1>14, SizeFacts DEF MayLead, Frames
  <2>2. ~KernelPage(v) => v \in Clients /\ f = mapped'[v]
    BY <1>4, <1>12
  <2> QED
    BY <1>8, <1>9, <2>1, <2>2 DEF Fits
<1>17. Fits(l)'
  BY <1>8, <1>9 DEF Fits
<1>18. TaskInv'
  BY <1>10, <1>15, <1>16, <1>17 DEF TaskInv
<1>19. PairInv'
  BY <1>2, <1>3, <1>8, <1>10, <1>11 DEF PairInv
<1>20. KernelInv'
  BY <1>1, <1>3, <1>14, KernelInvKept, TableFacts
<1>21. CacheInv'
  <2>1. \A w : Walk(w)' = Walk(w)
    BY <1>1 DEF Walk
  <2>2. \A w \in Clients : tlb'[w] # Absent => tlb'[w] = Walk(w)' \/ Has("invlpg", w)'
    BY <1>1, <1>3, <1>11, <2>1 DEF CacheInv
  <2>3. ASSUME NEW x \in Items(todo'), Moving(x) \/ x.op = "handle_fault", x.page \in Clients
        PROVE  tlb'[x.page] = Absent
    <3>1. x.page = v \/ x \in Items(todo)
      BY <1>2, <1>8, <1>10
    <3> QED
      BY <1>1, <1>3, <1>13, <2>3, <3>1 DEF CacheInv
  <2>4. ASSUME NEW x \in Items(todo'), x.op = "clear"
        PROVE  x \in Items(todo)
    BY <1>2, <1>8, <1>10, <2>4
  <2>5. tlb'[StackPage] = Absent /\ StackPage \in Clients
    BY <1>1, <1>3 DEF CacheInv, Clients
  <2>6. ASSUME NEW w \in FilePages
        PROVE  /\ w >= file_page' => tlb'[w] = Absent /\ mapped'[w] = Absent
               /\ mapped'[w] # Absent /\ pd'[Dir(w)] = Absent => Has("touch", w)'
    <3>1. w \in Clients /\ w \in Nat /\ file_page \in Nat
      BY <1>3, PageFacts DEF Clients, StateInv
    <3>2. w = v => ~(w >= file_page) /\ Has("touch", w)'
      BY <1>11, <1>13, <3>1
    <3>3. w # v => mapped'[w] = mapped[w]
      BY <1>12, <3>1
    <3> QED
      BY <1>1, <1>3, <1>11, <3>2, <3>3 DEF CacheInv
  <2> QED
    BY <1>1, <1>3, <2>2, <2>3, <2>4, <2>5, <2>6 DEF CacheInv
<1>22. StateInv'
  BY <1>1, <1>3, <1>6, <1>10, <1>12 DEF StateInv
<1> QED
  BY <1>10, <1>14, <1>18, <1>19, <1>20, <1>21, <1>22 DEF CoreInv

LEMMA ReloadKeepsCore == CoreInv /\ ReloadCr3 => CoreInv'
<1> SUFFICES ASSUME CoreInv, ReloadCr3 PROVE CoreInv'
  OBVIOUS
<1>1. /\ todo # <<>> /\ todo' = Tail(todo) /\ Head(todo).op = "reload_cr3"
      /\ tlb' = [v \in Pages |-> Absent]
      /\ UNCHANGED <<pd, mem, next, file_page, heap_page, mapped, ranDry>>
  BY DEF ReloadCr3, Doing
<1>2. StateInv /\ TablesInv /\ ShapeInv /\ TaskInv /\ PairInv /\ KernelInv /\ CacheInv
  BY DEF CoreInv
<1>3. /\ todo' \in Seq(Task) /\ ShapeInv' /\ TaskInv' /\ PairInv'
      /\ Items(todo') \subseteq Items(todo)
      /\ \A o, v : Has(o, v) => Has(o, v)' \/ (Head(todo).op = o /\ Head(todo).page = v)
  BY <1>1, <1>2, PopTasks DEF StateInv
<1>4. TablesInv' /\ \A p, x : MayLead(p, x) => MayLead(p, x)'
  BY <1>1, <1>2, SameTables
<1>5. \A v \in Pages : tlb'[v] = Absent
  BY <1>1
<1>6. KernelInv'
  BY <1>1, <1>2, <1>4, <1>5, PageFacts DEF KernelInv
<1>7. \A v : Has("touch", v) => Has("touch", v)'
  BY <1>1, <1>3
<1>8. \A v \in Clients : tlb'[v] = Absent
  BY <1>5, PageFacts
<1>9. \A v \in FilePages : v >= file_page' => tlb'[v] = Absent /\ mapped'[v] = Absent
  BY <1>1, <1>2, <1>8 DEF CacheInv, Clients
<1>10. CacheInv'
  BY <1>1, <1>2, <1>7, <1>8, <1>9 DEF CacheInv, Clients
<1>11. StateInv'
  BY <1>1, <1>2, <1>3 DEF StateInv
<1> QED
  BY <1>3, <1>4, <1>6, <1>10, <1>11 DEF CoreInv

LEMMA FlushKeepsCore == CoreInv /\ flush_tlb_entry => CoreInv'
<1> SUFFICES ASSUME CoreInv, flush_tlb_entry PROVE CoreInv'
  OBVIOUS
<1>a. PICK e : e = Head(todo)
  OBVIOUS
<1>1. /\ todo # <<>> /\ todo' = Tail(todo) /\ e.op = "invlpg"
      /\ tlb' = [tlb EXCEPT ![e.page] = Absent]
      /\ UNCHANGED <<pd, mem, next, file_page, heap_page, mapped, ranDry>>
  BY <1>a DEF flush_tlb_entry, Doing
<1>2. StateInv /\ TablesInv /\ ShapeInv /\ TaskInv /\ PairInv /\ KernelInv /\ CacheInv
  BY DEF CoreInv
<1>3. /\ todo' \in Seq(Task) /\ ShapeInv' /\ TaskInv' /\ PairInv'
  BY <1>1, <1>2, PopTasks DEF StateInv
<1>4. e \in Task /\ Items(todo) = {e} /\ Items(todo') = {}
  <2>1. e \in Task /\ Items(todo) = {e} \cup Items(Tail(todo)) /\ todo \in Seq(Task)
    BY <1>1, <1>2, <1>a, StackFacts DEF StateInv
  <2>2. Rank(Head(todo)) = 1
    BY <2>1, <1>1, <1>a, RankValues
  <2> QED
    BY <2>1, <2>2, <1>1, <1>2, HeadOfRankOneIsAlone
<1>5. TablesInv' /\ \A p, x : MayLead(p, x) => MayLead(p, x)'
  BY <1>1, <1>2, SameTables
<1>6. \A v \in Pages : tlb'[v] = IF v = e.page THEN Absent ELSE tlb[v]
  BY <1>1, <1>2 DEF StateInv
<1>7. KernelInv'
  BY <1>1, <1>2, <1>5, <1>6, PageFacts DEF KernelInv
<1>8. \A v : (Has("invlpg", v) => v = e.page) /\ ~Has("touch", v)
  BY <1>1, <1>4 DEF Has
<1>9. \A v \in Clients : tlb'[v] \in {Absent, tlb[v]} /\ (v = e.page => tlb'[v] = Absent)
  BY <1>6, PageFacts
<1>10. \A v : Walk(v)' = Walk(v)
  BY <1>1 DEF Walk
<1>11. CacheInv'
  BY <1>1, <1>2, <1>4, <1>8, <1>9, <1>10 DEF CacheInv, Clients
<1>12. StateInv'
  <2>1. tlb' \in [Pages -> Frames \cup {Absent}]
    BY <1>1, <1>2 DEF StateInv
  <2> QED
    BY <2>1, <1>1, <1>2, <1>3 DEF StateInv
<1> QED
  BY <1>3, <1>5, <1>7, <1>11, <1>12 DEF CoreInv

LEMMA EvictKeepsCore == CoreInv /\ (\E v \in Pages : Evict(v)) => CoreInv'
<1> SUFFICES ASSUME CoreInv, NEW v \in Pages, Evict(v) PROVE CoreInv'
  OBVIOUS
<1>1. /\ tlb' = [tlb EXCEPT ![v] = Absent]
      /\ UNCHANGED <<pd, mem, next, file_page, heap_page, todo, mapped, ranDry>>
  BY DEF Evict
<1>2. StateInv /\ TablesInv /\ ShapeInv /\ TaskInv /\ PairInv /\ KernelInv /\ CacheInv
  BY DEF CoreInv
<1>3. TablesInv' /\ TaskInv' /\ \A p, x : MayLead(p, x) => MayLead(p, x)'
  BY <1>1, <1>2, SameTables DEF TaskInv
<1>4. \A w \in Pages : tlb'[w] \in {Absent, tlb[w]}
  BY <1>1, <1>2 DEF StateInv
<1>5. KernelInv'
  BY <1>1, <1>2, <1>3, <1>4, PageFacts DEF KernelInv
<1>6. \A w : Walk(w)' = Walk(w) /\ (Has("invlpg", w)' <=> Has("invlpg", w)) /\ (Has("touch", w)' <=> Has("touch", w))
  BY <1>1 DEF Walk, Has
<1>7. \A w \in Clients : tlb'[w] \in {Absent, tlb[w]}
  BY <1>4, PageFacts
<1>8. CacheInv'
  BY <1>1, <1>2, <1>6, <1>7 DEF CacheInv, Clients
<1>9. StateInv'
  <2>1. tlb' \in [Pages -> Frames \cup {Absent}]
    BY <1>1, <1>2 DEF StateInv
  <2> QED
    BY <2>1, <1>1, <1>2 DEF StateInv
<1>10. ShapeInv' /\ PairInv'
  BY <1>1, <1>2, <1>6 DEF ShapeInv, PairInv
<1> QED
  BY <1>3, <1>5, <1>8, <1>9, <1>10 DEF CoreInv

LEMMA NothingToDo ==
    ASSUME todo = <<>>
    PROVE  Items(todo) = {} /\ \A o, v : ~Has(o, v)
  BY NoItems DEF Has

(* A client's call begins with what it leaves to do.                       *)
LEMMA BeginKeepsCore ==
    ASSUME CoreInv, todo = <<>>, NEW a \in Task, NEW b \in Task,
           todo' = <<a>> \/ (todo' = <<a, b>> /\ Rank(b) < Rank(a)),
           UNCHANGED <<pd, mem, tlb>>, next' \in LowestFree .. RamTop, next <= next', ranDry' \in BOOLEAN,
           file_page' \in Nat, file_page <= file_page', heap_page' \in 0 .. IdentityTable,
           mapped' \in [Clients -> Frames \cup {Absent}],
           \A x \in Items(todo') : /\ Fits(x)' /\ x.op \notin {"clear", "handle_fault"}
                                   /\ x.op = "unmap" => Has("invlpg", x.page)'
                                   /\ Moving(x) /\ x.page \in Clients => tlb[x.page] = Absent,
           \A v \in FilePages : mapped'[v] # Absent => /\ v < file_page'
                                                       /\ Has("touch", v)' \/ mapped[v] # Absent
    PROVE  CoreInv'
<1>1. StateInv /\ TablesInv /\ KernelInv /\ CacheInv
  BY DEF CoreInv
<1>2. todo' \in Seq(Task) /\ ShapeInv'
  BY FreshShape
<1>3. /\ TablesInv' /\ \A p, x : x \in Frames /\ MayLead(p, x) => MayLead(p, x)'
  BY <1>1, GrownTables
<1>4. KernelInv'
  BY <1>1, <1>3, KernelInvKept, TableFacts
<1>5. StateInv'
  BY <1>1, <1>2 DEF StateInv
<1>6. TaskInv' /\ PairInv'
  BY DEF TaskInv, PairInv
<1>7. CacheInv'
  <2>1. \A v : Walk(v)' = Walk(v) /\ ~Has("invlpg", v) /\ ~Has("touch", v)
    BY NothingToDo DEF Walk
  <2>2. \A v \in FilePages : v \in Nat /\ v \in Clients
    BY PageFacts DEF Clients
  <2>3. \A v \in FilePages : v >= file_page' => tlb'[v] = Absent /\ mapped'[v] = Absent
    <3>1. file_page \in Nat
      BY <1>1 DEF StateInv
    <3> QED
      BY <3>1, <1>1, <2>2 DEF CacheInv
  <2>4. \A v \in FilePages : mapped'[v] # Absent /\ pd'[Dir(v)] = Absent => Has("touch", v)'
    BY <1>1, <2>1 DEF CacheInv
  <2> QED
    BY <1>1, <2>1, <2>3, <2>4 DEF CacheInv
<1> QED
  BY <1>2, <1>3, <1>4, <1>5, <1>6, <1>7 DEF CoreInv

LEMMA MappedPagesAreOpen ==
    ASSUME StateInv, CacheInv, NEW v \in FilePages, mapped[v] # Absent
    PROVE  v < file_page /\ v \in Clients /\ v \in Pages /\ v \in Nat /\ v # StackPage /\ v \notin UserPages
<1>1. v \in Nat /\ v \in Clients /\ v \in Pages /\ file_page \in Nat
  BY PageFacts DEF Clients, StateInv
<1> QED
  BY <1>1, ClientAssumption DEF CacheInv

LEMMA OpenKeepsCore == CoreInv /\ OpenPage => CoreInv'
<1> SUFFICES ASSUME CoreInv, OpenPage PROVE CoreInv'
  OBVIOUS
<1>a. PICK v : v = file_page
  OBVIOUS
<1>1. PICK f \in Frames : /\ allocate_blocks(f, 1) /\ mapped' = [mapped EXCEPT ![v] = f]
                          /\ todo' = <<Map(f, v), On("touch", v)>>
  BY <1>a DEF OpenPage, MapNew
<1>2. /\ todo = <<>> /\ v \in FilePages /\ file_page' = v + 1
      /\ UNCHANGED <<pd, mem, tlb, heap_page>>
  BY <1>a DEF OpenPage
<1>3. StateInv /\ TablesInv /\ CacheInv
  BY DEF CoreInv
<1>4. v \in Clients /\ v \in Pages /\ v \in Nat /\ ~KernelPage(v) /\ v # StackPage
  BY <1>2, PageFacts, ClientAssumption DEF Clients
<1>5. PICK a, b : a = Map(f, v) /\ b = On("touch", v)
  OBVIOUS
<1>6. /\ a \in Task /\ a.op = "map" /\ a.frame = f /\ a.page = v
      /\ b \in Task /\ b.op = "touch" /\ b.page = v
  <2>1. Map(f, v) \in Task /\ Map(f, v).op = "map" /\ Map(f, v).frame = f /\ Map(f, v).page = v
    BY <1>4, OpsAreTasks
  <2>2. On("touch", v) \in Task /\ On("touch", v).op = "touch" /\ On("touch", v).page = v
    BY <1>4, OpsAreTasks DEF Ops
  <2> QED
    BY <1>5, <2>1, <2>2
<1>7. Moving(a) /\ ~Moving(b) /\ Rank(b) < Rank(a)
  BY <1>4, <1>6, RankValues DEF Moving
<1>8. todo' = <<a, b>>
  BY <1>1, <1>5
<1>9. Items(todo') = {a, b}
  <2>1. <<a>> # <<a, b>>
    OBVIOUS
  <2> QED
    BY <1>2, <1>6, <1>7, <1>8, <2>1, FreshShape
<1>10. next' \in LowestFree .. RamTop /\ next <= next' /\ ranDry' \in BOOLEAN
  BY <1>1, <1>3, AllocatedFrame
<1>11. /\ \A w \in Clients : mapped'[w] = IF w = v THEN f ELSE mapped[w]
       /\ mapped' \in [Clients -> Frames \cup {Absent}]
       /\ f # Absent
  BY <1>1, <1>3, <1>4, SizeFacts DEF StateInv, Frames
<1>12. Fits(a)'
  BY <1>4, <1>6, <1>7, <1>11 DEF Fits
<1>13. Fits(b)'
  <2>1. v < file_page'
    BY <1>2, <1>4
  <2> QED
    BY <1>4, <1>6, <1>7, <1>11, <2>1 DEF Fits
<1>14. tlb[v] = Absent
  BY <1>2, <1>3, <1>4, <1>a DEF CacheInv
<1>15. \A x \in Items(todo') : /\ Fits(x)' /\ x.op \notin {"clear", "handle_fault"}
                               /\ x.op = "unmap" => Has("invlpg", x.page)'
                               /\ Moving(x) /\ x.page \in Clients => tlb[x.page] = Absent
  BY <1>6, <1>9, <1>12, <1>13, <1>14
<1>16. Has("touch", v)'
  BY <1>6, <1>9 DEF Has
<1>17. ASSUME NEW w \in FilePages, mapped'[w] # Absent
       PROVE  w < file_page' /\ (Has("touch", w)' \/ mapped[w] # Absent)
  <2>1. w \in Clients
    BY DEF Clients
  <2>2. CASE w = v
    BY <2>2, <1>2, <1>4, <1>16
  <2>3. CASE w # v
    <3>1. mapped[w] # Absent
      BY <1>11, <1>17, <2>1, <2>3
    <3>2. w < v /\ w \in Nat
      BY <1>3, <1>a, <3>1, MappedPagesAreOpen
    <3> QED
      BY <1>2, <1>4, <3>1, <3>2
  <2> QED
    BY <2>2, <2>3
<1>18. file_page' \in Nat /\ file_page <= file_page' /\ heap_page' \in 0 .. IdentityTable
  BY <1>2, <1>3, <1>4, <1>a DEF StateInv
<1> QED
  BY <1>2, <1>6, <1>7, <1>8, <1>10, <1>11, <1>15, <1>17, <1>18, BeginKeepsCore

LEMMA ProgramKeepsCore == CoreInv /\ (\E v \in Clients : Program(v)) => CoreInv'
<1> SUFFICES ASSUME CoreInv, NEW v \in Clients, Program(v) PROVE CoreInv'
  OBVIOUS
<1>1. /\ todo = <<>> /\ v \in UserPages \cup FilePages /\ (v \in FilePages => mapped[v] # Absent)
      /\ todo' = <<On("touch", v)>>
      /\ UNCHANGED <<pd, mem, tlb, next, file_page, heap_page, mapped, ranDry>>
  BY DEF Program
<1>2. StateInv /\ TablesInv /\ CacheInv
  BY DEF CoreInv
<1>3. v \in Pages /\ v # StackPage /\ (v \in FilePages => v < file_page)
  BY <1>1, <1>2, PageFacts, ClientAssumption, MappedPagesAreOpen
<1>4. PICK a : a = On("touch", v)
  OBVIOUS
<1>5. a \in Task /\ a.op = "touch" /\ a.page = v /\ ~Moving(a)
  BY <1>3, <1>4, OpsAreTasks DEF Ops, Moving
<1>6. todo' = <<a>> /\ Items(todo') = {a}
  <2>1. todo' = <<a>> /\ <<a>> # <<a, a>>
    BY <1>1, <1>4
  <2> QED
    BY <1>1, <1>5, <2>1, FreshShape
<1>7. Fits(a)'
  BY <1>1, <1>3, <1>5 DEF Fits
<1>8. \A x \in Items(todo') : /\ Fits(x)' /\ x.op \notin {"clear", "handle_fault"}
                              /\ x.op = "unmap" => Has("invlpg", x.page)'
                              /\ Moving(x) /\ x.page \in Clients => tlb[x.page] = Absent
  BY <1>5, <1>6, <1>7
<1>9. \A w \in FilePages : mapped'[w] # Absent => /\ w < file_page'
                                                  /\ Has("touch", w)' \/ mapped[w] # Absent
  BY <1>1, <1>2, MappedPagesAreOpen
<1>10. /\ next' \in LowestFree .. RamTop /\ next <= next' /\ ranDry' \in BOOLEAN
       /\ file_page' \in Nat /\ file_page <= file_page' /\ heap_page' \in 0 .. IdentityTable
       /\ mapped' \in [Clients -> Frames \cup {Absent}]
  BY <1>1, <1>2, SizeFacts DEF StateInv
<1> QED
  BY <1>1, <1>5, <1>6, <1>8, <1>9, <1>10, BeginKeepsCore

LEMMA CloseKeepsCore == CoreInv /\ (\E v \in Clients : ClosePage(v)) => CoreInv'
<1> SUFFICES ASSUME CoreInv, NEW v \in Clients, ClosePage(v) PROVE CoreInv'
  OBVIOUS
<1>1. /\ todo = <<>> /\ v \in FilePages /\ mapped[v] # Absent
      /\ todo' = <<On("unmap", v), On("invlpg", v)>>
      /\ mapped' = [mapped EXCEPT ![v] = Absent]
      /\ UNCHANGED <<pd, mem, tlb, next, file_page, heap_page, ranDry>>
  BY DEF ClosePage
<1>2. StateInv /\ TablesInv /\ CacheInv
  BY DEF CoreInv
<1>3. v \in Pages /\ v < file_page
  BY <1>1, <1>2, MappedPagesAreOpen
<1>4. pd[Dir(v)] # Absent
  BY <1>1, <1>2, NothingToDo DEF CacheInv
<1>5. PICK a, b : a = On("unmap", v) /\ b = On("invlpg", v)
  OBVIOUS
<1>6. /\ a \in Task /\ a.op = "unmap" /\ a.page = v
      /\ b \in Task /\ b.op = "invlpg" /\ b.page = v
  <2>1. On("unmap", v) \in Task /\ On("unmap", v).op = "unmap" /\ On("unmap", v).page = v
    BY <1>3, OpsAreTasks DEF Ops
  <2>2. On("invlpg", v) \in Task /\ On("invlpg", v).op = "invlpg" /\ On("invlpg", v).page = v
    BY <1>3, OpsAreTasks DEF Ops
  <2> QED
    BY <1>5, <2>1, <2>2
<1>7. ~Moving(a) /\ ~Moving(b) /\ Rank(b) < Rank(a)
  BY <1>6, RankValues DEF Moving
<1>8. todo' = <<a, b>>
  BY <1>1, <1>5
<1>9. Items(todo') = {a, b}
  <2>1. <<a>> # <<a, b>>
    OBVIOUS
  <2> QED
    BY <1>1, <1>6, <1>7, <1>8, <2>1, FreshShape
<1>10. /\ \A w \in Clients : mapped'[w] = IF w = v THEN Absent ELSE mapped[w]
       /\ mapped' \in [Clients -> Frames \cup {Absent}]
  BY <1>1, <1>2 DEF StateInv
<1>11. Fits(a)' /\ Fits(b)'
  BY <1>1, <1>3, <1>4, <1>6, <1>7, <1>10 DEF Fits
<1>12. Has("invlpg", v)'
  BY <1>6, <1>9 DEF Has
<1>13. \A x \in Items(todo') : /\ Fits(x)' /\ x.op \notin {"clear", "handle_fault"}
                               /\ x.op = "unmap" => Has("invlpg", x.page)'
                               /\ Moving(x) /\ x.page \in Clients => tlb[x.page] = Absent
  BY <1>6, <1>7, <1>9, <1>11, <1>12
<1>14. \A w \in FilePages : mapped'[w] # Absent => /\ w < file_page'
                                                   /\ Has("touch", w)' \/ mapped[w] # Absent
  <2>1. \A w \in FilePages : w \in Clients
    BY DEF Clients
  <2> QED
    BY <1>1, <1>2, <1>10, <2>1, MappedPagesAreOpen
<1>15. /\ next' \in LowestFree .. RamTop /\ next <= next' /\ ranDry' \in BOOLEAN
       /\ file_page' \in Nat /\ file_page <= file_page' /\ heap_page' \in 0 .. IdentityTable
  BY <1>1, <1>2, SizeFacts DEF StateInv
<1> QED
  BY <1>1, <1>6, <1>7, <1>8, <1>10, <1>13, <1>14, <1>15, BeginKeepsCore

LEMMA ExecKeepsCore == CoreInv /\ Exec => CoreInv'
<1> SUFFICES ASSUME CoreInv, Exec PROVE CoreInv'
  OBVIOUS
<1>1. PICK f \in Frames : /\ allocate_blocks(f, 1) /\ mapped' = [mapped EXCEPT ![StackPage] = f]
                          /\ todo' = <<Map(f, StackPage)>>
  BY DEF Exec, MapNew
<1>2. todo = <<>> /\ UNCHANGED <<pd, mem, tlb, file_page, heap_page>>
  BY DEF Exec
<1>3. StateInv /\ TablesInv /\ CacheInv
  BY DEF CoreInv
<1>4. /\ StackPage \in Clients /\ StackPage \in Pages /\ ~KernelPage(StackPage)
      /\ StackPage \notin FilePages
  BY PageFacts, ClientAssumption DEF Clients
<1>5. PICK a : a = Map(f, StackPage)
  OBVIOUS
<1>6. a \in Task /\ a.op = "map" /\ a.frame = f /\ a.page = StackPage /\ Moving(a)
  BY <1>4, <1>5, OpsAreTasks DEF Moving
<1>7. todo' = <<a>> /\ Items(todo') = {a}
  <2>1. todo' = <<a>> /\ <<a>> # <<a, a>>
    BY <1>1, <1>5
  <2> QED
    BY <1>2, <1>6, <2>1, FreshShape
<1>8. next' \in LowestFree .. RamTop /\ next <= next' /\ ranDry' \in BOOLEAN
  BY <1>1, <1>3, AllocatedFrame
<1>9. /\ \A w \in Clients : mapped'[w] = IF w = StackPage THEN f ELSE mapped[w]
      /\ mapped' \in [Clients -> Frames \cup {Absent}]
  BY <1>1, <1>3, <1>4 DEF StateInv
<1>10. Fits(a)'
  BY <1>4, <1>6, <1>9 DEF Fits
<1>11. \A x \in Items(todo') : /\ Fits(x)' /\ x.op \notin {"clear", "handle_fault"}
                               /\ x.op = "unmap" => Has("invlpg", x.page)'
                               /\ Moving(x) /\ x.page \in Clients => tlb[x.page] = Absent
  BY <1>3, <1>6, <1>7, <1>10 DEF CacheInv
<1>12. \A w \in FilePages : mapped'[w] # Absent => /\ w < file_page'
                                                   /\ Has("touch", w)' \/ mapped[w] # Absent
  <2>1. \A w \in FilePages : w \in Clients
    BY DEF Clients
  <2> QED
    BY <1>2, <1>3, <1>4, <1>9, <2>1, MappedPagesAreOpen
<1>13. file_page' \in Nat /\ file_page <= file_page' /\ heap_page' \in 0 .. IdentityTable
  BY <1>2, <1>3 DEF StateInv
<1> QED
  BY <1>2, <1>6, <1>7, <1>8, <1>9, <1>11, <1>12, <1>13, BeginKeepsCore

LEMMA GrowKeepsCore == CoreInv /\ GrowHeap => CoreInv'
<1> SUFFICES ASSUME CoreInv, GrowHeap PROVE CoreInv'
  OBVIOUS
<1>a. PICK p : p = heap_page
  OBVIOUS
<1>1. PICK f \in Frames : allocate_blocks(f, 1) /\ todo' = <<Map(f, p)>>
  BY <1>a DEF GrowHeap
<1>2. /\ todo = <<>> /\ p < IdentityTable /\ heap_page' = p + 1
      /\ UNCHANGED <<pd, mem, tlb, file_page, mapped>>
  BY <1>a DEF GrowHeap
<1>3. StateInv /\ TablesInv /\ CacheInv
  BY DEF CoreInv
<1>4. p \in Nat /\ heap_page' \in 0 .. IdentityTable /\ p \in Frames
  BY <1>2, <1>3, <1>a, SizeFacts DEF StateInv, Frames
<1>5. p \in Pages /\ KernelPage(p) /\ p \notin Clients
  BY <1>4, PageFacts
<1>6. PICK a : a = Map(f, p)
  OBVIOUS
<1>7. a \in Task /\ a.op = "map" /\ a.frame = f /\ a.page = p /\ Moving(a)
  BY <1>5, <1>6, OpsAreTasks DEF Moving
<1>8. todo' = <<a>> /\ Items(todo') = {a}
  <2>1. todo' = <<a>> /\ <<a>> # <<a, a>>
    BY <1>1, <1>6
  <2> QED
    BY <1>2, <1>7, <2>1, FreshShape
<1>9. /\ next' \in LowestFree .. RamTop /\ next <= next' /\ ranDry' \in BOOLEAN
      /\ f \notin Tables /\ f < next'
  BY <1>1, <1>3, AllocatedFrame
<1>10. MayLead(p, f)'
  <2>1. Tables' = Tables
    BY <1>2 DEF Tables
  <2>2. p \notin IdentityTable .. HoleStart - 1
    BY <1>2, <1>4, SizeFacts
  <2> QED
    BY <1>9, <2>1, <2>2 DEF MayLead
<1>11. Fits(a)'
  <2>1. p # IdentityTable
    BY <1>2, <1>4, SizeFacts
  <2> QED
    BY <1>5, <1>7, <1>10, <2>1 DEF Fits
<1>12. \A x \in Items(todo') : /\ Fits(x)' /\ x.op \notin {"clear", "handle_fault"}
                               /\ x.op = "unmap" => Has("invlpg", x.page)'
                               /\ Moving(x) /\ x.page \in Clients => tlb[x.page] = Absent
  BY <1>5, <1>7, <1>8, <1>11
<1>13. \A w \in FilePages : mapped'[w] # Absent => /\ w < file_page'
                                                   /\ Has("touch", w)' \/ mapped[w] # Absent
  BY <1>2, <1>3, MappedPagesAreOpen
<1>14. /\ file_page' \in Nat /\ file_page <= file_page'
       /\ mapped' \in [Clients -> Frames \cup {Absent}]
  BY <1>2, <1>3 DEF StateInv
<1> QED
  BY <1>2, <1>4, <1>7, <1>8, <1>9, <1>12, <1>13, <1>14, BeginKeepsCore

LEMMA InitialMemory ==
    ASSUME Init
    PROVE  /\ StateInv /\ Items(todo) = {}
           /\ pd[0] = IdentityTable /\ \A d \in Dirs \ {0} : pd[d] = Absent
           /\ Tables = {IdentityTable}
           /\ \A v \in Pages : tlb[v] = Absent
           /\ \A v \in Clients : tlb[v] = Absent /\ Walk(v) = Absent /\ mapped[v] = Absent
           /\ \A p \in Frames : mem[IdentityTable][p] = IF p < HoleStart THEN p ELSE Absent
           /\ \A f \in Frames \ {IdentityTable}, x \in 0 .. ENTRIES - 1 :
                mem[f][x] # Absent => mem[f][x] = 0 /\ f \in Dirty
<1>1. IdentityTable \in Frames /\ IdentityTable # Absent /\ 0 \in Frames /\ ENTRIES \in Nat
  BY SizeFacts DEF Frames
<1>2. 0 \in Dirs
  BY PageFacts
<1>3. /\ pd \in [Dirs -> Frames \cup {Absent}]
      /\ pd[0] = IdentityTable /\ \A d \in Dirs \ {0} : pd[d] = Absent
  BY <1>1, <1>2 DEF Init
<1>4. PICK first : first = [x \in 0 .. ENTRIES - 1 |-> IF x < HoleStart THEN x ELSE Absent]
  OBVIOUS
<1>5. first \in Content /\ \A p \in Frames : first[p] = IF p < HoleStart THEN p ELSE Absent
  BY <1>4 DEF Content, Frames
<1>6. Leftover \in Content /\ \A x \in 0 .. ENTRIES - 1 : Leftover[x] = 0
  BY <1>1 DEF Leftover, Content
<1>7. Empty \in Content /\ \A x \in 0 .. ENTRIES - 1 : Empty[x] = Absent
  BY DEF Empty, Content
<1>8. mem = [f \in Frames |-> IF f = IdentityTable THEN first ELSE IF f \in Dirty THEN Leftover ELSE Empty]
  BY <1>4 DEF Init
<1>9. /\ mem \in [Frames -> Content] /\ mem[IdentityTable] = first
      /\ \A f \in Frames \ {IdentityTable} : mem[f] = IF f \in Dirty THEN Leftover ELSE Empty
  BY <1>1, <1>5, <1>6, <1>7, <1>8
<1>10. Tables = {IdentityTable}
  BY <1>1, <1>2, <1>3 DEF Tables
<1>11. Items(todo) = {} /\ todo \in Seq(Task)
  BY NoItems DEF Init
<1>12. /\ tlb \in [Pages -> Frames \cup {Absent}] /\ \A v \in Pages : tlb[v] = Absent
       /\ mapped \in [Clients -> Frames \cup {Absent}] /\ \A v \in Clients : mapped[v] = Absent
  BY DEF Init
<1>13. next \in LowestFree .. RamTop /\ heap_page \in 0 .. IdentityTable /\ ranDry \in BOOLEAN
  <2>1. LowestFree \in LowestFree .. RamTop /\ 0 \in 0 .. IdentityTable
    BY SizeFacts
  <2>2. next = LowestFree /\ heap_page = 0 /\ ranDry = FALSE
    BY DEF Init
  <2> QED
    BY <2>1, <2>2
<1>14. file_page \in Nat
  <2>1. file_page \in Clients
    BY DEF Init, Clients
  <2> QED
    BY <2>1, PageFacts
<1>15. StateInv
  BY <1>3, <1>9, <1>11, <1>12, <1>13, <1>14 DEF StateInv
<1>16. \A v \in Clients : v \in Pages /\ Walk(v) = Absent
  BY <1>3, PageFacts DEF Walk
<1> QED
  BY <1>3, <1>5, <1>6, <1>7, <1>9, <1>10, <1>11, <1>12, <1>15, <1>16

LEMMA CoreInvInit == Init => CoreInv
<1> SUFFICES ASSUME Init PROVE CoreInv
  OBVIOUS
<1>1. StateInv
  BY InitialMemory
<1>2. TablesInv
  BY InitialMemory DEF TablesInv
<1>3. ShapeInv
  BY NoItems DEF Init, ShapeInv
<1>4. TaskInv /\ PairInv
  BY InitialMemory DEF TaskInv, PairInv
<1>5. KernelInv
  <2>1. \A p \in Frames : tlb[p] = Absent /\ p # Absent
    BY InitialMemory, PageFacts, SizeFacts
  <2>2. \A p \in Frames : p < HoleStart <=> p \notin HoleStart .. ENTRIES - 1
    BY SizeFacts DEF Frames
  <2>3. \A p \in Frames : p \in IdentityTable .. HoleStart - 1 => p < HoleStart
    BY SizeFacts DEF Frames
  <2>4. \A p \in Frames : p < HoleStart => MayLead(p, p)
    BY DEF MayLead
  <2> QED
    BY <2>1, <2>3, <2>4, InitialMemory DEF KernelInv
<1>6. CacheInv
  <2>1. StackPage \in Clients /\ FilePages \subseteq Clients
    BY DEF Clients
  <2> QED
    BY <2>1, InitialMemory DEF CacheInv
<1> QED
  BY <1>1, <1>2, <1>3, <1>4, <1>5, <1>6 DEF CoreInv

LEMMA CoreInvStep == CoreInv /\ [Next]_vars => CoreInv'
<1> SUFFICES ASSUME CoreInv, [Next]_vars PROVE CoreInv'
  OBVIOUS
<1>1. CASE UNCHANGED vars
  <2>1. /\ UNCHANGED <<pd, mem, tlb, next, file_page, heap_page, todo, mapped, ranDry>>
    BY <1>1 DEF vars
  <2>2. \A o, v : Has(o, v)' <=> Has(o, v)
    BY <2>1 DEF Has
  <2>3. \A v : Walk(v)' = Walk(v)
    BY <2>1 DEF Walk
  <2>4. TablesInv' /\ TaskInv' /\ KernelInv'
    BY <2>1, SameTables DEF CoreInv, TaskInv, KernelInv
  <2>5. StateInv' /\ ShapeInv' /\ PairInv'
    BY <2>1, <2>2 DEF CoreInv, StateInv, ShapeInv, PairInv
  <2>6. CacheInv'
    BY <2>1, <2>2, <2>3 DEF CoreInv, CacheInv
  <2> QED
    BY <2>4, <2>5, <2>6 DEF CoreInv
<1>2. CASE Kernel
  BY <1>2, TouchKeepsCore, MapKeepsCore, ClearsKeepCore, StoresKeepCore, HandlerKeepsCore,
     ReloadKeepsCore, FlushKeepsCore DEF Kernel
<1>3. CASE OpenPage \/ Exec \/ GrowHeap
  BY <1>3, OpenKeepsCore, ExecKeepsCore, GrowKeepsCore
<1>4. CASE \E v \in Clients : Program(v) \/ ClosePage(v)
  BY <1>4, ProgramKeepsCore, CloseKeepsCore
<1>5. CASE \E v \in Pages : Evict(v)
  BY <1>5, EvictKeepsCore
<1> QED
  BY <1>1, <1>2, <1>3, <1>4, <1>5 DEF Next

LEMMA CoreInvariant == Spec => []CoreInv
  BY CoreInvInit, CoreInvStep, PTL DEF Spec

(* Whatever faults the stores into the tables take, between two calls no   *)
(* cached translation of a client's page is stale: sys_close flushes what  *)
(* it unmaps, and map_address changes only entries that lead nowhere or    *)
(* whose page the processor has not cached.                                *)
THEOREM NothingIsStale == Spec => []NoStaleTranslation
<1>1. CoreInv => NoStaleTranslation
  BY NothingToDo DEF CoreInv, CacheInv, NoStaleTranslation
<1> QED
  BY <1>1, CoreInvariant, PTL

-----------------------------------------------------------------------------
(* Whose frames the pages lead to.                                         *)

LEMMA FramesKept ==
    ASSUME StateInv, TablesInv, MappingInv, OwnInv, pd' = pd, next' \in Nat, next <= next',
           \A w \in Clients :
               /\ mapped'[w] \in {mapped[w], Absent} /\ tlb'[w] \in {tlb[w], Absent, Walk(w)}
               /\ \/ Walk(w)' = Walk(w)
                  \/ Walk(w)' = mapped[w]
                  \/ Walk(w)' = Absent /\ (mapped'[w] # Absent => Pending(w)')
               /\ \/ Pending(w) => Pending(w)'
                  \/ Walk(w)' = mapped'[w] \/ mapped'[w] = Absent
                  \/ ~(pd[Dir(w)] < HoleStart)
               /\ pd[Dir(w)] # Absent /\ Has("clear", pd[Dir(w)])' =>
                      Has("clear", pd[Dir(w)]) /\ (Pending(w) => Pending(w)')
    PROVE  MappingInv' /\ OwnInv'
<1>1. Tables' = Tables
  BY DEF Tables
<1>2. ASSUME NEW w \in Clients
      PROVE  Holds(w)' \subseteq Holds(w)
  <2>1. /\ mapped'[w] \in {mapped[w], Absent} /\ tlb'[w] \in {tlb[w], Absent, Walk(w)}
        /\ Walk(w)' \in {Walk(w), mapped[w], Absent}
    OBVIOUS
  <2> QED
    BY <2>1 DEF Holds
<1>3. ASSUME NEW w \in Clients
      PROVE  /\ Holds(w) \subseteq Frames /\ next \in Nat
             /\ \A x \in Frames : x \in Nat
  <2>1. mapped[w] \in Frames \cup {Absent} /\ w \in Pages
    BY PageFacts DEF StateInv
  <2> QED
    BY <2>1, WalkTypes, SizeFacts DEF Holds, StateInv, Frames
<1>4. OwnInv'
  <2>1. \A w \in Clients : mapped'[w] # 0
    BY SizeFacts DEF OwnInv
  <2>2. ASSUME NEW w \in Clients, NEW x \in Holds(w)'
        PROVE  LowestFree <= x /\ x < next' /\ x \notin Tables'
    <3>1. x \in Holds(w) /\ x \in Nat /\ next \in Nat
      BY <1>2, <1>3
    <3>2. LowestFree <= x /\ x < next /\ x \notin Tables
      BY <3>1 DEF OwnInv
    <3> QED
      BY <3>1, <3>2, <1>1
  <2>3. \A v, w \in Clients : v # w => Holds(v)' \cap Holds(w)' = {}
    BY <1>2 DEF OwnInv
  <2> QED
    BY <2>1, <2>2, <2>3 DEF OwnInv
<1>5. ASSUME NEW w \in Clients, mapped'[w] # Absent
      PROVE  /\ pd'[Dir(w)] < HoleStart => Walk(w)' = mapped'[w] \/ Pending(w)'
             /\ pd'[Dir(w)] # Absent /\ Has("clear", pd[Dir(w)])' => Pending(w)'
  <2>1. mapped'[w] = mapped[w] /\ mapped[w] # Absent
    BY <1>5
  <2>2. /\ pd[Dir(w)] < HoleStart => Walk(w) = mapped[w] \/ Pending(w)
        /\ pd[Dir(w)] # Absent /\ Has("clear", pd[Dir(w)]) => Pending(w)
    BY <2>1 DEF MappingInv
  <2> QED
    BY <2>1, <2>2
<1>6. \A w : pd'[Dir(w)] = pd[Dir(w)]
  OBVIOUS
<1>7. MappingInv'
  BY <1>5, <1>6 DEF MappingInv, Has
<1> QED
  BY <1>4, <1>7

LEMMA LeftoversKept ==
    ASSUME StateInv, LeftoverInv, pd' = pd, next' \in Nat, next <= next',
           \A f \in Frames : f >= next => \A x \in 0 .. ENTRIES - 1 : mem'[f][x] \in {mem[f][x], Absent},
           \A d \in Dirs \ {0} : pd[d] # Absent => \A x \in 0 .. ENTRIES - 1 : mem'[pd[d]][x] = 0 =>
               /\ mem[pd[d]][x] = 0
               /\ Has("clear", pd[d]) => Has("clear", pd[d])' \/ x <= 1 \/ ~(pd[d] < HoleStart)
    PROVE  LeftoverInv'
<1>1. ASSUME NEW f \in Frames, f >= next', NEW x \in 0 .. ENTRIES - 1, mem'[f][x] # Absent
      PROVE  mem'[f][x] = 0 /\ f < HoleStart
  <2>1. next \in Nat /\ f \in Nat
    BY SizeFacts DEF StateInv, Frames
  <2>2. f >= next
    BY <1>1, <2>1
  <2>3. mem'[f][x] = mem[f][x]
    BY <1>1, <2>2
  <2> QED
    BY <1>1, <2>2, <2>3 DEF LeftoverInv
<1>2. ASSUME NEW d \in Dirs \ {0}, pd[d] # Absent, NEW x \in 0 .. ENTRIES - 1, mem'[pd[d]][x] = 0
      PROVE  pd[d] < HoleStart /\ (x <= 1 \/ Has("clear", pd[d])')
  <2>1. mem[pd[d]][x] = 0
    BY <1>2
  <2>2. pd[d] < HoleStart /\ (x <= 1 \/ Has("clear", pd[d]))
    BY <1>2, <2>1 DEF LeftoverInv
  <2> QED
    BY <1>2, <2>2
<1>3. \A d : pd'[d] = pd[d]
  OBVIOUS
<1>4. \A d \in Dirs \ {0} : pd'[d] # Absent => \A x \in 0 .. ENTRIES - 1 : mem'[pd'[d]][x] = 0 =>
        pd'[d] < HoleStart /\ (x <= 1 \/ Has("clear", pd[d])')
  BY <1>2, <1>3
<1> QED
  BY <1>1, <1>4 DEF LeftoverInv

(* A step that stores nothing, and takes no mapped frame to another page.  *)
LEMMA QuietSteps ==
    ASSUME CoreInv, MappingInv, OwnInv, LeftoverInv,
           UNCHANGED <<pd, mem>>, next' \in Nat, next <= next',
           \A w \in Clients :
               /\ mapped'[w] \in {mapped[w], Absent} /\ tlb'[w] \in {tlb[w], Absent, Walk(w)}
               /\ Pending(w) => Pending(w)',
           \A t : Has("clear", t)' <=> Has("clear", t)
    PROVE  MappingInv' /\ OwnInv' /\ LeftoverInv'
<1>1. \A w : Walk(w)' = Walk(w)
  BY DEF Walk
<1>2. \A w : Has("clear", pd[Dir(w)])' <=> Has("clear", pd[Dir(w)])
  BY DEF Has
<1>3. StateInv /\ TablesInv
  BY DEF CoreInv
<1>4. MappingInv' /\ OwnInv'
  BY <1>1, <1>2, <1>3, FramesKept
<1>5. \A d : Has("clear", pd[d])' <=> Has("clear", pd[d])
  BY DEF Has
<1>6. LeftoverInv'
  BY <1>3, <1>5, LeftoversKept
<1> QED
  BY <1>4, <1>6

LEMMA PopHas ==
    ASSUME todo \in Seq(Task), todo # <<>>, todo' = Tail(todo)
    PROVE  \A o, v : /\ Has(o, v)' => Has(o, v)
                     /\ Has(o, v) => Has(o, v)' \/ (Head(todo).op = o /\ Head(todo).page = v)
<1>1. Items(todo) = {Head(todo)} \cup Items(todo')
  BY PopItems
<1> QED
  BY <1>1 DEF Has

LEMMA FaultKeepsFrames ==
    ASSUME CoreInv, MappingInv, OwnInv, LeftoverInv, NEW p \in Pages, Faults(p)
    PROVE  MappingInv' /\ OwnInv' /\ LeftoverInv'
<1>1. PICK h : h = On("handle_fault", p)
  OBVIOUS
<1>2. h \in Task /\ h.op = "handle_fault"
  BY <1>1, OpsAreTasks DEF Ops
<1>3. Items(todo') = {h} \cup Items(todo)
  BY <1>1, <1>2, PushItems DEF Faults, CoreInv, StateInv
<1>4. \A w : /\ Has("clear", w)' <=> Has("clear", w)
             /\ Pending(w)' <=> Pending(w)
  BY <1>2, <1>3 DEF Has, Pending
<1>5. next \in Nat /\ next' = next /\ UNCHANGED <<pd, mem, tlb, mapped>>
  BY SizeFacts DEF Faults, CoreInv, StateInv
<1> QED
  BY <1>4, <1>5, QuietSteps

LEMMA LandingFacts ==
    ASSUME CoreInv, todo # <<>>, NEW p \in Frames, NEW c \in Content, Lands(p, c)
    PROVE  /\ Translate(p) \in Frames /\ (Translate(p) \in Tables => Translate(p) = p)
           /\ p \in IdentityTable .. HoleStart - 1 => Translate(p) = p
           /\ Translate(p) = p \/ Translate(p) < next
           /\ \A w \in Clients :
                /\ tlb'[w] = tlb[w]
                /\ Walk(w)' = IF pd[Dir(w)] # Absent /\ pd[Dir(w)] = Translate(p)
                              THEN c[Index(w)] ELSE Walk(w)
           /\ \A f \in Frames : mem'[f] = IF f = Translate(p) THEN c ELSE mem[f]
           /\ UNCHANGED <<pd, next, mapped, ranDry>> /\ next \in Nat
           /\ \A o, v : /\ Has(o, v)' => Has(o, v)
                        /\ Has(o, v) => Has(o, v)' \/ (Head(todo).op = o /\ Head(todo).page = v)
<1>1. StateInv /\ TablesInv /\ ShapeInv /\ KernelInv
  BY DEF CoreInv
<1>2. Translate(p) # Absent /\ todo' = Tail(todo) /\ UNCHANGED <<pd, next, mapped, ranDry>>
  BY DEF Lands
<1>3. /\ Translate(p) \in Frames /\ (Translate(p) \in Tables => Translate(p) = p)
      /\ p \in IdentityTable .. HoleStart - 1 => Translate(p) = p
      /\ Translate(p) = p \/ Translate(p) < next
  BY <1>1, <1>2, KernelLanding DEF MayLead
<1>4. /\ \A f \in Frames : mem'[f] = IF f = Translate(p) THEN c ELSE mem[f]
      /\ \A v \in Pages : tlb'[v] = IF v = p THEN Translate(p) ELSE tlb[v]
  BY <1>1, LandingTypes, PageFacts
<1>5. \A w \in Clients : w \in Pages /\ w # p
  BY PageFacts
<1>6. \A w \in Pages : Walk(w)' = IF pd[Dir(w)] # Absent /\ pd[Dir(w)] = Translate(p)
                                  THEN c[Index(w)] ELSE Walk(w)
  BY <1>1, WalkAfterLanding
<1>7. next \in Nat
  BY <1>1, SizeFacts DEF StateInv
<1>8. \A o, v : /\ Has(o, v)' => Has(o, v)
                /\ Has(o, v) => Has(o, v)' \/ (Head(todo).op = o /\ Head(todo).page = v)
  BY <1>1, <1>2, PopHas DEF StateInv
<1> QED
  BY <1>2, <1>3, <1>4, <1>5, <1>6, <1>7, <1>8

LEMMA TouchKeepsFrames ==
    ASSUME CoreInv, MappingInv, OwnInv, LeftoverInv, Touch
    PROVE  MappingInv' /\ OwnInv' /\ LeftoverInv'
<1>a. PICK e : e = Head(todo)
  OBVIOUS
<1>b. PICK v : v = e.page
  OBVIOUS
<1>1. todo # <<>> /\ e.op = "touch" /\ (Faults(v) \/ Lands(v, mem[Translate(v)]))
  BY <1>a, <1>b, Effects DEF Doing
<1>2. StateInv /\ ShapeInv /\ TablesInv /\ CacheInv /\ todo \in Seq(Task)
  BY DEF CoreInv, StateInv
<1>3. e \in Task /\ e \in Items(todo)
  BY <1>1, <1>2, <1>a, StackFacts
<1>4. v \in Pages
  BY <1>3, <1>b DEF Task
<1>5. CASE Faults(v)
  BY <1>4, <1>5, FaultKeepsFrames
<1>6. CASE Lands(v, mem[Translate(v)])
  <2>1. Translate(v) # Absent /\ todo' = Tail(todo) /\ UNCHANGED <<pd, next, mapped>>
    BY <1>6 DEF Lands
  <2>2. Translate(v) \in Frames /\ mem[Translate(v)] \in Content
    BY <1>2, <1>4, <2>1, WalkTypes DEF StateInv
  <2>3. mem' = mem
    BY <1>2, <1>6, <2>2 DEF Lands, StateInv
  <2>4. \A w \in Pages : tlb'[w] = IF w = v THEN Translate(v) ELSE tlb[w]
    BY <1>1, <1>2, <1>4, <1>6, <2>2, LandingTypes
  <2>5. \A w \in Clients : tlb'[w] \in {tlb[w], Absent, Walk(w)}
    BY <2>4, <1>2, <1>4, WalkTypes, PageFacts
  <2>6. \A o, w : /\ Has(o, w)' => Has(o, w)
                  /\ Has(o, w) => Has(o, w)' \/ (Head(todo).op = o /\ Head(todo).page = w)
    BY <1>1, <1>2, <2>1, PopHas
  <2>7. \A w : (Has("clear", w)' <=> Has("clear", w)) /\ (Pending(w) => Pending(w)')
    BY <1>1, <1>a, <2>6 DEF Pending
  <2>8. next \in Nat /\ next' = next
    BY <1>2, <2>1, SizeFacts DEF StateInv
  <2> QED
    BY <2>1, <2>3, <2>5, <2>7, <2>8, QuietSteps
<1> QED
  BY <1>1, <1>5, <1>6

LEMMA ClearKeepsFrames ==
    ASSUME CoreInv, MappingInv, OwnInv, LeftoverInv, Clear
    PROVE  MappingInv' /\ OwnInv' /\ LeftoverInv'
<1>a. PICK e : e = Head(todo)
  OBVIOUS
<1>b. PICK p : p = e.page
  OBVIOUS
<1>c. PICK g : g = Translate(p)
  OBVIOUS
<1>1. todo # <<>> /\ e.op = "clear" /\ (Faults(p) \/ Lands(p, Cleared(mem[g])))
  BY <1>a, <1>b, <1>c, Effects DEF Doing
<1>2. StateInv /\ ShapeInv /\ TablesInv /\ CacheInv /\ todo \in Seq(Task) /\ KernelInv
  BY DEF CoreInv, StateInv
<1>3. e \in Task /\ e \in Items(todo)
  BY <1>1, <1>2, <1>a, StackFacts
<1>4. p \in Tables /\ p \in Frames /\ p \in Nat /\ p >= IdentityTable /\ p < next /\ p \in Pages
  <2>1. Fits(e)
    BY <1>3 DEF CoreInv, TaskInv
  <2>2. p \in Tables
    BY <2>1, <1>1, <1>b DEF Fits
  <2> QED
    BY <2>2, <1>2, TableFacts, PageFacts
<1>5. CASE Faults(p)
  BY <1>4, <1>5, FaultKeepsFrames
<1>6. CASE Lands(p, Cleared(mem[g]))
  <2>1. g \in Frames /\ mem[g] \in Content
    BY <1>2, <1>4, <1>6, <1>c, KernelLanding DEF Lands, StateInv
  <2>2. PICK c : c = Cleared(mem[g])
    OBVIOUS
  <2>3. c \in Content /\ \A x \in 0 .. ENTRIES - 1 : c[x] = IF x <= 1 THEN mem[g][x] ELSE Absent
    BY <2>1, <2>2, SizeFacts DEF Cleared, Content
  <2>4. Lands(p, c)
    BY <1>6, <2>2
  <2>5. /\ g \in Tables => g = p
        /\ p \in IdentityTable .. HoleStart - 1 => g = p
        /\ g = p \/ g < next
    BY <1>1, <1>4, <1>c, <2>3, <2>4, LandingFacts
  <2>6. \A w \in Clients : /\ tlb'[w] = tlb[w]
                           /\ Walk(w)' = IF pd[Dir(w)] # Absent /\ pd[Dir(w)] = g
                                         THEN c[Index(w)] ELSE Walk(w)
    BY <1>1, <1>4, <1>c, <2>3, <2>4, LandingFacts
  <2>7. /\ \A f \in Frames : mem'[f] = IF f = g THEN c ELSE mem[f]
        /\ UNCHANGED <<pd, next, mapped>> /\ next \in Nat
    BY <1>1, <1>4, <1>c, <2>3, <2>4, LandingFacts
  <2>8. \A w : /\ Has("clear", w)' => Has("clear", w)
               /\ Has("clear", w) => Has("clear", w)' \/ w = p
               /\ Pending(w) => Pending(w)'
    <3>1. \A o, w : /\ Has(o, w)' => Has(o, w)
                    /\ Has(o, w) => Has(o, w)' \/ (Head(todo).op = o /\ Head(todo).page = w)
      BY <1>1, <1>4, <2>3, <2>4, LandingFacts
    <3> QED
      BY <3>1, <1>1, <1>a, <1>b DEF Pending
  <2>9. Has("clear", p)
    BY <1>1, <1>3, <1>b DEF Has
  <2>10. ASSUME NEW w \in Clients
         PROVE  /\ mapped'[w] \in {mapped[w], Absent} /\ tlb'[w] \in {tlb[w], Absent, Walk(w)}
                /\ \/ Walk(w)' = Walk(w)
                   \/ Walk(w)' = mapped[w]
                   \/ Walk(w)' = Absent /\ (mapped'[w] # Absent => Pending(w)')
                /\ \/ Pending(w) => Pending(w)'
                   \/ Walk(w)' = mapped'[w] \/ mapped'[w] = Absent
                   \/ ~(pd[Dir(w)] < HoleStart)
                /\ pd[Dir(w)] # Absent /\ Has("clear", pd[Dir(w)])' =>
                       Has("clear", pd[Dir(w)]) /\ (Pending(w) => Pending(w)')
    <3>1. CASE pd[Dir(w)] # Absent /\ pd[Dir(w)] = g
      <4>1. g = p /\ Index(w) \in 0 .. ENTRIES - 1
        BY <3>1, <1>2, <2>5, TableFacts, PageFacts
      <4>2. Walk(w) = mem[g][Index(w)]
        BY <3>1 DEF Walk
      <4>3. Walk(w)' = Walk(w) \/ Walk(w)' = Absent
        BY <3>1, <4>1, <4>2, <2>3, <2>6
      <4>4. mapped[w] # Absent => Pending(w)
        BY <3>1, <4>1, <2>9 DEF MappingInv
      <4> QED
        BY <4>3, <4>4, <2>6, <2>7, <2>8
    <3>2. CASE ~(pd[Dir(w)] # Absent /\ pd[Dir(w)] = g)
      BY <3>2, <2>6, <2>7, <2>8
    <3> QED
      BY <3>1, <3>2
  <2>11. MappingInv' /\ OwnInv'
    BY <1>2, <2>7, <2>10, FramesKept
  <2>12. ASSUME NEW f \in Frames, f >= next, NEW x \in 0 .. ENTRIES - 1
         PROVE  mem'[f][x] \in {mem[f][x], Absent}
    BY <2>3, <2>7
  <2>13. ASSUME NEW d \in Dirs \ {0}, pd[d] # Absent, NEW x \in 0 .. ENTRIES - 1, mem'[pd[d]][x] = 0
         PROVE  /\ mem[pd[d]][x] = 0
                /\ Has("clear", pd[d]) => Has("clear", pd[d])' \/ x <= 1 \/ ~(pd[d] < HoleStart)
    <3>1. pd[d] \in Frames
      BY <1>2, <2>13 DEF StateInv
    <3>2. CASE pd[d] = g
      BY <3>1, <3>2, <2>3, <2>7, <2>13, SizeFacts
    <3>3. CASE pd[d] # g
      <4>1. mem'[pd[d]] = mem[pd[d]]
        BY <3>1, <3>3, <2>7
      <4>2. pd[d] = p => ~(pd[d] < HoleStart)
        BY <3>3, <2>5, <1>4, SizeFacts
      <4>3. Has("clear", pd[d]) => Has("clear", pd[d])' \/ pd[d] = p
        BY <2>7, <2>8
      <4> QED
        BY <4>1, <4>2, <4>3, <2>13
    <3> QED
      BY <3>2, <3>3
  <2>14. LeftoverInv'
    BY <1>2, <2>7, <2>12, <2>13, LeftoversKept
  <2> QED
    BY <2>11, <2>14
<1> QED
  BY <1>1, <1>5, <1>6

LEMMA ClearTailKeepsFrames ==
    ASSUME CoreInv, MappingInv, OwnInv, LeftoverInv, ClearTail
    PROVE  MappingInv' /\ OwnInv' /\ LeftoverInv'
<1>a. PICK e : e = Head(todo)
  OBVIOUS
<1>b. PICK p : p = e.page
  OBVIOUS
<1>c. PICK g : g = Translate(p)
  OBVIOUS
<1>1. todo # <<>> /\ e.op = "clear_tail" /\ (Faults(p) \/ Lands(p, Wiped(mem[g])))
  BY <1>a, <1>b, <1>c, Effects DEF Doing
<1>2. StateInv /\ ShapeInv /\ TablesInv /\ CacheInv /\ todo \in Seq(Task) /\ KernelInv
  BY DEF CoreInv, StateInv
<1>3. e \in Task /\ e \in Items(todo)
  BY <1>1, <1>2, <1>a, StackFacts
<1>4. p \notin Tables /\ p \in Frames /\ p \in Pages
  <2>1. Fits(e)
    BY <1>3 DEF CoreInv, TaskInv
  <2> QED
    BY <2>1, <1>1, <1>b, PageFacts DEF Fits
<1>5. CASE Faults(p)
  BY <1>4, <1>5, FaultKeepsFrames
<1>6. CASE Lands(p, Wiped(mem[g]))
  <2>1. g \in Frames /\ mem[g] \in Content
    BY <1>2, <1>4, <1>6, <1>c, KernelLanding DEF Lands, StateInv
  <2>2. PICK c : c = Wiped(mem[g])
    OBVIOUS
  <2>3. c \in Content /\ \A x \in 0 .. ENTRIES - 1 : c[x] \in {mem[g][x], Absent}
    BY <2>1, <2>2 DEF Wiped, Content
  <2>4. Lands(p, c)
    BY <1>6, <2>2
  <2>5. g \notin Tables
    BY <1>1, <1>4, <1>c, <2>3, <2>4, LandingFacts
  <2>6. \A w \in Clients : /\ tlb'[w] = tlb[w]
                           /\ Walk(w)' = IF pd[Dir(w)] # Absent /\ pd[Dir(w)] = g
                                         THEN c[Index(w)] ELSE Walk(w)
    BY <1>1, <1>4, <1>c, <2>3, <2>4, LandingFacts
  <2>7. /\ \A f \in Frames : mem'[f] = IF f = g THEN c ELSE mem[f]
        /\ UNCHANGED <<pd, next, mapped>> /\ next \in Nat
    BY <1>1, <1>4, <1>c, <2>3, <2>4, LandingFacts
  <2>8. \A w : /\ Has("clear", w)' <=> Has("clear", w)
               /\ Pending(w) => Pending(w)'
    <3>1. \A o, w : /\ Has(o, w)' => Has(o, w)
                    /\ Has(o, w) => Has(o, w)' \/ (Head(todo).op = o /\ Head(todo).page = w)
      BY <1>1, <1>4, <2>3, <2>4, LandingFacts
    <3> QED
      BY <3>1, <1>1, <1>a DEF Pending
  <2>9. \A w \in Clients : Walk(w)' = Walk(w)
    BY <1>2, <2>5, <2>6, TableFacts, PageFacts
  <2>10. \A w : Has("clear", pd[Dir(w)])' <=> Has("clear", pd[Dir(w)])
    BY <2>7, <2>8 DEF Has
  <2>11. MappingInv' /\ OwnInv'
    BY <1>2, <2>6, <2>7, <2>8, <2>9, <2>10, FramesKept
  <2>12. \A f \in Frames : f >= next => \A x \in 0 .. ENTRIES - 1 : mem'[f][x] \in {mem[f][x], Absent}
    BY <2>3, <2>7
  <2>13. ASSUME NEW d \in Dirs \ {0}, pd[d] # Absent, NEW x \in 0 .. ENTRIES - 1, mem'[pd[d]][x] = 0
         PROVE  /\ mem[pd[d]][x] = 0
                /\ Has("clear", pd[d]) => Has("clear", pd[d])' \/ x <= 1 \/ ~(pd[d] < HoleStart)
    <3>1. pd[d] \in Frames /\ pd[d] \in Tables
      BY <1>2, <2>13 DEF StateInv, Tables
    <3>2. mem'[pd[d]] = mem[pd[d]]
      BY <3>1, <2>5, <2>7
    <3>3. Has("clear", pd[d])' <=> Has("clear", pd[d])
      BY <2>7, <2>8 DEF Has
    <3> QED
      BY <3>2, <3>3, <2>13
  <2>14. LeftoverInv'
    BY <1>2, <2>7, <2>12, <2>13, LeftoversKept
  <2> QED
    BY <2>11, <2>14
<1> QED
  BY <1>1, <1>5, <1>6

LEMMA EntryStoreKeepsFrames ==
    ASSUME CoreInv, MappingInv, OwnInv, LeftoverInv,
           todo # <<>>, NEW e, e = Head(todo), e.op \in {"store", "unmap"},
           NEW v \in Pages, v = e.page, NEW f \in Frames \cup {Absent},
           e.op = "store" => f = e.frame, e.op = "unmap" => f = Absent,
           Faults(pd[Dir(v)]) \/ Lands(pd[Dir(v)], With(mem[Translate(pd[Dir(v)])], Index(v), f))
    PROVE  MappingInv' /\ OwnInv' /\ LeftoverInv'
<1>a. PICK p : p = pd[Dir(v)]
  OBVIOUS
<1>b. PICK g : g = Translate(p)
  OBVIOUS
<1>1. e \in Task /\ e \in Items(todo) /\ (e.op = "store" => Moving(e))
  BY StackFacts DEF CoreInv, StateInv, Moving
<1>2. Fits(e)
  BY <1>1 DEF CoreInv, TaskInv
<1>3. StateInv /\ TablesInv /\ KernelInv /\ ShapeInv /\ CacheInv /\ todo \in Seq(Task)
  BY DEF CoreInv, StateInv
<1>4. p \in Tables /\ p \in Frames /\ p \in Nat /\ p >= IdentityTable /\ p # Absent /\ p < next /\ p \in Pages
  <2>1. p # Absent
    BY <1>2, <1>a DEF Fits
  <2> QED
    BY <2>1, <1>3, <1>a, TableFacts, PageFacts
<1>5. /\ e.op = "unmap" => v \in Clients /\ ~KernelPage(v) /\ mapped[v] = Absent
      /\ e.op = "store" /\ ~KernelPage(v) => v \in Clients /\ f = mapped[v] /\ f \in Frames
      /\ ~KernelPage(v) => v \in Clients /\ p # IdentityTable
      /\ KernelPage(v) => v \in Frames /\ p = IdentityTable
  <2>1. e.op = "unmap" => v \in Clients /\ ~KernelPage(v) /\ mapped[v] = Absent
    BY <1>2, PageFacts DEF Fits, Clients
  <2>2. e.op = "store" /\ ~KernelPage(v) => v \in Clients /\ f = mapped[v] /\ f \in Frames
    BY <1>1, <1>2 DEF Fits
  <2> QED
    BY <2>1, <2>2, <1>3, <1>a, PageFacts, TableFacts
<1>7. CASE Faults(p)
  BY <1>4, <1>7, FaultKeepsFrames
<1>8. CASE Lands(p, With(mem[g], Index(v), f))
  <2>1. PICK c : c = With(mem[g], Index(v), f)
    OBVIOUS
  <2>2. Index(v) \in 0 .. ENTRIES - 1
    BY PageFacts
  <2>3. g \in Frames /\ mem[g] \in Content
    BY <1>3, <1>4, <1>8, <1>b, KernelLanding DEF Lands, StateInv
  <2>4. c \in Content /\ \A y \in 0 .. ENTRIES - 1 : c[y] = IF y = Index(v) THEN f ELSE mem[g][y]
    BY <2>1, <2>2, <2>3 DEF With, Content
  <2>5. Lands(p, c)
    BY <1>8, <2>1
  <2>6. /\ g \in Tables => g = p
        /\ p \in IdentityTable .. HoleStart - 1 => g = p
        /\ g = p \/ g < next
    BY <1>4, <1>b, <2>4, <2>5, LandingFacts
  <2>7. \A w \in Clients : /\ tlb'[w] = tlb[w]
                           /\ Walk(w)' = IF pd[Dir(w)] # Absent /\ pd[Dir(w)] = g
                                         THEN c[Index(w)] ELSE Walk(w)
    BY <1>4, <1>b, <2>4, <2>5, LandingFacts
  <2>8. /\ \A h \in Frames : mem'[h] = IF h = g THEN c ELSE mem[h]
        /\ UNCHANGED <<pd, next, mapped>> /\ next \in Nat
    BY <1>4, <1>b, <2>4, <2>5, LandingFacts
  <2>9. \A o, w : /\ Has(o, w)' => Has(o, w)
                  /\ Has(o, w) => Has(o, w)' \/ (e.op = o /\ v = w)
    BY <1>4, <2>4, <2>5, LandingFacts
  <2>10. \A w : /\ Has("clear", w)' <=> Has("clear", w)
                /\ w # v => (Pending(w) => Pending(w)')
                /\ e.op = "unmap" => (Pending(w) => Pending(w)')
    BY <2>9 DEF Pending
  <2>11. Has("clear", pd[Dir(v)]) /\ v \in Clients => e.op = "unmap"
    <3>1. ASSUME e.op = "store", v \in Clients, NEW x \in Items(todo), x.op = "clear"
          PROVE  FALSE
      <4>1. Rank(e) = 3 /\ Rank(x) = 6 /\ x # e
        BY <1>1, <3>1, StackFacts, RankValues, PageFacts DEF CoreInv, StateInv
      <4>2. x \in Items(Tail(todo)) /\ Rank(x) < Rank(e)
        BY <3>1, <4>1, StackFacts DEF CoreInv, StateInv
      <4> QED
        BY <4>1, <4>2
    <3> QED
      BY <3>1 DEF Has
  <2>12. ASSUME NEW w \in Clients
         PROVE  /\ mapped'[w] \in {mapped[w], Absent} /\ tlb'[w] \in {tlb[w], Absent, Walk(w)}
                /\ \/ Walk(w)' = Walk(w)
                   \/ Walk(w)' = mapped[w]
                   \/ Walk(w)' = Absent /\ (mapped'[w] # Absent => Pending(w)')
                /\ \/ Pending(w) => Pending(w)'
                   \/ Walk(w)' = mapped'[w] \/ mapped'[w] = Absent
                   \/ ~(pd[Dir(w)] < HoleStart)
                /\ pd[Dir(w)] # Absent /\ Has("clear", pd[Dir(w)])' =>
                       Has("clear", pd[Dir(w)]) /\ (Pending(w) => Pending(w)')
    <3>1. w \in Pages /\ pd[Dir(w)] # IdentityTable /\ (pd[Dir(w)] # Absent => pd[Dir(w)] \in Tables)
      BY <1>3, PageFacts, TableFacts
    <3>2. CASE w = v
      <4>1. v \in Clients /\ ~KernelPage(v) /\ pd[Dir(w)] = p /\ p # IdentityTable
        BY <3>2, <1>5, <1>a, PageFacts
      <4>2. g = p => Walk(w)' = f
        BY <2>2, <2>4, <2>7, <3>2, <4>1, <1>4
      <4>3. g # p => Walk(w)' = Walk(w) /\ ~(p < HoleStart)
        BY <2>6, <2>7, <4>1, <1>4, SizeFacts
      <4>4. f = mapped[w] /\ mapped'[w] = mapped[w]
        BY <1>5, <2>8, <3>2, <4>1
      <4>5. Has("clear", pd[Dir(w)])' => Has("clear", pd[Dir(w)]) /\ (Pending(w) => Pending(w)')
        <5>1. Has("clear", pd[Dir(w)])' <=> Has("clear", pd[Dir(w)])
          BY <2>8, <2>10 DEF Has
        <5>2. Has("clear", pd[Dir(w)]) => e.op = "unmap"
          BY <2>11, <3>2
        <5> QED
          BY <2>10, <5>1, <5>2
      <4> QED
        BY <2>7, <4>1, <4>2, <4>3, <4>4, <4>5
    <3>3. CASE w # v
      <4>1. Walk(w)' = Walk(w)
        <5>1. CASE pd[Dir(w)] # Absent /\ pd[Dir(w)] = g
          <6>1. g = p /\ g # IdentityTable /\ Dir(w) = Dir(v)
            BY <3>1, <5>1, <2>6, <1>3, <1>a, PageFacts DEF TablesInv
          <6>2. Index(w) # Index(v) /\ Index(w) \in 0 .. ENTRIES - 1
            BY <6>1, <3>1, <3>3, PageFacts
          <6>3. Walk(w) = mem[g][Index(w)]
            BY <5>1 DEF Walk
          <6> QED
            BY <2>4, <2>7, <5>1, <6>2, <6>3
        <5> QED
          BY <5>1, <2>7
      <4>2. Has("clear", pd[Dir(w)])' <=> Has("clear", pd[Dir(w)])
        BY <2>8, <2>10 DEF Has
      <4> QED
        BY <2>7, <2>8, <2>10, <3>3, <4>1, <4>2
    <3> QED
      BY <3>2, <3>3
  <2>13. MappingInv' /\ OwnInv'
    BY <1>3, <2>8, <2>12, FramesKept
  <2>14. ASSUME NEW h \in Frames, h >= next, NEW x \in 0 .. ENTRIES - 1
         PROVE  mem'[h][x] \in {mem[h][x], Absent}
    <3>1. g < next /\ g \in Nat /\ h \in Nat
      BY <1>4, <2>3, <2>6, SizeFacts DEF Frames
    <3> QED
      BY <2>8, <2>14, <3>1
  <2>15. ASSUME NEW d \in Dirs \ {0}, pd[d] # Absent, NEW x \in 0 .. ENTRIES - 1, mem'[pd[d]][x] = 0
         PROVE  /\ mem[pd[d]][x] = 0
                /\ Has("clear", pd[d]) => Has("clear", pd[d])' \/ x <= 1 \/ ~(pd[d] < HoleStart)
    <3>1. pd[d] \in Frames /\ pd[d] \in Tables /\ pd[d] # IdentityTable
      BY <1>3, <2>15, PageFacts, SizeFacts DEF StateInv, Tables, TablesInv
    <3>2. Has("clear", pd[d])' <=> Has("clear", pd[d])
      BY <2>8, <2>10 DEF Has
    <3>3. mem[pd[d]][x] = 0
      <4>1. CASE pd[d] = g
        <5>1. g = p /\ ~KernelPage(v)
          BY <3>1, <4>1, <2>6, <1>5
        <5>2. f # 0
          BY <5>1, <1>5, SizeFacts DEF OwnInv
        <5>3. c[x] = 0 /\ x # Index(v)
          BY <2>4, <2>8, <2>15, <3>1, <4>1, <5>2
        <5> QED
          BY <2>4, <4>1, <5>3
      <4>2. CASE pd[d] # g
        BY <2>8, <2>15, <3>1, <4>2
      <4> QED
        BY <4>1, <4>2
    <3> QED
      BY <3>2, <3>3
  <2>16. LeftoverInv'
    BY <1>3, <2>8, <2>14, <2>15, LeftoversKept
  <2> QED
    BY <2>13, <2>16
<1> QED
  BY <1>7, <1>8, <1>a, <1>b

LEMMA StoresKeepFrames ==
    ASSUME CoreInv, MappingInv, OwnInv, LeftoverInv, StoreEntry \/ unmap_page
    PROVE  MappingInv' /\ OwnInv' /\ LeftoverInv'
<1>1. PICK e : e = Head(todo)
  OBVIOUS
<1>2. PICK v : v = e.page
  OBVIOUS
<1>3. todo # <<>> /\ e.op \in {"store", "unmap"}
  BY <1>1, Effects DEF Doing
<1>4. e \in Task /\ e \in Items(todo)
  BY <1>1, <1>3, StackFacts DEF CoreInv, StateInv
<1>5. v \in Pages /\ (e.op = "store" => e.frame \in Frames)
  <2>1. Fits(e)
    BY <1>4 DEF CoreInv, TaskInv
  <2> QED
    BY <1>2, <1>4, <2>1 DEF Task, Fits, Moving
<1>6. CASE StoreEntry
  <2>1. e.op = "store"
    BY <1>1, <1>6, Effects DEF Doing
  <2>2. Faults(pd[Dir(v)]) \/ Lands(pd[Dir(v)], With(mem[Translate(pd[Dir(v)])], Index(v), e.frame))
    BY <1>1, <1>2, <1>6, Effects
  <2>3. e.frame \in Frames \cup {Absent}
    BY <2>1, <1>5
  <2> QED
    BY <1>1, <1>2, <1>3, <1>5, <2>1, <2>2, <2>3, EntryStoreKeepsFrames
<1>7. CASE unmap_page
  <2>1. e.op = "unmap"
    BY <1>1, <1>7, Effects DEF Doing
  <2>2. Faults(pd[Dir(v)]) \/ Lands(pd[Dir(v)], With(mem[Translate(pd[Dir(v)])], Index(v), Absent))
    BY <1>1, <1>2, <1>7, Effects
  <2>3. Absent \in Frames \cup {Absent}
    OBVIOUS
  <2> QED
    BY <1>1, <1>2, <1>3, <1>5, <2>1, <2>2, <2>3, EntryStoreKeepsFrames
<1> QED
  BY <1>6, <1>7

LEMMA FourItems ==
    ASSUME NEW s \in Seq(Task), NEW a \in Task, NEW b \in Task, NEW c \in Task, NEW d \in Task
    PROVE  Items(FourMore(a, b, c, d, s)) = {a, b, c, d} \cup Items(s)
<1>1. PICK r1 : r1 = OneMore(d, s)
  OBVIOUS
<1>2. r1 \in Seq(Task) /\ Items(r1) = {d} \cup Items(s)
  BY <1>1, PushItems DEF OneMore
<1>3. PICK r2 : r2 = OneMore(c, r1)
  OBVIOUS
<1>4. r2 \in Seq(Task) /\ Items(r2) = {c} \cup Items(r1)
  BY <1>2, <1>3, PushItems DEF OneMore
<1>5. PICK r3 : r3 = OneMore(b, r2)
  OBVIOUS
<1>6. r3 \in Seq(Task) /\ Items(r3) = {b} \cup Items(r2)
  BY <1>4, <1>5, PushItems DEF OneMore
<1>7. Items(OneMore(a, r3)) = {a} \cup Items(r3)
  BY <1>6, PushItems DEF OneMore
<1>8. FourMore(a, b, c, d, s) = OneMore(a, r3)
  BY <1>1, <1>3, <1>5, PushFour
<1> QED
  BY <1>2, <1>4, <1>6, <1>7, <1>8

(* A table that is new holds nothing, or the loader's leftovers.           *)
LEMMA MapKeepsFrames ==
    ASSUME CoreInv, MappingInv, OwnInv, LeftoverInv, map_address, ~ranDry'
    PROVE  MappingInv' /\ OwnInv' /\ LeftoverInv'
<1>a. PICK e : e = Head(todo)
  OBVIOUS
<1>b. PICK v : v = e.page
  OBVIOUS
<1>c. PICK f : f = e.frame
  OBVIOUS
<1>d. PICK r : r = Tail(todo)
  OBVIOUS
<1>1. /\ todo # <<>> /\ e.op = "map"
      /\ UNCHANGED <<mem, tlb, file_page, heap_page, mapped>>
  BY <1>a DEF map_address, Doing
<1>2. StateInv /\ TablesInv /\ ShapeInv /\ TaskInv /\ PairInv /\ KernelInv /\ CacheInv
  BY DEF CoreInv
<1>3. /\ e \in Task /\ e \in Items(todo) /\ Items(todo) = {e} \cup Items(r)
      /\ r \in Seq(Task) /\ todo \in Seq(Task) /\ Moving(e)
  BY <1>1, <1>2, <1>a, <1>d, StackFacts DEF StateInv, Moving
<1>4. Fits(e) /\ v \in Pages /\ f \in Frames
  BY <1>2, <1>3, <1>b, <1>c DEF TaskInv, Fits, Task
<1>5. CASE pd[Dir(v)] # Absent
  <2>1. todo' = OneMore(Store(f, v), r) /\ UNCHANGED <<pd, next, ranDry>>
    BY <1>5, <1>a, <1>b, <1>c, <1>d DEF map_address, OneMore
  <2>2. PICK s : s = Store(f, v)
    OBVIOUS
  <2>3. s \in Task /\ s.op = "store" /\ s.page = v
    BY <2>2, <1>4, OpsAreTasks
  <2>4. Items(todo') = {s} \cup Items(r)
    BY <1>3, <2>1, <2>2, <2>3, PushItems DEF OneMore
  <2>5. \A w : /\ Has("clear", w)' <=> Has("clear", w)
               /\ Pending(w) => Pending(w)'
    BY <1>1, <1>3, <1>b, <2>3, <2>4 DEF Has, Pending
  <2>6. next \in Nat /\ next' = next
    BY <1>2, <2>1, SizeFacts DEF StateInv
  <2> QED
    BY <1>1, <2>1, <2>5, <2>6, QuietSteps
<1>6. CASE pd[Dir(v)] = Absent
  <2>1. PICK t \in Frames :
          /\ allocate_blocks(t, 1)
          /\ IF t = 0 THEN todo' = r /\ UNCHANGED pd
             ELSE /\ pd' = [pd EXCEPT ![Dir(v)] = t]
                  /\ todo' = <<On("clear", t), On("clear_tail", t + 1), Map(t, t), Store(f, v)>> \o r
    BY <1>6, <1>a, <1>b, <1>c, <1>d DEF map_address
  <2>2. /\ next \in Nat /\ next' \in LowestFree .. RamTop /\ t \in Nat /\ t # 0
        /\ t = next /\ next' = next + 1
    BY <1>2, <2>1, AllocatedFrame
  <2>3. /\ pd' = [pd EXCEPT ![Dir(v)] = t]
        /\ todo' = <<On("clear", t), On("clear_tail", t + 1), Map(t, t), Store(f, v)>> \o r
    BY <2>1, <2>2
  <2>4. t \in Pages /\ t + 1 \in Pages
    <3>1. t + 1 \in Frames
      BY <2>2, SizeFacts DEF Frames
    <3> QED
      BY <2>1, <3>1, PageFacts
  <2>5. PICK a, b, c, d : /\ a = On("clear", t) /\ b = On("clear_tail", t + 1)
                          /\ c = Map(t, t) /\ d = Store(f, v)
    OBVIOUS
  <2>6. /\ a \in Task /\ a.op = "clear" /\ a.page = t
        /\ b \in Task /\ b.op = "clear_tail"
        /\ c \in Task /\ c.op = "map"
        /\ d \in Task /\ d.op = "store" /\ d.page = v
    <3>1. On("clear", t) \in Task /\ On("clear", t).op = "clear" /\ On("clear", t).page = t
      BY <2>4, OpsAreTasks DEF Ops
    <3>2. On("clear_tail", t + 1) \in Task /\ On("clear_tail", t + 1).op = "clear_tail"
      BY <2>4, OpsAreTasks DEF Ops
    <3>3. Map(t, t) \in Task /\ Map(t, t).op = "map"
      BY <2>1, <2>4, OpsAreTasks
    <3>4. Store(f, v) \in Task /\ Store(f, v).op = "store" /\ Store(f, v).page = v
      BY <1>4, OpsAreTasks
    <3> QED
      BY <2>5, <3>1, <3>2, <3>3, <3>4
  <2>7. Items(todo') = {a, b, c, d} \cup Items(r)
    <3>1. todo' = FourMore(a, b, c, d, r)
      BY <2>3, <2>5 DEF FourMore
    <3> QED
      BY <3>1, <1>3, <2>6, FourItems
  <2>8. \A w : /\ Has("clear", w)' <=> Has("clear", w) \/ w = t
               /\ Pending(w) => Pending(w)'
    BY <1>1, <1>3, <1>b, <2>6, <2>7 DEF Has, Pending
  <2>9. ~KernelPage(v) /\ v \in Clients /\ Dir(v) \in Dirs \ {0}
    <3>1. ~KernelPage(v)
      BY <1>2, <1>4, <1>6, PageFacts, TableFacts, SizeFacts
    <3> QED
      BY <3>1, <1>3, <1>4, <1>b, PageFacts DEF Fits
  <2>10. /\ Tables' = Tables \cup {t} /\ t \notin Tables
         /\ \A x \in Tables : x \in Nat /\ x < next
    BY <1>2, <1>6, <2>1, <2>2, <2>3, <2>9, NewTable, TableFacts
  <2>11. /\ \A x \in Dirs : pd'[x] = IF x = Dir(v) THEN t ELSE pd[x]
         /\ t # Absent /\ \A x \in Dirs : pd[x] # Absent => pd[x] \in Tables
         /\ \A x \in Dirs : pd[x] \in Frames \cup {Absent}
    BY <1>2, <2>2, <2>3, SizeFacts DEF StateInv, Tables
  <2>12. \A x \in 0 .. ENTRIES - 1 : mem[t][x] # Absent => mem[t][x] = 0 /\ t < HoleStart
    BY <2>1, <2>2 DEF LeftoverInv
  <2>13. ASSUME NEW w \in Clients
         PROVE  /\ Walk(w)' = Walk(w) \/ Walk(w)' \in {Absent, 0}
                /\ Dir(w) # Dir(v) => Walk(w)' = Walk(w)
                /\ Dir(w) \in Dirs /\ w \in Pages
    <3>1. Dir(w) \in Dirs /\ Index(w) \in 0 .. ENTRIES - 1 /\ w \in Pages
      BY PageFacts
    <3>2. CASE Dir(w) = Dir(v)
      <4>1. Walk(w)' = mem[t][Index(w)]
        BY <1>1, <2>11, <3>1, <3>2 DEF Walk
      <4> QED
        BY <4>1, <3>1, <3>2, <2>12
    <3>3. CASE Dir(w) # Dir(v)
      BY <1>1, <2>11, <3>1, <3>3 DEF Walk
    <3> QED
      BY <3>1, <3>2, <3>3
  <2>14. \A w \in Clients : Dir(w) = Dir(v) /\ mapped[w] # Absent => Pending(w)
    <3>1. Absent < HoleStart
      BY SizeFacts
    <3>2. \A w \in Clients : Dir(w) = Dir(v) => Walk(w) = Absent /\ pd[Dir(w)] = Absent
      BY <1>6 DEF Walk
    <3> QED
      BY <3>1, <3>2 DEF MappingInv
  <2>15. MappingInv'
    <3>1. ASSUME NEW w \in Clients, mapped'[w] # Absent
          PROVE  /\ pd'[Dir(w)] < HoleStart => Walk(w)' = mapped'[w] \/ Pending(w)'
                 /\ pd'[Dir(w)] # Absent /\ Has("clear", pd[Dir(w)])' => Pending(w)'
      <4>1. CASE Dir(w) = Dir(v)
        BY <1>1, <2>8, <2>14, <3>1, <4>1
      <4>2. CASE Dir(w) # Dir(v)
        <5>1. pd'[Dir(w)] = pd[Dir(w)] /\ Walk(w)' = Walk(w) /\ mapped'[w] = mapped[w]
          BY <1>1, <2>11, <2>13, <4>2
        <5>2. pd[Dir(w)] # Absent => pd[Dir(w)] # t
          BY <2>10, <2>11, <2>13
        <5>3. pd'[Dir(w)] # Absent /\ Has("clear", pd[Dir(w)])' => Has("clear", pd[Dir(w)])
          <6>1. PICK q : q = pd[Dir(w)]
            OBVIOUS
          <6>2. Has("clear", pd[Dir(w)])' <=> Has("clear", q)'
            BY <5>1, <6>1 DEF Has
          <6> QED
            BY <2>8, <5>1, <5>2, <6>1, <6>2
        <5> QED
          BY <2>8, <3>1, <5>1, <5>3 DEF MappingInv
      <4> QED
        BY <4>1, <4>2
    <3> QED
      BY <3>1 DEF MappingInv
  <2>16. OwnInv'
    <3>1. ASSUME NEW w \in Clients
          PROVE  Holds(w)' \subseteq Holds(w)
      BY <1>1, <2>13 DEF Holds
    <3>2. ASSUME NEW w \in Clients, NEW x \in Holds(w)'
          PROVE  LowestFree <= x /\ x < next' /\ x \notin Tables'
      <4>1. x \in Holds(w) /\ LowestFree <= x /\ x < next /\ x \notin Tables
        BY <3>1, <3>2 DEF OwnInv
      <4>2. x \in Nat
        <5>1. mapped[w] \in Frames \cup {Absent}
          BY <1>2 DEF StateInv
        <5> QED
          BY <4>1, <5>1, <2>13, <1>2, WalkTypes DEF Holds, Frames
      <4> QED
        BY <4>1, <4>2, <2>2, <2>10
    <3>3. \A w \in Clients : mapped'[w] # 0
      BY <1>1 DEF OwnInv
    <3>4. \A u, w \in Clients : u # w => Holds(u)' \cap Holds(w)' = {}
      BY <3>1 DEF OwnInv
    <3> QED
      BY <3>2, <3>3, <3>4 DEF OwnInv
  <2>17. LeftoverInv'
    <3>1. ASSUME NEW h \in Frames, h >= next', NEW x \in 0 .. ENTRIES - 1, mem'[h][x] # Absent
          PROVE  mem'[h][x] = 0 /\ h < HoleStart
      <4>1. h \in Nat /\ h >= next
        BY <2>2, <3>1 DEF Frames
      <4> QED
        BY <4>1, <1>1, <3>1 DEF LeftoverInv
    <3>2. ASSUME NEW q \in Dirs \ {0}, pd'[q] # Absent, NEW x \in 0 .. ENTRIES - 1, mem'[pd'[q]][x] = 0
          PROVE  pd'[q] < HoleStart /\ (x <= 1 \/ Has("clear", pd[q])')
      <4>1. PICK h : h = pd'[q]
        OBVIOUS
      <4>2. Has("clear", pd[q])' <=> Has("clear", h)'
        BY <4>1 DEF Has
      <4>3. CASE q = Dir(v)
        <5>1. h = t
          BY <2>11, <4>1, <4>3
        <5>2. mem[t][x] = 0 /\ 0 # Absent
          BY <1>1, <3>2, <4>1, <5>1, SizeFacts
        <5>3. t < HoleStart
          BY <2>12, <5>2
        <5> QED
          BY <5>1, <5>3, <4>1, <4>2, <2>8
      <4>4. CASE q # Dir(v)
        <5>1. h = pd[q] /\ h # Absent
          BY <2>11, <4>1, <4>4, <3>2
        <5>2. mem[pd[q]][x] = 0
          BY <1>1, <3>2, <4>1, <5>1
        <5>3. h < HoleStart /\ (x <= 1 \/ Has("clear", h))
          BY <5>1, <5>2 DEF LeftoverInv
        <5> QED
          BY <5>3, <4>1, <4>2, <2>8
      <4> QED
        BY <4>3, <4>4
    <3> QED
      BY <3>1, <3>2 DEF LeftoverInv
  <2> QED
    BY <2>15, <2>16, <2>17
<1> QED
  BY <1>5, <1>6

(* A new frame for one page, whose mapping is then pending.                *)
LEMMA NewFrameKeepsFrames ==
    ASSUME CoreInv, MappingInv, OwnInv, LeftoverInv, NEW v \in Clients, NEW f \in Frames,
           allocate_blocks(f, 1), ~ranDry', mapped' = [mapped EXCEPT ![v] = f],
           UNCHANGED <<pd, mem, tlb>>,
           Pending(v)', \A w : Pending(w) => Pending(w)',
           \A t : Has("clear", t)' <=> Has("clear", t)
    PROVE  MappingInv' /\ OwnInv' /\ LeftoverInv'
<1>1. StateInv /\ TablesInv
  BY DEF CoreInv
<1>2. /\ next \in Nat /\ next' \in Nat /\ f # 0 /\ f = next /\ next' = next + 1 /\ f >= LowestFree
      /\ f \notin Tables
  BY <1>1, AllocatedFrame
<1>3. \A w \in Clients : mapped'[w] = IF w = v THEN f ELSE mapped[w]
  BY <1>1 DEF StateInv
<1>4. \A w : Walk(w)' = Walk(w)
  BY DEF Walk
<1>5. \A w : Has("clear", pd[Dir(w)])' <=> Has("clear", pd[Dir(w)])
  BY DEF Has
<1>6. Tables' = Tables
  BY DEF Tables
<1>7. MappingInv'
  <2>1. ASSUME NEW w \in Clients, mapped'[w] # Absent
        PROVE  /\ pd[Dir(w)] < HoleStart => Walk(w)' = mapped'[w] \/ Pending(w)'
               /\ pd[Dir(w)] # Absent /\ Has("clear", pd[Dir(w)])' => Pending(w)'
    <3>1. CASE w = v
      BY <3>1
    <3>2. CASE w # v
      <4>1. mapped'[w] = mapped[w]
        BY <1>3, <3>2
      <4> QED
        BY <4>1, <2>1, <1>4, <1>5 DEF MappingInv
    <3> QED
      BY <3>1, <3>2
  <2> QED
    BY <2>1 DEF MappingInv
<1>8. OwnInv'
  <2>1. ASSUME NEW w \in Clients, NEW x \in Holds(w)
        PROVE  x \in Nat /\ LowestFree <= x /\ x < next /\ x \notin Tables
    <3>1. mapped[w] \in Frames \cup {Absent} /\ w \in Pages
      BY <1>1, PageFacts DEF StateInv
    <3>2. x \in Nat
      BY <2>1, <3>1, <1>1, WalkTypes DEF Holds, Frames
    <3> QED
      BY <3>2, <2>1 DEF OwnInv
  <2>2. \A w \in Clients : Holds(w)' \subseteq Holds(w) \cup (IF w = v THEN {f} ELSE {})
    BY <1>3, <1>4 DEF Holds
  <2>3. ASSUME NEW w \in Clients, NEW x \in Holds(w)'
        PROVE  LowestFree <= x /\ x < next' /\ x \notin Tables'
    <3>1. CASE x = f
      BY <3>1, <1>2, <1>6
    <3>2. CASE x \in Holds(w)
      BY <3>2, <2>1, <1>2, <1>6
    <3> QED
      BY <2>2, <2>3, <3>1, <3>2
  <2>4. \A w \in Clients : f \notin Holds(w)
    BY <2>1, <1>2
  <2>5. \A u, w \in Clients : u # w => Holds(u)' \cap Holds(w)' = {}
    BY <2>2, <2>4 DEF OwnInv
  <2>6. \A w \in Clients : mapped'[w] # 0
    BY <1>2, <1>3 DEF OwnInv
  <2> QED
    BY <2>3, <2>5, <2>6 DEF OwnInv
<1>9. LeftoverInv'
  <2>1. \A d : Has("clear", pd[d])' <=> Has("clear", pd[d])
    BY DEF Has
  <2> QED
    BY <1>1, <1>2, <2>1, LeftoversKept
<1> QED
  BY <1>7, <1>8, <1>9

LEMMA HandlerKeepsFrames ==
    ASSUME CoreInv, MappingInv, OwnInv, LeftoverInv, page_fault_handler, ~ranDry'
    PROVE  MappingInv' /\ OwnInv' /\ LeftoverInv'
<1>a. PICK e : e = Head(todo)
  OBVIOUS
<1>b. PICK v : v = e.page
  OBVIOUS
<1>c. PICK r : r = Tail(todo)
  OBVIOUS
<1>d. PICK f \in Frames :
        /\ allocate_blocks(f, 1)
        /\ todo' = <<Map(f, v), On("reload_cr3", v)>> \o r
        /\ mapped' = IF v \in Clients THEN [mapped EXCEPT ![v] = f] ELSE mapped
  BY <1>a, <1>b, <1>c DEF page_fault_handler
<1>1. /\ todo # <<>> /\ e.op = "handle_fault"
      /\ UNCHANGED <<pd, mem, tlb, file_page, heap_page>>
  BY <1>a DEF page_fault_handler, Doing
<1>2. StateInv /\ TablesInv /\ ShapeInv /\ todo \in Seq(Task)
  BY DEF CoreInv, StateInv
<1>3. e \in Task /\ Items(todo) = {e} \cup Items(r) /\ r \in Seq(Task)
  BY <1>1, <1>2, <1>a, <1>c, StackFacts
<1>4. v \in Pages
  BY <1>3, <1>b DEF Task
<1>5. PICK m, l : m = Map(f, v) /\ l = On("reload_cr3", v)
  OBVIOUS
<1>6. m \in Task /\ m.op = "map" /\ m.page = v /\ l \in Task /\ l.op = "reload_cr3"
  <2>1. Map(f, v) \in Task /\ Map(f, v).op = "map" /\ Map(f, v).page = v
    BY <1>4, OpsAreTasks
  <2>2. On("reload_cr3", v) \in Task /\ On("reload_cr3", v).op = "reload_cr3"
    BY <1>4, OpsAreTasks DEF Ops
  <2> QED
    BY <1>5, <2>1, <2>2
<1>7. Items(todo') = {m, l} \cup Items(r)
  <2>1. PICK u : u = <<l>> \o r
    OBVIOUS
  <2>2. u \in Seq(Task) /\ Items(u) = {l} \cup Items(r)
    BY <1>3, <1>6, <2>1, PushItems
  <2>3. Items(<<m>> \o u) = {m} \cup Items(u)
    BY <1>6, <2>2, PushItems
  <2>4. <<m, l>> \o r = <<m>> \o (<<l>> \o r)
    BY <1>3, <1>6, PushTwo
  <2>5. todo' = <<m, l>> \o r
    BY <1>d, <1>5
  <2>6. todo' = <<m>> \o u
    BY <2>1, <2>4, <2>5
  <2> QED
    BY <2>2, <2>3, <2>6
<1>8. \A w : /\ Has("clear", w)' <=> Has("clear", w)
             /\ Pending(w) => Pending(w)'
  BY <1>1, <1>3, <1>6, <1>7 DEF Has, Pending
<1>9. Pending(v)'
  BY <1>6, <1>7 DEF Has, Pending
<1>10. CASE v \in Clients
  BY <1>1, <1>8, <1>9, <1>10, <1>d, NewFrameKeepsFrames
<1>11. CASE v \notin Clients
  <2>1. next \in Nat /\ next' \in Nat /\ next <= next'
    BY <1>2, <1>d, AllocatedFrame
  <2> QED
    BY <1>1, <1>8, <1>11, <1>d, <2>1, QuietSteps
<1> QED
  BY <1>10, <1>11

LEMMA FlushesKeepFrames ==
    ASSUME CoreInv, MappingInv, OwnInv, LeftoverInv,
           ReloadCr3 \/ flush_tlb_entry \/ (\E v \in Pages : Evict(v)) \/ UNCHANGED vars
    PROVE  MappingInv' /\ OwnInv' /\ LeftoverInv'
<1>1. StateInv /\ next \in Nat
  BY SizeFacts DEF CoreInv, StateInv
<1>2. UNCHANGED <<pd, mem, next, mapped>>
  BY DEF ReloadCr3, flush_tlb_entry, Evict, vars
<1>3. \A w \in Clients : tlb'[w] \in {tlb[w], Absent}
  <2>1. \A w \in Clients : w \in Pages
    BY PageFacts
  <2>2. tlb \in [Pages -> Frames \cup {Absent}]
    BY <1>1 DEF StateInv
  <2> QED
    BY <2>1, <2>2 DEF ReloadCr3, flush_tlb_entry, Evict, vars
<1>4. \A w : /\ Has("clear", w)' <=> Has("clear", w)
             /\ Pending(w) => Pending(w)'
  <2>1. CASE ReloadCr3 \/ flush_tlb_entry
    <3>1. todo # <<>> /\ todo' = Tail(todo) /\ Head(todo).op \in {"reload_cr3", "invlpg"}
      BY <2>1 DEF ReloadCr3, flush_tlb_entry, Doing
    <3>2. \A o, w : /\ Has(o, w)' => Has(o, w)
                    /\ Has(o, w) => Has(o, w)' \/ (Head(todo).op = o /\ Head(todo).page = w)
      BY <1>1, <3>1, PopHas DEF StateInv
    <3> QED
      BY <3>1, <3>2 DEF Pending
  <2>2. CASE todo' = todo
    BY <2>2 DEF Has, Pending
  <2> QED
    BY <2>1, <2>2 DEF Evict, vars
<1> QED
  BY <1>1, <1>2, <1>3, <1>4, QuietSteps

LEMMA CallsKeepFrames ==
    ASSUME CoreInv, MappingInv, OwnInv, LeftoverInv, ~ranDry',
           OpenPage \/ Exec \/ GrowHeap \/ (\E v \in Clients : Program(v) \/ ClosePage(v))
    PROVE  MappingInv' /\ OwnInv' /\ LeftoverInv'
<1>1. StateInv /\ TablesInv /\ next \in Nat
  BY SizeFacts DEF CoreInv, StateInv
<1>2. todo = <<>> /\ UNCHANGED <<pd, mem, tlb>>
  BY DEF OpenPage, Exec, GrowHeap, Program, ClosePage
<1>3. \A o, w : ~Has(o, w)
  BY <1>2, NothingToDo
<1>4. \A w : ~Pending(w)
  BY <1>3 DEF Pending
<1>5. ASSUME NEW a \in Task, NEW b \in Task,
             todo' = <<a>> \/ (todo' = <<a, b>> /\ Rank(b) < Rank(a)), a.op # "clear", b.op # "clear"
      PROVE  /\ \A w : Has("clear", w)' <=> Has("clear", w)
             /\ a.op = "map" => Pending(a.page)'
  <2>1. a \in Items(todo') /\ Items(todo') \subseteq {a, b}
    BY <1>2, <1>5, FreshShape
  <2> QED
    BY <1>3, <1>5, <2>1 DEF Has, Pending
<1>6. CASE OpenPage
  <2>a. PICK v : v = file_page
    OBVIOUS
  <2>1. PICK f \in Frames : /\ allocate_blocks(f, 1) /\ mapped' = [mapped EXCEPT ![v] = f]
                            /\ todo' = <<Map(f, v), On("touch", v)>>
    BY <1>6, <2>a DEF OpenPage, MapNew
  <2>2. v \in Clients /\ v \in Pages /\ ~KernelPage(v)
    BY <1>6, <2>a, PageFacts DEF OpenPage, Clients
  <2>3. PICK a, b : a = Map(f, v) /\ b = On("touch", v)
    OBVIOUS
  <2>4. /\ a \in Task /\ a.op = "map" /\ a.page = v
        /\ b \in Task /\ b.op = "touch"
    <3>1. Map(f, v) \in Task /\ Map(f, v).op = "map" /\ Map(f, v).page = v
      BY <2>2, OpsAreTasks
    <3>2. On("touch", v) \in Task /\ On("touch", v).op = "touch"
      BY <2>2, OpsAreTasks DEF Ops
    <3> QED
      BY <2>3, <3>1, <3>2
  <2>5. Rank(b) < Rank(a)
    BY <2>2, <2>4, RankValues DEF Moving
  <2>6. (\A w : Has("clear", w)' <=> Has("clear", w)) /\ Pending(v)'
    BY <1>5, <2>1, <2>3, <2>4, <2>5
  <2> QED
    BY <1>2, <1>4, <2>1, <2>2, <2>6, NewFrameKeepsFrames
<1>7. CASE Exec
  <2>1. PICK f \in Frames : /\ allocate_blocks(f, 1) /\ mapped' = [mapped EXCEPT ![StackPage] = f]
                            /\ todo' = <<Map(f, StackPage)>>
    BY <1>7 DEF Exec, MapNew
  <2>2. StackPage \in Clients /\ StackPage \in Pages
    BY PageFacts DEF Clients
  <2>3. PICK a : a = Map(f, StackPage)
    OBVIOUS
  <2>4. a \in Task /\ a.op = "map" /\ a.page = StackPage
    BY <2>2, <2>3, OpsAreTasks
  <2>5. (\A w : Has("clear", w)' <=> Has("clear", w)) /\ Pending(StackPage)'
    BY <1>5, <2>1, <2>3, <2>4
  <2> QED
    BY <1>2, <1>4, <2>1, <2>2, <2>5, NewFrameKeepsFrames
<1>8. CASE GrowHeap
  <2>a. PICK p : p = heap_page
    OBVIOUS
  <2>1. PICK f \in Frames : allocate_blocks(f, 1) /\ todo' = <<Map(f, p)>>
    BY <1>8, <2>a DEF GrowHeap
  <2>2. p \in Pages /\ mapped' = mapped
    <3>1. p \in Frames
      BY <1>1, <1>8, <2>a, SizeFacts DEF GrowHeap, StateInv, Frames
    <3> QED
      BY <3>1, <1>8, PageFacts DEF GrowHeap
  <2>3. PICK a : a = Map(f, p)
    OBVIOUS
  <2>4. a \in Task /\ a.op = "map"
    BY <2>2, <2>3, OpsAreTasks
  <2>5. \A w : Has("clear", w)' <=> Has("clear", w)
    BY <1>5, <2>1, <2>3, <2>4
  <2>6. next' \in Nat /\ next <= next'
    BY <1>1, <2>1, AllocatedFrame
  <2> QED
    BY <1>2, <1>4, <2>2, <2>5, <2>6, QuietSteps
<1>9. CASE \E v \in Clients : Program(v)
  <2>1. PICK v \in Clients : Program(v)
    BY <1>9
  <2>2. v \in Pages /\ todo' = <<On("touch", v)>> /\ UNCHANGED <<next, mapped>>
    BY <2>1, PageFacts DEF Program
  <2>3. PICK a : a = On("touch", v)
    OBVIOUS
  <2>4. a \in Task /\ a.op = "touch"
    BY <2>2, <2>3, OpsAreTasks DEF Ops
  <2>5. \A w : Has("clear", w)' <=> Has("clear", w)
    BY <1>5, <2>2, <2>3, <2>4
  <2> QED
    BY <1>1, <1>2, <1>4, <2>2, <2>5, QuietSteps
<1>10. CASE \E v \in Clients : ClosePage(v)
  <2>1. PICK v \in Clients : ClosePage(v)
    BY <1>10
  <2>2. /\ v \in Pages /\ todo' = <<On("unmap", v), On("invlpg", v)>> /\ UNCHANGED next
        /\ mapped' = [mapped EXCEPT ![v] = Absent]
    BY <2>1, PageFacts DEF ClosePage
  <2>3. PICK a, b : a = On("unmap", v) /\ b = On("invlpg", v)
    OBVIOUS
  <2>4. a \in Task /\ a.op = "unmap" /\ b \in Task /\ b.op = "invlpg"
    <3>1. On("unmap", v) \in Task /\ On("unmap", v).op = "unmap"
      BY <2>2, OpsAreTasks DEF Ops
    <3>2. On("invlpg", v) \in Task /\ On("invlpg", v).op = "invlpg"
      BY <2>2, OpsAreTasks DEF Ops
    <3> QED
      BY <2>3, <3>1, <3>2
  <2>5. \A w : Has("clear", w)' <=> Has("clear", w)
    <3>1. Rank(b) < Rank(a)
      BY <2>4, RankValues
    <3> QED
      BY <1>5, <2>2, <2>3, <2>4, <3>1
  <2>6. \A w \in Clients : mapped'[w] \in {mapped[w], Absent}
    BY <1>1, <2>2 DEF StateInv
  <2> QED
    BY <1>1, <1>2, <1>4, <2>2, <2>5, <2>6, QuietSteps
<1> QED
  BY <1>6, <1>7, <1>8, <1>9, <1>10

LEMMA FrameInvInit == Init => FrameInv
<1> SUFFICES ASSUME Init PROVE MappingInv /\ OwnInv /\ LeftoverInv
  BY DEF FrameInv
<1>1. \A v \in Clients : Walk(v) = Absent /\ tlb[v] = Absent /\ mapped[v] = Absent
  BY InitialMemory
<1>2. MappingInv
  BY <1>1 DEF MappingInv
<1>3. OwnInv
  <2>1. \A v \in Clients : Holds(v) = {}
    BY <1>1 DEF Holds
  <2> QED
    BY <1>1, <2>1, SizeFacts DEF OwnInv
<1>4. LeftoverInv
  <2>1. next = LowestFree
    BY DEF Init
  <2>2. ASSUME NEW f \in Frames, f >= next, NEW x \in 0 .. ENTRIES - 1, mem[f][x] # Absent
        PROVE  mem[f][x] = 0 /\ f < HoleStart
    <3>1. f # IdentityTable
      BY <2>1, <2>2, SizeFacts DEF Frames
    <3>2. mem[f][x] = 0 /\ f \in Dirty
      BY <2>2, <3>1, InitialMemory
    <3>3. Dirty \subseteq 0 .. HoleStart - 1
      BY SizeAssumption
    <3> QED
      BY <3>2, <3>3, SizeFacts
  <2>3. \A d \in Dirs \ {0} : pd[d] = Absent
    BY InitialMemory
  <2> QED
    BY <2>2, <2>3 DEF LeftoverInv
<1> QED
  BY <1>2, <1>3, <1>4

(* What has run dry stays so.                                              *)
LEMMA DryStaysDry ==
    ASSUME CoreInv, [Next]_vars, ranDry
    PROVE  ranDry'
<1>1. \A f \in Frames : allocate_blocks(f, 1) => ranDry'
  BY AllocatedFrame DEF CoreInv
<1>2. Touch \/ Clear \/ ClearTail \/ StoreEntry \/ unmap_page => ranDry' = ranDry
  BY Effects DEF Faults, Lands
<1>3. ReloadCr3 \/ flush_tlb_entry \/ UNCHANGED vars => ranDry' = ranDry
  BY DEF ReloadCr3, flush_tlb_entry, vars
<1>4. map_address => ranDry'
  BY <1>1 DEF map_address
<1>5. page_fault_handler => ranDry'
  BY <1>1 DEF page_fault_handler
<1>6. OpenPage \/ Exec \/ GrowHeap => ranDry'
  BY <1>1 DEF OpenPage, Exec, GrowHeap, MapNew
<1>7. ASSUME NEW v PROVE Program(v) \/ ClosePage(v) \/ Evict(v) => ranDry' = ranDry
  BY DEF Program, ClosePage, Evict
<1> QED
  BY <1>2, <1>3, <1>4, <1>5, <1>6, <1>7 DEF Next, Kernel

LEMMA FrameInvStep == CoreInv /\ FrameInv /\ [Next]_vars => FrameInv'
<1> SUFFICES ASSUME CoreInv, FrameInv, [Next]_vars, ~ranDry' PROVE MappingInv' /\ OwnInv' /\ LeftoverInv'
  BY DEF FrameInv
<1>1. MappingInv /\ OwnInv /\ LeftoverInv
  BY DryStaysDry DEF FrameInv
<1>2. CASE Kernel
  <2>1. CASE Touch
    BY <1>1, <2>1, TouchKeepsFrames
  <2>2. CASE map_address
    BY <1>1, <2>2, MapKeepsFrames
  <2>3. CASE Clear
    BY <1>1, <2>3, ClearKeepsFrames
  <2>4. CASE ClearTail
    BY <1>1, <2>4, ClearTailKeepsFrames
  <2>5. CASE StoreEntry \/ unmap_page
    BY <1>1, <2>5, StoresKeepFrames
  <2>6. CASE page_fault_handler
    BY <1>1, <2>6, HandlerKeepsFrames
  <2>7. CASE ReloadCr3 \/ flush_tlb_entry
    BY <1>1, <2>7, FlushesKeepFrames
  <2> QED
    BY <1>2, <2>1, <2>2, <2>3, <2>4, <2>5, <2>6, <2>7 DEF Kernel
<1>3. CASE OpenPage \/ Exec \/ GrowHeap \/ (\E v \in Clients : Program(v) \/ ClosePage(v))
  BY <1>1, <1>3, CallsKeepFrames
<1>4. CASE (\E v \in Pages : Evict(v)) \/ UNCHANGED vars
  BY <1>1, <1>4, FlushesKeepFrames
<1> QED
  BY <1>2, <1>3, <1>4 DEF Next

LEMMA FrameInvariant == Spec => [](CoreInv /\ FrameInv)
<1>1. Init => CoreInv /\ FrameInv
  BY CoreInvInit, FrameInvInit
<1>2. CoreInv /\ FrameInv /\ [Next]_vars => CoreInv' /\ FrameInv'
  BY CoreInvStep, FrameInvStep
<1> QED
  BY <1>1, <1>2, PTL DEF Spec

(* Between two calls every client's page whose table lies in the part of   *)
(* memory that is mapped to itself leads to the frame last mapped there:   *)
(* no clearing, self-mapping or fault of another table has spoilt it.      *)
THEOREM PagesKeepTheirFrames == Spec => []PagesLeadToTheirFrames
<1>1. CoreInv /\ FrameInv => PagesLeadToTheirFrames
  <2> SUFFICES ASSUME CoreInv, FrameInv, todo = <<>>, ~ranDry, NEW v \in Clients,
                      mapped[v] # Absent, pd[Dir(v)] < HoleStart
               PROVE  Walk(v) = mapped[v]
    BY DEF PagesLeadToTheirFrames
  <2>1. ~Pending(v)
    BY NothingToDo DEF Pending
  <2> QED
    BY <2>1 DEF FrameInv, MappingInv
<1> QED
  BY <1>1, FrameInvariant, PTL

-----------------------------------------------------------------------------
(* What the pages in use lead to, UserPagesClear among the hypotheses.     *)
LEMMA PageInUse ==
    ASSUME CoreInv, todo = <<>> \/ Doing("touch")
    PROVE  /\ \A o, v : o # "touch" => ~Has(o, v)
           /\ todo # <<>> => /\ Head(todo).page \in Clients
                             /\ mapped[Head(todo).page] # Absent \/ Head(todo).page \in UserPages
<1>1. CASE todo = <<>>
  BY <1>1, NothingToDo
<1>2. CASE todo # <<>>
  <2>a. PICK e : e = Head(todo)
    OBVIOUS
  <2>1. todo \in Seq(Task) /\ ShapeInv /\ TaskInv /\ CacheInv /\ e.op = "touch"
    BY <2>a, <1>2 DEF CoreInv, StateInv, Doing
  <2>2. e \in Task /\ Items(todo) = {e} \cup Items(Tail(todo))
    BY <2>a, <2>1, <1>2, StackFacts
  <2>3. Rank(e) = 1
    BY <2>1, <2>2, RankValues
  <2>4. Items(todo) = {e}
    BY <2>a, <2>1, <2>2, <2>3, <1>2, HeadOfRankOneIsAlone
  <2>5. \A o, v : o # "touch" => ~Has(o, v)
    BY <2>1, <2>4 DEF Has
  <2>6. Fits(e)
    BY <2>1, <2>4 DEF TaskInv
  <2>7. e.page \in Clients /\ (mapped[e.page] # Absent \/ e.page \in UserPages)
    BY <2>1, <2>6 DEF Fits, Clients
  <2> QED
    BY <2>a, <2>5, <2>7
<1> QED
  BY <1>1, <1>2

LEMMA WalkIsNotZero ==
    ASSUME CoreInv, MappingInv, OwnInv, LeftoverInv, UserPagesClear, todo = <<>> \/ Doing("touch"),
           NEW v \in Clients, mapped[v] # Absent \/ v \in UserPages
    PROVE  Walk(v) # 0
<1> SUFFICES ASSUME Walk(v) = 0 PROVE FALSE
  OBVIOUS
<1>1. v \in Pages /\ Dir(v) \in Dirs \ {0} /\ Index(v) \in 0 .. ENTRIES - 1
  BY PageFacts
<1>2. pd[Dir(v)] # Absent /\ mem[pd[Dir(v)]][Index(v)] = 0
  BY SizeFacts DEF Walk
<1>3. ~Pending(v) /\ ~Has("clear", pd[Dir(v)])
  BY PageInUse DEF Pending
<1>4. pd[Dir(v)] < HoleStart /\ Index(v) <= 1
  BY <1>1, <1>2, <1>3 DEF LeftoverInv
<1>5. v \notin UserPages
  BY <1>1, <1>4, SizeFacts DEF UserPagesClear
<1>6. Walk(v) = mapped[v] /\ mapped[v] # 0
  BY <1>3, <1>4, <1>5 DEF MappingInv, OwnInv
<1> QED
  BY <1>6

LEMMA NoZeroCachedStep ==
    UserPagesClear => (CoreInv /\ FrameInv /\ NoZeroCached /\ [Next]_vars => NoZeroCached')
<1> SUFFICES ASSUME UserPagesClear, CoreInv, FrameInv, NoZeroCached, [Next]_vars, ~ranDry',
                    NEW w \in Clients
             PROVE  tlb'[w] # 0
  BY DEF NoZeroCached
<1>1. MappingInv /\ OwnInv /\ LeftoverInv /\ tlb[w] # 0 /\ Absent # 0
  BY DryStaysDry, SizeFacts DEF FrameInv, NoZeroCached
<1>2. /\ StateInv /\ ShapeInv /\ TablesInv /\ TaskInv /\ todo \in Seq(Task) /\ w \in Pages /\ w \notin Frames
      /\ tlb \in [Pages -> Frames \cup {Absent}]
  BY PageFacts DEF CoreInv, StateInv
<1>3. ASSUME NEW p \in Pages, NEW c \in Content, todo # <<>>, Lands(p, c), p # w
      PROVE  tlb'[w] # 0
  BY <1>1, <1>2, <1>3, LandingTypes
<1>4. ASSUME NEW p, Faults(p)
      PROVE  tlb'[w] # 0
  BY <1>1, <1>4 DEF Faults
<1>5. CASE Touch
  <2>a. PICK v : v = Head(todo).page
    OBVIOUS
  <2>1. todo # <<>> /\ Doing("touch") /\ (Faults(v) \/ Lands(v, mem[Translate(v)]))
    BY <2>a, <1>5, Effects DEF Doing
  <2>2. v \in Clients /\ v \in Pages /\ (mapped[v] # Absent \/ v \in UserPages)
    BY <2>a, <2>1, PageInUse, PageFacts
  <2>3. CASE Lands(v, mem[Translate(v)])
    <3>1. Translate(v) \in Frames /\ mem[Translate(v)] \in Content
      BY <1>2, <2>2, <2>3, WalkTypes DEF Lands, StateInv
    <3>2. CASE v = w
      <4>1. tlb'[w] = Translate(w)
        BY <1>2, <2>1, <2>3, <3>1, <3>2, LandingTypes
      <4>2. Walk(w) # 0
        BY <1>1, <2>1, <2>2, <3>2, WalkIsNotZero
      <4> QED
        BY <4>1, <4>2, <1>1 DEF Translate
    <3>3. CASE v # w
      BY <1>3, <2>1, <2>2, <2>3, <3>1, <3>3
    <3> QED
      BY <3>2, <3>3
  <2> QED
    BY <2>1, <2>3, <1>4
<1>6. CASE Clear \/ ClearTail \/ StoreEntry \/ unmap_page
  <2>a. PICK e : e = Head(todo)
    OBVIOUS
  <2>b. PICK own : own = pd[Dir(e.page)]
    OBVIOUS
  <2>1. todo # <<>> /\ e.op \in {"clear", "clear_tail", "store", "unmap"}
    BY <1>6, <2>a, Effects DEF Doing
  <2>2. e \in Task /\ e \in Items(todo)
    BY <1>2, <2>1, <2>a, StackFacts
  <2>3. Fits(e) /\ e.page \in Pages
    BY <1>2, <2>2 DEF TaskInv, Task
  <2>4. \A t \in Tables : t \in Frames
    BY <1>2, TableFacts
  <2>5. e.op \in {"clear", "clear_tail"} => e.page \in Frames
    BY <2>3, <2>4 DEF Fits
  <2>6. e.op \in {"store", "unmap"} => own \in Frames
    BY <1>2, <2>3, <2>b, WalkTypes DEF Fits
  <2>7. e.op = "store" => e.frame \in Frames
    BY <2>3 DEF Fits, Moving
  <2>8. \A p \in Frames : p \in Pages /\ p # w
    BY <1>2, PageFacts
  <2>9. ASSUME NEW p \in Frames, NEW c \in Content, Lands(p, c)
        PROVE  tlb'[w] # 0
    BY <1>3, <2>1, <2>8, <2>9
  <2>10. \A p \in Frames : \A c : Lands(p, c) => mem[Translate(p)] \in Content
    BY <1>2, <2>8, WalkTypes DEF Lands, StateInv
  <2>11. Index(e.page) \in 0 .. ENTRIES - 1
    BY <2>3, PageFacts
  <2>12. \A c \in Content : /\ Cleared(c) \in Content /\ Wiped(c) \in Content
                            /\ \A f \in Frames \cup {Absent} : With(c, Index(e.page), f) \in Content
    BY <2>11, ContentKinds
  <2>13. CASE Clear
    <3>1. e.op = "clear" /\ (Faults(e.page) \/ Lands(e.page, Cleared(mem[Translate(e.page)])))
      BY <2>13, <2>a, Effects DEF Doing
    <3> QED
      BY <3>1, <1>4, <2>5, <2>9, <2>10, <2>12
  <2>14. CASE ClearTail
    <3>1. e.op = "clear_tail" /\ (Faults(e.page) \/ Lands(e.page, Wiped(mem[Translate(e.page)])))
      BY <2>14, <2>a, Effects DEF Doing
    <3> QED
      BY <3>1, <1>4, <2>5, <2>9, <2>10, <2>12
  <2>15. CASE StoreEntry
    <3>1. e.op = "store" /\ (Faults(own) \/ Lands(own, With(mem[Translate(own)], Index(e.page), e.frame)))
      BY <2>15, <2>a, <2>b, Effects DEF Doing
    <3> QED
      BY <3>1, <1>4, <2>6, <2>7, <2>9, <2>10, <2>12
  <2>16. CASE unmap_page
    <3>1. e.op = "unmap" /\ (Faults(own) \/ Lands(own, With(mem[Translate(own)], Index(e.page), Absent)))
      BY <2>16, <2>a, <2>b, Effects DEF Doing
    <3> QED
      BY <3>1, <1>4, <2>6, <2>9, <2>10, <2>12
  <2> QED
    BY <1>6, <2>13, <2>14, <2>15, <2>16
<1>7. CASE ReloadCr3 \/ flush_tlb_entry \/ (\E v \in Pages : Evict(v)) \/ UNCHANGED vars
  BY <1>1, <1>2, <1>7 DEF ReloadCr3, flush_tlb_entry, Evict, vars
<1>8. CASE map_address \/ page_fault_handler \/ OpenPage \/ Exec \/ GrowHeap
  BY <1>1, <1>8 DEF map_address, page_fault_handler, OpenPage, Exec, GrowHeap
<1>9. CASE \E v \in Clients : Program(v) \/ ClosePage(v)
  BY <1>1, <1>9 DEF Program, ClosePage
<1> QED
  BY <1>5, <1>6, <1>7, <1>8, <1>9 DEF Next, Kernel

LEMMA CoreTypes == CoreInv => TypeOK
<1> SUFFICES ASSUME CoreInv PROVE TypeOK
  OBVIOUS
<1>1. StateInv /\ todo \in Seq(Task) /\ Len(todo) \in Nat
  BY DEF CoreInv, StateInv
<1>2. CASE Descending(todo)
  <2>1. Len(todo) <= 7
    BY <1>1, <1>2, DescendingIsShort
  <2> QED
    BY <1>1, <2>1 DEF StateInv, TypeOK, Content
<1>3. CASE Len(todo) > 1 /\ Descending(Tail(todo))
  <2>1. Tail(todo) \in Seq(Task) /\ Len(Tail(todo)) = Len(todo) - 1
    BY <1>1, <1>3
  <2>2. Len(Tail(todo)) <= 7
    BY <1>3, <2>1, DescendingIsShort
  <2>3. Len(todo) <= 8
    BY <1>1, <2>1, <2>2
  <2> QED
    BY <1>1, <2>3 DEF StateInv, TypeOK, Content
<1> QED
  BY <1>2, <1>3 DEF CoreInv, ShapeInv

(* Provided that no page the programs touch unasked is one of the first    *)
(* two of its table: wherever its table lies, a page in use leads, by the  *)
(* tables and by what is cached of them, to a frame that is no table's, no *)
(* reserved one and no other page's.                                       *)
THEOREM PagesDoNotShare == UserPagesClear => (Spec => []FramesAreOwn)
<1>1. ASSUME UserPagesClear, CoreInv, FrameInv, NoZeroCached
      PROVE  FramesAreOwn
  <2>1. TypeOK
    BY <1>1, CoreTypes
  <2>2. ASSUME todo = <<>> \/ Doing("touch"), ~ranDry, NEW v \in InUse, Translate(v) # Absent
        PROVE  v \in Clients /\ Translate(v) \in Holds(v)
    <3>1. MappingInv /\ OwnInv /\ LeftoverInv /\ v \in Clients /\ tlb[v] # 0
      BY <1>1, <2>2 DEF FrameInv, NoZeroCached, InUse
    <3>2. mapped[v] # Absent \/ v \in UserPages
      BY <1>1, <2>2, PageInUse DEF InUse, Doing
    <3>3. Walk(v) # 0
      BY <1>1, <2>2, <3>1, <3>2, WalkIsNotZero
    <3> QED
      BY <2>2, <3>1, <3>3 DEF Translate, Holds
  <2>3. ASSUME todo = <<>> \/ Doing("touch"), ~ranDry, NEW v \in InUse, Translate(v) # Absent
        PROVE  /\ Translate(v) \notin Tables /\ Translate(v) >= LowestFree
               /\ \A w \in InUse \ {v} : Translate(w) # Translate(v)
    <3>1. OwnInv
      BY <1>1, <2>3 DEF FrameInv
    <3>2. v \in Clients /\ Translate(v) \in Holds(v)
      BY <2>2, <2>3
    <3>3. Translate(v) \in Nat
      BY <1>1, <2>3, <3>2, PageFacts, WalkTypes DEF CoreInv
    <3>4. Translate(v) \notin Tables /\ LowestFree <= Translate(v)
      BY <3>1, <3>2 DEF OwnInv
    <3>5. ASSUME NEW w \in InUse \ {v}, Translate(w) = Translate(v)
          PROVE  FALSE
      <4>1. w \in Clients /\ Translate(w) \in Holds(w)
        BY <2>2, <2>3, <3>5
      <4> QED
        BY <4>1, <3>1, <3>2, <3>5 DEF OwnInv
    <3> QED
      BY <3>3, <3>4, <3>5, SizeFacts
  <2> QED
    BY <2>1, <2>3 DEF FramesAreOwn
<1>2. Init => NoZeroCached
  BY InitialMemory, SizeFacts DEF NoZeroCached
<1>3. ASSUME UserPagesClear PROVE Spec => []FramesAreOwn
  <2>1. CoreInv /\ FrameInv /\ NoZeroCached /\ [Next]_vars => NoZeroCached'
    BY <1>3, NoZeroCachedStep
  <2>2. CoreInv /\ FrameInv /\ NoZeroCached => FramesAreOwn
    BY <1>1, <1>3
  <2> QED
    BY <1>2, <2>1, <2>2, FrameInvariant, PTL DEF Spec
<1> QED
  BY <1>3
=============================================================================
