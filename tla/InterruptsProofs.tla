-------------------------- MODULE InterruptsProofs --------------------------
(***************************************************************************)
(* Proofs about Interrupts: whatever moment a request comes at, it is      *)
(* taken to the handler of its line, and acknowledged.                     *)
(***************************************************************************)
EXTENDS Interrupts, TLAPS

Controller == [base : {8, 32, 40, 112}, mask : SUBSET Lines, irr : SUBSET Lines,
               isr : SUBSET Lines, init : 0 .. 3]
Names == {"none", "stub", "wild", "div_by_0_handler", "PIT_handler", "keyboard_handler",
          "page_fault_handler", "syscall_handler", "gpf_handler"}
Served == [irq : {-1, 0, 1}, handler : Names, stage : {"none", "entered", "read", "served"}]
Later == {"unmask_timer", "unmask_keyboard", "set_PIT", "shell", "system_call"}
M == pic.master
S == pic.slave

StateInv ==
    /\ pic \in [master : Controller, slave : Controller]
    /\ idt \in [Vectors -> Names]
    /\ IF_ \in BOOLEAN /\ output_full \in BOOLEAN /\ disturbed \in BOOLEAN
    /\ pc \in {"pic_disable", "initIDT", "handlers", "PIC_remap", "halted"} \cup Later /\ n \in 0 .. 11
    /\ value \in [master : SUBSET Lines, slave : SUBSET Lines]
    /\ serving \in Served

(* The words a controller expects, counted by the steps of PIC_remap.      *)
Expected(k) == IF k \in {2, 3} THEN 1 ELSE IF k \in {4, 5} THEN 2 ELSE IF k \in {6, 7} THEN 3 ELSE 0

(* From the reading of the masks to their restoring.  Between the two the  *)
(* slave has forgotten what it was asked and is not asked again.           *)
RemapInv ==
    /\ n > 0 => value.master = Lines
    /\ n > 1 => value.slave = Lines
    /\ M.init = Expected(n - 1) /\ S.init = Expected(n - 2)
    /\ M.base = IF n <= 4 THEN 8 ELSE 32
    /\ n <= 2 => M.mask = Lines
    /\ IF n <= 3 THEN S.mask = Lines ELSE S.irr = {}
    /\ n \in {3, 4} /\ ~disturbed => M.irr = {}

(* Until the master has its vectors every line is masked, or none asks.    *)
MasksInv ==
    /\ pc \in {"pic_disable", "initIDT"} => ~IF_ /\ n \in {0, 1}
    /\ pc \in {"pic_disable", "initIDT", "handlers"} => M.base = 8 /\ M.init = 0 /\ S.init = 0
    /\ pc = "pic_disable" /\ n = 1 => M.mask = Lines
    /\ pc \in {"initIDT", "handlers"} => M.mask = Lines /\ S.mask = Lines
    /\ pc = "handlers" => n \in 0 .. 5
    /\ pc = "PIC_remap" => RemapInv
    /\ pc \in Later => n \in {0, 1} /\ M.base = 32 /\ M.init = 0 /\ S.init = 0 /\ S.mask = Lines

(* What the vectors of the two lines lead to, before and after.            *)
VectorsInv ==
    /\ pc \in {"handlers", "PIC_remap"} \cup Later \/ (pc = "initIDT" /\ n = 1) =>
           idt[8] = "stub" /\ idt[9] = "stub"
    /\ pc \in {"PIC_remap"} \cup Later \/ (pc = "handlers" /\ n > 1) => idt[32] = "PIT_handler"
    /\ pc \in {"PIC_remap"} \cup Later \/ (pc = "handlers" /\ n > 2) => idt[33] = "keyboard_handler"

ServiceInv ==
    /\ M.irr \subseteq {Timer, Keyboard} /\ S.isr = {}
    /\ M.isr = IF serving.stage \in {"entered", "read"} THEN {serving.irq} ELSE {}
    /\ serving # NoInterrupt => /\ ~IF_ /\ pc \notin {"pic_disable", "initIDT"}
                                /\ serving.irq \in {Timer, Keyboard} /\ serving.stage # "none"
    /\ serving.stage \in {"read", "served"} => serving.handler \in {"PIT_handler", "keyboard_handler"}
    /\ pc = "halted" => serving # NoInterrupt /\ serving.handler \notin {"PIT_handler", "keyboard_handler"}

ServedInv == StateInv /\ MasksInv /\ VectorsInv /\ ServiceInv

-----------------------------------------------------------------------------
(* What a write to a controller changes.                                   *)

LEMMA Initialised ==
    ASSUME NEW c \in Controller
    PROVE  /\ Command(c, "ICW1") \in Controller
           /\ Command(c, "ICW1").base = c.base /\ Command(c, "ICW1").init = 1
           /\ Command(c, "ICW1").irr = {} /\ Command(c, "ICW1").isr = {}
<1>1. /\ c = [base |-> c.base, mask |-> c.mask, irr |-> c.irr, isr |-> c.isr, init |-> c.init]
      /\ c.base \in {8, 32, 40, 112} /\ c.mask \in SUBSET Lines /\ c.irr \in SUBSET Lines
      /\ c.isr \in SUBSET Lines /\ c.init \in 0 .. 3
  BY DEF Controller
<1>2. Command(c, "ICW1") = [base |-> c.base, mask |-> {}, irr |-> {}, isr |-> {}, init |-> 1]
  BY <1>1 DEF Command
<1> QED
  BY <1>1, <1>2 DEF Controller

LEMMA MaskWritten ==
    ASSUME NEW c \in Controller, c.init = 0, NEW byte \in SUBSET Lines
    PROVE  /\ Data(c, byte) \in Controller
           /\ Data(c, byte).base = c.base /\ Data(c, byte).mask = byte /\ Data(c, byte).init = 0
           /\ Data(c, byte).irr = c.irr /\ Data(c, byte).isr = c.isr
<1>1. /\ c = [base |-> c.base, mask |-> c.mask, irr |-> c.irr, isr |-> c.isr, init |-> c.init]
      /\ c.base \in {8, 32, 40, 112} /\ c.mask \in SUBSET Lines /\ c.irr \in SUBSET Lines
      /\ c.isr \in SUBSET Lines /\ c.init \in 0 .. 3
  BY DEF Controller
<1>2. Data(c, byte) = [base |-> c.base, mask |-> byte, irr |-> c.irr, isr |-> c.isr, init |-> 0]
  BY <1>1 DEF Data
<1> QED
  BY <1>1, <1>2 DEF Controller

LEMMA VectorWritten ==
    ASSUME NEW c \in Controller, c.init = 1, NEW byte \in {32, 40}
    PROVE  /\ Data(c, byte) \in Controller
           /\ Data(c, byte).base = byte /\ Data(c, byte).mask = c.mask /\ Data(c, byte).init = 2
           /\ Data(c, byte).irr = c.irr /\ Data(c, byte).isr = c.isr
<1>1. /\ c = [base |-> c.base, mask |-> c.mask, irr |-> c.irr, isr |-> c.isr, init |-> c.init]
      /\ c.base \in {8, 32, 40, 112} /\ c.mask \in SUBSET Lines /\ c.irr \in SUBSET Lines
      /\ c.isr \in SUBSET Lines /\ c.init \in 0 .. 3
  BY DEF Controller
<1>2. Data(c, byte) = [base |-> byte, mask |-> c.mask, irr |-> c.irr, isr |-> c.isr, init |-> 2]
  <2>1. Data(c, byte) = [c EXCEPT !.base = byte, !.init = 2]
    BY DEF Data
  <2>2. PICK d : d = [c EXCEPT !.base = byte, !.init = 2]
    OBVIOUS
  <2>3. d.base = byte /\ d.init = 2 /\ d.mask = c.mask /\ d.irr = c.irr /\ d.isr = c.isr
    BY <1>1, <2>2
  <2>4. d = [base |-> d.base, mask |-> d.mask, irr |-> d.irr, isr |-> d.isr, init |-> d.init]
    BY <1>1, <2>2
  <2> QED
    BY <2>1, <2>2, <2>3, <2>4
<1> QED
  BY <1>1, <1>2 DEF Controller

LEMMA WordWritten ==
    ASSUME NEW c \in Controller, c.init \in {2, 3}, NEW byte
    PROVE  /\ Data(c, byte) \in Controller
           /\ Data(c, byte).base = c.base /\ Data(c, byte).mask = c.mask /\ Data(c, byte).init = IF c.init = 2 THEN 3 ELSE 0
           /\ Data(c, byte).irr = c.irr /\ Data(c, byte).isr = c.isr
<1>1. /\ c = [base |-> c.base, mask |-> c.mask, irr |-> c.irr, isr |-> c.isr, init |-> c.init]
      /\ c.base \in {8, 32, 40, 112} /\ c.mask \in SUBSET Lines /\ c.irr \in SUBSET Lines
      /\ c.isr \in SUBSET Lines /\ c.init \in 0 .. 3
  BY DEF Controller
<1>2. Data(c, byte) = [base |-> c.base, mask |-> c.mask, irr |-> c.irr, isr |-> c.isr,
                       init |-> IF c.init = 2 THEN 3 ELSE 0]
  BY <1>1 DEF Data
<1> QED
  BY <1>1, <1>2 DEF Controller

LEMMA Controllers ==
    ASSUME StateInv
    PROVE  /\ pic["master"] = M /\ pic["slave"] = S /\ M \in Controller /\ S \in Controller
           /\ pic = [master |-> M, slave |-> S]
  BY DEF StateInv, M, S

LEMMA Updates ==
    ASSUME StateInv, NEW c \in Controller
    PROVE  /\ LET p == [pic EXCEPT !["master"] = c]
              IN  p \in [master : Controller, slave : Controller] /\ p.master = c /\ p.slave = pic.slave
           /\ LET p == [pic EXCEPT !["slave"] = c]
              IN  p \in [master : Controller, slave : Controller] /\ p.slave = c /\ p.master = pic.master
  BY DEF StateInv, M, S

(* The steps of PIC_remap one by one.                                      *)
LEMMA RemapSteps ==
    ASSUME PIC_remap(32), n \in 0 .. 11
    PROVE  /\ pc = "PIC_remap" /\ serving = NoInterrupt /\ UNCHANGED <<idt, IF_, output_full, serving>>
           /\ IF n < 11 THEN pc' = pc /\ n' = n + 1 ELSE pc' = "unmask_timer" /\ n' = 0
           /\ n = 0 => Read("master")
           /\ n = 1 => Read("slave")
           /\ n = 2 => Write("master", Command(pic["master"], "ICW1"))
           /\ n = 3 => Write("slave", Command(pic["slave"], "ICW1"))
           /\ n = 4 => Write("master", Data(pic["master"], 32))
           /\ n = 5 => Write("slave", Data(pic["slave"], 40))
           /\ n = 6 => Write("master", Data(pic["master"], "ICW3"))
           /\ n = 7 => Write("slave", Data(pic["slave"], "ICW3"))
           /\ n = 8 => Write("master", Data(pic["master"], "ICW4"))
           /\ n = 9 => Write("slave", Data(pic["slave"], "ICW4"))
           /\ n = 10 => Write("master", Data(pic["master"], value["master"]))
           /\ n = 11 => Write("slave", Data(pic["slave"], value["slave"]))
<1>1. /\ pc = "PIC_remap" /\ serving = NoInterrupt /\ UNCHANGED <<idt, IF_, output_full, serving>>
      /\ IF n < 11 THEN pc' = pc /\ n' = n + 1 ELSE pc' = "unmask_timer" /\ n' = 0
  BY DEF PIC_remap, Step, More, Last
<1>2. /\ n \in {0, 2, 4, 6, 8, 10} => Alternately(n) = "master"
      /\ n \in {1, 3, 5, 7, 9, 11} => Alternately(n) = "slave"
  BY DEF Alternately
<1>3. LET p == Alternately(n)
          c == pic[p]
      IN  \/ n \in {0, 1} /\ Read(p)
          \/ n \in {2, 3} /\ Write(p, Command(c, "ICW1"))
          \/ n \in {4, 5} /\ Write(p, Data(c, IF p = "master" THEN 32 ELSE 40))
          \/ n \in {6, 7} /\ Write(p, Data(c, "ICW3"))
          \/ n \in {8, 9} /\ Write(p, Data(c, "ICW4"))
          \/ n \in {10, 11} /\ Write(p, Data(c, value[p]))
  BY DEF PIC_remap
<1>4. n = 0 => Read("master")
  BY <1>2, <1>3
<1>5. n = 1 => Read("slave")
  BY <1>2, <1>3
<1>6. n = 2 => Write("master", Command(pic["master"], "ICW1"))
  BY <1>2, <1>3
<1>7. n = 3 => Write("slave", Command(pic["slave"], "ICW1"))
  BY <1>2, <1>3
<1>8. n = 4 => Write("master", Data(pic["master"], 32))
  BY <1>2, <1>3
<1>9. n = 5 => Write("slave", Data(pic["slave"], 40))
  BY <1>2, <1>3
<1>10. n = 6 => Write("master", Data(pic["master"], "ICW3"))
  BY <1>2, <1>3
<1>11. n = 7 => Write("slave", Data(pic["slave"], "ICW3"))
  BY <1>2, <1>3
<1>12. n = 8 => Write("master", Data(pic["master"], "ICW4"))
  BY <1>2, <1>3
<1>13. n = 9 => Write("slave", Data(pic["slave"], "ICW4"))
  BY <1>2, <1>3
<1>14. n = 10 => Write("master", Data(pic["master"], value["master"]))
  BY <1>2, <1>3
<1>15. n = 11 => Write("slave", Data(pic["slave"], value["slave"]))
  BY <1>2, <1>3
<1> QED
  BY <1>1, <1>4, <1>5, <1>6, <1>7, <1>8, <1>9, <1>10, <1>11, <1>12, <1>13, <1>14, <1>15

LEMMA Irr ==
    ASSUME NEW c \in Controller, NEW s \in SUBSET Lines
    PROVE  LET d == [c EXCEPT !.irr = s]
           IN  d \in Controller /\ d.irr = s /\ d.isr = c.isr /\ d.mask = c.mask /\ d.base = c.base /\ d.init = c.init
  BY DEF Controller

LEMMA Isr ==
    ASSUME NEW c \in Controller, NEW s \in SUBSET Lines
    PROVE  LET d == [c EXCEPT !.isr = s]
           IN  d \in Controller /\ d.isr = s /\ d.irr = c.irr /\ d.mask = c.mask /\ d.base = c.base /\ d.init = c.init
  BY DEF Controller

-----------------------------------------------------------------------------
(* The devices and the handlers.                                           *)

LEMMA RaiseKeeps ==
    ASSUME ServedInv, Tick \/ Key \/ DiskReady
    PROVE  ServedInv'
<1>1. StateInv /\ MasksInv /\ VectorsInv /\ ServiceInv
  BY DEF ServedInv
<1>2. M \in Controller /\ S \in Controller /\ pic["master"] = M /\ pic["slave"] = S
  BY <1>1, Controllers
<1>3. /\ UNCHANGED <<idt, IF_, pc, n, value, serving>> /\ output_full' \in BOOLEAN
      /\ disturbed' \in BOOLEAN /\ (disturbed => disturbed')
  BY <1>1 DEF Tick, Key, DiskReady, Raise, main, StateInv
<1>4. CASE Tick \/ Key
  <2>1. PICK l \in {Timer, Keyboard} : Raise("master", l)
    BY <1>4 DEF Tick, Key
  <2>2. PICK c : c = [M EXCEPT !.irr = M.irr \cup {l}]
    OBVIOUS
  <2>3. M.irr \cup {l} \in SUBSET Lines /\ M.irr \cup {l} \subseteq {Timer, Keyboard}
    BY <1>1 DEF Timer, Keyboard, Lines, ServiceInv
  <2>4. /\ c \in Controller /\ c.irr = M.irr \cup {l} /\ c.isr = M.isr /\ c.mask = M.mask
        /\ c.base = M.base /\ c.init = M.init
    BY <1>2, <2>2, <2>3, Irr
  <2>5. pic' = [pic EXCEPT !["master"] = c]
    BY <1>1, <1>2, <2>1, <2>2 DEF Raise, StateInv
  <2>6. pic' \in [master : Controller, slave : Controller] /\ M' = c /\ S' = S
    BY <1>1, <2>4, <2>5, Updates DEF M, S
  <2>7. M.init # 0 => disturbed'
    BY <1>2, <2>1 DEF Raise, M
  <2>8. StateInv'
    BY <1>1, <1>3, <2>6 DEF StateInv
  <2>9. ServiceInv'
    BY <1>1, <1>3, <2>3, <2>4, <2>6 DEF ServiceInv
  <2>10. RemapInv => RemapInv'
    <3>1. n \in {3, 4} => Expected(n - 1) = 1
      BY DEF Expected
    <3> QED
      BY <1>3, <2>4, <2>6, <2>7, <3>1 DEF RemapInv
  <2>11. MasksInv'
    BY <1>1, <1>3, <2>4, <2>6, <2>10 DEF MasksInv
  <2> QED
    BY <1>1, <1>3, <2>8, <2>9, <2>11 DEF ServedInv, VectorsInv
<1>5. CASE DiskReady
  <2>1. Raise("slave", Disk) /\ pc \in {"shell", "system_call"}
    BY <1>5 DEF DiskReady
  <2>2. PICK c : c = [S EXCEPT !.irr = S.irr \cup {Disk}]
    OBVIOUS
  <2>3. S.irr \cup {Disk} \in SUBSET Lines
    BY <1>2 DEF Disk, Lines, Controller
  <2>4. /\ c \in Controller /\ c.isr = S.isr /\ c.mask = S.mask /\ c.init = S.init
    BY <1>2, <2>2, <2>3, Irr
  <2>5. pic' = [pic EXCEPT !["slave"] = c]
    BY <1>1, <1>2, <2>1, <2>2 DEF Raise, StateInv
  <2>6. pic' \in [master : Controller, slave : Controller] /\ S' = c /\ M' = M
    BY <1>1, <2>4, <2>5, Updates DEF M, S
  <2>7. StateInv'
    BY <1>1, <1>3, <2>6 DEF StateInv
  <2>8. ServiceInv'
    BY <1>1, <1>3, <2>4, <2>6 DEF ServiceInv
  <2>9. MasksInv'
    BY <1>1, <1>3, <2>1, <2>4, <2>6 DEF MasksInv, Later
  <2> QED
    BY <1>1, <1>3, <2>7, <2>8, <2>9 DEF ServedInv, VectorsInv
<1> QED
  BY <1>4, <1>5

LEMMA LeastLine ==
    ASSUME NEW s \in SUBSET {Timer, Keyboard}, s # {}
    PROVE  Min(s) \in s
<1>1. PICK x \in s : \A y \in s : x <= y
  <2>1. CASE Timer \in s
    BY <2>1 DEF Timer, Keyboard
  <2>2. CASE Timer \notin s
    <3>1. \A y \in s : y = Keyboard
      BY <2>2
    <3> QED
      BY <3>1 DEF Keyboard
  <2> QED
    BY <2>1, <2>2
<1> QED
  BY <1>1 DEF Min

(* Outside of the boot's first two functions the slave asks for nothing.   *)
LEMMA SlaveIsQuiet ==
    ASSUME ServedInv, pc \notin {"pic_disable", "halted"}
    PROVE  Requests(pic.slave) = {}
<1>1. S.mask = Lines \/ S.irr = {}
  BY DEF ServedInv, StateInv, MasksInv, RemapInv
<1>2. S.irr \subseteq Lines
  BY Controllers DEF ServedInv, Controller
<1> QED
  BY <1>1, <1>2 DEF Requests, S

(* What is taken, and where it leads.                                      *)
Entered(l) == [irq |-> l, handler |-> idt[M.base + l], stage |-> "entered"]
Taken(l) == [pic EXCEPT !["master"] = [[M EXCEPT !.isr = {l}] EXCEPT !.irr = M.irr \ {l}]]
LEMMA DeliveredLine ==
    ASSUME ServedInv, NEW l \in Lines, Deliver(l)
    PROVE  /\ l \in M.irr \ M.mask /\ l \in {Timer, Keyboard}
           /\ serving' = Entered(l) /\ pic' = Taken(l)
           /\ IF_ /\ pc \notin {"halted", "pic_disable", "initIDT"}
<1>1. StateInv /\ MasksInv /\ ServiceInv
  BY DEF ServedInv
<1>2. M \in Controller /\ pic["master"] = M
  BY <1>1, Controllers
<1>3. IF_ /\ serving = NoInterrupt /\ pc \notin {"halted", "pic_disable", "initIDT"}
  BY <1>1 DEF Deliver, MasksInv
<1>4. M.isr = {}
  BY <1>1, <1>3 DEF ServiceInv, NoInterrupt
<1>5. MasterRequests = M.irr \ M.mask
  <2>1. Requests(pic.slave) = {}
    BY <1>3, SlaveIsQuiet
  <2>2. [pic.master EXCEPT !.irr = IF Requests(pic.slave) = {} THEN @ ELSE @ \cup {Cascade}]
        = [M EXCEPT !.irr = M.irr]
    BY <2>1 DEF M
  <2>3. [M EXCEPT !.irr = M.irr].isr = {} /\ [M EXCEPT !.irr = M.irr].mask = M.mask
        /\ [M EXCEPT !.irr = M.irr].irr = M.irr
    BY <1>2, <1>4, Irr DEF Controller
  <2> QED
    BY <2>2, <2>3 DEF MasterRequests, Requests
<1>6. l \in M.irr \ M.mask /\ l \in {Timer, Keyboard}
  <2>1. M.irr \ M.mask \in SUBSET {Timer, Keyboard} /\ M.irr \ M.mask # {} /\ l = Min(M.irr \ M.mask)
    BY <1>1, <1>5 DEF Deliver, ServiceInv
  <2> QED
    BY <2>1, LeastLine
<1>7. l # Cascade
  BY <1>6 DEF Timer, Keyboard, Cascade
<1>8. /\ serving' = [irq |-> l, handler |-> idt[M.base + l], stage |-> "entered"]
      /\ pic' = [pic EXCEPT !.master.isr = @ \cup {l}, !.master.irr = @ \ {l}]
  BY <1>7 DEF Deliver, M
<1>9. pic' = [pic EXCEPT !["master"] = [[M EXCEPT !.isr = {l}] EXCEPT !.irr = M.irr \ {l}]]
  <2>1. PICK c : c = [M EXCEPT !.isr = {l}]
    OBVIOUS
  <2>2. c \in Controller /\ c.irr = M.irr
    BY <1>2, <2>1, Isr
  <2>3. PICK p : p = [pic EXCEPT !["master"] = c]
    OBVIOUS
  <2>4. p = [pic EXCEPT !.master.isr = @ \cup {l}]
    BY <1>1, <1>2, <1>4, <2>1, <2>3 DEF StateInv, M
  <2>5. pic' = [p EXCEPT !.master.irr = @ \ {l}]
    BY <1>8, <2>4
  <2>6. p.master = c
    BY <1>1, <2>2, <2>3, Updates
  <2>7. pic' = [p EXCEPT !["master"] = [c EXCEPT !.irr = M.irr \ {l}]]
    BY <2>2, <2>5, <2>6
  <2> QED
    BY <1>1, <2>1, <2>3, <2>7 DEF StateInv
<1> QED
  BY <1>3, <1>6, <1>8, <1>9 DEF Entered, Taken

(* Before the master has its vectors nothing is taken, unless a request    *)
(* came amid its initialisation.                                           *)
LEMMA TakenToItsHandler ==
    ASSUME ServedInv, NEW l \in Lines, Deliver(l), ~disturbed
    PROVE  idt[M.base + l] = IF l = Timer THEN "PIT_handler" ELSE "keyboard_handler"
<1>1. StateInv /\ MasksInv /\ VectorsInv
  BY DEF ServedInv
<1>2. l \in M.irr \ M.mask /\ l \in {Timer, Keyboard} /\ pc \notin {"halted", "pic_disable", "initIDT"}
  BY DeliveredLine
<1>3. M.mask # Lines /\ M.irr # {}
  BY <1>2
<1>4. pc \in {"PIC_remap"} \cup Later
  BY <1>1, <1>2, <1>3 DEF StateInv, MasksInv
<1>5. M.base = 32
  <2>1. CASE pc = "PIC_remap"
    <3>1. n \notin {0, 1, 2, 3, 4}
      BY <2>1, <1>1, <1>3 DEF MasksInv, RemapInv
    <3> QED
      BY <2>1, <3>1, <1>1 DEF StateInv, MasksInv, RemapInv
  <2>2. CASE pc \in Later
    BY <2>2, <1>1 DEF MasksInv
  <2> QED
    BY <1>4, <2>1, <2>2
<1>6. idt[32] = "PIT_handler" /\ idt[33] = "keyboard_handler"
  BY <1>1, <1>4 DEF VectorsInv
<1> QED
  BY <1>2, <1>5, <1>6 DEF Timer, Keyboard

RightHandler ==
    serving # NoInterrupt /\ ~disturbed =>
        serving.handler = IF serving.irq = Timer THEN "PIT_handler" ELSE "keyboard_handler"

LEMMA DeliverKeeps ==
    ASSUME ServedInv, NEW l \in Lines, Deliver(l)
    PROVE  ServedInv' /\ RightHandler'
<1>1. StateInv /\ MasksInv /\ VectorsInv /\ ServiceInv
  BY DEF ServedInv
<1>2. M \in Controller
  BY <1>1, Controllers
<1>a. /\ l \in M.irr \ M.mask /\ l \in {Timer, Keyboard} /\ serving' = Entered(l) /\ pic' = Taken(l)
      /\ pc \notin {"halted", "pic_disable", "initIDT"}
  BY DeliveredLine
<1>3. /\ l \in M.irr \ M.mask /\ l \in {Timer, Keyboard} /\ pc \notin {"halted", "pic_disable", "initIDT"}
      /\ serving' = [irq |-> l, handler |-> idt[M.base + l], stage |-> "entered"]
      /\ pic' = [pic EXCEPT !["master"] = [[M EXCEPT !.isr = {l}] EXCEPT !.irr = M.irr \ {l}]]
  BY <1>a DEF Entered, Taken
<1>4. IF_' = FALSE /\ UNCHANGED <<idt, output_full, pc, n, value, disturbed>>
  BY DEF Deliver, Gate, main
<1>5. PICK c : c = [[M EXCEPT !.isr = {l}] EXCEPT !.irr = M.irr \ {l}]
  OBVIOUS
<1>6. /\ c \in Controller /\ c.isr = {l} /\ c.irr = M.irr \ {l} /\ c.mask = M.mask /\ c.base = M.base
      /\ c.init = M.init
  <2>1. {l} \in SUBSET Lines /\ M.irr \ {l} \in SUBSET Lines
    BY <1>2 DEF Controller
  <2>2. PICK d : d = [M EXCEPT !.isr = {l}]
    OBVIOUS
  <2>3. d \in Controller /\ d.isr = {l} /\ d.irr = M.irr /\ d.mask = M.mask /\ d.base = M.base /\ d.init = M.init
    BY <1>2, <2>1, <2>2, Isr
  <2>4. c = [d EXCEPT !.irr = M.irr \ {l}]
    BY <1>5, <2>2
  <2> QED
    BY <2>1, <2>3, <2>4, Irr
<1>7. pic' \in [master : Controller, slave : Controller] /\ M' = c /\ S' = S
  BY <1>1, <1>3, <1>5, <1>6, Updates DEF M, S
<1>8. serving' \in Served /\ serving'.irq = l /\ serving'.stage = "entered" /\ serving' # NoInterrupt
  <2>1. M.base + l \in Vectors
    BY <1>2, <1>3 DEF Controller, Timer, Keyboard, Vectors
  <2>2. idt[M.base + l] \in Names
    BY <1>1, <2>1 DEF StateInv
  <2> QED
    BY <1>3, <2>2 DEF Served, NoInterrupt, Timer, Keyboard
<1>9. StateInv'
  BY <1>1, <1>4, <1>7, <1>8 DEF StateInv
<1>10. ServiceInv'
  BY <1>1, <1>3, <1>4, <1>6, <1>7, <1>8 DEF ServiceInv
<1>11. RemapInv => RemapInv'
  BY <1>4, <1>6, <1>7 DEF RemapInv
<1>12. MasksInv'
  BY <1>1, <1>4, <1>6, <1>7, <1>11 DEF MasksInv
<1>13. VectorsInv'
  BY <1>1, <1>4 DEF VectorsInv
<1>14. RightHandler'
  BY <1>3, <1>4, <1>8, TakenToItsHandler DEF RightHandler
<1> QED
  BY <1>9, <1>10, <1>12, <1>13, <1>14 DEF ServedInv

(* The end of interrupt that a handler sends clears the line in service.   *)
LEMMA EndOfInterrupt ==
    ASSUME StateInv, ServiceInv, NEW k \in {0, 1}, pic' = PIC_sendEOI(k), serving.stage \in {"entered", "read"}
    PROVE  /\ pic' \in [master : Controller, slave : Controller] /\ S' = S
           /\ M'.isr = {} /\ M'.irr = M.irr /\ M'.mask = M.mask /\ M'.base = M.base /\ M'.init = M.init
<1>1. M \in Controller /\ pic["master"] = M
  BY Controllers
<1>2. M.isr = {serving.irq}
  BY DEF ServiceInv
<1>3. Min(M.isr) = serving.irq
  <2>1. serving.irq \in {-1, 0, 1}
    BY DEF StateInv, Served
  <2> QED
    BY <1>2, <2>1 DEF Min
<1>4. Command(M, "EOI") = [M EXCEPT !.isr = {}]
  BY <1>1, <1>2, <1>3 DEF Command, Controller
<1>5. PICK c : c = [M EXCEPT !.isr = {}]
  OBVIOUS
<1>6. c \in Controller /\ c.isr = {} /\ c.irr = M.irr /\ c.mask = M.mask /\ c.base = M.base /\ c.init = M.init
  BY <1>1, <1>5, Isr
<1>7. pic' = [pic EXCEPT !["master"] = c]
  <2>1. EndSlaveOnly(k) = pic
    BY DEF EndSlaveOnly
  <2>2. pic' = [pic EXCEPT !.master = Command(@, "EOI")]
    BY <2>1 DEF PIC_sendEOI
  <2>3. pic' = [pic EXCEPT !["master"] = Command(M, "EOI")]
    BY <1>1, <2>2
  <2> QED
    BY <1>4, <1>5, <2>3
<1> QED
  BY <1>6, <1>7, Updates DEF M, S

LEMMA ServeKeeps ==
    ASSUME ServedInv, RightHandler, Serve
    PROVE  ServedInv' /\ RightHandler'
<1>1. StateInv /\ MasksInv /\ VectorsInv /\ ServiceInv
  BY DEF ServedInv
<1>2. ASSUME UNCHANGED <<idt, pc, n, value, disturbed>>,
             pic' \in [master : Controller, slave : Controller], S' = S,
             M'.irr = M.irr, M'.mask = M.mask, M'.base = M.base, M'.init = M.init,
             IF_' \in BOOLEAN, IF_' = IF_ \/ pc \notin {"pic_disable", "initIDT"},
             output_full' \in BOOLEAN, serving' \in Served
      PROVE  StateInv' /\ MasksInv' /\ VectorsInv'
  <2>1. RemapInv => RemapInv'
    BY <1>2 DEF RemapInv
  <2>2. MasksInv'
    BY <1>1, <1>2, <2>1 DEF MasksInv
  <2> QED
    BY <1>1, <1>2, <2>2 DEF StateInv, VectorsInv
<1>3. ASSUME NEW from \in {"entered", "read"}, NEW to \in {"read", "served"}, Stage(from, to)
      PROVE  /\ UNCHANGED <<idt, IF_, pc, n, value, disturbed>> /\ IF_' = IF_
             /\ serving.stage = from /\ serving # NoInterrupt
             /\ serving' \in Served /\ serving'.irq = serving.irq /\ serving'.handler = serving.handler
             /\ serving'.stage = to /\ serving' # NoInterrupt
  BY <1>1, <1>3 DEF Stage, main, StateInv, Served, NoInterrupt
<1>4. ASSUME NEW from \in {"entered", "read"}, NEW k \in {0, 1}, Stage(from, "served"),
             pic' = PIC_sendEOI(k), UNCHANGED output_full,
             serving.handler \in {"PIT_handler", "keyboard_handler"}
      PROVE  ServedInv' /\ RightHandler'
  <2>1. /\ UNCHANGED <<idt, IF_, pc, n, value, disturbed>>
        /\ serving.stage = from /\ serving # NoInterrupt
        /\ serving' \in Served /\ serving'.irq = serving.irq /\ serving'.handler = serving.handler
        /\ serving'.stage = "served" /\ serving' # NoInterrupt
    BY <1>3, <1>4
  <2>2. /\ pic' \in [master : Controller, slave : Controller] /\ S' = S
        /\ M'.isr = {} /\ M'.irr = M.irr /\ M'.mask = M.mask /\ M'.base = M.base /\ M'.init = M.init
    BY <1>1, <1>4, <2>1, EndOfInterrupt
  <2>3. output_full' \in BOOLEAN /\ IF_' \in BOOLEAN
    BY <1>1, <1>4, <2>1 DEF StateInv
  <2>4. StateInv' /\ MasksInv' /\ VectorsInv'
    BY <1>2, <2>1, <2>2, <2>3
  <2>5. ServiceInv' /\ RightHandler'
    BY <1>1, <1>4, <2>1, <2>2 DEF ServiceInv, RightHandler
  <2> QED
    BY <2>4, <2>5 DEF ServedInv
<1>5. CASE PIT_handler
  BY <1>4, <1>5 DEF PIT_handler
<1>6. CASE keyboard_handler
  <2>a. serving.handler = "keyboard_handler"
    BY <1>6 DEF keyboard_handler
  <2>1. CASE Stage("read", "served") /\ pic' = PIC_sendEOI(1) /\ UNCHANGED output_full
    BY <1>4, <2>a, <2>1
  <2>2. CASE Stage("entered", "read") /\ output_full' = FALSE /\ UNCHANGED pic
    <3>1. /\ UNCHANGED <<idt, IF_, pc, n, value, disturbed>>
          /\ serving.stage = "entered" /\ serving # NoInterrupt
          /\ serving' \in Served /\ serving'.irq = serving.irq /\ serving'.handler = serving.handler
          /\ serving'.stage = "read" /\ serving' # NoInterrupt
      BY <1>3, <2>2
    <3>2. M' = M /\ S' = S
      BY <2>2 DEF M, S
    <3>3. IF_' \in BOOLEAN /\ output_full' \in BOOLEAN /\ pic' \in [master : Controller, slave : Controller]
      BY <1>1, <2>2, <3>1 DEF StateInv
    <3>4. StateInv' /\ MasksInv' /\ VectorsInv'
      BY <1>2, <3>1, <3>2, <3>3
    <3>5. ServiceInv' /\ RightHandler'
      BY <1>1, <2>a, <3>1, <3>2 DEF ServiceInv, RightHandler
    <3> QED
      BY <3>4, <3>5 DEF ServedInv
  <2> QED
    BY <1>6, <2>1, <2>2 DEF keyboard_handler
<1>7. CASE Die
  <2>1. /\ serving # NoInterrupt /\ pc' = "halted"
        /\ serving.handler \notin {"PIT_handler", "keyboard_handler"}
        /\ UNCHANGED <<pic, idt, IF_, output_full, n, value, serving, disturbed>>
    BY <1>7 DEF Die
  <2>2. M' = M /\ S' = S
    BY <2>1 DEF M, S
  <2>3. StateInv'
    BY <1>1, <2>1 DEF StateInv
  <2>4. MasksInv' /\ VectorsInv'
    BY <2>1 DEF MasksInv, VectorsInv, Later
  <2>5. ServiceInv' /\ RightHandler'
    BY <1>1, <2>1, <2>2 DEF ServiceInv, RightHandler
  <2> QED
    BY <2>3, <2>4, <2>5 DEF ServedInv
<1>8. CASE Iret
  <2>1. /\ serving.stage = "served" /\ serving' = NoInterrupt /\ IF_' = TRUE
        /\ UNCHANGED <<pic, idt, output_full, pc, n, value, disturbed>>
    BY <1>8 DEF Iret, main
  <2>2. M' = M /\ S' = S
    BY <2>1 DEF M, S
  <2>3. serving # NoInterrupt /\ NoInterrupt \in Served /\ NoInterrupt.stage = "none"
    BY <2>1 DEF NoInterrupt, Served, Names
  <2>4. pc \notin {"pic_disable", "initIDT", "halted"}
    BY <1>1, <2>1, <2>3 DEF ServiceInv
  <2>5. output_full' \in BOOLEAN /\ pic' \in [master : Controller, slave : Controller] /\ IF_' \in BOOLEAN
    BY <1>1, <2>1 DEF StateInv
  <2>6. StateInv' /\ MasksInv' /\ VectorsInv'
    BY <1>2, <2>1, <2>2, <2>3, <2>4, <2>5
  <2>7. ServiceInv' /\ RightHandler'
    BY <1>1, <2>1, <2>2, <2>3, <2>4 DEF ServiceInv, RightHandler
  <2> QED
    BY <2>6, <2>7 DEF ServedInv
<1> QED
  BY <1>5, <1>6, <1>7, <1>8 DEF Serve

-----------------------------------------------------------------------------
(* main, the shell and its system calls.                                   *)

LEMMA MainServesNothing ==
    ASSUME ServedInv, serving = NoInterrupt, UNCHANGED serving, pc' # "halted",
           M'.irr \subseteq M.irr, M'.isr \subseteq M.isr, S'.isr \subseteq S.isr
    PROVE  ServiceInv' /\ RightHandler'
<1>1. serving.stage = "none"
  BY DEF NoInterrupt
<1> QED
  BY <1>1 DEF ServedInv, ServiceInv, RightHandler

LEMMA DisableKeeps == ASSUME ServedInv, pic_disable PROVE ServedInv' /\ RightHandler'
<1>1. StateInv /\ MasksInv
  BY DEF ServedInv
<1>2. /\ pc = "pic_disable" /\ serving = NoInterrupt
      /\ UNCHANGED <<idt, IF_, output_full, value, serving, disturbed>>
  BY DEF pic_disable, Step
<1>3. M \in Controller /\ S \in Controller /\ pic["master"] = M /\ pic["slave"] = S
  BY <1>1, Controllers
<1>4. M.init = 0 /\ S.init = 0 /\ M.base = 8 /\ ~IF_ /\ Lines \in SUBSET Lines
  BY <1>1, <1>2 DEF MasksInv
<1>5. CASE n = 0
  <2>1. PICK c : c = Data(M, Lines)
    OBVIOUS
  <2>2. c \in Controller /\ c.irr = M.irr /\ c.isr = M.isr /\ c.mask = Lines /\ c.base = 8 /\ c.init = 0
    BY <1>3, <1>4, <2>1, MaskWritten
  <2>3. pic' = [pic EXCEPT !["master"] = c] /\ pc' = pc /\ n' = 1
    BY <1>3, <1>5, <2>1 DEF pic_disable, More
  <2>4. pic' \in [master : Controller, slave : Controller] /\ M' = c /\ S' = S
    BY <1>1, <2>2, <2>3, Updates DEF M, S
  <2>5. StateInv'
    BY <1>1, <1>2, <2>3, <2>4 DEF StateInv
  <2>6. MasksInv' /\ VectorsInv'
    BY <1>2, <1>4, <2>2, <2>3, <2>4 DEF MasksInv, VectorsInv, Later
  <2>7. ServiceInv' /\ RightHandler'
    BY <1>2, <2>2, <2>3, <2>4, MainServesNothing
  <2> QED
    BY <2>5, <2>6, <2>7 DEF ServedInv
<1>6. CASE n = 1
  <2>1. PICK c : c = Data(S, Lines)
    OBVIOUS
  <2>2. c \in Controller /\ c.isr = S.isr /\ c.mask = Lines /\ c.init = 0
    BY <1>3, <1>4, <2>1, MaskWritten
  <2>3. pic' = [pic EXCEPT !["slave"] = c] /\ pc' = "initIDT" /\ n' = 0
    BY <1>3, <1>6, <2>1 DEF pic_disable, Last
  <2>4. pic' \in [master : Controller, slave : Controller] /\ S' = c /\ M' = M
    BY <1>1, <2>2, <2>3, Updates DEF M, S
  <2>5. StateInv'
    BY <1>1, <1>2, <2>3, <2>4 DEF StateInv
  <2>6. MasksInv' /\ VectorsInv'
    BY <1>1, <1>2, <1>4, <1>6, <2>2, <2>3, <2>4 DEF MasksInv, VectorsInv, Later
  <2>7. ServiceInv' /\ RightHandler'
    BY <1>2, <2>2, <2>3, <2>4, MainServesNothing
  <2> QED
    BY <2>5, <2>6, <2>7 DEF ServedInv
<1> QED
  BY <1>5, <1>6 DEF pic_disable

LEMMA TableKeeps == ASSUME ServedInv, initIDT \/ idt_set_descriptor PROVE ServedInv' /\ RightHandler'
<1>1. StateInv /\ MasksInv /\ VectorsInv
  BY DEF ServedInv
<1>2. /\ serving = NoInterrupt /\ UNCHANGED <<pic, output_full, value, serving, disturbed>>
      /\ pc' # "halted" /\ M' = M /\ S' = S
  BY DEF initIDT, idt_set_descriptor, Step, More, Last, M, S
<1>3. ServiceInv' /\ RightHandler'
  BY <1>2, MainServesNothing
<1>4. CASE initIDT
  <2>1. CASE n = 0
    <3>1. /\ pc = "initIDT" /\ pc' = pc /\ n' = 1 /\ IF_' = IF_
          /\ idt' = [v \in Vectors |-> IF v < Stubs THEN "stub" ELSE "wild"]
      BY <1>4, <2>1 DEF initIDT, Step, More
    <3>2. idt' \in [Vectors -> Names] /\ idt'[8] = "stub" /\ idt'[9] = "stub"
      BY <3>1 DEF Vectors, Stubs, Names
    <3>3. StateInv'
      BY <1>1, <1>2, <3>1, <3>2 DEF StateInv
    <3>4. MasksInv' /\ VectorsInv'
      BY <1>1, <1>2, <2>1, <3>1, <3>2 DEF MasksInv, VectorsInv, Later
    <3> QED
      BY <1>3, <3>3, <3>4 DEF ServedInv
  <2>2. CASE n = 1
    <3>1. pc = "initIDT" /\ pc' = "handlers" /\ n' = 0 /\ IF_' = TRUE /\ idt' = idt
      BY <1>4, <2>2 DEF initIDT, Step, Last
    <3>2. StateInv'
      BY <1>1, <1>2, <3>1 DEF StateInv
    <3>3. MasksInv' /\ VectorsInv'
      BY <1>1, <1>2, <2>2, <3>1 DEF MasksInv, VectorsInv, Later
    <3> QED
      BY <1>3, <3>2, <3>3 DEF ServedInv
  <2> QED
    BY <1>4, <2>1, <2>2 DEF initIDT
<1>5. CASE idt_set_descriptor
  <2>1. /\ pc = "handlers" /\ UNCHANGED IF_ /\ n \in 0 .. 5
        /\ idt' = [idt EXCEPT ![Handlers[n + 1].vector] = Handlers[n + 1].isr]
        /\ IF n < 5 THEN pc' = pc /\ n' = n + 1 ELSE pc' = "PIC_remap" /\ n' = 0
    <3>1. Len(Handlers) = 6 /\ n \in 0 .. 5
      BY <1>1, <1>5 DEF Handlers, MasksInv, idt_set_descriptor, Step
    <3> QED
      BY <1>5, <3>1 DEF idt_set_descriptor, Step, More, Last
  <2>2. /\ Handlers[1].vector = 0 /\ Handlers[2].vector = 32 /\ Handlers[3].vector = 33
        /\ Handlers[4].vector = 14 /\ Handlers[5].vector = 128 /\ Handlers[6].vector = 13
        /\ Handlers[2].isr = "PIT_handler" /\ Handlers[3].isr = "keyboard_handler"
        /\ \A k \in 1 .. 6 : Handlers[k].isr \in Names
    BY DEF Handlers, Names
  <2>3. Handlers[n + 1].vector \in Vectors /\ Handlers[n + 1].isr \in Names
    BY <2>1, <2>2 DEF Vectors
  <2>4. /\ idt' \in [Vectors -> Names]
        /\ \A v \in Vectors : idt'[v] = IF v = Handlers[n + 1].vector THEN Handlers[n + 1].isr ELSE idt[v]
    BY <1>1, <2>1, <2>3 DEF StateInv
  <2>. DEFINE v == Handlers[n + 1].vector
              isr == Handlers[n + 1].isr
  <2>a. /\ 8 \in Vectors /\ 9 \in Vectors /\ 32 \in Vectors /\ 33 \in Vectors
        /\ n = 0 \/ n = 1 \/ n = 2 \/ n = 3 \/ n = 4 \/ n = 5
    BY <2>1 DEF Vectors
  <2>b. /\ v \notin {8, 9}
        /\ v = 32 <=> n = 1
        /\ v = 33 <=> n = 2
        /\ n = 1 => isr = "PIT_handler"
        /\ n = 2 => isr = "keyboard_handler"
    <3>1. CASE n = 0
      BY <2>2, <3>1
    <3>2. CASE n = 1
      BY <2>2, <3>2
    <3>3. CASE n = 2
      BY <2>2, <3>3
    <3>4. CASE n \in {3, 4, 5}
      BY <2>2, <3>4
    <3> QED
      BY <2>a, <3>1, <3>2, <3>3, <3>4
  <2>. HIDE DEF v, isr
  <2>c. \A u \in Vectors : idt'[u] = IF u = v THEN isr ELSE idt[u]
    BY <2>4 DEF v, isr
  <2>5. idt'[8] = idt[8] /\ idt'[9] = idt[9]
    BY <2>a, <2>b, <2>c
  <2>6. /\ n = 1 => idt'[32] = "PIT_handler"
        /\ n # 1 => idt'[32] = idt[32]
        /\ n = 2 => idt'[33] = "keyboard_handler"
        /\ n # 2 => idt'[33] = idt[33]
    <3>1. idt'[32] = IF n = 1 THEN "PIT_handler" ELSE idt[32]
      BY <2>a, <2>b, <2>c
    <3>2. idt'[33] = IF n = 2 THEN "keyboard_handler" ELSE idt[33]
      BY <2>a, <2>b, <2>c
    <3> QED
      BY <3>1, <3>2
  <2>7. StateInv'
    BY <1>1, <1>2, <2>1, <2>4 DEF StateInv
  <2>8. VectorsInv'
    BY <1>1, <2>1, <2>5, <2>6 DEF VectorsInv, Later
  <2>9. MasksInv'
    <3>1. CASE n < 5
      BY <1>1, <1>2, <2>1, <3>1 DEF MasksInv, Later
    <3>2. CASE n = 5
      BY <1>1, <1>2, <2>1, <3>2 DEF MasksInv, RemapInv, Expected, Later
    <3> QED
      BY <2>1, <3>1, <3>2
  <2> QED
    BY <1>3, <2>7, <2>8, <2>9 DEF ServedInv
<1> QED
  BY <1>4, <1>5

LEMMA UnmaskKeeps ==
    ASSUME ServedInv, IRQ_clear_mask("unmask_timer", 0, "unmask_keyboard")
                      \/ IRQ_clear_mask("unmask_keyboard", 1, "set_PIT")
    PROVE  ServedInv' /\ RightHandler'
<1>1. StateInv /\ MasksInv /\ VectorsInv
  BY DEF ServedInv
<1>2. /\ pc \in {"unmask_timer", "unmask_keyboard"} /\ serving = NoInterrupt
      /\ UNCHANGED <<idt, IF_, output_full, serving>>
  BY DEF IRQ_clear_mask, Step
<1>3. PICK k \in {0, 1} :
         \/ n = 0 /\ Read("master") /\ pc' = pc /\ n' = 1
         \/ n = 1 /\ Write("master", Data(pic["master"], value["master"] \ {k}))
            /\ pc' \in {"unmask_keyboard", "set_PIT"} /\ n' = 0
  <2>1. CASE IRQ_clear_mask("unmask_timer", 0, "unmask_keyboard")
    <3>1. \/ n = 0 /\ Read("master") /\ pc' = pc /\ n' = 1
          \/ n = 1 /\ Write("master", Data(pic["master"], value["master"] \ {0 % 8})) /\ pc' = "unmask_keyboard" /\ n' = 0
      BY <2>1 DEF IRQ_clear_mask, More, Last
    <3>2. 0 % 8 = 0
      OBVIOUS
    <3> QED
      BY <3>1, <3>2
  <2>2. CASE IRQ_clear_mask("unmask_keyboard", 1, "set_PIT")
    <3>1. \/ n = 0 /\ Read("master") /\ pc' = pc /\ n' = 1
          \/ n = 1 /\ Write("master", Data(pic["master"], value["master"] \ {1 % 8})) /\ pc' = "set_PIT" /\ n' = 0
      BY <2>2 DEF IRQ_clear_mask, More, Last
    <3>2. 1 % 8 = 1
      OBVIOUS
    <3> QED
      BY <3>1, <3>2
  <2> QED
    BY <2>1, <2>2
<1>4. M \in Controller /\ S \in Controller /\ pic["master"] = M /\ pic["slave"] = S
  BY <1>1, Controllers
<1>5. M.base = 32 /\ M.init = 0 /\ S.init = 0 /\ S.mask = Lines
  BY <1>1, <1>2 DEF MasksInv, Later
<1>6. CASE n = 0
  <2>1. /\ value' = [value EXCEPT !["master"] = pic["master"].mask] /\ pc' = pc /\ n' = 1
        /\ UNCHANGED <<pic, disturbed>>
    BY <1>3, <1>6 DEF Read
  <2>2. M' = M /\ S' = S
    BY <2>1 DEF M, S
  <2>3. M.mask \in SUBSET Lines
    BY <1>4 DEF Controller
  <2>4. value' \in [master : SUBSET Lines, slave : SUBSET Lines]
    BY <1>1, <1>4, <2>1, <2>3 DEF StateInv
  <2>5. StateInv'
    BY <1>1, <1>2, <2>1, <2>4 DEF StateInv
  <2>6. MasksInv' /\ VectorsInv'
    BY <1>1, <1>2, <1>5, <2>1, <2>2 DEF MasksInv, VectorsInv, Later
  <2>7. ServiceInv' /\ RightHandler'
    BY <1>2, <2>1, <2>2, MainServesNothing
  <2> QED
    BY <2>5, <2>6, <2>7 DEF ServedInv
<1>7. CASE n = 1
  <2>1. PICK byte : byte = value["master"] \ {k}
    OBVIOUS
  <2>2. byte \in SUBSET Lines
    BY <1>1, <2>1 DEF StateInv
  <2>3. PICK c : c = Data(M, byte)
    OBVIOUS
  <2>4. c \in Controller /\ c.irr = M.irr /\ c.isr = M.isr /\ c.base = 32 /\ c.init = 0
    BY <1>4, <1>5, <2>2, <2>3, MaskWritten
  <2>5. /\ pic' = [pic EXCEPT !["master"] = c] /\ pc' \in {"unmask_keyboard", "set_PIT"} /\ n' = 0
        /\ value' = value /\ disturbed' \in BOOLEAN
    BY <1>1, <1>3, <1>4, <1>7, <2>1, <2>3 DEF Write, StateInv
  <2>6. pic' \in [master : Controller, slave : Controller] /\ M' = c /\ S' = S
    BY <1>1, <2>4, <2>5, Updates DEF M, S
  <2>7. StateInv'
    BY <1>1, <1>2, <2>5, <2>6 DEF StateInv, Later
  <2>8. MasksInv' /\ VectorsInv'
    BY <1>1, <1>2, <1>5, <2>4, <2>5, <2>6 DEF MasksInv, VectorsInv, Later
  <2>9. ServiceInv' /\ RightHandler'
    BY <1>2, <2>4, <2>5, <2>6, MainServesNothing
  <2> QED
    BY <2>7, <2>8, <2>9 DEF ServedInv
<1> QED
  BY <1>3, <1>6, <1>7

LEMMA ShellKeeps ==
    ASSUME ServedInv, set_PIT \/ SystemCall \/ EnableEarly \/ Return
    PROVE  ServedInv' /\ RightHandler'
<1>1. StateInv /\ MasksInv /\ VectorsInv
  BY DEF ServedInv
<1>2. /\ serving = NoInterrupt /\ pc \in Later /\ pc' \in Later /\ n' \in {0, 1} /\ IF_' \in BOOLEAN
      /\ UNCHANGED <<pic, idt, output_full, value, serving, disturbed>>
  <2>1. CASE set_PIT
    <3>1. /\ pc = "set_PIT" /\ serving = NoInterrupt
          /\ UNCHANGED <<pic, idt, output_full, value, serving, disturbed>>
      BY <2>1 DEF set_PIT, Step
    <3>2. \/ n = 0 /\ IF_' = FALSE /\ pc' = pc /\ n' = n + 1
          \/ n = 1 /\ IF_' = TRUE /\ pc' = "shell" /\ n' = 0
      BY <2>1 DEF set_PIT, More, Last
    <3>3. IF_' \in BOOLEAN
      BY <3>2
    <3>4. n' \in {0, 1} /\ pc' \in {"set_PIT", "shell"}
      BY <3>1, <3>2
    <3> QED
      BY <3>1, <3>3, <3>4 DEF Later
  <2>2. CASE SystemCall
    BY <2>2 DEF SystemCall, Step, Last, Gate, Later
  <2>3. CASE EnableEarly
    BY <1>1, <2>3 DEF EnableEarly, Step, main, Later, MasksInv
  <2>4. CASE Return
    BY <2>4 DEF Return, Step, Last, Later
  <2> QED
    BY <2>1, <2>2, <2>3, <2>4
<1>3. M' = M /\ S' = S /\ pc' # "halted"
  BY <1>2 DEF M, S, Later
<1>4. StateInv'
  BY <1>1, <1>2 DEF StateInv
<1>5. MasksInv' /\ VectorsInv'
  BY <1>1, <1>2, <1>3 DEF MasksInv, VectorsInv, Later
<1>6. ServiceInv' /\ RightHandler'
  BY <1>2, <1>3, MainServesNothing
<1> QED
  BY <1>4, <1>5, <1>6 DEF ServedInv

LEMMA RemapStepKeeps ==
    ASSUME ServedInv, PIC_remap(32), n \in 0 .. 11,
           pic' \in [master : Controller, slave : Controller],
           value' \in [master : SUBSET Lines, slave : SUBSET Lines], disturbed' \in BOOLEAN,
           M'.irr \subseteq M.irr, M'.isr \subseteq M.isr, S'.isr \subseteq S.isr,
           n < 11 /\ n' = n + 1 => RemapInv',
           n = 11 => M'.base = 32 /\ M'.init = 0 /\ S'.init = 0 /\ S'.mask = Lines
    PROVE  ServedInv' /\ RightHandler'
<1>1. StateInv /\ MasksInv /\ VectorsInv
  BY DEF ServedInv
<1>2. /\ pc = "PIC_remap" /\ serving = NoInterrupt /\ UNCHANGED <<idt, IF_, output_full, serving>>
      /\ IF n < 11 THEN pc' = pc /\ n' = n + 1 ELSE pc' = "unmask_timer" /\ n' = 0
  BY RemapSteps
<1>3. n' \in 0 .. 11
  BY <1>2
<1>4. StateInv'
  BY <1>1, <1>2, <1>3 DEF StateInv, Later
<1>5. MasksInv' /\ VectorsInv'
  <2>1. CASE n < 11
    BY <1>1, <1>2, <2>1 DEF MasksInv, VectorsInv, Later
  <2>2. CASE n = 11
    BY <1>1, <1>2, <2>2 DEF MasksInv, VectorsInv, Later
  <2> QED
    BY <2>1, <2>2
<1>6. ServiceInv' /\ RightHandler'
  BY <1>2, MainServesNothing
<1> QED
  BY <1>4, <1>5, <1>6 DEF ServedInv

LEMMA RemapKeeps == ASSUME ServedInv, PIC_remap(32) PROVE ServedInv' /\ RightHandler'
<1>1. StateInv /\ MasksInv /\ n \in 0 .. 11
  BY DEF ServedInv, StateInv
<1>2. M \in Controller /\ S \in Controller /\ pic["master"] = M /\ pic["slave"] = S
  BY <1>1, Controllers
<1>3. pc = "PIC_remap"
  BY <1>1, RemapSteps
<1>4. RemapInv
  BY <1>1, <1>3 DEF MasksInv
<1>5. /\ pic \in [master : Controller, slave : Controller]
      /\ value \in [master : SUBSET Lines, slave : SUBSET Lines] /\ disturbed \in BOOLEAN
      /\ value["master"] = value.master /\ value["slave"] = value.slave
      /\ Lines \in SUBSET Lines /\ M.mask \in SUBSET Lines /\ S.mask \in SUBSET Lines
  BY <1>1, <1>2 DEF StateInv, Controller
<1>6. \A k \in 0 .. 11 : /\ Expected(k - 1) = IF k \in {3, 4} THEN 1 ELSE IF k \in {5, 6} THEN 2 ELSE IF k \in {7, 8} THEN 3 ELSE 0
                         /\ Expected(k - 2) = IF k \in {4, 5} THEN 1 ELSE IF k \in {6, 7} THEN 2 ELSE IF k \in {8, 9} THEN 3 ELSE 0
  BY DEF Expected
<1>7. /\ n' = n + 1 /\ n < 11 => /\ Expected(n' - 1) = IF n' \in {3, 4} THEN 1 ELSE IF n' \in {5, 6} THEN 2 ELSE IF n' \in {7, 8} THEN 3 ELSE 0
                                 /\ Expected(n' - 2) = IF n' \in {4, 5} THEN 1 ELSE IF n' \in {6, 7} THEN 2 ELSE IF n' \in {8, 9} THEN 3 ELSE 0
  BY <1>1, <1>6
<1>8. /\ M.init = IF n \in {3, 4} THEN 1 ELSE IF n \in {5, 6} THEN 2 ELSE IF n \in {7, 8} THEN 3 ELSE 0
      /\ S.init = IF n \in {4, 5} THEN 1 ELSE IF n \in {6, 7} THEN 2 ELSE IF n \in {8, 9} THEN 3 ELSE 0
  BY <1>1, <1>4, <1>6 DEF RemapInv
<1>9. ASSUME NEW c \in Controller, Write("master", c), c.irr \subseteq M.irr, c.isr \subseteq M.isr,
             n \in 2 .. 10, c.base = (IF n >= 4 THEN 32 ELSE 8),
             c.init = IF n \in {2, 3} THEN 1 ELSE IF n \in {4, 5} THEN 2 ELSE IF n \in {6, 7} THEN 3 ELSE 0,
             n \in {2, 4, 6, 8, 10}, n = 2 => c.irr = {}
      PROVE  ServedInv' /\ RightHandler'
  <2>1. pic' = [pic EXCEPT !["master"] = c] /\ value' = value /\ disturbed' \in BOOLEAN
    BY <1>5, <1>9 DEF Write
  <2>2. pic' \in [master : Controller, slave : Controller] /\ M' = c /\ S' = S
    BY <1>1, <1>9, <2>1, Updates DEF M, S
  <2>3. disturbed => disturbed'
    BY <1>5, <1>9 DEF Write
  <2>4. n' = n + 1 => RemapInv'
    BY <1>4, <1>7, <1>8, <1>9, <2>1, <2>2, <2>3 DEF RemapInv
  <2> QED
    BY <1>1, <1>5, <1>9, <2>1, <2>2, <2>4, RemapStepKeeps
<1>10. ASSUME NEW c \in Controller, Write("slave", c), c.isr \subseteq S.isr,
              n \in {3, 5, 7, 9, 11},
              c.init = IF n \in {3, 4} THEN 1 ELSE IF n \in {5, 6} THEN 2 ELSE IF n \in {7, 8} THEN 3 ELSE 0,
              c.irr = {}, n = 11 => c.mask = Lines
       PROVE  ServedInv' /\ RightHandler'
  <2>1. pic' = [pic EXCEPT !["slave"] = c] /\ value' = value /\ disturbed' = disturbed
    BY <1>5, <1>10 DEF Write
  <2>2. pic' \in [master : Controller, slave : Controller] /\ S' = c /\ M' = M
    BY <1>1, <1>10, <2>1, Updates DEF M, S
  <2>3. n' = n + 1 /\ n < 11 => RemapInv'
    BY <1>4, <1>7, <1>8, <1>10, <2>1, <2>2 DEF RemapInv
  <2>4. n = 11 => M'.base = 32 /\ M'.init = 0 /\ S'.init = 0 /\ S'.mask = Lines
    BY <1>4, <1>8, <1>10, <2>2 DEF RemapInv
  <2> QED
    BY <1>1, <1>5, <1>10, <2>1, <2>2, <2>3, <2>4, RemapStepKeeps
<1>11. CASE n \in {0, 1}
  <2>1. /\ UNCHANGED <<pic, disturbed>> /\ value' \in [master : SUBSET Lines, slave : SUBSET Lines]
        /\ M' = M /\ S' = S
        /\ n = 0 => value'.master = Lines
        /\ n = 1 => value'.slave = Lines /\ value'.master = Lines
    <3>1. n = 0 => value' = [value EXCEPT !["master"] = Lines] /\ UNCHANGED <<pic, disturbed>>
      BY <1>1, <1>2, <1>4, RemapSteps DEF Read, RemapInv
    <3>2. n = 1 => value' = [value EXCEPT !["slave"] = Lines] /\ UNCHANGED <<pic, disturbed>>
      BY <1>1, <1>2, <1>4, RemapSteps DEF Read, RemapInv
    <3>3. n = 1 => value.master = Lines
      BY <1>4 DEF RemapInv
    <3> QED
      BY <1>5, <1>11, <3>1, <3>2, <3>3 DEF M, S
  <2>2. n' = n + 1 => RemapInv'
    <3>1. /\ M.init = 0 /\ S.init = 0 /\ M.base = 8 /\ M.mask = Lines /\ S.mask = Lines
      BY <1>4, <1>8, <1>11 DEF RemapInv
    <3>2. n' = n + 1 => Expected(n' - 1) = 0 /\ Expected(n' - 2) = 0 /\ n' \in {1, 2}
      BY <1>7, <1>11
    <3>3. n' = n + 1 => (n' > 0 => value'.master = Lines) /\ (n' > 1 => value'.slave = Lines)
      BY <1>11, <2>1
    <3> QED
      BY <2>1, <3>1, <3>2, <3>3 DEF RemapInv
  <2>3. disturbed' \in BOOLEAN /\ n # 11
    BY <1>5, <1>11, <2>1
  <2>4. /\ pic' \in [master : Controller, slave : Controller]
        /\ M'.irr \subseteq M.irr /\ M'.isr \subseteq M.isr /\ S'.isr \subseteq S.isr
    BY <1>5, <2>1
  <2> QED
    BY <1>1, <2>1, <2>2, <2>3, <2>4, RemapStepKeeps
<1>12. CASE n = 2
  <2>1. PICK c : c = Command(M, "ICW1")
    OBVIOUS
  <2> QED
    BY <1>1, <1>2, <1>4, <1>9, <1>12, <2>1, Initialised, RemapSteps DEF RemapInv
<1>13. CASE n = 3
  <2>1. PICK c : c = Command(S, "ICW1")
    OBVIOUS
  <2> QED
    BY <1>1, <1>2, <1>10, <1>13, <2>1, Initialised, RemapSteps
<1>14. CASE n = 4
  <2>1. PICK c : c = Data(M, 32)
    OBVIOUS
  <2> QED
    BY <1>1, <1>2, <1>8, <1>9, <1>14, <2>1, VectorWritten, RemapSteps
<1>15. CASE n = 5
  <2>1. PICK c : c = Data(S, 40)
    OBVIOUS
  <2> QED
    BY <1>1, <1>2, <1>4, <1>8, <1>10, <1>15, <2>1, VectorWritten, RemapSteps DEF RemapInv
<1>16. CASE n \in {6, 8}
  <2>1. PICK byte : Write("master", Data(M, byte))
    BY <1>1, <1>2, <1>16, RemapSteps
  <2>2. PICK c : c = Data(M, byte)
    OBVIOUS
  <2> QED
    BY <1>2, <1>4, <1>8, <1>9, <1>16, <2>1, <2>2, WordWritten DEF RemapInv
<1>17. CASE n \in {7, 9}
  <2>1. PICK byte : Write("slave", Data(S, byte))
    BY <1>1, <1>2, <1>17, RemapSteps
  <2>2. PICK c : c = Data(S, byte)
    OBVIOUS
  <2> QED
    BY <1>2, <1>4, <1>8, <1>10, <1>17, <2>1, <2>2, WordWritten DEF RemapInv
<1>18. CASE n = 10
  <2>1. PICK c : c = Data(M, value["master"])
    OBVIOUS
  <2> QED
    BY <1>1, <1>2, <1>4, <1>5, <1>8, <1>9, <1>18, <2>1, MaskWritten, RemapSteps DEF RemapInv
<1>19. CASE n = 11
  <2>1. PICK c : c = Data(S, value["slave"])
    OBVIOUS
  <2> QED
    BY <1>1, <1>2, <1>4, <1>5, <1>8, <1>10, <1>19, <2>1, MaskWritten, RemapSteps DEF RemapInv
<1> QED
  BY <1>1, <1>11, <1>12, <1>13, <1>14, <1>15, <1>16, <1>17, <1>18, <1>19

-----------------------------------------------------------------------------
LEMMA ServedInvInit == Init => ServedInv /\ RightHandler
<1> SUFFICES ASSUME Init PROVE ServedInv /\ RightHandler
  OBVIOUS
<1>1. PICK timer \in SUBSET {Timer}, disk \in SUBSET {Disk} :
         pic = [master |-> [base |-> 8, mask |-> {}, isr |-> {}, init |-> 0,
                            irr |-> timer \cup IF output_full THEN {Keyboard} ELSE {}],
                slave |-> [base |-> 112, mask |-> {}, isr |-> {}, init |-> 0, irr |-> disk]]
  BY DEF Init
<1>2. /\ output_full \in BOOLEAN /\ idt = [v \in Vectors |-> "none"] /\ IF_ = FALSE
      /\ pc = "pic_disable" /\ n = 0 /\ value = [master |-> {}, slave |-> {}]
      /\ serving = NoInterrupt /\ disturbed = FALSE
  BY DEF Init
<1> DEFINE asked == timer \cup IF output_full THEN {Keyboard} ELSE {}
<1>4. asked \subseteq {Timer, Keyboard} /\ asked \in SUBSET Lines /\ disk \in SUBSET Lines
  BY <1>1 DEF Timer, Keyboard, Disk, Lines
<1>5. /\ M = [base |-> 8, mask |-> {}, isr |-> {}, init |-> 0, irr |-> asked]
      /\ S = [base |-> 112, mask |-> {}, isr |-> {}, init |-> 0, irr |-> disk]
      /\ pic = [master |-> M, slave |-> S]
  BY <1>1 DEF M, S
<1> HIDE DEF asked
<1>6. M \in Controller /\ S \in Controller
  BY <1>4, <1>5 DEF Controller
<1>7. NoInterrupt \in Served /\ NoInterrupt.stage = "none"
  BY DEF NoInterrupt, Served, Names
<1>8. StateInv
  <2>1. pic \in [master : Controller, slave : Controller]
    BY <1>5, <1>6
  <2>2. value \in [master : SUBSET Lines, slave : SUBSET Lines] /\ idt \in [Vectors -> Names]
    BY <1>2 DEF Names
  <2>3. IF_ \in BOOLEAN /\ disturbed \in BOOLEAN /\ output_full \in BOOLEAN
    BY <1>2
  <2>4. pc \in {"pic_disable", "initIDT", "handlers", "PIC_remap", "halted"} \cup Later /\ n \in 0 .. 11
    BY <1>2
  <2> QED
    BY <1>2, <1>7, <2>1, <2>2, <2>3, <2>4 DEF StateInv
<1>9. MasksInv /\ VectorsInv
  BY <1>2, <1>5 DEF MasksInv, VectorsInv, Later
<1>10. ServiceInv /\ RightHandler
  BY <1>2, <1>4, <1>5, <1>7 DEF ServiceInv, RightHandler
<1> QED
  BY <1>8, <1>9, <1>10 DEF ServedInv

LEMMA ServedInvStep == ServedInv /\ RightHandler /\ [Next]_vars => ServedInv' /\ RightHandler'
<1> SUFFICES ASSUME ServedInv, RightHandler, [Next]_vars PROVE ServedInv' /\ RightHandler'
  OBVIOUS
<1>1. CASE Boot
  BY <1>1, DisableKeeps, TableKeeps, RemapKeeps, UnmaskKeeps, ShellKeeps DEF Boot
<1>2. CASE SystemCall \/ EnableEarly \/ Return
  BY <1>2, ShellKeeps
<1>3. CASE Tick \/ Key \/ DiskReady
  <2>1. UNCHANGED serving /\ (disturbed => disturbed')
    BY <1>3 DEF Tick, Key, DiskReady, Raise
  <2> QED
    BY <1>3, <2>1, RaiseKeeps DEF RightHandler
<1>4. CASE \E l \in Lines : Deliver(l)
  BY <1>4, DeliverKeeps
<1>5. CASE Serve
  BY <1>5, ServeKeeps
<1>6. CASE UNCHANGED vars
  <2>1. UNCHANGED <<pic, idt, IF_, output_full, pc, n, value, serving, disturbed>>
    BY <1>6 DEF vars, main
  <2>2. M' = M /\ S' = S
    BY <2>1 DEF M, S
  <2>3. RemapInv => RemapInv'
    BY <2>1, <2>2 DEF RemapInv
  <2>4. MasksInv' /\ VectorsInv' /\ ServiceInv' /\ RightHandler'
    BY <2>1, <2>2, <2>3 DEF ServedInv, MasksInv, VectorsInv, ServiceInv, RightHandler
  <2> QED
    BY <2>1, <2>4 DEF ServedInv, StateInv
<1> QED
  BY <1>1, <1>2, <1>3, <1>4, <1>5, <1>6 DEF Next

LEMMA ServedInvariant == Spec => [](ServedInv /\ RightHandler)
  BY ServedInvInit, ServedInvStep, PTL DEF Spec

(* From initIDT's early sti on every interrupt that is taken is the        *)
(* timer's or the keyboard's and goes to that line's handler, unless a     *)
(* request came amid the master's initialisation.                          *)
THEOREM TakenByTheRightHandler == Spec => []HandledByItsHandler
<1>1. ServedInv /\ RightHandler => HandledByItsHandler
  BY DEF ServedInv, ServiceInv, RightHandler, HandledByItsHandler, Timer, Keyboard
<1> QED
  BY <1>1, ServedInvariant, PTL

(* Handlers run with interrupts off and acknowledge what they serve, so    *)
(* that no line stays in service when none is being served.                *)
THEOREM EveryoneAcknowledged == Spec => []InServiceWhileServed
<1>1. ServedInv => InServiceWhileServed
  <2> SUFFICES ASSUME ServedInv PROVE InServiceWhileServed
    OBVIOUS
  <2>1. M \in Controller /\ S \in Controller /\ pic["master"] = M /\ pic["slave"] = S
    BY Controllers DEF ServedInv
  <2>2. TypeOK
    BY <2>1 DEF ServedInv, StateInv, Controller, TypeOK
  <2>3. serving # NoInterrupt => ~IF_
    BY DEF ServedInv, ServiceInv
  <2>4. serving = NoInterrupt => pic.master.isr = {} /\ pic.slave.isr = {}
    BY DEF ServedInv, ServiceInv, NoInterrupt, M, S
  <2> QED
    BY <2>2, <2>3, <2>4 DEF InServiceWhileServed
<1> QED
  BY <1>1, ServedInvariant, PTL
=============================================================================
