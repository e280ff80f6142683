----------------------------- MODULE Interrupts -----------------------------
(***************************************************************************)
(* How main sets up the interrupts (pic.c, idt.c, kernel.c lines 61 to 84) *)
(* and how they are served afterwards: the two interrupt controllers, the  *)
(* processor's table and flag, the keyboard, the timer and the disk.       *)
(*                                                                         *)
(* initIDT enables interrupts before handlers are installed and before the *)
(* controllers are given vectors that the processor does not use itself.   *)
(* The controllers are modelled from what the code writes to them: ICW1    *)
(* forgets masks and requests and starts an initialisation, after which    *)
(* data bytes are masks again.  A request may be passed on even in the     *)
(* middle of an initialisation, since nothing in the code prevents it.     *)
(***************************************************************************)
EXTENDS Integers, Sequences, FiniteSetsExt

VARIABLES
    pic,         \* the controllers: base, mask, irr, isr, bytes of the initialisation seen
    idt,         \* the handler of each vector
    IF_,         \* the processor's interrupt flag
    output_full, \* the keyboard has a byte that nobody has read
    pc, n,       \* main's function, and how many of its steps are done
    value,       \* the masks it has read
    serving,     \* the interrupt that is served, or NoInterrupt
    disturbed    \* history: a line was or went high while the master was initialised

vars == <<pic, idt, IF_, output_full, pc, n, value, serving, disturbed>>
main == <<pc, n, value>>

Vectors == 0 .. 255
Lines == 0 .. 7
Timer == 0
Keyboard == 1
Cascade == 2     \* the master's line for the slave
Disk == 6        \* the slave's, IRQ 14
NoInterrupt == [irq |-> -1, handler |-> "none", stage |-> "none"]
Stubs == 32      \* the entries of isr_stub_table

(* What the BIOS and the loaders leave.  The loader has cleared the flag.  *)
Init ==
    /\ output_full \in BOOLEAN
    /\ \E timer \in SUBSET {Timer}, disk \in SUBSET {Disk} :
         pic = [master |-> [base |-> 8, mask |-> {}, isr |-> {}, init |-> 0,
                            irr |-> timer \cup IF output_full THEN {Keyboard} ELSE {}],
                slave |-> [base |-> 112, mask |-> {}, isr |-> {}, init |-> 0, irr |-> disk]]
    /\ idt = [v \in Vectors |-> "none"]
    /\ IF_ = FALSE
    /\ pc = "pic_disable" /\ n = 0 /\ value = [master |-> {}, slave |-> {}]
    /\ serving = NoInterrupt
    /\ disturbed = FALSE
-----------------------------------------------------------------------------
(* The controllers.                                                        *)

Command(c, byte) ==
    IF byte = "ICW1" THEN [c EXCEPT !.mask = {}, !.irr = {}, !.isr = {}, !.init = 1]
    ELSE [c EXCEPT !.isr = IF @ = {} THEN {} ELSE @ \ {Min(@)}]

Data(c, byte) ==
    CASE c.init = 0 -> [c EXCEPT !.mask = byte]
      [] c.init = 1 -> [c EXCEPT !.base = byte, !.init = 2]
      [] c.init = 2 -> [c EXCEPT !.init = 3]
      [] c.init = 3 -> [c EXCEPT !.init = 0]

Requests(c) ==
    {l \in c.irr \ c.mask : \A s \in c.isr : l < s}
MasterRequests ==
    Requests([pic.master EXCEPT !.irr = IF Requests(pic.slave) = {} THEN @ ELSE @ \cup {Cascade}])

(* The devices.  A tick comes when the one before has long been served;    *)
(* the keyboard's line stays up until the byte is read.                    *)
Raise(p, l) ==
    /\ pic' = [pic EXCEPT ![p].irr = @ \cup {l}]
    /\ disturbed' = (disturbed \/ (p = "master" /\ pic.master.init # 0))
    /\ UNCHANGED <<idt, IF_, main, serving>>
Tick == serving = NoInterrupt /\ Raise("master", Timer) /\ UNCHANGED output_full
Key == ~output_full /\ output_full' = TRUE /\ Raise("master", Keyboard)
DiskReady == pc \in {"shell", "system_call"} /\ Raise("slave", Disk) /\ UNCHANGED output_full

(* The descriptors are interrupt gates (0x8E, 0xEE), not trap gates.       *)
Gate(flag) == FALSE

(* The processor takes the master's first request, with interrupts off.    *)
Deliver(l) ==
    /\ IF_ /\ serving = NoInterrupt /\ pc # "halted"
    /\ MasterRequests # {} /\ l = Min(MasterRequests)
    /\ LET cascaded == l = Cascade /\ Cascade \notin pic.master.irr
           s == Min(Requests(pic.slave))
           taken == [pic EXCEPT !.master.isr = @ \cup {l}, !.master.irr = @ \ {l}]
       IN  IF cascaded
           THEN /\ pic' = [taken EXCEPT !.slave.isr = @ \cup {s}, !.slave.irr = @ \ {s}]
                /\ serving' = [irq |-> 8 + s, handler |-> idt[pic.slave.base + s], stage |-> "entered"]
           ELSE /\ pic' = taken
                /\ serving' = [irq |-> l, handler |-> idt[pic.master.base + l], stage |-> "entered"]
    /\ IF_' = Gate(IF_)
    /\ UNCHANGED <<idt, output_full, main, disturbed>>
-----------------------------------------------------------------------------
(* The handlers.                                                           *)

EndSlaveOnly(irq) ==
    IF irq >= 8 THEN [pic EXCEPT !.slave = Command(@, "EOI")] ELSE pic
PIC_sendEOI(irq) ==
    [EndSlaveOnly(irq) EXCEPT !.master = Command(@, "EOI")]

Stage(from, to) ==
    /\ serving.stage = from /\ serving' = [serving EXCEPT !.stage = to]
    /\ UNCHANGED <<idt, IF_, main, disturbed>>

PIT_handler ==
    /\ serving.handler = "PIT_handler"
    /\ Stage("entered", "served") /\ pic' = PIC_sendEOI(0) /\ UNCHANGED output_full

KeyboardUnread ==
    /\ serving.handler = "keyboard_handler"
    /\ Stage("entered", "served") /\ pic' = PIC_sendEOI(1) /\ UNCHANGED output_full

keyboard_handler ==
    /\ serving.handler = "keyboard_handler"
    /\ \/ Stage("entered", "read") /\ output_full' = FALSE /\ UNCHANGED pic
       \/ Stage("read", "served") /\ pic' = PIC_sendEOI(1) /\ UNCHANGED output_full

(* exception_handler and the like, or whatever a wild vector leads to.     *)
Die ==
    /\ serving # NoInterrupt /\ serving.handler \notin {"PIT_handler", "keyboard_handler"}
    /\ pc # "halted" /\ pc' = "halted"
    /\ UNCHANGED <<pic, idt, IF_, output_full, n, value, serving, disturbed>>

Iret ==
    /\ serving.stage = "served" /\ serving' = NoInterrupt /\ IF_' = TRUE
    /\ UNCHANGED <<pic, idt, output_full, main, disturbed>>
-----------------------------------------------------------------------------
(* main, as far as no interrupt is being served.                           *)

Step(f) == pc = f /\ serving = NoInterrupt
Last(next) == pc' = next /\ n' = 0
More == UNCHANGED pc /\ n' = n + 1

pic_disable ==
    /\ Step("pic_disable")
    /\ \/ n = 0 /\ pic' = [pic EXCEPT !.master = Data(@, Lines)] /\ More
       \/ n = 1 /\ pic' = [pic EXCEPT !.slave = Data(@, Lines)] /\ Last("initIDT")
    /\ UNCHANGED <<idt, IF_, output_full, value, serving, disturbed>>

(* The table of stubs has 32 entries, of which 256 are taken.              *)
initIDT ==
    /\ Step("initIDT")
    /\ \/ n = 0 /\ idt' = [v \in Vectors |-> IF v < Stubs THEN "stub" ELSE "wild"] /\ More /\ UNCHANGED IF_
       \/ n = 1 /\ IF_' = TRUE /\ Last("handlers") /\ UNCHANGED idt
    /\ UNCHANGED <<pic, output_full, value, serving, disturbed>>

Handlers == <<[vector |-> 0, isr |-> "div_by_0_handler"],
              [vector |-> 32, isr |-> "PIT_handler"],
              [vector |-> 33, isr |-> "keyboard_handler"],
              [vector |-> 14, isr |-> "page_fault_handler"],
              [vector |-> 128, isr |-> "syscall_handler"],
              [vector |-> 13, isr |-> "gpf_handler"]>>

idt_set_descriptor ==
    /\ Step("handlers")
    /\ idt' = [idt EXCEPT ![Handlers[n + 1].vector] = Handlers[n + 1].isr]
    /\ IF n + 1 < Len(Handlers) THEN More ELSE Last("PIC_remap")
    /\ UNCHANGED <<pic, IF_, output_full, value, serving, disturbed>>

Write(p, c) ==
    /\ pic' = [pic EXCEPT ![p] = c]
    /\ disturbed' = (disturbed \/ (p = "master" /\ c.init = 1 /\ output_full))
    /\ UNCHANGED value
Read(p) == value' = [value EXCEPT ![p] = pic[p].mask] /\ UNCHANGED <<pic, disturbed>>

Alternately(k) == IF k % 2 = 0 THEN "master" ELSE "slave"

RemapWithoutICW3(offset1) ==
    /\ Step("PIC_remap")
    /\ LET p == Alternately(n)
           c == pic[p]
       IN  \/ n \in {0, 1} /\ Read(p)
           \/ n \in {2, 3} /\ Write(p, Command(c, "ICW1"))
           \/ n \in {4, 5} /\ Write(p, Data(c, IF p = "master" THEN offset1 ELSE offset1 + 8))
           \/ n \in {6, 7} /\ Write(p, Data(c, "ICW4"))
           \/ n \in {8, 9} /\ Write(p, Data(c, value[p]))
    /\ IF n < 9 THEN More ELSE Last("unmask_timer")
    /\ UNCHANGED <<idt, IF_, output_full, serving>>

PIC_remap(offset1) ==
    /\ Step("PIC_remap")
    /\ LET p == Alternately(n)
           c == pic[p]
       IN  \/ n \in {0, 1} /\ Read(p)
           \/ n \in {2, 3} /\ Write(p, Command(c, "ICW1"))
           \/ n \in {4, 5} /\ Write(p, Data(c, IF p = "master" THEN offset1 ELSE offset1 + 8))
           \/ n \in {6, 7} /\ Write(p, Data(c, "ICW3"))
           \/ n \in {8, 9} /\ Write(p, Data(c, "ICW4"))
           \/ n \in {10, 11} /\ Write(p, Data(c, value[p]))
    /\ IF n < 11 THEN More ELSE Last("unmask_timer")
    /\ UNCHANGED <<idt, IF_, output_full, serving>>

IRQ_clear_mask(f, irq, next) ==
    /\ Step(f)
    /\ LET p == IF irq < 8 THEN "master" ELSE "slave"
       IN  \/ n = 0 /\ Read(p) /\ More
           \/ n = 1 /\ Write(p, Data(pic[p], value[p] \ {irq % 8})) /\ Last(next)
    /\ UNCHANGED <<idt, IF_, output_full, serving>>

set_PIT ==
    /\ Step("set_PIT")
    /\ \/ n = 0 /\ IF_' = FALSE /\ More
       \/ n = 1 /\ IF_' = TRUE /\ Last("shell")
    /\ UNCHANGED <<pic, idt, output_full, value, serving, disturbed>>

(* The shell and its programs.  A system call comes through an interrupt   *)
(* gate; sys_close and sys_exit enable interrupts before it returns.       *)
SystemCall ==
    /\ Step("shell") /\ IF_' = Gate(IF_) /\ Last("system_call")
    /\ UNCHANGED <<pic, idt, output_full, value, serving, disturbed>>
EnableEarly ==
    /\ Step("system_call") /\ ~IF_ /\ IF_' = TRUE
    /\ UNCHANGED <<pic, idt, output_full, main, serving, disturbed>>
Return ==
    /\ Step("system_call") /\ IF_' = TRUE /\ Last("shell")
    /\ UNCHANGED <<pic, idt, output_full, value, serving, disturbed>>

Boot ==
    \/ pic_disable \/ initIDT \/ idt_set_descriptor \/ PIC_remap(32)
    \/ IRQ_clear_mask("unmask_timer", 0, "unmask_keyboard")
    \/ IRQ_clear_mask("unmask_keyboard", 1, "set_PIT")
    \/ set_PIT
Serve == PIT_handler \/ keyboard_handler \/ Die \/ Iret
Next ==
    \/ Boot \/ SystemCall \/ EnableEarly \/ Return
    \/ Tick \/ Key \/ DiskReady
    \/ \E l \in Lines : Deliver(l)
    \/ Serve

(* The processor goes on and looks for requests after every instruction.   *)
(* Ticks are ten milliseconds apart: what they interrupt gets its turn,    *)
(* and so does a key that comes together with one.                         *)
Spec ==
    Init /\ [][Next]_vars
    /\ SF_vars(Boot) /\ WF_vars(Return) /\ WF_vars(Serve)
    /\ SF_vars(Deliver(Timer)) /\ SF_vars(Deliver(Keyboard))
-----------------------------------------------------------------------------
TypeOK ==
    /\ \A p \in {"master", "slave"} :
         /\ pic[p].mask \subseteq Lines /\ pic[p].irr \subseteq Lines /\ pic[p].isr \subseteq Lines
         /\ pic[p].init \in 0 .. 3
    /\ IF_ \in BOOLEAN /\ output_full \in BOOLEAN /\ disturbed \in BOOLEAN

(* No interrupt is ever taken to a stub, a wild vector or another line's   *)
(* handler, from initIDT's early sti on: not before the handlers are       *)
(* there, not while the masks are lost between the controllers'            *)
(* initialisation and the bytes that restore them, and not the disk's,     *)
(* which nobody handles.                                                   *)
HandledByItsHandler ==
    serving # NoInterrupt /\ ~disturbed =>
        \/ serving.irq = Timer /\ serving.handler = "PIT_handler"
        \/ serving.irq = Keyboard /\ serving.handler = "keyboard_handler"

(* Handlers do not nest, and every interrupt that was taken is             *)
(* acknowledged by the time its handler returns, so that none stays in     *)
(* service and blocks the lines behind it.                                 *)
InServiceWhileServed ==
    /\ TypeOK
    /\ serving # NoInterrupt => ~IF_
    /\ serving = NoInterrupt => pic.master.isr = {} /\ pic.slave.isr = {}

(* A key is read, at whatever moment of the boot or of a system call it is *)
(* pressed, and however often the timer comes first - unless it was        *)
(* waiting when the controller was initialised, which forgets it.          *)
KeysAreServed == output_full /\ ~disturbed ~> ~output_full \/ disturbed
=============================================================================
