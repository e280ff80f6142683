------------------------------ MODULE Console ------------------------------
(***************************************************************************)
(* The text screen (putc, scrollback, setcursor and clrscr of              *)
(* kernel/stdio.c) as the shell and keyboard_handler use it.  The shell    *)
(* prints with interrupts enabled: its putc is a step per load and store   *)
(* of the cursor, per cell that is scrolled and per port that is written,  *)
(* and the handler, which echoes what is typed with a putc of its own,     *)
(* may run between any two of them.  A call with two arguments, as         *)
(* setcursor(g_ScreenX, g_ScreenY), loads the last one first: the compiler *)
(* the Makefile names pushes the arguments from right to left.             *)
(*                                                                         *)
(* Of the characters only those the user types are told apart from others. *)
(* Colours are left out, and so are the cells below the screen, where a    *)
(* character may go while the cursor is there: nobody reads them.  The     *)
(* line that is typed is here a sequence and readline's stores are one     *)
(* step; LineInput has the buffer and the keys between those stores.       *)
(***************************************************************************)
EXTENDS Integers, Sequences, SequencesExt

CONSTANTS
    VGA_WIDTH, VGA_HEIGHT,    \* 80 and 25
    Letters,                  \* the characters the user types, beside the tab
    Output,                   \* those the shell prints: "text" and control characters
    RADIX,                    \* 256: a cursor register holds a byte
    MaxLine                   \* bound: the longest line that is typed

ASSUME ScreenAssumption ==
    /\ VGA_WIDTH \in Nat \ {0} /\ VGA_HEIGHT \in Nat \ {0, 1}
    /\ RADIX \in Nat \ {0}
    /\ Output \subseteq {"text", "newline", "return", "tab"}
    /\ Letters \cap {"newline", "backspace", "tab", "other"} = {}
(* The position of a cursor in the row below the screen fits the registers.*)
ASSUME RegisterAssumption == VGA_WIDTH * (VGA_HEIGHT + 1) <= RADIX * RADIX
(* A line never goes back over more rows than all but two of the screen.   *)
ASSUME LineAssumption == MaxLine \in Nat /\ MaxLine <= VGA_WIDTH * (VGA_HEIGHT - 2)

VARIABLES
    x, y,      \* g_ScreenX, g_ScreenY
    cell,      \* the characters on the screen, row by row
    crtc,      \* the cursor's index register and its two data registers
    pc,        \* where the shell is
    reg,       \* the value it has loaded, or the position for setcursor, if any
    k,         \* the cell that scrollback or clrscr is at
    tab,       \* i in the loop for a tab, or NoTab
    line,      \* the text in input_buffer
    ready,     \* input_ready
    tabbed,    \* history: a tab was typed since readline emptied the buffer
    torn       \* history: a key came in the middle of the last setcursor

shell == <<pc, reg, k, tab>>
screen == <<x, y, cell, crtc>>
typed == <<line, ready, tabbed>>
vars == <<x, y, cell, crtc, pc, reg, k, tab, line, ready, tabbed, torn>>

TAB == 4
NoTab == -1
Cells == 0 .. VGA_WIDTH * VGA_HEIGHT - 1
LastRow == {c \in Cells : c >= VGA_WIDTH * (VGA_HEIGHT - 1)}
Low == 15       \* 0x0F
High == 14      \* 0x0E

Init ==
    /\ x = 0 /\ y = 0
    /\ cell = [c \in Cells |-> "other"]
    /\ crtc = [index |-> High, low |-> 0, high |-> 0]
    /\ pc = "busy" /\ reg = 0 /\ k = 0 /\ tab = NoTab
    /\ line = <<>> /\ ready = FALSE
    /\ tabbed = FALSE /\ torn = FALSE
-----------------------------------------------------------------------------
(* putc as one step, on s = [x, y, cell].                                  *)

Position(a, b) == b * VGA_WIDTH + a
PutAt(cells, p, c) == IF p \in Cells THEN [cells EXCEPT ![p] = c] ELSE cells
Put(cells, a, b, c) == PutAt(cells, Position(a, b), c)

BackInColumn(s) ==
    LET t == IF s.x > 0 THEN [s EXCEPT !.x = s.x - 1]
             ELSE IF s.y > 0 THEN [s EXCEPT !.y = s.y - 1]
             ELSE s
    IN  [t EXCEPT !.cell = Put(s.cell, t.x, t.y, "other")]

Back(s) ==
    LET t == IF s.x > 0 THEN [s EXCEPT !.x = s.x - 1]
             ELSE IF s.y > 0 THEN [s EXCEPT !.x = VGA_WIDTH - 1, !.y = s.y - 1]
             ELSE s
    IN  [t EXCEPT !.cell = Put(s.cell, t.x, t.y, "other")]

Shifted(s, c) == [s EXCEPT !.cell = Put(s.cell, s.x, s.y, c), !.x = s.x + 1]

Wrapped(s) == IF s.x >= VGA_WIDTH THEN [s EXCEPT !.x = 0, !.y = s.y + 1] ELSE s

scrollback(s) ==
    [s EXCEPT !.cell = [c \in Cells |-> IF c \in LastRow THEN "other" ELSE s.cell[c + VGA_WIDTH]],
              !.y = s.y - 1]

ScrolledLate(s) == IF s.y > VGA_HEIGHT THEN scrollback(s) ELSE s
Scrolled(s) == IF s.y >= VGA_HEIGHT THEN scrollback(s) ELSE s

(* A tab is putc(' ') while i < 4 - (g_ScreenX % 4), and i < 4 at most.    *)
Space(s, i) ==
    IF i < TAB - (s.x % TAB) THEN Scrolled(Wrapped(Shifted(s, "other"))) ELSE s
Spaces(s) == Space(Space(Space(Space(s, 0), 1), 2), 3)

Placed(s, c) ==
    CASE c = "newline" -> [s EXCEPT !.x = 0, !.y = s.y + 1]
      [] c = "backspace" -> Back(s)
      [] c = "tab" -> Spaces(s)
      [] OTHER -> Shifted(s, c)

setcursor(a, b) ==
    [index |-> High, low |-> Position(a, b) % RADIX, high |-> Position(a, b) \div RADIX]

(* The shell has loaded g_ScreenY for setcursor and not yet shown it all.  *)
SettingCursor == {"position_x", "low_index", "low", "high_index", "high"}

Echo(c) ==
    LET s == Scrolled(Wrapped(Placed([x |-> x, y |-> y, cell |-> cell], c)))
    IN  /\ x' = s.x /\ y' = s.y /\ cell' = s.cell
        /\ crtc' = setcursor(s.x, s.y)
        /\ torn' = (pc \in SettingCursor)
        /\ UNCHANGED shell

(* keyboard_handler: an interrupt at any moment.  A tab is one character   *)
(* of the line like any other.                                             *)
Keys == Letters \cup {"tab"}
keyboard_handler ==
    \/ /\ Len(line) < MaxLine
       /\ \E c \in Keys : line' = Append(line, c) /\ Echo(c) /\ tabbed' = (tabbed \/ c = "tab")
       /\ UNCHANGED ready
    \/ line # <<>> /\ line' = Front(line) /\ Echo("backspace") /\ UNCHANGED <<ready, tabbed>>
    \/ line' = <<>> /\ ready' = TRUE /\ Echo("newline") /\ UNCHANGED tabbed
-----------------------------------------------------------------------------
(* putc as the shell executes it.                                          *)

At(a, b) == pc = a /\ pc' = b

PutC(c) ==
    /\ At("busy", CASE c = "newline" -> "newline" [] c = "return" -> "return"
                    [] c = "tab" -> "tab" [] OTHER -> "putchar")
    /\ tab' = IF c = "tab" THEN 0 ELSE NoTab
    /\ UNCHANGED <<screen, reg, k, typed, torn>>

(* putc(' ') as often as the column the cursor has by then asks for.       *)
TabLoop ==
    /\ pc = "tab"
    /\ IF tab < TAB - (x % TAB) THEN pc' = "putchar" /\ UNCHANGED tab ELSE pc' = "wrap" /\ tab' = NoTab
    /\ UNCHANGED <<screen, reg, k, typed, torn>>

Load(from, to, v) ==
    /\ At(from, to) /\ reg' = v
    /\ UNCHANGED <<screen, k, tab, typed, torn>>
StoreX(from, to, v) ==
    /\ At(from, to) /\ x' = v /\ reg' = 0 /\ k' = 0
    /\ UNCHANGED <<y, cell, crtc, tab, typed, torn>>
StoreY(from, to, v) ==
    /\ At(from, to) /\ y' = v /\ reg' = 0 /\ k' = 0
    /\ UNCHANGED <<x, cell, crtc, tab, typed, torn>>

PutChar ==
    \/ Load("putchar", "putchar_x", Position(0, y))
    \/ Load("putchar_x", "putchar_store", reg + x)
    \/ /\ At("putchar_store", "load_x")
       /\ cell' = PutAt(cell, reg, "other") /\ reg' = 0
       /\ UNCHANGED <<x, y, crtc, k, tab, typed, torn>>

MoveCursor ==
    \/ Load("load_x", "store_x", x) \/ StoreX("store_x", "wrap", reg + 1)
    \/ StoreX("newline", "load_y", 0)
    \/ Load("load_y", "store_y", y) \/ StoreY("store_y", "wrap", reg + 1)
    \/ StoreX("return", "wrap", 0)

Wrap ==
    \/ x >= VGA_WIDTH /\ Load("wrap", "wrap_y", y)
    \/ x < VGA_WIDTH /\ Load("wrap", "bottom", 0)
    \/ StoreY("wrap_y", "wrap_x", reg + 1)
    \/ StoreX("wrap_x", "bottom", 0)

Bottom ==
    /\ At("bottom", IF y >= VGA_HEIGHT THEN "scroll" ELSE "position")
    /\ k' = 0
    /\ UNCHANGED <<screen, reg, tab, typed, torn>>

(* scrollback, one cell after the other.                                   *)
ScrollCell ==
    /\ pc = "scroll" /\ k \in Cells
    /\ cell' = [cell EXCEPT ![k] = IF k \in LastRow THEN "other" ELSE cell[k + VGA_WIDTH]]
    /\ k' = k + 1
    /\ UNCHANGED <<x, y, crtc, pc, reg, tab, typed, torn>>

ScrollUp ==
    \/ k \notin Cells /\ Load("scroll", "store_scrolled", y)
    \/ StoreY("store_scrolled", "position", reg - 1)

AfterPutc == IF tab = NoTab THEN "busy" ELSE "tab"

(* setcursor(g_ScreenX, g_ScreenY): the arguments, then the ports.         *)
LoadPosition ==
    /\ UNCHANGED <<screen, k, tab, typed>>
    /\ \/ At("position", "position_x") /\ reg' = Position(0, y) /\ torn' = FALSE
       \/ At("position_x", "low_index") /\ reg' = reg + x /\ UNCHANGED torn

(* A byte goes to the register that was selected last, by whomever.        *)
WriteData(v) ==
    crtc' = IF crtc.index = Low THEN [crtc EXCEPT !.low = v] ELSE [crtc EXCEPT !.high = v]

SetCursorWithoutHighIndex ==
    /\ UNCHANGED <<x, y, cell, k, typed, torn>>
    /\ \/ At("low_index", "low") /\ crtc' = [crtc EXCEPT !.index = Low] /\ UNCHANGED <<reg, tab>>
       \/ At("low", "high") /\ WriteData(reg % RADIX) /\ UNCHANGED <<reg, tab>>
       \/ /\ At("high", AfterPutc) /\ WriteData(reg \div RADIX)
          /\ tab' = IF tab = NoTab THEN NoTab ELSE tab + 1
          /\ reg' = 0

SetCursor ==
    /\ UNCHANGED <<x, y, cell, k, typed, torn>>
    /\ \/ At("low_index", "low") /\ crtc' = [crtc EXCEPT !.index = Low] /\ UNCHANGED <<reg, tab>>
       \/ At("low", "high_index") /\ WriteData(reg % RADIX) /\ UNCHANGED <<reg, tab>>
       \/ At("high_index", "high") /\ crtc' = [crtc EXCEPT !.index = High] /\ UNCHANGED <<reg, tab>>
       \/ /\ At("high", AfterPutc) /\ WriteData(reg \div RADIX)
          /\ tab' = IF tab = NoTab THEN NoTab ELSE tab + 1
          /\ reg' = 0

(* clrscr, which the shell calls for the command clear and when it starts. *)
Clear ==
    \/ /\ At("busy", "clear") /\ k' = 0
       /\ UNCHANGED <<screen, reg, tab, typed, torn>>
    \/ /\ pc = "clear" /\ k \in Cells
       /\ cell' = [cell EXCEPT ![k] = "other"] /\ k' = k + 1
       /\ UNCHANGED <<x, y, crtc, pc, reg, tab, typed, torn>>
    \/ k \notin Cells /\ StoreX("clear", "clear_y", 0)
    \/ StoreY("clear_y", "position", 0)

(* readline: the buffer is emptied, then the shell waits for Enter.        *)
Ask ==
    /\ At("busy", "poll")
    /\ line' = <<>> /\ ready' = FALSE /\ tabbed' = FALSE
    /\ UNCHANGED <<screen, reg, k, tab, torn>>
Answered ==
    /\ At("poll", "busy") /\ ready
    /\ UNCHANGED <<screen, reg, k, tab, typed, torn>>

Shell ==
    \/ \E c \in Output : PutC(c)
    \/ TabLoop \/ PutChar \/ MoveCursor \/ Wrap \/ Bottom \/ ScrollCell \/ ScrollUp
    \/ LoadPosition \/ SetCursor \/ Clear \/ Ask \/ Answered

Next == Shell \/ keyboard_handler

Spec == Init /\ [][Next]_vars
-----------------------------------------------------------------------------
(* However the two interfere, the cursor never gets further from the       *)
(* screen than the row below it, so that all stores are in video memory.   *)
TypeOK ==
    /\ x \in 0 .. VGA_WIDTH /\ y \in 0 .. VGA_HEIGHT
    /\ cell \in [Cells -> Letters \cup {"other"}]
    /\ crtc \in [index : {Low, High}, low : 0 .. RADIX - 1, high : 0 .. RADIX - 1]
    /\ reg \in Nat /\ k \in Nat /\ tab \in {NoTab} \cup 0 .. TAB
    /\ line \in Seq(Keys)

(* When no putc is under way the cursor is on the screen, whatever the     *)
(* keys that came in while the shell moved it.                             *)
CursorOnScreen == TypeOK /\ (pc \in {"busy", "poll"} => x < VGA_WIDTH /\ y < VGA_HEIGHT)

(* The characters before the cursor are those of the line, as far as they  *)
(* are on the screen.                                                      *)
LineBeforeCursor ==
    \A j \in 1 .. Len(line) :
        LET c == Position(x, y) - Len(line) + j - 1
        IN  c \in Cells => cell[c] = line[j]

(* The user sees what is in the buffer: while the shell waits for a line,  *)
(* the line stands before the cursor, across the end of a row, scrolling   *)
(* and backspace.  For a line into which no tab was typed: a tab takes up  *)
(* to three cells and backspace clears one.                                *)
EchoShowsLine == pc = "poll" /\ ~ready /\ ~tabbed => LineBeforeCursor

(* The cursor blinks where the next character will be, unless a key came   *)
(* after the last setcursor had loaded g_ScreenY and before its last byte  *)
(* was written: the next character repairs it.                             *)
CursorShown ==
    pc \in {"busy", "poll"} /\ ~torn => crtc.low + RADIX * crtc.high = Position(x, y)
=============================================================================
