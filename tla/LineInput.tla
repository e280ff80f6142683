----------------------------- MODULE LineInput ------------------------------
(***************************************************************************)
(* How a line gets from the keyboard to the shell.  keyboard_handler       *)
(* (kernel/interrupts/exceptions.c) runs as an interrupt between any two   *)
(* instructions of the shell and edits input_buffer; readline              *)
(* (kernel/stdio.c) empties the buffer, waits for input_ready and returns  *)
(* the buffer itself, which the shell (kernel/kernel.c) then reads while   *)
(* it carries out the command.  The three share input_buffer, input_pos    *)
(* and input_ready without any lock.                                       *)
(*                                                                         *)
(* What the handler echoes on the screen is left out.                      *)
(***************************************************************************)
EXTENDS Integers, Sequences, SequencesExt

CONSTANTS
    INPUT_BUFFER_SIZE,   \* 256 in the code
    MaxLine              \* bound: the characters of a line the user types

ASSUME SizeAssumption == INPUT_BUFFER_SIZE \in Nat \ {0} /\ MaxLine \in Nat

VARIABLES
    input_buffer,
    input_pos,
    input_ready,
    shift, caps,         \* key_info of the handler
    pc,                  \* where the shell is
    typed,               \* history: the characters of the line at the keyboard
    hurried              \* history: a key came since readline began, but not at the prompt

vars == <<input_buffer, input_pos, input_ready, shift, caps, pc, typed, hurried>>

NUL == "NUL"
(* One key with a lower case and an upper case letter stands for those     *)
(* that produce a character; the last kind of key has none in keymap, is   *)
(* a release, or is the 0xE0 prefix, whose flag is cleared as it is set.   *)
Letters == {"a", "A"}
Keys == {"letter", "backspace", "enter",
         "shift_make", "shift_break", "caps_lock", "no_character"}

Indices == 0 .. INPUT_BUFFER_SIZE - 1

Init ==
    /\ input_buffer = [x \in Indices |-> NUL]
    /\ input_pos = 0
    /\ input_ready = FALSE
    /\ shift = FALSE /\ caps = FALSE
    /\ pc = "reset_pos"
    /\ typed = 0
    /\ hurried = FALSE

(* The string that starts at a buffer; one without a NUL runs on past   *)
(* the buffer and is cut there.                                            *)
TextOf(buffer) ==
    LET len == CHOOSE n \in 0 .. INPUT_BUFFER_SIZE :
                    /\ \A x \in Indices : x < n => buffer[x] # NUL
                    /\ n \in Indices => buffer[n] = NUL
    IN  [k \in 1 .. len |-> buffer[k - 1]]
Text == TextOf(input_buffer)

(* A store past the end changes something else than the buffer.            *)
Stored(buffer, x, c) == IF x \in Indices THEN [buffer EXCEPT ![x] = c] ELSE buffer
-----------------------------------------------------------------------------
(* keyboard_handler, with interrupts disabled.                             *)

Pressed == IF shift \/ caps THEN "A" ELSE "a"

TypeLetter ==
    /\ typed < MaxLine /\ typed' = typed + 1
    /\ input_buffer' = Stored(Stored(input_buffer, input_pos, Pressed), input_pos + 1, NUL)
    /\ input_pos' = input_pos + 1
    /\ UNCHANGED <<input_ready, shift, caps>>

Erased == IF typed > 0 THEN typed - 1 ELSE 0

Backspace ==
    /\ IF input_pos > 0
       THEN /\ input_pos' = input_pos - 1
            /\ input_buffer' = Stored(input_buffer, input_pos - 1, NUL)
       ELSE UNCHANGED <<input_pos, input_buffer>>
    /\ typed' = Erased
    /\ UNCHANGED <<input_ready, shift, caps>>

EnterKeepsPos ==
    /\ input_ready' = TRUE
    /\ typed' = 0
    /\ UNCHANGED <<input_buffer, input_pos, shift, caps>>

EnterIgnoresEmptyLine ==
    /\ input_ready' = (input_ready \/ input_pos > 0)
    /\ input_pos' = 0 /\ typed' = 0
    /\ UNCHANGED <<input_buffer, shift, caps>>

PressEnter ==
    /\ input_ready' = TRUE
    /\ input_pos' = 0 /\ typed' = 0
    /\ UNCHANGED <<input_buffer, shift, caps>>

Modifier(k) ==
    /\ shift' = CASE k = "shift_make" -> TRUE [] k = "shift_break" -> FALSE [] OTHER -> shift
    /\ caps' = IF k = "caps_lock" THEN ~caps ELSE caps
    /\ UNCHANGED <<input_buffer, input_pos, input_ready, typed>>

keyboard_handler(k) ==
    /\ CASE k = "letter" -> TypeLetter
         [] k = "backspace" -> Backspace
         [] k = "enter" -> PressEnter
         [] OTHER -> Modifier(k)
    /\ hurried' = (hurried \/ ~(pc = "poll" /\ ~input_ready))
    /\ UNCHANGED pc
-----------------------------------------------------------------------------
(* readline, one store at a time, and the shell's use of what it returns.  *)

ResetPos ==
    /\ pc = "reset_pos" /\ pc' = "reset_buffer"
    /\ input_pos' = 0
    /\ hurried' = FALSE
    /\ UNCHANGED <<input_buffer, input_ready, shift, caps, typed>>

ResetWithoutBuffer ==
    /\ pc = "reset_buffer" /\ pc' = "reset_ready"
    /\ UNCHANGED <<input_buffer, input_pos, input_ready, shift, caps, typed, hurried>>

ResetBuffer ==
    /\ pc = "reset_buffer" /\ pc' = "reset_ready"
    /\ input_buffer' = Stored(input_buffer, 0, NUL)
    /\ UNCHANGED <<input_pos, input_ready, shift, caps, typed, hurried>>

ResetReady ==
    /\ pc = "reset_ready" /\ pc' = "poll"
    /\ input_ready' = FALSE
    /\ UNCHANGED <<input_buffer, input_pos, shift, caps, typed, hurried>>

Poll ==
    /\ pc = "poll" /\ input_ready /\ pc' = "process"
    /\ UNCHANGED <<input_buffer, input_pos, input_ready, shift, caps, typed, hurried>>

(* The command is over and the shell asks for the next line.               *)
Processed ==
    /\ pc = "process" /\ pc' = "reset_pos"
    /\ UNCHANGED <<input_buffer, input_pos, input_ready, shift, caps, typed, hurried>>

Shell == ResetPos \/ ResetBuffer \/ ResetReady \/ Poll \/ Processed

Next == Shell \/ \E k \in Keys : keyboard_handler(k)

Spec == Init /\ [][Next]_vars

(* The processor runs the shell whenever no interrupt is served, and the   *)
(* user does not wait for ever with Enter.                                 *)
FairSpec == Spec /\ WF_vars(Shell) /\ WF_vars(keyboard_handler("enter"))
-----------------------------------------------------------------------------
(* Lines shorter than the buffer never make the handler write past it,     *)
(* however many of them are typed and whenever, also while readline is     *)
(* resetting the buffer: input_pos never runs ahead of the user's line.    *)
TypeOK ==
    /\ input_buffer \in [Indices -> Letters \cup {NUL}]
    /\ input_pos \in Indices
    /\ input_ready \in BOOLEAN
    /\ shift \in BOOLEAN /\ caps \in BOOLEAN
    /\ pc \in {"reset_pos", "reset_buffer", "reset_ready", "poll", "process"}
    /\ typed \in Nat
    /\ hurried \in BOOLEAN

(* The prompt comes back: neither a lost Enter nor a lost input_ready      *)
(* leaves the shell waiting for ever.                                      *)
ShellGoesOn == []<>(pc = "process")

(* A user who waits for the prompt and for the answer has a line editor:   *)
(* the shell works with exactly the line that was entered.  A key at any   *)
(* other moment may spoil that line, but not the one after it: what        *)
(* follows the next ResetPos is LineReader's behaviour again.              *)
Reader == INSTANCE LineReader WITH
    line <- IF pc \in {"poll", "process"} THEN Text ELSE <<>>,
    phase <- CASE pc = "process" -> "entered"
               [] pc = "poll" -> IF input_ready THEN "entered" ELSE "editing"
               [] OTHER -> "idle"
ImplementsLineReader == Reader!LineInit /\ [][hurried' \/ Reader!LineNext]_(Reader!lineVars)
=============================================================================
