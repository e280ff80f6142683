----------------------------- MODULE LineReader -----------------------------
(***************************************************************************)
(* What the shell expects of its input: it asks for a line, the user edits *)
(* one and enters it, the shell works with the line that was entered, and  *)
(* then asks for the next.                                                 *)
(***************************************************************************)
EXTENDS Sequences, SequencesExt

CONSTANT Letters   \* the characters a line is made of

VARIABLES
    line,          \* the text of the line
    phase          \* "idle", "editing" or "entered"

lineVars == <<line, phase>>

LineInit == line = <<>> /\ phase = "idle"

Ask == phase = "idle" /\ phase' = "editing" /\ line' = <<>>

Type(c) == phase = "editing" /\ line' = Append(line, c) /\ UNCHANGED phase

Erase == phase = "editing" /\ line # <<>> /\ line' = Front(line) /\ UNCHANGED phase

Enter == phase = "editing" /\ phase' = "entered" /\ UNCHANGED line

Finish == phase = "entered" /\ phase' = "idle" /\ line' = <<>>

LineNext == Ask \/ (\E c \in Letters : Type(c)) \/ Erase \/ Enter \/ Finish

LineSpec == LineInit /\ [][LineNext]_lineVars
=============================================================================
