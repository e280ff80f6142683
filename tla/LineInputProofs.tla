-------------------------- MODULE LineInputProofs ---------------------------
(***************************************************************************)
(* Proofs about LineInput for every size of the buffer, provided that no   *)
(* line fills it.                                                          *)
(***************************************************************************)
EXTENDS LineInput, SequenceTheorems, TLAPS

ShortLines == MaxLine < INPUT_BUFFER_SIZE

(* The string in the buffer is n characters long.                          *)
Ends(buffer, n) ==
    /\ n \in Indices
    /\ buffer[n] = NUL
    /\ \A x \in Indices : x < n => buffer[x] # NUL

LEMMA TextIsPrefix ==
    ASSUME NEW buffer, NEW n, Ends(buffer, n)
    PROVE  TextOf(buffer) = [k \in 1 .. n |-> buffer[k - 1]]
  <1> DEFINE P(m) == /\ \A x \in Indices : x < m => buffer[x] # NUL
                     /\ m \in Indices => buffer[m] = NUL
  <1>1. n \in 0 .. INPUT_BUFFER_SIZE /\ P(n)
    BY SizeAssumption DEF Ends, Indices
  <1>2. ASSUME NEW m \in 0 .. INPUT_BUFFER_SIZE, P(m) PROVE m = n
    BY <1>2, SizeAssumption DEF Ends, Indices
  <1>3. (CHOOSE m \in 0 .. INPUT_BUFFER_SIZE : P(m)) = n
    BY <1>1, <1>2
  <1>4. QED
    BY <1>3 DEF TextOf

(* Sequences as functions: one more element, and one less.                 *)
LEMMA AppendFunction ==
    ASSUME NEW S, NEW n \in Nat, NEW s \in [1 .. n -> S], NEW t \in [1 .. n + 1 -> S],
           \A i \in 1 .. n : t[i] = s[i]
    PROVE  t = Append(s, t[n + 1])
  <1>1. s \in Seq(S) /\ t \in Seq(S) /\ n + 1 \in Nat
    BY SeqDef
  <1>2. Len(s) = n /\ Len(t) = n + 1 /\ t[n + 1] \in S
    BY <1>1, LenProperties
  <1> DEFINE u == Append(s, t[n + 1])
  <1>3. /\ u \in Seq(S) /\ Len(u) = n + 1
        /\ \A i \in 1 .. n : u[i] = s[i]
        /\ u[n + 1] = t[n + 1]
    BY <1>1, <1>2, AppendProperties
  <1>4. \A i \in 1 .. n + 1 : u[i] = t[i]
    BY <1>3
  <1>5. QED
    BY <1>1, <1>2, <1>3, <1>4, SeqEqual

LEMMA FrontFunction ==
    ASSUME NEW S, NEW n \in Nat, NEW s \in [1 .. n + 1 -> S], NEW t \in [1 .. n -> S],
           \A i \in 1 .. n : t[i] = s[i]
    PROVE  t = Front(s) /\ s # <<>>
  <1>1. s \in Seq(S) /\ t \in Seq(S)
    BY SeqDef
  <1>2. Len(s) = n + 1 /\ Len(t) = n
    BY <1>1, LenProperties
  <1> DEFINE u == SubSeq(s, 1, n)
  <1>3. /\ u \in Seq(S) /\ Len(u) = n
        /\ \A i \in 1 .. n : u[i] = s[i]
    BY SubSeqProperties
  <1>4. t = u
    BY <1>1, <1>2, <1>3, SeqEqual
  <1>5. QED
    BY <1>2, <1>4, EmptySeq DEF Front

-----------------------------------------------------------------------------
(* The handler's position never runs ahead of the user's line, and as long *)
(* as no key has come at a moment other than the prompt's, it is where the *)
(* string in the buffer ends.                                              *)
Position == input_pos <= typed /\ typed <= MaxLine

AtPrompt ==
    ~hurried =>
        /\ pc = "reset_buffer" => input_pos = 0
        /\ pc = "reset_ready" => input_pos = 0 /\ input_buffer[0] = NUL
        /\ pc = "poll" /\ ~input_ready => Ends(input_buffer, input_pos)

LineInv == TypeOK /\ Position /\ AtPrompt

LEMMA InitLineInv == Init => LineInv
  <1> SUFFICES ASSUME Init PROVE LineInv
    OBVIOUS
  <1>1. TypeOK
    <2>1. input_buffer \in [Indices -> Letters \cup {NUL}]
      BY DEF Init
    <2>2. input_pos \in Indices
      BY SizeAssumption DEF Init, Indices
    <2>3. QED
      BY <2>1, <2>2 DEF Init, TypeOK
  <1>2. Position /\ AtPrompt
    BY SizeAssumption DEF Init, Position, AtPrompt
  <1>3. QED
    BY <1>1, <1>2 DEF LineInv

(* The keys that produce a character or erase one.                         *)
LEMMA TypeLetterKeeps ==
    ASSUME ShortLines, LineInv, TypeLetter, keyboard_handler("letter")
    PROVE  LineInv'
  <1> USE SizeAssumption DEF ShortLines
  <1>1. input_pos \in Indices /\ input_pos + 1 \in Indices /\ 0 <= input_pos
    <2>1. input_pos \in Indices /\ typed \in Nat /\ input_pos <= typed /\ typed < MaxLine
      BY DEF LineInv, TypeOK, Position, TypeLetter
    <2>2. QED
      BY <2>1 DEF Indices
  <1>2. input_buffer' = [[input_buffer EXCEPT ![input_pos] = Pressed] EXCEPT ![input_pos + 1] = NUL]
    BY <1>1 DEF TypeLetter, Stored
  <1>3. Pressed \in Letters /\ Pressed # NUL
    BY DEF Pressed, Letters, NUL
  <1>4. TypeOK' /\ Position'
    <2>1. input_buffer' \in [Indices -> Letters \cup {NUL}]
      BY <1>2, <1>3 DEF LineInv, TypeOK
    <2>2. input_pos' \in Indices /\ typed' \in Nat /\ Position'
      <3>1. typed \in Nat /\ input_pos \in Int /\ input_pos <= typed
        BY DEF LineInv, TypeOK, Position, Indices
      <3>2. typed < MaxLine /\ typed' = typed + 1 /\ input_pos' = input_pos + 1
        BY DEF TypeLetter
      <3>3. QED
        BY <1>1, <3>1, <3>2 DEF Position
    <2>3. input_ready' \in BOOLEAN /\ shift' \in BOOLEAN /\ caps' \in BOOLEAN /\ hurried' \in BOOLEAN
      BY DEF LineInv, TypeOK, TypeLetter, keyboard_handler
    <2>4. QED
      BY <2>1, <2>2, <2>3 DEF LineInv, TypeOK, keyboard_handler
  <1>5. AtPrompt'
    <2> SUFFICES ASSUME ~hurried' PROVE AtPrompt'
      BY DEF AtPrompt
    <2>1. pc = "poll" /\ pc' = "poll" /\ ~input_ready /\ ~hurried
      BY DEF keyboard_handler
    <2>2. Ends(input_buffer, input_pos)
      BY <2>1 DEF LineInv, AtPrompt
    <2>3. input_pos' = input_pos + 1
      BY DEF TypeLetter
    <2>4. Ends(input_buffer', input_pos')
      BY <1>1, <1>2, <1>3, <2>2, <2>3 DEF LineInv, TypeOK, Ends, Indices
    <2>5. QED
      BY <2>1, <2>4 DEF AtPrompt
  <1>6. QED
    BY <1>4, <1>5 DEF LineInv

LEMMA BackspaceKeeps ==
    ASSUME LineInv, Backspace, keyboard_handler("backspace")
    PROVE  LineInv'
  <1> USE SizeAssumption
  <1>1. TypeOK' /\ Position'
    BY DEF LineInv, TypeOK, Position, Backspace, Erased, Stored, Indices, keyboard_handler
  <1>2. AtPrompt'
    <2> SUFFICES ASSUME ~hurried' PROVE AtPrompt'
      BY DEF AtPrompt
    <2>1. pc = "poll" /\ pc' = "poll" /\ ~input_ready /\ ~hurried
      BY DEF keyboard_handler
    <2>2. Ends(input_buffer, input_pos)
      BY <2>1 DEF LineInv, AtPrompt
    <2>3. Ends(input_buffer', input_pos')
      BY <2>2 DEF LineInv, TypeOK, Backspace, Stored, Ends, Indices
    <2>4. QED
      BY <2>1, <2>3 DEF AtPrompt
  <1>3. QED
    BY <1>1, <1>2 DEF LineInv

LEMMA NextLineInv ==
    ASSUME ShortLines
    PROVE  LineInv /\ [Next]_vars => LineInv'
  <1> SUFFICES ASSUME LineInv, [Next]_vars PROVE LineInv'
    OBVIOUS
  <1> USE SizeAssumption
  <1>1. ASSUME NEW k \in Keys, keyboard_handler(k) PROVE LineInv'
    <2>1. CASE k = "letter"
      BY <1>1, <2>1, TypeLetterKeeps DEF keyboard_handler
    <2>2. CASE k = "backspace"
      BY <1>1, <2>2, BackspaceKeeps DEF keyboard_handler
    <2>3. CASE k = "enter"
      BY <1>1, <2>3 DEF keyboard_handler, PressEnter, LineInv, TypeOK, Position, AtPrompt, Indices
    <2>4. CASE k \notin {"letter", "backspace", "enter"}
      <3>1. Modifier(k)
        BY <1>1, <2>4 DEF keyboard_handler
      <3>2. shift' \in BOOLEAN /\ caps' \in BOOLEAN
        BY <3>1 DEF Modifier, LineInv, TypeOK
      <3>3. UNCHANGED <<input_buffer, input_pos, input_ready, typed, pc>>
        BY <1>1, <3>1 DEF keyboard_handler, Modifier
      <3>4. QED
        BY <1>1, <3>2, <3>3 DEF keyboard_handler, LineInv, TypeOK, Position, AtPrompt, Indices, Ends
    <2>5. QED
      BY <2>1, <2>2, <2>3, <2>4
  <1>2. CASE ResetPos
    <2>1. TypeOK'
      <3>1. input_pos' \in Indices
        BY <1>2 DEF ResetPos, Indices
      <3>2. QED
        BY <1>2, <3>1 DEF ResetPos, LineInv, TypeOK
    <2>2. Position'
      BY <1>2 DEF ResetPos, LineInv, TypeOK, Position
    <2>3. AtPrompt'
      BY <1>2 DEF ResetPos, AtPrompt
    <2>4. QED
      BY <2>1, <2>2, <2>3 DEF LineInv
  <1>3. CASE ResetBuffer
    BY <1>3 DEF ResetBuffer, LineInv, TypeOK, Position, AtPrompt, Indices, Stored
  <1>4. CASE ResetReady
    <2>1. TypeOK' /\ Position'
      BY <1>4 DEF ResetReady, LineInv, TypeOK, Position
    <2>2. AtPrompt'
      BY <1>4 DEF ResetReady, LineInv, TypeOK, AtPrompt, Indices, Ends
    <2>3. QED
      BY <2>1, <2>2 DEF LineInv
  <1>5. CASE Poll
    BY <1>5 DEF Poll, LineInv, TypeOK, Position, AtPrompt
  <1>6. CASE Processed
    BY <1>6 DEF Processed, LineInv, TypeOK, Position, AtPrompt
  <1>7. CASE UNCHANGED vars
    BY <1>7 DEF vars, LineInv, TypeOK, Position, AtPrompt, Indices, Ends
  <1>8. QED
    BY <1>1, <1>2, <1>3, <1>4, <1>5, <1>6, <1>7 DEF Next, Shell

(* However the user types, the handler stays in the buffer.                *)
THEOREM HandlerStaysInBuffer ==
    ASSUME ShortLines
    PROVE  Spec => []TypeOK
  <1>1. LineInv => TypeOK
    BY DEF LineInv
  <1>2. QED
    BY InitLineInv, NextLineInv, <1>1, PTL DEF Spec
-----------------------------------------------------------------------------
(* The refinement.  A step that is not marked as hurried is one of the     *)
(* line editor's or leaves line and phase alone.                           *)
LEMMA InitReader == Init => Reader!LineInit
  BY DEF Init, Reader!LineInit

(* What the shell does, and a stutter.                                     *)
LEMMA ShellReader ==
    ASSUME LineInv, Shell, ~hurried'
    PROVE  Reader!LineNext \/ UNCHANGED (Reader!lineVars)
  <1>1. CASE ResetPos \/ ResetBuffer
    BY <1>1 DEF ResetPos, ResetBuffer, Reader!lineVars
  <1>2. CASE ResetReady
    <2>1. Ends(input_buffer, 0)
      BY <1>2, SizeAssumption DEF ResetReady, LineInv, AtPrompt, Ends, Indices
    <2>2. TextOf(input_buffer) = <<>>
      BY <2>1, TextIsPrefix
    <2>3. pc = "reset_ready" /\ pc' = "poll" /\ input_ready' = FALSE /\ Text' = <<>>
      BY <1>2, <2>2 DEF ResetReady, Text
    <2>4. Reader!Ask
      BY <2>3 DEF Reader!Ask
    <2>5. QED
      BY <2>4 DEF Reader!LineNext
  <1>3. CASE Poll
    BY <1>3 DEF Poll, Reader!lineVars, Text
  <1>4. CASE Processed
    <2>1. Reader!Finish
      BY <1>4 DEF Processed, Reader!Finish
    <2>2. QED
      BY <2>1 DEF Reader!LineNext
  <1>5. QED
    BY <1>1, <1>2, <1>3, <1>4 DEF Shell

(* What the handler does at the prompt.                                    *)
LEMMA HandlerReader ==
    ASSUME ShortLines, LineInv, NEW k \in Keys, keyboard_handler(k), ~hurried'
    PROVE  Reader!LineNext \/ UNCHANGED (Reader!lineVars)
  <1> USE SizeAssumption
  <1>1. pc = "poll" /\ pc' = "poll" /\ ~input_ready /\ ~hurried
    BY DEF keyboard_handler
  <1>2. Ends(input_buffer, input_pos)
    BY <1>1 DEF LineInv, AtPrompt
  <1>3. Text = [j \in 1 .. input_pos |-> input_buffer[j - 1]]
    BY <1>2, TextIsPrefix DEF Text
  <1>4. CASE k = "letter"
    <2> DEFINE p == input_pos
    <2>1. p \in Indices /\ p + 1 \in Indices /\ 0 <= p
      <3>1. p \in Indices /\ typed \in Nat /\ p <= typed /\ typed < MaxLine
        BY <1>4 DEF LineInv, TypeOK, Position, TypeLetter, keyboard_handler
      <3>2. QED
        BY <3>1 DEF Indices, ShortLines
    <2>2. /\ input_buffer' = [[input_buffer EXCEPT ![p] = Pressed] EXCEPT ![p + 1] = NUL]
          /\ input_pos' = p + 1
          /\ input_ready' = input_ready
      BY <1>4, <2>1 DEF keyboard_handler, TypeLetter, Stored
    <2>3. Pressed \in Letters
      BY DEF Pressed, Letters
    <2>4. Ends(input_buffer', p + 1)
      <3>1. LineInv'
        BY <1>4, TypeLetterKeeps DEF keyboard_handler
      <3>2. QED
        BY <1>1, <2>2, <3>1 DEF LineInv, AtPrompt
    <2>5. Text' = [j \in 1 .. p + 1 |-> input_buffer'[j - 1]]
      BY <2>4, TextIsPrefix DEF Text
    <2>6. Text' = Append(Text, Pressed)
      <3>1. Text \in [1 .. p -> Letters]
        BY <1>2, <1>3 DEF Ends, LineInv, TypeOK, Indices
      <3>2. Text' \in [1 .. p + 1 -> Letters] /\ Text'[p + 1] = Pressed
        BY <2>1, <2>2, <2>3, <2>5, <1>2 DEF Ends, LineInv, TypeOK, Indices
      <3>3. \A j \in 1 .. p : Text'[j] = Text[j]
        BY <1>3, <2>1, <2>2, <2>5 DEF LineInv, TypeOK, Indices
      <3>4. p \in Nat
        BY <2>1 DEF Indices
      <3>5. QED
        BY <3>1, <3>2, <3>3, <3>4, AppendFunction
    <2>7. Reader!Type(Pressed)
      BY <1>1, <2>2, <2>6 DEF Reader!Type
    <2>8. QED
      BY <2>3, <2>7 DEF Reader!LineNext
  <1>5. CASE k = "backspace"
    <2>1. LineInv' /\ input_ready' = input_ready
      BY <1>5, BackspaceKeeps DEF keyboard_handler, Backspace
    <2>2. Ends(input_buffer', input_pos')
      BY <1>1, <2>1 DEF LineInv, AtPrompt
    <2>3. Text' = [j \in 1 .. input_pos' |-> input_buffer'[j - 1]]
      BY <2>2, TextIsPrefix DEF Text
    <2>4. CASE input_pos = 0
      <3>1. UNCHANGED <<input_buffer, input_ready, pc>>
        BY <1>1, <1>5, <2>4 DEF keyboard_handler, Backspace
      <3>2. QED
        BY <3>1 DEF Reader!lineVars, Text
    <2>5. CASE input_pos # 0
      <3>1. input_pos \in Indices /\ input_pos - 1 \in Nat
        BY <2>5 DEF LineInv, TypeOK, Indices
      <3>2. /\ input_pos' = input_pos - 1
            /\ input_buffer' = [input_buffer EXCEPT ![input_pos - 1] = NUL]
        BY <1>5, <3>1 DEF keyboard_handler, Backspace, Stored, Indices
      <3> DEFINE n == input_pos - 1
      <3>3. Text \in [1 .. n + 1 -> Letters]
        BY <1>2, <1>3, <3>1 DEF Ends, LineInv, TypeOK, Indices
      <3>4. Text' \in [1 .. n -> Letters] /\ \A j \in 1 .. n : Text'[j] = Text[j]
        BY <1>2, <1>3, <2>3, <3>1, <3>2 DEF Ends, LineInv, TypeOK, Indices
      <3>5. Text' = Front(Text) /\ Text # <<>>
        BY <3>1, <3>3, <3>4, FrontFunction
      <3>6. Reader!Erase
        BY <1>1, <2>1, <3>5 DEF Reader!Erase, Reader!Front, Front
      <3>7. QED
        BY <3>6 DEF Reader!LineNext
    <2>6. QED
      BY <2>4, <2>5
  <1>6. CASE k = "enter"
    <2>1. input_ready' = TRUE /\ Text' = Text
      BY <1>6 DEF keyboard_handler, PressEnter, Text
    <2>2. Reader!Enter
      BY <1>1, <2>1 DEF Reader!Enter
    <2>3. QED
      BY <2>2 DEF Reader!LineNext
  <1>7. CASE k \notin {"letter", "backspace", "enter"}
    <2>1. Modifier(k)
      BY <1>7 DEF keyboard_handler
    <2>2. UNCHANGED <<input_buffer, input_ready, pc>>
      BY <1>1, <2>1 DEF Modifier
    <2>3. QED
      BY <2>2 DEF Reader!lineVars, Text
  <1>8. QED
    BY <1>4, <1>5, <1>6, <1>7

(* A user who waits for the prompt has a line editor, and one who does not *)
(* spoils no line but the one at hand.                                     *)
THEOREM ReadsLines ==
    ASSUME ShortLines
    PROVE  Spec => ImplementsLineReader
  <1>1. LineInv /\ [Next]_vars => [hurried' \/ Reader!LineNext]_(Reader!lineVars)
    <2> SUFFICES ASSUME LineInv, [Next]_vars, ~hurried'
                 PROVE  Reader!LineNext \/ UNCHANGED (Reader!lineVars)
      OBVIOUS
    <2>1. CASE Shell
      BY <2>1, ShellReader
    <2>2. ASSUME NEW k \in Keys, keyboard_handler(k)
          PROVE  Reader!LineNext \/ UNCHANGED (Reader!lineVars)
      BY <2>2, HandlerReader
    <2>3. CASE UNCHANGED vars
      BY <2>3 DEF vars, Reader!lineVars, Text
    <2>4. QED
      BY <2>1, <2>2, <2>3 DEF Next
  <1>2. QED
    BY InitLineInv, NextLineInv, InitReader, <1>1, PTL DEF Spec, ImplementsLineReader
=============================================================================
