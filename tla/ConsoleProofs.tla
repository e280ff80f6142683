--------------------------- MODULE ConsoleProofs ----------------------------
(***************************************************************************)
(* Proofs about Console for a screen of any size.                          *)
(***************************************************************************)
EXTENDS Console, SequenceTheorems, TLAPS

Characters == Letters \cup {"other"}
Shown(a, b, cells) == [x |-> a, y |-> b, cell |-> cells]

(* putc of the handler.                                                    *)
Echoed(s, c) == Scrolled(Wrapped(Placed(s, c)))

-----------------------------------------------------------------------------
(* Positions, counted row by row.                                          *)
LEMMA PositionSteps ==
    ASSUME NEW a \in Int, NEW b \in Int
    PROVE  /\ Position(a, b) \in Int
           /\ Position(a + 1, b) = Position(a, b) + 1
           /\ Position(a - 1, b) = Position(a, b) - 1
           /\ Position(VGA_WIDTH, b) = Position(0, b + 1)
           /\ Position(a, b - 1) = Position(a, b) - VGA_WIDTH
           /\ Position(VGA_WIDTH - 1, b - 1) = Position(0, b) - 1
  BY ScreenAssumption DEF Position

LEMMA RowsInOrder ==
    ASSUME NEW a \in Int, NEW b \in Int, NEW e \in Int, b <= e
    PROVE  VGA_WIDTH * b \in Int /\ VGA_WIDTH * b <= VGA_WIDTH * e
  <1>1. VGA_WIDTH \in Nat /\ e - b \in Nat
    BY ScreenAssumption
  <1>2. VGA_WIDTH * (e - b) \in Nat
    BY <1>1
  <1>3. VGA_WIDTH * (e - b) = VGA_WIDTH * e - VGA_WIDTH * b
    BY <1>1
  <1>4. VGA_WIDTH * b \in Int /\ VGA_WIDTH * e \in Int
    BY <1>1
  <1>5. QED
    BY <1>2, <1>3, <1>4

LEMMA PositionBounds ==
    ASSUME NEW a \in 0 .. VGA_WIDTH - 1, NEW b \in Nat
    PROVE  /\ Position(a, b) \in Nat
           /\ Position(a, b) >= VGA_WIDTH * b
           /\ Position(a, b) < VGA_WIDTH * (b + 1)
           /\ b < VGA_HEIGHT => Position(a, b) \in Cells
  <1>1. /\ Position(a, b) = VGA_WIDTH * b + a
        /\ VGA_WIDTH * (b + 1) = VGA_WIDTH * b + VGA_WIDTH
        /\ VGA_WIDTH * b \in Nat
    BY ScreenAssumption DEF Position
  <1>2. Position(a, b) \in Nat /\ Position(a, b) >= VGA_WIDTH * b /\ Position(a, b) < VGA_WIDTH * (b + 1)
    BY <1>1, ScreenAssumption
  <1>3. ASSUME b < VGA_HEIGHT PROVE Position(a, b) \in Cells
    <2>1. VGA_WIDTH * (b + 1) \in Int /\ VGA_WIDTH * (b + 1) <= VGA_WIDTH * VGA_HEIGHT
      BY <1>3, RowsInOrder, ScreenAssumption
    <2>2. VGA_WIDTH * VGA_HEIGHT \in Int
      BY ScreenAssumption
    <2>3. QED
      BY <1>2, <2>1, <2>2 DEF Cells
  <1>4. QED
    BY <1>2, <1>3
-----------------------------------------------------------------------------
(* What putc does to the screen, wherever the cursor is.                   *)
LEMMA PutKeepsCells ==
    ASSUME NEW cells \in [Cells -> Characters], NEW a, NEW b, NEW c \in Characters
    PROVE  Put(cells, a, b, c) \in [Cells -> Characters]
  BY DEF Put, PutAt

LEMMA CharacterShifts ==
    ASSUME NEW a \in Nat, NEW b \in Nat, NEW cells, NEW c
    PROVE  Shifted(Shown(a, b, cells), c) = Shown(a + 1, b, Put(cells, a, b, c))
  <1> DEFINE s == Shown(a, b, cells)
             put == Put(cells, a, b, c)
             t == [s EXCEPT !.cell = put]
  <1>1. s.x = a /\ s.y = b /\ s.cell = cells
    BY DEF Shown
  <1>2. Shifted(s, c) = [t EXCEPT !.x = a + 1]
    BY <1>1 DEF Shifted
  <1> HIDE DEF put
  <1>3. t = Shown(a, b, put)
    BY DEF Shown
  <1> HIDE DEF t
  <1>4. [t EXCEPT !.x = a + 1] = Shown(a + 1, b, put)
    BY <1>3 DEF Shown
  <1>5. QED
    BY <1>2, <1>4 DEF put

LEMMA LetterPlaced ==
    ASSUME NEW a \in Nat, NEW b \in Nat, NEW cells, NEW c \in Letters
    PROVE  Placed(Shown(a, b, cells), c) = Shown(a + 1, b, Put(cells, a, b, c))
  <1>1. c # "newline" /\ c # "backspace" /\ c # "tab"
    BY ScreenAssumption
  <1>2. Placed(Shown(a, b, cells), c) = Shifted(Shown(a, b, cells), c)
    BY <1>1 DEF Placed
  <1>3. QED
    BY <1>2, CharacterShifts

LEMMA NewlinePlaced ==
    ASSUME NEW a \in Nat, NEW b \in Nat, NEW cells
    PROVE  Placed(Shown(a, b, cells), "newline") = Shown(0, b + 1, cells)
  BY DEF Placed, Shown

LEMMA BackspacePlaced ==
    ASSUME NEW a \in 0 .. VGA_WIDTH, NEW b \in Nat, NEW cells
    PROVE  \E d \in 0 .. VGA_WIDTH - 1, e \in 0 .. b :
              /\ Placed(Shown(a, b, cells), "backspace") = Shown(d, e, Put(cells, d, e, "other"))
              /\ \/ Position(d, e) = Position(a, b) - 1
                 \/ a = 0 /\ b = 0 /\ d = 0 /\ e = 0
  <1> DEFINE s == Shown(a, b, cells)
  <1>1. Placed(s, "backspace") = Back(s)
    BY DEF Placed
  <1>2. VGA_WIDTH \in Nat /\ VGA_WIDTH - 1 \in Nat /\ a \in Int
    BY ScreenAssumption
  <1>3. s.x = a /\ s.y = b /\ s.cell = cells
    BY DEF Shown
  <1>4. CASE a > 0
    <2>1. Back(s) = Shown(a - 1, b, Put(cells, a - 1, b, "other"))
      <3> DEFINE u == [s EXCEPT !.x = a - 1]
      <3>1. Back(s) = [u EXCEPT !.cell = Put(cells, u.x, u.y, "other")]
        BY <1>3, <1>4 DEF Back
      <3>2. u = Shown(a - 1, b, cells)
        BY DEF Shown
      <3>3. QED
        BY <3>1, <3>2 DEF Shown
    <2>2. a - 1 \in 0 .. VGA_WIDTH - 1 /\ b \in 0 .. b
      BY <1>2, <1>4
    <2>3. Position(a - 1, b) = Position(a, b) - 1
      BY <1>2, PositionSteps
    <2>4. QED
      BY <1>1, <2>1, <2>2, <2>3
  <1>5. CASE a = 0 /\ b > 0
    <2>1. Back(s) = Shown(VGA_WIDTH - 1, b - 1, Put(cells, VGA_WIDTH - 1, b - 1, "other"))
      <3> DEFINE u == [s EXCEPT !.x = VGA_WIDTH - 1, !.y = b - 1]
      <3>1. Back(s) = [u EXCEPT !.cell = Put(cells, u.x, u.y, "other")]
        BY <1>3, <1>5 DEF Back
      <3>2. u = Shown(VGA_WIDTH - 1, b - 1, cells)
        <4> DEFINE t == [s EXCEPT !.x = VGA_WIDTH - 1]
        <4>1. t = Shown(VGA_WIDTH - 1, b, cells)
          BY DEF Shown
        <4>2. [t EXCEPT !.y = b - 1] = Shown(VGA_WIDTH - 1, b - 1, cells)
          <5> HIDE DEF t
          <5>1. QED
            BY <4>1 DEF Shown
        <4>3. QED
          BY <4>2
      <3>3. QED
        BY <3>1, <3>2 DEF Shown
    <2>2. VGA_WIDTH - 1 \in 0 .. VGA_WIDTH - 1 /\ b - 1 \in 0 .. b
      BY <1>2, <1>5
    <2>3. Position(VGA_WIDTH - 1, b - 1) = Position(a, b) - 1
      BY <1>2, <1>5, PositionSteps
    <2>4. QED
      BY <1>1, <2>1, <2>2, <2>3
  <1>6. CASE a = 0 /\ b = 0
    <2>1. Back(s) = Shown(0, 0, Put(cells, 0, 0, "other"))
      BY <1>6 DEF Back, Shown
    <2>2. 0 \in 0 .. VGA_WIDTH - 1 /\ 0 \in 0 .. b
      BY <1>2
    <2>3. QED
      BY <1>1, <1>6, <2>1, <2>2
  <1>7. QED
    BY <1>2, <1>4, <1>5, <1>6

(* The end of putc, for a cursor at most one column and one row too far.   *)
LEMMA WrappedIs ==
    ASSUME NEW a \in Nat, NEW b \in Nat, NEW cells
    PROVE  Wrapped(Shown(a, b, cells))
              = IF a >= VGA_WIDTH THEN Shown(0, b + 1, cells) ELSE Shown(a, b, cells)
  <1> DEFINE s == Shown(a, b, cells)
  <1>1. s.x = a /\ s.y = b
    BY DEF Shown
  <1>2. [s EXCEPT !.x = 0, !.y = b + 1] = Shown(0, b + 1, cells)
    <2> DEFINE t == [s EXCEPT !.x = 0]
    <2>1. t = Shown(0, b, cells)
      BY DEF Shown
    <2>2. [t EXCEPT !.y = b + 1] = Shown(0, b + 1, cells)
      <3> HIDE DEF t
      <3>1. QED
        BY <2>1 DEF Shown
    <2>3. QED
      BY <2>2
  <1>3. QED
    BY <1>1, <1>2 DEF Wrapped

LEMMA ScrolledIs ==
    ASSUME NEW a \in Nat, NEW b \in Nat, NEW cells \in [Cells -> Characters]
    PROVE  LET e == Scrolled(Shown(a, b, cells))
           IN  /\ e.x = a
               /\ e.y = IF b >= VGA_HEIGHT THEN b - 1 ELSE b
               /\ e.cell \in [Cells -> Characters]
               /\ b < VGA_HEIGHT => e.cell = cells
               /\ b >= VGA_HEIGHT => \A c \in Cells \ LastRow : e.cell[c] = cells[c + VGA_WIDTH]
  <1> DEFINE s == Shown(a, b, cells)
  <1>1. CASE b < VGA_HEIGHT
    BY <1>1, ScreenAssumption DEF Scrolled, Shown
  <1>2. CASE b >= VGA_HEIGHT
    <2> DEFINE up == [c \in Cells |-> IF c \in LastRow THEN "other" ELSE cells[c + VGA_WIDTH]]
    <2>1. Scrolled(s) = Shown(a, b - 1, up)
      BY <1>2 DEF Scrolled, scrollback, Shown
    <2>2. ASSUME NEW c \in Cells \ LastRow PROVE c + VGA_WIDTH \in Cells
      <3>1. VGA_WIDTH * (VGA_HEIGHT - 1) = VGA_WIDTH * VGA_HEIGHT - VGA_WIDTH
        BY ScreenAssumption
      <3>2. VGA_WIDTH * VGA_HEIGHT \in Int
        BY ScreenAssumption
      <3>3. c < VGA_WIDTH * (VGA_HEIGHT - 1)
        BY ScreenAssumption DEF Cells, LastRow
      <3>4. QED
        BY <3>1, <3>2, <3>3, ScreenAssumption DEF Cells
    <2>3. up \in [Cells -> Characters]
      BY <2>2 DEF Characters
    <2>4. b >= VGA_HEIGHT /\ ~(b < VGA_HEIGHT)
      BY <1>2, ScreenAssumption
    <2>5. QED
      BY <2>1, <2>3, <2>4 DEF Shown
  <1>3. QED
    BY <1>1, <1>2, ScreenAssumption

Settled(s) == Scrolled(Wrapped(s))

LEMMA WrapKeepsPosition ==
    ASSUME NEW a \in 0 .. VGA_WIDTH, NEW b \in Nat
    PROVE  Position(IF a >= VGA_WIDTH THEN 0 ELSE a, IF a >= VGA_WIDTH THEN b + 1 ELSE b) = Position(a, b)
  <1>1. VGA_WIDTH \in Nat
    BY ScreenAssumption
  <1>2. CASE a = VGA_WIDTH
    BY <1>1, <1>2, PositionSteps
  <1>3. CASE a < VGA_WIDTH
    BY <1>1, <1>3
  <1>4. QED
    BY <1>1, <1>2, <1>3

LEMMA SettledBounds ==
    ASSUME NEW a \in 0 .. VGA_WIDTH + 1, NEW b \in 0 .. VGA_HEIGHT + 1,
           a >= VGA_WIDTH => b <= VGA_HEIGHT,
           NEW cells \in [Cells -> Characters]
    PROVE  LET e == Settled(Shown(a, b, cells))
           IN  /\ e.x \in 0 .. VGA_WIDTH - 1 /\ e.y \in 0 .. VGA_HEIGHT
               /\ e.cell \in [Cells -> Characters]
               /\ b < VGA_HEIGHT \/ (b = VGA_HEIGHT /\ a < VGA_WIDTH) => e.y < VGA_HEIGHT
               /\ e.y >= VGA_HEIGHT - 1 \/ (e.y >= b /\ (a <= VGA_WIDTH => Position(e.x, e.y) = Position(a, b)))
  <1> DEFINE p == IF a >= VGA_WIDTH THEN 0 ELSE a
             q == IF a >= VGA_WIDTH THEN b + 1 ELSE b
             e == Settled(Shown(a, b, cells))
  <1>1. VGA_WIDTH \in Nat \ {0} /\ VGA_HEIGHT \in Nat \ {0, 1} /\ a \in Nat /\ b \in Nat
    BY ScreenAssumption
  <1>2. p \in 0 .. VGA_WIDTH - 1 /\ q \in 0 .. VGA_HEIGHT + 1 /\ p \in Nat /\ q \in Nat
    BY <1>1
  <1>3. Wrapped(Shown(a, b, cells)) = Shown(p, q, cells)
    BY <1>1, WrappedIs
  <1>4. /\ e.x = p
        /\ e.y = IF q >= VGA_HEIGHT THEN q - 1 ELSE q
        /\ e.cell \in [Cells -> Characters]
    BY <1>2, <1>3, ScrolledIs DEF Settled
  <1>5. a <= VGA_WIDTH => Position(p, q) = Position(a, b)
    BY <1>1, WrapKeepsPosition
  <1> HIDE DEF e
  <1>6. e.x \in 0 .. VGA_WIDTH - 1 /\ e.y \in 0 .. VGA_HEIGHT
    BY <1>1, <1>2, <1>4
  <1>7. b < VGA_HEIGHT \/ (b = VGA_HEIGHT /\ a < VGA_WIDTH) => e.y < VGA_HEIGHT
    BY <1>1, <1>4
  <1>8. CASE q >= VGA_HEIGHT
    BY <1>1, <1>2, <1>4, <1>6, <1>7, <1>8 DEF e
  <1>9. CASE q < VGA_HEIGHT
    <2>1. e.y = q /\ e.x = p /\ q >= b
      BY <1>1, <1>2, <1>4, <1>9
    <2>2. QED
      BY <2>1, <1>4, <1>5, <1>6, <1>7 DEF e
  <1>10. QED
    BY <1>1, <1>2, <1>8, <1>9

LEMMA SettledShown ==
    ASSUME NEW a \in Nat, NEW b \in Nat, NEW cells
    PROVE  \E d, f, u : Settled(Shown(a, b, cells)) = Shown(d, f, u)
  <1>1. PICK d, f : Wrapped(Shown(a, b, cells)) = Shown(d, f, cells)
    BY WrappedIs
  <1> DEFINE up == [c \in Cells |-> IF c \in LastRow THEN "other" ELSE cells[c + VGA_WIDTH]]
             t == [Shown(d, f, cells) EXCEPT !.cell = up]
  <1>2. scrollback(Shown(d, f, cells)) = Shown(d, f - 1, up)
    <2>1. scrollback(Shown(d, f, cells)) = [t EXCEPT !.y = f - 1]
      BY DEF scrollback, Shown
    <2> HIDE DEF up
    <2>2. t = Shown(d, f, up)
      BY DEF Shown
    <2> HIDE DEF t
    <2>3. [t EXCEPT !.y = f - 1] = Shown(d, f - 1, up)
      BY <2>2 DEF Shown
    <2>4. QED
      BY <2>1, <2>3
  <1>3. \/ Settled(Shown(a, b, cells)) = Shown(d, f, cells)
        \/ Settled(Shown(a, b, cells)) = scrollback(Shown(d, f, cells))
    BY <1>1 DEF Settled, Scrolled
  <1>4. QED
    BY <1>2, <1>3

(* Spaces take the cursor on, or the screen has scrolled.                  *)
NotBack(a, b, d, f) == f >= VGA_HEIGHT - 1 \/ (f >= b /\ Position(d, f) >= Position(a, b))

LEMMA SpaceMoves ==
    ASSUME NEW a \in 0 .. VGA_WIDTH, NEW b \in 0 .. VGA_HEIGHT, NEW cells \in [Cells -> Characters]
    PROVE  \E d \in 0 .. VGA_WIDTH - 1, f \in 0 .. VGA_HEIGHT, u \in [Cells -> Characters] :
              /\ Settled(Shifted(Shown(a, b, cells), "other")) = Shown(d, f, u)
              /\ b < VGA_HEIGHT => f < VGA_HEIGHT
              /\ f >= VGA_HEIGHT - 1 \/ (f >= b /\ (a < VGA_WIDTH => Position(d, f) = Position(a, b) + 1))
  <1> DEFINE put == Put(cells, a, b, "other")
             e == Settled(Shown(a + 1, b, put))
  <1>1. VGA_WIDTH \in Nat \ {0} /\ VGA_HEIGHT \in Nat \ {0, 1} /\ a \in Nat /\ b \in Nat
    BY ScreenAssumption
  <1>2. Settled(Shifted(Shown(a, b, cells), "other")) = e
    BY <1>1, CharacterShifts
  <1>3. put \in [Cells -> Characters]
    BY PutKeepsCells DEF Characters
  <1> HIDE DEF put
  <1>4. a + 1 \in 0 .. VGA_WIDTH + 1 /\ b \in 0 .. VGA_HEIGHT + 1 /\ b <= VGA_HEIGHT /\ a + 1 \in Nat
    BY <1>1
  <1>5. /\ e.x \in 0 .. VGA_WIDTH - 1 /\ e.y \in 0 .. VGA_HEIGHT
        /\ e.cell \in [Cells -> Characters]
        /\ b < VGA_HEIGHT => e.y < VGA_HEIGHT
        /\ e.y >= VGA_HEIGHT - 1 \/ (e.y >= b /\ (a + 1 <= VGA_WIDTH => Position(e.x, e.y) = Position(a + 1, b)))
    BY <1>3, <1>4, SettledBounds
  <1>6. PICK d, f, u : e = Shown(d, f, u)
    BY <1>1, <1>4, SettledShown
  <1>7. e.x = d /\ e.y = f /\ e.cell = u
    BY <1>6 DEF Shown
  <1>8. Position(a + 1, b) = Position(a, b) + 1 /\ (a < VGA_WIDTH => a + 1 <= VGA_WIDTH)
    BY <1>1, PositionSteps
  <1> HIDE DEF e
  <1>9. QED
    BY <1>2, <1>5, <1>6, <1>7, <1>8

LEMMA SpaceNotBack ==
    ASSUME NEW a \in 0 .. VGA_WIDTH - 1, NEW b \in 0 .. VGA_HEIGHT, NEW cells \in [Cells -> Characters], NEW i
    PROVE  \E d \in 0 .. VGA_WIDTH - 1, f \in 0 .. VGA_HEIGHT, u \in [Cells -> Characters] :
              /\ Space(Shown(a, b, cells), i) = Shown(d, f, u)
              /\ b < VGA_HEIGHT => f < VGA_HEIGHT
              /\ NotBack(a, b, d, f)
  <1>1. VGA_WIDTH \in Nat \ {0} /\ a \in 0 .. VGA_WIDTH /\ a < VGA_WIDTH /\ a \in Int /\ b \in Int
    BY ScreenAssumption
  <1>2. Position(a, b) \in Int
    BY <1>1, PositionSteps
  <1>3. CASE Space(Shown(a, b, cells), i) = Shown(a, b, cells)
    BY <1>1, <1>2, <1>3 DEF NotBack
  <1>4. CASE Space(Shown(a, b, cells), i) = Settled(Shifted(Shown(a, b, cells), "other"))
    <2>1. PICK d \in 0 .. VGA_WIDTH - 1, f \in 0 .. VGA_HEIGHT, u \in [Cells -> Characters] :
             /\ Settled(Shifted(Shown(a, b, cells), "other")) = Shown(d, f, u)
             /\ b < VGA_HEIGHT => f < VGA_HEIGHT
             /\ f >= VGA_HEIGHT - 1 \/ (f >= b /\ (a < VGA_WIDTH => Position(d, f) = Position(a, b) + 1))
      BY <1>1, SpaceMoves
    <2>2. f >= VGA_HEIGHT - 1 \/ (f >= b /\ Position(d, f) >= Position(a, b))
      <3>1. CASE f >= VGA_HEIGHT - 1
        BY <3>1
      <3>2. CASE f >= b /\ Position(d, f) = Position(a, b) + 1
        BY <1>2, <3>2
      <3>3. QED
        BY <1>1, <2>1, <3>1, <3>2
    <2>3. NotBack(a, b, d, f)
      BY <2>2 DEF NotBack
    <2>4. QED
      BY <1>4, <2>1, <2>3
  <1>5. QED
    BY <1>3, <1>4 DEF Space, Settled

LEMMA NotBackTransitive ==
    ASSUME NEW a \in Int, NEW b \in Int, NEW d \in Int, NEW f \in Int, NEW g \in Int, NEW h \in Int,
           NotBack(a, b, d, f), NotBack(d, f, g, h)
    PROVE  NotBack(a, b, g, h)
  <1>1. Position(a, b) \in Int /\ Position(d, f) \in Int /\ Position(g, h) \in Int /\ VGA_HEIGHT \in Int
    BY PositionSteps, ScreenAssumption
  <1>2. QED
    BY <1>1 DEF NotBack

(* A tab is at least one space.                                            *)
LEMMA SpacesMove ==
    ASSUME NEW a \in 0 .. VGA_WIDTH, NEW b \in 0 .. VGA_HEIGHT, NEW cells \in [Cells -> Characters]
    PROVE  \E d \in 0 .. VGA_WIDTH - 1, f \in 0 .. VGA_HEIGHT, u \in [Cells -> Characters] :
              /\ Spaces(Shown(a, b, cells)) = Shown(d, f, u)
              /\ b < VGA_HEIGHT => f < VGA_HEIGHT
              /\ f >= VGA_HEIGHT - 1 \/ (a < VGA_WIDTH => Position(d, f) >= Position(a, b) + 1)
  <1> DEFINE s == Shown(a, b, cells)
  <1>1. VGA_WIDTH \in Nat \ {0} /\ VGA_HEIGHT \in Nat \ {0, 1} /\ a \in Nat /\ b \in Nat
    BY ScreenAssumption
  <1>2. Space(s, 0) = Settled(Shifted(s, "other"))
    <2>1. a % 4 \in 0 .. 3 /\ s.x = a
      BY <1>1 DEF Shown
    <2>2. 0 < TAB - (s.x % TAB)
      BY <2>1 DEF TAB
    <2>3. QED
      BY <2>2 DEF Space, Settled
  <1>3. PICK d1 \in 0 .. VGA_WIDTH - 1, f1 \in 0 .. VGA_HEIGHT, u1 \in [Cells -> Characters] :
           /\ Settled(Shifted(s, "other")) = Shown(d1, f1, u1)
           /\ b < VGA_HEIGHT => f1 < VGA_HEIGHT
           /\ f1 >= VGA_HEIGHT - 1 \/ (f1 >= b /\ (a < VGA_WIDTH => Position(d1, f1) = Position(a, b) + 1))
    BY SpaceMoves
  <1>4. PICK d2 \in 0 .. VGA_WIDTH - 1, f2 \in 0 .. VGA_HEIGHT, u2 \in [Cells -> Characters] :
           /\ Space(Shown(d1, f1, u1), 1) = Shown(d2, f2, u2)
           /\ f1 < VGA_HEIGHT => f2 < VGA_HEIGHT
           /\ NotBack(d1, f1, d2, f2)
    BY SpaceNotBack
  <1>5. PICK d3 \in 0 .. VGA_WIDTH - 1, f3 \in 0 .. VGA_HEIGHT, u3 \in [Cells -> Characters] :
           /\ Space(Shown(d2, f2, u2), 2) = Shown(d3, f3, u3)
           /\ f2 < VGA_HEIGHT => f3 < VGA_HEIGHT
           /\ NotBack(d2, f2, d3, f3)
    BY SpaceNotBack
  <1>6. PICK d4 \in 0 .. VGA_WIDTH - 1, f4 \in 0 .. VGA_HEIGHT, u4 \in [Cells -> Characters] :
           /\ Space(Shown(d3, f3, u3), 3) = Shown(d4, f4, u4)
           /\ f3 < VGA_HEIGHT => f4 < VGA_HEIGHT
           /\ NotBack(d3, f3, d4, f4)
    BY SpaceNotBack
  <1>7. Spaces(s) = Shown(d4, f4, u4)
    BY <1>2, <1>3, <1>4, <1>5, <1>6 DEF Spaces
  <1>8. b < VGA_HEIGHT => f4 < VGA_HEIGHT
    BY <1>3, <1>4, <1>5, <1>6
  <1>9. /\ a \in Int /\ b \in Int /\ d1 \in Int /\ f1 \in Int /\ d2 \in Int /\ f2 \in Int
        /\ d3 \in Int /\ f3 \in Int /\ d4 \in Int /\ f4 \in Int
    BY <1>1
  <1>10. NotBack(d1, f1, d4, f4)
    <2>1. NotBack(d1, f1, d3, f3)
      BY <1>4, <1>5, <1>9, NotBackTransitive
    <2>2. QED
      BY <1>6, <1>9, <2>1, NotBackTransitive
  <1>11. f4 >= VGA_HEIGHT - 1 \/ (a < VGA_WIDTH => Position(d4, f4) >= Position(a, b) + 1)
    <2>1. Position(a, b) \in Int /\ Position(d1, f1) \in Int /\ Position(d4, f4) \in Int
      BY <1>9, PositionSteps
    <2>2. f4 >= VGA_HEIGHT - 1 \/ (f4 >= f1 /\ Position(d4, f4) >= Position(d1, f1))
      BY <1>10 DEF NotBack
    <2>3. QED
      BY <1>1, <1>3, <1>9, <2>1, <2>2
  <1>12. QED
    BY <1>7, <1>8, <1>11

LEMMA SettledCells ==
    ASSUME NEW a \in 0 .. VGA_WIDTH, NEW b \in 0 .. VGA_HEIGHT - 1,
           NEW cells \in [Cells -> Characters]
    PROVE  LET e == Settled(Shown(a, b, cells))
           IN  \E d \in {0, VGA_WIDTH} :
                  /\ Position(e.x, e.y) = Position(a, b) - d
                  /\ \A c \in Cells : c < Position(e.x, e.y) => e.cell[c] = cells[c + d]
  <1> DEFINE p == IF a >= VGA_WIDTH THEN 0 ELSE a
             q == IF a >= VGA_WIDTH THEN b + 1 ELSE b
             e == Settled(Shown(a, b, cells))
  <1>1. VGA_WIDTH \in Nat \ {0} /\ VGA_HEIGHT \in Nat \ {0, 1} /\ a \in Nat /\ b \in Nat
    BY ScreenAssumption
  <1>2. p \in 0 .. VGA_WIDTH - 1 /\ q \in 0 .. VGA_HEIGHT /\ p \in Nat /\ q \in Nat
    BY <1>1
  <1>3. Wrapped(Shown(a, b, cells)) = Shown(p, q, cells)
    BY <1>1, WrappedIs
  <1>4. /\ e.x = p
        /\ e.y = IF q >= VGA_HEIGHT THEN q - 1 ELSE q
        /\ q < VGA_HEIGHT => e.cell = cells
        /\ q >= VGA_HEIGHT => \A c \in Cells \ LastRow : e.cell[c] = cells[c + VGA_WIDTH]
    BY <1>2, <1>3, ScrolledIs DEF Settled
  <1>5. Position(p, q) = Position(a, b) /\ Position(a, b) \in Int
    BY <1>1, WrapKeepsPosition, PositionSteps
  <1> HIDE DEF e
  <1>6. CASE q < VGA_HEIGHT
    <2>1. e.x = p /\ e.y = q /\ e.cell = cells
      BY <1>1, <1>2, <1>4, <1>6
    <2>2. /\ Position(e.x, e.y) = Position(a, b) - 0
          /\ \A c \in Cells : c < Position(e.x, e.y) => e.cell[c] = cells[c + 0]
      BY <2>1, <1>5 DEF Cells
    <2>3. QED
      BY <2>2 DEF e
  <1>7. CASE q = VGA_HEIGHT
    <2>1. a = VGA_WIDTH /\ p = 0 /\ e.x = 0 /\ e.y = VGA_HEIGHT - 1
      BY <1>1, <1>4, <1>7
    <2>2. Position(e.x, e.y) = Position(a, b) - VGA_WIDTH
      BY <2>1, <1>1, <1>5, <1>7, PositionSteps
    <2>3. Position(e.x, e.y) = VGA_WIDTH * (VGA_HEIGHT - 1)
      BY <2>1, <1>1 DEF Position
    <2>4. ASSUME NEW c \in Cells, c < Position(e.x, e.y) PROVE e.cell[c] = cells[c + VGA_WIDTH]
      <3>1. c \notin LastRow
        BY <2>3, <2>4, <1>1 DEF Cells, LastRow
      <3>2. QED
        BY <3>1, <1>1, <1>4, <1>7
    <2>5. QED
      BY <2>2, <2>4 DEF e
  <1>8. QED
    BY <1>2, <1>1, <1>6, <1>7

-----------------------------------------------------------------------------
(* The handler's putc as a step.                                           *)
LEMMA EchoKeepsBounds ==
    ASSUME x \in 0 .. VGA_WIDTH, y \in 0 .. VGA_HEIGHT, cell \in [Cells -> Characters],
           NEW c \in Keys \cup {"newline", "backspace"}, Echo(c)
    PROVE  /\ x' \in 0 .. VGA_WIDTH - 1 /\ y' \in 0 .. VGA_HEIGHT
           /\ cell' \in [Cells -> Characters]
           /\ y < VGA_HEIGHT => y' < VGA_HEIGHT
           /\ \/ y' >= VGA_HEIGHT - 1
              \/ c = "newline" /\ y' >= 1
              \/ c = "backspace" /\ Position(x', y') >= Position(x, y) - 1
              \/ c \in Keys /\ (x < VGA_WIDTH => Position(x', y') >= Position(x, y) + 1)
  <1> DEFINE s == Shown(x, y, cell)
             e == Settled(Placed(s, c))
  <1>1. VGA_WIDTH \in Nat \ {0} /\ VGA_HEIGHT \in Nat \ {0, 1} /\ x \in Nat /\ y \in Nat
    BY ScreenAssumption
  <1>2. x' = e.x /\ y' = e.y /\ cell' = e.cell
    BY DEF Echo, Shown, Settled
  <1> HIDE DEF e
  <1>3. CASE c = "newline"
    <2>1. e = Settled(Shown(0, y + 1, cell))
      BY <1>1, <1>3, NewlinePlaced DEF e
    <2>2. /\ e.x \in 0 .. VGA_WIDTH - 1 /\ e.y \in 0 .. VGA_HEIGHT
          /\ e.cell \in [Cells -> Characters]
          /\ y + 1 < VGA_HEIGHT \/ y + 1 = VGA_HEIGHT => e.y < VGA_HEIGHT
          /\ e.y >= VGA_HEIGHT - 1 \/ e.y >= y + 1
      <3>1. y + 1 \in 0 .. VGA_HEIGHT + 1 /\ 0 \in 0 .. VGA_WIDTH + 1 /\ ~(0 >= VGA_WIDTH)
        BY <1>1
      <3>2. QED
        BY <1>1, <2>1, <3>1, SettledBounds
    <2>3. QED
      BY <1>1, <1>2, <1>3, <2>2
  <1>4. CASE c = "backspace"
    <2>1. PICK d \in 0 .. VGA_WIDTH - 1, f \in 0 .. y :
             /\ Placed(s, c) = Shown(d, f, Put(cell, d, f, "other"))
             /\ Position(d, f) = Position(x, y) - 1 \/ (x = 0 /\ y = 0 /\ d = 0 /\ f = 0)
      BY <1>1, <1>4, BackspacePlaced
    <2>2. Put(cell, d, f, "other") \in [Cells -> Characters]
      BY PutKeepsCells DEF Characters
    <2>3. d \in 0 .. VGA_WIDTH + 1 /\ f \in 0 .. VGA_HEIGHT + 1 /\ f <= VGA_HEIGHT /\ d < VGA_WIDTH /\ d <= VGA_WIDTH
      BY <1>1
    <2>4. /\ e.x \in 0 .. VGA_WIDTH - 1 /\ e.y \in 0 .. VGA_HEIGHT
          /\ e.cell \in [Cells -> Characters]
          /\ f < VGA_HEIGHT \/ f = VGA_HEIGHT => e.y < VGA_HEIGHT
          /\ e.y >= VGA_HEIGHT - 1 \/ Position(e.x, e.y) = Position(d, f)
      BY <2>1, <2>2, <2>3, SettledBounds DEF e
    <2>5. Position(d, f) >= Position(x, y) - 1
      <3>1. Position(d, f) \in Int /\ Position(x, y) \in Int
        BY <1>1, <2>3, PositionSteps
      <3>2. Position(d, f) = Position(x, y) - 1 \/ Position(d, f) = Position(x, y)
        BY <2>1
      <3>3. QED
        BY <3>1, <3>2
    <2>6. QED
      BY <1>1, <1>2, <1>4, <2>3, <2>4, <2>5
  <1>5. CASE c \in Letters
    <2>1. Placed(s, c) = Shown(x + 1, y, Put(cell, x, y, c))
      BY <1>1, <1>5, LetterPlaced
    <2>2. Put(cell, x, y, c) \in [Cells -> Characters]
      BY <1>5, PutKeepsCells DEF Characters
    <2>3. x + 1 \in 0 .. VGA_WIDTH + 1 /\ y \in 0 .. VGA_HEIGHT + 1 /\ y <= VGA_HEIGHT
      BY <1>1
    <2>4. /\ e.x \in 0 .. VGA_WIDTH - 1 /\ e.y \in 0 .. VGA_HEIGHT
          /\ e.cell \in [Cells -> Characters]
          /\ y < VGA_HEIGHT => e.y < VGA_HEIGHT
          /\ e.y >= VGA_HEIGHT - 1 \/ (x + 1 <= VGA_WIDTH => Position(e.x, e.y) = Position(x + 1, y))
      BY <2>1, <2>2, <2>3, SettledBounds DEF e
    <2>5. Position(x + 1, y) = Position(x, y) + 1 /\ (x < VGA_WIDTH => x + 1 <= VGA_WIDTH)
      BY <1>1, PositionSteps
    <2>6. Position(x, y) \in Int
      BY <1>1, PositionSteps
    <2>7. e.y >= VGA_HEIGHT - 1 \/ (x < VGA_WIDTH => Position(e.x, e.y) >= Position(x, y) + 1)
      BY <2>4, <2>5, <2>6
    <2>8. QED
      BY <1>2, <1>5, <2>4, <2>7 DEF Keys
  <1>6. CASE c = "tab"
    <2>1. PICK d \in 0 .. VGA_WIDTH - 1, f \in 0 .. VGA_HEIGHT, u \in [Cells -> Characters] :
             /\ Spaces(s) = Shown(d, f, u)
             /\ y < VGA_HEIGHT => f < VGA_HEIGHT
             /\ f >= VGA_HEIGHT - 1 \/ (x < VGA_WIDTH => Position(d, f) >= Position(x, y) + 1)
      BY SpacesMove
    <2>2. e = Settled(Shown(d, f, u))
      BY <1>6, <2>1 DEF e, Placed
    <2>3. d \in 0 .. VGA_WIDTH + 1 /\ f \in 0 .. VGA_HEIGHT + 1 /\ f <= VGA_HEIGHT /\ d < VGA_WIDTH /\ d <= VGA_WIDTH
      BY <1>1
    <2>4. /\ e.x \in 0 .. VGA_WIDTH - 1 /\ e.y \in 0 .. VGA_HEIGHT
          /\ e.cell \in [Cells -> Characters]
          /\ f < VGA_HEIGHT \/ f = VGA_HEIGHT => e.y < VGA_HEIGHT
          /\ e.y >= VGA_HEIGHT - 1 \/ (e.y >= f /\ Position(e.x, e.y) = Position(d, f))
      BY <2>2, <2>3, SettledBounds
    <2>5. e.y < VGA_HEIGHT
      BY <1>1, <2>3, <2>4
    <2>6. e.y >= VGA_HEIGHT - 1 \/ (x < VGA_WIDTH => Position(e.x, e.y) >= Position(x, y) + 1)
      BY <1>1, <2>1, <2>3, <2>4
    <2>7. QED
      BY <1>2, <1>6, <2>4, <2>5, <2>6 DEF Keys
  <1>7. QED
    BY <1>3, <1>4, <1>5, <1>6 DEF Keys

(* What setcursor writes fits the registers and names the position.        *)
LEMMA SplitPosition ==
    ASSUME NEW p \in Nat, p < VGA_WIDTH * (VGA_HEIGHT + 1)
    PROVE  /\ p % RADIX \in 0 .. RADIX - 1
           /\ p \div RADIX \in 0 .. RADIX - 1
           /\ (p % RADIX) + RADIX * (p \div RADIX) = p
  <1>1. RADIX \in Nat /\ RADIX \in Int /\ RADIX > 0 /\ p \in Int /\ VGA_WIDTH * (VGA_HEIGHT + 1) \in Nat
    BY ScreenAssumption
  <1>2. RADIX * RADIX \in Nat /\ p < RADIX * RADIX
    BY <1>1, RegisterAssumption
  <1>3. p % RADIX \in 0 .. RADIX - 1 /\ p \div RADIX \in Nat
    BY <1>1
  <1>4. p = RADIX * (p \div RADIX) + (p % RADIX)
    BY <1>1
  <1>5. p \div RADIX < RADIX
    <2> DEFINE d == p \div RADIX
    <2>1. d \in Nat /\ RADIX * d \in Nat /\ RADIX * d <= p
      BY <1>1, <1>3
    <2> HIDE DEF d
    <2>2. ASSUME d >= RADIX PROVE FALSE
      <3>1. d - RADIX \in Nat
        BY <1>1, <2>1, <2>2
      <3>2. RADIX * (d - RADIX) \in Nat /\ RADIX * (d - RADIX) = RADIX * d - RADIX * RADIX
        BY <1>1, <2>1, <3>1
      <3>3. QED
        BY <1>2, <2>1, <3>2
    <2>3. QED
      BY <1>1, <2>1, <2>2 DEF d
  <1>6. QED
    BY <1>1, <1>3, <1>4, <1>5

LEMMA PositionFits ==
    ASSUME NEW a \in 0 .. VGA_WIDTH - 1, NEW b \in 0 .. VGA_HEIGHT
    PROVE  Position(a, b) \in Nat /\ Position(a, b) < VGA_WIDTH * (VGA_HEIGHT + 1)
  <1>1. b \in Nat /\ b + 1 \in Int /\ VGA_HEIGHT + 1 \in Int /\ b + 1 <= VGA_HEIGHT + 1
    BY ScreenAssumption
  <1>2. Position(a, b) \in Nat /\ Position(a, b) < VGA_WIDTH * (b + 1)
    BY <1>1, PositionBounds
  <1>3. VGA_WIDTH * (b + 1) \in Int /\ VGA_WIDTH * (b + 1) <= VGA_WIDTH * (VGA_HEIGHT + 1)
    BY <1>1, RowsInOrder
  <1>4. VGA_WIDTH * (VGA_HEIGHT + 1) \in Int
    BY ScreenAssumption
  <1>5. QED
    BY <1>2, <1>3, <1>4

Registers == [index : {Low, High}, low : 0 .. RADIX - 1, high : 0 .. RADIX - 1]
Shows(r, a, b) == r.low + RADIX * r.high = Position(a, b)

LEMMA SetcursorShows ==
    ASSUME NEW a \in 0 .. VGA_WIDTH - 1, NEW b \in 0 .. VGA_HEIGHT
    PROVE  setcursor(a, b) \in Registers /\ Shows(setcursor(a, b), a, b)
  <1> DEFINE p == Position(a, b)
  <1>1. setcursor(a, b) = [index |-> High, low |-> p % RADIX, high |-> p \div RADIX]
    BY DEF setcursor
  <1>2. /\ p % RADIX \in 0 .. RADIX - 1
        /\ p \div RADIX \in 0 .. RADIX - 1
        /\ (p % RADIX) + RADIX * (p \div RADIX) = p
    BY PositionFits, SplitPosition
  <1> HIDE DEF p
  <1>3. QED
    BY <1>1, <1>2 DEF p, Registers, Shows

-----------------------------------------------------------------------------
(* Where the shell is in putc: behind the store of x the cursor may be one *)
(* column too far, and behind the store of y one row, until the shell or a *)
(* key in between has wrapped and scrolled.  A value the shell has loaded  *)
(* was on the screen, even if the cursor has moved on since.  While rows   *)
(* scroll up the user's line ends below the first row, so that the row     *)
(* that is loaded then is never the first.                                 *)
Places == {"busy", "poll", "clear", "clear_y", "newline", "return", "tab", "putchar",
           "putchar_x", "putchar_store",
           "load_x", "store_x", "load_y", "store_y", "wrap", "wrap_y", "wrap_x", "bottom",
           "scroll", "store_scrolled", "position"} \cup SettingCursor

ShellInPutc ==
    /\ pc \in Places
    /\ pc \notin {"wrap", "wrap_y", "wrap_x"} => x < VGA_WIDTH
    /\ pc \notin {"wrap", "wrap_x", "bottom", "scroll", "store_scrolled"} => y < VGA_HEIGHT
    /\ pc = "wrap" /\ x = VGA_WIDTH => y < VGA_HEIGHT
    /\ pc # "tab" => tab # TAB
Loaded ==
    /\ pc = "store_x" => reg < VGA_WIDTH
    /\ pc \in {"store_y", "wrap_y"} => reg < VGA_HEIGHT
    /\ pc = "store_scrolled" => reg \in 1 .. VGA_HEIGHT
    /\ pc = "position_x" => reg <= VGA_WIDTH * VGA_HEIGHT
    /\ pc \in SettingCursor => reg < VGA_WIDTH * (VGA_HEIGHT + 1)
LineBelowFirstRow ==
    /\ Len(line) <= MaxLine
    /\ pc = "scroll" => Position(x, y) - Len(line) >= VGA_WIDTH

CursorInv == TypeOK /\ ShellInPutc /\ Loaded /\ LineBelowFirstRow

LEMMA FarDown ==
    ASSUME NEW a \in 0 .. VGA_WIDTH - 1, NEW b \in Nat, b >= VGA_HEIGHT - 1,
           NEW n \in Nat, n <= MaxLine
    PROVE  Position(a, b) - n >= VGA_WIDTH
  <1>1. VGA_WIDTH \in Nat /\ VGA_HEIGHT \in Nat /\ MaxLine \in Nat /\ MaxLine <= VGA_WIDTH * (VGA_HEIGHT - 2)
    BY ScreenAssumption, LineAssumption
  <1>2. VGA_WIDTH * (VGA_HEIGHT - 1) \in Int /\ VGA_WIDTH * (VGA_HEIGHT - 1) <= VGA_WIDTH * b
    BY <1>1, RowsInOrder
  <1>3. /\ VGA_WIDTH * (VGA_HEIGHT - 2) \in Int /\ VGA_WIDTH * b \in Int
        /\ VGA_WIDTH * (VGA_HEIGHT - 1) = VGA_WIDTH * (VGA_HEIGHT - 2) + VGA_WIDTH
    BY <1>1
  <1>4. Position(a, b) \in Nat /\ Position(a, b) >= VGA_WIDTH * b
    BY PositionBounds
  <1>5. QED
    BY <1>1, <1>2, <1>3, <1>4

LEMMA InitCursorInv == Init => CursorInv
  <1> SUFFICES ASSUME Init PROVE CursorInv
    OBVIOUS
  <1>1. VGA_WIDTH \in Nat \ {0} /\ VGA_HEIGHT \in Nat \ {0, 1} /\ RADIX \in Nat \ {0} /\ MaxLine \in Nat
    BY ScreenAssumption, LineAssumption
  <1>2. TypeOK
    <2>1. x \in 0 .. VGA_WIDTH /\ y \in 0 .. VGA_HEIGHT /\ reg \in Nat /\ k \in Nat
      BY <1>1 DEF Init
    <2>2. cell \in [Cells -> Letters \cup {"other"}] /\ line \in Seq(Keys) /\ tab = NoTab
      BY DEF Init
    <2>3. crtc \in [index : {Low, High}, low : 0 .. RADIX - 1, high : 0 .. RADIX - 1]
      BY <1>1 DEF Init
    <2>4. QED
      BY <2>1, <2>2, <2>3 DEF TypeOK
  <1>3. ShellInPutc /\ Loaded
    <2>1. x < VGA_WIDTH /\ y < VGA_HEIGHT /\ tab # TAB
      BY <1>1, ScreenAssumption DEF Init, NoTab, TAB
    <2>2. QED
      BY <2>1 DEF Init, ShellInPutc, Loaded, Places, SettingCursor
  <1>4. LineBelowFirstRow
    BY <1>1 DEF Init, LineBelowFirstRow
  <1>5. QED
    BY <1>2, <1>3, <1>4 DEF CursorInv

LEMMA FrontProperties ==
    ASSUME NEW S, NEW s \in Seq(S), s # <<>>
    PROVE  /\ Front(s) \in Seq(S) /\ Len(Front(s)) = Len(s) - 1 /\ Len(s) \in Nat \ {0}
           /\ \A i \in 1 .. Len(s) - 1 : Front(s)[i] = s[i]
  <1>1. Len(s) \in Nat \ {0} /\ s \in [1 .. Len(s) -> S]
    BY EmptySeq, LenProperties
  <1> DEFINE n == Len(s) - 1
  <1>2. n \in Nat /\ Len(s) = n + 1 /\ \A i \in 1 .. n : s[i] \in S
    BY <1>1
  <1>3. Front(s) = SubSeq(s, 1, n)
    BY DEF Front
  <1> HIDE DEF n
  <1>4. /\ SubSeq(s, 1, n) \in Seq(S)
        /\ Len(SubSeq(s, 1, n)) = IF 1 <= n THEN n - 1 + 1 ELSE 0
        /\ \A i \in 1 .. n - 1 + 1 : SubSeq(s, 1, n)[i] = s[1 + i - 1]
    BY <1>2, SubSeqProperties
  <1>5. \A i \in 1 .. n : SubSeq(s, 1, n)[i] = s[i]
    BY <1>2, <1>4
  <1>6. QED
    BY <1>1, <1>2, <1>3, <1>4, <1>5

(* A key, wherever the shell is.                                           *)
LEMMA KeyKeepsCursorInv ==
    ASSUME CursorInv, keyboard_handler
    PROVE  CursorInv'
  <1>1. VGA_WIDTH \in Nat \ {0} /\ VGA_HEIGHT \in Nat \ {0, 1} /\ MaxLine \in Nat
    BY ScreenAssumption, LineAssumption
  <1>2. PICK c \in Keys \cup {"newline", "backspace"} :
           /\ Echo(c)
           /\ line' \in Seq(Keys) /\ Len(line') <= MaxLine
           /\ c = "newline" => Len(line') = 0
           /\ c = "backspace" => Len(line') = Len(line) - 1
           /\ c \in Keys => Len(line') = Len(line) + 1
    <2>1. line \in Seq(Keys) /\ Len(line) \in Nat /\ Len(line) <= MaxLine
      BY LenProperties DEF CursorInv, TypeOK, LineBelowFirstRow
    <2>2. CASE \E c \in Keys : Len(line) < MaxLine /\ line' = Append(line, c) /\ Echo(c)
      <3>1. PICK c \in Keys : Len(line) < MaxLine /\ line' = Append(line, c) /\ Echo(c)
        BY <2>2
      <3>2. line' \in Seq(Keys) /\ Len(line') = Len(line) + 1
        BY <2>1, <3>1, AppendProperties
      <3>3. c # "newline" /\ c # "backspace"
        BY ScreenAssumption DEF Keys
      <3>4. QED
        BY <1>1, <2>1, <3>1, <3>2, <3>3
    <2>3. CASE line # <<>> /\ line' = Front(line) /\ Echo("backspace")
      <3>1. Len(line) \in Nat \ {0}
        BY <2>1, <2>3, EmptySeq
      <3>2. line' \in Seq(Keys) /\ Len(line') = Len(line) - 1
        BY <2>1, <2>3, FrontProperties
      <3>3. "backspace" \notin Keys
        BY ScreenAssumption DEF Keys
      <3>4. QED
        BY <1>1, <2>1, <2>3, <3>2, <3>3
    <2>4. CASE line' = <<>> /\ Echo("newline")
      <3>1. line' \in Seq(Keys) /\ Len(line') = 0
        BY <2>4, EmptySeq
      <3>2. "newline" \notin Keys
        BY ScreenAssumption DEF Keys
      <3>3. QED
        BY <1>1, <2>4, <3>1, <3>2
    <2>5. QED
      BY <2>2, <2>3, <2>4 DEF keyboard_handler
  <1>3. x \in 0 .. VGA_WIDTH /\ y \in 0 .. VGA_HEIGHT /\ cell \in [Cells -> Characters]
    BY DEF CursorInv, TypeOK, Characters
  <1>4. UNCHANGED <<pc, reg, k, tab>>
    BY <1>2 DEF Echo, shell
  <1>5. /\ x' \in 0 .. VGA_WIDTH - 1 /\ y' \in 0 .. VGA_HEIGHT
        /\ cell' \in [Cells -> Characters]
        /\ y < VGA_HEIGHT => y' < VGA_HEIGHT
        /\ \/ y' >= VGA_HEIGHT - 1
           \/ c = "newline" /\ y' >= 1
           \/ c = "backspace" /\ Position(x', y') >= Position(x, y) - 1
           \/ c \in Keys /\ (x < VGA_WIDTH => Position(x', y') >= Position(x, y) + 1)
    BY <1>2, <1>3, EchoKeepsBounds
  <1>6. TypeOK'
    <2>1. crtc' \in [index : {Low, High}, low : 0 .. RADIX - 1, high : 0 .. RADIX - 1]
      <3>1. crtc' = setcursor(x', y')
        BY <1>2 DEF Echo
      <3>2. setcursor(x', y') \in Registers
        BY <1>5, SetcursorShows
      <3>3. QED
        BY <3>1, <3>2 DEF Registers
    <2>2. x' \in 0 .. VGA_WIDTH /\ y' \in 0 .. VGA_HEIGHT
      BY <1>1, <1>5
    <2>3. reg' \in Nat /\ k' \in Nat /\ tab' \in {NoTab} \cup 0 .. TAB
      BY <1>4 DEF CursorInv, TypeOK
    <2>4. QED
      BY <1>2, <1>5, <2>1, <2>2, <2>3 DEF TypeOK, Characters
  <1>7. ShellInPutc'
    <2>1. x' < VGA_WIDTH /\ x' # VGA_WIDTH
      BY <1>1, <1>5
    <2>2. QED
      BY <1>4, <1>5, <2>1 DEF CursorInv, ShellInPutc
  <1>8. Loaded'
    BY <1>4 DEF CursorInv, Loaded
  <1>9. LineBelowFirstRow'
    <2> SUFFICES ASSUME pc = "scroll" PROVE Position(x', y') - Len(line') >= VGA_WIDTH
      BY <1>2, <1>4 DEF LineBelowFirstRow
    <2>1. Len(line) \in Nat /\ Len(line') \in Nat
      BY <1>2, LenProperties DEF CursorInv, TypeOK
    <2>2. x < VGA_WIDTH /\ Position(x, y) - Len(line) >= VGA_WIDTH
      BY DEF CursorInv, ShellInPutc, LineBelowFirstRow
    <2>3. Position(x, y) \in Int /\ Position(x', y') \in Int /\ y' \in Nat
      BY <1>1, <1>3, <1>5, PositionSteps
    <2>4. CASE y' >= VGA_HEIGHT - 1
      BY <1>2, <1>5, <2>1, <2>3, <2>4, FarDown
    <2>5. CASE c = "newline" /\ y' >= 1
      <3>1. VGA_WIDTH * 1 \in Int /\ VGA_WIDTH * 1 <= VGA_WIDTH * y' /\ VGA_WIDTH * 1 = VGA_WIDTH
        <4>1. 1 \in Int /\ y' \in Int /\ 1 <= y'
          BY <2>3, <2>5
        <4>2. VGA_WIDTH * 1 \in Int /\ VGA_WIDTH * 1 <= VGA_WIDTH * y'
          BY <4>1, RowsInOrder
        <4>3. QED
          BY <1>1, <4>2
      <3>2. Position(x', y') >= VGA_WIDTH * y' /\ VGA_WIDTH * y' \in Int
        <4>1. PICK a : a = x'
          OBVIOUS
        <4>2. PICK b : b = y'
          OBVIOUS
        <4>3. a \in 0 .. VGA_WIDTH - 1 /\ b \in Nat /\ VGA_WIDTH \in Nat
          BY <1>1, <1>5, <2>3, <4>1, <4>2
        <4>4. Position(a, b) >= VGA_WIDTH * b
          BY <4>3, PositionBounds
        <4>5. VGA_WIDTH * b \in Int
          BY <4>3
        <4>6. QED
          BY <4>1, <4>2, <4>4, <4>5
      <3>3. PICK p, w : p = Position(x', y') /\ w = VGA_WIDTH * y'
        OBVIOUS
      <3>4. p \in Int /\ w \in Int /\ p >= w /\ w >= VGA_WIDTH
        BY <1>1, <2>3, <3>1, <3>2, <3>3
      <3>5. p >= VGA_WIDTH /\ Len(line') = 0
        BY <1>1, <1>2, <2>5, <3>4
      <3>6. p - 0 >= VGA_WIDTH
        BY <1>1, <3>4, <3>5
      <3>7. QED
        BY <3>3, <3>5, <3>6
    <2>6. CASE c = "backspace" /\ Position(x', y') >= Position(x, y) - 1
      BY <1>1, <1>2, <2>1, <2>2, <2>3, <2>6
    <2>7. CASE c \in Keys /\ (x < VGA_WIDTH => Position(x', y') >= Position(x, y) + 1)
      BY <1>1, <1>2, <2>1, <2>2, <2>3, <2>7
    <2>8. QED
      BY <1>5, <2>4, <2>5, <2>6, <2>7
  <1>10. QED
    BY <1>6, <1>7, <1>8, <1>9 DEF CursorInv

(* The shell's steps.                                                      *)
LEMMA ShellKeepsCursorInv ==
    ASSUME CursorInv, Shell
    PROVE  CursorInv'
  <1> USE ScreenAssumption DEF typed
  <1>1. CASE \E c \in Output : PutC(c)
    <2>1. TypeOK'
      BY <1>1 DEF PutC, At, screen, NoTab, TAB, CursorInv, TypeOK, ShellInPutc, Loaded
    <2>2. ShellInPutc'
      BY <1>1 DEF PutC, At, screen, NoTab, TAB, CursorInv, TypeOK, ShellInPutc, Loaded, Places
    <2>3. Loaded'
      BY <1>1 DEF PutC, At, screen, NoTab, TAB, CursorInv, TypeOK, ShellInPutc, Loaded, SettingCursor
    <2>4. LineBelowFirstRow'
      BY <1>1 DEF PutC, At, screen, NoTab, TAB, CursorInv, LineBelowFirstRow
    <2>5. QED
      BY <2>1, <2>2, <2>3, <2>4 DEF CursorInv
  <1>2. CASE TabLoop
    <2>1. TypeOK'
      BY <1>2 DEF TabLoop, screen, NoTab, TAB, CursorInv, TypeOK, ShellInPutc, Loaded
    <2>2. ShellInPutc'
      BY <1>2 DEF TabLoop, screen, NoTab, TAB, CursorInv, TypeOK, ShellInPutc, Loaded, Places
    <2>3. Loaded'
      BY <1>2 DEF TabLoop, screen, NoTab, TAB, CursorInv, TypeOK, ShellInPutc, Loaded, SettingCursor
    <2>4. LineBelowFirstRow'
      BY <1>2 DEF TabLoop, screen, NoTab, TAB, CursorInv, LineBelowFirstRow
    <2>5. QED
      BY <2>1, <2>2, <2>3, <2>4 DEF CursorInv
  <1>3. CASE PutChar
    <2>1. TypeOK'
      <3>1. cell' \in [Cells -> Characters]
        BY <1>3 DEF PutChar, Load, PutAt, screen, CursorInv, TypeOK, Characters
      <3>2. Position(0, y) \in Nat /\ reg + x \in Nat
        BY PositionFits DEF CursorInv, TypeOK
      <3>3. reg' \in Nat
        BY <1>3, <3>2 DEF PutChar, Load
      <3>4. UNCHANGED <<x, y, crtc, k, tab, line>>
        BY <1>3 DEF PutChar, Load, screen, typed
      <3>5. QED
        BY <3>1, <3>3, <3>4 DEF CursorInv, TypeOK, Characters
    <2>2. ShellInPutc'
      BY <1>3 DEF PutChar, Load, At, screen, CursorInv, TypeOK, ShellInPutc, Loaded, Places
    <2>3. Loaded'
      BY <1>3 DEF PutChar, Load, At, screen, CursorInv, TypeOK, ShellInPutc, Loaded, SettingCursor
    <2>4. LineBelowFirstRow'
      BY <1>3 DEF PutChar, Load, At, screen, CursorInv, LineBelowFirstRow
    <2>5. QED
      BY <2>1, <2>2, <2>3, <2>4 DEF CursorInv
  <1>4. CASE MoveCursor
    <2>1. TypeOK'
      BY <1>4 DEF MoveCursor, Load, StoreX, StoreY, At, screen, CursorInv, TypeOK, ShellInPutc, Loaded
    <2>2. ShellInPutc'
      BY <1>4 DEF MoveCursor, Load, StoreX, StoreY, At, screen, CursorInv, TypeOK, ShellInPutc, Loaded, Places
    <2>3. Loaded'
      BY <1>4 DEF MoveCursor, Load, StoreX, StoreY, At, screen, CursorInv, TypeOK, ShellInPutc, Loaded, SettingCursor
    <2>4. LineBelowFirstRow'
      BY <1>4 DEF MoveCursor, Load, StoreX, StoreY, At, screen, CursorInv, LineBelowFirstRow
    <2>5. QED
      BY <2>1, <2>2, <2>3, <2>4 DEF CursorInv
  <1>5. CASE Wrap
    <2>1. TypeOK'
      BY <1>5 DEF Wrap, Load, StoreX, StoreY, At, screen, CursorInv, TypeOK, ShellInPutc, Loaded
    <2>2. ShellInPutc'
      BY <1>5 DEF Wrap, Load, StoreX, StoreY, At, screen, CursorInv, TypeOK, ShellInPutc, Loaded, Places
    <2>3. Loaded'
      BY <1>5 DEF Wrap, Load, StoreX, StoreY, At, screen, CursorInv, TypeOK, ShellInPutc, Loaded, SettingCursor
    <2>4. LineBelowFirstRow'
      BY <1>5 DEF Wrap, Load, StoreX, StoreY, At, screen, CursorInv, LineBelowFirstRow
    <2>5. QED
      BY <2>1, <2>2, <2>3, <2>4 DEF CursorInv
  <1>6. CASE Bottom
    <2>1. TypeOK'
      BY <1>6 DEF Bottom, At, screen, CursorInv, TypeOK, ShellInPutc, Loaded
    <2>2. ShellInPutc'
      BY <1>6 DEF Bottom, At, screen, CursorInv, TypeOK, ShellInPutc, Loaded, Places
    <2>3. Loaded'
      BY <1>6 DEF Bottom, At, screen, CursorInv, TypeOK, ShellInPutc, Loaded, SettingCursor
    <2>4. LineBelowFirstRow'
      <3>1. Len(line) \in Nat /\ Len(line) <= MaxLine
        BY LenProperties DEF CursorInv, TypeOK, LineBelowFirstRow
      <3>2. ASSUME pc' = "scroll" PROVE Position(x, y) - Len(line) >= VGA_WIDTH
        <4>1. pc = "bottom" /\ y >= VGA_HEIGHT
          BY <1>6, <3>2 DEF Bottom, At
        <4>2. x \in 0 .. VGA_WIDTH - 1 /\ y \in Nat /\ y >= VGA_HEIGHT - 1
          BY <4>1 DEF CursorInv, TypeOK, ShellInPutc
        <4>3. QED
          BY <3>1, <4>2, FarDown
      <3>3. QED
        BY <1>6, <3>1, <3>2 DEF Bottom, screen, LineBelowFirstRow
    <2>5. QED
      BY <2>1, <2>2, <2>3, <2>4 DEF CursorInv
  <1>7. CASE ScrollCell
    <2>1. TypeOK'
      <3>1. k \in Cells /\ k \notin LastRow => k + VGA_WIDTH \in Cells
        <4>1. VGA_WIDTH * (VGA_HEIGHT - 1) = VGA_WIDTH * VGA_HEIGHT - VGA_WIDTH
          OBVIOUS
        <4>2. VGA_WIDTH * VGA_HEIGHT \in Int
          OBVIOUS
        <4>3. QED
          BY <4>1, <4>2 DEF Cells, LastRow
      <3>2. cell' \in [Cells -> Characters]
        BY <1>7, <3>1 DEF ScrollCell, CursorInv, TypeOK, Characters
      <3>3. QED
        BY <1>7, <3>2 DEF ScrollCell, CursorInv, TypeOK, Characters
    <2>2. ShellInPutc'
      BY <1>7 DEF ScrollCell, CursorInv, TypeOK, ShellInPutc, Loaded, Places
    <2>3. Loaded'
      BY <1>7 DEF ScrollCell, CursorInv, TypeOK, ShellInPutc, Loaded, SettingCursor
    <2>4. LineBelowFirstRow'
      BY <1>7 DEF ScrollCell, CursorInv, LineBelowFirstRow
    <2>5. QED
      BY <2>1, <2>2, <2>3, <2>4 DEF CursorInv
  <1>8. CASE ScrollUp
    <2>1. TypeOK'
      BY <1>8 DEF ScrollUp, Load, StoreY, At, screen, CursorInv, TypeOK, ShellInPutc, Loaded
    <2>2. ShellInPutc'
      BY <1>8 DEF ScrollUp, Load, StoreY, At, screen, CursorInv, TypeOK, ShellInPutc, Loaded, Places
    <2>3. Loaded'
      <3>1. CASE pc = "scroll"
        <4>1. y \in 1 .. VGA_HEIGHT
          <5>1. Len(line) \in Nat /\ Position(x, y) - Len(line) >= VGA_WIDTH
            BY <3>1, LenProperties DEF CursorInv, TypeOK, LineBelowFirstRow
          <5>2. x \in 0 .. VGA_WIDTH - 1 /\ x \in Int /\ y \in 0 .. VGA_HEIGHT
            BY <3>1 DEF CursorInv, TypeOK, ShellInPutc
          <5>3. y = 0 => Position(x, y) = x
            BY <5>2 DEF Position
          <5>4. QED
            BY <5>1, <5>2, <5>3
        <4>2. QED
          BY <1>8, <3>1, <4>1 DEF ScrollUp, Load, StoreY, At, Loaded, SettingCursor
      <3>2. CASE pc # "scroll"
        BY <1>8, <3>2 DEF ScrollUp, Load, StoreY, At, Loaded, SettingCursor
      <3>3. QED
        BY <3>1, <3>2
    <2>4. LineBelowFirstRow'
      BY <1>8 DEF ScrollUp, Load, StoreY, At, screen, CursorInv, LineBelowFirstRow
    <2>5. QED
      BY <2>1, <2>2, <2>3, <2>4 DEF CursorInv
  <1>9. CASE SetCursor
    <2>1. TypeOK'
      <3>2. reg' \in Nat
        BY <1>9 DEF SetCursor, At, CursorInv, TypeOK
      <3>3. crtc' \in Registers
        <4>1. crtc \in Registers /\ reg \in Nat
          BY DEF CursorInv, TypeOK, Registers
        <4>2. pc \in {"low", "high"} => reg % RADIX \in 0 .. RADIX - 1 /\ reg \div RADIX \in 0 .. RADIX - 1
          BY <4>1, SplitPosition DEF CursorInv, Loaded, SettingCursor
        <4>3. ASSUME NEW v \in 0 .. RADIX - 1, WriteData(v) PROVE crtc' \in Registers
          BY <4>1, <4>3 DEF WriteData, Registers
        <4>4. [crtc EXCEPT !.index = Low] \in Registers /\ [crtc EXCEPT !.index = High] \in Registers
          BY <4>1 DEF Registers
        <4>5. \/ crtc' = crtc
              \/ crtc' = [crtc EXCEPT !.index = Low] \/ crtc' = [crtc EXCEPT !.index = High]
              \/ pc = "low" /\ WriteData(reg % RADIX)
              \/ pc = "high" /\ WriteData(reg \div RADIX)
          BY <1>9 DEF SetCursor, At
        <4>6. CASE pc = "low" /\ WriteData(reg % RADIX)
          BY <4>2, <4>3, <4>6
        <4>7. CASE pc = "high" /\ WriteData(reg \div RADIX)
          BY <4>2, <4>3, <4>7
        <4>8. QED
          BY <4>1, <4>4, <4>5, <4>6, <4>7
      <3>4. tab' \in {NoTab} \cup 0 .. TAB
        <4>1. tab' = tab \/ (pc = "high" /\ tab' = IF tab = NoTab THEN NoTab ELSE tab + 1)
          BY <1>9 DEF SetCursor, At
        <4>2. tab \in {NoTab} \cup 0 .. TAB /\ (pc = "high" => tab # TAB)
          BY DEF CursorInv, TypeOK, ShellInPutc
        <4>3. TAB \in Nat
          BY DEF TAB
        <4>4. QED
          BY <4>1, <4>2, <4>3
      <3>5. UNCHANGED <<x, y, cell, k, line>>
        BY <1>9 DEF SetCursor
      <3>6. QED
        BY <3>2, <3>3, <3>4, <3>5 DEF CursorInv, TypeOK, Registers
    <2>2. ShellInPutc'
      BY <1>9 DEF SetCursor, At, AfterPutc, WriteData, NoTab, TAB, CursorInv, TypeOK, ShellInPutc, Loaded, Places, SettingCursor
    <2>3. Loaded'
      BY <1>9 DEF SetCursor, At, AfterPutc, CursorInv, Loaded, SettingCursor
    <2>4. LineBelowFirstRow'
      BY <1>9 DEF SetCursor, At, AfterPutc, WriteData, NoTab, CursorInv, LineBelowFirstRow
    <2>5. QED
      BY <2>1, <2>2, <2>3, <2>4 DEF CursorInv
  <1>10. CASE Clear
    <2>1. TypeOK'
      <3>1. x' \in 0 .. VGA_WIDTH /\ y' \in 0 .. VGA_HEIGHT
        BY <1>10, ScreenAssumption DEF Clear, StoreX, StoreY, screen, CursorInv, TypeOK
      <3>2. cell' \in [Cells -> Letters \cup {"other"}]
        BY <1>10 DEF Clear, StoreX, StoreY, screen, CursorInv, TypeOK
      <3>3. k' \in Nat /\ reg' \in Nat
        BY <1>10 DEF Clear, StoreX, StoreY, screen, CursorInv, TypeOK
      <3>4. UNCHANGED <<crtc, tab, line>>
        BY <1>10 DEF Clear, StoreX, StoreY, screen
      <3>5. QED
        BY <3>1, <3>2, <3>3, <3>4 DEF CursorInv, TypeOK
    <2>2. ShellInPutc'
      BY <1>10 DEF Clear, StoreX, StoreY, At, screen, CursorInv, TypeOK, ShellInPutc, Loaded, Places
    <2>3. Loaded'
      BY <1>10 DEF Clear, StoreX, StoreY, At, screen, CursorInv, TypeOK, ShellInPutc, Loaded, SettingCursor
    <2>4. LineBelowFirstRow'
      BY <1>10 DEF Clear, StoreX, StoreY, At, screen, CursorInv, LineBelowFirstRow
    <2>5. QED
      BY <2>1, <2>2, <2>3, <2>4 DEF CursorInv
  <1>11. CASE Ask \/ Answered
    <2>1. TypeOK'
      <3>1. line' \in Seq(Keys)
        <4>1. line' = <<>> \/ line' = line
          BY <1>11 DEF Ask, Answered
        <4>2. <<>> \in Seq(Keys) /\ line \in Seq(Keys)
          BY EmptySeq DEF CursorInv, TypeOK
        <4>3. QED
          BY <4>1, <4>2
      <3>2. UNCHANGED <<x, y, cell, crtc, reg, k, tab>>
        BY <1>11 DEF Ask, Answered, screen
      <3>3. QED
        BY <3>1, <3>2 DEF CursorInv, TypeOK
    <2>2. ShellInPutc'
      BY <1>11 DEF Ask, Answered, At, screen, CursorInv, TypeOK, ShellInPutc, Loaded, Places
    <2>3. Loaded'
      BY <1>11 DEF Ask, Answered, At, screen, CursorInv, TypeOK, ShellInPutc, Loaded, SettingCursor
    <2>4. LineBelowFirstRow'
      <3>1. Len(line') <= MaxLine
        BY <1>11, EmptySeq, LineAssumption DEF Ask, Answered, CursorInv, LineBelowFirstRow
      <3>2. QED
        BY <1>11, <3>1 DEF Ask, Answered, At, LineBelowFirstRow
    <2>5. QED
      BY <2>1, <2>2, <2>3, <2>4 DEF CursorInv
  <1>12. CASE LoadPosition
    <2>1. x \in 0 .. VGA_WIDTH - 1 /\ y \in 0 .. VGA_HEIGHT /\ reg \in Nat
      BY <1>12 DEF LoadPosition, At, CursorInv, TypeOK, ShellInPutc
    <2>2. /\ VGA_WIDTH * VGA_HEIGHT \in Nat /\ VGA_WIDTH \in Nat /\ x \in Nat /\ x < VGA_WIDTH
          /\ VGA_WIDTH * (VGA_HEIGHT + 1) = VGA_WIDTH * VGA_HEIGHT + VGA_WIDTH
      BY <2>1
    <2>3. Position(0, y) \in Nat /\ Position(0, y) <= VGA_WIDTH * VGA_HEIGHT
      <3>1. VGA_WIDTH * y \in Nat /\ Position(0, y) = VGA_WIDTH * y
        BY <2>1, <2>2 DEF Position
      <3>2. y \in Int /\ VGA_HEIGHT \in Int /\ y <= VGA_HEIGHT
        BY <2>1
      <3>3. QED
        BY <3>1, <3>2, RowsInOrder
    <2>4. pc = "position_x" => reg <= VGA_WIDTH * VGA_HEIGHT
      BY DEF CursorInv, Loaded
    <2>5. \/ pc = "position" /\ pc' = "position_x" /\ reg' = Position(0, y)
          \/ pc = "position_x" /\ pc' = "low_index" /\ reg' = reg + x
      BY <1>12 DEF LoadPosition, At
    <2>6. UNCHANGED <<x, y, cell, crtc, k, tab, line>>
      BY <1>12 DEF LoadPosition, screen, typed
    <2>7. reg' \in Nat /\ reg' < VGA_WIDTH * (VGA_HEIGHT + 1)
      BY <2>2, <2>3, <2>4, <2>5, <2>1
    <2>8. TypeOK'
      BY <2>6, <2>7 DEF CursorInv, TypeOK
    <2>9. ShellInPutc'
      BY <2>5, <2>6 DEF CursorInv, ShellInPutc, Places, SettingCursor
    <2>10. Loaded'
      BY <2>3, <2>5, <2>7 DEF Loaded, SettingCursor
    <2>11. LineBelowFirstRow'
      BY <2>5, <2>6 DEF CursorInv, LineBelowFirstRow
    <2>12. QED
      BY <2>8, <2>9, <2>10, <2>11 DEF CursorInv
  <1>13. QED
    BY <1>1, <1>2, <1>3, <1>4, <1>5, <1>6, <1>7, <1>8, <1>9, <1>10, <1>11, <1>12 DEF Shell

LEMMA NextCursorInv == CursorInv /\ [Next]_vars => CursorInv'
  <1>1. ASSUME CursorInv, UNCHANGED vars PROVE CursorInv'
    BY <1>1 DEF vars, CursorInv, TypeOK, ShellInPutc, Loaded, LineBelowFirstRow
  <1>2. QED
    BY <1>1, KeyKeepsCursorInv, ShellKeepsCursorInv DEF Next

(* The cursor stays within one row of the screen, and is on it whenever no *)
(* putc is under way.                                                      *)
THEOREM CursorStaysOnScreen == Spec => []CursorOnScreen
  <1>1. CursorInv => CursorOnScreen
    BY DEF CursorInv, ShellInPutc, CursorOnScreen
  <1>2. QED
    BY InitCursorInv, NextCursorInv, <1>1, PTL DEF Spec
-----------------------------------------------------------------------------
(* While the shell is in setcursor and no key has come, the value it holds *)
(* is where the cursor is, and the registers hold what it has written.     *)
RegistersOnTheWay ==
    ~torn =>
        /\ pc = "position_x" => reg = Position(0, y)
        /\ pc \in SettingCursor \ {"position_x"} => reg = Position(x, y)
        /\ pc = "low" => crtc.index = Low
        /\ pc \in {"high_index", "high"} => crtc.low = reg % RADIX
        /\ pc = "high" => crtc.index = High

ShownInv == RegistersOnTheWay /\ CursorShown

LEMMA InitShownInv == Init => ShownInv
  BY ScreenAssumption DEF Init, ShownInv, RegistersOnTheWay, CursorShown, SettingCursor, Position

LEMMA NextShownInv == CursorInv /\ ShownInv /\ [Next]_vars => ShownInv'
  <1> SUFFICES ASSUME CursorInv, ShownInv, [Next]_vars PROVE ShownInv'
    OBVIOUS
  <1> USE ScreenAssumption DEF typed
  <1>1. CASE keyboard_handler
    <2>1. PICK c \in Keys \cup {"newline", "backspace"} : Echo(c)
      BY <1>1 DEF keyboard_handler
    <2>2. x \in 0 .. VGA_WIDTH /\ y \in 0 .. VGA_HEIGHT /\ cell \in [Cells -> Characters]
      BY DEF CursorInv, TypeOK, Characters
    <2>3. x' \in 0 .. VGA_WIDTH - 1 /\ y' \in 0 .. VGA_HEIGHT
      BY <2>1, <2>2, EchoKeepsBounds
    <2>4. Shows(crtc', x', y')
      BY <2>1, <2>3, SetcursorShows DEF Echo
    <2>5. pc' = pc /\ (pc \in SettingCursor => torn')
      BY <2>1 DEF Echo, shell
    <2>6. RegistersOnTheWay'
      BY <2>5 DEF RegistersOnTheWay, SettingCursor
    <2>7. CursorShown'
      BY <2>4 DEF CursorShown, Shows
    <2>8. QED
      BY <2>6, <2>7 DEF ShownInv
  <1>2. CASE SetCursor
    <2>1. RegistersOnTheWay'
      <3>1. pc \in {"low_index", "low", "high_index", "high"} /\ UNCHANGED <<x, y>>
        BY <1>2 DEF SetCursor, At
      <3>2. RegistersOnTheWay'
        <4> SUFFICES ASSUME ~torn' PROVE RegistersOnTheWay'
          BY DEF RegistersOnTheWay
        <4>1. ~torn /\ RegistersOnTheWay /\ crtc \in Registers
          BY <1>2 DEF SetCursor, At, ShownInv, CursorInv, TypeOK, Registers
        <4>2. Position(x', y') = Position(x, y)
          BY <3>1
        <4>3. CASE pc = "low_index"
          BY <1>2, <4>1, <4>2, <4>3 DEF SetCursor, At, AfterPutc, RegistersOnTheWay, SettingCursor, Registers
        <4>4. CASE pc = "low"
          BY <1>2, <4>1, <4>2, <4>4 DEF SetCursor, At, AfterPutc, RegistersOnTheWay, SettingCursor, WriteData, Registers
        <4>5. CASE pc = "high_index"
          BY <1>2, <4>1, <4>2, <4>5 DEF SetCursor, At, AfterPutc, RegistersOnTheWay, SettingCursor, Registers
        <4>6. CASE pc = "high"
          BY <1>2, <4>1, <4>6 DEF SetCursor, At, AfterPutc, RegistersOnTheWay, SettingCursor
        <4>7. QED
          BY <3>1, <4>3, <4>4, <4>5, <4>6
      <3>3. QED
        BY <3>2
    <2>2. ASSUME pc = "high", ~torn PROVE crtc'.low + RADIX * crtc'.high = Position(x, y)
      <3>1. reg \in Nat /\ reg < VGA_WIDTH * (VGA_HEIGHT + 1) /\ reg = Position(x, y)
        BY <2>2 DEF CursorInv, TypeOK, Loaded, ShownInv, RegistersOnTheWay, SettingCursor
      <3>2. (reg % RADIX) + RADIX * (reg \div RADIX) = reg
        BY <3>1, SplitPosition
      <3>3. crtc'.low = reg % RADIX /\ crtc'.high = reg \div RADIX
        BY <1>2, <2>2 DEF SetCursor, At, WriteData, CursorInv, TypeOK, ShownInv, RegistersOnTheWay, Low, High
      <3>4. QED
        BY <3>1, <3>2, <3>3
    <2>3. CursorShown'
      <3>1. ASSUME pc' \in {"busy", "poll"}, ~torn' PROVE crtc'.low + RADIX * crtc'.high = Position(x', y')
        <4>1. pc = "high" /\ ~torn /\ UNCHANGED <<x, y>>
          BY <1>2, <3>1 DEF SetCursor, At, AfterPutc
        <4>2. QED
          BY <2>2, <4>1 DEF Position
      <3>2. QED
        BY <3>1 DEF CursorShown
    <2>4. QED
      BY <2>1, <2>3 DEF ShownInv
  <1>3. ASSUME UNCHANGED <<crtc, torn>>, pc' \notin SettingCursor,
               pc' \in {"busy", "poll"} => pc \in {"busy", "poll"} /\ UNCHANGED <<x, y>>
        PROVE  ShownInv'
    BY <1>3 DEF ShownInv, RegistersOnTheWay, CursorShown, SettingCursor, Position
  <1>7. CASE LoadPosition
    <2>1. UNCHANGED <<x, y, crtc>>
      BY <1>7 DEF LoadPosition, screen
    <2>2. \/ pc' = "position_x" /\ reg' = Position(0, y)
          \/ pc = "position_x" /\ pc' = "low_index" /\ reg' = reg + x /\ torn' = torn
      BY <1>7 DEF LoadPosition, At
    <2>3. Position(0, y) + x = Position(x, y)
      BY DEF CursorInv, TypeOK, Position
    <2>4. RegistersOnTheWay'
      <3>1. CASE pc' = "position_x" /\ reg' = Position(0, y)
        BY <2>1, <3>1 DEF RegistersOnTheWay, Position
      <3>2. CASE pc = "position_x" /\ pc' = "low_index" /\ reg' = reg + x /\ torn' = torn
        BY <2>1, <2>3, <3>2 DEF ShownInv, RegistersOnTheWay, Position
      <3>3. QED
        BY <2>2, <3>1, <3>2
    <2>5. CursorShown'
      BY <2>2 DEF CursorShown
    <2>6. QED
      BY <2>4, <2>5 DEF ShownInv
  <1>4. CASE Shell /\ ~SetCursor /\ ~LoadPosition
    <2>1. /\ UNCHANGED <<crtc, torn>>
          /\ pc' \notin SettingCursor
          /\ pc' \in {"busy", "poll"} => pc \in {"busy", "poll"} /\ UNCHANGED <<x, y>>
      <3>1. CASE \E c \in Output : PutC(c)
        BY <3>1 DEF PutC, At, screen, SettingCursor
      <3>2. CASE TabLoop
        BY <3>2 DEF TabLoop, screen, SettingCursor
      <3>3. CASE PutChar
        BY <3>3 DEF PutChar, Load, At, screen, SettingCursor
      <3>4. CASE MoveCursor
        BY <3>4 DEF MoveCursor, Load, StoreX, StoreY, At, screen, SettingCursor
      <3>5. CASE Wrap
        BY <3>5 DEF Wrap, Load, StoreX, StoreY, At, screen, SettingCursor
      <3>6. CASE Bottom
        BY <3>6 DEF Bottom, At, screen, SettingCursor
      <3>7. CASE ScrollCell
        BY <3>7 DEF ScrollCell, SettingCursor
      <3>8. CASE ScrollUp
        BY <3>8 DEF ScrollUp, Load, StoreY, At, screen, SettingCursor
      <3>9. CASE Clear
        BY <3>9 DEF Clear, StoreX, StoreY, At, screen, SettingCursor
      <3>10. CASE Ask \/ Answered
        BY <3>10 DEF Ask, Answered, At, screen, SettingCursor
      <3>11. QED
        BY <1>4, <3>1, <3>2, <3>3, <3>4, <3>5, <3>6, <3>7, <3>8, <3>9, <3>10 DEF Shell
    <2>2. QED
      BY <2>1, <1>3
  <1>5. CASE UNCHANGED vars
    BY <1>5 DEF vars, ShownInv, RegistersOnTheWay, CursorShown, SettingCursor, Position
  <1>6. QED
    BY <1>1, <1>2, <1>4, <1>5, <1>7 DEF Next

(* The cursor blinks where the next character goes, unless a key came      *)
(* while the shell was passing it to the controller.                       *)
THEOREM CursorIsShown == Spec => []CursorShown
  <1>1. Init => CursorInv /\ ShownInv
    BY InitCursorInv, InitShownInv
  <1>2. CursorInv /\ ShownInv /\ [Next]_vars => (CursorInv /\ ShownInv)'
    BY NextCursorInv, NextShownInv
  <1>3. ShownInv => CursorShown
    BY DEF ShownInv
  <1>4. QED
    BY <1>1, <1>2, <1>3, PTL DEF Spec
-----------------------------------------------------------------------------
(* At the prompt a key moves the line with the cursor.                     *)
LineOnScreen(a, b, cells, l) ==
    \A j \in 1 .. Len(l) :
        LET c == Position(a, b) - Len(l) + j - 1
        IN  c \in Cells => cells[c] = l[j]

LEMMA LetterEchoed ==
    ASSUME CursorInv, x < VGA_WIDTH, y < VGA_HEIGHT, LineOnScreen(x, y, cell, line),
           NEW c \in Letters, line' = Append(line, c), Echo(c)
    PROVE  LineOnScreen(x', y', cell', line')
  <1> DEFINE p == Position(x, y)
             put == Put(cell, x, y, c)
             e == Settled(Placed(Shown(x, y, cell), c))
             q == Position(x', y')
             n == Len(line)
  <1>1. VGA_WIDTH \in Nat \ {0} /\ VGA_HEIGHT \in Nat \ {0, 1} /\ x \in 0 .. VGA_WIDTH - 1 /\ y \in 0 .. VGA_HEIGHT - 1
        /\ x \in Nat /\ y \in Nat
    BY ScreenAssumption DEF CursorInv, TypeOK
  <1>2. cell \in [Cells -> Characters] /\ line \in Seq(Keys)
    BY DEF CursorInv, TypeOK, Characters
  <1>3. put \in [Cells -> Characters] /\ p \in Cells
    BY <1>1, <1>2, PutKeepsCells, PositionBounds DEF Characters
  <1>4. x' = e.x /\ y' = e.y /\ cell' = e.cell
    BY DEF Echo, Shown, Settled
  <1>5. e = Settled(Shown(x + 1, y, put))
    BY <1>1, LetterPlaced
  <1>6. x + 1 \in 0 .. VGA_WIDTH /\ Position(x + 1, y) = p + 1
    BY <1>1, PositionSteps
  <1> HIDE DEF e
  <1>7. PICK d \in {0, VGA_WIDTH} :
           /\ q = (p + 1) - d
           /\ \A i \in Cells : i < q => cell'[i] = put[i + d]
    <2>1. \E d \in {0, VGA_WIDTH} :
             /\ Position(e.x, e.y) = Position(x + 1, y) - d
             /\ \A i \in Cells : i < Position(e.x, e.y) => e.cell[i] = put[i + d]
      BY <1>1, <1>3, <1>5, <1>6, SettledCells
    <2>2. q = Position(e.x, e.y) /\ cell' = e.cell
      BY <1>4
    <2>3. QED
      <3> HIDE DEF p, q, put
      <3>1. QED
        BY <2>1, <2>2, <1>6
  <1>8. n \in Nat /\ Len(line') = n + 1 /\ line'[n + 1] = c /\ \A j \in 1 .. n : line'[j] = line[j]
    BY <1>2, LenProperties, AppendProperties
  <1>9. d \in Nat /\ p \in Nat /\ q \in Int
    BY <1>1, <1>3, <1>7 DEF Cells
  <1>10. put = [cell EXCEPT ![p] = c]
    BY <1>3 DEF Put, PutAt
  <1>11. \A j \in 1 .. n : p - n + j - 1 \in Cells => cell[p - n + j - 1] = line[j]
    BY DEF LineOnScreen
  <1> HIDE DEF p, q, n, put
  <1>12. ASSUME NEW j \in 1 .. n + 1, NEW i, i = q - (n + 1) + j - 1, i \in Cells
         PROVE  cell'[i] = line'[j]
    <2>1. i < q /\ i + d = p - n + j - 1 /\ i + d <= p
      BY <1>7, <1>8, <1>9, <1>12
    <2>2. cell'[i] = put[i + d]
      BY <1>7, <1>12, <2>1
    <2>3. i + d \in Cells
      <3>1. VGA_WIDTH * VGA_HEIGHT \in Int
        BY <1>1
      <3>2. i \in Int /\ 0 <= i /\ p <= VGA_WIDTH * VGA_HEIGHT - 1
        BY <1>3, <1>12, <3>1 DEF Cells
      <3>3. i + d \in Int /\ 0 <= i + d /\ i + d <= VGA_WIDTH * VGA_HEIGHT - 1
        BY <1>9, <2>1, <3>1, <3>2
      <3>4. QED
        BY <3>1, <3>3 DEF Cells
    <2>4. CASE j = n + 1
      <3>1. i + d = p
        BY <1>8, <1>9, <2>1, <2>4
      <3>2. QED
        BY <1>2, <1>3, <1>8, <1>10, <2>2, <2>4, <3>1
    <2>5. CASE j \in 1 .. n
      <3>1. i + d # p /\ cell[i + d] = line[j]
        BY <1>8, <1>9, <1>11, <2>1, <2>3, <2>5
      <3>2. QED
        BY <1>2, <1>8, <1>10, <2>2, <2>3, <2>5, <3>1
    <2>6. QED
      BY <1>8, <1>12, <2>4, <2>5
  <1>13. QED
    BY <1>8, <1>12 DEF LineOnScreen, q

LEMMA BackspaceEchoed ==
    ASSUME CursorInv, x < VGA_WIDTH, y < VGA_HEIGHT, LineOnScreen(x, y, cell, line),
           line # <<>>, line' = Front(line), Echo("backspace")
    PROVE  LineOnScreen(x', y', cell', line')
  <1> DEFINE p == Position(x, y)
             s == Shown(x, y, cell)
             q == Position(x', y')
             n == Len(line)
  <1>1. VGA_WIDTH \in Nat \ {0} /\ VGA_HEIGHT \in Nat \ {0, 1} /\ x \in 0 .. VGA_WIDTH /\ y \in 0 .. VGA_HEIGHT - 1
        /\ x \in Nat /\ y \in Nat
    BY ScreenAssumption DEF CursorInv, TypeOK
  <1>2. cell \in [Cells -> Characters] /\ line \in Seq(Keys)
    BY DEF CursorInv, TypeOK, Characters
  <1>3. PICK a \in 0 .. VGA_WIDTH - 1, b \in 0 .. y :
           /\ Placed(s, "backspace") = Shown(a, b, Put(cell, a, b, "other"))
           /\ Position(a, b) = p - 1 \/ (x = 0 /\ y = 0 /\ a = 0 /\ b = 0)
    BY <1>1, BackspacePlaced
  <1> DEFINE put == Put(cell, a, b, "other")
  <1>4. a \in Nat /\ b \in Nat /\ a < VGA_WIDTH /\ b < VGA_HEIGHT /\ put \in [Cells -> Characters]
    BY <1>1, <1>2, <1>3, PutKeepsCells DEF Characters
  <1>5. x' = a /\ y' = b /\ cell' = put
    <2> DEFINE e == Scrolled(Wrapped(Placed(s, "backspace")))
    <2>1. x' = e.x /\ y' = e.y /\ cell' = e.cell
      BY DEF Echo, Shown
    <2>2. Wrapped(Shown(a, b, put)) = Shown(a, b, put)
      BY <1>1, <1>4, WrappedIs
    <2>3. e = Scrolled(Shown(a, b, put))
      BY <1>3, <2>2
    <2> HIDE DEF e, put
    <2>4. e.x = a /\ e.y = b /\ e.cell = put
      BY <1>1, <1>4, <2>3, ScrolledIs
    <2>5. QED
      BY <2>1, <2>4
  <1>6. n \in Nat \ {0} /\ Len(line') = n - 1 /\ \A j \in 1 .. n - 1 : line'[j] = line[j]
    BY <1>2, FrontProperties
  <1>7. q = Position(a, b) /\ q \in Cells
    BY <1>4, <1>5, PositionBounds
  <1>8. put = [cell EXCEPT ![q] = "other"]
    BY <1>7 DEF Put, PutAt
  <1>9. \A j \in 1 .. n : p - n + j - 1 \in Cells => cell[p - n + j - 1] = line[j]
    BY DEF LineOnScreen
  <1>10. q = p - 1 \/ q = 0
    BY <1>3, <1>7, <1>1 DEF Position
  <1>11. p \in Int /\ q \in Nat
    BY <1>1, <1>7, PositionSteps DEF Cells
  <1> HIDE DEF p, q, n, put
  <1>12. ASSUME NEW j \in 1 .. n - 1, NEW i, i = q - (n - 1) + j - 1, i \in Cells
         PROVE  cell'[i] = line'[j]
    <2>1. i < q /\ i \in Nat /\ i # q
      BY <1>6, <1>11, <1>12 DEF Cells
    <2>2. q = p - 1
      BY <1>10, <1>11, <2>1
    <2>3. i = p - n + j - 1 /\ j \in 1 .. n
      BY <1>6, <1>11, <1>12, <2>2
    <2>4. cell[i] = line[j]
      BY <1>9, <1>12, <2>3
    <2>5. cell'[i] = cell[i]
      BY <1>2, <1>5, <1>8, <1>12, <2>1
    <2>6. QED
      BY <1>6, <1>12, <2>4, <2>5
  <1>13. QED
    BY <1>6, <1>12 DEF LineOnScreen, q

LEMMA NextEchoShowsLine == CursorInv /\ EchoShowsLine /\ [Next]_vars => EchoShowsLine'
  <1> SUFFICES ASSUME CursorInv, EchoShowsLine, [Next]_vars, pc' = "poll", ~ready', ~tabbed'
               PROVE  LineOnScreen(x', y', cell', line')
    BY DEF EchoShowsLine, LineBeforeCursor, LineOnScreen
  <1>1. CASE keyboard_handler
    <2>1. PICK c : Echo(c)
      BY <1>1 DEF keyboard_handler
    <2>2. pc = "poll"
      BY <2>1 DEF Echo, shell
    <2>3. x < VGA_WIDTH /\ y < VGA_HEIGHT
      BY <2>2 DEF CursorInv, ShellInPutc
    <2>4. ~ready /\ ~tabbed => LineOnScreen(x, y, cell, line)
      BY <2>2 DEF EchoShowsLine, LineBeforeCursor, LineOnScreen
    <2>5. \/ \E e \in Letters : line' = Append(line, e) /\ Echo(e)
          \/ line # <<>> /\ line' = Front(line) /\ Echo("backspace")
      BY <1>1 DEF keyboard_handler, Keys
    <2>6. ~ready /\ ~tabbed
      <3>1. ready' = ready \/ ready' = TRUE
        BY <1>1 DEF keyboard_handler
      <3>2. \/ \E e \in Keys : tabbed' = (tabbed \/ e = "tab")
            \/ tabbed' = tabbed
        BY <1>1 DEF keyboard_handler
      <3>3. ~tabbed
        BY <3>2
      <3>4. QED
        BY <3>1, <3>3
    <2>7. QED
      BY <2>3, <2>4, <2>5, <2>6, LetterEchoed, BackspaceEchoed
  <1>2. CASE Ask
    <2>1. Len(line') = 0
      BY <1>2, EmptySeq DEF Ask
    <2>2. QED
      BY <2>1 DEF LineOnScreen
  <1>3. CASE UNCHANGED <<screen, typed, pc>>
    BY <1>3 DEF screen, typed, EchoShowsLine, LineBeforeCursor, LineOnScreen, Position
  <1>4. CASE Shell /\ ~Ask
    <2>1. pc' # "poll"
      BY <1>4 DEF Shell, PutC, TabLoop, PutChar, MoveCursor, Wrap, Bottom, ScrollCell, ScrollUp, LoadPosition,
                  SetCursor, Clear, Answered, Load, StoreX, StoreY, At, AfterPutc
    <2>2. QED
      BY <2>1
  <1>5. QED
    BY <1>1, <1>2, <1>3, <1>4 DEF Next, vars, screen, typed

(* The user sees the line that is being typed, as long as it has had no    *)
(* tab.                                                                    *)
THEOREM UserSeesTheLine == Spec => []EchoShowsLine
  <1>1. Init => CursorInv /\ EchoShowsLine
    BY InitCursorInv DEF Init, EchoShowsLine
  <1>2. CursorInv /\ EchoShowsLine /\ [Next]_vars => (CursorInv /\ EchoShowsLine)'
    BY NextCursorInv, NextEchoShowsLine
  <1>3. QED
    BY <1>1, <1>2, PTL DEF Spec
=============================================================================
