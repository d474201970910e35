------------------------ MODULE TerminalWindowProofs ------------------------
(***************************************************************************)
(* Proofs about TerminalWindow, for windows of every size and lines of     *)
(* every length: the next character has a cell, in a terminal nothing      *)
(* shows behind the cursor, Enter gives the shell the words that were      *)
(* typed, and the rows are the last lines of all that was printed.         *)
(***************************************************************************)
EXTENDS TerminalWindow, WellFoundedInduction, SequenceTheorems, FiniteSetTheorems, TLAPS

-----------------------------------------------------------------------------
(* Numbers. *)

(* A set of natural numbers has a least one. *)
LEMMA Least == ASSUME NEW T, T \subseteq Nat, T # {}
               PROVE  \E x \in T : \A y \in T : x <= y
<1> DEFINE R == {p \in Nat \X Nat : p[1] < p[2]}
<1>1. IsWellFoundedOn(R, Nat)
    BY NatLessThanWellFounded DEF OpToRel
<1>2. PICK x \in T : \A y \in T : ~ (<<y, x>> \in R)
  <2> HIDE DEF R
  <2> QED BY <1>1, WFMin
<1>3. \A y \in T : ~ (y < x)
    BY <1>2
<1> QED BY <1>3

(* Rows of the array follow one another. *)
LEMMA RowOrder == ASSUME NEW r \in Nat, NEW s \in Nat, r <= s
                  PROVE  /\ r * Cols \in Nat
                         /\ s * Cols \in Nat
                         /\ r * Cols <= s * Cols
                         /\ (s + 1) * Cols = s * Cols + Cols
BY GridAssumption

LEMMA CellInGrid == ASSUME NEW r \in 0 .. Rows - 1, NEW c \in 0 .. Cols - 1
                    PROVE  At(r, c) \in Cells
<1>1. Rows - 1 \in Nat /\ r <= Rows - 1 /\ Rows = (Rows - 1) + 1
    BY GridAssumption
<1>2. /\ r * Cols \in Nat /\ (Rows - 1) * Cols \in Nat
      /\ r * Cols <= (Rows - 1) * Cols
      /\ Rows * Cols = (Rows - 1) * Cols + Cols
    BY <1>1, RowOrder
<1>3. Cols * Rows = Rows * Cols
    BY GridAssumption
<1> QED BY <1>2, <1>3, GridAssumption DEF At, Cells

-----------------------------------------------------------------------------
(* The grid. *)

(* A cursor past the last column has a row below it. *)
CursorInRow == cursor_x = Cols => cursor_y < Rows - 1

LEMMA CursorHasCell == ASSUME TypeOK, CursorInRow
                       PROVE  /\ CursorOnGrid
                              /\ cursor_x + 1 < Cols => At(cursor_y, cursor_x + 1) \in Cells
<1> USE GridAssumption
<1>1. CASE cursor_x < Cols
    BY <1>1, CellInGrid DEF TypeOK, CursorOnGrid
<1>2. CASE cursor_x = Cols
  <2>1. cursor_y \in Nat /\ cursor_y + 1 \in 0 .. Rows - 1
      BY <1>2 DEF TypeOK, CursorInRow
  <2>2. At(cursor_y + 1, 0) \in Cells
      BY <2>1, CellInGrid
  <2>3. At(cursor_y + 1, 0) = At(cursor_y, Cols)
      BY <2>1, RowOrder DEF At
  <2> QED BY <1>2, <2>2, <2>3 DEF CursorOnGrid
<1> QED BY <1>1, <1>2 DEF TypeOK

LEMMA ScrollIndex == ASSUME NEW i \in Cells, i < (Rows - 1) * Cols
                     PROVE  i + Cols \in Cells
<1>1. Rows - 1 \in Nat /\ Rows = (Rows - 1) + 1
    BY GridAssumption
<1>2. (Rows - 1) * Cols \in Nat /\ Rows * Cols = (Rows - 1) * Cols + Cols
    BY <1>1, RowOrder
<1>3. Cols * Rows = Rows * Cols
    BY GridAssumption
<1> QED BY <1>2, <1>3, GridAssumption DEF Cells

LEMMA MoveOnType ==
    ASSUME NEW grid \in [Cells -> Chars \cup {Nul}],
           NEW col \in 0 .. Cols - 1, NEW row \in 0 .. Rows,
           MoveOn(grid, col, row)
    PROVE  TypeOK' /\ CursorInRow' /\ cursor_x' < Cols
<1> USE GridAssumption
<1>1. Scrolled(grid) \in [Cells -> Chars \cup {Nul}]
    BY ScrollIndex DEF Scrolled
<1>2. text_grid' \in [Cells -> Chars \cup {Nul}]
    BY <1>1 DEF MoveOn
<1>3. cursor_x' = col /\ cursor_y' \in 0 .. Rows - 1
    BY DEF MoveOn
<1> QED BY <1>2, <1>3 DEF TypeOK, CursorInRow

LEMMA PutType == ASSUME TypeOK, CursorInRow, NEW c \in Chars, Put(c)
                 PROVE  TypeOK' /\ CursorInRow' /\ cursor_x' < Cols
<1> USE GridAssumption
<1> DEFINE put == [text_grid EXCEPT ![At(cursor_y, cursor_x)] = c]
           ended == [put EXCEPT ![At(cursor_y, cursor_x + 1)] = Nul]
<1>1. put \in [Cells -> Chars \cup {Nul}]
    BY DEF TypeOK
<1>2. ended \in [Cells -> Chars \cup {Nul}]
    BY <1>1
<1>3. cursor_y \in 0 .. Rows /\ cursor_y + 1 \in 0 .. Rows /\ cursor_x \in 0 .. Cols
    BY DEF TypeOK
<1>4. CASE cursor_x + 1 < Cols
  <2>1. MoveOn(ended, cursor_x + 1, cursor_y)
      BY <1>4 DEF Put
  <2>2. cursor_x + 1 \in 0 .. Cols - 1
      BY <1>3, <1>4
  <2> HIDE DEF put, ended
  <2> QED BY <1>2, <1>3, <2>1, <2>2, MoveOnType
<1>5. CASE ~ (cursor_x + 1 < Cols)
  <2>1. MoveOn(put, 0, cursor_y + 1)
      BY <1>5 DEF Put
  <2> HIDE DEF put, ended
  <2> QED BY <1>1, <1>3, <2>1, MoveOnType
<1> QED BY <1>4, <1>5

LEMMA NewLineType == ASSUME TypeOK, NewLine
                     PROVE  TypeOK' /\ CursorInRow' /\ cursor_x' < Cols
<1>1. cursor_y + 1 \in 0 .. Rows /\ 0 \in 0 .. Cols - 1
    BY GridAssumption DEF TypeOK
<1> QED BY <1>1, MoveOnType DEF NewLine, TypeOK

(* A row's text ends in the row. *)
LEMMA TextEnds == ASSUME NEW row, NEW from \in 0 .. Cols
                  PROVE  /\ TextEnd(row, from) \in from .. Cols
                         /\ \A col \in from .. TextEnd(row, from) - 1 : text_grid[At(row, col)] # Nul
                         /\ TextEnd(row, from) < Cols => text_grid[At(row, TextEnd(row, from))] = Nul
<1> USE GridAssumption
<1> DEFINE T == {n \in from .. Cols : n < Cols => text_grid[At(row, n)] = Nul}
<1>1. T \subseteq Nat /\ Cols \in T
    OBVIOUS
<1>2. PICK n \in T : \A m \in T : n <= m
  <2> HIDE DEF T
  <2> QED BY <1>1, Least
<1>3. \A col \in from .. n - 1 : text_grid[At(row, col)] # Nul
  <2> SUFFICES ASSUME NEW col \in from .. n - 1, text_grid[At(row, col)] = Nul PROVE FALSE
      OBVIOUS
  <2> QED BY <1>2
<1>4. n \in from .. Cols /\ (n < Cols => text_grid[At(row, n)] = Nul)
    BY <1>2
<1> HIDE DEF T
<1> DEFINE Ends(m) == /\ \A col \in from .. m - 1 : text_grid[At(row, col)] # Nul
                      /\ m < Cols => text_grid[At(row, m)] = Nul
<1>5. \E m \in from .. Cols : Ends(m)
    BY <1>3, <1>4
<1> DEFINE last == CHOOSE m \in from .. Cols : Ends(m)
<1>6. last \in from .. Cols /\ Ends(last)
  <2> HIDE DEF Ends
  <2> QED BY <1>5
<1>7. TextEnd(row, from) = last
    BY DEF TextEnd
<1> HIDE DEF last
<1> QED BY <1>6, <1>7

LEMMA EraseLeftType == ASSUME TypeOK, EraseLeft
                       PROVE  TypeOK' /\ CursorInRow' /\ cursor_x' < Cols
<1> USE GridAssumption
<1>1. text_grid' \in [Cells -> Chars \cup {Nul}]
    BY DEF TypeOK, EraseLeft, Chars
<1>2. cursor_x' \in 0 .. Cols - 1 /\ cursor_y' = cursor_y
    BY DEF TypeOK, EraseLeft
<1> QED BY <1>1, <1>2 DEF TypeOK, CursorInRow

LEMMA BackspaceType == ASSUME TypeOK, CursorInRow, Backspace
                       PROVE  TypeOK' /\ CursorInRow'
<1> USE GridAssumption
<1>1. CASE EraseLeft
    BY <1>1, EraseLeftType
<1>2. CASE EraseUp
  <2>1. RowLength(cursor_y - 1) \in 0 .. Cols
      BY TextEnds DEF RowLength
  <2> QED BY <1>2, <2>1 DEF EraseUp, TypeOK, CursorInRow
<1>3. CASE EraseNothing
    BY <1>3 DEF EraseNothing, TypeOK, CursorInRow, gridVars
<1> QED BY <1>1, <1>2, <1>3 DEF Backspace

-----------------------------------------------------------------------------
(* What is behind the cursor. *)

BlankFrom(grid, cell) == \A k \in Cells : k >= cell => grid[k] \in {Blank, Nul}

LEMMA Addresses == ASSUME NEW row \in 0 .. Rows - 1, NEW col \in 0 .. Cols
                   PROVE  /\ At(row, col) \in Nat
                          /\ At(row, col + 1) = At(row, col) + 1
                          /\ col > 0 => At(row, col - 1) = At(row, col) - 1
                          /\ At(row + 1, 0) = At(row, 0) + Cols
                          /\ At(row, col) = At(row, 0) + col
<1>1. row \in Nat /\ row * Cols \in Nat /\ (row + 1) * Cols = row * Cols + Cols
    BY RowOrder, GridAssumption
<1> QED BY <1>1, GridAssumption DEF At

LEMMA MoveOnBlank ==
    ASSUME NEW grid \in [Cells -> Chars \cup {Nul}],
           NEW col \in 0 .. Cols - 1, NEW row \in 0 .. Rows,
           BlankFrom(grid, At(row, col)),
           MoveOn(grid, col, row)
    PROVE  BlankFrom(text_grid, At(cursor_y, cursor_x))'
<1> USE GridAssumption
<1>1. CASE row < Rows
    BY <1>1 DEF MoveOn, BlankFrom, At
<1>2. CASE ~ (row < Rows)
  <2>1. /\ text_grid' = Scrolled(grid)
        /\ cursor_x' = col
        /\ cursor_y' = Rows - 1
      BY <1>2 DEF MoveOn
  <2>2. At(Rows - 1, col) >= (Rows - 1) * Cols
    <3>1. Rows - 1 \in Nat /\ (Rows - 1) * Cols \in Nat
        BY RowOrder
    <3> QED BY <3>1 DEF At
  <2>3. \A k \in Cells : k >= At(Rows - 1, col) => Scrolled(grid)[k] = Nul
    <3>1. (Rows - 1) * Cols \in Nat /\ At(Rows - 1, col) \in Nat
        BY RowOrder DEF At
    <3> QED BY <2>2, <3>1 DEF Scrolled, Cells
  <2>4. At(cursor_y, cursor_x)' = At(Rows - 1, col)
      BY <2>1 DEF At
  <2> QED BY <2>1, <2>3, <2>4 DEF BlankFrom
<1> QED BY <1>1, <1>2

LEMMA PutBlank == ASSUME TypeOK, cursor_x < Cols, NEW c \in Chars, Put(c),
                         BlankFrom(text_grid, At(cursor_y, cursor_x))
                  PROVE  BlankFrom(text_grid, At(cursor_y, cursor_x))'
<1> USE GridAssumption
<1> DEFINE here  == At(cursor_y, cursor_x)
           put   == [text_grid EXCEPT ![here] = c]
           ended == [put EXCEPT ![At(cursor_y, cursor_x + 1)] = Nul]
<1>1. put \in [Cells -> Chars \cup {Nul}] /\ ended \in [Cells -> Chars \cup {Nul}]
    BY DEF TypeOK
<1>2. cursor_y \in 0 .. Rows - 1 /\ cursor_x \in 0 .. Cols - 1 /\ cursor_y + 1 \in 0 .. Rows
    BY DEF TypeOK
<1>3. /\ here \in Nat
      /\ At(cursor_y, cursor_x + 1) = here + 1
      /\ At(cursor_y + 1, 0) = At(cursor_y, 0) + Cols
      /\ here = At(cursor_y, 0) + cursor_x
    BY <1>2, Addresses
<1>4. BlankFrom(put, here + 1)
    BY <1>3 DEF BlankFrom, TypeOK, Cells
<1>5. BlankFrom(ended, here + 1)
    BY <1>3, <1>4, <1>1 DEF BlankFrom
<1>6. CASE cursor_x + 1 < Cols
  <2>1. MoveOn(ended, cursor_x + 1, cursor_y) /\ BlankFrom(ended, At(cursor_y, cursor_x + 1))
      BY <1>3, <1>5, <1>6 DEF Put
  <2>2. cursor_x + 1 \in 0 .. Cols - 1 /\ cursor_y \in 0 .. Rows
      BY <1>2, <1>6
  <2> HIDE DEF here, put, ended
  <2> QED BY <1>1, <2>1, <2>2, MoveOnBlank
<1>7. CASE ~ (cursor_x + 1 < Cols)
  <2>1. cursor_x + 1 = Cols
      BY <1>2, <1>7
  <2>2. At(cursor_y, 0) \in Nat
      BY <1>2, Addresses
  <2>3. At(cursor_y + 1, 0) = here + 1
    <3> HIDE DEF here
    <3> QED BY <1>2, <1>3, <2>1, <2>2
  <2>4. MoveOn(put, 0, cursor_y + 1) /\ BlankFrom(put, At(cursor_y + 1, 0))
      BY <1>4, <1>7, <2>3 DEF Put
  <2> HIDE DEF here, put, ended
  <2> QED BY <1>1, <1>2, <2>4, MoveOnBlank
<1> QED BY <1>6, <1>7

LEMMA NewLineBlank == ASSUME TypeOK, NewLine,
                             BlankFrom(text_grid, At(cursor_y, cursor_x))
                      PROVE  BlankFrom(text_grid, At(cursor_y, cursor_x))'
<1> USE GridAssumption
<1>1. cursor_y \in 0 .. Rows - 1 /\ cursor_x \in 0 .. Cols /\ cursor_y + 1 \in 0 .. Rows
    BY DEF TypeOK
<1>2. /\ At(cursor_y, cursor_x) \in Nat /\ At(cursor_y, 0) \in Nat
      /\ At(cursor_y + 1, 0) = At(cursor_y, 0) + Cols
      /\ At(cursor_y, cursor_x) = At(cursor_y, 0) + cursor_x
    BY <1>1, Addresses
<1>3. BlankFrom(text_grid, At(cursor_y + 1, 0))
    BY <1>1, <1>2 DEF BlankFrom, Cells
<1> QED BY <1>1, <1>3, MoveOnBlank DEF NewLine, TypeOK

LEMMA EraseLeftBlank == ASSUME TypeOK, EraseLeft,
                               BlankFrom(text_grid, At(cursor_y, cursor_x))
                        PROVE  BlankFrom(text_grid, At(cursor_y, cursor_x))'
<1> USE GridAssumption
<1>1. /\ At(cursor_y, cursor_x) \in Nat
      /\ At(cursor_y, cursor_x - 1) = At(cursor_y, cursor_x) - 1
    BY Addresses DEF TypeOK, EraseLeft
<1>2. /\ text_grid' = [text_grid EXCEPT ![At(cursor_y, cursor_x - 1)] = Blank]
      /\ At(cursor_y, cursor_x)' = At(cursor_y, cursor_x - 1)
    BY DEF EraseLeft, At
<1>3. \A k \in Cells : k >= At(cursor_y, cursor_x) - 1 =>
          k = At(cursor_y, cursor_x) - 1 \/ k >= At(cursor_y, cursor_x)
    BY <1>1 DEF Cells
<1> QED BY <1>1, <1>2, <1>3 DEF BlankFrom, TypeOK

-----------------------------------------------------------------------------
(* The window. *)

(* The inductive invariant: in a terminal the cursor never stands past the *)
(* last column, and from its own cell on nothing shows.                    *)
WindowInv == /\ TermTypeOK
             /\ CursorInRow
             /\ terminal => cursor_x < Cols /\ BlankFrom(text_grid, At(cursor_y, cursor_x))

LEMMA PromptLength == PromptLen \in Nat /\ Prompt \in Seq(Chars \cup {LF})
BY PromptAssumption DEF PromptLen

LEMMA Start == TermInit => WindowInv
<1> SUFFICES ASSUME TermInit PROVE WindowInv
    OBVIOUS
<1> USE GridAssumption
<1>1. text_grid = [k \in Cells |-> Nul] /\ cursor_x = 0 /\ cursor_y = 0
    BY DEF TermInit, GridInit
<1>2. TypeOK
    BY <1>1 DEF TypeOK
<1>3. pending \in Seq(Chars \cup {LF}) /\ typed \in Seq(Chars)
  <2>1. <<>> \in Seq(Chars \cup {LF}) /\ <<>> \in Seq(Chars)
      OBVIOUS
  <2>2. CASE terminal
      BY <2>1, <2>2, PromptLength DEF TermInit
  <2>3. CASE ~terminal
      BY <2>1, <2>3 DEF TermInit
  <2> QED BY <2>2, <2>3
<1>4. terminal \in BOOLEAN /\ should_close \in BOOLEAN
    BY DEF TermInit
<1>5. BlankFrom(text_grid, At(cursor_y, cursor_x))
    BY <1>1 DEF BlankFrom
<1> QED BY <1>1, <1>2, <1>3, <1>4, <1>5 DEF WindowInv, CursorInRow, TermTypeOK

(* What the grid does carries over to the window. *)
LEMMA GridStep ==
    ASSUME WindowInv, TypeOK', CursorInRow', terminal' = terminal,
           terminal => cursor_x' < Cols /\ BlankFrom(text_grid, At(cursor_y, cursor_x))',
           pending' \in Seq(Chars \cup {LF}), typed' \in Seq(Chars), should_close' \in BOOLEAN
    PROVE  WindowInv'
BY DEF WindowInv, TermTypeOK

LEMMA StepKeeps == ASSUME WindowInv, TermNext PROVE WindowInv'
<1> USE GridAssumption
<1>1. /\ TypeOK /\ CursorInRow
      /\ pending \in Seq(Chars \cup {LF}) /\ typed \in Seq(Chars)
      /\ terminal \in BOOLEAN /\ should_close \in BOOLEAN
      /\ terminal => cursor_x < Cols /\ BlankFrom(text_grid, At(cursor_y, cursor_x))
    BY DEF WindowInv, TermTypeOK
<1>2. ASSUME NewLine
      PROVE  /\ TypeOK' /\ CursorInRow' /\ cursor_x' < Cols
             /\ terminal => BlankFrom(text_grid, At(cursor_y, cursor_x))'
  <2>1. TypeOK' /\ CursorInRow' /\ cursor_x' < Cols
      BY <1>1, <1>2, NewLineType
  <2>2. ASSUME terminal PROVE BlankFrom(text_grid, At(cursor_y, cursor_x))'
      BY <1>1, <1>2, <2>2, NewLineBlank
  <2> QED BY <2>1, <2>2
<1>3. ASSUME NEW c \in Chars, Put(c)
      PROVE  /\ TypeOK' /\ CursorInRow' /\ cursor_x' < Cols
             /\ terminal => BlankFrom(text_grid, At(cursor_y, cursor_x))'
  <2>1. TypeOK' /\ CursorInRow' /\ cursor_x' < Cols
      BY <1>1, <1>3, PutType
  <2>2. ASSUME terminal PROVE BlankFrom(text_grid, At(cursor_y, cursor_x))'
      BY <1>1, <1>3, <2>2, PutBlank
  <2> QED BY <2>1, <2>2
<1>4. CASE PrintPending
  <2>1. /\ Head(pending) \in Chars \cup {LF}
        /\ pending' \in Seq(Chars \cup {LF})
        /\ terminal' = terminal /\ typed' = typed /\ should_close' = should_close
      BY <1>1, <1>4 DEF PrintPending
  <2>2. CASE Head(pending) = LF
    <3>1. NewLine
        BY <1>4, <2>2 DEF PrintPending
    <3> QED BY <1>1, <1>2, <2>1, <3>1, GridStep
  <2>3. CASE Head(pending) # LF
    <3>1. Head(pending) \in Chars /\ Put(Head(pending))
        BY <1>4, <2>1, <2>3 DEF PrintPending
    <3> QED BY <1>1, <1>3, <2>1, <3>1, GridStep
  <2> QED BY <2>2, <2>3
<1>5. ASSUME NEW c \in Chars, TypeKey(c) PROVE WindowInv'
  <2>1. /\ Put(c) /\ typed' \in Seq(Chars)
        /\ terminal' = terminal /\ pending' = pending /\ should_close' = should_close
      BY <1>1, <1>5 DEF TypeKey
  <2> QED BY <1>1, <1>3, <2>1, GridStep
<1>6. CASE BackspaceKey
  <2>1. /\ terminal' = terminal /\ pending' = pending /\ should_close' = should_close
        /\ Backspace /\ BackspaceAllowed
      BY <1>6 DEF BackspaceKey
  <2>2. typed' \in Seq(Chars)
    <3>1. CASE typed = <<>>
        BY <1>1, <1>6, <3>1 DEF BackspaceKey
    <3>2. CASE typed # <<>>
      <4>1. Front(typed) \in Seq(Chars)
          BY <1>1, <3>2 DEF Front
      <4> QED BY <1>6, <3>2, <4>1 DEF BackspaceKey
    <3> QED BY <3>1, <3>2
  <2>3. TypeOK' /\ CursorInRow'
      BY <1>1, <2>1, BackspaceType
  <2>4. ASSUME terminal
        PROVE  cursor_x' < Cols /\ BlankFrom(text_grid, At(cursor_y, cursor_x))'
    <3>1. EraseLeft
      <4>1. cursor_x > 0
          BY <1>1, <2>1, <2>4, PromptLength DEF BackspaceAllowed, TypeOK
      <4> QED BY <1>1, <2>1, <4>1 DEF Backspace, EraseUp, EraseNothing, TypeOK
    <3>2. cursor_x' < Cols
        BY <1>1, <3>1, EraseLeftType
    <3> QED BY <1>1, <2>4, <3>1, <3>2, EraseLeftBlank
  <2> QED BY <1>1, <2>1, <2>2, <2>3, <2>4, GridStep
<1>7. CASE EnterKey
  <2>1. PICK text \in Answers : pending' = text \o Prompt
      BY <1>7 DEF EnterKey
  <2>2. pending' \in Seq(Chars \cup {LF})
      BY <2>1, AnswersAssumption, PromptLength
  <2>3. NewLine /\ typed' = <<>> /\ terminal' = terminal /\ should_close' = should_close
      BY <1>7 DEF EnterKey
  <2> QED BY <1>1, <1>2, <2>2, <2>3, GridStep
<1>8. CASE EnterExit
  <2>1. /\ NewLine /\ typed' = <<>> /\ terminal' = terminal
        /\ pending' = pending /\ should_close' = TRUE
      BY <1>8 DEF EnterExit
  <2> QED BY <1>1, <1>2, <2>1, GridStep
<1>9. CASE EnterPlain
  <2>1. /\ NewLine /\ typed' = <<>> /\ terminal' = terminal
        /\ pending' = pending /\ should_close' = should_close
      BY <1>9 DEF EnterPlain
  <2> QED BY <1>1, <1>2, <2>1, GridStep
<1> QED BY <1>4, <1>5, <1>6, <1>7, <1>8, <1>9 DEF TermNext

LEMMA StutterKeeps == ASSUME WindowInv, UNCHANGED termVars PROVE WindowInv'
BY DEF WindowInv, TermTypeOK, TypeOK, CursorInRow, BlankFrom, At, termVars, gridVars

LEMMA InvShows == WindowInv => TermInv /\ NothingBehindCursor
<1> SUFFICES ASSUME WindowInv PROVE TermInv /\ NothingBehindCursor
    OBVIOUS
<1>1. TermTypeOK /\ TypeOK /\ CursorInRow
    BY DEF WindowInv, TermTypeOK
<1>2. CursorOnGrid
    BY <1>1, CursorHasCell
<1>3. ASSUME terminal, NEW k \in Cells, k > At(cursor_y, cursor_x)
      PROVE  text_grid[k] \in {Blank, Nul}
  <2>1. k \in Nat /\ At(cursor_y, cursor_x) \in Nat
      BY <1>1, Addresses DEF TypeOK, Cells
  <2> QED BY <1>3, <2>1 DEF WindowInv, BlankFrom
<1> QED BY <1>1, <1>2, <1>3 DEF TermInv, NothingBehindCursor

LEMMA Holds == TermSpec => []WindowInv
<1>1. WindowInv /\ [TermNext]_termVars => WindowInv'
    BY StepKeeps, StutterKeeps
<1> QED BY Start, <1>1, PTL DEF TermSpec

(* Types, and a cell of the grid for the next character whatever keys came *)
(* before (Window::inject_key stores without a test), in a terminal and in *)
(* a plain window.                                                         *)
THEOREM CellForNext == TermSpec => []TermInv
BY Holds, InvShows, PTL

(* In a terminal nothing shows behind the cursor, whatever was printed,    *)
(* typed and erased: no character that shows is ever written over.         *)
THEOREM NothingBehind == TermSpec => []NothingBehindCursor
BY Holds, InvShows, PTL

-----------------------------------------------------------------------------
(* Words. *)

Text == Seq(Chars)
Fewer(a, b) == IF a <= b THEN a ELSE b

LEMMA MinOfTwo == ASSUME NEW a \in Int, NEW b \in Int
                  PROVE  Min({a, b}) = Fewer(a, b)
<1> DEFINE IsMin(x) == \A y \in {a, b} : x <= y
<1>1. Min({a, b}) = CHOOSE x \in {a, b} : IsMin(x)
    BY DEF Min
<1>2. Fewer(a, b) \in {a, b} /\ IsMin(Fewer(a, b))
    BY DEF Fewer
<1>3. \A x, y \in {a, b} : IsMin(x) /\ IsMin(y) => x = y
    BY DEF Fewer
<1> HIDE DEF IsMin
<1> QED BY <1>1, <1>2, <1>3

LEMMA BegunGrows ==
    ASSUME NEW line, NEW i \in Nat
    PROVE  /\ Shell!Begun(line, i) \in Nat
           /\ Shell!Begun(line, 0) = 0
           /\ Shell!Begun(line, i + 1) = IF Shell!StartsWord(line, i + 1)
                                         THEN Shell!Begun(line, i) + 1 ELSE Shell!Begun(line, i)
<1> DEFINE starts(k) == {j \in 1 .. k : Shell!StartsWord(line, j)}
<1>1. \A k \in Nat : IsFiniteSet(starts(k)) /\ Cardinality(starts(k)) \in Nat
  <2> SUFFICES ASSUME NEW k \in Nat PROVE IsFiniteSet(starts(k)) /\ Cardinality(starts(k)) \in Nat
      OBVIOUS
  <2>1. IsFiniteSet(1 .. k)
      BY 1 \in Int, k \in Int, FS_Interval
  <2>2. IsFiniteSet(starts(k))
      BY <2>1, FS_Subset
  <2> HIDE DEF starts
  <2> QED BY <2>2, FS_CardinalityType
<1>2. \A k \in Nat : Shell!Begun(line, k) = Cardinality(starts(k))
    BY DEF Shell!Begun, Shell!Cardinality, Cardinality
<1>3. starts(0) = {} /\ Cardinality({}) = 0
    BY FS_EmptySet
<1>4. starts(i + 1) = IF Shell!StartsWord(line, i + 1) THEN starts(i) \cup {i + 1} ELSE starts(i)
    OBVIOUS
<1>5. i + 1 \notin starts(i) /\ i + 1 \in Nat
    OBVIOUS
<1> HIDE DEF starts
<1>6. Cardinality(starts(i) \cup {i + 1}) = Cardinality(starts(i)) + 1
    BY <1>1, <1>5, FS_AddElement
<1> QED BY <1>1, <1>2, <1>3, <1>4, <1>5, <1>6

LEMMA BegunBefore ==
    ASSUME NEW line, NEW i \in Nat, NEW j \in Nat, i < j, Shell!StartsWord(line, j)
    PROVE  Shell!Begun(line, i) < Shell!Begun(line, j)
<1> DEFINE starts(k) == {h \in 1 .. k : Shell!StartsWord(line, h)}
<1>1. starts(i) \cup {j} \subseteq starts(j) /\ j \notin starts(i)
    OBVIOUS
<1>2. IsFiniteSet(starts(j)) /\ IsFiniteSet(starts(i))
  <2>1. IsFiniteSet(1 .. j) /\ IsFiniteSet(1 .. i)
      BY 1 \in Int, i \in Int, j \in Int, FS_Interval
  <2> QED BY <2>1, FS_Subset
<1>3. Shell!Begun(line, i) = Cardinality(starts(i)) /\ Shell!Begun(line, j) = Cardinality(starts(j))
    BY DEF Shell!Begun, Shell!Cardinality, Cardinality
<1> HIDE DEF starts
<1>4. Cardinality(starts(i) \cup {j}) = Cardinality(starts(i)) + 1
    BY <1>1, <1>2, FS_AddElement
<1>5. Cardinality(starts(i) \cup {j}) <= Cardinality(starts(j))
    BY <1>1, <1>2, FS_Subset
<1>6. Cardinality(starts(i)) \in Nat /\ Cardinality(starts(j)) \in Nat
    BY <1>2, FS_CardinalityType
<1> QED BY <1>3, <1>4, <1>5, <1>6

(* A word by its first and its last character. *)
LEMMA WordIs ==
    ASSUME NEW line \in Text, NEW s \in 1 .. Len(line), Shell!StartsWord(line, s),
           NEW k \in s .. Fewer(Len(line), s + MAX_WORD - 1),
           \A j \in s .. k : line[j] # Blank,
           k = Fewer(Len(line), s + MAX_WORD - 1) \/ line[k + 1] = Blank
    PROVE  Shell!WordAt(line, Shell!Begun(line, s)) = SubSeq(line, s, k)
<1> DEFINE most == Fewer(Len(line), s + MAX_WORD - 1)
           Starts(i) == Shell!StartsWord(line, i) /\ Shell!Begun(line, i) = Shell!Begun(line, s)
           Ends(e) == /\ \A j \in s .. e : line[j] # Blank
                      /\ e = most \/ line[e + 1] = Blank
<1>1. Len(line) \in Nat /\ MAX_WORD \in Nat \ {0} /\ s \in Nat /\ most \in Nat
    BY RoomAssumption, LenProperties DEF Text, Fewer
<1>2. \A i \in 1 .. Len(line) : Starts(i) => i = s
  <2> SUFFICES ASSUME NEW i \in 1 .. Len(line), Starts(i), i # s PROVE FALSE
      OBVIOUS
  <2>1. i \in Nat /\ s \in Nat /\ (i < s \/ s < i)
      BY <1>1
  <2>2. Shell!Begun(line, i) \in Nat
      BY <2>1, BegunGrows
  <2> QED BY <2>1, <2>2, BegunBefore
<1>3. (CHOOSE i \in 1 .. Len(line) : Starts(i)) = s
  <2>1. Starts(s)
      OBVIOUS
  <2> HIDE DEF Starts
  <2> QED BY <1>2, <2>1
<1>4. \A e \in s .. most : Ends(e) => e = k
  <2> SUFFICES ASSUME NEW e \in s .. most, Ends(e), e # k PROVE FALSE
      OBVIOUS
  <2>1. CASE e < k
      BY <1>1, <2>1
  <2>2. CASE k < e
      BY <1>1, <2>2
  <2> QED BY <1>1, <2>1, <2>2
<1>5. (CHOOSE e \in s .. most : Ends(e)) = k
  <2>1. Ends(k) /\ k \in s .. most
      OBVIOUS
  <2> HIDE DEF Ends, most
  <2> QED BY <1>4, <2>1
<1>6. Shell!WordEnd(line, s) = CHOOSE e \in s .. most : Ends(e)
  <2>1. s + MAX_WORD - 1 \in Int /\ Len(line) \in Int
      BY <1>1
  <2>2. Min({Len(line), s + MAX_WORD - 1}) = most
      BY <2>1, MinOfTwo
  <2> QED BY <2>2 DEF Shell!WordEnd, Shell!Min, Min
<1> HIDE DEF Starts, Ends
<1> QED BY <1>3, <1>5, <1>6 DEF Shell!WordAt, Starts

(* Where the pass over a line stands behind its first n characters. *)
InWord(line, n) == n # 0 /\ line[n] # Blank

Ended(line, n) == Shell!Begun(line, n) - IF InWord(line, n) THEN 1 ELSE 0

ArgsAre(line, args, n) ==
    /\ args \in Seq(Text)
    /\ Len(args) = Fewer(MAX_ARGS, n)
    /\ \A k \in 1 .. Len(args) : args[k] = Shell!WordAt(line, k)

Pass(line, scan, n) ==
    /\ scan \in [args : Seq(Text), buffer : Text]
    /\ ArgsAre(line, scan.args, Ended(line, n))
    /\ ~ InWord(line, n) => scan.buffer = <<>>
    /\ InWord(line, n) =>
         \E s \in 1 .. n :
            /\ Shell!StartsWord(line, s)
            /\ Shell!Begun(line, s) = Shell!Begun(line, n)
            /\ \A j \in s .. n : line[j] # Blank
            /\ Len(scan.buffer) = Fewer(n - s + 1, MAX_WORD)
            /\ \A j \in 1 .. Len(scan.buffer) : scan.buffer[j] = line[s + j - 1]

(* The end of a word makes it an argument, if there is room. *)
LEMMA WordFinished ==
    ASSUME NEW line \in Text, NEW n \in 0 .. Len(line), NEW scan, Pass(line, scan, n),
           n = Len(line) \/ line[n + 1] = Blank
    PROVE  /\ Shell!Finished(scan) \in [args : Seq(Text), buffer : Text]
           /\ Shell!Finished(scan).buffer = <<>>
           /\ ArgsAre(line, Shell!Finished(scan).args, Shell!Begun(line, n))
<1> DEFINE args == scan.args
           buffer == scan.buffer
<1>1. /\ Len(line) \in Nat /\ n \in Nat /\ MAX_WORD \in Nat \ {0} /\ MAX_ARGS \in Nat \ {0}
      /\ Shell!Begun(line, n) \in Nat
      /\ args \in Seq(Text) /\ buffer \in Text
      /\ ArgsAre(line, args, Ended(line, n))
    BY RoomAssumption, LenProperties, BegunGrows DEF Text, Pass
<1>2. CASE ~ InWord(line, n)
  <2>1. buffer = <<>>
      BY <1>2 DEF Pass
  <2>2. Ended(line, n) = Shell!Begun(line, n)
      BY <1>1, <1>2 DEF Ended
  <2>3. Shell!Finished(scan) = [args |-> args, buffer |-> <<>>]
      BY <2>1 DEF Shell!Finished
  <2>4. <<>> \in Text
      BY DEF Text
  <2> QED BY <1>1, <2>2, <2>3, <2>4
<1>3. CASE InWord(line, n)
  <2>1. PICK s \in 1 .. n :
            /\ Shell!StartsWord(line, s)
            /\ Shell!Begun(line, s) = Shell!Begun(line, n)
            /\ \A j \in s .. n : line[j] # Blank
            /\ Len(buffer) = Fewer(n - s + 1, MAX_WORD)
            /\ \A j \in 1 .. Len(buffer) : buffer[j] = line[s + j - 1]
      BY <1>3 DEF Pass
  <2> DEFINE k == Fewer(n, s + MAX_WORD - 1)
             word == SubSeq(line, s, k)
  <2>2. /\ k \in s .. Fewer(Len(line), s + MAX_WORD - 1)
        /\ \A j \in s .. k : line[j] # Blank
        /\ k = Fewer(Len(line), s + MAX_WORD - 1) \/ line[k + 1] = Blank
        /\ k - s + 1 = Len(buffer) /\ Len(buffer) # 0 /\ k <= Len(line)
      BY <1>1, <2>1 DEF Fewer
  <2>3. Shell!WordAt(line, Shell!Begun(line, n)) = word
    <3>1. s \in 1 .. Len(line)
        BY <1>1
    <3> HIDE DEF k
    <3>2. Shell!WordAt(line, Shell!Begun(line, s)) = word
        BY <2>1, <2>2, <3>1, WordIs
    <3> QED BY <2>1, <3>2
  <2>4. buffer = word
    <3>1. s \in 1 .. Len(line) + 1 /\ k \in s - 1 .. Len(line)
        BY <1>1, <2>2
    <3>2. /\ word \in Text /\ Len(word) = k - s + 1
          /\ \A j \in 1 .. k - s + 1 : word[j] = line[s + j - 1]
        BY <3>1, SubSeqProperties DEF Text
    <3> HIDE DEF word, k
    <3>3. Len(buffer) = Len(word) /\ Len(buffer) \in Nat
        BY <2>2, <3>2, <1>1, LenProperties DEF Text
    <3>4. \A j \in 1 .. Len(buffer) : buffer[j] = word[j]
        BY <2>1, <2>2, <3>2
    <3> HIDE DEF word, k, buffer
    <3> QED BY <1>1, <3>2, <3>3, <3>4, SeqEqual DEF Text
  <2>5. buffer # <<>>
      BY <2>2
  <2>6. Ended(line, n) = Shell!Begun(line, n) - 1 /\ Shell!Begun(line, n) >= 1
    <3>1. Shell!Begun(line, 0) < Shell!Begun(line, s) /\ Shell!Begun(line, 0) = 0
        BY <1>1, <2>1, BegunBefore, BegunGrows
    <3> QED BY <1>1, <1>3, <2>1, <3>1 DEF Ended
  <2>7. Len(args) = Fewer(MAX_ARGS, Shell!Begun(line, n) - 1)
      BY <1>1, <2>6 DEF ArgsAre
  <2> HIDE DEF k, word
  <2>8. CASE Len(args) < MAX_ARGS
    <3>1. Shell!Finished(scan) = [args |-> Append(args, buffer), buffer |-> <<>>]
        BY <2>5, <2>8 DEF Shell!Finished
    <3>2. Len(args) = Shell!Begun(line, n) - 1
        BY <1>1, <2>6, <2>7, <2>8 DEF Fewer
    <3> DEFINE longer == Append(args, buffer)
    <3>3. /\ longer \in Seq(Text) /\ Len(longer) = Len(args) + 1
          /\ \A j \in 1 .. Len(args) : longer[j] = args[j]
          /\ longer[Len(args) + 1] = buffer
        BY <1>1, AppendProperties
    <3> HIDE DEF longer
    <3>4. Len(longer) = Fewer(MAX_ARGS, Shell!Begun(line, n))
        BY <1>1, <2>8, <3>2, <3>3 DEF Fewer
    <3>5. \A j \in 1 .. Len(longer) : longer[j] = Shell!WordAt(line, j)
      <4> SUFFICES ASSUME NEW j \in 1 .. Len(longer) PROVE longer[j] = Shell!WordAt(line, j)
          OBVIOUS
      <4>1. CASE j \in 1 .. Len(args)
          BY <1>1, <3>3, <4>1 DEF ArgsAre
      <4>2. CASE j = Len(args) + 1
        <5>1. j = Shell!Begun(line, n)
            BY <1>1, <3>2, <4>2
        <5> QED BY <2>3, <2>4, <3>3, <4>2, <5>1
      <4>3. Len(args) \in Nat
          BY <1>1, LenProperties
      <4> QED BY <3>3, <4>1, <4>2, <4>3
    <3>6. ArgsAre(line, longer, Shell!Begun(line, n))
        BY <3>3, <3>4, <3>5 DEF ArgsAre
    <3>7. <<>> \in Text
        BY DEF Text
    <3> QED BY <3>1, <3>3, <3>6, <3>7 DEF longer
  <2>9. CASE ~ (Len(args) < MAX_ARGS)
    <3>1. Shell!Finished(scan) = [args |-> args, buffer |-> <<>>]
        BY <2>9 DEF Shell!Finished
    <3>2. Len(args) \in Nat /\ Len(args) = MAX_ARGS
      <4>1. Len(args) \in Nat
          BY <1>1, LenProperties
      <4> QED BY <1>1, <2>6, <2>7, <2>9, <4>1 DEF Fewer
    <3>3. Len(args) = Fewer(MAX_ARGS, Shell!Begun(line, n))
        BY <1>1, <2>7, <3>2 DEF Fewer
    <3>4. ArgsAre(line, args, Shell!Begun(line, n))
        BY <1>1, <3>3 DEF ArgsAre
    <3>5. <<>> \in Text
        BY DEF Text
    <3> QED BY <1>1, <3>1, <3>4, <3>5
  <2> QED BY <2>8, <2>9
<1> QED BY <1>2, <1>3

LEMMA PassGoesOn ==
    ASSUME NEW line \in Text, NEW n \in 0 .. Len(line) - 1, NEW scan, Pass(line, scan, n)
    PROVE  Pass(line, Shell!Scanned(scan, line[n + 1]), n + 1)
<1> DEFINE c == line[n + 1]
           args == scan.args
           buffer == scan.buffer
           next == Shell!Scanned(scan, c)
<1>1. /\ Len(line) \in Nat /\ n \in Nat /\ MAX_WORD \in Nat \ {0} /\ MAX_ARGS \in Nat \ {0}
      /\ scan \in [args : Seq(Text), buffer : Text]
      /\ ArgsAre(line, args, Ended(line, n))
      /\ n + 1 \in 1 .. Len(line) /\ n \in 0 .. Len(line)
    BY RoomAssumption, LenProperties DEF Text, Pass
<1>2. /\ Shell!Begun(line, n) \in Nat
      /\ Shell!Begun(line, n + 1) = IF Shell!StartsWord(line, n + 1)
                                    THEN Shell!Begun(line, n) + 1 ELSE Shell!Begun(line, n)
    BY <1>1, BegunGrows
<1>3. c \in Chars
    BY <1>1, ElementOfSeq DEF Text
<1>4. InWord(line, n + 1) <=> c # Blank
    BY <1>1 DEF InWord
<1>5. Shell!StartsWord(line, n + 1) <=> c # Blank /\ ~ InWord(line, n)
    BY <1>1 DEF InWord, Shell!StartsWord
<1>6. CASE c = Blank
  <2>1. next = Shell!Finished(scan)
      BY <1>6 DEF Shell!Scanned
  <2>2. /\ Shell!Finished(scan) \in [args : Seq(Text), buffer : Text]
        /\ Shell!Finished(scan).buffer = <<>>
        /\ ArgsAre(line, Shell!Finished(scan).args, Shell!Begun(line, n))
      BY <1>1, <1>6, WordFinished
  <2>3. Ended(line, n + 1) = Shell!Begun(line, n)
      BY <1>2, <1>4, <1>5, <1>6 DEF Ended
  <2> QED BY <1>4, <1>6, <2>1, <2>2, <2>3 DEF Pass
<1>7. CASE c # Blank
  <2> DEFINE longer == IF Len(buffer) < MAX_WORD THEN Append(buffer, c) ELSE buffer
  <2>1. next = [scan EXCEPT !.buffer = longer]
      BY <1>7 DEF Shell!Scanned
  <2>2. /\ buffer \in Text /\ Len(buffer) \in Nat
        /\ Len(buffer) < MAX_WORD =>
              /\ longer \in Text /\ Len(longer) = Len(buffer) + 1
              /\ \A j \in 1 .. Len(buffer) : longer[j] = buffer[j]
              /\ longer[Len(buffer) + 1] = c
    <3>1. buffer \in Seq(Chars)
        BY <1>1 DEF Text
    <3>2. /\ Append(buffer, c) \in Seq(Chars) /\ Len(Append(buffer, c)) = Len(buffer) + 1
          /\ \A j \in 1 .. Len(buffer) : Append(buffer, c)[j] = buffer[j]
          /\ Append(buffer, c)[Len(buffer) + 1] = c
        BY <1>3, <3>1, AppendProperties
    <3> QED BY <3>1, <3>2, LenProperties DEF Text
  <2>3. ~ (Len(buffer) < MAX_WORD) => longer = buffer
      OBVIOUS
  <2> HIDE DEF longer
  <2>4. longer \in Text
      BY <2>2, <2>3
  <2>5. next \in [args : Seq(Text), buffer : Text] /\ next.args = args /\ next.buffer = longer
      BY <1>1, <2>1, <2>4
  <2>6. Ended(line, n + 1) = Ended(line, n)
      BY <1>2, <1>4, <1>5, <1>7 DEF Ended
  <2>7. \E s \in 1 .. n + 1 :
            /\ Shell!StartsWord(line, s)
            /\ Shell!Begun(line, s) = Shell!Begun(line, n + 1)
            /\ \A j \in s .. n + 1 : line[j] # Blank
            /\ Len(longer) = Fewer(n + 1 - s + 1, MAX_WORD)
            /\ \A j \in 1 .. Len(longer) : longer[j] = line[s + j - 1]
    <3>1. CASE ~ InWord(line, n)
      <4>1. buffer = <<>>
          BY <3>1 DEF Pass
      <4>2. Len(longer) = 1 /\ longer[1] = c
          BY <1>1, <2>2, <4>1
      <4>3. Shell!StartsWord(line, n + 1)
          BY <1>5, <1>7, <3>1
      <4>4. \A j \in n + 1 .. n + 1 : line[j] # Blank
          BY <1>1, <1>7
      <4>5. Fewer(n + 1 - (n + 1) + 1, MAX_WORD) = 1
          BY <1>1 DEF Fewer
      <4>6. \A j \in 1 .. Len(longer) : longer[j] = line[n + 1 + j - 1]
          BY <1>1, <4>2
      <4>7. n + 1 \in 1 .. n + 1
          BY <1>1
      <4> DEFINE From(s) == /\ Shell!StartsWord(line, s)
                            /\ Shell!Begun(line, s) = Shell!Begun(line, n + 1)
                            /\ \A j \in s .. n + 1 : line[j] # Blank
                            /\ Len(longer) = Fewer(n + 1 - s + 1, MAX_WORD)
                            /\ \A j \in 1 .. Len(longer) : longer[j] = line[s + j - 1]
      <4>8. From(n + 1)
          BY <4>2, <4>3, <4>4, <4>5, <4>6
      <4>9. \E s \in 1 .. n + 1 : From(s)
        <5> HIDE DEF From
        <5> QED BY <4>7, <4>8
      <4> QED BY <4>9
    <3>2. CASE InWord(line, n)
      <4>1. PICK s \in 1 .. n :
                /\ Shell!StartsWord(line, s)
                /\ Shell!Begun(line, s) = Shell!Begun(line, n)
                /\ \A j \in s .. n : line[j] # Blank
                /\ Len(buffer) = Fewer(n - s + 1, MAX_WORD)
                /\ \A j \in 1 .. Len(buffer) : buffer[j] = line[s + j - 1]
          BY <3>2 DEF Pass
      <4>2. Shell!Begun(line, s) = Shell!Begun(line, n + 1)
          BY <1>2, <1>5, <3>2, <4>1
      <4>3. \A j \in s .. n + 1 : line[j] # Blank
          BY <1>1, <1>7, <4>1
      <4>4. CASE Len(buffer) < MAX_WORD
        <5>1. Len(buffer) = n - s + 1 /\ Len(longer) = n + 1 - s + 1
            BY <1>1, <2>2, <4>1, <4>4 DEF Fewer
        <5>2. Len(longer) = Fewer(n + 1 - s + 1, MAX_WORD)
            BY <1>1, <4>1, <4>4, <5>1 DEF Fewer
        <5>3. \A j \in 1 .. Len(longer) : longer[j] = line[s + j - 1]
          <6> SUFFICES ASSUME NEW j \in 1 .. Len(longer) PROVE longer[j] = line[s + j - 1]
              OBVIOUS
          <6>1. CASE j \in 1 .. Len(buffer)
              BY <2>2, <4>1, <4>4, <6>1
          <6>2. CASE j = Len(buffer) + 1
            <7>1. s + j - 1 = n + 1
                BY <1>1, <5>1, <6>2
            <7> QED BY <2>2, <4>4, <6>2, <7>1
          <6> QED BY <2>2, <4>4, <6>1, <6>2
        <5> QED BY <1>1, <4>1, <4>2, <4>3, <5>2, <5>3
      <4>5. CASE ~ (Len(buffer) < MAX_WORD)
        <5>1. longer = buffer
            BY <2>3, <4>5
        <5>2. Len(longer) = Fewer(n + 1 - s + 1, MAX_WORD)
            BY <1>1, <4>1, <4>5, <5>1 DEF Fewer
        <5> QED BY <1>1, <4>1, <4>2, <4>3, <5>1, <5>2
      <4> QED BY <4>4, <4>5
    <3> QED BY <3>1, <3>2
  <2>8. n + 1 - 0 = n + 1
      BY <1>1
  <2> HIDE DEF next, c, args, buffer
  <2> QED BY <1>1, <1>4, <1>7, <2>5, <2>6, <2>7 DEF Pass, next, c, args
<1> QED BY <1>6, <1>7

(* A recursion over the numbers up to n, one function per step, is there. *)
GoesBy(f, base, step, n) == f[0] = base /\ \A i \in 1 .. n : f[i] = step[i][f[i - 1]]

LEMMA Recursion ==
    ASSUME NEW S, NEW n \in Nat, NEW base \in S, NEW step \in [1 .. n -> [S -> S]]
    PROVE  \E f \in [0 .. n -> S] : GoesBy(f, base, step, n)
<1> DEFINE Done(k) == \E f \in [0 .. k -> S] : GoesBy(f, base, step, k)
           T == {k \in 0 .. n : ~ Done(k)}
<1>1. Done(0)
  <2> DEFINE f == [i \in 0 .. 0 |-> base]
  <2>1. f \in [0 .. 0 -> S] /\ GoesBy(f, base, step, 0)
      BY DEF GoesBy
  <2> HIDE DEF f
  <2> QED BY <2>1
<1>2. ASSUME NEW k \in 1 .. n, Done(k - 1) PROVE Done(k)
  <2>1. PICK before \in [0 .. k - 1 -> S] : GoesBy(before, base, step, k - 1)
      BY <1>2
  <2> DEFINE last == step[k][before[k - 1]]
             f == [i \in 0 .. k |-> IF i = k THEN last ELSE before[i]]
  <2>2. last \in S
    <3>1. before[k - 1] \in S /\ step[k] \in [S -> S]
        BY <2>1
    <3> QED BY <3>1
  <2>3. f \in [0 .. k -> S]
    <3> HIDE DEF last
    <3> QED BY <2>1, <2>2
  <2>4. /\ \A i \in 0 .. k - 1 : f[i] = before[i]
        /\ f[k] = last
      OBVIOUS
  <2> HIDE DEF f
  <2>5. f[0] = base
      BY <2>1, <2>4 DEF GoesBy
  <2>6. ASSUME NEW i \in 1 .. k PROVE f[i] = step[i][f[i - 1]]
    <3>1. i - 1 \in 0 .. k - 1 /\ f[i - 1] = before[i - 1]
        BY <2>4
    <3>2. CASE i = k
        BY <2>4, <3>1, <3>2
    <3>3. CASE i # k
      <4>1. i \in 1 .. k - 1 /\ i \in 0 .. k - 1
          BY <3>3
      <4>2. before[i] = step[i][before[i - 1]]
          BY <2>1, <4>1 DEF GoesBy
      <4> QED BY <2>4, <3>1, <4>1, <4>2
    <3> QED BY <3>2, <3>3
  <2> QED BY <2>3, <2>5, <2>6 DEF GoesBy
<1> HIDE DEF Done
<1>3. ASSUME NEW k \in T, \A j \in T : k <= j PROVE FALSE
  <2>1. k \in 1 .. n /\ ~ Done(k) /\ k - 1 \in 0 .. n /\ k - 1 < k
      BY <1>1
  <2>2. k - 1 \notin T
    <3> HIDE DEF T
    <3> QED BY <1>3, <2>1
  <2> QED BY <1>2, <2>1, <2>2
<1>4. T = {}
  <2>1. T \subseteq Nat
      OBVIOUS
  <2> HIDE DEF T
  <2> QED BY <1>3, <2>1, Least
<1> QED BY <1>4 DEF Done

Scan == [args : Seq(Text), buffer : Text]

LEMMA ScannedTyped == ASSUME NEW scan \in Scan, NEW c \in Chars
                      PROVE  Shell!Finished(scan) \in Scan /\ Shell!Scanned(scan, c) \in Scan
<1>1. /\ <<>> \in Text
      /\ Append(scan.buffer, c) \in Text
      /\ Append(scan.args, scan.buffer) \in Seq(Text)
    BY AppendProperties DEF Scan, Text
<1> HIDE DEF Text
<1>2. Shell!Finished(scan) \in Scan
    BY <1>1 DEF Shell!Finished, Scan
<1>3. [scan EXCEPT !.buffer = IF Len(@) < MAX_WORD THEN Append(@, c) ELSE @] \in Scan
    BY <1>1 DEF Scan
<1> QED BY <1>2, <1>3 DEF Shell!Scanned

LEMMA ScansThere ==
    ASSUME NEW line \in Text
    PROVE  /\ Shell!Scans(line)[0] = [args |-> <<>>, buffer |-> <<>>]
           /\ \A n \in 1 .. Len(line) :
                Shell!Scans(line)[n] = Shell!Scanned(Shell!Scans(line)[n - 1], line[n])
<1> DEFINE m == Len(line)
           base == [args |-> <<>>, buffer |-> <<>>]
           Body(f) == [n \in 0 .. m |-> IF n = 0 THEN base ELSE Shell!Scanned(f[n - 1], line[n])]
           scans == CHOOSE f : f = Body(f)
           step == [n \in 1 .. m |-> [scan \in Scan |-> Shell!Scanned(scan, line[n])]]
<1>1. m \in Nat /\ \A n \in 1 .. m : line[n] \in Chars
    BY LenProperties, ElementOfSeq DEF Text
<1>2. Shell!Scans(line) = scans
    BY DEF Shell!Scans
<1>3. base \in Scan
    BY DEF Scan, Text
<1>4. step \in [1 .. m -> [Scan -> Scan]]
    BY <1>1, ScannedTyped
<1> HIDE DEF base
<1>5. PICK f \in [0 .. m -> Scan] : GoesBy(f, base, step, m)
  <2> HIDE DEF step
  <2> QED BY <1>1, <1>3, <1>4, Recursion
<1>6. f = Body(f)
  <2>1. ASSUME NEW n \in 1 .. m PROVE f[n] = Shell!Scanned(f[n - 1], line[n])
    <3>1. n - 1 \in 0 .. m
        BY <1>1
    <3>2. f[n - 1] \in Scan
        BY <3>1
    <3> QED BY <1>5, <3>2 DEF GoesBy
  <2>2. f[0] = base
      BY <1>5 DEF GoesBy
  <2>3. \A n \in 0 .. m : n # 0 => n \in 1 .. m
      BY <1>1
  <2>4. \A n \in 0 .. m : f[n] = IF n = 0 THEN base ELSE Shell!Scanned(f[n - 1], line[n])
      BY <2>1, <2>2, <2>3
  <2> QED BY <2>4
<1>7. scans = Body(scans)
  <2> HIDE DEF Body
  <2> QED BY <1>6
<1> HIDE DEF scans
<1>8. \A n \in 0 .. m : scans[n] = IF n = 0 THEN base ELSE Shell!Scanned(scans[n - 1], line[n])
  <2>1. \A n \in 0 .. m : scans[n] = Body(scans)[n]
      BY <1>7
  <2> QED BY <2>1
<1>9. 0 \in 0 .. m /\ \A n \in 1 .. m : n \in 0 .. m /\ n # 0
    BY <1>1
<1>10. scans[0] = base /\ \A n \in 1 .. m : scans[n] = Shell!Scanned(scans[n - 1], line[n])
    BY <1>8, <1>9
<1> QED BY <1>2, <1>10 DEF base

LEMMA ArgsAreWords ==
    ASSUME NEW line \in Text, NEW args, ArgsAre(line, args, Shell!Begun(line, Len(line)))
    PROVE  args = Shell!Words(line)
<1>1. Len(line) \in Nat /\ MAX_ARGS \in Int
    BY RoomAssumption, LenProperties DEF Text
<1>2. Shell!Begun(line, Len(line)) \in Int
    BY <1>1, BegunGrows
<1>3. Min({MAX_ARGS, Shell!Begun(line, Len(line))}) = Fewer(MAX_ARGS, Shell!Begun(line, Len(line)))
    BY <1>1, <1>2, MinOfTwo
<1>4. Shell!Words(line) = [k \in 1 .. Len(args) |-> Shell!WordAt(line, k)]
    BY <1>3 DEF ArgsAre, Shell!Words, Shell!Min, Min
<1>5. args = [k \in 1 .. Len(args) |-> args[k]]
    BY LenProperties DEF ArgsAre
<1> QED BY <1>4, <1>5 DEF ArgsAre

(* The shell finds the words of a line, with blanks behind it or not. *)
LEMMA ArgsFound ==
    ASSUME NEW line \in Text, NEW longer \in Text, Len(line) <= Len(longer),
           \A i \in 1 .. Len(line) : longer[i] = line[i],
           \A i \in Len(line) + 1 .. Len(longer) : longer[i] = Blank
    PROVE  Shell!Args(longer) = Shell!Words(line)
<1> DEFINE m == Len(line)
           scans == Shell!Scans(longer)
           words == Shell!Words(line)
<1>1. m \in Nat /\ Len(longer) \in Nat
    BY LenProperties DEF Text
<1>2. /\ scans[0] = [args |-> <<>>, buffer |-> <<>>]
      /\ \A n \in 1 .. Len(longer) : scans[n] = Shell!Scanned(scans[n - 1], longer[n])
    BY ScansThere
<1> HIDE DEF scans
<1>3. Pass(line, scans[0], 0)
  <2>1. Ended(line, 0) = 0 /\ ~ InWord(line, 0)
      BY BegunGrows DEF Ended, InWord
  <2>2. scans[0].args = <<>> /\ scans[0].buffer = <<>> /\ scans[0] \in [args : Seq(Text), buffer : Text]
      BY <1>2 DEF Text
  <2>3. ArgsAre(line, <<>>, 0)
      BY RoomAssumption DEF ArgsAre, Fewer
  <2> QED BY <2>1, <2>2, <2>3 DEF Pass
<1>4. \A n \in 0 .. m : Pass(line, scans[n], n)
  <2> DEFINE T == {n \in 0 .. m : ~ Pass(line, scans[n], n)}
  <2>1. ASSUME NEW n \in T, \A k \in T : n <= k PROVE FALSE
    <3>1. n \in 1 .. m /\ n - 1 \in 0 .. m /\ n - 1 < n /\ ~ Pass(line, scans[n], n)
        BY <1>1, <1>3
    <3>2. n - 1 \notin T
      <4> HIDE DEF T
      <4> QED BY <2>1, <3>1
    <3>3. Pass(line, scans[n - 1], n - 1) /\ n - 1 \in 0 .. m - 1
        BY <1>1, <3>1, <3>2
    <3>4. Pass(line, Shell!Scanned(scans[n - 1], line[n - 1 + 1]), n - 1 + 1)
        BY <3>3, PassGoesOn
    <3>5. n - 1 + 1 = n /\ scans[n] = Shell!Scanned(scans[n - 1], line[n])
        BY <1>1, <1>2, <3>1
    <3> QED BY <3>1, <3>4, <3>5
  <2>2. T \subseteq Nat
      BY <1>1
  <2> HIDE DEF T
  <2>3. T = {}
      BY <2>1, <2>2, Least
  <2> QED BY <2>3 DEF T
<1>5. Pass(line, scans[m], m)
    BY <1>1, <1>4
<1>6. /\ Shell!Finished(scans[m]).buffer = <<>>
      /\ Shell!Finished(scans[m]) \in [args : Seq(Text), buffer : Text]
      /\ Shell!Finished(scans[m]).args = words
  <2>1. m \in 0 .. Len(line)
      BY <1>1
  <2> QED BY <1>5, <2>1, WordFinished, ArgsAreWords
<1> DEFINE done == [args |-> words, buffer |-> <<>>]
<1>7. Shell!Finished(scans[m]) = done /\ Shell!Finished(done) = done
    BY <1>6 DEF Shell!Finished
<1> HIDE DEF words, done
<1>8. \A n \in m + 1 .. Len(longer) : scans[n] = done
  <2> DEFINE T == {n \in m + 1 .. Len(longer) : scans[n] # done}
  <2>1. ASSUME NEW n \in T, \A k \in T : n <= k PROVE FALSE
    <3>1. n \in m + 1 .. Len(longer) /\ scans[n] # done
        OBVIOUS
    <3>2. n - 1 \notin T
      <4> HIDE DEF T
      <4> QED BY <1>1, <2>1, <3>1
    <3>3. scans[n] = Shell!Finished(scans[n - 1])
      <4>1. n \in 1 .. Len(longer) /\ longer[n] = Blank
          BY <1>1, <3>1
      <4> QED BY <1>2, <4>1 DEF Shell!Scanned
    <3>4. CASE n = m + 1
        BY <1>1, <1>7, <3>1, <3>3, <3>4
    <3>5. CASE n # m + 1
      <4>1. scans[n - 1] = done
          BY <1>1, <3>1, <3>2, <3>5
      <4> QED BY <1>7, <3>1, <3>3, <4>1
    <3> QED BY <3>4, <3>5
  <2>2. T \subseteq Nat
      BY <1>1
  <2> HIDE DEF T
  <2>3. T = {}
      BY <2>1, <2>2, Least
  <2> QED BY <2>3 DEF T
<1>9. Shell!Finished(scans[Len(longer)]) = done
    BY <1>1, <1>7, <1>8
<1> QED BY <1>9 DEF Shell!Args, done, words, scans

-----------------------------------------------------------------------------
(* What was typed is on the row. *)

(* The row holds what was typed since the prompt, as long as the cursor is *)
(* where that would put it; and nothing is typed while something prints.   *)
TypedOnRow ==
    terminal => /\ pending # <<>> => typed = <<>>
                /\ cursor_x = PromptLen + Len(typed) =>
                      \A i \in 1 .. Len(typed) :
                          text_grid[At(cursor_y, PromptLen + i - 1)] = typed[i]

EnterInv == WindowInv /\ TypedOnRow

LEMMA Columns == ASSUME NEW row \in Nat, NEW a \in Int, NEW b \in Int, At(row, a) = At(row, b)
                 PROVE  a = b
<1>1. row * Cols \in Int
    BY GridAssumption
<1> QED BY <1>1 DEF At

LEMMA TypeOnRow ==
    ASSUME EnterInv, NEW c \in Chars, TypeKey(c), terminal, cursor_x' = PromptLen + Len(typed')
    PROVE  \A i \in 1 .. Len(typed') : text_grid'[At(cursor_y', PromptLen + i - 1)] = typed'[i]
<1> USE GridAssumption
<1> DEFINE here  == At(cursor_y, cursor_x)
           put   == [text_grid EXCEPT ![here] = c]
           ended == [put EXCEPT ![At(cursor_y, cursor_x + 1)] = Nul]
           m == Len(typed)
<1>1. /\ TypeOK /\ CursorInRow /\ typed \in Seq(Chars)
      /\ cursor_y \in 0 .. Rows - 1 /\ cursor_x \in 0 .. Cols - 1
      /\ text_grid \in [Cells -> Chars \cup {Nul}]
      /\ PromptLen \in Nat
    BY PromptLength DEF EnterInv, WindowInv, TermTypeOK, TypeOK
<1>2. /\ m \in Nat /\ Len(typed') = m + 1
      /\ \A i \in 1 .. m : typed'[i] = typed[i]
      /\ typed'[m + 1] = c
  <2>1. typed' = Append(typed, c)
      BY DEF TypeKey
  <2> QED BY <1>1, <2>1, AppendProperties, LenProperties
<1>3. cursor_x + 1 < Cols
  <2> SUFFICES ASSUME ~ (cursor_x + 1 < Cols) PROVE FALSE
      OBVIOUS
  <2>1. cursor_x' = 0
      BY DEF TypeKey, Put, MoveOn
  <2> QED BY <1>1, <1>2, <2>1
<1>4. text_grid' = ended /\ cursor_x' = cursor_x + 1 /\ cursor_y' = cursor_y
    BY <1>1, <1>3 DEF TypeKey, Put, MoveOn
<1>5. cursor_x = PromptLen + m
  <2>1. cursor_x' = PromptLen + (m + 1)
      BY <1>2
  <2>2. cursor_x + 1 = PromptLen + (m + 1)
      BY <1>4, <2>1
  <2> HIDE DEF m
  <2> QED BY <1>1, <1>2, <2>2
<1>6. \A i \in 1 .. m : text_grid[At(cursor_y, PromptLen + i - 1)] = typed[i]
    BY <1>5 DEF EnterInv, TypedOnRow
<1>7. ASSUME NEW col \in 0 .. cursor_x PROVE ended[At(cursor_y, col)] = put[At(cursor_y, col)]
  <2>1. col \in 0 .. Cols - 1 /\ col # cursor_x + 1 /\ col \in Int /\ cursor_x + 1 \in Int
      BY <1>1
  <2>2. At(cursor_y, col) \in Cells /\ At(cursor_y, col) # At(cursor_y, cursor_x + 1)
      BY <1>1, <2>1, CellInGrid, Columns
  <2>3. DOMAIN put = Cells
      BY <1>1
  <2> HIDE DEF put
  <2> QED BY <2>2, <2>3
<1>8. ASSUME NEW col \in 0 .. cursor_x - 1 PROVE put[At(cursor_y, col)] = text_grid[At(cursor_y, col)]
  <2>1. col \in 0 .. Cols - 1 /\ col # cursor_x /\ col \in Int /\ cursor_x \in Int
      BY <1>1
  <2>2. At(cursor_y, col) \in Cells /\ At(cursor_y, col) # here
      BY <1>1, <2>1, CellInGrid, Columns
  <2> HIDE DEF here
  <2> QED BY <1>1, <2>2
<1>9. put[here] = c
    BY <1>1, CursorHasCell DEF CursorOnGrid
<1> HIDE DEF put, ended
<1> SUFFICES ASSUME NEW i \in 1 .. m + 1
             PROVE  ended[At(cursor_y, PromptLen + i - 1)] = typed'[i]
    BY <1>2, <1>4
<1>10. CASE i \in 1 .. m
  <2>1. PromptLen + i - 1 \in 0 .. cursor_x - 1 /\ PromptLen + i - 1 \in 0 .. cursor_x
      BY <1>1, <1>2, <1>5, <1>10
  <2> QED BY <1>2, <1>6, <1>7, <1>8, <1>10, <2>1
<1>11. CASE i = m + 1
  <2>1. PromptLen + i - 1 = cursor_x /\ cursor_x \in 0 .. cursor_x
      BY <1>1, <1>2, <1>5, <1>11
  <2> QED BY <1>2, <1>7, <1>9, <1>11, <2>1
<1> QED BY <1>2, <1>10, <1>11

LEMMA EraseOnRow ==
    ASSUME EnterInv, BackspaceKey, terminal, cursor_x' = PromptLen + Len(typed')
    PROVE  \A i \in 1 .. Len(typed') : text_grid'[At(cursor_y', PromptLen + i - 1)] = typed'[i]
<1> USE GridAssumption
<1> DEFINE m == Len(typed)
<1>1. /\ TypeOK /\ typed \in Seq(Chars)
      /\ cursor_y \in 0 .. Rows - 1 /\ cursor_x \in 0 .. Cols - 1
      /\ text_grid \in [Cells -> Chars \cup {Nul}]
      /\ PromptLen \in Nat /\ m \in Nat
    BY PromptLength, LenProperties DEF EnterInv, WindowInv, TermTypeOK, TypeOK
<1>2. /\ text_grid' = [text_grid EXCEPT ![At(cursor_y, cursor_x - 1)] = Blank]
      /\ cursor_x' = cursor_x - 1 /\ cursor_y' = cursor_y
  <2>1. cursor_x > 0
      BY <1>1 DEF BackspaceKey, BackspaceAllowed
  <2> QED BY <2>1 DEF BackspaceKey, Backspace, EraseLeft, EraseUp, EraseNothing
<1>3. CASE typed = <<>>
    BY <1>3 DEF BackspaceKey
<1>4. CASE typed # <<>>
  <2>1. typed' = Front(typed)
      BY <1>4 DEF BackspaceKey
  <2>2. m # 0
      BY <1>1, <1>4, EmptySeq
  <2>3. Len(typed') = m - 1 /\ \A i \in 1 .. m - 1 : typed'[i] = typed[i]
    <3>1. typed' = [i \in 1 .. m - 1 |-> typed[i]]
        BY <1>1, <2>1, <2>2 DEF Front
    <3> QED BY <1>1, <2>2, <3>1
  <2>4. cursor_x = PromptLen + m
    <3>1. cursor_x - 1 = PromptLen + (m - 1)
        BY <1>2, <2>3
    <3> HIDE DEF m
    <3> QED BY <1>1, <3>1
  <2>5. \A i \in 1 .. m : text_grid[At(cursor_y, PromptLen + i - 1)] = typed[i]
      BY <2>4 DEF EnterInv, TypedOnRow
  <2> SUFFICES ASSUME NEW i \in 1 .. m - 1
               PROVE  text_grid'[At(cursor_y, PromptLen + i - 1)] = typed[i]
      BY <1>2, <2>3
  <2>6. At(cursor_y, PromptLen + i - 1) # At(cursor_y, cursor_x - 1)
    <3>1. PromptLen + i - 1 # cursor_x - 1 /\ PromptLen + i - 1 \in Int /\ cursor_x - 1 \in Int
        BY <1>1, <2>4
    <3> QED BY <1>1, <3>1, Columns
  <2>7. i \in 1 .. m
      BY <1>1
  <2> QED BY <1>2, <2>5, <2>6, <2>7
<1> QED BY <1>3, <1>4

LEMMA RowStep == ASSUME EnterInv, TermNext PROVE TypedOnRow'
<1> SUFFICES ASSUME terminal'
             PROVE  /\ pending' # <<>> => typed' = <<>>
                    /\ cursor_x' = PromptLen + Len(typed') =>
                         \A i \in 1 .. Len(typed') :
                             text_grid'[At(cursor_y', PromptLen + i - 1)] = typed'[i]
    BY DEF TypedOnRow, At, PromptLen
<1>1. terminal
    BY DEF TermNext, PrintPending, TypeKey, BackspaceKey, EnterKey, EnterExit, EnterPlain
<1>2. CASE typed' = <<>>
    BY <1>2
<1>3. ASSUME NEW c \in Chars, TypeKey(c) PROVE pending' = <<>>
    BY <1>3 DEF TypeKey
<1>4. CASE BackspaceKey
    BY <1>1, <1>4, EraseOnRow DEF BackspaceKey
<1>5. CASE PrintPending
    BY <1>1, <1>2, <1>5 DEF PrintPending, EnterInv, TypedOnRow
<1> QED BY <1>1, <1>2, <1>3, <1>4, <1>5, TypeOnRow
        DEF TermNext, EnterKey, EnterExit, EnterPlain

(* What is read from the row is what was typed, and blanks. *)
LEMMA CommandIs ==
    ASSUME EnterInv, terminal, cursor_x = PromptLen + Len(typed)
    PROVE  /\ Command \in Text /\ Len(typed) <= Len(Command)
           /\ \A i \in 1 .. Len(typed) : Command[i] = typed[i]
           /\ \A i \in Len(typed) + 1 .. Len(Command) : Command[i] = Blank
<1> USE GridAssumption, CharAssumption
<1> DEFINE m == Len(typed)
           end == TextEnd(cursor_y, PromptLen)
           n == end - PromptLen
           cell(i) == text_grid[At(cursor_y, PromptLen + i - 1)]
<1>1. /\ TypeOK /\ typed \in Seq(Chars)
      /\ cursor_y \in 0 .. Rows - 1 /\ cursor_x \in 0 .. Cols - 1
      /\ text_grid \in [Cells -> Chars \cup {Nul}]
      /\ PromptLen \in 0 .. Cols /\ m \in Nat
      /\ BlankFrom(text_grid, At(cursor_y, cursor_x))
    BY PromptLength, PromptAssumption, LenProperties DEF EnterInv, WindowInv, TermTypeOK, TypeOK
<1>2. \A i \in 1 .. m : cell(i) = typed[i] /\ typed[i] \in Chars
    BY <1>1, ElementOfSeq DEF EnterInv, TypedOnRow
<1>3. /\ end \in PromptLen .. Cols
      /\ \A col \in PromptLen .. end - 1 : text_grid[At(cursor_y, col)] # Nul
      /\ end < Cols => text_grid[At(cursor_y, end)] = Nul
    BY <1>1, TextEnds
<1> HIDE DEF end
<1>4. end >= cursor_x
  <2> SUFFICES ASSUME end < cursor_x PROVE FALSE
      BY <1>1, <1>3
  <2>1. end - PromptLen + 1 \in 1 .. m /\ PromptLen + (end - PromptLen + 1) - 1 = end
      BY <1>1, <1>3
  <2>2. text_grid[At(cursor_y, end)] \in Chars
      BY <1>2, <2>1
  <2> QED BY <1>1, <1>3, <2>2 DEF Chars
<1>5. n \in Nat /\ m <= n
    BY <1>1, <1>3, <1>4
<1>6. \A i \in 1 .. n : PromptLen + i - 1 \in PromptLen .. end - 1 /\ PromptLen + i - 1 \in 0 .. Cols - 1
    BY <1>1, <1>3
<1>7. \A i \in 1 .. n : cell(i) \in Chars
  <2> SUFFICES ASSUME NEW i \in 1 .. n PROVE cell(i) \in Chars
      OBVIOUS
  <2>1. At(cursor_y, PromptLen + i - 1) \in Cells
      BY <1>1, <1>6, CellInGrid
  <2> QED BY <1>1, <1>3, <1>6, <2>1
<1>8. \A i \in m + 1 .. n : cell(i) = Blank
  <2> SUFFICES ASSUME NEW i \in m + 1 .. n PROVE cell(i) = Blank
      OBVIOUS
  <2>1. i \in 1 .. n /\ PromptLen + i - 1 \in Nat /\ cursor_x <= PromptLen + i - 1
      BY <1>1, <1>5
  <2>2. At(cursor_y, PromptLen + i - 1) \in Cells
      BY <1>1, <1>6, <2>1, CellInGrid
  <2>3. At(cursor_y, cursor_x) <= At(cursor_y, PromptLen + i - 1)
    <3>1. cursor_y * Cols \in Int
        BY <1>1
    <3> QED BY <1>1, <2>1, <3>1 DEF At
  <2>4. cell(i) \in {Blank, Nul}
      BY <1>1, <2>2, <2>3 DEF BlankFrom
  <2>5. cell(i) # Nul
      BY <1>3, <1>6, <2>1
  <2> QED BY <2>4, <2>5
<1>9. Command = [i \in 1 .. n |-> cell(i)]
    BY DEF Command, end
<1> HIDE DEF n, cell
<1>10. Command \in [1 .. n -> Chars]
    BY <1>7, <1>9
<1>11. Command \in Seq(Chars) /\ Len(Command) = n
  <2>1. Command \in Seq(Chars)
      BY <1>5, <1>10, SeqDef
  <2>2. 1 .. Len(Command) = 1 .. n /\ Len(Command) \in Nat
      BY <1>10, <2>1, LenProperties
  <2> QED BY <1>5, <2>1, <2>2
<1>12. \A i \in 1 .. m : Command[i] = typed[i]
    BY <1>1, <1>2, <1>5, <1>9
<1>13. \A i \in m + 1 .. n : Command[i] = Blank
    BY <1>1, <1>5, <1>8, <1>9
<1> QED BY <1>5, <1>11, <1>12, <1>13 DEF Text

(* Enter gives the shell the words that were typed and not erased, for     *)
(* every prompt, row and room for words: the row holds them from the       *)
(* prompt on and only blanks behind them (TerminalWindow::inject_key), and *)
(* the one pass over it finds each word, cut where there is no room for    *)
(* more (Shell::eval_user_input).                                          *)
THEOREM EnterReads == TermSpec => []EnterReadsTyped
<1>1. TermInit => TypedOnRow
  <2>1. TermInit => typed = <<>>
      BY DEF TermInit
  <2> QED BY <2>1 DEF TypedOnRow
<1>2. EnterInv /\ [TermNext]_termVars => TypedOnRow'
  <2>1. EnterInv /\ UNCHANGED termVars => TypedOnRow'
      BY DEF EnterInv, TypedOnRow, termVars, gridVars, At, PromptLen
  <2> QED BY <2>1, RowStep
<1>3. TermSpec => []TypedOnRow
    BY <1>1, <1>2, Holds, PTL DEF TermSpec, EnterInv
<1>4. EnterInv => EnterReadsTyped
  <2> SUFFICES ASSUME EnterInv, terminal, cursor_x = PromptLen + Len(typed)
               PROVE  Shell!Args(Command) = Shell!Words(typed)
      BY DEF EnterReadsTyped
  <2>1. typed \in Text
      BY DEF EnterInv, WindowInv, TermTypeOK, Text
  <2> QED BY <2>1, CommandIs, ArgsFound
<1> QED BY <1>3, <1>4, Holds, PTL DEF EnterInv

-----------------------------------------------------------------------------
(* In a terminal a character is put where the cursor stands, the one       *)
(* before it is erased, or the cursor goes to a new row.                   *)
LEMMA TerminalStep ==
    ASSUME WindowInv, TermNext, terminal
    PROVE  terminal' /\ (NewLine \/ EraseLeft \/ \E c \in Chars : Put(c))
<1>1. TypeOK /\ pending \in Seq(Chars \cup {LF}) /\ cursor_x \in 0 .. Cols
    BY DEF WindowInv, TermTypeOK, TypeOK
<1>2. CASE PrintPending
  <2>1. Head(pending) \in Chars \cup {LF}
      BY <1>1, <1>2 DEF PrintPending
  <2> QED BY <1>2, <2>1 DEF PrintPending
<1>3. CASE BackspaceKey
  <2>1. cursor_x > 0
      BY <1>1, <1>3, PromptLength DEF BackspaceKey, BackspaceAllowed
  <2> QED BY <1>3, <2>1 DEF BackspaceKey, Backspace, EraseUp, EraseNothing
<1>4. ASSUME NEW c \in Chars, TypeKey(c) PROVE terminal' /\ Put(c)
    BY <1>4 DEF TypeKey
<1> QED BY <1>2, <1>3, <1>4 DEF TermNext, EnterKey, EnterExit, EnterPlain

-----------------------------------------------------------------------------
(* Rows. *)

(* No row is cut short before the cursor. *)
TextBefore == terminal => \A col \in 0 .. cursor_x - 1 : text_grid[At(cursor_y, col)] # Nul

(* Where each row's text ends. *)
RowEnds == \A row \in Nat :
             /\ RowLength(row) \in 0 .. Cols
             /\ \A col \in 0 .. RowLength(row) - 1 : text_grid[At(row, col)] # Nul
             /\ RowLength(row) < Cols => text_grid[At(row, RowLength(row))] = Nul

LEMMA RowsEnd == RowEnds
<1>1. 0 \in 0 .. Cols
    BY GridAssumption
<1> QED BY <1>1, TextEnds DEF RowEnds, RowLength

LEMMA RowsEndAfter == RowEnds'
BY RowsEnd, PTL

(* Two grids with the same cells in a row have the same text there. *)
LineOf(row) == Trimmed(RowText(row, RowLength(row)), Blank)

LEMMA RowMoved ==
    ASSUME NEW r \in Nat, NEW s \in Nat,
           \A col \in 0 .. Cols - 1 : text_grid'[At(r, col)] = text_grid[At(s, col)]
    PROVE  LineOf(r)' = LineOf(s)
<1> DEFINE m == RowLength(r)'
           n == RowLength(s)
<1>1. /\ m \in 0 .. Cols
      /\ \A col \in 0 .. m - 1 : text_grid'[At(r, col)] # Nul
      /\ m < Cols => text_grid'[At(r, m)] = Nul
    BY RowsEndAfter DEF RowEnds, At
<1>2. /\ n \in 0 .. Cols
      /\ \A col \in 0 .. n - 1 : text_grid[At(s, col)] # Nul
      /\ n < Cols => text_grid[At(s, n)] = Nul
    BY RowsEnd DEF RowEnds
<1> HIDE DEF m, n
<1>3. m = n
  <2>1. CASE m < n
      BY <1>1, <1>2, <2>1, GridAssumption
  <2>2. CASE n < m
      BY <1>1, <1>2, <2>2, GridAssumption
  <2> QED BY <1>1, <1>2, <2>1, <2>2, GridAssumption
<1>4. [i \in 1 .. m |-> text_grid'[At(r, i - 1)]] = [i \in 1 .. n |-> text_grid[At(s, i - 1)]]
  <2>1. \A i \in 1 .. n : text_grid'[At(r, i - 1)] = text_grid[At(s, i - 1)]
      BY <1>2, GridAssumption
  <2> QED BY <1>3, <2>1
<1>5. RowText(r, RowLength(r))' = [i \in 1 .. m |-> text_grid'[At(r, i - 1)]]
    BY DEF RowText, m, At
<1>6. RowText(s, RowLength(s)) = [i \in 1 .. n |-> text_grid[At(s, i - 1)]]
    BY DEF RowText, n
<1>7. RowText(r, RowLength(r))' = RowText(s, RowLength(s))
    BY <1>4, <1>5, <1>6
<1> QED BY <1>7 DEF LineOf

(* A line has one end. *)
EndsAt(line, n) == /\ \A i \in n + 1 .. Len(line) : line[i] = Blank
                   /\ n > 0 => line[n] # Blank

LEMMA TrimmedAt ==
    ASSUME NEW line \in Text
    PROVE  \E n \in 0 .. Len(line) : EndsAt(line, n) /\ Trimmed(line, Blank) = SubSeq(line, 1, n)
<1> DEFINE T == {n \in 0 .. Len(line) : \A i \in n + 1 .. Len(line) : line[i] = Blank}
<1>1. Len(line) \in Nat
    BY LenProperties DEF Text
<1>2. PICK n \in T : \A k \in T : n <= k
  <2>1. Len(line) \in T /\ T \subseteq Nat
      BY <1>1
  <2> HIDE DEF T
  <2> QED BY <2>1, Least
<1>3. n \in 0 .. Len(line) /\ EndsAt(line, n)
  <2>1. ASSUME n > 0, line[n] = Blank PROVE FALSE
    <3>1. n - 1 \in T
        BY <1>1, <1>2, <2>1
    <3>2. n \in Int
        BY <1>1
    <3> HIDE DEF T
    <3> QED BY <1>2, <3>1, <3>2
  <2> QED BY <1>2, <2>1 DEF EndsAt
<1>4. ASSUME NEW k \in 0 .. Len(line), EndsAt(line, k) PROVE k = n
  <2>1. CASE k < n
      BY <1>1, <1>3, <1>4, <2>1 DEF EndsAt
  <2>2. CASE n < k
      BY <1>1, <1>3, <1>4, <2>2 DEF EndsAt
  <2> QED BY <1>1, <1>3, <2>1, <2>2
<1>5. (CHOOSE k \in 0 .. Len(line) : EndsAt(line, k)) = n
  <2> HIDE DEF T
  <2> QED BY <1>3, <1>4
<1>6. Trimmed(line, Blank) = SubSeq(line, 1, n)
    BY <1>5 DEF Trimmed, EndsAt
<1> QED BY <1>3, <1>6

LEMMA TrimmedTyped == ASSUME NEW line \in Text PROVE Trimmed(line, Blank) \in Text
<1>1. PICK n \in 0 .. Len(line) : Trimmed(line, Blank) = SubSeq(line, 1, n)
    BY TrimmedAt
<1>2. Len(line) \in Nat /\ \A i \in 1 .. n : line[i] \in Chars
    BY LenProperties, ElementOfSeq DEF Text
<1> QED BY <1>1, <1>2, SubSeqProperties DEF Text

(* Blanks behind a line are trimmed away. *)
LEMMA TrimmedAlike ==
    ASSUME NEW line \in Text, NEW longer \in Text, Len(line) <= Len(longer),
           \A i \in 1 .. Len(line) : longer[i] = line[i],
           \A i \in Len(line) + 1 .. Len(longer) : longer[i] = Blank
    PROVE  Trimmed(longer, Blank) = Trimmed(line, Blank)
<1>1. Len(line) \in Nat /\ Len(longer) \in Nat
    BY LenProperties DEF Text
<1>2. PICK n \in 0 .. Len(line) : EndsAt(line, n) /\ Trimmed(line, Blank) = SubSeq(line, 1, n)
    BY TrimmedAt
<1>3. PICK k \in 0 .. Len(longer) : EndsAt(longer, k) /\ Trimmed(longer, Blank) = SubSeq(longer, 1, k)
    BY TrimmedAt
<1>4. k = n
  <2>1. CASE k < n
      BY <1>1, <1>2, <1>3, <2>1 DEF EndsAt
  <2>2. CASE n < k
      BY <1>1, <1>2, <1>3, <2>2 DEF EndsAt
  <2> QED BY <1>1, <1>2, <1>3, <2>1, <2>2
<1>5. SubSeq(longer, 1, n) = SubSeq(line, 1, n)
  <2>1. /\ SubSeq(line, 1, n) \in Seq(Chars) /\ Len(SubSeq(line, 1, n)) = n
        /\ \A i \in 1 .. n : SubSeq(line, 1, n)[i] = line[i]
      BY <1>1, SubSeqProperties, ElementOfSeq DEF Text
  <2>2. /\ SubSeq(longer, 1, n) \in Seq(Chars) /\ Len(SubSeq(longer, 1, n)) = n
        /\ \A i \in 1 .. n : SubSeq(longer, 1, n)[i] = longer[i]
      BY <1>1, SubSeqProperties, ElementOfSeq DEF Text
  <2> QED BY <1>1, <2>1, <2>2, SeqEqual
<1> QED BY <1>2, <1>3, <1>4, <1>5

-----------------------------------------------------------------------------
(* The page. *)

PageInv == WindowInv /\ TextBefore

LEMMA RowChars ==
    ASSUME TypeOK, NEW row \in 0 .. Rows - 1, NEW n \in 0 .. Cols,
           \A col \in 0 .. n - 1 : text_grid[At(row, col)] # Nul
    PROVE  /\ RowText(row, n) \in Text /\ Len(RowText(row, n)) = n
           /\ \A i \in 1 .. n : RowText(row, n)[i] = text_grid[At(row, i - 1)]
<1>1. n \in Nat /\ RowText(row, n) = [i \in 1 .. n |-> text_grid[At(row, i - 1)]]
    BY GridAssumption DEF RowText
<1>2. \A i \in 1 .. n : text_grid[At(row, i - 1)] \in Chars
  <2> SUFFICES ASSUME NEW i \in 1 .. n PROVE text_grid[At(row, i - 1)] \in Chars
      OBVIOUS
  <2>1. i - 1 \in 0 .. Cols - 1 /\ i - 1 \in 0 .. n - 1
      BY GridAssumption
  <2>2. At(row, i - 1) \in Cells
      BY <2>1, CellInGrid
  <2> QED BY <2>1, <2>2 DEF TypeOK
<1> DEFINE row_text == RowText(row, n)
<1>3. row_text \in [1 .. n -> Chars]
    BY <1>1, <1>2
<1>4. \A i \in 1 .. n : row_text[i] = text_grid[At(row, i - 1)]
    BY <1>1
<1> HIDE DEF row_text
<1>5. row_text \in Seq(Chars)
    BY <1>1, <1>3, SeqDef
<1>6. 1 .. Len(row_text) = 1 .. n /\ Len(row_text) \in Nat
    BY <1>3, <1>5, LenProperties
<1> QED BY <1>1, <1>4, <1>5, <1>6 DEF row_text, Text

LEMMA LineTyped == ASSUME TypeOK, NEW row \in 0 .. Rows - 1
                   PROVE  LineOf(row) \in Text
<1>1. row \in Nat
    BY GridAssumption
<1>2. RowLength(row) \in 0 .. Cols /\ \A col \in 0 .. RowLength(row) - 1 : text_grid[At(row, col)] # Nul
    BY <1>1, RowsEnd DEF RowEnds
<1>3. RowText(row, RowLength(row)) \in Text
    BY <1>2, RowChars
<1> HIDE DEF RowEnds
<1> QED BY <1>3, TrimmedTyped DEF LineOf

(* Its finished lines and the open one. *)
PageShape ==
    /\ PageNow \in Seq(Text) /\ Len(PageNow) = cursor_y + 1 /\ cursor_y \in 0 .. Rows - 1
    /\ PageNow[cursor_y + 1] = RowText(cursor_y, cursor_x)
    /\ \A i \in 1 .. cursor_y : PageNow[i] = LineOf(i - 1)
    /\ Last(PageNow) = PageNow[cursor_y + 1]
    /\ Front(PageNow) \in Seq(Text) /\ Len(Front(PageNow)) = cursor_y
    /\ \A i \in 1 .. cursor_y : Front(PageNow)[i] = LineOf(i - 1)
    /\ RowText(cursor_y, cursor_x) \in Text
    /\ Len(RowText(cursor_y, cursor_x)) = cursor_x
    /\ \A i \in 1 .. cursor_x : RowText(cursor_y, cursor_x)[i] = text_grid[At(cursor_y, i - 1)]

LEMMA PageIs == PageInv /\ terminal => PageShape
<1> SUFFICES ASSUME PageInv, terminal PROVE PageShape
    OBVIOUS
<1> USE GridAssumption
<1>1. /\ TypeOK /\ cursor_y \in 0 .. Rows - 1 /\ cursor_x \in 0 .. Cols
      /\ \A col \in 0 .. cursor_x - 1 : text_grid[At(cursor_y, col)] # Nul
    BY DEF PageInv, WindowInv, TermTypeOK, TypeOK, TextBefore
<1>2. /\ RowText(cursor_y, cursor_x) \in Text /\ Len(RowText(cursor_y, cursor_x)) = cursor_x
      /\ \A i \in 1 .. cursor_x : RowText(cursor_y, cursor_x)[i] = text_grid[At(cursor_y, i - 1)]
    BY <1>1, RowChars
<1>3. \A i \in 1 .. cursor_y : LineOf(i - 1) \in Text
    BY <1>1, LineTyped
<1> DEFINE n == cursor_y + 1
           page == PageNow
<1>4. page = [i \in 1 .. n |-> IF i = n THEN RowText(cursor_y, cursor_x) ELSE LineOf(i - 1)]
    BY DEF PageNow, LineOf
<1>5. n \in Nat \ {0} /\ n - 1 = cursor_y
    BY <1>1
<1>6. page \in [1 .. n -> Text]
  <2>1. \A i \in 1 .. n : i # n => i \in 1 .. cursor_y
      BY <1>5
  <2> HIDE DEF n
  <2> QED BY <1>2, <1>3, <1>4, <2>1
<1>7. page[n] = RowText(cursor_y, cursor_x) /\ \A i \in 1 .. cursor_y : page[i] = LineOf(i - 1)
    BY <1>1, <1>4
<1> HIDE DEF page, n
<1>8. page \in Seq(Text)
    BY <1>5, <1>6, SeqDef
<1>9. Len(page) = n
  <2>1. 1 .. Len(page) = 1 .. n /\ Len(page) \in Nat
      BY <1>6, <1>8, LenProperties
  <2> QED BY <1>5, <2>1
<1>10. /\ Front(page) \in Seq(Text) /\ Len(Front(page)) = cursor_y
       /\ \A i \in 1 .. cursor_y : Front(page)[i] = page[i]
  <2>1. Front(page) = SubSeq(page, 1, cursor_y)
      BY <1>5, <1>9 DEF Front
  <2>2. \A i \in 1 .. cursor_y : page[i] \in Text
      BY <1>3, <1>7
  <2> QED BY <1>1, <2>1, <2>2, SubSeqProperties
<1>11. Last(page) = page[n]
    BY <1>9 DEF Last
<1> QED BY <1>1, <1>2, <1>7, <1>8, <1>9, <1>10, <1>11 DEF page, n, PageShape

LEMMA PageIsAfter == PageInv' /\ terminal' => PageShape'
BY PageIs, PTL

(* A change of the open line. *)
LEMMA LineOpen ==
    ASSUME PageShape, PageShape', cursor_y' = cursor_y,
           \A row \in 0 .. cursor_y - 1, col \in 0 .. Cols - 1 :
               text_grid'[At(row, col)] = text_grid[At(row, col)]
    PROVE  PageNow' = Append(Front(PageNow), RowText(cursor_y, cursor_x)')
<1> USE GridAssumption
<1> DEFINE page == PageNow'
           open == RowText(cursor_y, cursor_x)'
           longer == Append(Front(PageNow), open)
<1>1. /\ cursor_y \in 0 .. Rows - 1
      /\ page \in Seq(Text) /\ Len(page) = cursor_y + 1
      /\ open \in Text /\ page[cursor_y + 1] = open
      /\ Front(PageNow) \in Seq(Text) /\ Len(Front(PageNow)) = cursor_y
    BY DEF PageShape
<1>2. /\ longer \in Seq(Text) /\ Len(longer) = cursor_y + 1
      /\ \A i \in 1 .. cursor_y : longer[i] = Front(PageNow)[i]
      /\ longer[cursor_y + 1] = open
    BY <1>1, AppendProperties
<1>3. ASSUME NEW i \in 1 .. cursor_y PROVE page[i] = Front(PageNow)[i]
  <2>1. page[i] = LineOf(i - 1)' /\ Front(PageNow)[i] = LineOf(i - 1)
      BY <1>1 DEF PageShape
  <2>2. i - 1 \in 0 .. cursor_y - 1 /\ i - 1 \in Nat
      BY <1>1
  <2>3. \A col \in 0 .. Cols - 1 : text_grid'[At(i - 1, col)] = text_grid[At(i - 1, col)]
      BY <2>2
  <2>4. LineOf(i - 1)' = LineOf(i - 1)
      BY <2>2, <2>3, RowMoved
  <2> QED BY <2>1, <2>4
<1> HIDE DEF page, longer, open
<1>4. \A i \in 1 .. Len(page) : page[i] = longer[i]
    BY <1>1, <1>2, <1>3
<1>5. page = longer
    BY <1>1, <1>2, <1>4, SeqEqual
<1> QED BY <1>5 DEF page, longer, open

LEMMA ScrolledCell ==
    ASSUME NEW grid, NEW row \in 0 .. Rows - 2, NEW col \in 0 .. Cols - 1
    PROVE  Scrolled(grid)[At(row, col)] = grid[At(row + 1, col)]
<1> USE GridAssumption
<1>1. At(row, col) \in Cells
    BY CellInGrid
<1>2. /\ row \in Nat /\ row + 1 <= Rows - 1 /\ Rows - 1 \in Nat
      /\ row * Cols \in Nat /\ (row + 1) * Cols = row * Cols + Cols
      /\ (row + 1) * Cols <= (Rows - 1) * Cols /\ (Rows - 1) * Cols \in Nat
    BY RowOrder
<1>3. At(row, col) < (Rows - 1) * Cols /\ At(row, col) + Cols = At(row + 1, col)
    BY <1>2 DEF At
<1> QED BY <1>1, <1>3 DEF Scrolled

(* A line that is finished: it is trimmed, and the next one is open, on    *)
(* the next row or on the last one after a scroll.                         *)
LEMMA LineFinished ==
    ASSUME PageShape, PageShape', TypeOK', NEW line \in Text,
           NEW grid, MoveOn(grid, 0, cursor_y + 1),
           \A row \in 0 .. cursor_y - 1, col \in 0 .. Cols - 1 :
               grid[At(row, col)] = text_grid[At(row, col)],
           Len(line) <= Cols,
           \A i \in 1 .. Len(line) : grid[At(cursor_y, i - 1)] = line[i],
           \A col \in Len(line) .. Cols - 1 : grid[At(cursor_y, col)] \in {Blank, Nul}
    PROVE  PageNow' = Shown!LastRows(Append(Front(PageNow), Trimmed(line, Blank)) \o <<<<>>>>)
<1> USE GridAssumption
<1> DEFINE d == IF cursor_y + 1 < Rows THEN 0 ELSE 1
           page == PageNow'
           last == Trimmed(line, Blank)
           front == Front(PageNow)
           more == Append(front, last) \o <<<<>>>>
<1>1. /\ cursor_y \in 0 .. Rows - 1 /\ d \in {0, 1}
      /\ front \in Seq(Text) /\ Len(front) = cursor_y
      /\ \A i \in 1 .. cursor_y : front[i] = LineOf(i - 1)
      /\ page \in Seq(Text) /\ Len(page) = cursor_y' + 1
      /\ cursor_x' = 0 /\ cursor_y' = cursor_y + 1 - d
    BY DEF PageShape, MoveOn
<1>2. ASSUME NEW row \in 0 .. cursor_y' - 1, NEW col \in 0 .. Cols - 1
      PROVE  text_grid'[At(row, col)] = grid[At(row + d, col)]
  <2>1. CASE d = 0
      BY <2>1 DEF MoveOn
  <2>2. CASE d = 1
    <3>1. text_grid' = Scrolled(grid)
        BY <2>2 DEF MoveOn
    <3>2. row \in 0 .. Rows - 2
        BY <1>1, <2>2
    <3> QED BY <2>2, <3>1, <3>2, ScrolledCell
  <2> QED BY <1>1, <2>1, <2>2
<1>3. last \in Text /\ Len(line) \in Nat
    BY TrimmedTyped, LenProperties DEF Text
<1>4. ASSUME NEW row \in 0 .. cursor_y' - 1, row + d # cursor_y
      PROVE  LineOf(row)' = front[row + d + 1]
  <2>1. row \in Nat /\ row + d \in Nat /\ row + d \in 0 .. cursor_y - 1 /\ row + d + 1 \in 1 .. cursor_y
      BY <1>1, <1>4
  <2>2. \A col \in 0 .. Cols - 1 : text_grid'[At(row, col)] = text_grid[At(row + d, col)]
      BY <1>2, <2>1
  <2> HIDE DEF d
  <2>3. LineOf(row)' = LineOf(row + d)
      BY <2>1, <2>2, RowMoved
  <2> QED BY <1>1, <2>1, <2>3
<1>5. ASSUME NEW row \in 0 .. cursor_y' - 1, row + d = cursor_y
      PROVE  LineOf(row)' = last
  <2> DEFINE n == RowLength(row)'
             longer == RowText(row, RowLength(row))'
  <2>1. row \in 0 .. Rows - 1 /\ row \in Nat
      BY <1>1
  <2>2. /\ n \in 0 .. Cols
        /\ \A col \in 0 .. n - 1 : text_grid'[At(row, col)] # Nul
        /\ n < Cols => text_grid'[At(row, n)] = Nul
      BY <2>1, RowsEndAfter DEF RowEnds, At
  <2>3. longer = [i \in 1 .. n |-> text_grid'[At(row, i - 1)]]
      BY DEF RowText, At
  <2> HIDE DEF n, longer, d, last
  <2>4. \A col \in 0 .. Cols - 1 : text_grid'[At(row, col)] = grid[At(cursor_y, col)]
      BY <1>2, <1>5
  <2>5. n >= Len(line)
    <3> SUFFICES ASSUME n < Len(line) PROVE FALSE
        BY <1>3, <2>2
    <3>1. n + 1 \in 1 .. Len(line) /\ n + 1 - 1 = n /\ n \in 0 .. Cols - 1
        BY <1>3, <2>2
    <3>2. grid[At(cursor_y, n)] = line[n + 1] /\ line[n + 1] \in Chars
        BY <3>1, ElementOfSeq DEF Text
    <3> QED BY <2>2, <2>4, <3>1, <3>2, CharAssumption DEF Chars
  <2>6. /\ longer \in Text /\ Len(longer) = n
        /\ \A i \in 1 .. n : longer[i] = text_grid'[At(row, i - 1)]
    <3>1. \A i \in 1 .. n : text_grid'[At(row, i - 1)] \in Chars
      <4> SUFFICES ASSUME NEW i \in 1 .. n PROVE text_grid'[At(row, i - 1)] \in Chars
          OBVIOUS
      <4>1. i - 1 \in 0 .. Cols - 1 /\ i - 1 \in 0 .. n - 1
          BY <2>2
      <4>2. At(row, i - 1) \in Cells
          BY <2>1, <4>1, CellInGrid
      <4> QED BY <2>2, <4>1, <4>2 DEF TypeOK
    <3>2. longer \in [1 .. n -> Chars] /\ n \in Nat
        BY <2>2, <2>3, <3>1
    <3>3. longer \in Seq(Chars)
        BY <3>2, SeqDef
    <3>4. 1 .. Len(longer) = 1 .. n /\ Len(longer) \in Nat
        BY <3>2, <3>3, LenProperties
    <3> QED BY <2>3, <3>2, <3>3, <3>4 DEF Text
  <2>7. \A i \in 1 .. Len(line) : longer[i] = line[i]
    <3> SUFFICES ASSUME NEW i \in 1 .. Len(line) PROVE longer[i] = line[i]
        OBVIOUS
    <3>1. i \in 1 .. n /\ i - 1 \in 0 .. Cols - 1
        BY <1>3, <2>2, <2>5
    <3> QED BY <2>4, <2>6, <3>1
  <2>8. \A i \in Len(line) + 1 .. Len(longer) : longer[i] = Blank
    <3> SUFFICES ASSUME NEW i \in Len(line) + 1 .. n PROVE longer[i] = Blank
        BY <2>6
    <3>1. i \in 1 .. n /\ i - 1 \in 0 .. n - 1 /\ i - 1 \in Len(line) .. Cols - 1 /\ i - 1 \in 0 .. Cols - 1
        BY <1>3, <2>2, <2>5
    <3> QED BY <2>2, <2>4, <2>6, <3>1
  <2>9. Trimmed(longer, Blank) = last
      BY <1>3, <2>2, <2>5, <2>6, <2>7, <2>8, TrimmedAlike DEF last
  <2> QED BY <2>9 DEF LineOf, longer
<1>6. RowText(cursor_y, cursor_x)' = <<>>
    BY <1>1 DEF RowText
<1>7. /\ \A i \in 1 .. cursor_y' : page[i] = LineOf(i - 1)'
      /\ page[cursor_y' + 1] = <<>>
    BY <1>6 DEF PageShape
<1> HIDE DEF last, front, page
<1>8. /\ more \in Seq(Text) /\ Len(more) = cursor_y + 2
      /\ \A i \in 1 .. cursor_y : more[i] = front[i]
      /\ more[cursor_y + 1] = last
      /\ more[cursor_y + 2] = <<>>
  <2> DEFINE s == Append(front, last)
  <2>1. /\ s \in Seq(Text) /\ Len(s) = cursor_y + 1
        /\ \A i \in 1 .. cursor_y : s[i] = front[i]
        /\ s[cursor_y + 1] = last
      BY <1>1, <1>3, AppendProperties
  <2>2. <<>> \in Text
      BY DEF Text
  <2> HIDE DEF s
  <2>3. s \o <<<<>>>> = Append(s, <<>>)
      BY <2>1, <2>2, AppendIsConcat
  <2>4. /\ Append(s, <<>>) \in Seq(Text) /\ Len(Append(s, <<>>)) = cursor_y + 2
        /\ \A i \in 1 .. cursor_y + 1 : Append(s, <<>>)[i] = s[i]
        /\ Append(s, <<>>)[cursor_y + 2] = <<>>
    <3>1. cursor_y + 1 + 1 = cursor_y + 2
        BY <1>1
    <3> QED BY <2>1, <2>2, <3>1, AppendProperties
  <2>5. \A i \in 1 .. cursor_y : i \in 1 .. cursor_y + 1
      BY <1>1
  <2>6. cursor_y + 1 \in 1 .. cursor_y + 1
      BY <1>1
  <2> QED BY <2>1, <2>3, <2>4, <2>5, <2>6 DEF s
<1> HIDE DEF more
<1>9. ASSUME NEW i \in 1 .. Len(page) PROVE page[i] = more[i + d]
  <2>1. i \in 1 .. cursor_y' + 1
      BY <1>1
  <2>2. CASE i = cursor_y' + 1
      BY <1>1, <1>7, <1>8, <2>2
  <2>3. CASE i \in 1 .. cursor_y' /\ i - 1 + d = cursor_y
    <3>1. i - 1 \in 0 .. cursor_y' - 1 /\ i + d = cursor_y + 1
        BY <1>1, <2>3
    <3> HIDE DEF d
    <3> QED BY <1>5, <1>7, <1>8, <2>3, <3>1
  <2>4. CASE i \in 1 .. cursor_y' /\ i - 1 + d # cursor_y
    <3>1. i - 1 \in 0 .. cursor_y' - 1 /\ i - 1 + d + 1 = i + d /\ i + d \in 1 .. cursor_y
        BY <1>1, <2>4
    <3> HIDE DEF d
    <3> QED BY <1>4, <1>7, <1>8, <2>4, <3>1
  <2> QED BY <1>1, <2>1, <2>2, <2>3, <2>4
<1>10. Shown!LastRows(more) = IF Len(more) > Rows THEN Tail(more) ELSE more
    BY DEF Shown!LastRows
<1>11. CASE d = 0
  <2>1. Shown!LastRows(more) = more /\ Len(page) = Len(more)
      BY <1>1, <1>8, <1>10, <1>11
  <2>2. \A i \in 1 .. Len(page) : page[i] = more[i]
      BY <1>1, <1>9, <1>11
  <2> QED BY <1>1, <1>8, <2>1, <2>2, SeqEqual DEF more, page, front, last
<1>12. CASE d = 1
  <2>1. Shown!LastRows(more) = Tail(more) /\ cursor_y + 1 = Rows
      BY <1>1, <1>8, <1>10, <1>12
  <2>2. /\ Tail(more) \in Seq(Text) /\ Len(Tail(more)) = Len(page)
        /\ \A i \in 1 .. Len(page) : Tail(more)[i] = more[i + 1]
    <3>1. more # <<>> /\ Len(page) = Len(more) - 1 /\ Len(more) \in Nat
        BY <1>1, <1>8, <1>12
    <3> QED BY <1>8, <3>1, HeadTailProperties
  <2>3. \A i \in 1 .. Len(page) : page[i] = Tail(more)[i]
      BY <1>9, <1>12, <2>2
  <2> QED BY <1>1, <1>8, <2>1, <2>2, <2>3, SeqEqual DEF more, page, front, last
<1> QED BY <1>1, <1>11, <1>12

-----------------------------------------------------------------------------
(* What a terminal does to its page. *)

LEMMA CellOnce ==
    ASSUME NEW r \in Nat, NEW s \in Nat, NEW a \in 0 .. Cols - 1, NEW b \in 0 .. Cols - 1,
           At(r, a) = At(s, b)
    PROVE  r = s /\ a = b
<1>1. r * Cols \in Nat /\ s * Cols \in Nat /\ a \in Nat /\ b \in Nat /\ a < Cols /\ b < Cols
    BY RowOrder, GridAssumption
<1>2. ASSUME r < s PROVE FALSE
  <2>1. r + 1 \in Nat /\ r + 1 <= s
      BY <1>2
  <2>2. (r + 1) * Cols <= s * Cols /\ (r + 1) * Cols = r * Cols + Cols
      BY <2>1, RowOrder
  <2> QED BY <1>1, <2>2, GridAssumption DEF At
<1>3. ASSUME s < r PROVE FALSE
  <2>1. s + 1 \in Nat /\ s + 1 <= r
      BY <1>3
  <2>2. (s + 1) * Cols <= r * Cols /\ (s + 1) * Cols = s * Cols + Cols
      BY <2>1, RowOrder
  <2> QED BY <1>1, <2>2, GridAssumption DEF At
<1>4. r = s
    BY <1>2, <1>3
<1> QED BY <1>1, <1>4 DEF At

(* Another cell's text stays. *)
LEMMA CellApart ==
    ASSUME NEW grid, NEW v, NEW row \in Nat, NEW col \in 0 .. Cols - 1,
           NEW r \in Nat, NEW a \in 0 .. Cols - 1, row # r \/ col # a,
           DOMAIN grid = Cells, At(row, col) \in Cells
    PROVE  [grid EXCEPT ![At(r, a)] = v][At(row, col)] = grid[At(row, col)]
<1>1. At(row, col) # At(r, a)
    BY CellOnce
<1> QED BY <1>1

(* A character that leaves room in its row. *)
LEMMA PutInRow ==
    ASSUME TypeOK, NEW c \in Chars, Put(c), cursor_x + 1 < Cols
    PROVE  /\ cursor_x' = cursor_x + 1 /\ cursor_y' = cursor_y
           /\ text_grid'[At(cursor_y, cursor_x)] = c
           /\ \A row \in 0 .. Rows - 1, col \in 0 .. Cols - 1 :
                 row # cursor_y \/ col < cursor_x =>
                     text_grid'[At(row, col)] = text_grid[At(row, col)]
<1> USE GridAssumption
<1> DEFINE put   == [text_grid EXCEPT ![At(cursor_y, cursor_x)] = c]
           ended == [put EXCEPT ![At(cursor_y, cursor_x + 1)] = Nul]
<1>1. /\ cursor_y \in 0 .. Rows - 1 /\ cursor_y \in Nat /\ cursor_y < Rows
      /\ cursor_x \in 0 .. Cols - 1 /\ cursor_x + 1 \in 0 .. Cols - 1
      /\ DOMAIN text_grid = Cells /\ DOMAIN put = Cells
    BY DEF TypeOK
<1>2. text_grid' = ended /\ cursor_x' = cursor_x + 1 /\ cursor_y' = cursor_y
    BY <1>1 DEF Put, MoveOn
<1>3. At(cursor_y, cursor_x) \in Cells
    BY <1>1, CellInGrid
<1>4. put[At(cursor_y, cursor_x)] = c
    BY <1>1, <1>3
<1>5. ended[At(cursor_y, cursor_x)] = put[At(cursor_y, cursor_x)]
  <2>1. cursor_x # cursor_x + 1
      BY <1>1
  <2> HIDE DEF put
  <2> QED BY <1>1, <1>3, <2>1, CellApart
<1>6. ASSUME NEW row \in 0 .. Rows - 1, NEW col \in 0 .. Cols - 1,
             row # cursor_y \/ col < cursor_x
      PROVE  ended[At(row, col)] = text_grid[At(row, col)]
  <2>1. /\ row \in Nat /\ At(row, col) \in Cells
        /\ row # cursor_y \/ col # cursor_x
        /\ row # cursor_y \/ col # cursor_x + 1
      BY <1>1, <1>6, CellInGrid
  <2>2. At(row, col) # At(cursor_y, cursor_x) /\ At(row, col) # At(cursor_y, cursor_x + 1)
      BY <1>1, <2>1, CellOnce
  <2>3. put[At(row, col)] = text_grid[At(row, col)]
      BY <1>1, <2>1, <2>2
  <2>4. ended[At(row, col)] = put[At(row, col)]
      BY <1>1, <2>1, <2>2
  <2> QED BY <2>3, <2>4
<1> HIDE DEF ended, put
<1> QED BY <1>2, <1>4, <1>5, <1>6

LEMMA TextBeforeStep == ASSUME PageInv, TermNext PROVE TextBefore'
<1> USE GridAssumption
<1>1. /\ WindowInv /\ TypeOK /\ cursor_y \in 0 .. Rows - 1 /\ cursor_y \in Nat
      /\ terminal => cursor_x \in 0 .. Cols - 1
    BY DEF PageInv, WindowInv, TermTypeOK, TypeOK
<1>2. CASE ~terminal
  <2>1. terminal' = terminal
      BY DEF TermNext, PrintPending, TypeKey, BackspaceKey, EnterKey, EnterExit, EnterPlain
  <2> QED BY <1>2, <2>1 DEF TextBefore
<1>3. CASE terminal
  <2>1. cursor_x' = 0 => TextBefore'
    <3>1. \A col \in 0 .. 0 - 1 : FALSE
        OBVIOUS
    <3> QED BY <3>1 DEF TextBefore
  <2>2. \A col \in 0 .. cursor_x - 1 : text_grid[At(cursor_y, col)] # Nul /\ col \in 0 .. Cols - 1
      BY <1>1, <1>3 DEF PageInv, TextBefore
  <2>3. CASE NewLine
      BY <2>1, <2>3 DEF NewLine, MoveOn
  <2>4. ASSUME NEW c \in Chars, Put(c) PROVE TextBefore'
    <3>1. CASE cursor_x + 1 < Cols
      <4>1. /\ cursor_x' = cursor_x + 1 /\ cursor_y' = cursor_y
            /\ text_grid'[At(cursor_y, cursor_x)] = c
            /\ \A col \in 0 .. cursor_x - 1 : text_grid'[At(cursor_y, col)] = text_grid[At(cursor_y, col)]
        <5>1. \A col \in 0 .. cursor_x - 1 : col < cursor_x /\ col \in 0 .. Cols - 1
            BY <1>1, <1>3
        <5> QED BY <1>1, <2>4, <3>1, <5>1, PutInRow
      <4>2. ASSUME NEW col \in 0 .. cursor_x PROVE text_grid'[At(cursor_y, col)] # Nul
        <5>1. CASE col = cursor_x
            BY <4>1, <5>1, CharAssumption DEF Chars
        <5>2. CASE col \in 0 .. cursor_x - 1
            BY <2>2, <4>1, <5>2
        <5> QED BY <1>1, <1>3, <5>1, <5>2
      <4>3. 0 .. cursor_x' - 1 = 0 .. cursor_x
          BY <1>1, <1>3, <4>1
      <4> QED BY <4>1, <4>2, <4>3 DEF TextBefore, At
    <3>2. CASE ~ (cursor_x + 1 < Cols)
        BY <2>1, <2>4, <3>2 DEF Put, MoveOn
    <3> QED BY <3>1, <3>2
  <2>5. CASE EraseLeft
    <3>1. ASSUME NEW col \in 0 .. cursor_x - 1 - 1 PROVE text_grid'[At(cursor_y, col)] # Nul
      <4>1. /\ col \in 0 .. cursor_x - 1 /\ col \in 0 .. Cols - 1 /\ col # cursor_x - 1
            /\ cursor_x - 1 \in 0 .. Cols - 1
          BY <1>1, <1>3, <2>5 DEF EraseLeft
      <4>2. text_grid'[At(cursor_y, col)] = text_grid[At(cursor_y, col)]
          BY <1>1, <2>5, <4>1, CellInGrid, CellApart DEF EraseLeft, TypeOK
      <4> QED BY <2>2, <4>1, <4>2
    <3>2. cursor_x' = cursor_x - 1 /\ cursor_y' = cursor_y
        BY <2>5 DEF EraseLeft
    <3> QED BY <3>1, <3>2 DEF TextBefore, At
  <2> QED BY <1>1, <1>3, <2>3, <2>4, <2>5, TerminalStep
<1> QED BY <1>2, <1>3

LEMMA PageHolds == TermSpec => []PageInv
<1>1. TermInit => TextBefore
  <2>1. \A col \in 0 .. 0 - 1 : FALSE
      OBVIOUS
  <2> QED BY <2>1 DEF TermInit, GridInit, TextBefore
<1>2. PageInv /\ [TermNext]_termVars => PageInv'
  <2>1. PageInv /\ TermNext => PageInv'
      BY StepKeeps, TextBeforeStep DEF PageInv
  <2>2. PageInv /\ UNCHANGED termVars => PageInv'
      BY StutterKeeps DEF PageInv, TextBefore, At, termVars, gridVars
  <2> QED BY <2>1, <2>2
<1>3. TermInit => PageInv
    BY <1>1, Start DEF PageInv
<1> QED BY <1>2, <1>3, PTL DEF TermSpec

LEMMA NewLinePage == ASSUME PageShape, PageShape', TypeOK, TypeOK', NewLine,
                            BlankFrom(text_grid, At(cursor_y, cursor_x))
                     PROVE  PageNow' = Shown!LastRows(Append(Front(PageNow), Trimmed(Last(PageNow), Blank)) \o <<<<>>>>)
<1> USE GridAssumption
<1> DEFINE line == RowText(cursor_y, cursor_x)
<1>1. /\ line \in Text /\ Len(line) = cursor_x /\ Last(PageNow) = line
      /\ \A i \in 1 .. Len(line) : text_grid[At(cursor_y, i - 1)] = line[i]
      /\ cursor_y \in 0 .. Rows - 1 /\ cursor_x \in 0 .. Cols
    BY DEF PageShape, TypeOK
<1>2. ASSUME NEW col \in cursor_x .. Cols - 1 PROVE text_grid[At(cursor_y, col)] \in {Blank, Nul}
  <2>1. col \in 0 .. Cols - 1 /\ col \in 0 .. Cols
      BY <1>1
  <2>2. At(cursor_y, col) \in Cells
      BY <1>1, <2>1, CellInGrid
  <2>3. /\ At(cursor_y, col) = At(cursor_y, 0) + col
        /\ At(cursor_y, cursor_x) = At(cursor_y, 0) + cursor_x
        /\ At(cursor_y, 0) \in Nat
      BY <1>1, <2>1, Addresses
  <2>4. At(cursor_y, col) >= At(cursor_y, cursor_x)
      BY <1>1, <2>3
  <2> QED BY <2>2, <2>4 DEF BlankFrom
<1>3. MoveOn(text_grid, 0, cursor_y + 1)
    BY DEF NewLine
<1> HIDE DEF line
<1> QED BY <1>1, <1>2, <1>3, LineFinished

(* The open line grows by a character, and is finished when it is full. *)
LEMMA PutPage ==
    ASSUME PageShape, PageShape', TypeOK, TypeOK', cursor_x < Cols, NEW c \in Chars, Put(c)
    PROVE  LET line == Append(Last(PageNow), c)
           IN  PageNow' = IF Len(line) = Cols
                          THEN Shown!LastRows(Append(Front(PageNow), Trimmed(line, Blank)) \o <<<<>>>>)
                          ELSE Append(Front(PageNow), line)
<1> USE GridAssumption
<1> DEFINE open == RowText(cursor_y, cursor_x)
           line == Append(Last(PageNow), c)
<1>1. /\ open \in Text /\ Len(open) = cursor_x /\ Last(PageNow) = open
      /\ \A i \in 1 .. cursor_x : open[i] = text_grid[At(cursor_y, i - 1)]
      /\ cursor_y \in 0 .. Rows - 1 /\ cursor_y \in Nat /\ cursor_x \in 0 .. Cols - 1
    BY DEF PageShape, TypeOK
<1>2. /\ line \in Text /\ Len(line) = cursor_x + 1
      /\ \A i \in 1 .. cursor_x : line[i] = open[i]
      /\ line[cursor_x + 1] = c
  <2> HIDE DEF open
  <2> QED BY <1>1, AppendProperties DEF Text
<1> HIDE DEF line, open
<1>3. CASE cursor_x + 1 < Cols
  <2>1. /\ cursor_x' = cursor_x + 1 /\ cursor_y' = cursor_y
        /\ text_grid'[At(cursor_y, cursor_x)] = c
        /\ \A row \in 0 .. Rows - 1, col \in 0 .. Cols - 1 :
              row # cursor_y \/ col < cursor_x =>
                  text_grid'[At(row, col)] = text_grid[At(row, col)]
      BY <1>3, PutInRow
  <2>2. \A row \in 0 .. cursor_y - 1 : row \in 0 .. Rows - 1 /\ row # cursor_y
      BY <1>1
  <2>3. PageNow' = Append(Front(PageNow), RowText(cursor_y, cursor_x)')
      BY <2>1, <2>2, LineOpen
  <2> DEFINE next == RowText(cursor_y, cursor_x)'
  <2>4. /\ next \in Text /\ Len(next) = cursor_x'
        /\ \A i \in 1 .. cursor_x' : next[i] = text_grid'[At(cursor_y, i - 1)']
      BY DEF PageShape
  <2> HIDE DEF next
  <2>5. ASSUME NEW i \in 1 .. Len(next) PROVE next[i] = line[i]
    <3>1. next[i] = text_grid'[At(cursor_y, i - 1)]
        BY <2>1, <2>4 DEF At
    <3>2. CASE i = cursor_x + 1
        BY <1>1, <1>2, <2>1, <3>1, <3>2
    <3>3. CASE i \in 1 .. cursor_x
      <4>1. i - 1 \in 0 .. Cols - 1 /\ i - 1 < cursor_x
          BY <1>1, <3>3
      <4> QED BY <1>1, <1>2, <2>1, <3>1, <3>3, <4>1
    <3> QED BY <1>1, <2>1, <2>4, <3>2, <3>3
  <2>6. next = line
      BY <1>2, <2>1, <2>4, <2>5, SeqEqual DEF Text
  <2> QED BY <1>1, <1>2, <1>3, <2>3, <2>6 DEF next, line
<1>4. CASE ~ (cursor_x + 1 < Cols)
  <2> DEFINE put == [text_grid EXCEPT ![At(cursor_y, cursor_x)] = c]
  <2>1. cursor_x + 1 = Cols /\ MoveOn(put, 0, cursor_y + 1)
      BY <1>1, <1>4 DEF Put
  <2>2. At(cursor_y, cursor_x) \in Cells /\ DOMAIN text_grid = Cells
      BY <1>1, CellInGrid DEF TypeOK
  <2>3. put[At(cursor_y, cursor_x)] = c
      BY <2>2
  <2>4. ASSUME NEW row \in 0 .. Rows - 1, NEW col \in 0 .. Cols - 1, row # cursor_y \/ col # cursor_x
        PROVE  put[At(row, col)] = text_grid[At(row, col)]
    <3>1. row \in Nat /\ At(row, col) # At(cursor_y, cursor_x) /\ At(row, col) \in Cells
        BY <1>1, <2>4, CellInGrid, CellOnce
    <3> QED BY <2>2, <3>1
  <2> HIDE DEF put
  <2>5. \A row \in 0 .. cursor_y - 1, col \in 0 .. Cols - 1 : put[At(row, col)] = text_grid[At(row, col)]
    <3>1. \A row \in 0 .. cursor_y - 1 : row \in 0 .. Rows - 1 /\ row # cursor_y
        BY <1>1
    <3> QED BY <2>4, <3>1
  <2>6. ASSUME NEW i \in 1 .. Len(line) PROVE put[At(cursor_y, i - 1)] = line[i]
    <3>1. CASE i = cursor_x + 1
      <4>1. i - 1 = cursor_x
          BY <1>1, <3>1
      <4> QED BY <1>2, <2>3, <3>1, <4>1
    <3>2. CASE i \in 1 .. cursor_x
      <4>1. i - 1 \in 0 .. Cols - 1 /\ i - 1 # cursor_x
          BY <1>1, <3>2
      <4> QED BY <1>1, <1>2, <2>4, <3>2, <4>1
    <3> QED BY <1>1, <1>2, <3>1, <3>2
  <2>7. \A col \in Len(line) .. Cols - 1 : put[At(cursor_y, col)] \in {Blank, Nul}
      BY <1>1, <1>2, <2>1
  <2>8. PageNow' = Shown!LastRows(Append(Front(PageNow), Trimmed(line, Blank)) \o <<<<>>>>)
      BY <1>2, <2>1, <2>5, <2>6, <2>7, LineFinished
  <2> QED BY <1>2, <2>1, <2>8 DEF line
<1> QED BY <1>3, <1>4

LEMMA ErasePage ==
    ASSUME PageShape, PageShape', TypeOK, TypeOK', EraseLeft
    PROVE  Last(PageNow) # <<>> /\ PageNow' = Append(Front(PageNow), Front(Last(PageNow)))
<1> USE GridAssumption
<1> DEFINE open == RowText(cursor_y, cursor_x)
           next == RowText(cursor_y, cursor_x)'
<1>1. /\ open \in Text /\ Len(open) = cursor_x /\ Last(PageNow) = open
      /\ \A i \in 1 .. cursor_x : open[i] = text_grid[At(cursor_y, i - 1)]
      /\ cursor_y \in 0 .. Rows - 1 /\ cursor_y \in Nat /\ cursor_x \in 1 .. Cols
      /\ cursor_x' = cursor_x - 1 /\ cursor_y' = cursor_y
      /\ text_grid' = [text_grid EXCEPT ![At(cursor_y, cursor_x - 1)] = Blank]
    BY DEF PageShape, TypeOK, EraseLeft
<1>2. /\ next \in Text /\ Len(next) = cursor_x'
      /\ \A i \in 1 .. cursor_x' : next[i] = text_grid'[At(cursor_y, i - 1)']
    BY DEF PageShape
<1> HIDE DEF open, next
<1>3. ASSUME NEW row \in 0 .. Rows - 1, NEW col \in 0 .. Cols - 1, row # cursor_y \/ col # cursor_x - 1
      PROVE  text_grid'[At(row, col)] = text_grid[At(row, col)]
  <2>1. cursor_x - 1 \in 0 .. Cols - 1 /\ row \in Nat
      BY <1>1
  <2>2. At(row, col) # At(cursor_y, cursor_x - 1) /\ At(row, col) \in Cells
      BY <1>1, <1>3, <2>1, CellInGrid, CellOnce
  <2>3. DOMAIN text_grid = Cells
      BY DEF TypeOK
  <2> QED BY <1>1, <2>2, <2>3
<1>4. \A row \in 0 .. cursor_y - 1, col \in 0 .. Cols - 1 : text_grid'[At(row, col)] = text_grid[At(row, col)]
  <2>1. \A row \in 0 .. cursor_y - 1 : row \in 0 .. Rows - 1 /\ row # cursor_y
      BY <1>1
  <2> QED BY <1>3, <2>1
<1>5. PageNow' = Append(Front(PageNow), next)
    BY <1>1, <1>4, LineOpen DEF next
<1>6. open # <<>>
    BY <1>1
<1>7. next = Front(open)
  <2>1. Front(open) = SubSeq(open, 1, cursor_x - 1)
      BY <1>1 DEF Front
  <2>2. cursor_x - 1 \in Nat /\ \A i \in 1 .. cursor_x - 1 : open[i] \in Chars
      BY <1>1, ElementOfSeq DEF Text
  <2>3. /\ Front(open) \in Seq(Chars) /\ Len(Front(open)) = cursor_x - 1
        /\ \A i \in 1 .. cursor_x - 1 : Front(open)[i] = open[i]
      BY <2>1, <2>2, SubSeqProperties
  <2>4. ASSUME NEW i \in 1 .. Len(next) PROVE next[i] = Front(open)[i]
    <3>1. i \in 1 .. cursor_x /\ i \in 1 .. cursor_x - 1 /\ i - 1 \in 0 .. Cols - 1 /\ i - 1 # cursor_x - 1
        BY <1>1, <1>2
    <3>2. next[i] = text_grid'[At(cursor_y, i - 1)]
        BY <1>1, <1>2, <3>1 DEF At
    <3> QED BY <1>1, <1>3, <2>3, <3>1, <3>2
  <2> QED BY <1>1, <1>2, <2>3, <2>4, SeqEqual DEF Text
<1> QED BY <1>1, <1>5, <1>6, <1>7

LEMMA PageStep == ASSUME PageInv, PageInv', TermNext PROVE Shown!Next \/ PageNow' = PageNow
<1>1. CASE ~terminal
  <2>1. terminal' = terminal
      BY DEF TermNext, PrintPending, TypeKey, BackspaceKey, EnterKey, EnterExit, EnterPlain
  <2> QED BY <1>1, <2>1 DEF PageNow
<1>2. CASE terminal
  <2>1. terminal' /\ (NewLine \/ EraseLeft \/ \E c \in Chars : Put(c))
      BY <1>2, TerminalStep DEF PageInv
  <2>2. PageShape /\ PageShape'
      BY <1>2, <2>1, PageIs, PageIsAfter
  <2>3. /\ TypeOK /\ TypeOK' /\ cursor_x < Cols
        /\ BlankFrom(text_grid, At(cursor_y, cursor_x))
      BY <1>2 DEF PageInv, WindowInv, TermTypeOK
  <2>4. ASSUME NewLine PROVE Shown!Finish
      BY <2>2, <2>3, <2>4, NewLinePage
      DEF Shown!Finish, Shown!FinishWith, Shown!Front, Front, Shown!Last, Last, Shown!Trimmed, Trimmed
  <2>5. ASSUME NEW c \in Chars, Put(c) PROVE Shown!Write(c)
      BY <2>2, <2>3, <2>5, PutPage
      DEF Shown!Write, Shown!FinishWith, Shown!Front, Front, Shown!Last, Last, Shown!Trimmed, Trimmed
  <2>6. ASSUME EraseLeft PROVE Shown!Erase
      BY <2>2, <2>3, <2>6, ErasePage
      DEF Shown!Erase, Shown!Front, Front, Shown!Last, Last
  <2> QED BY <2>1, <2>4, <2>5, <2>6 DEF Shown!Next
<1> QED BY <1>1, <1>2

(* A terminal's rows are the last lines of all that was printed and typed: *)
(* every key the shell's answers and the user inject finishes the open     *)
(* line, lengthens it or shortens it, a full line goes on in the next, and *)
(* a scroll drops the oldest.                                              *)
THEOREM Refinement == TermSpec => PageSpec
<1>1. TermInit => PageNow = <<<<>>>>
  <2> SUFFICES ASSUME TermInit, terminal PROVE PageNow = <<<<>>>>
      BY DEF PageNow
  <2>1. cursor_x = 0 /\ cursor_y = 0
      BY DEF TermInit, GridInit
  <2> QED BY <2>1 DEF PageNow, RowText
<1>2. PageInv /\ PageInv' /\ [TermNext]_termVars => [Shown!Next]_PageNow
  <2>1. UNCHANGED termVars => PageNow' = PageNow
      BY DEF termVars, gridVars, PageNow, RowText, RowLength, TextEnd, At
  <2> QED BY <2>1, PageStep
<1>3. TermInit => Shown!Init
    BY <1>1 DEF Shown!Init
<1> QED BY <1>2, <1>3, PageHolds, PTL DEF TermSpec, PageSpec, Shown!Spec
=============================================================================
