------------------------------ MODULE TextGrid ------------------------------
(***************************************************************************)
(* The text of a window (src/gui/Window.cpp): a grid of characters kept as *)
(* one array, the cursor the next character goes to, and what inject_key   *)
(* does with each kind of character.  A row ends at its first NUL; erasing *)
(* leaves a blank, not a NUL.                                              *)
(***************************************************************************)
EXTENDS Integers

CONSTANTS Cols,   \* cols, the window's width in characters
          Rows,   \* rows, its height below the title bar
          Glyphs, \* the characters that show
          Blank,  \* ' '
          Nul     \* '\0'

(* The geometries inject_key works on: on others it returns at once.       *)
ASSUME GridAssumption == Cols \in Nat \ {0} /\ Rows \in Nat \ {0}
ASSUME CharAssumption == Blank \notin Glyphs /\ Nul \notin Glyphs /\ Blank # Nul

VARIABLES text_grid,  \* the cells, row after row
          cursor_x,
          cursor_y

gridVars == <<text_grid, cursor_x, cursor_y>>

Chars == Glyphs \cup {Blank}
Cells == 0 .. Cols * Rows - 1

At(row, col) == row * Cols + col

GridInit == /\ text_grid = [i \in Cells |-> Nul]
            /\ cursor_x = 0
            /\ cursor_y = 0

(* The window's other rows move up over the first; that the memmove which  *)
(* does it is right is checked apart (Vectors, MovesWhole).                *)
ScrolledInPlace(grid) == [i \in Cells |-> IF i < (Rows - 1) * Cols THEN grid[i] ELSE Nul]
Scrolled(grid) == [i \in Cells |-> IF i < (Rows - 1) * Cols THEN grid[i + Cols] ELSE Nul]

(* The cursor moves on in a grid, and scroll_forward brings it back.       *)
MoveOn(grid, col, row) ==
    /\ text_grid' = IF row < Rows THEN grid ELSE Scrolled(grid)
    /\ cursor_x' = col
    /\ cursor_y' = IF row < Rows THEN row ELSE Rows - 1

NewLine == MoveOn(text_grid, 0, cursor_y + 1)

(* Where the text that starts in a column of a row ends: at the first NUL  *)
(* or with the row.                                                        *)
TextEnd(row, from) == CHOOSE n \in from .. Cols :
                        /\ \A col \in from .. n - 1 : text_grid[At(row, col)] # Nul
                        /\ n < Cols => text_grid[At(row, n)] = Nul
RowLength(row) == TextEnd(row, 0)

EraseLeftKeepsGlyph == /\ cursor_x > 0
                       /\ cursor_x' = cursor_x - 1
                       /\ UNCHANGED <<text_grid, cursor_y>>
EraseLeft == /\ cursor_x > 0
             /\ text_grid' = [text_grid EXCEPT ![At(cursor_y, cursor_x - 1)] = Blank]
             /\ cursor_x' = cursor_x - 1
             /\ UNCHANGED cursor_y

(* To the end of the row above, which is past its last column if the row   *)
(* is full.                                                                *)
EraseUp == /\ cursor_x = 0
           /\ cursor_y > 0
           /\ cursor_x' = RowLength(cursor_y - 1)
           /\ cursor_y' = cursor_y - 1
           /\ UNCHANGED text_grid

EraseNothing == cursor_x = 0 /\ cursor_y = 0 /\ UNCHANGED gridVars

Backspace == EraseLeft \/ EraseUp \/ EraseNothing

(* The character is followed by a NUL while the row has room for one.      *)
PutPastEnd(c) ==
    LET put == [text_grid EXCEPT ![At(cursor_y, cursor_x)] = c]
    IN  IF cursor_x + 1 <= Cols THEN MoveOn(put, cursor_x + 1, cursor_y)
                                ELSE MoveOn(put, 0, cursor_y + 1)
Put(c) ==
    LET put   == [text_grid EXCEPT ![At(cursor_y, cursor_x)] = c]
        ended == [put EXCEPT ![At(cursor_y, cursor_x + 1)] = Nul]
    IN  IF cursor_x + 1 < Cols THEN MoveOn(ended, cursor_x + 1, cursor_y)
                               ELSE MoveOn(put, 0, cursor_y + 1)

-----------------------------------------------------------------------------
(* Types of the variables. *)
TypeOK == /\ text_grid \in [Cells -> Chars \cup {Nul}]
          /\ cursor_x \in 0 .. Cols
          /\ cursor_y \in 0 .. Rows - 1

(* The next character is stored in the grid, whatever keys came before:    *)
(* the cursor may stand past the last column, after a backspace onto a     *)
(* full row, but then there is a row below it.                             *)
CursorOnGrid == At(cursor_y, cursor_x) \in Cells
=============================================================================
