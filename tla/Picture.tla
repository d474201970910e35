------------------------------ MODULE Picture ------------------------------
(***************************************************************************)
(* What Compositor::render puts on the screen: the background, the windows *)
(* from the bottom of the list to its top, and the pointer.  A pixel is    *)
(* its address in the buffer, row after row; no room is left between rows  *)
(* (pitch = 4 * width).  A window's surface is known by three colours: the *)
(* title bar, the close button on it, and the rest, which is the text      *)
(* (TextGrid).  Positions are unsigned and wrap.                           *)
(***************************************************************************)
EXTENDS WindowList

CONSTANTS ScreenWidth, ScreenHeight,
          Width, Height,         \* of each window's surface
          TitleHeight,           \* the font's height, that of the title bar
          PointerShape,          \* the <<right, down>> of the bitmap's pixels
          Modulus                \* 2^64: coordinates are unsigned

Pixels == 0 .. ScreenWidth * ScreenHeight - 1
Address(x, y) == y * ScreenWidth + x

(* The rows of a window at lx, ly that have an address on the screen; each *)
(* is copied whole.                                                        *)
Copied(w, lx, ly) == {row \in 0 .. Height[w] - 1 : /\ lx < ScreenWidth
                                                   /\ (ly + row) % Modulus < ScreenHeight}

RowStart(row, lx, ly) == Address(lx, (ly + row) % Modulus)

RowsAt(w, pixel, lx, ly) ==
    {row \in Copied(w, lx, ly) : pixel - RowStart(row, lx, ly) \in 0 .. Width[w] - 1}

(* The windows are drawn in order: at a pixel the i-th one shows if it     *)
(* covers the pixel and none drawn later does.                             *)
Shows(order, i, pixel, locX, locY) ==
    LET covers(w) == RowsAt(w, pixel, locX[w], locY[w]) # {}
    IN  covers(order[i]) /\ \A j \in i + 1 .. Len(order) : ~ covers(order[j])

(* What shows of the window there: of its rows the last copied, and of     *)
(* that row what is drawn last, the title bar over the text, the button    *)
(* over the title bar.                                                     *)
PartAt(w, pixel, lx, ly) ==
    LET row    == Max(RowsAt(w, pixel, lx, ly))
        column == pixel - RowStart(row, lx, ly)
    IN  IF row >= TitleHeight THEN "text"
        ELSE IF column < Width[w] - TitleHeight THEN "title" ELSE "close"

(* The pointer goes over the windows; draw_pixel leaves out what of it is  *)
(* off the screen.                                                         *)
UnderPointer(x, y) ==
    {Address(x + at[1], y + at[2]) :
        at \in {a \in PointerShape : x + a[1] < ScreenWidth /\ y + a[2] < ScreenHeight}}

(* The windows that show in the picture. *)
Visible(order, locX, locY, x, y) ==
    {order[i] : i \in {i \in DOMAIN order :
        \E pixel \in Pixels \ UnderPointer(x, y) : Shows(order, i, pixel, locX, locY)}}
=============================================================================
