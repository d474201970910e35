------------------------------ MODULE Desktop ------------------------------
(***************************************************************************)
(* The desktop: the pointer and the buttons of the input router            *)
(* (src/drivers/input/input.cpp, process_mouse_events), the windows they   *)
(* move and close (src/gui/Window.cpp) and the compositor that draws them  *)
(* (src/gui/Compositor.cpp), in the turns of the main loop.  Mouse events  *)
(* come between the turns and while the screen is drawn; the keyboard      *)
(* switches the display at the start of a turn, before the queued mouse    *)
(* events are processed.                                                   *)
(*                                                                         *)
(* Of an event's buttons only the left one does anything in the kernel.    *)
(***************************************************************************)
EXTENDS Picture

CONSTANTS StartX, StartY,        \* where each window opens
          Terminals,             \* the windows with a shell, which `exit` closes
          Moves,                 \* the <<deltaX, deltaY>> of the mouse's events
          EventCapacity,         \* events mouse_ring_buffer holds
          MaxY                   \* bound on how far below the screen the pointer goes

ASSUME ScreenAssumption == /\ ScreenWidth \in Nat \ {0}
                           /\ ScreenHeight \in 1 .. ScreenWidth
                           /\ MaxY \in Nat /\ MaxY >= ScreenHeight
                           /\ Modulus \in Nat /\ Modulus > 2 * (ScreenWidth + MaxY)
ASSUME WindowAssumption == /\ Terminals \subseteq Windows
                           /\ Width \in [Windows -> Nat] /\ Height \in [Windows -> Nat]
                           /\ StartX \in [Windows -> Nat] /\ StartY \in [Windows -> Nat]
                           /\ TitleHeight \in Nat \ {0}
                           /\ \A w \in Windows : /\ TitleHeight <= Width[w]
                                                 /\ TitleHeight <= Height[w]
                                                 /\ MaxY + Height[w] < Modulus
                                                 /\ StartX[w] + Width[w] <= ScreenWidth
                                                 /\ StartY[w] < ScreenHeight
ASSUME MouseAssumption == Moves \subseteq Int \X Int /\ EventCapacity \in Nat

VARIABLES pc,                \* boot, wait, keys, mouse, poll, cleanup: where the turn is
          active_context,
          events,            \* mouse_ring_buffer
          mouseX, mouseY,
          left_was_down,     \* left_button_was_down
          locX, locY,        \* loc of each window
          dragging,          \* the windows with is_dragging
          drag_offset,       \* <<x, y>> of each window
          in_picture         \* the windows that show in the picture drawn last

pointerVars == <<mouseX, mouseY, left_was_down>>
windowVars == <<locX, locY, dragging, drag_offset>>
vars == <<listVars, should_close, current, pc, active_context, events, pointerVars, windowVars, in_picture>>

Init == /\ ListInit
        /\ pc = "boot"
        /\ active_context = "TERMINAL"
        /\ events = <<>>
        /\ mouseX = 0
        /\ mouseY = 0
        /\ left_was_down = FALSE
        /\ locX = StartX
        /\ locY = StartY
        /\ dragging = {}
        /\ drag_offset = [w \in Windows |-> <<0, 0>>]
        /\ in_picture = {}

Draw == \E order \in {BottomUp} :
            in_picture' = Visible(order, locX, locY, mouseX, mouseY)

(* main opens its windows and draws them once, before any interrupt. *)
Open(w) == /\ pc = "boot"
           /\ add_window(w)
           /\ UNCHANGED <<should_close, current, pc, active_context, events, pointerVars,
                          windowVars, in_picture>>

Booted == /\ pc = "boot"
          /\ opened = Windows
          /\ Draw
          /\ pc' = "keys"
          /\ UNCHANGED <<listVars, should_close, current, active_context, events, pointerVars, windowVars>>

-----------------------------------------------------------------------------
(* Interrupts.  hlt returns after one; the timer brings nothing else. *)

Woken == IF pc = "wait" THEN "keys" ELSE pc

AtLeast0(n) == IF n < 0 THEN 0 ELSE n

(* The queued events take the pointer no lower than MaxY. *)
WithinReach(queue, from) ==
    \E reach \in [0 .. Len(queue) -> 0 .. MaxY] :
        /\ reach[0] = from
        /\ \A i \in 1 .. Len(queue) : reach[i] = AtLeast0(reach[i - 1] + queue[i].move[2])

MouseIrq(move, left) ==
    /\ pc \notin {"boot", "keys", "mouse"}
    /\ active_context = "GUI"
    /\ Len(events) < EventCapacity
    /\ events' = Append(events, [move |-> move, left |-> left])
    /\ WithinReach(events', mouseY)
    /\ pc' = Woken
    /\ UNCHANGED <<listVars, should_close, current, active_context, pointerVars, windowVars, in_picture>>

TimerIrq == /\ pc = "wait"
            /\ pc' = "keys"
            /\ UNCHANGED <<listVars, should_close, current, active_context, events,
                           pointerVars, windowVars, in_picture>>

-----------------------------------------------------------------------------
(* The keyboard's part of a turn. *)

SwitchDisplay == /\ pc = "keys"
                 /\ active_context' \in {"TERMINAL", "GUI"}
                 /\ UNCHANGED <<listVars, should_close, current, pc, events,
                                pointerVars, windowVars, in_picture>>

(* Enter after `exit`, in the window with the focus. *)
TypeExit == /\ pc = "keys"
            /\ active_context = "GUI"
            /\ tail \in Terminals
            /\ should_close' = should_close \cup {tail}
            /\ UNCHANGED <<listVars, current, pc, active_context, events, pointerVars, windowVars, in_picture>>

KeysDone == /\ pc = "keys"
            /\ pc' = "mouse"
            /\ UNCHANGED <<listVars, should_close, current, active_context, events,
                           pointerVars, windowVars, in_picture>>

-----------------------------------------------------------------------------
(* One mouse event: the pointer moves, the window on top is told, then the *)
(* window under the pointer is told of the button.                         *)

MovedY(dy) == AtLeast0(mouseY + dy)

(* Below the screen it is x that is set, to the last row's number; y is    *)
(* left as it is.                                                          *)
MovedX(dx, dy) ==
    IF MovedY(dy) >= ScreenHeight
    THEN ScreenHeight - 1
    ELSE IF mouseX + dx >= ScreenWidth THEN ScreenWidth - 1 ELSE AtLeast0(mouseX + dx)

(* Window::on_mouse_move, in unsigned arithmetic *)
MovedTo(pointer, w, axis) == (pointer - drag_offset[w][axis] + Modulus) % Modulus

(* The test of inject_mouse_button: the right and lower edges count.       *)
Under(w, x, y, lx, ly) == /\ x >= lx[w] /\ x <= (lx[w] + Width[w]) % Modulus
                          /\ y >= ly[w] /\ y <= (ly[w] + Height[w]) % Modulus

HitFromBottom(nodes, x, y, lx, ly) ==
    LET i == SelectLastInSeq(nodes, LAMBDA w : Under(w, x, y, lx, ly))
    IN  IF i = 0 THEN Null ELSE nodes[i]
Hit(nodes, x, y, lx, ly) ==
    LET i == SelectInSeq(nodes, LAMBDA w : Under(w, x, y, lx, ly))
    IN  IF i = 0 THEN Null ELSE nodes[i]

OnCloseButton(w, x, y) == /\ x < Width[w]
                          /\ x >= Width[w] - TitleHeight
                          /\ y < TitleHeight

(* Window::on_mouse_button *)
Press(w, x, y) ==
    /\ focus_window(w)
    /\ IF OnCloseButton(w, x, y)
       THEN should_close' = should_close \cup {w} /\ UNCHANGED <<dragging, drag_offset>>
       ELSE /\ UNCHANGED should_close
            /\ IF y < TitleHeight
               THEN /\ dragging' = dragging \cup {w}
                    /\ drag_offset' = [drag_offset EXCEPT ![w] = <<x, y>>]
               ELSE UNCHANGED <<dragging, drag_offset>>

ReleaseKeepsDrag(w) == UNCHANGED <<dragging, drag_offset>>
Release(w) == /\ dragging' = dragging \ {w}
              /\ drag_offset' = [drag_offset EXCEPT ![w] = <<0, 0>>]

Unmoved == UNCHANGED <<dragging, drag_offset>>
NoPress == UNCHANGED <<listVars, should_close>>

(* The left button, at a pointer and with windows that have moved. *)
Button(left, x, y, lx, ly) ==
    \E nodes \in {TopDown} : \E w \in {Hit(nodes, x, y, lx, ly)} :
        IF w = Null \/ left = left_was_down
        THEN NoPress /\ Unmoved
        ELSE IF left THEN Press(w, x - lx[w], y - ly[w])
                     ELSE NoPress /\ Release(w)

ProcessEvent ==
    /\ pc = "mouse"
    /\ events # <<>>
    /\ LET e  == Head(events)
           x  == MovedX(e.move[1], e.move[2])
           y  == MovedY(e.move[2])
           lx == IF tail \in dragging THEN [locX EXCEPT ![tail] = MovedTo(x, tail, 1)] ELSE locX
           ly == IF tail \in dragging THEN [locY EXCEPT ![tail] = MovedTo(y, tail, 2)] ELSE locY
       IN  /\ mouseX' = x
           /\ mouseY' = y
           /\ left_was_down' = e.left
           /\ IF active_context = "GUI"
              THEN locX' = lx /\ locY' = ly /\ Button(e.left, x, y, lx, ly)
              ELSE UNCHANGED <<windowVars, listVars, should_close>>
    /\ events' = Tail(events)
    /\ UNCHANGED <<current, pc, active_context, in_picture>>

EventsDone == /\ pc = "mouse"
              /\ events = <<>>
              /\ pc' = "poll"
              /\ UNCHANGED <<listVars, should_close, current, active_context, events,
                             pointerVars, windowVars, in_picture>>

-----------------------------------------------------------------------------
(* The display's part: Compositor::render, or the terminal's flush. *)

Render == /\ pc = "poll"
          /\ active_context = "GUI"
          /\ Draw
          /\ current' = head
          /\ pc' = "cleanup"
          /\ UNCHANGED <<listVars, should_close, active_context, events, pointerVars, windowVars>>

CleanUp == /\ pc = "cleanup"
           /\ CleanUpOne
           /\ UNCHANGED <<pc, active_context, events, pointerVars, windowVars, in_picture>>

CleanedUp == /\ pc = "cleanup"
             /\ current = Null
             /\ pc' = "wait"
             /\ UNCHANGED <<listVars, should_close, current, active_context, events,
                            pointerVars, windowVars, in_picture>>

(* The display command is the one that changes the context here. *)
ServeTerminal == /\ pc = "poll"
                 /\ active_context = "TERMINAL"
                 /\ active_context' \in {"TERMINAL", "GUI"}
                 /\ pc' = "wait"
                 /\ UNCHANGED <<listVars, should_close, current, events, pointerVars, windowVars, in_picture>>

-----------------------------------------------------------------------------
LoopStep == \/ Booted
            \/ KeysDone
            \/ ProcessEvent
            \/ EventsDone
            \/ Render
            \/ CleanUp
            \/ CleanedUp
            \/ ServeTerminal

Next == \/ \E w \in Windows : Open(w)
        \/ LoopStep
        \/ SwitchDisplay
        \/ TypeExit
        \/ TimerIrq
        \/ \E move \in Moves, left \in BOOLEAN : MouseIrq(move, left)

(* The processor runs, and the timer ticks. *)
Spec == Init /\ [][Next]_vars /\ WF_vars(LoopStep) /\ WF_vars(TimerIrq)

(* Types of the variables. *)
TypeOK == /\ ListTypeOK
          /\ pc \in {"boot", "wait", "keys", "mouse", "poll", "cleanup"}
          /\ active_context \in {"TERMINAL", "GUI"}
          /\ events \in Seq([move : Moves, left : BOOLEAN])
          /\ Len(events) <= EventCapacity
          /\ mouseX \in 0 .. ScreenWidth - 1
          /\ mouseY \in 0 .. MaxY
          /\ left_was_down \in BOOLEAN
          /\ locX \in [Windows -> 0 .. Modulus - 1]
          /\ locY \in [Windows -> 0 .. Modulus - 1]
          /\ dragging \subseteq Windows
          /\ drag_offset \in [Windows -> Nat \X Nat]
          /\ in_picture \subseteq Windows

(* Types, and a list whose nodes are the open windows, also while it is    *)
(* cleaned up.                                                             *)
DesktopInv == TypeOK /\ Linked /\ CleanUpOnList

Clicked(left) == /\ pc = "mouse"
                 /\ active_context = "GUI"
                 /\ left_was_down' = left
                 /\ left_was_down # left

(* No window crosses the screen's edge or wraps, none has its right or     *)
(* lower border line, which hit testing counts in and the picture leaves   *)
(* out, at the pointer, and the pointer is not below the screen.           *)
Plain(x, y, lx, ly) == /\ y < ScreenHeight
                       /\ \A w \in ToSet(BottomUp) : /\ lx[w] + Width[w] \in 0 .. ScreenWidth
                                                     /\ ly[w] < ScreenHeight
                                                     /\ x # lx[w] + Width[w]
                                                     /\ y # ly[w] + Height[w]

(* A press does what the picture promises: on the background nothing, on a *)
(* window it raises that window and no other, and on the close button it   *)
(* closes it, on the title bar it starts to drag it, on the text neither;  *)
(* hit testing and drawing, which walk the list from opposite ends and     *)
(* compute the places of the parts each in its own way, agree.             *)
PressActsOnWhatShows ==
    [][Clicked(TRUE) /\ Plain(mouseX', mouseY', locX', locY') =>
         LET pixel == Address(mouseX', mouseY')
             shown == {w \in Windows : \E i \in DOMAIN BottomUp :
                          w = BottomUp[i] /\ Shows(BottomUp, i, pixel, locX', locY')}
             showing(part) == {w \in shown : PartAt(w, pixel, locX'[w], locY'[w]) = part}
         IN  /\ tail' \in IF shown = {} THEN {tail} ELSE shown
             /\ should_close' = should_close \cup showing("close")
             /\ dragging' = dragging \cup showing("title")]_vars

(* A release on the desktop ends the drag of the window on top, unless the *)
(* window was dragged over the screen's left or upper edge: its position   *)
(* has wrapped then, and the pointer is not found over it.                 *)
ReleaseEndsDrag ==
    [][Clicked(FALSE) /\ tail' \in dragging' =>
         mouseX' < drag_offset[tail][1] \/ mouseY' < drag_offset[tail][2]]_vars

(* A closed window is off the list and off the picture in the end, if the  *)
(* desktop stays on the screen, although render cleans up after it has     *)
(* drawn.                                                                  *)
ClosedGoes ==
    <>[](active_context = "GUI") =>
        \A w \in Windows : w \in should_close ~> w \in deleted /\ w \notin in_picture

(* "Copy the window to the screen row by row to respect the screen's       *)
(* pitch" (src/include/gui/Window.h:34): a row that is copied to the       *)
(* screen ends in the screen's row.  Window::render, lines 104 to 110.     *)
RowsRespectPitch ==
    pc = "poll" /\ active_context = "GUI" =>
        \A w \in ToSet(BottomUp) :
            Copied(w, locX[w], locY[w]) # {} => locX[w] + Width[w] <= ScreenWidth
=============================================================================
