------------------------------ MODULE GetLine ------------------------------
(***************************************************************************)
(* Input::get_line (src/drivers/input/input.cpp, 246-274), the blocking    *)
(* reader that main.cpp used before it polled: one caller around the drain *)
(* and the interrupts of InputLoop.  sti lets no interrupt in before the   *)
(* hlt that follows it, so the two are one step; that is what sets this    *)
(* loop apart from MainLoop's.                                             *)
(***************************************************************************)
EXTENDS InputLoop

CallInit == LoopInit /\ pc = "idle"

Call == /\ pc = "idle"
        /\ pc' = "start"
        /\ UNCHANGED <<routerVars, loopVars>>

(* while (!line_ready), and cli.  line_ready is volatile: TestOnce is what *)
(* a compiler could make of the loop if it were not.                       *)
TestOnce == /\ pc = "start"
            /\ pc' = "keys"
            /\ UNCHANGED <<routerVars, loopVars>>
Test == /\ pc = "start"
        /\ pc' = IF line_ready THEN "copy" ELSE "keys"
        /\ UNCHANGED <<routerVars, loopVars>>

(* swap_buffers shows the active context's picture as it was last drawn.   *)
Swap == /\ screen' = active_context
        /\ term_behind' = (term_behind /\ ~InTerminal)

(* No line yet: show, sti and hlt. *)
Sleep == /\ pc = "mouse"
         /\ moves = 0
         /\ ~line_ready
         /\ Swap
         /\ pc' = "halted"
         /\ UNCHANGED <<keyVars, moves, modifierVars, lineVars, active_context, gui_behind, dirty,
                        is_enabled, delivered>>

(* A line is there: sti only. *)
GoOn == /\ pc = "mouse"
        /\ moves = 0
        /\ line_ready
        /\ pc' = "start"
        /\ UNCHANGED <<routerVars, loopVars>>

Return == /\ pc = "copy"
          /\ Swap
          /\ delivered' = Copied
          /\ TakeLine
          /\ pc' = "idle"
          /\ UNCHANGED <<keyVars, moves, modifierVars, active_context, gui_behind, dirty, is_enabled>>

CallStep == Test \/ DrainKey \/ KeysDrained \/ DrainMove \/ Sleep \/ GoOn \/ Return

CallNext == Call \/ CallStep \/ Interrupt

CallSpec == CallInit /\ [][CallNext]_vars

(* The processor runs the call.  No interrupt is counted on, not even the  *)
(* timer's.                                                                *)
FairCallSpec == CallSpec /\ WF_vars(CallStep)

(* The call never sleeps on a scancode or a mouse event that came in, nor  *)
(* on a completed line: what arrives after the drain ends the hlt.         *)
NeverSleepsOnInput == pc = "halted" => kbd = <<>> /\ moves = 0 /\ ~line_ready

(* A line that was completed while the call waits is returned, without the *)
(* help of a timer.                                                        *)
LineReturned == (line_ready /\ pc # "idle") ~> (pc = "idle")

(* get_line reads characters until a newline or the limit of the buffer    *)
(* (src/include/subsystems/input.h, 43-44): no call, and nothing typed     *)
(* between calls, takes the index past input_buffer.                       *)
StopsAtLimit == to_input_index <= LINE_BUFFER_SIZE
=============================================================================
