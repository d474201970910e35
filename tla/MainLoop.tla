------------------------------ MODULE MainLoop ------------------------------
(***************************************************************************)
(* The kernel's main loop (src/main.cpp, 175-209).  After the drains a     *)
(* turn serves a completed line or redraws, then halts until an interrupt; *)
(* interrupts come also between the last look at the queues and the hlt.   *)
(***************************************************************************)
EXTENDS InputLoop

(* Nobody types a line longer than input_buffer: the code does not check.  *)
ASSUME TypingAssumption == TypingBound <= LINE_BUFFER_SIZE

Init == LoopInit /\ pc = "start"

Cli == /\ pc = "start"
       /\ pc' = "keys"
       /\ UNCHANGED <<routerVars, loopVars>>

Sti == /\ pc = "mouse"
       /\ moves = 0
       /\ pc' = "poll"
       /\ UNCHANGED <<routerVars, loopVars>>

(* TERMINAL, a line is ready: fetch_line *)
FetchLine == /\ pc = "poll"
             /\ InTerminal
             /\ line_ready
             /\ delivered' = Copied
             /\ TakeLine
             /\ pc' = "eval"
             /\ UNCHANGED <<keyVars, modifierVars, displayVars, dirty, moves, is_enabled, screen>>

(* eval_user_input returns false: most commands print, some do not. *)
EvalCommand == /\ pc = "eval"
               /\ term_behind' \in {term_behind, TRUE}
               /\ pc' = "prompt"
               /\ UNCHANGED <<keyVars, modifierVars, lineVars, active_context, gui_behind, dirty,
                              moves, is_enabled, screen, delivered>>

(* ... the display command switches the context *)
EvalDisplay == /\ pc = "eval"
               /\ active_context' = "GUI"
               /\ pc' = "prompt"
               /\ UNCHANGED <<keyVars, modifierVars, lineVars, term_behind, gui_behind, dirty,
                              moves, is_enabled, screen, delivered>>

(* ... and exit leaves the loop. *)
EvalExit == /\ pc = "eval"
            /\ pc' = "exit"
            /\ UNCHANGED <<routerVars, loopVars>>

ShownUnlessGui == IF InTerminal THEN "TERMINAL" ELSE screen

(* The prompt is written, and flushed if the terminal still has the screen. *)
Prompt == /\ pc = "prompt"
          /\ IF InTerminal THEN dirty' = FALSE /\ term_behind' = FALSE
                           ELSE UNCHANGED dirty /\ term_behind' = TRUE
          /\ screen' = ShownUnlessGui
          /\ pc' = "refresh"
          /\ UNCHANGED <<keyVars, modifierVars, lineVars, active_context, gui_behind,
                         moves, is_enabled, delivered>>

NoLine == pc = "poll" /\ InTerminal /\ ~line_ready

(* The dirty test, after a line was served or when there was none. *)
Refresh == /\ pc = "refresh" \/ NoLine
           /\ dirty
           /\ Flush
           /\ screen' = ShownUnlessGui
           /\ pc' = "hlt"
           /\ UNCHANGED <<keyVars, modifierVars, lineVars, active_context, gui_behind,
                          moves, is_enabled, delivered>>

NothingToRefresh == /\ pc = "refresh" \/ NoLine
                    /\ ~dirty
                    /\ pc' = "hlt"
                    /\ UNCHANGED <<routerVars, loopVars>>

(* compositor.render() *)
Render == /\ pc = "poll"
          /\ active_context = "GUI"
          /\ screen' = "GUI"
          /\ gui_behind' = FALSE
          /\ pc' = "hlt"
          /\ UNCHANGED <<keyVars, modifierVars, lineVars, active_context, term_behind, dirty,
                         moves, is_enabled, delivered>>

Hlt == /\ pc = "hlt"
       /\ pc' = "halted"
       /\ UNCHANGED <<routerVars, loopVars>>

(* Past the loop: Keyboard::disable, the last words, the last swap. *)
Exit == /\ pc = "exit"
        /\ is_enabled' = FALSE
        /\ screen' = active_context
        /\ term_behind' = FALSE
        /\ pc' = "off"
        /\ UNCHANGED <<keyVars, modifierVars, lineVars, active_context, gui_behind, dirty,
                       moves, delivered>>

LoopStep == \/ Cli
            \/ DrainKey
            \/ KeysDrained
            \/ DrainMove
            \/ Sti
            \/ FetchLine
            \/ EvalCommand
            \/ EvalDisplay
            \/ EvalExit
            \/ Prompt
            \/ Refresh
            \/ NothingToRefresh
            \/ Render
            \/ Hlt
            \/ Exit

Next == LoopStep \/ Interrupt

Spec == Init /\ [][Next]_vars

(* The processor runs the loop, and the timer ticks. *)
FairSpec == Spec /\ WF_vars(LoopStep) /\ WF_vars(TimerIrq)

-----------------------------------------------------------------------------
(* What must hold. *)

(* While the terminal has the screen the processor never sleeps on a line  *)
(* the user cannot see: what was typed, echoed, printed or erased is shown *)
(* before hlt, and so is the switch back from the GUI.                     *)
ScreenFreshAtHalt ==
    pc = "halted" /\ active_context = "TERMINAL" => (screen = "TERMINAL" /\ ~term_behind)

(* Why: text that is not shown has the dirty flag, unless the shell is     *)
(* still writing it.                                                       *)
BehindIsDirty ==
    active_context = "TERMINAL" /\ (term_behind \/ screen = "GUI")
        => dirty \/ pc \in {"eval", "prompt", "exit", "off"}

(* Keys typed in the GUI never reach the line being edited, and no line is *)
(* taken or completed behind its back.                                     *)
GuiKeysStayOut == [][active_context = "GUI" => UNCHANGED lineVars]_vars

(* Every scancode that was queued is processed, even one that arrives      *)
(* between the drain and the hlt: the timer interrupt brings the loop      *)
(* back.  After exit nothing is read any more.                             *)
KeysConsumed == kbd # <<>> ~> (kbd = <<>> \/ pc = "off")

(* A completed line is served, unless the user leaves for the GUI first.   *)
LineServed == line_ready ~> (~line_ready \/ active_context = "GUI")

(* Switching to the GUI, by the keyboard or by the display command, shows  *)
(* it.  The display command does not show it before the next interrupt.    *)
GuiShown == active_context = "GUI" ~> (active_context = "TERMINAL" \/ (screen = "GUI" /\ ~gui_behind))

(* Ctrl+Alt+G, key 34, switches to the GUI: the comment beside the test    *)
(* (input.cpp, 196) says 'G', the index tested is that of D.               *)
KEY_G == 34
GSwitchesToGui ==
    [][pc = "keys" /\ kbd # <<>> /\ Head(kbd) = KEY_G
         /\ is_ctrl_active /\ is_alt_active /\ ~is_extended /\ kbd' = Tail(kbd)
         => active_context' = "GUI"]_vars
=============================================================================
