------------------------------ MODULE InputLoop -----------------------------
(***************************************************************************)
(* What the two loops around the router share: main's loop (src/main.cpp,  *)
(* 175-209; MainLoop) and get_line's (src/drivers/input/input.cpp,         *)
(* 246-274; GetLine).  Each turn starts with interrupts off and drains the *)
(* input queues; later it may halt until an interrupt, which leads to the  *)
(* next turn.  Interrupts come between any two steps that run with         *)
(* interrupts on.                                                          *)
(***************************************************************************)
EXTENDS Router

VARIABLES pc,          \* where the loop stands, see Points
          is_enabled,  \* keyboard.cpp: whether the handler reads the port
          screen,      \* whose picture the framebuffer holds
          delivered    \* the line fetch_line or get_line copied out

loopVars == <<is_enabled, screen, delivered>>
vars == <<routerVars, pc, loopVars>>

(* A turn's first step; the keyboard and mouse drains; asleep in hlt.      *)
(* main: the context test, eval_user_input, the prompt, the dirty test,    *)
(* hlt; past the loop.  get_line: not called; a line is there.             *)
Points == {"start", "keys", "mouse", "halted"}
            \cup {"poll", "eval", "prompt", "refresh", "hlt", "exit", "off"}
            \cup {"idle", "copy"}

InterruptsOff == pc \in {"keys", "mouse"}

LoopInit == /\ RouterInit
            /\ is_enabled = TRUE
            /\ screen = "TERMINAL"
            /\ delivered = <<>>

-----------------------------------------------------------------------------
(* Interrupts. *)

(* hlt returns after an interrupt, and the loop starts over; main's loop   *)
(* past the exit halts again.                                              *)
Woken == IF pc = "halted" THEN "start" ELSE pc

KeyboardIrq(s) == /\ ~InterruptsOff
                  /\ is_enabled
                  /\ QueueKey(s)
                  /\ pc' = Woken
                  /\ UNCHANGED loopVars

MouseIrq == /\ ~InterruptsOff
            /\ QueueMove
            /\ pc' = Woken
            /\ UNCHANGED loopVars

(* IRQ0, which PIC::enable leaves unmasked, with no handler but the EOI.   *)
TimerMasked == FALSE
TimerUnmasked == TRUE

TimerIrq == /\ TimerUnmasked
            /\ pc \in {"halted", "off"}
            /\ pc' = Woken
            /\ UNCHANGED <<routerVars, loopVars>>

Interrupt == MouseIrq \/ TimerIrq \/ \E s \in Scancodes : KeyboardIrq(s)

-----------------------------------------------------------------------------
(* process_events. *)

DrainKey == /\ pc = "keys"
            /\ ProcessScancode
            /\ UNCHANGED <<pc, loopVars>>

KeysDrainedEarly == pc = "keys" /\ pc' = "mouse" /\ UNCHANGED <<routerVars, loopVars>>
KeysDrained == /\ pc = "keys"
               /\ kbd = <<>>
               /\ pc' = "mouse"
               /\ UNCHANGED <<routerVars, loopVars>>

DrainMove == /\ pc = "mouse"
             /\ ProcessMove
             /\ UNCHANGED <<pc, loopVars>>

-----------------------------------------------------------------------------
(* What must hold of both. *)

TypeOK == /\ RouterTypeOK
          /\ pc \in Points
          /\ is_enabled \in BOOLEAN
          /\ screen \in {"TERMINAL", "GUI"}
          /\ delivered \in Seq(Char \cup {Nul})

(* input_buffer is always the line and nothing but NULs after it, so that  *)
(* no character of an erased or delivered line can come back.  A line may  *)
(* be longer than input_buffer; what is stored past it is not modelled.    *)
NulAfterLine ==
    \A i \in 0 .. LINE_BUFFER_SIZE - 1 : i < to_input_index <=> input_buffer[i] # Nul

(* Types, and NULs behind the line. *)
LineInv == TypeOK /\ NulAfterLine

(* The router and the loop together edit lines as LineEditor says. *)
Line == [i \in 1 .. to_input_index |-> input_buffer[i - 1]]
Editor == INSTANCE LineEditor WITH Chars <- Char, line <- Line, ready <- line_ready
EditorSpec == Editor!EditorSpec
=============================================================================
