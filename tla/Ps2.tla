-------------------------------- MODULE Ps2 --------------------------------
(***************************************************************************)
(* The PS/2 controller, the two 8259 interrupt controllers and the kernel  *)
(* code that sets them up (mouse.cpp initialize, pic.cpp remap and enable, *)
(* idt.cpp initialize) and serves their interrupts (interrupts.cpp).  Keys *)
(* may be struck from the start, and the mouse moved as soon as it         *)
(* reports, while nothing but the boot code itself reads the controller.   *)
(*                                                                         *)
(* The devices' side is external: the controller holds one byte at a time  *)
(* for the processor and raises an interrupt with it, IRQ1 or, for bytes   *)
(* of the mouse, IRQ12; ICW1 makes an 8259 forget the interrupts raised    *)
(* before it, and those of bytes that are still held are not raised again. *)
(***************************************************************************)
EXTENDS Mouse, FiniteSets, FiniteSetsExt

VARIABLES pc,        \* where the boot code is; then "loop" or the handler that runs
          out,       \* what the PS/2 controller holds for port 0x60
          replies,   \* the answers to commands that are still to come
          asked,     \* the byte read for the configuration
          config,    \* the controller's configuration; translate: scancodes
                     \* are surely translated
          irr, imr, in_service,  \* of both 8259s, by IRQ
          base,      \* the vectors of IRQ0 and IRQ8
          IF_flag,   \* the processor takes interrupts
          is_enabled,  \* of the keyboard's driver
          struck,    \* a key came between the flush and the mouse's answer
          taken,     \* how many keys the set-up took for answers
          stuck      \* ICW1 forgot the interrupt of a byte that was held

picVars == <<irr, imr, in_service, base>>
controllerVars == <<out, replies, asked, config>>
bootVars == <<is_enabled, struck, taken, stuck>>
vars == <<active_context, deviceVars, driverVars, pc, controllerVars, picVars, IF_flag, bootVars>>

IRQs == 0 .. 15
Nothing == "nothing"
Held == {"key", "config", "ack", "move"}

(* Bytes with status bit 5 set come from the mouse. *)
FromMouse(held) == held \in {"ack", "move"}
IrqOf(held) == IF FromMouse(held) THEN 12 ELSE 1

(* Limine masks the 8259s, and leaves scancode translation on; a key may   *)
(* have been left unread.                                                  *)
Init == /\ MouseInit
        /\ pc = "flush"
        /\ out \in {Nothing, "key"}
        /\ replies = {}
        /\ asked = Nothing
        /\ config \in [irq1 : BOOLEAN, irq12 : {FALSE}, translate : {TRUE}]
        /\ irr = {}
        /\ imr = IRQs
        /\ in_service = {}
        /\ base = <<8, 112>>
        /\ IF_flag = FALSE
        /\ is_enabled = TRUE
        /\ struck = FALSE
        /\ taken = 0
        /\ stuck = FALSE

-----------------------------------------------------------------------------
(* The devices. *)

Enabled(irq) == IF irq = 1 THEN config.irq1 ELSE config.irq12

Hold(held) == /\ out = Nothing
              /\ out' = held
              /\ irr' = IF Enabled(IrqOf(held)) THEN irr \cup {IrqOf(held)} ELSE irr

SettingUp == pc \in {"ask", "config", "write", "mouse", "ack"}

Key == /\ Hold("key")
       /\ struck' = (struck \/ SettingUp)
       /\ UNCHANGED <<active_context, deviceVars, driverVars, pc, replies, asked, config,
                      imr, in_service, base, IF_flag, is_enabled, taken, stuck>>

Reply == /\ \E reply \in replies : Hold(reply) /\ replies' = replies \ {reply}
         /\ UNCHANGED <<active_context, deviceVars, driverVars, pc, asked, config,
                        imr, in_service, base, IF_flag, bootVars>>

(* The mouse reports from 0xF4 on, which it answers first. *)
Reporting == "ack" \notin replies /\ pc \notin {"flush", "ask", "config", "write", "mouse"}

Move == /\ Reporting
        /\ Hold("move")
        /\ \E move \in Movements : Send(move)
        /\ event' = NoEvent
        /\ UNCHANGED <<active_context, mouse_cycle, mouse_packet, astray, pc, replies, asked, config,
                       imr, in_service, base, IF_flag, bootVars>>

(* The timer's handler takes less than a tick. *)
Tick == /\ pc # "timer"
        /\ irr' = irr \cup {0}
        /\ UNCHANGED <<active_context, deviceVars, driverVars, pc, controllerVars,
                       imr, in_service, base, IF_flag, bootVars>>

-----------------------------------------------------------------------------
(* Mouse::initialize, with interrupts off *)

mouseVars == <<active_context, deviceVars, driverVars>>

FlushSkipped == /\ pc = "flush"
                /\ pc' = "ask"
                /\ UNCHANGED <<mouseVars, controllerVars, picVars, IF_flag, bootVars>>
Flush == /\ pc = "flush"
         /\ IF out # Nothing THEN out' = Nothing /\ UNCHANGED pc
                             ELSE pc' = "ask" /\ UNCHANGED out
         /\ UNCHANGED <<mouseVars, replies, asked, config, picVars, IF_flag, bootVars>>

AskConfig == /\ pc = "ask"
             /\ replies' = replies \cup {"config"}
             /\ pc' = "config"
             /\ UNCHANGED <<mouseVars, out, asked, config, picVars, IF_flag, bootVars>>

ReadConfig == /\ pc = "config"
              /\ out # Nothing
              /\ asked' = out
              /\ out' = Nothing
              /\ taken' = taken + Flag(out = "key", 1)
              /\ pc' = "write"
              /\ UNCHANGED <<mouseVars, replies, config, picVars, IF_flag,
                          is_enabled, struck, stuck>>

(* Bit 6 of the byte read turns translation on or off; a scancode that was *)
(* taken for the configuration may have it either way.                     *)
WriteConfig == /\ pc = "write"
               /\ config' = [irq1 |-> TRUE, irq12 |-> TRUE, translate |-> asked = "config"]
               /\ asked' = Nothing
               /\ pc' = "mouse"
               /\ UNCHANGED <<mouseVars, out, replies, picVars, IF_flag, bootVars>>

EnableMouse == /\ pc = "mouse"
               /\ replies' = replies \cup {"ack"}
               /\ pc' = "ack"
               /\ UNCHANGED <<mouseVars, out, asked, config, picVars, IF_flag, bootVars>>

ReadAck == /\ pc = "ack"
           /\ out # Nothing
           /\ out' = Nothing
           /\ taken' = taken + Flag(out = "key", 1)
           /\ pc' = "remap"
           /\ UNCHANGED <<mouseVars, replies, asked, config, picVars, IF_flag,
                          is_enabled, struck, stuck>>

-----------------------------------------------------------------------------
(* PIC::remap, PIC::enable and IDT::initialize, whose last step is sti *)

Remap == /\ pc = "remap"
         /\ base' = <<32, 40>>
         /\ irr' = {}
         /\ stuck' = (out # Nothing)
         /\ pc' = "enable"
         /\ UNCHANGED <<mouseVars, controllerVars, imr, in_service, IF_flag, is_enabled, struck, taken>>

EnableNoCascade == /\ pc = "enable"
                   /\ imr' = IRQs \ {0, 1, 12}
                   /\ pc' = "gates"
                   /\ UNCHANGED <<mouseVars, controllerVars, irr, in_service, base, IF_flag, bootVars>>
Enable == /\ pc = "enable"
          /\ imr' = IRQs \ {0, 1, 2, 12}
          /\ pc' = "gates"
          /\ UNCHANGED <<mouseVars, controllerVars, irr, in_service, base, IF_flag, bootVars>>

SetGates == /\ pc = "gates"
            /\ IF_flag' = TRUE
            /\ pc' = "loop"
            /\ UNCHANGED <<mouseVars, controllerVars, picVars, bootVars>>

(* The descriptors that are set, and the handlers they lead to; no IRQ has *)
(* the vector of the division by zero.                                     *)
Gates == {0, 8, 13, 14, 32, 33, 44}

-----------------------------------------------------------------------------
(* Interrupts.  One waits for those of its priority and above to end; the  *)
(* slave's are the master's IRQ2.  An interrupt gate turns them off.       *)

Level(irq) == IF irq >= 8 THEN 2 ELSE irq

Deliverable == {irq \in irr \ imr : /\ irq >= 8 => 2 \notin imr
                                    /\ \A busy \in in_service : Level(irq) < Level(busy)}

VectorOf(irq) == IF irq < 8 THEN base[1] + irq ELSE base[2] + irq - 8

HandlerOf(vector) == CASE vector = 32 -> "timer"
                       [] vector = 33 -> "keyboard"
                       [] vector = 44 -> "mouse_irq"
                       [] vector \in Gates \ {0, 32, 33, 44} -> "halted"
                       [] vector \notin Gates -> "fault"

Interrupt(irq) == /\ pc = "loop"
                  /\ IF_flag
                  /\ irq \in Deliverable
                  /\ \A other \in Deliverable : Level(irq) <= Level(other)
                  /\ irr' = irr \ {irq}
                  /\ in_service' = in_service \cup {irq, Level(irq)}
                  /\ pc' = HandlerOf(VectorOf(irq))
                  /\ IF_flag' = FALSE
                  /\ UNCHANGED <<mouseVars, controllerVars, imr, base, bootVars>>

(* An end of interrupt ends the most urgent one in service, on each 8259   *)
(* it is sent to.                                                          *)
Ended(serviced) == IF serviced = {} THEN {} ELSE serviced \ {Min(serviced)}

SendEoiToOne(irq) == in_service' = IF irq >= 8
                                   THEN (in_service \cap 0 .. 7) \cup Ended(in_service \cap 8 .. 15)
                                   ELSE Ended(in_service \cap 0 .. 7) \cup (in_service \cap 8 .. 15)
send_eoi(irq) == in_service' =
    Ended(in_service \cap 0 .. 7)
      \cup IF irq >= 8 THEN Ended(in_service \cap 8 .. 15) ELSE in_service \cap 8 .. 15

Return == pc' = "loop" /\ IF_flag' = TRUE

TimerHandler == /\ pc = "timer"
                /\ send_eoi(0)
                /\ Return
                /\ UNCHANGED <<mouseVars, controllerVars, irr, imr, base, bootVars>>

(* Keyboard::handle_interrupt reads whatever the port holds, or nothing    *)
(* when it is disabled.                                                    *)
handle_interrupt == out' = IF is_enabled THEN Nothing ELSE out

KeyboardHandler == /\ pc = "keyboard"
                   /\ handle_interrupt
                   /\ send_eoi(1)
                   /\ Return
                   /\ UNCHANGED <<mouseVars, replies, asked, config, irr, imr, base, bootVars>>

(* The mouse answers 0xFA. *)
DataOf(held) == IF held = "ack" THEN 250 ELSE byte

MouseHandler ==
    /\ pc = "mouse_irq"
    /\ IF FromMouse(out)
       THEN /\ Drop \/ Take(DataOf(out), out = "move")
            /\ out' = Nothing
       ELSE UNCHANGED <<driverVars, out>>
    /\ send_eoi(12)
    /\ Return
    /\ UNCHANGED <<active_context, deviceVars, replies, asked, config, irr, imr, base, bootVars>>

(* The main loop between its interrupts.  After the command exit, which is *)
(* typed in the terminal, the keyboard is disabled and the loop but halts. *)
Quiet == pc = "loop" /\ (IF_flag => Deliverable = {})

Cli == /\ Quiet
       /\ is_enabled
       /\ IF_flag
       /\ IF_flag' = FALSE
       /\ UNCHANGED <<mouseVars, pc, controllerVars, picVars, bootVars>>

Sti == /\ pc = "loop"
       /\ ~IF_flag
       /\ IF_flag' = TRUE
       /\ UNCHANGED <<mouseVars, pc, controllerVars, picVars, bootVars>>

SwitchDisplay == /\ Quiet
                 /\ is_enabled
                 /\ active_context' \in {"TERMINAL", "GUI"}
                 /\ UNCHANGED <<deviceVars, driverVars, pc, controllerVars, picVars, IF_flag, bootVars>>

Exit == /\ Quiet
        /\ IF_flag
        /\ active_context = "TERMINAL"
        /\ is_enabled' = FALSE
        /\ UNCHANGED <<mouseVars, pc, controllerVars, picVars, IF_flag, struck, taken, stuck>>

-----------------------------------------------------------------------------
Processor == \/ Flush \/ AskConfig \/ ReadConfig \/ WriteConfig \/ EnableMouse \/ ReadAck
             \/ Remap \/ Enable \/ SetGates
             \/ \E irq \in IRQs : Interrupt(irq)
             \/ TimerHandler \/ KeyboardHandler \/ MouseHandler \/ Sti

Next == Processor \/ Key \/ Reply \/ Move \/ Tick \/ Cli \/ SwitchDisplay \/ Exit

(* The processor runs; it has time for others than the timer between two   *)
(* ticks.  The controller answers, and the mouse is moved again and again, *)
(* whatever is typed.                                                      *)
Spec == /\ Init /\ [][Next]_vars
        /\ WF_vars(Processor) /\ SF_vars(Interrupt(1)) /\ SF_vars(Interrupt(12))
        /\ SF_vars(Reply) /\ SF_vars(Move)

-----------------------------------------------------------------------------
(* Types of the variables. *)
TypeOK == /\ MouseTypeOK
          /\ pc \in {"flush", "ask", "config", "write", "mouse", "ack", "remap", "enable",
                     "gates", "loop", "timer", "keyboard", "mouse_irq", "halted", "fault"}
          /\ out \in Held \cup {Nothing}
          /\ replies \subseteq {"config", "ack"}
          /\ asked \in Held \cup {Nothing}
          /\ config \in [irq1 : BOOLEAN, irq12 : BOOLEAN, translate : BOOLEAN]
          /\ irr \subseteq {0, 1, 12}
          /\ imr \subseteq IRQs
          /\ in_service \subseteq {0, 1, 2, 12}
          /\ IF_flag \in BOOLEAN
          /\ is_enabled \in BOOLEAN
          /\ struck \in BOOLEAN
          /\ taken \in 0 .. 2
          /\ stuck \in BOOLEAN

(* Every interrupt finds its handler: none is taken for an exception,      *)
(* which would halt the kernel.                                            *)
NeverTakenForException == pc \notin {"halted", "fault"}

(* Outside a handler no interrupt is in service: every one was ended, on   *)
(* both controllers if it came through the slave.  "Missing an EOI will    *)
(* cause the PIC to block all future interrupts" (pic.h).                  *)
EveryInterruptEnded == pc \notin {"timer", "keyboard", "mouse_irq"} => in_service = {}

(* A handler runs for a byte of its own device; an answer to the set-up    *)
(* comes through the keyboard's interrupt.                                 *)
HandlersFindTheirBytes == /\ pc = "keyboard" => out \in {"key", "config"}
                          /\ pc = "mouse_irq" => FromMouse(out)

(* Types, interrupts that find their handlers and are ended, and handlers  *)
(* that find a byte of their device.                                       *)
Ps2Inv == TypeOK /\ NeverTakenForException /\ EveryInterruptEnded /\ HandlersFindTheirBytes

(* Keys struck during the set-up (mouse.cpp reads port 0x60 for its        *)
(* answers without looking whose byte it is) may be taken for answers; the *)
(* answers are then left, one for each such key, no more: an answer gets   *)
(* to the keyboard's handler, or the controller's translation changes,     *)
(* only if a key was so taken, which needs one struck behind the flush.    *)
AnswersLeft == Flag("config" \in replies \cup {out}, 1) + Flag("ack" \in replies \cup {out}, 1)

AnswersAccounted ==
    /\ pc \in {"remap", "enable", "gates"} => AnswersLeft = taken
    /\ pc \in {"loop", "timer", "keyboard", "mouse_irq"} => AnswersLeft <= taken
    /\ taken = 0 => config.translate /\ (pc = "keyboard" => out = "key")
    /\ taken > 0 => struck

(* Every byte the controller holds is read in the end, and so makes room   *)
(* for the next, unless ICW1 made the interrupt of one forgotten, or it is *)
(* a key's and the keyboard was disabled (exit, main.cpp): that one stays, *)
(* as no handler reads it (Keyboard::handle_interrupt).                    *)
BytesAreRead ==
    []~stuck => (out # Nothing ~> out = Nothing \/ (~is_enabled /\ ~FromMouse(out)))

(* After a switch in the middle of a packet the driver may take the wrong  *)
(* bytes together, but not for ever: once the mouse moves so little that   *)
(* only first bytes have bit 3 set, the driver falls in step with it.      *)
InStep == mouse_cycle = sent

FallsInStep ==
    <>[](~stuck /\ active_context = "GUI" /\ (sent # 1 => ~Bit(byte, 8))) =>
        <>[](out = Nothing => InStep)
=============================================================================
