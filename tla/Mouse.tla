------------------------------- MODULE Mouse -------------------------------
(***************************************************************************)
(* The mouse and how its driver (src/drivers/input/mouse.cpp) puts its     *)
(* bytes together: in packets of three while the GUI is shown; while the   *)
(* terminal is, they are thrown away.  The mouse sends its packets         *)
(* whatever the kernel shows, so a switch can fall inside one.             *)
(***************************************************************************)
EXTENDS Integers

CONSTANTS Movements,   \* what the mouse reports: [dx, dy, left], dx and dy in -256 .. 255
          NoEvent      \* an interrupt that completed no packet

ASSUME MovementsAssumption ==
    Movements \subseteq [dx : -256 .. 255, dy : -256 .. 255, left : BOOLEAN]

VARIABLES active_context,
          movement,      \* the mouse: what it is reporting
          sent,          \* and how many bytes of it were sent
          byte,          \* the last one
          mouse_cycle,
          mouse_packet,
          event,         \* what the last byte read gave to mouse_ring_buffer
          astray         \* a byte was thrown away, or one that is no movement
                         \* taken, since driver and mouse last stood before
                         \* the same packet

deviceVars == <<movement, sent, byte>>
driverVars == <<mouse_cycle, mouse_packet, event, astray>>

Bit(data, value) == (data \div value) % 2 = 1

Flag(condition, value) == IF condition THEN value ELSE 0

(* The PS/2 packet: flags with bit 3 set, then the low bytes of the moves. *)
Bytes(move) == <<8 + Flag(move.left, 1) + Flag(move.dx < 0, 16) + Flag(move.dy < 0, 32),
                 move.dx % 256,
                 move.dy % 256>>

MouseInit == /\ active_context = "TERMINAL"
             /\ movement \in Movements
             /\ sent = 0
             /\ byte = 0
             /\ mouse_cycle = 0
             /\ mouse_packet = <<0, 0, 0>>
             /\ event = NoEvent
             /\ astray = FALSE

(* The mouse's next byte. *)
Send(move) == /\ move = movement \/ sent = 0
              /\ movement' = move
              /\ byte' = Bytes(move)[sent + 1]
              /\ sent' = (sent + 1) % 3

-----------------------------------------------------------------------------
(* handle_interrupt, with the byte it read *)

DeltaUnsigned(low, negative) == low
Delta(low, negative) == low - (IF negative THEN 256 ELSE 0)

process_mouse_packet(packet) == [deltaX  |-> Delta(packet[2], Bit(packet[1], 16)),
                                 deltaY  |-> -Delta(packet[3], Bit(packet[1], 32)),
                                 buttons |-> packet[1]]

Drop == /\ active_context = "TERMINAL"
        /\ mouse_cycle' = 0
        /\ event' = NoEvent
        /\ astray' = (sent # 0)
        /\ UNCHANGED mouse_packet

AnyStartsPacket(data) == TRUE
StartsPacket(data) == Bit(data, 8)

TakeFirst(data) == /\ mouse_cycle = 0
                   /\ IF StartsPacket(data)
                      THEN /\ mouse_packet' = [mouse_packet EXCEPT ![1] = data]
                           /\ mouse_cycle' = 1
                      ELSE UNCHANGED <<mouse_packet, mouse_cycle>>
                   /\ event' = NoEvent

TakeSecond(data) == /\ mouse_cycle = 1
                    /\ mouse_packet' = [mouse_packet EXCEPT ![2] = data]
                    /\ mouse_cycle' = 2
                    /\ event' = NoEvent

TakeThird(data) == /\ mouse_cycle = 2
                   /\ mouse_packet' = [mouse_packet EXCEPT ![3] = data]
                   /\ event' = process_mouse_packet(mouse_packet')
                   /\ mouse_cycle' = 0

Take(data, moved) == /\ active_context = "GUI"
                     /\ TakeFirst(data) \/ TakeSecond(data) \/ TakeThird(data)
                     /\ astray' = ((astray \/ ~moved) /\ (mouse_cycle' # 0 \/ sent # 0))

-----------------------------------------------------------------------------
(* The handler's "default" is never reached: the comment there says so     *)
(* (mouse.cpp:87).                                                         *)
MouseTypeOK ==
    /\ active_context \in {"TERMINAL", "GUI"}
    /\ movement \in Movements
    /\ sent \in 0 .. 2
    /\ byte \in 0 .. 255
    /\ mouse_cycle \in 0 .. 2
    /\ mouse_packet \in [1 .. 3 -> 0 .. 255]
    /\ event \in {NoEvent} \cup [deltaX : -256 .. 255, deltaY : -255 .. 256, buttons : 0 .. 255]
    /\ astray \in BOOLEAN

(* Unless bytes were thrown away, and until driver and mouse have met at   *)
(* the start of a packet since, every event is one movement of the mouse,  *)
(* with its signs, and y turned to grow downwards.                         *)
EventIsMovement ==
    event # NoEvent /\ ~astray =>
        /\ sent = 0
        /\ event.deltaX = movement.dx
        /\ event.deltaY = -movement.dy
        /\ Bit(event.buttons, 1) = movement.left
=============================================================================
