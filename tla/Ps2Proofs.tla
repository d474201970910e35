----------------------------- MODULE Ps2Proofs -----------------------------
(***************************************************************************)
(* Proofs about Ps2, for every set of movements: interrupts find their     *)
(* handlers and are ended, each key taken for an answer leaves one answer  *)
(* behind and no more are left, and what the driver makes of the mouse's   *)
(* bytes is what the mouse reported.                                       *)
(***************************************************************************)
EXTENDS Ps2, TLAPS

Boot == {"flush", "ask", "config", "write", "mouse", "ack", "remap", "enable", "gates"}
Handlers == {"timer", "keyboard", "mouse_irq"}

-----------------------------------------------------------------------------
(* Interrupts. *)

(* What the set-up has done to the 8259s when it is done, and what is in   *)
(* service while a handler runs.                                           *)
Serviced == /\ pc = "timer" => in_service = {0}
            /\ pc = "keyboard" => in_service = {1}
            /\ pc = "mouse_irq" => in_service = {2, 12}
            /\ pc \notin Handlers => in_service = {}

ServiceInv == /\ pc \in Boot \cup Handlers \cup {"loop"}
              /\ Serviced
              /\ IF_flag \in BOOLEAN
              /\ pc # "loop" => IF_flag = FALSE
              /\ irr \subseteq {0, 1, 12}
              /\ pc \in Handlers \cup {"loop", "enable", "gates"} => base = <<32, 40>>

(* The bytes the controller holds. *)
HeldInv == /\ out \in Held \cup {Nothing}
           /\ replies \subseteq {"config", "ack"}
           /\ asked \in Held \cup {Nothing}
           /\ config \in [irq1 : BOOLEAN, irq12 : BOOLEAN, translate : BOOLEAN]
           /\ imr \subseteq IRQs
           /\ is_enabled \in BOOLEAN
           /\ struck \in BOOLEAN
           /\ taken \in 0 .. 2
           /\ stuck \in BOOLEAN

(* After the set-up of the 8259s an interrupt is that of the byte held.    *)
Raised == pc \in Handlers \cup {"loop", "enable", "gates"} =>
             /\ 1 \in irr => out \in {"key", "config"}
             /\ 12 \in irr => FromMouse(out)
             /\ pc = "keyboard" => out \in {"key", "config"} /\ 1 \notin irr
             /\ pc = "mouse_irq" => FromMouse(out) /\ 12 \notin irr

(* The answers to the set-up: those that were asked for are on their way   *)
(* or held, but for those that were read; a read took an answer or a key.  *)
Counted == /\ pc \in {"flush", "ask", "write", "mouse", "remap", "enable", "gates"} =>
                AnswersLeft = taken
           /\ pc \in {"config", "ack"} => AnswersLeft = taken + 1
           /\ pc \in Handlers \cup {"loop"} => AnswersLeft <= taken
           /\ pc \in {"flush", "ask", "config"} => taken = 0
           /\ pc \in {"write", "mouse", "ack"} => taken <= 1

SetUp == /\ Counted
         /\ out \notin replies
         /\ ~struck => taken = 0 /\ (SettingUp => out # "key")
         /\ taken = 0 => config.translate = TRUE /\ (pc = "write" => asked = "config")

(* The mouse and the driver: how many bytes of the movement were read; the *)
(* driver is astray when it stands elsewhere.  What it has collected are   *)
(* the bytes of the movement.                                              *)
Consumed == IF out = "move" THEN (sent + 2) % 3 ELSE sent

Answering == "ack" \in replies \/ out = "ack"
BeforeMouse == pc \in {"flush", "ask", "config", "write", "mouse"}

PhaseInv == /\ astray <=> mouse_cycle # Consumed
            /\ ~astray => \A i \in 1 .. mouse_cycle : mouse_packet[i] = Bytes(movement)[i]
            /\ out = "move" => byte = Bytes(movement)[Consumed + 1]
            /\ BeforeMouse => ~Answering
            /\ out = "ack" => "ack" \notin replies
            /\ pc = "ack" => Answering
            /\ BeforeMouse \/ Answering => out # "move" /\ sent = 0 /\ mouse_cycle = 0

ControllerInv == HeldInv /\ ServiceInv /\ Raised /\ SetUp
DriverInv == MouseTypeOK /\ PhaseInv /\ EventIsMovement

-----------------------------------------------------------------------------
(* Interrupts find their handlers and are ended. *)

LEMMA MinOfOne == ASSUME NEW x \in Nat PROVE Min({x}) = x
BY DEF Min

LEMMA EndOfInterrupt ==
    ASSUME NEW irq \in {0, 1, 12}, in_service = {irq, Level(irq)}, send_eoi(irq)
    PROVE  in_service' = {}
<1>1. Ended({}) = {} /\ Ended({0}) = {} /\ Ended({1}) = {} /\ Ended({2}) = {} /\ Ended({12}) = {}
    BY MinOfOne DEF Ended
<1>2. CASE irq = 0
  <2>1. in_service \cap 0 .. 7 = {0} /\ in_service \cap 8 .. 15 = {}
      BY <1>2 DEF Level
  <2> QED BY <1>1, <1>2, <2>1 DEF send_eoi
<1>3. CASE irq = 1
  <2>1. in_service \cap 0 .. 7 = {1} /\ in_service \cap 8 .. 15 = {}
      BY <1>3 DEF Level
  <2> QED BY <1>1, <1>3, <2>1 DEF send_eoi
<1>4. CASE irq = 12
  <2>1. in_service \cap 0 .. 7 = {2} /\ in_service \cap 8 .. 15 = {12}
      BY <1>4 DEF Level
  <2> QED BY <1>1, <1>4, <2>1 DEF send_eoi
<1> QED BY <1>2, <1>3, <1>4

LEMMA HandlerFound ==
    ASSUME NEW irq \in {0, 1, 12}, base = <<32, 40>>
    PROVE  HandlerOf(VectorOf(irq)) = IF irq = 0 THEN "timer"
                                      ELSE IF irq = 1 THEN "keyboard" ELSE "mouse_irq"
<1>1. VectorOf(irq) = IF irq = 0 THEN 32 ELSE IF irq = 1 THEN 33 ELSE 44
    BY DEF VectorOf
<1> QED BY <1>1 DEF HandlerOf, Gates

(* The actions of the devices, and of the loop, leave the 8259s alone, but *)
(* for what is raised.                                                     *)
LEMMA ServiceStep == ASSUME HeldInv, ServiceInv, [Next]_vars PROVE ServiceInv'
<1> USE DEF ServiceInv, Serviced, Boot, Handlers, bootVars
<1>1. CASE Flush
    BY <1>1 DEF Flush, picVars
<1>2. CASE AskConfig \/ ReadConfig \/ WriteConfig \/ EnableMouse \/ ReadAck
    BY <1>2 DEF AskConfig, ReadConfig, WriteConfig, EnableMouse, ReadAck, picVars
<1>3. CASE Remap \/ Enable \/ SetGates
    BY <1>3 DEF Remap, Enable, SetGates, picVars
<1>4. ASSUME NEW irq \in IRQs, Interrupt(irq) PROVE ServiceInv'
  <2>1. /\ irq \in {0, 1, 12} /\ pc = "loop" /\ base = <<32, 40>>
        /\ irr' = irr \ {irq} /\ IF_flag' = FALSE /\ imr' = imr /\ base' = base
        /\ in_service' = {irq, Level(irq)}
        /\ pc' = HandlerOf(VectorOf(irq))
      BY <1>4 DEF Interrupt, Deliverable
  <2>2. pc' = IF irq = 0 THEN "timer" ELSE IF irq = 1 THEN "keyboard" ELSE "mouse_irq"
      BY <2>1, HandlerFound
  <2>3. in_service' = IF irq = 12 THEN {2, 12} ELSE {irq}
      BY <2>1 DEF Level
  <2>4. pc' \in Handlers /\ Serviced'
      BY <2>1, <2>2, <2>3
  <2>5. irr' \subseteq {0, 1, 12}
      BY <2>1
  <2>6. pc' # "loop" /\ IF_flag' \in BOOLEAN /\ IF_flag' = FALSE /\ base' = <<32, 40>>
      BY <2>1, <2>4
  <2> QED BY <2>4, <2>5, <2>6
<1>5. CASE TimerHandler
  <2>1. in_service = {0, Level(0)} /\ send_eoi(0)
      BY <1>5 DEF TimerHandler, Level
  <2>2. in_service' = {}
      BY <2>1, EndOfInterrupt
  <2> QED BY <1>5, <2>2 DEF TimerHandler, Return
<1>6. CASE KeyboardHandler
  <2>1. in_service = {1, Level(1)} /\ send_eoi(1)
      BY <1>6 DEF KeyboardHandler, Level
  <2>2. in_service' = {}
      BY <2>1, EndOfInterrupt
  <2> QED BY <1>6, <2>2 DEF KeyboardHandler, Return
<1>7. CASE MouseHandler
  <2>1. in_service = {12, Level(12)} /\ send_eoi(12)
      BY <1>7 DEF MouseHandler, Level
  <2>2. in_service' = {}
      BY <2>1, EndOfInterrupt
  <2> QED BY <1>7, <2>2 DEF MouseHandler, Return
<1>8. CASE Sti \/ Cli \/ SwitchDisplay \/ Exit \/ Tick
    BY <1>8 DEF Sti, Cli, Quiet, SwitchDisplay, Exit, Tick, picVars
<1>9. CASE Key \/ Reply \/ Move
  <2>1. \E held \in Held : Hold(held)
      BY <1>9 DEF Key, Reply, Move, HeldInv, Held
  <2>2. irr' \subseteq {0, 1, 12}
      BY <2>1 DEF Hold, IrqOf
  <2> QED BY <1>9, <2>2 DEF Key, Reply, Move
<1>10. CASE UNCHANGED vars
    BY <1>10 DEF vars, picVars
<1> QED BY <1>1, <1>2, <1>3, <1>4, <1>5, <1>6, <1>7, <1>8, <1>9, <1>10 DEF Next, Processor

LEMMA HeldStep == ASSUME HeldInv, SetUp, [Next]_vars PROVE HeldInv'
<1> USE DEF HeldInv, controllerVars, bootVars, picVars
<1>1. CASE Flush \/ AskConfig \/ EnableMouse
    BY <1>1 DEF Flush, AskConfig, EnableMouse
<1>9. CASE ReadConfig \/ ReadAck
  <2>1. taken <= 1
      BY <1>9 DEF ReadConfig, ReadAck, SetUp, Counted
  <2>2. taken' \in 0 .. 2
      BY <1>9, <2>1 DEF ReadConfig, ReadAck, Flag
  <2> QED BY <1>9, <2>2 DEF ReadConfig, ReadAck
<1>2. CASE WriteConfig
    BY <1>2 DEF WriteConfig
<1>3. CASE Remap \/ Enable \/ SetGates
    BY <1>3 DEF Remap, Enable, SetGates, IRQs
<1>4. CASE \E irq \in IRQs : Interrupt(irq)
    BY <1>4 DEF Interrupt
<1>5. CASE TimerHandler \/ KeyboardHandler \/ MouseHandler
    BY <1>5 DEF TimerHandler, KeyboardHandler, handle_interrupt, MouseHandler
<1>6. CASE Sti \/ Cli \/ SwitchDisplay \/ Exit \/ Tick
    BY <1>6 DEF Sti, Cli, SwitchDisplay, Exit, Tick
<1>7. CASE Key \/ Reply \/ Move
    BY <1>7 DEF Key, Reply, Move, Hold, SettingUp, Held, Flag
<1>8. CASE UNCHANGED vars
    BY <1>8 DEF vars
<1> QED BY <1>1, <1>2, <1>3, <1>4, <1>5, <1>6, <1>7, <1>8, <1>9 DEF Next, Processor

LEMMA RaisedStep == ASSUME HeldInv, ServiceInv, Raised, [Next]_vars PROVE Raised'
<1> USE DEF Raised, Boot, Handlers, controllerVars, bootVars, FromMouse
<1>1. CASE Flush \/ AskConfig \/ ReadConfig \/ WriteConfig \/ EnableMouse \/ ReadAck
    BY <1>1 DEF Flush, AskConfig, ReadConfig, WriteConfig, EnableMouse, ReadAck
<1>2. CASE Remap \/ Enable \/ SetGates
    BY <1>2 DEF Remap, Enable, SetGates, picVars
<1>3. ASSUME NEW irq \in IRQs, Interrupt(irq) PROVE Raised'
  <2>1. /\ irq \in irr /\ irq \in {0, 1, 12} /\ pc = "loop" /\ base = <<32, 40>>
        /\ irr' = irr \ {irq} /\ out' = out
        /\ pc' = HandlerOf(VectorOf(irq))
      BY <1>3 DEF Interrupt, Deliverable, ServiceInv
  <2>2. pc' = IF irq = 0 THEN "timer" ELSE IF irq = 1 THEN "keyboard" ELSE "mouse_irq"
      BY <2>1, HandlerFound
  <2> QED BY <2>1, <2>2
<1>4. CASE TimerHandler \/ KeyboardHandler \/ MouseHandler
    BY <1>4 DEF TimerHandler, KeyboardHandler, handle_interrupt, MouseHandler, Return
<1>5. CASE Sti \/ Cli \/ SwitchDisplay \/ Exit \/ Tick
    BY <1>5 DEF Sti, Cli, Quiet, SwitchDisplay, Exit, Tick, picVars
<1>6. CASE Key \/ Reply \/ Move
  <2>1. PICK held \in Held : Hold(held)
      BY <1>6 DEF Key, Reply, Move, HeldInv, Held
  <2>2. pc' = pc
      BY <1>6 DEF Key, Reply, Move
  <2> QED BY <2>1, <2>2 DEF Hold, IrqOf, Held, Nothing
<1>7. CASE UNCHANGED vars
    BY <1>7 DEF vars, picVars
<1> QED BY <1>1, <1>2, <1>3, <1>4, <1>5, <1>6, <1>7 DEF Next, Processor

(* The answers that are left stay what they were while nothing is asked,   *)
(* nor an answer read.                                                     *)
LEMMA SameAnswers ==
    ASSUME HeldInv, SetUp, taken' = taken, struck' = struck, config' = config, asked' = asked,
           \/ out' = out /\ replies' = replies
           \/ Reply
           \/ out = Nothing /\ out' = "move" /\ replies' = replies,
           \/ pc' = pc
           \/ pc \in {"remap", "enable"} /\ pc' \in {"enable", "gates"}
           \/ pc \in {"gates", "loop"} \cup Handlers /\ pc' \in Handlers \cup {"loop"}
    PROVE  SetUp'
<1>1. AnswersLeft' = AnswersLeft /\ AnswersLeft \in 0 .. 2 /\ out' \notin replies'
    BY DEF AnswersLeft, Flag, HeldInv, SetUp, Reply, Hold, Nothing
<1>2. out' = "key" => out = "key"
    BY DEF HeldInv, Reply, Hold
<1>3. Counted' /\ (SettingUp' => SettingUp) /\ (pc' = "write" => pc = "write")
    BY <1>1 DEF Counted, SetUp, Handlers, SettingUp, HeldInv
<1> QED BY <1>1, <1>2, <1>3 DEF SetUp

LEMMA SetUpStep ==
    ASSUME HeldInv, ServiceInv, SetUp, PhaseInv, [Next]_vars
    PROVE  SetUp'
<1>1. /\ BeforeMouse => ~Answering
      /\ BeforeMouse \/ Answering => out # "move"
      /\ pc = "ack" => Answering
    BY DEF PhaseInv
<1> USE DEF controllerVars, bootVars, Handlers
<1>2. CASE Flush
    BY <1>2 DEF Flush, SetUp, Counted, AnswersLeft, Flag, SettingUp, HeldInv, Nothing
<1>3. CASE AskConfig
    BY <1>3 DEF AskConfig, SetUp, Counted, AnswersLeft, Flag, SettingUp, HeldInv, Nothing
<1>4. CASE ReadConfig
  <2>1. out \in {"key", "config"}
      BY <1>1, <1>4 DEF ReadConfig, BeforeMouse, Answering, HeldInv, Held
  <2> QED BY <1>4, <2>1
          DEF ReadConfig, SetUp, Counted, AnswersLeft, Flag, SettingUp, HeldInv, Nothing
<1>5. CASE WriteConfig
    BY <1>5 DEF WriteConfig, SetUp, Counted, AnswersLeft, SettingUp, HeldInv, Nothing
<1>6. CASE EnableMouse
  <2>1. "ack" \notin replies /\ out # "ack"
      BY <1>1, <1>6 DEF EnableMouse, BeforeMouse, Answering
  <2> QED BY <1>6, <2>1
          DEF EnableMouse, SetUp, Counted, AnswersLeft, Flag, SettingUp, HeldInv, Nothing
<1>7. CASE ReadAck
  <2>1. out \in {"key", "config", "ack"}
      BY <1>1, <1>7 DEF ReadAck, HeldInv, Held
  <2> QED BY <1>7, <2>1
          DEF ReadAck, SetUp, Counted, AnswersLeft, Flag, SettingUp, HeldInv, Nothing
<1>8. CASE Remap \/ Enable \/ SetGates
    BY <1>8, SameAnswers DEF Remap, Enable, SetGates
<1>9. ASSUME NEW irq \in IRQs, Interrupt(irq) PROVE SetUp'
  <2>1. /\ irq \in {0, 1, 12} /\ pc = "loop" /\ base = <<32, 40>>
        /\ UNCHANGED <<out, replies, asked, config, struck, taken>>
        /\ pc' = HandlerOf(VectorOf(irq))
      BY <1>9 DEF Interrupt, Deliverable, ServiceInv
  <2>2. pc' \in Handlers
      BY <2>1, HandlerFound
  <2> QED BY <2>1, <2>2, SameAnswers
<1>10. CASE TimerHandler \/ KeyboardHandler \/ MouseHandler
  <2>1. /\ pc \in Handlers /\ pc' = "loop" /\ out' \in {out, Nothing}
        /\ UNCHANGED <<replies, asked, config, struck, taken>>
      BY <1>10 DEF TimerHandler, KeyboardHandler, handle_interrupt, MouseHandler, Return
  <2>2. AnswersLeft' <= AnswersLeft /\ AnswersLeft \in 0 .. 2 /\ AnswersLeft' \in 0 .. 2
      BY <2>1 DEF AnswersLeft, Flag, Nothing
  <2> QED BY <2>1, <2>2 DEF SetUp, Counted, SettingUp, HeldInv, Nothing
<1>11. CASE Sti \/ Cli \/ SwitchDisplay \/ Exit \/ Tick
    BY <1>11, SameAnswers DEF Sti, Cli, SwitchDisplay, Exit, Tick
<1>12. CASE Key
  <2>1. AnswersLeft' = AnswersLeft /\ out' \notin replies'
      BY <1>12 DEF Key, Hold, AnswersLeft, Flag, HeldInv, Nothing
  <2> QED BY <1>12, <2>1 DEF Key, Hold, SetUp, Counted, SettingUp
<1>13. CASE Reply \/ Move
    BY <1>13, SameAnswers DEF Reply, Move, Hold
<1>14. CASE UNCHANGED vars
    BY <1>14, SameAnswers DEF vars
<1> QED BY <1>2, <1>3, <1>4, <1>5, <1>6, <1>7, <1>8, <1>9, <1>10, <1>11, <1>12, <1>13, <1>14
        DEF Next, Processor

(* The mouse's bytes. *)

LEMMA BytesType == ASSUME NEW move \in Movements
                   PROVE  /\ Bytes(move) \in [1 .. 3 -> 0 .. 255]
                          /\ StartsPacket(Bytes(move)[1])
<1>1. /\ move.dx \in -256 .. 255 /\ move.dy \in -256 .. 255 /\ move.left \in BOOLEAN
    BY MovementsAssumption
<1>2. /\ Flag(move.left, 1) \in {0, 1}
      /\ Flag(move.dx < 0, 16) \in {0, 16}
      /\ Flag(move.dy < 0, 32) \in {0, 32}
    BY DEF Flag
<1>3. move.dx % 256 \in 0 .. 255 /\ move.dy % 256 \in 0 .. 255
    BY <1>1
<1>4. Bytes(move)[1] \in 8 .. 255 /\ Bit(Bytes(move)[1], 8)
    BY <1>2 DEF Bytes, Bit
<1>5. Bytes(move)[2] = move.dx % 256 /\ Bytes(move)[3] = move.dy % 256
      /\ Bytes(move) = [i \in 1 .. 3 |-> Bytes(move)[i]]
    BY DEF Bytes
<1> QED BY <1>3, <1>4, <1>5 DEF StartsPacket

(* The flags of the first byte are the signs and the button. *)
LEMMA Flags == ASSUME NEW move \in Movements
               PROVE  /\ Bit(Bytes(move)[1], 1) <=> move.left = TRUE
                      /\ Bit(Bytes(move)[1], 16) <=> move.dx < 0
                      /\ Bit(Bytes(move)[1], 32) <=> move.dy < 0
<1> DEFINE l == Flag(move.left, 1)
           x == Flag(move.dx < 0, 16)
           y == Flag(move.dy < 0, 32)
<1>1. move.left \in BOOLEAN
    BY MovementsAssumption
<1>2. l \in {0, 1} /\ (l = 1 <=> move.left = TRUE)
  <2>1. CASE move.left = TRUE
      BY <2>1 DEF Flag
  <2>2. CASE move.left = FALSE
      BY <2>2 DEF Flag
  <2> QED BY <1>1, <2>1, <2>2
<1>3. x \in {0, 16} /\ y \in {0, 32} /\ (x = 16 <=> move.dx < 0) /\ (y = 32 <=> move.dy < 0)
    BY DEF Flag
<1>4. Bytes(move)[1] = 8 + l + x + y
    BY DEF Bytes
<1> HIDE DEF l, x, y
<1>5. /\ Bit(Bytes(move)[1], 1) <=> l = 1
      /\ Bit(Bytes(move)[1], 16) <=> x = 16
      /\ Bit(Bytes(move)[1], 32) <=> y = 32
    BY <1>2, <1>3, <1>4 DEF Bit
<1> QED BY <1>2, <1>3, <1>5

(* A packet of the movement's bytes gives the movement back. *)
LEMMA SignExtends == ASSUME NEW v \in -256 .. 255
                     PROVE  (v % 256) - (IF v < 0 THEN 256 ELSE 0) = v
<1>1. CASE v < 0
  <2>1. v % 256 = v + 256
      BY <1>1
  <2> QED BY <1>1, <2>1
<1>2. CASE ~ (v < 0)
  <2>1. v % 256 = v
      BY <1>2
  <2> QED BY <1>2, <2>1
<1> QED BY <1>1, <1>2

LEMMA PacketIsMovement ==
    ASSUME NEW move \in Movements, NEW packet \in [1 .. 3 -> 0 .. 255],
           \A i \in 1 .. 3 : packet[i] = Bytes(move)[i]
    PROVE  /\ process_mouse_packet(packet).deltaX = move.dx
           /\ process_mouse_packet(packet).deltaY = -move.dy
           /\ Bit(process_mouse_packet(packet).buttons, 1) = move.left
<1>1. /\ move.dx \in -256 .. 255 /\ move.dy \in -256 .. 255 /\ move.left \in BOOLEAN
    BY MovementsAssumption
<1>2. packet[1] = Bytes(move)[1] /\ packet[2] = move.dx % 256 /\ packet[3] = move.dy % 256
    BY DEF Bytes
<1>3. /\ Delta(packet[2], Bit(packet[1], 16)) = move.dx
      /\ Delta(packet[3], Bit(packet[1], 32)) = move.dy
  <2>1. (Bit(packet[1], 16) <=> move.dx < 0) /\ (Bit(packet[1], 32) <=> move.dy < 0)
      BY <1>2, Flags
  <2>2. Delta(packet[2], Bit(packet[1], 16)) = packet[2] - (IF move.dx < 0 THEN 256 ELSE 0)
      BY <2>1 DEF Delta, Bit
  <2>3. Delta(packet[3], Bit(packet[1], 32)) = packet[3] - (IF move.dy < 0 THEN 256 ELSE 0)
      BY <2>1 DEF Delta, Bit
  <2> QED BY <1>1, <1>2, <2>2, <2>3, SignExtends
<1>4. Bit(packet[1], 1) = move.left
  <2>1. Bit(packet[1], 1) <=> move.left = TRUE
      BY <1>2, Flags
  <2>2. CASE move.left = TRUE
      BY <2>1, <2>2, Zenon DEF Bit
  <2>3. CASE move.left = FALSE
      BY <2>1, <2>3, Zenon DEF Bit
  <2> QED BY <1>1, <2>2, <2>3
<1>5. /\ process_mouse_packet(packet).deltaX = Delta(packet[2], Bit(packet[1], 16))
      /\ process_mouse_packet(packet).deltaY = -Delta(packet[3], Bit(packet[1], 32))
      /\ process_mouse_packet(packet).buttons = packet[1]
    BY DEF process_mouse_packet
<1>6. Bit(process_mouse_packet(packet).buttons, 1) = move.left
    BY <1>4, <1>5, Zenon
<1> QED BY <1>3, <1>5, <1>6

LEMMA EventType == ASSUME NEW packet \in [1 .. 3 -> 0 .. 255]
                   PROVE  process_mouse_packet(packet) \in
                             [deltaX : -256 .. 255, deltaY : -255 .. 256, buttons : 0 .. 255]
<1>1. /\ Delta(packet[2], Bit(packet[1], 16)) \in -256 .. 255
      /\ -Delta(packet[3], Bit(packet[1], 32)) \in -255 .. 256
    BY DEF Delta
<1> QED BY <1>1 DEF process_mouse_packet

-----------------------------------------------------------------------------
(* The driver keeps step with the mouse. *)

(* A byte of the mouse comes. *)
LEMMA MoveKeeps == ASSUME DriverInv, HeldInv, ServiceInv, Move PROVE DriverInv'
<1> USE DEF DriverInv, MouseTypeOK, PhaseInv, Consumed, Answering, BeforeMouse
<1>1. PICK move \in Movements : Send(move)
    BY DEF Move
<1>2. /\ out = Nothing /\ out' = "move" /\ replies' = replies /\ pc' = pc
      /\ UNCHANGED <<active_context, mouse_cycle, mouse_packet, astray>>
      /\ event' = NoEvent
      /\ "ack" \notin replies /\ ~BeforeMouse
    BY DEF Move, Hold, Reporting
<1>3. /\ movement' \in Movements /\ movement' = move
      /\ sent' = (sent + 1) % 3 /\ sent' \in 0 .. 2
      /\ byte' = Bytes(move)[sent + 1] /\ byte' \in 0 .. 255
    BY <1>1, BytesType DEF Send
<1>4. Consumed' = sent /\ Consumed = sent
    BY <1>2, <1>3 DEF Nothing
<1>5. pc # "ack"
    BY <1>2 DEF Nothing
<1>6. ~astray => \A i \in 1 .. mouse_cycle : mouse_packet[i] = Bytes(movement')[i]
  <2>1. CASE sent = 0
      BY <1>4, <2>1
  <2>2. CASE move = movement
      BY <1>3, <2>2
  <2> QED BY <1>1, <2>1, <2>2 DEF Send
<1>7. MouseTypeOK'
    BY <1>2, <1>3
<1>8. PhaseInv'
    BY <1>2, <1>3, <1>4, <1>5, <1>6
<1> QED BY <1>2, <1>7, <1>8 DEF EventIsMovement

(* The driver takes one. *)
LEMMA TakeKeeps ==
    ASSUME DriverInv, NEW data \in 0 .. 255, NEW moved \in BOOLEAN, Take(data, moved),
           moved => out = "move" /\ data = byte,
           ~moved => out = "ack",
           pc \notin {"flush", "ask", "config", "write", "mouse", "ack"},
           out' = Nothing, pc' = "loop", replies' = replies,
           UNCHANGED <<active_context, deviceVars>>
    PROVE  DriverInv'
<1> USE DEF DriverInv, MouseTypeOK, PhaseInv, Answering, BeforeMouse
<1>1. /\ sent \in 0 .. 2 /\ sent' = sent /\ movement' = movement /\ byte' = byte
      /\ Consumed' = sent
      /\ active_context' = active_context
      /\ astray' <=> (astray \/ ~moved) /\ (mouse_cycle' # 0 \/ sent # 0)
      /\ astray' \in BOOLEAN
    BY DEF Take, deviceVars, Consumed, Nothing
<1>2. ASSUME moved
      PROVE  /\ Consumed = (sent + 2) % 3
             /\ data = Bytes(movement)[Consumed + 1]
             /\ Consumed = 0 => StartsPacket(data)
    BY <1>2, BytesType DEF Consumed
<1>3. ASSUME ~moved
      PROVE  sent = 0 /\ mouse_cycle = 0 /\ ~astray
    BY <1>3 DEF Consumed
<1>4. CASE TakeFirst(data)
  <2>1. mouse_cycle = 0 /\ event' = NoEvent
      BY <1>4 DEF TakeFirst
  <2>2. CASE StartsPacket(data)
    <3>1. /\ mouse_packet' = [mouse_packet EXCEPT ![1] = data]
          /\ mouse_cycle' = 1
        BY <1>4, <2>2 DEF TakeFirst
    <3>2. astray' <=> mouse_cycle' # Consumed'
        BY <1>1, <1>2, <1>3, <2>1, <3>1
    <3>3. ~astray' => \A i \in 1 .. mouse_cycle' : mouse_packet'[i] = Bytes(movement)[i]
        BY <1>1, <1>2, <1>3, <2>1, <3>1
    <3>4. MouseTypeOK'
        BY <1>1, <2>1, <3>1
    <3>5. EventIsMovement'
        BY <2>1 DEF EventIsMovement
    <3>6. PhaseInv'
        BY <1>1, <3>1, <3>2, <3>3 DEF Nothing
    <3> QED BY <3>4, <3>5, <3>6
  <2>3. CASE ~StartsPacket(data)
    <3>1. mouse_packet' = mouse_packet /\ mouse_cycle' = 0
        BY <1>4, <2>1, <2>3 DEF TakeFirst
    <3>2. astray' <=> mouse_cycle' # Consumed'
        BY <1>1, <1>2, <1>3, <2>1, <2>3, <3>1
    <3> QED BY <1>1, <2>1, <3>1, <3>2 DEF EventIsMovement, Nothing
  <2> QED BY <2>2, <2>3
<1>5. CASE TakeSecond(data)
  <2>1. /\ mouse_cycle = 1 /\ mouse_cycle' = 2 /\ event' = NoEvent
        /\ mouse_packet' = [mouse_packet EXCEPT ![2] = data]
      BY <1>5 DEF TakeSecond
  <2>2. moved
      BY <1>3, <2>1
  <2>3. astray' <=> mouse_cycle' # Consumed'
      BY <1>1, <1>2, <2>1, <2>2
  <2>4. ~astray' => mouse_packet'[1] = Bytes(movement)[1] /\ mouse_packet'[2] = Bytes(movement)[2]
      BY <1>1, <1>2, <2>1, <2>2
  <2> QED BY <1>1, <2>1, <2>3, <2>4 DEF EventIsMovement, Nothing
<1>6. CASE TakeThird(data)
  <2>1. /\ mouse_cycle = 2 /\ mouse_cycle' = 0
        /\ mouse_packet' = [mouse_packet EXCEPT ![3] = data]
        /\ event' = process_mouse_packet(mouse_packet')
      BY <1>6 DEF TakeThird
  <2> DEFINE packet == [mouse_packet EXCEPT ![3] = data]
  <2>9. packet \in [1 .. 3 -> 0 .. 255] /\ mouse_packet' = packet
        /\ event' = process_mouse_packet(packet)
      BY <2>1
  <2>2. moved
      BY <1>3, <2>1
  <2>3. astray' <=> mouse_cycle' # Consumed'
      BY <1>1, <1>2, <2>1, <2>2
  <2>4. ASSUME ~astray'
        PROVE  sent = 0 /\ \A i \in 1 .. 3 : packet[i] = Bytes(movement)[i]
    <3>1. ~astray /\ sent = 0 /\ Consumed = 2
        BY <1>1, <1>2, <2>1, <2>2, <2>4
    <3> QED BY <1>2, <2>1, <2>2, <3>1
  <2> HIDE DEF packet
  <2>5. EventIsMovement'
    <3>1. ASSUME ~astray'
          PROVE  /\ event'.deltaX = movement.dx
                 /\ event'.deltaY = -movement.dy
                 /\ Bit(event'.buttons, 1) = movement.left
      <4>1. movement \in Movements
          OBVIOUS
      <4> QED BY <4>1, <2>4, <2>9, <3>1, PacketIsMovement, Zenon
    <3>2. movement' = movement /\ sent' = sent
        BY <1>1
    <3> QED BY <2>4, <3>1, <3>2, Zenon DEF EventIsMovement
  <2>6. event' \in [deltaX : -256 .. 255, deltaY : -255 .. 256, buttons : 0 .. 255]
    <3>1. process_mouse_packet(packet) \in
             [deltaX : -256 .. 255, deltaY : -255 .. 256, buttons : 0 .. 255]
        BY <2>9, EventType
    <3> QED BY <2>9, <3>1
  <2>7. MouseTypeOK'
      BY <1>1, <2>1, <2>6, <2>9
  <2>8. PhaseInv'
      BY <1>1, <2>1, <2>3 DEF Nothing
  <2> QED BY <2>5, <2>7, <2>8
<1> QED BY <1>4, <1>5, <1>6 DEF Take

(* The terminal is shown, and it is thrown away. *)
LEMMA DropKeeps ==
    ASSUME DriverInv, Drop, FromMouse(out),
           pc \notin {"flush", "ask", "config", "write", "mouse", "ack"},
           out' = Nothing, pc' = "loop", replies' = replies,
           UNCHANGED <<active_context, deviceVars>>
    PROVE  DriverInv'
<1> USE DEF DriverInv, MouseTypeOK, PhaseInv, Answering, BeforeMouse
<1>1. /\ sent \in 0 .. 2 /\ sent' = sent /\ movement' = movement /\ byte' = byte
      /\ Consumed' = sent
      /\ active_context' = active_context
      /\ mouse_cycle' = 0 /\ event' = NoEvent /\ mouse_packet' = mouse_packet
      /\ astray' <=> sent # 0
      /\ astray' \in BOOLEAN
    BY DEF Drop, deviceVars, Consumed, Nothing
<1> QED BY <1>1 DEF EventIsMovement, Nothing

(* What is not the mouse's and not for the driver. *)
LEMMA OthersKeep ==
    ASSUME DriverInv, UNCHANGED <<deviceVars, driverVars>>,
           active_context' \in {"TERMINAL", "GUI"},
           out' = "move" <=> out = "move",
           BeforeMouse' => BeforeMouse /\ ~Answering',
           pc' = "ack" => Answering',
           out' = "ack" => "ack" \notin replies',
           Answering' => BeforeMouse \/ Answering
    PROVE  DriverInv'
<1>1. /\ UNCHANGED <<movement, sent, byte, mouse_cycle, mouse_packet, event, astray>>
      /\ Consumed' = Consumed
    BY DEF deviceVars, driverVars, Consumed
<1>2. MouseTypeOK'
    BY <1>1 DEF DriverInv, MouseTypeOK
<1>3. EventIsMovement'
    BY <1>1, Zenon DEF DriverInv, EventIsMovement
<1>4. PhaseInv'
    BY <1>1 DEF DriverInv, PhaseInv
<1> QED BY <1>2, <1>3, <1>4 DEF DriverInv

LEMMA DriverStep == ASSUME HeldInv, ServiceInv, Raised, DriverInv, [Next]_vars PROVE DriverInv'
<1> USE DEF BeforeMouse, Answering
<1>1. /\ active_context \in {"TERMINAL", "GUI"}
      /\ BeforeMouse => ~Answering
      /\ out = "ack" => "ack" \notin replies
      /\ pc = "ack" => Answering
      /\ BeforeMouse \/ Answering => out # "move"
    BY DEF DriverInv, MouseTypeOK, PhaseInv
<1>2. CASE Flush \/ AskConfig \/ ReadConfig \/ WriteConfig
    BY <1>1, <1>2, OthersKeep
       DEF Flush, AskConfig, ReadConfig, WriteConfig, mouseVars, controllerVars, Nothing
<1>3. CASE EnableMouse \/ ReadAck
    BY <1>1, <1>3, OthersKeep DEF EnableMouse, ReadAck, mouseVars, controllerVars, Nothing
<1>4. CASE Remap \/ Enable \/ SetGates
    BY <1>1, <1>4, OthersKeep DEF Remap, Enable, SetGates, mouseVars, controllerVars
<1>5. ASSUME NEW irq \in IRQs, Interrupt(irq) PROVE DriverInv'
  <2>1. /\ irq \in {0, 1, 12} /\ base = <<32, 40>>
        /\ UNCHANGED <<mouseVars, controllerVars>>
        /\ pc' = HandlerOf(VectorOf(irq))
      BY <1>5 DEF Interrupt, Deliverable, ServiceInv
  <2>2. pc' = IF irq = 0 THEN "timer" ELSE IF irq = 1 THEN "keyboard" ELSE "mouse_irq"
      BY <2>1, HandlerFound
  <2> QED BY <1>1, <2>1, <2>2, OthersKeep DEF mouseVars, controllerVars
<1>6. CASE TimerHandler
    BY <1>1, <1>6, OthersKeep DEF TimerHandler, Return, mouseVars, controllerVars
<1>7. CASE KeyboardHandler
  <2>1. out \in {"key", "config"}
      BY <1>7 DEF KeyboardHandler, Raised, Handlers
  <2> QED BY <1>1, <1>7, <2>1, OthersKeep DEF KeyboardHandler, handle_interrupt, Return, mouseVars, Nothing
<1>8. CASE MouseHandler
  <2>1. FromMouse(out)
      BY <1>8 DEF MouseHandler, Raised, Handlers
  <2>2. /\ out' = Nothing /\ pc' = "loop" /\ replies' = replies
        /\ UNCHANGED <<active_context, deviceVars>>
        /\ pc = "mouse_irq"
        /\ Drop \/ Take(DataOf(out), out = "move")
      BY <1>8, <2>1 DEF MouseHandler, Return
  <2>3. CASE Drop
      BY <2>1, <2>2, <2>3, DropKeeps
  <2>4. CASE out = "move" /\ Take(DataOf(out), out = "move")
    <3>1. DataOf(out) = byte /\ byte \in 0 .. 255 /\ Take(byte, TRUE)
        BY <2>4 DEF DataOf, DriverInv, MouseTypeOK, Take
    <3> QED BY <2>2, <2>4, <3>1, TakeKeeps
  <2>5. CASE out = "ack" /\ Take(DataOf(out), out = "move")
    <3>1. (out = "move") = FALSE /\ DataOf(out) = 250
        BY <2>5 DEF DataOf
    <3>2. Take(250, FALSE)
        BY <2>5, <3>1, Zenon
    <3>3. 250 \in 0 .. 255 /\ pc \notin {"flush", "ask", "config", "write", "mouse", "ack"}
        BY <2>2
    <3> QED BY <2>2, <2>5, <3>2, <3>3, TakeKeeps, Zenon
  <2> QED BY <2>1, <2>2, <2>3, <2>4, <2>5 DEF FromMouse
<1>9. CASE Sti \/ Cli \/ Exit \/ Tick
    BY <1>1, <1>9, OthersKeep DEF Sti, Cli, Exit, Tick, mouseVars, controllerVars
<1>10. CASE SwitchDisplay
    BY <1>1, <1>10, OthersKeep DEF SwitchDisplay, controllerVars
<1>11. CASE Key
    BY <1>1, <1>11, OthersKeep DEF Key, Hold, Nothing
<1>12. CASE Reply
    BY <1>1, <1>12, OthersKeep DEF Reply, Hold, Nothing, HeldInv
<1>13. CASE Move
    BY <1>13, MoveKeeps
<1>14. CASE UNCHANGED vars
    BY <1>1, <1>14, OthersKeep DEF vars, controllerVars
<1> QED BY <1>2, <1>3, <1>4, <1>5, <1>6, <1>7, <1>8, <1>9, <1>10, <1>11, <1>12, <1>13, <1>14
        DEF Next, Processor

-----------------------------------------------------------------------------
(* The invariants hold. *)

LEMMA Start == Init => ControllerInv /\ DriverInv
<1> SUFFICES ASSUME Init PROVE ControllerInv /\ DriverInv
    OBVIOUS
<1>1. HeldInv
  <2>1. config \in [irq1 : BOOLEAN, irq12 : BOOLEAN, translate : BOOLEAN]
      BY DEF Init
  <2>2. out \in Held \cup {Nothing} /\ replies = {} /\ asked = Nothing
      BY DEF Init, Held
  <2>3. imr \subseteq IRQs /\ taken \in 0 .. 2
      BY DEF Init
  <2>4. is_enabled \in BOOLEAN /\ struck \in BOOLEAN /\ stuck \in BOOLEAN
      BY DEF Init
  <2> QED BY <2>1, <2>2, <2>3, <2>4 DEF HeldInv
<1>2. ServiceInv
    BY DEF Init, ServiceInv, Serviced, Boot, Handlers
<1>3. Raised
    BY DEF Init, Raised, Handlers
<1>4. SetUp
  <2>1. pc = "flush" /\ taken = 0 /\ replies = {} /\ out \notin {"config", "ack"}
      BY DEF Init, Nothing
  <2>2. Counted
      BY <2>1 DEF Counted, AnswersLeft, Flag, Handlers
  <2>3. config.translate = TRUE
      BY DEF Init
  <2> QED BY <2>1, <2>2, <2>3 DEF SetUp, SettingUp
<1>5. MouseTypeOK
  <2>1. <<0, 0, 0>> \in [1 .. 3 -> 0 .. 255]
      OBVIOUS
  <2>2. astray \in BOOLEAN /\ event = NoEvent
      BY DEF Init, MouseInit
  <2> QED BY <2>1, <2>2 DEF Init, MouseInit, MouseTypeOK
<1>6. PhaseInv
    BY DEF Init, MouseInit, PhaseInv, Consumed, Answering, BeforeMouse, Nothing
<1>7. EventIsMovement
    BY DEF Init, MouseInit, EventIsMovement
<1> QED BY <1>1, <1>2, <1>3, <1>4, <1>5, <1>6, <1>7 DEF ControllerInv, DriverInv

LEMMA Holds == Spec => [](ControllerInv /\ DriverInv)
<1>1. ControllerInv /\ DriverInv /\ [Next]_vars => (ControllerInv /\ DriverInv)'
    BY HeldStep, ServiceStep, RaisedStep, SetUpStep, DriverStep DEF ControllerInv, DriverInv
<1> QED BY Start, <1>1, PTL DEF Spec

(* Every interrupt finds its handler, none is taken for an exception, and  *)
(* each is ended on every 8259 it came through before the loop goes on     *)
(* (interrupt_handler and PIC::send_eoi); the keyboard's and the mouse's   *)
(* handlers find a byte of their device: whatever comes when.              *)
THEOREM InterruptsEnd == Spec => []Ps2Inv
<1>1. ControllerInv /\ DriverInv => Ps2Inv
  <2> SUFFICES ASSUME ControllerInv, DriverInv PROVE Ps2Inv
      OBVIOUS
  <2>1. TypeOK
    <3>1. in_service \subseteq {0, 1, 2, 12}
        BY DEF ControllerInv, ServiceInv, Serviced, Boot, Handlers
    <3>2. pc \in Boot \cup Handlers \cup {"loop"} /\ irr \subseteq {0, 1, 12} /\ IF_flag \in BOOLEAN
        BY DEF ControllerInv, ServiceInv
    <3> QED BY <3>1, <3>2 DEF TypeOK, ControllerInv, HeldInv, DriverInv, Boot, Handlers
  <2>2. HandlersFindTheirBytes
      BY DEF ControllerInv, Raised, Handlers, HandlersFindTheirBytes
  <2>3. NeverTakenForException /\ EveryInterruptEnded
      BY DEF ControllerInv, ServiceInv, Serviced, Boot, Handlers, NeverTakenForException,
             EveryInterruptEnded
  <2> QED BY <2>1, <2>2, <2>3 DEF Ps2Inv
<1> QED BY Holds, <1>1, PTL

(* Whatever keys are struck while the controller is set up                 *)
(* (Mouse::initialize): each read that took a key for an answer leaves one *)
(* answer behind, no other is left, and a key is taken only if it came     *)
(* behind the flush; with none taken the keyboard's handler reads keys     *)
(* only, and the controller still translates.                              *)
THEOREM AnswersCounted == Spec => []AnswersAccounted
<1>1. ControllerInv => AnswersAccounted
  <2> SUFFICES ASSUME ControllerInv PROVE AnswersAccounted
      OBVIOUS
  <2>1. /\ pc \in {"remap", "enable", "gates"} => AnswersLeft = taken
        /\ pc \in {"loop", "timer", "keyboard", "mouse_irq"} => AnswersLeft <= taken
      BY DEF ControllerInv, SetUp, Counted, Handlers
  <2>2. taken = 0 => config.translate
      BY Zenon DEF ControllerInv, SetUp
  <2>3. ASSUME taken = 0, pc = "keyboard" PROVE out = "key"
    <3>1. out # "config"
        BY <2>1, <2>3 DEF AnswersLeft, Flag
    <3> QED BY <2>3, <3>1 DEF ControllerInv, Raised, Handlers
  <2>4. taken > 0 => struck
      BY DEF ControllerInv, HeldInv, SetUp
  <2> QED BY <2>1, <2>2, <2>3, <2>4 DEF AnswersAccounted
<1> QED BY Holds, <1>1, PTL

(* For every set of movements: what the driver puts together is what the   *)
(* mouse reported, unless bytes were thrown away since they last met, with *)
(* stray answers, lost interrupts and switches of the display in between.  *)
THEOREM EventsAreMovements == Spec => []EventIsMovement
<1>1. DriverInv => EventIsMovement
    BY DEF DriverInv
<1> QED BY Holds, <1>1, PTL
=============================================================================
