----------------------------- MODULE RingBuffer -----------------------------
(***************************************************************************)
(* KeyboardBuffer and MouseBuffer (src/drivers/input/ring_buffer.cpp): the *)
(* two classes are the same code over uint8_t and over MouseEvent.  push   *)
(* runs inside an interrupt handler, with interrupts off, so it is one     *)
(* step.  pop runs in the main loop and is split at its memory accesses:   *)
(* the test, the copy out of the slot, the move of tail.  A push may       *)
(* happen between any two of them, which is more than main.cpp allows (it  *)
(* pops under cli): what holds here does not depend on that cli.           *)
(***************************************************************************)
EXTENDS Naturals, Sequences

CONSTANTS Items,   \* scancodes, or mouse events
          Zero,    \* the item every slot starts with (buffer{})
          Size     \* KEYBOARD_BUFFER_SIZE, MOUSE_BUFFER_SIZE

ASSUME SizeAssumption == Size \in Nat \ {0}
ASSUME ZeroAssumption == Zero \in Items

VARIABLES buffer,    \* the slots
          head,      \* where the ISR writes to
          tail,      \* where the router reads from
          pc,        \* where pop stands: "ready" (not inside), "copy", "advance"
          data,      \* pop's out-parameter while pop runs
          accepted,  \* what the last push returned
          found,     \* what the last pop returned
          received   \* data, as the caller sees it when pop returns true

vars == <<buffer, head, tail, pc, data, accepted, found, received>>

Slots == 0 .. Size - 1

Succ(i) == (i + 1) % Size

FullNever == FALSE
FullLate  == head = tail
Full  == Succ(head) = tail
Empty == head = tail

Init == /\ buffer = [i \in Slots |-> Zero]
        /\ head = 0
        /\ tail = 0
        /\ pc = "ready"
        /\ data = Zero
        /\ accepted = TRUE
        /\ found = FALSE
        /\ received = Zero

(* push, `return false' *)
PushRefused == /\ Full
               /\ accepted' = FALSE
               /\ UNCHANGED <<buffer, head, tail, pc, data, found, received>>

(* push, the item is stored and head moves *)
PushStored(x) == /\ ~Full
                 /\ buffer' = [buffer EXCEPT ![head] = x]
                 /\ head' = Succ(head)
                 /\ accepted' = TRUE
                 /\ UNCHANGED <<tail, pc, data, found, received>>

(* pop, `head == tail': nothing to deliver *)
PopEmpty == /\ pc = "ready"
            /\ Empty
            /\ found' = FALSE
            /\ UNCHANGED <<buffer, head, tail, pc, data, accepted, received>>

(* pop, `head == tail' is false *)
PopTest == /\ pc = "ready"
           /\ ~Empty
           /\ pc' = "copy"
           /\ UNCHANGED <<buffer, head, tail, data, accepted, found, received>>

(* pop, data = buffer[tail] *)
PopCopy == /\ pc = "copy"
           /\ data' = buffer[tail]
           /\ pc' = "advance"
           /\ UNCHANGED <<buffer, head, tail, accepted, found, received>>

(* pop, tail moves and the caller gets data *)
PopAdvance == /\ pc = "advance"
              /\ tail' = Succ(tail)
              /\ received' = data
              /\ found' = TRUE
              /\ pc' = "ready"
              /\ UNCHANGED <<buffer, head, data, accepted>>

Next == \/ PushRefused
        \/ \E x \in Items : PushStored(x)
        \/ PopEmpty
        \/ PopTest
        \/ PopCopy
        \/ PopAdvance

Spec == Init /\ [][Next]_vars

-----------------------------------------------------------------------------
(* Which slots hold items, and the queue they stand for. *)

Count == IF head >= tail THEN head - tail ELSE head - tail + Size

SlotOf(k) == (tail + k) % Size

Unread == {SlotOf(k) : k \in 0 .. Count - 1}

Queue == [k \in 1 .. Count |-> buffer[SlotOf(k - 1)]]

TypeOK == /\ buffer \in [Slots -> Items]
          /\ head \in Slots
          /\ tail \in Slots
          /\ pc \in {"ready", "copy", "advance"}
          /\ data \in Items
          /\ accepted \in BOOLEAN
          /\ found \in BOOLEAN
          /\ received \in Items

(* While pop is inside the buffer its slot is occupied, and once copied it *)
(* still holds what was copied, whatever is pushed meanwhile.              *)
PopIsStable == /\ pc # "ready" => ~Empty
               /\ pc = "advance" => data = buffer[tail]

(* Types, and what pop's position says: inductive. *)
RingInv == TypeOK /\ PopIsStable

(* No push touches a slot that holds an undelivered item, and no push or   *)
(* pop makes the reader lose more than the one item it was given.          *)
UnreadUntouched == [][\A i \in Unread : /\ buffer'[i] = buffer[i]
                                        /\ i \in Unread' \/ (i = tail /\ pc = "advance")]_vars

(* The buffer is a bounded FIFO that holds one item fewer than it has      *)
(* slots; pop takes effect when tail moves.                                *)
Fifo == INSTANCE BoundedFifo WITH Capacity <- Size - 1, queue <- Queue
FifoSpec == Fifo!FifoSpec
=============================================================================
