---------------------------- MODULE BoundedFifo ----------------------------
(***************************************************************************)
(* What an interrupt handler and the main loop may rely on when they share *)
(* one of the kernel's input buffers (include/utils/ring_buffer.h): a FIFO *)
(* of at most Capacity items.  A push that finds it full is refused, a pop *)
(* that finds it empty says so, and an item that was accepted is delivered *)
(* once, unchanged and in order.                                           *)
(***************************************************************************)
EXTENDS Naturals, Sequences

CONSTANTS Items,      \* what is queued: scancodes, or mouse events
          Capacity    \* how many items fit

VARIABLES queue,      \* the accepted items that were not delivered yet
          accepted,   \* what the last push returned
          found,      \* what the last pop returned
          received    \* what the last successful pop delivered

fifoVars == <<queue, accepted, found, received>>

FifoInit == /\ queue = <<>>
            /\ accepted = TRUE
            /\ found = FALSE
            /\ received \in Items

Enqueue == /\ Len(queue) < Capacity
           /\ \E x \in Items : queue' = Append(queue, x)
           /\ accepted' = TRUE
           /\ UNCHANGED <<found, received>>

Refuse == /\ Len(queue) = Capacity
          /\ accepted' = FALSE
          /\ UNCHANGED <<queue, found, received>>

Dequeue == /\ queue # <<>>
           /\ received' = Head(queue)
           /\ queue' = Tail(queue)
           /\ found' = TRUE
           /\ UNCHANGED accepted

FindEmpty == /\ queue = <<>>
             /\ found' = FALSE
             /\ UNCHANGED <<queue, accepted, received>>

FifoNext == Enqueue \/ Refuse \/ Dequeue \/ FindEmpty

FifoSpec == FifoInit /\ [][FifoNext]_fifoVars
=============================================================================
