-------------------------- MODULE RingBufferProofs --------------------------
(***************************************************************************)
(* Theorems about RingBuffer, for every Size, Items and Zero.              *)
(***************************************************************************)
EXTENDS RingBuffer, TLAPS, SequenceTheorems

(* Succ is the successor on the ring. *)
LEMMA SuccOnRing ==
  ASSUME NEW i \in Slots
  PROVE  /\ Succ(i) = IF i + 1 = Size THEN 0 ELSE i + 1
         /\ Succ(i) \in Slots
BY SizeAssumption DEF Slots, Succ

(* Going at most once around the ring from slot t wraps at most once. *)
LEMMA WrapOnce ==
  ASSUME NEW t \in Slots, NEW k \in 0 .. Size - 1
  PROVE  (t + k) % Size = IF t + k >= Size THEN t + k - Size ELSE t + k
BY SizeAssumption DEF Slots

(* SlotOf counts slots from tail, wrapping at most once. *)
LEMMA SlotOfOnRing ==
  ASSUME TypeOK, NEW k \in 0 .. Size - 1
  PROVE  /\ SlotOf(k) = IF tail + k >= Size THEN tail + k - Size ELSE tail + k
         /\ SlotOf(k) \in Slots
BY WrapOnce, SizeAssumption DEF TypeOK, Slots, SlotOf

(* Count is between 0 and the capacity, and zero exactly when the ring is  *)
(* empty; the ring is full exactly at the capacity.                        *)
LEMMA CountBounds ==
  ASSUME TypeOK
  PROVE  /\ Count \in 0 .. Size - 1
         /\ Empty <=> Count = 0
         /\ Full <=> Count = Size - 1
         /\ head = SlotOf(Count)
<1>1. Succ(head) = IF head + 1 = Size THEN 0 ELSE head + 1
  BY SuccOnRing DEF TypeOK
<1>2. Count \in 0 .. Size - 1
  BY SizeAssumption DEF TypeOK, Slots, Count
<1>3. SlotOf(Count) = IF tail + Count >= Size THEN tail + Count - Size ELSE tail + Count
  BY <1>2, SlotOfOnRing
<1>4. QED
  BY <1>1, <1>2, <1>3, SizeAssumption DEF TypeOK, Slots, Count, Empty, Full

(* The slot the next push writes to holds nothing that was not delivered. *)
LEMMA HeadUnused ==
  ASSUME TypeOK
  PROVE  head \notin Unread
<1> SUFFICES ASSUME NEW k \in 0 .. Count - 1
             PROVE  SlotOf(k) # SlotOf(Count)
  BY CountBounds DEF Unread
<1>1. Count \in 0 .. Size - 1 /\ k \in 0 .. Size - 1
  BY CountBounds, SizeAssumption
<1>2. SlotOf(k) = IF tail + k >= Size THEN tail + k - Size ELSE tail + k
  BY <1>1, SlotOfOnRing
<1>3. SlotOf(Count) = IF tail + Count >= Size THEN tail + Count - Size ELSE tail + Count
  BY <1>1, SlotOfOnRing
<1>4. QED
  BY <1>1, <1>2, <1>3, SizeAssumption DEF TypeOK, Slots

(* The queue a buffer stands for is a sequence of items of length Count. *)
LEMMA QueueIsSeq ==
  ASSUME TypeOK
  PROVE  /\ Queue \in Seq(Items)
         /\ Len(Queue) = Count
<1>1. Count \in Nat
  BY CountBounds
<1>2. \A k \in 1 .. Count : buffer[SlotOf(k - 1)] \in Items
  BY CountBounds, SlotOfOnRing, SizeAssumption DEF TypeOK
<1>3. Queue \in [1 .. Count -> Items]
  BY <1>2 DEF Queue
<1>4. Queue \in Seq(Items)
  BY <1>1, <1>3, SeqDef
<1>5. QED
  BY <1>1, <1>3, <1>4, LenProperties

LEMMA InitIInv == Init => RingInv
<1> SUFFICES ASSUME Init PROVE RingInv
  OBVIOUS
<1>1. 0 \in Slots
  BY SizeAssumption DEF Slots
<1>2. TypeOK
  BY <1>1, ZeroAssumption DEF Init, TypeOK
<1>3. QED
  BY <1>2 DEF Init, RingInv, PopIsStable

LEMMA StepIInv == RingInv /\ [Next]_vars => RingInv'
<1> SUFFICES ASSUME RingInv, [Next]_vars
             PROVE  RingInv'
  OBVIOUS
<1> USE DEF RingInv
<1>1. CASE PushRefused
  BY <1>1 DEF PushRefused, TypeOK, PopIsStable, Empty
<1>2. ASSUME NEW x \in Items, PushStored(x)
      PROVE  RingInv'
  <2>1. Succ(head) \in Slots
    BY SuccOnRing DEF TypeOK
  <2>2. TypeOK'
    BY <1>2, <2>1 DEF PushStored, TypeOK
  <2>3. ~Empty'
    BY <1>2 DEF PushStored, Full, Empty
  <2>4. ASSUME pc = "advance" PROVE buffer'[tail] = buffer[tail]
    BY <1>2, <2>4 DEF PushStored, PopIsStable, Empty, TypeOK
  <2>5. QED
    BY <1>2, <2>2, <2>3, <2>4 DEF PushStored, PopIsStable
<1>3. CASE PopEmpty
  BY <1>3 DEF PopEmpty, TypeOK, PopIsStable, Empty
<1>4. CASE PopTest
  BY <1>4 DEF PopTest, TypeOK, PopIsStable, Empty
<1>5. CASE PopCopy
  BY <1>5 DEF PopCopy, TypeOK, PopIsStable, Empty
<1>6. CASE PopAdvance
  <2>1. Succ(tail) \in Slots
    BY SuccOnRing DEF TypeOK
  <2>2. QED
    BY <1>6, <2>1 DEF PopAdvance, TypeOK, PopIsStable, Empty
<1>7. CASE UNCHANGED vars
  BY <1>7 DEF vars, TypeOK, PopIsStable, Empty
<1>8. QED
  BY <1>1, <1>2, <1>3, <1>4, <1>5, <1>6, <1>7 DEF Next

(* A push between any two accesses of pop, should there be one, leaves the *)
(* item being popped where it is.                                          *)
THEOREM Stable == Spec => []RingInv
BY InitIInv, StepIInv, PTL DEF Spec

-----------------------------------------------------------------------------
(* What each step does to the queue. *)

(* A push that is accepted found room, and occupies one slot more. *)
LEMMA PushCounts ==
  ASSUME RingInv, NEW x \in Items, PushStored(x)
  PROVE  /\ Count < Size - 1
         /\ Count' = Count + 1
<1>1. Count \in 0 .. Size - 1 /\ Count < Size - 1 /\ head = SlotOf(Count)
  BY CountBounds, SizeAssumption DEF PushStored, RingInv
<1>2. Succ(head) = IF head + 1 = Size THEN 0 ELSE head + 1
  BY SuccOnRing DEF RingInv, TypeOK
<1>3. Count' = Count + 1
  BY <1>1, <1>2, SizeAssumption DEF PushStored, Full, Count, RingInv, TypeOK, Slots
<1>4. QED
  BY <1>1, <1>3

(* A push appends to the queue. *)
LEMMA PushAppends ==
  ASSUME RingInv, NEW x \in Items, PushStored(x)
  PROVE  /\ Queue' = Append(Queue, x)
         /\ Count < Size - 1
<1>1. TypeOK'
  BY StepIInv DEF Next, RingInv
<1>2. Count \in 0 .. Size - 1 /\ Count < Size - 1 /\ head = SlotOf(Count)
  BY PushCounts, CountBounds, SizeAssumption DEF RingInv
<1>4. Count' = Count + 1
  BY PushCounts
<1>5. \A k \in 0 .. Count : SlotOf(k)' = SlotOf(k)
  BY DEF PushStored, SlotOf
<1>6. \A k \in 0 .. Count - 1 : SlotOf(k) # head
  BY HeadUnused DEF RingInv, Unread
<1>7. \A k \in 1 .. Count : buffer'[SlotOf(k - 1)] = buffer[SlotOf(k - 1)]
  <2> SUFFICES ASSUME NEW k \in 1 .. Count
               PROVE  buffer'[SlotOf(k - 1)] = buffer[SlotOf(k - 1)]
    OBVIOUS
  <2>1. k - 1 \in 0 .. Count - 1 /\ k - 1 \in 0 .. Size - 1
    BY <1>2, SizeAssumption
  <2>2. SlotOf(k - 1) # head /\ SlotOf(k - 1) \in Slots
    BY <1>6, <2>1, SlotOfOnRing DEF RingInv
  <2>3. QED
    BY <2>2 DEF PushStored, RingInv, TypeOK
<1>8. buffer'[SlotOf(Count)] = x
  BY <1>2 DEF PushStored, RingInv, TypeOK
<1>9. Queue' = [k \in 1 .. Count + 1 |-> IF k = Count + 1 THEN x ELSE Queue[k]]
  <2>1. Queue' = [k \in 1 .. Count + 1 |-> buffer'[SlotOf(k - 1)']]
    BY <1>4 DEF Queue
  <2>2. ASSUME NEW k \in 1 .. Count + 1
        PROVE  buffer'[SlotOf(k - 1)'] = IF k = Count + 1 THEN x ELSE Queue[k]
    <3>1. SlotOf(k - 1)' = SlotOf(k - 1)
      BY <1>2, <1>5
    <3>2. CASE k = Count + 1
      BY <1>2, <1>8, <3>1, <3>2
    <3>3. CASE k \in 1 .. Count
      BY <1>2, <1>7, <3>1, <3>3 DEF Queue
    <3>4. QED
      BY <1>2, <3>2, <3>3
  <2>3. QED
    BY <2>1, <2>2
<1>10. Queue \in Seq(Items) /\ Len(Queue) = Count
  BY QueueIsSeq DEF RingInv
<1>11. Append(Queue, x) = [k \in 1 .. Count + 1 |-> IF k = Count + 1 THEN x ELSE Queue[k]]
  <2> DEFINE a == [k \in 1 .. Count + 1 |-> IF k = Count + 1 THEN x ELSE Queue[k]]
  <2>1. a \in [1 .. Count + 1 -> Items]
    BY <1>2, <1>10
  <2>2. a \in Seq(Items) /\ Len(a) = Count + 1
    BY <1>2, <2>1, SeqDef, LenProperties
  <2>3. /\ Append(Queue, x) \in Seq(Items)
        /\ Len(Append(Queue, x)) = Count + 1
        /\ \A k \in 1 .. Count : Append(Queue, x)[k] = Queue[k]
        /\ Append(Queue, x)[Count + 1] = x
    BY <1>2, <1>10, AppendProperties
  <2>4. ASSUME NEW k \in 1 .. Count + 1 PROVE Append(Queue, x)[k] = a[k]
    BY <1>2, <2>3
  <2>5. QED
    BY <2>2, <2>3, <2>4, SeqEqual
<1>12. QED
  BY <1>2, <1>9, <1>11

(* A pop that completes shifts the slots that hold items by one. *)
LEMMA PopShifts ==
  ASSUME RingInv, PopAdvance
  PROVE  /\ Count \in 1 .. Size - 1
         /\ Count' = Count - 1
         /\ \A k \in 0 .. Count - 2 : SlotOf(k)' = SlotOf(k + 1)
<1>1. Count \in 1 .. Size - 1
  BY CountBounds, SizeAssumption DEF PopAdvance, RingInv, PopIsStable
<1>2. Succ(tail) = IF tail + 1 = Size THEN 0 ELSE tail + 1
  BY SuccOnRing DEF RingInv, TypeOK
<1>3. Count' = Count - 1
  BY <1>1, <1>2, SizeAssumption DEF PopAdvance, Count, RingInv, TypeOK, Slots
<1>4. \A k \in 0 .. Count - 2 : SlotOf(k)' = SlotOf(k + 1)
  <2> SUFFICES ASSUME NEW k \in 0 .. Count - 2
               PROVE  SlotOf(k)' = SlotOf(k + 1)
    OBVIOUS
  <2>1. TypeOK'
    BY StepIInv DEF Next, RingInv
  <2>2. SlotOf(k)' = IF tail' + k >= Size THEN tail' + k - Size ELSE tail' + k
    <3>1. tail' \in Slots /\ k \in 0 .. Size - 1
      BY <1>1, <2>1, SizeAssumption DEF TypeOK
    <3>2. QED
      BY <3>1, WrapOnce DEF SlotOf
  <2>3. SlotOf(k + 1) = IF tail + (k + 1) >= Size THEN tail + (k + 1) - Size ELSE tail + (k + 1)
    BY <1>1, SlotOfOnRing, SizeAssumption DEF RingInv
  <2>4. QED
    BY <1>1, <1>2, <2>2, <2>3, SizeAssumption DEF PopAdvance, RingInv, TypeOK, Slots
<1>5. QED
  BY <1>1, <1>3, <1>4

(* A pop that completes removes the oldest item and delivers it. *)
LEMMA PopRemovesHead ==
  ASSUME RingInv, PopAdvance
  PROVE  /\ Queue # <<>>
         /\ received' = Head(Queue)
         /\ Queue' = Tail(Queue)
<1>1. Count \in 1 .. Size - 1
  BY PopShifts
<1>3. Count' = Count - 1
  BY PopShifts
<1>4. \A k \in 0 .. Count - 2 : SlotOf(k)' = SlotOf(k + 1)
  BY PopShifts
<1>5. Queue \in Seq(Items) /\ Len(Queue) = Count /\ Queue # <<>>
  BY <1>1, QueueIsSeq DEF RingInv
<1>6. SlotOf(0) = tail
  BY SlotOfOnRing, SizeAssumption DEF RingInv, TypeOK, Slots
<1>7. received' = Head(Queue)
  <2>1. Head(Queue) = Queue[1]
    BY <1>5
  <2>2. Queue[1] = buffer[tail]
    BY <1>1, <1>6 DEF Queue
  <2>3. QED
    BY <2>1, <2>2 DEF PopAdvance, RingInv, PopIsStable
<1>8. Queue' = [k \in 1 .. Count - 1 |-> Queue[k + 1]]
  <2>1. Queue' = [k \in 1 .. Count - 1 |-> buffer[SlotOf(k - 1)']]
    BY <1>3 DEF Queue, PopAdvance
  <2>2. ASSUME NEW k \in 1 .. Count - 1
        PROVE  buffer[SlotOf(k - 1)'] = Queue[k + 1]
    <3>1. SlotOf(k - 1)' = SlotOf(k)
      BY <1>1, <1>4
    <3>2. QED
      BY <1>1, <3>1 DEF Queue
  <2>3. QED
    BY <2>1, <2>2
<1>9. Tail(Queue) = [k \in 1 .. Count - 1 |-> Queue[k + 1]]
  <2> DEFINE t == [k \in 1 .. Count - 1 |-> Queue[k + 1]]
  <2>1. ASSUME NEW k \in 1 .. Count - 1 PROVE Queue[k + 1] \in Items
    BY <1>1, <1>5
  <2>2. t \in [1 .. Count - 1 -> Items]
    BY <2>1
  <2>3. t \in Seq(Items) /\ Len(t) = Count - 1
    BY <1>1, <2>2, SeqDef, LenProperties
  <2>4. /\ Tail(Queue) \in Seq(Items)
        /\ Len(Tail(Queue)) = Count - 1
        /\ \A k \in 1 .. Count - 1 : Tail(Queue)[k] = Queue[k + 1]
    BY <1>1, <1>5, HeadTailProperties
  <2>5. QED
    BY <2>3, <2>4, SeqEqual
<1>10. QED
  BY <1>5, <1>7, <1>8, <1>9

(* A step that leaves the slots, head and tail alone leaves the queue alone. *)
LEMMA QueueUnchanged ==
  ASSUME UNCHANGED <<buffer, head, tail>>
  PROVE  Queue' = Queue
BY DEF Queue, Count, SlotOf

(* No step changes a slot that holds an undelivered item, and only a pop   *)
(* that completes gives one up: the one at tail, which it has copied.      *)
THEOREM Untouched == Spec => UnreadUntouched
<1> DEFINE Kept == \A i \in Unread : /\ buffer'[i] = buffer[i]
                                     /\ i \in Unread' \/ (i = tail /\ pc = "advance")
<1>1. ASSUME RingInv, Next PROVE Kept
  <2> SUFFICES ASSUME NEW k \in 0 .. Count - 1
               PROVE  /\ buffer'[SlotOf(k)] = buffer[SlotOf(k)]
                      /\ \/ SlotOf(k) \in Unread'
                         \/ SlotOf(k) = tail /\ pc = "advance"
    BY DEF Unread
  <2>1. Count \in 0 .. Size - 1 /\ k \in 0 .. Size - 1
    BY <1>1, CountBounds, SizeAssumption DEF RingInv
  <2>2. SlotOf(k) # head /\ SlotOf(k) \in Slots
    BY <1>1, <2>1, HeadUnused, SlotOfOnRing DEF Unread, RingInv
  <2>3. ASSUME UNCHANGED <<buffer, head, tail>>
        PROVE  buffer'[SlotOf(k)] = buffer[SlotOf(k)] /\ SlotOf(k) \in Unread'
    BY <2>3 DEF Unread, Count, SlotOf
  <2>4. ASSUME NEW x \in Items, PushStored(x)
        PROVE  buffer'[SlotOf(k)] = buffer[SlotOf(k)] /\ SlotOf(k) \in Unread'
    <3>1. Count' = Count + 1
      BY <1>1, <2>4, PushCounts
    <3>2. SlotOf(k)' = SlotOf(k)
      BY <2>4 DEF PushStored, SlotOf
    <3>3. k \in 0 .. Count' - 1
      BY <2>1, <3>1
    <3>4. SlotOf(k)' \in Unread'
      BY <3>3 DEF Unread
    <3>5. QED
      BY <1>1, <2>2, <2>4, <3>2, <3>4 DEF PushStored, RingInv, TypeOK
  <2>5. ASSUME PopAdvance
        PROVE  /\ buffer'[SlotOf(k)] = buffer[SlotOf(k)]
               /\ \/ SlotOf(k) \in Unread'
                  \/ SlotOf(k) = tail /\ pc = "advance"
    <3>1. CASE k = 0
      <4>1. SlotOf(0) = tail
        BY <1>1, SlotOfOnRing, SizeAssumption DEF RingInv, TypeOK, Slots
      <4>2. QED
        BY <2>5, <3>1, <4>1 DEF PopAdvance
    <3>2. CASE k # 0
      <4>1. k - 1 \in 0 .. Count - 2 /\ k - 1 \in 0 .. Count' - 1 /\ (k - 1) + 1 = k
        BY <1>1, <2>1, <2>5, <3>2, PopShifts
      <4>2. SlotOf(k - 1)' = SlotOf(k)
        BY <1>1, <2>5, <4>1, PopShifts
      <4>3. SlotOf(k - 1)' \in Unread'
        BY <4>1 DEF Unread
      <4>4. QED
        BY <2>5, <4>2, <4>3 DEF PopAdvance
    <3>3. QED
      BY <3>1, <3>2
  <2>6. QED
    BY <1>1, <2>3, <2>4, <2>5 DEF Next, PushRefused, PopEmpty, PopTest, PopCopy
<1>2. RingInv /\ [Next]_vars => [Kept]_vars
  BY <1>1
<1>3. QED
  BY <1>2, InitIInv, StepIInv, PTL DEF Spec, UnreadUntouched

(* The ring buffer implements the bounded FIFO of Size - 1 items: what is  *)
(* accepted is delivered once, in order, whatever the interleaving.        *)
THEOREM Refinement == Spec => FifoSpec
<1>1. Init => Fifo!FifoInit
  <2> SUFFICES ASSUME Init PROVE Fifo!FifoInit
    OBVIOUS
  <2>1. TypeOK /\ Count = 0
    BY InitIInv, CountBounds DEF Init, RingInv, Empty
  <2>2. Queue = <<>>
    BY <2>1, QueueIsSeq, EmptySeq
  <2>3. QED
    BY <2>2, ZeroAssumption DEF Init, Fifo!FifoInit
<1>2. RingInv /\ [Next]_vars => [Fifo!FifoNext]_(Fifo!fifoVars)
  <2> SUFFICES ASSUME RingInv, [Next]_vars
               PROVE  [Fifo!FifoNext]_(Fifo!fifoVars)
    OBVIOUS
  <2>1. Len(Queue) = Count
    BY QueueIsSeq DEF RingInv
  <2>2. CASE PushRefused
    BY <2>1, <2>2, CountBounds, QueueUnchanged
       DEF PushRefused, RingInv, Fifo!FifoNext, Fifo!Refuse
  <2>3. ASSUME NEW x \in Items, PushStored(x)
        PROVE  Fifo!Enqueue
    BY <2>1, <2>3, PushAppends DEF PushStored, Fifo!Enqueue
  <2>4. CASE PopEmpty
    <3>1. Queue = <<>>
      BY <2>4, CountBounds, QueueIsSeq, EmptySeq DEF PopEmpty, RingInv
    <3>2. QED
      BY <2>4, <3>1, QueueUnchanged DEF PopEmpty, Fifo!FifoNext, Fifo!FindEmpty
  <2>5. CASE PopTest
    BY <2>5, QueueUnchanged DEF PopTest, Fifo!fifoVars
  <2>6. CASE PopCopy
    BY <2>6, QueueUnchanged DEF PopCopy, Fifo!fifoVars
  <2>7. CASE PopAdvance
    BY <2>7, PopRemovesHead DEF PopAdvance, Fifo!FifoNext, Fifo!Dequeue
  <2>8. CASE UNCHANGED vars
    BY <2>8, QueueUnchanged DEF vars, Fifo!fifoVars
  <2>9. QED
    BY <2>2, <2>3, <2>4, <2>5, <2>6, <2>7, <2>8 DEF Next, Fifo!FifoNext
<1>3. QED
  BY <1>1, <1>2, InitIInv, StepIInv, PTL DEF Spec, FifoSpec, Fifo!FifoSpec
=============================================================================
