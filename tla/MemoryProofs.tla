---------------------------- MODULE MemoryProofs ----------------------------
(***************************************************************************)
(* Proofs about the heap, for every region, every set of requests and      *)
(* every word size, and about the boot's choice of the region, for every   *)
(* memory map: HeapInv and BootInv are inductive, the heap grants and      *)
(* releases what AbstractHeap promises, the boot and the heap together are *)
(* the one and the other, and so every block lies in usable memory.        *)
(***************************************************************************)
EXTENDS KernelMemory, TLAPS

-----------------------------------------------------------------------------
(* The heap. *)

(* align_8 rounds a request up to a multiple of 8, without wrapping. *)
LEMMA AlignUp ==
  ASSUME NEW n \in Requests
  PROVE  /\ align_8(n) \in Nat
         /\ align_8(n) >= n
         /\ align_8(n) < n + 8
         /\ align_8(n) % 8 = 0
         /\ align_8(n) = ((n + 7) \div 8) * 8
<1>1. n \in Nat /\ n + 7 < Word /\ Word \in Nat
  BY RequestsAssumption
<1>2. (n + 7) % Word = n + 7
  BY <1>1
<1>3. QED
  BY <1>1, <1>2 DEF align_8

(* The types of a header's fields, and what Tiled says of one block. *)
LEMMA BlockFacts ==
  ASSUME TypeOK, Tiled, NEW b \in DOMAIN heap
  PROVE  /\ b \in Nat /\ b # 0 /\ b >= HeapStart /\ b < HeapEnd /\ HeapEnd \in Nat
         /\ heap[b].size \in Nat
         /\ heap[b].is_free \in BOOLEAN
         /\ heap[b].next \in Nat
         /\ EndOf(b) = b + 24 + heap[b].size
         /\ EndOf(b) <= HeapEnd
         /\ heap[b].next = IF EndOf(b) = HeapEnd THEN 0 ELSE EndOf(b)
         /\ heap[b].next # 0 => heap[b].next \in DOMAIN heap /\ heap[b].next > b
<1>1. HeapStart \in Nat /\ HeapStart # 0 /\ HeapEnd \in Nat /\ Addr = HeapStart .. HeapEnd - 1
  BY RegionAssumption DEF HeapEnd, Addr
<1>2. b \in Addr /\ heap[b] \in [size : Nat, is_free : BOOLEAN, next : Addr \cup {Null}]
  BY DEF TypeOK
<1>3. heap[b].size \in Nat /\ heap[b].is_free \in BOOLEAN /\ heap[b].next \in Addr \cup {Null}
  BY <1>2
<1>4. EndOf(b) = b + 24 + heap[b].size
  BY DEF EndOf, Payload, HEADER
<1>5. QED
  BY <1>1, <1>2, <1>3, <1>4 DEF Tiled, Null

(* The empty heap or the single free block init_heap makes. *)
LEMMA InitIInv == Init => HeapInv
<1> SUFFICES ASSUME Init PROVE HeapInv
  OBVIOUS
<1> USE DEF Init
<1>1. HeapStart \in Nat /\ HeapStart # 0 /\ HeapEnd \in Nat /\ HeapEnd = HeapStart + HeapSize
  BY RegionAssumption DEF HeapEnd
<1>2. CASE HeapSize < HEADER
  <2>1. DOMAIN heap = {} /\ free_list_head = Null /\ heap = [b \in {} |-> 0]
    BY <1>2 DEF InitHeap
  <2>2. TypeOK
    BY <2>1 DEF TypeOK, Null
  <2>3. QED
    BY <1>2, <2>1, <2>2 DEF HeapInv, Tiled, LiveBlocks, Coalesced, LoopInv, HeadIsFirst, Passed, OnList
<1>3. CASE ~(HeapSize < HEADER)
  <2> DEFINE h == [size |-> HeapSize - HEADER, is_free |-> TRUE, next |-> Null]
  <2>1. /\ DOMAIN heap = {HeapStart}
        /\ heap[HeapStart] = h
        /\ free_list_head = HeapStart
    BY <1>3 DEF InitHeap
  <2>2. /\ HeapSize \in Nat
        /\ HeapSize - HEADER \in Nat
        /\ (HeapSize - HEADER) % 8 = 0
        /\ HeapStart % 8 = 0
        /\ HeapStart \in Addr
    BY <1>1, <1>3, RegionAssumption DEF HEADER, Addr
  <2>3. heap[HeapStart].size = HeapSize - HEADER /\ heap[HeapStart].is_free /\ heap[HeapStart].next = Null
    BY <2>1
  <2>4. EndOf(HeapStart) = HeapEnd
    BY <1>1, <2>2, <2>3 DEF EndOf, Payload, HEADER
  <2>5. TypeOK
    <3>1. heap[HeapStart] \in [size : Nat, is_free : BOOLEAN, next : Addr \cup {Null}]
      BY <2>1, <2>2
    <3>2. heap = [b \in DOMAIN heap |-> heap[b]]
      BY <1>3 DEF InitHeap
    <3>3. QED
      BY <2>1, <2>2, <3>1, <3>2 DEF TypeOK, Null
  <2>6. Tiled
    <3>1. \A a \in Addr : HeapStart <= a /\ a < EndOf(HeapStart)
      BY <1>1, <2>4 DEF Addr
    <3>2. QED
      BY <1>1, <2>1, <2>2, <2>3, <2>4, <3>1 DEF Tiled
  <2>7. LiveBlocks /\ Coalesced
    BY <2>1, <2>3 DEF LiveBlocks, Coalesced
  <2>8. LoopInv
    BY <1>3, <2>1 DEF LoopInv, HeadIsFirst, Passed, OnList
  <2>9. QED
    BY <2>5, <2>6, <2>7, <2>8 DEF HeapInv
<1>4. QED
  BY <1>2, <1>3

-----------------------------------------------------------------------------
(* The steps that leave the blocks alone. *)

LEMMA SameBlocks ==
  ASSUME HeapInv, UNCHANGED <<heap, live, free_list_head>>
  PROVE  Tiled' /\ LiveBlocks' /\ HeadIsFirst'
BY DEF HeapInv, Tiled, LiveBlocks, LoopInv, HeadIsFirst, EndOf, Payload

LEMMA FirstBlock ==
  ASSUME HeapInv
  PROVE  /\ free_list_head \in DOMAIN heap \cup {Null}
         /\ free_list_head = Null <=> DOMAIN heap = {}
         /\ \A b \in DOMAIN heap : b >= free_list_head
<1>1. HeapStart # Null
  BY RegionAssumption DEF Null
<1>2. \A b \in DOMAIN heap : b >= HeapStart
  BY BlockFacts DEF HeapInv
<1>3. QED
  BY <1>1, <1>2 DEF HeapInv, LoopInv, HeadIsFirst, Tiled

LEMMA StepZero ==
  ASSUME HeapInv, KmallocZero
  PROVE  HeapInv'
<1>1. Tiled' /\ LiveBlocks' /\ HeadIsFirst'
  BY SameBlocks DEF KmallocZero
<1>2. TypeOK'
  BY DEF KmallocZero, HeapInv, TypeOK, Null
<1>3. Coalesced' /\ Passed' /\ OnList'
  BY DEF KmallocZero, HeapInv, Coalesced, LoopInv, Passed, OnList, Fits
<1>4. QED
  BY <1>1, <1>2, <1>3 DEF HeapInv, LoopInv

LEMMA StepBegin ==
  ASSUME HeapInv, NEW n \in Requests, KmallocBegin(n)
  PROVE  HeapInv'
<1>1. Tiled' /\ LiveBlocks' /\ HeadIsFirst'
  BY SameBlocks DEF KmallocBegin
<1>2. TypeOK'
  BY FirstBlock DEF KmallocBegin, HeapInv, TypeOK
<1>3. Coalesced'
  BY DEF KmallocBegin, HeapInv, Coalesced
<1>4. ASSUME NEW b \in DOMAIN heap, current' # Null => b < current'
      PROVE  FALSE
  BY <1>4, FirstBlock, BlockFacts DEF KmallocBegin, HeapInv, Null
<1>5. Passed' /\ OnList'
  BY <1>4 DEF KmallocBegin, Passed, OnList
<1>6. QED
  BY <1>1, <1>2, <1>3, <1>5 DEF HeapInv, LoopInv

LEMMA StepSkip ==
  ASSUME HeapInv, KmallocSkip
  PROVE  HeapInv'
<1>1. Tiled' /\ LiveBlocks' /\ HeadIsFirst'
  BY SameBlocks DEF KmallocSkip
<1>2. current \in DOMAIN heap /\ current # 0
  BY DEF KmallocSkip, HeapInv, TypeOK, Null
<1>3. heap[current].next \in DOMAIN heap \cup {Null}
  BY <1>2, BlockFacts DEF HeapInv, Null
<1>4. TypeOK'
  BY <1>3 DEF KmallocSkip, HeapInv, TypeOK
<1>5. Coalesced'
  BY DEF KmallocSkip, HeapInv, Coalesced
<1>6. ASSUME NEW b \in DOMAIN heap, current' # Null => b < current'
      PROVE  ~Fits(b)
  <2>1. b < current \/ b = current
    <3>1. ~(current < b)
      <4>1. SUFFICES ASSUME current < b PROVE FALSE
        OBVIOUS
      <4>2. EndOf(current) <= b /\ b < HeapEnd /\ b \in Nat /\ EndOf(current) \in Nat
        BY <1>2, <4>1, BlockFacts DEF HeapInv, Tiled
      <4>3. current' = EndOf(current) /\ current' # 0
        BY <1>2, <4>2, BlockFacts DEF HeapInv, KmallocSkip
      <4>4. QED
        BY <1>6, <4>2, <4>3 DEF Null
    <3>2. QED
      BY <1>2, <3>1, BlockFacts DEF HeapInv
  <2>2. CASE b < current
    BY <1>2, <2>2 DEF KmallocSkip, HeapInv, LoopInv, Passed
  <2>3. CASE b = current
    BY <2>3 DEF KmallocSkip
  <2>4. QED
    BY <2>1, <2>2, <2>3
<1>7. Passed' /\ OnList'
  BY <1>6 DEF KmallocSkip, HeapInv, LoopInv, Passed, OnList, Fits
<1>8. QED
  BY <1>1, <1>4, <1>5, <1>7 DEF HeapInv, LoopInv

LEMMA StepFail ==
  ASSUME HeapInv, KmallocFail
  PROVE  HeapInv'
<1>1. Tiled' /\ LiveBlocks' /\ HeadIsFirst'
  BY SameBlocks DEF KmallocFail
<1>2. TypeOK'
  BY DEF KmallocFail, Return, HeapInv, TypeOK, Null
<1>3. Coalesced' /\ Passed' /\ OnList'
  BY DEF KmallocFail, Return, HeapInv, Coalesced, LoopInv, Passed, OnList
<1>4. QED
  BY <1>1, <1>2, <1>3 DEF HeapInv, LoopInv

LEMMA StepAdvance ==
  ASSUME HeapInv, CoalesceAdvance
  PROVE  HeapInv'
<1>1. Tiled' /\ LiveBlocks' /\ HeadIsFirst'
  BY SameBlocks DEF CoalesceAdvance
<1>2. current \in DOMAIN heap /\ heap[current].next # 0 /\ pc = "coalesce"
  BY DEF CoalesceAdvance, InCoalesce, HeapInv, TypeOK, Null
<1>3. heap[current].next \in DOMAIN heap
  BY <1>2, BlockFacts DEF HeapInv
<1>4. TypeOK'
  BY <1>3 DEF CoalesceAdvance, HeapInv, TypeOK
<1>5. Coalesced'
  <2> SUFFICES ASSUME NEW b \in DOMAIN heap, heap[b].next # Null, b < heap[current].next
               PROVE  ~(heap[b].is_free /\ heap[heap[b].next].is_free)
    BY <1>2 DEF CoalesceAdvance, Coalesced
  <2>1. b < current \/ b = current
    <3>1. heap[current].next = EndOf(current) /\ EndOf(current) \in Nat
      BY <1>2, BlockFacts DEF HeapInv
    <3>2. ~(current < b)
      BY <1>2, <3>1, BlockFacts DEF HeapInv, Tiled
    <3>3. QED
      BY <1>2, <3>2, BlockFacts DEF HeapInv
  <2>2. CASE b < current
    BY <1>2, <2>2 DEF HeapInv, Coalesced
  <2>3. CASE b = current
    BY <2>3 DEF CoalesceAdvance, Mergeable
  <2>4. QED
    BY <2>1, <2>2, <2>3
<1>6. Passed' /\ OnList'
  BY <1>2, <1>3, BlockFacts DEF CoalesceAdvance, HeapInv, Passed, OnList, Null
<1>7. QED
  BY <1>1, <1>4, <1>5, <1>6 DEF HeapInv, LoopInv

LEMMA StepDone ==
  ASSUME HeapInv, CoalesceDone
  PROVE  HeapInv'
<1>1. Tiled' /\ LiveBlocks' /\ HeadIsFirst'
  BY SameBlocks DEF CoalesceDone
<1>2. TypeOK'
  BY DEF CoalesceDone, Return, HeapInv, TypeOK, Null
<1>3. Coalesced'
  <2> SUFFICES ASSUME NEW b \in DOMAIN heap, heap[b].next # Null
               PROVE  ~(heap[b].is_free /\ heap[heap[b].next].is_free)
    BY DEF CoalesceDone, Coalesced
  <2>1. current \in DOMAIN heap /\ heap[current].next = 0
    BY DEF CoalesceDone, HeapInv, TypeOK, LoopInv, OnList, Null
  <2>2. EndOf(current) = HeapEnd
    BY <2>1, BlockFacts DEF HeapInv
  <2>3. b < current
    <3>1. b < HeapEnd /\ b # current
      BY <2>1, BlockFacts DEF HeapInv, Null
    <3>2. ~(current < b)
      BY <2>1, <2>2, <3>1, BlockFacts DEF HeapInv, Tiled
    <3>3. QED
      BY <2>1, <3>1, <3>2, BlockFacts DEF HeapInv
  <2>4. QED
    BY <2>3 DEF HeapInv, Coalesced
<1>4. Passed' /\ OnList'
  BY DEF CoalesceDone, Return, Passed, OnList
<1>5. QED
  BY <1>1, <1>2, <1>3, <1>4 DEF HeapInv, LoopInv

-----------------------------------------------------------------------------
(* kfree: marking the block. *)

LEMMA StepFree ==
  ASSUME HeapInv, NEW p \in DOMAIN live, KfreeBegin(p)
  PROVE  HeapInv'
<1>1. PICK c \in DOMAIN heap : p = Payload(c) /\ ~heap[c].is_free
  BY DEF HeapInv, LiveBlocks
<1>2. c = p - HEADER /\ c \in Nat
  BY <1>1, BlockFacts DEF HeapInv, Payload, HEADER
<1>3. /\ DOMAIN heap' = DOMAIN heap
      /\ heap' = [heap EXCEPT ![c].is_free = TRUE]
      /\ \A b \in DOMAIN heap : /\ heap'[b].size = heap[b].size
                                /\ heap'[b].next = heap[b].next
                                /\ heap'[b].is_free = (IF b = c THEN TRUE ELSE heap[b].is_free)
  <2>1. heap' = [heap EXCEPT ![c].is_free = TRUE]
    BY <1>2 DEF KfreeBegin
  <2>2. heap[c] \in [size : Nat, is_free : BOOLEAN, next : Addr \cup {Null}]
    BY DEF HeapInv, TypeOK
  <2>3. QED
    BY <2>1, <2>2 DEF HeapInv, TypeOK
<1>4. TypeOK'
  <2>1. \A b \in DOMAIN heap : heap'[b] \in [size : Nat, is_free : BOOLEAN, next : Addr \cup {Null}]
    BY <1>3 DEF HeapInv, TypeOK
  <2>2. heap' = [b \in DOMAIN heap' |-> heap'[b]]
    BY <1>3 DEF HeapInv, TypeOK
  <2>3. /\ live' = [q \in DOMAIN live' |-> live'[q]]
        /\ \A q \in DOMAIN live' : live'[q] \in Requests
    BY DEF KfreeBegin, HeapInv, TypeOK
  <2>4. current' \in DOMAIN heap' \cup {Null}
    BY <1>3, FirstBlock DEF KfreeBegin
  <2>5. UNCHANGED <<free_list_head, request, answer>> /\ pc' = "coalesce"
    BY DEF KfreeBegin
  <2>6. QED
    BY <1>3, <2>1, <2>2, <2>3, <2>4, <2>5 DEF HeapInv, TypeOK
<1>5. Tiled'
  BY <1>3 DEF HeapInv, Tiled, EndOf, Payload
<1>6. LiveBlocks'
  <2>1. DOMAIN live' = DOMAIN live \ {p} /\ \A q \in DOMAIN live' : live'[q] = live[q]
    BY DEF KfreeBegin
  <2>2. \A b \in DOMAIN heap : Payload(b) = p <=> b = c
    BY <1>1, <1>2, BlockFacts DEF HeapInv, Payload, HEADER
  <2>3. DOMAIN live' = {Payload(b) : b \in {d \in DOMAIN heap' : ~heap'[d].is_free}}
    BY <1>3, <2>1, <2>2 DEF HeapInv, LiveBlocks
  <2>4. \A q \in DOMAIN live' : live'[q] <= heap'[q - HEADER].size
    <3> SUFFICES ASSUME NEW q \in DOMAIN live'
                 PROVE  live[q] <= heap'[q - HEADER].size
      BY <2>1
    <3>1. PICK d \in DOMAIN heap : q = Payload(d)
      BY <2>1 DEF HeapInv, LiveBlocks
    <3>2. q - HEADER = d
      BY <3>1, BlockFacts DEF HeapInv, Payload, HEADER
    <3>3. QED
      BY <1>3, <2>1, <3>2 DEF HeapInv, LiveBlocks
  <2>5. QED
    BY <2>3, <2>4 DEF LiveBlocks
<1>7. Coalesced'
  BY <1>3, FirstBlock, BlockFacts DEF KfreeBegin, HeapInv, Coalesced, Null
<1>8. LoopInv'
  BY <1>3, FirstBlock DEF KfreeBegin, HeapInv, LoopInv, HeadIsFirst, Passed, OnList
<1>9. QED
  BY <1>4, <1>5, <1>6, <1>7, <1>8 DEF HeapInv

(* kfree: merging a block with its successor. *)

LEMMA StepMerge ==
  ASSUME HeapInv, CoalesceMerge
  PROVE  HeapInv'
<1> DEFINE n == heap[current].next
           m == heap[n]
<1>1. /\ pc = "coalesce" /\ pc' = "coalesce"
      /\ current \in DOMAIN heap /\ current # 0
      /\ n \in DOMAIN heap /\ n > current /\ n # 0
      /\ heap[current].is_free /\ m.is_free
      /\ UNCHANGED <<free_list_head, pc, current, request, live, answer>>
  BY BlockFacts DEF CoalesceMerge, InCoalesce, Mergeable, HeapInv, TypeOK, Null
<1>2. /\ heap[current].size \in Nat /\ m.size \in Nat
      /\ n = EndOf(current) /\ EndOf(current) = current + 24 + heap[current].size
      /\ EndOf(n) = n + 24 + m.size
      /\ current \in Nat /\ n \in Nat /\ EndOf(n) \in Nat /\ current # n
  BY <1>1, BlockFacts DEF HeapInv
<1>3. /\ DOMAIN heap' = DOMAIN heap \ {n}
      /\ heap' = [b \in DOMAIN heap' |-> heap'[b]]
      /\ \A b \in DOMAIN heap' : b # current => heap'[b] = heap[b]
      /\ heap'[current] = Merged
      /\ heap'[current].size = heap[current].size + 24 + m.size
      /\ heap'[current].is_free
      /\ heap'[current].next = m.next
  <2>1. heap' = [b \in DOMAIN heap \ {n} |-> IF b = current THEN Merged ELSE heap[b]]
    BY DEF CoalesceMerge
  <2>2. heap[current] \in [size : Nat, is_free : BOOLEAN, next : Addr \cup {Null}]
    BY <1>1 DEF HeapInv, TypeOK
  <2>3. /\ Merged.size = heap[current].size + 24 + m.size
        /\ Merged.is_free
        /\ Merged.next = m.next
    BY <1>1, <2>2 DEF Merged, HEADER
  <2>4. QED
    BY <1>1, <1>2, <2>1, <2>3
<1>4. \A b \in DOMAIN heap' : EndOf(b)' = IF b = current THEN EndOf(n) ELSE EndOf(b)
  BY <1>1, <1>2, <1>3 DEF EndOf, Payload, HEADER
<1>5. TypeOK'
  <2>1. heap'[current] \in [size : Nat, is_free : BOOLEAN, next : Addr \cup {Null}]
    <3>1. heap[current] \in [size : Nat, is_free : BOOLEAN, next : Addr \cup {Null}]
      BY <1>1 DEF HeapInv, TypeOK
    <3>2. m.next \in Addr \cup {Null} /\ heap[current].size + HEADER + m.size \in Nat
      BY <1>1, <1>2 DEF HeapInv, TypeOK, HEADER
    <3>3. QED
      BY <1>3, <3>1, <3>2 DEF Merged
  <2>2. \A b \in DOMAIN heap' : heap'[b] \in [size : Nat, is_free : BOOLEAN, next : Addr \cup {Null}]
    BY <1>3, <2>1 DEF HeapInv, TypeOK
  <2>3. current \in DOMAIN heap' /\ DOMAIN heap' \subseteq DOMAIN heap
    BY <1>1, <1>2, <1>3
  <2>4. QED
    BY <1>1, <1>3, <2>2, <2>3 DEF HeapInv, TypeOK
<1>6. Tiled'
  <2>1. HeapStart \in DOMAIN heap'
    BY <1>1, <1>3, BlockFacts, RegionAssumption DEF HeapInv, Tiled
  <2>2. ASSUME NEW b \in DOMAIN heap'
        PROVE  /\ b % 8 = 0
               /\ heap'[b].size % 8 = 0
               /\ EndOf(b)' <= HeapEnd
               /\ heap'[b].next = IF EndOf(b)' = HeapEnd THEN Null ELSE EndOf(b)'
    <3>1. CASE b = current
      <4>1. heap[current].size % 8 = 0 /\ m.size % 8 = 0 /\ current % 8 = 0
        BY <1>1 DEF HeapInv, Tiled
      <4>2. (heap[current].size + 24 + m.size) % 8 = 0
        BY <1>2, <4>1
      <4>3. QED
        BY <1>1, <1>3, <1>4, <3>1, <4>1, <4>2 DEF HeapInv, Tiled
    <3>2. CASE b # current
      BY <1>3, <1>4, <3>2 DEF HeapInv, Tiled
    <3>3. QED
      BY <3>1, <3>2
  <2>3. ASSUME NEW b \in DOMAIN heap', heap'[b].next # Null
        PROVE  heap'[b].next \in DOMAIN heap'
    <3>1. CASE b = current
      BY <1>1, <1>2, <1>3, <2>3, <3>1, BlockFacts DEF HeapInv, Null
    <3>2. CASE b # current
      <4>1. heap[b].next \in DOMAIN heap
        BY <1>3, <2>3, <3>2 DEF HeapInv, Tiled
      <4>2. heap[b].next = EndOf(b) /\ b \in Nat /\ EndOf(b) \in Nat /\ EndOf(b) > b
        BY <1>3, <2>3, <3>2, BlockFacts DEF HeapInv, Null
      <4>3. heap[b].next # n
        <5>1. b < current => EndOf(b) <= current
          BY <1>1, <1>3 DEF HeapInv, Tiled
        <5>2. current < b => n <= b
          BY <1>1, <1>2, <1>3 DEF HeapInv, Tiled
        <5>3. QED
          BY <1>1, <1>2, <3>2, <4>2, <5>1, <5>2
      <4>4. QED
        BY <1>3, <3>2, <4>1, <4>3
    <3>3. QED
      BY <3>1, <3>2
  <2>4. ASSUME NEW b \in DOMAIN heap', NEW c \in DOMAIN heap', b < c
        PROVE  EndOf(b)' <= c
    <3>1. CASE b = current
      <4>1. n < c
        <5>1. EndOf(current) <= c
          BY <1>1, <1>3, <2>4, <3>1 DEF HeapInv, Tiled
        <5>2. c # n /\ c \in Nat
          BY <1>3, BlockFacts DEF HeapInv
        <5>3. QED
          BY <1>2, <5>1, <5>2
      <4>2. EndOf(n) <= c
        BY <1>1, <1>3, <4>1 DEF HeapInv, Tiled
      <4>3. QED
        BY <1>4, <3>1, <4>2
    <3>2. CASE b # current
      BY <1>3, <1>4, <2>4, <3>2 DEF HeapInv, Tiled
    <3>3. QED
      BY <3>1, <3>2
  <2>5. ASSUME NEW a \in Addr
        PROVE  \E b \in DOMAIN heap' : b <= a /\ a < EndOf(b)'
    <3>1. PICK b \in DOMAIN heap : b <= a /\ a < EndOf(b)
      BY <1>1 DEF HeapInv, Tiled
    <3>2. a \in Nat
      BY RegionAssumption DEF Addr, HeapEnd
    <3>3. CASE b = current \/ b = n
      BY <1>1, <1>2, <1>3, <1>4, <3>1, <3>2, <3>3
    <3>4. CASE b # current /\ b # n
      BY <1>3, <1>4, <3>1, <3>4
    <3>5. QED
      BY <3>3, <3>4
  <2>6. QED
    BY <2>1, <2>2, <2>3, <2>4, <2>5 DEF Tiled
<1>7. LiveBlocks'
  <2>1. {b \in DOMAIN heap' : ~heap'[b].is_free} = {b \in DOMAIN heap : ~heap[b].is_free}
    BY <1>1, <1>3
  <2>2. \A q \in DOMAIN live : live[q] <= heap'[q - HEADER].size
    <3> SUFFICES ASSUME NEW q \in DOMAIN live
                 PROVE  live[q] <= heap'[q - HEADER].size
      OBVIOUS
    <3>1. PICK d \in DOMAIN heap : q = Payload(d) /\ ~heap[d].is_free
      BY DEF HeapInv, LiveBlocks
    <3>2. q - HEADER = d
      BY <3>1, BlockFacts DEF HeapInv, Payload, HEADER
    <3>3. d # current /\ d # n
      BY <1>1, <3>1
    <3>4. QED
      BY <1>3, <3>2, <3>3 DEF HeapInv, LiveBlocks
  <2>3. QED
    BY <1>1, <2>1, <2>2 DEF HeapInv, LiveBlocks
<1>8. Coalesced'
  <2> SUFFICES ASSUME NEW b \in DOMAIN heap', heap'[b].next # Null, b < current,
                      heap'[b].is_free, heap'[heap'[b].next].is_free
               PROVE  FALSE
    BY <1>1 DEF Coalesced
  <2>1. b # current /\ heap'[b] = heap[b] /\ b \in DOMAIN heap
    BY <1>1, <1>3, BlockFacts DEF HeapInv
  <2>2. heap[b].next \in DOMAIN heap'
    BY <1>6, <2>1 DEF Tiled
  <2>3. heap[heap[b].next].is_free
    BY <1>1, <1>3, <2>1, <2>2
  <2>4. QED
    BY <1>1, <2>1, <2>3 DEF HeapInv, Coalesced
<1>9. LoopInv'
  <2>1. current \in DOMAIN heap'
    BY <1>1, <1>2, <1>3
  <2>2. QED
    BY <1>1, <2>1 DEF HeapInv, LoopInv, HeadIsFirst, Passed, OnList, Null
<1>10. QED
  BY <1>5, <1>6, <1>7, <1>8, <1>9 DEF HeapInv

-----------------------------------------------------------------------------
(* kmalloc: taking a block, whole or split. *)

(* The part of the invariant a take does not touch, and what it hands out. *)
LEMMA TakeFrame ==
  ASSUME HeapInv, KmallocTake
  PROVE  /\ current \in DOMAIN heap /\ current # 0
         /\ heap[current].is_free
         /\ request \in Requests /\ request # 0
         /\ align_8(request) \in Nat /\ align_8(request) >= request
         /\ align_8(request) >= 8 /\ align_8(request) % 8 = 0
         /\ heap[current].size >= align_8(request)
         /\ DOMAIN live' = DOMAIN live \cup {Payload(current)}
         /\ live'[Payload(current)] = request
         /\ \A p \in DOMAIN live : p # Payload(current) => live'[p] = live[p]
         /\ live' = [p \in DOMAIN live' |-> live'[p]]
         /\ Payload(current) \notin DOMAIN live
         /\ \A p \in DOMAIN live' : live'[p] \in Requests
         /\ pc' = "idle" /\ current' = Null /\ request' = 0
         /\ UNCHANGED free_list_head
         /\ answer' \in [size : Requests \cup {0}, ptr : Nat]
<1>1. current \in DOMAIN heap /\ current # 0 /\ heap[current].is_free
      /\ heap[current].size >= align_8(request)
  BY DEF KmallocTake, Fits, HeapInv, TypeOK, Null
<1>2. request \in Requests /\ request # 0
  BY DEF KmallocTake, HeapInv, TypeOK, LoopInv, Passed
<1>3. request \in Nat
  BY <1>2, RequestsAssumption
<1>4. /\ align_8(request) \in Nat /\ align_8(request) >= request
      /\ align_8(request) % 8 = 0
  BY <1>2, AlignUp
<1>5. align_8(request) >= 8
  BY <1>2, <1>3, <1>4
<1>6. live' = [p \in DOMAIN live \cup {Payload(current)} |->
                  IF p = Payload(current) THEN request ELSE live[p]]
  BY DEF KmallocTake
<1>7. Payload(current) \notin DOMAIN live
  <2>1. \A b \in DOMAIN heap : Payload(b) = Payload(current) => b = current
    BY <1>1, BlockFacts DEF HeapInv, Payload, HEADER
  <2>2. QED
    BY <1>1, <2>1 DEF HeapInv, LiveBlocks
<1>8. \A p \in DOMAIN live' : live'[p] \in Requests
  BY <1>2, <1>6 DEF HeapInv, TypeOK
<1>9. answer' \in [size : Requests \cup {0}, ptr : Nat]
  BY <1>1, <1>2, BlockFacts DEF KmallocTake, HeapInv, Payload, HEADER
<1>10. QED
  BY <1>1, <1>2, <1>4, <1>5, <1>6, <1>7, <1>8, <1>9 DEF KmallocTake, Return

(* If the blocks in use become those that were and the one that is taken,  *)
(* and keep their sizes, then they are what callers hold.                  *)
LEMMA TakenIsLive ==
  ASSUME HeapInv, KmallocTake,
         DOMAIN heap \subseteq DOMAIN heap',
         {b \in DOMAIN heap' : ~heap'[b].is_free}
           = {b \in DOMAIN heap : ~heap[b].is_free} \cup {current},
         \A b \in DOMAIN heap : b # current => heap'[b].size = heap[b].size,
         heap'[current].size >= request, heap'[current].size \in Nat
  PROVE  LiveBlocks'
<1> DEFINE Used == {b \in DOMAIN heap : ~heap[b].is_free}
<1>1. DOMAIN live = {Payload(b) : b \in Used}
  BY DEF HeapInv, LiveBlocks
<1>2. {Payload(b) : b \in Used \cup {current}}
        = {Payload(b) : b \in Used} \cup {Payload(current)}
  OBVIOUS
<1>3. DOMAIN live' = {Payload(b) : b \in {d \in DOMAIN heap' : ~heap'[d].is_free}}
  BY <1>1, <1>2, TakeFrame
<1>4. ASSUME NEW p \in DOMAIN live'
      PROVE  live'[p] <= heap'[p - HEADER].size
  <2>1. CASE p = Payload(current)
    <3>1. p - HEADER = current
      BY <2>1, TakeFrame, BlockFacts DEF HeapInv, Payload, HEADER
    <3>2. request \in Nat
      BY TakeFrame, RequestsAssumption
    <3>3. QED
      BY <2>1, <3>1, <3>2, TakeFrame
  <2>2. CASE p # Payload(current)
    <3>1. p \in DOMAIN live /\ live'[p] = live[p]
      BY <2>2, TakeFrame
    <3>2. PICK d \in Used : p = Payload(d)
      BY <1>1, <3>1
    <3>3. p - HEADER = d /\ d # current
      BY <2>2, <3>2, BlockFacts DEF HeapInv, Payload, HEADER
    <3>4. heap'[p - HEADER].size = heap[p - HEADER].size
      BY <3>2, <3>3
    <3>5. live[p] <= heap[p - HEADER].size
      BY <3>1 DEF HeapInv, LiveBlocks
    <3>6. QED
      BY <3>1, <3>4, <3>5
  <2>3. QED
    BY <2>1, <2>2
<1>5. QED
  BY <1>3, <1>4 DEF LiveBlocks

LEMMA StepTakeWhole ==
  ASSUME HeapInv, KmallocTake, ~Splittable(current)
  PROVE  HeapInv'
<1> DEFINE c == current
<1>1. /\ DOMAIN heap' = DOMAIN heap
      /\ heap' = [b \in DOMAIN heap' |-> heap'[b]]
      /\ \A b \in DOMAIN heap : /\ heap'[b].size = heap[b].size
                                /\ heap'[b].next = heap[b].next
                                /\ heap'[b].is_free = (IF b = c THEN FALSE ELSE heap[b].is_free)
                                /\ heap'[b] \in [size : Nat, is_free : BOOLEAN, next : Addr \cup {Null}]
  <2>1. heap' = [heap EXCEPT ![c].is_free = FALSE]
    BY DEF KmallocTake
  <2>2. \A b \in DOMAIN heap : heap[b] \in [size : Nat, is_free : BOOLEAN, next : Addr \cup {Null}]
    BY DEF HeapInv, TypeOK
  <2>3. QED
    BY <2>1, <2>2, TakeFrame
<1>2. TypeOK'
  BY <1>1, TakeFrame DEF HeapInv, TypeOK
<1>3. Tiled'
  BY <1>1 DEF HeapInv, Tiled, EndOf, Payload
<1>4. LiveBlocks'
  <2>0. c \in DOMAIN heap /\ heap[c].size \in Nat
    BY TakeFrame, BlockFacts DEF HeapInv
  <2>1. {b \in DOMAIN heap' : ~heap'[b].is_free}
          = {b \in DOMAIN heap : ~heap[b].is_free} \cup {c}
    BY <1>1, TakeFrame
  <2>2. \A b \in DOMAIN heap' : heap'[b].size = heap[b].size
    BY <1>1
  <2>3. heap[c].size >= request
    BY TakeFrame, BlockFacts, RequestsAssumption DEF HeapInv
  <2>4. QED
    BY <1>1, <2>0, <2>1, <2>2, <2>3, TakenIsLive
<1>5. Coalesced'
  <2>1. \A b \in DOMAIN heap : heap[b].next # Null => ~(heap[b].is_free /\ heap[heap[b].next].is_free)
    BY DEF KmallocTake, HeapInv, Coalesced
  <2>2. \A b \in DOMAIN heap : heap[b].next # Null => heap[b].next \in DOMAIN heap
    BY DEF HeapInv, Tiled
  <2>3. QED
    BY <1>1, <2>1, <2>2, TakeFrame DEF Coalesced
<1>6. LoopInv'
  BY <1>1, TakeFrame DEF HeapInv, LoopInv, HeadIsFirst, Passed, OnList
<1>7. QED
  BY <1>2, <1>3, <1>4, <1>5, <1>6 DEF HeapInv

(* What a split of block c leaves: c keeps a bytes, and n is a free block  *)
(* that takes the rest and c's place in front of c's successor.            *)
IsSplit(c, n, a) ==
    /\ DOMAIN heap' = DOMAIN heap \cup {n}
    /\ c \in Nat /\ n \in Nat /\ a \in Nat /\ n = c + 24 + a
    /\ c < n /\ n < EndOf(c) /\ n \notin DOMAIN heap /\ c # n
    /\ n \in Addr
    /\ heap'[c].size = a /\ ~heap'[c].is_free /\ heap'[c].next = n
    /\ heap'[n].size = heap[c].size - a - 24 /\ heap'[n].is_free
    /\ heap'[n].next = heap[c].next
    /\ heap'[c] \in [size : Nat, is_free : BOOLEAN, next : Addr \cup {Null}]
    /\ heap'[n] \in [size : Nat, is_free : BOOLEAN, next : Addr \cup {Null}]
    /\ heap[c].size - a - 24 \in Nat
    /\ (heap[c].size - a - 24) % 8 = 0
    /\ n % 8 = 0
    /\ \A b \in DOMAIN heap : b # c => heap'[b] = heap[b]
    /\ EndOf(c)' = n
    /\ EndOf(n)' = EndOf(c)
    /\ \A b \in DOMAIN heap : b # c => EndOf(b)' = EndOf(b)

LEMMA SplitFacts ==
  ASSUME HeapInv, KmallocTake, Splittable(current),
         NEW c, NEW n, NEW a,
         c = current, n = NewBlock(current), a = align_8(request)
  PROVE  IsSplit(c, n, a)
<1>1. /\ c \in DOMAIN heap /\ c \in Nat /\ heap[c].size \in Nat /\ a \in Nat
      /\ EndOf(c) = c + 24 + heap[c].size /\ EndOf(c) <= HeapEnd /\ HeapEnd \in Nat
      /\ c >= HeapStart /\ HeapStart \in Nat
  BY TakeFrame, BlockFacts, RegionAssumption DEF HeapInv
<1>2. heap[c].size >= a + 32 /\ n = c + 24 + a
  BY <1>1, TakeFrame DEF Splittable, HEADER, MIN_PAYLOAD, NewBlock
<1>3. n \in Nat /\ c < n /\ n < EndOf(c) /\ c # n
  BY <1>1, <1>2
<1>4. n \notin DOMAIN heap
  BY <1>1, <1>3 DEF HeapInv, Tiled
<1>5. n \in Addr
  BY <1>1, <1>3 DEF Addr
<1>6. c % 8 = 0 /\ heap[c].size % 8 = 0 /\ a % 8 = 0
  BY <1>1, TakeFrame DEF HeapInv, Tiled
<1>7. n % 8 = 0 /\ (heap[c].size - a - 24) % 8 = 0 /\ heap[c].size - a - 24 \in Nat
  BY <1>1, <1>2, <1>6
<1>8. heap' = Split(c)
  BY DEF KmallocTake
<1>9. /\ DOMAIN heap' = DOMAIN heap \cup {n}
      /\ heap'[c] = [size |-> a, is_free |-> FALSE, next |-> n]
      /\ heap'[n] = [size |-> heap[c].size - a - 24, is_free |-> TRUE, next |-> heap[c].next]
      /\ \A b \in DOMAIN heap : b # c => heap'[b] = heap[b]
  BY <1>1, <1>3, <1>4, <1>8 DEF Split, HEADER
<1>10. /\ c + 24 + heap'[c].size = n
       /\ n + 24 + heap'[n].size = EndOf(c)
       /\ \A b \in DOMAIN heap : b # c => b + 24 + heap'[b].size = b + 24 + heap[b].size
  BY <1>1, <1>2, <1>9
<1>11. /\ heap'[c].size = a /\ ~heap'[c].is_free /\ heap'[c].next = n
       /\ heap'[n].size = heap[c].size - a - 24 /\ heap'[n].is_free
       /\ heap'[n].next = heap[c].next
       /\ heap'[c] \in [size : Nat, is_free : BOOLEAN, next : Addr \cup {Null}]
       /\ heap'[n] \in [size : Nat, is_free : BOOLEAN, next : Addr \cup {Null}]
  <2>1. heap[c].next \in Addr \cup {Null}
    BY <1>1 DEF HeapInv, TypeOK
  <2>2. QED
    BY <1>1, <1>5, <1>7, <1>9, <2>1
<1>12. /\ EndOf(c)' = n
       /\ EndOf(n)' = EndOf(c)
       /\ \A b \in DOMAIN heap : b # c => EndOf(b)' = EndOf(b)
  BY <1>10 DEF EndOf, Payload, HEADER
<1>13. QED
  BY <1>1, <1>2, <1>3, <1>4, <1>5, <1>7, <1>9, <1>11, <1>12 DEF IsSplit

LEMMA StepTakeSplit ==
  ASSUME HeapInv, KmallocTake, Splittable(current)
  PROVE  HeapInv'
<1>1. PICK c, n, a : c = current /\ n = NewBlock(current) /\ a = align_8(request)
  OBVIOUS
<1>0. IsSplit(c, n, a)
  BY <1>1, SplitFacts
<1>2. c \in DOMAIN heap /\ heap[c].is_free /\ a \in Nat /\ a % 8 = 0
  BY <1>1, TakeFrame
<1>3. /\ DOMAIN heap' = DOMAIN heap \cup {n}
      /\ \A b \in DOMAIN heap : b # c => heap'[b] = heap[b]
  BY <1>0 DEF IsSplit
<1>4. /\ c \in Nat /\ n \in Nat /\ c < n /\ n < EndOf(c) /\ n \notin DOMAIN heap /\ c # n
      /\ n \in Addr /\ n % 8 = 0
      /\ heap[c].size - a - 24 \in Nat /\ (heap[c].size - a - 24) % 8 = 0
  BY <1>0 DEF IsSplit
<1>5. /\ EndOf(c)' = n
      /\ EndOf(n)' = EndOf(c)
      /\ \A b \in DOMAIN heap : b # c => EndOf(b)' = EndOf(b)
  BY <1>0 DEF IsSplit
<1>6. n # 0 /\ Null = 0
  BY <1>4 DEF Null
<1>7. /\ heap'[c].size = a /\ ~heap'[c].is_free /\ heap'[c].next = n
      /\ heap'[n].size = heap[c].size - a - 24 /\ heap'[n].is_free
      /\ heap'[n].next = heap[c].next
      /\ heap'[c] \in [size : Nat, is_free : BOOLEAN, next : Addr \cup {Null}]
      /\ heap'[n] \in [size : Nat, is_free : BOOLEAN, next : Addr \cup {Null}]
  BY <1>0 DEF IsSplit
<1>8. TypeOK'
  <2>1. \A b \in DOMAIN heap' : heap'[b] \in [size : Nat, is_free : BOOLEAN, next : Addr \cup {Null}]
    BY <1>3, <1>7 DEF HeapInv, TypeOK
  <2>2. DOMAIN heap' \subseteq Addr
    BY <1>3, <1>4 DEF HeapInv, TypeOK
  <2>3. heap' = [b \in DOMAIN heap' |-> heap'[b]]
    BY DEF KmallocTake, Split
  <2>4. QED
    BY <1>3, <2>1, <2>2, <2>3, TakeFrame DEF HeapInv, TypeOK
<1>9. Tiled'
  <2>1. HeapStart \in DOMAIN heap'
    BY <1>2, <1>3 DEF HeapInv, Tiled
  <2>2. ASSUME NEW b \in DOMAIN heap'
        PROVE  /\ b % 8 = 0
               /\ heap'[b].size % 8 = 0
               /\ EndOf(b)' <= HeapEnd
               /\ heap'[b].next = IF EndOf(b)' = HeapEnd THEN Null ELSE EndOf(b)'
    <3>1. CASE b = c
      BY <1>2, <1>4, <1>5, <1>7, <3>1, BlockFacts DEF HeapInv, Tiled
    <3>2. CASE b = n
      BY <1>2, <1>4, <1>5, <1>7, <3>2 DEF HeapInv, Tiled
    <3>3. CASE b # c /\ b # n
      BY <1>3, <1>5, <3>3 DEF HeapInv, Tiled
    <3>4. QED
      BY <3>1, <3>2, <3>3
  <2>3. ASSUME NEW b \in DOMAIN heap', heap'[b].next # Null
        PROVE  heap'[b].next \in DOMAIN heap'
    BY <1>2, <1>3, <1>7, <2>3 DEF HeapInv, Tiled
  <2>4. ASSUME NEW b \in DOMAIN heap', NEW d \in DOMAIN heap', b < d
        PROVE  EndOf(b)' <= d
    <3>1. \A x \in DOMAIN heap : x \in Nat /\ EndOf(x) \in Nat
      BY BlockFacts DEF HeapInv
    <3>2. \A x \in DOMAIN heap, y \in DOMAIN heap : x < y => EndOf(x) <= y
      BY DEF HeapInv, Tiled
    <3>3. CASE b = c
      <4>1. d \in DOMAIN heap => EndOf(c) <= d
        BY <1>2, <2>4, <3>2, <3>3
      <4>2. QED
        BY <1>2, <1>3, <1>4, <1>5, <3>1, <3>3, <4>1
    <3>4. CASE b = n
      <4>1. d \in DOMAIN heap /\ c < d
        BY <1>3, <1>4, <2>4, <3>1, <3>4
      <4>2. QED
        BY <1>2, <1>5, <3>2, <3>4, <4>1
    <3>5. CASE b # c /\ b # n /\ d = n
      <4>1. b \in DOMAIN heap /\ b < EndOf(c) /\ EndOf(b)' = EndOf(b)
        BY <1>2, <1>3, <1>4, <1>5, <2>4, <3>1, <3>5
      <4>2. b < c
        BY <1>2, <1>4, <3>1, <3>2, <3>5, <4>1
      <4>3. EndOf(b) <= c
        BY <1>2, <3>2, <4>1, <4>2
      <4>4. QED
        BY <1>4, <3>1, <3>5, <4>1, <4>3
    <3>6. CASE b # c /\ b # n /\ d # n
      BY <1>3, <1>5, <2>4, <3>2, <3>6
    <3>7. QED
      BY <3>3, <3>4, <3>5, <3>6
  <2>5. ASSUME NEW x \in Addr
        PROVE  \E b \in DOMAIN heap' : b <= x /\ x < EndOf(b)'
    <3>1. PICK b \in DOMAIN heap : b <= x /\ x < EndOf(b)
      BY <1>2 DEF HeapInv, Tiled
    <3>2. x \in Nat
      BY RegionAssumption DEF Addr, HeapEnd
    <3>3. CASE b = c /\ x < n
      BY <1>2, <1>3, <1>5, <3>1, <3>3
    <3>4. CASE b = c /\ ~(x < n)
      <4>1. n <= x /\ x < EndOf(n)' /\ n \in DOMAIN heap'
        BY <1>3, <1>4, <1>5, <3>1, <3>2, <3>4
      <4>2. QED
        BY <4>1
    <3>5. CASE b # c
      BY <1>3, <1>5, <3>1, <3>5
    <3>6. QED
      BY <3>3, <3>4, <3>5
  <2>6. QED
    BY <2>1, <2>2, <2>3, <2>4, <2>5 DEF Tiled
<1>10. LiveBlocks'
  <2>1. {b \in DOMAIN heap' : ~heap'[b].is_free}
          = {b \in DOMAIN heap : ~heap[b].is_free} \cup {c}
    BY <1>2, <1>3, <1>4, <1>7
  <2>2. heap'[c].size >= request
    BY <1>1, <1>7, TakeFrame
  <2>3. QED
    BY <1>1, <1>2, <1>3, <1>7, <2>1, <2>2, TakenIsLive
<1>11. Coalesced'
  <2>1. \A b \in DOMAIN heap : heap[b].next # Null => ~(heap[b].is_free /\ heap[heap[b].next].is_free)
    BY DEF KmallocTake, HeapInv, Coalesced
  <2>2. \A b \in DOMAIN heap : heap[b].next # Null => heap[b].next \in DOMAIN heap
    BY DEF HeapInv, Tiled
  <2>3. heap[c].next # Null => heap[c].next # c
    BY <1>2, <1>6, BlockFacts DEF HeapInv
  <2>4. ASSUME NEW b \in DOMAIN heap', heap'[b].next # Null
        PROVE  ~(heap'[b].is_free /\ heap'[heap'[b].next].is_free)
    <3>1. CASE b = c
      BY <1>7, <3>1
    <3>2. CASE b = n
      BY <1>2, <1>3, <1>7, <2>1, <2>2, <2>3, <2>4, <3>2
    <3>3. CASE b # c /\ b # n
      BY <1>3, <1>7, <2>1, <2>2, <2>4, <3>3
    <3>4. QED
      BY <3>1, <3>2, <3>3
  <2>5. QED
    BY <2>4 DEF Coalesced
<1>12. LoopInv'
  BY <1>2, <1>3, TakeFrame DEF HeapInv, LoopInv, HeadIsFirst, Passed, OnList
<1>13. QED
  BY <1>8, <1>9, <1>10, <1>11, <1>12 DEF HeapInv

-----------------------------------------------------------------------------
LEMMA StepIInv == HeapInv /\ [Next]_vars => HeapInv'
<1> SUFFICES ASSUME HeapInv, [Next]_vars
             PROVE  HeapInv'
  OBVIOUS
<1>1. CASE KmallocZero
  BY <1>1, StepZero
<1>2. ASSUME NEW n \in Requests, KmallocBegin(n) PROVE HeapInv'
  BY <1>2, StepBegin
<1>3. ASSUME NEW p \in DOMAIN live, KfreeBegin(p) PROVE HeapInv'
  BY <1>3, StepFree
<1>4. CASE KmallocSkip
  BY <1>4, StepSkip
<1>5. CASE KmallocTake
  BY <1>5, StepTakeWhole, StepTakeSplit
<1>6. CASE KmallocFail
  BY <1>6, StepFail
<1>7. CASE CoalesceMerge
  BY <1>7, StepMerge
<1>8. CASE CoalesceAdvance
  BY <1>8, StepAdvance
<1>9. CASE CoalesceDone
  BY <1>9, StepDone
<1>10. CASE UNCHANGED vars
  <2>1. UNCHANGED <<heap, free_list_head, pc, current, request, live, answer>>
    BY <1>10 DEF vars
  <2>2. Tiled' /\ LiveBlocks' /\ HeadIsFirst'
    BY <2>1, SameBlocks
  <2>3. TypeOK'
    BY <2>1 DEF HeapInv, TypeOK
  <2>4. Coalesced' /\ Passed' /\ OnList'
    BY <2>1 DEF HeapInv, Coalesced, LoopInv, Passed, OnList, Fits
  <2>5. QED
    BY <2>2, <2>3, <2>4 DEF HeapInv, LoopInv
<1>11. QED
  BY <1>1, <1>2, <1>3, <1>4, <1>5, <1>6, <1>7, <1>8, <1>9, <1>10 DEF Next, InCall

(* At every moment the blocks tile the heap, the ones in use are what      *)
(* callers hold, and the free ones are as large as they can be.            *)
THEOREM Safety == Spec => []HeapInv
BY InitIInv, StepIInv, PTL DEF Spec

(* When nothing is held, no two neighbours being free leaves one block.    *)
LEMMA AllFree ==
  ASSUME HeapInv, pc = "idle", DOMAIN live = {}
  PROVE  heap = InitHeap
<1>1. CASE DOMAIN heap = {}
  <2>1. HeapSize < HEADER /\ heap = [b \in DOMAIN heap |-> heap[b]]
    BY <1>1 DEF HeapInv, TypeOK, LoopInv, HeadIsFirst
  <2>2. QED
    BY <1>1, <2>1 DEF InitHeap
<1>2. CASE DOMAIN heap # {}
  <2> DEFINE s == HeapStart
  <2>1. s \in DOMAIN heap /\ ~(HeapSize < HEADER)
    BY <1>2 DEF HeapInv, Tiled, LoopInv, HeadIsFirst
  <2>2. \A b \in DOMAIN heap : heap[b].is_free
    BY BlockFacts DEF HeapInv, LiveBlocks
  <2>3. heap[s].next = Null
    BY <2>1, <2>2 DEF HeapInv, Coalesced, Tiled
  <2>4. EndOf(s) = HeapEnd /\ EndOf(s) = s + 24 + heap[s].size /\ heap[s].size \in Nat
    BY <2>1, <2>3, BlockFacts DEF HeapInv, Null
  <2>5. DOMAIN heap = {s}
    <3>1. ASSUME NEW b \in DOMAIN heap PROVE b = s
      <4>1. b >= s /\ b < HeapEnd /\ b \in Nat
        BY BlockFacts DEF HeapInv
      <4>2. ~(s < b)
        BY <2>1, <2>4, <4>1 DEF HeapInv, Tiled
      <4>3. QED
        BY <4>1, <4>2, RegionAssumption
    <3>2. QED
      BY <2>1, <3>1
  <2>6. heap[s].size = HeapSize - HEADER
    BY <2>4, RegionAssumption DEF HeapEnd, HEADER
  <2>7. heap[s] = [size |-> HeapSize - HEADER, is_free |-> TRUE, next |-> Null]
    <3>1. heap[s] \in [size : Nat, is_free : BOOLEAN, next : Addr \cup {Null}]
      BY <2>1 DEF HeapInv, TypeOK
    <3>2. heap[s].is_free = TRUE
      BY <2>1, <2>2, <3>1
    <3>3. QED
      BY <2>3, <2>6, <3>1, <3>2
  <2>8. heap = [b \in {s} |-> heap[s]]
    BY <2>5 DEF HeapInv, TypeOK
  <2>9. QED
    BY <2>1, <2>7, <2>8 DEF InitHeap
<1>3. QED
  BY <1>1, <1>2

(* When everything was freed, the heap is as init_heap left it.            *)
THEOREM NothingLost == Spec => []Reclaimed
<1>1. HeapInv => Reclaimed
  BY AllFree DEF Reclaimed
<1>2. QED
  BY <1>1, InitIInv, StepIInv, PTL DEF Spec

-----------------------------------------------------------------------------
(* Heap implements AbstractHeap. *)

(* An address a caller holds is the payload of a block in use, which spans *)
(* from the header in front of it to the end of what was granted.          *)
LEMMA HeldBlock ==
  ASSUME HeapInv, NEW p \in DOMAIN live
  PROVE  /\ p - HEADER \in DOMAIN heap
         /\ ~heap[p - HEADER].is_free
         /\ p \in Nat
         /\ p + Granted[p] = EndOf(p - HEADER)
         /\ Granted[p] \in Nat
<1>1. PICK d \in DOMAIN heap : p = Payload(d) /\ ~heap[d].is_free
  BY DEF HeapInv, LiveBlocks
<1>2. p - HEADER = d /\ p \in Nat
  BY <1>1, BlockFacts DEF HeapInv, Payload, HEADER
<1>3. Granted[p] = heap[d].size
  BY <1>2 DEF Granted
<1>4. QED
  BY <1>1, <1>2, <1>3, BlockFacts DEF HeapInv, EndOf

(* A search that ran off the list found every gap too small. *)
LEMMA NoRoom ==
  ASSUME HeapInv, KmallocFail,
         NEW a \in HeapStart .. HeapEnd,
         a + HEADER + align_8(request) <= HeapEnd
  PROVE  ~Abs!Gap(a, a + HEADER + align_8(request))
<1> DEFINE z == a + HEADER + align_8(request)
<1> SUFFICES ASSUME Abs!Gap(a, z) PROVE FALSE
  OBVIOUS
<1>1. /\ request \in Requests /\ align_8(request) \in Nat
      /\ \A b \in DOMAIN heap : ~Fits(b)
  <2>1. request \in Requests /\ \A b \in DOMAIN heap : ~Fits(b)
    BY DEF KmallocFail, HeapInv, TypeOK, LoopInv, Passed
  <2>2. QED
    BY <2>1, AlignUp
<1>2. HeapStart \in Nat /\ HeapEnd \in Nat /\ HeapEnd = HeapStart + HeapSize
      /\ a \in Nat /\ z \in Nat /\ a + 24 <= z /\ z <= HeapEnd
  BY <1>1, RegionAssumption DEF HeapEnd, HEADER
<1>3. a \in Addr /\ DOMAIN heap # {}
  BY <1>2, RegionAssumption DEF Addr, HeapInv, LoopInv, HeadIsFirst, HEADER
<1>4. PICK b \in DOMAIN heap : b <= a /\ a < EndOf(b)
  BY <1>3 DEF HeapInv, Tiled
<1>5. \A c \in DOMAIN heap : ~heap[c].is_free => z <= c \/ EndOf(c) <= a
  <2> SUFFICES ASSUME NEW c \in DOMAIN heap, ~heap[c].is_free
               PROVE  z <= c \/ EndOf(c) <= a
    OBVIOUS
  <2>1. Payload(c) \in DOMAIN live
    BY DEF HeapInv, LiveBlocks
  <2>2. Payload(c) - HEADER = c
    BY BlockFacts DEF HeapInv, Payload, HEADER
  <2>3. z <= Payload(c) - HEADER \/ Payload(c) + Granted[Payload(c)] <= a
    BY <2>1 DEF Abs!Gap, Granted
  <2>4. QED
    BY <2>1, <2>2, <2>3, HeldBlock
<1>6. b \in Nat /\ EndOf(b) \in Nat /\ EndOf(b) = b + 24 + heap[b].size /\ heap[b].size \in Nat
      /\ EndOf(b) <= HeapEnd
      /\ heap[b].next = IF EndOf(b) = HeapEnd THEN 0 ELSE EndOf(b)
  BY BlockFacts DEF HeapInv
<1>7. heap[b].is_free
  BY <1>2, <1>4, <1>5, <1>6
<1>8. EndOf(b) < z
  BY <1>1, <1>2, <1>4, <1>6, <1>7 DEF Fits, HEADER
<1>9. heap[b].next \in DOMAIN heap /\ heap[b].next = EndOf(b) /\ heap[b].next # Null
  BY <1>2, <1>4, <1>6, <1>8, BlockFacts DEF HeapInv, Null
<1>10. ~heap[heap[b].next].is_free
  BY <1>7, <1>9 DEF KmallocFail, HeapInv, Coalesced
<1>11. EndOf(heap[b].next) > a
  BY <1>2, <1>4, <1>6, <1>9, BlockFacts DEF HeapInv
<1>12. QED
  BY <1>2, <1>5, <1>6, <1>8, <1>9, <1>10, <1>11, BlockFacts DEF HeapInv

(* A take grants the request, at the payload of the block that is taken. *)
LEMMA TakeGrants ==
  ASSUME HeapInv, KmallocTake
  PROVE  Abs!Grant(request, Payload(current))
<1>1. PICK c, p, g : c = current /\ p = Payload(current) /\ g = heap'[current].size
  OBVIOUS
<1>2. /\ c \in DOMAIN heap /\ c \in Nat /\ p = c + 24 /\ p - HEADER = c /\ p \in Nat
      /\ heap[c].is_free /\ heap[c].size \in Nat
      /\ EndOf(c) = c + 24 + heap[c].size /\ EndOf(c) <= HeapEnd /\ EndOf(c) \in Nat
      /\ HeapStart <= c /\ HeapStart \in Nat /\ HeapEnd \in Nat
  BY <1>1, TakeFrame, BlockFacts, RegionAssumption DEF HeapInv, Payload, HEADER
<1>3. request \in Nat /\ request # 0
  BY TakeFrame, RequestsAssumption
<1>4. /\ g \in Nat /\ g >= request /\ g <= heap[c].size
      /\ \A b \in DOMAIN heap : b # c => heap'[b].size = heap[b].size
  <2>1. CASE Splittable(current)
    <3>1. PICK n, a : n = NewBlock(current) /\ a = align_8(request)
      OBVIOUS
    <3>2. IsSplit(c, n, a)
      BY <1>1, <2>1, <3>1, SplitFacts
    <3>3. g = a /\ a \in Nat /\ a >= request /\ a <= heap[c].size
      BY <1>1, <3>1, <3>2, TakeFrame DEF IsSplit
    <3>4. QED
      BY <3>2, <3>3 DEF IsSplit
  <2>2. CASE ~Splittable(current)
    <3>1. heap' = [heap EXCEPT ![c].is_free = FALSE]
      BY <1>1, <2>2 DEF KmallocTake
    <3>2. heap[c] \in [size : Nat, is_free : BOOLEAN, next : Addr \cup {Null}]
      BY <1>2 DEF HeapInv, TypeOK
    <3>3. \A b \in DOMAIN heap : heap'[b].size = heap[b].size
      BY <3>1, <3>2
    <3>4. heap[c].size >= request
      BY <1>1, <1>2, <1>3, TakeFrame
    <3>5. QED
      BY <1>1, <1>2, <3>3, <3>4
  <2>3. QED
    BY <2>1, <2>2
<1>5. DOMAIN live' = DOMAIN live \cup {p} /\ p \notin DOMAIN live
  BY <1>1, TakeFrame
<1>6. live' = Abs!With(live, p, request)
  BY <1>1 DEF KmallocTake, Abs!With
<1>7. Granted' = Abs!With(Granted, p, g)
  <2>1. ASSUME NEW q \in DOMAIN live'
        PROVE  heap'[q - HEADER].size = IF q = p THEN g ELSE Granted[q]
    <3>1. CASE q = p
      BY <1>1, <1>2, <3>1
    <3>2. CASE q # p
      <4>1. q \in DOMAIN live /\ q - HEADER \in DOMAIN heap /\ q - HEADER # c
        BY <1>2, <1>5, <3>2, HeldBlock
      <4>2. QED
        BY <1>4, <3>2, <4>1 DEF Granted
    <3>3. QED
      BY <3>1, <3>2
  <2>2. DOMAIN Granted = DOMAIN live
    BY DEF Granted
  <2>3. QED
    BY <1>5, <2>1, <2>2 DEF Granted, Abs!With
<1>8. Abs!Gap(p - HEADER, p + g)
  <2> SUFFICES ASSUME NEW q \in DOMAIN live
               PROVE  p + g <= q - HEADER \/ q + Granted[q] <= p - HEADER
    BY DEF Abs!Gap, Granted
  <2>1. PICK d \in DOMAIN heap : d = q - HEADER /\ ~heap[d].is_free /\ q + Granted[q] = EndOf(d)
    BY HeldBlock
  <2>2. d # c /\ d \in Nat
    BY <1>2, <2>1, BlockFacts DEF HeapInv
  <2>3. d < c => EndOf(d) <= c
    BY <1>2 DEF HeapInv, Tiled
  <2>4. c < d => EndOf(c) <= d
    BY <1>2 DEF HeapInv, Tiled
  <2>5. p + g <= EndOf(c)
    BY <1>2, <1>4
  <2>6. QED
    BY <1>2, <1>4, <2>1, <2>2, <2>3, <2>4, <2>5
<1>9. p % 8 = 0
  BY <1>2 DEF HeapInv, Tiled
<1>10. answer' = [size |-> request, ptr |-> p]
  BY <1>1 DEF KmallocTake
<1>11. g \in request .. HeapEnd - HeapStart /\ g > 0 /\ HeapStart <= p - HEADER /\ p + g <= HeapEnd
  BY <1>2, <1>3, <1>4
<1>12. QED
  BY <1>1, <1>6, <1>7, <1>8, <1>9, <1>10, <1>11 DEF Abs!Grant

(* A merge changes no block in use. *)
LEMMA MergeKeepsGranted ==
  ASSUME HeapInv, CoalesceMerge
  PROVE  Granted' = Granted
<1>1. live' = live
  BY DEF CoalesceMerge
<1>2. ASSUME NEW p \in DOMAIN live
      PROVE  heap'[p - HEADER].size = heap[p - HEADER].size
  <2>1. p - HEADER \in DOMAIN heap /\ ~heap[p - HEADER].is_free
    BY HeldBlock
  <2>2. heap[current].is_free /\ heap[heap[current].next].is_free
    BY DEF CoalesceMerge, Mergeable
  <2>3. QED
    BY <2>1, <2>2 DEF CoalesceMerge
<1>3. QED
  BY <1>1, <1>2 DEF Granted

(* Marking a block free withdraws what was granted there, and nothing else. *)
LEMMA FreeReleases ==
  ASSUME HeapInv, NEW p \in DOMAIN live, KfreeBegin(p)
  PROVE  Abs!Release(p)
<1>1. live' = Abs!Without(live, p)
  BY DEF KfreeBegin, Abs!Without
<1>2. ASSUME NEW q \in DOMAIN live
      PROVE  heap'[q - HEADER].size = heap[q - HEADER].size
  <2>1. q - HEADER \in DOMAIN heap
    BY HeldBlock
  <2>2. heap[p - HEADER] \in [size : Nat, is_free : BOOLEAN, next : Addr \cup {Null}]
    BY HeldBlock DEF HeapInv, TypeOK
  <2>3. QED
    BY <2>1, <2>2 DEF KfreeBegin
<1>3. DOMAIN live' = DOMAIN live \ {p} /\ DOMAIN Granted = DOMAIN live
  BY <1>1 DEF Granted, Abs!Without
<1>4. Granted' = Abs!Without(Granted, p)
  BY <1>2, <1>3 DEF Granted, Abs!Without
<1>5. QED
  BY <1>1, <1>4 DEF KfreeBegin, Abs!Release

(* kmalloc and kfree keep AbstractHeap's promises: disjoint, aligned,      *)
(* large enough, and refused only when no gap would do.                    *)
THEOREM Refinement == Spec => HeapSpec
<1>1. Init => Abs!HeapInit
  BY DEF Init, Granted, Abs!HeapInit
<1>2. HeapInv /\ [Next]_vars => [Abs!HeapNext]_(Abs!heapVars)
  <2> SUFFICES ASSUME HeapInv, [Next]_vars
               PROVE  [Abs!HeapNext]_(Abs!heapVars)
    OBVIOUS
  <2>1. ASSUME UNCHANGED <<heap, live, answer>> PROVE UNCHANGED Abs!heapVars
    BY <2>1 DEF Abs!heapVars, Granted
  <2>2. CASE KmallocZero
    BY <2>1, <2>2 DEF KmallocZero, Granted, Abs!HeapNext, Abs!Deny
  <2>3. ASSUME NEW n \in Requests, KmallocBegin(n) PROVE UNCHANGED Abs!heapVars
    BY <2>1, <2>3 DEF KmallocBegin
  <2>4. ASSUME NEW p \in DOMAIN live, KfreeBegin(p) PROVE Abs!HeapNext
    BY <2>4, FreeReleases DEF Abs!HeapNext, Granted
  <2>5. CASE KmallocSkip
    BY <2>1, <2>5 DEF KmallocSkip
  <2>6. CASE KmallocTake
    <3>1. Payload(current) \in HeapStart .. HeapEnd /\ request \in Requests
      BY <2>6, TakeFrame, BlockFacts, RegionAssumption DEF HeapInv, Payload, HEADER
    <3>2. QED
      BY <2>6, <3>1, TakeGrants DEF Abs!HeapNext
  <2>7. CASE KmallocFail
    <3>1. request \in Requests
      BY <2>7 DEF KmallocFail, HeapInv, TypeOK, LoopInv, Passed
    <3>2. align_8(request) = Abs!RoundUp(request)
      BY <3>1, AlignUp DEF Abs!RoundUp
    <3>3. \A a \in HeapStart .. HeapEnd :
             a + HEADER + Abs!RoundUp(request) <= HeapEnd
               => ~Abs!Gap(a, a + HEADER + Abs!RoundUp(request))
      BY <2>7, <3>2, NoRoom
    <3>4. Granted' = Granted
      BY <2>7 DEF KmallocFail, Granted
    <3>5. Abs!Deny(request)
      BY <2>7, <3>3, <3>4 DEF KmallocFail, Abs!Deny
    <3>6. QED
      BY <3>1, <3>5 DEF Abs!HeapNext
  <2>8. CASE CoalesceMerge
    BY <2>8, MergeKeepsGranted DEF CoalesceMerge, Abs!heapVars
  <2>9. CASE CoalesceAdvance
    BY <2>1, <2>9 DEF CoalesceAdvance
  <2>10. CASE CoalesceDone
    BY <2>1, <2>10 DEF CoalesceDone
  <2>11. CASE UNCHANGED vars
    BY <2>1, <2>11 DEF vars
  <2>12. QED
    BY <2>2, <2>3, <2>4, <2>5, <2>6, <2>7, <2>8, <2>9, <2>10, <2>11 DEF Next, InCall
<1>3. QED
  BY <1>1, <1>2, InitIInv, StepIInv, PTL DEF Spec, HeapSpec, Abs!HeapSpec


-----------------------------------------------------------------------------
(* The boot. *)

(* A map's entries have lengths and bases. *)
LEMMA MapEntries == ASSUME memmap \in Maps, NEW k \in 1 .. Len(memmap)
                    PROVE  memmap[k] \in Entry
BY MapsAssumption

LEMMA BootStart == BootInit => BootInv
<1> SUFFICES ASSUME BootInit PROVE BootInv
    OBVIOUS
<1> USE DEF BootInit
<1>1. memmap \in Seq(Entry) /\ Len(memmap) \in Nat
    BY MapsAssumption
<1>2. BootTypeOK
    BY <1>1 DEF BootTypeOK, NoRegion
<1>3. KeepsLongest
    BY DEF KeepsLongest
<1>4. BootProgress
    BY DEF BootProgress
<1>5. GivesLongestUsable /\ StopsOnlyWithout
    BY DEF GivesLongestUsable, StopsOnlyWithout
<1> QED BY <1>2, <1>3, <1>4, <1>5 DEF BootInv

(* One entry more: what is kept is still the longest passed. *)
LEMMA ScanKeeps == ASSUME BootInv, ScanEntry PROVE BootInv'
<1> USE DEF BootInv, BootTypeOK
<1>1. /\ memmap \in Seq(Entry) /\ Len(memmap) \in Nat
      /\ i \in Nat /\ i + 1 \in 1 .. Len(memmap)
      /\ memmap' = memmap /\ answered' = answered
      /\ boot = "scan" /\ boot' = "scan" /\ i' = i + 1 /\ region' = region
    BY MapsAssumption DEF ScanEntry, loaderVars
<1> DEFINE e == memmap[i + 1]
<1>2. e.length \in Nat /\ e.base \in Nat
    BY <1>1, MapEntries DEF Entry
<1>3. BootTypeOK'
  <2>1. CASE Larger(e)
    BY <1>1, <1>2, <2>1 DEF ScanEntry
  <2>2. CASE ~Larger(e)
    BY <1>1, <1>2, <2>2 DEF ScanEntry
  <2> QED BY <2>1, <2>2
<1>4. KeepsLongest'
  <2>1. \A k \in 1 .. i : memmap[k].length \in Nat
    BY <1>1, MapEntries DEF Entry
  <2>2. CASE Larger(e)
    <3>1. largest_size' = e.length /\ highest_base' = e.base
        BY <2>2 DEF ScanEntry
    <3>2. e.type = "USABLE" /\ e.length > largest_size
        BY <2>2 DEF Larger
    <3>3. \A k \in 1 .. i + 1 : Usable(k) => memmap[k].length <= e.length
        BY <1>1, <1>2, <2>1, <3>2 DEF KeepsLongest
    <3>4. Usable(i + 1) /\ i + 1 \in 1 .. i + 1
        BY <1>1, <3>2 DEF Usable
    <3> QED BY <1>1, <3>1, <3>3, <3>4 DEF KeepsLongest, Usable
  <2>3. CASE ~Larger(e)
    <3>1. largest_size' = largest_size /\ highest_base' = highest_base
        BY <2>3 DEF ScanEntry
    <3>2. Usable(i + 1) => e.length <= largest_size
        BY <1>2, <2>3 DEF Larger, Usable
    <3>3. \A k \in 1 .. i + 1 : Usable(k) => memmap[k].length <= largest_size
        BY <1>1, <3>2 DEF KeepsLongest
    <3>4. \A k \in 1 .. i : k \in 1 .. i + 1
        BY <1>1
    <3> QED BY <1>1, <3>1, <3>3, <3>4 DEF KeepsLongest, Usable
  <2> QED BY <2>2, <2>3
<1>5. BootProgress' /\ GivesLongestUsable' /\ StopsOnlyWithout'
    BY <1>1 DEF BootProgress, GivesLongestUsable, StopsOnlyWithout
<1> QED BY <1>3, <1>4, <1>5

LEMMA BootStep1 == BootInv /\ [BootNext]_bootVars => BootInv'
<1> SUFFICES ASSUME BootInv, [BootNext]_bootVars PROVE BootInv'
    OBVIOUS
<1> USE DEF BootInv, BootTypeOK
<1>0. memmap \in Seq(Entry) /\ Len(memmap) \in Nat
    BY MapsAssumption
<1>1. CASE NeedMap
    BY <1>0, <1>1 DEF NeedMap, loaderVars, KeepsLongest, BootProgress, GivesLongestUsable,
       StopsOnlyWithout, Usable
<1>2. CASE ScanEntry
    BY <1>2, ScanKeeps
<1>3. CASE ScanDone
    BY <1>0, <1>3 DEF ScanDone, loaderVars, KeepsLongest, BootProgress, GivesLongestUsable,
       StopsOnlyWithout, Usable
<1>4. CASE HandOver
  <2>1. /\ memmap' = memmap /\ answered' = answered /\ i' = i /\ boot' = "heap" /\ i = Len(memmap)
        /\ largest_size' = largest_size /\ highest_base' = highest_base /\ largest_size > 0
        /\ region' = [start |-> highest_base + hhdm_offset, size |-> largest_size]
    BY <1>4 DEF HandOver, loaderVars, BootProgress
  <2>2. BootTypeOK' /\ KeepsLongest' /\ BootProgress' /\ StopsOnlyWithout'
    BY <1>0, <2>1, OffsetAssumption DEF KeepsLongest, BootProgress, StopsOnlyWithout, Usable
  <2>3. GivesLongestUsable'
    <3>1. PICK k \in 1 .. i : /\ Usable(k)
                              /\ memmap[k].length = largest_size
                              /\ memmap[k].base = highest_base
        BY <2>1 DEF KeepsLongest
    <3>2. \A l \in 1 .. Len(memmap) : Usable(l) => memmap[l].length <= memmap[k].length
        BY <2>1, <3>1 DEF KeepsLongest
    <3> QED BY <2>1, <3>1, <3>2 DEF GivesLongestUsable, Usable
  <2> QED BY <2>2, <2>3
<1>5. CASE NoMemory
  <2>1. /\ memmap' = memmap /\ answered' = answered /\ i' = i /\ boot' = "stopped" /\ i = Len(memmap)
        /\ largest_size' = largest_size /\ highest_base' = highest_base /\ largest_size = 0
        /\ region' = region
    BY <1>5 DEF NoMemory, loaderVars, BootProgress
  <2>2. BootTypeOK' /\ KeepsLongest' /\ BootProgress' /\ GivesLongestUsable'
    BY <1>0, <2>1 DEF KeepsLongest, BootProgress, GivesLongestUsable, Usable
  <2>3. StopsOnlyWithout'
    <3>1. \A k \in 1 .. Len(memmap) : memmap[k].length \in Nat
        BY <1>0, MapEntries DEF Entry
    <3> QED BY <1>0, <2>1, <3>1 DEF StopsOnlyWithout, KeepsLongest, Usable
  <2> QED BY <2>2, <2>3
<1>6. CASE UNCHANGED bootVars
    BY <1>6 DEF bootVars, loaderVars, KeepsLongest, BootProgress, GivesLongestUsable,
       StopsOnlyWithout, Usable
<1> QED BY <1>1, <1>2, <1>3, <1>4, <1>5, <1>6 DEF BootNext

-----------------------------------------------------------------------------
(* The boot and the heap together. *)

(* A step of the whole is a step of the boot and one of the heap, each     *)
(* perhaps a stutter.                                                      *)
LEMMA StepsOfBoth == [MemoryNext]_memoryVars => [BootNext]_bootVars /\ [Next]_vars
<1> SUFFICES ASSUME [MemoryNext]_memoryVars PROVE [BootNext]_bootVars /\ [Next]_vars
    OBVIOUS
<1>1. CASE BootStep
    BY <1>1 DEF BootStep, Stopped
<1>2. CASE HeapStep
    BY <1>2 DEF HeapStep
<1>3. CASE UNCHANGED memoryVars
    BY <1>3 DEF memoryVars
<1>4. CASE HeapElsewhere
    BY <1>4 DEF HeapElsewhere, memoryVars
<1> QED BY <1>1, <1>2, <1>3, <1>4 DEF MemoryNext

(* The boot, followed by the heap, gives init_heap the longest usable      *)
(* entry of any memory map (GivesLongestUsable), and stops only without    *)
(* usable memory (StopsOnlyWithout).                                       *)
THEOREM Boot == MemorySpec => []BootInv
<1>1. MemoryInit => BootInv
    BY BootStart DEF MemoryInit
<1>2. BootInv /\ [MemoryNext]_memoryVars => BootInv'
    BY StepsOfBoth, BootStep1
<1> QED BY <1>1, <1>2, PTL DEF MemorySpec

(* The heap behind the boot is the heap of the first part.              *)
LEMMA HeapAfterBoot == MemorySpec => []HeapInv
<1>1. MemoryInit => Init
    BY DEF MemoryInit
<1>2. [MemoryNext]_memoryVars => [Next]_vars
    BY StepsOfBoth
<1>3. MemorySpec => Spec
    BY <1>1, <1>2, PTL DEF MemorySpec, Spec
<1> QED BY <1>3, Safety, PTL

(* Whatever memory map the loader gives, and whatever is allocated and     *)
(* freed after the boot, each block of the heap lies in memory that the    *)
(* map calls usable (memory.cpp 27-38, 75-146).                            *)
THEOREM InUsableMemory == MemorySpec => []BlocksInUsableMemory
<1>1. BootInv /\ HeapInv => BlocksInUsableMemory
  <2> SUFFICES ASSUME BootInv, HeapInv, boot = "heap", Ours, NEW b \in DOMAIN heap
               PROVE  \E k \in 1 .. Len(memmap) :
                         /\ Usable(k)
                         /\ memmap[k].base + hhdm_offset <= b
                         /\ EndOf(b) <= memmap[k].base + hhdm_offset + memmap[k].length
    BY DEF BlocksInUsableMemory
  <2>1. PICK k \in 1 .. Len(memmap) :
           /\ Usable(k)
           /\ region = [start |-> memmap[k].base + hhdm_offset, size |-> memmap[k].length]
    BY DEF BootInv, GivesLongestUsable
  <2>2. HeapStart = memmap[k].base + hhdm_offset /\ HeapSize = memmap[k].length
    BY <2>1 DEF Ours
  <2>3. b \in Nat /\ HeapStart <= b /\ EndOf(b) <= HeapEnd
    BY RegionAssumption DEF HeapInv, TypeOK, Tiled, Addr, HeapEnd
  <2> QED BY <2>1, <2>2, <2>3 DEF HeapEnd
<1> QED BY <1>1, Boot, HeapAfterBoot, PTL
=============================================================================
