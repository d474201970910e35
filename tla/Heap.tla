-------------------------------- MODULE Heap --------------------------------
(***************************************************************************)
(* The kernel heap (src/kernel/memory.cpp): an address-ordered list of     *)
(* blocks, each with a header in front of its bytes; kmalloc takes the     *)
(* first block that fits and splits it, kfree marks a block free and then  *)
(* merges every pair of free neighbours.  One action per loop iteration.   *)
(* A header is a value of `heap' at its address while the list reaches it: *)
(* the bytes of a header that was merged away are ordinary bytes again.    *)
(* Callers free only what kmalloc gave them, and once (`live').            *)
(***************************************************************************)
EXTENDS Naturals

CONSTANTS HeapStart,  \* heap_start of init_heap: page aligned, not null
          HeapSize,   \* heap_size of init_heap: a number of pages
          Requests,   \* the sizes callers ask for
          Word        \* 2^64: size_t is computed modulo Word

HEADER == 24          \* sizeof(MemoryBlock)
MIN_PAYLOAD == 8      \* the least a split leaves behind the new header
Null == 0

HeapEnd == HeapStart + HeapSize

ASSUME RegionAssumption == /\ HeapStart \in Nat \ {0}
                           /\ HeapStart % 8 = 0
                           /\ HeapSize \in Nat
                           /\ HeapSize % 8 = 0

(* No caller asks for a size within 7 bytes of the end of size_t, where    *)
(* align_8 wraps to zero; the check below (`size + 7') has no such guard.  *)
ASSUME RequestsAssumption == /\ Word \in Nat
                             /\ Requests \subseteq Nat
                             /\ \A n \in Requests : n + 7 < Word

VARIABLES heap,            \* the headers the list reaches, by address
          free_list_head,
          pc,              \* "idle", "search" (in kmalloc), "coalesce" (in kfree)
          current,         \* the loop variable of both
          request,         \* kmalloc's argument
          live,            \* what callers hold: requested size, by address
          answer           \* the last kmalloc: its argument and what it returned

vars == <<heap, free_list_head, pc, current, request, live, answer>>

align_8(n) == (((n + 7) % Word) \div 8) * 8

InitHeapNoHeader == [b \in {HeapStart} |-> [size |-> HeapSize, is_free |-> TRUE, next |-> Null]]
InitHeap ==
    IF HeapSize < HEADER THEN [b \in {} |-> 0]
    ELSE [b \in {HeapStart} |-> [size |-> HeapSize - HEADER, is_free |-> TRUE, next |-> Null]]

Init == /\ heap = InitHeap
        /\ free_list_head = IF HeapSize < HEADER THEN Null ELSE HeapStart
        /\ pc = "idle"
        /\ current = Null
        /\ request = 0
        /\ live = [p \in {} |-> 0]
        /\ answer = [size |-> 0, ptr |-> Null]

Payload(b) == b + HEADER

FitsAnyBlock(b) == heap[b].size >= align_8(request)
Fits(b) == heap[b].is_free /\ heap[b].size >= align_8(request)

Splittable(b) == heap[b].size >= align_8(request) + HEADER + MIN_PAYLOAD

(* The header list after block b was split and taken. *)
NewBlock(b) == b + HEADER + align_8(request)

SplitKeepsNext(b) ==
    [x \in DOMAIN heap \cup {NewBlock(b)} |->
        CASE x = b -> [size |-> align_8(request), is_free |-> FALSE, next |-> heap[b].next]
          [] x = NewBlock(b) -> [size |-> heap[b].size - align_8(request) - HEADER,
                                 is_free |-> TRUE, next |-> heap[b].next]
          [] OTHER -> heap[x]]
Split(b) ==
    [x \in DOMAIN heap \cup {NewBlock(b)} |->
        CASE x = b -> [size |-> align_8(request), is_free |-> FALSE, next |-> NewBlock(b)]
          [] x = NewBlock(b) -> [size |-> heap[b].size - align_8(request) - HEADER,
                                 is_free |-> TRUE, next |-> heap[b].next]
          [] OTHER -> heap[x]]

(* The locals of a call go with it. *)
Return == pc' = "idle" /\ current' = Null /\ request' = 0

(* kmalloc(0), `return nullptr' at once *)
KmallocZero == /\ pc = "idle"
               /\ 0 \in Requests
               /\ answer' = [size |-> 0, ptr |-> Null]
               /\ UNCHANGED <<heap, free_list_head, pc, current, request, live>>

KmallocBegin(n) == /\ pc = "idle"
                   /\ n # 0
                   /\ request' = n
                   /\ current' = free_list_head
                   /\ pc' = "search"
                   /\ UNCHANGED <<heap, free_list_head, live, answer>>

KmallocSkip == /\ pc = "search"
               /\ current # Null
               /\ ~Fits(current)
               /\ current' = heap[current].next
               /\ UNCHANGED <<heap, free_list_head, pc, request, live, answer>>

KmallocTake == /\ pc = "search"
               /\ current # Null
               /\ Fits(current)
               /\ heap' = IF Splittable(current) THEN Split(current)
                          ELSE [heap EXCEPT ![current].is_free = FALSE]
               /\ answer' = [size |-> request, ptr |-> Payload(current)]
               /\ live' = [p \in DOMAIN live \cup {Payload(current)} |->
                              IF p = Payload(current) THEN request ELSE live[p]]
               /\ Return
               /\ UNCHANGED free_list_head

KmallocFail == /\ pc = "search"
               /\ current = Null
               /\ answer' = [size |-> request, ptr |-> Null]
               /\ Return
               /\ UNCHANGED <<heap, free_list_head, live>>

(* kfree(nullptr) returns at once and changes nothing: no action. *)
KfreeBegin(p) == /\ pc = "idle"
                 /\ p \in DOMAIN live
                 /\ heap' = [heap EXCEPT ![p - HEADER].is_free = TRUE]
                 /\ live' = [q \in DOMAIN live \ {p} |-> live[q]]
                 /\ current' = free_list_head
                 /\ pc' = "coalesce"
                 /\ UNCHANGED <<free_list_head, request, answer>>

InCoalesce == pc = "coalesce" /\ current # Null /\ heap[current].next # Null

Mergeable == heap[current].is_free /\ heap[heap[current].next].is_free

(* current's header once it swallowed its successor *)
MergedNoHeader == [heap[current] EXCEPT !.size = @ + heap[heap[current].next].size,
                                        !.next = heap[heap[current].next].next]
Merged == [heap[current] EXCEPT !.size = @ + HEADER + heap[heap[current].next].size,
                                !.next = heap[heap[current].next].next]

CoalesceMerge == /\ InCoalesce
                 /\ Mergeable
                 /\ heap' = [x \in DOMAIN heap \ {heap[current].next} |->
                                IF x = current THEN Merged ELSE heap[x]]
                 /\ UNCHANGED <<free_list_head, pc, current, request, live, answer>>

CoalesceStays == /\ InCoalesce
                 /\ ~Mergeable
                 /\ UNCHANGED vars
CoalesceAdvance == /\ InCoalesce
                   /\ ~Mergeable
                   /\ current' = heap[current].next
                   /\ UNCHANGED <<heap, free_list_head, pc, request, live, answer>>

CoalesceDone == /\ pc = "coalesce"
                /\ current # Null => heap[current].next = Null
                /\ Return
                /\ UNCHANGED <<heap, free_list_head, live, answer>>

InCall == KmallocSkip \/ KmallocTake \/ KmallocFail
          \/ CoalesceMerge \/ CoalesceAdvance \/ CoalesceDone

Next == \/ KmallocZero
        \/ \E n \in Requests : KmallocBegin(n)
        \/ \E p \in DOMAIN live : KfreeBegin(p)
        \/ InCall

Spec == Init /\ [][Next]_vars

(* A call, once entered, runs: nothing in the kernel preempts it for good. *)
FairSpec == Spec /\ WF_vars(InCall)

-----------------------------------------------------------------------------
(* The inductive invariant, in named parts. *)

Addr == HeapStart .. HeapEnd - 1

EndOf(b) == Payload(b) + heap[b].size

TypeOK == /\ DOMAIN heap \subseteq Addr
          /\ \A b \in DOMAIN heap :
                heap[b] \in [size : Nat, is_free : BOOLEAN, next : Addr \cup {Null}]
          /\ heap = [b \in DOMAIN heap |-> heap[b]]
          /\ free_list_head \in {Null, HeapStart}
          /\ pc \in {"idle", "search", "coalesce"}
          /\ current \in DOMAIN heap \cup {Null}
          /\ request \in Requests \cup {0}
          /\ live = [p \in DOMAIN live |-> live[p]]
          /\ \A p \in DOMAIN live : live[p] \in Requests
          /\ answer \in [size : Requests \cup {0}, ptr : Nat]

(* The list is the heap: it starts at the first byte, each block ends      *)
(* where the next begins, the last one ends where the heap ends, and no    *)
(* byte is outside them.  A header that a merge or a split misplaces by a  *)
(* single byte breaks this.                                                *)
Tiled == /\ DOMAIN heap # {} => HeapStart \in DOMAIN heap
         /\ \A b \in DOMAIN heap :
               /\ b % 8 = 0
               /\ heap[b].size % 8 = 0
               /\ EndOf(b) <= HeapEnd
               /\ heap[b].next = IF EndOf(b) = HeapEnd THEN Null ELSE EndOf(b)
               /\ heap[b].next # Null => heap[b].next \in DOMAIN heap
               /\ \A c \in DOMAIN heap : b < c => EndOf(b) <= c
         /\ DOMAIN heap # {} => \A a \in Addr : \E b \in DOMAIN heap : b <= a /\ a < EndOf(b)

(* The list head is the first block, and stays there: the first block is   *)
(* never merged away.  A region too small for a header has no list.        *)
HeadIsFirst == /\ DOMAIN heap = {} <=> HeapSize < HEADER
               /\ IF DOMAIN heap = {} THEN free_list_head = Null
                                      ELSE free_list_head = HeapStart

(* The blocks in use are exactly the ones callers hold, and each is at     *)
(* least as large as what was asked for.                                   *)
LiveBlocks == /\ DOMAIN live = {Payload(b) : b \in {c \in DOMAIN heap : ~heap[c].is_free}}
              /\ \A p \in DOMAIN live : live[p] <= heap[p - HEADER].size

(* No two neighbours are both free, except from kfree's loop variable on   *)
(* while it merges.                                                        *)
Coalesced == \A b \in DOMAIN heap :
                heap[b].next # Null /\ (pc = "coalesce" => b < current)
                   => ~(heap[b].is_free /\ heap[heap[b].next].is_free)

(* First fit: every block that was passed does not fit.  A search that     *)
(* ran off the list has passed them all.                                   *)
Passed == pc = "search" =>
            /\ request # 0
            /\ \A b \in DOMAIN heap : (current # Null => b < current) => ~Fits(b)

(* kfree's loop variable stays on the list.                                *)
OnList == pc = "coalesce" /\ DOMAIN heap # {} => current # Null

(* What the loops know: where they start, and that they stay on the list. *)
LoopInv == HeadIsFirst /\ Passed /\ OnList

(* The list is the heap, its blocks in use are the ones held, its free     *)
(* neighbours are merged, and the loops walk it: together inductive.       *)
HeapInv == TypeOK /\ Tiled /\ LiveBlocks /\ Coalesced /\ LoopInv

(* Once everything was freed the heap is one free block again, as          *)
(* init_heap made it, whatever the order of the calls before.              *)
Reclaimed == pc = "idle" /\ DOMAIN live = {} => heap = InitHeap

(* Every kmalloc and kfree returns: neither loop runs for ever, as one     *)
(* over a list bent into a cycle would.                                    *)
CallsReturn == pc # "idle" ~> pc = "idle"

(* kmalloc and kfree keep the promises of AbstractHeap: a call takes       *)
(* effect when kmalloc returns or when kfree marks the block.              *)
Granted == [p \in DOMAIN live |-> heap[p - HEADER].size]
Abs == INSTANCE AbstractHeap WITH Header <- HEADER, Start <- HeapStart, End <- HeapEnd,
                                  wanted <- live, granted <- Granted
HeapSpec == Abs!HeapSpec
=============================================================================
