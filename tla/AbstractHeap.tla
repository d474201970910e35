---------------------------- MODULE AbstractHeap ----------------------------
(***************************************************************************)
(* What kmalloc and kfree promise their callers (src/kernel/memory.cpp):   *)
(* an allocation is at least as large as what was asked for, aligned, and  *)
(* overlaps no other; and it is refused only when no gap between the       *)
(* allocations could take it together with its header, so that freeing     *)
(* always gives the space back.                                            *)
(***************************************************************************)
EXTENDS Naturals

CONSTANTS Requests,    \* the sizes callers ask for
          Null,        \* nullptr
          Header,      \* the bytes a hidden header takes
          Start, End   \* the heap is Start .. End - 1

VARIABLES wanted,      \* what was asked for, by the address of the allocation
          granted,     \* the bytes it may use, by the same addresses
          answer       \* the last kmalloc: its argument and what it returned

heapVars == <<wanted, granted, answer>>

RoundUp(n) == ((n + 7) \div 8) * 8

(* The bytes from a to z - 1 belong to no allocation and to no header. *)
Gap(a, z) == \A p \in DOMAIN granted : z <= p - Header \/ p + granted[p] <= a

HeapInit == /\ wanted = [p \in {} |-> 0]
            /\ granted = [p \in {} |-> 0]
            /\ answer = [size |-> 0, ptr |-> Null]

(* f with g at p *)
With(f, p, g) == [q \in DOMAIN f \cup {p} |-> IF q = p THEN g ELSE f[q]]

(* f without p *)
Without(f, p) == [q \in DOMAIN f \ {p} |-> f[q]]

(* A request of n bytes is given an allocation at p. *)
Grant(n, p) == /\ answer' = [size |-> n, ptr |-> p]
               /\ p % 8 = 0
               /\ wanted' = With(wanted, p, n)
               /\ \E g \in n .. End - Start :
                     /\ granted' = With(granted, p, g)
                     /\ g > 0
                     /\ Start <= p - Header
                     /\ p + g <= End
                     /\ Gap(p - Header, p + g)

(* An empty request, or no gap that could take the header and n bytes. *)
Deny(n) == /\ answer' = [size |-> n, ptr |-> Null]
           /\ n # 0 => \A a \in Start .. End :
                          LET z == a + Header + RoundUp(n) IN z <= End => ~Gap(a, z)
           /\ UNCHANGED <<wanted, granted>>

Release(p) == /\ wanted' = Without(wanted, p)
              /\ granted' = Without(granted, p)
              /\ UNCHANGED answer

HeapNext == \/ \E n \in Requests, p \in Start .. End : Grant(n, p)
            \/ \E n \in Requests : Deny(n)
            \/ \E p \in DOMAIN granted : Release(p)

HeapSpec == HeapInit /\ [][HeapNext]_heapVars
=============================================================================
