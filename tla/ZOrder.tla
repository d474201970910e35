------------------------------- MODULE ZOrder -------------------------------
(***************************************************************************)
(* What the compositor's list of windows stands for: the windows from the  *)
(* bottom to the top, each at most once.  A window comes in on top, can be *)
(* raised to the top, and leaves from anywhere.                            *)
(***************************************************************************)
EXTENDS Naturals, Sequences, SequencesExt

CONSTANT Windows

VARIABLE order

Init == order = <<>>

Open(w) == /\ w \notin ToSet(order)
           /\ order' = Append(order, w)

Raise(i) == order' = Append(RemoveAt(order, i), order[i])

Leave(i) == order' = RemoveAt(order, i)

Next == \/ \E w \in Windows : Open(w)
        \/ \E i \in DOMAIN order : Raise(i) \/ Leave(i)

Spec == Init /\ [][Next]_order
=============================================================================
