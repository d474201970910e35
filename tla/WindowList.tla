----------------------------- MODULE WindowList -----------------------------
(***************************************************************************)
(* The compositor's windows (src/gui/Compositor.cpp): a doubly linked list *)
(* from the bottom of the screen to the top, whose last window has the     *)
(* focus.  A node stands for its window; what the memory of a deleted one  *)
(* holds is left out (Null), for CleanUpOnList and Linked say nobody is on *)
(* one.                                                                    *)
(***************************************************************************)
EXTENDS Integers, FiniteSets, SequencesExt

CONSTANTS Windows,
          Null

ASSUME NullAssumption == Null \notin Windows /\ IsFiniteSet(Windows)

VARIABLES head,
          tail,
          next,          \* next and prev of each node
          prev,
          opened,        \* the windows add_window was given so far
          deleted,       \* those delete_window freed
          should_close,  \* those that asked to be closed
          current        \* cleanup_closed_windows' cursor

listVars == <<head, tail, next, prev, opened, deleted>>

ListInit == /\ head = Null
            /\ tail = Null
            /\ next = [w \in Windows |-> Null]
            /\ prev = [w \in Windows |-> Null]
            /\ opened = {}
            /\ deleted = {}
            /\ should_close = {}
            /\ current = Null

(* Storing through a pointer, which the code tests for nullptr first. *)
Stored(field, at, to) == IF at = Null THEN field ELSE [field EXCEPT ![at] = to]

(* The nodes met from one end: <<>> is the list of no nodes. *)
Walk(start, field) ==
    LET steps == 0 .. Cardinality(Windows)
        onwards == [w \in Windows \cup {Null} |-> IF w = Null THEN Null ELSE field[w]]
        node[i \in steps] == IF i = 0 THEN start ELSE onwards[node[i - 1]]
        nodes == [i \in 1 .. Cardinality(Windows) + 1 |-> node[i - 1]]
    IN  SubSeq(nodes, 1, Cardinality({i \in steps : node[i] # Null}))

BottomUp == Walk(head, next)
TopDown == Walk(tail, prev)

add_window(w) ==
    /\ w \notin opened
    /\ opened' = opened \cup {w}
    /\ head' = IF head = Null THEN w ELSE head
    /\ tail' = w
    /\ next' = Stored([next EXCEPT ![w] = Null], tail, w)
    /\ prev' = [prev EXCEPT ![w] = tail]
    /\ UNCHANGED deleted

(* Detached from where it is, attached at the tail; a window that is not   *)
(* on the list, or on top of it already, stays as it is.                   *)
FocusKeepsNext(w) ==
    IF w \notin ToSet(BottomUp) \/ w = tail
    THEN UNCHANGED listVars
    ELSE /\ head' = IF w = head THEN next[w] ELSE head
         /\ tail' = w
         /\ next' = [Stored(next, prev[w], next[w]) EXCEPT ![tail] = w]
         /\ prev' = [prev EXCEPT ![next[w]] = prev[w], ![w] = tail]
         /\ UNCHANGED <<opened, deleted>>
focus_window(w) ==
    IF w \notin ToSet(BottomUp) \/ w = tail
    THEN UNCHANGED listVars
    ELSE /\ head' = IF w = head THEN next[w] ELSE head
         /\ tail' = w
         /\ next' = [Stored(next, prev[w], next[w]) EXCEPT ![w] = Null, ![tail] = w]
         /\ prev' = [prev EXCEPT ![next[w]] = prev[w], ![w] = tail]
         /\ UNCHANGED <<opened, deleted>>

DeleteKeepsTail(w) ==
    /\ head' = IF w = head THEN next[w] ELSE head
    /\ next' = [Stored(next, prev[w], next[w]) EXCEPT ![w] = Null]
    /\ prev' = [Stored(prev, next[w], prev[w]) EXCEPT ![w] = Null]
    /\ deleted' = deleted \cup {w}
    /\ UNCHANGED <<tail, opened>>
delete_window(w) ==
    /\ head' = IF w = head THEN next[w] ELSE head
    /\ tail' = IF w = tail THEN prev[w] ELSE tail
    /\ next' = [Stored(next, prev[w], next[w]) EXCEPT ![w] = Null]
    /\ prev' = [Stored(prev, next[w], prev[w]) EXCEPT ![w] = Null]
    /\ deleted' = deleted \cup {w}
    /\ UNCHANGED opened

(* One iteration of cleanup_closed_windows' loop.  next_node is read first. *)
CleanUpStopsEarly == /\ current # Null
                     /\ current' = IF current \in should_close THEN next[current] ELSE Null
                     /\ IF current \in should_close
                        THEN delete_window(current)
                        ELSE UNCHANGED listVars
                     /\ UNCHANGED should_close
CleanUpOne == /\ current # Null
              /\ current' = next[current]
              /\ IF current \in should_close
                 THEN delete_window(current)
                 ELSE UNCHANGED listVars
              /\ UNCHANGED should_close

-----------------------------------------------------------------------------
(* Types of the variables. *)
ListTypeOK == /\ {head, tail, current} \subseteq Windows \cup {Null}
              /\ next \in [Windows -> Windows \cup {Null}]
              /\ prev \in [Windows -> Windows \cup {Null}]
              /\ deleted \subseteq opened
              /\ opened \subseteq Windows
              /\ should_close \subseteq opened

(* Both directions of the list agree, and meet exactly the windows that    *)
(* were opened and not deleted: none is lost to an edit, none is reached   *)
(* after it was freed.                                                     *)
Linked == /\ TopDown = Reverse(BottomUp)
          /\ ToSet(BottomUp) = opened \ deleted
          /\ Len(BottomUp) = Cardinality(opened \ deleted)

(* The clean-up that edits the list it walks never stands on a node it     *)
(* freed.                                                                  *)
CleanUpOnList == current \in (opened \ deleted) \cup {Null}

Order == INSTANCE ZOrder WITH order <- BottomUp

(* Opening, focusing and cleaning up do to the windows' order on the       *)
(* screen what ZOrder says, and nothing else.                              *)
ZOrderSpec == Order!Spec
=============================================================================
