--------------------------- MODULE AbstractRamFs ---------------------------
(***************************************************************************)
(* What the RAM file system promises: a file is a sequence of bytes, which *)
(* a write overlays and, beyond its end, extends, with zeros in between;   *)
(* a directory lists its nodes in the order they were added.               *)
(***************************************************************************)
EXTENDS Integers, Sequences

CONSTANTS Bytes, Zero, Children,
          Chunks,      \* what is written
          Offsets      \* and where

VARIABLES contents, entries

Init == contents = <<>> /\ entries = <<>>

Longer(m, n) == IF m > n THEN m ELSE n

(* A write of nothing beyond the end extends the file as well. *)
Write(offset, chunk) ==
    /\ contents' = [i \in 1 .. Longer(Len(contents), offset + Len(chunk)) |->
                      IF i - offset \in DOMAIN chunk THEN chunk[i - offset]
                      ELSE IF i \in DOMAIN contents THEN contents[i]
                      ELSE Zero]
    /\ UNCHANGED entries

Add(child) == entries' = Append(entries, child) /\ UNCHANGED contents

Next == \/ \E offset \in Offsets, chunk \in Chunks : Write(offset, chunk)
        \/ \E child \in Children : Add(child)

Spec == Init /\ [][Next]_<<contents, entries>>
=============================================================================
