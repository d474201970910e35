------------------------------ MODULE Vectors ------------------------------
(***************************************************************************)
(* Vector (src/include/kernel/Vector.hpp) and the library's loops that     *)
(* fill and copy memory (src/libc), as operators.  A vector is a record of *)
(* its allocated cells, counted from 0, and how many of them it uses; what *)
(* new cells hold is whatever the allocator left there.                    *)
(***************************************************************************)
EXTENDS Integers

CONSTANTS Word,    \* bytes copied at a time: 8
          Unroll,  \* words copied in one turn of the first loop: 4
          Junk     \* what fresh memory holds

ASSUME WordAssumption == Word \in Nat \ {0} /\ Unroll \in Nat \ {0}

(* The bytes the loops of memcpy and memset touch, of count: blocks of     *)
(* Unroll words, the words that are left, the bytes that are left.         *)
Touched(count) ==
    LET block  == Unroll * Word
        blocks == block * (count \div block)
        chunks == (count % block) \div Word
    IN  0 .. blocks + Word * chunks + (count % Word) - 1

(* memcpy of count items of src, from an index on, to an index of dest;    *)
(* what lies outside src is some other memory.                             *)
Loaded(cells, i) == IF i \in DOMAIN cells THEN cells[i] ELSE Junk

Copied(dest, at, src, from, count) ==
    [i \in DOMAIN dest |-> IF i - at \in Touched(count) THEN Loaded(src, from + i - at) ELSE dest[i]]

Filled(dest, at, value, count) ==
    [i \in DOMAIN dest |-> IF i - at \in Touched(count) THEN value ELSE dest[i]]

(* memmove of count bytes from src to dest in one memory: the bytes that   *)
(* each of its steps moves, of a step's number.  memcpy goes up, words     *)
(* first; where dest lies inside the source the words are taken from the   *)
(* end down, and then the bytes that are left at the front.                *)
UpStep(count, k) ==
    LET words == count \div Word
    IN  IF k <= words THEN (k - 1) * Word .. k * Word - 1
                      ELSE {words * Word + k - words - 1}
DownStep(count, k) ==
    LET words == count \div Word
    IN  IF k <= words THEN count - k * Word .. count - (k - 1) * Word - 1
                      ELSE {(count % Word) - (k - words)}

Moved(memory, dest, src, count) ==
    LET steps   == (count \div Word) + (count % Word)
        step(k) == IF dest < src \/ dest >= src + count THEN UpStep(count, k)
                                                        ELSE DownStep(count, k)
        after[k \in 0 .. steps] ==
          IF k = 0 THEN memory
          ELSE [i \in DOMAIN memory |-> IF i - dest \in step(k)
                                        THEN after[k - 1][src + i - dest]
                                        ELSE after[k - 1][i]]
    IN  IF dest = src THEN memory ELSE after[steps]

(* The ordered steps leave at dest what was at src before the first of     *)
(* them, however the two overlap, and change nothing else: memmove moves   *)
(* whole words, and a word it writes may be one it has yet to read.        *)
MovesWhole ==
    LET last == 2 * Unroll * Word + 1
    IN  \A dest, src, count \in 0 .. last :
            {dest, src} \subseteq 0 .. last + 1 - count =>
                Moved([i \in 0 .. last |-> i], dest, src, count) =
                    [i \in 0 .. last |-> IF i - dest \in 0 .. count - 1 THEN src + i - dest ELSE i]

EmptyVector == [cells |-> [i \in {} |-> Junk], size |-> 0, capacity |-> 0]

Reallocated(v, new_capacity) ==
    [v EXCEPT !.cells = [i \in 0 .. new_capacity - 1 |-> IF i < v.size THEN v.cells[i] ELSE Junk],
              !.capacity = new_capacity]

Doubled(v) == IF v.capacity = 0 THEN 2 ELSE 2 * v.capacity

(* The first capacity of the doublings that is large enough. *)
Grown(v, new_size) ==
    LET capacity[k \in 0 .. new_size] ==
          IF k = 0 THEN v.capacity
          ELSE IF capacity[k - 1] = 0 THEN 2 ELSE 2 * capacity[k - 1]
        turns == CHOOSE k \in 0 .. new_size :
                   /\ capacity[k] >= new_size
                   /\ \A j \in 0 .. k - 1 : capacity[j] < new_size
    IN  IF turns = 0 THEN v ELSE Reallocated(v, capacity[turns])

Pushed(v, value) ==
    LET room == IF v.size >= v.capacity THEN Reallocated(v, Doubled(v)) ELSE v
    IN  [room EXCEPT !.cells[v.size] = value, !.size = @ + 1]

ResizedUnfilled(v, new_size, zero) ==
    IF v.size >= new_size THEN v ELSE [Grown(v, new_size) EXCEPT !.size = new_size]
Resized(v, new_size, zero) ==
    IF v.size >= new_size THEN v
    ELSE LET grown == Grown(v, new_size)
         IN  [grown EXCEPT !.cells = Filled(@, v.size, zero, new_size - v.size),
                           !.size = new_size]
=============================================================================
