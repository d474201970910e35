------------------------------- MODULE RamFs -------------------------------
(***************************************************************************)
(* A file and a directory of the RAM file system (src/kernel/ramfs.cpp):   *)
(* each keeps its data in a Vector that doubles, and a file has a length   *)
(* of its own beside the vector's.                                         *)
(*                                                                         *)
(* Offsets and sizes are small: the sums of the 32-bit ones are assumed    *)
(* not to wrap, as those of the kernel's two callers do not.               *)
(***************************************************************************)
EXTENDS Vectors, Sequences

CONSTANTS Bytes,       \* what files hold
          Zero,        \* the byte 0
          Untouched,   \* what the cells of a reader's buffer hold before
          Children,    \* nodes that are added to the directory
          MaxOffset,   \* bound on where a write starts
          MaxSize,     \* and on how much it writes
          MaxEntries   \* bound on the nodes added

ASSUME BytesAssumption == /\ Zero \in Bytes
                          /\ Junk \notin Bytes \cup Children
                          /\ Untouched \notin Bytes \cup {Junk}
ASSUME BoundsAssumption == MaxOffset \in Nat /\ MaxSize \in Nat /\ MaxEntries \in Nat

VARIABLES file_data, length, children

vars == <<file_data, length, children>>

Init == /\ file_data = EmptyVector
        /\ length = 0
        /\ children = EmptyVector

Chunks == UNION {[1 .. n -> Bytes] : n \in 0 .. MaxSize}

(* The caller's buffer, counted from 0 as memory is. *)
Buffer(chunk) == [i \in 0 .. Len(chunk) - 1 |-> chunk[i + 1]]

write(offset, chunk) ==
    LET end  == offset + Len(chunk)
        room == IF end > length THEN Resized(file_data, end, Zero) ELSE file_data
    IN  /\ file_data' = [room EXCEPT !.cells = Copied(@, offset, Buffer(chunk), 0, Len(chunk))]
        /\ length' = IF end > length THEN end ELSE length
        /\ UNCHANGED children

add_child(child) == /\ children.size < MaxEntries
                    /\ children' = Pushed(children, child)
                    /\ UNCHANGED <<file_data, length>>

Next == \/ \E offset \in 0 .. MaxOffset, chunk \in Chunks : write(offset, chunk)
        \/ \E child \in Children : add_child(child)

Spec == Init /\ [][Next]_vars

-----------------------------------------------------------------------------
(* read fills the caller's buffer, of the size asked for, and says how     *)
(* much it read.                                                           *)
ReadSizeUnclipped(offset, size) == size
ReadSize(offset, size) == IF offset >= length THEN 0
                          ELSE IF offset + size > length THEN length - offset ELSE size

ReadBuffer(offset, size) ==
    Copied([i \in 0 .. size - 1 |-> Untouched], 0, file_data.cells, offset, ReadSize(offset, size))

(* list_directory calls readdir with 0, 1, ... until it says nullptr. *)
Readdir(index) == IF index >= children.size THEN Junk ELSE children.cells[index]

Listed == LET last == CHOOSE n \in 0 .. children.capacity :
                        /\ \A i \in 0 .. n - 1 : Readdir(i) # Junk
                        /\ Readdir(n) = Junk
          IN  [i \in 1 .. last |-> Readdir(i - 1)]

Contents == [i \in 1 .. length |-> file_data.cells[i - 1]]

-----------------------------------------------------------------------------
(* Types of the variables: cells up to the capacity, no more in use than   *)
(* there are.                                                              *)
VectorOf(items, v) == /\ v.capacity \in Nat
                      /\ v.size \in 0 .. v.capacity
                      /\ v.cells \in [0 .. v.capacity - 1 -> items \cup {Junk}]

TypeOK == /\ VectorOf(Bytes, file_data)
          /\ length = file_data.size
          /\ VectorOf(Children, children)

(* A read gives what is in the file from its offset on, no less than was   *)
(* asked for unless the file ends, and nothing behind the file's end.      *)
ReadsContents ==
    \A offset \in 0 .. MaxOffset + MaxSize, size \in 0 .. MaxSize :
        \A i \in 0 .. size - 1 :
            ReadBuffer(offset, size)[i] =
                IF offset + i < length THEN Contents[offset + i + 1] ELSE Untouched

(* Types, a length that is the vector's size, reads of what is there, and  *)
(* a memmove that is right for every overlap.                              *)
RamFsInv == TypeOK /\ ReadsContents /\ MovesWhole

(* Writes with holes, overlaps and growth, and additions with growth, do   *)
(* to the file's bytes and the listing what AbstractRamFs says; no memory  *)
(* left over from another use shows.                                       *)
Promise == INSTANCE AbstractRamFs WITH contents <- Contents,
                                       entries  <- Listed,
                                       Offsets  <- 0 .. MaxOffset
RamFsSpec == Promise!Spec
=============================================================================
