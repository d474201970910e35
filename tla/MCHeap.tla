------------------------------- MODULE MCHeap -------------------------------
(***************************************************************************)
(* KernelMemory with a heap of 17 words: room for up to four blocks, so    *)
(* that blocks are split, taken whole, skipped, merged on one side and on  *)
(* both, and refused.  The heap's machine has a longer entry that is not   *)
(* usable and a usable one that is shorter; the boot alone is followed on  *)
(* every map of up to three entries, equal, empty and unusable ones too.   *)
(***************************************************************************)
EXTENDS KernelMemory

MachineMap == << [base |-> 0,  length |-> 64,  type |-> "USABLE"],
                 [base |-> 64, length |-> 136, type |-> "USABLE"],
                 [base |-> 200, length |-> 200, type |-> "OTHER"] >>

SmallMaps == UNION {[1 .. n -> [base : {0, 8}, length : {0, 8, 16}, type : MemoryType]] : n \in 0 .. 3}

AllMaps == {MachineMap} \cup SmallMaps
=============================================================================
