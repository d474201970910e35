---------------------------- MODULE KernelMemory ----------------------------
(***************************************************************************)
(* The memory of the kernel (src/kernel/memory.cpp): the boot finds the    *)
(* region, and every kmalloc and kfree after it works inside it.  Heap is  *)
(* about one region: its variables hold what init_heap makes of that       *)
(* region, nothing reads them before, and a map that leads to another      *)
(* region is followed up to init_heap.                                     *)
(***************************************************************************)
EXTENDS Heap, PhysicalMemory

memoryVars == <<vars, bootVars>>

MemoryInit == BootInit /\ Init

Ours == region = [start |-> HeapStart, size |-> HeapSize]

BootStep == (BootNext \/ Stopped) /\ UNCHANGED vars
HeapStep == boot = "heap" /\ Ours /\ Next /\ UNCHANGED bootVars
HeapElsewhere == boot = "heap" /\ ~Ours /\ UNCHANGED memoryVars

MemoryNext == BootStep \/ HeapStep \/ HeapElsewhere

MemorySpec == /\ MemoryInit
              /\ [][MemoryNext]_memoryVars
              /\ WF_memoryVars(boot = "heap" /\ Ours /\ InCall /\ UNCHANGED bootVars)

(* Every block of the heap, with its header, lies in memory the loader     *)
(* reported as usable, seen through the higher half: whatever is allocated *)
(* and freed, no reserved byte is ever written.                            *)
BlocksInUsableMemory ==
    boot = "heap" /\ Ours =>
        \A b \in DOMAIN heap :
            \E k \in 1 .. Len(memmap) :
                /\ Usable(k)
                /\ memmap[k].base + hhdm_offset <= b
                /\ EndOf(b) <= memmap[k].base + hhdm_offset + memmap[k].length
=============================================================================
