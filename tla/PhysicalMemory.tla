--------------------------- MODULE PhysicalMemory ---------------------------
(***************************************************************************)
(* initialize_physical_memory (src/kernel/memory.cpp, 15-58): the boot     *)
(* walks the loader's memory map, keeps the longest usable entry it met    *)
(* and gives it, at its address in the higher half, to init_heap; without  *)
(* a map, an offset or any usable memory it stops for good.                *)
(***************************************************************************)
EXTENDS Naturals, Sequences

CONSTANTS Maps,         \* the memory maps the loader may hand over
          hhdm_offset   \* where the higher half maps physical address 0

(* LIMINE_MEMMAP_USABLE and the other types, which are all alike here *)
MemoryType == {"USABLE", "OTHER"}
Entry == [base : Nat, length : Nat, type : MemoryType]

ASSUME MapsAssumption == Maps \subseteq Seq(Entry)
ASSUME OffsetAssumption == hhdm_offset \in Nat

VARIABLES memmap,         \* the entries of memmap_request's response
          answered,       \* the requests the loader answered
          boot,           \* "map", "scan", "chosen", then "heap" or "stopped"
          i,              \* the loop's index, from 0
          highest_base,
          largest_size,
          region          \* what init_heap is given

loaderVars == <<memmap, answered>>
bootVars == <<loaderVars, boot, i, highest_base, largest_size, region>>

NoRegion == [start |-> 0, size |-> 0]

BootInit == /\ memmap \in Maps
            /\ answered \in SUBSET {"memmap", "hhdm"}
            /\ boot = "map"
            /\ i = 0
            /\ highest_base = 0
            /\ largest_size = 0
            /\ region = NoRegion

(* A request the loader left unanswered has a null response. *)
NeedMap == /\ boot = "map"
           /\ boot' = IF "memmap" \in answered THEN "scan" ELSE "stopped"
           /\ UNCHANGED <<loaderVars, i, highest_base, largest_size, region>>

LargerAnyType(e) == e.length > largest_size
Larger(e) == e.type = "USABLE" /\ e.length > largest_size

ScanEntry == /\ boot = "scan"
             /\ i < Len(memmap)
             /\ LET e == memmap[i + 1]
                IN  IF Larger(e)
                    THEN largest_size' = e.length /\ highest_base' = e.base
                    ELSE UNCHANGED <<largest_size, highest_base>>
             /\ i' = i + 1
             /\ UNCHANGED <<loaderVars, boot, region>>

ScanDone == /\ boot = "scan"
            /\ i = Len(memmap)
            /\ boot' = IF "hhdm" \in answered THEN "chosen" ELSE "stopped"
            /\ UNCHANGED <<loaderVars, i, highest_base, largest_size, region>>

HandOver == /\ boot = "chosen"
            /\ largest_size > 0
            /\ boot' = "heap"
            /\ region' = [start |-> highest_base + hhdm_offset, size |-> largest_size]
            /\ UNCHANGED <<loaderVars, i, highest_base, largest_size>>

NoMemory == /\ boot = "chosen"
            /\ largest_size = 0
            /\ boot' = "stopped"
            /\ UNCHANGED <<loaderVars, i, highest_base, largest_size, region>>

(* while (true) {} *)
Stopped == boot = "stopped" /\ UNCHANGED bootVars

BootNext == NeedMap \/ ScanEntry \/ ScanDone \/ HandOver \/ NoMemory

-----------------------------------------------------------------------------
BootTypeOK == /\ memmap \in Maps
              /\ answered \in SUBSET {"memmap", "hhdm"}
              /\ boot \in {"map", "scan", "chosen", "heap", "stopped"}
              /\ i \in 0 .. Len(memmap)
              /\ highest_base \in Nat
              /\ largest_size \in Nat
              /\ region \in [start : Nat, size : Nat]

Usable(k) == memmap[k].type = "USABLE"

(* The loop's invariant: what is kept is the length and the base of one    *)
(* usable entry that was passed, and none that was passed is longer.       *)
KeepsLongest ==
    /\ \A k \in 1 .. i : Usable(k) => memmap[k].length <= largest_size
    /\ largest_size > 0 => \E k \in 1 .. i : /\ Usable(k)
                                            /\ memmap[k].length = largest_size
                                            /\ memmap[k].base = highest_base

(* How far the boot is tells what it has seen. *)
BootProgress ==
    /\ boot = "map" => i = 0
    /\ boot \in {"chosen", "heap"} => i = Len(memmap)
    /\ boot = "stopped" /\ answered = {"memmap", "hhdm"} => i = Len(memmap) /\ largest_size = 0
    /\ boot = "heap" => /\ largest_size > 0
                        /\ region = [start |-> highest_base + hhdm_offset, size |-> largest_size]

(* init_heap is given a usable entry of the loader's map, at its address   *)
(* in the higher half, and no usable entry is longer.                      *)
GivesLongestUsable ==
    boot = "heap" =>
        \E k \in 1 .. Len(memmap) :
            /\ Usable(k)
            /\ region = [start |-> memmap[k].base + hhdm_offset, size |-> memmap[k].length]
            /\ \A l \in 1 .. Len(memmap) : Usable(l) => memmap[l].length <= memmap[k].length

(* The boot stops for want of memory only when there is none: a request    *)
(* went unanswered, or no usable entry has a byte.                         *)
StopsOnlyWithout ==
    boot = "stopped" /\ answered = {"memmap", "hhdm"} =>
        \A k \in 1 .. Len(memmap) : Usable(k) => memmap[k].length = 0

(* The inductive invariant of the boot, and the two facts that follow: it  *)
(* finds the longest usable memory wherever the map has it, and gives up   *)
(* only without any.                                                       *)
BootInv == BootTypeOK /\ KeepsLongest /\ BootProgress /\ GivesLongestUsable /\ StopsOnlyWithout
=============================================================================
