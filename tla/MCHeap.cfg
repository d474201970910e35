CONSTANTS
    HeapStart = 1064
    HeapSize = 136
    Requests = {0, 1, 8, 24, 40}
    Word = 2048
    Maps <- AllMaps
    hhdm_offset = 1000
SPECIFICATION MemorySpec
INVARIANTS
    HeapInv
    Reclaimed
    BootInv
    BlocksInUsableMemory
PROPERTIES
    CallsReturn
    HeapSpec
