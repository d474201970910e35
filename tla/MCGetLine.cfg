CONSTANTS
    Scancodes <- ReaderKeys
    LINE_BUFFER_SIZE = 2
    MaxLine = 1
    KbdCapacity = 1
    MouseCapacity = 1
    TypingBound = 2
SPECIFICATION FairCallSpec
INVARIANTS
    NeverSleepsOnInput
    ModifiersBacked
PROPERTIES
    LineReturned
