CONSTANTS
    Scancodes <- LetterKeys
    LINE_BUFFER_SIZE = 2
    MaxLine = 2
    KbdCapacity = 2
    MouseCapacity = 0
    TypingBound = 4
SPECIFICATION CallSpec
INVARIANTS
    StopsAtLimit
