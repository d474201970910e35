CONSTANTS
    Scancodes <- ContextKeys
    LINE_BUFFER_SIZE = 3
    MaxLine = 2
    KbdCapacity = 2
    MouseCapacity = 1
    TypingBound = 3
SPECIFICATION FairSpec
INVARIANTS
    LineInv
    ScreenFreshAtHalt
PROPERTIES
    GuiKeysStayOut
    GuiShown
    KeysConsumed
    LineServed
    EditorSpec
