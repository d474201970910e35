CONSTANTS
    Scancodes <- ChordKeys
    LINE_BUFFER_SIZE = 2
    MaxLine = 2
    KbdCapacity = 2
    MouseCapacity = 0
    TypingBound = 2
SPECIFICATION Spec
PROPERTIES
    GSwitchesToGui
