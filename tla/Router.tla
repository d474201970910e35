------------------------------- MODULE Router -------------------------------
(***************************************************************************)
(* The input router (src/drivers/input/input.cpp): the state it keeps and  *)
(* what process_keyboard_events does with one scancode, one action per     *)
(* branch of its loop body.  The loops that call it are MainLoop and       *)
(* GetLine.  kbd is the ring buffer of RingBuffer as its users see it, a   *)
(* bounded FIFO.  Of the mouse only what these loops depend on is here:    *)
(* its events are counted, and each one changes what the GUI has to draw.  *)
(*                                                                         *)
(* A character is the key that typed it and its case: the translation      *)
(* tables are injective enough for that, and no property looks at glyphs.  *)
(* input_len and the fields of KeyState that initialize() fills never      *)
(* change what the router does, and are left out.                          *)
(***************************************************************************)
EXTENDS Naturals, Sequences, FiniteSets

CONSTANTS Scancodes,          \* the bytes the keyboard sends
          KbdCapacity,        \* scancodes kbd_ring_buffer holds
          MouseCapacity,      \* bound on queued mouse events
          TypingBound,        \* bound on the scancodes of an unfinished line
          LINE_BUFFER_SIZE,   \* cells of input_buffer
          MaxLine             \* MAX_LINE_LEN, the room fetch_line's caller gives

ASSUME ScancodesAssumption == Scancodes \subseteq 0 .. 255
ASSUME CapacityAssumption == KbdCapacity \in Nat \ {0} /\ MouseCapacity \in Nat
ASSUME LineAssumption == /\ LINE_BUFFER_SIZE \in Nat \ {0}
                         /\ MaxLine \in 1 .. LINE_BUFFER_SIZE
                         /\ TypingBound \in Nat

VARIABLES kbd,              \* kbd_ring_buffer
          is_extended,
          is_caps,
          is_shift_active,
          is_ctrl_active,
          is_alt_active,
          keys_down,        \* the indices of keyboard_state that are down
          input_buffer,
          to_input_index,
          line_ready,
          dirty,
          active_context,   \* "TERMINAL" or "GUI"
          term_behind,      \* terminal text was written since it was last shown
          moves,            \* how many events mouse_ring_buffer holds
          gui_behind        \* the GUI was given input since it was last drawn

modifierVars == <<is_caps, is_shift_active, is_ctrl_active, is_alt_active>>
lineVars     == <<input_buffer, to_input_index, line_ready>>
keyVars      == <<kbd, is_extended, keys_down>>
displayVars  == <<active_context, term_behind, gui_behind>>
routerVars   == <<keyVars, moves, modifierVars, lineVars, displayVars, dirty>>

EXTENSION_CODE == 224
RELEASE_KEY_CODE == 128
BACKSPACE_KEY_CODE == 14
ENTER_KEY_CODE == 28
CAPS_LOCK_KEY_CODE == 58
LEFT_SHIFT_KEY_CODE == 42
RIGHT_SHIFT_KEY_CODE == 54
CTRL_KEY_CODE == 29
ALT_KEY_CODE == 56
RELEASED_KEY(code) == code + RELEASE_KEY_CODE

ShiftCodes == {LEFT_SHIFT_KEY_CODE, RIGHT_SHIFT_KEY_CODE}

(* The keys with a character, and the letters (qwerty_lower). *)
Printable == (1 .. 28) \cup (30 .. 41) \cup (43 .. 53) \cup {55, 57}
Letters   == (16 .. 25) \cup (30 .. 38) \cup (44 .. 50)

Char == [key : Printable, upper : BOOLEAN]
Nul  == [key |-> 0, upper |-> FALSE]      \* '\0'

Index(code) == (IF code >= RELEASE_KEY_CODE THEN code - RELEASE_KEY_CODE ELSE code)
                 + (IF is_extended THEN 128 ELSE 0)

determine_case(index) ==
    [key |-> index,
     upper |-> \/ index \notin Letters /\ is_shift_active
               \/ index \in Letters /\ is_shift_active # is_caps]

RouterInit == /\ kbd = <<>>
              /\ is_extended = FALSE
              /\ is_caps = FALSE
              /\ is_shift_active = FALSE
              /\ is_ctrl_active = FALSE
              /\ is_alt_active = FALSE
              /\ keys_down = {}
              /\ input_buffer = [i \in 0 .. LINE_BUFFER_SIZE - 1 |-> Nul]
              /\ to_input_index = 0
              /\ line_ready = FALSE
              /\ dirty = TRUE
              /\ active_context = "TERMINAL"
              /\ term_behind = TRUE
              /\ gui_behind = TRUE
              /\ moves = 0

-----------------------------------------------------------------------------
(* Taking the scancode: the prefix is remembered, any other code clears it *)
(* and moves a key.                                                        *)

ExtensionPrefix(s) ==
    /\ s = EXTENSION_CODE
    /\ kbd' = Tail(kbd)
    /\ is_extended' = TRUE
    /\ UNCHANGED <<keys_down, moves, modifierVars, lineVars, displayVars, dirty>>

TakeKey(s) == /\ s # EXTENSION_CODE
              /\ kbd' = Tail(kbd)
              /\ is_extended' = FALSE
              /\ keys_down' = IF s >= RELEASE_KEY_CODE THEN keys_down \ {Index(s)}
                                                       ELSE keys_down \cup {Index(s)}

-----------------------------------------------------------------------------
(* Modifiers.  The prefix does not matter here: the code compares the bare *)
(* scancode, so right Ctrl and right Alt are Ctrl and Alt.                 *)

CapsLock(s) == /\ s = CAPS_LOCK_KEY_CODE
               /\ is_caps' = ~is_caps
               /\ UNCHANGED <<is_shift_active, is_ctrl_active, is_alt_active>>

ShiftIgnoresRelease(s) == /\ s \in ShiftCodes \cup {RELEASED_KEY(c) : c \in ShiftCodes}
                          /\ is_shift_active' = TRUE
                          /\ UNCHANGED <<is_caps, is_ctrl_active, is_alt_active>>
Shift(s) == /\ s \in ShiftCodes \cup {RELEASED_KEY(c) : c \in ShiftCodes}
            /\ is_shift_active' = (s \in ShiftCodes)
            /\ UNCHANGED <<is_caps, is_ctrl_active, is_alt_active>>

Ctrl(s) == /\ s \in {CTRL_KEY_CODE, RELEASED_KEY(CTRL_KEY_CODE)}
           /\ is_ctrl_active' = (s = CTRL_KEY_CODE)
           /\ UNCHANGED <<is_caps, is_shift_active, is_alt_active>>

Alt(s) == /\ s \in {ALT_KEY_CODE, RELEASED_KEY(ALT_KEY_CODE)}
          /\ is_alt_active' = (s = ALT_KEY_CODE)
          /\ UNCHANGED <<is_caps, is_shift_active, is_ctrl_active>>

Modifier(s) == /\ CapsLock(s) \/ Shift(s) \/ Ctrl(s) \/ Alt(s)
               /\ TakeKey(s)
               /\ UNCHANGED <<moves, lineVars, displayVars, dirty>>

ModifierCodes == {CAPS_LOCK_KEY_CODE, CTRL_KEY_CODE, ALT_KEY_CODE} \cup ShiftCodes
                   \cup {RELEASED_KEY(c) : c \in {CTRL_KEY_CODE, ALT_KEY_CODE} \cup ShiftCodes}

-----------------------------------------------------------------------------
(* Every other code marks the terminal dirty, whatever it does. *)

ContentKey(s) == /\ s \notin ModifierCodes
                 /\ TakeKey(s)
                 /\ dirty' = TRUE
                 /\ UNCHANGED <<moves, modifierVars>>

(* A store past the end of input_buffer lands outside it. *)
Store(i, c) == [input_buffer EXCEPT ![i] = c]

InTerminalAlways == TRUE
InTerminal == active_context = "TERMINAL"

Erased == Store(to_input_index - 1, Nul)

Backspace(s) ==
    /\ s = BACKSPACE_KEY_CODE
    /\ ContentKey(s)
    /\ IF InTerminal
       THEN /\ IF to_input_index = 0
               THEN UNCHANGED <<input_buffer, to_input_index, term_behind>>
               ELSE /\ to_input_index' = to_input_index - 1
                    /\ input_buffer' = Erased
                    /\ term_behind' = TRUE
            /\ UNCHANGED gui_behind
       ELSE /\ gui_behind' = TRUE
            /\ UNCHANGED <<input_buffer, to_input_index, term_behind>>
    /\ UNCHANGED <<line_ready, active_context>>

Enter(s) ==
    /\ s = ENTER_KEY_CODE
    /\ ContentKey(s)
    /\ IF InTerminal
       THEN /\ input_buffer' = Store(to_input_index, Nul)
            /\ line_ready' = TRUE
            /\ term_behind' = TRUE
            /\ UNCHANGED gui_behind
       ELSE /\ gui_behind' = TRUE
            /\ UNCHANGED <<input_buffer, line_ready, term_behind>>
    /\ UNCHANGED <<to_input_index, active_context>>

(* Ctrl+Alt+T and Ctrl+Alt with the key of index 0x20. *)
ToTerminalKey == 20
ToGuiKey == 32

Chord(s) == /\ is_ctrl_active
            /\ is_alt_active
            /\ s < RELEASE_KEY_CODE
            /\ Index(s) \in {ToTerminalKey, ToGuiKey}

SwitchContext(s) ==
    /\ s \notin {BACKSPACE_KEY_CODE, ENTER_KEY_CODE}
    /\ Chord(s)
    /\ ContentKey(s)
    /\ active_context' = IF Index(s) = ToTerminalKey THEN "TERMINAL" ELSE "GUI"
    /\ UNCHANGED <<lineVars, term_behind, gui_behind>>

NextIndex == to_input_index + 1

Types(s) == s < RELEASE_KEY_CODE /\ Index(s) \in Printable

TypeChar(s) ==
    /\ s \notin {BACKSPACE_KEY_CODE, ENTER_KEY_CODE}
    /\ ~Chord(s)
    /\ Types(s)
    /\ ContentKey(s)
    /\ IF InTerminal
       THEN /\ input_buffer' = Store(to_input_index, determine_case(Index(s)))
            /\ to_input_index' = NextIndex
            /\ term_behind' = TRUE
            /\ UNCHANGED gui_behind
       ELSE /\ gui_behind' = TRUE
            /\ UNCHANGED <<input_buffer, to_input_index, term_behind>>
    /\ UNCHANGED <<line_ready, active_context>>

(* Releases, and keys without a character. *)
NoCharacter(s) ==
    /\ s \notin {BACKSPACE_KEY_CODE, ENTER_KEY_CODE}
    /\ ~Chord(s)
    /\ ~Types(s)
    /\ ContentKey(s)
    /\ UNCHANGED <<lineVars, displayVars>>

(* One iteration of process_keyboard_events' loop. *)
ProcessScancode ==
    /\ kbd # <<>>
    /\ LET s == Head(kbd)
       IN  ExtensionPrefix(s) \/ Modifier(s) \/ Backspace(s) \/ Enter(s)
             \/ SwitchContext(s) \/ TypeChar(s) \/ NoCharacter(s)

(* One iteration of process_mouse_events' loop moves the pointer that the  *)
(* GUI draws.                                                              *)
ProcessMove == /\ moves > 0
               /\ moves' = moves - 1
               /\ gui_behind' = TRUE
               /\ UNCHANGED <<keyVars, modifierVars, lineVars, active_context, term_behind, dirty>>

-----------------------------------------------------------------------------
(* The interrupt handlers.  TypingRoom is the bound on what is typed ahead *)
(* of the line being taken.                                                *)

TypingRoom == to_input_index + Len(kbd) < TypingBound

(* KeyboardBuffer::push, full or not *)
Pushed(s) == IF Len(kbd) < KbdCapacity THEN Append(kbd, s) ELSE kbd

QueueKey(s) == /\ TypingRoom
               /\ kbd' = Pushed(s)
               /\ UNCHANGED <<is_extended, keys_down, moves, modifierVars, lineVars, displayVars, dirty>>

(* The mouse handler queues events in the GUI only. *)
QueueMove == /\ moves < MouseCapacity
             /\ active_context = "GUI"
             /\ moves' = moves + 1
             /\ UNCHANGED <<keyVars, modifierVars, lineVars, displayVars, dirty>>

-----------------------------------------------------------------------------
(* get_line and fetch_line: what they copy, and the state they leave. *)

CopyLenNoNul == IF to_input_index < MaxLine THEN to_input_index ELSE MaxLine
CopyLen == IF to_input_index < MaxLine - 1 THEN to_input_index ELSE MaxLine - 1

Copied == [i \in 1 .. CopyLen |-> input_buffer[i - 1]]

ClearedIndexOnly == input_buffer
Cleared == [i \in 0 .. LINE_BUFFER_SIZE - 1 |-> Nul]

TakeLineKeepsReady == /\ input_buffer' = Cleared
                      /\ to_input_index' = 0
                      /\ line_ready' = line_ready
TakeLine == /\ input_buffer' = Cleared
            /\ to_input_index' = 0
            /\ line_ready' = FALSE

(* flush_terminal_updates, on the variables of the router *)
FlushNever == UNCHANGED <<dirty, term_behind>>
Flush == IF InTerminal THEN dirty' = FALSE /\ term_behind' = FALSE
                       ELSE UNCHANGED <<dirty, term_behind>>

RouterTypeOK ==
    /\ kbd \in Seq(Scancodes)
    /\ is_extended \in BOOLEAN
    /\ is_caps \in BOOLEAN
    /\ is_shift_active \in BOOLEAN
    /\ is_ctrl_active \in BOOLEAN
    /\ is_alt_active \in BOOLEAN
    /\ keys_down \subseteq 0 .. 255
    /\ input_buffer \in [0 .. LINE_BUFFER_SIZE - 1 -> Char \cup {Nul}]
    /\ to_input_index \in Nat
    /\ line_ready \in BOOLEAN
    /\ dirty \in BOOLEAN
    /\ active_context \in {"TERMINAL", "GUI"}
    /\ term_behind \in BOOLEAN
    /\ gui_behind \in BOOLEAN
    /\ moves \in 0 .. MouseCapacity

(* A modifier the router believes held is held by a key it saw go down:    *)
(* no modifier is left over from a chord that ended, whichever of the left *)
(* and right keys was used and in whatever order they were let go.         *)
HeldBy(code) == {code, code + 128} \cap keys_down # {}
ModifiersBacked ==
    /\ is_shift_active => \E c \in ShiftCodes : HeldBy(c)
    /\ is_ctrl_active => HeldBy(CTRL_KEY_CODE)
    /\ is_alt_active => HeldBy(ALT_KEY_CODE)
=============================================================================
