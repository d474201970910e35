--------------------------- MODULE MainLoopProofs ---------------------------
(***************************************************************************)
(* What holds of MainLoop for every keyboard, every buffer size and every  *)
(* length of line: NULs follow the line in input_buffer, the screen is     *)
(* fresh whenever the processor sleeps, and modifiers are backed by keys.  *)
(* The same of GetLine, which moreover never sleeps on input.  And for     *)
(* lines that fit input_buffer (TypingAssumption, which the code does not  *)
(* enforce): both edit lines as LineEditor says.                           *)
(***************************************************************************)
EXTENDS MainLoop, GetLine, SequenceTheorems, TLAPS

USE ScancodesAssumption, CapacityAssumption, LineAssumption
    DEF ScancodesAssumption, CapacityAssumption, LineAssumption

LEMMA InitInv == LoopInit /\ pc \in Points => LineInv
<1> SUFFICES ASSUME LoopInit, pc \in Points PROVE LineInv
    OBVIOUS
<1> USE DEF LoopInit, RouterInit
<1>1. input_buffer \in [0 .. LINE_BUFFER_SIZE - 1 -> Char \cup {Nul}]
    OBVIOUS
<1>2. RouterTypeOK
  <2>1. kbd \in Seq(Scancodes) /\ keys_down \subseteq 0 .. 255
      OBVIOUS
  <2>2. /\ is_extended \in BOOLEAN /\ is_caps \in BOOLEAN /\ is_shift_active \in BOOLEAN
        /\ is_ctrl_active \in BOOLEAN /\ is_alt_active \in BOOLEAN
        /\ line_ready \in BOOLEAN /\ dirty \in BOOLEAN
        /\ term_behind \in BOOLEAN /\ gui_behind \in BOOLEAN
      OBVIOUS
  <2>3. to_input_index \in Nat /\ moves \in 0 .. MouseCapacity
        /\ active_context \in {"TERMINAL", "GUI"}
      OBVIOUS
  <2> QED BY <1>1, <2>1, <2>2, <2>3 DEF RouterTypeOK
<1>4. TypeOK
    BY <1>2 DEF TypeOK, Points
<1>3. NulAfterLine
    BY DEF NulAfterLine
<1> QED BY <1>3, <1>4 DEF LineInv

(* The indices of keyboard_state. *)
LEMMA IndexBounds ==
    ASSUME NEW s \in Scancodes, is_extended \in BOOLEAN
    PROVE  Index(s) \in 0 .. 255
<1>1. s \in 0 .. 255
    OBVIOUS
<1>2. CASE is_extended
    BY <1>1, <1>2 DEF Index, RELEASE_KEY_CODE
<1>3. CASE ~is_extended
    BY <1>1, <1>3 DEF Index, RELEASE_KEY_CODE
<1> QED BY <1>2, <1>3

(* Every character stored is a character, and not the NUL. *)
LEMMA CaseIsChar ==
    ASSUME NEW i \in Printable, is_shift_active \in BOOLEAN, is_caps \in BOOLEAN
    PROVE  determine_case(i) \in Char /\ determine_case(i) # Nul
<1>1. determine_case(i) \in Char
    BY DEF determine_case, Char
<1>2. determine_case(i).key = i /\ Nul.key = 0 /\ i # 0
    BY DEF determine_case, Nul, Printable
<1> QED BY <1>1, <1>2

(* Dropping the first scancode leaves a shorter queue. *)
LEMMA TailOfQueue ==
    ASSUME kbd \in Seq(Scancodes), kbd # <<>>
    PROVE  /\ Head(kbd) \in Scancodes
           /\ Tail(kbd) \in Seq(Scancodes)
           /\ Len(Tail(kbd)) = Len(kbd) - 1
           /\ Len(kbd) \in Nat \ {0}
OBVIOUS

(* What the modifiers depend on, and nothing about the line: it may be of *)
(* any length here.                                                        *)
KeyTypes == /\ kbd \in Seq(Scancodes)
            /\ is_extended \in BOOLEAN
            /\ keys_down \subseteq 0 .. 255
            /\ line_ready \in BOOLEAN

LEMMA TypesOfKeys == LineInv => KeyTypes
BY DEF LineInv, TypeOK, RouterTypeOK, KeyTypes

(* What taking a key leaves of them. *)
LEMMA TakeKeyType ==
    ASSUME KeyTypes, kbd # <<>>, TakeKey(Head(kbd))
    PROVE  /\ kbd' \in Seq(Scancodes)
           /\ is_extended' \in BOOLEAN
           /\ keys_down' \subseteq 0 .. 255
           /\ Len(kbd') = Len(kbd) - 1
<1>1. Head(kbd) \in Scancodes /\ kbd \in Seq(Scancodes)
    BY TailOfQueue DEF KeyTypes
<1>2. Index(Head(kbd)) \in 0 .. 255
    BY <1>1, IndexBounds DEF KeyTypes
<1> QED BY <1>1, <1>2, TailOfQueue DEF TakeKey, KeyTypes

-----------------------------------------------------------------------------
(* One scancode, branch by branch. *)

LEMMA PrefixKeepsInv ==
    ASSUME LineInv, kbd # <<>>, ExtensionPrefix(Head(kbd)), UNCHANGED <<pc, loopVars>>
    PROVE  LineInv'
<1>1. kbd' \in Seq(Scancodes)
    BY TailOfQueue DEF ExtensionPrefix, LineInv, TypeOK, RouterTypeOK
<1> USE DEF LineInv, ExtensionPrefix, modifierVars, lineVars, displayVars
<1>2. RouterTypeOK'
    BY <1>1 DEF TypeOK, RouterTypeOK
<1>3. TypeOK'
    BY <1>2 DEF loopVars, TypeOK
<1>4. NulAfterLine'
    BY DEF NulAfterLine
<1> QED BY <1>3, <1>4

LEMMA ModifierKeepsInv ==
    ASSUME LineInv, kbd # <<>>, Modifier(Head(kbd)), UNCHANGED <<pc, loopVars>>
    PROVE  LineInv'
<1>1. /\ kbd' \in Seq(Scancodes)
      /\ is_extended' \in BOOLEAN
      /\ keys_down' \subseteq 0 .. 255
    BY TakeKeyType, TypesOfKeys DEF Modifier
<1>3. is_caps' \in BOOLEAN /\ is_shift_active' \in BOOLEAN /\ is_ctrl_active' \in BOOLEAN
        /\ is_alt_active' \in BOOLEAN
  <2>1. /\ is_caps \in BOOLEAN /\ is_shift_active \in BOOLEAN
        /\ is_ctrl_active \in BOOLEAN /\ is_alt_active \in BOOLEAN
      BY DEF LineInv, TypeOK, RouterTypeOK
  <2>2. CASE CapsLock(Head(kbd))
      BY <2>1, <2>2 DEF CapsLock
  <2>3. CASE Shift(Head(kbd))
      BY <2>1, <2>3 DEF Shift
  <2>4. CASE Ctrl(Head(kbd))
      BY <2>1, <2>4 DEF Ctrl
  <2>5. CASE Alt(Head(kbd))
      BY <2>1, <2>5 DEF Alt
  <2> QED BY <2>2, <2>3, <2>4, <2>5 DEF Modifier
<1> USE DEF LineInv, Modifier, lineVars, displayVars
<1>4. RouterTypeOK'
    BY <1>1, <1>3 DEF TypeOK, RouterTypeOK
<1>5. TypeOK'
    BY <1>4 DEF loopVars, TypeOK
<1>6. NulAfterLine'
    BY DEF NulAfterLine
<1> QED BY <1>5, <1>6

(* The other branches share this: what ContentKey leaves. *)
LEMMA ContentKeyFacts ==
    ASSUME LineInv, kbd # <<>>, ContentKey(Head(kbd))
    PROVE  /\ kbd' \in Seq(Scancodes)
           /\ is_extended' \in BOOLEAN
           /\ keys_down' \subseteq 0 .. 255
           /\ Head(kbd) \in 0 .. 255
<1>1. Head(kbd) \in Scancodes
    BY TailOfQueue DEF LineInv, TypeOK, RouterTypeOK
<1> QED BY <1>1, TakeKeyType, TypesOfKeys DEF ContentKey

(* Given the line variables' part, the rest of LineInv follows from ContentKey. *)
LineOK == /\ input_buffer \in [0 .. LINE_BUFFER_SIZE - 1 -> Char \cup {Nul}]
          /\ to_input_index \in Nat
          /\ NulAfterLine

LEMMA ContentKeepsInv ==
    ASSUME LineInv, kbd # <<>>, ContentKey(Head(kbd)), UNCHANGED <<pc, loopVars>>,
           LineOK',
           line_ready' \in BOOLEAN, active_context' \in {"TERMINAL", "GUI"},
           term_behind' \in BOOLEAN, gui_behind' \in BOOLEAN
    PROVE  LineInv'
<1>1. RouterTypeOK'
    BY ContentKeyFacts DEF ContentKey, LineOK, modifierVars, LineInv, TypeOK, RouterTypeOK
<1>2. TypeOK'
    BY <1>1 DEF loopVars, LineInv, TypeOK
<1> QED BY <1>2 DEF LineInv, LineOK

LEMMA BackspaceKeepsInv ==
    ASSUME LineInv, kbd # <<>>, Backspace(Head(kbd)), UNCHANGED <<pc, loopVars>>
    PROVE  LineInv'
<1>1. ContentKey(Head(kbd)) /\ TypeOK /\ RouterTypeOK /\ NulAfterLine
    BY DEF Backspace, LineInv, TypeOK
<1>2. to_input_index \in Nat
    BY <1>1 DEF RouterTypeOK
<1>3. LineOK'
  <2>1. CASE InTerminal /\ to_input_index # 0
    <3>1. to_input_index' = to_input_index - 1 /\ input_buffer' = Erased
        BY <2>1 DEF Backspace
    <3>2. input_buffer' \in [0 .. LINE_BUFFER_SIZE - 1 -> Char \cup {Nul}]
        BY <1>1, <3>1 DEF Erased, Store, RouterTypeOK
    <3>3. to_input_index' \in Nat
        BY <1>2, <2>1, <3>1
    <3>4. ASSUME NEW i \in 0 .. LINE_BUFFER_SIZE - 1
          PROVE  i < to_input_index' <=> input_buffer'[i] # Nul
      <4>1. i < to_input_index <=> input_buffer[i] # Nul
          BY <1>1 DEF NulAfterLine
      <4>2. input_buffer'[i] = IF i = to_input_index - 1 THEN Nul ELSE input_buffer[i]
          BY <1>1, <3>1 DEF Erased, Store, RouterTypeOK
      <4> QED BY <1>2, <2>1, <3>1, <4>1, <4>2
    <3> QED BY <3>2, <3>3, <3>4 DEF LineOK, NulAfterLine
  <2>2. CASE ~(InTerminal /\ to_input_index # 0)
    <3>1. UNCHANGED <<input_buffer, to_input_index>>
        BY <2>2 DEF Backspace
    <3> QED BY <1>1, <1>2, <3>1 DEF LineOK, NulAfterLine, RouterTypeOK
  <2> QED BY <2>1, <2>2
<1>4. /\ line_ready' \in BOOLEAN /\ active_context' \in {"TERMINAL", "GUI"}
      /\ term_behind' \in BOOLEAN /\ gui_behind' \in BOOLEAN
    BY <1>1 DEF Backspace, RouterTypeOK
<1> QED BY <1>1, <1>3, <1>4, ContentKeepsInv

LEMMA EnterKeepsInv ==
    ASSUME LineInv, kbd # <<>>, Enter(Head(kbd)), UNCHANGED <<pc, loopVars>>
    PROVE  LineInv'
<1>1. ContentKey(Head(kbd)) /\ TypeOK /\ RouterTypeOK /\ NulAfterLine
    BY DEF Enter, LineInv, TypeOK
<1>2. to_input_index \in Nat
    BY <1>1 DEF RouterTypeOK
<1>3. LineOK'
  <2>1. to_input_index < LINE_BUFFER_SIZE => input_buffer[to_input_index] = Nul
      BY <1>1, <1>2 DEF NulAfterLine
  <2>2. input_buffer' = input_buffer
      BY <1>1, <1>2, <2>1 DEF Enter, Store, RouterTypeOK
  <2> QED BY <1>1, <1>2, <2>2 DEF Enter, LineOK, NulAfterLine, RouterTypeOK
<1>4. /\ line_ready' \in BOOLEAN /\ active_context' \in {"TERMINAL", "GUI"}
      /\ term_behind' \in BOOLEAN /\ gui_behind' \in BOOLEAN
    BY <1>1 DEF Enter, RouterTypeOK
<1> QED BY <1>1, <1>3, <1>4, ContentKeepsInv

LEMMA TypeCharKeepsInv ==
    ASSUME LineInv, kbd # <<>>, TypeChar(Head(kbd)), UNCHANGED <<pc, loopVars>>
    PROVE  LineInv'
<1>1. ContentKey(Head(kbd)) /\ TypeOK /\ RouterTypeOK /\ NulAfterLine
    BY DEF TypeChar, LineInv, TypeOK
<1>2. to_input_index \in Nat
    BY <1>1 DEF RouterTypeOK
<1>3. LineOK'
  <2>1. CASE InTerminal
    <3> DEFINE c == determine_case(Index(Head(kbd)))
    <3>1. c \in Char /\ c # Nul
        BY <1>1, CaseIsChar DEF TypeChar, Types, RouterTypeOK
    <3>2. to_input_index' = to_input_index + 1
          /\ input_buffer' = [input_buffer EXCEPT ![to_input_index] = c]
        BY <2>1 DEF TypeChar, NextIndex, Store
    <3> HIDE DEF c
    <3> QED BY <1>1, <1>2, <3>1, <3>2 DEF LineOK, NulAfterLine, RouterTypeOK
  <2>2. CASE ~InTerminal
      BY <1>1, <1>2, <2>2 DEF TypeChar, LineOK, NulAfterLine, RouterTypeOK
  <2> QED BY <2>1, <2>2
<1>4. /\ line_ready' \in BOOLEAN /\ active_context' \in {"TERMINAL", "GUI"}
      /\ term_behind' \in BOOLEAN /\ gui_behind' \in BOOLEAN
    BY <1>1 DEF TypeChar, RouterTypeOK
<1> QED BY <1>1, <1>3, <1>4, ContentKeepsInv

LEMMA SwitchKeepsInv ==
    ASSUME LineInv, kbd # <<>>, SwitchContext(Head(kbd)) \/ NoCharacter(Head(kbd)),
           UNCHANGED <<pc, loopVars>>
    PROVE  LineInv'
<1>1. ContentKey(Head(kbd)) /\ TypeOK /\ RouterTypeOK /\ NulAfterLine
    BY DEF SwitchContext, NoCharacter, LineInv, TypeOK
<1>2. LineOK'
    BY <1>1 DEF SwitchContext, NoCharacter, lineVars, LineOK, NulAfterLine, RouterTypeOK
<1>3. /\ line_ready' \in BOOLEAN /\ active_context' \in {"TERMINAL", "GUI"}
      /\ term_behind' \in BOOLEAN /\ gui_behind' \in BOOLEAN
    BY <1>1 DEF SwitchContext, NoCharacter, lineVars, displayVars, RouterTypeOK
<1> QED BY <1>1, <1>2, <1>3, ContentKeepsInv

LEMMA DrainKeyKeepsInv == LineInv /\ DrainKey => LineInv'
<1> SUFFICES ASSUME LineInv, DrainKey PROVE LineInv'
    OBVIOUS
<1>1. kbd # <<>> /\ UNCHANGED <<pc, loopVars>>
    BY DEF DrainKey, ProcessScancode
<1>2. \/ ExtensionPrefix(Head(kbd)) \/ Modifier(Head(kbd)) \/ Backspace(Head(kbd))
      \/ Enter(Head(kbd)) \/ SwitchContext(Head(kbd)) \/ TypeChar(Head(kbd))
      \/ NoCharacter(Head(kbd))
    BY DEF DrainKey, ProcessScancode
<1> QED BY <1>1, <1>2, PrefixKeepsInv, ModifierKeepsInv, BackspaceKeepsInv, EnterKeepsInv,
           SwitchKeepsInv, TypeCharKeepsInv

-----------------------------------------------------------------------------
(* The interrupts, and the other steps of the loop. *)

LEMMA KeyboardKeepsInv ==
    ASSUME LineInv, NEW s \in Scancodes, KeyboardIrq(s)
    PROVE  LineInv'
<1>1. RouterTypeOK /\ kbd \in Seq(Scancodes) /\ to_input_index \in Nat
    BY DEF LineInv, TypeOK, RouterTypeOK
<1>2. kbd' \in Seq(Scancodes)
  <2>1. kbd' = Append(kbd, s) \/ kbd' = kbd
      BY DEF KeyboardIrq, QueueKey, Pushed
  <2>2. Append(kbd, s) \in Seq(Scancodes)
      BY <1>1
  <2> QED BY <1>1, <2>1, <2>2
<1>3. UNCHANGED <<is_extended, keys_down, moves, modifierVars, lineVars, displayVars, dirty>>
    BY DEF KeyboardIrq, QueueKey
<1>4. RouterTypeOK'
    BY <1>1, <1>2, <1>3 DEF modifierVars, lineVars, displayVars, RouterTypeOK
<1>5. TypeOK'
    BY <1>4 DEF loopVars, KeyboardIrq, Woken, Points, LineInv, TypeOK
<1>6. NulAfterLine'
    BY <1>3 DEF LineInv, NulAfterLine, lineVars
<1> QED BY <1>5, <1>6 DEF LineInv

(* A step that leaves the keyboard and the line alone only has to keep the *)
(* types of what it changes.                                               *)
LEMMA QuietKeepsInv ==
    ASSUME LineInv, UNCHANGED <<keyVars, modifierVars, lineVars>>,
           moves' \in 0 .. MouseCapacity, dirty' \in BOOLEAN,
           active_context' \in {"TERMINAL", "GUI"},
           term_behind' \in BOOLEAN, gui_behind' \in BOOLEAN,
           pc' \in Points, is_enabled' \in BOOLEAN, screen' \in {"TERMINAL", "GUI"},
           delivered' \in Seq(Char \cup {Nul})
    PROVE  LineInv'
<1> USE DEF keyVars, modifierVars, lineVars
<1>1. RouterTypeOK'
    BY DEF LineInv, TypeOK, RouterTypeOK
<1>2. TypeOK'
    BY <1>1 DEF TypeOK
<1>3. NulAfterLine'
    BY DEF LineInv, NulAfterLine
<1> QED BY <1>2, <1>3 DEF LineInv

(* Whoever takes the line: fetch_line, or get_line before it returns. *)
LEMMA TakingKeepsInv ==
    ASSUME LineInv, TakeLine, delivered' = Copied,
           UNCHANGED <<keyVars, modifierVars, moves, dirty, active_context, gui_behind>>,
           term_behind' \in BOOLEAN,
           pc' \in Points, is_enabled' \in BOOLEAN, screen' \in {"TERMINAL", "GUI"}
    PROVE  LineInv'
<1>1. RouterTypeOK /\ to_input_index \in Nat
    BY DEF LineInv, TypeOK, RouterTypeOK
<1>2. CopyLen \in 0 .. LINE_BUFFER_SIZE
    BY <1>1 DEF CopyLen
<1>3. Copied \in Seq(Char \cup {Nul})
    BY <1>1, <1>2 DEF Copied, RouterTypeOK
<1>4. Cleared \in [0 .. LINE_BUFFER_SIZE - 1 -> Char \cup {Nul}]
    BY DEF Cleared
<1>5. RouterTypeOK'
    BY <1>1, <1>4 DEF TakeLine, keyVars, modifierVars, RouterTypeOK
<1>6. TypeOK'
    BY <1>3, <1>5 DEF TypeOK
<1>7. NulAfterLine'
    BY DEF TakeLine, Cleared, NulAfterLine
<1> QED BY <1>6, <1>7 DEF LineInv

(* The types of what the loops' own steps change. *)
LEMMA TypesOfRest ==
    LineInv => /\ moves \in 0 .. MouseCapacity /\ dirty \in BOOLEAN
               /\ active_context \in {"TERMINAL", "GUI"}
               /\ term_behind \in BOOLEAN /\ gui_behind \in BOOLEAN
               /\ pc \in Points /\ is_enabled \in BOOLEAN /\ screen \in {"TERMINAL", "GUI"}
               /\ delivered \in Seq(Char \cup {Nul})
BY DEF LineInv, TypeOK, RouterTypeOK

(* The steps the two loops share. *)
Shared == DrainKey \/ KeysDrained \/ DrainMove \/ Interrupt \/ UNCHANGED vars

LEMMA SharedKeepsInv == LineInv /\ Shared => LineInv'
<1> SUFFICES ASSUME LineInv, Shared PROVE LineInv'
    OBVIOUS
<1> USE TypesOfRest DEF Points, routerVars, loopVars, displayVars
<1>1. CASE DrainKey
    BY <1>1, DrainKeyKeepsInv
<1>2. CASE KeysDrained
    BY <1>2, QuietKeepsInv DEF KeysDrained
<1>3. CASE DrainMove
    BY <1>3, QuietKeepsInv DEF DrainMove, ProcessMove
<1>4. CASE \E s \in Scancodes : KeyboardIrq(s)
    BY <1>4, KeyboardKeepsInv
<1>5. CASE MouseIrq
    BY <1>5, QuietKeepsInv DEF MouseIrq, QueueMove, Woken
<1>6. CASE TimerIrq
    BY <1>6, QuietKeepsInv DEF TimerIrq, Woken
<1>7. CASE UNCHANGED vars
    BY <1>7, QuietKeepsInv DEF vars
<1> QED BY <1>1, <1>2, <1>3, <1>4, <1>5, <1>6, <1>7 DEF Shared, Interrupt

LEMMA StepInv == LineInv /\ [Next]_vars => LineInv'
<1> SUFFICES ASSUME LineInv, [Next]_vars PROVE LineInv'
    OBVIOUS
<1> USE TypesOfRest DEF Points, routerVars, loopVars, displayVars
<1>1. CASE Shared
    BY <1>1, SharedKeepsInv
<1>2. CASE Cli \/ Sti \/ EvalExit \/ NothingToRefresh \/ Hlt
    BY <1>2, QuietKeepsInv DEF Cli, Sti, EvalExit, NothingToRefresh, Hlt
<1>3. CASE FetchLine
    BY <1>3, TakingKeepsInv DEF FetchLine
<1>4. CASE EvalCommand \/ EvalDisplay
    BY <1>4, QuietKeepsInv DEF EvalCommand, EvalDisplay
<1>5. CASE Prompt
    BY <1>5, QuietKeepsInv DEF Prompt, ShownUnlessGui
<1>6. CASE Refresh
    BY <1>6, QuietKeepsInv DEF Refresh, Flush, ShownUnlessGui
<1>7. CASE Render \/ Exit
    BY <1>7, QuietKeepsInv DEF Render, Exit
<1> QED BY <1>1, <1>2, <1>3, <1>4, <1>5, <1>6, <1>7 DEF Next, LoopStep, Shared

LEMMA CallStepInv == LineInv /\ [CallNext]_vars => LineInv'
<1> SUFFICES ASSUME LineInv, [CallNext]_vars PROVE LineInv'
    OBVIOUS
<1> USE TypesOfRest DEF Points, routerVars, loopVars, displayVars
<1>1. CASE Shared
    BY <1>1, SharedKeepsInv
<1>2. CASE Call \/ GoOn
    BY <1>2, QuietKeepsInv DEF Call, GoOn
<1>3. CASE Test
    BY <1>3, QuietKeepsInv DEF Test
<1>4. CASE Sleep
  <2>1. /\ screen' \in {"TERMINAL", "GUI"} /\ term_behind' \in BOOLEAN
      BY <1>4 DEF Sleep, Swap
  <2> QED BY <1>4, <2>1, QuietKeepsInv DEF Sleep
<1>5. CASE Return
  <2>1. /\ screen' \in {"TERMINAL", "GUI"} /\ term_behind' \in BOOLEAN
      BY <1>5 DEF Return, Swap
  <2> QED BY <1>5, <2>1, TakingKeepsInv DEF Return
<1> QED BY <1>1, <1>2, <1>3, <1>4, <1>5 DEF CallNext, CallStep, Shared

(* Behind the line input_buffer holds nothing but NULs, however long the   *)
(* line, whatever is typed and whenever it comes: no character of a line   *)
(* that was erased or fetched (Input::fetch_line) comes back.              *)
THEOREM Safety == Spec => []LineInv
<1>1. Init => LineInv
    BY InitInv DEF Init, Points
<1> QED BY <1>1, StepInv, PTL DEF Spec

(* The same around get_line. *)
THEOREM CallSafety == CallSpec => []LineInv
<1>1. CallInit => LineInv
    BY InitInv DEF CallInit, Points
<1> QED BY <1>1, CallStepInv, PTL DEF CallSpec

-----------------------------------------------------------------------------
(* The screen.  Not only asleep but already on the way to hlt it is fresh: *)
(* an interrupt there changes the queues and nothing else.                 *)

FreshAtHlt == pc \in {"hlt", "halted"} /\ active_context = "TERMINAL"
                  => screen = "TERMINAL" /\ ~term_behind

FreshInv == TypeOK /\ BehindIsDirty /\ FreshAtHlt

(* A scancode that writes to the terminal, erases from it or comes back to *)
(* it raises the dirty flag in the same iteration.                         *)
LEMMA DrainKeyFresh ==
    ASSUME TypeOK, BehindIsDirty, DrainKey
    PROVE  BehindIsDirty'
<1>1. pc = "keys" /\ UNCHANGED <<pc, screen>>
    BY DEF DrainKey, loopVars
<1>2. CASE dirty'
    BY <1>2 DEF BehindIsDirty
<1>3. CASE ~dirty'
  <2>1. CASE ExtensionPrefix(Head(kbd)) \/ Modifier(Head(kbd))
      BY <1>1, <2>1 DEF ExtensionPrefix, Modifier, displayVars, BehindIsDirty
  <2>2. CASE ContentKey(Head(kbd))
      BY <1>3, <2>2 DEF ContentKey
  <2>3. \/ ExtensionPrefix(Head(kbd)) \/ Modifier(Head(kbd)) \/ ContentKey(Head(kbd))
      BY DEF DrainKey, ProcessScancode, Backspace, Enter, SwitchContext, TypeChar, NoCharacter
  <2> QED BY <2>1, <2>2, <2>3
<1> QED BY <1>2, <1>3

LEMMA StepFresh == FreshInv /\ TypeOK' /\ [Next]_vars => FreshInv'
<1> SUFFICES ASSUME FreshInv, TypeOK', [Next]_vars PROVE BehindIsDirty' /\ FreshAtHlt'
    BY DEF FreshInv
<1>1. /\ TypeOK /\ BehindIsDirty /\ FreshAtHlt
      /\ active_context \in {"TERMINAL", "GUI"} /\ screen \in {"TERMINAL", "GUI"}
      /\ dirty \in BOOLEAN /\ term_behind \in BOOLEAN
    BY DEF FreshInv, TypeOK, RouterTypeOK
<1> USE DEF BehindIsDirty, FreshAtHlt, displayVars, routerVars, loopVars
<1>2. CASE Cli \/ KeysDrained \/ Sti \/ EvalExit \/ Hlt
    BY <1>1, <1>2 DEF Cli, KeysDrained, Sti, EvalExit, Hlt
<1>3. CASE DrainKey
    BY <1>1, <1>3, DrainKeyFresh DEF DrainKey
<1>4. CASE DrainMove
    BY <1>1, <1>4 DEF DrainMove, ProcessMove
<1>5. CASE FetchLine
    BY <1>1, <1>5 DEF FetchLine
<1>6. CASE EvalCommand \/ EvalDisplay
    BY <1>1, <1>6 DEF EvalCommand, EvalDisplay
<1>7. CASE Prompt
    BY <1>1, <1>7 DEF Prompt, ShownUnlessGui, InTerminal
<1>8. CASE Refresh
    BY <1>1, <1>8 DEF Refresh, Flush, ShownUnlessGui, InTerminal
<1>9. CASE NothingToRefresh
    BY <1>1, <1>9 DEF NothingToRefresh, NoLine
<1>10. CASE Render \/ Exit
    BY <1>1, <1>10 DEF Render, Exit
<1>11. CASE Interrupt
    BY <1>1, <1>11 DEF Interrupt, KeyboardIrq, MouseIrq, TimerIrq, QueueKey, QueueMove, Woken
<1>12. CASE UNCHANGED vars
    BY <1>1, <1>12 DEF vars
<1> QED BY <1>2, <1>3, <1>4, <1>5, <1>6, <1>7, <1>8, <1>9, <1>10, <1>11, <1>12
        DEF Next, LoopStep

(* The processor never sleeps on terminal text the user cannot see,        *)
(* because text that is not shown is dirty and the loop tests that last.   *)
THEOREM Fresh == Spec => [](ScreenFreshAtHalt /\ BehindIsDirty)
<1>1. Init => FreshInv
    BY InitInv DEF LineInv, FreshInv, Points, Init, LoopInit, RouterInit, BehindIsDirty, FreshAtHlt
<1>2. LineInv => TypeOK
    BY DEF LineInv
<1>3. FreshInv => ScreenFreshAtHalt /\ BehindIsDirty
    BY DEF FreshInv, FreshAtHlt, ScreenFreshAtHalt
<1> QED BY <1>1, <1>2, <1>3, Safety, StepFresh, PTL DEF Spec

(* Keys typed into the GUI leave the terminal's line alone: every branch   *)
(* that edits it tests the context, and so does the loop before it takes   *)
(* the line.                                                               *)
THEOREM GuiKeys == Spec => GuiKeysStayOut
<1>1. ASSUME [Next]_vars, active_context = "GUI"
      PROVE  UNCHANGED lineVars
  <2> USE <1>1 DEF InTerminal, lineVars
  <2>1. CASE DrainKey
      BY <2>1 DEF DrainKey, ProcessScancode, ExtensionPrefix, Modifier, Backspace, Enter,
                  SwitchContext, TypeChar, NoCharacter
  <2>2. CASE Interrupt
      BY <2>2 DEF Interrupt, KeyboardIrq, MouseIrq, TimerIrq, QueueKey, QueueMove, routerVars, loopVars
  <2>3. CASE Cli \/ KeysDrained \/ Sti \/ EvalExit \/ NothingToRefresh \/ Hlt \/ DrainMove
      BY <2>3 DEF Cli, KeysDrained, Sti, EvalExit, NothingToRefresh, Hlt, DrainMove, ProcessMove,
                  routerVars
  <2>4. CASE FetchLine \/ EvalCommand \/ EvalDisplay \/ Prompt \/ Refresh \/ Render \/ Exit
      BY <2>4 DEF FetchLine, EvalCommand, EvalDisplay, Prompt, Refresh, Render, Exit
  <2>5. CASE UNCHANGED vars
      BY <2>5 DEF vars, routerVars
  <2> QED BY <2>1, <2>2, <2>3, <2>4, <2>5 DEF Next, LoopStep
<1>2. [Next]_vars => [active_context = "GUI" => UNCHANGED lineVars]_vars
    BY <1>1
<1> QED BY <1>2, PTL DEF Spec, GuiKeysStayOut

-----------------------------------------------------------------------------
(* The modifiers. *)

(* ModifiersBacked without its sets. *)
Down(c) == c \in keys_down \/ c + 128 \in keys_down

FlatBacked == /\ is_shift_active => Down(42) \/ Down(54)
              /\ is_ctrl_active => Down(29)
              /\ is_alt_active => Down(56)

LEMMA Flat == ModifiersBacked <=> FlatBacked
<1>1. \A c \in Nat : HeldBy(c) <=> Down(c)
    BY DEF HeldBy, Down
<1>2. \A c \in ShiftCodes : c \in Nat
    BY DEF ShiftCodes, LEFT_SHIFT_KEY_CODE, RIGHT_SHIFT_KEY_CODE
<1> QED BY <1>1, <1>2 DEF ModifiersBacked, FlatBacked, ShiftCodes, LEFT_SHIFT_KEY_CODE,
                          RIGHT_SHIFT_KEY_CODE, CTRL_KEY_CODE, ALT_KEY_CODE

LEMMA DrainKeyBacked ==
    ASSUME KeyTypes, FlatBacked, DrainKey
    PROVE  FlatBacked'
<1> USE DEF ShiftCodes, LEFT_SHIFT_KEY_CODE, RIGHT_SHIFT_KEY_CODE, CTRL_KEY_CODE, ALT_KEY_CODE,
            CAPS_LOCK_KEY_CODE, RELEASED_KEY, RELEASE_KEY_CODE
<1>1. PICK s : s = Head(kbd)
    OBVIOUS
<1>2. /\ s \in 0 .. 255
      /\ is_extended \in BOOLEAN /\ keys_down \subseteq 0 .. 255
    BY <1>1, TailOfQueue DEF DrainKey, ProcessScancode, KeyTypes
<1>3. \/ ExtensionPrefix(s)
      \/ Modifier(s)
      \/ ContentKey(s)
    BY <1>1 DEF DrainKey, ProcessScancode, Backspace, Enter, SwitchContext, TypeChar, NoCharacter
<1>4. CASE ExtensionPrefix(s)
    BY <1>4 DEF ExtensionPrefix, FlatBacked, Down, modifierVars
(* Letting go of another key, or pressing any, leaves a held key held. *)
<1>5. ASSUME TakeKey(s), NEW c \in {29, 42, 54, 56}, Down(c), s # c + 128
      PROVE  Down(c)'
  <2>1. CASE s < 128
      BY <1>2, <1>5, <2>1 DEF TakeKey, Down
  <2>2. CASE s >= 128
    <3>1. Index(s) \notin {c, c + 128}
      <4>1. CASE is_extended
          BY <1>2, <1>5, <2>2, <4>1 DEF Index
      <4>2. CASE ~is_extended
          BY <1>2, <1>5, <2>2, <4>2 DEF Index
      <4> QED BY <4>1, <4>2
    <3> QED BY <1>5, <2>2, <3>1 DEF TakeKey, Down
  <2> QED BY <1>2, <2>1, <2>2
(* A pressed modifier is held, whichever key it is. *)
<1>8. ASSUME TakeKey(s), s \in {29, 42, 54, 56}
      PROVE  Down(s)'
  <2>1. Index(s) \in {s, s + 128}
    <3>1. CASE is_extended
        BY <1>8, <3>1 DEF Index
    <3>2. CASE ~is_extended
        BY <1>8, <3>2 DEF Index
    <3> QED BY <3>1, <3>2
  <2>2. Index(s) \in keys_down'
      BY <1>8 DEF TakeKey
  <2> QED BY <2>1, <2>2 DEF Down
<1>6. CASE ContentKey(s)
  <2>1. TakeKey(s) /\ s \notin {42, 54, 29, 56, 170, 182, 157, 184} /\ UNCHANGED modifierVars
      BY <1>6 DEF ContentKey, ModifierCodes
  <2> QED BY <1>5, <2>1 DEF FlatBacked, modifierVars
<1>7. CASE Modifier(s)
  <2>1. TakeKey(s)
      BY <1>7 DEF Modifier
  <2>2. CASE CapsLock(s)
      BY <1>5, <2>1, <2>2 DEF CapsLock, FlatBacked
  <2>3. CASE Shift(s)
    <3>1. CASE s \in {42, 54}
        BY <1>5, <1>8, <2>1, <2>3, <3>1 DEF Shift, FlatBacked
    <3>2. CASE s \in {170, 182}
      <4>1. s \notin ShiftCodes
          BY <3>2
      <4>2. ~is_shift_active' /\ UNCHANGED <<is_ctrl_active, is_alt_active>>
          BY <2>3, <4>1, Zenon DEF Shift
      <4> QED BY <1>5, <2>1, <3>2, <4>2 DEF FlatBacked
    <3> QED BY <2>3, <3>1, <3>2 DEF Shift
  <2>4. CASE Ctrl(s)
    <3>1. s \in {29, 157}
        BY <2>4 DEF Ctrl
    <3>2. (is_ctrl_active' => s = 29) /\ UNCHANGED <<is_shift_active, is_alt_active>>
        BY <2>4, Zenon DEF Ctrl
    <3> QED BY <1>5, <1>8, <2>1, <3>1, <3>2 DEF FlatBacked
  <2>5. CASE Alt(s)
    <3>1. s \in {56, 184}
        BY <2>5 DEF Alt
    <3>2. (is_alt_active' => s = 56) /\ UNCHANGED <<is_shift_active, is_ctrl_active>>
        BY <2>5, Zenon DEF Alt
    <3> QED BY <1>5, <1>8, <2>1, <3>1, <3>2 DEF FlatBacked
  <2> QED BY <1>7, <2>2, <2>3, <2>4, <2>5 DEF Modifier
<1> QED BY <1>3, <1>4, <1>6, <1>7

LEMMA DrainKeyTypes == KeyTypes /\ DrainKey => KeyTypes'
<1> SUFFICES ASSUME KeyTypes, DrainKey PROVE KeyTypes'
    OBVIOUS
<1>1. kbd # <<>>
    BY DEF DrainKey, ProcessScancode
<1>2. line_ready' \in BOOLEAN
    BY DEF DrainKey, ProcessScancode, ExtensionPrefix, Modifier, Backspace, Enter, SwitchContext,
           TypeChar, NoCharacter, lineVars, KeyTypes
<1>3. CASE ExtensionPrefix(Head(kbd))
    BY <1>1, <1>2, <1>3, TailOfQueue DEF ExtensionPrefix, KeyTypes
<1>4. CASE TakeKey(Head(kbd))
    BY <1>1, <1>2, <1>4, TakeKeyType DEF KeyTypes
<1>5. ExtensionPrefix(Head(kbd)) \/ TakeKey(Head(kbd))
    BY DEF DrainKey, ProcessScancode, Modifier, Backspace, Enter, SwitchContext, TypeChar,
           NoCharacter, ContentKey
<1> QED BY <1>3, <1>4, <1>5

KeysBacked == KeyTypes /\ FlatBacked

LEMMA InitBacked == LoopInit => KeysBacked
<1> SUFFICES ASSUME LoopInit PROVE KeyTypes /\ FlatBacked
    BY DEF KeysBacked
<1>1. FlatBacked
    BY DEF LoopInit, RouterInit, FlatBacked
<1>2. kbd \in Seq(Scancodes) /\ is_extended = FALSE /\ keys_down = {} /\ line_ready = FALSE
    BY DEF LoopInit, RouterInit
<1> QED BY <1>1, <1>2 DEF KeyTypes

LEMMA SharedBacked == KeysBacked /\ Shared => KeysBacked'
<1> SUFFICES ASSUME KeyTypes, FlatBacked, Shared PROVE KeyTypes' /\ FlatBacked'
    BY DEF KeysBacked
<1>1. CASE DrainKey
    BY <1>1, DrainKeyBacked, DrainKeyTypes
<1>2. CASE \E s \in Scancodes : KeyboardIrq(s)
  <2>1. PICK s \in Scancodes : KeyboardIrq(s)
      BY <1>2
  <2>2. UNCHANGED <<is_extended, keys_down, modifierVars, lineVars>> /\ kbd' \in {kbd, Append(kbd, s)}
      BY <2>1 DEF KeyboardIrq, QueueKey, Pushed
  <2>3. Append(kbd, s) \in Seq(Scancodes)
      BY DEF KeyTypes
  <2> QED BY <2>2, <2>3 DEF KeyTypes, FlatBacked, Down, modifierVars, lineVars
<1>3. CASE UNCHANGED <<keyVars, modifierVars, lineVars>>
    BY <1>3 DEF KeyTypes, FlatBacked, Down, keyVars, modifierVars, lineVars
<1>4. DrainKey \/ (\E s \in Scancodes : KeyboardIrq(s)) \/ UNCHANGED <<keyVars, modifierVars, lineVars>>
    BY DEF Shared, KeysDrained, DrainMove, ProcessMove, Interrupt, MouseIrq, TimerIrq, QueueMove,
           vars, routerVars
<1> QED BY <1>1, <1>2, <1>3, <1>4

LEMMA QuietBacked ==
    ASSUME KeysBacked, UNCHANGED <<keyVars, modifierVars>>, line_ready' \in BOOLEAN
    PROVE  KeysBacked'
BY DEF KeysBacked, KeyTypes, FlatBacked, Down, keyVars, modifierVars

(* Every modifier the router believes held is backed by a key of its own   *)
(* kind: no order of left and right keys, prefixes and releases leaves one *)
(* behind.  This, CallBacked and SleepsOnNothing hold for lines of any     *)
(* length, those that run past input_buffer included (what a store past   *)
(* the buffer damages is not modelled: Router drops it).                   *)
THEOREM Backed == Spec => []ModifiersBacked
<1>1. Init => KeysBacked
    BY InitBacked DEF Init
<1>2. ASSUME KeysBacked, [Next]_vars
      PROVE  KeysBacked'
  <2>1. Shared \/ (UNCHANGED <<keyVars, modifierVars>> /\ line_ready' \in {line_ready, FALSE})
      BY <1>2 DEF Next, LoopStep, Shared, Cli, Sti, EvalExit, NothingToRefresh, Hlt, FetchLine,
                  TakeLine, EvalCommand, EvalDisplay, Prompt, Refresh, Render, Exit, routerVars, lineVars
  <2>2. line_ready \in BOOLEAN
      BY <1>2 DEF KeysBacked, KeyTypes
  <2> QED BY <1>2, <2>1, <2>2, SharedBacked, QuietBacked
<1>3. KeysBacked => ModifiersBacked
    BY Flat DEF KeysBacked
<1> QED BY <1>1, <1>2, <1>3, PTL DEF Spec

LEMMA CallKeysBacked == CallSpec => []KeysBacked
<1>1. CallInit => KeysBacked
    BY InitBacked DEF CallInit
<1>2. ASSUME KeysBacked, [CallNext]_vars
      PROVE  KeysBacked'
  <2>1. Shared \/ (UNCHANGED <<keyVars, modifierVars>> /\ line_ready' \in {line_ready, FALSE})
      BY <1>2 DEF CallNext, CallStep, Shared, Call, Test, Sleep, GoOn, Return, TakeLine, routerVars,
                  lineVars
  <2>2. line_ready \in BOOLEAN
      BY <1>2 DEF KeysBacked, KeyTypes
  <2> QED BY <1>2, <2>1, <2>2, SharedBacked, QuietBacked
<1> QED BY <1>1, <1>2, PTL DEF CallSpec

(* The same while get_line is called again and again, and between calls.   *)
THEOREM CallBacked == CallSpec => []ModifiersBacked
<1>1. KeysBacked => ModifiersBacked
    BY Flat DEF KeysBacked
<1> QED BY <1>1, CallKeysBacked, PTL

-----------------------------------------------------------------------------
(* Lines that fit input_buffer.  The code does not see to it that they do  *)
(* (run get_line_limit): that TypingBound is no larger than the buffer is  *)
(* an assumption, TypingAssumption, and what follows up to get_line rests  *)
(* on it.                                                                  *)

(* The line with the scancodes still queued: every store is inside. *)
InputFits == to_input_index + Len(kbd) <= LINE_BUFFER_SIZE

LEMMA DrainKeyFits == LineInv /\ InputFits /\ DrainKey => InputFits'
<1> SUFFICES ASSUME LineInv, InputFits, DrainKey PROVE InputFits'
    OBVIOUS
<1>1. kbd # <<>> /\ to_input_index \in Nat
    BY DEF DrainKey, ProcessScancode, LineInv, TypeOK, RouterTypeOK
<1>2. kbd' = Tail(kbd)
    BY DEF DrainKey, ProcessScancode, ExtensionPrefix, Modifier, Backspace, Enter, SwitchContext,
           TypeChar, NoCharacter, ContentKey, TakeKey
<1>3. Len(kbd') = Len(kbd) - 1 /\ Len(kbd) \in Nat \ {0}
    BY <1>1, <1>2, TailOfQueue DEF LineInv, TypeOK, RouterTypeOK
<1>4. to_input_index' \in {to_input_index, to_input_index - 1, to_input_index + 1}
    BY DEF DrainKey, ProcessScancode, ExtensionPrefix, Modifier, Backspace, Enter, SwitchContext,
           TypeChar, NoCharacter, NextIndex, lineVars
<1> QED BY <1>1, <1>3, <1>4 DEF InputFits

LEMMA KeyboardFits ==
    ASSUME LineInv, InputFits, NEW s \in Scancodes, KeyboardIrq(s)
    PROVE  InputFits'
<1>1. kbd \in Seq(Scancodes) /\ to_input_index \in Nat
    BY DEF LineInv, TypeOK, RouterTypeOK
<1>2. to_input_index' = to_input_index /\ kbd' \in {kbd, Append(kbd, s)} /\ TypingRoom
    BY DEF KeyboardIrq, QueueKey, Pushed, lineVars
<1>3. Len(Append(kbd, s)) = Len(kbd) + 1 /\ Len(kbd) \in Nat
    BY <1>1
<1> QED BY <1>1, <1>2, <1>3, TypingAssumption DEF TypingAssumption, TypingRoom, InputFits

LEMMA SharedFits == LineInv /\ InputFits /\ Shared => InputFits'
<1> SUFFICES ASSUME LineInv, InputFits, Shared PROVE InputFits'
    OBVIOUS
<1>1. CASE DrainKey
    BY <1>1, DrainKeyFits
<1>2. CASE \E s \in Scancodes : KeyboardIrq(s)
    BY <1>2, KeyboardFits
<1>3. CASE UNCHANGED <<kbd, to_input_index>>
    BY <1>3 DEF InputFits
<1> QED BY <1>1, <1>2, <1>3
        DEF Shared, KeysDrained, DrainMove, ProcessMove, Interrupt, MouseIrq, TimerIrq, QueueMove,
            vars, routerVars, keyVars, lineVars

(* Taking the line away makes room. *)
LEMMA TakingFits == LineInv /\ InputFits /\ TakeLine /\ kbd' = kbd => InputFits'
BY DEF LineInv, TypeOK, RouterTypeOK, TakeLine, InputFits

LEMMA InitFits == LoopInit => InputFits
BY DEF LoopInit, RouterInit, InputFits

LEMMA Fits == Spec => []InputFits
<1>1. Init => InputFits
    BY InitFits DEF Init
<1>2. ASSUME LineInv, InputFits, [Next]_vars
      PROVE  InputFits'
  <2>1. CASE Shared
      BY <1>2, <2>1, SharedFits
  <2>2. CASE FetchLine
      BY <1>2, <2>2, TakingFits DEF FetchLine, keyVars
  <2>3. CASE UNCHANGED <<kbd, to_input_index>>
      BY <1>2, <2>3 DEF InputFits
  <2> QED BY <1>2, <2>1, <2>2, <2>3
          DEF Next, LoopStep, Shared, Cli, Sti, EvalExit, NothingToRefresh, Hlt, EvalCommand,
              EvalDisplay, Prompt, Refresh, Render, Exit, routerVars, keyVars, lineVars
<1> QED BY <1>1, <1>2, Safety, PTL DEF Spec

LEMMA CallFits == CallSpec => []InputFits
<1>1. CallInit => InputFits
    BY InitFits DEF CallInit
<1>2. ASSUME LineInv, InputFits, [CallNext]_vars
      PROVE  InputFits'
  <2>1. CASE Shared
      BY <1>2, <2>1, SharedFits
  <2>2. CASE Return
      BY <1>2, <2>2, TakingFits DEF Return, keyVars
  <2>3. CASE UNCHANGED <<kbd, to_input_index>>
      BY <1>2, <2>3 DEF InputFits
  <2> QED BY <1>2, <2>1, <2>2, <2>3
          DEF CallNext, CallStep, Shared, Call, Test, Sleep, GoOn, routerVars, keyVars, lineVars
<1> QED BY <1>1, <1>2, CallSafety, PTL DEF CallSpec

(* A scancode that waits has a cell. *)
LEMMA RoomForKey ==
    ASSUME LineInv, InputFits, kbd # <<>>
    PROVE  /\ to_input_index \in 0 .. LINE_BUFFER_SIZE - 1
           /\ input_buffer \in [0 .. LINE_BUFFER_SIZE - 1 -> Char \cup {Nul}]
<1>1. Len(kbd) \in Nat \ {0}
    BY TailOfQueue DEF LineInv, TypeOK, RouterTypeOK
<1> QED BY <1>1 DEF LineInv, InputFits, TypeOK, RouterTypeOK

(* The line as LineEditor sees it. *)

Text == Char \cup {Nul}

LEMMA LineIsSeq ==
    ASSUME input_buffer \in [0 .. LINE_BUFFER_SIZE - 1 -> Text],
           to_input_index \in 0 .. LINE_BUFFER_SIZE
    PROVE  /\ Line \in Seq(Text)
           /\ Len(Line) = to_input_index
           /\ \A i \in 1 .. to_input_index : Line[i] = input_buffer[i - 1]
<1>1. Line \in [1 .. to_input_index -> Text]
    BY DEF Line
<1>2. Line \in Seq(Text)
    BY <1>1, SeqDef
<1>3. Len(Line) = to_input_index
    BY <1>1, <1>2, LenProperties
<1> QED BY <1>2, <1>3 DEF Line

(* A beginning of the line, as a function and as a subsequence. *)
LEMMA PrefixOfLine ==
    ASSUME input_buffer \in [0 .. LINE_BUFFER_SIZE - 1 -> Text],
           to_input_index \in 0 .. LINE_BUFFER_SIZE,
           NEW k \in 0 .. to_input_index
    PROVE  SubSeq(Line, 1, k) = [i \in 1 .. k |-> input_buffer[i - 1]]
<1> DEFINE f == [i \in 1 .. k |-> input_buffer[i - 1]]
<1>1. f \in [1 .. k -> Text]
    OBVIOUS
<1>2. f \in Seq(Text) /\ Len(f) = k
    BY <1>1, SeqDef, LenProperties
<1>3. \A i \in 1 .. k : Line[i] \in Text /\ Line[i] = f[i]
    BY LineIsSeq
<1>4. /\ SubSeq(Line, 1, k) \in Seq(Text)
      /\ Len(SubSeq(Line, 1, k)) = k
      /\ \A i \in 1 .. k : SubSeq(Line, 1, k)[i] = Line[i]
    BY <1>3, SubSeqProperties
<1> HIDE DEF f
<1>5. SubSeq(Line, 1, k) = f
    BY <1>2, <1>3, <1>4, SeqEqual
<1> QED BY <1>5 DEF f

LEMMA TypingInserts ==
    ASSUME LineInv, InputFits, kbd # <<>>, TypeChar(Head(kbd)), InTerminal, UNCHANGED delivered
    PROVE  Editor!Insert(determine_case(Index(Head(kbd))))
           /\ determine_case(Index(Head(kbd))) \in Char
<1>1. PICK c : c = determine_case(Index(Head(kbd)))
    OBVIOUS
<1>2. c \in Char
    BY <1>1, CaseIsChar DEF TypeChar, Types, LineInv, TypeOK, RouterTypeOK
<1>3. /\ to_input_index \in 0 .. LINE_BUFFER_SIZE - 1
      /\ input_buffer \in [0 .. LINE_BUFFER_SIZE - 1 -> Text]
    BY RoomForKey DEF Text
<1>4. /\ to_input_index' = to_input_index + 1
      /\ input_buffer' = [input_buffer EXCEPT ![to_input_index] = c]
      /\ UNCHANGED line_ready
    BY <1>1 DEF TypeChar, NextIndex, Store
<1>5. PICK l : l = Line
    OBVIOUS
<1>6. l \in Seq(Text) /\ Len(l) = to_input_index
        /\ \A i \in 1 .. to_input_index : l[i] = input_buffer[i - 1]
    BY <1>3, <1>5, LineIsSeq
<1>7. PICK m : m = Line'
    OBVIOUS
<1>8. m = [i \in 1 .. to_input_index + 1 |-> [input_buffer EXCEPT ![to_input_index] = c][i - 1]]
    BY <1>4, <1>7 DEF Line
<1>9. m \in [1 .. to_input_index + 1 -> Text]
    BY <1>2, <1>3, <1>8 DEF Text
<1>10. m \in Seq(Text) /\ Len(m) = to_input_index + 1
    BY <1>3, <1>9, SeqDef, LenProperties
<1>11. \A i \in 1 .. to_input_index + 1 :
           m[i] = IF i = to_input_index + 1 THEN c ELSE l[i]
    BY <1>3, <1>6, <1>8
<1>12. Append(l, c) \in Seq(Text) /\ Len(Append(l, c)) = to_input_index + 1
         /\ \A i \in 1 .. to_input_index + 1 :
                Append(l, c)[i] = IF i = to_input_index + 1 THEN c ELSE l[i]
    BY <1>2, <1>3, <1>6, AppendProperties DEF Text
<1>13. m = Append(l, c)
    BY <1>10, <1>11, <1>12, SeqEqual
<1> QED BY <1>1, <1>2, <1>4, <1>5, <1>7, <1>13 DEF Editor!Insert

LEMMA BackspaceErases ==
    ASSUME LineInv, InputFits, kbd # <<>>, Backspace(Head(kbd)), InTerminal, to_input_index # 0,
           UNCHANGED delivered
    PROVE  Editor!Erase
<1>1. /\ to_input_index \in 1 .. LINE_BUFFER_SIZE - 1
      /\ input_buffer \in [0 .. LINE_BUFFER_SIZE - 1 -> Text]
    BY RoomForKey DEF Text
<1>2. /\ to_input_index' = to_input_index - 1
      /\ input_buffer' = [input_buffer EXCEPT ![to_input_index - 1] = Nul]
      /\ UNCHANGED line_ready
    BY DEF Backspace, Erased, Store
<1>3. Len(Line) = to_input_index /\ Line # <<>>
    BY <1>1, LineIsSeq, EmptySeq
<1>4. Line' = [i \in 1 .. to_input_index - 1 |-> input_buffer[i - 1]]
  <2>1. \A i \in 1 .. to_input_index - 1 : input_buffer'[i - 1] = input_buffer[i - 1]
      BY <1>1, <1>2
  <2> QED BY <1>2, <2>1 DEF Line
<1>5. Line' = SubSeq(Line, 1, Len(Line) - 1)
  <2>1. PICK k \in 0 .. to_input_index : k = to_input_index - 1
      BY <1>1
  <2>2. SubSeq(Line, 1, k) = [i \in 1 .. k |-> input_buffer[i - 1]]
      BY <1>1, PrefixOfLine
  <2> QED BY <1>3, <1>4, <2>1, <2>2
<1> QED BY <1>2, <1>3, <1>5 DEF Editor!Erase

LEMMA EnterSubmits ==
    ASSUME LineInv, InputFits, kbd # <<>>, Enter(Head(kbd)), InTerminal, UNCHANGED delivered
    PROVE  Editor!Submit
<1>1. input_buffer' = input_buffer
  <2>1. input_buffer[to_input_index] = Nul
      BY RoomForKey DEF LineInv, NulAfterLine
  <2> QED BY <2>1, RoomForKey DEF Enter, Store
<1> QED BY <1>1 DEF Enter, Line, Editor!Submit

LEMMA TakingTakes ==
    ASSUME LineInv, InputFits, line_ready, TakeLine, delivered' = Copied
    PROVE  Editor!Take
<1>1. /\ to_input_index \in 0 .. LINE_BUFFER_SIZE
      /\ input_buffer \in [0 .. LINE_BUFFER_SIZE - 1 -> Text]
    BY DEF LineInv, InputFits, TypeOK, RouterTypeOK, Text
<1>2. CopyLen \in 0 .. to_input_index
    BY <1>1 DEF CopyLen
<1>3. delivered' = SubSeq(Line, 1, CopyLen)
    BY <1>1, <1>2, PrefixOfLine DEF Copied
<1>4. delivered' = Editor!Cut(Line)
    BY <1>1, <1>3, LineIsSeq DEF CopyLen, Editor!Cut
<1>5. Line' = <<>>
    BY DEF TakeLine, Line
<1> QED BY <1>4, <1>5 DEF TakeLine, Editor!Take

(* The steps the editor does not see. *)
LEMMA Unseen == UNCHANGED <<lineVars, delivered>> => UNCHANGED Editor!editorVars
BY DEF lineVars, Line, Editor!editorVars

LEMMA DrainKeyEdits ==
    ASSUME LineInv, InputFits, DrainKey
    PROVE  [Editor!EditorNext]_(Editor!editorVars)
<1>1. kbd # <<>> /\ UNCHANGED delivered
    BY DEF DrainKey, ProcessScancode, loopVars
<1>2. PICK s : s = Head(kbd)
    OBVIOUS
<1>3. CASE TypeChar(s) /\ InTerminal
    BY <1>1, <1>2, <1>3, TypingInserts DEF Editor!EditorNext
<1>4. CASE Backspace(s) /\ InTerminal /\ to_input_index # 0
    BY <1>1, <1>2, <1>4, BackspaceErases DEF Editor!EditorNext
<1>5. CASE Enter(s) /\ InTerminal
    BY <1>1, <1>2, <1>5, EnterSubmits DEF Editor!EditorNext
<1>6. CASE /\ ~(TypeChar(s) /\ InTerminal) /\ ~(Enter(s) /\ InTerminal)
           /\ ~(Backspace(s) /\ InTerminal /\ to_input_index # 0)
  <2>1. \/ ExtensionPrefix(s) \/ Modifier(s) \/ Backspace(s) \/ Enter(s)
        \/ SwitchContext(s) \/ TypeChar(s) \/ NoCharacter(s)
      BY <1>2 DEF DrainKey, ProcessScancode
  <2>2. UNCHANGED lineVars
      BY <1>6, <2>1 DEF ExtensionPrefix, Modifier, Backspace, Enter, SwitchContext, TypeChar,
                        NoCharacter, lineVars
  <2> QED BY <1>1, <2>2, Unseen
<1> QED BY <1>3, <1>4, <1>5, <1>6

Edits == [Editor!EditorNext]_(Editor!editorVars)

LEMMA SharedEdits == LineInv /\ InputFits /\ Shared => Edits
<1> SUFFICES ASSUME LineInv, InputFits, Shared PROVE Edits
    OBVIOUS
<1>1. CASE DrainKey
    BY <1>1, DrainKeyEdits DEF Edits
<1>2. CASE UNCHANGED <<lineVars, delivered>>
    BY <1>2, Unseen DEF Edits
<1>3. DrainKey \/ UNCHANGED <<lineVars, delivered>>
    BY DEF Shared, KeysDrained, DrainMove, ProcessMove, Interrupt, KeyboardIrq, MouseIrq, TimerIrq,
           QueueKey, QueueMove, vars, routerVars, loopVars
<1> QED BY <1>1, <1>2, <1>3

LEMMA InitEdits == LoopInit => Editor!EditorInit
BY DEF LoopInit, RouterInit, Line, Editor!EditorInit

(* The router, the interrupts and the loop implement LineEditor, for lines *)
(* that fit input_buffer: whatever the interleaving, each delivered line   *)
(* is what was typed and not erased since the line before it was taken,    *)
(* cut to the room there is.                                               *)
THEOREM Refinement == Spec => EditorSpec
<1>1. Init => Editor!EditorInit
    BY InitEdits DEF Init
<1>2. LineInv /\ InputFits /\ [Next]_vars => [Editor!EditorNext]_(Editor!editorVars)
  <2> SUFFICES ASSUME LineInv, InputFits, [Next]_vars PROVE Edits
      BY DEF Edits
  <2>1. CASE Shared
      BY <2>1, SharedEdits
  <2>2. CASE FetchLine
      BY <2>2, TakingTakes DEF FetchLine, Edits, Editor!EditorNext
  <2>3. CASE UNCHANGED <<lineVars, delivered>>
      BY <2>3, Unseen DEF Edits
  <2>4. Shared \/ FetchLine \/ UNCHANGED <<lineVars, delivered>>
      BY DEF Next, LoopStep, Shared, Cli, Sti, EvalExit, NothingToRefresh, Hlt, EvalCommand,
             EvalDisplay, Prompt, Refresh, Render, Exit, routerVars, loopVars
  <2> QED BY <2>1, <2>2, <2>3, <2>4
<1> QED BY <1>1, <1>2, Safety, Fits, PTL DEF Spec, EditorSpec, Editor!EditorSpec

-----------------------------------------------------------------------------
(* get_line. *)

(* The keys are drained before the moves, with interrupts off: behind the  *)
(* first drain no key waits.  And what the call is about to copy is a      *)
(* completed line: nothing but the copy takes it away again.               *)
CallInv == /\ pc = "mouse" => kbd = <<>>
           /\ pc = "copy" => line_ready = TRUE
           /\ NeverSleepsOnInput

LEMMA StepCallInv == KeysBacked /\ CallInv /\ [CallNext]_vars => CallInv'
<1> SUFFICES ASSUME KeysBacked, CallInv, [CallNext]_vars PROVE CallInv'
    OBVIOUS
<1>0. line_ready \in BOOLEAN
    BY DEF KeysBacked, KeyTypes
<1> USE <1>0 DEF CallInv, NeverSleepsOnInput, routerVars, keyVars, lineVars
<1>1. ASSUME NEW s \in Scancodes, KeyboardIrq(s) PROVE CallInv'
    BY <1>1 DEF KeyboardIrq, QueueKey, InterruptsOff, Woken
<1>2. CASE MouseIrq
    BY <1>2 DEF MouseIrq, QueueMove, InterruptsOff, Woken
<1>3. CASE TimerIrq
    BY <1>3 DEF TimerIrq, Woken
<1>4. CASE Call \/ Test
    BY <1>4 DEF Call, Test
<1>5. CASE DrainKey
    BY <1>5 DEF DrainKey
<1>6. CASE KeysDrained
    BY <1>6 DEF KeysDrained
<1>7. CASE DrainMove
  <2>1. pc = "mouse" /\ pc' = pc /\ kbd' = kbd
      BY <1>7 DEF DrainMove, ProcessMove
  <2> QED BY <2>1
<1>8. CASE Sleep
  <2>1. kbd' = kbd /\ moves' = moves /\ line_ready' = line_ready /\ pc' = "halted"
      BY <1>8 DEF Sleep
  <2>2. pc = "mouse" /\ moves = 0 /\ ~ line_ready
      BY <1>8 DEF Sleep
  <2> QED BY <2>1, <2>2
<1>9. CASE GoOn \/ Return
    BY <1>9 DEF GoOn, Return
<1>10. CASE UNCHANGED vars
    BY <1>10 DEF vars
<1> QED BY <1>1, <1>2, <1>3, <1>4, <1>5, <1>6, <1>7, <1>8, <1>9, <1>10
        DEF CallNext, CallStep, Interrupt

LEMMA CallInvHolds == CallSpec => []CallInv
<1>1. CallInit => CallInv
    BY DEF CallInit, CallInv, NeverSleepsOnInput
<1> QED BY <1>1, CallKeysBacked, StepCallInv, PTL DEF CallSpec

(* However interrupts fall between the drains, the test of line_ready and  *)
(* the hlt, get_line never sleeps on a scancode, a movement or a line that *)
(* is already there.                                                       *)
THEOREM SleepsOnNothing == CallSpec => []NeverSleepsOnInput
<1>1. CallInv => NeverSleepsOnInput
    BY DEF CallInv
<1> QED BY <1>1, CallInvHolds, PTL

(* Each line that get_line returns, in whatever display the user is by     *)
(* then, is what was typed and not erased since the line before it, cut to *)
(* the caller's room: what is typed between the calls is not lost.  Again  *)
(* for lines that fit input_buffer.                                        *)
THEOREM CallRefinement == CallSpec => EditorSpec
<1>1. CallInit => Editor!EditorInit
    BY InitEdits DEF CallInit
<1>2. LineInv /\ InputFits /\ CallInv /\ [CallNext]_vars => [Editor!EditorNext]_(Editor!editorVars)
  <2> SUFFICES ASSUME LineInv, InputFits, CallInv, [CallNext]_vars PROVE Edits
      BY DEF Edits
  <2>1. CASE Shared
      BY <2>1, SharedEdits
  <2>2. CASE Return
    <3>1. line_ready
        BY <2>2 DEF Return, CallInv
    <3> QED BY <2>2, <3>1, TakingTakes DEF Return, Edits, Editor!EditorNext
  <2>3. CASE UNCHANGED <<lineVars, delivered>>
      BY <2>3, Unseen DEF Edits
  <2>4. Shared \/ Return \/ UNCHANGED <<lineVars, delivered>>
      BY DEF CallNext, CallStep, Shared, Call, Test, Sleep, GoOn, routerVars, loopVars
  <2> QED BY <2>1, <2>2, <2>3, <2>4
<1> QED BY <1>1, <1>2, CallSafety, CallFits, CallInvHolds, PTL DEF CallSpec, EditorSpec, Editor!EditorSpec
=============================================================================
