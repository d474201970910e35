--------------------------- MODULE TerminalWindow ---------------------------
(***************************************************************************)
(* A terminal window (src/gui/TerminalWindow.cpp): a window with a prompt, *)
(* whose Enter runs the command on the cursor's row and prints what the    *)
(* shell answers and the next prompt.  Printing goes one inject_key at a   *)
(* time; no key comes in the middle of it, for the loop that injects keys  *)
(* is the one that prints.  A plain window (main's others) takes the same  *)
(* keys, without a prompt or a shell.                                      *)
(***************************************************************************)
EXTENDS TextGrid, Lines, SequencesExt

CONSTANTS MAX_ARGS, MAX_WORD,   \* the room eval_user_input has for words
          Prompt,       \* prompt, prompt_len characters
          Answers,      \* what a command may print
          LF,           \* '\n'
          MaxTyped      \* bound on what is typed between two prompts

PromptLen == Len(Prompt)

(* The prompt fits its row.  A command of the shell prints nothing, or     *)
(* text that ends in a line feed.                                          *)
ASSUME PromptAssumption == Prompt \in Seq(Chars) /\ PromptLen < Cols
ASSUME AnswersAssumption == \A text \in Answers : /\ text \in Seq(Chars \cup {LF})
                                                  /\ text = <<>> \/ Last(text) = LF
ASSUME RoomAssumption == MAX_ARGS \in Nat \ {0} /\ MAX_WORD \in Nat \ {0}
ASSUME LineFeedAssumption == LF \notin Chars \cup {Nul}

VARIABLES terminal,      \* TRUE of a TerminalWindow, FALSE of a plain Window
          pending,       \* what is still to be printed
          typed,         \* what the user typed since the prompt and did not erase
          should_close

termVars == <<gridVars, terminal, pending, typed, should_close>>

TermInit == /\ GridInit
            /\ terminal \in BOOLEAN
            /\ pending = IF terminal THEN Prompt ELSE <<>>
            /\ typed = <<>>
            /\ should_close = FALSE

PrintPending == /\ pending # <<>>
                /\ IF Head(pending) = LF THEN NewLine ELSE Put(Head(pending))
                /\ pending' = Tail(pending)
                /\ UNCHANGED <<terminal, typed, should_close>>

TypeKey(c) == /\ pending = <<>>
              /\ Len(typed) < MaxTyped
              /\ Put(c)
              /\ typed' = Append(typed, c)
              /\ UNCHANGED <<terminal, pending, should_close>>

BackspaceAllowed == terminal => cursor_x > PromptLen

BackspaceKey == /\ pending = <<>>
                /\ BackspaceAllowed
                /\ Backspace
                /\ typed' = IF typed = <<>> THEN typed ELSE Front(typed)
                /\ UNCHANGED <<terminal, pending, should_close>>

(* strncpy from the cell after the prompt: up to a NUL or the row's end.   *)
CommandWhole == [i \in 1 .. RowLength(cursor_y) |-> text_grid[At(cursor_y, i - 1)]]
Command == [i \in 1 .. TextEnd(cursor_y, PromptLen) - PromptLen |->
              text_grid[At(cursor_y, PromptLen + i - 1)]]

EnterKey == /\ terminal
            /\ pending = <<>>
            /\ NewLine
            /\ typed' = <<>>
            /\ \E text \in Answers : pending' = text \o Prompt
            /\ UNCHANGED <<terminal, should_close>>

(* A command that answers TRUE closes the window instead. *)
EnterExit == /\ terminal
             /\ pending = <<>>
             /\ NewLine
             /\ typed' = <<>>
             /\ should_close' = TRUE
             /\ UNCHANGED <<terminal, pending>>

EnterPlain == /\ ~terminal
              /\ NewLine
              /\ typed' = <<>>
              /\ UNCHANGED <<terminal, pending, should_close>>

TermNext == \/ PrintPending
            \/ \E c \in Chars : TypeKey(c)
            \/ BackspaceKey
            \/ EnterKey
            \/ EnterExit
            \/ EnterPlain

TermSpec == TermInit /\ [][TermNext]_termVars

Shell == INSTANCE CommandLine WITH Space <- Blank

-----------------------------------------------------------------------------
(* Types of the variables. *)
TermTypeOK == /\ TypeOK
              /\ pending \in Seq(Chars \cup {LF})
              /\ typed \in Seq(Chars)
              /\ terminal \in BOOLEAN
              /\ should_close \in BOOLEAN

(* Types, and a cell for the next character. *)
TermInv == TermTypeOK /\ CursorOnGrid

(* In a terminal nothing shows behind the cursor, so text is never written *)
(* over: what backspace walks back over is gone, and a scroll brings up an *)
(* empty row.                                                              *)
NothingBehindCursor ==
    terminal => \A i \in Cells : i > At(cursor_y, cursor_x) => text_grid[i] \in {Blank, Nul}

(* Enter gives the shell, as its command and arguments, the words typed    *)
(* since the prompt and not erased, as long as they stayed on the prompt's *)
(* row, and as far as the shell has room for them.                         *)
EnterReadsTyped ==
    terminal /\ pending = <<>> /\ cursor_x = PromptLen + Len(typed) =>
        Shell!Args(Command) = Shell!Words(typed)

(* A terminal shows the last rows of all that was printed and typed: the   *)
(* rows down to the cursor's, which is open at the cursor.  A plain window *)
(* promises no page.                                                       *)
RowText(row, length) == [i \in 1 .. length |-> text_grid[At(row, i - 1)]]

PageNow == IF ~terminal THEN <<<<>>>> ELSE
             [i \in 1 .. cursor_y + 1 |->
                IF i = cursor_y + 1
                THEN RowText(cursor_y, cursor_x)
                ELSE Trimmed(RowText(i - 1, RowLength(i - 1)), Blank)]

Shown == INSTANCE Page WITH lines <- PageNow

(* Keys and the shell's answers do to that page what Page says. *)
PageSpec == Shown!Spec
=============================================================================
