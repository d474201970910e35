----------------------------- MODULE LineEditor -----------------------------
(***************************************************************************)
(* What the shell may rely on when the kernel edits a line for it          *)
(* (src/drivers/input/input.cpp): characters are added and erased at the   *)
(* end, Enter completes the line, and taking a completed line delivers     *)
(* what is in it and starts an empty one.  Characters typed between Enter  *)
(* and the taking are part of the line.                                    *)
(***************************************************************************)
EXTENDS Naturals, Sequences

CONSTANTS Chars,     \* what can be typed
          MaxLine    \* room for a line, the terminating NUL included

VARIABLES line,      \* the characters typed
          ready,     \* Enter was pressed
          delivered  \* the last line taken

editorVars == <<line, ready, delivered>>

EditorInit == line = <<>> /\ ready = FALSE /\ delivered = <<>>

Insert(c) == /\ line' = Append(line, c)
             /\ UNCHANGED <<ready, delivered>>

Erase == /\ line # <<>>
         /\ line' = SubSeq(line, 1, Len(line) - 1)
         /\ UNCHANGED <<ready, delivered>>

Submit == /\ ready' = TRUE
          /\ UNCHANGED <<line, delivered>>

(* What fits of s when a NUL must follow it. *)
Cut(s) == SubSeq(s, 1, IF Len(s) < MaxLine - 1 THEN Len(s) ELSE MaxLine - 1)

Take == /\ ready
        /\ delivered' = Cut(line)
        /\ line' = <<>>
        /\ ready' = FALSE

EditorNext == (\E c \in Chars : Insert(c)) \/ Erase \/ Submit \/ Take

EditorSpec == EditorInit /\ [][EditorNext]_editorVars
=============================================================================
