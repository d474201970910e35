-------------------------------- MODULE Page --------------------------------
(***************************************************************************)
(* What a terminal window promises to show: the last Rows lines of what    *)
(* was printed and typed, long lines continued on the next one, with the   *)
(* last line open for more.  Blanks at the end of a finished line do not   *)
(* show.                                                                   *)
(***************************************************************************)
EXTENDS Lines, SequencesExt

CONSTANTS Cols, Rows, Chars, Blank

VARIABLE lines

LastRows(s) == IF Len(s) > Rows THEN Tail(s) ELSE s

FinishWith(line) == lines' = LastRows(Append(Front(lines), Trimmed(line, Blank)) \o <<<<>>>>)

Init == lines = <<<<>>>>

Finish == FinishWith(Last(lines))

Write(c) == LET line == Append(Last(lines), c)
            IN  IF Len(line) = Cols THEN FinishWith(line)
                                    ELSE lines' = Append(Front(lines), line)

Erase == /\ Last(lines) # <<>>
         /\ lines' = Append(Front(lines), Front(Last(lines)))

Next == Finish \/ Erase \/ \E c \in Chars : Write(c)

Spec == Init /\ [][Next]_lines
=============================================================================
