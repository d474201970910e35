-------------------------- MODULE MCTerminalWindow --------------------------
(* TerminalWindow on a window of a few cells.                              *)
EXTENDS TerminalWindow

CONSTANT a

MCPrompt == <<a>>

(* No answer, one that fills a row, so that its line feed ends an empty    *)
(* one, and one that goes on after the row.                                *)
MCAnswers == {<<>>,
              <<a, Blank, a, a, a, Blank, LF>>,
              <<Blank, a, a, a, a, a, Blank, a, LF>>}
=============================================================================
