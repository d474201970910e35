------------------------------- MODULE Lines -------------------------------
(* Lines of text as sequences of characters. *)
EXTENDS Naturals, Sequences

(* The longest prefix of a line that does not end in a blank. *)
Trimmed(line, blank) ==
    LET n == CHOOSE n \in 0 .. Len(line) : /\ \A i \in n + 1 .. Len(line) : line[i] = blank
                                           /\ n > 0 => line[n] # blank
    IN  SubSeq(line, 1, n)
=============================================================================
