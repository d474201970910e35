---------------------------- MODULE CommandLine -----------------------------
(***************************************************************************)
(* How the shell cuts a line into a command and its arguments              *)
(* (Shell::eval_user_input, src/kernel/Shell.cpp): one pass with a buffer  *)
(* for the current word and an array for the words, both of fixed size.    *)
(***************************************************************************)
EXTENDS Integers, Sequences, FiniteSets, FiniteSetsExt

CONSTANTS Space,      \* ' '
          MAX_ARGS,   \* words args has room for: 16
          MAX_WORD    \* characters buffer has room for beside the NUL: 255

(* A space or the NUL ends the word, if there is one. *)
Finished(scan) ==
    [args   |-> IF scan.buffer # <<>> /\ Len(scan.args) < MAX_ARGS
                THEN Append(scan.args, scan.buffer)
                ELSE scan.args,
     buffer |-> <<>>]

Scanned(scan, c) ==
    IF c = Space THEN Finished(scan)
    ELSE [scan EXCEPT !.buffer = IF Len(@) < MAX_WORD THEN Append(@, c) ELSE @]

(* How far the pass has come after each character. *)
Scans(line) ==
    LET scan[n \in 0 .. Len(line)] ==
          IF n = 0 THEN [args |-> <<>>, buffer |-> <<>>] ELSE Scanned(scan[n - 1], line[n])
    IN  scan

Args(line) == Finished(Scans(line)[Len(line)]).args

-----------------------------------------------------------------------------
(* What the arguments should be: the stretches without a space, from left  *)
(* to right, no more and no longer than there is room for.                 *)
StartsWord(line, i) == line[i] # Space /\ (i = 1 \/ line[i - 1] = Space)

Begun(line, i) == Cardinality({j \in 1 .. i : StartsWord(line, j)})

WordEnd(line, i) ==
    LET most == Min({Len(line), i + MAX_WORD - 1})
    IN  CHOOSE k \in i .. most : /\ \A j \in i .. k : line[j] # Space
                                 /\ k = most \/ line[k + 1] = Space

WordAt(line, n) == LET start == CHOOSE i \in 1 .. Len(line) : StartsWord(line, i) /\ Begun(line, i) = n
                   IN  SubSeq(line, start, WordEnd(line, start))

Words(line) == [n \in 1 .. Min({MAX_ARGS, Begun(line, Len(line))}) |-> WordAt(line, n)]
=============================================================================
