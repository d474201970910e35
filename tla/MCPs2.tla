------------------------------- MODULE MCPs2 -------------------------------
(* Ps2 with a step whose low bytes both have bit 3 set, and a large one to *)
(* the left with the button held, whose low bytes do not.                  *)
EXTENDS Ps2

MCMovements == {[dx |-> 8, dy |-> -1, left |-> FALSE],
                [dx |-> -256, dy |-> 4, left |-> TRUE]}
=============================================================================
