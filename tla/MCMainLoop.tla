----------------------------- MODULE MCMainLoop -----------------------------
(***************************************************************************)
(* MainLoop on small keyboards.  The scancodes are real ones:              *)
(*   14 Backspace   28 Enter   20 the key T   32 the key D   34 the key G  *)
(*   29 Ctrl        56 Alt                                                 *)
(***************************************************************************)
EXTENDS MainLoop

ContextKeys  == {14, 20, 28, 29, 32, 56}
ChordKeys    == {29, 34, 56}
=============================================================================
