----------------------------- MODULE MCGetLine ------------------------------
(***************************************************************************)
(* GetLine on small keyboards, by scancode:                                *)
(*   28 Enter   32 the key D, of the chord for the GUI                     *)
(*   29 Ctrl    56 Alt    42, 170 left Shift down and up                   *)
(*   58 Caps Lock    224 E0                                                *)
(***************************************************************************)
EXTENDS GetLine

ReaderKeys == {28, 32, 29, 56, 42, 170, 58, 224}
LetterKeys == {28, 32}
=============================================================================
