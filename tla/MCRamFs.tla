------------------------------ MODULE MCRamFs ------------------------------
(* RamFs with two-byte words and two-word blocks.                          *)
EXTENDS RamFs
=============================================================================
