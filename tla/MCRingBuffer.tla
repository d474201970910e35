---------------------------- MODULE MCRingBuffer ----------------------------
(* RingBuffer on four slots and three items: the ring wraps, fills and     *)
(* empties, and items can be told apart.                                   *)
EXTENDS RingBuffer
=============================================================================
