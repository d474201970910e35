------------------------------- MODULE MCVfs --------------------------------
(* Vfs with one name beside those main creates.                            *)
EXTENDS Vfs

MCNames == {"test.txt", "mnt", "a"}
=============================================================================
