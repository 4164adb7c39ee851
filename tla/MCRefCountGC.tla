---------------------------- MODULE MCRefCountGC ----------------------------
(* A heap for three pairs of 40 bytes and what is left of them, or for
   strings of 28 bytes between them.                                        *)
EXTENDS RefCountGC

MCLeafSizes == {10}
=============================================================================
