------------------------------ MODULE MCZctGC ------------------------------
(* A table of two entries and a heap in which a name can be bound and then
   redefined until the table is full: the two pairs of a binding take 96
   bytes, and every string 32.                                              *)
EXTENDS ZctGC

MCLeafSizes == {8}
=============================================================================
