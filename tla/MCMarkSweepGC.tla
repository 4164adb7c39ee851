--------------------------- MODULE MCMarkSweepGC ---------------------------
(* An arena in which cells of 20 and 32 bytes leave rests just below, at and
   above sizeof(free_chunk).                                               *)
EXTENDS MarkSweepGC

MCLeafSizes == {10}
=============================================================================
