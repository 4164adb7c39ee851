-------------------------- MODULE MCMarkCompactGC --------------------------
(* An arena for two pairs of 48 bytes and a string of 36, and a mark stack
   of two entries, so that sliding by less than a cell, an exhausted heap
   and a mark stack overflow are all met.                                  *)
EXTENDS MarkCompactGC

MCLeafSizes == {10}
=============================================================================
