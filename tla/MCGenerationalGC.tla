-------------------------- MODULE MCGenerationalGC --------------------------
(* Two cells of 40 bytes fit in each half of the nursery and four in the
   tenured space, a cell is promoted when it is copied for the second time,
   and the remembered set has one entry: so promotions, the cleaning of a
   full remembered set and major collections are met.                       *)
EXTENDS GenerationalGC

MCLeafSizes == {22}
=============================================================================
