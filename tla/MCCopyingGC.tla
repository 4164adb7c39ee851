---------------------------- MODULE MCCopyingGC ----------------------------
(* Small instances of CopyingGC: half spaces of 108 bytes hold two pairs
   of 40 bytes and a string of 28 bytes, up to their last byte, so that a
   collection is met after a few steps and some requests exhaust the heap. *)
EXTENDS CopyingGC

MCLeafSizes == {10}
=============================================================================
