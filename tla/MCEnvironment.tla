---------------------------- MODULE MCEnvironment ----------------------------
(* Four names: three share a chain, and two of them a hash value, as an int
   holds the last four characters only; the fourth has a chain of its own.  *)
EXTENDS Environment

MCNames == {<<2, 1, 1, 1>>, <<3, 2, 1, 1, 1>>, <<1>>, <<2>>}
=============================================================================
