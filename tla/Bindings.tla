------------------------------ MODULE Bindings ------------------------------
(***************************************************************************)
(* What the environment promises the virtual machine: one value for every  *)
(* name, the one it was given last; #undef stands for none.  There are no  *)
(* hash keys, chains or allocations here.                                  *)
(***************************************************************************)
CONSTANTS Names, Values, Undef

VARIABLE value

Init == value = [n \in Names |-> Undef]

Define(n, v) == value' = [value EXCEPT ![n] = v]

Next == \E n \in Names, v \in Values \cup {Undef} : Define(n, v)

Spec == Init /\ [][Next]_value
=============================================================================
