---------------------------- MODULE ObjectMemory ----------------------------
(***************************************************************************)
(* What the interpreter expects of every collector behind aq_gc_info: a    *)
(* graph of cells hanging off the machine stack and the environment.  The  *)
(* interpreter allocates cells, stores references in root slots and, when  *)
(* a variable is redefined, overwrites the cdr of a binding.  A collection *)
(* may drop cells that no root reaches and may move the others, but the    *)
(* graph the roots see keeps its shape and its contents.                   *)
(*                                                                         *)
(* There are no headers, spaces, bytes or collector phases here.  The      *)
(* collector modules implement this one under a refinement mapping.        *)
(***************************************************************************)
EXTENDS Integers, Functions

CONSTANTS Roots,    \* indices of the root slots (stack entries, then env)
          IMM       \* any immediate: integers, #t, #f, (), #undef

VARIABLES root,     \* root[i]: what slot i holds, a cell or an immediate
          objs      \* objs[a]: the cell at a, a leaf or a pair

memVars == <<root, objs>>

\* CELL_P: the value is a reference, not an immediate.
IsCell(v) == v # IMM

Fields(o) == {o.car, o.cdr}

\* The values an instruction can get at: a root slot, a field of a cell a
\* root slot refers to (OP_CAR, OP_CDR, get_var), or an immediate.
Held == {IMM} \cup {root[i] : i \in Roots}
          \cup UNION {Fields(objs[root[i]]) : i \in {j \in Roots : IsCell(root[j])}}

Leaf       == [type |-> "leaf", car |-> IMM, cdr |-> IMM]
Pair(u, v) == [type |-> "pair", car |-> u, cdr |-> v]

Init == /\ root = [i \in Roots |-> IMM]
        /\ objs = <<>>

\* A root slot gets a value the program already holds.
Assign(i, v) == /\ v \in Held
                /\ root' = [root EXCEPT ![i] = v]
                /\ UNCHANGED objs

\* CDAR(root[i]) := root[j], the redefinition of a variable.
Redefine(i, j) ==
  /\ IsCell(root[i]) /\ IsCell(objs[root[i]].car)
  /\ objs[objs[root[i]].car].type = "pair"
  /\ objs' = [objs EXCEPT ![objs[root[i]].car].cdr = root[j]]
  /\ UNCHANGED root

\* A fresh cell o whose reference is stored in slot i.
New(i, o) ==
  \E a \in DOMAIN objs' :
    /\ a \notin DOMAIN objs
    /\ objs' = [x \in DOMAIN objs \cup {a} |-> IF x = a THEN o ELSE objs[x]]
    /\ root' = [root EXCEPT ![i] = a]

NewLeaf(i)       == New(i, Leaf)
NewPair(i, l, r) == New(i, Pair(root[l], root[r]))

-----------------------------------------------------------------------------
(* Collections. *)

\* No root and no field leads out of the memory.
Closed == /\ \A i \in Roots : IsCell(root[i]) => root[i] \in DOMAIN objs
          /\ \A a \in DOMAIN objs : \A v \in Fields(objs[a]) : IsCell(v) => v \in DOMAIN objs

Renamed(from, v) == IF IsCell(v) THEN from[v] ELSE v

\* The cell now at a was at from[a] before; the others are dropped.
Relocate(from) ==
  /\ IsInjective(from)
  /\ Closed'
  /\ \A a \in DOMAIN objs' :
       objs[from[a]] = [objs'[a] EXCEPT !.car = Renamed(from, @), !.cdr = Renamed(from, @)]
  /\ \A i \in Roots : root[i] = Renamed(from, root'[i])

\* A collection that neither drops nor moves a cell is a stuttering step.
Collect == /\ objs' # objs
           /\ \E from \in [DOMAIN objs' -> DOMAIN objs] : Relocate(from)

Next == \/ \E i \in Roots : \E v \in Held : Assign(i, v)
        \/ \E i, j \in Roots : Redefine(i, j)
        \/ \E i \in Roots : NewLeaf(i)
        \/ \E i, l, r \in Roots : NewPair(i, l, r)
        \/ Collect

Spec == Init /\ [][Next]_memVars
=============================================================================
