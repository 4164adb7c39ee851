------------------------------- MODULE GCBase -------------------------------
(***************************************************************************)
(* The part of the memory system every collector shares (gc/base.c and the *)
(* declarations of aquario.h): root slots, cells at byte addresses, the    *)
(* client's stores, and the request that gc_malloc is serving.             *)
(*                                                                         *)
(* A cell is known by the address of its header; the pointer the C code    *)
(* holds is that address plus the constant header size.  All immediates    *)
(* are the one value IMM: no collector tells them apart.  The root slots   *)
(* are numbered in the order trace_roots visits them: the machine stack    *)
(* from its top down, then env.  A slot that is not in use holds IMM.      *)
(***************************************************************************)
EXTENDS Integers

CONSTANTS NRoots,      \* how many root slots there are
          IMM,         \* any immediate value
          LeafSizes,   \* sizes new_cell asks for: strings, symbols, lambdas
          CellSize,    \* sizeof(struct cell), the size of a pair
          HeapSize,    \* HEAP_SIZE: bytes in aq_heap
          StressModes, \* whether -GC_STRESS may be given: a subset of BOOLEAN
          NoReq        \* gc_malloc is not running

ASSUME RootsAssumption    == NRoots \in Nat
ASSUME ImmAssumption      == IMM \notin Int
ASSUME SizesAssumption    == LeafSizes \subseteq Nat \ {0} /\ CellSize \in Nat \ {0}
ASSUME HeapSizeAssumption == HeapSize \in Nat
ASSUME StressAssumption   == StressModes \subseteq BOOLEAN

VARIABLES root,        \* the stack slots and env entries
          heap,        \* heap[a]: the cell whose header is at address a
          pc,          \* where the program is, "run" outside gc_malloc
          req,         \* the gc_malloc call being served, or NoReq
          k,           \* the root slot trace_roots is about to visit
          g_GC_stress  \* -GC_STRESS: collect before every allocation

baseVars == <<root, heap, pc, req, k, g_GC_stress>>

Roots == 1 .. NRoots
Value == Nat \cup {IMM}

CELL_P(v) == v # IMM

\* What trace_object needs of a cell, and its size with header and padding.
\* Only a pair holds references.
Object == [type : {"leaf"}, size : Nat, car : {IMM}, cdr : {IMM}]
            \cup [type : {"pair"}, size : Nat, car : Value, cdr : Value]

\* The calls of gc_malloc: new_cell for a leaf, which is then pushed on slot
\* dst, and pair_cell(&root[a], &root[d]) for a pair; every caller of pair_cell
\* pops the two arguments and pushes the pair, so it takes the slot of the car.
LeafRequests == {[type |-> "leaf", size |-> s, a |-> i, d |-> i, dst |-> i] :
                   s \in LeafSizes, i \in Roots}
PairRequests == {[type |-> "pair", size |-> CellSize, a |-> i, d |-> j, dst |-> i] :
                   i, j \in Roots}
Requests == LeafRequests \cup PairRequests

\* The bytes of the cell at a.
Extent(h, a) == a .. (a + h[a].size - 1)

\* Writing object o at address a destroys every object whose bytes overlap it.
Overwrite(h, a, o) ==
  LET kept == {x \in DOMAIN h : x + h[x].size <= a \/ a + o.size <= x}
  IN  [x \in kept \cup {a} |-> IF x = a THEN o ELSE h[x]]

\* The cell gc_malloc returns once its caller has filled it.  pair_cell reads
\* its two arguments through pointers, after the allocation.
NewObject(r, size) ==
  [type |-> r.type, size |-> size,
   car  |-> IF r.type = "pair" THEN root[r.a] ELSE IMM,
   cdr  |-> IF r.type = "pair" THEN root[r.d] ELSE IMM]

-----------------------------------------------------------------------------
(* The client, which runs between two calls of gc_malloc. *)

Fields(o) == {o.car, o.cdr}

Held == {IMM} \cup {root[i] : i \in Roots}
          \cup UNION {Fields(heap[root[i]]) : i \in {j \in Roots : CELL_P(root[j])}}

\* push_arg, pop_arg, gc_write_barrier_root: slot i gets a value at hand.
Assign(i, v) == /\ v \in Held
                /\ root' = [root EXCEPT ![i] = v]
                /\ UNCHANGED <<heap, pc, req, k, g_GC_stress>>

\* register_var on a known name: gc_write_barrier stores in the cdr of the
\* binding, the car of the chain held in slot i.
Redefine(i, j) ==
  /\ CELL_P(root[i]) /\ CELL_P(heap[root[i]].car)
  /\ heap[heap[root[i]].car].type = "pair"
  /\ heap' = [heap EXCEPT ![heap[root[i]].car].cdr = root[j]]
  /\ UNCHANGED <<root, pc, req, k, g_GC_stress>>

Client == /\ pc = "run"
          /\ \/ \E i \in Roots : \E v \in Held : Assign(i, v)
             \/ \E i, j \in Roots : Redefine(i, j)

BaseInit == /\ root = [i \in Roots |-> IMM]
            /\ heap = <<>>
            /\ pc = "run"
            /\ req = NoReq
            /\ k = 1
            /\ g_GC_stress \in StressModes

-----------------------------------------------------------------------------
(* Notions the properties of every collector are stated with. *)

\* S holds the cells in the root slots and the fields of its members.
ClosedFromRoots(S) ==
  /\ \A i \in Roots : CELL_P(root[i]) => root[i] \in S
  /\ \A a \in S : \A v \in Fields(heap[a]) : CELL_P(v) => v \in S

\* The cells a root reaches: the least set closed from the roots.
Live == {a \in DOMAIN heap :
           \A S \in SUBSET DOMAIN heap : ClosedFromRoots(S) => a \in S}

\* The cells v reaches: the members of every set that holds v and is closed.
ReachedFrom(v) ==
  {a \in DOMAIN heap : \A S \in SUBSET DOMAIN heap :
     (v \in S /\ \A b \in S : \A w \in Fields(heap[b]) : CELL_P(w) => w \in S) => a \in S}

Disjoint(h) ==
  \A a, b \in DOMAIN h : a # b => a + h[a].size <= b \/ b + h[b].size <= a
=============================================================================
