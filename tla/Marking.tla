------------------------------ MODULE Marking ------------------------------
(***************************************************************************)
(* The mark phase of the mark-compact and the mark-sweep collector: the    *)
(* functions mark_object and mark are the same text in gc/markcompact.c    *)
(* and gc/marksweep.c.  Reached cells get their mark bit set and wait on   *)
(* an explicit stack of fixed capacity until their fields are traced.      *)
(***************************************************************************)
EXTENDS GCBase, Sequences, FiniteSets

CONSTANTS MarkStackSize,   \* MARK_STACK_SIZE
          PointerSize      \* sizeof(Cell)

ASSUME MarkStackAssumption == MarkStackSize \in Nat /\ PointerSize \in Nat

VARIABLES marked,          \* headers whose mark_bit is set
          mark_stack

\* The mark stack occupies the first bytes of aq_heap, the cells the rest.
Base  == PointerSize * MarkStackSize
Limit == HeapSize

\* Mutant: the mark bit is set but not tested.
MarkObjectAgain(m, v) ==
  IF ~CELL_P(v) THEN m
  ELSE [marked |-> m.marked \cup {v}, stack |-> Append(m.stack, v)]

\* mark_object(&v): what it makes of the marks and the stack.  A mark stack of
\* more than MarkStackSize entries stands for the overflow that ends the
\* program before the entry is stored.
MarkObject(m, v) ==
  IF ~CELL_P(v) \/ v \in m.marked THEN m
  ELSE [marked |-> m.marked \cup {v}, stack |-> Append(m.stack, v)]

\* Mutant: the cdr is not traced.
MarkCar(m, o) == MarkObject(m, o.car)

\* trace_object(o, mark_object): when the car overflows the stack the program
\* is gone before the cdr is looked at.
MarkFields(m, o) ==
  LET m1 == MarkObject(m, o.car)
  IN  IF Len(m1.stack) > MarkStackSize THEN m1 ELSE MarkObject(m1, o.cdr)

MarkState == [marked |-> marked, stack |-> mark_stack]

\* The state after marking, or the exit of mark_object when the stack is full.
MarkTo(m, next) ==
  /\ marked' = m.marked
  /\ mark_stack' = m.stack
  /\ pc' = IF Len(m.stack) > MarkStackSize THEN "overflowed" ELSE next

\* trace_roots(mark_object), one root slot at a time.
MarkRoot == /\ pc = "roots"
            /\ k <= NRoots
            /\ MarkTo(MarkObject(MarkState, root[k]), "roots")
            /\ k' = k + 1
            /\ UNCHANGED <<root, heap, req, g_GC_stress>>

AllRootsVisited == k > NRoots

RootsMarked == /\ pc = "roots"
               /\ AllRootsVisited
               /\ pc' = "mark"
               /\ k' = 1
               /\ UNCHANGED <<root, heap, req, g_GC_stress, marked, mark_stack>>

\* One turn of the loop: pop a cell, trace_object(cell, mark_object).
MarkNext ==
  LET obj  == mark_stack[Len(mark_stack)]
      rest == SubSeq(mark_stack, 1, Len(mark_stack) - 1)
  IN  /\ pc = "mark"
      /\ mark_stack # <<>>
      /\ MarkTo(MarkFields([marked |-> marked, stack |-> rest], heap[obj]), "mark")
      /\ UNCHANGED <<root, heap, req, k, g_GC_stress>>

MarkPhase == MarkRoot \/ RootsMarked \/ MarkNext

\* mark is over, the next phase can begin.
Marked == pc = "mark" /\ mark_stack = <<>>

-----------------------------------------------------------------------------
(* Properties. *)

\* The marks are a wave front: a marked cell off the stack has no unmarked
\* child, and every stacked cell is marked, once.
MarkInvariant ==
  /\ pc \in {"roots", "mark"} =>
       /\ \A i \in 1 .. Len(mark_stack) : mark_stack[i] \in marked
       /\ \A i, j \in 1 .. Len(mark_stack) : i # j => mark_stack[i] # mark_stack[j]
       /\ \A a \in marked \cap DOMAIN heap : \A v \in Fields(heap[a]) :
            CELL_P(v) => \/ v \in marked
                         \/ \E i \in 1 .. Len(mark_stack) : mark_stack[i] = a
  /\ pc = "mark" => \A i \in Roots : CELL_P(root[i]) => root[i] \in marked

\* Cells wait on the stack at most once, so a program whose live cells number
\* no more than the stack has entries is never stopped by mark stack overflow.
OverflowOnlyBeyondStack == pc = "overflowed" => Cardinality(Live) > MarkStackSize
=============================================================================
