------------------------- MODULE Collectors_proofs -------------------------
(***************************************************************************)
(* What the proofs of several collectors rest on.                          *)
(*                                                                         *)
(* The mark phase: the marks are a wave front that ends where the roots    *)
(* reach no further, and what waits on the stack waits once, so that the   *)
(* stack overflows only when there are more live cells than it has         *)
(* entries.  For every stack size and every graph, cyclic ones too.  And   *)
(* what the collectors that mark need of the program's own stores.         *)
(*                                                                         *)
(* The free list: what aq_get_free_chunk and put_chunk_to_freelist do to a *)
(* list that is in address order, and to the blocks, cells and chunks,     *)
(* that tile the heap.  For every list, size and sizeof(free_chunk).       *)
(***************************************************************************)
EXTENDS Marking, FreeList, FiniteSetTheorems, SequenceTheorems, TLAPS

\* What mark reads: references lead to cells.
Graph == /\ root \in [Roots -> Value]
         /\ heap \in [DOMAIN heap -> Object]
         /\ DOMAIN heap \subseteq Nat /\ IsFiniteSet(DOMAIN heap)
         /\ ClosedFromRoots(DOMAIN heap)

Waiting(stack) == {stack[i] : i \in 1 .. Len(stack)}

\* The cells on the stack are live, marked, and on it once.
GoodMarks(m) ==
  /\ m.stack \in Seq(DOMAIN heap)
  /\ Waiting(m.stack) \subseteq m.marked
  /\ \A i, j \in 1 .. Len(m.stack) : i # j => m.stack[i] # m.stack[j]
  /\ m.marked \cap DOMAIN heap \subseteq Live

\* No field of a marked cell leads to an unmarked one, unless the cell waits.
WaveFront ==
  \A a \in marked \cap DOMAIN heap : \A v \in Fields(heap[a]) :
    CELL_P(v) => v \in marked \/ a \in Waiting(mark_stack)

\* What holds of the marks and the stack in the mark phase.
MarkInv ==
  /\ mark_stack \in Seq(DOMAIN heap)
  /\ pc \in {"roots", "mark", "overflowed"} => GoodMarks(MarkState)
  /\ pc \in {"roots", "mark"} => WaveFront
  /\ pc = "roots" => \A i \in Roots : i < k /\ CELL_P(root[i]) => root[i] \in marked
  /\ pc = "mark" => \A i \in Roots : CELL_P(root[i]) => root[i] \in marked
  /\ pc = "overflowed" => Len(mark_stack) > MarkStackSize

-----------------------------------------------------------------------------
(* Live cells. *)

\* What a root slot or a live cell refers to is live.
LEMMA LiveClosed ==
  ASSUME Graph
  PROVE  ClosedFromRoots(Live)
  <1>1. ASSUME NEW i \in Roots, CELL_P(root[i])
        PROVE  root[i] \in Live
    BY <1>1 DEF Graph, ClosedFromRoots, Live
  <1>2. ASSUME NEW a \in Live, NEW v \in Fields(heap[a]), CELL_P(v)
        PROVE  v \in Live
    <2>1. a \in DOMAIN heap
      BY DEF Live
    <2>2. v \in DOMAIN heap
      BY <1>2, <2>1 DEF Graph, ClosedFromRoots
    <2>3. ASSUME NEW S \in SUBSET DOMAIN heap, ClosedFromRoots(S)
          PROVE  v \in S
      <3>1. a \in S
        BY <2>3 DEF Live
      <3> QED
        BY <1>2, <2>3, <3>1 DEF ClosedFromRoots
    <2> QED
      BY <2>2, <2>3 DEF Live
  <1> QED
    BY <1>1, <1>2 DEF ClosedFromRoots

\* Live is the least set that is closed from the roots.
LEMMA LiveLeast ==
  ASSUME NEW S, S \subseteq DOMAIN heap, ClosedFromRoots(S)
  PROVE  Live \subseteq S
  BY DEF Live

-----------------------------------------------------------------------------
(* mark_object *)

\* n is m with some cells marked and put on the stack.
Grown(m, n) ==
  /\ m.marked \subseteq n.marked
  /\ n.marked \subseteq m.marked \cup Waiting(n.stack)
  /\ Waiting(m.stack) \subseteq Waiting(n.stack)
  /\ n.marked \subseteq m.marked \cup DOMAIN heap

LEMMA WaitingAppend ==
  ASSUME NEW S, NEW s \in Seq(S), NEW v
  PROVE  /\ Waiting(Append(s, v)) = Waiting(s) \cup {v}
         /\ Len(Append(s, v)) = Len(s) + 1 /\ Len(s) \in Nat
         /\ \A i \in 1 .. Len(s) : Append(s, v)[i] = s[i]
         /\ Append(s, v)[Len(s) + 1] = v
  <1> DEFINE n == Len(s)
             t == Append(s, v)
  <1>1. n \in Nat /\ Len(t) = n + 1 /\ \A i \in 1 .. n : t[i] = s[i]
    OBVIOUS
  <1>2. t[n + 1] = v
    OBVIOUS
  <1> HIDE DEF t, n
  <1>3. 1 .. n + 1 = (1 .. n) \cup {n + 1}
    BY <1>1
  <1>4. Waiting(t) = Waiting(s) \cup {v}
    BY <1>1, <1>2, <1>3 DEF Waiting, n
  <1> QED
    BY <1>1, <1>2, <1>4 DEF t, n

LEMMA MarkObjectGrows ==
  ASSUME NEW m, m = [marked |-> m.marked, stack |-> m.stack], GoodMarks(m),
         NEW v, CELL_P(v) => v \in Live,
         NEW n, n = MarkObject(m, v)
  PROVE  /\ n = [marked |-> n.marked, stack |-> n.stack]
         /\ GoodMarks(n) /\ Grown(m, n) /\ (CELL_P(v) => v \in n.marked)
  <1>1. CASE ~CELL_P(v) \/ v \in m.marked
    <2>1. n = m
      BY <1>1 DEF MarkObject
    <2> QED
      BY <1>1, <2>1 DEF Grown
  <1>2. CASE CELL_P(v) /\ v \notin m.marked
    <2> DEFINE s == m.stack
               t == Append(s, v)
    <2>1. n = [marked |-> m.marked \cup {v}, stack |-> t]
      BY <1>2 DEF MarkObject
    <2>2. n.marked = m.marked \cup {v} /\ n.stack = t
      BY <2>1
    <2>3. v \in Live /\ v \in DOMAIN heap
      BY <1>2 DEF Live
    <2>4. /\ Waiting(t) = Waiting(s) \cup {v}
          /\ Len(t) = Len(s) + 1 /\ Len(s) \in Nat
          /\ \A i \in 1 .. Len(s) : t[i] = s[i]
          /\ t[Len(s) + 1] = v
      BY WaitingAppend DEF GoodMarks
    <2>5. t \in Seq(DOMAIN heap)
      BY <2>3 DEF GoodMarks
    <2> HIDE DEF t
    <2>6. \A i \in 1 .. Len(s) : s[i] # v
      BY <1>2 DEF GoodMarks, Waiting
    <2>7. \A i, j \in 1 .. Len(t) : i # j => t[i] # t[j]
      <3> SUFFICES ASSUME NEW i \in 1 .. Len(t), NEW j \in 1 .. Len(t), i # j
                   PROVE  t[i] # t[j]
        OBVIOUS
      <3>1. CASE i \in 1 .. Len(s) /\ j \in 1 .. Len(s)
        BY <2>4, <3>1 DEF GoodMarks
      <3>2. CASE i = Len(s) + 1 \/ j = Len(s) + 1
        BY <2>4, <2>6, <3>2
      <3> QED
        BY <2>4, <3>1, <3>2
    <2>8. GoodMarks(n)
      BY <2>2, <2>3, <2>4, <2>5, <2>7 DEF GoodMarks
    <2>9. Grown(m, n)
      BY <2>2, <2>3, <2>4 DEF Grown
    <2> QED
      BY <2>1, <2>2, <2>8, <2>9
  <1> QED
    BY <1>1, <1>2

\* trace_object(o, mark_object) of a live cell.
LEMMA MarkFieldsGrows ==
  ASSUME NEW m, m = [marked |-> m.marked, stack |-> m.stack], GoodMarks(m),
         NEW o, \A v \in Fields(o) : CELL_P(v) => v \in Live,
         NEW n, n = MarkFields(m, o)
  PROVE  /\ n = [marked |-> n.marked, stack |-> n.stack]
         /\ GoodMarks(n) /\ Grown(m, n)
         /\ ~(Len(n.stack) > MarkStackSize) =>
              \A v \in Fields(o) : CELL_P(v) => v \in n.marked
  <1> DEFINE p == MarkObject(m, o.car)
             q == MarkObject(p, o.cdr)
  <1>1. /\ p = [marked |-> p.marked, stack |-> p.stack]
        /\ GoodMarks(p) /\ Grown(m, p) /\ (CELL_P(o.car) => o.car \in p.marked)
    BY MarkObjectGrows DEF Fields
  <1>2. n = IF Len(p.stack) > MarkStackSize THEN p ELSE q
    BY DEF MarkFields
  <1> HIDE DEF p
  <1>3. /\ q = [marked |-> q.marked, stack |-> q.stack]
        /\ GoodMarks(q) /\ Grown(p, q) /\ (CELL_P(o.cdr) => o.cdr \in q.marked)
    BY <1>1, MarkObjectGrows DEF Fields
  <1> HIDE DEF q
  <1>4. CASE Len(p.stack) > MarkStackSize
    <2>1. n = p
      BY <1>2, <1>4
    <2> QED
      BY <1>1, <1>4, <2>1
  <1>5. CASE ~(Len(p.stack) > MarkStackSize)
    <2>1. n = q
      BY <1>2, <1>5
    <2>2. Grown(m, q)
      BY <1>1, <1>3 DEF Grown
    <2>3. \A v \in Fields(o) : CELL_P(v) => v \in q.marked
      BY <1>1, <1>3 DEF Fields, Grown
    <2> QED
      BY <1>3, <2>1, <2>2, <2>3
  <1> QED
    BY <1>4, <1>5

-----------------------------------------------------------------------------
(* mark *)

\* The front after one more object was traced: done is the cell whose fields
\* were, or IMM for a root slot.
LEMMA FrontMoves ==
  ASSUME NEW m, GoodMarks(m), NEW n, Grown(m, n), NEW done,
         m.marked = marked,
         Waiting(mark_stack) \subseteq Waiting(m.stack) \cup {done},
         WaveFront,
         done \in DOMAIN heap => \A v \in Fields(heap[done]) : CELL_P(v) => v \in n.marked
  PROVE  \A a \in n.marked \cap DOMAIN heap : \A v \in Fields(heap[a]) :
           CELL_P(v) => v \in n.marked \/ a \in Waiting(n.stack)
  <1> SUFFICES ASSUME NEW a \in n.marked \cap DOMAIN heap, NEW v \in Fields(heap[a]), CELL_P(v),
                      a \notin Waiting(n.stack)
               PROVE  v \in n.marked
    OBVIOUS
  <1>1. a \in marked
    BY DEF Grown
  <1>2. v \in marked \/ a \in Waiting(mark_stack)
    BY <1>1 DEF WaveFront
  <1>3. a \notin Waiting(m.stack)
    BY DEF Grown
  <1>4. CASE v \in marked
    BY <1>4 DEF Grown
  <1>5. CASE a = done
    BY <1>5
  <1> QED
    BY <1>2, <1>3, <1>4, <1>5

\* The cell that is popped, and the stack below it.
LEMMA Popped ==
  ASSUME mark_stack # <<>>, GoodMarks(MarkState),
         NEW rest, rest = SubSeq(mark_stack, 1, Len(mark_stack) - 1),
         NEW obj, obj = mark_stack[Len(mark_stack)]
  PROVE  /\ obj \in DOMAIN heap /\ obj \in marked
         /\ GoodMarks([marked |-> marked, stack |-> rest])
         /\ Waiting(mark_stack) \subseteq Waiting(rest) \cup {obj}
  <1> DEFINE n == Len(mark_stack)
             m == [marked |-> marked, stack |-> rest]
  <1>1. /\ mark_stack \in Seq(DOMAIN heap) /\ n \in Nat /\ n >= 1
        /\ Waiting(mark_stack) \subseteq marked
        /\ \A i, j \in 1 .. n : i # j => mark_stack[i] # mark_stack[j]
        /\ marked \cap DOMAIN heap \subseteq Live
    BY DEF GoodMarks, MarkState
  <1>2. /\ rest \in Seq(DOMAIN heap) /\ Len(rest) = n - 1
        /\ \A i \in 1 .. n - 1 : rest[i] = mark_stack[i]
    <2>1. n - 1 \in Int /\ 1 \in Int /\ \A i \in 1 .. n - 1 : mark_stack[i] \in DOMAIN heap
      BY <1>1
    <2>2. rest = SubSeq(mark_stack, 1, n - 1)
      OBVIOUS
    <2> HIDE DEF n
    <2>3. /\ SubSeq(mark_stack, 1, n - 1) \in Seq(DOMAIN heap)
          /\ Len(SubSeq(mark_stack, 1, n - 1)) = IF 1 <= n - 1 THEN n - 1 - 1 + 1 ELSE 0
          /\ \A i \in 1 .. n - 1 - 1 + 1 : SubSeq(mark_stack, 1, n - 1)[i] = mark_stack[1 + i - 1]
      BY <2>1, SubSeqProperties
    <2> QED
      BY <1>1, <2>2, <2>3
  <1>3. obj \in DOMAIN heap /\ obj \in marked
    BY <1>1 DEF Waiting
  <1>4. \A i \in 1 .. n : i \in 1 .. n - 1 \/ i = n
    BY <1>1
  <1> HIDE DEF n
  <1>5. Waiting(mark_stack) \subseteq Waiting(rest) \cup {obj}
    BY <1>2, <1>4 DEF Waiting, n
  <1>6. \A i \in 1 .. n - 1 : i \in 1 .. n
    BY <1>1
  <1>7. Waiting(rest) \subseteq marked
    BY <1>1, <1>2, <1>6 DEF Waiting, n
  <1>8. \A i, j \in 1 .. Len(rest) : i # j => rest[i] # rest[j]
    BY <1>1, <1>2, <1>6
  <1>9. GoodMarks(m)
    BY <1>1, <1>2, <1>7, <1>8 DEF GoodMarks
  <1> QED
    BY <1>3, <1>5, <1>9

\* Every step of the mark phase keeps the invariant, and changes nothing of the
\* graph; the marks only grow, by cells.
LEMMA MarkPhaseKeeps ==
  ASSUME Graph, MarkInv, k \in 1 .. (NRoots + 1), MarkPhase
  PROVE  /\ MarkInv'
         /\ UNCHANGED <<root, heap, req, g_GC_stress>>
         /\ pc' \in {"roots", "mark", "overflowed"} /\ k' \in 1 .. (NRoots + 1)
         /\ marked' \subseteq marked \cup DOMAIN heap
  <1>1. NRoots \in Nat /\ k \in Nat
    BY RootsAssumption
  <1>2. MarkState = [marked |-> MarkState.marked, stack |-> MarkState.stack]
        /\ MarkState.marked = marked /\ MarkState.stack = mark_stack
    BY DEF MarkState
  <1>3. CASE MarkRoot
    <2> DEFINE n == MarkObject(MarkState, root[k])
    <2>1. /\ pc = "roots" /\ k <= NRoots /\ k' = k + 1
          /\ marked' = n.marked /\ mark_stack' = n.stack
          /\ pc' = (IF Len(n.stack) > MarkStackSize THEN "overflowed" ELSE "roots")
          /\ UNCHANGED <<root, heap, req, g_GC_stress>>
      BY <1>3 DEF MarkRoot, MarkTo
    <2>2. k \in Roots
      BY <1>1, <2>1 DEF Roots
    <2>3. CELL_P(root[k]) => root[k] \in Live
      BY <2>2, LiveClosed DEF ClosedFromRoots
    <2>4. GoodMarks(MarkState) /\ WaveFront
      BY <2>1 DEF MarkInv
    <2>5. /\ GoodMarks(n) /\ Grown(MarkState, n) /\ (CELL_P(root[k]) => root[k] \in n.marked)
      BY <1>2, <2>3, <2>4, MarkObjectGrows
    <2> HIDE DEF n
    <2>6. Live' = Live
      BY <2>1 DEF Live, ClosedFromRoots
    <2>7. GoodMarks(MarkState)'
      BY <2>1, <2>5, <2>6 DEF GoodMarks, MarkState
    <2>8. WaveFront'
      <3>1. IMM \in DOMAIN heap => FALSE
        BY ImmAssumption DEF Graph
      <3>2. \A a \in n.marked \cap DOMAIN heap : \A v \in Fields(heap[a]) :
              CELL_P(v) => v \in n.marked \/ a \in Waiting(n.stack)
        BY <1>2, <2>4, <2>5, <3>1, FrontMoves
      <3> QED
        BY <2>1, <3>2 DEF WaveFront
    <2>9. \A i \in Roots : i < k' /\ CELL_P(root'[i]) => root'[i] \in marked'
      <3> SUFFICES ASSUME NEW i \in Roots, i < k + 1, CELL_P(root[i])
                   PROVE  root[i] \in n.marked
        BY <2>1
      <3>1. i < k \/ i = k
        BY <1>1 DEF Roots
      <3>2. CASE i < k
        BY <1>2, <2>1, <2>5, <3>2 DEF MarkInv, Grown
      <3>3. CASE i = k
        BY <2>5, <3>3
      <3> QED
        BY <3>1, <3>2, <3>3
    <2>10. mark_stack' \in Seq(DOMAIN heap') /\ marked' \subseteq marked \cup DOMAIN heap
      BY <1>2, <2>1, <2>5 DEF GoodMarks, Grown
    <2>11. MarkInv'
      BY <2>1, <2>7, <2>8, <2>9, <2>10 DEF MarkInv
    <2> QED
      BY <1>1, <2>1, <2>10, <2>11
  <1>4. CASE RootsMarked
    <2>1. /\ pc = "roots" /\ k > NRoots /\ pc' = "mark" /\ k' = 1
          /\ UNCHANGED <<root, heap, req, g_GC_stress, marked, mark_stack>>
      BY <1>4 DEF RootsMarked, AllRootsVisited
    <2>2. GoodMarks(MarkState)' /\ WaveFront'
      BY <2>1 DEF MarkInv, GoodMarks, MarkState, WaveFront, Live, ClosedFromRoots
    <2>3. \A i \in Roots : CELL_P(root[i]) => root[i] \in marked
      BY <1>1, <2>1 DEF MarkInv, Roots
    <2>4. MarkInv'
      BY <2>1, <2>2, <2>3 DEF MarkInv
    <2> QED
      BY <1>1, <2>1, <2>4
  <1>5. CASE MarkNext
    <2> DEFINE obj  == mark_stack[Len(mark_stack)]
               rest == SubSeq(mark_stack, 1, Len(mark_stack) - 1)
               m    == [marked |-> marked, stack |-> rest]
               n    == MarkFields(m, heap[obj])
    <2>1. /\ pc = "mark" /\ mark_stack # <<>>
          /\ marked' = n.marked /\ mark_stack' = n.stack
          /\ pc' = (IF Len(n.stack) > MarkStackSize THEN "overflowed" ELSE "mark")
          /\ UNCHANGED <<root, heap, req, k, g_GC_stress>>
      BY <1>5 DEF MarkNext, MarkTo
    <2>2. GoodMarks(MarkState) /\ WaveFront
      BY <2>1 DEF MarkInv
    <2>3. /\ obj \in DOMAIN heap /\ obj \in marked /\ GoodMarks(m)
          /\ Waiting(mark_stack) \subseteq Waiting(rest) \cup {obj}
      BY <2>1, <2>2, Popped
    <2>4. m = [marked |-> m.marked, stack |-> m.stack] /\ m.marked = marked /\ m.stack = rest
      OBVIOUS
    <2> HIDE DEF obj, rest, m
    <2>5. obj \in Live
      BY <2>2, <2>3 DEF GoodMarks, MarkState
    <2>6. \A v \in Fields(heap[obj]) : CELL_P(v) => v \in Live
      BY <2>5, LiveClosed DEF ClosedFromRoots
    <2>7. /\ GoodMarks(n) /\ Grown(m, n)
          /\ ~(Len(n.stack) > MarkStackSize) =>
               \A v \in Fields(heap[obj]) : CELL_P(v) => v \in n.marked
      BY <2>3, <2>4, <2>6, MarkFieldsGrows
    <2> HIDE DEF n
    <2>8. GoodMarks(MarkState)'
      <3>1. Live' = Live
        BY <2>1 DEF Live, ClosedFromRoots
      <3> QED
        BY <2>1, <2>7, <3>1 DEF GoodMarks, MarkState
    <2>9. pc' = "mark" => WaveFront'
      <3> SUFFICES ASSUME pc' = "mark" PROVE WaveFront'
        OBVIOUS
      <3>1. \A v \in Fields(heap[obj]) : CELL_P(v) => v \in n.marked
        BY <2>1, <2>7
      <3>2. Waiting(mark_stack) \subseteq Waiting(m.stack) \cup {obj}
        BY <2>3, <2>4
      <3>3. \A a \in n.marked \cap DOMAIN heap : \A v \in Fields(heap[a]) :
              CELL_P(v) => v \in n.marked \/ a \in Waiting(n.stack)
        BY <2>2, <2>3, <2>4, <2>7, <3>1, <3>2, FrontMoves
      <3> QED
        BY <2>1, <3>3 DEF WaveFront
    <2>10. \A i \in Roots : CELL_P(root'[i]) => root'[i] \in marked'
      BY <2>1, <2>4, <2>7 DEF MarkInv, Grown
    <2>11. mark_stack' \in Seq(DOMAIN heap') /\ marked' \subseteq marked \cup DOMAIN heap
      BY <2>1, <2>4, <2>7 DEF GoodMarks, Grown
    <2>12. MarkInv'
      BY <2>1, <2>8, <2>9, <2>10, <2>11 DEF MarkInv
    <2> QED
      BY <2>1, <2>11, <2>12
  <1> QED
    BY <1>3, <1>4, <1>5 DEF MarkPhase

\* A collection begins: no cell is marked.
LEMMA MarkingStarts ==
  ASSUME marked \cap DOMAIN heap = {}, pc' = "roots", k' = 1, mark_stack' = <<>>,
         UNCHANGED <<root, heap, marked>>
  PROVE  MarkInv'
  <1>1. <<>> \in Seq(DOMAIN heap) /\ Waiting(<<>>) = {} /\ Len(<<>>) = 0
    BY DEF Waiting
  <1>2. GoodMarks(MarkState)'
    BY <1>1 DEF GoodMarks, MarkState
  <1>3. WaveFront'
    BY DEF WaveFront
  <1>4. \A i \in Roots : ~(i < k')
    BY RootsAssumption DEF Roots
  <1> QED
    BY <1>1, <1>2, <1>3, <1>4 DEF MarkInv

\* When marking is over the marked cells are those the roots reach.
LEMMA MarkingEnds ==
  ASSUME Graph, MarkInv, Marked
  PROVE  marked \cap DOMAIN heap = Live
  <1>1. pc = "mark" /\ Waiting(mark_stack) = {} /\ GoodMarks(MarkState) /\ WaveFront
    BY DEF Marked, MarkInv, Waiting
  <1>2. marked \cap DOMAIN heap \subseteq Live
    BY <1>1 DEF GoodMarks, MarkState
  <1>3. ClosedFromRoots(marked \cap DOMAIN heap)
    <2>1. \A i \in Roots : CELL_P(root[i]) => root[i] \in marked \cap DOMAIN heap
      BY <1>1 DEF MarkInv, Graph, ClosedFromRoots
    <2>2. \A a \in marked \cap DOMAIN heap : \A v \in Fields(heap[a]) :
            CELL_P(v) => v \in marked \cap DOMAIN heap
      BY <1>1 DEF WaveFront, Graph, ClosedFromRoots
    <2> QED
      BY <2>1, <2>2 DEF ClosedFromRoots
  <1>4. Live \subseteq marked \cap DOMAIN heap
    BY <1>3, LiveLeast
  <1> QED
    BY <1>2, <1>4

\* Mark stack overflow means that more cells are live than the stack has entries.
LEMMA OverflowFacts ==
  ASSUME Graph, MarkInv
  PROVE  OverflowOnlyBeyondStack
  <1> SUFFICES ASSUME pc = "overflowed" PROVE Cardinality(Live) > MarkStackSize
    BY DEF OverflowOnlyBeyondStack
  <1> DEFINE n == Len(mark_stack)
             W == Waiting(mark_stack)
  <1>1. /\ n > MarkStackSize /\ mark_stack \in Seq(DOMAIN heap) /\ n \in Nat
        /\ W \subseteq marked /\ marked \cap DOMAIN heap \subseteq Live
        /\ \A i, j \in 1 .. n : i # j => mark_stack[i] # mark_stack[j]
    BY DEF MarkInv, GoodMarks, MarkState
  <1>2. W \subseteq Live
    BY <1>1 DEF Waiting
  <1>3. IsFiniteSet(Live)
    BY FS_Subset DEF Graph, Live
  <1>4. Cardinality(W) <= Cardinality(Live) /\ Cardinality(W) \in Nat /\ Cardinality(Live) \in Nat
    BY <1>2, <1>3, FS_Subset, FS_CardinalityType
  <1>5. Cardinality(W) = n
    <2> DEFINE f == [i \in 1 .. n |-> mark_stack[i]]
               D == 1 .. n
    <2>1. f \in Bijection(D, W)
      BY <1>1 DEF Bijection, Injection, Surjection, IsInjective, Waiting
    <2>2. IsFiniteSet(D) /\ Cardinality(D) = n
      <3>1. n \in Int /\ 1 \in Int
        BY <1>1
      <3>2. IsFiniteSet(1 .. n) /\ Cardinality(1 .. n) = IF 1 > n THEN 0 ELSE n - 1 + 1
        <4> HIDE DEF n, D
        <4> QED BY <3>1, FS_Interval
      <3> QED
        BY <1>1, <3>2
    <2> HIDE DEF f, D, W
    <2>3. ExistsBijection(D, W)
      BY <2>1 DEF ExistsBijection
    <2> QED
      BY <2>2, <2>3, FS_Bijection
  <1> QED
    BY <1>1, <1>4, <1>5, MarkStackAssumption
-----------------------------------------------------------------------------
(* The program between two calls of gc_malloc, and the new cell. *)

\* Stores change no cell's place or size, and use no reference but those at hand.
LEMMA ClientKeepsGraph ==
  ASSUME Graph, Client
  PROVE  /\ Graph' /\ pc = "run"
         /\ UNCHANGED <<pc, req, k, g_GC_stress>>
         /\ DOMAIN heap' = DOMAIN heap
         /\ \A a \in DOMAIN heap : heap'[a].size = heap[a].size
  <1>1. \A i \in Roots : root[i] \in Value /\ (CELL_P(root[i]) => root[i] \in DOMAIN heap)
    BY DEF Graph, ClosedFromRoots
  <1>2. \A a \in DOMAIN heap : \A v \in Fields(heap[a]) :
          v \in Value /\ (CELL_P(v) => v \in DOMAIN heap)
    BY DEF Graph, ClosedFromRoots, Object, Value, Fields
  <1>3. ASSUME NEW i \in Roots, NEW v \in Held, Assign(i, v)
        PROVE  heap' = heap /\ Graph'
    <2>1. heap' = heap /\ root' = [root EXCEPT ![i] = v]
      BY <1>3 DEF Assign
    <2>2. v \in Value /\ (CELL_P(v) => v \in DOMAIN heap)
      BY <1>1, <1>2 DEF Held, Value, CELL_P
    <2> QED
      BY <2>1, <2>2 DEF Graph, ClosedFromRoots
  <1>4. ASSUME NEW i \in Roots, NEW j \in Roots, Redefine(i, j)
        PROVE  /\ Graph' /\ DOMAIN heap' = DOMAIN heap
               /\ \A a \in DOMAIN heap : heap'[a].size = heap[a].size
    <2> DEFINE b == heap[root[i]].car
               v == root[j]
    <2>1. /\ CELL_P(root[i]) /\ CELL_P(b) /\ heap[b].type = "pair"
          /\ heap' = [heap EXCEPT ![b].cdr = v] /\ root' = root
      BY <1>4 DEF Redefine
    <2>2. b \in DOMAIN heap /\ heap[b] \in Object
      BY <1>1, <1>2, <2>1 DEF Fields, Graph
    <2> HIDE DEF b
    <2>3. /\ DOMAIN heap' = DOMAIN heap
          /\ heap'[b] = [heap[b] EXCEPT !.cdr = v]
          /\ \A a \in DOMAIN heap : a # b => heap'[a] = heap[a]
      BY <2>1, <2>2
    <2>4. /\ heap'[b] \in Object /\ heap'[b].size = heap[b].size
          /\ Fields(heap'[b]) \subseteq Fields(heap[b]) \cup {v}
      BY <1>1, <2>1, <2>2, <2>3 DEF Object, Fields
    <2>5. heap' \in [DOMAIN heap -> Object]
      BY <2>1, <2>3, <2>4 DEF Graph
    <2>6. ClosedFromRoots(DOMAIN heap)'
      BY <1>1, <1>2, <2>1, <2>3, <2>4 DEF ClosedFromRoots
    <2> QED
      BY <2>1, <2>3, <2>4, <2>5, <2>6 DEF Graph
  <1>5. pc = "run" /\ UNCHANGED <<pc, req, k, g_GC_stress>>
    BY DEF Client, Assign, Redefine
  <1> QED
    BY <1>3, <1>4, <1>5 DEF Client

LEMMA RequestFacts ==
  ASSUME NEW r \in Requests
  PROVE  /\ r.size \in LeafSizes \cup {CellSize} /\ r.size \in Nat
         /\ r.dst \in Roots /\ r.a \in Roots /\ r.d \in Roots
         /\ r.type \in {"leaf", "pair"}
  BY SizesAssumption DEF Requests, LeafRequests, PairRequests

\* The new cell of a request, of n bytes at c, and the reference to it.
Adds(r, c, n) ==
  /\ heap' = [x \in DOMAIN heap \cup {c} |-> IF x = c THEN NewObject(r, n) ELSE heap[x]]
  /\ root' = [root EXCEPT ![r.dst] = c]

LEMMA NewCellKeepsGraph ==
  ASSUME Graph, NEW r \in Requests, NEW c \in Nat \ DOMAIN heap, NEW n \in Nat, Adds(r, c, n)
  PROVE  /\ Graph'
         /\ DOMAIN heap' = DOMAIN heap \cup {c}
         /\ heap'[c] = NewObject(r, n) /\ heap'[c].size = n
         /\ \A x \in DOMAIN heap : heap'[x] = heap[x]
  <1> DEFINE o == NewObject(r, n)
  <1>1. \A i \in Roots : root[i] \in Value /\ (CELL_P(root[i]) => root[i] \in DOMAIN heap)
    BY DEF Graph, ClosedFromRoots
  <1>2. /\ o \in Object /\ o.size = n
        /\ \A v \in Fields(o) : CELL_P(v) => v \in DOMAIN heap
    BY <1>1, RequestFacts DEF NewObject, Object, Value, Fields, CELL_P
  <1> HIDE DEF o
  <1>3. /\ heap' = [x \in DOMAIN heap \cup {c} |-> IF x = c THEN o ELSE heap[x]]
        /\ root' = [root EXCEPT ![r.dst] = c]
    BY DEF Adds, o
  <1>4. /\ DOMAIN heap' = DOMAIN heap \cup {c} /\ heap'[c] = o
        /\ \A x \in DOMAIN heap : heap'[x] = heap[x]
    BY <1>3
  <1>5. heap' \in [DOMAIN heap' -> Object]
    BY <1>2, <1>3, <1>4 DEF Graph
  <1>6. root' \in [Roots -> Value]
    BY <1>3 DEF Graph, Value
  <1>7. IsFiniteSet(DOMAIN heap')
    BY <1>4, FS_AddElement DEF Graph
  <1>8. ClosedFromRoots(DOMAIN heap)'
    <2>1. \A i \in Roots : CELL_P(root'[i]) => root'[i] \in DOMAIN heap'
      BY <1>1, <1>3, <1>4 DEF Graph
    <2>2. \A a \in DOMAIN heap' : \A v \in Fields(heap'[a]) : CELL_P(v) => v \in DOMAIN heap'
      BY <1>2, <1>4 DEF Graph, ClosedFromRoots
    <2> QED
      BY <2>1, <2>2 DEF ClosedFromRoots
  <1> QED
    BY <1>2, <1>4, <1>5, <1>6, <1>7, <1>8 DEF Graph, o

\* A finite set of natural numbers that is not empty has a greatest member.
LEMMA GreatestNat ==
  ASSUME NEW T \in SUBSET Nat, IsFiniteSet(T), T # {}
  PROVE  \E x \in T : \A y \in T : y <= x
  <1> DEFINE Above(x) == {y \in T : x < y}
             Sets == {Above(x) : x \in T}
  <1>1. IsWellFoundedOn(StrictSubsetOrdering(T), FiniteSubsetsOf(T))
    BY FS_StrictSubsetOrderingWellFounded
  <1>2. Sets \subseteq FiniteSubsetsOf(T)
    <2>1. ASSUME NEW x \in T
          PROVE  Above(x) \in SUBSET T /\ IsFiniteSet(Above(x))
      <3>1. Above(x) \subseteq T
        OBVIOUS
      <3> QED
        BY <3>1, FS_Subset
    <2> QED
      BY <2>1 DEF FiniteSubsetsOf
  <1>3. \E D \in Sets : \A E \in Sets : ~(<<E, D>> \in StrictSubsetOrdering(T))
    <2> Sets # {}
      OBVIOUS
    <2> HIDE DEF Sets
    <2> QED
      BY <1>1, <1>2, WFMin
  <1>4. PICK x \in T : \A y \in T : ~(<<Above(y), Above(x)>> \in StrictSubsetOrdering(T))
    BY <1>3
  <1>5. ASSUME NEW y \in T, x < y
        PROVE  FALSE
    <2> DEFINE p == <<Above(y), Above(x)>>
    <2>1. Above(y) \subseteq Above(x) /\ y \in Above(x) /\ y \notin Above(y)
      <3>1. x \in Nat /\ y \in Nat /\ \A z \in T : z \in Nat
        OBVIOUS
      <3>2. \A z \in T : y < z => x < z
        BY <1>5, <3>1
      <3>3. ~(y < y)
        BY <3>1
      <3> QED
        BY <1>5, <3>2, <3>3
    <2>2. p \in (SUBSET T) \X (SUBSET T)
      OBVIOUS
    <2>3. p[1] \subseteq p[2] /\ p[1] # p[2]
      BY <2>1
    <2>4. p \in StrictSubsetOrdering(T)
      <3> HIDE DEF p
      <3> QED
        BY <2>2, <2>3 DEF StrictSubsetOrdering
    <2> QED
      BY <1>4, <2>4
  <1>6. \A y \in T : y <= x
    <2> SUFFICES ASSUME NEW y \in T PROVE y <= x
      OBVIOUS
    <2>1. ~(x < y)
      BY <1>5
    <2>2. x \in Nat /\ y \in Nat
      OBVIOUS
    <2> QED
      BY <2>1, <2>2
  <1> QED
    BY <1>6

\* Cells that only move down and leave no address empty do not move at all.
LEMMA NobodyMoves ==
  ASSUME NEW D \in SUBSET Nat, IsFiniteSet(D), NEW S \in SUBSET D, NEW f,
         \A a \in S : f[a] \in D /\ f[a] <= a,
         \A x \in D : \E a \in S : f[a] = x
  PROVE  S = D /\ \A a \in D : f[a] = a
  <1> DEFINE T == {x \in D : ~(x \in S /\ f[x] = x)}
  <1>1. T = {}
    <2> SUFFICES ASSUME T # {} PROVE FALSE
      OBVIOUS
    <2>1. T \in SUBSET Nat /\ IsFiniteSet(T)
      BY FS_Subset
    <2>2. PICK x \in T : \A y \in T : y <= x
      <3> HIDE DEF T
      <3> QED
        BY <2>1, GreatestNat
    <2>3. PICK a \in S : f[a] = x
      BY <2>2
    <2>4. a \in D /\ a \in Nat /\ x \in Nat /\ x <= a
      BY <2>3
    <2>5. a # x
      BY <2>2, <2>3
    <2>6. a \notin T
      BY <2>2, <2>4, <2>5
    <2> QED
      BY <2>3, <2>4, <2>5, <2>6
  <1> QED
    BY <1>1

-----------------------------------------------------------------------------
(* Lists in address order. *)

Sorted(list) == \A i, j \in 1 .. Len(list) : i < j => list[i] < list[j]

\* A set of natural numbers that is not empty has a least member.
LEMMA LeastNat ==
  ASSUME NEW T \in SUBSET Nat, T # {}
  PROVE  \E x \in T : \A y \in T : x <= y
  <1> DEFINE Down == {0 .. x : x \in T}
  <1>1. IsWellFoundedOn(StrictSubsetOrdering(Nat), FiniteSubsetsOf(Nat))
    BY FS_StrictSubsetOrderingWellFounded
  <1>2. Down \subseteq FiniteSubsetsOf(Nat)
    <2>1. ASSUME NEW x \in T
          PROVE  0 .. x \in SUBSET Nat /\ IsFiniteSet(0 .. x)
      BY FS_Interval
    <2> QED
      BY <2>1 DEF FiniteSubsetsOf
  <1>3. \E D \in Down : \A E \in Down : ~(<<E, D>> \in StrictSubsetOrdering(Nat))
    <2> Down # {}
      OBVIOUS
    <2> HIDE DEF Down
    <2> QED
      BY <1>1, <1>2, WFMin
  <1>4. PICK x \in T : \A y \in T : ~(<<0 .. y, 0 .. x>> \in StrictSubsetOrdering(Nat))
    BY <1>3
  <1>5. ASSUME NEW y \in T, y < x
        PROVE  FALSE
    <2> DEFINE p == <<0 .. y, 0 .. x>>
    <2>1. 0 .. y \subseteq 0 .. x /\ x \in 0 .. x /\ x \notin 0 .. y
      BY <1>5
    <2>2. p \in (SUBSET Nat) \X (SUBSET Nat)
      OBVIOUS
    <2>3. p[1] \subseteq p[2] /\ p[1] # p[2]
      BY <2>1
    <2>4. p \in StrictSubsetOrdering(Nat)
      <3> HIDE DEF p
      <3> QED
        BY <2>2, <2>3 DEF StrictSubsetOrdering
    <2> QED
      BY <1>4, <2>4
  <1> QED
    BY <1>5

\* A list as a function on 1 .. n, for the arithmetic of positions.
Rises(f, n)  == \A i, j \in 1 .. n : i < j => f[i] < f[j]
Values(f, n) == {f[i] : i \in 1 .. n}

IsList(f, n) == n \in Nat /\ \A j \in 1 .. n : f[j] \in Nat

\* t is f without its element i, with c instead of it, or with c behind it; and
\* c is above the elements before its place and below those behind.
Omits(t, f, n, i)       == \A j \in 1 .. n - 1 : t[j] = IF j < i THEN f[j] ELSE f[j + 1]
Replaces(t, f, n, i, c) == \A j \in 1 .. n : t[j] = IF j = i THEN c ELSE f[j]
Inserts(t, f, n, i, c)  ==
  \A j \in 1 .. n + 1 : t[j] = IF j <= i THEN f[j] ELSE IF j = i + 1 THEN c ELSE f[j - 1]
FitsAt(f, n, i, c)      == \A j \in 1 .. n : (j < i => f[j] < c) /\ (i < j => c < f[j])
FitsBehind(f, n, i, c)  == \A j \in 1 .. n : (j <= i => f[j] < c) /\ (i < j => c < f[j])

LEMMA SortedIsRises ==
  ASSUME NEW list
  PROVE  /\ Sorted(list) <=> Rises(list, Len(list))
         /\ Elems(list) = Values(list, Len(list))
  BY DEF Sorted, Rises, Elems, Values

LEMMA RisingDiffers ==
  ASSUME NEW n \in Nat, NEW f, \A j \in 1 .. n : f[j] \in Nat, Rises(f, n)
  PROVE  \A i, j \in 1 .. n : i # j => f[i] # f[j]
  <1> SUFFICES ASSUME NEW i \in 1 .. n, NEW j \in 1 .. n, i # j
               PROVE  f[i] # f[j]
    OBVIOUS
  <1>1. f[i] < f[j] \/ f[j] < f[i]
    BY DEF Rises
  <1> QED
    BY <1>1

\* A list without its element i.
LEMMA RisesWithout ==
  ASSUME NEW n, NEW f, IsList(f, n), Rises(f, n), NEW i \in 1 .. n, NEW t, Omits(t, f, n, i)
  PROVE  Rises(t, n - 1) /\ Values(t, n - 1) = Values(f, n) \ {f[i]}
  <1> USE DEF IsList, Omits
  <1>1. Rises(t, n - 1)
    <2> SUFFICES ASSUME NEW x \in 1 .. n - 1, NEW y \in 1 .. n - 1, x < y
                 PROVE  t[x] < t[y]
      BY DEF Rises
    <2> DEFINE Old(z) == IF z < i THEN z ELSE z + 1
    <2>1. Old(x) \in 1 .. n /\ Old(y) \in 1 .. n /\ Old(x) < Old(y)
      OBVIOUS
    <2>2. t[x] = f[Old(x)] /\ t[y] = f[Old(y)]
      OBVIOUS
    <2> HIDE DEF Old
    <2> QED
      BY <2>1, <2>2 DEF Rises
  <1>2. ASSUME NEW j \in 1 .. n - 1
        PROVE  t[j] \in Values(f, n) \ {f[i]}
    <2> DEFINE Old(z) == IF z < i THEN z ELSE z + 1
    <2>1. Old(j) \in 1 .. n /\ Old(j) # i
      OBVIOUS
    <2>2. t[j] = f[Old(j)]
      OBVIOUS
    <2> HIDE DEF Old
    <2> QED
      BY <2>1, <2>2, RisingDiffers DEF Values
  <1>3. ASSUME NEW j \in 1 .. n, f[j] # f[i]
        PROVE  f[j] \in Values(t, n - 1)
    <2>1. CASE j < i
      <3>1. j \in 1 .. n - 1 /\ t[j] = f[j]
        BY <2>1
      <3> QED
        BY <3>1 DEF Values
    <2>2. CASE j > i
      <3>1. j - 1 \in 1 .. n - 1 /\ t[j - 1] = f[j]
        BY <2>2
      <3> QED
        BY <3>1 DEF Values
    <2> QED
      BY <1>3, <2>1, <2>2
  <1> QED
    BY <1>1, <1>2, <1>3 DEF Values

\* A list with c in the place of its element i.
LEMMA RisesReplaced ==
  ASSUME NEW n, NEW f, IsList(f, n), Rises(f, n), NEW i \in 1 .. n, NEW c, FitsAt(f, n, i, c),
         NEW t, Replaces(t, f, n, i, c)
  PROVE  Rises(t, n) /\ Values(t, n) = (Values(f, n) \ {f[i]}) \cup {c}
  <1> USE DEF IsList, Replaces, FitsAt
  <1>1. Rises(t, n)
    BY DEF Rises
  <1>2. \A j \in 1 .. n : j # i => f[j] # f[i]
    BY RisingDiffers
  <1> QED
    BY <1>1, <1>2 DEF Values

\* A list with c inserted behind its element i.
LEMMA RisesWith ==
  ASSUME NEW n, NEW f, IsList(f, n), Rises(f, n), NEW i \in 0 .. n, NEW c,
         FitsBehind(f, n, i, c), NEW t, Inserts(t, f, n, i, c)
  PROVE  Rises(t, n + 1) /\ Values(t, n + 1) = Values(f, n) \cup {c}
  <1> USE DEF IsList, Inserts, FitsBehind
  <1> DEFINE Old(z) == IF z <= i THEN z ELSE z - 1
  <1>1. ASSUME NEW x \in 1 .. n + 1, x # i + 1
        PROVE  Old(x) \in 1 .. n /\ t[x] = f[Old(x)]
    BY <1>1
  <1>2. t[i + 1] = c /\ i + 1 \in 1 .. n + 1
    OBVIOUS
  <1>3. Rises(t, n + 1)
    <2> SUFFICES ASSUME NEW x \in 1 .. n + 1, NEW y \in 1 .. n + 1, x < y
                 PROVE  t[x] < t[y]
      BY DEF Rises
    <2>1. CASE x # i + 1 /\ y # i + 1
      <3>1. Old(x) < Old(y)
        BY <2>1
      <3> HIDE DEF Old
      <3> QED
        BY <1>1, <2>1, <3>1 DEF Rises
    <2>2. CASE x = i + 1
      <3>1. y # i + 1 /\ i < Old(y)
        BY <2>2
      <3> HIDE DEF Old
      <3> QED
        BY <1>1, <1>2, <2>2, <3>1
    <2>3. CASE y = i + 1
      <3>1. x # i + 1 /\ Old(x) <= i
        BY <2>3
      <3> HIDE DEF Old
      <3> QED
        BY <1>1, <1>2, <2>3, <3>1
    <2> QED
      BY <2>1, <2>2, <2>3
  <1>4. Values(t, n + 1) \subseteq Values(f, n) \cup {c}
    <2> HIDE DEF Old
    <2> QED
      BY <1>1, <1>2 DEF Values
  <1>5. ASSUME NEW j \in 1 .. n
        PROVE  f[j] \in Values(t, n + 1)
    <2>1. CASE j <= i
      <3>1. j \in 1 .. n + 1 /\ t[j] = f[j]
        BY <2>1
      <3> QED
        BY <3>1 DEF Values
    <2>2. CASE i < j
      <3>1. j + 1 \in 1 .. n + 1 /\ t[j + 1] = f[j]
        BY <2>2
      <3> QED
        BY <3>1 DEF Values
    <2> QED
      BY <2>1, <2>2
  <1>6. c \in Values(t, n + 1)
    BY <1>2 DEF Values
  <1> QED
    BY <1>3, <1>4, <1>5, <1>6 DEF Values

-----------------------------------------------------------------------------
(* The list operations of the two functions. *)

LEMMA PartOfList ==
  ASSUME NEW list \in Seq(Nat), NEW m \in Int, NEW n \in Int, 1 <= m, n <= Len(list)
  PROVE  /\ SubSeq(list, m, n) \in Seq(Nat)
         /\ Len(SubSeq(list, m, n)) = IF m <= n THEN n - m + 1 ELSE 0
         /\ \A j \in 1 .. n - m + 1 : SubSeq(list, m, n)[j] = list[m + j - 1]
  <1>1. Len(list) \in Nat
    BY LenProperties
  <1>2. \A j \in m .. n : list[j] \in Nat
    BY <1>1, ElementOfSeq
  <1> QED
    BY <1>2, SubSeqProperties

LEMMA ListWithout ==
  ASSUME NEW list \in Seq(Nat), Sorted(list), NEW i \in 1 .. Len(list)
  PROVE  LET t == SubSeq(list, 1, i - 1) \o SubSeq(list, i + 1, Len(list))
         IN  t \in Seq(Nat) /\ Sorted(t) /\ Elems(t) = Elems(list) \ {list[i]}
  <1> DEFINE u == SubSeq(list, 1, i - 1)
             v == SubSeq(list, i + 1, Len(list))
             t == u \o v
             n == Len(list)
  <1>1. n \in Nat /\ i \in 1 .. n /\ \A j \in 1 .. n : list[j] \in Nat
    BY LenProperties, ElementOfSeq
  <1>2. /\ u \in Seq(Nat) /\ Len(u) = i - 1
        /\ \A j \in 1 .. i - 1 : u[j] = list[j]
    <2>1. /\ u \in Seq(Nat) /\ Len(u) = IF 1 <= i - 1 THEN (i - 1) - 1 + 1 ELSE 0
          /\ \A j \in 1 .. (i - 1) - 1 + 1 : u[j] = list[1 + j - 1]
      BY <1>1, PartOfList
    <2> HIDE DEF u, n
    <2> QED
      BY <1>1, <2>1
  <1>3. /\ v \in Seq(Nat) /\ Len(v) = n - i
        /\ \A j \in 1 .. n - i : v[j] = list[i + j]
    <2>1. /\ v \in Seq(Nat) /\ Len(v) = IF i + 1 <= n THEN n - (i + 1) + 1 ELSE 0
          /\ \A j \in 1 .. n - (i + 1) + 1 : v[j] = list[i + 1 + j - 1]
      BY <1>1, PartOfList
    <2> HIDE DEF v, n
    <2> QED
      BY <1>1, <2>1
  <1> HIDE DEF u, v
  <1>4. /\ t \in Seq(Nat) /\ Len(t) = Len(u) + Len(v)
        /\ \A j \in 1 .. Len(u) + Len(v) : t[j] = IF j <= Len(u) THEN u[j] ELSE v[j - Len(u)]
    BY <1>2, <1>3, ConcatProperties
  <1>5. Rises(list, n) /\ Elems(list) = Values(list, n)
    BY SortedIsRises
  <1> HIDE DEF t, n
  <1>6. Len(t) = n - 1
    BY <1>1, <1>2, <1>3, <1>4
  <1>7. \A j \in 1 .. n - 1 : t[j] = IF j < i THEN list[j] ELSE list[j + 1]
    <2> SUFFICES ASSUME NEW j \in 1 .. n - 1
                 PROVE  t[j] = IF j < i THEN list[j] ELSE list[j + 1]
      OBVIOUS
    <2>1. j \in 1 .. Len(u) + Len(v)
      BY <1>1, <1>2, <1>3
    <2>2. CASE j < i
      BY <1>1, <1>2, <1>4, <2>1, <2>2
    <2>3. CASE ~(j < i)
      <3>1. j - Len(u) \in 1 .. n - i /\ i + (j - Len(u)) = j + 1 /\ ~(j <= Len(u))
        BY <1>1, <1>2, <2>3
      <3> QED
        BY <1>3, <1>4, <2>1, <2>3, <3>1
    <2> QED
      BY <2>2, <2>3
  <1>8. Rises(t, n - 1) /\ Values(t, n - 1) = Values(list, n) \ {list[i]}
    <2>1. IsList(list, n) /\ Omits(t, list, n, i)
      BY <1>1, <1>7 DEF IsList, Omits
    <2> QED
      BY <1>1, <1>5, <2>1, RisesWithout
  <1> QED
    BY <1>4, <1>5, <1>6, <1>8, SortedIsRises DEF t, u, v

LEMMA ListReplaced ==
  ASSUME NEW list \in Seq(Nat), Sorted(list), NEW i \in 1 .. Len(list), NEW c \in Nat,
         FitsAt(list, Len(list), i, c),
         NEW t \in Seq(Nat), Len(t) = Len(list), Replaces(t, list, Len(list), i, c)
  PROVE  Sorted(t) /\ Elems(t) = (Elems(list) \ {list[i]}) \cup {c}
  <1>1. IsList(list, Len(list))
    BY LenProperties, ElementOfSeq DEF IsList
  <1>2. Rises(list, Len(list)) /\ Elems(list) = Values(list, Len(list))
    BY SortedIsRises
  <1>3. /\ Rises(t, Len(list))
        /\ Values(t, Len(list)) = (Values(list, Len(list)) \ {list[i]}) \cup {c}
    BY <1>1, <1>2, RisesReplaced
  <1> QED
    BY <1>2, <1>3, SortedIsRises

LEMMA ListWith ==
  ASSUME NEW list \in Seq(Nat), Sorted(list), NEW i \in 0 .. Len(list), NEW c \in Nat,
         FitsBehind(list, Len(list), i, c),
         NEW t \in Seq(Nat), Len(t) = Len(list) + 1, Inserts(t, list, Len(list), i, c)
  PROVE  Sorted(t) /\ Elems(t) = Elems(list) \cup {c}
  <1>1. IsList(list, Len(list))
    BY LenProperties, ElementOfSeq DEF IsList
  <1>2. Rises(list, Len(list)) /\ Elems(list) = Values(list, Len(list))
    BY SortedIsRises
  <1>3. /\ Rises(t, Len(list) + 1)
        /\ Values(t, Len(list) + 1) = Values(list, Len(list)) \cup {c}
    BY <1>1, <1>2, RisesWith
  <1> QED
    BY <1>2, <1>3, SortedIsRises

-----------------------------------------------------------------------------
(* aq_get_free_chunk *)

\* Chunks at natural addresses, that do not overlap.
SizesType(sizes) == DOMAIN sizes \subseteq Nat /\ \A x \in DOMAIN sizes : sizes[x] \in Nat
Apart(sizes)     == \A a, b \in DOMAIN sizes : a < b => a + sizes[a] <= b

\* The search finds a first chunk that fits, if one fits.
LEMMA FirstFits ==
  ASSUME NEW list, Len(list) \in Nat, NEW sizes, NEW size, Fits(list, sizes, size) # {}
  PROVE  FirstFit(list, sizes, size) \in Fits(list, sizes, size)
  <1>1. Fits(list, sizes, size) \in SUBSET Nat
    BY DEF Fits
  <1>2. \E i \in Fits(list, sizes, size) : \A j \in Fits(list, sizes, size) : i <= j
    BY <1>1, LeastNat
  <1> QED
    BY <1>2 DEF FirstFit

\* The whole chunk c is taken.
TakesWhole(got, list, sizes, c) ==
  /\ got.rest = NULL
  /\ got.size = sizes[c]
  /\ got.sizes = Drop(sizes, c)
  /\ Elems(got.list) = Elems(list) \ {c}

\* The first bytes of c are taken; the rest is a chunk in its place.
TakesPart(got, list, sizes, c, size) ==
  /\ got.rest = c + size
  /\ got.size = size
  /\ size + FreeChunkSize <= sizes[c]
  /\ got.sizes = WithSize(Drop(sizes, c), c + size, sizes[c] - size)
  /\ Elems(got.list) = (Elems(list) \ {c}) \cup {c + size}

LEMMA GetFreeChunkFacts ==
  ASSUME NEW sizes, SizesType(sizes), Apart(sizes),
         NEW list \in Seq(Nat), Elems(list) \subseteq DOMAIN sizes, Sorted(list),
         NEW size \in Nat \ {0},
         NEW got, got = GetFreeChunk(list, sizes, size), got.chunk # NULL
  PROVE  /\ got.chunk \in Elems(list)
         /\ size <= sizes[got.chunk]
         /\ got.list \in Seq(Nat) /\ Sorted(got.list)
         /\ \/ TakesWhole(got, list, sizes, got.chunk)
            \/ TakesPart(got, list, sizes, got.chunk, size)
  <1> DEFINE i == FirstFit(list, sizes, size)
             c == list[i]
             n == Len(list)
             w == SubSeq(list, 1, i - 1) \o SubSeq(list, i + 1, Len(list))
  <1>1. n \in Nat
    BY LenProperties
  <1>2. Fits(list, sizes, size) # {}
    BY DEF GetFreeChunk
  <1>3. i \in 1 .. n /\ sizes[c] >= size
    BY <1>1, <1>2, FirstFits DEF Fits
  <1>4. c \in Elems(list) /\ c \in Nat /\ sizes[c] \in Nat
    BY <1>3 DEF Elems, SizesType
  <1>5. got = [chunk |-> c,
               size  |-> IF Splits(sizes[c], size) THEN size ELSE sizes[c],
               rest  |-> IF Splits(sizes[c], size) THEN c + size ELSE NULL,
               list  |-> IF Splits(sizes[c], size) THEN [list EXCEPT ![i] = c + size]
                         ELSE w,
               sizes |-> IF Splits(sizes[c], size)
                         THEN WithSize(Drop(sizes, c), c + size, sizes[c] - size)
                         ELSE Drop(sizes, c)]
    BY <1>2 DEF GetFreeChunk
  <1>6. got.chunk = c
    BY <1>5
  <1> HIDE DEF i, w
  <1>7. CASE Splits(sizes[c], size)
    <2> DEFINE t == [list EXCEPT ![i] = c + size]
    <2>1. /\ got.rest = c + size /\ got.size = size /\ got.list = t
          /\ got.sizes = WithSize(Drop(sizes, c), c + size, sizes[c] - size)
      BY <1>5, <1>7
    <2>2. size + FreeChunkSize <= sizes[c] /\ c + size < c + sizes[c] /\ c + size \in Nat
      BY <1>4, <1>7, FreeChunkAssumption DEF Splits
    <2>3. t \in Seq(Nat) /\ Len(t) = n /\ Replaces(t, list, n, i, c + size)
      BY <1>3, <2>2, ExceptSeq DEF Replaces
    <2>4. FitsAt(list, n, i, c + size)
      <3> SUFFICES ASSUME NEW j \in 1 .. n
                   PROVE  (j < i => list[j] < c + size) /\ (i < j => c + size < list[j])
        BY DEF FitsAt
      <3>1. list[j] \in DOMAIN sizes /\ list[j] \in Nat
        BY DEF Elems, SizesType
      <3>2. (j < i => list[j] < c) /\ (i < j => c < list[j])
        BY <1>3 DEF Sorted
      <3>3. c < list[j] => c + sizes[c] <= list[j]
        BY <1>4, <3>1 DEF Apart
      <3> DEFINE l == list[j]
                 s == sizes[c]
      <3>4. c \in Nat /\ l \in Nat /\ s \in Nat /\ size \in Nat /\ c + size < c + s
        BY <1>4, <2>2, <3>1
      <3>5. (j < i => l < c) /\ (i < j => c < l) /\ (c < l => c + s <= l)
        BY <3>2, <3>3
      <3> HIDE DEF l, s, c
      <3>6. (j < i => l < c + size) /\ (i < j => c + size < l)
        BY <3>4, <3>5
      <3> QED
        BY <3>6 DEF l
    <2> HIDE DEF t
    <2>5. Sorted(t) /\ Elems(t) = (Elems(list) \ {c}) \cup {c + size}
      BY <1>3, <2>2, <2>3, <2>4, ListReplaced
    <2> QED
      BY <1>3, <1>4, <1>6, <2>1, <2>2, <2>3, <2>5 DEF TakesPart
  <1>8. CASE ~Splits(sizes[c], size)
    <2>1. /\ got.rest = NULL /\ got.size = sizes[c] /\ got.list = w
          /\ got.sizes = Drop(sizes, c)
      BY <1>5, <1>8
    <2>2. w \in Seq(Nat) /\ Sorted(w) /\ Elems(w) = Elems(list) \ {c}
      BY <1>3, ListWithout DEF w
    <2> QED
      BY <1>3, <1>4, <1>6, <2>1, <2>2 DEF TakesWhole
  <1> QED
    BY <1>7, <1>8

-----------------------------------------------------------------------------
(* put_chunk_to_freelist *)

\* The chunk stays as it is, or is merged with the one behind it, the one before
\* it, or both.
PutsAlone(put, sizes, c, size) == put.sizes = WithSize(sizes, c, size)
PutsWithNext(put, sizes, c, size) ==
  /\ c + size \in DOMAIN sizes
  /\ put.sizes = WithSize(Drop(sizes, c + size), c, size + sizes[c + size])
PutsWithPrev(put, sizes, c, size, prev) ==
  /\ prev + sizes[prev] = c
  /\ put.sizes = WithSize(sizes, prev, sizes[prev] + size)
PutsWithBoth(put, sizes, c, size, prev) ==
  /\ prev + sizes[prev] = c
  /\ c + size \in DOMAIN sizes
  /\ put.sizes = WithSize(Drop(sizes, c + size), prev, sizes[prev] + size + sizes[c + size])

\* The list stays in address order and holds every chunk there is.
PutKeeps(put) ==
  put.list \in Seq(Nat) /\ Sorted(put.list) /\ Elems(put.list) = DOMAIN put.sizes

PutOutcome(put, sizes, c, size) ==
  \/ PutsAlone(put, sizes, c, size)
  \/ PutsWithNext(put, sizes, c, size)
  \/ \E prev \in DOMAIN sizes :
       PutsWithPrev(put, sizes, c, size, prev) \/ PutsWithBoth(put, sizes, c, size, prev)

LEMMA WithSizeDomain ==
  ASSUME NEW sizes, NEW a, NEW n
  PROVE  DOMAIN WithSize(sizes, a, n) = DOMAIN sizes \cup {a}
  BY DEF WithSize

LEMMA PutFirstFacts ==
  ASSUME NEW list \in Seq(Nat), Sorted(list), list # <<>>, NEW sizes, Elems(list) = DOMAIN sizes,
         NEW c \in Nat, NEW size \in Nat, c < list[1]
  PROVE  LET put == PutFirst(list, sizes, c, size)
         IN  PutKeeps(put) /\ PutOutcome(put, sizes, c, size)
  <1> DEFINE n == Len(list)
  <1>1. n \in Nat /\ 1 \in 1 .. n
    BY LenProperties, EmptySeq
  <1>2. list[1] \in Nat /\ \A j \in 1 .. n : list[j] \in Nat /\ (1 < j => list[1] < list[j])
    BY <1>1, ElementOfSeq DEF Sorted
  <1>3. <<c>> \in Seq(Nat) /\ Len(<<c>>) = 1 /\ <<c>>[1] = c
    OBVIOUS
  <1>4. CASE c + size = list[1]
    <2> DEFINE put == Result(<<c>> \o Tail(list),
                             WithSize(Drop(sizes, list[1]), c, size + sizes[list[1]]))
               t   == <<c>> \o Tail(list)
    <2>1. PutFirst(list, sizes, c, size) = put
      BY <1>4 DEF PutFirst
    <2>2. put.list = t /\ put.sizes = WithSize(Drop(sizes, list[1]), c, size + sizes[list[1]])
      BY DEF Result
    <2>3. /\ Tail(list) \in Seq(Nat) /\ Len(Tail(list)) = n - 1
          /\ \A j \in 1 .. n - 1 : Tail(list)[j] = list[j + 1]
      BY HeadTailProperties
    <2>4. /\ t \in Seq(Nat) /\ Len(t) = 1 + (n - 1)
          /\ \A j \in 1 .. 1 + (n - 1) : t[j] = IF j <= 1 THEN <<c>>[j] ELSE Tail(list)[j - 1]
      BY <1>3, <2>3, ConcatProperties
    <2> HIDE DEF t
    <2>5. Len(t) = n /\ Replaces(t, list, n, 1, c)
      <3> HIDE DEF n
      <3>1. ASSUME NEW j \in 1 .. n
            PROVE  t[j] = IF j = 1 THEN c ELSE list[j]
        <4>1. j \in 1 .. 1 + (n - 1) /\ (j <= 1 <=> j = 1) /\ (j # 1 => j - 1 \in 1 .. n - 1)
          BY <1>1
        <4>2. j - 1 + 1 = j
          OBVIOUS
        <4> QED
          BY <1>3, <2>3, <2>4, <4>1, <4>2
      <3> QED
        BY <1>1, <2>4, <3>1 DEF Replaces
    <2>6. FitsAt(list, n, 1, c)
      BY <1>1, <1>2 DEF FitsAt
    <2>7. Sorted(t) /\ Elems(t) = (Elems(list) \ {list[1]}) \cup {c}
      BY <1>1, <2>4, <2>5, <2>6, ListReplaced
    <2> HIDE DEF put
    <2>9. list[1] \in DOMAIN sizes
      BY <1>1 DEF Elems
    <2>8. Elems(t) = DOMAIN put.sizes
      <3>1. DOMAIN put.sizes = (DOMAIN sizes \ {list[1]}) \cup {c}
        <4>1. DOMAIN WithSize(Drop(sizes, list[1]), c, size + sizes[list[1]])
                = (DOMAIN sizes \ {list[1]}) \cup {c}
          BY DEF WithSize, Drop
        <4> QED
          BY <2>2, <4>1, Zenon
      <3> QED
        BY <2>7, <3>1
    <2>10. PutKeeps(put)
      BY <2>2, <2>4, <2>7, <2>8 DEF PutKeeps
    <2>11. PutsWithNext(put, sizes, c, size)
      BY <1>4, <2>2, <2>9 DEF PutsWithNext
    <2> QED
      BY <2>1, <2>10, <2>11 DEF PutOutcome
  <1>5. CASE c + size # list[1]
    <2> DEFINE put == Result(<<c>> \o list, WithSize(sizes, c, size))
               t   == <<c>> \o list
    <2>1. PutFirst(list, sizes, c, size) = put
      BY <1>5 DEF PutFirst
    <2>2. put.list = t /\ put.sizes = WithSize(sizes, c, size)
      BY DEF Result
    <2>3. /\ t \in Seq(Nat) /\ Len(t) = 1 + n
          /\ \A j \in 1 .. 1 + n : t[j] = IF j <= 1 THEN <<c>>[j] ELSE list[j - 1]
      BY <1>3, ConcatProperties
    <2> HIDE DEF t
    <2>4. Len(t) = n + 1 /\ Inserts(t, list, n, 0, c)
      <3> HIDE DEF n
      <3> QED
        BY <1>1, <1>3, <2>3 DEF Inserts
    <2>5. FitsBehind(list, n, 0, c) /\ 0 \in 0 .. n
      BY <1>1, <1>2 DEF FitsBehind
    <2>6. Sorted(t) /\ Elems(t) = Elems(list) \cup {c}
      BY <2>3, <2>4, <2>5, ListWith
    <2> HIDE DEF put
    <2>7. Elems(t) = DOMAIN put.sizes
      <3>1. DOMAIN put.sizes = DOMAIN sizes \cup {c}
        <4>1. DOMAIN WithSize(sizes, c, size) = DOMAIN sizes \cup {c}
          BY DEF WithSize
        <4> QED
          BY <2>2, <4>1
      <3> QED
        BY <2>6, <3>1
    <2>8. PutKeeps(put)
      BY <2>2, <2>3, <2>6, <2>7 DEF PutKeeps
    <2>9. PutsAlone(put, sizes, c, size)
      BY <2>2 DEF PutsAlone
    <2> QED
      BY <2>1, <2>8, <2>9 DEF PutOutcome
  <1> QED
    BY <1>4, <1>5

LEMMA InsertFacts ==
  ASSUME NEW list \in Seq(Nat), NEW i \in 1 .. Len(list), NEW c \in Nat
  PROVE  LET t == Insert(list, i, c)
         IN  t \in Seq(Nat) /\ Len(t) = Len(list) + 1 /\ Inserts(t, list, Len(list), i, c)
  <1> DEFINE n == Len(list)
             u == SubSeq(list, 1, i)
             v == SubSeq(list, i + 1, n)
             w == u \o <<c>>
             t == w \o v
  <1>1. n \in Nat /\ i \in 1 .. n
    BY LenProperties
  <1>2. /\ u \in Seq(Nat) /\ Len(u) = i
        /\ \A j \in 1 .. i : u[j] = list[j]
    <2>1. /\ u \in Seq(Nat) /\ Len(u) = IF 1 <= i THEN i - 1 + 1 ELSE 0
          /\ \A j \in 1 .. i - 1 + 1 : u[j] = list[1 + j - 1]
      BY <1>1, PartOfList
    <2> HIDE DEF u, n
    <2> QED
      BY <1>1, <2>1
  <1>3. /\ v \in Seq(Nat) /\ Len(v) = n - i
        /\ \A j \in 1 .. n - i : v[j] = list[i + j]
    <2>1. /\ v \in Seq(Nat) /\ Len(v) = IF i + 1 <= n THEN n - (i + 1) + 1 ELSE 0
          /\ \A j \in 1 .. n - (i + 1) + 1 : v[j] = list[i + 1 + j - 1]
      <3>1. i + 1 \in Int /\ n \in Int /\ 1 <= i + 1 /\ n <= Len(list)
        BY <1>1
      <3> HIDE DEF n
      <3> QED
        BY <3>1, PartOfList
    <2> HIDE DEF v, n
    <2> QED
      BY <1>1, <2>1
  <1>4. <<c>> \in Seq(Nat) /\ Len(<<c>>) = 1 /\ <<c>>[1] = c
    OBVIOUS
  <1> HIDE DEF u, v
  <1>5. /\ w \in Seq(Nat) /\ Len(w) = i + 1
        /\ \A j \in 1 .. i + 1 : w[j] = IF j <= i THEN u[j] ELSE <<c>>[j - i]
    <2>1. /\ w \in Seq(Nat) /\ Len(w) = Len(u) + Len(<<c>>)
          /\ \A j \in 1 .. Len(u) + Len(<<c>>) :
               w[j] = IF j <= Len(u) THEN u[j] ELSE <<c>>[j - Len(u)]
      BY <1>2, <1>4, ConcatProperties
    <2> QED
      BY <1>2, <1>4, <2>1
  <1> HIDE DEF w
  <1>6. /\ t \in Seq(Nat) /\ Len(t) = Len(w) + Len(v)
        /\ \A j \in 1 .. Len(w) + Len(v) : t[j] = IF j <= Len(w) THEN w[j] ELSE v[j - Len(w)]
    BY <1>3, <1>5, ConcatProperties
  <1> HIDE DEF t, n
  <1>7. Len(t) = n + 1
    BY <1>1, <1>3, <1>5, <1>6
  <1>8. ASSUME NEW j \in 1 .. n + 1
        PROVE  t[j] = IF j <= i THEN list[j] ELSE IF j = i + 1 THEN c ELSE list[j - 1]
    <2>1. j \in 1 .. Len(w) + Len(v)
      BY <1>1, <1>3, <1>5
    <2>2. CASE j <= i
      <3>1. t[j] = w[j] /\ w[j] = u[j] /\ u[j] = list[j]
        BY <1>1, <1>2, <1>5, <1>6, <2>1, <2>2
      <3> QED
        BY <2>2, <3>1
    <2>3. CASE j = i + 1
      <3>1. t[j] = w[j] /\ w[j] = <<c>>[j - i] /\ j - i = 1
        BY <1>1, <1>5, <1>6, <2>1, <2>3
      <3> QED
        BY <1>1, <1>4, <2>3, <3>1
    <2>4. CASE i + 1 < j
      <3>1. j - (i + 1) \in 1 .. n - i /\ i + (j - (i + 1)) = j - 1 /\ ~(j <= i + 1)
        BY <1>1, <2>4
      <3>2. t[j] = v[j - (i + 1)] /\ v[j - (i + 1)] = list[j - 1]
        BY <1>3, <1>5, <1>6, <2>1, <3>1
      <3> QED
        BY <1>1, <2>4, <3>2
    <2> QED
      BY <1>1, <2>2, <2>3, <2>4
  <1>9. Insert(list, i, c) = t
    BY DEF Insert, t, w, u, v, n
  <1> QED
    BY <1>6, <1>7, <1>8, <1>9 DEF Inserts, n

LEMMA PutBetweenFacts ==
  ASSUME NEW list \in Seq(Nat), Sorted(list), NEW sizes, SizesType(sizes),
         Elems(list) = DOMAIN sizes,
         NEW i \in 1 .. Len(list) - 1, NEW c \in Nat, NEW size \in Nat,
         list[i] < c, c < list[i + 1]
  PROVE  LET put == PutBetween(list, sizes, i, c, size)
         IN  PutKeeps(put) /\ PutOutcome(put, sizes, c, size)
  <1> DEFINE n    == Len(list)
             prev == list[i]
             next == list[i + 1]
             put  == PutBetween(list, sizes, i, c, size)
             joinsPrev == prev + sizes[prev] = c
             joinsNext == c + size = next
  <1>1. n \in Nat /\ i \in 1 .. n /\ i + 1 \in 1 .. n
    BY LenProperties
  <1>2. prev \in DOMAIN sizes /\ next \in DOMAIN sizes /\ prev # c /\ prev # next
    <2>1. prev \in Nat /\ next \in Nat
      BY <1>1, ElementOfSeq
    <2>2. prev < next
      BY <1>1 DEF Sorted
    <2>3. prev \in Elems(list) /\ next \in Elems(list)
      BY <1>1 DEF Elems
    <2>4. prev < c
      OBVIOUS
    <2> HIDE DEF prev, next
    <2>5. prev # c /\ prev # next
      BY <2>1, <2>2, <2>4
    <2> QED
      BY <2>3, <2>5
  <1>3. \A j \in 1 .. n : (j <= i => list[j] < c) /\ (i + 1 <= j => c < list[j])
    <2> SUFFICES ASSUME NEW j \in 1 .. n
                 PROVE  (j <= i => list[j] < c) /\ (i + 1 <= j => c < list[j])
      OBVIOUS
    <2>1. list[j] \in Nat /\ prev \in Nat /\ next \in Nat
      BY <1>1, ElementOfSeq
    <2>2. (j < i => list[j] < prev) /\ (i + 1 < j => next < list[j])
      BY <1>1 DEF Sorted
    <2>3. (j = i => list[j] = prev) /\ (j = i + 1 => list[j] = next)
      OBVIOUS
    <2>4. prev < c /\ c < next
      OBVIOUS
    <2> HIDE DEF prev, next
    <2>5. j <= i => list[j] < c
      <3>1. j <= i => j < i \/ j = i
        BY <1>1
      <3> QED
        BY <2>1, <2>2, <2>3, <2>4, <3>1
    <2>6. i + 1 <= j => c < list[j]
      <3>1. i + 1 <= j => i + 1 < j \/ j = i + 1
        BY <1>1
      <3> QED
        BY <2>1, <2>2, <2>3, <2>4, <3>1
    <2> QED
      BY <2>5, <2>6
  <1>4. CASE joinsPrev /\ joinsNext
    <2> DEFINE t == SubSeq(list, 1, i) \o SubSeq(list, i + 2, n)
    <2>1. put = Result(t, WithSize(Drop(sizes, next), prev, sizes[prev] + size + sizes[next]))
      BY <1>4 DEF PutBetween
    <2>2. t = SubSeq(list, 1, (i + 1) - 1) \o SubSeq(list, (i + 1) + 1, n)
      <3>1. (i + 1) - 1 = i /\ (i + 1) + 1 = i + 2
        OBVIOUS
      <3> QED
        BY <3>1
    <2>3. t \in Seq(Nat) /\ Sorted(t) /\ Elems(t) = Elems(list) \ {next}
      BY <1>1, <2>2, ListWithout
    <2> HIDE DEF put, t, next, prev
    <2>4. /\ put.list = t
          /\ put.sizes = WithSize(Drop(sizes, next), prev, sizes[prev] + size + sizes[next])
      BY <2>1 DEF Result
    <2>5. DOMAIN put.sizes = DOMAIN sizes \ {next}
      <3>1. DOMAIN put.sizes = (DOMAIN sizes \ {next}) \cup {prev}
        <4>1. DOMAIN WithSize(Drop(sizes, next), prev, sizes[prev] + size + sizes[next])
                = (DOMAIN sizes \ {next}) \cup {prev}
          BY DEF WithSize, Drop
        <4> QED
          BY <2>4, <4>1, Zenon
      <3> QED
        BY <1>2, <3>1
    <2>6. PutKeeps(put)
      BY <2>3, <2>4, <2>5 DEF PutKeeps
    <2>7. PutsWithBoth(put, sizes, c, size, prev)
      BY <1>2, <1>4, <2>4 DEF PutsWithBoth
    <2> QED
      BY <1>2, <2>6, <2>7 DEF PutOutcome, put
  <1>5. CASE joinsPrev /\ ~joinsNext
    <2>1. put = Result(list, WithSize(sizes, prev, sizes[prev] + size))
      BY <1>5 DEF PutBetween
    <2> HIDE DEF put, next, prev
    <2>2. put.list = list /\ put.sizes = WithSize(sizes, prev, sizes[prev] + size)
      BY <2>1 DEF Result
    <2>3. DOMAIN put.sizes = DOMAIN sizes
      <3>1. DOMAIN put.sizes = DOMAIN sizes \cup {prev}
        <4>1. DOMAIN WithSize(sizes, prev, sizes[prev] + size) = DOMAIN sizes \cup {prev}
          BY DEF WithSize
        <4> QED
          BY <2>2, <4>1
      <3> QED
        BY <1>2, <3>1
    <2>4. PutKeeps(put)
      BY <2>2, <2>3 DEF PutKeeps
    <2>5. PutsWithPrev(put, sizes, c, size, prev)
      BY <1>5, <2>2 DEF PutsWithPrev
    <2> QED
      BY <1>2, <2>4, <2>5 DEF PutOutcome, put
  <1>6. CASE ~joinsPrev /\ joinsNext
    <2> DEFINE t == [list EXCEPT ![i + 1] = c]
    <2>1. put = Result(t, WithSize(Drop(sizes, next), c, size + sizes[next]))
      BY <1>6 DEF PutBetween
    <2>2. t \in Seq(Nat) /\ Len(t) = n /\ Replaces(t, list, n, i + 1, c)
      BY <1>1, ExceptSeq DEF Replaces
    <2>3. FitsAt(list, n, i + 1, c)
      BY <1>1, <1>3 DEF FitsAt
    <2> HIDE DEF t
    <2>4. Sorted(t) /\ Elems(t) = (Elems(list) \ {next}) \cup {c}
      BY <1>1, <2>2, <2>3, ListReplaced
    <2> HIDE DEF put, next, prev
    <2>5. put.list = t /\ put.sizes = WithSize(Drop(sizes, next), c, size + sizes[next])
      BY <2>1 DEF Result
    <2>6. DOMAIN put.sizes = (DOMAIN sizes \ {next}) \cup {c}
      <3>1. DOMAIN WithSize(Drop(sizes, next), c, size + sizes[next])
              = (DOMAIN sizes \ {next}) \cup {c}
        BY DEF WithSize, Drop
      <3> QED
        BY <2>5, <3>1, Zenon
    <2>7. PutKeeps(put)
      BY <2>2, <2>4, <2>5, <2>6 DEF PutKeeps
    <2>8. PutsWithNext(put, sizes, c, size)
      BY <1>2, <1>6, <2>5 DEF PutsWithNext
    <2> QED
      BY <2>7, <2>8 DEF PutOutcome, put
  <1>7. CASE ~joinsPrev /\ ~joinsNext
    <2> DEFINE t == Insert(list, i, c)
    <2>1. put = Result(t, WithSize(sizes, c, size))
      BY <1>7 DEF PutBetween
    <2>2. t \in Seq(Nat) /\ Len(t) = n + 1 /\ Inserts(t, list, n, i, c)
      BY <1>1, InsertFacts
    <2>3. FitsBehind(list, n, i, c) /\ i \in 0 .. n
      BY <1>1, <1>3 DEF FitsBehind
    <2> HIDE DEF t
    <2>4. Sorted(t) /\ Elems(t) = Elems(list) \cup {c}
      BY <1>1, <2>2, <2>3, ListWith
    <2> HIDE DEF put, next, prev
    <2>5. put.list = t /\ put.sizes = WithSize(sizes, c, size)
      BY <2>1 DEF Result
    <2>6. DOMAIN put.sizes = DOMAIN sizes \cup {c}
      <3>1. DOMAIN WithSize(sizes, c, size) = DOMAIN sizes \cup {c}
        BY DEF WithSize
      <3> QED
        BY <2>5, <3>1
    <2>7. PutKeeps(put)
      BY <2>2, <2>4, <2>5, <2>6 DEF PutKeeps
    <2>8. PutsAlone(put, sizes, c, size)
      BY <2>5 DEF PutsAlone
    <2> QED
      BY <2>7, <2>8 DEF PutOutcome, put
  <1> QED
    BY <1>4, <1>5, <1>6, <1>7

LEMMA PutLastFacts ==
  ASSUME NEW list \in Seq(Nat), Sorted(list), NEW sizes, Elems(list) = DOMAIN sizes,
         NEW c \in Nat, NEW size \in Nat, \A j \in 1 .. Len(list) : list[j] < c
  PROVE  LET put == PutLast(list, sizes, c, size)
         IN  PutKeeps(put) /\ PutOutcome(put, sizes, c, size)
  <1> DEFINE n   == Len(list)
             t   == Append(list, c)
             put == PutLast(list, sizes, c, size)
  <1>1. n \in Nat
    BY LenProperties
  <1>2. put.list = t /\ put.sizes = WithSize(sizes, c, size)
    BY DEF PutLast, Result
  <1>3. /\ t \in Seq(Nat) /\ Len(t) = n + 1
        /\ (\A j \in 1 .. n : t[j] = list[j]) /\ t[n + 1] = c
    BY AppendProperties
  <1> HIDE DEF t, put
  <1>4. Inserts(t, list, n, n, c) /\ FitsBehind(list, n, n, c) /\ n \in 0 .. n
    <2>1. n \in 0 .. n
      BY <1>1
    <2>2. Inserts(t, list, n, n, c)
      BY <1>1, <1>3 DEF Inserts
    <2>3. FitsBehind(list, n, n, c)
      BY <1>1 DEF FitsBehind
    <2> QED
      BY <2>1, <2>2, <2>3
  <1>5. Sorted(t) /\ Elems(t) = Elems(list) \cup {c}
    BY <1>3, <1>4, ListWith
  <1>6. DOMAIN put.sizes = DOMAIN sizes \cup {c}
    <2>1. DOMAIN WithSize(sizes, c, size) = DOMAIN sizes \cup {c}
      BY DEF WithSize
    <2> QED
      BY <1>2, <2>1
  <1>7. PutKeeps(put)
    BY <1>2, <1>3, <1>5, <1>6 DEF PutKeeps
  <1>8. PutsAlone(put, sizes, c, size)
    BY <1>2 DEF PutsAlone
  <1> QED
    BY <1>7, <1>8 DEF PutOutcome, put

\* put_chunk_to_freelist keeps the list in address order and merges the chunk
\* with chunks that touch it, if with any.
LEMMA PutChunkFacts ==
  ASSUME NEW sizes, SizesType(sizes),
         NEW list \in Seq(Nat), Sorted(list), Elems(list) = DOMAIN sizes,
         NEW c \in Nat, c \notin DOMAIN sizes, NEW size \in Nat
  PROVE  LET put == PutChunk(list, sizes, c, size)
         IN  PutKeeps(put) /\ PutOutcome(put, sizes, c, size)
  <1> DEFINE n       == Len(list)
             put     == PutChunk(list, sizes, c, size)
             between == {i \in 1 .. n - 1 : list[i] < c /\ c < list[i + 1]}
  <1>1. n \in Nat /\ \A j \in 1 .. n : list[j] \in Nat /\ list[j] # c
    BY LenProperties, ElementOfSeq DEF Elems
  <1>2. CASE list = <<>>
    <2>1. put.list = <<c>> /\ put.sizes = WithSize(sizes, c, size)
      BY <1>2 DEF PutChunk, Result
    <2>2. Elems(list) = {}
      BY <1>2 DEF Elems
    <2>3. /\ <<c>> \in Seq(Nat) /\ Sorted(<<c>>) /\ Elems(<<c>>) = {c}
      <3>1. Len(<<c>>) = 1 /\ <<c>>[1] = c /\ 1 .. 1 = {1}
        OBVIOUS
      <3> QED
        BY <3>1 DEF Sorted, Elems
    <2> HIDE DEF put
    <2>4. DOMAIN put.sizes = DOMAIN sizes \cup {c}
      <3>1. DOMAIN WithSize(sizes, c, size) = DOMAIN sizes \cup {c}
        BY WithSizeDomain
      <3> QED
        BY <2>1, <3>1
    <2>5. PutKeeps(put)
      BY <2>1, <2>2, <2>3, <2>4 DEF PutKeeps
    <2>6. PutsAlone(put, sizes, c, size)
      BY <2>1 DEF PutsAlone
    <2> QED
      BY <2>5, <2>6 DEF PutOutcome, put
  <1>3. CASE list # <<>> /\ c < list[1]
    BY <1>3, PutFirstFacts DEF PutChunk
  <1>4. CASE list # <<>> /\ ~(c < list[1]) /\ between # {}
    <2> DEFINE i == CHOOSE x \in between : TRUE
    <2>1. i \in between
      BY <1>4
    <2>2. put = PutBetween(list, sizes, i, c, size)
      BY <1>4 DEF PutChunk
    <2> HIDE DEF i, put
    <2>3. i \in 1 .. n - 1 /\ list[i] < c /\ c < list[i + 1]
      BY <2>1
    <2> QED
      BY <2>2, <2>3, PutBetweenFacts DEF put
  <1>5. CASE list # <<>> /\ ~(c < list[1]) /\ between = {}
    <2>1. \A j \in 1 .. n : list[j] < c
      <3> DEFINE T == {j \in 1 .. n : c < list[j]}
      <3>1. T # {} => FALSE
        <4> SUFFICES ASSUME T # {}
                     PROVE  FALSE
          OBVIOUS
        <4>1. PICK x \in T : \A y \in T : x <= y
          <5>1. T \in SUBSET Nat
            OBVIOUS
          <5> HIDE DEF T
          <5> QED
            BY <5>1, LeastNat
        <4>2. x \in 1 .. n /\ c < list[x] /\ x # 1
          BY <1>5, <4>1
        <4>3. x - 1 \in 1 .. n - 1 /\ x - 1 \in 1 .. n /\ x - 1 + 1 = x
          BY <1>1, <4>2
        <4>4. ~(c < list[x - 1])
          BY <4>1, <4>3
        <4>5. list[x - 1] < c
          BY <1>1, <4>3, <4>4
        <4>6. x - 1 \in between
          BY <4>2, <4>3, <4>5
        <4> QED
          BY <1>5, <4>6
      <3> QED
        BY <1>1, <3>1
    <2>2. put = PutLast(list, sizes, c, size)
      BY <1>5 DEF PutChunk
    <2> HIDE DEF put
    <2> QED
      BY <2>1, <2>2, PutLastFacts DEF put
  <1> QED
    BY <1>2, <1>3, <1>4, <1>5

-----------------------------------------------------------------------------
(* Tilings: blocks of sizes s, one behind the other, from lo to hi. *)

Tiles(s, lo, hi) ==
  /\ DOMAIN s \subseteq Nat
  /\ lo \in DOMAIN s
  /\ \A a \in DOMAIN s : /\ s[a] \in Nat \ {0}
                         /\ a + s[a] = hi \/ a + s[a] \in DOMAIN s
  /\ Apart(s)

\* The block at c is cut in two.
LEMMA SplitTiles ==
  ASSUME NEW s, NEW lo, NEW hi, Tiles(s, lo, hi),
         NEW c \in DOMAIN s, NEW n \in Nat \ {0}, n < s[c],
         NEW t, DOMAIN t = DOMAIN s \cup {c + n},
         t[c] = n, t[c + n] = s[c] - n, \A x \in DOMAIN s : x # c => t[x] = s[x]
  PROVE  Tiles(t, lo, hi)
  <1>1. c \in Nat /\ s[c] \in Nat /\ c + n \in Nat /\ c + n # c
    BY DEF Tiles
  <1>2. c + n \notin DOMAIN s
    <2> SUFFICES ASSUME c + n \in DOMAIN s
                 PROVE  FALSE
      OBVIOUS
    <2>1. c < c + n
      BY <1>1
    <2>2. c + s[c] <= c + n
      BY <2>1 DEF Tiles, Apart
    <2> QED
      BY <1>1, <2>2
  <1>3. ASSUME NEW a \in DOMAIN t
        PROVE  t[a] \in Nat \ {0} /\ (a + t[a] = hi \/ a + t[a] \in DOMAIN t)
    <2>1. CASE a = c
      BY <2>1
    <2>2. CASE a = c + n
      <3>1. a + t[a] = c + s[c] /\ t[a] \in Nat \ {0}
        BY <1>1, <2>2
      <3> QED
        BY <3>1 DEF Tiles
    <2>3. CASE a # c /\ a # c + n
      BY <2>3 DEF Tiles
    <2> QED
      BY <2>1, <2>2, <2>3
  <1>4. Apart(t)
    <2> SUFFICES ASSUME NEW a \in DOMAIN t, NEW b \in DOMAIN t, a < b
                 PROVE  a + t[a] <= b
      BY DEF Apart
    <2>1. ASSUME NEW x \in DOMAIN s
          PROVE  /\ x \in Nat /\ s[x] \in Nat \ {0}
                 /\ x < c => x + s[x] <= c
                 /\ c < x => c + s[c] <= x
      BY DEF Tiles, Apart
    <2>2. CASE a = c
      BY <1>1, <2>1, <2>2
    <2>3. CASE a = c + n
      BY <1>1, <2>1, <2>3
    <2>4. CASE a # c /\ a # c + n /\ b # c + n
      BY <2>4 DEF Tiles, Apart
    <2>5. CASE a # c /\ a # c + n /\ b = c + n
      <3>1. a \in DOMAIN s /\ t[a] = s[a]
        BY <2>5
      <3>2. a < c \/ c < a
        BY <1>1, <2>1, <2>5, <3>1
      <3> QED
        BY <1>1, <2>1, <2>5, <3>1, <3>2
    <2> QED
      BY <2>2, <2>3, <2>4, <2>5
  <1>5. DOMAIN t \subseteq Nat /\ lo \in DOMAIN t
    BY <1>1 DEF Tiles
  <1> QED
    BY <1>3, <1>4, <1>5 DEF Tiles

\* The block at c and the one behind it become one.
LEMMA JoinTiles ==
  ASSUME NEW s, NEW lo \in Nat, NEW hi, Tiles(s, lo, hi), \A x \in DOMAIN s : lo <= x,
         NEW c \in DOMAIN s, NEW e, e = c + s[c], e \in DOMAIN s,
         NEW t, DOMAIN t = DOMAIN s \ {e},
         t[c] = s[c] + s[e], \A x \in DOMAIN s : x # c /\ x # e => t[x] = s[x]
  PROVE  Tiles(t, lo, hi)
  <1>1. /\ c \in Nat /\ s[c] \in Nat \ {0} /\ e \in Nat /\ s[e] \in Nat \ {0}
        /\ c < e /\ e # c /\ c \in DOMAIN t
    BY DEF Tiles
  <1>2. ASSUME NEW x \in DOMAIN s
        PROVE  /\ x \in Nat /\ s[x] \in Nat \ {0}
               /\ x < c => x + s[x] <= c
               /\ c < x => c + s[c] <= x
               /\ e < x => e + s[e] <= x
    BY DEF Tiles, Apart
  <1>3. ASSUME NEW a \in DOMAIN t
        PROVE  t[a] \in Nat \ {0} /\ (a + t[a] = hi \/ a + t[a] \in DOMAIN t)
    <2>1. CASE a = c
      <3>1. c + t[c] = e + s[e] /\ t[c] \in Nat \ {0} /\ e + s[e] # e
        BY <1>1
      <3>2. e + s[e] = hi \/ e + s[e] \in DOMAIN s
        BY DEF Tiles
      <3> QED
        BY <2>1, <3>1, <3>2
    <2>2. CASE a # c
      <3>1. a \in DOMAIN s /\ a # e /\ t[a] = s[a]
        BY <2>2
      <3>2. a < c \/ e < a
        BY <1>1, <1>2, <2>2, <3>1
      <3>3. a + s[a] # e
        BY <1>1, <1>2, <3>1, <3>2
      <3> QED
        BY <3>1, <3>3 DEF Tiles
    <2> QED
      BY <2>1, <2>2
  <1>4. Apart(t)
    <2> SUFFICES ASSUME NEW a \in DOMAIN t, NEW b \in DOMAIN t, a < b
                 PROVE  a + t[a] <= b
      BY DEF Apart
    <2>1. CASE a = c
      <3>1. b \in DOMAIN s /\ b # e
        OBVIOUS
      <3>2. e < b
        BY <1>1, <1>2, <2>1, <3>1
      <3> QED
        BY <1>1, <1>2, <2>1, <3>1, <3>2
    <2>2. CASE a # c
      BY <2>2 DEF Tiles, Apart
    <2> QED
      BY <2>1, <2>2
  <1>5. DOMAIN t \subseteq Nat /\ lo \in DOMAIN t
    <2>1. lo # e
      BY <1>1
    <2> QED
      BY <2>1 DEF Tiles
  <1> QED
    BY <1>3, <1>4, <1>5 DEF Tiles

LEMMA SortedApartIsOrdered ==
  ASSUME NEW list, Len(list) \in Nat, Sorted(list), NEW sizes, Elems(list) \subseteq DOMAIN sizes,
         Apart(sizes)
  PROVE  Ordered(list, sizes)
  <1> SUFFICES ASSUME NEW i \in 1 .. Len(list) - 1
               PROVE  list[i] + sizes[list[i]] <= list[i + 1]
    BY DEF Ordered
  <1>1. i \in 1 .. Len(list) /\ i + 1 \in 1 .. Len(list) /\ i < i + 1
    OBVIOUS
  <1>2. list[i] \in DOMAIN sizes /\ list[i + 1] \in DOMAIN sizes
    BY <1>1 DEF Elems
  <1> QED
    BY <1>1, <1>2 DEF Sorted, Apart

-----------------------------------------------------------------------------
(* Cells of sizes u and chunks of sizes v. *)

Both(u, v) == [x \in DOMAIN u \cup DOMAIN v |-> IF x \in DOMAIN u THEN u[x] ELSE v[x]]

\* Cells and chunks tile the bytes from lo to hi, and every chunk can hold the
\* links of the list.
Parts(u, v, lo, hi) ==
  /\ Tiles(Both(u, v), lo, hi)
  /\ DOMAIN u \cap DOMAIN v = {}
  /\ \A x \in DOMAIN v : v[x] >= FreeChunkSize

LEMMA PartsFacts ==
  ASSUME NEW u, NEW v, NEW lo, NEW hi, Parts(u, v, lo, hi)
  PROVE  /\ SizesType(u) /\ Apart(u)
         /\ SizesType(v) /\ Apart(v)
         /\ \A x \in DOMAIN u : u[x] > 0
  <1> DEFINE s == Both(u, v)
  <1>1. DOMAIN s = DOMAIN u \cup DOMAIN v
    BY DEF Both
  <1>2. \A x \in DOMAIN u : s[x] = u[x]
    BY DEF Both
  <1>3. \A x \in DOMAIN v : s[x] = v[x]
    BY DEF Both, Parts
  <1> HIDE DEF s
  <1> QED
    BY <1>1, <1>2, <1>3 DEF Parts, s, Tiles, SizesType, Apart

\* A cell takes the place of the chunk, or of its first bytes.
LEMMA TakeParts ==
  ASSUME NEW u, NEW v, NEW lo, NEW hi, Parts(u, v, lo, hi),
         NEW c \in DOMAIN v, NEW size \in Nat \ {0}, NEW list, NEW got,
         TakesWhole(got, list, v, c) \/ TakesPart(got, list, v, c, size),
         NEW w, DOMAIN w = DOMAIN u \cup {c}, w[c] = got.size,
         \A x \in DOMAIN u : w[x] = u[x]
  PROVE  Parts(w, got.sizes, lo, hi)
  <1> DEFINE s == Both(u, v)
             g == got.sizes
             t == Both(w, g)
  <1>1. c \in Nat /\ v[c] \in Nat /\ SizesType(v)
    BY PartsFacts DEF SizesType
  <1>2. /\ DOMAIN s = DOMAIN u \cup DOMAIN v /\ c \notin DOMAIN u
        /\ \A x \in DOMAIN u : s[x] = u[x]
        /\ \A x \in DOMAIN v : s[x] = v[x]
    BY DEF Both, Parts
  <1>3. /\ DOMAIN t = DOMAIN w \cup DOMAIN g
        /\ \A x \in DOMAIN w : t[x] = w[x]
        /\ \A x \in DOMAIN g : x \notin DOMAIN w => t[x] = g[x]
    BY DEF Both
  <1>4. CASE TakesWhole(got, list, v, c)
    <2>1. g = Drop(v, c) /\ got.size = v[c]
      BY <1>4 DEF TakesWhole
    <2>2. DOMAIN g = DOMAIN v \ {c} /\ \A x \in DOMAIN g : g[x] = v[x]
      BY <2>1 DEF Drop
    <2>3. t = s
      <3>1. t = [x \in DOMAIN w \cup DOMAIN g |-> IF x \in DOMAIN w THEN w[x] ELSE g[x]]
        BY DEF Both
      <3>2. s = [x \in DOMAIN u \cup DOMAIN v |-> IF x \in DOMAIN u THEN u[x] ELSE v[x]]
        BY DEF Both
      <3>3. DOMAIN w \cup DOMAIN g = DOMAIN u \cup DOMAIN v
        BY <2>2
      <3> HIDE DEF s, t, g
      <3>4. ASSUME NEW x \in DOMAIN u \cup DOMAIN v
            PROVE  (IF x \in DOMAIN w THEN w[x] ELSE g[x])
                     = (IF x \in DOMAIN u THEN u[x] ELSE v[x])
        BY <1>2, <2>1, <2>2
      <3> QED
        BY <3>1, <3>2, <3>3, <3>4
    <2> HIDE DEF s, t, g
    <2> QED
      BY <1>2, <2>2, <2>3 DEF Parts, s, t, g
  <1>5. CASE TakesPart(got, list, v, c, size)
    <2>1. /\ g = WithSize(Drop(v, c), c + size, v[c] - size) /\ got.size = size
          /\ size + FreeChunkSize <= v[c]
      BY <1>5 DEF TakesPart
    <2>2. size < v[c] /\ v[c] - size >= FreeChunkSize /\ c + size \in Nat /\ c + size # c
      BY <1>1, <2>1, FreeChunkAssumption
    <2>3. /\ DOMAIN g = (DOMAIN v \ {c}) \cup {c + size}
          /\ g[c + size] = v[c] - size
          /\ \A x \in DOMAIN g : x # c + size => g[x] = v[x]
      BY <2>1 DEF WithSize, Drop
    <2>4. c + size \notin DOMAIN s
      <3>1. Apart(s) /\ DOMAIN s \subseteq Nat
        BY DEF Parts, Tiles
      <3> HIDE DEF s
      <3> QED
        BY <1>1, <1>2, <2>2, <3>1 DEF Apart
    <2> HIDE DEF s, t, g
    <2>5. DOMAIN t = DOMAIN s \cup {c + size}
      BY <1>2, <1>3, <2>3
    <2>6. t[c] = size /\ t[c + size] = s[c] - size
      BY <1>2, <1>3, <2>1, <2>2, <2>3, <2>4
    <2>7. \A x \in DOMAIN s : x # c => t[x] = s[x]
      BY <1>2, <1>3, <2>3, <2>4
    <2>8. Tiles(t, lo, hi)
      <3>1. Tiles(s, lo, hi) /\ c \in DOMAIN s /\ size < s[c]
        BY <1>2, <2>2 DEF Parts, s
      <3> QED
        BY <2>5, <2>6, <2>7, <3>1, SplitTiles
    <2>9. DOMAIN w \cap DOMAIN g = {}
      BY <1>2, <2>2, <2>3, <2>4 DEF Parts
    <2> QED
      BY <2>2, <2>3, <2>8, <2>9 DEF Parts, t, g
  <1> QED
    BY <1>4, <1>5

\* A cell becomes a chunk, or part of a neighbour.
LEMMA PutParts ==
  ASSUME NEW u, NEW v, NEW lo \in Nat, NEW hi, Parts(u, v, lo, hi),
         \A x \in DOMAIN u \cup DOMAIN v : lo <= x,
         NEW c \in DOMAIN u, u[c] >= FreeChunkSize,
         NEW put, PutOutcome(put, v, c, u[c]),
         NEW w, DOMAIN w = DOMAIN u \ {c}, \A x \in DOMAIN w : w[x] = u[x]
  PROVE  Parts(w, put.sizes, lo, hi)
  <1> DEFINE s == Both(u, v)
             g == put.sizes
             t == Both(w, g)
             n == u[c]
             e == c + n
  <1>1. /\ c \in Nat /\ n \in Nat /\ SizesType(v) /\ n > 0
        /\ FreeChunkSize \in Nat /\ n >= FreeChunkSize
    BY PartsFacts, FreeChunkAssumption DEF SizesType
  <1>2. /\ DOMAIN s = DOMAIN u \cup DOMAIN v /\ c \notin DOMAIN v
        /\ \A x \in DOMAIN u : s[x] = u[x]
        /\ \A x \in DOMAIN v : s[x] = v[x]
        /\ DOMAIN u \cap DOMAIN v = {}
    BY DEF Both, Parts
  <1>3. /\ DOMAIN t = DOMAIN w \cup DOMAIN g
        /\ \A x \in DOMAIN w : t[x] = w[x]
        /\ \A x \in DOMAIN g : x \notin DOMAIN w => t[x] = g[x]
    BY DEF Both
  <1>4. Tiles(s, lo, hi) /\ \A x \in DOMAIN s : lo <= x
    BY <1>2 DEF Parts
  <1>5. \A x \in DOMAIN v : v[x] \in Nat /\ v[x] >= FreeChunkSize
    BY <1>1 DEF SizesType, Parts
  <1> SUFFICES /\ Tiles(t, lo, hi)
               /\ DOMAIN w \cap DOMAIN g = {}
               /\ \A x \in DOMAIN g : g[x] >= FreeChunkSize
    BY DEF Parts
  <1>6. CASE PutsAlone(put, v, c, n)
    <2>1. /\ DOMAIN g = DOMAIN v \cup {c} /\ g[c] = n
          /\ \A x \in DOMAIN g : x # c => g[x] = v[x]
      BY <1>6 DEF PutsAlone, WithSize
    <2>2. t = s
      <3>1. t = [x \in DOMAIN w \cup DOMAIN g |-> IF x \in DOMAIN w THEN w[x] ELSE g[x]]
        BY DEF Both
      <3>2. s = [x \in DOMAIN u \cup DOMAIN v |-> IF x \in DOMAIN u THEN u[x] ELSE v[x]]
        BY DEF Both
      <3>3. DOMAIN w \cup DOMAIN g = DOMAIN u \cup DOMAIN v
        BY <2>1
      <3> HIDE DEF s, t, g, n
      <3>4. ASSUME NEW x \in DOMAIN u \cup DOMAIN v
            PROVE  (IF x \in DOMAIN w THEN w[x] ELSE g[x])
                     = (IF x \in DOMAIN u THEN u[x] ELSE v[x])
        BY <1>2, <2>1 DEF n
      <3> QED
        BY <3>1, <3>2, <3>3, <3>4
    <2> HIDE DEF s, t, g, n
    <2> QED
      BY <1>1, <1>2, <1>4, <1>5, <2>1, <2>2
  <1>7. CASE PutsWithNext(put, v, c, n)
    <2>1. e \in DOMAIN v /\ g = WithSize(Drop(v, e), c, n + v[e])
      BY <1>7 DEF PutsWithNext
    <2>2. /\ DOMAIN g = (DOMAIN v \ {e}) \cup {c} /\ g[c] = n + v[e]
          /\ \A x \in DOMAIN g : x # c => g[x] = v[x]
      BY <2>1 DEF WithSize, Drop
    <2> HIDE DEF s, t, g, n
    <2>3. e \in DOMAIN s /\ e = c + s[c] /\ c \in DOMAIN s /\ e \notin DOMAIN u
      BY <1>2, <2>1 DEF n
    <2> HIDE DEF e
    <2>4. DOMAIN t = DOMAIN s \ {e}
      BY <1>2, <1>3, <2>1, <2>2, <2>3
    <2>5. t[c] = s[c] + s[e]
      BY <1>2, <1>3, <2>1, <2>2 DEF n
    <2>6. \A x \in DOMAIN s : x # c /\ x # e => t[x] = s[x]
      BY <1>2, <1>3, <2>2
    <2>7. Tiles(t, lo, hi)
      BY <1>4, <2>3, <2>4, <2>5, <2>6, JoinTiles
    <2>8. n + v[e] >= FreeChunkSize
      BY <1>1, <1>5, <2>1
    <2> QED
      BY <1>2, <1>5, <2>2, <2>7, <2>8
  <1>8. ASSUME NEW prev \in DOMAIN v, PutsWithPrev(put, v, c, n, prev)
        PROVE  /\ Tiles(t, lo, hi)
               /\ DOMAIN w \cap DOMAIN g = {}
               /\ \A x \in DOMAIN g : g[x] >= FreeChunkSize
    <2>1. prev + v[prev] = c /\ g = WithSize(v, prev, v[prev] + n)
      BY <1>8 DEF PutsWithPrev
    <2>2. /\ DOMAIN g = DOMAIN v /\ g[prev] = v[prev] + n
          /\ \A x \in DOMAIN g : x # prev => g[x] = v[x]
      BY <2>1 DEF WithSize
    <2> HIDE DEF s, t, g, n
    <2>3. c \in DOMAIN s /\ c = prev + s[prev] /\ prev \in DOMAIN s /\ prev \notin DOMAIN u
      BY <1>2, <2>1
    <2>4. DOMAIN t = DOMAIN s \ {c}
      BY <1>2, <1>3, <2>2
    <2>5. t[prev] = s[prev] + s[c]
      BY <1>2, <1>3, <2>2, <2>3 DEF n
    <2>6. \A x \in DOMAIN s : x # prev /\ x # c => t[x] = s[x]
      BY <1>2, <1>3, <2>2
    <2>7. Tiles(t, lo, hi)
      BY <1>4, <2>3, <2>4, <2>5, <2>6, JoinTiles
    <2>8. v[prev] + n >= FreeChunkSize
      BY <1>1, <1>5
    <2> QED
      BY <1>2, <1>5, <2>2, <2>7, <2>8
  <1>9. ASSUME NEW prev \in DOMAIN v, PutsWithBoth(put, v, c, n, prev)
        PROVE  /\ Tiles(t, lo, hi)
               /\ DOMAIN w \cap DOMAIN g = {}
               /\ \A x \in DOMAIN g : g[x] >= FreeChunkSize
    <2>1. /\ prev + v[prev] = c /\ e \in DOMAIN v
          /\ g = WithSize(Drop(v, e), prev, v[prev] + n + v[e])
      BY <1>9 DEF PutsWithBoth
    <2>2. prev \in Nat /\ v[prev] \in Nat /\ v[e] \in Nat /\ prev # e
      BY <1>1, <1>5, <2>1 DEF SizesType
    <2>3. /\ DOMAIN g = DOMAIN v \ {e} /\ g[prev] = v[prev] + n + v[e]
          /\ \A x \in DOMAIN g : x # prev => g[x] = v[x]
      BY <2>1, <2>2 DEF WithSize, Drop
    <2> DEFINE r == [x \in DOMAIN s \ {c} |-> IF x = prev THEN s[prev] + s[c] ELSE s[x]]
    <2>4. /\ DOMAIN r = DOMAIN s \ {c}
          /\ r[prev] = s[prev] + s[c]
          /\ \A x \in DOMAIN s : x # prev /\ x # c => r[x] = s[x]
      BY <1>2
    <2> HIDE DEF s, t, g, n, r
    <2>5. c \in DOMAIN s /\ c = prev + s[prev] /\ prev \in DOMAIN s /\ prev \notin DOMAIN u
      BY <1>2, <2>1
    <2>6. Tiles(r, lo, hi)
      BY <1>4, <2>4, <2>5, JoinTiles
    <2>7. /\ e \in DOMAIN r /\ e = prev + r[prev] /\ prev \in DOMAIN r
          /\ \A x \in DOMAIN r : lo <= x
      <3>1. e # c /\ e = prev + (v[prev] + n)
        BY <1>1, <2>1, <2>2
      <3>2. s[prev] = v[prev] /\ s[c] = n
        BY <1>2 DEF n
      <3> QED
        BY <1>2, <1>4, <2>1, <2>4, <2>5, <3>1, <3>2
    <2> HIDE DEF e
    <2>8. DOMAIN t = DOMAIN r \ {e}
      BY <1>2, <1>3, <2>1, <2>3, <2>4
    <2>9. t[prev] = r[prev] + r[e]
      <3>1. r[e] = v[e]
        BY <1>2, <2>1, <2>2, <2>4
      <3>2. r[prev] = v[prev] + n
        BY <1>2, <2>4 DEF n
      <3>3. t[prev] = v[prev] + n + v[e]
        BY <1>2, <1>3, <2>3, <2>5, <2>2
      <3> QED
        BY <3>1, <3>2, <3>3
    <2>10. \A x \in DOMAIN r : x # prev /\ x # e => t[x] = r[x]
      BY <1>2, <1>3, <2>3, <2>4
    <2>11. Tiles(t, lo, hi)
      BY <2>6, <2>7, <2>8, <2>9, <2>10, JoinTiles
    <2>12. v[prev] + n + v[e] >= FreeChunkSize
      BY <1>1, <1>5, <2>1, <2>2
    <2> QED
      BY <1>2, <1>5, <2>3, <2>11, <2>12
  <1> QED
    BY <1>6, <1>7, <1>8, <1>9 DEF PutOutcome
=============================================================================
