-------------------------- MODULE CopyingGC_proofs --------------------------
(***************************************************************************)
(* The copying collector loses no cell and overflows no space, keeps       *)
(* nothing the roots do not reach, and behind gc_malloc the program sees   *)
(* the abstract memory: for every number of roots, every heap size that is *)
(* a multiple of eight, every header size and every set of request sizes.  *)
(*                                                                         *)
(* Two invariants: IInv keeps cells, spaces and bytes in order, and        *)
(* CopyInv, on top of it, pairs each copy with its original.               *)
(***************************************************************************)
EXTENDS CopyingGC, FiniteSetTheorems, TLAPS

-----------------------------------------------------------------------------
(* Numbers. *)

\* Half of aq_heap is a whole number of words.
LEMMA HalfFacts == Half \in Nat /\ Half % 4 = 0
  BY HeapSizeAssumption, AlignedHeapAssumption DEF Half

\* Rounding up to words yields a positive multiple of four.
LEMMA AllocateSizeFacts ==
  ASSUME NEW size \in Nat
  PROVE  /\ AllocateSize(size) \in Nat
         /\ AllocateSize(size) > 0
         /\ AllocateSize(size) % 4 = 0
  BY HeaderAssumption DEF AllocateSize

\* Cells end on word boundaries, so gc_malloc_copy may test the size before it
\* rounds it: what passes IS_ALLOCATABLE still ends within from_space.
LEMMA AllocationFits ==
  ASSUME NEW size \in Nat, top \in Nat, top % 4 = 0,
         from_space \in {0, Half}, IS_ALLOCATABLE(size)
  PROVE  top + AllocateSize(size) <= from_space + Half
  BY HalfFacts, HeaderAssumption DEF AllocateSize, IS_ALLOCATABLE

\* The two spaces do not overlap.
LEMMA Spaces ==
  ASSUME {from_space, to_space} = {0, Half}
  PROVE  /\ from_space \in Nat /\ to_space \in Nat
         /\ from_space \in {0, Half} /\ to_space \in {0, Half}
         /\ from_space % 4 = 0 /\ to_space % 4 = 0
         /\ from_space + Half <= to_space \/ to_space + Half <= from_space
  <1>1. CASE from_space = 0 /\ to_space = Half
    BY <1>1, HalfFacts
  <1>2. CASE from_space = Half /\ to_space = 0
    BY <1>2, HalfFacts
  <1> QED
    BY <1>1, <1>2

-----------------------------------------------------------------------------
(* Writing a cell, and the bytes that are still to be copied.              *)

\* The bytes still to be copied are bytes of from_space: finitely many.
LEMMA UncopiedBytes ==
  ASSUME NEW h, NEW f, NEW t, from_space \in Nat,
         h \in [DOMAIN h -> Object], DOMAIN h \subseteq Nat, Parted(h, t)
  PROVE  /\ Uncopied(h, f) \subseteq from_space .. (from_space + Half - 1)
         /\ IsFiniteSet(Uncopied(h, f))
         /\ Cardinality(Uncopied(h, f)) \in Nat
         /\ Cardinality(Uncopied(h, f)) <= Half
  <1>1. Uncopied(h, f) \subseteq from_space .. (from_space + Half - 1)
    <2>1. SUFFICES ASSUME NEW a \in DOMAIN h, InFromSpace(a), NEW b \in Extent(h, a)
                   PROVE  b \in from_space .. (from_space + Half - 1)
      BY DEF Uncopied
    <2>2. a \in Nat /\ h[a].size \in Nat /\ a + h[a].size <= from_space + Half
      BY <2>1 DEF Parted, Object
    <2> QED
      BY <2>1, <2>2, HalfFacts DEF Extent, InFromSpace
  <1>2. /\ IsFiniteSet(from_space .. (from_space + Half - 1))
        /\ Cardinality(from_space .. (from_space + Half - 1)) = Half
    BY FS_Interval, HalfFacts
  <1> QED
    BY <1>1, <1>2, FS_Subset, FS_CardinalityType

\* Copying the cell at v takes its bytes out of those still to be copied.
LEMMA UncopiedAfter ==
  ASSUME NEW v \in DOMAIN heap, NEW g, NEW e,
         from_space \in Nat,
         heap \in [DOMAIN heap -> Object], DOMAIN heap \subseteq Nat, Parted(heap, top),
         Disjoint(heap), InFromSpace(v), forwarding[v] = v,
         top \notin DOMAIN heap, ~InFromSpace(top),
         DOMAIN g = DOMAIN heap \cup {top},
         \A x \in DOMAIN heap : g[x] = heap[x],
         e = [x \in DOMAIN g |-> IF x \in {v, top} THEN top ELSE forwarding[x]]
  PROVE  /\ heap[v].size <= Cardinality(Uncopied(heap, forwarding))
         /\ Cardinality(Uncopied(g, e)) = Cardinality(Uncopied(heap, forwarding)) - heap[v].size
  <1>1. v \in Nat /\ heap[v].size \in Nat
    BY DEF Object
  <1>2. Extent(heap, v) \subseteq Uncopied(heap, forwarding)
    BY DEF Uncopied
  <1>3. IsFiniteSet(Extent(heap, v)) /\ Cardinality(Extent(heap, v)) = heap[v].size
    <2> DEFINE n == heap[v].size
               z == v + n - 1
    <2>1. v \in Int /\ z \in Int /\ n \in Nat /\ Extent(heap, v) = v .. z
      BY <1>1 DEF Extent
    <2>2. IF v > z THEN n = 0 ELSE z - v + 1 = n
      BY <1>1
    <2> HIDE DEF z, n
    <2>3. IsFiniteSet(v .. z) /\ Cardinality(v .. z) = IF v > z THEN 0 ELSE z - v + 1
      BY <2>1, FS_Interval
    <2>4. Cardinality(v .. z) = n
      BY <2>2, <2>3
    <2> QED
      BY <2>1, <2>3, <2>4 DEF n
  <1>4. IsFiniteSet(Uncopied(heap, forwarding)) /\ Cardinality(Uncopied(heap, forwarding)) \in Nat
    BY UncopiedBytes
  <1>5. Uncopied(g, e) = Uncopied(heap, forwarding) \ Extent(heap, v)
    <2>1. ASSUME NEW a \in DOMAIN heap, a # v, NEW b \in Extent(heap, a)
          PROVE  b \notin Extent(heap, v)
      <3>1. a \in Nat /\ heap[a].size \in Nat
        BY DEF Object
      <3>2. a + heap[a].size <= v \/ v + heap[v].size <= a
        BY <2>1 DEF Disjoint
      <3> QED
        BY <2>1, <3>1, <3>2, <1>1 DEF Extent
    <2>2. \A a \in DOMAIN heap : Extent(g, a) = Extent(heap, a)
      BY DEF Extent
    <2>3. \A x : x \in DOMAIN g /\ InFromSpace(x) /\ e[x] = x
                 <=> x \in DOMAIN heap /\ InFromSpace(x) /\ forwarding[x] = x /\ x # v
      <3>1. v # top /\ e[v] = top
        OBVIOUS
      <3>2. \A x \in DOMAIN heap : x # v => e[x] = forwarding[x]
        OBVIOUS
      <3>3. ASSUME NEW x \in DOMAIN g, InFromSpace(x)
            PROVE  e[x] = x <=> x \in DOMAIN heap /\ forwarding[x] = x /\ x # v
        <4>1. x # top /\ x \in DOMAIN heap
          BY <3>3
        <4> QED
          BY <4>1, <3>1, <3>2
      <3> QED
        BY <3>3
    <2>4. ASSUME NEW b
          PROVE  b \in Uncopied(g, e)
                   <=> \E x : /\ x \in DOMAIN g /\ InFromSpace(x) /\ e[x] = x
                             /\ b \in Extent(g, x)
      BY DEF Uncopied
    <2>5. ASSUME NEW b
          PROVE  b \in Uncopied(heap, forwarding)
                   <=> \E x : /\ x \in DOMAIN heap /\ InFromSpace(x) /\ forwarding[x] = x
                             /\ b \in Extent(heap, x)
      BY DEF Uncopied
    <2>6. ASSUME NEW b
          PROVE  b \in Uncopied(g, e)
                   <=> b \in Uncopied(heap, forwarding) /\ b \notin Extent(heap, v)
      BY <2>1, <2>2, <2>3, <2>4, <2>5
    <2> QED
      BY <2>6
  <1>6. Uncopied(heap, forwarding) \cap Extent(heap, v) = Extent(heap, v)
    BY <1>2
  <1>7. Cardinality(Extent(heap, v)) <= Cardinality(Uncopied(heap, forwarding))
    BY <1>2, <1>4, FS_Subset
  <1>8. Cardinality(Uncopied(heap, forwarding) \ Extent(heap, v))
          = Cardinality(Uncopied(heap, forwarding)) - Cardinality(Extent(heap, v))
    BY <1>4, <1>6, FS_Difference
  <1> QED
    BY <1>3, <1>5, <1>7, <1>8

-----------------------------------------------------------------------------
(* copy_object.                                                            *)

\* What a collection in progress keeps true of cells h, headers f and a top
\* of t; the steps of the collector take one such triple to the next.
Sound(h, f, t) ==
  /\ h \in [DOMAIN h -> Object]
  /\ f \in [DOMAIN h -> Nat]
  /\ DOMAIN h \subseteq Nat
  /\ t \in Nat /\ t % 4 = 0
  /\ Tiled(h)
  /\ Parted(h, t)
  /\ Gapless(h, t)
  /\ Forwarded(h, f)
  /\ Room(h, f, t)

\* A cell that has to be copied fits between top and the end of to_space, and
\* the bytes it is copied to are free.
LEMMA RoomForCopy ==
  ASSUME {from_space, to_space} = {0, Half},
         Sound(heap, forwarding, top),
         NEW v \in DOMAIN heap, InFromSpace(v), forwarding[v] = v
  PROVE  /\ top + heap[v].size <= to_space + Half
         /\ to_space <= top
         /\ top \notin DOMAIN heap
         /\ ~InFromSpace(top)
         /\ \A x \in DOMAIN heap : x + heap[x].size <= top \/ top + heap[v].size <= x
         /\ DOMAIN EvacHeap(v) = DOMAIN heap \cup {top}
         /\ \A x \in DOMAIN heap : EvacHeap(v)[x] = heap[x]
         /\ EvacHeap(v)[top] = heap[v]
         /\ EvacForwarding(v) = [x \in DOMAIN EvacHeap(v) |->
                                   IF x \in {v, top} THEN top ELSE forwarding[x]]
         /\ CELL_P(v) /\ ~Stays(v)
  <1> DEFINE s == heap[v].size
  <1>1. /\ from_space \in Nat /\ to_space \in Nat
        /\ from_space + Half <= to_space \/ to_space + Half <= from_space
    BY Spaces
  <1>2. /\ v \in Nat /\ top \in Nat /\ s \in Nat /\ s > 0
        /\ to_space <= top /\ top <= to_space + Half
    BY DEF Sound, Object, Tiled, Parted
  <1>3. CELL_P(v) /\ ~Stays(v)
    BY <1>2, ImmAssumption DEF CELL_P, Stays, IS_COPIED
  <1>4. /\ s <= Cardinality(Uncopied(heap, forwarding))
        /\ Cardinality(Uncopied(heap, forwarding)) \in Nat
    <2>1. Extent(heap, v) \subseteq Uncopied(heap, forwarding)
      BY DEF Uncopied
    <2>2. Cardinality(Extent(heap, v)) = s
      <3>1. v \in Int /\ v + s - 1 \in Int /\ s \in Nat
        BY <1>2
      <3>2. Cardinality(v .. (v + s - 1)) = s
        BY <3>1, FS_Interval
      <3> QED
        BY <3>2 DEF Extent
    <2> /\ heap \in [DOMAIN heap -> Object]
        /\ DOMAIN heap \subseteq Nat
        /\ Parted(heap, top)
      BY DEF Sound
    <2>3. /\ IsFiniteSet(Uncopied(heap, forwarding))
          /\ Cardinality(Uncopied(heap, forwarding)) \in Nat
      BY <1>1, UncopiedBytes
    <2> QED
      BY <2>1, <2>2, <2>3, FS_Subset
  <1>5. top + s <= to_space + Half
    BY <1>1, <1>2, <1>4, HalfFacts DEF Sound, Room
  <1>6. ~InFromSpace(top)
    BY <1>1, <1>2, <1>5, HalfFacts DEF InFromSpace
  <1>7. ASSUME NEW x \in DOMAIN heap
        PROVE  /\ x \in Nat /\ heap[x].size \in Nat /\ heap[x].size > 0
               /\ x # top
               /\ x + heap[x].size <= top \/ top + s <= x
    <2>1. x \in Nat /\ heap[x].size \in Nat /\ heap[x].size > 0
      BY DEF Sound, Object, Tiled
    <2>2. IF InFromSpace(x) THEN x + heap[x].size <= from_space + Half
                            ELSE to_space <= x /\ x + heap[x].size <= top
      BY DEF Sound, Parted
    <2> QED
      BY <2>1, <2>2, <1>1, <1>2, <1>5, <1>6, HalfFacts DEF InFromSpace
  <1>8. EvacHeap(v) = Overwrite(heap, top, heap[v])
    BY <1>3 DEF EvacHeap
  <1>9. /\ DOMAIN EvacHeap(v) = DOMAIN heap \cup {top}
        /\ \A x \in DOMAIN heap : EvacHeap(v)[x] = heap[x]
        /\ EvacHeap(v)[top] = heap[v]
    <2>1. top \notin DOMAIN heap
      BY <1>7
    <2>2. \A x \in DOMAIN heap : x + heap[x].size <= top \/ top + heap[v].size <= x
      BY <1>7
    <2> QED
      BY <1>8, <2>1, <2>2 DEF Overwrite
  <1> QED
    BY <1>2, <1>3, <1>5, <1>6, <1>7, <1>9 DEF EvacForwarding

\* copy_object keeps the collection sound, returns a reference out of
\* from_space, and leaves every cell where and as it is.
LEMMA CopyObject ==
  ASSUME {from_space, to_space} = {0, Half},
         Sound(heap, forwarding, top),
         NEW v \in Value, CELL_P(v) => v \in DOMAIN heap
  PROVE  /\ Sound(EvacHeap(v), EvacForwarding(v), EvacTop(v))
         /\ top <= EvacTop(v)
         /\ CopyOf(v) \in Value
         /\ CELL_P(CopyOf(v)) => /\ CopyOf(v) \in DOMAIN EvacHeap(v)
                                 /\ ~InFromSpace(CopyOf(v))
         /\ DOMAIN heap \subseteq DOMAIN EvacHeap(v)
         /\ \A x \in DOMAIN heap : EvacHeap(v)[x] = heap[x]
         /\ \A x \in DOMAIN EvacHeap(v) : x \notin DOMAIN heap =>
              x = top /\ v \in DOMAIN heap /\ EvacHeap(v)[x] = heap[v]
  <1>1. CASE ~CELL_P(v)
    BY <1>1 DEF Stays, EvacHeap, EvacForwarding, EvacTop, CopyOf, CELL_P, Value, Sound
  <1>2. CASE CELL_P(v) /\ IS_COPIED(v)
    <2>1. Stays(v)
      BY <1>2 DEF Stays
    <2>2. forwarding[v] \in DOMAIN heap /\ ~InFromSpace(forwarding[v])
      BY <1>2 DEF Sound, Forwarded, IS_COPIED
    <2> QED
      BY <1>2, <2>1, <2>2
      DEF EvacHeap, EvacForwarding, EvacTop, CopyOf, CELL_P, Value, Sound
  <1>3. CASE CELL_P(v) /\ ~IS_COPIED(v)
    <2> DEFINE h == EvacHeap(v)
               f == EvacForwarding(v)
               s == heap[v].size
    <2>1. v \in DOMAIN heap /\ InFromSpace(v) /\ forwarding[v] = v
      BY <1>3 DEF IS_COPIED
    <2>2. /\ from_space \in Nat /\ to_space \in Nat
          /\ from_space + Half <= to_space \/ to_space + Half <= from_space
      BY Spaces
    <2>3. /\ top + s <= to_space + Half
          /\ to_space <= top
          /\ top \notin DOMAIN heap
          /\ ~InFromSpace(top)
          /\ \A x \in DOMAIN heap : x + heap[x].size <= top \/ top + s <= x
          /\ DOMAIN h = DOMAIN heap \cup {top}
          /\ \A x \in DOMAIN heap : h[x] = heap[x]
          /\ h[top] = heap[v]
          /\ f = [x \in DOMAIN h |-> IF x \in {v, top} THEN top ELSE forwarding[x]]
          /\ ~Stays(v)
      BY <2>1, RoomForCopy
    <2>4. /\ EvacTop(v) = top + s
          /\ CopyOf(v) = top
      BY <1>3, <2>3 DEF EvacTop, CopyOf
    <2>5. /\ v \in Nat /\ top \in Nat /\ top % 4 = 0
          /\ s \in Nat /\ s > 0 /\ s % 4 = 0
          /\ heap[v] \in Object
      BY <2>1 DEF Sound, Object, Tiled
    <2>6. /\ h \in [DOMAIN h -> Object]
          /\ f \in [DOMAIN h -> Nat]
          /\ DOMAIN h \subseteq Nat
      <3>1. \A x \in DOMAIN h : h[x] \in Object
        BY <2>3, <2>5 DEF Sound
      <3>2. h = [x \in DOMAIN h |-> h[x]]
        BY <2>3 DEF EvacHeap, Overwrite
      <3>3. h \in [DOMAIN h -> Object]
        BY <3>1, <3>2
      <3>4. f \in [DOMAIN h -> Nat]
        BY <2>3, <2>5 DEF Sound
      <3> QED
        BY <3>3, <3>4, <2>3, <2>5 DEF Sound
    <2>7. Tiled(h)
      <3>1. \A x \in DOMAIN h : h[x].size > 0 /\ h[x].size % 4 = 0
        BY <2>3, <2>5 DEF Sound, Tiled
      <3>2. Disjoint(h)
        BY <2>3, <2>5 DEF Sound, Tiled, Disjoint
      <3> QED
        BY <3>1, <3>2 DEF Tiled
    <2>8. Parted(h, top + s)
      <3>1. ASSUME NEW x \in DOMAIN heap
            PROVE  IF InFromSpace(x) THEN x + h[x].size <= from_space + Half
                   ELSE to_space <= x /\ x + h[x].size <= top + s
        <4>1. x \in Nat /\ heap[x].size \in Nat /\ h[x] = heap[x]
          BY <2>3 DEF Sound, Object
        <4>2. IF InFromSpace(x) THEN x + heap[x].size <= from_space + Half
                                ELSE to_space <= x /\ x + heap[x].size <= top
          BY DEF Sound, Parted
        <4> QED
          BY <4>1, <4>2, <2>5
      <3> QED
        BY <3>1, <2>2, <2>3, <2>5 DEF Parted
    <2>9. Gapless(h, top + s)
      BY <2>3, <2>5 DEF Sound, Gapless
    <2>10. Forwarded(h, f)
      BY <2>1, <2>3 DEF Sound, Forwarded
    <2>11. Room(h, f, top + s)
      <3> /\ heap \in [DOMAIN heap -> Object]
          /\ DOMAIN heap \subseteq Nat
          /\ Parted(heap, top)
          /\ Disjoint(heap)
        BY DEF Sound, Tiled
      <3>1. Cardinality(Uncopied(h, f))
              = Cardinality(Uncopied(heap, forwarding)) - heap[v].size
        <4> HIDE DEF h, f
        <4> QED
          BY <2>1, <2>2, <2>3, UncopiedAfter
      <3>2. Cardinality(Uncopied(heap, forwarding)) \in Nat
        BY <2>2, UncopiedBytes DEF Sound
      <3> QED
        BY <3>1, <3>2, <2>2, <2>5, HalfFacts DEF Sound, Room
    <2>12. top + s \in Nat /\ (top + s) % 4 = 0
      BY <2>5
    <2>13. Sound(h, f, top + s)
      BY <2>6, <2>7, <2>8, <2>9, <2>10, <2>11, <2>12 DEF Sound
    <2> QED
      BY <2>1, <2>3, <2>4, <2>5, <2>13 DEF Value
  <1> QED
    BY <1>1, <1>2, <1>3

-----------------------------------------------------------------------------
(* Every step preserves IInv: one lemma for each group of actions.         *)

\* What a request of new_cell or pair_cell is made of.
LEMMA RequestFacts ==
  ASSUME NEW r \in Requests
  PROVE  /\ r.size \in Nat
         /\ r.type \in {"leaf", "pair"}
         /\ r.a \in Roots /\ r.d \in Roots /\ r.dst \in Roots
  BY SizesAssumption DEF Requests, LeafRequests, PairRequests

\* Init: the empty heap satisfies the invariant.
LEMMA InitIInv == Init => IInv
  <1> SUFFICES ASSUME Init PROVE IInv
    OBVIOUS
  <1>1. /\ Half \in Nat /\ 1 \in 1 .. (NRoots + 1)
    BY HalfFacts, RootsAssumption
  <1>2. DOMAIN heap = {} /\ heap \in [DOMAIN heap -> Object]
        /\ forwarding \in [DOMAIN heap -> Nat]
    BY DEF Init, BaseInit
  <1>3. TypeOK
    BY <1>1, <1>2, StressAssumption DEF Init, BaseInit, TypeOK, Value
  <1>4. NoDangling /\ Tiled(heap) /\ Resting /\ top % 4 = 0
    BY <1>1, <1>2 DEF Init, BaseInit, NoDangling, CELL_P, Tiled, Disjoint, Resting
  <1>5. ~Collecting /\ Traced /\ ScannedIsBlack
    BY DEF Init, BaseInit, Collecting, Traced, ScannedIsBlack
  <1> QED
    BY <1>3, <1>4, <1>5 DEF IInv

\* Client: a store of a value at hand preserves the invariant.
LEMMA ClientStep ==
  ASSUME IInv, Client, UNCHANGED copyVars
  PROVE  IInv'
  <1>1. /\ pc = "run" /\ pc' = "run" /\ ~Collecting
        /\ UNCHANGED <<req, k, g_GC_stress, forwarding, from_space, to_space, top,
                       scanned, field>>
    BY DEF Client, Assign, Redefine, copyVars, Collecting
  <1>2. \A v \in Held : v \in Value /\ (CELL_P(v) => v \in DOMAIN heap)
    <2>1. \A i \in Roots : root[i] \in Value
      BY DEF IInv, TypeOK
    <2>2. \A a \in DOMAIN heap : heap[a].car \in Value /\ heap[a].cdr \in Value
      BY DEF IInv, TypeOK, Object, Value
    <2> QED
      BY <2>1, <2>2 DEF Held, Fields, Value, CELL_P, IInv, NoDangling
  <1>3. /\ DOMAIN heap' = DOMAIN heap
        /\ heap' \in [DOMAIN heap -> Object]
        /\ \A a \in DOMAIN heap : heap'[a].size = heap[a].size
        /\ root' \in [Roots -> Value]
        /\ NoDangling'
    <2>1. ASSUME NEW i \in Roots, NEW v \in Held, Assign(i, v)
          PROVE  <1>3!1 /\ <1>3!2 /\ <1>3!3 /\ <1>3!4 /\ <1>3!5
      <3>1. heap' = heap /\ root' = [root EXCEPT ![i] = v]
        BY <2>1 DEF Assign
      <3> QED
        BY <3>1, <1>2 DEF IInv, TypeOK, NoDangling
    <2>2. ASSUME NEW i \in Roots, NEW j \in Roots, Redefine(i, j)
          PROVE  <1>3!1 /\ <1>3!2 /\ <1>3!3 /\ <1>3!4 /\ <1>3!5
      <3> DEFINE b == heap[root[i]].car
      <3>1. /\ b \in DOMAIN heap
            /\ heap' = [heap EXCEPT ![b].cdr = root[j]]
            /\ root' = root
        <4>1. root[i] \in DOMAIN heap
          BY <2>2 DEF Redefine, IInv, NoDangling
        <4> QED
          BY <4>1, <2>2 DEF Redefine, IInv, NoDangling, Fields
      <3>2. /\ root[j] \in Value
            /\ CELL_P(root[j]) => root[j] \in DOMAIN heap
            /\ heap \in [DOMAIN heap -> Object]
            /\ root \in [Roots -> Value]
        BY DEF IInv, TypeOK, NoDangling
      <3>3. /\ DOMAIN heap' = DOMAIN heap
            /\ heap'[b] = [heap[b] EXCEPT !.cdr = root[j]]
            /\ \A a \in DOMAIN heap : a # b => heap'[a] = heap[a]
        BY <3>1
      <3>4. heap[b] \in Object
        BY <3>1, <3>2
      <3>5. heap'[b] \in Object /\ heap'[b].size = heap[b].size
            /\ Fields(heap'[b]) \subseteq Fields(heap[b]) \cup {root[j]}
        <4>1. heap[b].type = "pair"
          BY <2>2 DEF Redefine
        <4> HIDE DEF b
        <4> QED
          BY <3>2, <3>3, <3>4, <4>1 DEF Object, Fields
      <3>6. heap' \in [DOMAIN heap -> Object]
        BY <3>1, <3>2, <3>3, <3>5
      <3>7. NoDangling'
        BY <3>1, <3>2, <3>3, <3>5 DEF IInv, NoDangling
      <3> QED
        BY <3>1, <3>2, <3>3, <3>5, <3>6, <3>7
    <2> QED
      BY <2>1, <2>2 DEF Client
  <1>4. TypeOK'
    BY <1>1, <1>3 DEF IInv, TypeOK
  <1>5. Tiled(heap)' /\ Resting'
    BY <1>1, <1>3 DEF IInv, Tiled, Disjoint, Resting, Within, Extent
  <1>6. /\ (top % 4 = 0)' /\ ~Collecting' /\ Traced' /\ ScannedIsBlack'
    BY <1>1 DEF IInv, Collecting, Traced, ScannedIsBlack
  <1> QED
    BY <1>3, <1>4, <1>5, <1>6 DEF IInv

\* The allocation itself, before or after a collection.
LEMMA AllocateStep ==
  ASSUME IInv, ~Collecting, NEW r \in Requests, IS_ALLOCATABLE(r.size), Allocate(r)
  PROVE  IInv'
  <1> DEFINE size == AllocateSize(r.size)
             o    == NewObject(r, size)
  <1>1. /\ pc' = "run" /\ req' = NoReq /\ top' = top + size
        /\ UNCHANGED <<k, g_GC_stress, from_space, to_space, scanned, field>>
        /\ heap' = Overwrite(heap, top, o)
        /\ forwarding' = [x \in DOMAIN heap' |-> IF x = top THEN top ELSE forwarding[x]]
        /\ root' = [root EXCEPT ![r.dst] = top]
    BY DEF Allocate
  <1>2. /\ size \in Nat /\ size > 0 /\ size % 4 = 0
        /\ top \in Nat /\ top % 4 = 0
        /\ top + size <= from_space + Half
    BY RequestFacts, AllocateSizeFacts, AllocationFits, Spaces DEF IInv, TypeOK
  <1>3. /\ r.a \in Roots /\ r.d \in Roots /\ r.dst \in Roots
        /\ r.type \in {"leaf", "pair"}
    BY RequestFacts
  <1>4. /\ from_space \in Nat /\ from_space <= top
        /\ \A x \in DOMAIN heap :
             /\ x \in Nat /\ heap[x].size \in Nat /\ heap[x].size > 0
             /\ from_space <= x /\ x + heap[x].size <= top
             /\ forwarding[x] = x
    BY Spaces DEF IInv, TypeOK, Resting, Within, Tiled, Object
  <1>5. /\ o \in Object /\ o.size = size
        /\ \A v \in Fields(o) : v = IMM \/ \E i \in Roots : v = root[i]
    <2>1. \A i \in Roots : root[i] \in Value
      BY DEF IInv, TypeOK
    <2>2. /\ o.type = r.type /\ o.size = size
          /\ o.car = IF r.type = "pair" THEN root[r.a] ELSE IMM
          /\ o.cdr = IF r.type = "pair" THEN root[r.d] ELSE IMM
          /\ o = [type |-> o.type, size |-> o.size, car |-> o.car, cdr |-> o.cdr]
      BY DEF NewObject
    <2> HIDE DEF o
    <2>3. o.car \in Value /\ o.cdr \in Value
      BY <2>1, <2>2, <1>3 DEF Value
    <2> QED
      BY <2>2, <2>3, <1>2, <1>3 DEF Object, Fields
  <1> HIDE DEF size, o
  <1>6. /\ top \notin DOMAIN heap
        /\ \A x \in DOMAIN heap : x + heap[x].size <= top \/ top + o.size <= x
    BY <1>2, <1>4
  <1>7. /\ DOMAIN heap' = DOMAIN heap \cup {top}
        /\ \A x \in DOMAIN heap : heap'[x] = heap[x]
        /\ heap'[top] = o
    <2>1. heap' = Overwrite(heap, top, o)
      BY <1>1
    <2> QED
      BY <2>1, <1>6 DEF Overwrite
  <1>8. heap' \in [DOMAIN heap' -> Object]
    <2>1. \A x \in DOMAIN heap' : heap'[x] \in Object
      BY <1>5, <1>7 DEF IInv, TypeOK
    <2>2. heap' = [x \in DOMAIN heap' |-> heap'[x]]
      BY <1>1 DEF Overwrite
    <2> QED
      BY <2>1, <2>2
  <1>9. forwarding' \in [DOMAIN heap' -> Nat] /\ \A x \in DOMAIN heap' : forwarding'[x] = x
    BY <1>1, <1>2, <1>4, <1>7
  <1>10. TypeOK'
    <2>1. root' \in [Roots -> Value]
      <3>1. root \in [Roots -> Value] /\ top \in Value
        BY <1>2 DEF IInv, TypeOK, Value
      <3> QED
        BY <1>1, <3>1
    <2>2. top' \in Nat /\ DOMAIN heap' \subseteq Nat
      BY <1>1, <1>2, <1>4, <1>7
    <2> QED
      BY <1>1, <1>8, <1>9, <2>1, <2>2 DEF IInv, TypeOK
  <1>11. NoDangling'
    <2>1. \A i \in Roots : CELL_P(root'[i]) => root'[i] \in DOMAIN heap'
      BY <1>1, <1>7 DEF IInv, TypeOK, NoDangling
    <2>2. \A v \in Fields(o) : CELL_P(v) => v \in DOMAIN heap
      BY <1>5 DEF IInv, NoDangling, CELL_P
    <2>3. \A a \in DOMAIN heap' : \A v \in Fields(heap'[a]) : CELL_P(v) => v \in DOMAIN heap'
      BY <2>2, <1>7 DEF IInv, NoDangling
    <2> QED
      BY <2>1, <2>3 DEF NoDangling
  <1>12. Tiled(heap)'
    <2>1. \A x \in DOMAIN heap' : heap'[x].size > 0 /\ heap'[x].size % 4 = 0
      BY <1>2, <1>5, <1>7 DEF IInv, Tiled
    <2>2. Disjoint(heap)'
      BY <1>6, <1>7 DEF IInv, Tiled, Disjoint
    <2> QED
      BY <2>1, <2>2 DEF Tiled
  <1>13. Resting'
    <2>1. from_space' <= top' /\ top' <= from_space' + Half
      BY <1>1, <1>2, <1>4
    <2>2. \A x \in DOMAIN heap' : from_space' <= x /\ x + heap'[x].size <= top'
      BY <1>1, <1>2, <1>4, <1>5, <1>7
    <2> QED
      BY <2>1, <2>2, <1>9 DEF Resting, Within
  <1>14. (top % 4 = 0)'
    BY <1>1, <1>2
  <1>15. ~Collecting' /\ Traced' /\ ScannedIsBlack'
    BY <1>1 DEF Collecting, Traced, ScannedIsBlack
  <1> QED
    BY <1>10, <1>11, <1>12, <1>13, <1>14, <1>15 DEF IInv

\* gc_start_copy begins with an empty to_space: all there is to copy fits.
LEMMA GCStartStep ==
  ASSUME IInv, NEW r \in Requests, GCStart(r)
  PROVE  IInv'
  <1>1. /\ pc = "run" /\ pc' = "roots" /\ req' = r /\ k' = 1 /\ top' = to_space
        /\ UNCHANGED <<root, heap, g_GC_stress, forwarding, from_space, to_space,
                       scanned, field>>
    BY DEF GCStart
  <1>2. /\ from_space \in Nat /\ to_space \in Nat /\ to_space % 4 = 0
        /\ from_space' \in Nat
    BY <1>1, Spaces DEF IInv, TypeOK
  <1>3. /\ 1 \in 1 .. (NRoots + 1) /\ Half \in Nat
    BY RootsAssumption, HalfFacts
  <1>4. TypeOK'
    BY <1>1, <1>2, <1>3 DEF IInv, TypeOK
  <1>5. /\ Resting
        /\ \A x \in DOMAIN heap : x \in Nat /\ heap[x].size \in Nat /\ heap[x].size > 0
    BY <1>1 DEF IInv, Collecting, TypeOK, Tiled, Object
  <1>6. \A x \in DOMAIN heap : InFromSpace(x) /\ x + heap[x].size <= from_space + Half
    BY <1>2, <1>3, <1>5 DEF Resting, Within, InFromSpace, IInv, TypeOK
  <1>7. Parted(heap, top)'
    BY <1>1, <1>2, <1>3, <1>6 DEF Parted, InFromSpace
  <1>8. Gapless(heap, top)' /\ Forwarded(heap, forwarding)'
    BY <1>1, <1>5, <1>6 DEF Gapless, Forwarded, Resting, InFromSpace
  <1>9. Room(heap, forwarding, top)'
    <2>1. heap' \in [DOMAIN heap' -> Object] /\ DOMAIN heap' \subseteq Nat
      BY <1>4 DEF TypeOK
    <2>2. Parted(heap, to_space)
      BY <1>2, <1>3, <1>6 DEF Parted
    <2>3. /\ Cardinality(Uncopied(heap, forwarding)) \in Nat
          /\ Cardinality(Uncopied(heap, forwarding)) <= Half
      BY <1>1, <1>2, <2>1, <2>2, UncopiedBytes
    <2>4. Room(heap, forwarding, to_space)
      BY <2>3, <1>2, <1>3 DEF Room
    <2> QED
      BY <2>4, <1>1 DEF Room, Uncopied, InFromSpace, Extent
  <1>10. NoDangling' /\ Tiled(heap)' /\ (top % 4 = 0)'
    BY <1>1, <1>2 DEF IInv, NoDangling, Tiled, Disjoint
  <1>11. Collecting' /\ Traced' /\ ScannedIsBlack'
    BY <1>1 DEF Collecting, Traced, ScannedIsBlack, Roots
  <1> QED
    BY <1>4, <1>7, <1>8, <1>9, <1>10, <1>11 DEF IInv

-----------------------------------------------------------------------------
(* Steps of a collection. *)

\* What the invariant says of the memory while a collection runs.
LEMMA CollectingFacts ==
  ASSUME IInv, Collecting
  PROVE  /\ {from_space, to_space} = {0, Half}
         /\ from_space \in Nat /\ to_space \in Nat
         /\ Sound(heap, forwarding, top)
  BY Spaces DEF IInv, TypeOK, Sound

\* Changing the fields of cells leaves a collection sound.
LEMMA SoundFields ==
  ASSUME NEW h, NEW f, NEW t, Sound(h, f, t),
         NEW g \in [DOMAIN h -> Object],
         \A x \in DOMAIN h : g[x].size = h[x].size
  PROVE  Sound(g, f, t)
  <1>1. DOMAIN g = DOMAIN h
    OBVIOUS
  <1>2. Tiled(g) /\ Parted(g, t)
    BY <1>1 DEF Sound, Tiled, Disjoint, Parted
  <1>3. Gapless(g, t) /\ Forwarded(g, f)
    BY <1>1 DEF Sound, Gapless, Forwarded
  <1>4. Uncopied(g, f) = Uncopied(h, f)
    BY <1>1 DEF Uncopied, Extent
  <1>5. Room(g, f, t)
    BY <1>4 DEF Sound, Room
  <1> QED
    BY <1>1, <1>2, <1>3, <1>5 DEF Sound

\* Soundness of the primed state, from that of the values it gets.
LEMMA SoundNext ==
  ASSUME UNCHANGED <<from_space, to_space>>, Sound(heap', forwarding', top')
  PROVE  Sound(heap, forwarding, top)'
  BY DEF Sound, Tiled, Disjoint, Parted, Gapless, Forwarded, Room, Uncopied,
         InFromSpace, Extent

\* TraceRoot: a root slot is visited.
LEMMA TraceRootStep ==
  ASSUME IInv, TraceRoot
  PROVE  IInv'
  <1> DEFINE v == root[k]
  <1>1. /\ pc = "roots" /\ pc' = "roots" /\ Collecting /\ Collecting'
        /\ k \in Roots /\ k \in Nat
        /\ root' = [root EXCEPT ![k] = CopyOf(v)]
        /\ heap' = EvacHeap(v) /\ forwarding' = EvacForwarding(v) /\ top' = EvacTop(v)
        /\ k' = k + 1
        /\ UNCHANGED <<req, g_GC_stress, from_space, to_space, scanned, field>>
    BY RootsAssumption DEF TraceRoot, Collecting, IInv, TypeOK, Roots
  <1>2. /\ {from_space, to_space} = {0, Half} /\ Sound(heap, forwarding, top)
        /\ v \in Value /\ (CELL_P(v) => v \in DOMAIN heap)
    BY <1>1, CollectingFacts DEF IInv, TypeOK, NoDangling
  <1>3. /\ Sound(heap', forwarding', top')
        /\ CopyOf(v) \in Value
        /\ CELL_P(CopyOf(v)) => CopyOf(v) \in DOMAIN heap' /\ ~InFromSpace(CopyOf(v))
        /\ DOMAIN heap \subseteq DOMAIN heap'
        /\ \A x \in DOMAIN heap : heap'[x] = heap[x]
        /\ \A x \in DOMAIN heap' : x \notin DOMAIN heap =>
             x = top /\ v \in DOMAIN heap /\ heap'[x] = heap[v]
    <2> HIDE DEF v
    <2> QED
      BY <1>1, <1>2, CopyObject
  <1>4. Sound(heap, forwarding, top)'
    BY <1>1, <1>3, SoundNext
  <1>5. root' \in [Roots -> Value] /\ k' \in 1 .. (NRoots + 1)
    BY <1>1, <1>3, RootsAssumption DEF IInv, TypeOK, Roots
  <1>6. TypeOK'
    BY <1>1, <1>4, <1>5 DEF IInv, TypeOK, Sound
  <1>7. NoDangling'
    <2>1. \A i \in Roots : CELL_P(root'[i]) => root'[i] \in DOMAIN heap'
      BY <1>1, <1>3 DEF IInv, TypeOK, NoDangling
    <2>2. \A a \in DOMAIN heap' : \A w \in Fields(heap'[a]) : CELL_P(w) => w \in DOMAIN heap'
      BY <1>3 DEF IInv, NoDangling
    <2> QED
      BY <2>1, <2>2 DEF NoDangling
  <1>8. Traced' /\ ScannedIsBlack'
    <2>1. \A i \in Roots : i < k' /\ CELL_P(root'[i]) => ~InFromSpace(root'[i])
      <3>1. \A i \in Roots : i < k + 1 => i < k \/ i = k
        BY <1>1 DEF Roots
      <3> QED
        BY <1>1, <1>3, <3>1 DEF IInv, TypeOK, Traced
    <2> QED
      BY <1>1, <2>1 DEF Traced, ScannedIsBlack, InFromSpace
  <1> QED
    BY <1>1, <1>4, <1>6, <1>7, <1>8 DEF IInv, Sound

\* trace_roots is over: no root refers to from_space, and the scan starts at
\* the first copy, if there is one.
LEMMA RootsTracedStep ==
  ASSUME IInv, RootsTraced
  PROVE  IInv'
  <1>1. /\ pc = "roots" /\ pc' = "scan" /\ Collecting /\ Collecting'
        /\ k > NRoots /\ k' = 1 /\ scanned' = to_space /\ field' = "car"
        /\ UNCHANGED <<root, heap, req, g_GC_stress, forwarding, from_space,
                       to_space, top>>
    BY DEF RootsTraced, Collecting
  <1>2. /\ {from_space, to_space} = {0, Half} /\ Sound(heap, forwarding, top)
        /\ from_space \in Nat /\ to_space \in Nat
    BY <1>1, CollectingFacts
  <1>3. Sound(heap, forwarding, top)'
    BY <1>1, <1>2, SoundNext
  <1>4. TypeOK'
    <2>1. k' \in 1 .. (NRoots + 1)
      BY <1>1, RootsAssumption
    <2> QED
      BY <1>1, <1>2, <2>1 DEF IInv, TypeOK
  <1>5. NoDangling'
    BY <1>1 DEF IInv, NoDangling
  <1>6. \A i \in Roots : CELL_P(root[i]) => ~InFromSpace(root[i])
    BY <1>1, RootsAssumption DEF IInv, TypeOK, Traced, Roots
  <1>7. Traced'
    BY <1>1, <1>2 DEF Traced, Sound, Parted, Gapless
  <1>8. ScannedIsBlack'
    <2>1. \A a \in DOMAIN heap : ~InFromSpace(a) => a \in Nat /\ to_space <= a
      BY <1>2 DEF Sound, Parted
    <2> QED
      BY <1>1, <1>2, <1>6, <2>1 DEF ScannedIsBlack, InFromSpace
  <1> QED
    BY <1>1, <1>3, <1>4, <1>5, <1>7, <1>8 DEF IInv, Sound

\* The cell under the scan is a copy.
LEMMA ScannedCell ==
  ASSUME IInv, pc = "scan", scanned < top
  PROVE  /\ scanned \in DOMAIN heap /\ scanned \in Nat
         /\ ~InFromSpace(scanned)
         /\ heap[scanned] \in Object
         /\ heap[scanned].size \in Nat /\ heap[scanned].size > 0
         /\ \A v \in Fields(heap[scanned]) :
              v \in Value /\ (CELL_P(v) => v \in DOMAIN heap)
  <1>1. /\ Collecting
        /\ from_space + Half <= to_space \/ to_space + Half <= from_space
        /\ from_space \in Nat /\ to_space \in Nat /\ top \in Nat
    BY Spaces DEF Collecting, IInv, TypeOK
  <1>2. scanned \in DOMAIN heap /\ scanned \in Nat
    BY DEF IInv, Traced, TypeOK
  <1>3. ~InFromSpace(scanned)
    <2>1. to_space <= scanned /\ top <= to_space + Half
      BY <1>1 DEF IInv, Traced, Parted
    <2> QED
      BY <1>1, <1>2, <2>1, HalfFacts DEF InFromSpace
  <1>4. heap[scanned] \in Object
    BY <1>2 DEF IInv, TypeOK
  <1> QED
    BY <1>2, <1>3, <1>4 DEF IInv, Tiled, Object, Value, Fields, NoDangling

\* copy_and_update on one field of the cell under the scan: g is the heap it
\* leaves, n the new value of the field.
LEMMA UpdateField ==
  ASSUME IInv, pc = "scan", scanned < top,
         NEW v \in Fields(heap[scanned]),
         heap' \in [DOMAIN EvacHeap(v) -> Object],
         \A x \in DOMAIN EvacHeap(v) : x # scanned => heap'[x] = EvacHeap(v)[x],
         heap'[scanned].size = heap[scanned].size,
         Fields(heap'[scanned]) \subseteq Fields(heap[scanned]) \cup {CopyOf(v)},
         forwarding' = EvacForwarding(v), top' = EvacTop(v),
         UNCHANGED <<from_space, to_space, root>>
  PROVE  /\ Sound(heap, forwarding, top)'
         /\ NoDangling'
         /\ CELL_P(CopyOf(v)) => ~InFromSpace(CopyOf(v))
         /\ scanned < top' /\ scanned \in DOMAIN heap'
         /\ \A x \in DOMAIN heap' : x # scanned /\ x < top =>
              x \in DOMAIN heap /\ heap'[x] = heap[x]
  <1>1. /\ {from_space, to_space} = {0, Half} /\ Sound(heap, forwarding, top)
        /\ top \in Nat
    BY CollectingFacts DEF Collecting, Sound
  <1>2. /\ scanned \in DOMAIN heap /\ scanned \in Nat
        /\ v \in Value /\ (CELL_P(v) => v \in DOMAIN heap)
        /\ heap[scanned].size \in Nat
    BY ScannedCell
  <1>3. /\ Sound(EvacHeap(v), EvacForwarding(v), EvacTop(v))
        /\ top <= EvacTop(v)
        /\ CELL_P(CopyOf(v)) => CopyOf(v) \in DOMAIN EvacHeap(v) /\ ~InFromSpace(CopyOf(v))
        /\ DOMAIN heap \subseteq DOMAIN EvacHeap(v)
        /\ \A x \in DOMAIN heap : EvacHeap(v)[x] = heap[x]
        /\ \A x \in DOMAIN EvacHeap(v) : x \notin DOMAIN heap =>
             x = top /\ v \in DOMAIN heap /\ EvacHeap(v)[x] = heap[v]
    BY <1>1, <1>2, CopyObject
  <1>4. DOMAIN heap' = DOMAIN EvacHeap(v)
    OBVIOUS
  <1>5. \A x \in DOMAIN EvacHeap(v) : heap'[x].size = EvacHeap(v)[x].size
    BY <1>2, <1>3
  <1>6. Sound(heap', forwarding', top')
    BY <1>3, <1>5, SoundFields
  <1>7. Sound(heap, forwarding, top)'
    BY <1>6, SoundNext
  <1>8. NoDangling'
    <2>1. \A i \in Roots : CELL_P(root'[i]) => root'[i] \in DOMAIN heap'
      BY <1>3, <1>4 DEF IInv, NoDangling
    <2>2. ASSUME NEW a \in DOMAIN heap', NEW w \in Fields(heap'[a]), CELL_P(w)
          PROVE  w \in DOMAIN heap'
      <3>1. CASE a = scanned
        BY <2>2, <3>1, <1>2, <1>3, <1>4 DEF IInv, NoDangling
      <3>2. CASE a # scanned /\ a \in DOMAIN heap
        BY <2>2, <3>2, <1>3, <1>4 DEF IInv, NoDangling
      <3>3. CASE a # scanned /\ a \notin DOMAIN heap
        BY <2>2, <3>3, <1>3, <1>4 DEF IInv, NoDangling
      <3> QED
        BY <3>1, <3>2, <3>3
    <2> QED
      BY <2>1, <2>2 DEF NoDangling
  <1>9. scanned < top' /\ scanned \in DOMAIN heap'
    <2>1. EvacTop(v) \in Nat
      BY <1>3 DEF Sound
    <2> QED
      BY <1>1, <1>2, <1>3, <1>4, <2>1
  <1>10. \A x \in DOMAIN heap' : x # scanned /\ x < top =>
              x \in DOMAIN heap /\ heap'[x] = heap[x]
    BY <1>1, <1>3, <1>4
  <1> QED
    BY <1>3, <1>7, <1>8, <1>9, <1>10

\* ScanCar: the car of the cell at scanned is visited.
LEMMA ScanCarStep ==
  ASSUME IInv, ScanCar
  PROVE  IInv'
  <1> DEFINE v == heap[scanned].car
  <1>1. /\ pc = "scan" /\ pc' = "scan" /\ Collecting /\ Collecting' /\ scanned < top
        /\ heap[scanned].type = "pair" /\ field' = "cdr"
        /\ heap' = [EvacHeap(v) EXCEPT ![scanned].car = CopyOf(v)]
        /\ forwarding' = EvacForwarding(v) /\ top' = EvacTop(v)
        /\ UNCHANGED <<root, req, k, g_GC_stress, from_space, to_space, scanned>>
    BY DEF ScanCar, Collecting
  <1>2. /\ {from_space, to_space} = {0, Half} /\ Sound(heap, forwarding, top)
        /\ from_space \in Nat /\ to_space \in Nat /\ top \in Nat
    BY <1>1, CollectingFacts DEF Sound
  <1>3. /\ scanned \in DOMAIN heap /\ scanned \in Nat
        /\ v \in Value /\ (CELL_P(v) => v \in DOMAIN heap) /\ v \in Fields(heap[scanned])
    BY <1>1, ScannedCell DEF Fields
  <1> HIDE DEF v
  <1>4. /\ EvacHeap(v) \in [DOMAIN EvacHeap(v) -> Object]
        /\ CopyOf(v) \in Value
        /\ scanned \in DOMAIN EvacHeap(v) /\ EvacHeap(v)[scanned] = heap[scanned]
    BY <1>2, <1>3, CopyObject DEF Sound
  <1>5. /\ heap' \in [DOMAIN EvacHeap(v) -> Object]
        /\ \A x \in DOMAIN EvacHeap(v) : x # scanned => heap'[x] = EvacHeap(v)[x]
        /\ heap'[scanned] = [heap[scanned] EXCEPT !.car = CopyOf(v)]
    BY <1>1, <1>4 DEF Object
  <1>6. /\ heap'[scanned].size = heap[scanned].size
        /\ heap'[scanned].type = "pair"
        /\ heap'[scanned].car = CopyOf(v)
        /\ Fields(heap'[scanned]) \subseteq Fields(heap[scanned]) \cup {CopyOf(v)}
    <2>1. heap[scanned] \in Object
      BY <1>1, ScannedCell
    <2> QED
      BY <2>1, <1>1, <1>5 DEF Fields, Object
  <1>7. /\ Sound(heap, forwarding, top)' /\ NoDangling'
        /\ CELL_P(CopyOf(v)) => ~InFromSpace(CopyOf(v))
        /\ scanned < top' /\ scanned \in DOMAIN heap'
        /\ \A x \in DOMAIN heap' : x # scanned /\ x < top =>
             x \in DOMAIN heap /\ heap'[x] = heap[x]
    BY <1>1, <1>3, <1>5, <1>6, UpdateField
  <1>8. TypeOK'
    BY <1>1, <1>7 DEF IInv, TypeOK, Sound
  <1>9. Traced'
    <2>1. to_space <= scanned
      BY <1>1 DEF IInv, Traced
    <2>2. top' \in Nat
      BY <1>7 DEF Sound
    <2>3. /\ scanned' = scanned /\ to_space' = to_space /\ from_space' = from_space
          /\ pc' = "scan"
      BY <1>1
    <2>4. scanned <= top'
      BY <1>2, <1>3, <1>7, <2>2
    <2>5. CELL_P(heap'[scanned].car) => ~InFromSpace(heap'[scanned].car)
      BY <1>6, <1>7
    <2> QED
      BY <1>6, <1>7, <2>1, <2>3, <2>4, <2>5 DEF Traced, InFromSpace
  <1>10. ScannedIsBlack'
    <2>1. \A i \in Roots : CELL_P(root'[i]) => ~InFromSpace(root'[i])
      BY <1>1 DEF IInv, ScannedIsBlack
    <2>2. ASSUME NEW a \in DOMAIN heap', ~InFromSpace(a), a < scanned,
                 NEW w \in Fields(heap'[a]), CELL_P(w)
          PROVE  ~InFromSpace(w)
      <3>1. a # scanned /\ a < top
        BY <2>2, <1>1, <1>2, <1>3, <1>7 DEF Sound
      <3> QED
        BY <2>2, <3>1, <1>1, <1>7 DEF IInv, ScannedIsBlack
    <2> QED
      BY <1>1, <2>1, <2>2 DEF ScannedIsBlack, InFromSpace
  <1> QED
    BY <1>1, <1>7, <1>8, <1>9, <1>10 DEF IInv, Sound

\* The scan is done with the cell at scanned, whose fields are black now (h is
\* the heap it leaves), and moves on to the next header.
LEMMA ScanAdvance ==
  ASSUME IInv, pc = "scan", pc' = "scan", scanned < top, field' = "car",
         UNCHANGED <<root, from_space, to_space>>,
         Sound(heap, forwarding, top)', scanned < top', scanned \in DOMAIN heap',
         heap'[scanned].size = heap[scanned].size,
         scanned' = scanned + heap[scanned].size,
         \A x \in DOMAIN heap' : x # scanned /\ x < top =>
           x \in DOMAIN heap /\ heap'[x] = heap[x],
         \A w \in Fields(heap'[scanned]) : CELL_P(w) => ~InFromSpace(w)
  PROVE  Traced' /\ ScannedIsBlack' /\ scanned' \in Nat
  <1> DEFINE s == heap[scanned].size
  <1>1. /\ scanned \in DOMAIN heap /\ scanned \in Nat /\ ~InFromSpace(scanned)
        /\ s \in Nat /\ s > 0
        /\ to_space <= scanned
    BY ScannedCell DEF IInv, Traced
  <1>2. /\ from_space \in Nat /\ to_space \in Nat /\ top \in Nat /\ top' \in Nat
    BY CollectingFacts DEF Sound, Collecting
  <1>3. scanned + s <= top /\ scanned + s <= top'
    BY <1>1 DEF IInv, Collecting, Parted, Sound, InFromSpace
  <1>4. scanned' = top' \/ scanned' \in DOMAIN heap'
    BY <1>1 DEF Sound, Gapless, InFromSpace
  <1>5. Traced'
    BY <1>1, <1>2, <1>3, <1>4 DEF Traced
  <1>6. ASSUME NEW a \in DOMAIN heap', ~InFromSpace(a), a < scanned',
               NEW w \in Fields(heap'[a]), CELL_P(w)
        PROVE  ~InFromSpace(w)
    <2>1. CASE a = scanned
      BY <1>6, <2>1
    <2>2. CASE a # scanned
      <3>1. a \in Nat /\ heap'[a].size \in Nat /\ heap'[a].size > 0
        BY DEF Sound, Object, Tiled
      <3>2. a < scanned
        <4>1. a + heap'[a].size <= scanned \/ scanned + s <= a
          BY <2>2 DEF Sound, Tiled, Disjoint
        <4> QED
          BY <4>1, <3>1, <1>1, <1>6
      <3>3. a \in DOMAIN heap /\ heap'[a] = heap[a]
        BY <2>2, <3>1, <3>2, <1>1, <1>2
      <3> QED
        BY <1>6, <3>2, <3>3 DEF IInv, ScannedIsBlack
    <2> QED
      BY <2>1, <2>2
  <1>7. ScannedIsBlack'
    <2>1. \A i \in Roots : CELL_P(root[i]) => ~InFromSpace(root[i])
      BY DEF IInv, ScannedIsBlack
    <2> QED
      BY <1>6, <2>1 DEF ScannedIsBlack, InFromSpace
  <1> QED
    BY <1>1, <1>5, <1>7

\* ScanCdr: its cdr is visited and the scan advances.
LEMMA ScanCdrStep ==
  ASSUME IInv, ScanCdr
  PROVE  IInv'
  <1> DEFINE v == heap[scanned].cdr
  <1>1. /\ pc = "scan" /\ pc' = "scan" /\ Collecting /\ Collecting' /\ scanned < top
        /\ heap[scanned].type = "pair" /\ field = "cdr" /\ field' = "car"
        /\ heap' = [EvacHeap(v) EXCEPT ![scanned].cdr = CopyOf(v)]
        /\ forwarding' = EvacForwarding(v) /\ top' = EvacTop(v)
        /\ scanned' = scanned + heap[scanned].size
        /\ UNCHANGED <<root, req, k, g_GC_stress, from_space, to_space>>
    BY DEF ScanCdr, Collecting
  <1>2. /\ {from_space, to_space} = {0, Half} /\ Sound(heap, forwarding, top)
    BY <1>1, CollectingFacts
  <1>3. /\ scanned \in DOMAIN heap
        /\ v \in Value /\ (CELL_P(v) => v \in DOMAIN heap) /\ v \in Fields(heap[scanned])
    BY <1>1, ScannedCell DEF Fields
  <1> HIDE DEF v
  <1>4. /\ EvacHeap(v) \in [DOMAIN EvacHeap(v) -> Object]
        /\ CopyOf(v) \in Value
        /\ scanned \in DOMAIN EvacHeap(v) /\ EvacHeap(v)[scanned] = heap[scanned]
    BY <1>2, <1>3, CopyObject DEF Sound
  <1>5. /\ heap' \in [DOMAIN EvacHeap(v) -> Object]
        /\ \A x \in DOMAIN EvacHeap(v) : x # scanned => heap'[x] = EvacHeap(v)[x]
        /\ heap'[scanned] = [heap[scanned] EXCEPT !.cdr = CopyOf(v)]
    BY <1>1, <1>4 DEF Object
  <1>6. /\ heap'[scanned].size = heap[scanned].size
        /\ Fields(heap'[scanned]) \subseteq Fields(heap[scanned]) \cup {CopyOf(v)}
        /\ Fields(heap'[scanned]) = {heap[scanned].car, CopyOf(v)}
    <2>1. heap[scanned] \in Object
      BY <1>1, ScannedCell
    <2> QED
      BY <2>1, <1>5 DEF Fields, Object
  <1>7. /\ Sound(heap, forwarding, top)' /\ NoDangling'
        /\ CELL_P(CopyOf(v)) => ~InFromSpace(CopyOf(v))
        /\ scanned < top' /\ scanned \in DOMAIN heap'
        /\ \A x \in DOMAIN heap' : x # scanned /\ x < top =>
             x \in DOMAIN heap /\ heap'[x] = heap[x]
    BY <1>1, <1>3, <1>5, <1>6, UpdateField
  <1>8. \A w \in Fields(heap'[scanned]) : CELL_P(w) => ~InFromSpace(w)
    <2>1. CELL_P(heap[scanned].car) => ~InFromSpace(heap[scanned].car)
      BY <1>1 DEF IInv, Traced
    <2> QED
      BY <2>1, <1>6, <1>7
  <1>9. Traced' /\ ScannedIsBlack' /\ scanned' \in Nat
    BY <1>1, <1>6, <1>7, <1>8, ScanAdvance
  <1>10. TypeOK'
    BY <1>1, <1>7, <1>9 DEF IInv, TypeOK, Sound
  <1> QED
    BY <1>1, <1>7, <1>9, <1>10 DEF IInv, Sound

\* ScanLeaf: the scan advances over a cell without references.
LEMMA ScanLeafStep ==
  ASSUME IInv, ScanLeaf
  PROVE  IInv'
  <1>1. /\ pc = "scan" /\ pc' = "scan" /\ Collecting /\ Collecting' /\ scanned < top
        /\ heap[scanned].type = "leaf"
        /\ scanned' = scanned + heap[scanned].size
        /\ UNCHANGED <<root, heap, req, k, g_GC_stress, forwarding, from_space,
                       to_space, top, field>>
    BY DEF ScanLeaf, Collecting
  <1>2. Sound(heap, forwarding, top)
    BY <1>1, CollectingFacts
  <1>3. Sound(heap, forwarding, top)'
    BY <1>1, <1>2, SoundNext
  <1>4. scanned \in DOMAIN heap /\ heap[scanned] \in Object
    BY <1>1, ScannedCell
  <1>5. \A w \in Fields(heap[scanned]) : ~CELL_P(w)
    BY <1>1, <1>4 DEF Object, Fields, CELL_P
  <1>6. field' = "car"
    BY <1>1 DEF IInv, Traced, TypeOK
  <1>7. Traced' /\ ScannedIsBlack' /\ scanned' \in Nat
    <2>1. /\ scanned \in DOMAIN heap' /\ heap'[scanned].size = heap[scanned].size
          /\ \A w \in Fields(heap'[scanned]) : CELL_P(w) => ~InFromSpace(w)
          /\ scanned < top'
      BY <1>1, <1>4, <1>5
    <2>2. \A x \in DOMAIN heap' : x # scanned /\ x < top => x \in DOMAIN heap /\ heap'[x] = heap[x]
      BY <1>1
    <2> QED
      BY <1>1, <1>3, <1>6, <2>1, <2>2, ScanAdvance
  <1>8. TypeOK'
    BY <1>1, <1>7 DEF IInv, TypeOK
  <1>9. NoDangling'
    BY <1>1 DEF IInv, NoDangling
  <1> QED
    BY <1>1, <1>3, <1>7, <1>8, <1>9 DEF IInv, Sound

\* When the scan has caught up with top, roots and copies are all black: what
\* is left in from_space can go.
LEMMA FlipStep ==
  ASSUME IInv, Flip
  PROVE  IInv'
  <1> DEFINE survivors == {a \in DOMAIN heap : ~InFromSpace(a)}
  <1>1. /\ pc = "scan" /\ pc' = "retry" /\ Collecting /\ ~Collecting' /\ scanned >= top
        /\ from_space' = to_space /\ to_space' = from_space
        /\ heap' = [a \in survivors |-> heap[a]]
        /\ forwarding' = [a \in survivors |-> forwarding[a]]
        /\ scanned' = 0
        /\ UNCHANGED <<root, req, k, g_GC_stress, top, field>>
    BY DEF Flip, Collecting
  <1>2. /\ {from_space, to_space} = {0, Half} /\ Sound(heap, forwarding, top)
        /\ top \in Nat /\ scanned \in Nat
    BY <1>1, CollectingFacts DEF Sound, IInv, TypeOK
  <1>3. \A a \in survivors :
          /\ a \in Nat /\ heap[a].size \in Nat /\ heap[a].size > 0
          /\ heap[a].size % 4 = 0
          /\ to_space <= a /\ a + heap[a].size <= top
          /\ forwarding[a] = a
    BY <1>2 DEF Sound, Object, Tiled, Parted, Forwarded
  <1>4. /\ heap' \in [survivors -> Object] /\ forwarding' \in [survivors -> Nat]
        /\ DOMAIN heap' = survivors
        /\ \A a \in survivors : heap'[a] = heap[a] /\ forwarding'[a] = forwarding[a]
    BY <1>1, <1>2 DEF Sound
  <1>5. TypeOK'
    BY <1>1, <1>2, <1>3, <1>4 DEF IInv, TypeOK
  <1>6. NoDangling'
    <2>1. \A i \in Roots : CELL_P(root'[i]) => root'[i] \in DOMAIN heap'
      BY <1>1, <1>4 DEF IInv, NoDangling, ScannedIsBlack
    <2>2. ASSUME NEW a \in DOMAIN heap', NEW w \in Fields(heap'[a]), CELL_P(w)
          PROVE  w \in DOMAIN heap'
      <3>1. a \in survivors /\ heap'[a] = heap[a]
        BY <1>4
      <3>2. a < scanned
        BY <3>1, <1>1, <1>2, <1>3
      <3>3. ~InFromSpace(w) /\ w \in DOMAIN heap
        BY <2>2, <3>1, <3>2, <1>1 DEF IInv, NoDangling, ScannedIsBlack
      <3> QED
        BY <3>3, <1>4
    <2> QED
      BY <2>1, <2>2 DEF NoDangling
  <1>7. Tiled(heap)'
    BY <1>3, <1>4 DEF IInv, Tiled, Disjoint
  <1>8. Resting'
    BY <1>1, <1>2, <1>3, <1>4 DEF Resting, Within, Sound, Parted
  <1>9. (top % 4 = 0)' /\ Traced' /\ ScannedIsBlack'
    BY <1>1 DEF IInv, Traced, ScannedIsBlack
  <1> QED
    BY <1>1, <1>5, <1>6, <1>7, <1>8, <1>9 DEF IInv

\* Steps that only change pc, outside a collection, or change nothing.
LEMMA IdleStep ==
  ASSUME IInv, Exhausted \/ UNCHANGED vars
  PROVE  IInv'
  <1>1. CASE Exhausted
    <2>1. /\ pc = "retry" /\ pc' = "exited"
          /\ UNCHANGED <<root, heap, req, k, g_GC_stress, forwarding, from_space,
                         to_space, top, scanned, field>>
      BY <1>1 DEF Exhausted, copyVars
    <2>2. TypeOK' /\ NoDangling' /\ Tiled(heap)' /\ (top % 4 = 0)'
      BY <2>1 DEF IInv, TypeOK, NoDangling, Tiled, Disjoint
    <2>3. ~Collecting' /\ Resting' /\ Traced' /\ ScannedIsBlack'
      BY <2>1 DEF IInv, Collecting, Resting, Within, Traced, ScannedIsBlack
    <2> QED
      BY <2>2, <2>3 DEF IInv
  <1>2. CASE UNCHANGED vars
    <2>1. TypeOK' /\ NoDangling' /\ Tiled(heap)' /\ (top % 4 = 0)'
      BY <1>2 DEF vars, IInv, TypeOK, NoDangling, Tiled, Disjoint
    <2>2. /\ Collecting' = Collecting /\ (~Collecting => Resting')
          /\ Traced' /\ ScannedIsBlack'
      BY <1>2 DEF vars, IInv, Collecting, Resting, Within, Traced, ScannedIsBlack,
                  InFromSpace
    <2>3. Collecting => Sound(heap, forwarding, top)'
      <3> SUFFICES ASSUME Collecting PROVE Sound(heap, forwarding, top)'
        OBVIOUS
      <3>1. Sound(heap, forwarding, top)
        BY CollectingFacts
      <3> QED
        BY <1>2, <3>1, SoundNext DEF vars
    <2> QED
      BY <2>1, <2>2, <2>3 DEF IInv, Sound
  <1> QED
    BY <1>1, <1>2

-----------------------------------------------------------------------------
(* The theorems. *)

\* Every step of gc_malloc_copy, of the collection and of the client preserves
\* the invariant.
LEMMA NextIInv == IInv /\ [Next]_vars => IInv'
  <1> SUFFICES ASSUME IInv, [Next]_vars PROVE IInv'
    OBVIOUS
  <1>1. CASE Client /\ UNCHANGED copyVars
    BY <1>1, ClientStep
  <1>2. ASSUME NEW r \in Requests, MallocFast(r)
        PROVE  IInv'
    BY <1>2, AllocateStep DEF MallocFast, NeedsGC, Collecting
  <1>3. ASSUME NEW r \in Requests, GCStart(r)
        PROVE  IInv'
    BY <1>3, GCStartStep
  <1>4. CASE TraceRoot
    BY <1>4, TraceRootStep
  <1>5. CASE RootsTraced
    BY <1>5, RootsTracedStep
  <1>6. CASE ScanCar
    BY <1>6, ScanCarStep
  <1>7. CASE ScanCdr
    BY <1>7, ScanCdrStep
  <1>8. CASE ScanLeaf
    BY <1>8, ScanLeafStep
  <1>9. CASE Flip
    BY <1>9, FlipStep
  <1>10. CASE MallocRetry
    <2>1. req \in Requests /\ ~Collecting
      BY <1>10 DEF MallocRetry, IInv, TypeOK, Collecting
    <2> QED
      BY <1>10, <2>1, AllocateStep DEF MallocRetry
  <1>11. CASE Exhausted \/ Terminated \/ UNCHANGED vars
    BY <1>11, IdleStep DEF Terminated
  <1> QED
    BY <1>1, <1>2, <1>3, <1>4, <1>5, <1>6, <1>7, <1>8, <1>9, <1>10, <1>11
    DEF Next, Collector

\* The invariant holds in every state of every behaviour of the collector.
THEOREM Invariance == Spec => []IInv
  BY InitIInv, NextIInv, PTL DEF Spec

\* Every variable keeps the type the C declarations give it.
THEOREM TypeCorrect == Spec => []TypeOK
  <1>1. IInv => TypeOK
    BY DEF IInv
  <1> QED
    BY <1>1, Invariance, PTL

\* No root slot and no field is ever left with a dangling reference.
THEOREM NoDanglingReference == Spec => []NoDangling
  <1>1. IInv => NoDangling
    BY DEF IInv
  <1> QED
    BY <1>1, Invariance, PTL

\* After trace_roots the roots are black, and so are the copies below scanned.
THEOREM Tricolour == Spec => []ScannedIsBlack
  <1>1. IInv => ScannedIsBlack
    BY DEF IInv
  <1> QED
    BY <1>1, Invariance, PTL

\* gc_malloc_copy and copy_object, which tests nothing, write within their
\* space and over no cell that is in use.
THEOREM NoOverflow == Spec => []SpacesRespected
  <1>1. ASSUME IInv PROVE SpacesRespected
    <2>1. /\ from_space \in Nat /\ to_space \in Nat /\ Half \in Nat /\ top \in Nat
      BY <1>1, Spaces, HalfFacts DEF IInv, TypeOK
    <2>2. \A a \in DOMAIN heap : a \in Nat /\ heap[a].size \in Nat
      BY <1>1 DEF IInv, TypeOK, Object
    <2>3. CASE Collecting
      <3>1. pc \in {"roots", "scan"} /\ Parted(heap, top)
        BY <1>1, <2>3 DEF IInv, Collecting
      <3>2. \A a \in DOMAIN heap :
              /\ InFromSpace(a) => Within(a, from_space, from_space + Half)
              /\ ~InFromSpace(a) => /\ Within(a, to_space, top)
                                    /\ Within(a, to_space, to_space + Half)
        BY <2>1, <2>2, <3>1 DEF Parted, Within, InFromSpace
      <3> QED
        BY <1>1, <3>1, <3>2 DEF IInv, Tiled, Parted, SpacesRespected
    <2>4. CASE ~Collecting
      <3>1. pc \notin {"roots", "scan"} /\ Resting
        BY <1>1, <2>4 DEF IInv, Collecting
      <3>2. \A a \in DOMAIN heap : /\ Within(a, from_space, top)
                                   /\ Within(a, from_space, from_space + Half)
        BY <2>1, <2>2, <3>1 DEF Resting, Within
      <3> QED
        BY <1>1, <3>1, <3>2 DEF IInv, Tiled, SpacesRespected
    <2> QED
      BY <2>3, <2>4
  <1> QED
    BY <1>1, Invariance, PTL

-----------------------------------------------------------------------------
(* What a collection makes of the graph of cells: beside IInv, which keeps *)
(* the spaces in order, an invariant that pairs originals with copies.     *)

Originals(h) == {a \in DOMAIN h : InFromSpace(a)}
Copies(h)    == {a \in DOMAIN h : ~InFromSpace(a)}

\* Cells in from_space refer to cells in from_space: their bodies stay as they
\* were, forwarding is kept in the header.
Untouched(h) == \A a \in Originals(h) : \A v \in Fields(h[a]) : CELL_P(v) => v \in Originals(h)

\* Every copy has one original, and no two originals forward to the same cell.
Paired(h, f) == /\ \A c \in Copies(h) : \E a \in Originals(h) : f[a] = c
                /\ \A a, b \in Originals(h) : f[a] = f[b] => a = b

\* In a copy w stands for v of the original: v itself, or its copy.
Stands(f, w, v) == w = v \/ (CELL_P(v) /\ InFromSpace(v) /\ f[v] = w)

Faithful(h, f) ==
  \A a \in Originals(h) : f[a] # a =>
    /\ h[f[a]].type = h[a].type
    /\ Stands(f, h[f[a]].car, h[a].car)
    /\ Stands(f, h[f[a]].cdr, h[a].cdr)

Shape(h, f) == Untouched(h) /\ Paired(h, f) /\ Faithful(h, f)

\* Among the copies, S is closed from the roots.
ClosedCopies(S) ==
  /\ \A i \in Roots : root[i] \in Copies(heap) => root[i] \in S
  /\ \A a \in S : \A v \in Fields(heap[a]) : v \in Copies(heap) => v \in S

\* Only what a root slot or a copy refers to is copied.
OnlyReached == \A S \in SUBSET Copies(heap) : ClosedCopies(S) => Copies(heap) \subseteq S

\* After a collection the cells are live and follow each other up to top.
Compacted ==
  /\ Live = DOMAIN heap
  /\ from_space = top \/ from_space \in DOMAIN heap
  /\ \A a \in DOMAIN heap : a + heap[a].size = top \/ a + heap[a].size \in DOMAIN heap

CopyInv == /\ Collecting => Shape(heap, forwarding) /\ OnlyReached
           /\ pc \in {"retry", "exited"} => Compacted
           /\ pc = "exited" => ~IS_ALLOCATABLE(req.size)

\* copy_object pairs the original with its copy and keeps the other pairs.
LEMMA EvacShape ==
  ASSUME {from_space, to_space} = {0, Half},
         Sound(heap, forwarding, top), Shape(heap, forwarding),
         NEW v \in Value, CELL_P(v) => v \in DOMAIN heap
  PROVE  /\ Shape(EvacHeap(v), EvacForwarding(v))
         /\ Originals(EvacHeap(v)) = Originals(heap)
         /\ \A a \in DOMAIN heap : EvacForwarding(v)[a] = forwarding[a] \/ forwarding[a] = a
         /\ Stands(EvacForwarding(v), CopyOf(v), v)
         /\ ~(CELL_P(v) /\ InFromSpace(v)) => CopyOf(v) = v
  <1>1. \A a \in DOMAIN heap : forwarding[a] # a => InFromSpace(a) /\ ~InFromSpace(forwarding[a])
    BY DEF Sound, Forwarded
  <1>2. CASE Stays(v)
    <2>1. EvacHeap(v) = heap /\ EvacForwarding(v) = forwarding
      BY <1>2 DEF EvacHeap, EvacForwarding
    <2>2. CASE ~CELL_P(v)
      BY <2>1, <2>2 DEF CopyOf, CELL_P, Stands
    <2>3. CASE CELL_P(v)
      <3>1. CopyOf(v) = forwarding[v] /\ IS_COPIED(v) /\ v \in DOMAIN heap
        BY <1>2, <2>3 DEF CopyOf, Stays
      <3>2. ~InFromSpace(v) => CopyOf(v) = v
        BY <1>1, <3>1
      <3>3. Stands(forwarding, CopyOf(v), v)
        BY <2>3, <3>1, <3>2 DEF Stands
      <3> QED
        BY <2>1, <2>3, <3>2, <3>3
    <2> QED
      BY <2>2, <2>3
  <1>3. CASE ~Stays(v)
    <2> DEFINE h == EvacHeap(v)
               f == EvacForwarding(v)
    <2>1. CELL_P(v) /\ ~IS_COPIED(v) /\ v \in DOMAIN heap /\ InFromSpace(v) /\ forwarding[v] = v
      BY <1>3 DEF Stays, IS_COPIED
    <2>2. from_space \in Nat /\ to_space \in Nat
          /\ (from_space + Half <= to_space \/ to_space + Half <= from_space)
      BY Spaces
    <2>3. /\ top \notin DOMAIN heap /\ ~InFromSpace(top)
          /\ DOMAIN h = DOMAIN heap \cup {top}
          /\ \A x \in DOMAIN heap : h[x] = heap[x]
          /\ h[top] = heap[v]
          /\ f = [x \in DOMAIN h |-> IF x \in {v, top} THEN top ELSE forwarding[x]]
      BY <2>1, <2>2, RoomForCopy
    <2>4. CopyOf(v) = top
      BY <2>1 DEF CopyOf
    <2> HIDE DEF h, f
    <2>5. /\ Originals(h) = Originals(heap) /\ Copies(h) = Copies(heap) \cup {top}
          /\ v \in Originals(heap) /\ v # top
      BY <2>1, <2>3 DEF Originals, Copies
    <2>6. f[v] = top /\ \A a \in Originals(heap) : a # v => f[a] = forwarding[a]
      BY <2>1, <2>3, <2>5 DEF Originals
    <2>7. Untouched(h)
      BY <2>3, <2>5 DEF Shape, Untouched, Originals
    <2>8. Paired(h, f)
      <3>1. ASSUME NEW c \in Copies(h)
            PROVE  \E a \in Originals(h) : f[a] = c
        <4>1. CASE c = top
          BY <2>5, <2>6, <4>1
        <4>2. CASE c # top
          <5>1. c \in Copies(heap)
            BY <2>5, <4>2
          <5>2. PICK a \in Originals(heap) : forwarding[a] = c
            BY <5>1 DEF Shape, Paired
          <5>3. a # v
            BY <2>1, <5>1, <5>2 DEF Copies
          <5> QED
            BY <2>5, <2>6, <5>2, <5>3
        <4> QED
          BY <4>1, <4>2
      <3>2. ASSUME NEW a \in Originals(h), NEW b \in Originals(h), f[a] = f[b]
            PROVE  a = b
        <4>1. forwarding[a] # top /\ forwarding[b] # top
          BY <2>3, <2>5 DEF Sound, Forwarded, Originals
        <4>2. forwarding[a] = forwarding[b] => a = b
          BY <2>5 DEF Shape, Paired
        <4> QED
          BY <2>5, <2>6, <3>2, <4>1, <4>2
      <3> QED
        BY <3>1, <3>2 DEF Paired
    <2>9. ASSUME NEW a \in Originals(heap), NEW u \in Fields(heap[a]), NEW w, Stands(forwarding, w, u)
          PROVE  Stands(f, w, u)
      <3>1. CASE w = u
        BY <3>1 DEF Stands
      <3>2. CASE w # u
        <4>1. CELL_P(u) /\ InFromSpace(u) /\ forwarding[u] = w
          BY <2>9, <3>2 DEF Stands
        <4>2. u \in Originals(heap)
          BY <4>1 DEF Shape, Untouched
        <4> QED
          BY <2>1, <2>6, <3>2, <4>1, <4>2 DEF Stands
      <3> QED
        BY <3>1, <3>2
    <2>10. Faithful(h, f)
      <3> SUFFICES ASSUME NEW a \in Originals(heap), f[a] # a
                   PROVE  /\ h[f[a]].type = h[a].type
                          /\ Stands(f, h[f[a]].car, h[a].car)
                          /\ Stands(f, h[f[a]].cdr, h[a].cdr)
        BY <2>5 DEF Faithful
      <3>1. CASE a = v
        BY <2>1, <2>3, <2>6, <3>1 DEF Stands
      <3>2. CASE a # v
        <4>1. f[a] = forwarding[a] /\ forwarding[a] # a /\ forwarding[a] \in DOMAIN heap
          BY <2>6, <3>2 DEF Sound, Forwarded, Originals
        <4>2. h[f[a]] = heap[forwarding[a]] /\ h[a] = heap[a]
          BY <2>3, <4>1 DEF Originals
        <4>3. /\ heap[forwarding[a]].type = heap[a].type
              /\ Stands(forwarding, heap[forwarding[a]].car, heap[a].car)
              /\ Stands(forwarding, heap[forwarding[a]].cdr, heap[a].cdr)
          BY <4>1 DEF Shape, Faithful
        <4>4. heap[a].car \in Fields(heap[a]) /\ heap[a].cdr \in Fields(heap[a])
          BY DEF Fields
        <4> QED
          BY <2>9, <4>2, <4>3, <4>4
      <3> QED
        BY <3>1, <3>2
    <2>11. \A a \in DOMAIN heap : f[a] = forwarding[a] \/ forwarding[a] = a
      BY <2>1, <2>3
    <2>12. Stands(f, CopyOf(v), v)
      BY <2>1, <2>4, <2>6 DEF Stands
    <2> QED
      BY <2>1, <2>5, <2>7, <2>8, <2>10, <2>11, <2>12 DEF Shape, h, f
  <1> QED
    BY <1>2, <1>3

\* A field of a copy is replaced: what stood for v before, n stands for now.
LEMMA UpdateShape ==
  ASSUME NEW h, NEW f, Shape(h, f), Forwarded(h, f),
         NEW s \in Copies(h), NEW v \in Fields(h[s]),
         NEW n, Stands(f, n, v), ~(CELL_P(v) /\ InFromSpace(v)) => n = v,
         NEW g, DOMAIN g = DOMAIN h,
         \A x \in DOMAIN h : x # s => g[x] = h[x],
         g[s].type = h[s].type,
         g[s].car = h[s].car \/ (h[s].car = v /\ g[s].car = n),
         g[s].cdr = h[s].cdr \/ (h[s].cdr = v /\ g[s].cdr = n)
  PROVE  Shape(g, f)
  <1>1. /\ Originals(g) = Originals(h) /\ Copies(g) = Copies(h)
        /\ \A a \in Originals(h) : g[a] = h[a]
    BY DEF Originals, Copies
  <1>2. Untouched(g) /\ Paired(g, f)
    BY <1>1 DEF Shape, Untouched, Paired
  <1>3. ASSUME NEW a \in Originals(h), NEW u \in Fields(h[a]), Stands(f, v, u)
        PROVE  Stands(f, n, u)
    <2>1. CASE v = u
      BY <2>1
    <2>2. CASE v # u
      <3>1. CELL_P(u) /\ InFromSpace(u) /\ f[u] = v /\ u \in DOMAIN h
        BY <1>3, <2>2 DEF Stands, Shape, Untouched, Originals
      <3>2. ~InFromSpace(v)
        BY <2>2, <3>1 DEF Forwarded
      <3> QED
        BY <1>3, <3>2
    <2> QED
      BY <2>1, <2>2
  <1>4. ASSUME NEW a \in Originals(h), f[a] # a
        PROVE  /\ g[f[a]].type = g[a].type
               /\ Stands(f, g[f[a]].car, g[a].car)
               /\ Stands(f, g[f[a]].cdr, g[a].cdr)
    <2> DEFINE c == f[a]
               o == h[a]
    <2>1. /\ h[c].type = o.type /\ Stands(f, h[c].car, o.car) /\ Stands(f, h[c].cdr, o.cdr)
          /\ g[a] = o /\ c \in DOMAIN h
      BY <1>1, <1>4 DEF Shape, Faithful, Originals, Forwarded
    <2>2. o.car \in Fields(h[a]) /\ o.cdr \in Fields(h[a])
      BY DEF Fields
    <2> HIDE DEF c, o
    <2>3. CASE c = s
      <3>1. Stands(f, g[s].car, o.car)
        BY <1>3, <2>1, <2>2, <2>3
      <3>2. Stands(f, g[s].cdr, o.cdr)
        BY <1>3, <2>1, <2>2, <2>3
      <3> QED
        BY <2>1, <2>3, <3>1, <3>2 DEF c
    <2>4. CASE c # s
      BY <2>1, <2>4 DEF c
    <2> QED
      BY <2>3, <2>4
  <1>5. Faithful(g, f)
    BY <1>1, <1>4 DEF Faithful
  <1> QED
    BY <1>2, <1>5 DEF Shape

\* A step that copies no cell but what a root slot or a copy then refers to.
LEMMA ReachedKept ==
  ASSUME OnlyReached, from_space' = from_space,
         Copies(heap) \subseteq Copies(heap'),
         \A i \in Roots : root[i] \in Copies(heap) => root'[i] = root[i],
         \A a \in Copies(heap) : \A v \in Fields(heap[a]) :
           v \in Copies(heap) => v \in Fields(heap'[a]),
         \A x \in Copies(heap') : \/ x \in Copies(heap)
                                  \/ \E i \in Roots : root'[i] = x
                                  \/ \E a \in Copies(heap) : x \in Fields(heap'[a])
  PROVE  OnlyReached'
  <1>1. Copies(heap)' = Copies(heap')
    BY DEF Copies, InFromSpace
  <1>2. ASSUME NEW S \in SUBSET Copies(heap'), ClosedCopies(S)'
        PROVE  Copies(heap') \subseteq S
    <2> DEFINE T == S \cap Copies(heap)
    <2>1. /\ \A i \in Roots : root'[i] \in Copies(heap') => root'[i] \in S
          /\ \A a \in S : \A v \in Fields(heap'[a]) : v \in Copies(heap') => v \in S
      BY <1>1, <1>2 DEF ClosedCopies, Fields
    <2>2. ClosedCopies(T)
      BY <2>1 DEF ClosedCopies
    <2>3. Copies(heap) \subseteq S
      BY <2>2 DEF OnlyReached
    <2> QED
      BY <2>1, <2>3
  <1> QED
    BY <1>1, <1>2 DEF OnlyReached

\* Shape of the primed state, from that of the values it gets.
LEMMA ShapeNext ==
  ASSUME from_space' = from_space, Shape(heap', forwarding')
  PROVE  Shape(heap, forwarding)'
  BY DEF Shape, Untouched, Paired, Faithful, Stands, Originals, Copies, InFromSpace, Fields

\* The fields of copies are cells that are there, or immediates.
LEMMA CopyingFacts ==
  ASSUME IInv, CopyInv, Collecting
  PROVE  /\ {from_space, to_space} = {0, Half} /\ Sound(heap, forwarding, top)
         /\ Shape(heap, forwarding) /\ OnlyReached
         /\ \A c \in Copies(heap) : forwarding[c] = c
         /\ Forwarded(heap, forwarding)
  BY CollectingFacts DEF CopyInv, Copies, Sound, Forwarded

\* TraceRoot keeps the pairs, and what it copies the slot then refers to.
LEMMA TraceRootCopies ==
  ASSUME IInv, CopyInv, TraceRoot
  PROVE  /\ Shape(heap, forwarding)' /\ OnlyReached' /\ pc' = "roots"
         /\ UNCHANGED <<from_space, to_space>>
         /\ Originals(heap') = Originals(heap)
         /\ \A a \in Originals(heap) : heap'[a] = heap[a]
         /\ Shape(heap', forwarding')
         /\ \A a \in DOMAIN heap : forwarding'[a] = forwarding[a] \/ forwarding[a] = a
         /\ Stands(forwarding', CopyOf(root[k]), root[k])
         /\ root' = [root EXCEPT ![k] = CopyOf(root[k])] /\ k \in Roots
         /\ ~(CELL_P(root[k]) /\ InFromSpace(root[k])) => CopyOf(root[k]) = root[k]
  <1> DEFINE v == root[k]
  <1>1. /\ pc = "roots" /\ pc' = "roots" /\ Collecting /\ k \in Roots
        /\ root' = [root EXCEPT ![k] = CopyOf(v)]
        /\ heap' = EvacHeap(v) /\ forwarding' = EvacForwarding(v)
        /\ UNCHANGED <<from_space, to_space>>
    BY RootsAssumption DEF TraceRoot, Collecting, IInv, TypeOK, Roots
  <1>2. /\ v \in Value /\ (CELL_P(v) => v \in DOMAIN heap)
        /\ root \in [Roots -> Value]
    BY <1>1 DEF IInv, TypeOK, NoDangling
  <1> HIDE DEF v
  <1>3. /\ Shape(EvacHeap(v), EvacForwarding(v))
        /\ Originals(EvacHeap(v)) = Originals(heap)
        /\ \A a \in DOMAIN heap : EvacForwarding(v)[a] = forwarding[a] \/ forwarding[a] = a
        /\ Stands(EvacForwarding(v), CopyOf(v), v)
        /\ ~(CELL_P(v) /\ InFromSpace(v)) => CopyOf(v) = v
    BY <1>1, <1>2, CopyingFacts, EvacShape
  <1>4. /\ DOMAIN heap \subseteq DOMAIN EvacHeap(v)
        /\ \A x \in DOMAIN heap : EvacHeap(v)[x] = heap[x]
    BY <1>1, <1>2, CopyingFacts, CopyObject
  <1>5. \A x \in DOMAIN EvacHeap(v) : x \notin DOMAIN heap => CopyOf(v) = x
    <2>1. Stays(v) => EvacHeap(v) = heap
      BY DEF EvacHeap
    <2>2. ~Stays(v) => CopyOf(v) = top
      BY DEF CopyOf, Stays
    <2> QED
      BY <1>1, <1>2, <2>1, <2>2, CopyingFacts, CopyObject
  <1>6. Copies(heap) \subseteq Copies(heap')
    BY <1>1, <1>4 DEF Copies
  <1>7. \A i \in Roots : root[i] \in Copies(heap) => root'[i] = root[i]
    BY <1>1, <1>2, <1>3 DEF Copies, v
  <1>8. \A x \in Copies(heap') : x \in Copies(heap) \/ root'[k] = x
    BY <1>1, <1>2, <1>5 DEF Copies
  <1>9. \A a \in Copies(heap) : heap'[a] = heap[a]
    BY <1>1, <1>4 DEF Copies
  <1>10. OnlyReached'
    BY <1>1, <1>6, <1>7, <1>8, <1>9, CopyingFacts, ReachedKept
  <1>11. Shape(heap, forwarding)'
    BY <1>1, <1>3, ShapeNext
  <1>12. \A a \in Originals(heap) : heap'[a] = heap[a]
    BY <1>1, <1>4 DEF Originals
  <1> QED
    BY <1>1, <1>3, <1>10, <1>11, <1>12 DEF v

\* So does the visit of a field of the cell under the scan.
LEMMA ScanCopies ==
  ASSUME IInv, CopyInv, pc = "scan", scanned < top, NEW v \in Fields(heap[scanned]),
         heap' \in [DOMAIN EvacHeap(v) -> Object],
         \A x \in DOMAIN EvacHeap(v) : x # scanned => heap'[x] = EvacHeap(v)[x],
         heap'[scanned].type = heap[scanned].type,
         \/ /\ v = heap[scanned].car /\ heap'[scanned].car = CopyOf(v)
            /\ heap'[scanned].cdr = heap[scanned].cdr
         \/ /\ v = heap[scanned].cdr /\ heap'[scanned].cdr = CopyOf(v)
            /\ heap'[scanned].car = heap[scanned].car,
         forwarding' = EvacForwarding(v),
         UNCHANGED <<from_space, to_space, root>>
  PROVE  /\ Shape(heap, forwarding)' /\ OnlyReached'
         /\ Originals(heap') = Originals(heap)
         /\ \A a \in Originals(heap) : heap'[a] = heap[a]
         /\ Shape(heap', forwarding')
         /\ \A a \in DOMAIN heap : forwarding'[a] = forwarding[a] \/ forwarding[a] = a
  <1> DEFINE h == EvacHeap(v)
             f == EvacForwarding(v)
             n == CopyOf(v)
  <1>1. Collecting
    BY DEF Collecting
  <1>2. /\ scanned \in DOMAIN heap /\ ~InFromSpace(scanned)
        /\ v \in Value /\ (CELL_P(v) => v \in DOMAIN heap)
    BY ScannedCell
  <1>3. /\ Shape(h, f) /\ Originals(h) = Originals(heap)
        /\ \A a \in DOMAIN heap : f[a] = forwarding[a] \/ forwarding[a] = a
        /\ Stands(f, n, v)
        /\ ~(CELL_P(v) /\ InFromSpace(v)) => n = v
    BY <1>1, <1>2, CopyingFacts, EvacShape
  <1>4. /\ Sound(h, f, EvacTop(v)) /\ DOMAIN heap \subseteq DOMAIN h
        /\ \A x \in DOMAIN heap : h[x] = heap[x]
    BY <1>1, <1>2, CopyingFacts, CopyObject
  <1>5. \A x \in DOMAIN h : x \notin DOMAIN heap => n = x
    <2>1. Stays(v) => h = heap
      BY DEF EvacHeap
    <2>2. ~Stays(v) => n = top
      BY DEF CopyOf, Stays
    <2> QED
      BY <1>1, <1>2, <2>1, <2>2, CopyingFacts, CopyObject
  <1>6. Forwarded(h, f) /\ DOMAIN heap' = DOMAIN h /\ forwarding' = f
    BY <1>4 DEF Sound
  <1> HIDE DEF h, f, n
  <1>7. scanned \in Copies(h) /\ h[scanned] = heap[scanned]
    BY <1>2, <1>4 DEF Copies
  <1>8. Shape(heap', f)
    <2>1. \/ h[scanned].car = v /\ heap'[scanned].car = n
          \/ heap'[scanned].car = h[scanned].car
      BY <1>7 DEF n
    <2>2. \/ h[scanned].cdr = v /\ heap'[scanned].cdr = n
          \/ heap'[scanned].cdr = h[scanned].cdr
      BY <1>7 DEF n
    <2>3. v \in Fields(h[scanned]) /\ heap'[scanned].type = h[scanned].type
      BY <1>7
    <2>4. \A x \in DOMAIN h : x # scanned => heap'[x] = h[x]
      BY DEF h
    <2> QED
      BY <1>3, <1>6, <1>7, <2>1, <2>2, <2>3, <2>4, UpdateShape
  <1>9. Shape(heap, forwarding)'
    BY <1>6, <1>8, ShapeNext
  <1>10. \A a \in DOMAIN heap : a # scanned => heap'[a] = heap[a]
    BY <1>4 DEF h
  <1>11. Originals(heap') = Originals(heap) /\ \A a \in Originals(heap) : heap'[a] = heap[a]
    BY <1>2, <1>3, <1>6, <1>10 DEF Originals
  <1>12. OnlyReached'
    <2>1. Copies(heap) \subseteq Copies(heap')
      BY <1>4, <1>6 DEF Copies
    <2>2. Fields(heap'[scanned]) = {heap'[scanned].car, heap'[scanned].cdr}
          /\ Fields(heap[scanned]) = {heap[scanned].car, heap[scanned].cdr}
      BY DEF Fields
    <2>3. n \in Fields(heap'[scanned])
      BY <2>2 DEF n
    <2>4. ASSUME NEW a \in Copies(heap), NEW w \in Fields(heap[a]), w \in Copies(heap)
          PROVE  w \in Fields(heap'[a])
      <3>1. CASE a # scanned
        BY <1>10, <2>4, <3>1 DEF Copies
      <3>2. CASE a = scanned /\ w = v
        <4>1. n = v
          BY <1>3, <2>4, <3>2 DEF Copies
        <4> QED
          BY <2>3, <3>2, <4>1
      <3>3. CASE a = scanned /\ w # v
        BY <2>2, <2>4, <3>3
      <3> QED
        BY <3>1, <3>2, <3>3
    <2>5. \A x \in Copies(heap') : x \in Copies(heap) \/ x = n
      BY <1>5, <1>6 DEF Copies
    <2>6. scanned \in Copies(heap)
      BY <1>2 DEF Copies
    <2> QED
      BY <1>1, <2>1, <2>3, <2>4, <2>5, <2>6, CopyingFacts, ReachedKept
  <1> QED
    BY <1>3, <1>6, <1>8, <1>9, <1>11, <1>12

\* A step of the collection up to the flip: pairs are kept, originals stay as
\* they are, and no cell forwards elsewhere once it has been copied.
CopyingStep ==
  /\ Shape(heap', forwarding') /\ Originals(heap') = Originals(heap)
  /\ \A a \in Originals(heap) : heap'[a] = heap[a]
  /\ \A a \in DOMAIN heap : forwarding'[a] = forwarding[a] \/ forwarding[a] = a
  /\ pc' \in {"roots", "scan"} /\ UNCHANGED <<from_space, to_space>>

LEMMA ScanFieldCopies ==
  ASSUME IInv, CopyInv, ScanCar \/ ScanCdr
  PROVE  Shape(heap, forwarding)' /\ OnlyReached' /\ CopyingStep /\ root' = root
  <1>1. /\ pc = "scan" /\ pc' = "scan" /\ Collecting /\ scanned < top
        /\ UNCHANGED <<root, from_space, to_space>>
    BY DEF ScanCar, ScanCdr, Collecting
  <1>2. scanned \in DOMAIN heap /\ heap[scanned] \in Object
    BY <1>1, ScannedCell
  <1>3. \A v \in Fields(heap[scanned]) :
          /\ EvacHeap(v) \in [DOMAIN EvacHeap(v) -> Object] /\ CopyOf(v) \in Value
          /\ scanned \in DOMAIN EvacHeap(v) /\ EvacHeap(v)[scanned] = heap[scanned]
    <2> SUFFICES ASSUME NEW v \in Fields(heap[scanned])
                 PROVE  /\ EvacHeap(v) \in [DOMAIN EvacHeap(v) -> Object] /\ CopyOf(v) \in Value
                        /\ scanned \in DOMAIN EvacHeap(v) /\ EvacHeap(v)[scanned] = heap[scanned]
      OBVIOUS
    <2>1. v \in Value /\ (CELL_P(v) => v \in DOMAIN heap)
      BY <1>1, ScannedCell
    <2> QED
      BY <1>1, <1>2, <2>1, CopyingFacts, CopyObject DEF Sound
  <1>4. CASE ScanCar
    <2> DEFINE v == heap[scanned].car
    <2>1. /\ heap[scanned].type = "pair" /\ v \in Fields(heap[scanned])
          /\ heap' = [EvacHeap(v) EXCEPT ![scanned].car = CopyOf(v)]
          /\ forwarding' = EvacForwarding(v)
      BY <1>4 DEF ScanCar, Fields
    <2>2. v = heap[scanned].car
      OBVIOUS
    <2> HIDE DEF v
    <2>3. /\ heap' \in [DOMAIN EvacHeap(v) -> Object]
          /\ \A x \in DOMAIN EvacHeap(v) : x # scanned => heap'[x] = EvacHeap(v)[x]
          /\ heap'[scanned].type = heap[scanned].type
          /\ heap'[scanned].car = CopyOf(v) /\ heap'[scanned].cdr = heap[scanned].cdr
      BY <1>2, <1>3, <2>1 DEF Object
    <2> QED
      BY <1>1, <2>1, <2>2, <2>3, ScanCopies DEF CopyingStep
  <1>5. CASE ScanCdr
    <2> DEFINE v == heap[scanned].cdr
    <2>1. /\ heap[scanned].type = "pair" /\ v \in Fields(heap[scanned])
          /\ heap' = [EvacHeap(v) EXCEPT ![scanned].cdr = CopyOf(v)]
          /\ forwarding' = EvacForwarding(v)
      BY <1>5 DEF ScanCdr, Fields
    <2>2. v = heap[scanned].cdr
      OBVIOUS
    <2> HIDE DEF v
    <2>3. /\ heap' \in [DOMAIN EvacHeap(v) -> Object]
          /\ \A x \in DOMAIN EvacHeap(v) : x # scanned => heap'[x] = EvacHeap(v)[x]
          /\ heap'[scanned].type = heap[scanned].type
          /\ heap'[scanned].cdr = CopyOf(v) /\ heap'[scanned].car = heap[scanned].car
      BY <1>2, <1>3, <2>1 DEF Object
    <2> QED
      BY <1>1, <2>1, <2>2, <2>3, ScanCopies DEF CopyingStep
  <1> QED
    BY <1>4, <1>5

\* A collection starts with no copy.
LEMMA StartShape ==
  ASSUME IInv, NEW r \in Requests, GCStart(r)
  PROVE  /\ Shape(heap, forwarding)' /\ OnlyReached'
         /\ Originals(heap) = DOMAIN heap /\ Collecting' /\ ~Collecting
         /\ UNCHANGED <<root, heap, from_space>>
  <1>1. /\ pc = "run" /\ pc' = "roots" /\ UNCHANGED <<root, heap, forwarding, from_space, to_space>>
    BY DEF GCStart
  <1>2. Resting /\ NoDangling /\ TypeOK /\ Tiled(heap)
    BY <1>1 DEF IInv, Collecting
  <1>3. ASSUME NEW a \in DOMAIN heap
        PROVE  InFromSpace(a) /\ forwarding[a] = a
    <2>1. a \in Nat /\ heap[a].size \in Nat /\ heap[a].size > 0 /\ top \in Nat
      BY <1>2 DEF TypeOK, Object, Tiled
    <2>2. from_space \in Nat /\ Half \in Nat
      BY <1>2, Spaces, HalfFacts DEF TypeOK
    <2> QED
      BY <1>2, <2>1, <2>2 DEF Resting, Within, InFromSpace
  <1>4. Originals(heap) = DOMAIN heap /\ Copies(heap) = {}
    BY <1>3 DEF Originals, Copies
  <1>5. Shape(heap, forwarding)
    BY <1>2, <1>3, <1>4 DEF Shape, Untouched, Paired, Faithful, NoDangling
  <1>6. Shape(heap, forwarding)'
    BY <1>1, <1>5, ShapeNext
  <1>7. Copies(heap)' = {}
    BY <1>1, <1>4 DEF Copies, InFromSpace
  <1> QED
    BY <1>1, <1>4, <1>6, <1>7 DEF OnlyReached, Collecting

\* The flip leaves the copies, which the roots reach, packed.
LEMMA FlipCompacts ==
  ASSUME IInv, CopyInv, Flip
  PROVE  /\ DOMAIN heap' = Copies(heap) /\ \A a \in Copies(heap) : heap'[a] = heap[a]
         /\ UNCHANGED <<root, top>> /\ pc' = "retry" /\ Compacted'
         /\ \A i \in Roots : CELL_P(root[i]) => root[i] \in Copies(heap)
         /\ \A c \in Copies(heap) : \A v \in Fields(heap[c]) : CELL_P(v) => v \in Copies(heap)
  <1> DEFINE C == Copies(heap)
  <1>1. /\ pc = "scan" /\ pc' = "retry" /\ Collecting /\ scanned >= top
        /\ from_space' = to_space
        /\ heap' = [a \in C |-> heap[a]]
        /\ UNCHANGED <<root, top>>
    BY DEF Flip, Collecting, Copies
  <1>2. /\ Sound(heap, forwarding, top) /\ OnlyReached
        /\ from_space \in Nat /\ to_space \in Nat /\ Half \in Nat /\ top \in Nat
        /\ from_space + Half <= to_space \/ to_space + Half <= from_space
    BY <1>1, CopyingFacts, CollectingFacts, Spaces, HalfFacts DEF Sound
  <1>3. DOMAIN heap' = C /\ \A a \in C : heap'[a] = heap[a]
    BY <1>1
  <1>4. ASSUME NEW a \in C
        PROVE  /\ a \in DOMAIN heap /\ ~InFromSpace(a)
               /\ a \in Nat /\ heap[a].size \in Nat /\ heap[a].size > 0
               /\ to_space <= a /\ a + heap[a].size <= top /\ top <= to_space + Half
               /\ a + heap[a].size = top \/ a + heap[a].size \in DOMAIN heap
    BY <1>2 DEF Copies, Sound, Object, Tiled, Parted, Gapless
  <1>5. ASSUME NEW i \in Roots, CELL_P(root[i])
        PROVE  root[i] \in C
    BY <1>1, <1>5 DEF IInv, NoDangling, ScannedIsBlack, Copies
  <1>6. ASSUME NEW a \in C, NEW v \in Fields(heap[a]), CELL_P(v)
        PROVE  v \in C
    <2>1. a < scanned
      <3>1. scanned \in Nat
        BY DEF IInv, TypeOK
      <3> QED
        BY <1>1, <1>2, <1>4, <3>1
    <2> QED
      BY <1>1, <1>4, <1>6, <2>1 DEF IInv, NoDangling, ScannedIsBlack, Copies
  <1>7. ASSUME NEW a \in C
        PROVE  a + heap[a].size = top \/ a + heap[a].size \in C
    <2> DEFINE e == a + heap[a].size
    <2>1. e \in Nat /\ e <= top /\ to_space <= e /\ (e = top \/ e \in DOMAIN heap)
      BY <1>2, <1>4
    <2>2. e # top => ~InFromSpace(e)
      <3> HIDE DEF e
      <3> QED
        BY <1>2, <1>4, <2>1 DEF InFromSpace
    <2> QED
      BY <2>1, <2>2 DEF Copies
  <1>8. to_space = top \/ to_space \in C
    <2>1. ~InFromSpace(to_space) \/ Half = 0
      BY <1>2 DEF InFromSpace
    <2>2. to_space = top \/ to_space \in DOMAIN heap
      BY <1>2 DEF Sound, Gapless
    <2>3. ~InFromSpace(to_space)
      BY <1>2, <2>1 DEF InFromSpace
    <2> QED
      BY <2>2, <2>3 DEF Copies
  <1>9. Live' = DOMAIN heap'
    <2> SUFFICES ASSUME NEW S \in SUBSET C, ClosedFromRoots(S)'
                 PROVE  C \subseteq S
      BY <1>3 DEF Live
    <2>1. /\ \A i \in Roots : CELL_P(root[i]) => root[i] \in S
          /\ \A a \in S : \A v \in Fields(heap[a]) : CELL_P(v) => v \in S
      BY <1>1, <1>3 DEF ClosedFromRoots, Fields
    <2>2. \A v \in C : CELL_P(v)
      BY <1>4, ImmAssumption DEF CELL_P
    <2>3. ClosedCopies(S)
      BY <2>1, <2>2 DEF ClosedCopies
    <2> QED
      BY <1>2, <2>3 DEF OnlyReached
  <1> HIDE DEF C
  <1>10. Compacted'
    BY <1>1, <1>3, <1>7, <1>8, <1>9 DEF Compacted
  <1> QED
    BY <1>1, <1>3, <1>5, <1>6, <1>10 DEF C

LEMMA NextCopyInv == IInv /\ CopyInv /\ [Next]_vars => CopyInv'
  <1> SUFFICES ASSUME IInv, CopyInv, [Next]_vars
               PROVE  CopyInv'
    OBVIOUS
  <1>1. ASSUME Shape(heap, forwarding)', OnlyReached', pc' \in {"roots", "scan"}
        PROVE  CopyInv'
    BY <1>1 DEF CopyInv
  <1>2. CASE Client \/ (\E r \in Requests : MallocFast(r)) \/ MallocRetry
    <2>1. pc' = "run"
      BY <1>2 DEF Client, Assign, Redefine, MallocFast, MallocRetry, Allocate
    <2> QED
      BY <2>1 DEF CopyInv, Collecting
  <1>3. ASSUME NEW r \in Requests, GCStart(r)
        PROVE  CopyInv'
    BY <1>3, <1>1, StartShape DEF GCStart
  <1>4. CASE TraceRoot
    BY <1>4, <1>1, TraceRootCopies
  <1>5. CASE ScanCar \/ ScanCdr
    BY <1>5, <1>1, ScanFieldCopies DEF CopyingStep
  <1>6. CASE RootsTraced \/ ScanLeaf
    <2>1. /\ pc \in {"roots", "scan"} /\ pc' = "scan"
          /\ UNCHANGED <<root, heap, forwarding, from_space>>
      BY <1>6 DEF RootsTraced, ScanLeaf
    <2>2. Shape(heap, forwarding) /\ OnlyReached
      BY <2>1 DEF CopyInv, Collecting
    <2>3. Shape(heap, forwarding)'
      BY <2>1, <2>2, ShapeNext
    <2>4. Copies(heap)' = Copies(heap) /\ \A S : ClosedCopies(S)' <=> ClosedCopies(S)
      BY <2>1 DEF Copies, InFromSpace, ClosedCopies, Fields
    <2>5. OnlyReached'
      BY <2>2, <2>4 DEF OnlyReached
    <2> QED
      BY <1>1, <2>1, <2>3, <2>5
  <1>7. CASE Flip
    BY <1>7, FlipCompacts DEF CopyInv, Collecting
  <1>8. CASE Exhausted
    <2>1. /\ pc = "retry" /\ pc' = "exited" /\ ~IS_ALLOCATABLE(req.size)
          /\ UNCHANGED <<root, heap, req, top, from_space>>
      BY <1>8 DEF Exhausted, copyVars
    <2>2. Compacted' /\ ~IS_ALLOCATABLE(req.size)'
      BY <2>1 DEF CopyInv, Compacted, Live, ClosedFromRoots, Fields, IS_ALLOCATABLE
    <2> QED
      BY <2>1, <2>2 DEF CopyInv, Collecting
  <1>9. CASE UNCHANGED vars
    <2>1. CopyInv' = CopyInv
      BY <1>9 DEF vars, CopyInv, Collecting, Shape, Untouched, Paired, Faithful, Stands, Originals,
                  Copies, InFromSpace, OnlyReached, ClosedCopies, Fields, Compacted, Live,
                  ClosedFromRoots, IS_ALLOCATABLE
    <2> QED
      BY <2>1
  <1> QED
    BY <1>2, <1>3, <1>4, <1>5, <1>6, <1>7, <1>8, <1>9 DEF Next, Collector, Terminated

LEMMA CopyInvariance == Spec => [](IInv /\ CopyInv)
  <1>1. Init => CopyInv
    BY DEF Init, BaseInit, CopyInv, Collecting
  <1> QED
    BY <1>1, InitIInv, NextIInv, NextCopyInv, PTL DEF Spec

-----------------------------------------------------------------------------
(* Heap exhaustion. *)

\* A set of natural numbers none of which is above b has a greatest member.
LEMMA GreatestNat ==
  ASSUME NEW b \in Nat, NEW T \in SUBSET (0 .. b), T # {}
  PROVE  \E x \in T : \A y \in T : y <= x
  <1> DEFINE Up == {x .. b : x \in T}
  <1>1. IsWellFoundedOn(StrictSubsetOrdering(Nat), FiniteSubsetsOf(Nat))
    BY FS_StrictSubsetOrderingWellFounded
  <1>2. Up \subseteq FiniteSubsetsOf(Nat)
    <2>1. ASSUME NEW x \in T
          PROVE  x .. b \in SUBSET Nat /\ IsFiniteSet(x .. b)
      BY FS_Interval
    <2> QED
      BY <2>1 DEF FiniteSubsetsOf
  <1>3. \E D \in Up : \A E \in Up : ~(<<E, D>> \in StrictSubsetOrdering(Nat))
    <2> Up # {}
      OBVIOUS
    <2> HIDE DEF Up
    <2> QED
      BY <1>1, <1>2, WFMin
  <1>4. PICK x \in T : \A y \in T : ~(<<y .. b, x .. b>> \in StrictSubsetOrdering(Nat))
    BY <1>3
  <1>5. ASSUME NEW y \in T, x < y
        PROVE  FALSE
    <2> DEFINE p == <<y .. b, x .. b>>
    <2>1. y .. b \subseteq x .. b /\ x \in x .. b /\ x \notin y .. b
      BY <1>5
    <2>2. p \in (SUBSET Nat) \X (SUBSET Nat)
      OBVIOUS
    <2>3. p[1] \subseteq p[2] /\ p[1] # p[2]
      BY <2>1
    <2>4. p \in StrictSubsetOrdering(Nat)
      <3> HIDE DEF p
      <3> QED
        BY <2>2, <2>3 DEF StrictSubsetOrdering
    <2> QED
      BY <1>4, <2>4
  <1> QED
    BY <1>5

\* Cells that follow each other up to top use every byte below it.
LEMMA CompactedBytes ==
  ASSUME IInv, ~Collecting, Compacted
  PROVE  UNION {Extent(heap, a) : a \in DOMAIN heap} = from_space .. (top - 1)
  <1>1. /\ from_space \in Nat /\ top \in Nat /\ Resting
        /\ \A a \in DOMAIN heap : a \in Nat /\ heap[a].size \in Nat /\ heap[a].size > 0
    BY Spaces DEF IInv, TypeOK, Object, Tiled
  <1>2. ASSUME NEW a \in DOMAIN heap, NEW b \in Extent(heap, a)
        PROVE  b \in from_space .. (top - 1)
    <2>1. from_space <= a /\ a + heap[a].size <= top
      BY <1>1 DEF Resting, Within
    <2> QED
      BY <1>1, <1>2, <2>1 DEF Extent
  <1>3. ASSUME NEW b \in from_space .. (top - 1)
        PROVE  \E a \in DOMAIN heap : b \in Extent(heap, a)
    <2> DEFINE T == {a \in DOMAIN heap : a <= b}
    <2>1. b \in Nat /\ T \in SUBSET (0 .. b)
      BY <1>1
    <2>2. T # {}
      BY <1>1 DEF Compacted
    <2>3. PICK a \in T : \A y \in T : y <= a
      BY <2>1, <2>2, GreatestNat
    <2> DEFINE e == a + heap[a].size
    <2>4. a \in DOMAIN heap /\ a <= b /\ a \in Nat /\ e \in Nat /\ a < e
      BY <1>1, <2>3
    <2>5. e = top \/ e \in DOMAIN heap
      BY <2>4 DEF Compacted
    <2>6. b < e
      BY <1>1, <2>1, <2>3, <2>4, <2>5
    <2>7. b \in Extent(heap, a)
      BY <1>1, <2>1, <2>4, <2>6 DEF Extent
    <2> QED
      BY <2>4, <2>7
  <1> QED
    BY <1>2, <1>3

\* After a collection every cell is live; the program ends as "heap exhausted" only
\* when the bytes of the live cells and the request with its header would leave no
\* byte of the half free.
THEOREM ExhaustionIsGenuine == Spec => []ExhaustedOnlyWhenFull
  <1>1. IInv /\ CopyInv => ExhaustedOnlyWhenFull
    <2> SUFFICES ASSUME IInv, CopyInv
                 PROVE  ExhaustedOnlyWhenFull
      OBVIOUS
    <2>1. ASSUME pc \in {"retry", "exited"}
          PROVE  ~Collecting /\ Compacted /\ Live = DOMAIN heap
      BY <2>1 DEF CopyInv, Collecting, Compacted
    <2>2. ASSUME pc = "exited"
          PROVE  Cardinality(UNION {Extent(heap, a) : a \in Live}) + HeaderSize + req.size >= Half
      <3>1. UNION {Extent(heap, a) : a \in Live} = from_space .. (top - 1)
        BY <2>1, <2>2, CompactedBytes
      <3>2. top \in Nat /\ HeaderSize \in Nat /\ req.size \in Nat /\ from_space \in Nat /\ Half \in Nat
        BY <2>2, RequestFacts, HeaderAssumption, Spaces, HalfFacts DEF IInv, TypeOK
      <3>3. ~(top + HeaderSize + req.size < from_space + Half)
        BY <2>2 DEF CopyInv, IS_ALLOCATABLE
      <3>4. from_space <= top
        BY <2>1, <2>2 DEF IInv, Resting
      <3>5. Cardinality(from_space .. (top - 1)) = top - from_space
        <4>1. top - 1 \in Int /\ from_space \in Int
          BY <3>2
        <4>2. Cardinality(from_space .. (top - 1))
                = IF from_space > top - 1 THEN 0 ELSE (top - 1) - from_space + 1
          BY <4>1, FS_Interval
        <4> QED
          BY <3>2, <3>4, <4>2
      <3>6. Cardinality(UNION {Extent(heap, a) : a \in Live}) = top - from_space
        BY <3>1, <3>5, Zenon
      <3> QED
        BY <3>2, <3>3, <3>6
    <2> QED
      BY <2>1, <2>2 DEF ExhaustedOnlyWhenFull
  <1> QED
    BY <1>1, CopyInvariance, PTL

-----------------------------------------------------------------------------
(* The abstract memory. *)

AbstractCells == {x \in DOMAIN heap : Collecting => InFromSpace(x)}

LEMMA AbstractFacts ==
  /\ DOMAIN absObjs = AbstractCells
  /\ \A a \in AbstractCells : absObjs[a] = Body(heap[a])
  /\ \A a \in AbstractCells : Memory!Fields(absObjs[a]) = Fields(heap[a])
  /\ ~Collecting => AbstractCells = DOMAIN heap
  /\ Collecting => AbstractCells = Originals(heap)
  BY DEF absObjs, AbstractCells, Body, Memory!Fields, Fields, Originals

\* What the collector takes v for, in terms of the memory before the collection.
Source(h, f, v) ==
  IF CELL_P(v) /\ ~InFromSpace(v) THEN CHOOSE a \in DOMAIN h : InFromSpace(a) /\ f[a] = v ELSE v

LEMMA SourceFacts ==
  ASSUME NEW h, NEW f, Paired(h, f), Forwarded(h, f), DOMAIN h \subseteq Nat,
         NEW v, CELL_P(v) => v \in Originals(h), NEW w, Stands(f, w, v)
  PROVE  Source(h, f, w) = v
  <1>1. CASE w = v
    BY <1>1 DEF Source, Originals
  <1>2. CASE w # v
    <2>1. CELL_P(v) /\ v \in Originals(h) /\ v \in DOMAIN h /\ InFromSpace(v) /\ f[v] = w
      BY <1>2 DEF Stands, Originals
    <2>2. ~InFromSpace(w) /\ CELL_P(w)
      BY <1>2, <2>1, ImmAssumption DEF Forwarded, CELL_P
    <2> DEFINE a == CHOOSE b \in DOMAIN h : InFromSpace(b) /\ f[b] = w
    <2>3. a \in DOMAIN h /\ InFromSpace(a) /\ f[a] = w
      BY <2>1
    <2>4. a = v
      BY <2>1, <2>3 DEF Paired, Originals
    <2> QED
      BY <2>2, <2>4 DEF Source
  <1> QED
    BY <1>1, <1>2

\* The root slots of the abstract memory, before and after a step.
LEMMA AbstractRoots ==
  /\ Collecting => \A i \in Roots : absRoot[i] = Source(heap, forwarding, root[i])
  /\ ~Collecting => absRoot = [i \in Roots |-> root[i]]
  /\ ~Collecting' => absRoot' = [i \in Roots |-> root'[i]]
  BY DEF absRoot, Original, Source

LEMMA SourceNext ==
  ASSUME Collecting', from_space' = from_space, Paired(heap', forwarding'),
         Forwarded(heap', forwarding'), DOMAIN heap' \subseteq Nat,
         NEW i \in Roots, NEW v, CELL_P(v) => v \in Originals(heap'),
         Stands(forwarding', root'[i], v)
  PROVE  absRoot'[i] = v
  <1> DEFINE w     == root'[i]
             In(x) == from_space' <= x /\ x < from_space' + Half
             a     == CHOOSE b \in DOMAIN heap' : In(b) /\ forwarding'[b] = w
  <1>1. absRoot'[i] = IF CELL_P(w) /\ ~In(w) THEN a ELSE w
    <2>1. absRoot'[i] = Original(root[i])'
      BY DEF absRoot
    <2> QED
      BY <2>1 DEF Original, InFromSpace, CELL_P
  <1>2. \A x : In(x) <=> InFromSpace(x)
    BY DEF InFromSpace
  <1> HIDE DEF In
  <1>3. CASE w = v
    BY <1>1, <1>2, <1>3 DEF Originals
  <1>4. CASE w # v
    <2>1. CELL_P(v) /\ v \in Originals(heap') /\ v \in DOMAIN heap' /\ In(v)
          /\ forwarding'[v] = w
      BY <1>2, <1>4 DEF Stands, Originals
    <2>2. ~In(w) /\ CELL_P(w)
      BY <1>2, <1>4, <2>1, ImmAssumption DEF Forwarded, CELL_P
    <2>3. a \in DOMAIN heap' /\ In(a) /\ forwarding'[a] = w
      BY <2>1
    <2>4. a = v
      <3> HIDE DEF a
      <3> QED
        BY <1>2, <2>1, <2>3 DEF Paired, Originals
    <2> QED
      BY <1>1, <2>2, <2>4
  <1> QED
    BY <1>3, <1>4

\* Each value in a slot or a copy stands for one of the memory before.
LEMMA HasSource ==
  ASSUME IInv, CopyInv, Collecting,
         NEW w \in Value, CELL_P(w) => w \in DOMAIN heap
  PROVE  LET v == Source(heap, forwarding, w)
         IN  (CELL_P(v) => v \in Originals(heap)) /\ Stands(forwarding, w, v)
             /\ (CELL_P(v) <=> CELL_P(w))
  <1>1. /\ Shape(heap, forwarding) /\ Forwarded(heap, forwarding) /\ DOMAIN heap \subseteq Nat
    BY CopyingFacts DEF Sound
  <1>2. CASE CELL_P(w) /\ ~InFromSpace(w)
    <2>1. PICK a \in Originals(heap) : forwarding[a] = w
      BY <1>1, <1>2 DEF Shape, Paired, Copies
    <2>2. /\ a \in Nat /\ CELL_P(a) /\ Stands(forwarding, w, a)
      BY <1>1, <2>1, ImmAssumption DEF Originals, CELL_P, Stands
    <2>3. Source(heap, forwarding, w) = a
      BY <1>1, <2>1, <2>2, SourceFacts DEF Shape
    <2> QED
      BY <1>2, <2>1, <2>2, <2>3
  <1>3. CASE ~(CELL_P(w) /\ ~InFromSpace(w))
    BY <1>3 DEF Source, Stands, Originals
  <1> QED
    BY <1>2, <1>3

\* No reference leads out of the abstract memory.
LEMMA AbstractClosed == IInv /\ CopyInv => Memory!Closed
  <1> SUFFICES ASSUME IInv, CopyInv PROVE Memory!Closed
    OBVIOUS
  <1>1. /\ \A i \in Roots : root[i] \in Value /\ (CELL_P(root[i]) => root[i] \in DOMAIN heap)
        /\ \A a \in DOMAIN heap : \A v \in Fields(heap[a]) : CELL_P(v) => v \in DOMAIN heap
    BY DEF IInv, TypeOK, NoDangling
  <1>2. CASE ~Collecting
    BY <1>1, <1>2, AbstractFacts, AbstractRoots DEF Memory!Closed, Memory!IsCell, CELL_P
  <1>3. CASE Collecting
    <2>1. \A i \in Roots : CELL_P(absRoot[i]) => absRoot[i] \in Originals(heap)
      BY <1>1, <1>3, AbstractRoots, HasSource
    <2>2. \A a \in Originals(heap) : \A v \in Fields(heap[a]) : CELL_P(v) => v \in Originals(heap)
      BY <1>3, CopyingFacts DEF Shape, Untouched
    <2> QED
      BY <1>3, <2>1, <2>2, AbstractFacts DEF Memory!Closed, Memory!IsCell, CELL_P
  <1> QED
    BY <1>2, <1>3

\* The steps, seen in the abstract memory.
LEMMA AbstractHeld ==
  ASSUME IInv, ~Collecting
  PROVE  Held = Memory!Held
  <1>1. absRoot = [i \in Roots |-> root[i]] /\ DOMAIN absObjs = DOMAIN heap
        /\ \A a \in DOMAIN heap : Memory!Fields(absObjs[a]) = Fields(heap[a])
    BY AbstractFacts, AbstractRoots
  <1>2. \A i \in Roots : CELL_P(root[i]) => root[i] \in DOMAIN heap
    BY DEF IInv, NoDangling
  <1>3. {j \in Roots : CELL_P(root[j])} = {j \in Roots : Memory!IsCell(absRoot[j])}
    BY <1>1 DEF CELL_P, Memory!IsCell
  <1>4. \A i \in {j \in Roots : CELL_P(root[j])} :
          Memory!Fields(absObjs[absRoot[i]]) = Fields(heap[root[i]])
    BY <1>1, <1>2
  <1>5. {absRoot[i] : i \in Roots} = {root[i] : i \in Roots}
    BY <1>1
  <1> QED
    BY <1>3, <1>4, <1>5 DEF Held, Memory!Held

LEMMA ClientAssigns ==
  ASSUME IInv, Client
  PROVE  Memory!Next
  <1>1. ~Collecting /\ ~Collecting'
    BY DEF Client, Assign, Redefine, Collecting
  <1>2. /\ absRoot = [i \in Roots |-> root[i]] /\ absRoot' = [i \in Roots |-> root'[i]]
        /\ absObjs = [a \in DOMAIN heap |-> Body(heap[a])]
        /\ absObjs' = [a \in DOMAIN heap' |-> Body(heap'[a])]
        /\ root \in [Roots -> Value]
    BY <1>1, AbstractRoots DEF absObjs, IInv, TypeOK
  <1>3. ASSUME NEW i \in Roots, NEW v \in Held, Assign(i, v)
        PROVE  Memory!Next
    <2>1. v \in Memory!Held
      BY <1>1, AbstractHeld
    <2>2. root' = [root EXCEPT ![i] = v] /\ heap' = heap
      BY <1>3 DEF Assign
    <2>3. absRoot' = [absRoot EXCEPT ![i] = v] /\ absObjs' = absObjs
      BY <1>2, <2>2
    <2> QED
      BY <2>1, <2>3 DEF Memory!Next, Memory!Assign
  <1>4. ASSUME NEW i \in Roots, NEW j \in Roots, Redefine(i, j)
        PROVE  Memory!Next
    <2> DEFINE e == heap[root[i]].car
               v == root[j]
               o == absObjs[e]
    <2>1. /\ CELL_P(root[i]) /\ CELL_P(e) /\ heap[e].type = "pair"
          /\ heap' = [heap EXCEPT ![e].cdr = v] /\ root' = root
      BY <1>4 DEF Redefine
    <2>2. root[i] \in DOMAIN heap /\ e \in DOMAIN heap /\ heap[e] \in Object
      BY <2>1 DEF IInv, TypeOK, NoDangling, Fields
    <2>3. absObjs[absRoot[i]].car = e /\ absObjs[e].type = "pair" /\ absRoot[j] = v
          /\ absRoot[i] = root[i] /\ absRoot' = absRoot
      BY <1>2, <2>1, <2>2 DEF Body
    <2> HIDE DEF e, v
    <2>4. /\ DOMAIN heap' = DOMAIN heap /\ heap'[e] = [heap[e] EXCEPT !.cdr = v]
          /\ \A x \in DOMAIN heap : x # e => heap'[x] = heap[x]
      BY <2>1, <2>2
    <2>5. o = Body(heap[e]) /\ [o EXCEPT !.cdr = v] = Body(heap'[e])
      BY <1>2, <2>2, <2>4 DEF Body, Object
    <2>6. absObjs' = [absObjs EXCEPT ![e] = [o EXCEPT !.cdr = v]]
      <3> HIDE DEF o
      <3> QED
        BY <1>2, <2>2, <2>4, <2>5
    <2>7. absObjs' = [absObjs EXCEPT ![e].cdr = v]
      BY <2>6 DEF o
    <2>8. Memory!Redefine(i, j)
      BY <2>1, <2>3, <2>7 DEF Memory!Redefine, Memory!IsCell, CELL_P
    <2> QED
      BY <2>8 DEF Memory!Next
  <1> QED
    BY <1>3, <1>4 DEF Client

LEMMA AllocateMakes ==
  ASSUME IInv, ~Collecting, NEW r \in Requests, IS_ALLOCATABLE(r.size), Allocate(r)
  PROVE  Memory!Next
  <1> DEFINE size == AllocateSize(r.size)
             o    == NewObject(r, size)
             A    == Body(o)
  <1>1. /\ pc' = "run" /\ heap' = Overwrite(heap, top, o) /\ root' = [root EXCEPT ![r.dst] = top]
    BY DEF Allocate
  <1>2. /\ size \in Nat /\ size > 0 /\ top \in Nat
    BY RequestFacts, AllocateSizeFacts DEF IInv, TypeOK
  <1>3. \A x \in DOMAIN heap : /\ x \in Nat /\ heap[x].size \in Nat /\ heap[x].size > 0
                               /\ x + heap[x].size <= top
    BY DEF IInv, TypeOK, Resting, Within, Tiled, Object
  <1>4. o.size = size
    BY DEF NewObject
  <1>5. A = [type |-> r.type, car |-> IF r.type = "pair" THEN root[r.a] ELSE IMM,
                              cdr |-> IF r.type = "pair" THEN root[r.d] ELSE IMM]
    BY DEF NewObject, Body
  <1> HIDE DEF size, o
  <1>6. /\ top \notin DOMAIN heap
        /\ \A x \in DOMAIN heap : x + heap[x].size <= top \/ top + o.size <= x
    BY <1>2, <1>3
  <1>7. heap' = [x \in DOMAIN heap \cup {top} |-> IF x = top THEN o ELSE heap[x]]
    BY <1>1, <1>6 DEF Overwrite
  <1>8. /\ absRoot = [i \in Roots |-> root[i]] /\ absRoot' = [i \in Roots |-> root'[i]]
        /\ absObjs = [a \in DOMAIN heap |-> Body(heap[a])]
        /\ absObjs' = [a \in DOMAIN heap' |-> Body(heap'[a])]
        /\ root \in [Roots -> Value]
    BY <1>1, AbstractRoots DEF absObjs, IInv, TypeOK, Collecting
  <1>9. absObjs' = [x \in DOMAIN absObjs \cup {top} |-> IF x = top THEN A ELSE absObjs[x]]
    BY <1>6, <1>7, <1>8
  <1>10. top \notin DOMAIN absObjs /\ top \in DOMAIN absObjs'
    BY <1>6, <1>8, <1>9
  <1>11. /\ r.dst \in Roots /\ r.a \in Roots /\ r.d \in Roots /\ r.type \in {"leaf", "pair"}
         /\ r.type = "pair" => r.dst = r.a
    BY RequestFacts DEF Requests, LeafRequests, PairRequests
  <1>12. absRoot' = [absRoot EXCEPT ![r.dst] = top]
    BY <1>1, <1>8, <1>11
  <1> HIDE DEF A
  <1>13. Memory!New(r.dst, A)
    BY <1>9, <1>10, <1>12 DEF Memory!New
  <1>14. CASE r.type = "leaf"
    <2>1. A = Memory!Leaf
      BY <1>5, <1>14 DEF Memory!Leaf
    <2> QED
      BY <1>11, <1>13, <2>1 DEF Memory!Next, Memory!NewLeaf
  <1>15. CASE r.type = "pair"
    <2>1. A = Memory!Pair(absRoot[r.a], absRoot[r.d])
      BY <1>5, <1>8, <1>11, <1>15 DEF Memory!Pair
    <2> QED
      BY <1>11, <1>13, <1>15, <2>1 DEF Memory!Next, Memory!NewPair
  <1> QED
    BY <1>11, <1>14, <1>15

\* A collection is not seen until it is over: a slot that refers to a copy
\* already stands for the original.
LEMMA CopyingStutters ==
  ASSUME IInv, IInv', CopyInv, TraceRoot \/ ScanCar \/ ScanCdr
  PROVE  UNCHANGED <<absRoot, absObjs>>
  <1>1. Collecting /\ Collecting' /\ from_space' = from_space
    BY DEF TraceRoot, ScanCar, ScanCdr, Collecting
  <1>2. CopyingStep
    BY <1>1, TraceRootCopies, ScanFieldCopies DEF CopyingStep
  <1>3. \/ root' = root
        \/ /\ root' = [root EXCEPT ![k] = CopyOf(root[k])]
           /\ Stands(forwarding', CopyOf(root[k]), root[k])
           /\ ~(CELL_P(root[k]) /\ InFromSpace(root[k])) => CopyOf(root[k]) = root[k]
    BY TraceRootCopies, ScanFieldCopies
  <1>4. Forwarded(heap', forwarding') /\ DOMAIN heap' \subseteq Nat
    BY <1>1 DEF IInv, TypeOK, Forwarded, InFromSpace
  <1>5. Paired(heap', forwarding')
    BY <1>2 DEF CopyingStep, Shape
  <1>6. ASSUME NEW i \in Roots
        PROVE  absRoot'[i] = absRoot[i]
    <2> DEFINE w == root[i]
               v == Source(heap, forwarding, w)
    <2>1. w \in Value /\ (CELL_P(w) => w \in DOMAIN heap) /\ root \in [Roots -> Value]
      BY DEF IInv, TypeOK, NoDangling
    <2>2. absRoot[i] = v
      BY <1>1, AbstractRoots
    <2>3. (CELL_P(v) => v \in Originals(heap)) /\ Stands(forwarding, w, v)
      <3> HIDE DEF w
      <3> QED
        BY <1>1, <2>1, HasSource
    <2>4. ~(CELL_P(w) /\ ~InFromSpace(w)) => v = w
      BY DEF Source
    <2> HIDE DEF v, w
    <2>5. Stands(forwarding', w, v)
      BY <1>2, <2>3 DEF Stands, CopyingStep, Originals
    <2>6. Stands(forwarding', root'[i], v)
      <3>1. CASE root' = root \/ i # k
        BY <1>3, <2>1, <2>5, <3>1 DEF w
      <3>2. CASE i = k /\ root' # root
        <4>1. root'[i] = CopyOf(w) /\ Stands(forwarding', CopyOf(w), w)
              /\ (~(CELL_P(w) /\ InFromSpace(w)) => CopyOf(w) = w)
          BY <1>3, <2>1, <3>2 DEF w
        <4>2. CASE CELL_P(w) /\ InFromSpace(w)
          BY <2>4, <4>1, <4>2
        <4>3. CASE ~(CELL_P(w) /\ InFromSpace(w))
          BY <2>5, <4>1, <4>3
        <4> QED
          BY <4>2, <4>3
      <3> QED
        BY <3>1, <3>2
    <2>7. CELL_P(v) => v \in Originals(heap')
      BY <1>2, <2>3 DEF CopyingStep
    <2> QED
      BY <1>1, <1>4, <1>5, <2>2, <2>6, <2>7, SourceNext
  <1>7. absRoot' = absRoot
    BY <1>6 DEF absRoot
  <1>8. absObjs' = absObjs
    <2>1. absObjs = [a \in Originals(heap) |-> Body(heap[a])]
      BY <1>1 DEF absObjs, Originals
    <2>2. absObjs' = [a \in Originals(heap') |-> Body(heap'[a])]
      BY <1>1 DEF absObjs, Originals, InFromSpace
    <2> QED
      BY <1>2, <2>1, <2>2 DEF CopyingStep
  <1> QED
    BY <1>7, <1>8

LEMMA StartStutters ==
  ASSUME IInv, IInv', NEW r \in Requests, GCStart(r)
  PROVE  UNCHANGED <<absRoot, absObjs>>
  <1>1. /\ Originals(heap) = DOMAIN heap /\ Collecting' /\ ~Collecting
        /\ UNCHANGED <<root, heap, from_space>> /\ Shape(heap, forwarding)'
    BY StartShape
  <1>2. absObjs' = absObjs
    BY <1>1 DEF absObjs, Originals, InFromSpace
  <1>3. ASSUME NEW i \in Roots
        PROVE  absRoot'[i] = root[i]
    <2>1. CELL_P(root[i]) => root[i] \in DOMAIN heap
      BY DEF IInv, NoDangling
    <2>2. CELL_P(root[i]) => InFromSpace(root[i])'
      BY <1>1, <2>1 DEF Originals, InFromSpace
    <2> QED
      BY <1>1, <2>2 DEF absRoot, Original, InFromSpace
  <1>4. absRoot' = absRoot
    BY <1>1, <1>3, AbstractRoots DEF absRoot
  <1> QED
    BY <1>2, <1>4

\* When the spaces flip, each copy takes the place of its original.
LEMMA FlipCollects ==
  ASSUME IInv, CopyInv, Flip, Memory!Closed'
  PROVE  Memory!Collect \/ UNCHANGED <<absRoot, absObjs>>
  <1> DEFINE C    == Copies(heap)
             from == [c \in C |-> Source(heap, forwarding, c)]
  <1>1. /\ Collecting /\ pc' = "retry" /\ ~Collecting' /\ root' = root
        /\ DOMAIN heap' = C /\ \A a \in C : heap'[a] = heap[a]
        /\ \A i \in Roots : CELL_P(root[i]) => root[i] \in C
        /\ \A c \in C : \A v \in Fields(heap[c]) : CELL_P(v) => v \in C
    BY FlipCompacts DEF Flip, Collecting
  <1>2. /\ DOMAIN absObjs = Originals(heap) /\ DOMAIN absObjs' = C
        /\ \A a \in Originals(heap) : absObjs[a] = Body(heap[a])
        /\ \A c \in C : absObjs'[c] = Body(heap[c])
    BY <1>1, AbstractFacts DEF absObjs
  <1>3. /\ Shape(heap, forwarding) /\ Forwarded(heap, forwarding)
        /\ DOMAIN heap \subseteq Nat
    BY <1>1, CopyingFacts DEF Sound
  <1>4. ASSUME NEW c \in C
        PROVE  from[c] \in Originals(heap) /\ forwarding[from[c]] = c /\ from[c] # c
    <2>1. PICK a \in Originals(heap) : forwarding[a] = c
      BY <1>3 DEF Shape, Paired
    <2>2. CELL_P(a) /\ CELL_P(c) /\ Stands(forwarding, c, a) /\ a # c
      BY <1>3, <2>1, ImmAssumption DEF Originals, Copies, CELL_P, Stands
    <2>3. Source(heap, forwarding, c) = a
      BY <1>3, <2>1, <2>2, SourceFacts DEF Shape
    <2> QED
      BY <2>1, <2>2, <2>3
  <1>5. /\ from \in [DOMAIN absObjs' -> DOMAIN absObjs]
        /\ Memory!IsInjective(from)
    BY <1>2, <1>4 DEF Memory!IsInjective
  <1> HIDE DEF from
  <1>6. ASSUME NEW w, CELL_P(w) => w \in C, NEW v, Stands(forwarding, w, v),
               CELL_P(v) => v \in Originals(heap)
        PROVE  v = Memory!Renamed(from, w)
    <2>1. CASE ~CELL_P(w)
      <3>1. v = w
        <4>1. CELL_P(v) => forwarding[v] \in Nat
          BY <1>3, <1>6 DEF Originals, Forwarded
        <4> QED
          BY <1>6, <2>1, <4>1, ImmAssumption DEF Stands, CELL_P
      <3> QED
        BY <2>1, <3>1 DEF Memory!Renamed, Memory!IsCell, CELL_P
    <2>2. CASE CELL_P(w)
      <3>1. w \in C /\ ~InFromSpace(w)
        BY <1>6, <2>2 DEF Copies
      <3>2. Source(heap, forwarding, w) = v
        BY <1>3, <1>6, SourceFacts DEF Shape
      <3>3. from[w] = v
        BY <3>1, <3>2 DEF from
      <3> QED
        BY <2>2, <3>3 DEF Memory!Renamed, Memory!IsCell, CELL_P
    <2> QED
      BY <2>1, <2>2
  <1>7. ASSUME NEW c \in C
        PROVE  absObjs[from[c]] = [absObjs'[c] EXCEPT !.car = Memory!Renamed(from, @),
                                                      !.cdr = Memory!Renamed(from, @)]
    <2> DEFINE a == from[c]
               o == heap[a]
               p == heap[c]
    <2>1. a \in Originals(heap) /\ forwarding[a] = c /\ a # c
      BY <1>4
    <2>2. /\ p.type = o.type
          /\ Stands(forwarding, p.car, o.car) /\ Stands(forwarding, p.cdr, o.cdr)
      BY <1>3, <2>1 DEF Shape, Faithful
    <2>3. \A v \in {o.car, o.cdr} : CELL_P(v) => v \in Originals(heap)
      BY <1>3, <2>1 DEF Shape, Untouched, Fields
    <2>4. \A w \in {p.car, p.cdr} : CELL_P(w) => w \in C
      BY <1>1 DEF Fields
    <2> HIDE DEF a, o, p, C
    <2>5. o.car = Memory!Renamed(from, p.car)
      BY <1>6, <2>2, <2>3, <2>4
    <2>6. o.cdr = Memory!Renamed(from, p.cdr)
      BY <1>6, <2>2, <2>3, <2>4
    <2>7. absObjs[a] = Body(o) /\ absObjs'[c] = Body(p)
      BY <1>2, <2>1 DEF o, p
    <2> DEFINE q == absObjs'[c]
               s == absObjs[a]
    <2>8. /\ s = [type |-> o.type, car |-> o.car, cdr |-> o.cdr]
          /\ q = [type |-> o.type, car |-> p.car, cdr |-> p.cdr]
      BY <2>2, <2>7 DEF Body
    <2> HIDE DEF q, s
    <2>9. q.car = p.car /\ q.cdr = p.cdr
      BY <2>8
    <2>10. [q EXCEPT !.car = o.car, !.cdr = o.cdr] = s
      <3> DEFINE S == {o.type, o.car, o.cdr, p.car, p.cdr}
                 r == [q EXCEPT !.car = o.car, !.cdr = o.cdr]
      <3>1. /\ r \in [type : S, car : S, cdr : S]
            /\ s \in [type : S, car : S, cdr : S]
        BY <2>8
      <3>2. r.type = s.type /\ r.car = s.car /\ r.cdr = s.cdr
        BY <2>8
      <3> HIDE DEF r, S
      <3>3. r = s
        BY <3>1, <3>2
      <3> QED
        BY <3>3 DEF r
    <2>11. s = [q EXCEPT !.car = Memory!Renamed(from, @), !.cdr = Memory!Renamed(from, @)]
      BY <2>5, <2>6, <2>9, <2>10
    <2> QED
      BY <2>11 DEF q, s, a
  <1>8. \A i \in Roots : absRoot[i] = Memory!Renamed(from, absRoot'[i])
    <2> SUFFICES ASSUME NEW i \in Roots
                 PROVE  absRoot[i] = Memory!Renamed(from, absRoot'[i])
      OBVIOUS
    <2> DEFINE w == root[i]
               v == Source(heap, forwarding, w)
    <2>1. w \in Value /\ (CELL_P(w) => w \in DOMAIN heap)
      BY DEF IInv, TypeOK, NoDangling
    <2>2. absRoot[i] = v /\ absRoot'[i] = w /\ (CELL_P(w) => w \in C)
      BY <1>1, AbstractRoots
    <2> HIDE DEF w, C
    <2>3. (CELL_P(v) => v \in Originals(heap)) /\ Stands(forwarding, w, v)
      BY <1>1, <2>1, HasSource
    <2> HIDE DEF v
    <2>4. v = Memory!Renamed(from, w)
      BY <1>6, <2>2, <2>3
    <2> QED
      BY <2>2, <2>4
  <1>9. Memory!Relocate(from)
    BY <1>2, <1>5, <1>7, <1>8, Zenon DEF Memory!Relocate
  <1>10. CASE absObjs' # absObjs
    BY <1>5, <1>9, <1>10 DEF Memory!Collect
  <1>11. CASE absObjs' = absObjs
    <2>1. C = {}
      BY <1>2, <1>11 DEF Originals, Copies
    <2>2. \A i \in Roots : absRoot'[i] = root[i] /\ ~CELL_P(root[i])
      BY <1>1, <2>1, AbstractRoots
    <2>3. \A i \in Roots : absRoot'[i] = absRoot[i]
      BY <1>8, <2>2 DEF Memory!Renamed, Memory!IsCell, CELL_P
    <2>4. absRoot' = absRoot
      BY <2>3 DEF absRoot
    <2> QED
      BY <1>11, <2>4
  <1> QED
    BY <1>10, <1>11

LEMMA AbstractInit == Init => Memory!Init
  <1> SUFFICES ASSUME Init PROVE Memory!Init
    OBVIOUS
  <1>1. root = [i \in Roots |-> IMM] /\ heap = <<>> /\ ~Collecting
    BY DEF Init, BaseInit, Collecting
  <1>2. absObjs = <<>>
    BY <1>1 DEF absObjs
  <1> QED
    BY <1>1, <1>2, AbstractRoots DEF Memory!Init

LEMMA AbstractNext ==
  IInv /\ IInv' /\ CopyInv /\ Memory!Closed' /\ [Next]_vars => [Memory!Next]_(Memory!memVars)
  <1> SUFFICES ASSUME IInv, IInv', CopyInv, Memory!Closed', [Next]_vars
               PROVE  Memory!Next \/ UNCHANGED <<absRoot, absObjs>>
    BY DEF Memory!memVars
  <1>1. CASE Client
    BY <1>1, ClientAssigns
  <1>2. ASSUME NEW r \in Requests, MallocFast(r) PROVE Memory!Next
    BY <1>2, AllocateMakes DEF MallocFast, NeedsGC, Collecting
  <1>3. CASE MallocRetry
    <2>1. ~Collecting /\ req \in Requests /\ IS_ALLOCATABLE(req.size) /\ Allocate(req)
      BY <1>3 DEF MallocRetry, Collecting, IInv, TypeOK
    <2> QED
      BY <2>1, AllocateMakes
  <1>4. ASSUME NEW r \in Requests, GCStart(r) PROVE UNCHANGED <<absRoot, absObjs>>
    BY <1>4, StartStutters
  <1>5. CASE TraceRoot \/ ScanCar \/ ScanCdr
    BY <1>5, CopyingStutters
  <1>6. CASE Flip
    BY <1>6, FlipCollects DEF Memory!Next
  <1>7. CASE RootsTraced \/ ScanLeaf \/ Exhausted \/ UNCHANGED vars
    <2>1. /\ UNCHANGED <<root, heap, forwarding, from_space>> /\ Collecting' = Collecting
      BY <1>7 DEF RootsTraced, ScanLeaf, Exhausted, copyVars, vars, Collecting
    <2> QED
      BY <2>1 DEF absRoot, absObjs, Original, InFromSpace
  <1> QED
    BY <1>1, <1>2, <1>3, <1>4, <1>5, <1>6, <1>7 DEF Next, Collector, Terminated

\* Behind gc_malloc_copy the program sees the abstract memory: while cells move
\* and references are updated one by one, the graph keeps its shape and contents.
THEOREM MemoryIsImplemented == Spec => ImplementsObjectMemory
  <1>1. Init => Memory!Init
    BY AbstractInit
  <1>2. IInv /\ CopyInv => Memory!Closed
    BY AbstractClosed
  <1>3. IInv /\ IInv' /\ CopyInv /\ Memory!Closed' /\ [Next]_vars => [Memory!Next]_(Memory!memVars)
    BY AbstractNext
  <1>4. Spec => [](IInv /\ CopyInv)
    BY CopyInvariance
  <1> QED
    BY <1>1, <1>2, <1>3, <1>4, PTL DEF Spec, ImplementsObjectMemory, Memory!Spec
=============================================================================
