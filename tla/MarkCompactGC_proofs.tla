------------------------- MODULE MarkCompactGC_proofs -------------------------
(***************************************************************************)
(* The mark-compact collector: every live cell gets an address it slides   *)
(* down to, in allocation order and without gaps; no move overwrites a     *)
(* cell that is yet to move; every reference is updated once; and behind   *)
(* gc_malloc the program sees the abstract memory.                         *)
(*                                                                         *)
(* The invariant follows scanned through the three passes.  From the       *)
(* moment the addresses are settled the abstract memory stands still, so   *)
(* what is known of it then, that the roots reach all of it, is known      *)
(* when the cells have moved.                                              *)
(***************************************************************************)
EXTENDS MarkCompactGC, Collectors_proofs

\* The cells of S fill the bytes from lo up to hi.
Packs(h, S, lo, hi) ==
  /\ \A a \in S : lo <= a /\ a + h[a].size <= hi
  /\ \A a, b \in S : a < b => a + h[a].size <= b
  /\ \A x \in lo .. (hi - 1) : \E a \in S : a <= x /\ x < a + h[a].size

\* The places f gives the cells of S, no higher than the cells are, in the same
\* order, fill the bytes from Base up to n.
Laid(h, f, S, n) ==
  /\ \A a \in S : Base <= f[a] /\ f[a] <= a /\ f[a] + h[a].size <= n
  /\ \A a, b \in S : a < b => f[a] + h[a].size <= f[b]
  /\ \A x \in Base .. (n - 1) : \E a \in S : f[a] <= x /\ x < f[a] + h[a].size

Unmoved == {a \in DOMAIN heap : ~CellMoved(a)}
Low     == IF pc = "slide" THEN scanned ELSE Base
Passed  == {a \in marked : a < scanned}
Passing == pc \in {"calc", "updroots", "update", "slide"}

Arena ==
  /\ \A a \in DOMAIN heap : heap[a].size \in Nat \ {0} /\ heap[a].size % 4 = 0
  /\ Packs(heap, Unmoved, Low, top)
  /\ Base <= top /\ top <= Limit /\ top % 4 = 0 /\ new_top % 4 = 0

\* A pass stands at a header, or at top.
Walk ==
  /\ Passing => (scanned \in Unmoved \/ scanned = top) /\ Base <= scanned
  /\ pc = "updroots" => scanned = Base

MarksOK ==
  /\ pc \in {"run", "retry", "exited"} => marked = {}
  /\ pc = "calc" => marked = Live
  /\ pc = "slide" => marked \subseteq Unmoved
  /\ pc \notin {"roots", "mark", "overflowed"} => mark_stack = <<>>

\* The addresses given so far, and those of all survivors.
PlacesOK ==
  /\ pc = "calc" => /\ Laid(heap, forwarding, Passed, new_top)
                    /\ Base <= new_top /\ new_top <= scanned
  /\ Resettling => /\ Laid(heap, forwarding, Survivors, new_top)
                   /\ Base <= new_top /\ new_top <= top
  /\ \A a \in DOMAIN heap : CellMoved(a) => forwarding[a] = a

Homes == {forwarding[a] : a \in Survivors}

\* An updated reference is the address of a home, the others lead to survivors.
Leads(v, updated) == CELL_P(v) => IF updated THEN v \in Homes ELSE v \in Survivors

RefsOK ==
  /\ ~Resettling => ClosedFromRoots(DOMAIN heap)
  /\ Resettling => /\ \A i \in Roots : Leads(root[i], RootUpdated(i))
                   /\ \A a \in Survivors : \A v \in Fields(heap[a]) : Leads(v, CellUpdated(a))

\* The roots reach all of the abstract memory.
AbstractlyClosed(T) ==
  /\ \A i \in Roots : CELL_P(absRoot[i]) => absRoot[i] \in T
  /\ \A b \in T : \A v \in Fields(absObjs[b]) : CELL_P(v) => v \in T

AllReached == \A T \in SUBSET DOMAIN absObjs : AbstractlyClosed(T) => T = DOMAIN absObjs

ReachOK == Resettling \/ pc \in {"retry", "exited"} => AllReached

StateOK == /\ IF pc = "run" THEN req = NoReq ELSE req \in Requests
           /\ pc = "exited" => ~IS_ALLOCATABLE(req.size)

\* The part about the arena, and the whole.
HeapInv == TypeOK /\ Arena /\ Walk /\ MarksOK /\ MarkInv /\ PlacesOK /\ RefsOK /\ StateOK

IInv == HeapInv /\ ReachOK

-----------------------------------------------------------------------------
(* Bytes and sizes. *)

LEMMA ArenaSize ==
  /\ Base \in Nat /\ Limit \in Nat /\ Base <= Limit
  /\ Base % 4 = 0 /\ Limit % 4 = 0 /\ HeaderSize \in Nat \ {0}
  BY MarkStackAssumption, HeapSizeAssumption, ArenaAssumption, HeaderAssumption DEF Base, Limit

LEMMA SizeFacts ==
  ASSUME NEW n \in Nat
  PROVE  AllocateSize(n) \in Nat \ {0} /\ AllocateSize(n) % 4 = 0
  BY ArenaSize DEF AllocateSize

\* The size is tested before it is rounded, yet the cell ends within the arena.
LEMMA RoundedFits ==
  ASSUME NEW n \in Nat, top \in Nat, top % 4 = 0, IS_ALLOCATABLE(n)
  PROVE  top + AllocateSize(n) <= Limit /\ (top + AllocateSize(n)) % 4 = 0
  BY ArenaSize DEF AllocateSize, IS_ALLOCATABLE

\* Where one cell ends the next begins.
LEMMA NextCell ==
  ASSUME NEW h, NEW S \in SUBSET Nat, NEW lo \in Nat, NEW hi \in Nat, Packs(h, S, lo, hi),
         \A x \in S : h[x].size \in Nat \ {0}, NEW a \in S
  PROVE  a + h[a].size = hi \/ a + h[a].size \in S
  <1> DEFINE e == a + h[a].size
  <1>1. lo <= a /\ e <= hi /\ e \in Nat /\ a < e
    <2>1. lo <= a /\ e <= hi
      BY DEF Packs
    <2>2. h[a].size \in Nat \ {0}
      OBVIOUS
    <2>3. a \in Nat
      OBVIOUS
    <2> QED
      BY ONLY <2>1, <2>2, <2>3
  <1>2. CASE e < hi
    <2>1. e \in lo .. (hi - 1)
      BY <1>1, <1>2
    <2>2. PICK b \in S : b <= e /\ e < b + h[b].size
      BY <2>1 DEF Packs
    <2>3. ~(b < a) /\ b # a
      <3>1. b < a => b + h[b].size <= a
        BY DEF Packs
      <3> QED
        BY <1>1, <2>2, <3>1
    <2>4. a < b
      BY <2>3
    <2>5. e <= b
      BY <2>4 DEF Packs
    <2> QED
      BY <1>1, <2>2, <2>5
  <1> QED
    BY <1>1, <1>2

LEMMA FirstCell ==
  ASSUME NEW h, NEW S \in SUBSET Nat, NEW lo \in Nat, NEW hi \in Nat, Packs(h, S, lo, hi),
         \A x \in S : h[x].size \in Nat \ {0}, lo <= hi
  PROVE  lo = hi \/ lo \in S
  <1>1. CASE lo < hi
    <2>1. lo \in lo .. (hi - 1)
      BY <1>1
    <2>2. PICK a \in S : a <= lo /\ lo < a + h[a].size
      BY <2>1 DEF Packs
    <2>3. lo <= a
      BY DEF Packs
    <2> QED
      BY <2>2, <2>3
  <1> QED
    BY <1>1

\* A cell more at the end, a cell less at the beginning.
LEMMA PacksMore ==
  ASSUME NEW h, NEW g, NEW S \in SUBSET Nat, NEW lo \in Nat, NEW hi \in Nat, lo <= hi,
         Packs(h, S, lo, hi), \A a \in S : h[a].size \in Nat \ {0},
         \A a \in S : g[a].size = h[a].size,
         NEW n \in Nat \ {0}, g[hi].size = n
  PROVE  Packs(g, S \cup {hi}, lo, hi + n)
  <1>1. \A a \in S : /\ lo <= a /\ a + h[a].size <= hi
                     /\ a \in Nat /\ h[a].size \in Nat /\ h[a].size > 0
    <2> SUFFICES ASSUME NEW a \in S
                 PROVE  /\ lo <= a /\ a + h[a].size <= hi
                        /\ a \in Nat /\ h[a].size \in Nat /\ h[a].size > 0
      OBVIOUS
    <2>1. lo <= a /\ a + h[a].size <= hi
      BY DEF Packs
    <2>2. a \in Nat /\ h[a].size \in Nat \ {0}
      OBVIOUS
    <2> QED
      BY <2>1, <2>2
  <1>2. hi \notin S
    BY <1>1
  <1>3. ASSUME NEW a \in S \cup {hi}
        PROVE  lo <= a /\ a + g[a].size <= hi + n
    <2>1. CASE a \in S
      <3>1. g[a].size = h[a].size
        BY <2>1
      <3> QED
        BY <1>1, <2>1, <3>1
    <2>2. CASE a = hi
      BY <2>2
    <2> QED
      BY <2>1, <2>2
  <1>4. ASSUME NEW a \in S \cup {hi}, NEW b \in S \cup {hi}, a < b
        PROVE  a + g[a].size <= b
    <2>1. CASE a \in S /\ b \in S
      BY <1>4, <2>1 DEF Packs
    <2>2. CASE a \in S /\ b = hi
      BY <1>1, <2>2
    <2>3. CASE a = hi
      BY <1>1, <1>4, <2>3
    <2> QED
      BY <2>1, <2>2, <2>3
  <1>5. ASSUME NEW x \in lo .. (hi + n - 1)
        PROVE  \E a \in S \cup {hi} : a <= x /\ x < a + g[a].size
    <2>1. CASE x < hi
      <3>1. x \in lo .. (hi - 1)
        BY <1>5, <2>1
      <3>2. PICK a \in S : a <= x /\ x < a + h[a].size
        BY <3>1 DEF Packs
      <3> QED
        BY <3>2
    <2>2. CASE ~(x < hi)
      <3>1. hi <= x /\ x < hi + g[hi].size
        BY <1>5, <2>2
      <3> QED
        BY <3>1
    <2> QED
      BY <2>1, <2>2
  <1> DEFINE T == S \cup {hi}
             e == hi + n
  <1> HIDE DEF T, e
  <1>6. Packs(g, T, lo, e)
    BY <1>3, <1>4, <1>5 DEF Packs, T, e
  <1> QED
    BY <1>6 DEF T, e

LEMMA PacksLess ==
  ASSUME NEW h, NEW S \in SUBSET Nat, NEW lo \in Nat, NEW hi \in Nat,
         Packs(h, S, lo, hi), \A a \in S : h[a].size \in Nat \ {0}, lo \in S
  PROVE  /\ Packs(h, S \ {lo}, lo + h[lo].size, hi)
         /\ S \ {lo} = {a \in S : ~(a < lo + h[lo].size)}
  <1> DEFINE T == S \ {lo}
             e == lo + h[lo].size
  <1>1. \A a \in T : lo < a /\ e <= a /\ a + h[a].size <= hi
    <2> SUFFICES ASSUME NEW a \in T
                 PROVE  lo < a /\ e <= a /\ a + h[a].size <= hi
      OBVIOUS
    <2>1. lo <= a /\ a + h[a].size <= hi
      BY DEF Packs
    <2>2. a \in Nat /\ a # lo
      OBVIOUS
    <2>3. lo < a
      BY <2>1, <2>2
    <2> QED
      BY <2>1, <2>3 DEF Packs
  <1>2. \A a, b \in T : a < b => a + h[a].size <= b
    BY DEF Packs
  <1>3. ASSUME NEW x \in e .. (hi - 1)
        PROVE  \E a \in T : a <= x /\ x < a + h[a].size
    <2>1. x \in lo .. (hi - 1) /\ ~(x < e)
      BY <1>3
    <2>2. PICK a \in S : a <= x /\ x < a + h[a].size
      BY <2>1 DEF Packs
    <2> QED
      BY <2>1, <2>2
  <1>4. lo < e /\ \A a \in T : ~(a < e)
    <2>1. e \in Nat /\ lo < e
      OBVIOUS
    <2> QED
      BY <1>1, <2>1
  <1>5. T = {a \in S : ~(a < e)}
    BY <1>4
  <1> HIDE DEF T, e
  <1>6. Packs(h, T, e, hi)
    BY <1>1, <1>2, <1>3 DEF Packs
  <1> QED
    BY <1>5, <1>6 DEF T, e

\* Only sizes and places matter.
LEMMA PacksSame ==
  ASSUME NEW h, NEW g, NEW S, NEW lo, NEW hi, \A a \in S : g[a].size = h[a].size
  PROVE  Packs(g, S, lo, hi) <=> Packs(h, S, lo, hi)
  BY DEF Packs

LEMMA LaidSame ==
  ASSUME NEW h, NEW g, NEW f, NEW S, NEW n, \A a \in S : g[a].size = h[a].size
  PROVE  Laid(g, f, S, n) <=> Laid(h, f, S, n)
  BY DEF Laid

-----------------------------------------------------------------------------
(* When no cell is on its way. *)

LEMMA QuietFacts ==
  ASSUME ~Resettling
  PROVE  /\ Survivors = DOMAIN heap /\ Unmoved = DOMAIN heap /\ Low = Base
         /\ \A a : ~CellMoved(a)
         /\ pc # "slide"
  BY DEF Resettling, Survivors, Unmoved, Low, CellMoved

LEMMA QuietNext ==
  ASSUME ~Resettling'
  PROVE  /\ Survivors' = DOMAIN heap' /\ Unmoved' = DOMAIN heap' /\ Low' = Base
         /\ pc' # "slide"
         /\ (\A a \in DOMAIN heap : CellMoved(a) => forwarding[a] = a)'
         /\ (ClosedFromRoots(DOMAIN heap))' => RefsOK'
         /\ (pc' # "calc" => PlacesOK')
  <1>1. pc' # "slide"
    BY DEF Resettling
  <1>2. \A a \in DOMAIN heap' : ~CellMoved(a)'
    BY <1>1 DEF CellMoved
  <1> QED
    BY <1>1, <1>2 DEF Resettling, Survivors, Unmoved, Low, CellMoved, RefsOK, PlacesOK

\* The cells are finitely many: they lie below top.
LEMMA FinitelyMany ==
  ASSUME NEW S \in SUBSET Nat, NEW t \in Nat, \A a \in S : a <= t
  PROVE  IsFiniteSet(S)
  <1>1. S \subseteq 0 .. t
    OBVIOUS
  <1>2. 0 \in Int /\ t \in Int
    OBVIOUS
  <1>3. IsFiniteSet(0 .. t)
    BY <1>2, FS_Interval
  <1> QED
    BY <1>1, <1>3, FS_Subset

LEMMA GraphFacts ==
  ASSUME TypeOK, Arena, RefsOK, ~Resettling
  PROVE  Graph
  <1>1. Packs(heap, DOMAIN heap, Base, top)
    BY QuietFacts DEF Arena
  <1>2. \A a \in DOMAIN heap : a \in Nat /\ heap[a].size \in Nat /\ top \in Nat
    BY DEF TypeOK, Arena
  <1>3. \A a \in DOMAIN heap : a <= top
    <2> SUFFICES ASSUME NEW a \in DOMAIN heap PROVE a <= top
      OBVIOUS
    <2>1. a + heap[a].size <= top
      BY <1>1 DEF Packs
    <2> QED
      BY <1>2, <2>1
  <1>4. DOMAIN heap \in SUBSET Nat /\ top \in Nat
    BY DEF TypeOK
  <1>5. IsFiniteSet(DOMAIN heap)
    BY <1>3, <1>4, FinitelyMany
  <1> QED
    BY <1>5 DEF Graph, TypeOK, RefsOK

\* A mark phase step, a phase change or an exit leaves the arena as it is.
LEMMA ArenaSame ==
  ASSUME Arena, ~Resettling, ~Resettling', DOMAIN heap' = DOMAIN heap,
         \A a \in DOMAIN heap : heap'[a].size = heap[a].size,
         top' = top, new_top' % 4 = 0
  PROVE  Arena'
  <1>1. Unmoved = DOMAIN heap /\ Low = Base /\ Unmoved' = DOMAIN heap /\ Low' = Base
    BY QuietFacts, QuietNext
  <1>2. Packs(heap', DOMAIN heap, Base, top)
    BY <1>1, PacksSame DEF Arena
  <1> QED
    BY <1>1, <1>2 DEF Arena

LEMMA InitIInv == Init => IInv
  <1> SUFFICES ASSUME Init PROVE IInv
    OBVIOUS
  <1>1. /\ root = [i \in Roots |-> IMM] /\ heap = <<>> /\ pc = "run" /\ req = NoReq /\ k = 1
        /\ g_GC_stress \in StressModes
        /\ marked = {} /\ mark_stack = <<>> /\ forwarding = <<>>
        /\ top = Base /\ new_top = Base /\ scanned = Base
    BY DEF Init, BaseInit
  <1>2. DOMAIN heap = {} /\ ~Resettling
    BY <1>1 DEF Resettling
  <1>3. TypeOK
    <2>1. root \in [Roots -> Value] /\ heap \in [DOMAIN heap -> Object]
          /\ forwarding \in [DOMAIN heap -> Nat] /\ mark_stack \in Seq(DOMAIN heap)
      BY <1>1, <1>2 DEF Value
    <2>2. k \in 1 .. (NRoots + 1) /\ g_GC_stress \in BOOLEAN
      BY <1>1, RootsAssumption, StressAssumption
    <2> QED
      BY <1>1, <1>2, <2>1, <2>2, ArenaSize DEF TypeOK, Phases
  <1>4. Arena
    <2>1. Packs(heap, {}, Base, Base)
      BY ArenaSize DEF Packs
    <2>2. Unmoved = {} /\ Low = Base
      BY <1>2, QuietFacts
    <2>3. Packs(heap, Unmoved, Low, top)
      BY <1>1, <2>1, <2>2
    <2> QED
      BY <1>1, <1>2, <2>3, ArenaSize DEF Arena
  <1>5. RefsOK /\ PlacesOK
    BY <1>1, <1>2, QuietFacts DEF RefsOK, PlacesOK, ClosedFromRoots, CELL_P
  <1>6. MarkInv
    BY <1>1, <1>2 DEF MarkInv
  <1> QED
    BY <1>1, <1>2, <1>3, <1>4, <1>5, <1>6
    DEF HeapInv, IInv, Walk, Passing, MarksOK, ReachOK, StateOK

-----------------------------------------------------------------------------
(* The steps before any address is given. *)

LEMMA ClientKeeps ==
  ASSUME IInv, Client, UNCHANGED compactVars
  PROVE  IInv'
  <1>1. pc = "run" /\ ~Resettling /\ TypeOK /\ Arena /\ RefsOK
    BY DEF HeapInv, IInv, Client, Resettling
  <1>2. Graph
    BY <1>1, GraphFacts
  <1>3. /\ Graph' /\ UNCHANGED <<pc, req, k, g_GC_stress>>
        /\ DOMAIN heap' = DOMAIN heap
        /\ \A a \in DOMAIN heap : heap'[a].size = heap[a].size
    BY <1>2, ClientKeepsGraph
  <1>4. UNCHANGED <<marked, mark_stack, forwarding, top, new_top, scanned>>
    BY DEF compactVars
  <1>5. ~Resettling'
    BY <1>1, <1>3 DEF Resettling
  <1>6. Arena'
    BY <1>1, <1>3, <1>4, <1>5, ArenaSame DEF Arena
  <1>7. TypeOK'
    BY <1>1, <1>3, <1>4 DEF TypeOK, Graph
  <1>8. RefsOK' /\ PlacesOK'
    BY <1>1, <1>3, <1>5, QuietNext DEF Graph
  <1>9. MarkInv'
    BY <1>1, <1>3, <1>4 DEF HeapInv, IInv, MarkInv
  <1> QED
    BY <1>1, <1>3, <1>4, <1>5, <1>6, <1>7, <1>8, <1>9
       DEF HeapInv, IInv, Walk, Passing, MarksOK, ReachOK, StateOK

\* The new cell lies above all others.
LEMMA AllocatedCells ==
  ASSUME IInv, pc \in {"run", "retry"}, NEW r \in Requests, IS_ALLOCATABLE(r.size), Allocate(r)
  PROVE  /\ top \in Nat \ DOMAIN heap /\ AllocateSize(r.size) \in Nat
         /\ Adds(r, top, AllocateSize(r.size)) /\ Graph /\ ~Resettling
         /\ Packs(heap, DOMAIN heap, Base, top)
  <1> DEFINE n == AllocateSize(r.size)
  <1>1. TypeOK /\ Arena /\ RefsOK /\ ~Resettling
    BY DEF HeapInv, IInv, Resettling
  <1>2. Graph /\ Packs(heap, DOMAIN heap, Base, top)
    BY <1>1, GraphFacts, QuietFacts DEF Arena
  <1>3. n \in Nat /\ top \in Nat
    BY <1>1, RequestFacts, SizeFacts DEF TypeOK
  <1>4. \A x \in DOMAIN heap : x + heap[x].size <= top /\ x \in Nat /\ heap[x].size \in Nat \ {0}
    BY <1>1, <1>2 DEF Packs, Arena, TypeOK
  <1>5. top \notin DOMAIN heap
    BY <1>3, <1>4
  <1> DEFINE o == NewObject(r, n)
             kept == {x \in DOMAIN heap : x + heap[x].size <= top \/ top + o.size <= x}
  <1>6. heap' = [x \in kept \cup {top} |-> IF x = top THEN o ELSE heap[x]]
    BY DEF Allocate, Overwrite
  <1>7. kept = DOMAIN heap
    BY <1>4
  <1> HIDE DEF o, kept
  <1>8. heap' = [x \in DOMAIN heap \cup {top} |-> IF x = top THEN o ELSE heap[x]]
    BY <1>6, <1>7
  <1>9. Adds(r, top, n)
    BY <1>8 DEF Adds, Allocate, o
  <1> QED
    BY <1>1, <1>2, <1>3, <1>5, <1>9

LEMMA AllocateKeeps ==
  ASSUME IInv, pc \in {"run", "retry"}, NEW r \in Requests, IS_ALLOCATABLE(r.size), Allocate(r)
  PROVE  IInv'
  <1> DEFINE n == AllocateSize(r.size)
             D == DOMAIN heap \cup {top}
  <1>1. /\ top \in Nat \ DOMAIN heap /\ n \in Nat /\ Adds(r, top, n) /\ Graph /\ ~Resettling
        /\ Packs(heap, DOMAIN heap, Base, top)
    BY AllocatedCells
  <1>2. /\ n \in Nat \ {0} /\ n % 4 = 0
        /\ top + n <= Limit /\ (top + n) % 4 = 0 /\ Base <= top /\ new_top % 4 = 0
    BY <1>1, RequestFacts, SizeFacts, RoundedFits DEF HeapInv, IInv, Arena
  <1>3. /\ forwarding' = [x \in DOMAIN heap' |-> IF x = top THEN top ELSE forwarding[x]]
        /\ marked' = marked \ {top} /\ top' = top + n
        /\ pc' = "run" /\ req' = NoReq
        /\ UNCHANGED <<k, g_GC_stress, mark_stack, new_top, scanned>>
    BY DEF Allocate, MarksAfter
  <1> HIDE DEF n
  <1>4. /\ Graph' /\ DOMAIN heap' = D /\ heap'[top].size = n
        /\ \A x \in DOMAIN heap : heap'[x] = heap[x]
    BY <1>1, NewCellKeepsGraph
  <1>5. ~Resettling'
    BY <1>3 DEF Resettling
  <1>6. \A a \in D : heap'[a].size \in Nat \ {0} /\ heap'[a].size % 4 = 0
    BY <1>2, <1>4 DEF HeapInv, IInv, Arena
  <1>7. Packs(heap', D, Base, top + n)
    <2>1. /\ DOMAIN heap \in SUBSET Nat /\ Base \in Nat /\ top \in Nat /\ Base <= top
          /\ \A a \in DOMAIN heap : heap[a].size \in Nat \ {0}
          /\ \A a \in DOMAIN heap : heap'[a].size = heap[a].size
      BY <1>1, <1>2, <1>4, ArenaSize DEF HeapInv, IInv, Arena, Graph
    <2> QED
      BY <1>1, <1>2, <1>4, <2>1, PacksMore
  <1>8. Arena'
    <2>1. Unmoved' = D /\ Low' = Base
      BY <1>4, <1>5, QuietNext
    <2> HIDE DEF D
    <2>2. Packs(heap, Unmoved, Low, top)'
      BY <1>3, <1>7, <2>1
    <2>3. Base <= top + n
      BY <1>1, <1>2, ArenaSize
    <2> QED
      BY <1>2, <1>3, <1>4, <1>6, <2>2, <2>3 DEF Arena
  <1>9. TypeOK'
    <2>1. forwarding' \in [DOMAIN heap' -> Nat]
      BY <1>1, <1>3, <1>4 DEF HeapInv, IInv, TypeOK
    <2>2. mark_stack' \in Seq(DOMAIN heap')
      <3>1. mark_stack = <<>>
        BY DEF HeapInv, IInv, MarksOK
      <3> QED
        BY <1>3, <3>1
    <2>3. top' \in Nat
      BY <1>1, <1>3
    <2>4. marked' \subseteq DOMAIN heap'
      BY <1>3, <1>4 DEF HeapInv, IInv, TypeOK
    <2> QED
      BY <1>3, <1>4, <2>1, <2>2, <2>3, <2>4 DEF HeapInv, IInv, TypeOK, Phases, Graph
  <1>10. RefsOK' /\ PlacesOK'
    BY <1>3, <1>4, <1>5, QuietNext DEF Graph
  <1>11. MarkInv'
    BY <1>3, <1>9 DEF MarkInv, TypeOK
  <1>12. MarksOK'
    BY <1>3 DEF HeapInv, IInv, MarksOK
  <1> QED
    BY <1>3, <1>5, <1>8, <1>9, <1>10, <1>11, <1>12 DEF HeapInv, IInv, Walk, Passing, ReachOK, StateOK

LEMMA StartKeeps ==
  ASSUME IInv, NEW r \in Requests, GCStart(r)
  PROVE  IInv'
  <1>1. /\ pc = "run" /\ pc' = "roots" /\ req' = r /\ k' = 1 /\ mark_stack' = <<>>
        /\ UNCHANGED <<root, heap, g_GC_stress, marked, forwarding, top, new_top, scanned>>
    BY DEF GCStart
  <1>2. marked = {} /\ ~Resettling /\ ~Resettling' /\ TypeOK /\ Arena /\ RefsOK
    BY <1>1 DEF HeapInv, IInv, MarksOK, Resettling
  <1>3. Arena'
    BY <1>1, <1>2, ArenaSame DEF Arena
  <1>4. RefsOK' /\ PlacesOK'
    BY <1>1, <1>2, QuietNext DEF RefsOK, ClosedFromRoots
  <1>5. MarkInv'
    BY <1>1, <1>2, MarkingStarts
  <1>6. TypeOK'
    BY <1>1, <1>2, RootsAssumption DEF TypeOK, Phases
  <1> QED
    BY <1>1, <1>2, <1>3, <1>4, <1>5, <1>6
    DEF HeapInv, IInv, Walk, Passing, MarksOK, ReachOK, StateOK

LEMMA MarkKeeps ==
  ASSUME IInv, MarkPhase, UNCHANGED <<forwarding, top, new_top, scanned>>
  PROVE  IInv'
  <1>1. pc \in {"roots", "mark"} /\ ~Resettling /\ TypeOK /\ Arena /\ RefsOK /\ MarkInv
    BY DEF MarkPhase, MarkRoot, RootsMarked, MarkNext, Resettling, HeapInv, IInv
  <1>2. k \in 1 .. (NRoots + 1) /\ Graph
    BY <1>1, GraphFacts DEF TypeOK
  <1>3. /\ MarkInv' /\ UNCHANGED <<root, heap, req, g_GC_stress>>
        /\ pc' \in {"roots", "mark", "overflowed"} /\ k' \in 1 .. (NRoots + 1)
        /\ marked' \subseteq marked \cup DOMAIN heap
    BY <1>1, <1>2, MarkPhaseKeeps
  <1>4. ~Resettling'
    BY <1>3 DEF Resettling
  <1>5. Arena'
    BY <1>1, <1>3, <1>4, ArenaSame DEF Arena
  <1>6. RefsOK' /\ PlacesOK'
    BY <1>1, <1>3, <1>4, QuietNext DEF RefsOK, ClosedFromRoots
  <1>7. TypeOK'
    BY <1>1, <1>3 DEF TypeOK, Phases, MarkInv
  <1>8. MarksOK' /\ Walk' /\ ReachOK'
    BY <1>3, <1>4 DEF MarksOK, Walk, Passing, ReachOK
  <1>9. StateOK'
    BY <1>1, <1>3 DEF HeapInv, IInv, StateOK
  <1> QED
    BY <1>3, <1>5, <1>6, <1>7, <1>8, <1>9 DEF HeapInv, IInv

-----------------------------------------------------------------------------
(* calc_new_address *)

\* No cell begins within the one a pass is at.
LEMMA Between ==
  ASSUME HeapInv, Passing, scanned < top
  PROVE  /\ scanned \in Unmoved /\ scanned \in DOMAIN heap
         /\ heap[scanned].size \in Nat \ {0} /\ heap[scanned].size % 4 = 0 /\ scanned \in Nat
         /\ \A a \in Unmoved : a < scanned + heap[scanned].size <=> a < scanned \/ a = scanned
         /\ scanned + heap[scanned].size \in Unmoved \/ scanned + heap[scanned].size = top
  <1> DEFINE e == scanned + heap[scanned].size
  <1>1. scanned \in Nat /\ top \in Nat /\ DOMAIN heap \subseteq Nat
    BY DEF HeapInv, TypeOK
  <1>2. scanned \in Unmoved /\ Unmoved \in SUBSET Nat /\ Unmoved \subseteq DOMAIN heap
    BY <1>1 DEF HeapInv, Walk, Unmoved
  <1>3. /\ \A a \in Unmoved : a \in Nat /\ heap[a].size \in Nat \ {0} /\ heap[a].size % 4 = 0
        /\ Packs(heap, Unmoved, Low, top) /\ Low \in Nat
    BY <1>1, <1>2, ArenaSize DEF HeapInv, Arena, Low
  <1>4. e = top \/ e \in Unmoved
    BY <1>1, <1>2, <1>3, NextCell
  <1>5. ASSUME NEW a \in Unmoved
        PROVE  a < e <=> a < scanned \/ a = scanned
    <2>1. a \in Nat /\ heap[scanned].size \in Nat /\ heap[scanned].size > 0
      BY <1>2, <1>3
    <2>2. scanned < a => e <= a
      BY <1>2, <1>3 DEF Packs
    <2>3. e \in Nat /\ scanned < e
      BY <1>1, <2>1
    <2> HIDE DEF e
    <2> QED
      BY <1>1, <2>1, <2>2, <2>3
  <1> QED
    BY <1>1, <1>2, <1>3, <1>4, <1>5

\* A place more, at the end.
LEMMA LaidMore ==
  ASSUME NEW h, NEW f, NEW g, NEW S \in SUBSET Nat, NEW n \in Nat, Base <= n, Laid(h, f, S, n),
         NEW a \in Nat, n <= a, \A x \in S : x < a,
         \A x \in S : f[x] \in Nat /\ h[x].size \in Nat \ {0},
         h[a].size \in Nat \ {0}, g[a] = n, \A x \in S : g[x] = f[x]
  PROVE  Laid(h, g, S \cup {a}, n + h[a].size)
  <1> DEFINE T == S \cup {a}
             e == n + h[a].size
  <1>0. Base \in Nat /\ e \in Nat /\ n < e /\ h[a].size \in Nat
    BY ArenaSize
  <1>1. ASSUME NEW x \in T
        PROVE  Base <= g[x] /\ g[x] <= x /\ g[x] + h[x].size <= e
    <2>1. CASE x \in S
      <3>1. Base <= f[x] /\ f[x] <= x /\ f[x] + h[x].size <= n /\ g[x] = f[x]
        BY <2>1 DEF Laid
      <3>2. f[x] \in Nat /\ h[x].size \in Nat
        BY <2>1
      <3> QED
        BY <1>0, <3>1, <3>2
    <2>2. CASE x = a
      BY <1>0, <2>2
    <2> QED
      BY <2>1, <2>2
  <1>2. ASSUME NEW x \in T, NEW y \in T, x < y
        PROVE  g[x] + h[x].size <= g[y]
    <2>1. CASE x \in S /\ y \in S
      BY <1>2, <2>1 DEF Laid
    <2>2. CASE x \in S /\ y = a
      BY <2>2 DEF Laid
    <2>3. CASE x = a /\ y \in S
      <3>1. y < a /\ y \in Nat
        BY <2>3
      <3> QED
        BY <1>2, <2>3, <3>1
    <2>4. CASE x = a /\ y = a
      BY <1>2, <2>4
    <2> QED
      BY <2>1, <2>2, <2>3, <2>4
  <1>3. ASSUME NEW x \in Base .. (e - 1)
        PROVE  \E y \in T : g[y] <= x /\ x < g[y] + h[y].size
    <2>1. CASE x < n
      <3>1. x \in Base .. (n - 1)
        BY <1>0, <1>3, <2>1
      <3>2. PICK y \in S : f[y] <= x /\ x < f[y] + h[y].size
        BY <3>1 DEF Laid
      <3> QED
        BY <3>2
    <2>2. CASE ~(x < n)
      <3>1. g[a] <= x /\ x < g[a] + h[a].size
        BY <1>0, <1>3, <2>2
      <3> QED
        BY <3>1
    <2> QED
      BY <2>1, <2>2
  <1> HIDE DEF T, e
  <1>4. Laid(h, g, T, e)
    BY <1>1, <1>2, <1>3 DEF Laid
  <1> QED
    BY <1>4 DEF T, e

LEMMA CalcStartKeeps ==
  ASSUME IInv, CalcStart
  PROVE  IInv'
  <1>1. /\ Marked /\ pc = "mark" /\ pc' = "calc" /\ scanned' = Base /\ new_top' = Base
        /\ UNCHANGED <<root, heap, req, k, g_GC_stress, marked, mark_stack, forwarding, top>>
    BY DEF CalcStart, Marked
  <1>2. ~Resettling /\ ~Resettling' /\ TypeOK /\ Arena /\ RefsOK /\ MarkInv
    BY <1>1 DEF Resettling, HeapInv, IInv
  <1>3. Graph
    BY <1>2, GraphFacts
  <1>4. marked = Live /\ mark_stack = <<>>
    BY <1>1, <1>2, <1>3, MarkingEnds DEF TypeOK, Marked
  <1>5. Live' = Live
    BY <1>1 DEF Live, ClosedFromRoots
  <1>6. Arena'
    BY <1>1, <1>2, ArenaSame, ArenaSize DEF Arena
  <1>7. Packs(heap, DOMAIN heap, Base, top) /\ Unmoved' = DOMAIN heap
    BY <1>1, <1>2, QuietFacts, QuietNext DEF Arena
  <1>8. Base = top \/ Base \in DOMAIN heap
    BY <1>2, <1>7, ArenaSize, FirstCell DEF TypeOK, Arena
  <1>9. Walk'
    BY <1>1, <1>7, <1>8, ArenaSize DEF Walk, Passing
  <1>10. PlacesOK'
    <2>1. \A a \in DOMAIN heap : Base <= a /\ a \in Nat
      BY <1>2, <1>7 DEF Packs, TypeOK
    <2>2. Passed' = {}
      BY <1>1, <1>2, <2>1, ArenaSize DEF Passed, TypeOK
    <2>3. Laid(heap', forwarding', {}, Base)
      BY ArenaSize DEF Laid
    <2>4. Laid(heap, forwarding, Passed, new_top)' /\ Base <= new_top' /\ new_top' <= scanned'
      BY <1>1, <2>2, <2>3, ArenaSize
    <2> QED
      BY <1>1, <1>2, <2>4, QuietNext DEF PlacesOK
  <1>11. RefsOK'
    BY <1>1, <1>2, QuietNext DEF RefsOK, ClosedFromRoots
  <1>12. MarkInv'
    BY <1>1, <1>2 DEF MarkInv
  <1>13. TypeOK'
    BY <1>1, <1>2, ArenaSize DEF TypeOK, Phases
  <1>14. MarksOK' /\ StateOK'
    BY <1>1, <1>4, <1>5 DEF MarksOK, StateOK, HeapInv, IInv
  <1> QED
    BY <1>1, <1>2, <1>6, <1>9, <1>10, <1>11, <1>12, <1>13, <1>14 DEF HeapInv, IInv, ReachOK

LEMMA CalcKeeps ==
  ASSUME IInv, CalcNewAddress
  PROVE  IInv'
  <1> DEFINE s == scanned
             n == heap[s].size
  <1>1. /\ pc = "calc" /\ s < top /\ pc' = "calc" /\ scanned' = s + n
        /\ new_top' = (IF s \in marked THEN new_top + n ELSE new_top)
        /\ forwarding' = (IF s \in marked THEN [forwarding EXCEPT ![s] = new_top] ELSE forwarding)
        /\ UNCHANGED <<root, heap, req, k, g_GC_stress, marked, mark_stack, top>>
    BY DEF CalcNewAddress, NewTop
  <1>2. ~Resettling /\ ~Resettling' /\ TypeOK /\ Arena /\ RefsOK /\ MarkInv /\ Passing /\ HeapInv
    BY <1>1 DEF Resettling, HeapInv, IInv, Passing
  <1>3. Unmoved = DOMAIN heap /\ Unmoved' = DOMAIN heap
    BY <1>1, <1>2, QuietFacts, QuietNext
  <1>4. /\ s \in DOMAIN heap /\ n \in Nat \ {0} /\ n % 4 = 0 /\ s \in Nat
        /\ \A a \in DOMAIN heap : a < s + n <=> a < s \/ a = s
        /\ s + n \in DOMAIN heap \/ s + n = top
    BY <1>1, <1>2, <1>3, Between
  <1> HIDE DEF s, n
  <1>5. /\ Laid(heap, forwarding, Passed, new_top) /\ new_top <= s /\ Base <= new_top
        /\ Base <= s /\ new_top \in Nat /\ new_top % 4 = 0
    BY <1>1, <1>2 DEF HeapInv, PlacesOK, Walk, TypeOK, Arena, s
  <1>6. marked \subseteq DOMAIN heap /\ DOMAIN heap \subseteq Nat
    BY <1>2 DEF TypeOK
  <1>7. new_top' \in Nat /\ new_top' % 4 = 0 /\ forwarding' \in [DOMAIN heap -> Nat]
    <2>1. CASE s \in marked
      <3>1. new_top' = new_top + n /\ forwarding' = [forwarding EXCEPT ![s] = new_top]
        BY <1>1, <2>1
      <3>2. new_top' \in Nat /\ new_top' % 4 = 0
        BY <1>4, <1>5, <3>1
      <3> QED
        BY <1>2, <1>5, <3>1, <3>2 DEF TypeOK
    <2>2. CASE s \notin marked
      BY <1>1, <1>2, <1>5, <2>2 DEF TypeOK
    <2> QED
      BY <2>1, <2>2
  <1>8. PlacesOK'
    <2>1. CASE s \in marked
      <3>1. Passed' = Passed \cup {s}
        BY <1>1, <1>4, <1>6, <2>1 DEF Passed, s
      <3>2. /\ Passed \in SUBSET Nat /\ \A x \in Passed : x < s /\ x \in DOMAIN heap
            /\ \A x \in DOMAIN heap : forwarding[x] \in Nat /\ heap[x].size \in Nat \ {0}
        BY <1>2, <1>6 DEF Passed, s, TypeOK, Arena
      <3>3. /\ forwarding' = [forwarding EXCEPT ![s] = new_top] /\ s \in DOMAIN forwarding
            /\ new_top' = new_top + n
        BY <1>1, <1>2, <1>4, <2>1 DEF TypeOK
      <3>4. /\ forwarding'[s] = new_top
            /\ \A x \in Passed : forwarding'[x] = forwarding[x]
        BY <3>2, <3>3, <1>4
      <3>6. Laid(heap, forwarding', Passed \cup {s}, new_top + n)
        BY <1>4, <1>5, <3>2, <3>4, LaidMore DEF n
      <3>7. Laid(heap, forwarding, Passed, new_top)'
        BY <1>1, <3>1, <3>3, <3>6
      <3>8. Base <= new_top' /\ new_top' <= scanned'
        BY <1>1, <1>4, <1>5, <3>3, ArenaSize
      <3> QED
        BY <1>2, <3>7, <3>8, QuietNext DEF PlacesOK
    <2>2. CASE s \notin marked
      <3>1. Passed' = Passed /\ forwarding' = forwarding /\ new_top' = new_top
        BY <1>1, <1>4, <1>6, <2>2 DEF Passed, s
      <3>2. Laid(heap, forwarding, Passed, new_top)'
        BY <1>1, <1>5, <3>1
      <3>3. Base <= new_top' /\ new_top' <= scanned'
        BY <1>1, <1>4, <1>5, <3>1, ArenaSize
      <3> QED
        BY <1>2, <3>2, <3>3, QuietNext DEF PlacesOK
    <2> QED
      BY <2>1, <2>2
  <1>9. Arena'
    BY <1>1, <1>2, <1>7, ArenaSame DEF Arena
  <1>10. Walk'
    BY <1>1, <1>3, <1>4, <1>5, ArenaSize DEF Walk, Passing
  <1>11. RefsOK'
    BY <1>1, <1>2, QuietNext DEF RefsOK, ClosedFromRoots
  <1>12. MarkInv'
    BY <1>1, <1>2 DEF MarkInv
  <1>13. TypeOK'
    BY <1>1, <1>2, <1>4, <1>7 DEF TypeOK, Phases
  <1>14. MarksOK' /\ StateOK'
    <2>1. Live' = Live
      BY <1>1 DEF Live, ClosedFromRoots
    <2> QED
      BY <1>1, <1>2, <2>1 DEF MarksOK, StateOK, HeapInv
  <1> QED
    BY <1>1, <1>2, <1>8, <1>9, <1>10, <1>11, <1>12, <1>13, <1>14 DEF HeapInv, IInv, ReachOK

-----------------------------------------------------------------------------
(* The abstract memory. *)

\* What the abstract memory holds in place of the cell at a.
ViewOf(a) == [type |-> heap[a].type,
              car  |-> View(heap[a].car, CellUpdated(a)),
              cdr  |-> View(heap[a].cdr, CellUpdated(a))]

HomesDiffer == \A a, b \in Survivors : Home(a) = Home(b) => a = b

LEMMA Mapped ==
  HomesDiffer => /\ DOMAIN absObjs = {Home(a) : a \in Survivors}
                 /\ \A a \in Survivors : absObjs[Home(a)] = ViewOf(a)
  <1> SUFFICES ASSUME HomesDiffer
               PROVE  /\ DOMAIN absObjs = {Home(a) : a \in Survivors}
                      /\ \A a \in Survivors : absObjs[Home(a)] = ViewOf(a)
    OBVIOUS
  <1>1. DOMAIN absObjs = {Home(a) : a \in Survivors}
    BY DEF absObjs
  <1>2. ASSUME NEW a \in Survivors
        PROVE  absObjs[Home(a)] = ViewOf(a)
    <2> DEFINE c == CHOOSE x \in Survivors : Home(x) = Home(a)
    <2>1. absObjs[Home(a)] = ViewOf(c)
      BY <1>2 DEF absObjs, ViewOf
    <2>2. c \in Survivors /\ Home(c) = Home(a)
      OBVIOUS
    <2>3. c = a
      BY <2>2 DEF HomesDiffer
    <2> QED
      BY <2>1, <2>3
  <1> QED
    BY <1>1, <1>2

LEMMA SurvivorFacts ==
  HeapInv => /\ Survivors \subseteq DOMAIN heap /\ DOMAIN heap \subseteq Nat
             /\ \A a \in Survivors : /\ Home(a) = IF Resettling THEN forwarding[a] ELSE a
                                     /\ forwarding[a] \in Nat
                                     /\ heap[a].size \in Nat \ {0}
  BY DEF HeapInv, TypeOK, Arena, PlacesOK, Survivors, Home, CellMoved, Resettling

LEMMA HomesAreDifferent == HeapInv => HomesDiffer
  <1> SUFFICES ASSUME HeapInv, NEW a \in Survivors, NEW b \in Survivors, Home(a) = Home(b)
               PROVE  a = b
    BY DEF HomesDiffer
  <1>1. CASE ~Resettling
    BY <1>1, SurvivorFacts
  <1>2. CASE Resettling
    <2>1. Laid(heap, forwarding, Survivors, new_top)
      BY <1>2 DEF HeapInv, PlacesOK
    <2>2. /\ a \in Nat /\ b \in Nat /\ forwarding[a] = forwarding[b]
          /\ forwarding[a] \in Nat /\ forwarding[b] \in Nat
          /\ heap[a].size \in Nat /\ heap[a].size > 0
          /\ heap[b].size \in Nat /\ heap[b].size > 0
      BY <1>2, SurvivorFacts
    <2>3. a < b => forwarding[a] + heap[a].size <= forwarding[b]
      BY <2>1 DEF Laid
    <2>4. b < a => forwarding[b] + heap[b].size <= forwarding[a]
      BY <2>1 DEF Laid
    <2> QED
      BY <2>2, <2>3, <2>4
  <1> QED
    BY <1>1, <1>2

\* The memory stands still when every home keeps what it holds.
LEMMA SameView ==
  ASSUME HeapInv, HeapInv',
         \A b \in Survivors' : \E a \in Survivors : Home(b)' = Home(a) /\ ViewOf(b)' = ViewOf(a),
         \A a \in Survivors : \E b \in Survivors' : Home(b)' = Home(a)
  PROVE  absObjs' = absObjs
  <1>1. /\ DOMAIN absObjs = {Home(a) : a \in Survivors}
        /\ \A a \in Survivors : absObjs[Home(a)] = ViewOf(a)
    BY HomesAreDifferent, Mapped
  <1>2. HomesDiffer'
    BY HomesAreDifferent, PTL
  <1>3. (/\ DOMAIN absObjs = {Home(a) : a \in Survivors}
         /\ \A a \in Survivors : absObjs[Home(a)] = ViewOf(a))'
    BY <1>2, Mapped, PTL
  <1> DEFINE f == absObjs
             g == absObjs'
  <1>4. f = [x \in DOMAIN f |-> f[x]] /\ g = [x \in DOMAIN g |-> g[x]]
    BY DEF absObjs
  <1>5. ASSUME NEW x \in DOMAIN g
        PROVE  x \in DOMAIN f /\ f[x] = g[x]
    <2>1. PICK b \in Survivors' : x = Home(b)'
      BY <1>3
    <2>2. PICK a \in Survivors : Home(b)' = Home(a) /\ ViewOf(b)' = ViewOf(a)
      BY <2>1
    <2>3. g[x] = ViewOf(b)' /\ f[Home(a)] = ViewOf(a)
      BY <1>1, <1>3, <2>1
    <2> QED
      BY <1>1, <2>1, <2>2, <2>3
  <1>6. DOMAIN f \subseteq DOMAIN g
    BY <1>1, <1>3
  <1> HIDE DEF f, g
  <1>7. g = f
    BY <1>4, <1>5, <1>6
  <1> QED
    BY <1>7 DEF f, g

\* So what is known of all of it stays known.
LEMMA ReachedSame ==
  ASSUME AllReached, UNCHANGED <<absRoot, absObjs>>
  PROVE  AllReached'
  BY DEF AllReached, AbstractlyClosed

-----------------------------------------------------------------------------
(* From calc_new_address to update_pointer: all at once the abstract memory *)
(* has its new addresses.                                                  *)

LEMMA UpdateStartFacts ==
  ASSUME HeapInv, UpdateStart
  PROVE  /\ pc = "calc" /\ pc' = "updroots" /\ scanned' = Base /\ k' = 1
         /\ UNCHANGED <<root, heap, req, g_GC_stress, marked, mark_stack, forwarding, top, new_top>>
         /\ ~Resettling /\ Resettling' /\ Graph /\ scanned = top
         /\ marked = Live /\ marked \subseteq DOMAIN heap /\ Survivors' = marked
         /\ Laid(heap, forwarding, marked, new_top) /\ Base <= new_top /\ new_top <= top
         /\ Unmoved' = DOMAIN heap /\ Packs(heap, DOMAIN heap, Base, top)
         /\ \A i \in Roots : ~RootUpdated(i)'
         /\ \A a : ~CellUpdated(a)' /\ ~CellMoved(a)'
  <1>1. /\ pc = "calc" /\ scanned >= top /\ pc' = "updroots" /\ scanned' = Base /\ k' = 1
        /\ UNCHANGED <<root, heap, req, g_GC_stress, marked, mark_stack, forwarding, top, new_top>>
    BY DEF UpdateStart
  <1>2. ~Resettling /\ Resettling' /\ TypeOK /\ Arena /\ RefsOK
    BY <1>1 DEF Resettling, HeapInv
  <1>3. Graph /\ Unmoved = DOMAIN heap
    BY <1>2, GraphFacts, QuietFacts
  <1>4. Packs(heap, DOMAIN heap, Base, top)
    BY <1>2, <1>3, QuietFacts DEF Arena
  <1>5. \A a \in DOMAIN heap : /\ a \in Nat /\ heap[a].size \in Nat \ {0}
                               /\ a + heap[a].size <= top /\ top \in Nat
    BY <1>2, <1>4 DEF Packs, TypeOK, Arena
  <1>6. scanned = top
    <2>1. scanned \in DOMAIN heap \/ scanned = top
      BY <1>1, <1>3 DEF HeapInv, Walk, Passing
    <2>2. scanned \in DOMAIN heap => scanned < top
      <3> SUFFICES ASSUME scanned \in DOMAIN heap PROVE scanned < top
        OBVIOUS
      <3>1. scanned \in Nat /\ heap[scanned].size \in Nat /\ heap[scanned].size > 0
            /\ scanned + heap[scanned].size <= top /\ top \in Nat
        BY <1>5
      <3> QED
        BY <3>1
    <2>3. scanned \in Nat /\ top \in Nat
      BY <1>2 DEF TypeOK
    <2> QED
      BY <1>1, <2>1, <2>2, <2>3
  <1>7. marked = Live /\ marked \subseteq DOMAIN heap
    BY <1>1 DEF HeapInv, MarksOK, TypeOK
  <1>8. Passed = marked
    <2>1. \A a \in DOMAIN heap : a < top
      <3> SUFFICES ASSUME NEW a \in DOMAIN heap PROVE a < top
        OBVIOUS
      <3>1. a \in Nat /\ heap[a].size \in Nat /\ heap[a].size > 0
            /\ a + heap[a].size <= top /\ top \in Nat
        BY <1>5
      <3> QED
        BY <3>1
    <2> QED
      BY <1>6, <1>7, <2>1 DEF Passed
  <1>9. Laid(heap, forwarding, marked, new_top) /\ Base <= new_top /\ new_top <= top
    BY <1>1, <1>6, <1>8 DEF HeapInv, PlacesOK
  <1>10. /\ \A a : ~CellUpdated(a)' /\ ~CellMoved(a)'
         /\ \A i \in Roots : ~RootUpdated(i)'
    BY <1>1 DEF CellUpdated, CellMoved, RootUpdated, Roots
  <1>11. Survivors' = marked /\ Unmoved' = DOMAIN heap
    BY <1>1, <1>2, <1>10 DEF Survivors, Unmoved
  <1> QED
    BY <1>1, <1>2, <1>3, <1>4, <1>6, <1>7, <1>9, <1>10, <1>11

LEMMA UpdateStartHeap ==
  ASSUME HeapInv, UpdateStart
  PROVE  HeapInv'
  <1>1. /\ pc = "calc" /\ pc' = "updroots" /\ scanned' = Base /\ k' = 1
        /\ UNCHANGED <<root, heap, req, g_GC_stress, marked, mark_stack, forwarding, top, new_top>>
        /\ ~Resettling /\ Resettling' /\ Graph /\ scanned = top
        /\ marked = Live /\ marked \subseteq DOMAIN heap /\ Survivors' = marked
        /\ Laid(heap, forwarding, marked, new_top) /\ Base <= new_top /\ new_top <= top
        /\ Unmoved' = DOMAIN heap /\ Packs(heap, DOMAIN heap, Base, top)
        /\ \A i \in Roots : ~RootUpdated(i)'
        /\ \A a : ~CellUpdated(a)' /\ ~CellMoved(a)'
    BY UpdateStartFacts
  <1>2. TypeOK /\ Arena /\ MarkInv
    BY DEF HeapInv
  <1>3. Arena'
    BY <1>1, <1>2 DEF Arena, Low
  <1>4. Base = top \/ Base \in DOMAIN heap
    BY <1>1, <1>2, ArenaSize, FirstCell DEF TypeOK, Arena
  <1>5. Walk'
    BY <1>1, <1>4, ArenaSize DEF Walk, Passing
  <1>6. PlacesOK'
    BY <1>1 DEF PlacesOK
  <1>7. RefsOK'
    <2>1. ClosedFromRoots(marked)
      BY <1>1, LiveClosed
    <2>2. \A i \in Roots : Leads(root[i], RootUpdated(i))'
      BY <1>1, <2>1 DEF Leads, ClosedFromRoots
    <2>3. \A a \in marked : \A v \in Fields(heap[a]) : Leads(v, CellUpdated(a))'
      BY <1>1, <2>1 DEF Leads, ClosedFromRoots
    <2> QED
      BY <1>1, <2>2, <2>3 DEF RefsOK
  <1>8. MarkInv'
    BY <1>1, <1>2 DEF MarkInv
  <1>9. TypeOK'
    BY <1>1, <1>2, ArenaSize, RootsAssumption DEF TypeOK, Phases
  <1>10. MarksOK' /\ StateOK'
    BY <1>1 DEF MarksOK, StateOK, HeapInv
  <1> QED
    BY <1>3, <1>5, <1>6, <1>7, <1>8, <1>9, <1>10 DEF HeapInv

\* What is seen then: the marked cells at their new addresses, and references
\* to these.
LEMMA UpdateStartView ==
  ASSUME HeapInv, UpdateStart
  PROVE  /\ DOMAIN absObjs' = {forwarding[a] : a \in marked}
         /\ \A a \in marked : absObjs'[forwarding[a]] =
              [type |-> heap[a].type, car |-> Updated(heap[a].car), cdr |-> Updated(heap[a].cdr)]
         /\ \A i \in Roots : absRoot'[i] = Updated(root[i])
         /\ \A a, b \in marked : forwarding[a] = forwarding[b] => a = b
  <1>1. /\ UNCHANGED <<root, heap, marked, forwarding>> /\ Resettling'
        /\ Survivors' = marked
        /\ \A i \in Roots : ~RootUpdated(i)'
        /\ \A a : ~CellUpdated(a)' /\ ~CellMoved(a)'
    BY UpdateStartFacts
  <1>2. HeapInv'
    BY UpdateStartHeap
  <1>3. HomesDiffer'
    BY <1>2, HomesAreDifferent, PTL
  <1>4. (/\ DOMAIN absObjs = {Home(a) : a \in Survivors}
         /\ \A a \in Survivors : absObjs[Home(a)] = ViewOf(a))'
    BY <1>3, Mapped, PTL
  <1>5. \A a : Home(a)' = forwarding[a]
    BY <1>1 DEF Home
  <1>6. \A a : ViewOf(a)' = [type |-> heap[a].type, car |-> Updated(heap[a].car),
                             cdr |-> Updated(heap[a].cdr)]
    BY <1>1 DEF ViewOf, View, Updated
  <1>7. \A i \in Roots : absRoot'[i] = Updated(root[i])
    BY <1>1 DEF absRoot, View, Updated
  <1>8. \A a, b \in marked : forwarding[a] = forwarding[b] => a = b
    BY <1>1, <1>3, <1>5 DEF HomesDiffer
  <1>9. DOMAIN absObjs' = {forwarding[a] : a \in marked}
    BY <1>1, <1>4, <1>5
  <1> QED
    BY <1>1, <1>4, <1>5, <1>6, <1>7, <1>8, <1>9

LEMMA UpdateStartKeeps ==
  ASSUME IInv, UpdateStart
  PROVE  IInv'
  <1>1. HeapInv /\ HeapInv'
    BY UpdateStartHeap DEF IInv
  <1>2. Graph /\ marked = Live /\ marked \subseteq DOMAIN heap
    BY <1>1, UpdateStartFacts
  <1>3. /\ DOMAIN absObjs' = {forwarding[a] : a \in marked}
        /\ \A a \in marked : absObjs'[forwarding[a]] =
             [type |-> heap[a].type, car |-> Updated(heap[a].car), cdr |-> Updated(heap[a].cdr)]
        /\ \A i \in Roots : absRoot'[i] = Updated(root[i])
        /\ \A a, b \in marked : forwarding[a] = forwarding[b] => a = b
    BY <1>1, UpdateStartView
  <1>4. AllReached'
    <2> SUFFICES ASSUME NEW T \in SUBSET DOMAIN absObjs', AbstractlyClosed(T)'
                 PROVE  T = DOMAIN absObjs'
      BY DEF AllReached
    <2> DEFINE S == {a \in marked : forwarding[a] \in T}
    <2>1. ClosedFromRoots(marked)
      BY <1>2, LiveClosed
    <2>2. \A v : v \in marked /\ Updated(v) \in T /\ CELL_P(v) => v \in S
      BY DEF Updated
    <2>3. ASSUME NEW i \in Roots, CELL_P(root[i])
          PROVE  root[i] \in S
      <3>1. root[i] \in marked
        BY <2>1, <2>3 DEF ClosedFromRoots
      <3>2. absRoot'[i] = Updated(root[i]) /\ Updated(root[i]) = forwarding[root[i]]
        BY <1>3, <2>3 DEF Updated
      <3>3. CELL_P(absRoot'[i])
        BY <1>1, <1>2, <3>1, <3>2, ImmAssumption DEF CELL_P, HeapInv, TypeOK
      <3> QED
        BY <2>2, <2>3, <3>1, <3>2, <3>3 DEF AbstractlyClosed
    <2>4. ASSUME NEW a \in S, NEW v \in Fields(heap[a]), CELL_P(v)
          PROVE  v \in S
      <3>1. v \in marked
        BY <2>1, <2>4 DEF ClosedFromRoots
      <3>2. forwarding[a] \in T /\ absObjs'[forwarding[a]] =
             [type |-> heap[a].type, car |-> Updated(heap[a].car), cdr |-> Updated(heap[a].cdr)]
        BY <1>3
      <3>3. Updated(v) \in Fields(absObjs'[forwarding[a]])
        BY <2>4, <3>2 DEF Fields
      <3>4. CELL_P(Updated(v))
        BY <1>1, <1>2, <2>4, <3>1, ImmAssumption DEF CELL_P, Updated, HeapInv, TypeOK
      <3> QED
        BY <2>2, <2>4, <3>1, <3>2, <3>3, <3>4 DEF AbstractlyClosed
    <2>5. ClosedFromRoots(S)
      BY <2>3, <2>4 DEF ClosedFromRoots
    <2>6. marked \subseteq S
      BY <1>2, <2>5, LiveLeast
    <2> QED
      BY <1>3, <2>6
  <1> QED
    BY <1>1, <1>4 DEF IInv, ReachOK

-----------------------------------------------------------------------------
(* update_pointer: no address changes, references are updated.             *)

LEMMA UpdatingFacts ==
  ASSUME HeapInv, pc \in {"updroots", "update"}
  PROVE  /\ Resettling /\ Survivors = marked /\ marked \subseteq DOMAIN heap
         /\ Unmoved = DOMAIN heap /\ Low = Base
         /\ \A a : ~CellMoved(a) /\ Home(a) = forwarding[a]
         /\ Packs(heap, DOMAIN heap, Base, top)
         /\ \A a \in DOMAIN heap : a \in Nat /\ Base <= a /\ a < top
  <1>1. Resettling /\ \A a : ~CellMoved(a)
    BY DEF Resettling, CellMoved
  <1>2. /\ Survivors = marked /\ Unmoved = DOMAIN heap /\ Low = Base
        /\ \A a : Home(a) = forwarding[a]
    BY <1>1 DEF Survivors, Unmoved, Low, Home
  <1>3. Packs(heap, DOMAIN heap, Base, top) /\ marked \subseteq DOMAIN heap
    BY <1>2 DEF HeapInv, Arena, TypeOK
  <1>4. ASSUME NEW a \in DOMAIN heap
        PROVE  a \in Nat /\ Base <= a /\ a < top
    <2>1. a \in Nat /\ heap[a].size \in Nat \ {0} /\ top \in Nat
      BY DEF HeapInv, TypeOK, Arena
    <2>2. Base <= a /\ a + heap[a].size <= top
      BY <1>3 DEF Packs
    <2> QED
      BY <2>1, <2>2
  <1> QED
    BY <1>1, <1>2, <1>3, <1>4

LEMMA UpdatingNext ==
  ASSUME HeapInv, pc \in {"updroots", "update"}, pc' \in {"updroots", "update"},
         DOMAIN heap' = DOMAIN heap, \A a \in DOMAIN heap : heap'[a].size = heap[a].size,
         UNCHANGED <<marked, forwarding, top, new_top>>
  PROVE  /\ Arena' /\ PlacesOK' /\ Resettling'
         /\ Survivors' = Survivors /\ Homes' = Homes
         /\ Unmoved' = DOMAIN heap
         /\ \A a : Home(a)' = Home(a)
  <1>1. /\ Resettling /\ Survivors = marked /\ marked \subseteq DOMAIN heap
        /\ Unmoved = DOMAIN heap /\ Low = Base
        /\ \A a : Home(a) = forwarding[a]
        /\ Packs(heap, DOMAIN heap, Base, top)
    BY UpdatingFacts
  <1>2. Resettling' /\ \A a : ~CellMoved(a)'
    BY DEF Resettling, CellMoved
  <1>3. /\ Survivors' = marked /\ Unmoved' = DOMAIN heap /\ Low' = Base
        /\ \A a : Home(a)' = forwarding[a]
    BY <1>2 DEF Survivors, Unmoved, Low, Home
  <1>4. Packs(heap', DOMAIN heap, Base, top)
    BY <1>1, PacksSame
  <1>5. Laid(heap, forwarding, marked, new_top) /\ Base <= new_top /\ new_top <= top
    BY <1>1 DEF HeapInv, PlacesOK
  <1>6. Laid(heap', forwarding, marked, new_top)
    BY <1>1, <1>5, LaidSame
  <1>7. Arena'
    BY <1>3, <1>4 DEF Arena, HeapInv
  <1>8. PlacesOK'
    BY <1>2, <1>3, <1>5, <1>6 DEF PlacesOK
  <1>9. Homes' = Homes
    BY <1>1, <1>3 DEF Homes
  <1> QED
    BY <1>1, <1>2, <1>3, <1>7, <1>8, <1>9

LEMMA UpdateRootKeeps ==
  ASSUME HeapInv, UpdateRoot
  PROVE  HeapInv' /\ UNCHANGED <<absRoot, absObjs>>
  <1>1. /\ pc = "updroots" /\ k <= NRoots /\ pc' = pc /\ k' = k + 1
        /\ root' = [root EXCEPT ![k] = Updated(root[k])]
        /\ UNCHANGED <<heap, req, g_GC_stress, marked, mark_stack, forwarding, top, new_top, scanned>>
    BY DEF UpdateRoot, compactVars
  <1>2. TypeOK /\ MarkInv /\ k \in 1 .. NRoots /\ NRoots \in Nat /\ k \in Roots
    BY <1>1, RootsAssumption DEF HeapInv, TypeOK, Roots
  <1>3. /\ Arena' /\ PlacesOK' /\ Resettling'
        /\ Survivors' = Survivors /\ Homes' = Homes /\ Unmoved' = DOMAIN heap
        /\ \A a : Home(a)' = Home(a)
    BY <1>1, UpdatingNext
  <1>4. Resettling /\ Survivors = marked /\ marked \subseteq DOMAIN heap /\ Unmoved = DOMAIN heap
    BY <1>1, UpdatingFacts
  <1>5. /\ \A i \in Roots : RootUpdated(i)' <=> i <= k
        /\ \A i \in Roots : RootUpdated(i) <=> i < k
        /\ \A a : ~CellUpdated(a) /\ ~CellUpdated(a)'
        /\ \A i \in Roots : i \in Nat /\ k \in Nat
    BY <1>1, <1>2 DEF RootUpdated, CellUpdated, Roots
  <1>6. /\ \A i \in Roots : Leads(root[i], RootUpdated(i))
        /\ \A a \in marked : \A v \in Fields(heap[a]) : Leads(v, CellUpdated(a))
    BY <1>4 DEF HeapInv, RefsOK
  <1>7. Leads(root[k], FALSE)
    <2>1. ~RootUpdated(k) /\ Leads(root[k], RootUpdated(k))
      BY <1>2, <1>5, <1>6
    <2> QED
      BY <2>1 DEF Leads
  <1>8. root'[k] = Updated(root[k]) /\ \A i \in Roots : i # k => root'[i] = root[i]
    BY <1>1, <1>2 DEF TypeOK
  <1>9. RefsOK'
    <2>1. \A i \in Roots : Leads(root[i], RootUpdated(i))'
      <3> SUFFICES ASSUME NEW i \in Roots PROVE Leads(root[i], RootUpdated(i))'
        OBVIOUS
      <3>1. CASE i = k
        BY <1>3, <1>4, <1>5, <1>7, <1>8, <3>1 DEF Leads, Updated, Homes
      <3>2. CASE i # k
        <4>1. root'[i] = root[i] /\ (RootUpdated(i)' <=> RootUpdated(i))
          BY <1>2, <1>5, <1>8, <3>2
        <4> QED
          BY <1>3, <1>6, <4>1 DEF Leads
      <3> QED
        BY <3>1, <3>2
    <2>2. \A a \in marked : \A v \in Fields(heap[a]) : Leads(v, CellUpdated(a))'
      BY <1>3, <1>5, <1>6 DEF Leads
    <2> QED
      BY <1>1, <1>3, <1>4, <2>1, <2>2 DEF RefsOK
  <1>10. TypeOK'
    <2>1. Updated(root[k]) \in Value
      BY <1>2, <1>4, <1>7 DEF Leads, Updated, Value, TypeOK
    <2> QED
      BY <1>1, <1>2, <2>1 DEF TypeOK, Phases
  <1>11. MarkInv' /\ MarksOK' /\ StateOK' /\ Walk'
    BY <1>1, <1>2, <1>3, <1>4 DEF MarkInv, MarksOK, StateOK, HeapInv, Walk, Passing
  <1>12. HeapInv'
    BY <1>3, <1>9, <1>10, <1>11 DEF HeapInv
  <1>13. absRoot' = absRoot
    <2>1. ASSUME NEW i \in Roots
          PROVE  View(root[i], RootUpdated(i))' = View(root[i], RootUpdated(i))
      <3>1. CASE i = k
        BY <1>1, <1>3, <1>4, <1>5, <1>8, <3>1 DEF View, Updated
      <3>2. CASE i # k
        <4>1. root'[i] = root[i] /\ (RootUpdated(i)' <=> RootUpdated(i))
          BY <1>2, <1>5, <1>8, <3>2
        <4> QED
          BY <1>1, <1>3, <1>4, <4>1 DEF View
      <3> QED
        BY <3>1, <3>2
    <2> QED
      BY <2>1 DEF absRoot
  <1>14. \A a : ViewOf(a)' = ViewOf(a)
    BY <1>1, <1>3, <1>4, <1>5 DEF ViewOf, View
  <1>15. absObjs' = absObjs
    BY <1>3, <1>12, <1>14, SameView
  <1> QED
    BY <1>12, <1>13, <1>15

LEMMA RootsUpdatedKeeps ==
  ASSUME HeapInv, RootsUpdated
  PROVE  HeapInv' /\ UNCHANGED <<absRoot, absObjs>>
  <1>1. /\ pc = "updroots" /\ k > NRoots /\ pc' = "update" /\ k' = 1
        /\ UNCHANGED <<root, heap, req, g_GC_stress, marked, mark_stack, forwarding, top,
                       new_top, scanned>>
    BY DEF RootsUpdated, compactVars
  <1>2. TypeOK /\ MarkInv /\ NRoots \in Nat /\ scanned = Base /\ k \in Nat
    BY <1>1, RootsAssumption DEF HeapInv, TypeOK, Walk
  <1>3. /\ Arena' /\ PlacesOK' /\ Resettling'
        /\ Survivors' = Survivors /\ Homes' = Homes /\ Unmoved' = DOMAIN heap
        /\ \A a : Home(a)' = Home(a)
    BY <1>1, UpdatingNext
  <1>4. /\ Resettling /\ Survivors = marked /\ marked \subseteq DOMAIN heap
        /\ Unmoved = DOMAIN heap
        /\ \A a \in DOMAIN heap : a \in Nat /\ Base <= a
    BY <1>1, UpdatingFacts
  <1>5. \A i \in Roots : RootUpdated(i)' /\ RootUpdated(i)
    BY <1>1, <1>2 DEF RootUpdated, Roots
  <1>6. \A a \in DOMAIN heap : ~CellUpdated(a) /\ ~CellUpdated(a)'
    BY <1>1, <1>2, <1>4, ArenaSize DEF CellUpdated
  <1>7. RefsOK'
    <2>1. /\ \A i \in Roots : Leads(root[i], RootUpdated(i))
          /\ \A a \in marked : \A v \in Fields(heap[a]) : Leads(v, CellUpdated(a))
      BY <1>4 DEF HeapInv, RefsOK
    <2>2. \A i \in Roots : Leads(root[i], RootUpdated(i))'
      BY <1>1, <1>3, <1>5, <2>1 DEF Leads
    <2>3. \A a \in marked : \A v \in Fields(heap[a]) : Leads(v, CellUpdated(a))'
      BY <1>3, <1>4, <1>6, <2>1 DEF Leads
    <2> QED
      BY <1>1, <1>3, <1>4, <2>2, <2>3 DEF RefsOK
  <1>8. TypeOK'
    BY <1>1, <1>2, RootsAssumption DEF TypeOK, Phases
  <1>9. MarkInv' /\ MarksOK' /\ StateOK' /\ Walk'
    BY <1>1, <1>2, <1>3, <1>4 DEF MarkInv, MarksOK, StateOK, HeapInv, Walk, Passing
  <1>10. HeapInv'
    BY <1>3, <1>7, <1>8, <1>9 DEF HeapInv
  <1>11. absRoot' = absRoot
    BY <1>1, <1>3, <1>4, <1>5 DEF absRoot, View
  <1>12. \A a \in marked : ViewOf(a)' = ViewOf(a)
    BY <1>1, <1>3, <1>4, <1>6 DEF ViewOf, View
  <1>13. absObjs' = absObjs
    BY <1>3, <1>4, <1>10, <1>12, SameView
  <1> QED
    BY <1>10, <1>11, <1>13

LEMMA UpdateCellKeeps ==
  ASSUME HeapInv, UpdateCell
  PROVE  HeapInv' /\ UNCHANGED <<absRoot, absObjs>>
  <1> DEFINE s == scanned
             o == heap[s]
  <1>1. /\ pc = "update" /\ s < top /\ pc' = pc /\ scanned' = s + o.size
        /\ heap' = (IF s \in marked THEN [heap EXCEPT ![s] = UpdatedFields(o)] ELSE heap)
        /\ UNCHANGED <<root, req, k, g_GC_stress, marked, mark_stack, forwarding, top, new_top>>
    BY DEF UpdateCell
  <1>2. TypeOK /\ MarkInv
    BY DEF HeapInv
  <1>3. /\ Resettling /\ Survivors = marked /\ marked \subseteq DOMAIN heap
        /\ Unmoved = DOMAIN heap
    BY <1>1, UpdatingFacts
  <1>4. /\ s \in DOMAIN heap /\ o.size \in Nat \ {0} /\ s \in Nat /\ o \in Object
        /\ \A a \in DOMAIN heap : a < s + o.size <=> a < s \/ a = s
        /\ s + o.size \in DOMAIN heap \/ s + o.size = top
    BY <1>1, <1>2, <1>3, Between DEF Passing, TypeOK
  <1>5. /\ \A i \in Roots : Leads(root[i], TRUE)
        /\ \A a \in marked : \A v \in Fields(heap[a]) : Leads(v, CellUpdated(a))
        /\ ~(s < s)
    <2>1. \A i \in Roots : RootUpdated(i) /\ Leads(root[i], RootUpdated(i))
      BY <1>1, <1>3 DEF HeapInv, RefsOK, RootUpdated
    <2>2. \A i \in Roots : Leads(root[i], TRUE)
      BY <2>1 DEF Leads
    <2>3. \A a \in marked : \A v \in Fields(heap[a]) : Leads(v, CellUpdated(a))
      BY <1>3 DEF HeapInv, RefsOK
    <2>4. ~(s < s)
      BY <1>4
    <2> QED
      BY <2>2, <2>3, <2>4
  <1>6. /\ \A a \in DOMAIN heap : CellUpdated(a) <=> a < s
        /\ \A a \in DOMAIN heap : CellUpdated(a)' <=> a < s \/ a = s
        /\ \A i \in Roots : RootUpdated(i) /\ RootUpdated(i)'
    BY <1>1, <1>4 DEF CellUpdated, RootUpdated
  <1>7. \A v \in {o.car, o.cdr} : s \in marked => Leads(v, FALSE)
    <2> SUFFICES ASSUME NEW v \in {o.car, o.cdr}, s \in marked PROVE Leads(v, FALSE)
      OBVIOUS
    <2>1. ~CellUpdated(s) /\ Leads(v, CellUpdated(s))
      BY <1>4, <1>5, <1>6 DEF Fields
    <2> QED
      BY <2>1 DEF Leads
  <1>8. s \in marked =>
          /\ Updated(o.car) \in Value /\ Updated(o.cdr) \in Value
          /\ o.type = "leaf" => Updated(o.car) = IMM /\ Updated(o.cdr) = IMM
    BY <1>2, <1>3, <1>4, <1>7 DEF Leads, Updated, Value, TypeOK, Object, CELL_P
  <1> HIDE DEF s
  <1>9. /\ DOMAIN heap' = DOMAIN heap /\ \A a \in DOMAIN heap : a # s => heap'[a] = heap[a]
        /\ heap'[s] = IF s \in marked THEN UpdatedFields(o) ELSE o
    BY <1>1, <1>4
  <1>10. /\ heap'[s] \in Object /\ heap'[s].size = o.size /\ heap'[s].type = o.type
         /\ s \in marked => heap'[s].car = Updated(o.car) /\ heap'[s].cdr = Updated(o.cdr)
    <2>1. CASE s \in marked
      <3> DEFINE p == UpdatedFields(o)
      <3>1. p = [o EXCEPT !.car = Updated(o.car), !.cdr = Updated(o.cdr)] /\ heap'[s] = p
        BY <1>9, <2>1 DEF UpdatedFields
      <3> HIDE DEF p, o
      <3>2. /\ p.size = o.size /\ p.type = o.type
            /\ p.car = Updated(o.car) /\ p.cdr = Updated(o.cdr)
        BY <1>4, <3>1 DEF Object
      <3>3. p \in Object
        BY <1>4, <1>8, <2>1, <3>1 DEF Object
      <3> QED
        BY <3>1, <3>2, <3>3
    <2>2. CASE s \notin marked
      BY <1>4, <1>9, <2>2
    <2> QED
      BY <2>1, <2>2
  <1> HIDE DEF o
  <1>11. \A a \in DOMAIN heap : heap'[a].size = heap[a].size
    BY <1>9, <1>10 DEF o
  <1>12. /\ Arena' /\ PlacesOK' /\ Resettling'
         /\ Survivors' = Survivors /\ Homes' = Homes /\ Unmoved' = DOMAIN heap
         /\ \A a : Home(a)' = Home(a)
    BY <1>1, <1>9, <1>11, UpdatingNext
  <1>13. RefsOK'
    <2>1. \A i \in Roots : Leads(root[i], RootUpdated(i))'
      BY <1>1, <1>5, <1>6, <1>12 DEF Leads
    <2>2. ASSUME NEW a \in marked, NEW v \in Fields(heap'[a])
          PROVE  Leads(v, CellUpdated(a))'
      <3>1. CASE a = s
        <4>1. v \in {Updated(o.car), Updated(o.cdr)}
          BY <1>10, <2>2, <3>1 DEF Fields
        <4>2. CELL_P(v) => v \in Homes
          BY <1>3, <1>7, <2>2, <3>1, <4>1 DEF Leads, Updated, Homes
        <4>3. CellUpdated(a)'
          BY <1>4, <1>6, <3>1
        <4> QED
          BY <1>12, <4>2, <4>3 DEF Leads
      <3>2. CASE a # s
        <4>1. heap'[a] = heap[a] /\ (CellUpdated(a)' <=> CellUpdated(a))
          BY <1>3, <1>6, <1>9, <3>2
        <4>2. Leads(v, CellUpdated(a))
          BY <1>5, <2>2, <4>1
        <4> QED
          BY <1>12, <4>1, <4>2 DEF Leads
      <3> QED
        BY <3>1, <3>2
    <2> QED
      BY <1>1, <1>3, <1>12, <2>1, <2>2 DEF RefsOK
  <1>14. TypeOK'
    <2>1. heap' \in [DOMAIN heap' -> Object]
      <3>1. \A a \in DOMAIN heap : heap'[a] \in Object
        BY <1>2, <1>9, <1>10 DEF TypeOK
      <3>2. heap' = [a \in DOMAIN heap' |-> heap'[a]]
        BY <1>1, <1>2 DEF TypeOK
      <3> QED
        BY <1>9, <3>1, <3>2
    <2>2. scanned' \in Nat
      BY <1>1, <1>4
    <2> QED
      BY <1>1, <1>2, <1>9, <2>1, <2>2 DEF TypeOK, Phases
  <1>15. Walk'
    <2>1. Base <= s + o.size
      BY <1>1, <1>4, ArenaSize DEF HeapInv, Walk, Passing, s
    <2> QED
      BY <1>1, <1>4, <1>12, <2>1 DEF Walk
  <1>16. MarkInv' /\ MarksOK' /\ StateOK'
    BY <1>1, <1>2, <1>9 DEF MarkInv, MarksOK, StateOK, HeapInv
  <1>17. HeapInv'
    BY <1>12, <1>13, <1>14, <1>15, <1>16 DEF HeapInv
  <1>18. absRoot' = absRoot
    BY <1>1, <1>6 DEF absRoot, View
  <1>19. \A a \in marked : ViewOf(a)' = ViewOf(a)
    <2> SUFFICES ASSUME NEW a \in marked PROVE ViewOf(a)' = ViewOf(a)
      OBVIOUS
    <2>1. CASE a = s
      <3>1. CellUpdated(a)' /\ ~CellUpdated(a)
        BY <1>4, <1>5, <1>6, <2>1 DEF s
      <3>2. /\ heap'[a].car = Updated(heap[a].car) /\ heap'[a].cdr = Updated(heap[a].cdr)
            /\ heap'[a].type = heap[a].type
        BY <1>10, <2>1 DEF o
      <3> QED
        BY <1>3, <1>12, <3>1, <3>2 DEF ViewOf, View, Updated
    <2>2. CASE a # s
      <3>1. heap'[a] = heap[a] /\ (CellUpdated(a)' <=> CellUpdated(a))
        BY <1>3, <1>6, <1>9, <2>2
      <3> QED
        BY <1>1, <1>3, <1>12, <3>1 DEF ViewOf, View
    <2> QED
      BY <2>1, <2>2
  <1>20. absObjs' = absObjs
    BY <1>3, <1>12, <1>17, <1>19, SameView
  <1> QED
    BY <1>17, <1>18, <1>20

-----------------------------------------------------------------------------
(* slide *)

LEMMA SlideFacts ==
  ASSUME HeapInv, pc = "slide"
  PROVE  /\ Resettling
         /\ Survivors = marked \cup {a \in DOMAIN heap : a < scanned}
         /\ Unmoved = {a \in DOMAIN heap : ~(a < scanned)}
         /\ Packs(heap, Unmoved, scanned, top)
         /\ Laid(heap, forwarding, Survivors, new_top)
         /\ \A a \in DOMAIN heap : a < scanned => forwarding[a] = a
         /\ marked \subseteq Unmoved
         /\ \A i \in Roots : Leads(root[i], TRUE)
         /\ \A a \in Survivors : \A v \in Fields(heap[a]) : Leads(v, TRUE)
  <1>1. Resettling /\ \A a : CellMoved(a) <=> a < scanned
    BY DEF Resettling, CellMoved
  <1>2. /\ Survivors = marked \cup {a \in DOMAIN heap : a < scanned}
        /\ Unmoved = {a \in DOMAIN heap : ~(a < scanned)}
    BY <1>1 DEF Survivors, Unmoved
  <1>3. (\A i \in Roots : RootUpdated(i)) /\ (\A a : CellUpdated(a))
    BY DEF RootUpdated, CellUpdated
  <1>4. /\ \A i \in Roots : Leads(root[i], TRUE)
        /\ \A a \in Survivors : \A v \in Fields(heap[a]) : Leads(v, TRUE)
    BY <1>1, <1>3 DEF HeapInv, RefsOK, Leads
  <1> QED
    BY <1>1, <1>2, <1>4 DEF HeapInv, PlacesOK, MarksOK, Arena, Low

\* While cells slide references are not touched.
LEMMA SlideView ==
  /\ pc = "slide" => \A a : ViewOf(a) = [type |-> heap[a].type, car |-> heap[a].car,
                                         cdr |-> heap[a].cdr]
  /\ ~Resettling => \A a : ViewOf(a) = [type |-> heap[a].type, car |-> heap[a].car,
                                        cdr |-> heap[a].cdr]
  /\ pc = "slide" \/ ~Resettling => absRoot = [i \in Roots |-> root[i]]
  BY DEF ViewOf, View, CellUpdated, RootUpdated, absRoot

LEMMA SlideStartKeeps ==
  ASSUME HeapInv, SlideStart
  PROVE  HeapInv' /\ UNCHANGED <<absRoot, absObjs>>
  <1>1. /\ pc = "update" /\ scanned >= top /\ pc' = "slide" /\ scanned' = Base
        /\ UNCHANGED <<root, heap, req, k, g_GC_stress, marked, mark_stack, forwarding, top, new_top>>
    BY DEF SlideStart
  <1>2. TypeOK /\ MarkInv /\ Arena
    BY DEF HeapInv
  <1>3. /\ Resettling /\ Survivors = marked /\ marked \subseteq DOMAIN heap
        /\ Unmoved = DOMAIN heap /\ Packs(heap, DOMAIN heap, Base, top)
        /\ \A a : Home(a) = forwarding[a]
        /\ \A a \in DOMAIN heap : a \in Nat /\ Base <= a /\ a < top
    BY <1>1, UpdatingFacts
  <1>4. \A a \in DOMAIN heap : CellUpdated(a) /\ ~CellMoved(a)' /\ ~(a < Base)
    <2> SUFFICES ASSUME NEW a \in DOMAIN heap
                 PROVE  CellUpdated(a) /\ ~CellMoved(a)' /\ ~(a < Base)
      OBVIOUS
    <2>1. a \in Nat /\ Base <= a /\ a < top /\ scanned \in Nat /\ top \in Nat
      BY <1>2, <1>3 DEF TypeOK
    <2> QED
      BY <1>1, <2>1, ArenaSize DEF CellUpdated, CellMoved
  <1>5. Resettling' /\ Survivors' = marked /\ Unmoved' = DOMAIN heap /\ Low' = Base
    BY <1>1, <1>3, <1>4 DEF Resettling, Survivors, Unmoved, Low, CellMoved
  <1>6. \A a \in DOMAIN heap : Home(a)' = forwarding[a]
    BY <1>1, <1>4, <1>5 DEF Home
  <1>7. Arena'
    BY <1>1, <1>2, <1>3, <1>5 DEF Arena
  <1>8. Base = top \/ Base \in DOMAIN heap
    BY <1>2, <1>3, ArenaSize, FirstCell DEF TypeOK, Arena
  <1>9. Walk'
    BY <1>1, <1>5, <1>8, ArenaSize DEF Walk
  <1>10. PlacesOK'
    BY <1>1, <1>3, <1>4, <1>5 DEF PlacesOK, HeapInv
  <1>11. Homes' = Homes
    BY <1>1, <1>3, <1>5 DEF Homes
  <1>12. (\A i \in Roots : RootUpdated(i) /\ RootUpdated(i)') /\ (\A a : CellUpdated(a)')
    BY <1>1 DEF RootUpdated, CellUpdated
  <1>13. RefsOK'
    <2>1. /\ \A i \in Roots : Leads(root[i], RootUpdated(i))
          /\ \A a \in marked : \A v \in Fields(heap[a]) : Leads(v, CellUpdated(a))
      BY <1>3 DEF HeapInv, RefsOK
    <2>2. \A i \in Roots : Leads(root[i], RootUpdated(i))'
      BY <1>1, <1>11, <1>12, <2>1 DEF Leads
    <2>3. \A a \in marked : \A v \in Fields(heap[a]) : Leads(v, CellUpdated(a))'
      BY <1>3, <1>4, <1>11, <1>12, <2>1 DEF Leads
    <2> QED
      BY <1>1, <1>5, <2>2, <2>3 DEF RefsOK
  <1>14. TypeOK'
    BY <1>1, <1>2, ArenaSize DEF TypeOK, Phases
  <1>15. MarkInv' /\ MarksOK' /\ StateOK'
    BY <1>1, <1>2, <1>3, <1>5 DEF MarkInv, MarksOK, StateOK, HeapInv
  <1>16. HeapInv'
    BY <1>7, <1>9, <1>10, <1>13, <1>14, <1>15 DEF HeapInv
  <1>17. absRoot' = absRoot
    BY <1>1, <1>12 DEF absRoot, View
  <1>18. \A a \in marked : ViewOf(a)' = ViewOf(a) /\ Home(a)' = Home(a)
    BY <1>1, <1>3, <1>4, <1>6, <1>12 DEF ViewOf, View
  <1>19. absObjs' = absObjs
    BY <1>3, <1>5, <1>16, <1>18, SameView
  <1> QED
    BY <1>16, <1>17, <1>19

\* The dead cell at the scan leaves a gap.
LEMMA SlideDeadKeeps ==
  ASSUME HeapInv, SlideDead
  PROVE  HeapInv' /\ UNCHANGED <<absRoot, absObjs>>
  <1> DEFINE s == scanned
             n == heap[s].size
             D == DOMAIN heap \ {s}
  <1>1. /\ pc = "slide" /\ s < top /\ s \notin marked /\ pc' = "slide" /\ scanned' = s + n
        /\ heap' = [x \in D |-> heap[x]]
        /\ forwarding' = [x \in DOMAIN heap' |-> forwarding[x]]
        /\ UNCHANGED <<root, req, k, g_GC_stress, marked, mark_stack, top, new_top>>
    BY DEF SlideDead, Without
  <1>2. TypeOK /\ Arena /\ Passing /\ DOMAIN heap \subseteq Nat
    BY <1>1 DEF HeapInv, Passing, TypeOK
  <1>3. /\ Resettling
        /\ Survivors = marked \cup {a \in DOMAIN heap : a < s}
        /\ Unmoved = {a \in DOMAIN heap : ~(a < s)}
        /\ Packs(heap, Unmoved, s, top)
        /\ Laid(heap, forwarding, Survivors, new_top)
        /\ \A a \in DOMAIN heap : a < s => forwarding[a] = a
        /\ marked \subseteq Unmoved
        /\ \A i \in Roots : Leads(root[i], TRUE)
        /\ \A a \in Survivors : \A v \in Fields(heap[a]) : Leads(v, TRUE)
    BY <1>1, SlideFacts
  <1>4. /\ s \in Unmoved /\ s \in DOMAIN heap /\ n \in Nat \ {0} /\ n % 4 = 0 /\ s \in Nat
        /\ \A a \in Unmoved : a < s + n <=> a < s \/ a = s
        /\ s + n \in Unmoved \/ s + n = top
    BY <1>1, <1>2, Between
  <1> HIDE DEF s, n
  <1>5. /\ Packs(heap, Unmoved \ {s}, s + n, top)
        /\ Unmoved \ {s} = {a \in Unmoved : ~(a < s + n)}
    <2>1. /\ Unmoved \in SUBSET Nat /\ top \in Nat
          /\ \A a \in Unmoved : heap[a].size \in Nat \ {0}
      BY <1>2, <1>3 DEF TypeOK, Arena
    <2> QED
      BY <1>3, <1>4, <2>1, PacksLess DEF n
  <1>6. \A a \in DOMAIN heap : a < s => a < s + n /\ a # s
    BY <1>2, <1>4
  <1>7. Resettling' /\ (\A a : CellMoved(a)' <=> a < s + n)
    BY <1>1 DEF Resettling, CellMoved
  <1>8. /\ DOMAIN heap' = D /\ \A a \in D : heap'[a] = heap[a] /\ forwarding'[a] = forwarding[a]
    BY <1>1
  <1>9. Survivors \subseteq D
    BY <1>1, <1>2, <1>3, <1>6 DEF TypeOK
  <1>10. {a \in D : a < s + n} = {a \in DOMAIN heap : a < s}
    BY <1>2, <1>3, <1>4, <1>6
  <1>11. Survivors' = Survivors
    BY <1>1, <1>3, <1>7, <1>8, <1>10 DEF Survivors
  <1>12. Unmoved' = Unmoved \ {s} /\ Low' = s + n
    <2>1. {a \in D : ~(a < s + n)} = Unmoved \ {s}
      BY <1>3, <1>5, <1>6
    <2> QED
      BY <1>1, <1>7, <1>8, <2>1 DEF Unmoved, Low
  <1> HIDE DEF D
  <1>13. Arena'
    <2>1. Packs(heap', Unmoved \ {s}, s + n, top)
      BY <1>3, <1>5, <1>8, PacksSame DEF D
    <2> QED
      BY <1>1, <1>2, <1>8, <1>12, <2>1 DEF Arena, D
  <1>14. Walk'
    <2>1. s + n \in Unmoved => s + n \in Unmoved'
      BY <1>4, <1>12
    <2>2. Base <= s + n
      BY <1>2, <1>4, ArenaSize DEF HeapInv, Walk, s
    <2> QED
      BY <1>1, <1>4, <2>1, <2>2 DEF Walk
  <1>15. PlacesOK'
    <2>1. Laid(heap', forwarding', Survivors, new_top)
      BY <1>3, <1>8, <1>9 DEF Laid
    <2>2. \A a \in D : a < s + n => forwarding'[a] = a
      BY <1>3, <1>8, <1>10
    <2> QED
      BY <1>1, <1>3, <1>7, <1>8, <1>11, <2>1, <2>2 DEF PlacesOK, HeapInv
  <1>16. Homes' = Homes
    BY <1>8, <1>9, <1>11 DEF Homes
  <1>17. RefsOK'
    BY <1>1, <1>3, <1>7, <1>8, <1>9, <1>11, <1>16 DEF RefsOK, Leads, RootUpdated, CellUpdated
  <1>18. mark_stack = <<>>
    BY <1>1 DEF HeapInv, MarksOK
  <1>19. TypeOK'
    <2>1. heap' \in [D -> Object] /\ forwarding' \in [D -> Nat]
      BY <1>1, <1>2, <1>8 DEF TypeOK, D
    <2>2. scanned' \in Nat /\ mark_stack' \in Seq(D) /\ marked' \subseteq D /\ D \subseteq Nat
      BY <1>1, <1>2, <1>3, <1>4, <1>9, <1>18 DEF D
    <2> QED
      BY <1>1, <1>2, <1>8, <2>1, <2>2 DEF TypeOK, Phases
  <1>20. MarkInv' /\ MarksOK' /\ StateOK'
    BY <1>1, <1>3, <1>12, <1>18, <1>19 DEF MarkInv, TypeOK, MarksOK, StateOK, HeapInv
  <1>21. HeapInv'
    BY <1>13, <1>14, <1>15, <1>17, <1>19, <1>20 DEF HeapInv
  <1>22. \A a \in Survivors : Home(a)' = Home(a)
    BY <1>3, <1>7, <1>8, <1>9, <1>11, <1>21, SurvivorFacts DEF Home, PlacesOK, HeapInv
  <1>23. SlideView'
    BY SlideView, PTL
  <1>24. ASSUME NEW a \in Survivors PROVE ViewOf(a)' = ViewOf(a)
    <2>1. heap'[a] = heap[a]
      BY <1>8, <1>9
    <2>2. ViewOf(a) = [type |-> heap[a].type, car |-> heap[a].car, cdr |-> heap[a].cdr]
      BY <1>1, SlideView
    <2>3. ViewOf(a)' = [type |-> heap'[a].type, car |-> heap'[a].car, cdr |-> heap'[a].cdr]
      BY <1>1, <1>23
    <2> QED
      BY <2>1, <2>2, <2>3
  <1>25. absRoot' = absRoot
    BY <1>1, <1>23, SlideView
  <1>26. absObjs' = absObjs
    BY <1>11, <1>21, <1>22, <1>24, SameView
  <1> QED
    BY <1>21, <1>25, <1>26

\* A cell that has slid is in the place it was given.
LEMMA LaidMoved ==
  ASSUME NEW h, NEW g, NEW f, NEW e, NEW S \in SUBSET Nat, NEW n \in Nat, Laid(h, f, S, n),
         NEW s \in S, NEW d \in Nat, f[s] = d,
         \A x \in S \ {s} : x < s => x < d,
         \A x \in S \ {s} : g[x].size = h[x].size /\ e[x] = f[x],
         g[d].size = h[s].size, e[d] = d
  PROVE  Laid(g, e, (S \ {s}) \cup {d}, n)
  <1> DEFINE R == S \ {s}
             T == R \cup {d}
  <1>1. Base <= d /\ d <= s /\ d + h[s].size <= n /\ s \in Nat
    BY DEF Laid
  <1>2. \A x \in R : x \in S /\ x \in Nat /\ x # s /\ (x < d \/ s < x)
    OBVIOUS
  <1>3. d \notin R
    BY <1>1, <1>2
  <1>4. ASSUME NEW x \in T
        PROVE  Base <= e[x] /\ e[x] <= x /\ e[x] + g[x].size <= n
    <2>1. CASE x \in R
      <3>1. g[x].size = h[x].size /\ e[x] = f[x] /\ x \in S
        BY <2>1
      <3> QED
        BY <3>1 DEF Laid
    <2>2. CASE x = d
      BY <1>1, <2>2
    <2> QED
      BY <2>1, <2>2
  <1>5. ASSUME NEW x \in T, NEW y \in T, x < y
        PROVE  e[x] + g[x].size <= e[y]
    <2>1. CASE x \in R /\ y \in R
      <3>1. g[x].size = h[x].size /\ e[x] = f[x] /\ e[y] = f[y] /\ x \in S /\ y \in S
        BY <2>1
      <3> QED
        BY <1>5, <3>1 DEF Laid
    <2>2. CASE x \in R /\ y = d
      <3>1. g[x].size = h[x].size /\ e[x] = f[x] /\ e[y] = f[s] /\ x \in S /\ x \in Nat
        BY <2>2
      <3>2. x < s
        BY <1>1, <1>5, <2>2, <3>1
      <3> QED
        BY <3>1, <3>2 DEF Laid
    <2>3. CASE x = d /\ y \in R
      <3>1. g[x].size = h[s].size /\ e[x] = f[s] /\ e[y] = f[y] /\ y \in S /\ y \in Nat
        BY <2>3
      <3>2. s < y
        BY <1>2, <1>5, <2>3, <3>1
      <3> QED
        BY <3>1, <3>2 DEF Laid
    <2> QED
      BY <1>1, <1>5, <2>1, <2>2, <2>3
  <1>6. ASSUME NEW x \in Base .. (n - 1)
        PROVE  \E a \in T : e[a] <= x /\ x < e[a] + g[a].size
    <2>1. PICK a \in S : f[a] <= x /\ x < f[a] + h[a].size
      BY DEF Laid
    <2>2. CASE a = s
      BY <2>1, <2>2
    <2>3. CASE a \in R
      BY <2>1, <2>3
    <2> QED
      BY <2>2, <2>3
  <1> HIDE DEF T
  <1>7. Laid(g, e, T, n)
    BY <1>4, <1>5, <1>6 DEF Laid
  <1> QED
    BY <1>7 DEF T

\* The place a marked cell slides to is clear of the cells that have slid and
\* of those that have not, but for the cell itself.
LEMMA PlaceIsFree ==
  ASSUME HeapInv, pc = "slide", scanned < top, scanned \in marked
  PROVE  LET s == scanned
             n == heap[s].size
             d == forwarding[s]
         IN  /\ s \in Survivors /\ d \in Nat /\ Base <= d /\ d <= s /\ d + n <= new_top
             /\ \A x \in DOMAIN heap \ {s} : x + heap[x].size <= d \/ s + n <= x
             /\ \A x \in DOMAIN heap \ {s} : x < s => x < d
             /\ d \notin DOMAIN heap \ {s}
  <1> DEFINE s == scanned
             n == heap[s].size
             d == forwarding[s]
  <1>1. /\ Survivors = marked \cup {a \in DOMAIN heap : a < s}
        /\ Unmoved = {a \in DOMAIN heap : ~(a < s)}
        /\ Packs(heap, Unmoved, s, top)
        /\ Laid(heap, forwarding, Survivors, new_top)
        /\ \A a \in DOMAIN heap : a < s => forwarding[a] = a
        /\ marked \subseteq Unmoved
    BY SlideFacts
  <1>2. TypeOK /\ Passing
    BY DEF HeapInv, Passing
  <1>3. s \in Unmoved /\ s \in DOMAIN heap /\ n \in Nat \ {0} /\ s \in Nat
    BY <1>2, Between
  <1>4. /\ s \in Survivors /\ d \in Nat /\ Base <= d /\ d <= s /\ d + n <= new_top
    <2>1. s \in Survivors /\ d \in Nat
      BY <1>1, <1>2, <1>3 DEF TypeOK
    <2>2. Base <= d /\ d <= s /\ d + n <= new_top
      BY <1>1, <2>1 DEF Laid
    <2> QED
      BY <2>1, <2>2
  <1>5. ASSUME NEW x \in DOMAIN heap \ {s}
        PROVE  /\ x + heap[x].size <= d \/ s + n <= x
               /\ x < s => x < d
               /\ x # d
    <2>1. x \in Nat /\ heap[x].size \in Nat /\ heap[x].size > 0 /\ x # s
      <3>1. x \in Nat /\ heap[x].size \in Nat \ {0}
        BY <1>2 DEF TypeOK, HeapInv, Arena
      <3> QED
        BY <3>1
    <2>2. CASE x < s
      <3>1. x \in Survivors /\ forwarding[x] = x
        BY <1>1, <2>2
      <3>2. forwarding[x] + heap[x].size <= forwarding[s]
        BY <1>1, <1>4, <2>2, <3>1 DEF Laid
      <3>3. x + heap[x].size <= d
        BY <3>1, <3>2
      <3> HIDE DEF d, s
      <3> QED
        BY <1>4, <2>1, <2>2, <3>3
    <2>3. CASE ~(x < s)
      <3>1. x \in Unmoved /\ s < x
        BY <1>1, <1>3, <2>1, <2>3
      <3>2. s + n <= x
        BY <1>1, <1>3, <3>1 DEF Packs
      <3> HIDE DEF d, s
      <3> QED
        BY <1>3, <1>4, <2>1, <2>3, <3>1, <3>2
    <2> QED
      BY <2>2, <2>3
  <1> HIDE DEF s, n, d
  <1>6. /\ s \in Survivors /\ d \in Nat /\ Base <= d /\ d <= s /\ d + n <= new_top
        /\ \A x \in DOMAIN heap \ {s} : x + heap[x].size <= d \/ s + n <= x
        /\ \A x \in DOMAIN heap \ {s} : x < s => x < d
        /\ d \notin DOMAIN heap \ {s}
    BY <1>4, <1>5
  <1> QED
    BY <1>6 DEF s, n, d

\* What a move leaves: the other cells, and the cell at its place.
LEMMA MoveFacts ==
  ASSUME HeapInv, SlideCell
  PROVE  LET s == scanned
             d == forwarding[scanned]
             D == DOMAIN heap \ {scanned}
         IN  /\ DOMAIN heap' = D \cup {d} /\ DOMAIN forwarding' = D \cup {d}
             /\ heap' = [x \in DOMAIN heap' |-> heap'[x]]
             /\ forwarding' = [x \in DOMAIN forwarding' |-> forwarding'[x]]
             /\ \A x \in D : heap'[x] = heap[x] /\ forwarding'[x] = forwarding[x]
             /\ heap'[d] = heap[s] /\ forwarding'[d] = d
             /\ d \notin D
  <1> DEFINE s == scanned
             n == heap[s].size
             d == forwarding[s]
             D == DOMAIN heap \ {s}
             kept == {x \in D : x + heap[x].size <= d \/ d + n <= x}
  <1>1. /\ pc = "slide" /\ s < top /\ s \in marked
        /\ heap' = Overwrite(Without(s), d, heap[s])
        /\ forwarding' = [x \in DOMAIN heap' |-> IF x = d THEN d ELSE forwarding[x]]
    BY DEF SlideCell
  <1>2. heap' = [x \in kept \cup {d} |-> IF x = d THEN heap[s] ELSE heap[x]]
    BY <1>1 DEF Overwrite, Without
  <1>3. /\ d \in Nat /\ d <= s
        /\ \A x \in D : x + heap[x].size <= d \/ s + n <= x
        /\ d \notin D
    BY <1>1, PlaceIsFree
  <1>4. ASSUME NEW x \in D
        PROVE  x + heap[x].size <= d \/ d + n <= x
    <2>1. x \in Nat /\ s \in Nat /\ n \in Nat
      BY <1>1 DEF HeapInv, TypeOK, Arena
    <2>2. x + heap[x].size <= d \/ s + n <= x
      BY <1>3
    <2>3. s + n <= x => d + n <= x
      <3> HIDE DEF d, s, n
      <3> QED
        BY <1>3, <2>1
    <2> QED
      BY <2>2, <2>3
  <1>5. kept = D
    BY <1>4
  <1> HIDE DEF kept
  <1>6. /\ DOMAIN heap' = D \cup {d} /\ DOMAIN forwarding' = D \cup {d}
        /\ heap' = [x \in DOMAIN heap' |-> heap'[x]]
        /\ forwarding' = [x \in DOMAIN forwarding' |-> forwarding'[x]]
    BY <1>1, <1>2, <1>5
  <1>7. /\ heap'[d] = heap[s] /\ forwarding'[d] = d
        /\ \A x \in D : heap'[x] = heap[x] /\ forwarding'[x] = forwarding[x]
    BY <1>1, <1>2, <1>3, <1>5
  <1> QED
    BY <1>3, <1>6, <1>7

LEMMA SlideCellKeeps ==
  ASSUME HeapInv, SlideCell
  PROVE  HeapInv' /\ UNCHANGED <<absRoot, absObjs>>
  <1> DEFINE s == scanned
             n == heap[s].size
             d == forwarding[s]
             D == DOMAIN heap \ {s}
             R == Survivors \ {s}
  <1>1. /\ pc = "slide" /\ s < top /\ s \in marked /\ pc' = "slide" /\ scanned' = s + n
        /\ marked' = marked \ {s}
        /\ UNCHANGED <<root, req, k, g_GC_stress, mark_stack, top, new_top>>
    BY DEF SlideCell
  <1>2. TypeOK /\ Arena /\ Passing /\ DOMAIN heap \subseteq Nat
    BY <1>1 DEF HeapInv, Passing, TypeOK
  <1>3. /\ Resettling
        /\ Survivors = marked \cup {a \in DOMAIN heap : a < s}
        /\ Unmoved = {a \in DOMAIN heap : ~(a < s)}
        /\ Packs(heap, Unmoved, s, top)
        /\ Laid(heap, forwarding, Survivors, new_top)
        /\ \A a \in DOMAIN heap : a < s => forwarding[a] = a
        /\ marked \subseteq Unmoved
        /\ \A i \in Roots : Leads(root[i], TRUE)
        /\ \A a \in Survivors : \A v \in Fields(heap[a]) : Leads(v, TRUE)
    BY <1>1, SlideFacts
  <1>4. /\ s \in Unmoved /\ s \in DOMAIN heap /\ n \in Nat \ {0} /\ n % 4 = 0 /\ s \in Nat
        /\ \A a \in Unmoved : a < s + n <=> a < s \/ a = s
        /\ s + n \in Unmoved \/ s + n = top
    BY <1>1, <1>2, Between
  <1>5. /\ s \in Survivors /\ d \in Nat /\ Base <= d /\ d <= s /\ d + n <= new_top
        /\ \A x \in D : x < s => x < d
        /\ d \notin D
    BY <1>1, PlaceIsFree
  <1>6. /\ DOMAIN heap' = D \cup {d} /\ DOMAIN forwarding' = D \cup {d}
        /\ heap' = [x \in DOMAIN heap' |-> heap'[x]]
        /\ forwarding' = [x \in DOMAIN forwarding' |-> forwarding'[x]]
        /\ \A x \in D : heap'[x] = heap[x] /\ forwarding'[x] = forwarding[x]
        /\ heap'[d] = heap[s] /\ forwarding'[d] = d
    BY MoveFacts
  <1> HIDE DEF s, n, d
  <1>7. /\ Packs(heap, Unmoved \ {s}, s + n, top)
        /\ Unmoved \ {s} = {a \in Unmoved : ~(a < s + n)}
    <2>1. /\ Unmoved \in SUBSET Nat /\ top \in Nat
          /\ \A a \in Unmoved : heap[a].size \in Nat \ {0}
      BY <1>2, <1>3 DEF TypeOK, Arena
    <2> QED
      BY <1>3, <1>4, <2>1, PacksLess DEF n
  <1>8. Resettling' /\ (\A a : CellMoved(a)' <=> a < s + n)
    BY <1>1 DEF Resettling, CellMoved
  <1>9. /\ \A a \in DOMAIN heap : a < s => a < s + n /\ a # s
        /\ d < s + n
    BY <1>2, <1>4, <1>5
  <1>10. Survivors \subseteq DOMAIN heap /\ R \subseteq D
    BY <1>2, <1>3 DEF TypeOK
  <1>11. {a \in D \cup {d} : a < s + n} = {a \in DOMAIN heap : a < s} \cup {d}
    <2>1. \A a \in D : a < s + n <=> a < s
      BY <1>2, <1>3, <1>4, <1>9
    <2>2. \A a \in DOMAIN heap : a < s => a \in D
      BY <1>9
    <2> QED
      BY <1>9, <2>1, <2>2
  <1>12. Survivors' = R \cup {d}
    <2>1. Survivors' = marked' \cup {a \in D \cup {d} : a < s + n}
      BY <1>6, <1>8 DEF Survivors
    <2>2. s \notin {a \in DOMAIN heap : a < s}
      BY <1>9
    <2> QED
      BY <1>1, <1>3, <1>11, <2>1, <2>2
  <1>13. Unmoved' = Unmoved \ {s} /\ Low' = s + n
    <2>1. Unmoved' = {a \in D \cup {d} : ~(a < s + n)}
      BY <1>6, <1>8 DEF Unmoved
    <2>2. {a \in D \cup {d} : ~(a < s + n)} = Unmoved \ {s}
      BY <1>3, <1>7, <1>9
    <2> QED
      BY <1>1, <2>1, <2>2 DEF Low
  <1>14. Unmoved \ {s} \subseteq D
    BY <1>3
  <1> HIDE DEF D, R
  <1>15. \A a \in DOMAIN heap' : heap'[a].size \in Nat \ {0} /\ heap'[a].size % 4 = 0
    <2>1. \A a \in D : heap[a].size \in Nat \ {0} /\ heap[a].size % 4 = 0
      BY <1>2 DEF Arena, D
    <2> QED
      BY <1>4, <1>6, <2>1 DEF n
  <1>16. Arena'
    <2>1. Packs(heap', Unmoved \ {s}, s + n, top)
      BY <1>6, <1>7, <1>14, PacksSame
    <2> QED
      BY <1>1, <1>2, <1>13, <1>15, <2>1 DEF Arena
  <1>17. Walk'
    <2>1. s + n \in Unmoved => s + n \in Unmoved'
      BY <1>4, <1>13
    <2>2. Base <= s + n
      BY <1>4, <1>5, <1>9, ArenaSize
    <2> QED
      BY <1>1, <1>4, <2>1, <2>2 DEF Walk
  <1>18. Laid(heap', forwarding', R \cup {d}, new_top)
    <2>1. Survivors \in SUBSET Nat /\ new_top \in Nat
      BY <1>2, <1>10 DEF TypeOK
    <2>2. \A x \in R : /\ x < s => x < d
                       /\ heap'[x].size = heap[x].size /\ forwarding'[x] = forwarding[x]
      BY <1>5, <1>6, <1>10
    <2>3. heap'[d].size = heap[s].size /\ forwarding'[d] = d /\ forwarding[s] = d
      BY <1>6 DEF d
    <2> QED
      BY <1>3, <1>5, <2>1, <2>2, <2>3, LaidMoved DEF R
  <1>19. PlacesOK'
    <2>1. \A a \in D : a < s + n => forwarding'[a] = a
      BY <1>3, <1>4, <1>6, <1>9 DEF D
    <2> QED
      BY <1>1, <1>3, <1>6, <1>8, <1>12, <1>18, <2>1 DEF PlacesOK, HeapInv
  <1>20. Homes' = Homes
    <2>1. Homes' = {forwarding'[a] : a \in R \cup {d}}
      BY <1>12 DEF Homes
    <2>2. \A a \in R : forwarding'[a] = forwarding[a]
      BY <1>6, <1>10
    <2>3. Homes = {forwarding[a] : a \in R} \cup {d}
      BY <1>5 DEF Homes, R, d
    <2> QED
      BY <1>6, <2>1, <2>2, <2>3
  <1>21. RefsOK'
    <2>1. \A i \in Roots : Leads(root[i], RootUpdated(i))'
      BY <1>1, <1>3, <1>20 DEF Leads, RootUpdated
    <2>2. ASSUME NEW a \in R \cup {d}, NEW v \in Fields(heap'[a])
          PROVE  Leads(v, CellUpdated(a))'
      <3>1. \E b \in Survivors : v \in Fields(heap[b])
        BY <1>5, <1>6, <1>10, <2>2 DEF R
      <3>2. Leads(v, TRUE)
        BY <1>3, <3>1
      <3> QED
        BY <1>1, <1>20, <3>2 DEF Leads, CellUpdated
    <2> QED
      BY <1>8, <1>12, <2>1, <2>2 DEF RefsOK
  <1>22. mark_stack = <<>>
    BY <1>1 DEF HeapInv, MarksOK
  <1>23. TypeOK'
    <2>1. \A a \in D \cup {d} : heap'[a] \in Object /\ forwarding'[a] \in Nat /\ a \in Nat
      <3>1. \A a \in D : heap[a] \in Object /\ forwarding[a] \in Nat /\ a \in Nat
        BY <1>2 DEF TypeOK, D
      <3>2. heap[s] \in Object
        BY <1>2, <1>4 DEF TypeOK
      <3> QED
        BY <1>5, <1>6, <3>1, <3>2
    <2>2. heap' \in [DOMAIN heap' -> Object] /\ forwarding' \in [DOMAIN heap' -> Nat]
      BY <1>6, <2>1
    <2>3. scanned' \in Nat /\ mark_stack' \in Seq(DOMAIN heap') /\ DOMAIN heap' \subseteq Nat
      BY <1>1, <1>4, <1>6, <1>22, <2>1
    <2>4. marked' \subseteq DOMAIN heap'
      BY <1>1, <1>2, <1>6 DEF TypeOK, D
    <2> QED
      BY <1>1, <1>2, <2>2, <2>3, <2>4 DEF TypeOK, Phases
  <1>24. MarkInv' /\ MarksOK' /\ StateOK'
    BY <1>1, <1>3, <1>13, <1>22, <1>23 DEF MarkInv, TypeOK, MarksOK, StateOK, HeapInv
  <1>25. HeapInv'
    BY <1>16, <1>17, <1>19, <1>21, <1>23, <1>24 DEF HeapInv
  <1>26. \A a \in Survivors : Home(a) = forwarding[a]
    BY <1>3, SurvivorFacts
  <1>27. \A a \in Survivors' : Home(a)' = forwarding'[a]
    <2>1. (/\ Survivors \subseteq DOMAIN heap /\ DOMAIN heap \subseteq Nat
           /\ \A a \in Survivors : /\ Home(a) = IF Resettling THEN forwarding[a] ELSE a
                                   /\ forwarding[a] \in Nat
                                   /\ heap[a].size \in Nat \ {0})'
      BY <1>25, SurvivorFacts, PTL
    <2> QED
      BY <1>8, <2>1
  <1>28. SlideView'
    BY SlideView, PTL
  <1>29. absRoot' = absRoot
    BY <1>1, <1>28, SlideView
  <1>30. \A a \in R : Home(a)' = Home(a) /\ ViewOf(a)' = ViewOf(a)
    BY <1>1, <1>6, <1>10, <1>12, <1>26, <1>27, <1>28, SlideView DEF R
  <1>31. ASSUME NEW c, c = d
         PROVE  Home(c)' = Home(s) /\ ViewOf(c)' = ViewOf(s)
    BY <1>1, <1>5, <1>6, <1>12, <1>26, <1>27, <1>28, <1>31, SlideView DEF d
  <1>32. absObjs' = absObjs
    <2>1. \A b \in Survivors' : \E a \in Survivors : Home(b)' = Home(a) /\ ViewOf(b)' = ViewOf(a)
      BY <1>5, <1>12, <1>30, <1>31 DEF R
    <2>2. \A a \in Survivors : \E b \in Survivors' : Home(b)' = Home(a)
      BY <1>12, <1>30, <1>31 DEF R
    <2> QED
      BY <1>25, <2>1, <2>2, SameView
  <1> QED
    BY <1>25, <1>29, <1>32

\* When all have slid, every cell is at home and the rest of the arena is free.
LEMMA SlideEndFacts ==
  ASSUME HeapInv, pc = "slide", scanned >= top
  PROVE  /\ Unmoved = {} /\ marked = {} /\ Survivors = DOMAIN heap /\ Homes = DOMAIN heap
         /\ \A a \in DOMAIN heap : Home(a) = a
         /\ Packs(heap, DOMAIN heap, Base, new_top)
         /\ ClosedFromRoots(DOMAIN heap)
  <1>1. /\ Resettling
        /\ Survivors = marked \cup {a \in DOMAIN heap : a < scanned}
        /\ Unmoved = {a \in DOMAIN heap : ~(a < scanned)}
        /\ Packs(heap, Unmoved, scanned, top)
        /\ Laid(heap, forwarding, Survivors, new_top)
        /\ \A a \in DOMAIN heap : a < scanned => forwarding[a] = a
        /\ marked \subseteq Unmoved
        /\ \A i \in Roots : Leads(root[i], TRUE)
        /\ \A a \in Survivors : \A v \in Fields(heap[a]) : Leads(v, TRUE)
    BY SlideFacts
  <1>2. \A a \in Unmoved : FALSE
    <2> SUFFICES ASSUME NEW a \in Unmoved PROVE FALSE
      OBVIOUS
    <2>1. scanned <= a /\ a + heap[a].size <= top
      BY <1>1 DEF Packs
    <2>2. a \in Nat /\ heap[a].size \in Nat \ {0} /\ scanned \in Nat /\ top \in Nat
      BY <1>1 DEF HeapInv, TypeOK, Arena
    <2>3. heap[a].size > 0 /\ heap[a].size \in Nat
      BY <2>2
    <2> QED
      BY <2>1, <2>2, <2>3
  <1>3. /\ Unmoved = {} /\ marked = {} /\ Survivors = DOMAIN heap
        /\ \A a \in DOMAIN heap : a < scanned /\ forwarding[a] = a
    BY <1>1, <1>2
  <1>4. Homes = DOMAIN heap
    BY <1>3 DEF Homes
  <1>5. \A a \in DOMAIN heap : Home(a) = a
    BY <1>1, <1>3 DEF Home
  <1>6. Packs(heap, DOMAIN heap, Base, new_top)
    <2> DEFINE D == DOMAIN heap
    <2>1. \A a \in D : forwarding[a] = a
      BY <1>3
    <2>2. Laid(heap, forwarding, D, new_top)
      BY <1>1, <1>3
    <2> HIDE DEF D
    <2>3. Packs(heap, D, Base, new_top)
      BY <2>1, <2>2 DEF Laid, Packs
    <2> QED
      BY <2>3 DEF D
  <1>7. ClosedFromRoots(DOMAIN heap)
    <2>1. \A v : Leads(v, TRUE) => (CELL_P(v) => v \in DOMAIN heap)
      BY <1>4 DEF Leads
    <2> QED
      BY <1>1, <1>3, <2>1 DEF ClosedFromRoots
  <1> QED
    BY <1>3, <1>4, <1>5, <1>6, <1>7

LEMMA SlideEndKeeps ==
  ASSUME HeapInv, SlideEnd
  PROVE  HeapInv' /\ UNCHANGED <<absRoot, absObjs>>
  <1>1. /\ pc = "slide" /\ scanned >= top /\ pc' = "retry" /\ top' = new_top
        /\ scanned' = Base /\ new_top' = Base
        /\ UNCHANGED <<root, heap, req, k, g_GC_stress, marked, mark_stack, forwarding>>
    BY DEF SlideEnd
  <1>2. TypeOK /\ MarkInv /\ Arena /\ PlacesOK /\ StateOK /\ Resettling
    BY <1>1 DEF HeapInv, Resettling
  <1>3. /\ Unmoved = {} /\ marked = {} /\ Survivors = DOMAIN heap /\ Homes = DOMAIN heap
        /\ \A a \in DOMAIN heap : Home(a) = a
        /\ Packs(heap, DOMAIN heap, Base, new_top)
        /\ ClosedFromRoots(DOMAIN heap)
    BY <1>1, SlideEndFacts
  <1>4. ~Resettling'
    BY <1>1 DEF Resettling
  <1>5. /\ Survivors' = DOMAIN heap /\ Unmoved' = DOMAIN heap /\ Low' = Base
        /\ (ClosedFromRoots(DOMAIN heap))' => RefsOK'
        /\ PlacesOK'
    BY <1>1, <1>4, QuietNext
  <1>6. RefsOK'
    BY <1>1, <1>3, <1>5 DEF ClosedFromRoots
  <1>7. Arena'
    <2>1. Base <= new_top /\ new_top <= top /\ top <= Limit
      BY <1>2 DEF PlacesOK, Arena
    <2>2. new_top <= Limit
      BY <1>2, <2>1, ArenaSize DEF TypeOK
    <2> QED
      BY <1>1, <1>2, <1>3, <1>5, <2>1, <2>2, ArenaSize DEF Arena
  <1>8. Walk' /\ MarksOK'
    BY <1>1, <1>2, <1>3 DEF Walk, Passing, MarksOK, HeapInv
  <1>9. TypeOK'
    BY <1>1, <1>2, ArenaSize DEF TypeOK, Phases
  <1>10. MarkInv' /\ StateOK'
    BY <1>1, <1>2 DEF MarkInv, StateOK
  <1>11. HeapInv'
    BY <1>5, <1>6, <1>7, <1>8, <1>9, <1>10 DEF HeapInv
  <1>12. \A a \in DOMAIN heap : Home(a)' = a
    BY <1>4 DEF Home
  <1>13. SlideView'
    BY SlideView, PTL
  <1>14. absRoot' = absRoot
    BY <1>1, <1>4, <1>13, SlideView
  <1>15. \A a \in DOMAIN heap : ViewOf(a)' = ViewOf(a)
    BY <1>1, <1>4, <1>13, SlideView
  <1>16. absObjs' = absObjs
    <2>1. \A a \in DOMAIN heap : Home(a)' = Home(a) /\ ViewOf(a)' = ViewOf(a)
      BY <1>3, <1>12, <1>15
    <2> QED
      BY <1>3, <1>5, <1>11, <2>1, SameView
  <1> QED
    BY <1>11, <1>14, <1>16

-----------------------------------------------------------------------------
(* The invariant. *)

LEMMA ExhaustedKeeps ==
  ASSUME IInv, Exhausted
  PROVE  IInv'
  <1>1. /\ pc = "retry" /\ pc' = "exited" /\ ~IS_ALLOCATABLE(req.size)
        /\ UNCHANGED <<root, heap, req, k, g_GC_stress, marked, mark_stack, forwarding,
                       top, new_top, scanned>>
    BY DEF Exhausted, compactVars
  <1>2. HeapInv /\ ~Resettling /\ ~Resettling' /\ AllReached
    BY <1>1 DEF IInv, ReachOK, Resettling
  <1>3. /\ TypeOK /\ MarkInv /\ StateOK
        /\ Arena /\ RefsOK /\ mark_stack = <<>> /\ marked = {}
    BY <1>1, <1>2 DEF HeapInv, MarksOK
  <1>4. Arena'
    BY <1>1, <1>2, <1>3, ArenaSame DEF Arena
  <1>5. RefsOK' /\ PlacesOK'
    BY <1>1, <1>2, <1>3, QuietNext DEF RefsOK, ClosedFromRoots
  <1>6. TypeOK' /\ Walk' /\ MarksOK' /\ MarkInv' /\ StateOK'
    BY <1>1, <1>3 DEF TypeOK, Phases, Walk, Passing, MarksOK, MarkInv, StateOK, IS_ALLOCATABLE
  <1>7. absRoot' = absRoot /\ absObjs' = absObjs
    <2>1. \A a : Home(a)' = Home(a)
      BY <1>2 DEF Home
    <2>2. Survivors' = Survivors /\ \A v, u : View(v, u)' = View(v, u)
      BY <1>1, <1>2 DEF Survivors, View
    <2>3. SlideView'
      BY SlideView, PTL
    <2>4. absRoot' = absRoot /\ \A a : ViewOf(a)' = ViewOf(a)
      BY <1>1, <1>2, <2>3, SlideView
    <2>5. HeapInv'
      BY <1>4, <1>5, <1>6 DEF HeapInv
    <2> QED
      BY <1>2, <2>1, <2>2, <2>4, <2>5, SameView
  <1>8. AllReached'
    BY <1>2, <1>7, ReachedSame
  <1> QED
    BY <1>4, <1>5, <1>6, <1>8 DEF IInv, HeapInv, ReachOK

LEMMA IdleKeeps ==
  ASSUME IInv, UNCHANGED vars
  PROVE  IInv'
  <1>1. UNCHANGED <<root, heap, pc, req, k, g_GC_stress, marked, mark_stack, forwarding,
                    top, new_top, scanned>>
    BY DEF vars
  <1>2. /\ \A a : CellMoved(a)' <=> CellMoved(a)
        /\ \A a : CellUpdated(a)' <=> CellUpdated(a)
        /\ \A i : RootUpdated(i)' <=> RootUpdated(i)
        /\ Resettling' <=> Resettling
    BY <1>1 DEF CellMoved, CellUpdated, RootUpdated, Resettling
  <1>3. Survivors' = Survivors /\ Unmoved' = Unmoved /\ Low' = Low /\ Passed' = Passed
        /\ \A a : Home(a)' = Home(a)
    BY <1>1, <1>2 DEF Survivors, Unmoved, Low, Passed, Home
  <1>4. Homes' = Homes
    BY <1>1, <1>3 DEF Homes
  <1>5. Live' = Live
    BY <1>1 DEF Live, ClosedFromRoots
  <1>6. TypeOK' /\ Arena' /\ Walk' /\ StateOK'
    BY <1>1, <1>3 DEF IInv, HeapInv, TypeOK, Arena, Walk, Passing, StateOK, IS_ALLOCATABLE
  <1>7. MarksOK' /\ PlacesOK'
    BY <1>1, <1>2, <1>3, <1>5 DEF IInv, HeapInv, MarksOK, PlacesOK
  <1>8. MarkInv'
    <2>1. MarkInv
      BY DEF IInv, HeapInv
    <2>2. GoodMarks(MarkState)' <=> GoodMarks(MarkState)
      BY <1>1, <1>5 DEF GoodMarks, MarkState
    <2>3. WaveFront' <=> WaveFront
      BY <1>1 DEF WaveFront
    <2> QED
      BY <1>1, <2>1, <2>2, <2>3 DEF MarkInv
  <1>9. RefsOK'
    <2>1. RefsOK /\ (ClosedFromRoots(DOMAIN heap)' <=> ClosedFromRoots(DOMAIN heap))
      BY <1>1 DEF IInv, HeapInv, ClosedFromRoots
    <2>2. \A i \in Roots : Leads(root[i], RootUpdated(i)) => Leads(root[i], RootUpdated(i))'
      BY <1>1, <1>2, <1>3, <1>4 DEF Leads
    <2>3. \A a \in Survivors : \A v \in Fields(heap[a]) :
            Leads(v, CellUpdated(a)) => Leads(v, CellUpdated(a))'
      BY <1>1, <1>2, <1>3, <1>4 DEF Leads
    <2> QED
      BY <1>1, <1>2, <1>3, <2>1, <2>2, <2>3 DEF RefsOK
  <1>10. HeapInv'
    BY <1>6, <1>7, <1>8, <1>9 DEF HeapInv
  <1>11. absRoot' = absRoot /\ \A a : ViewOf(a)' = ViewOf(a)
    BY <1>1, <1>2 DEF absRoot, ViewOf, View
  <1>12. absObjs' = absObjs
    BY <1>3, <1>10, <1>11, SameView DEF IInv
  <1>13. ReachOK'
    BY <1>1, <1>2, <1>11, <1>12, ReachedSame DEF IInv, ReachOK
  <1> QED
    BY <1>10, <1>13 DEF IInv

LEMMA NextIInv == IInv /\ [Next]_vars => IInv'
  <1> SUFFICES ASSUME IInv, [Next]_vars
               PROVE  IInv'
    OBVIOUS
  <1>1. CASE Client /\ UNCHANGED compactVars
    BY <1>1, ClientKeeps
  <1>2. ASSUME NEW r \in Requests, MallocFast(r)
        PROVE  IInv'
    BY <1>2, AllocateKeeps DEF MallocFast, NeedsGC
  <1>3. ASSUME NEW r \in Requests, GCStart(r)
        PROVE  IInv'
    BY <1>3, StartKeeps
  <1>4. CASE MarkPhase /\ UNCHANGED <<forwarding, top, new_top, scanned>>
    BY <1>4, MarkKeeps
  <1>5. CASE CalcStart
    BY <1>5, CalcStartKeeps
  <1>6. CASE CalcNewAddress
    BY <1>6, CalcKeeps
  <1>7. CASE UpdateStart
    BY <1>7, UpdateStartKeeps
  <1>8. CASE \/ UpdateRoot \/ RootsUpdated \/ UpdateCell
             \/ SlideStart \/ SlideCell \/ SlideDead \/ SlideEnd
    <2>1. HeapInv
      BY DEF IInv
    <2>2. HeapInv' /\ UNCHANGED <<absRoot, absObjs>>
      BY <1>8, <2>1, UpdateRootKeeps, RootsUpdatedKeeps, UpdateCellKeeps, SlideStartKeeps,
         SlideCellKeeps, SlideDeadKeeps, SlideEndKeeps
    <2>3. AllReached
      BY <1>8 DEF UpdateRoot, RootsUpdated, UpdateCell, SlideStart, SlideCell, SlideDead,
                  SlideEnd, IInv, ReachOK, Resettling
    <2>4. AllReached'
      BY <2>2, <2>3, ReachedSame
    <2> QED
      BY <2>2, <2>4 DEF IInv, ReachOK
  <1>9. CASE MallocRetry
    <2>1. pc = "retry" /\ req \in Requests /\ IS_ALLOCATABLE(req.size) /\ Allocate(req)
      BY <1>9 DEF MallocRetry, IInv, HeapInv, StateOK
    <2> QED
      BY <2>1, AllocateKeeps
  <1>10. CASE Exhausted
    BY <1>10, ExhaustedKeeps
  <1>11. CASE UNCHANGED vars
    BY <1>11, IdleKeeps
  <1> QED
    BY <1>1, <1>2, <1>3, <1>4, <1>5, <1>6, <1>7, <1>8, <1>9, <1>10, <1>11
       DEF Next, Collector, Terminated

LEMMA Invariance == Spec => []IInv
  BY InitIInv, NextIInv, PTL DEF Spec

-----------------------------------------------------------------------------
(* Safety. *)

\* The cells' bytes are the bytes they fill.
LEMMA FilledBytes ==
  ASSUME NEW h, NEW lo \in Nat, NEW hi \in Nat, Packs(h, DOMAIN h, lo, hi),
         \A a \in DOMAIN h : a \in Nat /\ h[a].size \in Nat \ {0}
  PROVE  /\ Disjoint(h)
         /\ UNION {Extent(h, a) : a \in DOMAIN h} = lo .. (hi - 1)
  <1>1. \A a \in DOMAIN h : /\ lo <= a /\ a + h[a].size <= hi
                            /\ a \in Nat /\ h[a].size \in Nat
    <2> SUFFICES ASSUME NEW a \in DOMAIN h
                 PROVE  /\ lo <= a /\ a + h[a].size <= hi
                        /\ a \in Nat /\ h[a].size \in Nat
      OBVIOUS
    <2> QED
      BY DEF Packs
  <1>2. Disjoint(h)
    <2> SUFFICES ASSUME NEW a \in DOMAIN h, NEW b \in DOMAIN h, a # b
                 PROVE  a + h[a].size <= b \/ b + h[b].size <= a
      BY DEF Disjoint
    <2>1. a < b \/ b < a
      BY <1>1
    <2> QED
      BY <2>1 DEF Packs
  <1>3. ASSUME NEW a \in DOMAIN h, NEW x \in Extent(h, a)
        PROVE  x \in lo .. (hi - 1)
    <2>1. lo <= a /\ a + h[a].size <= hi /\ a \in Nat /\ h[a].size \in Nat
      BY <1>1
    <2>2. x \in a .. (a + h[a].size - 1)
      BY DEF Extent
    <2> QED
      BY <2>1, <2>2
  <1>4. ASSUME NEW x \in lo .. (hi - 1)
        PROVE  \E a \in DOMAIN h : x \in Extent(h, a)
    <2>1. PICK a \in DOMAIN h : a <= x /\ x < a + h[a].size
      BY DEF Packs
    <2>2. a \in Nat /\ h[a].size \in Nat /\ x \in Int
      BY <1>1
    <2>3. x \in Extent(h, a)
      BY <2>1, <2>2 DEF Extent
    <2> QED
      BY <2>3
  <1> QED
    BY <1>2, <1>3, <1>4

LEMMA IInvPacked ==
  ASSUME HeapInv
  PROVE  Packed
  <1> SUFFICES ASSUME pc \in {"run", "retry", "exited"}
               PROVE  /\ Disjoint(heap)
                      /\ UNION {Extent(heap, a) : a \in DOMAIN heap} = Base .. (top - 1)
                      /\ top <= Limit
                      /\ marked = {}
    BY DEF Packed
  <1>1. ~Resettling /\ TypeOK /\ Arena /\ marked = {}
    BY DEF Resettling, HeapInv, MarksOK
  <1>2. Packs(heap, DOMAIN heap, Base, top) /\ top \in Nat /\ top <= Limit
    BY <1>1, QuietFacts DEF Arena, TypeOK
  <1>3. \A a \in DOMAIN heap : a \in Nat /\ heap[a].size \in Nat \ {0}
    BY <1>1 DEF TypeOK, Arena
  <1> QED
    BY <1>1, <1>2, <1>3, ArenaSize, FilledBytes

\* In every phase of a mark-compact collection references lead to cells, or to the
\* homes the cells slide to, the marks are a wave front, and between collections
\* the arena is packed.
THEOREM HeapIsSound == Spec => []HeapSound
  <1>1. ASSUME IInv PROVE HeapSound
    <2> USE <1>1
    <2>1. HeapInv
      BY DEF IInv
    <2>2. TypeOK /\ MarkInv
      BY <2>1 DEF HeapInv
    <2>3. NoDangling
      <3>1. Resettling => Homes = {Home(a) : a \in Survivors}
        BY <2>1, SurvivorFacts DEF Homes
      <3>2. ~Resettling => Survivors = DOMAIN heap
        BY DEF Survivors
      <3>3. RefsOK
        BY <2>1 DEF HeapInv
      <3> QED
        BY <3>1, <3>2, <3>3 DEF NoDangling, RefsOK, Leads, ClosedFromRoots
    <2>4. MarkInvariant
      BY <2>2 DEF MarkInv, MarkInvariant, GoodMarks, MarkState, WaveFront, Waiting
    <2>5. Packed
      BY <2>1, IInvPacked
    <2> QED
      BY <2>2, <2>3, <2>4, <2>5 DEF HeapSound
  <1> QED
    BY <1>1, Invariance, PTL

\* Cells slide in allocation order, none upwards, into adjacent homes: the memcpy
\* of a move never destroys a cell that is yet to move.
THEOREM SlidingInOrder == Spec => []SlidesInOrder
  <1>1. ASSUME IInv PROVE SlidesInOrder
    <2> SUFFICES ASSUME Resettling
                 PROVE  /\ \A a \in Survivors : Base <= Home(a) /\ Home(a) <= a
                        /\ \A a, b \in Survivors : a < b => Home(a) + heap[a].size <= Home(b)
                        /\ \A a \in Survivors : \/ Home(a) + heap[a].size = new_top
                                                \/ \E b \in Survivors : Home(b) = Home(a) + heap[a].size
      BY DEF SlidesInOrder
    <2> USE <1>1
    <2> DEFINE f == forwarding
               S == Survivors
    <2>1. HeapInv /\ Laid(heap, f, S, new_top) /\ new_top \in Nat
      BY DEF IInv, HeapInv, PlacesOK, TypeOK
    <2>2. \A a \in S : /\ Home(a) = f[a] /\ f[a] \in Nat /\ a \in Nat
                       /\ heap[a].size \in Nat /\ heap[a].size > 0
      <3>1. \A a \in S : /\ Home(a) = f[a] /\ f[a] \in Nat /\ a \in Nat
                         /\ heap[a].size \in Nat \ {0}
        BY <2>1, SurvivorFacts
      <3> SUFFICES ASSUME NEW a \in S PROVE heap[a].size \in Nat /\ heap[a].size > 0
        BY <3>1
      <3> QED
        BY <3>1
    <2> HIDE DEF f, S
    <2>3. ASSUME NEW a \in S
          PROVE  f[a] + heap[a].size = new_top \/ \E b \in S : f[b] = f[a] + heap[a].size
      <3> DEFINE e == f[a] + heap[a].size
      <3>1. Base <= f[a] /\ e <= new_top /\ e \in Nat /\ f[a] < e
        BY <2>1, <2>2 DEF Laid
      <3>2. CASE e < new_top
        <4>1. e \in Base .. (new_top - 1)
          BY <2>1, <3>1, <3>2, <2>2, ArenaSize
        <4>2. PICK b \in S : f[b] <= e /\ e < f[b] + heap[b].size
          BY <2>1, <4>1 DEF Laid
        <4>3. b \in Nat /\ a \in Nat /\ f[b] \in Nat /\ heap[b].size \in Nat
          BY <2>2
        <4>4. ~(b < a)
          <5>1. b < a => f[b] + heap[b].size <= f[a]
            BY <2>1 DEF Laid
          <5> QED
            BY <2>2, <3>1, <4>2, <4>3, <5>1
        <4>5. b # a
          BY <2>2, <3>1, <4>2, <4>3
        <4>6. a < b
          BY <4>3, <4>4, <4>5
        <4>7. e <= f[b]
          BY <2>1, <4>6 DEF Laid
        <4> QED
          BY <3>1, <4>2, <4>3, <4>7
      <3> QED
        BY <2>1, <3>1, <3>2
    <2>4. /\ \A a \in S : Base <= f[a] /\ f[a] <= a
          /\ \A a, b \in S : a < b => f[a] + heap[a].size <= f[b]
      BY <2>1 DEF Laid
    <2>5. /\ \A a \in S : Base <= Home(a) /\ Home(a) <= a
          /\ \A a, b \in S : a < b => Home(a) + heap[a].size <= Home(b)
          /\ \A a \in S : \/ Home(a) + heap[a].size = new_top
                          \/ \E b \in S : Home(b) = Home(a) + heap[a].size
      BY <2>2, <2>3, <2>4
    <2> QED
      BY <2>5 DEF S
  <1> QED
    BY <1>1, Invariance, PTL

\* When no cell is on its way the abstract memory holds the heap's own cells.
LEMMA QuietMemory ==
  ~Resettling => /\ DOMAIN absObjs = DOMAIN heap
                 /\ \A a \in DOMAIN heap : absObjs[a] = [type |-> heap[a].type, car |-> heap[a].car,
                                                         cdr |-> heap[a].cdr]
                 /\ \A i \in Roots : absRoot[i] = root[i]
                 /\ absRoot = [i \in Roots |-> root[i]]
  <1> SUFFICES ASSUME ~Resettling
               PROVE  /\ DOMAIN absObjs = DOMAIN heap
                      /\ \A a \in DOMAIN heap : absObjs[a] = [type |-> heap[a].type, car |-> heap[a].car,
                                                              cdr |-> heap[a].cdr]
                      /\ \A i \in Roots : absRoot[i] = root[i]
                      /\ absRoot = [i \in Roots |-> root[i]]
    OBVIOUS
  <1>1. Survivors = DOMAIN heap /\ \A a : Home(a) = a
    BY DEF Survivors, Home
  <1>2. HomesDiffer
    BY <1>1 DEF HomesDiffer
  <1>3. absRoot = [i \in Roots |-> root[i]]
    BY SlideView
  <1>4. DOMAIN absObjs = DOMAIN heap /\ \A a \in DOMAIN heap : absObjs[a] = ViewOf(a)
    BY <1>1, <1>2, Mapped
  <1> QED
    BY <1>3, <1>4, SlideView

\* A collection keeps nothing the roots do not reach, and the program ends as "heap
\* exhausted" only when the bytes of the live cells and the request with its header
\* would leave no byte of the arena free.
THEOREM ExhaustionIsGenuine == Spec => []ExhaustedOnlyWhenFull
  <1>1. ASSUME IInv PROVE ExhaustedOnlyWhenFull
    <2> USE <1>1
    <2>1. ASSUME pc \in {"retry", "exited"}
          PROVE  Live = DOMAIN heap
      <3>1. ~Resettling /\ AllReached
        BY <2>1 DEF IInv, ReachOK, Resettling
      <3>2. /\ DOMAIN absObjs = DOMAIN heap
            /\ \A a \in DOMAIN heap : Fields(absObjs[a]) = Fields(heap[a])
            /\ \A i \in Roots : absRoot[i] = root[i]
        BY <3>1, QuietMemory DEF Fields
      <3>3. ASSUME NEW T \in SUBSET DOMAIN heap, ClosedFromRoots(T)
            PROVE  T = DOMAIN heap
        <4>1. AbstractlyClosed(T)
          BY <3>2, <3>3 DEF AbstractlyClosed, ClosedFromRoots
        <4> QED
          BY <3>1, <3>2, <4>1 DEF AllReached
      <3> QED
        BY <3>3 DEF Live
    <2>2. ASSUME pc = "exited"
          PROVE  Cardinality(UNION {Extent(heap, a) : a \in Live}) + HeaderSize + req.size
                   >= Limit - Base
      <3>1. UNION {Extent(heap, a) : a \in Live} = Base .. (top - 1)
        BY <2>1, <2>2, IInvPacked DEF IInv, Packed
      <3>2. ~IS_ALLOCATABLE(req.size) /\ req \in Requests /\ top \in Nat
        BY <2>2 DEF IInv, HeapInv, StateOK, TypeOK
      <3>3. req.size \in Nat
        BY <3>2, RequestFacts
      <3>4. Base <= top
        BY DEF IInv, HeapInv, Arena
      <3>5. Cardinality(Base .. (top - 1)) = top - Base
        <4>1. top - 1 \in Int /\ Base \in Int
          BY <3>2, ArenaSize
        <4>2. Cardinality(Base .. (top - 1)) = IF Base > top - 1 THEN 0 ELSE (top - 1) - Base + 1
          BY <4>1, FS_Interval
        <4> QED
          BY <3>2, <3>4, <4>2, ArenaSize
      <3>6. Cardinality(UNION {Extent(heap, a) : a \in Live}) = top - Base
        BY <3>1, <3>5, Zenon
      <3> QED
        BY <3>2, <3>3, <3>6, ArenaSize DEF IS_ALLOCATABLE
    <2> QED
      BY <2>1, <2>2 DEF ExhaustedOnlyWhenFull
  <1> QED
    BY <1>1, Invariance, PTL

-----------------------------------------------------------------------------
(* Refinement: what the program sees behind gc_malloc.                     *)

Abstract(o) == [type |-> o.type, car |-> o.car, cdr |-> o.cdr]

LEMMA QuietFields ==
  ASSUME ~Resettling, TypeOK
  PROVE  /\ DOMAIN absObjs = DOMAIN heap
         /\ \A a \in DOMAIN heap : absObjs[a] = Abstract(heap[a])
         /\ \A a \in DOMAIN heap : Memory!Fields(absObjs[a]) = Fields(heap[a])
         /\ absRoot = root
  <1>1. /\ DOMAIN absObjs = DOMAIN heap
        /\ \A a \in DOMAIN heap : absObjs[a] = Abstract(heap[a])
        /\ absRoot = [i \in Roots |-> root[i]]
    BY QuietMemory DEF Abstract
  <1>2. root = [i \in Roots |-> root[i]]
    BY DEF TypeOK
  <1>3. \A a \in DOMAIN heap : Memory!Fields(absObjs[a]) = Fields(heap[a])
    BY <1>1 DEF Abstract, Fields, Memory!Fields
  <1> QED
    BY <1>1, <1>2, <1>3

LEMMA QuietFieldsNext ==
  ASSUME ~Resettling', root' \in [Roots -> Value]
  PROVE  /\ DOMAIN absObjs' = DOMAIN heap'
         /\ \A a \in DOMAIN heap' : absObjs'[a] = Abstract(heap'[a])
         /\ absRoot' = root'
  <1>1. (/\ DOMAIN absObjs = DOMAIN heap
         /\ \A a \in DOMAIN heap : absObjs[a] = [type |-> heap[a].type, car |-> heap[a].car,
                                                 cdr |-> heap[a].cdr]
         /\ \A i \in Roots : absRoot[i] = root[i]
         /\ absRoot = [i \in Roots |-> root[i]])'
    BY QuietMemory, PTL
  <1>2. root' = [i \in Roots |-> root'[i]]
    OBVIOUS
  <1> QED
    BY <1>1, <1>2 DEF Abstract

\* No reference leads out of the abstract memory.
LEMMA AbstractClosed == HeapInv => Memory!Closed
  <1> SUFFICES ASSUME HeapInv PROVE Memory!Closed
    OBVIOUS
  <1>1. TypeOK /\ RefsOK
    BY DEF HeapInv
  <1>2. /\ DOMAIN absObjs = {Home(a) : a \in Survivors}
        /\ \A a \in Survivors : absObjs[Home(a)] = ViewOf(a)
    BY HomesAreDifferent, Mapped
  <1>3. \A a \in Survivors : Home(a) = IF Resettling THEN forwarding[a] ELSE a
    BY SurvivorFacts
  <1>4. \A v, u : (CELL_P(v) => IF Resettling THEN Leads(v, u) ELSE v \in Survivors)
                  => (CELL_P(View(v, u)) => View(v, u) \in DOMAIN absObjs)
    BY <1>2, <1>3 DEF View, Leads, Homes
  <1>5. /\ \A i \in Roots : CELL_P(root[i]) =>
             IF Resettling THEN Leads(root[i], RootUpdated(i)) ELSE root[i] \in Survivors
        /\ \A a \in Survivors : \A v \in Fields(heap[a]) : CELL_P(v) =>
             IF Resettling THEN Leads(v, CellUpdated(a)) ELSE v \in Survivors
    BY <1>1 DEF RefsOK, ClosedFromRoots, Survivors
  <1>6. ASSUME NEW i \in Roots, CELL_P(absRoot[i])
        PROVE  absRoot[i] \in DOMAIN absObjs
    <2> DEFINE v == root[i]
               u == RootUpdated(i)
    <2>1. absRoot[i] = View(v, u)
      BY DEF absRoot
    <2>2. CELL_P(v) => IF Resettling THEN Leads(v, u) ELSE v \in Survivors
      BY <1>5
    <2> HIDE DEF v, u
    <2> QED
      BY <1>4, <1>6, <2>1, <2>2
  <1>7. ASSUME NEW a \in Survivors, NEW w \in Memory!Fields(ViewOf(a)), CELL_P(w)
        PROVE  w \in DOMAIN absObjs
    <2> DEFINE u == CellUpdated(a)
    <2>1. PICK v \in Fields(heap[a]) : w = View(v, u)
      BY DEF Memory!Fields, Fields, ViewOf
    <2>2. CELL_P(v) => IF Resettling THEN Leads(v, u) ELSE v \in Survivors
      BY <1>5
    <2> HIDE DEF u
    <2> QED
      BY <1>4, <1>7, <2>1, <2>2
  <1> QED
    BY <1>2, <1>6, <1>7 DEF Memory!Closed, Memory!IsCell, CELL_P

LEMMA AbstractHeld ==
  ASSUME Graph, TypeOK, ~Resettling
  PROVE  Held = Memory!Held
  <1>1. \A i \in Roots : CELL_P(root[i]) => root[i] \in DOMAIN heap
    BY DEF Graph, ClosedFromRoots
  <1>2. absRoot = root
    BY QuietFields
  <1>3. {j \in Roots : CELL_P(root[j])} = {j \in Roots : Memory!IsCell(absRoot[j])}
    BY <1>2 DEF CELL_P, Memory!IsCell
  <1>4. \A i \in {j \in Roots : CELL_P(root[j])} :
          Memory!Fields(absObjs[absRoot[i]]) = Fields(heap[root[i]])
    BY <1>1, <1>2, QuietFields
  <1> QED
    BY <1>2, <1>3, <1>4 DEF Held, Memory!Held

\* The steps, seen in the abstract memory.
LEMMA ClientAssigns ==
  ASSUME IInv, Client, UNCHANGED compactVars
  PROVE  Memory!Next
  <1>1. pc = "run" /\ TypeOK /\ Arena /\ RefsOK /\ ~Resettling
    BY DEF IInv, HeapInv, Client, Resettling
  <1>2. Graph
    BY <1>1, GraphFacts
  <1>3. Graph' /\ pc' = pc /\ DOMAIN heap' = DOMAIN heap
    BY <1>1, <1>2, ClientKeepsGraph
  <1>4. ~Resettling' /\ root' \in [Roots -> Value]
    BY <1>1, <1>3 DEF Resettling, Graph
  <1>5. /\ absRoot = root /\ absRoot' = root'
        /\ DOMAIN absObjs = DOMAIN heap /\ DOMAIN absObjs' = DOMAIN heap
        /\ \A a \in DOMAIN heap : absObjs[a] = Abstract(heap[a]) /\ absObjs'[a] = Abstract(heap'[a])
    BY <1>1, <1>3, <1>4, QuietFields, QuietFieldsNext
  <1>6. absObjs = [x \in DOMAIN heap |-> absObjs[x]] /\ absObjs' = [x \in DOMAIN heap |-> absObjs'[x]]
    BY <1>5 DEF absObjs
  <1>7. ASSUME NEW i \in Roots, NEW v \in Held, Assign(i, v)
        PROVE  Memory!Next
    <2>1. v \in Memory!Held
      BY <1>1, <1>2, AbstractHeld
    <2>2. root' = [root EXCEPT ![i] = v] /\ heap' = heap
      BY <1>7 DEF Assign
    <2>3. \A a \in DOMAIN heap : absObjs'[a] = absObjs[a]
      BY <1>5, <2>2
    <2>4. absObjs' = absObjs
      BY <1>6, <2>3
    <2> QED
      BY <1>5, <2>1, <2>2, <2>4 DEF Memory!Next, Memory!Assign
  <1>8. ASSUME NEW i \in Roots, NEW j \in Roots, Redefine(i, j)
        PROVE  Memory!Next
    <2> DEFINE e == heap[root[i]].car
               v == root[j]
               o == absObjs[e]
    <2>1. /\ CELL_P(root[i]) /\ CELL_P(e) /\ heap[e].type = "pair"
          /\ heap' = [heap EXCEPT ![e].cdr = v] /\ root' = root
      BY <1>8 DEF Redefine
    <2>2. root[i] \in DOMAIN heap /\ e \in DOMAIN heap /\ heap[e] \in Object
      BY <1>2, <2>1 DEF Graph, ClosedFromRoots, Fields
    <2>3. absObjs[absRoot[i]].car = e /\ absObjs[e].type = "pair" /\ absRoot[j] = v
      BY <1>5, <2>1, <2>2 DEF Abstract
    <2> HIDE DEF e, v
    <2>4. heap'[e] = [heap[e] EXCEPT !.cdr = v] /\ \A x \in DOMAIN heap : x # e => heap'[x] = heap[x]
      BY <2>1, <2>2
    <2>5. o = Abstract(heap[e]) /\ [o EXCEPT !.cdr = v] = Abstract(heap'[e])
      BY <1>5, <2>2, <2>4 DEF Abstract, Object
    <2>6. absObjs' = [absObjs EXCEPT ![e] = [o EXCEPT !.cdr = v]]
      <3> DEFINE D == DOMAIN heap
                 p == [o EXCEPT !.cdr = v]
                 f == absObjs
                 g == absObjs'
      <3>1. f = [x \in D |-> f[x]] /\ g = [x \in D |-> g[x]]
        BY <1>6
      <3>2. g[e] = p /\ \A x \in D : x # e => g[x] = f[x]
        BY <1>5, <2>2, <2>4, <2>5
      <3> HIDE DEF D, f, g, p
      <3>3. g = [f EXCEPT ![e] = p]
        BY <3>1, <3>2
      <3> QED
        BY <3>3 DEF f, g, p
    <2>7. absObjs' = [absObjs EXCEPT ![e].cdr = v]
      BY <2>6 DEF o
    <2>8. Memory!Redefine(i, j)
      BY <1>5, <2>1, <2>3, <2>7 DEF Memory!Redefine, Memory!IsCell, CELL_P
    <2> QED
      BY <2>8 DEF Memory!Next
  <1> QED
    BY <1>7, <1>8 DEF Client

LEMMA AllocateMakes ==
  ASSUME IInv, pc \in {"run", "retry"}, NEW r \in Requests, IS_ALLOCATABLE(r.size), Allocate(r)
  PROVE  Memory!Next
  <1> DEFINE n == AllocateSize(r.size)
             o == NewObject(r, n)
             A == Abstract(o)
             c == top
  <1>1. c \in Nat \ DOMAIN heap /\ n \in Nat /\ Adds(r, c, n) /\ Graph /\ ~Resettling
    BY AllocatedCells
  <1>2. TypeOK /\ pc' = "run"
    BY DEF IInv, HeapInv, Allocate
  <1> HIDE DEF n, c
  <1>3. /\ DOMAIN heap' = DOMAIN heap \cup {c} /\ heap'[c] = o /\ Graph'
        /\ \A x \in DOMAIN heap : heap'[x] = heap[x]
    BY <1>1, NewCellKeepsGraph
  <1>4. ~Resettling' /\ root' \in [Roots -> Value]
    BY <1>2, <1>3 DEF Resettling, Graph
  <1>5. root' = [root EXCEPT ![r.dst] = c]
    BY <1>1 DEF Adds
  <1>6. /\ r.dst \in Roots /\ r.a \in Roots /\ r.d \in Roots /\ r.type \in {"leaf", "pair"}
        /\ r.type = "pair" => r.dst = r.a
    BY RequestFacts DEF Requests, LeafRequests, PairRequests
  <1>7. A = [type |-> r.type, car |-> IF r.type = "pair" THEN root[r.a] ELSE IMM,
                              cdr |-> IF r.type = "pair" THEN root[r.d] ELSE IMM]
    BY DEF NewObject, Abstract
  <1> HIDE DEF o
  <1>8. /\ absRoot = root /\ absRoot' = root'
        /\ DOMAIN absObjs = DOMAIN heap /\ DOMAIN absObjs' = DOMAIN heap \cup {c}
        /\ absObjs'[c] = A
        /\ \A x \in DOMAIN heap : absObjs'[x] = absObjs[x]
    BY <1>1, <1>2, <1>3, <1>4, QuietFields, QuietFieldsNext
  <1>9. absObjs' = [x \in DOMAIN absObjs \cup {c} |-> IF x = c THEN A ELSE absObjs[x]]
    <2> DEFINE f == absObjs
               g == absObjs'
    <2>1. g = [x \in DOMAIN g |-> g[x]]
      BY DEF absObjs
    <2>2. DOMAIN g = DOMAIN f \cup {c} /\ c \notin DOMAIN f /\ g[c] = A
          /\ \A x \in DOMAIN f : g[x] = f[x]
      BY <1>1, <1>8
    <2> HIDE DEF f, g, A
    <2>3. g = [x \in DOMAIN f \cup {c} |-> IF x = c THEN A ELSE f[x]]
      BY <2>1, <2>2
    <2> QED
      BY <2>3 DEF f, g
  <1>10. c \notin DOMAIN absObjs /\ c \in DOMAIN absObjs'
    BY <1>1, <1>8
  <1> HIDE DEF A
  <1>11. Memory!New(r.dst, A)
    BY <1>5, <1>8, <1>9, <1>10 DEF Memory!New
  <1>12. CASE r.type = "leaf"
    <2>1. A = Memory!Leaf
      BY <1>7, <1>12 DEF Memory!Leaf
    <2> QED
      BY <1>6, <1>11, <2>1 DEF Memory!Next, Memory!NewLeaf
  <1>13. CASE r.type = "pair"
    <2>1. A = Memory!Pair(absRoot[r.a], absRoot[r.d])
      BY <1>7, <1>8, <1>13 DEF Memory!Pair
    <2> QED
      BY <1>6, <1>11, <1>13, <2>1 DEF Memory!Next, Memory!NewPair
  <1> QED
    BY <1>6, <1>12, <1>13

\* From the moment the addresses are settled, all unmarked cells are gone and all
\* others have moved.
LEMMA UpdateStartCollects ==
  ASSUME IInv, UpdateStart, Memory!Closed'
  PROVE  Memory!Collect \/ UNCHANGED <<absRoot, absObjs>>
  <1>1. /\ UNCHANGED <<root, heap, marked, forwarding>> /\ ~Resettling /\ Resettling'
        /\ Graph /\ marked = Live /\ marked \subseteq DOMAIN heap
        /\ Laid(heap, forwarding, marked, new_top)
    BY UpdateStartFacts DEF IInv
  <1>2. TypeOK /\ HeapInv
    BY DEF IInv, HeapInv
  <1>3. /\ DOMAIN absObjs = DOMAIN heap
        /\ \A a \in DOMAIN heap : absObjs[a] = Abstract(heap[a])
        /\ absRoot = root
    BY <1>1, <1>2, QuietFields
  <1>4. /\ DOMAIN absObjs' = {forwarding[a] : a \in marked}
        /\ \A a \in marked : absObjs'[forwarding[a]] =
              [type |-> heap[a].type, car |-> Updated(heap[a].car), cdr |-> Updated(heap[a].cdr)]
        /\ \A i \in Roots : absRoot'[i] = Updated(root[i])
        /\ \A a, b \in marked : forwarding[a] = forwarding[b] => a = b
    BY <1>2, UpdateStartView
  <1>5. ClosedFromRoots(marked)
    BY <1>1, LiveClosed
  <1>6. \A a \in marked : forwarding[a] \in Nat /\ forwarding[a] # IMM
    BY <1>1, <1>2, ImmAssumption DEF TypeOK
  <1> DEFINE D == DOMAIN absObjs'
             from == [b \in D |-> CHOOSE a \in marked : forwarding[a] = b]
  <1>7. \A a \in marked : forwarding[a] \in D /\ from[forwarding[a]] = a
    <2> SUFFICES ASSUME NEW a \in marked
                 PROVE  forwarding[a] \in D /\ from[forwarding[a]] = a
      OBVIOUS
    <2> DEFINE c == CHOOSE x \in marked : forwarding[x] = forwarding[a]
    <2>1. forwarding[a] \in D
      BY <1>4
    <2>2. from[forwarding[a]] = c
      BY <2>1
    <2>3. c \in marked /\ forwarding[c] = forwarding[a]
      OBVIOUS
    <2>4. c = a
      BY <1>4, <2>3
    <2> QED
      BY <2>1, <2>2, <2>4
  <1>8. \A b \in D : \E a \in marked : b = forwarding[a]
    BY <1>4
  <1>9. from \in [D -> DOMAIN absObjs]
    <2>1. \A b \in D : from[b] \in DOMAIN absObjs
      BY <1>1, <1>3, <1>7, <1>8
    <2> QED
      BY <2>1
  <1> HIDE DEF D, from
  <1>10. Memory!IsInjective(from)
    <2>1. DOMAIN from = D
      BY <1>9
    <2>2. ASSUME NEW b \in D, NEW c \in D, from[b] = from[c]
          PROVE  b = c
      BY <1>7, <1>8, <2>2
    <2> QED
      BY <2>1, <2>2 DEF Memory!IsInjective
  <1>11. ASSUME NEW v, CELL_P(v) => v \in marked
         PROVE  Memory!Renamed(from, Updated(v)) = v
    BY <1>6, <1>7, <1>11 DEF Memory!Renamed, Memory!IsCell, Updated, CELL_P
  <1>12. ASSUME NEW b \in D
         PROVE  absObjs[from[b]] = [absObjs'[b] EXCEPT !.car = Memory!Renamed(from, @),
                                                       !.cdr = Memory!Renamed(from, @)]
    <2>1. PICK a \in marked : b = forwarding[a]
      BY <1>8
    <2> DEFINE o == heap[a]
               t == o.type
               u == Updated(o.car)
               w == Updated(o.cdr)
               p == absObjs'[b]
    <2>2. \A v \in Fields(o) : CELL_P(v) => v \in marked
      BY <1>5 DEF ClosedFromRoots
    <2>3. Memory!Renamed(from, u) = o.car /\ Memory!Renamed(from, w) = o.cdr
      BY <1>11, <2>2 DEF Fields
    <2>4. p = [type |-> t, car |-> u, cdr |-> w]
      BY <1>4, <2>1
    <2>5. absObjs[from[b]] = [type |-> t, car |-> o.car, cdr |-> o.cdr]
      BY <1>1, <1>3, <1>7, <2>1 DEF Abstract
    <2>6. [p EXCEPT !.car = Memory!Renamed(from, p.car), !.cdr = Memory!Renamed(from, p.cdr)]
            = [type |-> t, car |-> o.car, cdr |-> o.cdr]
      <3> DEFINE c == o.car
                 d == o.cdr
                 W == {t, u, w, c, d}
                 q == [p EXCEPT !.car = c, !.cdr = d]
                 r == [type |-> t, car |-> c, cdr |-> d]
      <3> HIDE DEF p, t, u, w, c, d
      <3>1. q \in [type : W, car : W, cdr : W] /\ r \in [type : W, car : W, cdr : W]
        BY <2>4
      <3>2. q.type = r.type /\ q.car = r.car /\ q.cdr = r.cdr
        BY <2>4
      <3> HIDE DEF q, r, W
      <3>3. q = r
        BY <3>1, <3>2
      <3>4. p.car = u /\ p.cdr = w
        BY <2>4
      <3> QED
        BY <2>3, <3>3, <3>4 DEF c, d, q, r
    <2> HIDE DEF p, t, u, w
    <2>7. absObjs[from[b]] = [p EXCEPT !.car = Memory!Renamed(from, @),
                                       !.cdr = Memory!Renamed(from, @)]
      BY <2>5, <2>6
    <2> QED
      BY <2>7 DEF p
  <1>13. ASSUME NEW i \in Roots
         PROVE  absRoot[i] = Memory!Renamed(from, absRoot'[i])
    <2>1. CELL_P(root[i]) => root[i] \in marked
      BY <1>5 DEF ClosedFromRoots
    <2> QED
      BY <1>3, <1>4, <1>11, <2>1
  <1>14. Memory!Relocate(from)
    BY <1>10, <1>12, <1>13, Zenon DEF Memory!Relocate, D
  <1>15. CASE absObjs' # absObjs
    BY <1>9, <1>14, <1>15 DEF Memory!Collect, D
  <1>16. CASE absObjs' = absObjs
    <2> DEFINE H == DOMAIN heap
    <2>1. H \in SUBSET Nat /\ IsFiniteSet(H) /\ marked \in SUBSET H
      BY <1>1 DEF Graph
    <2>2. D = H
      BY <1>3, <1>16 DEF D
    <2>3. \A a \in marked : forwarding[a] \in H /\ forwarding[a] <= a
      BY <1>1, <1>7, <2>2 DEF Laid
    <2>4. \A x \in H : \E a \in marked : forwarding[a] = x
      BY <1>8, <2>2
    <2> HIDE DEF H
    <2>5. marked = H /\ \A a \in H : forwarding[a] = a
      BY <2>1, <2>3, <2>4, NobodyMoves
    <2>6. \A i \in Roots : absRoot'[i] = absRoot[i]
      BY <1>3, <1>4, <1>5, <2>5 DEF Updated, ClosedFromRoots
    <2>7. absRoot' = absRoot
      <3> DEFINE f == absRoot
                 g == absRoot'
      <3>1. f = [i \in Roots |-> f[i]] /\ g = [i \in Roots |-> g[i]]
        BY DEF absRoot
      <3>2. \A i \in Roots : g[i] = f[i]
        BY <2>6
      <3> HIDE DEF f, g
      <3>3. g = f
        BY <3>1, <3>2
      <3> QED
        BY <3>3 DEF f, g
    <2> QED
      BY <1>16, <2>7
  <1> QED
    BY <1>15, <1>16

\* The other steps of a collection are not seen.
LEMMA CollectionStutters ==
  ASSUME IInv,
         \/ MarkPhase /\ UNCHANGED <<forwarding, top, new_top, scanned>>
         \/ \E r \in Requests : GCStart(r)
         \/ CalcStart \/ CalcNewAddress \/ Exhausted
         \/ UpdateRoot \/ RootsUpdated \/ UpdateCell
         \/ SlideStart \/ SlideCell \/ SlideDead \/ SlideEnd
  PROVE  UNCHANGED <<absRoot, absObjs>>
  <1>1. HeapInv
    BY DEF IInv
  <1>2. CASE \/ MarkPhase \/ (\E r \in Requests : GCStart(r))
             \/ CalcStart \/ CalcNewAddress \/ Exhausted
    <2>1. UNCHANGED <<root, heap>> /\ ~Resettling /\ ~Resettling'
      BY <1>2 DEF MarkPhase, MarkRoot, RootsMarked, MarkNext, MarkTo, GCStart, CalcStart, Marked,
                  CalcNewAddress, Exhausted, Resettling
    <2>2. TypeOK /\ root' \in [Roots -> Value]
      BY <1>1, <2>1 DEF HeapInv, TypeOK
    <2>3. /\ absRoot = root /\ absRoot' = root
          /\ DOMAIN absObjs = DOMAIN heap /\ DOMAIN absObjs' = DOMAIN heap
          /\ \A a \in DOMAIN heap : absObjs'[a] = absObjs[a]
      BY <2>1, <2>2, QuietFields, QuietFieldsNext
    <2> DEFINE f == absObjs
               g == absObjs'
    <2>4. f = [x \in DOMAIN f |-> f[x]] /\ g = [x \in DOMAIN g |-> g[x]]
      BY DEF absObjs
    <2>5. DOMAIN g = DOMAIN f /\ \A x \in DOMAIN f : g[x] = f[x]
      BY <2>3
    <2> HIDE DEF f, g
    <2>6. g = f
      BY <2>4, <2>5
    <2> QED
      BY <2>3, <2>6 DEF f, g
  <1>3. CASE \/ UpdateRoot \/ RootsUpdated \/ UpdateCell
             \/ SlideStart \/ SlideCell \/ SlideDead \/ SlideEnd
    BY <1>1, <1>3, UpdateRootKeeps, RootsUpdatedKeeps, UpdateCellKeeps, SlideStartKeeps,
       SlideCellKeeps, SlideDeadKeeps, SlideEndKeeps
  <1> QED
    BY <1>2, <1>3

LEMMA AbstractInit == Init => Memory!Init
  <1> SUFFICES ASSUME Init PROVE Memory!Init
    OBVIOUS
  <1>1. root = [i \in Roots |-> IMM] /\ heap = <<>> /\ ~Resettling
    BY DEF Init, BaseInit, Resettling
  <1>2. DOMAIN absObjs = {} /\ absRoot = [i \in Roots |-> root[i]]
    BY <1>1, QuietMemory
  <1>3. absObjs = <<>>
    BY <1>2 DEF absObjs
  <1> QED
    BY <1>1, <1>2, <1>3 DEF Memory!Init

LEMMA AbstractNext == IInv /\ Memory!Closed' /\ [Next]_vars => [Memory!Next]_(Memory!memVars)
  <1> SUFFICES ASSUME IInv, Memory!Closed', [Next]_vars
               PROVE  Memory!Next \/ UNCHANGED <<absRoot, absObjs>>
    BY DEF Memory!memVars
  <1>1. CASE Client /\ UNCHANGED compactVars
    BY <1>1, ClientAssigns
  <1>2. ASSUME NEW r \in Requests, MallocFast(r) PROVE Memory!Next
    BY <1>2, AllocateMakes DEF MallocFast, NeedsGC
  <1>3. CASE MallocRetry
    <2>1. pc = "retry" /\ req \in Requests /\ IS_ALLOCATABLE(req.size) /\ Allocate(req)
      BY <1>3 DEF MallocRetry, IInv, HeapInv, StateOK
    <2> QED
      BY <2>1, AllocateMakes
  <1>4. CASE UpdateStart
    BY <1>4, UpdateStartCollects DEF Memory!Next
  <1>5. CASE \/ MarkPhase /\ UNCHANGED <<forwarding, top, new_top, scanned>>
             \/ \E r \in Requests : GCStart(r)
             \/ CalcStart \/ CalcNewAddress \/ Exhausted
             \/ UpdateRoot \/ RootsUpdated \/ UpdateCell
             \/ SlideStart \/ SlideCell \/ SlideDead \/ SlideEnd
    BY <1>5, CollectionStutters
  <1>6. CASE UNCHANGED vars
    BY <1>6 DEF vars, absRoot, absObjs, View, RootUpdated, CellUpdated, Resettling, Survivors,
                Home, CellMoved
  <1> QED
    BY <1>1, <1>2, <1>3, <1>4, <1>5, <1>6 DEF Next, Collector, Terminated

\* Behind gc_malloc the program sees the abstract memory: a collection renames
\* the cells the roots reach and drops the others, at one step, and the passes
\* that update references and slide cells are not seen.
THEOREM MemoryIsImplemented == Spec => ImplementsObjectMemory
  <1>1. Init => Memory!Init
    BY AbstractInit
  <1>2. IInv => Memory!Closed
    BY AbstractClosed DEF IInv
  <1>3. IInv /\ Memory!Closed' /\ [Next]_vars => [Memory!Next]_(Memory!memVars)
    BY AbstractNext
  <1>4. Spec => []IInv
    BY Invariance
  <1> QED
    BY <1>1, <1>2, <1>3, <1>4, PTL DEF Spec, ImplementsObjectMemory, Memory!Spec
=============================================================================
