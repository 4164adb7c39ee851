------------------------ MODULE GenerationalGC_proofs ------------------------
(***************************************************************************)
(* The generational collector.                                             *)
(***************************************************************************)
EXTENDS GenerationalGC, Collectors_proofs

-----------------------------------------------------------------------------
(* The memory record the routines of a collection pass on, f and t being   *)
(* where the two halves of the nursery begin.                              *)

\* The half of the nursery that begins at s.
In(s, a) == s <= a /\ a < s + nersary_heap_size

Old(a) == tenured_space <= a

Typed(m) ==
  /\ m = [heap |-> m.heap, hdr |-> m.hdr, ntop |-> m.ntop, ttop |-> m.ttop,
          rem |-> m.rem, full |-> m.full]
  /\ m.heap \in [DOMAIN m.heap -> Object]
  /\ m.hdr \in [DOMAIN m.heap -> Header]
  /\ DOMAIN m.heap \subseteq Nat
  /\ m.ntop \in Nat /\ m.ttop \in Nat
  /\ m.rem \in Seq(Nat)
  /\ m.full \in BOOLEAN

Tiled(m) ==
  /\ Disjoint(m.heap)
  /\ \A a \in DOMAIN m.heap : m.heap[a].size > 0 /\ m.heap[a].size % 4 = 0

End(m, a) == a + m.heap[a].size

Placed(m, f, t) ==
  \A a \in DOMAIN m.heap :
    \/ f <= a /\ End(m, a) <= f + nersary_heap_size
    \/ t <= a /\ End(m, a) <= t + nersary_heap_size
    \/ Old(a) /\ End(m, a) <= tenured_space + tenured_heap_size

\* The cells at and above b fill the space up to top.
Gapless(m, b, lim, top) ==
  /\ b = top \/ b \in DOMAIN m.heap
  /\ \A a \in DOMAIN m.heap : b <= a /\ a < lim => End(m, a) = top \/ End(m, a) \in DOMAIN m.heap

Distinct(list) == \A i, j \in 1 .. Len(list) : i # j => list[i] # list[j]
Entries(list)  == {list[i] : i \in 1 .. Len(list)}

\* The remembered set lists the tenured cells below b that have the bit, once.
RemOK(m, b) ==
  /\ Len(m.rem) <= REMEMBERED_SET_SIZE
  /\ Distinct(m.rem)
  /\ Listed(m) = {a \in DOMAIN m.heap : Old(a) /\ a < b /\ m.hdr[a].remembered}

\* The tenured bit agrees with the address and the age, and cells of the
\* nursery are not remembered.
BitsOK(h, a) == /\ h.tenured <=> Old(a)
                /\ h.tenured <=> h.age = TENURING_THRESHOLD
                /\ h.remembered => Old(a)

-----------------------------------------------------------------------------
(* A minor collection. *)

Uncop(m, f) == {a \in DOMAIN m.heap : In(f, a) /\ m.hdr[a].forwarding = a}
UncopBytes(m, f) == UNION {Extent(m.heap, a) : a \in Uncop(m, f)}

Parted(m, f, t) ==
  /\ t <= m.ntop /\ m.ntop <= t + nersary_heap_size /\ (m.ntop - t) % 4 = 0
  /\ tenured_space <= m.ttop /\ m.ttop <= tenured_space + tenured_heap_size
  /\ \A a \in DOMAIN m.heap : IF In(f, a) THEN End(m, a) <= f + nersary_heap_size
                             ELSE IF Old(a) THEN End(m, a) <= m.ttop
                             ELSE t <= a /\ End(m, a) <= m.ntop

Room(m, f, t) ==
  /\ (m.ntop - t) + Cardinality(UncopBytes(m, f)) <= nersary_heap_size
  /\ m.ttop + Cardinality(UncopBytes(m, f)) <= tenured_space + tenured_heap_size

Forwarded(m, f) ==
  \A a \in DOMAIN m.heap :
    IF ~In(f, a) THEN m.hdr[a].forwarding = a /\ BitsOK(m.hdr[a], a)
    ELSE \/ m.hdr[a].forwarding = a /\ BitsOK(m.hdr[a], a)
         \/ m.hdr[a].forwarding \in DOMAIN m.heap /\ ~In(f, m.hdr[a].forwarding)

Sound(m, f, t) == /\ Typed(m) /\ Tiled(m) /\ Parted(m, f, t) /\ Room(m, f, t)
                  /\ Gapless(m, t, t + nersary_heap_size, m.ntop)
                  /\ Forwarded(m, f) /\ RemOK(m, m.ttop)
                  /\ Gapless(m, tenured_space, m.ttop, m.ttop)

White(m, f, v) == CELL_P(v) => v \in DOMAIN m.heap /\ (In(f, v) \/ Old(v))
Black(m, f, v) == CELL_P(v) => v \in DOMAIN m.heap /\ ~In(f, v)
Grey(m, f, v)  == White(m, f, v) /\ Black(m, f, v)

WhiteCell(m, f, a) == \A v \in Fields(m.heap[a]) : White(m, f, v)
BlackCell(m, f, a) == \A v \in Fields(m.heap[a]) : Black(m, f, v)
GreyCell(m, f, a)  == \A v \in Fields(m.heap[a]) : Grey(m, f, v)

\* Up to pn and pt the copies are scanned, so that they refer to no old place.
CellOK(m, f, t, pn, pt, a) ==
  /\ In(f, a) => WhiteCell(m, f, a)
  /\ In(t, a) => IF a >= pn THEN WhiteCell(m, f, a) ELSE BlackCell(m, f, a)
  /\ Old(a) /\ a >= pt => WhiteCell(m, f, a)
  /\ Old(a) /\ a < pt /\ a \notin Listed(m) => GreyCell(m, f, a)

Seen(i) == pc \in {"scan_nersary", "scan_tenured"} \/ (pc = "remembered" /\ i < rem_index)

Colours ==
  LET m == Memory
      f == from_space
  IN
  /\ \A i \in Roots : IF pc = "minor_roots" /\ i >= k THEN White(m, f, root[i])
                                                     ELSE Black(m, f, root[i])
  /\ \A a \in DOMAIN heap : CellOK(m, f, to_space, prev_nersary_top, prev_tenured_top, a)
  /\ \A i \in 1 .. Len(remembered_set) :
       /\ remembered_set[i] < prev_tenured_top
       /\ IF Seen(i) THEN BlackCell(m, f, remembered_set[i])
                     ELSE WhiteCell(m, f, remembered_set[i])

Pointers ==
  /\ to_space <= prev_nersary_top /\ prev_nersary_top <= nersary_top
  /\ prev_nersary_top = nersary_top \/ prev_nersary_top \in DOMAIN heap
  /\ tenured_space <= prev_tenured_top /\ prev_tenured_top <= tenured_top
  /\ prev_tenured_top = tenured_top \/ prev_tenured_top \in DOMAIN heap

Minor == Sound(Memory, from_space, to_space) /\ Colours /\ Pointers

-----------------------------------------------------------------------------
(* Between collections, and a major one. *)

\* The nursery is all in from_space.
NurseryOK(m, f) ==
  /\ f <= m.ntop /\ m.ntop <= f + nersary_heap_size /\ (m.ntop - f) % 4 = 0
  /\ \A a \in DOMAIN m.heap : Old(a) \/ (f <= a /\ End(m, a) <= m.ntop)

TenuredOK(m) ==
  /\ tenured_space <= m.ttop /\ m.ttop <= tenured_space + tenured_heap_size
  /\ \A a \in DOMAIN m.heap : Old(a) => End(m, a) <= m.ttop
  /\ Gapless(m, tenured_space, m.ttop, m.ttop)

Bits(m) == \A a \in DOMAIN m.heap : BitsOK(m.hdr[a], a)

AtHome(m) == \A a \in DOMAIN m.heap : m.hdr[a].forwarding = a

Unlisted(m) == \A a \in DOMAIN m.heap : Old(a) /\ a \notin Listed(m) =>
                 \A v \in Fields(m.heap[a]) : CELL_P(v) => Old(v)

Quiet(m, f) == NurseryOK(m, f) /\ TenuredOK(m) /\ Bits(m) 

Resting == /\ Quiet(Memory, from_space) /\ AtHome(Memory) /\ ClosedFromRoots(DOMAIN heap)
           /\ RemOK(Memory, tenured_top) /\ Unlisted(Memory)
           /\ pc = "run" => tenured_top + nersary_heap_size <= tenured_space + tenured_heap_size

MarkingOK == Quiet(Memory, from_space) /\ AtHome(Memory) /\ ClosedFromRoots(DOMAIN heap)

\* The tenured cells in M are to be packed from b on.
Plan(m, M, b) ==
  /\ \A a \in M : b <= m.hdr[a].forwarding /\ m.hdr[a].forwarding <= a
  /\ \A a, c \in M : a < c => m.hdr[a].forwarding + m.heap[a].size <= m.hdr[c].forwarding
  /\ \A a \in M : \/ m.hdr[a].forwarding = b
                  \/ \E c \in M : c < a /\ m.hdr[a].forwarding = m.hdr[c].forwarding + m.heap[c].size

UpdateOK ==
  LET M == Tenured \cap marked IN
  /\ Quiet(Memory, from_space)
  /\ scanned = tenured_space /\ new_top = tenured_space
  /\ \A a \in DOMAIN heap \ M : hdr[a].forwarding = a
  /\ Plan(Memory, M, tenured_space)
  /\ ClosedFromRoots(DOMAIN heap) /\ ClosedFromRoots(marked \cap DOMAIN heap)

Pending == {a \in DOMAIN heap : a >= scanned /\ Old(a) /\ a \in marked}
Slid == {a \in DOMAIN heap : Old(a) /\ a < new_top}
Young == {a \in DOMAIN heap : ~Old(a)}

\* What v refers to survives.
Lasts(v) == CELL_P(v) => \/ v \in Young /\ v \in marked
                         \/ v \in Slid
                         \/ \E b \in Pending : v = hdr[b].forwarding

SlideOK ==
  /\ NurseryOK(Memory, from_space) /\ Bits(Memory)
  /\ tenured_space <= new_top /\ new_top <= scanned /\ scanned <= tenured_top
  /\ tenured_top <= tenured_space + tenured_heap_size
  /\ \A a \in DOMAIN heap : Old(a) => \/ a < new_top /\ End(Memory, a) <= new_top
                                      \/ scanned <= a /\ End(Memory, a) <= tenured_top
  /\ Gapless(Memory, tenured_space, new_top, new_top)
  /\ Gapless(Memory, scanned, tenured_top, tenured_top)
  /\ \A a \in DOMAIN heap \ Pending : hdr[a].forwarding = a
  /\ Plan(Memory, Pending, new_top)
  /\ \A i \in Roots : Lasts(root[i])
  /\ \A a \in Slid \cup Pending \cup (Young \cap marked) : \A v \in Fields(heap[a]) : Lasts(v)
  /\ \A a \in Slid \cup Pending : ~hdr[a].remembered =>
       \A v \in Fields(heap[a]) : CELL_P(v) => Old(v)
  /\ RemOK(Memory, new_top)

-----------------------------------------------------------------------------
AtRest   == pc \in {"run", "minor_done", "retry"}
InMajor  == pc \in {"roots", "mark", "update", "slide"}

StateOK ==
  /\ pc \in Phases \ (Ends \cup {"run"}) => req \in Requests
  /\ AtRest \/ pc \in Scanning => marked = {}
  /\ pc \notin {"roots", "mark", "overflowed"} => mark_stack = <<>>
  /\ pc \notin {"remembered", "scan_nersary", "scan_tenured"} \cup Ends => rem_index = 1
  /\ pc \in {"roots", "mark", "update"} => remembered_set = <<>>

Typing ==
  /\ root \in [Roots -> Value]
  /\ marked \subseteq Nat
  /\ mark_stack \in Seq(Nat)
  /\ pc \in Phases
  /\ req \in Requests \cup {NoReq}
  /\ k \in 1 .. (NRoots + 1)
  /\ g_GC_stress \in BOOLEAN
  /\ {from_space, to_space} = {nersary_space, nersary_space + nersary_heap_size}
  /\ {prev_nersary_top, prev_tenured_top, scanned, new_top} \subseteq Nat
  /\ rem_index \in Nat \ {0}

IInv ==
  /\ Typing /\ Typed(Memory) /\ Tiled(Memory) /\ Placed(Memory, from_space, to_space)
  /\ StateOK /\ MarkInv
  /\ AtRest => Resting
  /\ pc \in Scanning => Minor
  /\ pc \in {"roots", "mark"} => MarkingOK
  /\ pc = "update" => UpdateOK
  /\ pc = "slide" => SlideOK

-----------------------------------------------------------------------------
(* Numbers. *)

LEMMA Layout ==
  /\ nersary_heap_size \in Nat /\ nersary_heap_size % 4 = 0
  /\ tenured_heap_size \in Nat /\ nersary_heap_size <= tenured_heap_size
  /\ nersary_space \in Nat /\ tenured_space \in Nat
  /\ nersary_space + 2 * nersary_heap_size <= tenured_space
  <1>1. remembered_set_size \in Nat /\ HeapSize - remembered_set_size \in Nat
    <2>1. PointerSize \in Nat /\ REMEMBERED_SET_SIZE \in Nat /\ HeapSize \in Nat
      BY MarkStackAssumption, GenerationAssumption, HeapSizeAssumption
    <2>2. \A x, y \in Nat : x * y \in Nat
      OBVIOUS
    <2>3. remembered_set_size \in Nat
      BY <2>1, <2>2 DEF remembered_set_size
    <2> QED
      BY <2>1, <2>3, LayoutAssumption
  <1>2. nersary_size \in Nat
    <2>1. \A x \in Nat, y \in Nat \ {0} : x \div y \in Nat
      OBVIOUS
    <2> QED
      BY <1>1, <2>1, GenerationAssumption DEF nersary_size
  <1>3. nersary_tbl_size \in Nat /\ nersary_tbl_size <= nersary_size
    BY <1>2 DEF nersary_tbl_size, Words
  <1>4. nersary_heap_size \in Nat /\ 2 * nersary_heap_size <= nersary_size - nersary_tbl_size
    BY <1>2, <1>3 DEF nersary_heap_size
  <1>5. tenured_size \in Int /\ tenured_tbl_size \in Int
    BY <1>1, <1>2, HeapSizeAssumption DEF tenured_size, tenured_tbl_size, Words
  <1>6. tenured_heap_size \in Int
    BY <1>5 DEF tenured_heap_size
  <1> QED
    BY <1>1, <1>3, <1>4, <1>6, LayoutAssumption
    DEF nersary_space, tenured_space, nersary_mark_tbl

\* The two halves, between which the collector swaps.
LEMMA Halves ==
  ASSUME NEW f, NEW t, {f, t} = {nersary_space, nersary_space + nersary_heap_size}
  PROVE  /\ f \in Nat /\ t \in Nat
         /\ f + nersary_heap_size <= t \/ t + nersary_heap_size <= f
         /\ f + nersary_heap_size <= tenured_space /\ t + nersary_heap_size <= tenured_space
  <1> DEFINE a == nersary_space
             b == nersary_space + nersary_heap_size
  <1>1. (f = a /\ t = b) \/ (f = b /\ t = a)
    <2>1. {f, t} = {a, b}
      OBVIOUS
    <2> HIDE DEF a, b
    <2>2. f \in {a, b} /\ t \in {a, b} /\ a \in {f, t} /\ b \in {f, t}
      BY <2>1
    <2> QED
      BY <2>2
  <1>2. CASE f = a /\ t = b
    BY <1>2, Layout
  <1>3. CASE f = b /\ t = a
    BY <1>3, Layout
  <1> QED
    BY <1>1, <1>2, <1>3

\* The size a cell gets.
LEMMA AllocateSizeFacts ==
  ASSUME NEW size \in Nat
  PROVE  /\ AllocateSize(size) \in Nat /\ AllocateSize(size) > 0 /\ AllocateSize(size) % 4 = 0
  BY HeaderAssumption DEF AllocateSize, Words

LEMMA AllocationFits ==
  ASSUME NEW size \in Nat, NEW f \in Nat, NEW n \in Nat, f <= n, (n - f) % 4 = 0,
         n + HeaderSize + size < f + nersary_heap_size
  PROVE  n + AllocateSize(size) <= f + nersary_heap_size
         /\ (n + AllocateSize(size) - f) % 4 = 0
  BY Layout, HeaderAssumption DEF AllocateSize, Words

\* The halves f and t of the nursery lie apart, below the tenured space.
HalvesApart(f, t) ==
  /\ f \in Nat /\ t \in Nat
  /\ f + nersary_heap_size <= t \/ t + nersary_heap_size <= f
  /\ f + nersary_heap_size <= tenured_space /\ t + nersary_heap_size <= tenured_space

-----------------------------------------------------------------------------
(* copy_object *)

LEMMA CellFacts ==
  ASSUME NEW m, Typed(m), Tiled(m), NEW a \in DOMAIN m.heap
  PROVE  /\ a \in Nat /\ m.heap[a] \in Object /\ m.hdr[a] \in Header
         /\ m.heap[a].size \in Nat /\ m.heap[a].size > 0 /\ m.heap[a].size % 4 = 0
         /\ End(m, a) = a + m.heap[a].size /\ End(m, a) \in Nat
         /\ Fields(m.heap[a]) \subseteq Value
  <1>1. a \in Nat /\ m.heap[a] \in Object /\ m.hdr[a] \in Header
    BY DEF Typed
  <1>2. m.heap[a].size \in Nat /\ Fields(m.heap[a]) \subseteq Value
    BY <1>1 DEF Object, Fields, Value
  <1>3. m.heap[a].size > 0 /\ m.heap[a].size % 4 = 0
    BY DEF Tiled
  <1> QED
    BY <1>1, <1>2, <1>3 DEF End

\* The bytes still to be copied are bytes of the old half: finitely many.
LEMMA UncopFinite ==
  ASSUME NEW f \in Nat, NEW t, NEW m, Typed(m), Tiled(m), Parted(m, f, t)
  PROVE  /\ IsFiniteSet(UncopBytes(m, f))
         /\ Cardinality(UncopBytes(m, f)) \in Nat
         /\ Cardinality(UncopBytes(m, f)) <= nersary_heap_size
  <1> DEFINE z == f + nersary_heap_size - 1
  <1>1. UncopBytes(m, f) \subseteq f .. z
    <2>1. SUFFICES ASSUME NEW a \in DOMAIN m.heap, In(f, a), NEW b \in Extent(m.heap, a)
                   PROVE  b \in f .. z
      BY DEF UncopBytes, Uncop
    <2>2. a \in Nat /\ m.heap[a].size \in Nat /\ a + m.heap[a].size <= f + nersary_heap_size
      BY <2>1, CellFacts DEF Parted
    <2> QED
      BY <2>1, <2>2, Layout DEF Extent, In
  <1>2. f \in Int /\ z \in Int /\ (IF f > z THEN 0 ELSE z - f + 1) = nersary_heap_size
    BY Layout
  <1> HIDE DEF z
  <1>3. IsFiniteSet(f .. z) /\ Cardinality(f .. z) = nersary_heap_size
    BY <1>2, FS_Interval
  <1> QED
    BY <1>1, <1>3, FS_Subset, FS_CardinalityType

\* A cell has as many bytes as its size says.
LEMMA ExtentSize ==
  ASSUME NEW h, NEW a \in Nat, h[a].size \in Nat
  PROVE  IsFiniteSet(Extent(h, a)) /\ Cardinality(Extent(h, a)) = h[a].size
  <1> DEFINE n == h[a].size
             z == a + n - 1
  <1>1. a \in Int /\ z \in Int /\ n \in Nat /\ Extent(h, a) = a .. z
    BY DEF Extent
  <1>2. IF a > z THEN n = 0 ELSE z - a + 1 = n
    OBVIOUS
  <1> HIDE DEF z, n
  <1>3. IsFiniteSet(a .. z) /\ Cardinality(a .. z) = IF a > z THEN 0 ELSE z - a + 1
    BY <1>1, FS_Interval
  <1>4. Cardinality(a .. z) = n
    BY <1>2, <1>3
  <1> QED
    BY <1>1, <1>3, <1>4 DEF n

\* The cell v was copied to the address to, which was free.
IsCopy(m, n, v, to) ==
  /\ n = [heap |-> n.heap, hdr |-> n.hdr, ntop |-> n.ntop, ttop |-> n.ttop,
          rem |-> n.rem, full |-> n.full]
  /\ to \in Nat \ DOMAIN m.heap
  /\ \A x \in DOMAIN m.heap : End(m, x) <= to \/ to + m.heap[v].size <= x
  /\ n.heap = [x \in DOMAIN m.heap \cup {to} |-> IF x = to THEN m.heap[v] ELSE m.heap[x]]
  /\ n.hdr = [x \in DOMAIN m.heap \cup {to} |-> IF x \in {v, to} THEN n.hdr[to] ELSE m.hdr[x]]
  /\ n.hdr[to] \in Header /\ n.hdr[to].forwarding = to
  /\ BitsOK(n.hdr[to], to) /\ ~n.hdr[to].remembered
  /\ n.rem = m.rem /\ n.full = m.full

\* It is in the other half, or promoted.
ToYoung(m, n, v, to, t) ==
  /\ to = m.ntop /\ n.ntop = m.ntop + m.heap[v].size /\ n.ttop = m.ttop
  /\ n.ntop <= t + nersary_heap_size
ToOld(m, n, v, to) ==
  /\ to = m.ttop /\ n.ttop = m.ttop + m.heap[v].size /\ n.ntop = m.ntop
  /\ n.ttop <= tenured_space + tenured_heap_size

LEMMA RoomForCopy ==
  ASSUME NEW f, NEW t, HalvesApart(f, t), NEW m, Sound(m, f, t), NEW v \in Uncop(m, f)
  PROVE  /\ m.ntop + m.heap[v].size <= t + nersary_heap_size
         /\ m.ttop + m.heap[v].size <= tenured_space + tenured_heap_size
  <1>1. Typed(m) /\ Tiled(m) /\ Parted(m, f, t) /\ Room(m, f, t) /\ f \in Nat /\ t \in Nat
        /\ v \in DOMAIN m.heap /\ m.ntop \in Nat /\ m.ttop \in Nat
    BY DEF Sound, HalvesApart, Uncop, Typed
  <1>2. Extent(m.heap, v) \subseteq UncopBytes(m, f)
    BY DEF UncopBytes
  <1>3. v \in Nat /\ m.heap[v].size \in Nat
    BY <1>1, CellFacts
  <1>4. Cardinality(Extent(m.heap, v)) = m.heap[v].size
    BY <1>3, ExtentSize
  <1>5. IsFiniteSet(UncopBytes(m, f)) /\ Cardinality(UncopBytes(m, f)) \in Nat
    BY <1>1, UncopFinite
  <1>6. m.heap[v].size <= Cardinality(UncopBytes(m, f))
    BY <1>2, <1>4, <1>5, FS_Subset
  <1> QED
    BY <1>1, <1>3, <1>5, <1>6, Layout DEF Room

\* Every cell of a collection that is under way ends below the two tops or is
\* in the old half.
LEMMA TopsAreFree ==
  ASSUME NEW f, NEW t, HalvesApart(f, t), NEW m, Sound(m, f, t), NEW s \in Nat, s > 0,
         m.ntop + s <= t + nersary_heap_size, NEW x \in DOMAIN m.heap
  PROVE  /\ x # m.ntop /\ (End(m, x) <= m.ntop \/ m.ntop + s <= x)
         /\ x # m.ttop /\ End(m, x) <= m.ttop
  <1>1. Typed(m) /\ Tiled(m) /\ Parted(m, f, t) /\ m.ntop \in Nat /\ m.ttop \in Nat
    BY DEF Sound, Typed
  <1>2. x \in Nat /\ End(m, x) \in Nat /\ x < End(m, x)
    BY <1>1, CellFacts
  <1>3. /\ f \in Nat /\ t \in Nat
        /\ f + nersary_heap_size <= t \/ t + nersary_heap_size <= f
        /\ f + nersary_heap_size <= tenured_space /\ t + nersary_heap_size <= tenured_space
        /\ t <= m.ntop /\ tenured_space <= m.ttop
        /\ nersary_heap_size \in Nat /\ tenured_space \in Nat
    BY <1>1, Layout DEF HalvesApart, Parted
  <1>4. IF In(f, x) THEN End(m, x) <= f + nersary_heap_size
        ELSE IF Old(x) THEN End(m, x) <= m.ttop
        ELSE t <= x /\ End(m, x) <= m.ntop
    BY <1>1 DEF Parted
  <1>5. CASE In(f, x)
    BY <1>1, <1>2, <1>3, <1>4, <1>5 DEF In
  <1>6. CASE ~In(f, x) /\ Old(x)
    BY <1>1, <1>2, <1>3, <1>4, <1>6 DEF Old
  <1>7. CASE ~In(f, x) /\ ~Old(x)
    BY <1>1, <1>2, <1>3, <1>4, <1>7 DEF Old
  <1> QED
    BY <1>5, <1>6, <1>7

LEMMA CopiedHeaderFacts ==
  ASSUME NEW g \in Header, NEW to \in Nat, NEW old \in BOOLEAN, g.age + 1 <= TENURING_THRESHOLD
  PROVE  /\ CopiedHeader(g, to, old) \in Header
         /\ CopiedHeader(g, to, old).forwarding = to
         /\ CopiedHeader(g, to, old).age = g.age + 1
         /\ CopiedHeader(g, to, old).tenured = old
         /\ CopiedHeader(g, to, old).remembered = g.remembered
  <1>1. g.age + 1 \in 0 .. TENURING_THRESHOLD
    BY GenerationAssumption DEF Header
  <1> QED
    BY <1>1 DEF CopiedHeader, Header

LEMMA CopyShape ==
  ASSUME NEW f, NEW t, HalvesApart(f, t), NEW m, Sound(m, f, t), NEW v \in Uncop(m, f),
         NEW n, n = copy_object(m, v)
  PROVE  \E to : IsCopy(m, n, v, to) /\ (ToYoung(m, n, v, to, t) \/ ToOld(m, n, v, to))
  <1> DEFINE g   == m.hdr[v]
             s   == m.heap[v].size
             old == g.age + 1 >= TENURING_THRESHOLD
             to  == IF old THEN m.ttop ELSE m.ntop
             h   == Overwrite(m.heap, to, m.heap[v])
             new == CopiedHeader(g, to, old)
  <1>1. Typed(m) /\ Tiled(m) /\ Parted(m, f, t) /\ Forwarded(m, f) /\ f \in Nat /\ t \in Nat
        /\ v \in DOMAIN m.heap /\ In(f, v) /\ g.forwarding = v
        /\ m.ntop \in Nat /\ m.ttop \in Nat
    BY DEF Sound, HalvesApart, Uncop, Typed
  <1>2. v \in Nat /\ s \in Nat /\ s > 0 /\ g \in Header
    BY <1>1, CellFacts
  <1>3. ~Old(v)
    BY <1>1, <1>2, Layout DEF HalvesApart, Old, In
  <1>4. BitsOK(g, v)
    BY <1>1 DEF Forwarded
  <1>5. ~g.tenured /\ ~g.remembered /\ g.age # TENURING_THRESHOLD
    BY <1>3, <1>4 DEF BitsOK
  <1>6. TENURING_THRESHOLD \in Nat /\ g.age \in Nat /\ g.age + 1 <= TENURING_THRESHOLD
    BY <1>2, <1>5, GenerationAssumption DEF Header
  <1>7. /\ m.ntop + s <= t + nersary_heap_size
        /\ m.ttop + s <= tenured_space + tenured_heap_size
    BY RoomForCopy
  <1>8. \A x \in DOMAIN m.heap :
          /\ x # m.ntop /\ (End(m, x) <= m.ntop \/ m.ntop + s <= x)
          /\ x # m.ttop /\ End(m, x) <= m.ttop
    BY <1>2, <1>7, TopsAreFree
  <1>9. to \in Nat \ DOMAIN m.heap
    BY <1>1, <1>8
  <1>10. \A x \in DOMAIN m.heap : End(m, x) <= to \/ to + s <= x
    BY <1>8
  <1>11. n = [m EXCEPT !.heap = h,
                       !.hdr  = [a \in DOMAIN h |-> IF a \in {v, to} THEN new ELSE m.hdr[a]],
                       !.ntop = IF old THEN @ ELSE @ + s,
                       !.ttop = IF old THEN @ + s ELSE @]
    BY DEF copy_object
  <1>12. Old(to) <=> old
    <2>1. Old(m.ttop)
      BY <1>1 DEF Parted, Old
    <2>2. ~Old(m.ntop)
      BY <1>1, <1>2, <1>7, Layout DEF HalvesApart, Old
    <2> QED
      BY <2>1, <2>2
  <1>13. /\ new \in Header /\ new.forwarding = to /\ ~new.remembered
         /\ (new.tenured <=> old) /\ new.age = g.age + 1
    <2>1. old \in BOOLEAN /\ to \in Nat /\ g \in Header /\ g.age + 1 <= TENURING_THRESHOLD
      BY <1>2, <1>6, <1>9
    <2> HIDE DEF to, old, g
    <2> QED
      BY <1>5, <2>1, CopiedHeaderFacts
  <1>14. BitsOK(new, to)
    <2>1. old <=> g.age + 1 = TENURING_THRESHOLD
      BY <1>6
    <2> HIDE DEF new, old, g, to
    <2> QED
      BY <1>12, <1>13, <2>1 DEF BitsOK
  <1>15. h = [x \in DOMAIN m.heap \cup {to} |-> IF x = to THEN m.heap[v] ELSE m.heap[x]]
    <2>1. {x \in DOMAIN m.heap : x + m.heap[x].size <= to \/ to + m.heap[v].size <= x} = DOMAIN m.heap
      BY <1>10 DEF End
    <2> HIDE DEF to
    <2> QED
      BY <2>1 DEF Overwrite
  <1> HIDE DEF h, new, to, old
  <1>16. /\ n = [heap |-> n.heap, hdr |-> n.hdr, ntop |-> n.ntop, ttop |-> n.ttop,
                 rem |-> n.rem, full |-> n.full]
         /\ n.heap = h /\ n.rem = m.rem /\ n.full = m.full
         /\ n.hdr = [a \in DOMAIN h |-> IF a \in {v, to} THEN new ELSE m.hdr[a]]
         /\ n.ntop = IF old THEN m.ntop ELSE m.ntop + s
         /\ n.ttop = IF old THEN m.ttop + s ELSE m.ttop
    BY <1>1, <1>11 DEF Typed
  <1>17. DOMAIN h = DOMAIN m.heap \cup {to} /\ n.hdr[to] = new
    BY <1>15, <1>16
  <1>18. IsCopy(m, n, v, to)
    BY <1>9, <1>10, <1>13, <1>14, <1>15, <1>16, <1>17 DEF IsCopy
  <1>19. ToYoung(m, n, v, to, t) \/ ToOld(m, n, v, to)
    BY <1>7, <1>16 DEF ToYoung, ToOld, to
  <1> QED
    BY <1>18, <1>19

\* Copying v takes its bytes out of those still to be copied.
LEMMA UncopAfter ==
  ASSUME NEW f, NEW t, HalvesApart(f, t), NEW m, Sound(m, f, t), NEW v \in Uncop(m, f),
         NEW n, NEW to, IsCopy(m, n, v, to), ~In(f, to)
  PROVE  /\ Uncop(n, f) = Uncop(m, f) \ {v}
         /\ m.heap[v].size <= Cardinality(UncopBytes(m, f))
         /\ Cardinality(UncopBytes(n, f)) = Cardinality(UncopBytes(m, f)) - m.heap[v].size
  <1>1. Typed(m) /\ Tiled(m) /\ Parted(m, f, t) /\ f \in Nat
        /\ v \in DOMAIN m.heap /\ In(f, v) /\ m.hdr[v].forwarding = v
    BY DEF Sound, HalvesApart, Uncop
  <1>2. v \in Nat /\ m.heap[v].size \in Nat
    BY <1>1, CellFacts
  <1>3. /\ to \notin DOMAIN m.heap
        /\ DOMAIN n.heap = DOMAIN m.heap \cup {to}
        /\ \A x \in DOMAIN m.heap : n.heap[x] = m.heap[x]
        /\ n.hdr[to].forwarding = to
        /\ n.hdr[v] = n.hdr[to]
        /\ \A x \in DOMAIN m.heap : x # v => n.hdr[x] = m.hdr[x]
    BY <1>1 DEF IsCopy
  <1>4. Uncop(n, f) = Uncop(m, f) \ {v}
    <2>1. ASSUME NEW x
          PROVE  x \in Uncop(n, f) <=> x \in Uncop(m, f) /\ x # v
      <3>1. CASE x = v
        BY <1>1, <1>3, <3>1 DEF Uncop
      <3>2. CASE x # v
        BY <1>3, <3>2 DEF Uncop
      <3> QED
        BY <3>1, <3>2
    <2> QED
      BY <2>1
  <1>5. \A a \in DOMAIN m.heap : Extent(n.heap, a) = Extent(m.heap, a)
    BY <1>3 DEF Extent
  <1>6. ASSUME NEW a \in Uncop(m, f), a # v, NEW b \in Extent(m.heap, a)
        PROVE  b \notin Extent(m.heap, v)
    <2>1. a \in DOMAIN m.heap
      BY DEF Uncop
    <2>2. a \in Nat /\ m.heap[a].size \in Nat
      BY <1>1, <2>1, CellFacts
    <2>3. a + m.heap[a].size <= v \/ v + m.heap[v].size <= a
      BY <1>1, <1>6, <2>1 DEF Tiled, Disjoint
    <2> QED
      BY <1>2, <1>6, <2>2, <2>3 DEF Extent
  <1>7. UncopBytes(n, f) = UncopBytes(m, f) \ Extent(m.heap, v)
    <2>1. Uncop(m, f) \subseteq DOMAIN m.heap
      BY DEF Uncop
    <2>2. ASSUME NEW b
          PROVE  b \in UncopBytes(n, f) <=> b \in UncopBytes(m, f) /\ b \notin Extent(m.heap, v)
      <3>1. b \in UncopBytes(n, f) <=> \E a \in Uncop(n, f) : b \in Extent(n.heap, a)
        BY DEF UncopBytes
      <3>2. b \in UncopBytes(m, f) <=> \E a \in Uncop(m, f) : b \in Extent(m.heap, a)
        BY DEF UncopBytes
      <3> QED
        BY <1>4, <1>5, <1>6, <2>1, <3>1, <3>2
    <2> QED
      BY <2>2
  <1>8. Extent(m.heap, v) \subseteq UncopBytes(m, f)
    BY DEF UncopBytes
  <1>9. IsFiniteSet(Extent(m.heap, v)) /\ Cardinality(Extent(m.heap, v)) = m.heap[v].size
    BY <1>2, ExtentSize
  <1>10. IsFiniteSet(UncopBytes(m, f)) /\ Cardinality(UncopBytes(m, f)) \in Nat
    BY <1>1, UncopFinite
  <1>11. Cardinality(Extent(m.heap, v)) <= Cardinality(UncopBytes(m, f))
    BY <1>8, <1>10, FS_Subset
  <1>12. Cardinality(UncopBytes(m, f) \ Extent(m.heap, v))
           = Cardinality(UncopBytes(m, f)) - Cardinality(Extent(m.heap, v))
    <2>1. UncopBytes(m, f) \cap Extent(m.heap, v) = Extent(m.heap, v)
      BY <1>8
    <2> QED
      BY <1>10, <2>1, FS_Difference
  <1> QED
    BY <1>4, <1>7, <1>9, <1>11, <1>12

\* Where the copy is.
LEMMA CopyPlace ==
  ASSUME NEW f, NEW t, HalvesApart(f, t), NEW m, Sound(m, f, t), NEW v \in Uncop(m, f),
         NEW n, NEW to, IsCopy(m, n, v, to), ToYoung(m, n, v, to, t) \/ ToOld(m, n, v, to)
  PROVE  /\ ~In(f, to)
         /\ ToYoung(m, n, v, to, t) => t <= to /\ to < t + nersary_heap_size /\ ~Old(to)
         /\ ToOld(m, n, v, to) => Old(to)
         /\ m.ntop <= n.ntop /\ m.ttop <= n.ttop
  <1>1. Typed(m) /\ Tiled(m) /\ Parted(m, f, t)
        /\ v \in DOMAIN m.heap /\ In(f, v) /\ m.hdr[v].forwarding = v
        /\ m.ntop \in Nat /\ m.ttop \in Nat
    BY DEF Sound, Uncop, Typed
  <1>2. m.heap[v].size \in Nat /\ m.heap[v].size > 0
    BY <1>1, CellFacts
  <1>3. t <= m.ntop /\ tenured_space <= m.ttop
    BY <1>1 DEF Parted
  <1> QED
    BY <1>1, <1>2, <1>3, Layout DEF HalvesApart, ToYoung, ToOld, In, Old

\* A copied cell leaves the collection sound.
LEMMA CopySound ==
  ASSUME NEW f, NEW t, HalvesApart(f, t), NEW m, Sound(m, f, t), NEW v \in Uncop(m, f),
         NEW n, NEW to, IsCopy(m, n, v, to), ToYoung(m, n, v, to, t) \/ ToOld(m, n, v, to)
  PROVE  Sound(n, f, t)
  <1> DEFINE s == m.heap[v].size
  <1>1. /\ Typed(m) /\ Tiled(m) /\ Parted(m, f, t) /\ Forwarded(m, f) /\ Room(m, f, t)
        /\ v \in DOMAIN m.heap /\ In(f, v) /\ m.hdr[v].forwarding = v
        /\ m.ntop \in Nat /\ m.ttop \in Nat /\ f \in Nat /\ t \in Nat
    BY DEF Sound, Uncop, Typed, HalvesApart
  <1>2. v \in Nat /\ s \in Nat /\ s > 0 /\ s % 4 = 0 /\ m.heap[v] \in Object
    BY <1>1, CellFacts
  <1>3. /\ ~In(f, to)
        /\ ToYoung(m, n, v, to, t) => t <= to /\ to < t + nersary_heap_size /\ ~Old(to)
        /\ ToOld(m, n, v, to) => Old(to)
        /\ m.ntop <= n.ntop /\ m.ttop <= n.ttop
    BY CopyPlace
  <1>4. /\ n = [heap |-> n.heap, hdr |-> n.hdr, ntop |-> n.ntop, ttop |-> n.ttop,
                rem |-> n.rem, full |-> n.full]
        /\ to \in Nat /\ to \notin DOMAIN m.heap
        /\ \A x \in DOMAIN m.heap : End(m, x) <= to \/ to + s <= x
        /\ n.hdr[to] \in Header /\ n.hdr[to].forwarding = to
        /\ BitsOK(n.hdr[to], to) /\ ~n.hdr[to].remembered
        /\ n.rem = m.rem /\ n.full = m.full
    BY DEF IsCopy
  <1>5. /\ DOMAIN n.heap = DOMAIN m.heap \cup {to} /\ DOMAIN n.hdr = DOMAIN n.heap
        /\ n.heap[to] = m.heap[v] /\ n.hdr[v] = n.hdr[to]
        /\ \A x \in DOMAIN m.heap : n.heap[x] = m.heap[x]
        /\ \A x \in DOMAIN m.heap : x # v => n.hdr[x] = m.hdr[x]
        /\ n.heap = [x \in DOMAIN n.heap |-> n.heap[x]]
        /\ n.hdr = [x \in DOMAIN n.heap |-> n.hdr[x]]
    BY <1>1, <1>4 DEF IsCopy
  <1>6. n.ntop \in Nat /\ n.ttop \in Nat
    BY <1>1, <1>2 DEF ToYoung, ToOld
  <1>7. Typed(n)
    <2>1. \A x \in DOMAIN n.heap : n.heap[x] \in Object /\ n.hdr[x] \in Header
      BY <1>1, <1>2, <1>4, <1>5 DEF Typed
    <2>2. n.heap \in [DOMAIN n.heap -> Object] /\ n.hdr \in [DOMAIN n.heap -> Header]
      BY <1>5, <2>1
    <2> QED
      BY <1>1, <1>4, <1>5, <1>6, <2>2 DEF Typed
  <1>8. (\A x \in DOMAIN m.heap : End(n, x) = End(m, x)) /\ End(n, to) = to + s
    BY <1>5 DEF End
  <1>9. \A x \in DOMAIN m.heap : x \in Nat /\ End(m, x) \in Nat /\ x < End(m, x)
    BY <1>1, CellFacts
  <1>10. Tiled(n)
    <2>1. \A x \in DOMAIN n.heap : n.heap[x].size > 0 /\ n.heap[x].size % 4 = 0
      BY <1>1, <1>2, <1>5 DEF Tiled
    <2>2. ASSUME NEW a \in DOMAIN n.heap, NEW b \in DOMAIN n.heap, a # b
          PROVE  a + n.heap[a].size <= b \/ b + n.heap[b].size <= a
      <3>1. CASE a \in DOMAIN m.heap /\ b \in DOMAIN m.heap
        BY <1>1, <1>5, <2>2, <3>1 DEF Tiled, Disjoint
      <3>2. CASE a = to /\ b \in DOMAIN m.heap
        BY <1>4, <1>5, <3>2 DEF End
      <3>3. CASE b = to /\ a \in DOMAIN m.heap
        BY <1>4, <1>5, <3>3 DEF End
      <3> QED
        BY <1>5, <2>2, <3>1, <3>2, <3>3
    <2> QED
      BY <2>1, <2>2 DEF Tiled, Disjoint
  <1>11. Parted(n, f, t)
    <2>1. /\ t <= n.ntop /\ n.ntop <= t + nersary_heap_size /\ (n.ntop - t) % 4 = 0
          /\ tenured_space <= n.ttop /\ n.ttop <= tenured_space + tenured_heap_size
      BY <1>1, <1>2, <1>3, <1>6, Layout DEF Parted, ToYoung, ToOld
    <2>2. ASSUME NEW a \in DOMAIN m.heap
          PROVE  IF In(f, a) THEN End(n, a) <= f + nersary_heap_size
                 ELSE IF Old(a) THEN End(n, a) <= n.ttop
                 ELSE t <= a /\ End(n, a) <= n.ntop
      <3>1. IF In(f, a) THEN End(m, a) <= f + nersary_heap_size
            ELSE IF Old(a) THEN End(m, a) <= m.ttop
            ELSE t <= a /\ End(m, a) <= m.ntop
        BY <1>1 DEF Parted
      <3> QED
        BY <1>1, <1>3, <1>6, <1>8, <1>9, <3>1
    <2>3. IF Old(to) THEN End(n, to) <= n.ttop ELSE t <= to /\ End(n, to) <= n.ntop
      BY <1>1, <1>2, <1>3, <1>8 DEF ToYoung, ToOld
    <2> QED
      BY <1>3, <1>5, <2>1, <2>2, <2>3 DEF Parted
  <1>12. Room(n, f, t)
    <2>1. /\ s <= Cardinality(UncopBytes(m, f))
          /\ Cardinality(UncopBytes(n, f)) = Cardinality(UncopBytes(m, f)) - s
      BY <1>3, UncopAfter
    <2>2. Cardinality(UncopBytes(m, f)) \in Nat
      BY <1>1, UncopFinite
    <2> QED
      BY <1>1, <1>2, <2>1, <2>2, Layout DEF Room, ToYoung, ToOld
  <1>13. Gapless(n, t, t + nersary_heap_size, n.ntop)
    <2>1. t = m.ntop \/ t \in DOMAIN m.heap
      BY DEF Sound, Gapless
    <2>2. t = n.ntop \/ t \in DOMAIN n.heap
      BY <1>5, <2>1 DEF ToYoung, ToOld
    <2>3. ASSUME NEW a \in DOMAIN m.heap, t <= a, a < t + nersary_heap_size
          PROVE  End(n, a) = n.ntop \/ End(n, a) \in DOMAIN n.heap
      <3>1. End(m, a) = m.ntop \/ End(m, a) \in DOMAIN m.heap
        BY <2>3 DEF Sound, Gapless
      <3> QED
        BY <1>5, <1>8, <3>1 DEF ToYoung, ToOld
    <2>4. ASSUME t <= to, to < t + nersary_heap_size
          PROVE  End(n, to) = n.ntop
      <3>1. ToYoung(m, n, v, to, t)
        BY <1>3, <1>4, <2>4, Layout DEF HalvesApart, Old
      <3> QED
        BY <1>8, <3>1 DEF ToYoung
    <2> QED
      BY <1>5, <2>2, <2>3, <2>4 DEF Gapless
  <1>14. Gapless(n, tenured_space, n.ttop, n.ttop)
    <2>1. tenured_space = m.ttop \/ tenured_space \in DOMAIN m.heap
      BY DEF Sound, Gapless
    <2>2. tenured_space = n.ttop \/ tenured_space \in DOMAIN n.heap
      BY <1>5, <2>1 DEF ToYoung, ToOld
    <2>3. ASSUME NEW a \in DOMAIN m.heap, tenured_space <= a
          PROVE  End(n, a) = n.ttop \/ End(n, a) \in DOMAIN n.heap
      <3>1. ~In(f, a)
        BY <1>1, <1>9, <2>3, Layout DEF HalvesApart, In
      <3>2. a < m.ttop
        BY <1>1, <1>9, <2>3, <3>1 DEF Parted, Old
      <3>3. End(m, a) = m.ttop \/ End(m, a) \in DOMAIN m.heap
        BY <2>3, <3>2 DEF Sound, Gapless
      <3> QED
        BY <1>5, <1>8, <3>3 DEF ToYoung, ToOld
    <2>4. ASSUME tenured_space <= to
          PROVE  End(n, to) = n.ttop
      <3>1. ToOld(m, n, v, to)
        BY <1>3, <2>4 DEF Old
      <3> QED
        BY <1>8, <3>1 DEF ToOld
    <2> QED
      BY <1>5, <2>2, <2>3, <2>4 DEF Gapless
  <1>15. Forwarded(n, f)
    <2> SUFFICES ASSUME NEW a \in DOMAIN n.heap
                 PROVE  IF ~In(f, a) THEN n.hdr[a].forwarding = a /\ BitsOK(n.hdr[a], a)
                        ELSE \/ n.hdr[a].forwarding = a /\ BitsOK(n.hdr[a], a)
                             \/ n.hdr[a].forwarding \in DOMAIN n.heap /\ ~In(f, n.hdr[a].forwarding)
      BY DEF Forwarded
    <2>1. CASE a = to
      BY <1>3, <1>4, <2>1
    <2>2. CASE a = v
      BY <1>1, <1>3, <1>4, <1>5, <2>2
    <2>3. CASE a # to /\ a # v
      BY <1>1, <1>5, <2>3 DEF Forwarded
    <2> QED
      BY <2>1, <2>2, <2>3
  <1>16. RemOK(n, n.ttop)
    <2>1. RemOK(m, m.ttop)
      BY DEF Sound
    <2>2. Listed(n) = Listed(m)
      BY <1>4 DEF Listed
    <2>3. ASSUME NEW a
          PROVE  /\ a \in DOMAIN n.heap /\ Old(a) /\ a < n.ttop /\ n.hdr[a].remembered
                 <=> a \in DOMAIN m.heap /\ Old(a) /\ a < m.ttop /\ m.hdr[a].remembered
      <3>1. CASE a = to
        BY <1>4, <3>1
      <3>2. CASE a = v
        <4>1. ~Old(v)
          BY <1>1, <1>2, Layout DEF HalvesApart, In, Old
        <4> QED
          BY <3>2, <4>1
      <3>3. CASE a \in DOMAIN m.heap /\ a # v /\ Old(a)
        <4>1. ~In(f, a)
          BY <1>1, <1>9, <3>3, Layout DEF HalvesApart, In, Old
        <4>2. End(m, a) <= m.ttop
          BY <1>1, <3>3, <4>1 DEF Parted
        <4>3. a < m.ttop /\ a < n.ttop
          BY <1>1, <1>3, <1>6, <1>9, <3>3, <4>2
        <4> QED
          BY <1>5, <3>3, <4>3
      <3> QED
        BY <1>5, <3>1, <3>2, <3>3
    <2>4. Listed(n) = {a \in DOMAIN n.heap : Old(a) /\ a < n.ttop /\ n.hdr[a].remembered}
      BY <2>1, <2>2, <2>3 DEF RemOK
    <2> QED
      BY <1>4, <2>1, <2>4 DEF RemOK
  <1> QED
    BY <1>7, <1>10, <1>11, <1>12, <1>13, <1>14, <1>15, <1>16 DEF Sound

-----------------------------------------------------------------------------
(* copy_and_update, and trace_object with it *)

\* The cells of the old half refer to it and to the tenured space.
FromWhite(m, f) == \A a \in DOMAIN m.heap : In(f, a) => WhiteCell(m, f, a)

\* n is m with cells copied, and new fields in the cells of C.
Grows(m, n, f, C) ==
  /\ DOMAIN m.heap \subseteq DOMAIN n.heap
  /\ \A a \in DOMAIN m.heap : /\ n.heap[a].size = m.heap[a].size
                              /\ a \notin C => n.heap[a] = m.heap[a]
                              /\ ~In(f, a) => n.hdr[a] = m.hdr[a]
  /\ \A a \in DOMAIN n.heap \ DOMAIN m.heap :
       /\ ~In(f, a) /\ WhiteCell(n, f, a)
       /\ IF Old(a) THEN m.ttop <= a ELSE m.ntop <= a
  /\ m.ntop <= n.ntop /\ (n.ntop = m.ntop \/ m.ntop \in DOMAIN n.heap)
  /\ m.ttop <= n.ttop /\ (n.ttop = m.ttop \/ m.ttop \in DOMAIN n.heap)
  /\ n.rem = m.rem /\ n.full = m.full

LEMMA GrowsSelf ==
  ASSUME NEW f, NEW m, Typed(m), NEW C
  PROVE  Grows(m, m, f, C)
  BY DEF Grows, Typed

\* A value keeps its colour while cells are copied.
LEMMA ColoursStay ==
  ASSUME NEW f, NEW m, NEW n, DOMAIN m.heap \subseteq DOMAIN n.heap, NEW v
  PROVE  /\ White(m, f, v) => White(n, f, v)
         /\ Black(m, f, v) => Black(n, f, v)
         /\ Grey(m, f, v) => Grey(n, f, v)
  BY DEF White, Black, Grey

LEMMA GrowsTrans ==
  ASSUME NEW f, NEW m, NEW n, NEW p, NEW C, C \subseteq DOMAIN m.heap,
         Typed(m), Typed(n), Typed(p), Grows(m, n, f, C), Grows(n, p, f, C)
  PROVE  Grows(m, p, f, C)
  <1>1. /\ m.ntop \in Nat /\ n.ntop \in Nat /\ p.ntop \in Nat
        /\ m.ttop \in Nat /\ n.ttop \in Nat /\ p.ttop \in Nat
        /\ DOMAIN p.heap \subseteq Nat
    BY DEF Typed
  <1>2. DOMAIN m.heap \subseteq DOMAIN n.heap /\ DOMAIN n.heap \subseteq DOMAIN p.heap
    BY DEF Grows
  <1>3. \A a \in DOMAIN m.heap : /\ p.heap[a].size = m.heap[a].size
                                 /\ a \notin C => p.heap[a] = m.heap[a]
                                 /\ ~In(f, a) => p.hdr[a] = m.hdr[a]
    BY <1>2 DEF Grows
  <1>4. ASSUME NEW a \in DOMAIN p.heap, a \notin DOMAIN m.heap
        PROVE  /\ ~In(f, a) /\ WhiteCell(p, f, a)
               /\ IF Old(a) THEN m.ttop <= a ELSE m.ntop <= a
    <2>1. CASE a \in DOMAIN n.heap
      <3>1. /\ ~In(f, a) /\ WhiteCell(n, f, a)
            /\ IF Old(a) THEN m.ttop <= a ELSE m.ntop <= a
        BY <1>4, <2>1 DEF Grows
      <3>2. p.heap[a] = n.heap[a]
        BY <1>4, <2>1 DEF Grows
      <3>3. WhiteCell(p, f, a)
        BY <1>2, <3>1, <3>2, ColoursStay DEF WhiteCell
      <3> QED
        BY <3>1, <3>3
    <2>2. CASE a \notin DOMAIN n.heap
      <3>1. /\ ~In(f, a) /\ WhiteCell(p, f, a)
            /\ IF Old(a) THEN n.ttop <= a ELSE n.ntop <= a
        BY <2>2 DEF Grows
      <3>2. m.ttop <= n.ttop /\ m.ntop <= n.ntop /\ a \in Nat
        BY <1>1 DEF Grows
      <3> QED
        BY <1>1, <3>1, <3>2
    <2> QED
      BY <2>1, <2>2
  <1>5. /\ m.ntop <= p.ntop /\ (p.ntop = m.ntop \/ m.ntop \in DOMAIN p.heap)
        /\ m.ttop <= p.ttop /\ (p.ttop = m.ttop \/ m.ttop \in DOMAIN p.heap)
        /\ p.rem = m.rem /\ p.full = m.full
    BY <1>1, <1>2 DEF Grows
  <1> QED
    BY <1>2, <1>3, <1>4, <1>5 DEF Grows

LEMMA FromWhiteStays ==
  ASSUME NEW f, NEW m, NEW n, NEW C, Grows(m, n, f, C), FromWhite(m, f),
         \A c \in C : ~In(f, c)
  PROVE  FromWhite(n, f)
  <1> SUFFICES ASSUME NEW a \in DOMAIN n.heap, In(f, a) PROVE WhiteCell(n, f, a)
    BY DEF FromWhite
  <1>1. a \in DOMAIN m.heap /\ n.heap[a] = m.heap[a]
    BY DEF Grows
  <1>2. WhiteCell(m, f, a)
    BY <1>1 DEF FromWhite
  <1>3. DOMAIN m.heap \subseteq DOMAIN n.heap
    BY DEF Grows
  <1> QED
    BY <1>1, <1>2, <1>3, ColoursStay DEF WhiteCell

\* copy_and_update of a slot that was not visited before.
LEMMA CopiedFacts ==
  ASSUME NEW f, NEW t, HalvesApart(f, t), NEW m, Sound(m, f, t), FromWhite(m, f),
         NEW v \in Value, White(m, f, v), NEW n, n = Copied(m, v)
  PROVE  /\ Sound(n, f, t) /\ Grows(m, n, f, {}) /\ FromWhite(n, f)
         /\ CopyOf(n, v) \in Value /\ Black(n, f, CopyOf(n, v))
         /\ CELL_P(CopyOf(n, v)) <=> CELL_P(v)
  <1>1. Typed(m) /\ Tiled(m) /\ Forwarded(m, f)
    BY DEF Sound
  <1>2. CASE ~CELL_P(v)
    <2>1. n = m /\ CopyOf(n, v) = v
      BY <1>2 DEF Copied, CopyOf
    <2> QED
      BY <1>1, <1>2, <2>1, GrowsSelf DEF Black
  <1>3. CASE CELL_P(v) /\ (m.hdr[v].forwarding # v \/ m.hdr[v].tenured)
    <2>1. n = m /\ CopyOf(n, v) = m.hdr[v].forwarding
      BY <1>3 DEF Copied, CopyOf
    <2>2. v \in DOMAIN m.heap /\ (In(f, v) \/ Old(v))
      BY <1>3 DEF White
    <2>3. v \in Nat /\ m.hdr[v].forwarding \in Nat
      BY <1>1, <2>2, CellFacts DEF Header
    <2>4. CELL_P(m.hdr[v].forwarding) /\ m.hdr[v].forwarding \in Value
      BY <2>3, ImmAssumption DEF CELL_P, Value
    <2>5. m.hdr[v].forwarding \in DOMAIN m.heap /\ ~In(f, m.hdr[v].forwarding)
      <3>1. CASE In(f, v)
        <4>1. ~Old(v)
          BY <2>3, <3>1, Layout DEF HalvesApart, In, Old
        <4> QED
          BY <1>1, <1>3, <2>2, <3>1, <4>1 DEF Forwarded, BitsOK
      <3>2. CASE ~In(f, v)
        BY <1>1, <2>2, <3>2 DEF Forwarded
      <3> QED
        BY <3>1, <3>2
    <2> QED
      BY <1>1, <1>3, <2>1, <2>4, <2>5, GrowsSelf DEF Black
  <1>4. CASE CELL_P(v) /\ m.hdr[v].forwarding = v /\ ~m.hdr[v].tenured
    <2>1. n = copy_object(m, v) /\ CopyOf(n, v) = n.hdr[v].forwarding
      BY <1>4 DEF Copied, CopyOf
    <2>2. v \in DOMAIN m.heap /\ (In(f, v) \/ Old(v))
      BY <1>4 DEF White
    <2>3. In(f, v)
      BY <1>1, <1>4, <2>2 DEF Forwarded, BitsOK
    <2>4. v \in Uncop(m, f)
      BY <1>4, <2>2, <2>3 DEF Uncop
    <2>5. PICK to : IsCopy(m, n, v, to) /\ (ToYoung(m, n, v, to, t) \/ ToOld(m, n, v, to))
      BY <2>1, <2>4, CopyShape
    <2>6. Sound(n, f, t)
      BY <2>4, <2>5, CopySound
    <2>7. /\ ~In(f, to) /\ m.ntop <= n.ntop /\ m.ttop <= n.ttop
          /\ ToYoung(m, n, v, to, t) => ~Old(to)
          /\ ToOld(m, n, v, to) => Old(to)
      BY <2>4, <2>5, CopyPlace
    <2>8. /\ DOMAIN n.heap = DOMAIN m.heap \cup {to}
          /\ n.heap[to] = m.heap[v] /\ n.hdr[v].forwarding = to /\ to \in Nat
          /\ \A x \in DOMAIN m.heap : n.heap[x] = m.heap[x]
          /\ \A x \in DOMAIN m.heap : x # v => n.hdr[x] = m.hdr[x]
          /\ n.rem = m.rem /\ n.full = m.full
      BY <2>2, <2>5 DEF IsCopy
    <2>9. WhiteCell(n, f, to)
      <3>1. WhiteCell(m, f, v)
        BY <2>2, <2>3 DEF FromWhite
      <3> QED
        BY <2>8, <3>1, ColoursStay DEF WhiteCell
    <2>10. IF Old(to) THEN m.ttop <= to ELSE m.ntop <= to
      BY <1>1, <2>5, <2>7 DEF ToYoung, ToOld, Typed
    <2>11. Grows(m, n, f, {})
      <3>1. /\ n.ntop = m.ntop \/ m.ntop \in DOMAIN n.heap
            /\ n.ttop = m.ttop \/ m.ttop \in DOMAIN n.heap
        BY <2>5, <2>8 DEF ToYoung, ToOld
      <3> QED
        BY <2>3, <2>7, <2>8, <2>9, <2>10, <3>1 DEF Grows
    <2>12. FromWhite(n, f)
      BY <2>11, FromWhiteStays
    <2>13. CopyOf(n, v) = to /\ to \in Value /\ CELL_P(to) /\ Black(n, f, to)
      BY <2>1, <2>7, <2>8, ImmAssumption DEF Value, CELL_P, Black
    <2> QED
      BY <1>4, <2>6, <2>11, <2>12, <2>13
  <1> QED
    BY <1>2, <1>3, <1>4

\* New fields in a cell disturb neither the places of the cells nor the headers.
LEMMA Refield ==
  ASSUME NEW f, NEW t, NEW m, Sound(m, f, t), NEW c \in DOMAIN m.heap,
         NEW o \in Object, o.size = m.heap[c].size,
         NEW n, n = [heap |-> [m.heap EXCEPT ![c] = o], hdr |-> m.hdr, ntop |-> m.ntop,
                     ttop |-> m.ttop, rem |-> m.rem, full |-> m.full]
  PROVE  Sound(n, f, t) /\ Grows(m, n, f, {c}) /\ n.heap[c] = o /\ n.hdr = m.hdr
  <1>1. /\ n = [heap |-> n.heap, hdr |-> n.hdr, ntop |-> n.ntop, ttop |-> n.ttop,
                rem |-> n.rem, full |-> n.full]
        /\ n.heap = [m.heap EXCEPT ![c] = o] /\ n.hdr = m.hdr
        /\ n.ntop = m.ntop /\ n.ttop = m.ttop /\ n.rem = m.rem /\ n.full = m.full
    OBVIOUS
  <1>2. Typed(m)
    BY DEF Sound
  <1>3. /\ DOMAIN n.heap = DOMAIN m.heap /\ n.heap[c] = o
        /\ \A x \in DOMAIN m.heap : x # c => n.heap[x] = m.heap[x]
        /\ \A x \in DOMAIN m.heap : n.heap[x].size = m.heap[x].size
        /\ n.heap \in [DOMAIN n.heap -> Object]
    BY <1>1, <1>2 DEF Typed
  <1>4. Typed(n)
    BY <1>1, <1>2, <1>3 DEF Typed
  <1>5. Tiled(n)
    BY <1>3 DEF Sound, Tiled, Disjoint
  <1>6. \A x \in DOMAIN m.heap : End(n, x) = End(m, x) /\ Extent(n.heap, x) = Extent(m.heap, x)
    BY <1>3 DEF End, Extent
  <1>7. Parted(n, f, t)
    BY <1>1, <1>3, <1>6 DEF Sound, Parted
  <1>8. Uncop(n, f) = Uncop(m, f) /\ Uncop(m, f) \subseteq DOMAIN m.heap
    BY <1>1, <1>3 DEF Uncop
  <1>9. UncopBytes(n, f) = UncopBytes(m, f)
    BY <1>6, <1>8 DEF UncopBytes
  <1>10. Room(n, f, t)
    BY <1>1, <1>9 DEF Sound, Room
  <1>11. Gapless(n, t, t + nersary_heap_size, n.ntop)
    BY <1>1, <1>3, <1>6 DEF Sound, Gapless
  <1>12. Forwarded(n, f)
    BY <1>1, <1>3 DEF Sound, Forwarded
  <1>13. RemOK(n, n.ttop)
    BY <1>1, <1>3 DEF Sound, RemOK, Listed
  <1>14. Gapless(n, tenured_space, n.ttop, n.ttop)
    BY <1>1, <1>3, <1>6 DEF Sound, Gapless
  <1>15. Grows(m, n, f, {c})
    BY <1>1, <1>2, <1>3 DEF Grows, Typed
  <1> QED
    BY <1>1, <1>3, <1>4, <1>5, <1>7, <1>10, <1>11, <1>12, <1>13, <1>14, <1>15 DEF Sound

\* A cell with another value in a field.
LEMMA NewFields ==
  ASSUME NEW o \in Object, NEW w \in Value
  PROVE  /\ CELL_P(w) <=> CELL_P(o.car) =>
              /\ [o EXCEPT !.car = w] \in Object /\ [o EXCEPT !.car = w].size = o.size
              /\ [o EXCEPT !.car = w].car = w /\ [o EXCEPT !.car = w].cdr = o.cdr
              /\ [o EXCEPT !.car = w].type = o.type
         /\ CELL_P(w) <=> CELL_P(o.cdr) =>
              /\ [o EXCEPT !.cdr = w] \in Object /\ [o EXCEPT !.cdr = w].size = o.size
              /\ [o EXCEPT !.cdr = w].car = o.car /\ [o EXCEPT !.cdr = w].cdr = w
              /\ [o EXCEPT !.cdr = w].type = o.type
  BY DEF Object, Value, CELL_P

-----------------------------------------------------------------------------
(* What the copies stand for. *)

\* The cells that have a copy, and the copies.
Gone(m, f)  == {a \in DOMAIN m.heap : In(f, a) /\ m.hdr[a].forwarding # a}
Homes(m, f) == {m.hdr[a].forwarding : a \in Gone(m, f)}

\* The value v refers to, copies taken for the cells they were made of.
Stands(m, f, v) ==
  IF CELL_P(v) /\ \E a \in Gone(m, f) : m.hdr[a].forwarding = v
  THEN CHOOSE a \in Gone(m, f) : m.hdr[a].forwarding = v
  ELSE v

\* What the program sees at the address a.
Look(m, f, a) ==
  IF In(f, a)
  THEN [type |-> m.heap[a].type, car |-> m.heap[a].car, cdr |-> m.heap[a].cdr]
  ELSE [type |-> m.heap[a].type, car |-> Stands(m, f, m.heap[a].car),
        cdr |-> Stands(m, f, m.heap[a].cdr)]

\* No two cells have one copy.
Paired(m, f) ==
  \A a, b \in Gone(m, f) : m.hdr[a].forwarding = m.hdr[b].forwarding => a = b

\* Copies are like their originals.
Faithful(m, f) ==
  \A a \in Gone(m, f) : LET c == m.hdr[a].forwarding IN
    /\ m.heap[c].type = m.heap[a].type
    /\ Stands(m, f, m.heap[c].car) = m.heap[a].car
    /\ Stands(m, f, m.heap[c].cdr) = m.heap[a].cdr

\* The cells of the old half refer to no copies.
Untouched(m, f) ==
  \A a \in DOMAIN m.heap : In(f, a) => \A v \in Fields(m.heap[a]) : v \notin Homes(m, f)

Whole(m) == \A a \in DOMAIN m.heap : \A v \in Fields(m.heap[a]) : CELL_P(v) => v \in DOMAIN m.heap

CopyInv(m, f) == Paired(m, f) /\ Faithful(m, f) /\ Untouched(m, f) /\ Whole(m)

\* From m to n the program sees no difference.
SameView(m, n, f) ==
  /\ \A v : (CELL_P(v) => v \in DOMAIN m.heap) => Stands(n, f, v) = Stands(m, f, v)
  /\ DOMAIN n.heap \ Homes(n, f) = DOMAIN m.heap \ Homes(m, f)
  /\ \A a \in DOMAIN m.heap \ Homes(m, f) : Look(n, f, a) = Look(m, f, a)

\* Each new cell is the copy of one that had none.
Counted(m, n, f) ==
  /\ Uncop(n, f) \subseteq Uncop(m, f)
  /\ \A a \in DOMAIN m.heap \ Uncop(m, f) : n.hdr[a].forwarding = m.hdr[a].forwarding
  /\ \A a \in DOMAIN n.heap \ DOMAIN m.heap :
       \E v \in Uncop(m, f) \ Uncop(n, f) : n.hdr[v].forwarding = a

\* n is m with cells copied and references to them replaced.
Copies(m, n, f) ==
  /\ DOMAIN m.heap \subseteq DOMAIN n.heap
  /\ Counted(m, n, f)
  /\ CopyInv(m, f) => CopyInv(n, f) /\ SameView(m, n, f)

LEMMA CopiesSelf ==
  ASSUME NEW m, NEW f
  PROVE  Copies(m, m, f)
  BY DEF Copies, Counted, SameView

LEMMA CopiesTrans ==
  ASSUME NEW m, NEW n, NEW p, NEW f, Copies(m, n, f), Copies(n, p, f)
  PROVE  Copies(m, p, f)
  <1>1. DOMAIN m.heap \subseteq DOMAIN n.heap /\ DOMAIN n.heap \subseteq DOMAIN p.heap
        /\ Counted(m, n, f) /\ Counted(n, p, f)
    BY DEF Copies
  <1>2. Uncop(p, f) \subseteq Uncop(n, f) /\ Uncop(n, f) \subseteq Uncop(m, f)
        /\ Uncop(m, f) \subseteq DOMAIN m.heap
    BY <1>1 DEF Counted, Uncop
  <1>3. \A a \in DOMAIN m.heap \ Uncop(m, f) : p.hdr[a].forwarding = m.hdr[a].forwarding
    <2>1. \A a \in DOMAIN m.heap \ Uncop(m, f) : n.hdr[a].forwarding = m.hdr[a].forwarding
      BY <1>1 DEF Counted
    <2>2. \A a \in DOMAIN n.heap \ Uncop(n, f) : p.hdr[a].forwarding = n.hdr[a].forwarding
      BY <1>1 DEF Counted
    <2> QED
      BY <1>1, <1>2, <2>1, <2>2
  <1>4. ASSUME NEW a \in DOMAIN p.heap \ DOMAIN m.heap
        PROVE  \E v \in Uncop(m, f) \ Uncop(p, f) : p.hdr[v].forwarding = a
    <2>1. CASE a \in DOMAIN n.heap
      <3>1. PICK v \in Uncop(m, f) \ Uncop(n, f) : n.hdr[v].forwarding = a
        BY <1>1, <2>1 DEF Counted
      <3>2. v \in DOMAIN n.heap
        BY <1>1, <1>2
      <3>3. p.hdr[v].forwarding = n.hdr[v].forwarding
        BY <1>1, <3>2 DEF Counted
      <3> QED
        BY <1>2, <3>1, <3>3
    <2>2. CASE a \notin DOMAIN n.heap
      <3>1. PICK v \in Uncop(n, f) \ Uncop(p, f) : p.hdr[v].forwarding = a
        BY <1>1, <2>2 DEF Counted
      <3> QED
        BY <1>2, <3>1
    <2> QED
      BY <2>1, <2>2
  <1>5. Counted(m, p, f)
    BY <1>2, <1>3, <1>4 DEF Counted
  <1>6. ASSUME CopyInv(m, f)
        PROVE  CopyInv(p, f) /\ SameView(m, p, f)
    <2>1. CopyInv(n, f) /\ SameView(m, n, f)
      BY <1>6 DEF Copies
    <2>2. CopyInv(p, f) /\ SameView(n, p, f)
      BY <2>1 DEF Copies
    <2>3. \A v : (CELL_P(v) => v \in DOMAIN m.heap) => Stands(p, f, v) = Stands(m, f, v)
      <3>1. \A v : (CELL_P(v) => v \in DOMAIN m.heap) => Stands(n, f, v) = Stands(m, f, v)
        BY <2>1 DEF SameView
      <3>2. \A v : (CELL_P(v) => v \in DOMAIN n.heap) => Stands(p, f, v) = Stands(n, f, v)
        BY <2>2 DEF SameView
      <3> QED
        BY <1>1, <3>1, <3>2
    <2>4. /\ DOMAIN p.heap \ Homes(p, f) = DOMAIN m.heap \ Homes(m, f)
          /\ \A a \in DOMAIN m.heap \ Homes(m, f) : Look(p, f, a) = Look(m, f, a)
      BY <2>1, <2>2 DEF SameView
    <2> QED
      BY <2>2, <2>3, <2>4 DEF SameView
  <1> QED
    BY <1>1, <1>5, <1>6 DEF Copies

\* A copy stands for its original, and everything else for itself.
LEMMA StandsFacts ==
  ASSUME NEW m, NEW f, Paired(m, f)
  PROVE  /\ \A a \in Gone(m, f) : CELL_P(m.hdr[a].forwarding)
                                    => Stands(m, f, m.hdr[a].forwarding) = a
         /\ \A v : v \notin Homes(m, f) => Stands(m, f, v) = v
         /\ \A v : ~CELL_P(v) => Stands(m, f, v) = v
  <1>1. ASSUME NEW a \in Gone(m, f), CELL_P(m.hdr[a].forwarding)
        PROVE  Stands(m, f, m.hdr[a].forwarding) = a
    <2>1. \A b \in Gone(m, f) : m.hdr[b].forwarding = m.hdr[a].forwarding => b = a
      BY DEF Paired
    <2> QED
      BY <1>1, <2>1 DEF Stands
  <1>2. ASSUME NEW v, v \notin Homes(m, f)
        PROVE  Stands(m, f, v) = v
    BY <1>2 DEF Stands, Homes
  <1>3. ASSUME NEW v, ~CELL_P(v)
        PROVE  Stands(m, f, v) = v
    BY <1>3 DEF Stands
  <1> QED
    BY <1>1, <1>2, <1>3

\* Only the cells, their places and where they forward to matter.
LEMMA CopiesAlike ==
  ASSUME NEW m, NEW n, NEW p, NEW f, Copies(m, n, f), p.heap = n.heap,
         \A a \in DOMAIN n.heap : p.hdr[a].forwarding = n.hdr[a].forwarding
  PROVE  Copies(m, p, f)
  <1>1. Uncop(p, f) = Uncop(n, f) /\ Gone(p, f) = Gone(n, f) /\ Uncop(n, f) \subseteq DOMAIN n.heap
        /\ Gone(n, f) \subseteq DOMAIN n.heap
    BY DEF Uncop, Gone
  <1>2. Homes(p, f) = Homes(n, f)
    BY <1>1 DEF Homes
  <1>3. \A v : Stands(p, f, v) = Stands(n, f, v)
    <2> TAKE v
    <2>1. \A a : a \in Gone(p, f) /\ p.hdr[a].forwarding = v <=> a \in Gone(n, f) /\ n.hdr[a].forwarding = v
      BY <1>1
    <2>2. (CHOOSE a : a \in Gone(p, f) /\ p.hdr[a].forwarding = v)
            = (CHOOSE a : a \in Gone(n, f) /\ n.hdr[a].forwarding = v)
      BY <2>1
    <2> QED
      BY <2>1, <2>2 DEF Stands
  <1>4. \A a : Look(p, f, a) = Look(n, f, a)
    BY <1>3 DEF Look
  <1>5. DOMAIN m.heap \subseteq DOMAIN n.heap /\ Counted(m, n, f)
    BY DEF Copies
  <1>6. Counted(m, p, f)
    BY <1>1, <1>5 DEF Counted, Uncop
  <1>7. CopyInv(n, f) => CopyInv(p, f)
    <2>1. Paired(n, f) => Paired(p, f)
      BY <1>1 DEF Paired
    <2>2. Faithful(n, f) => Faithful(p, f)
      BY <1>1, <1>3 DEF Faithful
    <2>3. Untouched(n, f) => Untouched(p, f)
      BY <1>2 DEF Untouched
    <2>4. Whole(n) => Whole(p)
      BY DEF Whole
    <2> QED
      BY <2>1, <2>2, <2>3, <2>4 DEF CopyInv
  <1>8. SameView(m, n, f) => SameView(m, p, f)
    BY <1>2, <1>3, <1>4 DEF SameView
  <1> QED
    BY <1>5, <1>6, <1>7, <1>8 DEF Copies

\* One cell more is copied.
LEMMA CopyCopies ==
  ASSUME NEW f, NEW t, HalvesApart(f, t), NEW m, Sound(m, f, t), NEW v \in Uncop(m, f),
         NEW n, NEW to, IsCopy(m, n, v, to), ~In(f, to)
  PROVE  Copies(m, n, f)
  <1>1. /\ Typed(m) /\ Tiled(m) /\ Forwarded(m, f) /\ v \in DOMAIN m.heap /\ In(f, v)
        /\ m.hdr[v].forwarding = v /\ to \in Nat /\ to \notin DOMAIN m.heap
    BY DEF Sound, Uncop, IsCopy
  <1>2. /\ DOMAIN n.heap = DOMAIN m.heap \cup {to}
        /\ \A x \in DOMAIN m.heap : n.heap[x] = m.heap[x]
        /\ n.heap[to] = m.heap[v] /\ n.hdr[v].forwarding = to /\ n.hdr[to].forwarding = to
        /\ \A x \in DOMAIN m.heap : x # v => n.hdr[x] = m.hdr[x]
    BY <1>1 DEF IsCopy
  <1>3. Uncop(n, f) = Uncop(m, f) \ {v} /\ Uncop(m, f) \subseteq DOMAIN m.heap
    BY UncopAfter DEF Uncop
  <1>4. Counted(m, n, f)
    BY <1>2, <1>3 DEF Counted
  <1>5. /\ Gone(n, f) = Gone(m, f) \cup {v} /\ v \notin Gone(m, f)
        /\ Gone(m, f) \subseteq DOMAIN m.heap
        /\ \A a \in Gone(m, f) : /\ n.hdr[a] = m.hdr[a] /\ m.hdr[a].forwarding \in DOMAIN m.heap
                                 /\ ~In(f, m.hdr[a].forwarding)
    <2>1. ASSUME NEW a
          PROVE  a \in Gone(n, f) <=> a \in Gone(m, f) \/ a = v
      BY <1>1, <1>2 DEF Gone
    <2>2. \A a \in Gone(m, f) : a # v
      BY <1>1 DEF Gone
    <2>3. \A a \in Gone(m, f) : /\ n.hdr[a] = m.hdr[a] /\ m.hdr[a].forwarding \in DOMAIN m.heap
                                /\ ~In(f, m.hdr[a].forwarding)
      BY <1>1, <1>2, <2>2 DEF Gone, Forwarded
    <2> QED
      BY <2>1, <2>2, <2>3 DEF Gone
  <1>6. Homes(n, f) = Homes(m, f) \cup {to} /\ Homes(m, f) \subseteq DOMAIN m.heap
    <2>1. \A x : x \in Homes(n, f) <=> x \in Homes(m, f) \/ x = to
      BY <1>2, <1>5 DEF Homes
    <2>2. Homes(m, f) \subseteq DOMAIN m.heap
      BY <1>5 DEF Homes
    <2> QED
      BY <2>1, <2>2
  <1>7. CELL_P(to) /\ \A x \in DOMAIN m.heap : CELL_P(x)
    BY <1>1, ImmAssumption DEF CELL_P, Typed
  <1>8. ASSUME CopyInv(m, f)
        PROVE  CopyInv(n, f) /\ SameView(m, n, f)
    <2>1. Paired(m, f) /\ Faithful(m, f) /\ Untouched(m, f) /\ Whole(m)
      BY <1>8 DEF CopyInv
    <2>2. Paired(n, f)
      BY <1>1, <1>2, <1>5, <2>1 DEF Paired
    <2>4. ASSUME NEW w, CELL_P(w) => w \in DOMAIN m.heap
          PROVE  Stands(n, f, w) = Stands(m, f, w)
      <3>1. CASE w \in Homes(m, f) /\ CELL_P(w)
        <4>1. PICK a \in Gone(m, f) : m.hdr[a].forwarding = w
          BY <3>1 DEF Homes
        <4>2. a \in Gone(n, f) /\ n.hdr[a].forwarding = w
          BY <1>5, <4>1
        <4> QED
          BY <2>1, <2>2, <3>1, <4>1, <4>2, StandsFacts
      <3>2. CASE w \notin Homes(m, f) \/ ~CELL_P(w)
        <4>1. Stands(m, f, w) = w
          BY <2>1, <3>2, StandsFacts
        <4>2. w \notin Homes(n, f) \/ ~CELL_P(w)
          BY <1>1, <1>6, <2>4, <3>2
        <4>3. Stands(n, f, w) = w
          BY <2>2, <4>2, StandsFacts
        <4> QED
          BY <4>1, <4>3
      <3> QED
        BY <3>1, <3>2
    <2>5. \A a \in DOMAIN m.heap : /\ Stands(n, f, m.heap[a].car) = Stands(m, f, m.heap[a].car)
                                   /\ Stands(n, f, m.heap[a].cdr) = Stands(m, f, m.heap[a].cdr)
      BY <2>1, <2>4 DEF Whole, Fields
    <2>6. Faithful(n, f)
      <3> SUFFICES ASSUME NEW a \in Gone(n, f), NEW c, c = n.hdr[a].forwarding
                   PROVE  /\ n.heap[c].type = n.heap[a].type
                          /\ Stands(n, f, n.heap[c].car) = n.heap[a].car
                          /\ Stands(n, f, n.heap[c].cdr) = n.heap[a].cdr
        BY DEF Faithful
      <3>1. CASE a \in Gone(m, f)
        <4>1. c = m.hdr[a].forwarding /\ c \in DOMAIN m.heap /\ a \in DOMAIN m.heap
          BY <1>5, <3>1
        <4>2. /\ m.heap[c].type = m.heap[a].type
              /\ Stands(m, f, m.heap[c].car) = m.heap[a].car
              /\ Stands(m, f, m.heap[c].cdr) = m.heap[a].cdr
          BY <2>1, <3>1, <4>1 DEF Faithful
        <4>3. n.heap[a] = m.heap[a] /\ n.heap[c] = m.heap[c]
          BY <1>2, <4>1
        <4> QED
          BY <2>5, <4>1, <4>2, <4>3
      <3>2. CASE a = v
        <4>1. c = to /\ n.heap[c] = m.heap[v] /\ n.heap[a] = m.heap[v]
          BY <1>1, <1>2, <3>2
        <4>2. m.heap[v].car \notin Homes(m, f) /\ m.heap[v].cdr \notin Homes(m, f)
          BY <1>1, <2>1 DEF Untouched, Fields
        <4>3. /\ Stands(m, f, m.heap[v].car) = m.heap[v].car
              /\ Stands(m, f, m.heap[v].cdr) = m.heap[v].cdr
          BY <2>1, <4>2, StandsFacts
        <4> QED
          BY <1>1, <2>5, <4>1, <4>3
      <3> QED
        BY <1>5, <3>1, <3>2
    <2>7. Untouched(n, f)
      <3> SUFFICES ASSUME NEW a \in DOMAIN n.heap, In(f, a), NEW w \in Fields(n.heap[a])
                   PROVE  w \notin Homes(n, f)
        BY DEF Untouched
      <3>1. a \in DOMAIN m.heap /\ n.heap[a] = m.heap[a]
        BY <1>2
      <3>2. w \notin Homes(m, f) /\ (CELL_P(w) => w \in DOMAIN m.heap)
        BY <2>1, <3>1 DEF Untouched, Whole
      <3> QED
        BY <1>1, <1>6, <1>7, <3>2
    <2>8. Whole(n)
      BY <1>1, <1>2, <2>1 DEF Whole
    <2>9. SameView(m, n, f)
      <3>1. DOMAIN n.heap \ Homes(n, f) = DOMAIN m.heap \ Homes(m, f)
        BY <1>1, <1>2, <1>6
      <3>2. \A a \in DOMAIN m.heap : Look(n, f, a) = Look(m, f, a)
        BY <1>2, <2>5 DEF Look
      <3> QED
        BY <2>4, <3>1, <3>2 DEF SameView
    <2> QED
      BY <2>2, <2>6, <2>7, <2>8, <2>9 DEF CopyInv
  <1> QED
    BY <1>2, <1>4, <1>8 DEF Copies

\* The value w may replace v.
MayReplace(m, f, w, v) == /\ CELL_P(w) => w \in DOMAIN m.heap
                        /\ Stands(m, f, w) = Stands(m, f, v)

LEMMA RefieldCopies ==
  ASSUME NEW m, NEW f, NEW c \in DOMAIN m.heap, ~In(f, c), NEW o,
         CopyInv(m, f) => /\ o.type = m.heap[c].type /\ MayReplace(m, f, o.car, m.heap[c].car)
                          /\ MayReplace(m, f, o.cdr, m.heap[c].cdr),
         NEW n, n.heap = [m.heap EXCEPT ![c] = o], n.hdr = m.hdr
  PROVE  Copies(m, n, f)
  <1>1. /\ DOMAIN n.heap = DOMAIN m.heap /\ n.heap[c] = o
        /\ \A a \in DOMAIN m.heap : a # c => n.heap[a] = m.heap[a]
    OBVIOUS
  <1>2. Uncop(n, f) = Uncop(m, f) /\ Gone(n, f) = Gone(m, f)
    BY <1>1 DEF Uncop, Gone
  <1>3. Homes(n, f) = Homes(m, f)
    BY <1>2 DEF Homes
  <1>4. \A v : Stands(n, f, v) = Stands(m, f, v)
    BY <1>2 DEF Stands
  <1>5. Counted(m, n, f)
    BY <1>1, <1>2 DEF Counted
  <1>6. ASSUME CopyInv(m, f)
        PROVE  CopyInv(n, f) /\ SameView(m, n, f)
    <2>1. Paired(m, f) /\ Faithful(m, f) /\ Untouched(m, f) /\ Whole(m)
      BY <1>6 DEF CopyInv
    <2>2. /\ o.type = m.heap[c].type
          /\ Stands(m, f, o.car) = Stands(m, f, m.heap[c].car)
          /\ Stands(m, f, o.cdr) = Stands(m, f, m.heap[c].cdr)
          /\ \A v \in Fields(o) : CELL_P(v) => v \in DOMAIN m.heap
      BY <1>6 DEF MayReplace, Fields
    <2>3. \A a \in DOMAIN m.heap : /\ n.heap[a].type = m.heap[a].type
                                   /\ Stands(n, f, n.heap[a].car) = Stands(m, f, m.heap[a].car)
                                   /\ Stands(n, f, n.heap[a].cdr) = Stands(m, f, m.heap[a].cdr)
                                   /\ In(f, a) => n.heap[a] = m.heap[a]
      BY <1>1, <1>4, <2>2
    <2>4. Paired(n, f)
      BY <1>2, <2>1 DEF Paired
    <2>5. Faithful(n, f)
      <3> SUFFICES ASSUME NEW a \in Gone(m, f), NEW e, e = m.hdr[a].forwarding
                   PROVE  /\ n.heap[e].type = n.heap[a].type
                          /\ Stands(n, f, n.heap[e].car) = n.heap[a].car
                          /\ Stands(n, f, n.heap[e].cdr) = n.heap[a].cdr
        BY <1>2 DEF Faithful
      <3>1. /\ m.heap[e].type = m.heap[a].type
            /\ Stands(m, f, m.heap[e].car) = m.heap[a].car
            /\ Stands(m, f, m.heap[e].cdr) = m.heap[a].cdr
        BY <2>1 DEF Faithful
      <3>2. a \in DOMAIN m.heap /\ In(f, a) /\ n.heap[a] = m.heap[a]
        BY <2>3 DEF Gone
      <3>3. CASE e = c
        BY <2>3, <3>1, <3>2, <3>3
      <3>4. CASE e # c
        <4>1. n.heap[e] = m.heap[e]
          BY <3>4
        <4> QED
          BY <1>4, <3>1, <3>2, <4>1
      <3> QED
        BY <3>3, <3>4
    <2>6. Untouched(n, f)
      BY <1>1, <1>3, <2>1, <2>3 DEF Untouched
    <2>7. Whole(n)
      BY <1>1, <2>1, <2>2 DEF Whole
    <2>8. SameView(m, n, f)
      <3>1. \A a \in DOMAIN m.heap : Look(n, f, a) = Look(m, f, a)
        BY <2>3 DEF Look
      <3> QED
        BY <1>1, <1>3, <1>4, <3>1 DEF SameView
    <2> QED
      BY <2>4, <2>5, <2>6, <2>7, <2>8 DEF CopyInv
  <1> QED
    BY <1>1, <1>5, <1>6 DEF Copies

\* What copy_and_update stores may replace what was there.
LEMMA CopyReplaces ==
  ASSUME NEW f, NEW t, HalvesApart(f, t), NEW n, Sound(n, f, t), CopyInv(n, f),
         NEW v, White(n, f, v), Black(n, f, CopyOf(n, v))
  PROVE  MayReplace(n, f, CopyOf(n, v), v)
  <1>1. Typed(n) /\ Tiled(n) /\ Forwarded(n, f) /\ Paired(n, f)
    BY DEF Sound, CopyInv
  <1>2. CELL_P(CopyOf(n, v)) => CopyOf(n, v) \in DOMAIN n.heap
    BY DEF Black
  <1>3. CASE ~CELL_P(v)
    BY <1>2, <1>3 DEF MayReplace, CopyOf
  <1>4. CASE CELL_P(v) /\ ~In(f, v)
    <2>1. CopyOf(n, v) = v
      BY <1>1, <1>4 DEF CopyOf, White, Forwarded
    <2> QED
      BY <1>2, <2>1 DEF MayReplace
  <1>5. CASE CELL_P(v) /\ In(f, v)
    <2>1. v \in DOMAIN n.heap /\ CopyOf(n, v) = n.hdr[v].forwarding
      BY <1>5 DEF White, CopyOf
    <2>2. CELL_P(n.hdr[v].forwarding)
      BY <1>1, <2>1, CellFacts, ImmAssumption DEF Header, CELL_P
    <2>3. v \in Gone(n, f)
      BY <1>5, <2>1, <2>2 DEF Gone, Black
    <2>4. v \notin Homes(n, f)
      BY <1>1, <1>5 DEF Homes, Gone, Forwarded
    <2>5. Stands(n, f, n.hdr[v].forwarding) = v /\ Stands(n, f, v) = v
      BY <1>1, <2>2, <2>3, <2>4, StandsFacts
    <2> QED
      BY <1>2, <2>1, <2>5 DEF MayReplace
  <1> QED
    BY <1>3, <1>4, <1>5

\* copy_and_update.
LEMMA CopiedCopies ==
  ASSUME NEW f, NEW t, HalvesApart(f, t), NEW m, Sound(m, f, t),
         NEW v, White(m, f, v), NEW n, n = Copied(m, v)
  PROVE  Copies(m, n, f)
  <1>1. CASE n = m
    BY <1>1, CopiesSelf
  <1>2. CASE CELL_P(v) /\ m.hdr[v].forwarding = v /\ ~m.hdr[v].tenured
    <2>1. n = copy_object(m, v) /\ v \in DOMAIN m.heap
      BY <1>2 DEF Copied, White
    <2>2. In(f, v)
      BY <1>2, <2>1 DEF Sound, White, Forwarded, BitsOK
    <2>3. v \in Uncop(m, f)
      BY <1>2, <2>1, <2>2 DEF Uncop
    <2>4. PICK to : IsCopy(m, n, v, to) /\ (ToYoung(m, n, v, to, t) \/ ToOld(m, n, v, to))
      BY <2>1, <2>3, CopyShape
    <2>5. ~In(f, to)
      BY <2>3, <2>4, CopyPlace
    <2> QED
      BY <2>3, <2>4, <2>5, CopyCopies
  <1> QED
    BY <1>1, <1>2 DEF Copied

\* trace_object(c, copy_and_update) of a cell that was not visited before.
LEMMA CopyFieldsFacts ==
  ASSUME NEW f, NEW t, HalvesApart(f, t), NEW m, Sound(m, f, t), FromWhite(m, f),
         NEW c \in DOMAIN m.heap, ~In(f, c), WhiteCell(m, f, c),
         NEW n, n = CopyFields(m, c)
  PROVE  /\ Sound(n, f, t) /\ Grows(m, n, f, {c}) /\ FromWhite(n, f) /\ BlackCell(n, f, c)
         /\ n.heap[c].size = m.heap[c].size /\ Copies(m, n, f)
  <1> DEFINE u  == m.heap[c].car
             v  == m.heap[c].cdr
             m1 == Copied(m, u)
             o1 == [m.heap[c] EXCEPT !.car = CopyOf(m1, u)]
             m2 == [m1 EXCEPT !.heap[c].car = CopyOf(m1, @)]
             m3 == Copied(m2, v)
             o3 == [m2.heap[c] EXCEPT !.cdr = CopyOf(m3, v)]
  <1>1. /\ u \in Value /\ v \in Value /\ White(m, f, u) /\ White(m, f, v)
        /\ m.heap[c] \in Object /\ Typed(m)
    BY CellFacts DEF Sound, WhiteCell, Fields
  <1>2. /\ Sound(m1, f, t) /\ Grows(m, m1, f, {}) /\ FromWhite(m1, f)
        /\ CopyOf(m1, u) \in Value /\ Black(m1, f, CopyOf(m1, u))
        /\ CELL_P(CopyOf(m1, u)) <=> CELL_P(u)
    BY <1>1, CopiedFacts
  <1>3. Typed(m1) /\ c \in DOMAIN m1.heap /\ m1.heap[c] = m.heap[c]
        /\ DOMAIN m.heap \subseteq DOMAIN m1.heap
    BY <1>2 DEF Sound, Grows
  <1>4. /\ o1 \in Object /\ o1.size = m.heap[c].size /\ o1.car = CopyOf(m1, u) /\ o1.cdr = v
        /\ o1.type = m.heap[c].type
    BY <1>1, <1>2, NewFields
  <1>17. Copies(m, m1, f)
    BY <1>1, CopiedCopies
  <1>5. m2 = [heap |-> [m1.heap EXCEPT ![c] = o1], hdr |-> m1.hdr, ntop |-> m1.ntop,
              ttop |-> m1.ttop, rem |-> m1.rem, full |-> m1.full]
    <2>1. m1 = [heap |-> m1.heap, hdr |-> m1.hdr, ntop |-> m1.ntop, ttop |-> m1.ttop,
                rem |-> m1.rem, full |-> m1.full]
          /\ m1.heap \in [DOMAIN m1.heap -> Object]
      BY <1>3 DEF Typed
    <2> HIDE DEF m1
    <2> QED
      BY <1>3, <2>1
  <1> HIDE DEF o1, m1, m2
  <1>6. Sound(m2, f, t) /\ Grows(m1, m2, f, {c}) /\ m2.heap[c] = o1 /\ m2.hdr = m1.hdr
    BY <1>2, <1>3, <1>4, <1>5, Refield
  <1>18. Copies(m1, m2, f)
    <2>1. White(m1, f, u) /\ White(m1, f, v)
      BY <1>1, <1>3, ColoursStay
    <2>2. CopyInv(m1, f) => MayReplace(m1, f, o1.car, u)
      BY <1>2, <1>4, <2>1, CopyReplaces
    <2>3. CopyInv(m1, f) => MayReplace(m1, f, o1.cdr, v)
      BY <1>4, <2>1 DEF MayReplace, White
    <2>4. m2.heap = [m1.heap EXCEPT ![c] = o1] /\ m2.hdr = m1.hdr
      BY <1>5
    <2>5. /\ o1.type = m1.heap[c].type /\ m1.heap[c].car = u /\ m1.heap[c].cdr = v
          /\ c \in DOMAIN m1.heap
      BY <1>3, <1>4
    <2>6. CopyInv(m1, f) => /\ o1.type = m1.heap[c].type
                            /\ MayReplace(m1, f, o1.car, m1.heap[c].car)
                            /\ MayReplace(m1, f, o1.cdr, m1.heap[c].cdr)
      BY <2>2, <2>3, <2>5
    <2> HIDE DEF u, v
    <2> QED
      BY <2>4, <2>5, <2>6, RefieldCopies
  <1>7. FromWhite(m2, f) /\ DOMAIN m1.heap \subseteq DOMAIN m2.heap /\ Typed(m2)
    <2>1. \A x \in {c} : ~In(f, x)
      OBVIOUS
    <2>2. FromWhite(m2, f)
      BY <1>2, <1>6, <2>1, FromWhiteStays
    <2> QED
      BY <1>6, <2>2 DEF Grows, Sound
  <1>8. White(m2, f, v)
    BY <1>1, <1>3, <1>7, ColoursStay
  <1>9. /\ Sound(m3, f, t) /\ Grows(m2, m3, f, {}) /\ FromWhite(m3, f)
        /\ CopyOf(m3, v) \in Value /\ Black(m3, f, CopyOf(m3, v))
        /\ CELL_P(CopyOf(m3, v)) <=> CELL_P(v)
    BY <1>1, <1>6, <1>7, <1>8, CopiedFacts
  <1>10. Typed(m3) /\ c \in DOMAIN m3.heap /\ m3.heap[c] = m2.heap[c]
         /\ DOMAIN m2.heap \subseteq DOMAIN m3.heap
    BY <1>3, <1>7, <1>9 DEF Sound, Grows
  <1>11. /\ o3 \in Object /\ o3.size = m.heap[c].size
         /\ o3.car = CopyOf(m1, u) /\ o3.cdr = CopyOf(m3, v) /\ o3.type = m.heap[c].type
         /\ m2.heap[c].car = CopyOf(m1, u) /\ m2.heap[c].cdr = v /\ m2.heap[c].type = m.heap[c].type
    BY <1>4, <1>6, <1>9, NewFields
  <1>12. n = [heap |-> [m3.heap EXCEPT ![c] = o3], hdr |-> m3.hdr, ntop |-> m3.ntop,
              ttop |-> m3.ttop, rem |-> m3.rem, full |-> m3.full]
    <2>1. m3 = [heap |-> m3.heap, hdr |-> m3.hdr, ntop |-> m3.ntop, ttop |-> m3.ttop,
                rem |-> m3.rem, full |-> m3.full]
          /\ m3.heap \in [DOMAIN m3.heap -> Object]
      BY <1>10 DEF Typed
    <2>2. n = [m3 EXCEPT !.heap[c].cdr = CopyOf(m3, @)]
      <3>1. m2.heap[c].cdr = v
        BY <1>4, <1>6
      <3> QED
        BY <3>1 DEF CopyFields, m2, m1
    <2>3. m3.heap[c].cdr = v
      BY <1>4, <1>6, <1>10
    <2> HIDE DEF m3
    <2> QED
      BY <1>10, <2>1, <2>2, <2>3
  <1> HIDE DEF m3, o3
  <1>13. Sound(n, f, t) /\ Grows(m3, n, f, {c}) /\ n.heap[c] = o3
    BY <1>4, <1>6, <1>9, <1>10, <1>11, <1>12, Refield
  <1>19. Copies(m2, m3, f)
    BY <1>6, <1>8, CopiedCopies DEF m3
  <1>20. Copies(m3, n, f)
    <2>1. Black(m3, f, CopyOf(m1, u)) /\ White(m3, f, v)
      BY <1>2, <1>7, <1>8, <1>10, ColoursStay
    <2>2. CopyInv(m3, f) => MayReplace(m3, f, o3.cdr, v)
      BY <1>9, <1>11, <2>1, CopyReplaces
    <2>3. MayReplace(m3, f, o3.car, CopyOf(m1, u))
      BY <1>11, <2>1 DEF MayReplace, Black
    <2>4. n.heap = [m3.heap EXCEPT ![c] = o3] /\ n.hdr = m3.hdr
      BY <1>12
    <2> QED
      BY <1>10, <1>11, <2>2, <2>3, <2>4, RefieldCopies
  <1>21. Copies(m, n, f)
    BY <1>17, <1>18, <1>19, <1>20, CopiesTrans
  <1>14. FromWhite(n, f) /\ DOMAIN m3.heap \subseteq DOMAIN n.heap /\ Typed(n)
    <2>1. \A x \in {c} : ~In(f, x)
      OBVIOUS
    <2>2. FromWhite(n, f)
      BY <1>9, <1>13, <2>1, FromWhiteStays
    <2> QED
      BY <1>13, <2>2 DEF Grows, Sound
  <1>15. Grows(m, n, f, {c})
    <2>1. Grows(m, m1, f, {c}) /\ Grows(m2, m3, f, {c})
      BY <1>2, <1>3, <1>9 DEF Grows
    <2>2. Grows(m, m2, f, {c})
      BY <1>1, <1>3, <1>6, <1>7, <2>1, GrowsTrans
    <2>3. Grows(m, m3, f, {c})
      BY <1>1, <1>7, <1>10, <2>1, <2>2, GrowsTrans
    <2> QED
      BY <1>1, <1>10, <1>13, <1>14, <2>3, GrowsTrans
  <1>16. BlackCell(n, f, c)
    <2>1. Black(n, f, CopyOf(m1, u))
      BY <1>2, <1>7, <1>10, <1>14, ColoursStay
    <2>2. Black(n, f, CopyOf(m3, v))
      BY <1>9, <1>14, ColoursStay
    <2>3. Fields(n.heap[c]) = {CopyOf(m1, u), CopyOf(m3, v)}
      BY <1>11, <1>13 DEF Fields
    <2> QED
      BY <2>1, <2>2, <2>3 DEF BlackCell
  <1> QED
    BY <1>11, <1>13, <1>14, <1>15, <1>16, <1>21

-----------------------------------------------------------------------------
(* The remembered set. *)

\* What Keep keeps.
LEMMA KeepFacts ==
  ASSUME NEW X, NEW list \in Seq(X), NEW S, NEW r, r = Keep(list, S)
  PROVE  /\ r \in Seq(X) /\ Len(r) <= Len(list)
         /\ Entries(r) = Entries(list) \cap S
         /\ Distinct(list) => Distinct(r)
  <1> DEFINE N       == Len(list)
             I       == {i \in 1 .. N : list[i] \in S}
             Upto(i) == {j \in I : j <= i}
             c       == Cardinality(I)
             g       == [i \in I |-> Cardinality(Upto(i))]
             At(n)   == CHOOSE i \in I : Cardinality(Upto(i)) = n
  <1>1. N \in Nat /\ IsFiniteSet(1 .. N) /\ Cardinality(1 .. N) = N
    <2>1. N \in Nat
      OBVIOUS
    <2> HIDE DEF N
    <2>2. 1 \in Int /\ N \in Int /\ (IF 1 > N THEN 0 ELSE N - 1 + 1) = N
      BY <2>1
    <2> QED
      BY <2>1, <2>2, FS_Interval
  <1>2. I \subseteq 1 .. N
    OBVIOUS
  <1>3. IsFiniteSet(I) /\ c \in Nat /\ c <= N
    BY <1>1, <1>2, FS_Subset, FS_CardinalityType
  <1>4. \A i \in I : Upto(i) \subseteq I /\ IsFiniteSet(Upto(i)) /\ Cardinality(Upto(i)) \in Nat
    <2> SUFFICES ASSUME NEW i \in I
                 PROVE  IsFiniteSet(Upto(i)) /\ Cardinality(Upto(i)) \in Nat
      OBVIOUS
    <2>1. Upto(i) \subseteq I
      OBVIOUS
    <2> HIDE DEF I, Upto
    <2> QED
      BY <1>3, <2>1, FS_Subset, FS_CardinalityType
  <1>5. ASSUME NEW i \in I
        PROVE  Cardinality(Upto(i)) \in 1 .. c
    <2>1. i \in Upto(i)
      BY <1>2
    <2>2. Upto(i) \subseteq I
      OBVIOUS
    <2> HIDE DEF I, Upto
    <2>3. Cardinality(Upto(i)) <= c
      BY <1>3, <2>2, FS_Subset
    <2>4. Cardinality(Upto(i)) # 0
      BY <1>4, <2>1, FS_EmptySet
    <2> QED
      BY <1>3, <1>4, <2>3, <2>4
  <1>6. ASSUME NEW i \in I, NEW j \in I, i < j
        PROVE  Cardinality(Upto(i)) # Cardinality(Upto(j))
    <2>1. j \in Upto(j) /\ j \notin Upto(i) /\ Upto(i) \subseteq Upto(j)
      BY <1>2, <1>6
    <2> HIDE DEF I, Upto
    <2> QED
      BY <1>4, <2>1, FS_Subset
  <1> HIDE DEF I, Upto, c
  <1>7. g \in Injection(I, 1 .. c)
    <2>1. g \in [I -> 1 .. c]
      BY <1>5
    <2>2. ASSUME NEW i \in I, NEW j \in I, g[i] = g[j]
          PROVE  i = j
      <3>1. i \in Nat /\ j \in Nat
        BY <1>1, <1>2
      <3> QED
        BY <1>6, <2>2, <3>1
    <2> QED
      BY <2>1, <2>2 DEF Injection, IsInjective
  <1>8. IsFiniteSet(1 .. c) /\ Cardinality(1 .. c) = c
    <2>1. 1 \in Int /\ c \in Int /\ (IF 1 > c THEN 0 ELSE c - 1 + 1) = c
      BY <1>3
    <2> QED
      BY <2>1, FS_Interval
  <1>9. g \in Surjection(I, 1 .. c)
    <2>1. Cardinality(I) = Cardinality(1 .. c)
      BY <1>8 DEF c
    <2> QED
      BY <1>7, <1>8, <2>1, FS_Injection
  <1>10. \A n \in 1 .. c : At(n) \in I /\ Cardinality(Upto(At(n))) = n
    BY <1>9 DEF Surjection
  <1>11. \A i \in I : \E n \in 1 .. c : At(n) = i
    <2> SUFFICES ASSUME NEW i \in I PROVE \E n \in 1 .. c : At(n) = i
      OBVIOUS
    <2> DEFINE n == Cardinality(Upto(i))
    <2>1. n \in 1 .. c
      BY <1>5
    <2>2. At(n) \in I /\ Cardinality(Upto(At(n))) = n
      BY <1>10, <2>1
    <2>3. \A a \in I : Cardinality(Upto(a)) = Cardinality(Upto(i)) => a = i
      <3> SUFFICES ASSUME NEW a \in I, Cardinality(Upto(a)) = Cardinality(Upto(i))
                   PROVE  a = i
        OBVIOUS
      <3>1. a \in Nat /\ i \in Nat
        BY <1>1, <1>2
      <3>2. ~(a < i) /\ ~(i < a)
        BY <1>6
      <3> QED
        BY <3>1, <3>2
    <2>4. At(n) = i
      BY <2>2, <2>3
    <2> QED
      BY <2>1, <2>4
  <1>12. r = [n \in 1 .. c |-> list[At(n)]]
    BY DEF Keep, I, Upto, c
  <1>13. \A i \in I : list[i] \in X /\ list[i] \in S /\ i \in 1 .. N
    BY <1>2 DEF I
  <1> HIDE DEF At, N
  <1>14. r \in Seq(X) /\ Len(r) = c
    BY <1>3, <1>10, <1>12, <1>13
  <1>15. Entries(r) = Entries(list) \cap S
    <2>1. ASSUME NEW x \in Entries(r)
          PROVE  x \in Entries(list) \cap S
      <3>1. PICK n \in 1 .. c : x = r[n]
        BY <1>14 DEF Entries
      <3>2. x = list[At(n)] /\ At(n) \in I
        BY <1>10, <1>12, <3>1
      <3> QED
        BY <1>13, <3>2 DEF Entries, N
    <2>2. ASSUME NEW x \in Entries(list), x \in S
          PROVE  x \in Entries(r)
      <3>1. PICK i \in 1 .. N : x = list[i]
        BY DEF Entries, N
      <3>2. i \in I
        BY <2>2, <3>1 DEF I, N
      <3>3. PICK n \in 1 .. c : At(n) = i
        BY <1>11, <3>2
      <3> QED
        BY <1>12, <1>14, <3>1, <3>3 DEF Entries
    <2> QED
      BY <2>1, <2>2
  <1>16. ASSUME Distinct(list)
         PROVE  Distinct(r)
    <2> SUFFICES ASSUME NEW i \in 1 .. c, NEW j \in 1 .. c, i # j
                 PROVE  r[i] # r[j]
      BY <1>14 DEF Distinct
    <2>1. At(i) # At(j)
      BY <1>10
    <2> QED
      BY <1>10, <1>12, <1>13, <1>16, <2>1 DEF Distinct, N
  <1> QED
    BY <1>3, <1>14, <1>15, <1>16 DEF N

\* Headers that differ in the remembered bit at most.
Alike(g, h) == g.forwarding = h.forwarding /\ g.age = h.age /\ (g.tenured <=> h.tenured)

LEMMA CleanFacts ==
  ASSUME NEW m, Typed(m), Distinct(m.rem), NEW garbage, NEW n, n = clean_remembered_set(m, garbage)
  PROVE  /\ Typed(n) /\ n.heap = m.heap /\ n.ntop = m.ntop /\ n.ttop = m.ttop /\ n.full = m.full
         /\ Distinct(n.rem) /\ Len(n.rem) <= Len(m.rem)
         /\ Listed(n) = Needed(m, garbage)
         /\ \A a \in DOMAIN m.heap :
              /\ Alike(n.hdr[a], m.hdr[a])
              /\ n.hdr[a].remembered <=> IF a \in Listed(m) THEN a \in Listed(n)
                                         ELSE m.hdr[a].remembered
  <1> DEFINE g(a) == IF a \in Listed(m)
                     THEN [m.hdr[a] EXCEPT !.remembered = a \in Needed(m, garbage)]
                     ELSE m.hdr[a]
  <1>1. /\ m.rem \in Seq(Nat) /\ m.hdr \in [DOMAIN m.heap -> Header]
        /\ m = [heap |-> m.heap, hdr |-> m.hdr, ntop |-> m.ntop, ttop |-> m.ttop,
                rem |-> m.rem, full |-> m.full]
    BY DEF Typed
  <1>2. n = [m EXCEPT !.rem = Keep(@, Needed(m, garbage)),
                      !.hdr = [a \in DOMAIN m.heap |-> g(a)]]
    BY <1>1 DEF clean_remembered_set
  <1>3. \A a \in DOMAIN m.heap :
          /\ g(a) \in Header /\ Alike(g(a), m.hdr[a])
          /\ g(a).remembered <=> IF a \in Listed(m) THEN a \in Needed(m, garbage)
                                 ELSE m.hdr[a].remembered
    <2> SUFFICES ASSUME NEW a \in DOMAIN m.heap, NEW h, h = m.hdr[a]
                 PROVE  /\ g(a) \in Header /\ Alike(g(a), h)
                        /\ g(a).remembered <=> IF a \in Listed(m) THEN a \in Needed(m, garbage)
                                               ELSE h.remembered
      OBVIOUS
    <2>1. h \in Header
      BY <1>1
    <2>2. \A b \in BOOLEAN : /\ [h EXCEPT !.remembered = b] \in Header
                             /\ Alike([h EXCEPT !.remembered = b], h)
                             /\ [h EXCEPT !.remembered = b].remembered = b
      BY <2>1 DEF Header, Alike
    <2>3. Alike(h, h)
      BY DEF Alike
    <2>4. (a \in Needed(m, garbage)) \in BOOLEAN
      OBVIOUS
    <2>5. CASE a \in Listed(m)
      <3>1. g(a) = [h EXCEPT !.remembered = a \in Needed(m, garbage)]
        BY <2>5
      <3>2. g(a) \in Header /\ Alike(g(a), h) /\ g(a).remembered = (a \in Needed(m, garbage))
        <4> DEFINE b == a \in Needed(m, garbage)
        <4>1. b \in BOOLEAN /\ g(a) = [h EXCEPT !.remembered = b]
          BY <3>1
        <4> HIDE DEF b, g
        <4>2. g(a) \in Header /\ Alike(g(a), h) /\ g(a).remembered = b
          BY <2>2, <4>1
        <4> QED
          BY <4>2 DEF b
      <3> HIDE DEF g
      <3> QED
        BY <2>5, <3>2
    <2>6. CASE a \notin Listed(m)
      BY <2>1, <2>3, <2>6
    <2> QED
      BY <2>5, <2>6
  <1> HIDE DEF g
  <1>4. /\ n = [heap |-> n.heap, hdr |-> n.hdr, ntop |-> n.ntop, ttop |-> n.ttop,
                rem |-> n.rem, full |-> n.full]
        /\ n.heap = m.heap /\ n.ntop = m.ntop /\ n.ttop = m.ttop /\ n.full = m.full
        /\ n.hdr = [a \in DOMAIN m.heap |-> g(a)]
        /\ n.rem = Keep(m.rem, Needed(m, garbage))
    BY <1>1, <1>2
  <1>5. /\ n.rem \in Seq(Nat) /\ Len(n.rem) <= Len(m.rem) /\ Distinct(n.rem)
        /\ Entries(n.rem) = Entries(m.rem) \cap Needed(m, garbage)
    BY <1>1, <1>4, KeepFacts
  <1>6. Typed(n)
    BY <1>3, <1>4, <1>5 DEF Typed
  <1>7. Listed(n) = Needed(m, garbage)
    BY <1>5 DEF Listed, Entries, Needed
  <1> QED
    BY <1>3, <1>4, <1>5, <1>6, <1>7

\* What add_remembered_set makes of m, if it does not end the program.
Added(m, n, c, garbage) ==
  /\ n.full = m.full
  /\ Distinct(n.rem) /\ Len(n.rem) <= REMEMBERED_SET_SIZE
  /\ c \in Listed(n) /\ Listed(n) \subseteq Listed(m) \cup {c}
  /\ \A a \in Listed(m) \ Listed(n) : ~HasNersary(m, a, garbage)
  /\ \A a \in DOMAIN m.heap :
       n.hdr[a].remembered <=> IF a \in Listed(m) \cup {c} THEN a \in Listed(n)
                               ELSE m.hdr[a].remembered

\* An entry more at the end of the set.
Appended(m, c) == [m EXCEPT !.rem = Append(@, c), !.hdr[c].remembered = TRUE]

LEMMA AppendFacts ==
  ASSUME NEW m, Typed(m), Distinct(m.rem), Len(m.rem) < REMEMBERED_SET_SIZE,
         NEW c \in DOMAIN m.heap, c \notin Listed(m),
         NEW n, n = Appended(m, c)
  PROVE  /\ Typed(n) /\ n.heap = m.heap /\ n.ntop = m.ntop /\ n.ttop = m.ttop /\ n.full = m.full
         /\ Distinct(n.rem) /\ Len(n.rem) <= REMEMBERED_SET_SIZE
         /\ Listed(n) = Listed(m) \cup {c}
         /\ \A a \in DOMAIN m.heap : /\ Alike(n.hdr[a], m.hdr[a])
                                     /\ n.hdr[a].remembered <=> (a = c \/ m.hdr[a].remembered)
  <1>1. /\ m.rem \in Seq(Nat) /\ m.hdr \in [DOMAIN m.heap -> Header] /\ c \in Nat
        /\ m = [heap |-> m.heap, hdr |-> m.hdr, ntop |-> m.ntop, ttop |-> m.ttop,
                rem |-> m.rem, full |-> m.full]
    BY DEF Typed
  <1> DEFINE h == [m.hdr[c] EXCEPT !.remembered = TRUE]
  <1>2. /\ n = [heap |-> n.heap, hdr |-> n.hdr, ntop |-> n.ntop, ttop |-> n.ttop,
                rem |-> n.rem, full |-> n.full]
        /\ n.heap = m.heap /\ n.ntop = m.ntop /\ n.ttop = m.ttop /\ n.full = m.full
        /\ n.hdr = [m.hdr EXCEPT ![c] = h]
        /\ n.rem = Append(m.rem, c)
    BY <1>1 DEF Appended
  <1>3. h \in Header /\ Alike(h, m.hdr[c]) /\ h.remembered
    <2>1. m.hdr[c] \in Header
      BY <1>1
    <2> QED
      BY <2>1 DEF Header, Alike
  <1> HIDE DEF h
  <1>4. \A a \in DOMAIN m.heap : /\ Alike(n.hdr[a], m.hdr[a])
                                 /\ n.hdr[a].remembered <=> (a = c \/ m.hdr[a].remembered)
    BY <1>1, <1>2, <1>3 DEF Alike
  <1>5. n.hdr \in [DOMAIN m.heap -> Header]
    BY <1>1, <1>2, <1>3
  <1>6. /\ Waiting(n.rem) = Waiting(m.rem) \cup {c}
        /\ Len(n.rem) = Len(m.rem) + 1 /\ Len(m.rem) \in Nat
        /\ \A i \in 1 .. Len(m.rem) : n.rem[i] = m.rem[i]
        /\ n.rem[Len(m.rem) + 1] = c /\ n.rem \in Seq(Nat)
    BY <1>1, <1>2, WaitingAppend
  <1>7. Listed(n) = Listed(m) \cup {c}
    BY <1>6 DEF Waiting, Listed
  <1>8. Distinct(n.rem)
    <2> SUFFICES ASSUME NEW i \in 1 .. Len(n.rem), NEW j \in 1 .. Len(n.rem), i # j
                 PROVE  n.rem[i] # n.rem[j]
      BY DEF Distinct
    <2>1. \A x \in 1 .. Len(m.rem) : n.rem[x] # c
      BY <1>6 DEF Listed
    <2>2. CASE i \in 1 .. Len(m.rem) /\ j \in 1 .. Len(m.rem)
      BY <1>6, <2>2 DEF Distinct
    <2>3. CASE i = Len(m.rem) + 1 /\ j \in 1 .. Len(m.rem)
      BY <1>6, <2>1, <2>3
    <2>4. CASE j = Len(m.rem) + 1 /\ i \in 1 .. Len(m.rem)
      BY <1>6, <2>1, <2>4
    <2>5. \A x \in 1 .. Len(n.rem) : x \in 1 .. Len(m.rem) \/ x = Len(m.rem) + 1
      BY <1>6
    <2> QED
      BY <2>2, <2>3, <2>4, <2>5
  <1>9. Typed(n)
    BY <1>1, <1>2, <1>5, <1>6 DEF Typed
  <1>10. Len(n.rem) <= REMEMBERED_SET_SIZE
    BY <1>6, GenerationAssumption
  <1> QED
    BY <1>2, <1>4, <1>7, <1>8, <1>9, <1>10

LEMMA AddFacts ==
  ASSUME NEW m, Typed(m), Distinct(m.rem), Len(m.rem) <= REMEMBERED_SET_SIZE,
         \A a \in Listed(m) : a \in DOMAIN m.heap /\ m.hdr[a].remembered,
         NEW c \in DOMAIN m.heap, c \notin Listed(m), NEW garbage,
         NEW n, n = add_remembered_set(m, c, garbage)
  PROVE  /\ Typed(n) /\ n.heap = m.heap /\ n.ntop = m.ntop /\ n.ttop = m.ttop
         /\ \A a \in DOMAIN m.heap : Alike(n.hdr[a], m.hdr[a])
         /\ n.full \/ Added(m, n, c, garbage)
  <1> DEFINE p == IF Len(m.rem) >= REMEMBERED_SET_SIZE
                  THEN clean_remembered_set(m, garbage) ELSE m
             q == Appended(p, c)
  <1>1. n = IF Len(p.rem) >= REMEMBERED_SET_SIZE THEN [p EXCEPT !.full = TRUE] ELSE q
    BY DEF add_remembered_set, Appended
  <1>2. /\ Typed(p) /\ p.heap = m.heap /\ p.ntop = m.ntop /\ p.ttop = m.ttop /\ p.full = m.full
        /\ Distinct(p.rem) /\ Listed(p) \subseteq Listed(m)
        /\ \A a \in Listed(m) \ Listed(p) : ~HasNersary(m, a, garbage)
        /\ \A a \in DOMAIN m.heap :
             /\ Alike(p.hdr[a], m.hdr[a])
             /\ p.hdr[a].remembered <=> IF a \in Listed(m) THEN a \in Listed(p)
                                        ELSE m.hdr[a].remembered
    <2>1. CASE Len(m.rem) >= REMEMBERED_SET_SIZE
      <3>1. p = clean_remembered_set(m, garbage)
        BY <2>1
      <3> HIDE DEF p
      <3>2. /\ Typed(p) /\ p.heap = m.heap /\ p.ntop = m.ntop /\ p.ttop = m.ttop /\ p.full = m.full
            /\ Distinct(p.rem) /\ Listed(p) = Needed(m, garbage)
            /\ \A a \in DOMAIN m.heap :
                 /\ Alike(p.hdr[a], m.hdr[a])
                 /\ p.hdr[a].remembered <=> IF a \in Listed(m) THEN a \in Listed(p)
                                            ELSE m.hdr[a].remembered
        BY <3>1, CleanFacts
      <3> QED
        BY <3>2 DEF Needed
    <2>2. CASE ~(Len(m.rem) >= REMEMBERED_SET_SIZE)
      <3>1. p = m
        BY <2>2
      <3> QED
        BY <3>1 DEF Alike
    <2> QED
      BY <2>1, <2>2
  <1> HIDE DEF p
  <1>3. CASE Len(p.rem) >= REMEMBERED_SET_SIZE
    <2>1. n = [p EXCEPT !.full = TRUE]
      BY <1>1, <1>3
    <2>2. /\ p = [heap |-> p.heap, hdr |-> p.hdr, ntop |-> p.ntop, ttop |-> p.ttop,
                  rem |-> p.rem, full |-> p.full]
      BY <1>2 DEF Typed
    <2>3. /\ n = [heap |-> p.heap, hdr |-> p.hdr, ntop |-> p.ntop, ttop |-> p.ttop,
                  rem |-> p.rem, full |-> TRUE]
      BY <2>1, <2>2
    <2> QED
      BY <1>2, <2>3 DEF Typed
  <1>4. CASE ~(Len(p.rem) >= REMEMBERED_SET_SIZE)
    <2>1. n = q /\ c \notin Listed(p) /\ c \in DOMAIN p.heap
      BY <1>1, <1>2, <1>4
    <2>2. Len(p.rem) < REMEMBERED_SET_SIZE
      <3>1. p.rem \in Seq(Nat)
        BY <1>2 DEF Typed
      <3>2. Len(p.rem) \in Nat
        BY <3>1
      <3> QED
        BY <1>4, <3>2, GenerationAssumption
    <2>3. /\ Typed(q) /\ q.heap = p.heap /\ q.ntop = p.ntop /\ q.ttop = p.ttop /\ q.full = p.full
          /\ Distinct(q.rem) /\ Len(q.rem) <= REMEMBERED_SET_SIZE
          /\ Listed(q) = Listed(p) \cup {c}
          /\ \A a \in DOMAIN p.heap : /\ Alike(q.hdr[a], p.hdr[a])
                                      /\ q.hdr[a].remembered <=> (a = c \/ p.hdr[a].remembered)
      <3>2. Typed(p) /\ Distinct(p.rem)
        BY <1>2
      <3> QED
        BY <2>1, <2>2, <3>2, AppendFacts
    <2> HIDE DEF q
    <2>4. \A a \in DOMAIN m.heap : Alike(n.hdr[a], m.hdr[a])
      BY <1>2, <2>1, <2>3 DEF Alike
    <2>5. ASSUME NEW a \in DOMAIN m.heap
          PROVE  n.hdr[a].remembered <=> IF a \in Listed(m) \cup {c} THEN a \in Listed(n)
                                         ELSE m.hdr[a].remembered
      BY <1>2, <2>1, <2>3
    <2>6. Added(m, n, c, garbage)
      BY <1>2, <2>1, <2>3, <2>5 DEF Added
    <2> QED
      BY <1>2, <2>1, <2>3, <2>4, <2>6
  <1> QED
    BY <1>3, <1>4

-----------------------------------------------------------------------------
(* From the record the routines pass on to the variables. *)

LEMMA MemoryRecord ==
  /\ Memory.heap = heap /\ Memory.hdr = hdr
  /\ Memory.ntop = nersary_top /\ Memory.ttop = tenured_top
  /\ Memory.rem = remembered_set /\ Memory.full = FALSE
  BY DEF Memory

LEMMA BecomesFacts ==
  ASSUME NEW n, Typed(n), NEW next, Becomes(n, next)
  PROVE  /\ ~n.full => Memory' = n /\ pc' = next
         /\ n.full => pc' = "set_full"
         /\ heap' = n.heap /\ hdr' = n.hdr /\ nersary_top' = n.ntop
         /\ tenured_top' = n.ttop /\ remembered_set' = n.rem
  <1>1. /\ heap' = n.heap /\ hdr' = n.hdr /\ nersary_top' = n.ntop
        /\ tenured_top' = n.ttop /\ remembered_set' = n.rem
        /\ pc' = IF n.full THEN "set_full" ELSE next
    BY DEF Becomes
  <1>2. /\ n = [heap |-> n.heap, hdr |-> n.hdr, ntop |-> n.ntop, ttop |-> n.ttop,
                rem |-> n.rem, full |-> n.full]
        /\ n.full \in BOOLEAN
    BY DEF Typed
  <1>3. Memory' = [heap |-> n.heap, hdr |-> n.hdr, ntop |-> n.ntop, ttop |-> n.ttop,
                   rem |-> n.rem, full |-> FALSE]
    BY <1>1 DEF Memory
  <1>4. ASSUME ~n.full PROVE Memory' = n
    <2>1. n.full = FALSE
      BY <1>2, <1>4
    <2> QED
      BY <1>2, <1>3, <2>1
  <1> QED
    BY <1>1, <1>4

\* Once the program has ended, only the places of the cells matter.
LEMMA EndKeeps ==
  ASSUME Typing', Typed(Memory)', Tiled(Memory)', Placed(Memory, from_space, to_space)',
         pc' \in Ends, pc' # "overflowed", mark_stack' = <<>>
  PROVE  IInv'
  <1>1. /\ pc' \notin {"run", "minor_done", "retry"} \cup Scanning
        /\ pc' \notin {"roots", "mark", "update", "slide", "overflowed"}
        /\ pc' \notin Phases \ (Ends \cup {"run"})
    BY DEF Ends, Scanning
  <1>2. StateOK'
    BY <1>1 DEF StateOK, AtRest, Ends
  <1>3. MarkInv'
    BY <1>1 DEF MarkInv
  <1> QED
    BY <1>1, <1>2, <1>3 DEF IInv, AtRest

LEMMA PartedPlaced ==
  ASSUME NEW f, NEW t, HalvesApart(f, t), NEW m, Typed(m), Tiled(m), Parted(m, f, t)
  PROVE  Placed(m, f, t)
  <1> SUFFICES ASSUME NEW a \in DOMAIN m.heap
               PROVE  \/ f <= a /\ End(m, a) <= f + nersary_heap_size
                      \/ t <= a /\ End(m, a) <= t + nersary_heap_size
                      \/ Old(a) /\ End(m, a) <= tenured_space + tenured_heap_size
    BY DEF Placed
  <1>1. a \in Nat /\ End(m, a) \in Nat /\ m.ntop \in Nat /\ m.ttop \in Nat /\ f \in Nat /\ t \in Nat
    BY CellFacts DEF Typed, HalvesApart
  <1>2. /\ IF In(f, a) THEN End(m, a) <= f + nersary_heap_size
           ELSE IF Old(a) THEN End(m, a) <= m.ttop
           ELSE t <= a /\ End(m, a) <= m.ntop
        /\ m.ntop <= t + nersary_heap_size /\ m.ttop <= tenured_space + tenured_heap_size
    BY DEF Parted
  <1> QED
    BY <1>1, <1>2, Layout DEF In

-----------------------------------------------------------------------------
(* The minor collection. *)

LEMMA TypingApart == Typing => HalvesApart(from_space, to_space)
  BY Halves DEF Typing, HalvesApart

\* A step to a state of a minor collection: what the new memory n has to be.
LEMMA MinorHolds ==
  ASSUME IInv, pc' \in Scanning, marked' = {}, mark_stack' = <<>>, req' \in Requests,
         UNCHANGED <<from_space, to_space, g_GC_stress, scanned, new_top>>,
         NEW n, n = Memory', NEW f, f = from_space, NEW t, t = to_space,
         NEW pn \in Nat, pn = prev_nersary_top', NEW pt \in Nat, pt = prev_tenured_top',
         Sound(n, f, t),
         root' \in [Roots -> Value], k' \in 1 .. (NRoots + 1), rem_index' \in Nat \ {0},
         pc' = "minor_roots" => rem_index' = 1,
         \A i \in Roots : IF pc' = "minor_roots" /\ i >= k' THEN White(n, f, root'[i])
                                                          ELSE Black(n, f, root'[i]),
         \A a \in DOMAIN n.heap : CellOK(n, f, t, pn, pt, a),
         \A i \in 1 .. Len(n.rem) :
           /\ n.rem[i] < pt
           /\ IF Seen(i)' THEN BlackCell(n, f, n.rem[i]) ELSE WhiteCell(n, f, n.rem[i]),
         t <= pn /\ pn <= n.ntop /\ (pn = n.ntop \/ pn \in DOMAIN n.heap),
         tenured_space <= pt /\ pt <= n.ttop /\ (pt = n.ttop \/ pt \in DOMAIN n.heap)
  PROVE  IInv'
  <1>1. /\ pc' \notin {"run", "minor_done", "retry", "roots", "mark", "update", "slide", "overflowed"}
        /\ pc' \in Phases \ (Ends \cup {"run"}) /\ pc' \in Phases
        /\ pc' = "minor_roots" \/ pc' \in {"remembered", "scan_nersary", "scan_tenured"}
    BY DEF Scanning, Phases, Ends
  <1>2. StateOK'
    BY <1>1 DEF StateOK, AtRest
  <1>4. MarkInv'
    BY <1>1 DEF MarkInv
  <1>5. /\ heap' = n.heap /\ hdr' = n.hdr /\ nersary_top' = n.ntop
        /\ tenured_top' = n.ttop /\ remembered_set' = n.rem
        /\ from_space' = f /\ to_space' = t
    BY DEF Memory
  <1>6. Typing'
    <2>1. marked' \subseteq Nat /\ mark_stack' \in Seq(Nat)
      OBVIOUS
    <2> QED
      BY <1>1, <2>1 DEF IInv, Typing
  <1>7. Sound(Memory, from_space, to_space)'
    BY <1>5
  <1>8. Colours'
    BY <1>5 DEF Colours
  <1>9. Pointers'
    BY <1>5 DEF Pointers
  <1>10. HalvesApart(from_space, to_space)'
    BY <1>6, TypingApart, PTL
  <1>11. Typed(Memory)' /\ Tiled(Memory)' /\ Parted(Memory, from_space, to_space)'
    BY <1>7 DEF Sound
  <1>12. Placed(Memory, from_space, to_space)'
    BY <1>10, <1>11, PartedPlaced
  <1> QED
    BY <1>1, <1>2, <1>4, <1>6, <1>7, <1>8, <1>9, <1>11, <1>12 DEF IInv, AtRest, Minor

\* A step within a minor collection.
LEMMA MinorGoesOn ==
  ASSUME IInv, pc \in Scanning, pc' \in Scanning,
         UNCHANGED <<from_space, to_space, marked, mark_stack, req, g_GC_stress, scanned, new_top>>,
         NEW n, n = Memory', NEW f, f = from_space, NEW t, t = to_space,
         NEW pn \in Nat, pn = prev_nersary_top', NEW pt \in Nat, pt = prev_tenured_top',
         Sound(n, f, t),
         root' \in [Roots -> Value], k' \in 1 .. (NRoots + 1), rem_index' \in Nat \ {0},
         pc' = "minor_roots" => rem_index' = 1,
         \A i \in Roots : IF pc' = "minor_roots" /\ i >= k' THEN White(n, f, root'[i])
                                                          ELSE Black(n, f, root'[i]),
         \A a \in DOMAIN n.heap : CellOK(n, f, t, pn, pt, a),
         \A i \in 1 .. Len(n.rem) :
           /\ n.rem[i] < pt
           /\ IF Seen(i)' THEN BlackCell(n, f, n.rem[i]) ELSE WhiteCell(n, f, n.rem[i]),
         t <= pn /\ pn <= n.ntop /\ (pn = n.ntop \/ pn \in DOMAIN n.heap),
         tenured_space <= pt /\ pt <= n.ttop /\ (pt = n.ttop \/ pt \in DOMAIN n.heap)
  PROVE  IInv'
  <1>1. pc \notin {"roots", "mark", "overflowed"} /\ pc \in Phases \ (Ends \cup {"run"})
    BY DEF Scanning, Phases, Ends
  <1>2. marked' = {} /\ mark_stack' = <<>> /\ req' \in Requests
    BY <1>1 DEF IInv, StateOK
  <1> QED
    BY <1>2, MinorHolds

\* What a step in a minor collection starts from.
LEMMA MinorFacts ==
  ASSUME IInv, pc \in Scanning, NEW m, m = Memory, NEW f, f = from_space, NEW t, t = to_space,
         NEW pn, pn = prev_nersary_top, NEW pt, pt = prev_tenured_top
  PROVE  /\ HalvesApart(f, t) /\ Sound(m, f, t) /\ FromWhite(m, f) /\ Typed(m) /\ Tiled(m)
         /\ DOMAIN m.heap \subseteq Nat
         /\ m.heap = heap /\ m.hdr = hdr /\ m.ntop = nersary_top /\ m.ttop = tenured_top
         /\ m.rem = remembered_set /\ m.full = FALSE
         /\ f \in Nat /\ t \in Nat /\ pn \in Nat /\ pt \in Nat /\ m.ntop \in Nat /\ m.ttop \in Nat
         /\ t <= pn /\ pn <= m.ntop /\ (pn = m.ntop \/ pn \in DOMAIN m.heap)
         /\ tenured_space <= pt /\ pt <= m.ttop /\ (pt = m.ttop \/ pt \in DOMAIN m.heap)
         /\ \A a \in DOMAIN m.heap : CellOK(m, f, t, pn, pt, a)
         /\ \A i \in 1 .. Len(m.rem) :
              /\ m.rem[i] < pt /\ m.rem[i] \in DOMAIN m.heap /\ Old(m.rem[i])
              /\ IF Seen(i) THEN BlackCell(m, f, m.rem[i]) ELSE WhiteCell(m, f, m.rem[i])
         /\ Distinct(m.rem) /\ Len(m.rem) \in Nat
  <1>1. /\ Typing /\ Sound(m, f, t) /\ Colours /\ Pointers
        /\ m.heap = heap /\ m.hdr = hdr /\ m.ntop = nersary_top /\ m.ttop = tenured_top
        /\ m.rem = remembered_set /\ m.full = FALSE
    BY MemoryRecord DEF IInv, Minor
  <1>2. Typed(m) /\ Tiled(m) /\ RemOK(m, m.ttop)
    BY <1>1 DEF Sound
  <1>3. HalvesApart(f, t) /\ f \in Nat /\ t \in Nat
    BY <1>1, TypingApart DEF HalvesApart
  <1>4. pn \in Nat /\ pt \in Nat /\ m.ntop \in Nat /\ m.ttop \in Nat /\ DOMAIN m.heap \subseteq Nat
    BY <1>1, <1>2 DEF Typing, Typed
  <1>5. /\ \A a \in DOMAIN m.heap : CellOK(m, f, t, pn, pt, a)
        /\ \A i \in 1 .. Len(m.rem) :
             /\ m.rem[i] < pt
             /\ IF Seen(i) THEN BlackCell(m, f, m.rem[i]) ELSE WhiteCell(m, f, m.rem[i])
    BY <1>1 DEF Colours
  <1>6. \A i \in 1 .. Len(m.rem) : m.rem[i] \in DOMAIN m.heap /\ Old(m.rem[i])
    <2>1. \A i \in 1 .. Len(m.rem) : m.rem[i] \in Listed(m)
      BY DEF Listed
    <2> QED
      BY <1>2, <2>1 DEF RemOK
  <1>7. FromWhite(m, f)
    BY <1>5 DEF FromWhite, CellOK
  <1>8. Distinct(m.rem) /\ Len(m.rem) \in Nat
    BY <1>2 DEF RemOK, Typed
  <1>9. /\ t <= pn /\ pn <= m.ntop /\ (pn = m.ntop \/ pn \in DOMAIN m.heap)
        /\ tenured_space <= pt /\ pt <= m.ttop /\ (pt = m.ttop \/ pt \in DOMAIN m.heap)
    BY <1>1 DEF Pointers
  <1> QED
    BY <1>1, <1>2, <1>3, <1>4, <1>5, <1>6, <1>7, <1>8, <1>9

\* A cell that no step changes keeps its colour, and a new one is white.
LEMMA CellsStay ==
  ASSUME NEW f, NEW t, NEW m, NEW n, NEW C, NEW pn, NEW pt, NEW qn, NEW qt,
         Grows(m, n, f, C), FromWhite(n, f),
         \A a \in DOMAIN m.heap : CellOK(m, f, t, pn, pt, a),
         \A a \in DOMAIN m.heap \ C : (a >= qn <=> a >= pn) /\ (a < qt <=> a < pt) /\ (a >= qt <=> a >= pt),
         \A a \in DOMAIN n.heap \ DOMAIN m.heap : (In(t, a) => a >= qn) /\ (Old(a) => ~(a < qt)),
         \A a \in C : CellOK(n, f, t, qn, qt, a)
  PROVE  \A a \in DOMAIN n.heap : CellOK(n, f, t, qn, qt, a)
  <1> SUFFICES ASSUME NEW a \in DOMAIN n.heap PROVE CellOK(n, f, t, qn, qt, a)
    OBVIOUS
  <1>1. DOMAIN m.heap \subseteq DOMAIN n.heap /\ Listed(n) = Listed(m)
    BY DEF Grows, Listed
  <1>2. CASE a \in C
    BY <1>2
  <1>3. CASE a \notin DOMAIN m.heap /\ a \notin C
    <2>1. WhiteCell(n, f, a) /\ ~In(f, a)
      BY <1>3 DEF Grows
    <2> QED
      BY <1>3, <2>1 DEF CellOK
  <1>4. CASE a \in DOMAIN m.heap /\ a \notin C
    <2>1. n.heap[a] = m.heap[a] /\ CellOK(m, f, t, pn, pt, a)
      BY <1>4 DEF Grows
    <2>2. /\ WhiteCell(m, f, a) => WhiteCell(n, f, a)
          /\ BlackCell(m, f, a) => BlackCell(n, f, a)
          /\ GreyCell(m, f, a) => GreyCell(n, f, a)
      BY <1>1, <2>1, ColoursStay DEF WhiteCell, BlackCell, GreyCell
    <2> QED
      BY <1>1, <1>4, <2>1, <2>2 DEF CellOK
  <1> QED
    BY <1>2, <1>3, <1>4

\* The scan pointers and the remembered cells while cells are copied.
LEMMA TopsFollow ==
  ASSUME NEW f, NEW m, NEW n, NEW C, Typed(m), Typed(n), Grows(m, n, f, C), NEW p \in Nat
  PROVE  /\ p <= m.ntop /\ (p = m.ntop \/ p \in DOMAIN m.heap)
              => p <= n.ntop /\ (p = n.ntop \/ p \in DOMAIN n.heap)
         /\ p <= m.ttop /\ (p = m.ttop \/ p \in DOMAIN m.heap)
              => p <= n.ttop /\ (p = n.ttop \/ p \in DOMAIN n.heap)
  <1>1. /\ m.ntop \in Nat /\ n.ntop \in Nat /\ m.ttop \in Nat /\ n.ttop \in Nat
        /\ m.ntop <= n.ntop /\ m.ttop <= n.ttop
        /\ DOMAIN m.heap \subseteq DOMAIN n.heap
        /\ n.ntop = m.ntop \/ m.ntop \in DOMAIN n.heap
        /\ n.ttop = m.ttop \/ m.ttop \in DOMAIN n.heap
    BY DEF Typed, Grows
  <1> QED
    BY <1>1

LEMMA CellColoursStay ==
  ASSUME NEW f, NEW m, NEW n, NEW C, Grows(m, n, f, C), NEW a \in DOMAIN m.heap, a \notin C
  PROVE  /\ WhiteCell(m, f, a) => WhiteCell(n, f, a)
         /\ BlackCell(m, f, a) => BlackCell(n, f, a)
  <1>1. n.heap[a] = m.heap[a] /\ DOMAIN m.heap \subseteq DOMAIN n.heap
    BY DEF Grows
  <1> QED
    BY <1>1, ColoursStay DEF WhiteCell, BlackCell

\* New cells are above what was scanned.
LEMMA NewAbove ==
  ASSUME NEW f, NEW t, HalvesApart(f, t), NEW m, Typed(m), NEW n, Typed(n), NEW C, Grows(m, n, f, C),
         NEW qn \in Nat, qn <= m.ntop, NEW qt \in Nat, qt <= m.ttop,
         NEW a \in DOMAIN n.heap \ DOMAIN m.heap
  PROVE  (In(t, a) => a >= qn) /\ (Old(a) => ~(a < qt))
  <1>1. /\ a \in Nat /\ m.ntop \in Nat /\ m.ttop \in Nat /\ t \in Nat
        /\ IF Old(a) THEN m.ttop <= a ELSE m.ntop <= a
    BY DEF Typed, Grows, HalvesApart
  <1>2. In(t, a) => ~Old(a)
    BY <1>1, Layout DEF In, Old, HalvesApart
  <1> QED
    BY <1>1, <1>2

LEMMA CopyRootKeeps ==
  ASSUME IInv, CopyRoot
  PROVE  IInv'
  <1> DEFINE m  == Memory
             f  == from_space
             t  == to_space
             pn == prev_nersary_top
             pt == prev_tenured_top
             v  == root[k]
             n  == Copied(m, v)
  <1>1. /\ pc = "minor_roots" /\ k <= NRoots /\ Becomes(n, pc)
        /\ root' = [root EXCEPT ![k] = CopyOf(n, v)] /\ k' = k + 1
        /\ UNCHANGED <<req, g_GC_stress, marked, mark_stack, from_space, to_space, rem_index,
                       prev_nersary_top, prev_tenured_top, scanned, new_top>>
    BY DEF CopyRoot, minorVars, slideVars
  <1>2. pc \in Scanning /\ Minor /\ StateOK /\ Typing
    BY <1>1 DEF Scanning, IInv
  <1>3. /\ root \in [Roots -> Value] /\ k \in Roots /\ k \in Nat /\ v \in Value
        /\ k + 1 \in 1 .. (NRoots + 1) /\ rem_index = 1
    BY <1>1, <1>2, RootsAssumption DEF Typing, StateOK, Roots, Ends
  <1>4. /\ HalvesApart(f, t) /\ Sound(m, f, t) /\ FromWhite(m, f) /\ Typed(m) /\ Tiled(m)
        /\ m.full = FALSE
        /\ f \in Nat /\ t \in Nat /\ pn \in Nat /\ pt \in Nat /\ m.ntop \in Nat /\ m.ttop \in Nat
        /\ t <= pn /\ pn <= m.ntop /\ (pn = m.ntop \/ pn \in DOMAIN m.heap)
        /\ tenured_space <= pt /\ pt <= m.ttop /\ (pt = m.ttop \/ pt \in DOMAIN m.heap)
        /\ \A a \in DOMAIN m.heap : CellOK(m, f, t, pn, pt, a)
        /\ \A i \in 1 .. Len(m.rem) :
             /\ m.rem[i] < pt /\ m.rem[i] \in DOMAIN m.heap
             /\ IF Seen(i) THEN BlackCell(m, f, m.rem[i]) ELSE WhiteCell(m, f, m.rem[i])
    BY <1>2, MinorFacts
  <1>5. \A i \in Roots : IF i >= k THEN White(m, f, root[i]) ELSE Black(m, f, root[i])
    BY <1>1, <1>2 DEF Minor, Colours
  <1>6. White(m, f, v)
    BY <1>3, <1>5
  <1> HIDE DEF m, f, t, pn, pt, v, n
  <1>7. /\ Sound(n, f, t) /\ Grows(m, n, f, {}) /\ FromWhite(n, f)
        /\ CopyOf(n, v) \in Value /\ Black(n, f, CopyOf(n, v))
    BY <1>3, <1>4, <1>6, CopiedFacts DEF n
  <1>8. Typed(n) /\ n.rem = m.rem /\ n.full = FALSE /\ DOMAIN m.heap \subseteq DOMAIN n.heap
    BY <1>4, <1>7 DEF Sound, Grows
  <1>9. n = Memory' /\ pc' = "minor_roots"
    BY <1>1, <1>8, BecomesFacts
  <1>10. \A i \in Roots : IF pc' = "minor_roots" /\ i >= k' THEN White(n, f, root'[i])
                                                            ELSE Black(n, f, root'[i])
    <2> SUFFICES ASSUME NEW i \in Roots
                 PROVE  IF i >= k + 1 THEN White(n, f, root'[i]) ELSE Black(n, f, root'[i])
      BY <1>1, <1>9
    <2>1. i \in Nat
      BY DEF Roots
    <2>2. CASE i = k
      BY <1>1, <1>3, <1>7, <2>2
    <2>3. CASE i # k
      <3>1. root'[i] = root[i]
        BY <1>1, <1>3, <2>3
      <3>2. /\ White(m, f, root[i]) => White(n, f, root[i])
            /\ Black(m, f, root[i]) => Black(n, f, root[i])
        BY <1>8, ColoursStay
      <3>3. i >= k + 1 <=> i >= k
        BY <1>3, <2>1, <2>3
      <3> QED
        BY <1>5, <3>1, <3>2, <3>3
    <2> QED
      BY <2>2, <2>3
  <1>11. \A a \in DOMAIN n.heap : CellOK(n, f, t, pn, pt, a)
    <2>1. \A a \in DOMAIN n.heap \ DOMAIN m.heap : (In(t, a) => a >= pn) /\ (Old(a) => ~(a < pt))
      BY <1>4, <1>7, <1>8, NewAbove
    <2> DEFINE C == {}
    <2>2. /\ Grows(m, n, f, C)
          /\ \A a \in DOMAIN m.heap \ C :
               (a >= pn <=> a >= pn) /\ (a < pt <=> a < pt) /\ (a >= pt <=> a >= pt)
          /\ \A a \in C : CellOK(n, f, t, pn, pt, a)
      BY <1>7
    <2> HIDE DEF C
    <2> QED
      BY <1>4, <1>7, <2>1, <2>2, CellsStay
  <1>12. \A i \in 1 .. Len(n.rem) :
           /\ n.rem[i] < pt
           /\ IF Seen(i)' THEN BlackCell(n, f, n.rem[i]) ELSE WhiteCell(n, f, n.rem[i])
    <2>1. \A i : ~Seen(i) /\ ~(Seen(i)')
      BY <1>1, <1>9 DEF Seen
    <2>2. \A i \in 1 .. Len(m.rem) : WhiteCell(n, f, m.rem[i])
      BY <1>4, <1>7, <2>1, CellColoursStay
    <2> QED
      BY <1>4, <1>8, <2>1, <2>2
  <1>13. /\ pn <= n.ntop /\ (pn = n.ntop \/ pn \in DOMAIN n.heap)
         /\ pt <= n.ttop /\ (pt = n.ttop \/ pt \in DOMAIN n.heap)
    BY <1>4, <1>7, <1>8, TopsFollow
  <1>14. root' \in [Roots -> Value] /\ k' \in 1 .. (NRoots + 1) /\ rem_index' = 1 /\ pc' \in Scanning
    BY <1>1, <1>2, <1>3, <1>7, <1>9
  <1>15. f = from_space /\ t = to_space /\ pn = prev_nersary_top' /\ pt = prev_tenured_top'
    BY <1>1 DEF f, t, pn, pt
  <1>16. 1 \in Nat \ {0}
    OBVIOUS
  <1> QED
    BY <1>1, <1>2, <1>4, <1>7, <1>9, <1>10, <1>11, <1>12, <1>13, <1>14, <1>15, <1>16, MinorGoesOn

\* Steps that only move on to the next part of a minor collection.
LEMMA NextPartKeeps ==
  ASSUME IInv, RootsCopied \/ ScanNext
  PROVE  IInv'
  <1> DEFINE m  == Memory
             f  == from_space
             t  == to_space
             pn == prev_nersary_top
             pt == prev_tenured_top
  <1>1. /\ UNCHANGED <<root, heap, req, g_GC_stress, marked, mark_stack, genVars>>
        /\ k' = 1 \/ k' = k
        /\ \/ pc = "minor_roots" /\ k > NRoots /\ pc' = "remembered"
           \/ pc = "remembered" /\ rem_index > Len(remembered_set) /\ pc' = "scan_nersary"
           \/ pc \in {"scan_nersary", "scan_tenured"} /\ pc' \in {"scan_nersary", "scan_tenured"}
    <2>1. StateOK /\ (pc = "minor_roots" => rem_index = 1)
      BY DEF IInv, StateOK, Ends
    <2>2. CASE RootsCopied
      BY <2>1, <2>2 DEF RootsCopied, genVars, slideVars
    <2>3. CASE ScanNext
      BY <2>3 DEF ScanNext
    <2> QED
      BY <2>2, <2>3
  <1>2. /\ UNCHANGED <<root, heap, req, g_GC_stress, marked, mark_stack>>
        /\ UNCHANGED <<hdr, from_space, to_space, nersary_top, tenured_top, remembered_set, rem_index,
                       prev_nersary_top, prev_tenured_top, scanned, new_top>>
        /\ m = Memory'
    BY <1>1 DEF genVars, Memory
  <1>3. pc \in Scanning /\ pc' \in Scanning /\ Minor /\ StateOK /\ Typing
    BY <1>1 DEF Scanning, IInv
  <1>4. /\ root \in [Roots -> Value] /\ k \in Nat /\ k' \in 1 .. (NRoots + 1) /\ rem_index \in Nat \ {0}
        /\ pc = "minor_roots" => rem_index = 1
    BY <1>1, <1>3, RootsAssumption DEF Typing, StateOK, Ends
  <1>5. /\ Sound(m, f, t) /\ m.rem = remembered_set /\ Len(m.rem) \in Nat
        /\ f \in Nat /\ t \in Nat /\ pn \in Nat /\ pt \in Nat /\ m.ntop \in Nat /\ m.ttop \in Nat
        /\ t <= pn /\ pn <= m.ntop /\ (pn = m.ntop \/ pn \in DOMAIN m.heap)
        /\ tenured_space <= pt /\ pt <= m.ttop /\ (pt = m.ttop \/ pt \in DOMAIN m.heap)
        /\ \A a \in DOMAIN m.heap : CellOK(m, f, t, pn, pt, a)
        /\ \A i \in 1 .. Len(m.rem) :
             /\ m.rem[i] < pt /\ m.rem[i] \in DOMAIN m.heap
             /\ IF Seen(i) THEN BlackCell(m, f, m.rem[i]) ELSE WhiteCell(m, f, m.rem[i])
    BY <1>3, MinorFacts
  <1>6. \A i \in Roots : IF pc = "minor_roots" /\ i >= k THEN White(m, f, root[i])
                                                        ELSE Black(m, f, root[i])
    BY <1>3 DEF Minor, Colours
  <1>7. f = from_space /\ t = to_space /\ pn = prev_nersary_top' /\ pt = prev_tenured_top'
    BY <1>2
  <1> HIDE DEF m, f, t, pn, pt
  <1>8. \A i \in Roots : IF pc' = "minor_roots" /\ i >= k' THEN White(m, f, root'[i])
                                                           ELSE Black(m, f, root'[i])
    <2> SUFFICES ASSUME NEW i \in Roots PROVE Black(m, f, root[i])
      BY <1>1, <1>2
    <2>1. i \in Nat /\ i <= NRoots
      BY DEF Roots
    <2>2. ~(pc = "minor_roots" /\ i >= k)
      BY <1>1, <1>4, <2>1, RootsAssumption
    <2> QED
      BY <1>6, <2>2
  <1>9. \A i \in 1 .. Len(m.rem) : Seen(i)' <=> Seen(i)
    <2> SUFFICES ASSUME NEW i \in 1 .. Len(m.rem) PROVE Seen(i)' <=> Seen(i)
      OBVIOUS
    <2>1. CASE pc = "minor_roots" /\ pc' = "remembered"
      <3>1. rem_index' = 1 /\ i \in Nat /\ i >= 1
        BY <1>2, <1>4, <2>1
      <3> QED
        BY <2>1, <3>1 DEF Seen
    <2>2. CASE pc = "remembered" /\ rem_index > Len(m.rem) /\ pc' = "scan_nersary"
      <3>1. i < rem_index
        BY <1>4, <1>5, <2>2
      <3> QED
        BY <2>2, <3>1 DEF Seen
    <2>3. CASE pc \in {"scan_nersary", "scan_tenured"} /\ pc' \in {"scan_nersary", "scan_tenured"}
      BY <2>3 DEF Seen
    <2> QED
      BY <1>1, <1>5, <2>1, <2>2, <2>3
  <1>10. \A i \in 1 .. Len(m.rem) :
           /\ m.rem[i] < pt
           /\ IF Seen(i)' THEN BlackCell(m, f, m.rem[i]) ELSE WhiteCell(m, f, m.rem[i])
    BY <1>5, <1>9
  <1>11. /\ root' \in [Roots -> Value] /\ rem_index' \in Nat \ {0}
         /\ pc' = "minor_roots" => rem_index' = 1
    BY <1>1, <1>2, <1>4
  <1> QED
    BY <1>2, <1>3, <1>4, <1>5, <1>7, <1>8, <1>10, <1>11, MinorGoesOn

\* The fields of the cell c are copied, and one of the two scan pointers or
\* the index in the remembered set moves past it.
LEMMA CopyFieldsKeeps ==
  ASSUME IInv, pc \in {"remembered", "scan_nersary"},
         NEW m, m = Memory, NEW f, f = from_space, NEW t, t = to_space,
         NEW c \in DOMAIN m.heap, WhiteCell(m, f, c), ~In(f, c),
         NEW n, n = CopyFields(m, c), Becomes(n, pc),
         NEW qn \in Nat, qn = prev_nersary_top', t <= qn, qn <= m.ntop, qn = m.ntop \/ qn \in DOMAIN m.heap,
         UNCHANGED <<root, req, k, g_GC_stress, marked, mark_stack, from_space, to_space,
                     prev_tenured_top, slideVars>>,
         \A a \in DOMAIN m.heap : a # c /\ In(t, a) => (a >= qn <=> a >= prev_nersary_top),
         In(t, c) => c < qn,
         pc' = pc => \A i \in 1 .. Len(m.rem) : Seen(i)' <=> Seen(i) \/ m.rem[i] = c,
         Old(c) => c \in Listed(m) /\ c < prev_tenured_top,
         rem_index' \in Nat \ {0}
  PROVE  IInv'
  <1> DEFINE pn == prev_nersary_top
             pt == prev_tenured_top
  <1>1. pc \in Scanning /\ Minor /\ Typing /\ pc # "minor_roots"
    BY DEF Scanning, IInv
  <1>2. /\ HalvesApart(f, t) /\ Sound(m, f, t) /\ FromWhite(m, f) /\ Typed(m) /\ Tiled(m)
        /\ m.full = FALSE
        /\ f \in Nat /\ t \in Nat /\ pn \in Nat /\ pt \in Nat /\ m.ntop \in Nat /\ m.ttop \in Nat
        /\ tenured_space <= pt /\ pt <= m.ttop /\ (pt = m.ttop \/ pt \in DOMAIN m.heap)
        /\ \A a \in DOMAIN m.heap : CellOK(m, f, t, pn, pt, a)
        /\ \A i \in 1 .. Len(m.rem) :
             /\ m.rem[i] < pt /\ m.rem[i] \in DOMAIN m.heap
             /\ IF Seen(i) THEN BlackCell(m, f, m.rem[i]) ELSE WhiteCell(m, f, m.rem[i])
    BY <1>1, MinorFacts
  <1>3. \A i \in Roots : Black(m, f, root[i])
    BY <1>1 DEF Minor, Colours
  <1>4. pt = prev_tenured_top /\ pt = prev_tenured_top'
    OBVIOUS
  <1> HIDE DEF pn, pt
  <1>5. /\ Sound(n, f, t) /\ Grows(m, n, f, {c}) /\ FromWhite(n, f) /\ BlackCell(n, f, c)
    BY <1>2, CopyFieldsFacts
  <1>6. Typed(n) /\ n.rem = m.rem /\ n.full = FALSE /\ DOMAIN m.heap \subseteq DOMAIN n.heap
        /\ Listed(n) = Listed(m)
    BY <1>2, <1>5 DEF Sound, Grows, Listed
  <1>7. n = Memory' /\ pc' = pc
    BY <1>6, BecomesFacts
  <1>8. \A i \in Roots : IF pc' = "minor_roots" /\ i >= k' THEN White(n, f, root'[i])
                                                          ELSE Black(n, f, root'[i])
    BY <1>1, <1>3, <1>6, <1>7, ColoursStay
  <1>9. \A a \in DOMAIN n.heap : CellOK(n, f, t, qn, pt, a)
    <2> DEFINE C == {c}
    <2>1. Grows(m, n, f, C)
      BY <1>5
    <2>2. \A a \in DOMAIN n.heap \ DOMAIN m.heap : (In(t, a) => a >= qn) /\ (Old(a) => ~(a < pt))
      BY <1>2, <1>5, <1>6, NewAbove
    <2>3. CellOK(n, f, t, qn, pt, c)
      <3>1. c \in Nat
        BY <1>2 DEF Typed
      <3> QED
        BY <1>2, <1>4, <1>5, <1>6, <3>1 DEF CellOK
    <2> SUFFICES ASSUME NEW a \in DOMAIN n.heap PROVE CellOK(n, f, t, qn, pt, a)
      OBVIOUS
    <2>4. CASE a = c
      BY <2>3, <2>4
    <2>5. CASE a \notin DOMAIN m.heap
      <3>1. WhiteCell(n, f, a) /\ ~In(f, a)
        BY <1>5, <2>5 DEF Grows
      <3> QED
        BY <2>2, <2>5, <3>1 DEF CellOK
    <2>6. CASE a \in DOMAIN m.heap /\ a # c
      <3>1. /\ WhiteCell(m, f, a) => WhiteCell(n, f, a)
            /\ BlackCell(m, f, a) => BlackCell(n, f, a)
        BY <1>5, <2>6, CellColoursStay
      <3>2. GreyCell(m, f, a) => GreyCell(n, f, a)
        <4>1. n.heap[a] = m.heap[a]
          BY <1>5, <2>6 DEF Grows
        <4> QED
          BY <1>6, <4>1, ColoursStay DEF GreyCell
      <3>3. CellOK(m, f, t, pn, pt, a) /\ (In(t, a) => (a >= qn <=> a >= pn))
        BY <1>2, <2>6 DEF pn
      <3> QED
        BY <1>6, <3>1, <3>2, <3>3 DEF CellOK
    <2> QED
      BY <2>4, <2>5, <2>6
  <1>10. \A i \in 1 .. Len(n.rem) :
           /\ n.rem[i] < pt
           /\ IF Seen(i)' THEN BlackCell(n, f, n.rem[i]) ELSE WhiteCell(n, f, n.rem[i])
    <2> SUFFICES ASSUME NEW i \in 1 .. Len(m.rem)
                 PROVE  IF Seen(i)' THEN BlackCell(n, f, m.rem[i]) ELSE WhiteCell(n, f, m.rem[i])
      BY <1>2, <1>6
    <2>1. CASE m.rem[i] = c
      BY <1>5, <1>7, <2>1
    <2>2. CASE m.rem[i] # c
      <3>1. /\ WhiteCell(m, f, m.rem[i]) => WhiteCell(n, f, m.rem[i])
            /\ BlackCell(m, f, m.rem[i]) => BlackCell(n, f, m.rem[i])
        BY <1>2, <1>5, <2>2, CellColoursStay
      <3> QED
        BY <1>2, <1>7, <2>2, <3>1
    <2> QED
      BY <2>1, <2>2
  <1>11. /\ qn <= n.ntop /\ (qn = n.ntop \/ qn \in DOMAIN n.heap)
         /\ pt <= n.ttop /\ (pt = n.ttop \/ pt \in DOMAIN n.heap)
    BY <1>2, <1>5, <1>6, TopsFollow
  <1>12. root' \in [Roots -> Value] /\ k' \in 1 .. (NRoots + 1) /\ pc' \in Scanning /\ pc' # "minor_roots"
    BY <1>1, <1>7 DEF Typing
  <1>13. UNCHANGED <<from_space, to_space, marked, mark_stack, req, g_GC_stress, scanned, new_top>>
    BY DEF slideVars
  <1> QED
    BY <1>1, <1>2, <1>4, <1>5, <1>7, <1>8, <1>9, <1>10, <1>11, <1>12, <1>13, MinorGoesOn

LEMMA ScanRememberedKeeps ==
  ASSUME IInv, ScanRemembered
  PROVE  IInv'
  <1> DEFINE m  == Memory
             f  == from_space
             t  == to_space
             pn == prev_nersary_top
             c  == remembered_set[rem_index]
             n  == CopyFields(m, c)
  <1>1. /\ pc = "remembered" /\ rem_index <= Len(m.rem) /\ Becomes(n, pc)
        /\ rem_index' = rem_index + 1
        /\ UNCHANGED <<root, req, k, g_GC_stress, marked, mark_stack, from_space, to_space,
                       prev_nersary_top, prev_tenured_top, slideVars>>
    BY MemoryRecord DEF ScanRemembered
  <1>2. pc \in Scanning /\ Typing
    BY <1>1 DEF Scanning, IInv
  <1>3. /\ HalvesApart(f, t) /\ f \in Nat /\ t \in Nat /\ pn \in Nat /\ m.rem = remembered_set
        /\ DOMAIN m.heap \subseteq Nat /\ Len(m.rem) \in Nat /\ Distinct(m.rem)
        /\ t <= pn /\ pn <= m.ntop /\ (pn = m.ntop \/ pn \in DOMAIN m.heap)
    BY <1>2, MinorFacts
  <1>16. \A i \in 1 .. Len(m.rem) :
             /\ m.rem[i] < prev_tenured_top /\ m.rem[i] \in DOMAIN m.heap /\ Old(m.rem[i])
             /\ IF Seen(i) THEN BlackCell(m, f, m.rem[i]) ELSE WhiteCell(m, f, m.rem[i])
    BY <1>2, MinorFacts
  <1>4. rem_index \in Nat \ {0}
    BY <1>2 DEF Typing
  <1>15. m = Memory /\ f = from_space /\ t = to_space /\ pn = prev_nersary_top /\ c = m.rem[rem_index]
    BY <1>3
  <1> HIDE DEF m, f, t, pn, c, n
  <1>5. rem_index \in 1 .. Len(m.rem)
    BY <1>1, <1>3, <1>4
  <1>6. c \in DOMAIN m.heap /\ Old(c) /\ c < prev_tenured_top /\ c \in Listed(m) /\ c \in Nat
    BY <1>3, <1>5, <1>15, <1>16 DEF Listed
  <1>7. WhiteCell(m, f, c)
    BY <1>1, <1>4, <1>5, <1>15, <1>16 DEF Seen
  <1>8. ~In(f, c) /\ ~In(t, c)
    <2>1. /\ f + nersary_heap_size <= tenured_space /\ t + nersary_heap_size <= tenured_space
          /\ tenured_space <= c
      BY <1>3, <1>6 DEF HalvesApart, Old
    <2>2. nersary_heap_size \in Nat /\ tenured_space \in Nat
      BY Layout
    <2> QED
      BY <1>3, <1>6, <2>1, <2>2 DEF In
  <1>9. ASSUME pc' = pc, NEW i \in 1 .. Len(m.rem)
        PROVE  Seen(i)' <=> Seen(i) \/ m.rem[i] = c
    <2>1. m.rem[i] = c <=> i = rem_index
      BY <1>3, <1>5, <1>15 DEF Distinct
    <2>2. i < rem_index + 1 <=> i < rem_index \/ i = rem_index
      BY <1>4
    <2> QED
      BY <1>1, <1>9, <2>1, <2>2 DEF Seen
  <1>10. rem_index' \in Nat \ {0} /\ pc \in {"remembered", "scan_nersary"}
    BY <1>1, <1>4
  <1> QED
    BY <1>1, <1>2, <1>3, <1>6, <1>7, <1>8, <1>9, <1>10, <1>15, CopyFieldsKeeps DEF n

LEMMA ScanNersaryKeeps ==
  ASSUME IInv, ScanNersary
  PROVE  IInv'
  <1> DEFINE m  == Memory
             f  == from_space
             t  == to_space
             c  == prev_nersary_top
             n  == CopyFields(m, c)
             qn == End(m, c)
  <1>1. /\ pc = "scan_nersary" /\ c < m.ntop /\ Becomes(n, pc)
        /\ prev_nersary_top' = qn
        /\ UNCHANGED <<root, req, k, g_GC_stress, marked, mark_stack, from_space, to_space,
                       rem_index, prev_tenured_top, slideVars>>
    BY MemoryRecord DEF ScanNersary, End
  <1>2. pc \in Scanning /\ Typing
    BY <1>1 DEF Scanning, IInv
  <1>3. /\ HalvesApart(f, t) /\ Sound(m, f, t) /\ Typed(m) /\ Tiled(m)
        /\ f \in Nat /\ t \in Nat /\ c \in Nat /\ m.ntop \in Nat
        /\ DOMAIN m.heap \subseteq Nat
        /\ t <= c /\ (c = m.ntop \/ c \in DOMAIN m.heap)
    BY <1>2, MinorFacts
  <1>15. /\ \A a \in DOMAIN m.heap : CellOK(m, f, t, c, prev_tenured_top, a)
         /\ \A i \in 1 .. Len(m.rem) : Old(m.rem[i])
    BY <1>2, MinorFacts
  <1>14. m = Memory /\ f = from_space /\ t = to_space /\ c = prev_nersary_top
    OBVIOUS
  <1> HIDE DEF m, f, t, c, n
  <1>4. c \in DOMAIN m.heap
    BY <1>1, <1>3
  <1>5. /\ qn \in Nat /\ c < qn
    BY <1>3, <1>4, CellFacts
  <1>6. Parted(m, f, t) /\ Gapless(m, t, t + nersary_heap_size, m.ntop)
    BY <1>3 DEF Sound
  <1>7. In(t, c) /\ ~In(f, c) /\ ~Old(c) /\ m.ntop <= t + nersary_heap_size
    <2>1. m.ntop <= t + nersary_heap_size
      BY <1>6 DEF Parted
    <2> QED
      BY <1>1, <1>3, <2>1, Layout DEF HalvesApart, In, Old
  <1>8. qn <= m.ntop
    BY <1>4, <1>6, <1>7 DEF Parted
  <1>9. qn = m.ntop \/ qn \in DOMAIN m.heap
    BY <1>3, <1>4, <1>6, <1>7 DEF Gapless, In
  <1>10. WhiteCell(m, f, c)
    BY <1>3, <1>4, <1>7, <1>15 DEF CellOK
  <1>11. ASSUME NEW a \in DOMAIN m.heap, a # c, In(t, a)
         PROVE  a >= qn <=> a >= c
    <2>1. End(m, a) <= c \/ qn <= a
      BY <1>3, <1>4, <1>11 DEF Tiled, Disjoint, End
    <2>2. a \in Nat /\ End(m, a) \in Nat /\ a < End(m, a)
      BY <1>3, CellFacts
    <2> QED
      BY <1>3, <1>5, <2>1, <2>2
  <1>12. ASSUME NEW i \in 1 .. Len(m.rem), pc' = pc
         PROVE  Seen(i)' <=> Seen(i) \/ m.rem[i] = c
    BY <1>1, <1>12 DEF Seen
  <1>13. rem_index' \in Nat \ {0} /\ pc \in {"remembered", "scan_nersary"}
    BY <1>1, <1>2 DEF Typing
  <1> HIDE DEF qn
  <1> QED
    BY <1>1, <1>3, <1>4, <1>5, <1>7, <1>8, <1>9, <1>10, <1>11, <1>12, <1>13, <1>14, CopyFieldsKeeps DEF n

\* Other remembered bits and another remembered set.
LEMMA AlikeSound ==
  ASSUME NEW f, NEW t, NEW m, Sound(m, f, t),
         NEW n, Typed(n), n.heap = m.heap, n.ntop = m.ntop, n.ttop = m.ttop,
         \A a \in DOMAIN m.heap : /\ Alike(n.hdr[a], m.hdr[a])
                                  /\ n.hdr[a].remembered => Old(a) \/ m.hdr[a].remembered,
         RemOK(n, n.ttop)
  PROVE  Sound(n, f, t)
  <1>1. /\ Typed(m) /\ Tiled(m) /\ Parted(m, f, t) /\ Room(m, f, t) /\ Forwarded(m, f)
        /\ Gapless(m, t, t + nersary_heap_size, m.ntop)
        /\ Gapless(m, tenured_space, m.ttop, m.ttop)
    BY DEF Sound
  <1>2. \A a : End(n, a) = End(m, a)
    BY DEF End
  <1>3. Tiled(n)
    BY <1>1 DEF Tiled
  <1>4. Parted(n, f, t)
    BY <1>1, <1>2 DEF Parted
  <1>5. UncopBytes(n, f) = UncopBytes(m, f)
    <2>1. Uncop(n, f) = Uncop(m, f)
      BY DEF Uncop, Alike
    <2> QED
      BY <2>1 DEF UncopBytes
  <1>6. Room(n, f, t)
    BY <1>1, <1>5 DEF Room
  <1>7. Gapless(n, t, t + nersary_heap_size, n.ntop) /\ Gapless(n, tenured_space, n.ttop, n.ttop)
    BY <1>1, <1>2 DEF Gapless
  <1>8. Forwarded(n, f)
    <2> SUFFICES ASSUME NEW a \in DOMAIN m.heap
                 PROVE  IF ~In(f, a) THEN n.hdr[a].forwarding = a /\ BitsOK(n.hdr[a], a)
                        ELSE \/ n.hdr[a].forwarding = a /\ BitsOK(n.hdr[a], a)
                             \/ n.hdr[a].forwarding \in DOMAIN m.heap /\ ~In(f, n.hdr[a].forwarding)
      BY DEF Forwarded
    <2>1. BitsOK(m.hdr[a], a) => BitsOK(n.hdr[a], a)
      BY DEF BitsOK, Alike
    <2>2. n.hdr[a].forwarding = m.hdr[a].forwarding
      BY DEF Alike
    <2> QED
      BY <1>1, <2>1, <2>2 DEF Forwarded
  <1> QED
    BY <1>3, <1>4, <1>6, <1>7, <1>8 DEF Sound

\* A scanned cell that does not refer to the nursery refers to the tenured space.
LEMMA NoNersary ==
  ASSUME NEW f, NEW t, NEW m, Sound(m, f, t), NEW a, BlackCell(m, f, a),
         ~HasNersary(m, a, {})
  PROVE  GreyCell(m, f, a)
  <1> SUFFICES ASSUME NEW v \in Fields(m.heap[a]), CELL_P(v)
               PROVE  v \in DOMAIN m.heap /\ Old(v) /\ ~In(f, v)
    BY DEF GreyCell, Grey, White, Black
  <1>1. v \in DOMAIN m.heap /\ ~In(f, v)
    BY DEF BlackCell, Black
  <1>2. DOMAIN m.hdr = DOMAIN m.heap
    BY DEF Sound, Typed
  <1>3. m.hdr[v].tenured
    BY <1>1, <1>2 DEF HasNersary, ReadsNersary
  <1>4. BitsOK(m.hdr[v], v)
    BY <1>1 DEF Sound, Forwarded
  <1> QED
    BY <1>1, <1>3, <1>4 DEF BitsOK

LEMMA RememberFacts ==
  ASSUME NEW f, NEW t, NEW m, Sound(m, f, t),
         NEW c \in DOMAIN m.heap, Old(c), c < m.ttop, c \notin Listed(m),
         NEW n, n = RememberPromoted(m, c)
  PROVE  /\ Typed(n) /\ n.heap = m.heap /\ n.ntop = m.ntop /\ n.ttop = m.ttop
         /\ \A a \in DOMAIN m.heap : Alike(n.hdr[a], m.hdr[a])
         /\ n.full \/ /\ Sound(n, f, t) /\ n.full = m.full
                      /\ \A a \in Listed(m) \ Listed(n) : ~HasNersary(m, a, {})
                      /\ c \in Listed(n) \/ ~HasNersary(m, c, {})
                      /\ Listed(n) \subseteq Listed(m) \cup {c}
  <1>1. Typed(m) /\ RemOK(m, m.ttop)
    BY DEF Sound
  <1>2. CASE n = m /\ ~HasNersary(m, c, {})
    BY <1>1, <1>2 DEF Alike
  <1>3. CASE n = add_remembered_set(m, c, {})
    <2>1. /\ \A a \in Listed(m) : a \in DOMAIN m.heap /\ m.hdr[a].remembered
          /\ Distinct(m.rem) /\ Len(m.rem) <= REMEMBERED_SET_SIZE
      BY <1>1 DEF RemOK
    <2>2. /\ Typed(n) /\ n.heap = m.heap /\ n.ntop = m.ntop /\ n.ttop = m.ttop
          /\ \A a \in DOMAIN m.heap : Alike(n.hdr[a], m.hdr[a])
          /\ n.full \/ Added(m, n, c, {})
      BY <1>1, <1>3, <2>1, AddFacts
    <2>3. ASSUME Added(m, n, c, {})
          PROVE  Sound(n, f, t)
      <3>1. ASSUME NEW a \in DOMAIN m.heap
            PROVE  /\ n.hdr[a].remembered => Old(a) \/ m.hdr[a].remembered
                   /\ a \in Listed(n) <=> Old(a) /\ a < m.ttop /\ n.hdr[a].remembered
        <4>1. n.hdr[a].remembered <=> IF a \in Listed(m) \cup {c} THEN a \in Listed(n)
                                      ELSE m.hdr[a].remembered
          BY <2>3 DEF Added
        <4>2. a \in Listed(m) <=> Old(a) /\ a < m.ttop /\ m.hdr[a].remembered
          BY <1>1 DEF RemOK
        <4>3. Listed(n) \subseteq Listed(m) \cup {c}
          BY <2>3 DEF Added
        <4> QED
          BY <4>1, <4>2, <4>3
      <3>2. Listed(n) \subseteq DOMAIN m.heap
        BY <2>1, <2>3 DEF Added
      <3>3. Listed(n) = {a \in DOMAIN n.heap : Old(a) /\ a < n.ttop /\ n.hdr[a].remembered}
        BY <2>2, <3>1, <3>2
      <3>4. RemOK(n, n.ttop)
        BY <2>3, <3>3 DEF RemOK, Added
      <3> QED
        BY <2>2, <3>1, <3>4, AlikeSound
    <2> QED
      BY <2>2, <2>3 DEF Added
  <1>4. ~m.hdr[c].remembered
    BY <1>1 DEF RemOK
  <1> QED
    BY <1>2, <1>3, <1>4 DEF RememberPromoted

LEMMA ScanTenuredKeeps ==
  ASSUME IInv, ScanTenured
  PROVE  IInv'
  <1> DEFINE m  == Memory
             f  == from_space
             t  == to_space
             pn == prev_nersary_top
             c  == prev_tenured_top
             qt == End(m, c)
             n  == CopyFields(m, c)
             p  == RememberPromoted(n, c)
  <1>1. /\ pc = "scan_tenured" /\ c < m.ttop /\ Becomes(p, pc) /\ prev_tenured_top' = qt
        /\ UNCHANGED <<root, req, k, g_GC_stress, marked, mark_stack, from_space, to_space,
                       rem_index, prev_nersary_top, slideVars>>
    BY MemoryRecord DEF ScanTenured, End
  <1>2. pc \in Scanning /\ Typing /\ Minor /\ StateOK
    BY <1>1 DEF Scanning, IInv
  <1>3. /\ HalvesApart(f, t) /\ Sound(m, f, t) /\ Typed(m) /\ Tiled(m) /\ FromWhite(m, f)
        /\ f \in Nat /\ t \in Nat /\ pn \in Nat /\ c \in Nat /\ m.ntop \in Nat /\ m.ttop \in Nat
        /\ DOMAIN m.heap \subseteq Nat /\ m.full = FALSE
        /\ t <= pn /\ pn <= m.ntop /\ (pn = m.ntop \/ pn \in DOMAIN m.heap)
        /\ tenured_space <= c /\ (c = m.ttop \/ c \in DOMAIN m.heap)
    BY <1>2, MinorFacts
  <1>4. \A a \in DOMAIN m.heap : CellOK(m, f, t, pn, c, a)
    BY <1>2, MinorFacts
  <1>5. \A i \in 1 .. Len(m.rem) :
          m.rem[i] < c /\ m.rem[i] \in DOMAIN m.heap /\ BlackCell(m, f, m.rem[i])
    <2>1. \A i : Seen(i)
      BY <1>1 DEF Seen
    <2> QED
      BY <1>2, <2>1, MinorFacts
  <1>6. \A i \in Roots : Black(m, f, root[i])
    BY <1>1, <1>2 DEF Minor, Colours
  <1>7. /\ m = Memory /\ f = from_space /\ t = to_space /\ pn = prev_nersary_top
        /\ c = prev_tenured_top
    OBVIOUS
  <1> HIDE DEF m, f, t, pn, c, n, p
  <1>8. c \in DOMAIN m.heap
    BY <1>1, <1>3
  <1>9. qt \in Nat /\ c < qt
    BY <1>3, <1>8, CellFacts
  <1>10. Old(c) /\ ~In(f, c) /\ ~In(t, c)
    <2>1. f + nersary_heap_size <= tenured_space /\ t + nersary_heap_size <= tenured_space
      BY <1>3 DEF HalvesApart
    <2>2. nersary_heap_size \in Nat /\ tenured_space \in Nat
      BY Layout
    <2> QED
      BY <1>3, <2>1, <2>2 DEF In, Old
  <1>11. Parted(m, f, t) /\ Gapless(m, tenured_space, m.ttop, m.ttop)
    BY <1>3 DEF Sound
  <1>12. qt <= m.ttop /\ (qt = m.ttop \/ qt \in DOMAIN m.heap)
    BY <1>1, <1>3, <1>8, <1>10, <1>11 DEF Parted, Gapless
  <1>13. WhiteCell(m, f, c) /\ c \notin Listed(m)
    <2>1. WhiteCell(m, f, c)
      BY <1>3, <1>4, <1>8, <1>10 DEF CellOK
    <2>2. \A a \in Listed(m) : a < c
      BY <1>5 DEF Listed
    <2> QED
      BY <1>3, <2>1, <2>2
  <1>14. /\ Sound(n, f, t) /\ Grows(m, n, f, {c}) /\ FromWhite(n, f) /\ BlackCell(n, f, c)
    BY <1>3, <1>8, <1>10, <1>13, CopyFieldsFacts DEF n
  <1>15. /\ Typed(n) /\ n.rem = m.rem /\ n.full = FALSE /\ DOMAIN m.heap \subseteq DOMAIN n.heap
         /\ Listed(n) = Listed(m) /\ n.ttop \in Nat /\ m.ttop <= n.ttop
    BY <1>3, <1>14 DEF Sound, Grows, Listed, Typed
  <1>16. /\ Typed(p) /\ p.heap = n.heap /\ p.ntop = n.ntop /\ p.ttop = n.ttop
         /\ p.full \/ /\ Sound(p, f, t) /\ p.full = n.full
                      /\ \A a \in Listed(n) \ Listed(p) : ~HasNersary(n, a, {})
                      /\ c \in Listed(p) \/ ~HasNersary(n, c, {})
                      /\ Listed(p) \subseteq Listed(n) \cup {c}
    <2>1. c < n.ttop /\ c \in DOMAIN n.heap /\ c \notin Listed(n)
      BY <1>1, <1>3, <1>8, <1>13, <1>15
    <2> QED
      BY <1>10, <1>14, <2>1, RememberFacts DEF p
  <1>17. CASE p.full
    <2>1. /\ pc' = "set_full"
          /\ heap' = p.heap /\ hdr' = p.hdr /\ nersary_top' = p.ntop
          /\ tenured_top' = p.ttop /\ remembered_set' = p.rem
      BY <1>1, <1>16, <1>17, BecomesFacts
    <2>2. Typing'
      BY <1>1, <1>2, <1>7, <1>9, <2>1 DEF Typing, Phases, Ends, slideVars
    <2>3. Typed(Memory)'
      BY <1>16, <2>1 DEF Typed, Memory
    <2>4. Tiled(Memory)'
      BY <1>14, <1>16, <2>1 DEF Sound, Tiled, Memory
    <2>5. Placed(Memory, from_space, to_space)'
      <3>1. Placed(n, f, t)
        BY <1>3, <1>14, PartedPlaced DEF Sound
      <3> QED
        BY <1>1, <1>7, <1>16, <2>1, <3>1 DEF Placed, Memory, End
    <2>6. mark_stack' = <<>>
      BY <1>1, <1>2 DEF StateOK
    <2> QED
      BY <2>1, <2>2, <2>3, <2>4, <2>5, <2>6, EndKeeps DEF Ends
  <1>18. CASE ~p.full
    <2>1. /\ Sound(p, f, t)
          /\ \A a \in Listed(n) \ Listed(p) : ~HasNersary(n, a, {})
          /\ c \in Listed(p) \/ ~HasNersary(n, c, {})
          /\ Listed(p) \subseteq Listed(n) \cup {c}
      BY <1>16, <1>18
    <2>2. p = Memory' /\ pc' = pc
      BY <1>1, <1>16, <1>18, BecomesFacts
    <2>3. /\ \A v : White(p, f, v) <=> White(n, f, v)
          /\ \A v : Black(p, f, v) <=> Black(n, f, v)
          /\ \A v : Grey(p, f, v) <=> Grey(n, f, v)
      BY <1>16 DEF White, Black, Grey
    <2>4. /\ \A a : WhiteCell(p, f, a) <=> WhiteCell(n, f, a)
          /\ \A a : BlackCell(p, f, a) <=> BlackCell(n, f, a)
          /\ \A a : GreyCell(p, f, a) <=> GreyCell(n, f, a)
      BY <1>16, <2>3 DEF WhiteCell, BlackCell, GreyCell
    <2>5. \A i \in Roots : IF pc' = "minor_roots" /\ i >= k' THEN White(p, f, root'[i])
                                                            ELSE Black(p, f, root'[i])
      BY <1>1, <1>6, <1>15, <2>2, <2>3, ColoursStay
    <2>6. \A a \in Listed(n) : BlackCell(n, f, a) /\ a < c /\ a \in DOMAIN m.heap
      <3>1. \A a \in Listed(m) : BlackCell(m, f, a) /\ a < c /\ a \in DOMAIN m.heap
        BY <1>5 DEF Listed
      <3> QED
        BY <1>13, <1>14, <1>15, <3>1, CellColoursStay
    <2>7. \A a \in DOMAIN p.heap : CellOK(p, f, t, pn, qt, a)
      <3> SUFFICES ASSUME NEW a \in DOMAIN n.heap PROVE CellOK(p, f, t, pn, qt, a)
        BY <1>16
      <3>0. a \in Nat
        BY <1>15 DEF Typed
      <3>1. CASE a = c
        <4>1. c \notin Listed(p) => GreyCell(n, f, c)
          BY <1>14, <2>1, NoNersary
        <4> QED
          BY <1>3, <1>9, <1>10, <2>4, <3>1, <4>1 DEF CellOK
      <3>2. CASE a \notin DOMAIN m.heap
        <4>1. WhiteCell(n, f, a) /\ ~In(f, a)
          BY <1>14, <3>2 DEF Grows
        <4>2. (In(t, a) => a >= pn) /\ (Old(a) => ~(a < qt))
          BY <1>3, <1>9, <1>12, <1>14, <1>15, <3>2, NewAbove
        <4> QED
          BY <2>4, <4>1, <4>2 DEF CellOK
      <3>3. CASE a \in DOMAIN m.heap /\ a # c
        <4>1. /\ WhiteCell(m, f, a) => WhiteCell(n, f, a)
              /\ BlackCell(m, f, a) => BlackCell(n, f, a)
          BY <1>14, <3>3, CellColoursStay
        <4>2. GreyCell(m, f, a) => GreyCell(n, f, a)
          <5>1. n.heap[a] = m.heap[a]
            BY <1>14, <3>3 DEF Grows
          <5> QED
            BY <1>15, <5>1, ColoursStay DEF GreyCell
        <4>3. CellOK(m, f, t, pn, c, a)
          BY <1>4, <3>3
        <4>4. (a < qt <=> a < c) /\ (a >= qt => a >= c)
          <5>1. End(m, a) <= c \/ qt <= a
            BY <1>3, <1>8, <3>3 DEF Tiled, Disjoint, End
          <5>2. End(m, a) \in Nat /\ a < End(m, a)
            BY <1>3, <3>3, CellFacts
          <5> QED
            BY <1>3, <1>9, <3>0, <5>1, <5>2
        <4>5. a \in Listed(n) \ Listed(p) => GreyCell(n, f, a)
          BY <1>14, <2>1, <2>6, NoNersary
        <4> QED
          BY <1>15, <2>4, <4>1, <4>2, <4>3, <4>4, <4>5 DEF CellOK
      <3> QED
        BY <3>1, <3>2, <3>3
    <2>8. \A i \in 1 .. Len(p.rem) :
             /\ p.rem[i] < qt
             /\ IF Seen(i)' THEN BlackCell(p, f, p.rem[i]) ELSE WhiteCell(p, f, p.rem[i])
      <3> SUFFICES ASSUME NEW i \in 1 .. Len(p.rem)
                   PROVE  p.rem[i] < qt /\ BlackCell(p, f, p.rem[i])
        BY <1>1, <2>2 DEF Seen
      <3>1. p.rem[i] \in Listed(n) \cup {c}
        BY <2>1 DEF Listed
      <3>2. \A a \in Listed(n) : a < qt
        BY <1>3, <1>9, <2>6
      <3> QED
        BY <1>9, <1>14, <2>4, <2>6, <3>1, <3>2
    <2>9. /\ pn <= p.ntop /\ (pn = p.ntop \/ pn \in DOMAIN p.heap)
          /\ qt <= p.ttop /\ (qt = p.ttop \/ qt \in DOMAIN p.heap)
      BY <1>3, <1>9, <1>12, <1>14, <1>15, <1>16, TopsFollow
    <2>10. /\ root' \in [Roots -> Value] /\ k' \in 1 .. (NRoots + 1) /\ rem_index' \in Nat \ {0}
           /\ pc' \in Scanning /\ pc' # "minor_roots"
      BY <1>1, <1>2, <2>2 DEF Typing
    <2>11. UNCHANGED <<from_space, to_space, marked, mark_stack, req, g_GC_stress, scanned, new_top>>
           /\ pn = prev_nersary_top' /\ qt = prev_tenured_top'
      BY <1>1, <1>7 DEF slideVars
    <2>12. tenured_space <= qt
      BY <1>3, <1>9, Layout
    <2> HIDE DEF qt
    <2> QED
      BY <1>2, <1>3, <1>7, <1>9, <2>1, <2>2, <2>5, <2>7, <2>8, <2>9, <2>10, <2>11, <2>12, MinorGoesOn
  <1> QED
    BY <1>17, <1>18

\* n is m without the cells outside S.
Restricted(m, n, S) ==
  /\ S \subseteq DOMAIN m.heap
  /\ n.heap = [a \in S |-> m.heap[a]] /\ n.hdr = [a \in S |-> m.hdr[a]]

LEMMA RestrictedFacts ==
  ASSUME NEW f, NEW t, NEW m, Typed(m), Tiled(m), Placed(m, f, t), NEW S,
         NEW n, Restricted(m, n, S), n.ntop \in Nat, n.ttop \in Nat, n.rem \in Seq(Nat), n.full \in BOOLEAN,
         n = [heap |-> n.heap, hdr |-> n.hdr, ntop |-> n.ntop, ttop |-> n.ttop,
              rem |-> n.rem, full |-> n.full]
  PROVE  /\ Typed(n) /\ Tiled(n) /\ Placed(n, f, t) /\ DOMAIN n.heap = S
         /\ \A a \in S : n.heap[a] = m.heap[a] /\ n.hdr[a] = m.hdr[a] /\ End(n, a) = End(m, a)
  <1>1. /\ DOMAIN n.heap = S /\ S \subseteq DOMAIN m.heap
        /\ \A a \in S : n.heap[a] = m.heap[a] /\ n.hdr[a] = m.hdr[a] /\ End(n, a) = End(m, a)
    BY DEF Restricted, End
  <1>2. Typed(n)
    <2>1. \A a \in S : m.heap[a] \in Object /\ m.hdr[a] \in Header /\ a \in Nat
      BY <1>1 DEF Typed
    <2>2. n.heap \in [S -> Object] /\ n.hdr \in [S -> Header] /\ S \subseteq Nat
      BY <2>1 DEF Restricted
    <2> QED
      BY <1>1, <2>2 DEF Typed
  <1>3. Tiled(n)
    BY <1>1 DEF Tiled, Disjoint
  <1>4. Placed(n, f, t)
    BY <1>1 DEF Placed
  <1> QED
    BY <1>1, <1>2, <1>3, <1>4

\* A step to a state between collections.
LEMMA RestKeeps ==
  ASSUME pc' \in {"run", "minor_done", "retry"}, Typing', Typed(Memory)', Tiled(Memory)',
         Placed(Memory, from_space, to_space)', Resting', marked' = {}, mark_stack' = <<>>, rem_index' = 1,
         pc' # "run" => req' \in Requests
  PROVE  IInv'
  <1>1. /\ pc' \notin Scanning \cup {"roots", "mark", "update", "slide", "overflowed"}
        /\ pc' \notin {"remembered", "scan_nersary", "scan_tenured"}
        /\ pc' \in Phases \ (Ends \cup {"run"}) => pc' # "run"
    BY DEF Scanning, Ends
  <1>2. StateOK'
    BY <1>1 DEF StateOK
  <1>3. MarkInv'
    BY <1>1 DEF MarkInv
  <1> QED
    BY <1>1, <1>2, <1>3 DEF IInv

LEMMA SwapKeeps ==
  ASSUME IInv, Swap
  PROVE  IInv'
  <1> DEFINE m  == Memory
             f  == from_space
             t  == to_space
             n  == Memory'
             S  == {a \in DOMAIN m.heap : ~In(f, a)}
  <1>1. /\ pc = "scan_tenured" /\ prev_tenured_top >= m.ttop /\ prev_nersary_top >= m.ntop
        /\ from_space' = t /\ to_space' = f /\ pc' = "minor_done" /\ rem_index' = 1
        /\ prev_nersary_top' = nersary_space /\ prev_tenured_top' = tenured_space
        /\ UNCHANGED <<root, req, k, g_GC_stress, marked, mark_stack, scanned, new_top>>
        /\ Restricted(m, n, S) /\ n.ntop = m.ntop /\ n.ttop = m.ttop /\ n.rem = m.rem /\ n.full = FALSE
    BY DEF Swap, slideVars, Memory, Restricted, In, InFromSpace
  <1>2. pc \in Scanning /\ Minor /\ Typing /\ StateOK /\ Placed(m, f, t)
    BY <1>1 DEF Scanning, IInv
  <1>3. /\ HalvesApart(f, t) /\ Sound(m, f, t) /\ Typed(m) /\ Tiled(m)
        /\ f \in Nat /\ t \in Nat /\ m.ntop \in Nat /\ m.ttop \in Nat
        /\ prev_nersary_top \in Nat /\ prev_tenured_top \in Nat
        /\ prev_nersary_top <= m.ntop /\ prev_tenured_top <= m.ttop
        /\ DOMAIN m.heap \subseteq Nat
    BY <1>2, MinorFacts
  <1>4. prev_nersary_top = m.ntop /\ prev_tenured_top = m.ttop
    BY <1>1, <1>3
  <1>5. \A a \in DOMAIN m.heap : CellOK(m, f, t, m.ntop, m.ttop, a)
    BY <1>2, <1>4, MinorFacts
  <1>6. \A a \in Listed(m) : BlackCell(m, f, a)
    <2>1. \A i : Seen(i)
      BY <1>1 DEF Seen
    <2>2. \A i \in 1 .. Len(m.rem) : BlackCell(m, f, m.rem[i])
      BY <1>2, <2>1, MinorFacts
    <2> QED
      BY <2>2 DEF Listed
  <1>7. \A i \in Roots : Black(m, f, root[i])
    BY <1>1, <1>2 DEF Minor, Colours
  <1>8. n = [heap |-> n.heap, hdr |-> n.hdr, ntop |-> n.ntop, ttop |-> n.ttop,
             rem |-> n.rem, full |-> n.full]
    BY DEF Memory
  <1>9. f = from_space /\ t = to_space /\ n = Memory' /\ heap' = n.heap /\ tenured_top' = n.ttop
    BY DEF Memory
  <1>10. S = {a \in DOMAIN m.heap : ~In(f, a)}
    OBVIOUS
  <1> HIDE DEF m, n, f, t, S
  <1>11. /\ Typed(n) /\ Tiled(n) /\ Placed(n, f, t) /\ DOMAIN n.heap = S
         /\ \A a \in S : n.heap[a] = m.heap[a] /\ n.hdr[a] = m.hdr[a] /\ End(n, a) = End(m, a)
    <2>1. m.rem \in Seq(Nat)
      BY <1>3 DEF Typed
    <2>2. n.ntop \in Nat /\ n.ttop \in Nat /\ n.rem \in Seq(Nat) /\ n.full \in BOOLEAN
      BY <1>1, <1>3, <2>1
    <2>3. Restricted(m, n, S) /\ Placed(m, f, t)
      BY <1>1, <1>2
    <2> QED
      BY <1>3, <1>8, <2>2, <2>3, RestrictedFacts
  <1>12. \A a \in S : a \in Nat /\ End(m, a) \in Nat /\ a < End(m, a) /\ a \in DOMAIN m.heap
    BY <1>3, <1>10, CellFacts
  <1>13. /\ t <= m.ntop /\ m.ntop <= t + nersary_heap_size /\ (m.ntop - t) % 4 = 0
         /\ tenured_space <= m.ttop /\ m.ttop <= tenured_space + tenured_heap_size
         /\ \A a \in S : IF Old(a) THEN End(m, a) <= m.ttop ELSE t <= a /\ End(m, a) <= m.ntop
    BY <1>3, <1>10 DEF Sound, Parted
  <1>14. ASSUME NEW a \in DOMAIN m.heap, Old(a)
         PROVE  a \in S
    <2>1. f + nersary_heap_size <= tenured_space
      BY <1>3 DEF HalvesApart
    <2> QED
      BY <1>3, <1>10, <1>14, <2>1, Layout DEF In, Old
  <1>15. NurseryOK(n, t)
    BY <1>1, <1>11, <1>13 DEF NurseryOK
  <1>16. TenuredOK(n)
    <2>1. Gapless(m, tenured_space, m.ttop, m.ttop)
      BY <1>3 DEF Sound
    <2>2. Gapless(n, tenured_space, n.ttop, n.ttop)
      <3>1. tenured_space = n.ttop \/ tenured_space \in S
        BY <1>1, <1>14, <2>1, Layout DEF Gapless, Old
      <3>2. ASSUME NEW a \in S, tenured_space <= a, a < m.ttop
            PROVE  End(m, a) = m.ttop \/ End(m, a) \in S
        <4>1. End(m, a) = m.ttop \/ End(m, a) \in DOMAIN m.heap
          BY <1>12, <2>1, <3>2 DEF Gapless
        <4>2. Old(End(m, a))
          BY <1>12, <3>2, Layout DEF Old
        <4> QED
          BY <1>14, <4>1, <4>2
      <3> QED
        BY <1>1, <1>11, <3>1, <3>2 DEF Gapless
    <2> QED
      BY <1>1, <1>11, <1>13, <2>2 DEF TenuredOK
  <1>17. Bits(n) /\ AtHome(n)
    <2>1. \A a \in S : m.hdr[a].forwarding = a /\ BitsOK(m.hdr[a], a)
      BY <1>3, <1>10 DEF Sound, Forwarded
    <2> QED
      BY <1>11, <2>1 DEF Bits, AtHome
  <1>18. ASSUME NEW a \in S
         PROVE  BlackCell(m, f, a) /\ (Old(a) /\ a \notin Listed(m) => GreyCell(m, f, a))
    <2>1. CellOK(m, f, t, m.ntop, m.ttop, a) /\ a \in Nat /\ a < End(m, a) /\ End(m, a) \in Nat
      BY <1>5, <1>12
    <2>2. CASE Old(a)
      <3>1. a < m.ttop
        BY <1>3, <1>13, <2>1, <2>2
      <3>2. a \notin Listed(m) => GreyCell(m, f, a)
        BY <2>1, <2>2, <3>1 DEF CellOK
      <3>3. GreyCell(m, f, a) => BlackCell(m, f, a)
        BY DEF GreyCell, Grey, BlackCell
      <3> QED
        BY <1>6, <3>2, <3>3
    <2>3. CASE ~Old(a)
      <3>1. t <= a /\ a < m.ntop /\ m.ntop <= t + nersary_heap_size
        BY <1>3, <1>13, <2>1, <2>3
      <3>2. In(t, a) /\ ~(a >= m.ntop)
        BY <1>3, <2>1, <3>1, Layout DEF In
      <3> QED
        BY <2>1, <2>3, <3>2 DEF CellOK
    <2> QED
      BY <2>2, <2>3
  <1>19. ClosedFromRoots(DOMAIN heap)'
    <2>1. \A i \in Roots : CELL_P(root'[i]) => root'[i] \in S
      BY <1>1, <1>7, <1>10 DEF Black
    <2>2. \A a \in S : \A v \in Fields(n.heap[a]) : CELL_P(v) => v \in S
      BY <1>10, <1>11, <1>18 DEF BlackCell, Black
    <2> QED
      BY <1>9, <1>11, <2>1, <2>2 DEF ClosedFromRoots
  <1>20. RemOK(n, n.ttop)
    <2>1. RemOK(m, m.ttop)
      BY <1>3 DEF Sound
    <2>2. Listed(n) = Listed(m)
      BY <1>1 DEF Listed
    <2>3. {a \in S : Old(a) /\ a < m.ttop /\ n.hdr[a].remembered}
            = {a \in DOMAIN m.heap : Old(a) /\ a < m.ttop /\ m.hdr[a].remembered}
      BY <1>11, <1>12, <1>14
    <2> QED
      BY <1>1, <1>11, <2>1, <2>2, <2>3 DEF RemOK
  <1>21. Unlisted(n)
    <2> SUFFICES ASSUME NEW a \in S, Old(a), a \notin Listed(m),
                        NEW v \in Fields(m.heap[a]), CELL_P(v)
                 PROVE  Old(v)
      BY <1>1, <1>11 DEF Unlisted, Listed
    <2>1. GreyCell(m, f, a)
      BY <1>18
    <2> QED
      BY <2>1 DEF GreyCell, Grey, White, Black
  <1>22. Resting'
    <2>1. Quiet(Memory, from_space)' /\ AtHome(Memory)' /\ RemOK(Memory, tenured_top)' /\ Unlisted(Memory)'
      BY <1>1, <1>9, <1>15, <1>16, <1>17, <1>20, <1>21 DEF Quiet
    <2> QED
      BY <1>1, <1>19, <2>1 DEF Resting
  <1>23. Typing'
    <2>1. {from_space', to_space'} = {nersary_space, nersary_space + nersary_heap_size}
      BY <1>1, <1>2, <1>9 DEF Typing
    <2>2. pc' \in Phases /\ rem_index' \in Nat \ {0}
      BY <1>1 DEF Phases
    <2>3. prev_nersary_top' \in Nat /\ prev_tenured_top' \in Nat
      BY <1>1, Layout
    <2> QED
      BY <1>1, <1>2, <2>1, <2>2, <2>3 DEF Typing
  <1>24. Typed(Memory)' /\ Tiled(Memory)' /\ Placed(Memory, from_space, to_space)'
    BY <1>1, <1>9, <1>11 DEF Placed
  <1>25. marked' = {} /\ mark_stack' = <<>> /\ req' \in Requests
    BY <1>1, <1>2 DEF StateOK, Phases, Ends
  <1> QED
    BY <1>1, <1>22, <1>23, <1>24, <1>25, RestKeeps

-----------------------------------------------------------------------------
(* Between collections. *)

LEMMA HeapFinite ==
  ASSUME NEW f \in Nat, NEW t \in Nat, NEW m, Typed(m), Tiled(m), Placed(m, f, t)
  PROVE  IsFiniteSet(DOMAIN m.heap)
  <1> DEFINE b == f + t + nersary_heap_size + tenured_space + tenured_heap_size
  <1>1. b \in Nat
    BY Layout
  <1>2. DOMAIN m.heap \subseteq 0 .. b
    <2> SUFFICES ASSUME NEW a \in DOMAIN m.heap PROVE a \in 0 .. b
      OBVIOUS
    <2>1. a \in Nat /\ End(m, a) \in Nat /\ a < End(m, a)
      BY CellFacts
    <2>2. \/ End(m, a) <= f + nersary_heap_size
          \/ End(m, a) <= t + nersary_heap_size
          \/ End(m, a) <= tenured_space + tenured_heap_size
      BY DEF Placed
    <2> QED
      BY <2>1, <2>2, Layout
  <1> HIDE DEF b
  <1>3. IsFiniteSet(0 .. b)
    <2>1. 0 \in Int /\ b \in Int
      BY <1>1
    <2> QED
      BY <2>1, FS_Interval
  <1> QED
    BY <1>2, <1>3, FS_Subset

\* When no cell is being moved, the cells are a graph that mark can read.
LEMMA GraphFacts ==
  ASSUME IInv, ClosedFromRoots(DOMAIN heap)
  PROVE  Graph
  <1>1. /\ Typed(Memory) /\ Tiled(Memory) /\ Placed(Memory, from_space, to_space)
        /\ Typing /\ from_space \in Nat /\ to_space \in Nat
    BY TypingApart DEF IInv, HalvesApart
  <1>2. IsFiniteSet(DOMAIN Memory.heap)
    BY <1>1, HeapFinite
  <1> QED
    BY <1>1, <1>2, MemoryRecord DEF Graph, Typing, Typed

LEMMA RestFacts ==
  ASSUME IInv, AtRest, NEW m, m = Memory, NEW f, f = from_space, NEW t, t = to_space
  PROVE  /\ Typed(m) /\ Tiled(m) /\ Placed(m, f, t) /\ HalvesApart(f, t) /\ Typing /\ Resting
         /\ NurseryOK(m, f) /\ TenuredOK(m) /\ Bits(m) /\ AtHome(m) /\ Unlisted(m)
         /\ RemOK(m, m.ttop) /\ ClosedFromRoots(DOMAIN heap) /\ Graph
         /\ m.heap = heap /\ m.hdr = hdr /\ m.ntop = nersary_top /\ m.ttop = tenured_top
         /\ m.rem = remembered_set /\ m.full = FALSE
         /\ marked = {} /\ mark_stack = <<>> /\ rem_index = 1
  <1>1. /\ Typed(m) /\ Tiled(m) /\ Placed(m, f, t) /\ Typing /\ Resting /\ StateOK
        /\ m.heap = heap /\ m.hdr = hdr /\ m.ntop = nersary_top /\ m.ttop = tenured_top
        /\ m.rem = remembered_set /\ m.full = FALSE
    BY MemoryRecord DEF IInv
  <1>2. /\ NurseryOK(m, f) /\ TenuredOK(m) /\ Bits(m) /\ AtHome(m) /\ Unlisted(m)
        /\ RemOK(m, m.ttop) /\ ClosedFromRoots(DOMAIN heap)
    BY <1>1 DEF Resting, Quiet
  <1>3. Graph
    BY <1>2, GraphFacts
  <1>4. HalvesApart(f, t)
    BY <1>1, TypingApart
  <1>5. marked = {} /\ mark_stack = <<>> /\ rem_index = 1
    BY <1>1 DEF StateOK, AtRest, Ends
  <1> QED
    BY <1>1, <1>2, <1>3, <1>4, <1>5

\* The new cell fits between the top of the nursery and the end of its half.
LEMMA NurseryHasRoom ==
  ASSUME IInv, AtRest, NEW r \in Requests, IS_ALLOCATABLE_NERSARY(r.size),
         NEW m, m = Memory, NEW f, f = from_space, NEW b, b = m.ntop,
         NEW s, s = AllocateSize(r.size)
  PROVE  /\ b + s <= f + nersary_heap_size /\ (b + s - f) % 4 = 0 /\ ~Old(b)
         /\ \A a \in DOMAIN m.heap : /\ a \in Nat /\ End(m, a) \in Nat /\ a < End(m, a)
                                     /\ a # b /\ (End(m, a) <= b \/ b + s <= a)
  <1> DEFINE t == to_space
  <1>2. Typed(m) /\ Tiled(m) /\ HalvesApart(f, t) /\ NurseryOK(m, f) /\ m.ntop = nersary_top
    BY RestFacts
  <1>3. r.size \in Nat /\ r.dst \in Roots
    BY RequestFacts
  <1>4. s \in Nat /\ s > 0 /\ s % 4 = 0
    BY <1>3, AllocateSizeFacts
  <1>5. /\ f \in Nat /\ b \in Nat /\ f <= b /\ (b - f) % 4 = 0
    BY <1>2 DEF HalvesApart, Typed, NurseryOK
  <1>6. b + s <= f + nersary_heap_size /\ (b + s - f) % 4 = 0
    <2>1. b + HeaderSize + r.size < f + nersary_heap_size
      BY <1>2 DEF IS_ALLOCATABLE_NERSARY
    <2> QED
      BY <1>3, <1>5, <2>1, AllocationFits
  <1> HIDE DEF t
  <1>10. ~Old(b)
    BY <1>2, <1>4, <1>5, <1>6, Layout DEF HalvesApart, Old
  <1>11. ASSUME NEW a \in DOMAIN m.heap
         PROVE  /\ a \in Nat /\ End(m, a) \in Nat /\ a < End(m, a)
                /\ a # b /\ (End(m, a) <= b \/ b + s <= a)
    <2>1. a \in Nat /\ End(m, a) \in Nat /\ a < End(m, a)
      BY <1>2, CellFacts
    <2>2. Old(a) \/ End(m, a) <= b
      BY <1>2, <2>1 DEF NurseryOK
    <2>3. Old(a) => b + s <= a
      <3>1. f + nersary_heap_size <= tenured_space
        BY <1>2 DEF HalvesApart
      <3> QED
        BY ONLY <1>4, <1>5, <1>6, <2>1, <3>1, Layout DEF Old
    <2>4. CASE Old(a)
      BY ONLY <1>4, <1>5, <2>1, <2>3, <2>4
    <2>5. CASE ~Old(a)
      BY ONLY <1>4, <1>5, <2>1, <2>2, <2>5
    <2> QED
      BY <2>4, <2>5
  <1> QED
    BY <1>6, <1>10, <1>11

LEMMA AllocateKeeps ==
  ASSUME IInv, AtRest, NEW r \in Requests, IS_ALLOCATABLE_NERSARY(r.size),
         tenured_top + nersary_heap_size <= tenured_space + tenured_heap_size, Allocate(r)
  PROVE  IInv'
  <1> DEFINE m == Memory
             f == from_space
             t == to_space
             n == Memory'
             s == AllocateSize(r.size)
             b == m.ntop
             o == NewObject(r, s)
             g == [forwarding |-> b, age |-> 0, tenured |-> FALSE, remembered |-> FALSE]
  <1>1. /\ n.heap = Overwrite(m.heap, b, o)
        /\ n.hdr = [a \in DOMAIN n.heap |-> IF a = b THEN g ELSE m.hdr[a]]
        /\ n.ntop = b + s /\ n.ttop = m.ttop /\ n.rem = m.rem /\ n.full = FALSE
        /\ root' = [root EXCEPT ![r.dst] = b] /\ pc' = "run" /\ req' = NoReq
        /\ UNCHANGED <<k, g_GC_stress, marked, mark_stack, from_space, to_space, rem_index,
                       prev_nersary_top, prev_tenured_top, scanned, new_top>>
    BY DEF Allocate, Memory, minorVars, slideVars
  <1>2. /\ Typed(m) /\ Tiled(m) /\ Placed(m, f, t) /\ HalvesApart(f, t) /\ Typing /\ Resting
        /\ NurseryOK(m, f) /\ TenuredOK(m) /\ Bits(m) /\ AtHome(m) /\ Unlisted(m)
        /\ RemOK(m, m.ttop) /\ Graph
        /\ m.heap = heap /\ marked = {} /\ mark_stack = <<>> /\ rem_index = 1
    BY RestFacts
  <1>3. r.size \in Nat /\ r.dst \in Roots
    BY RequestFacts
  <1>4. s \in Nat /\ s > 0 /\ s % 4 = 0
    BY <1>3, AllocateSizeFacts
  <1>5. /\ f \in Nat /\ t \in Nat /\ b \in Nat /\ m.ttop \in Nat /\ m.rem \in Seq(Nat)
        /\ f <= b /\ (b - f) % 4 = 0 /\ DOMAIN m.heap \subseteq Nat
    BY <1>2 DEF HalvesApart, Typed, NurseryOK
  <1>6. /\ b + s <= f + nersary_heap_size /\ (b + s - f) % 4 = 0 /\ ~Old(b)
        /\ \A a \in DOMAIN m.heap : /\ a \in Nat /\ End(m, a) \in Nat /\ a < End(m, a)
                                    /\ a # b /\ (End(m, a) <= b \/ b + s <= a)
    BY NurseryHasRoom
  <1>7. /\ n = [heap |-> n.heap, hdr |-> n.hdr, ntop |-> n.ntop, ttop |-> n.ttop,
                rem |-> n.rem, full |-> n.full]
        /\ n.heap = heap' /\ n = Memory' /\ f = from_space /\ t = to_space
        /\ n.ttop = tenured_top'
    BY DEF Memory
  <1>8. o.size = s /\ s = AllocateSize(r.size) /\ o = NewObject(r, s)
    BY DEF NewObject
  <1>9. /\ g \in Header /\ g.forwarding = b /\ ~g.tenured /\ ~g.remembered
        /\ g.age # TENURING_THRESHOLD
    BY <1>5, GenerationAssumption DEF Header
  <1>20. m.ttop = tenured_top
    BY DEF Memory
  <1> HIDE DEF m, f, t, n, s, o, g, b
  <1>22. n.ntop = b + s /\ n.ttop = m.ttop /\ n.rem = m.rem /\ n.full = FALSE
    BY <1>1
  <1>10. ~Old(b)
    BY <1>6
  <1>11. ASSUME NEW a \in DOMAIN m.heap
         PROVE  /\ a \in Nat /\ End(m, a) \in Nat /\ a < End(m, a)
                /\ a # b /\ (End(m, a) <= b \/ b + s <= a)
    BY <1>6
  <1>12. n.heap = [x \in DOMAIN m.heap \cup {b} |-> IF x = b THEN o ELSE m.heap[x]]
    <2>1. {x \in DOMAIN m.heap : x + m.heap[x].size <= b \/ b + o.size <= x} = DOMAIN m.heap
      BY <1>8, <1>11 DEF End
    <2> QED
      BY <1>1, <2>1 DEF Overwrite
  <1>13. Graph' /\ n.heap[b].size = s
    <2>1. Adds(r, b, s)
      BY <1>1, <1>2, <1>7, <1>8, <1>12 DEF Adds
    <2>2. b \in Nat \ DOMAIN heap
      BY <1>2, <1>5, <1>11
    <2>3. Graph
      BY <1>2
    <2> QED
      BY <1>4, <1>7, <2>1, <2>2, <2>3, NewCellKeepsGraph
  <1>14. /\ DOMAIN n.heap = DOMAIN m.heap \cup {b}
         /\ n.hdr[b] = g /\ End(n, b) = b + s
         /\ \A a \in DOMAIN m.heap : n.heap[a] = m.heap[a] /\ n.hdr[a] = m.hdr[a] /\ End(n, a) = End(m, a)
    BY <1>1, <1>11, <1>12, <1>13 DEF End
  <1>15. Typed(n)
    <2>1. n.heap \in [DOMAIN n.heap -> Object]
      BY <1>7, <1>13 DEF Graph
    <2>2. \A a \in DOMAIN n.heap : n.hdr[a] \in Header
      BY <1>2, <1>9, <1>14 DEF Typed
    <2>3. n.hdr \in [DOMAIN n.heap -> Header]
      BY <1>1, <2>2
    <2>4. DOMAIN n.heap \subseteq Nat
      BY <1>5, <1>14
    <2>5. n.ntop \in Nat /\ n.ttop \in Nat /\ n.rem \in Seq(Nat) /\ n.full \in BOOLEAN
      <3>1. b + s \in Nat
        BY <1>4, <1>5
      <3>2. n.ntop \in Nat
        BY <1>22, <3>1
      <3>3. n.ttop \in Nat /\ n.rem \in Seq(Nat)
        BY <1>5, <1>22
      <3>4. n.full \in BOOLEAN
        BY <1>22
      <3> QED
        BY <3>2, <3>3, <3>4
    <2>6. n = [heap |-> n.heap, hdr |-> n.hdr, ntop |-> n.ntop, ttop |-> n.ttop,
               rem |-> n.rem, full |-> n.full]
      BY <1>7
    <2> QED
      BY <2>1, <2>3, <2>4, <2>5, <2>6 DEF Typed
  <1>16. Tiled(n)
    <2>1. \A x \in DOMAIN n.heap : n.heap[x].size > 0 /\ n.heap[x].size % 4 = 0
      BY <1>2, <1>4, <1>13, <1>14 DEF Tiled
    <2>2. ASSUME NEW a \in DOMAIN n.heap, NEW c \in DOMAIN n.heap, a # c
          PROVE  a + n.heap[a].size <= c \/ c + n.heap[c].size <= a
      <3>1. CASE a \in DOMAIN m.heap /\ c \in DOMAIN m.heap
        BY <1>2, <1>14, <2>2, <3>1 DEF Tiled, Disjoint
      <3>2. CASE a = b /\ c \in DOMAIN m.heap
        BY <1>11, <1>13, <1>14, <3>2 DEF End
      <3>3. CASE c = b /\ a \in DOMAIN m.heap
        BY <1>11, <1>13, <1>14, <3>3 DEF End
      <3> QED
        BY <1>14, <2>2, <3>1, <3>2, <3>3
    <2> QED
      BY <2>1, <2>2 DEF Tiled, Disjoint
  <1>17. Placed(n, f, t)
    BY <1>2, <1>5, <1>6, <1>14 DEF Placed
  <1>18. Resting'
    <2>1. NurseryOK(n, f)
      <3>1. \A a \in DOMAIN m.heap : Old(a) \/ (f <= a /\ End(m, a) <= b + s)
        <4> SUFFICES ASSUME NEW a \in DOMAIN m.heap, ~Old(a) PROVE f <= a /\ End(m, a) <= b + s
          OBVIOUS
        <4>1. f <= a /\ End(m, a) <= b /\ End(m, a) \in Nat
          BY <1>2, <1>11 DEF NurseryOK, b
        <4> QED
          BY <1>4, <1>5, <4>1
      <3>2. f <= b /\ f <= b + s
        BY <1>4, <1>5
      <3>3. \A a \in DOMAIN n.heap : Old(a) \/ (f <= a /\ End(n, a) <= b + s)
        <4>1. End(n, b) <= b + s
          BY <1>4, <1>5, <1>14
        <4> QED
          BY <1>14, <3>1, <3>2, <4>1
      <3>4. f <= n.ntop /\ n.ntop <= f + nersary_heap_size
        BY <1>6, <1>22, <3>2
      <3>5. (n.ntop - f) % 4 = 0
        BY <1>4, <1>5, <1>6, <1>22
      <3>6. \A a \in DOMAIN n.heap : Old(a) \/ (f <= a /\ End(n, a) <= n.ntop)
        BY <1>22, <3>3
      <3> QED
        BY <3>4, <3>5, <3>6 DEF NurseryOK
    <2>2. TenuredOK(n)
      <3>1. ~(tenured_space <= b)
        BY <1>10 DEF Old
      <3> QED
        BY <1>1, <1>2, <1>10, <1>14, <3>1 DEF TenuredOK, Gapless
    <2>3. Bits(n) /\ AtHome(n)
      <3>1. BitsOK(g, b)
        BY <1>9, <1>10 DEF BitsOK
      <3> QED
        BY <1>2, <1>9, <1>14, <3>1 DEF Bits, AtHome
    <2>4. Unlisted(n)
      <3>1. Listed(n) = Listed(m)
        BY <1>1 DEF Listed
      <3> QED
        BY <1>2, <1>10, <1>14, <3>1 DEF Unlisted
    <2>5. RemOK(n, n.ttop)
      <3>1. Listed(n) = Listed(m)
        BY <1>1 DEF Listed
      <3>2. {a \in DOMAIN n.heap : Old(a) /\ a < n.ttop /\ n.hdr[a].remembered}
              = {a \in DOMAIN m.heap : Old(a) /\ a < m.ttop /\ m.hdr[a].remembered}
        BY <1>1, <1>10, <1>14
      <3> QED
        BY <1>1, <1>2, <3>1, <3>2 DEF RemOK
    <2>6. ClosedFromRoots(DOMAIN heap)'
      BY <1>13 DEF Graph
    <2>7. tenured_top' + nersary_heap_size <= tenured_space + tenured_heap_size
      BY <1>1, <1>7, <1>20
    <2>8. Quiet(Memory, from_space)' /\ AtHome(Memory)' /\ RemOK(Memory, tenured_top)' /\ Unlisted(Memory)'
      BY <1>1, <1>7, <2>1, <2>2, <2>3, <2>4, <2>5 DEF Quiet
    <2> QED
      BY <2>6, <2>7, <2>8 DEF Resting
  <1>19. Typing'
    <2>1. root' \in [Roots -> Value]
      BY <1>13 DEF Graph
    <2> QED
      BY <1>1, <1>2, <2>1 DEF Typing, Phases
  <1>21. Typed(Memory)' /\ Tiled(Memory)' /\ Placed(Memory, from_space, to_space)'
    BY <1>1, <1>7, <1>15, <1>16, <1>17
  <1> QED
    BY <1>1, <1>2, <1>18, <1>19, <1>21, RestKeeps

\* A minor collection starts with all cells white.
LEMMA GCStartKeeps ==
  ASSUME IInv, NEW r \in Requests, GCStart(r)
  PROVE  IInv'
  <1> DEFINE m == Memory
             f == from_space
             t == to_space
             n == Memory'
  <1>1. /\ pc = "run" /\ pc' = "minor_roots" /\ req' = r /\ k' = 1
        /\ prev_nersary_top' = t /\ prev_tenured_top' = m.ttop
        /\ UNCHANGED <<root, g_GC_stress, marked, mark_stack, from_space, to_space,
                       rem_index, scanned, new_top>>
        /\ n.heap = m.heap /\ n.hdr = m.hdr /\ n.ntop = t /\ n.ttop = m.ttop /\ n.rem = m.rem
        /\ n.full = FALSE
    BY DEF GCStart, slideVars, Memory
  <1>2. AtRest
    BY <1>1 DEF AtRest
  <1>3. /\ Typed(m) /\ Tiled(m) /\ Placed(m, f, t) /\ HalvesApart(f, t) /\ Typing /\ Resting
        /\ NurseryOK(m, f) /\ TenuredOK(m) /\ Bits(m) /\ AtHome(m) /\ Unlisted(m)
        /\ RemOK(m, m.ttop) /\ ClosedFromRoots(DOMAIN m.heap) /\ Graph
        /\ marked = {} /\ mark_stack = <<>> /\ rem_index = 1
    BY <1>2, RestFacts
  <1>4. m.ttop + nersary_heap_size <= tenured_space + tenured_heap_size
    BY <1>1, <1>3 DEF Resting, Memory
  <1>5. /\ n = [heap |-> n.heap, hdr |-> n.hdr, ntop |-> n.ntop, ttop |-> n.ttop,
                rem |-> n.rem, full |-> n.full]
        /\ n = Memory' /\ f = from_space /\ t = to_space
    BY DEF Memory
  <1> HIDE DEF m, f, t, n
  <1>6. /\ f \in Nat /\ t \in Nat /\ m.ntop \in Nat /\ m.ttop \in Nat /\ DOMAIN m.heap \subseteq Nat
        /\ f + nersary_heap_size <= t \/ t + nersary_heap_size <= f
        /\ f + nersary_heap_size <= tenured_space /\ t + nersary_heap_size <= tenured_space
        /\ nersary_heap_size \in Nat /\ tenured_space \in Nat /\ tenured_heap_size \in Nat
    BY <1>3, Layout DEF HalvesApart, Typed
  <1>7. ASSUME NEW a \in DOMAIN m.heap
        PROVE  /\ a \in Nat /\ End(m, a) \in Nat /\ a < End(m, a) /\ End(n, a) = End(m, a)
               /\ ~In(t, a)
               /\ In(f, a) => ~Old(a) /\ End(m, a) <= f + nersary_heap_size
               /\ ~In(f, a) => Old(a) /\ End(m, a) <= m.ttop /\ a < m.ttop
    <2>1. a \in Nat /\ End(m, a) \in Nat /\ a < End(m, a) /\ End(n, a) = End(m, a)
      BY <1>1, <1>3, CellFacts DEF End
    <2>2. Old(a) \/ (f <= a /\ End(m, a) <= m.ntop)
      BY <1>3 DEF NurseryOK
    <2>3. m.ntop <= f + nersary_heap_size
      BY <1>3 DEF NurseryOK
    <2>4. Old(a) => End(m, a) <= m.ttop
      BY <1>3 DEF TenuredOK
    <2>5. CASE Old(a)
      BY <1>6, <2>1, <2>4, <2>5 DEF In, Old
    <2>6. CASE ~Old(a)
      BY <1>6, <2>1, <2>2, <2>3, <2>6 DEF In
    <2> QED
      BY <2>1, <2>5, <2>6
  <1>8. Typed(n)
    <2>1. n.full \in BOOLEAN /\ n.ntop \in Nat
      BY <1>1, <1>6
    <2> QED
      BY <1>1, <1>3, <1>5, <2>1 DEF Typed
  <1>9. Tiled(n)
    BY <1>1, <1>3 DEF Tiled
  <1>10. Parted(n, f, t)
    <2>1. (t - t) % 4 = 0 /\ t <= t + nersary_heap_size
      BY <1>6
    <2>2. tenured_space <= m.ttop /\ m.ttop <= tenured_space + tenured_heap_size
      BY <1>3 DEF TenuredOK
    <2> QED
      BY <1>1, <1>6, <1>7, <2>1, <2>2 DEF Parted
  <1>11. Room(n, f, t)
    <2>1. Cardinality(UncopBytes(n, f)) \in Nat /\ Cardinality(UncopBytes(n, f)) <= nersary_heap_size
      BY <1>6, <1>8, <1>9, <1>10, UncopFinite
    <2>2. (n.ntop - t) = 0 /\ n.ttop = m.ttop
      BY <1>1, <1>6
    <2> QED
      BY <1>4, <1>6, <2>1, <2>2 DEF Room
  <1>12. Gapless(n, t, t + nersary_heap_size, n.ntop)
    BY <1>1, <1>7 DEF Gapless, In
  <1>13. Forwarded(n, f)
    BY <1>1, <1>3 DEF Forwarded, AtHome, Bits
  <1>14. RemOK(n, n.ttop)
    BY <1>1, <1>3 DEF RemOK, Listed
  <1>15. Gapless(n, tenured_space, n.ttop, n.ttop)
    BY <1>1, <1>3, <1>7 DEF TenuredOK, Gapless
  <1>16. Sound(n, f, t)
    BY <1>8, <1>9, <1>10, <1>11, <1>12, <1>13, <1>14, <1>15 DEF Sound
  <1>17. ASSUME NEW v, CELL_P(v) => v \in DOMAIN m.heap
         PROVE  White(n, f, v)
    BY <1>1, <1>7, <1>17 DEF White
  <1>18. \A i \in Roots : IF pc' = "minor_roots" /\ i >= k' THEN White(n, f, root'[i])
                                                            ELSE Black(n, f, root'[i])
    <2> SUFFICES ASSUME NEW i \in Roots PROVE White(n, f, root[i]) /\ i >= 1
      BY <1>1
    <2>1. CELL_P(root[i]) => root[i] \in DOMAIN m.heap
      BY <1>3 DEF ClosedFromRoots
    <2> QED
      BY <1>17, <2>1 DEF Roots
  <1>19. ASSUME NEW a \in DOMAIN m.heap
         PROVE  WhiteCell(n, f, a)
    <2>1. m.heap = heap
      BY MemoryRecord DEF m
    <2> SUFFICES ASSUME NEW v \in Fields(m.heap[a]) PROVE White(n, f, v)
      BY <1>1 DEF WhiteCell
    <2>2. CELL_P(v) => v \in DOMAIN m.heap
      BY <1>3, <2>1 DEF ClosedFromRoots
    <2> QED
      BY <1>17, <2>2
  <1>20. \A a \in DOMAIN n.heap : CellOK(n, f, t, t, m.ttop, a)
    <2> SUFFICES ASSUME NEW a \in DOMAIN m.heap PROVE CellOK(n, f, t, t, m.ttop, a)
      BY <1>1
    <2>1. ASSUME Old(a), a \notin Listed(n)
          PROVE  GreyCell(n, f, a)
      <3> SUFFICES ASSUME NEW v \in Fields(m.heap[a]), CELL_P(v)
                   PROVE  v \in DOMAIN n.heap /\ Old(v) /\ ~In(f, v)
        BY <1>1 DEF GreyCell, Grey, White, Black
      <3>1. Old(v)
        BY <1>1, <1>3, <2>1 DEF Unlisted, Listed
      <3>2. v \in DOMAIN m.heap
        BY <1>3, MemoryRecord DEF ClosedFromRoots, m
      <3> QED
        BY <1>1, <1>7, <3>1, <3>2
    <2>2. Old(a) => ~(a >= m.ttop)
      BY <1>6, <1>7
    <2> QED
      BY <1>7, <1>19, <2>1, <2>2 DEF CellOK
  <1>21. \A i \in 1 .. Len(n.rem) :
           /\ n.rem[i] < m.ttop
           /\ IF Seen(i)' THEN BlackCell(n, f, n.rem[i]) ELSE WhiteCell(n, f, n.rem[i])
    <2> SUFFICES ASSUME NEW i \in 1 .. Len(n.rem)
                 PROVE  n.rem[i] < m.ttop /\ WhiteCell(n, f, n.rem[i])
      BY <1>1 DEF Seen
    <2>1. n.rem[i] \in Listed(n)
      BY DEF Listed
    <2>2. n.rem[i] \in DOMAIN m.heap /\ n.rem[i] < m.ttop
      BY <1>1, <1>14, <2>1 DEF RemOK
    <2> QED
      BY <1>19, <2>2
  <1>22. /\ t <= n.ntop /\ t = n.ntop /\ m.ttop = n.ttop /\ m.ttop <= n.ttop /\ tenured_space <= m.ttop
    BY <1>1, <1>3, <1>6 DEF TenuredOK
  <1>23. /\ root' \in [Roots -> Value] /\ k' \in 1 .. (NRoots + 1) /\ rem_index' \in Nat \ {0}
         /\ rem_index' = 1 /\ pc' \in Scanning /\ marked' = {} /\ mark_stack' = <<>> /\ req' \in Requests
    BY <1>1, <1>3, RootsAssumption DEF Typing, Scanning
  <1>24. t <= t /\ t = prev_nersary_top' /\ m.ttop = prev_tenured_top'
         /\ UNCHANGED <<from_space, to_space, g_GC_stress, scanned, new_top>>
    BY <1>1, <1>6
  <1> QED
    BY <1>5, <1>6, <1>16, <1>18, <1>20, <1>21, <1>22, <1>23, <1>24, MinorHolds

LEMMA MajorOrNotKeeps ==
  ASSUME IInv, MajorOrNot
  PROVE  IInv'
  <1> DEFINE m == Memory
             f == from_space
             t == to_space
             n == Memory'
  <1>1. /\ pc = "minor_done"
        /\ UNCHANGED <<root, heap, req, g_GC_stress, marked, from_space, to_space, rem_index,
                       prev_nersary_top, prev_tenured_top, scanned, new_top>>
        /\ n.heap = m.heap /\ n.hdr = m.hdr /\ n.ntop = m.ntop /\ n.ttop = m.ttop /\ n.full = FALSE
        /\ \/ pc' = "retry" /\ UNCHANGED <<k, mark_stack>> /\ n.rem = m.rem
           \/ pc' = "roots" /\ k' = 1 /\ mark_stack' = <<>> /\ n.rem = <<>> /\ remembered_set' = <<>>
    BY DEF MajorOrNot, slideVars, Memory
  <1>2. AtRest
    BY <1>1 DEF AtRest
  <1>3. /\ Typed(m) /\ Tiled(m) /\ Placed(m, f, t) /\ HalvesApart(f, t) /\ Typing /\ Resting
        /\ NurseryOK(m, f) /\ TenuredOK(m) /\ Bits(m) /\ AtHome(m) /\ Unlisted(m)
        /\ RemOK(m, m.ttop) /\ ClosedFromRoots(DOMAIN heap) /\ Graph
        /\ marked = {} /\ mark_stack = <<>> /\ rem_index = 1
    BY <1>2, RestFacts
  <1>4. /\ n = [heap |-> n.heap, hdr |-> n.hdr, ntop |-> n.ntop, ttop |-> n.ttop,
                rem |-> n.rem, full |-> n.full]
        /\ n = Memory' /\ f = from_space /\ t = to_space /\ n.ttop = tenured_top'
        /\ n.rem = remembered_set'
    BY DEF Memory
  <1>5. req \in Requests
    BY <1>1 DEF IInv, StateOK, Phases, Ends
  <1> HIDE DEF m, f, t, n
  <1>6. Typed(n)
    <2>1. n.rem \in Seq(Nat)
      <3>1. m.rem \in Seq(Nat) /\ <<>> \in Seq(Nat)
        BY <1>3 DEF Typed
      <3>2. n.rem = m.rem \/ n.rem = <<>>
        BY <1>1
      <3> QED
        BY <3>1, <3>2
    <2>2. n.full \in BOOLEAN
      BY <1>1
    <2> QED
      BY <1>1, <1>3, <1>4, <2>1, <2>2 DEF Typed
  <1>7. Tiled(n) /\ Placed(n, f, t) /\ NurseryOK(n, f) /\ TenuredOK(n) /\ Bits(n) /\ AtHome(n)
    BY <1>1, <1>3 DEF Tiled, Placed, NurseryOK, TenuredOK, Gapless, Bits, AtHome, End
  <1>8. ClosedFromRoots(DOMAIN heap)'
    BY <1>1, <1>3 DEF ClosedFromRoots
  <1>9. /\ Typed(Memory)' /\ Tiled(Memory)' /\ Placed(Memory, from_space, to_space)'
        /\ Quiet(Memory, from_space)' /\ AtHome(Memory)'
    BY <1>1, <1>4, <1>6, <1>7 DEF Quiet
  <1>10. CASE pc' = "retry" /\ UNCHANGED <<k, mark_stack>> /\ n.rem = m.rem
    <2>1. RemOK(n, n.ttop) /\ Unlisted(n)
      BY <1>1, <1>3, <1>10 DEF RemOK, Unlisted, Listed
    <2>2. Resting'
      BY <1>4, <1>8, <1>9, <1>10, <2>1 DEF Resting
    <2>3. Typing'
      BY <1>1, <1>3, <1>10 DEF Typing, Phases
    <2> QED
      BY <1>1, <1>3, <1>5, <1>9, <1>10, <2>2, <2>3, RestKeeps
  <1>11. CASE pc' = "roots" /\ k' = 1 /\ mark_stack' = <<>> /\ n.rem = <<>> /\ remembered_set' = <<>>
    <2>1. Typing'
      <3>1. mark_stack' \in Seq(Nat) /\ k' \in 1 .. (NRoots + 1) /\ pc' \in Phases
        BY <1>11, RootsAssumption DEF Phases
      <3> QED
        BY <1>1, <1>3, <3>1 DEF Typing
    <2>2. StateOK'
      BY <1>1, <1>3, <1>5, <1>11 DEF StateOK, AtRest, Scanning, Ends
    <2>3. MarkInv'
      BY <1>1, <1>3, <1>11, MarkingStarts
    <2>4. MarkingOK'
      BY <1>8, <1>9 DEF MarkingOK
    <2>5. pc' \notin {"run", "minor_done", "retry", "update", "slide"} \cup Scanning
      BY <1>11 DEF Scanning
    <2> QED
      BY <1>9, <2>1, <2>2, <2>3, <2>4, <2>5 DEF IInv, AtRest
  <1> QED
    BY <1>1, <1>10, <1>11

-----------------------------------------------------------------------------
(* The program between two calls of gc_malloc. *)

\* Stores leave the places of the cells alone; only a cell of the nursery gets
\* a new field.
LEMMA StoreKeeps ==
  ASSUME IInv, pc = "run", Graph', UNCHANGED <<pc, req, k, g_GC_stress, marked, mark_stack>>,
         UNCHANGED <<hdr, from_space, to_space, nersary_top, tenured_top, remembered_set, rem_index>>,
         UNCHANGED <<prev_nersary_top, prev_tenured_top, scanned, new_top>>,
         DOMAIN heap' = DOMAIN heap,
         \A a \in DOMAIN heap : heap'[a].size = heap[a].size /\ (Old(a) => heap'[a] = heap[a])
  PROVE  IInv'
  <1> DEFINE m == Memory
             f == from_space
             t == to_space
             n == Memory'
  <1>1. /\ n.heap = heap' /\ m.heap = heap /\ n.hdr = m.hdr /\ n.ntop = m.ntop /\ n.ttop = m.ttop
        /\ n.rem = m.rem /\ n.full = FALSE
    BY DEF Memory
  <1>2. AtRest
    BY DEF AtRest
  <1>3. /\ Typed(m) /\ Tiled(m) /\ Placed(m, f, t) /\ Typing /\ Resting
        /\ NurseryOK(m, f) /\ TenuredOK(m) /\ Bits(m) /\ AtHome(m) /\ Unlisted(m)
        /\ RemOK(m, m.ttop) /\ marked = {} /\ mark_stack = <<>> /\ rem_index = 1
    BY <1>2, RestFacts
  <1>4. /\ n = [heap |-> n.heap, hdr |-> n.hdr, ntop |-> n.ntop, ttop |-> n.ttop,
                rem |-> n.rem, full |-> n.full]
        /\ n = Memory' /\ f = from_space /\ t = to_space /\ n.ttop = tenured_top'
    BY DEF Memory
  <1> HIDE DEF m, f, t, n
  <1>5. DOMAIN n.heap = DOMAIN m.heap
    BY <1>1
  <1>6. \A a \in DOMAIN m.heap : /\ n.heap[a].size = m.heap[a].size /\ End(n, a) = End(m, a)
                                 /\ Old(a) => n.heap[a] = m.heap[a]
    BY <1>1 DEF End
  <1>7. Typed(n)
    <2>1. n.heap \in [DOMAIN n.heap -> Object] /\ DOMAIN n.heap \subseteq Nat
      BY <1>1 DEF Graph
    <2>2. n.full \in BOOLEAN
      BY <1>1
    <2> QED
      BY <1>1, <1>3, <1>4, <1>5, <2>1, <2>2 DEF Typed
  <1>8. Tiled(n) /\ Placed(n, f, t)
    BY <1>3, <1>5, <1>6 DEF Tiled, Disjoint, Placed
  <1>9. NurseryOK(n, f)
    BY <1>1, <1>3, <1>5, <1>6 DEF NurseryOK
  <1>10. TenuredOK(n)
    BY <1>1, <1>3, <1>5, <1>6 DEF TenuredOK, Gapless
  <1>11. Bits(n) /\ AtHome(n)
    BY <1>1, <1>3, <1>5 DEF Bits, AtHome
  <1>12. Listed(n) = Listed(m)
    BY <1>1 DEF Listed
  <1>13. RemOK(n, n.ttop)
    BY <1>1, <1>3, <1>5, <1>12 DEF RemOK
  <1>14. Unlisted(n)
    BY <1>3, <1>5, <1>6, <1>12 DEF Unlisted
  <1>15. Resting'
    <2>1. Quiet(Memory, from_space)' /\ AtHome(Memory)' /\ RemOK(Memory, tenured_top)' /\ Unlisted(Memory)'
      BY <1>4, <1>9, <1>10, <1>11, <1>13, <1>14 DEF Quiet
    <2>2. ClosedFromRoots(DOMAIN heap)'
      BY DEF Graph
    <2> QED
      BY <1>3, <2>1, <2>2 DEF Resting
  <1>16. Typing'
    BY <1>3 DEF Typing, Graph
  <1>17. Typed(Memory)' /\ Tiled(Memory)' /\ Placed(Memory, from_space, to_space)'
    BY <1>4, <1>7, <1>8
  <1> QED
    BY <1>3, <1>15, <1>16, <1>17, RestKeeps

LEMMA AssignKeeps ==
  ASSUME IInv, pc = "run", NEW i \in Roots, NEW v \in Held, Assign(i, v),
         UNCHANGED <<marked, mark_stack, genVars>>
  PROVE  IInv'
  <1>1. AtRest
    BY DEF AtRest
  <1>2. Graph
    BY <1>1, RestFacts
  <1>3. Client
    BY DEF Client
  <1>4. Graph' /\ UNCHANGED <<pc, req, k, g_GC_stress>> /\ heap' = heap
    BY <1>2, <1>3, ClientKeepsGraph DEF Assign
  <1> QED
    BY <1>4, StoreKeeps DEF genVars

\* The binding that is redefined is in the nursery, so that a tenured chain
\* that holds it is remembered and the barrier has nothing to do.
LEMMA BarrierIdle ==
  ASSUME IInv, pc = "run", NEW i \in Roots, CELL_P(root[i]), CELL_P(heap[root[i]].car),
         ~hdr[heap[root[i]].car].tenured, NEW y
  PROVE  /\ WriteBarrier(root[i], y) = Memory
         /\ root[i] \in DOMAIN heap /\ heap[root[i]].car \in DOMAIN heap
         /\ ~Old(heap[root[i]].car)
  <1> DEFINE m == Memory
             c == root[i]
             e == heap[c].car
  <1>1. AtRest
    BY DEF AtRest
  <1>2. /\ ClosedFromRoots(DOMAIN heap) /\ Bits(m) /\ Unlisted(m) /\ RemOK(m, m.ttop)
        /\ m.heap = heap /\ m.hdr = hdr
    BY <1>1, RestFacts
  <1>3. c \in DOMAIN heap
    BY <1>2 DEF ClosedFromRoots
  <1>4. e \in DOMAIN heap /\ e \in Fields(heap[c])
    BY <1>2, <1>3 DEF ClosedFromRoots, Fields
  <1>5. ~Old(e)
    BY <1>2, <1>4 DEF Bits, BitsOK
  <1>6. hdr[c].tenured => hdr[c].remembered
    <2> SUFFICES ASSUME hdr[c].tenured PROVE hdr[c].remembered
      OBVIOUS
    <2>1. Old(c)
      BY <1>2, <1>3 DEF Bits, BitsOK
    <2>2. c \in Listed(m)
      BY <1>2, <1>3, <1>4, <1>5, <2>1 DEF Unlisted
    <2> QED
      BY <1>2, <2>2 DEF RemOK
  <1> QED
    BY <1>3, <1>4, <1>5, <1>6 DEF WriteBarrier

LEMMA RedefineStores ==
  ASSUME IInv, pc = "run", ~TenuredRedefined, NEW i \in Roots, NEW j \in Roots,
         RedefineWithBarrier(i, j)
  PROVE  /\ Redefine(i, j) /\ heap[root[i]].car \in DOMAIN heap /\ ~Old(heap[root[i]].car)
         /\ UNCHANGED <<marked, mark_stack, genVars>>
  <1> DEFINE e == heap[root[i]].car
  <1>1. /\ CELL_P(root[i]) /\ CELL_P(e) /\ heap[e].type = "pair" /\ ~hdr[e].tenured
        /\ UNCHANGED <<root, req, k, g_GC_stress, marked, mark_stack, minorVars, slideVars>>
    BY DEF RedefineWithBarrier
  <1>2. PICK y \in BOOLEAN : LET m == WriteBarrier(root[i], y) IN
          Becomes(IF m.full THEN m ELSE [m EXCEPT !.heap[e].cdr = root[j]], pc)
    <2>1. PICK y \in (IF CELL_P(root[j]) THEN {~hdr[root[j]].tenured} ELSE BOOLEAN) :
            LET m == WriteBarrier(root[i], y) IN
            Becomes(IF m.full THEN m ELSE [m EXCEPT !.heap[e].cdr = root[j]], pc)
      BY DEF RedefineWithBarrier
    <2> QED
      BY <2>1
  <1>3. /\ WriteBarrier(root[i], y) = Memory
        /\ root[i] \in DOMAIN heap /\ e \in DOMAIN heap /\ ~Old(e)
    BY <1>1, BarrierIdle
  <1> DEFINE n == [Memory EXCEPT !.heap[e].cdr = root[j]]
  <1>4. Becomes(n, pc)
    BY <1>2, <1>3, MemoryRecord
  <1>5. /\ n.heap = [heap EXCEPT ![e].cdr = root[j]] /\ n.hdr = hdr /\ n.ntop = nersary_top
        /\ n.ttop = tenured_top /\ n.rem = remembered_set /\ n.full = FALSE
    BY DEF Memory
  <1>6. /\ heap' = [heap EXCEPT ![e].cdr = root[j]]
        /\ UNCHANGED <<hdr, nersary_top, tenured_top, remembered_set, pc>>
    BY <1>4, <1>5 DEF Becomes
  <1>7. UNCHANGED <<from_space, to_space, rem_index, prev_nersary_top, prev_tenured_top>>
    BY <1>1 DEF minorVars
  <1>8. UNCHANGED <<scanned, new_top>>
    BY <1>1 DEF slideVars
  <1> QED
    BY <1>1, <1>3, <1>6, <1>7, <1>8 DEF Redefine, genVars

LEMMA RedefineKeeps ==
  ASSUME IInv, pc = "run", ~TenuredRedefined, NEW i \in Roots, NEW j \in Roots,
         RedefineWithBarrier(i, j)
  PROVE  IInv'
  <1> DEFINE e == heap[root[i]].car
  <1>1. /\ Redefine(i, j) /\ e \in DOMAIN heap /\ ~Old(e)
        /\ UNCHANGED <<marked, mark_stack, genVars>>
    BY RedefineStores
  <1>2. heap' = [heap EXCEPT ![e].cdr = root[j]] /\ UNCHANGED <<pc, req, k, g_GC_stress>>
    BY <1>1 DEF Redefine
  <1>7. AtRest
    BY DEF AtRest
  <1>8. Graph
    BY <1>7, RestFacts
  <1>9. Client
    BY <1>1 DEF Client
  <1>10. /\ Graph' /\ DOMAIN heap' = DOMAIN heap
         /\ \A a \in DOMAIN heap : heap'[a].size = heap[a].size
    BY <1>8, <1>9, ClientKeepsGraph
  <1>11. \A a \in DOMAIN heap : Old(a) => heap'[a] = heap[a]
    BY <1>1, <1>2
  <1> QED
    BY <1>1, <1>2, <1>10, <1>11, StoreKeeps DEF genVars

\* Steps that end the program and leave the memory as it is.
LEMMA StopKeeps ==
  ASSUME IInv, pc' \in Ends, pc' # "overflowed", mark_stack = <<>>,
         UNCHANGED <<root, heap, req, k, g_GC_stress, marked, mark_stack, genVars>>
  PROVE  IInv'
  <1>1. Memory' = Memory
    BY DEF Memory, genVars
  <1>2. Typing'
    BY DEF IInv, Typing, Phases, genVars
  <1>3. Typed(Memory)' /\ Tiled(Memory)' /\ Placed(Memory, from_space, to_space)'
    BY <1>1 DEF IInv, genVars
  <1> QED
    BY <1>2, <1>3, EndKeeps

LEMMA BarrierFaultsKeeps ==
  ASSUME IInv, pc = "run", NEW i \in Roots, NEW j \in Roots, BarrierFaults(i, j)
  PROVE  IInv'
  <1>1. mark_stack = <<>>
    BY DEF IInv, StateOK
  <1> QED
    BY <1>1, StopKeeps DEF BarrierFaults, Ends

LEMMA ExhaustedKeeps ==
  ASSUME IInv, Exhausted
  PROVE  IInv'
  <1>1. mark_stack = <<>>
    BY DEF IInv, StateOK, Exhausted
  <1> QED
    BY <1>1, StopKeeps DEF Exhausted, Ends

LEMMA MallocKeeps ==
  ASSUME IInv, MallocRetry \/ \E r \in Requests : MallocFast(r)
  PROVE  IInv'
  <1>1. AtRest
    BY DEF AtRest, MallocRetry, MallocFast
  <1>2. tenured_top \in Nat
    BY DEF IInv, Typed, Memory
  <1>3. CASE MallocRetry
    <2>1. req \in Requests /\ IS_ALLOCATABLE_NERSARY(req.size) /\ Allocate(req)
      BY <1>3 DEF MallocRetry, CanAllocate, IInv, StateOK, Phases, Ends
    <2>2. tenured_top + nersary_heap_size <= tenured_space + tenured_heap_size
      BY <1>2, <1>3, Layout DEF MallocRetry, CanAllocate, IS_ALLOCATABLE_TENURED
    <2> QED
      BY <1>1, <2>1, <2>2, AllocateKeeps
  <1>4. ASSUME NEW r \in Requests, MallocFast(r)
        PROVE  IInv'
    <2>1. IS_ALLOCATABLE_NERSARY(r.size) /\ Allocate(r) /\ pc = "run"
      BY <1>4 DEF MallocFast, NeedsGC
    <2>2. tenured_top + nersary_heap_size <= tenured_space + tenured_heap_size
      BY <1>1, <2>1 DEF IInv, Resting
    <2> QED
      BY <1>1, <2>1, <2>2, AllocateKeeps
  <1> QED
    BY <1>3, <1>4

LEMMA InitKeeps ==
  ASSUME Init
  PROVE  IInv
  <1> DEFINE m == Memory
             f == from_space
  <1>1. /\ heap = <<>> /\ DOMAIN heap = {} /\ hdr = <<>> /\ pc = "run" /\ req = NoReq /\ k = 1
        /\ marked = {} /\ mark_stack = <<>> /\ remembered_set = <<>> /\ rem_index = 1
        /\ from_space = nersary_space /\ to_space = nersary_space + nersary_heap_size
        /\ nersary_top = nersary_space /\ tenured_top = tenured_space
        /\ prev_nersary_top = nersary_space /\ prev_tenured_top = tenured_space
        /\ scanned = tenured_space /\ new_top = tenured_space
        /\ root = [i \in Roots |-> IMM] /\ g_GC_stress \in BOOLEAN
    BY StressAssumption DEF Init, BaseInit
  <1>2. /\ m = [heap |-> m.heap, hdr |-> m.hdr, ntop |-> m.ntop, ttop |-> m.ttop,
                rem |-> m.rem, full |-> m.full]
        /\ m.heap = heap /\ DOMAIN m.heap = {} /\ m.hdr = hdr /\ m.ntop = nersary_space
        /\ m.ttop = tenured_space /\ m.rem = <<>> /\ m.full = FALSE
    BY <1>1 DEF Memory
  <1>3. Typing
    <2>1. root \in [Roots -> Value] /\ k \in 1 .. (NRoots + 1)
      BY <1>1, RootsAssumption DEF Value
    <2>2. pc \in Phases /\ mark_stack \in Seq(Nat)
      BY <1>1 DEF Phases
    <2> QED
      BY <1>1, <2>1, <2>2, Layout DEF Typing
  <1>4. Typed(m)
    <2>1. heap \in [DOMAIN heap -> Object] /\ hdr \in [DOMAIN heap -> Header]
      BY <1>1
    <2>2. m.rem \in Seq(Nat)
      <3>1. <<>> \in Seq(Nat)
        OBVIOUS
      <3> QED
        BY <1>2, <3>1
    <2>4. m.full \in BOOLEAN
      BY <1>2
    <2>3. m.ntop \in Nat /\ m.ttop \in Nat
      BY <1>2, Layout
    <2> QED
      BY <1>1, <1>2, <2>1, <2>2, <2>3, <2>4 DEF Typed
  <1>5. Tiled(m) /\ Placed(m, from_space, to_space) /\ Bits(m) /\ AtHome(m) /\ Unlisted(m)
    BY <1>2 DEF Tiled, Disjoint, Placed, Bits, AtHome, Unlisted
  <1>6. NurseryOK(m, f) /\ TenuredOK(m)
    <2>1. (nersary_space - nersary_space) % 4 = 0
      BY Layout
    <2> QED
      BY <1>1, <1>2, <2>1, Layout DEF NurseryOK, TenuredOK, Gapless
  <1>7. RemOK(m, tenured_top)
    <2>1. Len(m.rem) = 0 /\ Listed(m) = {}
      BY <1>2 DEF Listed
    <2> QED
      BY <1>2, <2>1, GenerationAssumption DEF RemOK, Distinct
  <1>8. ClosedFromRoots(DOMAIN heap)
    BY <1>1 DEF ClosedFromRoots, CELL_P
  <1>9. Resting
    BY <1>1, <1>5, <1>6, <1>7, <1>8, Layout DEF Resting, Quiet
  <1>10. StateOK
    BY <1>1 DEF StateOK, Phases, Ends, AtRest, Scanning
  <1>11. MarkInv
    BY <1>1 DEF MarkInv
  <1> QED
    BY <1>1, <1>3, <1>4, <1>5, <1>9, <1>10, <1>11 DEF IInv, Scanning

-----------------------------------------------------------------------------
(* The major collection marks, and plans where the marked cells go. *)

LEMMA MarkPhaseHolds ==
  ASSUME IInv, MarkPhase, UNCHANGED genVars
  PROVE  IInv'
  <1>1. pc \in {"roots", "mark"}
    BY DEF MarkPhase, MarkRoot, RootsMarked, MarkNext
  <1>2. /\ Typing /\ Typed(Memory) /\ Tiled(Memory) /\ Placed(Memory, from_space, to_space)
        /\ StateOK /\ MarkInv /\ MarkingOK
    BY <1>1 DEF IInv
  <1>3. Graph
    BY <1>2, GraphFacts DEF MarkingOK
  <1>4. k \in 1 .. (NRoots + 1)
    BY <1>2 DEF Typing
  <1>5. /\ MarkInv' /\ UNCHANGED <<root, heap, req, g_GC_stress>>
        /\ pc' \in {"roots", "mark", "overflowed"} /\ k' \in 1 .. (NRoots + 1)
        /\ marked' \subseteq marked \cup DOMAIN heap
    BY <1>2, <1>3, <1>4, MarkPhaseKeeps
  <1>6. Memory' = Memory
    BY <1>5 DEF Memory, genVars
  <1>7. Typing'
    <2>1. mark_stack' \in Seq(DOMAIN heap) /\ DOMAIN heap \subseteq Nat
      BY <1>3, <1>5 DEF MarkInv, Graph
    <2>2. mark_stack' \in Seq(Nat)
      BY <2>1
    <2>3. marked' \subseteq Nat
      BY <1>2, <1>5, <2>1 DEF Typing
    <2>4. pc' \in Phases
      BY <1>5 DEF Phases, Ends
    <2> QED
      BY <1>2, <1>5, <2>2, <2>3, <2>4 DEF Typing, genVars
  <1>8. StateOK'
    BY <1>1, <1>2, <1>5 DEF StateOK, AtRest, Scanning, Phases, Ends, genVars
  <1>9. MarkingOK'
    BY <1>2, <1>5, <1>6 DEF MarkingOK, ClosedFromRoots, genVars
  <1>10. Typed(Memory)' /\ Tiled(Memory)' /\ Placed(Memory, from_space, to_space)'
    BY <1>2, <1>6 DEF genVars
  <1>11. pc' \notin {"run", "minor_done", "retry", "update", "slide"} \cup Scanning
    BY <1>5 DEF Scanning
  <1> QED
    BY <1>5, <1>7, <1>8, <1>9, <1>10, <1>11 DEF IInv, AtRest

\* The bytes of the cells of M below a.
BytesBelow(m, M, a) == UNION {Extent(m.heap, b) : b \in {c \in M : c < a}}

\* Each cell after as many bytes as the cells below it have: they are packed in
\* their order, and none moves up.
LEMMA PackedPlan ==
  ASSUME NEW m, Typed(m), Tiled(m), NEW M, M \subseteq DOMAIN m.heap,
         NEW b \in Nat, \A a \in M : b <= a, NEW n, n.heap = m.heap,
         \A a \in M : n.hdr[a].forwarding = b + Cardinality(BytesBelow(m, M, a))
  PROVE  Plan(n, M, b) /\ \A a \in M : n.hdr[a].forwarding \in Nat
  <1> DEFINE U(a) == BytesBelow(m, M, a)
             E(a) == Extent(m.heap, a)
  <1>1. ASSUME NEW a \in M
        PROVE  /\ a \in Nat /\ m.heap[a].size \in Nat /\ m.heap[a].size > 0 /\ b <= a
               /\ IsFiniteSet(E(a)) /\ Cardinality(E(a)) = m.heap[a].size
    BY CellFacts, ExtentSize
  <1>2. ASSUME NEW a \in M, NEW c \in M, a < c
        PROVE  a + m.heap[a].size <= c
    <2>1. a # c /\ (a + m.heap[a].size <= c \/ c + m.heap[c].size <= a)
      BY <1>1, <1>2 DEF Tiled, Disjoint
    <2> QED
      BY <1>1, <1>2, <2>1
  <1>3. ASSUME NEW a \in M
        PROVE  /\ U(a) \subseteq b .. (a - 1)
               /\ IsFiniteSet(U(a)) /\ Cardinality(U(a)) \in Nat /\ b + Cardinality(U(a)) <= a
    <2>1. ASSUME NEW c \in M, c < a, NEW x \in E(c)
          PROVE  x \in b .. (a - 1)
      <3>1. x \in c .. (c + m.heap[c].size - 1)
        BY DEF Extent
      <3>2. c + m.heap[c].size <= a
        BY <1>2, <2>1
      <3> QED
        BY <1>1, <3>1, <3>2
    <2>2. U(a) \subseteq b .. (a - 1)
      BY <2>1 DEF BytesBelow
    <2> DEFINE z == a - 1
    <2>3. b \in Int /\ z \in Int /\ (IF b > z THEN 0 ELSE z - b + 1) = a - b
      BY <1>1
    <2>4. a \in Nat /\ b <= a
      BY <1>1
    <2> HIDE DEF z
    <2>5. IsFiniteSet(b .. z) /\ Cardinality(b .. z) = a - b
      BY <2>3, FS_Interval
    <2>6. U(a) \subseteq b .. z
      BY <2>2 DEF z
    <2> HIDE DEF U
    <2>7. IsFiniteSet(U(a)) /\ Cardinality(U(a)) <= a - b
      BY <2>5, <2>6, FS_Subset
    <2>8. Cardinality(U(a)) \in Nat
      BY <2>7, FS_CardinalityType
    <2> QED
      BY <2>2, <2>4, <2>7, <2>8
  <1>4. ASSUME NEW a \in M
        PROVE  /\ IsFiniteSet(U(a) \cup E(a))
               /\ Cardinality(U(a) \cup E(a)) = Cardinality(U(a)) + m.heap[a].size
    <2>1. U(a) \cap E(a) = {}
      <3>1. \A x \in b .. (a - 1) : x \notin E(a)
        BY <1>1 DEF Extent
      <3> QED
        BY <1>3, <3>1
    <2> HIDE DEF U, E
    <2>2. IsFiniteSet(U(a)) /\ IsFiniteSet(E(a)) /\ Cardinality(U(a)) \in Nat
          /\ Cardinality(E(a)) = m.heap[a].size /\ m.heap[a].size \in Nat
      BY <1>1, <1>3
    <2> DEFINE S == U(a)
               T == E(a)
    <2>3. S \cap T = {} /\ IsFiniteSet(S) /\ IsFiniteSet(T)
      BY <2>1, <2>2
    <2>4. Cardinality(S) \in Nat /\ Cardinality(T) = m.heap[a].size /\ m.heap[a].size \in Nat
      BY <2>2
    <2> SUFFICES IsFiniteSet(S \cup T) /\ Cardinality(S \cup T) = Cardinality(S) + m.heap[a].size
      OBVIOUS
    <2> HIDE DEF S, T
    <2>5. IsFiniteSet(S \cup T)
          /\ Cardinality(S \cup T) = Cardinality(S) + Cardinality(T) - Cardinality(S \cap T)
      BY <2>3, FS_Union
    <2>6. Cardinality(S \cap T) = 0
      BY <2>3, FS_EmptySet
    <2> QED
      BY <2>4, <2>5, <2>6
  <1>5. ASSUME NEW a \in M, NEW c \in M, a < c
        PROVE  n.hdr[a].forwarding + n.heap[a].size <= n.hdr[c].forwarding
    <2>1. U(a) \cup E(a) \subseteq U(c)
      <3>1. \A x \in M : x < a => x < c
        BY <1>1, <1>5
      <3> QED
        BY <1>5, <3>1 DEF BytesBelow
    <2>2. Cardinality(U(a) \cup E(a)) <= Cardinality(U(c))
      <3> HIDE DEF U, E
      <3> QED
        BY <1>3, <2>1, FS_Subset
    <2>3. Cardinality(U(a)) \in Nat /\ Cardinality(U(c)) \in Nat /\ m.heap[a].size \in Nat
      BY <1>1, <1>3
    <2>4. Cardinality(U(a)) + m.heap[a].size <= Cardinality(U(c))
      BY <1>4, <2>2
    <2> HIDE DEF U
    <2>5. n.hdr[a].forwarding = b + Cardinality(U(a)) /\ n.hdr[c].forwarding = b + Cardinality(U(c))
      BY DEF U
    <2> QED
      BY <2>3, <2>4, <2>5
  <1>6. ASSUME NEW a \in M
        PROVE  \/ n.hdr[a].forwarding = b
               \/ \E c \in M : c < a /\ n.hdr[a].forwarding = n.hdr[c].forwarding + n.heap[c].size
    <2> DEFINE L == {c \in M : c < a}
    <2>1. CASE L = {}
      <3>1. U(a) = {}
        BY <2>1 DEF BytesBelow
      <3>2. Cardinality(U(a)) = 0
        BY <3>1, FS_EmptySet
      <3> QED
        BY <3>2
    <2>2. CASE L # {}
      <3>1. L \subseteq 0 .. a /\ L \in SUBSET Nat
        BY <1>1
      <3>2. IsFiniteSet(L)
        <4>1. 0 \in Int /\ a \in Int
          BY <1>1
        <4> HIDE DEF L
        <4> QED
          BY <3>1, <4>1, FS_Interval, FS_Subset
      <3>3. PICK c \in L : \A d \in L : d <= c
        <4> HIDE DEF L
        <4> QED
          BY <2>2, <3>1, <3>2, GreatestNat
      <3>4. c \in M /\ c < a
        OBVIOUS
      <3>5. U(a) = U(c) \cup E(c)
        <4>1. \A d \in M : d < a <=> d < c \/ d = c
          <5> SUFFICES ASSUME NEW d \in M PROVE d < a <=> d < c \/ d = c
            OBVIOUS
          <5>1. d \in Nat /\ c \in Nat /\ a \in Nat
            BY <1>1
          <5>2. d < a => d <= c
            BY <3>3
          <5> QED
            BY <3>4, <5>1, <5>2
        <4> QED
          BY <3>4, <4>1 DEF BytesBelow
      <3>6. Cardinality(U(a)) = Cardinality(U(c)) + m.heap[c].size
        <4> HIDE DEF U, E
        <4> QED
          BY <1>4, <3>4, <3>5
      <3>7. Cardinality(U(c)) \in Nat /\ m.heap[c].size \in Nat
        BY <1>1, <1>3, <3>4
      <3> HIDE DEF U
      <3>8. n.hdr[a].forwarding = b + Cardinality(U(a)) /\ n.hdr[c].forwarding = b + Cardinality(U(c))
        BY <3>4 DEF U
      <3>9. n.hdr[a].forwarding = n.hdr[c].forwarding + n.heap[c].size
        BY <3>6, <3>7, <3>8
      <3> QED
        BY <3>4, <3>9
    <2> QED
      BY <2>1, <2>2
  <1>7. ASSUME NEW a \in M
        PROVE  b <= n.hdr[a].forwarding /\ n.hdr[a].forwarding <= a /\ n.hdr[a].forwarding \in Nat
    <2>1. Cardinality(U(a)) \in Nat /\ b + Cardinality(U(a)) <= a
      BY <1>3
    <2>2. n.hdr[a].forwarding = b + Cardinality(U(a))
      OBVIOUS
    <2> HIDE DEF U
    <2> QED
      BY <2>1, <2>2
  <1> QED
    BY <1>5, <1>6, <1>7 DEF Plan

LEMMA CalcNewAddressKeeps ==
  ASSUME IInv, calc_new_address
  PROVE  IInv'
  <1> DEFINE m == Memory
             f == from_space
             t == to_space
             n == Memory'
             M == Tenured \cap marked
             to(a) == tenured_space + Cardinality(BytesBelow(m, M, a))
             g(a) == IF a \in M THEN [m.hdr[a] EXCEPT !.forwarding = to(a)] ELSE m.hdr[a]
  <1>1. /\ Marked /\ pc = "mark" /\ mark_stack = <<>> /\ pc' = "update"
        /\ scanned' = tenured_space /\ new_top' = tenured_space
        /\ UNCHANGED <<root, heap, req, k, g_GC_stress, marked, mark_stack, remembered_set, minorVars>>
        /\ n.heap = m.heap /\ n.ntop = m.ntop /\ n.ttop = m.ttop /\ n.rem = m.rem /\ n.full = FALSE
        /\ m.full = FALSE
    BY DEF calc_new_address, Marked, Memory
  <1>2. /\ Typed(m) /\ Tiled(m) /\ Placed(m, f, t) /\ HalvesApart(f, t) /\ Typing /\ MarkingOK /\ StateOK
        /\ MarkInv /\ NurseryOK(m, f) /\ TenuredOK(m) /\ Bits(m) /\ AtHome(m)
        /\ ClosedFromRoots(DOMAIN heap)
    BY <1>1, TypingApart DEF IInv, MarkingOK, Quiet
  <1>3. ClosedFromRoots(marked \cap DOMAIN heap)
    <2>1. Graph
      BY <1>2, GraphFacts
    <2>2. marked \cap DOMAIN heap = Live
      BY <1>1, <1>2, <2>1, MarkingEnds
    <2> QED
      BY <2>1, <2>2, LiveClosed
  <1>4. m.heap = heap /\ DOMAIN m.hdr = DOMAIN m.heap /\ m.hdr = hdr
    BY <1>2, MemoryRecord DEF Typed
  <1>5. n.hdr = [a \in DOMAIN m.heap |-> g(a)]
    <2>1. hdr' = [a \in DOMAIN hdr |-> g(a)]
      BY <1>4 DEF calc_new_address, BytesBelow
    <2> QED
      BY <1>4, <2>1 DEF Memory
  <1>6. /\ n = [heap |-> n.heap, hdr |-> n.hdr, ntop |-> n.ntop, ttop |-> n.ttop,
                rem |-> n.rem, full |-> n.full]
        /\ n = Memory' /\ f = from_space /\ t = to_space /\ n.heap = heap' /\ n.hdr = hdr'
    BY DEF Memory
  <1>7. M \subseteq DOMAIN m.heap /\ \A a \in DOMAIN m.heap : a \in M <=> Old(a) /\ a \in marked
    BY <1>4 DEF Tenured, InTenured, Old
  <1> HIDE DEF m, f, t, n, M
  <1>8. ASSUME NEW a \in M
        PROVE  tenured_space <= a
    BY <1>7, <1>8 DEF Old
  <1>9. ASSUME NEW a \in M
        PROVE  n.hdr[a].forwarding = to(a)
    <2>1. m.hdr[a] \in Header /\ a \in DOMAIN m.heap
      BY <1>2, <1>7, CellFacts
    <2> HIDE DEF to
    <2>2. n.hdr[a] = [m.hdr[a] EXCEPT !.forwarding = to(a)]
      BY <1>5, <2>1
    <2> QED
      BY <2>1, <2>2 DEF Header
  <1>10. Plan(n, M, tenured_space) /\ \A a \in M : n.hdr[a].forwarding \in Nat
    <2>1. tenured_space \in Nat
      BY Layout
    <2> QED
      BY <1>1, <1>2, <1>7, <1>8, <1>9, <2>1, PackedPlan
  <1>11. ASSUME NEW a \in DOMAIN m.heap
         PROVE  n.hdr[a] \in Header /\ BitsOK(n.hdr[a], a) /\ (a \notin M => n.hdr[a].forwarding = a)
    <2>1. m.hdr[a] \in Header /\ BitsOK(m.hdr[a], a) /\ m.hdr[a].forwarding = a
      BY <1>2, CellFacts DEF Bits, AtHome
    <2>2. CASE a \notin M
      BY <1>5, <2>1, <2>2
    <2>3. CASE a \in M
      <3>1. to(a) \in Nat
        BY <1>9, <1>10, <2>3
      <3> HIDE DEF to
      <3>2. n.hdr[a] = [m.hdr[a] EXCEPT !.forwarding = to(a)]
        BY <1>5, <2>3
      <3> QED
        BY <2>1, <2>3, <3>1, <3>2 DEF Header, BitsOK
    <2> QED
      BY <2>2, <2>3
  <1>12. Typed(n)
    <2>1. n.hdr \in [DOMAIN m.heap -> Header]
      <3> HIDE DEF g
      <3>1. \A a \in DOMAIN m.heap : g(a) \in Header
        BY <1>5, <1>11
      <3> QED
        BY <1>5, <3>1
    <2>2. n.full \in BOOLEAN
      BY <1>1
    <2> QED
      BY <1>1, <1>2, <1>6, <2>1, <2>2 DEF Typed
  <1>13. Tiled(n) /\ Placed(n, f, t)
    BY <1>1, <1>2 DEF Tiled, Placed, End
  <1>14. Quiet(n, f)
    <2>1. NurseryOK(n, f)
      BY <1>1, <1>2 DEF NurseryOK, End
    <2>2. TenuredOK(n)
      BY <1>1, <1>2 DEF TenuredOK, Gapless, End
    <2>3. Bits(n)
      BY <1>1, <1>11 DEF Bits
    <2> QED
      BY <2>1, <2>2, <2>3 DEF Quiet
  <1>15. UpdateOK'
    <2>1. (Tenured \cap marked)' = M
      BY <1>1 DEF Tenured, InTenured, M
    <2>2. ClosedFromRoots(DOMAIN heap)' /\ ClosedFromRoots(marked \cap DOMAIN heap)'
      BY <1>1, <1>2, <1>3 DEF ClosedFromRoots
    <2>3. \A a \in DOMAIN heap' \ M : hdr'[a].forwarding = a
      BY <1>1, <1>6, <1>11
    <2>4. Quiet(Memory, from_space)' /\ Plan(Memory', M, tenured_space)
      BY <1>1, <1>6, <1>10, <1>14 DEF minorVars
    <2> QED
      BY <1>1, <2>1, <2>2, <2>3, <2>4 DEF UpdateOK
  <1>16. Typing'
    BY <1>1, <1>2, Layout DEF Typing, Phases, minorVars
  <1>17. StateOK'
    BY <1>1, <1>2 DEF StateOK, AtRest, Scanning, Phases, Ends, minorVars
  <1>18. MarkInv'
    BY <1>1, <1>2 DEF MarkInv
  <1>19. Typed(Memory)' /\ Tiled(Memory)' /\ Placed(Memory, from_space, to_space)'
    BY <1>1, <1>6, <1>12, <1>13 DEF minorVars
  <1>20. pc' \notin {"run", "minor_done", "retry", "slide", "roots", "mark"} \cup Scanning
    BY <1>1 DEF Scanning
  <1> QED
    BY <1>15, <1>16, <1>17, <1>18, <1>19, <1>20 DEF IInv, AtRest

LEMMA UpdatedFieldsFacts ==
  ASSUME NEW o \in Object, \A v \in Fields(o) : Updated(v) \in Value
  PROVE  /\ UpdatedFields(o) \in Object /\ UpdatedFields(o).size = o.size
         /\ \A w \in Fields(UpdatedFields(o)) : \E v \in Fields(o) : w = Updated(v)
  <1> DEFINE q == UpdatedFields(o)
  <1>1. q.car = Updated(o.car) /\ q.cdr = Updated(o.cdr) /\ q.size = o.size /\ q.type = o.type
    BY DEF UpdatedFields, Object
  <1>2. Updated(o.car) \in Value /\ Updated(o.cdr) \in Value
    BY DEF Fields
  <1>3. q \in Object
    <2>1. CASE o.type = "leaf"
      <3>1. o \in [type : {"leaf"}, size : Nat, car : {IMM}, cdr : {IMM}]
        BY <2>1 DEF Object
      <3>2. Updated(o.car) = IMM /\ Updated(o.cdr) = IMM
        BY <3>1 DEF Updated, CELL_P
      <3>3. q \in [type : {"leaf"}, size : Nat, car : {IMM}, cdr : {IMM}]
        BY <3>1, <3>2 DEF UpdatedFields
      <3> QED
        BY <3>3 DEF Object
    <2>2. CASE o.type # "leaf"
      <3>1. o \in [type : {"pair"}, size : Nat, car : Value, cdr : Value]
        BY <2>2 DEF Object
      <3>2. q \in [type : {"pair"}, size : Nat, car : Value, cdr : Value]
        BY <1>2, <3>1 DEF UpdatedFields
      <3> QED
        BY <3>2 DEF Object
    <2> QED
      BY <2>1, <2>2
  <1>4. \A w \in Fields(q) : w = Updated(o.car) \/ w = Updated(o.cdr)
    BY <1>1 DEF Fields
  <1>5. o.car \in Fields(o) /\ o.cdr \in Fields(o)
    BY DEF Fields
  <1> QED
    BY <1>1, <1>3, <1>4, <1>5

\* All references now lead to where the cells will be.
LEMMA UpdatePointerKeeps ==
  ASSUME IInv, update_pointer
  PROVE  IInv'
  <1> DEFINE m == Memory
             f == from_space
             t == to_space
             n == Memory'
             M == Tenured \cap marked
             D == DOMAIN m.heap
             h == [a \in DOMAIN heap |-> IF a \in M \/ ~InTenured(a)
                                         THEN UpdatedFields(heap[a]) ELSE heap[a]]
             homes == {hdr[a].forwarding : a \in M}
  <1>1. /\ pc = "update" /\ pc' = "slide"
        /\ UNCHANGED <<req, k, g_GC_stress, marked, mark_stack, from_space, to_space, rem_index,
                       prev_nersary_top, prev_tenured_top, scanned, new_top, remembered_set>>
        /\ root' = [i \in Roots |-> Updated(root[i])] /\ heap' = h
        /\ n.heap = h /\ n.ntop = m.ntop /\ n.ttop = m.ttop /\ n.rem = m.rem /\ n.full = FALSE
    BY DEF update_pointer, Memory, minorVars, slideVars
  <1>2. PICK garbage \in SUBSET (homes \ DOMAIN hdr) :
          hdr' = [a \in DOMAIN hdr |->
                    IF a \in M THEN [hdr[a] EXCEPT !.remembered =
                                       \E v \in Fields(h[a]) : ReadsNersary(Memory, v, garbage)]
                    ELSE hdr[a]]
    BY DEF update_pointer
  <1> DEFINE R(a) == \E v \in Fields(n.heap[a]) : ReadsNersary(m, v, garbage)
             g(a) == IF a \in M THEN [m.hdr[a] EXCEPT !.remembered = R(a)] ELSE m.hdr[a]
  <1>3. /\ Typed(m) /\ Tiled(m) /\ Placed(m, f, t) /\ HalvesApart(f, t) /\ Typing /\ StateOK /\ UpdateOK
        /\ mark_stack = <<>> /\ m.rem = <<>> /\ rem_index = 1 /\ req \in Requests
    BY <1>1, TypingApart DEF IInv, StateOK, Memory, Ends, Phases
  <1>4. m.heap = heap /\ m.hdr = hdr /\ DOMAIN m.hdr = D
    BY <1>3, MemoryRecord DEF Typed
  <1>5. /\ NurseryOK(m, f) /\ TenuredOK(m) /\ Bits(m)
        /\ scanned = tenured_space /\ new_top = tenured_space
        /\ \A a \in D \ M : m.hdr[a].forwarding = a
        /\ Plan(m, M, tenured_space)
        /\ ClosedFromRoots(D) /\ ClosedFromRoots(marked \cap D)
    BY <1>3, <1>4 DEF UpdateOK, Quiet
  <1>6. n.hdr = [a \in D |-> g(a)]
    BY <1>1, <1>2, <1>4 DEF Memory
  <1>7. /\ n = [heap |-> n.heap, hdr |-> n.hdr, ntop |-> n.ntop, ttop |-> n.ttop,
                rem |-> n.rem, full |-> n.full]
        /\ n = Memory' /\ f = from_space /\ t = to_space /\ n.heap = heap' /\ n.hdr = hdr'
        /\ n.ttop = tenured_top'
    BY DEF Memory
  <1>8. M \subseteq D /\ \A a \in D : a \in M <=> Old(a) /\ a \in marked
    BY <1>4 DEF Tenured, InTenured, Old
  <1>9. n.heap = [a \in D |-> IF a \in M \/ ~Old(a) THEN UpdatedFields(m.heap[a]) ELSE m.heap[a]]
    BY <1>1, <1>4 DEF Old, InTenured
  <1>10. \A v : Updated(v) = IF CELL_P(v) THEN m.hdr[v].forwarding ELSE v
    BY <1>4 DEF Updated
  <1> HIDE DEF m, f, t, n, M, D, R
  <1>11. ASSUME NEW v, v \in Value, CELL_P(v) => v \in D
         PROVE  Updated(v) \in Value
    <2>1. CELL_P(v) => m.hdr[v].forwarding \in Nat
      BY <1>3, <1>11, CellFacts DEF Header, D
    <2> QED
      BY <1>10, <1>11, <2>1 DEF Value
  <1>12. ASSUME NEW a \in D, NEW v \in Fields(m.heap[a])
         PROVE  v \in Value /\ (CELL_P(v) => v \in D) /\ Updated(v) \in Value
    <2>1. v \in Value
      BY <1>3, CellFacts DEF D
    <2>2. CELL_P(v) => v \in D
      BY <1>4, <1>5 DEF ClosedFromRoots
    <2> QED
      BY <1>11, <2>1, <2>2
  <1>13. ASSUME NEW a \in D
         PROVE  /\ n.heap[a] \in Object /\ n.heap[a].size = m.heap[a].size /\ End(n, a) = End(m, a)
                /\ (a \in M \/ ~Old(a)) => \A w \in Fields(n.heap[a]) :
                                            \E v \in Fields(m.heap[a]) : w = Updated(v)
    <2>1. m.heap[a] \in Object
      BY <1>3, CellFacts DEF D
    <2>2. CASE a \in M \/ ~Old(a)
      <3>1. n.heap[a] = UpdatedFields(m.heap[a])
        BY <1>9, <2>2
      <3> QED
        BY <1>12, <2>1, <3>1, UpdatedFieldsFacts DEF End
    <2>3. CASE ~(a \in M \/ ~Old(a))
      <3>1. n.heap[a] = m.heap[a]
        BY <1>9, <2>3
      <3> QED
        BY <2>1, <2>3, <3>1 DEF End
    <2> QED
      BY <2>2, <2>3
  <1>14. ASSUME NEW a \in D
         PROVE  /\ n.hdr[a] \in Header /\ BitsOK(n.hdr[a], a)
                /\ n.hdr[a].forwarding = m.hdr[a].forwarding
                /\ a \in M => (n.hdr[a].remembered <=> R(a))
    <2>1. m.hdr[a] \in Header /\ BitsOK(m.hdr[a], a)
      BY <1>3, <1>5, CellFacts DEF Bits, D
    <2>2. CASE a \notin M
      BY <1>6, <2>1, <2>2
    <2>3. CASE a \in M
      <3>1. Old(a)
        BY <1>8, <2>3
      <3>2. n.hdr[a] = [m.hdr[a] EXCEPT !.remembered = R(a)]
        BY <1>6, <2>3
      <3>3. R(a) \in BOOLEAN
        BY DEF R
      <3> QED
        BY <2>1, <3>1, <3>2, <3>3 DEF Header, BitsOK
    <2> QED
      BY <2>2, <2>3
  <1>15. Typed(n)
    <2>1. n.heap \in [D -> Object] /\ DOMAIN n.heap = D
      BY <1>9, <1>13
    <2>2. n.hdr \in [D -> Header]
      <3>1. DOMAIN n.hdr = D /\ n.hdr = [a \in D |-> n.hdr[a]]
        BY <1>6
      <3> QED
        BY <1>14, <3>1
    <2>3. n.full \in BOOLEAN
      BY <1>1
    <2>4. m.ntop \in Nat /\ m.ttop \in Nat /\ m.rem \in Seq(Nat) /\ D \subseteq Nat
      BY <1>3 DEF Typed, D
    <2> QED
      BY <1>1, <1>7, <2>1, <2>2, <2>3, <2>4 DEF Typed
  <1>16. DOMAIN n.heap = D
    BY <1>9
  <1>17. Tiled(n) /\ Placed(n, f, t)
    BY <1>3, <1>13, <1>16 DEF Tiled, Disjoint, Placed, D
  <1>18. NurseryOK(n, f) /\ Bits(n)
    BY <1>1, <1>5, <1>13, <1>14, <1>16 DEF NurseryOK, Bits, D
  <1>19. Pending' = M /\ Slid' = {} /\ \A a \in D : a \in Young' <=> ~Old(a)
    <2>1. DOMAIN heap' = D /\ D \subseteq Nat
      BY <1>3, <1>7, <1>16 DEF Typed, D
    <2>2. \A a \in D : Old(a) => ~(a < tenured_space) /\ a >= tenured_space
      BY <2>1, Layout DEF Old
    <2>3. Pending' = M
      <3>1. Pending' = {a \in D : a >= tenured_space /\ Old(a) /\ a \in marked}
        BY <1>1, <1>5, <2>1 DEF Pending, Old
      <3> QED
        BY <1>8, <2>2, <3>1
    <2>4. Slid' = {}
      <3>1. Slid' = {a \in D : Old(a) /\ a < tenured_space}
        BY <1>1, <1>5, <2>1 DEF Slid, Old
      <3> QED
        BY <2>2, <3>1
    <2> QED
      BY <2>1, <2>3, <2>4 DEF Young, Old
  <1> DEFINE Stays(w) == CELL_P(w) => \/ w \in Young' /\ w \in marked'
                                      \/ w \in Slid'
                                      \/ \E b \in Pending' : w = hdr'[b].forwarding
  <1>20. ASSUME NEW v, CELL_P(v) => v \in marked \cap D, NEW w, w = Updated(v)
         PROVE  Stays(w)
    <2> SUFFICES ASSUME CELL_P(w)
                 PROVE  (w \in Young' /\ w \in marked') \/ \E b \in Pending' : w = hdr'[b].forwarding
      OBVIOUS
    <2>1. CELL_P(v) /\ v \in D /\ v \in marked /\ w = m.hdr[v].forwarding
      BY <1>10, <1>20
    <2>2. CASE v \in M
      <3>1. w = hdr'[v].forwarding
        BY <1>7, <1>14, <2>1
      <3> QED
        BY <1>19, <2>2, <3>1
    <2>3. CASE v \notin M
      <3>1. w = v
        BY <1>5, <2>1, <2>3
      <3> QED
        BY <1>1, <1>8, <1>19, <2>1, <2>3, <3>1
    <2> QED
      BY <2>2, <2>3
  <1>21. \A i \in Roots : Stays(root'[i])
    <2> SUFFICES ASSUME NEW i \in Roots PROVE Stays(root'[i])
      OBVIOUS
    <2>1. root'[i] = Updated(root[i])
      BY <1>1
    <2>2. CELL_P(root[i]) => root[i] \in marked \cap D
      BY <1>5 DEF ClosedFromRoots
    <2> HIDE DEF Stays
    <2> QED
      BY <1>20, <2>1, <2>2
  <1>22. ASSUME NEW a \in M \cup (Young' \cap marked'), NEW w \in Fields(n.heap[a])
         PROVE  Stays(w)
    <2>1. a \in D /\ a \in marked /\ (a \in M \/ ~Old(a))
      <3>1. Young' \subseteq D
        BY <1>7, <1>16 DEF Young
      <3> QED
        BY <1>1, <1>8, <1>19, <3>1
    <2>2. PICK v \in Fields(m.heap[a]) : w = Updated(v)
      BY <1>13, <2>1
    <2>3. CELL_P(v) => v \in marked \cap D
      BY <1>4, <1>5, <2>1 DEF ClosedFromRoots
    <2> HIDE DEF Stays
    <2> QED
      BY <1>20, <2>2, <2>3
  <1>23. ASSUME NEW a \in M, ~n.hdr[a].remembered, NEW w \in Fields(n.heap[a]), CELL_P(w)
         PROVE  Old(w)
    <2>1. ~R(a)
      BY <1>8, <1>14, <1>23
    <2>2. ~ReadsNersary(m, w, garbage)
      BY <2>1 DEF R
    <2>3. (w \in Young' /\ w \in marked) \/ \E b \in M : w = n.hdr[b].forwarding
      BY <1>1, <1>7, <1>19, <1>22, <1>23
    <2>4. CASE w \in Young' /\ w \in marked
      <3>1. w \in D
        BY <1>7, <1>16, <2>4 DEF Young
      <3>2. m.hdr[w].tenured
        BY <1>4, <1>23, <2>2, <3>1 DEF ReadsNersary
      <3> QED
        BY <1>5, <3>1, <3>2 DEF Bits, BitsOK, D
    <2>5. ASSUME NEW b \in M, w = n.hdr[b].forwarding
          PROVE  Old(w)
      <3>1. w = m.hdr[b].forwarding
        BY <1>8, <1>14, <2>5
      <3> QED
        BY <1>5, <3>1 DEF Plan, Old
    <2> QED
      BY <2>3, <2>4, <2>5
  <1>24. Plan(n, M, tenured_space)
    <2>1. \A a \in M : n.hdr[a].forwarding = m.hdr[a].forwarding /\ n.heap[a].size = m.heap[a].size
      BY <1>8, <1>13, <1>14
    <2> QED
      BY <1>5, <2>1 DEF Plan
  <1>25. ASSUME NEW a \in D, Old(a)
         PROVE  tenured_space <= a /\ End(n, a) <= n.ttop /\ a \in Nat
    <2>1. End(n, a) <= n.ttop
      BY <1>1, <1>5, <1>13, <1>25 DEF TenuredOK, D
    <2>2. a \in Nat
      BY <1>3 DEF Typed, D
    <2> QED
      BY <1>25, <2>1, <2>2 DEF Old
  <1>26. Gapless(n, tenured_space, n.ttop, n.ttop)
    BY <1>1, <1>5, <1>13, <1>16 DEF TenuredOK, Gapless, D
  <1>27. Gapless(n, tenured_space, tenured_space, tenured_space)
    <2>1. \A a \in D : ~(tenured_space <= a /\ a < tenured_space)
      BY <1>3, Layout DEF Typed, D
    <2> QED
      BY <1>16, <2>1 DEF Gapless
  <1>28. RemOK(n, tenured_space)
    <2>1. Len(n.rem) = 0 /\ Listed(n) = {}
      BY <1>1, <1>3 DEF Listed
    <2>2. {a \in D : Old(a) /\ a < tenured_space /\ n.hdr[a].remembered} = {}
      BY <1>3, Layout DEF Old, Typed, D
    <2>3. Len(n.rem) <= REMEMBERED_SET_SIZE /\ Distinct(n.rem)
      BY <2>1, GenerationAssumption DEF Distinct
    <2> QED
      BY <1>16, <2>1, <2>2, <2>3 DEF RemOK
  <1>29. SlideOK'
    <2>1. NurseryOK(Memory, from_space)' /\ Bits(Memory)'
      BY <1>1, <1>7, <1>18
    <2>2. /\ new_top' = tenured_space /\ scanned' = tenured_space /\ tenured_space <= tenured_space
          /\ tenured_space <= tenured_top' /\ tenured_top' <= tenured_space + tenured_heap_size
      BY <1>1, <1>5, <1>7, Layout DEF TenuredOK
    <2>3. \A a \in D : Old(a) => tenured_space <= a /\ End(n, a) <= tenured_top'
      BY <1>7, <1>25
    <2>4. \A a \in D \ M : hdr'[a].forwarding = a
      BY <1>5, <1>7, <1>14
    <2>5. \A i \in Roots : Lasts(root[i])'
      BY <1>21 DEF Lasts
    <2>6. \A a \in M \cup (Young' \cap marked') : \A v \in Fields(heap'[a]) : Lasts(v)'
      BY <1>7, <1>22 DEF Lasts
    <2>7. \A a \in M : ~hdr'[a].remembered => \A v \in Fields(heap'[a]) : CELL_P(v) => Old(v)
      BY <1>7, <1>23
    <2>8. /\ Gapless(n, new_top', new_top', new_top') /\ Gapless(n, scanned', tenured_top', tenured_top')
          /\ Plan(n, Pending', new_top') /\ RemOK(n, new_top')
      BY <1>7, <1>19, <1>24, <1>26, <1>27, <1>28, <2>2
    <2>9. DOMAIN heap' = D /\ Memory' = n
      BY <1>7, <1>16
    <2>10. /\ \A a \in DOMAIN heap' \ Pending' : hdr'[a].forwarding = a
           /\ \A i \in Roots : Lasts(root[i])'
           /\ \A a \in Slid' \cup Pending' \cup (Young' \cap marked') : \A v \in Fields(heap'[a]) : Lasts(v)'
           /\ \A a \in Slid' \cup Pending' : ~hdr'[a].remembered =>
                \A v \in Fields(heap'[a]) : CELL_P(v) => Old(v)
      BY <1>19, <2>4, <2>5, <2>6, <2>7, <2>9
    <2>11. /\ \A a \in DOMAIN heap' : Old(a) => \/ a < new_top' /\ End(n, a) <= new_top'
                                                \/ scanned' <= a /\ End(n, a) <= tenured_top'
      BY <2>2, <2>3, <2>9
    <2>12. /\ tenured_space <= new_top' /\ new_top' <= scanned' /\ scanned' <= tenured_top'
           /\ tenured_top' <= tenured_space + tenured_heap_size
           /\ Gapless(n, tenured_space, new_top', new_top')
      BY <2>2, <2>8
    <2> QED
      BY <2>1, <2>8, <2>9, <2>10, <2>11, <2>12 DEF SlideOK, Old
  <1>30. Typing'
    <2>1. \A i \in Roots : Updated(root[i]) \in Value
      <3> SUFFICES ASSUME NEW i \in Roots PROVE Updated(root[i]) \in Value
        OBVIOUS
      <3>1. root[i] \in Value /\ (CELL_P(root[i]) => root[i] \in D)
        BY <1>3, <1>5 DEF Typing, ClosedFromRoots
      <3> QED
        BY <1>11, <3>1
    <2>2. root' \in [Roots -> Value]
      BY <1>1, <2>1
    <2> QED
      BY <1>1, <1>3, <2>2 DEF Typing, Phases
  <1>31. StateOK'
    BY <1>1, <1>3 DEF StateOK, AtRest, Scanning, Phases, Ends
  <1>32. MarkInv'
    BY <1>1, <1>3 DEF MarkInv
  <1>33. Typed(Memory)' /\ Tiled(Memory)' /\ Placed(Memory, from_space, to_space)'
    BY <1>1, <1>7, <1>15, <1>17
  <1>34. pc' \notin {"run", "minor_done", "retry", "update", "roots", "mark"} \cup Scanning
    BY <1>1 DEF Scanning
  <1> QED
    BY <1>29, <1>30, <1>31, <1>32, <1>33, <1>34 DEF IInv, AtRest

-----------------------------------------------------------------------------
(* The slide.  The marked cells from scanned on are still to be moved; what *)
(* is below new_top has been.                                              *)

LEMMA SlideFacts ==
  ASSUME IInv, pc = "slide", NEW m, m = Memory, NEW f, f = from_space, NEW t, t = to_space
  PROVE  /\ Typed(m) /\ Tiled(m) /\ Placed(m, f, t) /\ HalvesApart(f, t) /\ Typing /\ StateOK /\ SlideOK
         /\ mark_stack = <<>> /\ rem_index = 1 /\ req \in Requests
         /\ m.heap = heap /\ m.hdr = hdr /\ m.ntop = nersary_top /\ m.ttop = tenured_top
         /\ m.rem = remembered_set /\ m.full = FALSE
         /\ NurseryOK(m, f) /\ Bits(m)
         /\ scanned \in Nat /\ new_top \in Nat /\ m.ttop \in Nat
         /\ tenured_space <= new_top /\ new_top <= scanned /\ scanned <= m.ttop
         /\ m.ttop <= tenured_space + tenured_heap_size
         /\ Gapless(m, tenured_space, new_top, new_top)
         /\ Gapless(m, scanned, m.ttop, m.ttop)
         /\ \A a \in DOMAIN m.heap \ Pending : m.hdr[a].forwarding = a
         /\ Plan(m, Pending, new_top)
         /\ RemOK(m, new_top)
         /\ Pending = {a \in DOMAIN m.heap : a >= scanned /\ Old(a) /\ a \in marked}
         /\ Slid = {a \in DOMAIN m.heap : Old(a) /\ a < new_top}
         /\ Young = {a \in DOMAIN m.heap : ~Old(a)}
         /\ \A a \in DOMAIN m.heap :
              /\ a \in Nat /\ End(m, a) \in Nat /\ a < End(m, a)
              /\ End(m, a) = a + m.heap[a].size
              /\ ~Old(a) => f <= a /\ End(m, a) <= m.ntop /\ End(m, a) <= tenured_space
              /\ Old(a) => \/ a < new_top /\ End(m, a) <= new_top
                           \/ scanned <= a /\ End(m, a) <= m.ttop
  <1>1. /\ Typed(m) /\ Tiled(m) /\ Placed(m, f, t) /\ HalvesApart(f, t) /\ Typing /\ StateOK /\ SlideOK
        /\ mark_stack = <<>> /\ rem_index = 1 /\ req \in Requests
        /\ m.heap = heap /\ m.hdr = hdr /\ m.ntop = nersary_top /\ m.ttop = tenured_top
        /\ m.rem = remembered_set /\ m.full = FALSE
    BY MemoryRecord, TypingApart DEF IInv, StateOK, Phases, Ends
  <1>2. /\ NurseryOK(m, f) /\ Bits(m)
        /\ tenured_space <= new_top /\ new_top <= scanned /\ scanned <= m.ttop
        /\ m.ttop <= tenured_space + tenured_heap_size
        /\ Gapless(m, tenured_space, new_top, new_top)
        /\ Gapless(m, scanned, m.ttop, m.ttop)
        /\ \A a \in DOMAIN m.heap \ Pending : m.hdr[a].forwarding = a
        /\ Plan(m, Pending, new_top)
        /\ RemOK(m, new_top)
        /\ \A a \in DOMAIN m.heap : Old(a) => \/ a < new_top /\ End(m, a) <= new_top
                                              \/ scanned <= a /\ End(m, a) <= m.ttop
    BY <1>1 DEF SlideOK
  <1>3. scanned \in Nat /\ new_top \in Nat /\ m.ttop \in Nat
    BY <1>1 DEF Typing, Typed
  <1>4. /\ Pending = {a \in DOMAIN m.heap : a >= scanned /\ Old(a) /\ a \in marked}
        /\ Slid = {a \in DOMAIN m.heap : Old(a) /\ a < new_top}
        /\ Young = {a \in DOMAIN m.heap : ~Old(a)}
    BY <1>1 DEF Pending, Slid, Young
  <1>5. ASSUME NEW a \in DOMAIN m.heap
        PROVE  /\ a \in Nat /\ End(m, a) \in Nat /\ a < End(m, a)
               /\ End(m, a) = a + m.heap[a].size
               /\ ~Old(a) => f <= a /\ End(m, a) <= m.ntop /\ End(m, a) <= tenured_space
    <2>1. a \in Nat /\ End(m, a) \in Nat /\ a < End(m, a) /\ End(m, a) = a + m.heap[a].size
      BY <1>1, CellFacts
    <2>2. f + nersary_heap_size <= tenured_space /\ f \in Nat
      BY <1>1 DEF HalvesApart
    <2>3. m.ntop <= f + nersary_heap_size /\ m.ntop \in Nat
      BY <1>1, <1>2 DEF NurseryOK, Typed
    <2>4. ~Old(a) => f <= a /\ End(m, a) <= m.ntop
      BY <1>2 DEF NurseryOK
    <2> QED
      BY <2>1, <2>2, <2>3, <2>4, Layout
  <1> QED
    BY <1>1, <1>2, <1>3, <1>4, <1>5

\* The cell at c is now at b.
IsMove(m, n, c, b) ==
  LET D == (DOMAIN m.heap \ {c}) \cup {b} IN
  /\ n = [heap |-> n.heap, hdr |-> n.hdr, ntop |-> n.ntop, ttop |-> n.ttop,
          rem |-> n.rem, full |-> n.full]
  /\ n.heap = [x \in D |-> IF x = b THEN m.heap[c] ELSE m.heap[x]]
  /\ n.hdr = [x \in D |-> IF x = b THEN m.hdr[c] ELSE m.hdr[x]]
  /\ n.ntop = m.ntop /\ n.ttop = m.ttop /\ n.rem = m.rem /\ n.full = m.full

\* The memory once the bytes of the cell at c are written at b.
Rewritten(m, c, b) ==
  LET h == Overwrite(Freed(m, c).heap, b, m.heap[c])
  IN  [m EXCEPT !.heap = h, !.hdr = [x \in DOMAIN h |-> IF x = b THEN m.hdr[c] ELSE m.hdr[x]]]

LEMMA IsMoveFacts ==
  ASSUME NEW m, Typed(m), NEW c \in DOMAIN m.heap, NEW b \in Nat, b \notin DOMAIN m.heap \ {c},
         NEW n, IsMove(m, n, c, b)
  PROVE  /\ Typed(n)
         /\ DOMAIN n.heap = (DOMAIN m.heap \ {c}) \cup {b}
         /\ n.heap[b] = m.heap[c] /\ n.hdr[b] = m.hdr[c] /\ End(n, b) = b + m.heap[c].size
         /\ \A a \in DOMAIN m.heap \ {c} :
              n.heap[a] = m.heap[a] /\ n.hdr[a] = m.hdr[a] /\ End(n, a) = End(m, a)
  <1> DEFINE D == (DOMAIN m.heap \ {c}) \cup {b}
  <1>1. /\ n.heap = [x \in D |-> IF x = b THEN m.heap[c] ELSE m.heap[x]]
        /\ n.hdr = [x \in D |-> IF x = b THEN m.hdr[c] ELSE m.hdr[x]]
        /\ n.ntop = m.ntop /\ n.ttop = m.ttop /\ n.rem = m.rem /\ n.full = m.full
        /\ n = [heap |-> n.heap, hdr |-> n.hdr, ntop |-> n.ntop, ttop |-> n.ttop,
                rem |-> n.rem, full |-> n.full]
    BY DEF IsMove
  <1>2. \A x \in DOMAIN m.heap : m.heap[x] \in Object /\ m.hdr[x] \in Header /\ x \in Nat
    BY DEF Typed
  <1>3. D \subseteq Nat /\ b \in D
    BY <1>2
  <1>4. n.heap \in [D -> Object] /\ n.hdr \in [D -> Header]
    BY <1>1, <1>2
  <1>5. m.ntop \in Nat /\ m.ttop \in Nat /\ m.rem \in Seq(Nat) /\ m.full \in BOOLEAN
    BY DEF Typed
  <1>6. DOMAIN n.heap = D
    BY <1>1
  <1>7. Typed(n)
    BY <1>1, <1>3, <1>4, <1>5, <1>6 DEF Typed
  <1>8. \A a \in DOMAIN m.heap \ {c} : n.heap[a] = m.heap[a] /\ n.hdr[a] = m.hdr[a]
    BY <1>1
  <1>9. n.heap[b] = m.heap[c] /\ n.hdr[b] = m.hdr[c]
    BY <1>1, <1>3
  <1> QED
    BY <1>6, <1>7, <1>8, <1>9 DEF End

\* It stays in place when the bytes it takes are free.
LEMMA IsMovePlaces ==
  ASSUME NEW m, Typed(m), Tiled(m), NEW f, NEW t, Placed(m, f, t),
         NEW c \in DOMAIN m.heap, NEW b \in Nat, Old(b),
         b + m.heap[c].size <= tenured_space + tenured_heap_size,
         \A a \in DOMAIN m.heap \ {c} : a # b /\ (End(m, a) <= b \/ b + m.heap[c].size <= a),
         NEW n, IsMove(m, n, c, b)
  PROVE  Tiled(n) /\ Placed(n, f, t)
  <1> DEFINE D == DOMAIN m.heap \ {c}
             s == m.heap[c].size
  <1>1. /\ DOMAIN n.heap = D \cup {b} /\ n.heap[b] = m.heap[c] /\ n.heap[b].size = s
        /\ End(n, b) = b + s
        /\ \A a \in D : n.heap[a] = m.heap[a] /\ End(n, a) = End(m, a)
    BY IsMoveFacts
  <1>2. \A a \in D : a # b /\ (End(m, a) <= b \/ b + s <= a) /\ a \in DOMAIN m.heap
    OBVIOUS
  <1>3. s > 0 /\ s % 4 = 0
    BY DEF Tiled
  <1> HIDE DEF D, s
  <1>4. \A a \in DOMAIN n.heap : n.heap[a].size > 0 /\ n.heap[a].size % 4 = 0
    <2> SUFFICES ASSUME NEW a \in D PROVE m.heap[a].size > 0 /\ m.heap[a].size % 4 = 0
      BY <1>1, <1>3
    <2> QED
      BY <1>2 DEF Tiled
  <1>5. ASSUME NEW x \in DOMAIN n.heap, NEW y \in DOMAIN n.heap, x # y
        PROVE  End(n, x) <= y \/ End(n, y) <= x
    <2>1. CASE x \in D /\ y \in D
      <3>1. End(m, x) <= y \/ End(m, y) <= x
        BY <1>2, <1>5, <2>1 DEF Tiled, Disjoint, End
      <3> QED
        BY <1>1, <2>1, <3>1
    <2>2. CASE x = b /\ y \in D
      BY <1>1, <1>2, <2>2
    <2>3. CASE y = b /\ x \in D
      BY <1>1, <1>2, <2>3
    <2> QED
      BY <1>1, <1>5, <2>1, <2>2, <2>3
  <1>6. Tiled(n)
    BY <1>4, <1>5 DEF Tiled, Disjoint, End
  <1>7. Placed(n, f, t)
    <2>1. Old(b) /\ End(n, b) <= tenured_space + tenured_heap_size
      BY <1>1 DEF s
    <2>2. \A a \in D : \/ f <= a /\ End(n, a) <= f + nersary_heap_size
                       \/ t <= a /\ End(n, a) <= t + nersary_heap_size
                       \/ Old(a) /\ End(n, a) <= tenured_space + tenured_heap_size
      BY <1>1, <1>2 DEF Placed
    <2> QED
      BY <1>1, <2>1, <2>2 DEF Placed
  <1> QED
    BY <1>6, <1>7

\* The next cell is moved to new_top, where it overwrites no other.
LEMMA MoveFacts ==
  ASSUME IInv, pc = "slide", scanned < tenured_top, scanned \in marked,
         NEW m, m = Memory, NEW f, f = from_space, NEW t, t = to_space,
         NEW c, c = scanned, NEW b, b = new_top,
         NEW n, n = Rewritten(m, c, b)
  PROVE  /\ c \in Pending /\ m.hdr[c].forwarding = b
         /\ \A a \in DOMAIN m.heap \ {c} :
              a # b /\ (Old(a) => (a < b /\ End(m, a) <= b) \/ (End(m, c) <= a /\ End(m, a) <= m.ttop))
         /\ End(m, c) <= m.ttop /\ b <= c
         /\ IsMove(m, n, c, b) /\ Tiled(n) /\ Placed(n, f, t)
  <1> DEFINE D == DOMAIN m.heap
             h == Overwrite(Freed(m, c).heap, b, m.heap[c])
  <1>1. /\ Typed(m) /\ Tiled(m) /\ Placed(m, f, t)
        /\ c \in Nat /\ b \in Nat /\ m.ttop \in Nat /\ c < m.ttop /\ c \in marked
        /\ tenured_space <= b /\ b <= c /\ m.ttop <= tenured_space + tenured_heap_size
        /\ Gapless(m, c, m.ttop, m.ttop)
        /\ Plan(m, Pending, b)
        /\ Pending = {a \in D : a >= c /\ Old(a) /\ a \in marked}
    BY SlideFacts
  <1>2. ASSUME NEW a \in D
        PROVE  /\ a \in Nat /\ End(m, a) \in Nat /\ a < End(m, a)
               /\ End(m, a) = a + m.heap[a].size
               /\ ~Old(a) => End(m, a) <= tenured_space
               /\ Old(a) => \/ a < b /\ End(m, a) <= b
                            \/ c <= a /\ End(m, a) <= m.ttop
    BY SlideFacts
  <1>3. c \in D
    BY <1>1 DEF Gapless
  <1>4. Old(c) /\ c \in Pending
    BY <1>1, <1>3, Layout DEF Old
  <1>5. m.hdr[c].forwarding = b
    <2>1. ~\E d \in Pending : d < c
      <3> SUFFICES ASSUME NEW d \in Pending PROVE ~(d < c)
        OBVIOUS
      <3>1. d \in D /\ d >= c
        BY <1>1
      <3> QED
        BY <1>1, <1>2, <3>1
    <2> QED
      BY <1>1, <1>4, <2>1 DEF Plan
  <1>6. End(m, c) <= m.ttop /\ End(m, c) = c + m.heap[c].size /\ m.heap[c].size \in Nat
        /\ c < End(m, c) /\ End(m, c) \in Nat
    <2>1. m.heap[c].size \in Nat
      BY <1>1, <1>3, CellFacts
    <2> QED
      BY <1>1, <1>2, <1>3, <1>4, <2>1
  <1>7. ASSUME NEW a \in D \ {c}
        PROVE  /\ a # b
               /\ Old(a) => (a < b /\ End(m, a) <= b) \/ (End(m, c) <= a /\ End(m, a) <= m.ttop)
               /\ End(m, a) <= b \/ b + m.heap[c].size <= a
    <2>1. a + m.heap[a].size <= c \/ c + m.heap[c].size <= a
      BY <1>1, <1>3 DEF Tiled, Disjoint
    <2>2. CASE ~Old(a)
      BY <1>1, <1>2, <2>2, Layout DEF Old
    <2>3. CASE Old(a)
      BY <1>1, <1>2, <1>6, <2>1, <2>3
    <2> QED
      BY <2>2, <2>3
  <1>8. h = [x \in (D \ {c}) \cup {b} |-> IF x = b THEN m.heap[c] ELSE m.heap[x]]
    <2> DEFINE q == Freed(m, c).heap
    <2>1. DOMAIN q = D \ {c} /\ \A x \in D \ {c} : q[x] = m.heap[x]
      <3>1. m = [heap |-> m.heap, hdr |-> m.hdr, ntop |-> m.ntop, ttop |-> m.ttop,
                 rem |-> m.rem, full |-> m.full]
        BY <1>1 DEF Typed
      <3> QED
        BY <3>1 DEF Freed
    <2> HIDE DEF q
    <2>2. {x \in DOMAIN q : x + q[x].size <= b \/ b + m.heap[c].size <= x} = D \ {c}
      BY <1>2, <1>7, <2>1
    <2>3. h = Overwrite(q, b, m.heap[c])
      BY DEF q
    <2> QED
      BY <2>1, <2>2, <2>3 DEF Overwrite
  <1>9. IsMove(m, n, c, b)
    <2>1. m = [heap |-> m.heap, hdr |-> m.hdr, ntop |-> m.ntop, ttop |-> m.ttop,
               rem |-> m.rem, full |-> m.full]
      BY <1>1 DEF Typed
    <2>2. /\ n = [heap |-> n.heap, hdr |-> n.hdr, ntop |-> n.ntop, ttop |-> n.ttop,
                  rem |-> n.rem, full |-> n.full]
          /\ n.heap = h /\ n.hdr = [x \in DOMAIN h |-> IF x = b THEN m.hdr[c] ELSE m.hdr[x]]
          /\ n.ntop = m.ntop /\ n.ttop = m.ttop /\ n.rem = m.rem /\ n.full = m.full
      BY <2>1 DEF Rewritten
    <2> QED
      BY <1>8, <2>2 DEF IsMove
  <1>10. b \notin D \ {c}
    BY <1>7
  <1>11. Tiled(n) /\ Placed(n, f, t)
    <2>1. Old(b) /\ b + m.heap[c].size <= tenured_space + tenured_heap_size
      BY <1>1, <1>6, Layout DEF Old
    <2>2. \A a \in D \ {c} : a # b /\ (End(m, a) <= b \/ b + m.heap[c].size <= a)
      BY <1>7
    <2> QED
      BY <1>1, <1>3, <1>9, <2>1, <2>2, IsMovePlaces
  <1> QED
    BY <1>1, <1>4, <1>5, <1>6, <1>7, <1>9, <1>11

\* A moved cell with the remembered bit gets into the set.
RememberIfDue(p, b, garbage) ==
  IF p.hdr[b].remembered THEN add_remembered_set(p, b, garbage) ELSE p

\* n is p with the remembered cells below e in the set, without those that
\* refer to no cell of the nursery.
Recorded(p, n, e, garbage) ==
  /\ n.full = FALSE /\ Bits(n) /\ RemOK(n, e)
  /\ \A a \in DOMAIN p.heap : Alike(n.hdr[a], p.hdr[a])
  /\ \A a \in DOMAIN p.heap : Old(a) /\ ~n.hdr[a].remembered =>
       ~p.hdr[a].remembered \/ ~HasNersary(p, a, garbage)

\* No other tenured cell begins between b and e.
Alone(p, b, e) == \A a \in DOMAIN p.heap \ {b} : Old(a) => a < b \/ e <= a

\* The cell at b ends at e, above all others that have been moved.
Last(p, b, e) ==
  /\ Typed(p) /\ p.full = FALSE /\ Bits(p)
  /\ b \in DOMAIN p.heap /\ Old(b) /\ e \in Nat /\ b < e
  /\ Alone(p, b, e) /\ RemOK(p, b)

LEMMA RememberMoved ==
  ASSUME NEW p, NEW b, NEW e, Last(p, b, e), NEW garbage, NEW n, n = RememberIfDue(p, b, garbage)
  PROVE  /\ Typed(n) /\ n.heap = p.heap /\ n.ntop = p.ntop /\ n.ttop = p.ttop
         /\ \A a \in DOMAIN p.heap : Alike(n.hdr[a], p.hdr[a])
         /\ n.full \/ Recorded(p, n, e, garbage)
  <1> DEFINE D == DOMAIN p.heap
  <1>0. /\ Typed(p) /\ p.full = FALSE /\ Bits(p)
        /\ b \in D /\ Old(b) /\ e \in Nat /\ b < e /\ Alone(p, b, e) /\ RemOK(p, b)
    BY DEF Last
  <1>1. /\ D \subseteq Nat /\ b \in Nat
        /\ Listed(p) = {a \in D : Old(a) /\ a < b /\ p.hdr[a].remembered}
        /\ Distinct(p.rem) /\ Len(p.rem) <= REMEMBERED_SET_SIZE
    BY <1>0 DEF Typed, RemOK
  <1>2. b \notin Listed(p)
    BY <1>0, <1>1
  <1>3. \A a \in D : Old(a) /\ a < e <=> ((Old(a) /\ a < b) \/ a = b)
    <2> SUFFICES ASSUME NEW a \in D, a # b PROVE Old(a) /\ a < e <=> Old(a) /\ a < b
      BY <1>0, <1>1
    <2>1. a \in Nat /\ (Old(a) => a < b \/ e <= a)
      BY <1>0, <1>1 DEF Alone
    <2> QED
      BY <1>0, <1>1, <2>1
  <1>4. CASE ~p.hdr[b].remembered
    <2>1. n = p
      BY <1>4 DEF RememberIfDue
    <2>2. Listed(p) = {a \in D : Old(a) /\ a < e /\ p.hdr[a].remembered}
      BY <1>0, <1>1, <1>3, <1>4
    <2>3. RemOK(p, e)
      BY <1>0, <1>1, <2>2 DEF RemOK
    <2> QED
      BY <1>0, <2>1, <2>3 DEF Alike, Recorded
  <1>5. CASE p.hdr[b].remembered
    <2>1. n = add_remembered_set(p, b, garbage)
      BY <1>5 DEF RememberIfDue
    <2>2. \A a \in Listed(p) : a \in D /\ p.hdr[a].remembered
      BY <1>0, <1>1
    <2>3. /\ Typed(n) /\ n.heap = p.heap /\ n.ntop = p.ntop /\ n.ttop = p.ttop
          /\ \A a \in D : Alike(n.hdr[a], p.hdr[a])
          /\ n.full \/ Added(p, n, b, garbage)
      BY <1>0, <1>1, <1>2, <2>1, <2>2, AddFacts
    <2>4. CASE Added(p, n, b, garbage)
      <3>1. /\ n.full = FALSE /\ Distinct(n.rem) /\ Len(n.rem) <= REMEMBERED_SET_SIZE
            /\ b \in Listed(n) /\ Listed(n) \subseteq Listed(p) \cup {b}
            /\ \A a \in Listed(p) \ Listed(n) : ~HasNersary(p, a, garbage)
            /\ \A a \in D : n.hdr[a].remembered <=> IF a \in Listed(p) \cup {b} THEN a \in Listed(n)
                                                    ELSE p.hdr[a].remembered
        BY <1>0, <2>4 DEF Added
      <3>2. Listed(n) = {a \in D : Old(a) /\ a < e /\ n.hdr[a].remembered}
        <4>1. ASSUME NEW a \in Listed(n)
              PROVE  a \in D /\ Old(a) /\ a < e /\ n.hdr[a].remembered
          <5>1. a \in D /\ ((Old(a) /\ a < b) \/ a = b)
            BY <1>0, <1>1, <3>1
          <5> QED
            BY <1>3, <3>1, <5>1
        <4>2. ASSUME NEW a \in D, Old(a), a < e, n.hdr[a].remembered
              PROVE  a \in Listed(n)
          <5>1. a < b \/ a = b
            BY <1>3, <4>2
          <5>2. a \notin Listed(p) /\ a # b => ~p.hdr[a].remembered
            BY <1>0, <1>1, <4>2, <5>1
          <5> QED
            BY <3>1, <4>2, <5>2
        <4> QED
          BY <1>0, <2>3, <4>1, <4>2
      <3>3. RemOK(n, e)
        BY <1>0, <2>3, <3>1, <3>2 DEF RemOK
      <3>4. Bits(n)
        <4> SUFFICES ASSUME NEW a \in D PROVE BitsOK(n.hdr[a], a)
          BY <1>0, <2>3 DEF Bits
        <4>1. BitsOK(p.hdr[a], a) /\ Alike(n.hdr[a], p.hdr[a])
          BY <1>0, <2>3 DEF Bits
        <4>2. n.hdr[a].remembered => Old(a)
          BY <1>0, <1>1, <3>1, <4>1 DEF BitsOK
        <4> QED
          BY <4>1, <4>2 DEF BitsOK, Alike
      <3>5. ASSUME NEW a \in D, Old(a), ~n.hdr[a].remembered
            PROVE  ~p.hdr[a].remembered \/ ~HasNersary(p, a, garbage)
        BY <1>0, <3>1, <3>5
      <3> QED
        BY <1>0, <2>3, <3>1, <3>3, <3>4, <3>5 DEF Recorded
    <2> QED
      BY <2>3, <2>4
  <1> QED
    BY <1>4, <1>5

LEMMA SlideHolds ==
  ASSUME pc' = "slide", SlideOK', Typing', Typed(Memory)', Tiled(Memory)',
         Placed(Memory, from_space, to_space)', mark_stack' = <<>>, rem_index' = 1, req' \in Requests
  PROVE  IInv'
  <1>1. StateOK'
    BY DEF StateOK, AtRest, Scanning, Phases, Ends
  <1>2. MarkInv'
    BY DEF MarkInv
  <1>3. pc' \notin {"run", "minor_done", "retry", "update", "roots", "mark"} \cup Scanning
    BY DEF Scanning
  <1> QED
    BY <1>1, <1>2, <1>3 DEF IInv, AtRest

\* m with the cell at c moved to b is p, and n that with the cell in the
\* remembered set, if that is due and there is room.
Transfers(m, p, n, c, b, s, garbage) ==
  /\ Typed(p) /\ DOMAIN p.heap = (DOMAIN m.heap \ {c}) \cup {b}
  /\ p.heap[b] = m.heap[c] /\ p.hdr[b] = m.hdr[c] /\ End(p, b) = b + s
  /\ \A a \in DOMAIN m.heap \ {c} :
       p.heap[a] = m.heap[a] /\ p.hdr[a] = m.hdr[a] /\ End(p, a) = End(m, a)
  /\ p.ntop = m.ntop /\ p.ttop = m.ttop /\ p.rem = m.rem /\ p.full = FALSE
  /\ Old(b) /\ b < b + s /\ b + s \in Nat /\ b + s <= c + s /\ c + s <= m.ttop
  /\ c + s \in Nat /\ c < c + s
  /\ Bits(p) /\ RemOK(p, b)
  /\ \A a \in DOMAIN m.heap \ {c} :
       Old(a) => (a < b /\ End(m, a) <= b) \/ (c + s <= a /\ End(m, a) <= m.ttop)
  /\ Typed(n) /\ n.heap = p.heap /\ n.ntop = p.ntop /\ n.ttop = p.ttop
  /\ \A a \in DOMAIN p.heap : Alike(n.hdr[a], p.hdr[a])
  /\ n.full \/ Recorded(p, n, b + s, garbage)

LEMMA MoveObjectFacts ==
  ASSUME IInv, pc = "slide", scanned < tenured_top, scanned \in marked,
         NEW m, m = Memory, NEW f, f = from_space, NEW t, t = to_space,
         NEW c, c = scanned, NEW b, b = new_top, NEW s, s = m.heap[c].size,
         NEW p, p = Rewritten(m, c, b), NEW garbage,
         NEW n, n = RememberIfDue(p, b, garbage)
  PROVE  move_object(c, garbage) = n /\ Transfers(m, p, n, c, b, s, garbage)
  <1> DEFINE d == m.hdr[c].forwarding
             D == DOMAIN m.heap
             E == (D \ {c}) \cup {b}
  <1>1. pc = "slide" /\ c < tenured_top /\ c \in marked
    OBVIOUS
  <1>11. /\ m = Memory /\ f = from_space /\ t = to_space /\ c = scanned /\ b = new_top
         /\ p = Rewritten(m, c, b)
    OBVIOUS
  <1> HIDE DEF d
  <1>3. /\ c \in Pending /\ d = b
        /\ \A a \in D \ {c} :
             a # b /\ (Old(a) => (a < b /\ End(m, a) <= b) \/ (End(m, c) <= a /\ End(m, a) <= m.ttop))
        /\ End(m, c) <= m.ttop /\ b <= c
        /\ IsMove(m, p, c, b) /\ Tiled(p) /\ Placed(p, f, t)
    <2>1. pc = "slide" /\ scanned < tenured_top /\ scanned \in marked
      BY <1>1, <1>11
    <2> QED
      BY <1>11, <2>1, MoveFacts DEF d
  <1>4. /\ Typed(m) /\ Tiled(m) /\ HalvesApart(f, t) /\ Typing /\ StateOK
        /\ mark_stack = <<>> /\ rem_index = 1 /\ req \in Requests
        /\ m.heap = heap /\ m.hdr = hdr /\ m.ttop = tenured_top /\ m.rem = remembered_set /\ m.full = FALSE
        /\ NurseryOK(m, f) /\ Bits(m)
        /\ c \in Nat /\ b \in Nat /\ m.ttop \in Nat
        /\ tenured_space <= b /\ b <= c /\ c <= m.ttop
        /\ m.ttop <= tenured_space + tenured_heap_size
    BY <1>1, <1>11, SlideFacts
  <1>5. RemOK(m, b)
    <2>1. RemOK(Memory, new_top)
      BY <1>1 DEF IInv, SlideOK
    <2> QED
      BY <1>11, <2>1
  <1>6. /\ Pending = {a \in D : a >= c /\ Old(a) /\ a \in marked}
        /\ Slid = {a \in D : Old(a) /\ a < b}
        /\ Young = {a \in D : ~Old(a)}
    BY <1>1, <1>11, SlideFacts
  <1>7. \A a \in D : /\ a \in Nat /\ End(m, a) \in Nat /\ a < End(m, a)
                     /\ End(m, a) = a + m.heap[a].size
                     /\ ~Old(a) => f <= a /\ End(m, a) <= m.ntop /\ End(m, a) <= tenured_space
    BY <1>1, <1>11, SlideFacts
  <1>9. c \in D /\ Old(c) /\ s \in Nat /\ s > 0 /\ End(m, c) = c + s
    BY <1>3, <1>4, <1>6, <1>7, CellFacts
  <1>10. move_object(c, garbage) = n
    <2>1. p.hdr[b] = m.hdr[c]
      <3>1. /\ Typed(m) /\ c \in DOMAIN m.heap /\ b \in Nat /\ b \notin DOMAIN m.heap \ {c}
            /\ IsMove(m, p, c, b)
        BY <1>3, <1>4, <1>9
      <3> QED
        BY <3>1, IsMoveFacts
    <2>2. hdr[c].forwarding = b
      BY <1>3, <1>4 DEF d
    <2>3. m = Memory /\ m.heap = heap /\ m.hdr = hdr /\ p = Rewritten(m, c, b)
      BY <1>4, <1>11
    <2> QED
      BY <2>1, <2>2, <2>3 DEF move_object, Rewritten, RememberIfDue
  <1>12. /\ Typed(p) /\ DOMAIN p.heap = E /\ p.heap[b] = m.heap[c] /\ p.hdr[b] = m.hdr[c]
         /\ End(p, b) = b + s
         /\ \A a \in D \ {c} : p.heap[a] = m.heap[a] /\ p.hdr[a] = m.hdr[a] /\ End(p, a) = End(m, a)
         /\ p.ntop = m.ntop /\ p.ttop = m.ttop /\ p.rem = m.rem /\ p.full = FALSE
    <2>1. /\ Typed(m) /\ c \in DOMAIN m.heap /\ b \in Nat /\ b \notin DOMAIN m.heap \ {c}
          /\ IsMove(m, p, c, b)
      BY <1>3, <1>4, <1>9
    <2>2. /\ Typed(p) /\ DOMAIN p.heap = (DOMAIN m.heap \ {c}) \cup {b}
          /\ p.heap[b] = m.heap[c] /\ p.hdr[b] = m.hdr[c] /\ End(p, b) = b + m.heap[c].size
          /\ \A a \in DOMAIN m.heap \ {c} :
               p.heap[a] = m.heap[a] /\ p.hdr[a] = m.hdr[a] /\ End(p, a) = End(m, a)
      BY <2>1, IsMoveFacts
    <2>3. p.ntop = m.ntop /\ p.ttop = m.ttop /\ p.rem = m.rem /\ p.full = FALSE
      BY <1>4, <2>1 DEF IsMove
    <2> QED
      BY <2>2, <2>3
  <1>13. Old(b) /\ b < b + s /\ b + s \in Nat /\ b + s <= c + s /\ c + s <= m.ttop /\ c + s \in Nat /\ c < c + s
    BY <1>3, <1>4, <1>9 DEF Old
  <1>14. Bits(p)
    <2>1. BitsOK(m.hdr[c], c) /\ \A a \in D \ {c} : BitsOK(m.hdr[a], a)
      BY <1>4, <1>9 DEF Bits
    <2>2. BitsOK(m.hdr[c], b)
      BY <1>9, <1>13, <2>1 DEF BitsOK
    <2> QED
      BY <1>12, <2>1, <2>2 DEF Bits
  <1>15. \A a \in D \ {c} : Old(a) => (a < b /\ End(m, a) <= b) \/ (c + s <= a /\ End(m, a) <= m.ttop)
    BY <1>3, <1>9
  <1>16. RemOK(p, b)
    <2>1. Listed(p) = Listed(m)
      BY <1>12 DEF Listed
    <2>2. {a \in E : Old(a) /\ a < b /\ p.hdr[a].remembered} = {a \in D : Old(a) /\ a < b /\ m.hdr[a].remembered}
      <3>1. ~(b < b) /\ ~(c < b)
        BY <1>4
      <3> QED
        BY <1>12, <3>1
    <2> QED
      BY <1>5, <1>12, <2>1, <2>2 DEF RemOK
  <1>17. /\ Typed(n) /\ n.heap = p.heap /\ n.ntop = p.ntop /\ n.ttop = p.ttop
         /\ \A a \in DOMAIN p.heap : Alike(n.hdr[a], p.hdr[a])
         /\ n.full \/ Recorded(p, n, b + s, garbage)
    <2> DEFINE e == b + s
    <2>1. e \in Nat /\ b < e /\ b \in DOMAIN p.heap /\ Old(b)
      BY <1>12, <1>13
    <2>2. Alone(p, b, e)
      <3> SUFFICES ASSUME NEW a \in D \ {c}, Old(a) PROVE a < b \/ e <= a
        BY <1>12 DEF Alone
      <3>1. a \in Nat /\ (a < b \/ c + s <= a)
        BY <1>7, <1>15
      <3> QED
        BY <1>13, <3>1
    <2>3. Typed(p) /\ p.full = FALSE /\ Bits(p) /\ RemOK(p, b)
      BY <1>12, <1>14, <1>16
    <2>4. n = RememberIfDue(p, b, garbage)
      OBVIOUS
    <2> HIDE DEF e
    <2>6. Last(p, b, e)
      BY <2>1, <2>2, <2>3 DEF Last
    <2>5. /\ Typed(n) /\ n.heap = p.heap /\ n.ntop = p.ntop /\ n.ttop = p.ttop
          /\ \A a \in DOMAIN p.heap : Alike(n.hdr[a], p.hdr[a])
          /\ n.full \/ Recorded(p, n, e, garbage)
      BY <2>4, <2>6, RememberMoved
    <2> QED
      BY <2>5 DEF e
  <1> QED
    BY <1>10, <1>12, <1>13, <1>14, <1>15, <1>16, <1>17 DEF Transfers

LEMMA SlideCellKeeps ==
  ASSUME IInv, SlideCell
  PROVE  IInv'
  <1> DEFINE m == Memory
             f == from_space
             t == to_space
             c == scanned
             b == new_top
             s == m.heap[c].size
             d == m.hdr[c].forwarding
             p == Rewritten(m, c, b)
             D == DOMAIN m.heap
             E == (D \ {c}) \cup {b}
  <1>1. /\ pc = "slide" /\ c < tenured_top /\ c \in marked
        /\ scanned' = c + s /\ new_top' = b + s
        /\ UNCHANGED <<root, req, k, g_GC_stress, marked, mark_stack, from_space, to_space, rem_index,
                       prev_nersary_top, prev_tenured_top>>
    BY MemoryRecord DEF SlideCell, minorVars
  <1>2. PICK garbage : Becomes(move_object(c, garbage), pc)
    BY DEF SlideCell
  <1>11. /\ m = Memory /\ f = from_space /\ t = to_space /\ c = scanned /\ b = new_top
         /\ p = Rewritten(m, c, b)
    OBVIOUS
  <1> HIDE DEF m, f, t, c, b, p, d
  <1>3. /\ c \in Pending /\ d = b
        /\ \A a \in D \ {c} :
             a # b /\ (Old(a) => (a < b /\ End(m, a) <= b) \/ (End(m, c) <= a /\ End(m, a) <= m.ttop))
        /\ End(m, c) <= m.ttop /\ b <= c
        /\ IsMove(m, p, c, b) /\ Tiled(p) /\ Placed(p, f, t)
    <2>1. pc = "slide" /\ scanned < tenured_top /\ scanned \in marked
      BY <1>1, <1>11
    <2> QED
      BY <1>11, <2>1, MoveFacts DEF d
  <1> DEFINE n == RememberIfDue(p, b, garbage)
  <1>4. /\ Typed(m) /\ Tiled(m) /\ HalvesApart(f, t) /\ Typing /\ StateOK
        /\ mark_stack = <<>> /\ rem_index = 1 /\ req \in Requests
        /\ m.heap = heap /\ m.hdr = hdr /\ m.ttop = tenured_top /\ m.rem = remembered_set /\ m.full = FALSE
        /\ NurseryOK(m, f) /\ Bits(m)
        /\ c \in Nat /\ b \in Nat /\ m.ttop \in Nat
        /\ tenured_space <= b /\ b <= c /\ c <= m.ttop
        /\ m.ttop <= tenured_space + tenured_heap_size
    BY <1>1, <1>11, SlideFacts
  <1>5. /\ Gapless(m, tenured_space, b, b)
        /\ Gapless(m, c, m.ttop, m.ttop)
        /\ \A a \in D \ Pending : m.hdr[a].forwarding = a
        /\ Plan(m, Pending, b)
        /\ RemOK(m, b)
    BY <1>1, <1>11, SlideFacts
  <1>6. /\ Pending = {a \in D : a >= c /\ Old(a) /\ a \in marked}
        /\ Slid = {a \in D : Old(a) /\ a < b}
        /\ Young = {a \in D : ~Old(a)}
    BY <1>1, <1>11, SlideFacts
  <1>7. \A a \in D : /\ a \in Nat /\ End(m, a) \in Nat /\ a < End(m, a)
                     /\ End(m, a) = a + m.heap[a].size
                     /\ ~Old(a) => f <= a /\ End(m, a) <= m.ntop /\ End(m, a) <= tenured_space
    BY <1>1, <1>11, SlideFacts
  <1>8. /\ \A i \in Roots : Lasts(root[i])
        /\ \A a \in Slid \cup Pending \cup (Young \cap marked) : \A v \in Fields(m.heap[a]) : Lasts(v)
        /\ \A a \in Slid \cup Pending : ~m.hdr[a].remembered =>
             \A v \in Fields(m.heap[a]) : CELL_P(v) => Old(v)
    BY <1>1, <1>4 DEF IInv, SlideOK
  <1>9. c \in D /\ Old(c) /\ s \in Nat /\ s > 0 /\ End(m, c) = c + s
    BY <1>3, <1>4, <1>6, <1>7, CellFacts
  <1>0. move_object(c, garbage) = n /\ Transfers(m, p, n, c, b, s, garbage)
    <2>1. pc = "slide" /\ scanned < tenured_top /\ scanned \in marked
      BY <1>1, <1>11
    <2> HIDE DEF n, s
    <2>2. n = RememberIfDue(p, b, garbage) /\ s = m.heap[c].size
      BY DEF n, s
    <2> QED
      BY <1>11, <2>1, <2>2, MoveObjectFacts
  <1> HIDE DEF n
  <1>10. move_object(c, garbage) = n
    BY <1>0 DEF Transfers
  <1>12. /\ Typed(p) /\ DOMAIN p.heap = E /\ p.heap[b] = m.heap[c] /\ p.hdr[b] = m.hdr[c]
         /\ End(p, b) = b + s
         /\ \A a \in D \ {c} : p.heap[a] = m.heap[a] /\ p.hdr[a] = m.hdr[a] /\ End(p, a) = End(m, a)
         /\ p.ntop = m.ntop /\ p.ttop = m.ttop /\ p.rem = m.rem /\ p.full = FALSE
    BY <1>0 DEF Transfers
  <1>13. Old(b) /\ b < b + s /\ b + s \in Nat /\ b + s <= c + s /\ c + s <= m.ttop /\ c + s \in Nat /\ c < c + s
    BY <1>0 DEF Transfers
  <1>14. Bits(p)
    BY <1>0 DEF Transfers
  <1>15. \A a \in D \ {c} : Old(a) => (a < b /\ End(m, a) <= b) \/ (c + s <= a /\ End(m, a) <= m.ttop)
    BY <1>0 DEF Transfers
  <1>16. RemOK(p, b)
    BY <1>0 DEF Transfers
  <1>17. /\ Typed(n) /\ n.heap = p.heap /\ n.ntop = p.ntop /\ n.ttop = p.ttop
         /\ n.full \/ Recorded(p, n, b + s, garbage)
    BY <1>0 DEF Transfers
  <1>18. Becomes(n, pc)
    BY <1>2, <1>10
  <1>19. Tiled(n) /\ Placed(n, f, t) /\ \A a \in E : End(n, a) = End(p, a)
    BY <1>3, <1>17 DEF Tiled, Placed, End
  <1>20. CASE n.full
    <2>1. /\ pc' = "set_full"
          /\ heap' = n.heap /\ hdr' = n.hdr /\ nersary_top' = n.ntop
          /\ tenured_top' = n.ttop /\ remembered_set' = n.rem
      BY <1>17, <1>18, <1>20, BecomesFacts
    <2>2. Typing'
      <3>1. {scanned', new_top'} \subseteq Nat
        BY <1>1, <1>13
      <3> QED
        BY <1>1, <1>4, <2>1, <3>1 DEF Typing, Phases, Ends
    <2>3. Typed(Memory)'
      BY <1>17, <2>1 DEF Typed, Memory
    <2>4. Tiled(Memory)'
      BY <1>19, <2>1 DEF Tiled, Memory
    <2>5. Placed(Memory, from_space, to_space)'
      BY <1>1, <1>11, <1>19, <2>1 DEF Placed, Memory, End
    <2>6. mark_stack' = <<>>
      BY <1>1, <1>4
    <2> QED
      BY <2>1, <2>2, <2>3, <2>4, <2>5, <2>6, EndKeeps DEF Ends
  <1>21. CASE ~n.full
    <2> DEFINE P == Pending \ {c}
               z == b + s
               y == c + s
    <2>1. /\ Memory' = n /\ pc' = "slide" /\ heap' = n.heap /\ hdr' = n.hdr /\ tenured_top' = n.ttop
          /\ m.ttop = n.ttop /\ m.ntop = n.ntop
      BY <1>1, <1>12, <1>17, <1>18, <1>21, BecomesFacts
    <2>2. Recorded(p, n, z, garbage) /\ Bits(n) /\ RemOK(n, z)
      BY <1>17, <1>21 DEF Recorded
    <2>3. /\ DOMAIN n.heap = E /\ n.heap[b] = m.heap[c] /\ n.hdr[b].forwarding = b /\ End(n, b) = z
          /\ n.heap[b].size = s
      <3>1. Alike(n.hdr[b], p.hdr[b])
        BY <1>12, <2>2 DEF Recorded
      <3> QED
        BY <1>3, <1>12, <1>17, <3>1 DEF Alike, End, d
    <2>4. \A a \in D \ {c} : /\ n.heap[a] = m.heap[a] /\ End(n, a) = End(m, a)
                             /\ n.hdr[a].forwarding = m.hdr[a].forwarding
      <3>1. \A a \in D \ {c} : Alike(n.hdr[a], p.hdr[a])
        BY <1>12, <2>2 DEF Recorded
      <3> QED
        BY <1>12, <1>17, <3>1 DEF Alike, End
    <2>5. z \in Nat /\ y \in Nat /\ b < z /\ z <= y /\ c < y /\ y <= n.ttop /\ End(m, c) = y
          /\ b <= c /\ b \in Nat /\ c \in Nat /\ tenured_space \in Nat /\ tenured_space <= b
          /\ n.ttop \in Nat
      BY <1>4, <1>9, <1>13, <2>1, Layout
    <2>6. \A a \in D \ {c} : /\ a \in Nat /\ End(m, a) \in Nat /\ a < End(m, a) /\ a # b
                             /\ Old(a) => (a < b /\ End(m, a) <= b) \/ (y <= a /\ End(m, a) <= n.ttop)
      BY <1>3, <1>7, <1>15, <2>1
    <2> HIDE DEF z, y
    <2>7. NurseryOK(n, f)
      <3>1. /\ f <= m.ntop /\ m.ntop <= f + nersary_heap_size /\ (m.ntop - f) % 4 = 0
            /\ \A a \in D : Old(a) \/ (f <= a /\ End(m, a) <= m.ntop)
        BY <1>4 DEF NurseryOK
      <3> QED
        BY <1>13, <2>1, <2>3, <2>4, <3>1 DEF NurseryOK
    <2>8. \A a \in E : Old(a) => (a < z /\ End(n, a) <= z) \/ (y <= a /\ End(n, a) <= n.ttop)
      <3>1. b < z /\ End(n, b) <= z
        BY <2>3, <2>5
      <3>2. ASSUME NEW a \in D \ {c}, Old(a)
            PROVE  (a < z /\ End(n, a) <= z) \/ (y <= a /\ End(n, a) <= n.ttop)
        BY <2>4, <2>5, <2>6, <3>2
      <3> SUFFICES ASSUME NEW a \in E, Old(a)
                   PROVE  (a < z /\ End(n, a) <= z) \/ (y <= a /\ End(n, a) <= n.ttop)
        OBVIOUS
      <3>3. CASE a = b
        BY <3>1, <3>3
      <3>4. CASE a # b
        BY <3>2, <3>4
      <3> QED
        BY <3>3, <3>4
    <2>9. Gapless(n, tenured_space, z, z)
      <3>1. Gapless(m, tenured_space, b, b)
        BY <1>5
      <3>2. tenured_space \in E
        <4>1. tenured_space = b \/ tenured_space \in D
          BY <3>1 DEF Gapless
        <4> QED
          BY <2>5, <4>1
      <3>3. ASSUME NEW a \in E, tenured_space <= a, a < z
            PROVE  End(n, a) = z \/ End(n, a) \in E
        <4>1. CASE a = b
          BY <2>3, <4>1
        <4>2. CASE a # b
          <5>1. a \in D \ {c} /\ Old(a)
            BY <3>3, <4>2 DEF Old
          <5>2. a < b /\ End(m, a) <= b /\ End(m, a) \in Nat
            BY <2>5, <2>6, <3>3, <5>1
          <5>3. End(m, a) = b \/ End(m, a) \in D
            BY <3>1, <3>3, <5>1, <5>2 DEF Gapless
          <5>4. End(m, a) = b \/ End(m, a) # c
            BY <2>5, <5>2
          <5> QED
            BY <2>4, <5>1, <5>3, <5>4
        <4> QED
          BY <4>1, <4>2
      <3> QED
        BY <2>3, <3>2, <3>3 DEF Gapless
    <2>10. Gapless(n, y, n.ttop, n.ttop)
      <3>1. Gapless(m, c, n.ttop, n.ttop)
        BY <1>5, <2>1
      <3>2. y = n.ttop \/ y \in E
        <4>1. c < n.ttop /\ c <= c
          BY <2>5
        <4>2. y = n.ttop \/ y \in D
          BY <1>9, <2>5, <3>1, <4>1 DEF Gapless
        <4> QED
          BY <2>5, <4>2
      <3>3. ASSUME NEW a \in E, y <= a, a < n.ttop
            PROVE  End(n, a) = n.ttop \/ End(n, a) \in E
        <4>1. a \in D \ {c}
          BY <2>5, <3>3
        <4>2. a \in Nat /\ End(m, a) \in Nat /\ a < End(m, a) /\ c <= a
          BY <2>5, <2>6, <3>3, <4>1
        <4>3. End(m, a) = n.ttop \/ End(m, a) \in D
          BY <3>1, <3>3, <4>1, <4>2 DEF Gapless
        <4>4. End(m, a) # c
          BY <2>5, <4>2
        <4> QED
          BY <2>4, <4>1, <4>3, <4>4
      <3> QED
        BY <2>3, <3>2, <3>3 DEF Gapless
    <2>11. Pending' = P
      <3>1. Pending' = {a \in E : a >= y /\ Old(a) /\ a \in marked}
        BY <1>1, <2>1, <2>3 DEF Pending, Old, y, s
      <3>2. ASSUME NEW a \in E
            PROVE  a >= y /\ Old(a) <=> a \in D \ {c} /\ a >= c /\ Old(a)
        <4>1. CASE a = b
          <5>1. ~(b >= y)
            BY <2>5
          <5>2. b \notin D \ {c}
            BY <2>6
          <5> QED
            BY <4>1, <5>1, <5>2
        <4>2. CASE a # b
          BY <2>5, <2>6, <4>2
        <4> QED
          BY <4>1, <4>2
      <3> QED
        BY <1>6, <3>1, <3>2
    <2>12. Slid' = Slid \cup {b}
      <3>1. Slid' = {a \in E : Old(a) /\ a < z}
        BY <1>1, <2>1, <2>3 DEF Slid, Old, z, s
      <3>2. ASSUME NEW a \in E
            PROVE  Old(a) /\ a < z <=> ((a \in D /\ Old(a) /\ a < b) \/ a = b)
        <4>1. CASE a = b
          BY <1>13, <2>5, <4>1
        <4>2. CASE a # b
          BY <2>5, <2>6, <4>2
        <4> QED
          BY <4>1, <4>2
      <3>3. \A a \in D : Old(a) /\ a < b => a \in E
        BY <2>5
      <3> QED
        BY <1>6, <3>1, <3>2, <3>3
    <2>13. Young' = Young
      <3>1. Young' = {a \in E : ~Old(a)}
        BY <2>1, <2>3 DEF Young, Old
      <3> QED
        BY <1>6, <1>9, <1>13, <3>1
    <2>14. \A a \in E \ P : n.hdr[a].forwarding = a
      BY <1>5, <2>3, <2>4
    <2>15. P \subseteq D \ {c} /\ \A a \in P : a \in Nat /\ c < a
      BY <1>6, <2>5, <2>6
    <2>16. Plan(n, P, z)
      <3>1. \A a \in P : /\ n.hdr[a].forwarding = m.hdr[a].forwarding
                         /\ n.heap[a].size = m.heap[a].size
        BY <2>4, <2>15
      <3>2. /\ \A a \in Pending : b <= m.hdr[a].forwarding /\ m.hdr[a].forwarding <= a
            /\ \A a, e \in Pending : a < e => m.hdr[a].forwarding + m.heap[a].size <= m.hdr[e].forwarding
            /\ \A a \in Pending :
                 \/ m.hdr[a].forwarding = b
                 \/ \E e \in Pending : e < a /\ m.hdr[a].forwarding = m.hdr[e].forwarding + m.heap[e].size
        BY <1>5 DEF Plan
      <3>3. \A a \in P : z <= m.hdr[a].forwarding
        BY <1>3, <2>15, <3>2 DEF d, z
      <3>4. ASSUME NEW a \in P
            PROVE  \/ m.hdr[a].forwarding = z
                   \/ \E e \in P : e < a /\ m.hdr[a].forwarding = m.hdr[e].forwarding + m.heap[e].size
        <4>1. m.hdr[a].forwarding # b
          <5>1. z <= m.hdr[a].forwarding
            BY <3>3
          <5> QED
            BY <2>5, <5>1
        <4>2. PICK e \in Pending : e < a /\ m.hdr[a].forwarding = m.hdr[e].forwarding + m.heap[e].size
          BY <3>2, <4>1
        <4>3. CASE e = c
          BY <1>3, <4>2, <4>3 DEF d, z
        <4>4. CASE e # c
          BY <4>2, <4>4
        <4> QED
          BY <4>3, <4>4
      <3> QED
        BY <3>1, <3>2, <3>3, <3>4 DEF Plan
    <2> DEFINE Stays(w) == CELL_P(w) => \/ w \in Young' /\ w \in marked'
                                        \/ w \in Slid'
                                        \/ \E e \in Pending' : w = hdr'[e].forwarding
    <2>17. ASSUME NEW w, Lasts(w)
           PROVE  Stays(w)
      <3> SUFFICES ASSUME CELL_P(w)
                   PROVE  \/ (w \in Young /\ w \in marked) \/ w \in Slid \cup {b}
                          \/ \E e \in P : w = n.hdr[e].forwarding
        BY <1>1, <2>1, <2>11, <2>12, <2>13
      <3>1. CASE (w \in Young /\ w \in marked) \/ w \in Slid
        BY <3>1
      <3>2. ASSUME NEW e \in Pending, w = m.hdr[e].forwarding
            PROVE  w \in Slid \cup {b} \/ \E x \in P : w = n.hdr[x].forwarding
        <4>1. CASE e = c
          BY <1>3, <3>2, <4>1 DEF d
        <4>2. CASE e # c
          <5>1. e \in P
            BY <4>2
          <5>2. w = n.hdr[e].forwarding
            BY <2>4, <2>15, <3>2, <5>1
          <5> QED
            BY <5>1, <5>2
        <4> QED
          BY <4>1, <4>2
      <3> QED
        BY <1>4, <2>17, <3>1, <3>2 DEF Lasts
    <2>18. ASSUME NEW a \in Slid' \cup Pending' \cup (Young' \cap marked')
           PROVE  \/ a = b
                  \/ a \in D \ {c} /\ a \in Slid \cup Pending \cup (Young \cap marked)
      <3>1. Slid \subseteq D \ {c} /\ Young \subseteq D \ {c}
        BY <1>6, <1>9, <2>5
      <3> QED
        BY <1>1, <2>11, <2>12, <2>13, <2>15, <3>1
    <2>19. ASSUME NEW a \in Slid' \cup Pending' \cup (Young' \cap marked'), NEW w \in Fields(n.heap[a])
           PROVE  Lasts(w)
      <3>1. CASE a = b
        BY <1>3, <1>8, <2>3, <3>1
      <3>2. CASE a \in D \ {c} /\ a \in Slid \cup Pending \cup (Young \cap marked)
        BY <1>8, <2>4, <3>2
      <3> QED
        BY <2>18, <3>1, <3>2
    <2>20. ASSUME NEW a \in Slid' \cup Pending', ~n.hdr[a].remembered, NEW w \in Fields(n.heap[a]), CELL_P(w)
           PROVE  Old(w)
      <3>1. a \in E /\ Old(a)
        <4>1. a = b \/ a \in Slid \cup P
          BY <2>11, <2>12
        <4> QED
          BY <1>6, <1>13, <2>5, <4>1
      <3>2. ~p.hdr[a].remembered \/ ~HasNersary(p, a, garbage)
        BY <1>12, <2>2, <2>20, <3>1 DEF Recorded
      <3>3. CASE ~p.hdr[a].remembered
        <4>1. CASE a = b
          BY <1>3, <1>8, <1>12, <2>3, <2>20, <3>3, <4>1
        <4>2. CASE a # b
          <5>1. a \in D \ {c} /\ a \in Slid \cup Pending
            BY <2>11, <2>12, <2>20, <3>1, <4>2
          <5> QED
            BY <1>8, <1>12, <2>4, <2>20, <3>3, <5>1
        <4> QED
          BY <4>1, <4>2
      <3>4. CASE ~HasNersary(p, a, garbage)
        <4>1. ~ReadsNersary(p, w, garbage)
          BY <1>17, <2>20, <3>4 DEF HasNersary
        <4>2. Stays(w)
          <5>1. Lasts(w)
            BY <2>19, <2>20
          <5> HIDE DEF Stays
          <5> QED
            BY <2>17, <5>1
        <4>3. CASE w \in Young
          <5>1. w \in E /\ ~Old(w)
            BY <1>6, <1>9, <4>3
          <5>2. ~p.hdr[w].tenured
            BY <1>12, <1>14, <5>1 DEF Bits, BitsOK
          <5>3. w \in DOMAIN p.hdr
            BY <1>12, <5>1 DEF Typed
          <5> QED
            BY <2>20, <4>1, <5>2, <5>3 DEF ReadsNersary
        <4>4. CASE w \in Slid \cup {b}
          BY <1>6, <1>13, <4>4
        <4>5. CASE \E e \in P : w = n.hdr[e].forwarding
          <5>1. PICK e \in P : w = n.hdr[e].forwarding
            BY <4>5
          <5>2. z <= w
            BY <2>16, <5>1 DEF Plan
          <5>3. w \in Nat
            <6>1. e \in DOMAIN n.heap
              BY <2>3, <2>15
            <6>2. n.hdr[e] \in Header
              BY <1>17, <1>19, <6>1, CellFacts
            <6> QED
              BY <5>1, <6>2 DEF Header
          <5> QED
            BY <2>5, <5>2, <5>3 DEF Old
        <4> QED
          BY <2>1, <2>11, <2>12, <2>13, <2>20, <4>2, <4>3, <4>4, <4>5
      <3> QED
        BY <3>2, <3>3, <3>4
    <2>21. SlideOK'
      <3>1. /\ new_top' = z /\ scanned' = y
            /\ tenured_space <= z /\ z <= y /\ y <= n.ttop /\ n.ttop <= tenured_space + tenured_heap_size
        BY <1>1, <1>4, <2>1, <2>5 DEF z, y
      <3>2. NurseryOK(Memory, from_space)' /\ Bits(Memory)'
        BY <1>1, <1>11, <2>1, <2>2, <2>7
      <3>3. \A i \in Roots : Lasts(root[i])'
        <4>1. \A i \in Roots : Stays(root[i])
          <5> HIDE DEF Stays
          <5> QED
            BY <1>8, <2>17
        <4> QED
          BY <1>1, <4>1 DEF Lasts
      <3>4. \A a \in Slid' \cup Pending' \cup (Young' \cap marked') : \A v \in Fields(heap'[a]) : Lasts(v)'
        <4>1. \A a \in Slid' \cup Pending' \cup (Young' \cap marked') : \A v \in Fields(n.heap[a]) : Stays(v)
          <5> HIDE DEF Stays
          <5> QED
            BY <2>17, <2>19
        <4> QED
          BY <2>1, <4>1 DEF Lasts
      <3>5. \A a \in Slid' \cup Pending' : ~hdr'[a].remembered =>
              \A v \in Fields(heap'[a]) : CELL_P(v) => Old(v)
        BY <2>1, <2>20
      <3>6. \A a \in DOMAIN heap' \ Pending' : hdr'[a].forwarding = a
        BY <2>1, <2>3, <2>11, <2>14
      <3>7. \A a \in DOMAIN heap' : Old(a) => \/ a < new_top' /\ End(n, a) <= new_top'
                                              \/ scanned' <= a /\ End(n, a) <= tenured_top'
        BY <2>1, <2>3, <2>8, <3>1
      <3>8. /\ Gapless(n, tenured_space, new_top', new_top') /\ Gapless(n, scanned', tenured_top', tenured_top')
            /\ Plan(n, Pending', new_top') /\ RemOK(n, new_top')
        BY <2>1, <2>2, <2>9, <2>10, <2>11, <2>16, <3>1
      <3>9. /\ tenured_space <= new_top' /\ new_top' <= scanned' /\ scanned' <= tenured_top'
            /\ tenured_top' <= tenured_space + tenured_heap_size /\ Memory' = n
        BY <2>1, <3>1
      <3> QED
        BY <3>2, <3>3, <3>4, <3>5, <3>6, <3>7, <3>8, <3>9 DEF SlideOK, Old
    <2>22. Typing'
      <3>1. {scanned', new_top'} \subseteq Nat
        BY <1>1, <1>13
      <3> QED
        BY <1>1, <1>4, <2>1, <3>1 DEF Typing, Phases, Ends
    <2>23. Typed(Memory)' /\ Tiled(Memory)' /\ Placed(Memory, from_space, to_space)'
      BY <1>1, <1>11, <1>17, <1>19, <2>1
    <2>24. mark_stack' = <<>> /\ rem_index' = 1 /\ req' \in Requests
      BY <1>1, <1>4
    <2> QED
      BY <2>1, <2>21, <2>22, <2>23, <2>24, SlideHolds
  <1> QED
    BY <1>20, <1>21

LEMMA SlideDeadKeeps ==
  ASSUME IInv, SlideDead
  PROVE  IInv'
  <1> DEFINE m == Memory
             n == Memory'
             f == from_space
             t == to_space
             c == scanned
             b == new_top
             s == m.heap[c].size
             D == DOMAIN m.heap
             S == D \ {c}
             y == c + s
  <1>1. /\ pc = "slide" /\ c < tenured_top /\ c \notin marked
        /\ scanned' = y
        /\ UNCHANGED <<root, req, k, g_GC_stress, marked, mark_stack, from_space, to_space, rem_index,
                       prev_nersary_top, prev_tenured_top, new_top>>
    BY DEF SlideDead, minorVars, Memory
  <1>2. /\ Restricted(m, n, S) /\ n.ntop = m.ntop /\ n.ttop = m.ttop /\ n.rem = m.rem /\ n.full = FALSE
        /\ n = [heap |-> n.heap, hdr |-> n.hdr, ntop |-> n.ntop, ttop |-> n.ttop,
                rem |-> n.rem, full |-> n.full]
        /\ n.heap = heap' /\ n.hdr = hdr' /\ tenured_top' = n.ttop /\ pc' = "slide"
    <2>1. DOMAIN hdr = DOMAIN heap
      BY <1>1 DEF IInv, Typed, Memory
    <2> QED
      BY <1>1, <2>1 DEF SlideDead, Becomes, Freed, Memory, Restricted
  <1>3. m = Memory /\ n = Memory' /\ f = from_space /\ t = to_space /\ c = scanned /\ b = new_top
    OBVIOUS
  <1> HIDE DEF m, n, f, t, c, b
  <1>4. /\ Typed(m) /\ Tiled(m) /\ Placed(m, f, t) /\ Typing /\ SlideOK
        /\ mark_stack = <<>> /\ rem_index = 1 /\ req \in Requests
        /\ m.heap = heap /\ m.hdr = hdr /\ m.ttop = tenured_top /\ m.full = FALSE
        /\ NurseryOK(m, f) /\ Bits(m)
        /\ c \in Nat /\ b \in Nat /\ m.ttop \in Nat
        /\ tenured_space <= b /\ b <= c /\ c <= m.ttop
        /\ m.ttop <= tenured_space + tenured_heap_size
    BY <1>1, <1>3, SlideFacts
  <1>5. /\ Gapless(m, tenured_space, b, b)
        /\ Gapless(m, c, m.ttop, m.ttop)
        /\ \A a \in D \ Pending : m.hdr[a].forwarding = a
        /\ Plan(m, Pending, b)
        /\ RemOK(m, b)
    BY <1>1, <1>3, SlideFacts
  <1>6. /\ Pending = {a \in D : a >= c /\ Old(a) /\ a \in marked}
        /\ Slid = {a \in D : Old(a) /\ a < b}
        /\ Young = {a \in D : ~Old(a)}
    BY <1>1, <1>3, SlideFacts
  <1>7. \A a \in D : /\ a \in Nat /\ End(m, a) \in Nat /\ a < End(m, a)
                     /\ End(m, a) = a + m.heap[a].size
                     /\ Old(a) => \/ a < b /\ End(m, a) <= b
                                  \/ c <= a /\ End(m, a) <= m.ttop
    BY <1>1, <1>3, SlideFacts
  <1>8. /\ \A i \in Roots : Lasts(root[i])
        /\ \A a \in Slid \cup Pending \cup (Young \cap marked) : \A v \in Fields(m.heap[a]) : Lasts(v)
        /\ \A a \in Slid \cup Pending : ~m.hdr[a].remembered =>
             \A v \in Fields(m.heap[a]) : CELL_P(v) => Old(v)
    BY <1>4 DEF SlideOK
  <1>9. c \in D /\ Old(c) /\ y \in Nat /\ c < y /\ y <= m.ttop /\ End(m, c) = y /\ ~(c < b) /\ tenured_space \in Nat
    <2>1. c \in D
      BY <1>1, <1>4, <1>5 DEF Gapless
    <2>2. Old(c) /\ tenured_space \in Nat
      BY <1>4, Layout DEF Old
    <2> QED
      BY <1>4, <1>7, <2>1, <2>2
  <1>10. /\ Typed(n) /\ Tiled(n) /\ Placed(n, f, t) /\ DOMAIN n.heap = S
         /\ \A a \in S : n.heap[a] = m.heap[a] /\ n.hdr[a] = m.hdr[a] /\ End(n, a) = End(m, a)
    <2> HIDE DEF S
    <2>1. n.ntop \in Nat /\ n.ttop \in Nat /\ n.rem \in Seq(Nat) /\ n.full \in BOOLEAN
      BY <1>2, <1>4 DEF Typed
    <2> QED
      BY <1>2, <1>4, <2>1, RestrictedFacts
  <1>11. \A a \in S : /\ a \in Nat /\ End(m, a) \in Nat /\ a < End(m, a)
                      /\ Old(a) => (a < b /\ End(m, a) <= b) \/ (y <= a /\ End(m, a) <= m.ttop)
    <2> SUFFICES ASSUME NEW a \in S, Old(a), c <= a
                 PROVE  y <= a
      BY <1>7
    <2>1. a + m.heap[a].size <= c \/ c + m.heap[c].size <= a
      BY <1>4, <1>9 DEF Tiled, Disjoint
    <2> QED
      BY <1>4, <1>7, <1>9, <2>1
  <1> HIDE DEF y
  <1>12. Pending' = Pending /\ Slid' = Slid /\ Young' = Young
    <2>1. Pending' = {a \in S : a >= y /\ Old(a) /\ a \in marked}
      BY <1>1, <1>2, <1>10 DEF Pending, Old
    <2>2. Slid' = {a \in S : Old(a) /\ a < b} /\ Young' = {a \in S : ~Old(a)}
      BY <1>1, <1>2, <1>3, <1>10 DEF Slid, Young, Old
    <2>3. ASSUME NEW a \in D
          PROVE  a \in S /\ a >= y /\ Old(a) /\ a \in marked <=> a >= c /\ Old(a) /\ a \in marked
      <3>1. CASE a = c
        BY <1>1, <3>1
      <3>2. CASE a # c
        BY <1>4, <1>9, <1>11, <3>2
      <3> QED
        BY <3>1, <3>2
    <2>4. Pending' = Pending
      BY <1>6, <2>1, <2>3
    <2> QED
      BY <1>6, <1>9, <2>2, <2>4
  <1>13. Slid \cup Pending \subseteq S /\ Pending \subseteq S /\ Young \subseteq S
    BY <1>1, <1>6, <1>9
  <1>14. NurseryOK(n, f) /\ Bits(n)
    BY <1>2, <1>4, <1>10 DEF NurseryOK, Bits
  <1>15. Gapless(n, tenured_space, b, b)
    <2>1. tenured_space = b \/ tenured_space \in S
      BY <1>4, <1>5, <1>9 DEF Gapless
    <2>2. ASSUME NEW a \in S, tenured_space <= a, a < b
          PROVE  End(m, a) = b \/ End(m, a) \in S
      <3>1. End(m, a) = b \/ End(m, a) \in D
        BY <1>5, <2>2 DEF Gapless
      <3>2. Old(a) /\ End(m, a) <= b
        BY <1>4, <1>9, <1>11, <2>2 DEF Old
      <3> QED
        BY <1>4, <1>9, <1>11, <3>1, <3>2
    <2> QED
      BY <1>10, <2>1, <2>2 DEF Gapless
  <1>16. Gapless(n, y, n.ttop, n.ttop)
    <2>1. y = m.ttop \/ y \in S
      BY <1>1, <1>4, <1>5, <1>9 DEF Gapless
    <2>2. ASSUME NEW a \in S, y <= a, a < m.ttop
          PROVE  End(m, a) = m.ttop \/ End(m, a) \in S
      <3>1. c <= a /\ c < End(m, a)
        BY <1>4, <1>9, <1>11, <2>2
      <3>2. End(m, a) = m.ttop \/ End(m, a) \in D
        BY <1>5, <2>2, <3>1 DEF Gapless
      <3>3. End(m, a) # c
        BY <1>4, <1>11, <2>2, <3>1
      <3> QED
        BY <3>2, <3>3
    <2> QED
      BY <1>2, <1>10, <2>1, <2>2 DEF Gapless
  <1>17. Plan(n, Pending, b)
    <2>1. \A a \in Pending : n.heap[a] = m.heap[a] /\ n.hdr[a] = m.hdr[a]
      BY <1>10, <1>13
    <2>2. /\ \A a \in Pending : b <= m.hdr[a].forwarding /\ m.hdr[a].forwarding <= a
          /\ \A a, e \in Pending : a < e => m.hdr[a].forwarding + m.heap[a].size <= m.hdr[e].forwarding
          /\ \A a \in Pending :
               \/ m.hdr[a].forwarding = b
               \/ \E e \in Pending : e < a /\ m.hdr[a].forwarding = m.hdr[e].forwarding + m.heap[e].size
      BY <1>5 DEF Plan
    <2> QED
      BY <2>1, <2>2 DEF Plan
  <1>18. RemOK(n, b)
    <2>1. Listed(n) = Listed(m)
      BY <1>2 DEF Listed
    <2>2. {a \in S : Old(a) /\ a < b /\ n.hdr[a].remembered} = {a \in D : Old(a) /\ a < b /\ m.hdr[a].remembered}
      BY <1>9, <1>10
    <2> QED
      BY <1>2, <1>5, <1>10, <2>1, <2>2 DEF RemOK
  <1> DEFINE Stays(w) == CELL_P(w) => \/ w \in Young' /\ w \in marked'
                                      \/ w \in Slid'
                                      \/ \E e \in Pending' : w = hdr'[e].forwarding
  <1>19. ASSUME NEW w, Lasts(w)
         PROVE  Stays(w)
    <2>1. \A e \in Pending : hdr'[e].forwarding = hdr[e].forwarding
      BY <1>2, <1>4, <1>10, <1>13
    <2> QED
      BY <1>1, <1>12, <1>19, <2>1 DEF Lasts
  <1>20. SlideOK'
    <2>1. /\ new_top' = b /\ scanned' = y
          /\ tenured_space <= b /\ b <= y /\ y <= n.ttop /\ n.ttop <= tenured_space + tenured_heap_size
      BY <1>1, <1>2, <1>3, <1>4, <1>9
    <2>2. NurseryOK(Memory, from_space)' /\ Bits(Memory)'
      BY <1>1, <1>3, <1>14
    <2>3. \A i \in Roots : Lasts(root[i])'
      <3>1. \A i \in Roots : Stays(root[i])
        <4> HIDE DEF Stays
        <4> QED
          BY <1>8, <1>19
      <3> QED
        BY <1>1, <3>1 DEF Lasts
    <2>4. \A a \in Slid' \cup Pending' \cup (Young' \cap marked') : \A v \in Fields(heap'[a]) : Lasts(v)'
      <3>1. \A a \in Slid \cup Pending \cup (Young \cap marked) : n.heap[a] = m.heap[a]
        BY <1>10, <1>13
      <3>2. \A a \in Slid \cup Pending \cup (Young \cap marked) : \A v \in Fields(n.heap[a]) : Stays(v)
        <4> HIDE DEF Stays
        <4> QED
          BY <1>8, <1>19, <3>1
      <3> QED
        BY <1>1, <1>2, <1>12, <3>2 DEF Lasts
    <2>5. \A a \in Slid' \cup Pending' : ~hdr'[a].remembered =>
            \A v \in Fields(heap'[a]) : CELL_P(v) => Old(v)
      <3>1. \A a \in Slid \cup Pending : n.heap[a] = m.heap[a] /\ n.hdr[a] = m.hdr[a]
        BY <1>10, <1>13
      <3> QED
        BY <1>2, <1>8, <1>12, <3>1
    <2>6. \A a \in DOMAIN heap' \ Pending' : hdr'[a].forwarding = a
      BY <1>2, <1>5, <1>10, <1>12
    <2>7. \A a \in DOMAIN heap' : Old(a) => \/ a < new_top' /\ End(n, a) <= new_top'
                                            \/ scanned' <= a /\ End(n, a) <= tenured_top'
      BY <1>2, <1>10, <1>11, <2>1
    <2>8. /\ Gapless(n, tenured_space, new_top', new_top') /\ Gapless(n, scanned', tenured_top', tenured_top')
          /\ Plan(n, Pending', new_top') /\ RemOK(n, new_top')
      BY <1>2, <1>12, <1>15, <1>16, <1>17, <1>18, <2>1
    <2>9. /\ tenured_space <= new_top' /\ new_top' <= scanned' /\ scanned' <= tenured_top'
          /\ tenured_top' <= tenured_space + tenured_heap_size /\ Memory' = n
      BY <1>2, <1>3, <2>1
    <2> QED
      BY <2>2, <2>3, <2>4, <2>5, <2>6, <2>7, <2>8, <2>9 DEF SlideOK, Old
  <1>21. Typing'
    <2>1. {scanned', new_top'} \subseteq Nat
      BY <1>1, <1>3, <1>4, <1>9
    <2> QED
      BY <1>1, <1>2, <1>4, <2>1 DEF Typing, Phases, Ends
  <1>22. Typed(Memory)' /\ Tiled(Memory)' /\ Placed(Memory, from_space, to_space)'
    BY <1>1, <1>3, <1>10
  <1>23. mark_stack' = <<>> /\ rem_index' = 1 /\ req' \in Requests
    BY <1>1, <1>4
  <1> QED
    BY <1>2, <1>20, <1>21, <1>22, <1>23, SlideHolds

\* When the slide is over no cell is left to move, and the tenured cells are packed.
LEMMA SlideDoneFacts ==
  ASSUME IInv, SlideDone, NEW m, m = Memory
  PROVE  /\ Pending = {}
         /\ \A a \in DOMAIN m.heap : m.hdr[a].forwarding = a
         /\ \A a \in DOMAIN m.heap : Old(a) => a < new_top /\ End(m, a) <= new_top /\ a \in Slid
         /\ ClosedFromRoots({a \in DOMAIN m.heap : Old(a) \/ a \in marked})
         /\ Unlisted(m)
  <1> DEFINE S == {a \in DOMAIN m.heap : Old(a) \/ a \in marked}
  <1>1. pc = "slide" /\ scanned >= tenured_top
    BY DEF SlideDone
  <1>2. /\ SlideOK /\ m.heap = heap /\ m.hdr = hdr /\ m.ttop = tenured_top
        /\ scanned \in Nat /\ new_top \in Nat /\ m.ttop \in Nat
        /\ new_top <= scanned /\ scanned <= m.ttop
        /\ \A a \in DOMAIN m.heap \ Pending : m.hdr[a].forwarding = a
        /\ RemOK(m, new_top)
    BY <1>1, SlideFacts
  <1>3. /\ Pending = {a \in DOMAIN m.heap : a >= scanned /\ Old(a) /\ a \in marked}
        /\ Slid = {a \in DOMAIN m.heap : Old(a) /\ a < new_top}
        /\ Young = {a \in DOMAIN m.heap : ~Old(a)}
    BY <1>1, SlideFacts
  <1>4. \A a \in DOMAIN m.heap : /\ a \in Nat /\ End(m, a) \in Nat /\ a < End(m, a)
                                 /\ Old(a) => \/ a < new_top /\ End(m, a) <= new_top
                                              \/ scanned <= a /\ End(m, a) <= m.ttop
    BY <1>1, SlideFacts
  <1>5. \A a \in DOMAIN m.heap : Old(a) => a < new_top /\ End(m, a) <= new_top
    BY <1>1, <1>2, <1>4
  <1>6. Pending = {}
    BY <1>2, <1>3, <1>4, <1>5
  <1>7. \A a \in S : a \in Slid \cup Pending \cup (Young \cap marked)
    BY <1>3, <1>5
  <1>8. \A v : Lasts(v) /\ CELL_P(v) => v \in S
    BY <1>3, <1>6 DEF Lasts
  <1>9. ClosedFromRoots(S)
    <2>1. \A i \in Roots : CELL_P(root[i]) => root[i] \in S
      BY <1>2, <1>8 DEF SlideOK
    <2>2. \A a \in S : \A v \in Fields(heap[a]) : CELL_P(v) => v \in S
      <3>1. \A a \in S : \A v \in Fields(heap[a]) : Lasts(v)
        BY <1>2, <1>7 DEF SlideOK
      <3> QED
        BY <1>8, <3>1
    <2> QED
      BY <2>1, <2>2 DEF ClosedFromRoots
  <1>10. Unlisted(m)
    <2> SUFFICES ASSUME NEW a \in DOMAIN m.heap, Old(a), a \notin Listed(m), NEW v \in Fields(m.heap[a]), CELL_P(v)
                 PROVE  Old(v)
      BY DEF Unlisted
    <2>1. a \in Slid /\ ~m.hdr[a].remembered
      BY <1>2, <1>3, <1>5 DEF RemOK
    <2> QED
      BY <1>2, <2>1 DEF SlideOK
  <1> QED
    BY <1>2, <1>3, <1>5, <1>6, <1>9, <1>10

LEMMA SlideEndKeeps ==
  ASSUME IInv, SlideEnd
  PROVE  IInv'
  <1> DEFINE m == Memory
             n == Memory'
             f == from_space
             t == to_space
             b == new_top
             S == {a \in DOMAIN m.heap : Old(a) \/ a \in marked}
  <1>1. /\ pc = "slide" /\ SlideDone /\ pc' = "retry" /\ marked' = {}
        /\ scanned' = tenured_space /\ new_top' = tenured_space /\ tenured_top' = b
        /\ UNCHANGED <<root, req, k, g_GC_stress, mark_stack, from_space, to_space, rem_index,
                       prev_nersary_top, prev_tenured_top, nersary_top, remembered_set>>
    BY DEF SlideEnd, SlideDone, minorVars
  <1>2. /\ Restricted(m, n, S) /\ n.ntop = m.ntop /\ n.ttop = b /\ n.rem = m.rem /\ n.full = FALSE
        /\ n = [heap |-> n.heap, hdr |-> n.hdr, ntop |-> n.ntop, ttop |-> n.ttop,
                rem |-> n.rem, full |-> n.full]
        /\ n.heap = heap' /\ n.hdr = hdr'
    BY <1>1 DEF SlideEnd, Memory, Restricted, InTenured, Old
  <1>3. m = Memory /\ n = Memory' /\ f = from_space /\ t = to_space /\ b = new_top
        /\ S = {a \in DOMAIN m.heap : Old(a) \/ a \in marked}
    OBVIOUS
  <1> HIDE DEF m, n, f, t, b, S
  <1>4. /\ Typed(m) /\ Tiled(m) /\ Placed(m, f, t) /\ Typing
        /\ mark_stack = <<>> /\ rem_index = 1 /\ req \in Requests
        /\ m.heap = heap /\ m.hdr = hdr
        /\ NurseryOK(m, f) /\ Bits(m)
        /\ b \in Nat /\ tenured_space <= b /\ b <= m.ttop
        /\ m.ttop <= tenured_space + tenured_heap_size /\ m.ttop \in Nat
    <2>1. /\ Typed(m) /\ Tiled(m) /\ Placed(m, f, t) /\ Typing
          /\ mark_stack = <<>> /\ rem_index = 1 /\ req \in Requests
          /\ m.heap = heap /\ m.hdr = hdr
          /\ NurseryOK(m, f) /\ Bits(m)
      BY <1>1, <1>3, SlideFacts
    <2>2. /\ b \in Nat /\ tenured_space <= b /\ b <= scanned /\ scanned <= m.ttop /\ scanned \in Nat
          /\ m.ttop <= tenured_space + tenured_heap_size /\ m.ttop \in Nat
      BY <1>1, <1>3, SlideFacts
    <2> QED
      BY <2>1, <2>2
  <1>5. Gapless(m, tenured_space, b, b) /\ RemOK(m, b)
    BY <1>1, <1>3, SlideFacts
  <1>6. /\ \A a \in DOMAIN m.heap : m.hdr[a].forwarding = a
        /\ \A a \in DOMAIN m.heap : Old(a) => a < b /\ End(m, a) <= b
        /\ ClosedFromRoots(S)
        /\ Unlisted(m)
    BY <1>1, <1>3, SlideDoneFacts
  <1>7. /\ Typed(n) /\ Tiled(n) /\ Placed(n, f, t) /\ DOMAIN n.heap = S
        /\ \A a \in S : n.heap[a] = m.heap[a] /\ n.hdr[a] = m.hdr[a] /\ End(n, a) = End(m, a)
    <2>1. n.ntop \in Nat /\ n.ttop \in Nat /\ n.rem \in Seq(Nat) /\ n.full \in BOOLEAN
      BY <1>2, <1>4 DEF Typed
    <2> QED
      BY <1>2, <1>4, <2>1, RestrictedFacts
  <1>8. S \subseteq DOMAIN m.heap /\ \A a \in DOMAIN m.heap : Old(a) => a \in S
    BY <1>3
  <1>9. \A a \in DOMAIN m.heap : a \in Nat /\ End(m, a) \in Nat /\ a < End(m, a)
    BY <1>4, CellFacts
  <1>10. NurseryOK(n, f) /\ Bits(n) /\ AtHome(n)
    BY <1>2, <1>4, <1>6, <1>7, <1>8 DEF NurseryOK, Bits, AtHome
  <1>11. TenuredOK(n)
    <2>1. tenured_space = b \/ tenured_space \in S
      BY <1>4, <1>5, <1>8, Layout DEF Gapless, Old
    <2>2. ASSUME NEW a \in S, tenured_space <= a, a < b
          PROVE  End(m, a) = b \/ End(m, a) \in S
      <3>1. End(m, a) = b \/ End(m, a) \in DOMAIN m.heap
        BY <1>5, <1>8, <2>2 DEF Gapless
      <3>2. Old(End(m, a))
        BY <1>8, <1>9, <2>2, Layout DEF Old
      <3> QED
        BY <1>8, <3>1, <3>2
    <2>3. Gapless(n, tenured_space, n.ttop, n.ttop)
      BY <1>2, <1>7, <2>1, <2>2 DEF Gapless
    <2>4. \A a \in S : Old(a) => End(n, a) <= b
      BY <1>6, <1>7, <1>8
    <2>5. tenured_space <= b /\ b <= tenured_space + tenured_heap_size
      BY <1>4, Layout
    <2> QED
      BY <1>2, <1>7, <2>3, <2>4, <2>5 DEF TenuredOK
  <1>12. ClosedFromRoots(DOMAIN heap)'
    <2>1. \A i \in Roots : CELL_P(root[i]) => root[i] \in S
      BY <1>6 DEF ClosedFromRoots
    <2>2. \A a \in S : \A v \in Fields(m.heap[a]) : CELL_P(v) => v \in S
      BY <1>4, <1>6 DEF ClosedFromRoots
    <2>3. \A a \in S : \A v \in Fields(n.heap[a]) : CELL_P(v) => v \in S
      BY <1>7, <2>2
    <2> QED
      BY <1>1, <1>2, <1>7, <2>1, <2>3 DEF ClosedFromRoots
  <1>13. RemOK(n, n.ttop)
    <2>1. Listed(n) = Listed(m)
      BY <1>2 DEF Listed
    <2>2. {a \in S : Old(a) /\ a < b /\ n.hdr[a].remembered}
            = {a \in DOMAIN m.heap : Old(a) /\ a < b /\ m.hdr[a].remembered}
      BY <1>7, <1>8
    <2> QED
      BY <1>2, <1>5, <1>7, <2>1, <2>2 DEF RemOK
  <1>14. Unlisted(n)
    <2>1. Listed(n) = Listed(m)
      BY <1>2 DEF Listed
    <2> QED
      BY <1>6, <1>7, <1>8, <2>1 DEF Unlisted
  <1>15. Resting'
    <2>1. Quiet(Memory, from_space)' /\ AtHome(Memory)' /\ RemOK(Memory, tenured_top)' /\ Unlisted(Memory)'
      BY <1>1, <1>2, <1>3, <1>10, <1>11, <1>13, <1>14 DEF Quiet
    <2> QED
      BY <1>1, <1>12, <2>1 DEF Resting
  <1>16. Typing'
    <2>1. {scanned', new_top'} \subseteq Nat /\ pc' \in Phases
      BY <1>1, Layout DEF Phases
    <2> QED
      BY <1>1, <1>4, <2>1 DEF Typing
  <1>17. Typed(Memory)' /\ Tiled(Memory)' /\ Placed(Memory, from_space, to_space)'
    BY <1>1, <1>3, <1>7
  <1>18. pc' \in {"run", "minor_done", "retry"} /\ mark_stack' = <<>> /\ rem_index' = 1 /\ req' \in Requests
    BY <1>1, <1>4
  <1> QED
    BY <1>1, <1>15, <1>16, <1>17, <1>18, RestKeeps

LEMMA SlideEndHurtsKeeps ==
  ASSUME IInv, SlideEndHurts
  PROVE  IInv'
  <1>1. mark_stack = <<>>
    BY DEF IInv, StateOK, SlideEndHurts, SlideDone
  <1> QED
    BY <1>1, StopKeeps DEF SlideEndHurts, Ends

LEMMA StutterKeeps ==
  ASSUME IInv, UNCHANGED vars
  PROVE  IInv'
  <1>1. UNCHANGED <<root, heap, pc, req, k, g_GC_stress, marked, mark_stack, hdr, from_space,
                    to_space, nersary_top, tenured_top, remembered_set, rem_index,
                    prev_nersary_top, prev_tenured_top, scanned, new_top>>
    BY DEF vars
  <1>2. Memory' = Memory
    BY <1>1 DEF Memory
  <1>3. Typing' /\ StateOK' /\ Typed(Memory)' /\ Tiled(Memory)' /\ Placed(Memory, from_space, to_space)'
    BY <1>1, <1>2 DEF IInv, Typing, StateOK, AtRest
  <1>4. MarkInv'
    <2>1. Live' = Live
      BY <1>1 DEF Live, ClosedFromRoots
    <2>2. MarkInv
      BY DEF IInv
    <2>3. GoodMarks(MarkState)' <=> GoodMarks(MarkState)
      BY <1>1, <2>1 DEF GoodMarks, MarkState
    <2>4. WaveFront' <=> WaveFront
      BY <1>1 DEF WaveFront
    <2> QED
      BY <1>1, <2>2, <2>3, <2>4 DEF MarkInv
  <1>5. \A S : ClosedFromRoots(S)' <=> ClosedFromRoots(S)
    BY <1>1 DEF ClosedFromRoots
  <1>6. (AtRest => Resting)' /\ (pc \in {"roots", "mark"} => MarkingOK)'
    <2>1. ClosedFromRoots(DOMAIN heap)' <=> ClosedFromRoots(DOMAIN heap)
      BY <1>1 DEF ClosedFromRoots
    <2> QED
      BY <1>1, <1>2, <2>1 DEF IInv, AtRest, Resting, MarkingOK
  <1>7. (pc \in Scanning => Minor)'
    <2>1. \A i : Seen(i)' <=> Seen(i)
      BY <1>1 DEF Seen
    <2>2. Colours' <=> Colours
      BY <1>1, <1>2, <2>1 DEF Colours
    <2>3. Pointers' <=> Pointers
      BY <1>1 DEF Pointers
    <2> QED
      BY <1>1, <1>2, <2>2, <2>3 DEF IInv, Minor
  <1>8. (pc = "update" => UpdateOK)'
    <2>1. Tenured' = Tenured
      BY <1>1 DEF Tenured, InTenured
    <2>2. /\ ClosedFromRoots(DOMAIN heap)' <=> ClosedFromRoots(DOMAIN heap)
          /\ ClosedFromRoots(marked \cap DOMAIN heap)' <=> ClosedFromRoots(marked \cap DOMAIN heap)
      BY <1>1 DEF ClosedFromRoots
    <2> QED
      BY <1>1, <1>2, <2>1, <2>2 DEF IInv, UpdateOK
  <1>9. (pc = "slide" => SlideOK)'
    <2>1. Pending' = Pending /\ Slid' = Slid /\ Young' = Young
      BY <1>1 DEF Pending, Slid, Young, Old
    <2>2. \A v : Lasts(v)' <=> Lasts(v)
      BY <1>1, <2>1 DEF Lasts
    <2> HIDE DEF Lasts
    <2>3. (\A i \in Roots : Lasts(root[i]))' <=> \A i \in Roots : Lasts(root[i])
      BY <1>1, <2>1 DEF Lasts
    <2>4. (\A a \in Slid \cup Pending \cup (Young \cap marked) : \A v \in Fields(heap[a]) : Lasts(v))'
            <=> \A a \in Slid \cup Pending \cup (Young \cap marked) : \A v \in Fields(heap[a]) : Lasts(v)
      BY <1>1, <2>1, <2>2
    <2> QED
      BY <1>1, <1>2, <2>1, <2>3, <2>4 DEF IInv, SlideOK, Old
  <1> QED
    BY <1>3, <1>4, <1>6, <1>7, <1>8, <1>9 DEF IInv

\* Every step keeps the invariant, unless the program redefines a variable whose
\* binding is tenured: the barrier looks at the wrong cell, and what the store
\* leads to is not copied.
LEMMA NextKeeps ==
  ASSUME ~TenuredRedefined, IInv, [Next]_vars
  PROVE  IInv'
  <1>1. CASE Mutator
    <2>1. ASSUME NEW i \in Roots, NEW v \in Held, Assign(i, v) /\ UNCHANGED <<marked, mark_stack, genVars>>,
                 pc = "run"
          PROVE  IInv'
      BY <2>1, AssignKeeps
    <2>2. ASSUME NEW i \in Roots, NEW j \in Roots, RedefineWithBarrier(i, j), pc = "run"
          PROVE  IInv'
      BY <2>2, RedefineKeeps
    <2>3. ASSUME NEW i \in Roots, NEW j \in Roots, BarrierFaults(i, j), pc = "run"
          PROVE  IInv'
      BY <2>3, BarrierFaultsKeeps
    <2> QED
      BY <1>1, <2>1, <2>2, <2>3 DEF Mutator
  <1>2. ASSUME NEW r \in Requests, MallocFast(r) \/ GCStart(r)
        PROVE  IInv'
    BY <1>2, MallocKeeps, GCStartKeeps
  <1>3. CASE CopyRoot \/ RootsCopied \/ ScanRemembered \/ ScanNext \/ ScanNersary \/ ScanTenured
    BY <1>3, CopyRootKeeps, NextPartKeeps, ScanRememberedKeeps, ScanNersaryKeeps, ScanTenuredKeeps
  <1>4. CASE Swap \/ MajorOrNot \/ MallocRetry \/ Exhausted
    BY <1>4, SwapKeeps, MajorOrNotKeeps, MallocKeeps, ExhaustedKeeps
  <1>5. CASE MarkPhase /\ UNCHANGED genVars
    BY <1>5, MarkPhaseHolds
  <1>6. CASE calc_new_address \/ update_pointer
    BY <1>6, CalcNewAddressKeeps, UpdatePointerKeeps
  <1>7. CASE SlideCell \/ SlideDead \/ SlideEnd \/ SlideEndHurts
    BY <1>7, SlideCellKeeps, SlideDeadKeeps, SlideEndKeeps, SlideEndHurtsKeeps
  <1>8. CASE UNCHANGED vars
    BY <1>8, StutterKeeps
  <1> QED
    BY <1>1, <1>2, <1>3, <1>4, <1>5, <1>6, <1>7, <1>8 DEF Next, Collector, Terminated

LEMMA Invariance ==
  ASSUME ~TenuredRedefined
  PROVE  Spec => []IInv
  <1>1. Init => IInv
    BY InitKeeps
  <1>2. IInv /\ [Next]_vars => IInv'
    BY NextKeeps
  <1> QED
    BY <1>1, <1>2, PTL DEF Spec

-----------------------------------------------------------------------------
(* The properties. *)

LEMMA SettledFacts ==
  ASSUME IInv, Settled, NEW m, m = Memory
  PROVE  /\ Bits(m) /\ AtHome(m) /\ Unlisted(m)
         /\ ClosedFromRoots({a \in DOMAIN m.heap : Old(a) \/ a \in marked \/ pc # "slide"})
         /\ Len(m.rem) <= REMEMBERED_SET_SIZE /\ Distinct(m.rem)
         /\ Listed(m) = {a \in DOMAIN m.heap : Old(a) /\ m.hdr[a].remembered}
         /\ m.heap = heap /\ m.hdr = hdr /\ m.rem = remembered_set
  <1>1. m.heap = heap /\ m.hdr = hdr /\ m.rem = remembered_set /\ m.ttop = tenured_top /\ Typed(m) /\ Tiled(m)
    BY DEF Memory, IInv
  <1>2. CASE AtRest
    <2>1. Resting /\ pc # "slide"
      BY <1>2 DEF IInv, AtRest
    <2>2. TenuredOK(m) /\ RemOK(m, m.ttop)
      BY <1>1, <2>1 DEF Resting, Quiet
    <2>3. \A a \in DOMAIN m.heap : Old(a) => a < m.ttop
      <3>1. \A a \in DOMAIN m.heap : a \in Nat /\ End(m, a) \in Nat /\ End(m, a) = a + m.heap[a].size
                                    /\ m.heap[a].size \in Nat /\ m.heap[a].size > 0
        BY <1>1, CellFacts
      <3>2. m.ttop \in Nat /\ \A a \in DOMAIN m.heap : Old(a) => End(m, a) <= m.ttop
        BY <1>1, <2>2 DEF TenuredOK, Typed
      <3> QED
        BY <3>1, <3>2
    <2>4. Listed(m) = {a \in DOMAIN m.heap : Old(a) /\ m.hdr[a].remembered}
      BY <2>2, <2>3 DEF RemOK
    <2>5. {a \in DOMAIN m.heap : Old(a) \/ a \in marked \/ pc # "slide"} = DOMAIN heap
      BY <1>1, <2>1
    <2> QED
      BY <1>1, <2>1, <2>2, <2>4, <2>5 DEF Resting, Quiet, RemOK
  <1>3. CASE SlideDone
    <2>1. pc = "slide" /\ SlideOK
      BY <1>3 DEF SlideDone, IInv
    <2>2. RemOK(m, new_top) /\ Bits(m)
      BY <2>1 DEF SlideOK
    <2>3. /\ \A a \in DOMAIN m.heap : m.hdr[a].forwarding = a
          /\ \A a \in DOMAIN m.heap : Old(a) => a < new_top
          /\ ClosedFromRoots({a \in DOMAIN m.heap : Old(a) \/ a \in marked})
          /\ Unlisted(m)
      BY <1>3, SlideDoneFacts
    <2>4. Listed(m) = {a \in DOMAIN m.heap : Old(a) /\ m.hdr[a].remembered}
      BY <2>2, <2>3 DEF RemOK
    <2>5. {a \in DOMAIN m.heap : Old(a) \/ a \in marked \/ pc # "slide"}
            = {a \in DOMAIN m.heap : Old(a) \/ a \in marked}
      BY <2>1
    <2> QED
      BY <1>1, <2>2, <2>3, <2>4, <2>5 DEF RemOK, AtHome
  <1> QED
    BY <1>2, <1>3 DEF Settled, AtRest

LEMMA SoundHolds ==
  ASSUME IInv
  PROVE  HeapSound
  <1> DEFINE m == Memory
             S == {a \in DOMAIN m.heap : Old(a) \/ a \in marked \/ pc # "slide"}
  <1>1. m.heap = heap /\ m.hdr = hdr /\ m.rem = remembered_set /\ m.ttop = tenured_top
        /\ m.ntop = nersary_top /\ Typed(m) /\ Typing
    BY DEF Memory, IInv
  <1>2. ASSUME Settled
        PROVE  \A a \in DOMAIN heap : /\ hdr[a].tenured <=> InTenured(a)
                                      /\ hdr[a].tenured <=> hdr[a].age = TENURING_THRESHOLD
    BY <1>1, <1>2, SettledFacts DEF Bits, BitsOK, Old, InTenured
  <1>3. TypeOK
    BY <1>1, <1>2 DEF Typed, Typing, TypeOK
  <1>4. ASSUME Settled
        PROVE  NoDangling
    <2>1. /\ ClosedFromRoots(S) /\ AtHome(m)
          /\ Listed(m) = {a \in DOMAIN m.heap : Old(a) /\ m.hdr[a].remembered}
      BY <1>4, SettledFacts
    <2>2. Live \subseteq S
      BY <1>1, <2>1, LiveLeast
    <2>3. Remembered \subseteq S
      BY <1>1, <2>1 DEF Remembered, Listed
    <2>4. \A i \in Roots : CELL_P(root[i]) => root[i] \in S
      BY <2>1 DEF ClosedFromRoots
    <2>5. \A a \in Live \cup Remembered : \A v \in Fields(heap[a]) : CELL_P(v) => v \in S
      BY <2>1, <2>2, <2>3 DEF ClosedFromRoots
    <2>6. \A v \in S : v \in DOMAIN heap /\ hdr[v].forwarding = v
      BY <1>1, <2>1 DEF AtHome
    <2> HIDE DEF S
    <2> QED
      BY <2>4, <2>5, <2>6 DEF NoDangling
  <1> QED
    BY <1>3, <1>4 DEF HeapSound, NoDangling

LEMMA BarrierHolds ==
  ASSUME IInv
  PROVE  OldToYoungRemembered
  <1> DEFINE m == Memory
  <1>1. m.heap = heap
    BY DEF Memory
  <1>2. ASSUME Settled
        PROVE  Unlisted(m)
    BY <1>2, SettledFacts
  <1>3. Listed(m) = Remembered
    BY DEF Listed, Remembered, Memory
  <1> HIDE DEF m
  <1> QED
    BY <1>1, <1>2, <1>3 DEF OldToYoungRemembered, Unlisted, Tenured, InTenured, Old

\* The list has no entry twice, so it is as long as the set is large.
LEMMA DistinctCount ==
  ASSUME NEW list \in Seq(Nat), Distinct(list)
  PROVE  Cardinality({list[i] : i \in 1 .. Len(list)}) = Len(list)
  <1> DEFINE I == 1 .. Len(list)
             E == {list[i] : i \in I}
  <1>1. Len(list) \in Nat
    OBVIOUS
  <1>2. IsFiniteSet(I) /\ Cardinality(I) = Len(list)
    <2> DEFINE n == Len(list)
    <2> HIDE DEF n
    <2>1. n \in Nat /\ 1 \in Int /\ n \in Int
      BY <1>1 DEF n
    <2>2. IsFiniteSet(1 .. n) /\ Cardinality(1 .. n) = IF 1 > n THEN 0 ELSE n - 1 + 1
      BY <2>1, FS_Interval
    <2>3. IsFiniteSet(1 .. n) /\ Cardinality(1 .. n) = n
      BY <2>1, <2>2
    <2> QED
      BY <2>3 DEF n
  <1>3. DOMAIN list = I
    OBVIOUS
  <1>4. [i \in I |-> list[i]] \in Bijection(I, E)
    <2>1. [i \in I |-> list[i]] \in [I -> E]
      OBVIOUS
    <2>2. \A i, j \in I : list[i] = list[j] => i = j
      BY DEF Distinct
    <2> QED
      BY <2>1, <2>2 DEF Bijection, Injection, Surjection, IsInjective
  <1>5. ExistsBijection(I, E)
    BY <1>4 DEF ExistsBijection
  <1> HIDE DEF I, E
  <1>6. Cardinality(E) = Cardinality(I)
    BY <1>2, <1>5, FS_Bijection
  <1> QED
    BY <1>2, <1>6 DEF E, I

LEMMA RememberedHolds ==
  ASSUME IInv
  PROVE  RememberedSetSound
  <1> DEFINE m == Memory
  <1>1. m.heap = heap /\ m.hdr = hdr /\ m.rem = remembered_set /\ Listed(m) = Remembered
        /\ remembered_set \in Seq(Nat)
    BY DEF Listed, Remembered, Memory, IInv, Typed
  <1> SUFFICES ASSUME Settled
               PROVE  /\ Len(remembered_set) <= REMEMBERED_SET_SIZE
                      /\ Cardinality(Remembered) = Len(remembered_set)
                      /\ Remembered = {a \in Tenured : hdr[a].remembered}
    BY DEF RememberedSetSound
  <1>2. /\ Len(m.rem) <= REMEMBERED_SET_SIZE /\ Distinct(m.rem)
        /\ Listed(m) = {a \in DOMAIN m.heap : Old(a) /\ m.hdr[a].remembered}
    BY SettledFacts
  <1>3. Cardinality(Remembered) = Len(remembered_set)
    BY <1>1, <1>2, DistinctCount DEF Remembered
  <1> HIDE DEF m
  <1> QED
    BY <1>1, <1>2, <1>3 DEF Tenured, InTenured, Old

LEMMA SpacesHold ==
  ASSUME IInv
  PROVE  SpacesRespected
  <1> DEFINE m == Memory
             f == from_space
             t == to_space
  <1>1. m.heap = heap /\ Typed(m) /\ Tiled(m) /\ Placed(m, f, t) /\ HalvesApart(f, t)
    BY TypingApart DEF Memory, IInv
  <1>2. m.heap = heap /\ f = from_space /\ t = to_space
    BY <1>1
  <1> HIDE DEF m, f, t
  <1>3. /\ f \in Nat /\ t \in Nat /\ nersary_heap_size \in Nat /\ tenured_space \in Nat
        /\ f + nersary_heap_size <= t \/ t + nersary_heap_size <= f
    BY <1>1, Layout DEF HalvesApart
  <1>4. f + nersary_heap_size <= tenured_space /\ t + nersary_heap_size <= tenured_space
    BY <1>1 DEF HalvesApart
  <1>5. ASSUME NEW a \in DOMAIN m.heap
        PROVE  /\ a \in Nat /\ m.heap[a].size \in Nat /\ m.heap[a].size > 0
               /\ \/ f <= a /\ a + m.heap[a].size <= f + nersary_heap_size
                  \/ t <= a /\ a + m.heap[a].size <= t + nersary_heap_size
                  \/ tenured_space <= a /\ a + m.heap[a].size <= tenured_space + tenured_heap_size
    BY <1>1, CellFacts DEF Placed, End, Old
  <1>6. ASSUME NEW a \in DOMAIN heap \ Tenured
        PROVE  LET start == IF InFromSpace(a) THEN from_space ELSE to_space
               IN  start <= a /\ a + heap[a].size <= start + nersary_heap_size
    <2>1. ~(tenured_space <= a) /\ a \in DOMAIN m.heap
      BY <1>2, <1>6 DEF Tenured, InTenured
    <2> QED
      BY <1>2, <1>3, <1>5, <2>1 DEF InFromSpace
  <1>7. ASSUME NEW a \in Tenured
        PROVE  a + heap[a].size <= tenured_space + tenured_heap_size
    <2>1. tenured_space <= a /\ a \in DOMAIN m.heap
      BY <1>2, <1>7 DEF Tenured, InTenured
    <2> QED
      BY <1>2, <1>3, <1>4, <1>5, <2>1
  <1> QED
    BY <1>1, <1>6, <1>7 DEF SpacesRespected, Tiled

\* No reference leads to what a minor or a major collection has left behind, or
\* to the old place of a cell it moved, and the tenured bits are right: heap and
\* headers agree whenever a collection is over, however the collections follow
\* each other, in a heap of any size and with a remembered set of any size.
THEOREM HeapStaysSound ==
  ASSUME ~TenuredRedefined
  PROVE  Spec => []HeapSound
  <1>1. Spec => []IInv
    BY Invariance
  <1>2. IInv => HeapSound
    BY SoundHolds
  <1> QED
    BY <1>1, <1>2, PTL

\* Each tenured cell that refers to the nursery is in the remembered set
\* whenever a collection is over: the stores of the program, the promotions and
\* the slide all record what they have to.
THEOREM OldToYoungIsRemembered ==
  ASSUME ~TenuredRedefined
  PROVE  Spec => []OldToYoungRemembered
  <1>1. Spec => []IInv
    BY Invariance
  <1>2. IInv => OldToYoungRemembered
    BY BarrierHolds
  <1> QED
    BY <1>1, <1>2, PTL

\* The remembered set holds the tenured cells with the remembered bit, each
\* once, and no more than there is room for.
THEOREM RememberedSetStaysSound ==
  ASSUME ~TenuredRedefined
  PROVE  Spec => []RememberedSetSound
  <1>1. Spec => []IInv
    BY Invariance
  <1>2. IInv => RememberedSetSound
    BY RememberedHolds
  <1> QED
    BY <1>1, <1>2, PTL

\* Neither the copies nor the promotions of a minor collection, for which the
\* code makes no check, run out of their space, and the cells stay apart.
THEOREM SpacesAreRespected ==
  ASSUME ~TenuredRedefined
  PROVE  Spec => []SpacesRespected
  <1>1. Spec => []IInv
    BY Invariance
  <1>2. IInv => SpacesRespected
    BY SpacesHold
  <1> QED
    BY <1>1, <1>2, PTL

-----------------------------------------------------------------------------
(* A minor collection advances. *)

\* Each of its steps that moves cells copies cells.
LEMMA RootCopies ==
  ASSUME IInv, CopyRoot
  PROVE  Copies(Memory, Memory', from_space)
  <1> DEFINE m == Memory
             f == from_space
             t == to_space
             v == root[k]
             n == Copied(m, v)
  <1>1. pc = "minor_roots" /\ k <= NRoots /\ Becomes(n, pc)
    BY DEF CopyRoot
  <1>2. pc \in Scanning /\ Minor /\ Typing
    BY <1>1 DEF Scanning, IInv
  <1>3. k \in Roots /\ k \in Nat /\ v \in Value
    BY <1>1, <1>2, RootsAssumption DEF Typing, Roots
  <1>4. HalvesApart(f, t) /\ Sound(m, f, t) /\ FromWhite(m, f) /\ m.full = FALSE
    BY <1>2, MinorFacts
  <1>5. \A i \in Roots : IF i >= k THEN White(m, f, root[i]) ELSE Black(m, f, root[i])
    BY <1>1, <1>2 DEF Minor, Colours
  <1>6. White(m, f, v)
    BY <1>3, <1>5
  <1>12. m = Memory /\ f = from_space
    OBVIOUS
  <1> HIDE DEF m, f, t, v, n
  <1>7. Copies(m, n, f)
    BY <1>4, <1>6, CopiedCopies DEF n
  <1>8. Sound(n, f, t) /\ Grows(m, n, f, {})
    BY <1>3, <1>4, <1>6, CopiedFacts DEF n
  <1>9. Typed(n) /\ n.full = FALSE
    BY <1>4, <1>8 DEF Sound, Grows
  <1>10. Memory' = n
    BY <1>1, <1>9, BecomesFacts
  <1> QED
    BY <1>7, <1>10, <1>12

LEMMA RememberedCopies ==
  ASSUME IInv, ScanRemembered
  PROVE  Copies(Memory, Memory', from_space) /\ remembered_set' = remembered_set
  <1> DEFINE m == Memory
             f == from_space
             t == to_space
             c == remembered_set[rem_index]
             n == CopyFields(m, c)
  <1>1. pc = "remembered" /\ rem_index <= Len(m.rem) /\ Becomes(n, pc)
    BY MemoryRecord DEF ScanRemembered
  <1>2. pc \in Scanning /\ Typing
    BY <1>1 DEF Scanning, IInv
  <1>3. /\ HalvesApart(f, t) /\ Sound(m, f, t) /\ FromWhite(m, f) /\ m.full = FALSE
        /\ f \in Nat /\ m.rem = remembered_set /\ DOMAIN m.heap \subseteq Nat
        /\ Len(m.rem) \in Nat
    BY <1>2, MinorFacts
  <1>4. \A i \in 1 .. Len(m.rem) :
          /\ m.rem[i] \in DOMAIN m.heap /\ Old(m.rem[i])
          /\ IF Seen(i) THEN BlackCell(m, f, m.rem[i]) ELSE WhiteCell(m, f, m.rem[i])
    BY <1>2, MinorFacts
  <1>5. rem_index \in Nat \ {0} /\ c = m.rem[rem_index] /\ m = Memory /\ f = from_space
    BY <1>2, <1>3 DEF Typing
  <1> HIDE DEF m, f, t, c, n
  <1>6. rem_index \in 1 .. Len(m.rem)
    BY <1>1, <1>3, <1>5
  <1>7. c \in DOMAIN m.heap /\ Old(c) /\ WhiteCell(m, f, c) /\ c \in Nat
    BY <1>1, <1>3, <1>4, <1>5, <1>6 DEF Seen
  <1>8. ~In(f, c)
    <2>1. f + nersary_heap_size <= tenured_space /\ tenured_space <= c
      BY <1>3, <1>7 DEF HalvesApart, Old
    <2>2. nersary_heap_size \in Nat /\ tenured_space \in Nat
      BY Layout
    <2> QED
      BY <1>3, <1>7, <2>1, <2>2 DEF In
  <1>9. Sound(n, f, t) /\ Grows(m, n, f, {c}) /\ Copies(m, n, f)
    BY <1>3, <1>7, <1>8, CopyFieldsFacts DEF n
  <1>10. Typed(n) /\ n.full = FALSE /\ n.rem = m.rem
    BY <1>3, <1>9 DEF Sound, Grows
  <1>11. Memory' = n /\ remembered_set' = n.rem
    BY <1>1, <1>10, BecomesFacts
  <1> QED
    BY <1>3, <1>5, <1>9, <1>10, <1>11

LEMMA NersaryCopies ==
  ASSUME IInv, ScanNersary
  PROVE  /\ Copies(Memory, Memory', from_space)
         /\ prev_nersary_top \in DOMAIN heap /\ ~In(from_space, prev_nersary_top)
         /\ ~Old(prev_nersary_top) /\ prev_nersary_top' \in Nat /\ prev_nersary_top < prev_nersary_top'
  <1> DEFINE m == Memory
             f == from_space
             t == to_space
             c == prev_nersary_top
             n == CopyFields(m, c)
  <1>1. pc = "scan_nersary" /\ c < m.ntop /\ Becomes(n, pc) /\ prev_nersary_top' = End(m, c)
    BY MemoryRecord DEF ScanNersary, End
  <1>2. pc \in Scanning
    BY <1>1 DEF Scanning
  <1>3. /\ HalvesApart(f, t) /\ Sound(m, f, t) /\ FromWhite(m, f) /\ m.full = FALSE
        /\ f \in Nat /\ t \in Nat /\ c \in Nat /\ m.ntop \in Nat /\ Typed(m) /\ Tiled(m)
        /\ t <= c /\ (c = m.ntop \/ c \in DOMAIN m.heap) /\ m.heap = heap
    BY <1>2, MinorFacts
  <1>4. \A a \in DOMAIN m.heap : CellOK(m, f, t, c, prev_tenured_top, a)
    BY <1>2, MinorFacts
  <1>5. m = Memory /\ f = from_space /\ c = prev_nersary_top
    OBVIOUS
  <1> HIDE DEF m, f, t, c, n
  <1>6. c \in DOMAIN m.heap
    BY <1>1, <1>3
  <1>7. In(t, c) /\ ~In(f, c) /\ ~Old(c)
    <2>1. m.ntop <= t + nersary_heap_size
      BY <1>3 DEF Sound, Parted
    <2> QED
      BY <1>1, <1>3, <2>1, Layout DEF HalvesApart, In, Old
  <1>8. WhiteCell(m, f, c)
    BY <1>3, <1>4, <1>6, <1>7 DEF CellOK
  <1>9. Sound(n, f, t) /\ Grows(m, n, f, {c}) /\ Copies(m, n, f)
    BY <1>3, <1>6, <1>7, <1>8, CopyFieldsFacts DEF n
  <1>10. Typed(n) /\ n.full = FALSE
    BY <1>3, <1>9 DEF Sound, Grows
  <1>11. Memory' = n
    BY <1>1, <1>10, BecomesFacts
  <1>12. End(m, c) \in Nat /\ c < End(m, c)
    BY <1>3, <1>6, CellFacts
  <1> QED
    BY <1>1, <1>3, <1>5, <1>6, <1>7, <1>9, <1>11, <1>12

LEMMA TenuredCopies ==
  ASSUME IInv, ScanTenured
  PROVE  /\ Copies(Memory, Memory', from_space)
         /\ prev_tenured_top \in DOMAIN heap /\ Old(prev_tenured_top)
         /\ prev_tenured_top' \in Nat /\ prev_tenured_top < prev_tenured_top'
  <1> DEFINE m == Memory
             f == from_space
             t == to_space
             c == prev_tenured_top
             n == CopyFields(m, c)
             p == RememberPromoted(n, c)
  <1>1. pc = "scan_tenured" /\ c < m.ttop /\ Becomes(p, pc) /\ prev_tenured_top' = End(m, c)
    BY MemoryRecord DEF ScanTenured, End
  <1>2. pc \in Scanning
    BY <1>1 DEF Scanning
  <1>3. /\ HalvesApart(f, t) /\ Sound(m, f, t) /\ FromWhite(m, f) /\ m.full = FALSE
        /\ f \in Nat /\ t \in Nat /\ c \in Nat /\ m.ttop \in Nat /\ Typed(m) /\ Tiled(m)
        /\ tenured_space <= c /\ (c = m.ttop \/ c \in DOMAIN m.heap) /\ m.heap = heap
    BY <1>2, MinorFacts
  <1>4. \A a \in DOMAIN m.heap : CellOK(m, f, t, prev_nersary_top, c, a)
    BY <1>2, MinorFacts
  <1>14. \A i \in 1 .. Len(m.rem) : m.rem[i] < c
    BY <1>2, MinorFacts
  <1>5. m = Memory /\ f = from_space /\ c = prev_tenured_top
    OBVIOUS
  <1> HIDE DEF m, f, t, c, n, p
  <1>6. c \in DOMAIN m.heap
    BY <1>1, <1>3
  <1>7. Old(c) /\ ~In(f, c)
    <2>1. f + nersary_heap_size <= tenured_space /\ tenured_space <= c
      BY <1>3 DEF HalvesApart
    <2>2. nersary_heap_size \in Nat /\ tenured_space \in Nat
      BY Layout
    <2> QED
      BY <1>3, <2>1, <2>2 DEF In, Old
  <1>8. WhiteCell(m, f, c) /\ c \notin Listed(m)
    <2>1. \A a \in Listed(m) : a < c
      BY <1>14 DEF Listed
    <2>2. WhiteCell(m, f, c)
      BY <1>3, <1>4, <1>6, <1>7 DEF CellOK
    <2> QED
      BY <1>3, <2>1, <2>2
  <1>9. Sound(n, f, t) /\ Grows(m, n, f, {c}) /\ Copies(m, n, f)
    BY <1>3, <1>6, <1>7, <1>8, CopyFieldsFacts DEF n
  <1>10. c < n.ttop /\ c \in DOMAIN n.heap /\ c \notin Listed(n)
    <2>1. n.ttop \in Nat /\ m.ttop <= n.ttop /\ n.rem = m.rem /\ DOMAIN m.heap \subseteq DOMAIN n.heap
      BY <1>9 DEF Sound, Typed, Grows
    <2> QED
      BY <1>1, <1>3, <1>6, <1>8, <2>1 DEF Listed
  <1>11. /\ Typed(p) /\ p.heap = n.heap
         /\ \A a \in DOMAIN n.heap : Alike(p.hdr[a], n.hdr[a])
    BY <1>7, <1>9, <1>10, RememberFacts DEF p
  <1>12. /\ Memory'.heap = n.heap
         /\ \A a \in DOMAIN n.heap : Memory'.hdr[a].forwarding = n.hdr[a].forwarding
    <2>1. heap' = p.heap /\ hdr' = p.hdr
      BY <1>1, <1>11, BecomesFacts
    <2>2. Memory'.heap = heap' /\ Memory'.hdr = hdr'
      BY DEF Memory
    <2> QED
      BY <1>11, <2>1, <2>2 DEF Alike
  <1>13. Copies(m, Memory', f)
    BY <1>9, <1>12, CopiesAlike
  <1>15. End(m, c) \in Nat /\ c < End(m, c)
    BY <1>3, <1>6, CellFacts
  <1> QED
    BY <1>1, <1>3, <1>5, <1>6, <1>7, <1>13, <1>15

\* A cell that is copied was two units of work and its copy is one.
LEMMA CountCopies ==
  ASSUME NEW m, NEW n, NEW f, Copies(m, n, f), IsFiniteSet(DOMAIN m.heap),
         NEW S, S \subseteq DOMAIN m.heap,
         NEW T, T \subseteq S \cup (DOMAIN n.heap \ DOMAIN m.heap),
         NEW u, u = Cardinality(Uncop(m, f)), NEW w, w = Cardinality(Uncop(n, f)),
         NEW x, x = Cardinality(S), NEW y, y = Cardinality(T)
  PROVE  u \in Nat /\ w \in Nat /\ x \in Nat /\ y \in Nat /\ 2 * w + y <= 2 * u + x
  <1> DEFINE U == Uncop(m, f)
             W == Uncop(n, f)
             G == U \ W
             N == T \ S
             h == [a \in N |-> CHOOSE v \in G : n.hdr[v].forwarding = a]
  <1>1. /\ W \subseteq U /\ U \subseteq DOMAIN m.heap
        /\ \A a \in DOMAIN n.heap \ DOMAIN m.heap : \E v \in G : n.hdr[v].forwarding = a
    BY DEF Copies, Counted, Uncop
  <1>2. h \in Injection(N, G)
    <2>1. \A a \in N : h[a] \in G /\ n.hdr[h[a]].forwarding = a
      BY <1>1
    <2>2. \A a, b \in N : h[a] = h[b] => a = b
      <3> HIDE DEF h, N, G
      <3> QED
        BY <2>1
    <2>3. h \in [N -> G]
      BY <2>1
    <2> QED
      BY <2>2, <2>3 DEF Injection, IsInjective
  <1>3. u = Cardinality(U) /\ w = Cardinality(W) /\ W = U \cap W /\ T \subseteq S \cup N
    BY <1>1
  <1> HIDE DEF U, W, N, h
  <1>4. IsFiniteSet(U) /\ IsFiniteSet(W) /\ IsFiniteSet(S)
    BY <1>1, FS_Subset
  <1>5. IsFiniteSet(G) /\ Cardinality(G) = u - w
    <2>1. IsFiniteSet(U \ W) /\ Cardinality(U \ W) = Cardinality(U) - Cardinality(U \cap W)
      BY <1>4, FS_Difference
    <2> QED
      BY <1>3, <2>1
  <1> HIDE DEF G
  <1>6. IsFiniteSet(N) /\ Cardinality(N) <= u - w
    BY <1>2, <1>5, FS_Injection
  <1>7. IsFiniteSet(S \cup N) /\ Cardinality(S \cup N) = x + Cardinality(N) - Cardinality(S \cap N)
    BY <1>4, <1>6, FS_Union
  <1>8. y <= Cardinality(S \cup N) /\ IsFiniteSet(T)
    <2>1. T \in SUBSET (S \cup N)
      BY <1>3
    <2> QED
      BY <1>7, <2>1, FS_Subset
  <1>9. IsFiniteSet(S \cap N)
    <2>1. S \cap N \in SUBSET S
      OBVIOUS
    <2> QED
      BY <1>4, <2>1, FS_Subset
  <1>10. /\ u \in Nat /\ w \in Nat /\ x \in Nat /\ y \in Nat /\ Cardinality(N) \in Nat
         /\ Cardinality(S \cap N) \in Nat /\ Cardinality(S \cup N) \in Nat
    BY <1>3, <1>4, <1>6, <1>7, <1>8, <1>9, FS_CardinalityType
  <1> DEFINE a == Cardinality(N)
             b == Cardinality(S \cap N)
             d == Cardinality(S \cup N)
  <1>11. a \in Nat /\ b \in Nat /\ d \in Nat /\ a <= u - w /\ d = x + a - b /\ y <= d
    BY <1>6, <1>7, <1>8, <1>10
  <1>12. w <= u
    BY <1>1, <1>3, <1>4, FS_Subset
  <1> HIDE DEF a, b, d
  <1> QED
    BY <1>10, <1>11, <1>12

LEMMA WorkDrops ==
  ASSUME IInv, pc \in Scanning, Copies(Memory, Memory', from_space), from_space' = from_space,
         prev_nersary_top' \in Nat, prev_nersary_top <= prev_nersary_top',
         prev_tenured_top' \in Nat, prev_tenured_top <= prev_tenured_top'
  PROVE  /\ WorkLeft \in Nat /\ WorkLeft' \in Nat /\ WorkLeft' <= WorkLeft
         /\ \A c \in Unscanned : c \notin Unscanned' => WorkLeft' < WorkLeft
  <1> DEFINE m == Memory
             n == Memory'
             f == from_space
             t == to_space
             S == Unscanned
             T == Unscanned'
  <1>1. /\ HalvesApart(f, t) /\ Sound(m, f, t) /\ Typed(m) /\ Tiled(m) /\ f \in Nat /\ t \in Nat
        /\ prev_nersary_top \in Nat /\ prev_tenured_top \in Nat /\ DOMAIN m.heap \subseteq Nat
    BY MinorFacts
  <1>2. IsFiniteSet(DOMAIN m.heap)
    BY <1>1, PartedPlaced, HeapFinite DEF Sound
  <1>3. /\ m.heap = heap /\ m.hdr = hdr /\ n.heap = heap' /\ n.hdr = hdr'
        /\ Copies(m, n, f)
    BY DEF Memory
  <1>4. Uncopied = Uncop(m, f) /\ Uncopied' = Uncop(n, f)
    BY <1>3 DEF Uncopied, Uncop, InFromSpace, In
  <1>5. S \subseteq DOMAIN m.heap
    BY <1>3 DEF Unscanned
  <1>6. T \subseteq S \cup (DOMAIN n.heap \ DOMAIN m.heap)
    <2> SUFFICES ASSUME NEW a \in T, a \in DOMAIN m.heap
                 PROVE  a \in S
      BY <1>3 DEF Unscanned
    <2>1. /\ a \in Nat
          /\ a >= prev_tenured_top' => a >= prev_tenured_top
          /\ a >= prev_nersary_top' => a >= prev_nersary_top
      BY <1>1
    <2> QED
      BY <1>3, <2>1 DEF Unscanned, InTenured, InFromSpace
  <1> DEFINE u == Cardinality(Uncop(m, f))
             w == Cardinality(Uncop(n, f))
             y == Cardinality(T)
             x == Cardinality(S)
  <1>7. /\ WorkLeft = 2 * u + x /\ WorkLeft' = 2 * w + y
    BY <1>4 DEF WorkLeft
  <1> HIDE DEF m, n, f, t, S, T
  <1>8. u \in Nat /\ w \in Nat /\ x \in Nat /\ y \in Nat /\ 2 * w + y <= 2 * u + x
    BY <1>2, <1>3, <1>5, <1>6, CountCopies
  <1>9. ASSUME NEW c \in S, c \notin T
        PROVE  2 * w + y < 2 * u + x
    <2> DEFINE R == S \ {c}
    <2>1. R \subseteq DOMAIN m.heap /\ T \subseteq R \cup (DOMAIN n.heap \ DOMAIN m.heap)
      BY <1>5, <1>6, <1>9
    <2>2. Cardinality(R) = x - 1
      BY <1>2, <1>5, FS_Subset, FS_RemoveElement
    <2> DEFINE z == Cardinality(R)
    <2> HIDE DEF R
    <2>3. z \in Nat /\ 2 * w + y <= 2 * u + z
      BY <1>2, <1>3, <2>1, CountCopies
    <2>4. z = x - 1
      BY <2>2
    <2> HIDE DEF u, w, x, y, z
    <2> QED
      BY <1>8, <2>3, <2>4
  <1>10. 2 * u + x \in Nat /\ 2 * w + y \in Nat
    <2> HIDE DEF u, w, x, y
    <2> QED
      BY <1>8
  <1> HIDE DEF u, w, x, y
  <1> QED
    BY <1>7, <1>8, <1>9, <1>10 DEF S, T

\* What each step of the minor collection does to the work.
LEMMA RootAdvances ==
  ASSUME IInv, CopyRoot
  PROVE  WorkLeft' <= WorkLeft /\ Unvisited' < Unvisited
  <1>1. /\ pc = "minor_roots" /\ k' = k + 1
        /\ UNCHANGED <<from_space, rem_index, prev_nersary_top, prev_tenured_top>>
    BY DEF CopyRoot, minorVars
  <1>2. pc \in Scanning
    BY <1>1 DEF Scanning
  <1>3. /\ k \in Nat /\ rem_index \in Nat /\ prev_nersary_top \in Nat /\ prev_tenured_top \in Nat
        /\ remembered_set \in Seq(Nat)
    BY MemoryRecord DEF IInv, Typing, Typed
  <1>4. Len(remembered_set') = Len(remembered_set) /\ Len(remembered_set) \in Nat
    <2>1. remembered_set' = remembered_set
      BY DEF CopyRoot, Becomes, Copied, copy_object, Memory
    <2> QED
      BY <1>3, <2>1
  <1>5. WorkLeft' <= WorkLeft
    BY <1>1, <1>2, <1>3, RootCopies, WorkDrops
  <1>6. Unvisited' < Unvisited
    BY <1>1, <1>3, <1>4, RootsAssumption DEF Unvisited
  <1> QED
    BY <1>5, <1>6

LEMMA RememberedAdvances ==
  ASSUME IInv, ScanRemembered
  PROVE  WorkLeft' <= WorkLeft /\ Unvisited' < Unvisited
  <1>1. /\ pc = "remembered" /\ rem_index' = rem_index + 1
        /\ UNCHANGED <<from_space, k, prev_nersary_top, prev_tenured_top>>
    BY DEF ScanRemembered
  <1>2. pc \in Scanning
    BY <1>1 DEF Scanning
  <1>3. /\ k \in Nat /\ rem_index \in Nat /\ prev_nersary_top \in Nat /\ prev_tenured_top \in Nat
        /\ remembered_set \in Seq(Nat)
    BY MemoryRecord DEF IInv, Typing, Typed
  <1>4. Len(remembered_set') = Len(remembered_set) /\ Len(remembered_set) \in Nat
    <2>1. remembered_set' = remembered_set
      BY RememberedCopies
    <2> QED
      BY <1>3, <2>1
  <1>5. WorkLeft' <= WorkLeft
    BY <1>1, <1>2, <1>3, RememberedCopies, WorkDrops
  <1>6. Unvisited' < Unvisited
    BY <1>1, <1>3, <1>4, RootsAssumption DEF Unvisited
  <1> QED
    BY <1>5, <1>6

LEMMA NersaryAdvances ==
  ASSUME IInv, ScanNersary
  PROVE  WorkLeft' < WorkLeft
  <1> DEFINE c == prev_nersary_top
  <1>1. pc = "scan_nersary" /\ UNCHANGED <<from_space, prev_tenured_top>>
    BY DEF ScanNersary
  <1>2. pc \in Scanning
    BY <1>1 DEF Scanning
  <1>3. /\ Copies(Memory, Memory', from_space) /\ c \in DOMAIN heap
        /\ ~In(from_space, c) /\ ~Old(c) /\ c' \in Nat /\ c < c'
    BY NersaryCopies
  <1>4. c \in Nat /\ prev_tenured_top \in Nat
    BY DEF IInv, Typing
  <1>5. c \in Unscanned
    BY <1>3, <1>4 DEF Unscanned, InTenured, InFromSpace, In, Old
  <1>6. c \notin Unscanned'
    BY <1>1, <1>3, <1>4 DEF Unscanned, InTenured, InFromSpace, In, Old
  <1>7. c <= c' /\ prev_tenured_top <= prev_tenured_top' /\ prev_tenured_top' \in Nat
    BY <1>1, <1>3, <1>4
  <1>8. \A d \in Unscanned : d \notin Unscanned' => WorkLeft' < WorkLeft
    BY <1>1, <1>2, <1>3, <1>7, WorkDrops
  <1> QED
    BY <1>5, <1>6, <1>8

LEMMA TenuredAdvances ==
  ASSUME IInv, ScanTenured
  PROVE  WorkLeft' < WorkLeft
  <1> DEFINE c == prev_tenured_top
  <1>1. pc = "scan_tenured" /\ UNCHANGED <<from_space, prev_nersary_top>>
    BY DEF ScanTenured
  <1>2. pc \in Scanning
    BY <1>1 DEF Scanning
  <1>3. /\ Copies(Memory, Memory', from_space) /\ c \in DOMAIN heap
        /\ Old(c) /\ c' \in Nat /\ c < c'
    BY TenuredCopies
  <1>4. c \in Nat /\ prev_nersary_top \in Nat
    BY DEF IInv, Typing
  <1>5. c \in Unscanned
    BY <1>3, <1>4 DEF Unscanned, InTenured, Old
  <1>6. c \notin Unscanned'
    BY <1>3, <1>4 DEF Unscanned, InTenured, Old
  <1>7. c <= c' /\ prev_nersary_top <= prev_nersary_top' /\ prev_nersary_top' \in Nat
    BY <1>1, <1>3, <1>4
  <1>8. \A d \in Unscanned : d \notin Unscanned' => WorkLeft' < WorkLeft
    BY <1>1, <1>2, <1>3, <1>7, WorkDrops
  <1> QED
    BY <1>5, <1>6, <1>8

\* Going on to the next part leaves the work as it is.
LEMMA NextPartAdvances ==
  ASSUME IInv, RootsCopied \/ ScanNext
  PROVE  pc' # pc /\ WorkLeft' <= WorkLeft
  <1>1. /\ pc' # pc /\ pc \in Scanning
        /\ UNCHANGED <<heap, hdr, from_space, prev_nersary_top, prev_tenured_top, nersary_top,
                       tenured_top, remembered_set>>
    BY DEF RootsCopied, ScanNext, genVars, Scanning
  <1>2. Memory' = Memory
    BY <1>1 DEF Memory
  <1>3. prev_nersary_top \in Nat /\ prev_tenured_top \in Nat
    BY DEF IInv, Typing
  <1>4. Copies(Memory, Memory', from_space)
    BY <1>2, CopiesSelf
  <1> QED
    BY <1>1, <1>3, <1>4, WorkDrops

LEMMA NextAdvances ==
  ASSUME IInv, Next, pc \in Scanning, pc' \in Scanning
  PROVE  \/ UNCHANGED vars
         \/ /\ WorkLeft' <= WorkLeft
            /\ pc' = pc /\ WorkLeft' = WorkLeft => Unvisited' < Unvisited
  <1>1. CASE CopyRoot \/ ScanRemembered
    BY <1>1, RootAdvances, RememberedAdvances
  <1>2. CASE ScanNersary \/ ScanTenured
    <2>1. prev_nersary_top \in Nat /\ prev_tenured_top \in Nat
      BY DEF IInv, Typing
    <2>2. WorkLeft' < WorkLeft
      BY <1>2, NersaryAdvances, TenuredAdvances
    <2>3. WorkLeft \in Nat /\ WorkLeft' \in Nat
      <3>1. CASE ScanNersary
        <4>1. Copies(Memory, Memory', from_space) /\ prev_nersary_top' \in Nat
              /\ prev_nersary_top < prev_nersary_top'
          BY <3>1, NersaryCopies
        <4>2. from_space' = from_space /\ prev_tenured_top' = prev_tenured_top
          BY <3>1 DEF ScanNersary
        <4>3. prev_nersary_top <= prev_nersary_top' /\ prev_tenured_top <= prev_tenured_top'
              /\ prev_tenured_top' \in Nat
          BY <2>1, <4>1, <4>2
        <4> QED
          BY <4>1, <4>2, <4>3, WorkDrops
      <3>2. CASE ScanTenured
        <4>1. Copies(Memory, Memory', from_space) /\ prev_tenured_top' \in Nat
              /\ prev_tenured_top < prev_tenured_top'
          BY <3>2, TenuredCopies
        <4>2. from_space' = from_space /\ prev_nersary_top' = prev_nersary_top
          BY <3>2 DEF ScanTenured
        <4>3. prev_nersary_top <= prev_nersary_top' /\ prev_tenured_top <= prev_tenured_top'
              /\ prev_nersary_top' \in Nat
          BY <2>1, <4>1, <4>2
        <4> QED
          BY <4>1, <4>2, <4>3, WorkDrops
      <3> QED
        BY <1>2, <3>1, <3>2
    <2> QED
      BY <2>2, <2>3
  <1>3. CASE RootsCopied \/ ScanNext
    BY <1>3, NextPartAdvances
  <1>4. /\ pc \notin {"run", "minor_done", "roots", "mark", "update", "slide", "retry"} \cup Ends
        /\ pc' \notin {"minor_done"}
    BY DEF Scanning, Ends
  <1>5. ~Mutator /\ \A r \in Requests : ~MallocFast(r) /\ ~GCStart(r)
    BY <1>4 DEF Mutator, MallocFast, GCStart
  <1>6. ~Swap /\ ~MajorOrNot /\ ~MallocRetry /\ ~Exhausted /\ ~Terminated
    BY <1>4 DEF Swap, MajorOrNot, MallocRetry, Exhausted, Terminated
  <1>7. ~MarkPhase
    BY <1>4 DEF MarkPhase, MarkRoot, RootsMarked, MarkNext
  <1>8. ~calc_new_address /\ ~update_pointer
    BY <1>4 DEF calc_new_address, Marked, update_pointer
  <1>9. ~SlideCell /\ ~SlideDead /\ ~SlideEnd /\ ~SlideEndHurts
    BY <1>4 DEF SlideCell, SlideDead, SlideEnd, SlideEndHurts, SlideDone
  <1> QED
    BY <1>1, <1>2, <1>3, <1>5, <1>6, <1>7, <1>8, <1>9 DEF Next, Collector

\* A minor collection comes to its end: each root, remembered cell or copy it
\* visits leaves less to do, however many cells a heap of any size holds, since
\* a cell is copied once and each copy is scanned once.
THEOREM MinorCollectionAdvances ==
  ASSUME ~TenuredRedefined
  PROVE  Spec => CollectionAdvances
  <1>1. Spec => []IInv
    BY Invariance
  <1>2. IInv /\ [Next]_vars =>
          [/\ pc \in Scanning /\ pc' \in Scanning => WorkLeft' <= WorkLeft
           /\ pc \in Scanning /\ pc' = pc /\ WorkLeft' = WorkLeft => Unvisited' < Unvisited]_vars
    BY NextAdvances
  <1> QED
    BY <1>1, <1>2, PTL DEF Spec, CollectionAdvances

-----------------------------------------------------------------------------
(* The abstract memory. *)

Body(o) == [type |-> o.type, car |-> o.car, cdr |-> o.cdr]

\* What is left of o when its fields have been updated.
UpdatedBody(o) == [type |-> o.type, car |-> Updated(o.car), cdr |-> Updated(o.cdr)]

\* No collection is half way, as far as the program can see.
Plain == pc \notin Scanning \cup {"update", "slide", "corrupted", "set_full"}

LEMMA PlainView ==
  Plain => /\ absRoot = [i \in Roots |-> root[i]]
           /\ absObjs = [a \in DOMAIN heap |-> Body(heap[a])]
  <1> SUFFICES ASSUME Plain
               PROVE  /\ absRoot = [i \in Roots |-> root[i]]
                      /\ absObjs = [a \in DOMAIN heap |-> Body(heap[a])]
    OBVIOUS
  <1>1. ~InMinor /\ ~Resettling /\ pc # "update"
    BY DEF Plain, InMinor, Resettling, Scanning
  <1>2. \A v : View(v) = v
    BY <1>1 DEF View
  <1>3. \A a : Viewed(a) = Body(heap[a])
    BY <1>1, <1>2 DEF Viewed, Body
  <1> QED
    BY <1>1, <1>2, <1>3 DEF absRoot, absObjs, Originals

LEMMA MinorView ==
  InMinor => /\ absRoot = [i \in Roots |-> Stands(Memory, from_space, root[i])]
             /\ absObjs = [a \in DOMAIN heap \ Homes(Memory, from_space)
                             |-> Look(Memory, from_space, a)]
  <1> DEFINE m == Memory
             f == from_space
  <1> SUFFICES ASSUME InMinor
               PROVE  /\ absRoot = [i \in Roots |-> Stands(m, f, root[i])]
                      /\ absObjs = [a \in DOMAIN heap \ Homes(m, f) |-> Look(m, f, a)]
    OBVIOUS
  <1>1. ~Resettling /\ pc # "update"
    BY DEF InMinor, Resettling
  <1>2. m.heap = heap /\ m.hdr = hdr
    BY MemoryRecord
  <1>3. \A a : InFromSpace(a) <=> In(f, a)
    BY DEF InFromSpace, In
  <1>10. f = from_space
    OBVIOUS
  <1> HIDE DEF m, f
  <1>4. CopiedCells = Gone(m, f)
    BY <1>2, <1>3 DEF CopiedCells, Gone
  <1>5. \A v : View(v) = Stands(m, f, v)
    <2> TAKE v
    <2>1. (CHOOSE a : a \in CopiedCells /\ hdr[a].forwarding = v)
            = (CHOOSE a : a \in Gone(m, f) /\ m.hdr[a].forwarding = v)
      BY <1>2, <1>4
    <2> QED
      BY <1>1, <1>2, <1>4, <2>1 DEF View, Original, Stands
  <1>6. \A a : Viewed(a) = Look(m, f, a)
    <2> TAKE a
    <2>1. CASE In(f, a)
      BY <1>2, <1>3, <2>1 DEF Viewed, Look
    <2>2. CASE ~In(f, a)
      BY <1>2, <1>3, <1>5, <2>2 DEF Viewed, Look
    <2> QED
      BY <2>1, <2>2
  <1>7. Originals = DOMAIN heap \ Homes(m, f)
    BY <1>2, <1>4 DEF Originals, Homes
  <1> QED
    BY <1>1, <1>5, <1>6, <1>7 DEF absRoot, absObjs

LEMMA SlideView ==
  pc = "slide" \/ pc = "corrupted" \/ (pc = "set_full" /\ marked # {}) =>
    /\ absRoot = [i \in Roots |-> root[i]]
    /\ absObjs = [b \in {Home(a) : a \in Survivors}
                    |-> Body(heap[CHOOSE a \in Survivors : Home(a) = b])]
  <1> SUFFICES ASSUME pc = "slide" \/ pc = "corrupted" \/ (pc = "set_full" /\ marked # {})
               PROVE  /\ absRoot = [i \in Roots |-> root[i]]
                      /\ absObjs = [b \in {Home(a) : a \in Survivors}
                                      |-> Body(heap[CHOOSE a \in Survivors : Home(a) = b])]
    OBVIOUS
  <1>1. ~InMinor /\ Resettling /\ pc # "update"
    BY DEF InMinor, Resettling
  <1>2. \A v : View(v) = v
    BY <1>1 DEF View
  <1>3. \A a : Viewed(a) = Body(heap[a])
    BY <1>1, <1>2 DEF Viewed, Body
  <1> QED
    BY <1>1, <1>2, <1>3 DEF absRoot, absObjs

LEMMA UpdateView ==
  pc = "update" =>
    /\ absRoot = [i \in Roots |-> Updated(root[i])]
    /\ absObjs = [b \in {Home(a) : a \in Survivors}
                    |-> UpdatedBody(heap[CHOOSE a \in Survivors : Home(a) = b])]
  <1> SUFFICES ASSUME pc = "update"
               PROVE  /\ absRoot = [i \in Roots |-> Updated(root[i])]
                      /\ absObjs = [b \in {Home(a) : a \in Survivors}
                                      |-> UpdatedBody(heap[CHOOSE a \in Survivors : Home(a) = b])]
    OBVIOUS
  <1>1. ~InMinor /\ Resettling
    BY DEF InMinor, Resettling
  <1>2. \A v : View(v) = Updated(v)
    BY DEF View, Updated
  <1>3. \A a : Viewed(a) = UpdatedBody(heap[a])
    BY <1>1, <1>2 DEF Viewed, UpdatedBody
  <1> QED
    BY <1>1, <1>2, <1>3 DEF absRoot, absObjs

-----------------------------------------------------------------------------
(* The copies of a minor collection. *)

CInv == pc \in Scanning => CopyInv(Memory, from_space)

\* Nothing is copied when it begins.
LEMMA StartCopies ==
  ASSUME IInv, NEW r \in Requests, GCStart(r)
  PROVE  /\ CopyInv(Memory', from_space) /\ from_space' = from_space
         /\ Gone(Memory', from_space) = {} /\ Homes(Memory', from_space) = {}
  <1> DEFINE m == Memory
             n == Memory'
             f == from_space
  <1>1. pc = "run" /\ from_space' = from_space /\ n.heap = m.heap /\ n.hdr = m.hdr
    BY DEF GCStart, Memory
  <1>2. AtHome(m) /\ ClosedFromRoots(DOMAIN m.heap)
    <2>1. AtRest
      BY <1>1 DEF AtRest
    <2> QED
      BY <2>1, RestFacts
  <1>3. m.heap = heap
    BY MemoryRecord
  <1> HIDE DEF m, n
  <1>4. Gone(n, f) = {}
    BY <1>1, <1>2 DEF Gone, AtHome
  <1>5. Homes(n, f) = {}
    BY <1>4 DEF Homes
  <1>6. Paired(n, f) /\ Faithful(n, f) /\ Untouched(n, f)
    BY <1>4, <1>5 DEF Paired, Faithful, Untouched
  <1>7. Whole(n)
    BY <1>1, <1>2, <1>3 DEF Whole, ClosedFromRoots
  <1> QED
    BY <1>1, <1>4, <1>5, <1>6, <1>7 DEF CopyInv, n

LEMMA CInvNext ==
  ASSUME IInv, CInv, [Next]_vars
  PROVE  CInv'
  <1>1. CASE CopyRoot \/ ScanRemembered \/ ScanNersary \/ ScanTenured
    <2>1. Copies(Memory, Memory', from_space)
      BY <1>1, RootCopies, RememberedCopies, NersaryCopies, TenuredCopies
    <2>2. pc \in Scanning /\ from_space' = from_space
      BY <1>1 DEF CopyRoot, ScanRemembered, ScanNersary, ScanTenured, minorVars, Scanning
    <2> QED
      BY <2>1, <2>2 DEF CInv, Copies
  <1>2. CASE RootsCopied \/ ScanNext \/ UNCHANGED vars
    <2>1. /\ UNCHANGED <<heap, hdr, from_space, nersary_top, tenured_top, remembered_set>>
          /\ pc' \in Scanning => pc \in Scanning
      BY <1>2 DEF RootsCopied, ScanNext, genVars, vars, Scanning
    <2>2. Memory' = Memory
      BY <2>1 DEF Memory
    <2> QED
      BY <2>1, <2>2 DEF CInv
  <1>3. ASSUME NEW r \in Requests, GCStart(r)
        PROVE  CInv'
    BY <1>3, StartCopies DEF CInv
  <1>4. ASSUME pc' \notin Scanning
        PROVE  CInv'
    BY <1>4 DEF CInv
  <1>5. CASE Mutator
    <2>1. ASSUME NEW i \in Roots, NEW j \in Roots, RedefineWithBarrier(i, j), pc = "run"
          PROVE  pc' \in {"run", "set_full"}
      <3>1. PICK m : Becomes(m, pc)
        BY <2>1 DEF RedefineWithBarrier
      <3> QED
        BY <2>1, <3>1 DEF Becomes
    <2>2. ASSUME NEW i \in Roots, NEW v \in Held, Assign(i, v), pc = "run"
          PROVE  pc' = "run"
      BY <2>2 DEF Assign
    <2>3. ASSUME NEW i \in Roots, NEW j \in Roots, BarrierFaults(i, j)
          PROVE  pc' = "faulted"
      BY <2>3 DEF BarrierFaults
    <2>4. pc' \in {"run", "set_full", "faulted"}
      BY <1>5, <2>1, <2>2, <2>3 DEF Mutator
    <2> QED
      BY <1>4, <2>4 DEF Scanning
  <1>6. ASSUME NEW r \in Requests, MallocFast(r)
        PROVE  CInv'
    BY <1>4, <1>6 DEF MallocFast, Allocate, Scanning
  <1>7. CASE Swap \/ MajorOrNot \/ MallocRetry \/ Exhausted
    BY <1>4, <1>7 DEF Swap, MajorOrNot, MallocRetry, Exhausted, Allocate, Scanning
  <1>8. CASE MarkPhase
    BY <1>4, <1>8 DEF MarkPhase, MarkRoot, RootsMarked, MarkNext, MarkTo, Scanning
  <1>9. CASE calc_new_address \/ update_pointer \/ SlideEnd \/ SlideEndHurts
    BY <1>4, <1>9 DEF calc_new_address, update_pointer, SlideEnd, SlideEndHurts, Scanning
  <1>10. CASE SlideCell \/ SlideDead
    <2>1. pc' \in {"slide", "set_full"}
      BY <1>10 DEF SlideCell, SlideDead, Becomes
    <2> QED
      BY <1>4, <2>1 DEF Scanning
  <1> QED
    BY <1>1, <1>2, <1>3, <1>5, <1>6, <1>7, <1>8, <1>9, <1>10 DEF Next, Collector, Terminated

\* A minor collection is not seen until it is over: a slot that refers to a copy
\* already stands for the original.
LEMMA ViewStays ==
  ASSUME InMinor, InMinor', CopyInv(Memory, from_space),
         Copies(Memory, Memory', from_space), from_space' = from_space,
         \A i \in Roots : Stands(Memory', from_space, root'[i]) = Stands(Memory, from_space, root[i])
  PROVE  UNCHANGED <<absRoot, absObjs>>
  <1> DEFINE m == Memory
             n == Memory'
             f == from_space
  <1>1. /\ absRoot = [i \in Roots |-> Stands(m, f, root[i])]
        /\ absObjs = [a \in DOMAIN m.heap \ Homes(m, f) |-> Look(m, f, a)]
    BY MinorView, MemoryRecord
  <1>2. /\ absRoot' = [i \in Roots |-> Stands(n, f, root'[i])]
        /\ absObjs' = [a \in DOMAIN n.heap \ Homes(n, f) |-> Look(n, f, a)]
    <2>1. (InMinor => /\ absRoot = [i \in Roots |-> Stands(Memory, from_space, root[i])]
                      /\ absObjs = [a \in DOMAIN heap \ Homes(Memory, from_space)
                                      |-> Look(Memory, from_space, a)])'
      BY MinorView, PTL
    <2>2. n.heap = heap'
      BY DEF Memory
    <2> QED
      BY <2>1, <2>2
  <1>3. SameView(m, n, f)
    BY DEF Copies
  <1>5. \A i \in Roots : Stands(n, f, root'[i]) = Stands(m, f, root[i])
    OBVIOUS
  <1> HIDE DEF m, n, f
  <1>4. absRoot' = absRoot
    BY <1>1, <1>2, <1>5
  <1> QED
    BY <1>1, <1>2, <1>3, <1>4 DEF SameView

LEMMA CopyingStutters ==
  ASSUME IInv, CInv, CopyRoot \/ ScanRemembered \/ ScanNersary \/ ScanTenured
  PROVE  UNCHANGED <<absRoot, absObjs>>
  <1> DEFINE m == Memory
             n == Memory'
             f == from_space
             t == to_space
  <1>1. pc \in Scanning /\ from_space' = from_space
    BY DEF CopyRoot, ScanRemembered, ScanNersary, ScanTenured, minorVars, Scanning
  <1>2. /\ HalvesApart(f, t) /\ Sound(m, f, t) /\ FromWhite(m, f) /\ m.full = FALSE
        /\ Minor /\ Typing /\ StateOK
    BY <1>1, MinorFacts DEF IInv
  <1>3. CopyInv(m, f) /\ Copies(m, n, f)
    BY <1>1, RootCopies, RememberedCopies, NersaryCopies, TenuredCopies DEF CInv
  <1>4. InMinor /\ InMinor'
    <2>1. marked = {}
      BY <1>1, <1>2 DEF StateOK
    <2>2. CASE CopyRoot
      BY <2>1, <2>2 DEF CopyRoot, Becomes, InMinor
    <2>3. CASE ScanRemembered
      BY <2>1, <2>3 DEF ScanRemembered, Becomes, InMinor
    <2>4. CASE ScanNersary
      BY <2>1, <2>4 DEF ScanNersary, Becomes, InMinor
    <2>5. CASE ScanTenured
      BY <2>1, <2>5 DEF ScanTenured, Becomes, InMinor
    <2> QED
      BY <2>2, <2>3, <2>4, <2>5
  <1>5. \A i \in Roots : White(m, f, root[i]) \/ Black(m, f, root[i])
    BY <1>2 DEF Minor, Colours
  <1>6. \A v : (CELL_P(v) => v \in DOMAIN m.heap) => Stands(n, f, v) = Stands(m, f, v)
    BY <1>3 DEF Copies, SameView
  <1>7. \A i \in Roots : Stands(n, f, root[i]) = Stands(m, f, root[i])
    <2>1. \A i \in Roots : CELL_P(root[i]) => root[i] \in DOMAIN m.heap
      BY <1>5 DEF White, Black
    <2> HIDE DEF m, n, f
    <2> QED
      BY <1>6, <2>1
  <1>8. ASSUME CopyRoot
        PROVE  \A i \in Roots : Stands(n, f, root'[i]) = Stands(m, f, root[i])
    <2> DEFINE v == root[k]
               p == Copied(m, v)
    <2>1. pc = "minor_roots" /\ k <= NRoots /\ Becomes(p, pc)
          /\ root' = [root EXCEPT ![k] = CopyOf(p, root[k])]
      BY <1>8 DEF CopyRoot
    <2>2. k \in Roots /\ k \in Nat /\ v \in Value /\ root \in [Roots -> Value]
      BY <1>2, <2>1, RootsAssumption DEF Typing, Roots
    <2>3. \A i \in Roots : IF i >= k THEN White(m, f, root[i]) ELSE Black(m, f, root[i])
      BY <1>2, <2>1 DEF Minor, Colours
    <2>4. White(m, f, v)
      BY <2>2, <2>3
    <2>5. v = root[k] /\ n = Memory'
      OBVIOUS
    <2> HIDE DEF m, n, f, t, v, p
    <2>6. /\ Sound(p, f, t) /\ Grows(m, p, f, {}) /\ FromWhite(p, f)
          /\ CopyOf(p, v) \in Value /\ Black(p, f, CopyOf(p, v))
      BY <1>2, <2>2, <2>4, CopiedFacts DEF p
    <2>7. Typed(p) /\ p.full = FALSE
      BY <1>2, <2>6 DEF Sound, Grows
    <2>8. p = n
      BY <2>1, <2>5, <2>7, BecomesFacts
    <2>9. White(p, f, v)
      BY <2>4, <2>6 DEF Grows, White
    <2>10. CopyInv(p, f)
      BY <1>3, <2>8 DEF Copies
    <2>11. MayReplace(p, f, CopyOf(p, v), v)
      BY <1>2, <2>6, <2>9, <2>10, CopyReplaces
    <2>12. Stands(n, f, CopyOf(p, v)) = Stands(m, f, root[k])
      BY <1>7, <2>2, <2>5, <2>8, <2>11 DEF MayReplace
    <2> QED
      BY <1>7, <2>1, <2>2, <2>5, <2>12
  <1>9. \A i \in Roots : Stands(n, f, root'[i]) = Stands(m, f, root[i])
    <2>1. CASE ScanRemembered \/ ScanNersary \/ ScanTenured
      <3>1. root' = root
        BY <2>1 DEF ScanRemembered, ScanNersary, ScanTenured
      <3> QED
        BY <1>7, <3>1
    <2> QED
      BY <1>8, <2>1
  <1> QED
    BY <1>1, <1>3, <1>4, <1>9, ViewStays

LEMMA StartStutters ==
  ASSUME IInv, NEW r \in Requests, GCStart(r)
  PROVE  UNCHANGED <<absRoot, absObjs>>
  <1> DEFINE n == Memory'
             f == from_space
  <1>1. pc = "run" /\ pc' = "minor_roots" /\ root' = root /\ heap' = heap
    BY DEF GCStart
  <1>2. /\ absRoot = [i \in Roots |-> root[i]]
        /\ absObjs = [a \in DOMAIN heap |-> Body(heap[a])]
    BY <1>1, PlainView DEF Plain, Scanning
  <1>3. /\ absRoot' = [i \in Roots |-> Stands(n, f, root[i])]
        /\ absObjs' = [a \in DOMAIN heap \ Homes(n, f) |-> Look(n, f, a)]
    <2>1. (InMinor => /\ absRoot = [i \in Roots |-> Stands(Memory, from_space, root[i])]
                      /\ absObjs = [a \in DOMAIN heap \ Homes(Memory, from_space)
                                      |-> Look(Memory, from_space, a)])'
      BY MinorView, PTL
    <2>2. InMinor' /\ from_space' = from_space
      BY <1>1, StartCopies DEF InMinor
    <2> QED
      BY <1>1, <2>1, <2>2
  <1>4. Gone(n, f) = {} /\ Homes(n, f) = {} /\ n.heap = heap
    BY <1>1, StartCopies DEF Memory
  <1> HIDE DEF n, f
  <1>5. \A v : Stands(n, f, v) = v
    BY <1>4 DEF Stands
  <1>6. \A a : Look(n, f, a) = Body(heap[a])
    <2> TAKE a
    <2>1. CASE In(f, a)
      BY <1>4, <2>1 DEF Look, Body
    <2>2. CASE ~In(f, a)
      BY <1>4, <1>5, <2>2 DEF Look, Body
    <2> QED
      BY <2>1, <2>2
  <1> QED
    BY <1>2, <1>3, <1>4, <1>5, <1>6

-----------------------------------------------------------------------------
(* The collections of the abstract memory. *)

LEMMA PlainClosed ==
  Plain /\ ClosedFromRoots(DOMAIN heap) => ObjMemory!Closed
  <1> SUFFICES ASSUME Plain, ClosedFromRoots(DOMAIN heap) PROVE ObjMemory!Closed
    OBVIOUS
  <1>1. /\ \A i \in Roots : absRoot[i] = root[i]
        /\ DOMAIN absObjs = DOMAIN heap
        /\ \A a \in DOMAIN heap : absObjs[a] = Body(heap[a])
    BY PlainView
  <1>2. \A a \in DOMAIN heap : ObjMemory!Fields(absObjs[a]) = Fields(heap[a])
    BY <1>1 DEF ObjMemory!Fields, Fields, Body
  <1> QED
    BY <1>1, <1>2 DEF ObjMemory!Closed, ObjMemory!IsCell, ClosedFromRoots, CELL_P

\* After the step the cell at c is the one that was at from[c].
Carries(from) ==
  /\ from \in [DOMAIN absObjs' -> DOMAIN absObjs]
  /\ \A b, c \in DOMAIN absObjs' : from[b] = from[c] => b = c
  /\ \A c \in DOMAIN absObjs' :
       LET o == absObjs'[c] IN
       /\ o = [type |-> o.type, car |-> o.car, cdr |-> o.cdr]
       /\ absObjs[from[c]] = [type |-> o.type, car |-> ObjMemory!Renamed(from, o.car),
                              cdr |-> ObjMemory!Renamed(from, o.cdr)]
  /\ \A i \in Roots : absRoot[i] = ObjMemory!Renamed(from, absRoot'[i])

LEMMA Collects ==
  ASSUME NEW from, Carries(from), ObjMemory!Closed', absObjs' # absObjs
  PROVE  ObjMemory!Collect
  <1>1. ASSUME NEW c \in DOMAIN absObjs'
        PROVE  absObjs[from[c]] = [absObjs'[c] EXCEPT !.car = ObjMemory!Renamed(from, @),
                                                      !.cdr = ObjMemory!Renamed(from, @)]
    <2> DEFINE q == absObjs'[c]
               s == absObjs[from[c]]
               u == q.type
               v == q.car
               w == q.cdr
               x == ObjMemory!Renamed(from, v)
               y == ObjMemory!Renamed(from, w)
    <2>1. q = [type |-> u, car |-> v, cdr |-> w] /\ s = [type |-> u, car |-> x, cdr |-> y]
      BY DEF Carries
    <2>2. ObjMemory!Renamed(from, q.car) = x /\ ObjMemory!Renamed(from, q.cdr) = y
      OBVIOUS
    <2> HIDE DEF q, s, x, y, u, v, w
    <2>3. [q EXCEPT !.car = x, !.cdr = y] = s
      <3> DEFINE S == {u, v, w, x, y}
                 r == [q EXCEPT !.car = x, !.cdr = y]
      <3>1. r \in [type : S, car : S, cdr : S] /\ s \in [type : S, car : S, cdr : S]
        BY <2>1
      <3>2. r.type = s.type /\ r.car = s.car /\ r.cdr = s.cdr
        BY <2>1
      <3> HIDE DEF r, S
      <3>3. r = s
        BY <3>1, <3>2
      <3> QED
        BY <3>3 DEF r
    <2>4. [q EXCEPT !.car = ObjMemory!Renamed(from, @), !.cdr = ObjMemory!Renamed(from, @)] = s
      BY <2>2, <2>3
    <2> QED
      BY <2>4 DEF q, s
  <1>2. ObjMemory!IsInjective(from) /\ from \in [DOMAIN absObjs' -> DOMAIN absObjs]
    BY DEF ObjMemory!IsInjective, Carries
  <1>3. \A i \in Roots : absRoot[i] = ObjMemory!Renamed(from, absRoot'[i])
    BY DEF Carries
  <1>4. ObjMemory!Relocate(from)
    BY <1>1, <1>2, <1>3, Zenon DEF ObjMemory!Relocate
  <1> QED
    BY <1>2, <1>4 DEF ObjMemory!Collect

\* When the halves of the nursery are swapped, each copy takes the place of its
\* original.
LEMMA SwapCollects ==
  ASSUME IInv, IInv', CInv, Swap
  PROVE  ObjMemory!Collect \/ UNCHANGED <<absRoot, absObjs>>
  <1> DEFINE m == Memory
             f == from_space
             t == to_space
             C == {a \in DOMAIN m.heap : ~In(f, a)}
             from == [c \in C |-> Stands(m, f, c)]
             P(c) == m.heap[c]
  <1>1. /\ pc = "scan_tenured" /\ pc' = "minor_done" /\ root' = root
        /\ heap' = [a \in C |-> m.heap[a]]
    BY DEF Swap, Memory, In, InFromSpace
  <1>2. pc \in Scanning /\ InMinor /\ Plain'
    BY <1>1 DEF Scanning, InMinor, Plain
  <1>3. /\ Sound(m, f, t) /\ Typed(m) /\ DOMAIN m.heap \subseteq Nat /\ m.heap = heap
        /\ HalvesApart(f, t)
    BY <1>2, MinorFacts
  <1>4. CopyInv(m, f) /\ Forwarded(m, f)
    BY <1>2, <1>3 DEF CInv, Sound
  <1>5. /\ \A i \in Roots : absRoot[i] = Stands(m, f, root[i])
        /\ absRoot = [i \in Roots |-> Stands(m, f, root[i])]
        /\ absObjs = [a \in DOMAIN m.heap \ Homes(m, f) |-> Look(m, f, a)]
    BY <1>2, <1>3, MinorView
  <1>6. /\ absRoot' = [i \in Roots |-> root[i]]
        /\ absObjs' = [a \in C |-> Body(m.heap[a])]
    <2>1. (Plain => /\ absRoot = [i \in Roots |-> root[i]]
                    /\ absObjs = [a \in DOMAIN heap |-> Body(heap[a])])'
      BY PlainView, PTL
    <2> QED
      BY <1>1, <1>2, <2>1
  <1>7. ClosedFromRoots(DOMAIN heap)'
    BY <1>1 DEF IInv, AtRest, Resting
  <1>8. ObjMemory!Closed'
    BY <1>2, <1>7, PlainClosed, PTL
  <1>9. /\ \A i \in Roots : CELL_P(root[i]) => root[i] \in C
        /\ \A c \in C : \A v \in Fields(P(c)) : CELL_P(v) => v \in C
    BY <1>1, <1>7 DEF ClosedFromRoots
  <1> HIDE DEF m, f, t, C
  <1>10. C = {a \in DOMAIN m.heap : ~In(f, a)} /\ C \subseteq DOMAIN m.heap
    BY DEF C
  <1>11. Gone(m, f) \subseteq DOMAIN m.heap /\ \A a \in Gone(m, f) : In(f, a) /\ m.hdr[a].forwarding # a
    BY DEF Gone
  <1>12. \A a \in Gone(m, f) : m.hdr[a].forwarding \in C
    BY <1>4, <1>10, <1>11 DEF Forwarded
  <1>13. Homes(m, f) \subseteq C
    BY <1>12 DEF Homes
  <1>14. \A c \in C : CELL_P(c)
    BY <1>3, <1>10, ImmAssumption DEF CELL_P
  <1>15. ASSUME NEW c \in C
         PROVE  \/ /\ c \notin Homes(m, f) /\ from[c] = c /\ ~In(f, c)
                \/ /\ c \in Homes(m, f) /\ from[c] \in Gone(m, f)
                   /\ m.hdr[from[c]].forwarding = c
    <2>1. from[c] = Stands(m, f, c)
      OBVIOUS
    <2>2. CASE c \notin Homes(m, f)
      <3>1. Stands(m, f, c) = c
        BY <1>4, <2>2, StandsFacts DEF CopyInv
      <3> QED
        BY <1>10, <2>1, <2>2, <3>1
    <2>3. CASE c \in Homes(m, f)
      <3>1. PICK a \in Gone(m, f) : c = m.hdr[a].forwarding
        BY <2>3 DEF Homes
      <3>2. Stands(m, f, c) = a
        BY <1>4, <1>14, <3>1, StandsFacts DEF CopyInv
      <3> QED
        BY <2>1, <2>3, <3>1, <3>2
    <2> QED
      BY <2>2, <2>3
  <1>16. DOMAIN from = C /\ \A c \in C : from[c] = Stands(m, f, c)
    OBVIOUS
  <1>22. from = [c \in C |-> from[c]]
    OBVIOUS
  <1> HIDE DEF from
  <1>17. \A w : (CELL_P(w) => w \in C) => ObjMemory!Renamed(from, w) = Stands(m, f, w)
    <2>1. \A w : ~CELL_P(w) => Stands(m, f, w) = w
      BY <1>4, StandsFacts DEF CopyInv
    <2> QED
      BY <1>16, <2>1 DEF ObjMemory!Renamed, ObjMemory!IsCell, CELL_P
  <1>18. ASSUME NEW c \in C
         PROVE  /\ from[c] \in DOMAIN m.heap \ Homes(m, f)
                /\ Look(m, f, from[c]) = [type |-> P(c).type, car |-> Stands(m, f, P(c).car),
                                          cdr |-> Stands(m, f, P(c).cdr)]
    <2>1. CASE c \notin Homes(m, f) /\ from[c] = c /\ ~In(f, c)
      BY <1>10, <2>1 DEF Look
    <2>2. CASE /\ c \in Homes(m, f) /\ from[c] \in Gone(m, f)
               /\ m.hdr[from[c]].forwarding = c
      <3> DEFINE a == from[c]
      <3>1. In(f, a) /\ a \in DOMAIN m.heap /\ a \notin C
        BY <1>10, <1>11, <2>2
      <3>2. /\ m.heap[c].type = m.heap[a].type
            /\ Stands(m, f, m.heap[c].car) = m.heap[a].car
            /\ Stands(m, f, m.heap[c].cdr) = m.heap[a].cdr
        BY <1>4, <2>2 DEF CopyInv, Faithful
      <3>3. Look(m, f, a) = [type |-> m.heap[a].type, car |-> m.heap[a].car, cdr |-> m.heap[a].cdr]
        BY <3>1 DEF Look
      <3> QED
        BY <1>13, <3>1, <3>2, <3>3
    <2> QED
      BY <1>15, <2>1, <2>2
  <1>19. \A b, c \in C : from[b] = from[c] => b = c
    BY <1>10, <1>11, <1>15
  <1>20. CASE absObjs' # absObjs
    <2>1. DOMAIN absObjs' = C /\ DOMAIN absObjs = DOMAIN m.heap \ Homes(m, f)
      BY <1>5, <1>6
    <2>2. from \in [DOMAIN absObjs' -> DOMAIN absObjs]
      BY <1>18, <1>22, <2>1
    <2>3. ASSUME NEW c \in C
          PROVE  LET o == absObjs'[c] IN
                 /\ o = [type |-> o.type, car |-> o.car, cdr |-> o.cdr]
                 /\ absObjs[from[c]] = [type |-> o.type, car |-> ObjMemory!Renamed(from, o.car),
                                        cdr |-> ObjMemory!Renamed(from, o.cdr)]
      <3>1. absObjs'[c] = [type |-> P(c).type, car |-> P(c).car, cdr |-> P(c).cdr]
        BY <1>6 DEF Body
      <3>2. absObjs[from[c]] = Look(m, f, from[c])
        BY <1>5, <1>18
      <3>3. \A v \in {P(c).car, P(c).cdr} : CELL_P(v) => v \in C
        BY <1>9 DEF Fields
      <3>4. /\ ObjMemory!Renamed(from, P(c).car) = Stands(m, f, P(c).car)
            /\ ObjMemory!Renamed(from, P(c).cdr) = Stands(m, f, P(c).cdr)
        BY <1>17, <3>3
      <3>5. Look(m, f, from[c]) = [type |-> P(c).type, car |-> Stands(m, f, P(c).car),
                                   cdr |-> Stands(m, f, P(c).cdr)]
        BY <1>18
      <3> QED
        BY <3>1, <3>2, <3>4, <3>5
    <2>4. \A i \in Roots : absRoot[i] = ObjMemory!Renamed(from, absRoot'[i])
      BY <1>5, <1>6, <1>9, <1>17
    <2>5. Carries(from)
      BY <1>19, <2>1, <2>2, <2>3, <2>4 DEF Carries
    <2> QED
      BY <1>8, <1>20, <2>5, Collects
  <1>21. CASE absObjs' = absObjs
    <2>1. C = DOMAIN m.heap \ Homes(m, f)
      BY <1>5, <1>6, <1>21
    <2>2. Gone(m, f) = {}
      BY <1>10, <1>11, <1>13, <2>1
    <2>3. \A v : Stands(m, f, v) = v
      BY <2>2 DEF Stands
    <2> QED
      BY <1>5, <1>6, <1>21, <2>3
  <1> QED
    BY <1>20, <1>21

\* When the new addresses are settled, the memory is made of the marked cells,
\* each at its new address.
Planned ==
  /\ \A a \in marked \cap DOMAIN heap :
       /\ hdr[a].forwarding \in Nat /\ hdr[a].forwarding <= a
       /\ Home(a) = hdr[a].forwarding
       /\ \A b \in marked \cap DOMAIN heap : hdr[a].forwarding = hdr[b].forwarding => a = b
  /\ Survivors = marked \cap DOMAIN heap
  /\ DOMAIN absObjs = {hdr[a].forwarding : a \in marked \cap DOMAIN heap}
  /\ \A a \in marked \cap DOMAIN heap : absObjs[hdr[a].forwarding] = UpdatedBody(heap[a])
  /\ absRoot = [i \in Roots |-> Updated(root[i])]
  /\ ClosedFromRoots(marked \cap DOMAIN heap)

LEMMA UpdateFacts == IInv /\ pc = "update" => Planned
  <1> DEFINE S == marked \cap DOMAIN heap
             M == Tenured \cap marked
             m == Memory
  <1> SUFFICES ASSUME IInv, pc = "update"
               PROVE  /\ \A a \in S :
                           /\ hdr[a].forwarding \in Nat /\ hdr[a].forwarding <= a
                           /\ Home(a) = hdr[a].forwarding
                           /\ \A b \in S : hdr[a].forwarding = hdr[b].forwarding => a = b
                      /\ Survivors = S
                      /\ DOMAIN absObjs = {hdr[a].forwarding : a \in S}
                      /\ \A a \in S : absObjs[hdr[a].forwarding] = UpdatedBody(heap[a])
                      /\ absRoot = [i \in Roots |-> Updated(root[i])]
                      /\ ClosedFromRoots(S)
    BY DEF Planned
  <1>1. /\ scanned = tenured_space /\ new_top = tenured_space
        /\ \A a \in DOMAIN heap \ M : hdr[a].forwarding = a
        /\ Plan(m, M, tenured_space) /\ ClosedFromRoots(S) /\ Typed(m) /\ Tiled(m)
        /\ m.heap = heap /\ m.hdr = hdr
    BY MemoryRecord DEF IInv, UpdateOK
  <1>2. \A a \in DOMAIN heap : /\ a \in Nat /\ hdr[a].forwarding \in Nat
                               /\ heap[a].size \in Nat /\ heap[a].size > 0
    <2> HIDE DEF m
    <2>1. \A a \in DOMAIN m.heap : a \in Nat /\ m.hdr[a] \in Header /\ m.heap[a].size \in Nat
                                   /\ m.heap[a].size > 0
      BY <1>1, CellFacts DEF Tiled
    <2> QED
      BY <1>1, <2>1 DEF Header
  <1>3. tenured_space \in Nat
    BY Layout
  <1>4. \A a \in DOMAIN heap : a \in M <=> a \in marked /\ tenured_space <= a
    BY DEF Tenured, InTenured
  <1>5. \A a \in DOMAIN heap : ~Moved(a)
    BY <1>1, <1>2, <1>3 DEF Moved, InTenured
  <1>6. Survivors = S
    BY <1>1, <1>2, <1>3, <1>5 DEF Survivors, InTenured
  <1>7. \A a \in S : Home(a) = hdr[a].forwarding
    BY <1>1, <1>4, <1>5 DEF Home, InTenured
  <1>8. /\ \A a \in M : tenured_space <= hdr[a].forwarding /\ hdr[a].forwarding <= a
        /\ \A a, c \in M : a < c => hdr[a].forwarding + heap[a].size <= hdr[c].forwarding
    BY <1>1 DEF Plan
  <1>9. \A a \in S : hdr[a].forwarding <= a
    <2>1. \A a \in S : a \in M \/ hdr[a].forwarding = a
      BY <1>1
    <2> QED
      BY <1>2, <1>8, <2>1
  <1>10. ASSUME NEW a \in S, NEW b \in S, hdr[a].forwarding = hdr[b].forwarding
         PROVE  a = b
    <2>1. \A c \in S \ M : hdr[c].forwarding = c /\ c < tenured_space
      BY <1>1, <1>2, <1>3, <1>4
    <2>2. CASE a \in M /\ b \in M
      <3>1. ~(a < b) /\ ~(b < a)
        BY <1>2, <1>8, <1>10, <2>2
      <3> QED
        BY <1>2, <3>1
    <2>3. CASE ~(a \in M /\ b \in M)
      BY <1>2, <1>3, <1>8, <1>10, <2>1, <2>3
    <2> QED
      BY <2>2, <2>3
  <1>11. /\ absRoot = [i \in Roots |-> Updated(root[i])]
         /\ absObjs = [b \in {Home(a) : a \in Survivors}
                         |-> UpdatedBody(heap[CHOOSE a \in Survivors : Home(a) = b])]
    BY UpdateView
  <1> HIDE DEF S, M, m
  <1>12. {Home(a) : a \in Survivors} = {hdr[a].forwarding : a \in S}
    BY <1>6, <1>7
  <1>13. ASSUME NEW a \in S
         PROVE  absObjs[hdr[a].forwarding] = UpdatedBody(heap[a])
    <2> DEFINE c == CHOOSE x \in Survivors : Home(x) = hdr[a].forwarding
    <2>1. absObjs[hdr[a].forwarding] = UpdatedBody(heap[c])
      BY <1>11, <1>12
    <2>2. a \in Survivors /\ Home(a) = hdr[a].forwarding
      BY <1>6, <1>7
    <2>3. c \in S /\ hdr[c].forwarding = hdr[a].forwarding
      BY <1>6, <1>7, <2>2
    <2>4. c = a
      BY <1>10, <2>3
    <2> QED
      BY <2>1, <2>4
  <1>16. DOMAIN absObjs = {hdr[a].forwarding : a \in S}
    BY <1>11, <1>12
  <1>14. \A a \in S : hdr[a].forwarding \in Nat
    BY <1>2 DEF S
  <1>15. ClosedFromRoots(S)
    BY <1>1
  <1>17. absRoot = [i \in Roots |-> Updated(root[i])]
    BY <1>11
  <1> QED
    BY <1>6, <1>7, <1>9, <1>10, <1>13, <1>14, <1>15, <1>16, <1>17

LEMMA UpdateClosed ==
  IInv /\ pc = "update" => ObjMemory!Closed
  <1> DEFINE S == marked \cap DOMAIN heap
  <1> SUFFICES ASSUME IInv, pc = "update" PROVE ObjMemory!Closed
    OBVIOUS
  <1>1. /\ DOMAIN absObjs = {hdr[a].forwarding : a \in S}
        /\ \A a \in S : absObjs[hdr[a].forwarding] = UpdatedBody(heap[a])
        /\ absRoot = [i \in Roots |-> Updated(root[i])]
        /\ ClosedFromRoots(S)
    BY UpdateFacts DEF Planned
  <1>2. ASSUME NEW v, CELL_P(v) => v \in S
        PROVE  CELL_P(Updated(v)) => Updated(v) \in DOMAIN absObjs
    BY <1>1, <1>2 DEF Updated
  <1>3. \A i \in Roots : ObjMemory!IsCell(absRoot[i]) => absRoot[i] \in DOMAIN absObjs
    BY <1>1, <1>2 DEF ClosedFromRoots, ObjMemory!IsCell, CELL_P
  <1>4. ASSUME NEW b \in DOMAIN absObjs, NEW v \in ObjMemory!Fields(absObjs[b]),
               ObjMemory!IsCell(v)
        PROVE  v \in DOMAIN absObjs
    <2>1. PICK a \in S : b = hdr[a].forwarding
      BY <1>1
    <2> HIDE DEF S
    <2>2. absObjs[b] = UpdatedBody(heap[a])
      BY <1>1, <2>1
    <2>3. v = Updated(heap[a].car) \/ v = Updated(heap[a].cdr)
      BY <1>4, <2>2 DEF UpdatedBody, ObjMemory!Fields
    <2>4. \A w \in {heap[a].car, heap[a].cdr} : CELL_P(w) => w \in S
      BY <1>1 DEF ClosedFromRoots, Fields
    <2> QED
      BY <1>2, <1>4, <2>3, <2>4 DEF ObjMemory!IsCell, CELL_P
  <1> QED
    BY <1>3, <1>4 DEF ObjMemory!Closed

\* From that moment all unmarked cells are gone and all others have moved.
LEMMA PlanCollects ==
  ASSUME IInv, IInv', calc_new_address
  PROVE  ObjMemory!Collect \/ UNCHANGED <<absRoot, absObjs>>
  <1> DEFINE S == marked \cap DOMAIN heap
             fwd == [a \in S |-> hdr'[a].forwarding]
             new(v) == IF CELL_P(v) THEN fwd[v] ELSE v
  <1>1. pc = "mark" /\ pc' = "update" /\ root' = root /\ heap' = heap /\ marked' = marked
    BY DEF calc_new_address, Marked
  <1>2. /\ absRoot = [i \in Roots |-> root[i]]
        /\ absObjs = [a \in DOMAIN heap |-> Body(heap[a])]
    BY <1>1, PlainView DEF Plain, Scanning
  <1>3. Planned'
    <2>1. (IInv /\ pc = "update" => Planned)'
      BY UpdateFacts, PTL
    <2> QED
      BY <1>1, <2>1
  <1>4. ObjMemory!Closed'
    <2>1. (IInv /\ pc = "update" => ObjMemory!Closed)'
      BY UpdateClosed, PTL
    <2> QED
      BY <1>1, <2>1
  <1>5. /\ \A i \in Roots : CELL_P(root[i]) => root[i] \in S
        /\ \A a \in S : \A v \in Fields(heap[a]) : CELL_P(v) => v \in S
    BY <1>1, <1>3 DEF ClosedFromRoots, Planned
  <1>6. \A v : (CELL_P(v) => v \in S) => Updated(v)' = new(v)
    BY DEF Updated
  <1>7. /\ \A a \in S : fwd[a] \in Nat /\ fwd[a] <= a
        /\ \A a, b \in S : fwd[a] = fwd[b] => a = b
        /\ DOMAIN absObjs' = {fwd[a] : a \in S}
    BY <1>1, <1>3 DEF Planned
  <1>8. ASSUME NEW a \in S
        PROVE  absObjs'[fwd[a]] = [type |-> heap[a].type, car |-> new(heap[a].car),
                                   cdr |-> new(heap[a].cdr)]
    <2> DEFINE u == heap[a].car
               w == heap[a].cdr
               up(v) == IF CELL_P(v) THEN hdr'[v].forwarding ELSE v
    <2>1. absObjs'[fwd[a]] = [type |-> heap[a].type, car |-> up(u), cdr |-> up(w)]
      BY <1>1, <1>3 DEF UpdatedBody, Updated, Planned
    <2>2. \A v \in {u, w} : CELL_P(v) => v \in S
      BY <1>5 DEF Fields
    <2> HIDE DEF u, w, S
    <2>3. up(u) = new(u) /\ up(w) = new(w)
      BY <2>2
    <2> QED
      BY <2>1, <2>3 DEF u, w
  <1>9. ASSUME NEW i \in Roots
        PROVE  absRoot'[i] = new(root[i]) /\ absRoot[i] = root[i]
    BY <1>1, <1>2, <1>3, <1>5, <1>6 DEF Updated, Planned
  <1>10. DOMAIN heap \subseteq Nat /\ IsFiniteSet(DOMAIN heap)
    <2>1. MarkingOK
      BY <1>1 DEF IInv
    <2>2. Graph
      BY <2>1, GraphFacts DEF MarkingOK
    <2> QED
      BY <2>2 DEF Graph
  <1> DEFINE D == DOMAIN absObjs'
             from == [b \in D |-> CHOOSE a \in S : fwd[a] = b]
  <1>11. \A a \in S : fwd[a] \in D /\ from[fwd[a]] = a
    <2> SUFFICES ASSUME NEW a \in S
                 PROVE  fwd[a] \in D /\ from[fwd[a]] = a
      OBVIOUS
    <2> DEFINE c == CHOOSE x \in S : fwd[x] = fwd[a]
    <2> HIDE DEF S, fwd
    <2>1. fwd[a] \in D
      BY <1>7
    <2>2. from[fwd[a]] = c
      BY <2>1
    <2>3. c \in S /\ fwd[c] = fwd[a]
      OBVIOUS
    <2>4. c = a
      BY <1>7, <2>3
    <2> QED
      BY <2>1, <2>2, <2>4
  <1>20. S \subseteq DOMAIN heap
    OBVIOUS
  <1> HIDE DEF S, fwd
  <1>12. \A b \in D : \E a \in S : b = fwd[a]
    BY <1>7
  <1>21. from = [b \in D |-> from[b]]
    OBVIOUS
  <1>22. D = DOMAIN absObjs'
    OBVIOUS
  <1> HIDE DEF D, from
  <1>13. from \in [D -> DOMAIN absObjs]
    <2>1. \A b \in D : from[b] \in DOMAIN absObjs
      BY <1>2, <1>11, <1>12, <1>20
    <2> QED
      BY <1>21, <2>1
  <1>14. ASSUME NEW v, CELL_P(v) => v \in S
         PROVE  ObjMemory!Renamed(from, new(v)) = v
    BY <1>7, <1>11, <1>14, ImmAssumption DEF ObjMemory!Renamed, ObjMemory!IsCell, CELL_P
  <1>15. \A a, b \in D : from[a] = from[b] => a = b
    BY <1>11, <1>12
  <1>16. ASSUME NEW b \in D
         PROVE  LET o == absObjs'[b] IN
                /\ o = [type |-> o.type, car |-> o.car, cdr |-> o.cdr]
                /\ absObjs[from[b]] = [type |-> o.type, car |-> ObjMemory!Renamed(from, o.car),
                                       cdr |-> ObjMemory!Renamed(from, o.cdr)]
    <2>1. PICK a \in S : b = fwd[a]
      BY <1>12
    <2> DEFINE u == heap[a].car
               w == heap[a].cdr
    <2>2. absObjs'[b] = [type |-> heap[a].type, car |-> new(u), cdr |-> new(w)]
      BY <1>8, <2>1
    <2>3. absObjs[from[b]] = [type |-> heap[a].type, car |-> u, cdr |-> w]
      BY <1>2, <1>11, <1>20, <2>1 DEF Body
    <2>4. \A v \in {u, w} : CELL_P(v) => v \in S
      BY <1>5 DEF Fields
    <2> HIDE DEF u, w, new
    <2>5. ObjMemory!Renamed(from, new(u)) = u /\ ObjMemory!Renamed(from, new(w)) = w
      BY <1>14, <2>4
    <2> QED
      BY <2>2, <2>3, <2>5
  <1>17. \A i \in Roots : absRoot[i] = ObjMemory!Renamed(from, absRoot'[i])
    <2> HIDE DEF new
    <2> QED
      BY <1>5, <1>9, <1>14
  <1>18. CASE absObjs' # absObjs
    <2>1. Carries(from)
      BY <1>13, <1>15, <1>16, <1>17, <1>22 DEF Carries
    <2> QED
      BY <1>4, <1>18, <2>1, Collects
  <1>19. CASE absObjs' = absObjs
    <2> DEFINE H == DOMAIN heap
    <2>1. H \in SUBSET Nat /\ IsFiniteSet(H) /\ S \in SUBSET H
      BY <1>10, <1>20
    <2>2. D = H
      BY <1>2, <1>19, <1>22
    <2>3. \A a \in S : fwd[a] \in H /\ fwd[a] <= a
      BY <1>7, <1>11, <2>2
    <2>4. \A x \in H : \E a \in S : fwd[a] = x
      BY <1>12, <2>2
    <2> HIDE DEF H
    <2>5. S = H /\ \A a \in H : fwd[a] = a
      BY <2>1, <2>3, <2>4, NobodyMoves
    <2>6. \A i \in Roots : absRoot'[i] = absRoot[i]
      BY <1>5, <1>9, <2>5
    <2>7. absRoot' = absRoot
      <3>1. absRoot = [i \in Roots |-> absRoot[i]] /\ absRoot' = [i \in Roots |-> absRoot'[i]]
        BY DEF absRoot
      <3> QED
        BY <2>6, <3>1
    <2> QED
      BY <1>19, <2>7
  <1> QED
    BY <1>18, <1>19

-----------------------------------------------------------------------------
(* The slide of a major collection. *)

\* The objects o are the cells in S of the heap h, each at the address it
\* forwards to.
Shows(o, S, g, h) ==
  /\ o = [x \in DOMAIN o |-> o[x]]
  /\ DOMAIN o = {g[a].forwarding : a \in S}
  /\ \A a \in S : o[g[a].forwarding] = Body(h[a])

Agree(S, g, h, T, j, p) ==
  /\ \A a \in S : \E c \in T : j[c].forwarding = g[a].forwarding /\ Body(p[c]) = Body(h[a])
  /\ \A c \in T : \E a \in S : j[c].forwarding = g[a].forwarding

LEMMA SameShown ==
  ASSUME NEW o, NEW S, NEW g, NEW h, Shows(o, S, g, h),
         NEW q, NEW T, NEW j, NEW p, Shows(q, T, j, p), Agree(S, g, h, T, j, p)
  PROVE  o = q
  <1>1. /\ DOMAIN o = {g[a].forwarding : a \in S} /\ DOMAIN q = {j[c].forwarding : c \in T}
        /\ o = [x \in DOMAIN o |-> o[x]] /\ q = [x \in DOMAIN q |-> q[x]]
    BY DEF Shows
  <1>2. DOMAIN o = DOMAIN q
    BY <1>1 DEF Agree
  <1>3. ASSUME NEW x \in DOMAIN o
        PROVE  o[x] = q[x]
    <2>1. PICK a \in S : x = g[a].forwarding
      BY <1>1
    <2>2. PICK c \in T : j[c].forwarding = g[a].forwarding /\ Body(p[c]) = Body(h[a])
      BY DEF Agree
    <2>3. o[x] = Body(h[a]) /\ q[x] = Body(p[c])
      BY <2>1, <2>2 DEF Shows
    <2> QED
      BY <2>2, <2>3
  <1> QED
    BY <1>1, <1>2, <1>3

Moving == pc = "slide" \/ pc = "corrupted" \/ (pc = "set_full" /\ marked # {})

OnePlace == \A a \in Survivors :
              /\ Home(a) = hdr[a].forwarding
              /\ \A b \in Survivors : hdr[a].forwarding = hdr[b].forwarding => a = b

LEMMA MovingView ==
  Moving /\ OnePlace => /\ absRoot = [i \in Roots |-> root[i]]
                        /\ Shows(absObjs, Survivors, hdr, heap)
  <1> SUFFICES ASSUME Moving, OnePlace
               PROVE  /\ absRoot = [i \in Roots |-> root[i]]
                      /\ Shows(absObjs, Survivors, hdr, heap)
    OBVIOUS
  <1> DEFINE S == Survivors
             o == absObjs
             H(a) == Home(a)
  <1>1. /\ absRoot = [i \in Roots |-> root[i]]
        /\ o = [b \in {H(a) : a \in S} |-> Body(heap[CHOOSE a \in S : H(a) = b])]
    BY SlideView DEF Moving
  <1>2. \A a \in S : /\ H(a) = hdr[a].forwarding
                     /\ \A b \in S : hdr[a].forwarding = hdr[b].forwarding => a = b
    BY DEF OnePlace
  <1> HIDE DEF S, o, H
  <1>3. o = [x \in DOMAIN o |-> o[x]] /\ DOMAIN o = {H(a) : a \in S}
    BY <1>1
  <1>4. DOMAIN o = {hdr[a].forwarding : a \in S}
    BY <1>2, <1>3
  <1>5. ASSUME NEW a \in S
        PROVE  o[hdr[a].forwarding] = Body(heap[a])
    <2> DEFINE c == CHOOSE x \in S : H(x) = hdr[a].forwarding
    <2>1. o[hdr[a].forwarding] = Body(heap[c])
      BY <1>1, <1>2
    <2>2. H(a) = hdr[a].forwarding
      BY <1>2
    <2>3. c \in S /\ H(c) = hdr[a].forwarding
      BY <2>2
    <2>4. c = a
      BY <1>2, <2>3
    <2> QED
      BY <2>1, <2>4
  <1>6. Shows(o, S, hdr, heap)
    BY <1>3, <1>4, <1>5 DEF Shows
  <1> QED
    BY <1>1, <1>6 DEF o, S

LEMMA SlideInPlace ==
  IInv /\ pc = "slide" => /\ Survivors = Slid \cup Pending \cup (Young \cap marked)
                          /\ OnePlace
  <1> DEFINE m == Memory
             b == new_top
             c == scanned
  <1> SUFFICES ASSUME IInv, pc = "slide"
               PROVE  /\ Survivors = Slid \cup Pending \cup (Young \cap marked)
                      /\ OnePlace
    OBVIOUS
  <1>1. /\ m.heap = heap /\ m.hdr = hdr /\ c \in Nat /\ b \in Nat /\ b <= c /\ tenured_space <= b
        /\ Plan(m, Pending, b) /\ Typed(m) /\ Tiled(m)
    BY SlideFacts
  <1>2. \A a \in DOMAIN m.heap \ Pending : m.hdr[a].forwarding = a
    BY SlideFacts
  <1>3. /\ Pending = {a \in DOMAIN m.heap : a >= c /\ Old(a) /\ a \in marked}
        /\ Slid = {a \in DOMAIN m.heap : Old(a) /\ a < b}
        /\ Young = {a \in DOMAIN m.heap : ~Old(a)}
    BY SlideFacts
  <1>4. \A a \in DOMAIN m.heap : Moved(a) <=> Old(a) /\ a < b
    BY DEF Moved, InTenured, Old
  <1>5. Survivors = {a \in DOMAIN m.heap : Moved(a) \/ (a \in marked /\ (a >= c \/ ~Old(a)))}
    BY <1>1 DEF Survivors, InTenured, Old
  <1>6. \A a \in DOMAIN m.heap : Home(a) = IF Moved(a) \/ ~Old(a) THEN a ELSE m.hdr[a].forwarding
    BY <1>1 DEF Home, InTenured, Old
  <1>7. \A a \in DOMAIN m.heap : a \in Nat /\ m.heap[a].size \in Nat /\ m.heap[a].size > 0
    BY <1>1, CellFacts DEF Tiled
  <1>8. /\ \A a \in Pending : b <= m.hdr[a].forwarding
        /\ \A a, d \in Pending : a < d => m.hdr[a].forwarding + m.heap[a].size <= m.hdr[d].forwarding
    BY <1>1 DEF Plan
  <1>9. \A a \in DOMAIN m.heap : m.hdr[a].forwarding \in Nat
    BY <1>1, CellFacts DEF Header
  <1> HIDE DEF m, b, c
  <1>10. tenured_space \in Nat
    BY Layout
  <1>11. Survivors = Slid \cup Pending \cup (Young \cap marked)
    <2>1. ASSUME NEW a \in DOMAIN m.heap
          PROVE  a \in Survivors <=> a \in Slid \cup Pending \cup (Young \cap marked)
      BY <1>1, <1>3, <1>4, <1>5, <1>7, <1>10 DEF Old
    <2> QED
      BY <1>3, <1>5, <2>1
  <1>12. \A a \in Survivors : Home(a) = m.hdr[a].forwarding
    BY <1>1, <1>2, <1>3, <1>4, <1>6, <1>7, <1>11
  <1>13. ASSUME NEW a \in Survivors, NEW d \in Survivors, m.hdr[a].forwarding = m.hdr[d].forwarding
         PROVE  a = d
    <2>1. a \in DOMAIN m.heap /\ d \in DOMAIN m.heap
      BY <1>5
    <2>2. CASE a \notin Pending /\ d \notin Pending
      BY <1>2, <1>13, <2>1, <2>2
    <2>3. CASE a \in Pending /\ d \in Pending
      <3>1. ~(a < d) /\ ~(d < a)
        BY <1>7, <1>8, <1>9, <1>13, <2>1, <2>3
      <3> QED
        BY <1>7, <2>1, <3>1
    <2>4. \A x \in Survivors \ Pending : m.hdr[x].forwarding = x /\ x < b
      BY <1>1, <1>2, <1>3, <1>5, <1>7, <1>10, <1>11 DEF Old
    <2>5. CASE a \in Pending /\ d \notin Pending
      BY <1>1, <1>7, <1>8, <1>9, <1>13, <2>1, <2>4, <2>5
    <2>6. CASE a \notin Pending /\ d \in Pending
      BY <1>1, <1>7, <1>8, <1>9, <1>13, <2>1, <2>4, <2>6
    <2> QED
      BY <2>2, <2>3, <2>5, <2>6
  <1> QED
    BY <1>1, <1>11, <1>12, <1>13 DEF OnePlace

\* A cell is moved to the place it has in the memory already.
LEMMA SlideCellStutters ==
  ASSUME IInv, SlideCell
  PROVE  UNCHANGED <<absRoot, absObjs>>
  <1> DEFINE m == Memory
             c == scanned
             b == new_top
             s == m.heap[c].size
             p == Rewritten(m, c, b)
             D == DOMAIN m.heap
             S == Survivors
             T == (S \ {c}) \cup {b}
  <1>1. /\ pc = "slide" /\ c < tenured_top /\ c \in marked
        /\ scanned' = c + s /\ new_top' = b + s /\ root' = root /\ marked' = marked
    BY MemoryRecord DEF SlideCell
  <1>2. PICK garbage : Becomes(move_object(c, garbage), pc)
    BY DEF SlideCell
  <1> DEFINE n == RememberIfDue(p, b, garbage)
             z == b + s
             y == c + s
  <1>3. move_object(c, garbage) = n /\ Transfers(m, p, n, c, b, s, garbage)
    <2> DEFINE f == from_space
               t == to_space
    <2> HIDE DEF m, n, p, s, f, t
    <2>1. m = Memory /\ f = from_space /\ t = to_space /\ n = RememberIfDue(p, b, garbage)
          /\ p = Rewritten(m, c, b) /\ s = m.heap[c].size
      BY DEF m, n, p, s, f, t
    <2> QED
      BY <1>1, <2>1, MoveObjectFacts
  <1>4. c \in Pending /\ m.hdr[c].forwarding = b /\ (\A a \in D \ {c} : a # b) /\ b <= c
    <2> DEFINE f == from_space
               t == to_space
    <2> HIDE DEF m, p, f, t
    <2>1. m = Memory /\ f = from_space /\ t = to_space /\ p = Rewritten(m, c, b)
      BY DEF m, p, f, t
    <2> QED
      BY <1>1, <2>1, MoveFacts
  <1>5. /\ m.heap = heap /\ m.hdr = hdr /\ c \in Nat /\ b \in Nat
        /\ Pending = {a \in D : a >= c /\ Old(a) /\ a \in marked}
        /\ Slid = {a \in D : Old(a) /\ a < b}
        /\ Young = {a \in D : ~Old(a)}
    BY <1>1, SlideFacts
  <1>6. \A a \in D : a \in Nat
    BY <1>1, SlideFacts
  <1>7. S = Slid \cup Pending \cup (Young \cap marked) /\ OnePlace
    BY <1>1, SlideInPlace
  <1>8. heap' = n.heap /\ hdr' = n.hdr /\ pc' \in {"slide", "set_full"}
    <2>1. Typed(n)
      BY <1>3 DEF Transfers
    <2>2. Becomes(n, pc)
      BY <1>2, <1>3
    <2> HIDE DEF n
    <2> QED
      BY <1>1, <2>1, <2>2, BecomesFacts
  <1>9. /\ absRoot = [i \in Roots |-> root[i]] /\ Shows(absObjs, S, hdr, heap)
    BY <1>1, <1>7, MovingView DEF Moving
  <1>10. /\ DOMAIN p.heap = (D \ {c}) \cup {b} /\ p.heap[b] = m.heap[c] /\ p.hdr[b] = m.hdr[c]
         /\ \A a \in D \ {c} : p.heap[a] = m.heap[a] /\ p.hdr[a] = m.hdr[a]
         /\ Old(b) /\ b < z /\ z \in Nat /\ z <= y /\ y \in Nat /\ c < y
         /\ \A a \in D \ {c} : Old(a) => a < b \/ y <= a
         /\ n.heap = p.heap
         /\ \A a \in DOMAIN p.heap : n.hdr[a].forwarding = p.hdr[a].forwarding
    BY <1>3 DEF Transfers, Alike
  <1>11. \A a \in S : hdr[a].forwarding = m.hdr[a].forwarding /\ heap[a] = m.heap[a]
    BY <1>5
  <1>12. /\ \A a \in S : Home(a) = m.hdr[a].forwarding
         /\ \A a, d \in S : m.hdr[a].forwarding = m.hdr[d].forwarding => a = d
    BY <1>5, <1>7 DEF OnePlace
  <1> HIDE DEF m, p, n, z, y, c, b, s, S, D
  <1>13. S \subseteq D /\ c \in S /\ c \in D
    BY <1>4, <1>5, <1>7
  <1>14. /\ heap'[b] = m.heap[c] /\ hdr'[b].forwarding = b
         /\ \A a \in D \ {c} : heap'[a] = m.heap[a] /\ hdr'[a].forwarding = m.hdr[a].forwarding
         /\ DOMAIN heap' = (D \ {c}) \cup {b}
    BY <1>4, <1>8, <1>10
  <1>16. Survivors' = {a \in DOMAIN heap' : (Old(a) /\ a < z) \/ (a \in marked /\ (a >= y \/ ~Old(a)))}
    BY <1>1 DEF Survivors, Moved, InTenured, Old, y, z, c, b, s
  <1>17. \A a \in DOMAIN heap' : Home(a)' = IF (Old(a) /\ a < z) \/ ~Old(a) THEN a ELSE hdr'[a].forwarding
    BY <1>1 DEF Home, Moved, InTenured, Old, z, b, s
  <1>18. Survivors' = T
    <2>1. ASSUME NEW a \in D \ {c}
          PROVE  a \in S <=> (Old(a) /\ a < z) \/ (a \in marked /\ (a >= y \/ ~Old(a)))
      BY <1>4, <1>5, <1>6, <1>7, <1>10
    <2> QED
      BY <1>4, <1>10, <1>13, <1>14, <1>16, <2>1
  <1>19. ASSUME NEW a \in S \ {c}
         PROVE  Home(a)' = hdr'[a].forwarding
    <2>1. a \in D \ {c} /\ (Old(a) /\ a < z => m.hdr[a].forwarding = a)
      <3>1. Old(a) /\ a < z => a \notin Pending
        BY <1>4, <1>5, <1>6, <1>10, <1>13
      <3>2. a \notin Pending => m.hdr[a].forwarding = a
        BY <1>1, <1>13, SlideFacts DEF m, D
      <3> QED
        BY <1>13, <3>1, <3>2
    <2>2. ~Old(a) => m.hdr[a].forwarding = a
      <3>1. ~Old(a) => a \notin Pending
        BY <1>5
      <3>2. a \notin Pending => m.hdr[a].forwarding = a
        BY <1>1, <1>13, SlideFacts DEF m, D
      <3> QED
        BY <3>1, <3>2
    <2> QED
      BY <1>14, <1>17, <2>1, <2>2
  <1>21. ASSUME NEW a \in T
         PROVE  Home(a)' = hdr'[a].forwarding
    <2>1. CASE a = b
      BY <1>10, <1>14, <1>17, <2>1
    <2> QED
      BY <1>19, <2>1
  <1>22. ASSUME NEW a \in T, NEW d \in T, hdr'[a].forwarding = hdr'[d].forwarding
         PROVE  a = d
    <2> DEFINE g(x) == IF x = b THEN c ELSE x
    <2>1. \A x \in T : g(x) \in S /\ hdr'[x].forwarding = m.hdr[g(x)].forwarding
      BY <1>4, <1>13, <1>14
    <2>2. g(a) = g(d)
      BY <1>12, <1>22, <2>1
    <2>3. \A x \in T \ {b} : x # c
      OBVIOUS
    <2> QED
      BY <2>2, <2>3
  <1>23. OnePlace' /\ Moving'
    <2>1. OnePlace'
      BY <1>18, <1>21, <1>22 DEF OnePlace
    <2>2. marked' # {}
      BY <1>1
    <2> QED
      BY <1>8, <2>1, <2>2 DEF Moving
  <1>24. /\ absRoot' = [i \in Roots |-> root[i]] /\ Shows(absObjs', T, hdr', heap')
    <2>1. (Moving /\ OnePlace => /\ absRoot = [i \in Roots |-> root[i]]
                                 /\ Shows(absObjs, Survivors, hdr, heap))'
      BY MovingView, PTL
    <2>2. absRoot' = [i \in Roots |-> root'[i]] /\ Shows(absObjs', Survivors', hdr', heap')
      BY <1>23, <2>1 DEF Shows, Body
    <2> QED
      BY <1>1, <1>18, <2>2
  <1>25. Agree(S, hdr, heap, T, hdr', heap')
    <2>1. ASSUME NEW a \in S
          PROVE  \E d \in T : hdr'[d].forwarding = hdr[a].forwarding /\ Body(heap'[d]) = Body(heap[a])
      <3>1. CASE a = c
        <4>1. b \in T /\ hdr'[b].forwarding = hdr[a].forwarding /\ heap'[b] = heap[a]
          BY <1>4, <1>11, <1>14, <3>1
        <4> QED
          BY <4>1
      <3>2. CASE a # c
        <4>1. a \in T /\ hdr'[a].forwarding = hdr[a].forwarding /\ heap'[a] = heap[a]
          BY <1>11, <1>13, <1>14, <3>2
        <4> QED
          BY <4>1
      <3> QED
        BY <3>1, <3>2
    <2>2. ASSUME NEW d \in T
          PROVE  \E a \in S : hdr'[d].forwarding = hdr[a].forwarding
      BY <1>4, <1>11, <1>13, <1>14
    <2> QED
      BY <2>1, <2>2 DEF Agree
  <1> HIDE DEF T
  <1> QED
    BY <1>9, <1>24, <1>25, SameShown

\* A dead cell has no place in it.
LEMMA SlideDeadStutters ==
  ASSUME IInv, SlideDead
  PROVE  UNCHANGED <<absRoot, absObjs>>
  <1> DEFINE m == Memory
             c == scanned
             b == new_top
             s == m.heap[c].size
             y == c + s
             D == DOMAIN m.heap
             S == Survivors
  <1>1. /\ pc = "slide" /\ c < tenured_top /\ c \notin marked
        /\ scanned' = y /\ UNCHANGED <<root, marked, new_top>>
    BY MemoryRecord DEF SlideDead
  <1>2. /\ heap' = [a \in D \ {c} |-> m.heap[a]] /\ hdr' = [a \in D \ {c} |-> m.hdr[a]] /\ pc' = "slide"
    <2>1. DOMAIN hdr = DOMAIN heap
      BY <1>1 DEF IInv, Typed, Memory
    <2> QED
      BY <1>1, <2>1 DEF SlideDead, Becomes, Freed, Memory
  <1>3. /\ m.heap = heap /\ m.hdr = hdr /\ c \in Nat /\ b \in Nat /\ m.ttop = tenured_top /\ m.ttop \in Nat
        /\ b <= c /\ tenured_space <= b /\ Tiled(m) /\ Gapless(m, c, m.ttop, m.ttop) /\ Typed(m)
        /\ Pending = {a \in D : a >= c /\ Old(a) /\ a \in marked}
        /\ Slid = {a \in D : Old(a) /\ a < b}
        /\ Young = {a \in D : ~Old(a)}
    BY <1>1, SlideFacts
  <1>4. \A a \in D : a \in Nat
    BY <1>1, SlideFacts
  <1>5. S = Slid \cup Pending \cup (Young \cap marked) /\ OnePlace
    BY <1>1, SlideInPlace
  <1>6. /\ absRoot = [i \in Roots |-> root[i]] /\ Shows(absObjs, S, hdr, heap)
    BY <1>1, <1>5, MovingView DEF Moving
  <1>7. \A a \in S : Home(a) = hdr[a].forwarding
    BY <1>5 DEF OnePlace
  <1>8. \A a, d \in S : hdr[a].forwarding = hdr[d].forwarding => a = d
    BY <1>5 DEF OnePlace
  <1>9. c \in D /\ s \in Nat /\ s > 0
    <2>1. c \in D
      BY <1>1, <1>3 DEF Gapless
    <2> HIDE DEF m
    <2> QED
      BY <1>3, <2>1, CellFacts DEF Tiled
  <1>10. \A a \in D : Old(a) /\ a >= c /\ a # c => a >= y
    <2> SUFFICES ASSUME NEW a \in D, a >= c, a # c PROVE a >= y
      OBVIOUS
    <2>1. a + m.heap[a].size <= c \/ c + m.heap[c].size <= a
      BY <1>3, <1>9 DEF Tiled, Disjoint
    <2>2. a \in Nat /\ m.heap[a].size \in Nat /\ m.heap[a].size > 0
      <3> HIDE DEF m
      <3> QED
        BY <1>3, <1>4, CellFacts DEF Tiled
    <2> QED
      BY <1>3, <1>9, <2>1, <2>2
  <1>11. y \in Nat /\ c < y
    BY <1>3, <1>9
  <1>12. /\ \A a \in D \ {c} : Moved(a)' <=> Moved(a)
         /\ \A a \in D \ {c} : Home(a)' = Home(a)
    <2>1. \A a \in D \ {c} : hdr'[a] = hdr[a]
      BY <1>2, <1>3
    <2>2. \A a \in D \ {c} : Moved(a)' <=> Moved(a)
      BY <1>1 DEF Moved, InTenured
    <2> QED
      BY <1>1, <2>1, <2>2 DEF Home, InTenured
  <1>13. Survivors' = S
    <2>1. Survivors' = {a \in D \ {c} : Moved(a)' \/ (a \in marked /\ (a >= y \/ ~Old(a)))}
      BY <1>1, <1>2 DEF Survivors, InTenured, Old
    <2>2. Survivors = {a \in D : Moved(a) \/ (a \in marked /\ (a >= c \/ ~Old(a)))}
      BY <1>3 DEF Survivors, InTenured, Old
    <2>3. ~Moved(c)
      BY <1>3 DEF Moved
    <2> HIDE DEF D, m, y
    <2>4. ASSUME NEW a \in D \ {c}, Old(a)
          PROVE  a >= c <=> a >= y
      BY <1>3, <1>4, <1>10, <1>11, <2>4
    <2> QED
      BY <1>1, <1>9, <1>12, <2>1, <2>2, <2>3, <2>4
  <1>14. S \subseteq D \ {c}
    BY <1>1, <1>3, <1>5
  <1>15. \A a \in S : hdr'[a] = hdr[a] /\ heap'[a] = heap[a]
    BY <1>2, <1>3, <1>14
  <1> HIDE DEF m, D, S
  <1>16. OnePlace'
    BY <1>7, <1>8, <1>12, <1>13, <1>14, <1>15 DEF OnePlace
  <1>17. /\ absRoot' = [i \in Roots |-> root[i]] /\ Shows(absObjs', S, hdr', heap')
    <2>1. (Moving /\ OnePlace => /\ absRoot = [i \in Roots |-> root[i]]
                                 /\ Shows(absObjs, Survivors, hdr, heap))'
      BY MovingView, PTL
    <2>2. absRoot' = [i \in Roots |-> root'[i]] /\ Shows(absObjs', Survivors', hdr', heap')
      BY <1>2, <1>16, <2>1 DEF Shows, Body, Moving
    <2> QED
      BY <1>1, <1>13, <2>2
  <1>18. Agree(S, hdr, heap, S, hdr', heap')
    BY <1>15 DEF Agree
  <1> QED
    BY <1>6, <1>17, <1>18, SameShown

\* The references are updated as the memory has them already.
LEMMA UpdatePointerStutters ==
  ASSUME IInv, IInv', update_pointer
  PROVE  UNCHANGED <<absRoot, absObjs>>
  <1> DEFINE S == marked \cap DOMAIN heap
             M == Tenured \cap marked
             h == [a \in DOMAIN heap |-> IF a \in M \/ ~InTenured(a)
                                         THEN UpdatedFields(heap[a]) ELSE heap[a]]
  <1>1. /\ pc = "update" /\ pc' = "slide" /\ heap' = h
        /\ root' = [i \in Roots |-> Updated(root[i])]
        /\ UNCHANGED <<marked, scanned, new_top>>
    BY DEF update_pointer, slideVars
  <1>2. /\ \A a \in S : Home(a) = hdr[a].forwarding
        /\ Survivors = S
        /\ DOMAIN absObjs = {hdr[a].forwarding : a \in S}
        /\ \A a \in S : absObjs[hdr[a].forwarding] = UpdatedBody(heap[a])
        /\ absRoot = [i \in Roots |-> Updated(root[i])]
    BY <1>1, UpdateFacts DEF Planned
  <1>3. DOMAIN hdr = DOMAIN heap /\ heap \in [DOMAIN heap -> Object] /\ hdr \in [DOMAIN heap -> Header]
    BY MemoryRecord DEF IInv, Typed
  <1>4. \A a \in DOMAIN heap : hdr'[a].forwarding = hdr[a].forwarding
    <2>1. PICK garbage :
          hdr' = [a \in DOMAIN hdr |->
                    IF a \in M THEN [hdr[a] EXCEPT !.remembered =
                                       \E v \in Fields(h[a]) : ReadsNersary(Memory, v, garbage)]
                    ELSE hdr[a]]
      BY DEF update_pointer
    <2> SUFFICES ASSUME NEW a \in DOMAIN heap PROVE hdr'[a].forwarding = hdr[a].forwarding
      OBVIOUS
    <2> DEFINE g == hdr[a]
               r == \E v \in Fields(h[a]) : ReadsNersary(Memory, v, garbage)
    <2>2. hdr'[a] = IF a \in M THEN [g EXCEPT !.remembered = r] ELSE g
      BY <1>3, <2>1
    <2>3. g \in Header
      BY <1>3
    <2> HIDE DEF g, r
    <2>4. [g EXCEPT !.remembered = r].forwarding = g.forwarding
      BY <2>3 DEF Header
    <2> QED
      BY <2>2, <2>4 DEF g
  <1>5. Survivors' = S /\ OnePlace'
    <2>1. (IInv /\ pc = "slide" => /\ Survivors = Slid \cup Pending \cup (Young \cap marked)
                                   /\ OnePlace)'
      BY SlideInPlace, PTL
    <2>2. OnePlace'
      BY <1>1, <2>1
    <2>3. DOMAIN heap' = DOMAIN heap
      BY <1>1
    <2>4. Survivors' = Survivors
      BY <1>1, <2>3 DEF Survivors, Moved, InTenured
    <2> QED
      BY <1>2, <2>2, <2>4
  <1>6. /\ absRoot' = [i \in Roots |-> root'[i]] /\ Shows(absObjs', S, hdr', heap')
    <2>1. (Moving /\ OnePlace => /\ absRoot = [i \in Roots |-> root[i]]
                                 /\ Shows(absObjs, Survivors, hdr, heap))'
      BY MovingView, PTL
    <2>2. absRoot' = [i \in Roots |-> root'[i]] /\ Shows(absObjs', Survivors', hdr', heap')
      BY <1>1, <1>5, <2>1 DEF Shows, Body, Moving
    <2> QED
      BY <1>5, <2>2
  <1>7. absRoot' = absRoot
    BY <1>1, <1>2, <1>6
  <1>8. ASSUME NEW a \in S
        PROVE  Body(heap'[a]) = UpdatedBody(heap[a])
    <2>1. heap'[a] = UpdatedFields(heap[a])
      BY <1>1 DEF Tenured
    <2>2. heap[a] \in Object
      BY <1>3
    <2> DEFINE o == heap[a]
               u == Updated(o.car)
               w == Updated(o.cdr)
    <2>3. heap'[a] = [o EXCEPT !.car = u, !.cdr = w]
      BY <2>1 DEF UpdatedFields
    <2>4. UpdatedBody(heap[a]) = [type |-> o.type, car |-> u, cdr |-> w]
      BY DEF UpdatedBody
    <2>5. o \in Object
      BY <2>2
    <2> HIDE DEF o, u, w
    <2>6. [o EXCEPT !.car = u, !.cdr = w].type = o.type
          /\ [o EXCEPT !.car = u, !.cdr = w].car = u
          /\ [o EXCEPT !.car = u, !.cdr = w].cdr = w
      BY <2>5 DEF Object
    <2> QED
      BY <2>3, <2>4, <2>6 DEF Body
  <1>9. Shows(absObjs, S, hdr', heap')
    <2>1. absObjs = [x \in DOMAIN absObjs |-> absObjs[x]]
      BY <1>1, UpdateView
    <2>2. \A a \in S : hdr'[a].forwarding = hdr[a].forwarding
      BY <1>4
    <2> HIDE DEF S
    <2> QED
      BY <1>2, <1>8, <2>1, <2>2 DEF Shows
  <1>10. Agree(S, hdr', heap', S, hdr', heap')
    BY DEF Agree
  <1> HIDE DEF S
  <1> QED
    BY <1>6, <1>7, <1>9, <1>10, SameShown

LEMMA PlainShows ==
  Plain /\ AtHome(Memory) => /\ absRoot = [i \in Roots |-> root[i]]
                             /\ Shows(absObjs, DOMAIN heap, hdr, heap)
  <1> SUFFICES ASSUME Plain, AtHome(Memory)
               PROVE  /\ absRoot = [i \in Roots |-> root[i]]
                      /\ Shows(absObjs, DOMAIN heap, hdr, heap)
    OBVIOUS
  <1> DEFINE o == absObjs
  <1>1. /\ absRoot = [i \in Roots |-> root[i]]
        /\ o = [a \in DOMAIN heap |-> Body(heap[a])]
    BY PlainView
  <1>2. \A a \in DOMAIN heap : hdr[a].forwarding = a
    BY MemoryRecord DEF AtHome
  <1> HIDE DEF o
  <1>3. Shows(o, DOMAIN heap, hdr, heap)
    BY <1>1, <1>2 DEF Shows
  <1> QED
    BY <1>1, <1>3 DEF o

\* When all cells have been moved, those that are left are the memory.
LEMMA SlideEndStutters ==
  ASSUME IInv, IInv', SlideEnd
  PROVE  UNCHANGED <<absRoot, absObjs>>
  <1> DEFINE S == {a \in DOMAIN heap : InTenured(a) \/ a \in marked}
  <1>1. /\ SlideDone /\ pc = "slide" /\ pc' = "retry" /\ root' = root
        /\ heap' = [a \in S |-> heap[a]] /\ hdr' = [a \in S |-> hdr[a]]
    BY DEF SlideEnd, SlideDone
  <1>2. /\ Pending = {}
        /\ \A a \in DOMAIN heap : Old(a) => a \in Slid
        /\ Survivors = Slid \cup Pending \cup (Young \cap marked) /\ OnePlace
    BY <1>1, MemoryRecord, SlideDoneFacts, SlideInPlace
  <1>3. Survivors = S
    BY <1>2 DEF Slid, Young, InTenured, Old
  <1>4. /\ absRoot = [i \in Roots |-> root[i]] /\ Shows(absObjs, S, hdr, heap)
    BY <1>1, <1>2, <1>3, MovingView DEF Moving
  <1>5. /\ absRoot' = [i \in Roots |-> root'[i]] /\ Shows(absObjs', S, hdr', heap')
    <2>1. (Plain /\ AtHome(Memory) => /\ absRoot = [i \in Roots |-> root[i]]
                                      /\ Shows(absObjs, DOMAIN heap, hdr, heap))'
      BY PlainShows, PTL
    <2>2. Plain' /\ AtHome(Memory)'
      BY <1>1 DEF Plain, Scanning, IInv, AtRest, Resting
    <2>3. DOMAIN heap' = S
      BY <1>1
    <2>4. absRoot' = [i \in Roots |-> root'[i]] /\ Shows(absObjs', DOMAIN heap', hdr', heap')
      BY <2>1, <2>2 DEF Shows, Body
    <2> QED
      BY <2>3, <2>4
  <1>6. \A a \in S : heap'[a] = heap[a] /\ hdr'[a] = hdr[a]
    BY <1>1
  <1> HIDE DEF S
  <1>7. Agree(S, hdr, heap, S, hdr', heap')
    BY <1>6 DEF Agree
  <1> QED
    BY <1>1, <1>4, <1>5, <1>7, SameShown

LEMMA SlideEndHurtsStutters ==
  ASSUME IInv, SlideEndHurts
  PROVE  UNCHANGED <<absRoot, absObjs>>
  <1>1. /\ pc = "slide" /\ pc' = "corrupted"
        /\ UNCHANGED <<root, heap, hdr, marked, scanned, new_top>>
    BY DEF SlideEndHurts, SlideDone, genVars
  <1>2. OnePlace
    BY <1>1, SlideInPlace
  <1>3. Survivors' = Survivors /\ OnePlace'
    <2>1. Survivors' = Survivors
      BY <1>1 DEF Survivors, Moved, InTenured
    <2>2. \A a : Home(a)' = Home(a)
      BY <1>1 DEF Home, Moved, InTenured
    <2> QED
      BY <1>1, <1>2, <2>1, <2>2 DEF OnePlace
  <1>4. /\ absRoot = [i \in Roots |-> root[i]] /\ Shows(absObjs, Survivors, hdr, heap)
    BY <1>1, <1>2, MovingView DEF Moving
  <1>5. /\ absRoot' = [i \in Roots |-> root[i]] /\ Shows(absObjs', Survivors, hdr, heap)
    <2>1. (Moving /\ OnePlace => /\ absRoot = [i \in Roots |-> root[i]]
                                 /\ Shows(absObjs, Survivors, hdr, heap))'
      BY MovingView, PTL
    <2>2. absRoot' = [i \in Roots |-> root'[i]] /\ Shows(absObjs', Survivors', hdr', heap')
      BY <1>1, <1>3, <2>1 DEF Shows, Body, Moving
    <2> QED
      BY <1>1, <1>3, <2>2
  <1>6. Agree(Survivors, hdr, heap, Survivors, hdr, heap)
    BY DEF Agree
  <1> QED
    BY <1>4, <1>5, <1>6, SameShown

-----------------------------------------------------------------------------
(* The steps between collections. *)

LEMMA HeldView ==
  ASSUME IInv, pc = "run"
  PROVE  Held = ObjMemory!Held
  <1>1. Plain /\ AtRest
    BY DEF Plain, AtRest, Scanning
  <1>2. /\ absRoot = [i \in Roots |-> root[i]] /\ DOMAIN absObjs = DOMAIN heap
        /\ \A a \in DOMAIN heap : absObjs[a] = Body(heap[a])
    BY <1>1, PlainView
  <1>3. \A a \in DOMAIN heap : ObjMemory!Fields(absObjs[a]) = Fields(heap[a])
    BY <1>2 DEF ObjMemory!Fields, Fields, Body
  <1>4. \A i \in Roots : CELL_P(root[i]) => root[i] \in DOMAIN heap
    BY <1>1, RestFacts DEF ClosedFromRoots
  <1>5. {j \in Roots : CELL_P(root[j])} = {j \in Roots : ObjMemory!IsCell(absRoot[j])}
    BY <1>2 DEF CELL_P, ObjMemory!IsCell
  <1>6. \A i \in {j \in Roots : CELL_P(root[j])} :
          ObjMemory!Fields(absObjs[absRoot[i]]) = Fields(heap[root[i]])
    BY <1>2, <1>3, <1>4
  <1>7. {absRoot[i] : i \in Roots} = {root[i] : i \in Roots}
    BY <1>2
  <1> QED
    BY <1>5, <1>6, <1>7 DEF Held, ObjMemory!Held

LEMMA ClientAssigns ==
  ASSUME IInv, Client
  PROVE  ObjMemory!Next
  <1>1. pc = "run" /\ Plain /\ Plain' /\ AtRest
    BY DEF Client, Assign, Redefine, Plain, AtRest, Scanning
  <1>2. /\ absRoot = [i \in Roots |-> root[i]] /\ absRoot' = [i \in Roots |-> root'[i]]
        /\ absObjs = [a \in DOMAIN heap |-> Body(heap[a])]
        /\ absObjs' = [a \in DOMAIN heap' |-> Body(heap'[a])]
    <2>1. (Plain => /\ absRoot = [i \in Roots |-> root[i]]
                    /\ absObjs = [a \in DOMAIN heap |-> Body(heap[a])])'
      BY PlainView, PTL
    <2> QED
      BY <1>1, <2>1, PlainView DEF Body
  <1>3. /\ root \in [Roots -> Value] /\ ClosedFromRoots(DOMAIN heap)
        /\ heap \in [DOMAIN heap -> Object]
    <2>1. Graph
      BY <1>1, RestFacts
    <2> QED
      BY <2>1 DEF Graph
  <1>4. ASSUME NEW i \in Roots, NEW v \in Held, Assign(i, v)
        PROVE  ObjMemory!Next
    <2>1. v \in ObjMemory!Held
      BY <1>1, HeldView
    <2>2. root' = [root EXCEPT ![i] = v] /\ heap' = heap
      BY <1>4 DEF Assign
    <2>3. absRoot' = [absRoot EXCEPT ![i] = v] /\ absObjs' = absObjs
      BY <1>2, <1>3, <2>2
    <2> QED
      BY <2>1, <2>3 DEF ObjMemory!Next, ObjMemory!Assign
  <1>5. ASSUME NEW i \in Roots, NEW j \in Roots, Redefine(i, j)
        PROVE  ObjMemory!Next
    <2> DEFINE e == heap[root[i]].car
               v == root[j]
               o == absObjs[e]
    <2>1. /\ CELL_P(root[i]) /\ CELL_P(e) /\ heap[e].type = "pair"
          /\ heap' = [heap EXCEPT ![e].cdr = v] /\ root' = root
      BY <1>5 DEF Redefine
    <2>2. root[i] \in DOMAIN heap /\ e \in DOMAIN heap /\ heap[e] \in Object
      BY <1>3, <2>1 DEF ClosedFromRoots, Fields
    <2>3. absObjs[absRoot[i]].car = e /\ absObjs[e].type = "pair" /\ absRoot[j] = v
          /\ absRoot[i] = root[i] /\ absRoot' = absRoot
      BY <1>2, <2>1, <2>2 DEF Body
    <2> HIDE DEF e, v
    <2>4. /\ DOMAIN heap' = DOMAIN heap /\ heap'[e] = [heap[e] EXCEPT !.cdr = v]
          /\ \A x \in DOMAIN heap : x # e => heap'[x] = heap[x]
      BY <2>1, <2>2
    <2>5. o = Body(heap[e]) /\ [o EXCEPT !.cdr = v] = Body(heap'[e])
      BY <1>2, <2>2, <2>4 DEF Body, Object
    <2>6. absObjs' = [absObjs EXCEPT ![e] = [o EXCEPT !.cdr = v]]
      <3> HIDE DEF o
      <3> QED
        BY <1>2, <2>2, <2>4, <2>5
    <2>7. absObjs' = [absObjs EXCEPT ![e].cdr = v]
      BY <2>6 DEF o
    <2>8. ObjMemory!Redefine(i, j)
      BY <2>1, <2>3, <2>7 DEF ObjMemory!Redefine, ObjMemory!IsCell, CELL_P
    <2> QED
      BY <2>8 DEF ObjMemory!Next
  <1> QED
    BY <1>4, <1>5 DEF Client

LEMMA AllocateMakes ==
  ASSUME IInv, AtRest, NEW r \in Requests, IS_ALLOCATABLE_NERSARY(r.size), Allocate(r)
  PROVE  ObjMemory!Next
  <1> DEFINE m    == Memory
             f    == from_space
             size == AllocateSize(r.size)
             b    == m.ntop
             o    == NewObject(r, size)
             A    == Body(o)
  <1>1. /\ pc' = "run" /\ heap' = Overwrite(heap, b, o) /\ root' = [root EXCEPT ![r.dst] = b]
        /\ m.heap = heap
    BY MemoryRecord DEF Allocate
  <1>2. \A a \in DOMAIN m.heap : a # b /\ (End(m, a) <= b \/ b + size <= a)
    BY NurseryHasRoom
  <1>3. A = [type |-> r.type, car |-> IF r.type = "pair" THEN root[r.a] ELSE IMM,
                              cdr |-> IF r.type = "pair" THEN root[r.d] ELSE IMM]
        /\ o.size = size
    BY DEF NewObject, Body
  <1>8. /\ absRoot = [i \in Roots |-> root[i]] /\ absRoot' = [i \in Roots |-> root'[i]]
        /\ absObjs = [a \in DOMAIN heap |-> Body(heap[a])]
        /\ absObjs' = [a \in DOMAIN heap' |-> Body(heap'[a])]
    <2>1. (Plain => /\ absRoot = [i \in Roots |-> root[i]]
                    /\ absObjs = [a \in DOMAIN heap |-> Body(heap[a])])'
      BY PlainView, PTL
    <2>2. Plain /\ Plain'
      BY <1>1 DEF Plain, AtRest, Scanning
    <2> QED
      BY <2>1, <2>2, PlainView DEF Body
  <1>4. A = Body(o)
    OBVIOUS
  <1> HIDE DEF m, size, o, b, A
  <1>5. b \notin DOMAIN heap /\ \A x \in DOMAIN heap : x + heap[x].size <= b \/ b + o.size <= x
    BY <1>1, <1>2, <1>3 DEF End
  <1>6. heap' = [x \in DOMAIN heap \cup {b} |-> IF x = b THEN o ELSE heap[x]]
    BY <1>1, <1>5 DEF Overwrite
  <1>7. root \in [Roots -> Value]
    BY DEF IInv, Typing
  <1>9. absObjs' = [x \in DOMAIN absObjs \cup {b} |-> IF x = b THEN A ELSE absObjs[x]]
    BY <1>4, <1>5, <1>6, <1>8
  <1>10. b \notin DOMAIN absObjs /\ b \in DOMAIN absObjs'
    BY <1>5, <1>8, <1>9
  <1>11. /\ r.dst \in Roots /\ r.a \in Roots /\ r.d \in Roots /\ r.type \in {"leaf", "pair"}
         /\ r.type = "pair" => r.dst = r.a
    BY RequestFacts DEF Requests, LeafRequests, PairRequests
  <1>12. absRoot' = [absRoot EXCEPT ![r.dst] = b]
    BY <1>1, <1>7, <1>8, <1>11
  <1>13. ObjMemory!New(r.dst, A)
    BY <1>9, <1>10, <1>12 DEF ObjMemory!New
  <1>14. CASE r.type = "leaf"
    <2>1. A = ObjMemory!Leaf
      BY <1>3, <1>14 DEF ObjMemory!Leaf
    <2> QED
      BY <1>11, <1>13, <2>1 DEF ObjMemory!Next, ObjMemory!NewLeaf
  <1>15. CASE r.type = "pair"
    <2>1. A = ObjMemory!Pair(absRoot[r.a], absRoot[r.d])
      BY <1>3, <1>8, <1>11, <1>15 DEF ObjMemory!Pair
    <2> QED
      BY <1>11, <1>13, <1>15, <2>1 DEF ObjMemory!Next, ObjMemory!NewPair
  <1> QED
    BY <1>11, <1>14, <1>15

LEMMA PlainStutters ==
  ASSUME Plain, Plain', UNCHANGED <<root, heap>>
  PROVE  UNCHANGED <<absRoot, absObjs>>
  <1>1. (Plain => /\ absRoot = [i \in Roots |-> root[i]]
                  /\ absObjs = [a \in DOMAIN heap |-> Body(heap[a])])'
    BY PlainView, PTL
  <1>2. absRoot = [i \in Roots |-> root[i]] /\ absObjs = [a \in DOMAIN heap |-> Body(heap[a])]
    BY PlainView
  <1>3. absRoot' = [i \in Roots |-> root'[i]] /\ absObjs' = [a \in DOMAIN heap' |-> Body(heap'[a])]
    BY <1>1 DEF Body
  <1> QED
    BY <1>2, <1>3

LEMMA MinorStutters ==
  ASSUME InMinor, InMinor', Memory' = Memory, UNCHANGED <<root, heap, from_space>>
  PROVE  UNCHANGED <<absRoot, absObjs>>
  <1> DEFINE m == Memory
             f == from_space
  <1>1. /\ absRoot = [i \in Roots |-> Stands(m, f, root[i])]
        /\ absObjs = [a \in DOMAIN heap \ Homes(m, f) |-> Look(m, f, a)]
    BY MinorView
  <1>2. /\ absRoot' = [i \in Roots |-> Stands(m, f, root[i])]
        /\ absObjs' = [a \in DOMAIN heap \ Homes(m, f) |-> Look(m, f, a)]
    <2>1. (InMinor => /\ absRoot = [i \in Roots |-> Stands(Memory, from_space, root[i])]
                      /\ absObjs = [a \in DOMAIN heap \ Homes(Memory, from_space)
                                      |-> Look(Memory, from_space, a)])'
      BY MinorView, PTL
    <2> QED
      BY <2>1
  <1> QED
    BY <1>1, <1>2

LEMMA SameStateStutters ==
  ASSUME UNCHANGED vars
  PROVE  UNCHANGED <<absRoot, absObjs>>
  <1>1. UNCHANGED <<root, heap, pc, hdr, from_space, marked, scanned, new_top>>
    BY DEF vars
  <1>2. absRoot' = absRoot
    BY <1>1 DEF absRoot, View, InMinor, Original, CopiedCells, InFromSpace
  <1>3. absObjs' = absObjs
    BY <1>1 DEF absObjs, View, Viewed, InMinor, Resettling, Original, Originals, CopiedCells,
                InFromSpace, InTenured, Survivors, Home, Moved
  <1> QED
    BY <1>2, <1>3

-----------------------------------------------------------------------------
(* The collector implements the abstract memory. *)

LEMMA AbstractInit == Init => ObjMemory!Init
  <1> SUFFICES ASSUME Init PROVE ObjMemory!Init
    OBVIOUS
  <1>1. root = [i \in Roots |-> IMM] /\ heap = <<>> /\ Plain
    BY DEF Init, BaseInit, Plain, Scanning
  <1>2. absRoot = [i \in Roots |-> root[i]] /\ absObjs = [a \in DOMAIN heap |-> Body(heap[a])]
    BY <1>1, PlainView
  <1>3. absObjs = <<>>
    BY <1>1, <1>2
  <1> QED
    BY <1>1, <1>2, <1>3 DEF ObjMemory!Init

LEMMA MutatorNext ==
  ASSUME ~TenuredRedefined, IInv, Mutator
  PROVE  ObjMemory!Next \/ UNCHANGED <<absRoot, absObjs>>
  <1>1. ASSUME NEW i \in Roots, NEW v \in Held, Assign(i, v), pc = "run"
        PROVE  ObjMemory!Next
    <2>1. Client
      BY <1>1 DEF Client
    <2> QED
      BY <2>1, ClientAssigns
  <1>2. ASSUME NEW i \in Roots, NEW j \in Roots, RedefineWithBarrier(i, j), pc = "run"
        PROVE  ObjMemory!Next
    <2>1. Redefine(i, j)
      BY <1>2, RedefineStores
    <2>2. Client
      BY <1>2, <2>1 DEF Client
    <2> QED
      BY <2>2, ClientAssigns
  <1>3. ASSUME NEW i \in Roots, NEW j \in Roots, BarrierFaults(i, j), pc = "run"
        PROVE  UNCHANGED <<absRoot, absObjs>>
    BY <1>3, PlainStutters DEF BarrierFaults, Plain, Scanning
  <1> QED
    BY <1>1, <1>2, <1>3 DEF Mutator

LEMMA AbstractNext ==
  ASSUME ~TenuredRedefined
  PROVE  IInv /\ IInv' /\ CInv /\ [Next]_vars => [ObjMemory!Next]_(ObjMemory!memVars)
  <1> SUFFICES ASSUME IInv, IInv', CInv, [Next]_vars
               PROVE  ObjMemory!Next \/ UNCHANGED <<absRoot, absObjs>>
    BY DEF ObjMemory!memVars
  <1>1. CASE Mutator
    BY <1>1, MutatorNext
  <1>2. ASSUME NEW r \in Requests, MallocFast(r)
        PROVE  ObjMemory!Next
    <2>1. AtRest /\ IS_ALLOCATABLE_NERSARY(r.size) /\ Allocate(r)
      BY <1>2 DEF MallocFast, NeedsGC, AtRest
    <2> QED
      BY <2>1, AllocateMakes
  <1>3. CASE MallocRetry
    <2>1. AtRest /\ req \in Requests /\ IS_ALLOCATABLE_NERSARY(req.size) /\ Allocate(req)
      BY <1>3 DEF MallocRetry, CanAllocate, AtRest, IInv, StateOK, Phases, Ends
    <2> QED
      BY <2>1, AllocateMakes
  <1>4. ASSUME NEW r \in Requests, GCStart(r)
        PROVE  UNCHANGED <<absRoot, absObjs>>
    BY <1>4, StartStutters
  <1>5. CASE CopyRoot \/ ScanRemembered \/ ScanNersary \/ ScanTenured
    BY <1>5, CopyingStutters
  <1>6. CASE RootsCopied \/ ScanNext
    <2>1. UNCHANGED <<root, heap, hdr, from_space, nersary_top, tenured_top, remembered_set>>
      BY <1>6 DEF RootsCopied, ScanNext, genVars
    <2>2. Memory' = Memory
      BY <2>1 DEF Memory
    <2>3. InMinor /\ InMinor'
      BY <1>6 DEF RootsCopied, ScanNext, InMinor
    <2> QED
      BY <2>1, <2>2, <2>3, MinorStutters
  <1>7. CASE Swap
    BY <1>7, SwapCollects DEF ObjMemory!Next
  <1>8. CASE MajorOrNot \/ Exhausted
    <2>1. UNCHANGED <<root, heap>> /\ Plain /\ Plain'
      BY <1>8 DEF MajorOrNot, Exhausted, Plain, Scanning
    <2> QED
      BY <2>1, PlainStutters
  <1>9. CASE MarkPhase
    <2>1. UNCHANGED <<root, heap>> /\ Plain /\ Plain'
      BY <1>9 DEF MarkPhase, MarkRoot, RootsMarked, MarkNext, MarkTo, Plain, Scanning
    <2> QED
      BY <2>1, PlainStutters
  <1>10. CASE calc_new_address
    BY <1>10, PlanCollects DEF ObjMemory!Next
  <1>11. CASE update_pointer
    BY <1>11, UpdatePointerStutters
  <1>12. CASE SlideCell \/ SlideDead
    BY <1>12, SlideCellStutters, SlideDeadStutters
  <1>13. CASE SlideEnd \/ SlideEndHurts
    BY <1>13, SlideEndStutters, SlideEndHurtsStutters
  <1>14. CASE UNCHANGED vars
    BY <1>14, SameStateStutters
  <1> QED
    BY <1>1, <1>2, <1>3, <1>4, <1>5, <1>6, <1>7, <1>8, <1>9, <1>10, <1>11, <1>12, <1>13, <1>14
       DEF Next, Collector, Terminated

\* Behind gc_malloc_generational the program sees the abstract memory: minor
\* collections, promotions and the slide of a major collection move cells, but the
\* graph of cells keeps its shape and contents, as long as no variable whose
\* binding is tenured is redefined.
THEOREM MemoryIsImplemented ==
  ASSUME ~TenuredRedefined
  PROVE  Spec => ImplementsObjectMemory
  <1>1. Init => ObjMemory!Init
    BY AbstractInit
  <1>2. Init => IInv /\ CInv
    <2>1. Init => IInv
      BY InitKeeps
    <2>2. Init => CInv
      BY DEF Init, BaseInit, CInv, Scanning
    <2> QED
      BY <2>1, <2>2
  <1>3. IInv /\ CInv /\ [Next]_vars => IInv' /\ CInv'
    BY NextKeeps, CInvNext
  <1>4. IInv /\ IInv' /\ CInv /\ [Next]_vars => [ObjMemory!Next]_(ObjMemory!memVars)
    BY AbstractNext
  <1> QED
    BY <1>1, <1>2, <1>3, <1>4, PTL DEF Spec, ImplementsObjectMemory, ObjMemory!Spec
=============================================================================
