-------------------------- MODULE MarkSweepGC_proofs --------------------------
(***************************************************************************)
(* The mark-sweep collector: the arena stays tiled and the free list in    *)
(* order also in the middle of a sweep, no live cell is freed, stale mark  *)
(* bits of free chunks never hide a cell, and behind gc_malloc the program *)
(* sees the abstract memory.                                               *)
(*                                                                         *)
(* The invariant follows the sweep: behind scan nothing is marked and the  *)
(* new list ends at chunk_top, ahead of it the marks tell the live cells   *)
(* from the others.                                                        *)
(***************************************************************************)
EXTENDS MarkSweepGC, Collectors_proofs

SizesOf(h) == [a \in DOMAIN h |-> h[a].size]

\* Cells and chunks tile the arena, and none is too small for a free_chunk.
ArenaOK ==
  /\ chunks \in [DOMAIN chunks -> Nat]
  /\ Parts(SizesOf(heap), chunks, Base, Limit)
  /\ \A a \in Blocks : Base <= a /\ a + SizeAt(a) <= Limit
  /\ \A a \in DOMAIN heap : heap[a].size >= FreeChunkSize

\* The list is in address order and no chunk on it touches the next.
ListOK ==
  /\ freelist \in Seq(Nat) /\ Sorted(freelist)
  /\ Elems(freelist) \subseteq DOMAIN chunks
  /\ \A c, d \in Elems(freelist) : c + chunks[c] # d

CellsOK ==
  /\ root \in [Roots -> Value]
  /\ heap \in [DOMAIN heap -> Object]
  /\ DOMAIN heap \subseteq Nat /\ IsFiniteSet(DOMAIN heap)
  /\ ClosedFromRoots(Kept)

\* No set of fewer cells is closed: what is kept is live.
KeptLeast == \A S \in SUBSET Kept : ClosedFromRoots(S) => Kept \subseteq S

Collecting == pc \in {"roots", "mark", "sweep"}
Searching  == pc \in {"run", "alloc", "retry"}

StateOK ==
  /\ pc \in {"run", "roots", "mark", "sweep", "alloc", "retry", "exited", "overflowed"}
  /\ IF pc = "run" THEN req = NoReq /\ after = "run" ELSE req \in Requests
  /\ after \in {"run", "alloc", "retry"} /\ (Collecting => after # "run")
  /\ k \in 1 .. (NRoots + 1) /\ g_GC_stress \in BOOLEAN /\ scan \in Nat
  /\ pc # "sweep" => chunk_top = NULL

\* Marks are on blocks; outside a collection on listed chunks only.
MarksOK ==
  /\ marked \subseteq Blocks
  /\ Searching => marked \subseteq Elems(freelist)

\* Behind scan no block is marked, and the new list, if begun, ends at chunk_top.
SweepOK ==
  /\ scan \in Blocks \/ scan = Limit
  /\ mark_stack = <<>>
  /\ \A a \in Blocks : a < scan => a \notin marked
  /\ chunk_top # NULL => /\ chunk_top \in Elems(freelist) /\ chunk_top < scan
                         /\ \A c \in Elems(freelist) : c <= chunk_top

IInv == /\ CellsOK /\ ArenaOK /\ ListOK /\ StateOK /\ MarksOK /\ MarkInv
        /\ pc = "sweep" => SweepOK
        /\ pc \in {"sweep", "alloc", "retry", "exited"} => KeptLeast
        /\ pc = "exited" => Fitting(req).chunk = NULL

-----------------------------------------------------------------------------
(* The arena and the list. *)

LEMMA ArenaSize ==
  Base \in Nat /\ Limit \in Nat /\ FreeChunkSize \in Nat \ {0} /\ Base + FreeChunkSize <= Limit
  BY MarkStackAssumption, HeapSizeAssumption, FreeChunkAssumption, ChunkAssumption
     DEF Base, Limit

LEMMA SizeFacts ==
  ASSUME NEW r \in Requests
  PROVE  AllocateSize(r.size) \in Nat \ {0} /\ FreeChunkSize <= AllocateSize(r.size)
  <1>1. FreeChunkSize <= AllocateSize(r.size) /\ r.size \in Nat
    BY RequestFacts, ChunkAssumption
  <1>2. AllocateSize(r.size) \in Int
    BY <1>1, HeaderAssumption DEF AllocateSize
  <1> QED
    BY <1>1, <1>2, FreeChunkAssumption

LEMMA BothBlocks ==
  /\ DOMAIN Both(SizesOf(heap), chunks) = Blocks
  /\ \A a \in Blocks : Both(SizesOf(heap), chunks)[a] = SizeAt(a)
  /\ DOMAIN SizesOf(heap) = DOMAIN heap
  /\ \A a \in DOMAIN heap : SizesOf(heap)[a] = heap[a].size
  BY DEF Both, SizesOf, Blocks, SizeAt

LEMMA BlockFacts ==
  ASSUME ArenaOK
  PROVE  /\ \A a \in Blocks : /\ a \in Nat /\ SizeAt(a) \in Nat \ {0}
                              /\ a + SizeAt(a) = Limit \/ a + SizeAt(a) \in Blocks
                              /\ SizeAt(a) >= FreeChunkSize
         /\ \A a, b \in Blocks : a < b => a + SizeAt(a) <= b
         /\ Base \in Blocks
         /\ DOMAIN heap \cap DOMAIN chunks = {}
         /\ \A a \in DOMAIN heap : a \in Blocks /\ SizeAt(a) = heap[a].size
         /\ \A c \in DOMAIN chunks : c \in Blocks /\ SizeAt(c) = chunks[c]
         /\ SizesType(chunks) /\ Apart(chunks)
  <1> DEFINE s == Both(SizesOf(heap), chunks)
  <1>1. /\ Tiles(s, Base, Limit) /\ DOMAIN SizesOf(heap) \cap DOMAIN chunks = {}
        /\ \A x \in DOMAIN chunks : chunks[x] >= FreeChunkSize
    BY DEF ArenaOK, Parts
  <1>2. DOMAIN s = Blocks /\ \A a \in Blocks : s[a] = SizeAt(a)
    BY BothBlocks
  <1> HIDE DEF s
  <1>3. DOMAIN heap \cap DOMAIN chunks = {}
    BY <1>1, BothBlocks
  <1>4. \A a \in DOMAIN heap : a \in Blocks /\ SizeAt(a) = heap[a].size
    BY DEF Blocks, SizeAt
  <1>5. \A c \in DOMAIN chunks : c \in Blocks /\ SizeAt(c) = chunks[c]
    BY <1>3 DEF Blocks, SizeAt
  <1>6. \A a \in Blocks : SizeAt(a) >= FreeChunkSize
    BY <1>1, <1>4, <1>5 DEF ArenaOK, Blocks
  <1>7. SizesType(chunks) /\ Apart(chunks)
    BY PartsFacts DEF ArenaOK
  <1> QED
    BY <1>1, <1>2, <1>3, <1>4, <1>5, <1>6, <1>7 DEF Tiles, Apart

\* Outside the sweep all cells are kept.
LEMMA NotSweeping ==
  ASSUME pc # "sweep"
  PROVE  Kept = DOMAIN heap /\ (CellsOK <=> Graph)
  <1>1. Kept = DOMAIN heap
    BY DEF Kept
  <1> QED
    BY <1>1 DEF CellsOK, Graph

LEMMA NotSweepingNext ==
  ASSUME pc' # "sweep"
  PROVE  Kept' = DOMAIN heap' /\ (Graph' => CellsOK')
  <1>1. Kept' = DOMAIN heap'
    BY DEF Kept
  <1> QED
    BY <1>1 DEF CellsOK, Graph

\* What is kept, and its references, stay as they are.
LEMMA KeptSame ==
  ASSUME Kept' = Kept, root' = root, \A a \in Kept : heap'[a] = heap[a]
  PROVE  /\ ClosedFromRoots(Kept) => ClosedFromRoots(Kept)'
         /\ KeptLeast => KeptLeast'
  <1>1. ClosedFromRoots(Kept) => ClosedFromRoots(Kept)'
    BY DEF ClosedFromRoots
  <1>2. ASSUME KeptLeast, NEW S \in SUBSET Kept, ClosedFromRoots(S)'
        PROVE  Kept \subseteq S
    <2>1. ClosedFromRoots(S)
      BY <1>2 DEF ClosedFromRoots
    <2> QED
      BY <1>2, <2>1 DEF KeptLeast
  <1> QED
    BY <1>1, <1>2 DEF KeptLeast

LEMMA StoreSame ==
  ASSUME UNCHANGED <<heap, chunks, freelist>>
  PROVE  /\ ArenaOK => ArenaOK'
         /\ ListOK => ListOK'
         /\ Blocks' = Blocks
  BY DEF ArenaOK, ListOK, Blocks, SizeAt

LEMMA StackInMore ==
  ASSUME NEW S, NEW T, S \subseteq T, NEW s \in Seq(S)
  PROVE  s \in Seq(T)
  OBVIOUS

-----------------------------------------------------------------------------
(* gc_malloc_marksweep *)

\* The chunk that is taken, and what becomes of the list.
LEMMA TakenFacts ==
  ASSUME ArenaOK, ListOK, NEW r \in Requests, NEW got, got = Fitting(r), got.chunk # NULL
  PROVE  /\ got.chunk \in Elems(freelist) /\ got.chunk \in DOMAIN chunks
         /\ got.chunk \in Nat \ DOMAIN heap
         /\ got.size \in Nat \ {0} /\ FreeChunkSize <= got.size /\ got.size <= chunks[got.chunk]
         /\ got.list \in Seq(Nat) /\ Sorted(got.list)
         /\ \/ TakesWhole(got, freelist, chunks, got.chunk)
            \/ TakesPart(got, freelist, chunks, got.chunk, AllocateSize(r.size))
  <1> DEFINE n == AllocateSize(r.size)
             c == got.chunk
  <1>1. n \in Nat \ {0} /\ FreeChunkSize <= n /\ FreeChunkSize \in Nat \ {0}
    BY SizeFacts, ArenaSize
  <1>2. SizesType(chunks) /\ Apart(chunks) /\ DOMAIN heap \cap DOMAIN chunks = {}
    BY BlockFacts
  <1>3. got = GetFreeChunk(freelist, chunks, n)
    BY DEF Fitting
  <1>4. freelist \in Seq(Nat) /\ Elems(freelist) \subseteq DOMAIN chunks /\ Sorted(freelist)
    BY DEF ListOK
  <1> HIDE DEF n
  <1>5. /\ c \in Elems(freelist)
        /\ n <= chunks[c]
        /\ got.list \in Seq(Nat) /\ Sorted(got.list)
        /\ \/ TakesWhole(got, freelist, chunks, c)
           \/ TakesPart(got, freelist, chunks, c, n)
    BY <1>1, <1>2, <1>3, <1>4, GetFreeChunkFacts
  <1> HIDE DEF c
  <1>6. c \in DOMAIN chunks /\ c \in Nat /\ c \notin DOMAIN heap /\ chunks[c] \in Nat
    BY <1>2, <1>4, <1>5 DEF SizesType
  <1>7. got.size = chunks[c] \/ got.size = n
    BY <1>5 DEF TakesWhole, TakesPart
  <1> QED
    BY <1>1, <1>5, <1>6, <1>7 DEF c, n

\* The list after that: in order, chunks only, none touching the next.
LEMMA TakenList ==
  ASSUME ArenaOK, ListOK, NEW r \in Requests, NEW got, got = Fitting(r), got.chunk # NULL
  PROVE  /\ Elems(got.list) \subseteq DOMAIN got.sizes
         /\ \A c, d \in Elems(got.list) : c + got.sizes[c] # d
         /\ Elems(freelist) \ {got.chunk} \subseteq Elems(got.list)
         /\ got.rest # NULL => got.rest \in Elems(got.list)
  <1> DEFINE n == AllocateSize(r.size)
             c == got.chunk
             E == Elems(freelist)
             e == c + n
  <1>1. /\ c \in E /\ c \in DOMAIN chunks
        /\ TakesWhole(got, freelist, chunks, c) \/ TakesPart(got, freelist, chunks, c, n)
    BY TakenFacts
  <1>2. n \in Nat \ {0} /\ FreeChunkSize \in Nat \ {0}
    BY SizeFacts, ArenaSize
  <1>3. /\ E \subseteq DOMAIN chunks
        /\ \A x, y \in E : x + chunks[x] # y
        /\ \A x \in DOMAIN chunks : x \in Nat /\ chunks[x] \in Nat
        /\ \A x, y \in DOMAIN chunks : x < y => x + chunks[x] <= y
    BY BlockFacts DEF ListOK, SizesType, Apart
  <1> HIDE DEF n, c, E
  <1>4. CASE TakesWhole(got, freelist, chunks, c)
    <2>1. got.rest = NULL /\ got.sizes = Drop(chunks, c) /\ Elems(got.list) = E \ {c}
      BY <1>4 DEF TakesWhole, E
    <2>2. DOMAIN got.sizes = DOMAIN chunks \ {c} /\ \A x \in DOMAIN got.sizes : got.sizes[x] = chunks[x]
      BY <2>1 DEF Drop
    <2> QED
      BY <1>3, <2>1, <2>2 DEF E, c
  <1>5. CASE TakesPart(got, freelist, chunks, c, n)
    <2>1. /\ got.rest = e /\ n + FreeChunkSize <= chunks[c]
          /\ got.sizes = WithSize(Drop(chunks, c), e, chunks[c] - n)
          /\ Elems(got.list) = (E \ {c}) \cup {e}
      BY <1>5 DEF TakesPart, E
    <2>2. e \in Nat /\ c < e /\ e < c + chunks[c] /\ c \in Nat /\ chunks[c] \in Nat
      BY <1>1, <1>2, <1>3, <2>1
    <2>3. e \notin DOMAIN chunks
      BY <1>1, <1>3, <2>2
    <2>4. /\ DOMAIN got.sizes = (DOMAIN chunks \ {c}) \cup {e}
          /\ got.sizes[e] = chunks[c] - n
          /\ \A x \in DOMAIN chunks : x # c => got.sizes[x] = chunks[x]
      BY <2>1, <2>3 DEF WithSize, Drop
    <2>5. e + got.sizes[e] = c + chunks[c]
      BY <1>2, <2>2, <2>4
    <2> HIDE DEF e
    <2>6. \A x \in E \ {c} : x + chunks[x] # e
      <3> SUFFICES ASSUME NEW x \in E \ {c} PROVE x + chunks[x] # e
        OBVIOUS
      <3>1. x \in DOMAIN chunks /\ x \in Nat /\ chunks[x] \in Nat /\ (x < c \/ c < x)
        BY <1>3, <2>2
      <3> QED
        BY <1>1, <1>3, <2>2, <3>1
    <2>7. \A x, y \in Elems(got.list) : x + got.sizes[x] # y
      <3> SUFFICES ASSUME NEW x \in (E \ {c}) \cup {e}, NEW y \in (E \ {c}) \cup {e}
                   PROVE  x + got.sizes[x] # y
        BY <2>1
      <3>1. CASE x = e /\ y = e
        BY <2>2, <2>5, <3>1
      <3>2. CASE x = e /\ y # e
        BY <1>1, <1>3, <2>5, <3>2
      <3>3. CASE x # e /\ y = e
        BY <1>3, <2>4, <2>6, <3>3
      <3>4. CASE x # e /\ y # e
        BY <1>3, <2>4, <3>4
      <3> QED
        BY <3>1, <3>2, <3>3, <3>4
    <2> QED
      BY <1>3, <2>1, <2>4, <2>7 DEF E, c
  <1> QED
    BY <1>1, <1>4, <1>5

\* The new cell destroys no other cell.
LEMMA AllocatedCells ==
  ASSUME ArenaOK, ListOK, NEW r \in Requests, Allocate(r)
  PROVE  Adds(r, Fitting(r).chunk, Fitting(r).size)
  <1> DEFINE got == Fitting(r)
             c == got.chunk
             o == NewObject(r, got.size)
  <1>1. /\ c # NULL /\ heap' = Overwrite(heap, c, o)
        /\ root' = [root EXCEPT ![r.dst] = c]
    BY DEF Allocate
  <1>2. /\ c \in DOMAIN chunks /\ c \in Nat \ DOMAIN heap
        /\ got.size \in Nat \ {0} /\ got.size <= chunks[c]
    BY <1>1, TakenFacts
  <1>3. o.size = got.size
    BY DEF NewObject
  <1> HIDE DEF got, c, o
  <1>4. ASSUME NEW x \in DOMAIN heap
        PROVE  x + heap[x].size <= c \/ c + o.size <= x
    <2>1. /\ x \in Blocks /\ c \in Blocks /\ SizeAt(x) = heap[x].size /\ SizeAt(c) = chunks[c]
          /\ x \in Nat /\ SizeAt(x) \in Nat /\ SizeAt(c) \in Nat
      BY <1>2, BlockFacts
    <2>2. x < c \/ c < x
      BY <1>2, <2>1
    <2>3. (x < c => x + SizeAt(x) <= c) /\ (c < x => c + SizeAt(c) <= x)
      BY <2>1, BlockFacts
    <2> QED
      BY <1>2, <1>3, <2>1, <2>2, <2>3
  <1>5. {x \in DOMAIN heap : x + heap[x].size <= c \/ c + o.size <= x} = DOMAIN heap
    BY <1>4
  <1>6. heap' = [x \in DOMAIN heap \cup {c} |-> IF x = c THEN o ELSE heap[x]]
    BY <1>1, <1>5, Zenon DEF Overwrite
  <1> QED
    BY <1>1, <1>6 DEF Adds, got, c, o

\* A cell takes the place of a chunk, or of its first bytes.
LEMMA AllocatedArena ==
  ASSUME ArenaOK, ListOK, Graph, NEW r \in Requests, Allocate(r)
  PROVE  ArenaOK'
  <1> DEFINE got == Fitting(r)
             c == got.chunk
             n == AllocateSize(r.size)
             u == SizesOf(heap)
             w == SizesOf(heap')
  <1>1. c # NULL /\ chunks' = got.sizes
    BY DEF Allocate
  <1>2. /\ c \in DOMAIN chunks /\ c \in Nat \ DOMAIN heap
        /\ got.size \in Nat \ {0} /\ FreeChunkSize <= got.size /\ got.size <= chunks[c]
        /\ TakesWhole(got, freelist, chunks, c) \/ TakesPart(got, freelist, chunks, c, n)
    BY <1>1, TakenFacts
  <1>3. Adds(r, c, got.size)
    BY AllocatedCells
  <1>4. n \in Nat \ {0}
    BY SizeFacts
  <1> HIDE DEF got, c, n
  <1>5. /\ DOMAIN heap' = DOMAIN heap \cup {c} /\ heap'[c].size = got.size
        /\ \A x \in DOMAIN heap : heap'[x] = heap[x]
    BY <1>2, <1>3, NewCellKeepsGraph
  <1>6. Parts(w, got.sizes, Base, Limit)
    <2>1. DOMAIN w = DOMAIN u \cup {c} /\ w[c] = got.size /\ \A x \in DOMAIN u : w[x] = u[x]
      BY <1>2, <1>5 DEF SizesOf
    <2>2. Parts(u, chunks, Base, Limit)
      BY DEF ArenaOK
    <2> HIDE DEF u, w
    <2> QED
      BY <1>2, <1>4, <2>1, <2>2, TakeParts
  <1>7. \A a \in DOMAIN heap' : heap'[a].size >= FreeChunkSize
    BY <1>2, <1>5 DEF ArenaOK
  <1>8. ASSUME NEW a \in Blocks'
        PROVE  Base <= a /\ a + SizeAt(a)' <= Limit
    <2>1. /\ c \in Blocks /\ SizeAt(c) = chunks[c] /\ c \in Nat /\ SizeAt(c) \in Nat
          /\ Base <= c /\ c + SizeAt(c) <= Limit
      BY <1>2, BlockFacts DEF ArenaOK
    <2>2. Base \in Nat /\ Limit \in Nat
      BY ArenaSize
    <2>3. CASE a \in DOMAIN heap
      <3>1. SizeAt(a)' = SizeAt(a) /\ a \in Blocks
        BY <1>5, <2>3 DEF SizeAt, Blocks
      <3> QED
        BY <3>1 DEF ArenaOK
    <2>4. CASE a = c
      <3>1. SizeAt(a)' = got.size
        BY <1>5, <2>4 DEF SizeAt
      <3> QED
        BY <1>2, <2>1, <2>2, <2>4, <3>1
    <2>5. CASE a \in DOMAIN got.sizes /\ a \notin DOMAIN heap /\ a # c
      <3>1. SizeAt(a)' = got.sizes[a]
        BY <1>1, <1>5, <2>5 DEF SizeAt
      <3>2. CASE a \in DOMAIN chunks /\ got.sizes[a] = chunks[a]
        BY <2>5, <3>1, <3>2, BlockFacts DEF ArenaOK
      <3>3. CASE TakesPart(got, freelist, chunks, c, n) /\ a = c + n
        <4>1. got.sizes[a] = chunks[c] - n
          BY <3>3 DEF TakesPart, WithSize
        <4> QED
          BY <1>4, <2>1, <2>2, <3>1, <3>3, <4>1
      <3>4. CASE TakesWhole(got, freelist, chunks, c)
        <4>1. got.sizes = Drop(chunks, c)
          BY <3>4 DEF TakesWhole
        <4>2. a \in DOMAIN chunks /\ got.sizes[a] = chunks[a]
          BY <2>5, <4>1 DEF Drop
        <4> QED
          BY <3>2, <4>2
      <3>5. CASE TakesPart(got, freelist, chunks, c, n) /\ a # c + n
        <4>1. got.sizes = WithSize(Drop(chunks, c), c + n, chunks[c] - n)
          BY <3>5 DEF TakesPart
        <4>2. a \in DOMAIN chunks /\ got.sizes[a] = chunks[a]
          BY <2>5, <3>5, <4>1 DEF WithSize, Drop
        <4> QED
          BY <3>2, <4>2
      <3> QED
        BY <1>2, <3>3, <3>4, <3>5
    <2> QED
      BY <1>1, <1>5, <2>3, <2>4, <2>5 DEF Blocks
  <1>9. got.sizes \in [DOMAIN got.sizes -> Nat]
    <2>1. SizesType(chunks) /\ chunks[c] \in Nat
      BY <1>2, BlockFacts DEF SizesType
    <2>2. CASE TakesWhole(got, freelist, chunks, c)
      <3>1. got.sizes = Drop(chunks, c)
        BY <2>2 DEF TakesWhole
      <3> QED
        BY <2>1, <3>1 DEF Drop, SizesType
    <2>3. CASE TakesPart(got, freelist, chunks, c, n)
      <3>1. /\ got.sizes = WithSize(Drop(chunks, c), c + n, chunks[c] - n)
            /\ n + FreeChunkSize <= chunks[c]
        BY <2>3 DEF TakesPart
      <3>2. chunks[c] - n \in Nat
        BY <1>4, <2>1, <3>1, ArenaSize
      <3> QED
        BY <2>1, <3>1, <3>2 DEF WithSize, Drop, SizesType
    <2> QED
      BY <1>2, <2>2, <2>3
  <1> QED
    BY <1>1, <1>6, <1>7, <1>8, <1>9 DEF ArenaOK

LEMMA AllocateKeeps ==
  ASSUME IInv, Searching, NEW r \in Requests, Allocate(r)
  PROVE  IInv'
  <1> DEFINE got == Fitting(r)
             c == got.chunk
  <1>1. /\ c # NULL
        /\ chunks' = got.sizes /\ freelist' = got.list /\ marked' \in MarksAfter(got)
        /\ pc' = "run" /\ req' = NoReq /\ after' = "run"
        /\ UNCHANGED <<k, g_GC_stress, mark_stack, scan, chunk_top>>
    BY DEF Allocate
  <1>2. ArenaOK /\ ListOK /\ StateOK /\ MarksOK /\ MarkInv /\ CellsOK /\ pc # "sweep"
    BY DEF IInv, Searching
  <1>3. Graph
    BY <1>2, NotSweeping
  <1>4. /\ c \in Elems(freelist) /\ c \in Nat \ DOMAIN heap
        /\ got.list \in Seq(Nat) /\ Sorted(got.list) /\ got.size \in Nat
    BY <1>1, <1>2, TakenFacts
  <1>5. /\ Elems(got.list) \subseteq DOMAIN got.sizes
        /\ \A x, y \in Elems(got.list) : x + got.sizes[x] # y
        /\ Elems(freelist) \ {c} \subseteq Elems(got.list)
        /\ got.rest # NULL => got.rest \in Elems(got.list)
    BY <1>1, <1>2, TakenList
  <1>6. Adds(r, c, got.size)
    BY <1>2, AllocatedCells
  <1>7. ArenaOK'
    BY <1>2, <1>3, AllocatedArena
  <1> HIDE DEF got, c
  <1>8. Graph' /\ DOMAIN heap' = DOMAIN heap \cup {c}
    BY <1>3, <1>4, <1>6, NewCellKeepsGraph
  <1>9. CellsOK'
    BY <1>1, <1>8, NotSweepingNext
  <1>10. ListOK'
    BY <1>1, <1>4, <1>5 DEF ListOK
  <1>11. MarksOK'
    <2>1. PICK stale \in SUBSET ({got.rest} \ {NULL}) : marked' = (marked \ {c}) \cup stale
      BY <1>1 DEF MarksAfter, c
    <2>2. marked \subseteq Elems(freelist)
      BY <1>2 DEF MarksOK
    <2>3. marked' \subseteq Elems(got.list)
      BY <1>5, <2>1, <2>2
    <2>4. Elems(freelist') = Elems(got.list) /\ Elems(got.list) \subseteq Blocks'
      BY <1>1, <1>5 DEF Blocks
    <2> QED
      BY <2>3, <2>4 DEF MarksOK
  <1>12. MarkInv'
    <2>1. mark_stack' \in Seq(DOMAIN heap')
      BY <1>1, <1>2, <1>8, StackInMore DEF MarkInv
    <2> QED
      BY <1>1, <2>1 DEF MarkInv
  <1>13. StateOK'
    BY <1>1, <1>2 DEF StateOK, Collecting
  <1> QED
    BY <1>1, <1>7, <1>9, <1>10, <1>11, <1>12, <1>13 DEF IInv

-----------------------------------------------------------------------------
(* The program, and a collection up to the sweep. *)

LEMMA ClientKeeps ==
  ASSUME IInv, Client, UNCHANGED <<marked, mark_stack, sweepVars>>
  PROVE  IInv'
  <1>1. ArenaOK /\ ListOK /\ StateOK /\ MarksOK /\ MarkInv /\ CellsOK /\ pc = "run"
    BY DEF IInv, Client
  <1>2. UNCHANGED <<marked, mark_stack, chunks, freelist, after, scan, chunk_top>>
    BY DEF sweepVars
  <1>3. Graph
    BY <1>1, NotSweeping
  <1>4. /\ Graph' /\ UNCHANGED <<pc, req, k, g_GC_stress>>
        /\ DOMAIN heap' = DOMAIN heap
        /\ \A a \in DOMAIN heap : heap'[a].size = heap[a].size
    BY <1>3, ClientKeepsGraph
  <1>5. CellsOK'
    BY <1>1, <1>4, NotSweepingNext
  <1>6. SizesOf(heap') = SizesOf(heap) /\ Blocks' = Blocks
    BY <1>2, <1>4 DEF SizesOf, Blocks
  <1>7. \A a \in Blocks : SizeAt(a)' = SizeAt(a)
    BY <1>2, <1>4 DEF SizeAt
  <1>8. ArenaOK'
    BY <1>1, <1>2, <1>4, <1>6, <1>7 DEF ArenaOK
  <1>9. ListOK' /\ MarksOK' /\ StateOK'
    BY <1>1, <1>2, <1>4, <1>6 DEF ListOK, MarksOK, StateOK, Searching, Collecting
  <1>10. MarkInv'
    BY <1>1, <1>2, <1>4 DEF MarkInv
  <1> QED
    BY <1>1, <1>4, <1>5, <1>8, <1>9, <1>10 DEF IInv

\* A collection begins without a mark on a cell.
LEMMA StartKeeps ==
  ASSUME IInv, Searching, NEW r \in Requests, NEW ret \in {"alloc", "retry"}, StartGC(r, ret)
  PROVE  IInv'
  <1>1. /\ pc' = "roots" /\ req' = r /\ after' = ret /\ k' = 1 /\ mark_stack' = <<>>
        /\ UNCHANGED <<root, heap, g_GC_stress, marked, chunks, freelist, scan, chunk_top>>
    BY DEF StartGC
  <1>2. ArenaOK /\ ListOK /\ StateOK /\ MarksOK /\ CellsOK /\ pc # "sweep"
    BY DEF IInv, Searching
  <1>3. Graph
    BY <1>2, NotSweeping
  <1>4. Graph'
    BY <1>1, <1>3 DEF Graph, ClosedFromRoots
  <1>5. CellsOK'
    BY <1>1, <1>4, NotSweepingNext
  <1>6. ArenaOK' /\ ListOK' /\ Blocks' = Blocks
    BY <1>1, <1>2, StoreSame
  <1>7. StateOK'
    BY <1>1, <1>2, RootsAssumption DEF StateOK, Collecting
  <1>8. MarksOK'
    BY <1>1, <1>2, <1>6 DEF MarksOK, Searching
  <1>9. MarkInv'
    <2>1. marked \cap DOMAIN heap = {}
      BY <1>2, BlockFacts DEF MarksOK, ListOK
    <2> QED
      BY <1>1, <2>1, MarkingStarts
  <1> QED
    BY <1>1, <1>5, <1>6, <1>7, <1>8, <1>9 DEF IInv

LEMMA MarkKeeps ==
  ASSUME IInv, MarkPhase, UNCHANGED sweepVars
  PROVE  IInv'
  <1>1. pc \in {"roots", "mark"}
    BY DEF MarkPhase, MarkRoot, RootsMarked, MarkNext
  <1>2. ArenaOK /\ ListOK /\ StateOK /\ MarksOK /\ MarkInv /\ CellsOK /\ pc # "sweep"
    BY <1>1 DEF IInv
  <1>3. Graph /\ k \in 1 .. (NRoots + 1)
    BY <1>2, NotSweeping DEF StateOK
  <1>4. /\ MarkInv'
        /\ UNCHANGED <<root, heap, req, g_GC_stress>>
        /\ pc' \in {"roots", "mark", "overflowed"} /\ k' \in 1 .. (NRoots + 1)
        /\ marked' \subseteq marked \cup DOMAIN heap
    BY <1>2, <1>3, MarkPhaseKeeps
  <1>5. UNCHANGED <<chunks, freelist, after, scan, chunk_top>>
    BY DEF sweepVars
  <1>6. Graph'
    BY <1>3, <1>4 DEF Graph, ClosedFromRoots
  <1>7. CellsOK'
    BY <1>4, <1>6, NotSweepingNext
  <1>8. ArenaOK' /\ ListOK' /\ Blocks' = Blocks
    BY <1>2, <1>4, <1>5, StoreSame
  <1>9. StateOK'
    BY <1>1, <1>2, <1>4, <1>5 DEF StateOK, Collecting
  <1>10. MarksOK'
    BY <1>2, <1>4, <1>8 DEF MarksOK, Searching, Blocks
  <1> QED
    BY <1>4, <1>7, <1>8, <1>9, <1>10 DEF IInv

\* When the sweep begins, the live cells are the marked ones.
LEMMA SweepStartKept ==
  ASSUME IInv, SweepStart
  PROVE  Kept' = Live /\ Graph /\ pc = "mark" /\ Kept = DOMAIN heap
  <1>1. /\ Marked /\ pc' = "sweep" /\ scan' = Base /\ UNCHANGED <<heap, marked>>
    BY DEF SweepStart
  <1>2. pc = "mark" /\ ArenaOK /\ MarkInv /\ CellsOK
    BY <1>1 DEF IInv, Marked
  <1>3. Graph /\ Kept = DOMAIN heap
    BY <1>2, NotSweeping
  <1>4. marked \cap DOMAIN heap = Live
    BY <1>1, <1>2, <1>3, MarkingEnds
  <1>5. \A a \in DOMAIN heap : ~(a < Base)
    BY <1>2, BlockFacts, ArenaSize DEF ArenaOK
  <1>6. Kept' = {a \in DOMAIN heap : a \in marked \/ a < Base}
    BY <1>1 DEF Kept
  <1> QED
    BY <1>2, <1>3, <1>4, <1>5, <1>6

LEMMA SweepStartKeeps ==
  ASSUME IInv, SweepStart
  PROVE  IInv'
  <1>1. /\ Marked /\ pc' = "sweep" /\ scan' = Base /\ chunk_top' = NULL
        /\ UNCHANGED <<root, heap, req, k, g_GC_stress, marked, mark_stack, chunks,
                       freelist, after>>
    BY DEF SweepStart
  <1>2. ArenaOK /\ ListOK /\ StateOK /\ MarksOK /\ MarkInv /\ pc = "mark" /\ mark_stack = <<>>
    BY <1>1 DEF IInv, Marked
  <1>3. Kept' = Live /\ Graph
    BY SweepStartKept
  <1>4. ClosedFromRoots(Live) /\ \A S \in SUBSET DOMAIN heap : ClosedFromRoots(S) => Live \subseteq S
    BY <1>3, LiveClosed, LiveLeast
  <1>5. Live \subseteq DOMAIN heap
    BY DEF Live
  <1>6. ClosedFromRoots(Kept)' /\ KeptLeast'
    <2>1. \A S : ClosedFromRoots(S)' <=> ClosedFromRoots(S)
      BY <1>1 DEF ClosedFromRoots
    <2>2. \A i \in Roots : CELL_P(root'[i]) => root'[i] \in Kept'
      BY <1>1, <1>3, <1>4 DEF ClosedFromRoots
    <2>3. \A a \in Kept' : \A v \in Fields(heap'[a]) : CELL_P(v) => v \in Kept'
      BY <1>1, <1>3, <1>4 DEF ClosedFromRoots
    <2>4. ClosedFromRoots(Kept)'
      BY <2>2, <2>3 DEF ClosedFromRoots
    <2>5. KeptLeast'
      BY <1>3, <1>4, <1>5, <2>1 DEF KeptLeast
    <2> QED
      BY <2>4, <2>5
  <1>7. CellsOK'
    BY <1>1, <1>3, <1>6 DEF CellsOK, Graph
  <1>8. ArenaOK' /\ ListOK' /\ Blocks' = Blocks
    BY <1>1, <1>2, StoreSame
  <1>9. StateOK'
    BY <1>1, <1>2, ArenaSize DEF StateOK, Collecting
  <1>10. MarksOK' /\ MarkInv'
    BY <1>1, <1>2, <1>8 DEF MarksOK, MarkInv, Searching
  <1>11. SweepOK'
    <2>1. \A a \in Blocks : ~(a < Base)
      BY <1>2, BlockFacts, ArenaSize DEF ArenaOK
    <2> QED
      BY <1>1, <1>2, <1>8, <2>1, BlockFacts DEF SweepOK
  <1> QED
    BY <1>1, <1>6, <1>7, <1>8, <1>9, <1>10, <1>11 DEF IInv

-----------------------------------------------------------------------------
(* sweep *)

\* The header at scan, and the blocks behind it and ahead of it.
LEMMA ScanFacts ==
  ASSUME IInv, pc = "sweep", scan < Limit
  PROVE  /\ ArenaOK /\ ListOK /\ StateOK /\ MarksOK /\ CellsOK /\ SweepOK /\ KeptLeast
         /\ scan \in Blocks /\ scan \in Nat /\ SizeAt(scan) \in Nat \ {0}
         /\ SizeAt(scan) >= FreeChunkSize
         /\ scan + SizeAt(scan) = Limit \/ scan + SizeAt(scan) \in Blocks
         /\ \A a \in Blocks : a < scan + SizeAt(scan) <=> a < scan \/ a = scan
  <1>1. /\ ArenaOK /\ ListOK /\ StateOK /\ MarksOK /\ CellsOK /\ SweepOK /\ KeptLeast
    BY DEF IInv
  <1>2. scan \in Blocks
    BY <1>1, ArenaSize DEF SweepOK, StateOK
  <1>3. /\ scan \in Nat /\ SizeAt(scan) \in Nat \ {0} /\ SizeAt(scan) >= FreeChunkSize
        /\ scan + SizeAt(scan) = Limit \/ scan + SizeAt(scan) \in Blocks
    BY <1>1, <1>2, BlockFacts
  <1>4. ASSUME NEW a \in Blocks
        PROVE  a < scan + SizeAt(scan) <=> a < scan \/ a = scan
    <2>1. a \in Nat /\ (scan < a => scan + SizeAt(scan) <= a)
      BY <1>1, <1>2, BlockFacts
    <2> QED
      BY <1>3, <2>1
  <1> QED
    BY <1>1, <1>2, <1>3, <1>4

LEMMA SweepMarkedKept ==
  ASSUME IInv, SweepMarked
  PROVE  Kept' = Kept
  <1>1. /\ pc = "sweep" /\ scan < Limit /\ scan \in marked /\ marked' = marked \ {scan}
        /\ scan' = scan + SizeAt(scan) /\ UNCHANGED <<pc, heap>>
    BY DEF SweepMarked
  <1>2. \A a \in Blocks : a < scan + SizeAt(scan) <=> a < scan \/ a = scan
    BY <1>1, ScanFacts
  <1>3. DOMAIN heap \subseteq Blocks
    BY DEF Blocks
  <1> QED
    BY <1>1, <1>2, <1>3 DEF Kept

LEMMA SweepMarkedKeeps ==
  ASSUME IInv, SweepMarked
  PROVE  IInv'
  <1>1. /\ pc = "sweep" /\ scan < Limit /\ scan \in marked /\ marked' = marked \ {scan}
        /\ scan' = scan + SizeAt(scan)
        /\ UNCHANGED <<root, heap, pc, req, k, g_GC_stress, mark_stack, chunks, freelist,
                       after, chunk_top>>
    BY DEF SweepMarked
  <1>2. /\ ArenaOK /\ ListOK /\ StateOK /\ MarksOK /\ CellsOK /\ SweepOK /\ KeptLeast
        /\ scan \in Nat /\ SizeAt(scan) \in Nat \ {0}
        /\ scan + SizeAt(scan) = Limit \/ scan + SizeAt(scan) \in Blocks
        /\ \A a \in Blocks : a < scan + SizeAt(scan) <=> a < scan \/ a = scan
    BY <1>1, ScanFacts
  <1>3. ArenaOK' /\ ListOK' /\ Blocks' = Blocks
    BY <1>1, <1>2, StoreSame
  <1>4. CellsOK' /\ KeptLeast'
    <2>1. ClosedFromRoots(Kept)' /\ KeptLeast'
      BY <1>1, <1>2, SweepMarkedKept, KeptSame DEF CellsOK
    <2> QED
      BY <1>1, <1>2, <2>1 DEF CellsOK
  <1>5. StateOK' /\ MarksOK'
    BY <1>1, <1>2, <1>3 DEF StateOK, MarksOK, Collecting, Searching
  <1>6. SweepOK'
    <2>1. \A a \in Blocks : a < scan' => a \notin marked'
      BY <1>1, <1>2 DEF SweepOK
    <2>2. chunk_top # NULL => chunk_top < scan'
      <3>1. chunk_top # NULL => chunk_top \in Nat
        BY <1>2 DEF SweepOK, ListOK, Elems
      <3> QED
        BY <1>1, <1>2, <3>1 DEF SweepOK
    <2> QED
      BY <1>1, <1>2, <1>3, <2>1, <2>2 DEF SweepOK
  <1>7. MarkInv'
    BY <1>1 DEF IInv, MarkInv
  <1> QED
    BY <1>1, <1>3, <1>4, <1>5, <1>6, <1>7 DEF IInv

LEMMA SweepFreeKept ==
  ASSUME IInv, SweepFree
  PROVE  /\ Kept' = Kept /\ scan \notin Kept
         /\ DOMAIN heap' = DOMAIN heap \ {scan}
         /\ \A a \in DOMAIN heap' : heap'[a] = heap[a]
  <1>1. /\ pc = "sweep" /\ scan < Limit /\ scan \notin marked /\ marked' = marked
        /\ scan' = scan + SizeAt(scan) /\ pc' = pc
        /\ heap' = [x \in DOMAIN heap \ {scan} |-> heap[x]]
    BY DEF SweepFree
  <1>2. /\ \A a \in Blocks : a < scan + SizeAt(scan) <=> a < scan \/ a = scan
        /\ scan \in Nat
    BY <1>1, ScanFacts
  <1>3. DOMAIN heap \subseteq Blocks
    BY DEF Blocks
  <1>4. DOMAIN heap' = DOMAIN heap \ {scan} /\ \A a \in DOMAIN heap' : heap'[a] = heap[a]
    BY <1>1
  <1>5. scan \notin Kept
    BY <1>1, <1>2 DEF Kept
  <1>6. Kept' = Kept
    <2>1. Kept' = {a \in DOMAIN heap \ {scan} : a \in marked \/ a < scan + SizeAt(scan)}
      BY <1>1, <1>4 DEF Kept
    <2>2. Kept = {a \in DOMAIN heap : a \in marked \/ a < scan}
      BY <1>1 DEF Kept
    <2>3. ~(scan < scan)
      BY <1>2
    <2> QED
      BY <1>1, <1>2, <1>3, <2>1, <2>2, <2>3
  <1> QED
    BY <1>4, <1>5, <1>6

\* The arena after the step: the blocks are what they were, or the one at scan
\* has been joined to chunk_top.
LEMMA SweepFreeArena ==
  ASSUME IInv, SweepFree
  PROVE  /\ ArenaOK'
         /\ Blocks' = IF Grows(chunk_top) THEN Blocks \ {scan} ELSE Blocks
  <1> DEFINE s == Both(SizesOf(heap), chunks)
             t == Both(SizesOf(heap'), chunks')
             size == SizeAt(scan)
             c == chunk_top
  <1>1. /\ pc = "sweep" /\ scan < Limit
        /\ chunks' = (IF Grows(c) THEN WithSize(Drop(chunks, scan), c, chunks[c] + size)
                                  ELSE WithSize(chunks, scan, size))
    BY DEF SweepFree
  <1>2. /\ ArenaOK /\ ListOK /\ StateOK /\ SweepOK
        /\ scan \in Blocks /\ scan \in Nat /\ size \in Nat \ {0} /\ size >= FreeChunkSize
    BY <1>1, ScanFacts
  <1>3. /\ DOMAIN heap' = DOMAIN heap \ {scan}
        /\ \A a \in DOMAIN heap' : heap'[a] = heap[a]
    BY SweepFreeKept
  <1>4. /\ DOMAIN s = Blocks /\ \A a \in Blocks : s[a] = SizeAt(a)
    BY BothBlocks
  <1>5. /\ Tiles(s, Base, Limit) /\ DOMAIN heap \cap DOMAIN chunks = {}
        /\ \A x \in DOMAIN chunks : x \in Blocks /\ chunks[x] = SizeAt(x)
        /\ \A x \in DOMAIN heap : x \in Blocks /\ heap[x].size = SizeAt(x)
        /\ \A x \in Blocks : /\ x \in Nat /\ SizeAt(x) \in Nat /\ SizeAt(x) >= FreeChunkSize
                             /\ Base <= x /\ x + SizeAt(x) <= Limit
    BY <1>2, BlockFacts DEF ArenaOK, Parts
  <1>6. /\ DOMAIN t = DOMAIN heap' \cup DOMAIN chunks'
        /\ \A x \in DOMAIN heap' : t[x] = heap'[x].size
        /\ \A x \in DOMAIN chunks' : x \notin DOMAIN heap' => t[x] = chunks'[x]
        /\ t = [x \in DOMAIN t |-> t[x]] /\ s = [x \in DOMAIN s |-> s[x]]
        /\ DOMAIN SizesOf(heap') = DOMAIN heap'
    BY DEF Both, SizesOf
  <1>7. /\ Blocks' = DOMAIN t /\ \A x \in Blocks' : SizeAt(x)' = t[x]
    BY <1>6 DEF Blocks, SizeAt
  <1>8. Base \in Nat /\ Limit \in Nat /\ FreeChunkSize \in Nat \ {0}
    BY ArenaSize
  <1>9. \A a \in DOMAIN heap' : heap'[a].size >= FreeChunkSize
    BY <1>2, <1>3 DEF ArenaOK
  <1>10. chunks' \in [DOMAIN chunks' -> Nat]
    <2>1. \A x \in DOMAIN chunks : chunks[x] \in Nat
      BY <1>5
    <2>2. CASE ~Grows(c)
      <3>1. chunks' = WithSize(chunks, scan, size)
        BY <1>1, <2>2
      <3> HIDE DEF size, c
      <3> QED
        BY <1>2, <2>1, <3>1 DEF WithSize
    <2>3. CASE Grows(c)
      <3>1. chunks' = WithSize(Drop(chunks, scan), c, chunks[c] + size) /\ c # NULL
        BY <1>1, <2>3 DEF Grows
      <3>2. c \in DOMAIN chunks
        BY <1>2, <3>1 DEF SweepOK, ListOK
      <3>3. chunks[c] + size \in Nat
        BY <1>2, <2>1, <3>2
      <3> HIDE DEF size, c
      <3> QED
        BY <2>1, <3>1, <3>3 DEF WithSize, Drop
    <2> QED
      BY <2>2, <2>3
  <1>11. CASE ~Grows(c)
    <2>1. chunks' = WithSize(chunks, scan, size)
      BY <1>1, <1>11
    <2>2. /\ DOMAIN chunks' = DOMAIN chunks \cup {scan} /\ chunks'[scan] = size
          /\ \A x \in DOMAIN chunks' : x # scan => chunks'[x] = chunks[x]
      BY <2>1 DEF WithSize
    <2>3. DOMAIN t = Blocks
      BY <1>2, <1>3, <1>6, <2>2 DEF Blocks
    <2> HIDE DEF s, t, size
    <2>4. ASSUME NEW x \in Blocks
          PROVE  t[x] = s[x]
      <3>1. CASE x \in DOMAIN heap'
        BY <1>3, <1>4, <1>5, <1>6, <3>1
      <3>2. CASE x \notin DOMAIN heap' /\ x # scan
        BY <1>4, <1>5, <1>6, <2>2, <2>3, <3>2
      <3>3. CASE x = scan
        BY <1>3, <1>4, <1>6, <2>2, <3>3 DEF size
      <3> QED
        BY <3>1, <3>2, <3>3
    <2>5. t = s
      BY <1>4, <1>6, <2>3, <2>4
    <2>6. DOMAIN heap' \cap DOMAIN chunks' = {}
      BY <1>3, <1>5, <2>2
    <2>7. ASSUME NEW x \in DOMAIN chunks'
          PROVE  chunks'[x] >= FreeChunkSize
      <3>1. CASE x = scan
        BY <1>2, <2>2, <3>1
      <3>2. CASE x # scan
        <4>1. x \in DOMAIN chunks /\ chunks'[x] = chunks[x]
          BY <2>2, <3>2
        <4> QED
          BY <1>5, <4>1
      <3> QED
        BY <3>1, <3>2
    <2>8. Parts(SizesOf(heap'), chunks', Base, Limit)
      BY <1>5, <1>6, <2>5, <2>6, <2>7 DEF Parts, t
    <2>9. \A x \in Blocks' : Base <= x /\ x + SizeAt(x)' <= Limit
      BY <1>4, <1>5, <1>7, <2>3, <2>4
    <2> QED
      BY <1>7, <1>9, <1>11, <1>10, <2>3, <2>8, <2>9 DEF ArenaOK
  <1>12. CASE Grows(c)
    <2>1. /\ c # NULL /\ c + chunks[c] = scan
          /\ chunks' = WithSize(Drop(chunks, scan), c, chunks[c] + size)
      BY <1>1, <1>12 DEF Grows
    <2>2. c \in DOMAIN chunks /\ c < scan
      BY <1>2, <2>1 DEF SweepOK, ListOK
    <2>3. c \in Blocks /\ c \in Nat /\ SizeAt(c) = chunks[c] /\ c # scan /\ c \notin DOMAIN heap
      <3>1. c \in Blocks /\ SizeAt(c) = chunks[c] /\ c \notin DOMAIN heap
        BY <1>5, <2>2
      <3>2. c \in Nat
        BY <1>5, <3>1
      <3> QED
        BY <1>2, <2>2, <3>1, <3>2
    <2>4. /\ DOMAIN chunks' = DOMAIN chunks \ {scan} /\ chunks'[c] = chunks[c] + size
          /\ \A x \in DOMAIN chunks' : x # c => chunks'[x] = chunks[x]
      BY <2>1, <2>2, <2>3 DEF WithSize, Drop
    <2>5. DOMAIN t = Blocks \ {scan}
      BY <1>3, <1>6, <2>4 DEF Blocks
    <2> HIDE DEF s, t, size, c
    <2>6. t[c] = s[c] + s[scan]
      BY <1>2, <1>3, <1>4, <1>6, <2>2, <2>3, <2>4 DEF size
    <2>7. ASSUME NEW x \in Blocks, x # c, x # scan
          PROVE  t[x] = s[x]
      <3>1. CASE x \in DOMAIN heap'
        BY <1>3, <1>4, <1>5, <1>6, <3>1
      <3>2. CASE x \notin DOMAIN heap'
        BY <1>4, <1>5, <1>6, <2>4, <2>5, <2>7, <3>2
      <3> QED
        BY <3>1, <3>2
    <2>8. Tiles(t, Base, Limit)
      <3>1. scan = c + s[c]
        BY <1>4, <2>1, <2>3
      <3>2. \A x \in DOMAIN s : Base <= x
        BY <1>4, <1>5
      <3>3. c \in DOMAIN s /\ scan \in DOMAIN s /\ DOMAIN t = DOMAIN s \ {scan}
        BY <1>2, <1>4, <2>3, <2>5
      <3>4. \A x \in DOMAIN s : x # c /\ x # scan => t[x] = s[x]
        BY <1>4, <2>7
      <3>5. Tiles(s, Base, Limit) /\ Base \in Nat
        BY <1>5, <1>8
      <3>6. t[c] = s[c] + s[scan] /\ DOMAIN t = DOMAIN s \ {scan}
        BY <2>6, <3>3
      <3> QED
        BY <3>1, <3>2, <3>3, <3>4, <3>5, <3>6, JoinTiles
    <2>9. DOMAIN heap' \cap DOMAIN chunks' = {}
      BY <1>3, <1>5, <2>4
    <2>10. ASSUME NEW x \in DOMAIN chunks'
           PROVE  chunks'[x] >= FreeChunkSize
      <3>1. CASE x = c
        <4>1. chunks[c] \in Nat /\ chunks[c] >= FreeChunkSize
          BY <1>5, <2>2
        <4>2. size \in Nat
          BY <1>2
        <4> QED
          BY <1>8, <2>4, <3>1, <4>1, <4>2
      <3>2. CASE x # c
        <4>1. x \in DOMAIN chunks /\ chunks'[x] = chunks[x]
          BY <2>4, <3>2
        <4> QED
          BY <1>5, <4>1
      <3> QED
        BY <3>1, <3>2
    <2>11. Parts(SizesOf(heap'), chunks', Base, Limit)
      BY <1>6, <2>8, <2>9, <2>10 DEF Parts, t
    <2>12. ASSUME NEW x \in Blocks'
           PROVE  Base <= x /\ x + SizeAt(x)' <= Limit
      <3>1. CASE x = c
        <4>1. SizeAt(x)' = chunks[c] + SizeAt(scan) /\ scan + SizeAt(scan) <= Limit
          BY <1>2, <1>4, <1>5, <1>7, <2>3, <2>6, <3>1
        <4> QED
          BY <1>2, <1>5, <1>8, <2>1, <2>3, <3>1, <4>1
      <3>2. CASE x # c
        BY <1>4, <1>5, <1>7, <2>5, <2>7, <3>2
      <3> QED
        BY <3>1, <3>2
    <2> QED
      BY <1>7, <1>9, <1>12, <1>10, <2>5, <2>11, <2>12 DEF ArenaOK, c
  <1> QED
    BY <1>11, <1>12

\* The new list begins with the block, ends with it, or has its last chunk grow.
LEMMA SweepFreeList ==
  ASSUME IInv, SweepFree
  PROVE  /\ ListOK'
         /\ chunk_top' \in Elems(freelist') /\ chunk_top' < scan'
         /\ \A c \in Elems(freelist') : c <= chunk_top'
  <1> DEFINE size == SizeAt(scan)
             c == chunk_top
             E == Elems(freelist)
  <1>1. /\ pc = "sweep" /\ scan < Limit /\ scan' = scan + size
        /\ chunks' = (IF Grows(c) THEN WithSize(Drop(chunks, scan), c, chunks[c] + size)
                                  ELSE WithSize(chunks, scan, size))
        /\ freelist' = (IF c = NULL THEN <<scan>>
                        ELSE IF Grows(c) THEN freelist ELSE Append(freelist, scan))
        /\ chunk_top' = (IF Grows(c) THEN c ELSE scan)
    BY DEF SweepFree
  <1>2. /\ ArenaOK /\ ListOK /\ SweepOK
        /\ scan \in Blocks /\ scan \in Nat /\ size \in Nat \ {0}
    BY <1>1, ScanFacts
  <1>3. /\ freelist \in Seq(Nat) /\ Len(freelist) \in Nat /\ Sorted(freelist)
        /\ E \subseteq DOMAIN chunks
        /\ \A x, y \in E : x + chunks[x] # y
    BY <1>2, LenProperties DEF ListOK
  <1>4. /\ \A x \in DOMAIN chunks : x \in Nat /\ chunks[x] \in Nat
        /\ \A x, y \in DOMAIN chunks : x < y => x + chunks[x] <= y
    BY <1>2, BlockFacts DEF SizesType, Apart
  <1>5. c # NULL => c \in E /\ c < scan /\ \A x \in E : x <= c
    BY <1>2 DEF SweepOK
  <1>6. Elems(<<scan>>) = {scan} /\ Sorted(<<scan>>) /\ <<scan>> \in Seq(Nat)
    <2>1. Len(<<scan>>) = 1 /\ <<scan>>[1] = scan /\ 1 .. 1 = {1}
      OBVIOUS
    <2> QED
      BY <1>2, <2>1 DEF Elems, Sorted
  <1> HIDE DEF size, c, E
  <1>7. CASE c = NULL
    <2>1. freelist' = <<scan>> /\ chunks' = WithSize(chunks, scan, size) /\ chunk_top' = scan
      BY <1>1, <1>7 DEF Grows
    <2>2. scan \in DOMAIN chunks' /\ chunks'[scan] = size
      BY <2>1 DEF WithSize
    <2>3. Elems(freelist') = {scan} /\ Sorted(freelist') /\ freelist' \in Seq(Nat)
      BY <1>6, <2>1
    <2>4. scan + size # scan /\ scan < scan + size
      BY <1>2
    <2>5. ListOK'
      BY <2>2, <2>3, <2>4 DEF ListOK
    <2> QED
      BY <1>1, <1>2, <2>1, <2>2, <2>3, <2>4, <2>5
  <1>8. CASE c # NULL /\ ~Grows(c)
    <2> DEFINE l == Append(freelist, scan)
               n == Len(freelist)
    <2>1. freelist' = l /\ chunks' = WithSize(chunks, scan, size) /\ chunk_top' = scan
      BY <1>1, <1>8
    <2>2. /\ DOMAIN chunks' = DOMAIN chunks \cup {scan} /\ chunks'[scan] = size
          /\ \A x \in DOMAIN chunks : x # scan => chunks'[x] = chunks[x]
      BY <2>1 DEF WithSize
    <2>3. c \in E /\ c \in Nat /\ c < scan /\ c + chunks[c] # scan /\ \A x \in E : x <= c
      BY <1>3, <1>4, <1>5, <1>8 DEF Grows
    <2>4. \A x \in E : x \in Nat /\ chunks[x] \in Nat /\ x < scan
      BY <1>2, <1>3, <1>4, <2>3
    <2>5. l \in Seq(Nat) /\ Sorted(l) /\ Elems(l) = E \cup {scan}
      <3>1. /\ l \in Seq(Nat) /\ Len(l) = n + 1
            /\ (\A j \in 1 .. n : l[j] = freelist[j]) /\ l[n + 1] = scan
        BY <1>2, <1>3, AppendProperties
      <3> HIDE DEF l
      <3>2. n \in 0 .. n /\ n \in Nat
        BY <1>3
      <3>3. Inserts(l, freelist, n, n, scan)
        BY <3>1, <3>2 DEF Inserts
      <3>4. FitsBehind(freelist, n, n, scan)
        BY <2>4, <3>2 DEF FitsBehind, E, Elems
      <3> QED
        BY <1>2, <1>3, <3>1, <3>2, <3>3, <3>4, ListWith DEF E
    <2> HIDE DEF l
    <2>6. \A x \in E : x + chunks[x] # scan
      <3> SUFFICES ASSUME NEW x \in E PROVE x + chunks[x] # scan
        OBVIOUS
      <3>1. CASE x = c
        BY <2>3, <3>1
      <3>2. CASE x # c
        <4>1. x < c /\ x + chunks[x] <= c
          BY <1>3, <1>4, <2>3, <2>4, <3>2
        <4> QED
          BY <1>2, <2>3, <2>4, <4>1
      <3> QED
        BY <3>1, <3>2
    <2>7. \A x, y \in E \cup {scan} : x + chunks'[x] # y
      <3> SUFFICES ASSUME NEW x \in E \cup {scan}, NEW y \in E \cup {scan}
                   PROVE  x + chunks'[x] # y
        OBVIOUS
      <3>1. y \in Nat /\ y <= scan
        BY <1>2, <2>4
      <3>2. CASE x = scan
        BY <1>2, <2>2, <3>1, <3>2
      <3>3. CASE x # scan /\ y = scan
        BY <1>3, <2>2, <2>6, <3>3
      <3>4. CASE x # scan /\ y # scan
        BY <1>3, <2>2, <3>4
      <3> QED
        BY <3>2, <3>3, <3>4
    <2>8. scan < scan + size /\ \A x \in E \cup {scan} : x <= scan
      BY <1>2, <2>4
    <2> QED
      BY <1>1, <1>3, <2>1, <2>2, <2>5, <2>7, <2>8 DEF ListOK
  <1>9. CASE c # NULL /\ Grows(c)
    <2>1. /\ freelist' = freelist /\ chunk_top' = c /\ c + chunks[c] = scan
          /\ chunks' = WithSize(Drop(chunks, scan), c, chunks[c] + size)
      BY <1>1, <1>9 DEF Grows
    <2>2. c \in E /\ c \in Nat /\ chunks[c] \in Nat /\ c < scan /\ \A x \in E : x <= c
      BY <1>3, <1>4, <1>5, <1>9
    <2>3. \A x \in E : x \in Nat /\ chunks[x] \in Nat /\ x # scan
      BY <1>2, <1>3, <1>4, <2>2
    <2>4. /\ DOMAIN chunks' = (DOMAIN chunks \ {scan}) \cup {c} /\ chunks'[c] = chunks[c] + size
          /\ \A x \in DOMAIN chunks : x # scan /\ x # c => chunks'[x] = chunks[x]
      BY <2>1 DEF WithSize, Drop
    <2>5. E \subseteq DOMAIN chunks'
      BY <1>3, <2>3, <2>4
    <2>6. \A x, y \in E : x + chunks'[x] # y
      <3> SUFFICES ASSUME NEW x \in E, NEW y \in E PROVE x + chunks'[x] # y
        OBVIOUS
      <3>1. CASE x = c
        BY <1>2, <2>2, <2>3, <2>4, <3>1
      <3>2. CASE x # c
        BY <1>3, <2>3, <2>4, <3>2
      <3> QED
        BY <3>1, <3>2
    <2>7. c < scan + size
      BY <1>2, <2>2
    <2> QED
      BY <1>1, <1>3, <2>1, <2>2, <2>5, <2>6, <2>7 DEF ListOK, E
  <1> QED
    BY <1>7, <1>8, <1>9 DEF Grows

LEMMA SweepFreeKeeps ==
  ASSUME IInv, SweepFree
  PROVE  IInv'
  <1>1. /\ pc = "sweep" /\ scan < Limit /\ scan \notin marked
        /\ scan' = scan + SizeAt(scan)
        /\ UNCHANGED <<root, pc, req, k, g_GC_stress, marked, mark_stack, after>>
    BY DEF SweepFree
  <1>2. /\ StateOK /\ MarksOK /\ CellsOK /\ SweepOK /\ KeptLeast
        /\ scan \in Nat /\ SizeAt(scan) \in Nat \ {0}
        /\ scan + SizeAt(scan) = Limit \/ scan + SizeAt(scan) \in Blocks
        /\ \A a \in Blocks : a < scan + SizeAt(scan) <=> a < scan \/ a = scan
    BY <1>1, ScanFacts
  <1>3. /\ ArenaOK'
        /\ Blocks \ {scan} \subseteq Blocks' /\ Blocks' \subseteq Blocks
    BY SweepFreeArena
  <1>4. /\ Kept' = Kept /\ scan \notin Kept
        /\ DOMAIN heap' = DOMAIN heap \ {scan}
        /\ \A a \in DOMAIN heap' : heap'[a] = heap[a]
    BY SweepFreeKept
  <1>5. /\ ListOK'
        /\ chunk_top' \in Elems(freelist') /\ chunk_top' < scan'
        /\ \A c \in Elems(freelist') : c <= chunk_top'
    BY SweepFreeList
  <1>6. CellsOK' /\ KeptLeast'
    <2>1. \A a \in Kept : heap'[a] = heap[a]
      BY <1>4 DEF Kept
    <2>2. ClosedFromRoots(Kept)' /\ KeptLeast'
      BY <1>1, <1>2, <1>4, <2>1, KeptSame DEF CellsOK
    <2>3. heap' \in [DOMAIN heap' -> Object]
      <3>1. heap' = [x \in DOMAIN heap \ {scan} |-> heap[x]]
        BY DEF SweepFree
      <3> QED
        BY <1>2, <1>4, <3>1 DEF CellsOK
    <2>4. IsFiniteSet(DOMAIN heap') /\ DOMAIN heap' \subseteq Nat
      BY <1>2, <1>4, FS_Subset DEF CellsOK
    <2> QED
      BY <1>1, <1>2, <2>2, <2>3, <2>4 DEF CellsOK
  <1>7. MarksOK'
    BY <1>1, <1>2, <1>3 DEF MarksOK, Searching
  <1>8. StateOK'
    BY <1>1, <1>2 DEF StateOK, Collecting
  <1>9. SweepOK'
    <2>1. scan' \in Blocks' \/ scan' = Limit
      <3>1. scan + SizeAt(scan) # scan
        BY <1>2
      <3> QED
        BY <1>1, <1>2, <1>3, <3>1
    <2>2. \A a \in Blocks' : a < scan' => a \notin marked'
      BY <1>1, <1>2, <1>3 DEF SweepOK
    <2> QED
      BY <1>1, <1>2, <1>5, <2>1, <2>2 DEF SweepOK
  <1>10. MarkInv'
    <2>1. <<>> \in Seq(DOMAIN heap')
      OBVIOUS
    <2> QED
      BY <1>1, <1>2, <2>1 DEF MarkInv, SweepOK
  <1> QED
    BY <1>1, <1>3, <1>5, <1>6, <1>7, <1>8, <1>9, <1>10 DEF IInv

\* At the end every block is behind scan: no mark is left, and all cells are live.
LEMMA SweepEndFacts ==
  ASSUME IInv, SweepEnd
  PROVE  marked = {} /\ Kept' = DOMAIN heap /\ Kept = DOMAIN heap
  <1>1. pc = "sweep" /\ scan >= Limit /\ pc' = after /\ UNCHANGED heap
    BY DEF SweepEnd
  <1>2. ArenaOK /\ SweepOK /\ MarksOK /\ StateOK /\ scan \in Nat
    BY <1>1 DEF IInv, StateOK
  <1>3. \A a \in Blocks : a < scan
    <2>1. \A a \in Blocks : a \in Nat /\ SizeAt(a) \in Nat \ {0} /\ a + SizeAt(a) <= Limit
      BY <1>2, BlockFacts DEF ArenaOK
    <2>2. Limit \in Nat
      BY ArenaSize
    <2> QED
      BY <1>1, <1>2, <2>1, <2>2
  <1>4. marked = {}
    BY <1>2, <1>3 DEF SweepOK, MarksOK
  <1>5. Kept = DOMAIN heap
    BY <1>1, <1>3 DEF Kept, Blocks
  <1>6. Kept' = DOMAIN heap
    BY <1>1, <1>2 DEF Kept, StateOK
  <1> QED
    BY <1>4, <1>5, <1>6

LEMMA SweepEndKeeps ==
  ASSUME IInv, SweepEnd
  PROVE  IInv'
  <1>1. /\ pc = "sweep" /\ pc' = after /\ scan' = Base /\ chunk_top' = NULL
        /\ UNCHANGED <<root, heap, req, k, g_GC_stress, marked, mark_stack, chunks,
                       freelist, after>>
    BY DEF SweepEnd
  <1>2. ArenaOK /\ ListOK /\ StateOK /\ CellsOK /\ MarkInv /\ KeptLeast
    BY <1>1 DEF IInv
  <1>3. marked = {} /\ Kept' = DOMAIN heap /\ Kept = DOMAIN heap
    BY SweepEndFacts
  <1>4. CellsOK' /\ KeptLeast'
    <2>1. ClosedFromRoots(Kept)' /\ KeptLeast'
      BY <1>1, <1>2, <1>3, KeptSame DEF CellsOK
    <2> QED
      BY <1>1, <1>2, <2>1 DEF CellsOK
  <1>5. ArenaOK' /\ ListOK'
    BY <1>1, <1>2, StoreSame
  <1>6. pc' \in {"alloc", "retry"}
    BY <1>1, <1>2 DEF StateOK, Collecting
  <1>7. StateOK'
    BY <1>1, <1>2, <1>6, ArenaSize DEF StateOK, Collecting
  <1>8. MarksOK' /\ MarkInv'
    BY <1>1, <1>2, <1>3, <1>6 DEF MarksOK, MarkInv
  <1> QED
    BY <1>4, <1>5, <1>6, <1>7, <1>8 DEF IInv

-----------------------------------------------------------------------------
(* The invariant. *)

LEMMA ExhaustedKeeps ==
  ASSUME IInv, Exhausted
  PROVE  IInv'
  <1>1. /\ pc = "retry" /\ Fitting(req).chunk = NULL /\ pc' = "exited"
        /\ UNCHANGED <<root, heap, req, k, g_GC_stress, marked, mark_stack, chunks, freelist,
                       after, scan, chunk_top>>
    BY DEF Exhausted, sweepVars
  <1>2. ArenaOK /\ ListOK /\ StateOK /\ MarksOK /\ CellsOK /\ MarkInv /\ KeptLeast
    BY <1>1 DEF IInv
  <1>3. Kept = DOMAIN heap /\ Kept' = DOMAIN heap
    BY <1>1 DEF Kept
  <1>4. CellsOK' /\ KeptLeast'
    <2>1. ClosedFromRoots(Kept)' /\ KeptLeast'
      BY <1>1, <1>2, <1>3, KeptSame DEF CellsOK
    <2> QED
      BY <1>1, <1>2, <2>1 DEF CellsOK
  <1>5. ArenaOK' /\ ListOK' /\ Blocks' = Blocks
    BY <1>1, <1>2, StoreSame
  <1>6. StateOK' /\ MarksOK' /\ MarkInv'
    BY <1>1, <1>2, <1>5 DEF StateOK, MarksOK, MarkInv, Collecting, Searching
  <1>7. (Fitting(req).chunk = NULL)'
    BY <1>1 DEF Fitting
  <1> QED
    BY <1>1, <1>4, <1>5, <1>6, <1>7 DEF IInv

LEMMA IdleKeeps ==
  ASSUME IInv, UNCHANGED vars
  PROVE  IInv'
  <1>1. UNCHANGED <<root, heap, pc, req, k, g_GC_stress, marked, mark_stack, chunks, freelist,
                    after, scan, chunk_top>>
    BY DEF vars
  <1>2. Kept' = Kept
    BY <1>1 DEF Kept
  <1>3. ArenaOK => ArenaOK'
    BY <1>1, StoreSame
  <1>4. ListOK => ListOK'
    BY <1>1, StoreSame
  <1>5. Blocks' = Blocks
    BY <1>1, StoreSame
  <1>6. (ClosedFromRoots(Kept) => ClosedFromRoots(Kept)') /\ (KeptLeast => KeptLeast')
    BY <1>1, <1>2, KeptSame
  <1>7. CellsOK => CellsOK'
    BY <1>1, <1>6 DEF CellsOK
  <1>8. (StateOK => StateOK') /\ (MarksOK => MarksOK')
    BY <1>1, <1>5 DEF StateOK, MarksOK, Collecting, Searching
  <1>9. Live' = Live
    BY <1>1 DEF Live, ClosedFromRoots
  <1>10. MarkInv => MarkInv'
    BY <1>1, <1>9 DEF MarkInv, GoodMarks, MarkState, WaveFront
  <1>11. SweepOK => SweepOK'
    BY <1>1, <1>5 DEF SweepOK
  <1>12. Fitting(req).chunk = NULL => (Fitting(req).chunk = NULL)'
    BY <1>1 DEF Fitting
  <1> QED
    BY <1>1, <1>3, <1>4, <1>6, <1>7, <1>8, <1>10, <1>11, <1>12 DEF IInv

LEMMA InitIInv == Init => IInv
  <1> SUFFICES ASSUME Init PROVE IInv
    OBVIOUS
  <1>1. /\ root = [i \in Roots |-> IMM] /\ heap = <<>> /\ pc = "run" /\ req = NoReq /\ k = 1
        /\ g_GC_stress \in BOOLEAN
        /\ marked \in SUBSET {Base} /\ mark_stack = <<>>
        /\ chunks = [c \in {Base} |-> Limit - Base] /\ freelist = <<Base>>
        /\ after = "run" /\ scan = Base /\ chunk_top = NULL
    BY StressAssumption DEF Init, BaseInit
  <1>2. /\ Base \in Nat /\ Limit \in Nat /\ FreeChunkSize \in Nat \ {0}
        /\ Base + FreeChunkSize <= Limit
    BY ArenaSize
  <1>3. DOMAIN heap = {} /\ DOMAIN chunks = {Base} /\ chunks[Base] = Limit - Base
    BY <1>1
  <1>4. Elems(freelist) = {Base} /\ Sorted(freelist) /\ freelist \in Seq(Nat)
    <2>1. Len(freelist) = 1 /\ freelist[1] = Base /\ 1 .. 1 = {1} /\ freelist \in Seq(Nat)
      BY <1>1, <1>2
    <2> QED
      BY <2>1 DEF Elems, Sorted
  <1>5. Blocks = {Base} /\ SizeAt(Base) = Limit - Base
    BY <1>3 DEF Blocks, SizeAt
  <1>6. CellsOK
    <2>1. heap \in [DOMAIN heap -> Object]
      BY <1>1, <1>3
    <2>2. root \in [Roots -> Value] /\ \A i \in Roots : ~CELL_P(root[i])
      BY <1>1 DEF Value, CELL_P
    <2>3. Kept = {} /\ IsFiniteSet(DOMAIN heap)
      BY <1>3, FS_EmptySet DEF Kept
    <2> QED
      BY <1>3, <2>1, <2>2, <2>3 DEF CellsOK, ClosedFromRoots
  <1>7. ArenaOK
    <2> DEFINE s == Both(SizesOf(heap), chunks)
    <2>1. DOMAIN s = {Base} /\ s[Base] = Limit - Base /\ DOMAIN SizesOf(heap) = {}
      BY <1>3, <1>5, BothBlocks
    <2>2. Limit - Base \in Nat \ {0} /\ Base + (Limit - Base) = Limit
      BY <1>2
    <2> HIDE DEF s
    <2>3. Tiles(s, Base, Limit)
      BY <1>2, <2>1, <2>2 DEF Tiles, Apart
    <2>4. \A x \in DOMAIN chunks : chunks[x] >= FreeChunkSize
      BY <1>2, <1>3
    <2>5. Parts(SizesOf(heap), chunks, Base, Limit)
      BY <2>1, <2>3, <2>4 DEF Parts, s
    <2>6. \A a \in Blocks : Base <= a /\ a + SizeAt(a) <= Limit
      BY <1>2, <1>5
    <2>7. chunks \in [DOMAIN chunks -> Nat]
      BY <1>1, <1>2
    <2> QED
      BY <1>3, <2>5, <2>6, <2>7 DEF ArenaOK
  <1>8. ListOK
    <2>1. Base + (Limit - Base) # Base
      BY <1>2
    <2> QED
      BY <1>3, <1>4, <2>1 DEF ListOK
  <1>9. StateOK /\ MarksOK
    <2>1. k \in 1 .. (NRoots + 1)
      BY <1>1, RootsAssumption
    <2> QED
      BY <1>1, <1>2, <1>4, <1>5, <2>1 DEF StateOK, MarksOK, Collecting, Searching
  <1>10. MarkInv
    BY <1>1 DEF MarkInv
  <1> QED
    BY <1>1, <1>6, <1>7, <1>8, <1>9, <1>10 DEF IInv

LEMMA NextIInv == IInv /\ [Next]_vars => IInv'
  <1> SUFFICES ASSUME IInv, [Next]_vars
               PROVE  IInv'
    OBVIOUS
  <1>1. CASE Client /\ UNCHANGED <<marked, mark_stack, sweepVars>>
    BY <1>1, ClientKeeps
  <1>2. ASSUME NEW r \in Requests, MallocFast(r)
        PROVE  IInv'
    BY <1>2, AllocateKeeps DEF MallocFast, Searching
  <1>3. ASSUME NEW r \in Requests, GCStart(r)
        PROVE  IInv'
    BY <1>3, StartKeeps DEF GCStart, Searching
  <1>4. CASE MarkPhase /\ UNCHANGED sweepVars
    BY <1>4, MarkKeeps
  <1>5. CASE SweepStart
    BY <1>5, SweepStartKeeps
  <1>6. CASE SweepMarked
    BY <1>6, SweepMarkedKeeps
  <1>7. CASE SweepFree
    BY <1>7, SweepFreeKeeps
  <1>8. CASE SweepEnd
    BY <1>8, SweepEndKeeps
  <1>9. CASE MallocAfterStress \/ GCAgain \/ MallocRetry
    <2>1. Searching /\ req \in Requests
      BY <1>9 DEF MallocAfterStress, GCAgain, MallocRetry, Searching, IInv, StateOK
    <2>2. CASE GCAgain
      BY <2>1, <2>2, StartKeeps DEF GCAgain
    <2>3. CASE MallocAfterStress \/ MallocRetry
      BY <2>1, <2>3, AllocateKeeps DEF MallocAfterStress, MallocRetry
    <2> QED
      BY <1>9, <2>2, <2>3
  <1>10. CASE Exhausted
    BY <1>10, ExhaustedKeeps
  <1>11. CASE UNCHANGED vars
    BY <1>11, IdleKeeps
  <1> QED
    BY <1>1, <1>2, <1>3, <1>4, <1>5, <1>6, <1>7, <1>8, <1>9, <1>10, <1>11
       DEF Next, Collector, Terminated

LEMMA Invariance == Spec => []IInv
  BY InitIInv, NextIInv, PTL DEF Spec

\* No live cell is freed, cells and chunks tile the arena also in the middle of a
\* sweep, and the free list lists free bytes only, in order.
THEOREM HeapIsSound == Spec => []HeapSound
  <1>1. ASSUME IInv PROVE HeapSound
    <2> USE <1>1
    <2>1. ArenaOK /\ ListOK /\ StateOK /\ MarksOK /\ CellsOK /\ MarkInv
      BY DEF IInv
    <2>2. /\ SizesType(chunks) /\ Apart(chunks)
          /\ \A c \in DOMAIN chunks : c \in Blocks /\ SizeAt(c) = chunks[c]
          /\ \A a \in Blocks : SizeAt(a) >= FreeChunkSize
      BY <2>1, BlockFacts
    <2>3. TypeOK
      <3>1. freelist \in Seq(DOMAIN chunks)
        <4>1. freelist \in Seq(Nat) /\ \A i \in 1 .. Len(freelist) : freelist[i] \in DOMAIN chunks
          BY <2>1 DEF ListOK, Elems
        <4> QED
          BY <4>1
      <3>2. chunks \in [DOMAIN chunks -> Nat]
        BY <2>1 DEF ArenaOK
      <3>3. chunk_top \in DOMAIN chunks \cup {NULL}
        BY <2>1 DEF IInv, StateOK, SweepOK, ListOK
      <3> QED
        BY <2>1, <2>2, <3>1, <3>2, <3>3
           DEF TypeOK, StateOK, CellsOK, MarksOK, MarkInv, SizesType, Blocks
    <2>4. NoDangling
      BY <2>1 DEF NoDangling, CellsOK
    <2>5. ArenaTiled
      BY <2>1, BlockFacts DEF ArenaTiled
    <2>6. FreeListSound
      <3>1. Ordered(freelist, chunks)
        BY <2>1, <2>2, LenProperties, SortedApartIsOrdered DEF ListOK
      <3> QED
        BY <2>1, <2>2, <3>1 DEF FreeListSound, ListOK
    <2> QED
      BY <2>3, <2>4, <2>5, <2>6 DEF HeapSound
  <1> QED
    BY <1>1, Invariance, PTL

\* No mark survives a collection: no cell is hidden from the next mark phase.
THEOREM NoStaleMarks == Spec => []MarksClear
  <1>1. ASSUME IInv PROVE MarksClear
    BY <1>1, BlockFacts DEF IInv, MarksOK, ListOK, MarksClear, Searching
  <1> QED
    BY <1>1, Invariance, PTL

\* A chunk a stale mark bit kept off the list is unmarked: the next sweep finds it.
THEOREM NoChunkIsLost == Spec => []LostChunksReturn
  <1>1. ASSUME IInv PROVE LostChunksReturn
    BY <1>1 DEF IInv, MarksOK, LostChunksReturn, Searching
  <1> QED
    BY <1>1, Invariance, PTL

\* Mark stack overflow stops only programs with more live cells than the stack
\* has entries.
THEOREM OverflowIsGenuine == Spec => []OverflowOnlyBeyondStack
  <1>1. ASSUME IInv PROVE OverflowOnlyBeyondStack
    <2>1. CASE pc = "overflowed"
      <3>1. Graph /\ MarkInv
        BY <1>1, <2>1, NotSweeping DEF IInv
      <3> QED
        BY <3>1, OverflowFacts
    <2>2. CASE pc # "overflowed"
      BY <2>2 DEF OverflowOnlyBeyondStack
    <2> QED
      BY <2>1, <2>2
  <1> QED
    BY <1>1, Invariance, PTL

-----------------------------------------------------------------------------
(* Heap exhaustion. *)

\* A stretch of bytes on the list lies within one chunk: successive chunks do
\* not touch.
LEMMA StretchInChunk ==
  ASSUME ArenaOK, ListOK, NEW a \in Nat, NEW n \in Nat \ {0},
         (a .. (a + n - 1)) \subseteq Bytes(freelist, chunks)
  PROVE  \E c \in Elems(freelist) : n <= chunks[c]
  <1> DEFINE E == Elems(freelist)
  <1>1. /\ \A x \in E : x \in DOMAIN chunks /\ x \in Nat /\ chunks[x] \in Nat
        /\ \A x, y \in E : x < y => x + chunks[x] <= y
        /\ \A x, y \in E : x + chunks[x] # y
    BY BlockFacts DEF ListOK, SizesType, Apart
  <1>2. \A b \in a .. (a + n - 1) : \E x \in E : x <= b /\ b < x + chunks[x]
    <2> SUFFICES ASSUME NEW b \in a .. (a + n - 1)
                 PROVE  \E x \in E : x <= b /\ b < x + chunks[x]
      OBVIOUS
    <2>1. PICK x \in E : b \in x .. (x + chunks[x] - 1)
      BY DEF Bytes
    <2>2. x <= b /\ b < x + chunks[x]
      BY <1>1, <2>1
    <2> QED
      BY <2>2
  <1> HIDE DEF E
  <1>3. a \in a .. (a + n - 1)
    OBVIOUS
  <1>4. PICK c \in E : c <= a /\ a < c + chunks[c]
    BY <1>2, <1>3
  <1> DEFINE e == c + chunks[c]
  <1>5. CASE a + n - 1 < e
    <2>1. n <= chunks[c]
      BY <1>1, <1>4, <1>5
    <2> QED
      BY <2>1 DEF E
  <1>6. CASE ~(a + n - 1 < e)
    <2>1. e \in a .. (a + n - 1) /\ e \in Nat
      BY <1>1, <1>4, <1>6
    <2>2. PICK d \in E : d <= e /\ e < d + chunks[d]
      BY <1>2, <2>1
    <2>3. d # e /\ d \in Nat /\ c \in Nat /\ chunks[c] \in Nat /\ chunks[d] \in Nat
      BY <1>1
    <2>4. CASE d < c
      <3>1. d + chunks[d] <= c
        BY <1>1, <2>4
      <3> QED
        BY <2>2, <2>3, <3>1
    <2>5. CASE c < d
      <3>1. c + chunks[c] <= d
        BY <1>1, <2>5
      <3> QED
        BY <2>2, <2>3, <3>1
    <2>6. CASE c = d
      BY <2>2, <2>3, <2>6
    <2> QED
      BY <2>3, <2>4, <2>5, <2>6
  <1> QED
    BY <1>5, <1>6

\* After a collection all cells are live, and the program exits with "heap
\* exhausted" only when no stretch of listed bytes could hold the request.
THEOREM ExhaustionIsGenuine == Spec => []ExhaustedOnlyWhenFragmented
  <1>1. ASSUME IInv PROVE ExhaustedOnlyWhenFragmented
    <2> USE <1>1
    <2>1. ArenaOK /\ ListOK /\ StateOK
      BY DEF IInv
    <2>2. ASSUME pc \in {"alloc", "retry", "exited"}
          PROVE  Live = DOMAIN heap
      <3>1. KeptLeast /\ Kept = DOMAIN heap
        BY <2>2 DEF IInv, Kept
      <3> QED
        BY <3>1 DEF KeptLeast, Live
    <2>3. ASSUME pc = "exited", NEW a \in Base .. (Limit - AllocateSize(req.size)),
                 (a .. (a + AllocateSize(req.size) - 1)) \subseteq Bytes(freelist, chunks)
          PROVE  FALSE
      <3> DEFINE n == AllocateSize(req.size)
      <3>1. req \in Requests /\ Fitting(req).chunk = NULL
        BY <2>3 DEF IInv, StateOK
      <3>2. n \in Nat \ {0} /\ a \in Nat
        BY <2>3, <3>1, SizeFacts, ArenaSize
      <3> HIDE DEF n
      <3>3. PICK c \in Elems(freelist) : n <= chunks[c]
        BY <2>1, <2>3, <3>2, StretchInChunk DEF n
      <3>4. PICK i \in 1 .. Len(freelist) : c = freelist[i]
        BY <3>3 DEF Elems
      <3>5. i \in Fits(freelist, chunks, n)
        <4>1. chunks[c] \in Nat
          BY <2>1, <3>3, BlockFacts DEF ListOK, SizesType
        <4> QED
          BY <3>2, <3>3, <3>4, <4>1 DEF Fits
      <3>6. Fitting(req).chunk = freelist[FirstFit(freelist, chunks, n)]
        BY <3>5 DEF Fitting, GetFreeChunk, n
      <3>7. Len(freelist) \in Nat
        BY <2>1, LenProperties DEF ListOK
      <3>8. FirstFit(freelist, chunks, n) \in Fits(freelist, chunks, n)
        BY <3>5, <3>7, FirstFits
      <3>9. freelist[FirstFit(freelist, chunks, n)] \in Nat
        BY <2>1, <3>8 DEF Fits, ListOK
      <3> QED
        BY <3>1, <3>6, <3>9 DEF NULL
    <2> QED
      BY <2>2, <2>3 DEF ExhaustedOnlyWhenFragmented
  <1> QED
    BY <1>1, Invariance, PTL

-----------------------------------------------------------------------------
(* The abstract memory. *)

Abstract(o) == [type |-> o.type, car |-> o.car, cdr |-> o.cdr]

LEMMA AbstractFacts ==
  /\ DOMAIN absObjs = Kept
  /\ \A a \in Kept : absObjs[a] = Abstract(heap[a])
  /\ \A a \in Kept : Memory!Fields(absObjs[a]) = Fields(heap[a])
  /\ absRoot = root
  BY DEF absObjs, absRoot, Abstract, Memory!Fields, Fields

LEMMA AbstractFactsNext ==
  /\ DOMAIN absObjs' = Kept'
  /\ \A a \in Kept' : absObjs'[a] = Abstract(heap'[a])
  /\ absRoot' = root'
  BY DEF absObjs, absRoot, Abstract

\* While the same cells are kept and hold the same, nothing is seen to happen.
LEMMA AbstractSame ==
  ASSUME Kept' = Kept, root' = root, \A a \in Kept : heap'[a] = heap[a]
  PROVE  UNCHANGED <<absRoot, absObjs>>
  BY DEF absObjs, absRoot

\* No reference leads out of the abstract memory.
LEMMA AbstractClosed == IInv => Memory!Closed
  <1> SUFFICES ASSUME IInv PROVE Memory!Closed
    OBVIOUS
  <1>1. ClosedFromRoots(Kept)
    BY DEF IInv, CellsOK
  <1> QED
    BY <1>1, AbstractFacts DEF Memory!Closed, Memory!IsCell, ClosedFromRoots, CELL_P

LEMMA AbstractHeld ==
  ASSUME Graph, Kept = DOMAIN heap
  PROVE  Held = Memory!Held
  <1>1. \A i \in Roots : CELL_P(root[i]) => root[i] \in Kept
    BY DEF Graph, ClosedFromRoots
  <1>2. {j \in Roots : CELL_P(root[j])} = {j \in Roots : Memory!IsCell(absRoot[j])}
    BY DEF absRoot, CELL_P, Memory!IsCell
  <1>3. \A i \in {j \in Roots : CELL_P(root[j])} :
          Memory!Fields(absObjs[absRoot[i]]) = Fields(heap[root[i]])
    BY <1>1, AbstractFacts
  <1>4. {absRoot[i] : i \in Roots} = {root[i] : i \in Roots}
    BY DEF absRoot
  <1> QED
    BY <1>2, <1>3, <1>4 DEF Held, Memory!Held

\* The steps, seen in the abstract memory.
LEMMA ClientAssigns ==
  ASSUME IInv, Client
  PROVE  Memory!Next
  <1>1. pc = "run" /\ CellsOK
    BY DEF IInv, Client
  <1>2. Graph /\ Kept = DOMAIN heap
    BY <1>1, NotSweeping
  <1>3. pc' = "run" /\ DOMAIN heap' = DOMAIN heap
    BY <1>1, <1>2, ClientKeepsGraph
  <1>4. Kept' = Kept
    BY <1>2, <1>3, NotSweepingNext
  <1>5. ASSUME NEW i \in Roots, NEW v \in Held, Assign(i, v)
        PROVE  Memory!Next
    <2>1. v \in Memory!Held
      BY <1>2, AbstractHeld
    <2>2. root' = [root EXCEPT ![i] = v] /\ heap' = heap
      BY <1>5 DEF Assign
    <2>3. absObjs' = absObjs
      BY <1>4, <2>2 DEF absObjs
    <2> QED
      BY <2>1, <2>2, <2>3 DEF Memory!Next, Memory!Assign, absRoot
  <1>6. ASSUME NEW i \in Roots, NEW j \in Roots, Redefine(i, j)
        PROVE  Memory!Next
    <2> DEFINE e == heap[root[i]].car
               v == root[j]
               o == absObjs[e]
    <2>1. /\ CELL_P(root[i]) /\ CELL_P(e) /\ heap[e].type = "pair"
          /\ heap' = [heap EXCEPT ![e].cdr = v] /\ root' = root
      BY <1>6 DEF Redefine
    <2>2. root[i] \in Kept /\ e \in Kept /\ e \in DOMAIN heap /\ heap[e] \in Object
      BY <1>2, <2>1 DEF Graph, ClosedFromRoots, Fields
    <2>3. absObjs[absRoot[i]].car = e /\ absObjs[e].type = "pair" /\ absRoot[j] = v
      BY <2>1, <2>2, AbstractFacts DEF Abstract
    <2> HIDE DEF e, v
    <2>4. heap'[e] = [heap[e] EXCEPT !.cdr = v] /\ \A x \in DOMAIN heap : x # e => heap'[x] = heap[x]
      BY <2>1, <2>2
    <2>5. o = Abstract(heap[e]) /\ [o EXCEPT !.cdr = v] = Abstract(heap'[e])
      BY <2>2, <2>4, AbstractFacts DEF Abstract, Object
    <2>6. absObjs' = [absObjs EXCEPT ![e] = [o EXCEPT !.cdr = v]]
      <3> DEFINE f == [absObjs EXCEPT ![e] = [o EXCEPT !.cdr = v]]
                 g == absObjs'
      <3>1. DOMAIN g = DOMAIN absObjs /\ g = [x \in DOMAIN g |-> g[x]]
        BY <1>4 DEF absObjs
      <3>2. DOMAIN f = DOMAIN absObjs /\ f = [x \in DOMAIN f |-> f[x]]
        BY DEF absObjs
      <3>3. ASSUME NEW x \in DOMAIN absObjs
            PROVE  g[x] = f[x]
        <4>1. x \in Kept /\ x \in DOMAIN heap /\ g[x] = Abstract(heap'[x])
          BY <1>2, <1>4, <3>3, AbstractFacts, AbstractFactsNext
        <4>2. CASE x = e
          BY <2>5, <3>3, <4>1, <4>2
        <4>3. CASE x # e
          BY <2>4, <3>3, <4>1, <4>3, AbstractFacts
        <4> QED
          BY <4>2, <4>3
      <3> HIDE DEF f, g
      <3>4. g = f
        BY <3>1, <3>2, <3>3
      <3> QED
        BY <3>4 DEF f, g
    <2>7. absObjs' = [absObjs EXCEPT ![e].cdr = v]
      BY <2>6 DEF o
    <2>8. Memory!Redefine(i, j)
      BY <2>1, <2>3, <2>7 DEF Memory!Redefine, Memory!IsCell, CELL_P, absRoot
    <2> QED
      BY <2>8 DEF Memory!Next
  <1> QED
    BY <1>5, <1>6 DEF Client

LEMMA AllocateMakes ==
  ASSUME IInv, Searching, NEW r \in Requests, Allocate(r)
  PROVE  Memory!Next
  <1> DEFINE got == Fitting(r)
             c   == got.chunk
             n   == got.size
             o   == NewObject(r, n)
             A   == Abstract(o)
  <1>1. CellsOK /\ ArenaOK /\ ListOK /\ pc # "sweep" /\ pc' = "run"
    BY DEF IInv, Searching, Allocate
  <1>2. Graph /\ Kept = DOMAIN heap /\ Kept' = DOMAIN heap'
    BY <1>1, NotSweeping, NotSweepingNext
  <1>3. got.chunk # NULL
    BY DEF Allocate
  <1>4. c \in Nat \ DOMAIN heap /\ n \in Nat
    BY <1>1, <1>3, TakenFacts
  <1>5. Adds(r, c, n)
    BY <1>1, AllocatedCells
  <1> HIDE DEF got, c, n
  <1>6. /\ DOMAIN heap' = DOMAIN heap \cup {c} /\ heap'[c] = o
        /\ \A x \in DOMAIN heap : heap'[x] = heap[x]
    BY <1>2, <1>4, <1>5, NewCellKeepsGraph
  <1>7. root' = [root EXCEPT ![r.dst] = c]
    BY <1>5 DEF Adds
  <1>8. /\ r.dst \in Roots /\ r.a \in Roots /\ r.d \in Roots /\ r.type \in {"leaf", "pair"}
        /\ r.type = "pair" => r.dst = r.a
    BY RequestFacts DEF Requests, LeafRequests, PairRequests
  <1>9. A = [type |-> r.type, car |-> IF r.type = "pair" THEN root[r.a] ELSE IMM,
                              cdr |-> IF r.type = "pair" THEN root[r.d] ELSE IMM]
    BY DEF NewObject, Abstract
  <1> HIDE DEF o
  <1>10. absObjs' = [x \in DOMAIN absObjs \cup {c} |-> IF x = c THEN A ELSE absObjs[x]]
    <2> DEFINE f == [x \in DOMAIN absObjs \cup {c} |-> IF x = c THEN A ELSE absObjs[x]]
               g == absObjs'
    <2>1. DOMAIN g = DOMAIN f /\ g = [x \in DOMAIN g |-> g[x]] /\ f = [x \in DOMAIN f |-> f[x]]
      BY <1>2, <1>6 DEF absObjs
    <2>2. ASSUME NEW x \in DOMAIN f
          PROVE  g[x] = f[x]
      <3>1. g[x] = Abstract(heap'[x])
        BY <2>1, <2>2, AbstractFactsNext
      <3>2. CASE x = c
        BY <1>6, <3>1, <3>2
      <3>3. CASE x # c
        <4>1. x \in Kept /\ x \in DOMAIN heap
          BY <1>2, <2>2, <3>3, AbstractFacts
        <4> QED
          BY <1>6, <3>1, <3>3, <4>1, AbstractFacts
      <3> QED
        BY <3>2, <3>3
    <2> HIDE DEF f, g
    <2>3. g = f
      BY <2>1, <2>2
    <2> QED
      BY <2>3 DEF f, g
  <1>11. c \notin DOMAIN absObjs /\ c \in DOMAIN absObjs'
    BY <1>2, <1>4, <1>10, AbstractFacts
  <1> HIDE DEF A
  <1>12. Memory!New(r.dst, A)
    BY <1>7, <1>10, <1>11 DEF Memory!New, absRoot
  <1>13. CASE r.type = "leaf"
    <2>1. A = Memory!Leaf
      BY <1>9, <1>13 DEF Memory!Leaf
    <2> QED
      BY <1>8, <1>12, <2>1 DEF Memory!Next, Memory!NewLeaf
  <1>14. CASE r.type = "pair"
    <2>1. A = Memory!Pair(absRoot[r.a], absRoot[r.d])
      BY <1>9, <1>14 DEF Memory!Pair, absRoot
    <2> QED
      BY <1>8, <1>12, <1>14, <2>1 DEF Memory!Next, Memory!NewPair
  <1> QED
    BY <1>8, <1>13, <1>14

\* What is not marked when the sweep begins is collected, the rest stays where
\* it is.
LEMMA SweepStartCollects ==
  ASSUME IInv, SweepStart, Memory!Closed'
  PROVE  Memory!Collect \/ UNCHANGED <<absRoot, absObjs>>
  <1> DEFINE from == [a \in DOMAIN absObjs' |-> a]
  <1>1. Kept' = Live /\ Kept = DOMAIN heap /\ root' = root /\ heap' = heap
    BY SweepStartKept DEF SweepStart
  <1>2. /\ DOMAIN absObjs' \subseteq DOMAIN absObjs
        /\ \A a \in DOMAIN absObjs' : absObjs'[a] = absObjs[a] /\ absObjs[a] = Abstract(heap[a])
    BY <1>1, AbstractFacts, AbstractFactsNext DEF Live
  <1>3. /\ from \in [DOMAIN absObjs' -> DOMAIN absObjs]
        /\ \A a \in DOMAIN absObjs' : from[a] = a
        /\ Memory!IsInjective(from)
    BY <1>2 DEF Memory!IsInjective
  <1>4. \A i \in Roots : Memory!IsCell(absRoot'[i]) => absRoot'[i] \in DOMAIN absObjs'
    BY DEF Memory!Closed
  <1>5. \A a \in DOMAIN absObjs' : \A v \in Memory!Fields(absObjs'[a]) :
          Memory!IsCell(v) => v \in DOMAIN absObjs'
    BY DEF Memory!Closed
  <1> HIDE DEF from
  <1>6. \A v : (Memory!IsCell(v) => v \in DOMAIN absObjs') => Memory!Renamed(from, v) = v
    BY <1>3 DEF Memory!Renamed
  <1>7. ASSUME NEW a \in DOMAIN absObjs'
        PROVE  absObjs[from[a]] = [absObjs'[a] EXCEPT !.car = Memory!Renamed(from, @),
                                                      !.cdr = Memory!Renamed(from, @)]
    <2> DEFINE o == absObjs'[a]
    <2>1. o = Abstract(heap[a]) /\ absObjs[from[a]] = o
      BY <1>2, <1>3
    <2>2. Memory!Renamed(from, o.car) = o.car /\ Memory!Renamed(from, o.cdr) = o.cdr
      BY <1>5, <1>6 DEF Memory!Fields
    <2>3. o = [o EXCEPT !.car = o.car, !.cdr = o.cdr]
      BY <2>1 DEF Abstract
    <2> QED
      BY <2>1, <2>2, <2>3
  <1>8. \A i \in Roots : absRoot[i] = Memory!Renamed(from, absRoot'[i])
    BY <1>1, <1>4, <1>6 DEF absRoot
  <1>9. Memory!Relocate(from)
    BY <1>3, <1>7, <1>8, Zenon DEF Memory!Relocate
  <1>10. CASE absObjs' # absObjs
    BY <1>3, <1>9, <1>10 DEF Memory!Collect
  <1>11. CASE absObjs' = absObjs
    BY <1>1, <1>11 DEF absRoot
  <1> QED
    BY <1>10, <1>11

\* The other steps of a collection are not seen.
LEMMA CollectionStutters ==
  ASSUME IInv,
         \/ MarkPhase /\ UNCHANGED sweepVars
         \/ \E r \in Requests : GCStart(r)
         \/ SweepMarked \/ SweepFree \/ SweepEnd \/ GCAgain \/ Exhausted
  PROVE  UNCHANGED <<absRoot, absObjs>>
  <1>1. CASE MarkPhase \/ (\E r \in Requests : GCStart(r)) \/ GCAgain \/ Exhausted
    <2>1. UNCHANGED <<root, heap>> /\ pc # "sweep" /\ pc' # "sweep"
      BY <1>1 DEF MarkPhase, MarkRoot, RootsMarked, MarkNext, MarkTo, GCStart, GCAgain,
                  StartGC, Exhausted
    <2>2. Kept' = Kept
      BY <2>1, NotSweeping, NotSweepingNext
    <2> QED
      BY <2>1, <2>2, AbstractSame
  <1>2. CASE SweepMarked
    BY <1>2, SweepMarkedKept, AbstractSame DEF SweepMarked
  <1>3. CASE SweepEnd
    BY <1>3, SweepEndFacts, AbstractSame DEF SweepEnd
  <1>4. CASE SweepFree
    <2>1. /\ Kept' = Kept /\ scan \notin Kept /\ DOMAIN heap' = DOMAIN heap \ {scan}
          /\ \A a \in DOMAIN heap' : heap'[a] = heap[a]
      BY <1>4, SweepFreeKept
    <2>2. \A a \in Kept : heap'[a] = heap[a]
      BY <2>1 DEF Kept
    <2> QED
      BY <1>4, <2>1, <2>2, AbstractSame DEF SweepFree
  <1> QED
    BY <1>1, <1>2, <1>3, <1>4

LEMMA AbstractInit == Init => Memory!Init
  <1> SUFFICES ASSUME Init PROVE Memory!Init
    OBVIOUS
  <1>1. root = [i \in Roots |-> IMM] /\ heap = <<>>
    BY DEF Init, BaseInit
  <1>2. absObjs = <<>>
    BY <1>1 DEF absObjs, Kept
  <1> QED
    BY <1>1, <1>2 DEF Memory!Init, absRoot

LEMMA AbstractNext == IInv /\ Memory!Closed' /\ [Next]_vars => [Memory!Next]_(Memory!memVars)
  <1> SUFFICES ASSUME IInv, Memory!Closed', [Next]_vars
               PROVE  Memory!Next \/ UNCHANGED <<absRoot, absObjs>>
    BY DEF Memory!memVars
  <1>1. CASE Client
    BY <1>1, ClientAssigns
  <1>2. ASSUME NEW r \in Requests, MallocFast(r) PROVE Memory!Next
    BY <1>2, AllocateMakes DEF MallocFast, Searching
  <1>3. CASE MallocAfterStress \/ MallocRetry
    <2>1. Searching /\ req \in Requests /\ Allocate(req)
      BY <1>3 DEF MallocAfterStress, MallocRetry, Searching, IInv, StateOK
    <2> QED
      BY <2>1, AllocateMakes
  <1>4. CASE SweepStart
    BY <1>4, SweepStartCollects DEF Memory!Next
  <1>5. CASE \/ MarkPhase /\ UNCHANGED sweepVars
             \/ \E r \in Requests : GCStart(r)
             \/ SweepMarked \/ SweepFree \/ SweepEnd \/ GCAgain \/ Exhausted
    BY <1>5, CollectionStutters
  <1>6. CASE UNCHANGED vars
    BY <1>6 DEF vars, absRoot, absObjs, Kept
  <1> QED
    BY <1>1, <1>2, <1>3, <1>4, <1>5, <1>6 DEF Next, Collector, Terminated

\* Behind gc_malloc the program sees the abstract memory: nothing moves, and what
\* the sweep frees no root reaches.
THEOREM MemoryIsImplemented == Spec => ImplementsObjectMemory
  <1>1. Init => Memory!Init
    BY AbstractInit
  <1>2. IInv => Memory!Closed
    BY AbstractClosed
  <1>3. IInv /\ Memory!Closed' /\ [Next]_vars => [Memory!Next]_(Memory!memVars)
    BY AbstractNext
  <1>4. Spec => []IInv
    BY Invariance
  <1> QED
    BY <1>1, <1>2, <1>3, <1>4, PTL DEF Spec, ImplementsObjectMemory, Memory!Spec
=============================================================================
