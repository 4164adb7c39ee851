-------------------------- MODULE RefCountGC_proofs --------------------------
(***************************************************************************)
(* Reference counts are exact but for what OP_SROT and execute leave out,  *)
(* cells are given back once, one that is still referred to only after     *)
(* OP_SROT has stored it, and the heap holds together at every step of a   *)
(* release, for every heap size, header size, number of roots, set of      *)
(* request sizes and bound of the drift; behind it all the program sees    *)
(* the graph of ObjectMemory, and nothing is lost but the strings set_var  *)
(* makes for known names and what execute has dropped.                     *)
(*                                                                         *)
(* What makes it inductive: the count of a cell in use is the number of    *)
(* slots, fields and pending decrements that refer to it, and its drift;   *)
(* and a cell that anything refers to has a count, however far OP_SROT has *)
(* put it out: the decrement that takes the last of it corrupts or         *)
(* releases.  That nothing else is lost rests on a second invariant: no    *)
(* set of cells in use holds a reference to each of its own members.       *)
(*                                                                         *)
(* The mark stack comes along with Collectors_proofs; nothing here is      *)
(* about it.                                                               *)
(***************************************************************************)
EXTENDS RefCountGC, Collectors_proofs

-----------------------------------------------------------------------------
(* The invariant *)

InUse == DOMAIN heap \ Released

\* How many arguments a function takes to a, and of one argument.
Refs(f, a) == Cardinality({x \in DOMAIN f : f[x] = a})
Is(v, a)   == IF v = a THEN 1 ELSE 0

Cars(h, cells)  == [b \in cells |-> h[b].car]
Cdrs(h, cells)  == [b \in cells |-> h[b].cdr]
SizesOf(h)      == [a \in DOMAIN h |-> h[a].size]

Tasks == [op : {"decrement", "put"}, cell : Nat]

\* Cells and chunks tile the heap, and the list holds the chunks in address order.
HeapOK(h, ch, fl) ==
  /\ h \in [DOMAIN h -> Object]
  /\ DOMAIN h \subseteq Nat /\ IsFiniteSet(DOMAIN h)
  /\ \A a \in DOMAIN h : h[a].size >= FreeChunkSize
  /\ Parts(SizesOf(h), ch, 0, HeapSize)
  /\ ch \in [DOMAIN ch -> Nat]
  /\ fl \in Seq(Nat) /\ Sorted(fl) /\ Elems(fl) = DOMAIN ch

StateType ==
  /\ root \in [Roots -> Value]
  /\ ref_cnt \in [DOMAIN heap -> Int]
  /\ drift \in [DOMAIN heap -> Int]
  /\ release \in Seq(Tasks)
  /\ pc \in {"run", "exited", "corrupted"}
  /\ pc = "corrupted" => release # <<>> /\ Task.op = "decrement" /\ drift[Task.cell] < 0

\* What roots, cells in use and pending decrements refer to is in use.
RefsInUse ==
  /\ \A i \in Roots : CELL_P(root[i]) => root[i] \in InUse
  /\ \A b \in InUse : \A v \in Fields(heap[b]) : CELL_P(v) => v \in InUse
  /\ \A n \in 1 .. Len(release) : release[n].op = "decrement" => release[n].cell \in InUse

\* How many slots, fields of cells in use and pending decrements refer to a.
NamesIn(rt, h, cells, rel, a) ==
  Refs(rt, a) + Refs(Cars(h, cells), a) + Refs(Cdrs(h, cells), a) + Refs(rel, Decrement(a))
Names(a) == NamesIn(root, heap, InUse, release, a)

\* The count c of a cell that n references lead to and whose drift is d.
Balanced(c, n, d) == c = n + d /\ c >= 0 /\ (n > 0 => c > 0)

Exact == \A a \in InUse : Balanced(ref_cnt[a], Names(a), drift[a])

\* The count of a cell that is given back was right.
NoDrift == \A a \in Released : drift[a] = 0

\* A cell is waiting to be given back, once, if and only if its count is -1.
PutOnce == \A a \in Nat : Refs(release, PutChunkOf(a)) = IF a \in Released THEN 1 ELSE 0

IInv == HeapOK(heap, chunks, freelist) /\ StateType /\ RefsInUse /\ Exact /\ NoDrift /\ PutOnce

-----------------------------------------------------------------------------
(* Counting references. *)

LEMMA RefsType ==
  ASSUME NEW f, IsFiniteSet(DOMAIN f), NEW a
  PROVE  /\ IsFiniteSet({x \in DOMAIN f : f[x] = a})
         /\ Refs(f, a) \in Nat
         /\ Refs(f, a) = 0 <=> \A x \in DOMAIN f : f[x] # a
  <1> DEFINE S == {x \in DOMAIN f : f[x] = a}
  <1>1. S \subseteq DOMAIN f
    OBVIOUS
  <1>2. IsFiniteSet(S)
    BY <1>1, FS_Subset
  <1>3. Cardinality(S) \in Nat /\ (Cardinality(S) = 0 <=> S = {})
    BY <1>2, FS_CardinalityType, FS_EmptySet
  <1> QED
    BY <1>2, <1>3 DEF Refs

\* g is f with one more argument, x, or with another value for x.
Gains(g, f, x) ==
  /\ x \notin DOMAIN f
  /\ DOMAIN g = DOMAIN f \cup {x}
  /\ \A y \in DOMAIN f : g[y] = f[y]
Changes(g, f, x) ==
  /\ x \in DOMAIN f
  /\ DOMAIN g = DOMAIN f
  /\ \A y \in DOMAIN f : y # x => g[y] = f[y]

LEMMA RefsAdd ==
  ASSUME NEW f, IsFiniteSet(DOMAIN f), NEW x, NEW g, Gains(g, f, x), NEW a
  PROVE  Refs(g, a) = Refs(f, a) + Is(g[x], a) /\ IsFiniteSet(DOMAIN g)
  <1> USE DEF Gains
  <1> DEFINE S == {y \in DOMAIN f : f[y] = a}
             T == {y \in DOMAIN g : g[y] = a}
  <1>1. IsFiniteSet(S) /\ Cardinality(S) \in Nat
    BY RefsType, FS_CardinalityType
  <1>2. Refs(f, a) = Cardinality(S) /\ Refs(g, a) = Cardinality(T)
    BY DEF Refs
  <1>3. IsFiniteSet(DOMAIN g)
    BY FS_AddElement
  <1>4. CASE g[x] = a
    <2>1. T = S \cup {x} /\ x \notin S
      BY <1>4
    <2> HIDE DEF S, T
    <2>2. Cardinality(T) = Cardinality(S) + 1
      BY <1>1, <2>1, FS_AddElement
    <2>3. Is(g[x], a) = 1
      BY <1>4 DEF Is
    <2> QED
      BY <1>2, <1>3, <2>2, <2>3
  <1>5. CASE g[x] # a
    <2>1. T = S
      BY <1>5
    <2>2. Is(g[x], a) = 0
      BY <1>5 DEF Is
    <2> HIDE DEF S, T
    <2> QED
      BY <1>1, <1>2, <1>3, <2>1, <2>2
  <1> QED
    BY <1>4, <1>5

\* One argument less.
LEMMA RefsRemove ==
  ASSUME NEW f, IsFiniteSet(DOMAIN f), NEW x, NEW g, Gains(f, g, x), NEW a
  PROVE  Refs(g, a) = Refs(f, a) - Is(f[x], a) /\ IsFiniteSet(DOMAIN g)
  <1>1. IsFiniteSet(DOMAIN g)
    BY FS_Subset DEF Gains
  <1>2. Refs(f, a) = Refs(g, a) + Is(f[x], a)
    BY <1>1, RefsAdd
  <1>3. Refs(g, a) \in Nat /\ Is(f[x], a) \in Nat
    BY <1>1, RefsType DEF Is
  <1> QED
    BY <1>1, <1>2, <1>3

\* One argument changed.
LEMMA RefsUpdate ==
  ASSUME NEW f, IsFiniteSet(DOMAIN f), NEW x, NEW g, Changes(g, f, x), NEW a
  PROVE  Refs(g, a) = Refs(f, a) - Is(f[x], a) + Is(g[x], a)
  <1> DEFINE r == [y \in DOMAIN f \ {x} |-> f[y]]
  <1>1. Gains(f, r, x) /\ Gains(g, r, x)
    BY DEF Changes, Gains
  <1> HIDE DEF r
  <1>2. Refs(r, a) = Refs(f, a) - Is(f[x], a) /\ IsFiniteSet(DOMAIN r)
    BY <1>1, RefsRemove
  <1>3. Refs(g, a) = Refs(r, a) + Is(g[x], a)
    BY <1>1, <1>2, RefsAdd
  <1> QED
    BY <1>2, <1>3

\* Counts of a concatenation.
LEMMA RefsConcat ==
  ASSUME NEW S, NEW s \in Seq(S), NEW t \in Seq(S), NEW a
  PROVE  /\ Refs(s \o t, a) = Refs(s, a) + Refs(t, a)
         /\ Refs(s, a) \in Nat /\ Refs(t, a) \in Nat
  <1> DEFINE m == Len(s)
             n == Len(t)
             w == s \o t
             A == {i \in 1 .. m : s[i] = a}
             B == {i \in 1 .. n : t[i] = a}
             C == {i \in m + 1 .. m + n : w[i] = a}
             W == {i \in 1 .. m + n : w[i] = a}
  <1>1. /\ m \in Nat /\ DOMAIN s = 1 .. m
        /\ n \in Nat /\ DOMAIN t = 1 .. n
    BY LenProperties
  <1>2. /\ w \in Seq(S) /\ Len(w) = m + n
        /\ \A i \in 1 .. m + n : w[i] = IF i <= m THEN s[i] ELSE t[i - m]
    BY ConcatProperties
  <1>3. DOMAIN w = 1 .. m + n
    BY <1>2, LenProperties
  <1>4. Refs(s, a) = Cardinality(A) /\ Refs(t, a) = Cardinality(B) /\ Refs(w, a) = Cardinality(W)
    BY <1>1, <1>3 DEF Refs
  <1>5. IsFiniteSet(A) /\ IsFiniteSet(B)
    <2>1. IsFiniteSet(1 .. m) /\ IsFiniteSet(1 .. n)
      BY <1>1, FS_Interval
    <2>2. A \subseteq 1 .. m /\ B \subseteq 1 .. n
      OBVIOUS
    <2> QED
      BY <2>1, <2>2, FS_Subset
  <1> HIDE DEF m, n, w
  <1>6. W = A \cup C /\ A \cap C = {}
    BY <1>1, <1>2
  <1>7. IsFiniteSet(C) /\ Cardinality(C) = Cardinality(B)
    <2> DEFINE f == [i \in B |-> m + i]
    <2>1. f \in Bijection(B, C)
      <3>1. \A i \in B : m + i \in C
        BY <1>1, <1>2
      <3>2. \A i, j \in B : m + i = m + j => i = j
        BY <1>1
      <3>3. \A j \in C : j - m \in B /\ m + (j - m) = j
        BY <1>1, <1>2
      <3> QED
        BY <3>1, <3>2, <3>3 DEF Bijection, Injection, Surjection, IsInjective
    <2> HIDE DEF f, B, C
    <2>2. ExistsBijection(B, C)
      BY <2>1 DEF ExistsBijection
    <2> QED
      BY <1>5, <2>2, FS_Bijection
  <1> HIDE DEF A, B, C, W
  <1>8. Cardinality(W) = Cardinality(A) + Cardinality(C)
    <2>1. Cardinality(W) = Cardinality(A) + Cardinality(C) - Cardinality(A \cap C)
      BY <1>5, <1>6, <1>7, FS_Union
    <2>2. Cardinality(A \cap C) = 0
      BY <1>6, FS_EmptySet
    <2>3. Cardinality(A) \in Nat /\ Cardinality(C) \in Nat
      BY <1>5, <1>7, FS_CardinalityType
    <2> QED
      BY <2>1, <2>2, <2>3
  <1> QED
    BY <1>4, <1>5, <1>7, <1>8, FS_CardinalityType DEF w

-----------------------------------------------------------------------------
(* The heap. *)

LEMMA AllocateSizeFacts ==
  ASSUME NEW size \in Nat
  PROVE  AllocateSize(size) \in Nat \ {0} /\ AllocateSize(size) >= FreeChunkSize
  BY HeaderAssumption, FreeChunkAssumption, ChunkAssumption DEF AllocateSize

LEMMA HeapFacts ==
  ASSUME HeapOK(heap, chunks, freelist)
  PROVE  /\ \A a \in DOMAIN heap : a \in Nat /\ heap[a] \in Object /\ heap[a].size \in Nat \ {0}
         /\ SizesType(chunks) /\ Apart(chunks)
         /\ DOMAIN heap \cap DOMAIN chunks = {}
         /\ DOMAIN SizesOf(heap) = DOMAIN heap
  <1>1. DOMAIN SizesOf(heap) = DOMAIN heap
    BY DEF SizesOf
  <1>2. \A a \in DOMAIN heap : a \in Nat /\ heap[a] \in Object /\ heap[a].size \in Nat
    BY DEF HeapOK, Object
  <1>3. \A a \in DOMAIN heap : heap[a].size > 0
    BY <1>2, FreeChunkAssumption DEF HeapOK
  <1>4. Parts(SizesOf(heap), chunks, 0, HeapSize)
    BY DEF HeapOK
  <1>5. SizesType(chunks) /\ Apart(chunks)
    BY <1>4, PartsFacts
  <1>6. DOMAIN SizesOf(heap) \cap DOMAIN chunks = {}
    BY <1>4 DEF Parts
  <1> QED
    BY <1>1, <1>2, <1>3, <1>5, <1>6

\* gc_malloc_reference_count, when a chunk fits.
LEMMA TakenFacts ==
  ASSUME HeapOK(heap, chunks, freelist), NEW size \in Nat,
         NEW got, got = Fitting(size), got.chunk # NULL
  PROVE  /\ got.chunk \in DOMAIN chunks /\ got.chunk \in Nat \ DOMAIN heap
         /\ got.size \in Nat /\ FreeChunkSize <= got.size /\ got.size <= chunks[got.chunk]
         /\ got.list \in Seq(Nat) /\ Sorted(got.list) /\ Elems(got.list) = DOMAIN got.sizes
         /\ got.sizes \in [DOMAIN got.sizes -> Nat]
         /\ \/ TakesWhole(got, freelist, chunks, got.chunk)
            \/ TakesPart(got, freelist, chunks, got.chunk, AllocateSize(size))
  <1> DEFINE n == AllocateSize(size)
             c == got.chunk
  <1>1. n \in Nat \ {0} /\ n >= FreeChunkSize
    BY AllocateSizeFacts
  <1>2. SizesType(chunks) /\ Apart(chunks) /\ DOMAIN heap \cap DOMAIN chunks = {}
    BY HeapFacts
  <1>3. got = GetFreeChunk(freelist, chunks, n)
    BY DEF Fitting
  <1>4. /\ freelist \in Seq(Nat) /\ Elems(freelist) \subseteq DOMAIN chunks /\ Sorted(freelist)
        /\ Elems(freelist) = DOMAIN chunks
    BY DEF HeapOK
  <1> HIDE DEF n
  <1>5. /\ c \in Elems(freelist)
        /\ n <= chunks[c]
        /\ got.list \in Seq(Nat) /\ Sorted(got.list)
        /\ \/ TakesWhole(got, freelist, chunks, c)
           \/ TakesPart(got, freelist, chunks, c, n)
    BY <1>1, <1>2, <1>3, <1>4, GetFreeChunkFacts
  <1> HIDE DEF c
  <1>6. c \in DOMAIN chunks /\ c \in Nat /\ c \notin DOMAIN heap /\ chunks[c] \in Nat
    BY <1>2, <1>4, <1>5 DEF SizesType
  <1>7. CASE TakesWhole(got, freelist, chunks, c)
    <2>1. /\ got.size = chunks[c] /\ got.sizes = Drop(chunks, c)
          /\ Elems(got.list) = Elems(freelist) \ {c}
      BY <1>7 DEF TakesWhole
    <2>2. DOMAIN Drop(chunks, c) = DOMAIN chunks \ {c}
      BY DEF Drop
    <2>3. got.sizes \in [DOMAIN got.sizes -> Nat]
      BY <1>2, <2>1 DEF Drop, SizesType
    <2>4. got.size \in Nat /\ FreeChunkSize <= got.size /\ got.size <= chunks[c]
      BY <1>1, <1>5, <1>6, <2>1, FreeChunkAssumption
    <2>5. Elems(got.list) = DOMAIN got.sizes
      BY <1>4, <2>1, <2>2
    <2> QED
      BY <1>5, <1>6, <1>7, <2>3, <2>4, <2>5 DEF c
  <1>8. CASE TakesPart(got, freelist, chunks, c, n)
    <2>1. /\ got.size = n /\ got.sizes = WithSize(Drop(chunks, c), c + n, chunks[c] - n)
          /\ Elems(got.list) = (Elems(freelist) \ {c}) \cup {c + n}
      BY <1>8 DEF TakesPart
    <2>2. DOMAIN WithSize(Drop(chunks, c), c + n, chunks[c] - n) = (DOMAIN chunks \ {c}) \cup {c + n}
      BY DEF Drop, WithSize
    <2>3. got.sizes \in [DOMAIN got.sizes -> Nat]
      <3>1. chunks[c] - n \in Nat
        BY <1>1, <1>5, <1>6
      <3> QED
        BY <1>2, <2>1, <3>1 DEF WithSize, Drop, SizesType
    <2>4. Elems(got.list) = DOMAIN got.sizes
      BY <1>4, <2>1, <2>2
    <2> QED
      BY <1>1, <1>5, <1>6, <1>8, <2>1, <2>3, <2>4 DEF c, n
  <1> QED
    BY <1>5, <1>7, <1>8

\* The new cell destroys no other cell, and the heap still holds together.
LEMMA AllocatedHeap ==
  ASSUME HeapOK(heap, chunks, freelist), NEW size \in Nat,
         NEW got, got = Fitting(size), got.chunk # NULL,
         NEW o \in Object, o.size = got.size,
         NEW h, h = Overwrite(heap, got.chunk, o)
  PROVE  /\ Gains(h, heap, got.chunk) /\ h[got.chunk] = o
         /\ HeapOK(h, got.sizes, got.list)
  <1> DEFINE c == got.chunk
  <1>1. /\ c \in DOMAIN chunks /\ c \in Nat /\ c \notin DOMAIN heap
        /\ got.size \in Nat /\ FreeChunkSize <= got.size /\ got.size <= chunks[c]
        /\ got.list \in Seq(Nat) /\ Sorted(got.list) /\ Elems(got.list) = DOMAIN got.sizes
        /\ got.sizes \in [DOMAIN got.sizes -> Nat]
        /\ \/ TakesWhole(got, freelist, chunks, c)
           \/ TakesPart(got, freelist, chunks, c, AllocateSize(size))
    BY TakenFacts
  <1> HIDE DEF c
  <1>2. ASSUME NEW x \in DOMAIN heap
        PROVE  x + heap[x].size <= c \/ c + o.size <= x
    <2> DEFINE s == Both(SizesOf(heap), chunks)
    <2>1. /\ x \in DOMAIN s /\ c \in DOMAIN s
          /\ s[x] = heap[x].size /\ s[c] = chunks[c]
      BY <1>1 DEF Both, SizesOf
    <2>2. Apart(s)
      BY DEF HeapOK, Parts, Tiles
    <2>3. x \in Nat /\ heap[x].size \in Nat /\ chunks[c] \in Nat
      BY <1>1, HeapFacts DEF SizesType
    <2>4. x < c \/ c < x
      BY <1>1, <2>3
    <2> HIDE DEF s
    <2> QED
      BY <1>1, <2>1, <2>2, <2>3, <2>4 DEF Apart
  <1>3. h = [x \in DOMAIN heap \cup {c} |-> IF x = c THEN o ELSE heap[x]]
    <2>1. {x \in DOMAIN heap : x + heap[x].size <= c \/ c + o.size <= x} = DOMAIN heap
      BY <1>2
    <2> QED
      BY <2>1, Zenon DEF Overwrite, c
  <1>4. Gains(h, heap, c) /\ h[c] = o
    BY <1>1, <1>3 DEF Gains
  <1>5. h \in [DOMAIN h -> Object] /\ DOMAIN h \subseteq Nat /\ IsFiniteSet(DOMAIN h)
    <2>1. DOMAIN h = DOMAIN heap \cup {c}
      BY <1>4 DEF Gains
    <2>2. IsFiniteSet(DOMAIN heap \cup {c})
      BY FS_AddElement DEF HeapOK
    <2> QED
      BY <1>1, <1>3, <2>1, <2>2 DEF HeapOK
  <1>6. \A a \in DOMAIN h : h[a].size >= FreeChunkSize
    BY <1>1, <1>4 DEF Gains, HeapOK
  <1>7. Parts(SizesOf(h), got.sizes, 0, HeapSize)
    <2> DEFINE n == AllocateSize(size)
               u == SizesOf(heap)
               w == SizesOf(h)
    <2>1. DOMAIN w = DOMAIN u \cup {c} /\ w[c] = got.size /\ \A x \in DOMAIN u : w[x] = u[x]
      BY <1>1, <1>4 DEF SizesOf, Gains
    <2>2. Parts(u, chunks, 0, HeapSize)
      BY DEF HeapOK
    <2>3. n \in Nat \ {0}
      BY AllocateSizeFacts
    <2>4. TakesWhole(got, freelist, chunks, c) \/ TakesPart(got, freelist, chunks, c, n)
      BY <1>1
    <2>5. c \in DOMAIN chunks
      BY <1>1
    <2> HIDE DEF n, u, w
    <2>6. DOMAIN w = DOMAIN u \cup {c}
      BY <2>1
    <2>7. w[c] = got.size
      BY <2>1
    <2>8. \A x \in DOMAIN u : w[x] = u[x]
      BY <2>1
    <2>9. Parts(w, got.sizes, 0, HeapSize)
      BY <2>2, <2>3, <2>4, <2>5, <2>6, <2>7, <2>8, TakeParts
    <2> QED
      BY <2>9 DEF w
  <1> QED
    BY <1>1, <1>4, <1>5, <1>6, <1>7 DEF HeapOK, c

\* put_chunk_to_freelist of a cell.
LEMMA FreedHeap ==
  ASSUME HeapOK(heap, chunks, freelist), NEW a \in DOMAIN heap,
         NEW put, put = PutChunk(freelist, chunks, a, heap[a].size)
  PROVE  HeapOK(WithoutCell(heap, a), put.sizes, put.list)
  <1> DEFINE h == WithoutCell(heap, a)
             n == heap[a].size
  <1>1. a \in Nat /\ a \notin DOMAIN chunks /\ n \in Nat /\ SizesType(chunks)
    BY HeapFacts
  <1>2. PutKeeps(put) /\ PutOutcome(put, chunks, a, n)
    BY <1>1, PutChunkFacts DEF HeapOK
  <1>3. DOMAIN h = DOMAIN heap \ {a} /\ \A x \in DOMAIN h : h[x] = heap[x]
    BY DEF WithoutCell
  <1>4. h \in [DOMAIN h -> Object] /\ DOMAIN h \subseteq Nat /\ IsFiniteSet(DOMAIN h)
    BY <1>3, FS_Subset DEF HeapOK, WithoutCell
  <1> HIDE DEF h, n
  <1>5. Parts(SizesOf(h), put.sizes, 0, HeapSize)
    <2>1. /\ DOMAIN SizesOf(h) = DOMAIN SizesOf(heap) \ {a}
          /\ \A x \in DOMAIN SizesOf(h) : SizesOf(h)[x] = SizesOf(heap)[x]
      BY <1>3 DEF SizesOf
    <2>2. /\ a \in DOMAIN SizesOf(heap) /\ SizesOf(heap)[a] = n
          /\ SizesOf(heap)[a] >= FreeChunkSize
      BY DEF SizesOf, HeapOK, n
    <2>3. Parts(SizesOf(heap), chunks, 0, HeapSize)
      BY DEF HeapOK
    <2>4. \A x \in DOMAIN SizesOf(heap) \cup DOMAIN chunks : 0 <= x
      BY HeapFacts DEF SizesType
    <2> QED
      BY <1>2, <2>1, <2>2, <2>3, <2>4, PutParts
  <1>6. put.sizes \in [DOMAIN put.sizes -> Nat]
    <2>1. \A x \in DOMAIN chunks : chunks[x] \in Nat
      BY <1>1 DEF SizesType
    <2>2. CASE PutsAlone(put, chunks, a, n)
      BY <1>1, <2>2 DEF PutsAlone, WithSize, SizesType
    <2>3. CASE PutsWithNext(put, chunks, a, n)
      <3>1. n + chunks[a + n] \in Nat
        BY <1>1, <2>1, <2>3 DEF PutsWithNext
      <3> QED
        BY <1>1, <2>3, <3>1 DEF PutsWithNext, WithSize, Drop, SizesType
    <2>4. ASSUME NEW prev \in DOMAIN chunks, PutsWithPrev(put, chunks, a, n, prev)
          PROVE  put.sizes \in [DOMAIN put.sizes -> Nat]
      <3>1. chunks[prev] + n \in Nat
        BY <1>1, <2>1
      <3> QED
        BY <1>1, <2>4, <3>1 DEF PutsWithPrev, WithSize, SizesType
    <2>5. ASSUME NEW prev \in DOMAIN chunks, PutsWithBoth(put, chunks, a, n, prev)
          PROVE  put.sizes \in [DOMAIN put.sizes -> Nat]
      <3>1. chunks[prev] + n + chunks[a + n] \in Nat
        BY <1>1, <2>1, <2>5 DEF PutsWithBoth
      <3> QED
        BY <1>1, <2>5, <3>1 DEF PutsWithBoth, WithSize, Drop, SizesType
    <2> QED
      BY <1>2, <2>2, <2>3, <2>4, <2>5 DEF PutOutcome
  <1>7. \A x \in DOMAIN h : h[x].size >= FreeChunkSize
    BY <1>3 DEF HeapOK
  <1> QED
    BY <1>2, <1>4, <1>5, <1>6, <1>7 DEF HeapOK, PutKeeps, h

-----------------------------------------------------------------------------
(* Counts and tasks. *)

LEMMA NoTasks ==
  /\ <<>> \in Seq(Tasks)
  /\ \A t : Refs(<<>>, t) = 0
  <1>1. DOMAIN <<>> = {} /\ IsFiniteSet({})
    BY FS_EmptySet
  <1> QED
    BY <1>1, RefsType

\* v is an immediate or a cell of D.
Within(v, D) == CELL_P(v) => v \in D

LEMMA IncrementedFacts ==
  ASSUME NEW D \in SUBSET Nat, NEW cnt \in [D -> Int], NEW v, Within(v, D)
  PROVE  /\ Incremented(cnt, v) \in [D -> Int]
         /\ \A x \in D : Incremented(cnt, v)[x] = cnt[x] + Is(v, x)
  <1>1. IMM \notin D
    <2>1. \A x \in D : x \in Int
      OBVIOUS
    <2> QED
      BY <2>1, ImmAssumption
  <1>2. CASE CELL_P(v)
    <2> DEFINE new == [cnt EXCEPT ![v] = @ + 1]
    <2>1. Incremented(cnt, v) = new
      BY <1>2 DEF Incremented
    <2>2. v \in D /\ cnt[v] \in Int /\ cnt[v] + 1 \in Int
      <3>1. v \in D
        BY <1>2 DEF Within
      <3> QED
        BY <3>1
    <2>3. DOMAIN new = D /\ new[v] = cnt[v] + 1 /\ \A x \in D : x # v => new[x] = cnt[x]
      BY <2>2
    <2>4. new \in [D -> Int]
      BY <2>2
    <2> HIDE DEF new
    <2>5. \A x \in D : new[x] = cnt[x] + Is(v, x)
      BY <2>2, <2>3 DEF Is
    <2> QED
      BY <2>1, <2>4, <2>5
  <1>3. CASE ~CELL_P(v)
    BY <1>1, <1>3 DEF Incremented, Is, CELL_P
  <1> QED
    BY <1>2, <1>3

LEMMA OneTask ==
  ASSUME NEW t \in Tasks
  PROVE  <<t>> \in Seq(Tasks) /\ \A u : Refs(<<t>>, u) = Is(t, u)
  <1>1. <<t>> \in Seq(Tasks) /\ DOMAIN <<t>> = {1} /\ <<t>>[1] = t
    OBVIOUS
  <1>2. ASSUME NEW u
        PROVE  Refs(<<t>>, u) = Is(t, u)
    <2>1. CASE t = u
      <3>1. {x \in DOMAIN <<t>> : <<t>>[x] = u} = {1}
        BY <1>1, <2>1
      <3> QED
        BY <2>1, <3>1, FS_Singleton DEF Refs, Is
    <2>2. CASE t # u
      <3>1. {x \in DOMAIN <<t>> : <<t>>[x] = u} = {}
        BY <1>1, <2>2
      <3> QED
        BY <2>2, <3>1, FS_EmptySet DEF Refs, Is
    <2> QED
      BY <2>1, <2>2
  <1> QED
    BY <1>1, <1>2

LEMMA DecrementsFacts ==
  ASSUME NEW v \in Value
  PROVE  /\ Decrements(v) \in Seq(Tasks)
         /\ \A a \in Nat : /\ Refs(Decrements(v), Decrement(a)) = Is(v, a)
                           /\ Refs(Decrements(v), PutChunkOf(a)) = 0
  <1>1. CASE CELL_P(v)
    <2> DEFINE t == Decrement(v)
    <2>1. t \in Tasks /\ Decrements(v) = <<t>>
      BY <1>1 DEF Tasks, Decrement, Decrements, CELL_P, Value
    <2>2. \A a \in Nat : Is(t, Decrement(a)) = Is(v, a) /\ Is(t, PutChunkOf(a)) = 0
      BY DEF Is, Decrement, PutChunkOf
    <2> HIDE DEF t
    <2> QED
      BY <2>1, <2>2, OneTask
  <1>2. CASE ~CELL_P(v)
    <2>1. Decrements(v) = <<>>
      BY <1>2 DEF Decrements
    <2>2. \A a \in Nat : Is(v, a) = 0
      BY <1>2, ImmAssumption DEF Is, CELL_P
    <2> QED
      BY <2>1, <2>2, NoTasks
  <1> QED
    BY <1>1, <1>2

\* What a state has of finite sets, and the values at hand.
LEMMA Basics ==
  ASSUME IInv
  PROVE  /\ IsFiniteSet(DOMAIN root) /\ DOMAIN root = Roots
         /\ IsFiniteSet(InUse) /\ InUse \subseteq DOMAIN heap /\ InUse \subseteq Nat
         /\ IMM \notin Nat
         /\ DOMAIN Cars(heap, InUse) = InUse /\ DOMAIN Cdrs(heap, InUse) = InUse
         /\ \A a : /\ Refs(root, a) \in Nat
                   /\ Refs(Cars(heap, InUse), a) \in Nat
                   /\ Refs(Cdrs(heap, InUse), a) \in Nat
                   /\ Refs(release, a) \in Nat
         /\ \A a : Names(a) \in Nat
         /\ \A a \in InUse : ref_cnt[a] \in Nat /\ drift[a] \in Int
  <1>1. DOMAIN root = Roots /\ IsFiniteSet(Roots)
    <2>1. IsFiniteSet(1 .. NRoots)
      BY FS_Interval, RootsAssumption
    <2> QED
      BY <2>1 DEF IInv, StateType, Roots
  <1>2. IsFiniteSet(InUse) /\ InUse \subseteq DOMAIN heap /\ InUse \subseteq Nat
    <2>1. InUse \subseteq DOMAIN heap
      BY DEF InUse
    <2> QED
      BY <2>1, FS_Subset DEF IInv, HeapOK
  <1>3. DOMAIN Cars(heap, InUse) = InUse /\ DOMAIN Cdrs(heap, InUse) = InUse
    BY DEF Cars, Cdrs
  <1>4. IMM \notin Nat
    BY ImmAssumption
  <1>5. IsFiniteSet(DOMAIN release)
    <2>1. Len(release) \in Nat /\ DOMAIN release = 1 .. Len(release)
      BY LenProperties DEF IInv, StateType
    <2> QED
      BY <2>1, FS_Interval
  <1>6. ASSUME NEW a
        PROVE  /\ Refs(root, a) \in Nat
               /\ Refs(Cars(heap, InUse), a) \in Nat
               /\ Refs(Cdrs(heap, InUse), a) \in Nat
               /\ Refs(release, a) \in Nat
    BY <1>1, <1>2, <1>3, <1>5, RefsType
  <1>7. \A a \in InUse : ref_cnt[a] \in Nat /\ drift[a] \in Int
    BY <1>2 DEF IInv, Exact, Balanced, StateType
  <1>8. \A a : Names(a) \in Nat
    BY <1>6 DEF Names, NamesIn
  <1> QED
    BY <1>1, <1>2, <1>3, <1>4, <1>6, <1>7, <1>8

\* m more references, all of them counted.
LEMMA StillBalanced ==
  ASSUME NEW c \in Int, NEW n \in Nat, NEW d \in Int, Balanced(c, n, d), NEW m \in Nat
  PROVE  Balanced(c + m, n + m, d)
  BY DEF Balanced

LEMMA HeldInUse ==
  ASSUME IInv, NEW v \in Held
  PROVE  v \in Value /\ (CELL_P(v) => v \in InUse)
  <1>1. InUse \subseteq Nat
    BY Basics
  <1>2. CASE v = IMM
    BY <1>2 DEF Value, CELL_P
  <1>3. ASSUME NEW i \in Roots, v = root[i]
        PROVE  v \in Value /\ (CELL_P(v) => v \in InUse)
    BY <1>3 DEF IInv, StateType, RefsInUse
  <1>4. ASSUME NEW i \in Roots, CELL_P(root[i]), v \in Fields(heap[root[i]])
        PROVE  v \in Value /\ (CELL_P(v) => v \in InUse)
    <2>1. root[i] \in InUse
      BY <1>4 DEF IInv, RefsInUse
    <2>2. CELL_P(v) => v \in InUse
      BY <1>4, <2>1 DEF IInv, RefsInUse
    <2> QED
      BY <1>1, <2>2 DEF Value, CELL_P
  <1> QED
    BY <1>2, <1>3, <1>4 DEF Held

\* A new reference to a cell in use releases nothing.
LEMMA CountedFacts ==
  ASSUME IInv, NEW v \in Value, CELL_P(v) => v \in InUse
  PROVE  /\ Counted(v) \in [DOMAIN heap -> Int]
         /\ \A x \in DOMAIN heap : Counted(v)[x] = ref_cnt[x] + Is(v, x)
         /\ \A x \in DOMAIN heap : Counted(v)[x] = -1 <=> ref_cnt[x] = -1
  <1>1. DOMAIN heap \subseteq Nat /\ ref_cnt \in [DOMAIN heap -> Int]
    BY DEF IInv, HeapOK, StateType
  <1>2. Within(v, DOMAIN heap)
    BY DEF InUse, Within
  <1>3. /\ Counted(v) \in [DOMAIN heap -> Int]
        /\ \A x \in DOMAIN heap : Counted(v)[x] = ref_cnt[x] + Is(v, x)
    BY <1>1, <1>2, IncrementedFacts DEF Counted
  <1>4. ASSUME NEW x \in DOMAIN heap
        PROVE  Counted(v)[x] = -1 <=> ref_cnt[x] = -1
    <2>1. CASE v = x
      <3>1. CELL_P(v)
        BY <1>1, <2>1, ImmAssumption DEF CELL_P
      <3>2. ref_cnt[x] \in Nat
        BY <2>1, <3>1, Basics
      <3> QED
        BY <1>3, <2>1, <3>2 DEF Is
    <2>2. CASE v # x
      BY <1>1, <1>3, <2>2 DEF Is
    <2> QED
      BY <2>1, <2>2
  <1> QED
    BY <1>3, <1>4

-----------------------------------------------------------------------------
(* The actions. *)

LEMMA StoreKeeps ==
  ASSUME IInv, NEW i \in Roots, NEW v \in Held, Store(i, v)
  PROVE  IInv'
  <1>1. v \in Value /\ (CELL_P(v) => v \in InUse)
    BY HeldInUse
  <1>2. /\ root' = [root EXCEPT ![i] = v]
        /\ ref_cnt' = Counted(v) /\ release' = Decrements(root[i])
        /\ UNCHANGED <<heap, chunks, freelist, drift, pc>>
        /\ pc = "run" /\ release = <<>>
    BY DEF Store, Assign, Quiet
  <1>3. root \in [Roots -> Value] /\ root[i] \in Value
    BY DEF IInv, StateType
  <1>4. /\ Counted(v) \in [DOMAIN heap -> Int]
        /\ \A x \in DOMAIN heap : Counted(v)[x] = ref_cnt[x] + Is(v, x)
        /\ \A x \in DOMAIN heap : Counted(v)[x] = -1 <=> ref_cnt[x] = -1
    BY <1>1, CountedFacts
  <1>5. Released' = Released /\ InUse' = InUse
    BY <1>2, <1>4 DEF Released, InUse
  <1>6. /\ Decrements(root[i]) \in Seq(Tasks)
        /\ \A a \in Nat : /\ Refs(Decrements(root[i]), Decrement(a)) = Is(root[i], a)
                          /\ Refs(Decrements(root[i]), PutChunkOf(a)) = 0
    BY <1>3, DecrementsFacts
  <1>7. HeapOK(heap, chunks, freelist)'
    BY <1>2 DEF IInv
  <1>8. StateType'
    BY <1>1, <1>2, <1>3, <1>4, <1>6 DEF IInv, StateType
  <1>9. RefsInUse'
    <2>1. \A j \in Roots : CELL_P(root'[j]) => root'[j] \in InUse
      BY <1>1, <1>2, <1>3 DEF IInv, RefsInUse
    <2>2. \A n \in 1 .. Len(release') : release'[n].op = "decrement" => release'[n].cell \in InUse
      BY <1>2, <1>3 DEF IInv, RefsInUse, Decrements, Decrement
    <2>3. \A b \in InUse : \A w \in Fields(heap'[b]) : CELL_P(w) => w \in InUse
      BY <1>2 DEF IInv, RefsInUse
    <2> QED
      BY <1>5, <2>1, <2>2, <2>3 DEF RefsInUse
  <1>10. Exact'
    <2> SUFFICES ASSUME NEW a \in InUse
                 PROVE  Balanced(ref_cnt'[a], NamesIn(root', heap, InUse, release', a), drift[a])
      BY <1>2, <1>5 DEF Exact, Names
    <2>1. Changes(root', root, i) /\ root'[i] = v
      BY <1>2, <1>3 DEF Changes
    <2>2. Refs(root', a) = Refs(root, a) - Is(root[i], a) + Is(v, a)
      BY <2>1, RefsUpdate, Basics
    <2>3. Refs(release, Decrement(a)) = 0
      BY <1>2, NoTasks
    <2>4. Balanced(ref_cnt[a], Names(a), drift[a])
      BY DEF IInv, Exact
    <2>5. Refs(release', Decrement(a)) = Is(root[i], a) /\ ref_cnt'[a] = ref_cnt[a] + Is(v, a)
      BY <1>2, <1>4, <1>6, Basics
    <2>6. /\ Refs(root, a) \in Nat /\ Refs(Cars(heap, InUse), a) \in Nat
          /\ Refs(Cdrs(heap, InUse), a) \in Nat
          /\ Is(root[i], a) \in Nat /\ Is(v, a) \in Nat
      BY Basics DEF Is
    <2>7. NamesIn(root', heap, InUse, release', a) = Names(a) + Is(v, a)
      BY <2>2, <2>3, <2>5, <2>6 DEF NamesIn, Names
    <2> QED
      BY <2>4, <2>5, <2>6, <2>7, StillBalanced, Basics
  <1>11. PutOnce' /\ NoDrift'
    BY <1>2, <1>5, <1>6, NoTasks DEF IInv, PutOnce, NoDrift
  <1> QED
    BY <1>7, <1>8, <1>9, <1>10, <1>11 DEF IInv

\* Nothing refers to what is not in use.
LEMMA Unreferenced ==
  ASSUME IInv, NEW c \in Nat, c \notin InUse
  PROVE  /\ Refs(root, c) = 0 /\ Refs(Cars(heap, InUse), c) = 0
         /\ Refs(Cdrs(heap, InUse), c) = 0
  <1>1. CELL_P(c)
    BY ImmAssumption DEF CELL_P
  <1>2. \A i \in Roots : root[i] # c
    BY <1>1 DEF IInv, RefsInUse
  <1>3. \A b \in InUse : heap[b].car # c /\ heap[b].cdr # c
    BY <1>1 DEF IInv, RefsInUse, Fields
  <1>4. \A b \in InUse : Cars(heap, InUse)[b] # c /\ Cdrs(heap, InUse)[b] # c
    BY <1>3 DEF Cars, Cdrs
  <1> QED
    BY <1>2, <1>4, Basics, RefsType

\* The references of a new cell.
LEMMA NewCell ==
  ASSUME IInv, NEW c, c \notin DOMAIN heap, NEW h, Gains(h, heap, c), NEW a
  PROVE  /\ Refs(Cars(h, InUse \cup {c}), a) = Refs(Cars(heap, InUse), a) + Is(h[c].car, a)
         /\ Refs(Cdrs(h, InUse \cup {c}), a) = Refs(Cdrs(heap, InUse), a) + Is(h[c].cdr, a)
  <1> DEFINE u == Cars(heap, InUse)
             w == Cars(h, InUse \cup {c})
             y == Cdrs(heap, InUse)
             z == Cdrs(h, InUse \cup {c})
  <1>1. c \notin InUse /\ InUse \subseteq DOMAIN heap
    BY DEF InUse
  <1>2. Gains(w, u, c) /\ w[c] = h[c].car
    BY <1>1 DEF Gains, Cars
  <1>3. Gains(z, y, c) /\ z[c] = h[c].cdr
    BY <1>1 DEF Gains, Cdrs
  <1>4. IsFiniteSet(DOMAIN u) /\ IsFiniteSet(DOMAIN y)
    BY Basics
  <1> HIDE DEF u, w, y, z
  <1>5. Refs(w, a) = Refs(u, a) + Is(w[c], a) /\ Refs(z, a) = Refs(y, a) + Is(z[c], a)
    BY <1>2, <1>3, <1>4, RefsAdd
  <1> QED
    BY <1>2, <1>3, <1>5 DEF u, w, y, z

\* The counts after a cell is allocated and two references are stored.
CountsBoth(cnt, c, n, u, v) ==
  /\ cnt \in [DOMAIN heap \cup {c} -> Int]
  /\ \A x \in DOMAIN heap : cnt[x] = ref_cnt[x] + Is(u, x) + Is(v, x)
  /\ cnt[c] = n
  /\ \A x \in DOMAIN heap : cnt[x] = -1 <=> ref_cnt[x] = -1

LEMMA NewCounts ==
  ASSUME IInv, NEW c \in Nat, c \notin DOMAIN heap, NEW n \in Nat,
         NEW u \in Value, Within(u, InUse), NEW v \in Value, Within(v, InUse)
  PROVE  CountsBoth(Incremented(Incremented(WithCell(ref_cnt, c, n), u), v), c, n, u, v)
  <1> DEFINE D == DOMAIN heap \cup {c}
             new == WithCell(ref_cnt, c, n)
             one == Incremented(new, u)
             cnt == Incremented(one, v)
  <1>1. DOMAIN heap \subseteq Nat /\ ref_cnt \in [DOMAIN heap -> Int] /\ D \subseteq Nat
    BY DEF IInv, HeapOK, StateType
  <1>2. /\ new \in [D -> Int] /\ new[c] = n
        /\ \A x \in DOMAIN heap : new[x] = ref_cnt[x]
    BY <1>1 DEF WithCell
  <1>3. InUse \subseteq DOMAIN heap
    BY DEF InUse
  <1>4. Within(u, D) /\ Within(v, D)
    BY <1>3 DEF Within
  <1> HIDE DEF D, new
  <1>5. one \in [D -> Int] /\ \A x \in D : one[x] = new[x] + Is(u, x)
    BY <1>1, <1>2, <1>4, IncrementedFacts
  <1> HIDE DEF one
  <1>6. cnt \in [D -> Int] /\ \A x \in D : cnt[x] = one[x] + Is(v, x)
    BY <1>1, <1>4, <1>5, IncrementedFacts
  <1> HIDE DEF cnt
  <1>7. Is(u, c) = 0 /\ Is(v, c) = 0
    BY <1>3, ImmAssumption DEF Is, CELL_P, Within
  <1>8. \A x \in D : Is(u, x) \in Nat /\ Is(v, x) \in Nat /\ new[x] \in Int
    BY <1>2 DEF Is
  <1>9. \A x \in D : cnt[x] = new[x] + Is(u, x) + Is(v, x)
    BY <1>5, <1>6
  <1>10. ASSUME NEW x \in DOMAIN heap
         PROVE  /\ cnt[x] = ref_cnt[x] + Is(u, x) + Is(v, x)
                /\ cnt[x] = -1 <=> ref_cnt[x] = -1
    <2>1. cnt[x] = ref_cnt[x] + Is(u, x) + Is(v, x)
      BY <1>2, <1>9 DEF D
    <2>2. ref_cnt[x] \in Int /\ Is(u, x) \in Nat /\ Is(v, x) \in Nat
      BY <1>1, <1>8 DEF D
    <2>3. CASE x \in InUse
      <3>1. ref_cnt[x] \in Nat
        BY <2>3, Basics
      <3> QED
        BY <2>1, <2>2, <3>1
    <2>4. CASE x \notin InUse
      <3>1. Is(u, x) = 0 /\ Is(v, x) = 0
        BY <1>1, <2>4, ImmAssumption DEF Is, CELL_P, Within
      <3> QED
        BY <2>1, <2>2, <3>1
    <2> QED
      BY <2>3, <2>4
  <1>11. cnt[c] = n
    <2>1. c \in D
      BY DEF D
    <2> QED
      BY <1>2, <1>7, <1>9, <2>1
  <1>12. CountsBoth(cnt, c, n, u, v)
    BY <1>6, <1>10, <1>11 DEF D, CountsBoth
  <1> QED
    BY <1>12 DEF cnt, one, new

\* What gc_malloc does to the heap and the counts.
NewChunk(size) == Fitting(size).chunk
NewCellOf(r)   == NewObject(r, Fitting(r.size).size)

LEMMA MallocFacts ==
  ASSUME IInv, NEW r \in Requests, Malloc(r)
  PROVE  LET c == NewChunk(r.size)
             o == NewCellOf(r)
         IN  /\ c \in Nat /\ c \notin DOMAIN heap
             /\ o.car \in Value /\ Within(o.car, InUse)
             /\ o.cdr \in Value /\ Within(o.cdr, InUse)
             /\ Gains(heap', heap, c) /\ heap'[c] = o
             /\ HeapOK(heap', chunks', freelist')
             /\ CountsBoth(ref_cnt', c, 1, o.cdr, o.car)
  <1> DEFINE got == Fitting(r.size)
             c   == NewChunk(r.size)
             new == WithCell(ref_cnt, c, 1)
             o   == NewCellOf(r)
  <1>1. /\ c # NULL
        /\ heap' = Overwrite(heap, c, o)
        /\ ref_cnt' = WithFields(new, r)
        /\ chunks' = got.sizes /\ freelist' = got.list
    BY DEF Malloc, SizeTaken, NewChunk, NewCellOf
  <1>2. /\ r.size \in Nat /\ r.dst \in Roots /\ r.a \in Roots /\ r.d \in Roots
        /\ r.type \in {"leaf", "pair"}
    BY RequestFacts
  <1>3. /\ root \in [Roots -> Value] /\ HeapOK(heap, chunks, freelist)
        /\ \A i \in Roots : root[i] \in Value /\ (CELL_P(root[i]) => root[i] \in InUse)
    BY DEF IInv, StateType, RefsInUse
  <1>0. c = got.chunk
    BY DEF NewChunk
  <1> HIDE DEF got, c
  <1>4. c \in Nat /\ c \notin DOMAIN heap /\ got.size \in Nat
    BY <1>0, <1>1, <1>2, <1>3, TakenFacts DEF got
  <1>5. /\ o \in Object /\ o.size = got.size
        /\ o.car \in Value /\ Within(o.car, InUse)
        /\ o.cdr \in Value /\ Within(o.cdr, InUse)
    BY <1>2, <1>3, <1>4 DEF NewCellOf, got, NewObject, Object, Value, CELL_P, Within
  <1>6. ref_cnt' = Incremented(Incremented(new, o.cdr), o.car)
    <2> HIDE DEF new
    <2>1. CASE r.type = "pair"
      BY <1>1, <2>1 DEF WithFields, NewCellOf, NewObject
    <2>2. CASE r.type = "leaf"
      BY <1>1, <2>2 DEF WithFields, NewCellOf, NewObject, Incremented, CELL_P
    <2> QED
      BY <1>2, <2>1, <2>2
  <1> HIDE DEF o
  <1>7. Gains(heap', heap, c) /\ heap'[c] = o /\ HeapOK(heap', chunks', freelist')
    BY <1>0, <1>1, <1>2, <1>3, <1>5, AllocatedHeap DEF got
  <1>8. CountsBoth(ref_cnt', c, 1, o.cdr, o.car)
    <2>1. 1 \in Nat
      OBVIOUS
    <2>2. ref_cnt' = Incremented(Incremented(WithCell(ref_cnt, c, 1), o.cdr), o.car)
      BY <1>6
    <2> HIDE DEF new
    <2> QED
      BY <1>4, <1>5, <2>1, <2>2, NewCounts
  <1> QED
    BY <1>4, <1>5, <1>7, <1>8 DEF c, o

LEMMA MallocKeeps ==
  ASSUME IInv, NEW r \in Requests, Malloc(r)
  PROVE  IInv'
  <1> DEFINE c == NewChunk(r.size)
             o == NewCellOf(r)
  <1>1. /\ root' = [root EXCEPT ![r.dst] = c]
        /\ release' = Decrements(root[r.dst])
        /\ drift' = WithCell(drift, c, 0)
        /\ pc' = pc /\ pc = "run" /\ release = <<>>
    BY DEF Malloc, Quiet, NewChunk
  <1>2. /\ r.size \in Nat /\ r.dst \in Roots /\ r.a \in Roots /\ r.d \in Roots
    BY RequestFacts
  <1>3. /\ root \in [Roots -> Value]
        /\ \A i \in Roots : root[i] \in Value /\ (CELL_P(root[i]) => root[i] \in InUse)
    BY DEF IInv, StateType, RefsInUse
  <1>4. c \in Nat /\ c \notin DOMAIN heap
    BY MallocFacts
  <1>5. /\ o.car \in Value /\ Within(o.car, InUse)
        /\ o.cdr \in Value /\ Within(o.cdr, InUse)
    BY MallocFacts
  <1>6. CountsBoth(ref_cnt', c, 1, o.cdr, o.car)
    BY MallocFacts
  <1>7. Gains(heap', heap, c) /\ heap'[c] = o /\ HeapOK(heap', chunks', freelist')
    BY MallocFacts
  <1> HIDE DEF c, o
  <1>8. /\ ref_cnt' \in [DOMAIN heap \cup {c} -> Int]
        /\ \A x \in DOMAIN heap : ref_cnt'[x] = ref_cnt[x] + Is(o.cdr, x) + Is(o.car, x)
        /\ ref_cnt'[c] = 1
        /\ \A x \in DOMAIN heap : ref_cnt'[x] = -1 <=> ref_cnt[x] = -1
    BY <1>6 DEF CountsBoth
  <1>9. Released' = Released /\ InUse' = InUse \cup {c}
    BY <1>4, <1>7, <1>8 DEF Released, InUse, Gains
  <1>10. /\ Decrements(root[r.dst]) \in Seq(Tasks)
         /\ \A a \in Nat : /\ Refs(Decrements(root[r.dst]), Decrement(a)) = Is(root[r.dst], a)
                           /\ Refs(Decrements(root[r.dst]), PutChunkOf(a)) = 0
    BY <1>2, <1>3, DecrementsFacts
  <1>15. /\ drift' \in [DOMAIN heap \cup {c} -> Int] /\ drift'[c] = 0
         /\ \A x \in DOMAIN heap : drift'[x] = drift[x]
    BY <1>1, <1>4 DEF WithCell, IInv, StateType
  <1>11. StateType'
    <2>1. root' \in [Roots -> Value]
      BY <1>1, <1>2, <1>3, <1>4 DEF Value
    <2>2. ref_cnt' \in [DOMAIN heap' -> Int]
      BY <1>7, <1>8 DEF Gains
    <2>3. drift' \in [DOMAIN heap' -> Int]
      BY <1>7, <1>15 DEF Gains
    <2> QED
      BY <1>1, <1>10, <2>1, <2>2, <2>3 DEF StateType
  <1>12. RefsInUse'
    <2>1. \A i \in Roots : CELL_P(root'[i]) => root'[i] \in InUse \cup {c}
      BY <1>1, <1>2, <1>3
    <2>2. \A b \in InUse \cup {c} : \A w \in Fields(heap'[b]) :
            CELL_P(w) => w \in InUse \cup {c}
      <3>1. \A b \in InUse : heap'[b] = heap[b]
        BY <1>7 DEF Gains, InUse
      <3> QED
        BY <1>5, <1>7, <3>1 DEF IInv, RefsInUse, Fields, Within
    <2>3. \A n \in 1 .. Len(release') :
            release'[n].op = "decrement" => release'[n].cell \in InUse
      BY <1>1, <1>2, <1>3 DEF Decrements, Decrement
    <2> QED
      BY <1>9, <2>1, <2>2, <2>3 DEF RefsInUse
  <1>13. Exact'
    <2> SUFFICES ASSUME NEW a \in InUse \cup {c}
                 PROVE  Balanced(ref_cnt'[a], NamesIn(root', heap', InUse \cup {c}, release', a),
                                 drift'[a])
      BY <1>9 DEF Exact, Names
    <2>1. Changes(root', root, r.dst) /\ root'[r.dst] = c
      BY <1>1, <1>2, <1>3 DEF Changes
    <2>2. Refs(root', a) = Refs(root, a) - Is(root[r.dst], a) + Is(c, a)
      BY <2>1, RefsUpdate, Basics
    <2>3. /\ Refs(Cars(heap', InUse \cup {c}), a) = Refs(Cars(heap, InUse), a) + Is(o.car, a)
          /\ Refs(Cdrs(heap', InUse \cup {c}), a) = Refs(Cdrs(heap, InUse), a) + Is(o.cdr, a)
      BY <1>4, <1>7, NewCell
    <2>4. a \in Nat
      BY <1>4, Basics
    <2>5. Refs(release', Decrement(a)) = Is(root[r.dst], a)
      BY <1>1, <1>10, <2>4
    <2>8. /\ Refs(root, a) \in Nat /\ Refs(Cars(heap, InUse), a) \in Nat
          /\ Refs(Cdrs(heap, InUse), a) \in Nat
          /\ Is(root[r.dst], a) \in Nat /\ Is(o.car, a) \in Nat /\ Is(o.cdr, a) \in Nat
          /\ Is(c, a) \in Nat
      BY Basics DEF Is
    <2>6. NamesIn(root', heap', InUse \cup {c}, release', a)
            = Refs(root, a) + Refs(Cars(heap, InUse), a) + Refs(Cdrs(heap, InUse), a)
                          + Is(o.car, a) + Is(o.cdr, a) + Is(c, a)
      BY <2>2, <2>3, <2>5, <2>8 DEF NamesIn
    <2>7. QED
      <3>1. CASE a = c
        <4>1. Refs(root, c) = 0 /\ Refs(Cars(heap, InUse), c) = 0 /\ Refs(Cdrs(heap, InUse), c) = 0
          BY <1>4, Unreferenced DEF InUse
        <4>2. Is(o.car, c) = 0 /\ Is(o.cdr, c) = 0 /\ Is(c, c) = 1
          BY <1>4, <1>5, ImmAssumption DEF Is, InUse, CELL_P, Within
        <4>3. ref_cnt'[c] = 1 /\ drift'[c] = 0
          BY <1>8, <1>15
        <4> QED
          BY <2>6, <3>1, <4>1, <4>2, <4>3 DEF Balanced
      <3>2. CASE a # c
        <4>1. a \in InUse /\ a \in DOMAIN heap /\ Is(c, a) = 0
          BY <3>2 DEF InUse, Is
        <4>2. Balanced(ref_cnt[a], Names(a), drift[a])
          BY <4>1 DEF IInv, Exact
        <4>3. Refs(release, Decrement(a)) = 0
          BY <1>1, NoTasks
        <4>4. Is(o.cdr, a) + Is(o.car, a) \in Nat
          BY <2>8
        <4>5. ref_cnt'[a] = ref_cnt[a] + (Is(o.cdr, a) + Is(o.car, a)) /\ drift'[a] = drift[a]
          BY <1>8, <1>15, <2>8, <4>1, Basics
        <4>6. NamesIn(root', heap', InUse \cup {c}, release', a)
                = Names(a) + (Is(o.cdr, a) + Is(o.car, a))
          BY <2>6, <2>8, <4>1, <4>3 DEF Names, NamesIn
        <4>7. ref_cnt[a] \in Int /\ Names(a) \in Nat /\ drift[a] \in Int
          BY <4>1, Basics
        <4> QED
          BY <4>2, <4>4, <4>5, <4>6, <4>7, StillBalanced
      <3> QED
        BY <3>1, <3>2
  <1>14. PutOnce' /\ NoDrift'
    BY <1>1, <1>9, <1>10, <1>15, NoTasks DEF IInv, PutOnce, NoDrift, Released
  <1> QED
    BY <1>7, <1>11, <1>12, <1>13, <1>14 DEF IInv

\* A field of a pair may be overwritten.
LEMMA RewrittenHeap ==
  ASSUME NEW h, NEW ch, NEW fl, HeapOK(h, ch, fl),
         NEW e \in DOMAIN h, h[e].type = "pair", NEW v \in Value
  PROVE  HeapOK([h EXCEPT ![e] = NewBinding(@, v)], ch, fl)
  <1> DEFINE g == [h EXCEPT ![e] = NewBinding(@, v)]
  <1>1. h[e] \in Object
    BY DEF HeapOK
  <1>2. NewBinding(h[e], v) \in Object /\ NewBinding(h[e], v).size = h[e].size
    BY <1>1 DEF NewBinding, Object
  <1>3. DOMAIN g = DOMAIN h /\ g \in [DOMAIN h -> Object]
    BY <1>2 DEF HeapOK
  <1>4. \A a \in DOMAIN h : g[a].size = h[a].size
    BY <1>2
  <1>5. SizesOf(g) = SizesOf(h)
    BY <1>3, <1>4 DEF SizesOf
  <1> QED
    BY <1>3, <1>4, <1>5 DEF HeapOK

LEMMA ExhaustedKeeps ==
  ASSUME IInv, NEW r \in Requests, Exhausted(r)
  PROVE  IInv'
  <1>1. UNCHANGED <<root, heap, ref_cnt, chunks, freelist, drift, release>> /\ pc' = "exited"
    BY DEF Exhausted, countVars, Quiet
  <1>2. Released' = Released /\ InUse' = InUse
    BY <1>1 DEF Released, InUse
  <1> QED
    BY <1>1, <1>2 DEF IInv, StateType, RefsInUse, Exact, Names, NamesIn, NoDrift, PutOnce

\* What set_var does to the heap and the counts: c is the string it makes, e
\* the binding and v its new value.
KnownSet(c, e, v) ==
  /\ c \in Nat /\ c \notin DOMAIN heap
  /\ v \in Value /\ Within(v, InUse)
  /\ e \in InUse /\ heap[e] \in Object /\ heap[e].cdr \in Value /\ Within(heap[e].cdr, InUse)
  /\ HeapOK(heap', chunks', freelist')
  /\ DOMAIN heap' = DOMAIN heap \cup {c}
  /\ heap'[c].type = "leaf" /\ heap'[c].car = IMM /\ heap'[c].cdr = IMM
  /\ heap'[e] = [heap[e] EXCEPT !.cdr = v]
  /\ \A b \in DOMAIN heap : b # e => heap'[b] = heap[b]
  /\ CountsBoth(ref_cnt', c, 0, IMM, v)

LEMMA SetKnownFacts ==
  ASSUME IInv, NEW i \in Roots, NEW j \in Roots, NEW size \in LeafSizes, SetKnown(i, j, size)
  PROVE  /\ root[i] \in InUse
         /\ KnownSet(NewChunk(size), heap[root[i]].car, root[j])
  <1> DEFINE got == Fitting(size)
             c   == NewChunk(size)
             e   == heap[root[i]].car
             v   == root[j]
             o   == [type |-> "leaf", size |-> got.size, car |-> IMM, cdr |-> IMM]
             h   == Overwrite(heap, c, o)
  <1>1. /\ CELL_P(root[i]) /\ CELL_P(e) /\ heap[e].type = "pair"
        /\ c # NULL
        /\ heap' = [h EXCEPT ![e] = NewBinding(@, v)]
        /\ ref_cnt' = Incremented(WithCell(ref_cnt, c, 0), v)
        /\ chunks' = got.sizes /\ freelist' = got.list
    BY DEF SetKnown, SizeTaken, NewChunk
  <1>0. c = got.chunk
    BY DEF NewChunk
  <1>2. size \in Nat
    BY SizesAssumption
  <1>3. /\ root \in [Roots -> Value] /\ HeapOK(heap, chunks, freelist)
        /\ v \in Value /\ Within(v, InUse)
    BY DEF IInv, StateType, RefsInUse, Within
  <1>4. c \in Nat /\ c \notin DOMAIN heap /\ got.size \in Nat
    BY <1>0, <1>1, <1>2, <1>3, TakenFacts
  <1> HIDE DEF got, c
  <1>5. o \in Object /\ o.size = got.size /\ o.type = "leaf" /\ o.car = IMM /\ o.cdr = IMM
    BY <1>4 DEF Object
  <1> HIDE DEF o
  <1>6. Gains(h, heap, c) /\ h[c] = o /\ HeapOK(h, got.sizes, got.list)
    BY <1>0, <1>1, <1>2, <1>3, <1>5, AllocatedHeap DEF got
  <1> HIDE DEF h
  <1>7. root[i] \in InUse /\ e \in InUse /\ e \in DOMAIN heap /\ e # c
    <2>1. root[i] \in InUse
      BY <1>1 DEF IInv, RefsInUse
    <2>2. e \in InUse
      BY <1>1, <2>1 DEF IInv, RefsInUse, Fields
    <2> QED
      BY <1>4, <2>1, <2>2 DEF InUse
  <1>8. h[e] = heap[e] /\ e \in DOMAIN h
    BY <1>6, <1>7 DEF Gains
  <1>9. HeapOK(heap', chunks', freelist')
    BY <1>1, <1>3, <1>6, <1>8, RewrittenHeap
  <1>10. /\ DOMAIN heap' = DOMAIN heap \cup {c}
         /\ heap'[e] = [heap[e] EXCEPT !.cdr = v]
         /\ \A b \in DOMAIN heap' : b # e => heap'[b] = h[b]
    BY <1>1, <1>6, <1>8 DEF Gains, NewBinding
  <1>11. heap[e] \in Object /\ heap[e].cdr \in Value /\ Within(heap[e].cdr, InUse)
    <2>1. heap[e] \in Object
      BY <1>3, <1>7 DEF HeapOK
    <2>2. heap[e].cdr \in Value
      BY <2>1 DEF Object, Value
    <2>3. Within(heap[e].cdr, InUse)
      BY <1>7 DEF IInv, RefsInUse, Fields, Within
    <2> QED
      BY <2>1, <2>2, <2>3
  <1>12. /\ heap'[c].type = "leaf" /\ heap'[c].car = IMM /\ heap'[c].cdr = IMM
         /\ \A b \in DOMAIN heap : b # e => heap'[b] = heap[b]
    BY <1>5, <1>6, <1>7, <1>10 DEF Gains
  <1> HIDE DEF e, v
  <1>13. CountsBoth(ref_cnt', c, 0, IMM, v)
    <2>1. 0 \in Nat /\ IMM \in Value /\ Within(IMM, InUse)
      BY DEF Value, Within, CELL_P
    <2>2. ref_cnt' = Incremented(Incremented(WithCell(ref_cnt, c, 0), IMM), v)
      BY <1>1 DEF Incremented, CELL_P
    <2> QED
      BY <1>3, <1>4, <2>1, <2>2, NewCounts
  <1> QED
    <2>1. KnownSet(c, e, v)
      BY <1>3, <1>4, <1>7, <1>9, <1>10, <1>11, <1>12, <1>13 DEF KnownSet
    <2> QED
      BY <1>7, <2>1 DEF c, e, v

LEMMA SetKnownKeeps ==
  ASSUME IInv, NEW i \in Roots, NEW j \in Roots, NEW size \in LeafSizes, SetKnown(i, j, size)
  PROVE  IInv'
  <1> DEFINE c == NewChunk(size)
             e == heap[root[i]].car
             v == root[j]
             h == [b \in DOMAIN heap \cup {c} |-> IF b = c THEN heap'[c] ELSE heap[b]]
  <1>0. root[i] \in InUse /\ KnownSet(c, e, v)
    BY SetKnownFacts
  <1>1. /\ release' = Decrements(heap[e].cdr)
        /\ drift' = WithCell(drift, c, 0)
        /\ root' = root /\ pc' = pc /\ pc = "run" /\ release = <<>>
    BY DEF SetKnown, Quiet, NewChunk
  <1>2. root \in [Roots -> Value]
    BY DEF IInv, StateType
  <1>3. v \in Value /\ Within(v, InUse)
    BY <1>0 DEF KnownSet
  <1>4. c \in Nat /\ c \notin DOMAIN heap
    BY <1>0 DEF KnownSet
  <1>5. e \in InUse
    BY <1>0 DEF KnownSet
  <1>6. heap[e] \in Object /\ heap[e].cdr \in Value /\ Within(heap[e].cdr, InUse)
    BY <1>0 DEF KnownSet
  <1>7. e \in DOMAIN heap /\ e # c
    BY <1>4, <1>5 DEF InUse
  <1>8. HeapOK(heap', chunks', freelist')
    BY <1>0 DEF KnownSet
  <1>9. /\ DOMAIN heap' = DOMAIN heap \cup {c}
        /\ heap'[e] = [heap[e] EXCEPT !.cdr = v]
        /\ \A b \in DOMAIN heap : b # e => heap'[b] = heap[b]
    BY <1>0 DEF KnownSet
  <1>10. heap'[c].car = IMM /\ heap'[c].cdr = IMM
    BY <1>0 DEF KnownSet
  <1>11. CountsBoth(ref_cnt', c, 0, IMM, v)
    BY <1>0 DEF KnownSet
  <1> HIDE DEF c
  <1>12. heap'[e].car = heap[e].car /\ heap'[e].cdr = v
    BY <1>6, <1>9 DEF Object
  <1>13. /\ Gains(h, heap, c) /\ h[c].car = IMM /\ h[c].cdr = IMM
         /\ h[e] = heap[e] /\ \A b \in DOMAIN heap' : b # e => heap'[b] = h[b]
    BY <1>4, <1>7, <1>9, <1>10 DEF Gains
  <1> HIDE DEF e, v, h
  <1>14. Released' = Released /\ InUse' = InUse \cup {c}
    BY <1>4, <1>9, <1>11 DEF Released, InUse, CountsBoth
  <1>15. /\ Decrements(heap[e].cdr) \in Seq(Tasks)
         /\ \A a \in Nat : /\ Refs(Decrements(heap[e].cdr), Decrement(a)) = Is(heap[e].cdr, a)
                           /\ Refs(Decrements(heap[e].cdr), PutChunkOf(a)) = 0
    BY <1>6, DecrementsFacts
  <1>20. /\ drift' \in [DOMAIN heap \cup {c} -> Int] /\ drift'[c] = 0
         /\ \A x \in DOMAIN heap : drift'[x] = drift[x]
    BY <1>1, <1>4 DEF WithCell, IInv, StateType
  <1>16. StateType'
    <2>1. ref_cnt' \in [DOMAIN heap' -> Int] /\ drift' \in [DOMAIN heap' -> Int]
      BY <1>9, <1>11, <1>20 DEF CountsBoth
    <2> QED
      BY <1>1, <1>2, <1>15, <2>1 DEF StateType
  <1>17. RefsInUse'
    <2>1. \A m \in Roots : CELL_P(root'[m]) => root'[m] \in InUse \cup {c}
      BY <1>1 DEF IInv, RefsInUse
    <2>2. ASSUME NEW b \in InUse \cup {c}, NEW w \in Fields(heap'[b])
          PROVE  CELL_P(w) => w \in InUse \cup {c}
      <3>1. CASE b = e
        BY <1>3, <1>5, <1>12, <3>1 DEF IInv, RefsInUse, Fields, Within
      <3>2. CASE b = c
        BY <1>10, <3>2 DEF Fields, CELL_P
      <3>3. CASE b # e /\ b # c
        <4>1. b \in InUse /\ heap'[b] = heap[b]
          BY <1>9, <3>3 DEF InUse
        <4> QED
          BY <4>1 DEF IInv, RefsInUse
      <3> QED
        BY <3>1, <3>2, <3>3
    <2>3. \A n \in 1 .. Len(release') :
            release'[n].op = "decrement" => release'[n].cell \in InUse
      BY <1>1, <1>6 DEF Decrements, Decrement, Within
    <2> QED
      BY <1>14, <2>1, <2>2, <2>3 DEF RefsInUse
  <1>18. Exact'
    <2> DEFINE S == InUse \cup {c}
    <2> SUFFICES ASSUME NEW a \in S
                 PROVE  Balanced(ref_cnt'[a], NamesIn(root', heap', S, release', a), drift'[a])
      BY <1>14 DEF Exact, Names
    <2>1. a \in Nat /\ Is(IMM, a) = 0
      BY <1>4, Basics DEF Is
    <2>2. /\ Refs(Cars(h, S), a) = Refs(Cars(heap, InUse), a)
          /\ Refs(Cdrs(h, S), a) = Refs(Cdrs(heap, InUse), a)
      <3>1. /\ Refs(Cars(h, S), a) = Refs(Cars(heap, InUse), a) + Is(h[c].car, a)
            /\ Refs(Cdrs(h, S), a) = Refs(Cdrs(heap, InUse), a) + Is(h[c].cdr, a)
        <4>1. IInv /\ c \notin DOMAIN heap /\ Gains(h, heap, c)
          BY <1>4, <1>13
        <4> QED
          BY ONLY <4>1, NewCell
      <3>2. Is(h[c].car, a) = 0 /\ Is(h[c].cdr, a) = 0
        BY <1>13, <2>1
      <3> QED
        BY <3>1, <3>2, Basics
    <2>3. Cars(heap', S) = Cars(h, S)
      <3>1. \A b \in S : heap'[b].car = h[b].car
        BY <1>9, <1>12, <1>13 DEF InUse
      <3> QED
        BY <3>1 DEF Cars
    <2>4. Refs(Cdrs(heap', S), a) = Refs(Cdrs(h, S), a) - Is(heap[e].cdr, a) + Is(v, a)
      <3> DEFINE y == Cdrs(h, S)
                 z == Cdrs(heap', S)
      <3>1. Changes(z, y, e) /\ y[e] = heap[e].cdr /\ z[e] = v
        BY <1>5, <1>9, <1>12, <1>13 DEF Cdrs, Changes, InUse
      <3>2. IsFiniteSet(DOMAIN y)
        <4>1. DOMAIN y = InUse \cup {c}
          BY DEF Cdrs
        <4> QED
          BY <4>1, Basics, FS_AddElement
      <3> HIDE DEF y, z
      <3>3. Refs(z, a) = Refs(y, a) - Is(y[e], a) + Is(z[e], a)
        BY <3>1, <3>2, RefsUpdate
      <3> QED
        BY <3>1, <3>3 DEF y, z
    <2>5. Refs(release', Decrement(a)) = Is(heap[e].cdr, a)
      BY <1>1, <1>15, <2>1
    <2> HIDE DEF S
    <2>6. /\ Refs(root, a) \in Nat /\ Refs(Cars(heap, InUse), a) \in Nat
          /\ Refs(Cdrs(heap, InUse), a) \in Nat
          /\ Is(heap[e].cdr, a) \in Nat /\ Is(v, a) \in Nat
      BY Basics DEF Is
    <2>7. NamesIn(root', heap', S, release', a)
            = Refs(root, a) + Refs(Cars(heap, InUse), a) + Refs(Cdrs(heap, InUse), a) + Is(v, a)
      BY <1>1, <2>2, <2>3, <2>4, <2>5, <2>6 DEF NamesIn
    <2>8. CASE a = c
      <3>1. Refs(root, c) = 0 /\ Refs(Cars(heap, InUse), c) = 0 /\ Refs(Cdrs(heap, InUse), c) = 0
        BY <1>4, Unreferenced DEF InUse
      <3>2. Is(v, c) = 0
        BY <1>3, <1>4, ImmAssumption DEF Is, InUse, CELL_P, Within
      <3>3. ref_cnt'[c] = 0 /\ drift'[c] = 0
        BY <1>11, <1>20 DEF CountsBoth
      <3> QED
        BY <2>7, <2>8, <3>1, <3>2, <3>3 DEF Balanced
    <2>9. CASE a # c
      <3>1. a \in InUse /\ a \in DOMAIN heap
        BY <2>9 DEF InUse, S
      <3>2. Balanced(ref_cnt[a], Names(a), drift[a])
        BY <3>1 DEF IInv, Exact
      <3>3. Refs(release, Decrement(a)) = 0
        BY <1>1, NoTasks
      <3>4. NamesIn(root', heap', S, release', a) = Names(a) + Is(v, a)
        BY <2>6, <2>7, <3>3 DEF Names, NamesIn
      <3>5. ref_cnt[a] \in Int /\ Names(a) \in Nat /\ drift[a] \in Int
        BY <3>1, Basics
      <3>6. ref_cnt'[a] = ref_cnt[a] + Is(v, a) /\ drift'[a] = drift[a]
        BY <1>11, <1>20, <2>1, <2>6, <3>1, <3>5 DEF CountsBoth
      <3> QED
        BY <2>6, <3>2, <3>4, <3>5, <3>6, StillBalanced
    <2> QED
      BY <2>8, <2>9
  <1>19. PutOnce' /\ NoDrift'
    BY <1>1, <1>14, <1>15, <1>20, NoTasks DEF IInv, PutOnce, NoDrift, Released
  <1> QED
    BY <1>8, <1>16, <1>17, <1>18, <1>19 DEF IInv

\* The task at the top of the stack, and what is below it.
LEMMA TaskFacts ==
  ASSUME IInv, release # <<>>
  PROVE  /\ Task \in Tasks /\ Tail(release) \in Seq(Tasks)
         /\ \A u : /\ Refs(release, u) = Is(Task, u) + Refs(Tail(release), u)
                   /\ Refs(Tail(release), u) \in Nat
         /\ \A n \in 1 .. Len(Tail(release)) : n + 1 \in 1 .. Len(release)
                                                /\ Tail(release)[n] = release[n + 1]
         /\ Task.op = "decrement" => Task = Decrement(Task.cell) /\ Task.cell \in InUse
         /\ Task.op = "put" => Task = PutChunkOf(Task.cell) /\ Task.cell \in Released
  <1>1. release \in Seq(Tasks)
    BY DEF IInv, StateType
  <1>2. /\ Task \in Tasks /\ Tail(release) \in Seq(Tasks)
        /\ Len(release) \in Nat /\ Len(release) >= 1
        /\ Len(Tail(release)) = Len(release) - 1
        /\ \A n \in 1 .. Len(Tail(release)) : Tail(release)[n] = release[n + 1]
    BY <1>1 DEF Task
  <1>3. release = <<Task>> \o Tail(release)
    BY <1>1 DEF Task
  <1>4. ASSUME NEW u
        PROVE  /\ Refs(release, u) = Is(Task, u) + Refs(Tail(release), u)
               /\ Refs(Tail(release), u) \in Nat
    <2> DEFINE s == <<Task>>
               t == Tail(release)
    <2>1. s \in Seq(Tasks) /\ t \in Seq(Tasks) /\ Refs(s, u) = Is(Task, u)
      BY <1>2, OneTask
    <2>2. release = s \o t
      BY <1>3
    <2> HIDE DEF s, t
    <2>3. Refs(s \o t, u) = Refs(s, u) + Refs(t, u) /\ Refs(t, u) \in Nat
      BY <2>1, RefsConcat
    <2> QED
      BY <2>1, <2>2, <2>3 DEF t
  <1>5. Task = [op |-> Task.op, cell |-> Task.cell] /\ Task.cell \in Nat
    BY <1>2 DEF Tasks
  <1>6. ASSUME Task.op = "decrement"
        PROVE  Task = Decrement(Task.cell) /\ Task.cell \in InUse
    <2>1. Task = Decrement(Task.cell)
      BY <1>5, <1>6 DEF Decrement
    <2>2. Task.cell \in InUse
      BY <1>2, <1>6 DEF IInv, RefsInUse, Task
    <2> QED
      BY <2>1, <2>2
  <1>7. ASSUME Task.op = "put"
        PROVE  Task = PutChunkOf(Task.cell) /\ Task.cell \in Released
    <2> DEFINE a == Task.cell
    <2>1. Task = PutChunkOf(a) /\ a \in Nat
      BY <1>5, <1>7 DEF PutChunkOf
    <2>2. Refs(release, PutChunkOf(a)) = Is(Task, PutChunkOf(a)) + Refs(Tail(release), PutChunkOf(a))
          /\ Refs(Tail(release), PutChunkOf(a)) \in Nat
      BY <1>4
    <2>3. Refs(release, PutChunkOf(a)) # 0
      BY <2>1, <2>2 DEF Is
    <2> QED
      BY <2>1, <2>3 DEF IInv, PutOnce
  <1>8. \A n \in 1 .. Len(Tail(release)) : n + 1 \in 1 .. Len(release)
    BY <1>2
  <1> QED
    BY <1>2, <1>4, <1>6, <1>7, <1>8

\* The tasks that are left, when the one at the top is done.
LEMMA TailFacts ==
  ASSUME IInv, release # <<>>
  PROVE  \A n \in 1 .. Len(Tail(release)) :
           Tail(release)[n].op = "decrement" => Tail(release)[n].cell \in InUse
  <1>1. ASSUME NEW n \in 1 .. Len(Tail(release)), Tail(release)[n].op = "decrement"
        PROVE  Tail(release)[n].cell \in InUse
    <2>1. n + 1 \in 1 .. Len(release) /\ Tail(release)[n] = release[n + 1]
      BY TaskFacts
    <2> QED
      BY <1>1, <2>1 DEF IInv, RefsInUse
  <1> QED
    BY <1>1

LEMMA DecrementCountKeeps ==
  ASSUME IInv, DecrementCount
  PROVE  IInv'
  <1> DEFINE x == Task.cell
  <1>1. /\ release # <<>> /\ Task.op = "decrement"
        /\ ~Drops(x)
        /\ ref_cnt' = [ref_cnt EXCEPT ![x] = @ - 1]
        /\ release' = Tail(release)
        /\ pc = "run"
        /\ UNCHANGED <<root, heap, pc, chunks, freelist, drift>>
    BY DEF DecrementCount, Decrementing
  <1>2. Task = Decrement(x) /\ x \in InUse /\ x \in DOMAIN heap /\ x \in Nat
    BY <1>1, TaskFacts, Basics DEF InUse
  <1> HIDE DEF x
  <1>3. ref_cnt \in [DOMAIN heap -> Int] /\ ref_cnt[x] \in Nat /\ ref_cnt[x] - 1 > 0
    BY <1>1, <1>2, Basics DEF IInv, StateType, Drops
  <1>4. /\ ref_cnt' \in [DOMAIN heap -> Int]
        /\ \A a \in DOMAIN heap : ref_cnt'[a] = ref_cnt[a] - Is(x, a)
    BY <1>1, <1>2, <1>3 DEF Is
  <1>5. Released' = Released /\ InUse' = InUse
    <2>1. \A a \in DOMAIN heap : ref_cnt'[a] = -1 <=> ref_cnt[a] = -1
      BY <1>3, <1>4 DEF Is
    <2> QED
      BY <1>1, <2>1 DEF Released, InUse
  <1>6. StateType'
    <2>1. Tail(release) \in Seq(Tasks)
      BY <1>1, TaskFacts
    <2> QED
      BY <1>1, <1>4, <2>1 DEF IInv, StateType
  <1>7. RefsInUse'
    <2>1. \A n \in 1 .. Len(release') :
            release'[n].op = "decrement" => release'[n].cell \in InUse
      BY <1>1, TailFacts
    <2> QED
      BY <1>1, <1>5, <2>1 DEF IInv, RefsInUse
  <1>8. Exact'
    <2> SUFFICES ASSUME NEW a \in InUse
                 PROVE  Balanced(ref_cnt'[a], NamesIn(root, heap, InUse, release', a), drift[a])
      BY <1>1, <1>5 DEF Exact, Names
    <2>1. Balanced(ref_cnt[a], Names(a), drift[a])
      BY DEF IInv, Exact
    <2>2. /\ Refs(release, Decrement(a)) = Is(Task, Decrement(a)) + Refs(release', Decrement(a))
          /\ Refs(release', Decrement(a)) \in Nat
      BY <1>1, TaskFacts
    <2>3. Is(Task, Decrement(a)) = Is(x, a) /\ Is(x, a) \in Nat
      BY <1>2 DEF Is, Decrement
    <2>4. ref_cnt'[a] = ref_cnt[a] - Is(x, a)
      BY <1>4, Basics
    <2>5. /\ Refs(root, a) \in Nat /\ Refs(Cars(heap, InUse), a) \in Nat
          /\ Refs(Cdrs(heap, InUse), a) \in Nat
          /\ Names(a) \in Nat /\ drift[a] \in Int /\ ref_cnt[a] \in Nat
      BY Basics
    <2>6. Names(a) = NamesIn(root, heap, InUse, release', a) + Is(x, a)
          /\ NamesIn(root, heap, InUse, release', a) \in Nat
      BY <2>2, <2>3, <2>5 DEF Names, NamesIn
    <2>7. CASE x = a
      BY <1>3, <2>1, <2>3, <2>4, <2>5, <2>6, <2>7 DEF Balanced, Is
    <2>8. CASE x # a
      BY <2>1, <2>3, <2>4, <2>5, <2>6, <2>8 DEF Balanced, Is
    <2> QED
      BY <2>7, <2>8
  <1>9. PutOnce'
    <2> SUFFICES ASSUME NEW a \in Nat
                 PROVE  Refs(release', PutChunkOf(a)) = IF a \in Released THEN 1 ELSE 0
      BY <1>5 DEF PutOnce
    <2>1. /\ Refs(release, PutChunkOf(a)) = Is(Task, PutChunkOf(a)) + Refs(release', PutChunkOf(a))
          /\ Refs(release', PutChunkOf(a)) \in Nat
      BY <1>1, TaskFacts
    <2>2. Is(Task, PutChunkOf(a)) = 0
      BY <1>2 DEF Is, Decrement, PutChunkOf
    <2> QED
      BY <2>1, <2>2 DEF IInv, PutOnce
  <1>10. NoDrift'
    BY <1>1, <1>5 DEF IInv, NoDrift
  <1> QED
    BY <1>1, <1>6, <1>7, <1>8, <1>9, <1>10 DEF IInv

LEMMA PutBackKeeps ==
  ASSUME IInv, PutBack
  PROVE  IInv'
  <1> DEFINE x   == Task.cell
             put == PutChunk(freelist, chunks, x, heap[x].size)
  <1>1. /\ release # <<>> /\ Task.op = "put"
        /\ heap' = WithoutCell(heap, x) /\ ref_cnt' = WithoutCell(ref_cnt, x)
        /\ chunks' = put.sizes /\ freelist' = put.list
        /\ drift' = WithoutCell(drift, x)
        /\ release' = Tail(release)
        /\ pc = "run"
        /\ UNCHANGED <<root, pc>>
    BY DEF PutBack
  <1>2. Task = PutChunkOf(x) /\ x \in Released /\ x \in DOMAIN heap /\ x \in Nat
    <2>1. Task = PutChunkOf(x) /\ x \in Released
      BY <1>1, TaskFacts
    <2> QED
      BY <2>1 DEF Released, IInv, HeapOK
  <1>3. HeapOK(heap', chunks', freelist')
    BY <1>1, <1>2, FreedHeap DEF IInv
  <1> HIDE DEF x, put
  <1>4. ref_cnt \in [DOMAIN heap -> Int]
    BY DEF IInv, StateType
  <1>5. /\ DOMAIN heap' = DOMAIN heap \ {x} /\ ref_cnt' \in [DOMAIN heap' -> Int]
        /\ \A a \in DOMAIN heap' : /\ heap'[a] = heap[a] /\ ref_cnt'[a] = ref_cnt[a]
                                   /\ drift'[a] = drift[a]
    BY <1>1, <1>4 DEF WithoutCell, IInv, StateType
  <1>6. Released' = Released \ {x} /\ InUse' = InUse
    BY <1>2, <1>5 DEF Released, InUse
  <1>7. \A b \in InUse : heap'[b] = heap[b]
    BY <1>2, <1>5 DEF InUse
  <1>8. StateType'
    <2>1. Tail(release) \in Seq(Tasks)
      BY <1>1, TaskFacts
    <2>2. drift' \in [DOMAIN heap' -> Int]
      BY <1>1, <1>5 DEF IInv, StateType, WithoutCell
    <2> QED
      BY <1>1, <1>5, <2>1, <2>2 DEF IInv, StateType
  <1>9. RefsInUse'
    <2>1. \A n \in 1 .. Len(release') :
            release'[n].op = "decrement" => release'[n].cell \in InUse
      BY <1>1, TailFacts
    <2> QED
      BY <1>1, <1>6, <1>7, <2>1 DEF IInv, RefsInUse
  <1>10. Exact'
    <2> SUFFICES ASSUME NEW a \in InUse
                 PROVE  Balanced(ref_cnt'[a], NamesIn(root', heap', InUse, release', a), drift'[a])
      BY <1>1, <1>6 DEF Exact, Names
    <2>1. Cars(heap', InUse) = Cars(heap, InUse) /\ Cdrs(heap', InUse) = Cdrs(heap, InUse)
      BY <1>7 DEF Cars, Cdrs
    <2>2. ref_cnt'[a] = ref_cnt[a] /\ drift'[a] = drift[a]
      BY <1>2, <1>5 DEF InUse
    <2>3. /\ Refs(release, Decrement(a)) = Is(Task, Decrement(a)) + Refs(release', Decrement(a))
          /\ Refs(release', Decrement(a)) \in Nat
      BY <1>1, TaskFacts
    <2>4. Is(Task, Decrement(a)) = 0
      BY <1>2 DEF Is, Decrement, PutChunkOf
    <2>5. Balanced(ref_cnt[a], Names(a), drift[a])
      BY DEF IInv, Exact
    <2>6. Refs(release', Decrement(a)) = Refs(release, Decrement(a))
      BY <2>3, <2>4
    <2>7. NamesIn(root', heap', InUse, release', a) = Names(a)
      BY <1>1, <2>1, <2>6 DEF Names, NamesIn
    <2> QED
      BY <2>2, <2>5, <2>7
  <1>11. PutOnce'
    <2> SUFFICES ASSUME NEW a \in Nat
                 PROVE  Refs(release', PutChunkOf(a)) = IF a \in Released \ {x} THEN 1 ELSE 0
      BY <1>6 DEF PutOnce
    <2>1. /\ Refs(release, PutChunkOf(a)) = Is(Task, PutChunkOf(a)) + Refs(release', PutChunkOf(a))
          /\ Refs(release', PutChunkOf(a)) \in Nat
      BY <1>1, TaskFacts
    <2>2. Is(Task, PutChunkOf(a)) = IF a = x THEN 1 ELSE 0
      BY <1>2 DEF Is, PutChunkOf
    <2>3. Refs(release, PutChunkOf(a)) = IF a \in Released THEN 1 ELSE 0
      BY DEF IInv, PutOnce
    <2> QED
      BY <1>2, <2>1, <2>2, <2>3
  <1>12. NoDrift'
    BY <1>2, <1>5, <1>6 DEF IInv, NoDrift, Released
  <1> QED
    BY <1>3, <1>8, <1>9, <1>10, <1>11, <1>12 DEF IInv

\* No other reference leads to a cell that is released, and its count was right.
LEMMA LastReference ==
  ASSUME IInv, release # <<>>, Task.op = "decrement", Drops(Task.cell), ~Named(Task.cell)
  PROVE  /\ Refs(root, Task.cell) = 0
         /\ Refs(Cars(heap, InUse), Task.cell) = 0
         /\ Refs(Cdrs(heap, InUse), Task.cell) = 0
         /\ Refs(Tail(release), Decrement(Task.cell)) = 0
         /\ drift[Task.cell] = 0
  <1> DEFINE x == Task.cell
             w == Cars(heap, InUse)
             y == Cdrs(heap, InUse)
             t == Tail(release)
  <1>1. Task = Decrement(x) /\ x \in InUse
    BY TaskFacts
  <1>2. ref_cnt[x] \in Nat /\ ref_cnt[x] - 1 <= 0 /\ drift[x] \in Int
    BY <1>1, Basics DEF Drops
  <1>3. Balanced(ref_cnt[x], Names(x), drift[x])
    BY <1>1 DEF IInv, Exact
  <1>4. /\ Refs(release, Decrement(x)) = Is(Task, Decrement(x)) + Refs(t, Decrement(x))
        /\ Refs(t, Decrement(x)) \in Nat
    BY TaskFacts
  <1>5. Is(Task, Decrement(x)) = 1
    BY <1>1 DEF Is
  <1>6. Refs(root, x) = 0
    <2>1. \A i \in Roots : root[i] # x
      BY DEF Named
    <2> QED
      BY <2>1, Basics, RefsType
  <1>7. \A b \in InUse : w[b] # x /\ y[b] # x
    BY DEF Named, InUse, Cars, Cdrs, Fields
  <1>8. DOMAIN w = InUse /\ DOMAIN y = InUse /\ IsFiniteSet(InUse)
    BY Basics
  <1>9. /\ t \in Seq(Tasks) /\ DOMAIN t = 1 .. Len(t) /\ IsFiniteSet(DOMAIN t)
    <2>1. t \in Seq(Tasks)
      BY TaskFacts
    <2> HIDE DEF t
    <2>2. Len(t) \in Nat /\ DOMAIN t = 1 .. Len(t)
      BY <2>1, LenProperties
    <2> QED
      BY <2>1, <2>2, FS_Interval
  <1>10. \A n \in DOMAIN t : t[n] # Decrement(x)
    <2> SUFFICES ASSUME NEW n \in 1 .. Len(t) PROVE t[n] # Decrement(x)
      BY <1>9
    <2>1. n + 1 \in 1 .. Len(release) /\ t[n] = release[n + 1] /\ n \in Nat /\ n >= 1
      BY TaskFacts
    <2>2. release \in Seq(Tasks)
      BY DEF IInv, StateType
    <2>3. n + 1 \in 2 .. Len(release)
      BY <2>1, <2>2
    <2> QED
      BY <2>1, <2>3 DEF Named
  <1> HIDE DEF x, w, y, t
  <1>11. Refs(w, x) = 0 /\ Refs(y, x) = 0
    BY <1>7, <1>8, RefsType
  <1>12. Refs(t, Decrement(x)) = 0
    BY <1>9, <1>10, RefsType
  <1>13. Names(x) = 1
    BY <1>4, <1>5, <1>6, <1>11, <1>12 DEF Names, NamesIn, w, y
  <1>14. drift[x] = 0
    BY <1>2, <1>3, <1>13 DEF Balanced
  <1> QED
    BY <1>6, <1>11, <1>12, <1>14 DEF x, w, y, t

\* Only OP_SROT can have brought it about that one is released and referred to.
LEMMA NamedIsDrifted ==
  ASSUME IInv, release # <<>>, Task.op = "decrement", Drops(Task.cell), Named(Task.cell)
  PROVE  drift[Task.cell] < 0
  <1> DEFINE x == Task.cell
             w == Cars(heap, InUse)
             y == Cdrs(heap, InUse)
             t == Tail(release)
  <1>1. Task = Decrement(x) /\ x \in InUse
    BY TaskFacts
  <1>2. ref_cnt[x] \in Nat /\ ref_cnt[x] - 1 <= 0 /\ drift[x] \in Int
    BY <1>1, Basics DEF Drops
  <1>3. Balanced(ref_cnt[x], Names(x), drift[x])
    BY <1>1 DEF IInv, Exact
  <1>4. /\ Refs(release, Decrement(x)) = Is(Task, Decrement(x)) + Refs(t, Decrement(x))
        /\ Refs(t, Decrement(x)) \in Nat
    BY TaskFacts
  <1>5. Is(Task, Decrement(x)) = 1
    BY <1>1 DEF Is
  <1>6. /\ Refs(root, x) \in Nat /\ Refs(w, x) \in Nat /\ Refs(y, x) \in Nat
        /\ DOMAIN root = Roots /\ IsFiniteSet(DOMAIN root)
        /\ DOMAIN w = InUse /\ DOMAIN y = InUse /\ IsFiniteSet(InUse)
        /\ \A b \in InUse : w[b] = heap[b].car /\ y[b] = heap[b].cdr
    BY Basics DEF Cars, Cdrs
  <1>7. \/ \E i \in Roots : root[i] = x
        \/ \E b \in InUse : x = heap[b].car \/ x = heap[b].cdr
        \/ \E n \in 2 .. Len(release) : release[n] = Decrement(x)
    BY DEF Named, InUse, Fields
  <1>8. ASSUME NEW n \in 2 .. Len(release), release[n] = Decrement(x)
        PROVE  Refs(t, Decrement(x)) # 0
    <2>1. release \in Seq(Tasks)
      BY DEF IInv, StateType
    <2>2. t \in Seq(Tasks) /\ Len(t) = Len(release) - 1 /\ n - 1 \in 1 .. Len(t)
      BY <2>1
    <2>3. t[n - 1] = release[n]
      BY <2>1, <2>2
    <2> HIDE DEF t
    <2>4. DOMAIN t = 1 .. Len(t) /\ Len(t) \in Nat
      BY <2>2, LenProperties
    <2>5. IsFiniteSet(DOMAIN t) /\ n - 1 \in DOMAIN t /\ t[n - 1] = Decrement(x)
      BY <1>8, <2>2, <2>3, <2>4, FS_Interval
    <2> QED
      BY <2>5, RefsType
  <1> HIDE DEF x, w, y, t
  <1>9. ASSUME NEW i \in Roots, root[i] = x
        PROVE  Refs(root, x) # 0
    <2>1. i \in DOMAIN root /\ root[i] = x /\ IsFiniteSet(DOMAIN root)
      BY <1>6, <1>9
    <2> QED
      BY ONLY <2>1, RefsType
  <1>10. ASSUME NEW b \in InUse, x = heap[b].car
         PROVE  Refs(w, x) # 0
    <2>1. b \in DOMAIN w /\ w[b] = x /\ IsFiniteSet(DOMAIN w)
      BY <1>6, <1>10
    <2> QED
      BY <2>1, RefsType
  <1>11. ASSUME NEW b \in InUse, x = heap[b].cdr
         PROVE  Refs(y, x) # 0
    <2>1. b \in DOMAIN y /\ y[b] = x /\ IsFiniteSet(DOMAIN y)
      BY <1>6, <1>11
    <2> QED
      BY <2>1, RefsType
  <1>12. Refs(root, x) # 0 \/ Refs(w, x) # 0 \/ Refs(y, x) # 0 \/ Refs(t, Decrement(x)) # 0
    BY <1>7, <1>8, <1>9, <1>10, <1>11
  <1>13. Names(x) > 1 /\ Names(x) \in Nat
    BY <1>4, <1>5, <1>6, <1>12 DEF Names, NamesIn, w, y
  <1>14. drift[x] < 0
    BY <1>2, <1>3, <1>13 DEF Balanced
  <1> QED
    BY <1>14 DEF x

LEMMA ReclaimNamedKeeps ==
  ASSUME IInv, ReclaimNamed
  PROVE  IInv'
  <1>1. /\ release # <<>> /\ Task.op = "decrement"
        /\ Drops(Task.cell) /\ Named(Task.cell)
        /\ pc' = "corrupted"
        /\ UNCHANGED <<root, heap, ref_cnt, chunks, freelist, drift, release>>
    BY DEF ReclaimNamed, Decrementing, countVars
  <1>2. Released' = Released /\ InUse' = InUse /\ Task' = Task
    BY <1>1 DEF Released, InUse, Task
  <1>3. drift[Task.cell] < 0
    BY <1>1, NamedIsDrifted
  <1>4. StateType'
    BY <1>1, <1>2, <1>3 DEF IInv, StateType
  <1> QED
    BY <1>1, <1>2, <1>4 DEF IInv, RefsInUse, Exact, Names, NamesIn, NoDrift, PutOnce

\* OP_SROT and execute move a reference past its count.
Drifts(v, n) ==
  /\ UNCHANGED <<heap, pc, ref_cnt, chunks, freelist, release>>
  /\ pc = "run" /\ release = <<>>
  /\ v \in Value /\ Within(v, InUse)
  /\ n \in Int
  /\ drift' = Drifted(v, n)

LEMMA DriftsKeep ==
  ASSUME IInv, NEW v, NEW n, Drifts(v, n), root' \in [Roots -> Value],
         \A i \in Roots : CELL_P(root'[i]) => root'[i] \in InUse,
         \A a \in InUse : Refs(root', a) + (IF v = a THEN n ELSE 0) = Refs(root, a),
         \A a \in InUse : Refs(root', a) # 0 => Refs(root, a) # 0
  PROVE  IInv'
  <1>1. /\ UNCHANGED <<heap, pc, ref_cnt, chunks, freelist, release>>
        /\ pc = "run" /\ release = <<>>
        /\ v \in Value /\ Within(v, InUse) /\ n \in Int /\ drift' = Drifted(v, n)
    BY DEF Drifts
  <1>2. Released' = Released /\ InUse' = InUse /\ InUse \subseteq DOMAIN heap
    BY <1>1 DEF Released, InUse
  <1>3. drift \in [DOMAIN heap -> Int] /\ DOMAIN heap \subseteq Nat
    BY DEF IInv, StateType, HeapOK
  <1>4. /\ drift' \in [DOMAIN heap -> Int]
        /\ \A a \in DOMAIN heap : drift'[a] = drift[a] + (IF v = a THEN n ELSE 0)
    <2>1. CASE CELL_P(v)
      <3>1. v \in DOMAIN heap /\ drift' = [drift EXCEPT ![v] = @ + n]
        BY <1>1, <1>2, <2>1 DEF Within, Drifted
      <3>2. drift[v] + n \in Int
        BY <1>1, <1>3, <3>1
      <3> QED
        BY <1>1, <1>3, <3>1, <3>2
    <2>2. CASE ~CELL_P(v)
      <3>1. drift' = drift /\ \A a \in DOMAIN heap : v # a
        BY <1>1, <1>3, <2>2, ImmAssumption DEF Drifted, CELL_P
      <3> QED
        BY <1>3, <3>1
    <2> QED
      BY <2>1, <2>2
  <1>5. StateType'
    BY <1>1, <1>4 DEF IInv, StateType
  <1>6. RefsInUse'
    BY <1>1, <1>2 DEF IInv, RefsInUse
  <1>7. Exact'
    <2> SUFFICES ASSUME NEW a \in InUse
                 PROVE  Balanced(ref_cnt[a], NamesIn(root', heap, InUse, release, a), drift'[a])
      BY <1>1, <1>2 DEF Exact, Names
    <2> DEFINE m == IF v = a THEN n ELSE 0
    <2>1. Balanced(ref_cnt[a], Names(a), drift[a])
      BY DEF IInv, Exact
    <2>2. /\ Refs(root, a) \in Nat /\ Refs(Cars(heap, InUse), a) \in Nat
          /\ Refs(Cdrs(heap, InUse), a) \in Nat /\ Refs(release, Decrement(a)) \in Nat
          /\ ref_cnt[a] \in Nat /\ drift[a] \in Int
      BY Basics
    <2>3. m \in Int /\ drift'[a] = drift[a] + m
      BY <1>1, <1>2, <1>4
    <2>4. Refs(root', a) \in Nat
      <3>1. DOMAIN root' = Roots /\ IsFiniteSet(Roots)
        BY Basics
      <3> QED
        BY <3>1, RefsType
    <2>5. Refs(root', a) + m = Refs(root, a) /\ (Refs(root', a) # 0 => Refs(root, a) # 0)
      OBVIOUS
    <2> HIDE DEF m
    <2>6. /\ NamesIn(root', heap, InUse, release, a) + m = Names(a)
          /\ NamesIn(root', heap, InUse, release, a) \in Nat
          /\ NamesIn(root', heap, InUse, release, a) > 0 => Names(a) > 0
          /\ Names(a) \in Nat
      <3> DEFINE old  == Refs(root, a)
                 new  == Refs(root', a)
                 rest == Refs(Cars(heap, InUse), a) + Refs(Cdrs(heap, InUse), a)
                           + Refs(release, Decrement(a))
      <3>1. rest \in Nat /\ old \in Nat /\ new \in Nat
        BY <2>2, <2>4
      <3>2. Names(a) = old + rest /\ NamesIn(root', heap, InUse, release, a) = new + rest
        BY <2>2, <2>4 DEF Names, NamesIn
      <3>3. new + m = old /\ (new # 0 => old # 0)
        BY <2>5
      <3> HIDE DEF old, new, rest
      <3> QED
        BY <2>3, <3>1, <3>2, <3>3
    <2> QED
      BY <2>1, <2>2, <2>3, <2>6 DEF Balanced
  <1>8. NoDrift' /\ PutOnce'
    <2>1. \A a \in Released : drift'[a] = drift[a]
      <3> SUFFICES ASSUME NEW a \in Released PROVE drift'[a] = drift[a]
        OBVIOUS
      <3>1. a \in DOMAIN heap /\ a # IMM /\ a \notin InUse
        BY <1>3, ImmAssumption DEF Released, InUse
      <3>2. v # a
        BY <1>1, <3>1 DEF Within, CELL_P
      <3> QED
        BY <1>3, <1>4, <3>1, <3>2
    <2> QED
      BY <1>1, <1>2, <2>1 DEF IInv, NoDrift, PutOnce
  <1> QED
    BY <1>1, <1>5, <1>6, <1>7, <1>8 DEF IInv

LEMMA SrotKeeps ==
  ASSUME IInv, NEW i \in Roots, NEW j \in Roots, Srot(i, j)
  PROVE  IInv'
  <1> DEFINE v == root[j]
  <1>1. /\ root[i] = IMM /\ root' = [root EXCEPT ![i] = v] /\ drift' = Drifted(v, -1)
        /\ pc = "run" /\ release = <<>>
        /\ UNCHANGED <<heap, pc, ref_cnt, chunks, freelist, release>>
    BY DEF Srot, Quiet
  <1>2. /\ root \in [Roots -> Value] /\ v \in Value /\ Within(v, InUse)
        /\ \A m \in Roots : CELL_P(root[m]) => root[m] \in InUse
    BY DEF IInv, StateType, RefsInUse, Within
  <1>3. root' \in [Roots -> Value] /\ \A m \in Roots : root'[m] = IF m = i THEN v ELSE root[m]
    BY <1>1, <1>2
  <1>4. \A m \in Roots : CELL_P(root'[m]) => root'[m] \in InUse
    BY <1>2, <1>3 DEF Within
  <1>5. ASSUME NEW a \in InUse
        PROVE  /\ Refs(root', a) + (IF v = a THEN -1 ELSE 0) = Refs(root, a)
               /\ Refs(root', a) # 0 => Refs(root, a) # 0
    <2>1. Changes(root', root, i) /\ root'[i] = v /\ root[i] = IMM
      BY <1>1, <1>2, <1>3 DEF Changes
    <2>2. IsFiniteSet(DOMAIN root) /\ DOMAIN root = Roots /\ a # IMM /\ Refs(root, a) \in Nat
      BY Basics
    <2>3. Refs(root', a) = Refs(root, a) - Is(root[i], a) + Is(root'[i], a)
      BY <2>1, <2>2, RefsUpdate
    <2>4. Refs(root', a) = Refs(root, a) + Is(v, a)
      BY <2>1, <2>2, <2>3 DEF Is
    <2>5. v = a => Refs(root, a) # 0
      BY <2>2, RefsType
    <2> HIDE DEF v
    <2> QED
      BY <2>2, <2>4, <2>5 DEF Is
  <1> HIDE DEF v
  <1>6. Drifts(v, -1)
    BY <1>1, <1>2 DEF Drifts
  <1> QED
    BY <1>3, <1>4, <1>5, <1>6, DriftsKeep

LEMMA DropSlotKeeps ==
  ASSUME IInv, NEW i \in Roots, DropSlot(i)
  PROVE  IInv'
  <1> DEFINE v == root[i]
  <1>1. /\ root' = [root EXCEPT ![i] = IMM] /\ drift' = Drifted(v, 1)
        /\ pc = "run" /\ release = <<>>
        /\ UNCHANGED <<heap, pc, ref_cnt, chunks, freelist, release>>
    BY DEF DropSlot, Quiet
  <1>2. /\ root \in [Roots -> Value] /\ v \in Value /\ Within(v, InUse)
        /\ \A m \in Roots : CELL_P(root[m]) => root[m] \in InUse
    BY DEF IInv, StateType, RefsInUse, Within
  <1>3. root' \in [Roots -> Value] /\ \A m \in Roots : root'[m] = IF m = i THEN IMM ELSE root[m]
    BY <1>1, <1>2 DEF Value
  <1>4. \A m \in Roots : CELL_P(root'[m]) => root'[m] \in InUse
    BY <1>2, <1>3 DEF CELL_P
  <1>5. ASSUME NEW a \in InUse
        PROVE  /\ Refs(root', a) + (IF v = a THEN 1 ELSE 0) = Refs(root, a)
               /\ Refs(root', a) # 0 => Refs(root, a) # 0
    <2>1. Changes(root', root, i) /\ root'[i] = IMM
      BY <1>1, <1>2, <1>3 DEF Changes
    <2>2. IsFiniteSet(DOMAIN root) /\ a # IMM /\ Refs(root, a) \in Nat
      BY Basics
    <2>3. Refs(root', a) = Refs(root, a) - Is(v, a) + Is(root'[i], a)
      BY <2>1, <2>2, RefsUpdate
    <2>4. Refs(root', a) = Refs(root, a) - Is(v, a) /\ Refs(root', a) \in Nat
      <3>1. DOMAIN root' = Roots /\ IsFiniteSet(Roots)
        BY <1>3, Basics
      <3>2. Refs(root', a) \in Nat
        BY <3>1, RefsType
      <3> QED
        BY <2>1, <2>2, <2>3, <3>2 DEF Is
    <2> HIDE DEF v
    <2> QED
      BY <2>2, <2>4 DEF Is
  <1> HIDE DEF v
  <1>6. Drifts(v, 1)
    BY <1>1, <1>2 DEF Drifts
  <1> QED
    BY <1>3, <1>4, <1>5, <1>6, DriftsKeep

LEMMA TasksConcat ==
  ASSUME NEW s \in Seq(Tasks), NEW t \in Seq(Tasks)
  PROVE  /\ s \o t \in Seq(Tasks)
         /\ \A a : /\ Refs(s \o t, a) = Refs(s, a) + Refs(t, a)
                   /\ Refs(s, a) \in Nat /\ Refs(t, a) \in Nat
  <1>1. s \o t \in Seq(Tasks)
    OBVIOUS
  <1>2. ASSUME NEW a
        PROVE  /\ Refs(s \o t, a) = Refs(s, a) + Refs(t, a)
               /\ Refs(s, a) \in Nat /\ Refs(t, a) \in Nat
    BY RefsConcat
  <1> QED
    BY <1>1, <1>2

\* What a released cell leaves to do, above what there was.
Releases(u, v, x, below) == Decrements(u) \o Decrements(v) \o <<PutChunkOf(x)>> \o below

\* The tasks in s refer to a as often as n and wait to give a back m times.
Counts(s, a, n, m) == Refs(s, Decrement(a)) = n /\ Refs(s, PutChunkOf(a)) = m

LEMMA ReleaseTasks ==
  ASSUME NEW u \in Value, NEW v \in Value, NEW x \in Nat, NEW below \in Seq(Tasks)
  PROVE  /\ Releases(u, v, x, below) \in Seq(Tasks)
         /\ \A a \in Nat : Counts(Releases(u, v, x, below), a,
                                  Is(u, a) + Is(v, a) + Refs(below, Decrement(a)),
                                  (IF a = x THEN 1 ELSE 0) + Refs(below, PutChunkOf(a)))
  <1> DEFINE s == Decrements(u)
             t == Decrements(v)
             w == <<PutChunkOf(x)>>
             m == s \o t
             n == m \o w
             rest == n \o below
  <1>1. PutChunkOf(x) \in Tasks
    BY DEF PutChunkOf, Tasks
  <1>2. w \in Seq(Tasks) /\ \A b : Refs(w, b) = Is(PutChunkOf(x), b)
    BY <1>1, OneTask
  <1>3. \A a \in Nat : /\ Is(PutChunkOf(x), Decrement(a)) = 0
                       /\ Is(PutChunkOf(x), PutChunkOf(a)) = IF a = x THEN 1 ELSE 0
    BY DEF Is, PutChunkOf, Decrement
  <1>4. \A a \in Nat : Refs(w, Decrement(a)) = 0 /\ Refs(w, PutChunkOf(a)) = IF a = x THEN 1 ELSE 0
    BY <1>2, <1>3
  <1>5. /\ s \in Seq(Tasks)
        /\ \A a \in Nat : Refs(s, Decrement(a)) = Is(u, a) /\ Refs(s, PutChunkOf(a)) = 0
    BY DecrementsFacts
  <1>6. /\ t \in Seq(Tasks)
        /\ \A a \in Nat : Refs(t, Decrement(a)) = Is(v, a) /\ Refs(t, PutChunkOf(a)) = 0
    BY DecrementsFacts
  <1>7. Releases(u, v, x, below) = rest
    <2> HIDE DEF s, t, w
    <2>1. s \o t \in Seq(Tasks) /\ rest = s \o t \o w \o below
      BY <1>2, <1>5, <1>6
    <2> QED
      BY <2>1 DEF Releases, s, t, w
  <1> HIDE DEF s, t, w
  <1>8. m \in Seq(Tasks) /\ \A b : Refs(m, b) = Refs(s, b) + Refs(t, b)
    BY <1>5, <1>6, TasksConcat
  <1> HIDE DEF m
  <1>9. n \in Seq(Tasks) /\ \A b : Refs(n, b) = Refs(m, b) + Refs(w, b)
    BY <1>2, <1>8, TasksConcat
  <1> HIDE DEF n
  <1>10. /\ rest \in Seq(Tasks)
         /\ \A b : Refs(rest, b) = Refs(n, b) + Refs(below, b) /\ Refs(below, b) \in Nat
    BY <1>9, TasksConcat
  <1> HIDE DEF rest
  <1>11. ASSUME NEW a \in Nat
         PROVE  /\ Refs(rest, Decrement(a)) = Is(u, a) + Is(v, a) + Refs(below, Decrement(a))
                /\ Refs(rest, PutChunkOf(a)) = (IF a = x THEN 1 ELSE 0) + Refs(below, PutChunkOf(a))
    <2>1. Is(u, a) \in Nat /\ Is(v, a) \in Nat
      BY DEF Is
    <2>2. Refs(rest, Decrement(a)) = Is(u, a) + Is(v, a) + Refs(below, Decrement(a))
      BY <1>4, <1>5, <1>6, <1>8, <1>9, <1>10, <2>1
    <2>3. Refs(rest, PutChunkOf(a)) = (IF a = x THEN 1 ELSE 0) + Refs(below, PutChunkOf(a))
      <3>1. Refs(s, PutChunkOf(a)) = 0 /\ Refs(t, PutChunkOf(a)) = 0
        BY <1>5, <1>6
      <3>2. Refs(m, PutChunkOf(a)) = 0
        BY <1>8, <3>1
      <3>3. Refs(n, PutChunkOf(a)) = IF a = x THEN 1 ELSE 0
        BY <1>4, <1>9, <3>2
      <3> QED
        BY <1>10, <3>3
    <2> QED
      BY <2>2, <2>3
  <1> QED
    BY <1>7, <1>10, <1>11 DEF Counts

LEMMA ReclaimKeeps ==
  ASSUME IInv, Reclaim
  PROVE  IInv'
  <1> DEFINE x == Task.cell
             u == heap[x].car
             v == heap[x].cdr
             S == InUse \ {x}
  <1>1. /\ release # <<>> /\ Task.op = "decrement"
        /\ Drops(x) /\ ~Named(x)
        /\ ref_cnt' = [ref_cnt EXCEPT ![x] = -1]
        /\ release' = Decrements(u) \o Decrements(v) \o <<PutChunkOf(x)>> \o Tail(release)
        /\ pc = "run"
        /\ UNCHANGED <<root, heap, pc, chunks, freelist, drift>>
    BY DEF Reclaim, ReclaimTasks, Decrementing
  <1>2. Task = Decrement(x) /\ x \in InUse /\ x \in DOMAIN heap /\ x \in Nat /\ CELL_P(x)
    BY <1>1, TaskFacts, Basics, ImmAssumption DEF InUse, CELL_P
  <1>3. /\ Refs(root, x) = 0 /\ Refs(Cars(heap, InUse), x) = 0 /\ Refs(Cdrs(heap, InUse), x) = 0
        /\ Refs(Tail(release), Decrement(x)) = 0 /\ drift[x] = 0
    BY <1>1, LastReference
  <1> HIDE DEF x
  <1>4. heap[x] \in Object /\ u \in Value /\ v \in Value
    <2>1. heap[x] \in Object
      BY <1>2 DEF IInv, HeapOK
    <2> QED
      BY <2>1 DEF Object, Value
  <1>5. /\ \A i \in Roots : root[i] # x
        /\ \A b \in InUse : heap[b].car # x /\ heap[b].cdr # x
    <2> DEFINE w == Cars(heap, InUse)
               y == Cdrs(heap, InUse)
    <2>1. \A i \in Roots : root[i] # x
      BY <1>3, Basics, RefsType
    <2>2. /\ \A b \in InUse : w[b] = heap[b].car /\ y[b] = heap[b].cdr
          /\ DOMAIN w = InUse /\ DOMAIN y = InUse /\ IsFiniteSet(InUse)
          /\ Refs(w, x) = 0 /\ Refs(y, x) = 0
      BY <1>3, Basics DEF Cars, Cdrs
    <2> HIDE DEF w, y
    <2>3. \A b \in InUse : w[b] # x /\ y[b] # x
      BY <2>2, RefsType
    <2> QED
      BY <2>1, <2>2, <2>3
  <1>6. /\ Within(u, S) /\ Within(v, S)
    BY <1>2, <1>5 DEF IInv, RefsInUse, Fields, Within
  <1> HIDE DEF u, v
  <1>7. /\ release' \in Seq(Tasks)
        /\ \A a \in Nat :
             /\ Refs(release', Decrement(a)) = Is(u, a) + Is(v, a) + Refs(Tail(release), Decrement(a))
             /\ Refs(release', PutChunkOf(a)) = (IF a = x THEN 1 ELSE 0)
                                                 + Refs(Tail(release), PutChunkOf(a))
    <2>1. Tail(release) \in Seq(Tasks)
      BY <1>1, TaskFacts
    <2>2. release' = Releases(u, v, x, Tail(release))
      BY <1>1 DEF Releases, u, v
    <2>3. /\ Releases(u, v, x, Tail(release)) \in Seq(Tasks)
          /\ \A a \in Nat : Counts(Releases(u, v, x, Tail(release)), a,
                     Is(u, a) + Is(v, a) + Refs(Tail(release), Decrement(a)),
                     (IF a = x THEN 1 ELSE 0) + Refs(Tail(release), PutChunkOf(a)))
      BY <1>2, <1>4, <2>1, ReleaseTasks
    <2> QED
      BY <2>2, <2>3 DEF Counts
  <1>8. /\ ref_cnt' \in [DOMAIN heap -> Int] /\ ref_cnt'[x] = -1
        /\ \A a \in DOMAIN heap : a # x => ref_cnt'[a] = ref_cnt[a]
    BY <1>1, <1>2 DEF IInv, StateType
  <1>9. Released' = Released \cup {x} /\ InUse' = S
    BY <1>1, <1>2, <1>8 DEF Released, InUse
  <1>10. StateType'
    BY <1>1, <1>7, <1>8 DEF IInv, StateType
  <1>11. RefsInUse'
    <2>1. \A i \in Roots : CELL_P(root[i]) => root[i] \in S
      BY <1>5 DEF IInv, RefsInUse
    <2>2. \A b \in S : \A w \in Fields(heap[b]) : CELL_P(w) => w \in S
      BY <1>5 DEF IInv, RefsInUse, Fields
    <2>3. ASSUME NEW n \in 1 .. Len(release'), release'[n].op = "decrement"
          PROVE  release'[n].cell \in S
      <3> DEFINE a == release'[n].cell
      <3>1. release'[n] \in Tasks /\ n \in DOMAIN release' /\ IsFiniteSet(DOMAIN release')
        <4>1. Len(release') \in Nat /\ DOMAIN release' = 1 .. Len(release')
          BY <1>7, LenProperties
        <4> QED
          BY <1>7, <4>1, FS_Interval
      <3>2. release'[n] = Decrement(a) /\ a \in Nat
        BY <2>3, <3>1 DEF Tasks, Decrement
      <3>3. Refs(release', Decrement(a)) # 0
        BY <3>1, <3>2, RefsType
      <3>4. Is(u, a) # 0 \/ Is(v, a) # 0 \/ Refs(Tail(release), Decrement(a)) # 0
        BY <1>7, <3>2, <3>3
      <3>5. CASE Is(u, a) # 0 \/ Is(v, a) # 0
        BY <1>6, <3>2, <3>5, ImmAssumption DEF Is, Within, CELL_P
      <3>6. CASE Refs(Tail(release), Decrement(a)) # 0
        <4>1. a # x
          BY <1>3, <3>6
        <4>2. /\ Refs(release, Decrement(a)) = Is(Task, Decrement(a)) + Refs(Tail(release), Decrement(a))
              /\ Refs(Tail(release), Decrement(a)) \in Nat
          BY <1>1, TaskFacts
        <4>3. Refs(release, Decrement(a)) # 0
          BY <3>6, <4>2 DEF Is
        <4>4. release \in Seq(Tasks) /\ DOMAIN release = 1 .. Len(release)
              /\ IsFiniteSet(DOMAIN release)
          <5>1. release \in Seq(Tasks)
            BY DEF IInv, StateType
          <5>2. Len(release) \in Nat /\ DOMAIN release = 1 .. Len(release)
            BY <5>1, LenProperties
          <5> QED
            BY <5>1, <5>2, FS_Interval
        <4>5. PICK m \in 1 .. Len(release) : release[m] = Decrement(a)
          BY <4>3, <4>4, RefsType
        <4>6. release[m].op = "decrement" /\ release[m].cell = a
          BY <4>5 DEF Decrement
        <4>7. a \in InUse
          BY <4>6 DEF IInv, RefsInUse
        <4> QED
          BY <4>1, <4>7
      <3> QED
        BY <3>4, <3>5, <3>6
    <2> QED
      BY <1>1, <1>9, <2>1, <2>2, <2>3 DEF RefsInUse
  <1>12. Exact'
    <2> SUFFICES ASSUME NEW a \in S
                 PROVE  Balanced(ref_cnt'[a], NamesIn(root, heap, S, release', a), drift[a])
      BY <1>1, <1>9 DEF Exact, Names
    <2>1. a \in InUse /\ a # x /\ a \in DOMAIN heap /\ a \in Nat
      BY Basics
    <2>2. Balanced(ref_cnt'[a], Names(a), drift[a])
      BY <1>8, <2>1 DEF IInv, Exact
    <2>3. /\ Refs(Cars(heap, S), a) = Refs(Cars(heap, InUse), a) - Is(u, a)
          /\ Refs(Cdrs(heap, S), a) = Refs(Cdrs(heap, InUse), a) - Is(v, a)
      <3> DEFINE f == Cars(heap, InUse)
                 g == Cars(heap, S)
                 y == Cdrs(heap, InUse)
                 z == Cdrs(heap, S)
      <3>1. Gains(f, g, x) /\ f[x] = u /\ Gains(y, z, x) /\ y[x] = v
        BY <1>2 DEF Cars, Cdrs, Gains, u, v
      <3>2. IsFiniteSet(DOMAIN f) /\ IsFiniteSet(DOMAIN y)
        BY Basics
      <3> HIDE DEF f, g, y, z
      <3>3. Refs(g, a) = Refs(f, a) - Is(f[x], a)
        BY <3>1, <3>2, RefsRemove
      <3>4. Refs(z, a) = Refs(y, a) - Is(y[x], a)
        BY <3>1, <3>2, RefsRemove
      <3> QED
        BY <3>1, <3>3, <3>4 DEF f, g, y, z
    <2>4. /\ Refs(release, Decrement(a)) = Is(Task, Decrement(a)) + Refs(Tail(release), Decrement(a))
          /\ Refs(Tail(release), Decrement(a)) \in Nat
      BY <1>1, TaskFacts
    <2>5. Is(Task, Decrement(a)) = 0
      BY <1>2, <2>1 DEF Is, Decrement
    <2>6. Refs(release', Decrement(a)) = Is(u, a) + Is(v, a) + Refs(Tail(release), Decrement(a))
      BY <1>7, <2>1
    <2>7. /\ Refs(root, a) \in Nat /\ Refs(Cars(heap, InUse), a) \in Nat
          /\ Refs(Cdrs(heap, InUse), a) \in Nat
          /\ Is(u, a) \in Nat /\ Is(v, a) \in Nat
      BY Basics DEF Is
    <2> HIDE DEF S
    <2>8. NamesIn(root, heap, S, release', a) = Names(a)
      BY <2>3, <2>4, <2>5, <2>6, <2>7 DEF Names, NamesIn
    <2> QED
      BY <2>2, <2>8
  <1>13. PutOnce'
    <2> SUFFICES ASSUME NEW a \in Nat
                 PROVE  Refs(release', PutChunkOf(a)) = IF a \in Released \cup {x} THEN 1 ELSE 0
      BY <1>9 DEF PutOnce
    <2>1. /\ Refs(release, PutChunkOf(a)) = Is(Task, PutChunkOf(a)) + Refs(Tail(release), PutChunkOf(a))
          /\ Refs(Tail(release), PutChunkOf(a)) \in Nat
      BY <1>1, TaskFacts
    <2>2. Is(Task, PutChunkOf(a)) = 0
      BY <1>2 DEF Is, PutChunkOf, Decrement
    <2>3. Refs(release, PutChunkOf(a)) = IF a \in Released THEN 1 ELSE 0
      BY DEF IInv, PutOnce
    <2>4. x \notin Released
      BY <1>2 DEF InUse
    <2> QED
      BY <1>7, <2>1, <2>2, <2>3, <2>4
  <1>14. NoDrift'
    BY <1>1, <1>3, <1>9 DEF IInv, NoDrift
  <1> QED
    BY <1>1, <1>10, <1>11, <1>12, <1>13, <1>14 DEF IInv

-----------------------------------------------------------------------------
(* The specification. *)

LEMMA InitIInv == Init => IInv
  <1> SUFFICES ASSUME Init PROVE IInv
    OBVIOUS
  <1>1. /\ root = [i \in Roots |-> IMM] /\ heap = <<>> /\ pc = "run"
        /\ ref_cnt = <<>> /\ drift = <<>> /\ release = <<>>
        /\ chunks = [c \in {0} |-> HeapSize] /\ freelist = <<0>>
    BY DEF Init, BaseInit
  <1>2. DOMAIN heap = {} /\ Released = {} /\ InUse = {}
    BY <1>1 DEF Released, InUse
  <1>3. HeapSize \in Nat \ {0} /\ HeapSize >= FreeChunkSize
    BY HeapSizeAssumption, FreeChunkAssumption, ChunkAssumption
  <1>4. Parts(SizesOf(heap), chunks, 0, HeapSize)
    <2> DEFINE s == Both(SizesOf(heap), chunks)
    <2>1. DOMAIN SizesOf(heap) = {}
      BY <1>2 DEF SizesOf
    <2>2. DOMAIN s = {0} /\ s[0] = HeapSize
      BY <1>1, <2>1 DEF Both
    <2> HIDE DEF s
    <2>3. Tiles(s, 0, HeapSize)
      BY <1>3, <2>2 DEF Tiles, Apart
    <2> QED
      BY <1>1, <1>3, <2>1, <2>3 DEF Parts, s
  <1>5. HeapOK(heap, chunks, freelist)
    <2>1. IsFiniteSet(DOMAIN heap)
      BY <1>2, FS_EmptySet
    <2>2. freelist \in Seq(Nat) /\ Sorted(freelist) /\ Elems(freelist) = DOMAIN chunks
      BY <1>1 DEF Sorted, Elems
    <2>3. chunks \in [DOMAIN chunks -> Nat]
      BY <1>1, <1>3
    <2>4. heap \in [DOMAIN heap -> Object]
      BY <1>1
    <2> QED
      BY <1>2, <1>4, <2>1, <2>2, <2>3, <2>4 DEF HeapOK
  <1>6. StateType
    <2>1. ref_cnt \in [DOMAIN heap -> Int] /\ drift \in [DOMAIN heap -> Int]
      BY <1>1
    <2>2. release \in Seq(Tasks)
      BY <1>1
    <2> QED
      BY <1>1, <2>1, <2>2 DEF StateType, Value
  <1>7. RefsInUse /\ Exact
    BY <1>1, <1>2 DEF RefsInUse, Exact, CELL_P
  <1>8. PutOnce /\ NoDrift
    BY <1>1, <1>2, NoTasks DEF PutOnce, NoDrift
  <1> QED
    BY <1>5, <1>6, <1>7, <1>8 DEF IInv

LEMMA NextIInv == IInv /\ [Next]_vars => IInv'
  <1> SUFFICES ASSUME IInv, [Next]_vars PROVE IInv'
    OBVIOUS
  <1>1. ASSUME NEW i \in Roots, NEW v \in Held, Store(i, v) PROVE IInv'
    BY <1>1, StoreKeeps
  <1>2. ASSUME NEW r \in Requests, Malloc(r) PROVE IInv'
    BY <1>2, MallocKeeps
  <1>3. ASSUME NEW r \in Requests, Exhausted(r) PROVE IInv'
    BY <1>3, ExhaustedKeeps
  <1>4. ASSUME NEW i \in Roots, NEW j \in Roots, NEW s \in LeafSizes, SetKnown(i, j, s)
        PROVE  IInv'
    BY <1>4, SetKnownKeeps
  <1>5. CASE DecrementCount
    BY <1>5, DecrementCountKeeps
  <1>6. CASE Reclaim
    BY <1>6, ReclaimKeeps
  <1>7. CASE PutBack
    BY <1>7, PutBackKeeps
  <1>8. CASE UNCHANGED vars
    <2>1. UNCHANGED <<root, heap, pc, ref_cnt, chunks, freelist, drift, release>>
      BY <1>8 DEF vars
    <2>2. Released' = Released /\ InUse' = InUse /\ Task' = Task
      BY <2>1 DEF Released, InUse, Task
    <2> QED
      BY <2>1, <2>2 DEF IInv, StateType, RefsInUse, Exact, Names, NamesIn, NoDrift, PutOnce
  <1>9. CASE ReclaimNamed
    BY <1>9, ReclaimNamedKeeps
  <1>10. ASSUME NEW i \in Roots, NEW j \in Roots, Srot(i, j) PROVE IInv'
    BY <1>10, SrotKeeps
  <1>11. ASSUME NEW i \in Roots, DropSlot(i) PROVE IInv'
    BY <1>11, DropSlotKeeps
  <1> QED
    BY <1>1, <1>2, <1>3, <1>4, <1>5, <1>6, <1>7, <1>8, <1>9, <1>10, <1>11
       DEF Next, Release, Terminated

LEMMA Invariance == Spec => []IInv
  BY InitIInv, NextIInv, PTL DEF Spec

\* At every step of a release the count of a cell in use is the number of root
\* slots, fields and pending decrements that refer to it, but for what OP_SROT and
\* execute have put it out by.
THEOREM CountsAreExact == Spec => []CountsExact
  <1>1. ASSUME IInv PROVE CountsExact
    <2> SUFFICES ASSUME NEW a \in DOMAIN heap \ Released
                 PROVE  ref_cnt[a] = Cardinality({i \in Roots : root[i] = a})
                           + Cardinality({b \in DOMAIN heap \ Released : heap[b].car = a})
                           + Cardinality({b \in DOMAIN heap \ Released : heap[b].cdr = a})
                           + Cardinality(Pending(Decrement(a)))
                           + drift[a]
      BY DEF CountsExact
    <2>1. ref_cnt[a] = Refs(root, a) + Refs(Cars(heap, InUse), a)
                        + Refs(Cdrs(heap, InUse), a) + Refs(release, Decrement(a)) + drift[a]
      BY <1>1 DEF IInv, Exact, Balanced, Names, NamesIn, InUse
    <2>2. {i \in Roots : root[i] = a} = {i \in DOMAIN root : root[i] = a}
      BY <1>1, Basics
    <2>3. {b \in DOMAIN heap \ Released : heap[b].car = a}
            = {b \in DOMAIN Cars(heap, InUse) : Cars(heap, InUse)[b] = a}
      BY DEF Cars, InUse
    <2>4. {b \in DOMAIN heap \ Released : heap[b].cdr = a}
            = {b \in DOMAIN Cdrs(heap, InUse) : Cdrs(heap, InUse)[b] = a}
      BY DEF Cdrs, InUse
    <2>5. Pending(Decrement(a)) = {n \in DOMAIN release : release[n] = Decrement(a)}
      BY <1>1, LenProperties DEF Pending, IInv, StateType
    <2> QED
      BY <2>1, <2>2, <2>3, <2>4, <2>5 DEF Refs
  <1> QED
    BY <1>1, Invariance, PTL

\* A cell whose count fell to zero waits to be given back, once, with a count that
\* was right, and nothing is left to do about a cell that was; one that something
\* still refers to is given back only if OP_SROT has stored it.
THEOREM CellsReleasedOnce == Spec => []ReleasedOnce
  <1>1. ASSUME IInv PROVE ReleasedOnce
    <2>1. release \in Seq(Tasks) /\ DOMAIN release = 1 .. Len(release)
      BY <1>1, LenProperties DEF IInv, StateType
    <2>2. ASSUME NEW t
          PROVE  Cardinality(Pending(t)) = Refs(release, t)
      BY <2>1 DEF Pending, Refs
    <2>3. ASSUME NEW a \in DOMAIN heap
          PROVE  Cardinality(Pending(PutChunkOf(a))) = IF a \in Released THEN 1 ELSE 0
      <3>1. a \in Nat
        BY <1>1 DEF IInv, HeapOK
      <3> QED
        BY <1>1, <2>2, <3>1 DEF IInv, PutOnce
    <2>4. ASSUME NEW n \in 1 .. Len(release)
          PROVE  release[n].cell \in DOMAIN heap
      <3> DEFINE a == release[n].cell
      <3>1. release[n] \in Tasks
        BY <2>1
      <3>2. CASE release[n].op = "decrement"
        BY <1>1, <3>2 DEF IInv, RefsInUse, InUse
      <3>3. CASE release[n].op = "put"
        <4>1. a \in Nat /\ release[n] = PutChunkOf(a)
          BY <3>1, <3>3 DEF Tasks, PutChunkOf
        <4>2. IsFiniteSet(DOMAIN release)
          BY <2>1, LenProperties, FS_Interval
        <4>3. Refs(release, PutChunkOf(a)) # 0
          BY <2>1, <4>1, <4>2, RefsType
        <4> QED
          BY <1>1, <4>1, <4>3 DEF IInv, PutOnce, Released
      <3> QED
        BY <3>1, <3>2, <3>3 DEF Tasks
    <2>5. /\ \A a \in Released : drift[a] = 0
          /\ pc = "corrupted" => drift[Task.cell] < 0
      BY <1>1 DEF IInv, NoDrift, StateType
    <2> QED
      BY <2>3, <2>4, <2>5 DEF ReleasedOnce
  <1> QED
    BY <1>1, Invariance, PTL

\* DecrementCount and PutBack do the first task and no more.
LEMMA TaskDone ==
  ASSUME IInv, DecrementCount \/ PutBack
  PROVE  InUse' = InUse /\ release' = Tail(release)
  <1> DEFINE x == Task.cell
  <1>1. ref_cnt \in [DOMAIN heap -> Int]
    BY DEF IInv, StateType
  <1>2. CASE DecrementCount
    <2>1. /\ release # <<>> /\ Task.op = "decrement" /\ ~Drops(x)
          /\ ref_cnt' = [ref_cnt EXCEPT ![x] = @ - 1]
          /\ heap' = heap /\ release' = Tail(release)
      BY <1>2 DEF DecrementCount, Decrementing
    <2>2. x \in InUse /\ x \in DOMAIN heap
      BY <2>1, TaskFacts DEF InUse
    <2> HIDE DEF x
    <2>3. ref_cnt[x] \in Int /\ ref_cnt[x] - 1 > 0
      BY <1>1, <2>1, <2>2 DEF Drops
    <2>4. \A a \in DOMAIN heap : ref_cnt'[a] = -1 <=> ref_cnt[a] = -1
      BY <1>1, <2>1, <2>2, <2>3
    <2> QED
      BY <2>1, <2>4 DEF Released, InUse
  <1>3. CASE PutBack
    <2>1. /\ release # <<>> /\ Task.op = "put" /\ release' = Tail(release)
          /\ heap' = WithoutCell(heap, x) /\ ref_cnt' = WithoutCell(ref_cnt, x)
      BY <1>3 DEF PutBack
    <2>2. x \in Released
      BY <2>1, TaskFacts
    <2> HIDE DEF x
    <2>3. /\ DOMAIN heap' = DOMAIN heap \ {x}
          /\ \A a \in DOMAIN heap' : ref_cnt'[a] = ref_cnt[a]
      BY <1>1, <2>1 DEF WithoutCell
    <2> QED
      BY <2>1, <2>2, <2>3 DEF Released, InUse
  <1> QED
    BY <1>2, <1>3

LEMMA FewTasks ==
  ASSUME NEW v
  PROVE  Len(Decrements(v)) <= 1
  <1>1. CASE CELL_P(v)
    <2>1. Decrements(v) = <<Decrement(v)>>
      BY <1>1 DEF Decrements
    <2> QED
      BY <2>1
  <1>2. CASE ~CELL_P(v)
    <2>1. Decrements(v) = <<>>
      BY <1>2 DEF Decrements
    <2> QED
      BY <2>1
  <1> QED
    BY <1>1, <1>2

\* Reclaim gives up the cell in use for at most two tasks more.
LEMMA CellGivenUp ==
  ASSUME IInv, Reclaim
  PROVE  /\ Task.cell \in InUse /\ InUse' = InUse \ {Task.cell}
         /\ Len(release') \in Nat /\ Len(release') <= Len(release) + 2
  <1> DEFINE x == Task.cell
             u == heap[x].car
             v == heap[x].cdr
  <1>1. /\ release # <<>> /\ Task.op = "decrement"
        /\ ref_cnt' = [ref_cnt EXCEPT ![x] = -1] /\ heap' = heap
        /\ release' = Decrements(u) \o Decrements(v) \o <<PutChunkOf(x)>> \o Tail(release)
    BY DEF Reclaim, ReclaimTasks, Decrementing
  <1>2. /\ x \in InUse /\ x \in DOMAIN heap /\ ref_cnt \in [DOMAIN heap -> Int]
        /\ heap[x] \in Object /\ x \in Nat
    BY <1>1, TaskFacts DEF InUse, IInv, StateType, HeapOK
  <1> HIDE DEF x
  <1>3. ref_cnt'[x] = -1 /\ \A a \in DOMAIN heap : a # x => ref_cnt'[a] = ref_cnt[a]
    BY <1>1, <1>2
  <1>4. InUse' = InUse \ {x}
    BY <1>1, <1>2, <1>3 DEF Released, InUse
  <1>5. u \in Value /\ v \in Value
    BY <1>2 DEF Object, Value
  <1> HIDE DEF u, v
  <1>6. /\ Decrements(u) \in Seq(Tasks) /\ Len(Decrements(u)) <= 1
        /\ Decrements(v) \in Seq(Tasks) /\ Len(Decrements(v)) <= 1
    BY <1>5, DecrementsFacts, FewTasks
  <1>7. <<PutChunkOf(x)>> \in Seq(Tasks)
    BY <1>2 DEF PutChunkOf, Tasks
  <1>8. release \in Seq(Tasks) /\ Tail(release) \in Seq(Tasks)
        /\ Len(Tail(release)) = Len(release) - 1
    BY <1>1, TaskFacts DEF IInv, StateType
  <1>9. Len(release') = Len(Decrements(u)) + Len(Decrements(v)) + 1 + Len(Tail(release))
    BY <1>1, <1>6, <1>7, <1>8
  <1>10. Len(release') \in Nat /\ Len(release') <= Len(release) + 2
    BY <1>6, <1>8, <1>9
  <1> QED
    BY <1>2, <1>4, <1>10 DEF x

\* Every step of a release leaves less to do, however large the heap and deep the
\* structure that is released: a cell in use is given up once, for its fields and
\* the return of its bytes.
THEOREM ReleasesAdvance == Spec => ReleaseAdvances
  <1>1. ASSUME IInv, [Next]_vars, release # <<>>, pc' = "run", vars' # vars
        PROVE  WorkLeft' < WorkLeft
    <2>1. WorkLeft = 3 * Cardinality(InUse) + Len(release)
      BY DEF WorkLeft, InUse
    <2>2. WorkLeft' = 3 * Cardinality(InUse') + Len(release')
      BY DEF WorkLeft, InUse
    <2>3. /\ IsFiniteSet(InUse) /\ Cardinality(InUse) \in Nat
          /\ Len(release) \in Nat /\ Len(Tail(release)) = Len(release) - 1
      BY <1>1, Basics, FS_CardinalityType DEF IInv, StateType
    <2>4. DecrementCount \/ Reclaim \/ PutBack
      <3>1. ~Quiet
        BY <1>1 DEF Quiet
      <3>2. ~ReclaimNamed
        BY <1>1 DEF ReclaimNamed
      <3>3. ~Terminated
        BY <1>1 DEF Terminated
      <3>4. /\ \A i \in Roots : \A v \in Held : ~Store(i, v)
            /\ \A i, j \in Roots : ~Srot(i, j)
            /\ \A i \in Roots : ~DropSlot(i)
            /\ \A r \in Requests : ~Malloc(r) /\ ~Exhausted(r)
            /\ \A i, j \in Roots : \A s \in LeafSizes : ~SetKnown(i, j, s)
        BY <3>1 DEF Store, Srot, DropSlot, Malloc, Exhausted, SetKnown
      <3> QED
        BY <1>1, <3>2, <3>3, <3>4 DEF Next, Release
    <2>5. CASE DecrementCount \/ PutBack
      BY <1>1, <2>1, <2>2, <2>3, <2>5, TaskDone
    <2>6. CASE Reclaim
      <3>1. /\ Task.cell \in InUse /\ InUse' = InUse \ {Task.cell}
            /\ Len(release') \in Nat /\ Len(release') <= Len(release) + 2
        BY <1>1, <2>6, CellGivenUp
      <3>2. Cardinality(InUse') = Cardinality(InUse) - 1
        BY <2>3, <3>1, FS_RemoveElement
      <3> QED
        BY <2>1, <2>2, <2>3, <3>1, <3>2
    <2> QED
      BY <2>4, <2>5, <2>6
  <1>2. IInv /\ [Next]_vars =>
          [release # <<>> /\ pc' = "run" => WorkLeft' < WorkLeft]_vars
    BY <1>1
  <1> QED
    BY <1>2, Invariance, PTL DEF Spec, ReleaseAdvances

\* No reference of a root slot or of a cell in use dangles, cells and free
\* chunks tile the heap, and the free list holds every chunk in address order.
THEOREM HeapIsSound == Spec => []HeapSound
  <1>1. ASSUME IInv PROVE HeapSound
    <2> USE <1>1
    <2>1. /\ HeapOK(heap, chunks, freelist) /\ StateType
          /\ \A a \in DOMAIN heap : a \in Nat /\ heap[a] \in Object /\ heap[a].size \in Nat \ {0}
          /\ SizesType(chunks) /\ Apart(chunks) /\ DOMAIN heap \cap DOMAIN chunks = {}
          /\ freelist \in Seq(Nat) /\ Len(freelist) \in Nat /\ DOMAIN freelist = 1 .. Len(freelist)
          /\ Elems(freelist) = DOMAIN chunks /\ Sorted(freelist)
          /\ Parts(SizesOf(heap), chunks, 0, HeapSize)
      BY HeapFacts, LenProperties DEF IInv, HeapOK
    <2>2. TypeOK
      <3>1. freelist \in Seq(DOMAIN chunks)
        <4>1. \A i \in 1 .. Len(freelist) : freelist[i] \in DOMAIN chunks
          BY <2>1 DEF Elems
        <4> QED
          BY <2>1, <4>1
      <3>2. DOMAIN heap \cup DOMAIN chunks \subseteq Nat
        BY <2>1 DEF SizesType
      <3> QED
        BY <2>1, <3>1, <3>2 DEF TypeOK, StateType, HeapOK, Tasks
    <2>3. NoDangling
      BY DEF IInv, RefsInUse, InUse, NoDangling, ClosedFromRoots
    <2>4. HeapTiled
      <3> DEFINE s == Both(SizesOf(heap), chunks)
      <3>1. DOMAIN s = Blocks /\ \A a \in Blocks : s[a] = SizeAt(a)
        BY DEF Both, SizesOf, Blocks, SizeAt
      <3>2. Tiles(s, 0, HeapSize)
        BY <2>1 DEF Parts
      <3> HIDE DEF s
      <3> QED
        BY <2>1, <3>1, <3>2 DEF HeapTiled, Tiles, Apart
    <2>5. FreeListSound
      <3>1. Ordered(freelist, chunks)
        BY <2>1, SortedApartIsOrdered
      <3> QED
        BY <2>1, <3>1 DEF FreeListSound, Parts
    <2> QED
      BY <2>2, <2>3, <2>4, <2>5 DEF HeapSound
  <1> QED
    BY <1>1, Invariance, PTL

-----------------------------------------------------------------------------
(* The abstract memory: cells with a count, and the references they hold.   *)

\* What is referred to has a count.
LEMMA Referenced ==
  ASSUME IInv, NEW a \in InUse,
         \/ \E i \in Roots : root[i] = a
         \/ \E b \in InUse : heap[b].car = a \/ heap[b].cdr = a
         \/ release # <<>> /\ Task = Decrement(a)
  PROVE  ref_cnt[a] > 0
  <1> DEFINE w == Cars(heap, InUse)
             y == Cdrs(heap, InUse)
  <1>1. /\ Names(a) = Refs(root, a) + Refs(w, a) + Refs(y, a) + Refs(release, Decrement(a))
        /\ Names(a) > 0 => ref_cnt[a] > 0
    BY DEF IInv, Exact, Balanced, Names, NamesIn
  <1>2. /\ Refs(root, a) \in Nat /\ Refs(w, a) \in Nat /\ Refs(y, a) \in Nat
        /\ Refs(release, Decrement(a)) \in Nat
    BY Basics
  <1>3. /\ DOMAIN w = InUse /\ DOMAIN y = InUse /\ IsFiniteSet(InUse)
        /\ DOMAIN root = Roots /\ IsFiniteSet(DOMAIN root)
        /\ \A b \in InUse : w[b] = heap[b].car /\ y[b] = heap[b].cdr
    BY Basics DEF Cars, Cdrs
  <1>4. ASSUME NEW i \in Roots, root[i] = a
        PROVE  Refs(root, a) # 0
    <2>1. i \in DOMAIN root /\ root[i] = a /\ IsFiniteSet(DOMAIN root)
      BY <1>3, <1>4
    <2> QED
      BY <2>1, RefsType
  <1> HIDE DEF w, y
  <1>5. ASSUME NEW b \in InUse, heap[b].car = a
        PROVE  Refs(w, a) # 0
    <2>1. b \in DOMAIN w /\ w[b] = a /\ IsFiniteSet(DOMAIN w)
      BY <1>3, <1>5
    <2> QED
      BY <2>1, RefsType
  <1>6. ASSUME NEW b \in InUse, heap[b].cdr = a
        PROVE  Refs(y, a) # 0
    <2>1. b \in DOMAIN y /\ y[b] = a /\ IsFiniteSet(DOMAIN y)
      BY <1>3, <1>6
    <2> QED
      BY <2>1, RefsType
  <1>7. ASSUME release # <<>>, Task = Decrement(a)
        PROVE  Refs(release, Decrement(a)) # 0
    <2>1. /\ Refs(release, Decrement(a)) = Is(Task, Decrement(a)) + Refs(Tail(release), Decrement(a))
          /\ Refs(Tail(release), Decrement(a)) \in Nat
      BY <1>7, TaskFacts
    <2> QED
      BY <1>7, <2>1 DEF Is
  <1> QED
    BY <1>1, <1>2, <1>4, <1>5, <1>6, <1>7

\* The abstraction of a cell.
Abstract(o) == [type |-> o.type, car |-> o.car, cdr |-> o.cdr]

LEMMA AbstractFacts ==
  ASSUME IInv
  PROVE  /\ DOMAIN absObjs = {a \in InUse : ref_cnt[a] > 0}
         /\ \A a \in DOMAIN absObjs : absObjs[a] = Abstract(heap[a])
         /\ \A i \in Roots : CELL_P(root[i]) => root[i] \in DOMAIN absObjs
         /\ \A b \in InUse : \A v \in Fields(heap[b]) : CELL_P(v) => v \in DOMAIN absObjs
  <1>1. DOMAIN absObjs = {a \in InUse : ref_cnt[a] > 0}
    <2>1. \A a \in DOMAIN heap : ref_cnt[a] > 0 => a \in InUse
      BY DEF InUse, Released
    <2> QED
      BY <2>1 DEF absObjs, InUse
  <1>2. \A a \in DOMAIN absObjs : absObjs[a] = Abstract(heap[a])
    BY DEF absObjs, Abstract
  <1>3. ASSUME NEW i \in Roots, CELL_P(root[i])
        PROVE  root[i] \in DOMAIN absObjs
    <2>1. root[i] \in InUse
      BY <1>3 DEF IInv, RefsInUse
    <2> QED
      BY <1>1, <2>1, Referenced
  <1>4. ASSUME NEW b \in InUse, NEW v \in Fields(heap[b]), CELL_P(v)
        PROVE  v \in DOMAIN absObjs
    <2>1. v \in InUse /\ (heap[b].car = v \/ heap[b].cdr = v)
      BY <1>4 DEF IInv, RefsInUse, Fields
    <2> QED
      BY <1>1, <2>1, Referenced
  <1> QED
    BY <1>1, <1>2, <1>3, <1>4

LEMMA AbstractHeld ==
  ASSUME IInv, NEW v \in Held
  PROVE  v \in Memory!Held /\ (CELL_P(v) => v \in DOMAIN absObjs)
  <1>1. CASE v = IMM
    BY <1>1 DEF Memory!Held, CELL_P
  <1>2. ASSUME NEW i \in Roots, v = root[i]
        PROVE  v \in Memory!Held /\ (CELL_P(v) => v \in DOMAIN absObjs)
    BY <1>2, AbstractFacts DEF Memory!Held, absRoot
  <1>3. ASSUME NEW i \in Roots, CELL_P(root[i]), v \in Fields(heap[root[i]])
        PROVE  v \in Memory!Held /\ (CELL_P(v) => v \in DOMAIN absObjs)
    <2>1. root[i] \in DOMAIN absObjs /\ root[i] \in InUse
      BY <1>3, AbstractFacts
    <2>2. CELL_P(v) => v \in DOMAIN absObjs
      BY <1>3, <2>1, AbstractFacts
    <2>3. Memory!Fields(absObjs[root[i]]) = Fields(heap[root[i]])
      BY <2>1, AbstractFacts DEF Memory!Fields, Fields, Abstract
    <2>4. v \in UNION {Memory!Fields(absObjs[absRoot[j]]) :
                         j \in {m \in Roots : Memory!IsCell(absRoot[m])}}
      BY <1>3, <2>3 DEF absRoot, Memory!IsCell, CELL_P
    <2> QED
      BY <2>2, <2>4 DEF Memory!Held
  <1> QED
    BY <1>1, <1>2, <1>3 DEF Held

\* No reference leads out of the abstract memory.
LEMMA AbstractClosed == IInv => Memory!Closed
  <1> SUFFICES ASSUME IInv PROVE Memory!Closed
    OBVIOUS
  <1>1. \A i \in Roots : Memory!IsCell(absRoot[i]) => absRoot[i] \in DOMAIN absObjs
    BY AbstractFacts DEF Memory!IsCell, absRoot, CELL_P
  <1>2. ASSUME NEW a \in DOMAIN absObjs, NEW v \in Memory!Fields(absObjs[a]), Memory!IsCell(v)
        PROVE  v \in DOMAIN absObjs
    <2>1. a \in InUse /\ v \in Fields(heap[a]) /\ CELL_P(v)
      BY <1>2, AbstractFacts DEF Memory!Fields, Fields, Abstract, Memory!IsCell, CELL_P
    <2> QED
      BY <2>1, AbstractFacts
  <1> QED
    BY <1>1, <1>2 DEF Memory!Closed

\* The steps, seen in the abstract memory.
LEMMA StoreAssigns ==
  ASSUME IInv, NEW i \in Roots, NEW v \in Held, Store(i, v)
  PROVE  Memory!Assign(i, v)
  <1>1. v \in Value /\ (CELL_P(v) => v \in InUse)
    BY HeldInUse
  <1>2. v \in Memory!Held /\ (CELL_P(v) => v \in DOMAIN absObjs)
    BY AbstractHeld
  <1>3. root' = [root EXCEPT ![i] = v] /\ heap' = heap /\ ref_cnt' = Counted(v)
    BY DEF Store, Assign
  <1>4. /\ ref_cnt \in [DOMAIN heap -> Int]
        /\ \A x \in DOMAIN heap : Counted(v)[x] = ref_cnt[x] + Is(v, x)
    BY <1>1, CountedFacts DEF IInv, StateType
  <1>5. ASSUME NEW x \in DOMAIN heap
        PROVE  ref_cnt'[x] > 0 <=> ref_cnt[x] > 0
    <2>1. CASE v = x
      <3>1. CELL_P(v)
        BY <2>1, ImmAssumption DEF IInv, HeapOK, CELL_P
      <3>2. ref_cnt[x] > 0
        BY <1>2, <2>1, <3>1, AbstractFacts
      <3> QED
        BY <1>3, <1>4, <2>1, <3>2 DEF Is
    <2>2. CASE v # x
      BY <1>3, <1>4, <2>2 DEF Is
    <2> QED
      BY <2>1, <2>2
  <1>6. {x \in DOMAIN heap : ref_cnt'[x] > 0} = {x \in DOMAIN heap : ref_cnt[x] > 0}
    BY <1>5
  <1>7. absObjs' = absObjs
    BY <1>3, <1>6 DEF absObjs
  <1> QED
    BY <1>2, <1>3, <1>7 DEF Memory!Assign, absRoot

LEMMA MallocMakes ==
  ASSUME IInv, NEW r \in Requests, Malloc(r)
  PROVE  Memory!Next
  <1> DEFINE c == NewChunk(r.size)
             o == NewCellOf(r)
             A == Abstract(o)
  <1>1. /\ c \in Nat /\ c \notin DOMAIN heap
        /\ o.car \in Value /\ Within(o.car, InUse)
        /\ o.cdr \in Value /\ Within(o.cdr, InUse)
    BY MallocFacts
  <1>2. /\ Gains(heap', heap, c) /\ heap'[c] = o
        /\ CountsBoth(ref_cnt', c, 1, o.cdr, o.car)
    BY MallocFacts
  <1>3. root' = [root EXCEPT ![r.dst] = c]
    BY DEF Malloc, NewChunk
  <1>4. /\ r.dst \in Roots /\ r.a \in Roots /\ r.d \in Roots /\ r.type \in {"leaf", "pair"}
        /\ r.type = "pair" => r.dst = r.a
    BY RequestFacts DEF Requests, LeafRequests, PairRequests
  <1>5. /\ o.car = (IF r.type = "pair" THEN root[r.a] ELSE IMM)
        /\ o.cdr = (IF r.type = "pair" THEN root[r.d] ELSE IMM)
        /\ o.type = r.type
    BY DEF NewCellOf, NewObject
  <1> HIDE DEF c, o
  <1>6. \A v \in {o.car, o.cdr} : CELL_P(v) => v \in DOMAIN absObjs
    BY <1>4, <1>5, AbstractFacts DEF CELL_P
  <1>7. ASSUME NEW x \in DOMAIN heap
        PROVE  ref_cnt'[x] > 0 <=> ref_cnt[x] > 0
    <2>1. ref_cnt[x] \in Int /\ x \in Nat
      BY DEF IInv, StateType, HeapOK
    <2>2. ref_cnt'[x] = ref_cnt[x] + Is(o.cdr, x) + Is(o.car, x)
      BY <1>2 DEF CountsBoth
    <2>3. CASE o.cdr = x \/ o.car = x
      <3>1. ref_cnt[x] > 0
        BY <1>6, <2>1, <2>3, AbstractFacts, ImmAssumption DEF CELL_P
      <3> QED
        BY <2>1, <2>2, <3>1 DEF Is
    <2>4. CASE o.cdr # x /\ o.car # x
      BY <2>1, <2>2, <2>4 DEF Is
    <2> QED
      BY <2>3, <2>4
  <1>8. ref_cnt'[c] = 1
    BY <1>2 DEF CountsBoth
  <1>9. {x \in DOMAIN heap' : ref_cnt'[x] > 0} = {x \in DOMAIN heap : ref_cnt[x] > 0} \cup {c}
    BY <1>2, <1>7, <1>8 DEF Gains
  <1>10. absObjs' = [x \in DOMAIN absObjs \cup {c} |-> IF x = c THEN A ELSE absObjs[x]]
    <2> DEFINE f == [x \in DOMAIN absObjs \cup {c} |-> IF x = c THEN A ELSE absObjs[x]]
               g == absObjs'
    <2>1. DOMAIN g = DOMAIN f /\ g = [x \in DOMAIN g |-> g[x]] /\ f = [x \in DOMAIN f |-> f[x]]
      BY <1>9 DEF absObjs
    <2>2. ASSUME NEW x \in DOMAIN f
          PROVE  g[x] = f[x]
      <3>1. g[x] = [type |-> heap'[x].type, car |-> heap'[x].car, cdr |-> heap'[x].cdr]
        BY <2>1, <2>2 DEF absObjs
      <3>2. CASE x = c
        BY <1>2, <3>1, <3>2 DEF Abstract
      <3>3. CASE x # c
        <4>1. x \in DOMAIN absObjs /\ x \in DOMAIN heap
          BY <2>2, <3>3 DEF absObjs
        <4> QED
          BY <1>2, <3>1, <3>3, <4>1 DEF Gains, absObjs
      <3> QED
        BY <3>2, <3>3
    <2> HIDE DEF f, g
    <2>3. g = f
      BY <2>1, <2>2
    <2> QED
      BY <2>3 DEF f, g
  <1>11. c \notin DOMAIN absObjs /\ c \in DOMAIN absObjs'
    <2>1. DOMAIN absObjs \subseteq DOMAIN heap
      BY DEF absObjs
    <2> QED
      BY <1>1, <1>10, <2>1
  <1> HIDE DEF A
  <1>12. Memory!New(r.dst, A)
    BY <1>3, <1>10, <1>11 DEF Memory!New, absRoot
  <1>13. CASE r.type = "leaf"
    <2>1. A = Memory!Leaf
      BY <1>5, <1>13 DEF A, Abstract, Memory!Leaf
    <2> QED
      BY <1>4, <1>12, <2>1 DEF Memory!Next, Memory!NewLeaf
  <1>14. CASE r.type = "pair"
    <2>1. A = Memory!Pair(absRoot[r.a], absRoot[r.d])
      BY <1>5, <1>14 DEF A, Abstract, Memory!Pair, absRoot
    <2> QED
      BY <1>4, <1>12, <1>14, <2>1 DEF Memory!Next, Memory!NewPair
  <1> QED
    BY <1>4, <1>13, <1>14

LEMMA SetKnownRedefines ==
  ASSUME IInv, NEW i \in Roots, NEW j \in Roots, NEW size \in LeafSizes, SetKnown(i, j, size)
  PROVE  Memory!Redefine(i, j)
  <1> DEFINE c == NewChunk(size)
             e == heap[root[i]].car
             v == root[j]
             o == absObjs[e]
  <1>0. root[i] \in InUse /\ KnownSet(c, e, v)
    BY SetKnownFacts
  <1>1. /\ CELL_P(root[i]) /\ CELL_P(e) /\ heap[e].type = "pair"
        /\ root' = root
    BY DEF SetKnown
  <1>2. c \in Nat /\ c \notin DOMAIN heap /\ v \in Value /\ Within(v, InUse)
    BY <1>0 DEF KnownSet
  <1>3. root[i] \in InUse /\ e \in InUse /\ heap[e] \in Object
    BY <1>0 DEF KnownSet
  <1>4. /\ DOMAIN heap' = DOMAIN heap \cup {c}
        /\ heap'[e] = [heap[e] EXCEPT !.cdr = v]
        /\ \A b \in DOMAIN heap : b # e => heap'[b] = heap[b]
    BY <1>0 DEF KnownSet
  <1>5. CountsBoth(ref_cnt', c, 0, IMM, v)
    BY <1>0 DEF KnownSet
  <1>6. /\ root[i] \in DOMAIN absObjs /\ e \in DOMAIN absObjs
        /\ CELL_P(v) => v \in DOMAIN absObjs
    BY <1>1, <1>3, AbstractFacts DEF Fields
  <1>7. heap'[e].type = heap[e].type /\ heap'[e].car = heap[e].car /\ heap'[e].cdr = v
    BY <1>3, <1>4 DEF Object
  <1>8. ASSUME NEW x \in DOMAIN heap
        PROVE  ref_cnt'[x] > 0 <=> ref_cnt[x] > 0
    <2>1. ref_cnt[x] \in Int /\ x \in Nat /\ Is(IMM, x) = 0
      BY ImmAssumption DEF IInv, StateType, HeapOK, Is
    <2>2. ref_cnt'[x] = ref_cnt[x] + Is(v, x)
      BY <1>5, <2>1 DEF CountsBoth, Is
    <2>3. CASE v = x
      <3>1. ref_cnt[x] > 0
        BY <1>6, <2>1, <2>3, AbstractFacts, ImmAssumption DEF CELL_P
      <3> QED
        BY <2>1, <2>2, <3>1 DEF Is
    <2>4. CASE v # x
      BY <2>1, <2>2, <2>4 DEF Is
    <2> QED
      BY <2>3, <2>4
  <1>9. ref_cnt'[c] = 0
    BY <1>5 DEF CountsBoth
  <1> HIDE DEF c
  <1>10. {x \in DOMAIN heap' : ref_cnt'[x] > 0} = {x \in DOMAIN heap : ref_cnt[x] > 0}
    BY <1>2, <1>4, <1>8, <1>9
  <1>11. o = Abstract(heap[e]) /\ [o EXCEPT !.cdr = v] = Abstract(heap'[e])
    BY <1>6, <1>7, AbstractFacts DEF Abstract
  <1> HIDE DEF e, v
  <1>12. absObjs' = [absObjs EXCEPT ![e] = [o EXCEPT !.cdr = v]]
    <2> DEFINE f == [absObjs EXCEPT ![e] = [o EXCEPT !.cdr = v]]
               g == absObjs'
    <2>1. DOMAIN g = DOMAIN absObjs /\ g = [x \in DOMAIN g |-> g[x]]
      BY <1>10 DEF absObjs
    <2>2. DOMAIN f = DOMAIN absObjs /\ f = [x \in DOMAIN f |-> f[x]]
      BY DEF absObjs
    <2>3. ASSUME NEW x \in DOMAIN absObjs
          PROVE  g[x] = f[x]
      <3>1. g[x] = [type |-> heap'[x].type, car |-> heap'[x].car, cdr |-> heap'[x].cdr]
        BY <2>1, <2>3 DEF absObjs
      <3>2. CASE x = e
        BY <1>6, <1>11, <3>1, <3>2 DEF Abstract
      <3>3. CASE x # e
        <4>1. x \in DOMAIN heap
          BY <2>3 DEF absObjs
        <4>2. heap'[x] = heap[x] /\ absObjs[x] = Abstract(heap[x])
          BY <1>4, <2>3, <3>3, <4>1, AbstractFacts
        <4> QED
          BY <2>3, <3>1, <3>3, <4>2 DEF Abstract
      <3> QED
        BY <3>2, <3>3
    <2> HIDE DEF f, g
    <2>4. g = f
      BY <2>1, <2>2, <2>3
    <2> QED
      BY <2>4 DEF f, g
  <1>13. absObjs[absRoot[i]].car = e /\ absObjs[e].type = "pair" /\ absRoot[j] = v
    BY <1>1, <1>6, AbstractFacts DEF absRoot, Abstract, e, v
  <1>14. absObjs' = [absObjs EXCEPT ![e].cdr = v]
    BY <1>12 DEF o
  <1> QED
    BY <1>1, <1>13, <1>14 DEF Memory!Redefine, Memory!IsCell, CELL_P, absRoot, e

\* A cell that is released leaves the abstract memory, where nothing refers to it.
LEMMA ReclaimCollects ==
  ASSUME IInv, Reclaim, Memory!Closed'
  PROVE  Memory!Collect
  <1> DEFINE x    == Task.cell
             from == [a \in DOMAIN absObjs' |-> a]
  <1>1. /\ release # <<>> /\ Task.op = "decrement"
        /\ ref_cnt' = [ref_cnt EXCEPT ![x] = -1]
        /\ root' = root /\ heap' = heap
    BY DEF Reclaim, Decrementing
  <1>2. Task = Decrement(x) /\ x \in InUse /\ x \in DOMAIN heap
    BY <1>1, TaskFacts DEF InUse
  <1>3. ref_cnt[x] > 0
    BY <1>1, <1>2, Referenced
  <1> HIDE DEF x
  <1>4. /\ ref_cnt \in [DOMAIN heap -> Int]
        /\ ref_cnt'[x] = -1 /\ \A a \in DOMAIN heap : a # x => ref_cnt'[a] = ref_cnt[a]
    BY <1>1, <1>2 DEF IInv, StateType
  <1>5. /\ DOMAIN absObjs' = DOMAIN absObjs \ {x}
        /\ x \in DOMAIN absObjs
        /\ \A a \in DOMAIN absObjs' : absObjs'[a] = absObjs[a]
    BY <1>1, <1>2, <1>3, <1>4 DEF absObjs
  <1>6. absObjs' # absObjs
    BY <1>5
  <1>7. /\ from \in [DOMAIN absObjs' -> DOMAIN absObjs]
        /\ \A a \in DOMAIN absObjs' : from[a] = a
        /\ Memory!IsInjective(from)
    BY <1>5 DEF Memory!IsInjective
  <1>8. \A i \in Roots : Memory!IsCell(absRoot'[i]) => absRoot'[i] \in DOMAIN absObjs'
    BY DEF Memory!Closed
  <1>9. \A a \in DOMAIN absObjs' : \A v \in Memory!Fields(absObjs'[a]) :
          Memory!IsCell(v) => v \in DOMAIN absObjs'
    BY DEF Memory!Closed
  <1> HIDE DEF from
  <1>10. \A v : (Memory!IsCell(v) => v \in DOMAIN absObjs') => Memory!Renamed(from, v) = v
    BY <1>7 DEF Memory!Renamed
  <1>11. ASSUME NEW a \in DOMAIN absObjs'
         PROVE  absObjs[from[a]] = [absObjs'[a] EXCEPT !.car = Memory!Renamed(from, @),
                                                       !.cdr = Memory!Renamed(from, @)]
    <2> DEFINE o == absObjs'[a]
    <2>1. o = Abstract(heap[a]) /\ absObjs[from[a]] = o
      BY <1>5, <1>7, AbstractFacts
    <2>2. Memory!Renamed(from, o.car) = o.car /\ Memory!Renamed(from, o.cdr) = o.cdr
      BY <1>9, <1>10 DEF Memory!Fields
    <2>3. o = [o EXCEPT !.car = o.car, !.cdr = o.cdr]
      BY <2>1 DEF Abstract
    <2> QED
      BY <2>1, <2>2, <2>3
  <1>12. \A i \in Roots : absRoot[i] = Memory!Renamed(from, absRoot'[i])
    BY <1>1, <1>8, <1>10 DEF absRoot
  <1>13. Memory!Relocate(from)
    BY <1>7, <1>11, <1>12 DEF Memory!Relocate
  <1> QED
    BY <1>6, <1>7, <1>13 DEF Memory!Collect

\* A slot takes what another one has, or an immediate, and no cell comes or goes.
LEMMA DriftAssigns ==
  ASSUME IInv, NEW i \in Roots
  PROVE  /\ \A j \in Roots : Srot(i, j) => Memory!Assign(i, root[j]) /\ root[j] \in Memory!Held
         /\ DropSlot(i) => Memory!Assign(i, IMM) /\ IMM \in Memory!Held
  <1>1. ASSUME heap' = heap, ref_cnt' = ref_cnt
        PROVE  absObjs' = absObjs
    BY <1>1 DEF absObjs
  <1>2. ASSUME NEW j \in Roots, Srot(i, j)
        PROVE  Memory!Assign(i, root[j]) /\ root[j] \in Memory!Held
    <2>1. /\ root' = [root EXCEPT ![i] = root[j]] /\ heap' = heap /\ ref_cnt' = ref_cnt
      BY <1>2 DEF Srot
    <2>2. root[j] \in Held
      BY DEF Held
    <2> QED
      BY <1>1, <2>1, <2>2, AbstractHeld DEF Memory!Assign, absRoot
  <1>3. ASSUME DropSlot(i)
        PROVE  Memory!Assign(i, IMM) /\ IMM \in Memory!Held
    <2>1. /\ root' = [root EXCEPT ![i] = IMM] /\ heap' = heap /\ ref_cnt' = ref_cnt
      BY <1>3 DEF DropSlot
    <2>2. IMM \in Held
      BY DEF Held
    <2> QED
      BY <1>1, <2>1, <2>2, AbstractHeld DEF Memory!Assign, absRoot
  <1> QED
    BY <1>2, <1>3

LEMMA ReleaseStutters ==
  ASSUME IInv, DecrementCount \/ PutBack
  PROVE  UNCHANGED <<absRoot, absObjs>>
  <1> DEFINE x == Task.cell
  <1>1. CASE DecrementCount
    <2>1. /\ release # <<>> /\ Task.op = "decrement"
          /\ ~Drops(x)
          /\ ref_cnt' = [ref_cnt EXCEPT ![x] = @ - 1]
          /\ root' = root /\ heap' = heap
      BY <1>1 DEF DecrementCount, Decrementing
    <2>2. x \in InUse /\ x \in DOMAIN heap /\ ref_cnt \in [DOMAIN heap -> Int]
      BY <2>1, TaskFacts DEF InUse, IInv, StateType
    <2> HIDE DEF x
    <2>3. \A a \in DOMAIN heap : ref_cnt'[a] > 0 <=> ref_cnt[a] > 0
      BY <2>1, <2>2 DEF Drops
    <2>4. {a \in DOMAIN heap : ref_cnt'[a] > 0} = {a \in DOMAIN heap : ref_cnt[a] > 0}
      BY <2>3
    <2> QED
      BY <2>1, <2>4 DEF absObjs, absRoot
  <1>2. CASE PutBack
    <2>1. /\ release # <<>> /\ Task.op = "put" /\ root' = root
          /\ heap' = WithoutCell(heap, x) /\ ref_cnt' = WithoutCell(ref_cnt, x)
      BY <1>2 DEF PutBack
    <2>2. x \in DOMAIN heap /\ ref_cnt[x] = -1 /\ ref_cnt \in [DOMAIN heap -> Int]
      BY <2>1, TaskFacts DEF Released, IInv, StateType
    <2> HIDE DEF x
    <2>3. /\ DOMAIN heap' = DOMAIN heap \ {x}
          /\ \A a \in DOMAIN heap' : heap'[a] = heap[a] /\ ref_cnt'[a] = ref_cnt[a]
      BY <2>1, <2>2 DEF WithoutCell
    <2>4. {a \in DOMAIN heap' : ref_cnt'[a] > 0} = {a \in DOMAIN heap : ref_cnt[a] > 0}
      BY <2>2, <2>3
    <2>5. absObjs' = absObjs
      BY <2>3, <2>4 DEF absObjs
    <2> QED
      BY <2>1, <2>5 DEF absRoot
  <1> QED
    BY <1>1, <1>2

LEMMA AbstractInit == Init => Memory!Init
  <1> SUFFICES ASSUME Init PROVE Memory!Init
    OBVIOUS
  <1>1. root = [i \in Roots |-> IMM] /\ heap = <<>>
    BY DEF Init, BaseInit
  <1>2. absObjs = <<>>
    BY <1>1 DEF absObjs
  <1> QED
    BY <1>1, <1>2 DEF Memory!Init, absRoot

LEMMA AbstractNext == IInv /\ Memory!Closed' /\ [Next]_vars => [Memory!Next]_(Memory!memVars)
  <1> SUFFICES ASSUME IInv, Memory!Closed', [Next]_vars
               PROVE  Memory!Next \/ UNCHANGED <<absRoot, absObjs>>
    BY DEF Memory!memVars
  <1>1. ASSUME NEW i \in Roots, NEW v \in Held, Store(i, v) PROVE Memory!Next
    BY <1>1, StoreAssigns, AbstractHeld DEF Memory!Next
  <1>2. ASSUME NEW r \in Requests, Malloc(r) PROVE Memory!Next
    BY <1>2, MallocMakes
  <1>3. ASSUME NEW r \in Requests, Exhausted(r) PROVE UNCHANGED <<absRoot, absObjs>>
    BY <1>3 DEF Exhausted, countVars, absRoot, absObjs
  <1>4. ASSUME NEW i \in Roots, NEW j \in Roots, NEW s \in LeafSizes, SetKnown(i, j, s)
        PROVE  Memory!Next
    BY <1>4, SetKnownRedefines DEF Memory!Next
  <1>5. CASE DecrementCount \/ PutBack
    BY <1>5, ReleaseStutters
  <1>6. CASE Reclaim
    BY <1>6, ReclaimCollects DEF Memory!Next
  <1>7. CASE UNCHANGED vars
    BY <1>7 DEF vars, absRoot, absObjs
  <1>8. CASE ReclaimNamed
    BY <1>8 DEF ReclaimNamed, countVars, absRoot, absObjs
  <1>9. ASSUME NEW i \in Roots, NEW j \in Roots, Srot(i, j) PROVE Memory!Next
    BY <1>9, DriftAssigns DEF Memory!Next
  <1>10. ASSUME NEW i \in Roots, DropSlot(i) PROVE Memory!Next
    BY <1>10, DriftAssigns DEF Memory!Next
  <1> QED
    BY <1>1, <1>2, <1>3, <1>4, <1>5, <1>6, <1>7, <1>8, <1>9, <1>10
       DEF Next, Release, Terminated

\* Behind push, pop and the barriers, OP_SROT and execute the program sees the
\* abstract memory: the graph keeps its shape and contents, and only what nothing
\* refers to goes, until a cell that OP_SROT has stored is given back.
THEOREM MemoryIsImplemented == Spec => ImplementsObjectMemory
  <1>1. Init => Memory!Init
    BY AbstractInit
  <1>2. IInv => Memory!Closed
    BY AbstractClosed
  <1>3. IInv /\ Memory!Closed' /\ [Next]_vars => [Memory!Next]_(Memory!memVars)
    BY AbstractNext
  <1>4. Spec => []IInv
    BY Invariance
  <1> QED
    BY <1>1, <1>2, <1>3, <1>4, PTL DEF Spec, ImplementsObjectMemory, Memory!Spec

-----------------------------------------------------------------------------
(* Nothing is lost but the strings of known names and what execute has       *)
(* dropped.  Other garbage cells with a count are referred to by garbage of  *)
(* their kind, so that a set of them would hold a cycle; and no set of cells *)
(* in use does.                                                              *)

\* A member of S refers to each member of S.
Descends(h, S) == \A a \in S : \E b \in S : a \in Fields(h[b])

Acyclic == \A S \in SUBSET InUse : Descends(heap, S) => S = {}

\* A cell that was never counted is a string.
NamesUncounted == \A a \in InUse : ref_cnt[a] = 0 => heap[a].type = "leaf"

AInv == Acyclic /\ NamesUncounted

\* A step that makes neither a cell nor a reference of a cell.
LEMMA NothingNew ==
  ASSUME AInv, InUse' \subseteq InUse,
         \A b \in InUse' : heap'[b] = heap[b],
         \A a \in InUse' : ref_cnt'[a] = 0 => ref_cnt[a] = 0
  PROVE  AInv'
  <1>1. ASSUME NEW S \in SUBSET InUse', Descends(heap', S)
        PROVE  S = {}
    <2>1. S \in SUBSET InUse /\ Descends(heap, S)
      BY <1>1 DEF Descends
    <2> QED
      BY <2>1 DEF AInv, Acyclic
  <1>2. Acyclic'
    BY <1>1 DEF Acyclic
  <1>3. NamesUncounted'
    BY DEF AInv, NamesUncounted
  <1> QED
    BY <1>2, <1>3 DEF AInv

LEMMA StoreAcyclic ==
  ASSUME IInv, AInv, NEW i \in Roots, NEW v \in Held, Store(i, v)
  PROVE  AInv'
  <1>1. v \in Value /\ (CELL_P(v) => v \in InUse)
    BY HeldInUse
  <1>2. heap' = heap /\ ref_cnt' = Counted(v)
    BY DEF Store, Assign
  <1>3. /\ \A x \in DOMAIN heap : Counted(v)[x] = ref_cnt[x] + Is(v, x)
        /\ \A x \in DOMAIN heap : Counted(v)[x] = -1 <=> ref_cnt[x] = -1
    BY <1>1, CountedFacts
  <1>4. InUse' = InUse
    BY <1>2, <1>3 DEF Released, InUse
  <1>5. \A a \in InUse : ref_cnt'[a] = 0 => ref_cnt[a] = 0
    BY <1>2, <1>3, Basics DEF Is
  <1> QED
    BY <1>2, <1>4, <1>5, NothingNew

LEMMA DecrementCountAcyclic ==
  ASSUME IInv, AInv, DecrementCount
  PROVE  AInv'
  <1> DEFINE x == Task.cell
  <1>1. /\ release # <<>> /\ Task.op = "decrement"
        /\ ~Drops(x)
        /\ ref_cnt' = [ref_cnt EXCEPT ![x] = @ - 1] /\ heap' = heap
    BY DEF DecrementCount, Decrementing
  <1>2. x \in InUse /\ x \in DOMAIN heap
    BY <1>1, TaskFacts DEF InUse
  <1> HIDE DEF x
  <1>3. ref_cnt \in [DOMAIN heap -> Int] /\ ref_cnt[x] \in Nat /\ ref_cnt[x] - 1 > 0
    BY <1>1, <1>2, Basics DEF IInv, StateType, Drops
  <1>4. ref_cnt'[x] > 0 /\ \A a \in DOMAIN heap : a # x => ref_cnt'[a] = ref_cnt[a]
    BY <1>1, <1>2, <1>3
  <1>5. InUse' = InUse
    <2>1. \A a \in DOMAIN heap : ref_cnt'[a] = -1 <=> ref_cnt[a] = -1
      BY <1>3, <1>4
    <2> QED
      BY <1>1, <2>1 DEF Released, InUse
  <1>6. \A a \in InUse : ref_cnt'[a] = 0 => ref_cnt[a] = 0
    BY <1>4 DEF InUse
  <1> QED
    BY <1>1, <1>5, <1>6, NothingNew

LEMMA ReclaimAcyclic ==
  ASSUME IInv, AInv, Reclaim
  PROVE  AInv'
  <1> DEFINE x == Task.cell
  <1>1. /\ release # <<>> /\ Task.op = "decrement"
        /\ ref_cnt' = [ref_cnt EXCEPT ![x] = -1] /\ heap' = heap
    BY DEF Reclaim, Decrementing
  <1>2. x \in InUse /\ x \in DOMAIN heap /\ ref_cnt \in [DOMAIN heap -> Int]
    BY <1>1, TaskFacts DEF InUse, IInv, StateType
  <1> HIDE DEF x
  <1>3. ref_cnt'[x] = -1 /\ \A a \in DOMAIN heap : a # x => ref_cnt'[a] = ref_cnt[a]
    BY <1>1, <1>2
  <1>4. InUse' = InUse \ {x}
    BY <1>1, <1>2, <1>3 DEF Released, InUse
  <1>5. \A a \in InUse' : ref_cnt'[a] = ref_cnt[a]
    BY <1>3, <1>4 DEF InUse
  <1> QED
    BY <1>1, <1>4, <1>5, NothingNew

LEMMA PutBackAcyclic ==
  ASSUME IInv, AInv, PutBack
  PROVE  AInv'
  <1> DEFINE x == Task.cell
  <1>1. /\ release # <<>> /\ Task.op = "put"
        /\ heap' = WithoutCell(heap, x) /\ ref_cnt' = WithoutCell(ref_cnt, x)
    BY DEF PutBack
  <1>2. x \in Released /\ ref_cnt \in [DOMAIN heap -> Int]
    BY <1>1, TaskFacts DEF IInv, StateType
  <1> HIDE DEF x
  <1>3. /\ DOMAIN heap' = DOMAIN heap \ {x}
        /\ \A a \in DOMAIN heap' : heap'[a] = heap[a] /\ ref_cnt'[a] = ref_cnt[a]
    BY <1>1, <1>2 DEF WithoutCell
  <1>4. InUse' = InUse
    BY <1>2, <1>3 DEF Released, InUse
  <1>5. \A a \in InUse : heap'[a] = heap[a] /\ ref_cnt'[a] = ref_cnt[a]
    BY <1>2, <1>3 DEF InUse
  <1> QED
    BY <1>4, <1>5, NothingNew

\* Nothing refers to a new cell, the root slot apart.
LEMMA MallocAcyclic ==
  ASSUME IInv, AInv, NEW r \in Requests, Malloc(r)
  PROVE  AInv'
  <1> DEFINE c == NewChunk(r.size)
             o == NewCellOf(r)
  <1>1. c \in Nat /\ c \notin DOMAIN heap
    BY MallocFacts
  <1>2. Within(o.car, InUse) /\ Within(o.cdr, InUse)
    BY MallocFacts
  <1>3. CountsBoth(ref_cnt', c, 1, o.cdr, o.car)
    BY MallocFacts
  <1>4. Gains(heap', heap, c) /\ heap'[c] = o
    BY MallocFacts
  <1> HIDE DEF c, o
  <1>5. InUse' = InUse \cup {c} /\ c \notin InUse /\ InUse \subseteq DOMAIN heap
    BY <1>1, <1>3, <1>4 DEF Released, InUse, Gains, CountsBoth
  <1>6. \A b \in InUse : heap'[b] = heap[b]
    BY <1>4, <1>5 DEF Gains
  <1>7. \A b \in InUse \cup {c} : c \notin Fields(heap'[b])
    <2>1. CELL_P(c)
      BY <1>1, ImmAssumption DEF CELL_P
    <2>2. c \notin Fields(heap'[c])
      BY <1>2, <1>4, <1>5, <2>1 DEF Fields, Within
    <2>3. \A b \in InUse : c \notin Fields(heap'[b])
      BY <1>5, <1>6, <2>1 DEF IInv, RefsInUse
    <2> QED
      BY <2>2, <2>3
  <1>8. ASSUME NEW S \in SUBSET (InUse \cup {c}), Descends(heap', S)
        PROVE  S = {}
    <2>1. c \notin S
      BY <1>7, <1>8 DEF Descends
    <2>2. S \in SUBSET InUse /\ Descends(heap, S)
      BY <1>6, <1>8, <2>1 DEF Descends
    <2> QED
      BY <2>2 DEF AInv, Acyclic
  <1>9. Acyclic'
    BY <1>5, <1>8 DEF Acyclic
  <1>10. ASSUME NEW a \in InUse \cup {c}, ref_cnt'[a] = 0
         PROVE  heap'[a].type = "leaf"
    <2>1. a # c
      BY <1>3, <1>10 DEF CountsBoth
    <2>2. a \in InUse /\ a \in DOMAIN heap
      BY <1>5, <2>1
    <2>3. ref_cnt[a] \in Nat /\ ref_cnt'[a] = ref_cnt[a] + Is(o.cdr, a) + Is(o.car, a)
      BY <1>3, <2>2, Basics DEF CountsBoth
    <2>4. ref_cnt[a] = 0
      BY <1>10, <2>3 DEF Is
    <2> QED
      BY <1>6, <2>2, <2>4 DEF AInv, NamesUncounted
  <1>11. NamesUncounted'
    BY <1>5, <1>10 DEF NamesUncounted
  <1> QED
    BY <1>9, <1>11 DEF AInv

\* The value that set_var stores does not reach the binding it is stored in.
LEMMA SetKnownAcyclic ==
  ASSUME IInv, AInv, NEW i \in Roots, NEW j \in Roots, NEW size \in LeafSizes,
         SetKnown(i, j, size)
  PROVE  AInv'
  <1> DEFINE c == NewChunk(size)
             e == heap[root[i]].car
             v == root[j]
  <1>0. root[i] \in InUse /\ KnownSet(c, e, v)
    BY SetKnownFacts
  <1>1. CELL_P(v) => e \notin ReachedFrom(v)
    BY DEF SetKnown
  <1>2. c \in Nat /\ c \notin DOMAIN heap
    BY <1>0 DEF KnownSet
  <1>3. v \in Value /\ Within(v, InUse)
    BY <1>0 DEF KnownSet
  <1>4. e \in InUse
    BY <1>0 DEF KnownSet
  <1>5. heap[e] \in Object
    BY <1>0 DEF KnownSet
  <1>6. /\ DOMAIN heap' = DOMAIN heap \cup {c}
        /\ heap'[e] = [heap[e] EXCEPT !.cdr = v]
        /\ \A b \in DOMAIN heap : b # e => heap'[b] = heap[b]
    BY <1>0 DEF KnownSet
  <1>7. heap'[c].type = "leaf" /\ heap'[c].car = IMM /\ heap'[c].cdr = IMM
    BY <1>0 DEF KnownSet
  <1>8. CountsBoth(ref_cnt', c, 0, IMM, v)
    BY <1>0 DEF KnownSet
  <1> HIDE DEF c
  <1>9. heap'[e].type = heap[e].type /\ heap'[e].car = heap[e].car /\ heap'[e].cdr = v
    BY <1>5, <1>6 DEF Object
  <1>10. \E T \in SUBSET DOMAIN heap :
           /\ CELL_P(v) => v \in T
           /\ \A b \in T : \A w \in Fields(heap[b]) : CELL_P(w) => w \in T
           /\ e \notin T
    <2>1. CASE CELL_P(v)
      <3>1. e \in DOMAIN heap
        BY <1>4 DEF InUse
      <3> HIDE DEF e, v
      <3> QED
        BY <1>1, <2>1, <3>1 DEF ReachedFrom
    <2>2. CASE ~CELL_P(v)
      <3>1. {} \in SUBSET DOMAIN heap
        OBVIOUS
      <3> QED
        BY <2>2, <3>1
    <2> QED
      BY <2>1, <2>2
  <1> HIDE DEF e, v
  <1>11. PICK T \in SUBSET DOMAIN heap :
           /\ CELL_P(v) => v \in T
           /\ \A b \in T : \A w \in Fields(heap[b]) : CELL_P(w) => w \in T
           /\ e \notin T
    BY <1>10
  <1>12. /\ InUse' = InUse \cup {c} /\ c \notin InUse
         /\ InUse \subseteq DOMAIN heap /\ InUse \subseteq Nat
         /\ \A a \in Nat : CELL_P(a)
    BY <1>2, <1>6, <1>8, Basics, ImmAssumption DEF Released, InUse, CountsBoth, CELL_P
  <1>13. /\ \A b \in InUse : b # e => Fields(heap'[b]) = Fields(heap[b])
         /\ \A a \in Fields(heap'[e]) : a = v \/ a \in Fields(heap[e])
         /\ \A a \in Fields(heap'[c]) : a = IMM
    BY <1>6, <1>7, <1>9, <1>12 DEF Fields
  <1>14. \A b \in InUse \cup {c} : c \notin Fields(heap'[b])
    <2>1. CELL_P(c) /\ c # IMM
      BY <1>2, <1>12 DEF CELL_P
    <2>2. \A b \in InUse : c \notin Fields(heap[b])
      BY <1>12, <2>1 DEF IInv, RefsInUse
    <2>3. c # v
      BY <1>3, <1>12, <2>1 DEF Within
    <2>4. \A b \in InUse : c \notin Fields(heap'[b])
      BY <1>13, <2>2, <2>3
    <2> QED
      BY <1>13, <2>1, <2>4
  <1>15. ASSUME NEW S \in SUBSET (InUse \cup {c}), Descends(heap', S)
         PROVE  S = {}
    <2>1. c \notin S
      BY <1>14, <1>15 DEF Descends
    <2>2. S \in SUBSET InUse
      BY <2>1
    <2>3. ASSUME NEW a \in S \ T
          PROVE  \E b \in S \ T : a \in Fields(heap[b])
      <3>1. PICK b \in S : a \in Fields(heap'[b])
        BY <1>15 DEF Descends
      <3>2. CELL_P(a) /\ b \in InUse
        BY <1>12, <2>2
      <3>3. a # v
        BY <1>11, <3>2
      <3>4. a \in Fields(heap[b])
        BY <1>13, <3>1, <3>2, <3>3
      <3>5. b \notin T
        BY <1>11, <3>2, <3>4
      <3> QED
        BY <3>4, <3>5
    <2>4. S \ T = {}
      <3>1. S \ T \in SUBSET InUse /\ Descends(heap, S \ T)
        BY <2>2, <2>3 DEF Descends
      <3> QED
        BY <3>1 DEF AInv, Acyclic
    <2>5. e \notin S
      BY <1>11, <2>4
    <2>6. Descends(heap, S)
      BY <1>13, <1>15, <2>2, <2>5 DEF Descends
    <2> QED
      BY <2>2, <2>6 DEF AInv, Acyclic
  <1>16. Acyclic'
    BY <1>12, <1>15 DEF Acyclic
  <1>17. ASSUME NEW a \in InUse \cup {c}, ref_cnt'[a] = 0
         PROVE  heap'[a].type = "leaf"
    <2>1. CASE a = c
      BY <1>7, <2>1
    <2>2. CASE a # c
      <3>1. a \in InUse /\ a \in DOMAIN heap
        BY <1>12, <2>2
      <3>2. ref_cnt[a] \in Nat /\ ref_cnt'[a] = ref_cnt[a] + Is(IMM, a) + Is(v, a)
        BY <1>8, <3>1, Basics DEF CountsBoth
      <3>3. ref_cnt[a] = 0
        BY <1>17, <3>2 DEF Is
      <3>4. heap'[a].type = heap[a].type
        BY <1>6, <1>9, <3>1
      <3> QED
        BY <3>1, <3>3, <3>4 DEF AInv, NamesUncounted
    <2> QED
      BY <2>1, <2>2
  <1>18. NamesUncounted'
    BY <1>12, <1>17 DEF NamesUncounted
  <1> QED
    BY <1>16, <1>18 DEF AInv

LEMMA InitAInv == Init => AInv
  <1> SUFFICES ASSUME Init PROVE AInv
    OBVIOUS
  <1>1. InUse = {}
    BY DEF Init, BaseInit, Released, InUse
  <1> QED
    BY <1>1 DEF AInv, Acyclic, NamesUncounted

LEMMA NextAInv == IInv /\ AInv /\ [Next]_vars => AInv'
  <1> SUFFICES ASSUME IInv, AInv, [Next]_vars PROVE AInv'
    OBVIOUS
  <1>1. ASSUME NEW i \in Roots, NEW v \in Held, Store(i, v) PROVE AInv'
    BY <1>1, StoreAcyclic
  <1>2. ASSUME NEW r \in Requests, Malloc(r) PROVE AInv'
    BY <1>2, MallocAcyclic
  <1>3. ASSUME heap' = heap, ref_cnt' = ref_cnt PROVE AInv'
    BY <1>3 DEF AInv, Acyclic, NamesUncounted, InUse, Released
  <1>4. ASSUME NEW i \in Roots, NEW j \in Roots, NEW s \in LeafSizes, SetKnown(i, j, s)
        PROVE  AInv'
    BY <1>4, SetKnownAcyclic
  <1>5. CASE DecrementCount
    BY <1>5, DecrementCountAcyclic
  <1>6. CASE Reclaim
    BY <1>6, ReclaimAcyclic
  <1>7. CASE PutBack
    BY <1>7, PutBackAcyclic
  <1>8. ASSUME NEW r \in Requests, Exhausted(r) PROVE AInv'
    BY <1>3, <1>8 DEF Exhausted, countVars
  <1>9. CASE UNCHANGED vars
    BY <1>3, <1>9 DEF vars
  <1>10. CASE ReclaimNamed
    BY <1>3, <1>10 DEF ReclaimNamed, countVars
  <1>11. ASSUME NEW i \in Roots, NEW j \in Roots, Srot(i, j) PROVE AInv'
    BY <1>3, <1>11 DEF Srot
  <1>12. ASSUME NEW i \in Roots, DropSlot(i) PROVE AInv'
    BY <1>3, <1>12 DEF DropSlot
  <1> QED
    BY <1>1, <1>2, <1>4, <1>5, <1>6, <1>7, <1>8, <1>9, <1>10, <1>11, <1>12
       DEF Next, Release, Terminated

\* What the roots reach holds what it refers to.
LEMMA LiveHoldsFields ==
  ASSUME IInv, InUse = DOMAIN heap
  PROVE  /\ \A i \in Roots : CELL_P(root[i]) => root[i] \in Live
         /\ \A b \in Live : \A v \in Fields(heap[b]) : CELL_P(v) => v \in Live
  <1>1. ASSUME NEW i \in Roots, CELL_P(root[i])
        PROVE  root[i] \in Live
    <2>1. root[i] \in DOMAIN heap
      BY <1>1 DEF IInv, RefsInUse
    <2> QED
      BY <1>1, <2>1 DEF Live, ClosedFromRoots
  <1>2. ASSUME NEW b \in Live, NEW v \in Fields(heap[b]), CELL_P(v)
        PROVE  v \in Live
    <2>1. v \in DOMAIN heap
      BY <1>2 DEF IInv, RefsInUse, Live
    <2>2. ASSUME NEW S \in SUBSET DOMAIN heap, ClosedFromRoots(S)
          PROVE  v \in S
      BY <1>2, <2>2 DEF Live, ClosedFromRoots
    <2> QED
      BY <2>1, <2>2 DEF Live
  <1> QED
    BY <1>1, <1>2

\* A cell reaches itself, and what its fields refer to reaches no more than it.
LEMMA ReachedFacts ==
  ASSUME NEW b, CELL_P(b)
  PROVE  /\ b \in DOMAIN heap => b \in ReachedFrom(b)
         /\ \A x \in ReachedFrom(b) : \A v \in Fields(heap[x]) :
              CELL_P(v) /\ v \in DOMAIN heap => v \in ReachedFrom(b)
  BY DEF ReachedFrom

\* When no release is running, whatever no root reaches has been given back, but
\* for the strings that set_var makes for known names and never counts, and for
\* what is reached from a cell that execute has dropped from the stack.
THEOREM OnlyForgottenIsLost == Spec => []OnlyForgottenLeak
  <1>1. ASSUME IInv, AInv PROVE OnlyForgottenLeak
    <2> DEFINE G == DOMAIN heap \ Live
               L(a) == \E b \in G : drift[b] > 0 /\ a \in ReachedFrom(b)
               S == {a \in G : ref_cnt[a] # 0 /\ ~L(a)}
               w == Cars(heap, InUse)
               y == Cdrs(heap, InUse)
    <2> SUFFICES ASSUME Quiet
                 PROVE  \A a \in G : (heap[a].type = "leaf" /\ ref_cnt[a] = 0) \/ L(a)
      BY DEF OnlyForgottenLeak
    <2>1. release = <<>>
      BY DEF Quiet
    <2>2. InUse = DOMAIN heap
      <3>1. \A a \in Nat : a \notin Released
        BY <1>1, <2>1, NoTasks DEF IInv, PutOnce
      <3> QED
        BY <1>1, <3>1 DEF IInv, HeapOK, InUse
    <2>3. /\ \A i \in Roots : CELL_P(root[i]) => root[i] \in Live
          /\ \A b \in Live : \A v \in Fields(heap[b]) : CELL_P(v) => v \in Live
      BY <1>1, <2>2, LiveHoldsFields
    <2>4. ASSUME NEW a \in G, NEW b \in G, a \in Fields(heap[b]), ~L(a)
          PROVE  ~L(b)
      <3>1. ASSUME NEW c \in G, drift[c] > 0, b \in ReachedFrom(c)
            PROVE  FALSE
        <4>1. CELL_P(c) /\ CELL_P(a)
          BY <1>1, <2>2, Basics, ImmAssumption DEF CELL_P
        <4>2. a \in ReachedFrom(c)
          BY <2>4, <3>1, <4>1, ReachedFacts
        <4> QED
          BY <2>4, <3>1, <4>2
      <3> QED
        BY <3>1
    <2>5. ASSUME NEW a \in G, ref_cnt[a] # 0, ~L(a)
          PROVE  \E b \in G : ref_cnt[b] # 0 /\ ~L(b) /\ a \in Fields(heap[b])
      <3>1. a \in InUse /\ a \in Nat /\ a \notin Live /\ CELL_P(a)
        BY <1>1, <2>2, Basics, ImmAssumption DEF CELL_P
      <3>2. ~(drift[a] > 0)
        <4>1. a \in ReachedFrom(a)
          BY <3>1, ReachedFacts
        <4> QED
          BY <2>5, <4>1
      <3>3. Names(a) > 0
        <4>1. Balanced(ref_cnt[a], Names(a), drift[a])
          BY <1>1, <3>1 DEF IInv, Exact
        <4>2. ref_cnt[a] \in Nat /\ Names(a) \in Nat /\ drift[a] \in Int
          BY <1>1, <3>1, Basics
        <4> QED
          BY <2>5, <3>2, <4>1, <4>2 DEF Balanced
      <3>4. /\ DOMAIN root = Roots /\ IsFiniteSet(DOMAIN root)
            /\ DOMAIN w = InUse /\ DOMAIN y = InUse /\ IsFiniteSet(InUse)
            /\ \A b \in InUse : w[b] = heap[b].car /\ y[b] = heap[b].cdr
            /\ Refs(w, a) \in Nat /\ Refs(y, a) \in Nat
        BY <1>1, Basics DEF Cars, Cdrs
      <3>5. Names(a) = Refs(root, a) + Refs(w, a) + Refs(y, a) + Refs(release, Decrement(a))
        BY DEF Names, NamesIn
      <3> HIDE DEF w, y, L
      <3>6. Refs(root, a) = 0
        <4>1. \A i \in Roots : root[i] # a
          BY <2>3, <3>1
        <4> QED
          BY <3>4, <4>1, RefsType
      <3>7. Refs(release, Decrement(a)) = 0
        BY <2>1, NoTasks
      <3>8. Refs(w, a) # 0 \/ Refs(y, a) # 0
        BY <3>3, <3>4, <3>5, <3>6, <3>7
      <3>9. (\E b \in InUse : w[b] = a) \/ (\E b \in InUse : y[b] = a)
        <4>1. IsFiniteSet(DOMAIN w) /\ IsFiniteSet(DOMAIN y)
          BY <3>4
        <4>2. Refs(w, a) = 0 <=> \A b \in DOMAIN w : w[b] # a
          BY <4>1, RefsType
        <4>3. Refs(y, a) = 0 <=> \A b \in DOMAIN y : y[b] # a
          BY <4>1, RefsType
        <4> QED
          BY <3>4, <3>8, <4>2, <4>3
      <3>10. PICK b \in InUse : a \in Fields(heap[b])
        BY <3>4, <3>9 DEF Fields
      <3>11. b \in G
        BY <2>2, <2>3, <3>1, <3>10
      <3>12. ref_cnt[b] # 0
        <4>1. heap[b] \in Object
          BY <1>1, <2>2 DEF IInv, HeapOK
        <4>2. heap[b].type # "leaf"
          BY <3>1, <3>10, <4>1 DEF Object, Fields, CELL_P
        <4> QED
          BY <1>1, <4>2 DEF AInv, NamesUncounted
      <3>13. ~L(b)
        BY <2>4, <2>5, <3>10, <3>11
      <3> QED
        BY <3>10, <3>11, <3>12, <3>13
    <2> HIDE DEF w, y, L
    <2>6. S = {}
      <3>1. S \in SUBSET InUse /\ Descends(heap, S)
        BY <2>2, <2>5 DEF Descends
      <3> HIDE DEF S
      <3> QED
        BY <1>1, <3>1 DEF AInv, Acyclic
    <2> QED
      BY <1>1, <2>2, <2>6 DEF AInv, NamesUncounted
  <1>2. IInv /\ AInv => OnlyForgottenLeak
    BY <1>1
  <1> QED
    BY <1>2, InitIInv, NextIInv, InitAInv, NextAInv, PTL DEF Spec
=============================================================================
