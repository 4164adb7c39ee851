---------------------------- MODULE MarkSweepGC ----------------------------
(***************************************************************************)
(* gc/marksweep.c, the default collector: cells are cut from a free list;  *)
(* when no chunk fits, the cells the roots reach are marked and one pass   *)
(* over all headers rebuilds the list from what is not marked.  Nothing    *)
(* moves.                                                                  *)
(*                                                                         *)
(* Cells and free chunks tile the arena and keep their size in the same    *)
(* place.  The mark bit, though, falls on bytes of free_chunk that nothing *)
(* writes: the header of a chunk left over from a split shows whatever was *)
(* there, and the sweep reads it.                                          *)
(***************************************************************************)
EXTENDS Marking, FreeList

CONSTANT HeaderSize     \* sizeof(marksweep_gc_header)

ASSUME HeaderAssumption == HeaderSize \in Nat \ {0}

VARIABLES chunks,       \* chunks[c]: the size of the free chunk at c
          freelist,     \* the chunks on the free list
          after,        \* where the collection in progress returns to
          scan,         \* the header the sweep is at
          chunk_top     \* the last chunk of the list being rebuilt, or NULL

sweepVars == <<chunks, freelist, after, scan, chunk_top>>
vars      == <<root, heap, pc, req, k, g_GC_stress, marked, mark_stack, chunks,
               freelist, after, scan, chunk_top>>

AllocateSize(size) == ((HeaderSize + size + 3) \div 4) * 4

\* A free_chunk, an int and a pointer, fits in the header and the body of the
\* least cell, a string without characters; the arena begins as one.
ASSUME ChunkAssumption == /\ \A size \in LeafSizes \cup {CellSize} :
                               FreeChunkSize <= AllocateSize(size)
                          /\ FreeChunkSize <= Limit - Base

-----------------------------------------------------------------------------
(* gc_malloc_marksweep *)

Fitting(r) == GetFreeChunk(freelist, chunks, AllocateSize(r.size))

\* Under -GC_STRESS: collect unless the first chunk is the whole arena.
StressGC == /\ g_GC_stress
            /\ freelist # <<>>
            /\ chunks[freelist[1]] < Limit - Base

\* Mutant: the mark bit of the new cell is not cleared.
MarksStale(got) == {marked \cup stale : stale \in SUBSET ({got.rest} \ {NULL})}

\* The marks there may be once a chunk is taken: the new cell's is cleared, the
\* rest of a split shows a set bit or not.
MarksAfter(got) ==
  {(marked \ {got.chunk}) \cup stale : stale \in SUBSET ({got.rest} \ {NULL})}

\* The chunk becomes the cell, all of it when it was not split.
Allocate(r) ==
  LET got == Fitting(r) IN
  /\ got.chunk # NULL
  /\ heap' = Overwrite(heap, got.chunk, NewObject(r, got.size))
  /\ chunks' = got.sizes
  /\ freelist' = got.list
  /\ marked' \in MarksAfter(got)
  /\ root' = [root EXCEPT ![r.dst] = got.chunk]
  /\ pc' = "run"
  /\ req' = NoReq
  /\ after' = "run"
  /\ UNCHANGED <<k, g_GC_stress, mark_stack, scan, chunk_top>>

MallocFast(r) == /\ pc = "run"
                 /\ ~StressGC
                 /\ Allocate(r)

\* gc_start, to come back to step ret of gc_malloc_marksweep.
StartGC(r, ret) == /\ pc' = "roots"
                   /\ req' = r
                   /\ after' = ret
                   /\ k' = 1
                   /\ mark_stack' = <<>>
                   /\ UNCHANGED <<root, heap, g_GC_stress, marked, chunks,
                                  freelist, scan, chunk_top>>

GCStart(r) == /\ pc = "run"
              /\ \/ StressGC /\ StartGC(r, "alloc")
                 \/ ~StressGC /\ Fitting(r).chunk = NULL /\ StartGC(r, "retry")

\* After the collection of -GC_STRESS: a search that may lead to another one.
MallocAfterStress == /\ pc = "alloc"
                     /\ Allocate(req)

GCAgain == /\ pc = "alloc"
           /\ Fitting(req).chunk = NULL
           /\ StartGC(req, "retry")

MallocRetry == /\ pc = "retry"
               /\ Allocate(req)

Exhausted == /\ pc = "retry"
             /\ Fitting(req).chunk = NULL
             /\ pc' = "exited"
             /\ UNCHANGED <<root, heap, req, k, g_GC_stress, marked, mark_stack,
                            sweepVars>>

-----------------------------------------------------------------------------
(* sweep, one header at a time *)

SizeAt(a) == IF a \in DOMAIN heap THEN heap[a].size ELSE chunks[a]

SweepStart == /\ Marked
              /\ pc' = "sweep"
              /\ scan' = Base
              /\ chunk_top' = NULL
              /\ UNCHANGED <<root, heap, req, k, g_GC_stress, marked, mark_stack,
                             chunks, freelist, after>>

\* Mutant: the marks are left for the next collection.
SweepMarkedKeep ==
  /\ pc = "sweep" /\ scan < Limit /\ scan \in marked
  /\ scan' = scan + SizeAt(scan)
  /\ UNCHANGED <<root, heap, pc, req, k, g_GC_stress, marked, mark_stack, chunks,
                 freelist, after, chunk_top>>

\* A marked header, a live cell or a chunk with a stale bit, is passed over.
SweepMarked == /\ pc = "sweep" /\ scan < Limit /\ scan \in marked
               /\ marked' = marked \ {scan}
               /\ scan' = scan + SizeAt(scan)
               /\ UNCHANGED <<root, heap, pc, req, k, g_GC_stress, mark_stack,
                              chunks, freelist, after, chunk_top>>

\* Mutant: neighbours are not joined.
GrowsNever(c) == FALSE

\* The header at scan follows the last chunk of the new list.
Grows(c) == c # NULL /\ c + chunks[c] = scan

\* An unmarked one starts the new list, grows its last chunk, or is appended.
SweepFree ==
  LET size   == SizeAt(scan)
      starts == chunk_top = NULL
      grows  == Grows(chunk_top)
  IN  /\ pc = "sweep" /\ scan < Limit /\ scan \notin marked
      /\ heap' = [x \in DOMAIN heap \ {scan} |-> heap[x]]
      /\ chunks' = IF grows
                   THEN WithSize(Drop(chunks, scan), chunk_top, chunks[chunk_top] + size)
                   ELSE WithSize(chunks, scan, size)
      /\ freelist' = IF starts THEN <<scan>>
                     ELSE IF grows THEN freelist ELSE Append(freelist, scan)
      /\ chunk_top' = IF grows THEN chunk_top ELSE scan
      /\ scan' = scan + size
      /\ UNCHANGED <<root, pc, req, k, g_GC_stress, marked, mark_stack, after>>

SweepEnd == /\ pc = "sweep" /\ scan >= Limit
            /\ pc' = after
            /\ scan' = Base
            /\ chunk_top' = NULL
            /\ UNCHANGED <<root, heap, req, k, g_GC_stress, marked, mark_stack,
                           chunks, freelist, after>>

-----------------------------------------------------------------------------
\* The mark bit of the first chunk, too, is what malloc left there.
Init == /\ BaseInit
        /\ marked \in SUBSET {Base}
        /\ mark_stack = <<>>
        /\ chunks = [c \in {Base} |-> Limit - Base]
        /\ freelist = <<Base>>
        /\ after = "run"
        /\ scan = Base
        /\ chunk_top = NULL

Collector == \/ MarkPhase /\ UNCHANGED sweepVars
             \/ SweepStart \/ SweepMarked \/ SweepFree \/ SweepEnd
             \/ MallocAfterStress \/ GCAgain \/ MallocRetry \/ Exhausted

Terminated == pc \in {"exited", "overflowed"} /\ UNCHANGED vars

Next == \/ Client /\ UNCHANGED <<marked, mark_stack, sweepVars>>
        \/ \E r \in Requests : MallocFast(r) \/ GCStart(r)
        \/ Collector
        \/ Terminated

Spec == Init /\ [][Next]_vars

-----------------------------------------------------------------------------
(* Properties. *)

TypeOK ==
  /\ root \in [Roots -> Value]
  /\ heap \in [DOMAIN heap -> Object]
  /\ chunks \in [DOMAIN chunks -> Nat]
  /\ DOMAIN heap \cup DOMAIN chunks \subseteq Nat
  /\ freelist \in Seq(DOMAIN chunks)
  /\ marked \subseteq DOMAIN heap \cup DOMAIN chunks
  /\ mark_stack \in Seq(DOMAIN heap)
  /\ pc \in {"run", "roots", "mark", "sweep", "alloc", "retry", "exited", "overflowed"}
  /\ after \in {"run", "alloc", "retry"}
  /\ req \in Requests \cup {NoReq}
  /\ k \in 1 .. (NRoots + 1)
  /\ g_GC_stress \in BOOLEAN
  /\ scan \in Nat
  /\ chunk_top \in DOMAIN chunks \cup {NULL}

\* The cells the sweep has kept or will keep; outside it, all of them.
Kept == {a \in DOMAIN heap : pc = "sweep" => a \in marked \/ a < scan}

\* No live cell is freed: references of the roots, and of every cell that is
\* kept, lead to cells that are kept.
NoDangling == ClosedFromRoots(Kept)

\* Cells and chunks tile the arena: the sweep, which steps from header to
\* header by size, never loses its footing.
Blocks == DOMAIN heap \cup DOMAIN chunks

ArenaTiled ==
  /\ DOMAIN heap \cap DOMAIN chunks = {}
  /\ \A a \in Blocks : SizeAt(a) > 0 /\ (a + SizeAt(a) = Limit \/ a + SizeAt(a) \in Blocks)
  /\ Base \in Blocks
  /\ \A a, b \in Blocks : a < b => a + SizeAt(a) <= b

\* Outside the sweep the list is in address order, lists chunks only, each once
\* and with no overlap, and each large enough for the links of the list.
FreeListSound ==
  pc # "sweep" => /\ Ordered(freelist, chunks)
                  /\ \A c \in Elems(freelist) : chunks[c] >= FreeChunkSize

\* The heap holds together: no live cell is freed, cells and chunks tile the
\* arena also in the middle of a sweep, and the free list lists free bytes only.
HeapSound == TypeOK /\ NoDangling /\ ArenaTiled /\ FreeListSound

\* Between collections no cell is marked.  A stale mark would hide a cell, and
\* all it alone refers to, from the next mark phase.
MarksClear == pc \in {"run", "alloc", "retry"} => marked \cap DOMAIN heap = {}

\* A stale mark bit costs a chunk its place on the list for one collection
\* only: a chunk that is off the list is unmarked, so the next sweep finds it.
LostChunksReturn ==
  pc \in {"run", "alloc", "retry"} => (DOMAIN chunks \ Elems(freelist)) \cap marked = {}

\* A collection keeps no cell the roots do not reach, and "heap exhausted" means
\* that no stretch of the bytes on the free list could hold the request:
\* adjacent free chunks have been joined.
ExhaustedOnlyWhenFragmented ==
  /\ pc \in {"alloc", "retry", "exited"} => Live = DOMAIN heap
  /\ pc = "exited" =>
       \A a \in Base .. (Limit - AllocateSize(req.size)) :
         ~((a .. (a + AllocateSize(req.size) - 1)) \subseteq Bytes(freelist, chunks))

\* The cells are where the abstract memory has them; those that are not marked
\* when the sweep begins are gone at once.
absObjs == [a \in Kept |->
             [type |-> heap[a].type, car |-> heap[a].car, cdr |-> heap[a].cdr]]

absRoot == root

Memory == INSTANCE ObjectMemory WITH root <- absRoot, objs <- absObjs

\* Behind gc_malloc the graph of cells keeps its shape and its contents.
ImplementsObjectMemory == Memory!Spec
=============================================================================
