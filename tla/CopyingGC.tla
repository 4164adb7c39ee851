----------------------------- MODULE CopyingGC -----------------------------
(***************************************************************************)
(* gc/copy.c: Cheney's collector.  Cells are allocated by moving top up    *)
(* from_space; when it is full the cells the roots reach are copied to     *)
(* to_space, the copies are scanned in address order, and the two spaces   *)
(* change roles.  A step of a collection handles one pointer.              *)
(***************************************************************************)
EXTENDS GCBase, FiniteSets

CONSTANT HeaderSize     \* sizeof(copy_header)

ASSUME HeaderAssumption == HeaderSize \in Nat \ {0}

\* Each half of aq_heap is a whole number of words: without this a cell that
\* passes IS_ALLOCATABLE could end beyond its space once rounded up.
ASSUME AlignedHeapAssumption == HeapSize % 8 = 0

VARIABLES forwarding,   \* header field: the copy of a cell, or the cell itself
          from_space,
          to_space,
          top,          \* first unused byte of the space being filled
          scanned,      \* the copy being scanned
          field         \* which of its pointers trace_object takes next

copyVars == <<forwarding, from_space, to_space, top, scanned, field>>
vars     == <<root, heap, pc, req, k, g_GC_stress, forwarding, from_space,
              to_space, top, scanned, field>>

Half == HeapSize \div 2

\* Mutant: the header is forgotten.
AllocatableNoHeader(size) == top + size < from_space + Half

IS_ALLOCATABLE(size) == top + HeaderSize + size < from_space + Half

\* Mutant: the size is not rounded up to a word.
AllocateSizeUnrounded(size) == HeaderSize + size

AllocateSize(size) == ((HeaderSize + size + 3) \div 4) * 4

InFromSpace(a) == from_space <= a /\ a < from_space + Half
IS_COPIED(a)   == forwarding[a] # a \/ ~InFromSpace(a)

-----------------------------------------------------------------------------
(* copy_object(v): where v ends up and what the call does to the heap.     *)

Stays(v) == ~CELL_P(v) \/ IS_COPIED(v)

CopyOf(v) == IF ~CELL_P(v) THEN IMM
             ELSE IF IS_COPIED(v) THEN forwarding[v] ELSE top

\* Mutant: memcpy leaves out the last word of the cell.
EvacHeapShort(v) ==
  IF Stays(v) THEN heap ELSE Overwrite(heap, top, [heap[v] EXCEPT !.cdr = IMM])

EvacHeap(v) == IF Stays(v) THEN heap ELSE Overwrite(heap, top, heap[v])

EvacForwarding(v) ==
  IF Stays(v) THEN forwarding
  ELSE [x \in DOMAIN EvacHeap(v) |-> IF x \in {v, top} THEN top ELSE forwarding[x]]

EvacTop(v) == IF Stays(v) THEN top ELSE top + heap[v].size

-----------------------------------------------------------------------------
(* gc_malloc_copy *)

\* The object is placed at top and its reference stored in the caller's slot.
Allocate(r) ==
  LET size == AllocateSize(r.size) IN
  /\ heap' = Overwrite(heap, top, NewObject(r, size))
  /\ forwarding' = [x \in DOMAIN heap' |-> IF x = top THEN top ELSE forwarding[x]]
  /\ top' = top + size
  /\ root' = [root EXCEPT ![r.dst] = top]
  /\ pc' = "run"
  /\ req' = NoReq
  /\ UNCHANGED <<k, g_GC_stress, from_space, to_space, scanned, field>>

NeedsGC(size) == g_GC_stress \/ ~IS_ALLOCATABLE(size)

MallocFast(r) == /\ pc = "run"
                 /\ ~NeedsGC(r.size)
                 /\ Allocate(r)

\* gc_start_copy begins: top goes to to_space, the roots are traced first.
GCStart(r) == /\ pc = "run"
              /\ NeedsGC(r.size)
              /\ pc' = "roots"
              /\ req' = r
              /\ k' = 1
              /\ top' = to_space
              /\ UNCHANGED <<root, heap, g_GC_stress, forwarding, from_space,
                             to_space, scanned, field>>

\* After the collection: the allocation, or heap_exhausted_error and exit.
MallocRetry == /\ pc = "retry"
               /\ IS_ALLOCATABLE(req.size)
               /\ Allocate(req)

\* Mutant: the test before the collection, -GC_STRESS included, is repeated.
ExhaustedUnderStress == /\ pc = "retry"
                        /\ NeedsGC(req.size)
                        /\ pc' = "exited"
                        /\ UNCHANGED <<root, heap, req, k, g_GC_stress, copyVars>>

Exhausted == /\ pc = "retry"
             /\ ~IS_ALLOCATABLE(req.size)
             /\ pc' = "exited"
             /\ UNCHANGED <<root, heap, req, k, g_GC_stress, copyVars>>

-----------------------------------------------------------------------------
(* gc_start_copy *)

TraceRoot == /\ pc = "roots"
             /\ k <= NRoots
             /\ root' = [root EXCEPT ![k] = CopyOf(root[k])]
             /\ heap' = EvacHeap(root[k])
             /\ forwarding' = EvacForwarding(root[k])
             /\ top' = EvacTop(root[k])
             /\ k' = k + 1
             /\ UNCHANGED <<pc, req, g_GC_stress, from_space, to_space, scanned, field>>

\* Mutant: trace_roots stops before the last root.
RootsTracedEarly == /\ pc = "roots"
                    /\ k >= NRoots
                    /\ pc' = "scan"
                    /\ k' = 1
                    /\ scanned' = to_space
                    /\ field' = "car"
                    /\ UNCHANGED <<root, heap, req, g_GC_stress, forwarding,
                                   from_space, to_space, top>>

RootsTraced == /\ pc = "roots"
               /\ k > NRoots
               /\ pc' = "scan"
               /\ k' = 1
               /\ scanned' = to_space
               /\ field' = "car"
               /\ UNCHANGED <<root, heap, req, g_GC_stress, forwarding,
                              from_space, to_space, top>>

ScanCar == LET v == heap[scanned].car IN
           /\ pc = "scan" /\ scanned < top
           /\ heap[scanned].type = "pair" /\ field = "car"
           /\ heap' = [EvacHeap(v) EXCEPT ![scanned].car = CopyOf(v)]
           /\ forwarding' = EvacForwarding(v)
           /\ top' = EvacTop(v)
           /\ field' = "cdr"
           /\ UNCHANGED <<root, pc, req, k, g_GC_stress, from_space, to_space, scanned>>

ScanCdr == LET v == heap[scanned].cdr IN
           /\ pc = "scan" /\ scanned < top
           /\ heap[scanned].type = "pair" /\ field = "cdr"
           /\ heap' = [EvacHeap(v) EXCEPT ![scanned].cdr = CopyOf(v)]
           /\ forwarding' = EvacForwarding(v)
           /\ top' = EvacTop(v)
           /\ field' = "car"
           /\ scanned' = scanned + heap[scanned].size
           /\ UNCHANGED <<root, pc, req, k, g_GC_stress, from_space, to_space>>

\* Mutant: the scan does not advance over a leaf.
ScanLeafStuck == /\ pc = "scan" /\ scanned < top
                 /\ heap[scanned].type = "leaf"
                 /\ UNCHANGED vars

ScanLeaf == /\ pc = "scan" /\ scanned < top
            /\ heap[scanned].type = "leaf"
            /\ scanned' = scanned + heap[scanned].size
            /\ UNCHANGED <<root, heap, pc, req, k, g_GC_stress, forwarding,
                           from_space, to_space, top, field>>

\* The spaces change roles; whatever was left in from_space is gone.
Flip == LET survivors == {a \in DOMAIN heap : ~InFromSpace(a)} IN
        /\ pc = "scan" /\ scanned >= top
        /\ from_space' = to_space
        /\ to_space' = from_space
        /\ heap' = [a \in survivors |-> heap[a]]
        /\ forwarding' = [a \in survivors |-> forwarding[a]]
        /\ pc' = "retry"
        /\ scanned' = 0
        /\ UNCHANGED <<root, req, k, g_GC_stress, top, field>>

-----------------------------------------------------------------------------
Init == /\ BaseInit
        /\ forwarding = <<>>
        /\ from_space = 0
        /\ to_space = Half
        /\ top = 0
        /\ scanned = 0
        /\ field = "car"

\* The rest of gc_malloc, once it has decided to collect.
Collector == TraceRoot \/ RootsTraced \/ ScanCar \/ ScanCdr \/ ScanLeaf \/ Flip
               \/ MallocRetry \/ Exhausted

\* exit(-1): the process is gone.
Terminated == pc = "exited" /\ UNCHANGED vars

Next == \/ Client /\ UNCHANGED copyVars
        \/ \E r \in Requests : MallocFast(r) \/ GCStart(r)
        \/ Collector
        \/ Terminated

Spec == Init /\ [][Next]_vars

\* gc_malloc is straight-line code of the only thread: it runs to its end.
FairSpec == Spec /\ WF_vars(Collector)

-----------------------------------------------------------------------------
(* Properties. *)

\* gc_start_copy is running.
Collecting == pc \in {"roots", "scan"}

TypeOK ==
  /\ root \in [Roots -> Value]
  /\ heap \in [DOMAIN heap -> Object]
  /\ forwarding \in [DOMAIN heap -> Nat]
  /\ DOMAIN heap \subseteq Nat
  /\ pc \in {"run", "roots", "scan", "retry", "exited"}
  /\ req \in Requests \cup {NoReq}
  /\ pc # "run" => req \in Requests
  /\ k \in 1 .. (NRoots + 1)
  /\ g_GC_stress \in BOOLEAN
  /\ {from_space, to_space} = {0, Half}
  /\ top \in Nat
  /\ scanned \in Nat
  /\ field \in {"car", "cdr"}

\* No reference is left behind: at every step, collecting or not, what a root
\* slot or a cell refers to is a cell that has not been overwritten or freed
\* (copy_and_update reaches every slot that survives).
NoDangling ==
  /\ \A i \in Roots : CELL_P(root[i]) => root[i] \in DOMAIN heap
  /\ \A a \in DOMAIN heap : \A v \in Fields(heap[a]) : CELL_P(v) => v \in DOMAIN heap

\* The space that starts at s, filled up to bound t, holds the cell at a.
Within(a, s, t) == s <= a /\ a + heap[a].size <= t

\* Nothing runs out of its space: allocation keeps to from_space though it
\* tests the size before rounding it, and the copies, which nobody tests, fit
\* in to_space.  No two cells overlap.
SpacesRespected ==
  /\ Disjoint(heap)
  /\ \A a \in DOMAIN heap : \/ Within(a, from_space, from_space + Half)
                            \/ Within(a, to_space, to_space + Half)
  /\ pc \in {"run", "retry", "exited"} =>
       \A a \in DOMAIN heap : Within(a, from_space, top)
  /\ pc \in {"roots", "scan"} =>
       /\ to_space <= top /\ top <= to_space + Half
       /\ \A a \in DOMAIN heap : ~InFromSpace(a) => Within(a, to_space, top)

\* Cheney's invariant: once trace_roots is over no root refers to from_space,
\* and no copy below scanned does, so nothing is lost when the spaces flip.
ScannedIsBlack ==
  pc = "scan" =>
    /\ \A i \in Roots : CELL_P(root[i]) => ~InFromSpace(root[i])
    /\ \A a \in DOMAIN heap :
         ~InFromSpace(a) /\ a < scanned =>
           \A v \in Fields(heap[a]) : CELL_P(v) => ~InFromSpace(v)

\* A collection keeps nothing the roots do not reach, and the program ends as
\* "heap exhausted" only when the bytes of the cells they reach and the request
\* with its header would leave not one byte of the half free: IS_ALLOCATABLE is a
\* strict <, which refuses a request that fits exactly.
ExhaustedOnlyWhenFull ==
  /\ pc \in {"retry", "exited"} => Live = DOMAIN heap
  /\ pc = "exited" =>
       Cardinality(UNION {Extent(heap, a) : a \in Live}) + HeaderSize + req.size >= Half

\* Every call of gc_malloc is answered: it returns a cell or ends the program.
Answered == pc = "roots" ~> pc \in {"run", "exited"}

-----------------------------------------------------------------------------
(* The inductive invariant behind the safety properties above.             *)

\* Cells are not empty, end on a word boundary and do not overlap.
Tiled(h) == /\ Disjoint(h)
            /\ \A a \in DOMAIN h : h[a].size > 0 /\ h[a].size % 4 = 0

\* Between collections the cells lie in from_space, below top.
Resting == /\ from_space <= top /\ top <= from_space + Half
           /\ \A a \in DOMAIN heap : Within(a, from_space, top) /\ forwarding[a] = a

\* During one, those that are not in from_space lie in to_space, below t.
Parted(h, t) ==
  /\ to_space <= t /\ t <= to_space + Half
  /\ \A a \in DOMAIN h :
       IF InFromSpace(a) THEN a + h[a].size <= from_space + Half
       ELSE to_space <= a /\ a + h[a].size <= t

\* The copies follow each other without a gap, so the scan lands on headers.
Gapless(h, t) ==
  /\ to_space = t \/ to_space \in DOMAIN h
  /\ \A a \in DOMAIN h : ~InFromSpace(a) =>
       a + h[a].size = t \/ a + h[a].size \in DOMAIN h

\* A header forwards to the cell itself or, from from_space, to a copy.
Forwarded(h, f) ==
  \A a \in DOMAIN h :
    /\ f[a] \in DOMAIN h
    /\ f[a] # a => InFromSpace(a) /\ ~InFromSpace(f[a])

\* The bytes of from_space that may still have to be copied.
Uncopied(h, f) ==
  UNION {Extent(h, a) : a \in {x \in DOMAIN h : InFromSpace(x) /\ f[x] = x}}

\* What is left to copy fits in what is left of to_space.
Room(h, f, t) == (t - to_space) + Cardinality(Uncopied(h, f)) <= Half

\* How far trace_roots and the scan have come.
Traced ==
  /\ pc = "roots" =>
       \A i \in Roots : i < k /\ CELL_P(root[i]) => ~InFromSpace(root[i])
  /\ pc = "scan" =>
       /\ to_space <= scanned /\ scanned <= top
       /\ scanned = top \/ scanned \in DOMAIN heap
       /\ field = "cdr" =>
            /\ scanned < top
            /\ heap[scanned].type = "pair"
            /\ CELL_P(heap[scanned].car) => ~InFromSpace(heap[scanned].car)

IInv == /\ TypeOK
        /\ NoDangling
        /\ top % 4 = 0
        /\ Tiled(heap)
        /\ ~Collecting => Resting
        /\ Collecting => /\ Parted(heap, top)
                         /\ Gapless(heap, top)
                         /\ Forwarded(heap, forwarding)
                         /\ Room(heap, forwarding, top)
        /\ Traced
        /\ ScannedIsBlack

-----------------------------------------------------------------------------
(* The abstract memory this collector implements: while a collection runs,
   the cells are the ones in from_space, whose bodies copying leaves intact,
   and a root that already refers to a copy stands for the original.       *)

Original(v) ==
  IF Collecting /\ CELL_P(v) /\ ~InFromSpace(v)
  THEN CHOOSE a \in DOMAIN heap : InFromSpace(a) /\ forwarding[a] = v
  ELSE v

Body(o) == [type |-> o.type, car |-> o.car, cdr |-> o.cdr]

absObjs == [a \in {x \in DOMAIN heap : Collecting => InFromSpace(x)} |-> Body(heap[a])]
absRoot == [i \in Roots |-> Original(root[i])]

Memory == INSTANCE ObjectMemory WITH root <- absRoot, objs <- absObjs

\* Behind gc_malloc the graph of cells keeps its shape and its contents:
\* collections only rename cells and drop unreachable ones.
ImplementsObjectMemory == Memory!Spec
=============================================================================
