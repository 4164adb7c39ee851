--------------------------- MODULE MarkCompactGC ---------------------------
(***************************************************************************)
(* gc/markcompact.c: cells are allocated by moving top up one arena; when  *)
(* it is full the cells the roots reach are marked, each gets the address  *)
(* it will slide down to, every reference is updated, and the cells slide. *)
(***************************************************************************)
EXTENDS Marking

CONSTANT HeaderSize     \* sizeof(markcompact_gc_header)

ASSUME HeaderAssumption == HeaderSize \in Nat \ {0}

\* The mark stack fits into aq_heap, and both are whole numbers of words.
ASSUME ArenaAssumption == Base <= Limit /\ Base % 4 = 0 /\ Limit % 4 = 0

VARIABLES forwarding,   \* header field: where the cell will slide to
          top,          \* first unused byte of the arena
          new_top,
          scanned       \* the header the current pass is at

compactVars == <<marked, mark_stack, forwarding, top, new_top, scanned>>
vars        == <<root, heap, pc, req, k, g_GC_stress, marked, mark_stack,
                 forwarding, top, new_top, scanned>>

\* Mutant: the limit is taken from the start of the arena, not of aq_heap.
AllocatableShort(size) == top + HeaderSize + size < Limit - Base

IS_ALLOCATABLE(size) == top + HeaderSize + size < Limit

AllocateSize(size) == ((HeaderSize + size + 3) \div 4) * 4

-----------------------------------------------------------------------------
(* gc_malloc_markcompact *)

\* The marks once a cell is allocated at a.
MarksAfter(a) == marked \ {a}

\* The new cell forwards to itself and is not marked.
Allocate(r) ==
  LET size == AllocateSize(r.size) IN
  /\ heap' = Overwrite(heap, top, NewObject(r, size))
  /\ forwarding' = [x \in DOMAIN heap' |-> IF x = top THEN top ELSE forwarding[x]]
  /\ marked' = MarksAfter(top)
  /\ top' = top + size
  /\ root' = [root EXCEPT ![r.dst] = top]
  /\ pc' = "run"
  /\ req' = NoReq
  /\ UNCHANGED <<k, g_GC_stress, mark_stack, new_top, scanned>>

NeedsGC(size) == g_GC_stress \/ ~IS_ALLOCATABLE(size)

MallocFast(r) == /\ pc = "run"
                 /\ ~NeedsGC(r.size)
                 /\ Allocate(r)

GCStart(r) == /\ pc = "run"
              /\ NeedsGC(r.size)
              /\ pc' = "roots"
              /\ req' = r
              /\ k' = 1
              /\ mark_stack' = <<>>
              /\ UNCHANGED <<root, heap, g_GC_stress, marked, forwarding, top,
                             new_top, scanned>>

MallocRetry == /\ pc = "retry"
               /\ IS_ALLOCATABLE(req.size)
               /\ Allocate(req)

Exhausted == /\ pc = "retry"
             /\ ~IS_ALLOCATABLE(req.size)
             /\ pc' = "exited"
             /\ UNCHANGED <<root, heap, req, k, g_GC_stress, compactVars>>

-----------------------------------------------------------------------------
(* compact: three passes over the arena, one header at a time.             *)

CalcStart == /\ Marked
             /\ pc' = "calc"
             /\ scanned' = Base
             /\ new_top' = Base
             /\ UNCHANGED <<root, heap, req, k, g_GC_stress, marked, mark_stack,
                            forwarding, top>>

\* Mutant: a dead cell keeps its room.
NewTopLoose(a) == new_top + heap[a].size

\* new_top once the cell at a has its address, if it needs one.
NewTop(a) == IF a \in marked THEN new_top + heap[a].size ELSE new_top

\* calc_new_address
CalcNewAddress ==
  /\ pc = "calc" /\ scanned < top
  /\ forwarding' = IF scanned \in marked THEN [forwarding EXCEPT ![scanned] = new_top]
                   ELSE forwarding
  /\ new_top' = NewTop(scanned)
  /\ scanned' = scanned + heap[scanned].size
  /\ UNCHANGED <<root, heap, pc, req, k, g_GC_stress, marked, mark_stack, top>>

UpdateStart == /\ pc = "calc" /\ scanned >= top
               /\ pc' = "updroots"
               /\ scanned' = Base
               /\ k' = 1
               /\ UNCHANGED <<root, heap, req, g_GC_stress, marked, mark_stack,
                              forwarding, top, new_top>>

Updated(v) == IF CELL_P(v) THEN forwarding[v] ELSE v

\* Mutant: the cdr is left as it is.
UpdatedCar(o) == [o EXCEPT !.car = Updated(@)]

\* trace_object(cell, update)
UpdatedFields(o) == [o EXCEPT !.car = Updated(@), !.cdr = Updated(@)]

\* update_pointer: trace_roots(update), then the fields of the marked cells.
UpdateRoot == /\ pc = "updroots" /\ k <= NRoots
              /\ root' = [root EXCEPT ![k] = Updated(@)]
              /\ k' = k + 1
              /\ UNCHANGED <<heap, pc, req, g_GC_stress, compactVars>>

RootsUpdated == /\ pc = "updroots" /\ k > NRoots
                /\ pc' = "update"
                /\ k' = 1
                /\ UNCHANGED <<root, heap, req, g_GC_stress, compactVars>>

UpdateCell ==
  /\ pc = "update" /\ scanned < top
  /\ heap' = IF scanned \in marked THEN [heap EXCEPT ![scanned] = UpdatedFields(@)]
             ELSE heap
  /\ scanned' = scanned + heap[scanned].size
  /\ UNCHANGED <<root, pc, req, k, g_GC_stress, marked, mark_stack, forwarding,
                 top, new_top>>

SlideStart == /\ pc = "update" /\ scanned >= top
              /\ pc' = "slide"
              /\ scanned' = Base
              /\ UNCHANGED <<root, heap, req, k, g_GC_stress, marked, mark_stack,
                             forwarding, top, new_top>>

\* Removing a cell from the heap: its bytes may be reused.
Without(a) == [x \in DOMAIN heap \ {a} |-> heap[x]]

\* slide, at a marked header: CLEAR_MARK and move_object.  Source and target
\* of the memcpy may overlap; it is taken to copy forwards.
SlideCell ==
  LET dst == forwarding[scanned] IN
  /\ pc = "slide" /\ scanned < top /\ scanned \in marked
  /\ marked' = marked \ {scanned}
  /\ heap' = Overwrite(Without(scanned), dst, heap[scanned])
  /\ forwarding' = [x \in DOMAIN heap' |-> IF x = dst THEN dst ELSE forwarding[x]]
  /\ scanned' = scanned + heap[scanned].size
  /\ UNCHANGED <<root, pc, req, k, g_GC_stress, mark_stack, top, new_top>>

\* slide, at the header of a dead cell.
SlideDead ==
  /\ pc = "slide" /\ scanned < top /\ scanned \notin marked
  /\ heap' = Without(scanned)
  /\ forwarding' = [x \in DOMAIN heap' |-> forwarding[x]]
  /\ scanned' = scanned + heap[scanned].size
  /\ UNCHANGED <<root, pc, req, k, g_GC_stress, marked, mark_stack, top, new_top>>

SlideEnd == /\ pc = "slide" /\ scanned >= top
            /\ top' = new_top
            /\ pc' = "retry"
            /\ scanned' = Base
            /\ new_top' = Base
            /\ UNCHANGED <<root, heap, req, k, g_GC_stress, marked, mark_stack,
                           forwarding>>

-----------------------------------------------------------------------------
Init == /\ BaseInit
        /\ marked = {}
        /\ mark_stack = <<>>
        /\ forwarding = <<>>
        /\ top = Base
        /\ new_top = Base
        /\ scanned = Base

Collector ==
  \/ MarkPhase /\ UNCHANGED <<forwarding, top, new_top, scanned>>
  \/ CalcStart \/ CalcNewAddress
  \/ UpdateStart \/ UpdateRoot \/ RootsUpdated \/ UpdateCell
  \/ SlideStart \/ SlideCell \/ SlideDead \/ SlideEnd
  \/ MallocRetry \/ Exhausted

Terminated == pc \in {"exited", "overflowed"} /\ UNCHANGED vars

Next == \/ Client /\ UNCHANGED compactVars
        \/ \E r \in Requests : MallocFast(r) \/ GCStart(r)
        \/ Collector
        \/ Terminated

Spec == Init /\ [][Next]_vars

-----------------------------------------------------------------------------
(* Properties. *)

Phases == {"run", "roots", "mark", "calc", "updroots", "update", "slide",
           "retry", "exited", "overflowed"}

TypeOK ==
  /\ root \in [Roots -> Value]
  /\ heap \in [DOMAIN heap -> Object]
  /\ DOMAIN heap \subseteq Nat
  /\ forwarding \in [DOMAIN heap -> Nat]
  /\ marked \subseteq DOMAIN heap
  /\ mark_stack \in Seq(DOMAIN heap)
  /\ pc \in Phases
  /\ req \in Requests \cup {NoReq}
  /\ k \in 1 .. (NRoots + 1)
  /\ g_GC_stress \in BOOLEAN
  /\ {top, new_top, scanned} \subseteq Nat

\* Addresses are settled but not every reference is updated yet.
Resettling == pc \in {"updroots", "update", "slide"}

RootUpdated(i) == (pc = "updroots" /\ i < k) \/ pc \in {"update", "slide"}
CellUpdated(a) == (pc = "update" /\ a < scanned) \/ pc = "slide"
CellMoved(a)   == pc = "slide" /\ a < scanned

\* The cells that survive the collection in progress, and their new homes.
Survivors == IF Resettling THEN marked \cup {a \in DOMAIN heap : CellMoved(a)}
             ELSE DOMAIN heap
Home(a)   == IF Resettling /\ ~CellMoved(a) THEN forwarding[a] ELSE a

\* Every reference leads to a cell: to where it is or, once updated, to where
\* a surviving cell will have slid.
NoDangling ==
  LET homes == {Home(a) : a \in Survivors}
      Leads(v, updated) == CELL_P(v) =>
        IF Resettling /\ updated THEN v \in homes
        ELSE IF Resettling THEN v \in Survivors
        ELSE v \in DOMAIN heap
  IN  /\ \A i \in Roots : Leads(root[i], RootUpdated(i))
      /\ \A a \in Survivors : \A v \in Fields(heap[a]) : Leads(v, CellUpdated(a))

\* Sliding keeps the cells in allocation order, moves none of them up, and
\* gives them adjacent homes: so a move never overwrites a cell yet to move.
SlidesInOrder ==
  Resettling =>
    /\ \A a \in Survivors : Base <= Home(a) /\ Home(a) <= a
    /\ \A a, b \in Survivors : a < b => Home(a) + heap[a].size <= Home(b)
    /\ \A a \in Survivors : \/ Home(a) + heap[a].size = new_top
                            \/ \E b \in Survivors : Home(b) = Home(a) + heap[a].size

\* The arena is packed between collections: cells follow each other without a
\* gap from Base to top, within the limit, and no mark bit is left set.
Packed ==
  pc \in {"run", "retry", "exited"} =>
    /\ Disjoint(heap)
    /\ UNION {Extent(heap, a) : a \in DOMAIN heap} = Base .. (top - 1)
    /\ top <= Limit
    /\ marked = {}

\* The heap holds together in every phase: references lead to cells or to their
\* homes, the marks are a wave front, and between collections the arena is packed.
HeapSound == TypeOK /\ NoDangling /\ MarkInvariant /\ Packed

\* A collection keeps nothing the roots do not reach, and the program ends as
\* "heap exhausted" only when the bytes of the cells they reach and the request
\* with its header would leave not one byte of the arena free (the test is a
\* strict <, which refuses a request that fits exactly).
ExhaustedOnlyWhenFull ==
  /\ pc \in {"retry", "exited"} => Live = DOMAIN heap
  /\ pc = "exited" =>
       Cardinality(UNION {Extent(heap, a) : a \in Live}) + HeaderSize + req.size
         >= Limit - Base

-----------------------------------------------------------------------------
(* The abstract memory: from the moment every survivor has its address, the
   cells count as being at home and references as updated.                 *)

View(v, updated) == IF Resettling /\ ~updated /\ CELL_P(v) THEN forwarding[v] ELSE v

absRoot == [i \in Roots |-> View(root[i], RootUpdated(i))]
absObjs == [b \in {Home(a) : a \in Survivors} |->
             LET a == CHOOSE x \in Survivors : Home(x) = b
             IN  [type |-> heap[a].type,
                  car  |-> View(heap[a].car, CellUpdated(a)),
                  cdr  |-> View(heap[a].cdr, CellUpdated(a))]]

Memory == INSTANCE ObjectMemory WITH root <- absRoot, objs <- absObjs

\* Behind gc_malloc the graph of cells keeps its shape and its contents.
ImplementsObjectMemory == Memory!Spec
=============================================================================
