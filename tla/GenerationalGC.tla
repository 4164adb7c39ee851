--------------------------- MODULE GenerationalGC ---------------------------
(***************************************************************************)
(* gc/generational.c: new cells go to the nursery, two half spaces between *)
(* which a minor collection copies what the roots and the remembered set   *)
(* reach; a cell copied often enough is promoted to the tenured space,     *)
(* which a major collection marks and compacts when it gets full.          *)
(*                                                                         *)
(* A minor collection handles one root or one cell per step, a major one   *)
(* marks as the other collectors do and slides one header per step.  Where *)
(* the code reads a flag at an address that holds no header at the time,   *)
(* either answer is possible.                                              *)
(***************************************************************************)
EXTENDS Marking

CONSTANTS HeaderSize,          \* sizeof(generational_gc_header)
          TENURING_THRESHOLD,
          NERSARY_SIZE_RATIO,
          REMEMBERED_SET_SIZE,
          TenuredRedefined     \* whether the program redefines variables whose
                               \* binding is tenured

ASSUME HeaderAssumption     == HeaderSize \in Nat \ {0}
ASSUME GenerationAssumption == /\ TENURING_THRESHOLD \in Nat \ {0}
                               /\ NERSARY_SIZE_RATIO \in Nat \ {0}
                               /\ REMEMBERED_SET_SIZE \in Nat
                               /\ TenuredRedefined \in BOOLEAN

VARIABLES hdr,               \* hdr[a]: forwarding, age, tenured and remembered bit
          from_space,
          to_space,
          nersary_top,
          tenured_top,
          remembered_set,
          rem_index,         \* the remembered cell a minor collection is at
          prev_nersary_top,  \* how far the copies in the nursery are scanned
          prev_tenured_top,  \* and those in the tenured space
          scanned,           \* the tenured header slide is at
          new_top            \* tenured_new_top of slide

genVars == <<hdr, from_space, to_space, nersary_top, tenured_top, remembered_set,
             rem_index, prev_nersary_top, prev_tenured_top, scanned, new_top>>
vars    == <<root, heap, pc, req, k, g_GC_stress, marked, mark_stack, hdr, from_space,
             to_space, nersary_top, tenured_top, remembered_set, rem_index,
             prev_nersary_top, prev_tenured_top, scanned, new_top>>

minorVars == <<from_space, to_space, rem_index, prev_nersary_top, prev_tenured_top>>
slideVars == <<scanned, new_top>>

-----------------------------------------------------------------------------
(* gc_init_generational: the remembered set, the two halves of the nursery,
   its mark table, the tenured space and its mark table follow each other. *)

Words(n) == ((n + 3) \div 4) * 4

remembered_set_size == PointerSize * REMEMBERED_SET_SIZE
nersary_size        == (HeapSize - remembered_set_size) \div NERSARY_SIZE_RATIO
nersary_tbl_size    == Words((nersary_size \div 2) \div 8)
nersary_heap_size   == (nersary_size - nersary_tbl_size) \div 2
tenured_size        == HeapSize - remembered_set_size - nersary_size
tenured_tbl_size    == Words(tenured_size \div 9)
tenured_heap_size   == tenured_size - tenured_tbl_size

nersary_space    == remembered_set_size
nersary_mark_tbl == nersary_space + 2 * nersary_heap_size
tenured_space    == nersary_mark_tbl + nersary_tbl_size

\* Mutant: the size of the nursery is taken for that of one half.
AllocatableNersaryBoth(size) ==
  nersary_top + HeaderSize + size < from_space + nersary_size

IS_ALLOCATABLE_NERSARY(size) ==
  nersary_top + HeaderSize + size < from_space + nersary_heap_size

IS_ALLOCATABLE_TENURED ==
  tenured_top + nersary_heap_size < tenured_space + tenured_heap_size

AllocateSize(size) == Words(HeaderSize + size)

\* gc_init does not check that the spaces fit in aq_heap.  gc_malloc tests the
\* size before rounding it, which only works when a half is whole words.
ASSUME LayoutAssumption == /\ remembered_set_size <= HeapSize
                           /\ nersary_heap_size % 4 = 0
                           /\ nersary_heap_size <= tenured_heap_size

-----------------------------------------------------------------------------
(* The memory as the routines of a collection see and change it.           *)

Memory == [heap |-> heap, hdr |-> hdr, ntop |-> nersary_top, ttop |-> tenured_top,
           rem |-> remembered_set, full |-> FALSE]

\* The memory becomes m and control goes to next, or the program has ended
\* because the remembered set is full.
Becomes(m, next) ==
  /\ heap' = m.heap
  /\ hdr' = m.hdr
  /\ nersary_top' = m.ntop
  /\ tenured_top' = m.ttop
  /\ remembered_set' = m.rem
  /\ pc' = IF m.full THEN "set_full" ELSE next

\* is_nersary_obj of the value v; garbage is the set of addresses without a
\* header at which the bit happens to be clear.
ReadsNersary(m, v, garbage) ==
  CELL_P(v) /\ IF v \in DOMAIN m.hdr THEN ~m.hdr[v].tenured ELSE v \in garbage

\* trace_object_bool(c, is_nersary_obj)
HasNersary(m, c, garbage) == \E v \in Fields(m.heap[c]) : ReadsNersary(m, v, garbage)

Listed(m) == {m.rem[i] : i \in 1 .. Len(m.rem)}

\* Addresses the remembered cells refer to where no header is.
Headless(m) == UNION {Fields(m.heap[c]) : c \in Listed(m)} \ (DOMAIN m.hdr \cup {IMM})

\* The remembered cells that are to stay in the set.
Needed(m, garbage) == {c \in Listed(m) : HasNersary(m, c, garbage)}

\* The entries of list that are in S, in their order.
Keep(list, S) ==
  LET kept == {i \in 1 .. Len(list) : list[i] \in S}
  IN  [n \in 1 .. Cardinality(kept) |->
         list[CHOOSE i \in kept : Cardinality({j \in kept : j <= i}) = n]]

\* Mutant: CLEAR_REMEMBERED is missing.
clean_remembered_list(m, garbage) ==
  [m EXCEPT !.rem = Keep(@, Needed(m, garbage))]

clean_remembered_set(m, garbage) ==
  [m EXCEPT !.rem = Keep(@, Needed(m, garbage)),
            !.hdr = [a \in DOMAIN @ |->
                       IF a \in Listed(m)
                       THEN [@[a] EXCEPT !.remembered = a \in Needed(m, garbage)]
                       ELSE @[a]]]

add_remembered_set(m, c, garbage) ==
  LET n == IF Len(m.rem) >= REMEMBERED_SET_SIZE
           THEN clean_remembered_set(m, garbage) ELSE m
  IN  IF Len(n.rem) >= REMEMBERED_SET_SIZE THEN [n EXCEPT !.full = TRUE]
      ELSE [n EXCEPT !.rem = Append(@, c), !.hdr[c].remembered = TRUE]

-----------------------------------------------------------------------------
(* copy_object and copy_and_update                                         *)

\* The header of a copied cell, which the original gets as well.
CopiedHeader(h, to, old) == [h EXCEPT !.forwarding = to, !.age = @ + 1, !.tenured = old]

\* The copy goes to the other half of the nursery or is promoted.
copy_object(m, v) ==
  LET old == m.hdr[v].age + 1 >= TENURING_THRESHOLD
      to  == IF old THEN m.ttop ELSE m.ntop
      h   == Overwrite(m.heap, to, m.heap[v])
      new == CopiedHeader(m.hdr[v], to, old)
  IN  [m EXCEPT !.heap = h,
                !.hdr  = [a \in DOMAIN h |-> IF a \in {v, to} THEN new ELSE m.hdr[a]],
                !.ntop = IF old THEN @ ELSE @ + m.heap[v].size,
                !.ttop = IF old THEN @ + m.heap[v].size ELSE @]

\* Mutant: a cell is copied each time it is met.
CopiedAgain(m, v) == IF ~CELL_P(v) \/ m.hdr[v].tenured THEN m ELSE copy_object(m, v)

\* The memory after copy_and_update on a slot that holds v, and the new value.
Copied(m, v) ==
  IF ~CELL_P(v) \/ m.hdr[v].forwarding # v \/ m.hdr[v].tenured THEN m
  ELSE copy_object(m, v)

CopyOf(m, v) == IF CELL_P(v) THEN m.hdr[v].forwarding ELSE v

\* Mutant: the cdr is not traced.
CopyCar(m, c) ==
  LET m1 == Copied(m, m.heap[c].car)
  IN  [m1 EXCEPT !.heap[c].car = CopyOf(m1, @)]

\* trace_object(c, copy_and_update)
CopyFields(m, c) ==
  LET m1 == Copied(m, m.heap[c].car)
      m2 == [m1 EXCEPT !.heap[c].car = CopyOf(m1, @)]
      m3 == Copied(m2, m2.heap[c].cdr)
  IN  [m3 EXCEPT !.heap[c].cdr = CopyOf(m3, @)]

-----------------------------------------------------------------------------
(* gc_malloc_generational and gc_write_barrier_generational                *)

Allocate(r) ==
  LET size == AllocateSize(r.size)
      new  == [forwarding |-> nersary_top, age |-> 0, tenured |-> FALSE,
               remembered |-> FALSE]
  IN  /\ heap' = Overwrite(heap, nersary_top, NewObject(r, size))
      /\ hdr' = [a \in DOMAIN heap' |-> IF a = nersary_top THEN new ELSE hdr[a]]
      /\ nersary_top' = nersary_top + size
      /\ root' = [root EXCEPT ![r.dst] = nersary_top]
      /\ pc' = "run"
      /\ req' = NoReq
      /\ UNCHANGED <<k, g_GC_stress, marked, mark_stack, tenured_top, remembered_set,
                     minorVars, slideVars>>

NeedsGC(size) == g_GC_stress \/ ~IS_ALLOCATABLE_NERSARY(size)

MallocFast(r) == /\ pc = "run"
                 /\ ~NeedsGC(r.size)
                 /\ Allocate(r)

\* The heap is exhausted when either space still is after the collection.
CanAllocate(size) == IS_ALLOCATABLE_TENURED /\ IS_ALLOCATABLE_NERSARY(size)

MallocRetry == /\ pc = "retry"
               /\ CanAllocate(req.size)
               /\ Allocate(req)

Exhausted == /\ pc = "retry"
             /\ ~CanAllocate(req.size)
             /\ pc' = "exited"
             /\ UNCHANGED <<root, heap, req, k, g_GC_stress, marked, mark_stack, genVars>>

\* The barrier is told the chain root[i], the value is stored in its car.  It
\* asks an immediate for its tenured bit too: that is a segmentation fault or
\* either answer.
WriteBarrier(obj, young) ==
  IF hdr[obj].tenured /\ young /\ ~hdr[obj].remembered
  THEN add_remembered_set(Memory, obj, {})
  ELSE Memory

RedefineWithBarrier(i, j) ==
  LET entry == heap[root[i]].car
      young == IF CELL_P(root[j]) THEN {~hdr[root[j]].tenured} ELSE BOOLEAN
  IN  /\ CELL_P(root[i]) /\ CELL_P(entry)
      /\ heap[entry].type = "pair"
      /\ TenuredRedefined \/ ~hdr[entry].tenured
      /\ \E y \in young : LET m == WriteBarrier(root[i], y) IN
           Becomes(IF m.full THEN m ELSE [m EXCEPT !.heap[entry].cdr = root[j]], pc)
      /\ UNCHANGED <<root, req, k, g_GC_stress, marked, mark_stack, minorVars, slideVars>>

BarrierFaults(i, j) ==
  /\ CELL_P(root[i]) /\ CELL_P(heap[root[i]].car)
  /\ heap[heap[root[i]].car].type = "pair"
  /\ TenuredRedefined \/ ~hdr[heap[root[i]].car].tenured
  /\ hdr[root[i]].tenured /\ ~CELL_P(root[j])
  /\ pc' = "faulted"
  /\ UNCHANGED <<root, heap, req, k, g_GC_stress, marked, mark_stack, genVars>>

-----------------------------------------------------------------------------
(* minor_gc *)

GCStart(r) == /\ pc = "run"
              /\ NeedsGC(r.size)
              /\ pc' = "minor_roots"
              /\ req' = r
              /\ k' = 1
              /\ nersary_top' = to_space
              /\ prev_nersary_top' = to_space
              /\ prev_tenured_top' = tenured_top
              /\ UNCHANGED <<root, heap, g_GC_stress, marked, mark_stack, hdr, from_space,
                             to_space, tenured_top, remembered_set, rem_index, slideVars>>

CopyRoot == LET m == Copied(Memory, root[k]) IN
            /\ pc = "minor_roots" /\ k <= NRoots
            /\ Becomes(m, pc)
            /\ root' = [root EXCEPT ![k] = CopyOf(m, @)]
            /\ k' = k + 1
            /\ UNCHANGED <<req, g_GC_stress, marked, mark_stack, minorVars, slideVars>>

RootsCopied == /\ pc = "minor_roots" /\ k > NRoots
               /\ pc' = "remembered"
               /\ k' = 1
               /\ rem_index' = 1
               /\ UNCHANGED <<root, heap, req, g_GC_stress, marked, mark_stack, hdr,
                              from_space, to_space, nersary_top, tenured_top,
                              remembered_set, prev_nersary_top, prev_tenured_top,
                              slideVars>>

ScanRemembered ==
  /\ pc = "remembered" /\ rem_index <= Len(remembered_set)
  /\ Becomes(CopyFields(Memory, remembered_set[rem_index]), pc)
  /\ rem_index' = rem_index + 1
  /\ UNCHANGED <<root, req, k, g_GC_stress, marked, mark_stack, from_space, to_space,
                 prev_nersary_top, prev_tenured_top, slideVars>>

\* Where the scanning loop goes next: all copies in the nursery, then all in
\* the tenured space, and again while there are new ones.
ScanNext ==
  /\ \/ pc = "remembered" /\ rem_index > Len(remembered_set) /\ pc' = "scan_nersary"
     \/ pc = "scan_nersary" /\ prev_nersary_top >= nersary_top /\ pc' = "scan_tenured"
     \/ pc = "scan_tenured" /\ prev_tenured_top >= tenured_top
          /\ prev_nersary_top < nersary_top /\ pc' = "scan_nersary"
  /\ UNCHANGED <<root, heap, req, k, g_GC_stress, marked, mark_stack, genVars>>

ScanNersary ==
  /\ pc = "scan_nersary" /\ prev_nersary_top < nersary_top
  /\ Becomes(CopyFields(Memory, prev_nersary_top), pc)
  /\ prev_nersary_top' = prev_nersary_top + heap[prev_nersary_top].size
  /\ UNCHANGED <<root, req, k, g_GC_stress, marked, mark_stack, from_space, to_space,
                 rem_index, prev_tenured_top, slideVars>>

\* Mutant: promoted cells are not remembered.
NotRemembered(m, c) == m

\* The memory once the promoted cell c is remembered, if it needs to be.
RememberPromoted(m, c) == IF HasNersary(m, c, {}) /\ ~m.hdr[c].remembered
                           THEN add_remembered_set(m, c, {}) ELSE m

ScanTenured ==
  /\ pc = "scan_tenured" /\ prev_tenured_top < tenured_top
  /\ Becomes(RememberPromoted(CopyFields(Memory, prev_tenured_top), prev_tenured_top), pc)
  /\ prev_tenured_top' = prev_tenured_top + heap[prev_tenured_top].size
  /\ UNCHANGED <<root, req, k, g_GC_stress, marked, mark_stack, from_space, to_space,
                 rem_index, prev_nersary_top, slideVars>>

InFromSpace(a) == from_space <= a /\ a < from_space + nersary_heap_size
InTenured(a)   == tenured_space <= a

Swap == LET survivors == {a \in DOMAIN heap : ~InFromSpace(a)} IN
        /\ pc = "scan_tenured"
        /\ prev_tenured_top >= tenured_top /\ prev_nersary_top >= nersary_top
        /\ from_space' = to_space
        /\ to_space' = from_space
        /\ heap' = [a \in survivors |-> heap[a]]
        /\ hdr' = [a \in survivors |-> hdr[a]]
        /\ pc' = "minor_done"
        /\ rem_index' = 1
        /\ prev_nersary_top' = nersary_space
        /\ prev_tenured_top' = tenured_space
        /\ UNCHANGED <<root, req, k, g_GC_stress, marked, mark_stack, nersary_top,
                       tenured_top, remembered_set, slideVars>>

\* gc_start_generational: is a major collection needed?
MajorOrNot == /\ pc = "minor_done"
              /\ IF IS_ALLOCATABLE_TENURED
                 THEN pc' = "retry" /\ UNCHANGED <<k, mark_stack, remembered_set>>
                 ELSE pc' = "roots" /\ k' = 1 /\ mark_stack' = <<>>
                        /\ remembered_set' = <<>>
              /\ UNCHANGED <<root, heap, req, g_GC_stress, marked, hdr, from_space, to_space,
                             nersary_top, tenured_top, rem_index, prev_nersary_top,
                             prev_tenured_top, slideVars>>

-----------------------------------------------------------------------------
(* major_gc: mark_object and mark are those of the module Marking.         *)

Tenured == {a \in DOMAIN heap : InTenured(a)}

\* calc_new_address: marked tenured cells are packed in address order, each
\* after as many bytes as the marked cells below it have.
calc_new_address ==
  /\ Marked
  /\ hdr' = [a \in DOMAIN hdr |->
               IF a \in Tenured \cap marked
               THEN [hdr[a] EXCEPT !.forwarding =
                       tenured_space
                         + Cardinality(UNION {Extent(heap, b) :
                                                b \in {c \in Tenured \cap marked : c < a}})]
               ELSE hdr[a]]
  /\ pc' = "update"
  /\ scanned' = tenured_space
  /\ new_top' = tenured_space
  /\ UNCHANGED <<root, heap, req, k, g_GC_stress, marked, mark_stack, nersary_top,
                 tenured_top, remembered_set, minorVars>>

Updated(v) == IF CELL_P(v) THEN hdr[v].forwarding ELSE v
UpdatedFields(o) == [o EXCEPT !.car = Updated(@), !.cdr = Updated(@)]

\* update_pointer: the roots, the marked tenured cells and all of the nursery.
\* Whether a tenured cell is to be remembered is asked at the new addresses of
\* its fields, where the cells are not yet.
update_pointer ==
  LET moving == Tenured \cap marked
      h      == [a \in DOMAIN heap |-> IF a \in moving \/ ~InTenured(a)
                                       THEN UpdatedFields(heap[a]) ELSE heap[a]]
      homes  == {hdr[a].forwarding : a \in moving}
  IN  /\ pc = "update"
      /\ root' = [i \in Roots |-> Updated(root[i])]
      /\ heap' = h
      /\ \E garbage \in SUBSET (homes \ DOMAIN hdr) :
           hdr' = [a \in DOMAIN hdr |->
                     IF a \in moving
                     THEN [hdr[a] EXCEPT !.remembered =
                             \E v \in Fields(h[a]) : ReadsNersary(Memory, v, garbage)]
                     ELSE hdr[a]]
      /\ pc' = "slide"
      /\ UNCHANGED <<req, k, g_GC_stress, marked, mark_stack, nersary_top, tenured_top,
                     remembered_set, minorVars, slideVars>>

\* The memory once a, a tenured header, is no longer used.
Freed(m, a) == [m EXCEPT !.heap = [x \in DOMAIN @ \ {a} |-> @[x]],
                         !.hdr  = [x \in DOMAIN @ \ {a} |-> @[x]]]

\* move_object; the memcpy of overlapping regions is taken to copy forwards.
move_object(a, garbage) ==
  LET dst == hdr[a].forwarding
      h   == Overwrite(Freed(Memory, a).heap, dst, heap[a])
      m   == [Memory EXCEPT !.heap = h,
                            !.hdr = [x \in DOMAIN h |-> IF x = dst THEN hdr[a] ELSE hdr[x]]]
  IN  IF hdr[a].remembered THEN add_remembered_set(m, dst, garbage) ELSE m

SlideCell ==
  /\ pc = "slide" /\ scanned < tenured_top /\ scanned \in marked
  /\ \E garbage \in SUBSET Headless(Memory) : Becomes(move_object(scanned, garbage), pc)
  /\ scanned' = scanned + heap[scanned].size
  /\ new_top' = new_top + heap[scanned].size
  /\ UNCHANGED <<root, req, k, g_GC_stress, marked, mark_stack, minorVars>>

SlideDead ==
  /\ pc = "slide" /\ scanned < tenured_top /\ scanned \notin marked
  /\ Becomes(Freed(Memory, scanned), pc)
  /\ scanned' = scanned + heap[scanned].size
  /\ UNCHANGED <<root, req, k, g_GC_stress, marked, mark_stack, minorVars, new_top>>

\* The mark tables are cleared.  Their sizes are in bytes but the memsets take
\* them for numbers of ints: the first goes on into the tenured space, the
\* second past the end of aq_heap.  A program that this hurts is not followed
\* any further.  A nursery cell that is not marked keeps its bytes, but nothing
\* will look at it again and the model forgets it.
Wiped(size_of_table) == 4 * size_of_table - size_of_table

SlideDone == pc = "slide" /\ scanned >= tenured_top

SlideEnd ==
  /\ SlideDone
  /\ \A a \in Tenured : a >= tenured_space + Wiped(nersary_tbl_size)
  /\ LET kept == {a \in DOMAIN heap : InTenured(a) \/ a \in marked}
     IN  heap' = [a \in kept |-> heap[a]] /\ hdr' = [a \in kept |-> hdr[a]]
  /\ tenured_top' = new_top
  /\ marked' = {}
  /\ scanned' = tenured_space
  /\ new_top' = tenured_space
  /\ pc' = "retry"
  /\ UNCHANGED <<root, req, k, g_GC_stress, mark_stack, nersary_top, remembered_set,
                 minorVars>>

SlideEndHurts == /\ SlideDone
                 /\ pc' = "corrupted"
                 /\ UNCHANGED <<root, heap, req, k, g_GC_stress, marked, mark_stack, genVars>>

-----------------------------------------------------------------------------
Init == /\ BaseInit
        /\ marked = {}
        /\ mark_stack = <<>>
        /\ hdr = <<>>
        /\ from_space = nersary_space
        /\ to_space = nersary_space + nersary_heap_size
        /\ nersary_top = nersary_space
        /\ tenured_top = tenured_space
        /\ remembered_set = <<>>
        /\ rem_index = 1
        /\ prev_nersary_top = nersary_space
        /\ prev_tenured_top = tenured_space
        /\ scanned = tenured_space
        /\ new_top = tenured_space

Ends == {"exited", "set_full", "faulted", "overflowed", "corrupted"}

Mutator ==
  /\ pc = "run"
  /\ \/ \E i \in Roots : \E v \in Held :
          Assign(i, v) /\ UNCHANGED <<marked, mark_stack, genVars>>
     \/ \E i, j \in Roots : RedefineWithBarrier(i, j) \/ BarrierFaults(i, j)

Collector ==
  \/ CopyRoot \/ RootsCopied \/ ScanRemembered \/ ScanNext \/ ScanNersary
  \/ ScanTenured \/ Swap \/ MajorOrNot
  \/ MarkPhase /\ UNCHANGED genVars
  \/ calc_new_address \/ update_pointer \/ SlideCell \/ SlideDead \/ SlideEnd \/ SlideEndHurts
  \/ MallocRetry \/ Exhausted

Terminated == pc \in Ends /\ UNCHANGED vars

Next == \/ Mutator
        \/ \E r \in Requests : MallocFast(r) \/ GCStart(r)
        \/ Collector
        \/ Terminated

Spec == Init /\ [][Next]_vars

-----------------------------------------------------------------------------
(* Properties. *)

Phases == {"run", "minor_roots", "remembered", "scan_nersary", "scan_tenured",
           "minor_done", "roots", "mark", "update", "slide", "retry"} \cup Ends

Header == [forwarding : Nat, age : 0 .. TENURING_THRESHOLD, tenured : BOOLEAN,
           remembered : BOOLEAN]

\* No collection is half way.
Settled == pc \in {"run", "minor_done", "retry"} \/ SlideDone

\* The types, and for the tenured bit, from which the barrier and the collector
\* tell the spaces apart, that it agrees with the address and the age.
TypeOK ==
  /\ root \in [Roots -> Value]
  /\ heap \in [DOMAIN heap -> Object]
  /\ hdr \in [DOMAIN heap -> Header]
  /\ DOMAIN heap \subseteq Nat
  /\ marked \subseteq Nat
  /\ mark_stack \in Seq(Nat)
  /\ remembered_set \in Seq(Nat)
  /\ pc \in Phases
  /\ req \in Requests \cup {NoReq}
  /\ k \in 1 .. (NRoots + 1)
  /\ g_GC_stress \in BOOLEAN
  /\ {from_space, to_space} = {nersary_space, nersary_space + nersary_heap_size}
  /\ {nersary_top, tenured_top, rem_index, prev_nersary_top, prev_tenured_top, scanned,
      new_top} \subseteq Nat
  /\ Settled => \A a \in DOMAIN heap :
                  /\ hdr[a].tenured <=> InTenured(a)
                  /\ hdr[a].tenured <=> hdr[a].age = TENURING_THRESHOLD

Remembered == {remembered_set[i] : i \in 1 .. Len(remembered_set)}

\* Whenever a collection is over, the roots, the cells they reach and the
\* remembered cells refer to existing cells, which forward to themselves.
NoDangling ==
  Settled =>
    \A v \in {root[i] : i \in Roots} \cup UNION {Fields(heap[a]) : a \in Live \cup Remembered} :
      CELL_P(v) => v \in DOMAIN heap /\ hdr[v].forwarding = v

\* The cells in use agree with their headers: no reference leads to what a minor
\* or a major collection has left behind, or to the old place of what it moved.
HeapSound == TypeOK /\ NoDangling

\* A minor collection does not look at the tenured space: each of its cells
\* that refers to the nursery has to be in the remembered set.
OldToYoungRemembered ==
  Settled => \A a \in Tenured \ Remembered : \A v \in Fields(heap[a]) :
               CELL_P(v) => InTenured(v)

\* The remembered set lists each tenured cell with the remembered bit once and
\* nothing else, so that it is full only when that many cells need it.
RememberedSetSound ==
  Settled =>
    /\ Len(remembered_set) <= REMEMBERED_SET_SIZE
    /\ Cardinality(Remembered) = Len(remembered_set)
    /\ Remembered = {a \in Tenured : hdr[a].remembered}

\* Cells do not overlap, and neither the copies of a minor collection nor the
\* promotions, which nothing checks, run out of their space.
SpacesRespected ==
  /\ Disjoint(heap)
  /\ \A a \in DOMAIN heap \ Tenured :
       LET start == IF InFromSpace(a) THEN from_space ELSE to_space
       IN  start <= a /\ a + heap[a].size <= start + nersary_heap_size
  /\ \A a \in Tenured : a + heap[a].size <= tenured_space + tenured_heap_size

\* The clearing of the mark tables stays in the mark tables.
TablesOnlyCleared == pc # "corrupted"

\* What a minor collection has left to do: a cell to copy counts twice, for its
\* copy has to be scanned.
Unvisited == (NRoots + 1 - k) + (Len(remembered_set) + 1 - rem_index)
Uncopied  == {a \in DOMAIN heap : InFromSpace(a) /\ hdr[a].forwarding = a}
Unscanned == {a \in DOMAIN heap : IF InTenured(a) THEN a >= prev_tenured_top
                                  ELSE ~InFromSpace(a) /\ a >= prev_nersary_top}
WorkLeft  == 2 * Cardinality(Uncopied) + Cardinality(Unscanned)

Scanning == {"minor_roots", "remembered", "scan_nersary", "scan_tenured"}

\* The two scan pointers of a minor collection catch up with the copies they
\* cause: every root, remembered cell or copy that is visited leaves less to do,
\* and the scan goes back and forth between the two spaces without adding any.
CollectionAdvances ==
  [][/\ pc \in Scanning /\ pc' \in Scanning => WorkLeft' <= WorkLeft
     /\ pc \in Scanning /\ pc' = pc /\ WorkLeft' = WorkLeft => Unvisited' < Unvisited]_vars

-----------------------------------------------------------------------------
(* The abstract memory.  During a minor collection it is made of the cells *)
(* as they were, and moves at the swap; during a major one it moves when   *)
(* the marked cells have their new addresses.                              *)

InMinor    == pc \in {"minor_roots", "remembered", "scan_nersary", "scan_tenured"}
                \/ (pc = "set_full" /\ marked = {})
Resettling == pc \in {"update", "slide", "corrupted"}
                \/ (pc = "set_full" /\ marked # {})

CopiedCells == {a \in DOMAIN heap : InFromSpace(a) /\ hdr[a].forwarding # a}

\* The cell that was copied to v, or v.
Original(v) == IF \E a \in CopiedCells : hdr[a].forwarding = v
               THEN CHOOSE a \in CopiedCells : hdr[a].forwarding = v
               ELSE v

Moved(a)  == InTenured(a) /\ a < new_top
Survivors == {a \in DOMAIN heap : Moved(a) \/ (a \in marked /\ (a >= scanned \/ ~InTenured(a)))}
Home(a)   == IF Moved(a) \/ ~InTenured(a) THEN a ELSE hdr[a].forwarding

View(v) == IF ~CELL_P(v) THEN v
           ELSE IF pc = "update" THEN hdr[v].forwarding
           ELSE IF InMinor THEN Original(v)
           ELSE v

\* Of the cells in from_space only the copies have been changed.
Viewed(a) ==
  IF InMinor /\ InFromSpace(a)
  THEN [type |-> heap[a].type, car |-> heap[a].car, cdr |-> heap[a].cdr]
  ELSE [type |-> heap[a].type, car |-> View(heap[a].car), cdr |-> View(heap[a].cdr)]

Originals == IF InMinor THEN DOMAIN heap \ {hdr[a].forwarding : a \in CopiedCells}
             ELSE DOMAIN heap

absRoot == [i \in Roots |-> View(root[i])]
absObjs == IF Resettling
           THEN [b \in {Home(a) : a \in Survivors} |->
                   Viewed(CHOOSE a \in Survivors : Home(a) = b)]
           ELSE [a \in Originals |-> Viewed(a)]

ObjMemory == INSTANCE ObjectMemory WITH root <- absRoot, objs <- absObjs

\* Behind gc_malloc the graph of cells keeps its shape and its contents.
ImplementsObjectMemory == ObjMemory!Spec
=============================================================================
