----------------------------- MODULE RefCountGC -----------------------------
(***************************************************************************)
(* gc/reference_count.c: every cell counts the root slots and fields that  *)
(* refer to it.  A store increments the count of the new value and         *)
(* decrements that of the old one; a count that falls to zero releases the *)
(* cell, which decrements its fields first and so on.                      *)
(*                                                                         *)
(* The recursion of decrement_count and reclaim_obj is a stack of tasks,   *)
(* one of them per step.  The slot that is stored to changes at the start: *)
(* nothing reads it before the recursion is over.                          *)
(*                                                                         *)
(* No instruction of the interpreter changes a pair, and the bindings are  *)
(* no values, so a program never makes a cycle: SetKnown has this as its   *)
(* guard.                                                                  *)
(*                                                                         *)
(* Two places of the interpreter change a slot and no count: OP_SROT and   *)
(* the stack_top = 0 of execute.  The history variable drift has, for each *)
(* cell, by how much they have put its count out.  The code does not read  *)
(* it.                                                                     *)
(***************************************************************************)
EXTENDS GCBase, FreeList

CONSTANTS HeaderSize,   \* sizeof(reference_count_header)
          MaxDrift      \* a bound for TLC: how many counts may be wrong, and how far

ASSUME HeaderAssumption == HeaderSize \in Nat \ {0}
ASSUME DriftAssumption  == MaxDrift \in Nat

\* A free_chunk, an int and a pointer, fits in the two headers of two ints each
\* that every cell is given; the heap begins as one.
ASSUME ChunkAssumption == FreeChunkSize <= 2 * HeaderSize /\ FreeChunkSize <= HeapSize

VARIABLES ref_cnt,
          chunks,       \* chunks[c]: the size of the free chunk at c
          freelist,
          release,      \* what the running decrement_count has yet to do
          drift         \* slots that lost the cell uncounted, less slots that got it so

countVars == <<ref_cnt, chunks, freelist, release, drift>>
vars      == <<root, heap, pc, req, k, g_GC_stress, ref_cnt, chunks, freelist, release, drift>>

Quiet == pc = "run" /\ release = <<>>

\* The header is counted twice.
AllocateSize(size) == ((2 * HeaderSize + size + 3) \div 4) * 4

-----------------------------------------------------------------------------
(* Counts and tasks *)

\* increment_count
Incremented(cnt, v) == IF CELL_P(v) THEN [cnt EXCEPT ![v] = @ + 1] ELSE cnt

Decrement(v)  == [op |-> "decrement", cell |-> v]
PutChunkOf(a) == [op |-> "put", cell |-> a]

\* Mutant: a value that is popped is decremented by the barrier, too.
DecrementsTwice(v) == IF CELL_P(v) THEN <<Decrement(v), Decrement(v)>> ELSE <<>>

\* decrement_count of a value, as tasks.
Decrements(v) == IF CELL_P(v) THEN <<Decrement(v)>> ELSE <<>>

\* The counts once a root slot refers to v.
Counted(v) == Incremented(ref_cnt, v)

\* push_arg, pop_arg and gc_write_barrier_root.  That OP_RET takes its value off
\* the stack and puts it back uncounted changes no number of slots: the value is
\* in a lower slot then.
Store(i, v) == /\ Quiet
               /\ Assign(i, v)
               /\ ref_cnt' = Counted(v)
               /\ release' = Decrements(root[i])
               /\ UNCHANGED <<chunks, freelist, drift>>

Drifted(v, n) == IF CELL_P(v) THEN [drift EXCEPT ![v] = @ + n] ELSE drift

\* The bound.
WithinBound(d) == LET wrong == {a \in DOMAIN d : d[a] # 0}
                  IN  /\ Cardinality(wrong) <= MaxDrift
                      /\ \A a \in wrong : d[a] \in -MaxDrift .. MaxDrift

\* OP_SROT: the operator is written over the number of arguments, an immediate,
\* past push_arg and the barrier.
Srot(i, j) == /\ Quiet
              /\ root[i] = IMM
              /\ root' = [root EXCEPT ![i] = root[j]]
              /\ drift' = Drifted(root[j], -1)
              /\ WithinBound(drift')
              /\ UNCHANGED <<heap, pc, req, k, g_GC_stress, ref_cnt, chunks, freelist, release>>

\* stack_top = 0 in execute, one slot at a time: no slot is read in between.
DropSlot(i) == /\ Quiet
               /\ CELL_P(root[i])
               /\ root' = [root EXCEPT ![i] = IMM]
               /\ drift' = Drifted(root[i], 1)
               /\ WithinBound(drift')
               /\ UNCHANGED <<heap, pc, req, k, g_GC_stress, ref_cnt, chunks, freelist, release>>

-----------------------------------------------------------------------------
(* gc_malloc_reference_count and its callers                               *)

\* A new cell at c, with count n.
WithCell(f, c, n) == [x \in DOMAIN f \cup {c} |-> IF x = c THEN n ELSE f[x]]

Fitting(size) == GetFreeChunk(freelist, chunks, AllocateSize(size))

SizeTaken(got, size) == got.size

\* Mutant: gc_init_ptr does not count the cdr.
WithFieldsCar(cnt, r) == IF r.type = "pair" THEN Incremented(cnt, root[r.a]) ELSE cnt

\* gc_init_ptr of the two fields.
WithFields(cnt, r) ==
  IF r.type = "pair" THEN Incremented(Incremented(cnt, root[r.d]), root[r.a]) ELSE cnt

\* A leaf is pushed on an unused slot; a pair replaces its car, which is popped.
PossibleRequest(r) == r.type = "leaf" => root[r.dst] = IMM

Malloc(r) ==
  LET got == Fitting(r.size)
      c   == got.chunk
  IN  /\ Quiet
      /\ PossibleRequest(r)
      /\ c # NULL
      /\ heap' = Overwrite(heap, c, NewObject(r, SizeTaken(got, r.size)))
      /\ ref_cnt' = WithFields(WithCell(ref_cnt, c, 1), r)
      /\ drift' = WithCell(drift, c, 0)
      /\ root' = [root EXCEPT ![r.dst] = c]
      /\ release' = Decrements(root[r.dst])
      /\ chunks' = got.sizes
      /\ freelist' = got.list
      /\ UNCHANGED <<pc, req, k, g_GC_stress>>

Exhausted(r) == /\ Quiet
                /\ PossibleRequest(r)
                /\ Fitting(r.size).chunk = NULL
                /\ pc' = "exited"
                /\ UNCHANGED <<root, heap, req, k, g_GC_stress, countVars>>

\* Mutant: the name of the binding is overwritten.
NewBindingName(o, v) == [o EXCEPT !.car = v]

NewBinding(o, v) == [o EXCEPT !.cdr = v]

\* set_var on a known name: a string is made for the name, which nothing will
\* refer to, then gc_write_barrier stores in the binding.
SetKnown(i, j, size) ==
  LET got   == Fitting(size)
      c     == got.chunk
      entry == heap[root[i]].car
      h     == Overwrite(heap, c, [type |-> "leaf", size |-> SizeTaken(got, size),
                                   car |-> IMM, cdr |-> IMM])
  IN  /\ Quiet
      /\ CELL_P(root[i]) /\ CELL_P(entry)
      /\ heap[entry].type = "pair"
      /\ CELL_P(root[j]) => entry \notin ReachedFrom(root[j])
      /\ c # NULL
      /\ heap' = [h EXCEPT ![entry] = NewBinding(@, root[j])]
      /\ ref_cnt' = Incremented(WithCell(ref_cnt, c, 0), root[j])
      /\ drift' = WithCell(drift, c, 0)
      /\ release' = Decrements(heap[entry].cdr)
      /\ chunks' = got.sizes
      /\ freelist' = got.list
      /\ UNCHANGED <<root, pc, req, k, g_GC_stress>>

-----------------------------------------------------------------------------
(* decrement_count and reclaim_obj                                         *)

Task == release[1]

Released   == {a \in DOMAIN heap : ref_cnt[a] = -1}
Pending(t) == {n \in 1 .. Len(release) : release[n] = t}

\* A slot, a field of a cell in use or a decrement yet to come refers to a.
Named(a) == \/ \E i \in Roots : root[i] = a
            \/ \E b \in DOMAIN heap \ Released : a \in Fields(heap[b])
            \/ \E n \in 2 .. Len(release) : release[n] = Decrement(a)

\* Mutant: a cell is released when its count falls below zero.
DropsBelowZero(v) == ref_cnt[v] - 1 < 0

Drops(v) == ref_cnt[v] - 1 <= 0

\* decrement_count is running on a cell.
Decrementing == pc = "run" /\ release # <<>> /\ Task.op = "decrement"

DecrementCount == /\ Decrementing
                  /\ ~Drops(Task.cell)
                  /\ ref_cnt' = [ref_cnt EXCEPT ![Task.cell] = @ - 1]
                  /\ release' = Tail(release)
                  /\ UNCHANGED <<root, heap, pc, req, k, g_GC_stress, chunks, freelist, drift>>

\* Mutant: the cell itself is decremented again, and its count of -1 drops again.
ReclaimTasksAgain(a) == <<Decrement(a), PutChunkOf(a)>>

\* The fields are decremented, then the bytes given back.
ReclaimTasks(a) == Decrements(heap[a].car) \o Decrements(heap[a].cdr) \o <<PutChunkOf(a)>>

\* The count becomes -1 first.
Reclaim ==
  /\ Decrementing
  /\ Drops(Task.cell) /\ ~Named(Task.cell)
  /\ ref_cnt' = [ref_cnt EXCEPT ![Task.cell] = -1]
  /\ release' = ReclaimTasks(Task.cell) \o Tail(release)
  /\ UNCHANGED <<root, heap, pc, req, k, g_GC_stress, chunks, freelist, drift>>

\* reclaim_obj does the same to a cell that something still refers to.  From then
\* on the program uses bytes that are free, or another cell's: it is not followed.
ReclaimNamed ==
  /\ Decrementing
  /\ Drops(Task.cell) /\ Named(Task.cell)
  /\ pc' = "corrupted"
  /\ UNCHANGED <<root, heap, req, k, g_GC_stress, countVars>>

WithoutCell(f, a) == [x \in DOMAIN f \ {a} |-> f[x]]

PutBack ==
  LET a   == Task.cell
      put == PutChunk(freelist, chunks, a, heap[a].size)
  IN  /\ pc = "run" /\ release # <<>> /\ Task.op = "put"
      /\ heap' = WithoutCell(heap, a)
      /\ ref_cnt' = WithoutCell(ref_cnt, a)
      /\ drift' = WithoutCell(drift, a)
      /\ chunks' = put.sizes
      /\ freelist' = put.list
      /\ release' = Tail(release)
      /\ UNCHANGED <<root, pc, req, k, g_GC_stress>>

-----------------------------------------------------------------------------
Init == /\ BaseInit
        /\ ref_cnt = <<>>
        /\ drift = <<>>
        /\ chunks = [c \in {0} |-> HeapSize]
        /\ freelist = <<0>>
        /\ release = <<>>

Release == DecrementCount \/ Reclaim \/ ReclaimNamed \/ PutBack

Terminated == pc \in {"exited", "corrupted"} /\ UNCHANGED vars

Next == \/ \E i \in Roots : \E v \in Held : Store(i, v)
        \/ \E i, j \in Roots : Srot(i, j)
        \/ \E i \in Roots : DropSlot(i)
        \/ \E r \in Requests : Malloc(r) \/ Exhausted(r)
        \/ \E i, j \in Roots : \E s \in LeafSizes : SetKnown(i, j, s)
        \/ Release
        \/ Terminated

Spec == Init /\ [][Next]_vars

-----------------------------------------------------------------------------
(* Properties. *)

TypeOK ==
  /\ root \in [Roots -> Value]
  /\ heap \in [DOMAIN heap -> Object]
  /\ ref_cnt \in [DOMAIN heap -> Int]
  /\ drift \in [DOMAIN heap -> Int]
  /\ chunks \in [DOMAIN chunks -> Nat]
  /\ DOMAIN heap \cup DOMAIN chunks \subseteq Nat
  /\ freelist \in Seq(DOMAIN chunks)
  /\ release \in Seq([op : {"decrement", "put"}, cell : Nat])
  /\ pc \in {"run", "exited", "corrupted"}

\* The count of a cell is the number of root slots, of fields of cells that are
\* not being released, and of decrements that have yet to be done, but for what
\* OP_SROT and execute have put it out by: for each cell, at every step of a release.
CountsExact ==
  \A a \in DOMAIN heap \ Released :
    ref_cnt[a] = Cardinality({i \in Roots : root[i] = a})
                   + Cardinality({b \in DOMAIN heap \ Released : heap[b].car = a})
                   + Cardinality({b \in DOMAIN heap \ Released : heap[b].cdr = a})
                   + Cardinality(Pending(Decrement(a)))
                   + drift[a]

\* A cell is given back once, and when its count is right.  One that something
\* still refers to is given back for one reason only: OP_SROT has stored it.
\* (reclaim_obj)
ReleasedOnce ==
  /\ \A n \in 1 .. Len(release) : release[n].cell \in DOMAIN heap
  /\ \A a \in DOMAIN heap : Cardinality(Pending(PutChunkOf(a))) =
                               IF a \in Released THEN 1 ELSE 0
  /\ \A a \in Released : drift[a] = 0
  /\ pc = "corrupted" => drift[Task.cell] < 0

\* What a root slot or a cell in use refers to is a cell in use: a store counts
\* the new value before it releases the old one.
NoDangling == ClosedFromRoots(DOMAIN heap \ Released)

\* Cells and free chunks tile the heap, and every free chunk is on the list.
SizeAt(a) == IF a \in DOMAIN heap THEN heap[a].size ELSE chunks[a]
Blocks    == DOMAIN heap \cup DOMAIN chunks

HeapTiled ==
  /\ DOMAIN heap \cap DOMAIN chunks = {}
  /\ \A a \in Blocks : SizeAt(a) > 0
       /\ (a + SizeAt(a) = HeapSize \/ a + SizeAt(a) \in Blocks)
  /\ 0 \in Blocks
  /\ \A a, b \in Blocks : a < b => a + SizeAt(a) <= b

\* The list is in address order, holds every free chunk once, and each is large
\* enough for the links.
FreeListSound == /\ Ordered(freelist, chunks)
                 /\ Elems(freelist) = DOMAIN chunks
                 /\ \A c \in Elems(freelist) : chunks[c] >= FreeChunkSize

\* The heap holds together at every step of a release: references lead to cells
\* in use, cells and free chunks tile the heap, every free chunk is on the list.
HeapSound == TypeOK /\ NoDangling /\ HeapTiled /\ FreeListSound

\* When no release is running, what no root reaches has been given back, but
\* for the strings that set_var makes for known names, and for what is reached
\* from a cell that execute has dropped from the stack.
OnlyForgottenLeak ==
  Quiet => \A a \in DOMAIN heap \ Live :
             \/ heap[a].type = "leaf" /\ ref_cnt[a] = 0
             \/ \E b \in DOMAIN heap \ Live : drift[b] > 0 /\ a \in ReachedFrom(b)

\* What a release can still come to: a cell in use costs one step to give up, one
\* to give back, and one more for the second of its fields.
WorkLeft == 3 * Cardinality(DOMAIN heap \ Released) + Len(release)

\* A release comes to its end: whatever cells it goes on to, each of its steps
\* leaves less to do, until nothing is left or a cell in use is given back.
\* (decrement_count, reclaim_obj)
ReleaseAdvances == [][release # <<>> /\ pc' = "run" => WorkLeft' < WorkLeft]_vars

\* Cells with a count are those of the abstract memory.
absObjs == [a \in {b \in DOMAIN heap : ref_cnt[b] > 0} |->
             [type |-> heap[a].type, car |-> heap[a].car, cdr |-> heap[a].cdr]]

absRoot == root

Memory == INSTANCE ObjectMemory WITH root <- absRoot, objs <- absObjs

\* Behind push, pop and the barriers the graph keeps its shape and contents, until
\* a cell that OP_SROT has stored is given back (ReleasedOnce).
ImplementsObjectMemory == Memory!Spec
=============================================================================
