-------------------------------- MODULE ZctGC --------------------------------
(***************************************************************************)
(* gc/rc_zct.c: deferred reference counting.  A count covers the fields    *)
(* that refer to a cell, not the root slots.  A cell whose count falls to  *)
(* zero enters the zero count table; when the table is full, or no chunk   *)
(* fits, gc_start counts the roots in, reclaims the entries that still     *)
(* have no reference, and counts the roots out again.                      *)
(*                                                                         *)
(* As in RefCountGC the recursion (decrement_count, add_zct, gc_start,     *)
(* reclaim_obj) is a stack of tasks, one per step.  Slot NRoots is the     *)
(* entry of env, the slots before it are the machine stack, slot 1 its     *)
(* bottom.                                                                 *)
(***************************************************************************)
EXTENDS GCBase, FreeList

CONSTANTS HeaderSize,    \* sizeof(rc_zct_header)
          ZCT_SIZE

ASSUME ZctAssumption == HeaderSize \in Nat \ {0} /\ ZCT_SIZE \in Nat \ {0}

VARIABLES ref_cnt,
          in_zct,       \* the cells whose in_zct is set
          ZCT, zct_index,
          chunks, freelist,
          tasks

countVars == <<ref_cnt, in_zct, ZCT, zct_index>>
listVars  == <<chunks, freelist>>
vars == <<baseVars, countVars, listVars, tasks>>

Quiet == pc = "run" /\ tasks = <<>>
Stack == 1 .. NRoots - 1
Env   == NRoots

AllocateSize(size) == ((2 * HeaderSize + size + 3) \div 4) * 4

-----------------------------------------------------------------------------
(* Counts and tasks *)

\* Mutant: a new reference is not counted.
Uncounted(cnt, v) == cnt

\* increment_count
Incremented(cnt, v) == IF CELL_P(v) THEN [cnt EXCEPT ![v] = @ + 1] ELSE cnt

Decrements(v) == IF CELL_P(v) THEN <<[op |-> "decrement", at |-> v]>> ELSE <<>>
Look(index)    == [op |-> "look", at |-> index]
Put(a)         == [op |-> "put", at |-> a]
Replace(index) == [op |-> "replace", at |-> index]

\* Mutant: the stack is not counted in.
EnvReferences(v) == IF root[Env] = v THEN 1 ELSE 0

\* How often a root slot refers to v.
RootReferences(v) == Cardinality({i \in Roots : root[i] = v})

\* trace_roots(increment_count)
RootsIn(cnt) == [a \in DOMAIN cnt |-> cnt[a] + RootReferences(a)]

\* trace_roots(decrement_count), as tasks: the stack from its top, then env.
RootsOut == LET from[i \in 0 .. NRoots - 1] ==
                  IF i = 0 THEN Decrements(root[Env]) ELSE Decrements(root[i]) \o from[i - 1]
            IN  from[NRoots - 1]

\* gc_start with n entries in the table and other tasks to do after it.
Collection(n, after) == <<Look(n - 1)>> \o RootsOut \o after

-----------------------------------------------------------------------------
(* The program *)

\* The next slot of the stack; immediates take none.
Unused(i) == root[i] = IMM /\ \A j \in 1 .. i - 1 : CELL_P(root[j])
OnTop(i)  == CELL_P(root[i]) /\ \A j \in Stack : j > i => root[j] = IMM

\* push_arg, pop_arg: nothing is counted.
StoreStack(i, v) == /\ Quiet
                    /\ IF CELL_P(v) THEN Unused(i) ELSE OnTop(i)
                    /\ Assign(i, v)
                    /\ UNCHANGED <<countVars, listVars, tasks>>

Pairs == {a \in DOMAIN heap : heap[a].type = "pair"}

\* register_var of a new name: the chain on the stack, a binding in front of
\* the old chain, goes to env.
StoreEnv(i) == /\ Quiet
               /\ root[i] \in Pairs
               /\ heap[root[i]].car \in Pairs
               /\ heap[root[i]].cdr = root[Env]
               /\ Assign(Env, root[i])
               /\ UNCHANGED <<countVars, listVars, tasks>>

Fitting(size) == GetFreeChunk(freelist, chunks, AllocateSize(size))

\* gc_malloc gives cell c, which o fills; gc_init_ptr counts its fields.
Allocated(got, o, cnt) ==
  /\ heap' = Overwrite(heap, got.chunk, o)
  /\ in_zct' = in_zct \ {got.chunk}
  /\ chunks' = got.sizes
  /\ freelist' = got.list
  /\ ref_cnt' = Incremented(Incremented(
       [x \in DOMAIN cnt \cup {got.chunk} |-> IF x = got.chunk THEN 0 ELSE cnt[x]],
       o.car), o.cdr)

\* A leaf is pushed on an unused slot; a pair takes the place of the two
\* arguments that its caller pops.
PossibleRequest(r) == /\ {r.a, r.d} \subseteq Stack
                      /\ IF r.type = "leaf" THEN Unused(r.dst) ELSE r.a < r.d

Malloc(r) ==
  LET got == Fitting(r.size) IN
  /\ Quiet
  /\ PossibleRequest(r)
  /\ got.chunk # NULL
  /\ Allocated(got, NewObject(r, got.size), ref_cnt)
  /\ root' = [root EXCEPT ![r.d] = IMM, ![r.dst] = got.chunk]
  /\ UNCHANGED <<pc, req, k, g_GC_stress, ZCT, zct_index, tasks>>

\* Nothing fits: the collection is in vain, for the header goes to NULL.
Exhausted(r) == /\ Quiet
                /\ PossibleRequest(r)
                /\ Fitting(r.size).chunk = NULL
                /\ pc' = "exhausted"
                /\ ref_cnt' = RootsIn(ref_cnt)
                /\ tasks' = Collection(zct_index, <<>>)
                /\ UNCHANGED <<root, heap, req, k, g_GC_stress, in_zct, ZCT, zct_index, listVars>>

Crash == /\ pc = "exhausted" /\ tasks = <<>>
         /\ pc' = "crashed"
         /\ UNCHANGED <<root, heap, req, k, g_GC_stress, countVars, listVars, tasks>>

\* set_var of a known name, of a binding in the chain: a string for the name,
\* which nothing will refer to, then gc_write_barrier.  A value never reaches
\* a binding.
SetKnown(entry, j, size) ==
  LET got  == Fitting(size)
      name == [type |-> "leaf", size |-> got.size, car |-> IMM, cdr |-> IMM]
      new  == Overwrite(heap, got.chunk, name)
  IN  /\ Quiet
      /\ CELL_P(root[j]) => entry \notin ReachedFrom(root[j])
      /\ got.chunk # NULL
      /\ heap' = [new EXCEPT ![entry].cdr = root[j]]
      /\ ref_cnt' = Incremented([x \in DOMAIN ref_cnt \cup {got.chunk} |->
                                   IF x = got.chunk THEN 0 ELSE ref_cnt[x]], root[j])
      /\ in_zct' = in_zct \ {got.chunk}
      /\ chunks' = got.sizes
      /\ freelist' = got.list
      /\ tasks' = Decrements(heap[entry].cdr)
      /\ UNCHANGED <<root, pc, req, k, g_GC_stress, ZCT, zct_index>>

\* The chain of the first two names.
Bindings ==
  IF ~CELL_P(root[Env]) THEN {}
  ELSE LET rest == heap[root[Env]].cdr
       IN  {heap[root[Env]].car} \cup IF CELL_P(rest) THEN {heap[rest].car} ELSE {}

-----------------------------------------------------------------------------
(* decrement_count, add_zct, reclaim_obj and gc_start, step by step *)

Task     == tasks[1]
Doing(o) == IF tasks = <<>> THEN FALSE ELSE Task.op = o

Left == ref_cnt[Task.at] - 1

\* The cell enters the table unless it is in it.
Enters == Left <= 0 /\ Task.at \notin in_zct

Decrement ==
  /\ Doing("decrement")
  /\ ~Enters
  /\ ref_cnt' = [ref_cnt EXCEPT ![Task.at] = Left]
  /\ tasks' = Tail(tasks)
  /\ UNCHANGED <<baseVars, in_zct, ZCT, zct_index, listVars>>

\* add_zct tests ZCT_SIZE after it has written; a full table starts gc_start,
\* also within gc_start.
AddZct ==
  LET cnt  == [ref_cnt EXCEPT ![Task.at] = Left]
      full == zct_index + 1 >= ZCT_SIZE
  IN  /\ Doing("decrement")
      /\ Enters
      /\ in_zct' = in_zct \cup {Task.at}
      /\ ZCT' = [ZCT EXCEPT ![zct_index] = Task.at]
      /\ zct_index' = zct_index + 1
      /\ ref_cnt' = IF full THEN RootsIn(cnt) ELSE cnt
      /\ tasks' = IF full THEN Collection(zct_index + 1, Tail(tasks)) ELSE Tail(tasks)
      /\ UNCHANGED <<baseVars, listVars>>

\* The loop of gc_start at an entry nothing refers to.
Reclaim ==
  LET a == ZCT[Task.at] IN
  /\ Doing("look") /\ Task.at >= 0
  /\ ref_cnt[a] = 0
  /\ ref_cnt' = [ref_cnt EXCEPT ![a] = -1]
  /\ tasks' = Decrements(heap[a].car) \o Decrements(heap[a].cdr)
                \o <<Put(a), Replace(Task.at), Look(Task.at - 1)>> \o Tail(tasks)
  /\ UNCHANGED <<baseVars, in_zct, ZCT, zct_index, listVars>>

\* At any other entry it never gets further.
Hangs == /\ Doing("look") /\ Task.at >= 0
         /\ ref_cnt[ZCT[Task.at]] # 0

Spin == Hangs /\ UNCHANGED vars

LoopEnds == /\ Doing("look") /\ Task.at < 0
            /\ tasks' = Tail(tasks)
            /\ UNCHANGED <<baseVars, countVars, listVars>>

Without(f, a) == [x \in DOMAIN f \ {a} |-> f[x]]

\* Mutant: put_chunk_to_freelist never returns.
PutBackStuck == Doing("put") /\ UNCHANGED vars

PutBack ==
  LET a   == Task.at
      put == PutChunk(freelist, chunks, a, heap[a].size)
  IN  /\ Doing("put")
      /\ heap' = Without(heap, a)
      /\ ref_cnt' = Without(ref_cnt, a)
      /\ in_zct' = in_zct \ {a}
      /\ chunks' = put.sizes
      /\ freelist' = put.list
      /\ tasks' = Tail(tasks)
      /\ UNCHANGED <<root, pc, req, k, g_GC_stress, ZCT, zct_index>>

\* ZCT[index] = ZCT[zct_index--]: what lies behind the last entry.
ReplaceEntry == /\ Doing("replace")
                /\ ZCT' = [ZCT EXCEPT ![Task.at] = ZCT[zct_index]]
                /\ zct_index' = zct_index - 1
                /\ tasks' = Tail(tasks)
                /\ UNCHANGED <<baseVars, ref_cnt, in_zct, listVars>>

Work == Decrement \/ AddZct \/ Reclaim \/ LoopEnds \/ PutBack \/ ReplaceEntry

-----------------------------------------------------------------------------
\* The two words behind ZCT belong to the other reference counting collector,
\* which is not in use.
Init == /\ BaseInit
        /\ ref_cnt = <<>>
        /\ in_zct = {}
        /\ ZCT = [i \in 0 .. ZCT_SIZE + 1 |-> NULL]
        /\ zct_index = 0
        /\ chunks = [c \in {0} |-> HeapSize]
        /\ freelist = <<0>>
        /\ tasks = <<>>

Terminated == pc = "crashed" /\ UNCHANGED vars

Next == \/ \E i \in Stack : \E v \in Held : StoreStack(i, v)
        \/ \E i \in Stack : StoreEnv(i)
        \/ \E r \in Requests : Malloc(r) \/ Exhausted(r)
        \/ \E entry \in Bindings, j \in Stack, s \in LeafSizes : SetKnown(entry, j, s)
        \/ Work
        \/ Spin \/ Crash \/ Terminated

Spec == Init /\ [][Next]_vars

\* A collection is straight-line code of the only thread.
FairSpec == Spec /\ WF_vars(Work)

-----------------------------------------------------------------------------
(* Properties. *)

Released == {a \in DOMAIN ref_cnt : ref_cnt[a] = -1}
InUse    == DOMAIN heap \ Released
Pending(op, a) == Cardinality({n \in 1 .. Len(tasks) : tasks[n].op = op /\ tasks[n].at = a})

\* A count is the number of fields of cells in use that refer to the cell, and
\* of the decrements that have yet to be done, which include those of the roots
\* while they are counted in; at every step, also of a collection started within
\* a decrement.
CountsExact ==
  \A a \in InUse :
    ref_cnt[a] = Cardinality({b \in InUse : heap[b].car = a})
                   + Cardinality({b \in InUse : heap[b].cdr = a})
                   + Pending("decrement", a)

\* What the stack, env or a cell in use refers to is never reclaimed, though the
\* stack is not counted; what is reclaimed goes to the free list once, and the
\* entry the loop looks at is a cell.
OnlyGarbageReclaimed ==
  /\ ClosedFromRoots(InUse)
  /\ \A a \in DOMAIN heap : Pending("put", a) = IF a \in Released THEN 1 ELSE 0
  /\ Doing("look") /\ Task.at >= 0 => ZCT[Task.at] \in DOMAIN heap

\* A collection comes to its end, with all it has started within itself, unless
\* its loop meets an entry that something refers to: then it hangs.
EndsOrHangs == tasks # <<>> ~> (tasks = <<>> \/ Hangs)
=============================================================================
