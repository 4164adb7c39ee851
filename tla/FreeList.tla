------------------------------ MODULE FreeList ------------------------------
(***************************************************************************)
(* The free list of gc/base.c, kept by the mark-sweep and the two          *)
(* reference counting collectors.  A list is the sequence of its chunks'   *)
(* addresses; sizes maps the address of every chunk to its chunk_size.     *)
(***************************************************************************)
EXTENDS Integers, Sequences, FiniteSets

CONSTANT FreeChunkSize    \* sizeof(free_chunk), the least a chunk can hold

ASSUME FreeChunkAssumption == FreeChunkSize \in Nat \ {0}

NULL == -1

Elems(list) == {list[i] : i \in 1 .. Len(list)}

WithSize(sizes, a, n) == [x \in DOMAIN sizes \cup {a} |-> IF x = a THEN n ELSE sizes[x]]
Drop(sizes, a)        == [x \in DOMAIN sizes \ {a} |-> sizes[x]]

-----------------------------------------------------------------------------
(* aq_get_free_chunk: first fit. *)

Fits(list, sizes, size) == {i \in 1 .. Len(list) : sizes[list[i]] >= size}

FirstFit(list, sizes, size) ==
  CHOOSE i \in Fits(list, sizes, size) : \A j \in Fits(list, sizes, size) : i <= j

\* Mutant: a chunk is split even if the rest cannot hold a free_chunk.
SplitsTight(chunk_size, size) == chunk_size > size

Splits(chunk_size, size) == chunk_size >= size + FreeChunkSize

\* The chunk handed out, its size, and what is left of the list.  A chunk is
\* split when the rest can hold a free_chunk, which takes its place in the list.
GetFreeChunk(list, sizes, size) ==
  IF Fits(list, sizes, size) = {}
  THEN [chunk |-> NULL, size |-> 0, rest |-> NULL, list |-> list, sizes |-> sizes]
  ELSE LET i     == FirstFit(list, sizes, size)
           c     == list[i]
           split == Splits(sizes[c], size)
       IN  [chunk |-> c,
            size  |-> IF split THEN size ELSE sizes[c],
            rest  |-> IF split THEN c + size ELSE NULL,
            list  |-> IF split THEN [list EXCEPT ![i] = c + size]
                      ELSE SubSeq(list, 1, i - 1) \o SubSeq(list, i + 1, Len(list)),
            sizes |-> IF split THEN WithSize(Drop(sizes, c), c + size, sizes[c] - size)
                      ELSE Drop(sizes, c)]

-----------------------------------------------------------------------------
(* put_chunk_to_freelist: an insertion by address that merges neighbours.  *)

Insert(list, i, c) == SubSeq(list, 1, i) \o <<c>> \o SubSeq(list, i + 1, Len(list))

Result(list, sizes) == [list |-> list, sizes |-> sizes]

\* Before the first chunk: merged with it if they touch.
PutFirst(list, sizes, c, size) ==
  IF c + size = list[1]
  THEN Result(<<c>> \o Tail(list),
              WithSize(Drop(sizes, list[1]), c, size + sizes[list[1]]))
  ELSE Result(<<c>> \o list, WithSize(sizes, c, size))

\* Between chunk i and its successor: merged with those it touches.
PutBetween(list, sizes, i, c, size) ==
  LET prev == list[i]
      next == list[i + 1]
      meetsPrev == prev + sizes[prev] = c
      meetsNext == c + size = next
      without   == SubSeq(list, 1, i) \o SubSeq(list, i + 2, Len(list))
  IN  IF meetsPrev /\ meetsNext
      THEN Result(without, WithSize(Drop(sizes, next), prev, sizes[prev] + size + sizes[next]))
      ELSE IF meetsPrev
      THEN Result(list, WithSize(sizes, prev, sizes[prev] + size))
      ELSE IF meetsNext
      THEN Result([list EXCEPT ![i + 1] = c],
                  WithSize(Drop(sizes, next), c, size + sizes[next]))
      ELSE Result(Insert(list, i, c), WithSize(sizes, c, size))

\* After the last chunk: appended as it is, even if it touches the last one.
PutLast(list, sizes, c, size) == Result(Append(list, c), WithSize(sizes, c, size))

\* Mutant: the chunk always goes to the end of the list.
PutChunkLast(list, sizes, c, size) == PutLast(list, sizes, c, size)

PutChunk(list, sizes, c, size) ==
  LET between == {i \in 1 .. Len(list) - 1 : list[i] < c /\ c < list[i + 1]}
  IN  IF list = <<>> THEN Result(<<c>>, WithSize(sizes, c, size))
      ELSE IF c < list[1] THEN PutFirst(list, sizes, c, size)
      ELSE IF between # {} THEN PutBetween(list, sizes, CHOOSE i \in between : TRUE, c, size)
      ELSE PutLast(list, sizes, c, size)

-----------------------------------------------------------------------------
\* The list is in address order and its chunks do not overlap.
Ordered(list, sizes) ==
  \A i \in 1 .. Len(list) - 1 : list[i] + sizes[list[i]] <= list[i + 1]

Bytes(list, sizes) == UNION {c .. (c + sizes[c] - 1) : c \in Elems(list)}
=============================================================================
