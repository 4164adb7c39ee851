-------------------------- MODULE Environment_proofs --------------------------
(***************************************************************************)
(* The environment is sound and implements a map from names to values, for *)
(* every set of names of ASCII characters, every table size and every      *)
(* width of a char.                                                        *)
(***************************************************************************)
EXTENDS Environment, FiniteSetTheorems, SequenceTheorems, TLAPS

-----------------------------------------------------------------------------
(* Induction, for sets of numbers: the theorems of the library take the    *)
(* property as an operator, here it is a set.                              *)

\* A set of natural numbers that is not empty has a least member.
LEMMA LeastNat ==
  ASSUME NEW T \in SUBSET Nat, T # {}
  PROVE  \E x \in T : \A y \in T : x <= y
  <1> DEFINE Down == {0 .. x : x \in T}
  <1>1. IsWellFoundedOn(StrictSubsetOrdering(Nat), FiniteSubsetsOf(Nat))
    BY FS_StrictSubsetOrderingWellFounded
  <1>2. Down \subseteq FiniteSubsetsOf(Nat)
    <2>1. ASSUME NEW x \in T
          PROVE  0 .. x \in SUBSET Nat /\ IsFiniteSet(0 .. x)
      BY FS_Interval
    <2> QED
      BY <2>1 DEF FiniteSubsetsOf
  <1>3. \E D \in Down : \A E \in Down : ~(<<E, D>> \in StrictSubsetOrdering(Nat))
    <2> Down # {}
      OBVIOUS
    <2> HIDE DEF Down
    <2> QED
      BY <1>1, <1>2, WFMin
  <1>4. PICK x \in T : \A y \in T : ~(<<0 .. y, 0 .. x>> \in StrictSubsetOrdering(Nat))
    BY <1>3
  <1>5. ASSUME NEW y \in T, y < x
        PROVE  FALSE
    <2> DEFINE p == <<0 .. y, 0 .. x>>
    <2>1. 0 .. y \subseteq 0 .. x /\ x \in 0 .. x /\ x \notin 0 .. y
      BY <1>5
    <2>2. p \in (SUBSET Nat) \X (SUBSET Nat)
      OBVIOUS
    <2>3. p[1] \subseteq p[2] /\ p[1] # p[2]
      BY <2>1
    <2>4. p \in StrictSubsetOrdering(Nat)
      <3> HIDE DEF p
      <3> QED
        BY <2>2, <2>3 DEF StrictSubsetOrdering
    <2> QED
      BY <1>4, <2>4
  <1> QED
    BY <1>5

LEMMA SetInduction ==
  ASSUME NEW S \in SUBSET Nat, 0 \in S, \A n \in Nat : n \in S => n + 1 \in S
  PROVE  S = Nat
  <1> SUFFICES ASSUME Nat \ S # {}
               PROVE  FALSE
    OBVIOUS
  <1>1. PICK x \in Nat \ S : \A y \in Nat \ S : x <= y
    BY LeastNat
  <1>2. x - 1 \in Nat \ S
    BY <1>1
  <1> QED
    BY <1>1, <1>2

-----------------------------------------------------------------------------
(* hash *)

HashStep(key, val, i) == IF i = 0 THEN 0 ELSE Signed(val[i - 1] * CharRange + key[i])

IsHashing(key, val, n) == val = [i \in 0 .. n |-> HashStep(key, val, i)]

\* The recursion of hash defines a function, of as many values as there are
\* characters.
LEMMA HashingExists ==
  ASSUME NEW key \in Seq(Nat)
  PROVE  \A n \in Nat : \E val : IsHashing(key, val, n)
  <1> DEFINE S == {n \in Nat : \E val : IsHashing(key, val, n)}
  <1>1. 0 \in S
    <2>1. IsHashing(key, [i \in {0} |-> 0], 0)
      BY 0 .. 0 = {0} DEF IsHashing, HashStep
    <2> QED
      BY <2>1
  <1>2. ASSUME NEW n \in Nat, n \in S
        PROVE  n + 1 \in S
    <2>1. PICK val : IsHashing(key, val, n)
      BY <1>2
    <2> DEFINE next == [i \in 0 .. n + 1 |->
                          IF i = n + 1 THEN Signed(val[n] * CharRange + key[n + 1]) ELSE val[i]]
    <2>2. ASSUME NEW i \in 0 .. n + 1
          PROVE  next[i] = HashStep(key, next, i)
      <3>1. CASE i = n + 1
        BY <3>1 DEF HashStep
      <3>2. CASE i # n + 1
        <4>1. next[i] = val[i] /\ val[i] = HashStep(key, val, i)
          BY <2>1, <3>2 DEF IsHashing
        <4>2. i # 0 => next[i - 1] = val[i - 1]
          BY <3>2
        <4> QED
          BY <4>1, <4>2 DEF HashStep
      <3> QED
        BY <3>1, <3>2
    <2>3. IsHashing(key, next, n + 1)
      <3>1. next = [i \in 0 .. n + 1 |-> next[i]]
        OBVIOUS
      <3> HIDE DEF next
      <3> QED
        BY <2>2, <3>1 DEF IsHashing
    <2> QED
      BY <2>3
  <1>3. S = Nat
    <2> HIDE DEF S
    <2> QED
      BY <1>1, <1>2, SetInduction DEF S
  <1> QED
    BY <1>3

LEMMA HashingOfName ==
  ASSUME NEW key \in Seq(Nat)
  PROVE  \E val : IsHashing(key, val, Len(key)) /\ hash(key) = val[Len(key)]
  <1> Len(key) \in Nat
    BY LenProperties
  <1>1. PICK f : IsHashing(key, f, Len(key))
    BY HashingExists
  <1>2. f = [i \in 0 .. Len(key) |->
               IF i = 0 THEN 0 ELSE Signed(f[i - 1] * CharRange + key[i])]
    BY <1>1, Zenon DEF IsHashing, HashStep
  <1>3. \E g : /\ hash(key) = g[Len(key)]
               /\ g = [i \in 0 .. Len(key) |->
                         IF i = 0 THEN 0 ELSE Signed(g[i - 1] * CharRange + key[i])]
    BY <1>2, Zenon DEF hash
  <1> QED
    BY <1>3, Zenon DEF IsHashing, HashStep

\* What an int holds of a name: its last four characters, each below half the
\* range of a char, so that the sign bit is clear.
Half == CharRange \div 2

Quad(a, b, c, d) == ((a * CharRange + b) * CharRange + c) * CharRange + d

Quads == {Quad(a, b, c, d) : a, b, c, d \in 0 .. Half - 1}

LEMMA HalfOfChar == Half \in Nat /\ CharRange \in Nat \ {0} /\ CharRange = 2 * Half
  BY EnvAssumption DEF Half

LEMMA QuadBound ==
  ASSUME NEW a \in 0 .. Half - 1, NEW b \in 0 .. Half - 1,
         NEW c \in 0 .. Half - 1, NEW d \in 0 .. Half - 1
  PROVE  Quad(a, b, c, d) \in Nat /\ 2 * Quad(a, b, c, d) < IntRange
  <1> DEFINE C == CharRange
             H == Half
  <1>1. H \in Nat /\ C \in Nat /\ C = 2 * H
    BY HalfOfChar
  <1> HIDE DEF C, H
  <1>2. a \in 0 .. H - 1 /\ b \in 0 .. H - 1 /\ c \in 0 .. H - 1 /\ d \in 0 .. H - 1
    BY DEF H
  <1>3. a * C + b \in Nat /\ a * C + b < H * C
    BY <1>1, <1>2
  <1>4. (a * C + b) * C + c \in Nat /\ (a * C + b) * C + c < H * C * C
    BY <1>1, <1>2, <1>3
  <1>5. /\ ((a * C + b) * C + c) * C + d \in Nat
        /\ ((a * C + b) * C + c) * C + d < H * C * C * C
    BY <1>1, <1>2, <1>4
  <1>6. 2 * (H * C * C * C) = C * C * C * C
    BY <1>1
  <1>7. H * C * C * C \in Nat
    BY <1>1
  <1>8. Quad(a, b, c, d) \in Nat /\ 2 * Quad(a, b, c, d) < C * C * C * C
    BY <1>5, <1>6, <1>7 DEF Quad, C
  <1> QED
    BY <1>8 DEF IntRange, C

LEMMA IntRangeType == IntRange \in Nat \ {0}
  BY HalfOfChar DEF IntRange

LEMMA Remainder ==
  ASSUME NEW M \in Nat \ {0}, NEW q \in Nat, NEW r \in Nat, r < M, NEW x \in Nat, x = q * M + r
  PROVE  x % M = r
  BY SMTT(30)

\* One more character shifts the first of the four out.
LEMMA QuadStep ==
  ASSUME NEW x \in Quads, NEW k \in 0 .. Half - 1
  PROVE  Signed(x * CharRange + k) \in Quads
  <1> DEFINE C == CharRange
  <1>1. PICK a \in 0 .. Half - 1, b \in 0 .. Half - 1, c \in 0 .. Half - 1, d \in 0 .. Half - 1 :
          x = Quad(a, b, c, d)
    BY DEF Quads
  <1> DEFINE r == Quad(b, c, d, k)
  <1>2. r \in Nat /\ 2 * r < IntRange
    BY QuadBound
  <1>3. C \in Nat /\ a \in Nat /\ b \in Nat /\ c \in Nat /\ d \in Nat /\ k \in Nat
    BY HalfOfChar
  <1>4. x * C + k = a * IntRange + r
    <2> HIDE DEF C
    <2>1. IntRange = C * C * C * C
      BY DEF IntRange, C
    <2>2. x = ((a * C + b) * C + c) * C + d /\ r = ((b * C + c) * C + d) * C + k
      BY <1>1 DEF Quad, C
    <2> QED
      BY <1>3, <2>1, <2>2
  <1>5. (x * C + k) % IntRange = r
    <2> HIDE DEF r, C
    <2>1. a * IntRange + r \in Nat /\ r < IntRange
      BY <1>2, <1>3, IntRangeType
    <2> QED
      BY <1>2, <1>3, <1>4, <2>1, IntRangeType, Remainder
  <1>6. ~(r >= IntRange \div 2)
    <2> HIDE DEF r
    <2>1. \A m \in Nat : \A y \in Nat : 2 * y < 2 * m => y < m
      OBVIOUS
    <2>2. IntRange \div 2 \in Nat /\ IntRange = 2 * (IntRange \div 2)
      <3> DEFINE G == Half * C * C * C
      <3>1. IntRange = 2 * G /\ G \in Nat
        BY HalfOfChar DEF IntRange
      <3> HIDE DEF G
      <3> QED
        BY <3>1
    <2> QED
      BY <1>2, <2>2
  <1>7. Signed(x * C + k) = r
    BY <1>5, <1>6 DEF Signed
  <1> QED
    BY <1>7 DEF Quads

\* The hash of a name is what its last four characters make, never negative.
LEMMA HashIsQuad ==
  ASSUME NEW n \in Names
  PROVE  hash(n) \in Quads
  <1>1. n \in Seq(Nat)
    BY NamesAssumption
  <1>2. PICK val : IsHashing(n, val, Len(n)) /\ hash(n) = val[Len(n)]
    BY <1>1, HashingOfName
  <1>3. Len(n) \in Nat /\ DOMAIN n = 1 .. Len(n)
    BY <1>1, LenProperties
  <1> DEFINE S == {i \in Nat : i <= Len(n) => val[i] \in Quads}
  <1>4. \A i \in 0 .. Len(n) : val[i] = HashStep(n, val, i)
    BY <1>2 DEF IsHashing
  <1>5. 0 \in S
    <2>1. CASE Half = 0
      <3>1. CharRange = 0
        BY <2>1, HalfOfChar
      <3> QED
        BY <3>1, HalfOfChar
    <2>2. CASE Half # 0
      <3>1. 0 \in 0 .. Half - 1
        BY <2>2, HalfOfChar
      <3>2. Quad(0, 0, 0, 0) = 0
        BY HalfOfChar DEF Quad
      <3>3. 0 \in Quads
        BY <3>1, <3>2 DEF Quads
      <3>4. val[0] = 0
        BY <1>3, <1>4 DEF HashStep
      <3> QED
        BY <3>3, <3>4
    <2> QED
      BY <2>1, <2>2
  <1>6. ASSUME NEW i \in Nat, i \in S
        PROVE  i + 1 \in S
    <2> SUFFICES ASSUME i + 1 <= Len(n)
                 PROVE  val[i + 1] \in Quads
      OBVIOUS
    <2>1. val[i] \in Quads
      BY <1>3, <1>6
    <2>2. n[i + 1] \in 0 .. Half - 1
      <3>1. n[i + 1] \in Nat /\ 2 * n[i + 1] < CharRange
        BY <1>1, <1>3, NamesAssumption, ElementOfSeq
      <3> QED
        BY <3>1, HalfOfChar
    <2>3. val[i + 1] = Signed(val[i] * CharRange + n[i + 1])
      <3>1. i + 1 \in 0 .. Len(n) /\ i + 1 # 0 /\ i + 1 - 1 = i
        BY <1>3
      <3> QED
        BY <1>4, <3>1 DEF HashStep
    <2> QED
      BY <2>1, <2>2, <2>3, QuadStep
  <1>7. S = Nat
    <2> HIDE DEF S
    <2> QED
      BY <1>5, <1>6, SetInduction DEF S
  <1>8. Len(n) \in S
    BY <1>3, <1>7
  <1> QED
    BY <1>2, <1>3, <1>8

LEMMA HashIsNatural ==
  ASSUME NEW n \in Names
  PROVE  hash(n) \in Nat /\ Key(n) \in 0 .. ENVSIZE - 1
  <1>1. hash(n) \in Nat
    BY HashIsQuad, QuadBound DEF Quads
  <1>2. \A x \in Nat : x % ENVSIZE \in 0 .. ENVSIZE - 1
    BY EnvAssumption
  <1> QED
    BY <1>1, <1>2 DEF Key, Keys

-----------------------------------------------------------------------------
(* Chains *)

Bound   == Values \cup {Undef}
Binding == [name : Names, value : Bound]

\* A chain that holds the names of one key, each once.
ChainSound(key, chain) ==
  \A i \in 1 .. Len(chain) :
    /\ Key(chain[i].name) = key
    /\ \A j \in 1 .. i - 1 : chain[j].name # chain[i].name

Lookup(chain, n) ==
  IF Places(chain, n) = {} THEN Undef ELSE chain[CHOOSE i \in Places(chain, n) : TRUE].value

\* In a sound chain the search finds the one binding of a name, or none.
LEMMA PlaceOfKnown ==
  ASSUME NEW chain \in Seq(Binding), NEW key, ChainSound(key, chain),
         NEW n \in Names, NEW i \in 1 .. Len(chain), chain[i].name = n
  PROVE  Places(chain, n) = {i} /\ Lookup(chain, n) = chain[i].value
  <1> Len(chain) \in Nat
    BY LenProperties
  <1>1. i \in Places(chain, n)
    BY DEF Places, SameName, ChainSound
  <1>2. ASSUME NEW j \in Places(chain, n)
        PROVE  j = i
    BY <1>1, <1>2 DEF Places, SameName
  <1>3. Places(chain, n) = {i}
    BY <1>1, <1>2
  <1> QED
    BY <1>3 DEF Lookup

LEMMA PlaceOfUnknown ==
  ASSUME NEW chain, NEW n, \A i \in 1 .. Len(chain) : chain[i].name # n
  PROVE  Places(chain, n) = {} /\ Lookup(chain, n) = Undef
  BY DEF Places, SameName, Lookup

\* Adding a binding at the head.
LEMMA Prepend ==
  ASSUME NEW chain \in Seq(Binding), NEW b \in Binding
  PROVE  /\ <<b>> \o chain \in Seq(Binding)
         /\ Len(<<b>> \o chain) = Len(chain) + 1
         /\ (<<b>> \o chain)[1] = b
         /\ \A i \in 1 .. Len(chain) : (<<b>> \o chain)[i + 1] = chain[i]
  <1>1. <<b>> \in Seq(Binding) /\ Len(<<b>>) = 1 /\ <<b>>[1] = b
    OBVIOUS
  <1>2. Len(chain) \in Nat
    BY LenProperties
  <1> QED
    BY <1>1, <1>2, ConcatProperties

LEMMA PrependSound ==
  ASSUME NEW chain \in Seq(Binding), NEW b \in Binding,
         ChainSound(Key(b.name), chain), Places(chain, b.name) = {}
  PROVE  /\ ChainSound(Key(b.name), <<b>> \o chain)
         /\ Lookup(<<b>> \o chain, b.name) = b.value
         /\ \A m \in Names : m # b.name => Lookup(<<b>> \o chain, m) = Lookup(chain, m)
  <1> DEFINE key  == Key(b.name)
             next == <<b>> \o chain
  <1>1. /\ next \in Seq(Binding) /\ Len(next) = Len(chain) + 1 /\ next[1] = b
        /\ \A i \in 1 .. Len(chain) : next[i + 1] = chain[i]
    BY Prepend
  <1>2. Len(chain) \in Nat /\ b.name \in Names
    BY LenProperties DEF Binding
  <1>3. \A i \in 1 .. Len(chain) : chain[i].name # b.name
    <2>1. ASSUME NEW i \in 1 .. Len(chain), chain[i].name = b.name
          PROVE  FALSE
      BY <1>2, <2>1, PlaceOfKnown
    <2> QED
      BY <2>1
  <1> HIDE DEF next, key
  <1>4. ChainSound(key, next)
    <2> SUFFICES ASSUME NEW i \in 1 .. Len(next)
                 PROVE  /\ Key(next[i].name) = key
                        /\ \A j \in 1 .. i - 1 : next[j].name # next[i].name
      BY DEF ChainSound
    <2>1. CASE i = 1
      BY <1>1, <2>1 DEF key
    <2>2. CASE i # 1
      <3>1. i - 1 \in 1 .. Len(chain) /\ next[i] = chain[i - 1]
        BY <1>1, <1>2, <2>2
      <3>2. Key(next[i].name) = key
        BY <3>1 DEF ChainSound, key
      <3>3. ASSUME NEW j \in 1 .. i - 1
            PROVE  next[j].name # next[i].name
        <4>1. CASE j = 1
          BY <1>1, <1>3, <3>1, <4>1
        <4>2. CASE j # 1
          <5>1. j - 1 \in 1 .. (i - 1) - 1 /\ j - 1 \in 1 .. Len(chain)
            BY <1>2, <3>1, <4>2
          <5>2. next[j] = chain[j - 1]
            BY <1>1, <5>1
          <5> QED
            BY <3>1, <5>1, <5>2 DEF ChainSound
        <4> QED
          BY <4>1, <4>2
      <3> QED
        BY <3>2, <3>3
    <2> QED
      BY <2>1, <2>2
  <1>5. Lookup(next, b.name) = b.value
    <2>1. 1 \in 1 .. Len(next)
      BY <1>1, <1>2
    <2> QED
      BY <1>1, <1>2, <1>4, <2>1, PlaceOfKnown
  <1>6. ASSUME NEW m \in Names, m # b.name
        PROVE  Lookup(next, m) = Lookup(chain, m)
    <2>1. CASE \E i \in 1 .. Len(chain) : chain[i].name = m
      <3>1. PICK i \in 1 .. Len(chain) : chain[i].name = m
        BY <2>1
      <3>2. Lookup(chain, m) = chain[i].value
        BY <3>1, PlaceOfKnown
      <3>3. i + 1 \in 1 .. Len(next) /\ next[i + 1] = chain[i]
        BY <1>1, <1>2
      <3>4. next \in Seq(Binding) /\ next[i + 1].name = m
        BY <1>1, <3>1, <3>3
      <3>5. Lookup(next, m) = next[i + 1].value
        BY <1>4, <3>3, <3>4, PlaceOfKnown
      <3> QED
        BY <3>2, <3>3, <3>5
    <2>2. CASE ~\E i \in 1 .. Len(chain) : chain[i].name = m
      <3>1. ASSUME NEW i \in 1 .. Len(next)
            PROVE  next[i].name # m
        <4>1. CASE i = 1
          BY <1>1, <1>6, <4>1
        <4>2. CASE i # 1
          <5>1. i - 1 \in 1 .. Len(chain) /\ next[i] = chain[i - 1]
            BY <1>1, <1>2, <4>2
          <5> QED
            BY <2>2, <5>1
        <4> QED
          BY <4>1, <4>2
      <3> QED
        BY <2>2, <3>1, PlaceOfUnknown
    <2> QED
      BY <2>1, <2>2
  <1> QED
    BY <1>4, <1>5, <1>6 DEF next, key

\* Storing a value into the binding of a name.
LEMMA RewriteSound ==
  ASSUME NEW chain \in Seq(Binding), NEW n \in Names, NEW i \in 1 .. Len(chain),
         ChainSound(Key(n), chain), chain[i].name = n,
         NEW next \in Seq(Binding), Len(next) = Len(chain),
         \A j \in 1 .. Len(chain) : next[j].name = chain[j].name,
         \A j \in 1 .. Len(chain) : j # i => next[j] = chain[j]
  PROVE  /\ ChainSound(Key(n), next)
         /\ Lookup(next, n) = next[i].value
         /\ \A m \in Names : m # n => Lookup(next, m) = Lookup(chain, m)
  <1>1. Len(chain) \in Nat
    BY LenProperties
  <1>2. ChainSound(Key(n), next)
    <2> SUFFICES ASSUME NEW j \in 1 .. Len(chain)
                 PROVE  /\ Key(next[j].name) = Key(n)
                        /\ \A k \in 1 .. j - 1 : next[k].name # next[j].name
      BY DEF ChainSound
    <2>1. \A k \in 1 .. j - 1 : k \in 1 .. Len(chain)
      BY <1>1
    <2> QED
      BY <2>1 DEF ChainSound
  <1>3. Lookup(next, n) = next[i].value
    BY <1>2, PlaceOfKnown
  <1>4. ASSUME NEW m \in Names, m # n
        PROVE  Lookup(next, m) = Lookup(chain, m)
    <2>1. CASE \E j \in 1 .. Len(chain) : chain[j].name = m
      <3>1. PICK j \in 1 .. Len(chain) : chain[j].name = m
        BY <2>1
      <3>2. Lookup(chain, m) = chain[j].value
        BY <3>1, PlaceOfKnown
      <3>3. Lookup(next, m) = next[j].value
        BY <1>2, <3>1, PlaceOfKnown
      <3>4. j # i
        BY <1>4, <3>1
      <3> QED
        BY <3>2, <3>3, <3>4
    <2>2. CASE ~\E j \in 1 .. Len(chain) : chain[j].name = m
      <3>1. \A j \in 1 .. Len(next) : next[j].name # m
        BY <2>2
      <3> QED
        BY <2>2, <3>1, PlaceOfUnknown
    <2> QED
      BY <2>1, <2>2
  <1> QED
    BY <1>2, <1>3, <1>4

LEMMA OverwriteSound ==
  ASSUME NEW chain \in Seq(Binding), NEW n \in Names, NEW v \in Bound,
         ChainSound(Key(n), chain), Places(chain, n) # {}
  PROVE  LET place == CHOOSE i \in Places(chain, n) : TRUE
             next  == [chain EXCEPT ![place] = [chain[place] EXCEPT !.value = v]]
         IN  /\ next \in Seq(Binding)
             /\ ChainSound(Key(n), next)
             /\ Lookup(next, n) = v
             /\ \A m \in Names : m # n => Lookup(next, m) = Lookup(chain, m)
  <1> DEFINE place == CHOOSE i \in Places(chain, n) : TRUE
             b     == [chain[place] EXCEPT !.value = v]
             next  == [chain EXCEPT ![place] = b]
  <1>1. place \in 1 .. Len(chain) /\ chain[place].name = n
    BY DEF Places, SameName
  <1> HIDE DEF place
  <1>2. Len(chain) \in Nat /\ DOMAIN chain = 1 .. Len(chain)
    BY LenProperties
  <1>3. \A j \in 1 .. Len(chain) : chain[j] \in Binding
    BY <1>2, ElementOfSeq
  <1>4. b \in Binding /\ b.name = chain[place].name /\ b.value = v
    <2>1. chain[place] \in Binding
      BY <1>1, <1>3
    <2> QED
      BY <2>1 DEF Binding
  <1> HIDE DEF b
  <1>5. next \in Seq(Binding) /\ Len(next) = Len(chain) /\ next[place] = b
    BY <1>1, <1>4, ExceptSeq
  <1>6. \A j \in 1 .. Len(chain) : j # place => next[j] = chain[j]
    BY <1>2
  <1>7. \A j \in 1 .. Len(chain) : next[j].name = chain[j].name
    BY <1>4, <1>5, <1>6
  <1> HIDE DEF next
  <1>8. /\ ChainSound(Key(n), next)
        /\ Lookup(next, n) = next[place].value
        /\ \A m \in Names : m # n => Lookup(next, m) = Lookup(chain, m)
    BY <1>1, <1>5, <1>6, <1>7, RewriteSound
  <1> QED
    BY <1>4, <1>5, <1>8 DEF next, b, place

-----------------------------------------------------------------------------
(* The invariant *)

EnvType ==
  /\ env \in [0 .. ENVSIZE - 1 -> Seq(Binding)]
  /\ pc \in {"idle", "string_cell", "entry", "chain", "write", "exited"}
  /\ name \in Names

ChainsSound == \A key \in 0 .. ENVSIZE - 1 : ChainSound(key, env[key])

\* What set_var has pushed: the value; the name over the value; the binding
\* over the chain it is to head, which nothing has changed since the look-up.
StackHolds ==
  /\ pc \in {"string_cell", "write"} => \E v \in Bound : stack = <<v>>
  /\ pc = "entry" => \E v \in Bound : stack = <<name, v>>
  /\ pc = "chain" => \E v \in Bound : stack = <<[name |-> name, value |-> v], env[Key(name)]>>

\* The look-up still holds when its answer is used.
LookedUp ==
  /\ pc = "write" => HasChain(name)
  /\ pc \in {"entry", "chain"} => ~HasChain(name)

FreshReads == stale \cap Reads = {}

IInv == EnvType /\ ChainsSound /\ StackHolds /\ LookedUp /\ FreshReads

LEMMA InitIInv ==
  ASSUME Init
  PROVE  IInv
  <1>1. ASSUME NEW key
        PROVE  <<>> \in Seq(Binding) /\ ChainSound(key, <<>>)
    BY DEF ChainSound
  <1> QED
    BY <1>1 DEF Init, IInv, EnvType, ChainsSound, StackHolds, LookedUp, FreshReads, Reads

\* A chain that stays sound keeps the table sound.
LEMMA StoreChain ==
  ASSUME EnvType, ChainsSound, NEW next \in Seq(Binding), ChainSound(Key(name), next),
         env' = [env EXCEPT ![Key(name)] = next], UNCHANGED name
  PROVE  /\ env' \in [0 .. ENVSIZE - 1 -> Seq(Binding)]
         /\ ChainsSound'
  <1>1. Key(name) \in 0 .. ENVSIZE - 1
    BY HashIsNatural DEF EnvType
  <1> QED
    BY <1>1 DEF EnvType, ChainsSound

LEMMA WriteStore ==
  ASSUME IInv, WriteKnown
  PROVE  \E next \in Seq(Binding), v \in Bound :
           /\ env' = [env EXCEPT ![Key(name)] = next]
           /\ ChainSound(Key(name), next)
           /\ Lookup(next, name) = v
           /\ \A m \in Names : m # name => Lookup(next, m) = Lookup(env[Key(name)], m)
  <1> DEFINE chain == env[Key(name)]
             place == CHOOSE i \in Places(chain, name) : TRUE
             next  == [chain EXCEPT ![place] = [chain[place] EXCEPT !.value = stack[1]]]
  <1>1. Key(name) \in 0 .. ENVSIZE - 1 /\ name \in Names
    BY HashIsNatural DEF IInv, EnvType
  <1>2. chain \in Seq(Binding) /\ ChainSound(Key(name), chain) /\ Places(chain, name) # {}
    BY <1>1 DEF IInv, EnvType, ChainsSound, LookedUp, HasChain, WriteKnown
  <1>3. stack[1] \in Bound
    BY DEF IInv, StackHolds, WriteKnown
  <1>4. env' = [env EXCEPT ![Key(name)] = next]
    BY DEF WriteKnown
  <1>5. /\ next \in Seq(Binding)
        /\ ChainSound(Key(name), next)
        /\ Lookup(next, name) = stack[1]
        /\ \A m \in Names : m # name => Lookup(next, m) = Lookup(chain, m)
    BY <1>1, <1>2, <1>3, OverwriteSound
  <1> HIDE DEF next
  <1> QED
    BY <1>3, <1>4, <1>5

LEMMA PairStore ==
  ASSUME IInv, PairChain
  PROVE  \E next \in Seq(Binding), v \in Bound :
           /\ env' = [env EXCEPT ![Key(name)] = next]
           /\ ChainSound(Key(name), next)
           /\ Lookup(next, name) = v
           /\ \A m \in Names : m # name => Lookup(next, m) = Lookup(env[Key(name)], m)
  <1> DEFINE chain == env[Key(name)]
  <1>1. Key(name) \in 0 .. ENVSIZE - 1 /\ name \in Names
    BY HashIsNatural DEF IInv, EnvType
  <1>2. chain \in Seq(Binding) /\ ChainSound(Key(name), chain) /\ Places(chain, name) = {}
    BY <1>1 DEF IInv, EnvType, ChainsSound, LookedUp, HasChain, PairChain
  <1>3. PICK v \in Bound : stack = <<[name |-> name, value |-> v], chain>>
    BY DEF IInv, StackHolds, PairChain
  <1> DEFINE b    == [name |-> name, value |-> v]
             next == <<b>> \o chain
  <1>4. b \in Binding /\ b.name = name /\ b.value = v
    BY <1>1 DEF Binding
  <1>5. env' = [env EXCEPT ![Key(name)] = next]
    BY <1>3 DEF PairChain
  <1> HIDE DEF b, chain
  <1>6. /\ next \in Seq(Binding)
        /\ ChainSound(Key(name), next)
        /\ Lookup(next, name) = v
        /\ \A m \in Names : m # name => Lookup(next, m) = Lookup(chain, m)
    BY <1>2, <1>4, Prepend, PrependSound
  <1> HIDE DEF next
  <1> QED
    BY <1>5, <1>6 DEF chain

LEMMA NextIInv ==
  ASSUME IInv, [Next]_vars
  PROVE  IInv'
  <1> USE DEF IInv
  <1>1. Key(name) \in 0 .. ENVSIZE - 1
    BY HashIsNatural DEF EnvType
  <1>2. ASSUME NEW n \in Names, NEW v \in Values \cup {Undef}, SetVar(n, v)
        PROVE  IInv'
    BY <1>2 DEF SetVar, EnvType, ChainsSound, StackHolds, LookedUp, HasChain, FreshReads, Reads, Bound
  <1>3. CASE StringCell
    <2>1. EnvType' /\ ChainsSound'
      BY <1>3 DEF StringCell, EnvType, ChainsSound
    <2>2. stale' = {}
      BY <1>3 DEF StringCell, Allocates, HeldDuringString
    <2>3. PICK v \in Bound : stack = <<v>>
      BY <1>3 DEF StringCell, StackHolds
    <2>4. <<name>> \o stack = <<name, v>>
      <3> DEFINE S == {name, v}
                 t == <<name>> \o <<v>>
      <3>1. <<name>> \in Seq(S) /\ <<v>> \in Seq(S) /\ Len(<<name>>) = 1 /\ Len(<<v>>) = 1
        OBVIOUS
      <3>2. t \in Seq(S) /\ Len(t) = 2 /\ t[1] = name /\ t[2] = v
        BY <3>1, ConcatProperties
      <3> HIDE DEF t
      <3>3. t = <<name, v>>
        BY <3>2
      <3> QED
        BY <2>3, <3>3 DEF t
    <2>5. StackHolds'
      BY <1>3, <2>3, <2>4 DEF StringCell, StackHolds
    <2>6. LookedUp' /\ FreshReads'
      BY <1>3, <2>2 DEF StringCell, LookedUp, HasChain, FreshReads, Reads
    <2> QED
      BY <2>1, <2>5, <2>6
  <1>4. CASE WriteKnown
    <2>1. EnvType' /\ ChainsSound'
      BY <1>4, WriteStore, StoreChain DEF WriteKnown, EnvType
    <2>2. StackHolds' /\ LookedUp' /\ FreshReads'
      BY <1>4 DEF WriteKnown, StackHolds, LookedUp, FreshReads, Reads
    <2> QED
      BY <2>1, <2>2
  <1>5. CASE PairEntry
    <2>1. EnvType' /\ ChainsSound'
      BY <1>5 DEF PairEntry, EnvType, ChainsSound
    <2>2. PICK v \in Bound : stack = <<name, v>>
      BY <1>5 DEF PairEntry, StackHolds
    <2>3. StackHolds'
      BY <1>5, <2>2 DEF PairEntry, StackHolds
    <2>4. LookedUp' /\ FreshReads'
      BY <1>5 DEF PairEntry, Allocates, LookedUp, HasChain, FreshReads, Reads
    <2> QED
      BY <2>1, <2>3, <2>4
  <1>6. CASE PairChain
    <2>1. EnvType' /\ ChainsSound'
      BY <1>6, PairStore, StoreChain DEF PairChain, EnvType
    <2>2. StackHolds' /\ LookedUp' /\ FreshReads'
      BY <1>6 DEF PairChain, StackHolds, LookedUp, FreshReads, Reads
    <2> QED
      BY <2>1, <2>2
  <1>7. CASE Exhausted
    BY <1>7 DEF Exhausted, EnvType, ChainsSound, StackHolds, LookedUp, FreshReads, Reads
  <1>8. CASE UNCHANGED vars
    BY <1>8 DEF vars, EnvType, ChainsSound, StackHolds, LookedUp, HasChain, FreshReads, Reads
  <1> QED
    BY <1>2, <1>3, <1>4, <1>5, <1>6, <1>7, <1>8 DEF Next, Terminated

LEMMA Invariance == Spec => []IInv
  <1>1. Init => IInv
    BY InitIInv
  <1>2. IInv /\ [Next]_vars => IInv'
    BY NextIInv
  <1> QED
    BY <1>1, <1>2, PTL DEF Spec

\* Whatever names are defined in whatever order, and whichever allocations
\* collect, each name has at most one binding, in the chain of its key (set_var
\* and get_chain); the key is the index of a chain, as the hash of a name is
\* never negative (hash); and no C variable is read whose cell has moved.
THEOREM EnvironmentSound == Spec => []EnvSound
  <1>1. ASSUME IInv
        PROVE  EnvSound
    <2>1. DOMAIN env = 0 .. ENVSIZE - 1
      BY <1>1 DEF IInv, EnvType
    <2>2. \A n \in Names : hash(n) >= 0
      BY HashIsNatural
    <2> QED
      BY <1>1, <2>1, <2>2 DEF IInv, ChainsSound, ChainSound, FreshReads, EnvSound
  <1>2. IInv => EnvSound
    BY <1>1
  <1> QED
    BY <1>2, Invariance, PTL

-----------------------------------------------------------------------------
(* The refinement *)

LEMMA GetVarIsLookup ==
  \A n \in Names : get_var(n) = Lookup(env[Key(n)], n)
  BY DEF get_var, Lookup

\* A store gives the name its value and leaves every other name alone, those of
\* the same chain included.
LEMMA StoreDefines ==
  ASSUME IInv, UNCHANGED name,
         \E next \in Seq(Binding), v \in Bound :
           /\ env' = [env EXCEPT ![Key(name)] = next]
           /\ ChainSound(Key(name), next)
           /\ Lookup(next, name) = v
           /\ \A m \in Names : m # name => Lookup(next, m) = Lookup(env[Key(name)], m)
  PROVE  \E v \in Values \cup {Undef} : Map!Define(name, v)
  <1>1. PICK next \in Seq(Binding), v \in Bound :
           /\ env' = [env EXCEPT ![Key(name)] = next]
           /\ ChainSound(Key(name), next)
           /\ Lookup(next, name) = v
           /\ \A m \in Names : m # name => Lookup(next, m) = Lookup(env[Key(name)], m)
    OBVIOUS
  <1>2. name \in Names /\ Key(name) \in 0 .. ENVSIZE - 1 /\ DOMAIN env = 0 .. ENVSIZE - 1
    BY HashIsNatural DEF IInv, EnvType
  <1>3. valueOf' = [n \in Names |-> Lookup(env'[Key(n)], n)]
    BY DEF valueOf, get_var, Lookup
  <1>4. valueOf = [n \in Names |-> Lookup(env[Key(n)], n)]
    BY DEF valueOf, get_var, Lookup
  <1>5. ASSUME NEW m \in Names
        PROVE  Lookup(env'[Key(m)], m) = IF m = name THEN v ELSE Lookup(env[Key(m)], m)
    <2>1. Key(m) \in 0 .. ENVSIZE - 1
      BY HashIsNatural
    <2>2. CASE Key(m) = Key(name)
      BY <1>1, <1>2, <2>2
    <2>3. CASE Key(m) # Key(name)
      BY <1>1, <1>2, <2>1, <2>3
    <2> QED
      BY <2>2, <2>3
  <1>6. valueOf' = [valueOf EXCEPT ![name] = v]
    BY <1>2, <1>3, <1>4, <1>5
  <1> QED
    BY <1>6 DEF Map!Define, Bound

\* set_var, with its hash keys, its chains and its allocations, each of which
\* may collect or end the program, implements the map of Bindings: a name gets
\* its value at one moment, and no other name is disturbed.
THEOREM EnvironmentIsMap == Spec => ImplementsBindings
  <1>1. Init => Map!Init
    <2> SUFFICES ASSUME Init
                 PROVE  valueOf = [n \in Names |-> Undef]
      BY DEF Map!Init
    <2>1. ASSUME NEW n \in Names
          PROVE  get_var(n) = Undef
      <3>1. env[Key(n)] = <<>>
        BY HashIsNatural DEF Init
      <3>2. Lookup(<<>>, n) = Undef
        BY PlaceOfUnknown
      <3> QED
        BY <3>1, <3>2, GetVarIsLookup
    <2> QED
      BY <2>1 DEF valueOf
  <1>2. ASSUME IInv, [Next]_vars
        PROVE  [Map!Next]_valueOf
    <2>1. name \in Names
      BY <1>2 DEF IInv, EnvType
    <2>2. CASE WriteKnown
      <3>1. \E v \in Values \cup {Undef} : Map!Define(name, v)
        BY <1>2, <2>2, WriteStore, StoreDefines DEF WriteKnown
      <3> QED
        BY <2>1, <3>1 DEF Map!Next
    <2>3. CASE PairChain
      <3>1. \E v \in Values \cup {Undef} : Map!Define(name, v)
        BY <1>2, <2>3, PairStore, StoreDefines DEF PairChain
      <3> QED
        BY <2>1, <3>1 DEF Map!Next
    <2>4. CASE UNCHANGED env
      <3>1. UNCHANGED valueOf
        BY <2>4 DEF valueOf, get_var
      <3> QED
        BY <3>1
    <2> QED
      BY <1>2, <2>2, <2>3, <2>4
         DEF Next, SetVar, StringCell, PairEntry, Exhausted, Terminated, vars
  <1>3. IInv /\ [Next]_vars => [Map!Next]_valueOf
    BY <1>2
  <1>4. Spec => Map!Init /\ [][Map!Next]_valueOf
    BY <1>1, <1>3, Invariance, PTL DEF Spec
  <1> QED
    BY <1>4 DEF ImplementsBindings, Map!Spec
=============================================================================
