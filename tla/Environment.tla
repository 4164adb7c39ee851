----------------------------- MODULE Environment -----------------------------
(***************************************************************************)
(* The environment of aquario.c: env is a table of chains, a chain a list  *)
(* of bindings, newest first.  set_var allocates up to three cells, and    *)
(* each allocation may collect, which moves every cell and updates the     *)
(* stack and env but no C variable.                                        *)
(*                                                                         *)
(* A name is the sequence of its characters.  A chain is the sequence of   *)
(* its bindings: that its cells survive is the promise of ObjectMemory.    *)
(***************************************************************************)
EXTENDS Integers, Sequences, FiniteSets

CONSTANTS Names,       \* some names
          Values,      \* values a name is given
          Undef,       \* AQ_UNDEF
          ENVSIZE,
          CharRange    \* how many values a char has: an int holds four

ASSUME EnvAssumption == ENVSIZE \in Nat \ {0} /\ CharRange \in Nat \ {0} /\ CharRange % 2 = 0

\* Names of ASCII characters: a char is signed, and none is negative or zero.
ASSUME NamesAssumption ==
  /\ Names \subseteq Seq(Nat)
  /\ \A n \in Names : \A i \in DOMAIN n : 0 < n[i] /\ 2 * n[i] < CharRange

VARIABLES env,
          stack,     \* what set_var has pushed
          pc,        \* "idle", at an allocation, at the store, or "exited"
          name,      \* the name being set
          stale      \* C variables whose cell a collection has moved

vars == <<env, stack, pc, name, stale>>

-----------------------------------------------------------------------------
(* hash and get_chain *)

IntRange == CharRange * CharRange * CharRange * CharRange

Signed(n) == LET low == n % IntRange IN IF low >= IntRange \div 2 THEN low - IntRange ELSE low

hash(key) ==
  LET val[i \in 0 .. Len(key)] ==
        IF i = 0 THEN 0 ELSE Signed(val[i - 1] * CharRange + key[i])
  IN  val[Len(key)]

Keys   == [n \in Names |-> hash(n) % ENVSIZE]
Key(n) == Keys[n]

\* Mutant: names with one hash value are taken for one name.
SameHash(n, m) == hash(n) = hash(m)

\* strcmp
SameName(n, m) == n = m

\* The place of name n in a chain: the first that fits, or none.
Places(chain, n) ==
  {i \in 1 .. Len(chain) : /\ SameName(n, chain[i].name)
                           /\ \A j \in 1 .. i - 1 : ~SameName(n, chain[j].name)}

get_var(n) == LET chain == env[Key(n)]
              IN  IF Places(chain, n) = {} THEN Undef
                  ELSE chain[CHOOSE i \in Places(chain, n) : TRUE].value

-----------------------------------------------------------------------------
(* set_var and register_var *)

\* A collection leaves the C variables in use with the old addresses.
Allocates(inUse) == \E moves \in BOOLEAN : stale' = IF moves THEN inUse ELSE {}

\* Up to the allocation of the string: the value is on the stack.
SetVar(n, v) == /\ pc = "idle"
                /\ name' = n
                /\ stack' = <<v>>
                /\ pc' = "string_cell"
                /\ UNCHANGED <<env, stale>>

HasChain(n) == Places(env[Key(n)], n) # {}

\* Mutant: the value is kept in its variable across the allocation.
HeldAcrossString == {"c"}

HeldDuringString == {}

\* The string is made, the value comes back from the stack, and the chain is
\* looked up; for a new name the string and the value are pushed.
StringCell == /\ pc = "string_cell"
              /\ Allocates(HeldDuringString)
              /\ IF HasChain(name) THEN pc' = "write" /\ UNCHANGED stack
                 ELSE pc' = "entry" /\ stack' = <<name>> \o stack
              /\ UNCHANGED <<env, name>>

\* gc_write_barrier on the cdr of the binding.
WriteKnown ==
  LET key   == Key(name)
      place == CHOOSE i \in Places(env[key], name) : TRUE
  IN  /\ pc = "write"
      /\ env' = [env EXCEPT ![key][place].value = stack[1]]
      /\ stack' = <<>>
      /\ pc' = "idle"
      /\ UNCHANGED <<name, stale>>

\* pair_cell reads its arguments from the stack; the entry and the old chain
\* take their places.
PairEntry == /\ pc = "entry"
             /\ Allocates({"name_cell", "c"})
             /\ stack' = <<[name |-> stack[1], value |-> stack[2]], env[Key(name)]>>
             /\ pc' = "chain"
             /\ UNCHANGED <<env, name>>

PairChain == /\ pc = "chain"
             /\ Allocates({"name_cell", "c", "entry"})
             /\ env' = [env EXCEPT ![Key(name)] = <<stack[1]>> \o stack[2]]
             /\ stack' = <<>>
             /\ pc' = "idle"
             /\ UNCHANGED name

\* heap_exhausted_error
Exhausted == /\ pc \in {"string_cell", "entry", "chain"}
             /\ pc' = "exited"
             /\ UNCHANGED <<env, stack, name, stale>>

Init == /\ env = [key \in 0 .. ENVSIZE - 1 |-> <<>>]
        /\ stack = <<>>
        /\ pc = "idle"
        /\ name \in Names
        /\ stale = {}

Terminated == pc = "exited" /\ UNCHANGED vars

Next == \/ \E n \in Names, v \in Values \cup {Undef} : SetVar(n, v)
        \/ StringCell \/ WriteKnown \/ PairEntry \/ PairChain \/ Exhausted \/ Terminated

Spec == Init /\ [][Next]_vars

-----------------------------------------------------------------------------
(* Properties. *)

\* The C variables the code reads before its next allocation.
Reads == CASE pc = "write" -> {"chain", "c"}
           [] pc = "entry" -> {"name_cell", "c"}
           [] pc = "chain" -> {"entry"}
           [] OTHER        -> {}

\* Every name is bound at most once, in the chain of its key, which exists; no
\* variable is read after a collection has moved its cell.
EnvSound ==
  /\ \A key \in DOMAIN env : \A i \in 1 .. Len(env[key]) :
       /\ Key(env[key][i].name) = key
       /\ \A j \in 1 .. i - 1 : env[key][j].name # env[key][i].name
  /\ \A n \in Names : hash(n) >= 0
  /\ stale \cap Reads = {}

valueOf == [n \in Names |-> get_var(n)]

Map == INSTANCE Bindings WITH value <- valueOf

\* Chains, collisions and the three allocations behave like a map whose entry
\* changes at one moment, or never if memory runs out.
ImplementsBindings == Map!Spec
=============================================================================
