------------------------------ MODULE Bytecode ------------------------------
(***************************************************************************)
(* What the compiler and the virtual machine of aquario.c share: values,   *)
(* instructions with the bytes they occupy, and the buffer that holds them. *)
(*                                                                         *)
(* A value is what a Cell of the stack stands for.  Pairs, strings and     *)
(* symbols are known by their contents: no instruction changes one, and    *)
(* that the collectors keep the contents is what ObjectMemory promises.    *)
(* Which of two equal cells a value refers to is left open (see OP_EQ).    *)
(***************************************************************************)
EXTENDS Integers, Sequences

CONSTANTS strlen(_),    \* the length of a name or a string
          IntBits       \* the bits of a tagged integer: 31

ASSUME IntBitsAssumption == IntBits \in Nat \ {0}

Nil    == [t |-> "nil"]
True   == [t |-> "true"]
False  == [t |-> "false"]
Undef  == [t |-> "undef"]
SFrame == [t |-> "sframe"]

Sym(s)     == [t |-> "sym", s |-> s]
Str(s)     == [t |-> "str", s |-> s]
Pair(a, d) == [t |-> "pair", a |-> a, d |-> d]
Lambda(addr, params, dotted) ==
  [t |-> "lambda", addr |-> addr, params |-> params, dotted |-> dotted]

Bool(b) == IF b THEN True ELSE False

IsInt(v)  == v.t = "int"
IsPair(v) == v.t = "pair"
IsCell(v) == v.t \in {"sym", "str", "pair", "lambda"}

\* Mutant: the sign bit of the narrowed word is lost.
NarrowUnsigned(n) == n % 2^IntBits

\* make_integer shifts 32 bits left into a 64 bit word and INT_VALUE keeps the
\* low 32 before it shifts back, with the sign: the highest bit is lost.
Narrow(n) == LET low == n % 2^IntBits
             IN  IF low >= 2^(IntBits - 1) THEN low - 2^IntBits ELSE low

make_integer(n) == [t |-> "int", v |-> Narrow(n)]

AQ_INT_MAX == 2^(IntBits - 1) - 1
AQ_INT_MIN == -(2^(IntBits - 1))

-----------------------------------------------------------------------------
(* Instructions.  n and m are the operands that are numbers, s the name. *)

CellBytes == 8    \* sizeof(Cell)

WithNumber == {"PUSH", "JNEQ", "JMP", "SROT", "LOAD"}
WithName   == {"SET", "REF", "FUNC", "PUSH_STR", "PUSH_SYM"}
WithTwo    == {"FUND", "FUNDD"}

Inst(op, n, m, s) == [op |-> op, n |-> n, m |-> m, s |-> s]

Simple(op)      == Inst(op, 0, 0, "")
Numbered(op, n) == Inst(op, Narrow(n), 0, "")
Named(op, s)    == Inst(op, 0, 0, s)

\* create_inst_num, create_inst_str, create_inst: an opcode and its operands.
Size(inst) == IF inst.op \in WithNumber THEN 1 + CellBytes
              ELSE IF inst.op \in WithName THEN 1 + strlen(inst.s) + 1
              ELSE IF inst.op \in WithTwo THEN 1 + 2 * CellBytes
              ELSE 1

-----------------------------------------------------------------------------
(* The buffer: buf[a] is the instruction whose first byte is at a. *)

End(buf, a) == a + Size(buf[a])

\* Writing code over the bytes from first to last destroys what they held.
Overwritten(buf, first, last, code) ==
  LET kept == {a \in DOMAIN buf : End(buf, a) <= first \/ a >= last}
  IN  [a \in kept \cup DOMAIN code |-> IF a \in DOMAIN code THEN code[a] ELSE buf[a]]
=============================================================================
