------------------------------ MODULE Compiler ------------------------------
(***************************************************************************)
(* The compiler of aquario.c: from an expression, as the reader delivers   *)
(* it, to a queue of instructions with their offsets, and from the queue   *)
(* to the bytes at those offsets.                                          *)
(*                                                                         *)
(* Reading is not modelled: an expression is a tree.  A quoted datum is    *)
(* the value it stands for.                                                *)
(***************************************************************************)
EXTENDS Bytecode, SequencesExt

\* The expressions.
Num(n)            == [k |-> "num", n |-> n]
Name(s)           == [k |-> "name", s |-> s]
String(s)         == [k |-> "string", s |-> s]
Const(v)          == [k |-> "const", v |-> v]            \* nil, #t, #f
Quote(v)          == [k |-> "quote", v |-> v]
If(p, a, b)       == [k |-> "if", p |-> p, a |-> a, b |-> <<b>>]
When(p, a)        == [k |-> "if", p |-> p, a |-> a, b |-> <<>>]
Define(s, e)      == [k |-> "define", s |-> s, e |-> e]
Fun(ps, dot, es)  == [k |-> "lambda", ps |-> ps, dotted |-> dot, body |-> es]
Apply(f, args)    == [k |-> "apply", f |-> f, args |-> args]     \* (f a ...)
ApplyTo(e, args)  == [k |-> "applyto", e |-> e, args |-> args]   \* ((e ...) a ...)
EndOfInput        == [k |-> "eof"]

-----------------------------------------------------------------------------
(* The queue *)

NextOffset(q) == Last(q).at + Size(Last(q).inst)

add_inst_tail(q, inst) == Append(q, [at |-> NextOffset(q), inst |-> inst])

AddAll(q, insts) == FoldLeft(add_inst_tail, q, insts)

add_push_tail(q, num) == add_inst_tail(q, Numbered("PUSH", num))

\* The operands of instruction i become the offset of what comes next.
PatchedTo(q, i, target) == [q EXCEPT ![i].inst.n = Narrow(target)]

-----------------------------------------------------------------------------
(* compile_procedure *)

Opcode(f) == CASE f = ">"  -> "GT"  [] f = "<"  -> "LT"  [] f = "="   -> "EQUAL"
               [] f = ">=" -> "GTE" [] f = "<=" -> "LTE" [] f = "eq?" -> "EQ"
               [] f = "+"  -> "ADD" [] f = "*"  -> "MUL" [] f = "-"   -> "SUB"
               [] f = "/"  -> "DIV" [] f = "print" -> "PRINT"
               [] f = "cons" -> "CONS" [] f = "car" -> "CAR" [] f = "cdr" -> "CDR"

Arity(f) == IF f \in {"car", "cdr"} THEN 1 ELSE 2
Strict   == {">", "<", "<=", ">=", "=", "eq?", "cons", "car", "cdr"}

\* ERR_WRONG_NUMBER_ARGS in compile_procedure.
Malformed(e) == e.k = "apply" /\ e.f \in Strict /\ Len(e.args) # Arity(e.f)

\* compile_add and compile_sub look at the last instruction of the queue: 1 or 2
\* pushed as the second argument.
Merges(q, num) ==
  LET last == Last(q).inst IN last.op = "PUSH" /\ last.n \in {1, 2} /\ num = 2

Merged(op, n) == IF op = "ADD" THEN IF n = 1 THEN "ADD1" ELSE "ADD2"
                 ELSE IF n = 1 THEN "SUB1" ELSE "SUB2"

compile_procedure(f, num, q) ==
  IF f \in {"+", "-"} /\ Merges(q, num)
  THEN [q EXCEPT ![Len(q)].inst = Simple(Merged(Opcode(f), @.n))]
  ELSE IF f \in {"+", "*", "print"}
  THEN AddAll(q, <<Numbered("PUSH", num), Simple(Opcode(f))>>)
  ELSE IF f \in {"-", "/"}
  THEN AddAll(q, <<Numbered("PUSH", num - 1), Simple(Opcode(f))>>)
  ELSE IF f \in Strict
  THEN add_inst_tail(q, Simple(Opcode(f)))
  ELSE AddAll(q, <<Numbered("PUSH", num), Named("FUNC", f)>>)

-----------------------------------------------------------------------------
(* Atoms and quotes *)

\* create_inst_token, and compile_quoted_atom for symbols.
Atom(v) == CASE v.t = "int"   -> Numbered("PUSH", v.v)
             [] v.t = "str"   -> Named("PUSH_STR", v.s)
             [] v.t = "sym"   -> Named("PUSH_SYM", v.s)
             [] v.t = "nil"   -> Simple("PUSH_NIL")
             [] v.t = "true"  -> Simple("PUSH_TRUE")
             [] v.t = "false" -> Simple("PUSH_FALSE")

RECURSIVE compile_quoted(_, _)

\* compile_quoted_list: the elements from the first, then as many OP_CONS.
compile_quoted(q, v) ==
  IF IsPair(v)
  THEN add_inst_tail(compile_quoted(compile_quoted(q, v.a), v.d), Simple("CONS"))
  ELSE add_inst_tail(q, Atom(v))

\* The list (quote v) is built, and taken apart again by the two last.
compile_quote(q, v) ==
  AddAll(compile_quoted(add_inst_tail(q, Named("PUSH_SYM", "quote")), v),
         <<Simple("PUSH_NIL"), Simple("CONS"), Simple("CONS"), Simple("CDR"), Simple("CAR")>>)

\* Mutant: the parameters are counted from the first.
IndexFromFirst(ps, s) == CHOOSE i \in 0 .. Len(ps) - 1 : ps[i + 1] = s

\* The symbol list has the parameters in reverse; the first hit counts.
IndexOf(ps, s) ==
  CHOOSE i \in 0 .. Len(ps) - 1 :
    ps[Len(ps) - i] = s /\ \A j \in 0 .. i - 1 : ps[Len(ps) - j] # s

\* compile_token on a name.
compile_name(q, s, ps) ==
  add_inst_tail(q, IF s \in Range(ps) THEN Numbered("LOAD", IndexOf(ps, s))
                   ELSE Named("REF", s))

-----------------------------------------------------------------------------
RECURSIVE compile_elem(_, _, _)

compile_list(q, es, ps) == FoldLeft(LAMBDA acc, e : compile_elem(acc, e, ps), q, es)

\* Mutant: the operands of the last instruction are not counted.
JumpEnd(q) == Last(q).at + 1

\* Where the jump over the else branch ends.
AfterElse(q) == NextOffset(q)

compile_if(q, e, ps) ==
  LET predicate == add_inst_tail(compile_elem(q, e.p, ps), Numbered("JNEQ", 0))
      then      == add_inst_tail(compile_elem(predicate, e.a, ps), Numbered("JMP", 0))
      jneq      == PatchedTo(then, Len(predicate), NextOffset(then))
      else      == IF e.b = <<>> THEN add_inst_tail(jneq, Simple("PUSH_NIL"))
                   ELSE compile_elem(jneq, e.b[1], ps)
  IN  PatchedTo(else, Len(then), AfterElse(else))

\* The body sees its own parameters only.
compile_lambda(q, e) ==
  LET fund == add_inst_tail(q, Inst(IF e.dotted THEN "FUNDD" ELSE "FUND", 0, Len(e.ps), ""))
      body == add_inst_tail(compile_list(fund, e.body, e.ps), Simple("RET"))
  IN  PatchedTo(body, Len(fund), NextOffset(body))

compile_elem(q, e, ps) ==
  CASE e.k = "eof"     -> add_inst_tail(q, Simple("HALT"))
    [] e.k = "num"     -> add_push_tail(q, e.n)
    [] e.k = "const"   -> add_inst_tail(q, Atom(e.v))
    [] e.k = "string"  -> add_inst_tail(q, Named("PUSH_STR", e.s))
    [] e.k = "name"    -> compile_name(q, e.s, ps)
    [] e.k = "quote"   -> compile_quote(q, e.v)
    [] e.k = "if"      -> compile_if(q, e, ps)
    [] e.k = "define"  -> add_inst_tail(compile_elem(q, e.e, ps), Named("SET", e.s))
    [] e.k = "lambda"  -> compile_lambda(q, e)
    [] e.k = "apply"   -> compile_procedure(e.f, Len(e.args), compile_list(q, e.args, ps))
    [] e.k = "applyto" ->
         LET n == Len(e.args)
         IN  AddAll(compile_list(compile_elem(q, e.e, ps), e.args, ps),
                    <<Numbered("PUSH", n), Numbered("SROT", n + 1), Simple("FUNCS")>>)

\* compile: an OP_NOP at the offset, then the expression.
Queue(e, offset) == compile_elem(<<[at |-> offset, inst |-> Simple("NOP")]>>, e, <<>>)

\* write_inst: the instructions at their offsets, and how many bytes they take.
write_inst(q, offset) ==
  [code |-> [a \in {q[i].at : i \in 1 .. Len(q)} |->
               q[CHOOSE i \in 1 .. Len(q) : q[i].at = a].inst],
   size |-> NextOffset(q) - offset]

compile(e, offset) == write_inst(Queue(e, offset), offset)
=============================================================================
