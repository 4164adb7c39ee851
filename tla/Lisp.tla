-------------------------------- MODULE Lisp --------------------------------
(***************************************************************************)
(* What a program means: the reference the compiler and the virtual        *)
(* machine are checked against.  Expressions are evaluated as trees, with  *)
(* no instructions, addresses or stack.                                    *)
(*                                                                         *)
(* As in aquario, arguments are evaluated from the left, a function is     *)
(* looked up after its arguments, a lambda expression sees its parameters  *)
(* and the global names only, a dotted parameter takes at least one        *)
(* argument, and a name bound to #undef is unbound.                        *)
(***************************************************************************)
EXTENDS Compiler

\* What has happened so far: the names' values, what was printed, the error.
Start == [env |-> <<>>, out |-> <<>>, err |-> <<>>]

Failed(st)      == st.err # <<>>
Error(st, k, vs) == [st EXCEPT !.err = <<[kind |-> k, values |-> vs]>>]
Gives(v, st)    == [v |-> v, st |-> st]
Stops(st, k, vs) == Gives(Undef, Error(st, k, vs))

IntOf(n)   == [t |-> "int", v |-> n]
Closure(e) == [t |-> "closure", e |-> e]

\* What print shows of a value: nothing of a function.
Shown(v) == IF v.t \in {"closure", "lambda"} THEN [t |-> "function"] ELSE v

Bind(f, s, v) == [x \in DOMAIN f \cup {s} |-> IF x = s THEN v ELSE f[x]]

\* The last of the values that is no integer.
LastNoInt(vs) == vs[CHOOSE i \in 1 .. Len(vs) : /\ ~IsInt(vs[i])
                                                /\ \A j \in i + 1 .. Len(vs) : IsInt(vs[j])]

Total(vs)  == FoldLeft(LAMBDA acc, v : acc + v.v, 0, vs)
Times(vs)  == FoldLeft(LAMBDA acc, v : acc * v.v, 1, vs)

\* a / b without its fraction.
Divided(a, b) == LET size == (IF a < 0 THEN -a ELSE a) \div (IF b < 0 THEN -b ELSE b)
                 IN  IF (a < 0) # (b < 0) THEN -size ELSE size

Calculated(f, vs) ==
  CASE f = "+" -> Total(vs)
    [] f = "*" -> Times(vs)
    [] f = "-" -> IF Len(vs) = 1 THEN -vs[1].v ELSE vs[1].v - Total(Tail(vs))
    [] f = "/" -> IF Len(vs) = 1 THEN Divided(1, vs[1].v)
                  ELSE Divided(vs[1].v, Times(Tail(vs)))

Holds(f, a, b) == CASE f = "=" -> a = b  [] f = "<"  -> a < b  [] f = ">" -> a > b
                    [] f = "<=" -> a <= b [] f = ">=" -> a >= b

\* A built-in function applied to its arguments.
Builtin(f, vs, st) ==
  CASE f \in {"+", "*", "-", "/"} ->
         IF \E i \in 1 .. Len(vs) : ~IsInt(vs[i])
         THEN Stops(st, "int_not_given", <<LastNoInt(vs)>>)
         ELSE Gives(IntOf(Calculated(f, vs)), st)
    [] f \in {"=", "<", ">", "<=", ">="} ->
         IF \E i \in 1 .. 2 : ~IsInt(vs[i])
         THEN Stops(st, "int_not_given", <<LastNoInt(vs)>>)
         ELSE Gives(Bool(Holds(f, vs[1].v, vs[2].v)), st)
    [] f \in {"car", "cdr"} ->
         IF ~IsPair(vs[1]) THEN Stops(st, "pair_not_given", vs)
         ELSE Gives(IF f = "car" THEN vs[1].a ELSE vs[1].d, st)
    [] f = "cons"  -> Gives(Pair(vs[1], vs[2]), st)
    [] f = "eq?"   -> Gives(Bool(vs[1] = vs[2]), st)
    [] f = "print" -> Gives(Undef, [st EXCEPT !.out = Append(@, [kind |-> "print", values |-> vs])])

Builtins == Strict \cup {"+", "*", "-", "/", "print"}

Value(st, s) == IF s \in DOMAIN st.env THEN st.env[s] ELSE Undef

\* The values of parameters ps; a dotted one takes a list of all that is left.
Parameters(e, vs) ==
  LET n    == Len(e.ps)
      rest == FoldRight(LAMBDA v, acc : Pair(v, acc), SubSeq(vs, n, Len(vs)), Nil)
      own  == IF e.dotted THEN Append(SubSeq(vs, 1, n - 1), rest) ELSE vs
  IN  [s \in Range(e.ps) |-> own[CHOOSE i \in 1 .. n : e.ps[i] = s]]

RECURSIVE Eval(_, _, _)

\* The values of the expressions from the left, up to the first error.
EvalAll(es, local, st) ==
  FoldLeft(LAMBDA acc, e : IF Failed(acc.st) THEN acc
                           ELSE LET r == Eval(e, local, acc.st)
                                IN  [vs |-> Append(acc.vs, r.v), st |-> r.st],
           [vs |-> <<>>, st |-> st], es)

\* A function applied to arguments: its body, of which the last value counts.
Applied(f, vs, st) ==
  LET n == Len(f.e.ps)
  IN  IF IF f.e.dotted THEN Len(vs) < n ELSE Len(vs) # n
      THEN Stops(st, "wrong_number_arg", <<IntOf(n), IntOf(Len(vs))>>)
      ELSE LET body == EvalAll(f.e.body, Parameters(f.e, vs), st)
           IN  Gives(IF Failed(body.st) THEN Undef ELSE Last(body.vs), body.st)

Eval(e, local, st) ==
  CASE e.k = "num"    -> Gives(IntOf(e.n), st)
    [] e.k \in {"const", "quote"} -> Gives(e.v, st)
    [] e.k = "string" -> Gives(Str(e.s), st)
    [] e.k = "lambda" -> Gives(Closure(e), st)
    [] e.k = "name"   ->
         IF e.s \in DOMAIN local THEN Gives(local[e.s], st)
         ELSE IF Value(st, e.s) = Undef THEN Stops(st, "undefined_symbol", <<Str(e.s)>>)
         ELSE Gives(Value(st, e.s), st)
    [] e.k = "if"     ->
         LET p == Eval(e.p, local, st)
         IN  IF Failed(p.st) THEN p
             ELSE IF p.v = True THEN Eval(e.a, local, p.st)
             ELSE IF e.b = <<>> THEN Gives(Nil, p.st)
             ELSE Eval(e.b[1], local, p.st)
    [] e.k = "define" ->
         LET r == Eval(e.e, local, st)
         IN  IF Failed(r.st) THEN r
             ELSE Gives(Sym(e.s), [r.st EXCEPT !.env = Bind(@, e.s, r.v)])
    [] e.k = "apply"  ->
         LET args == EvalAll(e.args, local, st)
         IN  IF Failed(args.st) THEN Gives(Undef, args.st)
             ELSE IF e.f \in Builtins THEN Builtin(e.f, args.vs, args.st)
             ELSE IF Value(args.st, e.f) = Undef
             THEN Stops(args.st, "undefined_symbol", <<Str(e.f)>>)
             ELSE Applied(Value(args.st, e.f), args.vs, args.st)
    [] e.k = "applyto" ->
         LET all == EvalAll(<<e.e>> \o e.args, local, st)
         IN  IF Failed(all.st) THEN Gives(Undef, all.st)
             ELSE Applied(all.vs[1], Tail(all.vs), all.st)

-----------------------------------------------------------------------------
(* Sessions: what is printed, in order. *)

Cleared(st) == [st EXCEPT !.err = <<>>, !.out = @ \o st.err]

\* What is read at the end of the input, after the last form, means nothing.
Forms(forms) == SelectSeq(forms, LAMBDA e : e # EndOfInput)

\* The forms before the first that does not compile.
Compiling(forms) ==
  SubSeq(forms, 1, CHOOSE n \in 0 .. Len(forms) :
                     /\ \A i \in 1 .. n : ~Malformed(forms[i])
                     /\ n < Len(forms) => Malformed(forms[n + 1]))

\* One form after the other; its value is shown, or the error that ended it.
Session(forms) ==
  FoldLeft(LAMBDA st, e : LET r == Eval(e, <<>>, st)
                          IN  IF Failed(r.st) THEN Cleared(r.st)
                              ELSE [r.st EXCEPT !.out =
                                      Append(@, [kind |-> "result", values |-> <<r.v>>])],
           Start, Compiling(Forms(forms))).out

\* A file: nothing of it runs if a form does not compile, values are not
\* shown, and the first error ends it.
File(forms) ==
  LET bad == SelectSeq(forms, Malformed)
  IN  IF bad # <<>>
      THEN <<[kind |-> "wrong_number_arg",
              values |-> <<IntOf(Arity(bad[1].f)), IntOf(Len(bad[1].args))>>]>>
      ELSE Cleared(EvalAll(Forms(forms), <<>>, Start).st).out
=============================================================================
