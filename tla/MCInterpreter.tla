---------------------------- MODULE MCInterpreter ----------------------------
(* Programs: all small expressions of a few shapes, at the top level and in
   the body of a function, programs after test.txt, and programs that end in
   each kind of error or reach a limit of the machine.                      *)
EXTENDS Interpreter

MCstrlen(s) == 1    \* names and strings are one character long

ListOfInts(ns) == FoldRight(LAMBDA n, acc : Pair(make_integer(n), acc), ns, Nil)
Numbers(ns)    == [i \in 1 .. Len(ns) |-> Num(ns[i])]

Test(forms)  == [driver |-> "do_test", forms |-> forms, meaning |-> "exact"]
Repl(forms)  == [driver |-> "repl", forms |-> forms, meaning |-> "exact"]
Lost(forms)  == [driver |-> "repl", forms |-> forms, meaning |-> "none"]
File1(forms) == [driver |-> "load_file", forms |-> Append(forms, EndOfInput), meaning |-> "exact"]
Limit(forms) == [driver |-> "do_test", forms |-> forms, meaning |-> "none"]
Wraps(forms) == [driver |-> "do_test", forms |-> forms, meaning |-> "wrapped"]

X == Name("x")
Y == Name("y")

Call1(f, e)    == Apply(f, <<e>>)
Call2(f, d, e) == Apply(f, <<d, e>>)

-----------------------------------------------------------------------------
(* Small expressions *)

Atoms  == {Num(1), Num(7), X, Const(Nil)}
Simple1 == {Call2(f, a, b) : f \in {"+", "cons", ">="}, a, b \in Atoms}
            \cup {Call2("-", a, b) : a \in Atoms \ {Const(Nil)}, b \in Atoms}
            \cup {Call1(f, a) : f \in {"car", "-", "print"}, a \in Atoms}
Ifs    == {If(p, a, b) : p \in {Call2("=", X, Num(2)), Const(False)}, a \in Simple1, b \in {Num(7), X}}
Small  == Atoms \cup Simple1
Inner  == Simple1 \cup {When(Const(True), X), If(Const(True), Num(1), Num(7))}
Nested == {Call2(f, a, b) : f \in {"+", "cons"}, b \in Inner,
             a \in {Call2("+", X, Num(1)), Call1("print", X), Call1("car", X)}}
            \cup {Call2("-", Call2("+", X, Num(1)), b) : b \in Inner}

\* The expression as a form, and as the body of a function of two parameters.
AsForm(e) == Test(<<Define("x", Num(2)), e, X>>)
AsBody(e) == Test(<<Define("x", Num(5)),
                    Define("f", Fun(<<"x", "y">>, FALSE, <<Call1("print", Y), e>>)),
                    Call2("f", Num(2), Num(9))>>)

Generated == {AsForm(e) : e \in Simple1 \cup Ifs \cup Nested} \cup {AsBody(e) : e \in Simple1 \cup Nested}

-----------------------------------------------------------------------------
(* Written programs *)

Fib == Define("f", Fun(<<"n">>, FALSE,
         <<If(Call2("<", Name("n"), Num(2)), Num(1),
              Call2("+", Call1("f", Call2("-", Name("n"), Num(1))),
                         Call1("f", Call2("-", Name("n"), Num(2)))))>>))

Length == Define("l", Fun(<<"x">>, FALSE,
            <<If(Call2("eq?", X, Const(Nil)), Num(0),
                 Call2("+", Num(1), Call1("l", Call1("cdr", X))))>>))

MakeList == Define("m", Fun(<<"x", "y">>, TRUE, <<Call2("cons", X, Y)>>))

\* A function that calls another in its arguments and defines a name.
Mixed == Define("g", Fun(<<"a", "b", "c">>, FALSE,
           <<Define("z", Name("b")), Call2("-", Name("a"), Name("c"))>>))

Written ==
  {Test(<<Fib, Call1("f", Num(4))>>),
   Test(<<Length, Call1("l", Quote(ListOfInts(<<1, 2, 3>>)))>>),
   Test(<<MakeList, Apply("m", Numbers(<<1, 2, 3>>)), Call1("m", Num(1))>>),
   Test(<<Mixed, Fib, Apply("g", <<Call1("f", Num(2)), Num(8), Call1("f", Num(1))>>), Name("z")>>),
   Test(<<Define("m", Num(100)), Call2("cons", Name("m"), Name("m")), Define("m", Num(3)), Name("m")>>),
   Test(<<Apply("/", Numbers(<<100, 5, 4>>)), Apply("/", Numbers(<<-7, 2>>)), Call1("/", Num(2)),
          Apply("-", Numbers(<<3, 5, 7>>)), Apply("*", Numbers(<<2, 3, 4, 5>>))>>),
   Test(<<Call1("print", Quote(Pair(Sym("a"), Sym("b")))), Quote(Pair(Str("s"), Nil)), String("s"),
          Apply("print", <<>>), Apply("print", <<Num(1), Call1("print", Num(2))>>)>>),
   Test(<<Call2("eq?", Num(3), Num(3)), Call2("eq?", Const(Nil), Num(3)), Call2("<=", Num(3), Num(3)),
          Call2(">", Num(3), Num(4)), Const(True)>>),
   Test(<<ApplyTo(Fun(<<"x">>, FALSE, <<Num(7)>>), <<Num(1)>>)>>),
   \* errors at the top level, with forms after them
   Test(<<Call1("car", Num(1)), Name("u"), Call1("u", Num(1)), Define("x", Num(2)), X>>),
   Test(<<MakeList, Call1("m", Num(1)), Apply("m", Numbers(<<1, 2>>)), Apply("+", <<Num(1), Const(Nil), Num(2)>>), X>>),
   Test(<<Define("x", Call1("print", Num(1))), X>>),
   Test(<<Call1("cons", Num(1)), Num(2)>>) ,
   \* sessions of the read-eval-print loop
   Repl(<<Fib, Call1("f", Num(4)), EndOfInput>>),
   Repl(<<Length, Call1("l", Quote(ListOfInts(<<1, 2>>))), Call1("car", Num(1)), Name("u"), Num(3)>>),
   Repl(<<MakeList, Call1("m", Num(1)), Apply("m", Numbers(<<1, 2>>)), EndOfInput>>),
   \* files
   File1(<<Fib, Call1("print", Call1("f", Num(3))), Num(5), Call1("print", Num(6))>>),
   File1(<<Call1("print", Num(1)), Call1("car", Num(1)), Call1("print", Num(2))>>),
   File1(<<Call1("print", Num(1)), Call1("car", Call2("cons", Num(1), Num(2))), Call2("car", Num(1), Num(2)),
           Call1("print", Num(2))>>)}

Limits ==
  {Limit(<<Define("f", Fun(<<"x">>, FALSE, <<Call1("f", X)>>)), Call1("f", Num(1))>>),
   Limit(<<Define("g", Fun(<<"x", "y", "z">>, FALSE,
              <<Call2("cons", X, Apply("g", <<X, Y, Call2("+", X, Y)>>))>>)),
           Apply("g", Numbers(<<1, 2, 3>>))>>),
   Limit(<<Define("f", Num(1)), Call1("f", Num(1))>>),
   Limit(<<Call2("/", Num(1), Num(0))>>), Limit(<<Call1("/", Num(0))>>),
   Limit(<<Apply("-", <<String("s"), Num(3), Num(1)>>)>>),
   Limit(<<Call2("eq?", String("s"), String("s"))>>),
   Limit(<<ApplyTo(Num(1), <<Num(1)>>)>>),
   Limit(<<ApplyTo(Fun(<<"x">>, FALSE, <<Num(7)>>), <<Num(5)>>)>>),
   \* forms that do not compile, in the read-eval-print loop
   Lost(<<Apply("car", <<>>), Num(7), EndOfInput>>),
   Lost(<<Define("x", Quote(ListOfInts(<<1>>))), Call2("car", X, X), Call1("cons", X), Call1("car", X)>>),
   \* operands left on the stack
   Limit(<<Call2("+", Num(5), If(Call2("=", Num(1), Num(1)), Num(3), Num(1))), Num(7)>>),
   Lost(<<Call2("-", Quote(ListOfInts(<<1>>)), If(Const(True), Num(3), Num(2))), Num(7), Apply("car", <<>>)>>)}

-----------------------------------------------------------------------------
(* Sums, differences and products of numbers near the limits. *)

Extremes == {Num(AQ_INT_MIN), Num(AQ_INT_MAX), Num(1), Num(2), Num(-3), Num(29)}
Wrapping == {Call2(f, a, b) : f \in {"+", "-", "*"}, a, b \in Extremes}

Arithmetic ==
  {Wraps(<<Call2(f, a, b)>>) : f \in {"+", "-", "*"}, a \in Wrapping, b \in {Num(2), Num(-3), Num(29)}}
    \cup {Wraps(<<Apply(f, <<Call1("-", a), b, c>>)>>) :
            f \in {"+", "-", "*"}, a, b \in Extremes, c \in {Num(1), Num(AQ_INT_MAX)}}

MCPrograms == Generated \cup Written \cup Limits \cup Arithmetic

-----------------------------------------------------------------------------
(* A session in which each of three calls prints something else: an addition
   to the value of an if, a call of a lambda expression, and a call of a
   function after an error in it.                                           *)

Disagreements ==
  {Test(<<Call2("+", Num(5), If(Call2("=", Num(1), Num(1)), Num(3), Num(1))),
          ApplyTo(Fun(<<"x">>, FALSE, <<X>>), <<Num(1)>>),
          Define("f", Fun(<<"x">>, FALSE, <<Call1("car", X)>>)),
          Call1("f", Num(1)),
          Call1("f", Quote(ListOfInts(<<1>>)))>>)}
=============================================================================
