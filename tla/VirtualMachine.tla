--------------------------- MODULE VirtualMachine ---------------------------
(***************************************************************************)
(* The stack machine of aquario.c: execute, with one action per group of   *)
(* opcodes that run the same code, the function stack, and handle_error.   *)
(*                                                                         *)
(* A call leaves on the stack, from below: the arguments, their number,    *)
(* the return address and AQ_SFRAME; function_stack records the height of  *)
(* the stack above the AQ_SFRAME.  stack[i + 1] here is stack[i] there.    *)
(***************************************************************************)
EXTENDS Bytecode, FiniteSets

CONSTANTS STACKSIZE, FUNCTION_STACK_SIZE

ASSUME StackAssumption == STACKSIZE \in Nat /\ FUNCTION_STACK_SIZE \in Nat

VARIABLES buf,             \* the program
          end,             \* execute runs up to here
          pc,
          running,         \* execute is in its loop
          crashed,         \* the process was ended by a signal
          stack,           \* stack_top is its length
          function_stack,
          err_type,        \* "none" or the kind of the pending error
          env,             \* the value each bound name has (module Environment)
          output           \* what was printed, in order

vmVars == <<buf, end, pc, running, crashed, stack, function_stack, err_type, env, output>>

NoError == "none"

Offset(n) == stack[Len(stack) - n]          \* STACK_OFFSET
Top       == Offset(0)                      \* STACK_TOP
TopNext   == Offset(1)                      \* STACK_TOP_NEXT

Under(n)  == SubSeq(stack, 1, Len(stack) - n)   \* n calls of pop_arg

\* get_var: a name whose value is #undef counts as unbound.
get_var(name) == IF name \in DOMAIN env THEN env[name] ELSE Undef

\* INT_VALUE of anything but an integer is some number made of its bits.
AnyInt == {0, 1}
IntValues(v) == IF IsInt(v) THEN {v.v} ELSE AnyInt

-----------------------------------------------------------------------------
(* The ends an instruction may have. *)

\* push_arg sets the error when a push has made the stack STACKSIZE high.
WithOverflow(height, e) == IF height >= STACKSIZE THEN "stack_overflow" ELSE e

\* The stack became s, and was peak high in between; control goes to a.
Becomes(s, peak, a) ==
  /\ stack' = s
  /\ err_type' = WithOverflow(peak, err_type)
  /\ pc' = a
  /\ UNCHANGED <<buf, end, running, crashed, function_stack, env, output>>

Continue(s, a) == Becomes(s, Len(s), a)

\* The error macros and the return from execute they end in.
Fail(e, s, a) ==
  /\ stack' = s
  /\ err_type' = WithOverflow(Len(s), e)
  /\ pc' = a
  /\ UNCHANGED <<buf, end, running, crashed, function_stack, env, output>>

\* Mutant: the message is pushed before the value.
MessageFirst(v, s, a) == Fail("int_not_given", s \o <<Str("op"), v>>, a)

\* ERR_INT_NOT_GIVEN with s on the stack: the value and a message are pushed.
NotInt(v, s, a) == Fail("int_not_given", s \o <<v, Str("op")>>, a)

Crash == /\ crashed' = TRUE
         /\ running' = FALSE
         /\ UNCHANGED <<buf, end, pc, stack, function_stack, err_type, env, output>>

\* The loop condition of execute.
Executing == running /\ pc < end /\ err_type = NoError

I  == buf[pc]
Is(ops) == Executing /\ pc \in DOMAIN buf /\ I.op \in ops
After   == pc + Size(I)

-----------------------------------------------------------------------------
(* Constants *)

Constant == [PUSH_NIL |-> Nil, PUSH_TRUE |-> True, PUSH_FALSE |-> False]

Push == /\ Is({"PUSH"} \cup DOMAIN Constant \cup {"PUSH_STR", "PUSH_SYM"})
        /\ Continue(Append(stack, CASE I.op = "PUSH"     -> make_integer(I.n)
                                    [] I.op = "PUSH_STR" -> Str(I.s)
                                    [] I.op = "PUSH_SYM" -> Sym(I.s)
                                    [] OTHER             -> Constant[I.op]), After)

-----------------------------------------------------------------------------
(* Arithmetic *)

Added == [ADD1 |-> 1, ADD2 |-> 2, SUB1 |-> -1, SUB2 |-> -2]

AddConstant ==
  /\ Is(DOMAIN Added)
  /\ IF IsInt(Top) THEN Continue(Append(Under(1), make_integer(Added[I.op] + Top.v)), After)
     ELSE NotInt(Top, stack, pc)

\* The operands EXECUTE_MATH_OPERATION pops, the last one first.
Operands(num) == [i \in 1 .. num |-> Offset(num + 1 - i)]

\* The last operand that is no integer.
LastBad(args) ==
  CHOOSE i \in 1 .. Len(args) : /\ ~IsInt(args[i])
                                /\ \A j \in i + 1 .. Len(args) : IsInt(args[j])

AllInts(args) == \A i \in 1 .. Len(args) : IsInt(args[i])

\* sum[i]: the first i operands added up in a long, likewise product.
Sum(args) ==
  LET sum[i \in 0 .. Len(args)] == IF i = 0 THEN 0 ELSE sum[i - 1] + args[i].v
  IN  sum[Len(args)]

Product(args) ==
  LET product[i \in 0 .. Len(args)] == IF i = 0 THEN 1 ELSE product[i - 1] * args[i].v
  IN  product[Len(args)]

\* The operands above the one that is no integer are gone when it is reported.
BadOperand(num) ==
  LET args == Operands(num)
      s    == Under(1 + num - LastBad(args))
  IN  NotInt(s[Len(s)], s, pc)

AddOrMul ==
  LET num  == Top.v
      args == Operands(num)
  IN  /\ Is({"ADD", "MUL"})
      /\ IF AllInts(args)
         THEN LET ans == IF I.op = "ADD" THEN Sum(args) ELSE Product(args)
              IN  Continue(Append(Under(num + 1), make_integer(ans)), After)
         ELSE BadOperand(num)

\* C division truncates towards zero.
Quotient(a, b) ==
  LET abs(x) == IF x < 0 THEN -x ELSE x
  IN  IF (a < 0) = (b < 0) THEN abs(a) \div abs(b) ELSE -(abs(a) \div abs(b))

\* OP_SUB and OP_DIV of one argument: num is 0.
Unary ==
  /\ Is({"SUB", "DIV"})
  /\ Top.v = 0
  /\ IF ~IsInt(TopNext) THEN NotInt(TopNext, Under(1), pc)
     ELSE IF I.op = "DIV" /\ TopNext.v = 0 THEN Crash
     ELSE LET ans == IF I.op = "SUB" THEN -TopNext.v ELSE Quotient(1, TopNext.v)
          IN  Continue(Append(Under(2), make_integer(ans)), After)

\* The rest is added up or multiplied, narrowed, and taken from the first.
FromTheFirst(op, first, rest) ==
  IF op = "SUB" THEN first - Narrow(Sum(rest)) ELSE Quotient(first, Narrow(Product(rest)))

\* The first argument is not checked.
SubOrDiv ==
  LET num  == Top.v
      rest == Operands(num)
  IN  /\ Is({"SUB", "DIV"})
      /\ num # 0
      /\ IF ~AllInts(rest) THEN BadOperand(num)
         ELSE IF I.op = "DIV" /\ Narrow(Product(rest)) = 0 THEN Crash
         ELSE \E first \in IntValues(Offset(num + 1)) :
                LET ans == FromTheFirst(I.op, first, rest)
                IN  Continue(Append(Under(num + 2), make_integer(ans)), After)

Compared(op, a, b) == CASE op = "EQUAL" -> a = b
                        [] op = "GT"    -> a > b
                        [] op = "GTE"   -> a >= b
                        [] op = "LT"    -> a < b
                        [] op = "LTE"   -> a <= b

Compare ==
  /\ Is({"EQUAL", "GT", "GTE", "LT", "LTE"})
  /\ IF ~IsInt(Top) THEN NotInt(Top, stack, pc)
     ELSE IF ~IsInt(TopNext) THEN NotInt(TopNext, stack, pc)
     ELSE Continue(Append(Under(2), Bool(Compared(I.op, TopNext.v, Top.v))), After)

-----------------------------------------------------------------------------
(* Pairs, equality, output *)

MakePair == /\ Is({"CONS"})
            /\ Continue(Append(Under(2), Pair(TopNext, Top)), After)

CarOrCdr ==
  /\ Is({"CAR", "CDR"})
  /\ IF IsPair(Top)
     THEN Continue(Append(Under(1), IF I.op = "CAR" THEN Top.a ELSE Top.d), After)
     ELSE Fail("pair_not_given", Append(stack, Str("op")), pc)

\* Equal immediates are the same word; equal cells may be one cell or two.
Eq == /\ Is({"EQ"})
      /\ \E same \in IF IsCell(Top) /\ Top = TopNext THEN BOOLEAN ELSE {Top = TopNext} :
           Continue(Append(Under(2), Bool(same)), After)

Printed(values) == [kind |-> "print", values |-> values]

PrintValues == LET num == Top.v IN
  /\ Is({"PRINT"})
  /\ output' = Append(output, Printed(Operands(num)))
  /\ stack' = Append(Under(num + 1), Undef)
  /\ err_type' = WithOverflow(Len(stack'), err_type)
  /\ pc' = After
  /\ UNCHANGED <<buf, end, running, crashed, function_stack, env>>

-----------------------------------------------------------------------------
(* Jumps and variables *)

JumpIfFalse == /\ Is({"JNEQ"})
               /\ Continue(Under(1), IF Top = True THEN After ELSE I.n)

Jump == /\ Is({"JMP"})
        /\ Continue(stack, I.n)

\* OP_SET: set_var pushes the value again, and for a new name the name too,
\* before the symbol takes the place of the value.
Set == LET pushed == IF get_var(I.s) = Undef THEN 2 ELSE 1 IN
  /\ Is({"SET"})
  /\ env' = [x \in DOMAIN env \cup {I.s} |-> IF x = I.s THEN Top ELSE env[x]]
  /\ stack' = Append(Under(1), Sym(I.s))
  /\ err_type' = WithOverflow(Len(stack) + pushed, err_type)
  /\ pc' = After
  /\ UNCHANGED <<buf, end, running, crashed, function_stack, output>>

Undefined(name) == Fail("undefined_symbol", Append(stack, Str(name)), pc + 1)

Ref == /\ Is({"REF"})
       /\ IF get_var(I.s) = Undef THEN Undefined(I.s)
          ELSE Continue(Append(stack, get_var(I.s)), After)

-----------------------------------------------------------------------------
(* Calls *)

ListOf(args) ==
  LET n       == Len(args)
      from[i \in 1 .. n + 1] == IF i = n + 1 THEN Nil ELSE Pair(args[i], from[i + 1])
  IN  from[1]

\* The frame is completed and control goes to the body; push_function_stack
\* only sets the error when the function stack is full.
Enter(s, ret, func) ==
  LET full == Len(function_stack) >= FUNCTION_STACK_SIZE IN
  /\ stack' = s \o <<make_integer(ret), SFrame>>
  /\ function_stack' = IF full THEN function_stack ELSE Append(function_stack, Len(stack'))
  /\ err_type' = IF full THEN "stack_overflow" ELSE WithOverflow(Len(stack'), err_type)
  /\ pc' = func.addr
  /\ UNCHANGED <<buf, end, running, crashed, env, output>>

\* How many of the arguments a dotted parameter takes.
Rest(func, given) == given - func.params + 1

\* s: the arguments and on top their number.  The arguments that belong to a
\* dotted parameter become a list.
Arranged(s, func, given) ==
  LET num  == Rest(func, given)
      args == SubSeq(s, 1, Len(s) - 1)
      rest == SubSeq(args, Len(args) - num + 1, Len(args))
  IN  IF func.dotted
      THEN SubSeq(args, 1, Len(args) - num) \o <<ListOf(rest), make_integer(func.params)>>
      ELSE s

WrongNumber(func, given) ==
  IF func.dotted THEN func.params > given ELSE func.params # given

Call(s, func, ret, at) ==
  \E given \in IntValues(s[Len(s)]) :
    IF WrongNumber(func, given)
    THEN Fail("wrong_number_arg",
              s \o <<make_integer(func.params), make_integer(given), Str("lambda")>>, at)
    ELSE Enter(Arranged(s, func, given), ret, func)

\* The value of the name is taken for a lambda whatever it is; an immediate is
\* no address and ends the process.
Func == LET func == get_var(I.s) IN
  /\ Is({"FUNC"})
  /\ IF func = Undef THEN Undefined(I.s)
     ELSE IF ~IsCell(func) THEN Crash
     ELSE Call(stack, func, After, pc + 1)

\* A call of what an expression in the operator position left on top.
Funcs == /\ Is({"FUNCS"})
         /\ IF IsCell(Top) THEN Call(Under(1), Top, After, pc) ELSE Crash

Fund == /\ Is({"FUND", "FUNDD"})
        /\ Continue(Append(stack, Lambda(After, I.m, I.op = "FUNDD")), I.n)

\* Every slot is assigned to itself, and the operator goes over the top.
Srot == /\ Is({"SROT"})
        /\ Continue(Append(Under(1), Offset(I.n)), After)

\* function_stack_top - offset - 4, counted from 1.
LoadIndex(height, offset) == height - offset - 3

Load == /\ Is({"LOAD"})
        /\ LET height == function_stack[Len(function_stack)]
           IN  Continue(Append(stack, stack[LoadIndex(height, I.n)]), After)

\* The number of slots below the innermost AQ_SFRAME under the value returned.
BelowFrame == LET i == CHOOSE i \in 1 .. Len(stack) - 1 :
                         /\ stack[i] = SFrame
                         /\ \A j \in i + 1 .. Len(stack) - 1 : stack[j] # SFrame
              IN  i - 1

\* s ends in the number of arguments and the return address.
WithoutFrame(s) == SubSeq(s, 1, Len(s) - 2 - s[Len(s) - 1].v)

\* Mutant: the function stack is left as it is.
KeptFunctionStack == function_stack

\* pop_function_stack
PoppedFunctionStack == SubSeq(function_stack, 1, Len(function_stack) - 1)

\* The value goes back to the stack without push_arg.
Ret == LET s == SubSeq(stack, 1, BelowFrame) IN
  /\ Is({"RET"})
  /\ stack' = Append(WithoutFrame(s), Top)
  /\ function_stack' = PoppedFunctionStack
  /\ pc' = s[Len(s)].v
  /\ UNCHANGED <<buf, end, running, crashed, err_type, env, output>>

Nop == Is({"NOP"}) /\ Continue(stack, After)

Halt == /\ Is({"HALT"})
        /\ running' = FALSE
        /\ pc' = After
        /\ UNCHANGED <<buf, end, crashed, stack, function_stack, err_type, env, output>>

Step == \/ Push \/ AddConstant \/ AddOrMul \/ Unary \/ SubOrDiv \/ Compare
        \/ MakePair \/ CarOrCdr \/ Eq \/ PrintValues \/ JumpIfFalse \/ Jump \/ Set \/ Ref
        \/ Func \/ Funcs \/ Fund \/ Srot \/ Load \/ Ret \/ Nop \/ Halt

-----------------------------------------------------------------------------
(* handle_error *)

\* The kinds whose message is popped from the stack and printed as a string.
MessageKinds == {"wrong_number_arg", "pair_not_given", "int_not_given", "undefined_symbol"}

\* What it prints besides the message: the values below it.
Reported ==
  [kind   |-> err_type,
   values |-> CASE err_type = "wrong_number_arg" -> <<Offset(2), Offset(1)>>
                [] err_type \in {"pair_not_given", "int_not_given"} -> <<Offset(1)>>
                [] err_type = "undefined_symbol" -> <<Top>>
                [] OTHER -> <<>>]


HandleError == /\ output' = Append(output, Reported)
               /\ stack' = <<>>
               /\ err_type' = NoError

VMInit == /\ buf = <<>>
          /\ end = 0
          /\ pc = 0
          /\ running = FALSE
          /\ crashed = FALSE
          /\ stack = <<>>
          /\ function_stack = <<>>
          /\ err_type = NoError
          /\ env = <<>>
          /\ output = <<>>

-----------------------------------------------------------------------------
(* Properties. *)

Frames == {i \in 1 .. Len(stack) : stack[i] = SFrame}

\* Where the frames end according to the function stack, which may hold below
\* them what programs left behind that ended in an error.
Recorded == LET n == Len(function_stack) - Cardinality(Frames)
            IN  {function_stack[i] : i \in n + 1 .. Len(function_stack)}

NoErrorSoFar == \A i \in 1 .. Len(output) : output[i].kind \in {"print", "result"}

\* Every call in progress has a frame: its arguments above the frame below,
\* their number, an address behind a call instruction, the mark; the function
\* stack has its height, and nothing else unless a program ended in an error.
FramesRecorded ==
  err_type # "stack_overflow" =>
    /\ Frames = Recorded
    /\ NoErrorSoFar => Len(function_stack) = Cardinality(Frames)
    /\ \A i \in Frames :
         /\ i > 2 /\ IsInt(stack[i - 1]) /\ IsInt(stack[i - 2])
         /\ \A j \in Frames : j < i => j < i - 2 - stack[i - 2].v
         /\ \E a \in DOMAIN buf : /\ buf[a].op \in {"FUNC", "FUNCS"}
                                  /\ End(buf, a) = stack[i - 1].v

\* execute never fetches an opcode from the middle of an instruction, from a
\* gap or from what a later form has overwritten, but for two kinds of programs the
\* passing run leaves out and the other one has: a function whose body has an
\* addition to an if that ends in 1 or 2, and one called again after an error in it.
OnInstruction == Executing => pc \in DOMAIN buf

\* A stack that has grown to its limit stops the program within the same
\* instruction, which may have written at most two slots past the end.
StackBounded == /\ Len(stack) <= STACKSIZE + 2
                /\ Len(stack) >= STACKSIZE => err_type = "stack_overflow"
=============================================================================
