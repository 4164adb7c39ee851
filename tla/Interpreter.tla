----------------------------- MODULE Interpreter -----------------------------
(***************************************************************************)
(* The compiler and the virtual machine put together by the three drivers  *)
(* of aquario.c: do_test and repl, which compile and run one form at a     *)
(* time and differ when compile returns 0, and load_file, which compiles   *)
(* all the forms and then runs them.  What comes out is compared with what *)
(* Lisp says the program means.                                            *)
(***************************************************************************)
EXTENDS VirtualMachine, Lisp

CONSTANT Programs    \* records: driver ("do_test", "repl" or "load_file"), forms, and
                     \* meaning: "exact" or "wrapped" as Lisp has it, "none" if Lisp
                     \* says nothing

VARIABLES program,   \* the program, which does not change
          input,     \* the forms that have not been read
          phase,     \* "read", "start" (of execute), "run" or "done"
          promise    \* what the program should print

vars == <<vmVars, program, input, phase, promise>>

Init == /\ VMInit
        /\ program \in Programs
        /\ input = program.forms
        /\ phase = "read"
        /\ promise = IF program.meaning = "none" THEN <<>>
                     ELSE IF program.driver = "load_file" THEN File(program.forms)
                     ELSE Session(program.forms)

By(driver) == program.driver = driver

\* There is a next form, and it compiles.
MoreForms == IF input = <<>> THEN FALSE ELSE ~Malformed(Head(input))

\* The bytes of the next form go to address at.
Compiled(at) ==
  LET out == compile(Head(input), at)
  IN  /\ buf' = Overwritten(buf, at, at + out.size, out.code)
      /\ end' = at + out.size
      /\ input' = Tail(input)

\* do_test and repl compile to where execute has stopped.
ReadForm ==
  /\ ~By("load_file") /\ phase = "read"
  /\ MoreForms
  /\ Compiled(pc)
  /\ phase' = "start"
  /\ UNCHANGED <<pc, running, crashed, stack, function_stack, err_type, env, output,
                 program, promise>>

\* load_file compiles form after form.
LoadForm ==
  /\ By("load_file") /\ phase = "read"
  /\ MoreForms
  /\ Compiled(end)
  /\ UNCHANGED <<pc, running, crashed, stack, function_stack, err_type, env, output,
                 program, phase, promise>>

\* A form that does not compile leaves the error and its message.  do_test ends
\* and does not report it, load_file reports it and runs nothing, repl goes on
\* to execute as if it had compiled.
CompileFails ==
  LET form == Head(input) IN
  /\ phase = "read" /\ input # <<>> /\ ~MoreForms
  /\ Fail("wrong_number_arg",
          stack \o <<make_integer(Arity(form.f)), make_integer(Len(form.args)), Str(form.f)>>, pc)
  /\ input' = Tail(input)
  /\ phase' = CASE By("do_test") -> "done" [] By("load_file") -> "run" [] By("repl") -> "start"
  /\ UNCHANGED <<program, promise>>

\* At the end of the input do_test ends, load_file runs what it has compiled,
\* and repl executes nothing.
EndOfForms ==
  /\ phase = "read" /\ input = <<>>
  /\ end' = IF By("repl") THEN pc ELSE end
  /\ phase' = IF By("do_test") THEN "done" ELSE "start"
  /\ UNCHANGED <<buf, pc, running, crashed, stack, function_stack, err_type, env, output,
                 program, input, promise>>

\* execute drops what is on the stack; it does not enter its loop if an error is
\* pending.
Begin ==
  /\ phase = "start"
  /\ phase' = "run"
  /\ running' = TRUE
  /\ stack' = <<>>
  /\ UNCHANGED <<buf, end, pc, crashed, function_stack, err_type, env, output,
                 program, input, promise>>

Execute == /\ phase = "run" /\ Step
           /\ UNCHANGED <<program, input, phase, promise>>

\* execute has returned, or was not called.
Returned == phase = "run" /\ ~Executing /\ ~crashed

AfterReport ==
  /\ running' = FALSE
  /\ phase' = IF By("load_file") THEN "done" ELSE "read"
  /\ UNCHANGED <<buf, end, pc, function_stack, env, program, input, promise>>

ReportError ==
  /\ Returned
  /\ err_type \notin {NoError, "stack_underflow"}
  /\ err_type \in MessageKinds => stack # <<>>
  /\ HandleError
  /\ AfterReport
  /\ UNCHANGED crashed

\* do_test and repl print the value and pop it, load_file does not.
ReportValue ==
  /\ Returned
  /\ err_type = NoError /\ (By("load_file") \/ stack # <<>>)
  /\ output' = IF By("load_file") THEN output
               ELSE Append(output, [kind |-> "result", values |-> <<Top>>])
  /\ stack' = IF By("load_file") THEN stack ELSE Under(1)
  /\ AfterReport
  /\ UNCHANGED <<crashed, err_type>>

\* What lies below the stack, taken for a cell or the address of one.
Garbage == [t |-> "garbage"]

\* On an empty stack handle_error takes the word below it for a message, prints
\* the two words below that, and clears the error, the underflow included.  That
\* stack_top is -1 then makes no difference before execute sets it to 0.
ReportLost ==
  /\ Returned
  /\ err_type \in MessageKinds /\ stack = <<>>
  /\ \/ Crash /\ UNCHANGED <<program, input, phase, promise>>
     \/ /\ output' = Append(output, [kind |-> err_type, values |-> <<Garbage, Garbage>>])
        /\ err_type' = NoError
        /\ AfterReport
        /\ UNCHANGED <<crashed, stack>>

\* The rounds of repl at the end of the input, of which there is no end: the word
\* below the stack is printed and popped, and the next round reports the underflow.
\* What they print is not recorded, which bounds output.
EmptyRound ==
  /\ Returned
  /\ By("repl") /\ input = <<>> /\ stack = <<>>
  /\ \/ err_type = NoError /\ Crash /\ UNCHANGED <<program, input, phase, promise>>
     \/ /\ \/ err_type = NoError /\ err_type' = "stack_underflow"
           \/ err_type = "stack_underflow" /\ err_type' = NoError
        /\ AfterReport
        /\ UNCHANGED <<crashed, stack, output>>

Killed == /\ phase = "run" /\ crashed
          /\ phase' = "done"
          /\ UNCHANGED <<vmVars, program, input, promise>>

Terminated == phase = "done" /\ UNCHANGED vars

Next == \/ ReadForm \/ LoadForm \/ CompileFails \/ EndOfForms \/ Begin
        \/ Execute \/ ReportError \/ ReportValue \/ ReportLost \/ EmptyRound
        \/ Killed \/ Terminated

Spec == Init /\ [][Next]_vars

-----------------------------------------------------------------------------
(* Properties. *)

Visible == [i \in 1 .. Len(output) |->
              [output[i] EXCEPT !.values = [n \in DOMAIN @ |-> Shown(@[n])]]]

Promised == [i \in 1 .. Len(promise) |->
              [promise[i] EXCEPT !.values = [n \in DOMAIN @ |-> Shown(@[n])]]]

\* Visible and promised differ in a number by a multiple of 2^IntBits at most.
SameButWrapped(v, p) ==
  IF IsInt(v) /\ IsInt(p)
  THEN /\ AQ_INT_MIN <= v.v /\ v.v <= AQ_INT_MAX
       /\ (v.v - p.v) % 2^IntBits = 0
  ELSE v = p

\* The program has ended, or has nothing left to read.
Finished == phase = "done" \/ (By("repl") /\ phase = "read" /\ input = <<>>)

\* Programs of sums, differences and products print the number that fits the
\* word and is congruent to the exact one, whatever overflowed on the way and
\* whichever instruction added.  (make_integer, INT_VALUE, OP_ADD1, OP_SUB1)
WrapsAround ==
  program.meaning = "wrapped" /\ Finished =>
    /\ Len(Visible) = Len(Promised)
    /\ \A i \in 1 .. Len(Visible) :
         \A n \in DOMAIN Visible[i].values :
           SameButWrapped(Visible[i].values[n], Promised[i].values[n])

\* In the end a program has printed what it means: values, effects and errors.
\* (compile, execute, handle_error)
EndsAsMeant == program.meaning = "exact" /\ Finished => Visible = Promised

\* On the way to it compiled code prints nothing else, and everything in order.
PrintsItsMeaning ==
  /\ program.meaning = "exact" => IsPrefix(Visible, Promised)
  /\ EndsAsMeant

\* The last form that was read did not compile.
CompilerError ==
  LET read == Len(program.forms) - Len(input)
  IN  IF read = 0 THEN FALSE ELSE Malformed(program.forms[read])

\* Whenever handle_error would print a message, the top of the stack is that
\* string, and the values it prints lie below it; except in repl after a form that
\* does not compile, whose message execute always throws away (1327).
MessageOnTop ==
  err_type \in MessageKinds =>
    IF By("repl") /\ CompilerError /\ phase # "start" THEN stack = <<>>
    ELSE /\ Len(stack) > CASE err_type = "wrong_number_arg" -> 2
                           [] err_type = "undefined_symbol" -> 0
                           [] OTHER -> 1
         /\ Top.t = "str"

\* A jump of the code leads to where no instruction ends: compile_add or
\* compile_sub has shortened the branch it jumps over.
JumpMisses == \E a \in DOMAIN buf : /\ buf[a].op = "JMP"
                                    /\ \A b \in DOMAIN buf : End(buf, b) # buf[a].n

=============================================================================
