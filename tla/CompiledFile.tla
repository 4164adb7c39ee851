---------------------------- MODULE CompiledFile ----------------------------
(***************************************************************************)
(* load_file and the compiled program it keeps next to the source: x.abc   *)
(* is used instead of x.lsp when it was written in a later second, else    *)
(* the source is compiled and x.abc overwritten in place.                  *)
(*                                                                         *)
(* The source may be edited at any moment, also while it is loaded, and    *)
(* the process may end at any moment.  Clocks do not go back.              *)
(***************************************************************************)
EXTENDS Naturals

CONSTANTS MaxTime,      \* bound: seconds
          MaxVersion    \* bound: edits

ASSUME BoundsAssumption == MaxTime \in Nat /\ MaxVersion \in Nat

VARIABLES clock,
          source,     \* which version it is, when changed, whether it compiles
          abc,        \* the program in x.abc, and when it was changed
          pc,         \* where load_file is
          prog,       \* buf: a version, whether all of it, whether in doubt
          began       \* the version there was when load_file was called

vars == <<clock, source, abc, pc, prog, began>>

NoFile  == [of |-> 0, whole |-> FALSE, doubtful |-> FALSE, time |-> 0, exists |-> FALSE]
NoProgram == [of |-> 0, whole |-> FALSE, doubtful |-> FALSE]

\* x.abc as it is written now; in doubt when it is not what the source holds.
Written(p) == [of |-> p.of, whole |-> p.whole, time |-> clock, exists |-> TRUE,
               doubtful |-> ~p.whole \/ p.of # source.version]

Init == /\ clock = 0
        /\ source = [version |-> 0, time |-> 0, compiles |-> TRUE]
        /\ abc = NoFile
        /\ pc = "idle"
        /\ prog = NoProgram
        /\ began = 0

Tick == /\ clock < MaxTime
        /\ clock' = clock + 1
        /\ UNCHANGED <<source, abc, pc, prog, began>>

Edit(compiles) ==
  /\ source.version < MaxVersion
  /\ source' = [version |-> source.version + 1, time |-> clock, compiles |-> compiles]
  /\ UNCHANGED <<clock, abc, pc, prog, began>>

\* Mutant: a program of the same second is taken for a later one.
NotOlder == abc.exists /\ abc.time >= source.time

\* The st_ctime of the two files, which have seconds.
Newer == abc.exists /\ abc.time > source.time

Stat == /\ pc = "idle"
        /\ pc' = IF Newer THEN "fread" ELSE "compile"
        /\ began' = source.version
        /\ UNCHANGED <<clock, source, abc, prog>>

ReadCompiled == /\ pc = "fread"
                /\ prog' = [of |-> abc.of, whole |-> abc.whole, doubtful |-> abc.doubtful]
                /\ pc' = "execute"
                /\ UNCHANGED <<clock, source, abc, began>>

\* The forms up to the first that does not compile.
Compile == /\ pc = "compile"
           /\ prog' = [of |-> source.version, whole |-> source.compiles, doubtful |-> FALSE]
           /\ pc' = "fopen"
           /\ UNCHANGED <<clock, source, abc, began>>

\* fopen "wb" leaves an empty file.
Truncate == /\ pc = "fopen"
            /\ abc' = Written([prog EXCEPT !.whole = FALSE])
            /\ pc' = "fwrite"
            /\ UNCHANGED <<clock, source, prog, began>>

\* Also what did not compile is written; then the error is reported.
WriteCompiled == /\ pc = "fwrite"
                 /\ abc' = Written(prog)
                 /\ pc' = IF prog.whole THEN "execute" ELSE "idle"
                 /\ UNCHANGED <<clock, source, prog, began>>

Execute == /\ pc = "execute"
           /\ pc' = "idle"
           /\ UNCHANGED <<clock, source, abc, prog, began>>

\* The process is ended, or a file cannot be opened: for the source or x.abc an
\* error is reported, for the writing of x.abc the process ends at the fwrite.
Stopped == /\ pc \notin {"idle", "execute"}
           /\ pc' = "idle"
           /\ UNCHANGED <<clock, source, abc, prog, began>>

Next == \/ Tick
        \/ \E compiles \in BOOLEAN : Edit(compiles)
        \/ Stat \/ ReadCompiled \/ Compile \/ Truncate \/ WriteCompiled \/ Execute \/ Stopped

Spec == Init /\ [][Next]_vars

-----------------------------------------------------------------------------
(* Properties. *)

\* What is executed is a whole program, and none the source had left behind
\* when load_file was called, unless x.abc has been in doubt since it was
\* written: after an end of the process or an edit on the way to it, or after a
\* compile error.  An edit in the second x.abc was written in is not overlooked.
RunsTheSource == pc = "execute" /\ ~prog.doubtful => prog.whole /\ prog.of >= began
=============================================================================
