------------------------- MODULE CompiledFile_proofs -------------------------
(***************************************************************************)
(* RunsTheSource holds for any number of seconds and edits.                *)
(*                                                                         *)
(* What makes it inductive: a file that is newer than the source and not   *)
(* in doubt holds the present version, since an edit sets the time of the  *)
(* source to a second in which nothing newer can have been written; and    *)
(* what load_file has in its hands is no older than began.                 *)
(***************************************************************************)
EXTENDS CompiledFile, TLAPS

Steps == {"idle", "fread", "compile", "fopen", "fwrite", "execute"}

TypeOK ==
  /\ clock \in Nat
  /\ source \in [version : Nat, time : Nat, compiles : BOOLEAN]
  /\ abc \in [of : Nat, whole : BOOLEAN, doubtful : BOOLEAN, time : Nat, exists : BOOLEAN]
  /\ pc \in Steps
  /\ prog \in [of : Nat, whole : BOOLEAN, doubtful : BOOLEAN]
  /\ began \in Nat

\* Nothing is from the future, and the source has not lost a version.
TimesInPast == /\ source.time <= clock
               /\ abc.time <= clock
               /\ began <= source.version

\* A compiled file that is not in doubt is whole, and if it is newer than the
\* source it is what the source says.
TrustedIsCurrent ==
  abc.exists /\ ~abc.doubtful => abc.whole /\ (Newer => abc.of = source.version)

\* What is about to be read or written is no older than load_file's call.
NoOlder ==
  /\ pc = "fread" => abc.exists /\ (~abc.doubtful => abc.of >= began)
  /\ pc \in {"fopen", "fwrite"} => prog.of >= began

IInv == TypeOK /\ TimesInPast /\ TrustedIsCurrent /\ NoOlder /\ RunsTheSource

LEMMA InitIInv == Init => IInv
  BY BoundsAssumption
  DEF Init, IInv, TypeOK, Steps, TimesInPast, TrustedIsCurrent, NoOlder, RunsTheSource,
      NoFile, NoProgram

\* One step per action; an edit and the two writes of the file are the cases
\* that matter.
LEMMA NextIInv == IInv /\ [Next]_vars => IInv'
  <1> SUFFICES ASSUME IInv, [Next]_vars PROVE IInv'
    OBVIOUS
  <1> USE DEF IInv, TypeOK, Steps, TimesInPast, TrustedIsCurrent, NoOlder, RunsTheSource
  <1>1. CASE Tick
    BY <1>1 DEF Tick, Newer
  <1>2. ASSUME NEW compiles \in BOOLEAN, Edit(compiles)
        PROVE  IInv'
    <2>1. /\ source' = [version |-> source.version + 1, time |-> clock, compiles |-> compiles]
          /\ UNCHANGED <<clock, abc, pc, prog, began>>
      BY <1>2 DEF Edit
    <2>2. ~Newer'
      BY <2>1 DEF Newer
    <2> QED
      BY <2>1, <2>2
  <1>3. CASE Stat
    BY <1>3 DEF Stat, Newer
  <1>4. CASE ReadCompiled
    BY <1>4 DEF ReadCompiled, Newer
  <1>5. CASE Compile
    BY <1>5 DEF Compile, Newer
  <1>6. CASE Truncate
    <2>1. /\ abc' = [of |-> prog.of, whole |-> FALSE, time |-> clock, exists |-> TRUE,
                     doubtful |-> TRUE]
          /\ pc' = "fwrite"
          /\ UNCHANGED <<clock, source, prog, began>>
      BY <1>6 DEF Truncate, Written
    <2>2. TypeOK'
      BY <2>1
    <2>3. ~(abc.exists /\ ~abc.doubtful)'
      BY <2>1
    <2>4. pc = "fopen"
      BY <1>6 DEF Truncate
    <2> QED
      BY <2>1, <2>2, <2>3, <2>4
  <1>7. CASE WriteCompiled
    <2>1. /\ pc = "fwrite"
          /\ abc' = [of |-> prog.of, whole |-> prog.whole, time |-> clock, exists |-> TRUE,
                     doubtful |-> ~prog.whole \/ prog.of # source.version]
          /\ pc' = IF prog.whole THEN "execute" ELSE "idle"
          /\ UNCHANGED <<clock, source, prog, began>>
      BY <1>7 DEF WriteCompiled, Written
    <2>2. TypeOK'
      BY <2>1
    <2>3. (abc.exists /\ ~abc.doubtful => abc.whole /\ abc.of = source.version)'
      BY <2>1
    <2> QED
      BY <2>1, <2>2, <2>3
  <1>8. CASE Execute
    BY <1>8 DEF Execute, Newer
  <1>9. CASE Stopped
    BY <1>9 DEF Stopped, Newer
  <1>10. CASE UNCHANGED vars
    BY <1>10 DEF vars, Newer
  <1> QED
    BY <1>1, <1>2, <1>3, <1>4, <1>5, <1>6, <1>7, <1>8, <1>9, <1>10 DEF Next

\* The inductive invariant.  (load_file, with edits and ends of the process)
THEOREM Invariance == Spec => []IInv
  BY InitIInv, NextIInv, PTL DEF Spec

\* Whatever the order of edits, loads and ends of the process, a compiled file
\* that was not in doubt when it was written never runs in place of a newer
\* source: the comparison of times in load_file suffices.
THEOREM SourceIsRun == Spec => []RunsTheSource
  <1>1. IInv => RunsTheSource
    BY DEF IInv
  <1> QED
    BY <1>1, Invariance, PTL
=============================================================================
