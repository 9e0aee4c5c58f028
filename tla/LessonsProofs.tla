--------------------------- MODULE LessonsProofs ---------------------------
(***************************************************************************)
(* The two early lessons, for any finite set of stacks and any set of the  *)
(* programs: the first user-thread library implements the scheduler of the *)
(* later one, and the programs about processes keep their invariant and    *)
(* are blocked by nobody but a child that lives.                           *)
(***************************************************************************)
EXTENDS Lessons, QueueLemmas

(***************************************************************************)
(* The first user-thread library                                           *)
(***************************************************************************)

\* The inductive invariant of the library: in a run the mapped stacks are those of the ready
\* threads and of the running one, which is main only when none is ready;
\* outside a run they are those of the ready threads.  A context of main is
\* saved only while a user thread runs.
Inv1 ==
    /\ ready \in Seq(Stacks) /\ Distinct(ready)
    /\ mapped \subseteq Stacks
    /\ mainpc \in {"boot", "idle", "run", "end"}
    /\ mainpc = "boot" => ready = <<>>
    /\ mainpc # "run" => mapped = Range(ready) /\ MainFrame \notin stored
    /\ mainpc = "run" =>
         /\ mainptr = MainFrame
         /\ \/ /\ current \in Stacks /\ current \notin Range(ready)
               /\ mapped = Range(ready) \cup {current}
            \/ /\ current = MainFrame /\ ready = <<>>
               /\ mapped = {} /\ MainFrame \notin stored

\* Taking the next thread: from an empty queue it is main, from another one
\* its head, which leaves the queue.
LEMMA TakeNext ==
    ASSUME NEW q \in Seq(Stacks), Distinct(q)
    PROVE  /\ q = <<>> => NextReady(q) = mainptr' /\ Rest(q) = <<>> /\ Range(q) = {}
           /\ q # <<>> => /\ NextReady(q) = Head(q) /\ Head(q) \in Stacks
                          /\ Rest(q) \in Seq(Stacks) /\ Distinct(Rest(q))
                          /\ Head(q) \notin Range(Rest(q))
                          /\ Range(q) = Range(Rest(q)) \cup {Head(q)}
<1>1. q = <<>> => NextReady(q) = mainptr' /\ Rest(q) = <<>> /\ Range(q) = {}
  BY EmptyQueue DEF NextReady, Rest
<1>2. ASSUME q # <<>>
      PROVE  /\ NextReady(q) = Head(q) /\ Head(q) \in Stacks
             /\ Rest(q) \in Seq(Stacks) /\ Distinct(Rest(q))
             /\ Head(q) \notin Range(Rest(q))
             /\ Range(q) = Range(Rest(q)) \cup {Head(q)}
  <2>1. NextReady(q) = Head(q) /\ Rest(q) = Tail(q)
    BY <1>2 DEF NextReady, Rest
  <2>2. /\ Head(q) \in Stacks /\ Tail(q) \in Seq(Stacks)
        /\ Range(q) = Range(Tail(q)) \cup {Head(q)}
        /\ Distinct(Tail(q)) /\ Head(q) \notin Range(Tail(q))
    BY <1>2, TailQueue
  <2> QED BY <2>1, <2>2
<1> QED BY <1>1, <1>2

LEMMA Init1Inv == Init1 => Inv1
BY EmptyQueue DEF Init1, Inv1

LEMMA Step1Inv == Inv1 /\ [Next1]_vars1 => Inv1'
<1> SUFFICES ASSUME Inv1, [Next1]_vars1 PROVE Inv1'
  OBVIOUS
<1> USE StacksAssumption
<1>1. CASE ut_init
  BY <1>1, EmptyQueue DEF ut_init, Inv1
<1>2. CASE ut_run
  <2>1. CASE ready = <<>>
    BY <1>2, <2>1, TakeNext, EmptyQueue DEF ut_run, schedule, Inv1
  <2>2. CASE ready # <<>>
    BY <1>2, <2>2, TakeNext DEF ut_run, schedule, Inv1
  <2> QED BY <2>1, <2>2
<1>3. CASE ut_run_return
  BY <1>3, EmptyQueue DEF ut_run_return, Inv1
<1>4. CASE ut_end
  BY <1>4 DEF ut_end, Inv1
<1>5. ASSUME NEW t \in Stacks, ut_create(t) PROVE Inv1'
  <2>1. t \notin Range(ready)
    BY <1>5 DEF ut_create, Inv1
  <2>2. /\ ready' \in Seq(Stacks) /\ Distinct(ready')
        /\ Range(ready') = Range(ready) \cup {t}
    BY <1>5, <2>1, AppendQueue DEF ut_create, Inv1
  <2> QED BY <1>5, <2>2 DEF ut_create, Inv1
<1>6. ASSUME NEW t \in Stacks, ut_yield(t) PROVE Inv1'
  <2> DEFINE q == Append(ready, t)
  <2>1. /\ q \in Seq(Stacks) /\ q # <<>> /\ Distinct(q)
        /\ Range(q) = Range(ready) \cup {t} /\ mapped = Range(q)
    BY <1>6, AppendQueue DEF ut_yield, Runs, Inv1
  <2>2. /\ NextReady(q) \in Stacks
        /\ Rest(q) \in Seq(Stacks) /\ Distinct(Rest(q))
        /\ NextReady(q) \notin Range(Rest(q))
        /\ Range(q) = Range(Rest(q)) \cup {NextReady(q)}
    BY <2>1, TakeNext
  <2> HIDE DEF q
  <2>3. /\ ready' = Rest(q) /\ current' = NextReady(q)
        /\ UNCHANGED <<mainptr, mapped, mainpc>> /\ mainpc = "run"
    BY <1>6 DEF ut_yield, schedule, Runs, q
  <2> QED BY <2>1, <2>2, <2>3 DEF Inv1
<1>7. ASSUME NEW t \in Stacks, ut_exit(t) PROVE Inv1'
  <2>1. CASE ready = <<>>
    BY <1>7, <2>1, TakeNext, EmptyQueue DEF ut_exit, Runs, Inv1
  <2>2. CASE ready # <<>>
    BY <1>7, <2>2, TakeNext DEF ut_exit, Runs, Inv1
  <2> QED BY <2>1, <2>2
<1>8. CASE UNCHANGED vars1
  BY <1>8 DEF vars1, Inv1
<1> QED BY <1>1, <1>2, <1>3, <1>4, <1>5, <1>6, <1>7, <1>8 DEF Next1

-----------------------------------------------------------------------------

\* The count of threads that the later library keeps.
LEMMA CountMapped ==
    ASSUME NEW A, A \subseteq Stacks, NEW t \in Stacks
    PROVE  /\ t \notin A => Cardinality(A \cup {t}) = Cardinality(A) + 1
           /\ t \in A => Cardinality(A \ {t}) = Cardinality(A) - 1
<1>1. IsFiniteSet(A)
  BY StacksAssumption, FS_Subset
<1> QED BY <1>1, FS_AddElement, FS_RemoveElement

LEMMA InitRefines == Init1 => Scheduler!Init
<1>1. Cardinality({}) = 0
  BY FS_EmptySet
<1> QED BY <1>1 DEF Init1, Scheduler!Init

LEMMA StepRefines ==
    Inv1 /\ Inv1' /\ [Next1]_vars1 => [Scheduler!Next]_(Scheduler!uvars)
<1> SUFFICES ASSUME Inv1, Inv1', [Next1]_vars1
             PROVE  Scheduler!Next \/ UNCHANGED Scheduler!uvars
  BY DEF Scheduler!uvars
<1> USE StacksAssumption
<1>1. CASE ut_init
  BY <1>1 DEF ut_init, Scheduler!Next, Scheduler!ut_init
<1>2. CASE ut_run
  <2>1. CASE ready = <<>>
    <3>1. ready' = ready /\ stored' = stored
      BY <1>2, <2>1, TakeNext DEF ut_run, schedule, Inv1
    <3> QED BY <1>2, <2>1, <3>1 DEF ut_run, Scheduler!uvars
  <2>2. CASE ready # <<>>
    <3>1. Scheduler!ut_run
      BY <1>2, <2>2 DEF ut_run, schedule, NextReady, Rest, Scheduler!ut_run,
           Scheduler!schedule, Scheduler!NextThread, Scheduler!RestOfQueue
    <3> QED BY <3>1 DEF Scheduler!Next
  <2> QED BY <2>1, <2>2
<1>3. CASE ut_run_return
  <2>1. ready = <<>> /\ mapped = {}
    BY <1>3 DEF ut_run_return, Inv1
  <2>2. Scheduler!ut_run_return
    BY <1>3, <2>1, FS_EmptySet DEF ut_run_return, Scheduler!ut_run_return
  <2> QED BY <2>2 DEF Scheduler!Next
<1>4. CASE ut_end
  BY <1>4 DEF ut_end, Scheduler!uvars
<1>5. ASSUME NEW t \in Stacks, ut_create(t) PROVE Scheduler!Next
  <2>1. Cardinality(mapped') = Cardinality(mapped) + 1
    BY <1>5, CountMapped DEF ut_create, Inv1
  <2>2. mainpc = "run" => current \in Stacks
    BY <1>5 DEF ut_create, Inv1
  <2>3. Scheduler!ut_create(t)
    BY <1>5, <2>1, <2>2 DEF ut_create, Scheduler!ut_create, Scheduler!MayCreate
  <2> QED BY <2>3 DEF Scheduler!Next
<1>6. ASSUME NEW t \in Stacks, ut_yield(t) PROVE Scheduler!Next
  <2>1. Append(ready, t) # <<>>
    BY <1>6, AppendQueue DEF Inv1
  <2>2. Scheduler!ut_yield(t)
    BY <1>6, <2>1 DEF ut_yield, Runs, schedule, NextReady, Rest,
         Scheduler!ut_yield, Scheduler!Running, Scheduler!schedule,
         Scheduler!NextThread, Scheduler!RestOfQueue
  <2> QED BY <2>2 DEF Scheduler!Next
<1>7. ASSUME NEW t \in Stacks, ut_exit(t) PROVE Scheduler!Next
  <2>1. t \in mapped /\ Cardinality(mapped') = Cardinality(mapped) - 1
    BY <1>7, CountMapped DEF ut_exit, Runs, Inv1
  <2>2. Scheduler!ut_exit(t)
    BY <1>7, <2>1 DEF ut_exit, Runs, NextReady, Rest, Scheduler!ut_exit,
         Scheduler!Running, Scheduler!NextThread, Scheduler!RestOfQueue
  <2> QED BY <2>2 DEF Scheduler!Next
<1>8. CASE UNCHANGED vars1
  BY <1>8 DEF vars1, Scheduler!uvars
<1> QED BY <1>1, <1>2, <1>3, <1>4, <1>5, <1>6, <1>7, <1>8 DEF Next1

-----------------------------------------------------------------------------

\* The stacks mapped, the ready queue and the running thread of uthread.c of
\* lesson 14 fit together in every state.
THEOREM FirstLibraryInvariant == Spec1 => []Inv1
BY Init1Inv, Step1Inv, PTL DEF Spec1

\* Whatever calls are made, uthread.c of lesson 14 behaves like the scheduler
\* of the later library, although it counts no threads and never resets the
\* pointers that ut_run leaves behind.
THEOREM FirstLibraryImplementsScheduler == Spec1 => ImplementsScheduler
<1>1. Spec1 => []Inv1
  BY FirstLibraryInvariant
<1> QED BY <1>1, InitRefines, StepRefines, PTL
        DEF Spec1, ImplementsScheduler, Scheduler!Spec

\* The run of both lessons, in one state space: the first library implements the
\* scheduler in it too, since the programs about processes leave it alone.
THEOREM LessonsImplementScheduler == LessonSpec => ImplementsScheduler
<1>1. LessonInit => Init1
  BY DEF LessonInit
<1>2. [Threads1 \/ Processes1]_lessonvars => [Next1]_vars1
  BY DEF Threads1, Processes1, lessonvars
<1>3. LessonSpec => Spec1
  BY <1>1, <1>2, PTL DEF LessonSpec, Spec1
<1> QED BY <1>3, FirstLibraryImplementsScheduler

-----------------------------------------------------------------------------
(***************************************************************************)
(* The programs about processes: the inductive invariant                   *)
(***************************************************************************)

\* All texts that the programs print, send or leave in the mapped page.
Texts == {"pre", "text", "hello", "garbage", "empty", "part", "all"}

\* The types of all variables of the programs about processes.
ProcTypes ==
    /\ ProcTypeOK
    /\ pc \in [Procs -> Nat]
    /\ obuf \in [Procs -> Seq(Texts)]
    /\ pipe \in Seq(Texts) /\ screen \in Seq(Texts) /\ heard \in Seq(Texts)
    /\ page \in {"empty", "part", "all"}
    /\ alarm \in {"off", "set", "rung"} /\ done \in BOOLEAN

\* The programs with a pipe.
Piped == demo \in {"pipe1", "pipe2"}

\* The parent is behind its fork.
Forked == demo # "signal" /\ pc.parent > (IF Piped THEN 3 ELSE 2)

\* A process that ended has a fate and one that lives has none, a zombie has a
\* parent, there is a child only behind the fork, and who exits does so at exit.
Lives ==
    /\ \/ life.parent = "alive" /\ fate.parent = "none"
       \/ life.parent = "gone" /\ fate.parent # "none"
    /\ \/ life.child = "none" /\ fate.child = "none" /\ pc.child = 1
       \/ life.child = "alive" /\ fate.child = "none"
       \/ life.child \in {"zombie", "gone"} /\ fate.child # "none"
    /\ life.child = "zombie" => life.parent = "alive"
    /\ life.child # "none" => Forked
    /\ \A p \in Procs : fate[p] = "exit" => Call(p)[1] = "exit"

\* The child runs the program that exec gave it, with a buffer of its own.
Replaced == demo = "prog5" /\ pc.child > 4

\* How often the text printed before fork has left the buffers.
Outside == PreCount(screen) + PreCount(pipe) + PreCount(heard)

\* Where that text is: a process that lives has it once in its buffer, one that
\* exited has written it once, unless exec or a signal took its buffer away.
Printed ==
    demo # "signal" =>
      IF full
      THEN /\ PreCount(obuf["parent"]) = (IF life.parent = "alive" /\ pc.parent > 1 THEN 1 ELSE 0)
           /\ PreCount(obuf["child"]) = (IF life.child = "alive" /\ ~Replaced THEN 1 ELSE 0)
           /\ Outside = (IF life.parent = "gone" THEN 1 ELSE 0)
                       + (IF fate.child = "exit" /\ ~Replaced THEN 1 ELSE 0)
      ELSE /\ \A p \in Procs : obuf[p] = <<>>
           /\ Outside = (IF pc.parent > 1 THEN 1 ELSE 0)

\* Descriptors: the parent writes to the terminal, and so does prog2, to its copy of
\* stdout as well; the child of a program with a pipe has its write end as long as
\* it lives, in pipe2 in the end as stdout.
Files ==
    /\ life.parent = "alive" => /\ fd.parent.out = "tty"
                                /\ fd.parent.nfd = "none"
                                /\ Piped /\ pc.parent = 3 => fd.parent.wr = "w"
    /\ life.child = "alive" =>
         /\ fd.child.out = IF demo = "pipe2" /\ pc.child > 3 THEN "w" ELSE "tty"
         /\ demo = "pipe1" \/ (demo = "pipe2" /\ pc.child <= 4) => fd.child.wr = "w"
         /\ demo = "prog5" => fd.child.nfd \in {"none", "tty"}
    /\ ~Piped => pipe = <<>>
    /\ demo \in {"prog5", "signal"} => heard = <<>>

\* pipe1: the message is in the pipe once the child has written it, until the
\* parent reads it; the parent reads garbage only when the child ended before.
Pipe1Inv ==
    demo = "pipe1" =>
      /\ pc.parent <= 5 => heard = <<>>
      /\ pc.parent > 5 =>
           \/ heard = <<"hello">> /\ pipe = <<>> /\ pc.child = 4
           \/ heard = <<"garbage">> /\ pipe = <<>> /\ pc.child < 4 /\ life.child # "alive"
      /\ pc.parent <= 5 => pipe = IF pc.child = 4 THEN <<"hello">> ELSE <<>>

\* The child of pipe2 has sent what it has to say, by exit when it is buffered.
Sent == IF full THEN fate.child = "exit" ELSE pc.child = 6

\* pipe2: with full buffering the buffers hold all there is to say so far, and
\* what the parent has read and what is in the pipe is nothing or the message.
\* The loop over fgets ends with an empty pipe and a child that has ended.
Pipe2Inv ==
    demo = "pipe2" =>
      /\ full /\ pc.parent = 1 => obuf.parent = <<>>
      /\ full /\ pc.parent \in {2, 3} => obuf.parent = <<"pre">>
      /\ full /\ life.child = "alive" =>
           /\ pc.child = 1 => obuf.child = <<"pre">>
           /\ pc.child \in 2..5 => obuf.child = <<"pre", "text">>
           /\ pc.child = 6 => obuf.child = Message
      /\ heard \o pipe = IF Sent THEN Message ELSE <<>>
      /\ pc.parent > 8 => pipe = <<>> /\ life.child # "alive"

\* ex03: the page shows how far the child is, and the parent reads it at its end.
PageInv ==
    demo = "shared_mem" =>
      /\ pc.child = 1 => page = "empty"
      /\ pc.child = 2 => page = "part"
      /\ pc.child = 3 => page = "all"
      /\ pc.parent < 5 => heard = <<>>
      /\ pc.parent = 5 => heard = <<page>>

\* The parent is behind its waitpid.
Waited == \/ demo = "pipe1" /\ pc.parent > 6
          \/ demo = "pipe2" /\ pc.parent > 9
          \/ demo = "shared_mem" /\ pc.parent > 3

\* Behind waitpid the child has been reaped and its status is the one reported.
WaitInv ==
    Waited => \/ life.child = "none" /\ report = "unset"
              \/ life.child = "gone" /\ report = fate.child

\* signal: handlers are installed one after the other, done is set by the alarm
\* alone, and a user kills the parent only while a handler is missing.
AlarmInv ==
    /\ done <=> alarm = "rung"
    /\ alarm # "off" => demo = "signal" /\ pc.parent > 4
    /\ fate.parent = "killed" => demo = "signal" /\ handled # {"ALRM", "TERM", "INT"}
    /\ demo = "signal" => /\ pc.parent > 1 => "ALRM" \in handled
                          /\ pc.parent > 2 => "TERM" \in handled
                          /\ pc.parent > 3 => "INT" \in handled
                          /\ pc.parent > 7 => done

\* What the inductive invariant says besides types.
Parts ==
    Lives /\ Printed /\ Files /\ Pipe1Inv /\ Pipe2Inv /\ PageInv /\ WaitInv /\ AlarmInv

\* The inductive invariant of the programs about processes.
ProcIInv == ProcTypes /\ Parts

-----------------------------------------------------------------------------
(***************************************************************************)
(* Counting texts                                                          *)
(***************************************************************************)

\* Where the text printed before fork occurs in s.
Marks(s) == {i \in 1..Len(s) : s[i] = "pre"}

\* It occurs finitely often.
LEMMA MarksFinite ==
    ASSUME NEW S, NEW s \in Seq(S)
    PROVE  /\ PreCount(s) = Cardinality(Marks(s)) /\ PreCount(s) \in Nat
           /\ IsFiniteSet(Marks(s))
<1>1. Len(s) \in Nat /\ DOMAIN s = 1..Len(s)
  OBVIOUS
<1>2. IsFiniteSet(1..Len(s))
  BY <1>1, FS_Interval
<1>3. IsFiniteSet(Marks(s))
  BY <1>2, FS_Subset DEF Marks
<1>4. PreCount(s) = Cardinality(Marks(s))
  BY <1>1 DEF PreCount, Marks
<1> QED BY <1>3, <1>4, FS_CardinalityType

\* It does not occur in an empty sequence.
LEMMA CountNone == PreCount(<<>>) = 0
<1>1. Marks(<<>>) = {}
  BY DEF Marks
<1>2. <<>> \in Seq({})
  OBVIOUS
<1> QED BY <1>1, <1>2, MarksFinite, FS_EmptySet

\* A text at the end counts when it is that one.
LEMMA CountAppend ==
    ASSUME NEW S, NEW s \in Seq(S), NEW x \in S
    PROVE  /\ Append(s, x) \in Seq(S)
           /\ PreCount(Append(s, x)) = PreCount(s) + (IF x = "pre" THEN 1 ELSE 0)
<1> DEFINE a == Append(s, x)
<1>1. a \in Seq(S) /\ Len(a) = Len(s) + 1 /\ Len(s) \in Nat
  OBVIOUS
<1>2. \A i \in 1..Len(a) : a[i] = IF i = Len(s) + 1 THEN x ELSE s[i]
  OBVIOUS
<1> HIDE DEF a
<1>6. /\ PreCount(a) = Cardinality(Marks(a))
      /\ PreCount(s) = Cardinality(Marks(s)) /\ PreCount(s) \in Nat
  BY <1>1, MarksFinite
<1>3. Len(s) + 1 \notin Marks(s)
  BY <1>1 DEF Marks
<1>4. CASE x = "pre"
  <2>1. Marks(a) = Marks(s) \cup {Len(s) + 1}
    BY <1>1, <1>2, <1>4 DEF Marks
  <2>2. Cardinality(Marks(a)) = Cardinality(Marks(s)) + 1
    BY <2>1, <1>3, MarksFinite, FS_AddElement
  <2> QED BY <2>2, <1>1, <1>4, <1>6 DEF a
<1>5. CASE x # "pre"
  <2>1. Marks(a) = Marks(s)
    BY <1>1, <1>2, <1>5 DEF Marks
  <2> QED BY <2>1, <1>1, <1>5, <1>6 DEF a
<1> QED BY <1>4, <1>5

\* The counts of two sequences add up.
LEMMA CountConcat ==
    ASSUME NEW S, NEW s \in Seq(S), NEW t \in Seq(S)
    PROVE  /\ s \o t \in Seq(S)
           /\ PreCount(s \o t) = PreCount(s) + PreCount(t)
<1> DEFINE c == s \o t
<1> DEFINE U == {i + Len(s) : i \in Marks(t)}
<1>1. c \in Seq(S) /\ Len(c) = Len(s) + Len(t) /\ Len(s) \in Nat /\ Len(t) \in Nat
  OBVIOUS
<1>2. \A i \in 1..Len(c) : c[i] = IF i <= Len(s) THEN s[i] ELSE t[i - Len(s)]
  OBVIOUS
<1> HIDE DEF c
<1>3. Marks(s) \cap U = {}
  BY <1>1 DEF Marks
<1>4. Marks(c) = Marks(s) \cup U
  <2>1. ASSUME NEW i \in Marks(c) PROVE i \in Marks(s) \cup U
    <3>1. CASE i <= Len(s)
      BY <2>1, <3>1, <1>1, <1>2 DEF Marks
    <3>2. CASE ~(i <= Len(s))
      <4>1. i - Len(s) \in Marks(t) /\ i = (i - Len(s)) + Len(s)
        BY <2>1, <3>2, <1>1, <1>2 DEF Marks
      <4> QED BY <4>1
    <3> QED BY SMTT(60), <3>1, <3>2
  <2>2. ASSUME NEW i \in Marks(s) PROVE i \in Marks(c)
    BY <2>2, <1>1, <1>2 DEF Marks
  <2>3. ASSUME NEW i \in Marks(t) PROVE i + Len(s) \in Marks(c)
    <3>1. i \in 1..Len(t) /\ t[i] = "pre"
      BY <2>3 DEF Marks
    <3>2. i + Len(s) \in 1..Len(c) /\ ~(i + Len(s) <= Len(s)) /\ (i + Len(s)) - Len(s) = i
      BY <3>1, <1>1
    <3>3. c[i + Len(s)] = t[i]
      BY <3>1, <3>2, <1>2
    <3> QED BY SMTT(60), <3>1, <3>2, <3>3 DEF Marks
  <2> QED BY <2>1, <2>2, <2>3
<1>5. IsFiniteSet(U) /\ Cardinality(U) = Cardinality(Marks(t))
  <2> DEFINE f == [i \in Marks(t) |-> i + Len(s)]
  <2>1. f \in Bijection(Marks(t), U)
    BY <1>1 DEF Marks, Bijection, Injection, Surjection, IsInjective
  <2> HIDE DEF f
  <2> QED BY <2>1, MarksFinite, FS_Bijection DEF ExistsBijection
<1>6. Cardinality(Marks(c)) = Cardinality(Marks(s)) + Cardinality(Marks(t))
  <2>1. Cardinality(Marks(s) \cap U) = 0
    BY <1>3, FS_EmptySet
  <2>2. Cardinality(Marks(s) \cup U) = Cardinality(Marks(s)) + Cardinality(U) - Cardinality(Marks(s) \cap U)
    BY <1>5, MarksFinite, FS_Union
  <2> QED BY <2>1, <2>2, <1>4, <1>5, MarksFinite
<1>7. /\ PreCount(c) = Cardinality(Marks(c))
      /\ PreCount(s) = Cardinality(Marks(s)) /\ PreCount(t) = Cardinality(Marks(t))
  BY <1>1, MarksFinite
<1> QED BY <1>1, <1>6, <1>7 DEF c

\* Taking the head of a sequence off takes its count off.
LEMMA CountTail ==
    ASSUME NEW S, NEW s \in Seq(S), s # <<>>
    PROVE  /\ Head(s) \in S /\ Tail(s) \in Seq(S)
           /\ PreCount(s) = PreCount(Tail(s)) + (IF Head(s) = "pre" THEN 1 ELSE 0)
<1>1. Head(s) \in S /\ Tail(s) \in Seq(S) /\ <<>> \in Seq(S)
  OBVIOUS
<1>2. Append(<<>>, Head(s)) \in Seq(S)
  BY <1>1
<1>3. s = Append(<<>>, Head(s)) \o Tail(s)
  BY <1>1, <1>2
<1>4. /\ PreCount(Append(<<>>, Head(s))) = 0 + (IF Head(s) = "pre" THEN 1 ELSE 0)
      /\ PreCount(s) = PreCount(Append(<<>>, Head(s))) + PreCount(Tail(s))
  BY <1>1, <1>2, <1>3, CountNone, CountAppend, CountConcat
<1>5. PreCount(Tail(s)) \in Nat
  BY <1>1, MarksFinite
<1> QED BY <1>1, <1>4, <1>5

-----------------------------------------------------------------------------
(***************************************************************************)
(* Which call is where                                                     *)
(***************************************************************************)

\* The calls of prog5, one by one ...
LEMMA AtProg5 ==
    ASSUME demo = "prog5"
    PROVE  /\ Len(Program["parent"]) = 4 /\ Len(Program["child"]) = 10
           /\ Program["parent"][1][1] = "print" /\ Program["parent"][1][2] = "pre"
           /\ Program["parent"][2][1] = "fork"
           /\ Program["parent"][3][1] = "print" /\ Program["parent"][3][2] = "text"
           /\ Program["parent"][4][1] = "exit"
           /\ Program["child"][1][1] = "print" /\ Program["child"][1][2] = "text"
           /\ Program["child"][2][1] = "exec"
           /\ Program["child"][3][1] = "print" /\ Program["child"][3][2] = "text"
           /\ Program["child"][4][1] = "exit"
           /\ Program["child"][5][1] = "write" /\ Program["child"][5][2] = "out" /\ Program["child"][5][3] = "text"
           /\ Program["child"][6][1] = "dup2" /\ Program["child"][6][2] = "out" /\ Program["child"][6][3] = "nfd"
           /\ Program["child"][7][1] = "print" /\ Program["child"][7][2] = "text"
           /\ Program["child"][8][1] = "write" /\ Program["child"][8][2] = "nfd" /\ Program["child"][8][3] = "text"
           /\ Program["child"][9][1] = "print" /\ Program["child"][9][2] = "text"
           /\ Program["child"][10][1] = "exit"
BY DEF Program, prog5

\* ... of pipe1 ...
LEMMA AtPipe1 ==
    ASSUME demo = "pipe1"
    PROVE  /\ Len(Program["parent"]) = 7 /\ Len(Program["child"]) = 4
           /\ Program["parent"][1][1] = "print" /\ Program["parent"][1][2] = "pre"
           /\ Program["parent"][2][1] = "pipe"
           /\ Program["parent"][3][1] = "fork"
           /\ Program["parent"][4][1] = "close" /\ Program["parent"][4][2] = "wr"
           /\ Program["parent"][5][1] = "read"
           /\ Program["parent"][6][1] = "waitpid"
           /\ Program["parent"][7][1] = "exit"
           /\ Program["child"][1][1] = "print" /\ Program["child"][1][2] = "text"
           /\ Program["child"][2][1] = "close" /\ Program["child"][2][2] = "rd"
           /\ Program["child"][3][1] = "write" /\ Program["child"][3][2] = "wr" /\ Program["child"][3][3] = "hello"
           /\ Program["child"][4][1] = "exit"
BY DEF Program, pipe1

\* ... of pipe2 ...
LEMMA AtPipe2 ==
    ASSUME demo = "pipe2"
    PROVE  /\ Len(Program["parent"]) = 10 /\ Len(Program["child"]) = 6
           /\ Program["parent"][1][1] = "print" /\ Program["parent"][1][2] = "pre"
           /\ Program["parent"][2][1] = "pipe"
           /\ Program["parent"][3][1] = "fork"
           /\ Program["parent"][4][1] = "close" /\ Program["parent"][4][2] = "wr"
           /\ Program["parent"][5][1] = "dup2" /\ Program["parent"][5][2] = "rd" /\ Program["parent"][5][3] = "in"
           /\ Program["parent"][6][1] = "close" /\ Program["parent"][6][2] = "rd"
           /\ Program["parent"][7][1] = "print" /\ Program["parent"][7][2] = "text"
           /\ Program["parent"][8][1] = "fgets"
           /\ Program["parent"][9][1] = "waitpid"
           /\ Program["parent"][10][1] = "exit"
           /\ Program["child"][1][1] = "print" /\ Program["child"][1][2] = "text"
           /\ Program["child"][2][1] = "close" /\ Program["child"][2][2] = "rd"
           /\ Program["child"][3][1] = "dup2" /\ Program["child"][3][2] = "wr" /\ Program["child"][3][3] = "out"
           /\ Program["child"][4][1] = "close" /\ Program["child"][4][2] = "wr"
           /\ Program["child"][5][1] = "print" /\ Program["child"][5][2] = "hello"
           /\ Program["child"][6][1] = "exit"
BY DEF Program, pipe2

\* ... of ex03 ...
LEMMA AtSharedMem ==
    ASSUME demo = "shared_mem"
    PROVE  /\ Len(Program["parent"]) = 5 /\ Len(Program["child"]) = 3
           /\ Program["parent"][1][1] = "print" /\ Program["parent"][1][2] = "pre"
           /\ Program["parent"][2][1] = "fork"
           /\ Program["parent"][3][1] = "waitpid"
           /\ Program["parent"][4][1] = "look"
           /\ Program["parent"][5][1] = "exit"
           /\ Program["child"][1][1] = "copy" /\ Program["child"][1][2] = "part"
           /\ Program["child"][2][1] = "copy" /\ Program["child"][2][2] = "all"
           /\ Program["child"][3][1] = "exit"
BY DEF Program, shared_mem

\* ... and of signal.
LEMMA AtSignal ==
    ASSUME demo = "signal"
    PROVE  /\ Len(Program["parent"]) = 9 /\ Len(Program["child"]) = 1
           /\ Program["parent"][1][1] = "sigaction" /\ Program["parent"][1][2] = "ALRM"
           /\ Program["parent"][2][1] = "sigaction" /\ Program["parent"][2][2] = "TERM"
           /\ Program["parent"][3][1] = "sigaction" /\ Program["parent"][3][2] = "INT"
           /\ Program["parent"][4][1] = "alarm"
           /\ Program["parent"][5][1] = "print" /\ Program["parent"][5][2] = "text"
           /\ Program["parent"][6][1] = "while"
           /\ Program["parent"][7][1] = "sleep"
           /\ Program["parent"][8][1] = "print" /\ Program["parent"][8][2] = "text"
           /\ Program["parent"][9][1] = "exit"
           /\ Program["child"][1][1] = "exit"
BY DEF Program, signal

\* The calls that print, write, exec and exit, and where the programs have them.
TextPlaces(p) ==
    /\ Call(p)[1] = "print" =>
         /\ Call(p)[2] \in Texts
         /\ \/ p = "parent" /\ pc[p] = 1 /\ demo # "signal" /\ Call(p)[2] = "pre"
            \/ p = "parent" /\ Call(p)[2] = "text" /\
               (\/ demo = "prog5" /\ pc[p] = 3
                \/ demo = "pipe2" /\ pc[p] = 7
                \/ demo = "signal" /\ pc[p] \in {5, 8})
            \/ p = "child" /\ Call(p)[2] = "text" /\
               (\/ demo = "prog5" /\ pc[p] \in {1, 3, 7, 9}
                \/ Piped /\ pc[p] = 1)
            \/ p = "child" /\ Call(p)[2] = "hello" /\ demo = "pipe2" /\ pc[p] = 5
    /\ p = "parent" /\ pc[p] = 1 => demo = "signal" \/ Call(p)[1] = "print"
    /\ Call(p)[1] = "write" =>
         \/ /\ demo = "prog5" /\ p = "child" /\ Call(p)[3] = "text"
            /\ \/ pc[p] = 5 /\ Call(p)[2] = "out"
               \/ pc[p] = 8 /\ Call(p)[2] = "nfd"
         \/ demo = "pipe1" /\ p = "child" /\ pc[p] = 3 /\ Call(p)[2] = "wr" /\ Call(p)[3] = "hello"
    /\ Call(p)[1] = "exec" => demo = "prog5" /\ p = "child" /\ pc[p] = 2
    /\ Call(p)[1] = "exit" =>
         \/ demo = "prog5" /\ ((p = "parent" /\ pc[p] = 4) \/ (p = "child" /\ pc[p] \in {4, 10}))
         \/ demo = "pipe1" /\ pc[p] = (IF p = "parent" THEN 7 ELSE 4)
         \/ demo = "pipe2" /\ pc[p] = (IF p = "parent" THEN 10 ELSE 6)
         \/ demo = "shared_mem" /\ pc[p] = (IF p = "parent" THEN 5 ELSE 3)
         \/ demo = "signal" /\ pc[p] = (IF p = "parent" THEN 9 ELSE 1)

\* The calls that make and redirect descriptors, and where.
FilePlaces(p) ==
    /\ Call(p)[1] = "fork" => /\ p = "parent" /\ demo # "signal"
                              /\ pc[p] = IF Piped THEN 3 ELSE 2
    /\ Call(p)[1] = "pipe" => p = "parent" /\ Piped /\ pc[p] = 2
    /\ Call(p)[1] = "close" =>
         \/ p = "parent" /\ Piped /\ pc[p] = 4 /\ Call(p)[2] = "wr"
         \/ p = "parent" /\ demo = "pipe2" /\ pc[p] = 6 /\ Call(p)[2] = "rd"
         \/ p = "child" /\ Piped /\ pc[p] = 2 /\ Call(p)[2] = "rd"
         \/ p = "child" /\ demo = "pipe2" /\ pc[p] = 4 /\ Call(p)[2] = "wr"
    /\ Call(p)[1] = "dup2" =>
         \/ p = "parent" /\ demo = "pipe2" /\ pc[p] = 5 /\ Call(p)[2] = "rd" /\ Call(p)[3] = "in"
         \/ p = "child" /\ demo = "pipe2" /\ pc[p] = 3 /\ Call(p)[2] = "wr" /\ Call(p)[3] = "out"
         \/ p = "child" /\ demo = "prog5" /\ pc[p] = 6 /\ Call(p)[2] = "out" /\ Call(p)[3] = "nfd"

\* The calls that read, wait, use the mapping or handle signals, and where.
OtherPlaces(p) ==
    /\ Call(p)[1] = "read" => demo = "pipe1" /\ p = "parent" /\ pc[p] = 5
    /\ Call(p)[1] = "fgets" => demo = "pipe2" /\ p = "parent" /\ pc[p] = 8
    /\ Call(p)[1] = "waitpid" =>
         p = "parent" /\ <<demo, pc[p]>> \in {<<"pipe1", 6>>, <<"pipe2", 9>>, <<"shared_mem", 3>>}
    /\ Call(p)[1] = "copy" =>
         /\ demo = "shared_mem" /\ p = "child"
         /\ \/ pc[p] = 1 /\ Call(p)[2] = "part"
            \/ pc[p] = 2 /\ Call(p)[2] = "all"
    /\ Call(p)[1] = "look" => demo = "shared_mem" /\ p = "parent" /\ pc[p] = 4
    /\ Call(p)[1] = "sigaction" =>
         /\ demo = "signal" /\ p = "parent"
         /\ \/ pc[p] = 1 /\ Call(p)[2] = "ALRM"
            \/ pc[p] = 2 /\ Call(p)[2] = "TERM"
            \/ pc[p] = 3 /\ Call(p)[2] = "INT"
    /\ Call(p)[1] = "alarm" => demo = "signal" /\ p = "parent" /\ pc[p] = 4
    /\ Call(p)[1] = "while" => demo = "signal" /\ p = "parent" /\ pc[p] = 6
    /\ Call(p)[1] = "sleep" => demo = "signal" /\ p = "parent" /\ pc[p] = 7

\* Behind every call but exit there is another one.
MayReturn(p) == Call(p)[1] # "exit" => pc[p] + 1 \in 1..Len(Program[p])

\* Each call of a process is at one of those places of its program.
LEMMA Places ==
    ASSUME ProcTypes, NEW p \in Procs
    PROVE  TextPlaces(p) /\ FilePlaces(p) /\ OtherPlaces(p) /\ MayReturn(p)
<1>0. /\ pc[p] \in 1..Len(Program[p]) /\ (p = "parent" \/ p = "child")
      /\ demo \in {"prog5", "pipe1", "pipe2", "shared_mem", "signal"}
  BY DemosAssumption DEF ProcTypes, ProcTypeOK, Procs
<1>1. CASE demo = "prog5"
  <2>1. CASE p = "parent"
    <3>1. pc[p] \in 1..4
      BY <1>0, <1>1, <2>1, AtProg5
    <3>2. pc[p] = 1 \/ pc[p] = 2 \/ pc[p] = 3 \/ pc[p] = 4
      BY <3>1
    <3>3. TextPlaces(p) /\ FilePlaces(p) /\ OtherPlaces(p)
      BY <3>2, <1>1, <2>1, AtProg5
         DEF Call, TextPlaces, FilePlaces, OtherPlaces, Texts, Piped
    <3>4. Call(p)[1] # "exit" => pc[p] + 1 \in 1..4
      BY <3>2, <1>1, <2>1, AtProg5 DEF Call
    <3> QED BY <3>3, <3>4, <1>1, <2>1, AtProg5 DEF MayReturn
  <2>2. CASE p = "child"
    <3>1. pc[p] \in 1..10
      BY <1>0, <1>1, <2>2, AtProg5
    <3>2. pc[p] = 1 \/ pc[p] = 2 \/ pc[p] = 3 \/ pc[p] = 4 \/ pc[p] = 5 \/ pc[p] = 6 \/ pc[p] = 7
          \/ pc[p] = 8 \/ pc[p] = 9 \/ pc[p] = 10
      BY <3>1
    <3>3. TextPlaces(p) /\ FilePlaces(p) /\ OtherPlaces(p)
      BY <3>2, <1>1, <2>2, AtProg5
         DEF Call, TextPlaces, FilePlaces, OtherPlaces, Texts, Piped
    <3>4. Call(p)[1] # "exit" => pc[p] + 1 \in 1..10
      BY <3>2, <1>1, <2>2, AtProg5 DEF Call
    <3> QED BY <3>3, <3>4, <1>1, <2>2, AtProg5 DEF MayReturn
  <2> QED BY <2>1, <2>2, <1>0
<1>2. CASE demo = "pipe1"
  <2>1. CASE p = "parent"
    <3>1. pc[p] \in 1..7
      BY <1>0, <1>2, <2>1, AtPipe1
    <3>2. pc[p] = 1 \/ pc[p] = 2 \/ pc[p] = 3 \/ pc[p] = 4 \/ pc[p] = 5 \/ pc[p] = 6 \/ pc[p] = 7
      BY <3>1
    <3>3. TextPlaces(p) /\ FilePlaces(p) /\ OtherPlaces(p)
      BY <3>2, <1>2, <2>1, AtPipe1
         DEF Call, TextPlaces, FilePlaces, OtherPlaces, Texts, Piped
    <3>4. Call(p)[1] # "exit" => pc[p] + 1 \in 1..7
      BY <3>2, <1>2, <2>1, AtPipe1 DEF Call
    <3> QED BY <3>3, <3>4, <1>2, <2>1, AtPipe1 DEF MayReturn
  <2>2. CASE p = "child"
    <3>1. pc[p] \in 1..4
      BY <1>0, <1>2, <2>2, AtPipe1
    <3>2. pc[p] = 1 \/ pc[p] = 2 \/ pc[p] = 3 \/ pc[p] = 4
      BY <3>1
    <3>3. TextPlaces(p) /\ FilePlaces(p) /\ OtherPlaces(p)
      BY <3>2, <1>2, <2>2, AtPipe1
         DEF Call, TextPlaces, FilePlaces, OtherPlaces, Texts, Piped
    <3>4. Call(p)[1] # "exit" => pc[p] + 1 \in 1..4
      BY <3>2, <1>2, <2>2, AtPipe1 DEF Call
    <3> QED BY <3>3, <3>4, <1>2, <2>2, AtPipe1 DEF MayReturn
  <2> QED BY <2>1, <2>2, <1>0
<1>3. CASE demo = "pipe2"
  <2>1. CASE p = "parent"
    <3>1. pc[p] \in 1..10
      BY <1>0, <1>3, <2>1, AtPipe2
    <3>2. pc[p] = 1 \/ pc[p] = 2 \/ pc[p] = 3 \/ pc[p] = 4 \/ pc[p] = 5 \/ pc[p] = 6 \/ pc[p] = 7 \/ pc[p] = 8 \/ pc[p] = 9 \/ pc[p] = 10
      BY <3>1
    <3>3. TextPlaces(p) /\ FilePlaces(p) /\ OtherPlaces(p)
      BY <3>2, <1>3, <2>1, AtPipe2
         DEF Call, TextPlaces, FilePlaces, OtherPlaces, Texts, Piped
    <3>4. Call(p)[1] # "exit" => pc[p] + 1 \in 1..10
      BY <3>2, <1>3, <2>1, AtPipe2 DEF Call
    <3> QED BY <3>3, <3>4, <1>3, <2>1, AtPipe2 DEF MayReturn
  <2>2. CASE p = "child"
    <3>1. pc[p] \in 1..6
      BY <1>0, <1>3, <2>2, AtPipe2
    <3>2. pc[p] = 1 \/ pc[p] = 2 \/ pc[p] = 3 \/ pc[p] = 4 \/ pc[p] = 5 \/ pc[p] = 6
      BY <3>1
    <3>3. TextPlaces(p) /\ FilePlaces(p) /\ OtherPlaces(p)
      BY <3>2, <1>3, <2>2, AtPipe2
         DEF Call, TextPlaces, FilePlaces, OtherPlaces, Texts, Piped
    <3>4. Call(p)[1] # "exit" => pc[p] + 1 \in 1..6
      BY <3>2, <1>3, <2>2, AtPipe2 DEF Call
    <3> QED BY <3>3, <3>4, <1>3, <2>2, AtPipe2 DEF MayReturn
  <2> QED BY <2>1, <2>2, <1>0
<1>4. CASE demo = "shared_mem"
  <2>1. CASE p = "parent"
    <3>1. pc[p] \in 1..5
      BY <1>0, <1>4, <2>1, AtSharedMem
    <3>2. pc[p] = 1 \/ pc[p] = 2 \/ pc[p] = 3 \/ pc[p] = 4 \/ pc[p] = 5
      BY <3>1
    <3>3. TextPlaces(p) /\ FilePlaces(p) /\ OtherPlaces(p)
      BY <3>2, <1>4, <2>1, AtSharedMem
         DEF Call, TextPlaces, FilePlaces, OtherPlaces, Texts, Piped
    <3>4. Call(p)[1] # "exit" => pc[p] + 1 \in 1..5
      BY <3>2, <1>4, <2>1, AtSharedMem DEF Call
    <3> QED BY <3>3, <3>4, <1>4, <2>1, AtSharedMem DEF MayReturn
  <2>2. CASE p = "child"
    <3>1. pc[p] \in 1..3
      BY <1>0, <1>4, <2>2, AtSharedMem
    <3>2. pc[p] = 1 \/ pc[p] = 2 \/ pc[p] = 3
      BY <3>1
    <3>3. TextPlaces(p) /\ FilePlaces(p) /\ OtherPlaces(p)
      BY <3>2, <1>4, <2>2, AtSharedMem
         DEF Call, TextPlaces, FilePlaces, OtherPlaces, Texts, Piped
    <3>4. Call(p)[1] # "exit" => pc[p] + 1 \in 1..3
      BY <3>2, <1>4, <2>2, AtSharedMem DEF Call
    <3> QED BY <3>3, <3>4, <1>4, <2>2, AtSharedMem DEF MayReturn
  <2> QED BY <2>1, <2>2, <1>0
<1>5. CASE demo = "signal"
  <2>1. CASE p = "parent"
    <3>1. pc[p] \in 1..9
      BY <1>0, <1>5, <2>1, AtSignal
    <3>2. pc[p] = 1 \/ pc[p] = 2 \/ pc[p] = 3 \/ pc[p] = 4 \/ pc[p] = 5 \/ pc[p] = 6 \/ pc[p] = 7 \/ pc[p] = 8 \/ pc[p] = 9
      BY <3>1
    <3>3. TextPlaces(p) /\ FilePlaces(p) /\ OtherPlaces(p)
      BY <3>2, <1>5, <2>1, AtSignal
         DEF Call, TextPlaces, FilePlaces, OtherPlaces, Texts, Piped
    <3>4. Call(p)[1] # "exit" => pc[p] + 1 \in 1..9
      BY <3>2, <1>5, <2>1, AtSignal DEF Call
    <3> QED BY <3>3, <3>4, <1>5, <2>1, AtSignal DEF MayReturn
  <2>2. CASE p = "child"
    <3>1. pc[p] \in 1..1
      BY <1>0, <1>5, <2>2, AtSignal
    <3>2. pc[p] = 1
      BY <3>1
    <3>3. TextPlaces(p) /\ FilePlaces(p) /\ OtherPlaces(p)
      BY <3>2, <1>5, <2>2, AtSignal
         DEF Call, TextPlaces, FilePlaces, OtherPlaces, Texts, Piped
    <3>4. Call(p)[1] # "exit" => pc[p] + 1 \in 1..1
      BY <3>2, <1>5, <2>2, AtSignal DEF Call
    <3> QED BY <3>3, <3>4, <1>5, <2>2, AtSignal DEF MayReturn
  <2> QED BY <2>1, <2>2, <1>0
<1> QED BY <1>0, <1>1, <1>2, <1>3, <1>4, <1>5

\* Which program runs depends on demo alone.
LEMMA SameProgram == demo' = demo => Program' = Program
BY DEF Program

-----------------------------------------------------------------------------
(***************************************************************************)
(* What calls have in common                                               *)
(***************************************************************************)

\* A call that returns leaves its process at the next call of its program ...
LEMMA ReturnStays ==
    ASSUME ProcTypes, NEW p \in Procs, Call(p)[1] # "exit", Return(p), demo' = demo
    PROVE  /\ pc' \in [Procs -> Nat] /\ \A q \in Procs : pc'[q] \in 1..Len(Program'[q])
           /\ pc'[p] = pc[p] + 1 /\ \A q \in Procs \ {p} : pc'[q] = pc[q]
<1>1. pc' = [pc EXCEPT ![p] = pc[p] + 1] /\ pc \in [Procs -> Nat]
  BY DEF Return, Goto, ProcTypes
<1>2. pc[p] + 1 \in 1..Len(Program[p]) /\ \A q \in Procs : pc[q] \in 1..Len(Program[q])
  BY Places DEF MayReturn, ProcTypes, ProcTypeOK
<1>3. Program' = Program
  BY SameProgram
<1> QED BY <1>1, <1>2, <1>3

\* ... and a jump leaves it at a call of its program.
LEMMA GotoStays ==
    ASSUME ProcTypes, NEW p \in Procs, NEW i \in Nat, i \in 1..Len(Program[p]), Goto(p, i), demo' = demo
    PROVE  /\ pc' \in [Procs -> Nat] /\ \A q \in Procs : pc'[q] \in 1..Len(Program'[q])
           /\ pc'[p] = i /\ \A q \in Procs \ {p} : pc'[q] = pc[q]
<1>1. pc' = [pc EXCEPT ![p] = i] /\ pc \in [Procs -> Nat]
  BY DEF Goto, ProcTypes
<1>2. \A q \in Procs : pc[q] \in 1..Len(Program[q])
  BY DEF ProcTypes, ProcTypeOK
<1>3. Program' = Program
  BY SameProgram
<1> QED BY <1>1, <1>2, <1>3

\* Texts that are put somewhere are all there, once.
LEMMA PutTypes ==
    ASSUME ProcTypes, NEW p, NEW d, NEW t \in Seq(Texts), Put(p, d, t)
    PROVE  /\ pipe' \in Seq(Texts) /\ screen' \in Seq(Texts)
           /\ PreCount(pipe') + PreCount(screen') = PreCount(pipe) + PreCount(screen) + PreCount(t)
<1>1. pipe \in Seq(Texts) /\ screen \in Seq(Texts)
  BY DEF ProcTypes
<1>2. PreCount(pipe) \in Nat /\ PreCount(screen) \in Nat /\ PreCount(t) \in Nat
  BY <1>1, MarksFinite
<1>3. CASE fd[p][d] = "w"
  <2>1. pipe' = pipe \o t /\ screen' = screen
    BY <1>3 DEF Put
  <2>2. pipe \o t \in Seq(Texts) /\ PreCount(pipe \o t) = PreCount(pipe) + PreCount(t)
    BY <1>1, CountConcat
  <2> QED BY <1>1, <1>2, <2>1, <2>2
<1>4. CASE fd[p][d] # "w"
  <2>1. screen' = screen \o t /\ pipe' = pipe
    BY <1>4 DEF Put
  <2>2. screen \o t \in Seq(Texts) /\ PreCount(screen \o t) = PreCount(screen) + PreCount(t)
    BY <1>1, CountConcat
  <2> QED BY <1>1, <1>2, <2>1, <2>2
<1> QED BY <1>3, <1>4

\* Counts are natural numbers.
LEMMA CountsNat ==
    ASSUME ProcTypes
    PROVE  /\ PreCount(pipe) \in Nat /\ PreCount(screen) \in Nat /\ PreCount(heard) \in Nat
           /\ \A p \in Procs : PreCount(obuf[p]) \in Nat
BY MarksFinite DEF ProcTypes

\* What is put somewhere has left the buffers.
LEMMA PutCounts ==
    ASSUME ProcTypes, NEW p, NEW d, NEW t \in Seq(Texts), Put(p, d, t), heard' = heard
    PROVE  Outside' = Outside + PreCount(t)
<1>1. PreCount(t) \in Nat /\ PreCount(heard') = PreCount(heard)
  BY MarksFinite
<1>2. PreCount(pipe') + PreCount(screen') = PreCount(pipe) + PreCount(screen) + PreCount(t)
  BY PutTypes
<1>3. pipe' \in Seq(Texts) /\ screen' \in Seq(Texts)
  BY PutTypes
<1>4. PreCount(pipe') \in Nat /\ PreCount(screen') \in Nat
  BY <1>3, MarksFinite
<1> QED BY <1>1, <1>2, <1>4, CountsNat DEF Outside

\* Every step keeps the types.
LEMMA TypesKept ==
    ASSUME ProcTypes, ProcNext
    PROVE  ProcTypes'
<1>0. /\ pc \in [Procs -> Nat] /\ \A q \in Procs : pc[q] \in 1..Len(Program[q])
      /\ obuf \in [Procs -> Seq(Texts)] /\ <<>> \in Seq(Texts)
      /\ heard \in Seq(Texts) /\ pipe \in Seq(Texts) /\ screen \in Seq(Texts)
  BY EmptyQueue DEF ProcTypes, ProcTypeOK
<1>a. \A x \in Texts : Append(heard, x) \in Seq(Texts)
  BY <1>0
<1> DEFINE
      Places1 == pc' \in [Procs -> Nat] /\ \A q \in Procs : pc'[q] \in 1..Len(Program'[q])
<1>1. ASSUME NEW p \in Procs, print(p) PROVE ProcTypes'
  <2>1. Call(p)[1] = "print" /\ Return(p) /\ demo' = demo
    BY <1>1 DEF print, Calls
  <2>2. Places1
    BY <2>1, ReturnStays
  <2>3. Call(p)[2] \in Texts
    BY <2>1, Places DEF TextPlaces
  <2>4. <<Call(p)[2]>> \in Seq(Texts) /\ Append(obuf[p], Call(p)[2]) \in Seq(Texts)
    BY <2>3, <1>0
  <2>5. /\ obuf' \in [Procs -> Seq(Texts)]
        /\ pipe' \in Seq(Texts) /\ screen' \in Seq(Texts)
    <3>1. CASE full
      BY <1>1, <3>1, <2>4, <1>0 DEF print
    <3>2. CASE ~full
      BY <1>1, <3>2, <2>4, <1>0, PutTypes DEF print
    <3> QED BY <3>1, <3>2
  <2> QED BY <1>1, <2>2, <2>5 DEF print, ProcTypes, ProcTypeOK, signals
<1>2. ASSUME NEW p \in Procs, write(p) PROVE ProcTypes'
  <2>1. Call(p)[1] = "write" /\ Return(p) /\ demo' = demo
    BY <1>2 DEF write, Calls
  <2>2. Places1
    BY <2>1, ReturnStays
  <2>3. Call(p)[3] \in Texts
    BY <2>1, Places DEF TextPlaces, Texts
  <2>4. <<Call(p)[3]>> \in Seq(Texts)
    BY <2>3
  <2>5. pipe' \in Seq(Texts) /\ screen' \in Seq(Texts)
    BY <1>2, <2>4, PutTypes DEF write
  <2> QED BY <1>2, <2>2, <2>5 DEF write, ProcTypes, ProcTypeOK, signals
<1>3. ASSUME NEW p \in Procs, Redirect(p) PROVE ProcTypes'
  <2>1. Call(p)[1] \in {"pipe", "close", "dup2"} /\ Return(p) /\ demo' = demo
    BY <1>3 DEF Redirect, Calls
  <2>2. Places1
    BY <2>1, ReturnStays
  <2>3. fd' \in [Procs -> [{"in", "out", "rd", "wr", "nfd"} -> {"tty", "r", "w", "none"}]]
    <3>1. fd \in [Procs -> [{"in", "out", "rd", "wr", "nfd"} -> {"tty", "r", "w", "none"}]]
      BY DEF ProcTypes, ProcTypeOK
    <3>2. CASE fd' = [fd EXCEPT ![p].rd = "r", ![p].wr = "w"]
      BY <3>1, <3>2
    <3>3. CASE Call(p)[1] = "close" /\ fd' = [fd EXCEPT ![p][Call(p)[2]] = "none"]
      BY <3>1, <3>3
    <3>4. CASE /\ Call(p)[1] = "dup2"
               /\ fd' = [fd EXCEPT ![p][Call(p)[3]] = fd[p][Call(p)[2]]]
      <4>1. Call(p)[2] \in {"in", "out", "rd", "wr", "nfd"}
        BY <3>4, Places DEF FilePlaces
      <4> QED BY <3>1, <3>4, <4>1
    <3> QED BY <1>3, <3>2, <3>3, <3>4 DEF Redirect, Calls
  <2> QED BY <1>3, <2>2, <2>3 DEF Redirect, ProcTypes, ProcTypeOK, signals
<1>4. CASE fork
  <2>1. Call("parent")[1] = "fork" /\ Return("parent") /\ demo' = demo
    BY <1>4 DEF fork, Calls
  <2>2. Places1
    BY <2>1, ReturnStays DEF Procs
  <2> QED BY <1>4, <2>2 DEF fork, ProcTypes, ProcTypeOK, signals, Procs
<1>5. ASSUME NEW p \in Procs, exec(p) PROVE ProcTypes'
  <2>1. Call(p)[1] = "exec" /\ demo' = demo
    BY <1>5 DEF exec, Calls
  <2>2. Places1
    <3>1. CASE Return(p)
      BY <3>1, <2>1, ReturnStays
    <3>2. CASE Goto(p, 5)
      <4>1. 5 \in 1..Len(Program[p])
        BY <2>1, Places, AtProg5 DEF TextPlaces
      <4> QED BY <4>1, <3>2, <2>1, GotoStays
    <3> QED BY <1>5, <3>1, <3>2 DEF exec
  <2>3. obuf' \in [Procs -> Seq(Texts)]
    BY <1>5, <1>0 DEF exec
  <2> QED BY <1>5, <2>2, <2>3 DEF exec, ProcTypes, ProcTypeOK, signals
<1>6. ASSUME NEW p \in Procs, NEW how \in {"exit", "killed"}, End(p, how),
             pipe' \in Seq(Texts), screen' \in Seq(Texts)
      PROVE  ProcTypes'
  <2>1. demo' = demo /\ pc' = pc
    BY <1>6 DEF End
  <2>2. Places1
    BY <2>1, <1>0, SameProgram
  <2>3. life' \in [Procs -> {"none", "alive", "zombie", "gone"}]
    BY <1>6 DEF End, ProcTypes, ProcTypeOK
  <2>4. fd' \in [Procs -> [{"in", "out", "rd", "wr", "nfd"} -> {"tty", "r", "w", "none"}]]
    <3>1. fd \in [Procs -> [{"in", "out", "rd", "wr", "nfd"} -> {"tty", "r", "w", "none"}]]
      BY DEF ProcTypes, ProcTypeOK
    <3>2. DOMAIN fd[p] = {"in", "out", "rd", "wr", "nfd"}
      BY <3>1
    <3> QED BY <1>6, <3>1, <3>2 DEF End
  <2> QED BY <1>6, <1>0, <2>2, <2>3, <2>4 DEF End, ProcTypes, ProcTypeOK, signals
<1>7. ASSUME NEW p \in Procs, exit(p) PROVE ProcTypes'
  <2>1. pipe' \in Seq(Texts) /\ screen' \in Seq(Texts)
    BY <1>7, <1>0, PutTypes DEF exit
  <2> QED BY <1>6, <1>7, <2>1 DEF exit
<1>8. CASE kill_child
  BY <1>6, <1>8, <1>0 DEF kill_child, Procs
<1>9. CASE read
  <2>1. Call("parent")[1] = "read" /\ Return("parent") /\ demo' = demo
    BY <1>9 DEF read, Calls, Hear
  <2>2. Places1
    BY <2>1, ReturnStays DEF Procs
  <2>3. pipe # <<>> => Head(pipe) \in Texts /\ Tail(pipe) \in Seq(Texts)
    BY <1>0
  <2>4. pipe' \in Seq(Texts) /\ heard' \in Seq(Texts)
    <3>1. "garbage" \in Texts
      BY DEF Texts
    <3> QED BY <1>9, <2>3, <1>0, <1>a, <3>1 DEF read, Hear
  <2> QED BY <1>9, <2>2, <2>4 DEF read, Hear, ProcTypes, ProcTypeOK, signals
<1>10. CASE fgets
  <2>1. Call("parent")[1] = "fgets" /\ demo' = demo
    BY <1>10 DEF fgets, Calls, Hear
  <2>2. Places1
    BY <1>10, <1>0, <2>1, ReturnStays, SameProgram DEF Procs, fgets
  <2>3. pipe # <<>> => Head(pipe) \in Texts /\ Tail(pipe) \in Seq(Texts)
    BY <1>0
  <2>4. pipe' \in Seq(Texts) /\ heard' \in Seq(Texts)
    BY <1>10, <2>3, <1>0, <1>a DEF fgets, Hear, files
  <2> QED BY <1>10, <2>2, <2>4 DEF fgets, Hear, ProcTypes, ProcTypeOK, signals, files
<1>11. CASE waitpid
  <2>1. Call("parent")[1] = "waitpid" /\ Return("parent") /\ demo' = demo
    BY <1>11 DEF waitpid, Calls
  <2>2. Places1
    BY <2>1, ReturnStays DEF Procs
  <2>3. life' \in [Procs -> {"none", "alive", "zombie", "gone"}]
        /\ report' \in {"none", "unset", "exit", "killed"}
    BY <1>11 DEF waitpid, ProcTypes, ProcTypeOK, Procs
  <2> QED BY <1>11, <2>2, <2>3 DEF waitpid, ProcTypes, ProcTypeOK, signals, files
<1>12. ASSUME NEW p \in Procs, SharedPage(p) PROVE ProcTypes'
  <2>1. Call(p)[1] \in {"copy", "look"} /\ Return(p) /\ demo' = demo
    BY <1>12 DEF SharedPage, Calls
  <2>2. Places1
    BY <2>1, ReturnStays
  <2>3. heard' \in Seq(Texts) /\ page' \in {"empty", "part", "all"}
    <3>1. page \in {"empty", "part", "all"} /\ page \in Texts
      BY DEF ProcTypes, Texts
    <3>2. Call(p)[1] = "copy" => Call(p)[2] \in {"empty", "part", "all"}
      BY Places DEF OtherPlaces
    <3> QED BY <1>12, <1>0, <1>a, <3>1, <3>2 DEF SharedPage, Calls
  <2> QED BY <1>12, <2>2, <2>3 DEF SharedPage, ProcTypes, ProcTypeOK, signals, files
<1>13. CASE SignalCall
  <2>1. /\ Call("parent")[1] \in {"sigaction", "alarm", "while", "sleep"} /\ demo' = demo
        /\ "parent" \in Procs
    BY <1>13 DEF SignalCall, Calls, Procs
  <2>2. Places1
    <3>1. CASE Return("parent")
      BY <3>1, <2>1, ReturnStays
    <3>2. ASSUME NEW i \in {6, 7, 8}, Goto("parent", i), demo = "signal"
          PROVE  Places1
      <4>1. i \in Nat /\ i \in 1..Len(Program["parent"])
        BY <3>2, AtSignal
      <4> QED BY <4>1, <3>2, <2>1, GotoStays
    <3>3. CASE Call("parent")[1] = "while" /\ Goto("parent", pc.parent + IF done THEN 2 ELSE 1)
      <4>1. demo = "signal" /\ pc.parent = 6
        BY <3>3, <2>1, Places DEF OtherPlaces
      <4> QED BY <4>1, <3>2, <3>3
    <3>4. CASE Call("parent")[1] = "sleep" /\ Goto("parent", pc.parent - 1)
      <4>1. demo = "signal" /\ pc.parent = 7
        BY <3>4, <2>1, Places DEF OtherPlaces
      <4> QED BY <4>1, <3>2, <3>4
    <3> QED BY <1>13, <3>1, <3>3, <3>4 DEF SignalCall, Calls
  <2>3. handled' \subseteq {"ALRM", "TERM", "INT"} /\ alarm' \in {"off", "set", "rung"}
    <3>1. Call("parent")[1] = "sigaction" => Call("parent")[2] \in {"ALRM", "TERM", "INT"}
      BY <2>1, Places DEF OtherPlaces
    <3> QED BY <1>13, <3>1 DEF SignalCall, Calls, ProcTypes, ProcTypeOK
  <2> QED BY <1>13, <2>2, <2>3 DEF SignalCall, ProcTypes, ProcTypeOK, files
<1>14. ASSUME Wake, alarm' \in {"off", "set", "rung"}, done' \in BOOLEAN
       PROVE  ProcTypes'
  <2>1. demo' = demo /\ "parent" \in Procs
    BY <1>14 DEF Wake, Procs
  <2>2. Places1
    <3>1. CASE pc' = pc
      BY <3>1, <2>1, <1>0, SameProgram
    <3>2. CASE Calls("parent", "sleep") /\ Goto("parent", pc.parent - 1)
      <4>1. demo = "signal" /\ pc.parent = 7
        BY <3>2, <2>1, Places DEF OtherPlaces, Calls
      <4>2. 6 \in 1..Len(Program["parent"]) /\ 6 \in Nat /\ Goto("parent", 6)
        BY <4>1, <3>2, AtSignal
      <4> QED BY <4>2, <2>1, GotoStays
    <3> QED BY <1>14, <3>1, <3>2 DEF Wake
  <2> QED BY <1>14, <2>2 DEF Wake, ProcTypes, ProcTypeOK, files
<1>15. CASE onSigAlarm
  BY <1>14, <1>15 DEF onSigAlarm
<1>16. ASSUME NEW s \in {"TERM", "INT"}, Interrupt(s) PROVE ProcTypes'
  <2>1. alarm \in {"off", "set", "rung"} /\ done \in BOOLEAN
    BY DEF ProcTypes
  <2> QED BY <1>6, <1>14, <1>16, <2>1, <1>0 DEF Interrupt, Procs
<1> QED
  BY <1>1, <1>2, <1>3, <1>4, <1>5, <1>7, <1>8, <1>9, <1>10, <1>11, <1>12, <1>13,
     <1>15, <1>16 DEF ProcNext, ProcStep, Procs

\* A call that changes nobody's life keeps Lives.
LEMMA LivesSame ==
    ASSUME ProcTypes, Lives, demo' = demo, life' = life, fate' = fate,
           NEW p \in Procs, life[p] = "alive",
           \A q \in Procs \ {p} : pc'[q] = pc[q],
           demo = "signal" \/ p = "child" \/ pc'[p] = pc[p] + 1
    PROVE  Lives'
<1>1. Program' = Program
  BY SameProgram
<1>2. pc["parent"] \in Nat /\ pc["child"] \in Nat
  BY DEF ProcTypes, Procs
<1>3. Forked => Forked'
  BY <1>2 DEF Forked, Piped, Procs
<1>4. \A q \in Procs : fate'[q] = "exit" => Program'[q][pc'[q]][1] = "exit"
  <2>1. fate[p] # "exit"
    BY DEF Lives, Procs
  <2> QED BY <2>1, <1>1 DEF Lives, Call
<1>5. life'["child"] = "none" => pc'["child"] = 1
  BY DEF Lives, Procs
<1> QED BY <1>3, <1>4, <1>5 DEF Lives, Call

\* The count of a single text.
LEMMA CountOne ==
    ASSUME NEW x \in Texts
    PROVE  <<x>> \in Seq(Texts) /\ PreCount(<<x>>) = IF x = "pre" THEN 1 ELSE 0
<1>1. <<>> \in Seq(Texts) /\ <<x>> \in Seq(Texts) /\ Append(<<>>, x) = <<x>>
  OBVIOUS
<1>2. PreCount(Append(<<>>, x)) = 0 + (IF x = "pre" THEN 1 ELSE 0)
  BY <1>1, CountAppend, CountNone
<1> QED BY <1>1, <1>2

\* Append to sequences of one and of two texts.
LEMMA AppendTuple ==
    ASSUME NEW S, NEW x \in S, NEW y \in S, NEW z \in S
    PROVE  Append(<<x>>, y) = <<x, y>> /\ Append(<<x, y>>, z) = <<x, y, z>>
<1>1. \A s, t \in Seq(S) :
         (Len(s) = Len(t) /\ \A i \in 1..Len(s) : s[i] = t[i]) => s = t
  OBVIOUS
<1>2. Append(<<x>>, y) = <<x, y>>
  <2> DEFINE s == Append(<<x>>, y)
  <2> DEFINE t == <<x, y>>
  <2>1. <<x>> \in Seq(S) /\ Len(<<x>>) = 1
    OBVIOUS
  <2>2. s \in Seq(S) /\ Len(s) = 2 /\ s[1] = x /\ s[2] = y
    BY <2>1
  <2>3. t \in Seq(S) /\ Len(t) = 2 /\ t[1] = x /\ t[2] = y
    OBVIOUS
  <2> HIDE DEF s, t
  <2>4. \A i \in 1..2 : i = 1 \/ i = 2
    OBVIOUS
  <2>5. s = t
    BY <1>1, <2>2, <2>3, <2>4
  <2> QED BY <2>5 DEF s, t
<1>3. Append(<<x, y>>, z) = <<x, y, z>>
  <2> DEFINE s == Append(<<x, y>>, z)
  <2> DEFINE t == <<x, y, z>>
  <2>1. <<x, y>> \in Seq(S) /\ Len(<<x, y>>) = 2
    OBVIOUS
  <2>2. s \in Seq(S) /\ Len(s) = 3 /\ s[1] = x /\ s[2] = y /\ s[3] = z
    BY <2>1
  <2>3. t \in Seq(S) /\ Len(t) = 3 /\ t[1] = x /\ t[2] = y /\ t[3] = z
    OBVIOUS
  <2> HIDE DEF s, t
  <2>4. \A i \in 1..3 : i = 1 \/ i = 2 \/ i = 3
    OBVIOUS
  <2>5. s = t
    BY <1>1, <2>2, <2>3, <2>4
  <2> QED BY <2>5 DEF s, t
<1> QED BY <1>2, <1>3

\* Concatenation with the empty sequence, and of a head that moves over.
LEMMA ConcatEmpty ==
    ASSUME NEW S, NEW s \in Seq(S), NEW t \in Seq(S)
    PROVE  /\ s \o t = <<>> <=> (s = <<>> /\ t = <<>>)
           /\ <<>> \o t = t /\ s \o <<>> = s
           /\ t # <<>> => Append(s, Head(t)) \o Tail(t) = s \o t
<1>1. /\ Len(s) \in Nat /\ Len(t) \in Nat
      /\ Len(s \o t) = Len(s) + Len(t) /\ s \o t \in Seq(S)
      /\ <<>> \in Seq(S)
  OBVIOUS
<1>2. s \o t = <<>> => Len(s) = 0 /\ Len(t) = 0
  BY <1>1
<1>3. <<>> \o t = t /\ s \o <<>> = s
  OBVIOUS
<1>4. t # <<>> => Append(s, Head(t)) \o Tail(t) = s \o t
  OBVIOUS
<1>5. (Len(s) = 0 => s = <<>>) /\ (Len(t) = 0 => t = <<>>)
  OBVIOUS
<1> QED BY <1>2, <1>3, <1>4, <1>5

\* The message of pipe2, text by text.
LEMMA MessageText ==
    /\ Append(<<"pre">>, "text") = <<"pre", "text">>
    /\ Append(<<"pre", "text">>, "hello") = <<"pre", "text", "hello">>
    /\ <<"pre", "text", "hello">> \in Seq(Texts) /\ <<"hello">> \in Seq(Texts)
    /\ demo = "pipe2" => Message = IF full THEN <<"pre", "text", "hello">> ELSE <<"hello">>
<1>0. "pre" \in Texts /\ "text" \in Texts /\ "hello" \in Texts
  BY DEF Texts
<1>1. Append(<<"pre">>, "text") = <<"pre", "text">>
  BY <1>0, AppendTuple
<1>2. Append(<<"pre", "text">>, "hello") = <<"pre", "text", "hello">>
  BY <1>0, AppendTuple
<1>3. <<"pre", "text", "hello">> \in Seq(Texts) /\ <<"hello">> \in Seq(Texts)
  BY DEF Texts
<1>4. demo = "pipe2" => Message = IF full THEN <<"pre", "text", "hello">> ELSE <<"hello">>
  BY DEF Message
<1> QED BY <1>1, <1>2, <1>3, <1>4

-----------------------------------------------------------------------------
(***************************************************************************)
(* Every call keeps the invariant                                          *)
(***************************************************************************)

\* printf and puts keep the invariant, into the buffer, the terminal or the pipe ...
LEMMA PrintKeeps ==
    ASSUME ProcIInv, NEW p \in Procs, print(p)
    PROVE  Parts'
<1> DEFINE t == Call(p)[2]
<1>1. /\ life[p] = "alive" /\ Call(p)[1] = "print" /\ Return(p)
      /\ UNCHANGED <<demo, full, fd, heard, page, life, fate, report, handled, alarm, done>>
  BY DEF print, Calls, signals
<1>2. /\ ProcTypes /\ TextPlaces(p)
      /\ pc'[p] = pc[p] + 1 /\ \A q \in Procs \ {p} : pc'[q] = pc[q]
      /\ pc["parent"] \in Nat /\ pc["child"] \in Nat
  BY <1>1, Places, ReturnStays DEF ProcIInv, Parts, ProcTypes, Procs
<1>3. t \in Texts /\ <<t>> \in Seq(Texts) /\ PreCount(<<t>>) = IF t = "pre" THEN 1 ELSE 0
  BY <1>1, <1>2, CountOne DEF TextPlaces
<1>4. Lives'
  BY <1>1, <1>2, LivesSame DEF ProcIInv, Parts
<1>5. /\ full => /\ obuf' = [obuf EXCEPT ![p] = Append(obuf[p], t)]
                 /\ pipe' = pipe /\ screen' = screen
      /\ ~full => Put(p, "out", <<t>>) /\ obuf' = obuf
  BY DEF print
<1>6. fd[p]["out"] # "w" => pipe' = pipe
  BY <1>5 DEF Put
<1>7. Printed'
  <2>0. demo = "prog5" => Replaced' = Replaced
    BY <1>1, <1>2 DEF Replaced, TextPlaces, Procs, Piped
  <2>1. CASE full
    <3>1. /\ obuf'[p] = Append(obuf[p], t) /\ \A q \in Procs \ {p} : obuf'[q] = obuf[q]
          /\ obuf[p] \in Seq(Texts)
      BY <1>2, <1>5, <2>1 DEF ProcTypes
    <3>2. PreCount(Append(obuf[p], t)) = PreCount(obuf[p]) + (IF t = "pre" THEN 1 ELSE 0)
      BY <3>1, <1>3, CountAppend
    <3>3. Outside' = Outside
      BY <1>1, <1>5, <2>1 DEF Outside
    <3>4. CASE p = "parent"
      <4>1. /\ PreCount(obuf'["parent"]) = PreCount(obuf["parent"]) + (IF t = "pre" THEN 1 ELSE 0)
            /\ PreCount(obuf'["child"]) = PreCount(obuf["child"])
        BY <3>1, <3>2, <3>4 DEF Procs
      <4>2. t = "pre" <=> pc["parent"] = 1
        BY <3>4, <1>1, <1>2 DEF TextPlaces
      <4>3. Replaced' = Replaced
        BY <3>4, <1>1, <1>2 DEF Replaced, Procs
      <4> QED BY <4>1, <4>2, <4>3, <3>3, <3>4, <2>1, <1>1, <1>2
              DEF ProcIInv, Parts, Printed, Procs
    <3>5. CASE p = "child"
      <4>1. /\ PreCount(obuf'["child"]) = PreCount(obuf["child"])
            /\ PreCount(obuf'["parent"]) = PreCount(obuf["parent"])
        <5>1. t # "pre"
          BY <3>5, <1>1, <1>2 DEF TextPlaces
        <5>2. PreCount(obuf[p]) \in Nat
          BY <1>2, CountsNat
        <5>3. PreCount(Append(obuf[p], t)) = PreCount(obuf[p])
          BY <3>2, <5>1, <5>2
        <5>4. obuf'["child"] = Append(obuf[p], t) /\ obuf'["parent"] = obuf["parent"]
          BY <3>1, <3>5 DEF Procs
        <5> QED BY <3>5, <5>3, <5>4
      <4> QED BY <4>1, <2>0, <3>3, <3>5, <2>1, <1>1, <1>2
              DEF ProcIInv, Parts, Printed, Procs, Replaced
    <3> QED BY <3>4, <3>5 DEF Procs
  <2>2. CASE ~full
    <3>1. Outside' = Outside + (IF t = "pre" THEN 1 ELSE 0)
      <4>1. Outside' = Outside + PreCount(<<t>>)
        BY <1>1, <1>2, <1>3, <1>5, <2>2, PutCounts
      <4> QED BY <4>1, <1>3
    <3>2. t = "pre" <=> (p = "parent" /\ pc[p] = 1 /\ demo # "signal")
      BY <1>1, <1>2 DEF TextPlaces
    <3> QED BY <3>1, <3>2, <2>2, <1>1, <1>2, <1>5 DEF ProcIInv, Parts, Printed, Procs
  <2> QED BY <2>1, <2>2 DEF ProcIInv, Parts, ProcTypes, ProcTypeOK
<1>8. Files'
  BY <1>1, <1>2, <1>6 DEF ProcIInv, Parts, Files, TextPlaces, Procs, Piped
<1>9. Pipe1Inv'
  BY <1>1, <1>2, <1>6 DEF ProcIInv, Parts, Files, Pipe1Inv, TextPlaces, Procs, Piped
<1>10. ASSUME demo = "pipe2" PROVE Pipe2Inv'
  <2>0. /\ "parent" \in Procs /\ "child" \in Procs /\ p \in {"parent", "child"}
        /\ Pipe2Inv /\ Lives /\ Files
    BY DEF Procs, ProcIInv, Parts
  <2>1. CASE p = "parent" /\ pc[p] = 1
    <3>1. full => obuf'["parent"] = <<"pre">>
      <4>1. ASSUME full PROVE Append(obuf["parent"], t) = <<"pre">>
        <5>1. obuf["parent"] = <<>> /\ t = "pre"
          BY <4>1, <2>1, <2>0, <1>10, <1>1, <1>2 DEF Pipe2Inv, TextPlaces
        <5> QED BY <5>1
      <4>2. obuf \in [Procs -> Seq(Texts)]
        BY <1>2 DEF ProcTypes
      <4> QED BY <4>1, <4>2, <1>5, <2>1, <2>0
    <3>2. pc'["parent"] = 2 /\ pc'["child"] = pc["child"] /\ life["child"] = "none"
      BY <1>2, <2>0, <2>1, <1>10 DEF Lives, Forked, Piped
    <3>3. pipe' = pipe
      BY <1>1, <1>6, <2>0, <2>1 DEF Files
    <3> QED BY <3>1, <3>2, <3>3, <1>1, <2>0 DEF Pipe2Inv, Sent, Message
  <2>2. CASE p = "parent" /\ pc[p] # 1
    <3>1. pc["parent"] = 7 /\ pc'["parent"] = 8 /\ pc'["child"] = pc["child"]
      BY <1>1, <1>2, <2>0, <2>2, <1>10 DEF TextPlaces
    <3>2. obuf'["child"] = obuf["child"] /\ pipe' = pipe
      BY <1>1, <1>2, <1>5, <1>6, <2>0, <2>2 DEF Files, ProcTypes
    <3> QED BY <3>1, <3>2, <1>1, <2>0 DEF Pipe2Inv, Sent, Message
  <2>3. CASE p = "child"
    <3>1. /\ pc'["parent"] = pc["parent"] /\ pc["child"] \in {1, 5}
          /\ pc'["child"] = pc["child"] + 1
          /\ t = IF pc["child"] = 1 THEN "text" ELSE "hello"
      BY <1>1, <1>2, <2>0, <2>3, <1>10 DEF TextPlaces
    <3>2. obuf'["parent"] = obuf["parent"]
      BY <1>1, <1>2, <1>5, <2>0, <2>3 DEF ProcTypes
    <3>3. life["child"] = "alive" /\ fate["child"] # "exit" /\ ~Sent
      BY <1>1, <2>0, <2>3, <3>1 DEF Lives, Sent
    <3>4. heard = <<>> /\ pipe = <<>>
      BY <1>2, <2>0, <1>10, <3>3, ConcatEmpty DEF Pipe2Inv, ProcTypes
    <3>5. CASE full
      <4>1. obuf'["child"] = Append(obuf["child"], t) /\ pipe' = <<>>
        BY <1>2, <1>5, <2>0, <2>3, <3>4, <3>5 DEF ProcTypes
      <4>2. /\ pc["child"] = 1 => obuf'["child"] = <<"pre", "text">>
            /\ pc["child"] = 5 => obuf'["child"] = Message
        <5>1. CASE pc["child"] = 1
          <6>1. obuf["child"] = <<"pre">> /\ t = "text"
            BY <5>1, <3>1, <3>3, <3>5, <2>0, <1>10 DEF Pipe2Inv
          <6>2. obuf'["child"] = <<"pre", "text">>
            BY <4>1, <6>1, MessageText
          <6> QED BY <5>1, <6>2
        <5>2. CASE pc["child"] = 5
          <6>1. obuf["child"] = <<"pre", "text">> /\ t = "hello"
            BY <5>2, <3>1, <3>3, <3>5, <2>0, <1>10 DEF Pipe2Inv
          <6>2. obuf'["child"] = Message
            BY <4>1, <6>1, <3>5, <1>10, MessageText
          <6> QED BY <5>2, <6>2
        <5> QED BY <5>1, <5>2, <3>1
      <4>3. Message' = Message /\ ~Sent'
        BY <3>3, <3>5, <1>1 DEF Message, Sent
      <4>4. \/ pc["child"] = 1 /\ pc'["child"] = 2
            \/ pc["child"] = 5 /\ pc'["child"] = 6
        BY <3>1
      <4>5. heard' \o pipe' = <<>>
        BY <4>1, <3>4, <1>1, ConcatEmpty, EmptyQueue
      <4>6. /\ pc'["child"] = 1 => obuf'["child"] = <<"pre">>
            /\ pc'["child"] \in 2..5 => obuf'["child"] = <<"pre", "text">>
            /\ pc'["child"] = 6 => obuf'["child"] = Message'
        BY <4>2, <4>3, <4>4
      <4>7. ~(pc'["parent"] > 8)
        BY <3>1, <3>3, <2>0, <1>10 DEF Pipe2Inv
      <4>8. /\ full' /\ pc'["parent"] = 1 => obuf'["parent"] = <<>>
            /\ full' /\ pc'["parent"] \in {2, 3} => obuf'["parent"] = <<"pre">>
        BY <3>1, <3>2, <2>0, <1>1, <1>10 DEF Pipe2Inv
      <4> QED BY <4>3, <4>5, <4>6, <4>7, <4>8 DEF Pipe2Inv
    <3>6. CASE ~full
      <4>1. pipe' = IF pc["child"] = 1 THEN <<>> ELSE <<"hello">>
        BY <1>5, <1>10, <2>0, <2>3, <3>1, <3>3, <3>4, <3>6 DEF Put, Files
      <4> QED BY <4>1, <3>1, <3>2, <3>3, <3>4, <3>6, <2>0, <1>1, <1>10
              DEF Pipe2Inv, Sent, Message
    <3> QED BY <3>5, <3>6, <1>2 DEF ProcTypes, ProcTypeOK
  <2> QED BY <2>0, <2>1, <2>2, <2>3
<1>11. PageInv'
  BY <1>1, <1>2 DEF ProcIInv, Parts, PageInv, TextPlaces, Procs, Piped
<1>12. WaitInv'
  BY <1>1, <1>2 DEF ProcIInv, Parts, WaitInv, Waited, TextPlaces, Procs, Piped
<1>13. AlarmInv'
  BY <1>1, <1>2 DEF ProcIInv, Parts, AlarmInv, TextPlaces, Procs
<1>14. demo # "pipe2" => Pipe2Inv'
  BY <1>1 DEF Pipe2Inv
<1> QED BY <1>4, <1>7, <1>8, <1>9, <1>10, <1>11, <1>12, <1>13, <1>14 DEF Parts

\* ... and so do write of prog2 and of pipe1 ...
LEMMA WriteKeeps ==
    ASSUME ProcIInv, NEW p \in Procs, write(p)
    PROVE  Parts'
<1> DEFINE t == Call(p)[3]
<1>1. /\ life[p] = "alive" /\ Call(p)[1] = "write" /\ Return(p)
      /\ UNCHANGED <<demo, full, fd, obuf, heard, page, life, fate, report, handled, alarm, done>>
      /\ Put(p, Call(p)[2], <<t>>)
  BY DEF write, Calls, signals
<1>2. /\ ProcTypes /\ TextPlaces(p)
      /\ pc'[p] = pc[p] + 1 /\ \A q \in Procs \ {p} : pc'[q] = pc[q]
      /\ pc["parent"] \in Nat /\ pc["child"] \in Nat
  BY <1>1, Places, ReturnStays DEF ProcIInv, ProcTypes, Procs
<1>3. /\ p = "child" /\ pc'["parent"] = pc["parent"] /\ pc'["child"] = pc["child"] + 1
      /\ \/ demo = "prog5" /\ pc["child"] \in {5, 8} /\ t = "text" /\ Call(p)[2] \in {"out", "nfd"}
         \/ demo = "pipe1" /\ pc["child"] = 3 /\ t = "hello" /\ Call(p)[2] = "wr"
  BY <1>1, <1>2 DEF TextPlaces, Procs
<1>4. <<t>> \in Seq(Texts) /\ PreCount(<<t>>) = 0
  <2>1. t \in Texts /\ t # "pre"
    BY <1>3 DEF Texts
  <2> QED BY <2>1, CountOne
<1>5. Lives'
  BY <1>1, <1>2, LivesSame DEF ProcIInv, Parts
<1>6. demo = "prog5" => pipe' = pipe
  BY <1>1, <1>3 DEF Put, Files, ProcIInv, Parts
<1>7. Printed'
  <2>1. Outside' = Outside + PreCount(<<t>>)
    BY <1>1, <1>2, <1>4, PutCounts
  <2>2. Outside \in Nat
    BY <1>2, CountsNat DEF Outside
  <2>3. Replaced' = Replaced
    BY <1>1, <1>2, <1>3 DEF Replaced
  <2> QED BY <2>1, <2>2, <2>3, <1>1, <1>3, <1>4 DEF ProcIInv, Parts, Printed
<1>8. Files'
  BY <1>1, <1>3, <1>6 DEF ProcIInv, Parts, Files, Procs, Piped
<1>9. Pipe1Inv'
  <2>1. CASE demo = "pipe1"
    <3>1. pc["parent"] <= 5 /\ pipe = <<>> /\ heard = <<>>
      BY <2>1, <1>1, <1>2, <1>3 DEF ProcIInv, Parts, Pipe1Inv
    <3>2. pipe' = <<"hello">>
      BY <3>1, <2>1, <1>1, <1>3 DEF Put, Files, ProcIInv, Parts
    <3> QED BY <3>1, <3>2, <2>1, <1>1, <1>2, <1>3 DEF Pipe1Inv
  <2> QED BY <2>1, <1>1 DEF Pipe1Inv
<1>10. Pipe2Inv' /\ PageInv'
  BY <1>1, <1>3 DEF Pipe2Inv, PageInv
<1>11. WaitInv'
  BY <1>1, <1>3 DEF ProcIInv, Parts, WaitInv, Waited
<1>12. AlarmInv'
  BY <1>1, <1>3 DEF ProcIInv, Parts, AlarmInv
<1> QED BY <1>5, <1>7, <1>8, <1>9, <1>10, <1>11, <1>12 DEF Parts

\* ... pipe, close and dup2 ...
LEMMA RedirectKeeps ==
    ASSUME ProcIInv, NEW p \in Procs, Redirect(p)
    PROVE  Parts'
<1>1. /\ life[p] = "alive" /\ Call(p)[1] \in {"pipe", "close", "dup2"} /\ Return(p)
      /\ UNCHANGED <<demo, full, obuf, pipe, screen, heard, page, life, fate, report, handled, alarm, done>>
  BY DEF Redirect, Calls, signals
<1>2. /\ ProcTypes /\ FilePlaces(p)
      /\ pc'[p] = pc[p] + 1 /\ \A q \in Procs \ {p} : pc'[q] = pc[q]
      /\ pc["parent"] \in Nat /\ pc["child"] \in Nat
  BY <1>1, Places, ReturnStays DEF ProcIInv, ProcTypes, Procs
<1>3. /\ demo \in {"pipe1", "pipe2", "prog5"}
      /\ \/ /\ p = "parent" /\ pc'["child"] = pc["child"] /\ pc'["parent"] = pc["parent"] + 1
            /\ \/ Piped /\ pc["parent"] \in {2, 4}
               \/ demo = "pipe2" /\ pc["parent"] \in {5, 6}
         \/ /\ p = "child" /\ pc'["parent"] = pc["parent"] /\ pc'["child"] = pc["child"] + 1
            /\ \/ Piped /\ pc["child"] = 2
               \/ demo = "pipe2" /\ pc["child"] \in {3, 4}
               \/ demo = "prog5" /\ pc["child"] = 6
  BY <1>1, <1>2 DEF FilePlaces, Procs, Piped
<1>4. Lives'
  BY <1>1, <1>2, LivesSame DEF ProcIInv, Parts
<1>5. Printed'
  <2>1. Outside' = Outside
    BY <1>1 DEF Outside
  <2> QED BY <2>1, <1>1, <1>3 DEF ProcIInv, Parts, Printed, Replaced
<1>6. Files'
  <2>1. /\ fd \in [Procs -> [{"in", "out", "rd", "wr", "nfd"} -> {"tty", "r", "w", "none"}]]
        /\ "parent" \in Procs /\ "child" \in Procs
    BY <1>2 DEF ProcTypes, ProcTypeOK, Procs
  <2>2. CASE Call(p)[1] = "pipe" /\ fd' = [fd EXCEPT ![p].rd = "r", ![p].wr = "w"]
    <3>1. p = "parent" /\ pc["parent"] = 2
      BY <2>2, <1>2 DEF FilePlaces
    <3>2. /\ fd'["child"] = fd["child"] /\ fd'["parent"]["out"] = fd["parent"]["out"]
          /\ fd'["parent"]["nfd"] = fd["parent"]["nfd"] /\ fd'["parent"]["wr"] = "w"
      BY <2>1, <2>2, <3>1
    <3> QED BY <3>1, <3>2, <1>1, <1>3 DEF ProcIInv, Parts, Files, Piped
  <2>3. CASE Call(p)[1] = "close" /\ fd' = [fd EXCEPT ![p][Call(p)[2]] = "none"]
    <3>1. \/ p = "parent" /\ pc["parent"] \in {4, 6}
          \/ p = "child" /\ pc["child"] = 2 /\ Call(p)[2] = "rd"
          \/ p = "child" /\ pc["child"] = 4 /\ Call(p)[2] = "wr" /\ demo = "pipe2"
      BY <2>3, <1>2 DEF FilePlaces
    <3>2. Call(p)[2] \in {"rd", "wr"}
      BY <2>3, <1>2 DEF FilePlaces
    <3>3. \A q \in Procs : fd'[q] = IF q = p THEN [fd[p] EXCEPT ![Call(p)[2]] = "none"] ELSE fd[q]
      BY <2>1, <2>3
    <3>4. /\ fd'["child"]["out"] = fd["child"]["out"] /\ fd'["parent"]["out"] = fd["parent"]["out"]
          /\ fd'["child"]["nfd"] = fd["child"]["nfd"] /\ fd'["parent"]["nfd"] = fd["parent"]["nfd"]
      BY <2>1, <3>2, <3>3
    <3>5. Call(p)[2] = "rd" \/ p = "parent" => fd'["child"]["wr"] = fd["child"]["wr"]
      BY <2>1, <3>3
    <3>6. p = "child" => fd'["parent"] = fd["parent"]
      BY <2>1, <3>3
    <3> QED BY <3>1, <3>4, <3>5, <3>6, <1>1, <1>3 DEF ProcIInv, Parts, Files, Piped
  <2>4. CASE Call(p)[1] = "dup2" /\ fd' = [fd EXCEPT ![p][Call(p)[3]] = fd[p][Call(p)[2]]]
    <3>1. \/ demo = "pipe2" /\ p = "parent" /\ pc["parent"] = 5 /\ Call(p)[3] = "in"
          \/ /\ demo = "pipe2" /\ p = "child" /\ pc["child"] = 3
             /\ Call(p)[2] = "wr" /\ Call(p)[3] = "out"
          \/ /\ demo = "prog5" /\ p = "child" /\ pc["child"] = 6
             /\ Call(p)[2] = "out" /\ Call(p)[3] = "nfd"
      BY <2>4, <1>2 DEF FilePlaces
    <3>2. CASE p = "parent"
      <4>1. /\ fd'["child"] = fd["child"] /\ fd'["parent"]["out"] = fd["parent"]["out"]
            /\ fd'["parent"]["nfd"] = fd["parent"]["nfd"]
        BY <2>1, <2>4, <3>1, <3>2
      <4> QED BY <3>1, <3>2, <4>1, <1>1, <1>3 DEF ProcIInv, Parts, Files, Piped
    <3>3. CASE p = "child" /\ demo = "pipe2"
      <4>1. /\ fd'["parent"] = fd["parent"] /\ fd'["child"]["out"] = fd["child"]["wr"]
            /\ fd'["child"]["wr"] = fd["child"]["wr"]
        BY <2>1, <2>4, <3>1, <3>3
      <4> QED BY <3>1, <3>3, <4>1, <1>1, <1>3 DEF ProcIInv, Parts, Files, Piped
    <3>4. CASE p = "child" /\ demo = "prog5"
      <4>1. /\ fd'["parent"] = fd["parent"] /\ fd'["child"]["out"] = fd["child"]["out"]
            /\ fd'["child"]["nfd"] = fd["child"]["out"]
        BY <2>1, <2>4, <3>1, <3>4
      <4> QED BY <3>1, <3>4, <4>1, <1>1, <1>3 DEF ProcIInv, Parts, Files, Piped
    <3> QED BY <3>2, <3>3, <3>4, <3>1
  <2> QED BY <2>2, <2>3, <2>4, <1>1 DEF Redirect, Calls
<1>7. Pipe1Inv'
  BY <1>1, <1>3 DEF ProcIInv, Parts, Pipe1Inv
<1>8. Pipe2Inv'
  BY <1>1, <1>3 DEF ProcIInv, Parts, Pipe2Inv, Sent, Message
<1>9. PageInv'
  BY <1>1, <1>3 DEF PageInv
<1>10. WaitInv'
  BY <1>1, <1>3 DEF ProcIInv, Parts, WaitInv, Waited
<1>11. AlarmInv'
  BY <1>1, <1>3 DEF ProcIInv, Parts, AlarmInv
<1> QED BY <1>4, <1>5, <1>6, <1>7, <1>8, <1>9, <1>10, <1>11 DEF Parts

\* ... fork, which copies the buffer and the descriptors, or fails ...
LEMMA ForkKeeps ==
    ASSUME ProcIInv, fork
    PROVE  Parts'
<1>1. /\ life["parent"] = "alive" /\ Call("parent")[1] = "fork" /\ Return("parent")
      /\ UNCHANGED <<demo, full, pipe, screen, heard, page, fate, report, handled, alarm, done>>
      /\ "parent" \in Procs
  BY DEF fork, Calls, signals, Procs
<1>2. /\ ProcTypes /\ FilePlaces("parent") /\ pc["parent"] \in Nat
      /\ pc'["parent"] = pc["parent"] + 1 /\ pc'["child"] = pc["child"]
  BY <1>1, Places, ReturnStays DEF ProcIInv, ProcTypes, Procs
<1>3. /\ demo # "signal" /\ pc["parent"] = (IF Piped THEN 3 ELSE 2)
  BY <1>1, <1>2 DEF FilePlaces
<1>4. life["child"] = "none" /\ pc["child"] = 1 /\ fate["child"] = "none" /\ fate["parent"] = "none"
  BY <1>1, <1>2, <1>3 DEF ProcIInv, Parts, Lives, Forked
<1>5. /\ life'["parent"] = "alive" /\ fd'["parent"] = fd["parent"] /\ obuf'["parent"] = obuf["parent"]
      /\ \/ /\ life'["child"] = "alive" /\ fd'["child"] = fd["parent"]
            /\ obuf'["child"] = obuf["parent"]
         \/ life'["child"] = "none" /\ obuf'["child"] = obuf["child"]
  BY <1>1, <1>2, <1>4 DEF fork, ProcTypes, ProcTypeOK, Procs
<1>6. Lives'
  BY <1>1, <1>2, <1>3, <1>4, <1>5 DEF Lives, Forked, Piped, Procs
<1>7. Printed'
  <2>1. Outside' = Outside
    BY <1>1 DEF Outside
  <2>2. ~Replaced /\ ~Replaced'
    BY <1>1, <1>2, <1>4 DEF Replaced
  <2>3. pc["parent"] > 1 /\ pc'["parent"] > 1
    BY <1>2, <1>3
  <2>4. \/ PreCount(obuf'["child"]) = PreCount(obuf["parent"])
        \/ PreCount(obuf'["child"]) = PreCount(obuf["child"])
    BY <1>5
  <2>5. CASE full
    <3>1. PreCount(obuf["parent"]) = 1 /\ PreCount(obuf["child"]) = 0
      BY <2>2, <2>3, <2>5, <1>1, <1>3, <1>4 DEF ProcIInv, Parts, Printed
    <3>2. /\ PreCount(obuf'["parent"]) = 1
          /\ PreCount(obuf'["child"]) = IF life'["child"] = "alive" THEN 1 ELSE 0
      BY <3>1, <1>5
    <3> QED BY <3>2, <2>1, <2>2, <2>3, <2>5, <1>1, <1>3, <1>4, <1>5
            DEF ProcIInv, Parts, Printed
  <2>6. CASE ~full
    BY <2>1, <2>3, <2>6, <1>1, <1>3, <1>5 DEF ProcIInv, Parts, Printed, Procs
  <2> QED BY <2>5, <2>6, <1>2 DEF ProcTypes, ProcTypeOK
<1>8. Files'
  BY <1>1, <1>2, <1>3, <1>4, <1>5 DEF ProcIInv, Parts, Files, Piped
<1>9. Pipe1Inv'
  BY <1>1, <1>2, <1>3, <1>4, <1>5 DEF ProcIInv, Parts, Pipe1Inv, Piped
<1>10. Pipe2Inv'
  BY <1>1, <1>2, <1>3, <1>4, <1>5 DEF ProcIInv, Parts, Pipe2Inv, Piped, Sent, Message
<1>11. PageInv'
  BY <1>1, <1>2, <1>3, <1>4 DEF ProcIInv, Parts, PageInv, Piped
<1>12. WaitInv'
  BY <1>1, <1>2, <1>3 DEF WaitInv, Waited, Piped
<1>13. AlarmInv'
  BY <1>1, <1>2, <1>3 DEF ProcIInv, Parts, AlarmInv
<1> QED BY <1>6, <1>7, <1>8, <1>9, <1>10, <1>11, <1>12, <1>13 DEF Parts

\* ... exec, which drops the buffer, or fails ...
LEMMA ExecKeeps ==
    ASSUME ProcIInv, NEW p \in Procs, exec(p)
    PROVE  Parts'
<1>1. /\ life[p] = "alive" /\ Call(p)[1] = "exec"
      /\ UNCHANGED <<demo, full, fd, pipe, screen, heard, page, life, fate, report, handled, alarm, done>>
  BY DEF exec, Calls, signals
<1>2. ProcTypes /\ p = "child" /\ demo = "prog5" /\ pc["child"] = 2
  BY <1>1, Places DEF ProcIInv, TextPlaces
<1>3. /\ pc'["parent"] = pc["parent"] /\ obuf'["parent"] = obuf["parent"]
      /\ \/ pc'["child"] = 5 /\ obuf'["child"] = <<>>
         \/ pc'["child"] = 3 /\ obuf'["child"] = obuf["child"]
  BY <1>2 DEF exec, Return, Goto, ProcTypes, Procs
<1>4. Lives'
  <2>1. \A q \in Procs \ {p} : pc'[q] = pc[q]
    BY <1>2, <1>3 DEF Procs
  <2> QED BY <2>1, <1>1, <1>2, LivesSame DEF ProcIInv, Parts
<1>5. Printed'
  <2>1. Outside' = Outside
    BY <1>1 DEF Outside
  <2>2. ~Replaced /\ (Replaced' <=> pc'["child"] = 5)
    BY <1>1, <1>2, <1>3 DEF Replaced
  <2>3. fate["child"] = "none"
    BY <1>1, <1>2 DEF ProcIInv, Parts, Lives
  <2>4. /\ PreCount(obuf'["parent"]) = PreCount(obuf["parent"])
        /\ \/ pc'["child"] = 5 /\ PreCount(obuf'["child"]) = 0
           \/ pc'["child"] = 3 /\ PreCount(obuf'["child"]) = PreCount(obuf["child"])
    BY <1>3, CountNone
  <2> QED BY <2>1, <2>2, <2>3, <2>4, <1>1, <1>2, <1>3 DEF ProcIInv, Parts, Printed, Procs
<1>6. Files'
  BY <1>1, <1>2, <1>3 DEF ProcIInv, Parts, Files, Piped
<1>7. Pipe1Inv' /\ Pipe2Inv' /\ PageInv' /\ WaitInv'
  BY <1>1, <1>2 DEF Pipe1Inv, Pipe2Inv, PageInv, WaitInv, Waited
<1>8. AlarmInv'
  BY <1>1, <1>2, <1>3 DEF ProcIInv, Parts, AlarmInv
<1> QED BY <1>4, <1>5, <1>6, <1>7, <1>8 DEF Parts

\* What the end of a process changes.
LEMMA EndChanges ==
    ASSUME ProcTypes, NEW p \in Procs, NEW how, End(p, how)
    PROVE  /\ UNCHANGED <<demo, full, pc, heard, page, report, handled, alarm, done>>
           /\ p = "child" =>
                /\ life'["child"] = (IF life["parent"] = "alive" THEN "zombie" ELSE "gone")
                /\ fate'["child"] = how /\ obuf'["child"] = <<>>
                /\ life'["parent"] = life["parent"] /\ fate'["parent"] = fate["parent"]
                /\ obuf'["parent"] = obuf["parent"] /\ fd'["parent"] = fd["parent"]
           /\ p = "parent" =>
                /\ life'["parent"] = "gone" /\ fate'["parent"] = how /\ obuf'["parent"] = <<>>
                /\ life'["child"] = (IF life["child"] = "zombie" THEN "gone" ELSE life["child"])
                /\ fate'["child"] = fate["child"]
                /\ obuf'["child"] = obuf["child"] /\ fd'["child"] = fd["child"]
BY DEF End, ProcTypes, ProcTypeOK, Procs, signals

\* The end of a process keeps all but what is about texts and the pipe, however
\* it comes.
LEMMA EndKeeps ==
    ASSUME ProcIInv, NEW p \in Procs, life[p] = "alive", NEW how \in {"exit", "killed"},
           End(p, how),
           how = "exit" => Call(p)[1] = "exit",
           how = "killed" => p = "child" \/ (demo = "signal" /\ handled # {"ALRM", "TERM", "INT"}),
           Piped \/ pipe' = pipe
    PROVE  Lives' /\ Files' /\ PageInv' /\ WaitInv' /\ AlarmInv'
<1> USE EndChanges
<1>1. ProcTypes /\ (p = "parent" \/ p = "child") /\ Program' = Program
  BY SameProgram DEF ProcIInv, Procs
<1>2. Lives'
  <2>1. Forked' <=> Forked
    BY <1>1 DEF Forked, Piped
  <2>2. \A q \in Procs : fate'[q] = "exit" => Program'[q][pc'[q]][1] = "exit"
    BY <1>1 DEF ProcIInv, Parts, Lives, Call, Procs
  <2>3. CASE p = "parent"
    BY <1>1, <2>1, <2>2, <2>3 DEF ProcIInv, Parts, Lives, Call
  <2>4. CASE p = "child"
    BY <1>1, <2>1, <2>2, <2>4 DEF ProcIInv, Parts, Lives, Call
  <2> QED BY <1>1, <2>3, <2>4
<1>3. Files'
  <2>3. CASE p = "parent"
    BY <1>1, <2>3 DEF ProcIInv, Parts, Files, Piped
  <2>4. CASE p = "child"
    BY <1>1, <2>4 DEF ProcIInv, Parts, Files, Piped
  <2> QED BY <1>1, <2>3, <2>4
<1>4. PageInv'
  BY <1>1 DEF ProcIInv, Parts, PageInv
<1>5. WaitInv'
  <2>3. CASE p = "parent"
    BY <1>1, <2>3 DEF ProcIInv, Parts, WaitInv, Waited
  <2>4. CASE p = "child"
    BY <1>1, <2>4 DEF ProcIInv, Parts, WaitInv, Waited
  <2> QED BY <1>1, <2>3, <2>4
<1>6. AlarmInv'
  <2>3. CASE p = "parent"
    BY <1>1, <2>3 DEF ProcIInv, Parts, AlarmInv
  <2>4. CASE p = "child"
    BY <1>1, <2>4 DEF ProcIInv, Parts, AlarmInv
  <2> QED BY <1>1, <2>3, <2>4
<1> QED BY <1>2, <1>3, <1>4, <1>5, <1>6

\* exit, which writes the buffer first, keeps the invariant ...
LEMMA ExitKeeps ==
    ASSUME ProcIInv, NEW p \in Procs, exit(p)
    PROVE  Parts'
<1>1. /\ life[p] = "alive" /\ Call(p)[1] = "exit" /\ End(p, "exit")
      /\ Put(p, "out", obuf[p])
  BY DEF exit, Calls
<1>2. ProcTypes /\ TextPlaces(p) /\ (p = "parent" \/ p = "child") /\ obuf[p] \in Seq(Texts)
  BY Places DEF ProcIInv, ProcTypes, Procs
<1>3. \/ demo = "prog5" /\ ((p = "parent" /\ pc[p] = 4) \/ (p = "child" /\ pc[p] \in {4, 10}))
      \/ demo = "pipe1" /\ pc[p] = (IF p = "parent" THEN 7 ELSE 4)
      \/ demo = "pipe2" /\ pc[p] = (IF p = "parent" THEN 10 ELSE 6)
      \/ demo = "shared_mem" /\ pc[p] = (IF p = "parent" THEN 5 ELSE 3)
      \/ demo = "signal"
  BY <1>1, <1>2 DEF TextPlaces
<1>4. /\ UNCHANGED <<demo, full, pc, heard>>
      /\ p = "child" => /\ life'["parent"] = life["parent"] /\ fate'["child"] = "exit"
                        /\ life'["child"] \in {"zombie", "gone"}
                        /\ obuf'["child"] = <<>> /\ obuf'["parent"] = obuf["parent"]
      /\ p = "parent" => /\ life'["parent"] = "gone" /\ fate'["child"] = fate["child"]
                         /\ life'["child"] = "alive" <=> life["child"] = "alive"
                         /\ obuf'["parent"] = <<>> /\ obuf'["child"] = obuf["child"]
  BY <1>1, <1>2, EndChanges
<1>5. demo # "pipe2" \/ p = "parent" => pipe' = pipe
  BY <1>1, <1>2 DEF Put, Files, ProcIInv, Parts
<1>6. Lives' /\ Files' /\ PageInv' /\ WaitInv' /\ AlarmInv'
  BY <1>1, <1>5, EndKeeps DEF Piped
<1>7. Printed'
  <2>1. Outside' = Outside + PreCount(obuf[p]) /\ Outside \in Nat
    BY <1>1, <1>2, <1>4, PutCounts, CountsNat DEF Outside
  <2>2. Replaced' = Replaced
    BY <1>4 DEF Replaced
  <2>3. CASE full /\ demo # "signal"
    <3>1. CASE p = "parent"
      <4>1. PreCount(obuf["parent"]) = 1 /\ PreCount(obuf'["parent"]) = 0
        BY <2>3, <3>1, <1>1, <1>3, <1>4, CountNone DEF ProcIInv, Parts, Printed
      <4>2. PreCount(obuf'["child"]) = PreCount(obuf["child"])
        BY <3>1, <1>4
      <4> QED BY <4>1, <4>2, <2>1, <2>2, <2>3, <3>1, <1>1, <1>4 DEF ProcIInv, Parts, Printed
    <3>2. CASE p = "child"
      <4>1. /\ PreCount(obuf["child"]) = (IF Replaced THEN 0 ELSE 1)
            /\ PreCount(obuf'["child"]) = 0
        BY <2>3, <3>2, <1>1, <1>4, CountNone DEF ProcIInv, Parts, Printed
      <4>2. PreCount(obuf'["parent"]) = PreCount(obuf["parent"])
        BY <3>2, <1>4
      <4>3. fate["child"] = "none"
        BY <3>2, <1>1 DEF ProcIInv, Parts, Lives
      <4> QED BY <4>1, <4>2, <4>3, <2>1, <2>2, <2>3, <3>2, <1>1, <1>4
              DEF ProcIInv, Parts, Printed
    <3> QED BY <1>2, <3>1, <3>2
  <2>4. CASE ~full /\ demo # "signal"
    <3>1. obuf[p] = <<>> /\ PreCount(obuf[p]) = 0
      BY <2>4, CountNone DEF ProcIInv, Parts, Printed
    <3> QED BY <2>1, <2>4, <3>1, <1>2, <1>4 DEF ProcIInv, Parts, Printed, Procs
  <2>5. CASE demo = "signal"
    BY <2>5, <1>4 DEF Printed
  <2> QED BY <2>3, <2>4, <2>5, <1>2 DEF ProcTypes, ProcTypeOK
<1>8. Pipe1Inv'
  BY <1>1, <1>2, <1>4, <1>5 DEF ProcIInv, Parts, Pipe1Inv
<1>9. Pipe2Inv'
  <2>1. CASE demo # "pipe2"
    BY <2>1, <1>4 DEF Pipe2Inv
  <2>2. CASE demo = "pipe2" /\ p = "parent"
    BY <2>2, <1>3, <1>4, <1>5 DEF ProcIInv, Parts, Pipe2Inv, Sent, Message
  <2>3. CASE demo = "pipe2" /\ p = "child"
    <3>a. pc["child"] = 6 /\ life["child"] = "alive" /\ pc["parent"] \in Nat
      BY <2>3, <1>1, <1>2, <1>3 DEF ProcTypes, Procs
    <3>b. fate["child"] = "none"
      BY <3>a DEF ProcIInv, Parts, Lives
    <3>c. pc["parent"] <= 8
      BY <2>3, <3>a DEF ProcIInv, Parts, Pipe2Inv
    <3>d. fd["child"]["out"] = "w"
      BY <2>3, <3>a DEF ProcIInv, Parts, Files
    <3>e. pipe' = pipe \o obuf["child"]
      BY <2>3, <3>d, <1>1 DEF Put
    <3>1. /\ pc["child"] = 6 /\ life["child"] = "alive" /\ fate["child"] = "none"
          /\ pc["parent"] <= 8 /\ pipe' = pipe \o obuf["child"]
      BY <3>a, <3>b, <3>c, <3>e
    <3>2. heard' \o pipe' = Message
      <4>1. CASE full
        <5>1. heard = <<>> /\ pipe = <<>> /\ obuf["child"] = Message
          BY <2>3, <3>1, <4>1, <1>2, ConcatEmpty DEF ProcIInv, Parts, Pipe2Inv, Sent, ProcTypes
        <5> QED BY <5>1, <3>1, <1>2, <1>4, <2>3, ConcatEmpty
      <4>2. CASE ~full
        <5>1. obuf["child"] = <<>> /\ heard \o pipe = Message
          BY <2>3, <3>1, <4>2 DEF ProcIInv, Parts, Pipe2Inv, Sent, Printed, Procs
        <5>2. pipe \o <<>> = pipe
          BY <1>2 DEF ProcTypes
        <5> QED BY <5>1, <5>2, <3>1, <1>4
      <4> QED BY <4>1, <4>2
    <3> QED BY <2>3, <3>1, <3>2, <1>2, <1>4
            DEF ProcIInv, Parts, Pipe2Inv, Sent, Message, ProcTypes, Procs
  <2> QED BY <2>1, <2>2, <2>3, <1>2
<1> QED BY <1>6, <1>7, <1>8, <1>9 DEF Parts

\* ... and so does a signal that kills, which drops the buffer.
LEMMA KillKeeps ==
    ASSUME ProcIInv, NEW p \in Procs, life[p] = "alive", End(p, "killed"),
           p = "child" \/ (demo = "signal" /\ handled # {"ALRM", "TERM", "INT"}),
           pipe' = pipe, screen' = screen
    PROVE  Parts'
<1>1. /\ UNCHANGED <<demo, full, pc, heard>>
      /\ p = "child" => /\ life'["parent"] = life["parent"] /\ fate'["child"] = "killed"
                        /\ life'["child"] \in {"zombie", "gone"}
                        /\ obuf'["child"] = <<>> /\ obuf'["parent"] = obuf["parent"]
      /\ p = "parent" => demo = "signal"
      /\ p = "parent" \/ p = "child"
  BY EndChanges DEF ProcIInv, Procs
<1>2. Lives' /\ Files' /\ PageInv' /\ WaitInv' /\ AlarmInv'
  BY EndKeeps
<1>3. CASE demo = "signal"
  BY <1>1, <1>2, <1>3 DEF Parts, Printed, Pipe1Inv, Pipe2Inv
<1>4. CASE demo # "signal"
  <2>1. Outside' = Outside /\ Replaced' = Replaced
    BY <1>1 DEF Outside, Replaced
  <2>2. life["child"] = "alive" /\ fate["child"] = "none" /\ p = "child"
    BY <1>1, <1>4 DEF ProcIInv, Parts, Lives
  <2>3. Printed'
    <3>1. PreCount(obuf'["child"]) = 0 /\ PreCount(obuf'["parent"]) = PreCount(obuf["parent"])
      BY <1>1, <2>2, CountNone
    <3> QED BY <3>1, <2>1, <2>2, <1>1, <1>4 DEF ProcIInv, Parts, Printed, Procs
  <2>4. Pipe1Inv'
    BY <1>1, <2>2 DEF ProcIInv, Parts, Pipe1Inv
  <2>5. Pipe2Inv'
    BY <1>1, <2>2 DEF ProcIInv, Parts, Pipe2Inv, Sent, Message
  <2> QED BY <1>2, <2>3, <2>4, <2>5 DEF Parts
<1> QED BY <1>3, <1>4

\* A text that the parent reads is one that the pipe no longer has.
LEMMA HearCounts ==
    ASSUME ProcTypes, pipe # <<>>, pipe' = Tail(pipe), heard' = Append(heard, Head(pipe)),
           screen' = screen
    PROVE  Outside' = Outside
<1>1. pipe \in Seq(Texts) /\ heard \in Seq(Texts)
  BY DEF ProcTypes
<1>2. /\ Head(pipe) \in Texts /\ Tail(pipe) \in Seq(Texts)
      /\ PreCount(pipe) = PreCount(Tail(pipe)) + (IF Head(pipe) = "pre" THEN 1 ELSE 0)
  BY <1>1, CountTail
<1>3. PreCount(Append(heard, Head(pipe))) = PreCount(heard) + (IF Head(pipe) = "pre" THEN 1 ELSE 0)
  BY <1>1, <1>2, CountAppend
<1>4. PreCount(Tail(pipe)) \in Nat
  BY <1>2, MarksFinite
<1> QED BY <1>2, <1>3, <1>4, CountsNat DEF Outside

\* Without a writer of the pipe the child has ended.
LEMMA ChildWrites ==
    ASSUME ProcIInv, Piped, Writers = {}
    PROVE  life["child"] # "alive"
<1> SUFFICES ASSUME life["child"] = "alive" PROVE FALSE
  OBVIOUS
<1>1. /\ fd \in [Procs -> [{"in", "out", "rd", "wr", "nfd"} -> {"tty", "r", "w", "none"}]]
      /\ "child" \in Procs /\ pc["child"] \in Nat
  BY DEF ProcIInv, ProcTypes, ProcTypeOK, Procs
<1>2. fd["child"]["out"] = "w" \/ fd["child"]["wr"] = "w"
  BY <1>1 DEF ProcIInv, Parts, Files, Piped
<1>3. DOMAIN fd["child"] = {"in", "out", "rd", "wr", "nfd"}
  BY <1>1
<1> QED BY <1>1, <1>2, <1>3 DEF Writers

\* read of pipe1 keeps the invariant: the message, or garbage when the child is
\* gone ...
LEMMA ReadKeeps ==
    ASSUME ProcIInv, read
    PROVE  Parts'
<1>1. /\ life["parent"] = "alive" /\ Call("parent")[1] = "read" /\ Return("parent")
      /\ UNCHANGED <<demo, full, fd, obuf, screen, page, life, fate, report, handled, alarm, done>>
      /\ "parent" \in Procs
  BY DEF read, Hear, Calls, signals, Procs
<1>2. /\ ProcTypes /\ demo = "pipe1" /\ pc["parent"] = 5 /\ pc["child"] \in 1..4
      /\ pc'["parent"] = 6 /\ pc'["child"] = pc["child"]
  <2>1. ProcTypes /\ demo = "pipe1" /\ pc["parent"] = 5
    BY <1>1, Places DEF ProcIInv, OtherPlaces
  <2>2. pc["child"] \in 1..4
    BY <2>1, AtPipe1 DEF ProcTypes, ProcTypeOK, Procs
  <2>3. pc'["parent"] = pc["parent"] + 1 /\ pc'["child"] = pc["child"]
    BY <2>1, <1>1, ReturnStays DEF Procs
  <2> QED BY <2>1, <2>2, <2>3
<1>3. heard = <<>> /\ pipe = IF pc["child"] = 4 THEN <<"hello">> ELSE <<>>
  BY <1>2 DEF ProcIInv, Parts, Pipe1Inv
<1>4. /\ Outside' = Outside
      /\ \/ heard' = <<"hello">> /\ pipe' = <<>> /\ pc["child"] = 4
         \/ heard' = <<"garbage">> /\ pipe' = <<>> /\ pc["child"] < 4 /\ life["child"] # "alive"
  <2>1. CASE pipe # <<>> /\ pipe' = Tail(pipe) /\ Hear(Head(pipe))
    <3>1. pipe = <<"hello">> /\ pc["child"] = 4
      BY <2>1, <1>3
    <3>2. pipe' = <<>> /\ heard' = <<"hello">>
      BY <2>1, <3>1, <1>3 DEF Hear
    <3> QED BY <2>1, <3>1, <3>2, <1>2, HearCounts DEF Hear
  <2>2. CASE pipe = <<>> /\ Writers = {} /\ UNCHANGED pipe /\ Hear("garbage")
    <3>1. pc["child"] < 4 /\ heard' = <<"garbage">>
      <4>1. pc["child"] # 4
        BY <2>2, <1>3
      <4> QED BY <2>2, <1>2, <1>3, <4>1 DEF Hear
    <3>2. life["child"] # "alive"
      BY <2>2, <1>2, ChildWrites DEF Piped
    <3>3. PreCount(heard') = 0 /\ PreCount(heard) = 0
      BY <3>1, <1>3, CountNone, CountOne DEF Texts
    <3>4. Outside' = Outside
      BY <2>2, <3>3, <1>1 DEF Outside
    <3> QED BY <2>2, <3>1, <3>2, <3>4
  <2> QED BY <2>1, <2>2 DEF read
<1>5. Lives'
  <2>1. pc'["parent"] = pc["parent"] + 1 /\ \A q \in Procs \ {"parent"} : pc'[q] = pc[q]
    BY <1>2 DEF Procs
  <2> QED BY <2>1, <1>1, <1>2, LivesSame DEF ProcIInv, Parts
<1>6. Printed'
  BY <1>1, <1>2, <1>4 DEF ProcIInv, Parts, Printed, Replaced
<1>7. Files'
  BY <1>1, <1>2 DEF ProcIInv, Parts, Files, Piped
<1>8. Pipe1Inv'
  BY <1>1, <1>2, <1>4 DEF Pipe1Inv
<1>9. Pipe2Inv' /\ PageInv'
  BY <1>1, <1>2 DEF Pipe2Inv, PageInv
<1>10. WaitInv'
  BY <1>1, <1>2 DEF WaitInv, Waited
<1>11. AlarmInv'
  BY <1>1, <1>2 DEF ProcIInv, Parts, AlarmInv
<1> QED BY <1>5, <1>6, <1>7, <1>8, <1>9, <1>10, <1>11 DEF Parts

\* ... fgets of pipe2, with a line or at the end of the pipe ...
LEMMA FgetsKeeps ==
    ASSUME ProcIInv, fgets
    PROVE  Parts'
<1>1. /\ life["parent"] = "alive" /\ Call("parent")[1] = "fgets"
      /\ UNCHANGED <<demo, full, fd, obuf, screen, page, life, fate, report, handled, alarm, done>>
      /\ "parent" \in Procs
  BY DEF fgets, Hear, Calls, signals, Procs, files
<1>2. /\ ProcTypes /\ demo = "pipe2" /\ pc["parent"] = 8
      /\ pc["child"] \in Nat /\ heard \in Seq(Texts) /\ pipe \in Seq(Texts)
  BY <1>1, Places DEF ProcIInv, OtherPlaces, ProcTypes, Procs
<1>3. /\ Outside' = Outside /\ heard' \o pipe' = heard \o pipe
      /\ pc'["child"] = pc["child"]
      /\ \/ pc'["parent"] = 8 /\ pc' = pc
         \/ pc'["parent"] = 9 /\ pipe' = <<>> /\ life["child"] # "alive"
  <2>1. CASE pipe # <<>> /\ pipe' = Tail(pipe) /\ Hear(Head(pipe)) /\ UNCHANGED pc
    BY <2>1, <1>1, <1>2, HearCounts, ConcatEmpty DEF Hear
  <2>2. CASE /\ pipe = <<>> /\ Writers = {} /\ Return("parent")
             /\ UNCHANGED <<demo, full, files, heard, page, life, fate, report, signals>>
    <3>1. pc'["parent"] = 9 /\ pc'["child"] = pc["child"]
      BY <2>2, <1>1, <1>2, ReturnStays DEF Procs
    <3>2. life["child"] # "alive"
      BY <2>2, <1>2, ChildWrites DEF Piped
    <3>3. pipe' = <<>> /\ heard' = heard /\ pipe' = pipe /\ screen' = screen
      BY <2>2 DEF files
    <3> QED BY <3>1, <3>2, <3>3 DEF Outside
  <2> QED BY <2>1, <2>2 DEF fgets
<1>4. Lives'
  <2>1. CASE pc' = pc
    BY <2>1, <1>1, SameProgram DEF ProcIInv, Parts, Lives, Forked, Piped, Call
  <2>2. CASE pc'["parent"] = 9
    <3>1. pc'["parent"] = pc["parent"] + 1 /\ \A q \in Procs \ {"parent"} : pc'[q] = pc[q]
      BY <2>2, <1>2, <1>3 DEF Procs
    <3> QED BY <3>1, <1>1, <1>2, LivesSame DEF ProcIInv, Parts
  <2> QED BY <2>1, <2>2, <1>3
<1>5. Printed'
  BY <1>1, <1>2, <1>3 DEF ProcIInv, Parts, Printed, Replaced
<1>6. Files'
  BY <1>1, <1>2, <1>3 DEF ProcIInv, Parts, Files, Piped
<1>7. Pipe2Inv'
  <2>1. (Sent' <=> Sent) /\ Message' = Message
    BY <1>1, <1>3 DEF Sent, Message
  <2> QED BY <2>1, <1>1, <1>2, <1>3 DEF ProcIInv, Parts, Pipe2Inv
<1>8. Pipe1Inv' /\ PageInv'
  BY <1>1, <1>2 DEF Pipe1Inv, PageInv
<1>9. WaitInv'
  BY <1>1, <1>2, <1>3 DEF WaitInv, Waited
<1>10. AlarmInv'
  BY <1>1, <1>2 DEF ProcIInv, Parts, AlarmInv
<1> QED BY <1>4, <1>5, <1>6, <1>7, <1>8, <1>9, <1>10 DEF Parts

\* ... waitpid ...
LEMMA WaitKeeps ==
    ASSUME ProcIInv, waitpid
    PROVE  Parts'
<1>1. /\ life["parent"] = "alive" /\ Call("parent")[1] = "waitpid" /\ Return("parent")
      /\ UNCHANGED <<demo, full, fd, obuf, pipe, screen, heard, page, fate, handled, alarm, done>>
      /\ "parent" \in Procs
  BY DEF waitpid, Calls, signals, Procs, files
<1>2. /\ ProcTypes /\ pc["parent"] \in Nat
      /\ <<demo, pc["parent"]>> \in {<<"pipe1", 6>>, <<"pipe2", 9>>, <<"shared_mem", 3>>}
      /\ pc'["parent"] = pc["parent"] + 1 /\ pc'["child"] = pc["child"]
  BY <1>1, Places, ReturnStays DEF ProcIInv, OtherPlaces, ProcTypes, Procs
<1>3. \/ demo = "pipe1" /\ pc["parent"] = 6 /\ pc'["parent"] = 7
      \/ demo = "pipe2" /\ pc["parent"] = 9 /\ pc'["parent"] = 10
      \/ demo = "shared_mem" /\ pc["parent"] = 3 /\ pc'["parent"] = 4
  BY <1>2
<1>4. /\ life'["parent"] = "alive" /\ life["child"] # "alive" /\ life'["child"] # "alive"
      /\ \/ life["child"] = "zombie" /\ life'["child"] = "gone" /\ report' = fate["child"]
         \/ life["child"] = "none" /\ life'["child"] = "none" /\ report' = "unset"
  BY <1>1, <1>2 DEF waitpid, ProcTypes, ProcTypeOK, Procs
<1>5. Lives'
  <2>1. \A q \in Procs : fate'[q] = "exit" => Program'[q][pc'[q]][1] = "exit"
    <3>1. fate["parent"] = "none" /\ Program' = Program
      BY <1>1, SameProgram DEF ProcIInv, Parts, Lives
    <3> QED BY <3>1, <1>1, <1>2 DEF ProcIInv, Parts, Lives, Call, Procs
  <2>2. Forked'
    BY <1>1, <1>3 DEF Forked, Piped
  <2> QED BY <2>1, <2>2, <1>1, <1>2, <1>4 DEF ProcIInv, Parts, Lives, Call
<1>6. Printed'
  <2>1. Outside' = Outside
    BY <1>1 DEF Outside
  <2>2. pc["parent"] > 1 /\ pc'["parent"] > 1
    BY <1>3
  <2>3. Replaced' = Replaced
    BY <1>1, <1>2 DEF Replaced
  <2> QED BY <2>1, <2>2, <2>3, <1>1, <1>4 DEF ProcIInv, Parts, Printed
<1>7. Files'
  BY <1>1, <1>3, <1>4 DEF ProcIInv, Parts, Files, Piped
<1>8. Pipe1Inv'
  BY <1>1, <1>2, <1>3, <1>4 DEF ProcIInv, Parts, Pipe1Inv
<1>9. Pipe2Inv'
  BY <1>1, <1>2, <1>3, <1>4 DEF ProcIInv, Parts, Pipe2Inv, Sent, Message
<1>10. PageInv'
  BY <1>1, <1>2, <1>3 DEF ProcIInv, Parts, PageInv
<1>11. WaitInv'
  BY <1>1, <1>4 DEF WaitInv
<1>12. AlarmInv'
  BY <1>1, <1>3 DEF ProcIInv, Parts, AlarmInv
<1> QED BY <1>5, <1>6, <1>7, <1>8, <1>9, <1>10, <1>11, <1>12 DEF Parts

\* ... strcpy into the mapped page and puts from it ...
LEMMA PageKeeps ==
    ASSUME ProcIInv, NEW p \in Procs, SharedPage(p)
    PROVE  Parts'
<1>1. /\ life[p] = "alive" /\ Call(p)[1] \in {"copy", "look"} /\ Return(p)
      /\ UNCHANGED <<demo, full, fd, obuf, pipe, screen, life, fate, report, handled, alarm, done>>
  BY DEF SharedPage, Calls, signals, files
<1>2. /\ ProcTypes /\ OtherPlaces(p) /\ demo = "shared_mem"
      /\ pc["parent"] \in Nat /\ pc["child"] \in Nat
      /\ pc'[p] = pc[p] + 1 /\ \A q \in Procs \ {p} : pc'[q] = pc[q]
  BY <1>1, Places, ReturnStays DEF ProcIInv, OtherPlaces, ProcTypes, Procs
<1>3. \/ /\ p = "child" /\ pc["child"] = 1 /\ pc'["child"] = 2 /\ page' = "part"
         /\ pc'["parent"] = pc["parent"] /\ heard' = heard
      \/ /\ p = "child" /\ pc["child"] = 2 /\ pc'["child"] = 3 /\ page' = "all"
         /\ pc'["parent"] = pc["parent"] /\ heard' = heard
      \/ /\ p = "parent" /\ pc["parent"] = 4 /\ pc'["parent"] = 5
         /\ pc'["child"] = pc["child"] /\ heard' = Append(heard, page) /\ page' = page
  BY <1>1, <1>2 DEF SharedPage, Calls, OtherPlaces, Procs
<1>4. p = "parent" => heard = <<>> /\ heard' = <<page>>
  <2>1. p = "parent" => heard = <<>>
    BY <1>2, <1>3 DEF ProcIInv, Parts, PageInv
  <2> QED BY <2>1, <1>3
<1>5. p = "child" => pc["parent"] # 5
  BY <1>1, <1>2 DEF ProcIInv, Parts, WaitInv, Waited
<1>6. Lives'
  BY <1>1, <1>2, LivesSame DEF ProcIInv, Parts
<1>7. Printed'
  <2>1. PreCount(heard') = PreCount(heard)
    <3>1. CASE p = "parent"
      <4>1. page \in Texts /\ page # "pre"
        BY <1>2 DEF ProcTypes, Texts
      <4> QED BY <3>1, <4>1, <1>4, CountNone, CountOne
    <3>2. CASE p = "child"
      BY <3>2, <1>3
    <3> QED BY <3>1, <3>2, <1>3
  <2>2. Outside' = Outside
    BY <2>1, <1>1 DEF Outside
  <2>3. Replaced' = Replaced
    BY <1>1, <1>2 DEF Replaced
  <2>4. (pc'["parent"] > 1) <=> (pc["parent"] > 1)
    BY <1>3
  <2> QED BY <2>2, <2>3, <2>4, <1>1 DEF ProcIInv, Parts, Printed
<1>8. Files'
  BY <1>1, <1>2 DEF ProcIInv, Parts, Files, Piped
<1>9. Pipe1Inv' /\ Pipe2Inv'
  BY <1>1, <1>2 DEF Pipe1Inv, Pipe2Inv
<1>10. PageInv'
  BY <1>1, <1>2, <1>3, <1>4, <1>5 DEF ProcIInv, Parts, PageInv
<1>11. WaitInv'
  BY <1>1, <1>2, <1>3 DEF ProcIInv, Parts, WaitInv, Waited
<1>12. AlarmInv'
  BY <1>1, <1>2 DEF ProcIInv, Parts, AlarmInv
<1> QED BY <1>6, <1>7, <1>8, <1>9, <1>10, <1>11, <1>12 DEF Parts

\* ... sigaction, alarm and the loop over sleep ...
LEMMA SignalKeeps ==
    ASSUME ProcIInv, SignalCall
    PROVE  Parts'
<1>1. /\ life["parent"] = "alive" /\ Call("parent")[1] \in {"sigaction", "alarm", "while", "sleep"}
      /\ UNCHANGED <<demo, full, fd, obuf, pipe, screen, heard, page, life, fate, report, done>>
      /\ "parent" \in Procs
  BY DEF SignalCall, Calls, Procs, files
<1>2. ProcTypes /\ OtherPlaces("parent") /\ demo = "signal"
  BY <1>1, Places DEF ProcIInv, OtherPlaces
<1>3. pc \in [Procs -> Nat] /\ pc["parent"] \in Nat
  BY <1>2 DEF ProcTypes, Procs
<1>4. /\ pc'["child"] = pc["child"]
      /\ \/ /\ pc["parent"] \in 1..3 /\ pc'["parent"] = pc["parent"] + 1 /\ alarm' = alarm
            /\ handled' = handled \cup
                 {IF pc["parent"] = 1 THEN "ALRM" ELSE IF pc["parent"] = 2 THEN "TERM" ELSE "INT"}
         \/ /\ pc["parent"] = 4 /\ pc'["parent"] = 5 /\ alarm' = "set" /\ handled' = handled
         \/ /\ pc["parent"] = 6 /\ pc'["parent"] = (IF done THEN 8 ELSE 7)
            /\ alarm' = alarm /\ handled' = handled
         \/ /\ pc["parent"] = 7 /\ pc'["parent"] = 6 /\ alarm' = alarm /\ handled' = handled
  <2>1. CASE Call("parent")[1] = "sigaction"
    BY <2>1, <1>2, <1>3 DEF SignalCall, Calls, OtherPlaces, Return, Goto, Procs
  <2>2. CASE Call("parent")[1] = "alarm"
    BY <2>2, <1>2, <1>3 DEF SignalCall, Calls, OtherPlaces, Return, Goto, Procs
  <2>3. CASE Call("parent")[1] = "while"
    BY <2>3, <1>2, <1>3 DEF SignalCall, Calls, OtherPlaces, Return, Goto, Procs
  <2>4. CASE Call("parent")[1] = "sleep"
    BY <2>4, <1>2, <1>3 DEF SignalCall, Calls, OtherPlaces, Return, Goto, Procs
  <2> QED BY <1>1, <2>1, <2>2, <2>3, <2>4
<1>5. Lives'
  <2>1. \A q \in Procs \ {"parent"} : pc'[q] = pc[q]
    BY <1>4 DEF Procs
  <2> QED BY <2>1, <1>1, <1>2, LivesSame DEF ProcIInv, Parts
<1>6. Printed' /\ Pipe1Inv' /\ Pipe2Inv' /\ PageInv' /\ WaitInv'
  BY <1>1, <1>2 DEF Printed, Pipe1Inv, Pipe2Inv, PageInv, WaitInv, Waited
<1>7. Files'
  BY <1>1, <1>2, <1>4 DEF ProcIInv, Parts, Files, Piped
<1>8. AlarmInv'
  <2>1. fate["parent"] = "none" /\ done \in BOOLEAN
    BY <1>1, <1>2 DEF ProcIInv, Parts, Lives, ProcTypes
  <2> QED BY <2>1, <1>1, <1>2, <1>4 DEF ProcIInv, Parts, AlarmInv
<1> QED BY <1>5, <1>6, <1>7, <1>8 DEF Parts

\* ... and a handler that returns.
LEMMA WakeKeeps ==
    ASSUME ProcIInv, Wake, demo = "signal", life["parent"] = "alive",
           \/ alarm' = alarm /\ done' = done
           \/ alarm = "set" /\ alarm' = "rung" /\ done' = TRUE
    PROVE  Parts'
<1>1. /\ UNCHANGED <<demo, full, fd, obuf, pipe, screen, heard, page, life, fate, report, handled>>
      /\ "parent" \in Procs /\ ProcTypes /\ OtherPlaces("parent")
  BY Places DEF Wake, Procs, files, ProcIInv
<1>2. pc \in [Procs -> Nat] /\ pc["parent"] \in Nat
  BY <1>1 DEF ProcTypes, Procs
<1>3. /\ pc'["child"] = pc["child"]
      /\ \/ pc'["parent"] = pc["parent"]
         \/ pc["parent"] = 7 /\ pc'["parent"] = 6
  BY <1>1, <1>2 DEF Wake, Calls, OtherPlaces, Goto, Procs
<1>4. Lives'
  <2>1. \A q \in Procs \ {"parent"} : pc'[q] = pc[q]
    BY <1>3 DEF Procs
  <2> QED BY <2>1, <1>1, LivesSame DEF ProcIInv, Parts
<1>5. Printed' /\ Pipe1Inv' /\ Pipe2Inv' /\ PageInv' /\ WaitInv'
  BY <1>1 DEF Printed, Pipe1Inv, Pipe2Inv, PageInv, WaitInv, Waited
<1>6. Files'
  BY <1>1, <1>3 DEF ProcIInv, Parts, Files, Piped
<1>7. AlarmInv'
  <2>1. fate["parent"] = "none" /\ done \in BOOLEAN
    BY <1>1 DEF ProcIInv, Parts, Lives, ProcTypes
  <2>2. alarm' # "off" => pc["parent"] > 4
    BY DEF ProcIInv, Parts, AlarmInv
  <2> QED BY <2>1, <2>2, <1>1, <1>2, <1>3 DEF ProcIInv, Parts, AlarmInv
<1> QED BY <1>4, <1>5, <1>6, <1>7 DEF Parts

-----------------------------------------------------------------------------
(***************************************************************************)
(* The invariant                                                           *)
(***************************************************************************)

\* The inductive invariant holds at the start ...
LEMMA ProcInitInv == ProcInit => ProcIInv
<1> SUFFICES ASSUME ProcInit PROVE ProcIInv
  OBVIOUS
<1>1. /\ demo \in {"prog5", "pipe1", "pipe2", "shared_mem", "signal"} /\ demo \in Demos
      /\ full \in BOOLEAN /\ pc = [p \in Procs |-> 1] /\ "parent" \in Procs /\ "child" \in Procs
  BY DemosAssumption DEF ProcInit, Procs
<1>2. \A p \in Procs : 1 \in 1..Len(Program[p])
  <2>1. Len(Program["parent"]) \in Nat \ {0} /\ Len(Program["child"]) \in Nat \ {0}
    BY <1>1, AtProg5, AtPipe1, AtPipe2, AtSharedMem, AtSignal
  <2> QED BY <2>1 DEF Procs
<1>3. /\ <<>> \in Seq(Texts) /\ PreCount(<<>>) = 0 /\ <<>> \o <<>> = <<>>
  BY EmptyQueue, CountNone, ConcatEmpty
<1>4. ProcTypes
  <2>1. pc \in [Procs -> Nat] /\ \A p \in Procs : pc[p] \in 1..Len(Program[p])
    BY <1>1, <1>2
  <2>2. fd \in [Procs -> [{"in", "out", "rd", "wr", "nfd"} -> {"tty", "r", "w", "none"}]]
    BY DEF ProcInit
  <2>3. /\ obuf \in [Procs -> Seq(Texts)]
        /\ pipe \in Seq(Texts) /\ screen \in Seq(Texts) /\ heard \in Seq(Texts)
    BY <1>3 DEF ProcInit
  <2>4. /\ life \in [Procs -> {"none", "alive", "zombie", "gone"}]
        /\ fate \in [Procs -> {"none", "exit", "killed"}]
    BY DEF ProcInit, Procs
  <2> QED BY <1>1, <2>1, <2>2, <2>3, <2>4 DEF ProcInit, ProcTypes, ProcTypeOK
<1>5. /\ life["parent"] = "alive" /\ life["child"] = "none" /\ pc["parent"] = 1 /\ pc["child"] = 1
      /\ fate["parent"] = "none" /\ fate["child"] = "none"
      /\ obuf["parent"] = <<>> /\ obuf["child"] = <<>>
      /\ pipe = <<>> /\ screen = <<>> /\ heard = <<>> /\ page = "empty"
      /\ fd["parent"]["out"] = "tty" /\ fd["parent"]["nfd"] = "none" /\ alarm = "off" /\ done = FALSE
  BY <1>1 DEF ProcInit
<1>6. Lives
  BY <1>5 DEF Lives, Procs
<1>7. Printed
  BY <1>3, <1>5 DEF Printed, Outside, Procs
<1>8. Files /\ Pipe1Inv /\ Pipe2Inv
  BY <1>3, <1>5 DEF Files, Pipe1Inv, Pipe2Inv, Sent
<1>9. PageInv /\ WaitInv /\ AlarmInv
  BY <1>5 DEF PageInv, WaitInv, Waited, AlarmInv
<1> QED BY <1>4, <1>6, <1>7, <1>8, <1>9 DEF ProcIInv, Parts

\* ... and every step keeps it.
LEMMA ProcStepInv == ProcIInv /\ [ProcNext]_procvars => ProcIInv'
<1>1. ASSUME ProcIInv, ProcNext PROVE ProcIInv'
  <2>1. ProcTypes'
    BY <1>1, TypesKept DEF ProcIInv
  <2>2. "parent" \in Procs /\ "child" \in Procs
    BY DEF Procs
  <2>3. ASSUME NEW p \in Procs, ProcStep(p) PROVE Parts'
    BY <1>1, <2>3, PrintKeeps, WriteKeeps, RedirectKeeps, ExecKeeps, ExitKeeps, PageKeeps,
       ForkKeeps, ReadKeeps, FgetsKeeps, WaitKeeps, SignalKeeps DEF ProcStep
  <2>4. ASSUME kill_child PROVE Parts'
    BY <1>1, <2>2, <2>4, KillKeeps DEF kill_child
  <2>5. ASSUME onSigAlarm PROVE Parts'
    <3>1. demo = "signal"
      BY <1>1, <2>5 DEF onSigAlarm, ProcIInv, Parts, AlarmInv
    <3> QED BY <1>1, <2>5, <3>1, WakeKeeps DEF onSigAlarm
  <2>6. ASSUME NEW s \in {"TERM", "INT"}, Interrupt(s) PROVE Parts'
    <3>1. CASE s \in handled
      BY <1>1, <2>6, <3>1, WakeKeeps DEF Interrupt
    <3>2. CASE s \notin handled
      <4>1. handled # {"ALRM", "TERM", "INT"}
        BY <3>2
      <4> QED BY <1>1, <2>2, <2>6, <3>2, <4>1, KillKeeps DEF Interrupt
    <3> QED BY <3>1, <3>2
  <2>7. Parts'
    BY <1>1, <2>3, <2>4, <2>5, <2>6 DEF ProcNext
  <2> QED BY <2>1, <2>7 DEF ProcIInv
<1>2. ASSUME ProcIInv, UNCHANGED procvars PROVE ProcIInv'
  <2>1. /\ UNCHANGED <<demo, full, pc, fd, obuf, pipe, screen, heard, page, life, fate, report>>
        /\ UNCHANGED <<handled, alarm, done>>
    BY <1>2 DEF procvars, files, signals
  <2>2. Program' = Program
    BY <2>1, SameProgram
  <2>3. ProcTypes'
    BY <1>2, <2>1, <2>2 DEF ProcIInv, ProcTypes, ProcTypeOK
  <2>4. Lives'
    BY <1>2, <2>1, <2>2 DEF ProcIInv, Parts, Lives, Forked, Piped, Call
  <2>5. Printed'
    BY <1>2, <2>1 DEF ProcIInv, Parts, Printed, Outside, Replaced
  <2>6. Files'
    BY <1>2, <2>1 DEF ProcIInv, Parts, Files, Piped
  <2>7. Pipe1Inv' /\ Pipe2Inv'
    BY <1>2, <2>1 DEF ProcIInv, Parts, Pipe1Inv, Pipe2Inv, Sent, Message
  <2>8. PageInv' /\ WaitInv' /\ AlarmInv'
    BY <1>2, <2>1 DEF ProcIInv, Parts, PageInv, WaitInv, Waited, AlarmInv
  <2> QED BY <2>3, <2>4, <2>5, <2>6, <2>7, <2>8 DEF ProcIInv, Parts
<1> QED BY <1>1, <1>2

\* Where a process that exited stands.
LEMMA EndPlaces ==
    ASSUME ProcIInv, NEW p \in Procs, fate[p] = "exit"
    PROVE  \/ demo = "prog5" /\ pc[p] > 1
           \/ demo = "pipe1" /\ pc[p] = (IF p = "parent" THEN 7 ELSE 4)
           \/ demo = "pipe2" /\ pc[p] = (IF p = "parent" THEN 10 ELSE 6)
           \/ demo = "shared_mem" /\ pc[p] = (IF p = "parent" THEN 5 ELSE 3)
           \/ demo = "signal" /\ pc[p] = (IF p = "parent" THEN 9 ELSE 1)
<1>1. Call(p)[1] = "exit"
  BY DEF ProcIInv, Parts, Lives
<1> QED BY <1>1, Places DEF ProcIInv, TextPlaces

\* A sequence and the empty one are prefixes of it.
LEMMA WholeOrNothing ==
    ASSUME NEW s \in Seq(Texts)
    PROVE  /\ \E n \in 0..Len(s) : s = SubSeq(s, 1, n)
           /\ \E n \in 0..Len(s) : <<>> = SubSeq(s, 1, n)
<1>1. Len(s) \in 0..Len(s) /\ s = SubSeq(s, 1, Len(s))
  OBVIOUS
<1>2. 0 \in 0..Len(s) /\ <<>> = SubSeq(s, 1, 0)
  OBVIOUS
<1> QED BY <1>1, <1>2

\* What the inductive invariant says of parents that have ended is ProcInv.
LEMMA ProcIInvImplies == ProcIInv => ProcInv
<1> SUFFICES ASSUME ProcIInv PROVE ProcInv
  OBVIOUS
<1>1. /\ ProcTypes /\ "parent" \in Procs /\ "child" \in Procs
      /\ demo \in {"prog5", "pipe1", "pipe2", "shared_mem", "signal"} /\ full \in BOOLEAN
      /\ heard \in Seq(Texts) /\ pipe \in Seq(Texts) /\ screen \in Seq(Texts)
      /\ fate["parent"] \in {"none", "exit", "killed"}
      /\ fate["child"] \in {"none", "exit", "killed"}
  BY DemosAssumption DEF ProcIInv, ProcTypes, ProcTypeOK, Procs
<1>2. /\ life["parent"] = "gone" =>
           \/ fate["parent"] = "exit"
           \/ fate["parent"] = "killed" /\ demo = "signal" /\ handled # {"ALRM", "TERM", "INT"}
      /\ fate["child"] = "exit" => demo # "signal"
  BY <1>1 DEF ProcIInv, Parts, Lives, Forked, AlarmInv
<1>3. life["parent"] = "gone" /\ demo # "signal" =>
        \/ demo = "prog5" /\ pc["parent"] > 1
        \/ demo = "pipe1" /\ pc["parent"] = 7
        \/ demo = "pipe2" /\ pc["parent"] = 10
        \/ demo = "shared_mem" /\ pc["parent"] = 5
  BY <1>1, <1>2, EndPlaces
<1>4. MessageComplete
  <2>1. Message \in Seq(Texts)
    <3>1. <<"all">> \in Seq(Texts) /\ <<>> \in Seq(Texts)
      BY CountOne, EmptyQueue DEF Texts
    <3>2. CASE demo = "pipe2"
      BY <3>2, <1>1, MessageText
    <3>3. CASE demo # "pipe2"
      BY <3>1, <3>3, <1>1, MessageText DEF Message
    <3> QED BY <3>2, <3>3
  <2> SUFFICES ASSUME life["parent"] = "gone"
               PROVE  /\ fate["child"] = "exit" => heard = Message
                      /\ \/ heard = Message
                         \/ heard = <<>>
                         \/ demo = "pipe1" /\ heard = <<"garbage">>
                         \/ demo = "shared_mem" /\ heard \in {<<"empty">>, <<"part">>}
    BY <2>1, WholeOrNothing DEF MessageComplete
  <2>2. CASE demo \in {"prog5", "signal"}
    <3>1. heard = <<>> /\ Message = <<>>
      BY <2>2 DEF ProcIInv, Parts, Files, Message
    <3> QED BY <3>1
  <2>3. CASE demo = "pipe1"
    <3>1. Message = <<"hello">> /\ pc["parent"] = 7
      BY <2>3, <1>3 DEF Message
    <3>2. \/ heard = <<"hello">>
          \/ heard = <<"garbage">> /\ pc["child"] < 4
      BY <2>3, <3>1 DEF ProcIInv, Parts, Pipe1Inv
    <3>3. fate["child"] = "exit" => pc["child"] = 4
      BY <2>3, <1>1, EndPlaces
    <3> QED BY <2>3, <3>1, <3>2, <3>3
  <2>4. CASE demo = "pipe2"
    <3>1. pc["parent"] = 10
      BY <2>4, <1>3
    <3>2. heard = IF Sent THEN Message ELSE <<>>
      <4>1. pipe = <<>> /\ heard \o pipe = IF Sent THEN Message ELSE <<>>
        BY <2>4, <3>1 DEF ProcIInv, Parts, Pipe2Inv
      <4> QED BY <4>1, <1>1, ConcatEmpty
    <3>3. fate["child"] = "exit" => Sent
      BY <2>4, <1>1, EndPlaces DEF Sent
    <3> QED BY <3>2, <3>3
  <2>5. CASE demo = "shared_mem"
    <3>1. Message = <<"all">> /\ pc["parent"] = 5
      BY <2>5, <1>3 DEF Message
    <3>2. heard = <<page>> /\ page \in {"empty", "part", "all"}
      BY <2>5, <3>1, <1>1 DEF ProcIInv, Parts, PageInv, ProcTypes
    <3>3. fate["child"] = "exit" => page = "all"
      BY <2>5, <1>1, EndPlaces DEF ProcIInv, Parts, PageInv
    <3> QED BY <2>5, <3>1, <3>2, <3>3
  <2> QED BY <1>1, <2>2, <2>3, <2>4, <2>5
<1>5. ChildReaped
  <2> SUFFICES ASSUME life["parent"] = "gone", demo \notin {"prog5", "signal"}
               PROVE  /\ life["child"] \in {"none", "gone"}
                      /\ report = IF ForkFailed THEN "unset" ELSE fate["child"]
    BY DEF ChildReaped
  <2>1. Waited
    BY <1>1, <1>3 DEF Waited
  <2> QED BY <2>1 DEF ProcIInv, Parts, WaitInv, ForkFailed
<1>6. PreForkText
  <2> SUFFICES ASSUME life["parent"] = "gone", life["child"] \in {"none", "gone"}, demo # "signal"
               PROVE  PreCount(screen \o heard)
                        = IF full /\ fate["child"] = "exit" /\ ~Replaced THEN 2 ELSE 1
    BY DEF PreForkText, Replaced
  <2>1. pipe = <<>>
    BY <1>1, <1>3 DEF ProcIInv, Parts, Files, Pipe1Inv, Pipe2Inv, Piped
  <2>2. PreCount(pipe) = 0
    BY <2>1, CountNone
  <2>3. PreCount(screen \o heard) = PreCount(screen) + PreCount(heard)
    BY <1>1, CountConcat
  <2>4. PreCount(screen) \in Nat /\ PreCount(heard) \in Nat
    BY <1>1, CountsNat
  <2>5. Outside = PreCount(screen \o heard)
    BY <2>2, <2>3, <2>4 DEF Outside
  <2>6. pc["parent"] > 1
    BY <1>3
  <2> QED BY <2>5, <2>6, <1>1 DEF ProcIInv, Parts, Printed
<1>7. OnlyAlarmEnds
  <2> SUFFICES ASSUME demo = "signal", life["parent"] = "gone", fate["parent"] = "exit"
               PROVE  alarm = "rung"
    BY <1>2 DEF OnlyAlarmEnds
  <2>1. pc["parent"] = 9
    BY <1>1, EndPlaces
  <2> QED BY <2>1 DEF ProcIInv, Parts, AlarmInv
<1> QED BY <1>1, <1>4, <1>5, <1>6, <1>7 DEF ProcInv, ProcTypes

\* Whether fork and exec succeed or not, and whenever the child is killed, the
\* programs of 04-pipe-signal and ex03 of 10-mmap end with the whole message or with
\* a part of it, with the child reaped and its status reported, with the text printed
\* before fork on stdout once, or twice when it was still in the buffer, and signal.c
\* ends by its alarm.
THEOREM ProcessesAreRight == LessonSpec => []ProcInv
<1>1. LessonInit => ProcIInv
  BY ProcInitInv DEF LessonInit
<1>2. ProcIInv /\ [Threads1 \/ Processes1]_lessonvars => ProcIInv'
  BY ProcStepInv DEF Threads1, Processes1, lessonvars
<1> QED BY <1>1, <1>2, ProcIInvImplies, PTL DEF LessonSpec

-----------------------------------------------------------------------------
(***************************************************************************)
(* Who blocks whom                                                         *)
(***************************************************************************)

\* A child is reaped by waitpid alone, who does not live has no write end of the
\* pipe, and the parent has one only between pipe and close.
Ends ==
    /\ life.child = "gone" /\ life.parent = "alive" => Waited
    /\ \A p \in Procs : life[p] # "alive" => \A d \in {"in", "out", "rd", "wr", "nfd"} : fd[p][d] # "w"
    /\ fd.parent.in # "w" /\ fd.parent.rd # "w" /\ fd.parent.nfd # "w"
    /\ fd.parent.wr = "w" => Piped /\ pc.parent \in {3, 4}

\* A parent whose child does not live is not blocked: read and fgets find text or
\* no writer left, and waitpid finds a zombie or no child at all.
OnlyChildBlocks ==
    life.parent = "alive" /\ life.child # "alive" =>
      /\ Call("parent")[1] \in {"read", "fgets"} => pipe # <<>> \/ Writers = {}
      /\ Call("parent")[1] = "waitpid" => life.child \in {"zombie", "none"}

\* A call that changes no descriptor and no life keeps Ends.
LEMMA EndsSame ==
    ASSUME ProcTypes, Ends, demo' = demo, fd' = fd, life' = life,
           \/ pc'["parent"] = pc["parent"]
           \/ pc'["parent"] = pc["parent"] + 1 /\ ~(Piped /\ pc["parent"] \in {3, 4})
           \/ demo = "signal"
    PROVE  Ends'
<1>1. pc["parent"] \in Nat
  BY DEF ProcTypes, Procs
<1>2. Waited => Waited'
  BY <1>1 DEF Waited, Piped
<1> QED BY <1>1, <1>2 DEF Ends, Piped

\* Every step keeps Ends.
LEMMA EndsStep ==
    ASSUME ProcIInv, ProcIInv', Ends, ProcNext
    PROVE  Ends'
<1>0. /\ ProcTypes /\ ProcTypes' /\ pc["parent"] \in Nat
      /\ fd \in [Procs -> [{"in", "out", "rd", "wr", "nfd"} -> {"tty", "r", "w", "none"}]]
      /\ "parent" \in Procs /\ "child" \in Procs
  BY DEF ProcIInv, ProcTypes, ProcTypeOK, Procs
<1>1. ASSUME NEW p \in Procs, Return(p), demo' = demo, fd' = fd, life' = life,
             Call(p)[1] \in {"print", "write", "exec", "copy", "look", "read", "fgets"}
      PROVE  Ends'
  <2>1. pc'[p] = pc[p] + 1 /\ \A q \in Procs \ {p} : pc'[q] = pc[q]
    BY <1>0, <1>1, ReturnStays
  <2>2. p = "parent" => ~(Piped /\ pc["parent"] \in {3, 4})
    BY <1>0, <1>1, Places DEF TextPlaces, OtherPlaces, Piped
  <2> QED BY <1>0, <1>1, <2>1, <2>2, EndsSame DEF Procs
<1>2. ASSUME NEW p \in Procs, print(p) \/ write(p) \/ SharedPage(p) PROVE Ends'
  BY <1>1, <1>2 DEF print, write, SharedPage, Calls, files
<1>3. ASSUME NEW p \in Procs, exec(p) PROVE Ends'
  <2>1. p = "child" /\ demo' = demo /\ fd' = fd /\ life' = life
    BY <1>0, <1>3, Places DEF exec, Calls, TextPlaces
  <2>2. pc'["parent"] = pc["parent"]
    BY <1>0, <1>3, <2>1 DEF exec, Goto, Return, ProcTypes, Procs
  <2> QED BY <1>0, <2>1, <2>2, EndsSame
<1>4. ASSUME NEW p \in Procs, Redirect(p) PROVE Ends'
  <2>1. /\ Call(p)[1] \in {"pipe", "close", "dup2"} /\ Return(p) /\ demo' = demo /\ life' = life
        /\ life[p] = "alive"
    BY <1>4 DEF Redirect, Calls
  <2>2. FilePlaces(p) /\ pc'[p] = pc[p] + 1 /\ \A q \in Procs \ {p} : pc'[q] = pc[q]
    BY <1>0, <2>1, Places, ReturnStays
  <2>3. Waited => Waited'
    BY <1>0, <2>1, <2>2 DEF Waited, Procs
  <2>4. \A q \in Procs \ {p} : fd'[q] = fd[q]
    BY <1>0, <1>4 DEF Redirect
  <2>5. CASE p = "child"
    <3>1. fd'["parent"] = fd["parent"] /\ pc'["parent"] = pc["parent"]
      BY <2>2, <2>4, <2>5 DEF Procs
    <3> QED BY <2>1, <2>3, <2>5, <3>1 DEF Ends, Piped, Procs
  <2>6. CASE p = "parent"
    <3>1. fd'["child"] = fd["child"]
      BY <2>4, <2>6 DEF Procs
    <3>2. /\ fd'["parent"]["in"] # "w" /\ fd'["parent"]["rd"] # "w" /\ fd'["parent"]["nfd"] # "w"
          /\ fd'["parent"]["wr"] = "w" => Piped /\ pc'["parent"] \in {3, 4}
      <4>1. CASE Call(p)[1] = "pipe" /\ fd' = [fd EXCEPT ![p].rd = "r", ![p].wr = "w"]
        BY <4>1, <1>0, <2>2, <2>6 DEF FilePlaces, Ends
      <4>2. CASE Call(p)[1] = "close" /\ fd' = [fd EXCEPT ![p][Call(p)[2]] = "none"]
        <5>1. Call(p)[2] \in {"rd", "wr"} /\ pc["parent"] \in {4, 6} /\ (pc["parent"] = 4 => Call(p)[2] = "wr")
          BY <4>2, <2>2, <2>6 DEF FilePlaces
        <5>2. fd'["parent"] = [fd["parent"] EXCEPT ![Call(p)[2]] = "none"]
          BY <4>2, <1>0, <2>6
        <5> QED BY <5>1, <5>2, <1>0, <2>2, <2>6 DEF Ends
      <4>3. CASE Call(p)[1] = "dup2" /\ fd' = [fd EXCEPT ![p][Call(p)[3]] = fd[p][Call(p)[2]]]
        <5>1. pc["parent"] = 5 /\ Call(p)[2] = "rd" /\ Call(p)[3] = "in"
          BY <4>3, <2>2, <2>6 DEF FilePlaces
        <5>2. fd'["parent"] = [fd["parent"] EXCEPT !["in"] = fd["parent"]["rd"]]
          BY <4>3, <5>1, <1>0, <2>6
        <5> QED BY <5>1, <5>2, <1>0 DEF Ends
      <4> QED BY <1>4, <4>1, <4>2, <4>3 DEF Redirect, Calls
    <3> QED BY <2>1, <2>3, <2>6, <3>1, <3>2 DEF Ends, Piped, Procs
  <2> QED BY <2>5, <2>6 DEF Procs
<1>5. CASE fork
  <2>1. /\ Call("parent")[1] = "fork" /\ Return("parent") /\ demo' = demo /\ life["parent"] = "alive"
    BY <1>5 DEF fork, Calls
  <2>2. FilePlaces("parent") /\ pc'["parent"] = pc["parent"] + 1
    BY <1>0, <2>1, Places, ReturnStays
  <2>3. /\ fd'["parent"] = fd["parent"] /\ life'["parent"] = life["parent"]
        /\ \/ life'["child"] = "alive"
           \/ life'["child"] = life["child"] /\ fd'["child"] = fd["child"]
    BY <1>0, <1>5 DEF fork, ProcTypes, ProcTypeOK
  <2>4. Waited => Waited'
    BY <1>0, <2>1, <2>2 DEF Waited
  <2> QED BY <1>0, <2>1, <2>2, <2>3, <2>4 DEF Ends, Piped, Procs, FilePlaces
<1>6. ASSUME NEW p \in Procs, NEW how, End(p, how) PROVE Ends'
  <2>1. /\ \A d \in {"in", "out", "rd", "wr", "nfd"} : fd'[p][d] = "none"
        /\ \A q \in Procs \ {p} : fd'[q] = fd[q]
    BY <1>0, <1>6 DEF End
  <2>2. /\ UNCHANGED <<demo, pc>>
        /\ life'["child"] = "gone" /\ life'["parent"] = "alive" =>
             life["child"] = "gone" /\ life["parent"] = "alive"
        /\ \A q \in Procs \ {p} : life'[q] = "alive" <=> life[q] = "alive"
    BY <1>0, <1>6, EndChanges DEF Procs
  <2> QED BY <2>1, <2>2 DEF Ends, Waited, Piped, Procs
<1>7. CASE read
  BY <1>0, <1>1, <1>7 DEF read, Hear, Calls
<1>8. CASE fgets
  <2>1. CASE Return("parent")
    BY <1>0, <1>1, <1>8, <2>1 DEF fgets, Hear, Calls, files
  <2>2. CASE pc' = pc
    BY <1>0, <1>8, <2>2, EndsSame DEF fgets, Hear, files
  <2> QED BY <1>8, <2>1, <2>2 DEF fgets
<1>9. CASE waitpid
  <2>1. Call("parent")[1] = "waitpid" /\ Return("parent") /\ demo' = demo /\ fd' = fd
    BY <1>9 DEF waitpid, Calls, files
  <2>2. OtherPlaces("parent") /\ pc'["parent"] = pc["parent"] + 1
    BY <1>0, <2>1, Places, ReturnStays
  <2>3. /\ life'["parent"] = life["parent"]
        /\ life'["child"] = "alive" <=> life["child"] = "alive"
    BY <1>0, <1>9 DEF waitpid, ProcTypes, ProcTypeOK
  <2>4. Waited' /\ ~(Piped /\ pc["parent"] \in {3, 4})
    BY <1>0, <2>1, <2>2 DEF OtherPlaces, Waited, Piped
  <2> QED BY <2>1, <2>3, <2>4 DEF Ends, Procs
<1>10. CASE SignalCall
  BY <1>0, <1>10, Places, EndsSame DEF SignalCall, Calls, OtherPlaces, files
<1>11. ASSUME Wake PROVE Ends'
  <2>1. pc'["parent"] = pc["parent"] \/ demo = "signal"
    BY <1>0, <1>11, Places DEF Wake, Calls, OtherPlaces
  <2> QED BY <1>0, <1>11, <2>1, EndsSame DEF Wake, files
<1> QED BY <1>0, <1>2, <1>3, <1>4, <1>5, <1>6, <1>7, <1>8, <1>9, <1>10, <1>11
        DEF ProcNext, ProcStep, exit, kill_child, onSigAlarm, Interrupt

\* Whom the parent may wait for.
LEMMA EndsBlock == ProcIInv /\ Ends => OnlyChildBlocks
<1> SUFFICES ASSUME ProcIInv, Ends, life["parent"] = "alive", life["child"] # "alive"
             PROVE  /\ Call("parent")[1] \in {"read", "fgets"} => Writers = {}
                    /\ Call("parent")[1] = "waitpid" => life["child"] \in {"zombie", "none"}
  BY DEF OnlyChildBlocks
<1>0. /\ OtherPlaces("parent") /\ pc["parent"] \in Nat
      /\ fd \in [Procs -> [{"in", "out", "rd", "wr", "nfd"} -> {"tty", "r", "w", "none"}]]
      /\ life["child"] \in {"none", "alive", "zombie", "gone"}
      /\ "parent" \in Procs /\ "child" \in Procs
  BY Places DEF ProcIInv, ProcTypes, ProcTypeOK, Procs
<1>1. ASSUME Call("parent")[1] \in {"read", "fgets"} PROVE Writers = {}
  <2>1. ~(pc["parent"] \in {3, 4})
    BY <1>0, <1>1 DEF OtherPlaces
  <2>2. \A d \in {"in", "out", "rd", "wr", "nfd"} : fd["parent"][d] # "w"
    BY <2>1 DEF Ends, ProcIInv, Parts, Files
  <2>3. \A d \in {"in", "out", "rd", "wr", "nfd"} : fd["child"][d] # "w"
    BY <1>0 DEF Ends
  <2> QED BY <1>0, <2>2, <2>3 DEF Writers, Procs
<1>2. Call("parent")[1] = "waitpid" => ~Waited
  BY <1>0 DEF OtherPlaces, Waited
<1>3. life["child"] = "gone" => Waited
  BY DEF Ends
<1> QED BY <1>0, <1>1, <1>2, <1>3

\* No parent waits for a pipe that its own side keeps open, or for a child that it
\* has already reaped: only a child that lives can block it.
THEOREM OnlyTheChildBlocks == LessonSpec => []OnlyChildBlocks
<1>1. LessonInit => ProcIInv /\ Ends
  BY ProcInitInv DEF LessonInit, ProcInit, Ends, Procs
<1>2. ProcIInv /\ Ends /\ [Threads1 \/ Processes1]_lessonvars => (ProcIInv /\ Ends)'
  <2>1. ASSUME ProcIInv, Ends, UNCHANGED procvars PROVE Ends'
    BY <2>1 DEF procvars, files, Ends, Waited, Piped
  <2> QED BY <2>1, ProcStepInv, EndsStep DEF Threads1, Processes1, lessonvars
<1> QED BY <1>1, <1>2, EndsBlock, PTL DEF LessonSpec
=============================================================================
