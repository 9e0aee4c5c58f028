--------------------------- MODULE UserThreadProofs ---------------------------
(***************************************************************************)
(* Proofs about the user-thread library: the scheduler, for any finite set *)
(* of threads, and the event and the semaphore over it, for any initial    *)
(* units and limit and any sets of requests and posts.  The synchronizers  *)
(* obey the scheduler, so that what is proved of it holds with them in     *)
(* use, and they are safe.  Then about the list their queues are built on, *)
(* for any heads and entries.                                              *)
(***************************************************************************)
EXTENDS USynch, IntrusiveList, QueueLemmas

(***************************************************************************)
(* The scheduler                                                           *)
(***************************************************************************)


\* What the invariants of UThread.tla leave implicit: the running thread is
\* alive, and outside ut_run the live threads are exactly the ready ones,
\* each with a context to start from.
Alive ==
    /\ main_pc = "run" => running_thread \in alloc \cup {Main}
    /\ main_pc \in {"boot", "idle"} =>
          Range(ready_queue) = alloc /\ saved = alloc
    /\ main_pc = "boot" => alloc = {}

\* The inductive invariant.
SchedulerInv ==
    TypeOK /\ ReadyOnce /\ ContextsResumable /\ LiveCount /\ MainLast /\ Alive

-----------------------------------------------------------------------------

\* extract_next_thread on a queue of distinct threads: it takes out the thread
\* it returns and no other, and returns main only from an empty queue.
LEMMA ExtractNext ==
    ASSUME NEW q \in Seq(Threads), Distinct(q),
           q # <<>> \/ main_thread = Main
    PROVE  /\ RestOfQueue(q) \in Seq(Threads)
           /\ Distinct(RestOfQueue(q))
           /\ NextThread(q) \in Range(q) \cup {Main}
           /\ Range(RestOfQueue(q)) = Range(q) \ {NextThread(q)}
           /\ NextThread(q) = Main => RestOfQueue(q) = <<>> /\ Range(q) = {}
           /\ q # <<>> => NextThread(q) \in Range(q)
<1>1. Range(q) \subseteq Threads /\ Main \notin Threads
  BY RangeIsElements, ThreadsAssumption
<1>2. CASE q = <<>>
  <2>1. RestOfQueue(q) = q /\ NextThread(q) = Main
    BY <1>2 DEF RestOfQueue, NextThread
  <2>2. Range(q) = {}
    BY <1>2, EmptyQueue
  <2> QED BY <2>1, <2>2, <1>2
<1>3. CASE q # <<>>
  <2>1. RestOfQueue(q) = Tail(q) /\ NextThread(q) = Head(q)
    BY <1>3 DEF RestOfQueue, NextThread
  <2>2. /\ Head(q) \in Range(q) /\ Tail(q) \in Seq(Threads)
        /\ Range(q) = Range(Tail(q)) \cup {Head(q)}
        /\ Distinct(Tail(q)) /\ Head(q) \notin Range(Tail(q))
    BY <1>3, TailQueue
  <2>3. Head(q) # Main
    BY <2>2, <1>1
  <2> QED BY <2>1, <2>2, <2>3, <1>3
<1> QED BY <1>2, <1>3

\* Counting the live threads when one is created or freed.
LEMMA CountAlloc ==
    ASSUME NEW A, A \subseteq Threads, NEW t \in Threads
    PROVE  /\ IsFiniteSet(A) /\ Cardinality(A) \in Nat
           /\ t \notin A => Cardinality(A \cup {t}) = Cardinality(A) + 1
           /\ t \in A => /\ Cardinality(A \ {t}) = Cardinality(A) - 1
                         /\ Cardinality(A) > 0
<1>1. IsFiniteSet(A)
  BY ThreadsAssumption, FS_Subset
<1>2. Cardinality(A) \in Nat
  BY <1>1, FS_CardinalityType
<1>3. t \notin A => Cardinality(A \cup {t}) = Cardinality(A) + 1
  BY <1>1, FS_AddElement
<1>4. ASSUME t \in A
      PROVE  Cardinality(A \ {t}) = Cardinality(A) - 1 /\ Cardinality(A) > 0
  <2>1. Cardinality(A \ {t}) = Cardinality(A) - 1
    BY <1>1, <1>4, FS_RemoveElement
  <2>2. Cardinality(A) # 0
    BY <1>1, <1>4, FS_EmptySet
  <2> QED BY <2>1, <2>2, <1>2
<1> QED BY <1>1, <1>2, <1>3, <1>4

-----------------------------------------------------------------------------

LEMMA InitInv == Init => SchedulerInv
<1> SUFFICES ASSUME Init PROVE SchedulerInv
  OBVIOUS
<1>1. <<>> \in Seq(Threads) /\ Distinct(<<>>) /\ Range(<<>>) = {}
  BY EmptyQueue
<1>2. Cardinality({}) = 0
  BY FS_EmptySet
<1>3. TypeOK /\ Alive /\ ContextsResumable
  BY <1>1 DEF Init, TypeOK, Alive, ContextsResumable
<1>4. ReadyOnce
  BY <1>1 DEF Init, ReadyOnce, Distinct
<1>5. LiveCount
  BY <1>2 DEF Init, LiveCount
<1>6. MainLast
  BY ThreadsAssumption DEF Init, MainLast, Parked
<1> QED BY <1>3, <1>4, <1>5, <1>6 DEF SchedulerInv

-----------------------------------------------------------------------------
(* One lemma for each way of giving up the processor: q is the ready queue *)
(* from which the next thread is taken, A the threads that stay alive.     *)

\* A switch while the scheduler runs keeps everything but the counter.
LEMMA SwitchInv ==
    ASSUME SchedulerInv,
           NEW q \in Seq(Threads), Distinct(q),
           NEW A, A \subseteq alloc, Range(q) \subseteq A,
           q # <<>> \/ main_thread = Main,
           main_pc' = "run", main_thread' = Main,
           ready_queue' = RestOfQueue(q),
           running_thread' = NextThread(q),
           alloc' = A,
           saved' = (A \cup {Main}) \ {NextThread(q)},
           number_of_threads' \in Nat, LiveCount'
    PROVE  SchedulerInv'
<1>1. /\ RestOfQueue(q) \in Seq(Threads)
      /\ Distinct(RestOfQueue(q))
      /\ NextThread(q) \in Range(q) \cup {Main}
      /\ Range(RestOfQueue(q)) = Range(q) \ {NextThread(q)}
      /\ NextThread(q) = Main => RestOfQueue(q) = <<>>
  BY ExtractNext
<1>2. alloc \subseteq Threads
  BY DEF SchedulerInv, TypeOK
<1>3. NextThread(q) \in A \cup {Main} /\ NextThread(q) \in Threads \cup {Main}
  BY <1>1, <1>2
<1>4. TypeOK'
  BY <1>1, <1>2, <1>3 DEF TypeOK
<1>5. ReadyOnce'
  BY <1>1 DEF ReadyOnce, Distinct
<1>6. ContextsResumable'
  BY <1>1, <1>3, ThreadsAssumption DEF ContextsResumable
<1>7. MainLast'
  BY <1>1 DEF MainLast
<1>8. Alive'
  BY <1>3 DEF Alive
<1> QED BY <1>4, <1>5, <1>6, <1>7, <1>8 DEF SchedulerInv

\* Linking a thread of A that is neither ready nor running.
LEMMA LinkInv ==
    ASSUME SchedulerInv,
           NEW t \in Threads, t \notin Range(ready_queue), t # running_thread,
           NEW A, A \subseteq Threads, A = alloc \cup {t},
           main_pc \in {"idle", "run"}, UNCHANGED main_pc,
           main_pc = "run" => running_thread \in Threads,
           ready_queue' = Append(ready_queue, t),
           alloc' = A,
           saved' = saved \cup {t},
           UNCHANGED <<running_thread, main_thread>>,
           number_of_threads' \in Nat, LiveCount'
    PROVE  SchedulerInv'
<1>1. /\ TypeOK /\ ReadyOnce /\ ContextsResumable /\ MainLast /\ Alive
  BY DEF SchedulerInv
<1>2. ready_queue \in Seq(Threads) /\ Distinct(ready_queue)
  BY <1>1 DEF TypeOK, ReadyOnce, Distinct
<1>3. /\ ready_queue' \in Seq(Threads)
      /\ Range(ready_queue') = Range(ready_queue) \cup {t}
      /\ Distinct(ready_queue')
  BY <1>2, AppendQueue
<1>4. TypeOK'
  BY <1>1, <1>3 DEF TypeOK
<1>5. ReadyOnce'
  BY <1>1, <1>3 DEF ReadyOnce, Distinct
<1>6. ContextsResumable'
  BY <1>1, <1>3 DEF ContextsResumable
<1>7. Alive'
  BY <1>1, <1>3 DEF Alive
<1>8. MainLast'
  BY <1>1, <1>3, ThreadsAssumption DEF MainLast, Parked, Alive
<1> QED BY <1>4, <1>5, <1>6, <1>7, <1>8 DEF SchedulerInv

-----------------------------------------------------------------------------

LEMMA StepInv == SchedulerInv /\ [Next]_uvars => SchedulerInv'
<1> SUFFICES ASSUME SchedulerInv, [Next]_uvars PROVE SchedulerInv'
  OBVIOUS
<1>1. TypeOK /\ ReadyOnce /\ ContextsResumable /\ LiveCount /\ MainLast /\ Alive
  BY DEF SchedulerInv
<1>2. /\ ready_queue \in Seq(Threads) /\ Distinct(ready_queue)
      /\ alloc \subseteq Threads /\ Main \notin Threads /\ NULL \notin Threads
      /\ number_of_threads \in Nat
  BY <1>1, ThreadsAssumption DEF TypeOK, ReadyOnce, Distinct
<1>3. CASE ut_init
  <2>1. <<>> \in Seq(Threads) /\ Distinct(<<>>) /\ Range(<<>>) = {}
    BY EmptyQueue
  <2>2. ready_queue' = <<>> /\ alloc = {} /\ saved = {} /\ Range(ready_queue) = {}
    BY <1>1, <1>3 DEF ut_init, Alive
  <2>3. TypeOK' /\ ContextsResumable' /\ Alive' /\ LiveCount'
    BY <1>1, <1>3, <2>1, <2>2
    DEF ut_init, TypeOK, ContextsResumable, Alive, LiveCount
  <2>4. ReadyOnce'
    BY <2>1, <2>2 DEF ReadyOnce, Distinct
  <2>5. MainLast'
    BY <1>1, <1>3, <2>1, <2>2 DEF ut_init, MainLast, Parked
  <2> QED BY <2>3, <2>4, <2>5 DEF SchedulerInv
<1>4. CASE ut_run
  <2>1. Range(ready_queue) = alloc /\ saved = alloc
    BY <1>1, <1>4 DEF ut_run, Alive
  <2>2. saved' = (alloc \cup {Main}) \ {NextThread(ready_queue)}
    BY <2>1, <1>4 DEF ut_run, schedule
  <2>3. LiveCount' /\ number_of_threads' \in Nat
    BY <1>1, <1>2, <1>4 DEF ut_run, LiveCount
  <2> QED
    BY <1>2, <1>4, <2>1, <2>2, <2>3, SwitchInv DEF ut_run, schedule
<1>5. CASE ut_run_return
  <2>1. alloc = {}
    <3>1. IsFiniteSet(alloc)
      BY <1>2, ThreadsAssumption, FS_Subset
    <3> QED BY <3>1, <1>1, <1>5, FS_EmptySet DEF ut_run_return, LiveCount
  <2>2. Range(ready_queue) = {} /\ saved = {}
    BY <1>1, <1>5, <2>1, EmptyQueue DEF ut_run_return, ContextsResumable
  <2>3. TypeOK' /\ LiveCount' /\ ContextsResumable'
    BY <1>1, <1>5 DEF ut_run_return, TypeOK, LiveCount, ContextsResumable
  <2>4. ReadyOnce'
    BY <1>1, <1>5, <2>2 DEF ut_run_return, ReadyOnce
  <2>5. MainLast' /\ Alive'
    BY <1>5, <2>1, <2>2, ThreadsAssumption
    DEF ut_run_return, MainLast, Parked, Alive
  <2> QED BY <2>3, <2>4, <2>5 DEF SchedulerInv
<1>6. CASE ut_run_abort \/ ut_run_nested
  <2>1. main_pc' = "aborted" /\ UNCHANGED <<ready_queue, running_thread,
                main_thread, number_of_threads, alloc, saved>>
    BY <1>6 DEF ut_run_abort, ut_run_nested
  <2> QED
    BY <1>1, <2>1 DEF SchedulerInv, TypeOK, ReadyOnce, ContextsResumable,
       LiveCount, MainLast, Parked, Alive
<1>7. CASE Aborted \/ UNCHANGED uvars
  <2>1. UNCHANGED uvars
    BY <1>7 DEF Aborted
  <2> QED
    BY <1>1, <2>1 DEF uvars, SchedulerInv, TypeOK, ReadyOnce,
       ContextsResumable, LiveCount, MainLast, Parked, Alive
<1>8. ASSUME NEW t \in Threads, ut_create(t) PROVE SchedulerInv'
  <2>1. t \notin alloc /\ alloc' = alloc \cup {t}
    BY <1>8 DEF ut_create
  <2>2. t \notin Range(ready_queue) /\ t # running_thread
    BY <1>1, <1>2, <1>8, <2>1
    DEF ut_create, MayCreate, ContextsResumable, Alive, MainLast
  <2>3. LiveCount' /\ number_of_threads' \in Nat
    BY <1>1, <1>2, <1>8, <2>1, CountAlloc DEF ut_create, LiveCount
  <2>4. /\ main_pc \in {"idle", "run"}
        /\ main_pc = "run" => running_thread \in Threads
    BY <1>8 DEF ut_create, MayCreate
  <2> DEFINE A == alloc \cup {t}
  <2>5. A \subseteq Threads /\ A = alloc \cup {t} /\ alloc' = A
    BY <1>2, <2>1
  <2> HIDE DEF A
  <2> QED
    BY <1>8, <2>2, <2>3, <2>4, <2>5, LinkInv DEF ut_create
<1>9. ASSUME NEW t \in Threads, ut_exit(t) PROVE SchedulerInv'
  <2>1. main_pc = "run" /\ running_thread = t /\ main_thread = Main
    BY <1>1, <1>9 DEF ut_exit, Running, ContextsResumable
  <2>2. t \in alloc /\ t \notin Range(ready_queue) /\ Range(ready_queue) \subseteq alloc
    BY <1>1, <1>2, <2>1 DEF Alive, ReadyOnce, ContextsResumable
  <2>3. saved = (alloc \cup {Main}) \ {t}
    BY <1>1, <2>1 DEF ContextsResumable
  <2>4. saved' = ((alloc \ {t}) \cup {Main}) \ {NextThread(ready_queue)}
    BY <1>2, <1>9, <2>3 DEF ut_exit
  <2>5. LiveCount' /\ number_of_threads' \in Nat
    BY <1>1, <1>2, <1>9, <2>2, CountAlloc DEF ut_exit, LiveCount
  <2> DEFINE A == alloc \ {t}
  <2>6. A \subseteq alloc /\ Range(ready_queue) \subseteq A /\ alloc' = A
    BY <1>9, <2>2 DEF ut_exit
  <2>7. saved' = (A \cup {Main}) \ {NextThread(ready_queue)}
    BY <2>4
  <2> HIDE DEF A
  <2> QED
    BY <1>2, <1>9, <2>1, <2>5, <2>6, <2>7, SwitchInv DEF ut_exit
<1>10. ASSUME NEW t \in Threads, ut_yield(t) \/ ut_deactivate(t)
       PROVE  SchedulerInv'
  <2>1. main_pc = "run" /\ running_thread = t /\ main_thread = Main
    BY <1>1, <1>10 DEF ut_yield, ut_deactivate, Running, ContextsResumable
  <2>2. t \in alloc /\ t \notin Range(ready_queue) /\ Range(ready_queue) \subseteq alloc
    BY <1>1, <1>2, <2>1 DEF Alive, ReadyOnce, ContextsResumable
  <2>3. saved \cup {t} = alloc \cup {Main}
    BY <1>1, <2>1, <2>2 DEF ContextsResumable
  <2>4. LiveCount' /\ number_of_threads' \in Nat
    BY <1>1, <1>2, <1>10 DEF ut_yield, ut_deactivate, LiveCount
  <2>5. CASE ut_yield(t)
    <3> DEFINE q == Append(ready_queue, t)
    <3>1. q \in Seq(Threads) /\ Distinct(q) /\ Range(q) \subseteq alloc
      BY <1>2, <2>2, AppendQueue
    <3>2. /\ ready_queue' = RestOfQueue(q) /\ running_thread' = NextThread(q)
          /\ saved' = (alloc \cup {Main}) \ {NextThread(q)}
          /\ alloc' = alloc /\ main_pc' = "run" /\ main_thread' = Main
      BY <2>1, <2>3, <2>5 DEF ut_yield, schedule
    <3> HIDE DEF q
    <3> QED
      BY <2>1, <2>4, <3>1, <3>2, SwitchInv
  <2>6. CASE ut_deactivate(t)
    <3>1. /\ saved' = (alloc \cup {Main}) \ {NextThread(ready_queue)}
          /\ alloc' = alloc /\ main_pc' = "run" /\ main_thread' = Main
      BY <2>1, <2>3, <2>6 DEF ut_deactivate, schedule
    <3> QED
      BY <1>2, <2>1, <2>2, <2>4, <2>6, <3>1, SwitchInv
      DEF ut_deactivate, schedule
  <2> QED BY <1>10, <2>5, <2>6
<1>11. ASSUME NEW t \in Threads, t \in Parked, ut_activate(t)
       PROVE  SchedulerInv'
  <2>1. t \in alloc /\ t \notin Range(ready_queue) /\ t # running_thread
    BY <1>11 DEF Parked
  <2>2. main_pc = "run" /\ running_thread \in Threads
    BY <1>11 DEF ut_activate
  <2>3. t \in saved
    BY <1>1, <2>1, <2>2 DEF ContextsResumable
  <2>4. alloc = alloc \cup {t} /\ saved' = saved \cup {t} /\ alloc' = alloc
    BY <1>11, <2>1, <2>3 DEF ut_activate
  <2>5. LiveCount' /\ number_of_threads' \in Nat
    BY <1>1, <1>2, <1>11 DEF ut_activate, LiveCount
  <2> QED
    BY <1>2, <1>11, <2>1, <2>2, <2>4, <2>5, LinkInv DEF ut_activate
<1> QED
  BY <1>3, <1>4, <1>5, <1>6, <1>7, <1>8, <1>9, <1>10, <1>11 DEF Next

-----------------------------------------------------------------------------

\* The inductive invariant holds in every reachable state, for any finite set
\* of threads and any sequence of calls that activates parked threads only.
THEOREM SchedulerInvariant == Spec => []SchedulerInv
<1>1. Init => SchedulerInv
  BY InitInv
<1>2. SchedulerInv /\ [Next]_uvars => SchedulerInv'
  BY StepInv
<1> QED BY <1>1, <1>2, PTL DEF Spec

\* All that the operations of the scheduler rely on holds: no double link, no
\* switch to freed or unsaved memory, an exact count, main resumed last.
THEOREM SchedulerIsSafe == Spec => []SchedulerSafe
<1>1. SchedulerInv => SchedulerSafe
  BY DEF SchedulerInv, SchedulerSafe
<1> QED BY <1>1, SchedulerInvariant, PTL

\* The state of uthread.c keeps its types; number_of_threads never wraps.
THEOREM TypeCorrect == Spec => []TypeOK
<1>1. SchedulerInv => TypeOK
  BY DEF SchedulerInv
<1> QED BY <1>1, SchedulerInvariant, PTL

\* No thread is linked twice in the ready queue, or linked while it runs.
THEOREM NoDoubleLink == Spec => []ReadyOnce
<1>1. SchedulerInv => ReadyOnce
  BY DEF SchedulerInv
<1> QED BY <1>1, SchedulerInvariant, PTL

\* context_switch and internal_exit always resume a context that was saved, in
\* memory that is not freed.
THEOREM SwitchIsSafe == Spec => []ContextsResumable
<1>1. SchedulerInv => ContextsResumable
  BY DEF SchedulerInv
<1> QED BY <1>1, SchedulerInvariant, PTL

\* number_of_threads is the number of descriptors not yet freed.
THEOREM CountIsExact == Spec => []LiveCount
<1>1. SchedulerInv => LiveCount
  BY DEF SchedulerInv
<1> QED BY <1>1, SchedulerInvariant, PTL

\* ut_run's first two assertions hold: main resumes only when no thread is
\* ready, and a run leaves nothing behind for the next one.
THEOREM MainResumesLast == Spec => []MainLast
<1>1. SchedulerInv => MainLast
  BY DEF SchedulerInv
<1> QED BY <1>1, SchedulerInvariant, PTL

-----------------------------------------------------------------------------
(***************************************************************************)
(* The event and the semaphore                                             *)
(***************************************************************************)

\* What the invariants of USynch.tla leave implicit: a release loop is run by
\* the running thread, the one of event_set after the event is signaled, and
\* only a live thread is inside a synchronizer.
InLibrary ==
    \A t \in Threads :
        /\ pc[t] \in {"event_set", "sem_post"} => Running(t)
        /\ pc[t] = "event_set" => signaled
        /\ t \notin alloc => pc[t] = "user"

\* The inductive invariant.
SynchInv ==
    /\ SchedulerInv
    /\ STypeOK /\ WaitersParked /\ EventBroadcast /\ AllSatisfiableReleased
    /\ InLibrary

-----------------------------------------------------------------------------

\* How the steps of the scheduler change the set of parked threads.
LEMMA ParkedStep ==
    ASSUME SchedulerInv, NEW t \in Threads
    PROVE  /\ ut_create(t) \/ ut_exit(t) \/ ut_yield(t) => Parked' = Parked
           /\ ut_deactivate(t) => Parked' = Parked \cup {t}
           /\ t \in Parked /\ ut_activate(t) => Parked' = Parked \ {t}
<1>1. /\ TypeOK /\ ReadyOnce /\ ContextsResumable /\ MainLast /\ Alive
  BY DEF SchedulerInv
<1>2. /\ ready_queue \in Seq(Threads) /\ Distinct(ready_queue)
      /\ alloc \subseteq Threads /\ Main \notin Threads /\ NULL \notin Threads
      /\ Range(ready_queue) \subseteq Threads
  BY <1>1, ThreadsAssumption, RangeIsElements DEF TypeOK, ReadyOnce, Distinct
<1>3. Range(Append(ready_queue, t)) = Range(ready_queue) \cup {t}
  BY <1>2, AppendQueue
<1>4. ASSUME Running(t)
      PROVE  /\ main_thread = Main /\ running_thread = t
             /\ t \in alloc /\ t \notin Range(ready_queue)
  BY <1>1, <1>2, <1>4 DEF Running, ContextsResumable, Alive, ReadyOnce
<1>5. ASSUME ut_create(t) PROVE Parked' = Parked
  <2>1. t \notin alloc /\ alloc' = alloc \cup {t} /\ running_thread' = running_thread
    BY <1>5 DEF ut_create
  <2>2. Range(ready_queue') = Range(ready_queue) \cup {t}
    BY <1>3, <1>5 DEF ut_create
  <2> QED BY <2>1, <2>2 DEF Parked
<1>6. ASSUME ut_exit(t) PROVE Parked' = Parked
  <2>1. Running(t) /\ alloc' = alloc \ {t}
    BY <1>6 DEF ut_exit
  <2>2. /\ Range(ready_queue') = Range(ready_queue) \ {running_thread'}
        /\ running_thread' \in Range(ready_queue) \cup {Main}
    BY <1>2, <1>4, <1>6, <2>1, ExtractNext DEF ut_exit
  <2> QED BY <1>2, <1>4, <2>1, <2>2 DEF Parked
<1>7. ASSUME ut_yield(t) PROVE Parked' = Parked
  <2> DEFINE q == Append(ready_queue, t)
  <2>1. Running(t) /\ alloc' = alloc
    BY <1>7 DEF ut_yield
  <2>2. q \in Seq(Threads) /\ Distinct(q) /\ q # <<>>
        /\ Range(q) = Range(ready_queue) \cup {t}
    BY <1>2, <1>4, <2>1, AppendQueue
  <2>3. ready_queue' = RestOfQueue(q) /\ running_thread' = NextThread(q)
    BY <1>7 DEF ut_yield, schedule
  <2> HIDE DEF q
  <2>4. /\ Range(ready_queue') = Range(q) \ {running_thread'}
        /\ running_thread' \in Range(q)
    BY <2>2, <2>3, ExtractNext
  <2> QED BY <1>4, <2>1, <2>2, <2>4 DEF Parked
<1>8. ASSUME ut_deactivate(t) PROVE Parked' = Parked \cup {t}
  <2>1. Running(t) /\ alloc' = alloc
    BY <1>8 DEF ut_deactivate
  <2>2. /\ Range(ready_queue') = Range(ready_queue) \ {running_thread'}
        /\ running_thread' \in Range(ready_queue) \cup {Main}
    BY <1>2, <1>4, <1>8, <2>1, ExtractNext DEF ut_deactivate, schedule
  <2> QED BY <1>2, <1>4, <2>1, <2>2 DEF Parked
<1>9. ASSUME t \in Parked, ut_activate(t) PROVE Parked' = Parked \ {t}
  <2>1. Range(ready_queue') = Range(ready_queue) \cup {t}
    BY <1>3, <1>9 DEF ut_activate
  <2>2. alloc' = alloc /\ running_thread' = running_thread
    BY <1>9 DEF ut_activate
  <2> QED BY <2>1, <2>2 DEF Parked
<1> QED BY <1>5, <1>6, <1>7, <1>8, <1>9

\* The main program's steps leave the set of parked threads alone: it is empty
\* outside ut_run.
LEMMA ParkedMain ==
    ASSUME SchedulerInv, ut_init \/ ut_run \/ ut_run_return \/ ut_run_abort \/ Aborted
    PROVE  Parked' = Parked /\ alloc' = alloc
<1>1. MainLast /\ Alive /\ TypeOK /\ ReadyOnce
  BY DEF SchedulerInv
<1>2. SchedulerInv'
  BY StepInv DEF Next
<1>3. MainLast' /\ Alive'
  BY <1>2 DEF SchedulerInv
<1>4. CASE ut_init
  BY <1>1, <1>3, <1>4 DEF ut_init, MainLast
<1>5. CASE ut_run
  <2>1. Range(ready_queue) = alloc /\ Parked = {} /\ alloc' = alloc
    BY <1>1, <1>5 DEF ut_run, Alive, MainLast
  <2>2. /\ ready_queue \in Seq(Threads) /\ Distinct(ready_queue)
        /\ ready_queue # <<>>
    BY <1>1, <1>5 DEF ut_run, TypeOK, ReadyOnce, Distinct
  <2>3. Range(ready_queue') = Range(ready_queue) \ {running_thread'}
    BY <1>5, <2>2, ExtractNext DEF ut_run, schedule
  <2> QED BY <2>1, <2>3 DEF Parked
<1>6. CASE ut_run_return
  <2>1. /\ Parked' = {} /\ Range(ready_queue') = alloc'
        /\ ready_queue' = ready_queue /\ alloc' = alloc
    BY <1>3, <1>6 DEF ut_run_return, MainLast, Alive
  <2> QED BY <2>1 DEF Parked
<1>7. CASE ut_run_abort \/ Aborted
  BY <1>7 DEF ut_run_abort, Aborted, uvars, Parked
<1> QED BY <1>4, <1>5, <1>6, <1>7

-----------------------------------------------------------------------------

\* The head of a wait list is parked and can be activated.
LEMMA HeadParked ==
    ASSUME SynchInv
    PROVE  /\ ev_waiters # <<>> => /\ Head(ev_waiters) \in Threads
                                   /\ Head(ev_waiters) \in Parked
           /\ sem_waiters # <<>> => /\ Head(sem_waiters) \in Threads
                                    /\ Head(sem_waiters) \in Parked
BY TailQueue DEF SynchInv, STypeOK, WaitersParked

\* Every step of the synchronizers and of their clients is a step of the
\* scheduler that activates parked threads only, or leaves it alone.
LEMMA StepObeys == SynchInv /\ [SNext]_svars => [Next]_uvars
<1> SUFFICES ASSUME SynchInv, [SNext]_svars PROVE Next \/ UNCHANGED uvars
  OBVIOUS
<1>1. CASE Main_step
  BY <1>1 DEF Main_step, Next
<1>2. ASSUME NEW t \in Threads, create(t) \/ exit(t) \/ yield(t) \/ event_wait(t)
      PROVE  Next
  BY <1>2 DEF create, exit, yield, event_wait, Next
<1>3. ASSUME NEW t \in Threads, NEW n \in Requests, sem_wait_block(t, n)
      PROVE  Next
  BY <1>3 DEF sem_wait_block, Next
<1>4. ASSUME NEW t \in Threads, event_set_loop(t) \/ sem_post_loop(t)
      PROVE  Next
  BY <1>4, HeadParked DEF event_set_loop, sem_post_loop, CanRelease, Next
<1>5. ASSUME NEW t \in Threads,
             \/ wait_return(t) \/ event_set(t)
             \/ event_set_return(t) \/ sem_post_return(t)
             \/ \E n \in Requests : sem_wait_take(t, n)
             \/ \E n \in Posts : sem_post(t, n)
      PROVE  UNCHANGED uvars
  BY <1>5 DEF wait_return, event_set, event_set_return, sem_post_return,
              sem_wait_take, sem_post
<1>6. CASE UNCHANGED svars
  BY <1>6 DEF svars
<1> QED BY <1>1, <1>2, <1>3, <1>4, <1>5, <1>6 DEF SNext, LibraryStep

-----------------------------------------------------------------------------
(* The invariant is kept.  While a thread runs its own code, or main runs, *)
(* nobody is inside a release loop.                                        *)

\* The part of the invariant that is about the synchronizers.
SynchParts ==
    STypeOK /\ WaitersParked /\ EventBroadcast /\ AllSatisfiableReleased /\ InLibrary

LEMMA NobodyReleases ==
    ASSUME SynchInv,
           main_pc # "run" \/ running_thread \notin Threads
             \/ \E c \in Threads : UserCode(c)
    PROVE  \A t \in Threads : pc[t] \notin {"event_set", "sem_post"}
BY DEF SynchInv, InLibrary, Running, UserCode

\* Steps that leave the wait lists alone, in which nobody is or gets inside a
\* release loop, and after which the threads that are gone are in user code.
LEMMA FrameStep ==
    ASSUME SynchInv,
           \A t \in Threads : pc[t] \notin {"event_set", "sem_post"},
           Parked' = Parked, UNCHANGED <<evvars, semvars>>,
           NEW t \in Threads, pc' = [pc EXCEPT ![t] = "user"] \/ pc' = pc,
           alloc' \in {alloc, alloc \cup {t}, alloc \ {t}},
           alloc' # alloc => pc'[t] = "user",
           pc[t] # "user" => t \notin Parked \/ pc' = pc
    PROVE  SynchParts'
<1>1. /\ STypeOK /\ WaitersParked /\ EventBroadcast /\ AllSatisfiableReleased
      /\ InLibrary /\ alloc \subseteq Threads
  BY DEF SynchInv, SchedulerInv, TypeOK
<1>2. UNCHANGED <<signaled, ev_waiters, units, sem_waiters, req>>
  BY DEF evvars, semvars
<1>3. STypeOK'
  BY <1>1, <1>2 DEF STypeOK
<1>4. \A s \in Threads : pc'[s] = pc[s] \/ (s = t /\ pc'[s] = "user")
  BY <1>1 DEF STypeOK
<1>5. /\ Range(ev_waiters) \subseteq Parked /\ Range(sem_waiters) \subseteq Parked
      /\ Parked \subseteq Threads
      /\ \A s \in Parked : pc[s] # "user"
  BY <1>1 DEF WaitersParked, Parked
<1>6. \A s \in Parked : pc'[s] = pc[s]
  BY <1>4, <1>5
<1>7. WaitersParked'
  BY <1>1, <1>2, <1>5, <1>6 DEF WaitersParked
<1>8. EventBroadcast'
  BY <1>1, <1>2, <1>4 DEF EventBroadcast
<1>9. AllSatisfiableReleased'
  BY <1>1, <1>2 DEF AllSatisfiableReleased
<1>10. InLibrary'
  BY <1>1, <1>4 DEF InLibrary
<1> QED BY <1>3, <1>7, <1>8, <1>9, <1>10 DEF SynchParts

\* Queueing the running thread t on a synchronizer, or taking the head h of a
\* wait list out of it, keeps the wait lists in step with the parked threads.
LEMMA Queueing ==
    ASSUME SynchInv, NEW t \in Threads, UserCode(t)
    PROVE  /\ t \in alloc /\ t \notin Parked
           /\ \A q \in {ev_waiters, sem_waiters} :
                /\ q \in Seq(Threads) /\ Append(q, t) \in Seq(Threads)
                /\ Range(Append(q, t)) = Range(q) \cup {t}
                /\ Distinct(Append(q, t))
                /\ q # <<>> => Head(Append(q, t)) = Head(q)
                             /\ Head(q) # t
                /\ q = <<>> => Head(Append(q, t)) = t
<1>1. t \in alloc /\ t \notin Parked
  BY ThreadsAssumption
  DEF SynchInv, SchedulerInv, Alive, UserCode, Running, Parked
<1>2. ASSUME NEW q \in {ev_waiters, sem_waiters}
      PROVE  /\ q \in Seq(Threads) /\ Distinct(q) /\ t \notin Range(q)
  BY <1>1, <1>2 DEF SynchInv, STypeOK, WaitersParked, Distinct
<1>3. ASSUME NEW q \in {ev_waiters, sem_waiters}
      PROVE  /\ q # <<>> => Head(Append(q, t)) = Head(q) /\ Head(q) # t
             /\ q = <<>> => Head(Append(q, t)) = t
  <2>1. q \in Seq(Threads) /\ t \notin Range(q)
    BY <1>2
  <2>2. q # <<>> => Head(q) \in Range(q)
    BY <2>1, TailQueue
  <2>3. q # <<>> => Head(Append(q, t)) = Head(q)
    BY <2>1
  <2>4. q = <<>> => Head(Append(q, t)) = t
    BY <2>1
  <2> QED BY <2>1, <2>2, <2>3, <2>4
<1> QED BY <1>1, <1>2, <1>3, AppendQueue

LEMMA Releasing ==
    ASSUME SynchInv, NEW q \in {ev_waiters, sem_waiters}, q # <<>>
    PROVE  /\ Tail(q) \in Seq(Threads) /\ Distinct(Tail(q))
           /\ Head(q) \in Threads /\ Head(q) \in Parked
           /\ Range(Tail(q)) = Range(q) \ {Head(q)}
<1>1. q \in Seq(Threads) /\ Distinct(q)
  BY DEF SynchInv, STypeOK, WaitersParked, Distinct
<1> QED BY <1>1, HeadParked, TailQueue

\* The running thread's calls and returns that leave the scheduler alone.
LEMMA LocalSteps ==
    ASSUME SynchInv, NEW t \in Threads,
           \/ wait_return(t) \/ event_set(t)
           \/ event_set_return(t) \/ sem_post_return(t)
           \/ \E n \in Requests : sem_wait_take(t, n)
           \/ \E n \in Posts : sem_post(t, n)
    PROVE  SynchParts'
<1>1. /\ STypeOK /\ WaitersParked /\ EventBroadcast /\ AllSatisfiableReleased
      /\ InLibrary /\ alloc \subseteq Threads
  BY DEF SynchInv, SchedulerInv, TypeOK
<1>2. UNCHANGED uvars /\ Parked' = Parked
  BY DEF wait_return, event_set, event_set_return, sem_post_return,
         sem_wait_take, sem_post, uvars, Parked
<1>3. Running(t) /\ Running(t)'
  BY <1>2 DEF wait_return, event_set, event_set_return, sem_post_return,
     sem_wait_take, sem_post, UserCode, uvars, Running
<1>4. t \in alloc /\ t \notin Parked /\ t \notin Range(ev_waiters)
      /\ t \notin Range(sem_waiters)
  BY <1>1, <1>3, ThreadsAssumption
  DEF SynchInv, SchedulerInv, Alive, Running, Parked, WaitersParked
<1>5. \A s \in Threads \ {t} : pc[s] \notin {"event_set", "sem_post"}
  BY <1>1, <1>3 DEF InLibrary, Running
<1> USE DEF STypeOK
<1>6. CASE wait_return(t)
  <2>1. \A s \in Threads : pc[s] \notin {"event_set", "sem_post"}
    BY <1>5, <1>6 DEF wait_return
  <2> QED BY <1>2, <1>4, <1>6, <2>1, FrameStep DEF wait_return, goto, uvars
<1>7. CASE event_set(t)
  <2>1. STypeOK'
    BY <1>1, <1>7 DEF event_set, goto, semvars
  <2>2. WaitersParked' /\ AllSatisfiableReleased' /\ InLibrary'
    BY <1>1, <1>2, <1>3, <1>4, <1>5, <1>7
    DEF event_set, goto, semvars, WaitersParked, AllSatisfiableReleased,
        InLibrary, uvars, UserCode
  <2>3. EventBroadcast'
    BY <1>1, <1>2, <1>7 DEF event_set, goto, EventBroadcast
  <2> QED BY <2>1, <2>2, <2>3 DEF SynchParts
<1>8. CASE event_set_return(t)
  <2>1. STypeOK'
    BY <1>1, <1>8 DEF event_set_return, goto, semvars, evvars
  <2>2. WaitersParked' /\ AllSatisfiableReleased' /\ InLibrary'
    BY <1>1, <1>2, <1>3, <1>4, <1>5, <1>8
    DEF event_set_return, goto, semvars, evvars, WaitersParked,
        AllSatisfiableReleased, InLibrary, uvars
  <2>3. EventBroadcast'
    BY <1>1, <1>2, <1>8
    DEF event_set_return, goto, semvars, evvars, EventBroadcast, uvars
  <2> QED BY <2>1, <2>2, <2>3 DEF SynchParts
<1>9. CASE sem_post_return(t)
  <2>1. STypeOK'
    BY <1>1, <1>9 DEF sem_post_return, goto, semvars, evvars
  <2>2. WaitersParked' /\ EventBroadcast' /\ InLibrary'
    BY <1>1, <1>2, <1>3, <1>4, <1>5, <1>9
    DEF sem_post_return, goto, semvars, evvars, WaitersParked,
        EventBroadcast, InLibrary, uvars
  <2>3. AllSatisfiableReleased'
    <3>1. sem_waiters # <<>> => req[Head(sem_waiters)] \in Nat
      BY <1>1, TailQueue
    <3> QED
      BY <1>1, <1>9, <3>1, SemAssumption
      DEF sem_post_return, CanRelease, semvars, AllSatisfiableReleased
  <2> QED BY <2>1, <2>2, <2>3 DEF SynchParts
<1>10. ASSUME NEW n \in Requests, sem_wait_take(t, n) PROVE SynchParts'
  <2>1. STypeOK'
    BY <1>1, <1>10, SemAssumption DEF sem_wait_take, evvars
  <2>2. WaitersParked' /\ EventBroadcast' /\ InLibrary'
    BY <1>1, <1>2, <1>3, <1>4, <1>5, <1>10
    DEF sem_wait_take, evvars, WaitersParked, EventBroadcast, InLibrary,
        uvars, Running
  <2>3. AllSatisfiableReleased'
    BY <1>10 DEF sem_wait_take, AllSatisfiableReleased
  <2> QED BY <2>1, <2>2, <2>3 DEF SynchParts
<1>11. ASSUME NEW n \in Posts, sem_post(t, n) PROVE SynchParts'
  <2>1. STypeOK'
    BY <1>1, <1>11, SemAssumption DEF sem_post, AddUnits, goto, evvars
  <2>2. WaitersParked' /\ EventBroadcast' /\ InLibrary'
    BY <1>1, <1>2, <1>3, <1>4, <1>5, <1>11
    DEF sem_post, goto, evvars, WaitersParked, EventBroadcast, InLibrary,
        uvars, UserCode
  <2>3. AllSatisfiableReleased'
    BY <1>1, <1>11 DEF sem_post, goto, AllSatisfiableReleased
  <2> QED BY <2>1, <2>2, <2>3 DEF SynchParts
<1> QED BY <1>6, <1>7, <1>8, <1>9, <1>10, <1>11

\* A thread blocks in event_wait.
LEMMA EventWaitStep ==
    ASSUME SynchInv, NEW t \in Threads, event_wait(t)
    PROVE  SynchParts'
<1>1. /\ STypeOK /\ WaitersParked /\ EventBroadcast /\ AllSatisfiableReleased
      /\ InLibrary /\ SchedulerInv
  BY DEF SynchInv
<1>2. UserCode(t) /\ ut_deactivate(t) /\ alloc' = alloc
  BY DEF event_wait, ut_deactivate
<1>3. Parked' = Parked \cup {t}
  BY <1>1, <1>2, ParkedStep
<1>4. /\ t \in alloc /\ t \notin Parked
      /\ ev_waiters' \in Seq(Threads) /\ Distinct(ev_waiters')
      /\ Range(ev_waiters') = Range(ev_waiters) \cup {t}
  BY <1>2, Queueing DEF event_wait
<1>5. \A s \in Threads : pc[s] \notin {"event_set", "sem_post"}
  BY <1>2, NobodyReleases
<1>6. STypeOK'
  BY <1>1, <1>4 DEF event_wait, STypeOK, goto, semvars
<1>7. \A s \in Threads : pc'[s] = IF s = t THEN "event_wait" ELSE pc[s]
  BY <1>1 DEF event_wait, goto, STypeOK
<1>8. WaitersParked'
  <2>1. /\ Parked' = Range(ev_waiters') \cup Range(sem_waiters')
        /\ \A i, j \in 1..Len(ev_waiters') : ev_waiters'[i] = ev_waiters'[j] => i = j
    BY <1>1, <1>3, <1>4 DEF WaitersParked, event_wait, semvars, Distinct
  <2>2. Range(ev_waiters) \cup Range(sem_waiters) \subseteq Threads \ {t}
    BY <1>1, <1>4, RangeIsElements DEF WaitersParked, STypeOK
  <2> QED
    BY <1>1, <1>4, <1>7, <2>1, <2>2 DEF WaitersParked, event_wait, semvars
<1>9. EventBroadcast'
  <2>1. signaled = FALSE /\ signaled' = FALSE
    BY DEF event_wait
  <2>2. alloc \subseteq Threads
    BY <1>1 DEF SchedulerInv, TypeOK
  <2> QED BY <1>1, <1>2, <1>4, <1>7, <2>1, <2>2 DEF EventBroadcast
<1>10. AllSatisfiableReleased' /\ InLibrary'
  BY <1>1, <1>2, <1>4, <1>5, <1>7
  DEF AllSatisfiableReleased, InLibrary, event_wait, semvars
<1> QED BY <1>6, <1>8, <1>9, <1>10 DEF SynchParts

\* A thread blocks in sem_wait.
LEMMA SemWaitStep ==
    ASSUME SynchInv, NEW t \in Threads, NEW n \in Requests, sem_wait_block(t, n)
    PROVE  SynchParts'
<1>1. /\ STypeOK /\ WaitersParked /\ EventBroadcast /\ AllSatisfiableReleased
      /\ InLibrary /\ SchedulerInv
  BY DEF SynchInv
<1>2. UserCode(t) /\ ut_deactivate(t) /\ alloc' = alloc
  BY DEF sem_wait_block, ut_deactivate
<1>3. Parked' = Parked \cup {t}
  BY <1>1, <1>2, ParkedStep
<1>4. /\ t \in alloc /\ t \notin Parked
      /\ sem_waiters' \in Seq(Threads) /\ Distinct(sem_waiters')
      /\ Range(sem_waiters') = Range(sem_waiters) \cup {t}
      /\ sem_waiters # <<>> => Head(sem_waiters') = Head(sem_waiters)
                              /\ Head(sem_waiters) # t
      /\ sem_waiters = <<>> => Head(sem_waiters') = t
  BY <1>2, Queueing DEF sem_wait_block
<1>5. \A s \in Threads : pc[s] \notin {"event_set", "sem_post"}
  BY <1>2, NobodyReleases
<1>6. STypeOK'
  BY <1>1, <1>4, SemAssumption DEF sem_wait_block, STypeOK, goto, evvars
<1>7. /\ \A s \in Threads : pc'[s] = IF s = t THEN "sem_wait" ELSE pc[s]
      /\ \A s \in Threads : req'[s] = IF s = t THEN n ELSE req[s]
  BY <1>1 DEF sem_wait_block, goto, STypeOK
<1>8. WaitersParked'
  <2>1. /\ Parked' = Range(ev_waiters') \cup Range(sem_waiters')
        /\ \A i, j \in 1..Len(sem_waiters') : sem_waiters'[i] = sem_waiters'[j] => i = j
    BY <1>1, <1>3, <1>4 DEF WaitersParked, sem_wait_block, evvars, Distinct
  <2>2. Range(ev_waiters) \cup Range(sem_waiters) \subseteq Threads \ {t}
    BY <1>1, <1>4, RangeIsElements DEF WaitersParked, STypeOK
  <2> QED
    BY <1>1, <1>4, <1>7, <2>1, <2>2 DEF WaitersParked, sem_wait_block, evvars
<1>9. EventBroadcast' /\ InLibrary'
  <2>1. alloc \subseteq Threads
    BY <1>1 DEF SchedulerInv, TypeOK
  <2> QED
    BY <1>1, <1>2, <1>4, <1>5, <1>7, <2>1
    DEF EventBroadcast, InLibrary, sem_wait_block, evvars
<1>10. AllSatisfiableReleased'
  <2>1. units' = units /\ units \in Int /\ n \in Nat
    BY <1>1, SemAssumption DEF sem_wait_block, STypeOK
  <2>2. CASE sem_waiters = <<>>
    BY <1>4, <1>7, <2>1, <2>2 DEF AllSatisfiableReleased, sem_wait_block
  <2>3. CASE sem_waiters # <<>>
    <3>1. Head(sem_waiters) \in Threads
      BY <1>1, <2>3, TailQueue DEF STypeOK
    <3>2. units > 0 => units < req[Head(sem_waiters)]
      BY <1>1, <1>5, <2>3 DEF AllSatisfiableReleased
    <3> QED BY <1>4, <1>7, <2>1, <2>3, <3>1, <3>2 DEF AllSatisfiableReleased
  <2> QED BY <2>2, <2>3
<1> QED BY <1>6, <1>8, <1>9, <1>10 DEF SynchParts

\* event_set and sem_post take the first waiter out of its list and hand it to
\* the scheduler.
LEMMA ReleaseStep ==
    ASSUME SynchInv, NEW t \in Threads, event_set_loop(t) \/ sem_post_loop(t)
    PROVE  SynchParts'
<1>1. /\ STypeOK /\ WaitersParked /\ EventBroadcast /\ AllSatisfiableReleased
      /\ InLibrary /\ SchedulerInv /\ alloc \subseteq Threads
  BY DEF SynchInv, SchedulerInv, TypeOK
<1>2. Range(ev_waiters) \cap Range(sem_waiters) = {}
  BY <1>1, RangeIsElements DEF WaitersParked, STypeOK
<1>3. /\ Running(t) /\ Running(t)' /\ alloc' = alloc /\ pc' = pc
      /\ pc[t] \in {"event_set", "sem_post"}
  BY DEF event_set_loop, sem_post_loop, ut_activate, Running
<1>4. alloc \subseteq Threads
  BY <1>1
<1>5. CASE event_set_loop(t)
  <2>1. /\ Tail(ev_waiters) \in Seq(Threads) /\ Distinct(Tail(ev_waiters))
        /\ Head(ev_waiters) \in Threads /\ Head(ev_waiters) \in Parked
        /\ Range(Tail(ev_waiters)) = Range(ev_waiters) \ {Head(ev_waiters)}
    BY <1>5, Releasing DEF event_set_loop
  <2>2. Parked' = Parked \ {Head(ev_waiters)}
    BY <1>1, <1>5, <2>1, ParkedStep DEF event_set_loop
  <2>3. Head(ev_waiters) \in Range(ev_waiters)
    BY <1>1, <1>5, TailQueue DEF event_set_loop, STypeOK
  <2>4. STypeOK' /\ WaitersParked'
    BY <1>1, <1>2, <1>5, <2>1, <2>2, <2>3
    DEF event_set_loop, STypeOK, WaitersParked, semvars, Distinct
  <2>5. signaled
    BY <1>1, <1>5 DEF event_set_loop, InLibrary
  <2>6. EventBroadcast' /\ AllSatisfiableReleased'
    BY <1>1, <1>3, <1>5, <2>5
    DEF event_set_loop, EventBroadcast, AllSatisfiableReleased, semvars
  <2>7. InLibrary'
    BY <1>1, <1>3, <1>5 DEF event_set_loop, InLibrary, Running
  <2> QED BY <2>4, <2>6, <2>7 DEF SynchParts
<1>6. CASE sem_post_loop(t)
  <2>1. /\ Tail(sem_waiters) \in Seq(Threads) /\ Distinct(Tail(sem_waiters))
        /\ Head(sem_waiters) \in Threads /\ Head(sem_waiters) \in Parked
        /\ Range(Tail(sem_waiters)) = Range(sem_waiters) \ {Head(sem_waiters)}
    BY <1>6, Releasing DEF sem_post_loop, CanRelease
  <2>2. Parked' = Parked \ {Head(sem_waiters)}
    BY <1>1, <1>6, <2>1, ParkedStep DEF sem_post_loop
  <2>3. Head(sem_waiters) \in Range(sem_waiters)
    BY <1>1, <1>6, TailQueue DEF sem_post_loop, CanRelease, STypeOK
  <2>4. STypeOK'
    BY <1>1, <1>6, <2>1, SemAssumption
    DEF sem_post_loop, CanRelease, STypeOK, evvars
  <2>5. WaitersParked'
    BY <1>1, <1>2, <1>6, <2>1, <2>2, <2>3
    DEF sem_post_loop, WaitersParked, evvars, Distinct
  <2>6. EventBroadcast' /\ InLibrary' /\ AllSatisfiableReleased'
    BY <1>1, <1>3, <1>6
    DEF sem_post_loop, EventBroadcast, InLibrary, AllSatisfiableReleased,
        evvars, Running
  <2> QED BY <2>4, <2>5, <2>6 DEF SynchParts
<1> QED BY <1>5, <1>6

\* Every step keeps the invariant: the scheduler's part because the step obeys
\* the scheduler, the synchronizers' part action by action.
LEMMA SynchStepInv == SynchInv /\ [SNext]_svars => SynchInv'
<1> SUFFICES ASSUME SynchInv, [SNext]_svars PROVE SynchInv'
  OBVIOUS
<1>1. SchedulerInv'
  BY StepObeys, StepInv DEF SynchInv
<1>2. /\ STypeOK /\ WaitersParked /\ EventBroadcast /\ AllSatisfiableReleased
      /\ InLibrary /\ SchedulerInv /\ alloc \subseteq Threads
  BY DEF SynchInv, SchedulerInv, TypeOK
<1>3. CASE Main_step
  <2>1. Parked' = Parked /\ alloc' = alloc
    BY <1>2, <1>3, ParkedMain DEF Main_step
  <2>2. \A t \in Threads : pc[t] \notin {"event_set", "sem_post"}
    <3>1. main_pc # "run" \/ running_thread \notin Threads
      BY <1>3, ThreadsAssumption
      DEF Main_step, ut_init, ut_run, ut_run_return, ut_run_abort, Aborted
    <3> QED BY <3>1, NobodyReleases
  <2>3. CASE Threads = {}
    <3>1. UNCHANGED <<evvars, semvars, pc>>
      BY <1>3 DEF Main_step
    <3> QED
      BY <1>1, <1>2, <2>1, <2>3, <3>1
      DEF SynchInv, STypeOK, WaitersParked, EventBroadcast,
          AllSatisfiableReleased, InLibrary, evvars, semvars
  <2>4. ASSUME NEW t \in Threads PROVE SynchParts'
    BY <1>3, <2>1, <2>2, FrameStep DEF Main_step
  <2>5. CASE Threads # {}
    BY <1>1, <2>4, <2>5 DEF SynchParts, SynchInv
  <2> QED BY <2>3, <2>5
<1>4. ASSUME NEW t \in Threads, create(t) \/ exit(t) \/ yield(t)
      PROVE  SynchParts'
  <2>1. Parked' = Parked
    BY <1>2, <1>4, ParkedStep DEF create, exit, yield
  <2>2. \A s \in Threads : pc[s] \notin {"event_set", "sem_post"}
    BY <1>4, NobodyReleases DEF create, exit, yield
  <2>3. CASE create(t)
    <3>1. t \notin Parked /\ alloc' = alloc \cup {t}
      BY <2>3 DEF create, ut_create, Parked
    <3>2. pc'[t] = "user"
      BY <1>2, <2>3 DEF create, goto, STypeOK
    <3> QED
      BY <2>1, <2>2, <2>3, <3>1, <3>2, FrameStep DEF create, goto
  <2>4. CASE exit(t)
    <3>1. alloc' = alloc \ {t} /\ pc' = pc /\ pc[t] = "user"
      BY <2>4 DEF exit, ut_exit, UserCode
    <3> QED BY <2>1, <2>2, <2>4, <3>1, FrameStep DEF exit
  <2>5. CASE yield(t)
    <3>1. alloc' = alloc /\ pc' = pc
      BY <2>5 DEF yield, ut_yield
    <3> QED BY <2>1, <2>2, <2>5, <3>1, FrameStep DEF yield
  <2> QED BY <1>4, <2>3, <2>4, <2>5
<1>5. ASSUME NEW t \in Threads, event_wait(t) \/ event_set(t) \/ LibraryStep(t)
      PROVE  SynchParts'
  BY <1>5, EventWaitStep, LocalSteps, ReleaseStep DEF LibraryStep
<1>6. ASSUME NEW t \in Threads, NEW n \in Requests,
             sem_wait_take(t, n) \/ sem_wait_block(t, n)
      PROVE  SynchParts'
  BY <1>6, SemWaitStep, LocalSteps
<1>7. ASSUME NEW t \in Threads, NEW n \in Posts, sem_post(t, n)
      PROVE  SynchParts'
  BY <1>7, LocalSteps
<1>8. CASE UNCHANGED svars
  BY <1>1, <1>2, <1>8
  DEF svars, uvars, evvars, semvars, SynchInv, STypeOK, WaitersParked, Parked,
      EventBroadcast, AllSatisfiableReleased, InLibrary, Running
<1> QED
  BY <1>1, <1>3, <1>4, <1>5, <1>6, <1>7, <1>8 DEF SNext, SynchParts, SynchInv

LEMMA SynchInitInv == SInit => SynchInv
<1> SUFFICES ASSUME SInit PROVE SynchInv
  OBVIOUS
<1>1. SchedulerInv
  BY InitInv DEF SInit
<1>2. <<>> \in Seq(Threads) /\ Range(<<>>) = {}
  BY EmptyQueue
<1>3. Parked = {}
  BY DEF SInit, Init, Parked
<1>4. STypeOK
  BY <1>2, SemAssumption DEF SInit, event_init, sem_init, STypeOK
<1>5. WaitersParked
  BY <1>2, <1>3 DEF SInit, event_init, sem_init, WaitersParked
<1>6. EventBroadcast /\ AllSatisfiableReleased /\ InLibrary
  BY DEF SInit, Init, event_init, sem_init, EventBroadcast,
         AllSatisfiableReleased, InLibrary
<1> QED BY <1>1, <1>4, <1>5, <1>6 DEF SynchInv

\* The semaphore's queue changes at its ends only.
LEMMA StepKeepsOrder == SynchInv /\ [SNext]_svars => [KeepsOrder]_svars
<1> SUFFICES ASSUME SynchInv, SNext PROVE KeepsOrder
  OBVIOUS
<1>1. /\ sem_waiters \in Seq(Threads) /\ Distinct(sem_waiters)
      /\ units \in 0..Limit /\ req \in [Threads -> Nat]
  BY DEF SynchInv, STypeOK, WaitersParked, Distinct
<1>2. \A i \in 1..Len(sem_waiters) : sem_waiters[i] \in Range(sem_waiters)
  BY <1>1, RangeIsElements
<1>3. ASSUME UNCHANGED sem_waiters, units' \in Int,
             units' >= units \/ sem_waiters = <<>>
      PROVE  KeepsOrder
  BY <1>1, <1>2, <1>3 DEF KeepsOrder
<1>4. ASSUME NEW t \in Threads, NEW n \in Requests, sem_wait_block(t, n)
      PROVE  KeepsOrder
  <2>1. Range(sem_waiters') = Range(sem_waiters) \cup {t} /\ units' = units
    BY <1>1, <1>4, AppendQueue DEF sem_wait_block
  <2> QED BY <1>1, <1>2, <2>1 DEF KeepsOrder
<1>5. ASSUME NEW t \in Threads, sem_post_loop(t)
      PROVE  KeepsOrder
  <2>1. sem_waiters # <<>> /\ sem_waiters' = Tail(sem_waiters)
    BY <1>5 DEF sem_post_loop, CanRelease
  <2>2. /\ Range(sem_waiters') = Range(sem_waiters) \ {Head(sem_waiters)}
        /\ Head(sem_waiters) = sem_waiters[1]
    BY <1>1, <2>1, TailQueue
  <2>3. ASSUME NEW i \in 1..Len(sem_waiters), NEW j \in 1..Len(sem_waiters),
               i < j, sem_waiters[j] \notin Range(sem_waiters')
        PROVE  FALSE
    <3>1. sem_waiters[j] = sem_waiters[1]
      BY <1>2, <2>2, <2>3
    <3>2. 1 \in 1..Len(sem_waiters)
      BY <1>1, <2>1
    <3>3. j = 1
      BY <1>1, <3>1, <3>2 DEF Distinct
    <3> QED BY <2>3, <3>3
  <2> QED BY <2>1, <2>3 DEF KeepsOrder
<1>6. ASSUME NEW t \in Threads, NEW n \in Posts, sem_post(t, n)
      PROVE  KeepsOrder
  BY <1>1, <1>3, <1>6, SemAssumption DEF sem_post, AddUnits
<1>7. ASSUME NEW t \in Threads, NEW n \in Requests, sem_wait_take(t, n)
      PROVE  KeepsOrder
  BY <1>1, <1>3, <1>7, SemAssumption DEF sem_wait_take
<1>8. ASSUME Main_step \/ \E t \in Threads : \/ create(t) \/ exit(t) \/ yield(t)
                                         \/ event_wait(t) \/ event_set(t)
                                         \/ wait_return(t)
                                         \/ event_set_loop(t)
                                         \/ event_set_return(t)
                                         \/ sem_post_return(t)
      PROVE  KeepsOrder
  <2>1. UNCHANGED semvars
    BY <1>8
    DEF Main_step, create, exit, yield, event_wait, event_set, wait_return,
        event_set_loop, event_set_return, sem_post_return
  <2> QED BY <1>1, <1>3, <2>1 DEF semvars
<1> QED
  BY <1>4, <1>5, <1>6, <1>7, <1>8 DEF SNext, LibraryStep

-----------------------------------------------------------------------------

\* The inductive invariant holds in every reachable state, whatever calls the
\* threads make.
THEOREM SynchInvariant == SSpec => []SynchInv
BY SynchInitInv, SynchStepInv, PTL DEF SSpec

\* event.c and semaphore.c lose no thread and leave no wait block dangling; a
\* set releases every waiter, and a post every request that comes first and
\* can be satisfied.
THEOREM SynchronizersAreSafe == SSpec => []SynchSafe
<1>1. SynchInv => SynchSafe
  BY DEF SynchInv, SynchSafe
<1> QED BY <1>1, SynchInvariant, PTL

\* Each ut_activate of event_set and sem_post names a parked thread: the
\* synchronizers are clients that the scheduler's specification allows.
THEOREM SynchronizersObeyScheduler == SSpec => ObeysScheduler
<1>1. SInit => Init
  BY DEF SInit
<1> QED BY <1>1, StepObeys, SynchInvariant, PTL DEF SSpec, ObeysScheduler, Spec

\* With the synchronizers in use the scheduler keeps all that it promises.
THEOREM SchedulerSafeInUse == SSpec => []SchedulerSafe
<1>1. SSpec => Spec
  BY SynchronizersObeyScheduler DEF ObeysScheduler
<1> QED BY <1>1, SchedulerIsSafe, PTL

\* sem_wait and sem_post serve the queue of a semaphore in its order.
THEOREM NobodyOvertakes == SSpec => NoOvertaking
BY StepKeepsOrder, SynchInvariant, PTL DEF SSpec, NoOvertaking

-----------------------------------------------------------------------------
(***************************************************************************)
(* The intrusive list                                                      *)
(***************************************************************************)

\* The node at position i of the circle of head h that holds s.
Place(s, h, i) == IF i \in 1..Len(s) THEN s[i] ELSE h

\* The pointers nx and pv spell out s around h.
Spelled(s, h, nx, pv) ==
    \A i \in 0..Len(s) :
        /\ nx[Place(s, h, i)] = Place(s, h, i + 1)
        /\ pv[Place(s, h, i + 1)] = Place(s, h, i)

\* t is s with e after position i, or without position i.
Inserted(s, i, e, t) ==
    /\ t \in Seq(Entries) /\ Len(t) = Len(s) + 1
    /\ \A j \in 1..Len(t) :
          t[j] = IF j <= i THEN s[j] ELSE IF j = i + 1 THEN e ELSE s[j - 1]

Removed(s, i, t) ==
    /\ t \in Seq(Entries) /\ Len(t) = Len(s) - 1
    /\ \A j \in 1..Len(t) : t[j] = IF j < i THEN s[j] ELSE s[j + 1]

\* The elements of a concatenation.
LEMMA Joined ==
    ASSUME NEW S, NEW a \in Seq(S), NEW b \in Seq(S), NEW c, c = a \o b
    PROVE  /\ c \in Seq(S) /\ Len(c) = Len(a) + Len(b)
           /\ \A j \in 1..(Len(a) + Len(b)) :
                 c[j] = IF j <= Len(a) THEN a[j] ELSE b[j - Len(a)]
OBVIOUS

\* What the operations do to the sequence.
LEMMA SequenceInserts ==
    ASSUME NEW s \in Seq(Entries), NEW e \in Entries
    PROVE  /\ Inserted(s, Len(s), e, Append(s, e))
           /\ Inserted(s, 0, e, <<e>> \o s)
           /\ \A i \in 1..Len(s) :
                 Inserted(s, i, e, SubSeq(s, 1, i) \o <<e>> \o SubSeq(s, i + 1, Len(s)))
<1>1. Inserted(s, Len(s), e, Append(s, e))
  BY DEF Inserted
<1>2. Inserted(s, 0, e, <<e>> \o s)
  BY DEF Inserted
<1>3. ASSUME NEW i \in 1..Len(s)
      PROVE  Inserted(s, i, e, SubSeq(s, 1, i) \o <<e>> \o SubSeq(s, i + 1, Len(s)))
  <2> DEFINE a == SubSeq(s, 1, i)
             b == SubSeq(s, i + 1, Len(s))
             c == a \o <<e>>
             t == c \o b
  <2>1. a \in Seq(Entries) /\ Len(a) = i /\ \A j \in 1..i : a[j] = s[j]
    OBVIOUS
  <2>2. /\ b \in Seq(Entries) /\ Len(b) = Len(s) - i
        /\ \A j \in 1..(Len(s) - i) : b[j] = s[i + j]
    OBVIOUS
  <2> HIDE DEF a, b
  <2>3. /\ c \in Seq(Entries) /\ Len(c) = i + 1
        /\ \A j \in 1..(i + 1) : c[j] = IF j <= i THEN s[j] ELSE e
    BY <2>1
  <2> HIDE DEF c
  <2>4. /\ t \in Seq(Entries) /\ Len(t) = Len(c) + Len(b)
        /\ \A j \in 1..(Len(c) + Len(b)) :
              t[j] = IF j <= Len(c) THEN c[j] ELSE b[j - Len(c)]
    <3>1. c \in Seq(Entries) /\ b \in Seq(Entries)
      BY <2>2, <2>3
    <3> QED BY <3>1, Joined
  <2> HIDE DEF t
  <2>5. Len(c) + Len(b) = Len(s) + 1 /\ Len(t) = Len(s) + 1
    BY <2>2, <2>3, <2>4
  <2>6. ASSUME NEW j \in 1..(Len(s) + 1)
        PROVE  t[j] = IF j <= i THEN s[j] ELSE IF j = i + 1 THEN e ELSE s[j - 1]
    <3>1. CASE j <= i + 1
      <4>1. t[j] = c[j] /\ j \in 1..(i + 1)
        BY <2>3, <2>4, <2>5, <3>1
      <4> QED BY <2>3, <3>1, <4>1
    <3>2. CASE j > i + 1
      <4>1. j - (i + 1) \in 1..(Len(s) - i) /\ i + (j - (i + 1)) = j - 1
        BY <3>2
      <4>2. b[j - (i + 1)] = s[j - 1]
        BY <2>2, <4>1
      <4>3. t[j] = b[j - (i + 1)] /\ ~(j <= i) /\ j # i + 1
        BY <2>3, <2>4, <2>5, <3>2
      <4> QED BY <4>2, <4>3
    <3> QED BY <3>1, <3>2
  <2>7. Inserted(s, i, e, t)
    BY <2>4, <2>5, <2>6 DEF Inserted
  <2> QED BY <2>7 DEF t, c, a, b
<1> QED BY <1>1, <1>2, <1>3

LEMMA SequenceRemoves ==
    ASSUME NEW s \in Seq(Entries)
    PROVE  /\ \A i \in 1..Len(s) : Removed(s, i, Without(s, i))
           /\ s = <<>> => Without(s, 1) = <<>> /\ Without(s, Len(s)) = <<>>
<1>1. ASSUME NEW i \in 1..Len(s)
      PROVE  Removed(s, i, Without(s, i))
  <2> DEFINE a == SubSeq(s, 1, i - 1)
             b == SubSeq(s, i + 1, Len(s))
             t == a \o b
  <2>1. a \in Seq(Entries) /\ Len(a) = i - 1 /\ \A j \in 1..(i - 1) : a[j] = s[j]
    OBVIOUS
  <2>2. /\ b \in Seq(Entries) /\ Len(b) = Len(s) - i
        /\ \A j \in 1..(Len(s) - i) : b[j] = s[i + j]
    OBVIOUS
  <2>3. Without(s, i) = t
    BY DEF Without
  <2> HIDE DEF a, b
  <2>4. /\ t \in Seq(Entries) /\ Len(t) = Len(a) + Len(b)
        /\ \A j \in 1..(Len(a) + Len(b)) :
              t[j] = IF j <= Len(a) THEN a[j] ELSE b[j - Len(a)]
    <3>1. a \in Seq(Entries) /\ b \in Seq(Entries)
      BY <2>1, <2>2
    <3> QED BY <3>1, Joined
  <2> HIDE DEF t
  <2>5. Len(a) + Len(b) = Len(s) - 1 /\ Len(t) = Len(s) - 1
    BY <2>1, <2>2, <2>4
  <2>6. ASSUME NEW j \in 1..(Len(s) - 1)
        PROVE  t[j] = IF j < i THEN s[j] ELSE s[j + 1]
    <3>1. CASE j < i
      <4>1. t[j] = a[j] /\ j \in 1..(i - 1)
        BY <2>1, <2>4, <2>5, <3>1
      <4> QED BY <2>1, <3>1, <4>1
    <3>2. CASE j >= i
      <4>1. j - (i - 1) \in 1..(Len(s) - i) /\ i + (j - (i - 1)) = j + 1
        BY <3>2
      <4>2. b[j - (i - 1)] = s[j + 1]
        BY <2>2, <4>1
      <4>3. t[j] = b[j - (i - 1)] /\ ~(j < i)
        BY <2>1, <2>4, <2>5, <3>2
      <4> QED BY <4>2, <4>3
    <3> QED BY <3>1, <3>2
  <2> QED BY <2>3, <2>4, <2>5, <2>6 DEF Removed
<1>2. ASSUME s = <<>>
      PROVE  Without(s, 1) = <<>> /\ Without(s, Len(s)) = <<>>
  <2>1. /\ SubSeq(s, 1, 0) = <<>> /\ SubSeq(s, 2, 0) = <<>>
        /\ SubSeq(s, 1, -1) = <<>> /\ Len(s) = 0
    BY <1>2
  <2> QED BY <2>1 DEF Without
<1> QED BY <1>1, <1>2

\* The elements of the longer and of the shorter sequence.
LEMMA InsertedElements ==
    ASSUME NEW s \in Seq(Entries), Distinct(s), NEW e \in Entries,
           \A k \in 1..Len(s) : s[k] # e,
           NEW i \in 0..Len(s), NEW t, Inserted(s, i, e, t)
    PROVE  /\ t \in Seq(Entries) /\ Distinct(t)
           /\ \A k \in 1..Len(t) : t[k] = e \/ \E m \in 1..Len(s) : t[k] = s[m]
<1> DEFINE From(k) == IF k <= i THEN k ELSE k - 1
<1>1. /\ t \in Seq(Entries) /\ Len(t) = Len(s) + 1 /\ Len(s) \in Nat
      /\ \A k \in 1..Len(t) :
            t[k] = IF k <= i THEN s[k] ELSE IF k = i + 1 THEN e ELSE s[k - 1]
  BY DEF Inserted
<1>2. \A k \in 1..Len(t) : k # i + 1 => From(k) \in 1..Len(s) /\ t[k] = s[From(k)]
  BY <1>1
<1>3. t[i + 1] = e /\ i + 1 \in 1..Len(t)
  BY <1>1
<1>4. \A j, k \in 1..Len(t) : j # i + 1 /\ k # i + 1 /\ From(j) = From(k) => j = k
  BY <1>1
<1> HIDE DEF From
<1>5. ASSUME NEW j \in 1..Len(t), NEW k \in 1..Len(t), t[j] = t[k]
      PROVE  j = k
  <2>1. \A m \in 1..Len(t) : t[m] = e => m = i + 1
    BY <1>2
  <2>2. CASE j = i + 1 \/ k = i + 1
    BY <1>3, <1>5, <2>1, <2>2
  <2>3. CASE j # i + 1 /\ k # i + 1
    <3>1. From(j) = From(k)
      BY <1>2, <1>5, <2>3 DEF Distinct
    <3> QED BY <1>4, <2>3, <3>1
  <2> QED BY <2>2, <2>3
<1> QED BY <1>1, <1>2, <1>3, <1>5 DEF Distinct

LEMMA RemovedElements ==
    ASSUME NEW s \in Seq(Entries), Distinct(s), NEW i \in 1..Len(s),
           NEW t, Removed(s, i, t)
    PROVE  /\ t \in Seq(Entries) /\ Distinct(t)
           /\ \A k \in 1..Len(t) : \E m \in 1..Len(s) : t[k] = s[m]
<1> DEFINE From(k) == IF k < i THEN k ELSE k + 1
<1>1. /\ t \in Seq(Entries) /\ Len(t) = Len(s) - 1 /\ Len(s) \in Nat
      /\ \A k \in 1..Len(t) : t[k] = IF k < i THEN s[k] ELSE s[k + 1]
  BY DEF Removed
<1>2. \A k \in 1..Len(t) : From(k) \in 1..Len(s) /\ t[k] = s[From(k)]
  BY <1>1
<1>3. \A j, k \in 1..Len(t) : From(j) = From(k) => j = k
  BY <1>1
<1> HIDE DEF From
<1>4. Distinct(t)
  BY <1>2, <1>3 DEF Distinct
<1> QED BY <1>1, <1>2, <1>4

\* The positions of the circle hold different nodes.
LEMMA PlacesDiffer ==
    ASSUME NEW s \in Seq(Entries), Distinct(s), NEW h \in Heads
    PROVE  /\ \A i, j \in 0..Len(s) : Place(s, h, i) = Place(s, h, j) => i = j
           /\ \A i, j \in 1..(Len(s) + 1) : Place(s, h, i) = Place(s, h, j) => i = j
           /\ \A i \in 0..(Len(s) + 1) : Place(s, h, i) \in Nodes
           /\ \A e \in Entries : (\A i \in 1..Len(s) : s[i] # e) =>
                 \A i \in 0..(Len(s) + 1) : Place(s, h, i) # e
<1>1. Len(s) \in Nat /\ \A i \in 1..Len(s) : s[i] \in Entries /\ s[i] # h
  BY ListAssumption
<1>2. \A e \in Entries : e # h /\ e \in Nodes
  BY ListAssumption DEF Nodes
<1> QED BY <1>1, <1>2 DEF Place, Distinct, Nodes

\* The two assignments that link e after position i, and those that unlink
\* position i.
Links(s, h, i, e, nx, pv, nx2, pv2) ==
    /\ nx2 = [nx EXCEPT ![e] = Place(s, h, i + 1), ![Place(s, h, i)] = e]
    /\ pv2 = [pv EXCEPT ![e] = Place(s, h, i), ![Place(s, h, i + 1)] = e]

Unlinks(s, h, i, nx, pv, nx2, pv2) ==
    /\ nx2 = [nx EXCEPT ![Place(s, h, i - 1)] = Place(s, h, i + 1)]
    /\ pv2 = [pv EXCEPT ![Place(s, h, i + 1)] = Place(s, h, i - 1)]

Pointers == [Nodes -> Nodes \cup {Garbage}]

\* Linking e after position i spells out the longer sequence, and changes no
\* other node.
LEMMA LinkSpells ==
    ASSUME NEW s \in Seq(Entries), Distinct(s), NEW h \in Heads, NEW e \in Entries,
           \A k \in 1..Len(s) : s[k] # e,
           NEW i \in 0..Len(s), NEW t, Inserted(s, i, e, t),
           NEW nx \in Pointers, NEW pv \in Pointers, NEW nx2, NEW pv2,
           Links(s, h, i, e, nx, pv, nx2, pv2), Spelled(s, h, nx, pv)
    PROVE  /\ nx2 \in Pointers /\ pv2 \in Pointers /\ Spelled(t, h, nx2, pv2)
           /\ \A n \in Nodes : n # e /\ (\A k \in 0..(Len(s) + 1) : n # Place(s, h, k))
                 => nx2[n] = nx[n] /\ pv2[n] = pv[n]
<1> DEFINE P(j) == Place(s, h, j)
<1>1. /\ Len(s) \in Nat /\ e \in Nodes /\ \A j \in 0..(Len(s) + 1) : P(j) \in Nodes /\ P(j) # e
      /\ \A j, k \in 0..Len(s) : P(j) = P(k) => j = k
      /\ \A j, k \in 1..(Len(s) + 1) : P(j) = P(k) => j = k
  BY PlacesDiffer DEF Nodes
<1>2. i \in 0..Len(s) /\ i + 1 \in 1..(Len(s) + 1) /\ i \in 0..(Len(s) + 1) /\ i + 1 \in 0..(Len(s) + 1)
  BY <1>1
<1>3. /\ nx2[e] = P(i + 1) /\ nx2[P(i)] = e
      /\ \A n \in Nodes : n # e /\ n # P(i) => nx2[n] = nx[n]
      /\ pv2[e] = P(i) /\ pv2[P(i + 1)] = e
      /\ \A n \in Nodes : n # e /\ n # P(i + 1) => pv2[n] = pv[n]
  BY <1>1, <1>2 DEF Links, Pointers
<1>4. nx2 \in Pointers /\ pv2 \in Pointers
  BY <1>1, <1>2 DEF Links, Pointers
<1> HIDE DEF P
<1>5. /\ Len(t) = Len(s) + 1
      /\ \A j \in 0..(Len(s) + 2) :
            Place(t, h, j) = IF j <= i THEN P(j) ELSE IF j = i + 1 THEN e ELSE P(j - 1)
  BY <1>1 DEF Inserted, Place, P
<1>6. ASSUME NEW j \in 0..(Len(s) + 1)
      PROVE  /\ nx2[Place(t, h, j)] = Place(t, h, j + 1)
             /\ pv2[Place(t, h, j + 1)] = Place(t, h, j)
  <2>1. \A k \in 0..Len(s) : nx[P(k)] = P(k + 1) /\ pv[P(k + 1)] = P(k)
    BY DEF Spelled, P
  <2>2. CASE j < i
    <3>1. /\ Place(t, h, j) = P(j) /\ Place(t, h, j + 1) = P(j + 1)
          /\ j \in 0..Len(s) /\ j + 1 \in 1..(Len(s) + 1) /\ j + 1 # i + 1
          /\ j \in 0..(Len(s) + 1) /\ j + 1 \in 0..(Len(s) + 1)
      BY <1>1, <1>5, <2>2
    <3>2. P(j) # P(i) /\ P(j + 1) # P(i + 1)
      BY <1>1, <1>2, <2>2, <3>1
    <3> QED BY <1>1, <1>3, <2>1, <3>1, <3>2
  <2>3. CASE j = i
    <3>1. Place(t, h, j) = P(i) /\ Place(t, h, j + 1) = e
      BY <1>1, <1>5, <2>3
    <3> QED BY <1>3, <3>1
  <2>4. CASE j = i + 1
    <3>1. Place(t, h, j) = e /\ Place(t, h, j + 1) = P(i + 1)
      BY <1>1, <1>5, <2>4
    <3> QED BY <1>3, <3>1
  <2>5. CASE j > i + 1
    <3>1. /\ Place(t, h, j) = P(j - 1) /\ Place(t, h, j + 1) = P((j - 1) + 1)
          /\ j - 1 \in 0..Len(s) /\ (j - 1) + 1 \in 1..(Len(s) + 1)
          /\ j - 1 \in 0..(Len(s) + 1) /\ (j - 1) + 1 \in 0..(Len(s) + 1)
          /\ j - 1 # i /\ (j - 1) + 1 # i + 1
      BY <1>1, <1>5, <2>5
    <3>2. P(j - 1) # P(i) /\ P((j - 1) + 1) # P(i + 1)
      BY <1>1, <1>2, <3>1
    <3> QED BY <1>1, <1>3, <2>1, <3>1, <3>2
  <2> QED BY <1>1, <2>2, <2>3, <2>4, <2>5
<1>7. Spelled(t, h, nx2, pv2)
  BY <1>5, <1>6 DEF Spelled
<1> QED BY <1>2, <1>3, <1>4, <1>7 DEF P

\* Unlinking position i spells out the shorter sequence, and changes no other
\* node.
LEMMA UnlinkSpells ==
    ASSUME NEW s \in Seq(Entries), Distinct(s), NEW h \in Heads,
           NEW i \in 1..Len(s), NEW t, Removed(s, i, t),
           NEW nx \in Pointers, NEW pv \in Pointers, NEW nx2, NEW pv2,
           Unlinks(s, h, i, nx, pv, nx2, pv2), Spelled(s, h, nx, pv)
    PROVE  /\ nx2 \in Pointers /\ pv2 \in Pointers /\ Spelled(t, h, nx2, pv2)
           /\ \A n \in Nodes : (\A k \in 0..(Len(s) + 1) : n # Place(s, h, k))
                 => nx2[n] = nx[n] /\ pv2[n] = pv[n]
<1> DEFINE P(j) == Place(s, h, j)
<1>1. /\ Len(s) \in Nat /\ \A j \in 0..(Len(s) + 1) : P(j) \in Nodes
      /\ \A j, k \in 0..Len(s) : P(j) = P(k) => j = k
      /\ \A j, k \in 1..(Len(s) + 1) : P(j) = P(k) => j = k
  BY PlacesDiffer
<1>2. /\ i - 1 \in 0..Len(s) /\ i + 1 \in 1..(Len(s) + 1)
      /\ i - 1 \in 0..(Len(s) + 1) /\ i + 1 \in 0..(Len(s) + 1) /\ (i - 1) + 1 = i
  BY <1>1
<1>3. /\ nx2[P(i - 1)] = P(i + 1) /\ \A n \in Nodes : n # P(i - 1) => nx2[n] = nx[n]
      /\ pv2[P(i + 1)] = P(i - 1) /\ \A n \in Nodes : n # P(i + 1) => pv2[n] = pv[n]
  BY <1>1, <1>2 DEF Unlinks, Pointers
<1>4. nx2 \in Pointers /\ pv2 \in Pointers
  BY <1>1, <1>2 DEF Unlinks, Pointers
<1> HIDE DEF P
<1>5. /\ Len(t) = Len(s) - 1
      /\ \A j \in 0..Len(s) : Place(t, h, j) = IF j < i THEN P(j) ELSE P(j + 1)
  BY <1>1 DEF Removed, Place, P
<1>6. ASSUME NEW j \in 0..(Len(s) - 1)
      PROVE  /\ nx2[Place(t, h, j)] = Place(t, h, j + 1)
             /\ pv2[Place(t, h, j + 1)] = Place(t, h, j)
  <2>1. \A k \in 0..Len(s) : nx[P(k)] = P(k + 1) /\ pv[P(k + 1)] = P(k)
    BY DEF Spelled, P
  <2>2. CASE j < i - 1
    <3>1. /\ Place(t, h, j) = P(j) /\ Place(t, h, j + 1) = P(j + 1)
          /\ j \in 0..Len(s) /\ j + 1 \in 1..(Len(s) + 1) /\ j + 1 # i + 1
          /\ j \in 0..(Len(s) + 1) /\ j + 1 \in 0..(Len(s) + 1)
      BY <1>1, <1>5, <2>2
    <3>2. P(j) # P(i - 1) /\ P(j + 1) # P(i + 1)
      BY <1>1, <1>2, <2>2, <3>1
    <3> QED BY <1>1, <1>3, <2>1, <3>1, <3>2
  <2>3. CASE j = i - 1
    <3>1. Place(t, h, j) = P(i - 1) /\ Place(t, h, j + 1) = P(i + 1)
      BY <1>1, <1>5, <2>3
    <3> QED BY <1>3, <3>1
  <2>4. CASE j >= i
    <3>1. /\ Place(t, h, j) = P(j + 1) /\ Place(t, h, j + 1) = P((j + 1) + 1)
          /\ j + 1 \in 0..Len(s) /\ (j + 1) + 1 \in 1..(Len(s) + 1)
          /\ j + 1 \in 0..(Len(s) + 1) /\ (j + 1) + 1 \in 0..(Len(s) + 1)
          /\ j + 1 # i - 1 /\ (j + 1) + 1 # i + 1
      BY <1>1, <1>5, <2>4
    <3>2. P(j + 1) # P(i - 1) /\ P((j + 1) + 1) # P(i + 1)
      BY <1>1, <1>2, <3>1
    <3> QED BY <1>1, <1>3, <2>1, <3>1, <3>2
  <2> QED BY <1>1, <2>2, <2>3, <2>4
<1>7. Spelled(t, h, nx2, pv2)
  BY <1>5, <1>6 DEF Spelled
<1> QED BY <1>2, <1>3, <1>4, <1>7 DEF P

\* The invariant, by circles.
LEMMA ListParts ==
    ASSUME ListInv
    PROVE  /\ next \in Pointers /\ prev \in Pointers
           /\ DOMAIN lists \subseteq Heads
           /\ \A h \in DOMAIN lists :
                 /\ h \in Heads /\ lists[h] \in Seq(Entries) /\ Distinct(lists[h])
                 /\ Spelled(lists[h], h, next, prev)
                 /\ \A g \in DOMAIN lists : g # h =>
                       \A j \in 0..(Len(lists[g]) + 1), k \in 0..(Len(lists[h]) + 1) :
                          Place(lists[g], g, j) # Place(lists[h], h, k)
<1>1. LTypeOK /\ Circular /\ Disjoint
  BY DEF ListInv
<1>2. \A h \in DOMAIN lists :
        /\ h \in Heads /\ lists[h] \in Seq(Entries) /\ Distinct(lists[h])
        /\ Spelled(lists[h], h, next, prev)
  BY <1>1 DEF LTypeOK, Initialised, Circular, Disjoint, Spelled, Place, At, Distinct
<1>3. ASSUME NEW h \in DOMAIN lists, NEW g \in DOMAIN lists, g # h,
             NEW j \in 0..(Len(lists[g]) + 1), NEW k \in 0..(Len(lists[h]) + 1)
      PROVE  Place(lists[g], g, j) # Place(lists[h], h, k)
  <2>1. /\ \A i \in 1..Len(lists[g]) : lists[g][i] # h
        /\ \A i \in 1..Len(lists[h]) : lists[h][i] # g
    BY <1>2, ListAssumption
  <2>2. \A a \in 1..Len(lists[g]), b \in 1..Len(lists[h]) : lists[g][a] # lists[h][b]
    BY <1>1, <1>3 DEF Disjoint, Initialised
  <2> QED BY <1>3, <2>1, <2>2 DEF Place
<1> QED BY <1>1, <1>2, <1>3 DEF LTypeOK, Initialised, Pointers

\* The entries of X are in no list.
Unlisted(X) ==
    /\ X \subseteq Entries
    /\ \A g \in DOMAIN lists : \A k \in 1..Len(lists[g]) : lists[g][k] \notin X

\* t has entries of X and of the list of h.
MadeOf(t, h, X) ==
    \A k \in 1..Len(t) : t[k] \in X \/ \E m \in 1..Len(lists[h]) : t[k] = lists[h][m]

\* The pointers of all nodes outside X and the list of h are as before.
ChangesOnly(h, X, nx2, pv2) ==
    \A n \in Nodes :
        n \notin X /\ (\A k \in 0..(Len(lists[h]) + 1) : n # Place(lists[h], h, k))
        => nx2[n] = next[n] /\ pv2[n] = prev[n]

\* A list becomes t, made of its own entries and of free ones, X: the pointers
\* spell t out, and no node of another list is changed.
LEMMA ChangeKeeps ==
    ASSUME ListInv, NEW h \in DOMAIN lists, NEW t \in Seq(Entries), Distinct(t),
           lists' = [lists EXCEPT ![h] = t], header' = header,
           ret' \in Nodes \cup {Garbage} \cup BOOLEAN,
           next' \in Pointers, prev' \in Pointers, Spelled(t, h, next', prev'),
           NEW X, Unlisted(X), MadeOf(t, h, X), ChangesOnly(h, X, next', prev')
    PROVE  ListInv'
<1>1. LTypeOK /\ Disjoint /\ lists \in [DOMAIN lists -> Seq(Entries)] /\ DOMAIN lists \subseteq Heads
  BY DEF ListInv, LTypeOK, Initialised
<1>2. /\ DOMAIN lists' = DOMAIN lists /\ lists'[h] = t
      /\ \A g \in DOMAIN lists : g # h => lists'[g] = lists[g]
  BY <1>1
<1>3. LTypeOK'
  BY <1>1, <1>2 DEF LTypeOK, Initialised, Pointers
<1>4. ASSUME NEW g \in DOMAIN lists, g # h
      PROVE  Spelled(lists[g], g, next', prev')
  <2>1. /\ lists[g] \in Seq(Entries) /\ g \in Heads /\ Distinct(lists[g])
        /\ Spelled(lists[g], g, next, prev)
        /\ \A j \in 0..(Len(lists[g]) + 1), k \in 0..(Len(lists[h]) + 1) :
              Place(lists[g], g, j) # Place(lists[h], h, k)
    BY <1>4, ListParts
  <2>2. \A k \in 0..(Len(lists[g]) + 1) : Place(lists[g], g, k) \in Nodes
    BY <2>1, PlacesDiffer
  <2>3. \A k \in 0..(Len(lists[g]) + 1) : Place(lists[g], g, k) \notin X
    BY <2>1, ListAssumption DEF Place, Unlisted
  <2>4. \A k \in 0..(Len(lists[g]) + 1) :
           /\ next'[Place(lists[g], g, k)] = next[Place(lists[g], g, k)]
           /\ prev'[Place(lists[g], g, k)] = prev[Place(lists[g], g, k)]
    BY <2>1, <2>2, <2>3 DEF ChangesOnly
  <2>5. \A k \in 0..Len(lists[g]) : k \in 0..(Len(lists[g]) + 1) /\ k + 1 \in 0..(Len(lists[g]) + 1)
    BY <2>1
  <2> QED BY <2>1, <2>4, <2>5 DEF Spelled
<1>5. Circular'
  <2>1. \A g \in DOMAIN lists' : Spelled(lists'[g], g, next', prev')
    BY <1>2, <1>4
  <2> QED BY <2>1 DEF Circular, Initialised, Spelled, Place, At
<1>6. Disjoint'
  <2> SUFFICES ASSUME NEW f \in DOMAIN lists, NEW g \in DOMAIN lists,
                      NEW i \in 1..Len(lists'[f]), NEW j \in 1..Len(lists'[g]),
                      lists'[f][i] = lists'[g][j]
               PROVE  f = g /\ i = j
    BY <1>2 DEF Disjoint, Initialised
  <2>1. \A a, b \in DOMAIN lists : \A k \in 1..Len(lists[a]), m \in 1..Len(lists[b]) :
          lists[a][k] = lists[b][m] => a = b /\ k = m
    BY <1>1 DEF Disjoint, Initialised
  <2>2. CASE f # h /\ g # h
    BY <1>2, <2>1, <2>2
  <2>3. CASE f = h /\ g = h
    BY <1>2, <2>3 DEF Distinct
  <2>4. CASE f = h /\ g # h
    BY <1>2, <2>1, <2>4 DEF MadeOf, Unlisted
  <2>5. CASE f # h /\ g = h
    BY <1>2, <2>1, <2>5 DEF MadeOf, Unlisted
  <2> QED BY <2>2, <2>3, <2>4, <2>5
<1> QED BY <1>3, <1>5, <1>6 DEF ListInv

\* An insertion, wherever and by whichever assignments.
LEMMA InsertKeepsList ==
    ASSUME ListInv, NEW h \in DOMAIN lists, NEW e \in Entries, ~Linked(e),
           NEW i \in 0..Len(lists[h]), NEW t, Inserted(lists[h], i, e, t),
           Links(lists[h], h, i, e, next, prev, next', prev'),
           lists' = [lists EXCEPT ![h] = t], UNCHANGED <<ret, header>>
    PROVE  ListInv'
<1>1. /\ lists[h] \in Seq(Entries) /\ Distinct(lists[h]) /\ h \in Heads
      /\ Spelled(lists[h], h, next, prev) /\ next \in Pointers /\ prev \in Pointers
  BY ListParts
<1>2. \A g \in DOMAIN lists : \A k \in 1..Len(lists[g]) : lists[g][k] # e
  <2> SUFFICES ASSUME NEW g \in DOMAIN lists, NEW k \in 1..Len(lists[g]), lists[g][k] = e
               PROVE  FALSE
    OBVIOUS
  <2>1. lists[g] \in Seq(Entries)
    BY ListParts
  <2>2. e \in Range(lists[g])
    BY <2>1, RangeIsElements
  <2> QED BY <2>2 DEF Linked, Initialised
<1>3. /\ next' \in Pointers /\ prev' \in Pointers /\ Spelled(t, h, next', prev')
      /\ \A n \in Nodes : n # e /\ (\A k \in 0..(Len(lists[h]) + 1) : n # Place(lists[h], h, k))
            => next'[n] = next[n] /\ prev'[n] = prev[n]
  BY <1>1, <1>2, LinkSpells
<1>4. /\ t \in Seq(Entries) /\ Distinct(t)
      /\ \A k \in 1..Len(t) : t[k] = e \/ \E m \in 1..Len(lists[h]) : t[k] = lists[h][m]
  BY <1>1, <1>2, InsertedElements
<1>5. ret' \in Nodes \cup {Garbage} \cup BOOLEAN /\ header' = header
  BY DEF ListInv, LTypeOK
<1>6. Unlisted({e}) /\ MadeOf(t, h, {e}) /\ ChangesOnly(h, {e}, next', prev')
  BY <1>2, <1>3, <1>4 DEF Unlisted, MadeOf, ChangesOnly
<1> QED BY <1>3, <1>4, <1>5, <1>6, ChangeKeeps

\* A removal of the entry at position i, by whichever assignments.
LEMMA RemoveKeepsList ==
    ASSUME ListInv, NEW h \in DOMAIN lists,
           NEW i \in 1..Len(lists[h]), NEW t, Removed(lists[h], i, t),
           Unlinks(lists[h], h, i, next, prev, next', prev'),
           lists' = [lists EXCEPT ![h] = t], header' = header,
           ret' \in Nodes \cup {Garbage} \cup BOOLEAN
    PROVE  ListInv'
<1>1. /\ lists[h] \in Seq(Entries) /\ Distinct(lists[h]) /\ h \in Heads
      /\ Spelled(lists[h], h, next, prev) /\ next \in Pointers /\ prev \in Pointers
  BY ListParts
<1>2. /\ next' \in Pointers /\ prev' \in Pointers /\ Spelled(t, h, next', prev')
      /\ \A n \in Nodes : (\A k \in 0..(Len(lists[h]) + 1) : n # Place(lists[h], h, k))
            => next'[n] = next[n] /\ prev'[n] = prev[n]
  BY <1>1, UnlinkSpells
<1>3. /\ t \in Seq(Entries) /\ Distinct(t)
      /\ \A k \in 1..Len(t) : \E m \in 1..Len(lists[h]) : t[k] = lists[h][m]
  BY <1>1, RemovedElements
<1>4. Unlisted({}) /\ MadeOf(t, h, {}) /\ ChangesOnly(h, {}, next', prev')
  BY <1>2, <1>3 DEF Unlisted, MadeOf, ChangesOnly
<1> QED BY <1>2, <1>3, <1>4, ChangeKeeps

\* Around the circle from its head.
LEMMA AroundHead ==
    ASSUME ListInv, NEW h \in DOMAIN lists
    PROVE  LET s == lists[h]
               P(j) == Place(s, h, j)
           IN  /\ s \in Seq(Entries) /\ Len(s) \in Nat /\ h \in Nodes
               /\ next[h] = P(1) /\ prev[h] = P(Len(s))
               /\ next[h] \in Nodes /\ prev[h] \in Nodes
               /\ next[prev[h]] = h /\ prev[next[h]] = h
               /\ P(0) = h /\ P(Len(s) + 1) = h
               /\ \A i \in 1..Len(s) :
                     /\ P(i) = s[i] /\ s[i] \in Entries /\ s[i] # h
                     /\ next[s[i]] = P(i + 1) /\ prev[s[i]] = P(i - 1)
<1> DEFINE s == lists[h]
           P(j) == Place(s, h, j)
<1>1. s \in Seq(Entries) /\ h \in Heads /\ Spelled(s, h, next, prev) /\ h \in Nodes
  BY ListParts DEF Nodes
<1>2. Len(s) \in Nat /\ P(0) = h /\ P(Len(s) + 1) = h
  BY <1>1 DEF Place
<1>3. \A i \in 0..Len(s) : next[P(i)] = P(i + 1) /\ prev[P(i + 1)] = P(i)
  BY <1>1 DEF Spelled
<1>4. \A i \in 0..(Len(s) + 1) : P(i) \in Nodes
  BY <1>1 DEF Place, Nodes
<1>5. ASSUME NEW i \in 1..Len(s)
      PROVE  /\ P(i) = s[i] /\ s[i] \in Entries /\ s[i] # h
             /\ next[s[i]] = P(i + 1) /\ prev[s[i]] = P(i - 1)
  <2>1. P(i) = s[i] /\ s[i] \in Entries /\ s[i] # h
    BY <1>1, ListAssumption DEF Place
  <2>2. i \in 0..Len(s) /\ i - 1 \in 0..Len(s) /\ (i - 1) + 1 = i
    BY <1>2
  <2>3. next[P(i)] = P(i + 1) /\ prev[P((i - 1) + 1)] = P(i - 1)
    BY <1>3, <2>2
  <2> QED BY <2>1, <2>2, <2>3
<1> HIDE DEF P
<1>6. 0 \in 0..Len(s) /\ Len(s) \in 0..Len(s) /\ 0 + 1 = 1
  BY <1>2
<1>7. next[h] = P(1) /\ prev[P(1)] = h /\ next[P(Len(s))] = h /\ prev[h] = P(Len(s))
  BY <1>2, <1>3, <1>6
<1>8. P(1) \in Nodes /\ P(Len(s)) \in Nodes
  BY <1>2, <1>4
<1> QED BY <1>1, <1>2, <1>5, <1>7, <1>8 DEF P

LEMMA InsertLastKeepsList ==
    ASSUME ListInv, NEW h \in DOMAIN lists, NEW e \in Entries, DoInsertLast(h, e),
           header' = header
    PROVE  ListInv'
<1> DEFINE s == lists[h]
           t == Append(s, e)
<1>1. /\ s \in Seq(Entries) /\ Len(s) \in Nat
      /\ prev[h] = Place(s, h, Len(s)) /\ next[prev[h]] = h /\ Place(s, h, Len(s) + 1) = h
  BY AroundHead
<1>2. Links(s, h, Len(s), e, next, prev, next', prev')
  BY <1>1 DEF Links, DoInsertLast, insert_list_last, insert_list_after, insert_tail_list
<1>3. Inserted(s, Len(s), e, t)
  BY <1>1, SequenceInserts
<1>4. Len(s) \in 0..Len(s)
  BY <1>1
<1>5. ~Linked(e) /\ lists' = [lists EXCEPT ![h] = t] /\ UNCHANGED <<ret, header>>
  BY DEF DoInsertLast
<1> QED BY <1>2, <1>3, <1>4, <1>5, InsertKeepsList

LEMMA InsertFirstKeepsList ==
    ASSUME ListInv, NEW h \in DOMAIN lists, NEW e \in Entries, DoInsertFirst(h, e),
           header' = header
    PROVE  ListInv'
<1> DEFINE s == lists[h]
           t == <<e>> \o s
<1>1. /\ s \in Seq(Entries) /\ Len(s) \in Nat
      /\ next[h] = Place(s, h, 1) /\ Place(s, h, 0) = h
  BY AroundHead
<1>2. Links(s, h, 0, e, next, prev, next', prev')
  BY <1>1 DEF Links, DoInsertFirst, insert_list_first, insert_list_after, insert_head_list
<1>3. Inserted(s, 0, e, t) /\ 0 \in 0..Len(s)
  BY <1>1, SequenceInserts
<1>4. ~Linked(e) /\ lists' = [lists EXCEPT ![h] = t] /\ UNCHANGED <<ret, header>>
  BY DEF DoInsertFirst
<1> QED BY <1>2, <1>3, <1>4, InsertKeepsList

LEMMA InsertAfterKeepsList ==
    ASSUME ListInv, NEW h \in DOMAIN lists, NEW i \in 1..Len(lists[h]),
           NEW e \in Entries, DoInsertAfter(h, i, e), header' = header
    PROVE  ListInv'
<1> DEFINE s == lists[h]
           t == SubSeq(s, 1, i) \o <<e>> \o SubSeq(s, i + 1, Len(s))
<1>1. /\ s \in Seq(Entries) /\ Len(s) \in Nat
      /\ Place(s, h, i) = s[i] /\ next[s[i]] = Place(s, h, i + 1)
  BY AroundHead
<1>2. Links(s, h, i, e, next, prev, next', prev')
  BY <1>1 DEF Links, DoInsertAfter, insert_list_after
<1>3. Inserted(s, i, e, t) /\ i \in 0..Len(s)
  BY <1>1, SequenceInserts
<1>4. ~Linked(e) /\ lists' = [lists EXCEPT ![h] = t] /\ UNCHANGED <<ret, header>>
  BY DEF DoInsertAfter
<1> QED BY <1>2, <1>3, <1>4, InsertKeepsList

LEMMA RemoveEntryKeepsList ==
    ASSUME ListInv, NEW h \in DOMAIN lists, NEW i \in 1..Len(lists[h]),
           DoRemoveEntry(h, i), header' = header
    PROVE  ListInv'
<1> DEFINE s == lists[h]
           t == Without(s, i)
<1>1. /\ s \in Seq(Entries) /\ Len(s) \in Nat
      /\ next[s[i]] = Place(s, h, i + 1) /\ prev[s[i]] = Place(s, h, i - 1)
  BY AroundHead
<1>2. Unlinks(s, h, i, next, prev, next', prev')
  BY <1>1 DEF Unlinks, DoRemoveEntry, remove_list_entry
<1>3. Removed(s, i, t)
  BY <1>1, SequenceRemoves
<1>4. lists' = [lists EXCEPT ![h] = t] /\ ret' \in BOOLEAN
  BY DEF DoRemoveEntry, NeighboursMeet
<1> QED BY <1>2, <1>3, <1>4, RemoveKeepsList

\* On an empty list the removals at the ends assign to the head what it has.
LEMMA EmptyKeepsList ==
    ASSUME ListInv, NEW h \in DOMAIN lists, lists[h] = <<>>,
           next' = next, prev' = prev, header' = header,
           ret' \in Nodes \cup {Garbage} \cup BOOLEAN,
           lists' = [lists EXCEPT ![h] = <<>>]
    PROVE  ListInv'
<1>1. lists' = lists
  BY DEF ListInv, LTypeOK
<1> QED BY <1>1 DEF ListInv, LTypeOK, Initialised, Circular, Disjoint, At

LEMMA RemoveFirstKeepsList ==
    ASSUME ListInv, NEW h \in DOMAIN lists, DoRemoveFirst(h), header' = header
    PROVE  ListInv'
<1> DEFINE s == lists[h]
           t == Without(s, 1)
<1>1. /\ s \in Seq(Entries) /\ Len(s) \in Nat /\ h \in Nodes
      /\ next[h] = Place(s, h, 1) /\ prev[next[h]] = h /\ Place(s, h, 0) = h
      /\ next[h] \in Nodes /\ prev[h] \in Nodes
      /\ \A i \in 1..Len(s) : Place(s, h, i) = s[i] /\ next[s[i]] = Place(s, h, i + 1)
  BY AroundHead
<1>2. lists' = [lists EXCEPT ![h] = t] /\ ret' \in Nodes \cup {Garbage} \cup BOOLEAN
  BY <1>1 DEF DoRemoveFirst
<1>3. /\ next' = [next EXCEPT ![h] = next[next[h]]]
      /\ prev' = [prev EXCEPT ![next[next[h]]] = h]
  BY <1>1 DEF DoRemoveFirst, remove_list_first, remove_list_entry, remove_head_list
<1>4. CASE s = <<>>
  <2>1. t = <<>>
    BY <1>1, <1>4, SequenceRemoves
  <2>2. next[h] = h /\ prev[h] = h
    BY <1>1, <1>4 DEF Place
  <2>3. next \in Pointers /\ prev \in Pointers
    BY ListParts
  <2>4. next' = next /\ prev' = prev
    BY <1>1, <1>3, <2>2, <2>3 DEF Pointers
  <2>5. lists' = [lists EXCEPT ![h] = <<>>]
    BY <1>2, <2>1
  <2> QED BY <1>2, <1>4, <2>4, <2>5, EmptyKeepsList
<1>5. CASE s # <<>>
  <2>1. 1 \in 1..Len(s) /\ 1 - 1 = 0
    BY <1>1, <1>5
  <2>2. next[next[h]] = Place(s, h, 1 + 1)
    BY <1>1, <2>1
  <2>3. Unlinks(s, h, 1, next, prev, next', prev')
    BY <1>1, <1>3, <2>1, <2>2 DEF Unlinks
  <2>4. Removed(s, 1, t)
    BY <1>1, <2>1, SequenceRemoves
  <2> QED BY <1>2, <2>1, <2>3, <2>4, RemoveKeepsList
<1> QED BY <1>4, <1>5

LEMMA RemoveLastKeepsList ==
    ASSUME ListInv, NEW h \in DOMAIN lists, DoRemoveLast(h), header' = header
    PROVE  ListInv'
<1> DEFINE s == lists[h]
           n == Len(s)
           t == Without(s, n)
<1>1. /\ s \in Seq(Entries) /\ Len(s) \in Nat /\ h \in Nodes
      /\ prev[h] = Place(s, h, n) /\ next[prev[h]] = h /\ Place(s, h, n + 1) = h
      /\ next[h] \in Nodes /\ prev[h] \in Nodes /\ next[h] = Place(s, h, 1)
      /\ \A i \in 1..n : Place(s, h, i) = s[i] /\ prev[s[i]] = Place(s, h, i - 1)
  BY AroundHead
<1>2. lists' = [lists EXCEPT ![h] = t] /\ ret' \in Nodes \cup {Garbage} \cup BOOLEAN
  BY <1>1 DEF DoRemoveLast
<1>3. /\ prev' = [prev EXCEPT ![h] = prev[prev[h]]]
      /\ next' = [next EXCEPT ![prev[prev[h]]] = h]
  BY <1>1 DEF DoRemoveLast, remove_list_last, remove_list_entry, remove_tail_list
<1>4. CASE s = <<>>
  <2>1. t = <<>>
    BY <1>1, <1>4, SequenceRemoves
  <2>2. next[h] = h /\ prev[h] = h
    BY <1>1, <1>4 DEF Place
  <2>3. next \in Pointers /\ prev \in Pointers
    BY ListParts
  <2>4. next' = next /\ prev' = prev
    BY <1>1, <1>3, <2>2, <2>3 DEF Pointers
  <2>5. lists' = [lists EXCEPT ![h] = <<>>]
    BY <1>2, <2>1
  <2> QED BY <1>2, <1>4, <2>4, <2>5, EmptyKeepsList
<1>5. CASE s # <<>>
  <2>1. n \in 1..n
    BY <1>1, <1>5
  <2>2. prev[prev[h]] = Place(s, h, n - 1)
    BY <1>1, <2>1
  <2>3. Unlinks(s, h, n, next, prev, next', prev')
    BY <1>1, <1>3, <2>1, <2>2 DEF Unlinks
  <2>4. Removed(s, n, t)
    BY <1>1, <2>1, SequenceRemoves
  <2> QED BY <1>2, <2>1, <2>3, <2>4, RemoveKeepsList
<1> QED BY <1>4, <1>5

\* A new head is an empty circle, and no node of another list.
LEMMA InitKeepsList ==
    ASSUME ListInv, NEW h \in Heads, DoInit(h), header' = header
    PROVE  ListInv'
<1>1. /\ next \in Pointers /\ prev \in Pointers /\ h \in Nodes /\ h \notin DOMAIN lists
      /\ DOMAIN lists \subseteq Heads /\ lists \in [DOMAIN lists -> Seq(Entries)]
  BY ListParts DEF DoInit, Initialised, Nodes, ListInv, LTypeOK
<1>2. /\ DOMAIN lists' = DOMAIN lists \cup {h} /\ lists'[h] = <<>>
      /\ \A g \in DOMAIN lists : lists'[g] = lists[g]
      /\ lists' \in [DOMAIN lists' -> Seq(Entries)] /\ ret' = ret
  BY <1>1 DEF DoInit, Initialised
<1>3. /\ next' \in Pointers /\ prev' \in Pointers /\ next'[h] = h /\ prev'[h] = h
      /\ \A n \in Nodes : n # h => next'[n] = next[n] /\ prev'[n] = prev[n]
  BY <1>1 DEF DoInit, init_list_head, Pointers
<1>4. LTypeOK'
  BY <1>1, <1>2, <1>3 DEF ListInv, LTypeOK, Initialised, Pointers
<1>5. Spelled(<<>>, h, next', prev')
  BY <1>3 DEF Spelled, Place
<1>6. ASSUME NEW g \in DOMAIN lists
      PROVE  Spelled(lists[g], g, next', prev')
  <2>1. /\ lists[g] \in Seq(Entries) /\ Len(lists[g]) \in Nat /\ g \in Heads
        /\ Spelled(lists[g], g, next, prev) /\ Distinct(lists[g])
    BY ListParts
  <2>2. \A k \in 0..(Len(lists[g]) + 1) :
           Place(lists[g], g, k) \in Nodes /\ Place(lists[g], g, k) # h
    BY <1>1, <2>1, ListAssumption DEF Place, Nodes
  <2>3. \A k \in 0..(Len(lists[g]) + 1) :
           /\ next'[Place(lists[g], g, k)] = next[Place(lists[g], g, k)]
           /\ prev'[Place(lists[g], g, k)] = prev[Place(lists[g], g, k)]
    BY <1>3, <2>2
  <2>4. \A k \in 0..Len(lists[g]) : k \in 0..(Len(lists[g]) + 1) /\ k + 1 \in 0..(Len(lists[g]) + 1)
    BY <2>1
  <2> QED BY <2>1, <2>3, <2>4 DEF Spelled
<1>7. Circular'
  <2>1. \A g \in DOMAIN lists' : Spelled(lists'[g], g, next', prev')
    BY <1>2, <1>5, <1>6
  <2> QED BY <2>1 DEF Circular, Initialised, Spelled, Place, At
<1>8. Disjoint'
  BY <1>2 DEF ListInv, Disjoint, Initialised
<1> QED BY <1>4, <1>7, <1>8 DEF ListInv

LEMMA IsEmptyKeepsList ==
    ASSUME ListInv, NEW h \in DOMAIN lists, DoIsEmpty(h), header' = header
    PROVE  ListInv'
BY DEF ListInv, LTypeOK, Initialised, Circular, Disjoint, At, DoIsEmpty, is_list_empty

LEMMA ListInit == LInit => ListInv
BY DEF LInit, ListInv, LTypeOK, Initialised, Circular, Disjoint

LEMMA ListNext == ListInv /\ [LNext]_lvars => ListInv'
<1> SUFFICES ASSUME ListInv, [LNext]_lvars PROVE ListInv'
  OBVIOUS
<1>1. CASE UNCHANGED lvars
  BY <1>1 DEF lvars, ListInv, LTypeOK, Initialised, Circular, Disjoint, At
<1>2. ASSUME header' = header, NEW h \in Heads, DoInit(h) PROVE ListInv'
  BY <1>2, InitKeepsList
<1>3. ASSUME header' = header, NEW h \in DOMAIN lists,
             \/ DoIsEmpty(h)
             \/ DoRemoveFirst(h)
             \/ DoRemoveLast(h)
             \/ \E i \in 1..Len(lists[h]) : DoRemoveEntry(h, i)
      PROVE  ListInv'
  BY <1>3, IsEmptyKeepsList, RemoveFirstKeepsList, RemoveLastKeepsList, RemoveEntryKeepsList
<1>4. ASSUME header' = header, NEW h \in DOMAIN lists, NEW e \in Entries,
             \/ DoInsertLast(h, e)
             \/ DoInsertFirst(h, e)
             \/ \E i \in 1..Len(lists[h]) : DoInsertAfter(h, i, e)
      PROVE  ListInv'
  BY <1>4, InsertLastKeepsList, InsertFirstKeepsList, InsertAfterKeepsList
<1> QED BY <1>1, <1>2, <1>3, <1>4 DEF LNext, Initialised

\* Whatever the lists, the entries and the operations, in either header: each
\* list is a circle through its head that spells out the sequence it is meant
\* to hold, and no entry is in two places.
THEOREM ListIsRight == LSpec => []ListInv
<1>1. LInit => ListInv
  BY ListInit
<1>2. ListInv /\ [LNext]_lvars => ListInv'
  BY ListNext
<1> QED BY <1>1, <1>2, PTL DEF LSpec

\* What the operations report, in a step from a state of circles.
LEMMA StepReturns ==
    ASSUME ListInv, NEW h \in DOMAIN lists
    PROVE  /\ DoIsEmpty(h) => (ret' <=> lists[h] = <<>>)
           /\ \A i \in 1..Len(lists[h]) :
                 DoRemoveEntry(h, i) => (ret' <=> Len(lists[h]) = 1)
           /\ DoRemoveFirst(h) /\ lists[h] # <<>> => ret' = Head(lists[h])
           /\ DoRemoveLast(h) /\ lists[h] # <<>> => ret' = lists[h][Len(lists[h])]
<1> DEFINE s == lists[h]
           n == Len(s)
           P(j) == Place(s, h, j)
<1>1. /\ s \in Seq(Entries) /\ n \in Nat
      /\ next[h] = P(1) /\ prev[h] = P(n) /\ P(0) = h /\ P(n + 1) = h
      /\ \A i \in 1..n : /\ P(i) = s[i] /\ s[i] # h
                         /\ next[s[i]] = P(i + 1) /\ prev[s[i]] = P(i - 1)
  BY AroundHead
<1>2. s = <<>> <=> n = 0
  BY <1>1
<1>3. Distinct(s) /\ h \in Heads
  BY ListParts
<1>4. \A i, j \in 0..n : P(i) = P(j) => i = j
  BY <1>1, <1>3, PlacesDiffer
<1>5. n # 0 => 1 \in 1..n /\ n \in 1..n /\ Head(s) = s[1]
  BY <1>1
<1> HIDE DEF P
<1>6. ASSUME DoIsEmpty(h)
      PROVE  ret' <=> s = <<>>
  <2>1. ret' <=> P(1) = h
    BY <1>1, <1>6 DEF DoIsEmpty, is_list_empty
  <2>2. CASE n = 0
    BY <1>1, <1>2, <2>1, <2>2
  <2>3. CASE n # 0
    BY <1>1, <1>2, <1>5, <2>1, <2>3
  <2> QED BY <2>2, <2>3
<1>7. ASSUME NEW i \in 1..n, DoRemoveEntry(h, i)
      PROVE  ret' <=> n = 1
  <2>1. ret' <=> P(i + 1) = P(i - 1)
    BY <1>1, <1>7 DEF DoRemoveEntry, NeighboursMeet
  <2>2. CASE i = n
    <3>1. P(i + 1) = P(0) /\ 0 \in 0..n /\ i - 1 \in 0..n
      BY <1>1, <2>2
    <3> QED BY <1>1, <1>4, <2>1, <2>2, <3>1
  <2>3. CASE i # n
    <3>1. i + 1 \in 0..n /\ i - 1 \in 0..n /\ n # 1
      BY <1>1, <2>3
    <3> QED BY <1>1, <1>4, <2>1, <3>1
  <2> QED BY <2>2, <2>3
<1>8. DoRemoveFirst(h) /\ s # <<>> => ret' = Head(s)
  BY <1>1, <1>2, <1>5 DEF DoRemoveFirst
<1>9. DoRemoveLast(h) /\ s # <<>> => ret' = s[n]
  BY <1>1, <1>2, <1>5 DEF DoRemoveLast
<1> QED BY <1>6, <1>7, <1>8, <1>9

\* is_list_empty and remove_list_entry report emptiness rightly, and the
\* removals at the ends return the two ends.
THEOREM ReturnsAreRight == LSpec => ReturnsRight
<1>1. ListInv /\ [LNext]_lvars =>
        [ \A h \in Initialised :
          /\ DoIsEmpty(h) => (ret' <=> lists[h] = <<>>)
          /\ \A i \in 1..Len(lists[h]) :
                DoRemoveEntry(h, i) => (ret' <=> Len(lists[h]) = 1)
          /\ DoRemoveFirst(h) /\ lists[h] # <<>> => ret' = Head(lists[h])
          /\ DoRemoveLast(h) /\ lists[h] # <<>> =>
                ret' = lists[h][Len(lists[h])] ]_lvars
  BY StepReturns DEF Initialised
<1> QED BY <1>1, ListIsRight, PTL DEF LSpec, ReturnsRight
=============================================================================
