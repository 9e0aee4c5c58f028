------------------------------ MODULE UThread ------------------------------
(***************************************************************************)
(* The cooperative user-thread scheduler of                                *)
(* 15-uthread-synch/uthreads/uthread/uthread.c and ctxswitch.s.            *)
(*                                                                         *)
(* Everything runs on one operating-system thread: a user thread keeps the *)
(* processor until it calls into the library, so one library call is one   *)
(* step.  The callers are nondeterministic: the main program creates       *)
(* threads and runs the scheduler, and the running thread calls any        *)
(* operation.  Intrusive lists are sequences here; IntrusiveList.tla       *)
(* checks that list.h implements them.                                     *)
(***************************************************************************)
EXTENDS Integers, Sequences, FiniteSets, Functions

CONSTANTS
    Threads,  \* the memory blocks malloc can return for a struct uthread
    Main,     \* the uthread_t on the stack of ut_run, proxy of the OS thread
    NULL

ASSUME ThreadsAssumption ==
    /\ IsFiniteSet(Threads)
    /\ Main \notin Threads
    /\ NULL \notin Threads
    /\ Main # NULL

VARIABLES
    ready_queue,        \* the schedulable threads, first to run at the head
    running_thread,
    main_thread,
    number_of_threads,
    alloc,              \* the blocks currently malloc'ed by ut_create
    saved,              \* the threads whose descriptor points to a context
                        \* that context_switch can pop
    main_pc             \* where the main program is

uvars == <<ready_queue, running_thread, main_thread, number_of_threads,
           alloc, saved, main_pc>>

Init ==
    /\ ready_queue = <<>>
    /\ running_thread = NULL
    /\ main_thread = NULL
    /\ number_of_threads = 0
    /\ alloc = {}
    /\ saved = {}
    /\ main_pc = "boot"

\* A live thread that is neither running nor schedulable: it called
\* ut_deactivate and nobody has activated it since.
Parked == alloc \ (Range(ready_queue) \cup {running_thread})

-----------------------------------------------------------------------------

\* Mutant: takes the thread at the tail.
NextThread_Last(q) == IF q = <<>> THEN main_thread ELSE q[Len(q)]

\* extract_next_thread: the thread returned for a ready queue q.
NextThread(q) == IF q = <<>> THEN main_thread ELSE Head(q)

\* extract_next_thread: what remains in the ready queue.
RestOfQueue(q) == IF q = <<>> THEN q ELSE Tail(q)

\* schedule: context_switch(curr, next) saves curr's context on its stack,
\* makes next the running thread and pops next's saved context.
schedule(curr, q) ==
    /\ ready_queue' = RestOfQueue(q)
    /\ running_thread' = NextThread(q)
    /\ saved' = (saved \cup {curr}) \ {NextThread(q)}

-----------------------------------------------------------------------------

\* The thread t runs user code and can call the library.
Running(t) == main_pc = "run" /\ running_thread = t

\* Code that can call ut_create: the main program or a user thread.
MayCreate ==
    \/ main_pc = "idle"
    \/ main_pc = "run" /\ running_thread \in Threads

\* ut_init, called once before anything else.
ut_init ==
    /\ main_pc = "boot"
    /\ main_pc' = "idle"
    /\ ready_queue' = <<>>
    /\ UNCHANGED <<running_thread, main_thread, number_of_threads, alloc, saved>>

\* Mutant: leaves the initial context unset.
ut_create_NoContext(t) ==
    /\ MayCreate
    /\ t \notin alloc
    /\ alloc' = alloc \cup {t}
    /\ number_of_threads' = number_of_threads + 1
    /\ ready_queue' = Append(ready_queue, t)
    /\ UNCHANGED <<running_thread, main_thread, saved, main_pc>>

\* ut_create, from the main program or from a user thread.  malloc returns
\* any block not in use, a recycled one too; the initial context makes the
\* thread start at internal_start.
ut_create(t) ==
    /\ MayCreate
    /\ t \notin alloc
    /\ alloc' = alloc \cup {t}
    /\ saved' = saved \cup {t}
    /\ number_of_threads' = number_of_threads + 1
    /\ ready_queue' = Append(ready_queue, t)
    /\ UNCHANGED <<running_thread, main_thread, main_pc>>

\* ut_run up to the context switch; with no thread ready it returns at once
\* and changes nothing.
ut_run ==
    /\ main_pc = "idle"
    /\ ready_queue # <<>>
    /\ main_pc' = "run"
    /\ main_thread' = Main
    /\ schedule(Main, ready_queue)
    /\ UNCHANGED <<number_of_threads, alloc>>

\* ut_run after main is switched back in: the two assertions hold.
ut_run_return ==
    /\ main_pc = "run"
    /\ running_thread = Main
    /\ ready_queue = <<>> /\ number_of_threads = 0
    /\ main_pc' = "idle"
    /\ running_thread' = NULL
    /\ main_thread' = NULL
    /\ UNCHANGED <<ready_queue, number_of_threads, alloc, saved>>

\* ut_run after main is switched back in: one of them fails.
ut_run_abort ==
    /\ main_pc = "run"
    /\ running_thread = Main
    /\ ready_queue # <<>> \/ number_of_threads # 0
    /\ main_pc' = "aborted"
    /\ UNCHANGED <<ready_queue, running_thread, main_thread, number_of_threads,
                   alloc, saved>>

\* ut_run called by a user thread: its first assertion fails.
ut_run_nested ==
    /\ main_pc = "run"
    /\ running_thread \in Threads
    /\ main_pc' = "aborted"
    /\ UNCHANGED <<ready_queue, running_thread, main_thread, number_of_threads,
                   alloc, saved>>

\* ut_exit and internal_exit, also reached when internal_start's function
\* returns: switches to the next thread's stack without saving the current
\* context, then internal_cleanup frees the stack and the descriptor.
ut_exit(t) ==
    /\ Running(t)
    /\ number_of_threads' = number_of_threads - 1
    /\ ready_queue' = RestOfQueue(ready_queue)
    /\ running_thread' = NextThread(ready_queue)
    /\ saved' = saved \ {NextThread(ready_queue)}
    /\ alloc' = alloc \ {t}
    /\ UNCHANGED <<main_thread, main_pc>>

\* ut_yield; with no thread ready it returns at once and changes nothing.
ut_yield(t) ==
    /\ Running(t)
    /\ ready_queue # <<>>
    /\ schedule(t, Append(ready_queue, t))
    /\ UNCHANGED <<main_thread, number_of_threads, alloc, main_pc>>

\* ut_deactivate.
ut_deactivate(t) ==
    /\ Running(t)
    /\ schedule(t, ready_queue)
    /\ UNCHANGED <<main_thread, number_of_threads, alloc, main_pc>>

\* ut_activate, called by the running thread; the code checks nothing.
ut_activate(t) ==
    /\ main_pc = "run" /\ running_thread \in Threads
    /\ ready_queue' = Append(ready_queue, t)
    /\ UNCHANGED <<running_thread, main_thread, number_of_threads, alloc,
                   saved, main_pc>>

\* The process has ended in abort().
Aborted == main_pc = "aborted" /\ UNCHANGED uvars

\* A caller of ut_activate must name a parked thread: inserting an intrusive
\* entry a second time would corrupt the ready queue.  USynch.tla shows that
\* the synchronizers obey this.
Next ==
    \/ ut_init
    \/ ut_run
    \/ ut_run_return
    \/ ut_run_abort
    \/ ut_run_nested
    \/ Aborted
    \/ \E t \in Threads :
          \/ ut_create(t)
          \/ ut_exit(t)
          \/ ut_yield(t)
          \/ ut_deactivate(t)
          \/ t \in Parked /\ ut_activate(t)

Spec == Init /\ [][Next]_uvars

-----------------------------------------------------------------------------

\* Types of the scheduler's state; number_of_threads is an unsigned int and
\* must not go below zero.
TypeOK ==
    /\ ready_queue \in Seq(Threads)
    /\ running_thread \in Threads \cup {Main, NULL}
    /\ main_thread \in {Main, NULL}
    /\ number_of_threads \in Nat
    /\ alloc \subseteq Threads
    /\ saved \subseteq Threads \cup {Main}
    /\ main_pc \in {"boot", "idle", "run", "aborted"}

\* The intrusive entry of a thread is linked at most once, and never while
\* the thread runs: every insertion into ready_queue is of an unlinked entry.
ReadyOnce ==
    /\ \A i, j \in 1..Len(ready_queue) :
          ready_queue[i] = ready_queue[j] => i = j
    /\ running_thread \notin Range(ready_queue)

\* context_switch and internal_exit always find a context to resume in
\* memory that is not freed: while the scheduler runs, the saved contexts are
\* exactly those of the live threads and of the main thread, less the
\* running one.
ContextsResumable ==
    main_pc = "run" =>
        /\ main_thread = Main
        /\ running_thread # NULL
        /\ saved = (alloc \cup {Main}) \ {running_thread}
        /\ Range(ready_queue) \subseteq alloc

\* number_of_threads counts the descriptors that are not freed, so that the
\* assertion number_of_threads == 0 of ut_run says that all have been freed.
LiveCount == number_of_threads = Cardinality(alloc)

\* Main is switched back in only when no thread is ready, and outside ut_run
\* no trace of the previous run is left (first and second assertion of
\* ut_run).
MainLast ==
    /\ running_thread = Main => ready_queue = <<>>
    /\ main_pc \in {"boot", "idle"} =>
          running_thread = NULL /\ main_thread = NULL /\ Parked = {}

\* The safety of the scheduler: what every one of its operations relies on,
\* and keeps for the next, in whatever order threads call them.
SchedulerSafe == TypeOK /\ ReadyOnce /\ ContextsResumable /\ LiveCount /\ MainLast

\* Round robin: a ready thread gets the processor.
ReadyRuns ==
    \A t \in Threads :
        t \in Range(ready_queue) ~> running_thread = t \/ main_pc = "aborted"
=============================================================================
