------------------------------ MODULE UThread1 ------------------------------
(***************************************************************************)
(* The first user-thread library, 14-uthread-scheduling/uthread.c with     *)
(* ctxsw.s: no thread count, no assertions, no way to block; ut_run leaves *)
(* running_thread and main_thread pointing into its dead frame.  It is     *)
(* shown to behave like the scheduler of UThread.                          *)
(***************************************************************************)
EXTENDS Integers, Sequences, FiniteSets, Functions

CONSTANTS
    Stacks,      \* the blocks that mmap can return, each holding a uthread_t
    MainFrame,   \* the_main_thread of ut_run
    Null

ASSUME StacksAssumption ==
    /\ IsFiniteSet(Stacks)
    /\ {MainFrame, Null} \cap Stacks = {}
    /\ MainFrame # Null

VARIABLES
    ready,     \* ready_queue
    current,   \* running_thread
    mainptr,   \* main_thread
    mapped,    \* the blocks mapped and not yet unmapped
    stored,    \* the threads whose rsp points to a context that can be popped
    mainpc     \* where the main program is

vars1 == <<ready, current, mainptr, mapped, stored, mainpc>>

Init1 ==
    /\ ready = <<>>
    /\ current = Null /\ mainptr = Null
    /\ mapped = {} /\ stored = {}
    /\ mainpc = "boot"

\* extract_next_ready_thread: what it returns ...
NextReady(q) == IF q = <<>> THEN mainptr' ELSE Head(q)

\* Mutant: remove_head_list leaves the entry in the list.
Rest_Peek(q) == q

\* ... and the queue it leaves.
Rest(q) == IF q = <<>> THEN q ELSE Tail(q)

\* schedule and context_switch from the thread t, with q the ready queue.
schedule(t, q) ==
    /\ ready' = Rest(q)
    /\ current' = NextReady(q)
    /\ stored' = (stored \cup {t}) \ {NextReady(q)}

ut_init ==
    /\ mainpc = "boot"
    /\ ready' = <<>>
    /\ mainpc' = "idle"
    /\ UNCHANGED <<current, mainptr, mapped, stored>>

\* ut_create, from main or from a user thread.
ut_create(t) ==
    /\ mainpc = "idle" \/ (mainpc = "run" /\ current # MainFrame)
    /\ t \notin mapped
    /\ mapped' = mapped \cup {t}
    /\ stored' = stored \cup {t}
    /\ ready' = Append(ready, t)
    /\ UNCHANGED <<current, mainptr, mainpc>>

\* ut_run switches to the first thread; with none it switches to itself and
\* returns at once.
ut_run ==
    /\ mainpc = "idle"
    /\ mainptr' = MainFrame
    /\ schedule(MainFrame, ready)
    /\ mainpc' = IF ready = <<>> THEN "idle" ELSE "run"
    /\ UNCHANGED mapped

\* ut_run returns when main is switched back in.
ut_run_return ==
    /\ mainpc = "run"
    /\ current = MainFrame
    /\ mainpc' = "idle"
    /\ UNCHANGED <<ready, current, mainptr, mapped, stored>>

Runs(t) == mainpc = "run" /\ current = t

\* Mutant: the yielding thread is inserted next to the head.
ut_yield_Second(t) ==
    /\ Runs(t)
    /\ ready # <<>>
    /\ UNCHANGED <<mainptr, mapped, mainpc>>
    /\ schedule(t, <<Head(ready), t>> \o Tail(ready))

\* ut_yield; with no other thread ready it returns at once.
ut_yield(t) ==
    /\ Runs(t)
    /\ ready # <<>>
    /\ UNCHANGED <<mainptr, mapped, mainpc>>
    /\ schedule(t, Append(ready, t))

\* ut_exit, also at the return of the start routine: internal_exit switches to
\* the stack of the next thread and unmaps the current one.
ut_exit(t) ==
    /\ Runs(t)
    /\ UNCHANGED <<mainptr, mainpc>>
    /\ ready' = Rest(ready)
    /\ current' = NextReady(ready)
    /\ stored' = stored \ {NextReady(ready)}
    /\ mapped' = mapped \ {t}

\* ut_end only reports a ready queue that is not empty.
ut_end ==
    /\ mainpc = "idle"
    /\ mainpc' = "end"
    /\ UNCHANGED <<ready, current, mainptr, mapped, stored>>

Next1 ==
    \/ ut_init \/ ut_run \/ ut_run_return \/ ut_end
    \/ \E t \in Stacks : ut_create(t) \/ ut_yield(t) \/ ut_exit(t)

Spec1 == Init1 /\ [][Next1]_vars1

\* A user thread that can do nothing but run on does not keep the processor.
FairSpec1 ==
    Spec1 /\ WF_vars1(\E t \in Stacks : ut_yield(t) \/ ut_exit(t))

-----------------------------------------------------------------------------

\* The pointers that a finished ut_run leaves behind do not matter.
Scheduler == INSTANCE UThread WITH
    Threads <- Stacks,
    Main <- MainFrame,
    NULL <- Null,
    ready_queue <- ready,
    running_thread <- IF mainpc = "run" THEN current ELSE Null,
    main_thread <- IF mainpc = "run" THEN mainptr ELSE Null,
    number_of_threads <- Cardinality(mapped),
    alloc <- mapped,
    saved <- stored,
    main_pc <- IF mainpc = "end" THEN "idle" ELSE mainpc

\* Every step is a step of the later library, with the count of threads taken
\* from the mapped stacks: the invariants proved of UThread hold here too.
ImplementsScheduler == Scheduler!Spec

\* In a run every ready thread gets the processor.
EveryoneRuns ==
    \A t \in Stacks :
        mainpc = "run" /\ t \in Range(ready) ~> current = t
=============================================================================
