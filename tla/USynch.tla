------------------------------- MODULE USynch -------------------------------
(***************************************************************************)
(* The synchronizers of the user-thread library: the one-shot broadcast    *)
(* event of event.c and the counting semaphore of semaphore.c, on top of   *)
(* the scheduler of UThread.tla.                                           *)
(*                                                                         *)
(* One event and one semaphore are shared by user threads that create,     *)
(* yield, exit, wait, set and post in any order.  A wait block lives on    *)
(* the stack of the blocked thread, so a wait list is a sequence of        *)
(* threads, and the units field of t's block is req[t].  The release loops *)
(* of event_set and sem_post take one step per iteration.                  *)
(***************************************************************************)
EXTENDS UThread

CONSTANTS
    InitialUnits, Limit,  \* arguments of sem_init
    Requests,             \* the units a sem_wait may ask for
    Posts                 \* the units a sem_post may add

ASSUME SemAssumption ==
    /\ Limit \in Nat
    /\ InitialUnits \in 0..Limit
    /\ Requests \subseteq Nat
    /\ Posts \subseteq Nat

VARIABLES
    signaled, ev_waiters,     \* event_t
    units, sem_waiters, req,  \* semaphore_t and the queued wait blocks
    pc                        \* where each live thread is in the library

evvars == <<signaled, ev_waiters>>
semvars == <<units, sem_waiters, req>>
svars == <<uvars, evvars, semvars, pc>>

event_init == signaled = FALSE /\ ev_waiters = <<>>

sem_init ==
    /\ units = InitialUnits
    /\ sem_waiters = <<>>
    /\ req = [t \in Threads |-> 0]

SInit == Init /\ event_init /\ sem_init /\ pc = [t \in Threads |-> "user"]

-----------------------------------------------------------------------------

\* Thread t runs its own code.
UserCode(t) == Running(t) /\ pc[t] = "user"

goto(t, label) == pc' = [pc EXCEPT ![t] = label]

\* The scheduler's calls, from the main program or from user code.
Main_step ==
    /\ ut_init \/ ut_run \/ ut_run_return \/ ut_run_abort \/ Aborted
    /\ UNCHANGED <<evvars, semvars, pc>>

create(t) ==
    /\ main_pc = "idle" \/ \E c \in Threads : UserCode(c)
    /\ ut_create(t)
    /\ goto(t, "user")
    /\ UNCHANGED <<evvars, semvars>>

exit(t) == UserCode(t) /\ ut_exit(t) /\ UNCHANGED <<evvars, semvars, pc>>

yield(t) == UserCode(t) /\ ut_yield(t) /\ UNCHANGED <<evvars, semvars, pc>>

\* A blocked thread that has the processor again returns from the wait.
wait_return(t) ==
    /\ Running(t)
    /\ pc[t] \in {"event_wait", "sem_wait"}
    /\ goto(t, "user")
    /\ UNCHANGED <<uvars, evvars, semvars>>

-----------------------------------------------------------------------------

\* event_wait; when the event is set it returns at once, changing nothing.
event_wait(t) ==
    /\ UserCode(t)
    /\ signaled = FALSE
    /\ ev_waiters' = Append(ev_waiters, t)
    /\ ut_deactivate(t)
    /\ goto(t, "event_wait")
    /\ UNCHANGED <<signaled, semvars>>

\* event_set up to its loop.
event_set(t) ==
    /\ UserCode(t)
    /\ signaled' = TRUE
    /\ goto(t, "event_set")
    /\ UNCHANGED <<uvars, ev_waiters, semvars>>

\* Mutant: activates the first waiter without unlinking its wait block.
event_set_loop_NoRemove(t) ==
    /\ Running(t) /\ pc[t] = "event_set"
    /\ ev_waiters # <<>>
    /\ ut_activate(Head(ev_waiters))
    /\ UNCHANGED <<evvars, semvars, pc>>

\* event_set: one iteration of the loop.
event_set_loop(t) ==
    /\ Running(t) /\ pc[t] = "event_set"
    /\ ev_waiters # <<>>
    /\ ev_waiters' = Tail(ev_waiters)
    /\ ut_activate(Head(ev_waiters))
    /\ UNCHANGED <<signaled, semvars, pc>>

\* Mutant: releases one waiter only and returns.
event_set_return_One(t) ==
    /\ Running(t) /\ pc[t] = "event_set"
    /\ goto(t, "user")
    /\ UNCHANGED <<uvars, evvars, semvars>>

\* event_set: the loop ends.
event_set_return(t) ==
    /\ Running(t) /\ pc[t] = "event_set"
    /\ ev_waiters = <<>>
    /\ goto(t, "user")
    /\ UNCHANGED <<uvars, evvars, semvars>>

-----------------------------------------------------------------------------

\* Mutant: takes free units even when other threads queue for them.
sem_wait_take_Barge(t, n) ==
    /\ UserCode(t)
    /\ units >= n
    /\ units' = units - n
    /\ UNCHANGED <<uvars, evvars, sem_waiters, req, pc>>

\* sem_wait when nobody waits and the units are there.
sem_wait_take(t, n) ==
    /\ UserCode(t)
    /\ sem_waiters = <<>> /\ units >= n
    /\ units' = units - n
    /\ UNCHANGED <<uvars, evvars, sem_waiters, req, pc>>

\* Mutant: queues the wait block at the head of the list.
sem_wait_block_First(t, n) ==
    /\ UserCode(t)
    /\ ~(sem_waiters = <<>> /\ units >= n)
    /\ req' = [req EXCEPT ![t] = n]
    /\ sem_waiters' = <<t>> \o sem_waiters
    /\ ut_deactivate(t)
    /\ goto(t, "sem_wait")
    /\ UNCHANGED <<evvars, units>>

\* sem_wait otherwise: queue a wait block and give up the processor.
sem_wait_block(t, n) ==
    /\ UserCode(t)
    /\ ~(sem_waiters = <<>> /\ units >= n)
    /\ req' = [req EXCEPT ![t] = n]
    /\ sem_waiters' = Append(sem_waiters, t)
    /\ ut_deactivate(t)
    /\ goto(t, "sem_wait")
    /\ UNCHANGED <<evvars, units>>

\* The units after adding n to u: never more than the limit.
AddUnits(u, n) == IF u + n > Limit THEN Limit ELSE u + n

\* sem_post up to its loop.
sem_post(t, n) ==
    /\ UserCode(t)
    /\ units' = AddUnits(units, n)
    /\ goto(t, "sem_post")
    /\ UNCHANGED <<uvars, evvars, sem_waiters, req>>

\* sem_post's loop condition and test: the first request can be satisfied.
CanRelease ==
    /\ units > 0
    /\ sem_waiters # <<>>
    /\ units >= req[Head(sem_waiters)]

\* sem_post: one iteration of the loop.
sem_post_loop(t) ==
    /\ Running(t) /\ pc[t] = "sem_post"
    /\ CanRelease
    /\ units' = units - req[Head(sem_waiters)]
    /\ sem_waiters' = Tail(sem_waiters)
    /\ ut_activate(Head(sem_waiters))
    /\ UNCHANGED <<evvars, req, pc>>

\* sem_post: no more threads to release.
sem_post_return(t) ==
    /\ Running(t) /\ pc[t] = "sem_post"
    /\ ~CanRelease
    /\ goto(t, "user")
    /\ UNCHANGED <<uvars, evvars, semvars>>

-----------------------------------------------------------------------------

\* A step of the running thread t inside a library call.
LibraryStep(t) ==
    \/ wait_return(t)
    \/ event_set_loop(t) \/ event_set_return(t)
    \/ sem_post_loop(t) \/ sem_post_return(t)

SNext ==
    \/ Main_step
    \/ \E t \in Threads :
          \/ create(t)
          \/ exit(t)
          \/ yield(t)
          \/ event_wait(t)
          \/ event_set(t)
          \/ LibraryStep(t)
          \/ \E n \in Requests : sem_wait_take(t, n) \/ sem_wait_block(t, n)
          \/ \E n \in Posts : sem_post(t, n)

SSpec == SInit /\ [][SNext]_svars

\* Cooperative clients: library calls run to their end, the main program
\* runs the scheduler, and no thread keeps the processor for ever.
SFairSpec ==
    /\ SSpec
    /\ WF_svars(Main_step)
    /\ WF_svars(\E t \in Threads : LibraryStep(t))
    /\ SF_svars(\E t \in Threads : exit(t) \/ yield(t))

-----------------------------------------------------------------------------

\* Types; the units of a semaphore are between 0 and its limit.
STypeOK ==
    /\ signaled \in BOOLEAN
    /\ ev_waiters \in Seq(Threads)
    /\ units \in 0..Limit
    /\ sem_waiters \in Seq(Threads)
    /\ req \in [Threads -> Nat]
    /\ pc \in [Threads -> {"user", "event_wait", "event_set",
                           "sem_wait", "sem_post"}]

\* event.c and semaphore.c use the scheduler as UThread.tla requires: each
\* step is a step of the scheduler's specification, so that every ut_activate
\* names a thread that is parked.
ObeysScheduler == Spec

\* No thread is lost and no wait block dangles: a thread that does not run and
\* is not ready is queued on exactly one synchronizer, once, inside the wait
\* that queued it; no other thread is queued anywhere.
WaitersParked ==
    /\ Parked = Range(ev_waiters) \cup Range(sem_waiters)
    /\ \A t \in Range(ev_waiters) : pc[t] = "event_wait"
    /\ \A t \in Range(sem_waiters) : pc[t] = "sem_wait"
    /\ \A i, j \in 1..Len(ev_waiters) : ev_waiters[i] = ev_waiters[j] => i = j
    /\ \A i, j \in 1..Len(sem_waiters) : sem_waiters[i] = sem_waiters[j] => i = j

\* Broadcast: when event_set has returned nobody is left waiting, and a
\* waiter is released only by a set.
EventBroadcast ==
    /\ signaled /\ (\A t \in Threads : pc[t] # "event_set") => ev_waiters = <<>>
    /\ \A t \in alloc \ Range(ev_waiters) : pc[t] = "event_wait" => signaled

\* sem_post's comment "Release all blocked thread whose request can be
\* satisfied": outside sem_post, the first request exceeds the units left.
\* When no unit is left nothing is released, as the loop tests this first: a
\* request of 0 units queued behind others then waits for the next sem_post.
AllSatisfiableReleased ==
    /\ sem_waiters # <<>> /\ units > 0
    /\ \A t \in Threads : pc[t] # "sem_post"
    => units < req[Head(sem_waiters)]

\* The safety of the synchronizers: nobody is lost, dangling, or left waiting
\* for what is there.
SynchSafe == STypeOK /\ WaitersParked /\ EventBroadcast /\ AllSatisfiableReleased

\* A step that keeps the order of the queue: a thread leaves it only together
\* with the ones before it, and only the release of its head takes units.
KeepsOrder ==
    /\ \A i, j \in 1..Len(sem_waiters) :
          i < j /\ sem_waiters[j] \notin Range(sem_waiters')
              => sem_waiters[i] \notin Range(sem_waiters')
    /\ units' < units /\ sem_waiters # <<>>
          => sem_waiters' = Tail(sem_waiters)

\* sem_post's comment "to ensure FIFO ordering": a queued thread is released
\* only after the ones before it, and nobody takes units past the queue.
NoOvertaking == [][KeepsOrder]_svars

\* A thread waiting for an event that is set returns from event_wait.
EventReleases ==
    \A t \in Threads :
        pc[t] = "event_wait" /\ signaled ~> pc[t] # "event_wait"

\* The header's and the assertion's claim: ut_run resumes "only when all user
\* threads have exited".
RunReturnsAllExited == running_thread = Main => number_of_threads = 0
=============================================================================
