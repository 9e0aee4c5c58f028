----------------------------- MODULE ThreadPool -----------------------------
(***************************************************************************)
(* The thread pool of 18-thread-pool/thread_pool.c (and its copy in        *)
(* 20-net-sockets/03-thread-pool) on top of the blocking queue of          *)
(* MonitorQueue.tla.                                                       *)
(*                                                                         *)
(* The owner initialises the pool and cleans it up once the other clients  *)
(* have stopped using it; clients submit tasks and may stop the pool at    *)
(* any time, and a running task may submit further ones.  tp->stopped is   *)
(* read and written without a lock: each access is a step of its own.      *)
(***************************************************************************)
EXTENDS MonitorQueue

CONSTANTS
    Workers,   \* the threads of the pool
    Clients,   \* the other threads
    Owner,     \* the client that initialises the pool and cleans it up
    Tasks,     \* what is submitted, each at most once
    Pill       \* a work item whose action is DEATH_PILL

ASSUME PoolAssumption ==
    /\ IsFiniteSet(Workers) /\ Workers # {}
    /\ Owner \in Clients
    /\ Workers \cap Clients = {}
    /\ QCallers = Workers \cup Clients
    /\ QItems = Tasks \cup {Pill}
    /\ Pill \notin Tasks

VARIABLES
    stopped,    \* tp->stopped
    tpc,        \* where each thread is in the pool's code
    back,       \* where a client goes on after thread_pool_stop
    pills,      \* thread_pool_stop's i: death pills submitted so far
    cur,        \* the task each worker runs: its local action and arg
    submitted,  \* tasks given to thread_pool_submit
    taken,      \* history: how often each task was taken by a worker
    done,       \* history: tasks whose action has returned
    early       \* history: tasks whose submit returned true before the stop

pvars == <<stopped, tpc, back, pills, cur, submitted, taken, done, early>>
tpvars == <<qvars, pvars>>

nthreads == Cardinality(Workers)

PInit ==
    /\ queue_init
    /\ stopped = FALSE
    /\ tpc = [c \in QCallers |-> IF c = Owner THEN "init" ELSE "unborn"]
    /\ back = [c \in Clients |-> "idle"]
    /\ pills = [c \in Clients |-> 0]
    /\ cur = [w \in Workers |-> NoItem]
    /\ submitted = {}
    /\ taken = [x \in Tasks |-> 0]
    /\ done = {}
    /\ early = {}

tgoto(c, label) == tpc' = [tpc EXCEPT ![c] = label]

\* Code that runs with qpc[c] = "out", between two calls of the queue.
At_(c, label) == qpc[c] = "out" /\ tpc[c] = label

-----------------------------------------------------------------------------

\* thread_pool_init; other clients get the pool when it is ready.
thread_pool_init ==
    /\ tpc[Owner] = "init"
    /\ stopped' = FALSE
    /\ tpc' = [c \in QCallers |-> IF c \in Workers THEN "loop" ELSE "idle"]
    /\ UNCHANGED <<qvars, back, pills, cur, submitted, taken, done, early>>

\* thread_pool_worker: the call of queue_get.
worker_get(w) ==
    /\ At_(w, "loop")
    /\ queue_get(w)
    /\ tgoto(w, "got")
    /\ UNCHANGED <<stopped, back, pills, cur, submitted, taken, done, early>>

\* thread_pool_worker: a task, whose action starts.
worker_task(w) ==
    /\ At_(w, "got")
    /\ qitem[w] # Pill
    /\ cur' = [cur EXCEPT ![w] = qitem[w]]
    /\ taken' = [taken EXCEPT ![qitem[w]] = @ + 1]
    /\ tgoto(w, "task")
    /\ UNCHANGED <<qvars, stopped, back, pills, submitted, done, early>>

\* Mutant: a worker that takes a pill goes on with the loop.
worker_exit_Stay(w) ==
    /\ At_(w, "got")
    /\ qitem[w] = Pill
    /\ tgoto(w, "loop")
    /\ UNCHANGED <<qvars, stopped, back, pills, cur, submitted, taken, done, early>>

\* thread_pool_worker: the death pill ends the loop and the thread.
worker_exit(w) ==
    /\ At_(w, "got")
    /\ qitem[w] = Pill
    /\ tgoto(w, "exited")
    /\ UNCHANGED <<qvars, stopped, back, pills, cur, submitted, taken, done, early>>

\* thread_pool_worker: action(arg) returns.
worker_done(w) ==
    /\ At_(w, "task")
    /\ done' = done \cup {cur[w]}
    /\ cur' = [cur EXCEPT ![w] = NoItem]
    /\ tgoto(w, "loop")
    /\ UNCHANGED <<qvars, stopped, back, pills, submitted, taken, early>>

-----------------------------------------------------------------------------

\* Threads whose own code runs: clients, and workers inside a task.
InUserCode(c) == qpc[c] = "out" /\ tpc[c] \in {"idle", "task"}

\* thread_pool_submit reads stopped and finds it false.
thread_pool_submit(c, x) ==
    /\ InUserCode(c)
    /\ x \notin submitted
    /\ stopped = FALSE
    /\ submitted' = submitted \cup {x}
    /\ queue_put(c, x)
    /\ tgoto(c, IF tpc[c] = "idle" THEN "submit" ELSE "subtask")
    /\ UNCHANGED <<stopped, back, pills, cur, taken, done, early>>

\* thread_pool_submit returns true.
submit_return(c) ==
    /\ qpc[c] = "out" /\ tpc[c] \in {"submit", "subtask"}
    /\ early' = IF stopped THEN early ELSE early \cup {qitem[c]}
    /\ tgoto(c, IF tpc[c] = "submit" THEN "idle" ELSE "task")
    /\ UNCHANGED <<qvars, stopped, back, pills, cur, submitted, taken, done>>

\* thread_pool_stop reads stopped: true, and it returns; false, and it goes
\* on to set it.  label is where its caller goes on.
thread_pool_stop(c, label) ==
    /\ pills' = [pills EXCEPT ![c] = 0]
    /\ back' = [back EXCEPT ![c] = label]
    /\ tgoto(c, IF stopped THEN label ELSE "stop_set")
    /\ UNCHANGED <<qvars, stopped, cur, submitted, taken, done, early>>

\* Mutant: forgets stopped = true.
stop_set_Forgotten(c) ==
    /\ tpc[c] = "stop_set"
    /\ tgoto(c, "stop_pill")
    /\ UNCHANGED <<qvars, stopped, back, pills, cur, submitted, taken, done, early>>

\* thread_pool_stop: stopped = true
stop_set(c) ==
    /\ tpc[c] = "stop_set"
    /\ stopped' = TRUE
    /\ tgoto(c, "stop_pill")
    /\ UNCHANGED <<qvars, back, pills, cur, submitted, taken, done, early>>

\* thread_pool_stop: one iteration of the loop, whose
\* thread_pool_internal_submit does not look at stopped.
stop_pill(c) ==
    /\ At_(c, "stop_pill")
    /\ pills[c] < nthreads
    /\ pills' = [pills EXCEPT ![c] = @ + 1]
    /\ queue_put(c, Pill)
    /\ UNCHANGED <<stopped, tpc, back, cur, submitted, taken, done, early>>

\* thread_pool_stop: the loop ends.
stop_return(c) ==
    /\ At_(c, "stop_pill")
    /\ pills[c] = nthreads
    /\ tgoto(c, back[c])
    /\ UNCHANGED <<qvars, stopped, back, pills, cur, submitted, taken, done, early>>

\* A client that is not the owner stops using the pool.
leave(c) ==
    /\ c # Owner
    /\ At_(c, "idle")
    /\ tgoto(c, "left")
    /\ UNCHANGED <<qvars, stopped, back, pills, cur, submitted, taken, done, early>>

\* thread_pool_cleanup: its call of thread_pool_stop.
thread_pool_cleanup ==
    /\ At_(Owner, "idle")
    /\ \A c \in Clients \ {Owner} : tpc[c] = "left"
    /\ thread_pool_stop(Owner, "join")

\* Mutant: does not wait for the threads.
cleanup_join_None ==
    /\ At_(Owner, "join")
    /\ tgoto(Owner, "cleaned")
    /\ UNCHANGED <<qvars, stopped, back, pills, cur, submitted, taken, done, early>>

\* thread_pool_cleanup: every join has returned; the array of threads is
\* freed and the queue's mutex and condition variable are destroyed.
cleanup_join ==
    /\ At_(Owner, "join")
    /\ \A w \in Workers : tpc[w] = "exited"
    /\ tgoto(Owner, "cleaned")
    /\ UNCHANGED <<qvars, stopped, back, pills, cur, submitted, taken, done, early>>

-----------------------------------------------------------------------------

\* The steps that a thread takes by itself once it is in the pool's code.
PoolStep(c) ==
    \/ QueueStep(c) /\ UNCHANGED pvars
    \/ c \in Workers /\ (worker_get(c) \/ worker_task(c) \/ worker_exit(c))
    \/ submit_return(c)
    \/ c \in Clients /\ (stop_set(c) \/ stop_pill(c) \/ stop_return(c))
    \/ c = Owner /\ cleanup_join

PNext ==
    \/ thread_pool_init
    \/ thread_pool_cleanup
    \/ \E c \in QCallers :
          \/ PoolStep(c)
          \/ spurious(c) /\ UNCHANGED pvars
          \/ \E x \in Tasks : thread_pool_submit(c, x)
    \/ \E w \in Workers : worker_done(w)
    \/ \E c \in Clients :
          \/ At_(c, "idle") /\ thread_pool_stop(c, "idle")
          \/ leave(c)

PSpec == PInit /\ [][PNext]_tpvars

\* The operating system runs every thread, and every task returns.
PFairSpec ==
    /\ PSpec
    /\ \A c \in QCallers : WF_tpvars(PoolStep(c))
    /\ \A w \in Workers : WF_tpvars(worker_done(w))

-----------------------------------------------------------------------------

PTypeOK ==
    /\ QTypeOK
    /\ stopped \in BOOLEAN
    /\ tpc \in [QCallers -> {"init", "unborn", "loop", "got", "task", "exited",
                             "idle", "submit", "subtask", "stop_set",
                             "stop_pill", "left", "join", "cleaned"}]
    /\ back \in [Clients -> {"idle", "join"}]
    /\ pills \in [Clients -> 0..nthreads]
    /\ cur \in [Workers -> Tasks \cup {NoItem}]
    /\ submitted \subseteq Tasks
    /\ taken \in [Tasks -> Nat]
    /\ done \subseteq Tasks
    /\ early \subseteq submitted

\* A task is never run twice and never run without being submitted: from its
\* submit to the end of its run it is in one place.
AtMostOnce ==
    \A x \in Tasks :
        /\ taken[x] <= IF x \in submitted THEN 1 ELSE 0
        /\ x \in Range(qlist) => taken[x] = 0

\* The invariant of the pool while it runs: types, and tasks in one place.
PoolInv == PTypeOK /\ AtMostOnce

\* A task whose submit returned true before stopped was set is run to its end
\* before thread_pool_cleanup returns, although the workers end one by one:
\* the pills queue behind it, and cleanup waits for the worker that took it.
EarlyTasksRun == tpc[Owner] = "cleaned" => early \subseteq done

\* After thread_pool_cleanup no thread is inside the queue or the pool: the
\* freed array and the destroyed mutex are not used, even when two clients
\* stopped the pool at the same time.
CleanupIsLast ==
    tpc[Owner] = "cleaned" =>
        /\ \A c \in QCallers : qpc[c] = "out"
        /\ \A w \in Workers : tpc[w] = "exited"

\* thread_pool_cleanup returns: every worker gets its pill.
CleanupReturns == back[Owner] = "join" ~> tpc[Owner] = "cleaned"
=============================================================================
