--------------------------- MODULE CountDownLatch ---------------------------
(***************************************************************************)
(* The count-down latch of 18-thread-pool/countdownlatch.c (the same code  *)
(* as 17-pthreads-monitors/03-countdownlatch): a counter guarded by a      *)
(* mutex, and a condition variable on which threads await zero.            *)
(***************************************************************************)
EXTENDS Integers, FiniteSets

CONSTANTS
    LCallers,   \* threads that use the latch
    NoOwner,    \* the owner of an unlocked mutex
    Initial,    \* initial_count
    MaxWakeups  \* bound on the spurious wake-ups of a run

ASSUME LatchAssumption ==
    /\ NoOwner \notin LCallers
    /\ Initial \in Nat
    /\ MaxWakeups \in Nat

VARIABLES
    llock,     \* owner of cdl->lock
    lwaiters,  \* threads blocked on cdl->waiters
    counter,   \* cdl->counter
    lpc,       \* where each thread is in the latch's code
    wakeups    \* spurious wake-ups so far

ldvars == <<llock, lwaiters, counter, lpc, wakeups>>

countdownlatch_init ==
    /\ llock = NoOwner
    /\ lwaiters = {}
    /\ counter = Initial
    /\ lpc = [c \in LCallers |-> "out"]
    /\ wakeups = 0

lgoto(c, label) == lpc' = [lpc EXCEPT ![c] = label]

-----------------------------------------------------------------------------

\* Entry of countdownlatch_countdown.
countdownlatch_countdown(c) ==
    /\ lpc[c] = "out"
    /\ lgoto(c, "down_lock")
    /\ UNCHANGED <<llock, lwaiters, counter, wakeups>>

\* Entry of countdownlatch_await.
countdownlatch_await(c) ==
    /\ lpc[c] \in {"out", "counted"}
    /\ lgoto(c, "await_lock")
    /\ UNCHANGED <<llock, lwaiters, counter, wakeups>>

\* What follows pthread_mutex_lock, by the call it belongs to.
AfterLatchLock ==
    [down_lock |-> "down", await_lock |-> "await", await_wait |-> "await"]

\* pthread_mutex_lock, and the return from pthread_cond_wait of a thread that
\* is no longer blocked.
latch_lock(c) ==
    /\ lpc[c] \in DOMAIN AfterLatchLock
    /\ c \notin lwaiters
    /\ llock = NoOwner
    /\ llock' = c
    /\ lgoto(c, AfterLatchLock[lpc[c]])
    /\ UNCHANGED <<lwaiters, counter, wakeups>>

\* Mutant: the last countdown does not broadcast.
down_Silent(c) ==
    /\ lpc[c] = "down"
    /\ counter' = IF counter > 0 THEN counter - 1 ELSE counter
    /\ lgoto(c, IF counter = 0 THEN "broadcast" ELSE "latch_unlock")
    /\ UNCHANGED <<llock, lwaiters, wakeups>>

\* Mutant: broadcasts after releasing the mutex.
down_EarlyUnlock(c) ==
    /\ lpc[c] = "down"
    /\ counter' = IF counter > 0 THEN counter - 1 ELSE counter
    /\ llock' = IF counter = 1 THEN NoOwner ELSE llock
    /\ lgoto(c, IF counter = 1 THEN "broadcast" ELSE "latch_unlock")
    /\ UNCHANGED <<lwaiters, wakeups>>

\* countdownlatch_countdown under the lock, up to the broadcast.
down(c) ==
    /\ lpc[c] = "down"
    /\ counter' = IF counter > 0 THEN counter - 1 ELSE counter
    /\ lgoto(c, IF counter = 1 THEN "broadcast" ELSE "latch_unlock")
    /\ UNCHANGED <<llock, lwaiters, wakeups>>

\* pthread_cond_broadcast
broadcast(c) ==
    /\ lpc[c] = "broadcast"
    /\ lwaiters' = {}
    /\ lgoto(c, "latch_unlock")
    /\ UNCHANGED <<llock, counter, wakeups>>

\* countdownlatch_await's loop blocks, releasing the mutex.
await_wait(c) ==
    /\ lpc[c] = "await"
    /\ counter > 0
    /\ llock' = NoOwner
    /\ lwaiters' = lwaiters \cup {c}
    /\ lgoto(c, "await_wait")
    /\ UNCHANGED <<counter, wakeups>>

\* countdownlatch_await's loop ends.
await_end(c) ==
    /\ lpc[c] = "await"
    /\ counter <= 0
    /\ lgoto(c, "await_unlock")
    /\ UNCHANGED <<llock, lwaiters, counter, wakeups>>

\* pthread_mutex_unlock and return.
latch_unlock(c) ==
    /\ lpc[c] \in {"latch_unlock", "await_unlock"}
    /\ llock' = NoOwner
    /\ lgoto(c, IF lpc[c] = "await_unlock" THEN "passed" ELSE "counted")
    /\ UNCHANGED <<lwaiters, counter, wakeups>>

\* pthread_cond_wait stops blocking without a broadcast.
latch_spurious(c) ==
    /\ c \in lwaiters
    /\ wakeups < MaxWakeups
    /\ wakeups' = wakeups + 1
    /\ lwaiters' = lwaiters \ {c}
    /\ UNCHANGED <<llock, counter, lpc>>

LatchStep(c) ==
    \/ latch_lock(c)
    \/ down(c)
    \/ broadcast(c)
    \/ await_wait(c)
    \/ await_end(c)
    \/ latch_unlock(c)

\* A thread counts down at most once, awaits at most once, or both in this
\* order, as the threads of adder.c do.
LDNext ==
    \E c \in LCallers :
        \/ countdownlatch_countdown(c)
        \/ countdownlatch_await(c)
        \/ LatchStep(c)
        \/ latch_spurious(c)

LDSpec == countdownlatch_init /\ [][LDNext]_ldvars

-----------------------------------------------------------------------------

LatchInMutex(c) ==
    lpc[c] \in {"down", "broadcast", "await", "latch_unlock", "await_unlock"}

\* Types; the counter stays between zero and its initial value.
LDTypeOK ==
    /\ llock \in LCallers \cup {NoOwner}
    /\ lwaiters \subseteq {c \in LCallers : lpc[c] = "await_wait"}
    /\ counter \in 0..Initial
    /\ lpc \in [LCallers -> {"out", "down_lock", "down", "broadcast",
                             "await_lock", "await", "await_wait",
                             "latch_unlock", "counted", "await_unlock",
                             "passed"}]
    /\ wakeups \in 0..MaxWakeups
    /\ \A c \in LCallers : LatchInMutex(c) <=> llock = c

\* Nobody passes a latch that is not open, spurious wake-ups included.
PassedAtZero == \A c \in LCallers : lpc[c] \in {"await_unlock", "passed"} => counter = 0

\* An open latch keeps nobody: at zero, a thread is blocked only until the
\* last countdown has broadcast.
OpenFreesAll ==
    counter = 0 /\ lwaiters # {} => \E c \in LCallers : lpc[c] = "broadcast"

\* The invariant of countdownlatch.c: nobody passes early, nobody is kept, and
\* the owner of the mutex is the only thread inside.
LatchInv == LDTypeOK /\ PassedAtZero /\ OpenFreesAll
=============================================================================
