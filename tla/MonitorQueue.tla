---------------------------- MODULE MonitorQueue ----------------------------
(***************************************************************************)
(* The blocking queue of 18-thread-pool/queue.c: a linked list and its     *)
(* size, guarded by a mutex and a condition variable.                      *)
(*                                                                         *)
(* A caller's program counter qpc says where in queue_put, queue_get or    *)
(* queue_size it is; a step is a mutex operation, a condition-variable     *)
(* operation or a stretch of code between two of them.  The mutex and the  *)
(* condition variable are the external pthreads library: a signal wakes    *)
(* any one blocked thread, which then competes for the mutex with the      *)
(* others, and a wait may also return without a signal.                    *)
(***************************************************************************)
EXTENDS Integers, Sequences, FiniteSets, Functions

CONSTANTS
    QCallers,  \* threads that call the queue
    QItems,    \* the pointers it carries
    NoItem,    \* not a pointer it carries
    NoOne,     \* the owner of an unlocked mutex
    MaxNoise   \* bound on the spurious wake-ups and the size queries of a run

ASSUME QueueAssumption ==
    /\ IsFiniteSet(QCallers)
    /\ IsFiniteSet(QItems)
    /\ NoOne \notin QCallers
    /\ NoItem \notin QItems
    /\ MaxNoise \in Nat

VARIABLES
    qlock,     \* owner of queue->lock
    qwaiters,  \* threads blocked on queue->waiters
    qlist,     \* queue->head, as the sequence of the items of its nodes
    qsize,     \* queue->size
    qpc,       \* where each thread is in the queue's code
    qitem,     \* the item a thread gives to queue_put, or took out
    noise      \* spurious wake-ups and size queries so far

qvars == <<qlock, qwaiters, qlist, qsize, qpc, qitem, noise>>

queue_init ==
    /\ qlock = NoOne
    /\ qwaiters = {}
    /\ qlist = <<>>
    /\ qsize = 0
    /\ qpc = [c \in QCallers |-> "out"]
    /\ qitem = [c \in QCallers |-> NoItem]
    /\ noise = 0

qgoto(c, label) == qpc' = [qpc EXCEPT ![c] = label]

-----------------------------------------------------------------------------

\* Entry of queue_put: allocates the node, outside the lock.
queue_put(c, x) ==
    /\ qpc[c] = "out"
    /\ qitem' = [qitem EXCEPT ![c] = x]
    /\ qgoto(c, "put_lock")
    /\ UNCHANGED <<qlock, qwaiters, qlist, qsize, noise>>

\* Entry of queue_get.
queue_get(c) ==
    /\ qpc[c] = "out"
    /\ qgoto(c, "get_lock")
    /\ UNCHANGED <<qlock, qwaiters, qlist, qsize, qitem, noise>>

\* Entry of queue_size.
queue_size(c) ==
    /\ qpc[c] = "out"
    /\ noise < MaxNoise
    /\ noise' = noise + 1
    /\ qgoto(c, "size_lock")
    /\ UNCHANGED <<qlock, qwaiters, qlist, qsize, qitem>>

\* What follows pthread_mutex_lock, by the call it belongs to.
AfterLock ==
    [put_lock |-> "put_insert", get_lock |-> "get_test",
     get_wait |-> "get_test", size_lock |-> "size_read"]

\* pthread_mutex_lock, and the return from pthread_cond_wait of a thread that
\* is no longer blocked.
lock_step(c) ==
    /\ qpc[c] \in DOMAIN AfterLock
    /\ c \notin qwaiters
    /\ qlock = NoOne
    /\ qlock' = c
    /\ qgoto(c, AfterLock[qpc[c]])
    /\ UNCHANGED <<qwaiters, qlist, qsize, qitem, noise>>

\* Mutant: pushes at the front.
put_insert_First(c) ==
    /\ qpc[c] = "put_insert"
    /\ qlist' = <<qitem[c]>> \o qlist
    /\ qsize' = qsize + 1
    /\ qgoto(c, "put_signal")
    /\ UNCHANGED <<qlock, qwaiters, qitem, noise>>

\* insert_list_last and queue->size++
put_insert(c) ==
    /\ qpc[c] = "put_insert"
    /\ qlist' = Append(qlist, qitem[c])
    /\ qsize' = qsize + 1
    /\ qgoto(c, "put_signal")
    /\ UNCHANGED <<qlock, qwaiters, qitem, noise>>

\* Mutant: signals only when the queue was empty before.
put_signal_OnlyFirst(c) ==
    /\ qpc[c] = "put_signal"
    /\ \/ qwaiters = {} /\ UNCHANGED qwaiters
       \/ qsize > 1 /\ UNCHANGED qwaiters
       \/ qsize = 1 /\ \E w \in qwaiters : qwaiters' = qwaiters \ {w}
    /\ qgoto(c, "unlock")
    /\ UNCHANGED <<qlock, qlist, qsize, qitem, noise>>

\* pthread_cond_signal
put_signal(c) ==
    /\ qpc[c] = "put_signal"
    /\ \/ qwaiters = {} /\ UNCHANGED qwaiters
       \/ \E w \in qwaiters : qwaiters' = qwaiters \ {w}
    /\ qgoto(c, "unlock")
    /\ UNCHANGED <<qlock, qlist, qsize, qitem, noise>>

\* The loop of queue_get finds the queue empty: pthread_cond_wait releases
\* the mutex and blocks, in one step.
get_wait(c) ==
    /\ qpc[c] = "get_test"
    /\ qsize = 0
    /\ qlock' = NoOne
    /\ qwaiters' = qwaiters \cup {c}
    /\ qgoto(c, "get_wait")
    /\ UNCHANGED <<qlist, qsize, qitem, noise>>

\* Mutant: the node is read but stays in the list.
get_take_Peek(c) ==
    /\ qpc[c] = "get_test"
    /\ qsize # 0
    /\ qsize' = qsize - 1
    /\ qitem' = [qitem EXCEPT ![c] = Head(qlist)]
    /\ qgoto(c, "unlock")
    /\ UNCHANGED <<qlock, qwaiters, qlist, noise>>

\* The loop of queue_get ends: remove_list_first and queue->size--.
get_take(c) ==
    /\ qpc[c] = "get_test"
    /\ qsize # 0
    /\ qlist' = Tail(qlist)
    /\ qsize' = qsize - 1
    /\ qitem' = [qitem EXCEPT ![c] = Head(qlist)]
    /\ qgoto(c, "unlock")
    /\ UNCHANGED <<qlock, qwaiters, noise>>

\* queue_size reads the field under the lock.
size_read(c) ==
    /\ qpc[c] = "size_read"
    /\ qgoto(c, "unlock")
    /\ UNCHANGED <<qlock, qwaiters, qlist, qsize, qitem, noise>>

\* pthread_mutex_unlock and the return to the caller; queue_get frees the
\* node it alone can reach.
unlock_step(c) ==
    /\ qpc[c] = "unlock"
    /\ qlock' = NoOne
    /\ qgoto(c, "out")
    /\ UNCHANGED <<qwaiters, qlist, qsize, qitem, noise>>

\* pthread_cond_wait stops blocking without a signal.
spurious(c) ==
    /\ c \in qwaiters
    /\ noise < MaxNoise
    /\ noise' = noise + 1
    /\ qwaiters' = qwaiters \ {c}
    /\ UNCHANGED <<qlock, qlist, qsize, qpc, qitem>>

\* A step of c inside the queue's code, other than a spurious wake-up.
QueueStep(c) ==
    \/ lock_step(c)
    \/ put_insert(c)
    \/ put_signal(c)
    \/ get_wait(c)
    \/ get_take(c)
    \/ size_read(c)
    \/ unlock_step(c)

-----------------------------------------------------------------------------
(* Clients.  An item is memory that has one owner: a thread gives it to    *)
(* queue_put once, and gives it again only after someone got it out.       *)

Holders(x) == {c \in QCallers : qpc[c] # "out" /\ qitem[c] = x}

QNext ==
    \E c \in QCallers :
        \/ \E x \in QItems :
              /\ x \notin Range(qlist) /\ Holders(x) = {}
              /\ queue_put(c, x)
        \/ queue_get(c)
        \/ queue_size(c)
        \/ QueueStep(c)
        \/ spurious(c)

QSpec == queue_init /\ [][QNext]_qvars

\* The operating system runs every thread that can take a step.
QFairSpec == QSpec /\ \A c \in QCallers : WF_qvars(QueueStep(c))

-----------------------------------------------------------------------------

QTypeOK ==
    /\ qlock \in QCallers \cup {NoOne}
    /\ qwaiters \subseteq QCallers
    /\ qlist \in Seq(QItems)
    /\ qsize \in Nat
    /\ qpc \in [QCallers -> {"out", "put_lock", "put_insert", "put_signal",
                            "get_lock", "get_test", "get_wait", "size_lock",
                            "size_read", "unlock"}]
    /\ qitem \in [QCallers -> QItems \cup {NoItem}]
    /\ noise \in 0..MaxNoise

InMutex(c) ==
    qpc[c] \in {"put_insert", "put_signal", "get_test", "size_read", "unlock"}

\* The queue's data are consistent whenever somebody can look: only the owner
\* of the mutex is inside, the size is the length of the list, and only
\* threads inside queue_get are blocked.
Monitor ==
    /\ \A c \in QCallers : InMutex(c) <=> qlock = c
    /\ qsize = Len(qlist)
    /\ \A c \in qwaiters : qpc[c] = "get_wait"

\* Threads on their way to look at the size, and the putter about to signal.
Awake ==
    {c \in QCallers : \/ qpc[c] \in {"get_lock", "get_test", "put_signal"}
                      \/ qpc[c] = "get_wait" /\ c \notin qwaiters}

\* No lost wake-up: while threads are blocked, there are no more items than
\* threads already on their way to take one, however signals, new getters
\* and spurious wake-ups interleave.  pthread_cond_signal is enough.
NoLostWakeup == qwaiters # {} => Len(qlist) <= Cardinality(Awake)

\* The invariant of queue.c: consistent data, and no lost wake-up.
MonitorInv == QTypeOK /\ Monitor /\ NoLostWakeup

\* The queue as callers see it: a put takes effect at the insertion, a get at
\* the removal.
AbstractOp(c) ==
    IF qpc[c] \in {"put_lock", "put_insert"} THEN "put"
    ELSE IF qpc[c] \in {"get_lock", "get_test", "get_wait"} THEN "get"
    ELSE "idle"

Fifo == INSTANCE BlockingFifo WITH
    Callers <- QCallers,
    Items <- QItems \cup {NoItem},
    Capacity <- Cardinality(QItems),
    fifo <- qlist,
    call <- [c \in QCallers |-> [op |-> AbstractOp(c), item |-> qitem[c]]]

\* queue.c implements a blocking FIFO, with its progress guarantee.
ImplementsFifo == Fifo!AFairSpec
=============================================================================
