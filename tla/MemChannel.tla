----------------------------- MODULE MemChannel -----------------------------
(***************************************************************************)
(* The bounded message channel of 19-ipc/memchannel.c in memory shared by  *)
(* several processes: a ring of slots, two running indices under a mutex,  *)
(* and two POSIX semaphores that count free and filled slots.              *)
(*                                                                         *)
(* iput and iget are size_t counters that are only ever incremented; they  *)
(* wrap at IdxMod, which stands for 2^64.  The slot is the index modulo    *)
(* the capacity, so the ring survives the wrap when the capacity divides   *)
(* IdxMod (the capacities in the repository, 1 and 8, do).                 *)
(***************************************************************************)
EXTENDS Integers, Sequences, FiniteSets

CONSTANTS
    MCallers,   \* processes that have the channel mapped
    Messages,   \* what mc_put copies in and mc_get copies out
    NoMessage,  \* contents of a slot, or of a buffer, never written
    NoProcess,  \* the owner of an unlocked mutex
    Cap,        \* mc->capacity
    IdxMod      \* number of values of a size_t

ASSUME ChannelAssumption ==
    /\ IsFiniteSet(MCallers)
    /\ NoProcess \notin MCallers
    /\ NoMessage \notin Messages
    /\ Cap \in Nat \ {0}
    /\ IdxMod \in Nat
    /\ Cap < IdxMod
    /\ \E k \in 1..IdxMod : IdxMod = k * Cap

VARIABLES
    iput, iget,            \* running indices
    items,                 \* the slots
    mlock,                 \* owner of mc->lock
    has_space, has_items,  \* values of the semaphores
    mpc,                   \* where each process is in mc_put or mc_get
    mitem                  \* the caller's buffer

mvars == <<iput, iget, items, mlock, has_space, has_items, mpc, mitem>>

\* mc_create; shared memory is zeroed, so no slot holds a message.
mc_create ==
    /\ iput = 0 /\ iget = 0
    /\ items = [s \in 0..(Cap - 1) |-> NoMessage]
    /\ mlock = NoProcess
    /\ has_space = Cap
    /\ has_items = 0
    /\ mpc = [p \in MCallers |-> "out"]
    /\ mitem = [p \in MCallers |-> NoMessage]

mgoto(p, label) == mpc' = [mpc EXCEPT ![p] = label]

Incr(i) == (i + 1) % IdxMod

-----------------------------------------------------------------------------

\* Entry of mc_put and of mc_get.
mc_put(p, m) ==
    /\ mpc[p] = "out"
    /\ mitem' = [mitem EXCEPT ![p] = m]
    /\ mgoto(p, "put_wait")
    /\ UNCHANGED <<iput, iget, items, mlock, has_space, has_items>>

mc_get(p) ==
    /\ mpc[p] = "out"
    /\ mgoto(p, "get_wait")
    /\ UNCHANGED <<iput, iget, items, mlock, has_space, has_items, mitem>>

\* Mutant: does not wait for space.
put_wait_space_Skip(p) ==
    /\ mpc[p] = "put_wait"
    /\ has_space' = IF has_space > 0 THEN has_space - 1 ELSE 0
    /\ mgoto(p, "put_lock")
    /\ UNCHANGED <<iput, iget, items, mlock, has_items, mitem>>

\* mc_put: sem_wait(has_space)
put_wait_space(p) ==
    /\ mpc[p] = "put_wait"
    /\ has_space > 0
    /\ has_space' = has_space - 1
    /\ mgoto(p, "put_lock")
    /\ UNCHANGED <<iput, iget, items, mlock, has_items, mitem>>

\* mc_get: sem_wait(has_items)
get_wait_items(p) ==
    /\ mpc[p] = "get_wait"
    /\ has_items > 0
    /\ has_items' = has_items - 1
    /\ mgoto(p, "get_lock")
    /\ UNCHANGED <<iput, iget, items, mlock, has_space, mitem>>

\* pthread_mutex_lock
mc_lock(p) ==
    /\ mpc[p] \in {"put_lock", "get_lock"}
    /\ mlock = NoProcess
    /\ mlock' = p
    /\ mgoto(p, IF mpc[p] = "put_lock" THEN "put_copy" ELSE "get_copy")
    /\ UNCHANGED <<iput, iget, items, has_space, has_items, mitem>>

\* mc_put under the lock: iput++ and the copy into the slot.
put_copy(p) ==
    /\ mpc[p] = "put_copy"
    /\ iput' = Incr(iput)
    /\ items' = [items EXCEPT ![iput % Cap] = mitem[p]]
    /\ mgoto(p, "put_unlock")
    /\ UNCHANGED <<iget, mlock, has_space, has_items, mitem>>

\* Mutant: uses the index after the increment.
get_copy_PreIncrement(p) ==
    /\ mpc[p] = "get_copy"
    /\ iget' = Incr(iget)
    /\ mitem' = [mitem EXCEPT ![p] = items[Incr(iget) % Cap]]
    /\ mgoto(p, "get_unlock")
    /\ UNCHANGED <<iput, items, mlock, has_space, has_items>>

\* mc_get under the lock: iget++ and the copy out of the slot.
get_copy(p) ==
    /\ mpc[p] = "get_copy"
    /\ iget' = Incr(iget)
    /\ mitem' = [mitem EXCEPT ![p] = items[iget % Cap]]
    /\ mgoto(p, "get_unlock")
    /\ UNCHANGED <<iput, items, mlock, has_space, has_items>>

\* pthread_mutex_unlock
mc_unlock(p) ==
    /\ mpc[p] \in {"put_unlock", "get_unlock"}
    /\ mlock' = NoProcess
    /\ mgoto(p, IF mpc[p] = "put_unlock" THEN "put_post" ELSE "get_post")
    /\ UNCHANGED <<iput, iget, items, has_space, has_items, mitem>>

\* mc_put: sem_post(has_items) and return.
put_post_items(p) ==
    /\ mpc[p] = "put_post"
    /\ has_items' = has_items + 1
    /\ mgoto(p, "out")
    /\ UNCHANGED <<iput, iget, items, mlock, has_space, mitem>>

\* mc_get: sem_post(has_space) and return.
get_post_space(p) ==
    /\ mpc[p] = "get_post"
    /\ has_space' = has_space + 1
    /\ mgoto(p, "out")
    /\ UNCHANGED <<iput, iget, items, mlock, has_items, mitem>>

ChannelStep(p) ==
    \/ put_wait_space(p) \/ get_wait_items(p)
    \/ mc_lock(p)
    \/ put_copy(p) \/ get_copy(p)
    \/ mc_unlock(p)
    \/ put_post_items(p) \/ get_post_space(p)

MNext ==
    \E p \in MCallers :
        \/ \E m \in Messages : mc_put(p, m)
        \/ mc_get(p)
        \/ ChannelStep(p)

MSpec == mc_create /\ [][MNext]_mvars

\* The operating system runs every process that can take a step.
MFairSpec == MSpec /\ \A p \in MCallers : WF_mvars(ChannelStep(p))

-----------------------------------------------------------------------------

MTypeOK ==
    /\ iput \in 0..(IdxMod - 1) /\ iget \in 0..(IdxMod - 1)
    /\ items \in [0..(Cap - 1) -> Messages \cup {NoMessage}]
    /\ mlock \in MCallers \cup {NoProcess}
    /\ has_space \in 0..Cap /\ has_items \in 0..Cap
    /\ mpc \in [MCallers -> {"out", "put_wait", "put_lock", "put_copy",
                             "put_unlock", "put_post", "get_wait", "get_lock",
                             "get_copy", "get_unlock", "get_post"}]
    /\ mitem \in [MCallers -> Messages \cup {NoMessage}]

MInMutex(p) == mpc[p] \in {"put_copy", "put_unlock", "get_copy", "get_unlock"}

\* The processes at one of some places.
Where(labels) == {p \in MCallers : mpc[p] \in labels}

\* Filled slots: the distance between the indices, across the wrap.
Filled == (iput - iget) % IdxMod

\* Every slot is accounted for: it is free and counted by has_space, reserved
\* by a process on its way to fill it, filled, or emptied by a process that
\* has yet to post; and a filled slot is counted by has_items, promised to a
\* process on its way to empty it, or not yet announced.
SlotsAccounted ==
    /\ has_space + Cardinality(Where({"put_lock", "put_copy"})) + Filled
         + Cardinality(Where({"get_unlock", "get_post"})) = Cap
    /\ has_items + Cardinality(Where({"get_lock", "get_copy"}))
         + Cardinality(Where({"put_unlock", "put_post"})) = Filled

\* Exactly the process inside owns the mutex.
MMutex == \A p \in MCallers : MInMutex(p) <=> mlock = p

ChannelInv == MTypeOK /\ MMutex /\ SlotsAccounted

\* The channel as processes see it: the filled slots in order.
Contents == [k \in 1..Filled |-> items[((iget + k - 1) % IdxMod) % Cap]]

ChannelOp(p) ==
    IF mpc[p] \in {"put_wait", "put_lock", "put_copy"} THEN "put"
    ELSE IF mpc[p] \in {"get_wait", "get_lock", "get_copy"} THEN "get"
    ELSE "idle"

Fifo == INSTANCE BlockingFifo WITH
    Callers <- MCallers,
    Items <- Messages \cup {NoMessage},
    Capacity <- Cap,
    fifo <- Contents,
    call <- [p \in MCallers |-> [op |-> ChannelOp(p), item |-> mitem[p]]]

\* memchannel.c implements a blocking FIFO of its capacity with its progress
\* guarantee, through the wrap of the indices: no message is lost,
\* overwritten, duplicated or reordered.
ImplementsChannel == Fifo!AFairSpec
=============================================================================
