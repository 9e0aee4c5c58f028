--------------------------- MODULE ThreadPoolProofs ---------------------------
(***************************************************************************)
(* Proofs about the thread pool, for any finite set of workers and of      *)
(* tasks, any clients and any number of spurious wake-ups, on top of what  *)
(* is proved of its queue in MonitorProofs; then about the parallel adder, *)
(* for any number of threads, values and calls, on top of the pool and of  *)
(* the latch.                                                              *)
(***************************************************************************)
EXTENDS Adder, MonitorProofs, WellFoundedInduction

(***************************************************************************)
(* The inductive invariant                                                 *)
(***************************************************************************)

\* A thread is in the queue's code only inside a submit, a stop or a worker's get.
InQueue ==
    \A c \in QCallers :
        \/ qpc[c] = "out"
        \/ /\ qpc[c] \in {"put_lock", "put_insert", "put_signal", "unlock"}
           /\ tpc[c] \in {"submit", "subtask", "stop_pill"}
        \/ /\ qpc[c] \in {"get_lock", "get_test", "get_wait", "unlock"}
           /\ tpc[c] = "got"

\* Which thread can be where.
Roles ==
    /\ \A w \in Workers :
          /\ tpc[w] \in {"unborn", "loop", "got", "task", "subtask", "exited"}
          /\ tpc[w] \in {"task", "subtask"} <=> cur[w] # NoItem
    /\ \A c \in Clients :
          /\ tpc[c] \in {"init", "unborn", "idle", "submit", "stop_set", "stop_pill",
                         "left", "join", "cleaned"}
          /\ c # Owner => tpc[c] \notin {"init", "join", "cleaned"} /\ back[c] = "idle"
    /\ tpc[Owner] = "init" =>
          stopped = FALSE /\ \A c \in QCallers \ {Owner} : tpc[c] = "unborn"

\* The owner is inside thread_pool_cleanup, or past it.
Closing ==
    \/ tpc[Owner] \in {"join", "cleaned"}
    \/ tpc[Owner] \in {"stop_set", "stop_pill"} /\ back[Owner] = "join"

Ending ==
    /\ Closing => \A c \in Clients \ {Owner} : tpc[c] = "left"
    /\ tpc[Owner] = "cleaned" => \A w \in Workers : tpc[w] = "exited"

\* c has an item that it is about to insert, or that it has just taken out.
Gives(c) == qpc[c] \in {"put_lock", "put_insert"}
Has(c) == tpc[c] = "got" /\ qpc[c] \in {"unlock", "out"}

Carried ==
    \A c \in QCallers :
        /\ tpc[c] \in {"submit", "subtask"} => qitem[c] \in submitted
        /\ tpc[c] = "stop_pill" /\ qpc[c] # "out" => qitem[c] = Pill
        /\ Has(c) => qitem[c] \in QItems

\* A task is in one place: with the thread that inserts it, at one place of the
\* queue, with the worker that has just removed it, or it has been taken.
Places ==
    /\ \A c \in QCallers :
          (Gives(c) \/ Has(c)) /\ qitem[c] # Pill =>
            /\ qitem[c] \in submitted
            /\ taken[qitem[c]] = 0
            /\ qitem[c] \notin Range(qlist)
            /\ \A d \in QCallers :
                  (Gives(d) \/ Has(d)) /\ qitem[d] = qitem[c] => d = c
    /\ \A i, j \in 1..Len(qlist) : qlist[i] = qlist[j] /\ qlist[i] # Pill => i = j
    /\ \A x \in Range(qlist) : x # Pill => x \in submitted /\ taken[x] = 0
    /\ \A x \in Tasks :
          /\ taken[x] \in 0..1
          /\ x \notin submitted => taken[x] = 0
          /\ x \in done => taken[x] = 1
    /\ \A w \in Workers : cur[w] # NoItem => taken[cur[w]] = 1

\* x has been inserted: it is in the queue, or some worker has or had it.
Under(x) ==
    \/ x \in Range(qlist)
    \/ \E w \in Workers : Has(w) /\ qitem[w] = x
    \/ \E w \in Workers : cur[w] = x
    \/ x \in done

\* What thread_pool_submit has inserted is under way to be run, or has been run.
Accepted ==
    /\ \A x \in early : Under(x)
    /\ \A c \in QCallers :
          tpc[c] \in {"submit", "subtask"} /\ ~Gives(c) => Under(qitem[c])

\* Some worker has taken a death pill.
PillTaken == \E w \in Workers : tpc[w] = "exited" \/ (Has(w) /\ qitem[w] = Pill)

\* No death pill is ahead of an early task.
PillsLast ==
    /\ ~stopped => /\ \A c \in QCallers : tpc[c] # "stop_pill"
                   /\ Pill \notin Range(qlist)
                   /\ ~PillTaken
    /\ \A i, j \in 1..Len(qlist) : i < j /\ qlist[i] = Pill => qlist[j] \notin early
    /\ PillTaken => \A i \in 1..Len(qlist) : qlist[i] \notin early

Control == InQueue /\ Roles /\ Ending /\ Carried

\* The inductive invariant.
PoolIInv == QueueInv /\ PTypeOK /\ Control /\ Places /\ Accepted /\ PillsLast

-----------------------------------------------------------------------------

\* The sets of threads and items that the constants name.
LEMMA Constants ==
    /\ Owner \in Clients /\ Owner \in QCallers /\ Owner \notin Workers
    /\ \A w \in Workers : w \in QCallers /\ w \notin Clients
    /\ \A c \in Clients : c \in QCallers /\ c \notin Workers
    /\ \A c \in QCallers : c \in Workers \/ c \in Clients
    /\ \A x \in Tasks : x \in QItems /\ x # Pill /\ x # NoItem
    /\ Pill \in QItems /\ Pill \notin Tasks /\ Pill # NoItem
    /\ \A x \in QItems : x \in Tasks \/ x = Pill
    /\ nthreads \in Nat /\ nthreads > 0
<1>1. nthreads \in Nat /\ nthreads # 0
  BY PoolAssumption, FS_CardinalityType, FS_EmptySet DEF nthreads
<1> QED BY <1>1, PoolAssumption, QueueAssumption

LEMMA PoolInit == PInit => PoolIInv
<1> SUFFICES ASSUME PInit PROVE PoolIInv
  OBVIOUS
<1> USE DEF PInit
<1>1. QueueInv
  BY QueueInvInit
<1>2. /\ queue_init /\ qlist = <<>> /\ Range(qlist) = {} /\ Len(qlist) = 0
      /\ \A c \in QCallers : qpc[c] = "out" /\ tpc[c] \in {"init", "unborn"}
  BY EmptyQueue DEF queue_init
<1>3. PTypeOK
  <2>1. QTypeOK /\ 0 \in 0..nthreads /\ 0 \in Nat
    BY <1>1, Constants DEF QueueInv
  <2>2. pills \in [Clients -> 0..nthreads] /\ taken \in [Tasks -> Nat]
    BY <2>1
  <2> QED BY <2>1, <2>2 DEF PTypeOK
<1>4. Control
  BY <1>2, Constants DEF Control, InQueue, Roles, Ending, Closing, Carried, Has
<1>5. Places /\ Accepted /\ PillsLast
  BY <1>2, Constants
  DEF Places, Gives, Has, Accepted, PillsLast, PillTaken
<1> QED BY <1>1, <1>3, <1>4, <1>5 DEF PoolIInv

\* Every step of the pool is a step of a caller of the queue, or leaves it alone.
LEMMA PoolCallsQueue ==
    ASSUME [PNext]_tpvars, PTypeOK
    PROVE  [\E c \in QCallers : AnyCall(c)]_qvars
<1>1. ASSUME NEW c \in QCallers, NEW x \in Tasks, thread_pool_submit(c, x)
      PROVE  AnyCall(c)
  BY <1>1, Constants DEF thread_pool_submit, AnyCall
<1>2. ASSUME NEW c \in QCallers, PoolStep(c)
      PROVE  AnyCall(c) \/ UNCHANGED qvars
  BY <1>2, Constants
  DEF PoolStep, AnyCall, worker_get, worker_task, worker_exit, submit_return,
      stop_set, stop_pill, stop_return, cleanup_join
<1>3. ASSUME NEW c \in QCallers, spurious(c)
      PROVE  AnyCall(c)
  BY <1>3 DEF AnyCall
<1>4. CASE thread_pool_init \/ thread_pool_cleanup \/ (\E w \in Workers : worker_done(w))
  BY <1>4 DEF thread_pool_init, thread_pool_cleanup, thread_pool_stop, worker_done
<1>5. ASSUME NEW c \in Clients, (At_(c, "idle") /\ thread_pool_stop(c, "idle")) \/ leave(c)
      PROVE  UNCHANGED qvars
  BY <1>5 DEF thread_pool_stop, leave
<1>6. CASE UNCHANGED tpvars
  BY <1>6 DEF tpvars
<1> QED BY <1>1, <1>2, <1>3, <1>4, <1>5, <1>6 DEF PNext

\* The kinds of steps, by what they do to tasks and pills: a step that moves
\* neither, ...
Quiet ==
    /\ UNCHANGED <<qlist, qitem, stopped, cur, submitted, taken, done, early>>
    /\ \A c \in QCallers :
          /\ Gives(c)' <=> Gives(c)
          /\ Has(c)' <=> Has(c)
          /\ tpc'[c] \in {"submit", "subtask"} <=> tpc[c] \in {"submit", "subtask"}
          /\ tpc'[c] = "exited" <=> tpc[c] = "exited"
          /\ tpc'[c] = "stop_pill" => tpc[c] = "stop_pill"

\* ... an insertion, a removal, ...
Insert(c) == put_insert(c) /\ UNCHANGED pvars
Remove(c) == get_take(c) /\ UNCHANGED pvars

\* ... or a step of the pool's own code that changes what it says of tasks.
Loud(c) ==
    \/ Insert(c) \/ Remove(c)
    \/ c \in Workers /\ (worker_task(c) \/ worker_exit(c) \/ worker_done(c))
    \/ \E x \in Tasks : thread_pool_submit(c, x)
    \/ submit_return(c)
    \/ c \in Clients /\ (stop_set(c) \/ stop_pill(c))

LEMMA Kinds ==
    ASSUME PoolIInv, [PNext]_tpvars
    PROVE  Quiet \/ \E c \in QCallers : Loud(c)
<1>1. /\ PTypeOK /\ InQueue /\ Roles /\ DOMAIN tpc = QCallers /\ DOMAIN qpc = QCallers
      /\ \A c \in QCallers : tpc[c] = "init" => c = Owner
  BY Constants DEF PoolIInv, Control, PTypeOK, QTypeOK, Roles
<1> USE DEF Gives, Has
<1>2. CASE UNCHANGED tpvars
  BY <1>2 DEF tpvars, qvars, pvars, Quiet
<1>3. CASE thread_pool_init
  <2>1. /\ UNCHANGED <<qlist, qitem, qpc, stopped, cur, submitted, taken, done, early>>
        /\ \A c \in QCallers : tpc[c] \in {"init", "unborn"}
        /\ \A c \in QCallers : tpc'[c] \in {"loop", "idle"}
    BY <1>1, <1>3, Constants DEF thread_pool_init, qvars, Roles
  <2> QED BY <2>1 DEF Quiet
<1>4. ASSUME NEW c \in QCallers, QueueStep(c) \/ spurious(c), UNCHANGED pvars
      PROVE  Quiet \/ Loud(c)
  <2>1. CASE put_insert(c) \/ get_take(c)
    BY <1>4, <2>1 DEF Loud, Insert, Remove
  <2>2. CASE lock_step(c) \/ put_signal(c) \/ get_wait(c) \/ size_read(c)
             \/ unlock_step(c) \/ spurious(c)
    <3>1. UNCHANGED <<qlist, qitem>> /\ \A d \in QCallers : d # c => qpc'[d] = qpc[d]
      BY <1>1, <2>2
      DEF lock_step, put_signal, get_wait, size_read, unlock_step, spurious, qgoto
    <3>2. \/ qpc'[c] = qpc[c]
          \/ qpc[c] \in {"put_lock", "get_lock", "get_wait"} /\ qpc'[c] = AfterLock[qpc[c]]
          \/ qpc[c] = "put_signal" /\ qpc'[c] = "unlock"
          \/ qpc[c] = "get_test" /\ qpc'[c] = "get_wait"
          \/ qpc[c] = "unlock" /\ qpc'[c] = "out"
      BY <1>1, <2>2
      DEF lock_step, AfterLock, put_signal, get_wait, size_read, unlock_step, spurious,
          qgoto, InQueue
    <3>3. (Gives(c)' <=> Gives(c)) /\ (Has(c)' <=> Has(c))
      BY <1>1, <1>4, <3>2 DEF AfterLock, InQueue, pvars
    <3> QED BY <1>4, <3>1, <3>3 DEF Quiet, pvars
  <2> QED BY <1>4, <2>1, <2>2 DEF QueueStep
<1>5. ASSUME NEW c \in Clients, NEW label \in {"idle", "join"},
             tpc[c] = "idle", thread_pool_stop(c, label)
      PROVE  Quiet
  BY <1>1, <1>5, Constants DEF thread_pool_stop, tgoto, qvars, Quiet
<1>6. ASSUME NEW c \in QCallers,
             \/ c \in Workers /\ worker_get(c)
             \/ c \in Clients /\ stop_return(c)
             \/ leave(c)
             \/ c = Owner /\ cleanup_join
      PROVE  Quiet
  <2>1. /\ UNCHANGED <<qlist, qitem, stopped, cur, submitted, taken, done, early>>
        /\ \A d \in QCallers : d # c => qpc'[d] = qpc[d] /\ tpc'[d] = tpc[d]
        /\ tpc[c] \in {"loop", "stop_pill", "idle", "join"}
        /\ tpc'[c] \in {"got", "idle", "join", "left", "cleaned"}
        /\ qpc[c] = "out" /\ qpc'[c] \in {"out", "get_lock"}
        /\ tpc'[c] = "got" => qpc'[c] = "get_lock"
    BY <1>1, <1>6
    DEF worker_get, queue_get, qgoto, stop_return, leave, cleanup_join, tgoto, qvars,
        At_, PTypeOK
  <2> QED BY <2>1 DEF Quiet
<1>7. ASSUME NEW c \in QCallers, PoolStep(c)
      PROVE  Quiet \/ Loud(c)
  BY <1>4, <1>6, <1>7 DEF PoolStep, Loud
<1>8. ASSUME NEW c \in QCallers, NEW x \in Tasks, thread_pool_submit(c, x)
      PROVE  Loud(c)
  BY <1>8 DEF Loud
<1>9. ASSUME NEW w \in Workers, worker_done(w)
      PROVE  Loud(w)
  BY <1>9 DEF Loud
<1>10. CASE thread_pool_cleanup
  BY <1>5, <1>10, Constants DEF thread_pool_cleanup, At_
<1> QED
  BY <1>2, <1>3, <1>4, <1>5, <1>6, <1>7, <1>8, <1>9, <1>10, Constants DEF PNext, At_

-----------------------------------------------------------------------------

\* Types are kept.
LEMMA PoolTypes ==
    ASSUME PoolIInv, [PNext]_tpvars
    PROVE  QueueInv' /\ PTypeOK'
<1>1. PTypeOK /\ QueueInv'
  BY PoolCallsQueue, QueueInvStep DEF PoolIInv
<1>2. QTypeOK'
  BY <1>1 DEF QueueInv
<1>3. CASE UNCHANGED tpvars
  BY <1>1, <1>2, <1>3 DEF tpvars, pvars, PTypeOK
<1>4. CASE thread_pool_init
  BY <1>1, <1>2, <1>4 DEF thread_pool_init, PTypeOK
<1>5. ASSUME NEW c \in QCallers, QueueStep(c) \/ spurious(c), UNCHANGED pvars
      PROVE  PTypeOK'
  BY <1>1, <1>2, <1>5 DEF pvars, PTypeOK
<1>6. ASSUME NEW c \in Clients, NEW label \in {"idle", "join"}, thread_pool_stop(c, label)
      PROVE  PTypeOK'
  <2>1. pills' \in [Clients -> 0..nthreads]
    BY <1>1, <1>6, Constants DEF thread_pool_stop, PTypeOK
  <2> QED BY <1>1, <1>2, <1>6, <2>1 DEF thread_pool_stop, tgoto, PTypeOK
<1>7. ASSUME NEW c \in QCallers,
             \/ c \in Workers /\ (worker_get(c) \/ worker_exit(c))
             \/ leave(c)
             \/ c = Owner /\ cleanup_join
      PROVE  PTypeOK'
  BY <1>1, <1>2, <1>7
  DEF worker_get, worker_exit, leave, cleanup_join, tgoto, PTypeOK
<1>8. ASSUME NEW w \in Workers, worker_task(w)
      PROVE  PTypeOK'
  <2>1. qitem[w] \in Tasks
    BY <1>8, Constants DEF worker_task, PoolIInv, Control, Carried, Has, At_
  <2>2. taken' \in [Tasks -> Nat]
    BY <1>1, <1>8, <2>1 DEF worker_task, PTypeOK
  <2> QED BY <1>1, <1>2, <1>8, <2>1, <2>2 DEF worker_task, tgoto, PTypeOK
<1>9. ASSUME NEW w \in Workers, worker_done(w)
      PROVE  PTypeOK'
  <2>1. cur[w] \in Tasks
    BY <1>1, <1>9 DEF worker_done, At_, PoolIInv, Control, Roles, PTypeOK
  <2> QED BY <1>1, <1>2, <1>9, <2>1 DEF worker_done, tgoto, PTypeOK
<1>10. ASSUME NEW c \in QCallers, NEW x \in Tasks, thread_pool_submit(c, x)
       PROVE  PTypeOK'
  BY <1>1, <1>2, <1>10 DEF thread_pool_submit, tgoto, PTypeOK
<1>11. ASSUME NEW c \in QCallers, submit_return(c)
       PROVE  PTypeOK'
  <2>1. qitem[c] \in submitted
    BY <1>11 DEF submit_return, PoolIInv, Control, Carried
  <2> QED BY <1>1, <1>2, <1>11, <2>1 DEF submit_return, tgoto, PTypeOK
<1>12. ASSUME NEW c \in Clients, stop_set(c) \/ stop_return(c)
       PROVE  PTypeOK'
  BY <1>1, <1>2, <1>12, Constants DEF stop_set, stop_return, tgoto, PTypeOK
<1>13. ASSUME NEW c \in Clients, stop_pill(c)
       PROVE  PTypeOK'
  <2>1. pills' \in [Clients -> 0..nthreads]
    BY <1>1, <1>13, Constants DEF stop_pill, PTypeOK
  <2> QED BY <1>1, <1>2, <1>13, <2>1 DEF stop_pill, PTypeOK
<1>14. CASE thread_pool_cleanup
  BY <1>1, <1>6, <1>14, Constants DEF thread_pool_cleanup
<1>15. ASSUME NEW c \in QCallers, PoolStep(c)
       PROVE  PTypeOK'
  BY <1>5, <1>7, <1>8, <1>11, <1>12, <1>13, <1>15 DEF PoolStep
<1>16. PTypeOK'
  BY <1>3, <1>4, <1>5, <1>6, <1>7, <1>9, <1>10, <1>14, <1>15, Constants DEF PNext
<1> QED BY <1>1, <1>16

\* A step of c moves no other thread.
LEMMA OwnStep ==
    ASSUME PTypeOK, NEW c \in QCallers,
           \/ (QueueStep(c) \/ spurious(c)) /\ UNCHANGED pvars
           \/ worker_get(c) \/ worker_task(c) \/ worker_exit(c) \/ worker_done(c)
           \/ \E x \in Tasks : thread_pool_submit(c, x)
           \/ submit_return(c)
           \/ \E label \in {"idle", "join"} : thread_pool_stop(c, label)
           \/ stop_set(c) \/ stop_pill(c) \/ stop_return(c) \/ leave(c)
           \/ c = Owner /\ cleanup_join
    PROVE  /\ DOMAIN qpc = QCallers /\ DOMAIN tpc = QCallers /\ DOMAIN qitem = QCallers
           /\ \A d \in QCallers : d # c => /\ qpc'[d] = qpc[d]
                                           /\ tpc'[d] = tpc[d]
                                           /\ qitem'[d] = qitem[d]
<1>1. DOMAIN qpc = QCallers /\ DOMAIN tpc = QCallers /\ DOMAIN qitem = QCallers
  BY DEF PTypeOK, QTypeOK
<1>2. CASE (QueueStep(c) \/ spurious(c)) /\ UNCHANGED pvars
  BY <1>1, <1>2
  DEF QueueStep, lock_step, put_insert, put_signal, get_wait, get_take, size_read,
      unlock_step, spurious, qgoto, pvars
<1>3. CASE \/ worker_get(c) \/ worker_task(c) \/ worker_exit(c) \/ worker_done(c)
           \/ submit_return(c) \/ (\E label \in {"idle", "join"} : thread_pool_stop(c, label))
           \/ stop_set(c) \/ stop_return(c) \/ leave(c)
           \/ (c = Owner /\ cleanup_join)
  BY <1>1, <1>3
  DEF worker_get, queue_get, qgoto, worker_task, worker_exit, worker_done, submit_return,
      thread_pool_stop, stop_set, stop_return, leave, cleanup_join, tgoto, qvars
<1>4. CASE stop_pill(c) \/ (\E x \in Tasks : thread_pool_submit(c, x))
  BY <1>1, <1>4 DEF stop_pill, thread_pool_submit, queue_put, qgoto, tgoto
<1> QED BY <1>1, <1>2, <1>3, <1>4

\* Who is where is kept.
LEMMA PoolControl ==
    ASSUME PoolIInv, [PNext]_tpvars
    PROVE  Control'
<1>1. /\ PTypeOK /\ InQueue /\ Roles /\ Ending /\ Carried
      /\ DOMAIN tpc = QCallers /\ DOMAIN qpc = QCallers /\ DOMAIN qitem = QCallers
      /\ submitted \subseteq Tasks
  BY DEF PoolIInv, Control, PTypeOK, QTypeOK
<1> USE DEF Control, Gives, Has, Closing
<1>2. CASE UNCHANGED tpvars
  BY <1>1, <1>2 DEF tpvars, qvars, pvars, InQueue, Roles, Ending, Carried
<1>3. CASE thread_pool_init
  <2>1. /\ UNCHANGED <<qitem, qpc, cur, submitted, back>>
        /\ \A c \in QCallers : tpc[c] \in {"init", "unborn"}
        /\ \A w \in Workers : tpc'[w] = "loop"
        /\ \A c \in Clients : tpc'[c] = "idle"
    BY <1>1, <1>3, Constants DEF thread_pool_init, qvars, Roles
  <2> QED BY <1>1, <2>1, Constants DEF InQueue, Roles, Ending, Carried
<1>4. ASSUME NEW c \in QCallers, QueueStep(c) \/ spurious(c), UNCHANGED pvars
      PROVE  Control'
  <2>1. \A d \in QCallers : d # c => qpc'[d] = qpc[d] /\ qitem'[d] = qitem[d]
    BY <1>1, <1>4, OwnStep
  <2>2. /\ UNCHANGED <<stopped, tpc, back, cur, submitted>>
        /\ \/ qpc'[c] = qpc[c] /\ qitem'[c] = qitem[c]
           \/ qpc[c] \in {"put_lock", "get_lock", "get_wait"} /\ qitem'[c] = qitem[c]
              /\ qpc'[c] = AfterLock[qpc[c]]
           \/ qpc[c] = "put_insert" /\ qpc'[c] = "put_signal" /\ qitem'[c] = qitem[c]
           \/ qpc[c] = "put_signal" /\ qpc'[c] = "unlock" /\ qitem'[c] = qitem[c]
           \/ qpc[c] = "get_test" /\ qpc'[c] = "get_wait" /\ qitem'[c] = qitem[c]
           \/ qpc[c] = "get_test" /\ qpc'[c] = "unlock" /\ qitem'[c] \in QItems
           \/ qpc[c] = "unlock" /\ qpc'[c] = "out" /\ qitem'[c] = qitem[c]
    <3>1. get_take(c) => Head(qlist) \in QItems
      <4>1. qlist \in Seq(QItems) /\ qsize = Len(qlist)
        BY DEF PoolIInv, QueueInv, QTypeOK, Monitor
      <4>2. qsize # 0 => qlist # <<>>
        BY <4>1
      <4> QED BY <4>1, <4>2, TailQueue DEF get_take
    <3> QED
      BY <1>1, <1>4, <3>1
      DEF QueueStep, lock_step, put_insert, put_signal, get_wait, get_take, size_read,
          unlock_step, spurious, qgoto, pvars, AfterLock, InQueue
  <2>3. InQueue' /\ Carried'
    BY <1>1, <2>1, <2>2 DEF AfterLock, InQueue, Carried
  <2>4. Roles' /\ Ending'
    BY <1>1, <2>2 DEF Roles, Ending
  <2> QED BY <2>3, <2>4
<1>5. ASSUME NEW c \in Clients, NEW label \in {"idle", "join"},
             At_(c, "idle"), thread_pool_stop(c, label),
             label = "join" => c = Owner /\ \A d \in Clients \ {Owner} : tpc[d] = "left",
             label = "idle" \/ c = Owner
      PROVE  Control'
  <2>1. /\ UNCHANGED <<qpc, qitem, stopped, cur, submitted>>
        /\ \A d \in QCallers : d # c => tpc'[d] = tpc[d]
        /\ \A d \in Clients : d # c => back'[d] = back[d]
        /\ tpc'[c] \in {label, "stop_set"} /\ back'[c] = label
        /\ tpc[c] = "idle" /\ qpc[c] = "out"
    BY <1>1, <1>5, Constants DEF thread_pool_stop, tgoto, qvars, At_, PTypeOK
  <2>2. InQueue' /\ Carried'
    BY <1>1, <2>1 DEF InQueue, Carried
  <2>3. Roles'
    BY <1>1, <1>5, <2>1, Constants DEF Roles
  <2>4. Ending'
    BY <1>1, <1>5, <2>1, Constants DEF Ending, Roles
  <2> QED BY <2>2, <2>3, <2>4
<1>6. ASSUME NEW w \in Workers,
             worker_get(w) \/ worker_task(w) \/ worker_exit(w) \/ worker_done(w)
      PROVE  Control'
  <2>1. \A d \in QCallers : d # w => tpc'[d] = tpc[d] /\ qpc'[d] = qpc[d]
    BY <1>1, <1>6, Constants, OwnStep
  <2>2. /\ UNCHANGED <<qitem, stopped, back, submitted>>
        /\ \A v \in Workers : v # w => cur'[v] = cur[v]
        /\ qpc[w] = "out"
        /\ \/ tpc[w] = "loop" /\ tpc'[w] = "got" /\ qpc'[w] = "get_lock" /\ cur' = cur
           \/ tpc[w] = "got" /\ tpc'[w] = "task" /\ qpc'[w] = "out" /\ cur'[w] = qitem[w]
              /\ qitem[w] # NoItem
           \/ tpc[w] = "got" /\ tpc'[w] = "exited" /\ qpc'[w] = "out" /\ cur' = cur
           \/ tpc[w] = "task" /\ tpc'[w] = "loop" /\ qpc'[w] = "out" /\ cur'[w] = NoItem
    BY <1>1, <1>6, Constants, QueueAssumption
    DEF worker_get, queue_get, qgoto, worker_task, worker_exit, worker_done, tgoto, qvars,
        At_, PTypeOK, Carried
  <2>3. InQueue' /\ Carried'
    BY <1>1, <2>1, <2>2 DEF InQueue, Carried
  <2>4. Roles'
    BY <1>1, <2>1, <2>2, Constants DEF Roles
  <2>5. Ending'
    BY <1>1, <2>1, <2>2, Constants DEF Ending
  <2> QED BY <2>3, <2>4, <2>5
<1>7. ASSUME NEW c \in QCallers, NEW x \in Tasks, thread_pool_submit(c, x)
      PROVE  Control'
  <2>1. \A d \in QCallers : d # c =>
           tpc'[d] = tpc[d] /\ qpc'[d] = qpc[d] /\ qitem'[d] = qitem[d]
    BY <1>1, <1>7, OwnStep
  <2>2. /\ UNCHANGED <<stopped, back, cur>> /\ submitted' = submitted \cup {x}
        /\ qpc'[c] = "put_lock" /\ qitem'[c] = x
        /\ \/ tpc[c] = "idle" /\ tpc'[c] = "submit"
           \/ tpc[c] = "task" /\ tpc'[c] = "subtask"
    BY <1>1, <1>7 DEF thread_pool_submit, queue_put, qgoto, tgoto, InUserCode
  <2>3. InQueue' /\ Carried'
    BY <1>1, <2>1, <2>2 DEF InQueue, Carried
  <2>4. Roles'
    BY <1>1, <2>1, <2>2, Constants DEF Roles
  <2>5. Ending'
    BY <1>1, <2>1, <2>2, Constants DEF Ending
  <2> QED BY <2>3, <2>4, <2>5
<1>8. ASSUME NEW c \in QCallers, submit_return(c)
      PROVE  Control'
  <2>1. /\ UNCHANGED <<qpc, qitem, stopped, back, cur, submitted>> /\ qpc[c] = "out"
        /\ \A d \in QCallers : d # c => tpc'[d] = tpc[d]
        /\ \/ tpc[c] = "submit" /\ tpc'[c] = "idle"
           \/ tpc[c] = "subtask" /\ tpc'[c] = "task"
    BY <1>1, <1>8 DEF submit_return, tgoto, qvars
  <2>2. InQueue' /\ Carried'
    BY <1>1, <2>1 DEF InQueue, Carried
  <2>3. Roles'
    BY <1>1, <2>1, Constants DEF Roles
  <2>4. Ending'
    BY <1>1, <2>1, Constants DEF Ending
  <2> QED BY <2>2, <2>3, <2>4
<1>9. ASSUME NEW c \in Clients, stop_set(c) \/ stop_return(c) \/ leave(c)
      PROVE  Control'
  <2>1. /\ UNCHANGED <<qpc, qitem, back, cur, submitted>> /\ qpc[c] = "out"
        /\ \A d \in QCallers : d # c => tpc'[d] = tpc[d]
        /\ \/ tpc[c] = "stop_set" /\ tpc'[c] = "stop_pill"
           \/ tpc[c] = "stop_pill" /\ tpc'[c] = back[c] /\ stopped' = stopped
           \/ tpc[c] = "idle" /\ tpc'[c] = "left" /\ c # Owner /\ stopped' = stopped
        /\ back[c] \in {"idle", "join"}
    BY <1>1, <1>9, Constants
    DEF stop_set, stop_return, leave, tgoto, qvars, At_, InQueue, PTypeOK
  <2>2. InQueue' /\ Carried'
    BY <1>1, <2>1 DEF InQueue, Carried
  <2>3. Roles'
    BY <1>1, <2>1, Constants DEF Roles
  <2>4. Ending'
    BY <1>1, <2>1, Constants DEF Ending, Roles
  <2> QED BY <2>2, <2>3, <2>4
<1>10. ASSUME NEW c \in Clients, stop_pill(c)
       PROVE  Control'
  <2>1. \A d \in QCallers : d # c => qpc'[d] = qpc[d] /\ qitem'[d] = qitem[d]
    BY <1>1, <1>10, OwnStep, Constants
  <2>2. /\ UNCHANGED <<stopped, tpc, back, cur, submitted>> /\ tpc[c] = "stop_pill"
        /\ qpc'[c] = "put_lock" /\ qitem'[c] = Pill
    BY <1>1, <1>10, Constants DEF stop_pill, queue_put, qgoto, At_
  <2>3. InQueue' /\ Carried'
    BY <1>1, <2>1, <2>2 DEF InQueue, Carried
  <2>4. Roles' /\ Ending'
    BY <1>1, <2>2 DEF Roles, Ending
  <2> QED BY <2>3, <2>4
<1>11. CASE cleanup_join
  <2>1. /\ UNCHANGED <<qpc, qitem, stopped, back, cur, submitted>>
        /\ tpc[Owner] = "join" /\ tpc' = [tpc EXCEPT ![Owner] = "cleaned"]
        /\ \A w \in Workers : tpc[w] = "exited"
        /\ qpc[Owner] = "out"
    BY <1>11 DEF cleanup_join, tgoto, qvars, At_
  <2>2. InQueue' /\ Carried'
    BY <1>1, <2>1 DEF InQueue, Carried
  <2>3. Roles'
    BY <1>1, <2>1, Constants DEF Roles
  <2>4. Ending'
    BY <1>1, <2>1, Constants DEF Ending
  <2> QED BY <2>2, <2>3, <2>4
<1>12. ASSUME NEW c \in QCallers, PoolStep(c)
       PROVE  Control'
  BY <1>4, <1>6, <1>8, <1>9, <1>10, <1>11, <1>12 DEF PoolStep
<1>13. CASE thread_pool_cleanup
  BY <1>5, <1>13, Constants DEF thread_pool_cleanup
<1> QED
  BY <1>2, <1>3, <1>4, <1>5, <1>6, <1>7, <1>9, <1>12, <1>13, Constants DEF PNext

-----------------------------------------------------------------------------

\* Quiet steps keep the tasks and the pills where they are.
LEMMA QuietKeeps ==
    ASSUME PoolIInv, Quiet
    PROVE  Places' /\ Accepted' /\ PillsLast'
<1>1. Places /\ Accepted /\ PillsLast
  BY DEF PoolIInv
<1>2. UNCHANGED <<qlist, qitem, stopped, cur, submitted, taken, done, early>>
  BY DEF Quiet
<1>3. \A c \in QCallers : /\ Gives(c)' <=> Gives(c)
                          /\ Has(c)' <=> Has(c)
                          /\ tpc'[c] \in {"submit", "subtask"} <=> tpc[c] \in {"submit", "subtask"}
                          /\ tpc'[c] = "exited" <=> tpc[c] = "exited"
                          /\ tpc'[c] = "stop_pill" => tpc[c] = "stop_pill"
  BY DEF Quiet
<1>4. Places'
  BY <1>1, <1>2, <1>3 DEF Places
<1>5. Accepted'
  <2>1. \A x : Under(x)' <=> Under(x)
    BY <1>2, <1>3, Constants DEF Under
  <2> QED BY <1>1, <1>2, <1>3, <2>1 DEF Accepted
<1>6. PillsLast'
  <2>1. PillTaken' <=> PillTaken
    BY <1>2, <1>3, Constants DEF PillTaken
  <2> QED BY <1>1, <1>2, <1>3, <2>1 DEF PillsLast
<1> QED BY <1>4, <1>5, <1>6

\* A loud step of c moves no other thread, and what it has in hand.
LEMMA LoudOwn ==
    ASSUME PoolIInv, NEW c \in QCallers, Loud(c)
    PROVE  \A d \in QCallers : d # c => /\ qpc'[d] = qpc[d]
                                       /\ tpc'[d] = tpc[d]
                                       /\ qitem'[d] = qitem[d]
BY OwnStep DEF PoolIInv, Loud, Insert, Remove, QueueStep

\* An insertion moves a task from its thread to the end of the queue.
LEMMA InsertKeeps ==
    ASSUME PoolIInv, NEW c \in QCallers, Insert(c)
    PROVE  Places' /\ Accepted' /\ PillsLast'
<1> DEFINE x == qitem[c]
           n == Len(qlist)
<1>1. /\ Places /\ Accepted /\ PillsLast /\ InQueue /\ Carried
      /\ qlist \in Seq(QItems) /\ n \in Nat /\ x \in QItems
      /\ early \subseteq submitted /\ submitted \subseteq Tasks
  BY DEF PoolIInv, Control, QueueInv, QTypeOK, PutsItem, PTypeOK, Insert, put_insert
<1>2. /\ UNCHANGED <<qitem, tpc, stopped, cur, submitted, taken, done, early>>
      /\ qpc[c] = "put_insert" /\ qpc'[c] = "put_signal"
      /\ qlist' = Append(qlist, x)
      /\ \A d \in QCallers : d # c => qpc'[d] = qpc[d]
  BY DEF Insert, put_insert, qgoto, pvars, PoolIInv, PTypeOK, QTypeOK
<1>3. /\ Gives(c) /\ ~Gives(c)' /\ ~Has(c) /\ ~Has(c)'
      /\ \A d \in QCallers : d # c => (Gives(d)' <=> Gives(d)) /\ (Has(d)' <=> Has(d))
  BY <1>2 DEF Gives, Has
<1>4. /\ Range(qlist') = Range(qlist) \cup {x} /\ Len(qlist') = n + 1
      /\ \A i \in 1..(n + 1) : qlist'[i] = IF i = n + 1 THEN x ELSE qlist[i]
      /\ \A i \in 1..n : qlist[i] \in Range(qlist)
  BY <1>1, <1>2, AppendQueue, RangeIsElements
<1>5. /\ x # Pill => /\ x \in submitted /\ taken[x] = 0 /\ x \notin Range(qlist)
                     /\ \A d \in QCallers : (Gives(d) \/ Has(d)) /\ qitem[d] = x => d = c
      /\ x \notin early
  <2>1. x # Pill => /\ x \in submitted /\ taken[x] = 0 /\ x \notin Range(qlist)
                    /\ \A d \in QCallers : (Gives(d) \/ Has(d)) /\ qitem[d] = x => d = c
    BY <1>1, <1>3 DEF Places
  <2>2. ASSUME x \in early PROVE FALSE
    <3>1. x \in Tasks /\ x # Pill
      BY <1>1, <2>2, Constants
    <3>2. x \notin Range(qlist) /\ taken[x] = 0
      BY <2>1, <3>1
    <3>3. ~\E w \in Workers : Has(w) /\ qitem[w] = x
      BY <1>3, <2>1, <3>1, Constants
    <3>4. x \notin done /\ ~\E w \in Workers : cur[w] = x
      BY <1>1, <3>1, <3>2, Constants DEF Places
    <3> QED BY <1>1, <2>2, <3>2, <3>3, <3>4 DEF Accepted, Under
  <2> QED BY <2>1, <2>2
<1> HIDE DEF x, n
<1>6. Places'
  <2>1. \A d \in QCallers : (Gives(d)' \/ Has(d)') /\ qitem[d] # Pill =>
            /\ qitem[d] \in submitted /\ taken[qitem[d]] = 0 /\ qitem[d] \notin Range(qlist')
            /\ \A e \in QCallers : (Gives(e)' \/ Has(e)') /\ qitem[e] = qitem[d] => e = d
    BY <1>1, <1>3, <1>4, <1>5 DEF Places, x
  <2>2. \A i, j \in 1..(n + 1) : qlist'[i] = qlist'[j] /\ qlist'[i] # Pill => i = j
    <3> SUFFICES ASSUME NEW i \in 1..(n + 1), NEW j \in 1..(n + 1),
                        qlist'[i] = qlist'[j], qlist'[i] # Pill
                 PROVE  i = j
      OBVIOUS
    <3>1. CASE i = n + 1 \/ j = n + 1
      BY <1>1, <1>4, <1>5, <3>1
    <3>2. CASE i # n + 1 /\ j # n + 1
      <4>1. i \in 1..n /\ j \in 1..n /\ qlist[i] = qlist[j] /\ qlist[i] # Pill
        BY <1>1, <1>4, <3>2
      <4> QED BY <1>1, <4>1 DEF Places, n
    <3> QED BY <3>1, <3>2
  <2>3. \A y \in Range(qlist') : y # Pill => y \in submitted /\ taken[y] = 0
    BY <1>1, <1>4, <1>5 DEF Places
  <2> QED BY <1>1, <1>2, <1>4, <2>1, <2>2, <2>3 DEF Places
<1>7. Accepted'
  <2>1. \A y : Under(y) => Under(y)'
    BY <1>2, <1>3, <1>4, Constants DEF Under
  <2>2. \A y : y = x => Under(y)'
    BY <1>4 DEF Under
  <2> QED BY <1>1, <1>2, <1>3, <2>1, <2>2 DEF Accepted, x
<1>8. PillsLast'
  <2>1. PillTaken' <=> PillTaken
    BY <1>2, <1>3, Constants DEF PillTaken
  <2>2. ~stopped => x # Pill
    <3>1. x = Pill => tpc[c] = "stop_pill"
      BY <1>1, <1>2, Constants DEF InQueue, Carried, x
    <3> QED BY <1>1, <3>1 DEF PillsLast
  <2>3. \A i, j \in 1..(n + 1) : i < j /\ qlist'[i] = Pill => qlist'[j] \notin early
    <3> SUFFICES ASSUME NEW i \in 1..(n + 1), NEW j \in 1..(n + 1), i < j, qlist'[i] = Pill
                 PROVE  qlist'[j] \notin early
      OBVIOUS
    <3>1. CASE j = n + 1
      BY <1>4, <1>5, <3>1
    <3>2. CASE j # n + 1
      <4>1. i \in 1..n /\ j \in 1..n /\ qlist[i] = Pill /\ qlist'[j] = qlist[j]
        BY <1>1, <1>4, <3>2
      <4> QED BY <1>1, <4>1 DEF PillsLast, n
    <3> QED BY <3>1, <3>2
  <2>4. PillTaken => \A i \in 1..(n + 1) : qlist'[i] \notin early
    BY <1>1, <1>4, <1>5 DEF PillsLast, n
  <2> QED BY <1>1, <1>2, <1>4, <2>1, <2>2, <2>3, <2>4 DEF PillsLast
<1> QED BY <1>6, <1>7, <1>8

\* A removal moves the head of the queue to the worker; a pill at the head has
\* no early task behind it.
LEMMA RemoveKeeps ==
    ASSUME PoolIInv, NEW c \in QCallers, Remove(c)
    PROVE  Places' /\ Accepted' /\ PillsLast'
<1> DEFINE h == Head(qlist)
           n == Len(qlist)
<1>1. /\ Places /\ Accepted /\ PillsLast /\ InQueue /\ Roles
      /\ qlist \in Seq(QItems) /\ n \in Nat /\ qlist # <<>>
  <2>1. qlist \in Seq(QItems) /\ n # 0
    BY DEF PoolIInv, QueueInv, QTypeOK, Monitor, Remove, get_take
  <2>2. Places /\ Accepted /\ PillsLast /\ InQueue /\ Roles
    BY DEF PoolIInv, Control
  <2> QED BY <2>1, <2>2
<1>2. /\ UNCHANGED <<tpc, stopped, cur, submitted, taken, done, early>>
      /\ qpc[c] = "get_test" /\ qpc'[c] = "unlock"
      /\ qlist' = Tail(qlist) /\ qitem'[c] = h
      /\ \A d \in QCallers : d # c => qpc'[d] = qpc[d] /\ qitem'[d] = qitem[d]
  BY DEF Remove, get_take, qgoto, pvars, PoolIInv, PTypeOK, QTypeOK
<1>3. /\ c \in Workers /\ tpc[c] = "got"
      /\ ~Gives(c) /\ ~Gives(c)' /\ ~Has(c) /\ Has(c)'
      /\ \A d \in QCallers : d # c => (Gives(d)' <=> Gives(d)) /\ (Has(d)' <=> Has(d))
  BY <1>1, <1>2, Constants DEF Gives, Has, InQueue, Roles
<1>4. /\ Range(qlist) = Range(qlist') \cup {h} /\ Len(qlist') = n - 1 /\ n > 0
      /\ h = qlist[1] /\ h \in Range(qlist)
      /\ \A i \in 1..(n - 1) : qlist'[i] = qlist[i + 1]
      /\ \A i \in 1..(n - 1) : qlist'[i] \in Range(qlist')
      /\ \A y \in Range(qlist') : \E i \in 1..(n - 1) : y = qlist[i + 1]
  <2>1. /\ Range(qlist) = Range(qlist') \cup {h} /\ Len(qlist') = n - 1 /\ n > 0
        /\ h \in Range(qlist) /\ qlist' \in Seq(QItems)
    BY <1>1, <1>2, TailQueue
  <2>2. h = qlist[1] /\ \A i \in 1..(n - 1) : qlist'[i] = qlist[i + 1]
    BY <1>1, <1>2
  <2>3. Range(qlist') = {qlist'[i] : i \in 1..(n - 1)}
    BY <2>1, RangeIsElements
  <2> QED BY <2>1, <2>2, <2>3
<1> HIDE DEF h, n
<1>5. h # Pill => /\ h \in submitted /\ taken[h] = 0 /\ h \notin Range(qlist')
                  /\ \A d \in QCallers : (Gives(d) \/ Has(d)) => qitem[d] # h
  <2>1. h # Pill => /\ h \in submitted /\ taken[h] = 0
                    /\ \A d \in QCallers : (Gives(d) \/ Has(d)) => qitem[d] # h
    BY <1>1, <1>4 DEF Places
  <2>2. ASSUME h # Pill, h \in Range(qlist') PROVE FALSE
    <3>1. PICK i \in 1..(n - 1) : h = qlist[i + 1]
      BY <1>4, <2>2
    <3>2. i + 1 \in 1..n /\ 1 \in 1..n /\ qlist[i + 1] = qlist[1]
      BY <1>1, <1>4, <3>1
    <3>3. i + 1 = 1
      BY <1>1, <1>4, <2>2, <3>2 DEF Places, n
    <3> QED BY <3>3
  <2> QED BY <2>1, <2>2
<1>6. Places'
  <2>1. \A d \in QCallers : (Gives(d)' \/ Has(d)') /\ qitem'[d] # Pill =>
            /\ qitem'[d] \in submitted /\ taken[qitem'[d]] = 0 /\ qitem'[d] \notin Range(qlist')
            /\ \A e \in QCallers : (Gives(e)' \/ Has(e)') /\ qitem'[e] = qitem'[d] => e = d
    BY <1>1, <1>2, <1>3, <1>4, <1>5 DEF Places
  <2>2. \A i, j \in 1..(n - 1) : qlist'[i] = qlist'[j] /\ qlist'[i] # Pill => i = j
    <3> SUFFICES ASSUME NEW i \in 1..(n - 1), NEW j \in 1..(n - 1),
                        qlist'[i] = qlist'[j], qlist'[i] # Pill
                 PROVE  i = j
      OBVIOUS
    <3>1. i + 1 \in 1..n /\ j + 1 \in 1..n /\ qlist[i + 1] = qlist[j + 1] /\ qlist[i + 1] # Pill
      BY <1>1, <1>4
    <3>2. i + 1 = j + 1
      BY <1>1, <3>1 DEF Places, n
    <3> QED BY <3>2
  <2>3. \A y \in Range(qlist') : y # Pill => y \in submitted /\ taken[y] = 0
    BY <1>1, <1>4 DEF Places
  <2> QED BY <1>1, <1>2, <1>4, <2>1, <2>2, <2>3 DEF Places
<1>7. Accepted'
  <2>1. \A y : Under(y) => Under(y)'
    BY <1>2, <1>3, <1>4, Constants DEF Under
  <2>2. \A d \in QCallers : tpc[d] \in {"submit", "subtask"} =>
            (Gives(d)' <=> Gives(d)) /\ qitem'[d] = qitem[d]
    BY <1>2, <1>3
  <2> QED BY <1>1, <1>2, <2>1, <2>2 DEF Accepted
<1>8. PillsLast'
  <2>1. PillTaken' <=> PillTaken \/ h = Pill
    BY <1>2, <1>3, Constants DEF PillTaken
  <2>2. ~stopped => h # Pill /\ Pill \notin Range(qlist')
    BY <1>1, <1>4 DEF PillsLast
  <2>3. \A i, j \in 1..(n - 1) : i < j /\ qlist'[i] = Pill => qlist'[j] \notin early
    <3> SUFFICES ASSUME NEW i \in 1..(n - 1), NEW j \in 1..(n - 1), i < j, qlist'[i] = Pill
                 PROVE  qlist'[j] \notin early
      OBVIOUS
    <3>1. /\ i + 1 \in 1..n /\ j + 1 \in 1..n /\ i + 1 < j + 1
          /\ qlist[i + 1] = Pill /\ qlist'[j] = qlist[j + 1]
      BY <1>1, <1>4
    <3> QED BY <1>1, <3>1 DEF PillsLast, n
  <2>4. ASSUME PillTaken \/ h = Pill, NEW i \in 1..(n - 1)
        PROVE  qlist'[i] \notin early
    <3>1. 1 \in 1..n /\ i + 1 \in 1..n /\ 1 < i + 1 /\ qlist'[i] = qlist[i + 1]
      BY <1>1, <1>4
    <3> QED BY <1>1, <1>4, <2>4, <3>1 DEF PillsLast, n
  <2> QED BY <1>1, <1>2, <1>4, <2>1, <2>2, <2>3, <2>4 DEF PillsLast
<1> QED BY <1>6, <1>7, <1>8

\* A worker goes on with what it has taken: a task starts or ends, or the pill
\* ends the worker.
LEMMA WorkerKeeps ==
    ASSUME PoolIInv, NEW w \in Workers,
           worker_task(w) \/ worker_exit(w) \/ worker_done(w)
    PROVE  Places' /\ Accepted' /\ PillsLast'
<1>1. /\ Places /\ Accepted /\ PillsLast /\ Roles /\ Carried /\ w \in QCallers
      /\ early \subseteq Tasks /\ submitted \subseteq Tasks /\ DOMAIN taken = Tasks
      /\ cur \in [Workers -> Tasks \cup {NoItem}] /\ DOMAIN tpc = QCallers
      /\ \A c \in QCallers : tpc[c] \in {"submit", "subtask"} => qitem[c] \in Tasks
  BY Constants DEF PoolIInv, Control, Carried, PTypeOK
<1>2. /\ UNCHANGED <<qlist, qitem, qpc, stopped, submitted, early>> /\ qpc[w] = "out"
      /\ \A d \in QCallers : d # w => tpc'[d] = tpc[d]
      /\ \A d \in Workers : d # w => cur'[d] = cur[d]
      /\ \A d \in QCallers : Gives(d)' <=> Gives(d)
      /\ \A d \in QCallers : d # w => (Has(d)' <=> Has(d))
  BY <1>1
  DEF worker_task, worker_exit, worker_done, At_, tgoto, qvars, Gives, Has
<1>3. CASE worker_task(w)
  <2> DEFINE x == qitem[w]
  <2>1. /\ done' = done /\ cur'[w] = x /\ taken' = [taken EXCEPT ![x] = @ + 1]
        /\ tpc[w] = "got" /\ tpc'[w] = "task" /\ x # Pill
    BY <1>1, <1>3 DEF worker_task, At_, tgoto
  <2>2. Has(w) /\ ~Has(w)'
    BY <1>2, <2>1 DEF Has
  <2>3. /\ x \in submitted /\ x \in Tasks /\ taken[x] = 0 /\ x \notin Range(qlist)
        /\ \A d \in QCallers : (Gives(d) \/ Has(d)) /\ qitem[d] = x => d = w
    BY <1>1, <2>1, <2>2 DEF Places
  <2>4. taken'[x] = 1 /\ \A y \in Tasks : y # x => taken'[y] = taken[y]
    BY <1>1, <2>1, <2>3
  <2> HIDE DEF x
  <2>5. Places'
    <3>1. \A d \in QCallers : (Gives(d)' \/ Has(d)') /\ qitem[d] # Pill =>
            /\ qitem[d] \in submitted /\ taken'[qitem[d]] = 0 /\ qitem[d] \notin Range(qlist)
            /\ \A e \in QCallers : (Gives(e)' \/ Has(e)') /\ qitem[e] = qitem[d] => e = d
      <4>1. \A d \in QCallers : (Gives(d)' \/ Has(d)') => (Gives(d) \/ Has(d))
        BY <1>2, <2>2
      <4>2. \A d \in QCallers : (Gives(d)' \/ Has(d)') => qitem[d] # x
        BY <1>2, <2>2, <2>3, <4>1 DEF Gives
      <4>3. \A d \in QCallers : (Gives(d)' \/ Has(d)') /\ qitem[d] # Pill =>
              /\ qitem[d] \in submitted /\ taken[qitem[d]] = 0 /\ qitem[d] \notin Range(qlist)
              /\ \A e \in QCallers : (Gives(e)' \/ Has(e)') /\ qitem[e] = qitem[d] => e = d
        BY <1>1, <4>1 DEF Places
      <4> QED BY <1>1, <2>4, <4>2, <4>3
    <3>2. \A y \in Range(qlist) : y # Pill => y \in submitted /\ taken'[y] = 0
      BY <1>1, <2>3, <2>4 DEF Places
    <3>3. \A y \in Tasks : /\ taken'[y] \in 0..1
                           /\ y \notin submitted => taken'[y] = 0
                           /\ y \in done => taken'[y] = 1
      BY <1>1, <2>3, <2>4 DEF Places
    <3>4. \A v \in Workers : cur'[v] # NoItem => taken'[cur'[v]] = 1
      BY <1>1, <1>2, <2>1, <2>4 DEF Places
    <3> QED BY <1>1, <1>2, <2>1, <3>1, <3>2, <3>3, <3>4 DEF Places
  <2>6. Accepted'
    <3>1. \A y \in Tasks : Under(y) => Under(y)'
      <4>1. cur[w] = NoItem
        BY <1>1, <2>1 DEF Roles
      <4> QED BY <1>2, <2>1, <4>1, Constants DEF Under, x
    <3>2. \A c \in QCallers : tpc'[c] \in {"submit", "subtask"} => tpc[c] \in {"submit", "subtask"}
      BY <1>2, <2>1
    <3> QED BY <1>1, <1>2, <3>1, <3>2 DEF Accepted
  <2>7. PillsLast'
    <3>1. PillTaken' <=> PillTaken
      BY <1>2, <2>1, <2>2, Constants DEF PillTaken, x
    <3>2. \A c \in QCallers : tpc'[c] = "stop_pill" => tpc[c] = "stop_pill"
      BY <1>2, <2>1
    <3> QED BY <1>1, <1>2, <3>1, <3>2 DEF PillsLast
  <2> QED BY <2>5, <2>6, <2>7
<1>4. CASE worker_exit(w)
  <2>1. /\ UNCHANGED <<cur, taken, done>>
        /\ tpc[w] = "got" /\ tpc'[w] = "exited" /\ qitem[w] = Pill
    BY <1>1, <1>4 DEF worker_exit, At_, tgoto
  <2>2. Has(w) /\ ~Has(w)'
    BY <1>2, <2>1 DEF Has
  <2>3. Places'
    BY <1>1, <1>2, <2>1, <2>2 DEF Places
  <2>4. Accepted'
    <3>1. \A y \in Tasks : Under(y) => Under(y)'
      BY <1>2, <2>1, Constants DEF Under
    <3>2. \A c \in QCallers : tpc'[c] \in {"submit", "subtask"} => tpc[c] \in {"submit", "subtask"}
      BY <1>2, <2>1
    <3> QED BY <1>1, <1>2, <3>1, <3>2 DEF Accepted
  <2>5. PillsLast'
    <3>1. PillTaken' /\ PillTaken
      BY <1>2, <2>1, <2>2, Constants DEF PillTaken
    <3>2. \A c \in QCallers : tpc'[c] = "stop_pill" => tpc[c] = "stop_pill"
      BY <1>2, <2>1
    <3> QED BY <1>1, <1>2, <3>1, <3>2 DEF PillsLast
  <2> QED BY <2>3, <2>4, <2>5
<1>5. CASE worker_done(w)
  <2>1. /\ taken' = taken /\ done' = done \cup {cur[w]} /\ cur'[w] = NoItem
        /\ tpc[w] = "task" /\ tpc'[w] = "loop" /\ cur[w] # NoItem
    BY <1>1, <1>5 DEF worker_done, At_, tgoto, Roles
  <2>2. ~Has(w) /\ ~Has(w)'
    BY <1>2, <2>1 DEF Has
  <2>3. Places'
    <3>1. \A y \in Tasks : y \in done' => taken[y] = 1
      BY <1>1, <2>1 DEF Places
    <3>2. \A v \in Workers : cur'[v] # NoItem => taken[cur'[v]] = 1
      BY <1>1, <1>2, <2>1 DEF Places
    <3> QED BY <1>1, <1>2, <2>1, <2>2, <3>1, <3>2 DEF Places
  <2>4. Accepted'
    <3>1. \A y \in Tasks : Under(y) => Under(y)'
      BY <1>2, <2>1, <2>2, Constants DEF Under
    <3>2. \A c \in QCallers : tpc'[c] \in {"submit", "subtask"} => tpc[c] \in {"submit", "subtask"}
      BY <1>2, <2>1
    <3> QED BY <1>1, <1>2, <3>1, <3>2 DEF Accepted
  <2>5. PillsLast'
    <3>1. PillTaken' <=> PillTaken
      BY <1>2, <2>1, <2>2, Constants DEF PillTaken
    <3>2. \A c \in QCallers : tpc'[c] = "stop_pill" => tpc[c] = "stop_pill"
      BY <1>2, <2>1
    <3> QED BY <1>1, <1>2, <3>1, <3>2 DEF PillsLast
  <2> QED BY <2>3, <2>4, <2>5
<1> QED BY <1>3, <1>4, <1>5

\* Submitting a task, or a pill, puts it into the hands of its thread.
LEMMA SubmitKeeps ==
    ASSUME PoolIInv, NEW c \in QCallers,
           \/ \E x \in Tasks : thread_pool_submit(c, x)
           \/ c \in Clients /\ stop_pill(c)
    PROVE  Places' /\ Accepted' /\ PillsLast'
<1>1. /\ Places /\ Accepted /\ PillsLast /\ submitted \subseteq Tasks
      /\ DOMAIN qpc = QCallers /\ DOMAIN qitem = QCallers /\ DOMAIN tpc = QCallers
      /\ early \subseteq submitted
  BY DEF PoolIInv, PTypeOK, QTypeOK
<1>2. PICK x \in Tasks \cup {Pill} :
        /\ UNCHANGED <<qlist, stopped, cur, taken, done, early>>
        /\ qitem' = [qitem EXCEPT ![c] = x] /\ qpc' = [qpc EXCEPT ![c] = "put_lock"]
        /\ \A d \in QCallers : d # c => tpc'[d] = tpc[d]
        /\ \/ x \in Tasks /\ x \notin submitted /\ submitted' = submitted \cup {x}
              /\ tpc[c] \in {"idle", "task"} /\ tpc'[c] \in {"submit", "subtask"}
           \/ x = Pill /\ submitted' = submitted /\ tpc[c] = "stop_pill" /\ tpc'[c] = tpc[c]
  <2>1. CASE \E x \in Tasks : thread_pool_submit(c, x)
    BY <1>1, <2>1 DEF thread_pool_submit, queue_put, qgoto, tgoto, InUserCode
  <2>2. CASE stop_pill(c)
    BY <1>1, <2>2 DEF stop_pill, queue_put, qgoto, At_
  <2> QED BY <2>1, <2>2
<1>3. /\ Gives(c)' /\ ~Has(c) /\ ~Has(c)'
      /\ \A d \in QCallers : d # c => (Gives(d)' <=> Gives(d)) /\ (Has(d)' <=> Has(d))
      /\ \A d \in QCallers : d # c => qitem'[d] = qitem[d]
      /\ qitem'[c] = x
  BY <1>1, <1>2 DEF Gives, Has
<1>4. x # Pill => /\ x \in submitted' /\ taken[x] = 0 /\ x \notin Range(qlist)
                  /\ \A d \in QCallers : d # c => ~((Gives(d) \/ Has(d)) /\ qitem[d] = x)
  BY <1>1, <1>2 DEF Places
<1>5. Places'
  <2>1. \A d \in QCallers : (Gives(d)' \/ Has(d)') /\ qitem'[d] # Pill =>
          /\ qitem'[d] \in submitted' /\ taken[qitem'[d]] = 0 /\ qitem'[d] \notin Range(qlist)
          /\ \A e \in QCallers : (Gives(e)' \/ Has(e)') /\ qitem'[e] = qitem'[d] => e = d
    <3> SUFFICES ASSUME NEW d \in QCallers, Gives(d)' \/ Has(d)', qitem'[d] # Pill
                 PROVE  /\ qitem'[d] \in submitted' /\ taken[qitem'[d]] = 0
                        /\ qitem'[d] \notin Range(qlist)
                        /\ \A e \in QCallers :
                             (Gives(e)' \/ Has(e)') /\ qitem'[e] = qitem'[d] => e = d
      OBVIOUS
    <3>1. CASE d = c
      BY <1>3, <1>4, <3>1
    <3>2. CASE d # c
      <4>1. /\ qitem[d] \in submitted /\ taken[qitem[d]] = 0 /\ qitem[d] \notin Range(qlist)
            /\ \A e \in QCallers : (Gives(e) \/ Has(e)) /\ qitem[e] = qitem[d] => e = d
        BY <1>1, <1>3, <3>2 DEF Places
      <4> QED BY <1>2, <1>3, <1>4, <3>2, <4>1
    <3> QED BY <3>1, <3>2
  <2>2. \A y \in Range(qlist) : y # Pill => y \in submitted' /\ taken[y] = 0
    BY <1>1, <1>2 DEF Places
  <2>3. \A y \in Tasks : y \notin submitted' => taken[y] = 0
    BY <1>1, <1>2 DEF Places
  <2> QED BY <1>1, <1>2, <2>1, <2>2, <2>3 DEF Places
<1>6. Accepted'
  <2>1. \A y : Under(y) => Under(y)'
    BY <1>2, <1>3, Constants DEF Under
  <2>2. \A d \in QCallers : tpc'[d] \in {"submit", "subtask"} /\ ~Gives(d)' =>
            tpc[d] \in {"submit", "subtask"} /\ ~Gives(d) /\ qitem'[d] = qitem[d]
    BY <1>2, <1>3
  <2> QED BY <1>1, <1>2, <2>1, <2>2 DEF Accepted
<1>7. PillsLast'
  <2>1. PillTaken' <=> PillTaken
    <3>1. \A w \in Workers : w \in QCallers
      BY Constants
    <3>2. tpc[c] # "exited" /\ tpc'[c] # "exited"
      BY <1>2
    <3> QED BY <1>2, <1>3, <3>1, <3>2 DEF PillTaken
  <2>2. \A d \in QCallers : tpc'[d] = "stop_pill" => tpc[d] = "stop_pill"
    BY <1>2
  <2> QED BY <1>1, <1>2, <2>1, <2>2 DEF PillsLast
<1> QED BY <1>5, <1>6, <1>7

\* thread_pool_submit returns, or thread_pool_stop sets stopped.
LEMMA FlagKeeps ==
    ASSUME PoolIInv, NEW c \in QCallers,
           submit_return(c) \/ (c \in Clients /\ stop_set(c))
    PROVE  Places' /\ Accepted' /\ PillsLast'
<1>1. /\ Places /\ Accepted /\ PillsLast /\ InQueue
      /\ DOMAIN tpc = QCallers /\ stopped \in BOOLEAN
  BY DEF PoolIInv, Control, PTypeOK
<1>2. /\ UNCHANGED <<qlist, qitem, qpc, cur, submitted, taken, done>>
      /\ \A d \in QCallers : d # c => tpc'[d] = tpc[d]
      /\ \/ /\ tpc[c] \in {"submit", "subtask"} /\ tpc'[c] \in {"idle", "task"}
            /\ stopped' = stopped /\ qpc[c] = "out"
            /\ early' = IF stopped THEN early ELSE early \cup {qitem[c]}
         \/ /\ tpc[c] = "stop_set" /\ tpc'[c] = "stop_pill"
            /\ stopped' = TRUE /\ early' = early
  BY <1>1 DEF submit_return, stop_set, tgoto, qvars
<1>3. \A d \in QCallers : (Gives(d)' <=> Gives(d)) /\ (Has(d)' <=> Has(d))
  BY <1>2 DEF Gives, Has
<1>4. Places'
  BY <1>1, <1>2, <1>3 DEF Places
<1>5. Accepted'
  <2>1. \A y : Under(y) => Under(y)'
    BY <1>2, <1>3, Constants DEF Under
  <2>2. \A y \in early' : Under(y)
    BY <1>1, <1>2 DEF Accepted, Gives
  <2>3. \A d \in QCallers : tpc'[d] \in {"submit", "subtask"} => tpc[d] \in {"submit", "subtask"}
    BY <1>2
  <2> QED BY <1>1, <1>2, <1>3, <2>1, <2>2, <2>3 DEF Accepted
<1>6. PillsLast'
  <2>1. PillTaken' <=> PillTaken
    <3>1. \A w \in Workers : w \in QCallers
      BY Constants
    <3> QED BY <1>2, <1>3, <3>1 DEF PillTaken
  <2>2. CASE stopped
    BY <1>1, <1>2, <2>1, <2>2 DEF PillsLast
  <2>3. CASE ~stopped
    <3>1. Pill \notin Range(qlist) /\ ~PillTaken
      BY <1>1, <2>3 DEF PillsLast
    <3>2. \A i \in 1..Len(qlist) : qlist[i] # Pill
      <4>1. qlist \in Seq(QItems)
        BY DEF PoolIInv, QueueInv, QTypeOK
      <4> QED BY <3>1, <4>1, RangeIsElements
    <3>3. \A d \in QCallers : ~stopped' => tpc'[d] # "stop_pill"
      BY <1>1, <1>2, <2>3 DEF PillsLast
    <3> QED BY <1>2, <2>1, <3>1, <3>2, <3>3 DEF PillsLast
  <2> QED BY <2>2, <2>3
<1> QED BY <1>4, <1>5, <1>6

-----------------------------------------------------------------------------

\* The invariant is inductive.
LEMMA PoolNext == PoolIInv /\ [PNext]_tpvars => PoolIInv'
<1> SUFFICES ASSUME PoolIInv, [PNext]_tpvars PROVE PoolIInv'
  OBVIOUS
<1>1. QueueInv' /\ PTypeOK' /\ Control'
  BY PoolTypes, PoolControl
<1>2. Places' /\ Accepted' /\ PillsLast'
  <2>1. CASE Quiet
    BY <2>1, QuietKeeps
  <2>2. ASSUME NEW c \in QCallers, Loud(c)
        PROVE  Places' /\ Accepted' /\ PillsLast'
    BY <2>2, InsertKeeps, RemoveKeeps, WorkerKeeps, SubmitKeeps, FlagKeeps DEF Loud
  <2> QED BY <2>1, <2>2, Kinds
<1> QED BY <1>1, <1>2 DEF PoolIInv

\* What the invariant says of the properties of the pool.
LEMMA PoolMeans ==
    ASSUME PoolIInv
    PROVE  PoolInv /\ EarlyTasksRun /\ CleanupIsLast /\ MonitorInv
<1>1. /\ PTypeOK /\ QueueInv /\ InQueue /\ Roles /\ Ending /\ Carried
      /\ Places /\ Accepted /\ PillsLast
  BY DEF PoolIInv, Control
<1>2. PoolInv
  <2>1. \A x \in Tasks : taken[x] <= IF x \in submitted THEN 1 ELSE 0
    BY <1>1 DEF Places
  <2>2. \A x \in Tasks : x \in Range(qlist) => taken[x] = 0
    BY <1>1, Constants DEF Places
  <2> QED BY <1>1, <2>1, <2>2 DEF PoolInv, AtMostOnce
<1>3. CleanupIsLast
  <2> SUFFICES ASSUME tpc[Owner] = "cleaned"
               PROVE  /\ \A c \in QCallers : qpc[c] = "out"
                      /\ \A w \in Workers : tpc[w] = "exited"
    BY DEF CleanupIsLast
  <2>1. \A w \in Workers : tpc[w] = "exited"
    BY <1>1 DEF Ending
  <2>2. \A c \in Clients : tpc[c] \in {"left", "cleaned"}
    BY <1>1 DEF Ending, Closing
  <2>3. \A c \in QCallers : qpc[c] = "out"
    BY <1>1, <2>1, <2>2, Constants DEF InQueue
  <2> QED BY <2>1, <2>3
<1>4. EarlyTasksRun
  <2> SUFFICES ASSUME tpc[Owner] = "cleaned", NEW x \in early PROVE x \in done
    BY DEF EarlyTasksRun
  <2>1. \A w \in Workers : tpc[w] = "exited" /\ cur[w] = NoItem /\ ~Has(w)
    BY <1>1 DEF Ending, Roles, Has
  <2>2. PillTaken
    BY <2>1, PoolAssumption DEF PillTaken
  <2>3. x \notin Range(qlist)
    <3>1. qlist \in Seq(QItems)
      BY <1>1 DEF QueueInv, QTypeOK
    <3> QED BY <1>1, <2>2, <3>1, RangeIsElements DEF PillsLast
  <2>4. x # NoItem
    BY <1>1, Constants DEF PTypeOK
  <2> QED BY <1>1, <2>1, <2>3, <2>4 DEF Accepted, Under
<1>5. MonitorInv
  BY <1>1 DEF QueueInv, MonitorInv
<1> QED BY <1>2, <1>3, <1>4, <1>5

\* Every task is run at most once, and only after its submit.
THEOREM PoolRunsOnce == PSpec => []PoolInv
<1>1. PoolIInv => PoolInv
  BY PoolMeans
<1> QED BY <1>1, PoolInit, PoolNext, PTL DEF PSpec

\* A task that thread_pool_submit accepted before the stop has been run to its
\* end when thread_pool_cleanup returns, however submits, stops and workers
\* interleave.
THEOREM AcceptedTasksRun == PSpec => []EarlyTasksRun
<1>1. PoolIInv => EarlyTasksRun
  BY PoolMeans
<1> QED BY <1>1, PoolInit, PoolNext, PTL DEF PSpec

\* After thread_pool_cleanup no thread uses the queue or the pool.
THEOREM CleanupComesLast == PSpec => []CleanupIsLast
<1>1. PoolIInv => CleanupIsLast
  BY PoolMeans
<1> QED BY <1>1, PoolInit, PoolNext, PTL DEF PSpec

\* The pool's use of the queue keeps the queue's invariant, death pills that
\* are put many times included.
THEOREM PoolKeepsQueue == PSpec => []MonitorInv
<1>1. PoolIInv => MonitorInv
  BY PoolMeans
<1> QED BY <1>1, PoolInit, PoolNext, PTL DEF PSpec

-----------------------------------------------------------------------------

(***************************************************************************)
(* The parallel adder: the inductive invariant                             *)
(***************************************************************************)

\* Which thread is where: pool threads count down inside a task, the owner
\* awaits when it has submitted all tasks of its frame.
Stages ==
    /\ \A w \in Workers :
          /\ tpc[w] # "subtask"
          /\ lpc[w] \in {"out", "down_lock", "down", "broadcast", "latch_unlock", "counted"}
          /\ lpc[w] # "out" => tpc[w] = "task"
    /\ lpc[Owner] \in {"out", "await_lock", "await", "await_wait", "await_unlock", "passed"}
    /\ frame = 0 => lpc[Owner] \in {"out", "passed"}
    /\ frame # 0 => frame = calls /\ tpc[Owner] \in {"idle", "submit"}
    /\ frame # 0 /\ lpc[Owner] # "out" => slot = NTHREADS

\* par_adder has submitted every task of the earlier calls, and of its own call
\* those below n.
InOrder == \A x \in Tasks :
    x \in submitted <=> x[1] <= calls /\ (x[1] = frame => x[2] < slot)

\* A task is with one worker, until it is done.
OneWorker == \A w \in Workers : cur[w] # NoItem =>
    cur[w] \notin done /\ \A v \in Workers : cur[v] = cur[w] => v = w

\* The total of x is stored.
Stored(x) == x \in done \/ \E w \in Workers : cur[w] = x /\ lpc[w] # "out"

\* The countdown of x has been made.
Counted(x) ==
    \/ x \in done
    \/ \E w \in Workers : cur[w] = x /\ lpc[w] \in {"broadcast", "latch_unlock", "counted"}

Uncounted == {n \in Slots : ~Counted(<<frame, n>>)}

\* The counter of the latch is the number of tasks that have not counted down;
\* none of an earlier call is left.
Counts ==
    /\ frame # 0 => counter = Cardinality(Uncounted)
    /\ \A x \in Tasks : x[1] <= calls /\ x[1] # frame => Counted(x)

\* What is stored is the sum of the task's region.
Totals == frame # 0 => \A n \in Slots : Stored(<<frame, n>>) => total[n] = RegionSum(n)

\* Once the owner has seen zero, no pool thread uses the frame.
Released ==
    frame # 0 /\ lpc[Owner] \in {"await_unlock", "passed"} =>
        \A w \in Workers : tpc[w] = "task" => lpc[w] = "counted"

\* What par_adder relies on, beyond pool and latch.
Calls ==
    /\ SumIsRight /\ FrameAlive
    /\ Stages /\ InOrder /\ OneWorker /\ Counts /\ Totals /\ Released

\* The inductive invariant.
AdderIInv == PoolIInv /\ LatchInv /\ ADTypeOK /\ Calls

-----------------------------------------------------------------------------
(***************************************************************************)
(* The regions                                                             *)
(***************************************************************************)

\* The numbers of the program.
LEMMA Numbers ==
    /\ NTHREADS \in Nat \ {0} /\ NVALS \in Nat /\ NITERS \in Nat
    /\ region_size \in Nat /\ NTHREADS * region_size >= NVALS
<1>1. NTHREADS \in Nat \ {0} /\ NVALS \in Nat /\ NITERS \in Nat
  BY AdderAssumption
<1> DEFINE m == NVALS + (NTHREADS - 1)
<1>2. m \in Nat /\ m - (NTHREADS - 1) = NVALS
  BY <1>1
<1> HIDE DEF m
<1>3. /\ m \div NTHREADS \in Nat /\ (m % NTHREADS) \in 0..(NTHREADS - 1)
      /\ m = NTHREADS * (m \div NTHREADS) + (m % NTHREADS)
  BY <1>1, <1>2
<1>4. region_size = m \div NTHREADS
  BY DEF region_size, m
<1> QED BY <1>1, <1>2, <1>3, <1>4

\* Where the first n regions end.
Reached(n) == IF n * region_size > NVALS THEN NVALS ELSE n * region_size

\* Region n reaches from the end of the regions before it to its own.
LEMMA RegionReaches ==
    ASSUME NEW n \in Slots
    PROVE  /\ Reached(n) \in 0..NVALS /\ RegionSum(n) \in 0..NVALS
           /\ Reached(n + 1) = Reached(n) + RegionSum(n)
<1>1. n \in Nat /\ n * region_size \in Nat /\ region_size \in Nat /\ NVALS \in Nat
  BY Numbers DEF Slots
<1>2. (n + 1) * region_size = n * region_size + region_size
  BY <1>1
<1> DEFINE b == n * region_size
           e == (n + 1) * region_size
<1> HIDE DEF b, e
<1>3. Reached(n) = IF b > NVALS THEN NVALS ELSE b
  BY DEF Reached, b
<1>4. Reached(n + 1) = IF e > NVALS THEN NVALS ELSE e
  BY DEF Reached, e
<1>5. RegionSum(n) = IF b < (IF e > NVALS THEN NVALS ELSE e)
                     THEN (IF e > NVALS THEN NVALS ELSE e) - b ELSE 0
  BY <1>2 DEF RegionSum, begin, end, b, e
<1>6. b \in Nat /\ e \in Nat /\ NVALS \in Nat /\ b <= e
  BY <1>1, <1>2 DEF b, e
<1> QED BY <1>3, <1>4, <1>5, <1>6

\* par_adder's second loop adds the totals one after the other.
LEMMA SumStep ==
    ASSUME total = [n \in Slots |-> RegionSum(n)]
    PROVE  /\ SumOfTotals[0] = 0
           /\ \A n \in Slots : SumOfTotals[n + 1] = SumOfTotals[n] + total[n]
<1> DEFINE Sums(f) == f = [n \in 0..NTHREADS |-> IF n = 0 THEN 0 ELSE f[n - 1] + total[n - 1]]
           g == [n \in 0..NTHREADS |-> Reached(n)]
<1>1. Sums(g)
  <2>1. \A n \in 0..NTHREADS : Reached(n) = IF n = 0 THEN 0 ELSE g[n - 1] + total[n - 1]
    <3> SUFFICES ASSUME NEW n \in 0..NTHREADS
                 PROVE  Reached(n) = IF n = 0 THEN 0 ELSE g[n - 1] + total[n - 1]
      OBVIOUS
    <3>1. CASE n = 0
      <4>1. 0 * region_size = 0
        BY Numbers
      <4> QED BY <3>1, <4>1, Numbers DEF Reached
    <3>2. CASE n # 0
      <4>1. n - 1 \in Slots /\ (n - 1) + 1 = n /\ n - 1 \in 0..NTHREADS
        BY <3>2, Numbers DEF Slots
      <4>2. g[n - 1] = Reached(n - 1) /\ total[n - 1] = RegionSum(n - 1)
        BY <4>1
      <4>3. Reached((n - 1) + 1) = Reached(n - 1) + RegionSum(n - 1)
        BY <4>1, RegionReaches
      <4> QED BY <3>2, <4>1, <4>2, <4>3
    <3> QED BY <3>1, <3>2
  <2> HIDE DEF g
  <2>2. g = [n \in 0..NTHREADS |-> Reached(n)]
    BY DEF g
  <2> QED BY <2>1, <2>2
<1>2. SumOfTotals = CHOOSE f : Sums(f)
  BY DEF SumOfTotals
<1> HIDE DEF Sums, g
<1>3. Sums(SumOfTotals)
  BY <1>1, <1>2
<1>4. SumOfTotals = [n \in 0..NTHREADS |->
                       IF n = 0 THEN 0 ELSE SumOfTotals[n - 1] + total[n - 1]]
  BY <1>3 DEF Sums
<1>5. \A n \in 0..NTHREADS :
        SumOfTotals[n] = IF n = 0 THEN 0 ELSE SumOfTotals[n - 1] + total[n - 1]
  BY <1>4
<1>6. 0 \in 0..NTHREADS
  BY Numbers
<1>7. ASSUME NEW n \in Slots
      PROVE  SumOfTotals[n + 1] = SumOfTotals[n] + total[n]
  <2>1. n + 1 \in 0..NTHREADS /\ n + 1 # 0 /\ (n + 1) - 1 = n
    BY Numbers DEF Slots
  <2> QED BY <1>5, <2>1
<1> QED BY <1>5, <1>6, <1>7

\* When every total is the sum of its region, par_adder's sum is that of all
\* values.
LEMMA SumOfRegions ==
    ASSUME total = [n \in Slots |-> RegionSum(n)]
    PROVE  SumOfTotals[NTHREADS] = NVALS
<1> DEFINE Wrong == {n \in Nat : n <= NTHREADS /\ SumOfTotals[n] # Reached(n)}
<1>1. Wrong = {}
  <2> SUFFICES ASSUME Wrong # {} PROVE FALSE
    OBVIOUS
  <2>1. PICK n \in Wrong : \A k \in Wrong : <<k, n>> \notin OpToRel(<, Nat)
    <3>1. Wrong \subseteq Nat
      OBVIOUS
    <3> HIDE DEF Wrong
    <3> QED BY <3>1, WFMin, NatLessThanWellFounded
  <2>2. n # 0
    <3>1. Reached(0) = 0
      <4>1. 0 * region_size = 0
        BY Numbers
      <4> QED BY <4>1, Numbers DEF Reached
    <3> QED BY <3>1, SumStep
  <2>3. n - 1 \in Slots /\ n - 1 \in Nat /\ (n - 1) + 1 = n /\ n - 1 < n /\ n \in Nat
    BY <2>2, Numbers DEF Slots
  <2>4. n - 1 \notin Wrong
    <3>1. <<n - 1, n>> \in OpToRel(<, Nat)
      BY <2>3 DEF OpToRel
    <3> QED BY <2>1, <3>1
  <2>5. SumOfTotals[n - 1] = Reached(n - 1)
    BY <2>3, <2>4, Numbers DEF Slots
  <2>6. SumOfTotals[(n - 1) + 1] = SumOfTotals[n - 1] + total[n - 1]
    BY <2>3, SumStep
  <2>7. total[n - 1] = RegionSum(n - 1)
    BY <2>3
  <2>8. Reached((n - 1) + 1) = Reached(n - 1) + RegionSum(n - 1)
    BY <2>3, RegionReaches
  <2> QED BY <2>3, <2>5, <2>6, <2>7, <2>8
<1>2. Reached(NTHREADS) = NVALS
  BY Numbers DEF Reached
<1> QED BY <1>1, <1>2, Numbers

-----------------------------------------------------------------------------
(***************************************************************************)
(* Steps                                                                   *)
(***************************************************************************)

\* The threads and the tasks of the program.
LEMMA AdderConstants ==
    /\ LCallers = QCallers /\ Owner \in LCallers /\ Owner \notin Workers
    /\ \A w \in Workers : w \in LCallers /\ w # Owner
    /\ \A c \in LCallers : c \in Workers \/ c = Owner
    /\ \A x \in Tasks : x[1] \in 1..NITERS /\ x[2] \in Slots /\ x = <<x[1], x[2]>>
    /\ \A f \in 1..NITERS, n \in Slots : <<f, n>> \in Tasks
    /\ NoItem \notin Tasks
    /\ IsFiniteSet(Slots) /\ Cardinality(Slots) = NTHREADS
<1>1. IsFiniteSet(Slots) /\ Cardinality(Slots) = NTHREADS
  <2>1. (NTHREADS - 1) - 0 + 1 = NTHREADS /\ NTHREADS - 1 \in Int /\ 0 <= NTHREADS - 1
    BY Numbers
  <2> QED BY <2>1, FS_Interval DEF Slots
<1>2. Clients = {Owner} /\ LCallers = QCallers /\ Tasks = (1..NITERS) \X Slots
  BY AdderAssumption DEF Slots
<1> QED BY <1>1, <1>2, Constants

\* The parts of the invariant, with the ranges that the steps need.
LEMMA AdderParts ==
    ASSUME AdderIInv
    PROVE  /\ PoolIInv /\ LatchInv /\ ADTypeOK /\ SumIsRight /\ FrameAlive
           /\ Stages /\ InOrder /\ OneWorker /\ Counts /\ Totals /\ Released
           /\ PTypeOK /\ LDTypeOK /\ Roles /\ Places
           /\ DOMAIN lpc = LCallers /\ DOMAIN tpc = LCallers
           /\ cur \in [Workers -> Tasks \cup {NoItem}]
           /\ submitted \subseteq Tasks /\ done \subseteq Tasks
           /\ \A w \in Workers : tpc[w] = "task" => cur[w] \in submitted
           /\ \A w \in Workers : cur[w] # NoItem => tpc[w] = "task"
           /\ \A x \in done : x \in submitted
<1>1. /\ PoolIInv /\ LatchInv /\ ADTypeOK /\ SumIsRight /\ FrameAlive
      /\ Stages /\ PTypeOK /\ LDTypeOK /\ Roles /\ Places
  BY DEF AdderIInv, Calls, PoolIInv, Control, LatchInv
<1>2. /\ DOMAIN lpc = LCallers /\ DOMAIN tpc = LCallers
      /\ cur \in [Workers -> Tasks \cup {NoItem}]
      /\ submitted \subseteq Tasks /\ done \subseteq Tasks
  BY <1>1, AdderConstants DEF PTypeOK, LDTypeOK
<1>3. \A x \in Tasks : taken[x] = 1 => x \in submitted
  BY <1>1 DEF Places
<1>4. \A x \in done : x \in submitted
  BY <1>1, <1>2, <1>3 DEF Places
<1>5. \A w \in Workers : tpc[w] = "task" => cur[w] \in submitted
  BY <1>1, <1>2, <1>3 DEF Places, Roles
<1>6. \A w \in Workers : cur[w] # NoItem => tpc[w] = "task"
  BY <1>1 DEF Roles, Stages
<1> QED BY <1>1, <1>2, <1>4, <1>5, <1>6 DEF AdderIInv, Calls

LEMMA AdderInit == ADInit => AdderIInv
<1> SUFFICES ASSUME ADInit PROVE AdderIInv
  OBVIOUS
<1> USE DEF ADInit
<1>1. PoolIInv /\ LatchInv
  BY PoolInit, LatchInvInit
<1>2. /\ \A c \in LCallers : lpc[c] = "out" /\ tpc[c] \in {"init", "unborn"}
      /\ \A w \in Workers : cur[w] = NoItem
      /\ submitted = {} /\ done = {} /\ tpc[Owner] = "init"
  BY AdderConstants DEF countdownlatch_init, PInit
<1>3. ADTypeOK
  BY <1>1, Numbers DEF ADTypeOK, PoolIInv
<1>4. SumIsRight /\ FrameAlive
  BY <1>2, AdderConstants DEF SumIsRight, FrameAlive
<1>5. Stages /\ Released
  BY <1>2, AdderConstants DEF Stages, Released
<1>6. InOrder /\ OneWorker /\ Counts /\ Totals
  BY <1>2, AdderConstants DEF InOrder, OneWorker, Counts, Totals
<1> QED BY <1>1, <1>3, <1>4, <1>5, <1>6 DEF AdderIInv, Calls

\* Every step of the program is a step of the pool, or leaves it alone.
LEMMA AdderCallsPool ==
    ASSUME AdderIInv, [ADNext]_allvars
    PROVE  [PNext]_tpvars
<1>1. /\ Stages /\ frame \in 0..NITERS /\ slot \in 0..NTHREADS
  BY AdderParts DEF ADTypeOK
<1>2. CASE UNCHANGED allvars
  BY <1>2 DEF allvars
<1>3. ASSUME NEW c \in QCallers, PoolStep(c) \/ (spurious(c) /\ UNCHANGED pvars)
      PROVE  PNext
  BY <1>3 DEF PNext
<1>4. CASE par_submit
  <2>1. <<frame, slot>> \in Tasks
    BY <1>1, <1>4, AdderConstants, Numbers DEF par_submit, Slots
  <2> QED BY <1>4, <2>1, AdderConstants DEF par_submit, PNext
<1>5. ASSUME NEW w \in Workers, par_func(w) \/ par_func_return(w)
      PROVE  [PNext]_tpvars
  BY <1>5 DEF par_func, par_func_return, PNext
<1>6. CASE par_adder \/ par_await \/ par_return \/ main_pool
  BY <1>6 DEF par_adder, par_await, par_return, main_pool, PNext
<1> QED
  BY <1>2, <1>3, <1>4, <1>5, <1>6 DEF ADNext, AdderStep, Spurious

\* The latch is used as its specification says, and initialised again only when
\* nobody is inside.
LEMMA AdderKeepsLatch ==
    ASSUME AdderIInv, [ADNext]_allvars
    PROVE  LatchInv'
<1>1. LatchInv /\ LDTypeOK /\ Stages /\ FrameAlive /\ PTypeOK /\ DOMAIN lpc = LCallers
      /\ \A w \in Workers : tpc[w] = "task" => cur[w] \in Tasks
  BY AdderParts
<1>2. CASE par_adder
  <2>1. \A c \in LCallers : lpc'[c] \in {"out", "counted"}
    <3>1. \A w \in Workers : lpc[w] # "out" => lpc[w] = "counted"
      BY <1>1, <1>2, AdderConstants DEF par_adder, Stages, FrameAlive
    <3>2. lpc' = [lpc EXCEPT ![Owner] = "out"]
      BY <1>2 DEF par_adder, lgoto
    <3> QED BY <1>1, <3>1, <3>2, AdderConstants
  <2>2. LDTypeOK'
    <3>1. lpc' \in [LCallers -> {"out", "down_lock", "down", "broadcast", "await_lock",
                                 "await", "await_wait", "latch_unlock", "counted",
                                 "await_unlock", "passed"}]
      BY <1>1, <1>2 DEF par_adder, lgoto, LDTypeOK
    <3> QED BY <1>1, <1>2, <2>1, <3>1, LatchAssumption
            DEF par_adder, LDTypeOK, LatchInMutex
  <2> QED BY <1>2, <2>1, <2>2 DEF par_adder, LatchInv, PassedAtZero, OpenFreesAll
<1>3. ASSUME NEW w \in Workers, par_func_return(w)
      PROVE  LatchInv'
  <2>1. /\ lpc[w] = "counted" /\ lpc' = [lpc EXCEPT ![w] = "out"] /\ w \in LCallers
        /\ UNCHANGED <<llock, lwaiters, counter, wakeups>>
    BY <1>3, AdderConstants DEF par_func_return, lgoto
  <2>2. LDTypeOK'
    BY <1>1, <2>1 DEF LDTypeOK, LatchInMutex
  <2> QED BY <1>1, <2>1, <2>2 DEF LatchInv, LDTypeOK, PassedAtZero, OpenFreesAll
<1>4. ASSUME NEW c \in QCallers, LatchStep(c) \/ latch_spurious(c)
      PROVE  LDNext
  BY <1>4, AdderConstants DEF LDNext
<1>5. ASSUME NEW w \in Workers, par_func(w)
      PROVE  LDNext
  BY <1>5, AdderConstants DEF par_func, LDNext
<1>6. ASSUME par_await
      PROVE  LDNext
  BY <1>6, AdderConstants DEF par_await, LDNext
<1>7. ASSUME par_submit \/ par_return \/ main_pool \/ UNCHANGED allvars
      PROVE  UNCHANGED ldvars
  BY <1>7 DEF par_submit, par_return, main_pool, allvars
<1> QED
  BY <1>1, <1>2, <1>3, <1>4, <1>5, <1>6, <1>7, LatchInvStep
  DEF ADNext, AdderStep, Spurious

\* Types: a region's sum is a number of values.
LEMMA AdderTypes ==
    ASSUME AdderIInv, [ADNext]_allvars, PTypeOK', SumIsRight'
    PROVE  ADTypeOK'
<1>1. /\ ADTypeOK /\ PTypeOK
      /\ \A w \in Workers : tpc[w] = "task" => cur[w] \in Tasks
  BY AdderParts DEF ADTypeOK
<1>2. result' \in Int
  BY Numbers DEF SumIsRight
<1>3. CASE par_adder
  <2>1. calls + 1 \in 0..NITERS
    BY <1>1, <1>3, Numbers DEF par_adder, ADTypeOK
  <2> QED BY <1>2, <1>3, <2>1, Numbers DEF par_adder, ADTypeOK
<1>4. CASE par_submit
  <2>1. slot + 1 \in 0..NTHREADS
    BY <1>1, <1>4, Numbers DEF par_submit, ADTypeOK
  <2> QED BY <1>1, <1>2, <1>4, <2>1 DEF par_submit, ADTypeOK
<1>5. ASSUME NEW w \in Workers, par_func(w)
      PROVE  ADTypeOK'
  <2>1. cur[w][2] \in Slots
    BY <1>1, <1>5, AdderConstants DEF par_func, At_
  <2>2. RegionSum(cur[w][2]) \in 0..NVALS
    BY <2>1, RegionReaches
  <2> HIDE DEF RegionSum
  <2> QED BY <1>1, <1>2, <1>5, <2>1, <2>2 DEF par_func, ADTypeOK
<1>6. CASE par_return
  BY <1>1, <1>2, <1>6, Numbers DEF par_return, ADTypeOK
<1>7. CASE UNCHANGED advars
  BY <1>1, <1>7 DEF advars, ADTypeOK
<1>8. ASSUME NEW w \in Workers, par_func_return(w)
      PROVE  UNCHANGED advars
  BY <1>8 DEF par_func_return
<1>9. ASSUME par_await \/ main_pool \/ UNCHANGED allvars
      PROVE  UNCHANGED advars
  BY <1>9 DEF par_await, main_pool, allvars
<1> QED
  BY <1>3, <1>4, <1>5, <1>6, <1>7, <1>8, <1>9 DEF ADNext, AdderStep, Spurious

-----------------------------------------------------------------------------

\* A step that neither starts nor ends a task, nor touches latch or frame.
LEMMA OtherKeeps ==
    ASSUME AdderIInv, UNCHANGED <<ldvars, advars, cur, done, submitted>>,
           \A w \in Workers : (tpc'[w] = "task" <=> tpc[w] = "task") /\ tpc'[w] # "subtask",
           frame # 0 => tpc'[Owner] \in {"idle", "submit"}
    PROVE  Calls'
<1>1. /\ SumIsRight /\ FrameAlive /\ Stages /\ InOrder /\ OneWorker /\ Counts /\ Totals
      /\ Released /\ UNCHANGED <<frame, calls, slot, total, result, lpc, counter>>
  BY AdderParts DEF ldvars, advars
<1>2. \A x : (Counted(x)' <=> Counted(x)) /\ (Stored(x)' <=> Stored(x))
  BY <1>1 DEF Counted, Stored
<1>3. Uncounted' = Uncounted
  BY <1>1, <1>2 DEF Uncounted
<1>4. SumIsRight' /\ FrameAlive' /\ Released' /\ InOrder' /\ OneWorker'
  BY <1>1 DEF SumIsRight, FrameAlive, Released, InOrder, OneWorker
<1>5. Stages'
  BY <1>1 DEF Stages
<1>6. Counts'
  BY <1>1, <1>2, <1>3 DEF Counts
<1>7. Totals'
  BY <1>1, <1>2 DEF Totals, RegionSum, begin, end
<1> QED BY <1>4, <1>5, <1>6, <1>7 DEF Calls

\* A worker starts a task, which is one of the frame's: those of the calls
\* before are done, or with a worker that has counted down.
LEMMA TaskKeeps ==
    ASSUME AdderIInv, NEW w \in Workers, worker_task(w), UNCHANGED <<ldvars, advars>>
    PROVE  Calls'
<1> DEFINE x == qitem[w]
<1>1. /\ SumIsRight /\ FrameAlive /\ Stages /\ InOrder /\ OneWorker /\ Counts /\ Totals
      /\ Released /\ UNCHANGED <<frame, calls, slot, total, result, lpc, counter>>
      /\ UNCHANGED <<done, submitted>> /\ done \subseteq Tasks
      /\ Places /\ Roles /\ PTypeOK /\ LatchInv /\ w \in QCallers /\ w # Owner
  BY AdderParts, AdderConstants DEF ldvars, advars, worker_task
<1>2. /\ tpc[w] = "got" /\ tpc' = [tpc EXCEPT ![w] = "task"] /\ Has(w)
      /\ cur' = [cur EXCEPT ![w] = x] /\ x # Pill /\ cur[w] = NoItem /\ lpc[w] = "out"
  BY <1>1 DEF worker_task, At_, tgoto, Has, Roles, Stages
<1>3. /\ \A v \in Workers : v # w => tpc'[v] = tpc[v] /\ cur'[v] = cur[v]
      /\ tpc'[w] = "task" /\ cur'[w] = x /\ tpc'[Owner] = tpc[Owner]
  BY <1>1, <1>2, AdderParts, AdderConstants
<1>4. x \in submitted /\ x \in Tasks /\ taken[x] = 0
  BY <1>1, <1>2 DEF Places, PTypeOK
<1>5. x \notin done /\ \A v \in Workers : cur[v] # x
  <2>1. \A v \in Workers : cur[v] = x => taken[x] = 1
    BY <1>1, <1>4, AdderConstants DEF Places
  <2> QED BY <1>1, <1>4, <2>1 DEF Places
<1> HIDE DEF x
<1>6. x[1] = frame /\ x[1] <= calls
  BY <1>1, <1>4, <1>5 DEF InOrder, Counts, Counted
<1>7. \A y \in Tasks : Counted(y)' <=> Counted(y)
  BY <1>1, <1>2, <1>3, AdderConstants DEF Counted
<1>8. \A y \in Tasks : Stored(y)' <=> Stored(y)
  BY <1>1, <1>2, <1>3, AdderConstants DEF Stored
<1>9. frame # 0 => \A n \in Slots : <<frame, n>> \in Tasks
  BY <1>4, <1>6, AdderConstants
<1>10. frame # 0
  BY <1>4, <1>6, AdderConstants
<1>11. Uncounted' = Uncounted
  BY <1>1, <1>7, <1>9, <1>10 DEF Uncounted
<1>12. lpc[Owner] \notin {"await_unlock", "passed"}
  <2> SUFFICES ASSUME lpc[Owner] \in {"await_unlock", "passed"} PROVE FALSE
    OBVIOUS
  <2>1. counter = 0
    BY <1>1, AdderConstants DEF LatchInv, PassedAtZero
  <2>2. Cardinality(Uncounted) = 0
    BY <1>1, <1>10, <2>1 DEF Counts
  <2>3. x[2] \in Uncounted
    BY <1>4, <1>5, <1>6, AdderConstants DEF Uncounted, Counted
  <2>4. IsFiniteSet(Uncounted)
    BY AdderConstants, FS_Subset DEF Uncounted
  <2> QED BY <2>2, <2>3, <2>4, FS_EmptySet
<1>13. SumIsRight' /\ FrameAlive' /\ Released' /\ InOrder' /\ OneWorker'
  BY <1>1, <1>2, <1>3, <1>5, <1>6, <1>12, AdderConstants
  DEF SumIsRight, FrameAlive, Released, InOrder, OneWorker
<1>14. Stages'
  BY <1>1, <1>2, <1>3 DEF Stages
<1>15. Counts'
  BY <1>1, <1>7, <1>11 DEF Counts
<1>16. Totals'
  BY <1>1, <1>8, <1>9 DEF Totals, RegionSum, begin, end
<1> QED BY <1>13, <1>14, <1>15, <1>16 DEF Calls

\* The steps of the pool.
LEMMA PoolStepKeeps ==
    ASSUME AdderIInv, NEW c \in QCallers,
           PoolStep(c) \/ (spurious(c) /\ UNCHANGED pvars), UNCHANGED <<ldvars, advars>>
    PROVE  Calls'
<1>1. Stages /\ Roles /\ DOMAIN tpc = QCallers /\ (c \in Workers \/ c = Owner)
  BY AdderParts, AdderConstants
<1>2. CASE c \in Workers /\ worker_task(c)
  BY <1>2, TaskKeeps
<1>3. CASE ~(c \in Workers /\ worker_task(c))
  <2>1. UNCHANGED <<cur, done, submitted>>
    BY <1>3 DEF PoolStep, worker_get, worker_exit, submit_return, stop_set, stop_pill,
                stop_return, cleanup_join, pvars
  <2>2. \A w \in Workers : tpc'[w] = tpc[w] \/ (w = c /\ tpc[w] # "task"
                                                 /\ tpc'[w] \in {"got", "exited"})
    BY <1>1, <1>3, AdderConstants
    DEF PoolStep, worker_get, worker_exit, submit_return, stop_set, stop_pill,
        stop_return, cleanup_join, pvars, At_, tgoto, Stages, Roles
  <2>3. frame # 0 => tpc'[Owner] \in {"idle", "submit"}
    BY <1>1, <1>3, AdderConstants
    DEF PoolStep, worker_get, worker_exit, submit_return, stop_set, stop_pill,
        stop_return, cleanup_join, pvars, At_, tgoto, Stages, Roles
  <2> QED BY <1>1, <2>1, <2>2, <2>3, OtherKeeps DEF Stages
<1> QED BY <1>2, <1>3

\* One thread moves inside the latch, without counting down: the owner passes
\* only when the pool threads have left.
LEMMA MoveKeeps ==
    ASSUME AdderIInv, UNCHANGED <<tpvars, advars, counter>>, NEW c \in LCallers,
           \A d \in LCallers : d # c => lpc'[d] = lpc[d],
           \/ /\ c \in Workers /\ lpc[c] # "out" /\ lpc'[c] # "out"
              /\ lpc[c] # "counted"
              /\ lpc'[c] \in {"down_lock", "down", "broadcast", "latch_unlock", "counted"}
              /\ lpc'[c] \in {"broadcast", "latch_unlock", "counted"} <=>
                    lpc[c] \in {"broadcast", "latch_unlock", "counted"}
           \/ /\ c = Owner /\ frame # 0 /\ slot = NTHREADS
              /\ lpc'[c] \in {"await_lock", "await", "await_wait", "await_unlock", "passed"}
              /\ lpc'[c] = "passed" => lpc[c] = "await_unlock"
              /\ lpc'[c] = "await_unlock" => llock = c /\ counter = 0
    PROVE  Calls'
<1>1. /\ SumIsRight /\ FrameAlive /\ Stages /\ InOrder /\ OneWorker /\ Counts /\ Totals
      /\ Released /\ LDTypeOK /\ DOMAIN lpc = LCallers
      /\ UNCHANGED <<frame, calls, slot, total, result, tpc, cur, done, submitted, counter>>
      /\ \A w \in Workers : tpc[w] = "task" => cur[w] \in submitted
      /\ submitted \subseteq Tasks /\ \A x \in done : x \in submitted
  BY AdderParts DEF advars, tpvars, pvars
<1>2. Owner \in LCallers /\ \A w \in Workers : w \in LCallers /\ w # Owner
  BY AdderConstants
<1>3. \A x : (Counted(x)' <=> Counted(x)) /\ (Stored(x)' <=> Stored(x))
  BY <1>1, <1>2 DEF Counted, Stored
<1>4. Uncounted' = Uncounted
  BY <1>1, <1>3 DEF Uncounted
<1>5. SumIsRight' /\ InOrder' /\ OneWorker'
  BY <1>1 DEF SumIsRight, InOrder, OneWorker
<1>6. Stages'
  BY <1>1, <1>2 DEF Stages
<1>7. FrameAlive'
  BY <1>1, <1>2 DEF FrameAlive
<1>8. Counts' /\ Totals'
  BY <1>1, <1>3, <1>4 DEF Counts, Totals, RegionSum, begin, end
<1>9. Released'
  <2> SUFFICES ASSUME frame # 0, lpc'[Owner] \in {"await_unlock", "passed"},
                      NEW w \in Workers, tpc[w] = "task", lpc'[w] # "counted"
               PROVE  FALSE
    BY <1>1 DEF Released
  <2>1. lpc[w] # "counted"
    BY <1>1, <1>2
  <2>2. cur[w][1] = frame /\ cur[w] \in Tasks
    BY <1>1, <2>1 DEF FrameAlive
  <2>3. c = Owner /\ lpc'[Owner] = "await_unlock" /\ llock = Owner /\ counter = 0
    BY <1>1, <1>2, <2>1 DEF Released
  <2>4. Uncounted = {}
    <3>1. IsFiniteSet(Uncounted)
      BY AdderConstants, FS_Subset DEF Uncounted
    <3> QED BY <1>1, <2>3, <3>1, FS_EmptySet DEF Counts
  <2>5. Counted(cur[w])
    BY <2>2, <2>4, AdderConstants DEF Uncounted
  <2>6. lpc[w] \in {"broadcast", "latch_unlock"}
    BY <1>1, <2>1, <2>2, <2>5, AdderConstants DEF Counted, OneWorker
  <2>7. llock = w
    BY <1>1, <1>2, <2>6 DEF LDTypeOK, LatchInMutex
  <2> QED BY <1>2, <2>3, <2>7
<1> QED BY <1>5, <1>6, <1>7, <1>8, <1>9 DEF Calls

\* A task counts down.
LEMMA DownKeeps ==
    ASSUME AdderIInv, UNCHANGED <<tpvars, advars>>, NEW w \in Workers, down(w)
    PROVE  Calls'
<1> DEFINE n == cur[w][2]
<1>1. /\ SumIsRight /\ FrameAlive /\ Stages /\ InOrder /\ OneWorker /\ Counts /\ Totals
      /\ Released /\ LDTypeOK /\ DOMAIN lpc = LCallers
      /\ UNCHANGED <<frame, calls, slot, total, result, tpc, cur, done, submitted>>
      /\ \A v \in Workers : tpc[v] = "task" => cur[v] \in submitted
      /\ submitted \subseteq Tasks
  BY AdderParts DEF advars, tpvars, pvars
<1>2. Owner \in LCallers /\ \A v \in Workers : v \in LCallers /\ v # Owner
  BY AdderConstants
<1>3. /\ lpc[w] = "down" /\ lpc'[w] \in {"broadcast", "latch_unlock"}
      /\ \A d \in LCallers : d # w => lpc'[d] = lpc[d]
      /\ counter' = IF counter > 0 THEN counter - 1 ELSE counter
  BY <1>1, <1>2 DEF down, lgoto
<1>4. tpc[w] = "task" /\ cur[w] \in Tasks /\ cur[w] # NoItem
  BY <1>1, <1>3, AdderConstants DEF Stages
<1>5. cur[w][1] = frame /\ cur[w] = <<frame, n>> /\ n \in Slots /\ frame # 0
  BY <1>1, <1>3, <1>4, AdderConstants DEF FrameAlive
<1>6. \A x : Counted(x)' <=> (Counted(x) \/ x = cur[w])
  BY <1>1, <1>2, <1>3 DEF Counted
<1>7. \A x : Stored(x)' <=> Stored(x)
  BY <1>1, <1>2, <1>3 DEF Stored
<1>8. ~Counted(cur[w])
  BY <1>1, <1>3, <1>4 DEF Counted, OneWorker
<1> HIDE DEF n
<1>9. n \in Uncounted /\ Uncounted' = Uncounted \ {n}
  BY <1>1, <1>5, <1>6, <1>8 DEF Uncounted
<1>10. counter' = Cardinality(Uncounted')
  <2>1. IsFiniteSet(Uncounted)
    BY AdderConstants, FS_Subset DEF Uncounted
  <2>2. Cardinality(Uncounted \ {n}) = Cardinality(Uncounted) - 1
    BY <1>9, <2>1, FS_RemoveElement
  <2>3. Cardinality(Uncounted) \in Nat /\ Cardinality(Uncounted) # 0
    BY <1>9, <2>1, FS_CardinalityType, FS_EmptySet
  <2>4. counter = Cardinality(Uncounted)
    BY <1>1, <1>5 DEF Counts
  <2> QED BY <1>3, <1>9, <2>2, <2>3, <2>4
<1>11. SumIsRight' /\ InOrder' /\ OneWorker' /\ FrameAlive' /\ Stages'
  BY <1>1, <1>2, <1>3, <1>4 DEF SumIsRight, InOrder, OneWorker, FrameAlive, Stages
<1>12. Counts' /\ Totals'
  BY <1>1, <1>6, <1>7, <1>10 DEF Counts, Totals, RegionSum, begin, end
<1>13. Released'
  BY <1>1, <1>2, <1>3, <1>4, <1>5, AdderConstants DEF Released
<1> QED BY <1>11, <1>12, <1>13 DEF Calls

\* The steps inside the latch.
LEMMA LatchStepKeeps ==
    ASSUME AdderIInv, NEW c \in QCallers, LatchStep(c) \/ latch_spurious(c),
           UNCHANGED <<tpvars, advars>>
    PROVE  Calls'
<1>1. /\ Stages /\ LDTypeOK /\ LatchInv /\ DOMAIN lpc = LCallers /\ c \in LCallers
      /\ (c \in Workers \/ c = Owner) /\ c # NoOwner
      /\ \A w \in Workers : w \in LCallers /\ w # Owner
  BY AdderParts, AdderConstants, LatchAssumption
<1>2. CASE down(c)
  <2>1. c \in Workers
    BY <1>1, <1>2 DEF down, Stages
  <2> QED BY <1>2, <2>1, DownKeeps
<1>3. CASE latch_lock(c)
  <2>1. /\ lpc[c] \in {"down_lock", "await_lock", "await_wait"} /\ counter' = counter
        /\ lpc'[c] = IF lpc[c] = "down_lock" THEN "down" ELSE "await"
        /\ \A d \in LCallers : d # c => lpc'[d] = lpc[d]
    BY <1>1, <1>3 DEF latch_lock, AfterLatchLock, lgoto
  <2> QED BY <1>1, <2>1, MoveKeeps DEF Stages
<1>4. CASE broadcast(c)
  <2>1. /\ lpc[c] = "broadcast" /\ lpc'[c] = "latch_unlock" /\ counter' = counter
        /\ \A d \in LCallers : d # c => lpc'[d] = lpc[d]
    BY <1>1, <1>4 DEF broadcast, lgoto
  <2> QED BY <1>1, <2>1, MoveKeeps DEF Stages
<1>5. CASE await_wait(c)
  <2>1. /\ lpc[c] = "await" /\ lpc'[c] = "await_wait" /\ counter' = counter
        /\ \A d \in LCallers : d # c => lpc'[d] = lpc[d]
    BY <1>1, <1>5 DEF await_wait, lgoto
  <2> QED BY <1>1, <2>1, MoveKeeps DEF Stages
<1>6. CASE await_end(c)
  <2>1. /\ lpc[c] = "await" /\ lpc'[c] = "await_unlock" /\ counter' = counter
        /\ \A d \in LCallers : d # c => lpc'[d] = lpc[d]
        /\ llock = c /\ counter = 0
    BY <1>1, <1>6, LatchAssumption DEF await_end, lgoto, LDTypeOK, LatchInMutex
  <2> QED BY <1>1, <2>1, MoveKeeps DEF Stages
<1>7. CASE latch_unlock(c)
  <2>1. /\ lpc[c] \in {"latch_unlock", "await_unlock"} /\ counter' = counter
        /\ lpc'[c] = IF lpc[c] = "await_unlock" THEN "passed" ELSE "counted"
        /\ \A d \in LCallers : d # c => lpc'[d] = lpc[d]
    BY <1>1, <1>7 DEF latch_unlock, lgoto
  <2> QED BY <1>1, <2>1, MoveKeeps DEF Stages
<1>8. CASE latch_spurious(c)
  <2>1. /\ lpc' = lpc /\ counter' = counter /\ lpc[c] = "await_wait" /\ c = Owner
    BY <1>1, <1>8 DEF latch_spurious, LDTypeOK, Stages
  <2> QED BY <1>1, <2>1, MoveKeeps DEF Stages
<1> QED BY <1>2, <1>3, <1>4, <1>5, <1>6, <1>7, <1>8 DEF LatchStep

-----------------------------------------------------------------------------

\* par_func stores the total of its region, in its own frame.
LEMMA FuncKeeps ==
    ASSUME AdderIInv, NEW w \in Workers, par_func(w)
    PROVE  Calls'
<1> DEFINE n == cur[w][2]
<1>1. /\ SumIsRight /\ FrameAlive /\ Stages /\ InOrder /\ OneWorker /\ Counts /\ Totals
      /\ Released /\ DOMAIN lpc = LCallers
      /\ UNCHANGED <<frame, calls, slot, result, tpc, cur, done, submitted, counter>>
      /\ \A v \in Workers : tpc[v] = "task" => cur[v] \in submitted
      /\ submitted \subseteq Tasks
      /\ total \in [Slots -> {Uninitialised} \cup 0..NVALS]
  BY AdderParts DEF par_func, tpvars, pvars, countdownlatch_countdown, ADTypeOK
<1>2. Owner \in LCallers /\ \A v \in Workers : v \in LCallers /\ v # Owner
  BY AdderConstants
<1>3. /\ lpc[w] = "out" /\ lpc' = [lpc EXCEPT ![w] = "down_lock"] /\ tpc[w] = "task"
      /\ total' = [total EXCEPT ![n] = RegionSum(n)]
  BY DEF par_func, countdownlatch_countdown, lgoto, At_
<1>4. /\ cur[w][1] = frame /\ cur[w] = <<frame, n>> /\ n \in Slots /\ frame # 0
  BY <1>1, <1>3, AdderConstants DEF FrameAlive
<1>5. \A v \in LCallers : v # w => lpc'[v] = lpc[v]
  BY <1>1, <1>3
<1>6. \A x : (Counted(x)' <=> Counted(x)) /\ (Stored(x)' <=> (Stored(x) \/ x = cur[w]))
  BY <1>1, <1>2, <1>3, <1>5 DEF Counted, Stored
<1> HIDE DEF n
<1>7. Uncounted' = Uncounted
  BY <1>1, <1>6 DEF Uncounted
<1>8. SumIsRight' /\ InOrder' /\ OneWorker' /\ FrameAlive' /\ Stages' /\ Counts'
  BY <1>1, <1>2, <1>3, <1>5, <1>6, <1>7
  DEF SumIsRight, InOrder, OneWorker, FrameAlive, Stages, Counts
<1>9. Totals'
  <2>1. \A m \in Slots : Stored(<<frame, m>>)' => total'[m] = RegionSum(m)
    <3> SUFFICES ASSUME NEW m \in Slots, Stored(<<frame, m>>)'
                 PROVE  total'[m] = RegionSum(m)
      OBVIOUS
    <3>1. CASE m = n
      BY <1>1, <1>3, <3>1
    <3>2. CASE m # n
      BY <1>1, <1>3, <1>4, <1>6, <3>2 DEF Totals
    <3> QED BY <3>1, <3>2
  <2> QED BY <1>1, <2>1 DEF Totals, RegionSum, begin, end
<1>10. Released'
  BY <1>1, <1>2, <1>3, <1>4, <1>5, AdderConstants DEF Released
<1> QED BY <1>8, <1>9, <1>10 DEF Calls

\* par_func returns, and its task is done.
LEMMA FuncReturnKeeps ==
    ASSUME AdderIInv, NEW w \in Workers, par_func_return(w)
    PROVE  Calls'
<1>1. /\ SumIsRight /\ FrameAlive /\ Stages /\ InOrder /\ OneWorker /\ Counts /\ Totals
      /\ Released /\ DOMAIN lpc = LCallers /\ DOMAIN tpc = LCallers
      /\ UNCHANGED <<frame, calls, slot, total, result, submitted, counter>>
      /\ cur \in [Workers -> Tasks \cup {NoItem}] /\ done \subseteq Tasks
  BY AdderParts DEF par_func_return, worker_done, advars
<1>2. Owner \in LCallers /\ \A v \in Workers : v \in LCallers /\ v # Owner
  BY AdderConstants
<1>3. /\ lpc[w] = "counted" /\ lpc' = [lpc EXCEPT ![w] = "out"]
      /\ tpc[w] = "task" /\ tpc' = [tpc EXCEPT ![w] = "loop"]
      /\ done' = done \cup {cur[w]} /\ cur' = [cur EXCEPT ![w] = NoItem]
  BY DEF par_func_return, worker_done, lgoto, tgoto, At_
<1>4. /\ \A v \in LCallers : v # w => lpc'[v] = lpc[v] /\ tpc'[v] = tpc[v]
      /\ lpc'[w] = "out" /\ tpc'[w] = "loop" /\ cur'[w] = NoItem
      /\ \A v \in Workers : v # w => cur'[v] = cur[v]
  BY <1>1, <1>2, <1>3
<1>5. \A x \in Tasks : (Counted(x)' <=> Counted(x)) /\ (Stored(x)' <=> Stored(x))
  BY <1>1, <1>2, <1>3, <1>4, AdderConstants DEF Counted, Stored
<1>6. frame # 0 => \A n \in Slots : <<frame, n>> \in Tasks
  BY AdderParts, AdderConstants DEF ADTypeOK
<1>7. frame # 0 => Uncounted' = Uncounted
  BY <1>1, <1>5, <1>6 DEF Uncounted
<1>8. OneWorker'
  BY <1>1, <1>3, <1>4 DEF OneWorker
<1>9. SumIsRight' /\ InOrder' /\ FrameAlive' /\ Stages' /\ Released'
  BY <1>1, <1>2, <1>4 DEF SumIsRight, InOrder, FrameAlive, Stages, Released
<1>10. Counts'
  BY <1>1, <1>5, <1>7 DEF Counts
<1>11. Totals'
  BY <1>1, <1>5, <1>6 DEF Totals, RegionSum, begin, end
<1> QED BY <1>8, <1>9, <1>10, <1>11 DEF Calls

\* par_adder starts a frame, when nobody uses the one before.
LEMMA CallKeeps ==
    ASSUME AdderIInv, par_adder
    PROVE  Calls'
<1>1. /\ SumIsRight /\ FrameAlive /\ Stages /\ InOrder /\ OneWorker /\ Counts
      /\ DOMAIN lpc = LCallers /\ calls \in 0..NITERS /\ frame = 0 /\ tpc[Owner] = "idle"
      /\ UNCHANGED <<result, tpc, cur, done, submitted>>
      /\ calls' = calls + 1 /\ frame' = calls + 1 /\ slot' = 0 /\ counter' = Initial
      /\ \A w \in Workers : tpc[w] = "task" => cur[w] \in submitted
      /\ \A w \in Workers : cur[w] # NoItem => tpc[w] = "task"
      /\ \A x \in done : x \in submitted
      /\ done \subseteq Tasks /\ submitted \subseteq Tasks
  BY AdderParts DEF par_adder, tpvars, pvars, ADTypeOK
<1>2. Owner \in LCallers /\ \A w \in Workers : w \in LCallers /\ w # Owner
  BY AdderConstants
<1>3. lpc'[Owner] = "out" /\ \A w \in Workers : lpc'[w] = lpc[w]
  BY <1>1, <1>2, AdderConstants DEF par_adder, lgoto
<1>4. \A x : (Counted(x)' <=> Counted(x)) /\ (Stored(x)' <=> Stored(x))
  BY <1>1, <1>3 DEF Counted, Stored
<1>5. calls + 1 \in 1..NITERS
  BY <1>1, Numbers DEF par_adder
<1>6. \A n \in Slots : <<calls + 1, n>> \in Tasks /\ <<calls + 1, n>> \notin submitted
  BY <1>1, <1>5, AdderConstants DEF InOrder
<1>7. \A n \in Slots : ~Counted(<<calls + 1, n>>) /\ ~Stored(<<calls + 1, n>>)
  BY <1>1, <1>6, AdderConstants DEF Counted, Stored
<1>8. Uncounted' = Slots
  BY <1>1, <1>4, <1>7 DEF Uncounted
<1>9. counter' = Cardinality(Uncounted')
  BY <1>1, <1>8, AdderConstants, AdderAssumption
<1>10. \A w \in Workers : tpc[w] = "task" => lpc[w] = "counted"
  BY <1>1, AdderConstants DEF FrameAlive
<1>11. SumIsRight' /\ OneWorker' /\ FrameAlive' /\ Released'
  BY <1>1, <1>3, <1>10 DEF SumIsRight, OneWorker, FrameAlive, Released
<1>12. Stages'
  BY <1>1, <1>3, <1>5 DEF Stages
<1>13. InOrder'
  BY <1>1, <1>5, AdderConstants, Numbers DEF InOrder, Slots
<1>14. Counts'
  <2>1. \A x \in Tasks : x[1] <= calls + 1 /\ x[1] # calls + 1 => x[1] <= calls /\ x[1] # 0
    BY <1>1, AdderConstants
  <2> QED BY <1>1, <1>4, <1>9, <2>1 DEF Counts
<1>15. Totals'
  BY <1>1, <1>4, <1>7 DEF Totals
<1> QED BY <1>11, <1>12, <1>13, <1>14, <1>15 DEF Calls

\* par_adder submits the next task of its frame.
LEMMA CallSubmitKeeps ==
    ASSUME AdderIInv, par_submit
    PROVE  Calls'
<1>1. /\ SumIsRight /\ FrameAlive /\ Stages /\ InOrder /\ OneWorker /\ Counts /\ Totals
      /\ Released /\ DOMAIN tpc = LCallers /\ frame # 0 /\ slot < NTHREADS
      /\ frame \in 0..NITERS /\ slot \in 0..NTHREADS /\ frame = calls
      /\ UNCHANGED <<frame, calls, total, result, lpc, counter, cur, done>>
      /\ slot' = slot + 1 /\ submitted' = submitted \cup {<<frame, slot>>}
      /\ tpc[Owner] = "idle" /\ tpc' = [tpc EXCEPT ![Owner] = "submit"]
  BY AdderParts DEF par_submit, thread_pool_submit, ldvars, tgoto, At_, ADTypeOK, Stages
<1>2. \A w \in Workers : w \in LCallers /\ w # Owner /\ tpc'[w] = tpc[w]
  BY <1>1, AdderConstants
<1>3. tpc'[Owner] = "submit"
  BY <1>1, AdderConstants
<1>4. \A x : (Counted(x)' <=> Counted(x)) /\ (Stored(x)' <=> Stored(x))
  BY <1>1 DEF Counted, Stored
<1>5. Uncounted' = Uncounted
  BY <1>1, <1>4 DEF Uncounted
<1>6. InOrder'
  <2> SUFFICES ASSUME NEW x \in Tasks
               PROVE  x \in submitted' <=> x[1] <= calls /\ (x[1] = frame => x[2] < slot + 1)
    BY <1>1 DEF InOrder
  <2>1. x[1] \in Int /\ x[2] \in Int /\ x = <<x[1], x[2]>>
    BY AdderConstants, Numbers DEF Slots
  <2>2. x \in submitted <=> x[1] <= calls /\ (x[1] = frame => x[2] < slot)
    BY <1>1 DEF InOrder
  <2>3. x = <<frame, slot>> <=> x[1] = frame /\ x[2] = slot
    BY <2>1
  <2> QED BY <1>1, <2>1, <2>2, <2>3
<1>7. SumIsRight' /\ OneWorker' /\ FrameAlive' /\ Released' /\ Stages'
  BY <1>1, <1>2, <1>3 DEF SumIsRight, OneWorker, FrameAlive, Released, Stages
<1>8. Counts' /\ Totals'
  BY <1>1, <1>4, <1>5 DEF Counts, Totals, RegionSum, begin, end
<1> QED BY <1>6, <1>7, <1>8 DEF Calls

\* par_adder returns: every task of the frame has counted down, hence stored its
\* total, and none of them uses the frame any more.
LEMMA CallReturnKeeps ==
    ASSUME AdderIInv, par_return
    PROVE  Calls'
<1>1. /\ SumIsRight /\ FrameAlive /\ Stages /\ InOrder /\ OneWorker /\ Counts /\ Totals
      /\ Released /\ LatchInv /\ frame # 0 /\ lpc[Owner] = "passed" /\ slot = NTHREADS
      /\ frame = calls /\ calls \in 0..NITERS
      /\ total \in [Slots -> {Uninitialised} \cup 0..NVALS]
      /\ UNCHANGED <<calls, slot, tpc, cur, done, submitted, lpc, counter>>
      /\ frame' = 0 /\ result' = SumOfTotals[NTHREADS]
  BY AdderParts DEF par_return, tpvars, pvars, ldvars, ADTypeOK, Stages
<1>2. \A n \in Slots : Counted(<<frame, n>>)
  <2>1. counter = 0
    BY <1>1, AdderConstants DEF LatchInv, PassedAtZero
  <2>2. IsFiniteSet(Uncounted)
    BY AdderConstants, FS_Subset DEF Uncounted
  <2>3. Uncounted = {}
    BY <1>1, <2>1, <2>2, FS_EmptySet DEF Counts
  <2> QED BY <2>3 DEF Uncounted
<1>3. \A n \in Slots : Stored(<<frame, n>>)
  BY <1>2 DEF Counted, Stored
<1>4. total = [n \in Slots |-> RegionSum(n)]
  <2> HIDE DEF RegionSum
  <2>1. \A n \in Slots : total[n] = RegionSum(n)
    BY <1>1, <1>3 DEF Totals
  <2> QED BY <1>1, <2>1
<1>5. SumIsRight'
  BY <1>1, <1>4, SumOfRegions DEF SumIsRight
<1>6. \A w \in Workers : tpc[w] = "task" => lpc[w] = "counted"
  BY <1>1 DEF Released
<1>7. FrameAlive' /\ OneWorker' /\ Released' /\ Stages' /\ Totals'
  BY <1>1, <1>6 DEF FrameAlive, OneWorker, Released, Stages, Totals
<1>8. InOrder'
  <2>1. \A x \in Tasks : x[1] # 0 /\ x[2] < NTHREADS
    BY AdderConstants, Numbers DEF Slots
  <2>2. \A x \in Tasks : x \in submitted <=> x[1] <= calls
    BY <1>1, <2>1 DEF InOrder
  <2> QED BY <1>1, <2>1, <2>2 DEF InOrder
<1>9. Counts'
  <2>1. \A x : Counted(x)' <=> Counted(x)
    BY <1>1 DEF Counted
  <2>2. \A x \in Tasks : x[1] = frame => Counted(x)
    BY <1>2, AdderConstants
  <2> QED BY <1>1, <2>1, <2>2 DEF Counts
<1> QED BY <1>5, <1>7, <1>8, <1>9 DEF Calls

\* par_adder begins to await its tasks.
LEMMA CallAwaitKeeps ==
    ASSUME AdderIInv, par_await
    PROVE  Calls'
<1>1. /\ UNCHANGED <<tpvars, advars, counter>> /\ frame # 0 /\ slot = NTHREADS
      /\ lpc' = [lpc EXCEPT ![Owner] = "await_lock"]
  BY DEF par_await, countdownlatch_await, lgoto
<1>2. /\ lpc'[Owner] = "await_lock" /\ Owner \in LCallers
      /\ \A d \in LCallers : d # Owner => lpc'[d] = lpc[d]
  BY <1>1, AdderParts, AdderConstants
<1> QED BY <1>1, <1>2, MoveKeeps

\* main: the pool starts before the calls and is cleaned up after them.
LEMMA MainKeeps ==
    ASSUME AdderIInv, main_pool
    PROVE  Calls'
<1>1. /\ Stages /\ Roles /\ DOMAIN tpc = LCallers /\ UNCHANGED <<ldvars, advars>>
  BY AdderParts DEF main_pool
<1>2. UNCHANGED <<cur, done, submitted>>
  BY DEF main_pool, thread_pool_init, thread_pool_cleanup, thread_pool_stop
<1>3. \A w \in Workers : w \in LCallers /\ w # Owner
  BY AdderConstants
<1>4. CASE thread_pool_init
  <2>1. tpc[Owner] = "init" /\ \A w \in Workers : tpc[w] # "task" /\ tpc'[w] = "loop"
    BY <1>1, <1>3, <1>4, AdderConstants DEF thread_pool_init, Roles
  <2> QED BY <1>1, <1>2, <2>1, OtherKeeps DEF Stages
<1>5. CASE ~thread_pool_init
  <2>1. frame = 0 /\ \A w \in Workers : tpc'[w] = tpc[w]
    BY <1>1, <1>3, <1>5 DEF main_pool, thread_pool_cleanup, thread_pool_stop, tgoto
  <2> QED BY <1>1, <1>2, <2>1, OtherKeeps DEF Stages
<1> QED BY <1>4, <1>5

-----------------------------------------------------------------------------

\* The invariant is inductive.
LEMMA AdderNext == AdderIInv /\ [ADNext]_allvars => AdderIInv'
<1> SUFFICES ASSUME AdderIInv, [ADNext]_allvars PROVE AdderIInv'
  OBVIOUS
<1>1. PoolIInv'
  BY AdderParts, AdderCallsPool, PoolNext
<1>2. LatchInv'
  BY AdderKeepsLatch
<1>3. Calls'
  <2>1. CASE UNCHANGED allvars
    <3>1. UNCHANGED <<ldvars, advars, cur, done, submitted, tpc>>
      BY <2>1 DEF allvars, tpvars, pvars
    <3> QED BY <3>1, AdderParts, OtherKeeps DEF Stages
  <2>2. ASSUME NEW c \in QCallers,
               \/ PoolStep(c) /\ UNCHANGED <<ldvars, advars>>
               \/ spurious(c) /\ UNCHANGED <<pvars, ldvars, advars>>
        PROVE  Calls'
    BY <2>2, PoolStepKeeps
  <2>3. ASSUME NEW c \in QCallers, LatchStep(c) \/ latch_spurious(c),
               UNCHANGED <<tpvars, advars>>
        PROVE  Calls'
    BY <2>3, LatchStepKeeps
  <2>4. ASSUME NEW w \in Workers, par_func(w) \/ par_func_return(w)
        PROVE  Calls'
    BY <2>4, FuncKeeps, FuncReturnKeeps
  <2>5. CASE par_adder \/ par_submit \/ par_await \/ par_return \/ main_pool
    BY <2>5, CallKeeps, CallSubmitKeeps, CallAwaitKeeps, CallReturnKeeps, MainKeeps
  <2> QED BY <2>1, <2>2, <2>3, <2>4, <2>5 DEF ADNext, AdderStep, Spurious
<1>4. ADTypeOK'
  BY <1>1, <1>3, AdderTypes DEF PoolIInv, Calls
<1> QED BY <1>1, <1>2, <1>3, <1>4 DEF AdderIInv

\* Every call of par_adder returns the sum of all values, and no pool thread uses
\* the latch or the task records of a frame that is gone.
THEOREM AdderIsRight == ADSpec => []AdderInv
<1>1. AdderIInv => AdderInv
  BY DEF AdderIInv, Calls, AdderInv
<1> QED BY <1>1, AdderInit, AdderNext, PTL DEF ADSpec

\* Latch and pool keep their invariants in the program, where the latch is
\* initialised anew for every call.
THEOREM AdderUsesRight == ADSpec => [](LatchInv /\ PoolInv)
<1>1. AdderIInv => LatchInv /\ PoolInv
  BY PoolMeans DEF AdderIInv
<1> QED BY <1>1, AdderInit, AdderNext, PTL DEF ADSpec
=============================================================================
