----------------------------- MODULE MonitorProofs -----------------------------
(***************************************************************************)
(* Proofs about the two monitors written with pthreads: the count-down     *)
(* latch, for any set of threads, any initial count and any number of      *)
(* spurious wake-ups, and the blocking queue, for any finite sets of       *)
(* callers and items and any number of spurious wake-ups.                  *)
(***************************************************************************)
EXTENDS CountDownLatch, MonitorQueue, QueueLemmas

(***************************************************************************)
(* The count-down latch                                                    *)
(***************************************************************************)

\* LatchInv, the conjunction of the types, which say who holds the mutex, and
\* of the two safety properties, is inductive.

-----------------------------------------------------------------------------

\* The invariant holds after countdownlatch_init.
LEMMA LatchInvInit == countdownlatch_init => LatchInv
BY LatchAssumption
   DEF countdownlatch_init, LatchInv, LDTypeOK, PassedAtZero, OpenFreesAll,
       LatchInMutex

\* Every step of every thread keeps the invariant.
LEMMA LatchInvStep == LatchInv /\ [LDNext]_ldvars => LatchInv'
<1> SUFFICES ASSUME LatchInv, [LDNext]_ldvars
             PROVE  LatchInv'
  OBVIOUS
<1> USE LatchAssumption DEF LatchInv, LDTypeOK, LatchInMutex, lgoto
<1>1. CASE UNCHANGED ldvars
  BY <1>1 DEF ldvars, PassedAtZero, OpenFreesAll
<1>2. ASSUME NEW c \in LCallers,
             countdownlatch_countdown(c) \/ countdownlatch_await(c)
      PROVE  LatchInv'
  <2>1. /\ lpc[c] \in {"out", "counted"}
        /\ lpc' = [lpc EXCEPT ![c] = lpc'[c]]
        /\ lpc'[c] \in {"down_lock", "await_lock"}
        /\ UNCHANGED <<llock, lwaiters, counter, wakeups>>
    BY <1>2 DEF countdownlatch_countdown, countdownlatch_await
  <2>2. LDTypeOK'
    BY <2>1
  <2>3. PassedAtZero' /\ OpenFreesAll'
    BY <2>1 DEF PassedAtZero, OpenFreesAll
  <2> QED BY <2>2, <2>3
<1>3. ASSUME NEW c \in LCallers, latch_lock(c)
      PROVE  LatchInv'
  <2>1. /\ lpc[c] \in {"down_lock", "await_lock", "await_wait"}
        /\ AfterLatchLock[lpc[c]] \in {"down", "await"}
    BY <1>3 DEF latch_lock, AfterLatchLock
  <2>2. LDTypeOK'
    BY <1>3, <2>1 DEF latch_lock
  <2>3. PassedAtZero' /\ OpenFreesAll'
    BY <1>3, <2>1 DEF latch_lock, PassedAtZero, OpenFreesAll
  <2> QED BY <2>2, <2>3
<1>4. ASSUME NEW c \in LCallers, down(c)
      PROVE  LatchInv'
  <2>1. LDTypeOK'
    BY <1>4 DEF down
  <2>2. PassedAtZero'
    BY <1>4 DEF down, PassedAtZero
  <2>3. OpenFreesAll'
    BY <1>4 DEF down, OpenFreesAll
  <2> QED BY <2>1, <2>2, <2>3
<1>5. ASSUME NEW c \in LCallers, broadcast(c)
      PROVE  LatchInv'
  BY <1>5 DEF broadcast, PassedAtZero, OpenFreesAll
<1>6. ASSUME NEW c \in LCallers, await_wait(c)
      PROVE  LatchInv'
  <2>1. LDTypeOK'
    BY <1>6 DEF await_wait
  <2>2. PassedAtZero' /\ OpenFreesAll'
    BY <1>6 DEF await_wait, PassedAtZero, OpenFreesAll
  <2> QED BY <2>1, <2>2
<1>7. ASSUME NEW c \in LCallers, await_end(c)
      PROVE  LatchInv'
  BY <1>7 DEF await_end, PassedAtZero, OpenFreesAll
<1>8. ASSUME NEW c \in LCallers, latch_unlock(c)
      PROVE  LatchInv'
  <2>1. LDTypeOK'
    BY <1>8 DEF latch_unlock
  <2>2. PassedAtZero' /\ OpenFreesAll'
    BY <1>8 DEF latch_unlock, PassedAtZero, OpenFreesAll
  <2> QED BY <2>1, <2>2
<1>9. ASSUME NEW c \in LCallers, latch_spurious(c)
      PROVE  LatchInv'
  BY <1>9 DEF latch_spurious, PassedAtZero, OpenFreesAll
<1> QED
  BY <1>1, <1>2, <1>3, <1>4, <1>5, <1>6, <1>7, <1>8, <1>9
  DEF LDNext, LatchStep

-----------------------------------------------------------------------------

\* The invariant holds in every reachable state.
THEOREM LatchInvariant == LDSpec => []LatchInv
BY LatchInvInit, LatchInvStep, PTL DEF LDSpec

\* The mutex of countdownlatch.c has at most one owner, which is inside its
\* critical section, and the counter never leaves its range.
THEOREM LatchTypeCorrect == LDSpec => []LDTypeOK
<1>1. LatchInv => LDTypeOK
  BY DEF LatchInv
<1> QED BY <1>1, LatchInvariant, PTL

\* countdownlatch_await returns to nobody before the counter is zero.
THEOREM NobodyPassesEarly == LDSpec => []PassedAtZero
<1>1. LatchInv => PassedAtZero
  BY DEF LatchInv
<1> QED BY <1>1, LatchInvariant, PTL

\* At zero a thread is blocked only while the last countdown is about to
\* broadcast: no wake-up is lost.
THEOREM NobodyIsKept == LDSpec => []OpenFreesAll
<1>1. LatchInv => OpenFreesAll
  BY DEF LatchInv
<1> QED BY <1>1, LatchInvariant, PTL

-----------------------------------------------------------------------------
(***************************************************************************)
(* The blocking queue                                                      *)
(***************************************************************************)

\* What a thread is about to insert is one of the items.
PutsItem ==
    \A c \in QCallers : qpc[c] \in {"put_lock", "put_insert"} => qitem[c] \in QItems

\* The inductive invariant; it holds whatever items the callers put.
QueueInv == QTypeOK /\ Monitor /\ NoLostWakeup /\ PutsItem

\* A step of any caller at all, disciplined or not.
AnyCall(c) ==
    \/ \E x \in QItems : queue_put(c, x)
    \/ queue_get(c)
    \/ queue_size(c)
    \/ QueueStep(c)
    \/ spurious(c)

LEMMA QueueInvInit == queue_init => QueueInv
<1> SUFFICES ASSUME queue_init PROVE QueueInv
  OBVIOUS
<1>1. <<>> \in Seq(QItems) /\ Len(<<>>) = 0
  OBVIOUS
<1> QED
  BY <1>1, QueueAssumption
  DEF queue_init, QueueInv, QTypeOK, Monitor, InMutex, NoLostWakeup, PutsItem

\* Adding a thread to a set of threads, or removing one.
LEMMA CountCallers ==
    ASSUME NEW A \in SUBSET QCallers, NEW c \in QCallers
    PROVE  /\ Cardinality(A) \in Nat
           /\ c \notin A => Cardinality(A \cup {c}) = Cardinality(A) + 1
           /\ c \in A => Cardinality(A \ {c}) = Cardinality(A) - 1
<1>1. IsFiniteSet(A)
  BY QueueAssumption, FS_Subset
<1> QED BY <1>1, FS_CardinalityType, FS_AddElement, FS_RemoveElement

\* Types, the monitor's data and the items are kept by every step.
LEMMA MonitorStep ==
    ASSUME QueueInv, NEW c \in QCallers, AnyCall(c)
    PROVE  QTypeOK' /\ Monitor' /\ PutsItem'
<1> USE QueueAssumption DEF QueueInv, QTypeOK, Monitor, PutsItem, InMutex, qgoto
<1>1. CASE \E x \in QItems : queue_put(c, x)
  BY <1>1 DEF queue_put
<1>2. CASE queue_get(c) \/ queue_size(c)
  BY <1>2 DEF queue_get, queue_size
<1>3. CASE lock_step(c)
  <2>1. /\ qpc[c] \in {"put_lock", "get_lock", "get_wait", "size_lock"}
        /\ qpc' = [qpc EXCEPT ![c] = AfterLock[qpc[c]]]
        /\ AfterLock[qpc[c]] \in {"put_insert", "get_test", "size_read"}
        /\ AfterLock[qpc[c]] = "put_insert" => qpc[c] = "put_lock"
    BY <1>3 DEF lock_step, AfterLock
  <2> QED BY <1>3, <2>1 DEF lock_step
<1>4. CASE put_insert(c)
  <2>1. Append(qlist, qitem[c]) \in Seq(QItems)
        /\ Len(Append(qlist, qitem[c])) = Len(qlist) + 1
    BY <1>4, AppendQueue DEF put_insert
  <2> QED BY <1>4, <2>1 DEF put_insert
<1>5. CASE put_signal(c)
  BY <1>5 DEF put_signal
<1>6. CASE get_wait(c)
  BY <1>6 DEF get_wait
<1>7. CASE get_take(c)
  <2>1. qlist # <<>>
    BY <1>7 DEF get_take
  <2>2. /\ Tail(qlist) \in Seq(QItems) /\ Len(Tail(qlist)) = Len(qlist) - 1
        /\ Head(qlist) \in QItems /\ Len(qlist) > 0
    BY <2>1, TailQueue
  <2> QED BY <1>7, <2>2 DEF get_take
<1>8. CASE size_read(c)
  BY <1>8 DEF size_read
<1>9. CASE unlock_step(c)
  BY <1>9 DEF unlock_step
<1>10. CASE spurious(c)
  BY <1>10 DEF spurious
<1> QED
  BY <1>1, <1>2, <1>3, <1>4, <1>5, <1>6, <1>7, <1>8, <1>9, <1>10
  DEF AnyCall, QueueStep

\* Blocked threads are never outnumbered by items that nobody is on the way to
\* take: a put adds its own signal to come, a signal passes this on to the
\* thread that it wakes, and a get takes one item for one thread awake.
LEMMA WakeupStep ==
    ASSUME QueueInv, NEW c \in QCallers, AnyCall(c)
    PROVE  NoLostWakeup'
<1>1. /\ qlist \in Seq(QItems) /\ qsize = Len(qlist) /\ Len(qlist) \in Nat
      /\ Awake \in SUBSET QCallers /\ Cardinality(Awake) \in Nat
      /\ \A w \in qwaiters : w \in QCallers /\ qpc[w] = "get_wait" /\ w \notin Awake
  BY CountCallers DEF QueueInv, QTypeOK, Monitor, Awake
<1>2. DOMAIN qpc = QCallers
  BY DEF QueueInv, QTypeOK
<1>3. ASSUME UNCHANGED <<qlist, qwaiters>>, Awake' = Awake \/ Awake' = Awake \cup {c}
      PROVE  NoLostWakeup'
  <2>1. Awake' = Awake \/ (c \notin Awake /\ Awake' = Awake \cup {c})
    BY <1>3
  <2>2. Cardinality(Awake') \in {Cardinality(Awake), Cardinality(Awake) + 1}
    BY <1>1, <2>1, CountCallers
  <2>3. Len(qlist') = Len(qlist) /\ qwaiters' = qwaiters
    BY <1>3
  <2> QED BY <1>1, <2>2, <2>3 DEF QueueInv, NoLostWakeup
<1>4. CASE \/ \E x \in QItems : queue_put(c, x)
           \/ queue_get(c) \/ queue_size(c)
           \/ size_read(c) \/ unlock_step(c)
  <2>1. /\ UNCHANGED <<qlist, qwaiters>>
        /\ qpc' = [qpc EXCEPT ![c] = qpc'[c]]
        /\ qpc[c] \in {"out", "size_read", "unlock"}
        /\ qpc'[c] \in {"put_lock", "get_lock", "size_lock", "unlock", "out"}
    BY <1>2, <1>4 DEF queue_put, queue_get, queue_size, size_read, unlock_step, qgoto
  <2>2. Awake' = Awake \/ Awake' = Awake \cup {c}
    BY <1>2, <2>1 DEF Awake
  <2> QED BY <2>1, <2>2, <1>3
<1>5. CASE lock_step(c)
  <2>1. /\ UNCHANGED <<qlist, qwaiters>> /\ c \notin qwaiters
        /\ qpc' = [qpc EXCEPT ![c] = qpc'[c]]
        /\ \/ qpc[c] \in {"put_lock", "size_lock"}
              /\ qpc'[c] \in {"put_insert", "size_read"}
           \/ qpc[c] \in {"get_lock", "get_wait"} /\ qpc'[c] = "get_test"
    BY <1>2, <1>5 DEF lock_step, AfterLock, qgoto
  <2>2. Awake' = Awake
    BY <1>2, <2>1 DEF Awake
  <2> QED BY <2>1, <2>2, <1>3
<1>6. CASE put_insert(c)
  <2>1. Len(qlist') = Len(qlist) + 1
    BY <1>1, <1>6, AppendQueue DEF put_insert, QueueInv, PutsItem
  <2>2. Awake' = Awake \cup {c} /\ c \notin Awake /\ qwaiters' = qwaiters
    BY <1>2, <1>6 DEF put_insert, qgoto, Awake
  <2>3. Cardinality(Awake') = Cardinality(Awake) + 1
    BY <1>1, <2>2, CountCallers
  <2> QED BY <1>1, <2>1, <2>2, <2>3 DEF QueueInv, NoLostWakeup
<1>7. CASE put_signal(c)
  <2>1. CASE qwaiters = {}
    BY <1>7, <2>1 DEF put_signal, NoLostWakeup
  <2>2. ASSUME NEW w \in qwaiters, qwaiters' = qwaiters \ {w}
        PROVE  NoLostWakeup'
    <3>1. /\ qpc[c] = "put_signal" /\ qpc' = [qpc EXCEPT ![c] = "unlock"]
          /\ qlist' = qlist
      BY <1>7 DEF put_signal, qgoto
    <3>2. c \in Awake /\ w \notin Awake /\ w \in QCallers
      BY <1>1, <2>2, <3>1 DEF Awake
    <3>3. Awake' = (Awake \ {c}) \cup {w}
      BY <1>1, <1>2, <2>2, <3>1 DEF Awake
    <3>4. Cardinality(Awake \ {c}) = Cardinality(Awake) - 1
      BY <1>1, <3>2, CountCallers
    <3>5. Cardinality(Awake') = Cardinality(Awake)
      <4> DEFINE B == Awake \ {c}
      <4>1. B \in SUBSET QCallers /\ w \notin B /\ Awake' = B \cup {w}
        BY <1>1, <3>2, <3>3
      <4>2. Cardinality(B) = Cardinality(Awake) - 1
        BY <3>4
      <4> HIDE DEF B
      <4>3. Cardinality(B \cup {w}) = Cardinality(B) + 1
        BY <3>2, <4>1, CountCallers
      <4> QED BY <1>1, <4>1, <4>2, <4>3
    <3> QED BY <2>2, <3>1, <3>5 DEF QueueInv, NoLostWakeup
  <2> QED BY <1>7, <2>1, <2>2 DEF put_signal
<1>8. CASE get_wait(c)
  <2>1. qlist' = qlist /\ Len(qlist) = 0
    BY <1>1, <1>8 DEF get_wait
  <2>2. Awake' \in SUBSET QCallers
    BY DEF Awake
  <2>3. Cardinality(Awake') \in Nat
    BY <2>2, QueueAssumption, FS_Subset, FS_CardinalityType
  <2> QED BY <2>1, <2>3 DEF NoLostWakeup
<1>9. CASE get_take(c)
  <2>1. qlist # <<>>
    BY <1>1, <1>9 DEF get_take
  <2>2. Len(qlist') = Len(qlist) - 1
    BY <1>1, <1>9, <2>1, TailQueue DEF get_take
  <2>3. Awake' = Awake \ {c} /\ c \in Awake /\ qwaiters' = qwaiters
    BY <1>2, <1>9 DEF get_take, qgoto, Awake
  <2>4. Cardinality(Awake') = Cardinality(Awake) - 1
    BY <1>1, <2>3, CountCallers
  <2> QED BY <1>1, <2>2, <2>3, <2>4 DEF QueueInv, NoLostWakeup
<1>10. CASE spurious(c)
  <2>1. /\ qlist' = qlist /\ qpc' = qpc /\ c \in qwaiters
        /\ qwaiters' = qwaiters \ {c}
    BY <1>10 DEF spurious
  <2>2. Awake' = Awake \cup {c} /\ c \notin Awake
    BY <1>1, <2>1 DEF Awake
  <2>3. Cardinality(Awake') = Cardinality(Awake) + 1
    BY <1>1, <2>2, CountCallers
  <2> QED BY <1>1, <2>1, <2>3 DEF QueueInv, NoLostWakeup
<1> QED
  BY <1>4, <1>5, <1>6, <1>7, <1>8, <1>9, <1>10 DEF AnyCall, QueueStep

\* The invariant is kept by every step of every caller.
LEMMA QueueInvStep ==
    ASSUME QueueInv, [\E c \in QCallers : AnyCall(c)]_qvars
    PROVE  QueueInv'
<1>1. CASE UNCHANGED qvars
  BY <1>1 DEF qvars, QueueInv, QTypeOK, Monitor, InMutex, NoLostWakeup, Awake, PutsItem
<1>2. ASSUME NEW c \in QCallers, AnyCall(c) PROVE QueueInv'
  BY <1>2, MonitorStep, WakeupStep DEF QueueInv
<1> QED BY <1>1, <1>2

\* The clients of QSpec are callers.
LEMMA ClientsCall == QNext => \E c \in QCallers : AnyCall(c)
BY DEF QNext, AnyCall

-----------------------------------------------------------------------------
(* The queue as a blocking FIFO.                                           *)

\* The discipline of the clients: an item is in one place, in the list or with
\* the one thread that is about to insert it.
OnePlace ==
    /\ Distinct(qlist)
    /\ \A c \in QCallers :
         qpc[c] \in {"put_lock", "put_insert"} =>
           /\ qitem[c] \notin Range(qlist)
           /\ \A d \in QCallers :
                qpc[d] \in {"put_lock", "put_insert"} /\ qitem[d] = qitem[c] => d = c

\* The inductive invariant with disciplined clients.
ClientInv == QueueInv /\ OnePlace

LEMMA ClientInvInit == queue_init => ClientInv
BY QueueInvInit, EmptyQueue DEF queue_init, ClientInv, OnePlace

LEMMA ClientInvStep == ClientInv /\ [QNext]_qvars => ClientInv'
<1> SUFFICES ASSUME ClientInv, [QNext]_qvars PROVE OnePlace'
  BY QueueInvStep, ClientsCall DEF ClientInv
<1>1. /\ qlist \in Seq(QItems) /\ DOMAIN qpc = QCallers
      /\ qpc = [c \in QCallers |-> qpc[c]]
      /\ qitem \in [QCallers -> QItems \cup {NoItem}] /\ qsize = Len(qlist)
      /\ PutsItem /\ OnePlace /\ Distinct(qlist)
  BY DEF ClientInv, QueueInv, QTypeOK, Monitor, OnePlace
<1>2. CASE UNCHANGED qvars
  BY <1>1, <1>2 DEF qvars, OnePlace, Distinct
<1>3. ASSUME NEW c \in QCallers, NEW x \in QItems,
             x \notin Range(qlist), Holders(x) = {}, queue_put(c, x)
      PROVE  OnePlace'
  <2>1. /\ qlist' = qlist
        /\ qitem'[c] = x /\ \A d \in QCallers : d # c => qitem'[d] = qitem[d]
        /\ \A d \in QCallers : d # c => qpc'[d] = qpc[d]
    BY <1>1, <1>3 DEF queue_put, qgoto
  <2>2. \A d \in QCallers : qpc[d] \in {"put_lock", "put_insert"} => qitem[d] # x
    BY <1>3 DEF Holders
  <2>3. \A d \in QCallers : qpc'[d] \in {"put_lock", "put_insert"} =>
           qitem'[d] \notin Range(qlist)
    BY <1>1, <1>3, <2>1 DEF OnePlace
  <2>4. ASSUME NEW d \in QCallers, NEW e \in QCallers,
               qpc'[d] \in {"put_lock", "put_insert"},
               qpc'[e] \in {"put_lock", "put_insert"}, qitem'[e] = qitem'[d]
        PROVE  e = d
    <3>1. CASE d = c \/ e = c
      BY <2>1, <2>2, <2>4, <3>1
    <3>2. CASE d # c /\ e # c
      BY <1>1, <2>1, <2>4, <3>2 DEF OnePlace
    <3> QED BY <3>1, <3>2
  <2> QED BY <1>1, <2>1, <2>3, <2>4 DEF OnePlace
<1>4. ASSUME NEW c \in QCallers,
             \/ queue_get(c) \/ queue_size(c) \/ lock_step(c) \/ put_signal(c)
             \/ get_wait(c) \/ size_read(c) \/ unlock_step(c) \/ spurious(c)
      PROVE  OnePlace'
  <2>1. UNCHANGED <<qlist, qitem>>
    BY <1>4 DEF queue_get, queue_size, lock_step, put_signal, get_wait,
                size_read, unlock_step, spurious
  <2>2. \A d \in QCallers : qpc'[d] \in {"put_lock", "put_insert"}
                             => qpc[d] \in {"put_lock", "put_insert"}
    BY <1>1, <1>4
    DEF queue_get, queue_size, lock_step, AfterLock, put_signal, get_wait,
        size_read, unlock_step, spurious, qgoto
  <2> QED BY <1>1, <2>1, <2>2 DEF OnePlace, Distinct
<1>5. ASSUME NEW c \in QCallers, put_insert(c) PROVE OnePlace'
  <2>1. /\ qitem[c] \in QItems /\ qitem[c] \notin Range(qlist)
        /\ qpc' = [qpc EXCEPT ![c] = "put_signal"] /\ qitem' = qitem
    BY <1>1, <1>5 DEF put_insert, qgoto, PutsItem, OnePlace
  <2>2. /\ Range(qlist') = Range(qlist) \cup {qitem[c]} /\ Distinct(qlist')
    BY <1>1, <1>5, <2>1, AppendQueue DEF put_insert
  <2> QED BY <1>1, <1>5, <2>1, <2>2 DEF put_insert, OnePlace
<1>6. ASSUME NEW c \in QCallers, get_take(c) PROVE OnePlace'
  <2>1. qlist # <<>>
    BY <1>1, <1>6 DEF get_take
  <2>2. /\ Range(qlist') \subseteq Range(qlist) /\ Distinct(qlist')
        /\ qpc' = [qpc EXCEPT ![c] = "unlock"]
        /\ \A d \in QCallers : d # c => qitem'[d] = qitem[d]
    BY <1>1, <1>6, <2>1, TailQueue DEF get_take, qgoto
  <2> QED BY <1>1, <2>2 DEF OnePlace
<1> QED
  BY <1>2, <1>3, <1>4, <1>5, <1>6 DEF QNext, QueueStep

\* There is room for an item that is about to be inserted.
LEMMA RoomToPut ==
    ASSUME ClientInv, NEW c \in QCallers, qpc[c] = "put_insert"
    PROVE  Len(qlist) < Cardinality(QItems)
<1> DEFINE S == QItems \ {qitem[c]}
<1>1. /\ qlist \in Seq(QItems) /\ qitem[c] \in QItems /\ qitem[c] \notin Range(qlist)
      /\ Distinct(qlist) /\ Len(qlist) \in Nat
  BY DEF ClientInv, QueueInv, QTypeOK, PutsItem, OnePlace
<1>2. IsFiniteSet(S) /\ Cardinality(S) = Cardinality(QItems) - 1
      /\ Cardinality(QItems) \in Nat
  BY <1>1, QueueAssumption, FS_RemoveElement, FS_CardinalityType
<1>3. qlist \in Seq(S)
  <2>1. \A i \in 1..Len(qlist) : qlist[i] \in S
    BY <1>1, RangeIsElements
  <2> QED BY <1>1, <2>1
<1> HIDE DEF S
<1>4. Len(qlist) <= Cardinality(S)
  BY <1>1, <1>2, <1>3, DistinctFits
<1> QED BY <1>1, <1>2, <1>4

\* Initially nobody is in a call.
LEMMA FifoInit == queue_init => Fifo!AInit
<1> SUFFICES ASSUME queue_init PROVE Fifo!AInit
  OBVIOUS
<1> DEFINE call == [c \in QCallers |-> [op |-> AbstractOp(c), item |-> qitem[c]]]
<1>1. \A c \in QCallers : AbstractOp(c) = "idle" /\ qitem[c] = NoItem
  BY DEF queue_init, AbstractOp
<1>2. call \in [QCallers -> [op : {"idle"}, item : QItems \cup {NoItem}]]
  BY <1>1
<1> QED BY <1>2 DEF queue_init, Fifo!AInit

\* What a step of a caller does to the calls, seen from outside: only its own
\* call changes.
LEMMA CallsChange ==
    ASSUME QueueInv, NEW c \in QCallers,
           \/ \E x \in QItems : queue_put(c, x)
           \/ queue_get(c) \/ queue_size(c) \/ QueueStep(c) \/ spurious(c)
    PROVE  /\ DOMAIN qitem = QCallers
           /\ \A d \in QCallers : d # c => /\ qpc'[d] = qpc[d]
                                           /\ qitem'[d] = qitem[d]
BY DEF QueueInv, QTypeOK, queue_put, queue_get, queue_size, QueueStep, lock_step,
       put_insert, put_signal, get_wait, get_take, size_read, unlock_step,
       spurious, qgoto

\* Every step of a client is a step of the FIFO or leaves it alone: a put takes
\* effect at the insertion, and there is room; a get at the removal.
LEMMA FifoStep ==
    ASSUME ClientInv, [QNext]_qvars
    PROVE  [Fifo!ANext]_Fifo!avars
<1> DEFINE Call(c) == [op |-> AbstractOp(c), item |-> qitem[c]]
           call == [c \in QCallers |-> Call(c)]
<1>1. QueueInv /\ QTypeOK /\ qlist \in Seq(QItems) /\ qsize = Len(qlist)
  BY DEF ClientInv, QueueInv, Monitor, QTypeOK
<1>2. CASE UNCHANGED qvars
  <2>1. call' = call /\ qlist' = qlist
    BY <1>2 DEF qvars, AbstractOp
  <2> QED BY <2>1 DEF Fifo!avars
<1>3. ASSUME NEW c \in QCallers, NEW x \in QItems, queue_put(c, x)
      PROVE  Fifo!BeginPut(c, x)
  <2>1. \A d \in QCallers : d # c => Call(d)' = Call(d)
    BY <1>1, <1>3, CallsChange DEF AbstractOp
  <2>2. Call(c).op = "idle" /\ Call(c)' = [op |-> "put", item |-> x] /\ qlist' = qlist
    BY <1>1, <1>3 DEF queue_put, qgoto, AbstractOp, QTypeOK
  <2>3. call' = [call EXCEPT ![c] = [op |-> "put", item |-> x]]
    BY <2>1, <2>2
  <2> QED BY <2>2, <2>3 DEF Fifo!BeginPut
<1>4. ASSUME NEW c \in QCallers, queue_get(c)
      PROVE  Fifo!BeginGet(c)
  <2>1. \A d \in QCallers : d # c => Call(d)' = Call(d)
    BY <1>1, <1>4, CallsChange DEF AbstractOp
  <2>2. Call(c).op = "idle" /\ Call(c)' = [Call(c) EXCEPT !.op = "get"] /\ qlist' = qlist
    BY <1>1, <1>4 DEF queue_get, qgoto, AbstractOp, QTypeOK
  <2>3. call' = [call EXCEPT ![c].op = "get"]
    BY <2>1, <2>2
  <2> QED BY <2>2, <2>3 DEF Fifo!BeginGet
<1>5. ASSUME NEW c \in QCallers, put_insert(c)
      PROVE  Fifo!Put(c)
  <2>1. \A d \in QCallers : d # c => Call(d)' = Call(d)
    BY <1>1, <1>5, CallsChange DEF AbstractOp, QueueStep
  <2>2. /\ Call(c).op = "put" /\ Call(c)' = [Call(c) EXCEPT !.op = "idle"]
        /\ qlist' = Append(qlist, Call(c).item)
    BY <1>1, <1>5 DEF put_insert, qgoto, AbstractOp, QTypeOK
  <2>3. call' = [call EXCEPT ![c].op = "idle"]
    BY <2>1, <2>2
  <2>4. Len(qlist) < Cardinality(QItems)
    BY <1>5, RoomToPut DEF put_insert
  <2> QED BY <2>2, <2>3, <2>4 DEF Fifo!Put
<1>6. ASSUME NEW c \in QCallers, get_take(c)
      PROVE  Fifo!Get(c)
  <2>1. \A d \in QCallers : d # c => Call(d)' = Call(d)
    BY <1>1, <1>6, CallsChange DEF AbstractOp, QueueStep
  <2>2. /\ Call(c).op = "get" /\ Call(c)' = [op |-> "idle", item |-> Head(qlist)]
        /\ qlist' = Tail(qlist)
    BY <1>1, <1>6 DEF get_take, qgoto, AbstractOp, QTypeOK
  <2>3. call' = [call EXCEPT ![c] = [op |-> "idle", item |-> Head(qlist)]]
    BY <2>1, <2>2
  <2>4. qlist # <<>>
    BY <1>1, <1>6 DEF get_take
  <2> QED BY <2>2, <2>3, <2>4 DEF Fifo!Get
<1>7. ASSUME NEW c \in QCallers,
             \/ queue_size(c) \/ lock_step(c) \/ put_signal(c) \/ get_wait(c)
             \/ size_read(c) \/ unlock_step(c) \/ spurious(c)
      PROVE  UNCHANGED Fifo!avars
  <2>1. \A d \in QCallers : d # c => Call(d)' = Call(d)
    BY <1>1, <1>7, CallsChange DEF AbstractOp, QueueStep
  <2>2. qlist' = qlist /\ qitem' = qitem
    BY <1>7 DEF queue_size, lock_step, put_signal, get_wait, size_read,
                unlock_step, spurious
  <2>3. AbstractOp(c)' = AbstractOp(c)
    BY <1>1, <1>7
    DEF queue_size, lock_step, AfterLock, put_signal, get_wait, size_read,
        unlock_step, spurious, qgoto, AbstractOp, QTypeOK
  <2>4. call' = call
    BY <2>1, <2>2, <2>3
  <2> QED BY <2>2, <2>4 DEF Fifo!avars
<1> QED
  BY <1>2, <1>3, <1>4, <1>5, <1>6, <1>7 DEF QNext, QueueStep, Fifo!ANext

-----------------------------------------------------------------------------

\* The invariant of queue.c holds in every reachable state: one thread at a
\* time inside, the size is the length of the list, and pthread_cond_signal
\* loses no wake-up, whatever spurious wake-ups there are.
THEOREM QueueIsSafe == QSpec => []MonitorInv
<1>1. queue_init => ClientInv
  BY ClientInvInit
<1>2. ClientInv /\ [QNext]_qvars => ClientInv'
  BY ClientInvStep
<1>3. ClientInv => MonitorInv
  BY DEF ClientInv, QueueInv, MonitorInv
<1> QED BY <1>1, <1>2, <1>3, PTL DEF QSpec

\* The same for callers without discipline, which may put one item many times:
\* the safety of the monitor does not rest on its clients.
THEOREM QueueIsSafeForAnyone ==
    queue_init /\ [][\E c \in QCallers : AnyCall(c)]_qvars => []MonitorInv
<1>1. QueueInv => MonitorInv
  BY DEF QueueInv, MonitorInv
<1> QED BY <1>1, QueueInvInit, QueueInvStep, PTL

\* queue.c implements the blocking FIFO of BlockingFifo: every put and every
\* get takes effect in one step between its call and its return, in order.
THEOREM QueueImplementsFifo == QSpec => Fifo!ASpec
<1>1. queue_init => ClientInv /\ Fifo!AInit
  BY ClientInvInit, FifoInit
<1>2. ClientInv /\ [QNext]_qvars => ClientInv'
  BY ClientInvStep
<1>3. ClientInv /\ [QNext]_qvars => [Fifo!ANext]_Fifo!avars
  BY FifoStep
<1> QED BY <1>1, <1>2, <1>3, PTL DEF QSpec, Fifo!ASpec
=============================================================================
