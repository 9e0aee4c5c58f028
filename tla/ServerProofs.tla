----------------------------- MODULE ServerProofs -----------------------------
(***************************************************************************)
(* Proofs about the echo servers over TCP: the three blocking ones and     *)
(* those with libuv, epoll and poll, for any finite set of connections,    *)
(* any lines, any number of threads and any limits.                        *)
(***************************************************************************)
EXTENDS StreamServers, PollServer, QueueLemmas

(***************************************************************************)
(* The inductive invariants of StreamServers, one for each kind of server  *)
(***************************************************************************)

\* The blocking servers: a connection is in the pool's queue once, the queue
\* is the pool's, and the other programs have no thread for a connection.
ThreadsInv ==
    /\ TcpInv
    /\ Distinct(queue)
    /\ program # "pool" => queue = <<>>
    /\ ~Blocking => Serving = {} /\ Leaked = {}

\* The libuv server: the life of a handle follows the one of its connection.
HandleFollows(c) ==
    /\ handle[c] = "none" <=> conn[c] \in {"idle", "backlog"}
    /\ handle[c] = "open" <=> conn[c] = "est"

HandlesInv ==
    /\ UvInv
    /\ program = "libuv" => \A c \in Conns : HandleFollows(c)

\* The epoll server: the connection being served or refused is an open one,
\* and no event of it is still to be served.
CurrentOpen ==
    /\ epc \in {"write", "close"} => cur \in interest
    /\ epc \in {"refuse", "write", "close"} =>
          cur \in Conns /\ conn[cur] = "est" /\ cur \notin batch
    /\ epc = "refuse" => cur \notin interest

LoopInv ==
    /\ EpollInv
    /\ BatchNotStale
    /\ program = "epoll" => CurrentOpen
    /\ program # "epoll" => epc = "wait"

ServersInv == ThreadsInv /\ HandlesInv /\ LoopInv

-----------------------------------------------------------------------------
(***************************************************************************)
(* The network                                                             *)
(***************************************************************************)

LEMMA NetworkInit == NetInit => NetTypeOK
BY DEF NetInit, NetTypeOK

LEMMA AcceptStep ==
    ASSUME NetTypeOK, NEW c \in Backlog, Accept(c)
    PROVE  /\ NetTypeOK'
           /\ c \in Conns /\ conn[c] = "backlog" /\ conn'[c] = "est"
           /\ \A d \in Conns : d # c => conn'[d] = conn[d]
           /\ \A d \in Conns : chunk'[d] = chunk[d] /\ fin'[d] = fin[d]
           /\ typed' = typed
           /\ {d \in Conns : conn'[d] = "est"} = {d \in Conns : conn[d] = "est"} \cup {c}
BY DEF NetTypeOK, Backlog, Accept

LEMMA CloseStep ==
    ASSUME NetTypeOK, NEW S, Close(S)
    PROVE  /\ NetTypeOK'
           /\ \A d \in Conns \cap S :
                 conn'[d] = "closed" /\ chunk'[d] = "none" /\ fin'[d] = "open"
           /\ \A d \in Conns \ S :
                 conn'[d] = conn[d] /\ chunk'[d] = chunk[d] /\ fin'[d] = fin[d]
           /\ typed' = typed
           /\ {d \in Conns : conn'[d] = "est"} = {d \in Conns : conn[d] = "est"} \ S
<1>1. NetTypeOK'
  BY DEF NetTypeOK, Close
<1>2. \A d \in Conns \cap S :
         conn'[d] = "closed" /\ chunk'[d] = "none" /\ fin'[d] = "open"
  BY DEF Close
<1>3. \A d \in Conns \ S :
         conn'[d] = conn[d] /\ chunk'[d] = chunk[d] /\ fin'[d] = fin[d]
  BY DEF Close
<1> QED BY <1>1, <1>2, <1>3 DEF Close

\* The peers and the user open, close and reset no connection of the server,
\* and what could be read or accepted still can be.
LEMMA OutsideStep ==
    ASSUME NetTypeOK, PeerStep \/ user_types \/ UNCHANGED netvars
    PROVE  /\ NetTypeOK'
           /\ \A d \in Conns : conn[d] \in {"est", "closed"} \/ conn'[d] \in {"est", "closed"}
                                  => conn'[d] = conn[d]
           /\ Backlog \subseteq Backlog'
           /\ \A d \in Conns : Readable(d) => Readable(d)'
           /\ \A d \in Conns : fin[d] = "reset" => fin'[d] = "reset"
           /\ typed => typed'
           /\ {d \in Conns : conn'[d] = "est"} = {d \in Conns : conn[d] = "est"}
<1>1. CASE PeerStep
  <2> PICK c \in Conns : \/ peer_connect(c)
                         \/ \E l \in Lines : peer_send(c, l)
                         \/ peer_close(c)
                         \/ peer_reset(c)
    BY <1>1 DEF PeerStep
  <2>1. CASE peer_connect(c)
    BY <2>1 DEF peer_connect, NetTypeOK, Backlog, Readable
  <2>2. CASE \E l \in Lines : peer_send(c, l)
    BY <2>2, SocketsAssumption DEF peer_send, NetTypeOK, Backlog, Readable
  <2>3. CASE peer_close(c)
    BY <2>3 DEF peer_close, NetTypeOK, Backlog, Readable
  <2>4. CASE peer_reset(c)
    BY <2>4 DEF peer_reset, NetTypeOK, Backlog, Readable
  <2> QED BY <2>1, <2>2, <2>3, <2>4
<1>2. CASE user_types
  BY <1>2 DEF user_types, NetTypeOK, Backlog, Readable
<1>3. CASE UNCHANGED netvars
  BY <1>3 DEF netvars, NetTypeOK, Backlog, Readable
<1> QED BY <1>1, <1>2, <1>3

-----------------------------------------------------------------------------
(***************************************************************************)
(* Who takes a step                                                        *)
(***************************************************************************)

\* A step is one of the blocking servers, of the peers or the user, of libuv or
\* of the loop of epoll, under its own program.
LEMMA WhoSteps ==
    ASSUME ThreadsInv, [StNext]_stvars
    PROVE  \/ /\ Blocking
              /\ MainStep \/ accept_error \/ \E c \in Conns : ThreadStep(c)
              /\ UNCHANGED <<uvstate, loopvars>>
           \/ /\ PeerStep \/ user_types \/ UNCHANGED netvars
              /\ UNCHANGED <<threadvars, uvstate, loopvars>>
           \/ \E c \in Conns : UvStep(c) \/ UvSpurious(c)
           \/ EpollStep
<1>1. ASSUME NEW c \in Conns, ThreadStep(c) PROVE Blocking
  <2>1. tpc[c] \in {"read", "write"}
    BY <1>1 DEF ThreadStep, process_read, process_echo, process_quit,
                process_stop, process_error, thread_error, Serving
  <2> QED BY <2>1 DEF ThreadsInv, Serving
<1>2. MainStep \/ accept_error => Blocking
  BY DEF MainStep, basic_accept, threads_accept, pool_accept,
         thread_pool_worker, accept_error, Blocking
<1> QED BY <1>1, <1>2
        DEF StNext, stvars, TOutside, Keyboard, UvStep, UvSpurious, EpollStep

-----------------------------------------------------------------------------
(***************************************************************************)
(* The blocking servers                                                    *)
(***************************************************************************)

LEMMA ThreadsInit == TInit => ThreadsInv
<1> SUFFICES ASSUME TInit PROVE ThreadsInv
  OBVIOUS
<1>1. queue = <<>> /\ Serving = {} /\ Leaked = {}
  BY DEF TInit, Serving, Leaked
<1>2. queue \in Seq(Conns) /\ Distinct(queue) /\ Queued = {} /\ Len(queue) = 0
  BY <1>1, EmptyQueue DEF Queued
<1>3. Cardinality({}) = 0
  BY FS_EmptySet
<1>4. 0 <= Limit
  BY SocketsAssumption, TcpAssumption, FS_CardinalityType DEF Limit, TInit
<1>5. {c \in Conns : conn[c] = "est"} = {}
  BY DEF TInit, NetInit
<1> QED BY <1>1, <1>2, <1>3, <1>4, <1>5, NetworkInit
        DEF TInit, ThreadsInv, TcpInv, TTypeOK, Accounted

\* The thread variables decide the accounts, but for the open connections and
\* the resets of those that were abandoned.
LEMMA ThreadsKept ==
    ASSUME ThreadsInv, UNCHANGED threadvars, NetTypeOK',
           Blocking => {c \in Conns : conn'[c] = "est"} = {c \in Conns : conn[c] = "est"},
           \A c \in Leaked : fin'[c] = "reset"
    PROVE  ThreadsInv'
<1>1. /\ program' = program /\ running' = running /\ queue' = queue
      /\ tpc' = tpc /\ tbuf' = tbuf
  BY DEF threadvars
<1>2. Serving' = Serving /\ Leaked' = Leaked /\ Queued' = Queued
  BY <1>1 DEF Serving, Leaked, Queued
<1>3. Blocking' = Blocking /\ Limit' = Limit
  BY <1>1 DEF Blocking, Limit
<1> QED BY <1>1, <1>2, <1>3 DEF ThreadsInv, TcpInv, TTypeOK, Accounted

\* The limit of connections served at a time is a number.
LEMMA LimitIsNumber == program \in Programs => Limit \in Nat
BY SocketsAssumption, TcpAssumption, FS_CardinalityType DEF Limit

\* A connection begins to be served.
LEMMA OneMore ==
    ASSUME ThreadsInv, NEW c \in Conns, c \notin Serving,
           program \in {"basic", "pool"} => Cardinality(Serving) < Limit
    PROVE  Blocking => Cardinality(Serving \cup {c}) <= Limit
<1> SUFFICES ASSUME Blocking PROVE Cardinality(Serving \cup {c}) <= Limit
  OBVIOUS
<1>1. Serving \subseteq Conns /\ IsFiniteSet(Serving)
  BY SocketsAssumption, FS_Subset DEF Serving
<1>2. /\ Cardinality(Serving \cup {c}) = Cardinality(Serving) + 1
      /\ Cardinality(Serving) \in Nat
  BY <1>1, FS_AddElement, FS_CardinalityType
<1>3. CASE program = "threads"
  <2>1. Cardinality(Serving \cup {c}) <= Cardinality(Conns)
    BY <1>1, SocketsAssumption, FS_Subset
  <2> QED BY <2>1, <1>3 DEF Limit
<1>4. CASE program \in {"basic", "pool"}
  <2>1. Limit \in Nat
    BY LimitIsNumber DEF ThreadsInv, TcpInv, TTypeOK
  <2> QED BY <2>1, <1>2, <1>4
<1> QED BY <1>3, <1>4 DEF Blocking

\* The end of the process leaves nothing open.
LEMMA NothingLeft ==
    ASSUME ThreadsInv, Blocking, EndProcess
    PROVE  ThreadsInv'
<1>1. /\ NetTypeOK'
      /\ {c \in Conns : conn'[c] = "est"} = {}
  <2>1. /\ NetTypeOK'
        /\ {d \in Conns : conn'[d] = "est"} =
             {d \in Conns : conn[d] = "est"} \ {c \in Conns : conn[c] # "idle"}
    BY CloseStep DEF EndProcess, CloseAll, ThreadsInv, TcpInv, TTypeOK
  <2> QED BY <2>1
<1>2. /\ Serving' = {} /\ Leaked' = {} /\ queue' = <<>>
      /\ tpc' \in [Conns -> {"none", "read", "write", "leaked"}]
      /\ tbuf' \in [Conns -> Lines \cup {"none"}]
  BY DEF EndProcess, Serving, Leaked
<1>3. /\ queue' \in Seq(Conns) /\ Distinct(queue') /\ Queued' = {} /\ Len(queue') = 0
  BY <1>2, EmptyQueue DEF Queued
<1>4. program' = program /\ running' = FALSE
  BY DEF EndProcess
<1>5. Cardinality({}) = 0 /\ 0 <= Limit
  BY FS_EmptySet, LimitIsNumber DEF ThreadsInv, TcpInv, TTypeOK
<1>6. Limit' = Limit /\ Blocking' = Blocking
  BY <1>4 DEF Limit, Blocking
<1> QED BY <1>1, <1>2, <1>3, <1>4, <1>5, <1>6
        DEF ThreadsInv, TcpInv, TTypeOK, Accounted

\* accept gives the connection to a thread, or to the queue of the pool.
LEMMA MainKeeps ==
    ASSUME ThreadsInv, MainStep
    PROVE  ThreadsInv'
<1>1. /\ NetTypeOK /\ TTypeOK /\ Accounted /\ Distinct(queue)
      /\ queue \in Seq(Conns)
  BY DEF ThreadsInv, TcpInv, TTypeOK
<1>2. ASSUME NEW c \in Conns, basic_accept(c) \/ threads_accept(c)
      PROVE  ThreadsInv'
  <2>1. /\ c \in Backlog /\ Accept(c) /\ tpc' = [tpc EXCEPT ![c] = "read"]
        /\ UNCHANGED <<program, running, queue, tbuf>>
        /\ program \in {"basic", "threads"}
        /\ program = "basic" => Serving = {}
    BY <1>2 DEF basic_accept, threads_accept
  <2>2. /\ NetTypeOK' /\ conn[c] = "backlog"
        /\ \A d \in Conns : fin'[d] = fin[d]
        /\ {d \in Conns : conn'[d] = "est"} = {d \in Conns : conn[d] = "est"} \cup {c}
    BY <1>1, <2>1, AcceptStep
  <2>3. c \notin Serving \cup Queued \cup Leaked
    BY <1>1, <2>1, <2>2 DEF Accounted, Blocking
  <2>4. /\ Serving' = Serving \cup {c} /\ Leaked' = Leaked /\ Queued' = Queued
        /\ tpc' \in [Conns -> {"none", "read", "write", "leaked"}]
    BY <1>1, <2>1, <2>3 DEF Serving, Leaked, Queued, TTypeOK
  <2>5. Limit' = Limit /\ Blocking' = Blocking /\ Blocking
    BY <2>1 DEF Limit, Blocking
  <2>6. Cardinality(Serving \cup {c}) <= Limit
    <3>1. program = "basic" => Limit = 1
      BY DEF Limit
    <3>2. program = "basic" => Cardinality(Serving) = 0
      BY <2>1, FS_EmptySet
    <3> QED BY <3>1, <3>2, <2>1, <2>3, <2>5, OneMore
  <2> QED BY <1>1, <2>1, <2>2, <2>3, <2>4, <2>5, <2>6
          DEF ThreadsInv, TcpInv, TTypeOK, Accounted
<1>3. ASSUME NEW c \in Conns, pool_accept(c)
      PROVE  ThreadsInv'
  <2>1. /\ c \in Backlog /\ Accept(c) /\ queue' = Append(queue, c)
        /\ UNCHANGED <<program, running, tpc, tbuf>>
        /\ program = "pool"
    BY <1>3 DEF pool_accept
  <2>2. /\ NetTypeOK' /\ conn[c] = "backlog"
        /\ \A d \in Conns : fin'[d] = fin[d]
        /\ {d \in Conns : conn'[d] = "est"} = {d \in Conns : conn[d] = "est"} \cup {c}
    BY <1>1, <2>1, AcceptStep
  <2>3. c \notin Serving \cup Queued \cup Leaked
    BY <1>1, <2>1, <2>2 DEF Accounted, Blocking
  <2>4. Queued = Range(queue)
    BY <1>1, DistinctCounts DEF Queued
  <2>5. /\ queue' \in Seq(Conns) /\ Distinct(queue')
        /\ Range(queue') = Queued \cup {c}
    BY <1>1, <2>1, <2>3, <2>4, AppendQueue
  <2>6. Queued' = Queued \cup {c} /\ Cardinality(Queued') = Len(queue')
    <3>1. /\ Queued' = {queue'[i] : i \in 1..Len(queue')}
          /\ Cardinality({queue'[i] : i \in 1..Len(queue')}) = Len(queue')
          /\ Range(queue') = {queue'[i] : i \in 1..Len(queue')}
      BY <2>5, DistinctCounts DEF Queued
    <3> QED BY <2>5, <3>1
  <2> QED BY <1>1, <2>1, <2>2, <2>3, <2>5, <2>6
          DEF ThreadsInv, TcpInv, TTypeOK, Accounted, Serving, Leaked, Limit, Blocking
<1>4. CASE thread_pool_worker
  <2> DEFINE c == Head(queue)
  <2>1. /\ queue # <<>> /\ Cardinality(Serving) < NThreads
        /\ queue' = Tail(queue) /\ tpc' = [tpc EXCEPT ![c] = "read"]
        /\ UNCHANGED <<netvars, program, running, tbuf>>
        /\ program = "pool"
    BY <1>4 DEF thread_pool_worker
  <2>2. /\ c \in Conns /\ c \in Range(queue)
        /\ Tail(queue) \in Seq(Conns) /\ Distinct(Tail(queue))
        /\ Range(queue) = Range(Tail(queue)) \cup {c}
        /\ c \notin Range(Tail(queue))
    BY <1>1, <2>1, TailQueue
  <2>3. Queued = Range(queue)
    BY <1>1, DistinctCounts DEF Queued
  <2>4. c \notin Serving /\ Serving \subseteq Conns /\ Leaked = {}
    BY <1>1, <2>1, <2>2, <2>3 DEF Accounted, Leaked, Serving
  <2>5. /\ Serving' = Serving \cup {c} /\ Leaked' = Leaked
        /\ tpc' \in [Conns -> {"none", "read", "write", "leaked"}]
    BY <1>1, <2>1, <2>2, <2>4 DEF Serving, Leaked, TTypeOK
  <2>6. /\ Queued' = Range(queue') /\ Cardinality(Queued') = Len(queue')
    <3>1. /\ Queued' = {queue'[i] : i \in 1..Len(queue')}
          /\ Cardinality({queue'[i] : i \in 1..Len(queue')}) = Len(queue')
          /\ Range(queue') = {queue'[i] : i \in 1..Len(queue')}
      BY <2>1, <2>2, DistinctCounts DEF Queued
    <3> QED BY <3>1
  <2>7. Serving' \cap Queued' = {}
    BY <1>1, <2>1, <2>2, <2>3, <2>5, <2>6 DEF Accounted
  <2>8. Serving' \cup Queued' = Serving \cup Queued
    BY <2>1, <2>2, <2>3, <2>5, <2>6
  <2>9. /\ Limit' = Limit /\ Limit = NThreads /\ Blocking' = Blocking /\ Blocking
    BY <2>1 DEF Limit, Blocking
  <2>10. Cardinality(Serving') <= Limit'
    BY <2>1, <2>2, <2>4, <2>5, <2>9, OneMore
  <2>11. NetTypeOK' /\ UNCHANGED <<conn, fin>>
    BY <1>1, <2>1 DEF netvars, NetTypeOK
  <2>12. TTypeOK'
    BY <1>1, <2>1, <2>2, <2>5, <2>10, <2>11 DEF TTypeOK
  <2>13. Accounted'
    BY <1>1, <2>1, <2>4, <2>5, <2>6, <2>7, <2>8, <2>9, <2>11 DEF Accounted
  <2> QED BY <2>1, <2>2, <2>9, <2>12, <2>13 DEF ThreadsInv, TcpInv
<1> QED BY <1>2, <1>3, <1>4 DEF MainStep

\* The loop that serves a connection.
LEMMA LoopKeeps ==
    ASSUME ThreadsInv, NEW c \in Conns, ThreadStep(c)
    PROVE  ThreadsInv'
<1>1. /\ NetTypeOK /\ TTypeOK /\ Accounted /\ Distinct(queue)
      /\ queue \in Seq(Conns)
      /\ tpc \in [Conns -> {"none", "read", "write", "leaked"}]
      /\ tbuf \in [Conns -> Lines \cup {"none"}]
      /\ chunk \in [Conns -> Lines \cup {"none"}]
  BY DEF ThreadsInv, TcpInv, TTypeOK, NetTypeOK
<1>2. c \in Serving
  BY DEF ThreadStep, process_read, process_echo, process_quit, process_stop,
         process_error, thread_error, Serving
<1>3. Blocking
  BY <1>2 DEF ThreadsInv
<1>4. IsFiniteSet(Serving)
  BY SocketsAssumption, FS_Subset DEF Serving
<1>5. Cardinality(Serving \ {c}) <= Limit
  <2>1. Limit \in Nat /\ Cardinality(Serving) \in Nat
    BY <1>1, <1>4, LimitIsNumber, FS_CardinalityType DEF TTypeOK
  <2>2. Cardinality(Serving \ {c}) = Cardinality(Serving) - 1
    BY <1>2, <1>4, FS_RemoveElement
  <2> QED BY <1>1, <2>1, <2>2 DEF TTypeOK
<1>6. CASE process_read(c) \/ process_echo(c)
  <2>1. /\ tpc' \in [Conns -> {"none", "read", "write", "leaked"}]
        /\ tbuf' \in [Conns -> Lines \cup {"none"}]
        /\ NetTypeOK'
        /\ UNCHANGED <<conn, fin, program, running, queue>>
    BY <1>1, <1>6 DEF process_read, process_echo, netvars, NetTypeOK
  <2>2. Serving' = Serving /\ Leaked' = Leaked /\ Queued' = Queued
    BY <1>1, <1>2, <1>6, <2>1 DEF process_read, process_echo, Serving, Leaked, Queued
  <2>3. Limit' = Limit /\ Blocking' = Blocking
    BY <2>1 DEF Limit, Blocking
  <2> QED BY <2>1, <2>2, <2>3 DEF ThreadsInv, TcpInv, TTypeOK, Accounted
<1>7. CASE process_quit(c)
  <2>1. /\ tpc' = [tpc EXCEPT ![c] = "none"] /\ tbuf' = [tbuf EXCEPT ![c] = "none"]
        /\ UNCHANGED <<program, running, queue>>
        /\ Close({c})
    BY <1>7 DEF process_quit
  <2>2. /\ NetTypeOK'
        /\ \A d \in Conns : d # c => fin'[d] = fin[d]
        /\ {d \in Conns : conn'[d] = "est"} = {d \in Conns : conn[d] = "est"} \ {c}
    BY <1>1, <2>1, CloseStep
  <2>3. /\ Serving' = Serving \ {c} /\ Leaked' = Leaked /\ Queued' = Queued
        /\ tpc' \in [Conns -> {"none", "read", "write", "leaked"}]
        /\ tbuf' \in [Conns -> Lines \cup {"none"}]
    BY <1>1, <1>2, <2>1 DEF Serving, Leaked, Queued
  <2>4. Limit' = Limit /\ Blocking' = Blocking
    BY <2>1 DEF Limit, Blocking
  <2>5. c \notin Queued \cup Leaked
    BY <1>1, <1>2 DEF Accounted, Serving, Leaked
  <2> QED BY <1>1, <1>3, <1>5, <2>1, <2>2, <2>3, <2>4, <2>5
          DEF ThreadsInv, TcpInv, TTypeOK, Accounted
<1>8. CASE process_stop(c) \/ process_error(c)
  BY <1>3, <1>8, NothingLeft DEF process_stop, process_error
<1>9. CASE thread_error(c)
  <2>1. /\ tpc' = [tpc EXCEPT ![c] = "leaked"] /\ tbuf' = [tbuf EXCEPT ![c] = "none"]
        /\ UNCHANGED <<conn, chunk, fin, typed, program, running, queue>>
        /\ program = "threads" /\ fin[c] = "reset"
    BY <1>9 DEF thread_error, netvars
  <2>2. /\ Serving' = Serving \ {c} /\ Leaked' = Leaked \cup {c} /\ Queued' = Queued
        /\ tpc' \in [Conns -> {"none", "read", "write", "leaked"}]
        /\ tbuf' \in [Conns -> Lines \cup {"none"}]
    BY <1>1, <1>2, <2>1 DEF Serving, Leaked, Queued
  <2>3. Limit' = Limit /\ Blocking' = Blocking
    BY <2>1 DEF Limit, Blocking
  <2>4. NetTypeOK'
    BY <1>1, <2>1 DEF NetTypeOK
  <2> QED BY <1>1, <1>2, <1>3, <1>5, <2>1, <2>2, <2>3, <2>4
          DEF ThreadsInv, TcpInv, TTypeOK, Accounted
<1> QED BY <1>6, <1>7, <1>8, <1>9 DEF ThreadStep

-----------------------------------------------------------------------------
(***************************************************************************)
(* The libuv server                                                        *)
(***************************************************************************)

LEMMA HandlesInit == UvInit => HandlesInv
<1> SUFFICES ASSUME UvInit PROVE HandlesInv
  OBVIOUS
<1>1. UvTypeOK
  BY NetworkInit, UvAssumption DEF UvInit, UvTypeOK
<1>2. MemoryOwned
  BY UvAssumption DEF UvInit, MemoryOwned
<1>3. \A c \in Conns : HandleFollows(c)
  BY DEF UvInit, NetInit, HandleFollows
<1> QED BY <1>1, <1>2, <1>3 DEF HandlesInv, UvInv, HandleFollows

\* Steps of others leave the handles alone; under libuv these are the peers,
\* who open and close nothing.
LEMMA HandlesKept ==
    ASSUME HandlesInv, UNCHANGED <<uvstate, program>>, NetTypeOK',
           program = "libuv" =>
              \A d \in Conns : conn[d] \in {"est", "closed"} \/ conn'[d] \in {"est", "closed"}
                                  => conn'[d] = conn[d]
    PROVE  HandlesInv'
<1>1. /\ UNCHANGED <<handle, reqs, bufs, lost, spurious, program>>
  BY DEF uvstate
<1>2. UvTypeOK' /\ MemoryOwned'
  BY <1>1 DEF HandlesInv, UvInv, UvTypeOK, MemoryOwned
<1>3. program = "libuv" => \A c \in Conns : HandleFollows(c)'
  <2> SUFFICES ASSUME program = "libuv", NEW c \in Conns PROVE HandleFollows(c)'
    OBVIOUS
  <2>1. /\ conn[c] \in {"idle", "backlog", "est", "closed"}
        /\ conn'[c] \in {"idle", "backlog", "est", "closed"}
    BY DEF HandlesInv, UvInv, UvTypeOK, NetTypeOK
  <2> QED BY <1>1, <2>1 DEF HandlesInv, HandleFollows
<1> QED BY <1>1, <1>2, <1>3 DEF HandlesInv, UvInv, HandleFollows

\* A callback of the server's program changes one connection.
LEMMA CallbackKeeps ==
    ASSUME HandlesInv, program = "libuv", program' = program,
           NEW c \in Conns, Callback(c) \/ on_read_nothing(c)
    PROVE  HandlesInv'
<1>1. /\ NetTypeOK /\ UvTypeOK /\ MemoryOwned
      /\ handle \in [Conns -> {"none", "open", "closing", "freed"}]
      /\ reqs \in [Conns -> 0..MaxWrites]
      /\ bufs \in [Conns -> Nat] /\ lost \in [Conns -> Nat]
      /\ spurious \in [Conns -> 0..MaxSpurious]
      /\ MaxWrites \in Nat /\ MaxSpurious \in Nat
  BY UvAssumption DEF HandlesInv, UvInv, UvTypeOK
<1>2. \A d \in Conns : HandleFollows(d)
  BY DEF HandlesInv
<1>3. \A d \in Conns :
         /\ bufs[d] = reqs[d] + lost[d]
         /\ lost[d] <= spurious[d] + (IF handle[d] \in {"closing", "freed"} THEN 1 ELSE 0)
         /\ handle[d] \in {"none", "freed"} => reqs[d] = 0
  BY <1>1 DEF MemoryOwned
<1>4. SUFFICES /\ NetTypeOK' /\ UvTypeOK' /\ MemoryOwned'
               /\ \A d \in Conns : HandleFollows(d)'
  BY DEF HandlesInv, UvInv, HandleFollows
<1>5. CASE on_new_connection(c)
  <2>1. /\ c \in Backlog /\ Accept(c) /\ handle' = [handle EXCEPT ![c] = "open"]
        /\ UNCHANGED <<reqs, bufs, lost, spurious>>
    BY <1>5 DEF on_new_connection
  <2>2. /\ NetTypeOK' /\ conn[c] = "backlog" /\ conn'[c] = "est"
        /\ \A d \in Conns : d # c => conn'[d] = conn[d]
    BY <1>1, <2>1, AcceptStep
  <2>3. handle[c] = "none"
    BY <1>2, <2>2 DEF HandleFollows
  <2>4. UvTypeOK'
    BY <1>1, <2>1, <2>2 DEF UvTypeOK
  <2>5. MemoryOwned'
    BY <1>1, <1>3, <2>1, <2>3 DEF MemoryOwned
  <2> QED BY <1>1, <1>2, <2>1, <2>2, <2>4, <2>5 DEF HandleFollows
<1>6. CASE on_new_connection_fail(c)
  <2>1. /\ c \in Backlog /\ Close({c}) /\ handle' = [handle EXCEPT ![c] = "closing"]
        /\ UNCHANGED <<reqs, bufs, lost, spurious>>
    BY <1>6 DEF on_new_connection_fail
  <2>2. /\ NetTypeOK' /\ conn'[c] = "closed"
        /\ \A d \in Conns : d # c => conn'[d] = conn[d]
    BY <1>1, <2>1, CloseStep
  <2>3. handle[c] = "none"
    BY <1>2, <2>1 DEF HandleFollows, Backlog
  <2>4. UvTypeOK'
    BY <1>1, <2>1, <2>2 DEF UvTypeOK
  <2>5. MemoryOwned'
    BY <1>1, <1>3, <2>1, <2>3 DEF MemoryOwned
  <2> QED BY <1>1, <1>2, <2>1, <2>2, <2>4, <2>5 DEF HandleFollows
<1>7. CASE on_read_data(c)
  <2>1. /\ handle[c] = "open" /\ reqs[c] < MaxWrites
        /\ chunk' = [chunk EXCEPT ![c] = "none"]
        /\ bufs' = [bufs EXCEPT ![c] = @ + 1] /\ reqs' = [reqs EXCEPT ![c] = @ + 1]
        /\ UNCHANGED <<conn, fin, typed, handle, lost, spurious>>
    BY <1>7 DEF on_read_data, Add
  <2>2. NetTypeOK'
    BY <1>1, <2>1 DEF NetTypeOK
  <2>3. UvTypeOK'
    BY <1>1, <2>1, <2>2 DEF UvTypeOK
  <2>4. MemoryOwned'
    BY <1>1, <1>3, <2>1 DEF MemoryOwned
  <2> QED BY <1>2, <2>1, <2>2, <2>3, <2>4 DEF HandleFollows
<1>8. CASE on_read_nothing(c)
  <2>1. /\ spurious[c] < MaxSpurious
        /\ bufs' = [bufs EXCEPT ![c] = @ + 1] /\ lost' = [lost EXCEPT ![c] = @ + 1]
        /\ spurious' = [spurious EXCEPT ![c] = @ + 1]
        /\ UNCHANGED <<conn, chunk, fin, typed, handle, reqs>>
    BY <1>8 DEF on_read_nothing, Add, netvars
  <2>2. NetTypeOK'
    BY <1>1, <2>1 DEF NetTypeOK
  <2>3. UvTypeOK'
    BY <1>1, <2>1, <2>2 DEF UvTypeOK
  <2>4. MemoryOwned'
    BY <1>1, <1>3, <2>1 DEF MemoryOwned
  <2> QED BY <1>2, <2>1, <2>2, <2>3, <2>4 DEF HandleFollows
<1>9. CASE on_read_end(c)
  <2>1. /\ handle[c] = "open" /\ Close({c})
        /\ bufs' = [bufs EXCEPT ![c] = @ + 1] /\ lost' = [lost EXCEPT ![c] = @ + 1]
        /\ handle' = [handle EXCEPT ![c] = "closing"]
        /\ UNCHANGED <<reqs, spurious>>
    BY <1>9 DEF on_read_end, Add
  <2>2. /\ NetTypeOK' /\ conn'[c] = "closed"
        /\ \A d \in Conns : d # c => conn'[d] = conn[d]
    BY <1>1, <2>1, CloseStep
  <2>3. UvTypeOK'
    BY <1>1, <2>1, <2>2 DEF UvTypeOK
  <2>4. MemoryOwned'
    BY <1>1, <1>3, <2>1 DEF MemoryOwned
  <2> QED BY <1>1, <1>2, <2>1, <2>2, <2>3, <2>4 DEF HandleFollows
<1>10. CASE after_write(c)
  <2>1. /\ reqs[c] > 0
        /\ bufs' = [bufs EXCEPT ![c] = @ - 1] /\ reqs' = [reqs EXCEPT ![c] = @ - 1]
        /\ UNCHANGED <<conn, chunk, fin, typed, handle, lost, spurious>>
    BY <1>1, <1>10 DEF after_write, Add, netvars
  <2>2. NetTypeOK'
    BY <1>1, <2>1 DEF NetTypeOK
  <2>3. UvTypeOK'
    BY <1>1, <1>3, <2>1, <2>2 DEF UvTypeOK
  <2>4. MemoryOwned'
    BY <1>1, <1>3, <2>1 DEF MemoryOwned
  <2> QED BY <1>2, <2>1, <2>2, <2>3, <2>4 DEF HandleFollows
<1>11. CASE on_close(c)
  <2>1. /\ handle[c] = "closing" /\ reqs[c] = 0
        /\ handle' = [handle EXCEPT ![c] = "freed"]
        /\ UNCHANGED <<conn, chunk, fin, typed, reqs, bufs, lost, spurious>>
    BY <1>11 DEF on_close, netvars
  <2>2. NetTypeOK'
    BY <1>1, <2>1 DEF NetTypeOK
  <2>3. UvTypeOK'
    BY <1>1, <2>1, <2>2 DEF UvTypeOK
  <2>4. MemoryOwned'
    BY <1>1, <1>3, <2>1 DEF MemoryOwned
  <2> QED BY <1>1, <1>2, <2>1, <2>2, <2>3, <2>4 DEF HandleFollows
<1> QED BY <1>5, <1>6, <1>7, <1>8, <1>9, <1>10, <1>11 DEF Callback

-----------------------------------------------------------------------------
(***************************************************************************)
(* The epoll server                                                        *)
(***************************************************************************)

\* The descriptors of the terminal and of the listening socket are no
\* connections, and differ.
LEMMA Descriptors ==
    /\ Stdin \notin Conns /\ MainFd \notin Conns /\ NoFd \notin Conns
    /\ Stdin # MainFd
    /\ IsFiniteSet({Stdin, MainFd}) /\ Cardinality({Stdin, MainFd}) = 2
<1>1. Stdin # MainFd
  <2> SUFFICES ASSUME Stdin = MainFd PROVE FALSE
    OBVIOUS
  <2>1. {Stdin, MainFd, NoFd} = {Stdin} \cup {NoFd}
    OBVIOUS
  <2>2. IsFiniteSet({Stdin}) /\ Cardinality({Stdin}) = 1
    BY FS_Singleton
  <2>3. Cardinality({Stdin} \cup {NoFd}) <= 2
    BY <2>2, FS_AddElement
  <2> QED BY <2>1, <2>3, EpollAssumption
<1>2. IsFiniteSet({Stdin}) /\ Cardinality({Stdin}) = 1
  BY FS_Singleton
<1>3. /\ IsFiniteSet({Stdin} \cup {MainFd})
      /\ Cardinality({Stdin} \cup {MainFd}) = 2
  BY <1>1, <1>2, FS_AddElement
<1>4. {Stdin, MainFd} = {Stdin} \cup {MainFd}
  OBVIOUS
<1> QED BY <1>1, <1>3, <1>4, EpollAssumption

LEMMA LoopInit == EpInit => LoopInv
<1> SUFFICES ASSUME EpInit PROVE LoopInv
  OBVIOUS
<1>1. EpTypeOK
  BY NetworkInit, EpollAssumption DEF EpInit, EpTypeOK
<1>2. AllRegistered
  BY Descriptors DEF EpInit, NetInit, AllRegistered
<1> QED BY <1>1, <1>2 DEF LoopInv, EpollInv, BatchNotStale, CurrentOpen, EpInit

\* Steps of others: what the loop has seen is still so.
LEMMA EpollKept ==
    ASSUME LoopInv, UNCHANGED <<loopvars, program>>, NetTypeOK',
           \/ program # "epoll"
           \/ /\ Backlog \subseteq Backlog'
              /\ \A d \in Conns : Readable(d) => Readable(d)'
              /\ typed => typed'
              /\ {d \in Conns : conn'[d] = "est"} = {d \in Conns : conn[d] = "est"}
    PROVE  LoopInv'
<1>1. /\ UNCHANGED <<interest, nevents, batch, cur, line, epc, program>>
  BY DEF loopvars
<1>2. EpTypeOK'
  BY <1>1 DEF LoopInv, EpollInv, EpTypeOK
<1>3. CASE program # "epoll"
  BY <1>1, <1>2, <1>3 DEF LoopInv, EpollInv, BatchNotStale
<1>4. CASE /\ program = "epoll"
           /\ Backlog \subseteq Backlog'
           /\ \A d \in Conns : Readable(d) => Readable(d)'
           /\ typed => typed'
           /\ {d \in Conns : conn'[d] = "est"} = {d \in Conns : conn[d] = "est"}
  <2>1. AllRegistered'
    BY <1>1, <1>4 DEF LoopInv, EpollInv, AllRegistered
  <2>2. \A f \in interest : EventOn(f) => EventOn(f)'
    <3> SUFFICES ASSUME NEW f \in interest, EventOn(f) PROVE EventOn(f)'
      OBVIOUS
    <3>1. f \in {Stdin, MainFd} \cup Conns
      BY DEF LoopInv, EpollInv, EpTypeOK
    <3> QED BY <3>1, <1>4, Descriptors DEF EventOn
  <2>3. BatchNotStale'
    BY <1>1, <2>2 DEF LoopInv, BatchNotStale
  <2>4. CurrentOpen'
    BY <1>1, <1>4 DEF LoopInv, CurrentOpen
  <2> QED BY <1>1, <1>2, <1>4, <2>1, <2>3, <2>4 DEF LoopInv, EpollInv
<1> QED BY <1>3, <1>4

\* A step of the loop.
LEMMA EpollKeeps ==
    ASSUME LoopInv, program = "epoll", program' = program, EpStep
    PROVE  LoopInv'
<1>1. /\ NetTypeOK /\ EpTypeOK /\ AllRegistered /\ BatchNotStale /\ CurrentOpen
      /\ interest \subseteq {Stdin, MainFd} \cup Conns
      /\ batch \subseteq interest /\ EpollMax \in Nat /\ nevents \in 2..EpollMax
  BY EpollAssumption DEF LoopInv, EpollInv, EpTypeOK
<1>2. SUFFICES EpTypeOK' /\ AllRegistered' /\ BatchNotStale' /\ CurrentOpen'
  BY DEF LoopInv, EpollInv
<1>3. IsFiniteSet(interest) /\ Cardinality(interest) \in Nat
  <2>1. IsFiniteSet({Stdin, MainFd} \cup Conns)
    BY Descriptors, SocketsAssumption, FS_Union
  <2> QED BY <1>1, <2>1, FS_Subset, FS_CardinalityType
<1>4. epc # "ended"
  BY DEF EpStep, epoll_wait, serve_end, serve_stdin, serve_accept, serve_refuse,
         serve_read, refuse_close, serve_accept_error, serve_error, serve_write,
         serve_close
<1>5. /\ interest = {Stdin, MainFd} \cup
           ({c \in Conns : conn[c] = "est"} \ (IF epc = "refuse" THEN {cur} ELSE {}))
      /\ Cardinality(interest) <= nevents
  BY <1>1, <1>4 DEF AllRegistered
\* The end of the process.
<1>6. CASE serve_stdin \/ serve_accept_error \/ serve_error
  <2>1. CloseAll /\ epc' = "ended" /\ UNCHANGED <<interest, nevents, batch, cur, line>>
    BY <1>6 DEF serve_stdin, serve_accept_error, serve_error
  <2>2. NetTypeOK'
    BY <1>1, <2>1, CloseStep DEF CloseAll
  <2> QED BY <1>1, <2>1, <2>2
          DEF EpTypeOK, AllRegistered, BatchNotStale, CurrentOpen
<1>7. CASE epoll_wait
  <2>1. /\ epc = "wait" /\ epc' = "serve"
        /\ \A f \in batch' : f \in interest /\ EventOn(f)
        /\ UNCHANGED <<conn, chunk, fin, typed, interest, nevents, cur, line>>
    BY <1>7 DEF epoll_wait, netvars
  <2>2. EpTypeOK' /\ AllRegistered' /\ CurrentOpen'
    BY <1>1, <2>1 DEF NetTypeOK, EpTypeOK, AllRegistered, CurrentOpen
  <2>3. BatchNotStale'
    BY <2>1 DEF BatchNotStale, EventOn, Backlog, Readable
  <2> QED BY <2>2, <2>3
<1>8. CASE serve_end
  <2>1. /\ epc = "serve" /\ epc' = "wait"
        /\ UNCHANGED <<conn, chunk, fin, typed, interest, nevents, batch, cur, line>>
    BY <1>8 DEF serve_end, netvars
  <2> QED BY <1>1, <2>1
          DEF NetTypeOK, EpTypeOK, AllRegistered, BatchNotStale, CurrentOpen
\* The listening socket leaves the batch; the other events are of terminal and
\* connections.
<1>9. ASSUME NEW c \in Conns, serve_accept(c)
      PROVE  EpTypeOK' /\ AllRegistered' /\ BatchNotStale' /\ CurrentOpen'
  <2>1. /\ c \in Backlog /\ Accept(c) /\ nevents # EpollMax
        /\ interest' = interest \cup {c} /\ nevents' = nevents + 1
        /\ batch' = batch \ {MainFd} /\ epc = "serve"
        /\ UNCHANGED <<cur, line, epc>>
    BY <1>9 DEF serve_accept
  <2>2. /\ NetTypeOK' /\ conn[c] = "backlog" /\ conn'[c] = "est"
        /\ \A d \in Conns : chunk'[d] = chunk[d] /\ fin'[d] = fin[d]
        /\ typed' = typed
        /\ {d \in Conns : conn'[d] = "est"} = {d \in Conns : conn[d] = "est"} \cup {c}
    BY <1>1, <2>1, AcceptStep
  <2>3. EpTypeOK'
    BY <1>1, <2>1, <2>2 DEF EpTypeOK
  <2>4. Cardinality(interest') <= nevents'
    <3>1. c \notin interest
      BY <1>5, <2>1, <2>2, Descriptors
    <3>2. Cardinality(interest \cup {c}) = Cardinality(interest) + 1
      BY <1>3, <3>1, FS_AddElement
    <3> QED BY <1>1, <1>3, <1>5, <2>1, <3>2
  <2>5. AllRegistered'
    BY <1>5, <2>1, <2>2, <2>4 DEF AllRegistered
  <2>6. BatchNotStale'
    <3> SUFFICES ASSUME NEW f \in batch' PROVE f \in interest' /\ EventOn(f)'
      BY DEF BatchNotStale
    <3>1. /\ f \in interest /\ f # MainFd /\ EventOn(f)
          /\ f = Stdin \/ f \in Conns
      BY <1>1, <2>1 DEF BatchNotStale
    <3> QED BY <3>1, <2>1, <2>2, Descriptors DEF EventOn, Readable
  <2>7. CurrentOpen'
    BY <2>1 DEF CurrentOpen
  <2> QED BY <2>3, <2>5, <2>6, <2>7
<1>10. ASSUME NEW c \in Conns, serve_refuse(c)
       PROVE  EpTypeOK' /\ AllRegistered' /\ BatchNotStale' /\ CurrentOpen'
  <2>1. /\ c \in Backlog /\ Accept(c) /\ cur' = c
        /\ batch' = batch \ {MainFd} /\ epc = "serve" /\ epc' = "refuse"
        /\ UNCHANGED <<interest, nevents, line>>
    BY <1>10 DEF serve_refuse
  <2>2. /\ NetTypeOK' /\ conn[c] = "backlog" /\ conn'[c] = "est"
        /\ \A d \in Conns : chunk'[d] = chunk[d] /\ fin'[d] = fin[d]
        /\ typed' = typed
        /\ {d \in Conns : conn'[d] = "est"} = {d \in Conns : conn[d] = "est"} \cup {c}
    BY <1>1, <2>1, AcceptStep
  <2>3. EpTypeOK'
    BY <1>1, <2>1, <2>2 DEF EpTypeOK
  <2>4. c \notin interest
    BY <1>5, <2>1, <2>2, Descriptors
  <2>5. AllRegistered'
    BY <1>5, <2>1, <2>2 DEF AllRegistered
  <2>6. BatchNotStale'
    <3> SUFFICES ASSUME NEW f \in batch' PROVE f \in interest' /\ EventOn(f)'
      BY DEF BatchNotStale
    <3>1. /\ f \in interest /\ f # MainFd /\ EventOn(f)
          /\ f = Stdin \/ f \in Conns
      BY <1>1, <2>1 DEF BatchNotStale
    <3> QED BY <3>1, <2>1, <2>2, Descriptors DEF EventOn, Readable
  <2>7. CurrentOpen'
    BY <1>1, <2>1, <2>2, <2>4 DEF CurrentOpen
  <2> QED BY <2>3, <2>5, <2>6, <2>7
\* Closing the connection served or refused takes no event from the others.
<1>11. CASE refuse_close \/ serve_close
  <2>1. /\ epc \in {"refuse", "close"} /\ epc' = "serve"
        /\ Close({cur}) /\ cur' = NoFd
        /\ interest' = interest \ {cur}
        /\ UNCHANGED <<nevents, batch, line>>
    BY <1>1, <1>11 DEF refuse_close, serve_close, CurrentOpen
  <2>2. cur \in Conns /\ conn[cur] = "est" /\ cur \notin batch
    BY <1>1, <2>1 DEF CurrentOpen
  <2>3. /\ NetTypeOK' /\ typed' = typed
        /\ \A d \in Conns : d # cur =>
              conn'[d] = conn[d] /\ chunk'[d] = chunk[d] /\ fin'[d] = fin[d]
        /\ conn'[cur] = "closed"
        /\ {d \in Conns : conn'[d] = "est"} = {d \in Conns : conn[d] = "est"} \ {cur}
    BY <1>1, <2>1, <2>2, CloseStep
  <2>4. EpTypeOK'
    BY <1>1, <2>1, <2>2, <2>3 DEF EpTypeOK
  <2>5. Cardinality(interest') <= nevents'
    <3>1. Cardinality(interest \ {cur}) <= Cardinality(interest)
      BY <1>3, FS_Subset
    <3>2. Cardinality(interest \ {cur}) \in Nat
      BY <1>3, FS_Subset, FS_CardinalityType
    <3> QED BY <1>1, <1>3, <1>5, <2>1, <3>1, <3>2
  <2>6. AllRegistered'
    BY <1>1, <1>5, <2>1, <2>2, <2>3, <2>5, Descriptors DEF AllRegistered
  <2>7. BatchNotStale'
    <3> SUFFICES ASSUME NEW f \in batch' PROVE f \in interest' /\ EventOn(f)'
      BY DEF BatchNotStale
    <3>1. /\ f \in interest /\ f # cur /\ EventOn(f)
          /\ f \in {Stdin, MainFd} \cup Conns
      BY <1>1, <2>1, <2>2 DEF BatchNotStale
    <3>2. Backlog' = Backlog
      BY <2>2, <2>3 DEF Backlog
    <3> QED BY <3>1, <3>2, <2>1, <2>3, Descriptors DEF EventOn, Readable
  <2>8. CurrentOpen'
    BY <2>1 DEF CurrentOpen
  <2> QED BY <2>4, <2>6, <2>7, <2>8
\* What is read is the event that leaves the batch.
<1>12. ASSUME NEW c \in Conns, serve_read(c)
       PROVE  EpTypeOK' /\ AllRegistered' /\ BatchNotStale' /\ CurrentOpen'
  <2>1. /\ c \in batch /\ line' = chunk[c] /\ cur' = c
        /\ chunk' = [chunk EXCEPT ![c] = "none"] /\ batch' = batch \ {c}
        /\ epc = "serve" /\ epc' \in {"close", "write"}
        /\ UNCHANGED <<conn, fin, typed, interest, nevents>>
    BY <1>12 DEF serve_read
  <2>2. NetTypeOK'
    BY <1>1, <2>1 DEF NetTypeOK
  <2>3. EpTypeOK'
    BY <1>1, <2>1, <2>2 DEF EpTypeOK, NetTypeOK
  <2>4. AllRegistered'
    BY <1>5, <2>1 DEF AllRegistered
  <2>5. BatchNotStale'
    <3> SUFFICES ASSUME NEW f \in batch' PROVE f \in interest' /\ EventOn(f)'
      BY DEF BatchNotStale
    <3>1. /\ f \in interest /\ f # c /\ EventOn(f)
          /\ f \in {Stdin, MainFd} \cup Conns
      BY <1>1, <2>1 DEF BatchNotStale
    <3> QED BY <3>1, <1>1, <2>1, Descriptors DEF EventOn, Readable, Backlog, NetTypeOK
  <2>6. CurrentOpen'
    BY <1>1, <1>5, <2>1, Descriptors DEF CurrentOpen
  <2> QED BY <2>3, <2>4, <2>5, <2>6
<1>13. CASE serve_write
  <2>1. /\ epc = "write" /\ epc' \in {"close", "serve"}
        /\ cur' = IF epc' = "close" THEN cur ELSE NoFd
        /\ line' = "none"
        /\ UNCHANGED <<conn, chunk, fin, typed, interest, nevents, batch>>
    BY <1>13 DEF serve_write, netvars
  <2>2. EpTypeOK' /\ AllRegistered' /\ CurrentOpen'
    BY <1>1, <1>5, <2>1 DEF NetTypeOK, EpTypeOK, AllRegistered, CurrentOpen
  <2>3. BatchNotStale'
    BY <1>1, <2>1 DEF BatchNotStale, EventOn, Backlog, Readable
  <2> QED BY <2>2, <2>3
<1> QED BY <1>6, <1>7, <1>8, <1>9, <1>10, <1>11, <1>12, <1>13 DEF EpStep

-----------------------------------------------------------------------------
(***************************************************************************)
(* The five programs side by side                                          *)
(***************************************************************************)

LEMMA ServersInit == StInit => ServersInv
BY ThreadsInit, HandlesInit, LoopInit DEF StInit, ServersInv

LEMMA ServersStep == ServersInv /\ [StNext]_stvars => ServersInv'
<1> SUFFICES ASSUME ServersInv, [StNext]_stvars
             PROVE  ThreadsInv' /\ HandlesInv' /\ LoopInv'
  BY DEF ServersInv
<1>1. ThreadsInv /\ HandlesInv /\ LoopInv /\ NetTypeOK
  BY DEF ServersInv, ThreadsInv, TcpInv, TTypeOK
\* A blocking server.
<1>2. CASE /\ Blocking
           /\ MainStep \/ accept_error \/ \E c \in Conns : ThreadStep(c)
           /\ UNCHANGED <<uvstate, loopvars>>
  <2>1. ThreadsInv'
    BY <1>1, <1>2, MainKeeps, LoopKeeps, NothingLeft DEF accept_error
  <2>2. NetTypeOK'
    BY <2>1 DEF ThreadsInv, TcpInv, TTypeOK
  <2>3. program' = program
    BY <1>2
    DEF MainStep, basic_accept, threads_accept, pool_accept, thread_pool_worker,
        accept_error, ThreadStep, process_read, process_echo, process_quit,
        process_stop, process_error, thread_error, EndProcess
  <2>4. program \notin {"libuv", "epoll"}
    BY <1>2 DEF Blocking
  <2>5. HandlesInv'
    BY <1>1, <1>2, <2>2, <2>3, <2>4, HandlesKept
  <2>6. LoopInv'
    BY <1>1, <1>2, <2>2, <2>3, <2>4, EpollKept
  <2> QED BY <2>1, <2>5, <2>6
\* The peers and the user.
<1>3. CASE /\ PeerStep \/ user_types \/ UNCHANGED netvars
           /\ UNCHANGED <<threadvars, uvstate, loopvars>>
  <2>1. program' = program
    BY <1>3 DEF threadvars
  <2>2. /\ NetTypeOK'
        /\ \A d \in Conns : conn[d] \in {"est", "closed"} \/ conn'[d] \in {"est", "closed"}
                               => conn'[d] = conn[d]
        /\ Backlog \subseteq Backlog'
        /\ \A d \in Conns : Readable(d) => Readable(d)'
        /\ \A d \in Conns : fin[d] = "reset" => fin'[d] = "reset"
        /\ typed => typed'
        /\ {d \in Conns : conn'[d] = "est"} = {d \in Conns : conn[d] = "est"}
    BY <1>1, <1>3, OutsideStep
  <2>3. \A c \in Leaked : c \in Conns /\ fin[c] = "reset"
    BY <1>1 DEF ThreadsInv, TcpInv, Accounted, Leaked
  <2>4. ThreadsInv'
    BY <1>1, <1>3, <2>2, <2>3, ThreadsKept
  <2>5. HandlesInv'
    BY <1>1, <1>3, <2>1, <2>2, HandlesKept
  <2>6. LoopInv'
    BY <1>1, <1>3, <2>1, <2>2, EpollKept
  <2> QED BY <2>4, <2>5, <2>6
\* The libuv server.
<1>4. ASSUME NEW c \in Conns, UvStep(c) \/ UvSpurious(c)
      PROVE  ThreadsInv' /\ HandlesInv' /\ LoopInv'
  <2>1. /\ program = "libuv"
        /\ Callback(c) \/ on_read_nothing(c)
        /\ UNCHANGED <<threadvars, loopvars, program>>
    BY <1>4 DEF UvStep, UvSpurious, threadvars
  <2>2. HandlesInv'
    BY <1>1, <2>1, CallbackKeeps
  <2>3. NetTypeOK'
    BY <2>2 DEF HandlesInv, UvInv, UvTypeOK
  <2>4. ~Blocking /\ Leaked = {}
    BY <1>1, <2>1 DEF Blocking, ThreadsInv
  <2>5. ThreadsInv'
    BY <1>1, <2>1, <2>3, <2>4, ThreadsKept
  <2>6. LoopInv'
    BY <1>1, <2>1, <2>3, EpollKept
  <2> QED BY <2>2, <2>5, <2>6
\* The epoll server.
<1>5. CASE EpollStep
  <2>1. /\ program = "epoll" /\ EpStep
        /\ UNCHANGED <<threadvars, uvstate, program>>
    BY <1>5 DEF EpollStep, threadvars
  <2>2. LoopInv'
    BY <1>1, <2>1, EpollKeeps
  <2>3. NetTypeOK'
    BY <2>2 DEF LoopInv, EpollInv, EpTypeOK
  <2>4. ~Blocking /\ Leaked = {}
    BY <1>1, <2>1 DEF Blocking, ThreadsInv
  <2>5. ThreadsInv'
    BY <1>1, <2>1, <2>3, <2>4, ThreadsKept
  <2>6. HandlesInv'
    BY <1>1, <2>1, <2>3, HandlesKept
  <2> QED BY <2>2, <2>5, <2>6
<1> QED BY <1>1, <1>2, <1>3, <1>4, <1>5, WhoSteps

-----------------------------------------------------------------------------

\* The blocking servers account for every descriptor: an open connection has
\* one thread, or a place in the pool's queue, or was abandoned after a reset,
\* and no more connections are served than there are threads.
THEOREM DescriptorsAccounted == StSpec => []TcpInv
<1>1. ServersInv => TcpInv
  BY DEF ServersInv, ThreadsInv
<1> QED BY <1>1, ServersInit, ServersStep, PTL DEF StSpec

\* The callbacks of the libuv server free what they own and nothing twice,
\* with writes under way when a connection ends.
THEOREM CallbacksOwnMemory == StSpec => []UvInv
<1>1. ServersInv => UvInv
  BY DEF ServersInv, HandlesInv
<1> QED BY <1>1, ServersInit, ServersStep, PTL DEF StSpec

\* The epoll server has registered what it has open, and nevents, which never
\* goes down, is enough to be told of all of it.
THEOREM EpollSeesAll == StSpec => []EpollInv
<1>1. ServersInv => EpollInv
  BY DEF ServersInv, LoopInv
<1> QED BY <1>1, ServersInit, ServersStep, PTL DEF StSpec

\* Serving an event of a batch of epoll_wait takes nothing away from the
\* events that are still to be served: their read or accept returns.
THEOREM EpollBatchHolds == StSpec => []BatchNotStale
<1>1. ServersInv => BatchNotStale
  BY DEF ServersInv, LoopInv
<1> QED BY <1>1, ServersInit, ServersStep, PTL DEF StSpec

-----------------------------------------------------------------------------
(***************************************************************************)
(* The server with poll                                                    *)
(***************************************************************************)

\* The slots that the loop has still to look at; the one of a client that is
\* being served is no longer among them.
Ahead == (IF ppc \in {"write", "close"} THEN idx + 1 ELSE idx)..(nclients - 1)

\* What the connection accepted in this round has taken of the turns of others.
Taken == IF taken THEN 1 ELSE 0

\* A round over the clients: those that poll reported and that are not served
\* yet are ahead of the index, marked in their slots and readable; but for the
\* slot of a connection accepted in this round, no other one is marked.  That
\* connection is read at most once, and nready counts the reported clients, less
\* one when it was.
Round ==
    /\ idx <= nclients
    /\ ppc \in {"accept", "write", "close"} => nready > 0
    /\ ppc \in {"write", "close"} => idx < nclients
    /\ reported \subseteq {cfd[i] : i \in Ahead}
    /\ \A i \in Ahead : cfd[i] # fresh => (crev[i] <=> cfd[i] \in reported)
    /\ \A c \in reported : Readable(c)
    /\ fresh \notin reported
    /\ taken => \A i \in Ahead : cfd[i] # fresh
    /\ nready + Taken = Cardinality(reported) + (IF ppc = "scan" THEN 0 ELSE 1)

RoundInv ==
    /\ ppc \in {"poll", "accept", "exit"} => idx = 2
    /\ ppc = "accept" => fresh = NoConn /\ ~taken
    /\ ppc \in {"accept", "scan", "write", "close"} => Round
    /\ RoundServesAll

PollInv == TableInv /\ RoundInv

LEMMA PollInit == PInit => PollInv
<1> SUFFICES ASSUME PInit PROVE PollInv
  OBVIOUS
<1>1. PTypeOK
  <2>1. ~taken /\ taken \in BOOLEAN
    BY Zenon DEF PInit
  <2> QED BY <2>1, NetworkInit, PollAssumption DEF PInit, PTypeOK
<1>2. InUse = {} /\ {c \in Conns : conn[c] = "est"} = {}
  BY DEF PInit, NetInit, InUse
<1>3. TableExact
  BY <1>2 DEF TableExact
<1>4. RoundServesAll
  BY FS_EmptySet DEF PInit, RoundServesAll
<1> QED BY <1>1, <1>3, <1>4 DEF PInit, PollInv, TableInv, RoundInv

\* What the invariant says of the slots.
LEMMA TableFacts ==
    ASSUME PollInv
    PROVE  /\ PTypeOK /\ NetTypeOK /\ MaxClients \in Nat
           /\ cfd \in [Slots -> Conns \cup {NoConn}] /\ crev \in [Slots -> BOOLEAN]
           /\ nclients \in 2..MaxClients /\ idx \in 2..MaxClients
           /\ nready \in 0..(MaxClients + 1)
           /\ InUse \subseteq Slots
           /\ ppc # "ended" =>
                 /\ {cfd[i] : i \in InUse} = {c \in Conns : conn[c] = "est"}
                 /\ \A i \in InUse : cfd[i] \in Conns /\ conn[cfd[i]] = "est"
                 /\ \A i, j \in InUse : cfd[i] = cfd[j] => i = j
           /\ IsFiniteSet(reported) /\ Cardinality(reported) \in Nat
           /\ NoConn \notin Conns /\ taken \in BOOLEAN /\ Taken \in {0, 1}
<1>1. /\ PTypeOK /\ NetTypeOK /\ MaxClients \in Nat
      /\ cfd \in [Slots -> Conns \cup {NoConn}] /\ crev \in [Slots -> BOOLEAN]
      /\ nclients \in 2..MaxClients /\ idx \in 2..MaxClients
      /\ nready \in 0..(MaxClients + 1)
      /\ reported \subseteq Conns /\ taken \in BOOLEAN
  BY PollAssumption DEF PollInv, TableInv, PTypeOK
<1>2. InUse \subseteq Slots
  BY <1>1 DEF InUse, Slots
<1>3. IsFiniteSet(reported) /\ Cardinality(reported) \in Nat
  BY <1>1, SocketsAssumption, FS_Subset, FS_CardinalityType
<1>4. ppc # "ended" =>
        /\ {cfd[i] : i \in InUse} = {c \in Conns : conn[c] = "est"}
        /\ \A i, j \in InUse : cfd[i] = cfd[j] => i = j
  BY DEF PollInv, TableInv, TableExact
<1>5. ppc # "ended" => \A i \in InUse : cfd[i] \in Conns /\ conn[cfd[i]] = "est"
  BY <1>4
<1> QED BY <1>1, <1>2, <1>3, <1>4, <1>5, PollAssumption DEF Taken

\* The end of the process.
LEMMA PollEnds ==
    ASSUME PollInv, NetTypeOK', ppc' = "ended",
           UNCHANGED <<slotvars, nready, idx, got, reported, fresh, taken>>
    PROVE  PollInv'
<1>1. PTypeOK'
  BY TableFacts DEF slotvars, PTypeOK
<1> QED BY <1>1 DEF PollInv, TableInv, TableExact, RoundInv, RoundServesAll

\* What peers and user do keeps the table, and what was readable is so still.
LEMMA PollOutside ==
    ASSUME PollInv, PeerStep \/ user_types \/ UNCHANGED netvars,
           UNCHANGED <<slotvars, nready, idx, got, ppc, reported, fresh, taken>>
    PROVE  PollInv'
<1>1. /\ NetTypeOK'
      /\ \A d \in Conns : Readable(d) => Readable(d)'
      /\ {d \in Conns : conn'[d] = "est"} = {d \in Conns : conn[d] = "est"}
  BY TableFacts, OutsideStep
<1>2. UNCHANGED <<cfd, crev, nclients>>
  BY DEF slotvars
<1>3. PTypeOK'
  BY <1>1, <1>2, TableFacts DEF PTypeOK
<1>4. TableExact'
  BY <1>1, <1>2 DEF PollInv, TableInv, TableExact, InUse
<1>5. Ahead' = Ahead /\ reported \subseteq Conns
  BY <1>2, TableFacts DEF Ahead, PTypeOK
<1>6. Round => Round'
  BY <1>1, <1>2, <1>5 DEF Round, Taken
<1> QED BY <1>3, <1>4, <1>6 DEF PollInv, TableInv, RoundInv, RoundServesAll

\* poll reports the clients with input, each in its slot.
LEMMA PollReports ==
    ASSUME PollInv, poll
    PROVE  PollInv'
<1> DEFINE ready == {i \in InUse : Readable(cfd[i])}
           others == (IF typed THEN 1 ELSE 0) + (IF Backlog # {} THEN 1 ELSE 0)
<1>1. /\ PTypeOK /\ NetTypeOK /\ MaxClients \in Nat
      /\ cfd \in [Slots -> Conns \cup {NoConn}] /\ crev \in [Slots -> BOOLEAN]
      /\ nclients \in 2..MaxClients
      /\ InUse \subseteq Slots
      /\ NoConn \notin Conns
  BY TableFacts
<1>2. /\ ppc = "poll" /\ idx = 2
      /\ nready' = Cardinality(ready) + others /\ nready' > 0
      /\ crev' = [i \in Slots |-> IF i \in InUse THEN i \in ready ELSE crev[i]]
      /\ reported' = {cfd[i] : i \in ready}
      /\ ppc' = IF typed THEN "exit" ELSE IF Backlog # {} THEN "accept" ELSE "scan"
      /\ fresh' = NoConn /\ taken' = FALSE
      /\ UNCHANGED <<conn, chunk, fin, typed, cfd, nclients, idx, got>>
  BY DEF poll, netvars, PollInv, RoundInv
<1>3. /\ {cfd[i] : i \in InUse} = {c \in Conns : conn[c] = "est"}
      /\ \A i \in InUse : cfd[i] \in Conns /\ conn[cfd[i]] = "est"
      /\ \A i, j \in InUse : cfd[i] = cfd[j] => i = j
  BY <1>2, TableFacts
<1>4. /\ IsFiniteSet(ready) /\ Cardinality(ready) \in Nat
      /\ Cardinality(ready) <= MaxClients - 2
  <2>1. IsFiniteSet(InUse) /\ Cardinality(InUse) = nclients - 2
    BY <1>1, FS_Interval DEF InUse
  <2> QED BY <1>1, <2>1, FS_Subset, FS_CardinalityType
<1>5. Cardinality(reported') = Cardinality(ready)
  <2> DEFINE f == [i \in ready |-> cfd[i]]
  <2>1. f \in Bijection(ready, reported')
    BY <1>2, <1>3 DEF Bijection, Injection, Surjection, IsInjective
  <2> QED BY <1>4, <2>1, FS_Bijection DEF ExistsBijection
<1>6. NetTypeOK'
  BY <1>1, <1>2 DEF NetTypeOK
<1>7. PTypeOK'
  <2>1. crev' \in [Slots -> BOOLEAN]
    <3>1. ASSUME NEW i \in Slots
          PROVE  (IF i \in InUse THEN i \in ready ELSE crev[i]) \in BOOLEAN
      <4>1. crev[i] \in BOOLEAN
        BY <1>1
      <4>2. CASE i \in InUse
        <5>1. (i \in ready) \in BOOLEAN
          OBVIOUS
        <5> QED BY <4>2, <5>1, Zenon
      <4>3. CASE i \notin InUse
        BY <4>1, <4>3, Zenon
      <4> QED BY <4>2, <4>3
    <3> QED BY <1>2, <3>1
  <2>3. reported' \subseteq Conns
    BY <1>2, <1>3
  <2>2. nready' \in 0..(MaxClients + 1)
    BY <1>1, <1>2, <1>4
  <2> QED BY <1>1, <1>2, <1>6, <2>1, <2>2, <2>3 DEF PTypeOK
<1>8. TableExact'
  BY <1>2 DEF PollInv, TableInv, TableExact, InUse
<1>9. ASSUME ppc' \in {"accept", "scan", "write", "close"} PROVE Round'
  <2>1. ~typed /\ ppc' \in {"accept", "scan"} /\ Ahead' = InUse
    BY <1>2, <1>9 DEF Ahead, InUse
  <2>2. nready' + Taken' = Cardinality(reported') + (IF ppc' = "scan" THEN 0 ELSE 1)
    BY <1>2, <1>4, <1>5, <2>1 DEF Taken
  <2>3. reported' \subseteq {cfd'[i] : i \in Ahead'}
    BY <1>2, <2>1
  <2>4. \A i \in Ahead' : crev'[i] <=> cfd'[i] \in reported'
    BY <1>1, <1>2, <1>3, <2>1
  <2>5. \A c \in reported' : Readable(c)'
    BY <1>2 DEF Readable
  <2>6. fresh' \notin reported'
    BY <1>1, <1>2, <1>3
  <2>7. idx' <= nclients' /\ nready' > 0 /\ ppc' \notin {"write", "close"}
    BY <1>1, <1>2, <2>1
  <2>8. \A i \in Ahead' : cfd'[i] # fresh' => (crev'[i] <=> cfd'[i] \in reported')
    BY <2>4
  <2> QED BY <1>2, <2>2, <2>3, <2>5, <2>6, <2>7, <2>8 DEF Round
<1> QED BY <1>2, <1>7, <1>8, <1>9 DEF PollInv, TableInv, RoundInv, RoundServesAll

\* A new connection takes a slot behind the others, or none.
LEMMA PollAccepts ==
    ASSUME PollInv, NEW c \in Conns, accept(c) \/ accept_refuse(c)
    PROVE  PollInv'
<1>1. /\ PTypeOK /\ NetTypeOK /\ MaxClients \in Nat
      /\ cfd \in [Slots -> Conns \cup {NoConn}] /\ crev \in [Slots -> BOOLEAN]
      /\ nclients \in 2..MaxClients /\ nready \in 0..(MaxClients + 1)
      /\ InUse \subseteq Slots
      /\ NoConn \notin Conns /\ IsFiniteSet(reported) /\ Cardinality(reported) \in Nat
  BY TableFacts
<1>2. /\ ppc = "accept" /\ ppc' = AfterAccept /\ nready' = nready - 1
      /\ UNCHANGED <<crev, idx, got, reported, taken>>
      /\ c \in Backlog
  BY DEF accept, accept_refuse, slotvars
<1>3. /\ {cfd[i] : i \in InUse} = {d \in Conns : conn[d] = "est"}
      /\ \A i \in InUse : cfd[i] \in Conns /\ conn[cfd[i]] = "est"
      /\ \A i, j \in InUse : cfd[i] = cfd[j] => i = j
  BY <1>2, TableFacts
<1>4. idx = 2 /\ fresh = NoConn /\ ~taken /\ Taken = 0 /\ Round /\ Ahead = InUse
  BY <1>2 DEF PollInv, RoundInv, Ahead, InUse, Taken
<1>5. /\ nready > 0 /\ nready = Cardinality(reported) + 1
      /\ reported \subseteq {cfd[i] : i \in InUse}
      /\ \A i \in InUse : crev[i] <=> cfd[i] \in reported
      /\ \A d \in reported : Readable(d)
  BY <1>1, <1>2, <1>3, <1>4 DEF Round
<1>6. /\ ppc' \in {"poll", "scan"} /\ ~taken' /\ Taken' = 0
      /\ ppc' = "poll" => Cardinality(reported') = 0
  BY <1>1, <1>2, <1>4, <1>5 DEF AfterAccept, Taken
<1>7. conn[c] = "backlog" /\ c \notin reported
  BY <1>2, <1>3, <1>5 DEF Backlog
<1>8. CASE accept(c)
  <2>1. /\ nclients < MaxClients /\ Accept(c) /\ nclients' = nclients + 1
        /\ cfd' = [cfd EXCEPT ![nclients] = c] /\ fresh' = c
    BY <1>8 DEF accept
  <2>2. /\ NetTypeOK'
        /\ \A d \in Conns : chunk'[d] = chunk[d] /\ fin'[d] = fin[d]
        /\ {d \in Conns : conn'[d] = "est"} = {d \in Conns : conn[d] = "est"} \cup {c}
    BY <1>1, <1>2, <2>1, AcceptStep
  <2>3. /\ nclients \in Slots /\ InUse' = InUse \cup {nclients} /\ nclients \notin InUse
        /\ cfd'[nclients] = c /\ \A i \in InUse : cfd'[i] = cfd[i]
    BY <1>1, <2>1 DEF Slots, InUse
  <2>4. PTypeOK'
    <3>1. cfd' \in [Slots -> Conns \cup {NoConn}]
      BY <1>1, <2>1
    <3>2. nclients' \in 2..MaxClients /\ nready' \in 0..(MaxClients + 1)
      BY <1>1, <1>2, <1>5, <2>1
    <3> QED BY <1>1, <1>2, <1>6, <2>1, <2>2, <3>1, <3>2 DEF PTypeOK
  <2>5. TableExact'
    <3>1. \A i \in InUse : cfd[i] # c
      BY <1>3, <1>7
    <3>2. {cfd'[i] : i \in InUse'} = {cfd[i] : i \in InUse} \cup {c}
      BY <2>3
    <3>3. \A i, j \in InUse' : cfd'[i] = cfd'[j] => i = j
      BY <1>3, <2>3, <3>1
    <3> QED BY <1>3, <2>2, <3>2, <3>3 DEF TableExact
  <2>6. ASSUME ppc' = "scan" PROVE Round'
    <3>1. Ahead' = InUse'
      BY <1>2, <1>4, <2>6 DEF Ahead, InUse
    <3>2. reported' \subseteq {cfd'[i] : i \in Ahead'}
      BY <1>2, <1>5, <2>3, <3>1
    <3>3. \A i \in Ahead' : cfd'[i] # fresh' => (crev'[i] <=> cfd'[i] \in reported')
      BY <1>2, <1>5, <2>1, <2>3, <3>1
    <3>4. \A d \in reported' : Readable(d)'
      BY <1>2, <1>3, <1>5, <2>2 DEF Readable
    <3> QED BY <1>1, <1>2, <1>4, <1>5, <1>6, <1>7, <2>1, <2>6, <3>2, <3>3, <3>4 DEF Round
  <2> QED BY <1>1, <1>2, <1>4, <1>6, <2>1, <2>4, <2>5, <2>6
          DEF PollInv, TableInv, RoundInv, RoundServesAll
<1>9. CASE accept_refuse(c)
  <2>1. Close({c}) /\ UNCHANGED <<cfd, crev, nclients, fresh>>
    BY <1>9 DEF accept_refuse, slotvars
  <2>2. /\ NetTypeOK'
        /\ \A d \in Conns : d # c => chunk'[d] = chunk[d] /\ fin'[d] = fin[d]
        /\ {d \in Conns : conn'[d] = "est"} = {d \in Conns : conn[d] = "est"} \ {c}
    BY <1>1, <2>1, CloseStep
  <2>3. PTypeOK'
    BY <1>1, <1>2, <1>5, <1>6, <2>1, <2>2 DEF PTypeOK
  <2>4. InUse' = InUse /\ {d \in Conns : conn'[d] = "est"} = {d \in Conns : conn[d] = "est"}
    BY <1>7, <2>1, <2>2 DEF InUse
  <2>5. TableExact'
    BY <1>3, <2>1, <2>4 DEF TableExact
  <2>6. ASSUME ppc' = "scan" PROVE Round'
    <3>1. Ahead' = InUse
      BY <1>2, <1>4, <2>1, <2>6 DEF Ahead, InUse
    <3>2. \A d \in reported' : Readable(d)'
      BY <1>2, <1>3, <1>5, <1>7, <2>2 DEF Readable
    <3> QED BY <1>1, <1>2, <1>4, <1>5, <1>6, <2>1, <2>6, <3>1, <3>2 DEF Round
  <2> QED BY <1>2, <1>4, <1>6, <2>1, <2>3, <2>5, <2>6
          DEF PollInv, TableInv, RoundInv, RoundServesAll
<1> QED BY <1>8, <1>9

\* The loop passes a client without events, or ends.
LEMMA PollPasses ==
    ASSUME PollInv, scan_skip \/ scan_end
    PROVE  PollInv'
<1>1. /\ PTypeOK /\ NetTypeOK /\ MaxClients \in Nat
      /\ nclients \in 2..MaxClients /\ nready \in 0..(MaxClients + 1)
      /\ idx \in 2..MaxClients
      /\ IsFiniteSet(reported) /\ Cardinality(reported) \in Nat
      /\ taken \in BOOLEAN /\ Taken \in {0, 1}
  BY TableFacts
<1>2. /\ ppc = "scan"
      /\ UNCHANGED <<conn, chunk, fin, typed, cfd, crev, nclients, nready, got,
                     reported, fresh, taken>>
  BY DEF scan_skip, scan_end, Scanning, slotvars, netvars
<1>3. Round /\ Ahead = idx..(nclients - 1)
  BY <1>2 DEF PollInv, RoundInv, Ahead
<1>4. NetTypeOK' /\ TableExact' /\ \A c \in Conns : Readable(c)' = Readable(c)
  <2>1. NetTypeOK'
    BY <1>1, <1>2 DEF NetTypeOK
  <2>2. TableExact'
    BY <1>2 DEF PollInv, TableInv, TableExact, InUse
  <2>3. \A c \in Conns : Readable(c)' = Readable(c)
    BY <1>2 DEF Readable
  <2> QED BY <2>1, <2>2, <2>3
<1>5. CASE scan_skip
  <2>1. ppc' = "scan" /\ idx' = idx + 1 /\ idx < nclients /\ ~crev[idx]
    BY <1>2, <1>5 DEF scan_skip, Scanning
  <2>2. PTypeOK'
    BY <1>1, <1>2, <1>4, <2>1 DEF PTypeOK
  <2>3. /\ Ahead' = (idx + 1)..(nclients - 1) /\ Ahead = {idx} \cup Ahead'
        /\ idx \in Ahead
    BY <1>1, <1>2, <1>3, <2>1 DEF Ahead
  <2>4. cfd[idx] \notin reported
    BY <1>3, <2>1, <2>3 DEF Round
  <2>5. reported \subseteq {cfd[i] : i \in Ahead'}
    BY <1>3, <2>3, <2>4 DEF Round
  <2>6. \A i \in Ahead' : cfd[i] # fresh => (crev[i] <=> cfd[i] \in reported)
    BY <1>3, <2>3 DEF Round
  <2>7. reported \subseteq Conns
    BY <1>1 DEF PTypeOK
  <2>8. Round'
    <3>1. idx' <= nclients'
      BY <1>1, <1>2, <2>1
    <3>2. reported' \subseteq {cfd'[i] : i \in Ahead'}
      BY <1>2, <2>5
    <3>3. \A i \in Ahead' : cfd'[i] # fresh' => (crev'[i] <=> cfd'[i] \in reported')
      BY <1>2, <2>6
    <3>4. \A c \in reported' : Readable(c)'
      BY <1>2, <1>3, <1>4, <2>7 DEF Round
    <3>5. fresh' \notin reported' /\ (taken' => \A i \in Ahead' : cfd'[i] # fresh')
      BY <1>2, <1>3, <2>3 DEF Round
    <3>6. nready' + Taken' = Cardinality(reported')
      BY <1>1, <1>2, <1>3 DEF Round, Taken
    <3> QED BY <1>1, <1>2, <2>1, <3>1, <3>2, <3>3, <3>4, <3>5, <3>6 DEF Round
  <2> QED BY <2>1, <2>2, <1>4, <2>8 DEF PollInv, TableInv, RoundInv, RoundServesAll
<1>6. CASE scan_end
  <2>1. ppc' = "poll" /\ idx' = 2 /\ (nready = 0 \/ idx = nclients)
    BY <1>1, <1>2, <1>3, <1>6 DEF scan_end, Scanning, Round
  <2>2. PTypeOK'
    BY <1>1, <1>2, <1>4, <2>1 DEF PTypeOK
  <2>3. Cardinality(reported) <= Taken
    <3>1. CASE nready = 0
      BY <1>1, <1>2, <1>3, <3>1 DEF Round
    <3>2. CASE idx = nclients
      <4>1. Ahead = {}
        BY <1>1, <1>3, <3>2
      <4>2. Cardinality(reported) = 0
        BY <1>3, <4>1, FS_EmptySet DEF Round
      <4> QED BY <1>1, <4>2
    <3> QED BY <2>1, <3>1, <3>2
  <2> QED BY <1>2, <2>1, <2>2, <2>3, <1>4
          DEF PollInv, TableInv, RoundInv, RoundServesAll, Taken
<1> QED BY <1>5, <1>6

\* The client that is read is no longer one of those to be served.
LEMMA PollReads ==
    ASSUME PollInv, scan_read
    PROVE  PollInv'
<1> DEFINE c == cfd[idx]
<1>1. /\ PTypeOK /\ NetTypeOK /\ MaxClients \in Nat
      /\ nclients \in 2..MaxClients /\ nready \in 0..(MaxClients + 1)
      /\ idx \in 2..MaxClients
      /\ IsFiniteSet(reported) /\ Cardinality(reported) \in Nat
      /\ reported \subseteq Conns /\ taken \in BOOLEAN /\ Taken \in {0, 1}
  BY TableFacts DEF PTypeOK
<1>2. /\ ppc = "scan" /\ nready > 0 /\ idx < nclients /\ crev[idx]
      /\ got' = chunk[c] /\ chunk' = [chunk EXCEPT ![c] = "none"]
      /\ reported' = reported \ {c} /\ ppc' \in {"write", "close"}
      /\ taken' = (taken \/ c = fresh)
      /\ UNCHANGED <<conn, fin, typed, cfd, crev, nclients, nready, idx, fresh>>
  BY DEF scan_read, Scanning, slotvars
<1>3. Round /\ Ahead = idx..(nclients - 1) /\ Ahead = InUse \cap Ahead
  <2>1. Ahead = idx..(nclients - 1)
    BY <1>2 DEF Ahead
  <2> QED BY <1>1, <1>2, <2>1 DEF PollInv, RoundInv, InUse
<1>4. /\ idx \in Ahead /\ idx \in InUse
      /\ Ahead' = (idx + 1)..(nclients - 1) /\ Ahead = {idx} \cup Ahead'
      /\ Ahead' \subseteq InUse /\ idx \notin Ahead'
  BY <1>1, <1>2, <1>3 DEF Ahead, InUse
<1>5. /\ \A i \in InUse : cfd[i] \in Conns
      /\ \A i, j \in InUse : cfd[i] = cfd[j] => i = j
  BY <1>2, TableFacts
<1>6. c \in Conns
  BY <1>4, <1>5
<1>7. NetTypeOK'
  BY <1>1, <1>2 DEF NetTypeOK
<1>8. PTypeOK'
  BY <1>1, <1>2, <1>6, <1>7 DEF PTypeOK, NetTypeOK
<1>9. TableExact'
  BY <1>2 DEF PollInv, TableInv, TableExact, InUse
<1>10. Round'
  <2>1. reported' \subseteq {cfd'[i] : i \in Ahead'}
    BY <1>2, <1>3, <1>4 DEF Round
  <2>2. \A i \in Ahead' : cfd'[i] # fresh' => (crev'[i] <=> cfd'[i] \in reported')
    <3> SUFFICES ASSUME NEW i \in Ahead', cfd[i] # fresh
                 PROVE  crev[i] <=> cfd[i] \in reported \ {c}
      BY <1>2
    <3>1. crev[i] <=> cfd[i] \in reported
      BY <1>3, <1>4 DEF Round
    <3>2. cfd[i] # c
      BY <1>4, <1>5
    <3> QED BY <3>1, <3>2
  <2>3. \A d \in reported' : Readable(d)'
    BY <1>1, <1>2, <1>3 DEF Round, Readable, NetTypeOK
  <2>4. fresh' \notin reported'
    BY <1>2, <1>3 DEF Round
  <2>5. nready' + Taken' = Cardinality(reported') + 1
    <3>1. nready + Taken = Cardinality(reported)
      BY <1>1, <1>2, <1>3 DEF Round
    <3>2. CASE c = fresh
      <4>1. ~taken /\ c \notin reported
        BY <1>2, <1>3, <1>4, <3>2 DEF Round
      <4>2. reported' = reported
        BY <1>2, <4>1
      <4>3. taken'
        BY <1>2, <3>2, Zenon
      <4> QED BY <1>1, <1>2, <3>1, <4>1, <4>2, <4>3 DEF Taken
    <3>3. CASE c # fresh
      <4>1. c \in reported
        BY <1>2, <1>3, <1>4, <3>3 DEF Round
      <4>3. taken' <=> taken
        BY <1>2, <3>3, Zenon
      <4>2. Cardinality(reported') = Cardinality(reported) - 1
        BY <1>1, <1>2, <4>1, FS_RemoveElement
      <4> QED BY <1>1, <1>2, <3>1, <4>2, <4>3 DEF Taken
    <3> QED BY <3>2, <3>3
  <2>7. taken' => \A i \in Ahead' : cfd'[i] # fresh'
    <3>1. \A i \in Ahead' : cfd[i] # c
      BY <1>4, <1>5
    <3>2. taken => \A i \in Ahead' : cfd[i] # fresh
      BY <1>3, <1>4 DEF Round
    <3> QED BY <1>2, <3>1, <3>2
  <2>6. idx' < nclients' /\ idx' <= nclients' /\ nready' > 0
    BY <1>1, <1>2
  <2> QED BY <1>2, <2>1, <2>2, <2>3, <2>4, <2>5, <2>6, <2>7 DEF Round
<1> QED BY <1>2, <1>8, <1>9, <1>10 DEF PollInv, TableInv, RoundInv, RoundServesAll

\* The echo ends the turn of a client, or its connection.
LEMMA PollWrites ==
    ASSUME PollInv, scan_write
    PROVE  PollInv'
<1>1. /\ PTypeOK /\ NetTypeOK /\ MaxClients \in Nat
      /\ nclients \in 2..MaxClients /\ nready \in 0..(MaxClients + 1)
      /\ idx \in 2..MaxClients
      /\ IsFiniteSet(reported) /\ Cardinality(reported) \in Nat
      /\ taken \in BOOLEAN /\ Taken \in {0, 1}
  BY TableFacts
<1>2. /\ ppc = "write" /\ got' = "none"
      /\ \/ ppc' = "close" /\ nready' = nready /\ idx' = idx
         \/ ppc' = "scan" /\ nready' = nready - 1 /\ idx' = idx + 1
      /\ UNCHANGED <<conn, chunk, fin, typed, cfd, crev, nclients, reported, fresh, taken>>
  BY DEF scan_write, slotvars, netvars
<1>3. Round /\ idx < nclients /\ nready > 0
  BY <1>2 DEF PollInv, RoundInv, Round
<1>4. NetTypeOK' /\ TableExact'
  BY <1>1, <1>2 DEF NetTypeOK, PollInv, TableInv, TableExact, InUse
<1>5. PTypeOK'
  BY <1>1, <1>2, <1>3, <1>4 DEF PTypeOK
<1>6. Ahead' = Ahead
  BY <1>2 DEF Ahead
<1>7. Round'
  <2>1. /\ reported' \subseteq {cfd'[i] : i \in Ahead'}
        /\ \A i \in Ahead' : cfd'[i] # fresh' => (crev'[i] <=> cfd'[i] \in reported')
        /\ fresh' \notin reported'
        /\ taken' => \A i \in Ahead' : cfd'[i] # fresh'
    BY <1>2, <1>3, <1>6 DEF Round
  <2>2. \A c \in reported' : Readable(c)'
    BY <1>2, <1>3 DEF Round, Readable
  <2>3. nready + Taken = Cardinality(reported) + 1 /\ Taken' = Taken
    BY <1>2, <1>3 DEF Round, Taken
  <2>4. nready' + Taken' = Cardinality(reported') + (IF ppc' = "scan" THEN 0 ELSE 1)
    BY <1>1, <1>2, <2>3
  <2>5. /\ idx' <= nclients'
        /\ ppc' \in {"accept", "write", "close"} => nready' > 0
        /\ ppc' \in {"write", "close"} => idx' < nclients'
    BY <1>1, <1>2, <1>3
  <2> QED BY <2>1, <2>2, <2>4, <2>5 DEF Round
<1> QED BY <1>2, <1>4, <1>5, <1>7 DEF PollInv, TableInv, RoundInv, RoundServesAll

\* The client in the last slot takes the place of the one that leaves, and is
\* looked at there.
LEMMA PollCloses ==
    ASSUME PollInv, scan_close
    PROVE  PollInv'
<1> DEFINE c == cfd[idx]
           last == nclients - 1
<1>1. /\ PTypeOK /\ NetTypeOK /\ MaxClients \in Nat
      /\ cfd \in [Slots -> Conns \cup {NoConn}] /\ crev \in [Slots -> BOOLEAN]
      /\ nclients \in 2..MaxClients /\ nready \in 0..(MaxClients + 1)
      /\ idx \in 2..MaxClients
      /\ IsFiniteSet(reported) /\ Cardinality(reported) \in Nat
      /\ taken \in BOOLEAN /\ Taken \in {0, 1}
  BY TableFacts
<1>2. /\ ppc = "close" /\ ppc' = "scan" /\ Close({c})
      /\ nclients' = last /\ nready' = nready - 1
      /\ cfd' = [cfd EXCEPT ![idx] = cfd[last]]
      /\ crev' = [crev EXCEPT ![idx] = crev[last]]
      /\ UNCHANGED <<idx, got, reported, fresh, taken>>
  BY DEF scan_close
<1>3. Round /\ idx < nclients /\ nready > 0
  BY <1>2 DEF PollInv, RoundInv, Round
<1>4. /\ Ahead = (idx + 1)..last /\ Ahead' = idx..(last - 1)
      /\ InUse = 2..last /\ InUse' = 2..(last - 1)
      /\ idx \in InUse /\ last \in InUse /\ Ahead \subseteq InUse
      /\ idx \in Slots /\ last \in Slots /\ InUse \subseteq Slots
  BY <1>1, <1>2, <1>3 DEF Ahead, InUse, Slots
<1>5. /\ {cfd[i] : i \in InUse} = {d \in Conns : conn[d] = "est"}
      /\ \A i \in InUse : cfd[i] \in Conns
      /\ \A i, j \in InUse : cfd[i] = cfd[j] => i = j
  BY <1>2, TableFacts
<1>6. /\ NetTypeOK' /\ c \in Conns
      /\ \A d \in Conns : d # c => chunk'[d] = chunk[d] /\ fin'[d] = fin[d]
      /\ {d \in Conns : conn'[d] = "est"} = {d \in Conns : conn[d] = "est"} \ {c}
  BY <1>1, <1>2, <1>4, <1>5, CloseStep
\* Where the entry of each slot comes from.
<1> DEFINE from(i) == IF i = idx THEN last ELSE i
<1>7. /\ \A i \in InUse' : /\ from(i) \in InUse \ {idx}
                           /\ cfd'[i] = cfd[from(i)] /\ crev'[i] = crev[from(i)]
      /\ \A i, j \in InUse' : from(i) = from(j) => i = j
      /\ \A k \in InUse \ {idx} : \E i \in InUse' : from(i) = k
      /\ \A i \in Ahead' : from(i) \in Ahead /\ i \in InUse'
      /\ \A k \in Ahead : \E i \in Ahead' : from(i) = k
  <2>1. \A i \in Slots : cfd'[i] = cfd[from(i)] /\ crev'[i] = crev[from(i)]
    BY <1>1, <1>2, <1>4
  <2>2. /\ \A i \in InUse' : from(i) \in InUse \ {idx} /\ i \in Slots
        /\ \A i, j \in InUse' : from(i) = from(j) => i = j
    BY <1>1, <1>3, <1>4
  <2>3. ASSUME NEW k \in InUse \ {idx} PROVE \E i \in InUse' : from(i) = k
    <3>1. CASE k = last
      <4>1. idx \in InUse' /\ from(idx) = k
        BY <1>1, <1>3, <1>4, <2>3, <3>1
      <4> QED BY <4>1
    <3>2. CASE k # last
      <4>1. k \in InUse' /\ from(k) = k
        BY <1>1, <1>4, <2>3, <3>2
      <4> QED BY <4>1
    <3> QED BY <3>1, <3>2
  <2>4. \A i \in Ahead' : from(i) \in Ahead /\ i \in InUse'
    BY <1>1, <1>3, <1>4
  <2>5. ASSUME NEW k \in Ahead PROVE \E i \in Ahead' : from(i) = k
    <3>1. CASE k = last
      <4>1. idx \in Ahead' /\ from(idx) = k
        BY <1>1, <1>3, <1>4, <2>5, <3>1
      <4> QED BY <4>1
    <3>2. CASE k # last
      <4>1. k \in Ahead' /\ from(k) = k
        BY <1>1, <1>4, <2>5, <3>2
      <4> QED BY <4>1
    <3> QED BY <3>1, <3>2
  <2> QED BY <2>1, <2>2, <2>3, <2>4, <2>5
<1> HIDE DEF from
<1>8. TableExact'
  <2>1. {cfd'[i] : i \in InUse'} = {cfd[k] : k \in InUse \ {idx}}
    BY <1>7
  <2>2. {cfd[k] : k \in InUse \ {idx}} = {cfd[k] : k \in InUse} \ {c}
    BY <1>4, <1>5
  <2>3. \A i, j \in InUse' : cfd'[i] = cfd'[j] => i = j
    BY <1>5, <1>7
  <2> QED BY <1>5, <1>6, <2>1, <2>2, <2>3 DEF TableExact
<1>9. PTypeOK'
  <2>1. nclients' \in 2..MaxClients /\ nready' \in 0..(MaxClients + 1)
    BY <1>1, <1>2, <1>3
  <2>2. cfd' \in [Slots -> Conns \cup {NoConn}] /\ crev' \in [Slots -> BOOLEAN]
    BY <1>1, <1>2, <1>4
  <2> QED BY <1>1, <1>2, <1>6, <2>1, <2>2 DEF PTypeOK
<1>10. Round'
  <2>1. c \notin reported /\ reported \subseteq Conns
    <3>1. \A k \in Ahead : cfd[k] # c
      BY <1>1, <1>4, <1>5
    <3> QED BY <1>1, <1>3, <3>1 DEF Round, PTypeOK
  <2>2. reported' \subseteq {cfd'[i] : i \in Ahead'}
    <3>1. reported \subseteq {cfd[k] : k \in Ahead}
      BY <1>3 DEF Round
    <3> QED BY <1>2, <1>7, <3>1
  <2>3. \A i \in Ahead' : cfd'[i] # fresh' => (crev'[i] <=> cfd'[i] \in reported')
    BY <1>2, <1>3, <1>7 DEF Round
  <2>4. \A d \in reported' : Readable(d)'
    BY <1>2, <1>3, <1>6, <2>1 DEF Round, Readable
  <2>5. fresh' \notin reported' /\ nready' + Taken' = Cardinality(reported')
    BY <1>1, <1>2, <1>3 DEF Round, Taken
  <2>6. idx' <= nclients'
    BY <1>1, <1>2, <1>3
  <2>7. taken' => \A i \in Ahead' : cfd'[i] # fresh'
    BY <1>2, <1>3, <1>7 DEF Round
  <2> QED BY <1>1, <1>2, <2>2, <2>3, <2>4, <2>5, <2>6, <2>7 DEF Round
<1> QED BY <1>2, <1>8, <1>9, <1>10 DEF PollInv, TableInv, RoundInv, RoundServesAll

LEMMA PollStep == PollInv /\ [PNext]_pvars => PollInv'
<1> SUFFICES ASSUME PollInv, [PNext]_pvars PROVE PollInv'
  OBVIOUS
<1>1. CASE poll
  BY <1>1, PollReports
<1>2. CASE \E c \in Conns : accept(c) \/ accept_refuse(c)
  BY <1>2, PollAccepts
<1>3. CASE scan_skip \/ scan_end
  BY <1>3, PollPasses
<1>4. CASE scan_read
  BY <1>4, PollReads
<1>5. CASE scan_write
  BY <1>5, PollWrites
<1>6. CASE scan_close
  BY <1>6, PollCloses
<1>7. CASE accept_fails \/ scan_error \/ exit
  <2>1. /\ \E S : Close(S)
        /\ ppc' = "ended"
        /\ UNCHANGED <<slotvars, nready, idx, got, reported, fresh, taken>>
    BY <1>7 DEF accept_fails, scan_error, exit, CloseAll
  <2>2. NetTypeOK'
    BY <2>1, TableFacts, CloseStep
  <2> QED BY <2>1, <2>2, PollEnds
<1>8. CASE Outside \/ UNCHANGED pvars
  BY <1>8, PollOutside DEF Outside, pvars
<1> QED BY <1>1, <1>2, <1>3, <1>4, <1>5, <1>6, <1>7, <1>8 DEF PNext, ServerStep

LEMMA PollMeans == PollInv => TableInv /\ WaitsForNewOnly /\ RoundServesAll
<1> SUFFICES ASSUME PollInv, StuckInRead PROVE cfd[idx] = fresh
  BY DEF PollInv, RoundInv, WaitsForNewOnly
<1>1. ppc = "scan" /\ idx < nclients /\ crev[idx] /\ ~Readable(cfd[idx])
  BY DEF StuckInRead, Scanning
<1>2. Round /\ idx \in Ahead
  BY <1>1, TableFacts DEF PollInv, RoundInv, Ahead
<1> QED BY <1>1, <1>2 DEF Round

\* The slots in use are the open connections, each once, through accepts,
\* refusals and clients that leave and are replaced by the last one.
THEOREM PollTableExact == PSpec => []TableInv
<1> QED BY PollMeans, PollInit, PollStep, PTL DEF PSpec

\* The server with poll never waits in a read, but for a connection that it has
\* accepted in the same round, whose revents nobody has set.
THEOREM PollWaitsForNewOnly == PSpec => []WaitsForNewOnly
<1> QED BY PollMeans, PollInit, PollStep, PTL DEF PSpec

\* Every client that poll reports is served before the next poll, in a round that
\* accepts a connection as well, although slots move under the loop; but for one
\* at most, whose turn that connection took by being read.
THEOREM PollServesRound == PSpec => []RoundServesAll
<1> QED BY PollMeans, PollInit, PollStep, PTL DEF PSpec
=============================================================================
