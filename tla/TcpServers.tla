----------------------------- MODULE TcpServers -----------------------------
(***************************************************************************)
(* The blocking echo servers of 20-net-sockets: "basic" (01), which serves *)
(* one connection at a time in its main thread; "threads" (02), a thread   *)
(* for each connection; "pool" (03), which submits each connection to a    *)
(* thread pool (ThreadPool models it; here it is its queue and the number  *)
(* of its threads).  The three share the loop that serves a connection,    *)
(* which does not look for the end of file: there read returns 0, the      *)
(* buffer is the empty string and the loop goes on.  Two more programs     *)
(* over the same sockets are modelled in UvServer ("libuv") and            *)
(* EpollServer ("epoll"); StreamServers puts the five side by side.        *)
(***************************************************************************)
EXTENDS Sockets, Sequences

CONSTANTS
    Programs,   \* which of the programs to look at
    NThreads,   \* NTHREADS, threads of the pool
    Arrivals,   \* bound: the connections made to each program, in their order
    LinesTo     \* bound: which lines are sent to each program

ASSUME TcpAssumption ==
    /\ Programs \subseteq {"basic", "threads", "pool", "libuv", "epoll"}
    /\ NThreads \in Nat \ {0}
    /\ Arrivals \in [Programs -> Seq(Conns)]
    /\ LinesTo \in [Programs -> SUBSET Lines]

VARIABLES
    program,   \* the program that runs; never changes
    running,   \* whether its process runs
    queue,     \* connections submitted to the pool and not yet taken
    tpc,       \* where the thread that serves each connection is
    tbuf       \* the line in the thread's buffer

threadvars == <<program, running, queue, tpc, tbuf>>
tvars == <<netvars, threadvars>>

TInit ==
    /\ NetInit
    /\ program \in Programs
    /\ running = TRUE
    /\ queue = <<>>
    /\ tpc = [c \in Conns |-> "none"]
    /\ tbuf = [c \in Conns |-> "none"]

Blocking == program \in {"basic", "threads", "pool"}
Serving == {c \in Conns : tpc[c] \in {"read", "write"}}

-----------------------------------------------------------------------------
(***************************************************************************)
(* The loops of main                                                       *)
(***************************************************************************)

\* 01: accept, and main itself serves the connection.
basic_accept(c) ==
    /\ program = "basic" /\ running
    /\ Serving = {}
    /\ c \in Backlog
    /\ Accept(c)
    /\ tpc' = [tpc EXCEPT ![c] = "read"]
    /\ UNCHANGED <<program, running, queue, tbuf>>

\* 02: accept, and a detached thread is created.
threads_accept(c) ==
    /\ program = "threads" /\ running
    /\ c \in Backlog
    /\ Accept(c)
    /\ tpc' = [tpc EXCEPT ![c] = "read"]
    /\ UNCHANGED <<program, running, queue, tbuf>>

\* Mutant: the connection is not submitted.
pool_accept_NotSubmitted(c) ==
    /\ program = "pool" /\ running
    /\ c \in Backlog
    /\ Accept(c)
    /\ UNCHANGED threadvars

\* 03: accept and thread_pool_submit.
pool_accept(c) ==
    /\ program = "pool" /\ running
    /\ c \in Backlog
    /\ Accept(c)
    /\ queue' = Append(queue, c)
    /\ UNCHANGED <<program, running, tpc, tbuf>>

\* 03: a free thread of the pool takes the oldest connection.
thread_pool_worker ==
    /\ program = "pool" /\ running
    /\ queue # <<>>
    /\ Cardinality(Serving) < NThreads
    /\ queue' = Tail(queue)
    /\ tpc' = [tpc EXCEPT ![Head(queue)] = "read"]
    /\ UNCHANGED <<netvars, program, running, tbuf>>

-----------------------------------------------------------------------------
(***************************************************************************)
(* process_connection, or the inner loop of 01                             *)
(***************************************************************************)

\* read returns a line, or nothing at the end of file.
process_read(c) ==
    /\ tpc[c] = "read"
    /\ Readable(c)
    /\ fin[c] # "reset"
    /\ tbuf' = [tbuf EXCEPT ![c] = chunk[c]]
    /\ chunk' = [chunk EXCEPT ![c] = "none"]
    /\ tpc' = [tpc EXCEPT ![c] = "write"]
    /\ UNCHANGED <<conn, fin, typed, program, running, queue>>

\* The echo, and on to the next read.
process_echo(c) ==
    /\ tpc[c] = "write"
    /\ fin[c] # "reset"
    /\ tbuf[c] \notin {"quit", "stop"}
    /\ tbuf' = [tbuf EXCEPT ![c] = "none"]
    /\ tpc' = [tpc EXCEPT ![c] = "read"]
    /\ UNCHANGED <<netvars, program, running, queue>>

\* Mutant: the loop is left but the descriptor stays open.
process_quit_Open(c) ==
    /\ tpc[c] = "write"
    /\ fin[c] # "reset"
    /\ tbuf[c] = "quit"
    /\ tbuf' = [tbuf EXCEPT ![c] = "none"]
    /\ tpc' = [tpc EXCEPT ![c] = "none"]
    /\ UNCHANGED <<netvars, program, running, queue>>

\* quit is echoed, the connection closed, and the thread is free.
process_quit(c) ==
    /\ tpc[c] = "write"
    /\ fin[c] # "reset"
    /\ tbuf[c] = "quit"
    /\ Close({c})
    /\ tbuf' = [tbuf EXCEPT ![c] = "none"]
    /\ tpc' = [tpc EXCEPT ![c] = "none"]
    /\ UNCHANGED <<program, running, queue>>

\* The end of the process, whoever causes it: all threads and descriptors.
EndProcess ==
    /\ CloseAll
    /\ running' = FALSE
    /\ queue' = <<>>
    /\ tpc' = [c \in Conns |-> "none"]
    /\ tbuf' = [c \in Conns |-> "none"]
    /\ UNCHANGED program

\* stop is echoed, and main leaves its loop (01) or the thread calls exit.
process_stop(c) ==
    /\ tpc[c] = "write"
    /\ fin[c] # "reset"
    /\ tbuf[c] = "stop"
    /\ EndProcess

\* read or write fails after a reset.  01 and 03 exit; in 02 a failed write may
\* also end the process, by SIGPIPE.
process_error(c) ==
    /\ fin[c] = "reset"
    /\ (tpc[c] = "read" /\ program # "threads") \/ tpc[c] = "write"
    /\ EndProcess

\* terror of 02 ends the thread and leaves the descriptor open.
thread_error(c) ==
    /\ program = "threads"
    /\ c \in Serving
    /\ fin[c] = "reset"
    /\ tpc' = [tpc EXCEPT ![c] = "leaked"]
    /\ tbuf' = [tbuf EXCEPT ![c] = "none"]
    /\ UNCHANGED <<netvars, program, running, queue>>

\* accept fails: main exits.
accept_error ==
    /\ running
    /\ Blocking
    /\ program = "basic" => Serving = {}
    /\ EndProcess

MainStep ==
    \/ \E c \in Conns : basic_accept(c) \/ threads_accept(c) \/ pool_accept(c)
    \/ thread_pool_worker

ThreadStep(c) ==
    \/ process_read(c) \/ process_echo(c) \/ process_quit(c) \/ process_stop(c)
    \/ process_error(c) \/ thread_error(c)

TOutside ==
    /\ running
    /\ PeerStep
    /\ \E n \in 0..Len(Arrivals[program]) :
         {c \in Conns : conn'[c] # "idle"} = {Arrivals[program][i] : i \in 1..n}
    /\ \A c \in Conns : chunk'[c] \in LinesTo[program] \cup {"none"}
    /\ UNCHANGED threadvars

TNext ==
    \/ MainStep
    \/ accept_error
    \/ \E c \in Conns : ThreadStep(c)
    \/ TOutside

-----------------------------------------------------------------------------

\* How many connections a program serves at the same time.
Limit == CASE program = "basic" -> 1
           [] program = "threads" -> Cardinality(Conns)
           [] program = "pool" -> NThreads
           [] OTHER -> 0

TTypeOK ==
    /\ NetTypeOK
    /\ program \in Programs
    /\ running \in BOOLEAN
    /\ queue \in Seq(Conns)
    /\ tpc \in [Conns -> {"none", "read", "write", "leaked"}]
    /\ tbuf \in [Conns -> Lines \cup {"none"}]
    /\ Cardinality(Serving) <= Limit

Queued == {queue[i] : i \in 1..Len(queue)}
Leaked == {c \in Conns : tpc[c] = "leaked"}

\* Every open connection is served by one thread, or is in the queue of the
\* pool, once, or was abandoned by a thread of 02 after a reset; nothing else
\* keeps a descriptor, and no thread serves one that is closed.
Accounted ==
    /\ Blocking =>
         {c \in Conns : conn[c] = "est"} = Serving \cup Queued \cup Leaked
    /\ Queued \cap Serving = {}
    /\ Cardinality(Queued) = Len(queue)
    /\ \A c \in Leaked : program = "threads" /\ fin[c] = "reset"

\* The invariant of the blocking servers: types, at most as many connections
\* served as there are threads, and every descriptor accounted for.
TcpInv == TTypeOK /\ Accounted
=============================================================================
