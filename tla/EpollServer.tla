---------------------------- MODULE EpollServer ----------------------------
(***************************************************************************)
(* The single-threaded echo server of 21-async/02-epoll/echo-server.c.     *)
(* epoll_wait is asked for up to nevents events; nevents starts at 2, for  *)
(* the terminal and the listening socket, and grows with each connection.  *)
(* It returns the ready descriptors in any order, so a batch is a set that *)
(* is served in any order.                                                 *)
(***************************************************************************)
EXTENDS Sockets

CONSTANTS
    EpollMax,   \* MAX_CLIENTS, the length of the array events
    Stdin,      \* descriptor 0
    MainFd,     \* the listening socket
    NoFd        \* no descriptor

ASSUME EpollAssumption ==
    /\ EpollMax \in Nat /\ EpollMax > 2
    /\ {Stdin, MainFd, NoFd} \cap Conns = {}
    /\ Cardinality({Stdin, MainFd, NoFd}) = 3

VARIABLES
    interest,  \* descriptors registered with epoll_ctl
    nevents,   \* as in the code
    batch,     \* returned events that are still to be served
    cur,       \* the connection being served or refused
    line,      \* the line in buf while it is served
    epc        \* where the loop is

loopvars == <<interest, nevents, batch, cur, line, epc>>

EpInit ==
    /\ NetInit
    /\ interest = {Stdin, MainFd}
    /\ nevents = 2
    /\ batch = {}
    /\ cur = NoFd
    /\ line = "none"
    /\ epc = "wait"

\* A registered descriptor has an event.
EventOn(f) ==
    CASE f = Stdin -> typed
      [] f = MainFd -> Backlog # {}
      [] OTHER -> Readable(f)

\* epoll_wait returns at most nevents of the descriptors with events.
epoll_wait ==
    /\ epc = "wait"
    /\ LET ready == {f \in interest : EventOn(f)}
       IN /\ ready # {}
          /\ batch' \in SUBSET ready
          /\ Cardinality(batch') =
               IF Cardinality(ready) < nevents THEN Cardinality(ready) ELSE nevents
    /\ epc' = "serve"
    /\ UNCHANGED <<netvars, interest, nevents, cur, line>>

\* The end of the loop over the events.
serve_end ==
    /\ epc = "serve"
    /\ batch = {}
    /\ epc' = "wait"
    /\ UNCHANGED <<netvars, interest, nevents, batch, cur, line>>

\* Input on the terminal: the process ends.
serve_stdin ==
    /\ epc = "serve"
    /\ Stdin \in batch
    /\ CloseAll
    /\ epc' = "ended"
    /\ UNCHANGED <<interest, nevents, batch, cur, line>>

\* Mutant: one event is taken to announce any number of connections.
serve_accept_Again(c) ==
    /\ epc = "serve"
    /\ MainFd \in batch
    /\ c \in Backlog
    /\ nevents # EpollMax
    /\ Accept(c)
    /\ interest' = interest \cup {c}
    /\ nevents' = nevents + 1
    /\ UNCHANGED <<batch, cur, line, epc>>

\* A new connection is registered and counted ...
serve_accept(c) ==
    /\ epc = "serve"
    /\ MainFd \in batch
    /\ c \in Backlog
    /\ nevents # EpollMax
    /\ Accept(c)
    /\ interest' = interest \cup {c}
    /\ nevents' = nevents + 1
    /\ batch' = batch \ {MainFd}
    /\ UNCHANGED <<cur, line, epc>>

\* ... or, when the counter has reached the limit, taken off the backlog ...
serve_refuse(c) ==
    /\ epc = "serve"
    /\ MainFd \in batch
    /\ c \in Backlog
    /\ nevents = EpollMax
    /\ Accept(c)
    /\ cur' = c
    /\ batch' = batch \ {MainFd}
    /\ epc' = "refuse"
    /\ UNCHANGED <<interest, nevents, line>>

\* ... reported as one too many, and closed.
refuse_close ==
    /\ epc = "refuse"
    /\ Close({cur})
    /\ cur' = NoFd
    /\ epc' = "serve"
    /\ UNCHANGED <<interest, nevents, batch, line>>

\* accept or epoll_ctl fails: the process exits.
serve_accept_error ==
    /\ epc = "serve"
    /\ MainFd \in batch
    /\ CloseAll
    /\ epc' = "ended"
    /\ UNCHANGED <<interest, nevents, batch, cur, line>>

\* read on a connection with an event; 0 bytes at the end of file.
serve_read(c) ==
    /\ epc = "serve"
    /\ c \in batch
    /\ Readable(c)
    /\ fin[c] # "reset"
    /\ line' = chunk[c]
    /\ chunk' = [chunk EXCEPT ![c] = "none"]
    /\ cur' = c
    /\ batch' = batch \ {c}
    /\ epc' = IF chunk[c] = "none" THEN "close" ELSE "write"
    /\ UNCHANGED <<conn, fin, typed, interest, nevents>>

\* read or write fails on a connection that was reset: the process exits.
serve_error ==
    /\ \/ epc = "serve" /\ \E c \in batch \cap Conns : fin[c] = "reset"
       \/ epc = "write" /\ fin[cur] = "reset"
    /\ CloseAll
    /\ epc' = "ended"
    /\ UNCHANGED <<interest, nevents, batch, cur, line>>

\* The echo; after quit the connection is closed.
serve_write ==
    /\ epc = "write"
    /\ fin[cur] # "reset"
    /\ epc' = IF line = "quit" THEN "close" ELSE "serve"
    /\ cur' = IF line = "quit" THEN cur ELSE NoFd
    /\ line' = "none"
    /\ UNCHANGED <<netvars, interest, nevents, batch>>

\* Mutant: the connection is closed but stays registered.
serve_close_Registered ==
    /\ epc = "close"
    /\ Close({cur})
    /\ cur' = NoFd
    /\ epc' = "serve"
    /\ UNCHANGED <<interest, nevents, batch, line>>

\* EPOLL_CTL_DEL, which succeeds on a registered descriptor (AllRegistered),
\* and close; nevents is left as it is.
serve_close ==
    /\ epc = "close"
    /\ interest' = interest \ {cur}
    /\ Close({cur})
    /\ cur' = NoFd
    /\ epc' = "serve"
    /\ UNCHANGED <<nevents, batch, line>>

EpStep ==
    \/ epoll_wait \/ serve_end \/ serve_stdin
    \/ \E c \in Conns : serve_accept(c) \/ serve_refuse(c) \/ serve_read(c)
    \/ refuse_close \/ serve_accept_error
    \/ serve_error \/ serve_write \/ serve_close

\* The one thread of the server is in a write that may wait for its peer.
EpMayBlock == epc = "write" /\ MayBlock(cur)

-----------------------------------------------------------------------------

EpTypeOK ==
    /\ NetTypeOK
    /\ interest \subseteq {Stdin, MainFd} \cup Conns
    /\ nevents \in 2..EpollMax
    /\ batch \subseteq interest
    /\ cur \in Conns \cup {NoFd}
    /\ line \in Lines \cup {"none"}
    /\ epc \in {"wait", "serve", "refuse", "write", "close", "ended"}

\* While the server runs, the registered connections are the open ones (but for
\* one being refused), and the counter that bounds epoll_wait is never below
\* their number: no ready descriptor is left out of a batch.
AllRegistered ==
    epc # "ended" =>
      /\ interest = {Stdin, MainFd} \cup
           ({c \in Conns : conn[c] = "est"} \ (IF epc = "refuse" THEN {cur} ELSE {}))
      /\ Cardinality(interest) <= nevents

\* Every event of a batch still holds when its turn comes: serving, accepting
\* and closing other connections in between never leaves the server in a read
\* or in an accept that does not return.
BatchNotStale == epc \in {"serve", "refuse", "write", "close"} =>
                     \A f \in batch : f \in interest /\ EventOn(f)
=============================================================================
