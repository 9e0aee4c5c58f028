--------------------------- MODULE StreamServers ---------------------------
(***************************************************************************)
(* One of the echo servers over TCP runs: a program of TcpServers, the one *)
(* of UvServer or the one of EpollServer.  Each leaves the state of the    *)
(* others alone.                                                           *)
(***************************************************************************)
EXTENDS TcpServers, UvServer, EpollServer

stvars == <<netvars, threadvars, uvstate, loopvars>>

StInit == TInit /\ UvInit /\ EpInit

\* A callback of libuv, under its program.
UvStep(c) ==
    /\ program = "libuv"
    /\ Callback(c)
    /\ UNCHANGED <<threadvars, loopvars>>

UvSpurious(c) ==
    /\ program = "libuv"
    /\ on_read_nothing(c)
    /\ UNCHANGED <<threadvars, loopvars>>

\* The loop of the epoll server, which is the only one to read the terminal.
EpollStep == program = "epoll" /\ EpStep /\ UNCHANGED <<threadvars, uvstate>>

Keyboard ==
    /\ program = "epoll" /\ epc # "ended"
    /\ user_types
    /\ UNCHANGED <<threadvars, uvstate, loopvars>>

StNext ==
    \/ MainStep /\ UNCHANGED <<uvstate, loopvars>>
    \/ accept_error /\ UNCHANGED <<uvstate, loopvars>>
    \/ \E c \in Conns : ThreadStep(c) /\ UNCHANGED <<uvstate, loopvars>>
    \/ epc # "ended" /\ TOutside /\ UNCHANGED <<uvstate, loopvars>>
    \/ \E c \in Conns : UvStep(c) \/ UvSpurious(c)
    \/ EpollStep
    \/ Keyboard

StSpec == StInit /\ [][StNext]_stvars

\* The thread of c waits in a write, or so do all write requests of libuv that
\* the bound allows.
WriteWaits(c) ==
    /\ MayBlock(c)
    /\ tpc[c] = "write" \/ reqs[c] = MaxWrites

\* What the operating system, or uv_run, does for c sooner or later.  A write to
\* a peer that does not read need not end, unless the peer resets the connection
\* or libuv cancels it.
DueStep(c) ==
    \/ /\ tpc[c] = "write" => ~MayBlock(c)
       /\ ThreadStep(c)
       /\ UNCHANGED <<uvstate, loopvars>>
    \/ /\ UvStep(c)
       /\ reqs'[c] < reqs[c] => handle[c] # "open" \/ ~MayBlock(c)

DueMainStep ==
    \/ MainStep /\ UNCHANGED <<uvstate, loopvars>>
    \/ ~EpMayBlock /\ EpollStep

\* The operating system runs every thread that can take a step, and uv_run
\* calls what is due for every handle.
StFairSpec ==
    /\ StSpec
    /\ WF_stvars(DueMainStep)
    /\ \A c \in Conns : WF_stvars(DueStep(c))

-----------------------------------------------------------------------------

\* Memory of the libuv server is owned, write requests included, through reads
\* that bring nothing, ends of connections and cancelled writes; and its open
\* descriptors are exactly those of the handles not yet given to uv_close.
UvInv ==
    /\ UvTypeOK
    /\ MemoryOwned
    /\ program = "libuv" =>
         {c \in Conns : conn[c] = "est"} = {c \in Conns : handle[c] = "open"}

\* The epoll server has registered exactly the connections that it has open,
\* and asks for enough events to see all of them, after any number of
\* connections accepted, refused and closed; with the types.
EpollInv == EpTypeOK /\ (program = "epoll" => AllRegistered)

\* A peer waits for the server: to be accepted, or to have its input or (where
\* the server looks for it) its end read.
Waiting(c) ==
    \/ conn[c] = "backlog"
    \/ conn[c] = "est" /\ chunk[c] # "none"
    \/ conn[c] = "est" /\ fin[c] # "open" /\ ~Blocking

Ended == ~running \/ epc = "ended"

\* All threads of a server are taken by others than c: those of 01 or 03 by
\* other connections, the one of epoll by a peer that does not read.
AllBusy(c) ==
    \/ /\ program \in {"basic", "pool"}
       /\ c \notin Serving
       /\ Cardinality(Serving) = Limit
    \/ EpMayBlock

\* A peer that waits is served, unless the process ends, all its threads stay
\* with other connections for ever, which a peer of 01 or 03 that has closed can
\* cause (the loop does not look for the end of file) and one of epoll that does
\* not read what it is sent, or the peer itself does not read.  What a connection
\* that has a thread sends is read, whatever the others do.
ServedUnlessBusy ==
    \A c \in Conns :
        [](Waiting(c) =>
             <>(~Waiting(c) \/ Ended \/ [](AllBusy(c) \/ WriteWaits(c))))
=============================================================================
