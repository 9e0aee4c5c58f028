------------------------------ MODULE UvServer ------------------------------
(***************************************************************************)
(* The echo server of 21-async/03-libuv/echo-server.c: callbacks run one   *)
(* at a time by the loop of libuv, which is external and modelled by the   *)
(* order of callbacks it promises: none for reading after uv_close, the    *)
(* callback of every write request (cancelled or not) before the one of    *)
(* the close.                                                              *)
(***************************************************************************)
EXTENDS Sockets

CONSTANTS
    MaxWrites,   \* bound: write requests under way on a connection
    MaxSpurious  \* bound: reads of a connection that bring nothing

ASSUME UvAssumption == MaxWrites \in Nat \ {0} /\ MaxSpurious \in Nat

VARIABLES
    handle,    \* the malloc'ed uv_tcp_t: "none", "open", "closing" or "freed"
    reqs,      \* write requests under way
    bufs,      \* buffers malloc'ed by alloc_buffer and not freed
    lost,      \* buffers among them that nothing points to any more
    spurious   \* reads that brought nothing so far

uvstate == <<handle, reqs, bufs, lost, spurious>>
uvvars == <<netvars, uvstate>>

UvInit ==
    /\ NetInit
    /\ handle = [c \in Conns |-> "none"]
    /\ reqs = [c \in Conns |-> 0]
    /\ bufs = [c \in Conns |-> 0]
    /\ lost = [c \in Conns |-> 0]
    /\ spurious = [c \in Conns |-> 0]

Add(f, c, d) == [f EXCEPT ![c] = @ + d]

\* A connection is accepted, and reading starts (prepare_client).
on_new_connection(c) ==
    /\ c \in Backlog
    /\ Accept(c)
    /\ handle' = [handle EXCEPT ![c] = "open"]
    /\ UNCHANGED <<reqs, bufs, lost, spurious>>

\* uv_accept fails: the new handle is closed.
on_new_connection_fail(c) ==
    /\ c \in Backlog
    /\ Close({c})
    /\ handle' = [handle EXCEPT ![c] = "closing"]
    /\ UNCHANGED <<reqs, bufs, lost, spurious>>

\* Data: the buffer of alloc_buffer goes into a write request.
on_read_data(c) ==
    /\ handle[c] = "open"
    /\ chunk[c] # "none"
    /\ reqs[c] < MaxWrites
    /\ chunk' = [chunk EXCEPT ![c] = "none"]
    /\ bufs' = Add(bufs, c, 1)
    /\ reqs' = Add(reqs, c, 1)
    /\ UNCHANGED <<conn, fin, typed, handle, lost, spurious>>

\* nread = 0, nothing to read after all: the buffer is not freed.
on_read_nothing(c) ==
    /\ handle[c] = "open"
    /\ spurious[c] < MaxSpurious
    /\ bufs' = Add(bufs, c, 1)
    /\ lost' = Add(lost, c, 1)
    /\ spurious' = Add(spurious, c, 1)
    /\ UNCHANGED <<netvars, handle, reqs>>

\* Mutant: the end of file is only reported.
on_read_end_Open(c) ==
    /\ handle[c] = "open"
    /\ chunk[c] = "none" /\ fin[c] # "open"
    /\ UNCHANGED uvvars

\* End of file or error: uv_close.  The buffer, if there is one, is not freed.
on_read_end(c) ==
    /\ handle[c] = "open"
    /\ chunk[c] = "none" /\ fin[c] # "open"
    /\ bufs' = Add(bufs, c, 1)
    /\ lost' = Add(lost, c, 1)
    /\ Close({c})
    /\ handle' = [handle EXCEPT ![c] = "closing"]
    /\ UNCHANGED <<reqs, spurious>>

\* Mutant: the request is freed but not its buffer.
after_write_KeepsBuffer(c) ==
    /\ reqs[c] > 0
    /\ reqs' = Add(reqs, c, -1)
    /\ UNCHANGED <<netvars, handle, bufs, lost, spurious>>

\* A write is done, has failed or was cancelled: free_write_req.
after_write(c) ==
    /\ reqs[c] > 0
    /\ reqs' = Add(reqs, c, -1)
    /\ bufs' = Add(bufs, c, -1)
    /\ UNCHANGED <<netvars, handle, lost, spurious>>

\* The last callback of a handle frees it.
on_close(c) ==
    /\ handle[c] = "closing"
    /\ reqs[c] = 0
    /\ handle' = [handle EXCEPT ![c] = "freed"]
    /\ UNCHANGED <<netvars, reqs, bufs, lost, spurious>>

Callback(c) ==
    \/ on_new_connection(c) \/ on_new_connection_fail(c)
    \/ on_read_data(c) \/ on_read_end(c)
    \/ after_write(c) \/ on_close(c)

-----------------------------------------------------------------------------

UvTypeOK ==
    /\ NetTypeOK
    /\ handle \in [Conns -> {"none", "open", "closing", "freed"}]
    /\ reqs \in [Conns -> 0..MaxWrites]
    /\ {bufs, lost} \subseteq [Conns -> Nat]
    /\ spurious \in [Conns -> 0..MaxSpurious]

\* Memory: every buffer belongs to one write request or is lost; a buffer is
\* lost only by a read that brought nothing and by the one that ended the
\* connection; a handle is alive while write requests refer to it.
MemoryOwned ==
    \A c \in Conns :
        /\ bufs[c] = reqs[c] + lost[c]
        /\ lost[c] <= spurious[c] + (IF handle[c] \in {"closing", "freed"} THEN 1 ELSE 0)
        /\ handle[c] \in {"none", "freed"} => reqs[c] = 0

\* The handle of a connection that its peer ends is freed in the end, however
\* many writes are under way, and whether or not the peer takes them.  (Input of
\* a stalling peer before its end waits, here, for the bound on the writes.)
EndedFreed ==
    \A c \in Conns :
        (/\ handle[c] = "open" /\ fin[c] # "open"
         /\ c \in Stalling => chunk[c] = "none") ~> handle[c] = "freed"
=============================================================================
