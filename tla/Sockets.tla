------------------------------ MODULE Sockets ------------------------------
(***************************************************************************)
(* What the echo servers of 20-net-sockets, 21-async and 22-ipc-uds see of *)
(* the outside world: connections that arrive at a listening socket, what  *)
(* the peers send on them, and a user who may press a key.  The servers'   *)
(* modules extend this one.                                                *)
(*                                                                         *)
(* A read returns what has arrived as one piece, and the servers look at   *)
(* its beginning only, so unread input is the line it begins with.  A      *)
(* connection is used once: Conns bounds how many are ever made.           *)
(***************************************************************************)
EXTENDS Integers, FiniteSets

CONSTANTS
    Conns,     \* connections
    Stalling,  \* those whose peer may stop to read, so that a write may block
    Lines      \* first lines of input that a server tells apart

ASSUME SocketsAssumption ==
    /\ IsFiniteSet(Conns)
    /\ Stalling \subseteq Conns
    /\ "none" \notin Lines

VARIABLES
    conn,    \* "idle", "backlog" (not yet accepted), "est" or "closed"
    chunk,   \* the unread input, "none" when there is none
    fin,     \* whether the peer is "open", has sent its "eof" or a "reset"
    typed    \* whether there is input on the server's terminal

netvars == <<conn, chunk, fin, typed>>

NetInit ==
    /\ conn = [c \in Conns |-> "idle"]
    /\ chunk = [c \in Conns |-> "none"]
    /\ fin = [c \in Conns |-> "open"]
    /\ typed = FALSE

\* A peer connects; the kernel completes the handshake before accept.
peer_connect(c) ==
    /\ conn[c] = "idle"
    /\ conn' = [conn EXCEPT ![c] = "backlog"]
    /\ UNCHANGED <<chunk, fin, typed>>

\* A peer sends a line; behind unread input it changes nothing a server sees.
peer_send(c, line) ==
    /\ conn[c] \in {"backlog", "est"}
    /\ fin[c] = "open"
    /\ chunk[c] = "none"
    /\ chunk' = [chunk EXCEPT ![c] = line]
    /\ UNCHANGED <<conn, fin, typed>>

peer_close(c) ==
    /\ conn[c] \in {"backlog", "est"}
    /\ fin[c] = "open"
    /\ fin' = [fin EXCEPT ![c] = "eof"]
    /\ UNCHANGED <<conn, chunk, typed>>

\* A reset discards what has not been read.
peer_reset(c) ==
    /\ conn[c] \in {"backlog", "est"}
    /\ fin[c] # "reset"
    /\ fin' = [fin EXCEPT ![c] = "reset"]
    /\ chunk' = [chunk EXCEPT ![c] = "none"]
    /\ UNCHANGED <<conn, typed>>

user_types ==
    /\ ~typed
    /\ typed' = TRUE
    /\ UNCHANGED <<conn, chunk, fin>>

PeerStep ==
    \E c \in Conns :
        \/ peer_connect(c)
        \/ \E line \in Lines : peer_send(c, line)
        \/ peer_close(c)
        \/ peer_reset(c)

\* Connections that accept can return.
Backlog == {c \in Conns : conn[c] = "backlog"}

\* The server accepts a connection.
Accept(c) == conn' = [conn EXCEPT ![c] = "est"] /\ UNCHANGED <<chunk, fin, typed>>

\* The server, or its end, closes connections: unread input is discarded, and
\* what the peer does no longer matters.
Close(S) ==
    /\ conn' = [c \in Conns |-> IF c \in S THEN "closed" ELSE conn[c]]
    /\ chunk' = [c \in Conns |-> IF c \in S THEN "none" ELSE chunk[c]]
    /\ fin' = [c \in Conns |-> IF c \in S THEN "open" ELSE fin[c]]
    /\ UNCHANGED typed

\* The end of the process closes everything.
CloseAll == Close({c \in Conns : conn[c] # "idle"})

\* A read on c returns without waiting.
Readable(c) == chunk[c] # "none" \/ fin[c] # "open"

\* A write on c waits for as long as the peer does not read; a reset ends it.
\* A write may always succeed, so this limits fairness and no action.
MayBlock(c) == c \in Stalling /\ fin[c] # "reset"

NetTypeOK ==
    /\ conn \in [Conns -> {"idle", "backlog", "est", "closed"}]
    /\ chunk \in [Conns -> Lines \cup {"none"}]
    /\ fin \in [Conns -> {"open", "eof", "reset"}]
    /\ typed \in BOOLEAN
=============================================================================
