------------------------------ MODULE UdsEcho ------------------------------
(***************************************************************************)
(* The echo server and client of 22-ipc-uds over a Unix-domain socket: the *)
(* server creates a detached thread for each connection, and a client      *)
(* sends a line, terminated by a zero, and waits for its echo.             *)
(*                                                                         *)
(* Lines are shorter than the buffers and a connection carries one at a    *)
(* time, so each direction holds at most one line.  Clients may be killed. *)
(***************************************************************************)
EXTENDS Integers, FiniteSets

CONSTANTS
    UClients,  \* client processes
    ULines,    \* what their users type, "quit" and "stop" among it
    Garbage    \* what a client prints after a failed read

ASSUME UdsAssumption ==
    /\ IsFiniteSet(UClients)
    /\ {"none", Garbage} \cap ULines = {}

VARIABLES
    path,   \* the socket file: "absent", "stale" or "bound"
    upc,    \* where the server's main is
    side,   \* the server's end: "none", "backlog", "open" or "closed"
    tpc,    \* where the server's thread for a client is
    tbuf,   \* the line in its buffer
    up,     \* the line under way to the server
    down,   \* the line under way to the client
    rst,    \* the server's end was closed with input unread
    cpc,    \* where the client is
    sent,   \* the line a client sent last
    got     \* the line a client received last

netvars == <<side, up, down, rst>>
uvars == <<path, upc, netvars, tpc, tbuf, cpc, sent, got>>

\* A server that was stopped leaves its socket file behind.
UInit ==
    /\ path \in {"absent", "stale"}
    /\ upc = "unlink"
    /\ side = [c \in UClients |-> "none"]
    /\ tpc = [c \in UClients |-> "none"]
    /\ tbuf = [c \in UClients |-> "none"]
    /\ up = [c \in UClients |-> "none"]
    /\ down = [c \in UClients |-> "none"]
    /\ rst = [c \in UClients |-> FALSE]
    /\ cpc = [c \in UClients |-> "connect"]
    /\ sent = [c \in UClients |-> "none"]
    /\ got = [c \in UClients |-> "none"]

-----------------------------------------------------------------------------
(***************************************************************************)
(* The server's main                                                       *)
(***************************************************************************)

\* unlink, "just in case"
server_unlink ==
    /\ upc = "unlink"
    /\ path' = "absent"
    /\ upc' = "bind"
    /\ UNCHANGED <<netvars, tpc, tbuf, cpc, sent, got>>

\* bind creates the file, or fails when it exists.
server_bind ==
    /\ upc = "bind"
    /\ IF path = "absent" THEN path' = "bound" /\ upc' = "listen"
                          ELSE upc' = "failed" /\ UNCHANGED path
    /\ UNCHANGED <<netvars, tpc, tbuf, cpc, sent, got>>

server_listen ==
    /\ upc = "listen"
    /\ upc' = "accept"
    /\ UNCHANGED <<path, netvars, tpc, tbuf, cpc, sent, got>>

\* accept, pthread_create and pthread_detach
server_accept(c) ==
    /\ upc = "accept"
    /\ side[c] = "backlog"
    /\ side' = [side EXCEPT ![c] = "open"]
    /\ tpc' = [tpc EXCEPT ![c] = "read"]
    /\ UNCHANGED <<path, upc, up, down, rst, tbuf, cpc, sent, got>>

-----------------------------------------------------------------------------
(***************************************************************************)
(* process_connection                                                      *)
(***************************************************************************)

thread_read(c) ==
    /\ tpc[c] = "read"
    /\ up[c] \notin {"none", "quit"}
    /\ tbuf' = [tbuf EXCEPT ![c] = up[c]]
    /\ up' = [up EXCEPT ![c] = "none"]
    /\ tpc' = [tpc EXCEPT ![c] = "write"]
    /\ UNCHANGED <<path, upc, side, down, rst, cpc, sent, got>>

CloseSide(c) ==
    /\ side' = [side EXCEPT ![c] = "closed"]
    /\ up' = [up EXCEPT ![c] = "none"]
    /\ tpc' = [tpc EXCEPT ![c] = "none"]
    /\ UNCHANGED <<path, upc, down, rst, tbuf, cpc, sent, got>>

\* Mutant: the thread ends without a close.
thread_quit_Open(c) ==
    /\ tpc[c] = "read"
    /\ up[c] = "quit"
    /\ up' = [up EXCEPT ![c] = "none"]
    /\ tpc' = [tpc EXCEPT ![c] = "none"]
    /\ UNCHANGED <<path, upc, side, down, rst, tbuf, cpc, sent, got>>

\* quit is not echoed: the connection is closed and the thread ends.
thread_quit(c) ==
    /\ tpc[c] = "read"
    /\ up[c] = "quit"
    /\ CloseSide(c)

\* Mutant: the test for the end of file is missing, and the loop goes on.
thread_eof_Ignored(c) ==
    /\ tpc[c] = "read"
    /\ up[c] = "none" /\ cpc[c] = "ended" /\ down[c] = "none"
    /\ UNCHANGED uvars

\* At the end of file read returns 0: the connection is closed.
thread_eof(c) ==
    /\ tpc[c] = "read"
    /\ up[c] = "none" /\ cpc[c] = "ended" /\ down[c] = "none"
    /\ CloseSide(c)

\* A client that ended with an unread echo resets the connection: read fails,
\* and terror ends the thread without closing the descriptor.
thread_terror(c) ==
    /\ tpc[c] = "read"
    /\ up[c] = "none" /\ cpc[c] = "ended" /\ down[c] # "none"
    /\ tpc' = [tpc EXCEPT ![c] = "leaked"]
    /\ UNCHANGED <<path, upc, netvars, tbuf, cpc, sent, got>>

\* The echo.
thread_write(c) ==
    /\ tpc[c] = "write"
    /\ cpc[c] # "ended"
    /\ tbuf[c] # "stop"
    /\ down' = [down EXCEPT ![c] = tbuf[c]]
    /\ tbuf' = [tbuf EXCEPT ![c] = "none"]
    /\ tpc' = [tpc EXCEPT ![c] = "read"]
    /\ UNCHANGED <<path, upc, side, up, rst, cpc, sent, got>>

\* The process ends: every connection is closed, and reset when it was not
\* accepted or had input unread.  What becomes of the socket file depends.
EndServer(file) ==
    /\ upc' = "ended"
    /\ side' = [c \in UClients |-> IF side[c] = "none" THEN "none" ELSE "closed"]
    /\ rst' = [c \in UClients |-> rst[c] \/ side[c] = "backlog" \/ up[c] # "none"]
    /\ up' = [c \in UClients |-> "none"]
    /\ tpc' = [c \in UClients |-> "none"]
    /\ tbuf' = [c \in UClients |-> "none"]
    /\ path' = file
    /\ UNCHANGED <<cpc, sent, got>>

\* stop is echoed, and the thread calls exit; the socket file stays.
thread_stop(c) ==
    /\ tpc[c] = "write"
    /\ cpc[c] # "ended"
    /\ tbuf[c] = "stop"
    /\ down' = [down EXCEPT ![c] = "stop"]
    /\ EndServer("stale")

\* A write to a client that is gone: SIGPIPE ends the whole process.
thread_sigpipe(c) ==
    /\ tpc[c] = "write"
    /\ cpc[c] = "ended"
    /\ UNCHANGED down
    /\ EndServer("stale")

\* listen or accept fails: main removes the file and exits.
server_error ==
    /\ upc \in {"listen", "accept"}
    /\ UNCHANGED down
    /\ EndServer("absent")

-----------------------------------------------------------------------------
(***************************************************************************)
(* The client                                                              *)
(***************************************************************************)

\* connect succeeds while the server listens, before it accepts.
client_connect(c) ==
    /\ cpc[c] = "connect"
    /\ IF upc = "accept"
       THEN side' = [side EXCEPT ![c] = "backlog"] /\ cpc' = [cpc EXCEPT ![c] = "input"]
       ELSE cpc' = [cpc EXCEPT ![c] = "ended"] /\ UNCHANGED side
    /\ UNCHANGED <<path, upc, up, down, rst, tpc, tbuf, sent, got>>

\* Mutant: the client does not wait for the echo.
client_send_NoWait(c, line) ==
    /\ cpc[c] = "input"
    /\ side[c] # "closed"
    /\ up' = [up EXCEPT ![c] = line]
    /\ sent' = [sent EXCEPT ![c] = line]
    /\ UNCHANGED <<path, upc, side, down, rst, tpc, tbuf, cpc, got>>

\* A line is read from the terminal and written to the socket.
client_send(c, line) ==
    /\ cpc[c] = "input"
    /\ side[c] # "closed"
    /\ up' = [up EXCEPT ![c] = line]
    /\ sent' = [sent EXCEPT ![c] = line]
    /\ cpc' = [cpc EXCEPT ![c] = "read"]
    /\ UNCHANGED <<path, upc, side, down, rst, tpc, tbuf, got>>

\* The end of the terminal's input, a write to a server that is gone, or a kill.
client_end(c) ==
    /\ cpc[c] \in {"input", "read"}
    /\ cpc' = [cpc EXCEPT ![c] = "ended"]
    /\ UNCHANGED <<path, upc, netvars, tpc, tbuf, sent, got>>

client_read(c) ==
    /\ cpc[c] = "read"
    /\ down[c] # "none"
    /\ got' = [got EXCEPT ![c] = down[c]]
    /\ down' = [down EXCEPT ![c] = "none"]
    /\ cpc' = [cpc EXCEPT ![c] = "input"]
    /\ UNCHANGED <<path, upc, side, up, rst, tpc, tbuf, sent>>

\* read returns 0 when the server has closed: the client ends.
client_read_eof(c) ==
    /\ cpc[c] = "read"
    /\ down[c] = "none" /\ side[c] = "closed" /\ ~rst[c]
    /\ cpc' = [cpc EXCEPT ![c] = "ended"]
    /\ UNCHANGED <<path, upc, netvars, tpc, tbuf, sent, got>>

\* read fails.  dlen is unsigned, so the test for a negative length never
\* holds: the client goes on with what its buffer holds (or is ended).
client_read_error(c) ==
    /\ cpc[c] = "read"
    /\ down[c] = "none" /\ side[c] = "closed" /\ rst[c]
    /\ got' = [got EXCEPT ![c] = Garbage]
    /\ rst' = [rst EXCEPT ![c] = FALSE]
    /\ cpc' = [cpc EXCEPT ![c] = "input"]
    /\ UNCHANGED <<path, upc, side, up, down, tpc, tbuf, sent>>

-----------------------------------------------------------------------------

ServerMain ==
    \/ server_unlink \/ server_bind \/ server_listen
    \/ \E c \in UClients : server_accept(c)

ServerThread(c) ==
    \/ thread_read(c) \/ thread_quit(c) \/ thread_eof(c) \/ thread_terror(c)
    \/ thread_write(c) \/ thread_stop(c) \/ thread_sigpipe(c)

Receive(c) == client_read(c) \/ client_read_eof(c) \/ client_read_error(c)

UNext ==
    \/ ServerMain \/ server_error
    \/ \E c \in UClients :
         \/ ServerThread(c)
         \/ client_connect(c) \/ Receive(c) \/ client_end(c)
         \/ \E line \in ULines : client_send(c, line)

USpec == UInit /\ [][UNext]_uvars

\* The operating system runs every thread and process that can take a step;
\* nothing is assumed of the users.
UFairSpec ==
    /\ USpec
    /\ WF_uvars(ServerMain)
    /\ \A c \in UClients : WF_uvars(ServerThread(c)) /\ WF_uvars(Receive(c))

-----------------------------------------------------------------------------

UTypeOK ==
    /\ path \in {"absent", "stale", "bound"}
    /\ upc \in {"unlink", "bind", "listen", "accept", "ended", "failed"}
    /\ side \in [UClients -> {"none", "backlog", "open", "closed"}]
    /\ tpc \in [UClients -> {"none", "read", "write", "leaked"}]
    /\ {tbuf, up, down} \subseteq [UClients -> ULines \cup {"none"}]
    /\ rst \in [UClients -> BOOLEAN]
    /\ cpc \in [UClients -> {"connect", "input", "read", "ended"}]
    /\ sent \in [UClients -> ULines \cup {"none"}]
    /\ got \in [UClients -> ULines \cup {"none", Garbage}]

\* Request and echo alternate: of the line under way to the server, the one in
\* its thread and the one under way back there is at most one, it is the line
\* the client sent last, and there is none while the client reads its terminal.
Alternation ==
    \A c \in UClients :
        LET line == <<up[c], tbuf[c], down[c]>>
            places == {k \in 1..3 : line[k] # "none"}
        IN /\ Cardinality(places) <= 1
           /\ \A k \in places : line[k] = sent[c] /\ cpc[c] \in {"read", "ended"}

\* A server starts whether or not an earlier one left its socket file.
Restarts == upc # "failed"

\* A client shows the echo of the line it sent last, unless the server ended.
EchoMatches ==
    \A c \in UClients : cpc[c] = "input" => got[c] = sent[c] \/ upc = "ended"

\* The invariant of the service, with its types: echoes that belong to what was
\* sent, with users, kills and restarts at any time.
UdsInv == UTypeOK /\ Alternation /\ EchoMatches /\ Restarts

\* When a client ends, its connection is closed by the server's thread, unless
\* the server ends or the client left an echo unread.
ConnectionFreed ==
    \A c \in UClients :
        (cpc[c] = "ended" /\ side[c] \in {"backlog", "open"})
          ~> (side[c] = "closed" \/ tpc[c] = "leaked")

\* A client that waits for an echo gets it, or learns of the end.
ClientAnswered == \A c \in UClients : cpc[c] = "read" ~> cpc[c] # "read"
=============================================================================
