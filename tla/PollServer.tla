----------------------------- MODULE PollServer -----------------------------
(***************************************************************************)
(* The single-threaded echo server of 21-async/01-poll/echo-server.c: an   *)
(* array of descriptors given to poll, in which slot 0 is the terminal,    *)
(* slot 1 the listening socket and the others clients.  A client that      *)
(* leaves is replaced by the last one.  The fields revents of the array    *)
(* are written by poll only, for the slots in use at the time; the slot of *)
(* a connection accepted later holds what an earlier user left there, or   *)
(* at first whatever was on the stack.                                     *)
(***************************************************************************)
EXTENDS Sockets

CONSTANTS
    MaxClients,  \* MAX_CLIENTS, the length of the array
    NoConn       \* no descriptor

ASSUME PollAssumption ==
    /\ MaxClients \in Nat /\ MaxClients > 2
    /\ NoConn \notin Conns

VARIABLES
    cfd, crev,   \* fields fd and revents of the slots 2, 3, ...
    nclients,    \* slots in use
    nready,      \* ready descriptors still to be served
    idx,         \* the loop variable i
    got,         \* the line in buf while it is served
    ppc,         \* where the loop is
    reported,    \* history: clients reported by poll and not served since
    fresh,       \* history: the connection accepted since the last poll
    taken        \* history: whether it was read since then

slotvars == <<cfd, crev, nclients>>
pvars == <<netvars, slotvars, nready, idx, got, ppc, reported, fresh, taken>>

Slots == 2..(MaxClients - 1)
InUse == 2..(nclients - 1)

PInit ==
    /\ NetInit
    /\ cfd = [i \in Slots |-> NoConn]
    /\ crev \in [Slots -> BOOLEAN]
    /\ nclients = 2
    /\ nready = 0
    /\ idx = 2
    /\ got = "none"
    /\ ppc = "poll"
    /\ reported = {}
    /\ fresh = NoConn
    /\ taken = FALSE

\* poll returns when something is ready and fills in revents; terminal input
\* comes first, then the listening socket.
poll ==
    /\ ppc = "poll"
    /\ LET ready == {i \in InUse : Readable(cfd[i])}
           others == (IF typed THEN 1 ELSE 0) + (IF Backlog # {} THEN 1 ELSE 0)
       IN /\ nready' = Cardinality(ready) + others
          /\ nready' > 0
          /\ crev' = [i \in Slots |-> IF i \in InUse THEN i \in ready ELSE crev[i]]
          /\ reported' = {cfd[i] : i \in ready}
    /\ ppc' = IF typed THEN "exit" ELSE IF Backlog # {} THEN "accept" ELSE "scan"
    /\ fresh' = NoConn
    /\ taken' = FALSE
    /\ UNCHANGED <<netvars, cfd, nclients, idx, got>>

\* Mutant: continue whether or not other descriptors are ready.
AfterAccept_NoTest == "poll"

\* With nothing else ready the loop over the clients is not entered.
AfterAccept == IF nready = 1 THEN "poll" ELSE "scan"

\* Mutant: the slot is filled but not counted.
accept_NotCounted(c) ==
    /\ ppc = "accept"
    /\ c \in Backlog
    /\ nclients < MaxClients
    /\ Accept(c)
    /\ cfd' = [cfd EXCEPT ![nclients] = c]
    /\ fresh' = c
    /\ nready' = nready - 1
    /\ ppc' = AfterAccept
    /\ UNCHANGED <<crev, nclients, idx, got, reported, taken>>

\* A new connection takes the next slot; its revents is not set.
accept(c) ==
    /\ ppc = "accept"
    /\ c \in Backlog
    /\ nclients < MaxClients
    /\ Accept(c)
    /\ cfd' = [cfd EXCEPT ![nclients] = c]
    /\ nclients' = nclients + 1
    /\ fresh' = c
    /\ nready' = nready - 1
    /\ ppc' = AfterAccept
    /\ UNCHANGED <<crev, idx, got, reported, taken>>

\* Mutant: a connection without a slot is left open.
accept_refuse_Open(c) ==
    /\ ppc = "accept"
    /\ c \in Backlog
    /\ nclients = MaxClients
    /\ Accept(c)
    /\ nready' = nready - 1
    /\ ppc' = AfterAccept
    /\ UNCHANGED <<slotvars, idx, got, reported, fresh, taken>>

\* The array is full: the connection is closed.
accept_refuse(c) ==
    /\ ppc = "accept"
    /\ c \in Backlog
    /\ nclients = MaxClients
    /\ Close({c})
    /\ nready' = nready - 1
    /\ ppc' = AfterAccept
    /\ UNCHANGED <<slotvars, idx, got, reported, fresh, taken>>

\* accept fails: the process exits.
accept_fails ==
    /\ ppc = "accept"
    /\ CloseAll
    /\ ppc' = "ended"
    /\ UNCHANGED <<slotvars, nready, idx, got, reported, fresh, taken>>

\* Another iteration of the loop over the clients.
Scanning == ppc = "scan" /\ nready > 0 /\ idx < nclients

scan_skip ==
    /\ Scanning
    /\ ~crev[idx]
    /\ idx' = idx + 1
    /\ UNCHANGED <<netvars, slotvars, nready, got, ppc, reported, fresh, taken>>

\* read on a client with events, which waits while there is nothing to read.
\* At the end of file it returns 0 and the connection is closed next.
scan_read ==
    /\ Scanning
    /\ crev[idx]
    /\ Readable(cfd[idx])
    /\ fin[cfd[idx]] # "reset"
    /\ LET c == cfd[idx]
       IN /\ got' = chunk[c]
          /\ chunk' = [chunk EXCEPT ![c] = "none"]
          /\ reported' = reported \ {c}
          /\ taken' = (taken \/ c = fresh)
          /\ ppc' = IF chunk[c] = "none" THEN "close" ELSE "write"
    /\ UNCHANGED <<conn, fin, typed, slotvars, nready, idx, fresh>>

\* read or write fails on a connection that was reset: the process exits.
scan_error ==
    /\ (Scanning /\ crev[idx]) \/ ppc = "write"
    /\ fin[cfd[idx]] = "reset"
    /\ CloseAll
    /\ ppc' = "ended"
    /\ UNCHANGED <<slotvars, nready, idx, got, reported, fresh, taken>>

\* The echo; after quit the connection is closed.
scan_write ==
    /\ ppc = "write"
    /\ fin[cfd[idx]] # "reset"
    /\ IF got = "quit"
       THEN ppc' = "close" /\ UNCHANGED <<nready, idx>>
       ELSE ppc' = "scan" /\ nready' = nready - 1 /\ idx' = idx + 1
    /\ got' = "none"
    /\ UNCHANGED <<netvars, slotvars, reported, fresh, taken>>

\* Mutant: the last client is not moved into the slot.
scan_close_NoSwap ==
    /\ ppc = "close"
    /\ Close({cfd[idx]})
    /\ nclients' = nclients - 1
    /\ nready' = nready - 1
    /\ ppc' = "scan"
    /\ UNCHANGED <<cfd, crev, idx, got, reported, fresh, taken>>

\* close, and the last slot is copied into the free one, revents included; the
\* loop then looks at this slot again.
scan_close ==
    /\ ppc = "close"
    /\ Close({cfd[idx]})
    /\ nclients' = nclients - 1
    /\ cfd' = [cfd EXCEPT ![idx] = cfd[nclients - 1]]
    /\ crev' = [crev EXCEPT ![idx] = crev[nclients - 1]]
    /\ nready' = nready - 1
    /\ ppc' = "scan"
    /\ UNCHANGED <<idx, got, reported, fresh, taken>>

scan_end ==
    /\ ppc = "scan"
    /\ ~Scanning
    /\ ppc' = "poll"
    /\ idx' = 2
    /\ UNCHANGED <<netvars, slotvars, nready, got, reported, fresh, taken>>

\* Input on the terminal: the descriptors in the array are closed, and the
\* listening socket with the connections that it holds.
exit ==
    /\ ppc = "exit"
    /\ Close({cfd[i] : i \in InUse} \cup Backlog)
    /\ ppc' = "ended"
    /\ UNCHANGED <<slotvars, nready, idx, got, reported, fresh, taken>>

ServerStep ==
    \/ poll
    \/ \E c \in Conns : accept(c) \/ accept_refuse(c)
    \/ accept_fails
    \/ scan_skip \/ scan_read \/ scan_error \/ scan_write \/ scan_close \/ scan_end
    \/ exit

Outside ==
    /\ ppc # "ended"
    /\ PeerStep \/ user_types
    /\ UNCHANGED <<slotvars, nready, idx, got, ppc, reported, fresh, taken>>

PNext == ServerStep \/ Outside

PSpec == PInit /\ [][PNext]_pvars

\* The server is inside a write that may wait for its peer.
WriteMayBlock == ppc = "write" /\ MayBlock(cfd[idx])

\* The operating system runs the server; nothing is assumed of the peers, not
\* even that they read what they are sent.
PFairSpec == PSpec /\ WF_pvars(~WriteMayBlock /\ ServerStep)

-----------------------------------------------------------------------------

PTypeOK ==
    /\ NetTypeOK
    /\ cfd \in [Slots -> Conns \cup {NoConn}]
    /\ crev \in [Slots -> BOOLEAN]
    /\ nclients \in 2..MaxClients
    /\ nready \in 0..(MaxClients + 1)
    /\ idx \in 2..MaxClients
    /\ got \in Lines \cup {"none"}
    /\ ppc \in {"poll", "accept", "scan", "write", "close", "exit", "ended"}
    /\ reported \subseteq Conns
    /\ fresh \in Conns \cup {NoConn}
    /\ taken \in BOOLEAN

\* While the server runs, the open connections are exactly the ones in the
\* slots in use, each in one slot: replacing a client that leaves by the last
\* one neither loses a descriptor nor keeps a closed one.
TableExact ==
    ppc # "ended" =>
      /\ {cfd[i] : i \in InUse} = {c \in Conns : conn[c] = "est"}
      /\ \A i, j \in InUse : cfd[i] = cfd[j] => i = j

\* The invariant of the table of descriptors: types and exact contents.
TableInv == PTypeOK /\ TableExact

\* The server is inside a read that does not return.
StuckInRead == Scanning /\ crev[idx] /\ ~Readable(cfd[idx])

\* The loop reads only from clients with something to read, except that the
\* connection accepted in this round, whose revents was not set by poll, may
\* be read when a client that leaves makes it change slots.
WaitsForNewOnly == StuckInRead => cfd[idx] = fresh

\* Every client that poll reported is served before the next poll, in a round
\* that accepts a connection as well; but for one client at most, when that
\* connection, which poll did not report, was read in its place.
RoundServesAll == ppc = "poll" => Cardinality(reported) <= IF taken THEN 1 ELSE 0

\* Input on an accepted connection is read, unless the server ends, or waits for
\* ever for a connection that it accepted and that says nothing, or for a client
\* to read its echo.
InputIsRead ==
    \A c \in Conns :
        [](conn[c] = "est" /\ Readable(c) =>
             <>(~Readable(c) \/ conn[c] = "closed" \/ ppc = "ended"
                \/ [](StuckInRead \/ WriteMayBlock)))
=============================================================================
