-------------------------- MODULE MCStreamServers --------------------------
EXTENDS StreamServers

CONSTANTS a, b, c

\* Two connections to each program; a third to the pool, whose two threads then
\* leave one in the queue, and to epoll, whose limit of events lets two in.
MCArrivals ==
    [p \in Programs |-> IF p \in {"pool", "epoll"} THEN <<a, b, c>> ELSE <<a, b>>]

\* Each program is sent lines that it tells apart; to the pool only quit, for a
\* thread echoes at the end of file, too, and a silent peer keeps it as well.
MCLinesTo == [p \in Programs |-> CASE p = "libuv" -> {"data"}
                                  [] p = "epoll" -> {"data", "quit"}
                                  [] p = "pool" -> {"quit"}
                                  [] OTHER -> Lines]
=============================================================================
