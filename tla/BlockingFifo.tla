---------------------------- MODULE BlockingFifo ----------------------------
(***************************************************************************)
(* What a blocking first-in first-out channel promises its callers: calls  *)
(* of put and get take effect one at a time, in the order of a sequence,   *)
(* between their start and their return; put waits for room, get waits for *)
(* an item.  The monitor queue of queue.c and the shared-memory channel of *)
(* memchannel.c are shown to implement it.                                 *)
(***************************************************************************)
EXTENDS Integers, Sequences

CONSTANTS
    Callers,   \* threads and processes that use the channel
    Items,     \* what it carries
    Capacity   \* how many items it holds at most

VARIABLES
    fifo,  \* its contents, the oldest first
    call   \* the call each caller is in, and the item it gives or last got

avars == <<fifo, call>>

AInit ==
    /\ fifo = <<>>
    /\ call \in [Callers -> [op : {"idle"}, item : Items]]

BeginPut(c, x) ==
    /\ call[c].op = "idle"
    /\ call' = [call EXCEPT ![c] = [op |-> "put", item |-> x]]
    /\ UNCHANGED fifo

BeginGet(c) ==
    /\ call[c].op = "idle"
    /\ call' = [call EXCEPT ![c].op = "get"]
    /\ UNCHANGED fifo

Put(c) ==
    /\ call[c].op = "put"
    /\ Len(fifo) < Capacity
    /\ fifo' = Append(fifo, call[c].item)
    /\ call' = [call EXCEPT ![c].op = "idle"]

Get(c) ==
    /\ call[c].op = "get"
    /\ fifo # <<>>
    /\ fifo' = Tail(fifo)
    /\ call' = [call EXCEPT ![c] = [op |-> "idle", item |-> Head(fifo)]]

ANext ==
    \E c \in Callers :
        \/ \E x \in Items : BeginPut(c, x)
        \/ BeginGet(c)
        \/ Put(c)
        \/ Get(c)

ASpec == AInit /\ [][ANext]_avars

\* While there is room some pending put completes, and while there are items
\* some pending get does: nobody sleeps through a wake-up.
AFairSpec ==
    /\ ASpec
    /\ WF_avars(\E c \in Callers : Put(c))
    /\ WF_avars(\E c \in Callers : Get(c))
=============================================================================
