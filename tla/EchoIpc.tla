------------------------------ MODULE EchoIpc ------------------------------
(***************************************************************************)
(* The echo service of 19-ipc: named shared-memory objects (shmem.c), the  *)
(* life of the channels laid out in them (mc_create, mc_open, mc_close and *)
(* mc_destroy of memchannel.c), and the server, client and terminator      *)
(* processes that exchange messages through them.                          *)
(*                                                                         *)
(* A process creates at most one object, so an object is named by its      *)
(* creator.  mc_put and mc_get are the Put and Get of BlockingFifo, which  *)
(* MemChannel is shown to implement.                                       *)
(***************************************************************************)
EXTENDS Integers, Sequences, FiniteSets

CONSTANTS
    Servers, Clients, Terms,  \* processes, each run of a program one of them
    Texts,                    \* what users type and the server echoes
    NoText,                   \* the empty string
    ServiceId,                \* ECHO_SERVICE_SERVER_ID
    Nobody,                   \* no object, and the sender 0 of the stop message
    SrvCap,                   \* capacity of the server's channel
    Failing                   \* processes whose ftruncate and mmap may fail

ASSUME EchoAssumption ==
    /\ SrvCap \in Nat \ {0}
    /\ Failing \subseteq Servers \cup Clients \cup Terms
    /\ Servers \cap Clients = {} /\ Terms \cap (Servers \cup Clients) = {}
    /\ Nobody \notin Servers \cup Clients \cup Terms
    /\ ServiceId \notin Clients
    /\ NoText \notin Texts

VARIABLES
    names,   \* the name space of shm_open: the object bound to each name
    stage,   \* "none", "empty" (size 0), "zeroed", "ready" or "destroyed"
    buf,     \* the messages in the channel of each object
    epc,     \* where each process is
    fd,      \* the object a process has open in shmem_open, or mapped through it
    smsg,    \* a client's request, the message a server works on
    rmsg     \* the last reply a client got

evars == <<names, stage, buf, epc, fd, smsg, rmsg>>

Creators == Servers \cup Clients
Processes == Creators \cup Terms
Message == [sender : Processes \cup {Nobody}, msg : Texts \cup {NoText}]
StopMsg == [sender |-> Nobody, msg |-> NoText]
BlankMsg == StopMsg

\* resp_ch_name and ECHO_SERVICE_SERVER_ID: a client's channel carries its pid.
NameOf(p) == IF p \in Servers THEN ServiceId ELSE p

Capacity(o) == IF o \in Servers THEN SrvCap ELSE 1

EInit ==
    /\ names = [n \in Clients \cup {ServiceId} |-> Nobody]
    /\ stage = [o \in Creators |-> "none"]
    /\ buf = [o \in Creators |-> <<>>]
    /\ epc = [p \in Processes |-> IF p \in Terms THEN "connect" ELSE "start"]
    /\ fd = [p \in Processes |-> Nobody]
    /\ smsg = [p \in Processes |-> BlankMsg]
    /\ rmsg = [p \in Processes |-> BlankMsg]

egoto(p, label) == epc' = [epc EXCEPT ![p] = label]

Unlink(p) == names' = [names EXCEPT ![NameOf(p)] = Nobody]

-----------------------------------------------------------------------------
(***************************************************************************)
(* shmem_create and mc_create                                              *)
(***************************************************************************)

\* Mutant: without O_EXCL an existing object is opened and truncated again.
shmem_create_NotExclusive(p) ==
    /\ epc[p] = "start"
    /\ names' = [names EXCEPT ![NameOf(p)] = p]
    /\ stage' = [stage EXCEPT ![p] = "empty"]
    /\ egoto(p, "truncate")
    /\ UNCHANGED <<buf, fd, smsg, rmsg>>

\* shm_open(O_CREAT | O_EXCL): the name must be free.
shmem_create(p) ==
    /\ epc[p] = "start"
    /\ names[NameOf(p)] = Nobody
    /\ names' = [names EXCEPT ![NameOf(p)] = p]
    /\ stage' = [stage EXCEPT ![p] = "empty"]
    /\ egoto(p, "truncate")
    /\ UNCHANGED <<buf, fd, smsg, rmsg>>

\* The name exists: mc_create returns NULL and main exits.
shmem_create_exists(p) ==
    /\ epc[p] = "start"
    /\ names[NameOf(p)] # Nobody
    /\ egoto(p, "ended")
    /\ UNCHANGED <<names, stage, buf, fd, smsg, rmsg>>

\* ftruncate gives the object its size, and zeros.
shmem_create_truncate(p) ==
    /\ epc[p] = "truncate"
    /\ stage' = [stage EXCEPT ![p] = "zeroed"]
    /\ egoto(p, "map")
    /\ UNCHANGED <<names, buf, fd, smsg, rmsg>>

\* ftruncate or mmap fails: the name is unlinked again and main exits.  The
\* object stays as it is for a process that opened it before.
shmem_create_fail(p) ==
    /\ p \in Failing
    /\ epc[p] \in {"truncate", "map"}
    /\ Unlink(p)
    /\ egoto(p, "ended")
    /\ UNCHANGED <<stage, buf, fd, smsg, rmsg>>

shmem_create_map(p) ==
    /\ epc[p] = "map"
    /\ egoto(p, "init")
    /\ UNCHANGED <<names, stage, buf, fd, smsg, rmsg>>

\* mc_create fills in the header.  Other processes see it all at once, through
\* the value of has_space, which is set last and is zero until then.  sem_init
\* on a semaphore with waiters is undefined: a process that already waits may
\* be woken, or sleep for ever.
mc_create(p) ==
    /\ epc[p] = "init"
    /\ stage' = [stage EXCEPT ![p] = "ready"]
    /\ \E lost \in SUBSET {q \in Processes : epc[q] = "put" /\ fd[q] = p} :
         epc' = [q \in Processes |->
                   IF q = p THEN IF p \in Servers THEN "get" ELSE "connect"
                   ELSE IF q \in lost THEN "lost" ELSE epc[q]]
    /\ UNCHANGED <<names, buf, fd, smsg, rmsg>>

-----------------------------------------------------------------------------
(***************************************************************************)
(* shmem_open, shmem_close and their callers mc_open and mc_close          *)
(***************************************************************************)

\* What a caller of mc_open opens: the server the response channel of the
\* sender, the others the server's channel.
Wanted(p) ==
    IF p \notin Servers THEN names[ServiceId]
    ELSE IF smsg[p].sender \in Clients THEN names[smsg[p].sender] ELSE Nobody

\* Where the caller goes when mc_open returns NULL: the server drops the
\* request, a client destroys its channel and exits, the terminator exits.
OpenFailed(p) ==
    IF p \in Servers THEN "get" ELSE IF p \in Clients THEN "destroy" ELSE "ended"

\* Where it goes with the channel mapped: the server replies, a client reads a
\* line, the terminator sends the stop message.
OpenDone(p) == IF p \in Clients THEN "input" ELSE "put"

shmem_open(p) ==
    /\ epc[p] = "connect"
    /\ Wanted(p) # Nobody
    /\ fd' = [fd EXCEPT ![p] = Wanted(p)]
    /\ egoto(p, "fstat")
    /\ UNCHANGED <<names, stage, buf, smsg, rmsg>>

shmem_open_missing(p) ==
    /\ epc[p] = "connect"
    /\ Wanted(p) = Nobody
    /\ egoto(p, OpenFailed(p))
    /\ UNCHANGED <<names, stage, buf, fd, smsg, rmsg>>

\* fstat and mmap.  The size is that of the object behind the descriptor, even
\* when its name is gone.  The server then signs the message with its own pid.
shmem_open_map(p) ==
    /\ epc[p] = "fstat"
    /\ stage[fd[p]] # "empty"
    /\ smsg' = IF p \in Servers THEN [smsg EXCEPT ![p].sender = p] ELSE smsg
    /\ egoto(p, OpenDone(p))
    /\ UNCHANGED <<names, stage, buf, fd, rmsg>>

\* Before ftruncate the size is 0, and mmap refuses to map nothing; it may
\* also fail for want of memory.
shmem_open_fail(p) ==
    /\ epc[p] = "fstat"
    /\ stage[fd[p]] = "empty" \/ p \in Failing
    /\ fd' = [fd EXCEPT ![p] = Nobody]
    /\ egoto(p, OpenFailed(p))
    /\ UNCHANGED <<names, stage, buf, smsg, rmsg>>

\* mc_close after the server's reply, at the end of a client, or of a terminator.
mc_close(p) ==
    /\ epc[p] = "close"
    /\ fd' = [fd EXCEPT ![p] = Nobody]
    /\ egoto(p, OpenFailed(p))
    /\ UNCHANGED <<names, stage, buf, smsg, rmsg>>

-----------------------------------------------------------------------------
(***************************************************************************)
(* mc_destroy and shmem_destroy                                            *)
(***************************************************************************)

\* Semaphores and mutex are destroyed and the object unmapped ...
mc_destroy(p) ==
    /\ epc[p] = "destroy"
    /\ stage' = [stage EXCEPT ![p] = "destroyed"]
    /\ egoto(p, "unlink")
    /\ UNCHANGED <<names, buf, fd, smsg, rmsg>>

\* ... and then the name is removed.
shmem_destroy(p) ==
    /\ epc[p] = "unlink"
    /\ Unlink(p)
    /\ egoto(p, "ended")
    /\ UNCHANGED <<stage, buf, fd, smsg, rmsg>>

-----------------------------------------------------------------------------
(***************************************************************************)
(* The three programs                                                      *)
(***************************************************************************)

\* Where a process goes after mc_put: the server and the terminator close the
\* channel, a client waits for its reply.
PutDone(p) == IF p \in Clients THEN "wait" ELSE "close"

\* mc_put blocks while the channel is full and while it is still zeroed; it
\* writes into a channel destroyed meanwhile, whose memory is still mapped.
mc_put(p) ==
    /\ epc[p] = "put"
    /\ stage[fd[p]] # "zeroed"
    /\ Len(buf[fd[p]]) < Capacity(fd[p])
    /\ buf' = [buf EXCEPT ![fd[p]] = Append(@, smsg[p])]
    /\ egoto(p, PutDone(p))
    /\ UNCHANGED <<names, stage, fd, smsg, rmsg>>

\* Mutant: the message is signed before the response name is made from it.
server_get_SignsFirst(s) ==
    /\ epc[s] = "get"
    /\ buf[s] # <<>>
    /\ smsg' = [smsg EXCEPT ![s] = [Head(buf[s]) EXCEPT !.sender = s]]
    /\ buf' = [buf EXCEPT ![s] = Tail(@)]
    /\ egoto(s, IF Head(buf[s]) = StopMsg THEN "destroy" ELSE "connect")
    /\ UNCHANGED <<names, stage, fd, rmsg>>

\* The server's loop: mc_get, and the test for the stop message.
server_get(s) ==
    /\ epc[s] = "get"
    /\ buf[s] # <<>>
    /\ smsg' = [smsg EXCEPT ![s] = Head(buf[s])]
    /\ buf' = [buf EXCEPT ![s] = Tail(@)]
    /\ egoto(s, IF Head(buf[s]) = StopMsg THEN "destroy" ELSE "connect")
    /\ UNCHANGED <<names, stage, fd, rmsg>>

\* A client reads a line and sends it.
client_input(c) ==
    /\ epc[c] = "input"
    /\ \E t \in Texts : smsg' = [smsg EXCEPT ![c] = [sender |-> c, msg |-> t]]
    /\ egoto(c, "put")
    /\ UNCHANGED <<names, stage, buf, fd, rmsg>>

\* Mutant: a client gives up while it waits for a reply.
client_quit_Waiting(c) ==
    /\ epc[c] \in {"input", "wait"}
    /\ egoto(c, "close")
    /\ UNCHANGED <<names, stage, buf, fd, smsg, rmsg>>

\* An empty line or the end of the input.
client_quit(c) ==
    /\ epc[c] = "input"
    /\ egoto(c, "close")
    /\ UNCHANGED <<names, stage, buf, fd, smsg, rmsg>>

\* Mutant: the index of the reply channel does not move on.
client_get_Peek(c) ==
    /\ epc[c] = "wait"
    /\ buf[c] # <<>>
    /\ rmsg' = [rmsg EXCEPT ![c] = Head(buf[c])]
    /\ egoto(c, "input")
    /\ UNCHANGED <<names, stage, buf, fd, smsg>>

\* The client takes its reply out of its own channel.
client_get(c) ==
    /\ epc[c] = "wait"
    /\ buf[c] # <<>>
    /\ rmsg' = [rmsg EXCEPT ![c] = Head(buf[c])]
    /\ buf' = [buf EXCEPT ![c] = Tail(@)]
    /\ egoto(c, "input")
    /\ UNCHANGED <<names, stage, fd, smsg>>

\* What a process does without waiting for its user.
EStep(p) ==
    \/ /\ p \in Creators
       /\ \/ shmem_create(p) \/ shmem_create_exists(p)
          \/ shmem_create_truncate(p) \/ shmem_create_fail(p)
          \/ shmem_create_map(p) \/ mc_create(p)
          \/ mc_destroy(p) \/ shmem_destroy(p)
    \/ shmem_open(p) \/ shmem_open_missing(p)
    \/ shmem_open_map(p) \/ shmem_open_fail(p)
    \/ mc_put(p) \/ mc_close(p)
    \/ p \in Servers /\ server_get(p)
    \/ p \in Clients /\ client_get(p)

ENext ==
    \/ \E p \in Processes : EStep(p)
    \/ \E c \in Clients : client_input(c) \/ client_quit(c)

ESpec == EInit /\ [][ENext]_evars

\* The operating system runs every process that can take a step; nothing is
\* assumed of the users.
EFairSpec == ESpec /\ \A p \in Processes : WF_evars(EStep(p))

-----------------------------------------------------------------------------

ETypeOK ==
    /\ names \in [Clients \cup {ServiceId} -> Creators \cup {Nobody}]
    /\ stage \in [Creators -> {"none", "empty", "zeroed", "ready", "destroyed"}]
    /\ buf \in [Creators -> Seq(Message)]
    /\ \A o \in Creators : Len(buf[o]) <= Capacity(o)
    /\ epc \in [Processes -> {"start", "truncate", "map", "init", "connect",
                             "fstat", "input", "put", "lost", "wait", "get",
                             "close", "destroy", "unlink", "ended"}]
    /\ fd \in [Processes -> Creators \cup {Nobody}]
    /\ smsg \in [Processes -> Message] /\ rmsg \in [Processes -> Message]

\* From its creation until its end, and at no other time, a process has its
\* object bound to its name: two servers never serve under one name, shm_unlink
\* never removes the object of another process, and no error path of
\* shmem_create leaves a name behind.
NameIsOwners ==
    \A p \in Creators :
        names[NameOf(p)] = p <=> epc[p] \notin {"start", "ended"}

\* Where a request of c, or the reply to it, can be.
Queued(c) == {q \in Servers \X (1..SrvCap) :
                q[2] <= Len(buf[q[1]]) /\ buf[q[1]][q[2]].sender = c}
Held(c) == {s \in Servers : \/ epc[s] = "connect" /\ smsg[s].sender = c
                            \/ epc[s] \in {"fstat", "put"} /\ fd[s] = c}

\* Requests and replies are conserved: a client that waits has at most one
\* request or reply under way among all channels and servers, and a client
\* that does not wait has none.
OneOutstanding ==
    \A c \in Clients :
        Cardinality(Queued(c)) + Cardinality(Held(c)) + Len(buf[c])
          <= (IF epc[c] = "wait" THEN 1 ELSE 0)

\* The invariant of the service: names and messages have one owner.
EchoInv == ETypeOK /\ NameIsOwners /\ OneOutstanding

\* When the server is about to reply, the client's channel, which holds one
\* message, is empty and still alive: the loop of the server never blocks on a
\* client and never writes into a channel that its client destroyed.
ServerNeverBlocks ==
    \A s \in Servers :
        epc[s] = "put" => stage[fd[s]] = "ready" /\ buf[fd[s]] = <<>>

\* The reply a client prints is the echo of the line it sent last.
ReplyIsMine ==
    \A c \in Clients :
        epc[c] \in {"input", "close"} => rmsg[c].msg = smsg[c].msg

\* The channel that a process has mapped is in stage st.
Opened(p, st) == fd[p] # Nobody /\ stage[fd[p]] = st

\* A request that a client has put into the server's channel is answered,
\* unless the service is stopped and the channel destroyed, or the server is
\* one whose mmap may fail, for it then drops the request.  (Nothing is promised
\* before the put has returned: sem_wait may favour others for ever when the
\* channel is full, and loses a process that waits before sem_init.)
Answered ==
    \A c \in Clients :
        (epc[c] = "wait" /\ fd[c] \notin Failing)
          ~> (epc[c] = "input" \/ Opened(c, "destroyed"))
=============================================================================
