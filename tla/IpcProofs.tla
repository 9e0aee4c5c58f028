------------------------------ MODULE IpcProofs ------------------------------
(***************************************************************************)
(* Proofs about the echo services between processes of one machine: the    *)
(* one over Unix-domain sockets, for any finite set of clients and any     *)
(* lines, and the one over shared memory, for any finite sets of           *)
(* processes, any texts and any capacity of the server's channel.          *)
(***************************************************************************)
EXTENDS EchoIpc, UdsEcho, QueueLemmas

(***************************************************************************)
(* Unix-domain sockets                                                     *)
(***************************************************************************)

\* The line under way of a client is in one of three places.
OnePlace(c) ==
    /\ up[c] # "none" =>
         /\ tbuf[c] = "none" /\ down[c] = "none"
         /\ up[c] = sent[c] /\ cpc[c] \in {"read", "ended"}
    /\ tbuf[c] # "none" =>
         /\ up[c] = "none" /\ down[c] = "none"
         /\ tbuf[c] = sent[c] /\ cpc[c] \in {"read", "ended"}
    /\ down[c] # "none" =>
         /\ up[c] = "none" /\ tbuf[c] = "none"
         /\ down[c] = sent[c] /\ cpc[c] \in {"read", "ended"}

\* A client that talks is connected, and nothing is left at a server's end
\* after the server has ended.
Ends(c) ==
    /\ cpc[c] \in {"input", "read"} => side[c] # "none"
    /\ upc = "ended" =>
         /\ side[c] \in {"none", "closed"}
         /\ tpc[c] = "none" /\ up[c] = "none" /\ tbuf[c] = "none"

\* The inductive invariant: only a server that has ended resets a connection,
\* and the file is gone when the server binds it.
UdsIInv ==
    /\ UTypeOK /\ Restarts
    /\ \A c \in UClients :
         /\ OnePlace(c) /\ Ends(c)
         /\ cpc[c] \in {"connect", "input"} => got[c] = sent[c] \/ upc = "ended"
         /\ rst[c] => upc = "ended"
    /\ upc = "bind" => path = "absent"

LEMMA OneOfThree ==
    ASSUME NEW a, NEW b, NEW d,
           a # "none" => b = "none" /\ d = "none",
           b # "none" => a = "none" /\ d = "none"
    PROVE  Cardinality({k \in 1..3 : <<a, b, d>>[k] # "none"}) <= 1
<1> DEFINE P == {k \in 1..3 : <<a, b, d>>[k] # "none"}
<1>1. P = {} \/ P = {1} \/ P = {2} \/ P = {3}
  <2>1. \A k \in 1..3 : k = 1 \/ k = 2 \/ k = 3
    OBVIOUS
  <2>2. (1 \in P <=> a # "none") /\ (2 \in P <=> b # "none") /\ (3 \in P <=> d # "none")
    OBVIOUS
  <2>3. P \subseteq 1..3
    OBVIOUS
  <2> HIDE DEF P
  <2> QED BY <2>1, <2>2, <2>3
<1> HIDE DEF P
<1>2. Cardinality({}) = 0
  BY FS_EmptySet
<1>3. Cardinality({1}) = 1 /\ Cardinality({2}) = 1 /\ Cardinality({3}) = 1
  BY FS_Singleton
<1>4. Cardinality(P) = 0 \/ Cardinality(P) = 1
  BY <1>1, <1>2, <1>3, Zenon
<1>5. Cardinality(P) <= 1
  BY <1>4
<1> QED BY <1>5 DEF P

LEMMA UdsIInvGivesUdsInv == UdsIInv => UdsInv
<1> SUFFICES ASSUME UdsIInv PROVE UdsInv
  OBVIOUS
<1>1. ASSUME NEW c \in UClients
      PROVE  LET line == <<up[c], tbuf[c], down[c]>>
                 places == {k \in 1..3 : line[k] # "none"}
             IN /\ Cardinality(places) <= 1
                /\ \A k \in places : line[k] = sent[c] /\ cpc[c] \in {"read", "ended"}
  <2>1. OnePlace(c)
    BY DEF UdsIInv
  <2>2. Cardinality({k \in 1..3 : <<up[c], tbuf[c], down[c]>>[k] # "none"}) <= 1
    BY <2>1, OneOfThree DEF OnePlace
  <2>3. \A k \in 1..3 : k = 1 \/ k = 2 \/ k = 3
    OBVIOUS
  <2> QED BY <2>1, <2>2, <2>3 DEF OnePlace
<1> QED BY <1>1 DEF UdsIInv, UdsInv, Alternation, EchoMatches

LEMMA UdsInit == UInit => UdsIInv
BY DEF UInit, UdsIInv, UTypeOK, Restarts, OnePlace, Ends

\* The types of the three places, one by one.
UdsTypes ==
    /\ path \in {"absent", "stale", "bound"}
    /\ upc \in {"unlink", "bind", "listen", "accept", "ended", "failed"}
    /\ side \in [UClients -> {"none", "backlog", "open", "closed"}]
    /\ tpc \in [UClients -> {"none", "read", "write", "leaked"}]
    /\ tbuf \in [UClients -> ULines \cup {"none"}]
    /\ up \in [UClients -> ULines \cup {"none"}]
    /\ down \in [UClients -> ULines \cup {"none"}]
    /\ rst \in [UClients -> BOOLEAN]
    /\ cpc \in [UClients -> {"connect", "input", "read", "ended"}]
    /\ sent \in [UClients -> ULines \cup {"none"}]
    /\ got \in [UClients -> ULines \cup {"none", Garbage}]

LEMMA UdsTypesAre == UTypeOK <=> UdsTypes
BY DEF UTypeOK, UdsTypes

\* What the server's main does: no line moves.
LEMMA ServerMainKeeps ==
    ASSUME UdsIInv, ServerMain
    PROVE  UdsIInv'
<1>1. UdsTypes /\ UdsTypes'
  BY UdsTypesAre DEF UdsIInv, UdsTypes, ServerMain, server_unlink, server_bind,
     server_listen, server_accept, netvars
<1>2. UTypeOK'
  BY <1>1 DEF UTypeOK, UdsTypes
<1>3. Restarts' /\ (upc' = "bind" => path' = "absent")
  BY DEF UdsIInv, Restarts, ServerMain, server_unlink, server_bind, server_listen,
     server_accept
<1>4. \A c \in UClients : Ends(c)'
  BY <1>1 DEF UdsIInv, UdsTypes, Ends, ServerMain, server_unlink, server_bind,
     server_listen, server_accept, netvars
<1>5. /\ UNCHANGED <<up, down, rst, tbuf, cpc, sent, got>>
      /\ upc = "ended" => upc' = "ended"
  BY DEF ServerMain, server_unlink, server_bind, server_listen, server_accept, netvars
<1> QED BY <1>2, <1>3, <1>4, <1>5 DEF UdsIInv, OnePlace

\* The end of the server, with the last echo under way or without.
LEMMA EndServerKeeps ==
    ASSUME UdsIInv, NEW file \in {"absent", "stale"}, EndServer(file),
           \/ down' = down
           \/ \E c \in UClients : tbuf[c] = "stop" /\ down' = [down EXCEPT ![c] = "stop"]
    PROVE  UdsIInv'
<1>1. UdsTypes
  BY UdsTypesAre DEF UdsIInv
<1>2. UdsTypes'
  BY <1>1 DEF UdsTypes, EndServer
<1>3. UTypeOK' /\ Restarts' /\ upc' = "ended"
  BY <1>2 DEF UTypeOK, UdsTypes, Restarts, EndServer
<1>4. ASSUME NEW c \in UClients PROVE OnePlace(c)'
  <2>1. OnePlace(c)
    BY DEF UdsIInv
  <2> QED BY <1>1, <2>1 DEF UdsTypes, OnePlace, EndServer
<1>5. \A c \in UClients : Ends(c)'
  BY <1>1 DEF UdsTypes, UdsIInv, Ends, EndServer
<1> QED BY <1>3, <1>4, <1>5 DEF UdsIInv

\* A step that touches the entries of one client only.
LEMMA OneClientKeeps ==
    ASSUME UdsIInv, NEW c \in UClients, UdsTypes', UNCHANGED <<path, upc>>,
           OnePlace(c)', Ends(c)',
           cpc'[c] \in {"connect", "input"} => got'[c] = sent'[c] \/ upc = "ended",
           rst'[c] => upc = "ended",
           \A d \in UClients \ {c} :
              /\ up'[d] = up[d] /\ down'[d] = down[d] /\ rst'[d] = rst[d]
              /\ tbuf'[d] = tbuf[d] /\ cpc'[d] = cpc[d] /\ sent'[d] = sent[d]
              /\ got'[d] = got[d] /\ side'[d] = side[d] /\ tpc'[d] = tpc[d]
    PROVE  UdsIInv'
<1>1. UTypeOK'
  BY DEF UTypeOK, UdsTypes
<1>2. ASSUME NEW d \in UClients
      PROVE  /\ OnePlace(d)' /\ Ends(d)'
             /\ cpc'[d] \in {"connect", "input"} => got'[d] = sent'[d] \/ upc' = "ended"
             /\ rst'[d] => upc' = "ended"
  BY DEF UdsIInv, OnePlace, Ends
<1> QED BY <1>1, <1>2 DEF UdsIInv, Restarts

LEMMA ServerThreadKeeps ==
    ASSUME UdsIInv, NEW c \in UClients, ServerThread(c)
    PROVE  UdsIInv'
<1>1. /\ UdsTypes /\ OnePlace(c) /\ Ends(c) /\ (rst[c] => upc = "ended")
      /\ cpc[c] \in {"connect", "input"} => got[c] = sent[c] \/ upc = "ended"
  BY UdsTypesAre DEF UdsIInv
<1>2. CASE thread_stop(c)
  BY <1>2, EndServerKeeps DEF thread_stop
<1>3. CASE thread_sigpipe(c)
  BY <1>3, EndServerKeeps DEF thread_sigpipe
<1>4. CASE thread_read(c)
  <2>1. UdsTypes'
    BY <1>1, <1>4 DEF UdsTypes, thread_read
  <2>2. OnePlace(c)' /\ Ends(c)'
    BY <1>1, <1>4 DEF UdsTypes, OnePlace, Ends, thread_read
  <2> QED BY <1>1, <1>4, <2>1, <2>2, OneClientKeeps DEF UdsTypes, thread_read
<1>5. CASE thread_write(c)
  <2>1. UdsTypes'
    BY <1>1, <1>5 DEF UdsTypes, thread_write
  <2>2. OnePlace(c)' /\ Ends(c)'
    BY <1>1, <1>5 DEF UdsTypes, OnePlace, Ends, thread_write
  <2> QED BY <1>1, <1>5, <2>1, <2>2, OneClientKeeps DEF UdsTypes, thread_write
<1>6. CASE thread_quit(c) \/ thread_eof(c)
  <2>1. CloseSide(c)
    BY <1>6 DEF thread_quit, thread_eof
  <2>2. UdsTypes'
    BY <1>1, <2>1 DEF UdsTypes, CloseSide
  <2>3. OnePlace(c)' /\ Ends(c)'
    BY <1>1, <2>1 DEF UdsTypes, OnePlace, Ends, CloseSide
  <2> QED BY <1>1, <2>1, <2>2, <2>3, OneClientKeeps DEF UdsTypes, CloseSide
<1>7. CASE thread_terror(c)
  <2>1. UdsTypes'
    BY <1>1, <1>7 DEF UdsTypes, thread_terror, netvars
  <2>2. OnePlace(c)' /\ Ends(c)'
    BY <1>1, <1>7 DEF UdsTypes, OnePlace, Ends, thread_terror, netvars
  <2> QED BY <1>1, <1>7, <2>1, <2>2, OneClientKeeps DEF UdsTypes, thread_terror, netvars
<1> QED BY <1>2, <1>3, <1>4, <1>5, <1>6, <1>7 DEF ServerThread

LEMMA ClientKeeps ==
    ASSUME UdsIInv, NEW c \in UClients,
           \/ client_connect(c) \/ Receive(c) \/ client_end(c)
           \/ \E line \in ULines : client_send(c, line)
    PROVE  UdsIInv'
<1>1. /\ UdsTypes /\ OnePlace(c) /\ Ends(c) /\ (rst[c] => upc = "ended")
      /\ cpc[c] \in {"connect", "input"} => got[c] = sent[c] \/ upc = "ended"
  BY UdsTypesAre DEF UdsIInv
<1>2. CASE client_connect(c)
  <2>1. UdsTypes'
    BY <1>1, <1>2 DEF UdsTypes, client_connect
  <2>2. OnePlace(c)' /\ Ends(c)'
    BY <1>1, <1>2 DEF UdsTypes, OnePlace, Ends, client_connect
  <2> QED BY <1>1, <1>2, <2>1, <2>2, OneClientKeeps DEF UdsTypes, client_connect
<1>3. ASSUME NEW line \in ULines, client_send(c, line) PROVE UdsIInv'
  <2>1. UdsTypes'
    BY <1>1, <1>3 DEF UdsTypes, client_send
  <2>2. OnePlace(c)' /\ Ends(c)'
    BY <1>1, <1>3 DEF UdsTypes, OnePlace, Ends, client_send
  <2> QED BY <1>1, <1>3, <2>1, <2>2, OneClientKeeps DEF UdsTypes, client_send
<1>4. CASE client_end(c) \/ client_read_eof(c)
  <2>1. UdsTypes'
    BY <1>1, <1>4 DEF UdsTypes, client_end, client_read_eof, netvars
  <2>2. OnePlace(c)' /\ Ends(c)'
    BY <1>1, <1>4 DEF UdsTypes, OnePlace, Ends, client_end, client_read_eof, netvars
  <2> QED BY <1>1, <1>4, <2>1, <2>2, OneClientKeeps
      DEF UdsTypes, client_end, client_read_eof, netvars
<1>5. CASE client_read(c)
  <2>1. UdsTypes'
    BY <1>1, <1>5 DEF UdsTypes, client_read
  <2>2. OnePlace(c)' /\ Ends(c)'
    BY <1>1, <1>5 DEF UdsTypes, OnePlace, Ends, client_read
  <2>3. got'[c] = sent'[c]
    BY <1>1, <1>5 DEF UdsTypes, OnePlace, Ends, client_read
  <2> QED BY <1>1, <1>5, <2>1, <2>2, <2>3, OneClientKeeps DEF UdsTypes, client_read
<1>6. CASE client_read_error(c)
  <2>1. UdsTypes'
    BY <1>1, <1>6 DEF UdsTypes, client_read_error
  <2>2. OnePlace(c)' /\ Ends(c)'
    BY <1>1, <1>6 DEF UdsTypes, OnePlace, Ends, client_read_error
  <2> QED BY <1>1, <1>6, <2>1, <2>2, OneClientKeeps DEF UdsTypes, client_read_error
<1> QED BY <1>2, <1>3, <1>4, <1>5, <1>6 DEF Receive

LEMMA UdsNext == UdsIInv /\ [UNext]_uvars => UdsIInv'
<1> SUFFICES ASSUME UdsIInv, [UNext]_uvars PROVE UdsIInv'
  OBVIOUS
<1>1. CASE UNCHANGED uvars
  BY <1>1 DEF uvars, netvars, UdsIInv, UTypeOK, Restarts, OnePlace, Ends
<1>2. CASE server_error
  BY <1>2, EndServerKeeps DEF server_error
<1> QED BY <1>1, <1>2, ServerMainKeeps, ServerThreadKeeps, ClientKeeps DEF UNext

\* The service over Unix-domain sockets: a client shows the echo of what it
\* sent last, of request and echo one is under way, and the server starts
\* whatever an earlier one left behind.
THEOREM UdsIsSafe == USpec => []UdsInv
<1>1. UInit => UdsIInv
  BY UdsInit
<1>2. UdsIInv /\ [UNext]_uvars => UdsIInv'
  BY UdsNext
<1>3. UdsIInv => UdsInv
  BY UdsIInvGivesUdsInv
<1> QED BY <1>1, <1>2, <1>3, PTL DEF USpec

-----------------------------------------------------------------------------

(***************************************************************************)
(* Shared memory                                                           *)
(***************************************************************************)

\* The server s works on a request of c.
Holds(s, c) ==
    \/ epc[s] = "connect" /\ smsg[s].sender = c
    \/ epc[s] \in {"fstat", "put"} /\ fd[s] = c

\* The request of a client, or the reply to it, is in one place: at a position
\* of a server's channel, with a server, or in the client's channel.  It is
\* there while the client waits, and has the text that the client sent.
OneToken(c) ==
    /\ \A s \in Servers : \A i \in 1..Len(buf[s]) :
         buf[s][i].sender = c =>
           /\ epc[c] = "wait" /\ buf[c] = <<>> /\ buf[s][i].msg = smsg[c].msg
           /\ \A r \in Servers : ~Holds(r, c)
           /\ \A r \in Servers : \A j \in 1..Len(buf[r]) :
                buf[r][j].sender = c => r = s /\ j = i
    /\ \A s \in Servers :
         Holds(s, c) =>
           /\ epc[c] = "wait" /\ buf[c] = <<>> /\ smsg[s].msg = smsg[c].msg
           /\ \A r \in Servers : Holds(r, c) => r = s
    /\ buf[c] # <<>> => epc[c] = "wait" /\ buf[c][1].msg = smsg[c].msg

\* Each process: what it has open, the message it is about to send, and the
\* stage of its object.
Control(p) ==
    /\ p \in Clients /\ epc[p] \in {"fstat", "input", "put", "lost", "wait", "close"}
         => fd[p] \in Servers
    /\ p \in Terms /\ epc[p] \in {"fstat", "put", "lost", "close"} => fd[p] \in Servers
    /\ p \in Servers /\ epc[p] \in {"fstat", "put", "lost", "close"} => fd[p] \in Clients
    /\ p \in Clients /\ epc[p] = "put" => smsg[p].sender = p
    /\ p \in Terms => smsg[p] = StopMsg
    /\ p \in Creators =>
         CASE epc[p] = "start" -> stage[p] = "none"
           [] epc[p] = "truncate" -> stage[p] = "empty"
           [] epc[p] \in {"map", "init"} -> stage[p] = "zeroed"
           [] epc[p] = "unlink" -> stage[p] = "destroyed"
           [] epc[p] = "ended" -> TRUE
           [] OTHER -> stage[p] = "ready"

\* An object is bound to its owner's name only.
Owners == \A n \in Clients \cup {ServiceId} :
              names[n] # Nobody => NameOf(names[n]) = n

\* A client that is not waiting has the echo of what it sent.
Echoed == \A c \in Clients :
              epc[c] \notin {"put", "lost", "wait"} => rmsg[c].msg = smsg[c].msg

\* The inductive invariant.
EIInv ==
    /\ ETypeOK /\ NameIsOwners /\ Owners /\ Echoed
    /\ \A p \in Processes : Control(p)
    /\ \A c \in Clients : OneToken(c)

\* Processes are of one kind, and none is the absent one.
LEMMA Kinds ==
    /\ \A p \in Servers : p \notin Clients /\ p \notin Terms /\ p \in Creators
    /\ \A p \in Clients : p \notin Servers /\ p \notin Terms /\ p \in Creators
    /\ \A p \in Terms : p \notin Servers /\ p \notin Clients
    /\ \A p \in Creators : p \in Processes /\ (p \in Servers \/ p \in Clients)
    /\ \A p \in Processes : p # Nobody /\ (p \in Servers \/ p \in Clients \/ p \in Terms)
    /\ \A p \in Creators : NameOf(p) \in Clients \cup {ServiceId}
    /\ \A p \in Servers : NameOf(p) = ServiceId
    /\ \A p \in Clients : NameOf(p) = p /\ p # ServiceId
    /\ StopMsg \in Message
    /\ \A p \in Creators : Capacity(p) \in Nat
BY EchoAssumption DEF Creators, Processes, NameOf, StopMsg, Message, Capacity

\* What mc_open finds: a client's channel under the client's name, and the
\* channel of a server under the name of the service.
LEMMA WantedIs ==
    ASSUME EIInv, NEW p \in Processes, Wanted(p) # Nobody
    PROVE  /\ Wanted(p) \in Creators
           /\ p \in Servers => Wanted(p) = smsg[p].sender /\ Wanted(p) \in Clients
           /\ p \notin Servers => Wanted(p) \in Servers
<1>1. /\ \A n \in Clients \cup {ServiceId} : names[n] \in Creators \cup {Nobody}
      /\ \A n \in Clients \cup {ServiceId} : names[n] # Nobody => NameOf(names[n]) = n
  BY DEF EIInv, ETypeOK, Owners
<1>2. CASE p \in Servers
  <2>1. smsg[p].sender \in Clients /\ Wanted(p) = names[smsg[p].sender]
    BY <1>2 DEF Wanted
  <2>2. Wanted(p) \in Creators /\ NameOf(Wanted(p)) = smsg[p].sender
    BY <1>1, <2>1
  <2> QED BY <1>2, <2>1, <2>2, Kinds
<1>3. CASE p \notin Servers
  <2>1. Wanted(p) = names[ServiceId]
    BY <1>3 DEF Wanted
  <2>2. Wanted(p) \in Creators /\ NameOf(Wanted(p)) = ServiceId
    BY <1>1, <2>1
  <2> QED BY <1>3, <2>2, Kinds
<1> QED BY <1>2, <1>3

LEMMA EchoInit == EInit => EIInv
<1> SUFFICES ASSUME EInit PROVE EIInv
  OBVIOUS
<1>1. ETypeOK
  <2>1. buf \in [Creators -> Seq(Message)] /\ \A o \in Creators : Len(buf[o]) <= Capacity(o)
    BY Kinds DEF EInit
  <2>2. smsg \in [Processes -> Message] /\ rmsg \in [Processes -> Message]
    BY Kinds DEF EInit, BlankMsg
  <2> QED BY <2>1, <2>2 DEF EInit, ETypeOK
<1>2. NameIsOwners /\ Owners
  BY Kinds DEF EInit, NameIsOwners, Owners
<1>3. Echoed
  BY Kinds DEF EInit, Echoed
<1>4. \A p \in Processes : Control(p)
  BY Kinds DEF EInit, Control, BlankMsg
<1>5. \A c \in Clients : OneToken(c)
  <2>1. /\ \A p \in Creators : buf[p] = <<>> /\ Len(buf[p]) = 0
        /\ \A s \in Servers : epc[s] = "start"
    BY Kinds DEF EInit
  <2> QED BY <2>1, Kinds DEF OneToken, Holds
<1> QED BY <1>1, <1>2, <1>3, <1>4, <1>5 DEF EIInv

LEMMA EchoTypes ==
    ASSUME EIInv, NEW p \in Processes, EStep(p)
    PROVE  ETypeOK'
<1> DEFINE Labels == {"start", "truncate", "map", "init", "connect", "fstat", "input", "put",
                      "lost", "wait", "get", "close", "destroy", "unlink", "ended"}
<1>1. /\ names \in [Clients \cup {ServiceId} -> Creators \cup {Nobody}]
      /\ stage \in [Creators -> {"none", "empty", "zeroed", "ready", "destroyed"}]
      /\ buf \in [Creators -> Seq(Message)]
      /\ \A o \in Creators : Len(buf[o]) <= Capacity(o)
      /\ epc \in [Processes -> Labels]
      /\ fd \in [Processes -> Creators \cup {Nobody}]
      /\ smsg \in [Processes -> Message] /\ rmsg \in [Processes -> Message]
  BY DEF EIInv, ETypeOK
<1>2. Control(p)
  BY DEF EIInv
<1>3. OpenFailed(p) \in Labels /\ OpenDone(p) \in Labels /\ PutDone(p) \in Labels
  BY DEF OpenFailed, OpenDone, PutDone
<1>4. ASSUME p \in Creators,
             \/ shmem_create(p) \/ shmem_create_exists(p)
             \/ shmem_create_truncate(p) \/ shmem_create_fail(p)
             \/ shmem_create_map(p)
             \/ mc_destroy(p) \/ shmem_destroy(p)
      PROVE  ETypeOK'
  <2>1. NameOf(p) \in Clients \cup {ServiceId}
    BY <1>4, Kinds
  <2>2. UNCHANGED <<buf, fd, smsg, rmsg>>
    BY <1>4 DEF shmem_create, shmem_create_exists, shmem_create_truncate,
       shmem_create_fail, shmem_create_map, mc_destroy, shmem_destroy
  <2>3. epc' \in [Processes -> Labels]
    BY <1>1, <1>4 DEF shmem_create, shmem_create_exists, shmem_create_truncate,
       shmem_create_fail, shmem_create_map, mc_destroy, shmem_destroy, egoto
  <2>4. stage' \in [Creators -> {"none", "empty", "zeroed", "ready", "destroyed"}]
    BY <1>1, <1>4 DEF shmem_create, shmem_create_exists, shmem_create_truncate,
       shmem_create_fail, shmem_create_map, mc_destroy, shmem_destroy
  <2>5. names' \in [Clients \cup {ServiceId} -> Creators \cup {Nobody}]
    BY <1>1, <1>4, <2>1 DEF shmem_create, shmem_create_exists, shmem_create_truncate,
       shmem_create_fail, shmem_create_map, mc_destroy, shmem_destroy, Unlink
  <2> QED BY <1>1, <2>2, <2>3, <2>4, <2>5 DEF ETypeOK
<1>5. CASE p \in Creators /\ mc_create(p)
  <2>1. epc' \in [Processes -> Labels]
    BY <1>1, <1>5 DEF mc_create
  <2>2. stage' \in [Creators -> {"none", "empty", "zeroed", "ready", "destroyed"}]
    BY <1>1, <1>5 DEF mc_create
  <2> QED BY <1>1, <1>5, <2>1, <2>2 DEF ETypeOK, mc_create
<1>6. CASE shmem_open(p)
  <2>1. Wanted(p) \in Creators
    BY <1>6, WantedIs DEF shmem_open
  <2> QED BY <1>1, <1>6, <2>1 DEF ETypeOK, shmem_open, egoto
<1>7. CASE shmem_open_missing(p) \/ shmem_open_fail(p) \/ mc_close(p)
  BY <1>1, <1>3, <1>7 DEF ETypeOK, shmem_open_missing, shmem_open_fail, mc_close, egoto
<1>8. CASE shmem_open_map(p)
  <2>1. smsg' \in [Processes -> Message]
    BY <1>1, <1>8 DEF shmem_open_map, Message
  <2> QED BY <1>1, <1>3, <1>8, <2>1 DEF ETypeOK, shmem_open_map, egoto
<1>9. CASE mc_put(p)
  <2>1. fd[p] \in Creators
    BY <1>2, <1>9, Kinds DEF Control, mc_put
  <2>2. /\ buf[fd[p]] \in Seq(Message) /\ smsg[p] \in Message
        /\ Len(buf[fd[p]]) < Capacity(fd[p]) /\ Capacity(fd[p]) \in Nat
    BY <1>1, <1>9, <2>1, Kinds DEF mc_put
  <2>3. /\ Append(buf[fd[p]], smsg[p]) \in Seq(Message)
        /\ Len(Append(buf[fd[p]], smsg[p])) <= Capacity(fd[p])
    BY <2>2
  <2>4. buf' = [buf EXCEPT ![fd[p]] = Append(buf[fd[p]], smsg[p])]
    BY <1>9 DEF mc_put
  <2>5. buf' \in [Creators -> Seq(Message)] /\ \A o \in Creators : Len(buf'[o]) <= Capacity(o)
    BY <1>1, <2>1, <2>3, <2>4
  <2>6. (\A o \in Creators : Len(buf[o]) <= Capacity(o))'
    BY <2>5 DEF Capacity
  <2>7. epc' \in [Processes -> Labels] /\ UNCHANGED <<names, stage, fd, smsg, rmsg>>
    BY <1>1, <1>3, <1>9 DEF mc_put, egoto
  <2> QED BY <1>1, <2>5, <2>6, <2>7 DEF ETypeOK
<1>10. ASSUME p \in Creators, server_get(p) \/ client_get(p)
       PROVE  ETypeOK'
  <2>1. /\ buf[p] \in Seq(Message) /\ buf[p] # <<>> /\ Len(buf[p]) <= Capacity(p)
        /\ Capacity(p) \in Nat
    BY <1>1, <1>10, Kinds DEF server_get, client_get
  <2>2. /\ Head(buf[p]) \in Message /\ Tail(buf[p]) \in Seq(Message)
        /\ Len(Tail(buf[p])) <= Capacity(p)
    BY <2>1
  <2>3. buf' = [buf EXCEPT ![p] = Tail(buf[p])]
    BY <1>10 DEF server_get, client_get
  <2>4. buf' \in [Creators -> Seq(Message)] /\ \A o \in Creators : Len(buf'[o]) <= Capacity(o)
    BY <1>1, <1>10, <2>2, <2>3
  <2>5. smsg' \in [Processes -> Message] /\ rmsg' \in [Processes -> Message]
    BY <1>1, <1>10, <2>2 DEF server_get, client_get
  <2>6. epc' \in [Processes -> Labels] /\ UNCHANGED <<names, stage, fd>>
    BY <1>1, <1>10 DEF server_get, client_get, egoto
  <2> QED BY <1>1, <2>4, <2>5, <2>6 DEF ETypeOK, Capacity
<1> QED BY <1>4, <1>5, <1>6, <1>7, <1>8, <1>9, <1>10, Kinds DEF EStep

LEMMA UserTypes ==
    ASSUME EIInv, NEW c \in Clients, client_input(c) \/ client_quit(c)
    PROVE  ETypeOK'
<1>1. c \in Processes
  BY Kinds
<1>2. \A t \in Texts : [sender |-> c, msg |-> t] \in Message
  BY <1>1 DEF Message
<1>3. smsg' \in [Processes -> Message]
  BY <1>1, <1>2 DEF EIInv, ETypeOK, client_input, client_quit
<1> QED BY <1>1, <1>3 DEF EIInv, ETypeOK, client_input, client_quit, egoto

\* Names: a step of one process at its own name, or of no name.
LEMMA NamesKept ==
    ASSUME EIInv, \/ \E p \in Processes : EStep(p)
                  \/ \E c \in Clients : client_input(c) \/ client_quit(c)
    PROVE  NameIsOwners' /\ Owners'
<1>1. /\ \A q \in Creators : names[NameOf(q)] = q <=> epc[q] \notin {"start", "ended"}
      /\ \A n \in Clients \cup {ServiceId} : names[n] # Nobody => NameOf(names[n]) = n
      /\ names \in [Clients \cup {ServiceId} -> Creators \cup {Nobody}]
      /\ \A q \in Processes : epc[q] \in {"start", "truncate", "map", "init", "connect", "fstat",
            "input", "put", "lost", "wait", "get", "close", "destroy", "unlink", "ended"}
      /\ DOMAIN epc = Processes
  BY DEF EIInv, ETypeOK, NameIsOwners, Owners
<1>2. ASSUME names' = names,
             \A q \in Creators : epc'[q] \in {"start", "ended"} <=> epc[q] \in {"start", "ended"}
      PROVE  NameIsOwners' /\ Owners'
  BY <1>1, <1>2 DEF NameIsOwners, Owners, NameOf
<1>3. ASSUME NEW p \in Creators, shmem_create(p) PROVE NameIsOwners' /\ Owners'
  <2>1. /\ p \in Processes /\ p # Nobody
        /\ \A q \in Creators : NameOf(q) \in Clients \cup {ServiceId} /\ q \in Processes
    BY Kinds
  <2>2. /\ names[NameOf(p)] = Nobody /\ epc[p] = "start"
        /\ names' = [names EXCEPT ![NameOf(p)] = p]
        /\ epc' = [epc EXCEPT ![p] = "truncate"]
    BY <1>3 DEF shmem_create, egoto
  <2>3. ASSUME NEW q \in Creators
        PROVE  names'[NameOf(q)] = q <=> epc'[q] \notin {"start", "ended"}
    BY <1>1, <2>1, <2>2, Kinds
  <2>4. ASSUME NEW n \in Clients \cup {ServiceId}, names'[n] # Nobody
        PROVE  NameOf(names'[n]) = n
    BY <1>1, <2>1, <2>2, <2>4
  <2> QED BY <2>3, <2>4 DEF NameIsOwners, Owners, NameOf
<1>4. ASSUME NEW p \in Creators, shmem_create_exists(p) PROVE NameIsOwners' /\ Owners'
  <2>1. /\ p \in Processes
        /\ \A q \in Creators : NameOf(q) \in Clients \cup {ServiceId} /\ q \in Processes
    BY Kinds
  <2>2. names' = names /\ epc[p] = "start" /\ epc' = [epc EXCEPT ![p] = "ended"]
    BY <1>4 DEF shmem_create_exists, egoto
  <2>3. \A q \in Creators : epc'[q] \in {"start", "ended"} <=> epc[q] \in {"start", "ended"}
    BY <1>1, <2>1, <2>2
  <2> QED BY <1>2, <2>2, <2>3
<1>5. ASSUME NEW p \in Creators, shmem_create_fail(p) \/ shmem_destroy(p)
      PROVE  NameIsOwners' /\ Owners'
  <2>1. /\ p \in Processes /\ p # Nobody
        /\ \A q \in Creators : /\ NameOf(q) \in Clients \cup {ServiceId}
                               /\ q \in Processes /\ q # Nobody
    BY Kinds
  <2>2. /\ epc[p] \notin {"start", "ended"}
        /\ names' = [names EXCEPT ![NameOf(p)] = Nobody]
        /\ epc' = [epc EXCEPT ![p] = "ended"]
    BY <1>5 DEF shmem_create_fail, shmem_destroy, egoto, Unlink
  <2>3. names[NameOf(p)] = p
    BY <1>1, <2>2
  <2>4. ASSUME NEW q \in Creators
        PROVE  names'[NameOf(q)] = q <=> epc'[q] \notin {"start", "ended"}
    BY <1>1, <2>1, <2>2, <2>3
  <2>5. ASSUME NEW n \in Clients \cup {ServiceId}, names'[n] # Nobody
        PROVE  NameOf(names'[n]) = n
    BY <1>1, <2>1, <2>2, <2>5
  <2> QED BY <2>4, <2>5 DEF NameIsOwners, Owners, NameOf
<1>6. ASSUME NEW p \in Creators, mc_create(p) PROVE NameIsOwners' /\ Owners'
  <2>1. names' = names
    BY <1>6 DEF mc_create
  <2>2. \A q \in Creators : epc'[q] \in {"start", "ended"} <=> epc[q] \in {"start", "ended"}
    BY <1>6, Kinds DEF mc_create
  <2> QED BY <1>2, <2>1, <2>2
<1>7. ASSUME NEW p \in Processes,
             \/ p \in Creators /\ (shmem_create_truncate(p) \/ shmem_create_map(p) \/ mc_destroy(p))
             \/ shmem_open(p) \/ shmem_open_missing(p)
             \/ shmem_open_map(p) \/ shmem_open_fail(p)
             \/ mc_put(p) \/ mc_close(p)
             \/ server_get(p) \/ client_get(p) \/ client_input(p) \/ client_quit(p)
      PROVE  NameIsOwners' /\ Owners'
  <2>1. p \notin Terms => OpenFailed(p) \in {"get", "destroy"}
    BY Kinds DEF OpenFailed
  <2>2. OpenDone(p) \in {"input", "put"} /\ PutDone(p) \in {"wait", "close"}
    BY DEF OpenDone, PutDone
  <2>3. /\ names' = names /\ epc[p] \notin {"start", "ended"}
        /\ \E l : /\ epc' = [epc EXCEPT ![p] = l]
                  /\ p \notin Terms => l \notin {"start", "ended"}
    <3>1. names' = names /\ epc[p] \notin {"start", "ended"}
      BY <1>7 DEF shmem_create_truncate, shmem_create_map, mc_destroy, shmem_open,
         shmem_open_missing, shmem_open_map, shmem_open_fail, mc_put, mc_close,
         server_get, client_get, client_input, client_quit
    <3>2. CASE shmem_open_missing(p) \/ shmem_open_fail(p) \/ mc_close(p)
      <4>1. epc' = [epc EXCEPT ![p] = OpenFailed(p)]
        BY <3>2 DEF shmem_open_missing, shmem_open_fail, mc_close, egoto
      <4> QED BY <2>1, <3>1, <4>1
    <3>3. CASE shmem_open_map(p)
      <4>1. epc' = [epc EXCEPT ![p] = OpenDone(p)]
        BY <3>3 DEF shmem_open_map, egoto
      <4> QED BY <2>2, <3>1, <4>1
    <3>4. CASE mc_put(p)
      <4>1. epc' = [epc EXCEPT ![p] = PutDone(p)]
        BY <3>4 DEF mc_put, egoto
      <4> QED BY <2>2, <3>1, <4>1
    <3>5. CASE server_get(p)
      <4>1. \/ epc' = [epc EXCEPT ![p] = "destroy"]
            \/ epc' = [epc EXCEPT ![p] = "connect"]
        BY <3>5 DEF server_get, egoto
      <4> QED BY <3>1, <4>1
    <3>6. CASE client_input(p) \/ client_get(p) \/ client_quit(p) \/ shmem_open(p)
      <4>1. \/ epc' = [epc EXCEPT ![p] = "put"] \/ epc' = [epc EXCEPT ![p] = "input"]
            \/ epc' = [epc EXCEPT ![p] = "close"] \/ epc' = [epc EXCEPT ![p] = "fstat"]
        BY <3>6 DEF client_input, client_get, client_quit, shmem_open, egoto
      <4> QED BY <3>1, <4>1
    <3>7. CASE shmem_create_truncate(p) \/ shmem_create_map(p) \/ mc_destroy(p)
      <4>1. \/ epc' = [epc EXCEPT ![p] = "map"] \/ epc' = [epc EXCEPT ![p] = "init"]
            \/ epc' = [epc EXCEPT ![p] = "unlink"]
        BY <3>7 DEF shmem_create_truncate, shmem_create_map, mc_destroy, egoto
      <4> QED BY <3>1, <4>1
    <3> QED BY <1>7, <3>2, <3>3, <3>4, <3>5, <3>6, <3>7
  <2>4. \A q \in Creators : epc'[q] \in {"start", "ended"} <=> epc[q] \in {"start", "ended"}
    BY <1>1, <2>3, Kinds
  <2> QED BY <1>2, <2>3, <2>4
<1> QED BY <1>3, <1>4, <1>5, <1>6, <1>7, Kinds DEF EStep

\* A step of one process: of the others, mc_create alone changes something.
LEMMA OthersStay ==
    ASSUME EIInv, NEW p \in Processes,
           \/ EStep(p) /\ ~(p \in Creators /\ mc_create(p))
           \/ p \in Clients /\ (client_input(p) \/ client_quit(p))
    PROVE  /\ \A q \in Processes \ {p} :
                 epc'[q] = epc[q] /\ fd'[q] = fd[q] /\ smsg'[q] = smsg[q] /\ rmsg'[q] = rmsg[q]
           /\ \A q \in Creators \ {p} : stage'[q] = stage[q]
<1>1. /\ DOMAIN epc = Processes /\ DOMAIN fd = Processes /\ DOMAIN smsg = Processes
      /\ DOMAIN rmsg = Processes /\ DOMAIN stage = Creators
  BY DEF EIInv, ETypeOK
<1> QED BY <1>1 DEF EStep, egoto, shmem_create, shmem_create_exists, shmem_create_truncate,
      shmem_create_fail, shmem_create_map, mc_destroy, shmem_destroy, shmem_open,
      shmem_open_missing, shmem_open_map, shmem_open_fail, mc_put, mc_close, server_get,
      client_get, client_input, client_quit

LEMMA ControlKept ==
    ASSUME EIInv, NEW p \in Processes,
           \/ EStep(p)
           \/ p \in Clients /\ (client_input(p) \/ client_quit(p))
    PROVE  \A q \in Processes : Control(q)'
<1>1. /\ stage \in [Creators -> {"none", "empty", "zeroed", "ready", "destroyed"}]
      /\ DOMAIN epc = Processes /\ fd \in [Processes -> Creators \cup {Nobody}]
      /\ smsg \in [Processes -> Message] /\ DOMAIN buf = Creators
  BY DEF EIInv, ETypeOK
<1>2. \A q \in Processes : Control(q)
  BY DEF EIInv
<1>3. CASE ~(p \in Creators /\ mc_create(p))
  <2>1. ASSUME NEW q \in Processes, q # p PROVE Control(q)'
    <3>1. /\ epc'[q] = epc[q] /\ fd'[q] = fd[q] /\ smsg'[q] = smsg[q]
          /\ q \in Creators => stage'[q] = stage[q]
      BY <1>3, <2>1, OthersStay
    <3>2. Control(q)
      BY <1>2
    <3> QED BY <3>1, <3>2 DEF Control
  <2>2. Control(p)'
    <3>1. Control(p)
      BY <1>2
    <3>2. CASE /\ p \in Creators
               /\ \/ shmem_create(p) \/ shmem_create_exists(p)
                  \/ shmem_create_truncate(p) \/ shmem_create_fail(p)
                  \/ shmem_create_map(p)
                  \/ mc_destroy(p) \/ shmem_destroy(p)
      BY <1>1, <3>1, <3>2, Kinds DEF Control, egoto, shmem_create, shmem_create_exists,
         shmem_create_truncate, shmem_create_fail, shmem_create_map, mc_destroy,
         shmem_destroy
    <3>3. CASE shmem_open(p)
      <4>1. /\ epc[p] = "connect" /\ epc' = [epc EXCEPT ![p] = "fstat"]
            /\ fd' = [fd EXCEPT ![p] = Wanted(p)] /\ UNCHANGED <<stage, smsg>>
            /\ p \in Servers => Wanted(p) \in Clients
            /\ p \notin Servers => Wanted(p) \in Servers
        BY <3>3, WantedIs DEF shmem_open, egoto
      <4> QED BY <1>1, <3>1, <4>1, Kinds DEF Control
    <3>4. CASE shmem_open_missing(p) \/ shmem_open_fail(p) \/ mc_close(p)
      <4>1. /\ epc[p] \in {"connect", "fstat", "close"} /\ UNCHANGED <<stage, smsg>>
            /\ epc' = [epc EXCEPT ![p] = OpenFailed(p)]
        BY <3>4 DEF shmem_open_missing, shmem_open_fail, mc_close, egoto
      <4>2. /\ p \in Creators => OpenFailed(p) \in {"get", "destroy"}
            /\ p \in Terms => OpenFailed(p) = "ended"
        BY Kinds DEF OpenFailed
      <4> QED BY <1>1, <3>1, <4>1, <4>2, Kinds DEF Control
    <3>5. CASE shmem_open_map(p)
      <4>1. /\ epc[p] = "fstat" /\ UNCHANGED <<stage, fd>>
            /\ epc' = [epc EXCEPT ![p] = OpenDone(p)]
            /\ p \notin Servers => smsg' = smsg
        BY <3>5 DEF shmem_open_map, egoto
      <4>2. /\ p \in Clients => OpenDone(p) = "input"
            /\ p \notin Clients => OpenDone(p) = "put"
        BY DEF OpenDone
      <4> QED BY <1>1, <3>1, <4>1, <4>2, Kinds DEF Control
    <3>6. CASE mc_put(p)
      <4>1. /\ epc[p] = "put" /\ UNCHANGED <<stage, fd, smsg>>
            /\ epc' = [epc EXCEPT ![p] = PutDone(p)]
        BY <3>6 DEF mc_put, egoto
      <4>2. /\ p \in Clients => PutDone(p) = "wait"
            /\ p \notin Clients => PutDone(p) = "close"
        BY DEF PutDone
      <4> QED BY <1>1, <3>1, <4>1, <4>2, Kinds DEF Control
    <3>7. CASE p \in Servers /\ server_get(p)
      <4>1. /\ epc[p] = "get" /\ UNCHANGED <<stage, fd>>
            /\ \/ epc' = [epc EXCEPT ![p] = "destroy"]
               \/ epc' = [epc EXCEPT ![p] = "connect"]
        BY <3>7 DEF server_get, egoto
      <4> QED BY <1>1, <3>1, <3>7, <4>1, Kinds DEF Control
    <3>8. CASE p \in Clients /\ (client_get(p) \/ client_quit(p))
      BY <1>1, <3>1, <3>8, Kinds DEF Control, client_get, client_quit, egoto
    <3>9. CASE p \in Clients /\ client_input(p)
      <4>1. /\ epc[p] = "input" /\ UNCHANGED <<stage, fd>>
            /\ epc' = [epc EXCEPT ![p] = "put"] /\ smsg'[p].sender = p
        BY <1>1, <3>9 DEF client_input, egoto
      <4> QED BY <1>1, <3>1, <3>9, <4>1, Kinds DEF Control
    <3> QED BY <1>3, <3>2, <3>3, <3>4, <3>5, <3>6, <3>7, <3>8, <3>9 DEF EStep
  <2> QED BY <2>1, <2>2
<1>4. CASE p \in Creators /\ mc_create(p)
  <2>1. p \in Creators
    BY <1>4
  <2>2. /\ epc[p] = "init" /\ UNCHANGED <<fd, smsg>>
        /\ stage' = [stage EXCEPT ![p] = "ready"]
        /\ epc'[p] = IF p \in Servers THEN "get" ELSE "connect"
        /\ \A q \in Processes \ {p} :
              epc'[q] = epc[q] \/ (epc[q] = "put" /\ epc'[q] = "lost")
    BY <1>4 DEF mc_create
  <2>3. ASSUME NEW q \in Processes, q # p PROVE Control(q)'
    <3>1. /\ epc'[q] = epc[q] \/ (epc[q] = "put" /\ epc'[q] = "lost")
          /\ q \in Creators => stage'[q] = stage[q]
      BY <1>1, <2>2, <2>3
    <3>2. Control(q)
      BY <1>2
    <3> QED BY <2>2, <3>1, <3>2 DEF Control
  <2>4. Control(p)'
    BY <1>1, <1>2, <2>1, <2>2, Kinds DEF Control
  <2> QED BY <2>3, <2>4
<1> QED BY <1>3, <1>4

\* A step that leaves the token of c where it is, although other messages of
\* its queue may leave or come: the message at a position was k places behind.
LEMMA TokensShift ==
    ASSUME NEW c \in Clients, OneToken(c), NEW k \in [Servers -> Nat],
           \A s \in Servers : \A i \in 1..Len(buf'[s]) :
              buf'[s][i].sender = c =>
                 i + k[s] \in 1..Len(buf[s]) /\ buf[s][i + k[s]] = buf'[s][i],
           buf'[c] = buf[c],
           smsg'[c].msg = smsg[c].msg,
           \A s \in Servers : Holds(s, c)' => Holds(s, c) /\ smsg'[s].msg = smsg[s].msg,
           epc[c] = "wait" => epc'[c] = "wait"
    PROVE  OneToken(c)'
<1> DEFINE H(s) == Holds(s, c)
           G(s) == Holds(s, c)'
<1>1. \A s \in Servers : G(s) => H(s) /\ smsg'[s].msg = smsg[s].msg
  OBVIOUS
<1>2. /\ \A s \in Servers : \A i \in 1..Len(buf[s]) :
           buf[s][i].sender = c =>
             /\ epc[c] = "wait" /\ buf[c] = <<>> /\ buf[s][i].msg = smsg[c].msg
             /\ \A r \in Servers : ~H(r)
             /\ \A r \in Servers : \A j \in 1..Len(buf[r]) :
                  buf[r][j].sender = c => r = s /\ j = i
      /\ \A s \in Servers :
           H(s) =>
             /\ epc[c] = "wait" /\ buf[c] = <<>> /\ smsg[s].msg = smsg[c].msg
             /\ \A r \in Servers : H(r) => r = s
      /\ buf[c] # <<>> => epc[c] = "wait" /\ buf[c][1].msg = smsg[c].msg
  BY DEF OneToken
<1> HIDE DEF H, G
<1>3. smsg'[c].msg = smsg[c].msg
  OBVIOUS
<1>4. ASSUME NEW s \in Servers, NEW i \in 1..Len(buf'[s]), buf'[s][i].sender = c
      PROVE  /\ epc'[c] = "wait" /\ buf'[c] = <<>> /\ buf'[s][i].msg = smsg'[c].msg
             /\ \A r \in Servers : ~G(r)
             /\ \A r \in Servers : \A j \in 1..Len(buf'[r]) :
                  buf'[r][j].sender = c => r = s /\ j = i
  <2>1. i + k[s] \in 1..Len(buf[s]) /\ buf[s][i + k[s]] = buf'[s][i]
    BY <1>4
  <2>2. /\ epc[c] = "wait" /\ buf[c] = <<>> /\ buf'[s][i].msg = smsg[c].msg
        /\ \A r \in Servers : ~H(r)
        /\ \A r \in Servers : \A j \in 1..Len(buf[r]) :
             buf[r][j].sender = c => r = s /\ j = i + k[s]
    BY <1>2, <1>4, <2>1
  <2>3. ASSUME NEW r \in Servers, NEW j \in 1..Len(buf'[r]), buf'[r][j].sender = c
        PROVE  r = s /\ j = i
    <3>1. j + k[r] \in 1..Len(buf[r]) /\ buf[r][j + k[r]].sender = c
      BY <2>3
    <3>2. r = s /\ j + k[r] = i + k[s]
      BY <2>2, <3>1
    <3>3. k[s] \in Nat /\ i \in Int /\ j \in Int
      OBVIOUS
    <3> QED BY <3>2, <3>3
  <2> QED BY <1>1, <1>3, <2>2, <2>3
<1>5. ASSUME NEW s \in Servers, G(s)
      PROVE  /\ epc'[c] = "wait" /\ buf'[c] = <<>> /\ smsg'[s].msg = smsg'[c].msg
             /\ \A r \in Servers : G(r) => r = s
  BY <1>1, <1>2, <1>3, <1>5
<1>6. buf'[c] # <<>> => epc'[c] = "wait" /\ buf'[c][1].msg = smsg'[c].msg
  BY <1>2, <1>3
<1> QED BY <1>4, <1>5, <1>6 DEF OneToken, G

\* A step after which no server holds a request that it did not hold before,
\* no message moves, and no client stops to wait.
LEMMA TokensKept ==
    ASSUME NEW c \in Clients, OneToken(c),
           \A q \in Servers \cup {c} : buf'[q] = buf[q],
           \A q \in Servers \cup {c} : smsg'[q].msg = smsg[q].msg,
           \A s \in Servers : Holds(s, c)' => Holds(s, c),
           epc[c] = "wait" => epc'[c] = "wait"
    PROVE  OneToken(c)'
<1> DEFINE k == [s \in Servers |-> 0]
<1>1. k \in [Servers -> Nat]
  OBVIOUS
<1>2. \A s \in Servers : \A i \in 1..Len(buf'[s]) :
        i + k[s] \in 1..Len(buf[s]) /\ buf[s][i + k[s]] = buf'[s][i]
  OBVIOUS
<1> HIDE DEF k
<1>3. /\ buf'[c] = buf[c] /\ smsg'[c].msg = smsg[c].msg
      /\ \A s \in Servers : Holds(s, c)' => Holds(s, c) /\ smsg'[s].msg = smsg[s].msg
  OBVIOUS
<1> QED BY <1>1, <1>2, <1>3, TokensShift

\* The steps that move no message, mc_put and mc_get aside.
LEMMA NothingMoves ==
    ASSUME EIInv, NEW p \in Processes,
           \/ /\ p \in Creators
              /\ \/ shmem_create(p) \/ shmem_create_exists(p)
                 \/ shmem_create_truncate(p) \/ shmem_create_fail(p)
                 \/ shmem_create_map(p) \/ mc_create(p)
                 \/ mc_destroy(p) \/ shmem_destroy(p)
           \/ shmem_open(p) \/ shmem_open_missing(p)
           \/ shmem_open_map(p) \/ shmem_open_fail(p)
           \/ mc_close(p)
           \/ p \in Clients /\ client_quit(p)
    PROVE  \A c \in Clients : OneToken(c)'
<1> SUFFICES ASSUME NEW c \in Clients PROVE OneToken(c)'
  OBVIOUS
<1>1. /\ DOMAIN epc = Processes /\ DOMAIN fd = Processes /\ smsg \in [Processes -> Message]
      /\ DOMAIN buf = Creators /\ DOMAIN rmsg = Processes
  BY DEF EIInv, ETypeOK
<1>2. OneToken(c) /\ c \in Processes /\ c \in Creators /\ c \notin Servers
  BY Kinds DEF EIInv
<1>3. \A s \in Servers : s \in Processes /\ s \notin Clients /\ s \notin Terms
  BY Kinds
<1>4. buf' = buf
  BY DEF shmem_create, shmem_create_exists, shmem_create_truncate, shmem_create_fail,
     shmem_create_map, mc_create, mc_destroy, shmem_destroy, shmem_open,
     shmem_open_missing, shmem_open_map, shmem_open_fail, mc_close, client_quit
<1>5. CASE /\ p \in Creators
           /\ \/ shmem_create(p) \/ shmem_create_exists(p)
              \/ shmem_create_truncate(p) \/ shmem_create_fail(p)
              \/ shmem_create_map(p)
              \/ mc_destroy(p) \/ shmem_destroy(p)
  <2>1. /\ UNCHANGED <<fd, smsg>> /\ epc[p] # "wait"
        /\ \E l \in {"truncate", "map", "init", "ended", "unlink"} :
              epc' = [epc EXCEPT ![p] = l]
    BY <1>5 DEF shmem_create, shmem_create_exists, shmem_create_truncate, shmem_create_fail,
       shmem_create_map, mc_destroy, shmem_destroy, egoto
  <2>2. \A s \in Servers : Holds(s, c)' => Holds(s, c)
    BY <1>1, <1>3, <2>1 DEF Holds
  <2>3. epc[c] = "wait" => epc'[c] = "wait"
    BY <1>1, <1>2, <2>1
  <2> QED BY <1>2, <1>4, <2>1, <2>2, <2>3, TokensKept
<1>6. CASE p \in Creators /\ mc_create(p)
  <2>1. /\ UNCHANGED <<fd, smsg>> /\ epc[p] = "init"
        /\ epc'[p] \in {"get", "connect"} /\ (p \in Servers => epc'[p] = "get")
        /\ \A q \in Processes \ {p} :
              epc'[q] = epc[q] \/ (epc[q] = "put" /\ epc'[q] = "lost")
    BY <1>6 DEF mc_create
  <2>2. \A s \in Servers : Holds(s, c)' => Holds(s, c)
    BY <1>3, <2>1 DEF Holds
  <2>3. epc[c] = "wait" => epc'[c] = "wait"
    BY <1>2, <2>1
  <2> QED BY <1>2, <1>4, <2>1, <2>2, <2>3, TokensKept
<1>7. CASE shmem_open(p)
  <2>1. /\ epc[p] = "connect" /\ epc' = [epc EXCEPT ![p] = "fstat"]
        /\ fd' = [fd EXCEPT ![p] = Wanted(p)] /\ smsg' = smsg
        /\ p \in Servers => Wanted(p) = smsg[p].sender
    BY <1>7, WantedIs DEF shmem_open, egoto
  <2>2. \A s \in Servers : Holds(s, c)' => Holds(s, c)
    BY <1>1, <1>3, <2>1 DEF Holds
  <2>3. epc[c] = "wait" => epc'[c] = "wait"
    BY <1>1, <1>2, <2>1
  <2> QED BY <1>2, <1>4, <2>1, <2>2, <2>3, TokensKept
<1>8. CASE shmem_open_missing(p) \/ shmem_open_fail(p) \/ mc_close(p)
  <2>1. /\ epc[p] \in {"connect", "fstat", "close"} /\ smsg' = smsg
        /\ epc' = [epc EXCEPT ![p] = OpenFailed(p)]
        /\ fd' = fd \/ fd' = [fd EXCEPT ![p] = Nobody]
    BY <1>8 DEF shmem_open_missing, shmem_open_fail, mc_close, egoto
  <2>2. OpenFailed(p) \in {"get", "destroy", "ended"}
    BY DEF OpenFailed
  <2>3. \A s \in Servers : Holds(s, c)' => Holds(s, c)
    BY <1>1, <1>3, <2>1, <2>2 DEF Holds
  <2>4. epc[c] = "wait" => epc'[c] = "wait"
    BY <1>1, <1>2, <2>1
  <2> QED BY <1>2, <1>4, <2>1, <2>3, <2>4, TokensKept
<1>9. CASE shmem_open_map(p)
  <2>1. /\ epc[p] = "fstat" /\ fd' = fd
        /\ epc' = [epc EXCEPT ![p] = OpenDone(p)]
        /\ smsg' = smsg \/ smsg' = [smsg EXCEPT ![p].sender = p]
    BY <1>9 DEF shmem_open_map, egoto
  <2>2. OpenDone(p) \in {"input", "put"}
    BY DEF OpenDone
  <2>3. \A s \in Servers : Holds(s, c)' => Holds(s, c)
    BY <1>1, <1>3, <2>1, <2>2 DEF Holds
  <2>4. epc[c] = "wait" => epc'[c] = "wait"
    BY <1>1, <1>2, <2>1
  <2>5. \A q \in Servers \cup {c} : smsg'[q].msg = smsg[q].msg
    BY <1>1, <1>2, <1>3, <2>1 DEF Message
  <2> QED BY <1>2, <1>4, <2>3, <2>4, <2>5, TokensKept
<1>10. CASE p \in Clients /\ client_quit(p)
  <2>1. /\ UNCHANGED <<fd, smsg>> /\ epc[p] = "input" /\ epc' = [epc EXCEPT ![p] = "close"]
    BY <1>10 DEF client_quit, egoto
  <2>2. \A s \in Servers : Holds(s, c)' => Holds(s, c)
    BY <1>1, <1>3, <2>1 DEF Holds
  <2>3. epc[c] = "wait" => epc'[c] = "wait"
    BY <1>1, <1>2, <2>1
  <2> QED BY <1>2, <1>4, <2>1, <2>2, <2>3, TokensKept
<1> QED BY <1>5, <1>6, <1>7, <1>8, <1>9, <1>10

\* No message of c, if c does not wait.
LEMMA NoToken ==
    ASSUME NEW c \in Clients, OneToken(c), epc[c] # "wait"
    PROVE  /\ \A s \in Servers : \A i \in 1..Len(buf[s]) : buf[s][i].sender # c
           /\ \A s \in Servers : ~Holds(s, c)
           /\ buf[c] = <<>>
BY DEF OneToken

LEMMA InputMoves ==
    ASSUME EIInv, NEW p \in Clients, client_input(p)
    PROVE  \A c \in Clients : OneToken(c)'
<1> SUFFICES ASSUME NEW c \in Clients PROVE OneToken(c)'
  OBVIOUS
<1>1. /\ DOMAIN epc = Processes /\ smsg \in [Processes -> Message] /\ OneToken(c)
  BY DEF EIInv, ETypeOK
<1>2. c \in Processes /\ p \in Processes /\ \A s \in Servers : s \in Processes /\ s # p /\ s # c
  BY Kinds
<1>3. /\ UNCHANGED <<buf, fd>> /\ epc[p] = "input" /\ epc' = [epc EXCEPT ![p] = "put"]
      /\ \A q \in Processes \ {p} : smsg'[q] = smsg[q]
  BY <1>1 DEF client_input, egoto
<1>4. \A s \in Servers : Holds(s, c)' <=> Holds(s, c)
  BY <1>1, <1>2, <1>3 DEF Holds
<1>5. CASE c = p
  <2>1. /\ \A s \in Servers : \A i \in 1..Len(buf[s]) : buf[s][i].sender # c
        /\ \A s \in Servers : ~Holds(s, c)
        /\ buf[c] = <<>>
    BY <1>1, <1>3, <1>5, NoToken
  <2>2. \A s \in Servers : ~Holds(s, c)'
    BY <1>4, <2>1
  <2> QED BY <1>3, <2>1, <2>2 DEF OneToken
<1>6. CASE c # p
  <2>1. epc[c] = "wait" => epc'[c] = "wait"
    BY <1>1, <1>2, <1>3
  <2>2. \A q \in Servers \cup {c} : smsg'[q].msg = smsg[q].msg /\ buf'[q] = buf[q]
    BY <1>2, <1>3, <1>6
  <2> QED BY <1>1, <1>4, <2>1, <2>2, TokensKept
<1> QED BY <1>5, <1>6

\* A message of someone else comes to the channel of the server s.
LEMMA OthersMessageComes ==
    ASSUME EIInv, NEW c \in Clients, NEW s \in Servers, NEW m \in Message, m.sender # c,
           buf' = [buf EXCEPT ![s] = Append(buf[s], m)], smsg' = smsg,
           \A r \in Servers : Holds(r, c)' => Holds(r, c),
           epc[c] = "wait" => epc'[c] = "wait"
    PROVE  OneToken(c)'
<1> DEFINE k == [r \in Servers |-> 0]
<1>1. k \in [Servers -> Nat]
  OBVIOUS
<1>2. buf \in [Creators -> Seq(Message)] /\ OneToken(c)
  BY DEF EIInv, ETypeOK
<1>3. /\ s \in Creators /\ c \in Creators /\ s # c
      /\ \A r \in Servers : r \in Creators /\ buf[r] \in Seq(Message)
  BY <1>2, Kinds
<1>4. ASSUME NEW r \in Servers, NEW i \in 1..Len(buf'[r]), buf'[r][i].sender = c
      PROVE  i + k[r] \in 1..Len(buf[r]) /\ buf[r][i + k[r]] = buf'[r][i]
  <2>1. CASE r # s
    <3>1. buf'[r] = buf[r] /\ k[r] = 0 /\ i + 0 = i
      BY <1>2, <1>3, <2>1
    <3> QED BY <3>1
  <2>2. CASE r = s
    <3>1. buf'[r] = Append(buf[r], m) /\ buf[r] \in Seq(Message)
      BY <1>2, <1>3, <2>2
    <3>2. i # Len(buf[r]) + 1
      BY <1>4, <3>1
    <3>3. i \in 1..Len(buf[r]) /\ buf'[r][i] = buf[r][i] /\ k[r] = 0 /\ i + 0 = i
      BY <3>1, <3>2
    <3> QED BY <3>3
  <2> QED BY <2>1, <2>2
<1> HIDE DEF k
<1>5. /\ buf'[c] = buf[c] /\ smsg'[c].msg = smsg[c].msg
      /\ \A r \in Servers : Holds(r, c)' => Holds(r, c) /\ smsg'[r].msg = smsg[r].msg
  BY <1>2, <1>3
<1> QED BY <1>1, <1>2, <1>4, <1>5, TokensShift

LEMMA PutMoves ==
    ASSUME EIInv, NEW p \in Processes, mc_put(p)
    PROVE  \A c \in Clients : OneToken(c)'
<1> SUFFICES ASSUME NEW c \in Clients PROVE OneToken(c)'
  OBVIOUS
<1>1. /\ DOMAIN epc = Processes /\ smsg \in [Processes -> Message] /\ OneToken(c)
      /\ buf \in [Creators -> Seq(Message)] /\ Control(p)
  BY DEF EIInv, ETypeOK
<1>2. /\ c \in Processes /\ c \in Creators /\ c \notin Servers /\ c # Nobody
      /\ \A s \in Servers : s \in Processes /\ s \in Creators /\ s \notin Clients
  BY Kinds
<1>3. /\ epc[p] = "put" /\ UNCHANGED <<fd, smsg>> /\ smsg[p] \in Message
      /\ buf' = [buf EXCEPT ![fd[p]] = Append(buf[fd[p]], smsg[p])]
      /\ epc' = [epc EXCEPT ![p] = PutDone(p)] /\ PutDone(p) \notin {"connect", "fstat", "put"}
  BY <1>1 DEF mc_put, egoto, PutDone
<1>4. /\ \A s \in Servers : Holds(s, c)' <=> (Holds(s, c) /\ s # p)
      /\ c # p => epc'[c] = epc[c]
  BY <1>1, <1>2, <1>3 DEF Holds
<1>5. CASE p \in Terms \/ (p \in Clients /\ p # c)
  <2>1. fd[p] \in Servers /\ smsg[p].sender # c /\ p # c
    BY <1>1, <1>2, <1>3, <1>5, Kinds DEF Control, StopMsg
  <2> QED BY <1>3, <1>4, <2>1, OthersMessageComes
<1>6. CASE p \in Clients /\ p = c
  <2>1. /\ \A s \in Servers : \A i \in 1..Len(buf[s]) : buf[s][i].sender # c
        /\ \A s \in Servers : ~Holds(s, c)
        /\ buf[c] = <<>>
    BY <1>1, <1>3, <1>6, NoToken
  <2>2. fd[p] \in Servers /\ fd[p] \in Creators /\ fd[p] # c
    BY <1>1, <1>2, <1>3, <1>6 DEF Control
  <2>3. epc'[c] = "wait" /\ buf'[c] = <<>> /\ \A s \in Servers : ~Holds(s, c)'
    BY <1>1, <1>2, <1>3, <1>4, <1>6, <2>1, <2>2 DEF PutDone
  <2>4. ASSUME NEW s \in Servers, NEW i \in 1..Len(buf'[s]), buf'[s][i].sender = c
        PROVE  s = fd[p] /\ i = Len(buf[fd[p]]) + 1 /\ buf'[s][i] = smsg[p]
    <3>1. buf[s] \in Seq(Message)
      BY <1>1, <1>2
    <3>2. s = fd[p]
      <4>1. s # fd[p] => buf'[s] = buf[s]
        BY <1>1, <1>2, <1>3
      <4> QED BY <2>1, <2>4, <4>1
    <3>3. buf'[s] = Append(buf[s], smsg[p])
      BY <1>1, <1>2, <1>3, <3>2
    <3> QED BY <1>3, <2>1, <2>4, <3>1, <3>2, <3>3
  <2>5. smsg'[c] = smsg[c] /\ smsg[p] = smsg[c]
    BY <1>3, <1>6
  <2>6. ASSUME NEW s \in Servers, NEW i \in 1..Len(buf'[s]), buf'[s][i].sender = c
        PROVE  /\ epc'[c] = "wait" /\ buf'[c] = <<>> /\ buf'[s][i].msg = smsg'[c].msg
               /\ \A r \in Servers : ~Holds(r, c)'
               /\ \A r \in Servers : \A j \in 1..Len(buf'[r]) :
                    buf'[r][j].sender = c => r = s /\ j = i
    <3>1. s = fd[p] /\ i = Len(buf[fd[p]]) + 1 /\ buf'[s][i] = smsg[p]
      BY <2>4, <2>6
    <3> QED BY <2>3, <2>4, <2>5, <3>1
  <2> QED BY <2>3, <2>6 DEF OneToken
<1>7. CASE p \in Servers /\ fd[p] # c
  <2>1. fd[p] \in Clients
    BY <1>1, <1>3, <1>7 DEF Control
  <2>2. \A q \in Servers \cup {c} : buf'[q] = buf[q] /\ smsg'[q].msg = smsg[q].msg
    BY <1>1, <1>2, <1>3, <1>7, <2>1
  <2> QED BY <1>1, <1>2, <1>4, <1>7, <2>2, TokensKept
<1>8. CASE p \in Servers /\ fd[p] = c
  <2>1. Holds(p, c)
    BY <1>3, <1>8 DEF Holds
  <2>2. /\ epc[c] = "wait" /\ buf[c] = <<>> /\ smsg[p].msg = smsg[c].msg
        /\ \A r \in Servers : Holds(r, c) => r = p
        /\ \A s \in Servers : \A i \in 1..Len(buf[s]) : buf[s][i].sender # c
    BY <1>1, <1>8, <2>1 DEF OneToken
  <2>3. /\ \A s \in Servers : ~Holds(s, c)' /\ buf'[s] = buf[s]
        /\ epc'[c] = "wait"
    BY <1>1, <1>2, <1>3, <1>4, <1>8, <2>2
  <2>4. buf'[c] = <<smsg[p]>>
    BY <1>1, <1>2, <1>3, <1>8, <2>2
  <2>5. buf'[c][1].msg = smsg'[c].msg
    BY <1>3, <2>2, <2>4
  <2>6. \A s \in Servers : \A i \in 1..Len(buf'[s]) : buf'[s][i].sender # c
    BY <2>2, <2>3
  <2> QED BY <2>3, <2>5, <2>6 DEF OneToken
<1> QED BY <1>5, <1>6, <1>7, <1>8, Kinds

LEMMA ServerGetMoves ==
    ASSUME EIInv, NEW p \in Servers, server_get(p)
    PROVE  \A c \in Clients : OneToken(c)'
<1> SUFFICES ASSUME NEW c \in Clients PROVE OneToken(c)'
  OBVIOUS
<1>1. /\ DOMAIN epc = Processes /\ smsg \in [Processes -> Message] /\ OneToken(c)
      /\ buf \in [Creators -> Seq(Message)]
  BY DEF EIInv, ETypeOK
<1>2. /\ c \in Processes /\ c \in Creators /\ c \notin Servers /\ c # Nobody
      /\ \A s \in Servers : s \in Processes /\ s \in Creators /\ s \notin Clients
  BY Kinds
<1> DEFINE m == Head(buf[p])
<1>3. /\ epc[p] = "get" /\ fd' = fd /\ buf[p] # <<>>
      /\ smsg' = [smsg EXCEPT ![p] = m] /\ buf' = [buf EXCEPT ![p] = Tail(buf[p])]
      /\ epc' = [epc EXCEPT ![p] = IF m = StopMsg THEN "destroy" ELSE "connect"]
  BY DEF server_get, egoto
<1>4. /\ buf[p] \in Seq(Message) /\ m = buf[p][1] /\ 1 \in 1..Len(buf[p])
      /\ Len(Tail(buf[p])) = Len(buf[p]) - 1
      /\ \A i \in 1..Len(Tail(buf[p])) : i + 1 \in 1..Len(buf[p]) /\ Tail(buf[p])[i] = buf[p][i + 1]
  BY <1>1, <1>2, <1>3
<1>5. /\ buf'[p] = Tail(buf[p]) /\ buf'[c] = buf[c] /\ smsg'[p] = m /\ smsg'[c] = smsg[c]
      /\ epc'[c] = epc[c]
      /\ \A s \in Servers : s # p => buf'[s] = buf[s] /\ smsg'[s] = smsg[s] /\ epc'[s] = epc[s]
  BY <1>1, <1>2, <1>3
<1>6. \A i \in 1..Len(buf'[p]) : i + 1 \in 1..Len(buf[p]) /\ buf'[p][i] = buf[p][i + 1]
  BY <1>4, <1>5
<1>7. \A s \in Servers : s # p => (Holds(s, c)' <=> Holds(s, c))
  BY <1>3, <1>5 DEF Holds
<1>8. epc'[p] \in {"destroy", "connect"}
  BY <1>1, <1>2, <1>3
<1>9. CASE m.sender = c
  <2>1. /\ epc[c] = "wait" /\ buf[c] = <<>> /\ m.msg = smsg[c].msg
        /\ \A r \in Servers : ~Holds(r, c)
        /\ \A r \in Servers : \A j \in 1..Len(buf[r]) :
             buf[r][j].sender = c => r = p /\ j = 1
    BY <1>1, <1>4, <1>9 DEF OneToken
  <2>2. ASSUME NEW s \in Servers, NEW i \in 1..Len(buf'[s]) PROVE buf'[s][i].sender # c
    <3>1. CASE s # p
      BY <1>5, <2>1, <3>1
    <3>2. CASE s = p
      <4>1. i + 1 \in 1..Len(buf[p]) /\ buf'[s][i] = buf[p][i + 1] /\ i + 1 # 1
        BY <1>6, <3>2
      <4> QED BY <2>1, <4>1
    <3> QED BY <3>1, <3>2
  <2>3. \A r \in Servers : Holds(r, c)' => r = p
    BY <1>7, <2>1
  <2> QED BY <1>5, <2>1, <2>2, <2>3 DEF OneToken
<1>10. CASE m.sender # c
  <2> DEFINE k == [s \in Servers |-> IF s = p THEN 1 ELSE 0]
  <2>1. k \in [Servers -> Nat]
    OBVIOUS
  <2>2. ASSUME NEW s \in Servers, NEW i \in 1..Len(buf'[s])
        PROVE  i + k[s] \in 1..Len(buf[s]) /\ buf[s][i + k[s]] = buf'[s][i]
    <3>1. CASE s = p
      <4>1. k[s] = 1
        BY <3>1
      <4> QED BY <1>6, <3>1, <4>1
    <3>2. CASE s # p
      <4>1. k[s] = 0 /\ i + 0 = i /\ buf'[s] = buf[s]
        BY <1>5, <3>2
      <4> QED BY <4>1
    <3> QED BY <3>1, <3>2
  <2> HIDE DEF k
  <2>3. ~Holds(p, c)'
    BY <1>5, <1>8, <1>10 DEF Holds
  <2>4. \A s \in Servers : Holds(s, c)' => Holds(s, c) /\ smsg'[s].msg = smsg[s].msg
    BY <1>5, <1>7, <2>3
  <2> QED BY <1>1, <1>5, <2>1, <2>2, <2>4, TokensShift
<1> QED BY <1>9, <1>10

LEMMA ClientGetMoves ==
    ASSUME EIInv, NEW p \in Clients, client_get(p)
    PROVE  /\ \A c \in Clients : OneToken(c)'
           /\ rmsg'[p].msg = smsg'[p].msg
<1>1. /\ DOMAIN epc = Processes /\ smsg' = smsg /\ fd' = fd /\ epc[p] = "wait"
      /\ buf \in [Creators -> Seq(Message)] /\ DOMAIN rmsg = Processes
      /\ epc' = [epc EXCEPT ![p] = "input"] /\ buf[p] # <<>>
      /\ buf' = [buf EXCEPT ![p] = Tail(buf[p])] /\ rmsg' = [rmsg EXCEPT ![p] = Head(buf[p])]
      /\ Len(buf[p]) <= Capacity(p)
  BY Kinds DEF EIInv, ETypeOK, client_get, egoto
<1>2. /\ p \in Processes /\ p \in Creators /\ Capacity(p) = 1
      /\ \A s \in Servers : s \in Processes /\ s \in Creators /\ s # p /\ s \notin Clients
  BY Kinds DEF Capacity
<1>3. buf[p] \in Seq(Message) /\ Tail(buf[p]) = <<>> /\ Head(buf[p]) = buf[p][1]
  BY <1>1, <1>2
<1>4. /\ \A s \in Servers : \A i \in 1..Len(buf[s]) : buf[s][i].sender # p
      /\ \A s \in Servers : ~Holds(s, p)
      /\ buf[p][1].msg = smsg[p].msg
  BY <1>1 DEF EIInv, OneToken
<1>5. \A s \in Servers : buf'[s] = buf[s] /\ epc'[s] = epc[s]
  BY <1>1, <1>2
<1>6. \A s \in Servers : \A c \in Clients : Holds(s, c)' <=> Holds(s, c)
  BY <1>1, <1>5 DEF Holds
<1>7. ASSUME NEW c \in Clients PROVE OneToken(c)'
  <2>1. OneToken(c) /\ c \in Processes /\ c \in Creators
    BY Kinds DEF EIInv
  <2>2. CASE c = p
    <3>1. buf'[c] = <<>> /\ \A s \in Servers : ~Holds(s, c)'
      BY <1>1, <1>2, <1>3, <1>4, <1>6, <2>2
    <3>2. \A s \in Servers : \A i \in 1..Len(buf'[s]) : buf'[s][i].sender # c
      BY <1>4, <1>5, <2>2
    <3> QED BY <3>1, <3>2 DEF OneToken
  <2>3. CASE c # p
    <3>1. \A q \in Servers \cup {c} : buf'[q] = buf[q] /\ smsg'[q].msg = smsg[q].msg
      BY <1>1, <1>5, <2>1, <2>3
    <3>2. \A s \in Servers : Holds(s, c)' => Holds(s, c)
      BY <1>6
    <3>3. epc[c] = "wait" => epc'[c] = "wait"
      BY <1>1, <2>1, <2>3
    <3> QED BY <2>1, <3>1, <3>2, <3>3, TokensKept
  <2> QED BY <2>2, <2>3
<1>8. rmsg'[p].msg = smsg'[p].msg
  BY <1>1, <1>2, <1>3, <1>4
<1> QED BY <1>7, <1>8

\* What a client has read last changes only when it takes a reply.
LEMMA EchoesKept ==
    ASSUME EIInv, NEW p \in Processes,
           \/ EStep(p)
           \/ p \in Clients /\ (client_input(p) \/ client_quit(p))
    PROVE  Echoed'
<1> SUFFICES ASSUME NEW c \in Clients, epc'[c] \notin {"put", "lost", "wait"}
             PROVE  rmsg'[c].msg = smsg'[c].msg
  BY DEF Echoed
<1>1. /\ epc[c] \notin {"put", "lost", "wait"} => rmsg[c].msg = smsg[c].msg
      /\ DOMAIN epc = Processes
  BY DEF EIInv, ETypeOK, Echoed
<1>2. c \in Processes /\ c \notin Servers
  BY Kinds
<1>3. CASE p \in Creators /\ mc_create(p)
  <2>1. /\ UNCHANGED <<smsg, rmsg>>
        /\ \A q \in Processes : \/ q = p /\ epc[q] = "init"
                                \/ epc'[q] = epc[q]
                                \/ epc[q] = "put" /\ epc'[q] = "lost"
    BY <1>3 DEF mc_create
  <2> QED BY <1>1, <1>2, <2>1
<1>4. CASE ~(p \in Creators /\ mc_create(p))
  <2>1. CASE p # c
    BY <1>1, <1>2, <1>4, <2>1, OthersStay
  <2>2. CASE p = c
    <3>1. CASE client_get(p)
      BY <2>2, <3>1, ClientGetMoves
    <3>2. CASE mc_put(p) \/ client_input(p)
      <4>1. epc'[c] \in {"wait", "put"}
        BY <1>1, <1>2, <2>2, <3>2 DEF mc_put, client_input, PutDone, egoto
      <4> QED BY <4>1
    <3>3. CASE ~(client_get(p) \/ mc_put(p) \/ client_input(p))
      <4>1. /\ epc[c] \notin {"put", "lost", "wait"} /\ UNCHANGED <<smsg, rmsg>>
        BY <1>2, <1>4, <2>2, <3>3 DEF EStep, shmem_create, shmem_create_exists,
           shmem_create_truncate, shmem_create_fail, shmem_create_map, mc_destroy,
           shmem_destroy, shmem_open, shmem_open_missing, shmem_open_map,
           shmem_open_fail, mc_close, client_quit
      <4> QED BY <1>1, <4>1
    <3> QED BY <3>1, <3>2, <3>3
  <2> QED BY <2>1, <2>2
<1> QED BY <1>3, <1>4

LEMMA EchoNext == EIInv /\ [ENext]_evars => EIInv'
<1> SUFFICES ASSUME EIInv, [ENext]_evars PROVE EIInv'
  OBVIOUS
<1>1. CASE UNCHANGED evars
  BY <1>1 DEF evars, EIInv, ETypeOK, Capacity, NameIsOwners, NameOf, Owners, Echoed,
     Control, OneToken, Holds
<1>2. ASSUME NEW p \in Processes, EStep(p) PROVE EIInv'
  <2>1. ETypeOK' /\ NameIsOwners' /\ Owners' /\ Echoed' /\ \A q \in Processes : Control(q)'
    BY <1>2, EchoTypes, NamesKept, EchoesKept, ControlKept
  <2>2. \A c \in Clients : OneToken(c)'
    BY <1>2, NothingMoves, PutMoves, ServerGetMoves, ClientGetMoves DEF EStep
  <2> QED BY <2>1, <2>2 DEF EIInv
<1>3. ASSUME NEW c \in Clients, client_input(c) \/ client_quit(c) PROVE EIInv'
  <2>1. c \in Processes
    BY Kinds
  <2>2. ETypeOK' /\ NameIsOwners' /\ Owners' /\ Echoed' /\ \A q \in Processes : Control(q)'
    BY <1>3, <2>1, UserTypes, NamesKept, EchoesKept, ControlKept
  <2>3. \A d \in Clients : OneToken(d)'
    BY <1>3, <2>1, NothingMoves, InputMoves
  <2> QED BY <2>2, <2>3 DEF EIInv
<1> QED BY <1>1, <1>2, <1>3 DEF ENext

\* A client's token is counted at most once.
LEMMA TokenCounts ==
    ASSUME EIInv, NEW c \in Clients
    PROVE  Cardinality(Queued(c)) + Cardinality(Held(c)) + Len(buf[c])
             <= (IF epc[c] = "wait" THEN 1 ELSE 0)
<1>1. /\ OneToken(c) /\ buf \in [Creators -> Seq(Message)] /\ Len(buf[c]) <= Capacity(c)
      /\ Capacity(c) = 1 /\ c \in Creators
  BY Kinds DEF EIInv, ETypeOK, Capacity
<1>2. /\ Cardinality({}) = 0
      /\ \A S : S = {} => Cardinality(S) = 0
  BY FS_EmptySet
<1>3. buf[c] \in Seq(Message) /\ Len(buf[c]) \in {0, 1} /\ (Len(buf[c]) = 0 <=> buf[c] = <<>>)
  <2>1. buf[c] \in Seq(Message) /\ Len(buf[c]) <= 1
    BY <1>1
  <2>2. Len(buf[c]) \in Nat /\ (Len(buf[c]) = 0 <=> buf[c] = <<>>)
    BY <2>1
  <2>3. \A n \in Nat : n <= 1 => n \in {0, 1}
    OBVIOUS
  <2> QED BY <2>1, <2>2, <2>3
<1>4. \A q \in Queued(c) : /\ q[1] \in Servers /\ q[2] \in 1..Len(buf[q[1]])
                           /\ buf[q[1]][q[2]].sender = c /\ q = <<q[1], q[2]>>
  BY <1>1, Kinds DEF Queued
<1>5. \A s \in Held(c) : s \in Servers /\ Holds(s, c)
  BY DEF Held, Holds
<1>6. CASE Queued(c) # {}
  <2>1. PICK q \in Queued(c) : TRUE
    BY <1>6
  <2>2. /\ epc[c] = "wait" /\ buf[c] = <<>>
        /\ \A r \in Servers : ~Holds(r, c)
        /\ \A r \in Servers : \A j \in 1..Len(buf[r]) :
             buf[r][j].sender = c => r = q[1] /\ j = q[2]
    BY <1>1, <1>4 DEF OneToken
  <2>3. Held(c) = {}
    BY <1>5, <2>2
  <2>4. Queued(c) = {q}
    <3>1. \A x \in Queued(c) : x = q
      BY <1>4, <2>2
    <3> QED BY <2>1, <3>1
  <2>5. Cardinality(Queued(c)) = 1 /\ Cardinality(Held(c)) = 0
    BY <1>2, <2>3, <2>4, FS_Singleton
  <2> QED BY <1>3, <2>2, <2>5
<1>7. CASE Queued(c) = {} /\ Held(c) # {}
  <2>1. PICK s \in Held(c) : TRUE
    BY <1>7
  <2>2. epc[c] = "wait" /\ buf[c] = <<>> /\ \A r \in Servers : Holds(r, c) => r = s
    BY <1>1, <1>5 DEF OneToken
  <2>3. Held(c) = {s}
    BY <1>5, <2>1, <2>2
  <2>4. Cardinality(Queued(c)) = 0 /\ Cardinality(Held(c)) = 1
    BY <1>2, <1>7, <2>3, FS_Singleton
  <2> QED BY <1>3, <2>2, <2>4
<1>8. CASE Queued(c) = {} /\ Held(c) = {}
  <2>1. Cardinality(Queued(c)) = 0 /\ Cardinality(Held(c)) = 0
    BY <1>2, <1>8
  <2>2. Len(buf[c]) = 1 => epc[c] = "wait"
    BY <1>1, <1>3 DEF OneToken
  <2>3. CASE Len(buf[c]) = 0
    BY <2>1, <2>3
  <2>4. CASE Len(buf[c]) = 1
    BY <2>1, <2>2, <2>4
  <2> QED BY <1>3, <2>3, <2>4
<1> QED BY <1>6, <1>7, <1>8

\* A server about to reply finds the channel of its client empty and alive.
LEMMA ReplyHasSpace ==
    ASSUME EIInv, NEW s \in Servers, epc[s] = "put"
    PROVE  stage[fd[s]] = "ready" /\ buf[fd[s]] = <<>>
<1>1. s \in Processes /\ fd[s] \in Clients
  BY Kinds DEF EIInv, Control
<1>2. Holds(s, fd[s]) /\ OneToken(fd[s]) /\ Control(fd[s]) /\ fd[s] \in Creators
  BY <1>1, Kinds DEF Holds, EIInv
<1>3. epc[fd[s]] = "wait" /\ buf[fd[s]] = <<>>
  BY <1>1, <1>2 DEF OneToken
<1> QED BY <1>2, <1>3 DEF Control

THEOREM EchoInvariant == ESpec => []EIInv
<1>1. EInit => EIInv
  BY EchoInit
<1>2. EIInv /\ [ENext]_evars => EIInv'
  BY EchoNext
<1> QED BY <1>1, <1>2, PTL DEF ESpec

\* Names and messages have one owner: a name is bound from the creation of an
\* object to the end of its creator, and a request or its reply exists once.
THEOREM EchoIsSafe == ESpec => []EchoInv
<1>1. EIInv => EchoInv
  BY TokenCounts DEF EIInv, EchoInv, OneOutstanding
<1> QED BY <1>1, EchoInvariant, PTL

\* The server's loop never blocks on a client, and never writes into a channel
\* that its client destroyed.
THEOREM ServerStaysFree == ESpec => []ServerNeverBlocks
<1>1. EIInv => ServerNeverBlocks
  BY ReplyHasSpace DEF ServerNeverBlocks
<1> QED BY <1>1, EchoInvariant, PTL

\* A client prints the echo of the line that it sent last.
THEOREM RepliesAreMine == ESpec => []ReplyIsMine
<1>1. EIInv => ReplyIsMine
  BY DEF EIInv, Echoed, ReplyIsMine
<1> QED BY <1>1, EchoInvariant, PTL
=============================================================================
