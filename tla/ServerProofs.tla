---------------------------- MODULE ServerProofs -----------------------------
(***************************************************************************)
(* Proofs about Server for every value of its constants: any number of     *)
(* connections and descriptors, any sizes, all faults, from the first step *)
(* of start on.  The tables of descriptors agree, an event finds the       *)
(* connection it was collected for, and nothing is open after the server   *)
(* has stopped or failed to start.  However requests and replies are cut   *)
(* into pieces, every request is executed once and every reply comes once  *)
(* and in order; and epoll watches a client for writing exactly when a     *)
(* reply waits.                                                            *)
(***************************************************************************)
EXTENDS Server, FiniteSetTheorems, SequenceTheorems, WellFoundedInduction, TLAPS

-----------------------------------------------------------------------------
(* The inductive invariant.  That an event finds its connection rests on   *)
(* all of it: on no descriptor being named twice in a batch, on the        *)
(* descriptor of the running callback not being named in it any more, and  *)
(* on nothing being accepted after a shutdown.                             *)

Phases == {"new", "waiting", "accepted", "closed"}
Events == {"IN", "OUT", "RDHUP", "ERR", "HUP"}
Fds == {LISTEN, SIGNAL} \cup ClientFds
Stages == {"idle", "accept", "read", "write"}
InClient == handler.stage \in {"read", "write"}

SocketsInv ==
  /\ DOMAIN sock = Conns
  /\ \A c \in Conns : "phase" \in DOMAIN sock[c] /\ sock[c].phase \in Phases

TablesInv ==
  /\ services \subseteq {LISTEN, SIGNAL}
  /\ DOMAIN clients \subseteq ClientFds
  /\ callbacks = DOMAIN interest
  /\ callbacks = DOMAIN clients \cup services
  /\ connected_clients = Cardinality(DOMAIN clients)

OwnersInv ==
  /\ \A fd \in DOMAIN clients : /\ "conn" \in DOMAIN clients[fd]
                                /\ clients[fd].conn \in Conns
                                /\ sock[clients[fd].conn].phase = "accepted"
  /\ \A c \in Conns : sock[c].phase = "accepted" => \E fd \in DOMAIN clients : clients[fd].conn = c
  /\ \A f, g \in DOMAIN clients : clients[f].conn = clients[g].conn => f = g

BacklogInv ==
  /\ backlog \in Seq(Conns)
  /\ \A i \in 1..Len(backlog) : sock[backlog[i]].phase = "waiting"
  /\ \A i, j \in 1..Len(backlog) : backlog[i] = backlog[j] => i = j

HandlerInv ==
  /\ handler = Running(handler.stage, handler.fd, handler.events)
  /\ handler.stage \in Stages
  /\ handler.stage = "idle" => handler = Idle
  /\ InClient => handler.fd \in DOMAIN clients

BatchEvent == [fd : Fds, events : SUBSET Events, conn : Conns \cup {NoConn}]

BatchInv ==
  /\ batch \in Seq(BatchEvent)
  /\ \A i, j \in 1..Len(batch) : batch[i].fd = batch[j].fd => i = j
  /\ running => \A i \in 1..Len(batch) : batch[i].fd \in ClientFds =>
                  /\ batch[i].fd \in DOMAIN clients
                  /\ clients[batch[i].fd].conn = batch[i].conn
  /\ InClient => \A i \in 1..Len(batch) : batch[i].fd # handler.fd

LifeInv ==
  /\ running => life = "serving"
  /\ life \in Starting => batch = <<>> /\ LISTEN \notin services
  /\ life = "sigprocmask" => services = {}

StopInv ==
  ~running => /\ DOMAIN clients = {}
              /\ handler.stage = "idle"
              /\ life \notin Starting => services = {}
              /\ life # "add listen" =>
                   /\ backlog = <<>>
                   /\ \A c \in Conns : sock[c].phase \in {"new", "closed"}

IInv == /\ SocketsInv /\ TablesInv /\ OwnersInv /\ BacklogInv
        /\ HandlerInv /\ BatchInv /\ LifeInv /\ StopInv

-----------------------------------------------------------------------------
(* Facts about descriptors.                                                *)

LEMMA ServicesAreNoClients == LISTEN \notin ClientFds /\ SIGNAL \notin ClientFds /\ LISTEN # SIGNAL
BY ServerAssumption DEF ServerAssumption, LISTEN, SIGNAL, ClientFds

LEMMA ClientsFinite ==
  ASSUME TablesInv
  PROVE  /\ IsFiniteSet(DOMAIN clients)
         /\ IsFiniteSet(DOMAIN interest)
         /\ Cardinality(DOMAIN clients) \in Nat
<1>1. IsFiniteSet(ClientFds)
  BY FS_Interval, ServerAssumption DEF ServerAssumption, ClientFds
<1>2. IsFiniteSet(DOMAIN clients)
  BY <1>1, FS_Subset DEF TablesInv
<1>3. IsFiniteSet({LISTEN} \cup {SIGNAL})
  BY FS_Singleton, FS_AddElement
<1>4. IsFiniteSet(services)
  BY <1>3, FS_Subset DEF TablesInv
<1> QED
  BY <1>2, <1>4, FS_Union, FS_CardinalityType DEF TablesInv

LEMMA LeastFree ==
  ASSUME FreeFds # {}
  PROVE  Min(FreeFds) \in FreeFds
<1>1. FreeFds \subseteq Nat
  BY ServerAssumption DEF ServerAssumption, FreeFds, ClientFds
<1>2. PICK x \in FreeFds : \A y \in FreeFds : ~ (<<y, x>> \in OpToRel(<, Nat))
  BY <1>1, NatLessThanWellFounded, WFMin
<1>3. \A y \in FreeFds : ~(y < x)
  BY <1>1, <1>2 DEF OpToRel
<1>4. \A y \in FreeFds : x <= y
  BY <1>1, <1>3
<1> QED
  BY <1>4 DEF Min

\* The batch without the event whose turn it is names no descriptor of it any more.
LEMMA RestOfBatch ==
  ASSUME BatchInv, batch # <<>>
  PROVE  /\ Turn \in BatchEvent
         /\ Turn = batch[1] /\ 1 \in 1..Len(batch)
         /\ Tail(batch) \in Seq(BatchEvent)
         /\ \A i \in 1..Len(Tail(batch)) : /\ i + 1 \in 1..Len(batch)
                                           /\ Tail(batch)[i] = batch[i + 1]
                                           /\ Tail(batch)[i].fd # Turn.fd
<1>1. /\ batch \in Seq(BatchEvent) /\ Turn = batch[1] /\ 1 \in 1..Len(batch)
      /\ Tail(batch) \in Seq(BatchEvent)
  BY DEF BatchInv, Turn
<1>2. ASSUME NEW i \in 1..Len(Tail(batch))
      PROVE  i + 1 \in 1..Len(batch) /\ Tail(batch)[i] = batch[i + 1] /\ i + 1 # 1
  BY <1>1
<1>3. Turn \in BatchEvent
  BY <1>1
<1> QED
  BY <1>1, <1>2, <1>3 DEF BatchInv

\* A batch that is the old one or its rest, and where the invariant asks no more.
Shrunk == \/ batch' = batch
          \/ batch # <<>> /\ batch' = Tail(batch)

LEMMA ShrunkBatch ==
  ASSUME BatchInv, Shrunk
  PROVE  /\ batch' \in Seq(BatchEvent)
         /\ \A i, j \in 1..Len(batch') : batch'[i].fd = batch'[j].fd => i = j
         /\ \A i \in 1..Len(batch') : \E j \in 1..Len(batch) : batch'[i] = batch[j]
<1>1. CASE batch' = batch
  BY <1>1 DEF BatchInv
<1>2. CASE batch # <<>> /\ batch' = Tail(batch)
  <2>1. /\ batch' \in Seq(BatchEvent)
        /\ \A i \in 1..Len(batch') : i + 1 \in 1..Len(batch) /\ batch'[i] = batch[i + 1]
    BY <1>2, RestOfBatch
  <2>2. ASSUME NEW i \in 1..Len(batch'), NEW j \in 1..Len(batch'), batch'[i].fd = batch'[j].fd
        PROVE  i = j
    <3>1. i + 1 = j + 1
      BY <2>1, <2>2 DEF BatchInv
    <3>2. i \in Int /\ j \in Int
      BY <2>1
    <3> QED
      BY <3>1, <3>2
  <2> QED
    BY <2>1, <2>2
<1> QED
  BY <1>1, <1>2 DEF Shrunk

-----------------------------------------------------------------------------
(* Steps that open and close nothing.                                      *)

SamePhases ==
  /\ DOMAIN sock' = Conns
  /\ \A c \in Conns : "phase" \in DOMAIN sock'[c] /\ sock'[c].phase = sock[c].phase
SameOwners ==
  /\ DOMAIN clients' = DOMAIN clients
  /\ \A fd \in DOMAIN clients : /\ "conn" \in DOMAIN clients'[fd]
                                /\ clients'[fd].conn = clients[fd].conn
SameTables ==
  /\ UNCHANGED <<backlog, callbacks, services, connected_clients, running, life>>
  /\ DOMAIN interest' = DOMAIN interest

LEMMA QuietStep ==
  ASSUME IInv, SamePhases, SameOwners, SameTables, HandlerInv', BatchInv',
         ~running => handler'.stage = "idle", life \in Starting => batch' = <<>>
  PROVE  IInv'
<1>1. SocketsInv'
  BY DEF IInv, SocketsInv, SamePhases
<1>2. TablesInv'
  BY DEF IInv, TablesInv, SameOwners, SameTables
<1>3. OwnersInv'
  BY DEF IInv, OwnersInv, SamePhases, SameOwners
<1>4. BacklogInv'
  <2>1. backlog' = backlog /\ backlog \in Seq(Conns)
    BY DEF IInv, BacklogInv, SameTables
  <2>2. \A i \in 1..Len(backlog) : backlog[i] \in Conns
    BY <2>1
  <2> QED
    BY <2>1, <2>2 DEF IInv, BacklogInv, SamePhases
<1>5. StopInv'
  BY DEF IInv, StopInv, SamePhases, SameOwners, SameTables
<1>6. LifeInv'
  BY DEF IInv, LifeInv, SameTables
<1> QED
  BY <1>1, <1>2, <1>3, <1>4, <1>5, <1>6 DEF IInv

\* The callback that runs goes on, ends, or comes to its writing part.
Proceeds == \/ handler' = handler
            \/ handler' = Idle
            \/ InClient /\ handler' = Running("write", handler.fd, handler.events)

LEMMA ProceedsQuietly ==
  ASSUME IInv, SamePhases, SameOwners, SameTables, UNCHANGED batch, Proceeds
  PROVE  IInv'
<1>1. HandlerInv'
  BY DEF IInv, HandlerInv, Proceeds, SameOwners, InClient, Idle, Running, Stages
<1>2. InClient' => InClient /\ handler'.fd = handler.fd
  BY DEF IInv, HandlerInv, Proceeds, InClient, Idle, Running
<1>3. BatchInv'
  BY <1>2 DEF IInv, BatchInv, SameOwners, SameTables
<1>4. ~running => handler'.stage = "idle"
  <2>1. ~running => handler.stage = "idle"
    BY DEF IInv, StopInv
  <2> QED
    BY <2>1 DEF Proceeds, InClient, Idle
<1> QED
  BY <1>1, <1>3, <1>4, QuietStep DEF IInv, LifeInv

LEMMA GoesTo ==
  ASSUME IInv, InClient, NEW stage \in {"idle", "write"}, GoTo(stage)
  PROVE  Proceeds
BY DEF IInv, HandlerInv, GoTo, Proceeds, Running, Idle

-----------------------------------------------------------------------------
(* Closing one client, and all of them.                                    *)

LEMMA CloseTables ==
  ASSUME IInv, NEW fd \in DOMAIN clients, CloseClient(fd)
  PROVE  TablesInv'
<1>1. IsFiniteSet(DOMAIN clients) /\ Cardinality(DOMAIN clients) \in Nat
  BY ClientsFinite DEF IInv
<1>2. DOMAIN clients' = DOMAIN clients \ {fd}
  BY DEF CloseClient, CloseClientOf, Without, Restrict
<1>3. Cardinality(DOMAIN clients') = Cardinality(DOMAIN clients) - 1
  BY <1>1, <1>2, FS_RemoveElement
<1>4. Cardinality(DOMAIN clients) > 0
  BY <1>1, FS_EmptySet
<1>5. connected_clients' = Cardinality(DOMAIN clients')
  BY <1>1, <1>3, <1>4 DEF CloseClient, CloseClientOf, IInv, TablesInv
<1>6. fd \notin services
  BY ServicesAreNoClients DEF IInv, TablesInv
<1>7. callbacks' = DOMAIN interest' /\ callbacks' = DOMAIN clients' \cup services'
  BY <1>2, <1>6 DEF CloseClient, CloseClientOf, Unregister, Restrict, IInv, TablesInv
<1> QED
  BY <1>2, <1>5, <1>7 DEF CloseClient, CloseClientOf, IInv, TablesInv

\* The phase of every connection after fd was closed.
LEMMA ClosePhases ==
  ASSUME IInv, NEW fd \in DOMAIN clients, CloseClient(fd)
  PROVE  /\ SocketsInv'
         /\ \A c \in Conns : sock'[c].phase = IF c = clients[fd].conn THEN "closed"
                                              ELSE sock[c].phase
<1>1. clients[fd].conn \in Conns
  BY DEF IInv, OwnersInv
<1>2. /\ DOMAIN sock' = Conns
      /\ \A c \in Conns : sock'[c] = IF c = clients[fd].conn THEN Closed(sock[c]) ELSE sock[c]
  BY <1>1 DEF CloseClient, CloseClientOf, IInv, SocketsInv
<1>3. \A c \in Conns : "phase" \in DOMAIN Closed(sock[c]) /\ Closed(sock[c]).phase = "closed"
  BY DEF Closed, IInv, SocketsInv
<1> QED
  BY <1>2, <1>3 DEF IInv, SocketsInv, Phases

LEMMA CloseOwners ==
  ASSUME IInv, NEW fd \in DOMAIN clients, CloseClient(fd)
  PROVE  OwnersInv'
<1>1. \A x \in DOMAIN clients' : x \in DOMAIN clients /\ x # fd /\ clients'[x] = clients[x]
  BY DEF CloseClient, CloseClientOf, Without, Restrict
<1>2. \A x \in DOMAIN clients : x # fd => x \in DOMAIN clients'
  BY DEF CloseClient, CloseClientOf, Without, Restrict
<1>3. \A x \in DOMAIN clients' : clients[x].conn # clients[fd].conn
  BY <1>1 DEF IInv, OwnersInv
<1> QED
  BY <1>1, <1>2, <1>3, ClosePhases DEF IInv, OwnersInv

LEMMA CloseKeepsInv ==
  ASSUME IInv, NEW fd \in DOMAIN clients, CloseClient(fd), handler' = Idle, Shrunk,
         \A i \in 1..Len(batch') : batch'[i].fd # fd
  PROVE  IInv'
<1>1. BacklogInv'
  <2>1. backlog' = backlog /\ backlog \in Seq(Conns)
    BY DEF CloseClient, CloseClientOf, IInv, BacklogInv
  <2>2. \A i \in 1..Len(backlog) : backlog[i] \in Conns /\ backlog[i] # clients[fd].conn
    BY <2>1 DEF IInv, BacklogInv, OwnersInv
  <2> QED
    BY <2>1, <2>2, ClosePhases DEF IInv, BacklogInv
<1>2. HandlerInv' /\ ~InClient'
  BY DEF HandlerInv, InClient, Idle, Running, Stages
<1>3. running' = running /\ running /\ life' = life /\ life = "serving"
  BY DEF CloseClient, CloseClientOf, IInv, StopInv, LifeInv
<1>4. BatchInv'
  <2>1. \A x \in DOMAIN clients : x # fd => x \in DOMAIN clients' /\ clients'[x] = clients[x]
    BY DEF CloseClient, CloseClientOf, Without, Restrict
  <2> QED
    BY <1>2, <1>3, <2>1, ShrunkBatch DEF IInv, BatchInv
<1>5. StopInv' /\ LifeInv'
  BY <1>3 DEF StopInv, LifeInv, Starting
<1> QED
  BY <1>1, <1>2, <1>4, <1>5, CloseTables, ClosePhases, CloseOwners DEF IInv

LEMMA ShutdownTables ==
  ASSUME IInv, Shutdown
  PROVE  TablesInv' /\ DOMAIN clients' = {}
<1>1. DOMAIN clients' = {}
  BY DEF Shutdown, CloseAllClients, Without, Restrict
<1>2. connected_clients' = 0
  BY ClientsFinite DEF Shutdown, CloseAllClients, IInv, TablesInv
<1>3. callbacks' = {} /\ DOMAIN interest' = {} /\ services' = {}
  BY DEF Shutdown, Unregister, Restrict, IInv, TablesInv
<1> QED
  BY <1>1, <1>2, <1>3, FS_EmptySet DEF TablesInv

LEMMA ShutdownKeepsInv ==
  ASSUME IInv, Shutdown, handler' = handler, handler = Idle, Shrunk, life' = life,
         life \notin Starting
  PROVE  IInv'
<1>1. \A c \in Conns : /\ "phase" \in DOMAIN sock'[c]
                       /\ sock'[c].phase \in {"new", "closed"}
  BY DEF Shutdown, Closed, IInv, SocketsInv, Phases
<1>2. SocketsInv'
  BY <1>1 DEF Shutdown, SocketsInv, Phases
<1>3. OwnersInv'
  BY <1>1, ShutdownTables DEF OwnersInv
<1>4. BacklogInv'
  BY DEF Shutdown, BacklogInv
<1>5. HandlerInv' /\ ~InClient'
  BY DEF HandlerInv, InClient, Idle, Running, Stages
<1>6. ~running'
  BY DEF Shutdown
<1>7. BatchInv'
  BY <1>5, <1>6, ShrunkBatch DEF IInv, BatchInv
<1>8. StopInv'
  BY <1>1, ShutdownTables DEF StopInv, Shutdown, Idle
<1>9. LifeInv'
  BY <1>6 DEF LifeInv, Starting
<1> QED
  BY <1>2, <1>3, <1>4, <1>5, <1>7, <1>8, <1>9, ShutdownTables DEF IInv

-----------------------------------------------------------------------------
(* The actions.                                                            *)

LEMMA WorldKeepsInv ==
  ASSUME IInv, WorldStep
  PROVE  IInv'
<1> USE DEF worldVars, loopVars, serverVars
<1>1. UNCHANGED <<loopVars, serverVars>>
  BY DEF WorldStep
<1>2. HandlerInv' /\ BatchInv' /\ (~running => handler'.stage = "idle")
  BY <1>1 DEF IInv, HandlerInv, BatchInv, StopInv, InClient
<1>3. ASSUME SamePhases, UNCHANGED backlog
      PROVE  IInv'
  BY <1>1, <1>2, <1>3, QuietStep DEF SameOwners, SameTables, IInv, OwnersInv, LifeInv
<1>4. ASSUME NEW c \in Conns, Listening, Connect(c)
      PROVE  IInv'
  <2>1. /\ sock[c].phase = "new"
        /\ DOMAIN sock' = Conns
        /\ \A x \in Conns : /\ "phase" \in DOMAIN sock'[x]
                            /\ sock'[x].phase = IF x = c THEN "waiting" ELSE sock[x].phase
    BY <1>4 DEF Connect, IInv, SocketsInv
  <2>2. running \/ life = "add listen"
    BY <1>4 DEF IInv, StopInv, LifeInv, Listening
  <2>3. SocketsInv'
    BY <2>1 DEF IInv, SocketsInv, Phases
  <2>4. TablesInv'
    BY <1>1 DEF IInv, TablesInv
  <2>5. OwnersInv'
    BY <1>1, <2>1 DEF IInv, OwnersInv
  <2>6. BacklogInv'
    <3>1. backlog \in Seq(Conns) /\ \A i \in 1..Len(backlog) : backlog[i] \in Conns
      BY DEF IInv, BacklogInv
    <3>2. \A i \in 1..Len(backlog) : backlog[i] # c
      BY <2>1 DEF IInv, BacklogInv
    <3>3. /\ backlog' \in Seq(Conns) /\ Len(backlog') = Len(backlog) + 1
          /\ \A i \in 1..Len(backlog') : backlog'[i] = IF i <= Len(backlog) THEN backlog[i] ELSE c
      BY <1>4, <3>1 DEF Connect
    <3>4. \A i \in 1..Len(backlog') : i <= Len(backlog) => i \in 1..Len(backlog)
      BY <3>3
    <3>5. \A i \in 1..Len(backlog') : sock'[backlog'[i]].phase = "waiting"
      BY <2>1, <3>1, <3>2, <3>3, <3>4 DEF IInv, BacklogInv
    <3>6. ASSUME NEW i \in 1..Len(backlog'), NEW j \in 1..Len(backlog'), backlog'[i] = backlog'[j]
          PROVE  i = j
      <4>1. i \in 1..(Len(backlog) + 1) /\ j \in 1..(Len(backlog) + 1) /\ Len(backlog) \in Nat
        BY <3>1, <3>3
      <4>2. CASE i <= Len(backlog) /\ j <= Len(backlog)
        BY <3>3, <3>4, <3>6, <4>2 DEF IInv, BacklogInv
      <4>3. CASE ~(i <= Len(backlog)) /\ ~(j <= Len(backlog))
        BY <4>1, <4>3
      <4>4. CASE (i <= Len(backlog)) # (j <= Len(backlog))
        BY <3>2, <3>3, <3>4, <3>6, <4>4
      <4> QED
        BY <4>2, <4>3, <4>4
    <3> QED
      BY <3>3, <3>5, <3>6 DEF BacklogInv
  <2>7. StopInv' /\ LifeInv'
    BY <1>1, <2>2 DEF IInv, StopInv, LifeInv, Starting
  <2> QED
    BY <1>2, <2>3, <2>4, <2>5, <2>6, <2>7 DEF IInv
<1>5. ASSUME NEW c \in Conns, PeerSend(c)
      PROVE  IInv'
  BY <1>3, <1>5 DEF PeerSend, SamePhases, IInv, SocketsInv
<1>6. ASSUME NEW c \in Conns, PeerFault(c)
      PROVE  IInv'
  BY <1>3, <1>6 DEF PeerFault, SamePhases, IInv, SocketsInv
<1>7. ASSUME NEW c \in Conns, PeerReceive(c)
      PROVE  IInv'
  BY <1>3, <1>7 DEF PeerReceive, SamePhases, IInv, SocketsInv
<1>8. ASSUME SendSignal
      PROVE  IInv'
  BY <1>3, <1>8 DEF SendSignal, SamePhases, IInv, SocketsInv
<1> QED
  BY <1>4, <1>5, <1>6, <1>7, <1>8 DEF WorldStep

LEMMA TupleIsSeq ==
  ASSUME NEW S, NEW n \in Nat, NEW s \in [1..n -> S]
  PROVE  s \in Seq(S) /\ Len(s) = n
OBVIOUS

LEMMA RunOnceKeepsInv ==
  ASSUME IInv, RunOnce
  PROVE  IInv'
<1> USE DEF worldVars, serverVars
<1> DEFINE ready == [fd \in DOMAIN interest |->
                       IF fd = LISTEN THEN {e \in {"IN"} : backlog # <<>>}
                       ELSE IF fd = SIGNAL THEN {e \in {"IN"} : signalled}
                       ELSE Readiness(SocketAt(fd))]
           conn == [fd \in DOMAIN interest |->
                      IF fd \in DOMAIN clients THEN clients[fd].conn ELSE NoConn]
           found == {fd \in DOMAIN interest : Reported(fd, ready[fd]) # {}}
<1>1. handler = Idle /\ UNCHANGED <<worldVars, serverVars>> /\ WaitForEvents(ready, conn)
  BY DEF RunOnce
<1>2. UNCHANGED <<interest, callbacks, running>> /\ running
  BY <1>1 DEF WaitForEvents
<1>17. PICK reported \in kSubset(Min({MaxEvents, Cardinality(found)}), found) :
         \E order \in SetToSeqs(reported) :
           batch' = [i \in DOMAIN order |-> [fd |-> order[i],
                                             events |-> Reported(order[i], ready[order[i]]),
                                             conn |-> conn[order[i]]]]
  BY <1>1 DEF WaitForEvents
<1>18. reported \subseteq found
  BY <1>17 DEF kSubset
<1> DEFINE n == Cardinality(reported)
<1>3. PICK order \in SetToSeqs(reported) :
        batch' = [i \in DOMAIN order |-> [fd |-> order[i],
                                          events |-> Reported(order[i], ready[order[i]]),
                                          conn |-> conn[order[i]]]]
  BY <1>17
<1>4. IsFiniteSet(reported) /\ n \in Nat
  BY <1>18, ClientsFinite, FS_Subset, FS_CardinalityType DEF IInv
<1>5. /\ order \in [1..n -> reported]
      /\ \A i, j \in 1..n : i # j => order[i] # order[j]
  BY <1>3 DEF SetToSeqs
<1>6. \A fd \in reported : fd \in DOMAIN interest /\ fd \in Fds
  BY <1>18 DEF IInv, TablesInv, Fds
<1>7. \A fd \in DOMAIN interest : ready[fd] \subseteq Events
  BY DEF Readiness, Events
<1>8. \A fd \in DOMAIN interest : conn[fd] \in Conns \cup {NoConn}
  BY DEF IInv, OwnersInv
<1>9. \A i \in 1..n : /\ batch'[i] = [fd |-> order[i],
                                      events |-> Reported(order[i], ready[order[i]]),
                                      conn |-> conn[order[i]]]
                      /\ batch'[i] \in BatchEvent
  BY <1>3, <1>5, <1>6, <1>7, <1>8 DEF Reported, BatchEvent
<1>10. batch' \in Seq(BatchEvent) /\ Len(batch') = n
  <2>1. DOMAIN batch' = 1..n /\ batch' = [i \in 1..n |-> batch'[i]]
    BY <1>3, <1>5
  <2>2. batch' \in [1..n -> BatchEvent]
    BY <1>9, <2>1
  <2> QED
    BY <1>4, <2>2, TupleIsSeq
<1> HIDE DEF ready, conn, found, n
<1>15. \A i \in 1..n : /\ batch'[i].fd = order[i]
                      /\ batch'[i].conn = conn[order[i]]
                      /\ order[i] \in DOMAIN interest
  <2> TAKE i \in 1..n
  <2>1. order[i] \in reported
    BY <1>5
  <2>2. batch'[i] = [fd |-> order[i], events |-> Reported(order[i], ready[order[i]]),
                     conn |-> conn[order[i]]]
    BY <1>9
  <2> QED
    BY <2>1, <2>2, <1>6
<1>11. ASSUME NEW i \in 1..n, batch'[i].fd \in ClientFds
       PROVE  batch'[i].fd \in DOMAIN clients /\ clients[batch'[i].fd].conn = batch'[i].conn
  <2>1. batch'[i].fd = order[i] /\ batch'[i].conn = conn[order[i]] /\ order[i] \in DOMAIN interest
    BY <1>15
  <2>2. order[i] \in DOMAIN clients
    BY <1>11, <2>1, ServicesAreNoClients DEF IInv, TablesInv
  <2> QED
    BY <2>1, <2>2 DEF conn
<1>12. BatchInv'
  <2>1. \A i, j \in 1..Len(batch') : batch'[i].fd = batch'[j].fd => i = j
    <3> SUFFICES ASSUME NEW i \in 1..n, NEW j \in 1..n, batch'[i].fd = batch'[j].fd
                 PROVE  i = j
      BY <1>10
    <3>1. order[i] = order[j]
      BY <1>15
    <3> QED
      BY <1>5, <3>1
  <2>2. \A i \in 1..Len(batch') : batch'[i].fd \in ClientFds =>
          batch'[i].fd \in DOMAIN clients /\ clients[batch'[i].fd].conn = batch'[i].conn
    BY <1>10, <1>11
  <2>3. clients' = clients /\ ~InClient'
    BY <1>1 DEF InClient, Idle
  <2> QED
    BY <1>10, <2>1, <2>2, <2>3 DEF BatchInv
<1>13. HandlerInv' /\ handler'.stage = "idle"
  BY <1>1 DEF IInv, HandlerInv, InClient, Idle
<1>14. SamePhases /\ SameOwners /\ SameTables
  BY <1>1, <1>2 DEF SamePhases, SameOwners, SameTables, IInv, SocketsInv, OwnersInv
<1>16. life \notin Starting
  BY <1>2 DEF IInv, LifeInv, Starting
<1> QED
  BY <1>12, <1>13, <1>14, <1>16, QuietStep

\* The start of a callback or the skipping of an event: the batch loses the event whose
\* turn it is.
LEMMA TurnKeepsInv ==
  ASSUME IInv, handler = Idle, HandOut,
         UNCHANGED <<worldVars, interest, callbacks, running, life, clients, connected_clients,
                     services>>,
         HandlerInv', InClient' => handler'.fd = Turn.fd, ~running => handler'.stage = "idle"
  PROVE  IInv'
<1> USE DEF worldVars
<1>1. batch # <<>> /\ batch' = Tail(batch)
  BY DEF HandOut
<1>2. BatchInv'
  <2>1. \A i \in 1..Len(batch') : batch'[i].fd # Turn.fd
    BY <1>1, RestOfBatch DEF IInv
  <2> QED
    BY <1>1, <2>1, ShrunkBatch DEF Shrunk, IInv, BatchInv
<1>3. SamePhases /\ SameOwners /\ SameTables
  BY DEF SamePhases, SameOwners, SameTables, IInv, SocketsInv, OwnersInv, BacklogInv
<1>4. life \notin Starting
  BY <1>1 DEF IInv, LifeInv
<1> QED
  BY <1>2, <1>3, <1>4, QuietStep

LEMMA CallbacksKeepInv ==
  ASSUME IInv, SkipEvent \/ OnListen \/ OnClient
  PROVE  IInv'
<1> USE DEF worldVars, serverVars
<1>1. CASE SkipEvent
  BY <1>1, TurnKeepsInv DEF SkipEvent, IInv, HandlerInv, InClient, Idle
<1>2. CASE OnListen
  <2>1. handler = Idle /\ HandOut /\ Turn.fd \in callbacks
    BY <1>2 DEF OnListen, Calls
  <2>2. running
    BY <2>1 DEF IInv, TablesInv, StopInv, LifeInv, HandOut
  <2>3. HandlerInv' /\ ~InClient'
    BY <1>2 DEF OnListen, HandlerInv, InClient, Running, Stages
  <2> QED
    BY <1>2, <2>1, <2>2, <2>3, TurnKeepsInv DEF OnListen
<1>3. CASE OnClient
  <2>1. handler = Idle /\ HandOut /\ Turn.fd \in callbacks /\ Turn.fd \in ClientFds
    BY <1>3 DEF OnClient, Calls
  <2>2. running /\ Turn.fd \in DOMAIN clients
    BY <2>1, ServicesAreNoClients DEF IInv, TablesInv, StopInv, LifeInv, HandOut
  <2>3. HandlerInv' /\ handler'.fd = Turn.fd
    BY <1>3, <2>2 DEF OnClient, HandlerInv, InClient, Running, Stages
  <2> QED
    BY <1>3, <2>1, <2>2, <2>3, TurnKeepsInv DEF OnClient
<1> QED
  BY <1>1, <1>2, <1>3

LEMMA ClosingCallbacksKeepInv ==
  ASSUME IInv, OnHangup \/ OnSignal
  PROVE  IInv'
<1>1. CASE OnHangup
  <2>1. /\ handler = Idle /\ HandOut /\ Turn.fd \in callbacks /\ Turn.fd \in ClientFds
        /\ CloseClient(Turn.fd) /\ handler' = Idle
    BY <1>1 DEF OnHangup, Calls
  <2>2. Turn.fd \in DOMAIN clients
    BY <2>1, ServicesAreNoClients DEF IInv, TablesInv
  <2>3. Shrunk /\ \A i \in 1..Len(batch') : batch'[i].fd # Turn.fd
    BY <2>1, RestOfBatch DEF HandOut, Shrunk, IInv
  <2> QED
    BY <2>1, <2>2, <2>3, CloseKeepsInv
<1>2. CASE OnSignal
  BY <1>2, ShutdownKeepsInv DEF OnSignal, Calls, HandOut, Shrunk, IInv, LifeInv
<1> QED
  BY <1>1, <1>2

\* In a client's callback the client is there, and no event of its descriptor remains.
LEMMA InClientFacts ==
  ASSUME IInv, InClient
  PROVE  /\ handler.fd \in DOMAIN clients
         /\ "conn" \in DOMAIN Me /\ Me.conn \in Conns /\ MySocket = sock[Me.conn]
         /\ \A i \in 1..Len(batch) : batch[i].fd # handler.fd
BY DEF IInv, HandlerInv, OwnersInv, BatchInv, Me, MySocket, SocketAt

LEMMA ClosesItself ==
  ASSUME IInv, InClient, CloseClient(handler.fd), handler' = Idle, UNCHANGED batch
  PROVE  IInv'
BY InClientFacts, CloseKeepsInv DEF Shrunk

LEMMA ModifyKeepsInv ==
  ASSUME IInv, InClient, NEW events, NEW cl, NEW stage \in {"idle", "write"},
         "conn" \in DOMAIN cl, cl.conn = Me.conn, Modify(events, cl, stage)
  PROVE  IInv'
<1>1. CASE /\ Register(handler.fd, events)
           /\ clients' = [clients EXCEPT ![handler.fd] = cl]
           /\ GoTo(stage)
           /\ UNCHANGED <<worldVars, batch, running, life, connected_clients, services,
                        executed, aof>>
  <2>1. SamePhases
    BY <1>1 DEF SamePhases, worldVars, IInv, SocketsInv
  <2>2. SameOwners
    BY <1>1, InClientFacts DEF SameOwners, Me, IInv, OwnersInv
  <2>3. SameTables
    BY <1>1, InClientFacts DEF SameTables, Register, worldVars, IInv, TablesInv
  <2> QED
    BY <1>1, <2>1, <2>2, <2>3, GoesTo, ProceedsQuietly
<1>2. CASE /\ CloseClient(handler.fd)
           /\ GoTo("idle")
           /\ UNCHANGED <<batch, executed, aof>>
  BY <1>2, ClosesItself DEF GoTo
<1> QED
  BY <1>1, <1>2 DEF Modify

LEMMA ReadingKeepsInv ==
  ASSUME IInv, ReadData \/ ReadFails \/ ReadEnds \/ ReadEndsWithReplies
  PROVE  IInv'
<1> USE DEF worldVars, loopVars
<1>1. InClient
  BY DEF ReadData, ReadFails, ReadEnds, ReadEndsWithReplies, At, InClient
<1>2. AfterReading \in {"idle", "write"}
  BY DEF AfterReading
<1>3. CASE ReadData
  <2>1. PICK n, done :
          /\ sock' = [sock EXCEPT ![Me.conn].unread = @ - n]
          /\ clients' = [clients EXCEPT ![handler.fd] = Feed(@, n, done)]
          /\ UNCHANGED <<backlog, signalled, loopVars, life, connected_clients, services,
                        handler>>
    BY <1>3 DEF ReadData
  <2>2. SamePhases
    BY <1>1, <2>1, InClientFacts DEF SamePhases, IInv, SocketsInv
  <2>3. \A cl : "conn" \in DOMAIN cl => /\ "conn" \in DOMAIN Feed(cl, n, done)
                                        /\ Feed(cl, n, done).conn = cl.conn
    BY DEF Feed, EnqueueResponse
  <2>4. SameOwners
    BY <2>1, <2>3, <1>1, InClientFacts DEF SameOwners, IInv, OwnersInv
  <2>5. SameTables /\ Proceeds
    BY <2>1 DEF SameTables, Proceeds
  <2> QED
    BY <2>1, <2>2, <2>4, <2>5, ProceedsQuietly
<1>4. CASE ReadFails
  BY <1>1, <1>4, ClosesItself DEF ReadFails
<1>5. CASE ReadEnds
  <2>1. SamePhases /\ SameOwners /\ SameTables
    BY <1>5 DEF ReadEnds, SamePhases, SameOwners, SameTables, IInv, SocketsInv, OwnersInv
  <2> QED
    BY <1>1, <1>2, <1>5, <2>1, GoesTo, ProceedsQuietly DEF ReadEnds
<1>6. CASE ReadEndsWithReplies
  BY <1>1, <1>2, <1>6, InClientFacts, ModifyKeepsInv DEF ReadEndsWithReplies
<1> QED
  BY <1>3, <1>4, <1>5, <1>6

LEMMA WritingKeepsInv ==
  ASSUME IInv, SendData \/ SendBlocks \/ SendFails \/ SendEnds
  PROVE  IInv'
<1> USE DEF worldVars, loopVars
<1>1. InClient
  BY DEF SendData, SendBlocks, SendFails, SendEnds, At, InClient
<1>2. CASE SendData
  <2>1. PICK n :
          /\ sock' = [sock EXCEPT ![Me.conn].sendq = @ \o SubSeq(Unsent(Me), 1, n)]
          /\ clients' = [clients EXCEPT ![handler.fd] = Sent(@, n)]
          /\ UNCHANGED <<backlog, signalled, loopVars, life, connected_clients, services,
                        handler>>
    BY <1>2 DEF SendData
  <2>2. SamePhases
    BY <1>1, <2>1, InClientFacts DEF SamePhases, IInv, SocketsInv
  <2>3. SameOwners
    BY <2>1, <1>1, InClientFacts DEF SameOwners, Sent, IInv, OwnersInv
  <2>4. SameTables /\ Proceeds
    BY <2>1 DEF SameTables, Proceeds
  <2> QED
    BY <2>1, <2>2, <2>3, <2>4, ProceedsQuietly
<1>3. CASE SendBlocks
  <2>1. SamePhases /\ SameOwners /\ SameTables
    BY <1>3 DEF SendBlocks, SamePhases, SameOwners, SameTables, IInv, SocketsInv, OwnersInv
  <2> QED
    BY <1>1, <1>3, <2>1, GoesTo, ProceedsQuietly DEF SendBlocks
<1>4. CASE SendFails
  BY <1>1, <1>4, ClosesItself DEF SendFails, GoTo
<1>5. CASE SendEnds
  <2>1. "conn" \in DOMAIN Flushed(Me) /\ Flushed(Me).conn = Me.conn
    BY <1>1, InClientFacts DEF Flushed
  <2> QED
    BY <1>1, <1>5, <2>1, ModifyKeepsInv DEF SendEnds
<1> QED
  BY <1>2, <1>3, <1>4, <1>5

\* The backlog without its oldest connection.
LEMMA RestOfBacklog ==
  ASSUME BacklogInv, backlog # <<>>
  PROVE  /\ Head(backlog) \in Conns /\ sock[Head(backlog)].phase = "waiting"
         /\ Tail(backlog) \in Seq(Conns)
         /\ \A i \in 1..Len(Tail(backlog)) : /\ i + 1 \in 1..Len(backlog)
                                             /\ Tail(backlog)[i] = backlog[i + 1]
                                             /\ Tail(backlog)[i] \in Conns
                                             /\ Tail(backlog)[i] # Head(backlog)
<1>1. /\ backlog \in Seq(Conns) /\ Head(backlog) = backlog[1] /\ 1 \in 1..Len(backlog)
      /\ Tail(backlog) \in Seq(Conns) /\ Head(backlog) \in Conns
  BY DEF BacklogInv
<1>2. ASSUME NEW i \in 1..Len(Tail(backlog))
      PROVE  /\ i + 1 \in 1..Len(backlog) /\ Tail(backlog)[i] = backlog[i + 1] /\ i + 1 # 1
             /\ Tail(backlog)[i] \in Conns
  BY <1>1
<1> QED
  BY <1>1, <1>2 DEF BacklogInv

\* The connection taken from the backlog changes its phase, no other one does.
LEMMA AcceptBacklog ==
  ASSUME IInv, backlog # <<>>, backlog' = Tail(backlog),
         \A c \in Conns : c # Head(backlog) => sock'[c].phase = sock[c].phase
  PROVE  BacklogInv'
<1>1. backlog' \in Seq(Conns)
  BY RestOfBacklog DEF IInv
<1>2. \A i \in 1..Len(backlog') : sock'[backlog'[i]].phase = "waiting"
  BY RestOfBacklog DEF IInv, BacklogInv
<1>3. ASSUME NEW i \in 1..Len(backlog'), NEW j \in 1..Len(backlog'), backlog'[i] = backlog'[j]
      PROVE  i = j
  <2>1. i + 1 = j + 1
    BY <1>3, RestOfBacklog DEF IInv, BacklogInv
  <2>2. i \in Int /\ j \in Int
    BY <1>1
  <2> QED
    BY <2>1, <2>2
<1> QED
  BY <1>1, <1>2, <1>3 DEF BacklogInv

\* A connection that cannot be registered leaves no trace in the tables: what was put
\* in clients_ and counted is taken back.
LEMMA AddFailsUndone ==
  ASSUME IInv, NEW fd \in ClientFds, fd \notin DOMAIN clients,
         NEW c \in Conns, AddFails(fd, c)
  PROVE  /\ DOMAIN clients' = DOMAIN clients
         /\ \A x \in DOMAIN clients : clients'[x] = clients[x]
         /\ connected_clients' = connected_clients
         /\ callbacks' = callbacks
         /\ DOMAIN interest' = DOMAIN interest
         /\ \A x \in DOMAIN interest : interest'[x] = interest[x]
         /\ DOMAIN sock' = Conns
         /\ \A x \in Conns : x # c => sock'[x] = sock[x]
         /\ sock'[c] = Closed([sock[c] EXCEPT !.phase = "accepted"])
<1>1. fd \notin callbacks /\ fd \notin DOMAIN interest
  BY ServicesAreNoClients DEF IInv, TablesInv
<1>2. PICK cls : cls = WithClient(fd, c)
  OBVIOUS
<1>3. PICK socks : socks = Taken(c)
  OBVIOUS
<1>4. CloseClientOf(fd, cls, connected_clients + 1, socks)
  BY <1>2, <1>3 DEF AddFails
<1>5. /\ DOMAIN cls = DOMAIN clients \cup {fd} /\ cls[fd].conn = c
      /\ \A x \in DOMAIN clients : cls[x] = clients[x]
  BY <1>2 DEF WithClient, NewClient
<1>6. /\ DOMAIN socks = Conns /\ \A x \in Conns : x # c => socks[x] = sock[x]
      /\ socks[c] = [sock[c] EXCEPT !.phase = "accepted"]
  BY <1>3 DEF Taken, IInv, SocketsInv
<1>7. DOMAIN clients' = DOMAIN clients /\ \A x \in DOMAIN clients : clients'[x] = clients[x]
  BY <1>4, <1>5 DEF CloseClientOf, Without, Restrict
<1>8. connected_clients' = connected_clients
  <2>1. connected_clients \in Nat
    BY ClientsFinite DEF IInv, TablesInv
  <2> QED
    BY <1>4, <2>1 DEF CloseClientOf
<1>9. /\ callbacks' = callbacks /\ DOMAIN interest' = DOMAIN interest
      /\ \A x \in DOMAIN interest : interest'[x] = interest[x]
  BY <1>1, <1>4 DEF CloseClientOf, Unregister, Restrict
<1>10. sock' = [socks EXCEPT ![c] = Closed(socks[c])]
  BY <1>4, <1>5 DEF CloseClientOf
<1> QED
  BY <1>6, <1>7, <1>8, <1>9, <1>10

LEMMA AcceptKeepsInv ==
  ASSUME IInv, Accept
  PROVE  IInv'
<1> DEFINE fd == Min(FreeFds)
           c == Head(backlog)
<1>1. /\ handler.stage = "accept" /\ backlog # <<>> /\ FreeFds # {}
      /\ backlog' = Tail(backlog)
      /\ UNCHANGED <<signalled, batch, running, life, services, handler, executed, aof>>
  BY DEF Accept
<1>2. fd \in ClientFds /\ fd \notin DOMAIN clients
  BY <1>1, LeastFree DEF FreeFds
<1>3. c \in Conns /\ sock[c].phase = "waiting"
  BY <1>1, RestOfBacklog DEF IInv
<1>4. running
  BY <1>1 DEF IInv, StopInv
<1>5. HandlerInv' /\ StopInv' /\ LifeInv' /\ ~InClient'
  BY <1>1, <1>4 DEF IInv, HandlerInv, StopInv, LifeInv, InClient, Starting
<1>6. CASE /\ clients' = WithClient(fd, c)
           /\ connected_clients' = connected_clients + 1
           /\ Register(fd, {"IN"})
           /\ sock' = Taken(c)
  <2> HIDE DEF fd, c
  <2>1. SocketsInv' /\ \A x \in Conns : sock'[x].phase = IF x = c THEN "accepted" ELSE sock[x].phase
    BY <1>3, <1>6 DEF Taken, IInv, SocketsInv, Phases
  <2>2. /\ DOMAIN clients' = DOMAIN clients \cup {fd}
        /\ "conn" \in DOMAIN clients'[fd] /\ clients'[fd].conn = c
        /\ \A x \in DOMAIN clients : clients'[x] = clients[x]
    BY <1>2, <1>6 DEF WithClient, NewClient
  <2>3. TablesInv'
    <3>1. Cardinality(DOMAIN clients') = Cardinality(DOMAIN clients) + 1
      BY <1>2, <2>2, ClientsFinite, FS_AddElement DEF IInv
    <3> QED
      BY <1>1, <1>2, <1>6, <2>2, <3>1 DEF Register, IInv, TablesInv
  <2>4. OwnersInv'
    BY <1>2, <1>3, <2>1, <2>2 DEF IInv, OwnersInv
  <2>5. BacklogInv'
    BY <1>1, <2>1, AcceptBacklog DEF c
  <2>6. BatchInv'
    <3>1. \A i \in 1..Len(batch) : batch[i].fd \in ClientFds =>
            /\ batch[i].fd \in DOMAIN clients'
            /\ clients'[batch[i].fd].conn = batch[i].conn
      BY <1>4, <2>2 DEF IInv, BatchInv
    <3> QED
      BY <1>1, <1>5, <3>1 DEF IInv, BatchInv
  <2> QED
    BY <1>5, <2>1, <2>3, <2>4, <2>5, <2>6 DEF IInv
<1>7. CASE AddFails(fd, c)
  <2> HIDE DEF fd, c
  <2>1. /\ DOMAIN clients' = DOMAIN clients
        /\ \A x \in DOMAIN clients : clients'[x] = clients[x]
        /\ connected_clients' = connected_clients /\ callbacks' = callbacks
        /\ DOMAIN interest' = DOMAIN interest
    BY <1>2, <1>3, <1>7, AddFailsUndone
  <2>2. SocketsInv' /\ \A x \in Conns : sock'[x].phase = IF x = c THEN "closed" ELSE sock[x].phase
    <3>1. PICK s : s = [sock[c] EXCEPT !.phase = "accepted"]
      OBVIOUS
    <3>2. /\ DOMAIN sock' = Conns /\ \A x \in Conns : x # c => sock'[x] = sock[x]
          /\ sock'[c] = Closed(s)
      BY <1>2, <1>3, <1>7, <3>1, AddFailsUndone
    <3>3. "phase" \in DOMAIN Closed(s) /\ Closed(s).phase = "closed"
      BY <1>3, <3>1 DEF Closed, IInv, SocketsInv
    <3> QED
      BY <3>2, <3>3 DEF IInv, SocketsInv, Phases
  <2>3. TablesInv'
    BY <1>1, <2>1 DEF IInv, TablesInv
  <2>4. OwnersInv'
    BY <1>3, <2>1, <2>2 DEF IInv, OwnersInv
  <2>5. BacklogInv'
    BY <1>1, <2>2, AcceptBacklog DEF c
  <2>6. BatchInv'
    BY <1>1, <1>5, <2>1 DEF IInv, BatchInv
  <2> QED
    BY <1>5, <2>2, <2>3, <2>4, <2>5, <2>6 DEF IInv
<1> QED
  BY <1>6, <1>7 DEF Accept

LEMMA AcceptEndsKeepsInv ==
  ASSUME IInv, AcceptEnds
  PROVE  IInv'
<1>1. SamePhases /\ SameOwners /\ SameTables
  BY DEF AcceptEnds, SamePhases, SameOwners, SameTables, IInv, SocketsInv, OwnersInv,
         worldVars, loopVars
<1> QED
  BY <1>1, ProceedsQuietly DEF AcceptEnds, Proceeds, loopVars

-----------------------------------------------------------------------------
(* start, and the end of the process.                                      *)

LEMMA GiveUpKeepsInv ==
  ASSUME IInv, GiveUp, life \in Starting
  PROVE  IInv'
<1>1. /\ ~running /\ ~running' /\ batch = <<>> /\ batch' = <<>>
      /\ DOMAIN clients = {} /\ clients' = clients /\ connected_clients' = connected_clients
      /\ handler' = handler /\ services' = {} /\ backlog' = <<>> /\ life' = "failed"
  BY DEF IInv, LifeInv, StopInv, GiveUp, Starting
<1>2. \A c \in Conns : sock[c].phase # "accepted"
  BY <1>1 DEF IInv, OwnersInv
<1>3. /\ SocketsInv'
      /\ \A c \in Conns : sock'[c].phase \in {"new", "closed"}
  BY <1>2 DEF GiveUp, Closed, IInv, SocketsInv, Phases
<1>4. TablesInv'
  BY <1>1 DEF GiveUp, Unregister, Restrict, IInv, TablesInv
<1>5. OwnersInv' /\ BacklogInv'
  BY <1>1, <1>3 DEF OwnersInv, BacklogInv
<1>6. HandlerInv' /\ BatchInv'
  BY <1>1 DEF IInv, HandlerInv, BatchInv, InClient
<1>7. LifeInv' /\ StopInv'
  BY <1>1, <1>3 DEF IInv, LifeInv, StopInv, Starting
<1> QED
  BY <1>3, <1>4, <1>5, <1>6, <1>7 DEF IInv

\* A step that opens, closes and registers nothing, and only changes life.
LEMMA LifeKeepsInv ==
  ASSUME IInv, LifeInv', StopInv',
         UNCHANGED <<worldVars, loopVars, clients, connected_clients, services, handler>>
  PROVE  IInv'
<1> USE DEF worldVars, loopVars
<1>1. SocketsInv' /\ TablesInv' /\ OwnersInv' /\ BacklogInv'
  BY DEF IInv, SocketsInv, TablesInv, OwnersInv, BacklogInv
<1>2. HandlerInv' /\ BatchInv'
  BY DEF IInv, HandlerInv, BatchInv, InClient
<1> QED
  BY <1>1, <1>2 DEF IInv

LEMMA StartStepKeepsInv ==
  ASSUME IInv, NEW step \in Starting \ {"add listen"}, NEW next \in Starting \ {"sigprocmask"},
         StartStep(step, next)
  PROVE  IInv'
<1>1. life \in Starting
  BY DEF StartStep
<1>2. CASE GiveUp
  BY <1>1, <1>2, GiveUpKeepsInv
<1>3. CASE /\ life' = next
           /\ UNCHANGED <<worldVars, loopVars, clients, connected_clients, services, handler>>
  <2>1. /\ life = step /\ life' = next /\ step # "add listen"
        /\ UNCHANGED <<sock, backlog, batch, running, clients, services, handler>>
    BY <1>3 DEF StartStep, worldVars, loopVars
  <2>2. LifeInv'
    BY <2>1 DEF IInv, LifeInv, Starting
  <2>3. StopInv'
    BY <2>1 DEF IInv, StopInv, Starting
  <2> QED
    BY <1>3, <2>2, <2>3, LifeKeepsInv
<1> QED
  BY <1>2, <1>3 DEF StartStep

LEMMA AddServiceKeepsInv ==
  ASSUME IInv, AddSignal \/ AddListen
  PROVE  IInv'
<1>1. PICK fd \in {LISTEN, SIGNAL} : \E next \in {"socket", "serving"} :
        /\ life \in Starting /\ (next = "socket" => life # "add listen")
        /\ fd = LISTEN <=> next = "serving"
        /\ \/ /\ Register(fd, {"IN"})
              /\ services' = services \cup {fd}
              /\ life' = next
              /\ running' = (next = "serving")
              /\ UNCHANGED <<worldVars, batch, clients, connected_clients, handler>>
           \/ GiveUp
  BY ServicesAreNoClients DEF AddSignal, AddListen, AddService, Starting
<1>2. CASE GiveUp
  BY <1>1, <1>2, GiveUpKeepsInv
<1>3. ASSUME NEW next \in {"socket", "serving"}, life \in Starting,
             next = "socket" => life # "add listen", fd = LISTEN <=> next = "serving",
             Register(fd, {"IN"}), services' = services \cup {fd}, life' = next,
             running' = (next = "serving"),
             UNCHANGED <<worldVars, batch, clients, connected_clients, handler>>
      PROVE  IInv'
  <2> USE DEF worldVars
  <2>1. ~running /\ batch' = <<>> /\ LISTEN \notin services
    BY <1>3 DEF IInv, LifeInv, Starting
  <2>2. SocketsInv' /\ OwnersInv' /\ BacklogInv'
    BY <1>3 DEF IInv, SocketsInv, OwnersInv, BacklogInv
  <2>3. TablesInv'
    BY <1>3 DEF Register, IInv, TablesInv
  <2>4. HandlerInv' /\ BatchInv'
    <3>1. HandlerInv'
      BY <1>3 DEF IInv, HandlerInv, InClient
    <3>2. BatchInv'
      BY <2>1 DEF BatchInv
    <3> QED
      BY <3>1, <3>2
  <2>5. CASE next = "socket"
    <3>1. ~running' /\ LISTEN \notin services'
      BY <1>3, <2>1, <2>5, ServicesAreNoClients
    <3> QED
      BY <1>3, <2>1, <2>2, <2>3, <2>4, <2>5, <3>1 DEF IInv, LifeInv, StopInv, Starting
  <2>6. CASE next = "serving"
    BY <1>3, <2>2, <2>3, <2>4, <2>6 DEF IInv, LifeInv, StopInv, Starting
  <2> QED
    BY <2>5, <2>6
<1> QED
  BY <1>1, <1>2, <1>3

LEMMA StartKeepsInv ==
  ASSUME IInv, StartOrReturn
  PROVE  IInv'
<1>1. CASE BlockSignals \/ OpenSignalFd \/ OpenSocket \/ Bind \/ Listen
  BY <1>1, StartStepKeepsInv DEF BlockSignals, OpenSignalFd, OpenSocket, Bind, Listen, Starting
<1>2. CASE AddSignal \/ AddListen
  BY <1>2, AddServiceKeepsInv
<1>3. CASE Return
  BY <1>3, LifeKeepsInv DEF Return, IInv, LifeInv, StopInv, Starting, worldVars, loopVars
<1> QED
  BY <1>1, <1>2, <1>3 DEF StartOrReturn

LEMMA KilledKeepsInv ==
  ASSUME IInv, Killed
  PROVE  IInv'
BY LifeKeepsInv DEF Killed, IInv, LifeInv, StopInv, Starting, worldVars, loopVars

-----------------------------------------------------------------------------
(* The invariant of the server.                                            *)

LEMMA InvInit == Init => IInv
<1> SUFFICES ASSUME Init PROVE IInv
  OBVIOUS
<1>1. DOMAIN clients = {}
  BY DEF Init
<1>2. SocketsInv
  BY DEF Init, SocketsInv, NewSocket, Phases
<1>3. TablesInv
  BY <1>1, FS_EmptySet DEF Init, TablesInv
<1>4. OwnersInv
  BY <1>1 DEF Init, OwnersInv, NewSocket
<1>5. BacklogInv /\ BatchInv
  BY DEF Init, BacklogInv, BatchInv, InClient, Idle
<1>6. HandlerInv
  BY DEF Init, HandlerInv, InClient, Idle, Running, Stages
<1>7. StopInv /\ LifeInv
  BY <1>1 DEF Init, StopInv, LifeInv, NewSocket, Idle, Starting
<1> QED
  BY <1>2, <1>3, <1>4, <1>5, <1>6, <1>7 DEF IInv

LEMMA InvStep == IInv /\ [Next]_vars => IInv'
<1> SUFFICES ASSUME IInv, [Next]_vars PROVE IInv'
  OBVIOUS
<1>1. CASE RunOnce
  BY <1>1, RunOnceKeepsInv
<1>2. CASE SkipEvent \/ OnListen \/ OnClient
  BY <1>2, CallbacksKeepInv
<1>3. CASE OnHangup \/ OnSignal
  BY <1>3, ClosingCallbacksKeepInv
<1>4. CASE Accept
  BY <1>4, AcceptKeepsInv
<1>5. CASE AcceptEnds
  BY <1>5, AcceptEndsKeepsInv
<1>6. CASE ReadData \/ ReadFails \/ ReadEnds \/ ReadEndsWithReplies
  BY <1>6, ReadingKeepsInv
<1>7. CASE SendData \/ SendBlocks \/ SendFails \/ SendEnds
  BY <1>7, WritingKeepsInv
<1>8. CASE WorldStep
  BY <1>8, WorldKeepsInv
<1>10. CASE StartOrReturn
  BY <1>10, StartKeepsInv
<1>11. CASE Killed
  BY <1>11, KilledKeepsInv
<1>9. CASE UNCHANGED vars
  <2>1. SamePhases /\ SameOwners /\ SameTables
    BY <1>9 DEF vars, SamePhases, SameOwners, SameTables, IInv, SocketsInv, OwnersInv,
                worldVars, loopVars, serverVars
  <2> QED
    BY <1>9, <2>1, ProceedsQuietly DEF vars, Proceeds, loopVars, serverVars
<1> QED
  BY <1>1, <1>2, <1>3, <1>4, <1>5, <1>6, <1>7, <1>8, <1>9, <1>10, <1>11 DEF Next, ServerStep

LEMMA InvAlways == Spec => []IInv
BY InvInit, InvStep, PTL DEF Spec

-----------------------------------------------------------------------------
(* The theorems.                                                           *)

\* At every system call the event loop's callbacks, the kernel's epoll set, clients_ and
\* ctx_.connected_clients agree, and each accepted connection has exactly one Client:
\* accepting, closing and failing registrations keep the four tables together.
THEOREM TablesAgree == Spec => []Registered
<1>1. IInv => Registered
  <2> SUFFICES ASSUME IInv PROVE Registered
    OBVIOUS
  <2>1. \A c \in Conns :
          sock[c].phase = "accepted" <=> \E fd \in DOMAIN clients : clients[fd].conn = c
    BY DEF IInv, OwnersInv
  <2>2. IsInjective([fd \in DOMAIN clients |-> clients[fd].conn])
    BY DEF IInv, OwnersInv, IsInjective
  <2> QED
    BY <2>1, <2>2 DEF IInv, TablesInv, Registered
<1> QED
  BY <1>1, InvAlways, PTL

\* EventLoop::run_once looks an event's callback up by descriptor at the event's turn.
\* Although callbacks earlier in the batch may close descriptors and accept4 may reuse
\* the numbers, the event never reaches the Client of another connection.
THEOREM EventsFind == Spec => []EventsFindTheirConnection
<1>1. IInv => EventsFindTheirConnection
  <2> SUFFICES ASSUME IInv, NEW i \in DOMAIN batch, batch[i].fd \in DOMAIN clients
               PROVE  clients[batch[i].fd].conn = batch[i].conn
    BY DEF EventsFindTheirConnection
  <2>1. running
    BY DEF IInv, StopInv
  <2>2. i \in 1..Len(batch) /\ batch[i].fd \in ClientFds
    BY DEF IInv, BatchInv, TablesInv
  <2> QED
    BY <2>1, <2>2 DEF IInv, BatchInv
<1> QED
  BY <1>1, InvAlways, PTL

\* Once Server::shutdown has run, or Server::start has failed at any of its steps,
\* nothing is open and no peer is connected or waits: what is left of the batch neither
\* accepts nor registers anything.
THEOREM NothingOpenAfterStop == Spec => []StoppedMeansClosed
<1>1. IInv => StoppedMeansClosed
  BY DEF IInv, TablesInv, StopInv, StoppedMeansClosed, Starting
<1> QED
  BY <1>1, InvAlways, PTL

-----------------------------------------------------------------------------
(* Division, and the sequence of all replies.                              *)

ReplyUnit == Nat \X Nat

LEMMA Euclid ==
  ASSUME NEW x \in Nat, NEW d \in Nat \ {0}
  PROVE  /\ x \div d \in Nat
         /\ x % d \in 0..(d - 1)
         /\ x = (x \div d) * d + (x % d)
OBVIOUS

LEMMA DivisionUnique ==
  ASSUME NEW d \in Nat \ {0}, NEW q1 \in Int, NEW q2 \in Int,
         NEW r1 \in 0..(d - 1), NEW r2 \in 0..(d - 1), q1 * d + r1 = q2 * d + r2
  PROVE  q1 = q2 /\ r1 = r2
<1>1. CASE q1 > q2
  <2>1. (q1 - q2) * d = r2 - r1
    OBVIOUS
  <2>2. (q1 - q2) * d >= d
    BY <1>1
  <2> QED
    BY <2>1, <2>2
<1>2. CASE q2 > q1
  <2>1. (q2 - q1) * d = r1 - r2
    OBVIOUS
  <2>2. (q2 - q1) * d >= d
    BY <1>2
  <2> QED
    BY <2>1, <2>2
<1>3. CASE q1 = q2
  BY <1>3
<1> QED
  BY <1>1, <1>2, <1>3

\* Shifting a number by whole multiples of the divisor shifts its quotient only.
LEMMA DivisionShift ==
  ASSUME NEW x \in Nat, NEW m \in Nat, NEW d \in Nat \ {0}
  PROVE  /\ (x + m * d) \div d = (x \div d) + m
         /\ (x + m * d) % d = x % d
<1>1. PICK q \in Nat, r \in 0..(d - 1) : x = q * d + r /\ x \div d = q /\ x % d = r
  BY Euclid
<1>2. PICK y \in Nat : y = x + m * d
  OBVIOUS
<1>3. PICK q2 \in Nat, r2 \in 0..(d - 1) : y = q2 * d + r2 /\ y \div d = q2 /\ y % d = r2
  BY Euclid
<1>4. (q + m) * d + r = q2 * d + r2
  BY <1>1, <1>2, <1>3
<1>5. q + m = q2 /\ r = r2
  BY <1>4, DivisionUnique
<1> QED
  BY <1>1, <1>2, <1>3, <1>5

LEMMA RepliesType ==
  ASSUME NEW m \in Nat, NEW n \in Nat, m <= n
  PROVE  /\ Replies(m, n) \in Seq(ReplyUnit)
         /\ Len(Replies(m, n)) = (n - m) * ReplyUnits
         /\ (n - m) * ReplyUnits \in Nat
<1>1. ReplyUnits \in Nat \ {0} /\ (n - m) * ReplyUnits \in Nat
  BY SocketsAssumption DEF SocketsAssumption
<1>2. ASSUME NEW i \in 1..((n - m) * ReplyUnits)
      PROVE  <<m + 1 + ((i - 1) \div ReplyUnits), 1 + ((i - 1) % ReplyUnits)>> \in ReplyUnit
  <2>1. i - 1 \in Nat
    BY <1>1
  <2>2. (i - 1) \div ReplyUnits \in Nat /\ (i - 1) % ReplyUnits \in Nat
    BY <1>1, <2>1, Euclid
  <2> QED
    BY <2>2 DEF ReplyUnit
<1>3. Replies(m, n) \in [1..((n - m) * ReplyUnits) -> ReplyUnit]
  BY <1>2 DEF Replies
<1> QED
  BY <1>1, <1>3, TupleIsSeq

\* The i-th unit of all replies.
UnitAt(i) == <<1 + ((i - 1) \div ReplyUnits), 1 + ((i - 1) % ReplyUnits)>>

LEMMA RepliesElements ==
  ASSUME NEW m \in Nat, NEW n \in Nat, m <= n, NEW i \in 1..Len(Replies(m, n))
  PROVE  Replies(m, n)[i] = UnitAt(i + m * ReplyUnits)
<1>1. ReplyUnits \in Nat \ {0} /\ i \in 1..((n - m) * ReplyUnits)
  BY RepliesType, SocketsAssumption DEF SocketsAssumption
<1>2. PICK x \in Nat : i - 1 = x
  BY <1>1, RepliesType
<1>3. (i + m * ReplyUnits) - 1 = x + m * ReplyUnits
  BY <1>1, <1>2, RepliesType
<1>4. Replies(m, n)[i] = <<m + 1 + (x \div ReplyUnits), 1 + (x % ReplyUnits)>>
  BY <1>1, <1>2 DEF Replies
<1>5. x \div ReplyUnits \in Nat
  BY <1>1, Euclid
<1>6. m + 1 + (x \div ReplyUnits) = 1 + ((x + m * ReplyUnits) \div ReplyUnits)
  <2>1. (x + m * ReplyUnits) \div ReplyUnits = (x \div ReplyUnits) + m
    BY <1>1, DivisionShift
  <2> QED
    BY <1>5, <2>1
<1>7. x % ReplyUnits = (x + m * ReplyUnits) % ReplyUnits
  BY <1>1, DivisionShift
<1>8. UnitAt(i + m * ReplyUnits) =
        <<1 + ((x + m * ReplyUnits) \div ReplyUnits), 1 + ((x + m * ReplyUnits) % ReplyUnits)>>
  BY <1>3, Zenon DEF UnitAt
<1> QED
  BY <1>4, <1>6, <1>7, <1>8, Zenon

LEMMA RepliesExtend ==
  ASSUME NEW m \in Nat, NEW k \in Nat
  PROVE  Replies(0, m) \o Replies(m, m + k) = Replies(0, m + k)
<1>1. /\ ReplyUnits \in Nat \ {0} /\ m + k \in Nat /\ 0 <= m /\ m <= m + k /\ 0 <= m + k
      /\ m - 0 = m /\ (m + k) - m = k /\ (m + k) - 0 = m + k
  BY SocketsAssumption DEF SocketsAssumption
<1>2. PICK old, new, all : old = Replies(0, m) /\ new = Replies(m, m + k) /\ all = Replies(0, m + k)
  OBVIOUS
<1>3. /\ old \in Seq(ReplyUnit) /\ Len(old) = m * ReplyUnits
      /\ new \in Seq(ReplyUnit) /\ Len(new) = k * ReplyUnits
      /\ all \in Seq(ReplyUnit) /\ Len(all) = (m + k) * ReplyUnits
  BY <1>1, <1>2, RepliesType
<1>4. Len(old) \in Nat /\ Len(new) \in Nat /\ Len(all) = Len(old) + Len(new)
  BY <1>1, <1>3
<1>5. /\ \A i \in 1..Len(old) : old[i] = UnitAt(i + 0 * ReplyUnits)
      /\ \A i \in 1..Len(new) : new[i] = UnitAt(i + m * ReplyUnits)
      /\ \A i \in 1..Len(all) : all[i] = UnitAt(i + 0 * ReplyUnits)
  BY <1>1, <1>2, RepliesElements
<1>6. /\ old \o new \in Seq(ReplyUnit)
      /\ Len(old \o new) = Len(all)
      /\ \A i \in 1..Len(all) :
           (old \o new)[i] = IF i <= Len(old) THEN old[i] ELSE new[i - Len(old)]
  BY <1>3, <1>4, ConcatProperties
<1>7. ASSUME NEW i \in 1..Len(all)
      PROVE  (old \o new)[i] = all[i]
  <2>1. i + 0 * ReplyUnits = i /\ all[i] = UnitAt(i)
    BY <1>1, <1>4, <1>5
  <2>2. CASE i <= Len(old)
    BY <1>4, <1>5, <1>6, <2>1, <2>2
  <2>3. CASE ~(i <= Len(old))
    <3>1. i - Len(old) \in 1..Len(new) /\ (i - Len(old)) + m * ReplyUnits = i
      BY <1>1, <1>3, <1>4, <2>3
    <3> QED
      BY <1>5, <1>6, <2>1, <2>3, <3>1
  <2> QED
    BY <2>2, <2>3
<1> QED
  BY <1>2, <1>3, <1>6, <1>7, SeqEqual

-----------------------------------------------------------------------------
(* A client's buffer.                                                      *)

ClientRec == [conn : Conns, state : {"Reading", "Writing"}, parsed : Nat,
              write_buf : Seq(ReplyUnit), write_offset : Nat]

GoodClient(cl) ==
  /\ cl \in ClientRec
  /\ cl.write_offset <= Len(cl.write_buf)
  /\ cl.state = "Reading" => cl.write_buf = <<>>

LEMMA SuffixElements ==
  ASSUME NEW s \in Seq(ReplyUnit), NEW o \in 0..Len(s), NEW i \in 1..(Len(s) - o)
  PROVE  SubSeq(s, o + 1, Len(s))[i] = s[o + i]
OBVIOUS

LEMMA UnsentFacts ==
  ASSUME NEW cl, GoodClient(cl)
  PROVE  /\ Unsent(cl) \in Seq(ReplyUnit)
         /\ Len(Unsent(cl)) = Len(cl.write_buf) - cl.write_offset
         /\ cl.state = "Reading" => Unsent(cl) = <<>>
<1>1. /\ cl.write_buf \in Seq(ReplyUnit) /\ cl.write_offset \in Nat
      /\ Len(cl.write_buf) \in Nat /\ cl.write_offset <= Len(cl.write_buf)
  BY DEF GoodClient, ClientRec
<1>2. \A i \in (cl.write_offset + 1)..Len(cl.write_buf) : cl.write_buf[i] \in ReplyUnit
  BY <1>1, ElementOfSeq
<1>3. /\ Unsent(cl) \in Seq(ReplyUnit)
      /\ Len(Unsent(cl)) = Len(cl.write_buf) - cl.write_offset
  BY <1>1, <1>2, SubSeqProperties DEF Unsent
<1>4. ASSUME cl.state = "Reading"
      PROVE  Unsent(cl) = <<>>
  <2>1. Len(cl.write_buf) = 0
    BY <1>4 DEF GoodClient
  <2> QED
    BY <1>1, <2>1, SubSeqEmpty DEF Unsent
<1> QED
  BY <1>3, <1>4

LEMMA NewClientFacts ==
  ASSUME NEW c \in Conns
  PROVE  /\ GoodClient(NewClient(c))
         /\ Unsent(NewClient(c)) = <<>>
         /\ NewClient(c).conn = c /\ NewClient(c).parsed = 0 /\ NewClient(c).state = "Reading"
<1>1. GoodClient(NewClient(c)) /\ NewClient(c).state = "Reading"
  BY EmptySeq DEF GoodClient, NewClient, ClientRec
<1> QED
  BY <1>1, UnsentFacts DEF NewClient

LEMMA EnqueueFacts ==
  ASSUME NEW cl, GoodClient(cl), NEW r \in Seq(ReplyUnit)
  PROVE  /\ GoodClient(EnqueueResponse(cl, r))
         /\ Unsent(EnqueueResponse(cl, r)) = Unsent(cl) \o r
         /\ EnqueueResponse(cl, r).conn = cl.conn
         /\ EnqueueResponse(cl, r).parsed = cl.parsed
         /\ EnqueueResponse(cl, r).state = "Writing"
<1>1. PICK b, o : b = cl.write_buf /\ o = cl.write_offset
  OBVIOUS
<1>2. b \in Seq(ReplyUnit) /\ o \in 0..Len(b) /\ Len(b) \in Nat /\ Len(r) \in Nat
  BY <1>1, LenProperties DEF GoodClient, ClientRec
<1>3. /\ b \o r \in Seq(ReplyUnit) /\ Len(b \o r) = Len(b) + Len(r)
      /\ \A i \in 1..(Len(b) + Len(r)) : (b \o r)[i] = IF i <= Len(b) THEN b[i] ELSE r[i - Len(b)]
  BY <1>2, ConcatProperties
<1>4. PICK e : e = EnqueueResponse(cl, r)
  OBVIOUS
<1>5. /\ e.conn = cl.conn /\ e.parsed = cl.parsed /\ e.state = "Writing"
      /\ e.write_buf = b \o r /\ e.write_offset = o
      /\ e \in ClientRec
  BY <1>1, <1>3, <1>4 DEF EnqueueResponse, GoodClient, ClientRec
<1>6. GoodClient(e)
  BY <1>2, <1>3, <1>5 DEF GoodClient
<1>7. /\ Unsent(cl) \in Seq(ReplyUnit) /\ Len(Unsent(cl)) = Len(b) - o
      /\ Unsent(e) \in Seq(ReplyUnit) /\ Len(Unsent(e)) = (Len(b) + Len(r)) - o
  <2>1. Unsent(cl) \in Seq(ReplyUnit) /\ Len(Unsent(cl)) = Len(b) - o
    BY <1>1, UnsentFacts
  <2>2. Unsent(e) \in Seq(ReplyUnit) /\ Len(Unsent(e)) = Len(b \o r) - o
    BY <1>5, <1>6, UnsentFacts
  <2> QED
    BY <1>3, <2>1, <2>2
<1>8. /\ Unsent(cl) \o r \in Seq(ReplyUnit)
      /\ Len(Unsent(cl) \o r) = Len(Unsent(cl)) + Len(r)
      /\ \A i \in 1..(Len(Unsent(cl)) + Len(r)) :
           (Unsent(cl) \o r)[i] = IF i <= Len(Unsent(cl)) THEN Unsent(cl)[i]
                                  ELSE r[i - Len(Unsent(cl))]
  BY <1>7, ConcatProperties
<1>9. ASSUME NEW i \in 1..Len(Unsent(e))
      PROVE  Unsent(e)[i] = (Unsent(cl) \o r)[i]
  <2>1. Unsent(e)[i] = (b \o r)[o + i]
    <3>1. o \in 0..Len(b \o r) /\ i \in 1..(Len(b \o r) - o)
      BY <1>2, <1>3, <1>7
    <3>2. SubSeq(b \o r, o + 1, Len(b \o r))[i] = (b \o r)[o + i]
      BY <1>3, <3>1, SuffixElements
    <3> QED
      BY <1>5, <3>2 DEF Unsent
  <2>2. CASE i <= Len(Unsent(cl))
    <3>1. i \in 1..(Len(b) - o) /\ o + i \in 1..(Len(b) + Len(r)) /\ o + i <= Len(b)
      BY <1>2, <1>7, <2>2
    <3>2. Unsent(cl)[i] = b[o + i]
      BY <1>1, <1>2, <3>1, SuffixElements DEF Unsent
    <3>3. i \in 1..(Len(Unsent(cl)) + Len(r))
      BY <1>2, <1>7, <2>2
    <3> QED
      BY <1>3, <1>8, <2>1, <2>2, <3>1, <3>2, <3>3
  <2>3. CASE ~(i <= Len(Unsent(cl)))
    <3>1. /\ o + i \in 1..(Len(b) + Len(r)) /\ ~(o + i <= Len(b))
          /\ i \in 1..(Len(Unsent(cl)) + Len(r))
          /\ (o + i) - Len(b) = i - Len(Unsent(cl))
      BY <1>2, <1>7, <2>3
    <3> QED
      BY <1>3, <1>8, <2>1, <2>3, <3>1
  <2> QED
    BY <2>2, <2>3
<1>10. Len(Unsent(e)) = Len(Unsent(cl) \o r)
  BY <1>2, <1>7, <1>8
<1>11. Unsent(e) = Unsent(cl) \o r
  BY <1>7, <1>8, <1>9, <1>10, SeqEqual
<1> QED
  BY <1>4, <1>5, <1>6, <1>11

\* What the parser keeps and what it completes add up to what it was fed.
LEMMA FeedFacts ==
  ASSUME NEW cl, GoodClient(cl), NEW n \in Nat, NEW done \in Nat
  PROVE  LET k == Completed(cl, n)
             fed == Feed(cl, n, done)
         IN  /\ k \in Nat
             /\ GoodClient(fed)
             /\ fed.conn = cl.conn
             /\ k * RequestUnits + fed.parsed = cl.parsed + n
             /\ Unsent(fed) = Unsent(cl) \o Replies(done, done + k)
             /\ fed.state = IF k = 0 THEN cl.state ELSE "Writing"
             /\ k = 0 => Unsent(fed) = Unsent(cl)
             /\ k # 0 => Unsent(fed) # <<>>
<1> DEFINE k == Completed(cl, n)
           fed == [cl EXCEPT !.parsed = (@ + n) % RequestUnits]
           r == Replies(done, done + k)
<1>1. RequestUnits \in Nat \ {0} /\ ReplyUnits \in Nat \ {0}
  BY SocketsAssumption DEF SocketsAssumption
<1>2. PICK x \in Nat : x = cl.parsed + n
  BY DEF GoodClient, ClientRec
<1>3. /\ k \in Nat /\ x % RequestUnits \in Nat
      /\ k * RequestUnits + (x % RequestUnits) = x
  <2>1. k = x \div RequestUnits
    BY <1>2 DEF Completed
  <2>2. PICK q \in Nat, m \in 0..(RequestUnits - 1) :
          x = q * RequestUnits + m /\ x \div RequestUnits = q /\ x % RequestUnits = m
    BY <1>1, Euclid
  <2> HIDE DEF k
  <2> QED
    BY <1>1, <2>1, <2>2
<1>4. /\ fed \in ClientRec /\ fed.conn = cl.conn /\ fed.state = cl.state
      /\ fed.parsed = x % RequestUnits
      /\ fed.write_buf = cl.write_buf /\ fed.write_offset = cl.write_offset
  BY <1>2, <1>3 DEF GoodClient, ClientRec
<1>5. GoodClient(fed) /\ Unsent(fed) = Unsent(cl)
  BY <1>4 DEF GoodClient, Unsent
<1>6. /\ done + k \in Nat /\ done <= done + k /\ (done + k) - done = k
      /\ Unsent(cl) \in Seq(ReplyUnit)
  BY <1>3, UnsentFacts
<1>7. r \in Seq(ReplyUnit) /\ Len(r) = k * ReplyUnits
  BY <1>6, RepliesType
<1> HIDE DEF k, fed, r
<1>8. CASE k = 0
  <2>1. Feed(cl, n, done) = fed
    BY <1>8 DEF Feed, k, fed
  <2>2. r = <<>>
    BY <1>1, <1>7, <1>8
  <2>3. Unsent(fed) = Unsent(cl) \o r
    BY <1>5, <1>6, <2>2, ConcatEmptySeq
  <2> QED
    BY <1>2, <1>3, <1>4, <1>5, <1>8, <2>1, <2>3 DEF k, r
<1>9. CASE k # 0
  <2>1. Feed(cl, n, done) = EnqueueResponse(fed, r)
    BY <1>9 DEF Feed, k, fed, r
  <2>2. /\ GoodClient(EnqueueResponse(fed, r))
        /\ Unsent(EnqueueResponse(fed, r)) = Unsent(cl) \o r
        /\ EnqueueResponse(fed, r).conn = cl.conn
        /\ EnqueueResponse(fed, r).parsed = x % RequestUnits
        /\ EnqueueResponse(fed, r).state = "Writing"
    BY <1>4, <1>5, <1>7, EnqueueFacts
  <2>3. Unsent(cl) \o r # <<>>
    <3>1. Len(r) # 0
      BY <1>1, <1>3, <1>7, <1>9
    <3> QED
      BY <1>6, <1>7, <3>1, ConcatEqualIffEmpty, EmptySeq
  <2> QED
    BY <1>2, <1>3, <1>9, <2>1, <2>2, <2>3 DEF k, r
<1> QED
  BY <1>8, <1>9

LEMMA SentFacts ==
  ASSUME NEW cl, GoodClient(cl), NEW n \in 1..Len(Unsent(cl))
  PROVE  /\ GoodClient(Sent(cl, n))
         /\ Sent(cl, n).conn = cl.conn /\ Sent(cl, n).parsed = cl.parsed
         /\ SubSeq(Unsent(cl), 1, n) \in Seq(ReplyUnit)
         /\ Len(SubSeq(Unsent(cl), 1, n)) = n
         /\ Unsent(cl) = SubSeq(Unsent(cl), 1, n) \o Unsent(Sent(cl, n))
<1>1. PICK b, o : b = cl.write_buf /\ o = cl.write_offset
  OBVIOUS
<1>2. b \in Seq(ReplyUnit) /\ o \in 0..Len(b) /\ Len(b) \in Nat
  BY <1>1, LenProperties DEF GoodClient, ClientRec
<1>3. PICK u : u = Unsent(cl)
  OBVIOUS
<1>4. u \in Seq(ReplyUnit) /\ Len(u) = Len(b) - o /\ n \in 1..Len(u)
  BY <1>1, <1>3, UnsentFacts
<1>5. PICK s : s = Sent(cl, n)
  OBVIOUS
<1>7. o + n <= Len(b) /\ o + n \in Nat
  BY <1>2, <1>4
<1>13. s = [cl EXCEPT !.write_offset = o + n]
  BY <1>1, <1>5 DEF Sent
<1>6. /\ s.conn = cl.conn /\ s.parsed = cl.parsed /\ s.state = cl.state
      /\ s.write_buf = b /\ s.write_offset = o + n
      /\ s \in ClientRec
  BY <1>1, <1>7, <1>13 DEF GoodClient, ClientRec
<1>8. GoodClient(s)
  BY <1>1, <1>6, <1>7 DEF GoodClient
<1>9. u = SubSeq(b, o + 1, Len(b)) /\ Unsent(s) = SubSeq(b, (o + n) + 1, Len(b))
  BY <1>1, <1>3, <1>6 DEF Unsent
<1>10. SubSeq(u, 1, n) = SubSeq(b, o + 1, o + n)
  BY <1>2, <1>4, <1>7, <1>9
<1>11. SubSeq(b, o + 1, o + n) \o SubSeq(b, (o + n) + 1, Len(b)) = SubSeq(b, o + 1, Len(b))
  <2>1. /\ o + 1 \in 1..(Len(b) + 1) /\ o + n \in ((o + 1) - 1)..Len(b)
        /\ Len(b) \in (o + n)..Len(b)
    BY <1>2, <1>4, <1>7
  <2> QED
    BY <1>2, <2>1, ConcatAdjacentSubSeq
<1>12. SubSeq(u, 1, n) \in Seq(ReplyUnit) /\ Len(SubSeq(u, 1, n)) = n
  BY <1>4
<1> QED
  BY <1>3, <1>5, <1>6, <1>8, <1>9, <1>10, <1>11, <1>12

LEMMA FlushedFacts ==
  ASSUME NEW cl, GoodClient(cl)
  PROVE  /\ GoodClient(Flushed(cl)) /\ Unsent(Flushed(cl)) = <<>>
         /\ Flushed(cl).conn = cl.conn /\ Flushed(cl).parsed = cl.parsed
         /\ Flushed(cl).state = "Reading"
<1>1. /\ Flushed(cl) \in ClientRec
      /\ Flushed(cl).conn = cl.conn /\ Flushed(cl).parsed = cl.parsed
      /\ Flushed(cl).state = "Reading" /\ Flushed(cl).write_buf = <<>>
      /\ Flushed(cl).write_offset = 0
  BY EmptySeq DEF GoodClient, ClientRec, Flushed
<1>2. GoodClient(Flushed(cl))
  BY <1>1 DEF GoodClient
<1> QED
  BY <1>1, <1>2, UnsentFacts

-----------------------------------------------------------------------------
(* A connection: what its socket and its client hold are the replies that  *)
(* have not been lost, in order.                                           *)

SocketRec == [phase : Phases, sent : Nat, unread : Nat,
              garbage : BOOLEAN, fin : BOOLEAN, rst : BOOLEAN,
              sendq : Seq(ReplyUnit), received : Seq(ReplyUnit)]

Arrived(s) == s.received \o s.sendq

\* A socket whose first n requests have been executed.
GoodSocket(s, n) ==
  /\ s \in SocketRec
  /\ s.phase \in {"new", "waiting"} =>
       n = 0 /\ s.unread = s.sent /\ s.received = <<>> /\ s.sendq = <<>>
  /\ s.rst => s.sendq = <<>>
  /\ \E rest \in Seq(ReplyUnit) : Arrived(s) \o rest = Replies(0, n)

\* A socket together with the client that serves it.
GoodPair(s, cl, n) ==
  /\ GoodClient(cl)
  /\ n * RequestUnits + cl.parsed + s.unread = s.sent
  /\ ~s.rst => Arrived(s) \o Unsent(cl) = Replies(0, n)

LEMMA ArrivedType ==
  ASSUME NEW s \in SocketRec
  PROVE  /\ s.received \in Seq(ReplyUnit) /\ s.sendq \in Seq(ReplyUnit)
         /\ Arrived(s) \in Seq(ReplyUnit)
BY ConcatProperties DEF SocketRec, Arrived

LEMMA NoReplies == Replies(0, 0) = <<>>
<1>1. ReplyUnits \in Nat \ {0}
  BY SocketsAssumption DEF SocketsAssumption
<1>2. Replies(0, 0) \in Seq(ReplyUnit) /\ Len(Replies(0, 0)) = (0 - 0) * ReplyUnits
  BY RepliesType
<1>3. Len(Replies(0, 0)) = 0
  BY <1>1, <1>2
<1> QED
  BY <1>2, <1>3, EmptySeq

LEMMA GoodNewSocket == GoodSocket(NewSocket, 0)
<1>1. NewSocket \in SocketRec
  BY EmptySeq DEF NewSocket, SocketRec, Phases
<1>2. Arrived(NewSocket) = <<>>
  BY ConcatEmptySeq, EmptySeq DEF NewSocket, Arrived
<1>3. Arrived(NewSocket) \o <<>> = Replies(0, 0) /\ <<>> \in Seq(ReplyUnit)
  BY <1>2, NoReplies, ConcatEmptySeq, EmptySeq
<1> QED
  BY <1>1, <1>3 DEF GoodSocket, NewSocket

\* Whatever else changes, a socket stays good when its send buffer stays or is dropped.
LEMMA GoodSocketStays ==
  ASSUME NEW s, NEW n \in Nat, GoodSocket(s, n), NEW s2 \in SocketRec,
         s2.received = s.received,
         s2.sendq = s.sendq \/ s2.sendq = <<>>,
         s2.rst => s2.sendq = <<>>,
         s2.phase \in {"new", "waiting"} => s.phase \in {"new", "waiting"} /\ s2.unread = s2.sent
  PROVE  GoodSocket(s2, n)
<1>1. PICK rest \in Seq(ReplyUnit) : Arrived(s) \o rest = Replies(0, n)
  BY DEF GoodSocket
<1>2. s \in SocketRec
  BY DEF GoodSocket
<1>3. \E more \in Seq(ReplyUnit) : Arrived(s2) \o more = Replies(0, n)
  <2>1. CASE s2.sendq = s.sendq
    BY <1>1, <2>1 DEF Arrived
  <2>2. CASE s2.sendq = <<>>
    <3>1. Arrived(s2) = s.received
      BY <1>2, <2>2, ArrivedType, ConcatEmptySeq DEF Arrived
    <3>2. s.sendq \o rest \in Seq(ReplyUnit)
      BY <1>2, ArrivedType, ConcatProperties
    <3>3. s.received \o (s.sendq \o rest) = Replies(0, n)
      <4>1. PICK r, q : r = s.received /\ q = s.sendq
        OBVIOUS
      <4>2. r \in Seq(ReplyUnit) /\ q \in Seq(ReplyUnit)
        BY <1>2, <4>1, ArrivedType
      <4>3. (r \o q) \o rest = Replies(0, n)
        BY <1>1, <4>1 DEF Arrived
      <4>4. (r \o q) \o rest = r \o (q \o rest)
        BY <1>1, <4>2, ConcatAssociative
      <4> QED
        BY <4>1, <4>3, <4>4
    <3> QED
      BY <3>1, <3>2, <3>3
  <2> QED
    BY <2>1, <2>2
<1> QED
  BY <1>3 DEF GoodSocket

LEMMA GoodClosed ==
  ASSUME NEW s, NEW n \in Nat, GoodSocket(s, n)
  PROVE  GoodSocket(Closed(s), n)
<1>1. /\ Closed(s) \in SocketRec /\ Closed(s).received = s.received
      /\ Closed(s).sendq \in {s.sendq, <<>>} /\ Closed(s).rst = s.rst
      /\ Closed(s).phase = "closed"
  BY EmptySeq DEF GoodSocket, SocketRec, Closed, Phases
<1> QED
  BY <1>1, GoodSocketStays DEF GoodSocket

LEMMA Shifted ==
  ASSUME NEW s \in Seq(ReplyUnit), NEW t \in Seq(ReplyUnit), t # <<>>
  PROVE  /\ Append(s, Head(t)) \in Seq(ReplyUnit) /\ Tail(t) \in Seq(ReplyUnit)
         /\ Append(s, Head(t)) \o Tail(t) = s \o t
<1>1. Head(t) \in ReplyUnit /\ Tail(t) \in Seq(ReplyUnit) /\ Len(Tail(t)) = Len(t) - 1
  BY HeadTailProperties
<1>2. Append(s, Head(t)) \in Seq(ReplyUnit)
  BY <1>1
<1>3. <<Head(t)>> \in Seq(ReplyUnit) /\ Append(s, Head(t)) = s \o <<Head(t)>>
  BY <1>1
<1>4. <<Head(t)>> \o Tail(t) = t
  BY <1>1
<1>5. (s \o <<Head(t)>>) \o Tail(t) = s \o (<<Head(t)>> \o Tail(t))
  BY <1>1, <1>3, ConcatAssociative
<1> QED
  BY <1>1, <1>2, <1>3, <1>4, <1>5

-----------------------------------------------------------------------------
(* The inductive invariant of requests and replies.                        *)

SocketsGood ==
  /\ executed \in [Conns -> Nat]
  /\ \A c \in Conns : GoodSocket(sock[c], executed[c])
PairsGood ==
  \A fd \in DOMAIN clients :
    GoodPair(sock[clients[fd].conn], clients[fd], executed[clients[fd].conn])
RepliesInv == SocketsGood /\ PairsGood

\* Steps after which every client serves its connection as before.
LEMMA ClientsKept ==
  ASSUME RepliesInv, UNCHANGED <<sock, executed>>,
         \A fd \in DOMAIN clients' : fd \in DOMAIN clients /\ clients'[fd] = clients[fd]
  PROVE  RepliesInv'
BY DEF RepliesInv, SocketsGood, PairsGood

\* A step that changes one socket, whose client (if any) stays in step with it.
LEMMA OneSocket ==
  ASSUME IInv, RepliesInv, NEW c \in Conns, NEW s,
         sock' = [sock EXCEPT ![c] = s], UNCHANGED executed, GoodSocket(s, executed[c]),
         \A fd \in DOMAIN clients' : fd \in DOMAIN clients /\ clients'[fd] = clients[fd],
         \A fd \in DOMAIN clients' : clients[fd].conn = c => GoodPair(s, clients[fd], executed[c])
  PROVE  RepliesInv'
<1>1. \A x \in Conns : sock'[x] = IF x = c THEN s ELSE sock[x]
  BY DEF IInv, SocketsInv
<1>2. \A fd \in DOMAIN clients : clients[fd].conn \in Conns
  BY DEF IInv, OwnersInv
<1>3. SocketsGood'
  BY <1>1 DEF RepliesInv, SocketsGood
<1>4. PairsGood'
  BY <1>1, <1>2 DEF RepliesInv, PairsGood
<1> QED
  BY <1>3, <1>4 DEF RepliesInv

LEMMA CloseKeepsReplies ==
  ASSUME IInv, RepliesInv, NEW fd \in DOMAIN clients, CloseClient(fd), UNCHANGED executed
  PROVE  RepliesInv'
<1>1. PICK c \in Conns : c = clients[fd].conn
  BY DEF IInv, OwnersInv
<1>2. sock' = [sock EXCEPT ![c] = Closed(sock[c])]
  BY <1>1 DEF CloseClient, CloseClientOf, IInv, SocketsInv
<1>3. executed[c] \in Nat /\ GoodSocket(Closed(sock[c]), executed[c])
  BY GoodClosed DEF RepliesInv, SocketsGood
<1>4. \A x \in DOMAIN clients' : x \in DOMAIN clients /\ clients'[x] = clients[x] /\ x # fd
  BY DEF CloseClient, CloseClientOf, Without, Restrict
<1>5. \A x \in DOMAIN clients' : clients[x].conn # c
  BY <1>1, <1>4 DEF IInv, OwnersInv
<1> QED
  BY <1>2, <1>3, <1>4, <1>5, OneSocket

\* A step that closes every client, and some connections.
LEMMA AllClosedReplies ==
  ASSUME RepliesInv, DOMAIN clients' = {}, UNCHANGED executed,
         \A c \in Conns : sock'[c] = sock[c] \/ sock'[c] = Closed(sock[c])
  PROVE  RepliesInv'
<1>1. PairsGood'
  BY DEF PairsGood
<1>2. SocketsGood'
  BY GoodClosed DEF RepliesInv, SocketsGood
<1> QED
  BY <1>1, <1>2 DEF RepliesInv

\* What the peers do.
LEMMA ConnectKeepsReplies ==
  ASSUME IInv, RepliesInv, NEW c \in Conns, Connect(c), UNCHANGED <<executed, clients>>
  PROVE  RepliesInv'
<1>1. PICK s : s = [sock[c] EXCEPT !.phase = "waiting"]
  OBVIOUS
<1>2. GoodSocket(sock[c], executed[c]) /\ executed[c] \in Nat /\ sock[c].phase = "new"
  BY DEF RepliesInv, SocketsGood, Connect
<1>3. /\ s \in SocketRec /\ s.received = sock[c].received /\ s.sendq = sock[c].sendq
      /\ s.rst = sock[c].rst /\ s.unread = s.sent
  BY <1>1, <1>2 DEF GoodSocket, SocketRec, Phases
<1>4. GoodSocket(s, executed[c])
  BY <1>2, <1>3, GoodSocketStays DEF GoodSocket
<1>5. sock' = [sock EXCEPT ![c] = s]
  BY <1>1 DEF Connect, IInv, SocketsInv
<1>6. \A fd \in DOMAIN clients' : clients[fd].conn # c
  BY <1>2 DEF IInv, OwnersInv
<1> QED
  BY <1>4, <1>5, <1>6, OneSocket

LEMMA PeerSendKeepsReplies ==
  ASSUME IInv, RepliesInv, NEW c \in Conns, PeerSend(c), UNCHANGED <<executed, clients>>
  PROVE  RepliesInv'
<1>1. PICK s : s = [sock[c] EXCEPT !.sent = @ + 1, !.unread = @ + 1]
  OBVIOUS
<1>2. GoodSocket(sock[c], executed[c]) /\ executed[c] \in Nat
  BY DEF RepliesInv, SocketsGood
<1>7. /\ sock[c] \in SocketRec /\ (sock[c].rst => sock[c].sendq = <<>>)
      /\ (sock[c].phase \in {"new", "waiting"} => sock[c].unread = sock[c].sent)
  BY <1>2 DEF GoodSocket
<1>3. /\ s \in SocketRec /\ s.received = sock[c].received /\ s.sendq = sock[c].sendq
      /\ s.rst = sock[c].rst /\ s.phase = sock[c].phase
      /\ s.sent = sock[c].sent + 1 /\ s.unread = sock[c].unread + 1
  <2>1. PICK m \in Nat, n \in Nat : m = sock[c].sent + 1 /\ n = sock[c].unread + 1
    BY <1>7 DEF SocketRec
  <2>2. s = [sock[c] EXCEPT !.sent = m, !.unread = n]
    BY <1>1, <1>7, <2>1 DEF SocketRec
  <2> QED
    BY <1>7, <2>1, <2>2 DEF SocketRec
<1>4. GoodSocket(s, executed[c])
  BY <1>2, <1>3, <1>7, GoodSocketStays
<1>5. sock' = [sock EXCEPT ![c] = s]
  BY <1>1 DEF PeerSend, IInv, SocketsInv
<1>6. ASSUME NEW fd \in DOMAIN clients', clients[fd].conn = c
      PROVE  GoodPair(s, clients[fd], executed[c])
  <2>1. GoodPair(sock[c], clients[fd], executed[c])
    BY <1>6 DEF RepliesInv, PairsGood
  <2>2. PICK m \in Nat : m = executed[c] * RequestUnits
    BY <1>2, SocketsAssumption DEF SocketsAssumption
  <2>3. clients[fd].parsed \in Nat /\ sock[c].unread \in Nat /\ sock[c].sent \in Nat
    BY <1>2, <2>1 DEF GoodPair, GoodClient, ClientRec, GoodSocket, SocketRec
  <2>4. m + clients[fd].parsed + sock[c].unread = sock[c].sent
    BY <2>1, <2>2 DEF GoodPair
  <2>5. m + clients[fd].parsed + s.unread = s.sent
    BY <1>3, <2>2, <2>3, <2>4
  <2> QED
    BY <1>3, <2>1, <2>2, <2>5 DEF GoodPair, Arrived
<1> QED
  BY <1>4, <1>5, <1>6, OneSocket

LEMMA PeerFaultKeepsReplies ==
  ASSUME IInv, RepliesInv, NEW c \in Conns, PeerFault(c), UNCHANGED <<executed, clients>>
  PROVE  RepliesInv'
<1>2. GoodSocket(sock[c], executed[c]) /\ executed[c] \in Nat
  BY DEF RepliesInv, SocketsGood
<1>1. PICK s \in {[sock[c] EXCEPT !.garbage = TRUE], [sock[c] EXCEPT !.fin = TRUE],
                  [sock[c] EXCEPT !.rst = TRUE, !.sendq = <<>>]} : sock' = [sock EXCEPT ![c] = s]
  BY DEF PeerFault, IInv, SocketsInv
<1>7. /\ sock[c] \in SocketRec /\ (sock[c].rst => sock[c].sendq = <<>>)
      /\ (sock[c].phase \in {"new", "waiting"} => sock[c].unread = sock[c].sent)
  BY <1>2 DEF GoodSocket
<1>3. /\ s \in SocketRec /\ s.received = sock[c].received
      /\ s.sendq = sock[c].sendq \/ s.sendq = <<>>
      /\ ~s.rst => s.sendq = sock[c].sendq /\ ~sock[c].rst
      /\ s.rst => s.sendq = <<>>
      /\ s.phase = sock[c].phase /\ s.sent = sock[c].sent /\ s.unread = sock[c].unread
  BY <1>1, <1>2, EmptySeq DEF GoodSocket, SocketRec
<1>4. GoodSocket(s, executed[c])
  BY <1>2, <1>3, <1>7, GoodSocketStays
<1>6. ASSUME NEW fd \in DOMAIN clients', clients[fd].conn = c
      PROVE  GoodPair(s, clients[fd], executed[c])
  BY <1>3, <1>6 DEF RepliesInv, PairsGood, GoodPair, Arrived
<1> QED
  BY <1>1, <1>4, <1>6, OneSocket

LEMMA PeerReceiveKeepsReplies ==
  ASSUME IInv, RepliesInv, NEW c \in Conns, PeerReceive(c), UNCHANGED <<executed, clients>>
  PROVE  RepliesInv'
<1>2. GoodSocket(sock[c], executed[c]) /\ executed[c] \in Nat /\ sock[c].sendq # <<>>
  BY DEF RepliesInv, SocketsGood, PeerReceive
<1>1. PICK s : s = [sock[c] EXCEPT !.received = Append(@, Head(sock[c].sendq)), !.sendq = Tail(@)]
  OBVIOUS
<1>3. /\ s \in SocketRec /\ s.rst = sock[c].rst
      /\ s.phase = sock[c].phase /\ s.sent = sock[c].sent /\ s.unread = sock[c].unread
      /\ Arrived(s) = Arrived(sock[c])
  <2>1. sock[c].received \in Seq(ReplyUnit) /\ sock[c].sendq \in Seq(ReplyUnit)
    BY <1>2, ArrivedType DEF GoodSocket
  <2>2. PICK r, q : r = Append(sock[c].received, Head(sock[c].sendq)) /\ q = Tail(sock[c].sendq)
    OBVIOUS
  <2>3. r \in Seq(ReplyUnit) /\ q \in Seq(ReplyUnit) /\ r \o q = Arrived(sock[c])
    BY <1>2, <2>1, <2>2, Shifted DEF Arrived
  <2>4. s = [sock[c] EXCEPT !.received = r, !.sendq = q]
    BY <1>1, <1>2, <2>2 DEF GoodSocket, SocketRec
  <2> QED
    BY <1>2, <2>3, <2>4 DEF GoodSocket, SocketRec, Arrived
<1>4. GoodSocket(s, executed[c])
  BY <1>2, <1>3 DEF GoodSocket
<1>5. sock' = [sock EXCEPT ![c] = s]
  BY <1>1 DEF PeerReceive, IInv, SocketsInv
<1>6. ASSUME NEW fd \in DOMAIN clients', clients[fd].conn = c
      PROVE  GoodPair(s, clients[fd], executed[c])
  BY <1>3, <1>6 DEF RepliesInv, PairsGood, GoodPair
<1> QED
  BY <1>4, <1>5, <1>6, OneSocket

LEMMA WorldKeepsReplies ==
  ASSUME IInv, RepliesInv, WorldStep
  PROVE  RepliesInv'
<1>1. UNCHANGED <<executed, clients>>
  BY DEF WorldStep, serverVars
<1>2. CASE \E c \in Conns : \/ Listening /\ Connect(c)
                            \/ PeerSend(c) \/ PeerFault(c) \/ PeerReceive(c)
  BY <1>1, <1>2, ConnectKeepsReplies, PeerSendKeepsReplies, PeerFaultKeepsReplies,
     PeerReceiveKeepsReplies
<1>3. CASE SendSignal
  BY <1>1, <1>3, ClientsKept DEF SendSignal
<1> QED
  BY <1>2, <1>3 DEF WorldStep

\* What start and the end of the process close.
LEMMA StartKeepsReplies ==
  ASSUME IInv, RepliesInv, StartOrReturn
  PROVE  RepliesInv'
<1>1. UNCHANGED <<executed, clients>>
  BY DEF StartOrReturn, BlockSignals, OpenSignalFd, OpenSocket, Bind, Listen, AddSignal, AddListen,
         StartStep, AddService, GiveUp, Return, worldVars, serverVars
<1>2. CASE sock' = sock
  BY <1>1, <1>2, ClientsKept
<1>3. CASE sock' # sock
  <2>1. life \in Starting /\ GiveUp
    BY <1>3 DEF StartOrReturn, BlockSignals, OpenSignalFd, OpenSocket, Bind, Listen, AddSignal,
                AddListen, StartStep, AddService, Return, Starting, worldVars
  <2>2. DOMAIN clients = {}
    BY <2>1 DEF IInv, LifeInv, StopInv, Starting
  <2>3. \A c \in Conns : sock'[c] = sock[c] \/ sock'[c] = Closed(sock[c])
    BY <2>1 DEF GiveUp
  <2> QED
    BY <1>1, <2>2, <2>3, AllClosedReplies
<1> QED
  BY <1>2, <1>3

LEMMA ShutdownKeepsReplies ==
  ASSUME IInv, RepliesInv, Shutdown, UNCHANGED executed
  PROVE  RepliesInv'
<1>1. \A c \in Conns : sock'[c] = sock[c] \/ sock'[c] = Closed(sock[c])
  BY DEF Shutdown
<1> QED
  BY <1>1, ShutdownTables, AllClosedReplies

\* The descriptor of a new connection.
LEMMA FreshFd ==
  ASSUME IInv, Accept
  PROVE  Min(FreeFds) \in ClientFds /\ Min(FreeFds) \notin DOMAIN clients
<1>1. FreeFds # {}
  BY DEF Accept
<1> QED
  BY <1>1, LeastFree DEF FreeFds

\* A connection that cannot be registered is closed, and nothing else happens.
LEMMA AddFailsCloses ==
  ASSUME IInv, NEW fd \in ClientFds, fd \notin DOMAIN clients,
         NEW c \in Conns, sock[c] \in SocketRec, AddFails(fd, c)
  PROVE  /\ sock' = [sock EXCEPT ![c] = Closed(sock[c])]
         /\ DOMAIN clients' = DOMAIN clients
         /\ \A x \in DOMAIN clients : clients'[x] = clients[x]
<1>1. PICK s : s = [sock[c] EXCEPT !.phase = "accepted"]
  OBVIOUS
<1>2. Closed(s) = Closed(sock[c])
  BY <1>1 DEF Closed, SocketRec
<1>3. [[sock EXCEPT ![c].phase = "accepted"] EXCEPT ![c] = Closed(s)]
        = [sock EXCEPT ![c] = Closed(s)]
  BY DEF IInv, SocketsInv
<1>4. sock' = [[sock EXCEPT ![c].phase = "accepted"] EXCEPT ![c] = Closed(s)]
  <2>1. PICK cls : cls = WithClient(fd, c)
    OBVIOUS
  <2>2. PICK socks : socks = Taken(c)
    OBVIOUS
  <2>3. cls[fd].conn = c
    BY <2>1, NewClientFacts DEF WithClient
  <2>4. socks[c] = s
    BY <1>1, <2>2 DEF Taken, IInv, SocketsInv
  <2>5. sock' = [socks EXCEPT ![c] = Closed(s)]
    BY <2>1, <2>2, <2>3, <2>4 DEF AddFails, CloseClientOf
  <2> QED
    BY <2>2, <2>5 DEF Taken
<1> QED
  BY <1>2, <1>3, <1>4, AddFailsUndone

\* A connection is accepted, with nothing read and nothing answered, or closed again.
LEMMA AcceptKeepsReplies ==
  ASSUME IInv, RepliesInv, Accept
  PROVE  RepliesInv'
<1>1. PICK c \in Conns : c = Head(backlog) /\ sock[c].phase = "waiting"
  <2>1. backlog \in Seq(Conns) /\ 1 \in 1..Len(backlog) /\ Head(backlog) = backlog[1]
    BY DEF Accept, IInv, BacklogInv
  <2>2. backlog[1] \in Conns
    BY <2>1
  <2> QED
    BY <2>1, <2>2 DEF IInv, BacklogInv
<1>2. GoodSocket(sock[c], executed[c]) /\ executed[c] = 0 /\ sock[c] \in SocketRec
  BY <1>1 DEF RepliesInv, SocketsGood, GoodSocket
<1>3. /\ sock[c].unread = sock[c].sent /\ sock[c].sent \in Nat
      /\ sock[c].received = <<>> /\ sock[c].sendq = <<>>
  BY <1>1, <1>2 DEF GoodSocket, SocketRec
<1>4. \A fd \in DOMAIN clients : clients[fd].conn \in Conns /\ clients[fd].conn # c
  BY <1>1 DEF IInv, OwnersInv
<1>5. UNCHANGED executed
  BY DEF Accept
<1>6. CASE AddFails(Min(FreeFds), c)
  <2>1. /\ sock' = [sock EXCEPT ![c] = Closed(sock[c])]
        /\ DOMAIN clients' = DOMAIN clients
        /\ \A x \in DOMAIN clients : clients'[x] = clients[x]
    BY <1>1, <1>2, <1>6, FreshFd, AddFailsCloses
  <2>2. GoodSocket(Closed(sock[c]), executed[c])
    BY <1>2, GoodClosed
  <2> QED
    BY <1>4, <1>5, <2>1, <2>2, OneSocket
<1>7. CASE sock' = Taken(c) /\ clients' = WithClient(Min(FreeFds), c)
  <2>1. PICK s : s = [sock[c] EXCEPT !.phase = "accepted"]
    OBVIOUS
  <2>2. \A x \in Conns : sock'[x] = IF x = c THEN s ELSE sock[x]
    BY <1>7, <2>1 DEF Taken, IInv, SocketsInv
  <2>3. /\ s \in SocketRec /\ s.phase = "accepted" /\ s.rst = sock[c].rst
        /\ s.received = sock[c].received /\ s.sendq = sock[c].sendq
        /\ s.unread = s.sent /\ s.sent \in Nat
    BY <1>2, <1>3, <2>1 DEF SocketRec, Phases
  <2>4. GoodSocket(s, executed[c])
    BY <1>2, <1>3, <2>3, GoodSocketStays
  <2>5. GoodPair(s, NewClient(c), executed[c])
    <3>1. Arrived(s) = <<>>
      BY <1>3, <2>3, ConcatEmptySeq, EmptySeq DEF Arrived
    <3>2. Arrived(s) \o Unsent(NewClient(c)) = Replies(0, executed[c])
      BY <1>2, <3>1, NewClientFacts, NoReplies, ConcatEmptySeq, EmptySeq
    <3>3. executed[c] * RequestUnits + NewClient(c).parsed + s.unread = s.sent
      BY <1>2, <2>3, NewClientFacts, SocketsAssumption DEF SocketsAssumption
    <3> QED
      BY <3>2, <3>3, NewClientFacts DEF GoodPair
  <2>6. SocketsGood'
    BY <1>5, <2>2, <2>4 DEF RepliesInv, SocketsGood
  <2>7. ASSUME NEW fd \in DOMAIN clients'
        PROVE  GoodPair(sock'[clients'[fd].conn], clients'[fd], executed'[clients'[fd].conn])
    <3>1. CASE clients'[fd] = NewClient(c)
      BY <1>5, <2>2, <2>5, <3>1, NewClientFacts
    <3>2. CASE fd \in DOMAIN clients /\ clients'[fd] = clients[fd]
      BY <1>4, <1>5, <2>2, <3>2 DEF RepliesInv, PairsGood
    <3> QED
      BY <1>7, <3>1, <3>2 DEF WithClient
  <2> QED
    BY <2>6, <2>7 DEF RepliesInv, PairsGood
<1> QED
  BY <1>1, <1>6, <1>7 DEF Accept

\* A step that changes one client together with its socket.
LEMMA OnePair ==
  ASSUME IInv, RepliesInv, NEW fd \in DOMAIN clients, NEW s, NEW cl, NEW n \in Nat,
         \A x \in Conns : sock'[x] = IF x = clients[fd].conn THEN s ELSE sock[x],
         clients' = [clients EXCEPT ![fd] = cl],
         executed' = [executed EXCEPT ![clients[fd].conn] = n],
         cl.conn = clients[fd].conn, GoodSocket(s, n), GoodPair(s, cl, n)
  PROVE  RepliesInv'
<1>1. PICK c \in Conns : c = clients[fd].conn
  BY DEF IInv, OwnersInv
<1>2. \A x \in Conns : sock'[x] = IF x = c THEN s ELSE sock[x]
  BY <1>1
<1>3. /\ executed' \in [Conns -> Nat]
      /\ \A x \in Conns : executed'[x] = IF x = c THEN n ELSE executed[x]
  BY <1>1 DEF RepliesInv, SocketsGood
<1>4. /\ DOMAIN clients' = DOMAIN clients
      /\ \A x \in DOMAIN clients : clients'[x] = IF x = fd THEN cl ELSE clients[x]
  OBVIOUS
<1>5. \A x \in DOMAIN clients : clients[x].conn \in Conns /\ (x # fd => clients[x].conn # c)
  BY <1>1 DEF IInv, OwnersInv
<1>6. SocketsGood'
  BY <1>2, <1>3 DEF RepliesInv, SocketsGood
<1>7. ASSUME NEW x \in DOMAIN clients'
      PROVE  GoodPair(sock'[clients'[x].conn], clients'[x], executed'[clients'[x].conn])
  <2>1. CASE x = fd
    BY <1>1, <1>2, <1>3, <1>4, <2>1
  <2>2. CASE x # fd
    BY <1>2, <1>3, <1>4, <1>5, <2>2 DEF RepliesInv, PairsGood
  <2> QED
    BY <2>1, <2>2
<1> QED
  BY <1>6, <1>7 DEF RepliesInv, PairsGood

LEMMA MinOfTwo ==
  ASSUME NEW a \in Nat, NEW b \in Nat
  PROVE  Min({a, b}) \in {a, b} /\ Min({a, b}) <= a /\ Min({a, b}) <= b
<1>1. \E x \in {a, b} : \A y \in {a, b} : x <= y
  OBVIOUS
<1> QED
  BY <1>1 DEF Min

\* recv hands on n units, of which the parser completes k requests.
LEMMA ReadDataKeepsReplies ==
  ASSUME IInv, RepliesInv, ReadData
  PROVE  RepliesInv'
<1>1. PICK fd \in DOMAIN clients, c \in Conns : fd = handler.fd /\ c = clients[fd].conn
  BY DEF ReadData, At, IInv, HandlerInv, InClient, OwnersInv
<1>2. PICK s0, cl0, e : s0 = sock[c] /\ cl0 = clients[fd] /\ e = executed[c]
  OBVIOUS
<1>3. /\ GoodSocket(s0, e) /\ GoodPair(s0, cl0, e) /\ e \in Nat
      /\ s0 \in SocketRec /\ GoodClient(cl0) /\ s0.phase = "accepted"
  BY <1>1, <1>2 DEF RepliesInv, SocketsGood, PairsGood, GoodSocket, GoodPair, IInv, OwnersInv
<1>4. s0.unread \in Nat /\ s0.sent \in Nat /\ cl0.parsed \in Nat
  BY <1>3 DEF SocketRec, GoodClient, ClientRec
<1>5. PICK n \in Nat : n = Min({RecvSize, s0.unread}) /\ n <= s0.unread
  BY <1>4, MinOfTwo, ServerAssumption DEF ServerAssumption
<1>6. PICK k, cl : k = Completed(cl0, n) /\ cl = Feed(cl0, n, e)
  OBVIOUS
<1>7. /\ k \in Nat /\ GoodClient(cl) /\ cl.conn = cl0.conn
      /\ k * RequestUnits + cl.parsed = cl0.parsed + n
      /\ Unsent(cl) = Unsent(cl0) \o Replies(e, e + k)
  BY <1>3, <1>6, FeedFacts
<1>8. PICK s : s = [s0 EXCEPT !.unread = s0.unread - n]
  OBVIOUS
<1>9. /\ s \in SocketRec /\ s.phase = "accepted" /\ s.rst = s0.rst /\ s.sent = s0.sent
      /\ s.received = s0.received /\ s.sendq = s0.sendq /\ s.unread = s0.unread - n
      /\ Arrived(s) = Arrived(s0)
  <2>1. PICK u \in Nat : u = s0.unread - n
    BY <1>4, <1>5
  <2>2. s = [s0 EXCEPT !.unread = u]
    BY <1>8, <2>1
  <2> QED
    BY <1>3, <2>1, <2>2 DEF SocketRec, Arrived
<1>10. /\ \A x \in Conns : sock'[x] = IF x = clients[fd].conn THEN s ELSE sock[x]
       /\ clients' = [clients EXCEPT ![fd] = cl]
       /\ executed' = [executed EXCEPT ![clients[fd].conn] = e + k]
  <2>1. MySocket = s0 /\ Me = cl0 /\ Me.conn = c
    BY <1>1, <1>2 DEF MySocket, SocketAt, Me
  <2>2. /\ sock' = [sock EXCEPT ![c].unread = @ - n]
        /\ clients' = [clients EXCEPT ![fd] = Feed(@, n, e)]
        /\ executed' = [executed EXCEPT ![c] = e + k]
    BY <1>1, <1>2, <1>5, <1>6, <2>1 DEF ReadData
  <2>3. \A x \in Conns : sock'[x] = IF x = c THEN s ELSE sock[x]
    BY <1>2, <1>8, <2>2 DEF IInv, SocketsInv
  <2>4. clients' = [clients EXCEPT ![fd] = cl]
    BY <1>2, <1>6, <2>2
  <2> QED
    BY <1>1, <2>2, <2>3, <2>4
<1>11. /\ Replies(e, e + k) \in Seq(ReplyUnit) /\ e + k \in Nat
       /\ Replies(0, e) \o Replies(e, e + k) = Replies(0, e + k)
       /\ Arrived(s0) \in Seq(ReplyUnit) /\ Unsent(cl0) \in Seq(ReplyUnit)
  <2>1. e + k \in Nat /\ e <= e + k
    BY <1>3, <1>7
  <2> QED
    BY <1>3, <1>7, <2>1, RepliesType, RepliesExtend, ArrivedType, UnsentFacts
<1>12. GoodSocket(s, e + k)
  <2>1. PICK rest \in Seq(ReplyUnit) : Arrived(s0) \o rest = Replies(0, e)
    BY <1>3 DEF GoodSocket
  <2>2. /\ rest \o Replies(e, e + k) \in Seq(ReplyUnit)
        /\ Arrived(s) \o (rest \o Replies(e, e + k)) = Replies(0, e + k)
    <3>1. rest \o Replies(e, e + k) \in Seq(ReplyUnit)
      BY <1>11, <2>1, ConcatProperties
    <3>2. PICK a, r : a = Arrived(s0) /\ r = Replies(e, e + k)
      OBVIOUS
    <3>3. a \in Seq(ReplyUnit) /\ r \in Seq(ReplyUnit)
      BY <1>11, <3>2
    <3>4. (a \o rest) \o r = a \o (rest \o r)
      BY <2>1, <3>3, ConcatAssociative
    <3> QED
      BY <1>9, <1>11, <2>1, <3>1, <3>2, <3>4
  <2>3. s.rst => s.sendq = <<>>
    BY <1>3, <1>9 DEF GoodSocket
  <2> QED
    BY <1>9, <2>2, <2>3 DEF GoodSocket
<1>13. GoodPair(s, cl, e + k)
  <2>1. PICK m \in Nat, l \in Nat : m = e * RequestUnits /\ l = k * RequestUnits
    BY <1>3, <1>7, SocketsAssumption DEF SocketsAssumption
  <2>2. (e + k) * RequestUnits = m + l
    BY <1>3, <1>7, <2>1, SocketsAssumption DEF SocketsAssumption
  <2>3. cl.parsed \in Nat
    BY <1>7 DEF GoodClient, ClientRec
  <2>4. m + cl0.parsed + s0.unread = s0.sent
    BY <1>3, <2>1 DEF GoodPair
  <2>7. l + cl.parsed = cl0.parsed + n
    BY <1>7, <2>1
  <2>8. (m + l) + cl.parsed + (s0.unread - n) = s0.sent
    BY <1>4, <1>5, <2>1, <2>3, <2>4, <2>7
  <2>5. (e + k) * RequestUnits + cl.parsed + s.unread = s.sent
    BY <1>9, <2>2, <2>8
  <2>6. ASSUME ~s.rst
        PROVE  Arrived(s) \o Unsent(cl) = Replies(0, e + k)
    <3>1. Arrived(s0) \o Unsent(cl0) = Replies(0, e)
      BY <1>3, <1>9, <2>6 DEF GoodPair
    <3>2. Arrived(s0) \o (Unsent(cl0) \o Replies(e, e + k))
            = (Arrived(s0) \o Unsent(cl0)) \o Replies(e, e + k)
      BY <1>11, ConcatAssociative
    <3> QED
      BY <1>7, <1>9, <1>11, <3>1, <3>2
  <2> QED
    BY <1>7, <2>5, <2>6 DEF GoodPair
<1> QED
  BY <1>1, <1>2, <1>7, <1>10, <1>11, <1>12, <1>13, OnePair

LEMMA Regroup ==
  \A a, b, d, f \in Seq(ReplyUnit) : (a \o b) \o (d \o f) = (a \o (b \o d)) \o f
<1> SUFFICES ASSUME NEW a \in Seq(ReplyUnit), NEW b \in Seq(ReplyUnit),
                    NEW d \in Seq(ReplyUnit), NEW f \in Seq(ReplyUnit)
             PROVE  (a \o b) \o (d \o f) = (a \o (b \o d)) \o f
  OBVIOUS
<1>1. a \o b \in Seq(ReplyUnit)
  BY ConcatProperties
<1>2. ((a \o b) \o d) \o f = (a \o b) \o (d \o f)
  BY <1>1, ConcatAssociative
<1>3. (a \o b) \o d = a \o (b \o d)
  BY ConcatAssociative
<1> QED
  BY <1>2, <1>3

\* send takes n units.
LEMMA SendDataKeepsReplies ==
  ASSUME IInv, RepliesInv, SendData
  PROVE  RepliesInv'
<1>1. PICK fd \in DOMAIN clients, c \in Conns : fd = handler.fd /\ c = clients[fd].conn
  BY DEF SendData, At, IInv, HandlerInv, InClient, OwnersInv
<1>2. PICK s0, cl0, e : s0 = sock[c] /\ cl0 = clients[fd] /\ e = executed[c]
  OBVIOUS
<1>3. /\ GoodSocket(s0, e) /\ GoodPair(s0, cl0, e) /\ e \in Nat
      /\ s0 \in SocketRec /\ GoodClient(cl0) /\ s0.phase = "accepted"
  BY <1>1, <1>2 DEF RepliesInv, SocketsGood, PairsGood, GoodSocket, GoodPair, IInv, OwnersInv
<1>4. MySocket = s0 /\ Me = cl0 /\ Me.conn = c
  BY <1>1, <1>2 DEF MySocket, SocketAt, Me
<1>5. /\ s0.received \in Seq(ReplyUnit) /\ s0.sendq \in Seq(ReplyUnit)
      /\ Len(s0.sendq) \in Nat
      /\ Unsent(cl0) \in Seq(ReplyUnit) /\ Len(Unsent(cl0)) \in Nat
  BY <1>3, ArrivedType, UnsentFacts, LenProperties
<1>6. Unsent(cl0) # <<>> /\ ~s0.rst /\ Room \in Nat /\ Room > 0
  BY <1>4, <1>5, SocketsAssumption DEF SendData, Room, SocketsAssumption
<1>7. PICK n : n \in 1..Len(Unsent(cl0)) /\ n = Min({Room, Len(Unsent(cl0))})
  <2>1. Len(Unsent(cl0)) > 0
    BY <1>5, <1>6, EmptySeq
  <2> QED
    BY <1>5, <1>6, <2>1, MinOfTwo
<1>8. PICK part, cl : part = SubSeq(Unsent(cl0), 1, n) /\ cl = Sent(cl0, n)
  OBVIOUS
<1>9. /\ GoodClient(cl) /\ cl.conn = cl0.conn /\ cl.parsed = cl0.parsed
      /\ part \in Seq(ReplyUnit) /\ Unsent(cl) \in Seq(ReplyUnit)
      /\ Unsent(cl0) = part \o Unsent(cl)
  BY <1>3, <1>7, <1>8, SentFacts, UnsentFacts
<1>10. PICK s : s = [s0 EXCEPT !.sendq = s0.sendq \o part]
  OBVIOUS
<1>11. /\ s \in SocketRec /\ s.phase = "accepted" /\ s.rst = s0.rst /\ s.sent = s0.sent
       /\ s.received = s0.received /\ s.sendq = s0.sendq \o part /\ s.unread = s0.unread
  <2>1. s0.sendq \o part \in Seq(ReplyUnit)
    BY <1>5, <1>9, ConcatProperties
  <2> QED
    BY <1>3, <1>10, <2>1 DEF SocketRec
<1>12. /\ \A x \in Conns : sock'[x] = IF x = clients[fd].conn THEN s ELSE sock[x]
       /\ clients' = [clients EXCEPT ![fd] = cl]
       /\ executed' = [executed EXCEPT ![clients[fd].conn] = e]
  <2>1. /\ sock' = [sock EXCEPT ![c].sendq = @ \o part]
        /\ clients' = [clients EXCEPT ![fd] = Sent(@, n)]
    BY <1>1, <1>4, <1>7, <1>8 DEF SendData
  <2>2. \A y \in Conns : sock'[y] = IF y = c THEN s ELSE sock[y]
    BY <1>2, <1>10, <2>1 DEF IInv, SocketsInv
  <2>3. clients' = [clients EXCEPT ![fd] = cl]
    BY <1>2, <1>8, <2>1
  <2>4. executed' = [executed EXCEPT ![c] = e]
    BY <1>2 DEF SendData, RepliesInv, SocketsGood
  <2> QED
    BY <1>1, <2>2, <2>3, <2>4
<1>13. Arrived(s) \o Unsent(cl) = Replies(0, e)
  <2>1. (s0.received \o s0.sendq) \o (part \o Unsent(cl)) = Replies(0, e)
    BY <1>3, <1>6, <1>9 DEF GoodPair, Arrived
  <2>2. (s0.received \o (s0.sendq \o part)) \o Unsent(cl) = Replies(0, e)
    <3>1. PICK r, q, z : r = s0.received /\ q = s0.sendq /\ z = Unsent(cl)
      OBVIOUS
    <3>2. r \in Seq(ReplyUnit) /\ q \in Seq(ReplyUnit) /\ z \in Seq(ReplyUnit)
      BY <1>5, <1>9, <3>1
    <3>3. \A b, d, f \in Seq(ReplyUnit) : (r \o b) \o (d \o f) = (r \o (b \o d)) \o f
      BY <3>2, Regroup
    <3>4. \A d, f \in Seq(ReplyUnit) : (r \o q) \o (d \o f) = (r \o (q \o d)) \o f
      BY <3>2, <3>3
    <3>5. \A f \in Seq(ReplyUnit) : (r \o q) \o (part \o f) = (r \o (q \o part)) \o f
      BY <1>9, <3>4
    <3>6. (r \o q) \o (part \o z) = (r \o (q \o part)) \o z
      BY <3>2, <3>5
    <3> QED
      BY <2>1, <3>1, <3>6
  <2> QED
    BY <1>11, <2>2 DEF Arrived
<1>14. GoodSocket(s, e)
  BY <1>6, <1>9, <1>11, <1>13 DEF GoodSocket
<1>15. GoodPair(s, cl, e)
  BY <1>3, <1>9, <1>11, <1>13 DEF GoodPair
<1> QED
  BY <1>1, <1>2, <1>3, <1>9, <1>12, <1>14, <1>15, OnePair

\* The client is registered for other events; when everything is sent it is flushed.
LEMMA SendEndsKeepsReplies ==
  ASSUME IInv, RepliesInv, SendEnds
  PROVE  RepliesInv'
<1>1. PICK fd \in DOMAIN clients, c \in Conns : fd = handler.fd /\ c = clients[fd].conn
  BY DEF SendEnds, At, IInv, HandlerInv, InClient, OwnersInv
<1>2. CASE CloseClient(fd) /\ UNCHANGED executed
  BY <1>2, CloseKeepsReplies
<1>3. CASE clients' = [clients EXCEPT ![fd] = Flushed(clients[fd])] /\ UNCHANGED <<sock, executed>>
  <2>1. PICK cl0, s, e : cl0 = clients[fd] /\ s = sock[c] /\ e = executed[c]
    OBVIOUS
  <2>2. GoodSocket(s, e) /\ GoodPair(s, cl0, e) /\ e \in Nat /\ GoodClient(cl0)
    BY <1>1, <2>1 DEF RepliesInv, SocketsGood, PairsGood, GoodPair
  <2>3. Unsent(cl0) = <<>>
    BY <1>1, <2>1 DEF SendEnds, Me
  <2>4. GoodPair(s, Flushed(cl0), e)
    BY <2>2, <2>3, FlushedFacts DEF GoodPair
  <2>5. /\ \A x \in Conns : sock'[x] = IF x = clients[fd].conn THEN s ELSE sock[x]
        /\ clients' = [clients EXCEPT ![fd] = Flushed(cl0)]
        /\ executed' = [executed EXCEPT ![clients[fd].conn] = e]
    BY <1>1, <1>3, <2>1 DEF RepliesInv, SocketsGood, IInv, SocketsInv
  <2> QED
    BY <2>1, <2>2, <2>4, <2>5, FlushedFacts, OnePair
<1> QED
  BY <1>1, <1>2, <1>3 DEF SendEnds, Modify, Me, worldVars

\* Every other step of the server leaves sockets and clients alone, or closes a client.
LEMMA OtherStepsKeepReplies ==
  ASSUME IInv, RepliesInv,
         \/ RunOnce \/ SkipEvent \/ OnListen \/ OnClient \/ AcceptEnds
         \/ ReadFails \/ ReadEnds \/ ReadEndsWithReplies \/ SendBlocks \/ SendFails
         \/ OnHangup \/ Killed \/ UNCHANGED vars
  PROVE  RepliesInv'
<1> USE DEF worldVars, serverVars, loopVars, vars
<1>1. CASE RunOnce \/ SkipEvent \/ OnListen \/ OnClient \/ AcceptEnds \/ ReadEnds \/ SendBlocks
            \/ Killed \/ UNCHANGED vars
  <2>1. UNCHANGED <<sock, executed, clients>>
    BY <1>1 DEF RunOnce, SkipEvent, OnListen, OnClient, AcceptEnds, ReadEnds, SendBlocks, Killed
  <2> QED
    BY <2>1, ClientsKept
<1>2. CASE OnHangup
  <2>1. Turn.fd \in DOMAIN clients
    BY <1>2, ServicesAreNoClients DEF OnHangup, Calls, IInv, TablesInv
  <2> QED
    BY <1>2, <2>1, CloseKeepsReplies DEF OnHangup
<1>3. CASE ReadFails \/ SendFails
  <2>1. handler.fd \in DOMAIN clients
    BY <1>3 DEF ReadFails, SendFails, At, IInv, HandlerInv, InClient
  <2> QED
    BY <1>3, <2>1, CloseKeepsReplies DEF ReadFails, SendFails
<1>4. CASE ReadEndsWithReplies
  <2>1. handler.fd \in DOMAIN clients
    BY <1>4 DEF ReadEndsWithReplies, At, IInv, HandlerInv, InClient
  <2>2. CASE CloseClient(handler.fd) /\ UNCHANGED executed
    BY <2>1, <2>2, CloseKeepsReplies
  <2>3. CASE clients' = [clients EXCEPT ![handler.fd] = Me] /\ UNCHANGED <<sock, executed>>
    <3>1. \A fd \in DOMAIN clients' : fd \in DOMAIN clients /\ clients'[fd] = clients[fd]
      BY <2>3 DEF Me
    <3> QED
      BY <2>3, <3>1, ClientsKept
  <2> QED
    BY <1>4, <2>2, <2>3 DEF ReadEndsWithReplies, Modify
<1> QED
  BY <1>1, <1>2, <1>3, <1>4

LEMMA RepliesInit == Init => RepliesInv
<1> SUFFICES ASSUME Init PROVE RepliesInv
  OBVIOUS
<1>1. SocketsGood
  BY GoodNewSocket DEF Init, SocketsGood
<1>2. PairsGood
  BY DEF Init, PairsGood
<1> QED
  BY <1>1, <1>2 DEF RepliesInv

LEMMA RepliesStep == IInv /\ RepliesInv /\ [Next]_vars => RepliesInv'
<1> SUFFICES ASSUME IInv, RepliesInv, [Next]_vars PROVE RepliesInv'
  OBVIOUS
<1>1. CASE StartOrReturn
  BY <1>1, StartKeepsReplies
<1>2. CASE OnSignal
  BY <1>2, ShutdownKeepsReplies DEF OnSignal
<1>3. CASE Accept
  BY <1>3, AcceptKeepsReplies
<1>4. CASE ReadData
  BY <1>4, ReadDataKeepsReplies
<1>5. CASE SendData
  BY <1>5, SendDataKeepsReplies
<1>6. CASE SendEnds
  BY <1>6, SendEndsKeepsReplies
<1>7. CASE WorldStep
  BY <1>7, WorldKeepsReplies
<1>8. CASE \/ RunOnce \/ SkipEvent \/ OnListen \/ OnClient \/ AcceptEnds
           \/ ReadFails \/ ReadEnds \/ ReadEndsWithReplies \/ SendBlocks \/ SendFails
           \/ OnHangup \/ Killed \/ UNCHANGED vars
  BY <1>8, OtherStepsKeepReplies
<1> QED
  BY <1>1, <1>2, <1>3, <1>4, <1>5, <1>6, <1>7, <1>8 DEF Next, ServerStep

LEMMA RepliesAlways == Spec => []RepliesInv
BY InvAlways, RepliesInit, RepliesStep, PTL DEF Spec

LEMMA PrefixOfConcat ==
  ASSUME NEW a \in Seq(ReplyUnit), NEW b \in Seq(ReplyUnit)
  PROVE  IsPrefix(a, a \o b)
<1>1. PICK t : t = a \o b
  OBVIOUS
<1>2. /\ t \in Seq(ReplyUnit) /\ Len(a) \in Nat /\ Len(b) \in Nat
      /\ Len(t) = Len(a) + Len(b)
      /\ \A i \in 1..Len(a) : t[i] = a[i]
  BY <1>1, ConcatProperties, LenProperties
<1>3. Len(a) <= Len(t)
  BY <1>2
<1>4. SubSeq(a, 1, Len(a)) = SubSeq(t, 1, Len(a))
  BY <1>2, <1>3
<1> QED
  BY <1>1, <1>3, <1>4 DEF IsPrefix

\* Client::on_readable, the parser and enqueue_response keep count whatever pieces requests
\* arrive in and replies leave in: every request received is executed once, and what the
\* peer has received, the send buffer and write_buf_ hold is one reply to each, in order.
THEOREM RepliesOnceInOrder == Spec => []ExactlyOnceInOrder
<1>1. IInv /\ RepliesInv => ExactlyOnceInOrder
  <2> SUFFICES ASSUME IInv, RepliesInv PROVE ExactlyOnceInOrder
    OBVIOUS
  <2>1. ASSUME NEW fd \in DOMAIN clients, NEW c, c = clients[fd].conn
        PROVE  /\ RequestsExact(clients[fd])
               /\ ~sock[c].rst =>
                    sock[c].received \o sock[c].sendq \o Unsent(clients[fd]) = Replies(0, executed[c])
    BY <2>1 DEF RepliesInv, PairsGood, GoodPair, RequestsExact, Arrived
  <2>2. ASSUME NEW c \in Conns
        PROVE  IsPrefix(sock[c].received, Replies(0, executed[c]))
    <3>1. GoodSocket(sock[c], executed[c])
      BY DEF RepliesInv, SocketsGood
    <3>2. PICK rest \in Seq(ReplyUnit) : Arrived(sock[c]) \o rest = Replies(0, executed[c])
      BY <3>1 DEF GoodSocket
    <3>3. PICK r, q : r = sock[c].received /\ q = sock[c].sendq
      OBVIOUS
    <3>4. r \in Seq(ReplyUnit) /\ q \in Seq(ReplyUnit)
      BY <3>1, <3>3, ArrivedType DEF GoodSocket
    <3>5. (r \o q) \o rest = Replies(0, executed[c])
      BY <3>2, <3>3 DEF Arrived
    <3>6. q \o rest \in Seq(ReplyUnit)
      BY <3>2, <3>4, ConcatProperties
    <3>7. (r \o q) \o rest = r \o (q \o rest)
      BY <3>2, <3>4, ConcatAssociative
    <3>8. IsPrefix(r, r \o (q \o rest))
      BY <3>4, <3>6, PrefixOfConcat
    <3> QED
      BY <3>3, <3>5, <3>7, <3>8
  <2> QED
    BY <2>1, <2>2 DEF ExactlyOnceInOrder
<1> QED
  BY <1>1, InvAlways, RepliesAlways, PTL

-----------------------------------------------------------------------------
(* What epoll watches a client for, in the middle of its callback too.     *)

StageAt(fd) == IF handler.fd = fd THEN handler.stage ELSE "idle"

\* Reading, replies are queued before writing is asked for; writing, they are sent before
\* it is given up; at any other time the two agree.
Right(stage, events, cl) ==
  /\ "IN" \in events
  /\ stage = "read" => /\ cl.state = "Writing" => Unsent(cl) # <<>>
                       /\ cl.state = "Reading" => "OUT" \notin events
  /\ stage = "write" => (Unsent(cl) # <<>> => "OUT" \in events)
  /\ stage \notin {"read", "write"} => /\ "OUT" \in events <=> Unsent(cl) # <<>>
                                       /\ cl.state = "Writing" => Unsent(cl) # <<>>

InterestInv == \A fd \in DOMAIN clients : Right(StageAt(fd), interest[fd], clients[fd])

\* Steps outside the callbacks of clients.
LEMMA InterestKept ==
  ASSUME InterestInv, UNCHANGED handler,
         \A fd \in DOMAIN clients' : /\ fd \in DOMAIN clients /\ clients'[fd] = clients[fd]
                                     /\ interest'[fd] = interest[fd]
  PROVE  InterestInv'
BY DEF InterestInv, StageAt

\* Steps of the callback of one client: they touch no other.
LEMMA InterestOfOthers ==
  ASSUME InterestInv, NEW fd, InClient, handler.fd = fd, handler' = Idle \/ handler'.fd = fd,
         \A x \in DOMAIN clients' : x # fd => /\ x \in DOMAIN clients /\ clients'[x] = clients[x]
                                              /\ interest'[x] = interest[x],
         fd \in DOMAIN clients' => Right(StageAt(fd)', interest'[fd], clients'[fd])
  PROVE  InterestInv'
<1> SUFFICES ASSUME NEW x \in DOMAIN clients', x # fd
             PROVE  Right(StageAt(x)', interest'[x], clients'[x])
  BY DEF InterestInv
<1>1. StageAt(x) = "idle" /\ StageAt(x)' = "idle"
  BY DEF StageAt, Idle
<1> QED
  BY <1>1 DEF InterestInv

\* Closing a client takes its descriptor out of the tables and leaves the others in.
LEMMA CloseInterest ==
  ASSUME IInv, NEW fd \in DOMAIN clients, CloseClient(fd)
  PROVE  /\ fd \notin DOMAIN clients'
         /\ \A x \in DOMAIN clients' : /\ x \in DOMAIN clients /\ clients'[x] = clients[x]
                                       /\ interest'[x] = interest[x]
<1>1. \A x \in DOMAIN clients' : x \in DOMAIN clients /\ x # fd /\ clients'[x] = clients[x]
  BY DEF CloseClient, CloseClientOf, Without, Restrict
<1>2. DOMAIN clients \subseteq DOMAIN interest
  BY DEF IInv, TablesInv
<1>3. \A x \in DOMAIN interest \ {fd} : interest'[x] = interest[x]
  BY DEF CloseClient, CloseClientOf, Unregister, Restrict
<1> QED
  BY <1>1, <1>2, <1>3

LEMMA RegisterInterest ==
  ASSUME IInv, NEW fd, NEW events, Register(fd, events)
  PROVE  interest'[fd] = events /\ \A x \in DOMAIN clients : x # fd => interest'[x] = interest[x]
BY DEF Register, IInv, TablesInv

LEMMA IdleStepsKeepInterest ==
  ASSUME IInv, RepliesInv, InterestInv,
         \/ StartOrReturn \/ RunOnce \/ SkipEvent \/ OnListen \/ OnHangup \/ OnSignal
         \/ Accept \/ AcceptEnds \/ WorldStep \/ Killed \/ UNCHANGED vars
  PROVE  InterestInv'
<1> USE DEF worldVars, serverVars, loopVars, vars
<1>1. CASE RunOnce \/ SkipEvent \/ WorldStep \/ Killed \/ UNCHANGED vars
  <2>1. UNCHANGED <<handler, clients, interest>>
    BY <1>1 DEF RunOnce, WaitForEvents, SkipEvent, WorldStep, Killed
  <2> QED
    BY <2>1, InterestKept
<1>2. CASE StartOrReturn
  <2>1. UNCHANGED <<handler, clients>>
    BY <1>2 DEF StartOrReturn, BlockSignals, OpenSignalFd, OpenSocket, Bind, Listen, AddSignal,
                AddListen, StartStep, AddService, GiveUp, Return
  <2>2. interest' = interest \/ life \in Starting
    BY <1>2 DEF StartOrReturn, BlockSignals, OpenSignalFd, OpenSocket, Bind, Listen, AddSignal,
                AddListen, StartStep, AddService, Return, Starting
  <2>3. life \in Starting => DOMAIN clients = {}
    BY DEF IInv, LifeInv, StopInv, Starting
  <2> QED
    BY <2>1, <2>2, <2>3, InterestKept DEF InterestInv
<1>3. CASE OnListen \/ AcceptEnds
  <2>1. UNCHANGED <<clients, interest>>
    BY <1>3 DEF OnListen, AcceptEnds
  <2>2. \A fd : StageAt(fd) \notin {"read", "write"} /\ StageAt(fd)' \notin {"read", "write"}
    BY <1>3 DEF OnListen, AcceptEnds, Calls, StageAt, Idle, Running
  <2> QED
    BY <2>1, <2>2 DEF InterestInv, Right
<1>4. CASE OnHangup
  <2>1. Turn.fd \in DOMAIN clients
    BY <1>4, ServicesAreNoClients DEF OnHangup, Calls, IInv, TablesInv
  <2> QED
    BY <1>4, <2>1, CloseInterest, InterestKept DEF OnHangup
<1>5. CASE OnSignal
  <2>1. DOMAIN clients' = {}
    BY <1>5, ShutdownTables DEF OnSignal
  <2> QED
    BY <2>1 DEF InterestInv
<1>6. CASE Accept
  <2>1. handler' = handler /\ handler.stage = "accept"
    BY <1>6 DEF Accept
  <2>2. ASSUME NEW fd \in ClientFds, fd \notin DOMAIN clients, NEW c \in Conns, AddFails(fd, c)
        PROVE  InterestInv'
    <3>1. /\ DOMAIN clients' = DOMAIN clients
          /\ \A x \in DOMAIN clients : clients'[x] = clients[x]
          /\ \A x \in DOMAIN interest : interest'[x] = interest[x]
      BY <2>2, AddFailsUndone
    <3>2. DOMAIN clients \subseteq DOMAIN interest
      BY DEF IInv, TablesInv
    <3>3. \A x : StageAt(x)' = StageAt(x)
      BY <2>1 DEF StageAt
    <3> QED
      BY <3>1, <3>2, <3>3 DEF InterestInv
  <2>3. ASSUME NEW fd, NEW c, fd \notin DOMAIN clients, c \in Conns, Register(fd, {"IN"}),
               clients' = WithClient(fd, c)
        PROVE  InterestInv'
    <3>1. Right(StageAt(fd), {"IN"}, NewClient(c))
      BY <2>1, <2>3, NewClientFacts DEF Right, StageAt
    <3>2. \A x \in DOMAIN clients' : StageAt(x)' = StageAt(x)
      BY <2>1 DEF StageAt
    <3>3. interest'[fd] = {"IN"} /\ \A x \in DOMAIN clients : x # fd => interest'[x] = interest[x]
      BY <2>3, RegisterInterest
    <3> QED
      BY <2>3, <3>1, <3>2, <3>3 DEF WithClient, InterestInv
  <2>4. Head(backlog) \in Conns
    BY <1>6 DEF Accept, IInv, BacklogInv
  <2>5. Min(FreeFds) \in ClientFds /\ Min(FreeFds) \notin DOMAIN clients
    BY <1>6, FreshFd
  <2> QED
    BY <1>6, <2>2, <2>3, <2>4, <2>5 DEF Accept
<1> QED
  BY <1>1, <1>2, <1>3, <1>4, <1>5, <1>6

LEMMA ClientStepsKeepInterest ==
  ASSUME IInv, RepliesInv, InterestInv,
         \/ OnClient \/ ReadData \/ ReadFails \/ ReadEnds \/ ReadEndsWithReplies
         \/ SendData \/ SendBlocks \/ SendFails \/ SendEnds
  PROVE  InterestInv'
<1> USE DEF worldVars, serverVars, loopVars
<1>1. CASE OnClient
  <2>1. UNCHANGED <<clients, interest>> /\ handler = Idle
    BY <1>1 DEF OnClient, Calls
  <2>2. \A fd : StageAt(fd) = "idle"
    BY <2>1 DEF StageAt, Idle
  <2>3. \A fd : StageAt(fd)' \in {"read", "write", "idle"}
    BY <1>1 DEF OnClient, StageAt, Running
  <2>4. \A fd \in DOMAIN clients : clients[fd].state = "Reading" => Unsent(clients[fd]) = <<>>
    BY UnsentFacts DEF RepliesInv, PairsGood, GoodPair
  <2> QED
    BY <2>1, <2>2, <2>3, <2>4 DEF InterestInv, Right
<1>2. CASE ~OnClient
  <2>1. PICK fd \in DOMAIN clients : fd = handler.fd /\ InClient
    BY <1>2 DEF ReadData, ReadFails, ReadEnds, ReadEndsWithReplies, SendData, SendBlocks, SendFails,
                SendEnds, At, IInv, HandlerInv, InClient
  <2>2. PICK cl, ev : cl = clients[fd] /\ ev = interest[fd]
    OBVIOUS
  <2>3. Right(handler.stage, ev, cl) /\ GoodClient(cl) /\ Me = cl
    BY <2>1, <2>2 DEF InterestInv, StageAt, RepliesInv, PairsGood, GoodPair, Me
  <2>4. cl.state \in {"Reading", "Writing"} /\ (cl.state = "Reading" => Unsent(cl) = <<>>)
    BY <2>3, UnsentFacts DEF GoodClient, ClientRec
  <2>5. handler' = Idle => StageAt(fd)' = "idle"
    BY DEF StageAt, Idle
  <2>6. handler' = handler => StageAt(fd)' = handler.stage
    BY <2>1 DEF StageAt
  <2>7. \A stage : GoTo(stage) => /\ handler' = Idle \/ handler'.fd = fd
                                  /\ stage \in {"idle", "write"} => StageAt(fd)' = stage
    <3>1. ASSUME NEW stage, GoTo(stage)
          PROVE  /\ handler' = Idle \/ handler'.fd = fd
                 /\ stage \in {"idle", "write"} => StageAt(fd)' = stage
      BY <2>1, <2>5, <3>1 DEF GoTo, StageAt, IInv, HandlerInv, Running
    <3> QED
      BY <3>1
  <2>8. CASE CloseClient(fd) /\ handler' = Idle
    BY <2>1, <2>8, CloseInterest, InterestOfOthers
  <2>9. CASE ReadData
    <3>1. PICK n \in Nat, e \in Nat : clients' = [clients EXCEPT ![fd] = Feed(cl, n, e)]
      <4>1. PICK c \in Conns : c = cl.conn
        BY <2>2 DEF IInv, OwnersInv
      <4>2. executed[c] \in Nat /\ GoodSocket(sock[c], executed[c])
        BY DEF RepliesInv, SocketsGood
      <4>3. MySocket = sock[c]
        BY <2>1, <2>2, <4>1 DEF MySocket, SocketAt
      <4>4. sock[c].unread \in Nat
        BY <4>2 DEF GoodSocket, SocketRec
      <4>5. Min({RecvSize, sock[c].unread}) \in Nat
        BY <4>4, MinOfTwo, ServerAssumption DEF ServerAssumption
      <4>6. clients' = [clients EXCEPT ![fd] = Feed(cl, Min({RecvSize, sock[c].unread}), executed[c])]
        BY <2>1, <2>2, <2>3, <2>9, <4>1, <4>3 DEF ReadData
      <4> QED
        BY <4>2, <4>5, <4>6
    <3>2. PICK fed : fed = Feed(cl, n, e)
      OBVIOUS
    <3>3. \/ fed.state = "Writing" /\ Unsent(fed) # <<>>
          \/ fed.state = cl.state /\ Unsent(fed) = Unsent(cl)
      <4>1. PICK k : k = Completed(cl, n)
        OBVIOUS
      <4>2. /\ fed.state = IF k = 0 THEN cl.state ELSE "Writing"
            /\ k = 0 => Unsent(fed) = Unsent(cl)
            /\ k # 0 => Unsent(fed) # <<>>
        BY <2>3, <3>2, <4>1, FeedFacts
      <4> QED
        BY <4>2
    <3>4. handler' = handler /\ handler.stage = "read" /\ interest' = interest
      BY <2>9 DEF ReadData, At
    <3>5. Right("read", ev, fed)
      BY <2>3, <3>3, <3>4 DEF Right
    <3> QED
      BY <2>1, <2>2, <2>6, <3>1, <3>2, <3>4, <3>5, InterestOfOthers
  <2>10. CASE ReadFails
    BY <2>1, <2>8, <2>10 DEF ReadFails
  <2>11. CASE ReadEnds
    <3>1. /\ UNCHANGED <<clients, interest>> /\ cl.state = "Reading" /\ handler.stage = "read"
          /\ GoTo(AfterReading) /\ AfterReading \in {"idle", "write"}
      BY <2>3, <2>11 DEF ReadEnds, At, AfterReading
    <3>2. Right("idle", ev, cl) /\ Right("write", ev, cl)
      BY <2>3, <2>4, <3>1 DEF Right
    <3> QED
      BY <2>1, <2>2, <2>7, <3>1, <3>2, InterestOfOthers
  <2>12. CASE ReadEndsWithReplies
    <3>1. CASE /\ Register(fd, WriteEvents) /\ clients' = [clients EXCEPT ![fd] = cl]
               /\ GoTo(AfterReading)
      <4>1. Unsent(cl) # <<>> /\ AfterReading \in {"idle", "write"}
        BY <2>3, <2>12 DEF ReadEndsWithReplies, At, Right, AfterReading
      <4>2. Right("idle", WriteEvents, cl) /\ Right("write", WriteEvents, cl)
        BY <4>1 DEF Right, WriteEvents
      <4>3. interest'[fd] = WriteEvents /\ \A x \in DOMAIN clients : x # fd => interest'[x] = interest[x]
        BY <3>1, RegisterInterest
      <4> QED
        BY <2>1, <2>7, <3>1, <4>1, <4>2, <4>3, InterestOfOthers
    <3>2. CASE CloseClient(fd) /\ GoTo("idle")
      BY <2>8, <3>2 DEF GoTo
    <3> QED
      BY <2>1, <2>3, <2>12, <3>1, <3>2 DEF ReadEndsWithReplies, Modify
  <2>13. CASE SendData
    <3>1. /\ handler' = handler /\ handler.stage = "write" /\ interest' = interest
          /\ Unsent(cl) # <<>>
      BY <2>3, <2>13 DEF SendData, At
    <3>2. \E new : clients' = [clients EXCEPT ![fd] = new]
      BY <2>1, <2>13 DEF SendData
    <3>3. "OUT" \in ev /\ "IN" \in ev
      BY <2>3, <3>1 DEF Right
    <3>4. \A new : Right("write", ev, new)
      BY <3>3 DEF Right
    <3> QED
      BY <2>1, <2>2, <2>6, <3>1, <3>2, <3>4, InterestOfOthers
  <2>14. CASE SendBlocks
    <3>1. /\ UNCHANGED <<clients, interest>> /\ Unsent(cl) # <<>> /\ handler.stage = "write"
          /\ GoTo("idle")
      BY <2>3, <2>14 DEF SendBlocks, At
    <3>2. Right("idle", ev, cl)
      BY <2>3, <3>1 DEF Right
    <3> QED
      BY <2>1, <2>2, <2>7, <3>1, <3>2, InterestOfOthers
  <2>15. CASE SendFails
    BY <2>1, <2>8, <2>15 DEF SendFails, GoTo
  <2>16. CASE SendEnds
    <3>1. CASE /\ Register(fd, ReadEvents) /\ clients' = [clients EXCEPT ![fd] = Flushed(cl)]
               /\ GoTo("idle")
      <4>1. Right("idle", ReadEvents, Flushed(cl))
        BY <2>3, FlushedFacts DEF Right, ReadEvents
      <4>2. interest'[fd] = ReadEvents /\ \A x \in DOMAIN clients : x # fd => interest'[x] = interest[x]
        BY <3>1, RegisterInterest
      <4> QED
        BY <2>1, <2>7, <3>1, <4>1, <4>2, InterestOfOthers
    <3>2. CASE CloseClient(fd) /\ GoTo("idle")
      BY <2>8, <3>2 DEF GoTo
    <3> QED
      BY <2>1, <2>3, <2>16, <3>1, <3>2 DEF SendEnds, Modify
  <2> QED
    BY <1>2, <2>9, <2>10, <2>11, <2>12, <2>13, <2>14, <2>15, <2>16
<1> QED
  BY <1>1, <1>2

LEMMA InterestStep == IInv /\ RepliesInv /\ InterestInv /\ [Next]_vars => InterestInv'
<1> SUFFICES ASSUME IInv, RepliesInv, InterestInv, [Next]_vars PROVE InterestInv'
  OBVIOUS
<1>1. CASE \/ StartOrReturn \/ RunOnce \/ SkipEvent \/ OnListen \/ OnHangup \/ OnSignal
           \/ Accept \/ AcceptEnds \/ WorldStep \/ Killed \/ UNCHANGED vars
  BY <1>1, IdleStepsKeepInterest
<1>2. CASE \/ OnClient \/ ReadData \/ ReadFails \/ ReadEnds \/ ReadEndsWithReplies
           \/ SendData \/ SendBlocks \/ SendFails \/ SendEnds
  BY <1>2, ClientStepsKeepInterest
<1> QED
  BY <1>1, <1>2 DEF Next, ServerStep

\* on_client_readable asks for EPOLLOUT and on_client_writable gives it up, both only at
\* their end: whenever no callback runs for a client, the kernel watches its descriptor for
\* writing exactly when a reply waits, so no reply is stuck and no wakeup is idle.
THEOREM InterestAlwaysFits == Spec => []InterestFits
<1>1. Init => InterestInv
  BY DEF Init, InterestInv
<1>2. InterestInv => InterestFits
  <2> SUFFICES ASSUME InterestInv, NEW fd \in DOMAIN clients, handler.fd # fd
               PROVE  /\ "IN" \in interest[fd]
                      /\ "OUT" \in interest[fd] <=> Unsent(clients[fd]) # <<>>
    BY DEF InterestFits
  <2>1. Right("idle", interest[fd], clients[fd])
    BY DEF InterestInv, StageAt
  <2> QED
    BY <2>1 DEF Right
<1> QED
  BY <1>1, <1>2, InvAlways, RepliesAlways, InterestStep, PTL DEF Spec

=============================================================================
