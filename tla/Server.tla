------------------------------- MODULE Server --------------------------------
(***************************************************************************)
(* redix::Server: one thread that waits for events, accepts connections,   *)
(* reads and answers requests and stops on a signal, from the first step   *)
(* of start to the end of the process, while its peers and the kernel go   *)
(* their own way between any two system calls.  A step of the server is    *)
(* the code from one system call to the next.                              *)
(***************************************************************************)
EXTENDS Client

CONSTANTS
  MaxFds,     \* client descriptors the process may have open, 1..MaxFds
  RecvSize,   \* units one recv returns at most (4096 bytes in the program)
  AofEnabled, \* --aof
  Readers,    \* the connections whose peers keep reading (for progress)
  NoConn      \* what is behind a descriptor that is no connection

LISTEN == -1  \* listen_fd_ and signal_fd_: opened first, never reused
SIGNAL == -2

ASSUME ServerAssumption ==
  /\ MaxFds \in Nat
  /\ RecvSize \in Nat \ {0}
  /\ AofEnabled \in BOOLEAN
  /\ NoConn \notin Conns
  /\ Readers \subseteq Conns

VARIABLES
  life,              \* the step of start, or how the process ended
  clients,           \* clients_: the Client behind each open client descriptor
  connected_clients, \* ctx_.connected_clients
  services,          \* those of LISTEN and SIGNAL that are open and registered
  handler,           \* the callback that runs: its stage, descriptor and events
  executed,          \* by connection, the requests executed on the store
  aof                \* what the append-only file holds: <<connection, request>>

serverVars == <<life, clients, connected_clients, services, handler, executed, aof>>
vars == <<worldVars, loopVars, serverVars>>

ClientFds == 1..MaxFds
FreeFds == ClientFds \ DOMAIN clients
Idle == [stage |-> "idle", fd |-> 0, events |-> {}]
Running(stage, fd, events) == [stage |-> stage, fd |-> fd, events |-> events]
EpollOutcomes == IF "epoll" \in Faults THEN BOOLEAN ELSE {TRUE}

\* The steps of start before the loop runs; then it is "serving".
Starting == {"sigprocmask", "signalfd", "add signal", "socket", "bind", "listen", "add listen"}
Ended == life \in {"stopped", "failed", "killed"}

Init ==
  /\ sock = [c \in Conns |-> NewSocket]
  /\ backlog = <<>>
  /\ signalled = FALSE
  /\ interest = [fd \in {} |-> {}]
  /\ callbacks = {}
  /\ batch = <<>>
  /\ running = FALSE
  /\ life = "sigprocmask"
  /\ clients = [fd \in {} |-> NoConn]
  /\ connected_clients = 0
  /\ services = {}
  /\ handler = Idle
  /\ executed = [c \in Conns |-> 0]
  /\ aof = <<>>

-----------------------------------------------------------------------------
(* Closing.                                                                *)

Without(f, X) == Restrict(f, DOMAIN f \ X)

\* close_client, of the clients, their number and the sockets it finds: the loop
\* forgets fd; the Client and its descriptor are destroyed.
CloseClientOf(fd, cls, count, socks) ==
  /\ Unregister({fd})
  /\ clients' = Without(cls, {fd})
  /\ connected_clients' = IF count > 0 THEN count - 1 ELSE 0
  /\ sock' = [socks EXCEPT ![cls[fd].conn] = Closed(@)]

CloseClient(fd) ==
  /\ CloseClientOf(fd, clients, connected_clients, sock)
  /\ UNCHANGED <<backlog, signalled, running, services, life>>

CloseAllClients ==
  /\ clients' = Without(clients, DOMAIN clients)
  /\ connected_clients' = IF connected_clients > Cardinality(DOMAIN clients)
                          THEN connected_clients - Cardinality(DOMAIN clients) ELSE 0

\* Mutants of Shutdown: the listening socket stays open; the loop is not stopped.
ShutdownKeepsListening ==
  /\ CloseAllClients
  /\ Unregister(DOMAIN clients \cup {SIGNAL})
  /\ services' = {LISTEN}
  /\ running' = FALSE
  /\ sock' = [c \in Conns |-> IF sock[c].phase = "accepted" THEN Closed(sock[c]) ELSE sock[c]]
  /\ UNCHANGED backlog
ShutdownKeepsRunning ==
  /\ CloseAllClients
  /\ Unregister(DOMAIN clients \cup services)
  /\ services' = {}
  /\ sock' = [c \in Conns |-> IF sock[c].phase \in {"waiting", "accepted"}
                              THEN Closed(sock[c]) ELSE sock[c]]
  /\ backlog' = <<>>
  /\ UNCHANGED running

\* shutdown: every client is closed, then both services, which resets the connections
\* that wait to be accepted; the rest of the batch is still handed out.
Shutdown ==
  /\ CloseAllClients
  /\ Unregister(DOMAIN clients \cup services)
  /\ services' = {}
  /\ running' = FALSE
  /\ sock' = [c \in Conns |-> IF sock[c].phase \in {"waiting", "accepted"}
                              THEN Closed(sock[c]) ELSE sock[c]]
  /\ backlog' = <<>>

-----------------------------------------------------------------------------
(* start, and the end of the process.                                      *)

\* start returns an error, main ends the process, and every descriptor that was open is
\* closed; connections that a listening socket holds are reset.
GiveUp ==
  /\ life' = "failed"
  /\ Unregister(services)
  /\ services' = {}
  /\ sock' = [c \in Conns |-> IF sock[c].phase = "waiting" THEN Closed(sock[c]) ELSE sock[c]]
  /\ backlog' = <<>>
  /\ UNCHANGED <<signalled, batch, running, clients, connected_clients, handler, executed, aof>>

\* A step that nobody else can see, or its failure.
StartStep(step, next) ==
  /\ life = step
  /\ \/ /\ life' = next
        /\ UNCHANGED <<worldVars, loopVars, clients, connected_clients, services, handler,
                       executed, aof>>
     \/ "start" \in Faults /\ GiveUp

BlockSignals == StartStep("sigprocmask", "signalfd")
OpenSignalFd == StartStep("signalfd", "add signal")
OpenSocket == StartStep("socket", "bind")
Bind == StartStep("bind", "listen")     \* setsockopt, inet_pton and bind
Listen == StartStep("listen", "add listen")

\* A service is registered; with the listening socket the loop begins to run.
AddService(step, fd, next) ==
  /\ life = step
  /\ \/ /\ Register(fd, {"IN"})
        /\ services' = services \cup {fd}
        /\ life' = next
        /\ running' = (next = "serving")
        /\ UNCHANGED <<worldVars, batch, clients, connected_clients, handler, executed, aof>>
     \/ FALSE \in EpollOutcomes /\ GiveUp
AddSignal == AddService("add signal", SIGNAL, "socket")
AddListen == AddService("add listen", LISTEN, "serving")

\* run has ended: start and main return.
Return ==
  /\ life = "serving" /\ ~running /\ batch = <<>> /\ handler = Idle
  /\ life' = "stopped"
  /\ UNCHANGED <<worldVars, loopVars, clients, connected_clients, services, handler, executed, aof>>

StartOrReturn ==
  \/ BlockSignals \/ OpenSignalFd \/ AddSignal \/ OpenSocket \/ Bind \/ Listen \/ AddListen
  \/ Return

-----------------------------------------------------------------------------
(* The event loop: one batch after another, one callback after another.    *)

SocketAt(fd) == sock[clients[fd].conn]

RunOnce ==
  /\ handler = Idle
  /\ WaitForEvents(
       [fd \in DOMAIN interest |->
          IF fd = LISTEN THEN {e \in {"IN"} : backlog # <<>>}
          ELSE IF fd = SIGNAL THEN {e \in {"IN"} : signalled}
          ELSE Readiness(SocketAt(fd))],
       [fd \in DOMAIN interest |-> IF fd \in DOMAIN clients THEN clients[fd].conn ELSE NoConn])
  /\ UNCHANGED <<worldVars, serverVars>>

\* The event whose turn it is.
Turn == Head(batch)
Calls(fds) == handler = Idle /\ HandOut /\ Turn.fd \in fds \cap callbacks

\* A callback has closed the descriptor since the batch was collected.
SkipEvent ==
  /\ handler = Idle /\ HandOut /\ Turn.fd \notin callbacks
  /\ UNCHANGED <<worldVars, interest, callbacks, running, serverVars>>

OnListen ==
  /\ Calls({LISTEN})
  /\ handler' = Running("accept", LISTEN, Turn.events)
  /\ UNCHANGED <<worldVars, interest, callbacks, running,
                 life, clients, connected_clients, services, executed, aof>>

OnSignal ==
  /\ Calls({SIGNAL})
  /\ signalled' = FALSE
  /\ Shutdown
  /\ UNCHANGED <<life, handler, executed, aof>>

\* The client callback: a hangup closes; otherwise it reads first, then writes.
OnHangup ==
  /\ Calls(ClientFds)
  /\ Turn.events \cap {"ERR", "HUP", "RDHUP"} # {}
  /\ CloseClient(Turn.fd)
  /\ UNCHANGED <<handler, executed, aof>>

OnClient ==
  /\ Calls(ClientFds)
  /\ Turn.events \cap {"ERR", "HUP", "RDHUP"} = {}
  /\ handler' = Running(IF "IN" \in Turn.events THEN "read" ELSE "write", Turn.fd, Turn.events)
  /\ UNCHANGED <<worldVars, interest, callbacks, running,
                 life, clients, connected_clients, services, executed, aof>>

-----------------------------------------------------------------------------
(* on_new_connection: accept4 until it fails.                              *)

\* The connection c has descriptor fd and a Client in clients_.
WithClient(fd, c) ==
  [x \in DOMAIN clients \cup {fd} |-> IF x = fd THEN NewClient(c) ELSE clients[x]]
Taken(c) == [sock EXCEPT ![c].phase = "accepted"]

\* Mutant of AddFails: the client that could not be registered is not closed.
AddFailsKeeps(fd, c) ==
  /\ FALSE \in EpollOutcomes
  /\ clients' = WithClient(fd, c)
  /\ connected_clients' = connected_clients + 1
  /\ sock' = Taken(c)
  /\ UNCHANGED <<interest, callbacks>>

\* epoll_ctl(ADD) fails after the Client was put in clients_ and counted: close_client
\* takes both back.
AddFails(fd, c) ==
  /\ FALSE \in EpollOutcomes
  /\ CloseClientOf(fd, WithClient(fd, c), connected_clients + 1, Taken(c))

\* A connection gets the least free descriptor, its Client and its registration.
Accept ==
  /\ handler.stage = "accept"
  /\ backlog # <<>> /\ FreeFds # {}
  /\ LET fd == Min(FreeFds)
         c == Head(backlog)
     IN  \/ /\ clients' = WithClient(fd, c)
            /\ connected_clients' = connected_clients + 1
            /\ Register(fd, {"IN"})
            /\ sock' = Taken(c)
         \/ AddFails(fd, c)
  /\ backlog' = Tail(backlog)
  /\ UNCHANGED <<signalled, batch, running, life, services, handler, executed, aof>>

\* Mutant of AcceptEnds: at the limit of descriptors the server stops listening.
AcceptEndsForGood ==
  /\ handler.stage = "accept"
  /\ backlog = <<>> \/ FreeFds = {}
  /\ handler' = Idle
  /\ IF backlog = <<>> THEN UNCHANGED <<interest, callbacks>> ELSE Unregister({LISTEN})
  /\ UNCHANGED <<worldVars, batch, running, life, clients, connected_clients, services,
                 executed, aof>>

\* No connection waits, or no descriptor is free (EMFILE).
AcceptEnds ==
  /\ handler.stage = "accept"
  /\ backlog = <<>> \/ FreeFds = {}
  /\ handler' = Idle
  /\ UNCHANGED <<worldVars, loopVars, life, clients, connected_clients, services, executed, aof>>

-----------------------------------------------------------------------------
(* on_client_readable and on_client_writable: recv until it would block,   *)
(* then send until it would block.                                         *)

At(stage) == handler.stage = stage
Me == clients[handler.fd]
MySocket == SocketAt(handler.fd)
GoTo(stage) == handler' = IF stage = "idle" THEN Idle ELSE [handler EXCEPT !.stage = stage]

\* Aof::is_open: open, which nothing calls, is a stub that leaves fd_ closed; append
\* is a stub that writes nothing.
AofIsOpen == FALSE
AofAppend(log, c, requests) == log

\* recv returns data: the parser is fed, each request it completes is executed and
\* its reply queued; the loop goes on.
ReadData ==
  /\ At("read")
  /\ MySocket.unread > 0
  /\ LET n == Min({RecvSize, MySocket.unread})
         c == Me.conn
         done == executed[c] + Completed(Me, n)
     IN  /\ sock' = [sock EXCEPT ![c].unread = @ - n]
         /\ clients' = [clients EXCEPT ![handler.fd] = Feed(@, n, executed[c])]
         /\ executed' = [executed EXCEPT ![c] = done]
         /\ aof' = IF AofIsOpen THEN AofAppend(aof, c, (executed[c] + 1)..done) ELSE aof
  /\ UNCHANGED <<backlog, signalled, loopVars, life, connected_clients, services, handler>>

\* The stream ended, was reset or is no RESP: the connection is closed, whatever
\* replies are queued, and the callback is done.
ReadFails ==
  /\ At("read")
  /\ AtEnd(MySocket) \/ (MySocket.unread = 0 /\ MySocket.garbage)
  /\ CloseClient(handler.fd)
  /\ handler' = Idle
  /\ UNCHANGED <<batch, executed, aof>>

\* The interest of a client with nothing to send, and of one with queued replies.
ReadEvents == {"IN", "RDHUP"}
\* Mutant of WriteEvents: the interest in writing is not switched on.
WriteEventsForgotten == {"IN", "RDHUP"}
WriteEvents == {"IN", "OUT", "RDHUP"}

\* The client becomes cl and its interest events; if that fails it is closed.
Modify(events, cl, stage) ==
  \/ /\ Register(handler.fd, events)
     /\ clients' = [clients EXCEPT ![handler.fd] = cl]
     /\ GoTo(stage)
     /\ UNCHANGED <<worldVars, batch, running, life, connected_clients, services,
                    executed, aof>>
  \/ /\ FALSE \in EpollOutcomes
     /\ CloseClient(handler.fd)
     /\ GoTo("idle")
     /\ UNCHANGED <<batch, executed, aof>>

AfterReading == IF "OUT" \in handler.events THEN "write" ELSE "idle"

\* recv would block and no reply is queued.
ReadEnds ==
  /\ At("read")
  /\ Blocks(MySocket)
  /\ Me.state = "Reading"
  /\ GoTo(AfterReading)
  /\ UNCHANGED <<worldVars, loopVars, life, clients, connected_clients, services, executed, aof>>

\* recv would block; the queued replies are to be sent when there is room.
ReadEndsWithReplies ==
  /\ At("read")
  /\ Blocks(MySocket)
  /\ Me.state = "Writing"
  /\ Modify(WriteEvents, Me, AfterReading)

Room == SendSpace - Len(MySocket.sendq)

\* send takes as much as there is room for; the loop goes on.
SendData ==
  /\ At("write")
  /\ Unsent(Me) # <<>> /\ ~MySocket.rst /\ Room > 0
  /\ LET n == Min({Room, Len(Unsent(Me))})
     IN  /\ sock' = [sock EXCEPT ![Me.conn].sendq = @ \o SubSeq(Unsent(Me), 1, n)]
         /\ clients' = [clients EXCEPT ![handler.fd] = Sent(@, n)]
  /\ UNCHANGED <<backlog, signalled, loopVars, life, connected_clients, services, handler,
                 executed, aof>>

SendBlocks ==
  /\ At("write")
  /\ Unsent(Me) # <<>> /\ ~MySocket.rst /\ Room = 0
  /\ GoTo("idle")
  /\ UNCHANGED <<worldVars, loopVars, life, clients, connected_clients, services, executed, aof>>

SendFails ==
  /\ At("write")
  /\ Unsent(Me) # <<>> /\ MySocket.rst
  /\ CloseClient(handler.fd)
  /\ GoTo("idle")
  /\ UNCHANGED <<batch, executed, aof>>

\* Everything is sent: the buffer is cleared and the interest in writing switched off.
SendEnds ==
  /\ At("write")
  /\ Unsent(Me) = <<>>
  /\ Modify(ReadEvents, Flushed(Me), "idle")

-----------------------------------------------------------------------------
(* The system.  The server takes its next step as long as it has one;      *)
(* peers do as they please.                                                *)

ServerStep ==
  \/ StartOrReturn
  \/ RunOnce \/ SkipEvent \/ OnListen \/ OnSignal \/ OnHangup \/ OnClient
  \/ Accept \/ AcceptEnds
  \/ ReadData \/ ReadFails \/ ReadEnds \/ ReadEndsWithReplies
  \/ SendData \/ SendBlocks \/ SendFails \/ SendEnds

\* The kernel accepts connections once the socket listens, before epoll knows of it.
Listening == life = "add listen" \/ LISTEN \in services

WorldStep ==
  /\ \/ \E c \in Conns : \/ Listening /\ Connect(c)
                         \/ PeerSend(c) \/ PeerFault(c) \/ PeerReceive(c)
     \/ life # "sigprocmask" /\ ~Ended /\ SendSignal
  /\ UNCHANGED <<loopVars, serverVars>>

\* A signal that is not blocked yet ends the process.
Killed ==
  /\ life = "sigprocmask" /\ "signal" \in Faults
  /\ life' = "killed"
  /\ UNCHANGED <<worldVars, loopVars, clients, connected_clients, services, handler, executed, aof>>

Next == ServerStep \/ WorldStep \/ Killed

Spec == Init /\ [][Next]_vars

Receives(c) == PeerReceive(c) /\ UNCHANGED <<loopVars, serverVars>>

\* The process is scheduled, and the peers of Readers keep reading.  Nothing is
\* assumed of when peers connect, send, fail or end, or of the other peers.
FairSpec == /\ Spec
            /\ WF_vars(ServerStep)
            /\ \A c \in Readers : WF_vars(Receives(c))

-----------------------------------------------------------------------------
(* Invariants.                                                             *)

Units(n) == (1..n) \X (1..ReplyUnits)
IsSocket(s, c) ==
  /\ s.phase \in {"new", "waiting", "accepted", "closed"}
  /\ s.sent \in 0..(Requests[c] * RequestUnits)
  /\ s.unread \in 0..s.sent
  /\ {s.garbage, s.fin, s.rst} \subseteq BOOLEAN
  /\ s.sendq \in Seq(Units(executed[c])) /\ Len(s.sendq) <= SendSpace
  /\ s.received \in Seq(Units(executed[c]))

IsClient(cl) ==
  /\ cl.conn \in Conns
  /\ cl.state \in {"Reading", "Writing"}
  /\ cl.parsed \in 0..(RequestUnits - 1)
  /\ cl.write_buf \in Seq(Units(executed[cl.conn]))
  /\ cl.write_offset \in 0..Len(cl.write_buf)

\* Type correctness: in particular write_offset_ never passes the end of write_buf_
\* and no send buffer holds more than fits.
TypeOK ==
  /\ executed \in [Conns -> Nat]
  /\ DOMAIN sock = Conns /\ \A c \in Conns : IsSocket(sock[c], c)
  /\ backlog \in Seq(Conns)
  /\ signalled \in BOOLEAN /\ running \in BOOLEAN
  /\ DOMAIN clients \subseteq ClientFds /\ \A fd \in DOMAIN clients : IsClient(clients[fd])
  /\ life \in Starting \cup {"serving", "stopped", "failed", "killed"}
  /\ handler.stage \in {"idle", "accept", "read", "write"}
  /\ handler.stage \in {"read", "write"} => handler.fd \in DOMAIN clients

\* Whatever pieces requests and replies travel in, every request received on a
\* connection is executed once, and the replies that reached the peer, lie in the
\* send buffer or in write_buf_ past write_offset_ are, in this order, one reply to
\* each executed request.
RequestsExact(cl) ==
  LET s == sock[cl.conn]
  IN  executed[cl.conn] * RequestUnits + cl.parsed + s.unread = s.sent
ExactlyOnceInOrder ==
  /\ \A fd \in DOMAIN clients :
       LET c == clients[fd].conn
       IN  /\ RequestsExact(clients[fd])
           /\ ~sock[c].rst =>
                sock[c].received \o sock[c].sendq \o Unsent(clients[fd]) = Replies(0, executed[c])
  /\ \A c \in Conns : IsPrefix(sock[c].received, Replies(0, executed[c]))

\* When no callback runs for a client, epoll watches its descriptor for writing exactly
\* when replies are queued: no reply waits for an event that never comes, and the loop
\* does not spin on a socket with nothing to send.
InterestFits ==
  \A fd \in DOMAIN clients : handler.fd # fd =>
    /\ "IN" \in interest[fd]
    /\ "OUT" \in interest[fd] <=> Unsent(clients[fd]) # <<>>

\* The event loop's callbacks, the kernel's epoll set, clients_ and connected_clients
\* agree at every system call, and each accepted connection has one Client.
Registered ==
  /\ callbacks = DOMAIN interest
  /\ callbacks = DOMAIN clients \cup services
  /\ connected_clients = Cardinality(DOMAIN clients)
  /\ \A c \in Conns :
       sock[c].phase = "accepted" <=> \E fd \in DOMAIN clients : clients[fd].conn = c
  /\ IsInjective([fd \in DOMAIN clients |-> clients[fd].conn])

\* An event collected for one connection is never handed to the Client of another that
\* was given the same descriptor since.
EventsFindTheirConnection ==
  \A i \in DOMAIN batch :
    batch[i].fd \in DOMAIN clients => clients[batch[i].fd].conn = batch[i].conn

\* Once it has stopped, or given up at any step of start, the server holds no descriptor,
\* and no peer is left connected or waiting.
StoppedMeansClosed ==
  ~running /\ life \notin Starting =>
              /\ DOMAIN clients \cup services \cup callbacks = {}
              /\ backlog = <<>>
              /\ \A c \in Conns : sock[c].phase \in {"new", "closed"}

-----------------------------------------------------------------------------
(* Progress.                                                               *)

Faulty(c) == sock[c].garbage \/ sock[c].fin \/ sock[c].rst \/ sock[c].phase = "closed"

\* A peer that stays connected and reads gets the reply to each request it has sent
\* completely, whatever the other peers do, unless the server stops.
EveryRequestAnswered ==
  \A c \in Readers : \A n \in 1..Requests[c] :
    (sock[c].phase = "accepted" /\ sock[c].sent >= n * RequestUnits)
      ~> (Len(sock[c].received) >= n * ReplyUnits \/ Faulty(c))

\* A connection does not wait for ever: it is accepted when there is room, also after
\* the server ran out of descriptors, or the server stops.
WaitingAccepted ==
  \A c \in Conns : (sock[c].phase = "waiting") ~> (sock[c].phase # "waiting" \/ FreeFds = {})

\* A SIGINT or SIGTERM ends the process, also one that comes while start is under way.
SignalStops == signalled ~> Ended

\* The server implements Service: the buffers, the event loop and the descriptors do
\* not show at the other end of a connection.
Link(c) == LET s == sock[c]
           IN  IF s.phase = "closed" THEN "closed"
               ELSE IF Faulty(c) THEN "ending"
               ELSE IF s.phase = "accepted" THEN "open" ELSE "none"
Promise == INSTANCE Service WITH
  link <- [c \in Conns |-> Link(c)],
  asked <- [c \in Conns |-> sock[c].sent \div RequestUnits],
  done <- executed,
  replies <- [c \in Conns |-> sock[c].received]
ImplementsService == Promise!Spec

-----------------------------------------------------------------------------
(* A claim that does not hold.                                             *)

\* The usage message of main.cpp says that --aof enables AOF logging.  Here every
\* request is a write; none of them is ever logged.
AofRecordsWrites ==
  AofEnabled => ToSet(aof) = UNION {{c} \X (1..executed[c]) : c \in Conns}

=============================================================================
